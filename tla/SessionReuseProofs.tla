------------------------- MODULE SessionReuseProofs -------------------------
(***************************************************************************)
(* No two runs drive a conversation, no conversation forks, nobody takes   *)
(* the worktree of a run that works, what has failed is abandoned and what *)
(* is removed belonged to a run that has ended: for any number of runs and *)
(* any faults.                                                             *)
(***************************************************************************)
EXTENDS SessionReuse, TLAPS

(* A call on its way to a runner. *)
Launching(r) == caller[r] \in {"claimed", "prepared", "submitted", "pending"}

MayDrive(r) == Launching(r) \/ Drives(r)

(* A continuation that holds the slot, to go on or to withdraw. *)
Holds(r) == Launching(r) \/ caller[r] \in {"undone", "erased"}

Open(r) == Holds(r) \/ (Drives(r) /\ ~Terminal(r))

Counts(r) == Holds(r) \/ caller[r] = "launched"

(* How call, runner, transcript and session of a run go together. *)
Life ==
    \A r \in Runs :
        /\ runner[r] # "none" => caller[r] = "launched"
        /\ log[r] = "completed" => caller[r] = "launched" /\ runner[r] = "gone"
        /\ session[r] # "none" => runner[r] \in {"working", "gone"}
        /\ caller[r] = "launched" => log[r] # "absent"
        /\ Terminal(r) => caller[r] \in {"launched", "refused", "dead"}
        /\ log[r] # "absent" => turn[r].kind # "none"
        /\ Counts(r) => turn[r].kind # "none"
        /\ caller[r] \in {"idle", "checked"} => turn[r] = NoTurn /\ log[r] = "absent"
        /\ caller[r] = "idle" => parent[r] = NoRun
        /\ parent[r] # NoRun => home[r] # NoRun
        /\ caller[r] \in {"submitted", "pending"} => log[r] # "absent"

(* A Lead's slot: its generations only grow, its owner is the only run that *)
(* may still drive the current one, and the others of it ended well.        *)
LeadSlot ==
    mode = "lead_workspace" =>
        /\ \A r \in Runs : parent[r] = NoRun /\ caller[r] \notin {"checked", "prepared", "undone", "erased"}
        /\ slot.owner = NoRun => \A r \in Runs : turn[r].kind = "none"
        /\ \A r \in Runs : turn[r].kind # "none" => turn[r].epoch <= slot.epoch
        /\ \A r \in Runs : turn[r].kind # "none" /\ turn[r].epoch = slot.epoch =>
               r = slot.owner \/ log[r] = "completed"
        /\ \A r, s \in Runs : MayDrive(r) /\ MayDrive(s) /\ turn[r].epoch = turn[s].epoch => r = s
        /\ tree = NoRun

(* A lineage's slot: its owner is the only run that is open. *)
LineageSlot ==
    mode = "run_lineage" =>
        /\ slot.owner = NoRun => \A r \in Runs : caller[r] = "idle"
        /\ caller[Root] = "idle" => slot.owner = NoRun
        /\ \A r \in Runs : Open(r) => r = slot.owner
        /\ \A r \in Runs : caller[r] \in {"undone", "erased"} => parent[r] # NoRun
        /\ \A r \in Runs : caller[r] # "idle" /\ parent[r] = NoRun => r = Root
        /\ \A r \in Runs : Holds(r) /\ parent[r] # NoRun =>
               turn[r].kind = "resume" /\ turn[r].prior = before[r].owner /\ before[r].owner \in Runs
        /\ runner[Root] \in {"none", "starting"} => tree = NoRun
        /\ \A r \in Runs :
               /\ caller[r] \in {"prepared", "submitted", "pending"} \/ (Drives(r) /\ ~Terminal(r))
               => tree \in {r, NoRun}

(* The runs that were resumed, each of them once. *)
Resumed ==
    /\ \A r \in Runs : Counts(r) /\ turn[r].kind = "resume" =>
           /\ turn[r].prior \in Runs
           /\ caller[turn[r].prior] = "launched"
           /\ turn[r].prior # slot.owner
    /\ \A r, s \in Runs :
           /\ Counts(r) /\ turn[r].kind = "resume"
           /\ Counts(s) /\ turn[s].kind = "resume"
           /\ turn[r].prior = turn[s].prior
           => r = s

(* What close has listed has ended. *)
Listed ==
    /\ \A r \in closer.members : Terminal(r)
    /\ closer.place = "tip" => closer.tip \in closer.members

Inv == ReuseTypeOK /\ Life /\ LeadSlot /\ LineageSlot /\ Resumed /\ Listed

-----------------------------------------------------------------------------
(* A step that claims nothing and lets go of no launched run resumes none.  *)
LEMMA ResumedKept ==
    ASSUME Resumed, ReuseTypeOK, turn' = turn, slot'.owner = slot.owner,
           \A r \in Runs : Counts(r)' => Counts(r),
           \A r \in Runs : caller[r] = "launched" => caller'[r] = "launched"
    PROVE  Resumed'
  BY DEF Resumed, ReuseTypeOK

(* What a Lead's slot offers next is a turn of its generation or a new one. *)
LEMMA NextTurnIs ==
    ASSUME ReuseTypeOK, NEW fresh \in BOOLEAN
    PROVE  LET next == NextTurn(fresh) IN
           /\ next \in [kind : {"first", "resume"}, epoch : Nat, prior : Runs \cup {NoRun}]
           /\ slot.owner = NoRun => next = Turn("first", 0, NoRun)
           /\ slot.owner # NoRun =>
                \/ next.epoch = slot.epoch + 1
                \/ next.epoch = slot.epoch /\ log[slot.owner] = "completed"
           /\ next.kind = "resume" =>
                slot.owner \in Runs /\ next.prior = slot.owner /\ log[slot.owner] = "completed"
  BY DEF NextTurn, Turn, ReuseTypeOK, Entries

LEMMA InitInv == Init => Inv
<1> SUFFICES ASSUME Init PROVE Inv
  OBVIOUS
<1> USE ReuseAssumption DEF Init, Vacant, NoTurn, Turn, Entry, NotClosing, Closer
<1>1. ReuseTypeOK
  BY DEF ReuseTypeOK, Entries
<1>2. Life
  BY DEF Life, Counts, Holds, Launching, Terminal
<1>3. LeadSlot
  BY DEF LeadSlot, MayDrive, Launching, Drives
<1>4. LineageSlot
  BY DEF LineageSlot, Open, Holds, Launching, Drives
<1>5. Resumed
  BY DEF Resumed, Counts, Holds, Launching
<1>6. Listed
  BY DEF Listed
<1> QED
  BY <1>1, <1>2, <1>3, <1>4, <1>5, <1>6 DEF Inv

(* A Lead's slot is claimed for a turn that starts a generation, or follows *)
(* one that came to a good end.                                             *)
LEMMA LeadClaim ==
    ASSUME Inv, mode = "lead_workspace",
           NEW r \in Runs, caller[r] = "idle",
           NEW next \in [kind : {"first", "resume"}, epoch : Nat, prior : Runs \cup {NoRun}],
           slot.owner # NoRun =>
               next.epoch = slot.epoch + 1 \/ (next.epoch = slot.epoch /\ log[slot.owner] = "completed"),
           next.kind = "resume" =>
               slot.owner \in Runs /\ next.prior = slot.owner /\ log[slot.owner] = "completed",
           Go(r, "claimed"), ClaimSlot(r, next),
           UNCHANGED <<mode, parent, home, runVars, gitVars, closeVars>>
    PROVE  Inv'
<1> USE ReuseAssumption DEF Inv, Go, ClaimSlot, Entry, runVars, gitVars, closeVars
<1>0. /\ slot'.owner = r /\ slot'.epoch = next.epoch
      /\ next.epoch \in Nat /\ next.kind \in {"first", "resume"} /\ next.kind # "none"
      /\ \A s \in Runs : turn'[s] = IF s = r THEN next ELSE turn[s]
      /\ \A s \in Runs : caller'[s] = IF s = r THEN "claimed" ELSE caller[s]
  BY DEF ReuseTypeOK
<1>1. ReuseTypeOK'
  <2>1. slot' \in Entries /\ slot \in Entries
    BY DEF ReuseTypeOK, Entries
  <2>2. before' \in [Runs -> Entries]
    BY <2>1 DEF ReuseTypeOK
  <2>3. turn' \in [Runs -> [kind : {"none", "first", "resume"}, epoch : Nat, prior : Runs \cup {NoRun}]]
    BY DEF ReuseTypeOK
  <2> QED
    BY <2>1, <2>2, <2>3 DEF ReuseTypeOK
<1>2. Life'
  BY <1>0 DEF ReuseTypeOK, Life, Counts, Holds, Launching, Terminal
<1>3. LeadSlot'
  <2>1. \A s \in Runs : s # r /\ turn[s].kind # "none" =>
            turn[s].epoch < next.epoch \/ (turn[s].epoch = next.epoch /\ log[s] = "completed")
    <3> SUFFICES ASSUME NEW s \in Runs, s # r, turn[s].kind # "none"
                 PROVE  turn[s].epoch < next.epoch \/ (turn[s].epoch = next.epoch /\ log[s] = "completed")
      OBVIOUS
    <3>1. turn[s].epoch \in Nat /\ slot.epoch \in Nat
      BY DEF ReuseTypeOK, Entries
    <3>2. slot.owner # NoRun /\ turn[s].epoch <= slot.epoch
          /\ (turn[s].epoch = slot.epoch => s = slot.owner \/ log[s] = "completed")
      BY DEF LeadSlot
    <3> QED
      BY <1>0, <3>1, <3>2
  <2>2. \A s \in Runs : s # r => (MayDrive(s)' <=> MayDrive(s))
    BY <1>0 DEF MayDrive, Launching, Drives
  <2>3. \A s \in Runs : MayDrive(s) => turn[s].kind # "none" /\ log[s] # "completed"
    BY DEF ReuseTypeOK, Life, Counts, Holds, MayDrive, Launching, Drives
  <2>4. \A s, u \in Runs : MayDrive(s)' /\ MayDrive(u)' /\ turn'[s].epoch = turn'[u].epoch => s = u
    BY <1>0, <2>1, <2>2, <2>3 DEF ReuseTypeOK, LeadSlot
  <2> QED
    BY <1>0, <2>1, <2>4 DEF ReuseTypeOK, LeadSlot
<1>4. LineageSlot'
  BY DEF LineageSlot
<1>5. Resumed'
  <2>1. \A s \in Runs : s # r => (Counts(s)' <=> Counts(s))
    BY <1>0 DEF Counts, Holds, Launching
  <2>2. next.kind = "resume" => slot.owner # r /\ caller[slot.owner] = "launched"
    BY DEF ReuseTypeOK, Life
  <2> QED
    BY <1>0, <2>1, <2>2 DEF ReuseTypeOK, Resumed
<1>6. Listed'
  BY DEF Listed, Terminal
<1> QED
  BY <1>1, <1>2, <1>3, <1>4, <1>5, <1>6

LEMMA DispatchStep ==
    ASSUME Inv, NEW r \in Runs, Dispatch(r)
    PROVE  Inv'
<1> USE ReuseAssumption DEF Inv, Dispatch
<1>1. CASE Go(r, "refused") /\ UNCHANGED <<slot, turn, before>>
  <2> USE <1>1 DEF Go, runVars, gitVars, closeVars
  <2>1. ReuseTypeOK'
    BY DEF ReuseTypeOK
  <2>2. Life'
    BY DEF ReuseTypeOK, Life, Counts, Holds, Launching, Terminal
  <2>3. LeadSlot'
    BY DEF ReuseTypeOK, Life, LeadSlot, MayDrive, Launching, Drives
  <2>4. LineageSlot'
    BY DEF LineageSlot
  <2>5. Resumed'
    BY ResumedKept DEF ReuseTypeOK, Counts, Holds, Launching
  <2>6. Listed'
    BY DEF Listed, Terminal
  <2> QED
    BY <2>1, <2>2, <2>3, <2>4, <2>5, <2>6
<1>2. ASSUME NEW fresh \in BOOLEAN, Go(r, "claimed"), ClaimSlot(r, NextTurn(fresh))
      PROVE  Inv'
  BY <1>2, NextTurnIs, LeadClaim
<1> QED
  BY <1>1, <1>2

LEMMA DispatchRootStep ==
    ASSUME Inv, DispatchRoot
    PROVE  Inv'
<1> USE ReuseAssumption DEF Inv, DispatchRoot, ClaimSlot, Turn, Entry, Go, Show, callVars, runVars, gitVars, closeVars
<1>1. ReuseTypeOK'
  BY DEF ReuseTypeOK, Entries, NoTurn
<1>2. Life'
  BY DEF ReuseTypeOK, Entries, Life, Counts, Holds, Launching, Terminal, NoTurn
<1>3. LeadSlot'
  BY DEF ReuseTypeOK, Entries, Life, LeadSlot, Counts, Holds, MayDrive, Launching, Drives, Terminal, NoTurn
<1>4. LineageSlot'
  BY DEF ReuseTypeOK, Entries, Life, LineageSlot, Open, Counts, Holds, Launching, Drives, Terminal, NoTurn
<1>5. Resumed'
  BY DEF ReuseTypeOK, Entries, Life, LeadSlot, LineageSlot, Resumed, Open, Counts, Holds, Launching, Terminal, NoTurn
<1>6. Listed'
  BY DEF ReuseTypeOK, Life, Listed, Holds, Launching, Terminal
<1> QED
  BY <1>1, <1>2, <1>3, <1>4, <1>5, <1>6 DEF Inv

LEMMA CheckStep ==
    ASSUME Inv, NEW r \in Runs, NEW p \in Runs, Check(r, p)
    PROVE  Inv'
<1> USE ReuseAssumption DEF Inv, Check, Provable, DeliveryOf, Go, Show, callVars, runVars, gitVars, closeVars
<1>1. ReuseTypeOK'
  BY DEF ReuseTypeOK, Entries, NoTurn
<1>2. Life'
  BY DEF ReuseTypeOK, Entries, Life, Counts, Holds, Launching, Terminal, NoTurn
<1>3. LeadSlot'
  BY DEF ReuseTypeOK, Entries, Life, LeadSlot, Counts, Holds, MayDrive, Launching, Drives, Terminal, NoTurn
<1>4. LineageSlot'
  BY DEF ReuseTypeOK, Entries, Life, LineageSlot, Open, Counts, Holds, Launching, Drives, Terminal, NoTurn
<1>5. Resumed'
  BY DEF ReuseTypeOK, Entries, Life, LeadSlot, LineageSlot, Resumed, Open, Counts, Holds, Launching, Terminal, NoTurn
<1>6. Listed'
  BY DEF ReuseTypeOK, Life, Listed, Holds, Launching, Terminal
<1> QED
  BY <1>1, <1>2, <1>3, <1>4, <1>5, <1>6 DEF Inv

LEMMA ContinueStep ==
    ASSUME Inv, NEW r \in Runs, Continue(r)
    PROVE  Inv'
<1> USE ReuseAssumption DEF Inv, Continue, ClaimSlot, Busy, Turn, Entry, Go, Show, callVars, runVars, gitVars, closeVars
<1>1. ReuseTypeOK'
  <2>1. CASE caller' = [caller EXCEPT ![r] = "refused"] /\ UNCHANGED <<slot, turn, before>>
    BY <2>1 DEF ReuseTypeOK
  <2>2. CASE Go(r, "claimed") /\ ClaimSlot(r, Turn("resume", 0, slot.owner))
    <3>1. slot' \in Entries /\ slot \in Entries
      BY <2>2 DEF ReuseTypeOK, Entries
    <3>2. before' \in [Runs -> Entries]
      BY <2>2, <3>1 DEF ReuseTypeOK
    <3>3. turn' \in [Runs -> [kind : {"none", "first", "resume"}, epoch : Nat, prior : Runs \cup {NoRun}]]
      BY <2>2 DEF ReuseTypeOK, Entries
    <3> QED
      BY <2>2, <3>1, <3>2, <3>3 DEF ReuseTypeOK
  <2> QED
    BY <2>1, <2>2
<1>2. Life'
  BY DEF ReuseTypeOK, Entries, Life, Counts, Holds, Launching, Terminal, NoTurn
<1>3. LeadSlot'
  BY DEF ReuseTypeOK, Entries, Life, LeadSlot, Counts, Holds, MayDrive, Launching, Drives, Terminal, NoTurn
<1>4. LineageSlot'
  BY DEF ReuseTypeOK, Entries, Life, LineageSlot, Open, Counts, Holds, Launching, Drives, Terminal, NoTurn
<1>5. Resumed'
  <2>1. CASE caller' = [caller EXCEPT ![r] = "refused"] /\ UNCHANGED <<slot, turn, before>>
    BY <2>1, ResumedKept DEF ReuseTypeOK, Life, Counts, Holds, Launching
  <2>2. CASE ~Busy /\ session[slot.owner] = "native" /\ Go(r, "claimed")
             /\ ClaimSlot(r, Turn("resume", 0, slot.owner))
    <3>0. slot.owner \in Runs
      BY DEF ReuseTypeOK, Entries, LeadSlot, LineageSlot
    <3>1. slot.owner \in Runs /\ caller[slot.owner] = "launched"
      BY <2>2, <3>0 DEF ReuseTypeOK, Life
    <3>2. slot.owner # r /\ \A s \in Runs : Counts(s)' => s = r \/ Counts(s)
      BY <2>2, <3>1 DEF ReuseTypeOK, Counts, Holds, Launching
    <3>3. \A s \in Runs : turn'[s] = IF s = r THEN Turn("resume", 0, slot.owner) ELSE turn[s]
      BY <2>2 DEF ReuseTypeOK
    <3>4. \A s \in Runs : caller'[s] = IF s = r THEN "claimed" ELSE caller[s]
      BY <2>2 DEF ReuseTypeOK
    <3> QED
      BY <2>2, <3>1, <3>2, <3>3, <3>4 DEF ReuseTypeOK, Resumed
  <2> QED
    BY <2>1, <2>2
<1>6. Listed'
  BY DEF ReuseTypeOK, Life, Listed, Holds, Launching, Terminal
<1> QED
  BY <1>1, <1>2, <1>3, <1>4, <1>5, <1>6 DEF Inv

LEMMA EntryAgesStep ==
    ASSUME Inv, EntryAges
    PROVE  Inv'
<1> USE ReuseAssumption DEF Inv, EntryAges, Go, Show, callVars, runVars, gitVars, closeVars
<1>1. ReuseTypeOK'
  BY DEF ReuseTypeOK, Entries, NoTurn
<1>2. Life'
  BY DEF ReuseTypeOK, Entries, Life, Counts, Holds, Launching, Terminal, NoTurn
<1>3. LeadSlot'
  BY DEF ReuseTypeOK, Entries, Life, LeadSlot, Counts, Holds, MayDrive, Launching, Drives, Terminal, NoTurn
<1>4. LineageSlot'
  BY DEF ReuseTypeOK, Entries, Life, LineageSlot, Open, Counts, Holds, Launching, Drives, Terminal, NoTurn
<1>5. Resumed'
  BY DEF ReuseTypeOK, Entries, Life, LeadSlot, LineageSlot, Resumed, Open, Counts, Holds, Launching, Terminal, NoTurn
<1>6. Listed'
  BY DEF ReuseTypeOK, Life, Listed, Holds, Launching, Terminal
<1> QED
  BY <1>1, <1>2, <1>3, <1>4, <1>5, <1>6 DEF Inv

LEMMA PrepareStep ==
    ASSUME Inv, NEW r \in Runs, Prepare(r)
    PROVE  Inv'
<1> USE ReuseAssumption DEF Inv, Prepare, Provable, Go, Show, callVars, runVars, gitVars, closeVars
<1>1. ReuseTypeOK'
  BY DEF ReuseTypeOK, Entries, NoTurn
<1>2. Life'
  BY DEF ReuseTypeOK, Entries, Life, Counts, Holds, Launching, Terminal, NoTurn
<1>3. LeadSlot'
  BY DEF ReuseTypeOK, Entries, Life, LeadSlot, Counts, Holds, MayDrive, Launching, Drives, Terminal, NoTurn
<1>4. LineageSlot'
  BY DEF ReuseTypeOK, Entries, Life, LineageSlot, Open, Counts, Holds, Launching, Drives, Terminal, NoTurn
<1>5. Resumed'
  <2>1. \A s \in Runs : Counts(s)' => Counts(s)
    BY DEF ReuseTypeOK, Counts, Holds, Launching
  <2>2. \A s \in Runs : caller[s] = "launched" => caller'[s] = "launched"
    BY DEF ReuseTypeOK
  <2> QED
    BY <2>1, <2>2, ResumedKept
<1>6. Listed'
  BY DEF ReuseTypeOK, Life, Listed, Holds, Launching, Terminal
<1> QED
  BY <1>1, <1>2, <1>3, <1>4, <1>5, <1>6 DEF Inv

LEMMA SubmitStep ==
    ASSUME Inv, NEW r \in Runs, Submit(r)
    PROVE  Inv'
<1> USE ReuseAssumption DEF Inv, Submit, Go, Show, callVars, runVars, gitVars, closeVars
<1>1. ReuseTypeOK'
  BY DEF ReuseTypeOK, Entries, NoTurn
<1>2. Life'
  BY DEF ReuseTypeOK, Entries, Life, Counts, Holds, Launching, Terminal, NoTurn
<1>3. LeadSlot'
  BY DEF ReuseTypeOK, Entries, Life, LeadSlot, Counts, Holds, MayDrive, Launching, Drives, Terminal, NoTurn
<1>4. LineageSlot'
  BY DEF ReuseTypeOK, Entries, Life, LineageSlot, Open, Counts, Holds, Launching, Drives, Terminal, NoTurn
<1>5. Resumed'
  BY DEF ReuseTypeOK, Entries, Life, LeadSlot, LineageSlot, Resumed, Open, Counts, Holds, Launching, Terminal, NoTurn
<1>6. Listed'
  BY DEF ReuseTypeOK, Life, Listed, Holds, Launching, Terminal
<1> QED
  BY <1>1, <1>2, <1>3, <1>4, <1>5, <1>6 DEF Inv

LEMMA MarkPendingStep ==
    ASSUME Inv, NEW r \in Runs, MarkPending(r)
    PROVE  Inv'
<1> USE ReuseAssumption DEF Inv, MarkPending, Go, Show, callVars, runVars, gitVars, closeVars
<1>1. ReuseTypeOK'
  BY DEF ReuseTypeOK, Entries, NoTurn
<1>2. Life'
  BY DEF ReuseTypeOK, Entries, Life, Counts, Holds, Launching, Terminal, NoTurn
<1>3. LeadSlot'
  BY DEF ReuseTypeOK, Entries, Life, LeadSlot, Counts, Holds, MayDrive, Launching, Drives, Terminal, NoTurn
<1>4. LineageSlot'
  BY DEF ReuseTypeOK, Entries, Life, LineageSlot, Open, Counts, Holds, Launching, Drives, Terminal, NoTurn
<1>5. Resumed'
  BY DEF ReuseTypeOK, Entries, Life, LeadSlot, LineageSlot, Resumed, Open, Counts, Holds, Launching, Terminal, NoTurn
<1>6. Listed'
  BY DEF ReuseTypeOK, Life, Listed, Holds, Launching, Terminal
<1> QED
  BY <1>1, <1>2, <1>3, <1>4, <1>5, <1>6 DEF Inv

LEMMA LaunchStep ==
    ASSUME Inv, NEW r \in Runs, Launch(r)
    PROVE  Inv'
<1> USE ReuseAssumption DEF Inv, Launch, Go, Show, callVars, runVars, gitVars, closeVars
<1>1. ReuseTypeOK'
  BY DEF ReuseTypeOK, Entries, NoTurn
<1>2. Life'
  BY DEF ReuseTypeOK, Entries, Life, Counts, Holds, Launching, Terminal, NoTurn
<1>3. LeadSlot'
  BY DEF ReuseTypeOK, Entries, Life, LeadSlot, Counts, Holds, MayDrive, Launching, Drives, Terminal, NoTurn
<1>4. LineageSlot'
  BY DEF ReuseTypeOK, Entries, Life, LineageSlot, Open, Counts, Holds, Launching, Drives, Terminal, NoTurn
<1>5. Resumed'
  BY DEF ReuseTypeOK, Entries, Life, LeadSlot, LineageSlot, Resumed, Open, Counts, Holds, Launching, Terminal, NoTurn
<1>6. Listed'
  BY DEF ReuseTypeOK, Life, Listed, Holds, Launching, Terminal
<1> QED
  BY <1>1, <1>2, <1>3, <1>4, <1>5, <1>6 DEF Inv

LEMMA LaunchFailsStep ==
    ASSUME Inv, NEW r \in Runs, LaunchFails(r)
    PROVE  Inv'
<1> USE ReuseAssumption DEF Inv, LaunchFails, Go, Show, callVars, runVars, gitVars, closeVars
<1>1. ReuseTypeOK'
  BY DEF ReuseTypeOK, Entries, NoTurn
<1>2. Life'
  BY DEF ReuseTypeOK, Entries, Life, Counts, Holds, Launching, Terminal, NoTurn
<1>3. LeadSlot'
  BY DEF ReuseTypeOK, Entries, Life, LeadSlot, Counts, Holds, MayDrive, Launching, Drives, Terminal, NoTurn
<1>4. LineageSlot'
  BY DEF ReuseTypeOK, Entries, Life, LineageSlot, Open, Counts, Holds, Launching, Drives, Terminal, NoTurn
<1>5. Resumed'
  BY DEF ReuseTypeOK, Entries, Life, LeadSlot, LineageSlot, Resumed, Open, Counts, Holds, Launching, Terminal, NoTurn
<1>6. Listed'
  BY DEF ReuseTypeOK, Life, Listed, Holds, Launching, Terminal
<1> QED
  BY <1>1, <1>2, <1>3, <1>4, <1>5, <1>6 DEF Inv

LEMMA UndoStep ==
    ASSUME Inv, NEW r \in Runs, Undo(r)
    PROVE  Inv'
<1> USE ReuseAssumption DEF Inv, Undo, Go, Show, callVars, runVars, gitVars, closeVars
<1>1. ReuseTypeOK'
  <2> DEFINE moved == [ref EXCEPT ![home[r]] = parent[r]]
  <2>1. parent[r] \in Runs
    BY DEF ReuseTypeOK
  <2>2. moved \in [Runs -> Runs \cup {NoRun, Base}]
    BY <2>1 DEF ReuseTypeOK
  <2>3. [moved EXCEPT ![r] = NoRun] \in [Runs -> Runs \cup {NoRun, Base}]
    BY <2>2
  <2>4. [ref EXCEPT ![r] = NoRun] \in [Runs -> Runs \cup {NoRun, Base}]
    BY DEF ReuseTypeOK
  <2>5. ref' \in [Runs -> Runs \cup {NoRun, Base}]
    BY <2>3, <2>4 DEF ReuseTypeOK
  <2> HIDE DEF moved
  <2>6. tree' \in Runs \cup {NoRun}
    BY DEF ReuseTypeOK
  <2>7. caller' \in [Runs -> {"idle", "checked", "claimed", "prepared", "submitted", "pending",
                            "launched", "undone", "erased", "refused", "dead"}]
    BY DEF ReuseTypeOK
  <2> QED
    BY <2>5, <2>6, <2>7 DEF ReuseTypeOK
<1>2. Life'
  BY DEF ReuseTypeOK, Entries, Life, Counts, Holds, Launching, Terminal, NoTurn
<1>3. LeadSlot'
  BY DEF ReuseTypeOK, Entries, Life, LeadSlot, Counts, Holds, MayDrive, Launching, Drives, Terminal, NoTurn
<1>4. LineageSlot'
  BY DEF ReuseTypeOK, Entries, Life, LineageSlot, Open, Counts, Holds, Launching, Drives, Terminal, NoTurn
<1>5. Resumed'
  <2>1. \A s \in Runs : Counts(s)' => Counts(s)
    BY DEF ReuseTypeOK, Counts, Holds, Launching
  <2>2. \A s \in Runs : caller[s] = "launched" => caller'[s] = "launched"
    BY DEF ReuseTypeOK
  <2> QED
    BY <2>1, <2>2, ResumedKept
<1>6. Listed'
  BY DEF ReuseTypeOK, Life, Listed, Holds, Launching, Terminal
<1> QED
  BY <1>1, <1>2, <1>3, <1>4, <1>5, <1>6 DEF Inv

LEMMA EraseStep ==
    ASSUME Inv, NEW r \in Runs, Erase(r)
    PROVE  Inv'
<1> USE ReuseAssumption DEF Inv, Erase, Go, Show, callVars, runVars, gitVars, closeVars
<1>1. ReuseTypeOK'
  BY DEF ReuseTypeOK, Entries, NoTurn
<1>2. Life'
  BY DEF ReuseTypeOK, Entries, Life, Counts, Holds, Launching, Terminal, NoTurn
<1>3. LeadSlot'
  BY DEF ReuseTypeOK, Entries, Life, LeadSlot, Counts, Holds, MayDrive, Launching, Drives, Terminal, NoTurn
<1>4. LineageSlot'
  BY DEF ReuseTypeOK, Entries, Life, LineageSlot, Open, Counts, Holds, Launching, Drives, Terminal, NoTurn
<1>5. Resumed'
  BY DEF ReuseTypeOK, Entries, Life, LeadSlot, LineageSlot, Resumed, Open, Counts, Holds, Launching, Terminal, NoTurn
<1>6. Listed'
  BY DEF ReuseTypeOK, Life, Listed, Holds, Launching, Terminal
<1> QED
  BY <1>1, <1>2, <1>3, <1>4, <1>5, <1>6 DEF Inv

LEMMA ReleaseStep ==
    ASSUME Inv, NEW r \in Runs, Release(r)
    PROVE  Inv'
<1> USE ReuseAssumption DEF Inv, Release, Go, Show, callVars, runVars, gitVars, closeVars
<1>1. ReuseTypeOK'
  BY DEF ReuseTypeOK, Entries, NoTurn
<1>2. Life'
  BY DEF ReuseTypeOK, Entries, Life, Counts, Holds, Launching, Terminal, NoTurn
<1>3. LeadSlot'
  BY DEF ReuseTypeOK, Entries, Life, LeadSlot, Counts, Holds, MayDrive, Launching, Drives, Terminal, NoTurn
<1>4. LineageSlot'
  BY DEF ReuseTypeOK, Entries, Life, LineageSlot, Open, Counts, Holds, Launching, Drives, Terminal, NoTurn
<1>5. Resumed'
  BY DEF ReuseTypeOK, Entries, Life, LeadSlot, LineageSlot, Resumed, Open, Counts, Holds, Launching, Terminal, NoTurn
<1>6. Listed'
  BY DEF ReuseTypeOK, Life, Listed, Holds, Launching, Terminal
<1> QED
  BY <1>1, <1>2, <1>3, <1>4, <1>5, <1>6 DEF Inv

LEMMA CallDiesStep ==
    ASSUME Inv, NEW r \in Runs, CallDies(r)
    PROVE  Inv'
<1> USE ReuseAssumption DEF Inv, CallDies, Go, Show, callVars, runVars, gitVars, closeVars
<1>1. ReuseTypeOK'
  BY DEF ReuseTypeOK, Entries, NoTurn
<1>2. Life'
  BY DEF ReuseTypeOK, Entries, Life, Counts, Holds, Launching, Terminal, NoTurn
<1>3. LeadSlot'
  BY DEF ReuseTypeOK, Entries, Life, LeadSlot, Counts, Holds, MayDrive, Launching, Drives, Terminal, NoTurn
<1>4. LineageSlot'
  BY DEF ReuseTypeOK, Entries, Life, LineageSlot, Open, Counts, Holds, Launching, Drives, Terminal, NoTurn
<1>5. Resumed'
  BY DEF ReuseTypeOK, Entries, Life, LeadSlot, LineageSlot, Resumed, Open, Counts, Holds, Launching, Terminal, NoTurn
<1>6. Listed'
  BY DEF ReuseTypeOK, Life, Listed, Holds, Launching, Terminal
<1> QED
  BY <1>1, <1>2, <1>3, <1>4, <1>5, <1>6 DEF Inv

LEMMA StartStep ==
    ASSUME Inv, NEW r \in Runs, Start(r)
    PROVE  Inv'
<1> USE ReuseAssumption DEF Inv, Start, MayStart, Go, Show, callVars, runVars, gitVars, closeVars
<1>1. ReuseTypeOK'
  BY DEF ReuseTypeOK, Entries, NoTurn
<1>2. Life'
  BY DEF ReuseTypeOK, Entries, Life, Counts, Holds, Launching, Terminal, NoTurn
<1>3. LeadSlot'
  BY DEF ReuseTypeOK, Entries, Life, LeadSlot, Counts, Holds, MayDrive, Launching, Drives, Terminal, NoTurn
<1>4. LineageSlot'
  BY DEF ReuseTypeOK, Entries, Life, LineageSlot, Open, Counts, Holds, Launching, Drives, Terminal, NoTurn
<1>5. Resumed'
  BY DEF ReuseTypeOK, Entries, Life, LeadSlot, LineageSlot, Resumed, Open, Counts, Holds, Launching, Terminal, NoTurn
<1>6. Listed'
  BY DEF ReuseTypeOK, Life, Listed, Holds, Launching, Terminal
<1> QED
  BY <1>1, <1>2, <1>3, <1>4, <1>5, <1>6 DEF Inv

LEMMA StartFailsStep ==
    ASSUME Inv, NEW r \in Runs, StartFails(r)
    PROVE  Inv'
<1> USE ReuseAssumption DEF Inv, StartFails, Go, Show, callVars, runVars, gitVars, closeVars
<1>1. ReuseTypeOK'
  BY DEF ReuseTypeOK, Entries, NoTurn
<1>2. Life'
  BY DEF ReuseTypeOK, Entries, Life, Counts, Holds, Launching, Terminal, NoTurn
<1>3. LeadSlot'
  BY DEF ReuseTypeOK, Entries, Life, LeadSlot, Counts, Holds, MayDrive, Launching, Drives, Terminal, NoTurn
<1>4. LineageSlot'
  BY DEF ReuseTypeOK, Entries, Life, LineageSlot, Open, Counts, Holds, Launching, Drives, Terminal, NoTurn
<1>5. Resumed'
  BY DEF ReuseTypeOK, Entries, Life, LeadSlot, LineageSlot, Resumed, Open, Counts, Holds, Launching, Terminal, NoTurn
<1>6. Listed'
  BY DEF ReuseTypeOK, Life, Listed, Holds, Launching, Terminal
<1> QED
  BY <1>1, <1>2, <1>3, <1>4, <1>5, <1>6 DEF Inv

LEMMA CompleteStep ==
    ASSUME Inv, NEW r \in Runs, Complete(r)
    PROVE  Inv'
<1> USE ReuseAssumption DEF Inv, Complete, Go, Show, callVars, runVars, gitVars, closeVars
<1>1. ReuseTypeOK'
  BY DEF ReuseTypeOK, Entries, NoTurn
<1>2. Life'
  BY DEF ReuseTypeOK, Entries, Life, Counts, Holds, Launching, Terminal, NoTurn
<1>3. LeadSlot'
  BY DEF ReuseTypeOK, Entries, Life, LeadSlot, Counts, Holds, MayDrive, Launching, Drives, Terminal, NoTurn
<1>4. LineageSlot'
  BY DEF ReuseTypeOK, Entries, Life, LineageSlot, Open, Counts, Holds, Launching, Drives, Terminal, NoTurn
<1>5. Resumed'
  BY DEF ReuseTypeOK, Entries, Life, LeadSlot, LineageSlot, Resumed, Open, Counts, Holds, Launching, Terminal, NoTurn
<1>6. Listed'
  BY DEF ReuseTypeOK, Life, Listed, Holds, Launching, Terminal
<1> QED
  BY <1>1, <1>2, <1>3, <1>4, <1>5, <1>6 DEF Inv

LEMMA FailStep ==
    ASSUME Inv, NEW r \in Runs, Fail(r)
    PROVE  Inv'
<1> USE ReuseAssumption DEF Inv, Fail, Go, Show, callVars, runVars, gitVars, closeVars
<1>1. ReuseTypeOK'
  BY DEF ReuseTypeOK, Entries, NoTurn
<1>2. Life'
  BY DEF ReuseTypeOK, Entries, Life, Counts, Holds, Launching, Terminal, NoTurn
<1>3. LeadSlot'
  BY DEF ReuseTypeOK, Entries, Life, LeadSlot, Counts, Holds, MayDrive, Launching, Drives, Terminal, NoTurn
<1>4. LineageSlot'
  BY DEF ReuseTypeOK, Entries, Life, LineageSlot, Open, Counts, Holds, Launching, Drives, Terminal, NoTurn
<1>5. Resumed'
  BY DEF ReuseTypeOK, Entries, Life, LeadSlot, LineageSlot, Resumed, Open, Counts, Holds, Launching, Terminal, NoTurn
<1>6. Listed'
  BY DEF ReuseTypeOK, Life, Listed, Holds, Launching, Terminal
<1> QED
  BY <1>1, <1>2, <1>3, <1>4, <1>5, <1>6 DEF Inv

LEMMA RunnerDiesStep ==
    ASSUME Inv, NEW r \in Runs, RunnerDies(r)
    PROVE  Inv'
<1> USE ReuseAssumption DEF Inv, RunnerDies, Go, Show, callVars, runVars, gitVars, closeVars
<1>1. ReuseTypeOK'
  BY DEF ReuseTypeOK, Entries, NoTurn
<1>2. Life'
  BY DEF ReuseTypeOK, Entries, Life, Counts, Holds, Launching, Terminal, NoTurn
<1>3. LeadSlot'
  BY DEF ReuseTypeOK, Entries, Life, LeadSlot, Counts, Holds, MayDrive, Launching, Drives, Terminal, NoTurn
<1>4. LineageSlot'
  BY DEF ReuseTypeOK, Entries, Life, LineageSlot, Open, Counts, Holds, Launching, Drives, Terminal, NoTurn
<1>5. Resumed'
  BY DEF ReuseTypeOK, Entries, Life, LeadSlot, LineageSlot, Resumed, Open, Counts, Holds, Launching, Terminal, NoTurn
<1>6. Listed'
  BY DEF ReuseTypeOK, Life, Listed, Holds, Launching, Terminal
<1> QED
  BY <1>1, <1>2, <1>3, <1>4, <1>5, <1>6 DEF Inv

LEMMA SettleStep ==
    ASSUME Inv, NEW r \in Runs, Settle(r)
    PROVE  Inv'
<1> USE ReuseAssumption DEF Inv, Settle, Go, Show, callVars, runVars, gitVars, closeVars
<1>1. ReuseTypeOK'
  BY DEF ReuseTypeOK, Entries, NoTurn
<1>2. Life'
  BY DEF ReuseTypeOK, Entries, Life, Counts, Holds, Launching, Terminal, NoTurn
<1>3. LeadSlot'
  BY DEF ReuseTypeOK, Entries, Life, LeadSlot, Counts, Holds, MayDrive, Launching, Drives, Terminal, NoTurn
<1>4. LineageSlot'
  BY DEF ReuseTypeOK, Entries, Life, LineageSlot, Open, Counts, Holds, Launching, Drives, Terminal, NoTurn
<1>5. Resumed'
  BY DEF ReuseTypeOK, Entries, Life, LeadSlot, LineageSlot, Resumed, Open, Counts, Holds, Launching, Terminal, NoTurn
<1>6. Listed'
  BY DEF ReuseTypeOK, Life, Listed, Holds, Launching, Terminal
<1> QED
  BY <1>1, <1>2, <1>3, <1>4, <1>5, <1>6 DEF Inv

LEMMA StopStep ==
    ASSUME Inv, NEW r \in Runs, Stop(r)
    PROVE  Inv'
<1> USE ReuseAssumption DEF Inv, Stop, Go, Show, callVars, runVars, gitVars, closeVars
<1>1. ReuseTypeOK'
  BY DEF ReuseTypeOK, Entries, NoTurn
<1>2. Life'
  BY DEF ReuseTypeOK, Entries, Life, Counts, Holds, Launching, Terminal, NoTurn
<1>3. LeadSlot'
  BY DEF ReuseTypeOK, Entries, Life, LeadSlot, Counts, Holds, MayDrive, Launching, Drives, Terminal, NoTurn
<1>4. LineageSlot'
  BY DEF ReuseTypeOK, Entries, Life, LineageSlot, Open, Counts, Holds, Launching, Drives, Terminal, NoTurn
<1>5. Resumed'
  BY DEF ReuseTypeOK, Entries, Life, LeadSlot, LineageSlot, Resumed, Open, Counts, Holds, Launching, Terminal, NoTurn
<1>6. Listed'
  BY DEF ReuseTypeOK, Life, Listed, Holds, Launching, Terminal
<1> QED
  BY <1>1, <1>2, <1>3, <1>4, <1>5, <1>6 DEF Inv

LEMMA CloseListStep ==
    ASSUME Inv, CloseList
    PROVE  Inv'
<1> USE ReuseAssumption DEF Inv, CloseList, Closing, Closer, Go, Show, callVars, runVars, gitVars, closeVars
<1>1. ReuseTypeOK'
  BY DEF ReuseTypeOK, Entries, NoTurn
<1>2. Life'
  BY DEF ReuseTypeOK, Entries, Life, Counts, Holds, Launching, Terminal, NoTurn
<1>3. LeadSlot'
  BY DEF ReuseTypeOK, Entries, Life, LeadSlot, Counts, Holds, MayDrive, Launching, Drives, Terminal, NoTurn
<1>4. LineageSlot'
  BY DEF ReuseTypeOK, Entries, Life, LineageSlot, Open, Counts, Holds, Launching, Drives, Terminal, NoTurn
<1>5. Resumed'
  BY DEF ReuseTypeOK, Entries, Life, LeadSlot, LineageSlot, Resumed, Open, Counts, Holds, Launching, Terminal, NoTurn
<1>6. Listed'
  BY DEF ReuseTypeOK, Life, Listed, Holds, Launching, Terminal
<1> QED
  BY <1>1, <1>2, <1>3, <1>4, <1>5, <1>6 DEF Inv

LEMMA CloseGateStep ==
    ASSUME Inv, CloseGate
    PROVE  Inv'
<1> USE ReuseAssumption DEF Inv, CloseGate, Closing, NotClosing, Closer, Go, Show, callVars, runVars, gitVars, closeVars
<1>1. ReuseTypeOK'
  BY DEF ReuseTypeOK, Entries, NoTurn
<1>2. Life'
  BY DEF ReuseTypeOK, Entries, Life, Counts, Holds, Launching, Terminal, NoTurn
<1>3. LeadSlot'
  BY DEF ReuseTypeOK, Entries, Life, LeadSlot, Counts, Holds, MayDrive, Launching, Drives, Terminal, NoTurn
<1>4. LineageSlot'
  BY DEF ReuseTypeOK, Entries, Life, LineageSlot, Open, Counts, Holds, Launching, Drives, Terminal, NoTurn
<1>5. Resumed'
  BY DEF ReuseTypeOK, Entries, Life, LeadSlot, LineageSlot, Resumed, Open, Counts, Holds, Launching, Terminal, NoTurn
<1>6. Listed'
  BY DEF ReuseTypeOK, Life, Listed, Holds, Launching, Terminal
<1> QED
  BY <1>1, <1>2, <1>3, <1>4, <1>5, <1>6 DEF Inv

LEMMA CloseMarkStep ==
    ASSUME Inv, CloseMark
    PROVE  Inv'
<1> USE ReuseAssumption DEF Inv, CloseMark, Closing, Go, Show, callVars, runVars, gitVars, closeVars
<1>1. ReuseTypeOK'
  BY DEF ReuseTypeOK, Entries, NoTurn
<1>2. Life'
  BY DEF ReuseTypeOK, Entries, Life, Counts, Holds, Launching, Terminal, NoTurn
<1>3. LeadSlot'
  BY DEF ReuseTypeOK, Entries, Life, LeadSlot, Counts, Holds, MayDrive, Launching, Drives, Terminal, NoTurn
<1>4. LineageSlot'
  BY DEF ReuseTypeOK, Entries, Life, LineageSlot, Open, Counts, Holds, Launching, Drives, Terminal, NoTurn
<1>5. Resumed'
  BY DEF ReuseTypeOK, Entries, Life, LeadSlot, LineageSlot, Resumed, Open, Counts, Holds, Launching, Terminal, NoTurn
<1>6. Listed'
  BY DEF ReuseTypeOK, Life, Listed, Holds, Launching, Terminal
<1> QED
  BY <1>1, <1>2, <1>3, <1>4, <1>5, <1>6 DEF Inv

LEMMA CloseTipStep ==
    ASSUME Inv, CloseTip
    PROVE  Inv'
<1> USE ReuseAssumption DEF Inv, CloseTip, Closing, NotClosing, Closer, Go, Show, callVars, runVars, gitVars, closeVars
<1>1. ReuseTypeOK'
  BY DEF ReuseTypeOK, Entries, NoTurn
<1>2. Life'
  BY DEF ReuseTypeOK, Entries, Life, Counts, Holds, Launching, Terminal, NoTurn
<1>3. LeadSlot'
  BY DEF ReuseTypeOK, Entries, Life, LeadSlot, Counts, Holds, MayDrive, Launching, Drives, Terminal, NoTurn
<1>4. LineageSlot'
  BY DEF ReuseTypeOK, Entries, Life, LineageSlot, Open, Counts, Holds, Launching, Drives, Terminal, NoTurn
<1>5. Resumed'
  BY DEF ReuseTypeOK, Entries, Life, LeadSlot, LineageSlot, Resumed, Open, Counts, Holds, Launching, Terminal, NoTurn
<1>6. Listed'
  BY DEF ReuseTypeOK, Life, Listed, Holds, Launching, Terminal
<1> QED
  BY <1>1, <1>2, <1>3, <1>4, <1>5, <1>6 DEF Inv

LEMMA CloseRemoveStep ==
    ASSUME Inv, CloseRemove
    PROVE  Inv'
<1> USE ReuseAssumption DEF Inv, CloseRemove, Closing, NotClosing, Closer, Go, Show, callVars, runVars, gitVars, closeVars
<1>1. ReuseTypeOK'
  BY DEF ReuseTypeOK, Entries, NoTurn
<1>2. Life'
  BY DEF ReuseTypeOK, Entries, Life, Counts, Holds, Launching, Terminal, NoTurn
<1>3. LeadSlot'
  BY DEF ReuseTypeOK, Entries, Life, LeadSlot, Counts, Holds, MayDrive, Launching, Drives, Terminal, NoTurn
<1>4. LineageSlot'
  BY DEF ReuseTypeOK, Entries, Life, LineageSlot, Open, Counts, Holds, Launching, Drives, Terminal, NoTurn
<1>5. Resumed'
  BY DEF ReuseTypeOK, Entries, Life, LeadSlot, LineageSlot, Resumed, Open, Counts, Holds, Launching, Terminal, NoTurn
<1>6. Listed'
  BY DEF ReuseTypeOK, Life, Listed, Holds, Launching, Terminal
<1> QED
  BY <1>1, <1>2, <1>3, <1>4, <1>5, <1>6 DEF Inv

-----------------------------------------------------------------------------
LEMMA NextStep == Inv /\ [Next]_vars => Inv'
<1> SUFFICES ASSUME Inv, [Next]_vars PROVE Inv'
  OBVIOUS
<1>1. CASE DispatchRoot
  BY <1>1, DispatchRootStep
<1>2. ASSUME NEW r \in Runs, Call(r) PROVE Inv'
  BY <1>2, DispatchStep, CheckStep, ContinueStep, PrepareStep, SubmitStep, MarkPendingStep,
     LaunchStep, LaunchFailsStep, UndoStep, EraseStep, ReleaseStep, CallDiesStep DEF Call
<1>3. ASSUME NEW r \in Runs, Runner(r) PROVE Inv'
  BY <1>3, StartStep, StartFailsStep, CompleteStep, FailStep, RunnerDiesStep, SettleStep,
     StopStep DEF Runner
<1>4. CASE EntryAges
  BY <1>4, EntryAgesStep
<1>5. CASE Close
  BY <1>5, CloseListStep, CloseGateStep, CloseMarkStep, CloseTipStep, CloseRemoveStep DEF Close
<1>6. CASE UNCHANGED vars
  <2> USE <1>6 DEF Inv, vars, callVars, runVars, gitVars, closeVars
  <2>1. ReuseTypeOK' /\ Life'
    BY DEF ReuseTypeOK, Life, Counts, Holds, Launching, Terminal
  <2>2. LeadSlot' /\ LineageSlot'
    BY DEF LeadSlot, LineageSlot, Open, Holds, MayDrive, Launching, Drives, Terminal
  <2>3. Resumed' /\ Listed'
    BY DEF Resumed, Listed, Counts, Holds, Launching, Terminal
  <2> QED
    BY <2>1, <2>2, <2>3
<1> QED
  BY <1>1, <1>2, <1>3, <1>4, <1>5, <1>6 DEF Next

LEMMA InvInvariant == Spec => []Inv
  BY InitInv, NextStep, PTL DEF Spec

(* The state has its types: in every state of a slot, its runs and close. *)
THEOREM ReuseTypeCorrect == Spec => []ReuseTypeOK
<1>1. Inv => ReuseTypeOK
  BY DEF Inv
<1> QED
  BY <1>1, InvInvariant, PTL

(* Contract 6 of session reuse: no two runs drive a conversation, but for a *)
(* run of a lineage that was stopped and whose worker lingers.              *)
THEOREM OneDriverCorrect == Spec => []OneDriver
<1>1. Inv => OneDriver
  <2> SUFFICES ASSUME Inv, NEW r \in Runs, NEW s \in Runs,
                      Drives(r), Drives(s), turn[r].epoch = turn[s].epoch
               PROVE  r = s \/ (mode = "run_lineage" /\ (Terminal(r) \/ Terminal(s)))
    BY DEF OneDriver
  <2>1. CASE mode = "lead_workspace"
    BY <2>1 DEF Inv, LeadSlot, MayDrive
  <2>2. CASE mode = "run_lineage"
    BY <2>2 DEF Inv, LineageSlot, Open
  <2> QED
    BY <2>1, <2>2, ReuseAssumption DEF Inv, ReuseTypeOK
<1> QED
  BY <1>1, InvInvariant, PTL

(* No conversation forks: continuations that were launched have different   *)
(* predecessors, however many claims were made, withdrawn or left behind.   *)
THEOREM NeverForksCorrect == Spec => []NeverForks
<1>1. Inv => NeverForks
  BY DEF Inv, Resumed, NeverForks, Counts
<1> QED
  BY <1>1, InvInvariant, PTL

(* The worktree of a lineage stays on the branch of the run that works.     *)
THEOREM TreeIsOwnCorrect == Spec => []TreeIsOwn
<1>1. Inv => TreeIsOwn
  BY DEF Inv, LineageSlot, TreeIsOwn, Drives
<1> QED
  BY <1>1, InvInvariant, PTL

(* What has failed is abandoned: a Lead's next turn never shares the        *)
(* generation of a failed one (resolveReuseTurn).                           *)
THEOREM FailedIsAbandonedCorrect == Spec => FailedIsAbandoned
<1>1. ASSUME Inv, Next, NEW r \in Runs, NEW s \in Runs, mode = "lead_workspace",
             caller[r] = "idle", caller'[r] = "claimed", log[s] = "failed"
      PROVE  turn'[r].epoch # turn[s].epoch
  <2>1. Dispatch(r)
    <3>1. ~DispatchRoot /\ ~Close
      BY <1>1 DEF DispatchRoot, Close, CloseList, CloseGate, CloseMark, CloseTip, CloseRemove, Closing
    <3>2. ~EntryAges
      BY <1>1 DEF EntryAges, callVars
    <3>3. \A u \in Runs : ~Runner(u)
      BY <1>1 DEF Runner, Start, StartFails, Complete, Fail, RunnerDies, Settle, Stop, callVars
    <3>4. PICK u \in Runs : Call(u)
      BY <1>1, <3>1, <3>2, <3>3 DEF Next
    <3>5. caller'[r] # caller[r] => u = r
      BY <1>1, <3>4 DEF Inv, ReuseTypeOK, Call, Dispatch, Check, Continue, Prepare, Submit, MarkPending,
           Launch, LaunchFails, Undo, Erase, Release, CallDies, Go
    <3>6. u = r
      BY <1>1, <3>5
    <3> QED
      BY <1>1, <3>4, <3>6 DEF Call, Check, Continue, Prepare, Submit, MarkPending,
           Launch, LaunchFails, Undo, Erase, Release, CallDies
  <2>2. ~Busy /\ \E fresh \in BOOLEAN : turn' = [turn EXCEPT ![r] = NextTurn(fresh)]
    BY <1>1, <2>1 DEF Dispatch, Go, ClaimSlot, Inv, ReuseTypeOK
  <2>3. \E fresh \in BOOLEAN : turn'[r] = NextTurn(fresh)
    BY <2>2, <1>1 DEF Inv, ReuseTypeOK
  <2>4. slot.owner # NoRun
          /\ (turn'[r].epoch = slot.epoch + 1
                \/ (turn'[r].epoch = slot.epoch /\ log[slot.owner] = "completed"))
    BY <1>1, <2>3, NextTurnIs DEF Inv, Life, LeadSlot
  <2>5. turn[s].kind # "none" /\ turn[s].epoch \in Nat /\ slot.epoch \in Nat
    BY <1>1 DEF Inv, ReuseTypeOK, Entries, Life
  <2>6. turn[s].epoch <= slot.epoch
          /\ (turn[s].epoch = slot.epoch => s = slot.owner \/ log[s] = "completed")
    BY <1>1, <2>5 DEF Inv, LeadSlot
  <2> QED
    BY <1>1, <2>4, <2>5, <2>6
<1>2. Inv /\ [Next]_vars =>
        [\A r, s \in Runs :
           /\ mode = "lead_workspace"
           /\ caller[r] = "idle" /\ caller'[r] = "claimed"
           /\ log[s] = "failed"
           => turn'[r].epoch # turn[s].epoch]_vars
  BY <1>1
<1> QED
  BY <1>2, InvInvariant, PTL DEF Spec, FailedIsAbandoned

(* lineage-close removes a worktree only on the branch of a run that has    *)
(* ended, and nothing else removes it.                                      *)
THEOREM CloseTakesOnlyFinishedCorrect == Spec => CloseTakesOnlyFinished
<1>1. ASSUME Inv, Next, tree # NoRun, tree' = NoRun
      PROVE  Terminal(closer.tip)
  <2>1. ~DispatchRoot /\ ~EntryAges
    BY <1>1 DEF DispatchRoot, EntryAges, gitVars
  <2>2. \A r \in Runs : ~Runner(r)
    BY <1>1, ReuseAssumption DEF Runner, Start, StartFails, Complete, Fail, RunnerDies, Settle, Stop, gitVars
  <2>3. ASSUME NEW r \in Runs PROVE ~Call(r)
    <3>1. ~Prepare(r)
      BY <1>1, ReuseAssumption DEF Prepare, gitVars
    <3>2. ~Undo(r)
      BY <1>1, ReuseAssumption DEF Undo, Inv, Life, gitVars
    <3>3. \A p \in Runs : ~Check(r, p)
      BY <1>1 DEF Check, gitVars
    <3> QED
      BY <1>1, <3>1, <3>2, <3>3 DEF Call, Dispatch, Continue, Submit, MarkPending,
           Launch, LaunchFails, Erase, Release, CallDies, gitVars
  <2>4. Close
    BY <1>1, <2>1, <2>2, <2>3 DEF Next
  <2>5. CloseRemove
    BY <1>1, <2>4 DEF Close, CloseList, CloseGate, CloseMark, CloseTip, gitVars
  <2> QED
    BY <1>1, <2>5 DEF CloseRemove, Closing, Inv, Listed
<1>2. Inv /\ [Next]_vars => [tree # NoRun /\ tree' = NoRun => Terminal(closer.tip)]_vars
  BY <1>1
<1> QED
  BY <1>2, InvInvariant, PTL DEF Spec, CloseTakesOnlyFinished

=============================================================================
