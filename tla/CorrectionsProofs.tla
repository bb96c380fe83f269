--------------------------- MODULE CorrectionsProofs ---------------------------
(***************************************************************************)
(* Proofs about Corrections for any number of Leads, ids and prompts and   *)
(* any set of disturbances.                                                *)
(*                                                                         *)
(* Events are only ever added.  That a correction is sent once rests on    *)
(* the claim being on record before it is sent (SentIsClaimed,             *)
(* HandIsClaimed); that nothing is outstanding after the cleanup on the    *)
(* run being terminal by then (ClosingIsTerminal), which is what an        *)
(* interrupted run lacks.                                                  *)
(***************************************************************************)
EXTENDS Corrections, TLAPS

(* What has reached the provider is claimed. *)
SentIsClaimed == \A id \in Ids : sent[id] <= 1 /\ (sent[id] > 0 => Has("claimed", id))

(* What is about to be sent is claimed and has not been sent.              *)
HandIsClaimed == loop = "sending" => Has("claimed", hand) /\ sent[hand] = 0

(* A cleanup starts when the run is terminal. *)
ClosingIsTerminal ==
    (loop = "cleaning" \/ closed # "no") /\ aborting = "no" => state = "terminal"

Inv ==
    /\ TypeOK
    /\ SentIsClaimed
    /\ HandIsClaimed
    /\ NobodyMisled
    /\ ClosingIsTerminal
    /\ ClosedIsSettled

-----------------------------------------------------------------------------
(* An append adds events of its type for its ids and nothing else. *)
LEMMA WriteHas ==
    ASSUME NEW t, NEW ids, Write(t, ids), NEW u, NEW id
    PROVE  Has(u, id)' <=> Has(u, id) \/ (u = t /\ id \in ids)
<1>1. ASSUME Has(u, id)' PROVE Has(u, id) \/ (u = t /\ id \in ids)
  <2>1. PICK e \in log' : e.type = u /\ e.id = id
    BY <1>1 DEF Has
  <2>2. CASE e \in log
    BY <2>1, <2>2 DEF Has
  <2>3. CASE e \notin log
    <3>1. PICK i \in ids : e = Entry(t, i, "none")
      BY <2>1, <2>3 DEF Write
    <3> QED
      BY <2>1, <3>1 DEF Entry
  <2> QED
    BY <2>2, <2>3
<1>2. ASSUME Has(u, id) PROVE Has(u, id)'
  BY <1>2 DEF Has, Write
<1>3. ASSUME u = t, id \in ids PROVE Has(u, id)'
  <2>1. Entry(t, id, "none") \in log'
    BY <1>3 DEF Write
  <2> QED
    BY <2>1, <1>3 DEF Has, Entry
<1> QED
  BY <1>1, <1>2, <1>3

(* What an append adds are correction events. *)
LEMMA WriteType ==
    ASSUME NEW t \in Types, NEW ids \in SUBSET Ids, Write(t, ids), log \subseteq Entries
    PROVE  log' \subseteq Entries
BY DEF Write, Entry, Entries

(* A call's answer concerns that call alone. *)
LEMMA AnswerType ==
    ASSUME NEW l \in Leads, NEW id \in Ids, NEW prompt \in Prompts, NEW outcome \in Outcomes,
           Answer(l, id, prompt, outcome), lead \in [Leads -> Calls]
    PROVE  lead' \in [Leads -> Calls]
BY DEF Answer, Calls

(* What is known of an id is one of the outcomes of run_correct. *)
LEMMA KnownType ==
    ASSUME NEW id, NEW prompt
    PROVE  Known(id, prompt) \in Outcomes
BY DEF Known, Outcomes

(* The inductive invariant holds initially.                                *)
LEMMA InitInv == Init => Inv
<1> SUFFICES ASSUME Init PROVE Inv
  OBVIOUS
<1> USE DEF Init
<1>1. TypeOK
  <2>1. lead \in [Leads -> Calls]
    BY DEF Calls
  <2>2. loop \in Places /\ (hand # NoId <=> loop \in {"sending", "recording"})
    BY DEF Places
  <2> QED
    BY <2>1, <2>2 DEF TypeOK
<1>2. SentIsClaimed /\ HandIsClaimed
  BY DEF SentIsClaimed, HandIsClaimed
<1>3. NobodyMisled
  BY DEF NobodyMisled
<1>4. ClosingIsTerminal /\ ClosedIsSettled
  BY DEF ClosingIsTerminal, ClosedIsSettled
<1> QED
  BY <1>1, <1>2, <1>3, <1>4 DEF Inv

-----------------------------------------------------------------------------
(* A step that appends nothing leaves what is on record alone. *)
LEMMA QuietHas ==
    ASSUME UNCHANGED log, NEW u, NEW id
    PROVE  Has(u, id)' <=> Has(u, id)
BY DEF Has

(* Steps that append nothing and answer nobody keep the invariant. *)
LEMMA QuietInv ==
    ASSUME Inv,
           \/ Spawned \/ Poll \/ SkipClaim \/ PollDone \/ StreamEnds \/ End \/ Close
           \/ CloseAborted \/ AbortClaim \/ Stop \/ Interrupt \/ Crash \/ Resume \/ ResumedEnds
    PROVE  Inv'
<1> USE IdsAssumption DEF Inv, TypeOK, Places
<1>1. UNCHANGED <<log, lead, sent>>
  BY DEF runVars, Spawned, Poll, SkipClaim, PollDone, StreamEnds, End, Close, CloseAborted, AbortClaim, Stop, Interrupt, Crash, Resume, ResumedEnds
<1>2. TypeOK'
  BY <1>1 DEF runVars, Spawned, Poll, SkipClaim, PollDone, StreamEnds, End, Close, CloseAborted, AbortClaim, Stop, Interrupt, Crash, Resume, ResumedEnds
<1>3. SentIsClaimed' /\ NobodyMisled'
  BY <1>1 DEF SentIsClaimed, NobodyMisled, Has
<1>4. HandIsClaimed'
  BY <1>1 DEF HandIsClaimed, Has, runVars, Spawned, Poll, SkipClaim, PollDone, StreamEnds, End, Close, CloseAborted, AbortClaim, Stop, Interrupt, Crash, Resume, ResumedEnds
<1>5. ClosingIsTerminal'
  BY DEF ClosingIsTerminal, runVars, Spawned, Poll, SkipClaim, PollDone, StreamEnds, End, Close, CloseAborted, AbortClaim, Stop, Interrupt, Crash, Resume, ResumedEnds
<1>6. ClosedIsSettled'
  <2>1. Outstanding' = Outstanding
    BY <1>1 DEF Outstanding, Requested, Settled, Delivered, Has
  <2>2. closed' = "done" /\ aborting' = "no" => closed = "done" /\ aborting = "no"
    BY DEF runVars, Spawned, Poll, SkipClaim, PollDone, StreamEnds, End, Close, CloseAborted, AbortClaim, Stop, Interrupt, Crash, Resume, ResumedEnds
  <2> QED
    BY <2>1, <2>2 DEF ClosedIsSettled
<1> QED
  BY <1>2, <1>3, <1>4, <1>5, <1>6

-----------------------------------------------------------------------------
(* run_correct. *)

(* Whoever is told that an id is queued, pending or delivered asked with    *)
(* the prompt that is on record.                                           *)
LEMMA KnownIsRequested ==
    ASSUME NEW id, NEW prompt,
           Known(id, prompt) \in {"queued", "pending", "delivered"}
    PROVE  Entry("requested", id, prompt) \in log
BY DEF Known

(* The unlocked read changes nothing but the call's own answer. *)
LEMMA AskInv ==
    ASSUME Inv, NEW l \in Leads, Ask(l)
    PROVE  Inv'
<1> USE DEF Inv
<1>1. UNCHANGED <<state, log, loop, todo, hand, taken, closed, aborting, sent>>
  BY DEF Ask, runVars
<1>2. PICK id \in Ids, prompt \in Prompts :
        \/ \E outcome \in Outcomes :
             /\ Answer(l, id, prompt, outcome)
             /\ outcome \in {"queued", "pending", "delivered"}
                => Entry("requested", id, prompt) \in log
        \/ lead' = [lead EXCEPT ![l] = [at |-> "queueing", id |-> id, prompt |-> prompt]]
  BY KnownType, KnownIsRequested DEF Ask, Outcomes
<1>3. lead' \in [Leads -> Calls]
  BY <1>2, AnswerType DEF Calls, TypeOK
<1>4. NobodyMisled'
  BY <1>1, <1>2 DEF NobodyMisled, Answer, TypeOK
<1>5. TypeOK'
  BY <1>1, <1>3 DEF TypeOK
<1>6. SentIsClaimed' /\ HandIsClaimed' /\ ClosingIsTerminal' /\ ClosedIsSettled'
  BY <1>1 DEF SentIsClaimed, HandIsClaimed, ClosingIsTerminal, ClosedIsSettled,
              Outstanding, Requested, Settled, Delivered, Has
<1> QED
  BY <1>4, <1>5, <1>6

(* The append under the lock: never on a run that is terminal. *)
LEMMA QueueInv ==
    ASSUME Inv, NEW l \in Leads, Queue(l)
    PROVE  Inv'
<1> USE DEF Inv
<1>1. UNCHANGED <<state, loop, todo, hand, taken, closed, aborting, sent>>
  BY DEF Queue, runVars
<1>2. lead[l] \in [at : {"queueing"}, id : Ids, prompt : Prompts]
  BY DEF Queue, TypeOK, Calls
<1> DEFINE id == lead[l].id
           prompt == lead[l].prompt
           request == Entry("requested", id, prompt)
<1>3. id \in Ids /\ prompt \in Prompts
  BY <1>2
<1>4. PICK outcome \in Outcomes :
        /\ Answer(l, id, prompt, outcome)
        /\ outcome \in {"queued", "pending", "delivered"} => request \in log'
  BY KnownType, KnownIsRequested DEF Queue, Outcomes
<1>5. log' = log \/ (state # "terminal" /\ log' = log \cup {request})
  BY DEF Queue
<1>6. request \in Entries
  BY <1>3 DEF Entry, Entries, Types
<1>7. TypeOK'
  <2>1. lead' \in [Leads -> Calls]
    BY <1>3, <1>4, AnswerType DEF TypeOK
  <2> QED
    BY <1>1, <1>5, <1>6, <2>1 DEF TypeOK
<1>8. \A u, i : Has(u, i) => Has(u, i)'
  BY <1>5 DEF Has
<1>9. \A i : Has("claimed", i)' => Has("claimed", i)
  BY <1>5 DEF Has, Entry
<1>10. SentIsClaimed' /\ HandIsClaimed'
  BY <1>1, <1>8 DEF SentIsClaimed, HandIsClaimed
<1>11. NobodyMisled'
  BY <1>4, <1>5 DEF NobodyMisled, Answer, TypeOK
<1>12. ClosingIsTerminal'
  BY <1>1 DEF ClosingIsTerminal
<1>13. ClosedIsSettled'
  <2> SUFFICES ASSUME closed = "done", aborting = "no" PROVE Outstanding' = {}
    BY <1>1 DEF ClosedIsSettled
  <2>1. log' = log
    BY <1>5 DEF ClosingIsTerminal
  <2> QED
    BY <2>1 DEF ClosedIsSettled, Outstanding, Requested, Settled, Delivered, Has
<1> QED
  BY <1>7, <1>10, <1>11, <1>12, <1>13

-----------------------------------------------------------------------------
(* The runner's own appends. *)

(* An append that requests nothing keeps what the Leads were told true,    *)
(* keeps claims on record and makes nothing outstanding.                   *)
LEMMA WriteKeeps ==
    ASSUME NobodyMisled, UNCHANGED lead, NEW t, NEW ids, Write(t, ids), t # "requested"
    PROVE  /\ NobodyMisled'
           /\ \A id : Has("claimed", id) => Has("claimed", id)'
           /\ Outstanding' \subseteq Outstanding
<1>1. NobodyMisled'
  BY DEF NobodyMisled, Write
<1>2. \A id : Has("claimed", id) => Has("claimed", id)'
  BY WriteHas
<1>3. \A id : Has("requested", id)' <=> Has("requested", id)
  BY WriteHas
<1>4. \A id : Settled(id) => Settled(id)'
  BY WriteHas DEF Settled, Delivered
<1>5. Outstanding' \subseteq Outstanding
  BY <1>3, <1>4 DEF Outstanding, Requested
<1> QED
  BY <1>1, <1>2, <1>5

(* A claim is on record before anything is sent, and is of a correction    *)
(* that has never been claimed and so never sent.                          *)
LEMMA ClaimInv ==
    ASSUME Inv, Claim
    PROVE  Inv'
<1> USE DEF Inv
<1>1. PICK id \in todo : /\ Pending(id) /\ Write("claimed", {id})
                         /\ hand' = id /\ todo' = todo \ {id}
  BY DEF Claim
<1>2. UNCHANGED <<state, lead, taken, closed, aborting, sent>> /\ loop' = "sending" /\ loop = "claiming"
  BY DEF Claim
<1>3. id \in Ids
  BY DEF TypeOK
<1>4. log' \subseteq Entries
  BY <1>1, <1>3, WriteType DEF TypeOK, Types
<1>5. TypeOK'
  BY <1>1, <1>2, <1>3, <1>4, IdsAssumption DEF TypeOK, Places
<1>6. /\ NobodyMisled'
      /\ \A i : Has("claimed", i) => Has("claimed", i)'
      /\ Outstanding' \subseteq Outstanding
  BY <1>1, <1>2, WriteKeeps
<1>7. Has("claimed", id)'
  BY <1>1, WriteHas
<1>8. sent[id] = 0
  BY <1>1, <1>3 DEF Pending, SentIsClaimed, TypeOK
<1>9. SentIsClaimed' /\ HandIsClaimed'
  BY <1>1, <1>2, <1>6, <1>7, <1>8 DEF SentIsClaimed, HandIsClaimed
<1>10. ClosingIsTerminal' /\ ClosedIsSettled'
  BY <1>2, <1>6 DEF ClosingIsTerminal, ClosedIsSettled
<1> QED
  BY <1>5, <1>6, <1>9, <1>10

(* The provider is handed what is in hand, once. *)
LEMMA SendInv ==
    ASSUME Inv, Send
    PROVE  Inv'
<1> USE DEF Inv
<1>1. UNCHANGED <<state, log, lead, todo, hand, closed, aborting>>
      /\ loop' = "recording" /\ loop = "sending" /\ taken' \in BOOLEAN
  BY DEF Send
<1>2. sent' = sent \/ sent' = [sent EXCEPT ![hand] = @ + 1]
  BY DEF Send
<1>3. hand \in Ids
  BY <1>1 DEF TypeOK
<1>4. TypeOK'
  BY <1>1, <1>2, <1>3 DEF TypeOK, Places
<1>5. SentIsClaimed'
  BY <1>1, <1>2, <1>3 DEF SentIsClaimed, HandIsClaimed, TypeOK, Has
<1>6. HandIsClaimed' /\ NobodyMisled' /\ ClosingIsTerminal' /\ ClosedIsSettled'
  BY <1>1 DEF HandIsClaimed, NobodyMisled, ClosingIsTerminal, ClosedIsSettled,
              Outstanding, Requested, Settled, Delivered, Has
<1> QED
  BY <1>4, <1>5, <1>6

(* What became of the correction in hand. *)
LEMMA RecordInv ==
    ASSUME Inv, Record
    PROVE  Inv'
<1> USE DEF Inv
<1>1. UNCHANGED <<state, lead, todo, taken, closed, aborting, sent>>
      /\ loop' = "claiming" /\ loop = "recording" /\ hand' = NoId
  BY DEF Record
<1>2. hand \in Ids
  BY <1>1 DEF TypeOK
<1>3. CASE UNCHANGED log
  BY <1>1, <1>3, IdsAssumption
     DEF TypeOK, Places, SentIsClaimed, HandIsClaimed, NobodyMisled, ClosingIsTerminal,
         ClosedIsSettled, Outstanding, Requested, Settled, Delivered, Has
<1>4. CASE \E t \in {"delivered", "delivery_failed"} : Write(t, {hand})
  <2>1. PICK t \in {"delivered", "delivery_failed"} : Write(t, {hand})
    BY <1>4
  <2>2. log' \subseteq Entries
    BY <1>2, <2>1, WriteType DEF TypeOK, Types
  <2>3. TypeOK'
    BY <1>1, <2>2, IdsAssumption DEF TypeOK, Places
  <2>4. /\ NobodyMisled'
        /\ \A i : Has("claimed", i) => Has("claimed", i)'
        /\ Outstanding' \subseteq Outstanding
    BY <1>1, <2>1, WriteKeeps
  <2>5. SentIsClaimed' /\ HandIsClaimed' /\ ClosingIsTerminal' /\ ClosedIsSettled'
    BY <1>1, <2>4 DEF SentIsClaimed, HandIsClaimed, ClosingIsTerminal, ClosedIsSettled
  <2> QED
    BY <2>3, <2>4, <2>5
<1> QED
  BY <1>3, <1>4 DEF Record

(* The cleanup's rejection leaves nothing outstanding. *)
LEMMA RejectInv ==
    ASSUME Inv, Reject
    PROVE  Inv'
<1> USE DEF Inv
<1>1. UNCHANGED <<state, lead, todo, hand, taken, sent>> /\ closed = "rejecting"
  BY DEF Reject
<1>2. loop' \in Places /\ aborting' \in {"no", "killing", "cleaning", "rejecting", "over"}
      /\ (aborting' = "no" <=> aborting = "no")
      /\ (loop' = loop \/ (loop = "rejecting" /\ loop' = "over"))
  BY DEF Reject, TypeOK, Places
<1>3. CASE closed' = "lost" /\ UNCHANGED log
  BY <1>1, <1>2, <1>3
     DEF TypeOK, SentIsClaimed, HandIsClaimed, NobodyMisled, ClosingIsTerminal,
         ClosedIsSettled, Has
<1>4. CASE closed' = "done" /\ Write("rejected", Outstanding)
  <2>1. log' \subseteq Entries
    BY <1>4, WriteType DEF TypeOK, Types, Outstanding
  <2>2. TypeOK'
    BY <1>1, <1>2, <1>4, <2>1 DEF TypeOK
  <2>3. /\ NobodyMisled'
        /\ \A i : Has("claimed", i) => Has("claimed", i)'
        /\ Outstanding' \subseteq Outstanding
    BY <1>1, <1>4, WriteKeeps
  <2>4. SentIsClaimed' /\ HandIsClaimed' /\ ClosingIsTerminal'
    BY <1>1, <1>2, <2>3 DEF SentIsClaimed, HandIsClaimed, ClosingIsTerminal
  <2>5. \A id \in Outstanding : Settled(id)'
    BY <1>4, WriteHas DEF Settled
  <2>6. Outstanding' = {}
    BY <2>3, <2>5 DEF Outstanding
  <2> QED
    BY <2>2, <2>3, <2>4, <2>6 DEF ClosedIsSettled
<1> QED
  BY <1>3, <1>4 DEF Reject

-----------------------------------------------------------------------------
(* Inv is an invariant. *)
THEOREM Invariance == Spec => []Inv
<1>1. ASSUME Inv, [Next]_vars PROVE Inv'
  <2>1. CASE UNCHANGED vars
    BY <1>1, <2>1 DEF vars, runVars, Inv, TypeOK, SentIsClaimed, HandIsClaimed, NobodyMisled,
       ClosingIsTerminal, ClosedIsSettled, Outstanding, Requested, Settled, Delivered, Has
  <2>2. CASE \E l \in Leads : Ask(l) \/ Queue(l)
    BY <1>1, <2>2, AskInv, QueueInv
  <2>3. CASE Claim \/ Send \/ Record \/ Reject
    BY <1>1, <2>3, ClaimInv, SendInv, RecordInv, RejectInv
  <2> QED
    BY <1>1, <2>1, <2>2, <2>3, QuietInv DEF Next, Runner
<1> QED
  BY <1>1, InitInv, PTL DEF Spec

(* The variables keep their types. *)
THEOREM TypeCorrect == Spec => []TypeOK
<1>1. Inv => TypeOK
  BY DEF Inv
<1> QED
  BY <1>1, Invariance, PTL

(* No correction reaches the provider twice, however many Leads, ids and   *)
(* prompts there are and whatever disturbs the runner.                     *)
THEOREM Once == Spec => []SentOnce
<1>1. Inv => SentOnce
  BY DEF Inv, SentIsClaimed, SentOnce
<1> QED
  BY <1>1, Invariance, PTL

(* No Lead is told that words are queued, pending or delivered that are    *)
(* not its own.                                                            *)
THEOREM Honest == Spec => []NobodyMisled
<1>1. Inv => NobodyMisled
  BY DEF Inv
<1> QED
  BY <1>1, Invariance, PTL

(* After a runner's cleanup nothing is outstanding, and nothing ever is    *)
(* again, unless the run was interrupted.                                  *)
THEOREM NothingLeftBehind == Spec => []ClosedIsSettled
<1>1. Inv => ClosedIsSettled
  BY DEF Inv
<1> QED
  BY <1>1, Invariance, PTL
=============================================================================
