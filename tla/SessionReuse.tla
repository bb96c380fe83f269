---------------------------- MODULE SessionReuse ----------------------------
(***************************************************************************)
(* Who may drive a provider conversation.  A routing slot names the run    *)
(* that owns a conversation.  In mode lead_workspace the dispatches of one *)
(* Lead take turns in a slot (application/runDispatch.js); in mode         *)
(* run_lineage a delivery is continued, run after run, in the worktree of  *)
(* its root (application/runContinue.js) until the lineage is closed       *)
(* (application/lineageClose.js).  What a slot allows is decided in        *)
(* application/sessionReuse.js.                                            *)
(*                                                                         *)
(* A decision and the write it leads to are one step: both are made under  *)
(* the slot's key lock.  A run stands for the call that dispatches or      *)
(* continues it as well as for its runner.                                 *)
(***************************************************************************)
EXTENDS Naturals

CONSTANTS
    Runs,       \* the runs that may be dispatched
    Root,       \* in mode run_lineage, the delivery that is continued
    NoRun,      \* no owner, no parent, no branch, no worktree
    Base,       \* the commit a lineage starts from; a run names its own delivery
    Modes,      \* the modes a slot may be of
    Faults      \* what else may happen: crash, stop, close

ASSUME ReuseAssumption ==
    /\ Root \in Runs
    /\ NoRun \notin Runs
    /\ Base \notin Runs /\ Base # NoRun
    /\ Modes \subseteq {"lead_workspace", "run_lineage"}
    /\ Faults \subseteq {"crash", "stop", "close"}

VARIABLES
    mode,       \* of the slot
    slot,       \* its entry: the owner, whether updatedAt is recent, the epoch
    caller,     \* where the call that launches a run is
    turn,       \* the turn a call claimed: first or resume, epoch, prior run
    parent,     \* the run a call continues
    home,       \* the branch the worktree was on when a call looked at it
    before,     \* the entry a continuation claimed the slot from
    log,        \* the state a run's transcript shows
    session,    \* the provider session it names
    runner,     \* the runner of a run, with its worker
    tree,       \* the branch the lineage's worktree is on
    ref,        \* the commit the branch of a run points at
    closed,     \* whether the root's transcript has run.lineage_closed
    closer      \* a call of lineage-close: members it read, tip it found

callVars == <<caller, turn, parent, home, before>>
runVars == <<log, session, runner>>
gitVars == <<tree, ref>>
closeVars == <<closed, closer>>
vars == <<mode, slot, callVars, runVars, gitVars, closeVars>>

Entry(owner, fresh, epoch) == [owner |-> owner, fresh |-> fresh, epoch |-> epoch]
Vacant == Entry(NoRun, FALSE, 0)

Turn(kind, epoch, prior) == [kind |-> kind, epoch |-> epoch, prior |-> prior]
NoTurn == Turn("none", 0, NoRun)

Closer(place, members, tip) == [place |-> place, members |-> members, tip |-> tip]
NotClosing == Closer("idle", {}, NoRun)

Terminal(r) == log[r] \in {"completed", "failed"}

(* The commit a run delivered, or the one it started from. *)
DeliveryOf(r) == IF log[r] = "completed" THEN r ELSE Base

Init ==
    /\ mode \in Modes
    /\ slot = Vacant
    /\ caller = [r \in Runs |-> "idle"]
    /\ turn = [r \in Runs |-> NoTurn]
    /\ parent = [r \in Runs |-> NoRun]
    /\ home = [r \in Runs |-> NoRun]
    /\ before = [r \in Runs |-> Vacant]
    /\ log = [r \in Runs |-> "absent"]
    /\ session = [r \in Runs |-> "none"]
    /\ runner = [r \in Runs |-> "none"]
    /\ tree = NoRun
    /\ ref = [r \in Runs |-> NoRun]
    /\ closed = FALSE
    /\ closer = NotClosing

Go(r, place) == caller' = [caller EXCEPT ![r] = place]

Show(r, state) == log' = [log EXCEPT ![r] = state]

-----------------------------------------------------------------------------
(* The slot. *)

(* Mutant of Busy: an entry that is not recent is free whatever its run is  *)
(* doing.                                                                   *)
BusyIfRecent == slot.owner # NoRun /\ slot.fresh /\ ~Terminal(slot.owner)

(* The owner is in flight: its transcript is not terminal, or not there yet *)
(* and the entry recent.                                                    *)
Busy ==
    /\ slot.owner # NoRun
    /\ IF log[slot.owner] = "absent" THEN slot.fresh ELSE ~Terminal(slot.owner)

(* Mutant of NextTurn: a slot whose run has left no transcript is reused as *)
(* it is.                                                                   *)
SameGeneration(fresh) ==
    LET owner == slot.owner IN
    IF owner = NoRun THEN Turn("first", 0, NoRun)
    ELSE IF log[owner] = "failed" \/ fresh THEN Turn("first", slot.epoch + 1, NoRun)
    ELSE IF session[owner] = "none" THEN Turn("first", slot.epoch, NoRun)
    ELSE Turn("resume", slot.epoch, owner)

(* Mutant of NextTurn: any terminal run with a session is resumed. *)
ResumeAnyEnd(fresh) ==
    LET owner == slot.owner IN
    IF owner = NoRun THEN Turn("first", 0, NoRun)
    ELSE IF ~Terminal(owner) \/ fresh THEN Turn("first", slot.epoch + 1, NoRun)
    ELSE IF session[owner] = "none" THEN Turn("first", slot.epoch, NoRun)
    ELSE Turn("resume", slot.epoch, owner)

(* resolveReuseTurn on a slot that is not busy: a conversation that came to *)
(* a good end is resumed, one that did not is abandoned for a new           *)
(* generation, and so is one the Lead wants no more (fresh).                *)
NextTurn(fresh) ==
    LET owner == slot.owner IN
    IF owner = NoRun THEN Turn("first", 0, NoRun)
    ELSE IF log[owner] # "completed" \/ fresh THEN Turn("first", slot.epoch + 1, NoRun)
    ELSE IF session[owner] = "none" THEN Turn("first", slot.epoch, NoRun)
    ELSE Turn("resume", slot.epoch, owner)

ClaimSlot(r, claimed) ==
    /\ slot' = Entry(r, TRUE, claimed.epoch)
    /\ turn' = [turn EXCEPT ![r] = claimed]
    /\ before' = [before EXCEPT ![r] = slot]

(* A dispatch claims the slot, or finds it busy and is refused. *)
Dispatch(r) ==
    /\ mode = "lead_workspace" /\ caller[r] = "idle"
    /\ IF Busy
         THEN /\ Go(r, "refused")
              /\ UNCHANGED <<slot, turn, before>>
         ELSE /\ Go(r, "claimed")
              /\ \E fresh \in BOOLEAN : ClaimSlot(r, NextTurn(fresh))
    /\ UNCHANGED <<mode, parent, home, runVars, gitVars, closeVars>>

(* resolveLineageFirstTurn: nobody else knows the key of a new root. *)
DispatchRoot ==
    /\ mode = "run_lineage" /\ caller[Root] = "idle"
    /\ Go(Root, "claimed")
    /\ ClaimSlot(Root, Turn("first", 0, NoRun))
    /\ UNCHANGED <<mode, parent, home, runVars, gitVars, closeVars>>

(* proveContinuationWorktree: a delivered run has its commit, whatever the  *)
(* worktree is at; of one that delivered nothing it must be at the base.    *)
Provable(p) ==
    /\ tree # NoRun
    /\ log[p] = "completed" \/ ref[tree] = Base

(* continueRun, read-only: the parent is terminal, the lineage open, its    *)
(* session can be resumed and its worktree is proved.                       *)
Check(r, p) ==
    /\ mode = "run_lineage" /\ caller[r] = "idle" /\ r # Root
    /\ Terminal(p) /\ session[p] = "native"
    /\ ~closed
    /\ Provable(p)
    /\ Go(r, "checked")
    /\ parent' = [parent EXCEPT ![r] = p]
    /\ home' = [home EXCEPT ![r] = tree]
    /\ UNCHANGED <<mode, slot, turn, before, runVars, gitVars, closeVars>>

(* Mutant of Continue: the run the slot names is resumed without a look at  *)
(* its session.                                                             *)
ContinueUnseen(r) ==
    /\ caller[r] = "checked"
    /\ IF Busy
         THEN /\ Go(r, "refused")
              /\ UNCHANGED <<slot, turn, before>>
         ELSE /\ Go(r, "claimed")
              /\ ClaimSlot(r, Turn("resume", 0, IF log[slot.owner] = "absent" THEN parent[r] ELSE slot.owner))
    /\ UNCHANGED <<mode, parent, home, runVars, gitVars, closeVars>>

(* resolveLineageContinuationTurn: the turn resumes the run the slot names, *)
(* which may have come after the parent, if its session can be resumed.     *)
Continue(r) ==
    /\ caller[r] = "checked"
    /\ IF Busy \/ session[slot.owner] # "native"
         THEN /\ Go(r, "refused")
              /\ UNCHANGED <<slot, turn, before>>
         ELSE /\ Go(r, "claimed")
              /\ ClaimSlot(r, Turn("resume", 0, slot.owner))
    /\ UNCHANGED <<mode, parent, home, runVars, gitVars, closeVars>>

(* Time passes, for a caller that is slow as for one that is dead. *)
EntryAges ==
    /\ slot.fresh
    /\ slot' = [slot EXCEPT !.fresh = FALSE]
    /\ UNCHANGED <<mode, callVars, runVars, gitVars, closeVars>>

-----------------------------------------------------------------------------
(* From the claim to the runner. *)

(* prepareContinuationWorktree, which proves the worktree again and moves   *)
(* it to a new branch at the base, or finds that it has changed.            *)
Prepare(r) ==
    /\ caller[r] = "claimed" /\ parent[r] # NoRun
    /\ IF Provable(parent[r])
         THEN Go(r, "prepared") /\ tree' = r /\ ref' = [ref EXCEPT ![r] = Base]
         ELSE Go(r, "erased") /\ UNCHANGED gitVars
    /\ UNCHANGED <<mode, slot, turn, parent, home, before, runVars, closeVars>>

(* The first event of the transcript. *)
Submit(r) ==
    /\ caller[r] = IF parent[r] = NoRun THEN "claimed" ELSE "prepared"
    /\ Go(r, "submitted")
    /\ Show(r, "submitted")
    /\ UNCHANGED <<mode, slot, turn, parent, home, before, session, runner, gitVars, closeVars>>

MarkPending(r) ==
    /\ caller[r] = "submitted"
    /\ Go(r, "pending")
    /\ Show(r, "pending")
    /\ UNCHANGED <<mode, slot, turn, parent, home, before, session, runner, gitVars, closeVars>>

(* run.session_reuse is recorded, the runner spawned and handed its prompt. *)
Launch(r) ==
    /\ caller[r] = "pending"
    /\ Go(r, "launched")
    /\ runner' = [runner EXCEPT ![r] = "starting"]
    /\ UNCHANGED <<mode, slot, turn, parent, home, before, log, session, gitVars, closeVars>>

(* A dispatch whose runner does not take its prompt: the run has failed. *)
LaunchFails(r) ==
    /\ caller[r] = "pending" /\ parent[r] = NoRun
    /\ Go(r, "refused")
    /\ Show(r, "failed")
    /\ UNCHANGED <<mode, slot, turn, parent, home, before, session, runner, gitVars, closeVars>>

(* rollbackPreSpawnContinuation, in this order: the worktree goes back to   *)
(* the branch it was found on, which a reset moves to the parent's commit,  *)
(* the transcript is removed, the claim released.  If the worktree cannot   *)
(* be put back the call throws and the rest is left undone.                 *)
Undo(r) ==
    /\ caller[r] \in {"prepared", "submitted", "pending"} /\ parent[r] # NoRun
    /\ LET delivered == log[parent[r]] = "completed"
           moved == IF delivered THEN [ref EXCEPT ![home[r]] = parent[r]] ELSE ref IN
       IF tree # NoRun /\ (delivered \/ ref[home[r]] = Base)
         THEN Go(r, "undone") /\ tree' = home[r] /\ ref' = [moved EXCEPT ![r] = NoRun]
         ELSE Go(r, "dead") /\ UNCHANGED gitVars
    /\ UNCHANGED <<mode, slot, turn, parent, home, before, runVars, closeVars>>

Erase(r) ==
    /\ caller[r] = "undone"
    /\ Go(r, "erased")
    /\ Show(r, "absent")
    /\ UNCHANGED <<mode, slot, turn, parent, home, before, session, runner, gitVars, closeVars>>

(* releaseLineageContinuationTurn: unless somebody else owns the slot by    *)
(* now, the entry of before is restored.                                    *)
Release(r) ==
    /\ caller[r] = "erased"
    /\ Go(r, "refused")
    /\ slot' = IF slot.owner = r THEN before[r] ELSE slot
    /\ UNCHANGED <<mode, turn, parent, home, before, runVars, gitVars, closeVars>>

(* A call dies, or throws where nothing is undone. *)
CallDies(r) ==
    /\ "crash" \in Faults
    /\ caller[r] \in {"claimed", "prepared", "submitted", "pending", "undone", "erased"}
    /\ Go(r, "dead")
    /\ UNCHANGED <<mode, slot, turn, parent, home, before, runVars, gitVars, closeVars>>

-----------------------------------------------------------------------------
(* The runner. *)

(* RunManager.start: the prior session is read from the transcript once     *)
(* more; without it, or if the run has been stopped, nothing is started.    *)
MayStart(r) == log[r] = "pending" /\ (turn[r].kind = "resume" => session[turn[r].prior] = "native")

(* The worker starts, in the lineage's worktree, and its session is         *)
(* recorded: one that can be resumed, or the identity of its process.       *)
Start(r) ==
    /\ runner[r] = "starting" /\ MayStart(r)
    /\ runner' = [runner EXCEPT ![r] = "working"]
    /\ Show(r, "running")
    /\ \E id \in {"native", "placeholder"} : session' = [session EXCEPT ![r] = id]
    /\ IF mode = "run_lineage" /\ r = Root
         THEN tree' = Root /\ ref' = [ref EXCEPT ![Root] = Base]
         ELSE UNCHANGED gitVars
    /\ UNCHANGED <<mode, slot, callVars, closeVars>>

StartFails(r) ==
    /\ runner[r] = "starting"
    /\ runner' = [runner EXCEPT ![r] = "gone"]
    /\ Show(r, "failed")
    /\ UNCHANGED <<mode, slot, callVars, session, gitVars, closeVars>>

(* A run that comes to a good end has its delivery committed, and the       *)
(* native session its backend reported last.                                *)
Complete(r) ==
    /\ runner[r] = "working" /\ ~Terminal(r)
    /\ mode = "run_lineage" => tree = r
    /\ runner' = [runner EXCEPT ![r] = "gone"]
    /\ Show(r, "completed")
    /\ \E id \in {session[r], "native"} : session' = [session EXCEPT ![r] = id]
    /\ ref' = IF mode = "run_lineage" THEN [ref EXCEPT ![r] = r] ELSE ref
    /\ UNCHANGED <<mode, slot, callVars, tree, closeVars>>

(* A run fails and its worker with it. *)
Fail(r) ==
    /\ runner[r] = "working"
    /\ runner' = [runner EXCEPT ![r] = "gone"]
    /\ log' = IF Terminal(r) THEN log ELSE [log EXCEPT ![r] = "failed"]
    /\ UNCHANGED <<mode, slot, callVars, session, gitVars, closeVars>>

(* A runner dies with its worker and leaves the transcript as it is. *)
RunnerDies(r) ==
    /\ "crash" \in Faults
    /\ runner[r] \in {"starting", "working"}
    /\ runner' = [runner EXCEPT ![r] = "gone"]
    /\ UNCHANGED <<mode, slot, callVars, log, session, gitVars, closeVars>>

(* wao settle, once nobody is left to end the run. *)
Settle(r) ==
    /\ log[r] \in {"submitted", "pending", "running"}
    /\ runner[r] = "gone" \/ caller[r] = "dead"
    /\ runner[r] \in {"none", "gone"}
    /\ Show(r, "failed")
    /\ UNCHANGED <<mode, slot, callVars, session, runner, gitVars, closeVars>>

(* wao stop: the run is aborted before its worker is gone, and the worker   *)
(* may never be seen to go.                                                 *)
Stop(r) ==
    /\ "stop" \in Faults
    /\ runner[r] \in {"starting", "working"} /\ ~Terminal(r)
    /\ Show(r, "failed")
    /\ UNCHANGED <<mode, slot, callVars, session, runner, gitVars, closeVars>>

-----------------------------------------------------------------------------
(* wao runs lineage-close, as often as the Lead likes. *)

Closing(place) == closer.place = place /\ mode = "run_lineage"

(* The members of the lineage, all of them terminal, are listed. *)
CloseList ==
    /\ "close" \in Faults /\ Closing("idle")
    /\ log[Root] # "absent"
    /\ \A r \in Runs : log[r] # "absent" => Terminal(r)
    /\ closer' = Closer("listed", {r \in Runs : log[r] # "absent"}, NoRun)
    /\ UNCHANGED <<mode, slot, callVars, runVars, gitVars, closed>>

(* lineageSlotClaimBusy: a recent claim by a member refuses the call. *)
CloseGate ==
    /\ Closing("listed")
    /\ closer' = IF slot.owner \in closer.members /\ slot.fresh THEN NotClosing
                 ELSE [closer EXCEPT !.place = "gated"]
    /\ UNCHANGED <<mode, slot, callVars, runVars, gitVars, closed>>

(* Under the root lock, which only close takes. *)
CloseMark ==
    /\ Closing("gated")
    /\ closed' = TRUE
    /\ closer' = [closer EXCEPT !.place = "marked"]
    /\ UNCHANGED <<mode, slot, callVars, runVars, gitVars>>

(* Mutant of CloseTip: any branch of WAO will do. *)
CloseAnyTip ==
    /\ Closing("marked")
    /\ closer' = IF tree # NoRun /\ ref[tree] = DeliveryOf(tree)
                 THEN Closer("tip", closer.members, tree)
                 ELSE NotClosing
    /\ UNCHANGED <<mode, slot, callVars, runVars, gitVars, closed>>

(* The worktree is on the branch of a listed member and at the commit that  *)
(* member's transcript names, else it is kept.                              *)
CloseTip ==
    /\ Closing("marked")
    /\ closer' = IF tree \in closer.members /\ ref[tree] = DeliveryOf(tree)
                 THEN Closer("tip", closer.members, tree)
                 ELSE NotClosing
    /\ UNCHANGED <<mode, slot, callVars, runVars, gitVars, closed>>

CloseRemove ==
    /\ Closing("tip")
    /\ tree' = NoRun
    /\ closer' = NotClosing
    /\ UNCHANGED <<mode, slot, callVars, runVars, ref, closed>>

-----------------------------------------------------------------------------
Call(r) ==
    \/ Dispatch(r) \/ (\E p \in Runs : Check(r, p)) \/ Continue(r)
    \/ Prepare(r) \/ Submit(r) \/ MarkPending(r) \/ Launch(r) \/ LaunchFails(r)
    \/ Undo(r) \/ Erase(r) \/ Release(r) \/ CallDies(r)

Runner(r) ==
    \/ Start(r) \/ StartFails(r) \/ Complete(r) \/ Fail(r) \/ RunnerDies(r)
    \/ Settle(r) \/ Stop(r)

Close == CloseList \/ CloseGate \/ CloseMark \/ CloseTip \/ CloseRemove

Next ==
    \/ DispatchRoot
    \/ \E r \in Runs : Call(r) \/ Runner(r)
    \/ EntryAges
    \/ Close

Spec == Init /\ [][Next]_vars

-----------------------------------------------------------------------------
(* Properties. *)

Entries == [owner : Runs \cup {NoRun}, fresh : BOOLEAN, epoch : Nat]

(* Type correctness of slot, calls, runs, worktree and close. *)
ReuseTypeOK ==
    /\ mode \in Modes
    /\ slot \in Entries
    /\ caller \in [Runs -> {"idle", "checked", "claimed", "prepared", "submitted", "pending",
                            "launched", "undone", "erased", "refused", "dead"}]
    /\ turn \in [Runs -> [kind : {"none", "first", "resume"}, epoch : Nat, prior : Runs \cup {NoRun}]]
    /\ parent \in [Runs -> Runs \cup {NoRun}]
    /\ home \in [Runs -> Runs \cup {NoRun}]
    /\ before \in [Runs -> Entries]
    /\ log \in [Runs -> {"absent", "submitted", "pending", "running", "completed", "failed"}]
    /\ session \in [Runs -> {"none", "native", "placeholder"}]
    /\ runner \in [Runs -> {"none", "starting", "working", "gone"}]
    /\ tree \in Runs \cup {NoRun}
    /\ ref \in [Runs -> Runs \cup {NoRun, Base}]
    /\ closed \in BOOLEAN
    /\ closer \in [place : {"idle", "listed", "gated", "marked", "tip"},
                   members : SUBSET Runs, tip : Runs \cup {NoRun}]

Drives(r) == runner[r] \in {"starting", "working"}

(* Contract 6: no two runs drive one provider conversation at a time,       *)
(* however slow a call is between its claim and its transcript.  A turn     *)
(* that was stopped and still works is only overtaken in a lineage, which   *)
(* has no generations.                                                      *)
OneDriver ==
    \A r, s \in Runs :
        Drives(r) /\ Drives(s) /\ turn[r].epoch = turn[s].epoch =>
            r = s \/ (mode = "run_lineage" /\ (Terminal(r) \/ Terminal(s)))

(* A conversation never forks: of the turns that were launched no two       *)
(* resume the same run, withdrawn and dead continuations notwithstanding.   *)
NeverForks ==
    \A r, s \in Runs :
        /\ caller[r] = "launched" /\ caller[s] = "launched"
        /\ turn[r].kind = "resume" /\ turn[s].kind = "resume"
        /\ turn[r].prior = turn[s].prior
        => r = s

(* Of the conversations of a Lead, one in which a turn went wrong is not    *)
(* taken up again: what has failed is abandoned (0052).                     *)
FailedIsAbandoned ==
    [][\A r, s \in Runs :
         /\ mode = "lead_workspace"
         /\ caller[r] = "idle" /\ caller'[r] = "claimed"
         /\ log[s] = "failed"
         => turn'[r].epoch # turn[s].epoch]_vars

(* While a continuation works and is not stopped, neither another one nor a *)
(* rollback takes its worktree to another branch.                           *)
TreeIsOwn ==
    \A r \in Runs :
        mode = "run_lineage" /\ runner[r] = "working" /\ ~Terminal(r) => tree \in {r, NoRun}

(* What close takes for the tip of a lineage is the branch of a run that    *)
(* has ended, although continuations come and go while it works.            *)
CloseTakesOnlyFinished ==
    [][tree # NoRun /\ tree' = NoRun => Terminal(closer.tip)]_vars

(* A delivery stays on the branch of its run, whatever is continued and     *)
(* undone after it.                                                         *)
DeliveryKeepsBranch ==
    mode = "run_lineage" => \A r \in Runs : log[r] = "completed" => ref[r] = r

=============================================================================
