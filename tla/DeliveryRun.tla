------------------------------ MODULE DeliveryRun ------------------------------
(***************************************************************************)
(* One delivery run and everybody who writes to its transcript: the        *)
(* runners that supervise its workers (src/src/runManager.js), the Lead's  *)
(* stop (application/runStop.js) and settle (runSettle.js), the recovery   *)
(* of an abandoned run (processRecovery.js, runDeliveryRepackage.js),      *)
(* reverification (runDeliveryReverify.js) and decision.                   *)
(*                                                                         *)
(* An append is one step: LockedTranscript shows when that is so.  An      *)
(* actor that reads the transcript and writes later is modelled by the     *)
(* prefix it read: it may be any prefix of the ledger of now, so the       *)
(* actor may be as late as it likes and there may be any number of them.   *)
(***************************************************************************)
EXTENDS DeliveryFacts

CONSTANTS
    Runners,     \* the runner processes: the first one and those that resume
    First,       \* the runner that started the run
    Recoverers,  \* concurrent run_delivery_repackage calls
    Nobody,      \* no lease file
    FirstHost,   \* how the first runner is hosted
    ResumeHosts, \* how a resuming runner may be hosted
    Contracts,   \* what the run may declare: commands, declared
    Ends,        \* how an event stream and a packaging may end
    Actors       \* who else is present, and scorecard if the run has one

StreamEndings == {"completed", "backend_error", "backend_stream_ended", "budget_exceeded",
                  "workdir_escape"}

PackageFailures == {"disallowed_path", "empty_diff"}

ASSUME RunnersAssumption ==
    /\ First \in Runners
    /\ Nobody \notin Runners
    /\ FirstHost \in {"background", "run", "daemon"}
    /\ ResumeHosts \subseteq {"background", "resume", "daemon"}
    /\ Contracts \subseteq {"commands", "declared"}
    /\ Contracts # {}
    /\ Ends \subseteq StreamEndings \cup PackageFailures

VARIABLES
    ledger,      \* the transcript
    contract,    \* run.started: verification commands, or declared
    runner,      \* where each runner is in waitForCompletion
    plan,        \* what a runner is about to record
    worker,      \* the child process of each runner
    host,        \* how a runner is hosted
    lease,       \* the owner named in the lease file
    beat,        \* whether the lease's heartbeat is fresh
    aborting,    \* where _abortInternal of each runner is: no, killing or done
    stopper,     \* wao stop: idle, read, killing or done
    target,      \* the runner whose worker wao stop read from the transcript
    settler,     \* wao settle: 0, the last seq it proved its gates at, or Settled
    proof        \* a repackage call: none, proved, refused or done

runVars == <<runner, plan, worker, host, aborting>>
leaseVars == <<lease, beat>>
leadVars == <<stopper, target, settler, proof>>
vars == <<ledger, contract, runVars, leaseVars, leadVars>>

Settled == -1

(* A runner that drives the run; one that only scanned does not yet.       *)
Alive(r) == runner[r] \notin {"idle", "scanned", "dead", "done"}

(* What a reader saw who read some time ago. *)
Prefix(n) == SubSeq(ledger, 1, n)

(* The runner whose worker the transcript names: that of session.created,  *)
(* or that of the latest run.rerun.                                        *)
NamedRunner(events) ==
    LET reruns == Of(events, "rerun") IN
    IF reruns = {} THEN First ELSE events[Max(reruns)].note

Init ==
    /\ ledger = << Event("state_change", "running", "first_event") >>
    /\ contract \in Contracts
    /\ runner = [r \in Runners |-> IF r = First THEN "polling" ELSE "idle"]
    /\ plan = [r \in Runners |-> "none"]
    /\ worker = [r \in Runners |-> IF r = First THEN "alive" ELSE "gone"]
    /\ host = [r \in Runners |-> FirstHost]
    /\ lease = IF FirstHost = "background" THEN First ELSE Nobody
    /\ beat = "fresh"
    /\ aborting = [r \in Runners |-> "no"]
    /\ stopper = "idle"
    /\ target = First
    /\ settler = 0
    /\ proof = [q \in Recoverers |-> "none"]

-----------------------------------------------------------------------------
(* The transcript. *)

Append1(event) == ledger' = Append(ledger, event)

(* Mutant of Claim: the last terminal wins. *)
ClaimAnyway(to, why, attempts, facts) ==
    ledger' = ledger \o attempts \o facts \o <<Event("state_change", to, why)>>

(* transitionState: the attempts are written in any case, the facts only   *)
(* with the transition.                                                    *)
Claim(to, why, attempts, facts) ==
    ledger' = IF ClaimedTerminal(ledger) = "none"
                THEN ledger \o attempts \o facts \o <<Event("state_change", to, why)>>
                ELSE ledger \o attempts \o <<Event("state_change_rejected", to, why)>>

Accepted == ClaimedTerminal(ledger) = "none"

-----------------------------------------------------------------------------
(* A runner, step by step. *)

Go(r, place) == runner' = [runner EXCEPT ![r] = place]

Intend(r, what) == plan' = [plan EXCEPT ![r] = what]

(* The event stream ends: the backend reports, the budget is spent, a      *)
(* write left the worktree, or the stream just stops.                      *)
StreamEnds(r) ==
    /\ runner[r] = "polling"
    /\ Go(r, "ended")
    /\ \E why \in Ends \cap StreamEndings : Intend(r, why)
    /\ UNCHANGED <<ledger, contract, worker, host, aborting, leaseVars, leadVars>>

(* _externalTerminalState: a run that reads as terminal is adopted. *)
(* After an interruption the transcript is not even looked at.             *)
AdoptOrGoOn(r, place, next) ==
    /\ runner[r] = place
    /\ LET over == aborting[r] # "no" \/ IsTerminal(ledger) IN
       /\ Go(r, IF over THEN "cleanup" ELSE next)
       /\ plan' = IF over THEN [plan EXCEPT ![r] = "none"] ELSE plan
    /\ UNCHANGED <<ledger, contract, worker, host, aborting, leaseVars, leadVars>>

CheckEnded(r) ==
    AdoptOrGoOn(r, "ended",
        CASE plan[r] = "completed" -> "score"
          [] plan[r] = "workdir_escape" -> "claim"
          [] OTHER -> "note")

(* The scorecard, if the run has one.  In warn mode a failed one goes on. *)
Score(r) ==
    /\ runner[r] = "score"
    /\ \/ /\ "scorecard" \notin Actors
          /\ Go(r, "check") /\ UNCHANGED <<ledger, plan>>
       \/ /\ "scorecard" \in Actors
          /\ Go(r, "check") /\ UNCHANGED plan
          /\ \E result \in {"passed", "failed"} : Append1(Event("scorecard_checked", result, "none"))
       \/ /\ "scorecard" \in Actors
          /\ Go(r, "note") /\ Intend(r, "scorecard_failed")
          /\ Append1(Event("scorecard_checked", "failed", "none"))
    /\ UNCHANGED <<contract, worker, host, aborting, leaseVars, leadVars>>

(* Mutant of Note: the transcript is looked at again after the fact. *)
NoteAndCheck(r) ==
    /\ runner[r] = "note"
    /\ Append1(Event(IF plan[r] = "budget_exceeded" THEN "budget_exceeded" ELSE "error", plan[r], "none"))
    /\ Go(r, "ended")
    /\ UNCHANGED <<contract, plan, worker, host, aborting, leaseVars, leadVars>>

(* The fact recorded ahead of the claim it explains. *)
Note(r) ==
    /\ runner[r] = "note"
    /\ Append1(Event(IF plan[r] = "budget_exceeded" THEN "budget_exceeded" ELSE "error", plan[r], "none"))
    /\ Go(r, "claim")
    /\ UNCHANGED <<contract, plan, worker, host, aborting, leaseVars, leadVars>>

CheckBeforePackaging(r) == AdoptOrGoOn(r, "check", "package")

(* _finalizeDelivery: a commit, or the code of a failure. *)
Package(r) ==
    /\ runner[r] = "package"
    /\ \E result \in {"created"} \cup (Ends \cap PackageFailures) : Intend(r, result)
    /\ Go(r, "claim")
    /\ UNCHANGED <<ledger, contract, worker, host, aborting, leaseVars, leadVars>>

(* The terminal transition.  Packaging is reported as an attempt, so it is *)
(* on record even if the transition is refused.                            *)
ClaimTerminal(r) ==
    /\ runner[r] = "claim"
    /\ CASE plan[r] = "created" ->
              Claim("completed", "done", <<Event("delivery_created", "packaged", contract)>>,
                    <<Event("completed", "none", "none")>>)
         [] plan[r] \in PackageFailures ->
              Claim("failed", "delivery_failed", <<Event("delivery_failed", plan[r], "none")>>,
                    <<Event("error", "delivery", "none")>>)
         [] plan[r] = "workdir_escape" ->
              Claim("failed", plan[r], <<>>,
                    <<Event("isolation_violation", "none", "none"), Event("error", "isolation", "none")>>)
         [] OTHER -> Claim("failed", plan[r], <<>>, <<>>)
    /\ Intend(r, IF plan[r] = "created" /\ Accepted THEN "verify" ELSE "none")
    /\ Go(r, "cleanup")
    /\ UNCHANGED <<contract, worker, host, aborting, leaseVars, leadVars>>

(* Mutant of Cleanup: nothing comes after the cleanup. *)
CleanupAndExit(r) ==
    /\ runner[r] = "cleanup"
    /\ worker' = [worker EXCEPT ![r] = "gone"]
    /\ Append1(Event("stop_verified", "cleanup", "none"))
    /\ Go(r, "exit")
    /\ UNCHANGED <<contract, plan, host, aborting, leaseVars, leadVars>>

(* _runCleanup: kill the worker and record whether it is seen to be gone,  *)
(* unless _abortInternal has killed it before.  A probe may also fail, or  *)
(* the backend has none, or the record cannot be written: then nothing is  *)
(* on record and the runner goes on.                                       *)
Cleanup(r) ==
    /\ runner[r] = "cleanup"
    /\ IF aborting[r] # "no" THEN UNCHANGED <<ledger, worker>>
       ELSE /\ worker' \in {worker, [worker EXCEPT ![r] = "gone"]}
            /\ \/ UNCHANGED ledger
               \/ worker'[r] = "gone" /\ Append1(Event("stop_verified", "cleanup", "none"))
               \/ UNCHANGED worker /\ Append1(Event("stop_unverified", "cleanup", "none"))
    /\ Go(r, IF plan[r] = "verify" THEN "verify" ELSE "exit")
    /\ UNCHANGED <<contract, plan, host, aborting, leaseVars, leadVars>>

(* What verifyDelivery may report under the contract, or what is made of   *)
(* its error.  An eligible failure is one a reverification may follow.     *)
Outcomes(type) ==
    {Event(type, IF contract = "declared" THEN "unavailable" ELSE "passed", "none"),
     Event(type, "failed", "eligible"), Event(type, "failed", "final")}

(* _verifyDeliveryResult: the outcome is appended without any condition. *)
Verify(r) ==
    /\ runner[r] = "verify"
    /\ \E outcome \in Outcomes("verification") : Append1(outcome)
    /\ Go(r, "exit")
    /\ UNCHANGED <<contract, plan, worker, host, aborting, leaseVars, leadVars>>

(* The runner process ends; a background one deletes the lease file. *)
Exit(r) ==
    /\ runner[r] = "exit"
    /\ Go(r, "done")
    /\ lease' = IF host[r] = "background" THEN Nobody ELSE lease
    /\ UNCHANGED <<ledger, contract, plan, worker, host, aborting, beat, leadVars>>

(* _abortInternal, called while the run is registered with its manager (a  *)
(* SIGINT, the daemon's stop): the wait loop is told, the worker is killed  *)
(* if that works, and the transition follows while the loop winds up.       *)
Interrupt(r) ==
    /\ "abort" \in Actors
    /\ runner[r] = "polling" /\ aborting[r] = "no"
    /\ aborting' = [aborting EXCEPT ![r] = "killing"]
    /\ worker' \in {worker, [worker EXCEPT ![r] = "gone"]}
    /\ UNCHANGED <<ledger, contract, runner, plan, host, leaseVars, leadVars>>

AbortClaim(r) ==
    /\ aborting[r] = "killing" /\ runner[r] # "dead"
    /\ aborting' = [aborting EXCEPT ![r] = "done"]
    /\ Claim("aborted", "external_signal", <<>>, <<Event("aborted", "none", "none")>>)
    /\ UNCHANGED <<contract, runner, plan, worker, host, leaseVars, leadVars>>

-----------------------------------------------------------------------------
(* Processes: workers end, runners die and are resumed, leases age. *)

WorkerEnds(r) ==
    /\ worker[r] = "alive"
    /\ worker' = [worker EXCEPT ![r] = "gone"]
    /\ UNCHANGED <<ledger, contract, runner, plan, host, aborting, leaseVars, leadVars>>

(* A runner dies; its worker, a process of its own, may live on. *)
Crash(r) ==
    /\ "crash" \in Actors
    /\ Alive(r) \/ runner[r] = "scanned"
    /\ Go(r, "dead")
    /\ UNCHANGED <<ledger, contract, plan, worker, host, aborting, leaseVars, leadVars>>

(* The heartbeat is late: its owner is dead, or blocked past the threshold. *)
LeaseAges ==
    /\ lease # Nobody /\ beat = "fresh"
    /\ ~Alive(lease) \/ "stall" \in Actors
    /\ beat' = "stale"
    /\ UNCHANGED <<ledger, contract, runVars, lease, leadVars>>

(* writeOwnerHeartbeat: the file is simply overwritten. *)
Heartbeat(r) ==
    /\ Alive(r) /\ host[r] = "background"
    /\ lease # r \/ beat = "stale"
    /\ lease' = r
    /\ beat' = "fresh"
    /\ UNCHANGED <<ledger, contract, runVars, leadVars>>

(* Mutant of Scan: the lease is not looked at. *)
ScanAll(r) ==
    /\ "resume" \in Actors /\ "daemon" \in ResumeHosts
    /\ runner[r] = "idle" /\ r # First
    /\ ~IsTerminal(ledger)
    /\ Go(r, "scanned")
    /\ host' = [host EXCEPT ![r] = "daemon"]
    /\ UNCHANGED <<ledger, contract, plan, worker, aborting, leaseVars, leadVars>>

(* The daemon first lists the runs nobody seems to own: non-terminal ones   *)
(* without a fresh lease.                                                   *)
Scan(r) ==
    /\ "resume" \in Actors /\ "daemon" \in ResumeHosts
    /\ runner[r] = "idle" /\ r # First
    /\ ~IsTerminal(ledger)
    /\ lease = Nobody \/ beat = "stale"
    /\ Go(r, "scanned")
    /\ host' = [host EXCEPT ![r] = "daemon"]
    /\ UNCHANGED <<ledger, contract, plan, worker, aborting, leaseVars, leadVars>>

(* RunManager.resume: a run that reads as non-terminal gets a new worker.   *)
(* Nobody looks at the lease any more.                                      *)
Respawn(r) ==
    /\ "resume" \in Actors
    /\ ~IsTerminal(ledger)
    /\ \/ runner[r] = "scanned" /\ UNCHANGED <<host, leaseVars>>
       \/ /\ runner[r] = "idle" /\ r # First
          /\ \E h \in ResumeHosts \ {"daemon"} :
               /\ host' = [host EXCEPT ![r] = h]
               /\ IF h = "background" THEN lease' = r /\ beat' = "fresh" ELSE UNCHANGED leaseVars
    /\ worker' = [worker EXCEPT ![r] = "alive"]
    /\ Go(r, "spawned")
    /\ UNCHANGED <<ledger, contract, plan, aborting, leadVars>>

RecordRerun(r) ==
    /\ runner[r] = "spawned"
    /\ Append1(Event("rerun", "none", r))
    /\ Go(r, "respawned")
    /\ UNCHANGED <<contract, plan, worker, host, aborting, leaseVars, leadVars>>

(* Whether the transition is refused or not, the new worker is supervised. *)
Resubmit(r) ==
    /\ runner[r] = "respawned"
    /\ Claim("submitted", "replay_respawned", <<>>, <<>>)
    /\ Go(r, "polling")
    /\ UNCHANGED <<contract, plan, worker, host, aborting, leaseVars, leadVars>>

(* runResumeBackground whose resume was refused or threw: the lease file,   *)
(* whoever wrote it, is deleted, and the refusal recorded as a run.error.   *)
RefusedResume(r) ==
    /\ "refuse" \in Actors
    /\ runner[r] = "idle" /\ r # First
    /\ Go(r, "done")
    /\ lease' = Nobody
    /\ Append1(Event("error", "resume", "none"))
    /\ UNCHANGED <<contract, plan, worker, host, aborting, beat, leadVars>>

-----------------------------------------------------------------------------
(* wao stop. *)

(* The session to stop is read from the transcript. *)
StopRead ==
    /\ "stop" \in Actors
    /\ stopper = "idle"
    /\ stopper' = "read"
    /\ target' = NamedRunner(ledger)
    /\ UNCHANGED <<ledger, contract, runVars, leaseVars, settler, proof>>

StopClaim ==
    /\ stopper = "read"
    /\ Claim("aborted", "stop_requested", <<Event("stop_requested", "none", "none")>>,
             <<Event("aborted", "none", "none")>>)
    /\ stopper' = IF Accepted THEN "killing" ELSE "done"
    /\ UNCHANGED <<contract, runVars, leaseVars, target, settler, proof>>

(* The kill may fail, or be skipped when the pid cannot be identified. *)
StopKill ==
    /\ stopper = "killing"
    /\ stopper' = "done"
    /\ \/ /\ worker' = [worker EXCEPT ![target] = "gone"]
          /\ Append1(Event("stop_verified", "stop", "none"))
       \/ /\ worker[target] = "alive"
          /\ Append1(Event("stop_unverified", "stop", "none"))
          /\ UNCHANGED worker
    /\ UNCHANGED <<contract, runner, plan, host, aborting, leaseVars, target, settler, proof>>

-----------------------------------------------------------------------------
(* wao settle: six gates, then a claim that holds only if nothing was       *)
(* appended since the transcript was read.                                  *)

(* No lease file, or a stale one whose owner is gone. *)
OwnerGone == \A r \in Runners : lease = r => beat = "stale" /\ ~Alive(r)

(* Mutant of Scanned: a foreground wao resume is not recognised. *)
ScannedDetached(r) == Alive(r) /\ host[r] = "background"

(* The command lines the process scan recognises. *)
Scanned(r) == Alive(r) /\ host[r] \in {"background", "resume"}

(* A daemon is alive, whether it drives this run or is about to. *)
DaemonUp == \E r \in Runners : host[r] = "daemon" /\ runner[r] \notin {"idle", "dead", "done"}

SettleProve ==
    /\ "settle" \in Actors
    /\ settler = 0
    /\ \E n \in DOMAIN ledger :
         /\ ~IsTerminal(Prefix(n))
         /\ worker[NamedRunner(Prefix(n))] = "gone"
         /\ settler' = n
    /\ OwnerGone
    /\ \A r \in Runners : ~Scanned(r)
    /\ ~DaemonUp
    /\ UNCHANGED <<ledger, contract, runVars, leaseVars, stopper, target, proof>>

SettleClaim ==
    /\ settler \in DOMAIN ledger
    /\ IF settler = Len(ledger)
         THEN Claim("failed", "process_missing", <<>>,
                    <<Event("process_missing_confirmed", "settle", "none")>>)
         ELSE Append1(Event("state_change_rejected", "failed", "process_missing"))
    /\ settler' = Settled
    /\ UNCHANGED <<contract, runVars, leaseVars, stopper, target, proof>>

-----------------------------------------------------------------------------
(* run_delivery_repackage: settle an abandoned run, package what it left,   *)
(* verify it.  Each phase starts from the transcript of an earlier read and *)
(* may be repeated by a retry or a competitor.                              *)

(* Mutant of Prove: the lease alone is taken for proof. *)
ProveByLease(q) ==
    /\ proof[q] = "none"
    /\ \E n \in DOMAIN ledger : MissingCandidate(Prefix(n))
    /\ OwnerGone
    /\ proof' = [proof EXCEPT ![q] = "proved"]
    /\ UNCHANGED <<ledger, contract, runVars, leaseVars, stopper, target, settler>>

(* proveProcessMissing.  The worker probed is that of session.created. *)
Prove(q) ==
    /\ proof[q] = "none"
    /\ \E n \in DOMAIN ledger : MissingCandidate(Prefix(n))
    /\ OwnerGone
    /\ worker[First] = "gone"
    /\ proof' = [proof EXCEPT ![q] = "proved"]
    /\ UNCHANGED <<ledger, contract, runVars, leaseVars, stopper, target, settler>>

(* _settleProcessMissingOrphan: the claim is not tied to the seq that was   *)
(* proved, and one that loses to an ineligible terminal ends the call.      *)
RecoverClaim(q) ==
    /\ proof[q] = "proved"
    /\ Claim("failed", "process_missing", <<>>, <<Event("process_missing_confirmed", "recover", "none")>>)
    /\ proof' = [proof EXCEPT ![q] = IF RecoveryKind(ledger') = "none" THEN "refused" ELSE "done"]
    /\ UNCHANGED <<contract, runVars, leaseVars, stopper, target, settler>>

(* A call that is refused, for its scope, its proof or the run's state,     *)
(* leaves an audit record.                                                  *)
RepackageRejected(q) ==
    /\ proof[q] \in {"none", "refused"}
    /\ Append1(Event("delivery_repackage_rejected", "none", "none"))
    /\ proof' = [proof EXCEPT ![q] = "done"]
    /\ UNCHANGED <<contract, runVars, leaseVars, stopper, target, settler>>

(* _proveRepackagePreconditions *)
Repackageable(events) ==
    /\ FindState(events) = "failed"
    /\ RecoveryKind(events) # "none"
    /\ Of(events, "decision") = {}

(* Mutant of CreateRecovered: a delivery that appeared since the read is   *)
(* not yielded to.                                                         *)
CreateFromRead ==
    /\ Recoverers # {}
    /\ \E n \in DOMAIN ledger :
         /\ Repackageable(Prefix(n))
         /\ Of(Prefix(n), "delivery_created") = {}
         /\ ledger' = ledger \o << Event("delivery_created", "repackaged", contract),
                                  Event("delivery_repackaged", RecoveryKind(Prefix(n)), "none") >>
    /\ UNCHANGED <<contract, runVars, leaseVars, leadVars>>

(* tryAppendRepackageCreated: yields to a delivery that is there already. *)
CreateRecovered ==
    /\ Recoverers # {}
    /\ \E n \in DOMAIN ledger :
         /\ Repackageable(Prefix(n))
         /\ RecoveryKind(Prefix(n)) = RecoveryKind(ledger)
    /\ Of(ledger, "delivery_created") = {}
    /\ ledger' = ledger \o << Event("delivery_created", "repackaged", contract),
                             Event("delivery_repackaged", RecoveryKind(ledger), "none") >>
    /\ UNCHANGED <<contract, runVars, leaseVars, leadVars>>

(* Mutant of RecordRecovered: an outcome that is there already is not      *)
(* yielded to.                                                             *)
RecordRecoveredAgain ==
    /\ \E n \in DOMAIN ledger : Repackageable(Prefix(n)) /\ Of(Prefix(n), "verification") = {}
    /\ ValidProvenance(ledger)
    /\ Cardinality(Of(ledger, "verification")) < 2
    /\ \E outcome \in Outcomes("verification") : Append1(outcome)
    /\ UNCHANGED <<contract, runVars, leaseVars, leadVars>>

(* tryAppendRepackageVerification: yields to an outcome that is there       *)
(* already.  The provenance was checked when the delivery was appended or   *)
(* found.                                                                   *)
RecordRecovered ==
    /\ \E n \in DOMAIN ledger :
         /\ Repackageable(Prefix(n))
         /\ Of(Prefix(n), "verification") = {}
         /\ \E m \in n .. Len(ledger) :
              OneOf(Prefix(m), "delivery_created") /\ ValidProvenance(Prefix(m))
    /\ OneOf(ledger, "delivery_created")
    /\ Of(ledger, "verification") = {}
    /\ \E outcome \in Outcomes("verification") : Append1(outcome)
    /\ UNCHANGED <<contract, runVars, leaseVars, leadVars>>

-----------------------------------------------------------------------------
(* run_delivery_reverify. *)

(* _proveReverifyPreconditions: of a verification that failed for the       *)
(* environment.                                                             *)
Reverifiable(events) ==
    /\ Of(events, "decision") = {}
    /\ OneOf(events, "delivery_created")
    /\ \A i \in Of(events, "delivery_created") : events[i].note = "commands"
    /\ OneOf(events, "verification")
    /\ \A i \in Of(events, "verification") :
         events[i].value = "failed" /\ events[i].note = "eligible"

(* Mutant of Request: the decision is only looked for before the lock. *)
RequestLate(attempt) ==
    /\ "reverify" \in Actors
    /\ \E n \in DOMAIN ledger : Reverifiable(Prefix(n))
    /\ LET chain == Chain(ledger) IN
         /\ chain.ok = "ok" /\ chain.open = "none"
         /\ Len(chain.links) = IF attempt = "first" THEN 0 ELSE 1
         /\ attempt = "second" => chain.links[1].value = "failed" /\ chain.links[1].note = "eligible"
    /\ Append1(Event("reverify_requested", attempt, "none"))
    /\ UNCHANGED <<contract, runVars, leaseVars, leadVars>>

(* Mutant of Request: any complete first link allows a second attempt. *)
RequestAnyway(attempt) ==
    /\ "reverify" \in Actors
    /\ \E n \in DOMAIN ledger : Reverifiable(Prefix(n))
    /\ Of(ledger, "decision") = {}
    /\ LET chain == Chain(ledger) IN
         /\ chain.ok = "ok" /\ chain.open = "none"
         /\ Len(chain.links) = IF attempt = "first" THEN 0 ELSE 1
    /\ Append1(Event("reverify_requested", attempt, "none"))
    /\ UNCHANGED <<contract, runVars, leaseVars, leadVars>>

(* tryAppendReverifyRequested: an attempt that is there already is yielded  *)
(* to.                                                                      *)
Request(attempt) ==
    /\ "reverify" \in Actors
    /\ \E n \in DOMAIN ledger : Reverifiable(Prefix(n))
    /\ Of(ledger, "decision") = {}
    /\ LET chain == Chain(ledger) IN
         /\ chain.ok = "ok" /\ chain.open = "none"
         /\ Len(chain.links) = IF attempt = "first" THEN 0 ELSE 1
         /\ attempt = "second" => chain.links[1].value = "failed" /\ chain.links[1].note = "eligible"
    /\ Append1(Event("reverify_requested", attempt, "none"))
    /\ UNCHANGED <<contract, runVars, leaseVars, leadVars>>

(* tryAppendReverifyOutcome: completes the open link, whatever has been     *)
(* decided meanwhile.                                                       *)
CompleteLink ==
    /\ Chain(ledger).ok = "ok" /\ Chain(ledger).open # "none"
    /\ \E outcome \in Outcomes("reverify_outcome") : Append1(outcome)
    /\ UNCHANGED <<contract, runVars, leaseVars, leadVars>>

-----------------------------------------------------------------------------
(* run_delivery_decide. *)

Acceptable(events) ==
    /\ EffectiveStatus(events) = "passed" \/ DeclaredUnverifiable(events)
    /\ \/ FindState(events) = "completed"
       \/ FindState(events) = "failed" /\ RecoveryAcceptable(events)

Rejectable(events) ==
    OriginalStatus(events) = "pending" => LastChangeBefore(events, Len(events) + 1) = "completed"

(* tryAppendDecision: the first decision wins, and none is written that     *)
(* would not validate.                                                      *)
Decide(decision) ==
    /\ "decide" \in Actors
    /\ FactsVerdict(ledger) = "valid"
    /\ Of(ledger, "decision") = {}
    /\ IF decision = "accepted" THEN Acceptable(ledger) ELSE Rejectable(ledger)
    /\ Append1(Event("decision", decision, EffectiveStatus(ledger)))
    /\ FactsVerdict(ledger') = "valid"
    /\ UNCHANGED <<contract, runVars, leaseVars, leadVars>>

-----------------------------------------------------------------------------
(* What a runner does once its stream has ended. *)
WindUp(r) ==
    \/ CheckEnded(r) \/ Score(r) \/ Note(r) \/ CheckBeforePackaging(r) \/ Package(r)
    \/ ClaimTerminal(r) \/ Cleanup(r) \/ Verify(r) \/ Exit(r)

RunnerStep(r) ==
    \/ StreamEnds(r) \/ WindUp(r) \/ Interrupt(r) \/ AbortClaim(r)
    \/ WorkerEnds(r) \/ Crash(r) \/ Heartbeat(r)
    \/ Scan(r) \/ Respawn(r) \/ RecordRerun(r) \/ Resubmit(r) \/ RefusedResume(r)

LeadStep ==
    \/ StopRead \/ StopClaim \/ StopKill
    \/ SettleProve \/ SettleClaim
    \/ \E q \in Recoverers : Prove(q) \/ RecoverClaim(q) \/ RepackageRejected(q)
    \/ CreateRecovered \/ RecordRecovered
    \/ \E attempt \in {"first", "second"} : Request(attempt)
    \/ CompleteLink
    \/ \E decision \in {"accepted", "rejected"} : Decide(decision)

Next ==
    \/ LeaseAges
    \/ \E r \in Runners : RunnerStep(r)
    \/ LeadStep

Spec == Init /\ [][Next]_vars

(* A runner process that lives gets on with its await chain, and an abort   *)
(* under way gets to its claim.                                             *)
Fairness == \A r \in Runners : WF_vars(WindUp(r)) /\ WF_vars(AbortClaim(r))

FairSpec == Spec /\ Fairness

-----------------------------------------------------------------------------
(* Properties. *)

EventTypes ==
    {"state_change", "state_change_rejected", "scorecard_checked", "error", "budget_exceeded",
     "isolation_violation", "delivery_created", "delivery_failed", "delivery_repackaged",
     "delivery_repackage_rejected", "completed", "aborted", "stop_requested", "stop_verified",
     "stop_unverified", "verification", "reverify_requested", "reverify_outcome", "decision",
     "rerun", "process_missing_confirmed"}

Places == {"idle", "scanned", "spawned", "respawned", "polling", "ended", "score", "note", "check",
           "package", "claim", "cleanup", "verify", "exit", "done", "dead"}

Plans == StreamEndings \cup PackageFailures \cup {"none", "scorecard_failed", "created", "verify"}

(* Values and notes: states, reasons, outcomes, attempts, decisions.        *)
Words == Plans \cup
    {"running", "submitted", "failed", "aborted", "first_event", "done", "delivery_failed",
     "process_missing", "external_signal", "stop_requested", "replay_respawned", "passed",
     "unavailable", "pending", "eligible", "final", "commands", "declared", "packaged", "repackaged",
     "disallowed_scope", "backend_failed", "first", "second", "accepted", "rejected", "cleanup",
     "stop", "settle", "recover", "delivery", "isolation", "resume"}

Events == [type : EventTypes, value : Words, note : Words \cup Runners]

(* Type correctness of the run and of everybody around it. *)
TypeOK ==
    /\ ledger \in Seq(Events)
    /\ contract \in Contracts
    /\ runner \in [Runners -> Places]
    /\ plan \in [Runners -> Plans]
    /\ worker \in [Runners -> {"alive", "gone"}]
    /\ host \in [Runners -> {"background", "run", "resume", "daemon"}]
    /\ aborting \in [Runners -> {"no", "killing", "done"}]
    /\ lease \in Runners \cup {Nobody}
    /\ beat \in {"fresh", "stale"}
    /\ stopper \in {"idle", "read", "killing", "done"}
    /\ target \in Runners
    /\ settler \in {Settled} \cup (0 .. Len(ledger))
    /\ proof \in [Recoverers -> {"none", "proved", "refused", "done"}]

(* A runner that still decides how the run ends. *)
Driving(r) == runner[r] \in {"spawned", "respawned", "polling", "ended", "score", "note", "check",
                             "package", "claim"}

(* First terminal wins, whoever races: the runner's own end, its abort,     *)
(* wao stop, wao settle, recovery and resumed runners.                      *)
AtMostOneTerminal == \A i, j \in TerminalChanges(ledger) : i = j

(* A run has one delivery: packaging by the runner and repackaging by any   *)
(* number of callers never both put one on record.                          *)
OneDelivery == Cardinality(Of(ledger, "delivery_created")) <= 1

(* There is one verification outcome at most, and only for the delivery of  *)
(* a completed run or for one with valid recovery provenance: a runner that *)
(* lost the terminal race leaves its delivery unverified.                   *)
OutcomeIsEarned ==
    Of(ledger, "verification") # {} =>
        /\ OneOf(ledger, "verification")
        /\ ClaimedTerminal(ledger) = "completed" \/ ValidProvenance(ledger)

(* An accepted delivery could be accepted again: nothing that late callers, *)
(* cleanups or reverifications append afterwards takes its grounds away.    *)
AcceptedStands ==
    \A d \in Of(ledger, "decision") :
        ledger[d].value = "accepted" => FactsVerdict(ledger) = "valid" /\ Acceptable(ledger)

(* Delivery facts that validate with a decision go on validating: the       *)
(* outcome of a delivery rejected while it was being verified and the       *)
(* completion of a reverification under way arrive after the decision.      *)
DecisionStaysValid ==
    [][Of(ledger, "decision") # {} /\ FactsVerdict(ledger) = "valid" => FactsVerdict(ledger') = "valid"]_vars

(* Once the Lead has decided no further reverification is opened, although  *)
(* callers prove their preconditions on a transcript read before the lock.  *)
ReverifyStopsAtDecision ==
    [][Of(ledger, "decision") # {} =>
         Of(ledger', "reverify_requested") = Of(ledger, "reverify_requested")]_vars

(* Concurrent and retried reverifications never leave a chain the readers   *)
(* call malformed.                                                          *)
ChainWellFormed == ChainStatus(ledger) # "malformed"

(* Work is packaged after a backend failure or a missing process only when  *)
(* no worker is left that could still write to the worktree.                *)
RecoveredWorkersGone ==
    [][\A i \in Of(ledger', "delivery_repackaged") \ Of(ledger, "delivery_repackaged") :
         ledger'[i].value \in {"process_missing", "backend_failed"} =>
             \A r \in Runners : worker[r] = "gone"]_vars

(* wao settle declares a run dead only when no runner drives it, save one   *)
(* that has spawned a worker and recorded nothing yet.                      *)
SettledRunIsDead ==
    [][\A i \in Of(ledger', "process_missing_confirmed") \ Of(ledger, "process_missing_confirmed") :
         ledger'[i].value = "settle" => \A r \in Runners : Driving(r) => runner[r] = "spawned"]_vars

(* No two runners drive the run at a time. *)
AtMostOneDriver == \A r, s \in Runners : Driving(r) /\ Driving(s) => r = s

(* A run whose event stream has ended is given its terminal state, whoever  *)
(* else claims one meanwhile, unless its runner dies.                       *)
EndedIsClaimed ==
    \A r \in Runners :
        runner[r] = "ended" ~> ClaimedTerminal(ledger) # "none" \/ runner[r] = "dead"

(* A completed delivery run gets a verification outcome, unless a runner    *)
(* dies.                                                                    *)
CompletedIsVerified ==
    ClaimedTerminal(ledger) = "completed" ~>
        Of(ledger, "verification") # {} \/ \E r \in Runners : runner[r] = "dead"

=============================================================================
