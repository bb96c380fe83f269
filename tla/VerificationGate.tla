--------------------------- MODULE VerificationGate ---------------------------
(***************************************************************************)
(* The machine-wide verification gate (src/src/verificationGate.js) as     *)
(* verifyDelivery uses it: a lease file created with open(path, "wx"),     *)
(* renewed by a heartbeat that overwrites it, taken over when its stamp is *)
(* stale, its holder is past the cap or its content is corrupt, and        *)
(* dropped altogether when the infrastructure fails.                       *)
(*                                                                         *)
(* Every file operation is a step; between two of them other processes     *)
(* run.  A verifier is one call of acquire, with a token of its own.  Time *)
(* is what the code can tell of it: a stamp is fresh or stale, a holder is *)
(* within its cap or over it, a grace window is running or past.           *)
(***************************************************************************)
EXTENDS Integers, FiniteSets

CONSTANTS
    Verifiers,    \* the calls of gate.acquire()
    NoLease,      \* the lease file does not exist
    Faults,       \* what may go wrong: a subset of AllFaults
    MaxFailures   \* MAX_CONSECUTIVE_READ_FAILURES

AllFaults == {"crash", "stall", "hang", "io", "break"}

ASSUME GateAssumption ==
    /\ NoLease \notin Verifiers
    /\ Faults \subseteq AllFaults
    /\ MaxFailures \in Nat \ {0}

VARIABLES
    place,       \* where each verifier is in acquire, runPhases and release
    heart,       \* where its heartbeat loop is
    owner,       \* whose token the lease holds (or who created it, if empty)
    content,     \* empty (created or truncated, not written yet) or record
    stamp,       \* heartbeatAt of the record: fresh or stale
    writers,     \* who has the file at the path open for writing
    over,        \* holders whose startedAt is older than the cap
    sight,       \* the content a waiter wants to remove: empty, record, gone
    grace,       \* a waiter's corruptSeenAt: no, seen or past
    misses,      \* consecutiveReadFailures
    refusals,    \* consecutiveReclaimFailures
    lost,        \* leaseLost
    disturbed    \* something has gone wrong so far

fileVars == <<owner, content, stamp, writers>>
waitVars == <<sight, grace, misses, refusals>>
vars == <<place, heart, fileVars, over, waitVars, lost, disturbed>>

Waiting == {"claiming", "opened", "looking", "comparing", "unlinking"}

Init ==
    /\ place = [v \in Verifiers |-> "idle"]
    /\ heart = [v \in Verifiers |-> "off"]
    /\ owner = NoLease /\ content = "empty" /\ stamp = "fresh" /\ writers = {}
    /\ over = {}
    /\ sight = [v \in Verifiers |-> "gone"]
    /\ grace = [v \in Verifiers |-> "no"]
    /\ misses = [v \in Verifiers |-> 0]
    /\ refusals = [v \in Verifiers |-> 0]
    /\ lost = [v \in Verifiers |-> FALSE]
    /\ disturbed = FALSE

-----------------------------------------------------------------------------
(* The lease file.  A record that is overwritten or removed never comes    *)
(* back with the same bytes (its stamp differs); an empty file does.       *)

Go(v, from, to) ==
    /\ place[v] = from
    /\ place' = [place EXCEPT ![v] = to]

Forget == sight' = [w \in Verifiers |-> IF sight[w] = "record" THEN "gone" ELSE sight[w]]

(* unlink(path), whatever is there. *)
Unlink ==
    /\ owner' = NoLease /\ content' = "empty" /\ stamp' = "fresh" /\ writers' = {}
    /\ Forget

(* The record of v is written through the handle v has open.  If its file  *)
(* was unlinked meanwhile the bytes go nowhere.                            *)
WriteRecord(v) ==
    /\ writers' = writers \ {v}
    /\ IF v \in writers
         THEN /\ owner' = v /\ content' = "record" /\ stamp' = "fresh"
              /\ Forget
         ELSE UNCHANGED <<owner, content, stamp, sight>>

Fault(kind) == kind \in Faults /\ disturbed' = TRUE

-----------------------------------------------------------------------------
(* acquire *)

Call(v) ==
    /\ Go(v, "idle", "claiming")
    /\ UNCHANGED <<heart, fileVars, over, waitVars, lost, disturbed>>

(* Mutant of Create: without "wx" an existing file is opened too. *)
CreateAnyway(v) ==
    /\ Go(v, "claiming", "opened")
    /\ owner' = v /\ content' = "empty" /\ stamp' = "fresh"
    /\ writers' = (IF owner = NoLease THEN {} ELSE writers) \cup {v}
    /\ Forget
    /\ UNCHANGED <<heart, over, grace, misses, refusals, lost, disturbed>>

(* claim: open(path, "wx") creates the file, empty. *)
Create(v) ==
    /\ owner = NoLease
    /\ Go(v, "claiming", "opened")
    /\ owner' = v /\ content' = "empty" /\ stamp' = "fresh" /\ writers' = {v}
    /\ UNCHANGED <<heart, over, waitVars, lost, disturbed>>

(* EEXIST *)
Exists(v) ==
    /\ owner # NoLease
    /\ Go(v, "claiming", "looking")
    /\ UNCHANGED <<heart, fileVars, over, waitVars, lost, disturbed>>

(* The lease is written: a handle, whose heartbeat starts.  The variables   *)
(* of acquire are gone.                                                     *)
WriteLease(v) ==
    /\ Go(v, "opened", "verifying")
    /\ WriteRecord(v)
    /\ heart' = [heart EXCEPT ![v] = "asleep"]
    /\ grace' = [grace EXCEPT ![v] = "no"]
    /\ misses' = [misses EXCEPT ![v] = 0]
    /\ refusals' = [refusals EXCEPT ![v] = 0]
    /\ UNCHANGED <<over, lost, disturbed>>

(* Any other error of the claim: fail-open.  A write that failed leaves    *)
(* the empty file.                                                         *)
ClaimFails(v) ==
    /\ Fault("io")
    /\ Go(v, "claiming", "ungated") \/ Go(v, "opened", "ungated")
    /\ writers' = writers \ {v}
    /\ UNCHANGED <<heart, owner, content, stamp, over, waitVars, lost>>

(* Mutant of Abandoned: there is no cap. *)
StaleOnly == stamp = "stale"

(* A record that may be taken over. *)
Abandoned == stamp = "stale" \/ owner \in over

(* The poll after EEXIST, as far as the decision. *)
Look(v) ==
    /\ LET corrupt == owner # NoLease /\ content = "empty"
           intact  == owner # NoLease /\ content = "record"
           reclaim == \/ corrupt /\ grace[v] = "past"
                      \/ intact /\ Abandoned
       IN
       /\ Go(v, "looking", IF reclaim THEN "comparing" ELSE "claiming")
       /\ sight' = [sight EXCEPT ![v] = IF reclaim THEN content ELSE "gone"]
       /\ grace' = [grace EXCEPT ![v] = IF ~corrupt THEN "no" ELSE IF @ = "no" THEN "seen" ELSE @]
       /\ refusals' = [refusals EXCEPT ![v] = IF corrupt \/ reclaim THEN @ ELSE 0]
    /\ misses' = [misses EXCEPT ![v] = 0]
    /\ UNCHANGED <<heart, fileVars, over, lost, disturbed>>

(* The poll cannot read the lease; the fifth time in a row it is fail-open. *)
LookFails(v) ==
    /\ Fault("io")
    /\ misses' = [misses EXCEPT ![v] = @ + 1]
    /\ Go(v, "looking", IF misses'[v] >= MaxFailures THEN "ungated" ELSE "claiming")
    /\ UNCHANGED <<heart, fileVars, over, sight, grace, refusals, lost>>

SameAsSeen(v) ==
    /\ sight[v] # "gone"
    /\ owner # NoLease /\ content = sight[v]

(* reclaimIfSame answers false; the fifth time in a row it is fail-open. *)
Refused(v, from) ==
    /\ refusals' = [refusals EXCEPT ![v] = @ + 1]
    /\ Go(v, from, IF refusals'[v] >= MaxFailures THEN "ungated" ELSE "claiming")
    /\ sight' = [sight EXCEPT ![v] = "gone"]
    /\ UNCHANGED <<heart, fileVars, over, grace, misses, lost>>

(* reclaimIfSame: the file is read again and compared. *)
Compare(v) ==
    \/ /\ SameAsSeen(v)
       /\ Go(v, "comparing", "unlinking")
       /\ UNCHANGED <<heart, fileVars, over, waitVars, lost, disturbed>>
    \/ ~SameAsSeen(v) /\ Refused(v, "comparing") /\ UNCHANGED disturbed

(* Its unlink, of whatever is at the path by now. *)
Reclaim(v) ==
    \/ /\ owner # NoLease
       /\ Go(v, "unlinking", "claiming")
       /\ owner' = NoLease /\ content' = "empty" /\ stamp' = "fresh" /\ writers' = {}
       /\ sight' = [w \in Verifiers |->
                      IF w = v \/ sight[w] = "record" THEN "gone" ELSE sight[w]]
       /\ grace' = [grace EXCEPT ![v] = "no"]
       /\ refusals' = [refusals EXCEPT ![v] = 0]
       /\ UNCHANGED <<heart, over, misses, lost, disturbed>>
    \/ owner = NoLease /\ Refused(v, "unlinking") /\ UNCHANGED disturbed

(* The file cannot be read or unlinked: a handle is open, or an ACL. *)
ReclaimFails(v) ==
    /\ Fault("io")
    /\ Refused(v, "comparing") \/ Refused(v, "unlinking")

-----------------------------------------------------------------------------
(* The heartbeat of a holder.  Each beat runs to its end before the rest   *)
(* of its process goes on.                                                 *)

Beats(v, from, to) ==
    /\ heart[v] = from
    /\ heart' = [heart EXCEPT ![v] = to]

(* Mutant of Beat: the token is not looked at. *)
BeatBlindly(v) ==
    /\ Beats(v, "asleep", "renewing")
    /\ UNCHANGED <<place, fileVars, over, waitVars, lost, disturbed>>

(* Only a holder that reads its own token goes on to renew. *)
Beat(v) ==
    /\ IF owner = v /\ content = "record"
         THEN Beats(v, "asleep", "renewing") /\ UNCHANGED lost
         ELSE Beats(v, "asleep", "off") /\ lost' = [lost EXCEPT ![v] = TRUE]
    /\ UNCHANGED <<place, fileVars, over, waitVars, disturbed>>

(* overwrite: writeFileSync opens the path, which truncates what is there  *)
(* or creates the file again, and then writes.                             *)
Truncate(v) ==
    /\ Beats(v, "renewing", "writing")
    /\ owner' = v /\ content' = "empty" /\ stamp' = "fresh"
    /\ writers' = writers \cup {v}
    /\ Forget
    /\ UNCHANGED <<place, over, grace, misses, refusals, lost, disturbed>>

Renew(v) ==
    /\ Beats(v, "writing", "asleep")
    /\ WriteRecord(v)
    /\ UNCHANGED <<place, over, grace, misses, refusals, lost, disturbed>>

(* A beat that fails, reading or writing, is skipped. *)
BeatSkipped(v) ==
    /\ Fault("io")
    /\ Beats(v, "renewing", "asleep") \/ Beats(v, "writing", "asleep")
    /\ writers' = writers \ {v}
    /\ UNCHANGED <<place, owner, content, stamp, over, waitVars, lost>>

-----------------------------------------------------------------------------
(* release, when the commands have run.  Reading the token and comparing   *)
(* the file with what was read are one step: both succeed exactly when the *)
(* token is still ours at the comparison.                                  *)
Release(v) ==
    /\ heart[v] \in {"asleep", "off"}
    /\ Go(v, "verifying",
          IF ~lost[v] /\ owner = v /\ content = "record" THEN "deleting" ELSE "done")
    /\ heart' = [heart EXCEPT ![v] = "off"]
    /\ UNCHANGED <<fileVars, over, waitVars, lost, disturbed>>

ReleaseFails(v) ==
    /\ Fault("io")
    /\ \/ Go(v, "deleting", "done") /\ UNCHANGED heart
       \/ /\ heart[v] \in {"asleep", "off"} /\ Go(v, "verifying", "done")
          /\ heart' = [heart EXCEPT ![v] = "off"]
    /\ UNCHANGED <<fileVars, over, waitVars, lost>>

(* reclaimIfSame unlinks what is at the path. *)
Delete(v) ==
    /\ Go(v, "deleting", "done")
    /\ Unlink
    /\ UNCHANGED <<heart, over, grace, misses, refusals, lost, disturbed>>

(* A verification that went on without the gate ends. *)
FinishUngated(v) ==
    /\ Go(v, "ungated", "done")
    /\ UNCHANGED <<heart, fileVars, over, waitVars, lost, disturbed>>

-----------------------------------------------------------------------------
(* Time and accidents. *)

(* A process dies; its lease stays. *)
Crash(v) ==
    /\ Fault("crash")
    /\ place[v] \notin {"idle", "done", "dead"}
    /\ place' = [place EXCEPT ![v] = "dead"]
    /\ heart' = [heart EXCEPT ![v] = "off"]
    /\ writers' = writers \ {v}
    /\ sight' = [sight EXCEPT ![v] = "gone"]
    /\ UNCHANGED <<owner, content, stamp, over, grace, misses, refusals, lost>>

(* 90 s without a beat, because nobody beats any more. *)
LeaseAges ==
    /\ owner # NoLease /\ content = "record" /\ stamp = "fresh"
    /\ heart[owner] = "off" /\ place[owner] \in {"done", "dead"}
    /\ stamp' = "stale"
    /\ UNCHANGED <<place, heart, owner, content, writers, over, waitVars, lost, disturbed>>

(* The same although the holder lives: the process is suspended. *)
LeaseLapses ==
    /\ Fault("stall")
    /\ owner # NoLease /\ content = "record" /\ stamp = "fresh"
    /\ stamp' = "stale"
    /\ UNCHANGED <<place, heart, owner, content, writers, over, waitVars, lost>>

(* 15 s after the first sight of a corrupt lease. *)
GracePasses(v) ==
    /\ grace[v] = "seen"
    /\ owner # NoLease /\ content = "empty" /\ writers = {}
    /\ grace' = [grace EXCEPT ![v] = "past"]
    /\ UNCHANGED <<place, heart, fileVars, over, sight, misses, refusals, lost, disturbed>>

(* The same while somebody is about to write: a process is suspended. *)
GraceLapses(v) ==
    /\ Fault("stall")
    /\ grace[v] = "seen"
    /\ grace' = [grace EXCEPT ![v] = "past"]
    /\ UNCHANGED <<place, heart, fileVars, over, sight, misses, refusals, lost>>

(* A verification runs for longer than the cap. *)
Hang(v) ==
    /\ Fault("hang")
    /\ place[v] = "verifying" /\ v \notin over
    /\ over' = over \cup {v}
    /\ UNCHANGED <<place, heart, fileVars, waitVars, lost>>

(* runs gate --release *)
BreakLock ==
    /\ Fault("break")
    /\ owner # NoLease
    /\ Unlink
    /\ UNCHANGED <<place, heart, over, grace, misses, refusals, lost>>

-----------------------------------------------------------------------------
(* What a living process does by itself before it holds the lease. *)
AcquireStep(v) ==
    Create(v) \/ Exists(v) \/ WriteLease(v) \/ Look(v) \/ Compare(v) \/ Reclaim(v)

HeartStep(v) == Beat(v) \/ Truncate(v) \/ Renew(v)

FaultStep(v) ==
    \/ ClaimFails(v) \/ LookFails(v) \/ ReclaimFails(v) \/ BeatSkipped(v) \/ ReleaseFails(v)
    \/ Crash(v) \/ GraceLapses(v) \/ Hang(v)

VerifierStep(v) ==
    \/ Call(v) \/ AcquireStep(v) \/ HeartStep(v)
    \/ Release(v) \/ Delete(v) \/ FinishUngated(v)
    \/ GracePasses(v) \/ FaultStep(v)

Next ==
    \/ \E v \in Verifiers : VerifierStep(v)
    \/ LeaseAges \/ LeaseLapses \/ BreakLock

Spec == Init /\ [][Next]_vars

(* Loops over timers in living processes go on, and time passes, the cap    *)
(* of a holder included.  A beat takes an instant every 30 s: a waiter that *)
(* polls every second does not meet one at every poll, nor between each of  *)
(* its reclaims and the claim that follows it (SF).  No verification is     *)
(* assumed ever to end.                                                     *)
Fairness ==
    /\ WF_vars(LeaseAges)
    /\ \A v \in Verifiers :
         /\ WF_vars(AcquireStep(v)) /\ WF_vars(HeartStep(v)) /\ WF_vars(Delete(v))
         /\ WF_vars(GracePasses(v)) /\ WF_vars(Hang(v))
         /\ SF_vars(content = "record" /\ Exists(v)) /\ SF_vars(content = "record" /\ Look(v))
         /\ SF_vars(Create(v))

FairSpec == Spec /\ Fairness

-----------------------------------------------------------------------------
(* Properties. *)

Places == Waiting \cup {"idle", "verifying", "ungated", "deleting", "done", "dead"}

GateTypeOK ==
    /\ place \in [Verifiers -> Places]
    /\ heart \in [Verifiers -> {"off", "asleep", "renewing", "writing"}]
    /\ owner \in Verifiers \cup {NoLease}
    /\ content \in {"empty", "record"}
    /\ stamp \in {"fresh", "stale"}
    /\ writers \subseteq Verifiers
    /\ over \subseteq Verifiers
    /\ sight \in [Verifiers -> {"gone", "empty", "record"}]
    /\ grace \in [Verifiers -> {"no", "seen", "past"}]
    /\ misses \in [Verifiers -> 0 .. MaxFailures]
    /\ refusals \in [Verifiers -> 0 .. MaxFailures]
    /\ lost \in [Verifiers -> BOOLEAN]
    /\ disturbed \in BOOLEAN

(* What a verifier is to verifyDelivery, by its place. *)
TurnAt(here) ==
    CASE here = "idle" -> "out"
      [] here \in Waiting -> "waiting"
      [] here = "verifying" -> "holding"
      [] here = "ungated" -> "open"
      [] OTHER -> "past"

Promise == INSTANCE SerializedVerification
             WITH turn <- [v \in Verifiers |-> TurnAt(place[v])], disturbed <- disturbed

(* The lease protocol keeps the promise of the gate: verifications take     *)
(* turns until something goes wrong, and none skips the gate before.        *)
TakesTurns == Promise!PromiseSpec

(* verificationGate.js:21: waiting ends, even if no holder ever releases    *)
(* its lease, dies, hangs, or leaves a corrupt one.                         *)
WaitEnds == \A v \in Verifiers : place[v] \in Waiting ~> place[v] \notin Waiting

Believes(v) == place[v] = "verifying" /\ ~lost[v]

(* Beats are instants 30 s apart, so they do not overlap for ever. *)
BeatsComeToRest == []<>(\A v \in Verifiers : heart[v] \in {"off", "asleep"})

(* verificationGate.js:33-36: when two verifiers take themselves for the    *)
(* holder, one of them learns better by its own heartbeat.                  *)
TwoHoldersHeal ==
    BeatsComeToRest =>
        \A v, w \in Verifiers :
            v # w => (Believes(v) /\ Believes(w) ~> ~(Believes(v) /\ Believes(w)))
=============================================================================
