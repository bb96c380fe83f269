------------------------ MODULE VerificationGateProofs ------------------------
(***************************************************************************)
(* The gate keeps its promise for any number of verifiers and whatever     *)
(* goes wrong: it implements SerializedVerification.                       *)
(***************************************************************************)
EXTENDS VerificationGate, TLAPS

(* The one place in which a verifier has a claim to the lease file. *)
Owning == {"opened", "verifying", "deleting"}

(* As long as nothing has gone wrong: only who has created the file writes  *)
(* or removes it, it is fresh, and nobody wants to take it over.            *)
Calm ==
    /\ stamp = "fresh" /\ over = {}
    /\ owner # NoLease => place[owner] \in Owning
    /\ \A v \in Verifiers :
         /\ place[v] \in {"idle", "claiming", "looking", "done"} \cup Owning
         /\ place[v] \in Owning => owner = v
         /\ place[v] = "verifying" <=> heart[v] # "off"
         /\ place[v] = "opened" \/ heart[v] = "writing" => v \in writers
         /\ place[v] = "deleting" \/ heart[v] \in {"asleep", "renewing"} => content = "record"
         /\ ~lost[v] /\ grace[v] # "past"

GateInv == GateTypeOK /\ (disturbed \/ Calm)

(* A waiter has not failed as often as it takes to fail open. *)
Patient ==
    \A v \in Verifiers : place[v] \in Waiting \cup {"idle"} => misses[v] < MaxFailures /\ refusals[v] < MaxFailures

Typed == GateTypeOK /\ Patient

(* Initially the types are right. *)
LEMMA TypeInit == Init => Typed
<1> SUFFICES ASSUME Init PROVE Typed OBVIOUS
<1>1. GateTypeOK
  <2>1. 0 \in 0 .. MaxFailures BY GateAssumption
  <2>2. misses \in [Verifiers -> 0 .. MaxFailures] /\ refusals \in [Verifiers -> 0 .. MaxFailures]
    BY <2>1, Zenon DEF Init
  <2>3. place \in [Verifiers -> Places] BY DEF Init, Places
  <2>4. QED BY <2>2, <2>3 DEF Init, GateTypeOK
<1>2. Patient BY GateAssumption DEF Init, Patient
<1>3. QED BY <1>1, <1>2 DEF Typed

(* What a failed reclaim does, from either of its places. *)
LEMMA TypeRefused ==
    ASSUME Typed, NEW v \in Verifiers, NEW from \in {"comparing", "unlinking"}, Refused(v, from),
           disturbed' \in BOOLEAN
    PROVE  Typed'
<1>1. refusals[v] \in Nat /\ refusals[v] < MaxFailures /\ MaxFailures \in Nat
  BY GateAssumption DEF Typed, Patient, GateTypeOK, Waiting, Refused, Go
<1>2. GateTypeOK'
  BY <1>1 DEF Typed, Refused, Go, GateTypeOK, Places, Waiting, fileVars
<1>3. Patient'
  BY <1>1, GateAssumption DEF Typed, Refused, Go, GateTypeOK, Patient, Waiting, fileVars
<1>4. QED BY <1>2, <1>3 DEF Typed

(* A step of a verifier's acquire keeps the types. *)
LEMMA TypeAcquire ==
    ASSUME Typed, NEW v \in Verifiers, AcquireStep(v) \/ Call(v)
    PROVE  Typed'
<1> USE GateAssumption DEF Typed, Patient, GateTypeOK, Places, Waiting, Go, fileVars, waitVars
<1>1. CASE Call(v) BY <1>1 DEF Call
<1>2. CASE Create(v)
  <2>1. place' \in [Verifiers -> Places] BY <1>2 DEF Create
  <2>2. Patient' BY <1>2 DEF Create
  <2>3. QED BY <1>2, <2>1, <2>2 DEF Create
<1>3. CASE Exists(v) BY <1>3 DEF Exists
<1>4. CASE WriteLease(v)
  <2>1. 0 \in 0 .. MaxFailures /\ 0 < MaxFailures OBVIOUS
  <2>2. misses' \in [Verifiers -> 0 .. MaxFailures] /\ refusals' \in [Verifiers -> 0 .. MaxFailures]
    BY <1>4, <2>1 DEF WriteLease
  <2>3. Patient' BY <1>4 DEF WriteLease
  <2>4. QED BY <1>4, <2>2, <2>3 DEF WriteLease, WriteRecord, Forget
<1>5. CASE Look(v)
  <2>1. /\ place' \in [Verifiers -> Places]
        /\ sight' \in [Verifiers -> {"gone", "empty", "record"}]
        /\ grace' \in [Verifiers -> {"no", "seen", "past"}]
    BY <1>5 DEF Look
  <2>2. misses' \in [Verifiers -> 0 .. MaxFailures] BY <1>5 DEF Look
  <2>3. refusals' \in [Verifiers -> 0 .. MaxFailures] BY <1>5 DEF Look
  <2>4. Patient' BY <1>5 DEF Look
  <2>5. QED BY <1>5, <2>1, <2>2, <2>3, <2>4 DEF Look
<1>6. CASE Compare(v)
  <2>1. CASE Refused(v, "comparing") /\ UNCHANGED disturbed BY <2>1, TypeRefused
  <2>2. CASE Go(v, "comparing", "unlinking") /\ UNCHANGED <<heart, fileVars, over, waitVars, lost, disturbed>>
    BY <2>2
  <2>3. QED BY <1>6, <2>1, <2>2 DEF Compare
<1>7. CASE Reclaim(v)
  <2>1. CASE Refused(v, "unlinking") /\ UNCHANGED disturbed BY <2>1, TypeRefused
  <2>2. CASE owner # NoLease BY <1>7, <2>2 DEF Reclaim
  <2>3. QED BY <1>7, <2>1, <2>2 DEF Reclaim
<1>8. QED BY <1>1, <1>2, <1>3, <1>4, <1>5, <1>6, <1>7 DEF AcquireStep

(* So do the heartbeat, the release and the ends. *)
LEMMA TypeHolder ==
    ASSUME Typed, NEW v \in Verifiers, HeartStep(v) \/ Release(v) \/ Delete(v) \/ FinishUngated(v)
    PROVE  Typed'
<1> USE GateAssumption DEF Typed, Patient, GateTypeOK, Places, Waiting, Go, Beats, fileVars, waitVars
<1>1. CASE Beat(v) BY <1>1 DEF Beat
<1>2. CASE Truncate(v) BY <1>2 DEF Truncate, Forget
<1>3. CASE Renew(v) BY <1>3 DEF Renew, WriteRecord, Forget
<1>4. CASE Release(v) BY <1>4 DEF Release
<1>5. CASE Delete(v) BY <1>5 DEF Delete, Unlink, Forget
<1>6. CASE FinishUngated(v) BY <1>6 DEF FinishUngated
<1>7. QED BY <1>1, <1>2, <1>3, <1>4, <1>5, <1>6 DEF HeartStep

(* So does whatever goes wrong with a verifier, or passes in its grace. *)
LEMMA TypeFault ==
    ASSUME Typed, NEW v \in Verifiers, FaultStep(v) \/ GracePasses(v)
    PROVE  Typed'
<1> USE GateAssumption DEF Typed, Patient, GateTypeOK, Places, Waiting, Go, Beats, Fault, fileVars, waitVars
<1>1. CASE ClaimFails(v) BY <1>1 DEF ClaimFails
<1>2. CASE LookFails(v)
  <2>1. misses[v] \in Nat /\ misses[v] < MaxFailures /\ MaxFailures \in Nat BY <1>2 DEF LookFails
  <2>2. misses' \in [Verifiers -> 0 .. MaxFailures] BY <1>2, <2>1 DEF LookFails
  <2>3. Patient' BY <1>2, <2>1 DEF LookFails
  <2>4. QED BY <1>2, <2>2, <2>3 DEF LookFails
<1>3. CASE ReclaimFails(v)
  <2>1. disturbed' \in BOOLEAN BY <1>3 DEF ReclaimFails
  <2>2. QED BY <1>3, <2>1, TypeRefused DEF ReclaimFails
<1>4. CASE BeatSkipped(v) BY <1>4 DEF BeatSkipped
<1>5. CASE ReleaseFails(v) BY <1>5 DEF ReleaseFails
<1>6. CASE Crash(v) BY <1>6 DEF Crash
<1>7. CASE GraceLapses(v) BY <1>7 DEF GraceLapses
<1>8. CASE Hang(v) BY <1>8 DEF Hang
<1>9. CASE GracePasses(v) BY <1>9 DEF GracePasses
<1>10. QED BY <1>1, <1>2, <1>3, <1>4, <1>5, <1>6, <1>7, <1>8, <1>9 DEF FaultStep

(* Every step keeps the types and the counts. *)
LEMMA TypeStep == Typed /\ [Next]_vars => Typed'
<1> SUFFICES ASSUME Typed, [Next]_vars PROVE Typed' OBVIOUS
<1>1. CASE \E v \in Verifiers : VerifierStep(v)
  BY <1>1, TypeAcquire, TypeHolder, TypeFault DEF VerifierStep
<1>2. CASE LeaseAges \/ LeaseLapses \/ BreakLock
  BY <1>2 DEF LeaseAges, LeaseLapses, BreakLock, Unlink, Forget, Fault, Typed, Patient, GateTypeOK, waitVars
<1>3. CASE UNCHANGED vars
  BY <1>3 DEF vars, fileVars, waitVars, Typed, Patient, GateTypeOK
<1>4. QED BY <1>1, <1>2, <1>3 DEF Next

(* Type correctness: in particular no failure count passes its bound, for   *)
(* a waiter goes on without the gate when it reaches it.                    *)
THEOREM GateTypeCorrect == Spec => []GateTypeOK
<1>1. Typed => GateTypeOK BY DEF Typed
<1>2. QED BY <1>1, TypeInit, TypeStep, PTL DEF Spec

-----------------------------------------------------------------------------
(* Until something goes wrong the lease has the owner it should have. *)
LEMMA CalmInit == Init => Calm
BY DEF Init, Calm, Owning

(* Steps of a process that is not disturbed keep the calm. *)
LEMMA CalmVerifier ==
    ASSUME Typed, Calm, NEW v \in Verifiers,
           \/ Call(v) \/ AcquireStep(v) \/ HeartStep(v)
           \/ Release(v) \/ Delete(v) \/ FinishUngated(v)
    PROVE  Calm'
<1> USE DEF Typed, GateTypeOK, Calm, Owning, Go, Beats, fileVars, waitVars
<1>1. CASE Call(v) BY <1>1 DEF Call
<1>2. CASE Create(v) BY <1>2, GateAssumption DEF Create
<1>3. CASE Exists(v) BY <1>3 DEF Exists
<1>4. CASE WriteLease(v) BY <1>4 DEF WriteLease, WriteRecord, Forget
<1>5. CASE Look(v) BY <1>5, GateAssumption DEF Look, Abandoned
<1>6. CASE Compare(v) BY <1>6 DEF Compare, Refused
<1>7. CASE Reclaim(v) BY <1>7 DEF Reclaim, Refused
<1>8. CASE Beat(v) BY <1>8 DEF Beat
<1>9. CASE Truncate(v) BY <1>9 DEF Truncate, Forget
<1>10. CASE Renew(v) BY <1>10 DEF Renew, WriteRecord, Forget
<1>11. CASE Release(v) BY <1>11 DEF Release
<1>12. CASE Delete(v) BY <1>12, GateAssumption DEF Delete, Unlink, Forget
<1>13. CASE FinishUngated(v) BY <1>13 DEF FinishUngated
<1>14. QED
  BY <1>1, <1>2, <1>3, <1>4, <1>5, <1>6, <1>7, <1>8, <1>9, <1>10, <1>11, <1>12, <1>13
  DEF AcquireStep, HeartStep

(* So does everything else, or it is the thing that goes wrong. *)
LEMMA CalmStep == Typed /\ (disturbed \/ Calm) /\ [Next]_vars => (disturbed \/ Calm)'
<1> SUFFICES ASSUME Typed, disturbed \/ Calm, [Next]_vars, ~disturbed' PROVE Calm' OBVIOUS
<1> USE DEF Typed, GateTypeOK, fileVars, waitVars
<1>1. ASSUME NEW v \in Verifiers, VerifierStep(v) PROVE Calm'
  <2>1. CASE FaultStep(v)
    BY <2>1, Zenon DEF FaultStep, ClaimFails, LookFails, ReclaimFails, BeatSkipped, ReleaseFails,
                Crash, GraceLapses, Hang, Fault
  <2>2. ~FaultStep(v) => disturbed' = disturbed
    BY <1>1 DEF VerifierStep, Call, AcquireStep, Create, Exists, WriteLease, Look, Compare, Reclaim,
                HeartStep, Beat, Truncate, Renew, Release, Delete, FinishUngated, GracePasses
  <2>3. CASE GracePasses(v)
    <3>1. Calm BY <2>2, <2>3 DEF GracePasses
    <3>2. FALSE BY <2>3, <3>1 DEF GracePasses, Calm, Owning
    <3>3. QED BY <3>2
  <2>4. CASE ~FaultStep(v) /\ ~GracePasses(v)
    BY <1>1, <2>2, <2>4, CalmVerifier DEF VerifierStep
  <2>5. QED BY <2>1, <2>3, <2>4
<1>2. CASE LeaseAges
  <2>1. Calm BY <1>2 DEF LeaseAges
  <2>2. FALSE BY <1>2, <2>1 DEF LeaseAges, Calm, Owning
  <2>3. QED BY <2>2
<1>3. CASE LeaseLapses \/ BreakLock BY <1>3 DEF LeaseLapses, BreakLock, Fault
<1>4. CASE UNCHANGED vars BY <1>4 DEF vars, Calm, Owning
<1>5. QED BY <1>1, <1>2, <1>3, <1>4 DEF Next

LEMMA GateInvariant == Spec => [](Typed /\ (disturbed \/ Calm))
<1>1. Init => Typed /\ (disturbed \/ Calm) BY TypeInit, CalmInit
<1>2. QED BY <1>1, TypeStep, CalmStep, PTL DEF Spec

-----------------------------------------------------------------------------
(* The refinement. *)

Turn == [v \in Verifiers |-> TurnAt(place[v])]

(* A verifier that goes from one place to another changes its turn alone. *)
LEMMA Turns ==
    ASSUME place \in [Verifiers -> Places], NEW v \in Verifiers, NEW from, NEW to, Go(v, from, to)
    PROVE  /\ Turn[v] = TurnAt(from)
           /\ Turn' = [Turn EXCEPT ![v] = TurnAt(to)]
<1>1. Turn[v] = TurnAt(from) BY DEF Turn, Go
<1>2. \A w \in Verifiers : place'[w] = IF w = v THEN to ELSE place[w] BY DEF Go
<1>3. \A w \in Verifiers : TurnAt(place'[w]) = IF w = v THEN TurnAt(to) ELSE TurnAt(place[w])
  BY <1>2
<1>4. QED BY <1>1, <1>3, Zenon DEF Turn

(* Initially nobody has called. *)
LEMMA PromiseHolds == Init => Promise!PromiseInit
<1>1. TurnAt("idle") = "out" BY DEF TurnAt, Waiting
<1>2. QED BY <1>1 DEF Init, Promise!PromiseInit

(* The turns that the places stand for. *)
LEMMA TurnsOfPlaces ==
    /\ TurnAt("idle") = "out" /\ TurnAt("verifying") = "holding" /\ TurnAt("ungated") = "open"
    /\ \A p \in Waiting : TurnAt(p) = "waiting"
    /\ TurnAt("deleting") = "past" /\ TurnAt("done") = "past" /\ TurnAt("dead") = "past"
BY DEF TurnAt, Waiting

(* A verifier that changes its place as the protocol lets it takes a step   *)
(* of the promise.                                                          *)
LEMMA Advance ==
    ASSUME Typed, NEW v \in Verifiers, NEW from, NEW to, Go(v, from, to),
           disturbed' \in {disturbed, TRUE},
           \/ TurnAt(from) = TurnAt(to)
           \/ from = "idle" /\ to = "claiming" /\ disturbed' = disturbed
           \/ /\ from = "opened" /\ to = "verifying" /\ disturbed' = disturbed
              /\ disturbed \/ \A w \in Verifiers : place[w] # "verifying"
           \/ from \in Waiting /\ to = "ungated" /\ disturbed'
           \/ from \in {"verifying", "ungated"} /\ to \in {"deleting", "done"}
           \/ from \in Places \ {"idle"} /\ to = "dead" /\ disturbed'
    PROVE  [Promise!PromiseNext]_(Promise!promiseVars)
<1>1. /\ Turn[v] = TurnAt(from) /\ Turn' = [Turn EXCEPT ![v] = TurnAt(to)]
      /\ disturbed \in BOOLEAN /\ place \in [Verifiers -> Places]
  BY Turns DEF Typed, GateTypeOK
<1>2. DOMAIN Turn = Verifiers BY DEF Turn
<1> USE DEF Promise!PromiseNext, Promise!promiseVars, Promise!Move
<1>3. CASE TurnAt(from) = TurnAt(to)
  <2>1. Turn' = Turn BY <1>1, <1>2, <1>3 DEF Turn
  <2>2. QED BY <2>1 DEF Turn, Promise!Disturb
<1>4. CASE from = "idle" /\ to = "claiming" /\ disturbed' = disturbed
  <2>1. Promise!Call(v) BY <1>1, <1>4, TurnsOfPlaces DEF Promise!Call, Turn, Waiting
  <2>2. QED BY <2>1
<1>5. CASE /\ from = "opened" /\ to = "verifying" /\ disturbed' = disturbed
           /\ disturbed \/ \A w \in Verifiers : place[w] # "verifying"
  <2>1. disturbed \/ \A w \in Verifiers : Turn[w] # "holding"
    BY <1>1, <1>5 DEF Turn, TurnAt, Places
  <2>2. Promise!Enter(v) BY <1>1, <1>5, <2>1, TurnsOfPlaces DEF Promise!Enter, Turn, Waiting
  <2>3. QED BY <2>2
<1>6. CASE from \in Waiting /\ to = "ungated" /\ disturbed'
  <2>1. Promise!FailOpen(v) BY <1>1, <1>6, TurnsOfPlaces DEF Promise!FailOpen, Turn
  <2>2. QED BY <2>1
<1>7. CASE from \in {"verifying", "ungated"} /\ to \in {"deleting", "done"}
  <2>1. Promise!Leave(v) BY <1>1, <1>7, TurnsOfPlaces DEF Promise!Leave, Turn
  <2>2. QED BY <2>1
<1>8. CASE from \in Places \ {"idle"} /\ to = "dead" /\ disturbed'
  <2>1. TurnAt(from) \in {"waiting", "holding", "open", "past"}
    BY <1>8, TurnsOfPlaces DEF Places
  <2>2. Promise!Die(v) BY <1>1, <1>8, <2>1, TurnsOfPlaces DEF Promise!Die, Turn
  <2>3. QED BY <2>2
<1>9. QED BY <1>3, <1>4, <1>5, <1>6, <1>7, <1>8

(* A step that moves nobody is none, or something going wrong. *)
LEMMA Linger ==
    ASSUME place' = place, disturbed' \in {disturbed, TRUE}
    PROVE  [Promise!PromiseNext]_(Promise!promiseVars)
<1>1. Turn' = Turn BY Zenon DEF Turn
<1>2. QED BY <1>1 DEF Turn, Promise!PromiseNext, Promise!promiseVars, Promise!Disturb

(* A step of the protocol is a step of the promise, or none. *)
LEMMA PromiseStep ==
    Typed /\ (disturbed \/ Calm) /\ [Next]_vars => [Promise!PromiseNext]_(Promise!promiseVars)
<1> SUFFICES ASSUME Typed, disturbed \/ Calm, [Next]_vars
             PROVE  [Promise!PromiseNext]_(Promise!promiseVars)
  OBVIOUS
<1>0. disturbed \in BOOLEAN /\ place \in [Verifiers -> Places] BY DEF Typed, GateTypeOK
<1>1. ASSUME NEW v \in Verifiers, Call(v) \/ AcquireStep(v)
      PROVE  [Promise!PromiseNext]_(Promise!promiseVars)
  <2>1. CASE Call(v) BY <2>1, Advance DEF Call
  <2>2. CASE Create(v) BY <2>2, Advance, TurnsOfPlaces DEF Create, Waiting
  <2>3. CASE Exists(v) BY <2>3, Advance, TurnsOfPlaces DEF Exists, Waiting
  <2>4. CASE WriteLease(v)
    <3>1. disturbed \/ \A w \in Verifiers : place[w] # "verifying"
      BY <2>4 DEF WriteLease, Go, Calm, Owning
    <3>2. QED BY <2>4, <3>1, Advance DEF WriteLease
  <2>5. CASE Look(v)
    <3>1. PICK to \in {"comparing", "claiming"} : Go(v, "looking", to)
      BY <2>5 DEF Look
    <3>2. disturbed' = disturbed BY <2>5 DEF Look
    <3>3. QED BY <3>1, <3>2, Advance, TurnsOfPlaces DEF Waiting
  <2>6. ASSUME NEW from \in {"comparing", "unlinking"}, Refused(v, from), disturbed' = disturbed
        PROVE  [Promise!PromiseNext]_(Promise!promiseVars)
    <3>1. disturbed BY <1>0, <2>6 DEF Refused, Go, Calm, Owning
    <3>2. PICK to \in {"ungated", "claiming"} : Go(v, from, to) BY <2>6 DEF Refused
    <3>3. QED BY <2>6, <3>1, <3>2, Advance, TurnsOfPlaces DEF Waiting
  <2>7. CASE Compare(v) BY <2>6, <2>7, Advance, TurnsOfPlaces DEF Compare, Waiting
  <2>8. CASE Reclaim(v) BY <2>6, <2>8, Advance, TurnsOfPlaces DEF Reclaim, Waiting
  <2>9. QED BY <1>1, <2>1, <2>2, <2>3, <2>4, <2>5, <2>7, <2>8 DEF AcquireStep
<1>2. ASSUME NEW v \in Verifiers,
             HeartStep(v) \/ Release(v) \/ Delete(v) \/ FinishUngated(v) \/ GracePasses(v)
      PROVE  [Promise!PromiseNext]_(Promise!promiseVars)
  <2>1. CASE HeartStep(v) \/ GracePasses(v)
    BY <2>1, Linger DEF HeartStep, Beat, Truncate, Renew, GracePasses
  <2>2. CASE Release(v)
    <3>1. PICK to \in {"deleting", "done"} : Go(v, "verifying", to) BY <2>2 DEF Release
    <3>2. QED BY <2>2, <3>1, Advance DEF Release
  <2>3. CASE Delete(v) BY <2>3, Advance, TurnsOfPlaces DEF Delete
  <2>4. CASE FinishUngated(v) BY <2>4, Advance DEF FinishUngated
  <2>5. QED BY <1>2, <2>1, <2>2, <2>3, <2>4
<1>3. ASSUME NEW v \in Verifiers, FaultStep(v)
      PROVE  [Promise!PromiseNext]_(Promise!promiseVars)
  <2> USE DEF Fault
  <2>1. CASE ClaimFails(v) BY <2>1, Advance DEF ClaimFails, Waiting
  <2>2. CASE LookFails(v)
    <3>1. PICK to \in {"ungated", "claiming"} : Go(v, "looking", to) BY <2>2 DEF LookFails
    <3>2. QED BY <2>2, <3>1, Advance, TurnsOfPlaces DEF LookFails, Waiting
  <2>3. CASE ReclaimFails(v)
    <3>1. PICK from \in {"comparing", "unlinking"} : Refused(v, from) BY <2>3 DEF ReclaimFails
    <3>2. PICK to \in {"ungated", "claiming"} : Go(v, from, to) BY <3>1 DEF Refused
    <3>3. QED BY <2>3, <3>2, Advance, TurnsOfPlaces DEF ReclaimFails, Waiting
  <2>4. CASE BeatSkipped(v) \/ GraceLapses(v) \/ Hang(v)
    BY <2>4, Linger DEF BeatSkipped, GraceLapses, Hang
  <2>5. CASE ReleaseFails(v) BY <2>5, Advance, TurnsOfPlaces DEF ReleaseFails
  <2>6. CASE Crash(v)
    <3>1. Go(v, place[v], "dead") /\ place[v] \in Places \ {"idle"} BY <1>0, <2>6 DEF Crash, Go
    <3>2. QED BY <2>6, <3>1, Advance DEF Crash
  <2>7. QED BY <1>3, <2>1, <2>2, <2>3, <2>4, <2>5, <2>6 DEF FaultStep
<1>4. CASE LeaseAges \/ LeaseLapses \/ BreakLock \/ UNCHANGED vars
  BY <1>4, Linger DEF LeaseAges, LeaseLapses, BreakLock, Fault, vars
<1>5. QED BY <1>1, <1>2, <1>3, <1>4 DEF Next, VerifierStep

(* Verifications take turns, and none goes on without the gate, until       *)
(* something goes wrong: for any number of verifiers, and any faults.       *)
THEOREM GateTakesTurns == Spec => TakesTurns
BY PromiseHolds, PromiseStep, GateInvariant, PTL DEF Spec, TakesTurns, Promise!PromiseSpec
=============================================================================
