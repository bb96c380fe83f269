------------------------ MODULE LockedTranscriptProofs ------------------------
(***************************************************************************)
(* For any number of processes, any bounds, and whatever dies, stalls or   *)
(* cannot be unlinked: until the run is disturbed the append lock excludes *)
(* and the primitives of LockedTranscript implement the atomic ones of     *)
(* AtomicTranscript, and afterwards they are still decided on a transcript *)
(* that was.  NothingDisturbs says which faults a run takes without ever   *)
(* being disturbed.                                                        *)
(*                                                                         *)
(* The lock: a stamp is read as older than StaleMs only if the process     *)
(* that wrote it no longer holds -- it is dead, or could not unlink -- so  *)
(* the one process that doubts it removes nobody's lock, and nobody else   *)
(* creates one before it has.  The primitives: a living process that has   *)
(* read the transcript still holds the lock, so nobody has written since   *)
(* or torn a line, and its snapshot is the ledger and its own seq the last *)
(* one in the file (SnapshotCurrent).                                      *)
(***************************************************************************)
EXTENDS LockedTranscript, TLAPS, SequenceTheorems

(* The lock file is that of the process that holds. *)
OwnerHolds == \A p \in Procs : pc[p] \in Holding => lockOwner = p

(* A stamp that has outlived the stale bound is not that of a holder. *)
StampsFresh ==
    metadata = "written" => /\ lockOwner # NoLock
                            /\ pc[lockOwner] \in Holding => stampAge <= StaleMs

OneDoubter == \A p, q \in Procs : Doubts(p) /\ Doubts(q) => p = q

(* What it doubts is still there, and is not the lock of a holder. *)
DoubtFounded ==
    \A p \in Procs : Doubts(p) => metadata = "written" /\ stampAge > StaleMs

LockSound == OwnerHolds /\ StampsFresh /\ OneDoubter /\ DoubtFounded

LockInv == LockTypeOK /\ (~disturbed => LockSound)

-----------------------------------------------------------------------------
(* The initial state satisfies the inductive invariant of the lock. *)
LEMMA LockInitInv == LockInit => LockInv
<1> SUFFICES ASSUME LockInit PROVE LockInv
  OBVIOUS
<1>1. LockTypeOK
  <2>1. 0 \in 0 .. StaleMs + 1 /\ 0 \in 0 .. TimeoutMs + 1
    BY LockAssumption
  <2> QED
    BY <2>1 DEF LockInit, LockTypeOK, Steps
<1>2. LockSound
  BY DEF LockInit, LockSound, OwnerHolds, OneDoubter, DoubtFounded, Doubts, StampsFresh, Holding
<1> QED
  BY <1>1, <1>2 DEF LockInv

(* Types are kept by every step, whatever dies or stalls. *)
LEMMA LockTypeStep == LockTypeOK /\ [LockNext]_lockVars => LockTypeOK'
<1> SUFFICES ASSUME LockTypeOK, [LockNext]_lockVars PROVE LockTypeOK'
  OBVIOUS
<1> USE LockAssumption DEF LockTypeOK, Steps
<1>1. CASE Tick
  BY <1>1 DEF Tick, Older
<1>2. ASSUME NEW p \in Procs, LockStep(p) \/ Leave(p) PROVE LockTypeOK'
  <2>1. CASE Begin(p) BY <2>1 DEF Begin, Goto, UnchangedFile
  <2>2. CASE OpenCreates(p) BY <2>2 DEF OpenCreates, Goto
  <2>3. CASE OpenExists(p) BY <2>3 DEF OpenExists, Goto, UnchangedFile
  <2>4. CASE OpenTransient(p) BY <2>4 DEF OpenTransient, Goto, UnchangedFile
  <2>5. CASE OpenThrows(p) BY <2>5 DEF OpenThrows, Goto, UnchangedFile
  <2>6. CASE ReadStamp(p) BY <2>6 DEF ReadStamp, Goto, UnchangedFile
  <2>7. CASE ReadFails(p) BY <2>7 DEF ReadFails, Goto, UnchangedFile
  <2>8. CASE JudgeStamp(p) BY <2>8 DEF JudgeStamp, Goto, UnchangedFile
  <2>9. CASE RemoveStale(p) BY <2>9 DEF RemoveStale, Goto, TryUnlink, Unlink, UnchangedFile
  <2>10. CASE CheckDeadline(p) BY <2>10 DEF CheckDeadline, Goto, UnchangedFile
  <2>11. CASE WriteStamp(p) BY <2>11 DEF WriteStamp, Goto
  <2>12. CASE StampFails(p) BY <2>12 DEF StampFails, Goto, UnchangedFile
  <2>13. CASE UnlinkUnstamped(p)
    BY <2>13 DEF UnlinkUnstamped, Goto, TryUnlink, Unlink, UnchangedFile
  <2>14. CASE Leave(p) BY <2>14 DEF Leave, Goto, UnchangedFile
  <2>15. CASE Release(p) BY <2>15 DEF Release, Goto, TryUnlink, Unlink, UnchangedFile
  <2>16. CASE Crash(p) BY <2>16 DEF Crash, UnchangedFile
  <2> QED BY <1>2, <2>1, <2>2, <2>3, <2>4, <2>5, <2>6, <2>7, <2>8, <2>9, <2>10,
             <2>11, <2>12, <2>13, <2>14, <2>15, <2>16 DEF LockStep, Acquire
<1>3. CASE UNCHANGED lockVars
  BY <1>3 DEF lockVars
<1> QED BY <1>1, <1>2, <1>3 DEF LockNext

(* A disturbance is for good. *)
LEMMA DisturbedLatches == [LockNext]_lockVars => (disturbed => disturbed')
BY DEF LockNext, LockStep, Acquire, Tick, Begin, OpenCreates, OpenExists, OpenTransient,
       OpenThrows, ReadStamp, ReadFails, JudgeStamp, RemoveStale, CheckDeadline, WriteStamp,
       StampFails, UnlinkUnstamped, Leave, Release, Crash, lockVars

(* Until then the lock stays with the process that created it. *)
LEMMA LockInvStep == LockInv /\ [LockNext]_lockVars => LockInv'
<1> SUFFICES ASSUME LockInv, [LockNext]_lockVars, ~disturbed' PROVE LockSound'
  BY LockTypeStep DEF LockInv
<1>s. LockTypeOK /\ LockTypeOK' /\ LockSound /\ ~disturbed
  BY DisturbedLatches, LockTypeStep DEF LockInv
<1> USE <1>s, LockAssumption
    DEF LockTypeOK, LockSound, OwnerHolds, StampsFresh, OneDoubter, DoubtFounded, Doubts
<1>1. CASE Tick
  <2>1. /\ Prompt
        /\ \A p \in Procs : Doubts(p)' => Doubts(p)
    BY <1>1 DEF Tick, Older, Prompt, Stale
  <2>2. UNCHANGED <<pc, lockOwner, metadata>>
    BY <1>1 DEF Tick
  <2>3. StampsFresh'
    BY <1>1, <2>1 DEF Tick, Older, Prompt
  <2>4. DoubtFounded'
    BY <1>1, <2>1, <2>2 DEF Tick, Older
  <2> QED
    BY <2>1, <2>2, <2>3, <2>4
<1>2. ASSUME NEW p \in Procs, LockStep(p) \/ Leave(p) PROVE LockSound'
  <2> USE DEF Goto, Holding, UnchangedFile
  <2>1. CASE Begin(p) BY <2>1 DEF Begin
  <2>2. CASE OpenCreates(p) BY <2>2 DEF OpenCreates
  <2>3. CASE OpenExists(p) BY <2>3 DEF OpenExists
  <2>4. CASE OpenTransient(p) BY <2>4 DEF OpenTransient
  <2>5. CASE OpenThrows(p) BY <2>5 DEF OpenThrows
  <2>6. CASE ReadStamp(p) BY <2>6 DEF ReadStamp
  <2>7. CASE ReadFails(p) BY <2>7 DEF ReadFails
  <2>8. CASE JudgeStamp(p) BY <2>8 DEF JudgeStamp, Stale
  <2>9. CASE RemoveStale(p) BY <2>9 DEF RemoveStale, TryUnlink, Unlink
  <2>10. CASE CheckDeadline(p) BY <2>10 DEF CheckDeadline
  <2>11. CASE WriteStamp(p) BY <2>11 DEF WriteStamp
  <2>12. CASE StampFails(p) BY <2>12 DEF StampFails
  <2>13. CASE UnlinkUnstamped(p) BY <2>13 DEF UnlinkUnstamped, TryUnlink, Unlink
  <2>14. CASE Leave(p) BY <2>14 DEF Leave
  <2>15. CASE Release(p) BY <2>15 DEF Release, TryUnlink, Unlink
  <2>16. CASE Crash(p) BY <2>16 DEF Crash
  <2> QED BY <1>2, <2>1, <2>2, <2>3, <2>4, <2>5, <2>6, <2>7, <2>8, <2>9, <2>10,
             <2>11, <2>12, <2>13, <2>14, <2>15, <2>16 DEF LockStep, Acquire
<1>3. CASE UNCHANGED lockVars
  BY <1>3 DEF lockVars
<1> QED BY <1>1, <1>2, <1>3 DEF LockNext

-----------------------------------------------------------------------------
(* Type correctness of the lock protocol, with crashes and stalls allowed. *)
THEOREM LockTypeCorrect == LockSpec => []LockTypeOK
<1>1. LockInit => LockTypeOK
  BY LockInitInv DEF LockInv
<1> QED BY <1>1, LockTypeStep, PTL DEF LockSpec

(* Mutual exclusion: whoever dies and whatever cannot be unlinked, at most *)
(* one process is between creating the lock file and unlinking it, until a *)
(* process stalls past the stale bound or two act on one stale stamp.      *)
THEOREM LockMutualExclusion == LockSpec => []MutualExclusion
<1>1. LockInv => MutualExclusion
  BY DEF LockInv, LockSound, OwnerHolds, MutualExclusion
<1> QED BY LockInitInv, LockInvStep, <1>1, PTL DEF LockSpec

-----------------------------------------------------------------------------
(* Faults the lock takes: when every unlink works and nobody stalls, any   *)
(* number of processes if none dies, and two if they do.  Of three that    *)
(* may die, two can judge the stamp of the dead third; of two that cannot  *)
(* unlink, both can judge the stamp that one of them has left.             *)
LockSuffices ==
    /\ ~Stalls
    /\ ~UnlinkFails
    /\ Crashes => \A p, q, r \in Procs : p = q \/ q = r \/ p = r

NobodyDies == ~Crashes => \A p \in Procs : pc[p] # "crashed"

(* The lock file is that of a process that holds, or of a dead one. *)
OwnerHoldsOrDied == lockOwner # NoLock => pc[lockOwner] \in Holding \cup {"crashed"}

Undisturbed == ~disturbed /\ NobodyDies /\ OwnerHoldsOrDied

(* Under these faults every stamp is removed with its holder, or its       *)
(* holder is dead and the only other process is the one that doubts it.    *)
LEMMA UndisturbedStep ==
    LockSuffices /\ LockInv /\ Undisturbed /\ [LockNext]_lockVars => Undisturbed'
<1> SUFFICES ASSUME LockSuffices, LockInv, Undisturbed, [LockNext]_lockVars PROVE Undisturbed'
  OBVIOUS
<1> USE LockAssumption DEF LockSuffices, LockInv, LockTypeOK, LockSound, Undisturbed,
                           NobodyDies, OwnerHoldsOrDied
<1>1. CASE Tick
  BY <1>1 DEF Tick
<1>2. ASSUME NEW p \in Procs, LockStep(p) \/ Leave(p) PROVE Undisturbed'
  <2> USE DEF Goto, Holding, UnchangedFile, TryUnlink, Unlink
  <2>1. CASE Begin(p) BY <2>1 DEF Begin
  <2>2. CASE OpenCreates(p) BY <2>2 DEF OpenCreates
  <2>3. CASE OpenExists(p) BY <2>3 DEF OpenExists
  <2>4. CASE OpenTransient(p) BY <2>4 DEF OpenTransient
  <2>5. CASE OpenThrows(p) BY <2>5 DEF OpenThrows
  <2>6. CASE ReadStamp(p)
    <3>1. ASSUME stampAge > StaleMs, NEW q \in Procs \ {p}, Doubts(q) PROVE FALSE
      <4>1. lockOwner \in Procs /\ pc[lockOwner] = "crashed"
        BY <2>6, <3>1 DEF ReadStamp, StampsFresh
      <4>2. lockOwner # p /\ lockOwner # q
        BY <2>6, <3>1, <4>1 DEF ReadStamp, Doubts
      <4> QED
        BY <3>1, <4>1, <4>2
    <3> QED
      BY <2>6, <3>1 DEF ReadStamp
  <2>7. CASE ReadFails(p) BY <2>7 DEF ReadFails
  <2>8. CASE JudgeStamp(p) BY <2>8 DEF JudgeStamp
  <2>9. CASE RemoveStale(p) BY <2>9 DEF RemoveStale
  <2>10. CASE CheckDeadline(p) BY <2>10 DEF CheckDeadline
  <2>11. CASE WriteStamp(p) BY <2>11 DEF WriteStamp
  <2>12. CASE StampFails(p) BY <2>12 DEF StampFails
  <2>13. CASE UnlinkUnstamped(p) BY <2>13 DEF UnlinkUnstamped
  <2>14. CASE Leave(p) BY <2>14 DEF Leave
  <2>15. CASE Release(p) BY <2>15 DEF Release
  <2>16. CASE Crash(p) BY <2>16 DEF Crash
  <2> QED BY <1>2, <2>1, <2>2, <2>3, <2>4, <2>5, <2>6, <2>7, <2>8, <2>9, <2>10,
             <2>11, <2>12, <2>13, <2>14, <2>15, <2>16 DEF LockStep, Acquire
<1>3. CASE UNCHANGED lockVars
  BY <1>3 DEF lockVars
<1> QED BY <1>1, <1>2, <1>3 DEF LockNext

(* Nothing disturbs a run in which nobody stalls, every unlink works, and  *)
(* either nobody dies or only two processes contend.                       *)
THEOREM NothingDisturbs == LockSuffices => (LockSpec => []~disturbed)
<1> SUFFICES ASSUME LockSuffices PROVE LockSpec => []~disturbed
  OBVIOUS
<1>1. LockInit => LockInv /\ Undisturbed
  BY LockInitInv DEF LockInit, Undisturbed, NobodyDies, OwnerHoldsOrDied
<1>2. LockInv /\ Undisturbed /\ [LockNext]_lockVars => LockInv' /\ Undisturbed'
  BY LockInvStep, UndisturbedStep
<1>3. Undisturbed => ~disturbed
  BY DEF Undisturbed
<1> QED
  BY <1>1, <1>2, <1>3, PTL DEF LockSpec

Event == [type : {"note", "declared", "claimed", "refused"}, kind : Kinds,
          expected : Nat, seq : Nat]

Call == [kind : Kinds, expected : Nat]

(* A call is in flight between its start and the moment it has decided. *)
InFlight(p) == pc[p] \in Waiting \cup {"stamping", "unstamping", "critical"}

TranscriptTypes ==
    /\ ledger \in Seq(Event)
    /\ readable \in BOOLEAN
    /\ call \in [Procs -> {Atomic!NoCall} \cup Call]
    /\ answer \in [Procs -> Atomic!Answers]
    /\ snapshot \in [Procs -> Seq(Event) \cup {Unread}]
    /\ mySeq \in [Procs -> Nat]

(* Of the dead nothing is said: their calls never return. *)
CallsPending ==
    \A p \in Procs :
        /\ InFlight(p) => answer[p] = "pending" /\ call[p] \in Call
        /\ answer[p] = "pending" => InFlight(p) \/ pc[p] = "crashed"

Prefix(s, t) == Len(s) <= Len(t) /\ \A i \in 1 .. Len(s) : s[i] = t[i]

(* What a process has read is what the transcript was. *)
SnapshotPast == \A p \in Procs : snapshot[p] # Unread => Prefix(snapshot[p], ledger)

(* Until a disturbance it still is. *)
SnapshotCurrent ==
    ~disturbed =>
        \A p \in Procs :
            snapshot[p] # Unread /\ pc[p] # "crashed" =>
                /\ pc[p] = "critical"
                /\ readable
                /\ snapshot[p] = ledger
                /\ mySeq[p] = Len(ledger)

(* No seq is ahead of the file. *)
SeqsBounded ==
    /\ \A p \in Procs : mySeq[p] <= Len(ledger)
    /\ \A i \in DOMAIN ledger : ledger[i].seq <= i

(* What is on record, and what each process knows of it. *)
TranscriptInv ==
    /\ TranscriptTypes
    /\ CallsPending
    /\ SnapshotPast
    /\ SnapshotCurrent
    /\ SeqsBounded
    /\ SeqIsPosition
    /\ ProofStillCurrent

Inv == LockInv /\ TranscriptInv

-----------------------------------------------------------------------------
(* The last seq is at most the length, and is it if seqs are positions. *)
LEMMA LastSeqBound ==
    ASSUME ledger \in Seq(Event), SeqsBounded
    PROVE  /\ Atomic!LastSeq(ledger) \in Nat /\ Atomic!LastSeq(ledger) <= Len(ledger)
           /\ SeqIsPosition /\ ~disturbed => Atomic!LastSeq(ledger) = Len(ledger)
<1>1. CASE ledger = <<>>
  BY <1>1 DEF Atomic!LastSeq
<1>2. CASE ledger # <<>>
  <2>1. Len(ledger) \in DOMAIN ledger /\ ledger[Len(ledger)] \in Event
    BY <1>2
  <2>2. Atomic!LastSeq(ledger) = ledger[Len(ledger)].seq
    BY <1>2 DEF Atomic!LastSeq, Atomic!Last
  <2> QED
    BY <2>1, <2>2 DEF SeqIsPosition, SeqsBounded, Event
<1> QED
  BY <1>1, <1>2

(* The larger of two numbers. *)
LEMMA MaxOfTwo ==
    ASSUME NEW m \in Nat, NEW n \in Nat
    PROVE  Max({m, n}) = IF m <= n THEN n ELSE m
<1> DEFINE larger == IF m <= n THEN n ELSE m
<1>1. larger \in {m, n} /\ \A x \in {m, n} : larger >= x
  OBVIOUS
<1>2. \A x \in {m, n} : (\A y \in {m, n} : x >= y) => x = larger
  OBVIOUS
<1> HIDE DEF larger
<1>3. Max({m, n}) = larger
  BY <1>1, <1>2 DEF Max
<1> QED
  BY <1>3 DEF larger

(* A prefix is an initial subsequence, and stays one of whatever is added. *)
LEMMA PrefixIsSubSeq ==
    ASSUME NEW s \in Seq(Event), NEW t \in Seq(Event), Prefix(s, t)
    PROVE  s = SubSeq(t, 1, Len(s))
<1>1. SubSeq(t, 1, Len(s)) \in Seq(Event) /\ Len(SubSeq(t, 1, Len(s))) = Len(s)
  BY DEF Prefix
<1>2. \A i \in 1 .. Len(s) : SubSeq(t, 1, Len(s))[i] = s[i]
  BY DEF Prefix
<1> QED
  BY <1>1, <1>2, SeqEqual

-----------------------------------------------------------------------------
(* Lock steps move one process; nobody else enters or leaves its call. *)

(* Steps of the lock that acquire keep a call in flight or end it at idle, *)
(* and move no process that has the lock in its critical section.          *)
LEMMA AcquireMoves ==
    ASSUME NEW p \in Procs, Acquire(p), LockTypeOK
    PROVE  /\ pc[p] \in Waiting \cup {"stamping", "unstamping"}
           /\ pc'[p] \in Waiting \cup {"stamping", "unstamping", "critical", "idle"}
           /\ \A q \in Procs \ {p} : pc'[q] = pc[q]
           /\ disturbed' = disturbed \/ (disturbed' = TRUE /\ pc'[p] = "judging")
BY DEF Acquire, OpenCreates, OpenExists, OpenTransient, OpenThrows, ReadStamp, ReadFails,
       JudgeStamp, RemoveStale, CheckDeadline, WriteStamp, StampFails, UnlinkUnstamped, Goto, Waiting,
       LockTypeOK

(* The remaining steps of the lock. *)
LEMMA OtherMoves ==
    ASSUME NEW p \in Procs, LockTypeOK
    PROVE  /\ Begin(p) => pc[p] = "idle" /\ pc' = [pc EXCEPT ![p] = "opening"]
           /\ Leave(p) => pc[p] = "critical" /\ pc' = [pc EXCEPT ![p] = "releasing"]
           /\ Release(p) => pc[p] = "releasing" /\ pc' = [pc EXCEPT ![p] = "idle"]
           /\ Begin(p) \/ Leave(p) \/ Release(p) \/ Crash(p) => disturbed' = disturbed
BY DEF Begin, Leave, Release, Crash, Goto

(* A step of the composition is a step of the lock, or leaves it alone. *)
LEMMA LockStutter == [Next]_vars => [LockNext]_lockVars
<1> SUFFICES ASSUME [Next]_vars PROVE [LockNext]_lockVars
  OBVIOUS
<1>1. CASE UNCHANGED vars
  BY <1>1 DEF vars
<1>2. CASE TickStep
  BY <1>2 DEF TickStep, LockNext
<1>3. ASSUME NEW p \in Procs,
             Invoke(p) \/ AcquireStep(p) \/ ReadLedger(p) \/ WriteLedger(p) \/ ReleaseStep(p)
             \/ CrashStep(p)
      PROVE  [LockNext]_lockVars
  BY <1>3 DEF Invoke, AcquireStep, ReadLedger, WriteLedger, ReleaseStep, CrashStep, LockNext,
              LockStep
<1> QED
  BY <1>1, <1>2, <1>3 DEF Next

-----------------------------------------------------------------------------
(* What a primitive answers and appends. *)

(* Every call is answered, and only claims are accepted or refused. *)
LEMMA AnswerType ==
    ASSUME NEW c \in Call, NEW events
    PROVE  /\ Atomic!Answer(c, events) \in {"recorded", "noop", "accepted", "refused"}
           /\ c.kind = "declare" => Atomic!Answer(c, events) \in {"recorded", "noop"}
<1>1. c.kind \in {"note", "declare", "claim", "proved"}
  BY KindsAssumption DEF Call, Atomic!AllKinds
<1>2. CASE c.kind = "note"
  BY <1>2 DEF Atomic!Answer
<1>3. CASE c.kind = "declare"
  BY <1>3 DEF Atomic!Answer
<1>4. CASE c.kind = "claim"
  BY <1>4 DEF Atomic!Answer
<1>5. CASE c.kind = "proved"
  BY <1>5 DEF Atomic!Answer
<1> QED
  BY <1>1, <1>2, <1>3, <1>4, <1>5

(* A batch is empty or one event with the seq it was given. *)
LEMMA BatchType ==
    ASSUME NEW c \in Call, NEW events, NEW n \in Nat
    PROVE  \/ Atomic!Batch(c, events, n) = <<>>
           \/ \E e \in Event :
                /\ Atomic!Batch(c, events, n) = <<e>>
                /\ e.seq = n /\ e.kind = c.kind /\ e.expected = c.expected
                /\ e.type = "claimed" <=> Atomic!Answer(c, events) = "accepted"
<1> DEFINE result == Atomic!Answer(c, events)
           e == [type |-> Atomic!EventType(c, result), kind |-> c.kind,
                 expected |-> c.expected, seq |-> n]
<1>1. Atomic!EventType(c, result) \in {"note", "declared", "claimed", "refused"}
      /\ (Atomic!EventType(c, result) = "claimed" <=> result = "accepted")
  <2> c.kind = "declare" => result \in {"recorded", "noop"}
    BY AnswerType
  <2> HIDE DEF result
  <2>1. CASE result = "accepted"
    BY <2>1 DEF Atomic!EventType
  <2>2. CASE result = "refused"
    BY <2>2 DEF Atomic!EventType
  <2>3. CASE result \notin {"accepted", "refused"} /\ c.kind = "declare"
    BY <2>3 DEF Atomic!EventType
  <2>4. CASE result \notin {"accepted", "refused"} /\ c.kind # "declare"
    BY <2>4 DEF Atomic!EventType
  <2> QED
    BY <2>1, <2>2, <2>3, <2>4
<1>2. e \in Event
  BY <1>1 DEF Event, Call
<1>3. Atomic!Batch(c, events, n) = IF result = "noop" THEN <<>> ELSE <<e>>
  BY DEF Atomic!Batch
<1> QED
  BY <1>1, <1>2, <1>3

(* A claim that carries a proof is accepted only at the seq it was proved. *)
LEMMA ProvedAtLastSeq ==
    ASSUME NEW c \in Call, NEW events, c.kind = "proved", Atomic!Answer(c, events) = "accepted"
    PROVE  Atomic!LastSeq(events) = c.expected
BY DEF Atomic!Answer

-----------------------------------------------------------------------------
(* Each step keeps the invariant.  LockInvStep takes care of the lock. *)

(* Nothing has been read or called at first. *)
LEMMA InitInv == Init => Inv
<1> SUFFICES ASSUME Init PROVE Inv
  OBVIOUS
<1>1. LockInv
  BY LockInitInv DEF Init
<1>2. TranscriptTypes
  BY DEF Init, Atomic!AtomicInit, Atomic!Answers, TranscriptTypes
<1>3. CallsPending
  BY DEF Init, LockInit, Atomic!AtomicInit, CallsPending, InFlight, Waiting
<1>4. SnapshotPast /\ SnapshotCurrent /\ SeqsBounded /\ SeqIsPosition /\ ProofStillCurrent
  BY DEF Init, Atomic!AtomicInit, SnapshotPast, SnapshotCurrent, SeqsBounded, SeqIsPosition,
         ProofStillCurrent
<1> QED
  BY <1>1, <1>2, <1>3, <1>4 DEF Inv, TranscriptInv

(* What speaks of the ledger and its readers is kept while these are.      *)
LEMMA RecordKept ==
    ASSUME TranscriptInv, disturbed => disturbed', UNCHANGED <<ledger, snapshot, mySeq>>
    PROVE  SnapshotPast' /\ SeqsBounded' /\ SeqIsPosition' /\ ProofStillCurrent'
BY DEF TranscriptInv, SnapshotPast, SeqsBounded, SeqIsPosition, ProofStillCurrent

(* A call starts with the last seq its caller has read. *)
LEMMA InvokeInv ==
    ASSUME Inv, NEW p \in Procs, Invoke(p)
    PROVE  TranscriptInv'
<1> USE DEF Inv, TranscriptInv
<1>1. pc[p] = "idle" /\ pc' = [pc EXCEPT ![p] = "opening"] /\ disturbed' = disturbed
  BY OtherMoves DEF Invoke, LockInv
<1>2. UNCHANGED <<ledger, readable, snapshot, mySeq>>
  BY DEF Invoke
<1>3. PICK c \in Call : call' = [call EXCEPT ![p] = c]
  <2>1. PICK kind \in Kinds :
          call' = [call EXCEPT ![p] = [kind |-> kind, expected |-> Atomic!LastSeq(ledger)]]
    BY DEF Invoke
  <2>2. [kind |-> kind, expected |-> Atomic!LastSeq(ledger)] \in Call
    BY LastSeqBound DEF Call, TranscriptTypes
  <2> QED
    BY <2>1, <2>2
<1>4. answer' = [answer EXCEPT ![p] = "pending"]
  BY DEF Invoke
<1>5. TranscriptTypes'
  BY <1>2, <1>3, <1>4 DEF TranscriptTypes, Atomic!Answers
<1>6. CallsPending'
  BY <1>1, <1>3, <1>4 DEF CallsPending, InFlight, Waiting, TranscriptTypes, LockInv, LockTypeOK
<1>7. SnapshotCurrent'
  BY <1>1, <1>2 DEF SnapshotCurrent, LockInv, LockTypeOK
<1> QED
  BY <1>1, <1>2, <1>5, <1>6, <1>7, RecordKept

(* An acquisition that goes on, gets the lock, or throws. *)
LEMMA AcquireInv ==
    ASSUME Inv, NEW p \in Procs, AcquireStep(p)
    PROVE  TranscriptInv'
<1> USE DEF Inv, TranscriptInv
<1>1. /\ pc[p] \in Waiting \cup {"stamping", "unstamping"}
      /\ pc'[p] \in Waiting \cup {"stamping", "unstamping", "critical", "idle"}
      /\ \A q \in Procs \ {p} : pc'[q] = pc[q]
      /\ disturbed => disturbed'
  BY AcquireMoves DEF AcquireStep, LockInv
<1>2. UNCHANGED <<ledger, readable, call, snapshot, mySeq>>
  BY DEF AcquireStep
<1>3. answer' = IF pc'[p] = "idle" THEN [answer EXCEPT ![p] = "threw"] ELSE answer
  BY DEF AcquireStep
<1>4. TranscriptTypes'
  BY <1>2, <1>3 DEF TranscriptTypes, Atomic!Answers
<1>5. CallsPending'
  BY <1>1, <1>2, <1>3 DEF CallsPending, InFlight, Waiting, TranscriptTypes
<1>6. SnapshotCurrent'
  BY <1>1, <1>2 DEF SnapshotCurrent, Waiting
<1> QED
  BY <1>1, <1>2, <1>4, <1>5, <1>6, RecordKept

(* The read under the lock brings the caller up to date, or throws.        *)
LEMMA ReadInv ==
    ASSUME Inv, NEW p \in Procs, ReadLedger(p)
    PROVE  TranscriptInv'
<1> USE DEF Inv, TranscriptInv
<1>1. /\ UNCHANGED <<ledger, readable, call>> /\ pc[p] = "critical"
      /\ disturbed' = disturbed
  BY OtherMoves DEF ReadLedger, LockInv, lockVars
<1>2. SeqIsPosition' /\ ProofStillCurrent'
  BY <1>1 DEF SeqIsPosition, ProofStillCurrent
<1>3. CASE readable
  <2>1. snapshot' = [snapshot EXCEPT ![p] = ledger] /\ UNCHANGED <<answer, pc>>
    BY <1>3 DEF ReadLedger, lockVars
  <2>2. PICK m \in Nat : /\ mySeq' = [mySeq EXCEPT ![p] = m]
                         /\ m <= Len(ledger)
                         /\ ~disturbed => m = Len(ledger)
    <3> DEFINE m == Max({mySeq[p], Atomic!LastSeq(ledger)})
    <3>1. mySeq' = [mySeq EXCEPT ![p] = m]
      BY <1>3 DEF ReadLedger
    <3>2. /\ Atomic!LastSeq(ledger) \in Nat /\ Atomic!LastSeq(ledger) <= Len(ledger)
          /\ ~disturbed => Atomic!LastSeq(ledger) = Len(ledger)
      BY LastSeqBound DEF TranscriptTypes
    <3>3. mySeq[p] \in Nat /\ Len(ledger) \in Nat /\ mySeq[p] <= Len(ledger)
      BY DEF SeqsBounded, TranscriptTypes
    <3>4. m \in Nat /\ m <= Len(ledger) /\ (~disturbed => m = Len(ledger))
      BY <3>2, <3>3, MaxOfTwo
    <3> QED
      BY <3>1, <3>4
  <2>3. TranscriptTypes'
    BY <1>1, <2>1, <2>2 DEF TranscriptTypes
  <2>4. CallsPending'
    BY <1>1, <2>1 DEF CallsPending, InFlight
  <2>5. SnapshotPast'
    BY <1>1, <2>1 DEF SnapshotPast, Prefix, TranscriptTypes
  <2>6. SeqsBounded'
    BY <1>1, <2>2 DEF SeqsBounded, TranscriptTypes
  <2>7. SnapshotCurrent'
    BY <1>1, <1>3, <2>1, <2>2 DEF SnapshotCurrent, TranscriptTypes
  <2> QED
    BY <1>2, <2>3, <2>4, <2>5, <2>6, <2>7
<1>4. CASE ~ readable
  <2>1. /\ answer' = [answer EXCEPT ![p] = "threw"]
        /\ snapshot' = [snapshot EXCEPT ![p] = Unread]
        /\ UNCHANGED mySeq
    BY <1>4 DEF ReadLedger, Finish
  <2>2. pc' = [pc EXCEPT ![p] = "releasing"]
    BY <1>4, OtherMoves DEF ReadLedger, LockInv
  <2>3. TranscriptTypes'
    BY <1>1, <2>1 DEF TranscriptTypes, Atomic!Answers
  <2>4. CallsPending'
    BY <1>1, <2>1, <2>2 DEF CallsPending, InFlight, Waiting, TranscriptTypes, LockInv, LockTypeOK
  <2>5. SnapshotPast' /\ SeqsBounded'
    BY <1>1, <2>1 DEF SnapshotPast, SeqsBounded, TranscriptTypes
  <2>6. SnapshotCurrent'
    BY <1>1, <2>1, <2>2 DEF SnapshotCurrent, TranscriptTypes, LockInv, LockTypeOK
  <2> QED
    BY <1>2, <2>3, <2>4, <2>5, <2>6
<1> QED
  BY <1>3, <1>4

(* The append: one batch, with a seq that is not ahead of its position.    *)
(* Until a disturbance the writer's snapshot is the ledger, and nobody     *)
(* else has one.                                                           *)
LEMMA WriteInv ==
    ASSUME Inv, NEW p \in Procs, WriteLedger(p)
    PROVE  TranscriptInv'
<1> USE DEF Inv, TranscriptInv
<1> DEFINE batch == Atomic!Batch(call[p], snapshot[p], mySeq[p] + 1)
           n == Len(ledger)
<1>1. /\ ledger' = ledger \o batch
      /\ mySeq' = [mySeq EXCEPT ![p] = @ + Len(batch)]
      /\ answer' = [answer EXCEPT ![p] = Atomic!Answer(call[p], snapshot[p])]
      /\ snapshot' = [snapshot EXCEPT ![p] = Unread]
      /\ UNCHANGED <<readable, call>>
  BY DEF WriteLedger, Finish
<1>2. pc[p] = "critical" /\ pc' = [pc EXCEPT ![p] = "releasing"] /\ disturbed' = disturbed
  BY OtherMoves DEF WriteLedger, LockInv
<1>3. ~disturbed => snapshot[p] = ledger /\ mySeq[p] = n
  BY DEF WriteLedger, SnapshotCurrent
<1>4. call[p] \in Call
  BY <1>2 DEF CallsPending, InFlight
<1>5. n \in Nat /\ ledger \in Seq(Event) /\ mySeq[p] \in Nat /\ mySeq[p] <= n
  BY DEF TranscriptTypes, SeqsBounded
<1>6. \/ batch = <<>>
      \/ \E e \in Event :
            /\ batch = <<e>>
            /\ e.seq = mySeq[p] + 1 /\ e.kind = call[p].kind /\ e.expected = call[p].expected
            /\ e.type = "claimed" => Atomic!Answer(call[p], snapshot[p]) = "accepted"
  BY <1>4, <1>5, BatchType
<1>7. ~disturbed =>
        \A q \in Procs \ {p} : pc'[q] = pc[q] /\ (pc[q] = "crashed" \/ snapshot[q] = Unread)
  BY <1>2 DEF SnapshotCurrent, LockInv, LockTypeOK, LockSound, OwnerHolds, Holding
<1> HIDE DEF batch
<1>8. CallsPending'
  BY <1>1, <1>2, <1>4, AnswerType
     DEF CallsPending, InFlight, Waiting, TranscriptTypes, LockInv, LockTypeOK
<1>9. SnapshotCurrent'
  BY <1>1, <1>2, <1>7 DEF SnapshotCurrent, TranscriptTypes
<1>10. CASE batch = <<>>
  <2>1. ledger' = ledger /\ Len(batch) = 0
    BY <1>1, <1>5, <1>10
  <2>2. mySeq' = mySeq
    BY <1>1, <2>1 DEF TranscriptTypes
  <2>3. TranscriptTypes'
    BY <1>1, <1>4, <2>1, <2>2, AnswerType DEF TranscriptTypes, Atomic!Answers
  <2>4. SnapshotPast' /\ SeqsBounded' /\ SeqIsPosition' /\ ProofStillCurrent'
    BY <1>1, <1>2, <2>1, <2>2
       DEF SnapshotPast, SeqsBounded, SeqIsPosition, ProofStillCurrent, TranscriptTypes
  <2> QED
    BY <1>8, <1>9, <2>3, <2>4
<1>11. ASSUME NEW e \in Event,
              batch = <<e>>,
              e.seq = mySeq[p] + 1, e.kind = call[p].kind, e.expected = call[p].expected,
              e.type = "claimed" => Atomic!Answer(call[p], snapshot[p]) = "accepted"
       PROVE  /\ TranscriptTypes' /\ SnapshotPast'
              /\ SeqsBounded' /\ SeqIsPosition' /\ ProofStillCurrent'
  <2>1. /\ ledger' = Append(ledger, e) /\ Len(ledger') = n + 1 /\ ledger' \in Seq(Event)
        /\ DOMAIN ledger' = 1 .. n + 1
        /\ \A i \in 1 .. n : ledger'[i] = ledger[i]
        /\ ledger'[n + 1] = e
    BY <1>1, <1>5, <1>11
  <2>2. mySeq' = [mySeq EXCEPT ![p] = @ + 1]
    BY <1>1, <1>11 DEF TranscriptTypes
  <2>3. TranscriptTypes'
    BY <1>1, <1>4, <1>5, <2>1, <2>2, AnswerType DEF TranscriptTypes, Atomic!Answers
  <2>4. SeqsBounded'
    BY <1>5, <1>11, <2>1, <2>2 DEF SeqsBounded, TranscriptTypes
  <2>5. SnapshotPast'
    BY <1>1, <1>5, <2>1 DEF SnapshotPast, Prefix, TranscriptTypes
  <2>6. SeqIsPosition'
    BY <1>2, <1>3, <1>5, <1>11, <2>1 DEF SeqIsPosition
  <2>7. ~disturbed /\ e.type = "claimed" /\ e.kind = "proved" => e.expected = n
    BY <1>3, <1>4, <1>5, <1>11, ProvedAtLastSeq, LastSeqBound
  <2>8. ProofStillCurrent'
    BY <1>2, <1>5, <2>1, <2>7 DEF ProofStillCurrent
  <2> QED
    BY <2>3, <2>4, <2>5, <2>6, <2>8
<1> QED
  BY <1>6, <1>8, <1>9, <1>10, <1>11

(* The release ends the call at the lock only, whether it unlinks or not. *)
LEMMA ReleaseInv ==
    ASSUME Inv, NEW p \in Procs, ReleaseStep(p)
    PROVE  TranscriptInv'
<1> USE DEF Inv, TranscriptInv
<1>1. pc[p] = "releasing" /\ pc' = [pc EXCEPT ![p] = "idle"] /\ disturbed' = disturbed
  BY OtherMoves DEF ReleaseStep, LockInv
<1>2. UNCHANGED <<ledger, readable, call, answer, snapshot, mySeq>>
  BY DEF ReleaseStep, ledgerVars
<1>3. TranscriptTypes'
  BY <1>2 DEF TranscriptTypes
<1>4. CallsPending'
  BY <1>1, <1>2 DEF CallsPending, InFlight, Waiting, LockInv, LockTypeOK
<1>5. SnapshotCurrent'
  BY <1>1, <1>2 DEF SnapshotCurrent, LockInv, LockTypeOK
<1> QED
  BY <1>1, <1>2, <1>3, <1>4, <1>5, RecordKept

(* Time passes, or nothing happens. *)
LEMMA IdleInv ==
    ASSUME Inv, UNCHANGED <<pc, ledgerVars>>, disturbed => disturbed'
    PROVE  TranscriptInv'
<1> USE DEF Inv, TranscriptInv, ledgerVars
<1>1. TranscriptTypes' /\ CallsPending' /\ SnapshotCurrent'
  BY DEF TranscriptTypes, CallsPending, InFlight, SnapshotCurrent
<1> QED
  BY <1>1, RecordKept

(* A death: if it tears a line, whoever else lives does not hold the lock. *)
LEMMA CrashInv ==
    ASSUME Inv, NEW p \in Procs, CrashStep(p)
    PROVE  TranscriptInv'
<1> USE DEF Inv, TranscriptInv
<1>1. pc' = [pc EXCEPT ![p] = "crashed"] /\ disturbed' = disturbed
  BY DEF CrashStep, Crash
<1>2. UNCHANGED <<ledger, call, answer, snapshot, mySeq>>
  BY DEF CrashStep
<1>3. UNCHANGED readable \/ (pc[p] = "critical" /\ readable' = FALSE)
  BY DEF CrashStep
<1>4. TranscriptTypes'
  BY <1>2, <1>3 DEF TranscriptTypes
<1>5. CallsPending'
  BY <1>1, <1>2 DEF CallsPending, InFlight, Waiting, LockInv, LockTypeOK
<1>6. SnapshotCurrent'
  <2> SUFFICES ASSUME ~disturbed, NEW q \in Procs, snapshot[q] # Unread, pc'[q] # "crashed"
               PROVE  pc'[q] = "critical" /\ readable' /\ snapshot[q] = ledger /\ mySeq[q] = Len(ledger)
    BY <1>1, <1>2 DEF SnapshotCurrent
  <2>1. q # p /\ pc'[q] = pc[q]
    BY <1>1 DEF LockInv, LockTypeOK
  <2>2. pc[q] = "critical" /\ readable /\ snapshot[q] = ledger /\ mySeq[q] = Len(ledger)
    BY <2>1 DEF SnapshotCurrent
  <2>3. pc[p] # "critical"
    BY <2>1, <2>2 DEF LockInv, LockSound, OwnerHolds, Holding
  <2> QED
    BY <1>3, <2>1, <2>2, <2>3
<1> QED
  BY <1>1, <1>2, <1>4, <1>5, <1>6, RecordKept

(* Every step is one of these. *)
LEMMA StepKinds ==
    ASSUME LockTypeOK, [Next]_vars
    PROVE  \/ /\ UNCHANGED <<pc, ledgerVars>>
              /\ disturbed' = disturbed \/ disturbed' = TRUE
           \/ \E p \in Procs : Invoke(p) \/ AcquireStep(p) \/ ReadLedger(p) \/ WriteLedger(p)
                               \/ ReleaseStep(p) \/ CrashStep(p)
<1>1. CASE UNCHANGED vars
  BY <1>1 DEF vars, lockVars
<1>2. CASE TickStep
  BY <1>2 DEF TickStep, Tick, LockTypeOK
<1> QED
  BY <1>1, <1>2 DEF Next

(* The invariant is inductive. *)
LEMMA InvStep == Inv /\ [Next]_vars => Inv'
<1> SUFFICES ASSUME Inv, [Next]_vars PROVE Inv'
  OBVIOUS
<1>1. LockInv'
  BY LockInvStep, LockStutter DEF Inv
<1>2. disturbed => disturbed'
  BY DisturbedLatches, LockStutter
<1>3. TranscriptInv'
  BY <1>2, StepKinds, IdleInv, InvokeInv, AcquireInv, ReadInv, WriteInv, ReleaseInv, CrashInv
     DEF Inv, LockInv
<1> QED
  BY <1>1, <1>3 DEF Inv

-----------------------------------------------------------------------------
(* Each step is a step of the atomic transcript, or none. *)

(* The write is the atomic commit: what was read is what is there, or is   *)
(* what was there once there has been a disturbance.                       *)
LEMMA WriteCommits ==
    ASSUME Inv, NEW p \in Procs, WriteLedger(p)
    PROVE  Atomic!Commit(p) \/ Atomic!CommitLate(p)
<1> USE DEF Inv, TranscriptInv
<1>1. pc[p] = "critical" /\ snapshot[p] # Unread /\ disturbed' = disturbed
  BY OtherMoves DEF WriteLedger, LockInv
<1>2. answer[p] = "pending"
  BY <1>1 DEF CallsPending, InFlight
<1>3. Atomic!Decide(p, snapshot[p], mySeq[p] + 1)
  BY <1>1, <1>2 DEF WriteLedger, Finish, Atomic!Decide
<1>4. CASE ~ disturbed
  <2>1. readable /\ snapshot[p] = ledger /\ mySeq[p] = Atomic!LastSeq(ledger)
    BY <1>1, <1>4, LastSeqBound DEF SnapshotCurrent, TranscriptTypes
  <2> QED
    BY <1>3, <2>1 DEF Atomic!Commit
<1>5. CASE disturbed
  <2> DEFINE n == Len(snapshot[p])
  <2>1. snapshot[p] \in Seq(Event) /\ ledger \in Seq(Event) /\ Prefix(snapshot[p], ledger)
    BY <1>1 DEF SnapshotPast, TranscriptTypes
  <2>2. n \in 0 .. Len(ledger) /\ snapshot[p] = SubSeq(ledger, 1, n)
    BY <2>1, PrefixIsSubSeq DEF Prefix
  <2>3. mySeq[p] + 1 \in 1 .. Len(ledger) + 1
    BY <2>1 DEF SeqsBounded, TranscriptTypes
  <2>4. Atomic!Decide(p, SubSeq(ledger, 1, n), mySeq[p] + 1)
    BY <1>3, <2>2
  <2> QED
    BY <1>5, <2>2, <2>3, <2>4 DEF Atomic!CommitLate
<1> QED
  BY <1>4, <1>5

(* Every step maps to a step or a stutter. *)
LEMMA StepRefines == Inv /\ [Next]_vars => [Atomic!AtomicNext]_Atomic!atomicVars
<1> SUFFICES ASSUME Inv, [Next]_vars
             PROVE  Atomic!AtomicNext \/ UNCHANGED Atomic!atomicVars
  OBVIOUS
<1> USE DEF Inv, TranscriptInv
<1>1. CASE UNCHANGED <<pc, ledgerVars>> /\ (disturbed' = disturbed \/ disturbed' = TRUE)
  BY <1>1 DEF ledgerVars, Atomic!atomicVars, Atomic!Disturb, Atomic!AtomicNext
<1>2. ASSUME NEW p \in Procs, Invoke(p) PROVE Atomic!AtomicNext
  <2>1. answer[p] # "pending" /\ disturbed' = disturbed
    BY <1>2, OtherMoves DEF Invoke, LockInv, CallsPending, InFlight, Waiting
  <2> QED
    BY <1>2, <2>1 DEF Invoke, Atomic!Invoke, Atomic!AtomicNext
<1>3. ASSUME NEW p \in Procs, AcquireStep(p)
      PROVE  Atomic!AtomicNext \/ UNCHANGED Atomic!atomicVars
  <2>1. answer[p] = "pending"
    BY <1>3, AcquireMoves DEF AcquireStep, LockInv, CallsPending, InFlight
  <2>2. disturbed' = disturbed \/ (disturbed' = TRUE /\ pc'[p] # "idle")
    BY <1>3, AcquireMoves DEF AcquireStep, LockInv
  <2>3. CASE disturbed' = disturbed
    BY <1>3, <2>1, <2>3 DEF AcquireStep, Atomic!Throw, Atomic!AtomicNext, Atomic!atomicVars
  <2>4. CASE disturbed' = TRUE /\ pc'[p] # "idle"
    BY <1>3, <2>4 DEF AcquireStep, Atomic!Disturb, Atomic!AtomicNext
  <2> QED
    BY <2>2, <2>3, <2>4
<1>4. ASSUME NEW p \in Procs, ReadLedger(p)
      PROVE  Atomic!AtomicNext \/ UNCHANGED Atomic!atomicVars
  <2>1. answer[p] = "pending"
    BY <1>4 DEF ReadLedger, CallsPending, InFlight
  <2>2. disturbed' = disturbed
    BY <1>4, OtherMoves DEF ReadLedger, LockInv, lockVars
  <2>3. CASE readable
    BY <1>4, <2>2, <2>3 DEF ReadLedger, Atomic!atomicVars
  <2>4. CASE ~ readable
    BY <1>4, <2>1, <2>2, <2>4 DEF ReadLedger, Finish, Atomic!Throw, Atomic!AtomicNext
  <2> QED
    BY <2>3, <2>4
<1>5. ASSUME NEW p \in Procs, WriteLedger(p) PROVE Atomic!AtomicNext
  BY <1>5, WriteCommits DEF Atomic!AtomicNext
<1>6. ASSUME NEW p \in Procs, ReleaseStep(p) PROVE UNCHANGED Atomic!atomicVars
  BY <1>6, OtherMoves DEF ReleaseStep, ledgerVars, LockInv, Atomic!atomicVars
<1>7. ASSUME NEW p \in Procs, CrashStep(p)
      PROVE  Atomic!AtomicNext \/ UNCHANGED Atomic!atomicVars
  <2>1. UNCHANGED <<ledger, call, answer, disturbed>>
    BY <1>7 DEF CrashStep, Crash
  <2>2. CASE UNCHANGED readable
    BY <2>1, <2>2 DEF Atomic!atomicVars
  <2>3. CASE pc[p] = "critical" /\ readable' = FALSE
    BY <2>1, <2>3 DEF CallsPending, InFlight, Atomic!Tear, Atomic!AtomicNext
  <2> QED
    BY <1>7, <2>2, <2>3 DEF CrashStep
<1> QED
  BY <1>1, <1>2, <1>3, <1>4, <1>5, <1>6, <1>7, StepKinds DEF LockInv

-----------------------------------------------------------------------------
(* Seqs are positions: findLastEventSeq tells exactly whether anything was *)
(* appended since the transcript was read -- until a disturbance.          *)
THEOREM SeqsArePositions == Spec => []SeqIsPosition
<1>1. Inv => SeqIsPosition
  BY DEF Inv, TranscriptInv
<1> QED
  BY InitInv, InvStep, <1>1, PTL DEF Spec

(* transitionState with expectedLastSeq accepts a claim only if nothing    *)
(* was appended between the caller's proof and the claim -- until a        *)
(* disturbance.                                                            *)
THEOREM ProofsStayCurrent == Spec => []ProofStillCurrent
<1>1. Inv => ProofStillCurrent
  BY DEF Inv, TranscriptInv
<1> QED
  BY InitInv, InvStep, <1>1, PTL DEF Spec

(* The primitives of transcript.js, which lock, read, append and release   *)
(* in separate steps, implement the atomic ones of AtomicTranscript.       *)
THEOREM TranscriptIsAtomic == Spec => ImplementsAtomic
<1>1. Init => Atomic!AtomicInit
  BY DEF Init
<1>2. Inv /\ [Next]_vars => [Atomic!AtomicNext]_Atomic!atomicVars
  BY StepRefines
<1> QED
  BY InitInv, InvStep, <1>1, <1>2, PTL DEF Spec, ImplementsAtomic, Atomic!AtomicSpec
=============================================================================
