--------------------------- MODULE LockedTranscript ---------------------------
(***************************************************************************)
(* The append primitives of src/src/transcript.js as they are executed:    *)
(* acquire the lock of AppendLock, read the transcript, decide on what was *)
(* read, append the batch, release the lock.  Other processes run between  *)
(* any two of these steps.  The decisions are those of AtomicTranscript.   *)
(***************************************************************************)
EXTENDS AppendLock, Sequences, SequencesExt

CONSTANTS
    Unread,      \* the call has not read the transcript yet
    Kinds,       \* the kinds of call made, as in AtomicTranscript
    MaxCalls     \* bound of the instance: calls made altogether

VARIABLES
    ledger, readable, call, answer,   \* as in AtomicTranscript
    snapshot,    \* what each process read under its lock, or Unread
    mySeq,       \* the Transcript instance's own this.seq
    calls        \* calls made so far (only for the bound)

Atomic == INSTANCE AtomicTranscript
            WITH ledger <- ledger, readable <- readable, call <- call, answer <- answer,
                 disturbed <- disturbed

ASSUME KindsAssumption == Kinds \subseteq Atomic!AllKinds

ledgerVars == <<ledger, readable, call, answer, snapshot, mySeq, calls>>
vars == <<lockVars, ledgerVars>>

Init ==
    /\ LockInit
    /\ Atomic!AtomicInit
    /\ snapshot = [p \in Procs |-> Unread]
    /\ mySeq = [p \in Procs |-> 0]
    /\ calls = 0

Finish(p, result) ==
    /\ answer' = [answer EXCEPT ![p] = result]
    /\ snapshot' = [snapshot EXCEPT ![p] = Unread]

(* A primitive is called.  A caller that proves something first has read   *)
(* the transcript without the lock and passes the seq it saw.              *)
Invoke(p) ==
    /\ calls < MaxCalls
    /\ Begin(p)
    /\ \E kind \in Kinds :
         call' = [call EXCEPT ![p] = [kind |-> kind, expected |-> Atomic!LastSeq(ledger)]]
    /\ answer' = [answer EXCEPT ![p] = "pending"]
    /\ calls' = calls + 1
    /\ UNCHANGED <<ledger, readable, snapshot, mySeq>>

(* A step of acquireAppendLock.  One that ends at "idle" has thrown. *)
AcquireStep(p) ==
    /\ Acquire(p)
    /\ answer' = IF pc'[p] = "idle" THEN [answer EXCEPT ![p] = "threw"] ELSE answer
    /\ UNCHANGED <<ledger, readable, call, snapshot, mySeq, calls>>

(* readTranscript under the lock.  A torn line throws, and the finally     *)
(* block releases the lock; otherwise this.seq catches up with the file.   *)
ReadLedger(p) ==
    /\ pc[p] = "critical"
    /\ snapshot[p] = Unread
    /\ IF readable
         THEN /\ snapshot' = [snapshot EXCEPT ![p] = ledger]
              /\ mySeq' = [mySeq EXCEPT ![p] = Max({@, Atomic!LastSeq(ledger)})]
              /\ UNCHANGED <<answer, lockVars>>
         ELSE /\ Finish(p, "threw")
              /\ Leave(p)
              /\ UNCHANGED mySeq
    /\ UNCHANGED <<ledger, readable, call, calls>>

(* The decision on the snapshot and the one appendFile of the batch. *)
WriteLedger(p) ==
    /\ pc[p] = "critical"
    /\ snapshot[p] # Unread
    /\ LET batch == Atomic!Batch(call[p], snapshot[p], mySeq[p] + 1) IN
         /\ ledger' = ledger \o batch
         /\ mySeq' = [mySeq EXCEPT ![p] = @ + Len(batch)]
    /\ Finish(p, Atomic!Answer(call[p], snapshot[p]))
    /\ Leave(p)
    /\ UNCHANGED <<readable, call, calls>>

ReleaseStep(p) == Release(p) /\ UNCHANGED ledgerVars

(* A death outside appendFile changes nothing on disk; a death inside it   *)
(* may leave half a line.                                                  *)
CrashStep(p) ==
    /\ Crash(p)
    /\ \/ UNCHANGED readable
       \/ /\ pc[p] = "critical" /\ snapshot[p] # Unread
          /\ Atomic!Answer(call[p], snapshot[p]) # "noop"
          /\ readable' = FALSE
    /\ UNCHANGED <<ledger, call, answer, snapshot, mySeq, calls>>

TickStep == Tick /\ UNCHANGED ledgerVars

Next ==
    \/ TickStep
    \/ \E p \in Procs :
         \/ Invoke(p) \/ AcquireStep(p) \/ ReadLedger(p) \/ WriteLedger(p)
         \/ ReleaseStep(p) \/ CrashStep(p)

Spec == Init /\ [][Next]_vars

-----------------------------------------------------------------------------
(* The locked read, decide and append of every primitive is one step of    *)
(* the atomic transcript until a process stalls past the stale bound or    *)
(* two act on one stale stamp; then it is still decided on a transcript    *)
(* that was.                                                               *)
ImplementsAtomic == Atomic!AtomicSpec

(* Until then event seqs are the positions in the file, so "the last seq  *)
(* I read" and "nothing was appended since" are the same thing.            *)
SeqIsPosition == ~disturbed => \A i \in DOMAIN ledger : ledger[i].seq = i

(* A claim that carried a proof (expectedLastSeq) was accepted right after *)
(* the very event the proof was read at.                                   *)
ProofStillCurrent ==
    ~disturbed =>
        \A i \in DOMAIN ledger :
            ledger[i].type = "claimed" /\ ledger[i].kind = "proved"
            => ledger[i].expected = i - 1

=============================================================================
