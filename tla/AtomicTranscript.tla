--------------------------- MODULE AtomicTranscript ---------------------------
(***************************************************************************)
(* What the append primitives of src/src/transcript.js promise: every call *)
(* reads the transcript, decides, and appends its whole batch of events as *)
(* one indivisible step, until more happens than their lock can bear.      *)
(* LockedTranscript shows that the code, which does the three separately   *)
(* under an advisory lock, keeps that promise.                             *)
(*                                                                         *)
(* Four kinds of call stand for the primitives' four ways of deciding:     *)
(*   note     append: no condition;                                        *)
(*   declare  appendReadOnlyDeclared: at most once;                        *)
(*   claim    transitionState to a terminal state: the first one wins, a   *)
(*            later one is recorded as refused;                            *)
(*   proved   transitionState with expectedLastSeq: wins only if nothing   *)
(*            was appended since the caller read the transcript.           *)
(***************************************************************************)
EXTENDS Integers, Sequences, SequencesExt

CONSTANTS
    Procs,       \* the calls that may be in flight at once
    Kinds        \* the kinds of call they make: a subset of AllKinds

VARIABLES
    ledger,      \* the events of the transcript, oldest first
    readable,    \* FALSE once a torn line makes readTranscript throw
    call,        \* the call each process has in flight or made last
    answer,      \* what that call returned
    disturbed    \* the lock has been asked for more than it can bear

atomicVars == <<ledger, readable, call, answer, disturbed>>

AllKinds == {"note", "declare", "claim", "proved"}

NoCall == [kind |-> "none"]

Answers == {"none", "pending", "recorded", "noop", "accepted", "refused", "threw"}

(* findLastEventSeq *)
LastSeq(events) == IF events = <<>> THEN 0 ELSE Last(events).seq

Types(events) == {events[i].type : i \in DOMAIN events}

(* claimedTerminalState: some terminal run.state_change is in the ledger. *)
HasTerminal(events) == "claimed" \in Types(events)

(* Mutant of Answer: expectedLastSeq is ignored. *)
AnswerIgnoringSeq(c, events) ==
    CASE c.kind = "note" -> "recorded"
      [] c.kind = "declare" -> IF "declared" \in Types(events) THEN "noop" ELSE "recorded"
      [] c.kind \in {"claim", "proved"} -> IF HasTerminal(events) THEN "refused" ELSE "accepted"

(* The event each call writes, and what it answers, given the events it    *)
(* has read.  Answer "noop" writes nothing.                                *)
Answer(c, events) ==
    CASE c.kind = "note" -> "recorded"
      [] c.kind = "declare" -> IF "declared" \in Types(events) THEN "noop" ELSE "recorded"
      [] c.kind = "claim" -> IF HasTerminal(events) THEN "refused" ELSE "accepted"
      [] c.kind = "proved" -> IF LastSeq(events) # c.expected \/ HasTerminal(events)
                                THEN "refused" ELSE "accepted"

EventType(c, result) ==
    CASE result = "accepted" -> "claimed"
      [] result = "refused" -> "refused"
      [] c.kind = "declare" -> "declared"
      [] OTHER -> "note"

Batch(c, events, seq) ==
    LET result == Answer(c, events) IN
    IF result = "noop" THEN <<>>
    ELSE << [type |-> EventType(c, result), kind |-> c.kind,
             expected |-> c.expected, seq |-> seq] >>

-----------------------------------------------------------------------------
AtomicInit ==
    /\ ledger = <<>>
    /\ readable = TRUE
    /\ call = [p \in Procs |-> NoCall]
    /\ answer = [p \in Procs |-> "none"]
    /\ disturbed = FALSE

(* A caller that will prove something notes the last seq it has read. *)
Invoke(p) ==
    /\ answer[p] # "pending"
    /\ \E kind \in Kinds :
         call' = [call EXCEPT ![p] = [kind |-> kind, expected |-> LastSeq(ledger)]]
    /\ answer' = [answer EXCEPT ![p] = "pending"]
    /\ UNCHANGED <<ledger, readable, disturbed>>

(* The call is decided on the given events, its event gets the given seq.  *)
Decide(p, events, seq) ==
    /\ answer[p] = "pending"
    /\ ledger' = ledger \o Batch(call[p], events, seq)
    /\ answer' = [answer EXCEPT ![p] = Answer(call[p], events)]
    /\ UNCHANGED <<readable, call, disturbed>>

Commit(p) == readable /\ Decide(p, ledger, LastSeq(ledger) + 1)

(* What is left of the promise after a disturbance: one batch, decided on  *)
(* a transcript that was, with a seq that is not ahead of its position.    *)
CommitLate(p) ==
    /\ disturbed
    /\ \E n \in 0 .. Len(ledger), seq \in 1 .. Len(ledger) + 1 :
          Decide(p, SubSeq(ledger, 1, n), seq)

Disturb ==
    /\ disturbed' = TRUE
    /\ UNCHANGED <<ledger, readable, call, answer>>

(* The lock times out, or the transcript does not parse: the call throws   *)
(* and has appended nothing.                                               *)
Throw(p) ==
    /\ answer[p] = "pending"
    /\ answer' = [answer EXCEPT ![p] = "threw"]
    /\ UNCHANGED <<ledger, readable, call, disturbed>>

(* The process dies inside appendFile and leaves half a line. *)
Tear(p) ==
    /\ answer[p] = "pending"
    /\ readable' = FALSE
    /\ UNCHANGED <<ledger, call, answer, disturbed>>

AtomicNext ==
    \/ Disturb
    \/ \E p \in Procs : Invoke(p) \/ Commit(p) \/ CommitLate(p) \/ Throw(p) \/ Tear(p)

AtomicSpec == AtomicInit /\ [][AtomicNext]_atomicVars
=============================================================================
