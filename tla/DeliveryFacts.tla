----------------------------- MODULE DeliveryFacts -----------------------------
(***************************************************************************)
(* What the readers of a run's transcript conclude from it: the run's      *)
(* state, the recovery it qualifies for, the chain of reverifications and  *)
(* whether the delivery facts hang together (src/src/transcript.js,        *)
(* src/src/application/processRecovery.js).                                *)
(*                                                                         *)
(* An event is a record of its type (without the prefix "run."), a value   *)
(* and a note.  Every event carries the run's own id, every DeliveryRef    *)
(* its own commit: a second ref can only come with a second                *)
(* delivery_created, which is malformed whatever its commit is.            *)
(*   state_change          value: the new state, note: the reason          *)
(*   scorecard_checked     value: passed or failed                         *)
(*   delivery_created      note: commands, or declared when the ref has no *)
(*                         commands and an unavailableReason               *)
(*   delivery_failed       value: deliveryCode                             *)
(*   delivery_repackaged   value: recoveryKind                             *)
(*   verification          value: the outcome, note: eligible when it is a *)
(*                         failure that a reverification may follow        *)
(*   reverify_requested    value: the attempt, first or second             *)
(*   reverify_outcome      as verification                                 *)
(*   decision              value: accepted or rejected, note: the          *)
(*                         verification status its DeliveryRef carries     *)
(***************************************************************************)
EXTENDS Integers, Sequences, FiniteSets, SequencesExt, FiniteSetsExt

Event(type, value, note) == [type |-> type, value |-> value, note |-> note]

TerminalStates == {"completed", "failed", "aborted"}

(* The positions of the events of a type. *)
Of(events, type) == {i \in DOMAIN events : events[i].type = type}

OneOf(events, type) == Cardinality(Of(events, type)) = 1

TerminalChanges(events) ==
    {i \in Of(events, "state_change") : events[i].value \in TerminalStates}

-----------------------------------------------------------------------------
(* The state of the run. *)

(* claimedTerminalState: what decides whether a further claim is refused. *)
ClaimedTerminal(events) ==
    LET changes == TerminalChanges(events) IN
    IF changes = {} THEN "none" ELSE events[Max(changes)].value

(* inferStateFromLegacyEvent, for the facts that infer a terminal state. *)
Inferred(type) ==
    CASE type = "completed" -> "completed"
      [] type = "aborted" -> "aborted"
      [] type = "error" -> "failed"
      [] OTHER -> "running"

(* findState: the latest state change, or the terminal state that a later  *)
(* fact implies.                                                           *)
FindState(events) ==
    LET changes == Of(events, "state_change")
        last == Max(changes)
        implied == {i \in DOMAIN events :
                      i > last /\ Inferred(events[i].type) \in TerminalStates}
    IN  IF changes = {} THEN "pending"
        ELSE IF events[last].value \in TerminalStates \/ implied = {} THEN events[last].value
        ELSE Inferred(events[Max(implied)].type)

IsTerminal(events) == FindState(events) \in TerminalStates

(* _lastBoundStateChangeBefore *)
LastChangeBefore(events, index) ==
    LET changes == {i \in Of(events, "state_change") : i < index} IN
    IF changes = {} THEN "none" ELSE events[Max(changes)].value

-----------------------------------------------------------------------------
(* Recovery. *)

(* BACKEND_RECOVERY_CONFLICT_TYPES, and a scorecard that failed. *)
Conflict(events) ==
    \E i \in DOMAIN events :
        \/ events[i].type \in {"isolation_violation", "budget_exceeded", "aborted"}
        \/ events[i].type = "scorecard_checked" /\ events[i].value = "failed"

(* classifyRecoveryCandidate *)
RecoveryKind(events) ==
    LET failures == Of(events, "delivery_failed")
        changes  == TerminalChanges(events)
        change   == events[Max(changes)]
        failedFor(reasons) == /\ failures = {}
                              /\ Cardinality(changes) = 1
                              /\ change.value = "failed"
                              /\ change.note \in reasons
                              /\ ~Conflict(events)
    IN  CASE /\ Cardinality(failures) = 1
             /\ \A i \in failures : events[i].value = "disallowed_path" -> "disallowed_scope"
          [] /\ failedFor({"process_missing"})
             /\ OneOf(events, "process_missing_confirmed") -> "process_missing"
          [] /\ failedFor({"backend_error", "backend_stream_ended"})
             /\ Of(events, "stop_verified") # {}
             /\ Of(events, "stop_unverified") = {} -> "backend_failed"
          [] OTHER -> "none"

(* findValidRepackageProvenance: the repackaging the recovery kind allows. *)
ValidProvenance(events) ==
    /\ RecoveryKind(events) # "none"
    /\ OneOf(events, "delivery_repackaged")
    /\ \A i \in Of(events, "delivery_repackaged") : events[i].value = RecoveryKind(events)

DeliveryFactTypes == {"delivery_created", "verification", "decision",
                      "delivery_repackaged", "process_missing_confirmed"}

(* classifyProcessMissingCandidate: a run that looks abandoned.  It also   *)
(* asks for exactly one session.created, with a proc_<pid>: the process-   *)
(* backed runs modelled all have it.                                       *)
MissingCandidate(events) ==
    /\ ~IsTerminal(events)
    /\ TerminalChanges(events) = {}
    /\ \A i \in DOMAIN events :
         events[i].type \notin DeliveryFactTypes
             \cup {"delivery_failed", "isolation_violation", "budget_exceeded", "aborted"}

-----------------------------------------------------------------------------
(* Verification and reverification. *)

(* The original outcome, pending until there is one. *)
OriginalStatus(events) ==
    LET outcomes == Of(events, "verification") IN
    IF outcomes = {} THEN "pending" ELSE events[Min(outcomes)].value

EmptyChain == [ok |-> "ok", links |-> <<>>, open |-> "none"]

(* One step of pairReverifyLinks: a request opens a link, an outcome       *)
(* completes the open one; a second attempt needs a first link that failed *)
(* for an environment reason.                                              *)
ExtendChain(chain, event) ==
    CASE event.type = "reverify_requested" /\ chain.ok = "ok" ->
           IF /\ chain.open = "none"
              /\ \/ event.value = "first" /\ chain.links = <<>>
                 \/ /\ event.value = "second"
                    /\ Len(chain.links) = 1
                    /\ chain.links[1].value = "failed"
                    /\ chain.links[1].note = "eligible"
             THEN [chain EXCEPT !.open = event.value]
             ELSE [chain EXCEPT !.ok = "malformed"]
      [] event.type = "reverify_outcome" /\ chain.ok = "ok" ->
           IF chain.open = "none" THEN [chain EXCEPT !.ok = "malformed"]
           ELSE [chain EXCEPT !.links = Append(@, event), !.open = "none"]
      [] OTHER -> chain

(* pairReverifyLinks *)
Chain(events) ==
    LET upTo[i \in 0 .. Len(events)] ==
          IF i = 0 THEN EmptyChain ELSE ExtendChain(upTo[i - 1], events[i])
    IN  upTo[Len(events)]

(* projectReverifyChain: the status of the latest link. *)
ChainStatus(events) ==
    LET chain == Chain(events) IN
    CASE chain.ok = "malformed" -> "malformed"
      [] chain.ok = "ok" /\ chain.open # "none" -> "pending"
      [] chain.ok = "ok" /\ chain.open = "none" /\ chain.links # <<>> -> "complete"
      [] OTHER -> "none"

(* The status of the newest complete link, of a chain that is well formed. *)
NewestComplete(events) ==
    LET outcomes == Of(events, "reverify_outcome") IN
    IF Chain(events).ok = "ok" /\ outcomes # {} THEN events[Max(outcomes)].value ELSE "none"

(* effectiveVerificationStatus: a complete chain overrides the original    *)
(* outcome; while a second attempt is open the original counts again.      *)
EffectiveStatus(events) ==
    IF ChainStatus(events) = "complete" THEN NewestComplete(events) ELSE OriginalStatus(events)

(* isDeclaredUnverifiableDelivery: nothing to run was declared, and that   *)
(* is what the one outcome says.                                           *)
DeclaredUnverifiable(events) ==
    /\ \A i \in Of(events, "delivery_created") : events[i].note = "declared"
    /\ OneOf(events, "verification")
    /\ OriginalStatus(events) = "unavailable"
    /\ Of(events, "reverify_requested") \cup Of(events, "reverify_outcome") = {}

-----------------------------------------------------------------------------
(* The delivery facts as a whole. *)

(* Mutant of DecisionBacked: a pending rejection may not be followed by an *)
(* outcome.                                                                *)
DecisionBackedNow(events, d) ==
    LET decision == events[d]
        before   == SubSeq(events, 1, d - 1)
        byOutcome == OriginalStatus(events) = decision.note
    IN  IF decision.note = "pending"
          THEN decision.value = "rejected" /\ OriginalStatus(events) = "pending"
          ELSE byOutcome \/ NewestComplete(before) = decision.note

(* _validateBoundDecisionEvent: the decision at position d rests on what   *)
(* was recorded before it.                                                 *)
DecisionBacked(events, d) ==
    LET decision == events[d]
        before   == SubSeq(events, 1, d - 1)
        byOutcome == /\ \E i \in Of(events, "verification") : i = Min(Of(events, "verification")) /\ i < d
                     /\ OriginalStatus(events) = decision.note
    IN  /\ Of(before, "delivery_created") # {}
        /\ \/ /\ decision.note = "pending"
              /\ decision.value = "rejected"
              /\ LastChangeBefore(events, d) = "completed"
              /\ Of(before, "verification") = {}
              /\ ChainStatus(events) = "none"
           \/ /\ decision.note # "pending"
              /\ byOutcome \/ NewestComplete(before) = decision.note
              /\ decision.value = "accepted" =>
                   \/ decision.note = "passed"
                   \/ /\ decision.note = "unavailable"
                      /\ byOutcome
                      /\ DeclaredUnverifiable(events)

(* validateDeliveryFacts with a run id and pending verification allowed:   *)
(* unavailable, malformed or valid.                                        *)
FactsVerdict(events) ==
    LET created   == Of(events, "delivery_created")
        outcomes  == Of(events, "verification")
        decisions == Of(events, "decision")
    IN  IF created = {}
          THEN IF outcomes \cup decisions = {} THEN "unavailable" ELSE "malformed"
          ELSE IF \/ Cardinality(created) > 1
                  \/ Of(events, "delivery_failed") # {} /\ ~ValidProvenance(events)
                  \/ Cardinality(outcomes) > 1
                  \/ Cardinality(decisions) > 1
                  \/ \E d \in decisions : ~DecisionBacked(events, d)
                  \/ outcomes = {} /\ ChainStatus(events) # "none"
          THEN "malformed" ELSE "valid"

(* A recovered delivery may be accepted although the run itself failed.    *)
RecoveryAcceptable(events) ==
    ValidProvenance(events)
    /\ (OriginalStatus(events) = "passed" \/ DeclaredUnverifiable(events))
=============================================================================
