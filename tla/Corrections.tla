------------------------------ MODULE Corrections ------------------------------
(***************************************************************************)
(* In-flight corrections of a running worker: run_correct appends a        *)
(* request to the run's transcript (application/runCorrection.js), the     *)
(* runner of a correctable run claims it on a tick of its wait loop, hands *)
(* it to the provider and records what became of it, and its cleanup       *)
(* rejects what is left (runManager.js, transcript.js).  An append is one  *)
(* step: LockedTranscript shows when that is so.  Which of its events      *)
(* decides about a correction does not depend on their order, because an   *)
(* id is requested once, so the transcript is a set of events here.        *)
(***************************************************************************)
EXTENDS Naturals

CONSTANTS
    Leads,       \* run_correct calls
    Ids,         \* correction ids
    NoId,        \* no correction is in hand
    Prompts,     \* prompt bodies
    Actors       \* who disturbs: stop, interrupt, crash, resume, trouble

ASSUME IdsAssumption == NoId \notin Ids

VARIABLES
    state,       \* the run's latest state change: pending, live (submitted or
                 \* running, which nothing here tells apart) or terminal
    log,         \* the correction events of the transcript
    lead,        \* where each call is, what it asks for, what it was answered
    loop,        \* where the runner's wait loop is
    todo,        \* the ids this tick found pending and has not come to yet
    hand,        \* the correction in hand while it is claimed, sent and recorded
    taken,       \* whether the provider reported the correction in hand taken
    closed,      \* _correctionsClosed: no, then rejecting, then done or lost
    aborting,    \* where _abortInternal is
    sent         \* how often each correction reached the provider

runVars == <<loop, todo, hand, taken, closed, aborting, sent>>
vars == <<state, log, lead, runVars>>

Init ==
    /\ state = "pending"
    /\ log = {}
    /\ lead = [l \in Leads |-> [at |-> "idle"]]
    /\ loop = "spawning"
    /\ todo = {}
    /\ hand = NoId
    /\ taken = FALSE
    /\ closed = "no"
    /\ aborting = "no"
    /\ sent = [id \in Ids |-> 0]

-----------------------------------------------------------------------------
(* The transcript and its projection. *)

Entry(type, id, prompt) == [type |-> type, id |-> id, prompt |-> prompt]

Write(type, ids) == log' = log \cup {Entry(type, id, "none") : id \in ids}

Has(type, id) == \E e \in log : e.type = type /\ e.id = id

(* projectCorrections: a delivery wins over everything, a rejection or a   *)
(* failed delivery over a claim, whichever came first.                     *)
Requested(id) == Has("requested", id)
Delivered(id) == Has("delivered", id)
Settled(id) == Delivered(id) \/ Has("rejected", id) \/ Has("delivery_failed", id)
Pending(id) == Requested(id) /\ ~Settled(id) /\ ~Has("claimed", id)

Outstanding == {id \in Ids : Requested(id) /\ ~Settled(id)}

-----------------------------------------------------------------------------
(* run_correct. *)

(* Mutant of Known: the prompt is not compared. *)
KnownById(id, prompt) ==
    IF Delivered(id) THEN "delivered"
    ELSE IF Settled(id) THEN "rejected" ELSE "pending"

(* mapExistingCorrection: another prompt under the same id is refused,     *)
(* whatever became of the first.                                           *)
Known(id, prompt) ==
    IF Entry("requested", id, prompt) \notin log THEN "duplicate"
    ELSE IF Delivered(id) THEN "delivered"
    ELSE IF Settled(id) THEN "rejected" ELSE "pending"

Answer(l, id, prompt, outcome) ==
    lead' = [lead EXCEPT ![l] = [at |-> "answered", id |-> id, prompt |-> prompt, outcome |-> outcome]]

(* The read without the lock: an id that is known is answered, and so is a *)
(* run that is not, or no longer, live.                                    *)
Ask(l) ==
    /\ lead[l].at = "idle"
    /\ \E id \in Ids, prompt \in Prompts :
         \/ Requested(id) /\ Answer(l, id, prompt, Known(id, prompt))
         \/ ~Requested(id) /\ state = "pending" /\ Answer(l, id, prompt, "not_ready")
         \/ ~Requested(id) /\ state = "terminal" /\ Answer(l, id, prompt, "terminal_run")
         \/ /\ ~Requested(id) /\ state = "live"
            /\ lead' = [lead EXCEPT ![l] = [at |-> "queueing", id |-> id, prompt |-> prompt]]
    /\ UNCHANGED <<state, log, runVars>>

(* Mutant of Queue: the lock is taken, the run's state is not read again.  *)
QueueAnyway(l) ==
    /\ lead[l].at = "queueing"
    /\ LET id == lead[l].id  prompt == lead[l].prompt IN
         \/ Requested(id) /\ Answer(l, id, prompt, Known(id, prompt)) /\ UNCHANGED log
         \/ /\ ~Requested(id)
            /\ Answer(l, id, prompt, "queued")
            /\ log' = log \cup {Entry("requested", id, prompt)}
    /\ UNCHANGED <<state, runVars>>

(* tryAppendCorrectionRequested looks again under the lock. *)
Queue(l) ==
    /\ lead[l].at = "queueing"
    /\ LET id == lead[l].id  prompt == lead[l].prompt IN
         \/ Requested(id) /\ Answer(l, id, prompt, Known(id, prompt)) /\ UNCHANGED log
         \/ /\ ~Requested(id) /\ state = "terminal"
            /\ Answer(l, id, prompt, "terminal_run") /\ UNCHANGED log
         \/ /\ ~Requested(id) /\ state # "terminal"
            /\ Answer(l, id, prompt, "queued")
            /\ log' = log \cup {Entry("requested", id, prompt)}
    /\ UNCHANGED <<state, runVars>>

-----------------------------------------------------------------------------
(* The runner. *)

(* The spawn succeeds, fails, or finds the run terminal; the latter two    *)
(* leave no Run behind.                                                    *)
Spawned ==
    /\ loop = "spawning"
    /\ \/ state = "pending" /\ state' = "live" /\ loop' = "polling"
       \/ state' = "terminal" /\ loop' = "unspawned"
    /\ UNCHANGED <<log, lead, todo, hand, taken, closed, aborting, sent>>

(* _pollCorrections reads the transcript once and goes through what it     *)
(* found, in any order here.                                               *)
Poll ==
    /\ loop = "polling" /\ closed = "no"
    /\ todo' = {id \in Ids : Pending(id)}
    /\ todo' # {}
    /\ loop' = "claiming"
    /\ UNCHANGED <<state, log, lead, hand, taken, closed, aborting, sent>>

(* Mutant of Claim: nothing is recorded before the correction is sent.     *)
ClaimUnrecorded ==
    /\ loop = "claiming"
    /\ \E id \in todo :
         /\ Pending(id) /\ state = "live"
         /\ hand' = id /\ todo' = todo \ {id}
    /\ loop' = "sending"
    /\ UNCHANGED <<state, log, lead, taken, closed, aborting, sent>>

(* tryClaimCorrection: recorded before anything is sent. *)
Claim ==
    /\ loop = "claiming"
    /\ \E id \in todo :
         /\ Pending(id) /\ state = "live"
         /\ Write("claimed", {id})
         /\ hand' = id /\ todo' = todo \ {id}
    /\ loop' = "sending"
    /\ UNCHANGED <<state, lead, taken, closed, aborting, sent>>

(* Somebody was first, the run is over, or the lock was not to be had. *)
SkipClaim ==
    /\ loop = "claiming"
    /\ \E id \in todo :
         /\ ~Pending(id) \/ state # "live" \/ "trouble" \in Actors
         /\ todo' = todo \ {id}
    /\ UNCHANGED <<state, log, lead, loop, hand, taken, closed, aborting, sent>>

PollDone ==
    /\ loop = "claiming" /\ todo = {}
    /\ loop' = "polling"
    /\ UNCHANGED <<state, log, lead, todo, hand, taken, closed, aborting, sent>>

(* handle.sendCorrection: taken; refused; or refused although the provider *)
(* has it (a prompt that was queued and not steered).                      *)
Send ==
    /\ loop = "sending"
    /\ taken' \in BOOLEAN
    /\ \/ sent' = [sent EXCEPT ![hand] = @ + 1]
       \/ taken' = FALSE /\ UNCHANGED sent
    /\ loop' = "recording"
    /\ UNCHANGED <<state, log, lead, todo, hand, closed, aborting>>

(* appendCorrectionDelivered overrides anything but a delivery, and        *)
(* appendCorrectionDeliveryFailed nothing that is final.                   *)
Record ==
    /\ loop = "recording"
    /\ \/ taken /\ ~Delivered(hand) /\ Write("delivered", {hand})
       \/ ~taken /\ ~Settled(hand) /\ Write("delivery_failed", {hand})
       \/ /\ \/ "trouble" \in Actors
             \/ IF taken THEN Delivered(hand) ELSE Settled(hand)
          /\ UNCHANGED log
    /\ loop' = "claiming"
    /\ hand' = NoId
    /\ UNCHANGED <<state, lead, todo, taken, closed, aborting, sent>>

(* The event stream ends; packaging and its like may take a while yet. *)
StreamEnds ==
    /\ loop = "polling"
    /\ loop' = "ended"
    /\ UNCHANGED <<state, log, lead, todo, hand, taken, closed, aborting, sent>>

(* The terminal transition, unless the run is being aborted or is over.    *)
End ==
    /\ loop = "ended"
    /\ state' = IF aborting = "no" THEN "terminal" ELSE state
    /\ loop' = "cleaning"
    /\ UNCHANGED <<log, lead, todo, hand, taken, closed, aborting, sent>>

(* Mutant of Close: nothing is rejected. *)
CloseSilently ==
    /\ loop = "cleaning"
    /\ closed' = "done"
    /\ loop' = "over"
    /\ UNCHANGED <<state, log, lead, todo, hand, taken, aborting, sent>>

(* _runCleanup, which the wait loop and the abort both call: whoever comes *)
(* first rejects what is outstanding.                                      *)
Close ==
    /\ loop = "cleaning"
    /\ IF closed = "no" THEN closed' = "rejecting" /\ loop' = "rejecting"
                        ELSE loop' = "over" /\ UNCHANGED closed
    /\ UNCHANGED <<state, log, lead, todo, hand, taken, aborting, sent>>

CloseAborted ==
    /\ aborting = "cleaning" /\ loop # "dead"
    /\ IF closed = "no" THEN closed' = "rejecting" /\ aborting' = "rejecting"
                        ELSE aborting' = "over" /\ UNCHANGED closed
    /\ UNCHANGED <<state, log, lead, loop, todo, hand, taken, sent>>

(* rejectOutstandingCorrections, one append; its failure is swallowed. *)
Reject ==
    /\ closed = "rejecting"
    /\ \/ Write("rejected", Outstanding) /\ closed' = "done"
       \/ "trouble" \in Actors /\ closed' = "lost" /\ UNCHANGED log
    /\ \/ loop = "rejecting" /\ loop' = "over" /\ UNCHANGED aborting
       \/ loop # "dead" /\ aborting = "rejecting" /\ aborting' = "over" /\ UNCHANGED loop
    /\ UNCHANGED <<state, lead, todo, hand, taken, sent>>

-----------------------------------------------------------------------------
(* What disturbs it. *)

(* wao stop or wao settle make the run terminal from another process. *)
Stop ==
    /\ "stop" \in Actors
    /\ state # "terminal"
    /\ state' = "terminal"
    /\ UNCHANGED <<log, lead, runVars>>

(* _abortInternal: the flag is set and the worker killed, the transition   *)
(* follows; the wait loop goes on in the meantime.                         *)
Interrupt ==
    /\ "interrupt" \in Actors
    /\ loop \in {"polling", "claiming", "sending", "recording"}
    /\ aborting = "no"
    /\ aborting' = "killing"
    /\ UNCHANGED <<state, log, lead, loop, todo, hand, taken, closed, sent>>

AbortClaim ==
    /\ aborting = "killing" /\ loop # "dead"
    /\ state' = "terminal"
    /\ aborting' = "cleaning"
    /\ UNCHANGED <<log, lead, loop, todo, hand, taken, closed, sent>>

Crash ==
    /\ "crash" \in Actors
    /\ loop \notin {"spawning", "unspawned", "over", "dead", "deaf"}
    /\ loop' = "dead"
    /\ hand' = NoId
    /\ UNCHANGED <<state, log, lead, todo, taken, closed, aborting, sent>>

(* RunManager.resume builds its Run without `correctable`: the resumed     *)
(* runner neither polls for corrections nor rejects them.                  *)
Resume ==
    /\ "resume" \in Actors
    /\ loop = "dead" /\ state = "live"
    /\ loop' = "deaf"
    /\ UNCHANGED <<state, log, lead, todo, hand, taken, closed, aborting, sent>>

ResumedEnds ==
    /\ loop = "deaf"
    /\ state' = "terminal"
    /\ loop' = "over"
    /\ UNCHANGED <<log, lead, todo, hand, taken, closed, aborting, sent>>

Runner ==
    \/ Spawned \/ Poll \/ Claim \/ SkipClaim \/ PollDone \/ Send \/ Record \/ StreamEnds
    \/ End \/ Close \/ CloseAborted \/ Reject \/ AbortClaim

Next ==
    \/ \E l \in Leads : Ask(l) \/ Queue(l)
    \/ Runner
    \/ Stop \/ Interrupt \/ Crash \/ Resume \/ ResumedEnds

Spec == Init /\ [][Next]_vars

(* A living runner goes on, a lock that is asked for on every tick is had  *)
(* in the end, and the worker of a stopped run, which wao stop kills and   *)
(* wao settle has proved gone, ends its stream.                            *)
FairSpec ==
    /\ Spec
    /\ WF_vars(Runner)
    /\ SF_vars(Claim)
    /\ SF_vars(StreamEnds /\ state = "terminal")

-----------------------------------------------------------------------------
Types == {"requested", "claimed", "delivered", "delivery_failed", "rejected"}

Places == {"spawning", "unspawned", "polling", "claiming", "sending", "recording", "ended",
           "cleaning", "rejecting", "over", "dead", "deaf"}

Entries == [type : Types, id : Ids, prompt : Prompts \cup {"none"}]

Outcomes == {"queued", "pending", "delivered", "rejected", "duplicate", "not_ready", "terminal_run"}

Calls ==
    [at : {"idle"}]
    \cup [at : {"queueing"}, id : Ids, prompt : Prompts]
    \cup [at : {"answered"}, id : Ids, prompt : Prompts, outcome : Outcomes]

TypeOK ==
    /\ state \in {"pending", "live", "terminal"}
    /\ log \subseteq Entries
    /\ lead \in [Leads -> Calls]
    /\ loop \in Places
    /\ todo \subseteq Ids
    /\ hand \in Ids \cup {NoId}
    /\ hand # NoId <=> loop \in {"sending", "recording"}
    /\ taken \in BOOLEAN
    /\ closed \in {"no", "rejecting", "done", "lost"}
    /\ aborting \in {"no", "killing", "cleaning", "rejecting", "over"}
    /\ sent \in [Ids -> Nat]

(* The correction id is an exactly-once key: a turn never reaches the      *)
(* provider twice, whatever crashes, times out or is repeated.             *)
SentOnce == \A id \in Ids : sent[id] <= 1

(* A Lead that is told its correction is queued, pending or delivered is   *)
(* told so of its own words, however many Leads use the id.                *)
NobodyMisled ==
    \A l \in Leads :
        lead[l].at = "answered" /\ lead[l].outcome \in {"queued", "pending", "delivered"}
        => Entry("requested", lead[l].id, lead[l].prompt) \in log

(* Once the cleanup has rejected what was outstanding nothing is ever      *)
(* outstanding again, unless the run was interrupted.                      *)
ClosedIsSettled == closed = "done" /\ aborting = "no" => Outstanding = {}

(* The runner died, or was interrupted, or its cleanup could not write. *)
Disturbed ==
    \/ loop \in {"dead", "deaf"} \/ (loop = "over" /\ closed = "no")
    \/ closed = "lost"
    \/ aborting # "no"

(* A queued correction does not stay pending: it is claimed or rejected.   *)
PendingIsHandled ==
    \A id \in Ids : Pending(id) ~> (~Pending(id) \/ Disturbed)
=============================================================================
