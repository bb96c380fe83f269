------------------------ MODULE SerializedVerification ------------------------
(***************************************************************************)
(* What verifyDelivery is promised by its gate (src/src/                   *)
(* deliveryVerification.js:483-503): verifications take turns as long as   *)
(* nothing goes wrong.  Something wrong (a death, a suspension, a hang, an *)
(* I/O error, a lease removed by hand) may cost the taking of turns, and   *)
(* only then may a verification go on without the gate.                    *)
(***************************************************************************)
CONSTANT Verifiers

VARIABLES
    turn,        \* out, waiting, holding (with the lease), open (without), past
    disturbed    \* something has gone wrong

promiseVars == <<turn, disturbed>>

Turns == {"out", "waiting", "holding", "open", "past"}

PromiseInit ==
    /\ turn = [v \in Verifiers |-> "out"]
    /\ disturbed = FALSE

Move(v, from, to) ==
    /\ turn[v] \in from
    /\ turn' = [turn EXCEPT ![v] = to]

Call(v) == Move(v, {"out"}, "waiting") /\ UNCHANGED disturbed

Enter(v) ==
    /\ disturbed \/ \A w \in Verifiers : turn[w] # "holding"
    /\ Move(v, {"waiting"}, "holding")
    /\ UNCHANGED disturbed

FailOpen(v) == disturbed' /\ Move(v, {"waiting"}, "open")

Leave(v) == Move(v, {"holding", "open"}, "past") /\ disturbed' \in {disturbed, TRUE}

Die(v) == disturbed' /\ Move(v, {"waiting", "holding", "open", "past"}, "past")

Disturb == disturbed' /\ UNCHANGED turn

PromiseNext ==
    \/ Disturb
    \/ \E v \in Verifiers : Call(v) \/ Enter(v) \/ FailOpen(v) \/ Leave(v) \/ Die(v)

PromiseSpec == PromiseInit /\ [][PromiseNext]_promiseVars
=============================================================================
