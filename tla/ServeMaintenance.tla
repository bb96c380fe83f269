--------------------------- MODULE ServeMaintenance ---------------------------
(***************************************************************************)
(* The life of the kimi serve on its port: dispatches start it on demand   *)
(* under the start lock (backends/kimiServeStart.js) and then talk to it   *)
(* (backends/kimiWeb.js), a watcher asks it to exit when it has been idle  *)
(* (backends/kimiServeIdleWatch.js), and `wao serve recycle` replaces it   *)
(* (application/serveMaintenance.js).  Nothing is locked while a dispatch  *)
(* talks to a serve that answers, and kimi does not fail on a port that is *)
(* taken: it binds the next one and runs on beside the other.              *)
(*                                                                         *)
(* A watcher is named by the serve it watches.  Time is abstracted to the  *)
(* order of steps, with four facts kept: a lock in the hands of a live     *)
(* dispatch or watcher does not reach its 120 s; a serve comes up within   *)
(* the ready deadline, unless "slow"; a watcher's threshold and its last   *)
(* blind tick are longer than even a slow start; and a new session gets    *)
(* its prompt before the second look, a poll or a soak later, that could   *)
(* see it.                                                                 *)
(***************************************************************************)
EXTENDS Integers

CONSTANTS
    Dispatches,  \* dispatches of a kimi-web lane
    Declaring,   \* those whose lane declares serveWorkspaceDir
    Resuming,    \* those that continue a session of an earlier run
    Leased,      \* those whose run holds an owner lease (listRuns activeOnly)
    Serves,      \* kimi web processes, and the idle watcher of each
    First,       \* the serve that may be there at the start
    Recycler,    \* `wao serve recycle`
    Nobody,      \* no serve
    NoLock,      \* the start lock file is absent
    NoLook,      \* the session lists have not been read
    IdlePolls,   \* IDLE_WATCH_IDLE_THRESHOLD_MS in polls
    Crashing,    \* the serves that may crash
    Dying,       \* the dispatches and the recycle that may be killed in Holding
    Faults       \* of "slow", "nospawn"

ASSUME ActorsDistinct ==
    /\ Declaring \subseteq Dispatches /\ Resuming \subseteq Dispatches
    /\ Leased \subseteq Dispatches /\ First \in Serves
    /\ Dispatches \cap Serves = {} /\ Recycler \notin Dispatches \cup Serves
    /\ Nobody \notin Dispatches \cup Serves \cup {Recycler}
    /\ \A seen \in SUBSET Dispatches : NoLook # seen
ASSUME CountsArePositive == IdlePolls \in Nat \ {0}

VARIABLES
    at,      \* where each dispatch, watcher and the recycle is
    serve,   \* each kimi web process
    turn,    \* each dispatch's session and turn, as the serve keeps them
    look,    \* what the last read of the session lists showed (prevIds, before)
    quiet,   \* the polls since lastActiveAt, of each watcher
    lock,    \* the start lock file: pid and nonce, childPid, and its age
    child,   \* the process a dispatch or the recycle has spawned and not seen yet
    inst     \* the instance the recycle has picked
vars == <<at, serve, turn, look, quiet, lock, child, inst>>

Launchers == Dispatches \cup {Recycler}
Lookers == Serves \cup {Recycler}
Actors == Dispatches \cup Lookers
ServeStates == {"unborn", "starting", "up", "beside", "stray", "closing", "crashed", "gone"}
Turns == {"none", "created", "busy", "over"}
Places == {"off", "idle", "waiting", "asking", "unlinking", "retrying", "locked", "launching",
           "recording", "started", "ensured", "talking", "supervising", "failed", "dead",
           "polling", "posting", "leaving", "left",
           "looking", "reviving", "revived", "soaking", "closing", "downing", "done"}
Looks == (SUBSET Dispatches) \cup {NoLook}
Locks == [owner : Actors, child : Serves \cup {Nobody}, stale : BOOLEAN]

(***************************************************************************)
(* What the others can see: the port, the instance records, the processes  *)
(* and the session lists.                                                  *)
(***************************************************************************)
Up == {s \in Serves : serve[s] = "up"}
Answers == Up # {}
Alive(s) == s \in Serves /\ serve[s] \in {"starting", "up", "beside", "stray", "closing"}
AtPort(s) == serve[s] \in {"up", "closing", "crashed"}
LiveInstance == \E s \in Serves : AtPort(s) /\ Alive(s)

\* The dispatches whose session or turn a read shows; a continued session is
\* in the lists before.
Seen == {d \in Dispatches : turn[d] # "none"}
NewIds(x) == (Seen \ look[x]) \ Resuming # {}
Busy == \E d \in Dispatches : turn[d] = "busy"
\* One poll interval or soak is longer than the way from a session to its prompt.
Prompted(x) ==
    look[x] # NoLook => \A d \in Dispatches :
      ~(d \in look[x] /\ turn[d] = "created" /\ at[d] = "talking")

\* A dispatch's process lives as long as its run, and the run as its turn.
Running(d) == at[d] \notin {"idle", "failed", "dead"} /\ turn[d] # "over"
HolderAlive(a) ==
    CASE a \in Dispatches -> Running(a)
      [] a \in Serves     -> at[a] # "left"
      [] OTHER            -> at[a] \notin {"done", "dead"}

Goto(a, place) == at' = [at EXCEPT ![a] = place]
Release(a) == lock' = IF lock # NoLock /\ lock.owner = a THEN NoLock ELSE lock

\* A serve that is asked to exit stops listening and takes its turns with it.
Closed(s) == [serve EXCEPT ![s] = "closing"]
TurnsWithout(s) ==
    [d \in Dispatches |-> IF serve[s] = "up" /\ turn[d] = "busy" THEN "over" ELSE turn[d]]
Shut(s) == serve' = Closed(s) /\ turn' = TurnsWithout(s)

ServeTypeOK ==
    /\ at \in [Actors -> Places]
    /\ serve \in [Serves -> ServeStates]
    /\ turn \in [Dispatches -> Turns]
    /\ look \in [Lookers -> Looks]
    /\ quiet \in [Serves -> 0..IdlePolls]
    /\ lock \in Locks \cup {NoLock}
    /\ child \in [Launchers -> Serves \cup {Nobody}]
    /\ inst \in Serves \cup {Nobody}

Init ==
    /\ \E s0 \in {"unborn", "up", "crashed"}, w0 \in {"off", "polling"} :
         /\ w0 = "polling" => s0 = "up"
         /\ serve = [s \in Serves |-> IF s = First THEN s0 ELSE "unborn"]
         /\ at = [a \in Actors |-> CASE a = First -> w0
                                     [] a \in Serves \ {First} -> "off"
                                     [] a \in Declaring \cup {Recycler} -> "idle"
                                     [] OTHER -> "ensured"]
    /\ turn = [d \in Dispatches |-> "none"]
    /\ look = [x \in Lookers |-> NoLook]
    /\ quiet = [s \in Serves |-> 0]
    /\ lock = NoLock
    /\ child = [l \in Launchers |-> Nobody]
    /\ inst = Nobody

(***************************************************************************)
(* kimi web                                                                *)
(***************************************************************************)
\* A process that finds the port taken runs on beside the other; it is a stray
\* when its launcher has by then stopped looking for it.
Bind(s) ==
    /\ serve[s] = "starting"
    /\ serve' = [serve EXCEPT ![s] = IF ~Answers THEN "up"
                                    ELSE IF \E l \in Launchers : child[l] = s THEN "beside"
                                    ELSE "stray"]
    /\ UNCHANGED <<at, turn, look, quiet, lock, child, inst>>

Exit(s) ==
    /\ serve[s] = "closing"
    /\ serve' = [serve EXCEPT ![s] = "gone"]
    /\ UNCHANGED <<at, turn, look, quiet, lock, child, inst>>

ServeCrash(s) ==
    /\ s \in Crashing
    /\ serve[s] = "up"
    /\ serve' = [serve EXCEPT ![s] = "crashed"]
    /\ turn' = TurnsWithout(s)
    /\ UNCHANGED <<at, look, quiet, lock, child, inst>>

TurnEnds(d) ==
    /\ turn[d] = "busy"
    /\ turn' = [turn EXCEPT ![d] = "over"]
    /\ UNCHANGED <<at, serve, look, quiet, lock, child, inst>>

LockAges ==
    /\ lock # NoLock /\ ~lock.stale
    /\ ~HolderAlive(lock.owner) \/ lock.owner = Recycler
    /\ "slow" \in Faults \/ \A s \in Serves : serve[s] # "starting"
    /\ lock' = [lock EXCEPT !.stale = TRUE]
    /\ UNCHANGED <<at, serve, turn, look, quiet, child, inst>>

(***************************************************************************)
(* acquireServeStartLock: at most two attempts to create the file, with    *)
(* one judgement of what is there in between.  The unlink takes whatever   *)
(* is at the path by then.                                                 *)
(***************************************************************************)
Waits(a) == IF a \in Dispatches THEN "waiting" ELSE "polling"
Takeable(a) == lock.stale /\ ~Alive(lock.child) /\ (a \in Serves => ~HolderAlive(lock.owner))

Create(a) ==
    /\ at[a] \in {"asking", "retrying"}
    /\ lock = NoLock
    /\ lock' = [owner |-> a, child |-> Nobody, stale |-> FALSE]
    /\ Goto(a, "locked")
    /\ UNCHANGED <<serve, turn, look, quiet, child, inst>>

Judge(a) ==
    /\ at[a] = "asking"
    /\ lock # NoLock
    /\ Goto(a, IF Takeable(a) THEN "unlinking" ELSE Waits(a))
    /\ UNCHANGED <<serve, turn, look, quiet, lock, child, inst>>

Unlink(a) ==
    /\ at[a] = "unlinking"
    /\ lock' = NoLock
    /\ Goto(a, "retrying")
    /\ UNCHANGED <<serve, turn, look, quiet, child, inst>>

LoseAgain(a) ==
    /\ at[a] = "retrying"
    /\ lock # NoLock
    /\ Goto(a, Waits(a))
    /\ UNCHANGED <<serve, turn, look, quiet, lock, child, inst>>

\* Where an acquirer may leave a lock behind when it is killed.
Holding == {"locked", "closing", "downing", "launching", "recording", "started"}

Acquire(a) == Create(a) \/ Judge(a) \/ Unlink(a) \/ LoseAgain(a)

(***************************************************************************)
(* settleOwnServeChild: where the spawned process has landed.  Seen on     *)
(* another port it is asked to exit; not seen, it is left alone.           *)
(***************************************************************************)
Displaced(l) == child[l] # Nobody /\ serve[child[l]] = "beside"
Settled(l) == child[l] # Nobody => serve[child[l]] # "starting" \/ "slow" \in Faults
SettleChild(l) ==
    /\ Settled(l)
    /\ IF Displaced(l) THEN Shut(child[l]) ELSE UNCHANGED <<serve, turn>>
    /\ child' = [child EXCEPT ![l] = Nobody]

\* spawnServeDetached; pids are interchangeable.
Unborn == {s \in Serves : serve[s] = "unborn"}
SpawnServe(l) ==
    /\ Unborn # {}
    /\ LET s == CHOOSE s \in Unborn : TRUE
       IN  serve' = [serve EXCEPT ![s] = "starting"] /\ child' = [child EXCEPT ![l] = s]

(***************************************************************************)
(* A dispatch: ensureServeRunning, then the session and its prompt.        *)
(***************************************************************************)
Probe(d) ==
    /\ at[d] \in {"idle", "waiting"}
    /\ \/ Answers /\ Goto(d, "ensured")
       \/ ~Answers /\ at[d] = "idle" /\ Goto(d, "waiting")
       \/ ~Answers /\ at[d] = "waiting" /\ ~LiveInstance /\ Goto(d, "asking")
    /\ UNCHANGED <<serve, turn, look, quiet, lock, child, inst>>

\* The probe after the lock: an earlier holder may just have started it.
Reprobe(d) ==
    /\ at[d] = "locked"
    /\ \/ Answers /\ Goto(d, "ensured") /\ Release(d)
       \/ ~Answers /\ Goto(d, "launching") /\ UNCHANGED lock
    /\ UNCHANGED <<serve, turn, look, quiet, child, inst>>

Launch(d) ==
    /\ at[d] = "launching"
    /\ SpawnServe(d)
    /\ Goto(d, "recording")
    /\ UNCHANGED <<turn, look, quiet, lock, inst>>

LaunchFails(d) ==
    /\ at[d] = "launching"
    /\ "nospawn" \in Faults \/ Unborn = {}
    /\ Goto(d, "failed")
    /\ Release(d)
    /\ UNCHANGED <<serve, turn, look, quiet, child, inst>>

\* writeFileSync without a look: the lock is this dispatch's again, and fresh.
RecordChild(d) ==
    /\ at[d] = "recording"
    /\ lock' = [owner |-> d, child |-> child[d], stale |-> FALSE]
    /\ Goto(d, "started")
    /\ UNCHANGED <<serve, turn, look, quiet, child, inst>>

\* Mutant of Answered: where the own child has landed is not looked at.
AnsweredUnsettled(d) ==
    /\ at[d] = "started"
    /\ Answers
    /\ child' = [child EXCEPT ![d] = Nobody]
    /\ at' = [at EXCEPT ![d] = "ensured", ![child[d]] = "polling"]
    /\ Release(d)
    /\ UNCHANGED <<serve, turn, look, quiet, inst>>

Answered(d) ==
    /\ at[d] = "started"
    /\ Answers
    /\ SettleChild(d)
    /\ at' = [at EXCEPT ![d] = "ensured",
                        ![child[d]] = IF Displaced(d) THEN @ ELSE "polling"]
    /\ Release(d)
    /\ UNCHANGED <<look, quiet, inst>>

\* The deadline.  The lock stays, with the child in it, unless the child was
\* seen on another port.
GiveUp(d) ==
    /\ at[d] \in {"waiting", "locked"}
    /\ ~Answers
    /\ Goto(d, "failed")
    /\ Release(d)
    /\ UNCHANGED <<serve, turn, look, quiet, child, inst>>

GiveUpStarted(d) ==
    /\ at[d] = "started"
    /\ ~Answers
    /\ SettleChild(d)
    /\ Goto(d, "failed")
    /\ IF Displaced(d) THEN Release(d) ELSE UNCHANGED lock
    /\ UNCHANGED <<look, quiet, inst>>

CreateSession(d) ==
    /\ at[d] = "ensured" /\ d \notin Resuming
    /\ Answers
    /\ turn' = [turn EXCEPT ![d] = "created"]
    /\ Goto(d, "talking")
    /\ UNCHANGED <<serve, look, quiet, lock, child, inst>>

SendPrompt(d) ==
    /\ at[d] = IF d \in Resuming THEN "ensured" ELSE "talking"
    /\ Answers
    /\ turn' = [turn EXCEPT ![d] = "busy"]
    /\ Goto(d, "supervising")
    /\ UNCHANGED <<serve, look, quiet, lock, child, inst>>

RequestFails(d) ==
    /\ at[d] \in {"ensured", "talking"}
    /\ ~Answers
    /\ Goto(d, "failed")
    /\ UNCHANGED <<serve, turn, look, quiet, lock, child, inst>>

Die(d) ==
    /\ d \in Dying
    /\ at[d] \in Holding
    /\ Goto(d, "dead")
    /\ UNCHANGED <<serve, turn, look, quiet, lock, child, inst>>

DispatchStep(d) ==
    \/ Acquire(d) \/ Probe(d) \/ Reprobe(d) \/ Launch(d) \/ LaunchFails(d) \/ RecordChild(d)
    \/ Answered(d) \/ CreateSession(d) \/ SendPrompt(d) \/ RequestFails(d)

(***************************************************************************)
(* The watcher of s: watchServeIdle                                        *)
(***************************************************************************)
\* A read of both lists; it fails when nothing listens.
Reads == Answers
Unreadable == ~Answers

Leave(s) ==
    /\ Goto(s, "left")
    /\ look' = [look EXCEPT ![s] = NoLook]
    /\ quiet' = [quiet EXCEPT ![s] = 0]

\* A tick on which the token or the lists cannot be read does not count as
\* idle, and some such tick in a row (TOKEN_UNREADABLE_TICKS,
\* UNOBSERVABLE_TICKS) is the last.
Miss(s) ==
    \/ serve[s] # "starting" /\ Leave(s)
    \/ Goto(s, "polling") /\ quiet' = [quiet EXCEPT ![s] = 0] /\ UNCHANGED look

PollGone(s) ==
    /\ at[s] = "polling"
    /\ ~Alive(s)
    /\ Leave(s)
    /\ UNCHANGED <<serve, turn, lock, child, inst>>

PollBlind(s) ==
    /\ at[s] = "polling"
    /\ Alive(s) /\ Unreadable
    /\ Miss(s)
    /\ UNCHANGED <<serve, turn, lock, child, inst>>

Active(s) == Busy \/ NewIds(s)
\* No time has passed at the first look.
Idled(s) ==
    IF look[s] = NoLook \/ Active(s) THEN 0
    ELSE IF quiet[s] < IdlePolls THEN quiet[s] + 1 ELSE quiet[s]

Poll(s) ==
    /\ at[s] = "polling"
    /\ Alive(s) /\ Reads /\ Prompted(s)
    /\ serve[s] = "starting" => Idled(s) < IdlePolls
    /\ look' = [look EXCEPT ![s] = Seen]
    /\ quiet' = [quiet EXCEPT ![s] = Idled(s)]
    /\ Goto(s, IF Idled(s) = IdlePolls THEN "asking" ELSE "polling")
    /\ UNCHANGED <<serve, turn, lock, child, inst>>

RecheckBlind(s) ==
    /\ at[s] = "locked"
    /\ Unreadable
    /\ Miss(s)
    /\ Release(s)
    /\ UNCHANGED <<serve, turn, child, inst>>

\* Mutant of Recheck: only a busy session counts as activity.
RecheckBusyOnly(s) ==
    /\ at[s] = "locked"
    /\ Reads
    /\ look' = [look EXCEPT ![s] = Seen]
    /\ IF Busy
       THEN Goto(s, "polling") /\ quiet' = [quiet EXCEPT ![s] = 0] /\ Release(s)
       ELSE Goto(s, "posting") /\ UNCHANGED <<quiet, lock>>
    /\ UNCHANGED <<serve, turn, child, inst>>

\* Mutant of Recheck: going on with the watch, it keeps the lock.
RecheckHolding(s) ==
    /\ at[s] = "locked"
    /\ Reads
    /\ look' = [look EXCEPT ![s] = Seen]
    /\ IF Active(s)
       THEN Goto(s, "polling") /\ quiet' = [quiet EXCEPT ![s] = 0] /\ UNCHANGED lock
       ELSE Goto(s, "posting") /\ UNCHANGED <<quiet, lock>>
    /\ UNCHANGED <<serve, turn, child, inst>>

Recheck(s) ==
    /\ at[s] = "locked"
    /\ Reads
    /\ look' = [look EXCEPT ![s] = Seen]
    /\ IF Active(s)
       THEN Goto(s, "polling") /\ quiet' = [quiet EXCEPT ![s] = 0] /\ Release(s)
       ELSE /\ Goto(s, IF Alive(s) /\ AtPort(s) THEN "posting" ELSE "leaving")
            /\ UNCHANGED <<quiet, lock>>
    /\ UNCHANGED <<serve, turn, child, inst>>

\* POST /api/v1/shutdown goes to the port, not to the process.
Post(s) ==
    /\ at[s] = "posting"
    /\ \E t \in Up : Shut(t)
    /\ Goto(s, "leaving")
    /\ UNCHANGED <<look, quiet, lock, child, inst>>

PostFails(s) ==
    /\ at[s] = "posting"
    /\ ~Answers
    /\ Goto(s, "leaving")
    /\ UNCHANGED <<serve, turn, look, quiet, lock, child, inst>>

Finish(s) ==
    /\ at[s] = "leaving"
    /\ Leave(s)
    /\ Release(s)
    /\ UNCHANGED <<serve, turn, child, inst>>

WatchStep(s) ==
    \/ Acquire(s) \/ PollGone(s) \/ PollBlind(s) \/ Poll(s) \/ RecheckBlind(s)
    \/ Recheck(s) \/ Post(s) \/ PostFails(s) \/ Finish(s)

(***************************************************************************)
(* recycleServe                                                            *)
(***************************************************************************)
R == Recycler
ActiveRun(d) == d \in Leased /\ Running(d)

\* pickInstanceByPort prefers a record whose process is alive.
Picked == {s \in Serves : AtPort(s) /\ (LiveInstance => Alive(s))}

\* Every exit forgets what it saw and gives the lock up, if it holds it.
Quit ==
    /\ Goto(R, "done")
    /\ Release(R)
    /\ look' = [look EXCEPT ![R] = NoLook]
    /\ inst' = Nobody

Begin ==
    /\ at[R] = "idle"
    /\ Picked # {} /\ \A d \in Dispatches : ~ActiveRun(d)
    /\ inst' \in Picked
    /\ Goto(R, "looking")
    /\ UNCHANGED <<serve, turn, look, quiet, lock, child>>

\* no_instance, active_runs
Refuse ==
    /\ at[R] = "idle"
    /\ Picked = {} \/ \E d \in Dispatches : ActiveRun(d)
    /\ Quit
    /\ UNCHANGED <<serve, turn, quiet, child>>

Before ==
    /\ at[R] = "looking"
    /\ \/ /\ Answers
          /\ look' = [look EXCEPT ![R] = Seen]
          /\ Goto(R, "soaking")
          /\ UNCHANGED <<lock, inst>>
       \/ /\ ~Answers /\ ~Alive(inst)
          /\ Goto(R, "reviving")
          /\ UNCHANGED <<look, lock, inst>>
       \/ ~Answers /\ Alive(inst) /\ Quit
    /\ UNCHANGED <<serve, turn, quiet, child>>

\* holdServeStartLock writes the lock whoever holds it.
HoldLock == lock' = [owner |-> R, child |-> Nobody, stale |-> FALSE]

\* Nothing listens and the recorded process is dead: looked at twice, and not
\* again after the soak.
Revive ==
    /\ at[R] = "reviving"
    /\ \/ ~Answers /\ Goto(R, "revived") /\ UNCHANGED <<look, lock, inst>>
       \/ Answers /\ Quit
    /\ UNCHANGED <<serve, turn, quiet, child>>

Revived ==
    /\ at[R] = "revived"
    /\ Goto(R, "launching")
    /\ HoldLock
    /\ inst' = Nobody
    /\ UNCHANGED <<serve, turn, look, quiet, child>>

Soak ==
    /\ at[R] = "soaking"
    /\ Prompted(R)
    /\ IF Answers /\ ~Busy /\ ~NewIds(R)
       THEN /\ look' = [look EXCEPT ![R] = Seen]
            /\ Goto(R, "closing")
            /\ HoldLock
            /\ UNCHANGED inst
       ELSE Quit
    /\ UNCHANGED <<serve, turn, quiet, child>>

Close ==
    /\ at[R] = "closing"
    /\ \/ (\E t \in Up : Shut(t)) /\ Goto(R, "downing") /\ UNCHANGED <<look, lock, inst>>
       \/ ~Answers /\ Quit /\ UNCHANGED <<serve, turn>>
    /\ UNCHANGED <<quiet, child>>

\* The port is down, or the picked process is killed, which may fail.
Down ==
    /\ at[R] = "downing"
    /\ \/ UNCHANGED <<serve, turn>>
       \/ /\ Answers
          /\ serve' = IF Alive(inst) THEN [serve EXCEPT ![inst] = "crashed"] ELSE serve
          /\ turn' = TurnsWithout(inst)
    /\ Goto(R, "launching")
    /\ look' = [look EXCEPT ![R] = NoLook]
    /\ inst' = Nobody
    /\ UNCHANGED <<quiet, lock, child>>

Restart ==
    /\ at[R] = "launching"
    /\ SpawnServe(R)
    /\ Goto(R, "started")
    /\ UNCHANGED <<turn, look, quiet, lock, inst>>

RestartFails ==
    /\ at[R] = "launching"
    /\ "nospawn" \in Faults \/ Unborn = {}
    /\ Quit
    /\ UNCHANGED <<serve, turn, quiet, child>>

\* Only the own child, seen at the port, gets a watcher.
Ready ==
    /\ at[R] = "started"
    /\ SettleChild(R)
    /\ at' = [at EXCEPT ![R] = "done",
                        ![child[R]] = IF AtPort(child[R]) /\ Alive(child[R]) THEN "polling" ELSE @]
    /\ Release(R)
    /\ UNCHANGED <<look, quiet, inst>>

RecyclerDies ==
    /\ R \in Dying
    /\ at[R] \in Holding
    /\ at' = [at EXCEPT ![R] = "dead"]
    /\ look' = [look EXCEPT ![R] = NoLook]
    /\ inst' = Nobody
    /\ UNCHANGED <<serve, turn, quiet, lock, child>>

RecycleStep ==
    \/ Before \/ Revive \/ Revived \/ Soak \/ Close \/ Down \/ Restart \/ RestartFails \/ Ready

Next ==
    \/ \E s \in Serves : Bind(s) \/ Exit(s) \/ ServeCrash(s) \/ WatchStep(s)
    \/ \E d \in Dispatches :
         TurnEnds(d) \/ DispatchStep(d) \/ GiveUp(d) \/ GiveUpStarted(d) \/ Die(d)
    \/ LockAges \/ Begin \/ Refuse \/ RecycleStep \/ RecyclerDies
Spec == Init /\ [][Next]_vars

(***************************************************************************)
(* Processes take their next step, kimi binds and exits, turns end, locks  *)
(* age, and a deadline that keeps being checked passes.                    *)
(***************************************************************************)
Fairness ==
    /\ \A s \in Serves : WF_vars(Bind(s) \/ Exit(s)) /\ WF_vars(WatchStep(s))
    /\ \A d \in Dispatches :
         /\ WF_vars(TurnEnds(d))
         /\ WF_vars(at[d] # "idle" /\ DispatchStep(d))
         /\ SF_vars(GiveUp(d) \/ GiveUpStarted(d))
    /\ WF_vars(LockAges)
    /\ WF_vars(RecycleStep)
FairSpec == Spec /\ Fairness

-----------------------------------------------------------------------------
(* A turn that goes with its serve, save in a crash or a forced kill, was   *)
(* started after the last look of the watcher or recycle that closed the    *)
(* serve: nobody shuts down on a turn, or on a session on its way to its    *)
(* first prompt, that its lists could show.                                 *)
CutTurnsAreLate ==
    [][\A d \in Dispatches : turn[d] = "busy" /\ turn'[d] = "over" /\ serve' # serve =>
           \/ \E s \in Serves : serve[s] # "crashed" /\ serve'[s] = "crashed"
           \/ \E x \in Lookers : /\ at[x] \in {"posting", "closing"} /\ at'[x] # at[x]
                                /\ d \notin look[x]]_vars

(* A serve that found its port taken is in the end asked to exit by who     *)
(* launched it, unless that one was killed.                                 *)
SurplusLeaves ==
    <>[](\A s \in Serves : serve[s] = "beside" =>
             \E l \in Launchers : child[l] = s /\ at[l] = "dead")

(* Once the work is done no serve with a watcher stays up, whoever died or  *)
(* crashed on the way, save beside a lock left behind with a live child,    *)
(* which no watcher takes over.                                             *)
LeftBehind == lock # NoLock /\ ~HolderAlive(lock.owner) /\ Alive(lock.child)
IdleServeExits ==
    <>[](\A s \in Serves : serve[s] = "up" => at[s] = "off" \/ LeftBehind)
===============================================================================
