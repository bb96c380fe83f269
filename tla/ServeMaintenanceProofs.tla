------------------------ MODULE ServeMaintenanceProofs ------------------------
(***************************************************************************)
(* For any dispatches and any number of serves: neither a watcher nor the  *)
(* recycle shuts a serve down on a turn, or on a session on its way to its *)
(* first prompt, that its last look at the lists could show.               *)
(***************************************************************************)
EXTENDS ServeMaintenance, TLAPS

(* How far a dispatch has come with its session and turn. *)
Turned ==
    \A d \in Dispatches :
        /\ at[d] \notin {"talking", "supervising", "failed"} => turn[d] = "none"
        /\ at[d] = "talking" => turn[d] = "created"
        /\ d \in Resuming => turn[d] # "created"

(* No turn of d is under way, or can still start. *)
Parked(d) == turn[d] = "over" \/ (turn[d] = "created" /\ at[d] # "talking")

(* Where a watcher or the recycle means to close the serve. *)
Intent == {"asking", "unlinking", "retrying", "locked", "posting", "closing"}

(* Who means to close the serve has looked, and all it saw is parked. *)
Looked ==
    /\ at[Recycler] = "soaking" => look[Recycler] # NoLook
    /\ \A x \in Lookers : at[x] \in Intent =>
           look[x] # NoLook /\ \A d \in look[x] : Parked(d)

Inv == ServeTypeOK /\ Turned /\ Looked

(* Every step keeps the types. *)
LEMMA TypeStep ==
    ASSUME ServeTypeOK, [Next]_vars PROVE ServeTypeOK'
<1> USE ActorsDistinct, CountsArePositive
<1>a. NoLook \in Looks /\ Seen \in Looks
  BY DEF Looks, Seen
<1> USE <1>a DEF vars, ServeTypeOK, Actors, Launchers, Lookers, Places, ServeStates, Turns, Locks
<1>1. ASSUME NEW s \in Serves, Bind(s) PROVE ServeTypeOK'
  BY <1>1 DEF Bind
<1>2. ASSUME NEW s \in Serves, Exit(s) PROVE ServeTypeOK'
  BY <1>2 DEF Exit
<1>3. ASSUME NEW s \in Serves, ServeCrash(s) PROVE ServeTypeOK'
  BY <1>3 DEF ServeCrash, TurnsWithout
<1>4. ASSUME NEW a \in Dispatches \cup Serves, Create(a) PROVE ServeTypeOK'
  BY <1>4 DEF Create, Goto
<1>5. ASSUME NEW a \in Dispatches \cup Serves, Judge(a) PROVE ServeTypeOK'
  BY <1>5 DEF Judge, Goto, Waits
<1>6. ASSUME NEW a \in Dispatches \cup Serves, Unlink(a) PROVE ServeTypeOK'
  BY <1>6 DEF Unlink, Goto
<1>7. ASSUME NEW a \in Dispatches \cup Serves, LoseAgain(a) PROVE ServeTypeOK'
  BY <1>7 DEF LoseAgain, Goto, Waits
<1>8. ASSUME NEW d \in Dispatches, Probe(d) PROVE ServeTypeOK'
  BY <1>8 DEF Probe, Goto
<1>9. ASSUME NEW d \in Dispatches, Reprobe(d) PROVE ServeTypeOK'
  BY <1>9 DEF Reprobe, Goto, Release
<1>10. ASSUME NEW d \in Dispatches, Launch(d) PROVE ServeTypeOK'
  BY <1>10 DEF Launch, Goto, SpawnServe, Unborn
<1>11. ASSUME NEW d \in Dispatches, LaunchFails(d) PROVE ServeTypeOK'
  BY <1>11 DEF LaunchFails, Goto, Release
<1>12. ASSUME NEW d \in Dispatches, RecordChild(d) PROVE ServeTypeOK'
  BY <1>12 DEF RecordChild, Goto
<1>13. ASSUME NEW d \in Dispatches, Answered(d) PROVE ServeTypeOK'
  BY <1>13 DEF Answered, SettleChild, Shut, Closed, TurnsWithout, Release
<1>14. ASSUME NEW d \in Dispatches, CreateSession(d) PROVE ServeTypeOK'
  BY <1>14 DEF CreateSession, Goto
<1>15. ASSUME NEW d \in Dispatches, SendPrompt(d) PROVE ServeTypeOK'
  BY <1>15 DEF SendPrompt, Goto
<1>16. ASSUME NEW d \in Dispatches, RequestFails(d) PROVE ServeTypeOK'
  BY <1>16 DEF RequestFails, Goto
<1>17. ASSUME NEW d \in Dispatches, TurnEnds(d) PROVE ServeTypeOK'
  BY <1>17 DEF TurnEnds
<1>18. ASSUME NEW d \in Dispatches, GiveUp(d) PROVE ServeTypeOK'
  BY <1>18 DEF GiveUp, Goto, Release
<1>19. ASSUME NEW d \in Dispatches, GiveUpStarted(d) PROVE ServeTypeOK'
  BY <1>19 DEF GiveUpStarted, Goto, SettleChild, Shut, Closed, TurnsWithout, Release
<1>20. ASSUME NEW d \in Dispatches, Die(d) PROVE ServeTypeOK'
  BY <1>20 DEF Die, Goto
<1>21. ASSUME NEW s \in Serves, PollGone(s) PROVE ServeTypeOK'
  BY <1>21 DEF PollGone, Goto, Leave
<1>22. ASSUME NEW s \in Serves, PollBlind(s) PROVE ServeTypeOK'
  BY <1>22 DEF PollBlind, Goto, Leave, Miss
<1>23. ASSUME NEW s \in Serves, Poll(s) PROVE ServeTypeOK'
  BY <1>23 DEF Poll, Goto, Idled
<1>24. ASSUME NEW s \in Serves, RecheckBlind(s) PROVE ServeTypeOK'
  BY <1>24 DEF RecheckBlind, Goto, Leave, Miss, Release
<1>25. ASSUME NEW s \in Serves, Recheck(s) PROVE ServeTypeOK'
  BY <1>25 DEF Recheck, Goto, Release
<1>26. ASSUME NEW s \in Serves, Post(s) PROVE ServeTypeOK'
  BY <1>26 DEF Post, Goto, Shut, Closed, TurnsWithout, Up
<1>27. ASSUME NEW s \in Serves, PostFails(s) PROVE ServeTypeOK'
  BY <1>27 DEF PostFails, Goto
<1>28. ASSUME NEW s \in Serves, Finish(s) PROVE ServeTypeOK'
  BY <1>28 DEF Finish, Goto, Leave, Release
<1>29. ASSUME LockAges PROVE ServeTypeOK'
  BY <1>29 DEF LockAges
<1>30. ASSUME Begin PROVE ServeTypeOK'
  BY <1>30 DEF Begin, Goto, R, Picked
<1>31. ASSUME Refuse PROVE ServeTypeOK'
  BY <1>31 DEF Refuse, Goto, R, Quit, Release
<1>32. ASSUME Before PROVE ServeTypeOK'
  BY <1>32 DEF Before, Goto, R, Quit, Release
<1>33. ASSUME Revive PROVE ServeTypeOK'
  BY <1>33 DEF Revive, Goto, R, Quit, Release
<1>34. ASSUME Revived PROVE ServeTypeOK'
  BY <1>34 DEF Revived, Goto, R, HoldLock
<1>35. ASSUME Soak PROVE ServeTypeOK'
  <2>1. CASE Answers /\ ~Busy /\ ~NewIds(R)
    <3>1. at' \in [Actors -> Places]
      BY <1>35, <2>1 DEF Soak, Goto, R
    <3>2. look' \in [Lookers -> Looks]
      BY <1>35, <2>1 DEF Soak, R
    <3>3. lock' = [owner |-> Recycler, child |-> Nobody, stale |-> FALSE]
      BY <1>35, <2>1 DEF Soak, HoldLock, R
    <3>4. lock' \in Locks
      BY <3>3
    <3> QED BY <1>35, <2>1, <3>1, <3>2, <3>4 DEF Soak
  <2>2. CASE ~(Answers /\ ~Busy /\ ~NewIds(R))
    BY <1>35, <2>2 DEF Soak, Goto, R, Quit, Release
  <2> QED BY <2>1, <2>2
<1>36. ASSUME Close PROVE ServeTypeOK'
  BY <1>36 DEF Close, Goto, R, Quit, Release, Shut, Closed, TurnsWithout, Up
<1>37. ASSUME Down PROVE ServeTypeOK'
  BY <1>37 DEF Down, Goto, R, TurnsWithout, Alive
<1>38. ASSUME Restart PROVE ServeTypeOK'
  BY <1>38 DEF Restart, Goto, R, SpawnServe, Unborn
<1>39. ASSUME RestartFails PROVE ServeTypeOK'
  BY <1>39 DEF RestartFails, Goto, R, Quit, Release
<1>40. ASSUME Ready PROVE ServeTypeOK'
  <2>1. at' \in [Actors -> Places]
    BY <1>40 DEF Ready, R
  <2>2. serve' \in [Serves -> ServeStates] /\ turn' \in [Dispatches -> Turns]
    BY <1>40 DEF Ready, R, SettleChild, Displaced, Shut, Closed, TurnsWithout
  <2>3. child' \in [Launchers -> Serves \cup {Nobody}]
    BY <1>40 DEF Ready, R, SettleChild
  <2>4. lock' \in Locks \cup {NoLock}
    BY <1>40 DEF Ready, R, Release
  <2> QED BY <1>40, <2>1, <2>2, <2>3, <2>4 DEF Ready
<1>41. ASSUME RecyclerDies PROVE ServeTypeOK'
  BY <1>41 DEF RecyclerDies, R
<1>42. CASE UNCHANGED vars
  BY <1>42
<1> QED
  BY <1>1, <1>2, <1>3, <1>4, <1>5, <1>6, <1>7, <1>8, <1>9, <1>10, <1>11,
     <1>12, <1>13, <1>14, <1>15, <1>16, <1>17, <1>18, <1>19, <1>20, <1>21,
     <1>22, <1>23, <1>24, <1>25, <1>26, <1>27, <1>28, <1>29, <1>30, <1>31,
     <1>32, <1>33, <1>34, <1>35, <1>36, <1>37, <1>38, <1>39, <1>40, <1>41,
     <1>42
     DEF Next, DispatchStep, WatchStep, RecycleStep, Acquire

(* Every step keeps a dispatch's turn in line with where the dispatch is.  *)
LEMMA TurnedStep ==
    ASSUME ServeTypeOK, Turned, [Next]_vars PROVE Turned'
<1> USE ActorsDistinct
<1> USE DEF vars, ServeTypeOK, Actors, Launchers, Lookers, Turned
<1>1. ASSUME NEW s \in Serves, Bind(s) PROVE Turned'
  BY <1>1 DEF Bind
<1>2. ASSUME NEW s \in Serves, Exit(s) PROVE Turned'
  BY <1>2 DEF Exit
<1>3. ASSUME NEW s \in Serves, ServeCrash(s) PROVE Turned'
  BY <1>3 DEF ServeCrash, TurnsWithout
<1>4. ASSUME NEW a \in Dispatches \cup Serves, Create(a) PROVE Turned'
  BY <1>4 DEF Create, Goto
<1>5. ASSUME NEW a \in Dispatches \cup Serves, Judge(a) PROVE Turned'
  BY <1>5 DEF Judge, Goto, Waits
<1>6. ASSUME NEW a \in Dispatches \cup Serves, Unlink(a) PROVE Turned'
  BY <1>6 DEF Unlink, Goto
<1>7. ASSUME NEW a \in Dispatches \cup Serves, LoseAgain(a) PROVE Turned'
  BY <1>7 DEF LoseAgain, Goto, Waits
<1>8. ASSUME NEW d \in Dispatches, Probe(d) PROVE Turned'
  BY <1>8 DEF Probe, Goto
<1>9. ASSUME NEW d \in Dispatches, Reprobe(d) PROVE Turned'
  BY <1>9 DEF Reprobe, Goto, Release
<1>10. ASSUME NEW d \in Dispatches, Launch(d) PROVE Turned'
  BY <1>10 DEF Launch, Goto, SpawnServe, Unborn
<1>11. ASSUME NEW d \in Dispatches, LaunchFails(d) PROVE Turned'
  BY <1>11 DEF LaunchFails, Goto, Release
<1>12. ASSUME NEW d \in Dispatches, RecordChild(d) PROVE Turned'
  BY <1>12 DEF RecordChild, Goto
<1>13. ASSUME NEW d \in Dispatches, Answered(d) PROVE Turned'
  BY <1>13 DEF Answered, SettleChild, Shut, Closed, TurnsWithout, Release
<1>14. ASSUME NEW d \in Dispatches, CreateSession(d) PROVE Turned'
  BY <1>14 DEF CreateSession, Goto
<1>15. ASSUME NEW d \in Dispatches, SendPrompt(d) PROVE Turned'
  BY <1>15 DEF SendPrompt, Goto
<1>16. ASSUME NEW d \in Dispatches, RequestFails(d) PROVE Turned'
  BY <1>16 DEF RequestFails, Goto
<1>17. ASSUME NEW d \in Dispatches, TurnEnds(d) PROVE Turned'
  BY <1>17 DEF TurnEnds
<1>18. ASSUME NEW d \in Dispatches, GiveUp(d) PROVE Turned'
  BY <1>18 DEF GiveUp, Goto, Release
<1>19. ASSUME NEW d \in Dispatches, GiveUpStarted(d) PROVE Turned'
  BY <1>19 DEF GiveUpStarted, Goto, SettleChild, Shut, Closed, TurnsWithout, Release
<1>20. ASSUME NEW d \in Dispatches, Die(d) PROVE Turned'
  BY <1>20 DEF Die, Goto, Holding
<1>21. ASSUME NEW s \in Serves, PollGone(s) PROVE Turned'
  BY <1>21 DEF PollGone, Goto, Leave
<1>22. ASSUME NEW s \in Serves, PollBlind(s) PROVE Turned'
  BY <1>22 DEF PollBlind, Goto, Leave, Miss
<1>23. ASSUME NEW s \in Serves, Poll(s) PROVE Turned'
  BY <1>23 DEF Poll, Goto, Seen, Idled
<1>24. ASSUME NEW s \in Serves, RecheckBlind(s) PROVE Turned'
  BY <1>24 DEF RecheckBlind, Goto, Leave, Miss, Release
<1>25. ASSUME NEW s \in Serves, Recheck(s) PROVE Turned'
  BY <1>25 DEF Recheck, Goto, Seen, Release
<1>26. ASSUME NEW s \in Serves, Post(s) PROVE Turned'
  BY <1>26 DEF Post, Goto, Shut, Closed, TurnsWithout, Up
<1>27. ASSUME NEW s \in Serves, PostFails(s) PROVE Turned'
  BY <1>27 DEF PostFails, Goto
<1>28. ASSUME NEW s \in Serves, Finish(s) PROVE Turned'
  BY <1>28 DEF Finish, Goto, Leave, Release
<1>29. ASSUME LockAges PROVE Turned'
  BY <1>29 DEF LockAges
<1>30. ASSUME Begin PROVE Turned'
  BY <1>30 DEF Begin, Goto, R, Picked
<1>31. ASSUME Refuse PROVE Turned'
  BY <1>31 DEF Refuse, Goto, R, Quit, Release
<1>32. ASSUME Before PROVE Turned'
  BY <1>32 DEF Before, Goto, R, Quit, Release, Seen
<1>33. ASSUME Revive PROVE Turned'
  BY <1>33 DEF Revive, Goto, R, Quit, Release
<1>34. ASSUME Revived PROVE Turned'
  BY <1>34 DEF Revived, Goto, R, HoldLock
<1>35. ASSUME Soak PROVE Turned'
  BY <1>35 DEF Soak, Goto, R, Quit, Release, Seen, HoldLock
<1>36. ASSUME Close PROVE Turned'
  BY <1>36 DEF Close, Goto, R, Quit, Release, Shut, Closed, TurnsWithout, Up
<1>37. ASSUME Down PROVE Turned'
  BY <1>37 DEF Down, Goto, R, TurnsWithout, Alive
<1>38. ASSUME Restart PROVE Turned'
  BY <1>38 DEF Restart, Goto, R, SpawnServe, Unborn
<1>39. ASSUME RestartFails PROVE Turned'
  BY <1>39 DEF RestartFails, Goto, R, Quit, Release
<1>40. ASSUME Ready PROVE Turned'
  BY <1>40 DEF Ready, R, SettleChild, Shut, Closed, TurnsWithout, Release
<1>41. ASSUME RecyclerDies PROVE Turned'
  BY <1>41 DEF RecyclerDies, R
<1>42. CASE UNCHANGED vars
  BY <1>42
<1> QED
  BY <1>1, <1>2, <1>3, <1>4, <1>5, <1>6, <1>7, <1>8, <1>9, <1>10, <1>11,
     <1>12, <1>13, <1>14, <1>15, <1>16, <1>17, <1>18, <1>19, <1>20, <1>21,
     <1>22, <1>23, <1>24, <1>25, <1>26, <1>27, <1>28, <1>29, <1>30, <1>31,
     <1>32, <1>33, <1>34, <1>35, <1>36, <1>37, <1>38, <1>39, <1>40, <1>41,
     <1>42
     DEF Next, DispatchStep, WatchStep, RecycleStep, Acquire

(* A parked turn stays parked.                                             *)
LEMMA ParkedStays ==
    ASSUME ServeTypeOK, Turned, [Next]_vars, NEW e \in Dispatches, Parked(e)
    PROVE  Parked(e)'
<1> USE ActorsDistinct
<1> USE DEF vars, ServeTypeOK, Actors, Launchers, Lookers, Turned, Parked
<1>1. ASSUME NEW s \in Serves, Bind(s) PROVE Parked(e)'
  BY <1>1 DEF Bind
<1>2. ASSUME NEW s \in Serves, Exit(s) PROVE Parked(e)'
  BY <1>2 DEF Exit
<1>3. ASSUME NEW s \in Serves, ServeCrash(s) PROVE Parked(e)'
  BY <1>3 DEF ServeCrash, TurnsWithout
<1>4. ASSUME NEW a \in Dispatches \cup Serves, Create(a) PROVE Parked(e)'
  BY <1>4 DEF Create, Goto
<1>5. ASSUME NEW a \in Dispatches \cup Serves, Judge(a) PROVE Parked(e)'
  BY <1>5 DEF Judge, Goto, Waits
<1>6. ASSUME NEW a \in Dispatches \cup Serves, Unlink(a) PROVE Parked(e)'
  BY <1>6 DEF Unlink, Goto
<1>7. ASSUME NEW a \in Dispatches \cup Serves, LoseAgain(a) PROVE Parked(e)'
  BY <1>7 DEF LoseAgain, Goto, Waits
<1>8. ASSUME NEW d \in Dispatches, Probe(d) PROVE Parked(e)'
  BY <1>8 DEF Probe, Goto
<1>9. ASSUME NEW d \in Dispatches, Reprobe(d) PROVE Parked(e)'
  BY <1>9 DEF Reprobe, Goto, Release
<1>10. ASSUME NEW d \in Dispatches, Launch(d) PROVE Parked(e)'
  BY <1>10 DEF Launch, Goto, SpawnServe, Unborn
<1>11. ASSUME NEW d \in Dispatches, LaunchFails(d) PROVE Parked(e)'
  BY <1>11 DEF LaunchFails, Goto, Release
<1>12. ASSUME NEW d \in Dispatches, RecordChild(d) PROVE Parked(e)'
  BY <1>12 DEF RecordChild, Goto
<1>13. ASSUME NEW d \in Dispatches, Answered(d) PROVE Parked(e)'
  BY <1>13 DEF Answered, SettleChild, Shut, Closed, TurnsWithout, Release
<1>14. ASSUME NEW d \in Dispatches, CreateSession(d) PROVE Parked(e)'
  BY <1>14 DEF CreateSession, Goto
<1>15. ASSUME NEW d \in Dispatches, SendPrompt(d) PROVE Parked(e)'
  BY <1>15 DEF SendPrompt, Goto
<1>16. ASSUME NEW d \in Dispatches, RequestFails(d) PROVE Parked(e)'
  BY <1>16 DEF RequestFails, Goto
<1>17. ASSUME NEW d \in Dispatches, TurnEnds(d) PROVE Parked(e)'
  BY <1>17 DEF TurnEnds
<1>18. ASSUME NEW d \in Dispatches, GiveUp(d) PROVE Parked(e)'
  BY <1>18 DEF GiveUp, Goto, Release
<1>19. ASSUME NEW d \in Dispatches, GiveUpStarted(d) PROVE Parked(e)'
  BY <1>19 DEF GiveUpStarted, Goto, SettleChild, Shut, Closed, TurnsWithout, Release
<1>20. ASSUME NEW d \in Dispatches, Die(d) PROVE Parked(e)'
  BY <1>20 DEF Die, Goto, Holding
<1>21. ASSUME NEW s \in Serves, PollGone(s) PROVE Parked(e)'
  BY <1>21 DEF PollGone, Goto, Leave
<1>22. ASSUME NEW s \in Serves, PollBlind(s) PROVE Parked(e)'
  BY <1>22 DEF PollBlind, Goto, Leave, Miss
<1>23. ASSUME NEW s \in Serves, Poll(s) PROVE Parked(e)'
  BY <1>23 DEF Poll, Goto, Seen, Idled
<1>24. ASSUME NEW s \in Serves, RecheckBlind(s) PROVE Parked(e)'
  BY <1>24 DEF RecheckBlind, Goto, Leave, Miss, Release
<1>25. ASSUME NEW s \in Serves, Recheck(s) PROVE Parked(e)'
  BY <1>25 DEF Recheck, Goto, Seen, Release
<1>26. ASSUME NEW s \in Serves, Post(s) PROVE Parked(e)'
  BY <1>26 DEF Post, Goto, Shut, Closed, TurnsWithout, Up
<1>27. ASSUME NEW s \in Serves, PostFails(s) PROVE Parked(e)'
  BY <1>27 DEF PostFails, Goto
<1>28. ASSUME NEW s \in Serves, Finish(s) PROVE Parked(e)'
  BY <1>28 DEF Finish, Goto, Leave, Release
<1>29. ASSUME LockAges PROVE Parked(e)'
  BY <1>29 DEF LockAges
<1>30. ASSUME Begin PROVE Parked(e)'
  BY <1>30 DEF Begin, Goto, R, Picked
<1>31. ASSUME Refuse PROVE Parked(e)'
  BY <1>31 DEF Refuse, Goto, R, Quit, Release
<1>32. ASSUME Before PROVE Parked(e)'
  BY <1>32 DEF Before, Goto, R, Quit, Release, Seen
<1>33. ASSUME Revive PROVE Parked(e)'
  BY <1>33 DEF Revive, Goto, R, Quit, Release
<1>34. ASSUME Revived PROVE Parked(e)'
  BY <1>34 DEF Revived, Goto, R, HoldLock
<1>35. ASSUME Soak PROVE Parked(e)'
  BY <1>35 DEF Soak, Goto, R, Quit, Release, Seen, HoldLock
<1>36. ASSUME Close PROVE Parked(e)'
  BY <1>36 DEF Close, Goto, R, Quit, Release, Shut, Closed, TurnsWithout, Up
<1>37. ASSUME Down PROVE Parked(e)'
  BY <1>37 DEF Down, Goto, R, TurnsWithout, Alive
<1>38. ASSUME Restart PROVE Parked(e)'
  BY <1>38 DEF Restart, Goto, R, SpawnServe, Unborn
<1>39. ASSUME RestartFails PROVE Parked(e)'
  BY <1>39 DEF RestartFails, Goto, R, Quit, Release
<1>40. ASSUME Ready PROVE Parked(e)'
  BY <1>40 DEF Ready, R, SettleChild, Shut, Closed, TurnsWithout, Release
<1>41. ASSUME RecyclerDies PROVE Parked(e)'
  BY <1>41 DEF RecyclerDies, R
<1>42. CASE UNCHANGED vars
  BY <1>42
<1> QED
  BY <1>1, <1>2, <1>3, <1>4, <1>5, <1>6, <1>7, <1>8, <1>9, <1>10, <1>11,
     <1>12, <1>13, <1>14, <1>15, <1>16, <1>17, <1>18, <1>19, <1>20, <1>21,
     <1>22, <1>23, <1>24, <1>25, <1>26, <1>27, <1>28, <1>29, <1>30, <1>31,
     <1>32, <1>33, <1>34, <1>35, <1>36, <1>37, <1>38, <1>39, <1>40, <1>41,
     <1>42
     DEF Next, DispatchStep, WatchStep, RecycleStep, Acquire

(* A look that finds nothing busy and nothing new, a poll or a soak after  *)
(* the one before, finds all it sees parked.                               *)
LEMMA QuietLook ==
    ASSUME ServeTypeOK, Turned, NEW x \in Lookers, look[x] # NoLook, ~Busy, ~NewIds(x),
           Prompted(x) \/ \A d \in look[x] : Parked(d)
    PROVE  \A d \in Seen : Parked(d)
BY DEF ServeTypeOK, Turns, Turned, Busy, NewIds, Prompted, Parked, Seen

(* Every step keeps what is known of who means to close the serve.         *)
LEMMA LookedStep ==
    ASSUME Inv, [Next]_vars PROVE Looked'
<1>a. \A d \in Dispatches : Parked(d) => Parked(d)'
  BY ParkedStays DEF Inv
<1>b. Seen # NoLook /\ Seen \subseteq Dispatches
  BY ActorsDistinct DEF Seen
<1> USE <1>a, ActorsDistinct
<1> USE DEF vars, Inv, ServeTypeOK, Actors, Launchers, Lookers, Looks, Looked, Intent
<1>1. ASSUME NEW s \in Serves, Bind(s) PROVE Looked'
  BY <1>1 DEF Bind
<1>2. ASSUME NEW s \in Serves, Exit(s) PROVE Looked'
  BY <1>2 DEF Exit
<1>3. ASSUME NEW s \in Serves, ServeCrash(s) PROVE Looked'
  BY <1>3 DEF ServeCrash, TurnsWithout
<1>4. ASSUME NEW a \in Dispatches \cup Serves, Create(a) PROVE Looked'
  BY <1>4 DEF Create, Goto
<1>5. ASSUME NEW a \in Dispatches \cup Serves, Judge(a) PROVE Looked'
  BY <1>5 DEF Judge, Goto, Waits
<1>6. ASSUME NEW a \in Dispatches \cup Serves, Unlink(a) PROVE Looked'
  BY <1>6 DEF Unlink, Goto
<1>7. ASSUME NEW a \in Dispatches \cup Serves, LoseAgain(a) PROVE Looked'
  BY <1>7 DEF LoseAgain, Goto, Waits
<1>8. ASSUME NEW d \in Dispatches, Probe(d) PROVE Looked'
  BY <1>8 DEF Probe, Goto
<1>9. ASSUME NEW d \in Dispatches, Reprobe(d) PROVE Looked'
  BY <1>9 DEF Reprobe, Goto, Release
<1>10. ASSUME NEW d \in Dispatches, Launch(d) PROVE Looked'
  BY <1>10 DEF Launch, Goto, SpawnServe, Unborn
<1>11. ASSUME NEW d \in Dispatches, LaunchFails(d) PROVE Looked'
  BY <1>11 DEF LaunchFails, Goto, Release
<1>12. ASSUME NEW d \in Dispatches, RecordChild(d) PROVE Looked'
  BY <1>12 DEF RecordChild, Goto
<1>13. ASSUME NEW d \in Dispatches, Answered(d) PROVE Looked'
  BY <1>13 DEF Answered, SettleChild, Shut, Closed, TurnsWithout, Release
<1>14. ASSUME NEW d \in Dispatches, CreateSession(d) PROVE Looked'
  BY <1>14 DEF CreateSession, Goto
<1>15. ASSUME NEW d \in Dispatches, SendPrompt(d) PROVE Looked'
  BY <1>15 DEF SendPrompt, Goto
<1>16. ASSUME NEW d \in Dispatches, RequestFails(d) PROVE Looked'
  BY <1>16 DEF RequestFails, Goto
<1>17. ASSUME NEW d \in Dispatches, TurnEnds(d) PROVE Looked'
  BY <1>17 DEF TurnEnds
<1>18. ASSUME NEW d \in Dispatches, GiveUp(d) PROVE Looked'
  BY <1>18 DEF GiveUp, Goto, Release
<1>19. ASSUME NEW d \in Dispatches, GiveUpStarted(d) PROVE Looked'
  BY <1>19 DEF GiveUpStarted, Goto, SettleChild, Shut, Closed, TurnsWithout, Release
<1>20. ASSUME NEW d \in Dispatches, Die(d) PROVE Looked'
  BY <1>20 DEF Die, Goto
<1>21. ASSUME NEW s \in Serves, PollGone(s) PROVE Looked'
  BY <1>21 DEF PollGone, Goto, Leave
<1>22. ASSUME NEW s \in Serves, PollBlind(s) PROVE Looked'
  BY <1>22 DEF PollBlind, Goto, Leave, Miss
<1>23. ASSUME NEW s \in Serves, Poll(s) PROVE Looked'
  <2>1. at'[s] \in Intent => look[s] # NoLook /\ ~Busy /\ ~NewIds(s) /\ Prompted(s)
    BY <1>23, CountsArePositive DEF Poll, Goto, Idled, Active
  <2>2. at'[s] \in Intent => \A d \in Seen : Parked(d)
    BY <2>1, QuietLook
  <2>3. at' = [at EXCEPT ![s] = at'[s]] /\ look' = [look EXCEPT ![s] = Seen]
    BY <1>23 DEF Poll, Goto
  <2> QED BY <1>b, <2>2, <2>3
<1>24. ASSUME NEW s \in Serves, RecheckBlind(s) PROVE Looked'
  BY <1>24 DEF RecheckBlind, Goto, Leave, Miss, Release
<1>25. ASSUME NEW s \in Serves, Recheck(s) PROVE Looked'
  <2>1. at'[s] \in Intent => ~Busy /\ ~NewIds(s)
    BY <1>25 DEF Recheck, Goto, Active
  <2>2. at[s] \in Intent
    BY <1>25 DEF Recheck
  <2>3. at'[s] \in Intent => \A d \in Seen : Parked(d)
    BY <2>1, <2>2, QuietLook
  <2>4. at' = [at EXCEPT ![s] = at'[s]] /\ look' = [look EXCEPT ![s] = Seen]
    BY <1>25 DEF Recheck, Goto
  <2> QED BY <1>b, <2>3, <2>4
<1>26. ASSUME NEW s \in Serves, Post(s) PROVE Looked'
  BY <1>26 DEF Post, Goto, Shut, Closed, TurnsWithout, Up
<1>27. ASSUME NEW s \in Serves, PostFails(s) PROVE Looked'
  BY <1>27 DEF PostFails, Goto
<1>28. ASSUME NEW s \in Serves, Finish(s) PROVE Looked'
  BY <1>28 DEF Finish, Goto, Leave, Release
<1>29. ASSUME LockAges PROVE Looked'
  BY <1>29 DEF LockAges
<1>30. ASSUME Begin PROVE Looked'
  BY <1>30 DEF Begin, Goto, R, Picked
<1>31. ASSUME Refuse PROVE Looked'
  BY <1>31 DEF Refuse, Goto, R, Quit, Release
<1>32. ASSUME Before PROVE Looked'
  BY <1>32, <1>b DEF Before, Goto, R, Quit, Release
<1>33. ASSUME Revive PROVE Looked'
  BY <1>33 DEF Revive, Goto, R, Quit, Release
<1>34. ASSUME Revived PROVE Looked'
  BY <1>34 DEF Revived, Goto, R, HoldLock
<1>35. ASSUME Soak PROVE Looked'
  <2>1. CASE Answers /\ ~Busy /\ ~NewIds(R)
    <3>1. \A d \in Seen : Parked(d)
      BY <1>35, <2>1, QuietLook DEF Soak, R
    <3>2. at' = [at EXCEPT ![Recycler] = "closing"] /\ look' = [look EXCEPT ![Recycler] = Seen]
      BY <1>35, <2>1 DEF Soak, Goto, R
    <3> QED BY <1>b, <3>1, <3>2
  <2>2. CASE ~(Answers /\ ~Busy /\ ~NewIds(R))
    BY <1>35, <2>2 DEF Soak, Goto, R, Quit
  <2> QED BY <2>1, <2>2
<1>36. ASSUME Close PROVE Looked'
  BY <1>36 DEF Close, Goto, R, Quit, Release, Shut, Closed, TurnsWithout, Up
<1>37. ASSUME Down PROVE Looked'
  BY <1>37 DEF Down, Goto, R, TurnsWithout, Alive
<1>38. ASSUME Restart PROVE Looked'
  BY <1>38 DEF Restart, Goto, R, SpawnServe, Unborn
<1>39. ASSUME RestartFails PROVE Looked'
  BY <1>39 DEF RestartFails, Goto, R, Quit, Release
<1>40. ASSUME Ready PROVE Looked'
  BY <1>40 DEF Ready, R, SettleChild, Shut, Closed, TurnsWithout, Release
<1>41. ASSUME RecyclerDies PROVE Looked'
  BY <1>41 DEF RecyclerDies, R
<1>42. CASE UNCHANGED vars
  BY <1>42
<1> QED
  BY <1>1, <1>2, <1>3, <1>4, <1>5, <1>6, <1>7, <1>8, <1>9, <1>10, <1>11,
     <1>12, <1>13, <1>14, <1>15, <1>16, <1>17, <1>18, <1>19, <1>20, <1>21,
     <1>22, <1>23, <1>24, <1>25, <1>26, <1>27, <1>28, <1>29, <1>30, <1>31,
     <1>32, <1>33, <1>34, <1>35, <1>36, <1>37, <1>38, <1>39, <1>40, <1>41,
     <1>42
     DEF Next, DispatchStep, WatchStep, RecycleStep, Acquire

-----------------------------------------------------------------------------
(* The invariant holds from the start and is kept.                         *)
THEOREM InvInvariant == Spec => []Inv
<1>1. Init => Inv
  <2> SUFFICES ASSUME Init PROVE Inv
    OBVIOUS
  <2> USE ActorsDistinct DEF Init, Actors, Launchers, Lookers
  <2>1. at \in [Actors -> Places] /\ serve \in [Serves -> ServeStates]
    BY DEF Places, ServeStates
  <2>2. turn \in [Dispatches -> Turns] /\ look \in [Lookers -> Looks]
    BY DEF Turns, Looks
  <2>3. quiet \in [Serves -> 0..IdlePolls]
    BY CountsArePositive
  <2>4. ServeTypeOK
    BY <2>1, <2>2, <2>3 DEF ServeTypeOK
  <2>5. \A a \in Actors : at[a] \in {"off", "polling", "idle", "ensured"}
    OBVIOUS
  <2>6. Turned
    BY <2>5 DEF Turned
  <2>7. Looked
    BY <2>5 DEF Looked, Intent
  <2> QED BY <2>4, <2>6, <2>7 DEF Inv
<1>2. Inv /\ [Next]_vars => Inv'
  BY TypeStep, TurnedStep, LookedStep DEF Inv
<1> QED BY <1>1, <1>2, PTL DEF Spec

(* Types. *)
THEOREM ServeTypeCorrect == Spec => []ServeTypeOK
<1>1. Inv => ServeTypeOK
  BY DEF Inv
<1> QED BY InvInvariant, <1>1, PTL

(* Nobody shuts a serve down on a turn that the last look could show.      *)
THEOREM CutTurnsAreLateCorrect == Spec => CutTurnsAreLate
<1> DEFINE Late(d) ==
        turn[d] = "busy" /\ turn'[d] = "over" /\ serve' # serve =>
           \/ \E s \in Serves : serve[s] # "crashed" /\ serve'[s] = "crashed"
           \/ \E x \in Lookers : /\ at[x] \in {"posting", "closing"} /\ at'[x] # at[x]
                                /\ d \notin look[x]
<1>1. ASSUME Inv, Next, NEW d \in Dispatches PROVE Late(d)
  <2> SUFFICES ASSUME turn[d] = "busy", turn'[d] = "over", serve' # serve
               PROVE  Late(d)
    OBVIOUS
  <2> USE <1>1, ActorsDistinct DEF Inv, ServeTypeOK
  <2>1. \/ \E s \in Serves : ServeCrash(s) \/ Post(s)
        \/ \E e \in Dispatches : Answered(e) \/ GiveUpStarted(e)
        \/ Close \/ Down \/ Ready
    BY DEF Next, WatchStep, DispatchStep, RecycleStep, Acquire, Bind, Exit, TurnEnds, Die, GiveUp,
           LockAges, Create, Judge, Unlink, LoseAgain, PollGone, PollBlind, Poll, RecheckBlind,
           Recheck, PostFails, Finish, Probe, Reprobe, Launch, LaunchFails, RecordChild,
           CreateSession, SendPrompt, RequestFails, Begin, Refuse, Before, Revive, Revived,
           Soak, Restart, RestartFails, RecyclerDies
  <2>2. ASSUME NEW s \in Serves, ServeCrash(s) PROVE Late(d)
    BY <2>2 DEF ServeCrash
  <2>3. ASSUME NEW s \in Serves, Post(s) PROVE Late(d)
    <3>1. at[s] = "posting" /\ at'[s] = "leaving"
      BY <2>3 DEF Post, Goto, Actors, Lookers
    <3>2. s \in Lookers /\ d \notin look[s]
      BY <3>1 DEF Lookers, Looked, Intent, Parked
    <3> QED BY <3>1, <3>2
  <2>4. ASSUME NEW l \in Launchers, SettleChild(l) PROVE FALSE
    BY <2>4 DEF SettleChild, Displaced, Shut, TurnsWithout
  <2>5. CASE Close
    <3>1. at[Recycler] = "closing" /\ at'[Recycler] # at[Recycler]
      BY <2>5 DEF Close, Goto, Quit, R, Actors, Lookers
    <3>2. Recycler \in Lookers /\ d \notin look[Recycler]
      BY <3>1 DEF Lookers, Looked, Intent, Parked
    <3> QED BY <3>1, <3>2
  <2>6. CASE Down
    BY <2>6 DEF Down, Alive
  <2>7. CASE Ready
    BY <2>4, <2>7 DEF Ready, R, Launchers
  <2>8. ASSUME NEW e \in Dispatches, Answered(e) \/ GiveUpStarted(e) PROVE FALSE
    BY <2>4, <2>8 DEF Answered, GiveUpStarted, Launchers
  <2> QED BY <2>1, <2>2, <2>3, <2>5, <2>6, <2>7, <2>8
<1>2. Inv /\ [Next]_vars => [\A d \in Dispatches : Late(d)]_vars
  BY <1>1
<1> QED BY <1>2, InvInvariant, PTL DEF Spec, CutTurnsAreLate
===============================================================================
