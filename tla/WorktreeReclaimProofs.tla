------------------------- MODULE WorktreeReclaimProofs -------------------------
(***************************************************************************)
(* For any runs and any nesting of worktrees: applying a plan loses no     *)
(* commit, takes no worktree down with the one around it, and removes none *)
(* under a run that was at work when the transcripts were last read.       *)
(***************************************************************************)
EXTENDS WorktreeReclaim, TLAPS

(* What is yet to be deleted is in a bundle once worktrees are removed.    *)
Bundled ==
    phase \in {"trees", "branches"} =>
        \A b \in todo.branches : <<b, tip[b]>> \in saved

(* A worktree that was taken for removed is not there, and none of those   *)
(* on the list is one that was never made.                                 *)
Taken ==
    /\ \A u \in going \cup todo.trees : tree[u] # "none"
    /\ \A u \in going \ todo.trees : tree[u] # "present"
    /\ phase \notin {"checked", "trees"} => going = {}

(* What is below a worktree that passed the first half of the last look    *)
(* came after it.                                                          *)
Alone ==
    \A t \in Owners : look[t] # "none" =>
        /\ phase = "trees" /\ t \in todo.trees
        /\ \A u \in Within(t) : tree[u] = "present" => u \in late

(* And who is at work in one that passed the second half.                  *)
Quiet ==
    \A t \in Owners : look[t] = "cleared" =>
        /\ log[t] # "absent"
        /\ \A r \in Runs : Place[r] = t /\ log[r] = "live" => r \in late

Inv == ReclaimTypeOK /\ NoCommitLost /\ Bundled /\ Taken /\ Alone /\ Quiet

(* Every step keeps the types. *)
LEMMA TypeStep ==
    ASSUME ReclaimTypeOK, [Next]_vars PROVE ReclaimTypeOK'
<1> USE DEF vars, runVars, gitVars, planVars, applyVars
<1> USE ReclaimAssumption DEF ReclaimTypeOK, Owners, AllItems, Items, Facts
<1>1. ASSUME NEW r \in Runs, Dispatch(r) PROVE ReclaimTypeOK'
  BY <1>1 DEF Dispatch
<1>2. ASSUME NEW r \in Runs, AddTree(r) PROVE ReclaimTypeOK'
  BY <1>2 DEF AddTree
<1>3. ASSUME NEW r \in Runs, ContinueCheck(r) PROVE ReclaimTypeOK'
  BY <1>3 DEF ContinueCheck
<1>4. ASSUME NEW r \in Runs, ContinuePrepare(r) PROVE ReclaimTypeOK'
  BY <1>4 DEF ContinuePrepare
<1>5. ASSUME NEW r \in Runs, ContinueSubmit(r) PROVE ReclaimTypeOK'
  BY <1>5 DEF ContinueSubmit
<1>6. ASSUME NEW r \in Runs, Write(r) PROVE ReclaimTypeOK'
  BY <1>6 DEF Write, Works
<1>7. ASSUME NEW r \in Runs, Complete(r) PROVE ReclaimTypeOK'
  BY <1>7 DEF Complete, Works, Exists
<1>8. ASSUME NEW r \in Runs, Fail(r) PROVE ReclaimTypeOK'
  BY <1>8 DEF Fail
<1>9. ASSUME NEW r \in Runs, Decide(r) PROVE ReclaimTypeOK'
  BY <1>9 DEF Decide
<1>10. ASSUME NEW r \in Runs, CloseLineage(r) PROVE ReclaimTypeOK'
  BY <1>10 DEF CloseLineage, Members
<1>11. ASSUME NEW r \in Runs, HandCommit(r) PROVE ReclaimTypeOK'
  BY <1>11 DEF HandCommit, Exists
<1>12. ASSUME NEW r \in Runs, HandRemove(r) PROVE ReclaimTypeOK'
  BY <1>12 DEF HandRemove
<1>13. ASSUME NEW t \in Owners, LookAtTree(t) PROVE ReclaimTypeOK'
  BY <1>13 DEF LookAtTree, Unchanged, IsNext, Skip, Done
<1>14. ASSUME NEW t \in Owners, LookAtRuns(t) PROVE ReclaimTypeOK'
  BY <1>14 DEF LookAtRuns, Active, Members, Skip, Done
<1>15. ASSUME NEW t \in Owners, RemoveTree(t) PROVE ReclaimTypeOK'
  BY <1>15 DEF RemoveTree, Done
<1>16. ASSUME NEW t \in Owners, RemoveFails(t) PROVE ReclaimTypeOK'
  BY <1>16 DEF RemoveFails, Skip, Done
<1>17. ASSUME NEW b \in Runs, DeleteBranch(b) PROVE ReclaimTypeOK'
  BY <1>17 DEF DeleteBranch, Delete
<1>18. ASSUME PlanFacts PROVE ReclaimTypeOK'
  BY <1>18 DEF PlanFacts
<1>19. ASSUME PlanItems PROVE ReclaimTypeOK'
  BY <1>19 DEF PlanItems
<1>20. ASSUME Precheck PROVE ReclaimTypeOK'
  BY <1>20 DEF Precheck
<1>21. ASSUME Bundle PROVE ReclaimTypeOK'
  BY <1>21 DEF Bundle, Over
<1>22. ASSUME BundleFails PROVE ReclaimTypeOK'
  BY <1>22 DEF BundleFails, Over
<1>23. ASSUME ReadHeads PROVE ReclaimTypeOK'
  BY <1>23 DEF ReadHeads
<1>24. ASSUME Finish PROVE ReclaimTypeOK'
  BY <1>24 DEF Finish, Over
<1>25. ASSUME Abort PROVE ReclaimTypeOK'
  BY <1>25 DEF Abort, Over
<1>26. CASE UNCHANGED vars
  BY <1>26
<1> QED BY <1>1, <1>2, <1>3, <1>4, <1>5, <1>6, <1>7, <1>8, <1>9, <1>10, <1>11,
      <1>12, <1>13, <1>14, <1>15, <1>16, <1>17, <1>18, <1>19, <1>20, <1>21, <1>22,
      <1>23, <1>24, <1>25, <1>26 DEF Next, Run, Apply

(* The branches on the list stay in the bundle. *)
LEMMA BundledStep ==
    ASSUME ReclaimTypeOK, Bundled, [Next]_vars PROVE Bundled'
<1> USE DEF vars, runVars, gitVars, planVars, applyVars
<1> USE DEF Bundled, ReclaimTypeOK, Items, AllItems
<1>1. ASSUME NEW r \in Runs, Dispatch(r) PROVE Bundled'
  BY <1>1 DEF Dispatch
<1>2. ASSUME NEW r \in Runs, AddTree(r) PROVE Bundled'
  BY <1>2 DEF AddTree
<1>3. ASSUME NEW r \in Runs, ContinueCheck(r) PROVE Bundled'
  BY <1>3 DEF ContinueCheck
<1>4. ASSUME NEW r \in Runs, ContinuePrepare(r) PROVE Bundled'
  BY <1>4 DEF ContinuePrepare
<1>5. ASSUME NEW r \in Runs, ContinueSubmit(r) PROVE Bundled'
  BY <1>5 DEF ContinueSubmit
<1>6. ASSUME NEW r \in Runs, Write(r) PROVE Bundled'
  BY <1>6 DEF Write, Works
<1>7. ASSUME NEW r \in Runs, Complete(r) PROVE Bundled'
  BY <1>7 DEF Complete, Works, Exists
<1>8. ASSUME NEW r \in Runs, Fail(r) PROVE Bundled'
  BY <1>8 DEF Fail
<1>9. ASSUME NEW r \in Runs, Decide(r) PROVE Bundled'
  BY <1>9 DEF Decide
<1>10. ASSUME NEW r \in Runs, CloseLineage(r) PROVE Bundled'
  BY <1>10 DEF CloseLineage, Members
<1>11. ASSUME NEW r \in Runs, HandCommit(r) PROVE Bundled'
  BY <1>11 DEF HandCommit, Exists
<1>12. ASSUME NEW r \in Runs, HandRemove(r) PROVE Bundled'
  BY <1>12 DEF HandRemove
<1>13. ASSUME NEW t \in Owners, LookAtTree(t) PROVE Bundled'
  BY <1>13 DEF LookAtTree, Unchanged, IsNext, Skip, Done
<1>14. ASSUME NEW t \in Owners, LookAtRuns(t) PROVE Bundled'
  BY <1>14 DEF LookAtRuns, Active, Members, Skip, Done
<1>15. ASSUME NEW t \in Owners, RemoveTree(t) PROVE Bundled'
  BY <1>15 DEF RemoveTree, Done
<1>16. ASSUME NEW t \in Owners, RemoveFails(t) PROVE Bundled'
  BY <1>16 DEF RemoveFails, Skip, Done
<1>17. ASSUME NEW b \in Runs, DeleteBranch(b) PROVE Bundled'
  BY <1>17 DEF DeleteBranch, Delete
<1>18. ASSUME PlanFacts PROVE Bundled'
  BY <1>18 DEF PlanFacts
<1>19. ASSUME PlanItems PROVE Bundled'
  BY <1>19 DEF PlanItems
<1>20. ASSUME Precheck PROVE Bundled'
  BY <1>20 DEF Precheck
<1>21. ASSUME Bundle PROVE Bundled'
  BY <1>21 DEF Bundle, Over
<1>22. ASSUME BundleFails PROVE Bundled'
  BY <1>22 DEF BundleFails, Over
<1>23. ASSUME ReadHeads PROVE Bundled'
  BY <1>23 DEF ReadHeads
<1>24. ASSUME Finish PROVE Bundled'
  BY <1>24 DEF Finish, Over
<1>25. ASSUME Abort PROVE Bundled'
  BY <1>25 DEF Abort, Over
<1>26. CASE UNCHANGED vars
  BY <1>26
<1> QED BY <1>1, <1>2, <1>3, <1>4, <1>5, <1>6, <1>7, <1>8, <1>9, <1>10, <1>11,
      <1>12, <1>13, <1>14, <1>15, <1>16, <1>17, <1>18, <1>19, <1>20, <1>21, <1>22,
      <1>23, <1>24, <1>25, <1>26 DEF Next, Run, Apply

(* No step makes a commit unreachable. *)
LEMMA CommitsStep ==
    ASSUME ReclaimTypeOK, Bundled, NoCommitLost, [Next]_vars PROVE NoCommitLost'
<1> USE DEF vars, runVars, gitVars, planVars, applyVars
<1> USE DEF NoCommitLost, ReclaimTypeOK
<1>1. ASSUME NEW r \in Runs, Dispatch(r) PROVE NoCommitLost'
  BY <1>1 DEF Dispatch
<1>2. ASSUME NEW r \in Runs, AddTree(r) PROVE NoCommitLost'
  BY <1>2 DEF AddTree
<1>3. ASSUME NEW r \in Runs, ContinueCheck(r) PROVE NoCommitLost'
  BY <1>3 DEF ContinueCheck
<1>4. ASSUME NEW r \in Runs, ContinuePrepare(r) PROVE NoCommitLost'
  BY <1>4 DEF ContinuePrepare
<1>5. ASSUME NEW r \in Runs, ContinueSubmit(r) PROVE NoCommitLost'
  BY <1>5 DEF ContinueSubmit
<1>6. ASSUME NEW r \in Runs, Write(r) PROVE NoCommitLost'
  BY <1>6 DEF Write, Works
<1>7. ASSUME NEW r \in Runs, Complete(r) PROVE NoCommitLost'
  BY <1>7 DEF Complete, Works, Exists
<1>8. ASSUME NEW r \in Runs, Fail(r) PROVE NoCommitLost'
  BY <1>8 DEF Fail
<1>9. ASSUME NEW r \in Runs, Decide(r) PROVE NoCommitLost'
  BY <1>9 DEF Decide
<1>10. ASSUME NEW r \in Runs, CloseLineage(r) PROVE NoCommitLost'
  BY <1>10 DEF CloseLineage, Members
<1>11. ASSUME NEW r \in Runs, HandCommit(r) PROVE NoCommitLost'
  BY <1>11 DEF HandCommit, Exists
<1>12. ASSUME NEW r \in Runs, HandRemove(r) PROVE NoCommitLost'
  BY <1>12 DEF HandRemove
<1>13. ASSUME NEW t \in Owners, LookAtTree(t) PROVE NoCommitLost'
  BY <1>13 DEF LookAtTree, Unchanged, IsNext, Skip, Done
<1>14. ASSUME NEW t \in Owners, LookAtRuns(t) PROVE NoCommitLost'
  BY <1>14 DEF LookAtRuns, Active, Members, Skip, Done
<1>15. ASSUME NEW t \in Owners, RemoveTree(t) PROVE NoCommitLost'
  BY <1>15 DEF RemoveTree, Done
<1>16. ASSUME NEW t \in Owners, RemoveFails(t) PROVE NoCommitLost'
  BY <1>16 DEF RemoveFails, Skip, Done
<1>17. ASSUME NEW b \in Runs, DeleteBranch(b) PROVE NoCommitLost'
  <2>1. CASE b \notin barred /\ ref[b] = tip[b]
    <3>1. ref' = [ref EXCEPT ![b] = 0] /\ top' = top /\ saved' = saved
      BY <1>17, <2>1 DEF DeleteBranch, Delete
    <3>2. <<b, tip[b]>> \in saved
      BY <1>17 DEF DeleteBranch, Bundled
    <3> QED BY <2>1, <3>1, <3>2
  <2>2. CASE b \in barred \/ ref[b] # tip[b]
    BY <1>17, <2>2 DEF DeleteBranch, Delete
  <2> QED BY <2>1, <2>2
<1>18. ASSUME PlanFacts PROVE NoCommitLost'
  BY <1>18 DEF PlanFacts
<1>19. ASSUME PlanItems PROVE NoCommitLost'
  BY <1>19 DEF PlanItems
<1>20. ASSUME Precheck PROVE NoCommitLost'
  BY <1>20 DEF Precheck
<1>21. ASSUME Bundle PROVE NoCommitLost'
  BY <1>21 DEF Bundle, Over
<1>22. ASSUME BundleFails PROVE NoCommitLost'
  BY <1>22 DEF BundleFails, Over
<1>23. ASSUME ReadHeads PROVE NoCommitLost'
  BY <1>23 DEF ReadHeads
<1>24. ASSUME Finish PROVE NoCommitLost'
  BY <1>24 DEF Finish, Over
<1>25. ASSUME Abort PROVE NoCommitLost'
  BY <1>25 DEF Abort, Over
<1>26. CASE UNCHANGED vars
  BY <1>26
<1> QED BY <1>1, <1>2, <1>3, <1>4, <1>5, <1>6, <1>7, <1>8, <1>9, <1>10, <1>11,
      <1>12, <1>13, <1>14, <1>15, <1>16, <1>17, <1>18, <1>19, <1>20, <1>21, <1>22,
      <1>23, <1>24, <1>25, <1>26 DEF Next, Run, Apply

(* What was removed stays away. *)
LEMMA TakenStep ==
    ASSUME ReclaimTypeOK, Taken, [Next]_vars PROVE Taken'
<1> USE DEF vars, runVars, gitVars, planVars, applyVars
<1> USE DEF Taken, ReclaimTypeOK, AllItems, Items, Owners
<1>1. ASSUME NEW r \in Runs, Dispatch(r) PROVE Taken'
  BY <1>1 DEF Dispatch
<1>2. ASSUME NEW r \in Runs, AddTree(r) PROVE Taken'
  BY <1>2 DEF AddTree
<1>3. ASSUME NEW r \in Runs, ContinueCheck(r) PROVE Taken'
  BY <1>3 DEF ContinueCheck
<1>4. ASSUME NEW r \in Runs, ContinuePrepare(r) PROVE Taken'
  BY <1>4 DEF ContinuePrepare
<1>5. ASSUME NEW r \in Runs, ContinueSubmit(r) PROVE Taken'
  BY <1>5 DEF ContinueSubmit
<1>6. ASSUME NEW r \in Runs, Write(r) PROVE Taken'
  BY <1>6 DEF Write, Works
<1>7. ASSUME NEW r \in Runs, Complete(r) PROVE Taken'
  BY <1>7 DEF Complete, Works, Exists
<1>8. ASSUME NEW r \in Runs, Fail(r) PROVE Taken'
  BY <1>8 DEF Fail
<1>9. ASSUME NEW r \in Runs, Decide(r) PROVE Taken'
  BY <1>9 DEF Decide
<1>10. ASSUME NEW r \in Runs, CloseLineage(r) PROVE Taken'
  BY <1>10 DEF CloseLineage, Members
<1>11. ASSUME NEW r \in Runs, HandCommit(r) PROVE Taken'
  BY <1>11 DEF HandCommit, Exists
<1>12. ASSUME NEW r \in Runs, HandRemove(r) PROVE Taken'
  BY <1>12 DEF HandRemove
<1>13. ASSUME NEW t \in Owners, LookAtTree(t) PROVE Taken'
  BY <1>13 DEF LookAtTree, Unchanged, IsNext, Skip, Done
<1>14. ASSUME NEW t \in Owners, LookAtRuns(t) PROVE Taken'
  BY <1>14 DEF LookAtRuns, Active, Members, Skip, Done
<1>15. ASSUME NEW t \in Owners, RemoveTree(t) PROVE Taken'
  BY <1>15 DEF RemoveTree, Done
<1>16. ASSUME NEW t \in Owners, RemoveFails(t) PROVE Taken'
  BY <1>16 DEF RemoveFails, Skip, Done
<1>17. ASSUME NEW b \in Runs, DeleteBranch(b) PROVE Taken'
  BY <1>17 DEF DeleteBranch, Delete
<1>18. ASSUME PlanFacts PROVE Taken'
  BY <1>18 DEF PlanFacts
<1>19. ASSUME PlanItems PROVE Taken'
  BY <1>19 DEF PlanItems
<1>20. ASSUME Precheck PROVE Taken'
  BY <1>20 DEF Precheck
<1>21. ASSUME Bundle PROVE Taken'
  BY <1>21 DEF Bundle, Over
<1>22. ASSUME BundleFails PROVE Taken'
  BY <1>22 DEF BundleFails, Over
<1>23. ASSUME ReadHeads PROVE Taken'
  BY <1>23 DEF ReadHeads
<1>24. ASSUME Finish PROVE Taken'
  BY <1>24 DEF Finish, Over
<1>25. ASSUME Abort PROVE Taken'
  BY <1>25 DEF Abort, Over
<1>26. CASE UNCHANGED vars
  BY <1>26
<1> QED BY <1>1, <1>2, <1>3, <1>4, <1>5, <1>6, <1>7, <1>8, <1>9, <1>10, <1>11,
      <1>12, <1>13, <1>14, <1>15, <1>16, <1>17, <1>18, <1>19, <1>20, <1>21, <1>22,
      <1>23, <1>24, <1>25, <1>26 DEF Next, Run, Apply

(* Nothing that was there before the look comes into a worktree. *)
LEMMA AloneStep ==
    ASSUME ReclaimTypeOK, Taken, Alone, [Next]_vars PROVE Alone'
<1> USE DEF vars, runVars, gitVars, planVars, applyVars
<1> USE DEF Alone, ReclaimTypeOK, AllItems, Items, Owners, Within, Around
<1>1. ASSUME NEW r \in Runs, Dispatch(r) PROVE Alone'
  BY <1>1 DEF Dispatch
<1>2. ASSUME NEW r \in Runs, AddTree(r) PROVE Alone'
  BY <1>2 DEF AddTree
<1>3. ASSUME NEW r \in Runs, ContinueCheck(r) PROVE Alone'
  BY <1>3 DEF ContinueCheck
<1>4. ASSUME NEW r \in Runs, ContinuePrepare(r) PROVE Alone'
  BY <1>4 DEF ContinuePrepare
<1>5. ASSUME NEW r \in Runs, ContinueSubmit(r) PROVE Alone'
  BY <1>5 DEF ContinueSubmit
<1>6. ASSUME NEW r \in Runs, Write(r) PROVE Alone'
  BY <1>6 DEF Write, Works
<1>7. ASSUME NEW r \in Runs, Complete(r) PROVE Alone'
  BY <1>7 DEF Complete, Works, Exists
<1>8. ASSUME NEW r \in Runs, Fail(r) PROVE Alone'
  BY <1>8 DEF Fail
<1>9. ASSUME NEW r \in Runs, Decide(r) PROVE Alone'
  BY <1>9 DEF Decide
<1>10. ASSUME NEW r \in Runs, CloseLineage(r) PROVE Alone'
  BY <1>10 DEF CloseLineage, Members
<1>11. ASSUME NEW r \in Runs, HandCommit(r) PROVE Alone'
  BY <1>11 DEF HandCommit, Exists
<1>12. ASSUME NEW r \in Runs, HandRemove(r) PROVE Alone'
  BY <1>12 DEF HandRemove
<1>13. ASSUME NEW t \in Owners, LookAtTree(t) PROVE Alone'
  <2>1. CASE UNCHANGED <<tree, late>> /\ look' = [look EXCEPT ![t] = "looked"] /\ UNCHANGED todo
    <3>1. phase' = "trees" /\ t \in todo'.trees
      BY <1>13, <2>1 DEF LookAtTree, IsNext
    <3>2. ASSUME NEW u \in Within(t), tree[u] = "present" PROVE u \in late
      <4>1. u \in going \ todo.trees
        BY <1>13, <2>1, <3>2 DEF LookAtTree, IsNext, Unchanged, Skip, Done
      <4> QED BY <3>2, <4>1 DEF Taken
    <3> QED BY <2>1, <3>1, <3>2, <1>13 DEF LookAtTree
  <2>2. CASE Skip(t)
    BY <1>13, <2>2 DEF LookAtTree, Skip, Done
  <2> QED BY <1>13, <2>1, <2>2 DEF LookAtTree
<1>14. ASSUME NEW t \in Owners, LookAtRuns(t) PROVE Alone'
  BY <1>14 DEF LookAtRuns, Active, Members, Skip, Done
<1>15. ASSUME NEW t \in Owners, RemoveTree(t) PROVE Alone'
  BY <1>15 DEF RemoveTree, Done
<1>16. ASSUME NEW t \in Owners, RemoveFails(t) PROVE Alone'
  BY <1>16 DEF RemoveFails, Skip, Done
<1>17. ASSUME NEW b \in Runs, DeleteBranch(b) PROVE Alone'
  BY <1>17 DEF DeleteBranch, Delete
<1>18. ASSUME PlanFacts PROVE Alone'
  BY <1>18 DEF PlanFacts
<1>19. ASSUME PlanItems PROVE Alone'
  BY <1>19 DEF PlanItems
<1>20. ASSUME Precheck PROVE Alone'
  BY <1>20 DEF Precheck
<1>21. ASSUME Bundle PROVE Alone'
  BY <1>21 DEF Bundle, Over
<1>22. ASSUME BundleFails PROVE Alone'
  BY <1>22 DEF BundleFails, Over
<1>23. ASSUME ReadHeads PROVE Alone'
  BY <1>23 DEF ReadHeads
<1>24. ASSUME Finish PROVE Alone'
  BY <1>24 DEF Finish, Over
<1>25. ASSUME Abort PROVE Alone'
  BY <1>25 DEF Abort, Over
<1>26. CASE UNCHANGED vars
  BY <1>26
<1> QED BY <1>1, <1>2, <1>3, <1>4, <1>5, <1>6, <1>7, <1>8, <1>9, <1>10, <1>11,
      <1>12, <1>13, <1>14, <1>15, <1>16, <1>17, <1>18, <1>19, <1>20, <1>21, <1>22,
      <1>23, <1>24, <1>25, <1>26 DEF Next, Run, Apply

(* Nobody at work is overlooked. *)
LEMMA QuietStep ==
    ASSUME ReclaimTypeOK, Alone, Quiet, [Next]_vars PROVE Quiet'
<1> USE DEF vars, runVars, gitVars, planVars, applyVars
<1> USE DEF Quiet, ReclaimTypeOK, AllItems, Owners, Alone
<1>1. ASSUME NEW r \in Runs, Dispatch(r) PROVE Quiet'
  BY <1>1 DEF Dispatch
<1>2. ASSUME NEW r \in Runs, AddTree(r) PROVE Quiet'
  BY <1>2 DEF AddTree
<1>3. ASSUME NEW r \in Runs, ContinueCheck(r) PROVE Quiet'
  BY <1>3 DEF ContinueCheck
<1>4. ASSUME NEW r \in Runs, ContinuePrepare(r) PROVE Quiet'
  BY <1>4 DEF ContinuePrepare
<1>5. ASSUME NEW r \in Runs, ContinueSubmit(r) PROVE Quiet'
  BY <1>5 DEF ContinueSubmit
<1>6. ASSUME NEW r \in Runs, Write(r) PROVE Quiet'
  BY <1>6 DEF Write, Works
<1>7. ASSUME NEW r \in Runs, Complete(r) PROVE Quiet'
  BY <1>7 DEF Complete, Works, Exists
<1>8. ASSUME NEW r \in Runs, Fail(r) PROVE Quiet'
  BY <1>8 DEF Fail
<1>9. ASSUME NEW r \in Runs, Decide(r) PROVE Quiet'
  BY <1>9 DEF Decide
<1>10. ASSUME NEW r \in Runs, CloseLineage(r) PROVE Quiet'
  BY <1>10 DEF CloseLineage, Members
<1>11. ASSUME NEW r \in Runs, HandCommit(r) PROVE Quiet'
  BY <1>11 DEF HandCommit, Exists
<1>12. ASSUME NEW r \in Runs, HandRemove(r) PROVE Quiet'
  BY <1>12 DEF HandRemove
<1>13. ASSUME NEW t \in Owners, LookAtTree(t) PROVE Quiet'
  BY <1>13 DEF LookAtTree, Unchanged, IsNext, Skip, Done
<1>14. ASSUME NEW t \in Owners, LookAtRuns(t) PROVE Quiet'
  BY <1>14 DEF LookAtRuns, Active, Members, Skip, Done
<1>15. ASSUME NEW t \in Owners, RemoveTree(t) PROVE Quiet'
  BY <1>15 DEF RemoveTree, Done
<1>16. ASSUME NEW t \in Owners, RemoveFails(t) PROVE Quiet'
  BY <1>16 DEF RemoveFails, Skip, Done
<1>17. ASSUME NEW b \in Runs, DeleteBranch(b) PROVE Quiet'
  BY <1>17 DEF DeleteBranch, Delete
<1>18. ASSUME PlanFacts PROVE Quiet'
  BY <1>18 DEF PlanFacts
<1>19. ASSUME PlanItems PROVE Quiet'
  BY <1>19 DEF PlanItems
<1>20. ASSUME Precheck PROVE Quiet'
  BY <1>20 DEF Precheck
<1>21. ASSUME Bundle PROVE Quiet'
  BY <1>21 DEF Bundle, Over
<1>22. ASSUME BundleFails PROVE Quiet'
  BY <1>22 DEF BundleFails, Over
<1>23. ASSUME ReadHeads PROVE Quiet'
  BY <1>23 DEF ReadHeads
<1>24. ASSUME Finish PROVE Quiet'
  BY <1>24 DEF Finish, Over
<1>25. ASSUME Abort PROVE Quiet'
  BY <1>25 DEF Abort, Over
<1>26. CASE UNCHANGED vars
  BY <1>26
<1> QED BY <1>1, <1>2, <1>3, <1>4, <1>5, <1>6, <1>7, <1>8, <1>9, <1>10, <1>11,
      <1>12, <1>13, <1>14, <1>15, <1>16, <1>17, <1>18, <1>19, <1>20, <1>21, <1>22,
      <1>23, <1>24, <1>25, <1>26 DEF Next, Run, Apply

(* The initial states are leftovers: nothing is planned yet. *)
LEMMA InitInv == Init => Inv
<1> SUFFICES ASSUME Init PROVE Inv
  OBVIOUS
<1>1. ReclaimTypeOK
  BY ReclaimAssumption DEF Init, ReclaimTypeOK, Owners, AllItems, Items, Facts
<1>2. NoCommitLost /\ Bundled /\ Taken /\ Alone /\ Quiet
  BY DEF Init, NoCommitLost, Bundled, Taken, Alone, Quiet, Items, Owners
<1> QED BY <1>1, <1>2 DEF Inv

LEMMA InvInvariant == Spec => []Inv
<1>1. Inv /\ [Next]_vars => Inv'
  BY TypeStep, BundledStep, CommitsStep, TakenStep, AloneStep, QuietStep DEF Inv
<1> QED BY InitInv, <1>1, PTL DEF Spec

-----------------------------------------------------------------------------
(* Types. *)
THEOREM ReclaimTypeCorrect == Spec => []ReclaimTypeOK
<1>1. Inv => ReclaimTypeOK
  BY DEF Inv
<1> QED BY InvInvariant, <1>1, PTL

(* Whoever commits while a plan is carried out, every commit on a branch of *)
(* WAO stays reachable, from the branch or from a verified bundle.          *)
THEOREM NoCommitLostCorrect == Spec => []NoCommitLost
<1>1. Inv => NoCommitLost
  BY DEF Inv
<1> QED BY InvInvariant, <1>1, PTL

(* A worktree that stays does not go down with the one around it.           *)
THEOREM NoCollateralCorrect == Spec => NoCollateral
<1>1. Inv /\ [Next]_vars =>
        [\A t \in Owners : Removes(t) => \A u \in Within(t) : tree[u] = "present" => u \in late]_vars
  BY DEF Inv, Alone, Removes
<1> QED BY InvInvariant, <1>1, PTL DEF Spec, NoCollateral

(* No worktree is removed under a run that was at work when the transcripts *)
(* of its lineage were last read.                                           *)
THEOREM LiveKeepsTreeCorrect == Spec => LiveKeepsTree
<1>1. Inv /\ [Next]_vars =>
        [\A t \in Owners : Removes(t) => \A r \in Runs : Place[r] = t /\ log[r] = "live" => r \in late]_vars
  BY DEF Inv, Quiet, Removes
<1> QED BY InvInvariant, <1>1, PTL DEF Spec, LiveKeepsTree

=============================================================================
