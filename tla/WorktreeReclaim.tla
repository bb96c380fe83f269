---------------------------- MODULE WorktreeReclaim ----------------------------
(***************************************************************************)
(* `wao worktree reclaim` (application/worktreeReclaim.js): worktrees and  *)
(* wao branches that are left over are removed by a plan that is only      *)
(* read, approved by its hash and carried out later, while runs are        *)
(* dispatched, continued, ended and decided, and the Lead commits, moves   *)
(* and removes things by hand.                                             *)
(*                                                                         *)
(* A run that owns a worktree has the worktree, the branch wao/<run> and a *)
(* transcript under one name; a continuation works in its root's worktree  *)
(* and has a branch of its own.  A commit is the number of commits on its  *)
(* branch, and the uncommitted content of a worktree a version number.     *)
(***************************************************************************)
EXTENDS Naturals

CONSTANTS
    Runs,        \* the runs
    Place,       \* the run that owns the worktree a run works in
    Roots,       \* the owners that may be continued
    Inside,      \* <<u, t>>: the worktree of u is below that of t
    Acts,        \* what else may happen: hand, git, crash
    MaxCommits,  \* bound on the commits of a branch
    MaxContent,  \* bound on the versions of a worktree's content
    MaxPlans     \* bound on the plans

Owners == {t \in Runs : Place[t] = t}
Within(t) == {u \in Owners : <<u, t>> \in Inside}
Around(u) == {t \in Owners : <<u, t>> \in Inside}

ASSUME ReclaimAssumption ==
    /\ Place \in [Runs -> Runs]
    /\ \A r \in Runs : Place[Place[r]] = Place[r]
    /\ Roots \subseteq Owners
    /\ Inside \subseteq Owners \X Owners
    /\ \A t \in Owners : <<t, t>> \notin Inside
    /\ MaxCommits \in Nat /\ MaxContent \in Nat /\ MaxPlans \in Nat

VARIABLES
    log,         \* the state of a run's transcript
    delivery,    \* what became of its delivery
    closed,      \* the roots whose lineage is closed
    call,        \* where a continuation is before its transcript exists
    tree,        \* a worktree: none, present, gone, or missing (still registered)
    head,        \* the branch it is on
    content,     \* the version of what is uncommitted in it, 0 when clean
    ref,         \* the commit a branch points at, 0 when there is no such branch
    top,         \* the last commit there ever was on it
    phase,       \* of the plan and its application
    fit,         \* what the plan read in the transcripts
    tip,         \* the commits the items name
    approved,    \* the content they name
    todo,        \* its items, worktrees and branches, that are still to be dealt with
    going,       \* reclaimTreeReals: worktrees taken for removed or to be removed
    look,        \* what has been verified of the worktree that is next
    barred,      \* branches that must stay
    saved,       \* <<branch, commit>> in the verified bundles
    late,        \* runs that came after the last look at their worktree
    plans        \* how many plans there were

runVars == <<log, delivery, closed, call>>
gitVars == <<tree, head, content, ref, top>>
planVars == <<fit, tip, approved, plans>>
applyVars == <<todo, going, look, barred, saved>>
vars == <<runVars, gitVars, phase, planVars, applyVars, late>>

Items(trees, branches) == [trees |-> trees, branches |-> branches]
Facts(settled, bare) == [settled |-> settled, bare |-> bare]

(* Leftovers of every kind, and worktrees that do not exist yet. *)
Init ==
    /\ log \in [Runs -> {"absent", "ended"}]
    /\ \A r \in Runs \ Owners : log[r] = "absent"
    /\ delivery \in [Runs -> {"none", "packaged", "accepted"}]
    /\ \A r \in Runs : log[r] = "absent" => delivery[r] = "none"
    /\ closed = {}
    /\ call = [r \in Runs |-> "idle"]
    /\ tree = [t \in Owners |-> IF log[t] = "ended" THEN "present" ELSE "none"]
    /\ head = [t \in Owners |-> t]
    /\ content \in [Owners -> {0, 1}]
    /\ \A t \in Owners : log[t] = "absent" => content[t] = 0
    /\ ref = [r \in Runs |-> IF log[r] = "ended" THEN 1 ELSE 0]
    /\ top = ref
    /\ phase = "none"
    /\ fit = Facts({}, {})
    /\ tip = [r \in Runs |-> 0]
    /\ approved = [t \in Owners |-> 0]
    /\ todo = Items({}, {})
    /\ going = {}
    /\ look = [t \in Owners |-> "none"]
    /\ barred = {}
    /\ saved = {}
    /\ late = {}
    /\ plans = 0

Members(t) == {r \in Runs : Place[r] = t /\ log[r] # "absent"}

Exists(b) == ref[b] > 0

-----------------------------------------------------------------------------
(* Runs, and what a Lead does by hand. *)

(* The transcript of a run comes before its worktree. *)
Dispatch(t) ==
    /\ t \in Owners /\ log[t] = "absent"
    /\ log' = [log EXCEPT ![t] = "live"]
    /\ UNCHANGED <<delivery, closed, call, gitVars, phase, planVars, applyVars, late>>

(* git worktree add, in the repository the run was dispatched from. *)
AddTree(t) ==
    /\ t \in Owners /\ log[t] = "live" /\ tree[t] = "none"
    /\ \A o \in Around(t) : tree[o] = "present"
    /\ tree' = [tree EXCEPT ![t] = "present"]
    /\ ref' = [ref EXCEPT ![t] = 1]
    /\ top' = [top EXCEPT ![t] = 1]
    /\ late' = IF \E o \in Around(t) : look[o] # "none" THEN late \cup {t} ELSE late
    /\ UNCHANGED <<runVars, head, content, phase, planVars, applyVars>>

(* A continuation has found the lineage open and its root continuable. *)
ContinueCheck(c) ==
    /\ c \in Runs \ Owners /\ call[c] = "idle"
    /\ Place[c] \in Roots /\ log[Place[c]] = "ended"
    /\ Place[c] \notin closed /\ delivery[Place[c]] # "accepted"
    /\ call' = [call EXCEPT ![c] = "checked"]
    /\ UNCHANGED <<log, delivery, closed, gitVars, phase, planVars, applyVars, late>>

ContinuePrepare(c) ==
    /\ call[c] = "checked" /\ tree[Place[c]] = "present"
    /\ call' = [call EXCEPT ![c] = "prepared"]
    /\ head' = [head EXCEPT ![Place[c]] = c]
    /\ ref' = [ref EXCEPT ![c] = 1]
    /\ top' = [top EXCEPT ![c] = 1]
    /\ UNCHANGED <<log, delivery, closed, tree, content, phase, planVars, applyVars, late>>

ContinueSubmit(c) ==
    /\ call[c] = "prepared" /\ log[c] = "absent"
    /\ log' = [log EXCEPT ![c] = "live"]
    /\ late' = IF look[Place[c]] = "cleared" THEN late \cup {c} ELSE late
    /\ UNCHANGED <<delivery, closed, call, gitVars, phase, planVars, applyVars>>

Works(r) == log[r] = "live" /\ tree[Place[r]] = "present" /\ head[Place[r]] = r

Write(r) ==
    /\ Works(r) /\ content[Place[r]] < MaxContent
    /\ content' = [content EXCEPT ![Place[r]] = @ + 1]
    /\ UNCHANGED <<runVars, tree, head, ref, top, phase, planVars, applyVars, late>>

(* What the run wrote is committed as its delivery. *)
Complete(r) ==
    /\ Works(r)
    /\ Exists(r) /\ ref[r] < MaxCommits
    /\ ref' = [ref EXCEPT ![r] = @ + 1]
    /\ top' = [top EXCEPT ![r] = ref[r] + 1]
    /\ content' = [content EXCEPT ![Place[r]] = 0]
    /\ delivery' = [delivery EXCEPT ![r] = "packaged"]
    /\ log' = [log EXCEPT ![r] = "ended"]
    /\ UNCHANGED <<closed, call, tree, head, phase, planVars, applyVars, late>>

Fail(r) ==
    /\ log[r] = "live"
    /\ log' = [log EXCEPT ![r] = "ended"]
    /\ UNCHANGED <<delivery, closed, call, gitVars, phase, planVars, applyVars, late>>

Decide(r) ==
    /\ delivery[r] = "packaged"
    /\ \E decision \in {"accepted", "rejected"} : delivery' = [delivery EXCEPT ![r] = decision]
    /\ UNCHANGED <<log, closed, call, gitVars, phase, planVars, applyVars, late>>

CloseLineage(t) ==
    /\ t \in Roots \ closed
    /\ Members(t) # {} /\ \A r \in Members(t) : log[r] = "ended"
    /\ closed' = closed \cup {t}
    /\ UNCHANGED <<log, delivery, call, gitVars, phase, planVars, applyVars, late>>

(* The Lead commits to a branch. *)
HandCommit(b) ==
    /\ "hand" \in Acts
    /\ Exists(b) /\ ref[b] < MaxCommits
    /\ ref' = [ref EXCEPT ![b] = @ + 1]
    /\ top' = [top EXCEPT ![b] = ref[b] + 1]
    /\ UNCHANGED <<runVars, tree, head, content, phase, planVars, applyVars, late>>

(* A directory is deleted with all that is below it, and Git not told. *)
HandRemove(t) ==
    /\ "hand" \in Acts
    /\ t \in Owners /\ tree[t] = "present"
    /\ tree' = [u \in Owners |-> IF tree[u] = "present" /\ u \in {t} \cup Within(t) THEN "missing" ELSE tree[u]]
    /\ UNCHANGED <<runVars, head, content, ref, top, phase, planVars, applyVars, late>>

-----------------------------------------------------------------------------
(* The plan. *)

(* A continued lineage is over when it is closed or one of its deliveries   *)
(* is accepted, and no member is at work; any other run is on its own.      *)
LineageOver(t) ==
    /\ \A r \in Members(t) : log[r] # "live"
    /\ t \in Roots => t \in closed \/ \E r \in Members(t) : delivery[r] = "accepted"

(* buildTranscriptFacts, and classes 3 to 5 as far as transcripts tell.     *)
PlanFacts ==
    /\ phase = "none" /\ plans < MaxPlans
    /\ LET over == {r \in Runs : log[r] = "ended" /\ LineageOver(Place[r])}
           settled == {r \in over : delivery[r] \in {"accepted", "rejected"} \/ Place[r] \in closed} IN
       fit' = Facts(settled, {r \in over \ settled : delivery[r] = "none"})
    /\ phase' = "facts"
    /\ plans' = plans + 1
    /\ UNCHANGED <<runVars, gitVars, tip, approved, applyVars, late>>

(* What Git says of a run and its worktree: registered and there or not at  *)
(* all, on its owner's branch, and clean unless it may be discarded.        *)
Candidate(r) ==
    /\ r \in Owners => tree[r] # "missing" /\ (tree[r] = "present" => head[r] = r)
    /\ \/ r \in fit.settled
       \/ r \in fit.bare /\ (tree[Place[r]] = "present" => content[Place[r]] = 0)

(* Some run of a worktree is kept, or a worktree below it. *)
Withheld(t, candidates) ==
    /\ tree[t] = "present"
    /\ \/ Members(t) \ candidates # {}
       \/ \E u \in Within(t) : tree[u] = "present" /\ (u \notin candidates \/ Members(u) \ candidates # {})

(* The items; others may be kept because their commits are referenced       *)
(* somewhere or a fact could not be read.                                   *)
PlanItems ==
    /\ phase = "facts"
    /\ \E others \in SUBSET Runs :
         LET candidates == {r \in Runs \ others : Candidate(r)}
             free == {r \in candidates : ~Withheld(Place[r], candidates)} IN
         todo' = Items({t \in free \cap Owners : tree[t] = "present"}, {b \in free : Exists(b)})
    /\ tip' = [b \in Runs |-> IF b \in todo'.branches THEN ref[b] ELSE 0]
    /\ approved' = [t \in Owners |-> IF t \in todo'.trees THEN content[t] ELSE 0]
    /\ fit' = Facts({}, {})
    /\ phase' = "planned"
    /\ UNCHANGED <<runVars, gitVars, plans, going, look, barred, saved, late>>

-----------------------------------------------------------------------------
(* Its application. *)

(* A command that has ended knows nothing of what it dealt with.            *)
Over ==
    /\ phase' = "none"
    /\ fit' = Facts({}, {})
    /\ todo' = Items({}, {})
    /\ tip' = [b \in Runs |-> 0] /\ approved' = [t \in Owners |-> 0]
    /\ going' = {} /\ barred' = {} /\ late' = {}
    /\ look' = [t \in Owners |-> "none"]
    /\ UNCHANGED plans

(* A branch that has moved since is left alone. *)
Precheck ==
    /\ phase = "planned"
    /\ todo' = [todo EXCEPT !.branches = {b \in @ : ref[b] = tip[b]}]
    /\ going' = todo.trees
    /\ phase' = "checked"
    /\ UNCHANGED <<runVars, gitVars, planVars, look, barred, saved, late>>

(* All branches go into one bundle, whose heads must be what was approved.  *)
Bundle ==
    /\ phase = "checked"
    /\ IF \A b \in todo.branches : ref[b] = tip[b]
         THEN /\ saved' = saved \cup {<<b, tip[b]>> : b \in todo.branches}
              /\ phase' = "trees"
              /\ UNCHANGED <<planVars, todo, going, look, barred, late>>
         ELSE Over /\ UNCHANGED saved
    /\ UNCHANGED <<runVars, gitVars>>

BundleFails ==
    /\ "git" \in Acts
    /\ phase = "checked" /\ todo.branches # {}
    /\ Over
    /\ UNCHANGED <<runVars, gitVars, saved>>

(* The deepest worktrees come first. *)
IsNext(t) == phase = "trees" /\ t \in todo.trees /\ Within(t) \cap todo.trees = {}

Done(t) ==
    /\ todo' = [todo EXCEPT !.trees = @ \ {t}]
    /\ look' = [look EXCEPT ![t] = "none"]

(* Mutant of Skip: the worktree still counts as one that goes. *)
SkipQuietly(t) ==
    /\ Done(t)
    /\ barred' = barred \cup {t}
    /\ UNCHANGED <<going, saved, gitVars>>

(* A worktree that stays keeps its branch and protects what it is in.       *)
Skip(t) ==
    /\ Done(t)
    /\ going' = going \ {t}
    /\ barred' = barred \cup {t}
    /\ UNCHANGED <<saved, gitVars>>

(* The first half of reverifyTreeBeforeRemoval: the worktree is there, at   *)
(* the branch, commit and content that were approved, with nothing          *)
(* registered in it that is to stay.                                        *)
Unchanged(t) ==
    /\ tree[t] = "present"
    /\ head[t] = t /\ ref[t] = tip[t] /\ content[t] = approved[t]
    /\ \A u \in Within(t) : tree[u] = "present" => u \in going

LookAtTree(t) ==
    /\ IsNext(t) /\ look[t] = "none"
    /\ \/ /\ Unchanged(t)
          /\ look' = [look EXCEPT ![t] = "looked"]
          /\ UNCHANGED <<todo, going, barred, saved, gitVars>>
       \/ /\ ~Unchanged(t) \/ "git" \in Acts
          /\ Skip(t)
    /\ UNCHANGED <<runVars, phase, planVars, late>>

(* Mutant of Active: only the owner's transcript is asked. *)
OwnerActive(t) == log[t] # "ended"

(* stillActiveFromDisk for every run that declares the worktree or belongs  *)
(* to its lineage, by the transcripts as they are now.                      *)
Active(t) == log[t] = "absent" \/ \E r \in Members(t) : log[r] # "ended"

(* The second half, which reads the transcripts.  A run that ended in the   *)
(* last quarter of an hour counts as active; when one ended is left open.   *)
LookAtRuns(t) ==
    /\ look[t] = "looked"
    /\ \/ Skip(t)
       \/ /\ ~Active(t)
          /\ look' = [look EXCEPT ![t] = "cleared"]
          /\ UNCHANGED <<todo, going, barred, saved, gitVars>>
    /\ UNCHANGED <<runVars, phase, planVars, late>>

(* git worktree remove --force takes all that is below with it.             *)
RemoveTree(t) ==
    /\ look[t] = "cleared"
    /\ Done(t)
    /\ tree' = [u \in Owners |->
                  IF u = t THEN "gone"
                  ELSE IF u \in Within(t) /\ tree[u] = "present" THEN "missing" ELSE tree[u]]
    /\ UNCHANGED <<runVars, head, content, ref, top, phase, planVars, going, barred, saved, late>>

(* The snapshot of a dirty worktree cannot be written, or Git fails to      *)
(* remove the worktree.                                                     *)
RemoveFails(t) ==
    /\ "git" \in Acts
    /\ look[t] = "cleared"
    /\ Skip(t)
    /\ UNCHANGED <<runVars, phase, planVars, late>>

(* The worktrees are done with: what is checked out is read once, and a     *)
(* branch of a registration without a directory is not touched either.      *)
ReadHeads ==
    /\ phase = "trees" /\ todo.trees = {}
    /\ barred' = barred \cup {head[t] : t \in {u \in Owners : tree[u] \in {"present", "missing"}}}
    /\ phase' = "branches"
    /\ going' = {} /\ late' = {}
    /\ UNCHANGED <<runVars, gitVars, planVars, todo, look, saved>>

(* Mutant of Delete: the branch is deleted whatever it points at by now. *)
DeleteAnyway(b) == ref' = [ref EXCEPT ![b] = 0]

(* update-ref -d compares: a branch that has moved stays. *)
Delete(b) == ref' = IF ref[b] = tip[b] THEN [ref EXCEPT ![b] = 0] ELSE ref

DeleteBranch(b) ==
    /\ phase = "branches" /\ b \in todo.branches
    /\ todo' = [todo EXCEPT !.branches = @ \ {b}]
    /\ IF b \in barred THEN UNCHANGED ref ELSE Delete(b)
    /\ UNCHANGED <<runVars, tree, head, content, top, phase, planVars, going, look, barred, saved, late>>

Finish ==
    /\ phase = "branches" /\ todo.branches = {}
    /\ Over
    /\ UNCHANGED <<runVars, gitVars, saved>>

(* The command dies, or finds the registrations unreadable or something     *)
(* else in its way.                                                         *)
Abort ==
    /\ "crash" \in Acts
    /\ phase # "none"
    /\ Over
    /\ UNCHANGED <<runVars, gitVars, saved>>

-----------------------------------------------------------------------------
Run(r) ==
    \/ Dispatch(r) \/ AddTree(r)
    \/ ContinueCheck(r) \/ ContinuePrepare(r) \/ ContinueSubmit(r)
    \/ Write(r) \/ Complete(r) \/ Fail(r) \/ Decide(r) \/ CloseLineage(r)
    \/ HandCommit(r) \/ HandRemove(r)

Apply ==
    \/ Precheck \/ Bundle \/ BundleFails
    \/ \E t \in Owners : LookAtTree(t) \/ LookAtRuns(t) \/ RemoveTree(t) \/ RemoveFails(t)
    \/ ReadHeads \/ (\E b \in Runs : DeleteBranch(b)) \/ Finish \/ Abort

(* What comes after the last plan is of no interest. *)
Next == ((plans < MaxPlans \/ phase # "none") /\ \E r \in Runs : Run(r)) \/ PlanFacts \/ PlanItems \/ Apply

Spec == Init /\ [][Next]_vars

-----------------------------------------------------------------------------
(* Properties. *)

AllItems == [trees : SUBSET Owners, branches : SUBSET Runs]

(* Type correctness of runs, worktrees, branches, plan and application. *)
ReclaimTypeOK ==
    /\ log \in [Runs -> {"absent", "live", "ended"}]
    /\ delivery \in [Runs -> {"none", "packaged", "accepted", "rejected"}]
    /\ closed \subseteq Roots
    /\ call \in [Runs -> {"idle", "checked", "prepared"}]
    /\ tree \in [Owners -> {"none", "present", "gone", "missing"}]
    /\ head \in [Owners -> Runs]
    /\ content \in [Owners -> Nat]
    /\ ref \in [Runs -> Nat] /\ top \in [Runs -> Nat]
    /\ phase \in {"none", "facts", "planned", "checked", "trees", "branches"}
    /\ fit \in [settled : SUBSET Runs, bare : SUBSET Runs]
    /\ todo \in AllItems
    /\ tip \in [Runs -> Nat] /\ approved \in [Owners -> Nat]
    /\ going \subseteq Owners /\ barred \subseteq Runs
    /\ look \in [Owners -> {"none", "looked", "cleared"}]
    /\ saved \subseteq Runs \X Nat
    /\ late \subseteq Runs
    /\ plans \in Nat

(* A branch that must go is in a bundle first: every commit that was ever   *)
(* made on a branch of WAO can still be reached, from the branch or from a  *)
(* bundle, whoever commits while a plan is being carried out.               *)
NoCommitLost == \A b \in Runs : ref[b] = top[b] \/ <<b, top[b]>> \in saved

Removes(t) == look[t] = "cleared" /\ tree[t] = "present" /\ tree'[t] = "gone"

(* A worktree that stays does not go down with the one around it, but for   *)
(* one that was added after the last look at the outer one.                 *)
NoCollateral ==
    [][\A t \in Owners : Removes(t) =>
         \A u \in Within(t) : tree[u] = "present" => u \in late]_vars

(* The worktree of a run that is at work is not removed, whenever it joined *)
(* between the plan and the last look at the transcripts.                   *)
LiveKeepsTree ==
    [][\A t \in Owners : Removes(t) =>
         \A r \in Runs : Place[r] = t /\ log[r] = "live" => r \in late]_vars

=============================================================================
