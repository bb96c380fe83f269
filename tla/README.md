# Verification of the Windows Agent Orchestrator

The Windows Agent Orchestrator (WAO) lets a Lead (a human or a coding agent) dispatch work to coding-agent workers,
supervise them, package what they deliver as a Git commit, verify it and accept or reject it. This directory keeps
TLA+ models of the control plane behind that, TLC runs that check them on small instances, and TLAPS proofs of the
properties that matter most. Source paths below are relative to `src/src/`.

Contents: 1 the system, 2 modules, 3 runs, 4 proofs, 5 findings, 6 what is left out, 7 plan.

## 1. The system

There is no server in the middle. Every run has one *transcript*, an append-only JSONL file, and every process that has
something to do with the run (its runner, `wao stop`, `wao settle`, a daemon, the MCP server on behalf of the Lead) reads
that file, decides, and appends. A lock file beside the transcript makes read, decide and append one step. Everything
else (process ids, the owner lease, the worktree) is looked at outside the lock and may have changed by the time of the
append. So the hard question is nearly always the same: is a decision made from facts that were read earlier still right
when it is recorded?

| Component | State | Operations | Interacts with | What makes it correct |
|---|---|---|---|---|
| Append lock (`transcript.js:2671-2744`) | lock file: absent, empty, or stamped with pid and time | acquire with retry, stale removal and deadline; release | every writer of a transcript | one holder at a time; no caller waits for ever; a lock left behind is recovered |
| Append primitives (`transcript.js`) | the transcript; seq numbers | `append`, `transitionState`, `tryAppend...`, `appendReadOnlyDeclared` | the lock; all components below | each is an atomic compare-and-set; first terminal wins; a torn file is not written to |
| Supervision of a delivery run (`runManager.js`, `backgroundRunner.js`) | where the await chain of `_waitForCompletion` is; the worker process; the abort flag; the owner lease | end of stream, scorecard, packaging, terminal claim, cleanup, verification, abort, resume | stop, settle, recovery, daemon | one terminal state; one delivery; an ended run gets its state, a completed delivery its outcome |
| Stop and settle (`application/runStop.js`, `runSettle.js`) | what was read before | claim then kill; gates then claim | runner, daemon, transcript | a run that is settled as dead is dead |
| Recovery (`application/runDeliveryRepackage.js`, `processRecovery.js`) | what was proved before | prove missing, settle, package, verify, each phase reentrant | runner, lease, other callers | one delivery; never package under a living worker |
| Reverification and decision (`runDeliveryReverify.js`, `runDelivery.js`) | the chain of attempts | request, outcome, accept, reject | each other, late verifications | facts stay valid; nothing reopens after a decision |
| In-flight corrections (`application/runCorrection.js`, `runManager.js`) | correction events; the runner's loop; `_correctionsClosed` | queue, claim, send, record, reject | Leads, stop, interrupt, crash, resume | sent at most once; nobody is told of somebody else's words; nothing is left pending |
| Daemon and supervisor (`daemon.js`, `daemonSupervisor.js`) | handshake file, list of its runs | scan and resume, IPC, restart | lease, runners | never a second driver |
| Session reuse and lineage (`application/sessionReuse.js`, `runContinue.js`, `runDispatch.js`) | routing entries, lineage slots; the worktree a lineage shares and the branch it is on | first, resume or busy; continue, roll back | runner, stop, settle, close, reclaim | one conversation is never driven twice, never forks, and a failed one is not taken up again; a worktree has one user |
| Lineage close (`application/lineageClose.js`) | `run.lineage_closed` in the root's transcript | list, gate, mark, remove | continue | what is removed belongs to a run that has ended |
| Worktree reclaim (`application/worktreeReclaim.js`) | a plan with hash, items and fingerprints; a bundle | plan, apply | running runs, continue, close, the Lead's hands | no commit is lost, no tree in use and no tree that stays is removed |
| Verification gate (`verificationGate.js`) | machine-wide lease file | acquire, heartbeat, release, take over, fail open | all verifiers | one verification at a time; nobody waits for ever |
| Run identity and buckets (`projectBuckets.js`, `application/runsMigrateProjects.js`) | claim generations of a run id; the record in each bucket; `.index.json`; where a run's transcript is | resolve, claim, release, find or create a bucket, migrate | dispatch, foreground start, continuation | one transcript per run id; one bucket per project; nothing written is lost |
| Kimi serve maintenance (`backends/kimiServe*.js`, `application/serveMaintenance.js`) | the start lock; each kimi process with its sessions and turns; what watchers and recycle saw | start on demand, settle the own child, watch for idleness, recycle | dispatches (`kimiWeb.js`), kimi, each other | no serve is shut down on a turn its closer could see; a surplus process leaves; an idle serve exits |
| Waiting and projections (`runWait.js`, `runAwaitResult.js`, ...) | cursors | poll, fold | transcript | an answer once final stays so |
| Consultations, dispatch, backends, surfaces, registry | see `PROJECT.json` | | | |

`PROJECT.json` lists every component with its files and says of each why it is modelled or not, and every hazard at its
line. What is hard in this code, by kind: two actors that both read before either appends; packaging, proving and
scanning, which take long, between a read and a write; the death of a runner between any two appends; retries of phases
that were done already; a lease that is stale although its owner lives; an abort that runs beside the wait loop it ends.

## 2. Modules

| Module | Models |
|---|---|
| `AppendLock` | `acquireAppendLock`, `removeStaleLock`, release, with deaths, suspensions and Windows' EPERM, at `open` and at every unlink |
| `AtomicTranscript` | the abstract specification: each primitive answers and appends in one step |
| `LockedTranscript` | a primitive as the code does it (acquire, read, write, release), mapped to `AtomicTranscript` |
| `DeliveryFacts` | the transcript of a delivery run and what its readers make of it (`findState`, `validateDeliveryFacts`, `pairReverifyLinks`, ...) |
| `DeliveryRun` | one delivery run and everybody who writes to its transcript |
| `Corrections` | the correction queue of a running worker |
| `SerializedVerification` | the abstract specification of the verification gate: verifications take turns until something goes wrong |
| `VerificationGate` | the lease file of the gate, file operation by file operation, mapped to `SerializedVerification` |
| `SessionReuse` | the slot of a conversation from claim to release, continuations with their worktree, runners around them, lineage close |
| `WorktreeReclaim` | plan and application of worktree reclaim, and everything that happens to runs, worktrees and branches meanwhile |
| `ServeMaintenance` | the kimi serve on its port, its start lock, the dispatches that use it, its idle watchers and recycle |
| `RunIdentity` | from the look for a transcript to its first event: claims, buckets, index, and the migration that moves transcripts |
| `...Proofs` | theorems; those of the append lock are in `LockedTranscriptProofs` |
| `MC...` | instances for TLC: symmetry sets only, no redefinition |

**AppendLock.** The lock file is `lockOwner` (who created the file that is there) and `metadata` (empty or stamped); a process
is at a step of the acquire loop (`pc`) with what it has read (`seenAge`). Time is `Tick`: ages run up to one past the bound
they are compared with, which is all the code can tell. `Crashes`, `Stalls` and `UnlinkFails` switch deaths, suspensions beyond the
stale bound and failing unlinks on and off. All three unlinks (release, stale removal, failed stamp) swallow their failure (`TryUnlink`), so a
living, idle process may leave its stamped lock behind. `disturbed` is a history variable, on which no step depends: it is set once a process
stalls past the stale bound (`Tick`), or once a second process has read a stale stamp while a first one has yet to deal with it (`ReadStamp`), for then
the slower one may unlink what the faster one has created since. Up to that moment exclusion is promised, whoever dies and whatever cannot be unlinked.

**LockedTranscript.** Adds `ledger`, `readable`, and the snapshot a holder has read. Four kinds of primitives stand for all of
them: an append without a condition, one that yields to an equal event, a terminal claim, and a claim that carries the seq
it was proved at. `AtomicTranscript` is instantiated over the same `ledger`, `call`, `answer` and `disturbed`; once disturbed it
allows `CommitLate` too, which decides on some past state of the transcript.

**DeliveryRun.** The ledger is a sequence of events with the fields the readers look at. A runner is at a place of
`_waitForCompletion`: `ended` (the stream is over), `score`, `note`, `check`, `package`, `claim`, `cleanup`, `verify`, `exit`; every
await of the code is a point where others may act. `Claim` is `transitionState`: *attempts* are written in any case, *facts*
only with an accepted transition. An actor that reads and writes later is modelled by the prefix it has read: any prefix of
today's ledger will do, so one variable-free action stands for any number of callers, retries and delays. `host` is how a
runner is hosted (foreground `wao run`, detached background, foreground `wao resume`, daemon), which decides who writes a lease
and whom the process scan of `wao settle` recognises.

**Corrections.** Which events decide about a correction does not depend on their order, because an id is requested once, so
the transcript is a set here. A run_correct call is `idle`, `queueing` (it has read without the lock) or `answered`; the
runner's loop is at `polling`, `claiming`, `sending`, `recording` and the steps of its end; `closed` is `_correctionsClosed`.

**VerificationGate.** A verifier is one call of `acquire` with its token. The file is `owner` (whose token it holds, or who created it),
`content` (`empty` between create or truncate and write, else `record`), `stamp` (fresh or stale) and `writers` (who has it open).
`place` follows acquire and release: `claiming` (open with `wx`), `opened` (before the write), `looking`, `comparing` and `unlinking` (the two halves of
`reclaimIfSame`), `verifying`, `deleting`, `ungated` (fail-open), `done`, `dead`; `heart` the heartbeat loop beside it. `sight` is what a
waiter has read and wants to remove, `grace` its `corruptSeenAt`, `misses` and `refusals` its two counters, `over` the holders past the
130 min cap. Each fault (`crash`, `stall`, `hang`, `io`, `break`) is a member of `Faults` and sets `disturbed`. A beat is not interrupted by
the rest of its own process, because its calls are synchronous.

**SessionReuse.** One slot, of either mode. A run stands for the call that dispatches or continues it (`caller`) and for its runner (`runner`). Decision and
write of the slot are one step, because both happen under the key lock; between the claim, the worktree transition, the first
event, the pending state, the launch and each step of a rollback everybody else may act, and time may pass (`EntryAges`, at any moment: a
slow caller is not distinguished from a dead one, as in the code). `tree` is the branch the lineage's worktree is on, `ref` where each
branch points: at `Base` or at a run's delivery. `closer` is a call of lineage-close with what it has read.

**WorktreeReclaim.** A commit is a position on its branch and `top` remembers the highest, so that a commit that cannot be reached any
more is seen. `Place` says whose worktree a run works in (a continuation: its root's) and `Inside` which worktrees are nested. `phase` follows a plan: `facts` (transcripts read,
Git not yet), `planned`, `checked`, `trees`, `branches`; `look` the verification of the worktree that is next, first against Git, then
against the transcripts; `going` is `reclaimTreeReals`, `barred` stands for `failedBranches`, stale registrations and checked-out branches. That an item may be
kept for a reason outside the model (a reference in a document, an event of the last quarter of an hour, a fact that could not be read) is a free choice in
`PlanItems` and `LookAtRuns`. `late` is no variable of the code: it names the runs that came after the last look at their worktree, which no check can see.

**ServeMaintenance.** A watcher is named by the serve it watches. `at` is where each dispatch, watcher and the recycle is in its await chain, `serve` the life of each
kimi process (`beside`: it found the port taken and bound the next, while its launcher still looks for it; `stray`: when it no longer did), `lock` the
start lock file with the age its readers see, `look` what the last read of the session lists showed. `acquireServeStartLock` is four steps, because between its judgement and its unlink the
file may be another's (`Judge`, `Unlink`), and a recycle writes the lock over whoever holds it (`HoldLock`). A turn belongs to the serve at the port and ends with it; sessions belong to the
home directory and outlive it. The header of the module names the four facts about time that it keeps: a lock in the hands of a living dispatch or watcher does not reach
its 120 s (their waits add up to less; those of a recycle do not, so its lock may), a serve is up within the ready deadline unless `"slow"` is in `Faults`, threshold and blind ticks of a watcher last longer than
a slow start, and a new session gets its prompt within a poll (60 s) or a soak (12 s).

**RunIdentity.** A writer is one call of `dispatchRun`, of a foreground `start()` or of the migration; `step` is where it is, and a step ends at a file operation. The `.claims` files of a run id are the sequence
`claims`: an entry is a generation, created by `wx` once and for all, `held`, `overdue` (its file is older than `CLAIM_STALE_MS`) or `released`. `record` is the `.project.json` of each directory, which is created and then
written, so that others may read half of it. A look for a transcript is two steps, flat layer and buckets; a scan of all records and a saved index are one each. A transcript file is named by who created it, its text is
who wrote to it, and `at` gives its name or names: `linkSync` gives it a second one, and a writer that resolved a path before creates the file anew if it is gone. `fresh` and `founded` are no variables of the code: they record
whose look began when the run had no transcript, and who has written a first event under a claim. Two or three writers are enough for each hazard: one that looked, one that overtakes it, and a migration or a third name to collide with. In `identity` only the migration has a step of dying, since that starts it again; a dispatch that dies is one that takes no further step.

Abstractions, all of them: paths, scopes, commit ids, texts and pids are gone (a pid is never reused); a scorecard passes or fails;
packaging gives a commit or a code of failure; a kill works or is seen not to; the quiet window of the owner lease is its
being fresh or stale. Bounds that are in the actions: each resuming runner resumes once, a runner is aborted
once, a recoverer proves once, there is one `wao stop` and one settle write; each Lead makes one run_correct call. In
`LockedTranscript` `MaxCalls` bounds the calls; in `VerificationGate` each verifier calls `acquire` once; in `SessionReuse` each run is
dispatched once; in `WorktreeReclaim` `MaxCommits`, `MaxContent` and `MaxPlans` bound commits, versions and plans; in `ServeMaintenance` there is one recycle,
each dispatch has one turn, and `Serves` bounds the launches (a launch with none left fails, which it may anyway); in `RunIdentity` each writer
calls once, only a killed migration is started again, `Chain` has one or two names where the code has 29, and no two migrations are about one run (`IdentityAssumption`: an operator's command).

## 3. Runs

| Run | Instance | Shows |
|---|---|---|
| `lock_live` | 2 processes, deaths, stalls, failing unlinks, `TimeoutMs` 0 < `StaleMs` 1 | an acquisition returns or throws; a stamped lock that was left behind, by a death or a release that could not unlink, is removed |
| `transcript` | 2 processes, deaths (inside `appendFile` too), failing unlinks, 4 kinds, 3 calls | until a disturbance: the primitives implement `AtomicTranscript` (seqs by position, one accepted terminal claim also across a recovered lock, nothing after a torn line); mutual exclusion; a proved claim directly follows what it was proved on. After one: each batch is decided on a past transcript |
| `recover` | 1 runner, 2 repackage calls, scorecard, crash, decision, reverifications, both contracts, 3 endings | one delivery; an outcome is of a completed or recovered delivery; an accepted delivery stays acceptable; chains stay well formed and valid facts valid, also those of a recovered delivery; repackaging never happens under a living worker |
| `settle` | first runner and a foreground or background resume, refusals, stalls, crash, settle, 4 endings | first terminal wins; a run settled as dead has no driver, save one that has spawned and recorded nothing |
| `delivery_live` | background runner, crash, a daemon that resumes, abort, stop, reverifications, decision, 4 endings, fairness | never two drivers; unless its runner dies, an ended stream gets a terminal state and a completed delivery its outcome; a decision ends reverification |
| `corrections` | 2 Leads, 2 ids, 2 prompts, all disturbances, fairness | sent once; nobody misled; nothing outstanding after cleanup; pending is claimed or rejected |
| `gate` | 2 verifiers, all faults, `MaxFailures` 2, fairness | verifications take turns until something goes wrong; every wait ends; two holders that believe in themselves do not go on doing so |
| `reuse` | 3 runs, both modes, deaths, stops, close | one driver per conversation; no fork; a worktree has one user; a failed conversation is not taken up; close removes only what has ended |
| `reuse_branch` | 3 runs, a lineage, no faults but launch failures | **violation**, see 5 |
| `reclaim` | an outer and an inner worktree, a continuation of the outer one, 2 commits, 1 plan, hand work, failing Git, crash | no commit lost; no collateral removal; a run at work keeps its worktree |
| `serve` | a new and a resumed dispatch, 3 kimi processes with watchers, a recycle; slow and failing starts, a crash of a serve, killed launchers, fairness | a turn is only shut down on by who could not have seen it; a process on the wrong port is asked to exit by its launcher; a watched serve does not stay up for ever |
| `identity` | a dispatch and a foreground start of one run, of two projects whose first names collide, a dispatch of another run of the first project, a migration of the first run's flat transcript, if there is one; any leftover records, right or wrong index, slow claims, EPERM and I/O errors, the migration killed and restarted | within its time a claim has one owner; a project gets one bucket and nobody another's; nobody founds a second transcript while the first one moves; nothing written is lost |

Why the bounds are enough: the races are between two parties over one object (the lock, the terminal state, the delivery, an
id, the lease); in `reuse` the third run is the one that overtakes a slow or dead second one, and in `reclaim` a worktree, one inside it and a
continuation are the smallest family in which a removal can take something with it; in `serve` three processes are the old one, the one that replaces it and the one launched in between;
in `identity` two writers want one run id and one bucket name, the third the bucket that the first creates, and the migration works between the look of a late writer and its claim. `MAX_CONSECUTIVE_READ_FAILURES` is 5 in the code and 2
in `gate`, which still has a first, a tolerated and a last failure; `IdlePolls` is 30 polls in the code and 1 in `serve`: two looks in a row, which is what decides, and the recheck. Stale reads are
not bounded at all (prefixes). The theorems of section 4 lift the most important results to any number. `CHECK_DEADLOCK FALSE` is
set wherever the system stops by design: all calls made, the run over.

Fairness. `lock_live`: time passes and a pending acquisition goes on (`WF`), because each is a loop over timers in a living
process; the recovery of a lock left behind also assumes a writer that keeps coming back (`WF` of `Begin`) and that Windows' errors are transient: some
`open` is answered EEXIST, some read of the stamp succeeds, some unlink works (`SF` of `OpenExists`, `ReadStamp` and a `RemoveStale` that unlinks). `delivery_live`: a living runner gets on with its await chain and an abort under way reaches its claim
(`WF` of `WindUp` and `AbortClaim`), and the properties set a runner that dies aside; nothing is assumed of the end of the stream, of Leads, or of callers. `corrections`: the
runner's loop goes on (`WF`); a lock that is asked for on every tick is had in the end (`SF` of `Claim`); and the worker of a run that
has been made terminal, which `wao stop` kills and `wao settle` has proved gone, ends its stream. `gate`: loops over timers in living processes go on and time passes (`WF`), the cap of a
holder included; a beat is an instant every 30 s and a waiter polls every second, so it does not meet the file empty, or a beat between
its reclaim and its next claim, every single time (`SF` of `Exists` and `Look` at a full record, and of `Create`). It is *not* assumed that a
verification ends, that a holder releases, or that I/O works. `TwoHoldersHeal` also assumes that beats come to rest, which they do between two of them.
`serve`: processes take their next step, kimi binds, exits and ends its turns, an abandoned lock grows old (`WF`); a start that gets no answer meets its deadline (`SF` of `GiveUp`), because
it is compared at every probe. No dispatch need begin, nobody need be killed, and a recycle need not be asked for.

Every property has a mutant (`PROJECT.json`): a plausible bug, such as a dropped look at the transcript under the lock, that TLC
finds under the very same configuration.

## 4. Proofs

All for any values of the constants, under the assumptions named in the modules.

`LockedTranscriptProofs`. Of the lock: `LockTypeCorrect` and `LockMutualExclusion` (`MutualExclusion`); of the primitives `TranscriptIsAtomic` (`ImplementsAtomic`), `ProofsStayCurrent` and `SeqsArePositions`; all of them for any number of
processes, with deaths, inside `appendFile` too, stalls and failing unlinks, and up to `disturbed` where the properties say so. The invariant of the lock, while undisturbed (`LockSound`): whoever holds owns the file (`OwnerHolds`); a stamp older than the
stale bound is not that of a holder (`StampsFresh`); one process at most doubts a stamp, and what it doubts is still there (`OneDoubter`, `DoubtFounded`), so that nobody can create a lock before it has unlinked. Of the primitives (`SnapshotCurrent`): a living process that has read
the transcript holds the lock, its snapshot is the ledger and its own seq the last one. That a snapshot is a prefix and no seq ahead of its position (`SnapshotPast`, `SeqsBounded`) holds always, which is what `CommitLate` needs. The write is then `Commit` or, once disturbed, `CommitLate`; an acquisition that throws and a read that meets a torn line are `Throw`, a
death inside `appendFile` is `Tear` or nothing, a disturbance `Disturb`, and every other step stutters. `KindsAssumption` says that the calls are of the four kinds.
`NothingDisturbs` says which faults the lock takes without being disturbed (`LockSuffices`): nobody stalls past the stale bound, every unlink works, and either nobody dies, for any number of processes, or at most two contend, both of which may die anywhere. Of three, two can
judge the stamp of a dead third; of two, both can judge the stamp that one of them could not remove.

`DeliveryRunProofs`. The types and all safety properties of the three runs of `DeliveryRun`, for any number of runners, repackage calls and stale readings, in four groups.

- Of every run: `TypeCorrect`, `OneTerminal` (`AtMostOneTerminal`), `ChainStaysWellFormed` (`ChainWellFormed`) and `NoReverifyAfterDecision` (`ReverifyStopsAtDecision`). The argument is about batches:
  whatever a step does, it appends a batch in which a terminal state change comes last and only if the ledger has none, and a reverification request only if the ledger has no decision and its chain is open to that attempt. One
  lemma per action shows that (`RunnerAppends`, `LeadAppends`); the properties follow from batches alone (`BatchKeeps`). Types are part of the invariant because `wao stop` reads the runner to kill from the ledger, and so is
  that reruns name runners. `Chain` is a recursive function over the ledger; what it gives for a longer ledger is shown without an induction theorem: `Pairs` says what it is to be a run of the function up to a position, and the least
  position at which a claim about such runs fails (`Least`, from `WFMin`) refutes itself (`PairsExist`, `PairsAgree`, hence `ChainAppend`).
- Of a run whose first runner keeps its lease: `FirstDrivesAlone` and, if one other runner at most exists, `OneDriver` (`AtMostOneDriver`). `LeaseHeld` is a background first runner, resumes by the daemon only (`wao resume` asks for no lease), no stall longer than a lease
  and no refused resume that deletes it. `LeaseInv`: the lease is fresh while the first runner lives, and who has been started by the daemon saw it die. One other runner is necessary: with three runners TLC finds two daemons that resume on scans made before either of them spawned.
- Of a run that is not hosted in the foreground: `SettlesTheDead` (`SettledRunIsDead`), with resumes of every host, refusals and stalls. `SettleInv` says that while the transcript is the one `wao settle` proved its gates on (`Unread`), nobody has entered the run since but who has
  recorded nothing. A foreground first runner is not found by the process scan, and TLC then finds the property violated.
- Of a run that is never resumed (`SoleRunner`: background, and one runner or neither resumes nor refusals): `OneDeliveryOnRecord` (`OneDelivery`), `OutcomesAreEarned` (`OutcomeIsEarned`), `NoWorkerIsLeft` (`RecoveredWorkersGone`),
  `DecisionsStayValid` (`DecisionStaysValid`) and `AcceptedDeliveriesStand` (`AcceptedStands`), under all endings, contracts, deaths, stalls, `wao stop`, `wao settle` and aborts, which is more than `recover` switches on. Both hypotheses are those section 5 shows to be necessary:
  a foreground run has no lease, and recovery probes the first worker only. The argument has two halves. Each event a step appends tells of the step, of the place the runner was at and of what was
  on record (`Contribution`, one lemma per action); and each step moves the runner on along its way (`FirstMoves`, `OthersMove`). From these two alone, no action being looked at again, follow the invariants `SoleInv` and `DecisionInv`. `SoleInv`: the runner's place agrees with what it has recorded (`Paced`), nobody
  else moves and the lease is the runner's while it lives (`Alone`), a proof of absence stands for a runner and a worker that are gone (`Witnessed`), and each fact of a delivery is there once, with its grounds (`Verifies`, `Recorded`). That the ground of a recovery cannot change after it was
  proved (`KindStays`, `ProvenanceStays`) is what makes stale repackage calls harmless: a later one finds either the delivery or a run it may not touch. `DecisionInv`: the run changes its state at its start and its end only (`StartsAndEnds`), only a verification that
  failed is ever verified again (`Requested`), and an acceptance rests on facts that nothing later can take away (`Decided`), for after a decision no attempt is opened and the outcome of a rejected delivery is not read.

`CorrectionsProofs`. `Once` (`SentOnce`), `Honest` (`NobodyMisled`), `NothingLeftBehind` (`ClosedIsSettled`) and `TypeCorrect`, for
any number of Leads, ids and prompts and any disturbances. `SentOnce` is not inductive: a second turn is excluded because a correction is
claimed on record before it is sent (`SentIsClaimed`, `HandIsClaimed`) and a claimed one is not pending. `ClosedIsSettled` needs that an
uninterrupted runner cleans up only after the run is terminal (`ClosingIsTerminal`), whence no later request passes the check under the lock.

`VerificationGateProofs`. `GateTypeCorrect`; `GateTakesTurns` (`TakesTurns`): for any number of verifiers, with all faults switched on, the lease
protocol implements `SerializedVerification`. The inductive invariant speaks of the undisturbed past only: whoever holds or is about to write is the
`owner`, its stamp is fresh and nobody waits in front of an unlink; the first fault frees every step of it.

`SessionReuseProofs`. The types and all five properties of `reuse`, for any number of runs. The invariant ties the phases of a call to slot, transcript and worktree: a call
between claim and first event is the slot's owner or has been overtaken, after which its epoch is no longer the slot's; a resumed run
has ended and nobody else who was launched resumes it; the worktree of a run at work is on its branch, since every call that could move it found the slot busy.

`ServeMaintenanceProofs`. `ServeTypeCorrect`; `CutTurnsAreLateCorrect` (`CutTurnsAreLate`), for any dispatches and serves and all faults. Whoever is on its way to close a serve, from the second quiet look on, has seen only turns that
are *parked*: over, or a session whose dispatch has given up before its prompt (`Looked`). A parked turn stays parked, because a session is created and its prompt sent once (`Turned`), so a turn
that runs when the shutdown comes is one the look did not show. The lock plays no part in it: it keeps launchers apart, not dispatches that find the serve up.

`RunIdentityProofs`. The types and all five properties of `identity`, for any writers, runs, projects, names and faults. `OneOwner`: a generation is created only when all below it are spent, and a spent one never becomes
held again (`Spent`, `Aimed`), so that the generation a writer owns, which nobody else can release (`Owned`), has a successor only if it is overdue. `OneBucket` is not inductive, because a writer knows that its project has no bucket from a scan that may be old.
What holds instead (`Known`): a bucket that has been made for the project since is at a name whose predecessors all belong to other projects (`Passed`), and so are those of the name the writer is at (`Tried`); the two names are then the same, and
`wx` lets only one of them write the record (`Apart`, `Begun`). `NoSecondFounding` rests on the order of the look: who missed the flat file of a run that had a transcript finds it in a bucket, for names in buckets never vanish (`FoundInv`).
`NothingLost` needs that a migrator past its link has two names of the file in hand (`NameInv`).

`WorktreeReclaimProofs`. `ReclaimTypeCorrect` and the three properties of `reclaim`, for any runs, nestings and bounds. `NoCommitLost` needs that past the bundle
every branch still to be deleted is saved at the commit its item names (`Bundled`), for `update-ref -d` compares with that one; the other two that what is in
`going` and still there is yet to be dealt with, deepest first (`Taken`, `Alone`), and that since a worktree was cleared all its runs have ended but the late ones (`Quiet`).

Every safety and action property of the passing runs is thus stated by a theorem. Only model-checked: liveness and everything under fairness, which the proof system cannot do (`AcquireReturns`, `OrphanRecovered`, `EndedIsClaimed`,
`CompletedIsVerified`, `PendingIsHandled`, `WaitEnds`, `TwoHoldersHeal`, `SurplusLeaves`, `IdleServeExits`); and nothing is claimed of deliveries of a run that is resumed, of which section 5 says what goes wrong.

## 5. Findings

1. `reuse_branch`. `rollbackContinuationWorktree` (`delivery.js:1549`) puts HEAD back on the branch the worktree was found on and hard-resets it to the delivery of the
   *parent*. If a delivery was continued before and the root is continued once more, the worktree is on the branch of the first continuation, and a launch that fails
   moves that branch to the root's delivery. The comment promises that 'The original retained-worktree state is restored'; the first continuation's delivery is then
   reachable by its id only.

Divergences that follow from the models and that no run is spent on:

- `dispatchRun` looks for a transcript of its run id (`runDispatch.js:914`), finds none and claims the id; it does not look again when the claim is granted. Between the two another dispatch of the id can claim, write its first
  event and release, and a released generation is free (`projectBuckets.js:417`, `:426`). Both are accepted; if they are of two projects the run has two transcripts with different contents, and from then on every resolution of the id
  is refused. The comment at `runDispatch.js:904-908` promises that no twins are made and that the claim arbitrates concurrent first creation; `RunManager.start` does the same. What the claim does give is `OneOwner` and `NoSecondFounding`.
- `RunManager.resume` (`runManager.js:2216`) builds its run without `correctable`: run_correct goes on answering 'queued', and nobody delivers or rejects, although the comment of `_runCleanup` (`:3752`) says that a correctable
  run 'must leave NO correction request stranded'. `ClosedIsSettled` and `PendingIsHandled` set resumed runs aside.
- `removeStaleLock` (`transcript.js:2740`) unlinks by path what it judged by an earlier read. Of two waiters that read one stale stamp the slower one removes the faster one's
  new lock, both sections run, and the declaration that `appendReadOnlyDeclared` (`:1090-1105`) promises 'EXACTLY ONCE per run' can be written twice, like a terminal claim or a seq. The stamp is that of a dead writer, with two more waiters,
  or of a living one: the unlink of a release swallows its failure (`:2730`), nobody asks whether the pid in the stamp lives, and 30 s later two contenders, of which the process that left the stamp may be one, are enough, with no
  death and no stall. `MutualExclusion`, `ProofStillCurrent` and `ImplementsAtomic` promise exclusion up to that moment (`disturbed`); without that condition TLC finds the two sections with two processes and `UnlinkFails` alone.
- A foreground run writes no owner lease and its worker is gone while it packages (`runManager.js:3313`); repackage takes it for abandoned,
  and two deliveries are on record, which the validator calls malformed for good. The same root cause lets a daemon that resumes what it finds
  take over a foreground run in progress (`daemon.js:148-150`). The runs `recover` and `delivery_live` therefore start with a background runner.
- `process_missing` recovery probes the worker of `run.session.created` (`processRecovery.js:138`), also after a resume has replaced it. If the resumed runner
  dies, recovery is proved while its worker lives. `recover` has no resume.
- `verificationGate.js:192-195` calls the comparison in `reclaimIfSame` the guarantee that the winner of a race is never deleted, but the file may change between
  the comparison and the unlink: two waiters that read the same stale lease can both unlink, the slower one the faster one's lease. `TakesTurns` allows it (a
  stale lease is a disturbance) and `TwoHoldersHeal` shows that it does not last.
- `sessionReuse.js:144-147` says that a slot whose runner was killed mid-run heals by itself after a while; the code keeps it busy as long as the transcript is not
  terminal, and only an entry without a transcript goes stale. In the other direction, a continuation that dies between its claim and its first event leaves a slot whose owner has no session:
  every later continuation is refused with `no_provider_session`, although `runContinue.js:917-918` says that the slot heals as stale.
- `kimiServeIdleWatch.js:13-14` says that a watcher whose serve is no longer the one at the port leaves and 'does not shut down another serve there' (不关端口上别的 serve). It compares pid and
  instance record, and the request goes to the port: while its own serve, asked to exit by a recycle, is still exiting with its record in place, the port is already the new serve's, and once the recycle
  has released the lock a watcher that is due shuts the new serve down. It loses no turn that a look could show (`CutTurnsAreLate`), and the next dispatch starts a serve again.
- Decision 0079, cited at `kimiServeStart.js:473`, is that a serve which WAO launched exits when idle; one that comes up after the 45 s of its launcher has no watcher and stays (`IdleServeExits` speaks of serves with one),
  and a lock that was left behind with a live child keeps every watcher from its shutdown (`LeftBehind`).

Seen while modelling, with no document that promises otherwise: a runner that dies between `run.error` and the failed
transition leaves a run that reads as failed and that resume, settle and recovery all refuse; a refused resume deletes the living
owner's lease and appends a `run.error` that this owner then adopts as the run's end; an interrupted run's wait loop cleans up
before the aborted transition, so what is queued in between is never rejected; a lock file that was created and not stamped (a death, or a failed stamp whose unlink fails too, `transcript.js:2725`) is never
judged stale; a run that was stopped and whose worker goes on may be overtaken by a continuation, since a lineage has no generations (`OneDriver` says so); a run may join a
worktree after reclaim's last look at it and before `git worktree remove` (`late`), and a continuation that has prepared the worktree and has no transcript yet is invisible to
reclaim, to which its branch is a leftover only if it predates the plan; a bucket whose creator died
between creating and writing the record makes every search for a bucket that is not in the index fail, of any project, until somebody removes it; two migrations at once and a late writer between them can unlink a transcript without a second name; a dispatch that resolved the flat path before the
migration unlinked it creates the file anew, and launches (`docs/usage/transcript.md:45`
asks the operator to see that nothing else writes meanwhile).

## 6. What is left out

Of the modelled components: `start()` up to the first event (preflight, worktree, spawn), the message loop before the end of the stream
with its observation deadline and alerts, runs without a delivery; runs on a server backend, which have no worker process of their own (`MissingCandidate` therefore omits the condition of one `proc_<pid>` session, `processRecovery.js:138-141`); in stop and settle the server targets, sessions that never came to be and
`proveVerifierGone`; the shapes of malformed events. Of `transcript.js`, the readers that only list or render.
Of the gate, `status` and the commands that run under it. Of session reuse, damaged or future-dated entries, the refusals that depend on
configuration (lanes, roles, credentials) or on the parent's having been accepted, and the theft of a key lock that is held for more than 30 s: critical sections of the key lock are atomic here.
Of reclaim, husks, private clones, loose links and the repeated proof of nested scopes, the dirty snapshot's content and the cleaning up of
registrations; what is checked out is read once, as in the code, and a branch that is checked out after that is not protected. Of serve maintenance, `recycle.lock`, the session sweep, husks, `status`, a port that answers
but rejects the token, a request to exit that fails (the Lead is told to stop that process by hand), a watcher that does not start, the read before the unlink in `releaseServeStartLock`, and the token file, whose misses count like those of the lists. Of run identity,
the buckets with fixed names (sandboxes, scratch, unattributed runs), the cwd hint, the flat fallback of `transcriptLegacyFlat`, how a key is derived from a path, the migration's manifest and `--verify`; a scan of all records and a save of the index are
one step each. External programs
(Git, the provider CLIs, the verification commands) appear by their outcomes.

The other components and the reason for each are in `PROJECT.json`: pure I/O and configuration (registry, onboarding, host adapters),
pure projections (scores, diagnosis, lists), surfaces (MCP, CLI, dashboard), and the protocols of the plan below.

## 7. Plan

Next modules, in this order, each with an abstract specification of what its caller is promised:

1. `RunLifecycle`: the rest of dispatch, `start()`, the message loop, runs without delivery; composed with `RunIdentity`, which ends where it begins, with `DeliveryRun`,
   which takes over at the end of the stream, and with the slot of `SessionReuse`, whose runner it details.
2. `Supervisor`: restart, back-off and idle exit of the daemon, with the scan of `DeliveryRun`.
3. `Settlement`: waits and projections as functions of a growing transcript: what is settled stays so.

Composition: 1 writes through the primitives of `AtomicTranscript` and ends where `DeliveryRun` starts; 2 supplies its `Scan`; `ServeMaintenance` stands between the
dispatch of 1 and a backend. Bounds as above: two parties per object, three where a dead one is needed. New runs replace or join runs of their instance, so that
each run stays one question.

Theorems to come: of resumed runs, the part of `SoleInv` that survives a resume which replaces no worker; the types and safety of the modules above as they are written.
