------------------------------ MODULE AppendLock ------------------------------
(***************************************************************************)
(* The advisory append lock of a run transcript (src/src/transcript.js,    *)
(* acquireAppendLock and removeStaleLock).  Several processes -- the       *)
(* background runner, the MCP server, the CLI commands -- append to the    *)
(* same <runId>.jsonl and serialise themselves with the file               *)
(* <runId>.jsonl.seq.lock, created with open(path, "wx").                  *)
(*                                                                         *)
(* Time is kept as ages rather than as a clock: the age of the lock's      *)
(* stamp, the age a waiter computes for the stamp it read, and how long    *)
(* an acquisition has been waiting.  The code compares each of them with   *)
(* ">" against one constant, so an age saturates one above its constant    *)
(* and nothing the code can see is lost.                                   *)
(***************************************************************************)
EXTENDS Integers, FiniteSets

CONSTANTS
    Procs,       \* the acquisitions that may contend for one transcript
    NoLock,      \* the lock file does not exist
    TimeoutMs,   \* APPEND_LOCK_TIMEOUT_MS
    StaleMs,     \* APPEND_LOCK_STALE_MS
    Crashes,     \* TRUE: a process may die between any two steps
    UnlinkFails, \* TRUE: Windows may refuse to remove the lock file
    Stalls       \* TRUE: a process may be suspended for longer than StaleMs

ASSUME LockAssumption ==
    /\ TimeoutMs \in Nat
    /\ StaleMs \in Nat
    /\ Crashes \in BOOLEAN
    /\ UnlinkFails \in BOOLEAN
    /\ Stalls \in BOOLEAN
    /\ NoLock \notin Procs

VARIABLES
    pc,          \* where each process is in acquireAppendLock
    lockOwner,   \* the process whose open("wx") created the file, or NoLock
    metadata,    \* "written" once the file holds its {pid, ts}, else "blank"
    stampAge,    \* now - ts of that metadata
    seenAge,     \* now - ts for the metadata a waiter has read
    waited,      \* now - start of the current acquisition
    disturbed    \* history: more happened than the lock can bear (see Tick and ReadStamp)

lockVars == <<pc, lockOwner, metadata, stampAge, seenAge, waited, disturbed>>

Steps == {"idle", "opening", "reading", "judging", "removing", "deadline",
          "stamping", "unstamping", "critical", "releasing", "crashed"}

(* The steps of one turn of the retry loop, before the lock is created. *)
Waiting == {"opening", "reading", "judging", "removing", "deadline"}

(* The steps at which the process believes the lock file is its own. *)
Holding == {"stamping", "unstamping", "critical", "releasing"}

LockTypeOK ==
    /\ pc \in [Procs -> Steps]
    /\ lockOwner \in Procs \cup {NoLock}
    /\ metadata \in {"blank", "written"}
    /\ stampAge \in 0 .. StaleMs + 1
    /\ seenAge \in [Procs -> 0 .. StaleMs + 1]
    /\ waited \in [Procs -> 0 .. TimeoutMs + 1]
    /\ disturbed \in BOOLEAN

LockInit ==
    /\ pc = [p \in Procs |-> "idle"]
    /\ lockOwner = NoLock
    /\ metadata = "blank"
    /\ stampAge = 0
    /\ seenAge = [p \in Procs |-> 0]
    /\ waited = [p \in Procs |-> 0]
    /\ disturbed = FALSE

-----------------------------------------------------------------------------
Goto(p, from, to) ==
    /\ pc[p] = from
    /\ pc' = [pc EXCEPT ![p] = to]

UnchangedFile == UNCHANGED <<lockOwner, metadata, stampAge>>

(* unlink(lockPath): by path, whoever created the file that is there now. *)
Unlink ==
    /\ lockOwner' = NoLock
    /\ metadata' = "blank"
    /\ stampAge' = 0

(* unlink(lockPath).catch(() => {}): a failure is swallowed, and the file   *)
(* stays with its stamp.                                                   *)
TryUnlink == Unlink \/ (UnlinkFails /\ UnchangedFile)

(* A call of acquireAppendLock begins: start = now(). *)
Begin(p) ==
    /\ Goto(p, "idle", "opening")
    /\ waited' = [waited EXCEPT ![p] = 0]
    /\ seenAge' = [seenAge EXCEPT ![p] = 0]
    /\ UnchangedFile
    /\ UNCHANGED disturbed

(* open(lockPath, "wx") succeeds: the file is created empty. *)
OpenCreates(p) ==
    /\ Goto(p, "opening", "stamping")
    /\ lockOwner = NoLock
    /\ lockOwner' = p
    /\ metadata' = "blank"
    /\ stampAge' = 0
    /\ UNCHANGED <<seenAge, waited, disturbed>>

(* EEXIST: some process has the lock; look whether it is stale. *)
OpenExists(p) ==
    /\ lockOwner # NoLock
    /\ Goto(p, "opening", "reading")
    /\ UnchangedFile
    /\ UNCHANGED <<seenAge, waited, disturbed>>

(* EPERM and EBUSY, which Windows may answer at any time: no lock was      *)
(* created, and none is removed.                                           *)
OpenTransient(p) ==
    /\ Goto(p, "opening", "deadline")
    /\ UnchangedFile
    /\ UNCHANGED <<seenAge, waited, disturbed>>

(* Any other error code is thrown to the caller. *)
OpenThrows(p) ==
    /\ Goto(p, "opening", "idle")
    /\ UnchangedFile
    /\ UNCHANGED <<seenAge, waited, disturbed>>

(* The process has read a stale stamp and may be about to unlink. *)
Doubts(p) == pc[p] = "removing" \/ (pc[p] = "judging" /\ seenAge[p] > StaleMs)

(* removeStaleLock reads the metadata.  That a second process reads a      *)
(* stale stamp before the first has dealt with it is noted: the slower one *)
(* may unlink what the faster one has put in its place.                    *)
ReadStamp(p) ==
    /\ metadata = "written"
    /\ Goto(p, "reading", "judging")
    /\ seenAge' = [seenAge EXCEPT ![p] = stampAge]
    /\ disturbed' = (disturbed \/ (stampAge > StaleMs /\ \E q \in Procs \ {p} : Doubts(q)))
    /\ UnchangedFile
    /\ UNCHANGED waited

(* A file that is gone, cannot be read, or holds no JSON yet is            *)
(* "unreadable": nothing is removed.                                       *)
ReadFails(p) ==
    /\ Goto(p, "reading", "deadline")
    /\ UnchangedFile
    /\ UNCHANGED <<seenAge, waited, disturbed>>

(* Mutants of Stale: ">=" for ">", and the difference taken the wrong way. *)
StaleAtBound(p) == seenAge[p] >= StaleMs
StaleSwapped(p) == 0 - seenAge[p] > StaleMs

(* now() - ts > APPEND_LOCK_STALE_MS, evaluated on the metadata read       *)
(* above: the file at the path may be another one by now.                  *)
Stale(p) == seenAge[p] > StaleMs

JudgeStamp(p) ==
    /\ Goto(p, "judging", IF Stale(p) THEN "removing" ELSE "deadline")
    /\ UnchangedFile
    /\ UNCHANGED <<seenAge, waited, disturbed>>

RemoveStale(p) ==
    /\ Goto(p, "removing", "deadline")
    /\ TryUnlink
    /\ UNCHANGED <<seenAge, waited, disturbed>>

(* Mutant of CheckDeadline: retry without a bound. *)
CheckNoDeadline(p) ==
    /\ Goto(p, "deadline", "opening")
    /\ UnchangedFile
    /\ UNCHANGED <<seenAge, waited, disturbed>>

(* One bound for EEXIST, EPERM and EBUSY: throw past it, else sleep and    *)
(* try again.                                                              *)
CheckDeadline(p) ==
    /\ Goto(p, "deadline", IF waited[p] > TimeoutMs THEN "idle" ELSE "opening")
    /\ UnchangedFile
    /\ UNCHANGED <<seenAge, waited, disturbed>>

(* handle.writeFile of {pid, ts}.  It writes through the handle: if the    *)
(* path was unlinked meanwhile, the file now at the path is not touched.   *)
WriteStamp(p) ==
    /\ Goto(p, "stamping", "critical")
    /\ IF lockOwner = p
         THEN metadata' = "written" /\ stampAge' = 0
         ELSE UNCHANGED <<metadata, stampAge>>
    /\ UNCHANGED <<lockOwner, seenAge, waited, disturbed>>

(* The metadata write fails: close, unlink the lock path, throw. *)
StampFails(p) ==
    /\ Goto(p, "stamping", "unstamping")
    /\ UnchangedFile
    /\ UNCHANGED <<seenAge, waited, disturbed>>

UnlinkUnstamped(p) ==
    /\ Goto(p, "unstamping", "idle")
    /\ TryUnlink
    /\ UNCHANGED <<seenAge, waited, disturbed>>

(* The guarded section is over; the finally block, which every primitive   *)
(* has, calls releaseLock.                                                 *)
Leave(p) ==
    /\ Goto(p, "critical", "releasing")
    /\ UnchangedFile
    /\ UNCHANGED <<seenAge, waited, disturbed>>

(* releaseLock: close the handle, unlink the path.  If that fails the      *)
(* stamped lock of a living process stays, and grows old.                  *)
Release(p) ==
    /\ Goto(p, "releasing", "idle")
    /\ TryUnlink
    /\ UNCHANGED <<seenAge, waited, disturbed>>

(* The process dies.  What is on disk stays. *)
Crash(p) ==
    /\ Crashes
    /\ pc[p] \notin {"idle", "crashed"}
    /\ pc' = [pc EXCEPT ![p] = "crashed"]
    /\ UnchangedFile
    /\ UNCHANGED <<seenAge, waited, disturbed>>

-----------------------------------------------------------------------------
Older(age, cap) == IF age > cap THEN age ELSE age + 1

(* No process holds a lock, or sits on the metadata it has read, for       *)
(* longer than StaleMs (30 s).                                             *)
Prompt ==
    /\ \A p \in Procs : pc[p] \in Holding /\ lockOwner = p /\ metadata = "written" => stampAge < StaleMs
    /\ \A p \in Procs : pc[p] = "judging" /\ ~Stale(p) => seenAge[p] < StaleMs

Tick ==
    /\ Stalls \/ Prompt
    /\ stampAge' = IF metadata = "written" THEN Older(stampAge, StaleMs) ELSE 0
    /\ seenAge' = [p \in Procs |->
                     IF pc[p] = "judging" THEN Older(seenAge[p], StaleMs) ELSE seenAge[p]]
    /\ waited' = [p \in Procs |->
                    IF pc[p] \in Waiting THEN Older(waited[p], TimeoutMs) ELSE waited[p]]
    /\ disturbed' = (disturbed \/ ~Prompt)
    /\ UNCHANGED <<pc, lockOwner, metadata>>

(* acquireAppendLock up to the moment it returns, throws or dies. *)
Acquire(p) ==
    \/ OpenCreates(p) \/ OpenExists(p) \/ OpenTransient(p) \/ OpenThrows(p)
    \/ ReadStamp(p) \/ ReadFails(p) \/ JudgeStamp(p) \/ RemoveStale(p) \/ CheckDeadline(p)
    \/ WriteStamp(p) \/ StampFails(p) \/ UnlinkUnstamped(p)

LockStep(p) == Begin(p) \/ Acquire(p) \/ Release(p) \/ Crash(p)

LockNext == Tick \/ \E p \in Procs : LockStep(p) \/ Leave(p)

LockSpec == LockInit /\ [][LockNext]_lockVars

(* The event loop keeps running a pending acquisition and time passes. *)
LockFairness ==
    /\ WF_lockVars(Tick)
    /\ \A p \in Procs : /\ WF_lockVars(Acquire(p))
                        /\ WF_lockVars(Leave(p))
                        /\ WF_lockVars(Release(p))

FairLockSpec == LockSpec /\ LockFairness

(* A writer that keeps coming back (a runner that has events to write),    *)
(* and Windows errors that are transient: some open is answered EEXIST,    *)
(* some read succeeds, some unlink works.                                  *)
PersistentLockSpec ==
    /\ FairLockSpec
    /\ \A p \in Procs : /\ WF_lockVars(Begin(p))
                        /\ SF_lockVars(OpenExists(p))
                        /\ SF_lockVars(ReadStamp(p))
                        /\ SF_lockVars(RemoveStale(p) /\ Unlink)

-----------------------------------------------------------------------------
(* At most one process is between the creation of the lock file and its    *)
(* removal: what every compare-and-set primitive of the transcript rests   *)
(* on.  acquireAppendLock promises it until a holder or a waiter stalls    *)
(* past the stale bound or two waiters act on one stale stamp, whoever     *)
(* dies and whatever cannot be removed.                                    *)
MutualExclusion ==
    ~disturbed => \A p, q \in Procs : pc[p] \in Holding /\ pc[q] \in Holding => p = q

(* An acquisition never waits for ever: it gets the lock, throws at its    *)
(* deadline, or its process is dead -- whoever holds the lock, and however *)
(* often Windows answers EPERM.                                            *)
AcquireReturns ==
    \A p \in Procs : pc[p] \in Waiting ~> pc[p] \notin Waiting

(* The stamped lock that a process has left behind, because it died or     *)
(* could not remove it, is removed once some live writer keeps asking for  *)
(* it (removeStaleLock's whole purpose).                                   *)
Orphaned(p) == pc[p] \notin Holding /\ lockOwner = p

OrphanRecovered ==
    \A p, q \in Procs :
        (Orphaned(p) /\ metadata = "written") ~> (~Orphaned(p) \/ pc[q] = "crashed")
=============================================================================
