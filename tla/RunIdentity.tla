------------------------------ MODULE RunIdentity ------------------------------
(***************************************************************************)
(* Which process may create the transcript of a run id, and in which       *)
(* bucket (projectBuckets.js): dispatchRun and the foreground start of     *)
(* RunManager look for a transcript, claim the id by a generation file     *)
(* that exists once and for all, find or create the bucket of their        *)
(* project and write the first event; runs migrate-projects moves          *)
(* transcripts from the flat layer into the buckets.                       *)
(*                                                                         *)
(* A call of any of the three is a writer.  Each function is synchronous,  *)
(* but the writers are processes of their own: between two file operations *)
(* of one there may be any of another.  A file is named by what created it *)
(* and its text is who has written to it.  Project identities have their   *)
(* own bucket, found by a record in it; the fixed buckets of sandboxes,    *)
(* scratch and unattributed runs need no finding and are left out.         *)
(***************************************************************************)
EXTENDS Naturals, Sequences

CONSTANTS
    Writers,     \* the calls
    Foreground,  \* those of RunManager.start, the others being dispatches
    Migrators,   \* those of runs migrate-projects --apply
    Dying,       \* the writers that may die
    Faults,      \* eperm: creating a claim may fail; io: later steps may;
                 \* slow: a claim may grow older than its time
    Runs,        \* the run ids
    OldRuns,     \* those that may have a flat transcript to begin with
    RunOf,       \* the run id a writer is about
    Keys,        \* the projects
    KeyOf,       \* the project a writer is about
    Buckets,     \* the directories in runs/projects
    Chain,       \* the names a project's bucket may get, in order
    Caches,      \* what .index.json may hold to begin with
    Flat,        \* the place of transcripts that have no bucket
    NoFile,
    NoRecord, Half,  \* a bucket without a record, and with half a record
    NoBucket

Places == Buckets \cup {Flat}
Files == Runs \cup Writers
Makers(r) == {w \in Writers : RunOf[w] = r}

ASSUME IdentityAssumption ==
    /\ Foreground \subseteq Writers /\ Migrators \subseteq Writers /\ Dying \subseteq Writers
    /\ Foreground \cap Migrators = {}
    /\ Runs \cap Writers = {} /\ OldRuns \subseteq Runs
    /\ RunOf \in [Writers -> Runs] /\ KeyOf \in [Writers -> Keys]
    /\ Chain \in [Keys -> Seq(Buckets)]
    /\ Caches \subseteq [Keys -> Buckets \cup {NoBucket}]
    /\ Flat \notin Buckets /\ NoBucket \notin Buckets /\ NoFile \notin Files
    /\ NoRecord \notin Keys /\ Half \notin Keys /\ NoRecord # Half
    /\ \A m, n \in Migrators : RunOf[m] = RunOf[n] => m = n

VARIABLES
    claims,   \* the generations of a run id: who created each, and its state
    record,   \* the key in the .project.json of a bucket
    index,    \* .index.json, a cache: the bucket of a key
    at,       \* the transcript file of a run at a place
    text,     \* what is in a file: who wrote to it
    ended,    \* the files that end in a terminal state
    step,     \* where a writer is
    seen,     \* the places where its first look found a transcript
    place,    \* the place it has decided on
    gen,      \* the generation it is after, or owns; 0 for none
    nth,      \* the candidate name it is at
    entries,  \* the buckets its scan found
    read,     \* the text a migrator has hashed
    fresh,    \* the writers that began when the run had no transcript
    founded   \* the writers that wrote a first event under a claim

files == <<at, text, ended>>
buckets == <<record, index>>
mine == <<place, nth, entries>>
vars == <<claims, buckets, files, step, seen, mine, gen, read, fresh, founded>>

Claim(w) == [owner |-> w, state |-> "held"]
NoEntries == [k \in Keys |-> NoBucket]
Steps == {"begin", "looking", "claiming", "creating", "again", "relooking", "indexing", "scanning", "naming",
          "recording", "confirming", "founding", "adding", "releasing", "backing", "pending", "hashing", "linking",
          "comparing", "unlinking", "launched", "refused", "done", "dead"}

TypeOK ==
    /\ claims \in [Runs -> Seq([owner : Writers, state : {"held", "overdue", "released"}])]
    /\ record \in [Buckets -> Keys \cup {NoRecord, Half}]
    /\ index \in [Keys -> Buckets \cup {NoBucket}]
    /\ at \in [Runs -> [Places -> Files \cup {NoFile}]]
    /\ text \in [Files -> SUBSET Files]
    /\ ended \subseteq Files
    /\ step \in [Writers -> Steps]
    /\ seen \in [Writers -> SUBSET Places]
    /\ place \in [Writers -> Places]
    /\ gen \in [Writers -> Nat]
    /\ nth \in [Writers -> Nat]
    /\ entries \in [Writers -> [Keys -> Buckets \cup {NoBucket}]]
    /\ read \in [Writers -> SUBSET Files]
    /\ fresh \subseteq Writers
    /\ founded \subseteq Writers

(* What earlier calls have left: buckets, at most one for a key, be it under *)
(* a name of today, all earlier ones being taken, or under an older rule;    *)
(* flat transcripts; and an index, which is only a cache.                    *)
Init ==
    /\ claims = [r \in Runs |-> <<>>]
    /\ record \in [Buckets -> Keys \cup {NoRecord}]
    /\ \A b, c \in Buckets : record[b] \in Keys /\ record[b] = record[c] => b = c
    /\ \A k \in Keys : \A n \in DOMAIN Chain[k] :
          record[Chain[k][n]] = k => \A m \in 1 .. n - 1 : record[Chain[k][m]] \in Keys \ {k}
    /\ index \in Caches
    /\ \E old \in SUBSET OldRuns :
          /\ at = [r \in Runs |-> [p \in Places |-> IF r \in old /\ p = Flat THEN r ELSE NoFile]]
          /\ text = [f \in Files |-> IF f \in old THEN {f} ELSE {}]
          /\ ended \in SUBSET old
    /\ step = [w \in Writers |-> "begin"]
    /\ seen = [w \in Writers |-> {}]
    /\ place = [w \in Writers |-> Flat]
    /\ gen = [w \in Writers |-> 0]
    /\ nth = [w \in Writers |-> 0]
    /\ entries = [w \in Writers |-> NoEntries]
    /\ read = [w \in Writers |-> {}]
    /\ fresh = {}
    /\ founded = {}

Go(w, s) == step' = [step EXCEPT ![w] = s]
File(w, p) == at[RunOf[w]][p]
Present(w, ps) == {p \in ps : File(w, p) # NoFile}
Top(w) == Len(claims[RunOf[w]])
-----------------------------------------------------------------------------
(* Bug: the buckets first.                                                   *)
OrderBucketsFirst == <<Buckets, {Flat}>>

(* resolveTranscriptPath: the flat place first, then the buckets.            *)
Order == <<{Flat}, Buckets>>

LookFirst(w, from, to) ==
    /\ step[w] = from
    /\ seen' = [seen EXCEPT ![w] = Present(w, Order[1])]
    /\ fresh' = IF from = "begin" /\ Present(w, Places) = {} THEN fresh \cup {w} ELSE fresh
    /\ Go(w, to)
    /\ UNCHANGED <<claims, buckets, files, mine, gen, read, founded>>

(* One copy, or copies that are all there and the same, a bucket's first.    *)
Resolves(w, all, p) ==
    /\ p \in all
    /\ \/ all = {p}
       \/ p # Flat /\ File(w, p) # NoFile /\ \A q \in all : File(w, q) = File(w, p)

LookOn(w, from, missing) ==
    /\ step[w] = from
    /\ LET all == seen[w] \cup Present(w, Order[2])
       IN  \/ all = {} /\ Go(w, missing) /\ UNCHANGED place
           \/ \E p \in all : Resolves(w, all, p) /\ Go(w, "adding") /\ place' = [place EXCEPT ![w] = p]
           \/ /\ all # {} /\ ~ \E p \in all : Resolves(w, all, p)
              /\ Go(w, "refused") /\ UNCHANGED place
    /\ seen' = [seen EXCEPT ![w] = {}]
    /\ UNCHANGED <<claims, buckets, files, nth, entries, gen, read, fresh, founded>>

Resolve(w) ==
    \/ w \notin Migrators /\ LookFirst(w, "begin", "looking")
    \/ LookOn(w, "looking", "claiming")
    \/ LookFirst(w, "again", "relooking")
    \/ LookOn(w, "relooking", "refused")
-----------------------------------------------------------------------------
(* claimRunIdForWrite: the generation after the last, if that one is free.   *)
Takeable(c) == c.state \in {"released", "overdue"}

ListClaims(w) ==
    /\ step[w] = "claiming"
    /\ IF Top(w) = 0 \/ Takeable(claims[RunOf[w]][Top(w)])
       THEN Go(w, "creating") /\ gen' = [gen EXCEPT ![w] = Top(w) + 1]
       ELSE Go(w, "again") /\ UNCHANGED gen
    /\ UNCHANGED <<claims, buckets, files, seen, mine, read, fresh, founded>>

(* Bug: a generation that is taken is skipped and the next one created.     *)
CreateClaimBeyond(w) ==
    /\ step[w] = "creating"
    /\ claims' = [claims EXCEPT ![RunOf[w]] = Append(@, Claim(w))]
    /\ gen' = [gen EXCEPT ![w] = Top(w) + 1]
    /\ Go(w, "indexing")
    /\ UNCHANGED <<buckets, files, seen, mine, read, fresh, founded>>

CreateClaim(w) ==
    /\ step[w] = "creating"
    /\ \/ /\ gen[w] = Top(w) + 1
          /\ claims' = [claims EXCEPT ![RunOf[w]] = Append(@, Claim(w))]
          /\ Go(w, "indexing")
          /\ UNCHANGED gen
       \/ /\ gen[w] <= Top(w) \/ "eperm" \in Faults
          /\ Go(w, "again")
          /\ gen' = [gen EXCEPT ![w] = 0]
          /\ UNCHANGED claims
    /\ UNCHANGED <<buckets, files, seen, mine, read, fresh, founded>>

ClaimAges(r, g) ==
    /\ "slow" \in Faults
    /\ claims[r][g].state = "held"
    /\ claims' = [claims EXCEPT ![r][g].state = "overdue"]
    /\ UNCHANGED <<buckets, files, step, seen, mine, gen, read, fresh, founded>>

(* releaseRunIdClaim marks the last generation, if the nonce in it is one's  *)
(* own.  A mark that cannot be written is not missed.                        *)
Marked(w) ==
    IF gen[w] = Top(w) THEN [claims EXCEPT ![RunOf[w]][gen[w]].state = "released"] ELSE claims

Release(w) ==
    /\ step[w] \in {"releasing", "backing"}
    /\ claims' = Marked(w) \/ ("io" \in Faults /\ claims' = claims)
    /\ gen' = [gen EXCEPT ![w] = 0]
    /\ Go(w, IF step[w] = "releasing" THEN "pending" ELSE "refused")
    /\ UNCHANGED <<buckets, files, seen, mine, read, fresh, founded>>

(* An exception behind the claim: a dispatch gives the claim back, a         *)
(* foreground start leaves it to its age.                                    *)
Thrown(w) == IF w \in Migrators THEN "done" ELSE IF w \in Foreground THEN "refused" ELSE "backing"
-----------------------------------------------------------------------------
(* resolveRunDirForWrite.  A record that is half written is read again for   *)
(* a while and then an error.                                                *)
Take(w, b) == place' = [place EXCEPT ![w] = b]
Settled(w) == IF w \in Migrators THEN "hashing" ELSE "founding"

(* Bug: the cache is believed.                                               *)
ConfirmUnread(w, b) ==
    \/ b \in Buckets /\ Take(w, b) /\ Go(w, Settled(w))
    \/ b = NoBucket /\ Go(w, "scanning") /\ UNCHANGED place

Confirm(w, b) ==
    \/ /\ b \in Buckets /\ record[b] = KeyOf[w]
       /\ Take(w, b) /\ Go(w, Settled(w))
    \/ /\ b \in Buckets /\ record[b] \in {NoRecord, Half}
       /\ Go(w, Thrown(w)) /\ UNCHANGED place
    \/ /\ b \in Buckets => record[b] \in (Keys \ {KeyOf[w]}) \cup {NoRecord}
       /\ Go(w, "scanning") /\ UNCHANGED place

Scan ==
    [k \in Keys |-> IF \E b \in Buckets : record[b] = k THEN CHOOSE b \in Buckets : record[b] = k ELSE NoBucket]

(* The cache, or, while it cannot be read, what is in the buckets.           *)
ReadIndex(w) ==
    /\ step[w] = "indexing"
    /\ Confirm(w, index[KeyOf[w]]) \/ Confirm(w, Scan[KeyOf[w]])
    /\ UNCHANGED <<claims, buckets, files, seen, nth, entries, gen, read, fresh, founded>>

Rebuild(w) ==
    /\ step[w] = "scanning"
    /\ \/ (\E b \in Buckets : record[b] = Half) /\ Go(w, Thrown(w)) /\ UNCHANGED <<index, mine>>
       \/ /\ \A b \in Buckets : record[b] # Half
          /\ IF Scan[KeyOf[w]] # NoBucket
             THEN /\ index' = Scan /\ Take(w, Scan[KeyOf[w]]) /\ Go(w, Settled(w))
                  /\ UNCHANGED <<nth, entries>>
             ELSE /\ entries' = [entries EXCEPT ![w] = Scan] /\ nth' = [nth EXCEPT ![w] = 1] /\ Go(w, "naming")
                  /\ UNCHANGED <<index, place>>
    /\ UNCHANGED <<claims, record, files, seen, gen, read, fresh, founded>>

Candidate(w) == Chain[KeyOf[w]][nth[w]]

(* The record is created, which can succeed once, and then written.          *)
Name(w) ==
    /\ step[w] = "naming"
    /\ IF nth[w] > Len(Chain[KeyOf[w]])
       THEN Go(w, Thrown(w)) /\ UNCHANGED record
       ELSE IF record[Candidate(w)] = NoRecord
       THEN record' = [record EXCEPT ![Candidate(w)] = Half] /\ Go(w, "recording")
       ELSE Go(w, "confirming") /\ UNCHANGED record
    /\ UNCHANGED <<claims, index, files, seen, mine, gen, read, fresh, founded>>

WriteRecord(w) ==
    /\ step[w] = "recording"
    /\ record' = [record EXCEPT ![Candidate(w)] = KeyOf[w]]
    /\ Go(w, "confirming")
    /\ UNCHANGED <<claims, index, files, seen, mine, gen, read, fresh, founded>>

(* Bug: half a record is taken for another project's.                       *)
ReadRecordHasty(w) ==
    /\ step[w] = "confirming"
    /\ LET b == Candidate(w)
       IN  IF record[b] = KeyOf[w]
           THEN /\ index' = [entries[w] EXCEPT ![KeyOf[w]] = b]
                /\ Take(w, b) /\ nth' = [nth EXCEPT ![w] = 0] /\ entries' = [entries EXCEPT ![w] = NoEntries]
                /\ Go(w, Settled(w))
           ELSE /\ nth' = [nth EXCEPT ![w] = @ + 1]
                /\ Go(w, "naming")
                /\ UNCHANGED <<index, place, entries>>
    /\ UNCHANGED <<claims, record, files, seen, gen, read, fresh, founded>>

ReadRecord(w) ==
    /\ step[w] = "confirming"
    /\ LET b == Candidate(w)
       IN  \/ /\ record[b] = KeyOf[w]
              /\ index' = [entries[w] EXCEPT ![KeyOf[w]] = b]
              /\ Take(w, b) /\ nth' = [nth EXCEPT ![w] = 0] /\ entries' = [entries EXCEPT ![w] = NoEntries]
              /\ Go(w, Settled(w))
           \/ /\ record[b] \in Keys \ {KeyOf[w]}
              /\ nth' = [nth EXCEPT ![w] = @ + 1]
              /\ Go(w, "naming")
              /\ UNCHANGED <<index, place, entries>>
           \/ /\ record[b] = Half
              /\ Go(w, Thrown(w))
              /\ UNCHANGED <<index, mine>>
    /\ UNCHANGED <<claims, record, files, seen, gen, read, fresh, founded>>

FindBucket(w) == ReadIndex(w) \/ Rebuild(w) \/ Name(w) \/ WriteRecord(w) \/ ReadRecord(w)
-----------------------------------------------------------------------------
(* transcript.append: by path, so a file that is gone is created again.      *)
Put(w) ==
    LET r == RunOf[w]
        f == IF File(w, place[w]) = NoFile THEN w ELSE File(w, place[w])
    IN  /\ at' = [at EXCEPT ![r][place[w]] = f]
        /\ text' = [text EXCEPT ![f] = @ \cup {w}]
        /\ UNCHANGED ended

Found(w) ==
    /\ step[w] = "founding"
    /\ Put(w)
    /\ founded' = founded \cup {w}
    /\ Go(w, "releasing")
    /\ UNCHANGED <<claims, buckets, seen, mine, gen, read, fresh>>

(* The append fails, and releases in both kinds of writer; before it, in a   *)
(* foreground start, a worktree that cannot be had does not.                 *)
FoundFails(w) ==
    /\ "io" \in Faults
    /\ step[w] = "founding"
    /\ Go(w, "backing") \/ Go(w, Thrown(w))
    /\ UNCHANGED <<claims, buckets, files, seen, mine, gen, read, fresh, founded>>

Add(w) ==
    /\ step[w] = "adding"
    /\ Put(w)
    /\ Go(w, "pending")
    /\ UNCHANGED <<claims, buckets, seen, mine, gen, read, fresh, founded>>

(* transitionState(null, pending): throws if the file it wrote to is gone.   *)
Pending(w) ==
    /\ step[w] = "pending"
    /\ Go(w, IF File(w, place[w]) \in {NoFile} \cup ended THEN "refused" ELSE "launched")
    /\ UNCHANGED <<claims, buckets, files, seen, mine, gen, read, fresh, founded>>

RunEnds(w) ==
    /\ step[w] = "launched"
    /\ File(w, place[w]) # NoFile
    /\ ended' = ended \cup {File(w, place[w])}
    /\ Go(w, "done")
    /\ UNCHANGED <<claims, buckets, at, text, seen, mine, gen, read, fresh, founded>>
-----------------------------------------------------------------------------
(* applyProjectsMigration, for one flat transcript.  A link is a second name *)
(* of the same file.                                                         *)
Pick(m) ==
    /\ m \in Migrators /\ step[m] = "begin"
    /\ File(m, Flat) \in ended
    /\ Go(m, "indexing")
    /\ UNCHANGED <<claims, buckets, files, seen, mine, gen, read, fresh, founded>>

Hash(m) ==
    /\ step[m] = "hashing"
    /\ IF File(m, Flat) = NoFile \/ File(m, place[m]) \notin {NoFile, File(m, Flat)}
       THEN Go(m, "done") /\ UNCHANGED read
       ELSE /\ read' = [read EXCEPT ![m] = text[File(m, Flat)]]
            /\ Go(m, IF File(m, place[m]) = NoFile THEN "linking" ELSE "unlinking")
    /\ UNCHANGED <<claims, buckets, files, seen, mine, gen, fresh, founded>>

Linked(m) == [at EXCEPT ![RunOf[m]][place[m]] = File(m, Flat)]

(* Bug: a copy in place of the link.                                         *)
LinkCopies(m) ==
    /\ step[m] = "linking"
    /\ IF File(m, place[m]) = NoFile
       THEN /\ at' = [at EXCEPT ![RunOf[m]][place[m]] = m]
            /\ text' = [text EXCEPT ![m] = text[File(m, Flat)]]
            /\ Go(m, "comparing")
       ELSE Go(m, "done") /\ UNCHANGED <<at, text>>
    /\ UNCHANGED <<claims, buckets, ended, seen, mine, gen, read, fresh, founded>>

Link(m) ==
    /\ step[m] = "linking"
    /\ IF File(m, place[m]) = NoFile
       THEN at' = Linked(m) /\ Go(m, "comparing")
       ELSE Go(m, "done") /\ UNCHANGED at
    /\ UNCHANGED <<claims, buckets, text, ended, seen, mine, gen, read, fresh, founded>>

Compare(m) ==
    /\ step[m] = "comparing"
    /\ Go(m, IF text[File(m, place[m])] = read[m] THEN "unlinking" ELSE "done")
    /\ UNCHANGED <<claims, buckets, files, seen, mine, gen, read, fresh, founded>>

Unlink(m) ==
    /\ step[m] = "unlinking"
    /\ at' = [at EXCEPT ![RunOf[m]][Flat] = NoFile]
    /\ Go(m, "done")
    /\ UNCHANGED <<claims, buckets, text, ended, seen, mine, gen, read, fresh, founded>>

Migrate(m) == Pick(m) \/ Hash(m) \/ Link(m) \/ Compare(m) \/ Unlink(m)
-----------------------------------------------------------------------------
(* A writer dies; an application of the migration is then started again.     *)
Die(w) ==
    /\ w \in Dying
    /\ step[w] \notin {"begin", "launched", "refused", "done", "dead"}
    /\ Go(w, IF w \in Migrators THEN "begin" ELSE "dead")
    /\ UNCHANGED <<claims, buckets, files, seen, mine, gen, read, fresh, founded>>

Next ==
    \/ \E w \in Writers : \/ Resolve(w) \/ ListClaims(w) \/ CreateClaim(w) \/ Release(w)
                          \/ FindBucket(w) \/ Found(w) \/ FoundFails(w) \/ Add(w) \/ Pending(w) \/ RunEnds(w)
                          \/ Migrate(w) \/ Die(w)
    \/ \E r \in Runs : \E g \in DOMAIN claims[r] : ClaimAges(r, g)

Spec == Init /\ [][Next]_vars
-----------------------------------------------------------------------------
Owning == {"indexing", "scanning", "naming", "recording", "confirming", "founding", "releasing", "backing"}

(* Two writers own a run id at the same time only if the earlier one has     *)
(* kept its claim for longer than its time.                                  *)
OneOwner ==
    \A v, w \in Writers \ Migrators :
        step[v] \in Owning /\ step[w] \in Owning /\ RunOf[v] = RunOf[w] /\ gen[v] < gen[w]
            => claims[RunOf[v]][gen[v]].state = "overdue"

(* A project has one bucket, whoever created it and whatever the index says. *)
OneBucket == \A b, c \in Buckets : record[b] \in Keys /\ record[b] = record[c] => b = c

(* Nothing is founded in, or moved to, a bucket that is another project's.   *)
RightBucket ==
    \A w \in Writers :
        step[w] \in {"founding", "releasing", "hashing", "linking", "comparing", "unlinking"}
            => place[w] \in Buckets /\ record[place[w]] = KeyOf[w]

(* A run id that had a transcript when a writer began is not founded anew by *)
(* it, although the transcript may be moving.                                *)
NoSecondFounding == founded \subseteq fresh

(* What was written to a transcript of a run is in one that has a name.      *)
NothingLost ==
    \A r \in Runs : \A f \in {r} \cup Makers(r) : \A x \in text[f] :
        \E p \in Places : at[r][p] # NoFile /\ x \in text[at[r][p]]
================================================================================
