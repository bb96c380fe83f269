--------------------------- MODULE RunIdentityProofs ---------------------------
(***************************************************************************)
(* For any writers, runs, projects and bucket names: claims, buckets and   *)
(* the migration keep what they promise.                                   *)
(***************************************************************************)
EXTENDS RunIdentity, TLAPS, SequenceTheorems

ClaimRecords == [owner : Writers, state : {"held", "overdue", "released"}]

(* Migrators and the other writers go different ways. *)
Finding == {"indexing", "scanning", "naming", "recording", "confirming"}
Moving == {"hashing", "linking", "comparing", "unlinking"}
KindOK ==
    \A w \in Writers :
        /\ w \in Migrators => step[w] \in Finding \cup Moving \cup {"begin", "done"}
        /\ w \notin Migrators => step[w] \notin Moving

(* A generation that has a successor was free, and so is all below the one  *)
(* a writer is about to create.                                              *)
Spent == \A r \in Runs : \A g \in 1 .. Len(claims[r]) : g < Len(claims[r]) => Takeable(claims[r][g])
Aimed ==
    \A w \in Writers : step[w] = "creating" =>
        /\ gen[w] \in 1 .. Top(w) + 1
        /\ \A g \in 1 .. Top(w) : g < gen[w] => Takeable(claims[RunOf[w]][g])
Owned ==
    \A w \in Writers \ Migrators : step[w] \in Owning =>
        /\ gen[w] \in 1 .. Top(w)
        /\ claims[RunOf[w]][gen[w]].owner = w
        /\ claims[RunOf[w]][gen[w]].state # "released"

ClaimInv == Spent /\ Aimed /\ Owned

(* A writer that names a bucket is at one of the names its project may get. *)
Pointed ==
    \A w \in Writers :
        /\ step[w] \in {"naming", "recording", "confirming"} => nth[w] >= 1
        /\ step[w] \in {"recording", "confirming"} => nth[w] <= Len(Chain[KeyOf[w]])

(* A name is tried when the ones before it are taken by other projects, and *)
(* is the writer's own to record.  A bucket of the project that is made in   *)
(* the meantime is under a name that was tried in the same way.              *)
Naming == {"naming", "recording", "confirming"}
Passed(k, n) == \A i \in 1 .. n - 1 : Chain[k][i] \in Buckets /\ record[Chain[k][i]] \in Keys \ {k}
Tried == \A w \in Writers : step[w] \in Naming => Passed(KeyOf[w], nth[w])
Begun ==
    \A w \in Writers :
        /\ step[w] = "recording" => record[Candidate(w)] = Half
        /\ step[w] = "confirming" => record[Candidate(w)] # NoRecord
Apart ==
    \A v, w \in Writers :
        step[v] = "recording" /\ step[w] = "recording" /\ Candidate(v) = Candidate(w) => v = w
Known ==
    \A w \in Writers : step[w] \in Naming => \A b \in Buckets : record[b] = KeyOf[w] =>
        \E n \in 1 .. Len(Chain[KeyOf[w]]) : Chain[KeyOf[w]][n] = b /\ Passed(KeyOf[w], n)
Placed == {"founding", "releasing", "hashing", "linking", "comparing", "unlinking"}

BucketInv == Tried /\ Begun /\ Apart /\ Known /\ OneBucket /\ RightBucket

(* The initial states have their types. *)
LEMMA TypeInit == Init => TypeOK
<1> USE IdentityAssumption
<1> SUFFICES ASSUME Init PROVE TypeOK
  OBVIOUS
<1>1. claims \in [Runs -> Seq(ClaimRecords)]
  BY DEF Init
<1>2. record \in [Buckets -> Keys \cup {NoRecord, Half}] /\ index \in [Keys -> Buckets \cup {NoBucket}]
  BY DEF Init
<1>3. PICK old \in SUBSET OldRuns :
          /\ at = [r \in Runs |-> [p \in Places |-> IF r \in old /\ p = Flat THEN r ELSE NoFile]]
          /\ text = [f \in Files |-> IF f \in old THEN {f} ELSE {}]
          /\ ended \in SUBSET old
  BY DEF Init
<1>4. old \subseteq Runs /\ Runs \subseteq Files
  BY DEF Files
<1>5. at \in [Runs -> [Places -> Files \cup {NoFile}]]
  BY <1>3, <1>4
<1>6. text \in [Files -> SUBSET Files] /\ ended \subseteq Files
  BY <1>3, <1>4
<1>7. /\ step \in [Writers -> Steps]
      /\ seen \in [Writers -> SUBSET Places]
      /\ place \in [Writers -> Places]
      /\ gen \in [Writers -> Nat]
      /\ nth \in [Writers -> Nat]
      /\ read \in [Writers -> SUBSET Files]
      /\ fresh \subseteq Writers /\ founded \subseteq Writers
  BY DEF Init, Places, Steps
<1>8. entries \in [Writers -> [Keys -> Buckets \cup {NoBucket}]]
  BY DEF Init, NoEntries
<1> QED
  BY <1>1, <1>2, <1>5, <1>6, <1>7, <1>8 DEF TypeOK, ClaimRecords

(* What a scan returns names buckets. *)
LEMMA ScanType == Scan \in [Keys -> Buckets \cup {NoBucket}]
BY DEF Scan

(* A scan names a bucket of the key, unless there is none. *)
LEMMA ScanFinds ==
    ASSUME NEW k \in Keys
    PROVE  /\ Scan[k] = NoBucket => \A b \in Buckets : record[b] # k
           /\ Scan[k] # NoBucket => Scan[k] \in Buckets /\ record[Scan[k]] = k
BY IdentityAssumption DEF Scan

(* An append to a list of claims. *)
LEMMA Appended ==
    ASSUME NEW s \in Seq(ClaimRecords), NEW c \in ClaimRecords
    PROVE  /\ Append(s, c) \in Seq(ClaimRecords)
           /\ Len(Append(s, c)) = Len(s) + 1
           /\ \A g \in 1 .. Len(s) : Append(s, c)[g] = s[g]
           /\ Append(s, c)[Len(s) + 1] = c
BY AppendProperties

(* A claim that changes its state. *)
LEMMA Restated ==
    ASSUME NEW s \in Seq(ClaimRecords), NEW g \in 1 .. Len(s), NEW x \in {"held", "overdue", "released"}
    PROVE  /\ [s EXCEPT ![g].state = x] \in Seq(ClaimRecords)
           /\ Len([s EXCEPT ![g].state = x]) = Len(s)
           /\ \A h \in 1 .. Len(s) : [s EXCEPT ![g].state = x][h] = IF h = g THEN [s[g] EXCEPT !.state = x] ELSE s[h]
<1> DEFINE t == [s EXCEPT ![g].state = x]
<1>1. s \in [1 .. Len(s) -> ClaimRecords] /\ Len(s) \in Nat
  BY LenProperties
<1>2. [s[g] EXCEPT !.state = x] \in ClaimRecords
  BY <1>1 DEF ClaimRecords
<1>3. t \in [1 .. Len(s) -> ClaimRecords]
  BY <1>1, <1>2
<1>4. t \in Seq(ClaimRecords)
  BY <1>1, <1>3, IsASeq
<1>5. Len(t) = Len(s)
  BY <1>1, <1>3, <1>4, LenProperties
<1> QED
  BY <1>1, <1>4, <1>5

(* The name a writer is at is one of a bucket. *)
LEMMA CandidateType ==
    ASSUME TypeOK, Pointed, NEW w \in Writers, step[w] \in {"recording", "confirming"}
    PROVE  /\ nth[w] \in 1 .. Len(Chain[KeyOf[w]])
           /\ Candidate(w) \in Buckets
<1>1. KeyOf[w] \in Keys /\ Chain[KeyOf[w]] \in Seq(Buckets)
  BY IdentityAssumption
<1>2. nth[w] \in Nat /\ Len(Chain[KeyOf[w]]) \in Nat
  BY <1>1, LenProperties DEF TypeOK
<1>3. nth[w] \in 1 .. Len(Chain[KeyOf[w]])
  BY <1>2 DEF Pointed
<1> QED
  BY <1>1, <1>3, ElementOfSeq DEF Candidate

(* Every step keeps the types. *)
LEMMA TypeStep == TypeOK /\ KindOK /\ Owned /\ Pointed /\ [Next]_vars => TypeOK'
<1> SUFFICES ASSUME TypeOK, KindOK, Owned, Pointed, [Next]_vars PROVE TypeOK'
  OBVIOUS
<1> USE DEF Go, files, buckets, mine
<1>0. /\ RunOf \in [Writers -> Runs] /\ KeyOf \in [Writers -> Keys]
      /\ Writers \subseteq Files /\ Flat \in Places /\ Buckets \subseteq Places
  BY IdentityAssumption DEF Files, Places
<1>1. CASE UNCHANGED vars
  BY <1>0, <1>1 DEF vars, TypeOK
<1>2. ASSUME NEW r \in Runs, NEW g \in DOMAIN claims[r], ClaimAges(r, g) PROVE TypeOK'
  <2>1. claims[r] \in Seq(ClaimRecords)
    BY <1>0 DEF TypeOK, ClaimRecords
  <2>2. g \in 1 .. Len(claims[r])
    BY <1>0, <2>1, <1>2, LenProperties
  <2>3. [claims[r] EXCEPT ![g].state = "overdue"] \in Seq(ClaimRecords)
    BY <1>0, <2>1, <2>2, Restated
  <2>4. claims' = [claims EXCEPT ![r] = [claims[r] EXCEPT ![g].state = "overdue"]]
    BY <1>0, <1>2 DEF ClaimAges, TypeOK
  <2>5. claims' \in [Runs -> Seq(ClaimRecords)]
    BY <1>0, <2>3, <2>4 DEF TypeOK, ClaimRecords
  <2> QED
    BY <1>0, <1>2, <2>5 DEF ClaimAges, TypeOK, ClaimRecords
<1>3. ASSUME NEW w \in Writers, NEW from \in Steps, NEW to \in Steps, LookFirst(w, from, to) PROVE TypeOK'
  <2>1. Present(w, Order[1]) \subseteq Places
    BY DEF Present, Order, Places
  <2>2. seen' \in [Writers -> SUBSET Places] /\ fresh' \subseteq Writers /\ step' \in [Writers -> Steps]
    BY <1>0, <1>3, <2>1 DEF LookFirst, TypeOK
  <2> QED
    BY <1>0, <1>3, <2>2 DEF LookFirst, TypeOK
<1>4. ASSUME NEW w \in Writers, NEW from \in Steps, NEW missing \in Steps, LookOn(w, from, missing) PROVE TypeOK'
  <2>1. seen[w] \cup Present(w, Order[2]) \subseteq Places
    BY <1>0 DEF TypeOK, Present, Order, Places
  <2>2. place' \in [Writers -> Places] /\ step' \in [Writers -> Steps]
    <3>1. "adding" \in Steps /\ "refused" \in Steps
      BY DEF Steps
    <3>2. \/ step' = [step EXCEPT ![w] = missing] /\ UNCHANGED place
          \/ \E p \in Places : step' = [step EXCEPT ![w] = "adding"] /\ place' = [place EXCEPT ![w] = p]
          \/ step' = [step EXCEPT ![w] = "refused"] /\ UNCHANGED place
      BY <1>0, <1>4, <2>1, Zenon DEF LookOn
    <3>3. place' \in [Writers -> Places]
      BY <3>2 DEF TypeOK
    <3>4. step' \in [Writers -> Steps]
      BY <3>1, <3>2 DEF TypeOK
    <3> QED
      BY <3>3, <3>4
  <2> QED
    BY <1>0, <1>4, <2>1, <2>2 DEF LookOn, TypeOK
<1>5. ASSUME NEW w \in Writers, ListClaims(w) PROVE TypeOK'
  <2>1. Top(w) \in Nat
    BY LenProperties DEF Top, TypeOK
  <2>2. "creating" \in Steps /\ "again" \in Steps
    BY DEF Steps
  <2>3. gen' \in [Writers -> Nat]
    <3>1. gen \in [Writers -> Nat]
      BY DEF TypeOK
    <3>2. gen' = gen \/ gen' = [gen EXCEPT ![w] = Top(w) + 1]
      BY <1>5 DEF ListClaims
    <3> QED
      BY <2>1, <3>1, <3>2
  <2>4. step' \in [Writers -> Steps]
    BY <1>5, <2>2 DEF ListClaims, TypeOK
  <2> QED
    BY <1>5, <2>3, <2>4 DEF ListClaims, TypeOK
<1>6. ASSUME NEW w \in Writers, CreateClaim(w) PROVE TypeOK'
  <2>1. Claim(w) \in ClaimRecords
    BY DEF Claim, ClaimRecords
  <2>2. claims[RunOf[w]] \in Seq(ClaimRecords)
    BY <1>0 DEF TypeOK, ClaimRecords
  <2>3. Append(claims[RunOf[w]], Claim(w)) \in Seq(ClaimRecords)
    BY <1>0, <2>1, <2>2, Appended
  <2>4. claims' \in [Runs -> Seq(ClaimRecords)]
    BY <1>0, <1>6, <2>3 DEF CreateClaim, TypeOK, ClaimRecords
  <2>5. "again" \in Steps /\ "indexing" \in Steps
    BY DEF Steps
  <2>6. gen' \in [Writers -> Nat]
    <3>1. gen \in [Writers -> Nat]
      BY DEF TypeOK
    <3>2. gen' = gen \/ gen' = [gen EXCEPT ![w] = 0]
      BY <1>6 DEF CreateClaim
    <3> QED
      BY <3>1, <3>2
  <2>7. step' \in [Writers -> Steps]
    BY <1>6, <2>5 DEF CreateClaim, TypeOK
  <2> QED
    BY <1>6, <2>4, <2>6, <2>7 DEF CreateClaim, TypeOK, ClaimRecords
<1>7. ASSUME NEW w \in Writers, Release(w), gen[w] \in 1 .. Top(w) PROVE TypeOK'
  <2>1. claims[RunOf[w]] \in Seq(ClaimRecords)
    BY <1>0 DEF TypeOK, ClaimRecords
  <2>2. [claims[RunOf[w]] EXCEPT ![gen[w]].state = "released"] \in Seq(ClaimRecords)
    BY <1>0, <1>7, <2>1, Restated DEF Top
  <2>3. claims' = claims \/ claims' = [claims EXCEPT ![RunOf[w]] = [claims[RunOf[w]] EXCEPT ![gen[w]].state = "released"]]
    BY <1>0, <1>7 DEF Release, Marked, TypeOK
  <2>4. claims' \in [Runs -> Seq(ClaimRecords)]
    BY <1>0, <2>2, <2>3 DEF TypeOK, ClaimRecords
  <2>5. step' \in [Writers -> Steps] /\ gen' \in [Writers -> Nat]
    BY <1>0, <1>7 DEF Release, TypeOK, Steps
  <2> QED
    BY <1>0, <1>7, <2>4, <2>5 DEF Release, TypeOK, ClaimRecords
<1>8. ASSUME NEW w \in Writers, FindBucket(w) PROVE TypeOK'
  <2>1. Thrown(w) \in Steps /\ Settled(w) \in Steps
    BY DEF Thrown, Settled, Steps
  <2>2. {"scanning", "naming", "recording", "confirming"} \subseteq Steps
    BY DEF Steps
  <2>3. KeyOf[w] \in Keys /\ Buckets \subseteq Places
    BY <1>0
  <2>4. ASSUME NEW b \in Buckets \cup {NoBucket}, Confirm(w, b)
        PROVE  step' \in [Writers -> Steps] /\ place' \in [Writers -> Places]
    <3>1. step' \in [Writers -> Steps]
      BY <2>1, <2>2, <2>4 DEF Confirm, TypeOK
    <3>2. place' \in [Writers -> Places]
      BY <2>3, <2>4 DEF Confirm, Take, TypeOK
    <3> QED
      BY <3>1, <3>2
  <2>5. CASE ReadIndex(w)
    <3>1. step' \in [Writers -> Steps] /\ place' \in [Writers -> Places]
      BY <1>0, <2>3, <2>4, <2>5, ScanType DEF ReadIndex, TypeOK
    <3> QED
      BY <1>0, <2>5, <3>1 DEF ReadIndex, TypeOK
  <2>6. CASE Rebuild(w)
    <3>1. Scan[KeyOf[w]] \in Buckets \cup {NoBucket}
      BY <1>0, <2>3, ScanType
    <3>2. step' \in [Writers -> Steps]
      BY <2>1, <2>2, <2>6 DEF Rebuild, TypeOK
    <3>3. place' \in [Writers -> Places]
      BY <2>3, <2>6, <3>1 DEF Rebuild, Take, TypeOK
    <3>4. nth' \in [Writers -> Nat]
      <4>1. nth \in [Writers -> Nat]
        BY DEF TypeOK
      <4>2. nth' = nth \/ nth' = [nth EXCEPT ![w] = 1]
        BY <2>6 DEF Rebuild
      <4> QED
        BY <4>1, <4>2
    <3>5. index' \in [Keys -> Buckets \cup {NoBucket}]
      BY <2>6, ScanType DEF Rebuild, TypeOK
    <3>6. entries' \in [Writers -> [Keys -> Buckets \cup {NoBucket}]]
      BY <2>6, ScanType DEF Rebuild, TypeOK
    <3> QED
      BY <2>6, <3>2, <3>3, <3>4, <3>5, <3>6 DEF Rebuild, TypeOK
  <2>7. CASE Name(w)
    BY <1>0, <2>1, <2>2, <2>7 DEF Name, TypeOK
  <2>8. CASE WriteRecord(w)
    BY <1>0, <2>2, <2>3, <2>8 DEF WriteRecord, TypeOK
  <2>9. CASE ReadRecord(w)
    <3>1. step' \in [Writers -> Steps]
      BY <2>1, <2>2, <2>9 DEF ReadRecord, TypeOK
    <3>2. nth' \in [Writers -> Nat]
      <4>1. nth \in [Writers -> Nat]
        BY DEF TypeOK
      <4>2. nth' = nth \/ nth' = [nth EXCEPT ![w] = 0] \/ nth' = [nth EXCEPT ![w] = nth[w] + 1]
        BY <2>9, <4>1 DEF ReadRecord
      <4> QED
        BY <4>1, <4>2
    <3>3. NoEntries \in [Keys -> Buckets \cup {NoBucket}]
      BY DEF NoEntries
    <3>4. entries' \in [Writers -> [Keys -> Buckets \cup {NoBucket}]]
      BY <2>9, <3>3 DEF ReadRecord, TypeOK
    <3>5. Candidate(w) \in Buckets
      BY <2>9, CandidateType DEF ReadRecord
    <3>6. index' \in [Keys -> Buckets \cup {NoBucket}]
      <4>1. entries[w] \in [Keys -> Buckets \cup {NoBucket}] /\ index \in [Keys -> Buckets \cup {NoBucket}]
        BY DEF TypeOK
      <4>2. index' = index \/ index' = [entries[w] EXCEPT ![KeyOf[w]] = Candidate(w)]
        BY <2>9 DEF ReadRecord
      <4> QED
        BY <3>5, <4>1, <4>2
    <3>7. place' \in [Writers -> Places]
      BY <2>3, <2>9, <3>5 DEF ReadRecord, Take, TypeOK
    <3> QED
      BY <2>9, <3>1, <3>2, <3>4, <3>6, <3>7 DEF ReadRecord, TypeOK
  <2> QED
    BY <1>0, <1>8, <2>5, <2>6, <2>7, <2>8, <2>9 DEF FindBucket
<1>9. ASSUME NEW w \in Writers, Put(w), UNCHANGED <<claims, buckets, seen, mine, gen, read, fresh>>, founded' \subseteq Writers,
             step' \in [Writers -> Steps]
      PROVE TypeOK'
  <2> DEFINE f == IF File(w, place[w]) = NoFile THEN w ELSE File(w, place[w])
  <2>1. f \in Files /\ w \in Files
    BY <1>0 DEF File, Files, TypeOK
  <2>2. at' \in [Runs -> [Places -> Files \cup {NoFile}]]
    BY <1>0, <1>9, <2>1 DEF Put, TypeOK
  <2>3. text' \in [Files -> SUBSET Files]
    BY <1>0, <1>9, <2>1 DEF Put, TypeOK
  <2> QED
    BY <1>0, <1>9, <2>2, <2>3 DEF TypeOK, Put
<1>10. ASSUME NEW w \in Writers, Found(w) \/ FoundFails(w) \/ Add(w) PROVE TypeOK'
  <2>1. CASE Found(w)
    BY <1>0, <1>9, <2>1 DEF Found, TypeOK, Steps
  <2>2. CASE Add(w)
    BY <1>0, <1>9, <2>2 DEF Add, TypeOK, Steps
  <2>3. CASE FoundFails(w)
    BY <1>0, <2>3 DEF FoundFails, Thrown, TypeOK, Steps
  <2> QED
    BY <1>0, <1>10, <2>1, <2>2, <2>3
<1>11. ASSUME NEW w \in Writers, Pending(w) \/ RunEnds(w) \/ Die(w) PROVE TypeOK'
  <2>1. File(w, place[w]) \in Files \cup {NoFile}
    BY <1>0 DEF TypeOK, File
  <2> QED
    BY <1>0, <1>11, <2>1 DEF Pending, RunEnds, Die, TypeOK, Steps
<1>12. ASSUME NEW w \in Writers, Migrate(w) PROVE TypeOK'
  <2>1. {"indexing", "linking", "comparing", "unlinking", "done"} \subseteq Steps
    BY DEF Steps
  <2>2. File(w, Flat) \in Files \cup {NoFile} /\ Flat \in Places
    BY <1>0 DEF File, TypeOK, Places
  <2>3. CASE Pick(w)
    BY <1>0, <2>1, <2>3 DEF Pick, TypeOK
  <2>4. CASE Hash(w)
    <3>1. step' \in [Writers -> Steps]
      BY <2>1, <2>4 DEF Hash, TypeOK
    <3>2. read' \in [Writers -> SUBSET Files]
      BY <2>2, <2>4 DEF Hash, TypeOK
    <3> QED
      BY <2>4, <3>1, <3>2 DEF Hash, TypeOK
  <2>5. CASE Link(w)
    <3>1. step' \in [Writers -> Steps]
      BY <2>1, <2>5 DEF Link, TypeOK
    <3>2. at' \in [Runs -> [Places -> Files \cup {NoFile}]]
      <4>1. at \in [Runs -> [Places -> Files \cup {NoFile}]] /\ place[w] \in Places /\ RunOf[w] \in Runs
        BY <1>0 DEF TypeOK
      <4>2. at' = at \/ at' = [at EXCEPT ![RunOf[w]][place[w]] = File(w, Flat)]
        BY <2>5 DEF Link, Linked
      <4> QED
        BY <2>2, <4>1, <4>2
    <3> QED
      BY <2>5, <3>1, <3>2 DEF Link, TypeOK
  <2>6. CASE Compare(w)
    BY <1>0, <2>1, <2>6 DEF Compare, TypeOK
  <2>7. CASE Unlink(w)
    BY <1>0, <2>1, <2>2, <2>7 DEF Unlink, TypeOK
  <2> QED
    BY <1>0, <1>12, <2>3, <2>4, <2>5, <2>6, <2>7 DEF Migrate
<1>13. ASSUME NEW w \in Writers, Resolve(w) PROVE TypeOK'
  <2>1. {"begin", "looking", "claiming", "again", "relooking", "refused"} \subseteq Steps
    BY DEF Steps
  <2> QED
    BY <1>3, <1>4, <1>13, <2>1 DEF Resolve
<1>14. ASSUME NEW w \in Writers, Release(w) PROVE gen[w] \in 1 .. Top(w)
  BY <1>14 DEF Release, Owned, Owning, KindOK, Finding, Moving
<1> QED
  BY <1>1, <1>2, <1>5, <1>6, <1>7, <1>8, <1>10, <1>11, <1>12, <1>13, <1>14 DEF Next

(* What a writer does next depends on its kind. *)
LEMMA KindStep == TypeOK /\ KindOK /\ [Next]_vars => KindOK'
<1> SUFFICES ASSUME TypeOK, KindOK, [Next]_vars PROVE KindOK'
  OBVIOUS
<1>0. step \in [Writers -> Steps]
  BY DEF TypeOK
<1>1. ASSUME NEW w \in Writers, NEW s, Go(w, s),
             w \in Migrators => s \in Finding \cup Moving \cup {"begin", "done"},
             w \notin Migrators => s \notin Moving
      PROVE  KindOK'
  BY <1>0, <1>1 DEF KindOK, Go
<1>2. CASE UNCHANGED vars
  BY <1>2 DEF vars, KindOK
<1>3. ASSUME NEW r \in Runs, NEW g \in DOMAIN claims[r], ClaimAges(r, g) PROVE KindOK'
  BY <1>3 DEF ClaimAges, KindOK
<1>4. ASSUME NEW w \in Writers, Resolve(w) PROVE KindOK'
  <2>1. w \notin Migrators
    BY <1>4 DEF Resolve, LookFirst, LookOn, KindOK, Finding, Moving
  <2>2. \E s \in {"looking", "claiming", "relooking", "refused", "adding"} : Go(w, s)
    BY <1>4 DEF Resolve, LookFirst, LookOn
  <2> QED
    BY <1>1, <2>1, <2>2 DEF Moving
<1>5. ASSUME NEW w \in Writers, FindBucket(w) PROVE KindOK'
  <2>1. \E s \in {"scanning", "naming", "recording", "confirming", Thrown(w), Settled(w)} : Go(w, s)
    BY <1>5 DEF FindBucket, ReadIndex, Confirm, Rebuild, Name, WriteRecord, ReadRecord
  <2>2. Thrown(w) \in {"done", "refused", "backing"} /\ (w \in Migrators => Thrown(w) = "done")
    BY DEF Thrown
  <2>3. Settled(w) = IF w \in Migrators THEN "hashing" ELSE "founding"
    BY DEF Settled
  <2> QED
    BY <1>1, <2>1, <2>2, <2>3 DEF Finding, Moving
<1>6. ASSUME NEW w \in Writers, ListClaims(w) \/ CreateClaim(w) \/ Release(w) PROVE KindOK'
  <2>1. w \notin Migrators
    BY <1>6 DEF ListClaims, CreateClaim, Release, KindOK, Finding, Moving
  <2>2. \E s \in {"creating", "again", "indexing", "pending", "refused"} : Go(w, s)
    BY <1>6 DEF ListClaims, CreateClaim, Release
  <2> QED
    BY <1>1, <2>1, <2>2 DEF Moving
<1>7. ASSUME NEW w \in Writers, Found(w) \/ FoundFails(w) \/ Add(w) \/ Pending(w) \/ RunEnds(w) PROVE KindOK'
  <2>1. w \notin Migrators
    BY <1>7 DEF Found, FoundFails, Add, Pending, RunEnds, KindOK, Finding, Moving
  <2>2. \E s \in {"releasing", "backing", "refused", "pending", "launched", "done"} : Go(w, s)
    BY <1>7, <2>1 DEF Found, FoundFails, Thrown, Add, Pending, RunEnds
  <2> QED
    BY <1>1, <2>1, <2>2 DEF Moving
<1>8. ASSUME NEW w \in Writers, Migrate(w) PROVE KindOK'
  <2>1. w \in Migrators
    BY <1>8 DEF Migrate, Pick, Hash, Link, Compare, Unlink, KindOK, Moving
  <2>2. \E s \in {"indexing", "linking", "comparing", "unlinking", "done"} : Go(w, s)
    BY <1>8 DEF Migrate, Pick, Hash, Link, Compare, Unlink
  <2> QED
    BY <1>1, <2>1, <2>2 DEF Finding, Moving
<1>9. ASSUME NEW w \in Writers, Die(w) PROVE KindOK'
  <2>1. Go(w, IF w \in Migrators THEN "begin" ELSE "dead")
    BY <1>9 DEF Die
  <2> QED
    BY <1>1, <2>1 DEF Finding, Moving
<1> QED
  BY <1>2, <1>3, <1>4, <1>5, <1>6, <1>7, <1>8, <1>9 DEF Next

(* Every step keeps what is known of generations and their owners. *)
LEMMA ClaimStep == TypeOK /\ KindOK /\ ClaimInv /\ [Next]_vars => ClaimInv'
<1> SUFFICES ASSUME TypeOK, KindOK, ClaimInv, [Next]_vars PROVE ClaimInv'
  OBVIOUS
<1>0. /\ step \in [Writers -> Steps] /\ gen \in [Writers -> Nat] /\ RunOf \in [Writers -> Runs]
      /\ claims \in [Runs -> Seq(ClaimRecords)]
      /\ \A r \in Runs : Len(claims[r]) \in Nat
  BY IdentityAssumption, LenProperties DEF TypeOK, ClaimRecords
<1>1. ASSUME NEW w \in Writers, NEW s, Go(w, s), UNCHANGED <<claims, gen>>, s # "creating",
             w \notin Migrators /\ s \in Owning => step[w] \in Owning
      PROVE  ClaimInv'
  <2>1. Spent'
    BY <1>1 DEF ClaimInv, Spent
  <2>2. Aimed'
    BY <1>0, <1>1 DEF ClaimInv, Aimed, Go, Top
  <2>3. Owned'
    BY <1>0, <1>1 DEF ClaimInv, Owned, Go, Top
  <2> QED
    BY <2>1, <2>2, <2>3 DEF ClaimInv
<1>2. CASE UNCHANGED vars
  BY <1>2 DEF vars, ClaimInv, Spent, Aimed, Owned, Top
<1>3. ASSUME NEW r \in Runs, NEW g \in 1 .. Len(claims[r]), NEW x \in {"overdue", "released"},
             claims' = [claims EXCEPT ![r] = [claims[r] EXCEPT ![g].state = x]]
      PROVE  /\ \A q \in Runs : Len(claims'[q]) = Len(claims[q])
             /\ \A q \in Runs : \A h \in 1 .. Len(claims[q]) :
                   /\ claims'[q][h].owner = claims[q][h].owner
                   /\ Takeable(claims[q][h]) => Takeable(claims'[q][h])
                   /\ claims'[q][h].state = IF q = r /\ h = g THEN x ELSE claims[q][h].state
  <2>1. \A q \in Runs : claims'[q] = IF q = r THEN [claims[r] EXCEPT ![g].state = x] ELSE claims[q]
    BY <1>0, <1>3
  <2>2. claims[r] \in Seq(ClaimRecords)
    BY <1>0
  <2>3. /\ Len([claims[r] EXCEPT ![g].state = x]) = Len(claims[r])
        /\ \A h \in 1 .. Len(claims[r]) :
              [claims[r] EXCEPT ![g].state = x][h] = IF h = g THEN [claims[r][g] EXCEPT !.state = x] ELSE claims[r][h]
    BY <2>2, Restated
  <2>4. claims[r][g] \in ClaimRecords
    BY <2>2, ElementOfSeq
  <2>5. /\ [claims[r][g] EXCEPT !.state = x].owner = claims[r][g].owner
        /\ [claims[r][g] EXCEPT !.state = x].state = x
    BY <2>4 DEF ClaimRecords
  <2> QED
    BY <2>1, <2>3, <2>5 DEF Takeable
<1>4. ASSUME NEW r \in Runs, NEW g \in DOMAIN claims[r], ClaimAges(r, g) PROVE ClaimInv'
  <2>1. g \in 1 .. Len(claims[r])
    BY <1>0, <1>4, LenProperties
  <2>2. claims' = [claims EXCEPT ![r] = [claims[r] EXCEPT ![g].state = "overdue"]]
    BY <1>0, <1>4 DEF ClaimAges
  <2>3. UNCHANGED <<step, gen>>
    BY <1>4 DEF ClaimAges
  <2>4. /\ \A q \in Runs : Len(claims'[q]) = Len(claims[q])
        /\ \A q \in Runs : \A h \in 1 .. Len(claims[q]) :
              /\ claims'[q][h].owner = claims[q][h].owner
              /\ Takeable(claims[q][h]) => Takeable(claims'[q][h])
              /\ claims'[q][h].state = IF q = r /\ h = g THEN "overdue" ELSE claims[q][h].state
    BY <1>3, <2>1, <2>2
  <2>5. Spent' /\ Aimed'
    BY <1>0, <2>3, <2>4 DEF ClaimInv, Spent, Aimed, Top
  <2>6. ASSUME NEW w \in Writers \ Migrators, step[w] \in Owning
        PROVE  /\ gen[w] \in 1 .. Len(claims'[RunOf[w]])
               /\ claims'[RunOf[w]][gen[w]].owner = w
               /\ claims'[RunOf[w]][gen[w]].state # "released"
    <3>1. /\ RunOf[w] \in Runs /\ gen[w] \in 1 .. Len(claims[RunOf[w]])
          /\ claims[RunOf[w]][gen[w]].owner = w
          /\ claims[RunOf[w]][gen[w]].state # "released"
      BY <1>0, <2>6 DEF ClaimInv, Owned, Top
    <3> QED
      BY <2>4, <3>1
  <2>7. Owned'
    BY <2>3, <2>6 DEF Owned, Top
  <2> QED
    BY <2>5, <2>7 DEF ClaimInv
<1>5. ASSUME NEW w \in Writers, ListClaims(w) PROVE ClaimInv'
  <2>1. UNCHANGED claims
    BY <1>5 DEF ListClaims
  <2>2. CASE Go(w, "again") /\ UNCHANGED gen
    BY <1>1, <2>1, <2>2 DEF Owning
  <2>3. CASE /\ Top(w) = 0 \/ Takeable(claims[RunOf[w]][Top(w)])
             /\ Go(w, "creating") /\ gen' = [gen EXCEPT ![w] = Top(w) + 1]
    <3>1. RunOf[w] \in Runs /\ Top(w) \in Nat
      BY <1>0 DEF Top
    <3>2. \A g \in 1 .. Top(w) : Takeable(claims[RunOf[w]][g])
      BY <2>3, <3>1 DEF ClaimInv, Spent, Top
    <3>3. Aimed'
      BY <1>0, <2>1, <2>3, <3>1, <3>2 DEF ClaimInv, Aimed, Go, Top
    <3>4. Owned'
      BY <1>0, <2>1, <2>3 DEF ClaimInv, Owned, Owning, Go, Top
    <3>5. Spent'
      BY <2>1 DEF ClaimInv, Spent
    <3> QED
      BY <3>3, <3>4, <3>5 DEF ClaimInv
  <2> QED
    BY <1>5, <2>2, <2>3 DEF ListClaims
<1>6. ASSUME NEW w \in Writers, CreateClaim(w) PROVE ClaimInv'
  <2>1. CASE Go(w, "again") /\ UNCHANGED claims /\ gen' = [gen EXCEPT ![w] = 0]
    <3>1. Aimed'
      BY <1>0, <2>1 DEF ClaimInv, Aimed, Go, Top
    <3>2. Owned'
      BY <1>0, <2>1 DEF ClaimInv, Owned, Owning, Go, Top
    <3>3. Spent'
      BY <2>1 DEF ClaimInv, Spent
    <3> QED
      BY <3>1, <3>2, <3>3 DEF ClaimInv
  <2>2. CASE /\ step[w] = "creating" /\ gen[w] = Top(w) + 1
             /\ claims' = [claims EXCEPT ![RunOf[w]] = Append(@, Claim(w))]
             /\ Go(w, "indexing") /\ UNCHANGED gen
    <3> DEFINE r == RunOf[w]
    <3> DEFINE top == Len(claims[r])
    <3>1. r \in Runs /\ top \in Nat /\ claims[r] \in Seq(ClaimRecords) /\ Claim(w) \in ClaimRecords
      BY <1>0 DEF Claim, ClaimRecords
    <3>2. /\ Len(Append(claims[r], Claim(w))) = top + 1
          /\ \A g \in 1 .. top : Append(claims[r], Claim(w))[g] = claims[r][g]
          /\ Append(claims[r], Claim(w))[top + 1] = Claim(w)
      BY <3>1, Appended
    <3>3. \A q \in Runs : claims'[q] = IF q = r THEN Append(claims[r], Claim(w)) ELSE claims[q]
      BY <1>0, <2>2
    <3>4. \A g \in 1 .. top : Takeable(claims[r][g])
      <4>1. \A g \in 1 .. Top(w) : g < gen[w] => Takeable(claims[r][g])
        BY <2>2 DEF ClaimInv, Aimed
      <4> QED
        BY <2>2, <3>1, <4>1 DEF Top
    <3>5. Spent'
      <4>1. ASSUME NEW q \in Runs, NEW g \in 1 .. Len(claims'[q]), g < Len(claims'[q])
            PROVE  Takeable(claims'[q][g])
        <5>1. CASE q = r
          <6>1. claims'[q] = Append(claims[r], Claim(w))
            BY <3>3, <5>1
          <6>2. g \in 1 .. top
            BY <3>1, <3>2, <4>1, <6>1
          <6> QED
            BY <3>2, <3>4, <6>1, <6>2
        <5>2. CASE q # r
          BY <3>3, <4>1, <5>2 DEF ClaimInv, Spent
        <5> QED
          BY <5>1, <5>2
      <4> QED
        BY <4>1 DEF Spent
    <3>6. Aimed'
      BY <1>0, <2>2, <3>1, <3>2, <3>3 DEF ClaimInv, Aimed, Go, Top
    <3>7. Claim(w).owner = w /\ Claim(w).state # "released"
      BY DEF Claim
    <3>8. Owned'
      BY <1>0, <2>2, <3>1, <3>2, <3>3, <3>7 DEF ClaimInv, Owned, Go, Top
    <3> QED
      BY <3>5, <3>6, <3>8 DEF ClaimInv
  <2> QED
    BY <1>6, <2>1, <2>2 DEF CreateClaim
<1>7. ASSUME NEW w \in Writers, Release(w) PROVE ClaimInv'
  <2>1. w \notin Migrators /\ step[w] \in Owning
    BY <1>7 DEF Release, Owning, KindOK, Finding, Moving
  <2>2. /\ RunOf[w] \in Runs /\ gen[w] \in 1 .. Len(claims[RunOf[w]])
        /\ claims[RunOf[w]][gen[w]].owner = w
    BY <1>0, <2>1 DEF ClaimInv, Owned, Top
  <2>3. gen' = [gen EXCEPT ![w] = 0] /\ \E s \in {"pending", "refused"} : Go(w, s)
    BY <1>7 DEF Release
  <2>4. /\ \A q \in Runs : Len(claims'[q]) = Len(claims[q])
        /\ \A q \in Runs : \A h \in 1 .. Len(claims[q]) :
              /\ claims'[q][h].owner = claims[q][h].owner
              /\ Takeable(claims[q][h]) => Takeable(claims'[q][h])
              /\ claims'[q][h].state = claims[q][h].state \/ (q = RunOf[w] /\ h = gen[w])
    <3>1. CASE UNCHANGED claims
      BY <3>1 DEF Takeable
    <3>2. CASE claims' = [claims EXCEPT ![RunOf[w]] = [claims[RunOf[w]] EXCEPT ![gen[w]].state = "released"]]
      <4>1. /\ \A q \in Runs : Len(claims'[q]) = Len(claims[q])
            /\ \A q \in Runs : \A h \in 1 .. Len(claims[q]) :
                  /\ claims'[q][h].owner = claims[q][h].owner
                  /\ Takeable(claims[q][h]) => Takeable(claims'[q][h])
                  /\ claims'[q][h].state = IF q = RunOf[w] /\ h = gen[w] THEN "released" ELSE claims[q][h].state
        BY <1>3, <2>2, <3>2
      <4> QED
        BY <4>1
    <3> QED
      BY <1>0, <1>7, <3>1, <3>2 DEF Release, Marked
  <2>5. Spent'
    BY <1>0, <2>4 DEF ClaimInv, Spent
  <2>6. Aimed'
    BY <1>0, <2>3, <2>4 DEF ClaimInv, Aimed, Go, Top
  <2>7. ASSUME NEW v \in Writers \ Migrators, step'[v] \in Owning
        PROVE  /\ gen'[v] \in 1 .. Len(claims'[RunOf[v]])
               /\ claims'[RunOf[v]][gen'[v]].owner = v
               /\ claims'[RunOf[v]][gen'[v]].state # "released"
    <3>1. v # w /\ step[v] \in Owning /\ gen'[v] = gen[v]
      BY <1>0, <2>3, <2>7 DEF Go, Owning
    <3>2. /\ RunOf[v] \in Runs /\ gen[v] \in 1 .. Len(claims[RunOf[v]])
          /\ claims[RunOf[v]][gen[v]].owner = v
          /\ claims[RunOf[v]][gen[v]].state # "released"
      BY <1>0, <3>1 DEF ClaimInv, Owned, Top
    <3>3. ~ (RunOf[v] = RunOf[w] /\ gen[v] = gen[w])
      BY <2>2, <3>1, <3>2
    <3> QED
      BY <2>4, <3>1, <3>2, <3>3
  <2>8. Owned'
    BY <2>7 DEF Owned, Top
  <2> QED
    BY <2>5, <2>6, <2>8 DEF ClaimInv
<1>8. ASSUME NEW w \in Writers, Resolve(w) \/ Migrate(w) \/ Die(w) PROVE ClaimInv'
  <2>1. \E s : Go(w, s) /\ s # "creating" /\ (w \in Migrators \/ s \notin Owning)
    <3>1. CASE Resolve(w)
      BY <3>1 DEF Resolve, LookFirst, LookOn, Owning
    <3>2. CASE Migrate(w)
      BY <3>2 DEF Migrate, Pick, Hash, Link, Compare, Unlink, KindOK, Moving, Owning
    <3>3. CASE Die(w)
      BY <3>3 DEF Die, Owning
    <3> QED
      BY <1>8, <3>1, <3>2, <3>3
  <2>2. UNCHANGED <<claims, gen>>
    BY <1>8 DEF Resolve, LookFirst, LookOn, Migrate, Pick, Hash, Link, Compare, Unlink, Die
  <2> QED
    BY <1>1, <2>1, <2>2
<1>9. ASSUME NEW w \in Writers, FindBucket(w) PROVE ClaimInv'
  <2>1. /\ \E s \in {"scanning", "naming", "recording", "confirming", Thrown(w), Settled(w)} : Go(w, s)
        /\ step[w] \in Owning
        /\ UNCHANGED <<claims, gen>>
    BY <1>9 DEF FindBucket, ReadIndex, Confirm, Rebuild, Name, WriteRecord, ReadRecord, Owning
  <2>2. Thrown(w) # "creating" /\ Settled(w) # "creating"
    BY DEF Thrown, Settled
  <2> QED
    BY <1>1, <2>1, <2>2
<1>10. ASSUME NEW w \in Writers, Found(w) \/ FoundFails(w) PROVE ClaimInv'
  <2>1. \E s \in {"releasing", "backing", Thrown(w)} : Go(w, s)
    BY <1>10 DEF Found, FoundFails
  <2>2. step[w] \in Owning /\ UNCHANGED <<claims, gen>>
    BY <1>10 DEF Found, FoundFails, Owning
  <2>3. Thrown(w) # "creating"
    BY DEF Thrown
  <2> QED
    BY <1>1, <2>1, <2>2, <2>3
<1>11. ASSUME NEW w \in Writers, Add(w) \/ Pending(w) \/ RunEnds(w) PROVE ClaimInv'
  <2>1. \E s \in {"refused", "pending", "launched", "done"} : Go(w, s)
    BY <1>11 DEF Add, Pending, RunEnds
  <2>2. UNCHANGED <<claims, gen>>
    BY <1>11 DEF Add, Pending, RunEnds
  <2> QED
    BY <1>1, <2>1, <2>2 DEF Owning
<1> QED
  BY <1>2, <1>4, <1>5, <1>6, <1>7, <1>8, <1>9, <1>10, <1>11 DEF Next

(* A writer creates the record of one name after another. *)
LEMMA PointedStep == TypeOK /\ Pointed /\ [Next]_vars => Pointed'
<1> SUFFICES ASSUME TypeOK, Pointed, [Next]_vars PROVE Pointed'
  OBVIOUS
<1>0. step \in [Writers -> Steps] /\ nth \in [Writers -> Nat]
  BY DEF TypeOK
<1>1. ASSUME NEW w \in Writers, NEW s, Go(w, s), UNCHANGED nth,
             s \notin {"naming", "recording", "confirming"}
      PROVE  Pointed'
  BY <1>0, <1>1 DEF Pointed, Go
<1>2. CASE UNCHANGED vars
  BY <1>2 DEF vars, mine, Pointed
<1>3. ASSUME NEW r \in Runs, NEW g \in DOMAIN claims[r], ClaimAges(r, g) PROVE Pointed'
  BY <1>3 DEF ClaimAges, mine, Pointed
<1>4. ASSUME NEW w \in Writers, Resolve(w) \/ ListClaims(w) \/ CreateClaim(w) \/ Release(w) PROVE Pointed'
  <2>1. \E s \in {"looking", "claiming", "relooking", "refused", "adding", "creating", "again", "indexing", "pending"} : Go(w, s)
    BY <1>4 DEF Resolve, LookFirst, LookOn, ListClaims, CreateClaim, Release
  <2>2. UNCHANGED nth
    BY <1>4 DEF Resolve, LookFirst, LookOn, ListClaims, CreateClaim, Release, mine
  <2> QED
    BY <1>1, <2>1, <2>2
<1>5. ASSUME NEW w \in Writers, Found(w) \/ FoundFails(w) \/ Add(w) \/ Pending(w) \/ RunEnds(w) PROVE Pointed'
  <2>1. \E s \in {"releasing", "backing", "refused", "pending", "launched", "done"} : Go(w, s)
    BY <1>5 DEF Found, FoundFails, Thrown, Add, Pending, RunEnds
  <2>2. UNCHANGED nth
    BY <1>5 DEF Found, FoundFails, Add, Pending, RunEnds, mine
  <2> QED
    BY <1>1, <2>1, <2>2
<1>6. ASSUME NEW w \in Writers, Migrate(w) \/ Die(w) PROVE Pointed'
  <2>1. \E s \in {"indexing", "linking", "comparing", "unlinking", "done", "begin", "dead"} : Go(w, s)
    BY <1>6 DEF Migrate, Pick, Hash, Link, Compare, Unlink, Die
  <2>2. UNCHANGED nth
    BY <1>6 DEF Migrate, Pick, Hash, Link, Compare, Unlink, Die, mine
  <2> QED
    BY <1>1, <2>1, <2>2
<1>7. ASSUME NEW w \in Writers PROVE Thrown(w) \notin {"naming", "recording", "confirming"} /\ Settled(w) \notin {"naming", "recording", "confirming"}
  BY DEF Thrown, Settled
<1>8. ASSUME NEW w \in Writers, ReadIndex(w) PROVE Pointed'
  <2>1. \E s \in {"scanning", Thrown(w), Settled(w)} : Go(w, s)
    BY <1>8 DEF ReadIndex, Confirm
  <2> QED
    BY <1>1, <1>7, <1>8, <2>1 DEF ReadIndex
<1>9. ASSUME NEW w \in Writers, Rebuild(w) PROVE Pointed'
  <2>1. CASE \E s \in {Thrown(w), Settled(w)} : Go(w, s) /\ UNCHANGED nth
    BY <1>1, <1>7, <2>1
  <2>2. CASE Go(w, "naming") /\ nth' = [nth EXCEPT ![w] = 1]
    BY <1>0, <2>2 DEF Pointed, Go
  <2> QED
    BY <1>9, <2>1, <2>2 DEF Rebuild, mine
<1>10. ASSUME NEW w \in Writers, Name(w) PROVE Pointed'
  <2>1. CASE Go(w, Thrown(w)) /\ UNCHANGED nth
    BY <1>1, <1>7, <2>1
  <2>2. CASE /\ step[w] = "naming" /\ ~ nth[w] > Len(Chain[KeyOf[w]]) /\ UNCHANGED nth
             /\ \E s \in {"recording", "confirming"} : Go(w, s)
    <3>1. Len(Chain[KeyOf[w]]) \in Nat
      BY IdentityAssumption, LenProperties
    <3> QED
      BY <1>0, <2>2, <3>1 DEF Pointed, Go
  <2> QED
    BY <1>10, <2>1, <2>2 DEF Name, mine
<1>11. ASSUME NEW w \in Writers, WriteRecord(w) PROVE Pointed'
  BY <1>0, <1>11 DEF WriteRecord, mine, Pointed, Go
<1>12. ASSUME NEW w \in Writers, ReadRecord(w) PROVE Pointed'
  <2>1. CASE \E s \in {Thrown(w), Settled(w)} : Go(w, s) /\ (UNCHANGED nth \/ nth' = [nth EXCEPT ![w] = 0])
    BY <1>0, <1>7, <2>1 DEF Pointed, Go
  <2>2. CASE step[w] = "confirming" /\ Go(w, "naming") /\ nth' = [nth EXCEPT ![w] = nth[w] + 1]
    BY <1>0, <2>2 DEF Pointed, Go
  <2> QED
    BY <1>0, <1>12, <2>1, <2>2 DEF ReadRecord, mine
<1> QED
  BY <1>2, <1>3, <1>4, <1>5, <1>6, <1>8, <1>9, <1>10, <1>11, <1>12 DEF Next, FindBucket

(* Every step keeps what is known of names and records. *)
LEMMA BucketStep == TypeOK /\ Pointed /\ BucketInv /\ [Next]_vars => BucketInv'
<1> SUFFICES ASSUME TypeOK, Pointed, BucketInv, [Next]_vars PROVE BucketInv'
  OBVIOUS
<1> USE DEF files, buckets, mine
<1>0. /\ step \in [Writers -> Steps] /\ nth \in [Writers -> Nat] /\ place \in [Writers -> Places]
      /\ record \in [Buckets -> Keys \cup {NoRecord, Half}]
      /\ KeyOf \in [Writers -> Keys] /\ NoRecord \notin Keys /\ Half \notin Keys /\ NoRecord # Half
  BY IdentityAssumption DEF TypeOK
<1>1. ASSUME NEW w \in Writers, NEW s, Go(w, s), UNCHANGED record, s \notin Naming,
             \A v \in Writers \ {w} : nth'[v] = nth[v] /\ place'[v] = place[v],
             s \in Placed => place'[w] \in Buckets /\ record[place'[w]] = KeyOf[w]
      PROVE  BucketInv'
  <2>1. \A v \in Writers : step'[v] = IF v = w THEN s ELSE step[v]
    BY <1>0, <1>1 DEF Go
  <2>2. Tried' /\ Known'
    BY <1>1, <2>1 DEF BucketInv, Tried, Known, Passed
  <2>3. \A v \in Writers \ {w} : Candidate(v)' = Candidate(v)
    BY <1>1 DEF Candidate
  <2>4. Begun' /\ Apart'
    BY <1>1, <2>1, <2>3 DEF BucketInv, Begun, Apart, Naming
  <2>5. RightBucket' /\ OneBucket'
    BY <1>1, <2>1 DEF BucketInv, RightBucket, OneBucket, Placed
  <2> QED
    BY <2>2, <2>4, <2>5 DEF BucketInv
<1>2. CASE UNCHANGED vars
  BY <1>2 DEF vars, BucketInv, Tried, Begun, Apart, Known, Passed, Candidate, OneBucket, RightBucket
<1>3. ASSUME NEW r \in Runs, NEW g \in DOMAIN claims[r], ClaimAges(r, g) PROVE BucketInv'
  BY <1>3 DEF ClaimAges, BucketInv, Tried, Begun, Apart, Known, Passed, Candidate, OneBucket, RightBucket
<1>4. ASSUME NEW w \in Writers, Resolve(w) \/ ListClaims(w) \/ CreateClaim(w) \/ Release(w) PROVE BucketInv'
  <2>1. \E s \in {"looking", "claiming", "relooking", "refused", "adding", "creating", "again", "indexing", "pending"} : Go(w, s)
    BY <1>4 DEF Resolve, LookFirst, LookOn, ListClaims, CreateClaim, Release
  <2>2. UNCHANGED <<record, nth>>
    BY <1>4 DEF Resolve, LookFirst, LookOn, ListClaims, CreateClaim, Release
  <2>3. UNCHANGED place \/ \E p \in Places : place' = [place EXCEPT ![w] = p]
    BY <1>4 DEF Resolve, LookFirst, LookOn, ListClaims, CreateClaim, Release, Resolves, Present, Order, Places, TypeOK
  <2> QED
    BY <1>0, <1>1, <2>1, <2>2, <2>3 DEF Naming, Placed
<1>5. ASSUME NEW w \in Writers, FoundFails(w) \/ Add(w) \/ Pending(w) \/ RunEnds(w) \/ Die(w) \/ Pick(w) \/ Unlink(w)
      PROVE  BucketInv'
  <2>1. \E s \in {"backing", "refused", "pending", "launched", "done", "begin", "dead", "indexing"} : Go(w, s)
    BY <1>5 DEF FoundFails, Thrown, Add, Pending, RunEnds, Die, Pick, Unlink
  <2>2. UNCHANGED <<record, nth, place>>
    BY <1>5 DEF FoundFails, Add, Pending, RunEnds, Die, Pick, Unlink
  <2> QED
    BY <1>1, <2>1, <2>2 DEF Naming, Placed
<1>6. ASSUME NEW w \in Writers, Found(w) \/ Hash(w) \/ Link(w) \/ Compare(w) PROVE BucketInv'
  <2>1. \E s \in {"releasing", "linking", "comparing", "unlinking", "done"} : Go(w, s)
    BY <1>6 DEF Found, Hash, Link, Compare
  <2>2. step[w] \in Placed /\ UNCHANGED <<record, nth, place>>
    BY <1>6 DEF Found, Hash, Link, Compare, Placed
  <2>3. place[w] \in Buckets /\ record[place[w]] = KeyOf[w]
    BY <2>2 DEF BucketInv, RightBucket, Placed
  <2> QED
    BY <1>1, <2>1, <2>2, <2>3 DEF Naming
<1>7. ASSUME NEW w \in Writers
      PROVE  Thrown(w) \notin Naming \cup Placed /\ Settled(w) \notin Naming
  BY DEF Thrown, Settled, Naming, Placed
<1>8. ASSUME NEW w \in Writers, NEW b \in Buckets, record[b] = KeyOf[w], Take(w, b), Go(w, Settled(w)), UNCHANGED record,
             \A v \in Writers \ {w} : nth'[v] = nth[v]
      PROVE  BucketInv'
  <2>1. place'[w] = b /\ \A v \in Writers \ {w} : place'[v] = place[v]
    BY <1>0, <1>8 DEF Take
  <2> QED
    BY <1>1, <1>7, <1>8, <2>1
<1>9. ASSUME NEW w \in Writers, ReadIndex(w) PROVE BucketInv'
  <2>1. UNCHANGED <<record, nth>>
    BY <1>9 DEF ReadIndex
  <2>2. ASSUME NEW b, Confirm(w, b) PROVE BucketInv'
    <3>1. CASE b \in Buckets /\ record[b] = KeyOf[w] /\ Take(w, b) /\ Go(w, Settled(w))
      BY <1>8, <2>1, <3>1
    <3>2. CASE UNCHANGED place /\ \E s \in {Thrown(w), "scanning"} : Go(w, s)
      BY <1>1, <1>7, <2>1, <3>2 DEF Naming, Placed
    <3> QED
      BY <2>2, <3>1, <3>2 DEF Confirm
  <2> QED
    BY <1>9, <2>2 DEF ReadIndex
<1>10. ASSUME NEW w \in Writers, Rebuild(w) PROVE BucketInv'
  <2>1. UNCHANGED record
    BY <1>10 DEF Rebuild
  <2>2. CASE Go(w, Thrown(w)) /\ UNCHANGED <<nth, place>>
    BY <1>1, <1>7, <2>1, <2>2
  <2>3. CASE Scan[KeyOf[w]] # NoBucket /\ Take(w, Scan[KeyOf[w]]) /\ Go(w, Settled(w)) /\ UNCHANGED nth
    <3>1. Scan[KeyOf[w]] \in Buckets /\ record[Scan[KeyOf[w]]] = KeyOf[w]
      BY <1>0, <2>3, ScanFinds
    <3> QED
      BY <1>8, <2>1, <2>3, <3>1
  <2>4. CASE Scan[KeyOf[w]] = NoBucket /\ nth' = [nth EXCEPT ![w] = 1] /\ Go(w, "naming") /\ UNCHANGED place
    <3>1. \A b \in Buckets : record[b] # KeyOf[w]
      BY <1>0, <2>4, ScanFinds
    <3>2. \A v \in Writers : step'[v] = (IF v = w THEN "naming" ELSE step[v]) /\ nth'[v] = (IF v = w THEN 1 ELSE nth[v])
      BY <1>0, <2>4 DEF Go
    <3>3. Tried'
      BY <2>1, <3>2 DEF BucketInv, Tried, Passed
    <3>4. Known'
      BY <2>1, <3>1, <3>2 DEF BucketInv, Known, Passed
    <3>5. Begun' /\ Apart'
      BY <2>1, <3>2 DEF BucketInv, Begun, Apart, Candidate
    <3>6. RightBucket' /\ OneBucket'
      BY <2>1, <2>4, <3>2 DEF BucketInv, RightBucket, OneBucket
    <3> QED
      BY <3>3, <3>4, <3>5, <3>6 DEF BucketInv
  <2> QED
    BY <1>10, <2>2, <2>3, <2>4 DEF Rebuild
<1>11. ASSUME NEW w \in Writers, step[w] \in {"naming", "recording"}, NEW s \in {"recording", "confirming"}, Go(w, s),
              UNCHANGED <<nth, place>>,
              \A b \in Buckets : record[b] \in Keys => record'[b] = record[b],
              \A b \in Buckets : record[b] # NoRecord => record'[b] # NoRecord
       PROVE  /\ \A v \in Writers : step'[v] = IF v = w THEN s ELSE step[v]
              /\ \A k \in Keys, n \in Nat : Passed(k, n) => Passed(k, n)'
              /\ Tried'
              /\ RightBucket'
              /\ \A v \in Writers : step[v] \in {"recording", "confirming"} => Candidate(v) \in Buckets
              /\ \A v \in Writers : Candidate(v)' = Candidate(v)
              /\ \A v \in Writers \ {w} : step[v] = "confirming" => record'[Candidate(v)] # NoRecord
  <2>1. \A v \in Writers : step'[v] = IF v = w THEN s ELSE step[v]
    BY <1>0, <1>11 DEF Go
  <2>2. \A k \in Keys, n \in Nat : Passed(k, n) => Passed(k, n)'
    BY <1>11 DEF Passed
  <2>3. Tried'
    BY <1>0, <1>11, <2>1, <2>2 DEF BucketInv, Tried, Naming
  <2>4. RightBucket'
    BY <1>0, <1>11, <2>1 DEF BucketInv, RightBucket
  <2>5. \A v \in Writers : step[v] \in {"recording", "confirming"} => Candidate(v) \in Buckets
    BY CandidateType
  <2>6. \A v \in Writers : Candidate(v)' = Candidate(v)
    BY <1>11 DEF Candidate
  <2>7. \A v \in Writers \ {w} : step[v] = "confirming" => record'[Candidate(v)] # NoRecord
    BY <1>11, <2>5 DEF BucketInv, Begun
  <2> QED
    BY <2>1, <2>2, <2>3, <2>4, <2>5, <2>6, <2>7
<1>12. ASSUME NEW w \in Writers, Name(w) PROVE BucketInv'
  <2>1. step[w] = "naming" /\ UNCHANGED <<nth, place>>
    BY <1>12 DEF Name
  <2>2. CASE Go(w, Thrown(w)) /\ UNCHANGED record
    BY <1>1, <1>7, <2>1, <2>2
  <2>3. CASE record[Candidate(w)] # NoRecord /\ Go(w, "confirming") /\ UNCHANGED record
    <3>1. /\ \A v \in Writers : step'[v] = IF v = w THEN "confirming" ELSE step[v]
          /\ Tried' /\ RightBucket'
          /\ \A v \in Writers : Candidate(v)' = Candidate(v)
      BY <1>11, <2>1, <2>3
    <3>2. Begun' /\ Apart'
      BY <2>3, <3>1 DEF BucketInv, Begun, Apart
    <3>3. Known' /\ OneBucket'
      BY <2>1, <2>3, <3>1 DEF BucketInv, Known, Passed, OneBucket, Naming
    <3> QED
      BY <3>1, <3>2, <3>3 DEF BucketInv
  <2>4. CASE /\ ~ nth[w] > Len(Chain[KeyOf[w]]) /\ record[Candidate(w)] = NoRecord
             /\ record' = [record EXCEPT ![Candidate(w)] = Half] /\ Go(w, "recording")
    <3>1. Candidate(w) \in Buckets
      <4>1. Chain[KeyOf[w]] \in Seq(Buckets)
        BY IdentityAssumption
      <4>2. nth[w] \in 1 .. Len(Chain[KeyOf[w]])
        BY <1>0, <2>1, <2>4, <4>1, LenProperties DEF Pointed
      <4> QED
        BY <4>1, <4>2, ElementOfSeq DEF Candidate
    <3>2. \A b \in Buckets : record'[b] = IF b = Candidate(w) THEN Half ELSE record[b]
      BY <1>0, <2>4, <3>1
    <3>3. /\ \A b \in Buckets : record[b] \in Keys => record'[b] = record[b]
          /\ \A b \in Buckets : record[b] # NoRecord => record'[b] # NoRecord
          /\ \A b \in Buckets : record'[b] \in Keys => record[b] = record'[b]
      BY <1>0, <2>4, <3>2
    <3>4. /\ \A v \in Writers : step'[v] = IF v = w THEN "recording" ELSE step[v]
          /\ \A k \in Keys, n \in Nat : Passed(k, n) => Passed(k, n)'
          /\ Tried' /\ RightBucket'
          /\ \A v \in Writers : step[v] \in {"recording", "confirming"} => Candidate(v) \in Buckets
          /\ \A v \in Writers : Candidate(v)' = Candidate(v)
          /\ \A v \in Writers \ {w} : step[v] = "confirming" => record'[Candidate(v)] # NoRecord
      BY <1>11, <2>1, <2>4, <3>3
    <3>5. \A v \in Writers : step[v] = "recording" => record[Candidate(v)] = Half /\ Candidate(v) # Candidate(w)
      BY <1>0, <2>4 DEF BucketInv, Begun
    <3>6. Begun'
      BY <1>0, <3>1, <3>2, <3>4, <3>5 DEF Begun
    <3>7. Apart'
      BY <3>4, <3>5 DEF BucketInv, Apart
    <3>8. ASSUME NEW v \in Writers, step'[v] \in Naming, NEW b \in Buckets, record'[b] = KeyOf[v]
          PROVE  \E n \in 1 .. Len(Chain[KeyOf[v]]) : Chain[KeyOf[v]][n] = b /\ Passed(KeyOf[v], n)'
      <4>1. step[v] \in Naming /\ record[b] = KeyOf[v]
        BY <1>0, <2>1, <3>3, <3>4, <3>8 DEF Naming
      <4>2. PICK n \in 1 .. Len(Chain[KeyOf[v]]) : Chain[KeyOf[v]][n] = b /\ Passed(KeyOf[v], n)
        BY <4>1 DEF BucketInv, Known
      <4> QED
        BY <1>0, <3>4, <4>2
    <3>10. Known'
      BY <3>8 DEF Known
    <3>9. OneBucket'
      BY <3>3 DEF BucketInv, OneBucket
    <3> QED
      BY <3>4, <3>6, <3>7, <3>9, <3>10 DEF BucketInv
  <2> QED
    BY <1>12, <2>2, <2>3, <2>4 DEF Name
<1>13. ASSUME NEW w \in Writers, WriteRecord(w) PROVE BucketInv'
  <2> DEFINE k == KeyOf[w]
  <2> DEFINE c == Candidate(w)
  <2>1. /\ step[w] = "recording" /\ Go(w, "confirming") /\ UNCHANGED <<nth, place>>
        /\ record' = [record EXCEPT ![c] = k]
    BY <1>13 DEF WriteRecord
  <2>2. /\ c \in Buckets /\ nth[w] \in 1 .. Len(Chain[k]) /\ c = Chain[k][nth[w]]
        /\ record[c] = Half /\ Passed(k, nth[w]) /\ k \in Keys
    BY <1>0, <2>1, CandidateType DEF BucketInv, Begun, Tried, Naming, Candidate
  <2>3. \A b \in Buckets : record'[b] = IF b = c THEN k ELSE record[b]
    BY <1>0, <2>1, <2>2
  <2>4. /\ \A b \in Buckets : record[b] \in Keys => record'[b] = record[b]
        /\ \A b \in Buckets : record[b] # NoRecord => record'[b] # NoRecord
    BY <1>0, <2>2, <2>3
  <2>5. /\ \A v \in Writers : step'[v] = IF v = w THEN "confirming" ELSE step[v]
        /\ \A q \in Keys, n \in Nat : Passed(q, n) => Passed(q, n)'
        /\ Tried' /\ RightBucket'
        /\ \A v \in Writers : step[v] \in {"recording", "confirming"} => Candidate(v) \in Buckets
        /\ \A v \in Writers : Candidate(v)' = Candidate(v)
        /\ \A v \in Writers \ {w} : step[v] = "confirming" => record'[Candidate(v)] # NoRecord
    BY <1>11, <2>1, <2>4
  <2>6. \A v \in Writers \ {w} : step[v] = "recording" => record'[Candidate(v)] = Half
    BY <2>1, <2>3, <2>5 DEF BucketInv, Begun, Apart
  <2>7. Begun'
    BY <1>0, <2>2, <2>3, <2>5, <2>6 DEF Begun
  <2>8. Apart'
    BY <2>5 DEF BucketInv, Apart
  <2>9. ASSUME NEW v \in Writers, step'[v] \in Naming, NEW b \in Buckets, record'[b] = KeyOf[v]
        PROVE  \E n \in 1 .. Len(Chain[KeyOf[v]]) : Chain[KeyOf[v]][n] = b /\ Passed(KeyOf[v], n)'
    <3>1. CASE b = c
      <4>1. KeyOf[v] = k
        BY <2>2, <2>3, <2>9, <3>1
      <4>2. \A n \in 1 .. Len(Chain[k]) : n = nth[w] => Passed(k, n)'
        BY <1>0, <2>2, <2>5
      <4> QED
        BY <2>2, <3>1, <4>1, <4>2
    <3>2. CASE b # c
      <4>1. step[v] \in Naming /\ record[b] = KeyOf[v]
        BY <2>1, <2>3, <2>5, <2>9, <3>2 DEF Naming
      <4>2. PICK n \in 1 .. Len(Chain[KeyOf[v]]) : Chain[KeyOf[v]][n] = b /\ Passed(KeyOf[v], n)
        BY <4>1 DEF BucketInv, Known
      <4> QED
        BY <1>0, <2>5, <4>2
    <3> QED
      BY <3>1, <3>2
  <2>10. Known'
    BY <2>9 DEF Known
  <2>11. ASSUME NEW b \in Buckets, record[b] = k PROVE FALSE
    <3>1. PICK n \in 1 .. Len(Chain[k]) : Chain[k][n] = b /\ Passed(k, n)
      BY <2>1, <2>11 DEF BucketInv, Known, Naming
    <3>2. CASE n = nth[w]
      BY <1>0, <2>2, <2>11, <3>1, <3>2
    <3>3. CASE n < nth[w]
      <4>1. n \in 1 .. nth[w] - 1
        BY <2>2, <3>3
      <4> QED
        BY <2>2, <2>11, <3>1, <4>1 DEF Passed
    <3>4. CASE n > nth[w]
      <4>1. nth[w] \in 1 .. n - 1
        BY <2>2, <3>4
      <4> QED
        BY <1>0, <2>2, <3>1, <4>1 DEF Passed
    <3> QED
      BY <2>2, <3>2, <3>3, <3>4
  <2>12. OneBucket'
    BY <2>3, <2>11 DEF BucketInv, OneBucket
  <2> QED
    BY <2>5, <2>7, <2>8, <2>10, <2>12 DEF BucketInv
<1>14. ASSUME NEW w \in Writers, ReadRecord(w) PROVE BucketInv'
  <2>1. /\ step[w] = "confirming" /\ UNCHANGED record
        /\ nth[w] \in 1 .. Len(Chain[KeyOf[w]]) /\ Candidate(w) \in Buckets
    BY <1>14, CandidateType DEF ReadRecord
  <2>2. CASE record[Candidate(w)] = KeyOf[w] /\ Take(w, Candidate(w)) /\ Go(w, Settled(w)) /\ nth' = [nth EXCEPT ![w] = 0]
    BY <1>0, <1>8, <2>1, <2>2
  <2>3. CASE Go(w, Thrown(w)) /\ UNCHANGED <<nth, place>>
    BY <1>1, <1>7, <2>1, <2>3
  <2>4. CASE /\ record[Candidate(w)] \in Keys \ {KeyOf[w]}
             /\ nth' = [nth EXCEPT ![w] = nth[w] + 1] /\ Go(w, "naming") /\ UNCHANGED place
    <3>1. \A v \in Writers : /\ step'[v] = IF v = w THEN "naming" ELSE step[v]
                             /\ nth'[v] = IF v = w THEN nth[w] + 1 ELSE nth[v]
      BY <1>0, <2>4 DEF Go
    <3>2. Passed(KeyOf[w], nth[w] + 1)
      BY <2>1, <2>4 DEF BucketInv, Tried, Passed, Naming, Candidate
    <3>3. Tried'
      BY <2>1, <3>1, <3>2 DEF BucketInv, Tried, Passed
    <3>4. Known'
      BY <2>1, <3>1 DEF BucketInv, Known, Passed, Naming
    <3>5. Begun' /\ Apart'
      BY <2>1, <3>1 DEF BucketInv, Begun, Apart, Candidate
    <3>6. RightBucket' /\ OneBucket'
      BY <2>1, <2>4, <3>1 DEF BucketInv, RightBucket, OneBucket
    <3> QED
      BY <3>3, <3>4, <3>5, <3>6 DEF BucketInv
  <2> QED
    BY <1>14, <2>2, <2>3, <2>4 DEF ReadRecord
<1> QED
  BY <1>2, <1>3, <1>4, <1>5, <1>6, <1>9, <1>10, <1>12, <1>13, <1>14 DEF Next, FindBucket, Migrate

(* A run id that is being claimed had no transcript when the writer began, and *)
(* a transcript that was only in a bucket is found there.                       *)
Founders == {"claiming", "creating"} \cup Owning
FoundInv ==
    /\ NoSecondFounding
    /\ \A w \in Writers \ Migrators : step[w] \in Founders => w \in fresh
    /\ \A w \in Writers \ Migrators :
          step[w] = "looking" /\ seen[w] = {} /\ w \notin fresh => Present(w, Buckets) # {}

(* Every step keeps what is known of who founds. *)
LEMMA FoundStep == TypeOK /\ KindOK /\ FoundInv /\ [Next]_vars => FoundInv'
<1> SUFFICES ASSUME TypeOK, KindOK, FoundInv, [Next]_vars PROVE FoundInv'
  OBVIOUS
<1> USE DEF files, buckets, mine
<1>0. /\ step \in [Writers -> Steps] /\ seen \in [Writers -> SUBSET Places] /\ place \in [Writers -> Places]
      /\ at \in [Runs -> [Places -> Files \cup {NoFile}]] /\ RunOf \in [Writers -> Runs]
      /\ NoFile \notin Files /\ Writers \subseteq Files /\ Flat \notin Buckets /\ Buckets \subseteq Places
  BY IdentityAssumption DEF TypeOK, Places, Files
<1>1. ASSUME \A r \in Runs : \A b \in Buckets : at[r][b] # NoFile => at'[r][b] # NoFile
      PROVE  \A w \in Writers : Present(w, Buckets) # {} => Present(w, Buckets)' # {}
  BY <1>0, <1>1 DEF Present, File
<1>2. ASSUME NEW w \in Writers, NEW s, Go(w, s), UNCHANGED fresh, s # "looking",
             \A v \in Writers \ {w} : seen'[v] = seen[v],
             \A r \in Runs : \A b \in Buckets : at[r][b] # NoFile => at'[r][b] # NoFile,
             w \in Migrators \/ (s \in Founders => step[w] \in Founders \/ w \in fresh),
             founded' = founded \/ (founded' = founded \cup {w} /\ w \in fresh)
      PROVE  FoundInv'
  <2>1. \A v \in Writers : step'[v] = IF v = w THEN s ELSE step[v]
    BY <1>0, <1>2 DEF Go
  <2>2. \A v \in Writers : Present(v, Buckets) # {} => Present(v, Buckets)' # {}
    BY <1>1, <1>2
  <2> QED
    BY <1>2, <2>1, <2>2 DEF FoundInv, NoSecondFounding
<1>3. CASE UNCHANGED vars
  BY <1>3 DEF vars, FoundInv, NoSecondFounding, Present, File
<1>4. ASSUME NEW r \in Runs, NEW g \in DOMAIN claims[r], ClaimAges(r, g) PROVE FoundInv'
  BY <1>4 DEF ClaimAges, FoundInv, NoSecondFounding, Present, File
<1>5. ASSUME NEW w \in Writers, LookFirst(w, "begin", "looking") PROVE FoundInv'
  <2>1. /\ \A v \in Writers : step'[v] = IF v = w THEN "looking" ELSE step[v]
        /\ \A v \in Writers : seen'[v] = IF v = w THEN Present(w, Order[1]) ELSE seen[v]
        /\ fresh' = IF Present(w, Places) = {} THEN fresh \cup {w} ELSE fresh
        /\ UNCHANGED <<at, founded>>
    BY <1>0, <1>5 DEF LookFirst, Go
  <2>2. \A v \in Writers : Present(v, Buckets)' = Present(v, Buckets)
    BY <2>1 DEF Present, File
  <2>3. Present(w, Order[1]) = {} /\ Present(w, Places) # {} => Present(w, Buckets) # {}
    BY DEF Present, Order, Places
  <2> QED
    BY <2>1, <2>2, <2>3 DEF FoundInv, NoSecondFounding, Founders, Owning
<1>6. ASSUME NEW w \in Writers, LookFirst(w, "again", "relooking") PROVE FoundInv'
  <2>1. Go(w, "relooking") /\ UNCHANGED <<at, fresh, founded>> /\ \A v \in Writers \ {w} : seen'[v] = seen[v]
    BY <1>0, <1>6 DEF LookFirst
  <2> QED
    BY <1>2, <2>1 DEF Founders, Owning
<1>7. ASSUME NEW w \in Writers, NEW from, NEW missing, LookOn(w, from, missing),
             (from = "looking" /\ missing = "claiming") \/ missing = "refused"
      PROVE  FoundInv'
  <2>1. UNCHANGED <<at, fresh, founded>> /\ \A v \in Writers \ {w} : seen'[v] = seen[v]
    BY <1>0, <1>7 DEF LookOn
  <2>2. CASE \E s \in {"refused", "adding"} : Go(w, s)
    BY <1>2, <2>1, <2>2 DEF Founders, Owning
  <2>3. CASE /\ step[w] = "looking" /\ Go(w, "claiming")
             /\ seen[w] \cup Present(w, Order[2]) = {}
    <3>1. w \notin Migrators
      BY <2>3 DEF KindOK, Finding, Moving
    <3>2. seen[w] = {} /\ Present(w, Buckets) = {}
      BY <2>3 DEF Order
    <3>3. w \in fresh
      BY <2>3, <3>1, <3>2 DEF FoundInv
    <3> QED
      BY <1>2, <2>1, <2>3, <3>3
  <2> QED
    BY <1>7, <2>2, <2>3 DEF LookOn
<1>8. ASSUME NEW w \in Writers, ListClaims(w) \/ CreateClaim(w) \/ Release(w) PROVE FoundInv'
  <2>1. \E s \in {"creating", "again", "indexing", "pending", "refused"} : Go(w, s)
    BY <1>8 DEF ListClaims, CreateClaim, Release
  <2>2. step[w] \in Founders /\ UNCHANGED <<at, seen, fresh, founded>>
    BY <1>8 DEF ListClaims, CreateClaim, Release, Founders, Owning
  <2> QED
    BY <1>2, <2>1, <2>2
<1>9. ASSUME NEW w \in Writers, FindBucket(w) PROVE FoundInv'
  <2>1. /\ \E s \in {"scanning", "naming", "recording", "confirming", Thrown(w), Settled(w)} : Go(w, s)
        /\ step[w] \in Founders /\ UNCHANGED <<at, seen, fresh, founded>>
    BY <1>9 DEF FindBucket, ReadIndex, Confirm, Rebuild, Name, WriteRecord, ReadRecord, Founders, Owning
  <2>2. Thrown(w) # "looking" /\ Settled(w) # "looking"
    BY DEF Thrown, Settled
  <2> QED
    BY <1>2, <2>1, <2>2
<1>10. ASSUME NEW w \in Writers, Put(w)
       PROVE  \A r \in Runs : \A b \in Buckets : at[r][b] # NoFile => at'[r][b] # NoFile
  <2>1. \E f : f # NoFile /\ at' = [at EXCEPT ![RunOf[w]][place[w]] = f]
    BY <1>0, <1>10 DEF Put
  <2> QED
    BY <1>0, <2>1
<1>11. ASSUME NEW w \in Writers, Found(w) \/ FoundFails(w) PROVE FoundInv'
  <2>1. \E s \in {"releasing", "backing", Thrown(w)} : Go(w, s)
    BY <1>11 DEF Found, FoundFails
  <2>2. step[w] = "founding" /\ UNCHANGED <<seen, fresh>>
    BY <1>11 DEF Found, FoundFails
  <2>3. Thrown(w) # "looking"
    BY DEF Thrown
  <2>4. w \notin Migrators /\ w \in fresh /\ step[w] \in Founders
    BY <2>2 DEF KindOK, Finding, Moving, FoundInv, Founders, Owning
  <2>5. \A r \in Runs : \A b \in Buckets : at[r][b] # NoFile => at'[r][b] # NoFile
    BY <1>10, <1>11 DEF Found, FoundFails
  <2>6. founded' = founded \/ founded' = founded \cup {w}
    BY <1>11 DEF Found, FoundFails
  <2> QED
    BY <1>2, <2>1, <2>2, <2>3, <2>4, <2>5, <2>6
<1>12. ASSUME NEW w \in Writers, Add(w) \/ Pending(w) \/ RunEnds(w) PROVE FoundInv'
  <2>1. \E s \in {"refused", "pending", "launched", "done"} : Go(w, s)
    BY <1>12 DEF Add, Pending, RunEnds
  <2>2. UNCHANGED <<seen, fresh, founded>>
    BY <1>12 DEF Add, Pending, RunEnds
  <2>3. \A r \in Runs : \A b \in Buckets : at[r][b] # NoFile => at'[r][b] # NoFile
    BY <1>10, <1>12 DEF Add, Pending, RunEnds
  <2> QED
    BY <1>2, <2>1, <2>2, <2>3 DEF Founders, Owning
<1>13. ASSUME NEW w \in Writers, Migrate(w) PROVE FoundInv'
  <2>1. w \in Migrators
    BY <1>13 DEF Migrate, Pick, Hash, Link, Compare, Unlink, KindOK, Moving
  <2>2. \E s \in {"indexing", "linking", "comparing", "unlinking", "done"} : Go(w, s)
    BY <1>13 DEF Migrate, Pick, Hash, Link, Compare, Unlink
  <2>3. UNCHANGED <<seen, fresh, founded>>
    BY <1>13 DEF Migrate, Pick, Hash, Link, Compare, Unlink
  <2>4. \A r \in Runs : \A b \in Buckets : at[r][b] # NoFile => at'[r][b] # NoFile
    <3>1. CASE UNCHANGED at
      BY <3>1
    <3>2. CASE File(w, place[w]) = NoFile /\ at' = [at EXCEPT ![RunOf[w]][place[w]] = File(w, Flat)]
      BY <1>0, <3>2 DEF File
    <3>3. CASE at' = [at EXCEPT ![RunOf[w]][Flat] = NoFile]
      BY <1>0, <3>3
    <3> QED
      BY <1>13, <3>1, <3>2, <3>3 DEF Migrate, Pick, Hash, Link, Linked, Compare, Unlink
  <2> QED
    BY <1>2, <2>1, <2>2, <2>3, <2>4
<1>14. ASSUME NEW w \in Writers, Die(w) PROVE FoundInv'
  <2>1. Go(w, IF w \in Migrators THEN "begin" ELSE "dead") /\ UNCHANGED <<at, seen, fresh, founded>>
    BY <1>14 DEF Die
  <2> QED
    BY <1>2, <2>1 DEF Founders, Owning
<1> QED
  BY <1>3, <1>4, <1>5, <1>6, <1>7, <1>8, <1>9, <1>11, <1>12, <1>13, <1>14 DEF Next, Resolve

(* The files of a run are its own, one that has a text has a name, and a     *)
(* migrator takes away a name of a file that has another.                    *)
Names(r) == {r} \cup Makers(r)
Linking == {"linking", "comparing", "unlinking"}
NameInv ==
    /\ \A r \in Runs : \A p \in Places : at[r][p] \in Names(r) \cup {NoFile}
    /\ \A r \in Runs : \A f \in Names(r) : text[f] # {} => \E p \in Places : at[r][p] = f
    /\ \A m \in Migrators : step[m] \in Linking => File(m, Flat) # NoFile
    /\ \A m \in Migrators : step[m] \in {"comparing", "unlinking"} => File(m, place[m]) = File(m, Flat)

(* Every step keeps what is known of files and their names. *)
LEMMA NameStep == TypeOK /\ KindOK /\ RightBucket /\ NameInv /\ [Next]_vars => NameInv'
<1> SUFFICES ASSUME TypeOK, KindOK, RightBucket, NameInv, [Next]_vars PROVE NameInv'
  OBVIOUS
<1> USE DEF files, buckets, mine
<1>0. /\ step \in [Writers -> Steps] /\ place \in [Writers -> Places]
      /\ at \in [Runs -> [Places -> Files \cup {NoFile}]] /\ text \in [Files -> SUBSET Files] /\ RunOf \in [Writers -> Runs]
      /\ NoFile \notin Files /\ Runs \cup Writers = Files /\ Runs \cap Writers = {} /\ Migrators \subseteq Writers
      /\ Flat \notin Buckets /\ Buckets \cup {Flat} = Places
      /\ \A m, n \in Migrators : RunOf[m] = RunOf[n] => m = n
  BY IdentityAssumption DEF TypeOK, Places, Files
<1>1. ASSUME NEW w \in Writers, NEW s, Go(w, s), UNCHANGED <<at, text>>, \A v \in Writers \ {w} : place'[v] = place[v],
             w \in Migrators /\ s \in Linking => File(w, Flat) # NoFile,
             w \in Migrators /\ s \in {"comparing", "unlinking"} => UNCHANGED place /\ File(w, place[w]) = File(w, Flat)
      PROVE  NameInv'
  <2>1. \A v \in Writers : step'[v] = IF v = w THEN s ELSE step[v]
    BY <1>0, <1>1 DEF Go
  <2>2. \A m \in Migrators : File(m, Flat)' = File(m, Flat)
    BY <1>1 DEF File
  <2>3. \A m \in Migrators : step'[m] \in Linking => File(m, Flat)' # NoFile
    BY <1>0, <1>1, <2>1, <2>2 DEF NameInv
  <2>4. ASSUME NEW m \in Migrators, step'[m] \in {"comparing", "unlinking"}
        PROVE  at'[RunOf[m]][place'[m]] = at'[RunOf[m]][Flat]
    <3>1. CASE m = w
      BY <1>1, <2>1, <2>4, <3>1 DEF File
    <3>2. CASE m # w
      BY <1>0, <1>1, <2>1, <2>4, <3>2 DEF NameInv, File
    <3> QED
      BY <3>1, <3>2
  <2> QED
    BY <1>1, <2>3, <2>4 DEF NameInv, File
<1>2. CASE UNCHANGED vars
  BY <1>2 DEF vars, NameInv, File
<1>3. ASSUME NEW r \in Runs, NEW g \in DOMAIN claims[r], ClaimAges(r, g) PROVE NameInv'
  BY <1>3 DEF ClaimAges, NameInv, File
<1>4. ASSUME NEW w \in Writers, Resolve(w) \/ ListClaims(w) \/ CreateClaim(w) \/ Release(w) PROVE NameInv'
  <2>1. \E s \in {"looking", "claiming", "relooking", "refused", "adding", "creating", "again", "indexing", "pending"} : Go(w, s)
    BY <1>4 DEF Resolve, LookFirst, LookOn, ListClaims, CreateClaim, Release
  <2>2. UNCHANGED <<at, text>>
    BY <1>4 DEF Resolve, LookFirst, LookOn, ListClaims, CreateClaim, Release
  <2>3. UNCHANGED place \/ \E p \in Places : place' = [place EXCEPT ![w] = p]
    BY <1>4 DEF Resolve, LookFirst, LookOn, ListClaims, CreateClaim, Release, Resolves, Present, Order, Places, TypeOK
  <2> QED
    BY <1>0, <1>1, <2>1, <2>2, <2>3 DEF Linking
<1>5. ASSUME NEW w \in Writers, FindBucket(w) PROVE NameInv'
  <2>1. \E s \in {"scanning", "naming", "recording", "confirming", Thrown(w), Settled(w)} : Go(w, s)
    BY <1>5 DEF FindBucket, ReadIndex, Confirm, Rebuild, Name, WriteRecord, ReadRecord
  <2>2. UNCHANGED <<at, text>> /\ (UNCHANGED place \/ \E b : Take(w, b))
    BY <1>5 DEF FindBucket, ReadIndex, Confirm, Rebuild, Name, WriteRecord, ReadRecord
  <2>3. Thrown(w) \notin Linking /\ Settled(w) \notin Linking
    BY DEF Thrown, Settled, Linking
  <2> QED
    BY <1>0, <1>1, <2>1, <2>2, <2>3 DEF Take, Linking
<1>6. ASSUME NEW w \in Writers, FoundFails(w) \/ Pending(w) \/ RunEnds(w) \/ Die(w) \/ Pick(w) PROVE NameInv'
  <2>1. \E s \in {"backing", "refused", "launched", "done", "begin", "dead", "indexing"} : Go(w, s)
    BY <1>6 DEF FoundFails, Thrown, Pending, RunEnds, Die, Pick
  <2>2. UNCHANGED <<at, text, place>>
    BY <1>6 DEF FoundFails, Pending, RunEnds, Die, Pick
  <2> QED
    BY <1>1, <2>1, <2>2 DEF Linking
<1>7. ASSUME NEW w \in Writers \ Migrators, Put(w), NEW s, Go(w, s), UNCHANGED place PROVE NameInv'
  <2> DEFINE r == RunOf[w]
  <2> DEFINE p == place[w]
  <2> DEFINE f == IF at[r][p] = NoFile THEN w ELSE at[r][p]
  <2>1. r \in Runs /\ p \in Places /\ f \in Names(r) /\ f # NoFile /\ Names(r) \subseteq Files
    BY <1>0 DEF NameInv, Names, Makers
  <2>2. at' = [at EXCEPT ![r][p] = f] /\ text' = [text EXCEPT ![f] = @ \cup {w}]
    BY <1>7 DEF Put, File
  <2>3. \A q \in Runs : \A o \in Places : at'[q][o] = IF q = r /\ o = p THEN f ELSE at[q][o]
    BY <1>0, <2>1, <2>2
  <2>4. \A q \in Runs : \A o \in Places : at[q][o] # NoFile => at'[q][o] = at[q][o]
    BY <2>3
  <2>5. \A q \in Runs : \A o \in Places : at'[q][o] \in Names(q) \cup {NoFile}
    BY <2>1, <2>3 DEF NameInv
  <2>6. ASSUME NEW q \in Runs, NEW g \in Names(q), text'[g] # {} PROVE \E o \in Places : at'[q][o] = g
    <3>1. CASE g = f
      <4>1. q = r
        BY <1>0, <2>1, <2>6, <3>1 DEF Names, Makers
      <4> QED
        BY <2>1, <2>3, <3>1, <4>1
    <3>2. CASE g # f
      <4>1. g \in Files
        BY <1>0 DEF Names, Makers
      <4>2. text[g] # {}
        BY <1>0, <2>1, <2>2, <2>6, <3>2, <4>1
      <4>3. PICK o \in Places : at[q][o] = g
        BY <4>2 DEF NameInv
      <4> QED
        BY <1>0, <2>4, <4>1, <4>3
    <3> QED
      BY <3>1, <3>2
  <2>7. ASSUME NEW m \in Migrators, step'[m] \in Linking
        PROVE  /\ at'[RunOf[m]][Flat] # NoFile
               /\ step'[m] \in {"comparing", "unlinking"} => at'[RunOf[m]][place'[m]] = at'[RunOf[m]][Flat]
    <3>1. m # w /\ step'[m] = step[m] /\ RunOf[m] \in Runs /\ place[m] \in Places /\ Flat \in Places
      BY <1>0, <1>7 DEF Go
    <3>2. /\ at[RunOf[m]][Flat] # NoFile
          /\ step[m] \in {"comparing", "unlinking"} => at[RunOf[m]][place[m]] = at[RunOf[m]][Flat]
      BY <2>7, <3>1 DEF NameInv, File
    <3> QED
      BY <1>7, <2>4, <3>1, <3>2
  <2> QED
    BY <2>5, <2>6, <2>7 DEF NameInv, File, Linking
<1>8. ASSUME NEW w \in Writers, Found(w) \/ Add(w) PROVE NameInv'
  <2>1. w \notin Migrators
    BY <1>8 DEF Found, Add, KindOK, Finding, Moving
  <2>2. Put(w) /\ UNCHANGED place /\ \E s : Go(w, s)
    BY <1>8 DEF Found, Add
  <2> QED
    BY <1>7, <2>1, <2>2
<1>9. ASSUME NEW m \in Migrators, Hash(m) PROVE NameInv'
  <2>1. UNCHANGED <<at, text, place>>
    BY <1>9 DEF Hash
  <2>2. CASE Go(m, "done")
    BY <1>0, <1>1, <2>1, <2>2 DEF Linking
  <2>3. CASE /\ File(m, Flat) # NoFile /\ File(m, place[m]) \in {NoFile, File(m, Flat)}
             /\ Go(m, IF File(m, place[m]) = NoFile THEN "linking" ELSE "unlinking")
    BY <1>0, <1>1, <2>1, <2>3
  <2> QED
    BY <1>9, <2>2, <2>3 DEF Hash
<1>10. ASSUME NEW m \in Migrators, Compare(m) PROVE NameInv'
  <2>1. step[m] = "comparing" /\ UNCHANGED <<at, text, place>> /\ \E s \in {"unlinking", "done"} : Go(m, s)
    BY <1>10 DEF Compare
  <2>2. File(m, Flat) # NoFile /\ File(m, place[m]) = File(m, Flat)
    BY <2>1 DEF NameInv, Linking
  <2> QED
    BY <1>0, <1>1, <2>1, <2>2
<1>11. ASSUME NEW m \in Migrators, step[m] \in Linking PROVE place[m] \in Buckets
  BY <1>0, <1>11 DEF RightBucket, Linking
<1>12. ASSUME NEW m \in Migrators, Link(m) PROVE NameInv'
  <2>1. step[m] = "linking" /\ UNCHANGED <<text, place>> /\ place[m] \in Buckets /\ m \in Writers
    BY <1>0, <1>11, <1>12 DEF Link, Linking
  <2>2. CASE UNCHANGED at /\ Go(m, "done")
    BY <1>1, <2>1, <2>2 DEF Linking
  <2>3. CASE at[RunOf[m]][place[m]] = NoFile /\ at' = [at EXCEPT ![RunOf[m]][place[m]] = at[RunOf[m]][Flat]] /\ Go(m, "comparing")
    <3> DEFINE r == RunOf[m]
    <3>1. r \in Runs /\ place[m] \in Places /\ Flat \in Places /\ place[m] # Flat /\ at[r][Flat] # NoFile
      BY <1>0, <2>1 DEF NameInv, Linking, File
    <3>2. \A q \in Runs : \A o \in Places : at'[q][o] = IF q = r /\ o = place[m] THEN at[r][Flat] ELSE at[q][o]
      BY <1>0, <2>3, <3>1
    <3>3. \A q \in Runs : \A o \in Places : at[q][o] # NoFile => at'[q][o] = at[q][o]
      BY <2>3, <3>2
    <3>4. \A q \in Runs : \A o \in Places : at'[q][o] \in Names(q) \cup {NoFile}
      BY <3>1, <3>2 DEF NameInv
    <3>5. ASSUME NEW q \in Runs, NEW g \in Names(q), text'[g] # {} PROVE \E o \in Places : at'[q][o] = g
      <4>1. g # NoFile
        BY <1>0 DEF Names, Makers
      <4>2. PICK o \in Places : at[q][o] = g
        BY <2>1, <3>5 DEF NameInv
      <4> QED
        BY <3>3, <4>1, <4>2
    <3>6. ASSUME NEW n \in Migrators, step'[n] \in Linking
          PROVE  /\ at'[RunOf[n]][Flat] # NoFile
                 /\ step'[n] \in {"comparing", "unlinking"} => at'[RunOf[n]][place'[n]] = at'[RunOf[n]][Flat]
      <4>1. CASE n = m
        BY <2>1, <3>1, <3>2, <4>1
      <4>2. CASE n # m
        <5>1. step'[n] = step[n] /\ RunOf[n] \in Runs /\ place[n] \in Places
          BY <1>0, <2>3, <4>2 DEF Go
        <5>2. /\ at[RunOf[n]][Flat] # NoFile
              /\ step[n] \in {"comparing", "unlinking"} => at[RunOf[n]][place[n]] = at[RunOf[n]][Flat]
          BY <3>6, <5>1 DEF NameInv, File
        <5> QED
          BY <2>1, <3>1, <3>3, <5>1, <5>2
      <4> QED
        BY <4>1, <4>2
    <3> QED
      BY <3>4, <3>5, <3>6 DEF NameInv, File, Linking
  <2> QED
    BY <1>12, <2>2, <2>3 DEF Link, Linked, File
<1>13. ASSUME NEW m \in Migrators, Unlink(m) PROVE NameInv'
  <2> DEFINE r == RunOf[m]
  <2>1. /\ step[m] = "unlinking" /\ UNCHANGED <<text, place>> /\ place[m] \in Buckets /\ r \in Runs
        /\ at' = [at EXCEPT ![r][Flat] = NoFile] /\ Go(m, "done")
    BY <1>0, <1>11, <1>13 DEF Unlink, Linking
  <2>2. place[m] \in Places /\ place[m] # Flat /\ Flat \in Places /\ at[r][place[m]] = at[r][Flat]
    BY <1>0, <2>1 DEF NameInv, File
  <2>3. \A q \in Runs : \A o \in Places : at'[q][o] = IF q = r /\ o = Flat THEN NoFile ELSE at[q][o]
    BY <1>0, <2>1, <2>2
  <2>4. \A q \in Runs : \A o \in Places : at'[q][o] \in Names(q) \cup {NoFile}
    BY <2>3 DEF NameInv
  <2>5. ASSUME NEW q \in Runs, NEW g \in Names(q), text'[g] # {} PROVE \E o \in Places : at'[q][o] = g
    <3>1. PICK o \in Places : at[q][o] = g
      BY <2>1, <2>5 DEF NameInv
    <3>2. CASE q = r /\ o = Flat
      BY <2>2, <2>3, <3>1, <3>2
    <3>3. CASE ~ (q = r /\ o = Flat)
      BY <2>3, <3>1, <3>3
    <3> QED
      BY <3>2, <3>3
  <2>6. ASSUME NEW n \in Migrators, step'[n] \in Linking
        PROVE  /\ at'[RunOf[n]][Flat] # NoFile
               /\ step'[n] \in {"comparing", "unlinking"} => at'[RunOf[n]][place'[n]] = at'[RunOf[n]][Flat]
    <3>1. n # m /\ step'[n] = step[n] /\ RunOf[n] \in Runs /\ RunOf[n] # r /\ place[n] \in Places
      BY <1>0, <2>1, <2>6 DEF Go, Linking
    <3>2. /\ at[RunOf[n]][Flat] # NoFile
          /\ step[n] \in {"comparing", "unlinking"} => at[RunOf[n]][place[n]] = at[RunOf[n]][Flat]
      BY <2>6, <3>1 DEF NameInv, File
    <3> QED
      BY <2>1, <2>2, <2>3, <3>1, <3>2
  <2> QED
    BY <2>4, <2>5, <2>6 DEF NameInv, File, Linking
<1>14. ASSUME NEW w \in Writers, Migrate(w) PROVE w \in Migrators
  BY <1>14 DEF Migrate, Pick, Hash, Link, Compare, Unlink, KindOK, Moving
<1> QED
  BY <1>2, <1>3, <1>4, <1>5, <1>6, <1>8, <1>9, <1>10, <1>12, <1>13, <1>14 DEF Next, Migrate

(* What the steps keep, taken together. *)
IdentityInv == TypeOK /\ KindOK /\ ClaimInv /\ Pointed /\ BucketInv /\ FoundInv /\ NameInv

(* All of it holds at first. *)
LEMMA IdentityInit == Init => IdentityInv
<1> SUFFICES ASSUME Init PROVE IdentityInv
  OBVIOUS
<1>1. TypeOK
  BY TypeInit
<1>2. \A w \in Writers : step[w] = "begin"
  BY DEF Init
<1>3. KindOK /\ Pointed
  BY <1>2 DEF KindOK, Pointed, Finding, Moving
<1>4. ClaimInv
  BY <1>2 DEF ClaimInv, Spent, Aimed, Owned, Owning, Init
<1>5. BucketInv
  BY <1>2 DEF BucketInv, Tried, Begun, Apart, Known, Naming, OneBucket, RightBucket, Init
<1>6. FoundInv
  BY <1>2 DEF FoundInv, NoSecondFounding, Founders, Owning, Init
<1>7. NameInv
  <2>1. PICK old \in SUBSET OldRuns :
            /\ at = [r \in Runs |-> [p \in Places |-> IF r \in old /\ p = Flat THEN r ELSE NoFile]]
            /\ text = [f \in Files |-> IF f \in old THEN {f} ELSE {}]
    BY DEF Init
  <2>2. \A r \in Runs : \A p \in Places : at[r][p] \in Names(r) \cup {NoFile}
    BY <2>1 DEF Names
  <2>3. ASSUME NEW r \in Runs, NEW f \in Names(r), text[f] # {} PROVE \E p \in Places : at[r][p] = f
    <3>1. f \in old
      BY <2>1, <2>3 DEF Names, Makers, Files
    <3>2. f = r /\ Flat \in Places
      BY <2>3, <3>1, IdentityAssumption DEF Names, Makers, Places
    <3> QED
      BY <2>1, <3>1, <3>2
  <2> QED
    BY <1>2, <2>2, <2>3, IdentityAssumption DEF NameInv, Linking
<1> QED
  BY <1>1, <1>3, <1>4, <1>5, <1>6, <1>7 DEF IdentityInv

(* Every step keeps all of it. *)
LEMMA IdentityStep == IdentityInv /\ [Next]_vars => IdentityInv'
<1> SUFFICES ASSUME IdentityInv, [Next]_vars PROVE IdentityInv'
  OBVIOUS
<1>1. TypeOK' /\ KindOK' /\ ClaimInv' /\ Pointed' /\ BucketInv'
  BY TypeStep, KindStep, ClaimStep, PointedStep, BucketStep DEF IdentityInv, ClaimInv
<1>2. FoundInv' /\ NameInv'
  BY FoundStep, NameStep DEF IdentityInv, BucketInv
<1> QED
  BY <1>1, <1>2 DEF IdentityInv

(* Whatever the writers do, the strengthened invariant holds. *)
LEMMA IdentityHolds == Spec => []IdentityInv
BY IdentityInit, IdentityStep, PTL DEF Spec

(* Claims, buckets, transcripts and writers keep their types. *)
THEOREM IdentityTypes == Spec => []TypeOK
<1>1. IdentityInv => TypeOK
  BY DEF IdentityInv
<1> QED
  BY <1>1, IdentityHolds, PTL

(* claimRunIdForWrite: two writers own a run id at a time only if the claim  *)
(* of the earlier one is over its age.                                       *)
THEOREM OneOwnerHolds == Spec => []OneOwner
<1>1. IdentityInv => OneOwner
  <2> SUFFICES ASSUME IdentityInv, NEW v \in Writers \ Migrators, NEW w \in Writers \ Migrators,
                      step[v] \in Owning, step[w] \in Owning, RunOf[v] = RunOf[w], gen[v] < gen[w]
               PROVE  claims[RunOf[v]][gen[v]].state = "overdue"
    BY DEF OneOwner
  <2>1. RunOf[v] \in Runs /\ Len(claims[RunOf[v]]) \in Nat
    BY IdentityAssumption, LenProperties DEF IdentityInv, TypeOK
  <2>2. /\ gen[v] \in 1 .. Len(claims[RunOf[v]]) /\ gen[w] \in 1 .. Len(claims[RunOf[v]])
        /\ claims[RunOf[v]][gen[v]].state # "released"
    BY DEF IdentityInv, ClaimInv, Owned, Top
  <2>3. Takeable(claims[RunOf[v]][gen[v]])
    BY <2>1, <2>2 DEF IdentityInv, ClaimInv, Spent
  <2> QED
    BY <2>2, <2>3 DEF Takeable
<1> QED
  BY <1>1, IdentityHolds, PTL

(* resolveRunDirForWrite: a project gets one bucket, whoever makes it,       *)
(* whatever the index says.                                                  *)
THEOREM OneBucketHolds == Spec => []OneBucket
<1>1. IdentityInv => OneBucket
  BY DEF IdentityInv, BucketInv
<1> QED
  BY <1>1, IdentityHolds, PTL

(* resolveRunDirForWrite: no writer is given the bucket of another project. *)
THEOREM RightBucketHolds == Spec => []RightBucket
<1>1. IdentityInv => RightBucket
  BY DEF IdentityInv, BucketInv
<1> QED
  BY <1>1, IdentityHolds, PTL

(* resolveTranscriptPath and the migration: the flat place is looked at first *)
(* and emptied last, so a writer never misses a transcript that is moving.    *)
THEOREM NoSecondFoundingHolds == Spec => []NoSecondFounding
<1>1. IdentityInv => NoSecondFounding
  BY DEF IdentityInv, FoundInv
<1> QED
  BY <1>1, IdentityHolds, PTL

(* applyProjectsMigration: what was ever written to a transcript can be read. *)
THEOREM NothingLostHolds == Spec => []NothingLost
<1>1. IdentityInv => NothingLost
  <2> SUFFICES ASSUME IdentityInv, NEW r \in Runs, NEW f \in {r} \cup Makers(r), NEW x \in text[f]
               PROVE  \E p \in Places : at[r][p] # NoFile /\ x \in text[at[r][p]]
    BY DEF NothingLost
  <2>1. PICK p \in Places : at[r][p] = f
    BY DEF IdentityInv, NameInv, Names
  <2>2. f # NoFile
    BY IdentityAssumption DEF Makers, Files
  <2> QED
    BY <2>1, <2>2
<1> QED
  BY <1>1, IdentityHolds, PTL
=============================================================================
