--------------------------- MODULE DeliveryRunProofs ---------------------------
(***************************************************************************)
(* For any number of runners, of concurrent repackage calls and of         *)
(* readings of the transcript.                                             *)
(*                                                                         *)
(* Of every run: the types, first terminal wins, chains of reverifications *)
(* that stay well formed, and no reverification after a decision.  The     *)
(* argument: whatever a step does, it appends to the ledger a batch        *)
(* (possibly empty) in which a terminal state change comes last and only   *)
(* when the ledger has none, and a request for a reverification only when  *)
(* the ledger has no decision and the chain is open to it.  One lemma per  *)
(* action shows that; the theorems follow from the batches alone.          *)
(*                                                                         *)
(* Of a run whose first runner keeps its lease (LeaseHeld): who drives it. *)
(* Of a run nobody hosts in the foreground: wao settle declares only dead  *)
(* ones dead.                                                              *)
(*                                                                         *)
(* Of a run that is never resumed (SoleRunner): one delivery, earned       *)
(* outcomes, no worker left at a recovery, decisions that stay valid and   *)
(* acceptances that stand.  The argument: each event a step appends tells  *)
(* of the step, of where the runner was and of what was on record          *)
(* (Contribution), and each step moves the runner on along its way         *)
(* (FirstMoves); the invariants SoleInv and DecisionInv follow from those  *)
(* two, and no action is looked at again.                                  *)
(***************************************************************************)
EXTENDS DeliveryRun, TLAPS, SequenceTheorems, FiniteSetTheorems, WellFoundedInduction

-----------------------------------------------------------------------------
(* Positions in a sequence. *)

(* A nonempty set of positions has a greatest and a least element.          *)
LEMMA Extremes ==
    ASSUME NEW n \in Nat, NEW S \in SUBSET (1 .. n), S # {}
    PROVE  Max(S) \in S /\ Min(S) \in S
<1> DEFINE less == OpToRel(<, Nat)
           down == {n - x : x \in S}
<1>1. PICK x \in S : \A y \in S : ~ (<<y, x>> \in less)
  <2>1. S \subseteq Nat
    OBVIOUS
  <2> QED
    BY <2>1, NatLessThanWellFounded, WFMin
<1>2. \A y \in S : x <= y
  <2> SUFFICES ASSUME NEW y \in S PROVE x <= y
    OBVIOUS
  <2>1. ~ (<<y, x>> \in less)
    BY <1>1
  <2>2. y \in Nat /\ x \in Nat
    OBVIOUS
  <2> QED
    BY <2>1, <2>2 DEF OpToRel
<1>3. PICK d \in down : \A e \in down : ~ (<<e, d>> \in less)
  <2>1. down \subseteq Nat /\ down # {}
    OBVIOUS
  <2> QED
    BY <2>1, NatLessThanWellFounded, WFMin
<1>4. PICK z \in S : d = n - z
  BY <1>3
<1>5. \A y \in S : z >= y
  <2> SUFFICES ASSUME NEW y \in S PROVE z >= y
    OBVIOUS
  <2>1. ~ (<<n - y, d>> \in less)
    BY <1>3
  <2>2. n - y \in Nat /\ d \in Nat
    BY <1>4
  <2> QED
    BY <2>1, <2>2, <1>4 DEF OpToRel
<1> QED
  BY <1>2, <1>5 DEF Max, Min

(* Induction on the naturals, as the least element of a set of them.        *)
LEMMA Least ==
    ASSUME NEW T \in SUBSET Nat, T # {}
    PROVE  \E m \in T : \A k \in 0 .. m - 1 : k \notin T
<1> DEFINE less == OpToRel(<, Nat)
<1>1. PICK m \in T : \A k \in T : ~ (<<k, m>> \in less)
  BY NatLessThanWellFounded, WFMin
<1>2. ASSUME NEW k \in 0 .. m - 1, k \in T PROVE FALSE
  <2>1. k \in Nat /\ m \in Nat /\ k < m
    OBVIOUS
  <2>2. ~ (<<k, m>> \in less)
    BY <1>1, <1>2
  <2> QED
    BY <2>1, <2>2 DEF OpToRel
<1> QED
  BY <1>2

-----------------------------------------------------------------------------
(* The chain of reverifications. *)

(* u is the pairing of the first n events of a sequence.                    *)
Pairs(u, n, events) ==
    u = [i \in 0 .. n |-> IF i = 0 THEN EmptyChain ELSE ExtendChain(u[i - 1], events[i])]

(* Element by element.                                                      *)
LEMMA PairsStep ==
    ASSUME NEW u, NEW n \in Nat, NEW events, Pairs(u, n, events)
    PROVE  /\ u[0] = EmptyChain
           /\ \A i \in 1 .. n : u[i] = ExtendChain(u[i - 1], events[i])
<1> DEFINE w == [i \in 0 .. n |-> IF i = 0 THEN EmptyChain ELSE ExtendChain(u[i - 1], events[i])]
<1>1. u = w
  BY DEF Pairs
<1>2. \A i \in 0 .. n : w[i] = IF i = 0 THEN EmptyChain ELSE ExtendChain(u[i - 1], events[i])
  OBVIOUS
<1> HIDE DEF w
<1> QED
  BY <1>1, <1>2

(* The pairing of any number of events exists.                              *)
LEMMA PairsExist ==
    ASSUME NEW events, NEW n \in Nat
    PROVE  \E u : Pairs(u, n, events)
<1> DEFINE Has(k) == \E u : Pairs(u, k, events)
           T == {k \in Nat : ~ Has(k)}
<1>1. SUFFICES ASSUME T # {} PROVE FALSE
  <2>1. CASE n \in T
    BY <1>1, <2>1
  <2>2. CASE n \notin T
    BY <2>2
  <2> QED
    BY <2>1, <2>2
<1>2. PICK m \in T : \A k \in 0 .. m - 1 : k \notin T
  <2> HIDE DEF T
  <2>1. T \subseteq Nat
    BY DEF T
  <2> QED
    BY <1>1, <2>1, Least
<1>3. m \in Nat /\ ~ Has(m)
  OBVIOUS
<1>4. CASE m = 0
  <2> DEFINE u == [i \in 0 .. 0 |-> EmptyChain]
  <2>1. u = [i \in 0 .. 0 |-> IF i = 0 THEN EmptyChain ELSE ExtendChain(u[i - 1], events[i])]
    OBVIOUS
  <2> HIDE DEF u
  <2>2. Pairs(u, 0, events)
    BY <2>1 DEF Pairs
  <2> QED
    BY <1>3, <1>4, <2>2
<1>5. CASE m # 0
  <2>1. m - 1 \in Nat /\ Has(m - 1)
    BY <1>2, <1>3, <1>5
  <2>2. PICK u : Pairs(u, m - 1, events)
    BY <2>1
  <2>3. /\ u[0] = EmptyChain
        /\ \A i \in 1 .. m - 1 : u[i] = ExtendChain(u[i - 1], events[i])
    BY <2>1, <2>2, PairsStep
  <2> DEFINE v == [i \in 0 .. m |-> IF i = m THEN ExtendChain(u[m - 1], events[m]) ELSE u[i]]
  <2>4. v = [i \in 0 .. m |-> IF i = 0 THEN EmptyChain ELSE ExtendChain(v[i - 1], events[i])]
    <3>1. ASSUME NEW i \in 0 .. m
          PROVE  v[i] = IF i = 0 THEN EmptyChain ELSE ExtendChain(v[i - 1], events[i])
      <4>1. CASE i = 0
        BY <1>3, <1>5, <2>3, <4>1
      <4>2. CASE i # 0
        <5>1. v[i - 1] = u[i - 1]
          BY <1>3, <1>5, <4>2
        <5>2. v[i] = ExtendChain(u[i - 1], events[i])
          BY <1>3, <2>3, <4>2
        <5> QED
          BY <4>2, <5>1, <5>2
      <4> QED
        BY <4>1, <4>2
    <3> DEFINE w == [i \in 0 .. m |-> IF i = 0 THEN EmptyChain ELSE ExtendChain(v[i - 1], events[i])]
    <3>2. v = [i \in 0 .. m |-> v[i]]
      OBVIOUS
    <3> QED
      BY <3>1, <3>2, Zenon
  <2>5. Pairs(v, m, events)
    <3> HIDE DEF v
    <3> QED
      BY <2>4 DEF Pairs
  <2> QED
    BY <1>3, <2>5
<1> QED
  BY <1>4, <1>5

(* What is paired depends on the events paired alone.                       *)
LEMMA PairsAgree ==
    ASSUME NEW u, NEW n \in Nat, NEW events, Pairs(u, n, events),
           NEW v, NEW m \in Nat, NEW longer, Pairs(v, m, longer),
           n <= m, \A i \in 1 .. n : longer[i] = events[i]
    PROVE  v[n] = u[n]
<1> DEFINE T == {k \in Nat : k <= n /\ v[k] # u[k]}
<1>1. CASE T = {}
  BY <1>1
<1>2. CASE T # {}
  <2>1. PICK k \in T : \A j \in 0 .. k - 1 : j \notin T
    <3>1. T \subseteq Nat
      OBVIOUS
    <3> HIDE DEF T
    <3> QED
      BY <1>2, <3>1, Least
  <2>2. u[0] = EmptyChain /\ v[0] = EmptyChain
    BY PairsStep
  <2>3. k # 0
    BY <2>2
  <2>4. k - 1 \in Nat /\ v[k - 1] = u[k - 1]
    BY <2>1, <2>3
  <2>5. u[k] = ExtendChain(u[k - 1], events[k])
    BY <2>3, PairsStep
  <2>6. v[k] = ExtendChain(v[k - 1], longer[k])
    BY <2>3, PairsStep
  <2> QED
    BY <2>3, <2>4, <2>5, <2>6
<1> QED
  BY <1>1, <1>2

(* The chain is the pairing of all the events.                              *)
LEMMA ChainPairs ==
    ASSUME NEW events, Len(events) \in Nat
    PROVE  \E u : Pairs(u, Len(events), events) /\ Chain(events) = u[Len(events)]
<1> DEFINE n == Len(events)
           upTo == CHOOSE u : u = [i \in 0 .. n |-> IF i = 0 THEN EmptyChain
                                                    ELSE ExtendChain(u[i - 1], events[i])]
<1>1. \E u : u = [i \in 0 .. n |-> IF i = 0 THEN EmptyChain ELSE ExtendChain(u[i - 1], events[i])]
  BY PairsExist DEF Pairs
<1>2. upTo = [i \in 0 .. n |-> IF i = 0 THEN EmptyChain ELSE ExtendChain(upTo[i - 1], events[i])]
  BY <1>1, Zenon
<1>3. Chain(events) = upTo[n]
  BY DEF Chain
<1> HIDE DEF upTo
<1> QED
  BY <1>2, <1>3 DEF Pairs

(* An event appended extends the chain by it.                               *)
LEMMA ChainAppend ==
    ASSUME NEW events, NEW longer, Len(events) \in Nat,
           Len(longer) = Len(events) + 1,
           \A i \in 1 .. Len(events) : longer[i] = events[i]
    PROVE  Chain(longer) = ExtendChain(Chain(events), longer[Len(longer)])
<1>1. PICK u : Pairs(u, Len(events), events) /\ Chain(events) = u[Len(events)]
  BY ChainPairs
<1>2. PICK v : Pairs(v, Len(longer), longer) /\ Chain(longer) = v[Len(longer)]
  BY ChainPairs
<1>3. v[Len(events)] = u[Len(events)]
  BY <1>1, <1>2, PairsAgree
<1>4. v[Len(longer)] = ExtendChain(v[Len(longer) - 1], longer[Len(longer)])
  BY <1>2, PairsStep
<1> QED
  BY <1>1, <1>2, <1>3, <1>4

(* Events of other types leave the chain as it is.                          *)
LEMMA ChainIgnores ==
    ASSUME NEW events, NEW longer, Len(events) \in Nat, Len(longer) \in Nat,
           Len(events) <= Len(longer),
           \A i \in 1 .. Len(events) : longer[i] = events[i],
           \A i \in Len(events) + 1 .. Len(longer) :
               longer[i].type \notin {"reverify_requested", "reverify_outcome"}
    PROVE  Chain(longer) = Chain(events)
<1> DEFINE n == Len(events)
<1>1. PICK u : Pairs(u, n, events) /\ Chain(events) = u[n]
  BY ChainPairs
<1>2. PICK v : Pairs(v, Len(longer), longer) /\ Chain(longer) = v[Len(longer)]
  BY ChainPairs
<1>3. v[n] = u[n]
  BY <1>1, <1>2, PairsAgree
<1> DEFINE T == {k \in Nat : n <= k /\ k <= Len(longer) /\ v[k] # u[n]}
<1>4. CASE T = {}
  BY <1>1, <1>2, <1>4
<1>5. CASE T # {}
  <2>1. PICK k \in T : \A j \in 0 .. k - 1 : j \notin T
    <3>1. T \subseteq Nat
      OBVIOUS
    <3> HIDE DEF T
    <3> QED
      BY <1>5, <3>1, Least
  <2>2. k # n
    BY <1>3
  <2>3. k - 1 \in Nat /\ v[k - 1] = u[n]
    BY <2>1, <2>2
  <2>4. v[k] = ExtendChain(v[k - 1], longer[k])
    BY <1>2, <2>2, PairsStep
  <2>5. longer[k].type \notin {"reverify_requested", "reverify_outcome"}
    BY <2>2
  <2>6. ExtendChain(v[k - 1], longer[k]) = v[k - 1]
    BY <2>5 DEF ExtendChain
  <2> QED
    BY <2>3, <2>4, <2>6
<1> QED
  BY <1>4, <1>5

-----------------------------------------------------------------------------
(* What a step may append. *)

(* What wao settle writes: only on the transcript it proved its gates on.   *)
Settles(event) == event.type = "process_missing_confirmed" /\ event.value = "settle"

(* Nothing was appended since wao settle proved its gates.                  *)
Unread == settler \in DOMAIN ledger /\ settler = Len(ledger)

(* Events that neither change the state nor name a worker nor belong to a   *)
(* reverification.                                                          *)
QuietEvents ==
    {event \in [type : EventTypes \ {"state_change", "rerun", "reverify_requested", "reverify_outcome"},
                value : Words, note : Words \cup Runners] : Settles(event) => Unread}

(* The chain lets the attempt be opened, or the open one be completed.      *)
Openable(attempt) ==
    LET chain == Chain(ledger) IN
    /\ chain.open = "none"
    /\ \/ attempt = "first" /\ chain.links = <<>>
       \/ /\ attempt = "second"
          /\ Len(chain.links) = 1
          /\ chain.links[1].value = "failed"
          /\ chain.links[1].note = "eligible"

(* What a step may append, and when.                                        *)
Batch(batch) ==
    /\ batch \in Seq(Events)
    /\ \A i \in DOMAIN batch :
         /\ batch[i].type = "rerun" => batch[i].note \in Runners
         /\ batch[i].type = "state_change" /\ batch[i].value \in TerminalStates =>
              i = Len(batch) /\ TerminalChanges(ledger) = {}
         /\ batch[i].type = "reverify_requested" =>
              Len(batch) = 1 /\ Of(ledger, "decision") = {} /\ Openable(batch[i].value)
         /\ batch[i].type = "reverify_outcome" => Len(batch) = 1 /\ Chain(ledger).open # "none"
         /\ Settles(batch[i]) => Unread

(* A step appends such a batch.                                             *)
Appends == \E batch : Batch(batch) /\ ledger' = ledger \o batch

(* The latest rerun names a runner. *)
RerunsNameRunners == \A i \in Of(ledger, "rerun") : ledger[i].note \in Runners

(* Requests and outcomes alternate as the readers expect.                   *)
ChainInv == Chain(ledger) \in [ok : {"ok"}, links : Seq(Events), open : {"none", "first", "second"}]

(* The invariant of every run.                                              *)
RunInv == TypeOK /\ AtMostOneTerminal /\ RerunsNameRunners /\ ChainInv

(* A word is a value, a word or a runner a note.                            *)
LEMMA EventType ==
    ASSUME NEW type \in EventTypes, NEW value \in Words, NEW note \in Words \cup Runners
    PROVE  Event(type, value, note) \in Events
BY DEF Event, Events

(* With one terminal state change at most, the state it names is what a     *)
(* claim is decided on.                                                     *)
LEMMA NoneClaimed ==
    ASSUME TypeOK, AtMostOneTerminal, ClaimedTerminal(ledger) = "none"
    PROVE  TerminalChanges(ledger) = {}
<1> SUFFICES ASSUME NEW i \in TerminalChanges(ledger) PROVE FALSE
  OBVIOUS
<1>1. TerminalChanges(ledger) = {i}
  BY DEF AtMostOneTerminal
<1>2. i \in Int /\ ledger[i].value \in TerminalStates
  BY LenProperties DEF TerminalChanges, Of, TypeOK
<1> QED
  BY <1>1, <1>2 DEF ClaimedTerminal, Max, TerminalStates

(* The same for a quiet event.                                              *)
LEMMA QuietType ==
    ASSUME NEW type \in EventTypes \ {"state_change", "rerun", "reverify_requested", "reverify_outcome"},
           NEW value \in Words, NEW note \in Words \cup Runners,
           type = "process_missing_confirmed" /\ value = "settle" => Unread
    PROVE  Event(type, value, note) \in QuietEvents
BY DEF Event, QuietEvents, Settles

(* A single event that is no terminal state change and no request.          *)
LEMMA OneEvent ==
    ASSUME NEW type \in EventTypes \ {"state_change", "reverify_requested"},
           NEW value \in Words, NEW note \in Words \cup Runners,
           type = "rerun" => note \in Runners,
           type = "reverify_outcome" => Chain(ledger).open # "none",
           type # "process_missing_confirmed",
           TypeOK, Append1(Event(type, value, note))
    PROVE  Appends
<1> DEFINE batch == <<Event(type, value, note)>>
<1>1. batch \in Seq(Events)
  BY EventType
<1>2. Batch(batch)
  BY <1>1 DEF Batch, Event, Settles
<1>3. ledger' = ledger \o batch
  BY AppendIsConcat, EventType DEF TypeOK, Append1
<1> QED
  BY <1>2, <1>3 DEF Appends

(* A claim of a terminal state, or of another one, whose attempts and facts *)
(* are quiet.                                                               *)
LEMMA ClaimAppends ==
    ASSUME TypeOK, AtMostOneTerminal,
           NEW to \in Words, NEW why \in Words,
           NEW attempts \in Seq(QuietEvents), NEW facts \in Seq(QuietEvents),
           Claim(to, why, attempts, facts)
    PROVE  Appends
<1> DEFINE done == Event("state_change", to, why)
           refused == Event("state_change_rejected", to, why)
           both == attempts \o facts
<1>0. QuietEvents \subseteq Events
  BY DEF QuietEvents, Events
<1>1. done \in Events /\ refused \in Events
  BY EventType DEF EventTypes
<1>2. /\ both \in Seq(QuietEvents) /\ both \in Seq(Events)
      /\ attempts \in Seq(Events) /\ facts \in Seq(Events)
  BY <1>0, ConcatProperties, SeqMonotonic
<1>Q. ASSUME NEW s \in Seq(QuietEvents), NEW i \in DOMAIN s
      PROVE  /\ s[i].type \notin {"state_change", "rerun", "reverify_requested", "reverify_outcome"}
             /\ Settles(s[i]) => Unread
  <2>1. s[i] \in QuietEvents
    BY ElementOfSeq, LenProperties
  <2> QED
    BY <2>1 DEF QuietEvents
<1>3. CASE ClaimedTerminal(ledger) = "none"
  <2> DEFINE batch == both \o <<done>>
  <2>1. batch = Append(both, done)
    BY <1>1, <1>2, AppendIsConcat
  <2>2. /\ batch \in Seq(Events)
        /\ Len(batch) = Len(both) + 1
        /\ \A i \in DOMAIN both : batch[i] = both[i]
        /\ batch[Len(batch)] = done
    BY <1>1, <1>2, <2>1, AppendProperties, LenProperties
  <2>3. TerminalChanges(ledger) = {}
    BY <1>3, NoneClaimed
  <2>4. ASSUME NEW i \in DOMAIN batch
        PROVE  IF i = Len(batch) THEN batch[i] = done
               ELSE i \in DOMAIN both /\ batch[i] = both[i]
    BY <1>2, <2>2, LenProperties
  <2>5. Batch(batch)
    BY <1>2, <1>Q, <2>2, <2>3, <2>4 DEF Batch, Event, Settles
  <2>6. ledger' = ledger \o batch
    <3>1. ledger' = ((ledger \o attempts) \o facts) \o <<done>>
      BY <1>3 DEF Claim
    <3>2. <<done>> \in Seq(Events)
      BY <1>1
    <3>3. ledger \in Seq(Events)
      BY DEF TypeOK
    <3>4. ((ledger \o attempts) \o facts) \o <<done>> = ledger \o ((attempts \o facts) \o <<done>>)
      <4> HIDE DEF done
      <4> QED
        BY <3>2, <3>3, <1>2
    <3> QED
      BY <3>1, <3>4, Zenon
  <2> QED
    BY <2>5, <2>6 DEF Appends
<1>4. CASE ClaimedTerminal(ledger) # "none"
  <2> DEFINE batch == attempts \o <<refused>>
  <2>1. batch = Append(attempts, refused)
    BY <1>1, <1>2, AppendIsConcat
  <2>2. /\ batch \in Seq(Events)
        /\ Len(batch) = Len(attempts) + 1
        /\ \A i \in DOMAIN attempts : batch[i] = attempts[i]
        /\ batch[Len(batch)] = refused
    BY <1>1, <1>2, <2>1, AppendProperties, LenProperties
  <2>3. ASSUME NEW i \in DOMAIN batch
        PROVE  IF i = Len(batch) THEN batch[i] = refused
               ELSE i \in DOMAIN attempts /\ batch[i] = attempts[i]
    BY <2>2, LenProperties
  <2>4. Batch(batch)
    BY <1>Q, <2>2, <2>3 DEF Batch, Event, Settles
  <2>5. ledger' = ledger \o batch
    <3>1. ledger' = (ledger \o attempts) \o <<refused>>
      BY <1>4 DEF Claim
    <3>2. <<refused>> \in Seq(Events)
      BY <1>1
    <3>3. ledger \in Seq(Events)
      BY DEF TypeOK
    <3>4. (ledger \o attempts) \o <<refused>> = ledger \o (attempts \o <<refused>>)
      <4> HIDE DEF refused
      <4> QED
        BY <3>2, <3>3, <1>2
    <3> QED
      BY <3>1, <3>4, Zenon
  <2> QED
    BY <2>4, <2>5 DEF Appends
<1> QED
  BY <1>3, <1>4

-----------------------------------------------------------------------------
(* What is recorded is made of words and runners. *)

(* The status an effective verification ends with is a word, whatever the   *)
(* chain of reverifications looks like.                                     *)
LEMMA StatusIsWord == TypeOK => EffectiveStatus(ledger) \in Words
<1> SUFFICES ASSUME TypeOK PROVE EffectiveStatus(ledger) \in Words
  OBVIOUS
<1>1. \A type : Of(ledger, type) \subseteq 1 .. Len(ledger)
  BY LenProperties DEF Of, TypeOK
<1>2. Len(ledger) \in Nat
  BY LenProperties DEF TypeOK
<1>3. \A i \in 1 .. Len(ledger) : ledger[i].value \in Words
  <2>1. \A i \in 1 .. Len(ledger) : ledger[i] \in Events
    BY ElementOfSeq DEF TypeOK
  <2> QED
    BY <2>1 DEF Events
<1>4. OriginalStatus(ledger) \in Words
  <2> DEFINE S == Of(ledger, "verification")
  <2>1. CASE S = {}
    BY <2>1 DEF OriginalStatus, Words
  <2>2. CASE S # {}
    <3>1. Min(S) \in 1 .. Len(ledger)
      BY <1>1, <1>2, <2>2, Extremes
    <3> QED
      BY <1>3, <2>2, <3>1 DEF OriginalStatus
  <2> QED
    BY <2>1, <2>2
<1>5. NewestComplete(ledger) \in Words
  <2> DEFINE S == Of(ledger, "reverify_outcome")
  <2>1. CASE S # {}
    <3>1. Max(S) \in 1 .. Len(ledger)
      BY <1>1, <1>2, <2>1, Extremes
    <3> QED
      BY <1>3, <2>1, <3>1 DEF NewestComplete, Words, Plans
  <2>2. CASE S = {}
    BY <2>2 DEF NewestComplete, Words, Plans, StreamEndings
  <2> QED
    BY <2>1, <2>2
<1> QED
  BY <1>4, <1>5 DEF EffectiveStatus

(* The transcript always names a runner's worker.                           *)
LEMMA NamedIsRunner == TypeOK /\ RerunsNameRunners => NamedRunner(ledger) \in Runners
<1> SUFFICES ASSUME TypeOK, RerunsNameRunners PROVE NamedRunner(ledger) \in Runners
  OBVIOUS
<1> DEFINE S == Of(ledger, "rerun")
<1>1. S \subseteq 1 .. Len(ledger) /\ Len(ledger) \in Nat
  BY LenProperties DEF Of, TypeOK
<1>2. CASE S = {}
  BY <1>2, RunnersAssumption DEF NamedRunner
<1>3. CASE S # {}
  <2>1. Max(S) \in S
    BY <1>1, <1>3, Extremes
  <2> QED
    BY <1>3, <2>1 DEF NamedRunner, RerunsNameRunners
<1> QED
  BY <1>2, <1>3

(* The recovery a transcript qualifies for is a word.                       *)
LEMMA KindIsWord == RecoveryKind(ledger) \in Words
BY DEF RecoveryKind, Words, Plans

(* Everything a verification may report.                                    *)
LEMMA OutcomeAppends ==
    ASSUME TypeOK, NEW type \in {"verification", "reverify_outcome"},
           type = "reverify_outcome" => Chain(ledger).open # "none",
           \E outcome \in Outcomes(type) : Append1(outcome)
    PROVE  Appends
<1>1. \E value \in Words, note \in Words : Append1(Event(type, value, note))
  <2>1. "passed" \in Words /\ "failed" \in Words /\ "unavailable" \in Words
        /\ "none" \in Words /\ "eligible" \in Words /\ "final" \in Words
    BY DEF Words, Plans
  <2> QED
    BY <2>1 DEF Outcomes
<1> QED
  BY <1>1, OneEvent DEF EventTypes

-----------------------------------------------------------------------------
(* Every step appends a batch or leaves the ledger alone. *)

(* A step appends a batch or leaves the transcript alone.                   *)
AppendsOrNot == Appends \/ UNCHANGED ledger

(* What a runner appends. *)
LEMMA RunnerAppends ==
    ASSUME RunInv, NEW r \in Runners, RunnerStep(r)
    PROVE  AppendsOrNot
<1> USE DEF RunInv, AppendsOrNot
<1>0. plan[r] \in Words /\ contract \in Words
  BY RunnersAssumption DEF TypeOK, Words
<1>1. CASE StreamEnds(r)
  BY <1>1 DEF StreamEnds
<1>2. CASE CheckEnded(r) \/ CheckBeforePackaging(r)
  BY <1>2 DEF CheckEnded, CheckBeforePackaging, AdoptOrGoOn
<1>3. CASE Score(r)
  <2>1. "scorecard_checked" \in EventTypes /\ {"passed", "failed", "none"} \subseteq Words
    BY DEF EventTypes, Words, Plans
  <2>2. UNCHANGED ledger \/ \E result \in {"passed", "failed"} :
                               Append1(Event("scorecard_checked", result, "none"))
    BY <1>3 DEF Score
  <2> QED
    BY <2>1, <2>2, OneEvent
<1>4. CASE Note(r)
  <2>1. {"budget_exceeded", "error"} \subseteq EventTypes /\ "none" \in Words
    BY DEF EventTypes, Words, Plans
  <2>2. \E type \in {"budget_exceeded", "error"} : Append1(Event(type, plan[r], "none"))
    BY <1>4 DEF Note
  <2> QED
    BY <1>0, <2>1, <2>2, OneEvent
<1>5. CASE Package(r)
  BY <1>5 DEF Package
<1>6. CASE ClaimTerminal(r)
  <2>1. CASE plan[r] = "created"
    <3> DEFINE attempts == <<Event("delivery_created", "packaged", contract)>>
               facts == <<Event("completed", "none", "none")>>
    <3>1. Claim("completed", "done", attempts, facts)
      BY <1>6, <2>1 DEF ClaimTerminal, PackageFailures
    <3>2. attempts \in Seq(QuietEvents) /\ facts \in Seq(QuietEvents)
      <4>1. Event("delivery_created", "packaged", contract) \in QuietEvents
        BY <1>0, QuietType DEF EventTypes, Words, Plans
      <4>2. Event("completed", "none", "none") \in QuietEvents
        BY <1>0, QuietType DEF EventTypes, Words, Plans
      <4> QED
        BY <4>1, <4>2
    <3>3. "completed" \in Words /\ "done" \in Words
      BY DEF Words, Plans, StreamEndings
    <3> QED
      BY <3>1, <3>2, <3>3, ClaimAppends
  <2>2. CASE plan[r] \in PackageFailures
    <3> DEFINE attempts == <<Event("delivery_failed", plan[r], "none")>>
               facts == <<Event("error", "delivery", "none")>>
    <3>1. Claim("failed", "delivery_failed", attempts, facts)
      BY <1>6, <2>2 DEF ClaimTerminal, PackageFailures
    <3>2. attempts \in Seq(QuietEvents) /\ facts \in Seq(QuietEvents)
      <4>1. Event("delivery_failed", plan[r], "none") \in QuietEvents
        BY <1>0, QuietType DEF EventTypes, Words, Plans
      <4>2. Event("error", "delivery", "none") \in QuietEvents
        BY <1>0, QuietType DEF EventTypes, Words, Plans
      <4> QED
        BY <4>1, <4>2
    <3>3. "failed" \in Words /\ "delivery_failed" \in Words
      BY DEF Words, Plans
    <3> QED
      BY <3>1, <3>2, <3>3, ClaimAppends
  <2>3. CASE plan[r] = "workdir_escape"
    <3> DEFINE facts == <<Event("isolation_violation", "none", "none"), Event("error", "isolation", "none")>>
    <3>1. Claim("failed", plan[r], <<>>, facts)
      BY <1>6, <2>3 DEF ClaimTerminal, PackageFailures
    <3>2. <<>> \in Seq(QuietEvents) /\ facts \in Seq(QuietEvents)
      <4>1. Event("isolation_violation", "none", "none") \in QuietEvents
        BY QuietType DEF EventTypes, Words, Plans
      <4>2. Event("error", "isolation", "none") \in QuietEvents
        BY QuietType DEF EventTypes, Words, Plans
      <4> QED
        BY <4>1, <4>2
    <3> QED
      BY <1>0, <3>1, <3>2, ClaimAppends DEF Words, Plans
  <2>4. CASE plan[r] \notin {"created", "workdir_escape"} \cup PackageFailures
    <3>1. Claim("failed", plan[r], <<>>, <<>>)
      BY <1>6, <2>4 DEF ClaimTerminal
    <3>2. <<>> \in Seq(QuietEvents)
      OBVIOUS
    <3> QED
      BY <1>0, <3>1, <3>2, ClaimAppends DEF Words, Plans
  <2> QED
    BY <2>1, <2>2, <2>3, <2>4
<1>7. CASE Cleanup(r)
  <2>1. {"stop_verified", "stop_unverified"} \subseteq EventTypes /\ {"cleanup", "none"} \subseteq Words
    BY DEF EventTypes, Words, Plans
  <2>2. UNCHANGED ledger \/ \E type \in {"stop_verified", "stop_unverified"} :
                               Append1(Event(type, "cleanup", "none"))
    BY <1>7 DEF Cleanup
  <2> QED
    BY <2>1, <2>2, OneEvent
<1>8. CASE Verify(r)
  BY <1>8, OutcomeAppends DEF Verify
<1>9. CASE Exit(r) \/ Interrupt(r) \/ WorkerEnds(r) \/ Crash(r) \/ Heartbeat(r) \/ Scan(r)
          \/ Respawn(r)
  BY <1>9 DEF Exit, Interrupt, WorkerEnds, Crash, Heartbeat, Scan, Respawn
<1>10. CASE AbortClaim(r)
  <2> DEFINE facts == <<Event("aborted", "none", "none")>>
  <2>1. Claim("aborted", "external_signal", <<>>, facts)
    BY <1>10 DEF AbortClaim
  <2>2. <<>> \in Seq(QuietEvents) /\ facts \in Seq(QuietEvents)
    <3>1. Event("aborted", "none", "none") \in QuietEvents
      BY QuietType DEF EventTypes, Words, Plans
    <3> QED
      BY <3>1
  <2> QED
    BY <2>1, <2>2, ClaimAppends DEF Words, Plans
<1>11. CASE RecordRerun(r)
  <2>1. Append1(Event("rerun", "none", r))
    BY <1>11 DEF RecordRerun
  <2> QED
    BY <2>1, OneEvent DEF EventTypes, Words, Plans
<1>12. CASE Resubmit(r)
  <2>1. Claim("submitted", "replay_respawned", <<>>, <<>>)
    BY <1>12 DEF Resubmit
  <2>2. <<>> \in Seq(QuietEvents)
    OBVIOUS
  <2> QED
    BY <2>1, <2>2, ClaimAppends DEF Words, Plans
<1>13. CASE RefusedResume(r)
  <2>1. Append1(Event("error", "resume", "none"))
    BY <1>13 DEF RefusedResume
  <2> QED
    BY <2>1, OneEvent DEF EventTypes, Words, Plans
<1> QED
  BY <1>1, <1>2, <1>3, <1>4, <1>5, <1>6, <1>7, <1>8, <1>9, <1>10, <1>11, <1>12, <1>13
     DEF RunnerStep, WindUp

(* Settling an abandoned run, by wao settle or by recovery.                 *)
LEMMA SettlingAppends ==
    ASSUME TypeOK, AtMostOneTerminal, NEW who \in {"settle", "recover"},
           who = "settle" => Unread,
           Claim("failed", "process_missing", <<>>, <<Event("process_missing_confirmed", who, "none")>>)
    PROVE  Appends
<1>1. Event("process_missing_confirmed", who, "none") \in QuietEvents
  BY QuietType DEF EventTypes, Words, Plans
<1>2. /\ <<>> \in Seq(QuietEvents)
      /\ <<Event("process_missing_confirmed", who, "none")>> \in Seq(QuietEvents)
  BY <1>1
<1> QED
  BY <1>2, ClaimAppends DEF Words, Plans

(* What the Lead and the tools append. *)
LEMMA LeadAppends ==
    ASSUME RunInv, LeadStep
    PROVE  AppendsOrNot
<1> USE DEF RunInv, AppendsOrNot
<1>0. contract \in Words
  BY RunnersAssumption DEF TypeOK, Words
<1>1. CASE StopRead \/ SettleProve \/ \E q \in Recoverers : Prove(q)
  BY <1>1 DEF StopRead, SettleProve, Prove
<1>2. CASE StopClaim
  <2> DEFINE attempts == <<Event("stop_requested", "none", "none")>>
             facts == <<Event("aborted", "none", "none")>>
  <2>1. Claim("aborted", "stop_requested", attempts, facts)
    BY <1>2 DEF StopClaim
  <2>2. /\ Event("stop_requested", "none", "none") \in QuietEvents
        /\ Event("aborted", "none", "none") \in QuietEvents
    BY QuietType DEF EventTypes, Words, Plans
  <2>3. attempts \in Seq(QuietEvents) /\ facts \in Seq(QuietEvents)
    BY <2>2
  <2> QED
    BY <2>1, <2>3, ClaimAppends DEF Words, Plans
<1>3. CASE StopKill
  <2>1. {"stop_verified", "stop_unverified"} \subseteq EventTypes /\ {"stop", "none"} \subseteq Words
    BY DEF EventTypes, Words, Plans
  <2>2. \E type \in {"stop_verified", "stop_unverified"} : Append1(Event(type, "stop", "none"))
    BY <1>3 DEF StopKill
  <2> QED
    BY <2>1, <2>2, OneEvent
<1>4. CASE SettleClaim
  <2>1. CASE Claim("failed", "process_missing", <<>>,
                   <<Event("process_missing_confirmed", "settle", "none")>>)
    <3>1. CASE settler = Len(ledger)
      BY <1>4, <2>1, <3>1, SettlingAppends DEF SettleClaim, Unread
    <3>2. CASE settler # Len(ledger)
      <4>1. Append1(Event("state_change_rejected", "failed", "process_missing"))
        BY <1>4, <3>2 DEF SettleClaim
      <4> QED
        BY <4>1, OneEvent DEF EventTypes, Words, Plans
    <3> QED
      BY <3>1, <3>2
  <2>2. CASE Append1(Event("state_change_rejected", "failed", "process_missing"))
    BY <2>2, OneEvent DEF EventTypes, Words, Plans
  <2> QED
    BY <1>4, <2>1, <2>2 DEF SettleClaim
<1>5. CASE \E q \in Recoverers : RecoverClaim(q)
  BY <1>5, SettlingAppends DEF RecoverClaim
<1>6. CASE \E q \in Recoverers : RepackageRejected(q)
  <2>1. Append1(Event("delivery_repackage_rejected", "none", "none"))
    BY <1>6 DEF RepackageRejected
  <2> QED
    BY <2>1, OneEvent DEF EventTypes, Words, Plans
<1>7. CASE CreateRecovered
  <2> DEFINE created == Event("delivery_created", "repackaged", contract)
             recovered == Event("delivery_repackaged", RecoveryKind(ledger), "none")
             batch == <<created, recovered>>
  <2>1. created \in Events /\ recovered \in Events
    BY <1>0, KindIsWord, EventType DEF EventTypes, Words, Plans
  <2>2. batch \in Seq(Events)
    BY <2>1
  <2>3. Batch(batch)
    BY <2>2 DEF Batch, Event, Settles
  <2>4. ledger' = ledger \o batch
    BY <1>7 DEF CreateRecovered
  <2> QED
    BY <2>3, <2>4 DEF Appends
<1>8. CASE RecordRecovered \/ CompleteLink
  BY <1>8, OutcomeAppends DEF RecordRecovered, CompleteLink
<1>9. ASSUME NEW attempt \in {"first", "second"}, Request(attempt)
      PROVE  Appends
  <2> DEFINE asked == Event("reverify_requested", attempt, "none")
             batch == <<asked>>
  <2>1. asked \in Events
    BY EventType DEF EventTypes, Words, Plans
  <2>2. batch \in Seq(Events)
    BY <2>1
  <2>3. Batch(batch)
    <3>1. Openable(attempt)
      <4> DEFINE chain == Chain(ledger)
      <4>1. /\ chain.open = "none"
            /\ Len(chain.links) = IF attempt = "first" THEN 0 ELSE 1
            /\ attempt = "second" => chain.links[1].value = "failed" /\ chain.links[1].note = "eligible"
        BY <1>9 DEF Request
      <4>2. chain.links \in Seq(Events)
        BY DEF ChainInv
      <4>3. Len(chain.links) = 0 => chain.links = <<>>
        BY <4>2, EmptySeq
      <4> HIDE DEF chain
      <4> QED
        BY <4>1, <4>3 DEF Openable, chain
    <3> QED
      BY <1>9, <2>2, <3>1 DEF Batch, Event, Request, Settles
  <2>4. ledger' = ledger \o batch
    BY <1>9, <2>1, AppendIsConcat DEF Request, Append1, TypeOK
  <2> QED
    BY <2>3, <2>4 DEF Appends
<1>10. ASSUME NEW decision \in {"accepted", "rejected"}, Decide(decision)
       PROVE  Appends
  <2>1. Append1(Event("decision", decision, EffectiveStatus(ledger)))
    BY <1>10 DEF Decide
  <2> QED
    BY <2>1, StatusIsWord, OneEvent DEF EventTypes, Words
<1> QED
  BY <1>1, <1>2, <1>3, <1>4, <1>5, <1>6, <1>7, <1>8, <1>9, <1>10 DEF LeadStep

(* The transcript only grows, by batches.                                   *)
LEMMA NextAppends == RunInv /\ [Next]_vars => AppendsOrNot
BY RunnerAppends, LeadAppends DEF Next, LeaseAges, AppendsOrNot, vars

-----------------------------------------------------------------------------
(* What batches keep. *)

(* Where an event of the grown ledger comes from.                           *)
LEMMA GrownLedger ==
    ASSUME TypeOK, NEW batch, Batch(batch), ledger' = ledger \o batch
    PROVE  /\ ledger' \in Seq(Events)
           /\ Len(ledger) \in Nat /\ Len(batch) \in Nat
           /\ Len(ledger') = Len(ledger) + Len(batch)
           /\ DOMAIN ledger' = 1 .. Len(ledger')
           /\ \A i \in DOMAIN ledger' :
                \/ i \in DOMAIN ledger /\ ledger'[i] = ledger[i]
                \/ /\ i > Len(ledger)
                   /\ i - Len(ledger) \in DOMAIN batch
                   /\ ledger'[i] = batch[i - Len(ledger)]
<1>1. batch \in Seq(Events) /\ ledger \in Seq(Events)
  BY DEF Batch, TypeOK
<1> QED
  BY <1>1, ConcatProperties, LenProperties

(* One terminal state, named runners and a well-formed chain survive it.    *)
LEMMA BatchKeeps ==
    ASSUME RunInv, NEW batch, Batch(batch), ledger' = ledger \o batch
    PROVE  AtMostOneTerminal' /\ RerunsNameRunners' /\ ChainInv'
<1> USE DEF RunInv
<1>1. RerunsNameRunners'
  BY GrownLedger DEF RerunsNameRunners, Of, Batch
<1>2. AtMostOneTerminal'
  <2> SUFFICES ASSUME NEW i \in TerminalChanges(ledger)', NEW j \in TerminalChanges(ledger)'
               PROVE  i = j
    BY DEF AtMostOneTerminal
  <2>1. ASSUME NEW k \in TerminalChanges(ledger)'
        PROVE  \/ k \in TerminalChanges(ledger)
               \/ TerminalChanges(ledger) = {} /\ k = Len(ledger')
    <3>1. k \in DOMAIN ledger' /\ ledger'[k].type = "state_change"
          /\ ledger'[k].value \in TerminalStates
      BY DEF TerminalChanges, Of
    <3>2. CASE k \in DOMAIN ledger /\ ledger'[k] = ledger[k]
      BY <3>1, <3>2 DEF TerminalChanges, Of
    <3>3. CASE /\ k - Len(ledger) \in DOMAIN batch
               /\ ledger'[k] = batch[k - Len(ledger)]
      <4>1. k - Len(ledger) = Len(batch) /\ TerminalChanges(ledger) = {}
        BY <3>1, <3>3 DEF Batch
      <4> QED
        BY <3>1, <4>1, GrownLedger
    <3> QED
      BY <3>1, <3>2, <3>3, GrownLedger
  <2> QED
    BY <2>1 DEF AtMostOneTerminal
<1>3. ChainInv'
  <2> DEFINE chain == Chain(ledger)
  <2>0. /\ chain \in [ok : {"ok"}, links : Seq(Events), open : {"none", "first", "second"}]
        /\ batch \in Seq(Events) /\ Len(batch) \in Nat /\ Len(ledger) \in Nat
        /\ Len(ledger') = Len(ledger) + Len(batch)
        /\ DOMAIN ledger = 1 .. Len(ledger) /\ DOMAIN batch = 1 .. Len(batch)
        /\ \A i \in 1 .. Len(ledger) : ledger'[i] = ledger[i]
        /\ \A i \in Len(ledger) + 1 .. Len(ledger') : ledger'[i] = batch[i - Len(ledger)]
    BY GrownLedger, LenProperties DEF ChainInv, Batch, TypeOK
  <2>1. CASE \E i \in DOMAIN batch : batch[i].type \in {"reverify_requested", "reverify_outcome"}
    <3>1. Len(batch) = 1 /\ batch[1].type \in {"reverify_requested", "reverify_outcome"}
      BY <2>0, <2>1 DEF Batch
    <3>2. Chain(ledger') = ExtendChain(chain, batch[1])
      <4>1. Len(ledger') = Len(ledger) + 1
        BY <2>0, <3>1
      <4>2. ledger'[Len(ledger')] = batch[1]
        BY <2>0, <3>1
      <4>3. Len(ledger) \in Nat /\ \A i \in 1 .. Len(ledger) : ledger'[i] = ledger[i]
        BY <2>0
      <4>4. Chain(ledger') = ExtendChain(Chain(ledger), ledger'[Len(ledger')])
        BY ONLY <4>1, <4>3, ChainAppend
      <4> QED
        BY <4>2, <4>4
    <3>3. CASE batch[1].type = "reverify_requested"
      <4>1. Openable(batch[1].value)
        BY <2>0, <3>1, <3>3 DEF Batch
      <4>2. ExtendChain(chain, batch[1]) = [chain EXCEPT !.open = batch[1].value]
        BY <2>0, <3>3, <4>1 DEF ExtendChain, Openable
      <4>3. batch[1].value \in {"first", "second"}
        BY <4>1 DEF Openable
      <4> HIDE DEF chain
      <4> QED
        BY <2>0, <3>2, <4>2, <4>3 DEF ChainInv
    <3>4. CASE batch[1].type = "reverify_outcome"
      <4>1. chain.open # "none"
        BY <2>0, <3>1, <3>4 DEF Batch
      <4>2. ExtendChain(chain, batch[1])
              = [chain EXCEPT !.links = Append(chain.links, batch[1]), !.open = "none"]
        BY <2>0, <3>4, <4>1 DEF ExtendChain
      <4>3. Append(chain.links, batch[1]) \in Seq(Events)
        BY <2>0, <3>1
      <4>4. chain \in [ok : {"ok"}, links : Seq(Events), open : {"none", "first", "second"}]
        BY <2>0
      <4> HIDE DEF chain
      <4> DEFINE links == Append(chain.links, batch[1])
      <4>5. links \in Seq(Events)
        BY <4>3
      <4>6. Chain(ledger') = [chain EXCEPT !.links = links, !.open = "none"]
        BY <3>2, <4>2
      <4> HIDE DEF links
      <4> QED
        BY ONLY <4>4, <4>5, <4>6 DEF ChainInv
    <3> QED
      BY <3>1, <3>3, <3>4
  <2>2. CASE \A i \in DOMAIN batch : batch[i].type \notin {"reverify_requested", "reverify_outcome"}
    <3>1. Chain(ledger') = Chain(ledger)
      <4>1. \A i \in Len(ledger) + 1 .. Len(ledger') :
              ledger'[i].type \notin {"reverify_requested", "reverify_outcome"}
        BY <2>0, <2>2
      <4>2. /\ Len(ledger) \in Nat /\ Len(ledger') \in Nat /\ Len(ledger) <= Len(ledger')
            /\ \A i \in 1 .. Len(ledger) : ledger'[i] = ledger[i]
        BY <2>0
      <4> QED
        BY ONLY <4>1, <4>2, ChainIgnores
    <3> QED
      BY <3>1 DEF ChainInv
  <2> QED
    BY <2>1, <2>2
<1> QED
  BY <1>1, <1>2, <1>3

-----------------------------------------------------------------------------
(* Types. *)

(* The types of everything but the ledger.                                  *)
OthersOK ==
    /\ contract \in Contracts
    /\ runner \in [Runners -> Places]
    /\ plan \in [Runners -> Plans]
    /\ worker \in [Runners -> {"alive", "gone"}]
    /\ host \in [Runners -> {"background", "run", "resume", "daemon"}]
    /\ aborting \in [Runners -> {"no", "killing", "done"}]
    /\ lease \in Runners \cup {Nobody}
    /\ beat \in {"fresh", "stale"}
    /\ stopper \in {"idle", "read", "killing", "done"}
    /\ target \in Runners
    /\ proof \in [Recoverers -> {"none", "proved", "refused", "done"}]

(* A runner's step keeps the types. *)
LEMMA RunnerTypes ==
    ASSUME RunInv, NEW r \in Runners, RunnerStep(r)
    PROVE  OthersOK' /\ settler' = settler
<1> USE RunnersAssumption DEF RunInv, TypeOK, OthersOK, leaseVars, leadVars, Go, Intend, Places
<1>1. CASE StreamEnds(r)
  BY <1>1 DEF StreamEnds, StreamEndings, Plans
<1>2. CASE CheckEnded(r) \/ CheckBeforePackaging(r)
  <2>1. ASSUME NEW place, NEW next \in {"score", "claim", "note", "package"},
               AdoptOrGoOn(r, place, next)
        PROVE  OthersOK' /\ settler' = settler
    BY <2>1 DEF AdoptOrGoOn, Plans
  <2> QED
    BY <1>2, <2>1 DEF CheckEnded, CheckBeforePackaging
<1>3. CASE Score(r)
  BY <1>3 DEF Score, Plans
<1>4. CASE Note(r)
  BY <1>4 DEF Note
<1>5. CASE Package(r)
  BY <1>5 DEF Package, PackageFailures, Plans
<1>6. CASE ClaimTerminal(r)
  <2>1. \E what \in {"verify", "none"} : plan' = [plan EXCEPT ![r] = what]
    BY <1>6 DEF ClaimTerminal
  <2> QED
    BY <1>6, <2>1 DEF ClaimTerminal, Plans
<1>7. CASE Cleanup(r)
  BY <1>7 DEF Cleanup
<1>8. CASE Verify(r)
  BY <1>8 DEF Verify
<1>9. CASE Exit(r)
  BY <1>9 DEF Exit
<1>10. CASE Interrupt(r)
  BY <1>10 DEF Interrupt
<1>11. CASE AbortClaim(r)
  BY <1>11 DEF AbortClaim
<1>12. CASE WorkerEnds(r)
  BY <1>12 DEF WorkerEnds
<1>13. CASE Crash(r)
  BY <1>13 DEF Crash
<1>14. CASE Heartbeat(r)
  BY <1>14 DEF Heartbeat, runVars
<1>15. CASE Scan(r)
  BY <1>15 DEF Scan
<1>16. CASE Respawn(r)
  BY <1>16 DEF Respawn
<1>17. CASE RecordRerun(r) \/ Resubmit(r)
  BY <1>17 DEF RecordRerun, Resubmit
<1>18. CASE RefusedResume(r)
  BY <1>18 DEF RefusedResume
<1> QED
  BY <1>1, <1>2, <1>3, <1>4, <1>5, <1>6, <1>7, <1>8, <1>9, <1>10, <1>11, <1>12, <1>13,
     <1>14, <1>15, <1>16, <1>17, <1>18 DEF RunnerStep, WindUp

(* So does a step of the Lead or its tools. *)
LEMMA LeadTypes ==
    ASSUME RunInv, LeadStep
    PROVE  OthersOK' /\ settler' \in {settler, Settled} \cup DOMAIN ledger
<1> USE DEF RunInv, TypeOK, OthersOK, leaseVars, runVars, leadVars
<1>1. CASE StopRead
  BY <1>1, NamedIsRunner DEF StopRead
<1>2. CASE StopClaim
  BY <1>2 DEF StopClaim
<1>3. CASE StopKill
  BY <1>3 DEF StopKill
<1>4. CASE SettleProve
  BY <1>4 DEF SettleProve
<1>5. CASE SettleClaim
  BY <1>5 DEF SettleClaim
<1>6. CASE \E q \in Recoverers : Prove(q) \/ RecoverClaim(q) \/ RepackageRejected(q)
  BY <1>6 DEF Prove, RecoverClaim, RepackageRejected
<1>7. CASE CreateRecovered \/ RecordRecovered \/ CompleteLink
  BY <1>7 DEF CreateRecovered, RecordRecovered, CompleteLink
<1>8. CASE \/ \E attempt \in {"first", "second"} : Request(attempt)
           \/ \E decision \in {"accepted", "rejected"} : Decide(decision)
  BY <1>8 DEF Request, Decide
<1> QED
  BY <1>1, <1>2, <1>3, <1>4, <1>5, <1>6, <1>7, <1>8 DEF LeadStep

-----------------------------------------------------------------------------
(* The invariant. *)

(* The initial state is typed and has claimed nothing.                      *)
LEMMA InitInv == Init => RunInv
<1> SUFFICES ASSUME Init PROVE RunInv
  OBVIOUS
<1> DEFINE started == Event("state_change", "running", "first_event")
<1>1. started \in Events
  BY EventType DEF EventTypes, Words, Plans
<1>2. ledger \in Seq(Events) /\ Len(ledger) = 1 /\ ledger[1] = started /\ DOMAIN ledger = {1}
  BY <1>1 DEF Init
<1>3. TypeOK
  BY <1>2, RunnersAssumption DEF Init, TypeOK, Places, Plans
<1>4. TerminalChanges(ledger) = {} /\ Of(ledger, "rerun") = {}
  BY <1>2 DEF TerminalChanges, Of, Event, TerminalStates
<1>5. ChainInv
  <2>1. ledger[1].type \notin {"reverify_requested", "reverify_outcome"}
    BY <1>2 DEF Event
  <2>2. \A i \in 1 .. Len(<<>>) : ledger[i] = <<>>[i]
    OBVIOUS
  <2>3. Chain(ledger) = Chain(<<>>)
    BY <1>2, <2>1, <2>2, ChainIgnores
  <2>4. Chain(<<>>) = EmptyChain
    <3>1. PICK u : Pairs(u, Len(<<>>), <<>>) /\ Chain(<<>>) = u[Len(<<>>)]
      BY ChainPairs
    <3> QED
      BY <3>1, PairsStep
  <2>5. <<>> \in Seq(Events)
    OBVIOUS
  <2>6. EmptyChain \in [ok : {"ok"}, links : Seq(Events), open : {"none", "first", "second"}]
    BY ONLY <2>5 DEF EmptyChain
  <2> QED
    BY ONLY <2>3, <2>4, <2>6 DEF ChainInv
<1> QED
  BY <1>3, <1>4, <1>5 DEF RunInv, AtMostOneTerminal, RerunsNameRunners

(* Every step keeps it.                                                     *)
LEMMA StepInv == RunInv /\ [Next]_vars => RunInv'
<1> SUFFICES ASSUME RunInv, [Next]_vars PROVE RunInv'
  OBVIOUS
<1>1. /\ ledger' \in Seq(Events)
      /\ AtMostOneTerminal' /\ RerunsNameRunners' /\ ChainInv'
      /\ Len(ledger') \in Nat /\ Len(ledger) \in Nat /\ Len(ledger) <= Len(ledger')
      /\ DOMAIN ledger \subseteq 0 .. Len(ledger)
  <2>1. CASE Appends
    <3>1. PICK batch : Batch(batch) /\ ledger' = ledger \o batch
      BY <2>1 DEF Appends
    <3>2. AtMostOneTerminal' /\ RerunsNameRunners' /\ ChainInv'
      BY <3>1, BatchKeeps
    <3>3. /\ ledger' \in Seq(Events)
          /\ Len(ledger) \in Nat /\ Len(batch) \in Nat
          /\ Len(ledger') = Len(ledger) + Len(batch)
      BY <3>1, GrownLedger DEF RunInv
    <3>4. DOMAIN ledger = 1 .. Len(ledger)
      BY LenProperties DEF RunInv, TypeOK
    <3> QED
      BY <3>2, <3>3, <3>4
  <2>2. CASE UNCHANGED ledger
    BY <2>2, LenProperties
       DEF RunInv, TypeOK, AtMostOneTerminal, TerminalChanges, RerunsNameRunners, Of, ChainInv
  <2> QED
    BY <2>1, <2>2, NextAppends DEF AppendsOrNot
<1>2. OthersOK' /\ settler' \in {settler, Settled} \cup DOMAIN ledger
  <2>1. ASSUME NEW r \in Runners, RunnerStep(r)
        PROVE  OthersOK' /\ settler' = settler
    BY <2>1, RunnerTypes
  <2>2. CASE LeadStep
    BY <2>2, LeadTypes
  <2>3. CASE LeaseAges
    BY <2>3 DEF LeaseAges, RunInv, TypeOK, OthersOK, runVars, leadVars
  <2>4. CASE UNCHANGED vars
    BY <2>4 DEF vars, runVars, leaseVars, leadVars, RunInv, TypeOK, OthersOK
  <2> QED
    BY <2>1, <2>2, <2>3, <2>4 DEF Next
<1>3. settler' \in {Settled} \cup (0 .. Len(ledger'))
  BY <1>1, <1>2 DEF RunInv, TypeOK, Settled
<1> QED
  BY <1>1, <1>2, <1>3 DEF RunInv, TypeOK, OthersOK

(* The invariant holds of every run, however many runners and calls.        *)
THEOREM RunInvariant == Spec => []RunInv
BY InitInv, StepInv, PTL DEF Spec

(* The transcript and everybody around it stay typed: above all, wao stop   *)
(* always finds a runner's worker to stop.                                  *)
THEOREM TypeCorrect == Spec => []TypeOK
BY RunInvariant, PTL DEF RunInv

(* First terminal wins, whoever races: any number of runners that end,      *)
(* abort, stall or resume, wao stop, wao settle and recovery.               *)
THEOREM OneTerminal == Spec => []AtMostOneTerminal
BY RunInvariant, PTL DEF RunInv

(* However many callers retry and compete, the reverifications of a run     *)
(* form a chain its readers accept: the guards evaluated under the lock are *)
(* enough.                                                                  *)
THEOREM ChainStaysWellFormed == Spec => []ChainWellFormed
<1>1. RunInv => ChainWellFormed
  BY DEF RunInv, ChainInv, ChainWellFormed, ChainStatus
<1> QED
  BY <1>1, RunInvariant, PTL

(* Once the Lead has decided, no reverification is opened, however stale    *)
(* the transcript its caller proved the preconditions on.                   *)
THEOREM NoReverifyAfterDecision == Spec => ReverifyStopsAtDecision
<1>1. ASSUME RunInv, [Next]_vars, Of(ledger, "decision") # {}
      PROVE  Of(ledger', "reverify_requested") = Of(ledger, "reverify_requested")
  <2>1. CASE UNCHANGED ledger
    BY <2>1 DEF Of
  <2>2. ASSUME NEW batch, Batch(batch), ledger' = ledger \o batch
        PROVE  Of(ledger', "reverify_requested") = Of(ledger, "reverify_requested")
    <3>1. /\ DOMAIN ledger \subseteq DOMAIN ledger'
          /\ \A i \in DOMAIN ledger : ledger'[i] = ledger[i]
      BY <1>1, <2>2, GrownLedger, LenProperties DEF RunInv, TypeOK
    <3>2. \A i \in DOMAIN ledger' : ledger'[i].type = "reverify_requested" => i \in DOMAIN ledger
      BY <1>1, <2>2, GrownLedger DEF RunInv, Batch
    <3> QED
      BY <3>1, <3>2 DEF Of
  <2> QED
    BY <1>1, <2>1, <2>2, NextAppends DEF AppendsOrNot, Appends
<1>2. RunInv /\ [Next]_vars
        => [Of(ledger, "decision") # {} =>
              Of(ledger', "reverify_requested") = Of(ledger, "reverify_requested")]_vars
  BY <1>1
<1> QED
  BY <1>2, RunInvariant, PTL DEF Spec, ReverifyStopsAtDecision

-----------------------------------------------------------------------------
(* Who drives the run. *)

(* The hosting a lease protects: the first runner is a background one, only *)
(* the daemon resumes, no live owner's heartbeat is late and no refused     *)
(* background resume deletes another owner's lease.                         *)
LeaseHeld ==
    /\ FirstHost = "background"
    /\ ResumeHosts \subseteq {"daemon"}
    /\ {"stall", "refuse"} \cap Actors = {}

(* While the first runner lives it has a fresh lease, and whoever the       *)
(* daemon has started came after its end.                                   *)
LeaseInv ==
    /\ runner[First] \notin {"idle", "scanned"}
    /\ host[First] = "background"
    /\ Alive(First) => lease = First /\ beat = "fresh"
    /\ \A r \in Runners \ {First} :
         runner[r] \notin {"idle", "dead", "done"} => host[r] = "daemon" /\ ~ Alive(First)

(* The first runner starts alone with a fresh lease.                        *)
LEMMA LeaseInit == LeaseHeld /\ Init => LeaseInv
BY RunnersAssumption DEF LeaseHeld, Init, LeaseInv, Alive

(* No step takes its lease away while it lives.                             *)
LEMMA LeaseStep ==
    ASSUME LeaseHeld, RunInv, LeaseInv, [Next]_vars
    PROVE  LeaseInv'
<1> USE RunnersAssumption DEF LeaseHeld, RunInv, TypeOK, LeaseInv, Alive, Go
<1>1. ASSUME NEW r \in Runners, RunnerStep(r)
      PROVE  LeaseInv'
  <2>1. CASE StreamEnds(r)
    BY <2>1 DEF StreamEnds, leaseVars
  <2>2. CASE CheckEnded(r) \/ CheckBeforePackaging(r)
    BY <2>2 DEF CheckEnded, CheckBeforePackaging, AdoptOrGoOn, leaseVars
  <2>3. CASE Score(r)
    BY <2>3 DEF Score, leaseVars
  <2>4. CASE Note(r)
    BY <2>4 DEF Note, leaseVars
  <2>5. CASE Package(r)
    BY <2>5 DEF Package, leaseVars
  <2>6. CASE ClaimTerminal(r)
    BY <2>6 DEF ClaimTerminal, leaseVars
  <2>7. CASE Cleanup(r)
    BY <2>7 DEF Cleanup, leaseVars
  <2>8. CASE Verify(r)
    BY <2>8 DEF Verify, leaseVars
  <2>9. CASE Exit(r)
    BY <2>9 DEF Exit
  <2>10. CASE Interrupt(r) \/ AbortClaim(r) \/ WorkerEnds(r)
    BY <2>10 DEF Interrupt, AbortClaim, WorkerEnds, leaseVars
  <2>11. CASE Crash(r)
    BY <2>11 DEF Crash, leaseVars
  <2>12. CASE Heartbeat(r)
    BY <2>12 DEF Heartbeat, runVars
  <2>13. CASE Scan(r)
    BY <2>13 DEF Scan, leaseVars
  <2>14. CASE Respawn(r)
    BY <2>14 DEF Respawn, leaseVars
  <2>15. CASE RecordRerun(r) \/ Resubmit(r)
    BY <2>15 DEF RecordRerun, Resubmit, leaseVars
  <2>16. CASE RefusedResume(r)
    BY <2>16 DEF RefusedResume
  <2> QED
    BY <1>1, <2>1, <2>2, <2>3, <2>4, <2>5, <2>6, <2>7, <2>8, <2>9, <2>10, <2>11, <2>12, <2>13,
       <2>14, <2>15, <2>16 DEF RunnerStep, WindUp
<1>2. CASE LeadStep
  <2>1. UNCHANGED <<runner, host, lease, beat>>
    BY <1>2 DEF LeadStep, StopRead, StopClaim, StopKill, SettleProve, SettleClaim, Prove, RecoverClaim,
                RepackageRejected, CreateRecovered, RecordRecovered, Request, CompleteLink, Decide,
                runVars, leaseVars
  <2> QED
    BY <2>1
<1>3. CASE LeaseAges
  BY <1>3 DEF LeaseAges, runVars
<1>4. CASE UNCHANGED vars
  BY <1>4 DEF vars, runVars, leaseVars
<1> QED
  BY <1>1, <1>2, <1>3, <1>4 DEF Next

(* The lease keeps everybody else away from a first runner that lives: for  *)
(* any number of runners the daemon may start, none drives beside it.       *)
THEOREM FirstDrivesAlone ==
    ASSUME LeaseHeld
    PROVE  Spec => [](\A r \in Runners : Driving(First) /\ Driving(r) => r = First)
<1>1. RunInv /\ LeaseInv => \A r \in Runners : Driving(First) /\ Driving(r) => r = First
  BY DEF LeaseInv, Driving, Alive
<1>2. LeaseInv /\ RunInv /\ [Next]_vars => LeaseInv'
  BY LeaseStep
<1>3. Init => LeaseInv
  BY LeaseInit
<1> QED
  BY <1>1, <1>2, <1>3, RunInvariant, PTL DEF Spec

(* If one runner at most resumes, no two ever drive the run.  (Of several   *)
(* daemons two may: each resumes on the scan it made before the other.)     *)
THEOREM OneDriver ==
    ASSUME LeaseHeld, \A r, s \in Runners \ {First} : r = s
    PROVE  Spec => []AtMostOneDriver
<1>1. (\A r \in Runners : Driving(First) /\ Driving(r) => r = First) => AtMostOneDriver
  BY RunnersAssumption DEF AtMostOneDriver
<1> QED
  BY <1>1, FirstDrivesAlone, PTL

-----------------------------------------------------------------------------
(* Settling. *)

(* The places of a runner that supervises no worker, or has just spawned    *)
(* one and recorded nothing.                                                *)
Waiting == {"idle", "scanned", "spawned", "dead", "done"}

(* From wao settle's proof to its claim, as long as nothing is appended,    *)
(* nobody gets past spawning.                                               *)
SettleInv ==
    /\ \A r \in Runners : host[r] # "run"
    /\ \A r \in Runners : runner[r] = "scanned" => host[r] = "daemon"
    /\ Unread => \A r \in Runners : runner[r] \in Waiting

(* Nothing has been proved at the start. *)
LEMMA SettleInit == FirstHost # "run" /\ Init => SettleInv
<1> SUFFICES ASSUME FirstHost # "run", Init PROVE SettleInv
  OBVIOUS
<1>1. ~ Unread
  BY DEF Init, Unread
<1> QED
  BY <1>1 DEF Init, SettleInv

(* The transcript is the one that was proved on only if it was so before.   *)
LEMMA UnreadBefore ==
    ASSUME RunInv, [Next]_vars, settler' = settler, Unread'
    PROVE  Unread /\ Len(ledger') = Len(ledger)
<1>1. Len(ledger) \in Nat /\ DOMAIN ledger = 1 .. Len(ledger)
  BY LenProperties DEF RunInv, TypeOK
<1>2. Len(ledger') \in Nat /\ Len(ledger) <= Len(ledger') /\ DOMAIN ledger' = 1 .. Len(ledger')
  <2>1. CASE UNCHANGED ledger
    BY <1>1, <2>1
  <2>2. ASSUME NEW batch, Batch(batch), ledger' = ledger \o batch
        PROVE  Len(ledger') \in Nat /\ Len(ledger) <= Len(ledger') /\ DOMAIN ledger' = 1 .. Len(ledger')
    <3>1. Len(batch) \in Nat /\ Len(ledger') = Len(ledger) + Len(batch) /\ DOMAIN ledger' = 1 .. Len(ledger')
      BY <2>2, GrownLedger DEF RunInv
    <3> QED
      BY <1>1, <3>1
  <2> QED
    BY <2>1, <2>2, NextAppends DEF AppendsOrNot, Appends
<1>3. settler \in 0 .. Len(ledger) \/ settler = Settled
  BY DEF RunInv, TypeOK
<1> QED
  BY <1>1, <1>2, <1>3 DEF Unread, Settled

(* While nothing is appended, nobody starts to drive a run being settled.   *)
LEMMA SettleStep ==
    ASSUME RunInv, SettleInv, [Next]_vars
    PROVE  SettleInv'
<1> USE DEF Go, Waiting
<1>0. /\ runner \in [Runners -> Places] /\ host \in [Runners -> {"background", "run", "resume", "daemon"}]
      /\ ledger \in Seq(Events)
      /\ \A r \in Runners : host[r] # "run"
      /\ \A r \in Runners : runner[r] = "scanned" => host[r] = "daemon"
  BY DEF RunInv, TypeOK, SettleInv
<1>1. CASE SettleProve
  <2>1. UNCHANGED <<runner, host>>
    BY <1>1 DEF SettleProve, runVars
  <2>2. ASSUME NEW r \in Runners PROVE runner[r] \in Waiting
    <3>1. ~ Scanned(r) /\ ~ DaemonUp
      BY <1>1 DEF SettleProve
    <3> QED
      BY <1>0, <3>1 DEF Scanned, DaemonUp, Alive
  <2> QED
    BY <1>0, <2>1, <2>2 DEF SettleInv
<1>2. CASE SettleClaim
  <2>1. settler' = Settled /\ UNCHANGED <<runner, host>>
    BY <1>2 DEF SettleClaim, runVars
  <2>2. ~ Unread'
    <3>1. \A n \in Nat : Settled \notin 1 .. n
      BY DEF Settled
    <3>2. ledger' \in Seq(Events)
      BY StepInv DEF RunInv, TypeOK
    <3> QED
      BY <2>1, <3>1, <3>2, LenProperties DEF Unread
  <2> QED
    BY <1>0, <2>1, <2>2 DEF SettleInv
<1>3. ASSUME settler' = settler, UNCHANGED <<runner, host>> PROVE SettleInv'
  <2>1. Unread' => Unread
    BY <1>3, UnreadBefore
  <2> QED
    BY <1>3, <2>1 DEF SettleInv
<1>4. ASSUME NEW r \in Runners, RunnerStep(r)
      PROVE  SettleInv'
  <2>0. settler' = settler
    BY <1>4, RunnerTypes
  <2>1. Unread' => \A s \in Runners : runner[s] \in Waiting
    BY <2>0, UnreadBefore DEF SettleInv
  <2>2. CASE StreamEnds(r) \/ CheckEnded(r) \/ CheckBeforePackaging(r) \/ Score(r) \/ Note(r) \/ Package(r)
             \/ ClaimTerminal(r) \/ Cleanup(r) \/ Verify(r) \/ Exit(r) \/ Resubmit(r)
    <3>1. /\ host' = host /\ runner[r] \notin Waiting
          /\ \E place \in Places \ {"scanned"} : runner' = [runner EXCEPT ![r] = place]
      BY <2>2 DEF StreamEnds, CheckEnded, CheckBeforePackaging, AdoptOrGoOn, Score, Note, Package,
                  ClaimTerminal, Cleanup, Verify, Exit, Resubmit, Places
    <3> QED
      BY <1>0, <2>1, <3>1 DEF SettleInv
  <2>3. CASE Interrupt(r) \/ AbortClaim(r) \/ WorkerEnds(r) \/ Heartbeat(r)
    BY <1>3, <2>0, <2>3 DEF Interrupt, AbortClaim, WorkerEnds, Heartbeat, runVars
  <2>4. CASE Crash(r)
    BY <1>0, <2>1, <2>4 DEF Crash, SettleInv
  <2>5. CASE Scan(r)
    BY <1>0, <2>1, <2>5 DEF Scan, SettleInv
  <2>6. CASE Respawn(r)
    BY <1>0, <2>1, <2>6, RunnersAssumption DEF Respawn, SettleInv
  <2>7. CASE RecordRerun(r)
    <3>1. Len(ledger') = Len(ledger) + 1
      BY <1>0, <2>7 DEF RecordRerun, Append1
    <3>2. Len(ledger) \in Nat
      BY <1>0, LenProperties
    <3>3. ~ Unread'
      BY <2>0, <3>1, <3>2, UnreadBefore
    <3>4. host' = host /\ runner' = [runner EXCEPT ![r] = "respawned"]
      BY <2>7 DEF RecordRerun
    <3> QED
      BY <1>0, <3>3, <3>4 DEF SettleInv
  <2>8. CASE RefusedResume(r)
    <3>1. host' = host /\ runner' = [runner EXCEPT ![r] = "done"]
      BY <2>8 DEF RefusedResume
    <3> QED
      BY <1>0, <2>1, <3>1 DEF SettleInv
  <2> QED
    BY <1>4, <2>2, <2>3, <2>4, <2>5, <2>6, <2>7, <2>8 DEF RunnerStep, WindUp
<1>5. CASE LeadStep /\ ~ SettleProve /\ ~ SettleClaim
  <2>1. settler' = settler /\ UNCHANGED <<runner, host>>
    BY <1>5 DEF LeadStep, StopRead, StopClaim, StopKill, Prove, RecoverClaim,
                RepackageRejected, CreateRecovered, RecordRecovered, Request, CompleteLink, Decide,
                runVars, leadVars
  <2> QED
    BY <1>3, <2>1
<1>6. CASE LeaseAges \/ UNCHANGED vars
  BY <1>3, <1>6 DEF LeaseAges, vars, runVars, leadVars
<1> QED
  BY <1>1, <1>2, <1>4, <1>5, <1>6 DEF Next

(* wao settle calls a run dead only if nobody drives it, whoever resumes    *)
(* it, stalls or dies meanwhile; only a foreground wao run, which the       *)
(* process scan does not know, is out of its sight.                         *)
THEOREM SettlesTheDead ==
    ASSUME FirstHost # "run"
    PROVE  Spec => SettledRunIsDead
<1> DEFINE NewlySettled == Of(ledger', "process_missing_confirmed") \ Of(ledger, "process_missing_confirmed")
<1>1. ASSUME RunInv, SettleInv, [Next]_vars, NEW i \in NewlySettled, ledger'[i].value = "settle",
             NEW r \in Runners, Driving(r)
      PROVE  runner[r] = "spawned"
  <2>1. Unread
    <3>1. ledger' # ledger
      BY <1>1
    <3>2. PICK batch : Batch(batch) /\ ledger' = ledger \o batch
      BY <1>1, <3>1, NextAppends DEF AppendsOrNot, Appends
    <3>3. i \in DOMAIN ledger' /\ Settles(ledger'[i])
      BY <1>1 DEF Of, Settles
    <3>4. ~ (i \in DOMAIN ledger /\ ledger'[i] = ledger[i])
      BY <1>1, <3>3 DEF Of, Settles
    <3>5. i - Len(ledger) \in DOMAIN batch /\ ledger'[i] = batch[i - Len(ledger)]
      BY <1>1, <3>2, <3>3, <3>4, GrownLedger DEF RunInv
    <3> QED
      BY <3>2, <3>3, <3>5 DEF Batch
  <2> QED
    BY <1>1, <2>1 DEF SettleInv, Waiting, Driving
<1>2. RunInv /\ SettleInv /\ [Next]_vars
        => [\A i \in NewlySettled : ledger'[i].value = "settle" =>
              \A r \in Runners : Driving(r) => runner[r] = "spawned"]_vars
  BY <1>1
<1>3. RunInv /\ SettleInv /\ [Next]_vars => SettleInv'
  BY SettleStep
<1>4. Init => SettleInv
  BY SettleInit
<1> QED
  BY <1>2, <1>3, <1>4, RunInvariant, PTL DEF Spec, SettledRunIsDead

-----------------------------------------------------------------------------
(* A run that is never resumed. *)

(* One background runner: there is no other, or nobody resumes.             *)
SoleRunner ==
    /\ FirstHost = "background"
    /\ Runners = {First} \/ {"resume", "refuse"} \cap Actors = {}

(* Where the first runner is.                                               *)
At == runner[First]

(* Places after which the runner claims, packages and notes nothing more,   *)
(* those after its cleanup, and those of a process that has ended.          *)
AfterCleanup == {"verify", "exit", "done", "dead"}
Past == {"cleanup"} \cup AfterCleanup
Gone == {"done", "dead"}

(* Its process has ended, and its worker with it.                           *)
FirstGone == At \in Gone /\ worker[First] = "gone"

(* Nobody but the first runner moves, and while it lives it has the lease.  *)
Alone ==
    /\ \A r \in Runners \ {First} : runner[r] = "idle" /\ worker[r] = "gone" /\ aborting[r] = "no"
    /\ At \notin {"idle", "scanned", "spawned", "respawned"}
    /\ host[First] = "background"
    /\ Alive(First) => lease = First
    /\ target = First
    /\ Of(ledger, "rerun") = {}

(* What the only runner there is may do. *)
FirstStep ==
    \/ StreamEnds(First) \/ WindUp(First) \/ Interrupt(First) \/ AbortClaim(First)
    \/ WorkerEnds(First) \/ Crash(First) \/ Heartbeat(First)

(* So whatever a runner does, the first one does.                           *)
LEMMA OnlyFirstSteps ==
    ASSUME SoleRunner, RunInv, Alone, NEW r \in Runners, RunnerStep(r)
    PROVE  FirstStep
<1> USE DEF Alone, SoleRunner, At
<1>1. CASE r = First
  <2>1. ~ (Scan(r) \/ Respawn(r) \/ RecordRerun(r) \/ Resubmit(r) \/ RefusedResume(r))
    BY <1>1 DEF Scan, Respawn, RecordRerun, Resubmit, RefusedResume
  <2> QED
    BY <1>1, <2>1 DEF RunnerStep, FirstStep
<1>2. CASE r # First
  <2>1. runner[r] = "idle" /\ worker[r] = "gone" /\ aborting[r] = "no" /\ {"resume", "refuse"} \cap Actors = {}
    BY <1>2, RunnersAssumption
  <2>2. ~ (StreamEnds(r) \/ WindUp(r) \/ Interrupt(r) \/ AbortClaim(r) \/ WorkerEnds(r) \/ Crash(r) \/ Heartbeat(r))
    BY <2>1 DEF StreamEnds, WindUp, CheckEnded, CheckBeforePackaging, AdoptOrGoOn, Score, Note, Package,
                ClaimTerminal, Cleanup, Verify, Exit, Interrupt, AbortClaim, WorkerEnds, Crash, Heartbeat, Alive
  <2>3. ~ (Scan(r) \/ Respawn(r) \/ RecordRerun(r) \/ Resubmit(r) \/ RefusedResume(r))
    BY <2>1 DEF Scan, Respawn, RecordRerun, Resubmit, RefusedResume
  <2> QED
    BY <2>2, <2>3 DEF RunnerStep
<1> QED
  BY <1>1, <1>2

-----------------------------------------------------------------------------
(* The events of a step. *)

(* Their positions. *)
New == DOMAIN ledger' \ DOMAIN ledger

(* The transcript only grows.                                               *)
LEMMA LedgerGrows ==
    ASSUME RunInv, [Next]_vars
    PROVE  /\ ledger \in Seq(Events) /\ ledger' \in Seq(Events)
           /\ Len(ledger) \in Nat /\ Len(ledger') \in Nat /\ Len(ledger) <= Len(ledger')
           /\ DOMAIN ledger = 1 .. Len(ledger) /\ DOMAIN ledger' = 1 .. Len(ledger')
           /\ \A i \in DOMAIN ledger : ledger'[i] = ledger[i]
<1>1. ledger \in Seq(Events) /\ Len(ledger) \in Nat /\ DOMAIN ledger = 1 .. Len(ledger)
  BY LenProperties DEF RunInv, TypeOK
<1>2. CASE UNCHANGED ledger
  BY <1>1, <1>2
<1>3. ASSUME NEW batch, Batch(batch), ledger' = ledger \o batch
      PROVE  /\ ledger' \in Seq(Events)
             /\ Len(ledger') \in Nat /\ Len(ledger) <= Len(ledger')
             /\ DOMAIN ledger' = 1 .. Len(ledger')
             /\ \A i \in DOMAIN ledger : ledger'[i] = ledger[i]
  BY <1>1, <1>3, GrownLedger DEF RunInv
<1> QED
  BY <1>1, <1>2, <1>3, NextAppends DEF AppendsOrNot, Appends

(* Where the events of a type are afterwards. *)
LEMMA OfGrows ==
    ASSUME RunInv, [Next]_vars
    PROVE  /\ \A type : Of(ledger', type) = Of(ledger, type) \cup {i \in New : ledger'[i].type = type}
           /\ TerminalChanges(ledger')
                = TerminalChanges(ledger)
                    \cup {i \in New : ledger'[i].type = "state_change" /\ ledger'[i].value \in TerminalStates}
BY LedgerGrows DEF Of, TerminalChanges, New

(* A sequence appended. *)
LEMMA NewOf ==
    ASSUME TypeOK, NEW s \in Seq(Events), ledger' = ledger \o s
    PROVE  /\ Len(s) \in Nat /\ Len(ledger) \in Nat /\ Len(ledger') = Len(ledger) + Len(s)
           /\ New = Len(ledger) + 1 .. Len(ledger) + Len(s)
           /\ \A i \in New : ledger'[i] = s[i - Len(ledger)]
<1>1. ledger \in Seq(Events)
  BY DEF TypeOK
<1>2. /\ Len(s) \in Nat /\ Len(ledger) \in Nat
      /\ DOMAIN ledger = 1 .. Len(ledger) /\ DOMAIN s = 1 .. Len(s)
      /\ ledger' \in Seq(Events) /\ Len(ledger') = Len(ledger) + Len(s)
  BY <1>1, ConcatProperties, LenProperties
<1>3. DOMAIN ledger' = 1 .. Len(ledger) + Len(s)
  BY <1>2, LenProperties
<1>4. \A i \in Len(ledger) + 1 .. Len(ledger) + Len(s) : ledger'[i] = s[i - Len(ledger)]
  BY <1>1, <1>2, ConcatProperties
<1> QED
  BY <1>2, <1>3, <1>4 DEF New

(* One event appended. *)
LEMMA OneNew ==
    ASSUME TypeOK, NEW event \in Events, Append1(event)
    PROVE  /\ Len(ledger) \in Nat /\ Len(ledger') = Len(ledger) + 1
           /\ New = {Len(ledger) + 1}
           /\ \A i \in New : ledger'[i] = event
<1>1. ledger' = ledger \o <<event>> /\ <<event>> \in Seq(Events)
  BY AppendIsConcat DEF TypeOK, Append1
<1>2. Len(<<event>>) = 1 /\ <<event>>[1] = event
  OBVIOUS
<1>3. /\ Len(ledger) \in Nat /\ Len(ledger') = Len(ledger) + 1
      /\ New = Len(ledger) + 1 .. Len(ledger) + 1
      /\ \A i \in New : ledger'[i] = <<event>>[i - Len(ledger)]
  BY <1>1, <1>2, NewOf
<1>4. New = {Len(ledger) + 1}
  BY <1>3
<1>5. \A i \in New : i - Len(ledger) = 1
  BY <1>3, <1>4
<1> QED
  BY <1>2, <1>3, <1>4, <1>5

(* A claim of a state: the attempts, and the facts with the change if there *)
(* is no terminal state yet.                                                *)
LEMMA ClaimNew ==
    ASSUME RunInv, NEW to \in Words, NEW why \in Words,
           NEW attempts \in Seq(Events), NEW facts \in Seq(Events),
           Claim(to, why, attempts, facts)
    PROVE  \E s \in Seq(Events) :
             /\ ledger' = ledger \o s
             /\ TerminalChanges(ledger) = {} =>
                  s = (attempts \o facts) \o <<Event("state_change", to, why)>>
             /\ TerminalChanges(ledger) # {} =>
                  s = attempts \o <<Event("state_change_rejected", to, why)>>
<1> DEFINE done == Event("state_change", to, why)
           refused == Event("state_change_rejected", to, why)
<1>1. done \in Events /\ refused \in Events /\ ledger \in Seq(Events)
  BY EventType DEF EventTypes, RunInv, TypeOK
<1> HIDE DEF done, refused
<1>2. <<done>> \in Seq(Events) /\ <<refused>> \in Seq(Events)
  BY <1>1
<1>3. CASE TerminalChanges(ledger) = {}
  <2>1. ledger' = ((ledger \o attempts) \o facts) \o <<done>>
    BY <1>3 DEF Claim, ClaimedTerminal, done
  <2>2. ((ledger \o attempts) \o facts) \o <<done>> = ledger \o ((attempts \o facts) \o <<done>>)
    BY <1>1, <1>2
  <2>3. (attempts \o facts) \o <<done>> \in Seq(Events)
    BY <1>2
  <2> QED
    BY <1>3, <2>1, <2>2, <2>3, Zenon DEF done
<1>4. CASE TerminalChanges(ledger) # {}
  <2>1. ledger' = (ledger \o attempts) \o <<refused>>
    <3>1. ClaimedTerminal(ledger) # "none"
      BY <1>4, NoneClaimed DEF RunInv
    <3> QED
      BY <3>1 DEF Claim, refused
  <2>2. (ledger \o attempts) \o <<refused>> = ledger \o (attempts \o <<refused>>)
    BY <1>1, <1>2
  <2>3. attempts \o <<refused>> \in Seq(Events)
    BY <1>2
  <2> QED
    BY <1>4, <2>1, <2>2, <2>3, Zenon DEF refused
<1> QED
  BY <1>3, <1>4

(* What was read of the transcript is there.                                *)
LEMMA InPrefix ==
    ASSUME TypeOK, NEW n \in 0 .. Len(ledger)
    PROVE  /\ Prefix(n) \in Seq(Events) /\ Len(Prefix(n)) = n /\ DOMAIN Prefix(n) = 1 .. n
           /\ \A i \in 1 .. n : i \in DOMAIN ledger /\ Prefix(n)[i] = ledger[i]
           /\ \A type : Of(Prefix(n), type) \subseteq Of(ledger, type)
<1>1. ledger \in Seq(Events) /\ Len(ledger) \in Nat /\ DOMAIN ledger = 1 .. Len(ledger)
  BY LenProperties DEF TypeOK
<1>2. Prefix(n) \in Seq(Events) /\ Len(Prefix(n)) = n /\ \A i \in 1 .. n : Prefix(n)[i] = ledger[i]
  BY <1>1, SubSeqProperties DEF Prefix
<1>3. DOMAIN Prefix(n) = 1 .. n
  BY <1>2, LenProperties
<1> QED
  BY <1>1, <1>2, <1>3 DEF Of

(* One element, at most one element.                                        *)
LEMMA Singles ==
    ASSUME NEW S
    PROVE  /\ (\A x, y \in S : x = y) => Cardinality(S) <= 1
           /\ (\A x, y \in S : x = y) /\ S # {} => Cardinality(S) = 1
           /\ Cardinality(S) = 1 => S # {}
<1>1. S = {} => Cardinality(S) = 0
  BY FS_EmptySet
<1>2. ASSUME NEW x \in S, \A y \in S : x = y PROVE Cardinality(S) = 1
  <2>1. S = {x}
    BY <1>2
  <2> QED
    BY <2>1, FS_Singleton
<1> QED
  BY <1>1, <1>2

(* A state change to a value is on record; a failure for a reason is.       *)
EndedAs(events, value) == \E i \in TerminalChanges(events) : events[i].value = value

EndedFor(events, reason) ==
    \E i \in TerminalChanges(events) : events[i].value = "failed" /\ events[i].note = reason

(* At most one event of a type. *)
OnceAtMost(type) == \A i, j \in Of(ledger, type) : i = j

(* What proofs and readings stand for: the runner has ended, with its       *)
(* worker; and whose stop it is that kills.                                 *)
Witnessed ==
    /\ \A q \in Recoverers : proof[q] = "proved" => FirstGone
    /\ settler \in DOMAIN ledger => FirstGone
    /\ stopper = "killing" => EndedAs(ledger, "aborted")

(* The runner claims: the step from claim to cleanup.                       *)
Claims == At = "claim" /\ At' = "cleanup"

(* What the event i of a step tells of the step.                            *)
Contribution(i) ==
    LET event == ledger'[i] IN
    /\ event.type # "rerun"
    /\ event.type = "state_change" =>
         /\ TerminalChanges(ledger) = {}
         /\ \/ event.value = "completed" /\ Claims /\ plan[First] = "created"
            \/ event.value = "failed" /\ event.note = "process_missing" /\ FirstGone
            \/ event.value = "failed" /\ event.note # "process_missing" /\ Claims /\ plan[First] # "created"
            \/ event.value = "aborted"
    /\ event.type \in {"isolation_violation", "aborted"} => TerminalChanges(ledger) = {}
    /\ event.type \in {"budget_exceeded", "scorecard_checked"} => At \in {"note", "score"}
    /\ event.type = "delivery_failed" => Claims /\ plan[First] \in PackageFailures
    /\ event.type = "delivery_created" =>
         \/ Claims /\ plan[First] = "created"
         \/ Of(ledger, "delivery_created") = {} /\ RecoveryKind(ledger) # "none"
    /\ event.type = "delivery_repackaged" =>
         /\ Of(ledger, "delivery_created") = {}
         /\ RecoveryKind(ledger) # "none"
         /\ event.value = RecoveryKind(ledger)
         /\ Of(ledger', "delivery_created") # {}
    /\ event.type = "stop_verified" =>
         /\ worker'[First] = "gone"
         /\ \/ stopper = "killing"
            \/ At = "cleanup" /\ At' \in AfterCleanup
    /\ event.type = "stop_unverified" => stopper = "killing" \/ At = "cleanup"
    /\ event.type = "verification" =>
         \/ At = "verify" /\ At' = "exit"
         \/ Of(ledger, "verification") = {} /\ Of(ledger, "delivery_repackaged") # {}
    /\ event.type = "process_missing_confirmed" =>
         TerminalChanges(ledger) = {} /\ EndedFor(ledger', "process_missing")
    /\ event.type = "decision" =>
         /\ New = {i}
         /\ Of(ledger, "decision") = {}
         /\ FactsVerdict(ledger) = "valid" /\ FactsVerdict(ledger') = "valid"
         /\ event.value = "accepted" => Acceptable(ledger)
    /\ event.type = "reverify_requested" =>
         \E v \in Of(ledger, "verification") : ledger[v].value = "failed"

(* So much of each event of a step, of which no two have the same type; and *)
(* a claim leaves the run ended.                                            *)
Contributes ==
    /\ \A i \in New : Contribution(i)
    /\ \A i, j \in New : ledger'[i].type = ledger'[j].type => i = j
    /\ Claims => TerminalChanges(ledger') # {}
    /\ Claims /\ plan[First] = "created" /\ TerminalChanges(ledger) = {} => EndedAs(ledger', "completed")

(* Types of events that tell nothing of it. *)
Idle == {"state_change_rejected", "error", "delivery_repackage_rejected", "stop_requested", "completed",
         "reverify_outcome"}

(* Nothing appended. *)
LEMMA NothingContributed == RunInv /\ UNCHANGED ledger /\ ~ Claims => Contributes
<1> SUFFICES ASSUME RunInv, UNCHANGED ledger, ~ Claims PROVE Contributes
  OBVIOUS
<1>1. New = {}
  BY DEF New
<1> QED
  BY <1>1 DEF Contributes

(* One event, of which the rest is known.                                   *)
LEMMA OneContributed ==
    ASSUME RunInv, NEW event \in Events, Append1(event), ~ Claims,
           \A i \in New : New = {i} /\ ledger'[i] = event => Contribution(i)
    PROVE  Contributes
<1>1. /\ New = {Len(ledger) + 1}
      /\ \A i \in New : ledger'[i] = event
  BY OneNew DEF RunInv
<1>2. \A i \in New : New = {i}
  BY <1>1
<1>3. \A i, j \in New : i = j
  BY <1>1
<1> QED
  BY <1>1, <1>2, <1>3 DEF Contributes

(* One event of an idle type.                                               *)
LEMMA IdleContributed ==
    ASSUME RunInv, NEW type \in Idle \cap EventTypes, NEW value \in Words, NEW note \in Words \cup Runners,
           Append1(Event(type, value, note)), ~ Claims
    PROVE  Contributes
<1>1. Event(type, value, note) \in Events
  BY EventType
<1>2. ASSUME NEW i \in New, ledger'[i] = Event(type, value, note) PROVE Contribution(i)
  <2>1. ledger'[i].type \in Idle
    BY <1>2 DEF Event
  <2> QED
    BY <2>1 DEF Contribution, Idle
<1> QED
  BY <1>1, <1>2, OneContributed

(* A claim, with its attempts and facts: which positions its events get.    *)
LEMMA ClaimPositions ==
    ASSUME RunInv, NEW to \in Words, NEW why \in Words,
           NEW attempts \in Seq(Events), NEW facts \in Seq(Events),
           Claim(to, why, attempts, facts)
    PROVE  LET n == Len(ledger)
               m == n + Len(attempts)
               k == m + Len(facts)
           IN  /\ n \in Nat /\ Len(attempts) \in Nat /\ Len(facts) \in Nat
               /\ TerminalChanges(ledger) = {} =>
                    /\ New = n + 1 .. k + 1
                    /\ \A i \in n + 1 .. m : ledger'[i] = attempts[i - n]
                    /\ \A i \in m + 1 .. k : ledger'[i] = facts[i - m]
                    /\ ledger'[k + 1] = Event("state_change", to, why)
               /\ TerminalChanges(ledger) # {} =>
                    /\ New = n + 1 .. m + 1
                    /\ \A i \in n + 1 .. m : ledger'[i] = attempts[i - n]
                    /\ ledger'[m + 1] = Event("state_change_rejected", to, why)
<1> DEFINE done == Event("state_change", to, why)
           refused == Event("state_change_rejected", to, why)
           n == Len(ledger)
           m == n + Len(attempts)
           k == m + Len(facts)
<1>1. PICK s \in Seq(Events) :
             /\ ledger' = ledger \o s
             /\ TerminalChanges(ledger) = {} => s = (attempts \o facts) \o <<done>>
             /\ TerminalChanges(ledger) # {} => s = attempts \o <<refused>>
  BY ClaimNew
<1>2. /\ n \in Nat /\ Len(s) \in Nat
      /\ New = n + 1 .. n + Len(s)
      /\ \A i \in New : ledger'[i] = s[i - n]
  BY <1>1, NewOf DEF RunInv
<1>3. done \in Events /\ refused \in Events
  BY EventType DEF EventTypes
<1> HIDE DEF done, refused
<1>4. Len(attempts) \in Nat /\ Len(facts) \in Nat
  BY LenProperties
<1>5. CASE TerminalChanges(ledger) # {}
  <2>1. s = Append(attempts, refused)
    BY <1>1, <1>3, <1>5, AppendIsConcat
  <2>2. /\ Len(s) = Len(attempts) + 1
        /\ \A j \in 1 .. Len(attempts) : s[j] = attempts[j]
        /\ s[Len(attempts) + 1] = refused
    BY <1>3, <1>4, <2>1, AppendProperties
  <2>3. /\ New = n + 1 .. m + 1
        /\ \A i \in n + 1 .. m : ledger'[i] = attempts[i - n]
        /\ ledger'[m + 1] = refused
    <3>1. New = n + 1 .. m + 1
      BY <1>2, <1>4, <2>2
    <3>2. ASSUME NEW i \in n + 1 .. m PROVE ledger'[i] = attempts[i - n]
      <4>1. i \in New /\ i - n \in 1 .. Len(attempts)
        BY <1>2, <1>4, <3>1
      <4> QED
        BY <1>2, <2>2, <4>1
    <3>3. ledger'[m + 1] = refused
      <4>1. m + 1 \in New /\ (m + 1) - n = Len(attempts) + 1
        BY <1>2, <1>4, <3>1
      <4> QED
        BY <1>2, <2>2, <4>1
    <3> QED
      BY <3>1, <3>2, <3>3
  <2> QED
    BY <1>2, <1>4, <1>5, <2>3 DEF refused
<1>6. CASE TerminalChanges(ledger) = {}
  <2> DEFINE both == attempts \o facts
  <2>1. /\ both \in Seq(Events) /\ Len(both) = Len(attempts) + Len(facts)
        /\ \A j \in 1 .. Len(attempts) : both[j] = attempts[j]
        /\ \A j \in Len(attempts) + 1 .. Len(attempts) + Len(facts) : both[j] = facts[j - Len(attempts)]
    BY <1>4, ConcatProperties
  <2> HIDE DEF both
  <2>2. s = Append(both, done)
    BY <1>1, <1>3, <1>6, <2>1, AppendIsConcat DEF both
  <2>3. /\ Len(s) = Len(both) + 1
        /\ \A j \in 1 .. Len(both) : s[j] = both[j]
        /\ s[Len(both) + 1] = done
    BY <1>3, <1>4, <2>1, <2>2, AppendProperties
  <2>4. New = n + 1 .. k + 1
    BY <1>2, <1>4, <2>1, <2>3
  <2>5. ASSUME NEW i \in n + 1 .. m PROVE ledger'[i] = attempts[i - n]
    <3>1. i \in New /\ i - n \in 1 .. Len(attempts) /\ i - n \in 1 .. Len(both)
      BY <1>2, <1>4, <2>1, <2>4
    <3> QED
      BY <1>2, <2>1, <2>3, <3>1
  <2>6. ASSUME NEW i \in m + 1 .. k PROVE ledger'[i] = facts[i - m]
    <3>1. /\ i \in New /\ i - n \in 1 .. Len(both)
          /\ i - n \in Len(attempts) + 1 .. Len(attempts) + Len(facts)
          /\ (i - n) - Len(attempts) = i - m
      BY <1>2, <1>4, <2>1, <2>4
    <3>2. ledger'[i] = both[i - n]
      BY <1>2, <2>3, <3>1
    <3>3. both[i - n] = facts[(i - n) - Len(attempts)]
      BY <2>1, <3>1
    <3> QED
      BY <3>1, <3>2, <3>3
  <2>7. ledger'[k + 1] = done
    <3>1. k + 1 \in New /\ (k + 1) - n = Len(both) + 1
      BY <1>2, <1>4, <2>1, <2>4
    <3> QED
      BY <1>2, <2>3, <3>1
  <2> QED
    BY <1>2, <1>4, <1>6, <2>4, <2>5, <2>6, <2>7 DEF done
<1> QED
  BY <1>5, <1>6

(* The events of a claim have types of their own.                           *)
Distinct(attempts, facts) ==
    /\ \A j, k \in DOMAIN attempts : attempts[j].type = attempts[k].type => j = k
    /\ \A j, k \in DOMAIN facts : facts[j].type = facts[k].type => j = k
    /\ \A j \in DOMAIN attempts :
         /\ attempts[j].type \notin {"state_change", "state_change_rejected"}
         /\ \A k \in DOMAIN facts : attempts[j].type # facts[k].type
    /\ \A k \in DOMAIN facts : facts[k].type \notin {"state_change", "state_change_rejected"}

(* Each tells of the step what it should, facts and the change only of a    *)
(* first claim.                                                             *)
Sound(to, why, attempts, facts) ==
    /\ \A i \in New : \A j \in DOMAIN attempts : ledger'[i] = attempts[j] => Contribution(i)
    /\ TerminalChanges(ledger) = {} =>
         /\ \A i, l \in New : \A k \in DOMAIN facts :
              (ledger'[i] = facts[k] /\ ledger'[l] = Event("state_change", to, why)) => Contribution(i)
         /\ \A i \in New : ledger'[i] = Event("state_change", to, why) => Contribution(i)

(* The runner claims completion when it has packaged, and only then.        *)
ClaimsAs(to) == Claims => (to = "completed" <=> plan[First] = "created")

(* A claim of a terminal state contributes if its attempts contribute in    *)
(* any case, and its facts and the change when there is no terminal state.  *)
LEMMA ClaimContributes ==
    ASSUME RunInv, NEW to \in Words \cap TerminalStates, NEW why \in Words,
           NEW attempts \in Seq(Events), NEW facts \in Seq(Events),
           Claim(to, why, attempts, facts),
           Distinct(attempts, facts), ClaimsAs(to), Sound(to, why, attempts, facts)
    PROVE  Contributes
<1> DEFINE n == Len(ledger)
           m == n + Len(attempts)
           k == m + Len(facts)
           done == Event("state_change", to, why)
           refused == Event("state_change_rejected", to, why)
<1>0. /\ n \in Nat /\ Len(attempts) \in Nat /\ Len(facts) \in Nat
      /\ DOMAIN attempts = 1 .. Len(attempts) /\ DOMAIN facts = 1 .. Len(facts)
  BY ClaimPositions, LenProperties
<1>1. CASE TerminalChanges(ledger) = {}
  <2>0. /\ New = n + 1 .. k + 1
        /\ \A i \in n + 1 .. m : ledger'[i] = attempts[i - n]
        /\ \A i \in m + 1 .. k : ledger'[i] = facts[i - m]
        /\ ledger'[k + 1] = done
    BY <1>1, ClaimPositions
  <2>1. k + 1 \in New
    BY <1>0, <2>0
  <2>2. ASSUME NEW i \in New
        PROVE  \/ i \in n + 1 .. m /\ i - n \in DOMAIN attempts /\ ledger'[i] = attempts[i - n]
               \/ i \in m + 1 .. k /\ i - m \in DOMAIN facts /\ ledger'[i] = facts[i - m]
               \/ i = k + 1 /\ ledger'[i] = done
    <3>1. /\ m \in Nat /\ k \in Nat /\ m = n + Len(attempts) /\ k = m + Len(facts)
      BY <1>0
    <3> HIDE DEF n, m, k, done
    <3>2. i \in n + 1 .. m \/ i \in m + 1 .. k \/ i = k + 1
      BY <1>0, <2>0, <3>1
    <3>3. i \in n + 1 .. m => i - n \in DOMAIN attempts
      BY <1>0, <3>1
    <3>4. i \in m + 1 .. k => i - m \in DOMAIN facts
      BY <1>0, <3>1
    <3> QED
      BY <2>0, <3>2, <3>3, <3>4
  <2>3. done.type = "state_change"
    BY DEF Event
  <2>4. \A i \in New : Contribution(i)
    <3> HIDE DEF done, n, m, k
    <3>1. \A i \in New : ledger'[i] = done => Contribution(i)
      BY <1>1 DEF done, Sound
    <3>2. \A i \in New, j \in DOMAIN facts : ledger'[i] = facts[j] => Contribution(i)
      BY <1>1, <2>0, <2>1 DEF done, Sound
    <3>3. \A i \in New, j \in DOMAIN attempts : ledger'[i] = attempts[j] => Contribution(i)
      BY DEF Sound
    <3> QED
      BY <2>2, <3>1, <3>2, <3>3
  <2>5. ASSUME NEW i \in New, NEW j \in New, ledger'[i].type = ledger'[j].type PROVE i = j
    <3>1. n \in Nat /\ m \in Nat /\ i \in Int /\ j \in Int
      BY <1>0, <2>0
    <3> HIDE DEF done, n, m, k
    <3> DEFINE attempt(x) == x - n \in DOMAIN attempts /\ ledger'[x] = attempts[x - n]
               fact(x) == x - m \in DOMAIN facts /\ ledger'[x] = facts[x - m]
    <3>2. CASE attempt(i)
      <4>1. ~ (j = k + 1 /\ ledger'[j] = done) /\ ~ fact(j)
        BY <2>3, <2>5, <3>2 DEF Distinct
      <4>2. attempt(j)
        BY <2>2, <4>1
      <4>3. i - n = j - n
        BY <2>5, <3>2, <4>2 DEF Distinct
      <4> QED
        BY <3>1, <4>3
    <3>3. CASE fact(i)
      <4>1. ~ (j = k + 1 /\ ledger'[j] = done) /\ ~ attempt(j)
        BY <2>3, <2>5, <3>3 DEF Distinct
      <4>2. fact(j)
        BY <2>2, <4>1
      <4>3. i - m = j - m
        BY <2>5, <3>3, <4>2 DEF Distinct
      <4> QED
        BY <3>1, <4>3
    <3>4. CASE i = k + 1 /\ ledger'[i] = done
      <4>1. ~ attempt(j) /\ ~ fact(j)
        BY <2>3, <2>5, <3>4 DEF Distinct
      <4> QED
        BY <2>2, <3>4, <4>1
    <3> QED
      BY <2>2, <3>2, <3>3, <3>4
  <2>6. k + 1 \in TerminalChanges(ledger') /\ ledger'[k + 1].value = to
    <3>1. k + 1 \in DOMAIN ledger'
      BY <2>1 DEF New
    <3> QED
      BY <2>0, <3>1 DEF TerminalChanges, Of, Event
  <2> QED
    BY <2>4, <2>5, <2>6 DEF Contributes, EndedAs, ClaimsAs
<1>2. CASE TerminalChanges(ledger) # {}
  <2>0. /\ New = n + 1 .. m + 1
        /\ \A i \in n + 1 .. m : ledger'[i] = attempts[i - n]
        /\ ledger'[m + 1] = refused
    BY <1>2, ClaimPositions
  <2>2. ASSUME NEW i \in New
        PROVE  \/ i \in n + 1 .. m /\ i - n \in DOMAIN attempts /\ ledger'[i] = attempts[i - n]
               \/ i = m + 1 /\ ledger'[i] = refused
    <3>1. m \in Nat /\ m = n + Len(attempts)
      BY <1>0
    <3> HIDE DEF n, m, refused
    <3>2. i \in n + 1 .. m \/ i = m + 1
      BY <1>0, <2>0, <3>1
    <3>3. i \in n + 1 .. m => i - n \in DOMAIN attempts
      BY <1>0, <3>1
    <3> QED
      BY <2>0, <3>2, <3>3
  <2>3. refused.type = "state_change_rejected"
    BY DEF Event
  <2>4. \A i \in New : Contribution(i)
    <3>1. \A i \in New : ledger'[i].type = "state_change_rejected" => Contribution(i)
      BY DEF Contribution
    <3> HIDE DEF refused, n, m, k
    <3>2. \A i \in New, j \in DOMAIN attempts : ledger'[i] = attempts[j] => Contribution(i)
      BY DEF Sound
    <3> QED
      BY <2>2, <2>3, <3>1, <3>2
  <2>5. ASSUME NEW i \in New, NEW j \in New, ledger'[i].type = ledger'[j].type PROVE i = j
    <3>1. n \in Nat /\ i \in Int /\ j \in Int
      BY <1>0, <2>0
    <3> HIDE DEF refused, n, m, k
    <3> DEFINE attempt(x) == x - n \in DOMAIN attempts /\ ledger'[x] = attempts[x - n]
    <3>2. CASE attempt(i)
      <4>1. ~ (j = m + 1 /\ ledger'[j] = refused)
        BY <2>3, <2>5, <3>2 DEF Distinct
      <4>2. attempt(j)
        BY <2>2, <4>1
      <4>3. i - n = j - n
        BY <2>5, <3>2, <4>2 DEF Distinct
      <4> QED
        BY <3>1, <4>3
    <3>3. CASE i = m + 1 /\ ledger'[i] = refused
      <4>1. ~ attempt(j)
        BY <2>3, <2>5, <3>3 DEF Distinct
      <4> QED
        BY <2>2, <3>3, <4>1
    <3> QED
      BY <2>2, <3>2, <3>3
  <2>6. TerminalChanges(ledger') # {}
    <3>1. ASSUME NEW i \in TerminalChanges(ledger) PROVE i \in TerminalChanges(ledger')
      <4>1. i \in 1 .. n /\ ledger[i].type = "state_change" /\ ledger[i].value \in TerminalStates
        BY LenProperties DEF TerminalChanges, Of, RunInv, TypeOK
      <4>2. PICK s \in Seq(Events) : ledger' = ledger \o s
        BY ClaimNew
      <4>3. i \in DOMAIN ledger' /\ ledger'[i] = ledger[i]
        BY <4>1, <4>2, ConcatProperties, LenProperties DEF RunInv, TypeOK
      <4> QED
        BY <4>1, <4>3 DEF TerminalChanges, Of
    <3> QED
      BY <1>2, <3>1
  <2> QED
    BY <1>2, <2>4, <2>5, <2>6 DEF Contributes
<1> QED
  BY <1>1, <1>2

(* The outcome of a verification, or the completion of a link. *)
LEMMA OutcomeContributed ==
    ASSUME RunInv, NEW type \in {"verification", "reverify_outcome"}, ~ Claims,
           \E outcome \in Outcomes(type) : Append1(outcome),
           type = "verification" =>
             \/ At = "verify" /\ At' = "exit"
             \/ Of(ledger, "verification") = {} /\ Of(ledger, "delivery_repackaged") # {}
    PROVE  Contributes
<1>1. PICK value \in Words, note \in Words : Append1(Event(type, value, note))
  <2>1. "passed" \in Words /\ "failed" \in Words /\ "unavailable" \in Words
        /\ "none" \in Words /\ "eligible" \in Words /\ "final" \in Words
    BY DEF Words, Plans
  <2> QED
    BY <2>1 DEF Outcomes
<1>2. Event(type, value, note) \in Events
  BY EventType DEF EventTypes
<1>3. ASSUME NEW i \in New, ledger'[i] = Event(type, value, note) PROVE Contribution(i)
  BY <1>3 DEF Contribution, Event
<1> QED
  BY <1>1, <1>2, <1>3, OneContributed

(* What the only runner contributes. *)
LEMMA FirstContributes ==
    ASSUME SoleRunner, RunInv, Alone, Witnessed, FirstStep
    PROVE  Contributes
<1> USE RunnersAssumption
<1>0. /\ runner \in [Runners -> Places] /\ plan[First] \in Words /\ contract \in Words
      /\ ledger \in Seq(Events)
  BY DEF RunInv, TypeOK, Words
<1>1. CASE StreamEnds(First) \/ CheckEnded(First) \/ CheckBeforePackaging(First) \/ Package(First)
           \/ Exit(First) \/ Interrupt(First) \/ WorkerEnds(First) \/ Crash(First) \/ Heartbeat(First)
  <2>1. UNCHANGED ledger /\ ~ Claims
    BY <1>0, <1>1 DEF StreamEnds, CheckEnded, CheckBeforePackaging, AdoptOrGoOn, Package, Exit, Interrupt,
                      WorkerEnds, Crash, Heartbeat, Go, Claims, At, runVars
  <2> QED
    BY <2>1, NothingContributed
<1>2. CASE Score(First)
  <2>1. At = "score" /\ ~ Claims
    BY <1>2 DEF Score, Claims, At
  <2>2. CASE UNCHANGED ledger
    BY <2>1, <2>2, NothingContributed
  <2>3. ASSUME NEW result \in {"passed", "failed"}, Append1(Event("scorecard_checked", result, "none"))
        PROVE  Contributes
    <3>1. Event("scorecard_checked", result, "none") \in Events
      BY EventType DEF EventTypes, Words, Plans
    <3>2. ASSUME NEW i \in New, ledger'[i] = Event("scorecard_checked", result, "none") PROVE Contribution(i)
      BY <2>1, <3>2 DEF Contribution, Event
    <3> QED
      BY <2>1, <2>3, <3>1, <3>2, OneContributed
  <2> QED
    BY <1>2, <2>2, <2>3 DEF Score
<1>3. CASE Note(First)
  <2>1. At = "note" /\ ~ Claims
    BY <1>3 DEF Note, Claims, At
  <2>2. PICK type \in {"budget_exceeded", "error"} : Append1(Event(type, plan[First], "none"))
    BY <1>3 DEF Note
  <2>3. Event(type, plan[First], "none") \in Events
    BY <1>0, EventType DEF EventTypes, Words, Plans
  <2>4. ASSUME NEW i \in New, ledger'[i] = Event(type, plan[First], "none") PROVE Contribution(i)
    BY <2>1, <2>4 DEF Contribution, Event
  <2> QED
    BY <2>1, <2>2, <2>3, <2>4, OneContributed
<1>4. CASE ClaimTerminal(First)
  <2>0. Claims
    BY <1>0, <1>4 DEF ClaimTerminal, Go, Claims, At
  <2>1. CASE plan[First] = "created"
    <3> DEFINE a == Event("delivery_created", "packaged", contract)
               f == Event("completed", "none", "none")
    <3>1. Claim("completed", "done", <<a>>, <<f>>)
      BY <1>4, <2>1 DEF ClaimTerminal, PackageFailures
    <3>2. a \in Events /\ f \in Events
      BY <1>0, EventType DEF EventTypes, Words, Plans
    <3>3. /\ "completed" \in Words \cap TerminalStates /\ "done" \in Words
          /\ <<a>> \in Seq(Events) /\ <<f>> \in Seq(Events)
      BY <3>2 DEF Words, Plans, StreamEndings, TerminalStates
    <3>4. ASSUME NEW i \in New, ledger'[i] = a PROVE Contribution(i)
      BY <2>0, <2>1, <3>4 DEF Contribution, Event
    <3>5. ASSUME NEW i \in New, ledger'[i] = f PROVE Contribution(i)
      BY <3>5 DEF Contribution, Event
    <3>6. ASSUME NEW i \in New, TerminalChanges(ledger) = {}, ledger'[i] = Event("state_change", "completed", "done")
          PROVE  Contribution(i)
      BY <2>0, <2>1, <3>6 DEF Contribution, Event
    <3>7. a.type = "delivery_created" /\ f.type = "completed"
      BY DEF Event
    <3> HIDE DEF a, f
    <3> DEFINE attempts == <<a>>
               facts == <<f>>
    <3>8. /\ attempts \in Seq(Events) /\ DOMAIN attempts = {1} /\ attempts[1] = a
          /\ facts \in Seq(Events) /\ DOMAIN facts = {1} /\ facts[1] = f
          /\ Claim("completed", "done", attempts, facts)
      BY <3>1, <3>2
    <3> HIDE DEF attempts, facts
    <3>9. Distinct(attempts, facts)
      BY <3>7, <3>8 DEF Distinct
    <3>10. Sound("completed", "done", attempts, facts)
        <4>1. ASSUME NEW i \in New, NEW j \in DOMAIN attempts, ledger'[i] = attempts[j] PROVE Contribution(i)
          BY <3>8, <4>1, <3>4
        <4>2. ASSUME NEW i \in New, TerminalChanges(ledger) = {}, NEW j \in DOMAIN facts, ledger'[i] = facts[j]
              PROVE  Contribution(i)
          BY <3>8, <4>2, <3>5
        <4>3. ASSUME NEW i \in New, TerminalChanges(ledger) = {}, ledger'[i] = Event("state_change", "completed", "done")
              PROVE  Contribution(i)
          BY <4>3, <3>6
        <4> QED
          BY <4>1, <4>2, <4>3 DEF Sound
    <3>11. ClaimsAs("completed")
      BY <2>1 DEF ClaimsAs
    <3> QED
      BY <3>3, <3>8, <3>9, <3>10, <3>11, ClaimContributes
  <2>2. CASE plan[First] \in PackageFailures
    <3> DEFINE a == Event("delivery_failed", plan[First], "none")
               f == Event("error", "delivery", "none")
    <3>1. Claim("failed", "delivery_failed", <<a>>, <<f>>)
      BY <1>4, <2>2 DEF ClaimTerminal, PackageFailures
    <3>2. a \in Events /\ f \in Events
      BY <1>0, EventType DEF EventTypes, Words, Plans
    <3>3. /\ "failed" \in Words \cap TerminalStates /\ "delivery_failed" \in Words
          /\ <<a>> \in Seq(Events) /\ <<f>> \in Seq(Events)
      BY <3>2 DEF Words, Plans, StreamEndings, TerminalStates
    <3>0. plan[First] # "created"
      BY <2>2 DEF PackageFailures
    <3>4. ASSUME NEW i \in New, ledger'[i] = a PROVE Contribution(i)
      BY <2>0, <2>2, <3>4 DEF Contribution, Event
    <3>5. ASSUME NEW i \in New, ledger'[i] = f PROVE Contribution(i)
      BY <3>5 DEF Contribution, Event
    <3>6. ASSUME NEW i \in New, TerminalChanges(ledger) = {},
                 ledger'[i] = Event("state_change", "failed", "delivery_failed")
          PROVE  Contribution(i)
      BY <2>0, <3>0, <3>6 DEF Contribution, Event
    <3>7. a.type = "delivery_failed" /\ f.type = "error"
      BY DEF Event
    <3> HIDE DEF a, f
    <3> DEFINE attempts == <<a>>
               facts == <<f>>
    <3>8. /\ attempts \in Seq(Events) /\ DOMAIN attempts = {1} /\ attempts[1] = a
          /\ facts \in Seq(Events) /\ DOMAIN facts = {1} /\ facts[1] = f
          /\ Claim("failed", "delivery_failed", attempts, facts)
      BY <3>1, <3>2
    <3> HIDE DEF attempts, facts
    <3>9. Distinct(attempts, facts)
      BY <3>7, <3>8 DEF Distinct
    <3>10. Sound("failed", "delivery_failed", attempts, facts)
      <4>1. ASSUME NEW i \in New, NEW j \in DOMAIN attempts, ledger'[i] = attempts[j] PROVE Contribution(i)
        BY <3>8, <4>1, <3>4
      <4>2. ASSUME NEW i \in New, TerminalChanges(ledger) = {}, NEW j \in DOMAIN facts, ledger'[i] = facts[j]
            PROVE  Contribution(i)
        BY <3>8, <4>2, <3>5
      <4>3. ASSUME NEW i \in New, TerminalChanges(ledger) = {}, ledger'[i] = Event("state_change", "failed", "delivery_failed")
            PROVE  Contribution(i)
        BY <4>3, <3>6
      <4> QED
        BY <4>1, <4>2, <4>3 DEF Sound
    <3>11. ClaimsAs("failed")
      BY <3>0 DEF ClaimsAs
    <3> QED
      BY <3>3, <3>8, <3>9, <3>10, <3>11, ClaimContributes
  <2>3. CASE plan[First] = "workdir_escape"
    <3> DEFINE f == Event("isolation_violation", "none", "none")
               g == Event("error", "isolation", "none")
    <3>1. Claim("failed", "workdir_escape", <<>>, <<f, g>>)
      BY <1>4, <2>3 DEF ClaimTerminal, PackageFailures
    <3>2. f \in Events /\ g \in Events
      BY <1>0, EventType DEF EventTypes, Words, Plans
    <3>3. /\ "failed" \in Words \cap TerminalStates /\ "workdir_escape" \in Words
          /\ <<>> \in Seq(Events) /\ <<f, g>> \in Seq(Events)
      BY <3>2 DEF Words, Plans, StreamEndings, TerminalStates
    <3>5. ASSUME NEW i \in New, TerminalChanges(ledger) = {}, ledger'[i] = f \/ ledger'[i] = g PROVE Contribution(i)
      BY <3>5 DEF Contribution, Event
    <3>6. ASSUME NEW i \in New, TerminalChanges(ledger) = {},
                 ledger'[i] = Event("state_change", "failed", "workdir_escape")
          PROVE  Contribution(i)
      BY <2>0, <2>3, <3>6 DEF Contribution, Event
    <3>7. f.type = "isolation_violation" /\ g.type = "error"
      BY DEF Event
    <3> HIDE DEF f, g
    <3>8. DOMAIN <<>> = {} /\ DOMAIN <<f, g>> = {1, 2} /\ <<f, g>>[1] = f /\ <<f, g>>[2] = g
      OBVIOUS
    <3> DEFINE attempts == <<>>
               facts == <<f, g>>
    <3>9. /\ facts \in Seq(Events) /\ DOMAIN facts = {1, 2} /\ facts[1] = f /\ facts[2] = g
          /\ attempts \in Seq(Events) /\ DOMAIN attempts = {}
          /\ Claim("failed", "workdir_escape", attempts, facts)
      BY <3>1, <3>3, <3>8
    <3> HIDE DEF attempts, facts
    <3>10. Distinct(attempts, facts)
      BY <3>7, <3>9 DEF Distinct
    <3>11. Sound("failed", "workdir_escape", attempts, facts)
      <4>1. ASSUME NEW i \in New, NEW j \in DOMAIN attempts, ledger'[i] = attempts[j] PROVE Contribution(i)
        BY <3>9, <4>1
      <4>2. ASSUME NEW i \in New, TerminalChanges(ledger) = {}, NEW j \in DOMAIN facts, ledger'[i] = facts[j]
            PROVE  Contribution(i)
        BY <3>9, <4>2, <3>5
      <4>3. ASSUME NEW i \in New, TerminalChanges(ledger) = {}, ledger'[i] = Event("state_change", "failed", "workdir_escape")
            PROVE  Contribution(i)
        BY <4>3, <3>6
      <4> QED
        BY <4>1, <4>2, <4>3 DEF Sound
    <3>12. ClaimsAs("failed")
      BY <2>3 DEF ClaimsAs
    <3> QED
      BY <3>3, <3>9, <3>10, <3>11, <3>12, ClaimContributes
  <2>4. CASE plan[First] \notin {"created", "workdir_escape"} \cup PackageFailures
    <3>1. Claim("failed", plan[First], <<>>, <<>>)
      BY <1>4, <2>4 DEF ClaimTerminal
    <3>2. "failed" \in Words \cap TerminalStates /\ <<>> \in Seq(Events) /\ DOMAIN <<>> = {}
      BY DEF Words, Plans, TerminalStates
    <3>3. ASSUME NEW i \in New, TerminalChanges(ledger) = {},
                 ledger'[i] = Event("state_change", "failed", plan[First])
          PROVE  Contribution(i)
      <4>1. plan[First] \in Plans
        BY DEF RunInv, TypeOK
      <4>2. plan[First] # "process_missing"
        BY <4>1 DEF Plans, StreamEndings, PackageFailures
      <4> QED
        BY <2>0, <2>4, <3>3, <4>2 DEF Contribution, Event
    <3> DEFINE nothing == <<>>
    <3>4. nothing \in Seq(Events) /\ DOMAIN nothing = {} /\ Claim("failed", plan[First], nothing, nothing)
      BY <3>1
    <3> HIDE DEF nothing
    <3>5. Distinct(nothing, nothing)
      BY <3>4 DEF Distinct
    <3>6. Sound("failed", plan[First], nothing, nothing)
      BY <3>3, <3>4 DEF Sound
    <3>7. ClaimsAs("failed")
      BY <2>4 DEF ClaimsAs
    <3> QED
      BY <1>0, <3>2, <3>4, <3>5, <3>6, <3>7, ClaimContributes
  <2> QED
    BY <2>1, <2>2, <2>3, <2>4
<1>5. CASE Cleanup(First)
  <2>1. At = "cleanup" /\ At' \in {"verify", "exit"} /\ ~ Claims
    BY <1>0, <1>5 DEF Cleanup, Go, Claims, At
  <2>2. CASE UNCHANGED ledger
    BY <2>1, <2>2, NothingContributed
  <2>3. ASSUME NEW type \in {"stop_verified", "stop_unverified"}, Append1(Event(type, "cleanup", "none")),
               type = "stop_verified" => worker'[First] = "gone"
        PROVE  Contributes
    <3>1. Event(type, "cleanup", "none") \in Events
      BY EventType DEF EventTypes, Words, Plans
    <3>2. ASSUME NEW i \in New, ledger'[i] = Event(type, "cleanup", "none") PROVE Contribution(i)
      BY <2>1, <2>3, <3>2 DEF Contribution, Event, AfterCleanup
    <3> QED
      BY <2>1, <2>3, <3>1, <3>2, OneContributed
  <2>4. worker' = [worker EXCEPT ![First] = "gone"] => worker'[First] = "gone"
    BY DEF RunInv, TypeOK
  <2> QED
    BY <1>5, <2>2, <2>3, <2>4 DEF Cleanup
<1>6. CASE Verify(First)
  <2>1. At = "verify" /\ At' = "exit" /\ ~ Claims
    BY <1>0, <1>6 DEF Verify, Go, Claims, At
  <2> QED
    BY <1>6, <2>1, OutcomeContributed DEF Verify
<1>7. CASE AbortClaim(First)
  <2> DEFINE f == Event("aborted", "none", "none")
  <2>0. ~ Claims
    BY <1>7 DEF AbortClaim, Claims, At
  <2>1. Claim("aborted", "external_signal", <<>>, <<f>>)
    BY <1>7 DEF AbortClaim
  <2>2. f \in Events
    BY EventType DEF EventTypes, Words, Plans
  <2>3. /\ "aborted" \in Words \cap TerminalStates /\ "external_signal" \in Words
        /\ <<>> \in Seq(Events) /\ <<f>> \in Seq(Events) /\ DOMAIN <<>> = {}
    BY <2>2 DEF Words, Plans, TerminalStates
  <2>5. ASSUME NEW i \in New, TerminalChanges(ledger) = {}, ledger'[i] = f PROVE Contribution(i)
    BY <2>5 DEF Contribution, Event
  <2>6. ASSUME NEW i \in New, TerminalChanges(ledger) = {},
               ledger'[i] = Event("state_change", "aborted", "external_signal")
        PROVE  Contribution(i)
    BY <2>6 DEF Contribution, Event
  <2>7. f.type = "aborted"
    BY DEF Event
  <2> HIDE DEF f
  <2> DEFINE attempts == <<>>
             facts == <<f>>
  <2>8. /\ attempts \in Seq(Events) /\ DOMAIN attempts = {}
        /\ facts \in Seq(Events) /\ DOMAIN facts = {1} /\ facts[1] = f
        /\ Claim("aborted", "external_signal", attempts, facts)
    BY <2>1, <2>2
  <2> HIDE DEF attempts, facts
  <2>9. Distinct(attempts, facts)
    BY <2>7, <2>8 DEF Distinct
  <2>10. Sound("aborted", "external_signal", attempts, facts)
    <3>1. ASSUME NEW i \in New, NEW j \in DOMAIN attempts, ledger'[i] = attempts[j] PROVE Contribution(i)
      BY <2>8, <3>1
    <3>2. ASSUME NEW i \in New, TerminalChanges(ledger) = {}, NEW j \in DOMAIN facts, ledger'[i] = facts[j]
          PROVE  Contribution(i)
      BY <2>8, <3>2, <2>5
    <3>3. ASSUME NEW i \in New, TerminalChanges(ledger) = {}, ledger'[i] = Event("state_change", "aborted", "external_signal")
          PROVE  Contribution(i)
      BY <3>3, <2>6
    <3> QED
      BY <3>1, <3>2, <3>3 DEF Sound
  <2>11. ClaimsAs("aborted")
    BY <2>0 DEF ClaimsAs
  <2> QED
    BY <2>3, <2>8, <2>9, <2>10, <2>11, ClaimContributes
<1> QED
  BY <1>1, <1>2, <1>3, <1>4, <1>5, <1>6, <1>7 DEF FirstStep, WindUp

(* The claim that a process is missing, by wao settle or by recovery.       *)
LEMMA OtherClaims ==
    ASSUME SoleRunner, RunInv, ~ Claims, FirstGone,
           NEW by \in {"settle", "recover"},
           Claim("failed", "process_missing", <<>>, <<Event("process_missing_confirmed", by, "none")>>)
    PROVE  Contributes
<1> DEFINE f == Event("process_missing_confirmed", by, "none")
           attempts == <<>>
           facts == <<f>>
<1>1. f \in Events
  BY EventType DEF EventTypes, Words, Plans
<1>2. "failed" \in Words \cap TerminalStates /\ "process_missing" \in Words
  BY DEF Words, Plans, TerminalStates
<1>3. /\ f.type = "process_missing_confirmed"
      /\ f.type \notin {"state_change", "state_change_rejected"}
  BY DEF Event
<1>4. ASSUME NEW i \in New, NEW l \in New, TerminalChanges(ledger) = {}, ledger'[i] = f,
             ledger'[l] = Event("state_change", "failed", "process_missing")
      PROVE  Contribution(i)
  <2>1. l \in TerminalChanges(ledger')
    BY <1>4 DEF New, TerminalChanges, Of, Event, TerminalStates
  <2>2. EndedFor(ledger', "process_missing")
    BY <1>4, <2>1 DEF EndedFor, Event
  <2> QED
    BY <1>4, <2>2 DEF Contribution, Event
<1>5. ASSUME NEW i \in New, TerminalChanges(ledger) = {},
             ledger'[i] = Event("state_change", "failed", "process_missing")
      PROVE  Contribution(i)
  BY <1>5 DEF Contribution, Event
<1> HIDE DEF f
<1>6. /\ attempts \in Seq(Events) /\ DOMAIN attempts = {}
      /\ facts \in Seq(Events) /\ DOMAIN facts = {1} /\ facts[1] = f
      /\ Claim("failed", "process_missing", attempts, facts)
  BY <1>1 DEF f
<1> HIDE DEF attempts, facts
<1>7. Distinct(attempts, facts)
  BY <1>3, <1>6 DEF Distinct
<1>8. Sound("failed", "process_missing", attempts, facts)
  BY <1>4, <1>5, <1>6 DEF Sound
<1>9. ClaimsAs("failed")
  BY DEF ClaimsAs
<1> QED
  BY <1>2, <1>6, <1>7, <1>8, <1>9, ClaimContributes

(* The claim of wao stop.                                                   *)
LEMMA StopContributes ==
    ASSUME SoleRunner, RunInv, ~ Claims,
           Claim("aborted", "stop_requested", <<Event("stop_requested", "none", "none")>>,
                 <<Event("aborted", "none", "none")>>)
    PROVE  Contributes
<1> DEFINE a == Event("stop_requested", "none", "none")
           f == Event("aborted", "none", "none")
           attempts == <<a>>
           facts == <<f>>
<1>1. a \in Events /\ f \in Events
  BY EventType DEF EventTypes, Words, Plans
<1>2. "aborted" \in Words \cap TerminalStates /\ "stop_requested" \in Words
  BY DEF Words, Plans, TerminalStates
<1>3. a.type = "stop_requested" /\ f.type = "aborted"
  BY DEF Event
<1>4. ASSUME NEW i \in New, ledger'[i] = a PROVE Contribution(i)
  BY <1>4 DEF Contribution, Event
<1>5. ASSUME NEW i \in New, TerminalChanges(ledger) = {},
             ledger'[i] = f \/ ledger'[i] = Event("state_change", "aborted", "stop_requested")
      PROVE  Contribution(i)
  BY <1>5 DEF Contribution, Event
<1> HIDE DEF a, f
<1>6. /\ attempts \in Seq(Events) /\ DOMAIN attempts = {1} /\ attempts[1] = a
      /\ facts \in Seq(Events) /\ DOMAIN facts = {1} /\ facts[1] = f
      /\ Claim("aborted", "stop_requested", attempts, facts)
  BY <1>1 DEF a, f
<1> HIDE DEF attempts, facts
<1>7. Distinct(attempts, facts)
  BY <1>3, <1>6 DEF Distinct
<1>8. Sound("aborted", "stop_requested", attempts, facts)
  BY <1>4, <1>5, <1>6 DEF Sound
<1>9. ClaimsAs("aborted")
  BY DEF ClaimsAs
<1> QED
  BY <1>2, <1>6, <1>7, <1>8, <1>9, ClaimContributes

(* A recovered delivery and its provenance. *)
LEMMA CreationContributes ==
    ASSUME SoleRunner, RunInv, ~ Claims, CreateRecovered
    PROVE  Contributes
<1> DEFINE a == Event("delivery_created", "repackaged", contract)
           b == Event("delivery_repackaged", RecoveryKind(ledger), "none")
           s == <<a, b>>
<1>1. /\ Of(ledger, "delivery_created") = {}
      /\ RecoveryKind(ledger) # "none"
      /\ ledger' = ledger \o s
  BY DEF CreateRecovered, Repackageable
<1>2. a \in Events /\ b \in Events
  <2>1. contract \in Words
    BY RunnersAssumption DEF RunInv, TypeOK, Words
  <2> QED
    BY <2>1, EventType, KindIsWord DEF EventTypes, Words, Plans
<1>3. /\ a.type = "delivery_created" /\ b.type = "delivery_repackaged" /\ b.value = RecoveryKind(ledger)
  BY DEF Event
<1> HIDE DEF a, b
<1>4. s \in Seq(Events) /\ Len(s) = 2 /\ s[1] = a /\ s[2] = b
  BY <1>2
<1> HIDE DEF s
<1>5. /\ Len(ledger) \in Nat
      /\ New = Len(ledger) + 1 .. Len(ledger) + 2
      /\ \A i \in New : ledger'[i] = s[i - Len(ledger)]
  BY <1>1, <1>4, NewOf DEF RunInv
<1>6. /\ New = {Len(ledger) + 1, Len(ledger) + 2}
      /\ ledger'[Len(ledger) + 1] = a /\ ledger'[Len(ledger) + 2] = b
  <2> DEFINE n == Len(ledger)
  <2>1. n + 1 \in New /\ n + 2 \in New /\ (n + 1) - n = 1 /\ (n + 2) - n = 2
    BY <1>5
  <2>2. New = {n + 1, n + 2}
    BY <1>5
  <2> QED
    BY <1>4, <1>5, <2>1, <2>2
<1>7. Of(ledger', "delivery_created") # {}
  BY <1>3, <1>6 DEF Of, New
<1>8. ASSUME NEW i \in New PROVE Contribution(i)
  <2>1. CASE ledger'[i] = a
    BY <1>1, <1>3, <2>1 DEF Contribution
  <2>2. CASE ledger'[i] = b
    BY <1>1, <1>3, <1>7, <2>2 DEF Contribution
  <2> QED
    BY <1>6, <2>1, <2>2
<1>9. \A i, j \in New : ledger'[i].type = ledger'[j].type => i = j
  BY <1>3, <1>6
<1> QED
  BY <1>8, <1>9 DEF Contributes

(* What the Lead contributes.                                               *)
LEMMA LeadContributes ==
    ASSUME SoleRunner, RunInv, Alone, Witnessed, LeadStep
    PROVE  Contributes
<1> USE RunnersAssumption
<1>0. ~ Claims
  <2>1. runner' = runner
    BY DEF LeadStep, StopRead, StopClaim, StopKill, SettleProve, SettleClaim, Prove, RecoverClaim,
           RepackageRejected, CreateRecovered, RecordRecovered, Request, CompleteLink, Decide, runVars
  <2> QED
    BY <2>1 DEF Claims, At
<1>1. CASE StopRead \/ SettleProve \/ \E q \in Recoverers : Prove(q)
  <2>1. UNCHANGED ledger
    BY <1>1 DEF StopRead, SettleProve, Prove
  <2> QED
    BY <1>0, <2>1, NothingContributed
<1>2. CASE StopClaim
  BY <1>0, <1>2, StopContributes DEF StopClaim
<1>3. CASE StopKill
  <2>1. PICK type \in {"stop_verified", "stop_unverified"} :
          /\ Append1(Event(type, "stop", "none"))
          /\ type = "stop_verified" => worker' = [worker EXCEPT ![target] = "gone"]
    BY <1>3 DEF StopKill
  <2>2. stopper = "killing" /\ (type = "stop_verified" => worker'[First] = "gone")
    BY <1>3, <2>1 DEF StopKill, Alone, RunInv, TypeOK
  <2>3. Event(type, "stop", "none") \in Events
    BY EventType DEF EventTypes, Words, Plans
  <2>4. ASSUME NEW i \in New, ledger'[i] = Event(type, "stop", "none") PROVE Contribution(i)
    <3>1. ledger'[i].type = type
      BY <2>4 DEF Event
    <3>2. CASE type = "stop_verified"
      <4>1. worker'[First] = "gone" /\ stopper = "killing"
        BY <2>2, <3>2
      <4>2. ledger'[i].type = "stop_verified"
        BY <3>1, <3>2
      <4> QED
        BY <4>1, <4>2 DEF Contribution
    <3>3. CASE type = "stop_unverified"
      BY <2>2, <3>1, <3>3 DEF Contribution
    <3> QED
      BY <3>2, <3>3
  <2> QED
    BY <1>0, <2>1, <2>3, <2>4, OneContributed
<1>4. CASE SettleClaim
  <2>1. FirstGone
    BY <1>4 DEF SettleClaim, Witnessed
  <2>2. CASE settler = Len(ledger)
    BY <1>0, <1>4, <2>1, <2>2, OtherClaims DEF SettleClaim
  <2>3. CASE settler # Len(ledger)
    <3>1. Append1(Event("state_change_rejected", "failed", "process_missing"))
      BY <1>4, <2>3 DEF SettleClaim
    <3> QED
      BY <1>0, <3>1, IdleContributed DEF Idle, EventTypes, Words
  <2> QED
    BY <2>2, <2>3
<1>5. ASSUME NEW q \in Recoverers, RecoverClaim(q) PROVE Contributes
  <2>1. FirstGone
    BY <1>5 DEF RecoverClaim, Witnessed
  <2> QED
    BY <1>0, <1>5, <2>1, OtherClaims DEF RecoverClaim
<1>6. ASSUME NEW q \in Recoverers, RepackageRejected(q) PROVE Contributes
  <2>1. Append1(Event("delivery_repackage_rejected", "none", "none"))
    BY <1>6 DEF RepackageRejected
  <2> QED
    BY <1>0, <2>1, IdleContributed DEF Idle, EventTypes, Words, Plans
<1>7. CASE CreateRecovered
  BY <1>0, <1>7, CreationContributes
<1>8. CASE RecordRecovered
  <2>1. PICK n \in DOMAIN ledger : \E m \in n .. Len(ledger) : ValidProvenance(Prefix(m))
    BY <1>8 DEF RecordRecovered
  <2>2. PICK m \in n .. Len(ledger) : ValidProvenance(Prefix(m))
    BY <2>1
  <2>3. m \in 0 .. Len(ledger)
    BY <2>2, LenProperties DEF RunInv, TypeOK
  <2>4. Of(Prefix(m), "delivery_repackaged") # {}
    BY <2>2, Singles DEF ValidProvenance, OneOf
  <2>5. Of(ledger, "delivery_repackaged") # {}
    BY <2>3, <2>4, InPrefix DEF RunInv
  <2>6. Of(ledger, "verification") = {} /\ \E outcome \in Outcomes("verification") : Append1(outcome)
    BY <1>8 DEF RecordRecovered
  <2> QED
    BY <1>0, <2>5, <2>6, OutcomeContributed
<1>9. ASSUME NEW attempt \in {"first", "second"}, Request(attempt) PROVE Contributes
  <2>1. PICK n \in DOMAIN ledger : Reverifiable(Prefix(n))
    BY <1>9 DEF Request
  <2>2. n \in 0 .. Len(ledger)
    BY LenProperties DEF RunInv, TypeOK
  <2>3. PICK v \in Of(Prefix(n), "verification") : Prefix(n)[v].value = "failed"
    BY <2>1, Singles DEF Reverifiable, OneOf
  <2>4. v \in Of(ledger, "verification") /\ ledger[v].value = "failed"
    BY <2>2, <2>3, InPrefix DEF RunInv, Of
  <2>5. Event("reverify_requested", attempt, "none") \in Events
    BY EventType DEF EventTypes, Words, Plans
  <2>6. ASSUME NEW i \in New, ledger'[i] = Event("reverify_requested", attempt, "none") PROVE Contribution(i)
    BY <2>4, <2>6 DEF Contribution, Event
  <2>7. Append1(Event("reverify_requested", attempt, "none"))
    BY <1>9 DEF Request
  <2> QED
    BY <1>0, <2>5, <2>6, <2>7, OneContributed
<1>10. CASE CompleteLink
  BY <1>0, <1>10, OutcomeContributed DEF CompleteLink
<1>11. ASSUME NEW decision \in {"accepted", "rejected"}, Decide(decision) PROVE Contributes
  <2> DEFINE event == Event("decision", decision, EffectiveStatus(ledger))
  <2>1. /\ Of(ledger, "decision") = {}
        /\ FactsVerdict(ledger) = "valid" /\ FactsVerdict(ledger') = "valid"
        /\ decision = "accepted" => Acceptable(ledger)
        /\ Append1(event)
    BY <1>11 DEF Decide
  <2>2. event \in Events
    <3>1. "decision" \in EventTypes /\ decision \in Words
      BY DEF EventTypes, Words
    <3>2. EffectiveStatus(ledger) \in Words
      BY StatusIsWord DEF RunInv
    <3> QED
      BY <3>1, <3>2, EventType
  <2>3. event.type = "decision" /\ event.value = decision
    BY DEF Event
  <2> HIDE DEF event
  <2>4. ASSUME NEW i \in New, New = {i}, ledger'[i] = event PROVE Contribution(i)
    BY <2>1, <2>3, <2>4 DEF Contribution
  <2> QED
    BY <1>0, <2>1, <2>2, <2>4, OneContributed
<1> QED
  BY <1>1, <1>2, <1>3, <1>4, <1>5, <1>6, <1>7, <1>8, <1>9, <1>10, <1>11 DEF LeadStep

(* Whatever step there is. *)
LEMMA StepContributes ==
    ASSUME SoleRunner, RunInv, Alone, Witnessed, [Next]_vars
    PROVE  Contributes
<1>1. CASE LeaseAges \/ UNCHANGED vars
  <2>1. UNCHANGED <<ledger, runner>>
    BY <1>1 DEF LeaseAges, vars, runVars
  <2>2. ~ Claims
    BY <2>1 DEF Claims, At
  <2> QED
    BY <2>1, <2>2, NothingContributed
<1>2. ASSUME NEW r \in Runners, RunnerStep(r) PROVE Contributes
  BY <1>2, OnlyFirstSteps, FirstContributes
<1>3. CASE LeadStep
  BY <1>3, LeadContributes
<1> QED
  BY <1>1, <1>2, <1>3 DEF Next

-----------------------------------------------------------------------------
(* The runner's way, and everybody's proofs. *)

(* The runner's.                                                            *)
FirstMoves ==
    /\ At \in Past => At' \in Past /\ plan'[First] = plan[First]
    /\ At \in AfterCleanup => At' \in AfterCleanup
    /\ At \in Gone => At' \in Gone
    /\ worker[First] = "gone" => worker'[First] = "gone"
    /\ At' = "verify" => At = "verify" \/ (At = "cleanup" /\ plan[First] = "verify")
    /\ At' = "cleanup" => At = "cleanup" \/ Claims \/ plan'[First] # "verify"
    /\ plan'[First] = "verify" =>
         plan[First] = "verify" \/ (Claims /\ plan[First] = "created" /\ TerminalChanges(ledger) = {})

(* What the others take for shown.                                          *)
OthersMove ==
    /\ \A q \in Recoverers : proof'[q] = "proved" => proof[q] = "proved" \/ FirstGone
    /\ settler' \in DOMAIN ledger' => settler \in DOMAIN ledger \/ FirstGone
    /\ stopper' = "killing" => stopper = "killing" \/ EndedAs(ledger', "aborted")

(* How the runner moves by its own steps.                                   *)
LEMMA FirstStepMoves ==
    ASSUME SoleRunner, RunInv, Alone, FirstStep
    PROVE  FirstMoves
<1> USE RunnersAssumption DEF Go, Intend, At, Past, AfterCleanup, Gone, Claims
<1>0. /\ runner \in [Runners -> Places] /\ plan \in [Runners -> Plans]
      /\ worker \in [Runners -> {"alive", "gone"}]
      /\ First \in Runners
      /\ At \notin {"idle", "scanned", "spawned", "respawned"}
  BY DEF RunInv, TypeOK, Alone
<1>1. CASE StreamEnds(First)
  <2>1. /\ At = "polling" /\ At' = "ended" /\ worker' = worker
        /\ plan'[First] \in StreamEndings
    BY <1>0, <1>1 DEF StreamEnds
  <2>2. "verify" \notin StreamEndings
    BY DEF StreamEndings
  <2> QED
    BY <2>1, <2>2 DEF FirstMoves
<1>2. CASE CheckEnded(First) \/ CheckBeforePackaging(First)
  <2>1. /\ At \in {"ended", "check"} /\ worker' = worker
        /\ At' \in {"cleanup", "score", "claim", "note", "package"}
        /\ At' = "cleanup" => plan'[First] = "none"
        /\ plan'[First] \in {"none", plan[First]}
    BY <1>0, <1>2 DEF CheckEnded, CheckBeforePackaging, AdoptOrGoOn
  <2> QED
    BY <2>1 DEF FirstMoves
<1>3. CASE Score(First) \/ Note(First)
  <2>1. /\ At \in {"score", "note"} /\ worker' = worker
        /\ At' \in {"check", "note", "claim"}
        /\ plan'[First] \in {"scorecard_failed", plan[First]}
    BY <1>0, <1>3 DEF Score, Note
  <2> QED
    BY <2>1 DEF FirstMoves
<1>4. CASE Package(First)
  <2>1. /\ At = "package" /\ worker' = worker
        /\ At' = "claim"
        /\ plan'[First] \in {"created"} \cup PackageFailures
    BY <1>0, <1>4 DEF Package
  <2>2. "verify" \notin {"created"} \cup PackageFailures
    BY DEF PackageFailures
  <2> QED
    BY <2>1, <2>2 DEF FirstMoves
<1>5. CASE ClaimTerminal(First)
  <2>1. /\ At = "claim" /\ worker' = worker /\ At' = "cleanup"
        /\ plan'[First] = IF plan[First] = "created" /\ Accepted THEN "verify" ELSE "none"
    BY <1>0, <1>5 DEF ClaimTerminal
  <2>2. Accepted => TerminalChanges(ledger) = {}
    BY NoneClaimed DEF Accepted, RunInv
  <2> QED
    BY <2>1, <2>2 DEF FirstMoves
<1>6. CASE Cleanup(First)
  <2>1. /\ At = "cleanup" /\ plan' = plan
        /\ At' = IF plan[First] = "verify" THEN "verify" ELSE "exit"
    BY <1>0, <1>6 DEF Cleanup
  <2>2. worker[First] = "gone" => worker'[First] = "gone"
    BY <1>0, <1>6 DEF Cleanup
  <2> QED
    BY <2>1, <2>2 DEF FirstMoves
<1>7. CASE Verify(First) \/ Exit(First)
  <2>1. /\ At \in {"verify", "exit"} /\ plan' = plan /\ worker' = worker
        /\ At' = IF At = "verify" THEN "exit" ELSE "done"
    BY <1>0, <1>7 DEF Verify, Exit
  <2> QED
    BY <2>1 DEF FirstMoves
<1>8. CASE Interrupt(First) \/ AbortClaim(First) \/ WorkerEnds(First) \/ Heartbeat(First)
  <2>1. plan' = plan /\ At' = At
    BY <1>8 DEF Interrupt, AbortClaim, WorkerEnds, Heartbeat, runVars
  <2>2. worker[First] = "gone" => worker'[First] = "gone"
    BY <1>0, <1>8 DEF Interrupt, AbortClaim, WorkerEnds, Heartbeat, runVars
  <2> QED
    BY <2>1, <2>2 DEF FirstMoves
<1>9. CASE Crash(First)
  <2>1. At' = "dead" /\ plan' = plan /\ worker' = worker
    BY <1>0, <1>9 DEF Crash
  <2> QED
    BY <2>1 DEF FirstMoves
<1> QED
  BY <1>1, <1>2, <1>3, <1>4, <1>5, <1>6, <1>7, <1>8, <1>9 DEF FirstStep, WindUp

(* A claim that is the first one ends the run as it says.                   *)
LEMMA ClaimEnds ==
    ASSUME RunInv, TerminalChanges(ledger) = {},
           NEW to \in Words \cap TerminalStates, NEW why \in Words,
           NEW attempts \in Seq(Events), NEW facts \in Seq(Events),
           Claim(to, why, attempts, facts)
    PROVE  EndedAs(ledger', to)
<1> DEFINE k == Len(ledger) + Len(attempts) + Len(facts)
<1>1. /\ Len(ledger) \in Nat /\ Len(attempts) \in Nat /\ Len(facts) \in Nat
      /\ New = Len(ledger) + 1 .. k + 1
      /\ ledger'[k + 1] = Event("state_change", to, why)
  BY ClaimPositions
<1>2. k + 1 \in New
  BY <1>1
<1>3. k + 1 \in TerminalChanges(ledger')
  BY <1>1, <1>2 DEF New, TerminalChanges, Of, Event
<1> QED
  BY <1>1, <1>3 DEF EndedAs, Event

(* An owner that is gone: the only one there was.                           *)
LEMMA OwnerGoneIsFirst == RunInv /\ Alone /\ OwnerGone => At \in Gone
<1> SUFFICES ASSUME RunInv, Alone, OwnerGone PROVE At \in Gone
  OBVIOUS
<1>1. ~ Alive(First)
  BY RunnersAssumption DEF OwnerGone, Alone
<1> QED
  BY <1>1 DEF Alone, Alive, At, Gone

(* The Lead leaves the runner alone, and proves what it takes for shown.    *)
LEMMA LeadStepMoves ==
    ASSUME SoleRunner, RunInv, Alone, [Next]_vars, LeadStep
    PROVE  FirstMoves /\ OthersMove
<1> USE RunnersAssumption
<1>0. /\ worker \in [Runners -> {"alive", "gone"}]
      /\ proof \in [Recoverers -> {"none", "proved", "refused", "done"}]
      /\ settler \in {Settled} \cup (0 .. Len(ledger))
      /\ DOMAIN ledger = 1 .. Len(ledger) /\ Len(ledger) \in Nat
      /\ DOMAIN ledger' = 1 .. Len(ledger') /\ Len(ledger') \in Nat
      /\ target = First
  BY LedgerGrows DEF RunInv, TypeOK, Alone
<1>1. FirstMoves
  <2>1. runner' = runner /\ plan' = plan
    BY DEF LeadStep, StopRead, StopClaim, StopKill, SettleProve, SettleClaim, Prove, RecoverClaim,
           RepackageRejected, CreateRecovered, RecordRecovered, Request, CompleteLink, Decide, runVars
  <2>2. worker' = worker \/ worker' = [worker EXCEPT ![First] = "gone"]
    BY <1>0 DEF LeadStep, StopRead, StopClaim, StopKill, SettleProve, SettleClaim, Prove, RecoverClaim,
           RepackageRejected, CreateRecovered, RecordRecovered, Request, CompleteLink, Decide, runVars
  <2> QED
    BY <1>0, <2>1, <2>2 DEF FirstMoves, At
<1>2. settler' = settler => (settler' \in DOMAIN ledger' => settler \in DOMAIN ledger)
  <2>1. CASE settler = Settled
    BY <1>0, <2>1 DEF Settled
  <2>2. CASE settler \in 0 .. Len(ledger)
    BY <1>0, <2>2
  <2> QED
    BY <1>0, <2>1, <2>2
<1>3. CASE StopRead
  <2>1. stopper' = "read" /\ settler' = settler /\ proof' = proof
    BY <1>3 DEF StopRead
  <2> QED
    BY <1>1, <1>2, <2>1 DEF OthersMove
<1>4. CASE StopClaim
  <2>1. settler' = settler /\ proof' = proof
    BY <1>4 DEF StopClaim
  <2>2. ASSUME stopper' = "killing" PROVE EndedAs(ledger', "aborted")
    <3>1. Accepted
      BY <1>4, <2>2 DEF StopClaim
    <3>2. TerminalChanges(ledger) = {}
      BY <3>1, NoneClaimed DEF Accepted, RunInv
    <3> DEFINE a == <<Event("stop_requested", "none", "none")>>
               f == <<Event("aborted", "none", "none")>>
    <3>3. a \in Seq(Events) /\ f \in Seq(Events)
      <4>1. Event("stop_requested", "none", "none") \in Events /\ Event("aborted", "none", "none") \in Events
        BY EventType DEF EventTypes, Words, Plans
      <4> QED
        BY <4>1
    <3>4. Claim("aborted", "stop_requested", a, f)
      BY <1>4 DEF StopClaim
    <3>5. "aborted" \in Words \cap TerminalStates /\ "stop_requested" \in Words
      BY DEF Words, TerminalStates
    <3> HIDE DEF a, f
    <3> QED
      BY <3>2, <3>3, <3>4, <3>5, ClaimEnds
  <2> QED
    BY <1>1, <1>2, <2>1, <2>2 DEF OthersMove
<1>5. CASE StopKill
  <2>1. stopper' = "done" /\ settler' = settler /\ proof' = proof
    BY <1>5 DEF StopKill
  <2> QED
    BY <1>1, <1>2, <2>1 DEF OthersMove
<1>6. CASE SettleProve
  <2>1. PICK n \in DOMAIN ledger : worker[NamedRunner(Prefix(n))] = "gone"
    BY <1>6 DEF SettleProve
  <2>2. Of(Prefix(n), "rerun") = {}
    <3>1. n \in 0 .. Len(ledger)
      BY <1>0
    <3> QED
      BY <3>1, InPrefix DEF RunInv, Alone
  <2>3. NamedRunner(Prefix(n)) = First
    BY <2>2 DEF NamedRunner
  <2>4. At \in Gone
    BY <1>6, OwnerGoneIsFirst DEF SettleProve
  <2>5. FirstGone
    BY <2>1, <2>3, <2>4 DEF FirstGone
  <2>6. stopper' = stopper /\ proof' = proof
    BY <1>6 DEF SettleProve
  <2> QED
    BY <1>1, <2>5, <2>6 DEF OthersMove
<1>7. CASE SettleClaim
  <2>1. stopper' = stopper /\ settler \in DOMAIN ledger /\ proof' = proof
    BY <1>7 DEF SettleClaim
  <2> QED
    BY <1>1, <2>1 DEF OthersMove
<1>8. ASSUME NEW q \in Recoverers, Prove(q) PROVE FirstMoves /\ OthersMove
  <2>1. FirstGone
    BY <1>8, OwnerGoneIsFirst DEF Prove, FirstGone
  <2>2. stopper' = stopper /\ settler' = settler
    BY <1>8 DEF Prove
  <2> QED
    BY <1>1, <1>2, <2>1, <2>2 DEF OthersMove
<1>9. ASSUME NEW q \in Recoverers, RecoverClaim(q) \/ RepackageRejected(q) PROVE FirstMoves /\ OthersMove
  <2>1. stopper' = stopper /\ settler' = settler
    BY <1>9 DEF RecoverClaim, RepackageRejected
  <2>2. \A p \in Recoverers : proof'[p] = "proved" => proof[p] = "proved"
    BY <1>0, <1>9 DEF RecoverClaim, RepackageRejected
  <2> QED
    BY <1>1, <1>2, <2>1, <2>2 DEF OthersMove
<1>10. CASE CreateRecovered \/ RecordRecovered \/ CompleteLink
            \/ (\E attempt \in {"first", "second"} : Request(attempt))
            \/ \E decision \in {"accepted", "rejected"} : Decide(decision)
  <2>1. stopper' = stopper /\ settler' = settler /\ proof' = proof
    BY <1>10 DEF CreateRecovered, RecordRecovered, Request, CompleteLink, Decide, leadVars
  <2> QED
    BY <1>1, <1>2, <2>1 DEF OthersMove
<1> QED
  BY <1>3, <1>4, <1>5, <1>6, <1>7, <1>8, <1>9, <1>10 DEF LeadStep

(* Both, of any step.                                                       *)
LEMMA StepMoves ==
    ASSUME SoleRunner, RunInv, Alone, [Next]_vars
    PROVE  FirstMoves /\ OthersMove
<1>1. ASSUME UNCHANGED leadVars PROVE OthersMove
  <2>1. stopper' = stopper /\ settler' = settler /\ proof' = proof
    BY <1>1 DEF leadVars
  <2>2. /\ settler \in {Settled} \cup (0 .. Len(ledger))
        /\ DOMAIN ledger = 1 .. Len(ledger) /\ Len(ledger) \in Nat
        /\ DOMAIN ledger' = 1 .. Len(ledger') /\ Len(ledger') \in Nat
    BY LedgerGrows DEF RunInv, TypeOK
  <2>3. settler \in DOMAIN ledger' => settler \in DOMAIN ledger
    <3>1. CASE settler = Settled
      BY <2>2, <3>1 DEF Settled
    <3>2. CASE settler \in 0 .. Len(ledger)
      BY <2>2, <3>2
    <3> QED
      BY <2>2, <3>1, <3>2
  <2> QED
    BY <2>1, <2>3 DEF OthersMove
<1>2. CASE LeaseAges \/ UNCHANGED vars
  <2>1. UNCHANGED <<runner, plan, worker>> /\ UNCHANGED leadVars
    BY <1>2 DEF LeaseAges, vars, runVars
  <2>2. FirstMoves
    BY <2>1 DEF FirstMoves, At
  <2> QED
    BY <1>1, <2>1, <2>2
<1>3. ASSUME NEW r \in Runners, RunnerStep(r) PROVE FirstMoves /\ OthersMove
  <2>1. FirstStep
    BY <1>3, OnlyFirstSteps
  <2>2. UNCHANGED leadVars
    BY <2>1 DEF FirstStep, WindUp, StreamEnds, CheckEnded, CheckBeforePackaging, AdoptOrGoOn, Score, Note,
                Package, ClaimTerminal, Cleanup, Verify, Exit, Interrupt, AbortClaim, WorkerEnds, Crash,
                Heartbeat
  <2> QED
    BY <1>1, <2>1, <2>2, FirstStepMoves
<1>4. CASE LeadStep
  BY <1>4, LeadStepMoves
<1> QED
  BY <1>2, <1>3, <1>4 DEF Next

(* Nobody else ever moves. *)
LEMMA AloneStep ==
    ASSUME SoleRunner, RunInv, Alone, Witnessed, [Next]_vars
    PROVE  Alone'
<1> USE RunnersAssumption
<1>0. /\ runner \in [Runners -> Places] /\ First \in Runners /\ Nobody \notin Runners
      /\ worker \in [Runners -> {"alive", "gone"}]
      /\ aborting \in [Runners -> {"no", "killing", "done"}]
      /\ Alone
  BY DEF RunInv, TypeOK
<1>1. Of(ledger', "rerun") = {}
  <2>1. \A i \in New : ledger'[i].type # "rerun"
    BY StepContributes DEF Contributes, Contribution
  <2> QED
    BY <2>1, OfGrows DEF Alone
<1>2. CASE LeaseAges \/ UNCHANGED vars
  <2>1. UNCHANGED <<runner, worker, aborting, host, lease, target>>
    BY <1>2 DEF LeaseAges, vars, runVars, leadVars, leaseVars
  <2> QED
    BY <1>0, <1>1, <2>1 DEF Alone, Alive, At
<1>3. ASSUME NEW r \in Runners, RunnerStep(r) PROVE Alone'
  <2> USE DEF Go
  <2>1. FirstStep
    BY <1>3, OnlyFirstSteps
  <2>2. host' = host /\ target' = target
    BY <2>1 DEF FirstStep, WindUp, StreamEnds, CheckEnded, CheckBeforePackaging, AdoptOrGoOn, Score, Note,
                Package, ClaimTerminal, Cleanup, Verify, Exit, Interrupt, AbortClaim, WorkerEnds, Crash,
                Heartbeat, leadVars, runVars
  <2>3. \A s \in Runners \ {First} :
          runner'[s] = runner[s] /\ worker'[s] = worker[s] /\ aborting'[s] = aborting[s]
    <3>1. CASE StreamEnds(First) \/ CheckEnded(First) \/ CheckBeforePackaging(First) \/ Score(First)
               \/ Note(First) \/ Package(First) \/ ClaimTerminal(First) \/ Verify(First) \/ Exit(First)
               \/ Crash(First)
      <4>1. worker' = worker /\ aborting' = aborting /\ \E place : runner' = [runner EXCEPT ![First] = place]
        BY <3>1 DEF StreamEnds, CheckEnded, CheckBeforePackaging, AdoptOrGoOn, Score, Note,
                    Package, ClaimTerminal, Verify, Exit, Crash
      <4> QED
        BY <1>0, <4>1
    <3>2. CASE Cleanup(First)
      BY <1>0, <3>2 DEF Cleanup
    <3>3. CASE Interrupt(First)
      BY <1>0, <3>3 DEF Interrupt
    <3>4. CASE AbortClaim(First)
      BY <1>0, <3>4 DEF AbortClaim
    <3>5. CASE WorkerEnds(First)
      BY <1>0, <3>5 DEF WorkerEnds
    <3>6. CASE Heartbeat(First)
      BY <3>6 DEF Heartbeat, runVars
    <3> QED
      BY <2>1, <3>1, <3>2, <3>3, <3>4, <3>5, <3>6 DEF FirstStep, WindUp
  <2>4. At' \notin {"idle", "scanned", "spawned", "respawned"}
    BY <1>0, <2>1 DEF Alone, At, FirstStep, WindUp, StreamEnds, CheckEnded, CheckBeforePackaging, AdoptOrGoOn,
                Score, Note, Package, ClaimTerminal, Cleanup, Verify, Exit, Interrupt, AbortClaim, WorkerEnds,
                Crash, Heartbeat, runVars
  <2>5. Alive(First)' => lease' = First
    <3>1. CASE Exit(First)
      BY <1>0, <3>1 DEF Exit, Alive
    <3>2. CASE Heartbeat(First)
      BY <3>2 DEF Heartbeat
    <3>3. CASE Crash(First)
      BY <1>0, <3>3 DEF Crash, Alive
    <3>4. CASE ~ (Exit(First) \/ Heartbeat(First) \/ Crash(First))
      <4>1. lease' = lease
        BY <2>1, <3>4 DEF FirstStep, WindUp, StreamEnds, CheckEnded, CheckBeforePackaging, AdoptOrGoOn, Score,
                    Note, Package, ClaimTerminal, Cleanup, Verify, Interrupt, AbortClaim, WorkerEnds, leaseVars
      <4>2. At' = At \/ Alive(First)
        BY <1>0, <2>1, <3>4 DEF At, Alive, FirstStep, WindUp, StreamEnds, CheckEnded, CheckBeforePackaging,
                    AdoptOrGoOn, Score, Note, Package, ClaimTerminal, Cleanup, Verify, Interrupt, AbortClaim,
                    WorkerEnds
      <4> QED
        BY <1>0, <4>1, <4>2 DEF Alone, Alive, At
    <3> QED
      BY <3>1, <3>2, <3>3, <3>4
  <2> QED
    BY <1>0, <1>1, <2>2, <2>3, <2>4, <2>5 DEF Alone
<1>4. CASE LeadStep
  <2>1. UNCHANGED <<runner, aborting, host, lease>>
    BY <1>4 DEF LeadStep, StopRead, StopClaim, StopKill, SettleProve, SettleClaim, Prove, RecoverClaim,
           RepackageRejected, CreateRecovered, RecordRecovered, Request, CompleteLink, Decide, runVars, leaseVars
  <2>2. worker' = worker \/ worker' = [worker EXCEPT ![First] = "gone"]
    BY <1>0, <1>4 DEF Alone, LeadStep, StopRead, StopClaim, StopKill, SettleProve, SettleClaim, Prove,
           RecoverClaim, RepackageRejected, CreateRecovered, RecordRecovered, Request, CompleteLink, Decide, runVars
  <2>3. target' = First
    <3>1. NamedRunner(ledger) = First
      BY DEF Alone, NamedRunner
    <3> QED
      BY <1>0, <1>4, <3>1 DEF Alone, LeadStep, StopRead, StopClaim, StopKill, SettleProve, SettleClaim, Prove,
           RecoverClaim, RepackageRejected, CreateRecovered, RecordRecovered, Request, CompleteLink, Decide,
           leadVars
  <2> QED
    BY <1>0, <1>1, <2>1, <2>2, <2>3 DEF Alone, Alive, At
<1> QED
  BY <1>2, <1>3, <1>4 DEF Next

-----------------------------------------------------------------------------
(* What holds of a run with one runner. *)

(* A delivery or its failure is on record only once the run has ended and   *)
(* its runner claims, packages and notes nothing more.                      *)
Paced ==
    /\ Of(ledger, "delivery_created") \cup Of(ledger, "delivery_failed") # {} =>
         TerminalChanges(ledger) # {} /\ At \in Past
    /\ EndedAs(ledger, "failed") \/ EndedAs(ledger, "completed") => At \in Past
    /\ EndedFor(ledger, "process_missing") => FirstGone
    /\ EndedAs(ledger, "completed") => Of(ledger, "delivery_failed") = {}
    /\ Of(ledger, "stop_verified") # {} =>
         worker[First] = "gone" /\ (EndedAs(ledger, "aborted") \/ At \in AfterCleanup)

(* The runner goes on to verify what it completed, and nobody else does.    *)
Verifies ==
    /\ plan[First] = "verify" => At \in Past
    /\ At = "verify" => plan[First] = "verify"
    /\ plan[First] = "verify" /\ At \in {"cleanup", "verify"} =>
         EndedAs(ledger, "completed") /\ Of(ledger, "verification") = {}

(* Facts that are on record once at most, and what they rest on.            *)
Recorded ==
    /\ OnceAtMost("delivery_created") /\ OnceAtMost("delivery_failed") /\ OnceAtMost("delivery_repackaged")
    /\ OnceAtMost("process_missing_confirmed") /\ OnceAtMost("verification") /\ OnceAtMost("decision")
    /\ Of(ledger, "delivery_repackaged") # {} =>
         ValidProvenance(ledger) /\ Of(ledger, "delivery_created") # {}
    /\ Of(ledger, "verification") # {} =>
         EndedAs(ledger, "completed") \/ Of(ledger, "delivery_repackaged") # {}
    /\ Of(ledger, "process_missing_confirmed") # {} => EndedFor(ledger, "process_missing")

(* All of it.                                                               *)
SoleInv == Alone /\ Witnessed /\ Paced /\ Verifies /\ Recorded

-----------------------------------------------------------------------------
(* What is on record stays. *)
LEMMA Kept ==
    ASSUME RunInv, [Next]_vars
    PROVE  /\ \A value : EndedAs(ledger, value) => EndedAs(ledger', value)
           /\ \A reason : EndedFor(ledger, reason) => EndedFor(ledger', reason)
           /\ \A type : Of(ledger, type) # {} => Of(ledger', type) # {}
<1>1. \A i \in TerminalChanges(ledger) : i \in TerminalChanges(ledger') /\ ledger'[i] = ledger[i]
  BY OfGrows, LedgerGrows DEF TerminalChanges, Of
<1> QED
  BY <1>1, OfGrows DEF EndedAs, EndedFor

(* What comes to be is new. *)
LEMMA Came ==
    ASSUME RunInv, [Next]_vars
    PROVE  /\ \A value : EndedAs(ledger', value) /\ ~ EndedAs(ledger, value) =>
                \E i \in New : ledger'[i].type = "state_change" /\ ledger'[i].value = value
           /\ \A reason : EndedFor(ledger', reason) /\ ~ EndedFor(ledger, reason) =>
                \E i \in New : /\ ledger'[i].type = "state_change"
                               /\ ledger'[i].value = "failed" /\ ledger'[i].note = reason
           /\ \A type : Of(ledger', type) # {} /\ Of(ledger, type) = {} =>
                \E i \in New : ledger'[i].type = type
<1>1. \A i \in TerminalChanges(ledger) : ledger'[i] = ledger[i]
  BY LedgerGrows DEF TerminalChanges, Of
<1>2. \A i \in TerminalChanges(ledger') :
        \/ i \in TerminalChanges(ledger)
        \/ i \in New /\ ledger'[i].type = "state_change"
  BY OfGrows
<1> QED
  BY <1>1, <1>2, OfGrows DEF EndedAs, EndedFor

(* The one terminal state change.                                           *)
LEMMA OneEnd ==
    ASSUME RunInv, NEW i \in TerminalChanges(ledger)
    PROVE  /\ Max(TerminalChanges(ledger)) = i
           /\ TerminalChanges(ledger) = {i}
           /\ \A value : EndedAs(ledger, value) <=> ledger[i].value = value
           /\ ClaimedTerminal(ledger) = ledger[i].value
<1>1. TerminalChanges(ledger) = {i}
  BY DEF RunInv, AtMostOneTerminal
<1>2. i \in Int
  BY LenProperties DEF TerminalChanges, Of, RunInv, TypeOK
<1>3. Max(TerminalChanges(ledger)) = i
  BY <1>1, <1>2 DEF Max
<1> QED
  BY <1>1, <1>3 DEF EndedAs, ClaimedTerminal

(* What a recovery kind says of the run.                                    *)
LEMMA KindMeans ==
    ASSUME RunInv, SoleInv
    PROVE  /\ RecoveryKind(ledger) # "none" =>
                /\ TerminalChanges(ledger) # {} /\ At \in Past
                /\ ~ EndedAs(ledger, "completed")
           /\ RecoveryKind(ledger) = "process_missing" => Of(ledger, "process_missing_confirmed") # {}
           /\ RecoveryKind(ledger) = "backend_failed" =>
                /\ Of(ledger, "stop_verified") # {}
                /\ EndedAs(ledger, "failed") /\ ~ EndedAs(ledger, "aborted")
<1> DEFINE failures == Of(ledger, "delivery_failed")
           changes == TerminalChanges(ledger)
           change == ledger[Max(changes)]
<1>1. Cardinality(changes) = 1 /\ change.value = "failed" =>
        /\ EndedAs(ledger, "failed") /\ ~ EndedAs(ledger, "completed") /\ ~ EndedAs(ledger, "aborted")
        /\ changes # {}
  <2> SUFFICES ASSUME Cardinality(changes) = 1, change.value = "failed"
               PROVE  /\ EndedAs(ledger, "failed") /\ ~ EndedAs(ledger, "completed")
                      /\ ~ EndedAs(ledger, "aborted") /\ changes # {}
    OBVIOUS
  <2>1. changes # {}
    BY Singles
  <2>2. PICK i \in changes : TRUE
    BY <2>1
  <2> QED
    BY <2>1, <2>2, OneEnd
<1>2. Cardinality(failures) = 1 => failures # {}
  BY Singles
<1>3. failures # {} => At \in Past /\ changes # {} /\ ~ EndedAs(ledger, "completed")
  BY DEF SoleInv, Paced
<1>4. EndedAs(ledger, "failed") => At \in Past
  BY DEF SoleInv, Paced
<1>5. OneOf(ledger, "process_missing_confirmed") => Of(ledger, "process_missing_confirmed") # {}
  BY Singles DEF OneOf
<1> QED
  <2> HIDE DEF failures, changes
  <2> QED
    BY <1>1, <1>2, <1>3, <1>4, <1>5 DEF RecoveryKind, failures, changes

(* It never changes once there is one.                                      *)
LEMMA KindStays ==
    ASSUME SoleRunner, RunInv, SoleInv, [Next]_vars, RecoveryKind(ledger) # "none"
    PROVE  RecoveryKind(ledger') = RecoveryKind(ledger)
<1> DEFINE changes == TerminalChanges(ledger)
<1>0. /\ changes # {} /\ At \in Past /\ ~ Claims
      /\ RecoveryKind(ledger) = "backend_failed" =>
           /\ Of(ledger, "stop_verified") # {}
           /\ EndedAs(ledger, "failed") /\ ~ EndedAs(ledger, "aborted")
  BY KindMeans DEF Claims, Past, AfterCleanup
<1>1. \A i \in New : Contribution(i)
  BY StepContributes DEF Contributes, SoleInv
<1>2. ASSUME NEW i \in New
      PROVE  /\ ledger'[i].type \notin {"state_change", "isolation_violation", "budget_exceeded", "aborted",
                                        "scorecard_checked", "delivery_failed", "process_missing_confirmed"}
             /\ RecoveryKind(ledger) = "backend_failed" => ledger'[i].type # "stop_unverified"
  <2>1. Contribution(i)
    BY <1>1
  <2>2. ledger'[i].type \notin {"state_change", "isolation_violation", "aborted", "delivery_failed",
                                "process_missing_confirmed"}
    BY <1>0, <2>1 DEF Contribution
  <2>3. ledger'[i].type \notin {"budget_exceeded", "scorecard_checked"}
    BY <1>0, <2>1 DEF Contribution, Past, AfterCleanup
  <2>4. RecoveryKind(ledger) = "backend_failed" => stopper # "killing" /\ At # "cleanup"
    BY <1>0 DEF SoleInv, Witnessed, Paced, AfterCleanup
  <2>5. RecoveryKind(ledger) = "backend_failed" => ledger'[i].type # "stop_unverified"
    BY <2>1, <2>4 DEF Contribution
  <2> QED
    BY <2>2, <2>3, <2>5
<1>3. /\ TerminalChanges(ledger') = changes
      /\ Of(ledger', "delivery_failed") = Of(ledger, "delivery_failed")
      /\ Of(ledger', "process_missing_confirmed") = Of(ledger, "process_missing_confirmed")
      /\ RecoveryKind(ledger) = "backend_failed" =>
           Of(ledger', "stop_unverified") = Of(ledger, "stop_unverified")
      /\ Of(ledger, "stop_verified") # {} => Of(ledger', "stop_verified") # {}
  BY <1>2, OfGrows
<1>4. \A i \in DOMAIN ledger : i \in DOMAIN ledger' /\ ledger'[i] = ledger[i]
  BY LedgerGrows
<1>5. ledger'[Max(changes)] = ledger[Max(changes)]
  <2>1. PICK i \in changes : TRUE
    BY <1>0
  <2>2. Max(changes) \in DOMAIN ledger
    BY <2>1, OneEnd DEF TerminalChanges, Of
  <2> QED
    BY <1>4, <2>2
<1>6. Conflict(ledger') <=> Conflict(ledger)
  BY <1>2, <1>4 DEF Conflict, New
<1>7. \A i \in Of(ledger, "delivery_failed") : ledger'[i] = ledger[i]
  BY <1>4 DEF Of
<1> QED
  <2> HIDE DEF changes
  <2> DEFINE c == ledger[Max(changes)]
             f == Of(ledger, "delivery_failed")
             m == Of(ledger, "process_missing_confirmed")
  <2> HIDE DEF c, f, m
  <2>1. RecoveryKind(ledger) =
          CASE Cardinality(f) = 1 /\ (\A i \in f : ledger[i].value = "disallowed_path") -> "disallowed_scope"
            [] /\ f = {} /\ Cardinality(changes) = 1 /\ c.value = "failed"
               /\ c.note \in {"process_missing"} /\ ~ Conflict(ledger)
               /\ Cardinality(m) = 1 -> "process_missing"
            [] /\ f = {} /\ Cardinality(changes) = 1 /\ c.value = "failed"
               /\ c.note \in {"backend_error", "backend_stream_ended"} /\ ~ Conflict(ledger)
               /\ Of(ledger, "stop_verified") # {} /\ Of(ledger, "stop_unverified") = {} -> "backend_failed"
            [] OTHER -> "none"
    BY DEF RecoveryKind, OneOf, c, f, m, changes
  <2>2. RecoveryKind(ledger') =
          CASE Cardinality(f) = 1 /\ (\A i \in f : ledger[i].value = "disallowed_path") -> "disallowed_scope"
            [] /\ f = {} /\ Cardinality(changes) = 1 /\ c.value = "failed"
               /\ c.note \in {"process_missing"} /\ ~ Conflict(ledger)
               /\ Cardinality(m) = 1 -> "process_missing"
            [] /\ f = {} /\ Cardinality(changes) = 1 /\ c.value = "failed"
               /\ c.note \in {"backend_error", "backend_stream_ended"} /\ ~ Conflict(ledger)
               /\ Of(ledger', "stop_verified") # {} /\ Of(ledger', "stop_unverified") = {} -> "backend_failed"
            [] OTHER -> "none"
    BY <1>3, <1>5, <1>6, <1>7 DEF RecoveryKind, OneOf, c, f, m
  <2>3. CASE RecoveryKind(ledger) = "backend_failed"
    <3>1. Of(ledger', "stop_verified") # {} /\ Of(ledger', "stop_unverified") = Of(ledger, "stop_unverified")
      BY <1>0, <1>3, <2>3
    <3> QED
      BY <1>0, <2>1, <2>2, <2>3, <3>1
  <2>4. CASE RecoveryKind(ledger) # "backend_failed"
    BY <2>1, <2>2, <2>4
  <2> QED
    BY <2>3, <2>4

(* A run that has just started has nothing on record but its state.         *)
LEMMA SoleInit == SoleRunner /\ Init => SoleInv
<1> SUFFICES ASSUME SoleRunner, Init PROVE SoleInv
  OBVIOUS
<1> USE RunnersAssumption DEF At
<1>1. /\ \A type : type # "state_change" => Of(ledger, type) = {}
      /\ TerminalChanges(ledger) = {}
  <2>1. Len(ledger) = 1 /\ ledger[1] = Event("state_change", "running", "first_event") /\ DOMAIN ledger = {1}
    BY DEF Init
  <2> QED
    BY <2>1 DEF Of, TerminalChanges, TerminalStates, Event
<1>2. /\ runner[First] = "polling" /\ plan[First] = "none"
      /\ \A r \in Runners \ {First} : runner[r] = "idle" /\ worker[r] = "gone" /\ aborting[r] = "no"
      /\ host[First] = "background" /\ lease = First /\ target = First
      /\ \A q \in Recoverers : proof[q] = "none"
      /\ stopper = "idle" /\ settler = 0
  BY DEF Init, SoleRunner
<1>3. settler \notin DOMAIN ledger
  BY <1>2 DEF Init
<1>4. Alone
  BY <1>1, <1>2 DEF Alone, Alive
<1>5. Witnessed
  BY <1>2, <1>3 DEF Witnessed
<1>6. Paced
  BY <1>1 DEF Paced, EndedAs, EndedFor
<1>7. Verifies
  BY <1>2 DEF Verifies
<1>8. Recorded
  BY <1>1 DEF Recorded, OnceAtMost
<1> QED
  BY <1>4, <1>5, <1>6, <1>7, <1>8 DEF SoleInv

(* What was shown of the runner stays so. *)
LEMMA WitnessedStep ==
    ASSUME SoleRunner, RunInv, SoleInv, [Next]_vars
    PROVE  (FirstGone => FirstGone') /\ Witnessed'
<1>1. FirstMoves /\ OthersMove
  BY StepMoves DEF SoleInv
<1>2. FirstGone => FirstGone'
  BY <1>1 DEF FirstMoves, FirstGone
<1> QED
  BY <1>1, <1>2, Kept DEF OthersMove, SoleInv, Witnessed

(* Deliveries and ends go on record in pace with the runner.                *)
LEMMA PacedStep ==
    ASSUME SoleRunner, RunInv, SoleInv, [Next]_vars
    PROVE  Paced'
<1>0. /\ FirstMoves
      /\ \A i \in New : Contribution(i)
      /\ Claims => TerminalChanges(ledger') # {}
      /\ TerminalChanges(ledger) # {} => TerminalChanges(ledger') # {}
  BY StepMoves, StepContributes, OfGrows DEF SoleInv, Contributes
<1>p. Paced
  BY DEF SoleInv
<1>1. /\ At \in Past => At' \in Past
      /\ Claims => At' \in Past /\ At \notin Past
      /\ FirstGone => At \in Past
  BY <1>0 DEF FirstMoves, Claims, Past, AfterCleanup, Gone, FirstGone
<1>2. ASSUME Of(ledger', "delivery_created") \cup Of(ledger', "delivery_failed") # {}
      PROVE  TerminalChanges(ledger') # {} /\ At' \in Past
  <2>1. CASE Of(ledger, "delivery_created") \cup Of(ledger, "delivery_failed") # {}
    BY <1>0, <1>1, <1>p, <2>1 DEF Paced
  <2>2. CASE Of(ledger, "delivery_created") \cup Of(ledger, "delivery_failed") = {}
    <3>1. PICK i \in New : ledger'[i].type \in {"delivery_created", "delivery_failed"}
      BY <1>2, <2>2, Came
    <3>2. Claims \/ RecoveryKind(ledger) # "none"
      BY <1>0, <3>1 DEF Contribution
    <3> QED
      BY <1>0, <1>1, <3>2, KindMeans
  <2> QED
    BY <2>1, <2>2
<1>3. ASSUME EndedAs(ledger', "failed") \/ EndedAs(ledger', "completed") PROVE At' \in Past
  <2>1. CASE EndedAs(ledger, "failed") \/ EndedAs(ledger, "completed")
    BY <1>1, <1>p, <2>1 DEF Paced
  <2>2. CASE ~ (EndedAs(ledger, "failed") \/ EndedAs(ledger, "completed"))
    <3>1. PICK i \in New : ledger'[i].type = "state_change" /\ ledger'[i].value \in {"failed", "completed"}
      BY <1>3, <2>2, Came
    <3>2. Claims \/ FirstGone
      BY <1>0, <3>1 DEF Contribution
    <3> QED
      BY <1>1, <3>2
  <2> QED
    BY <2>1, <2>2
<1>4. ASSUME EndedFor(ledger', "process_missing") PROVE FirstGone'
  <2>1. CASE EndedFor(ledger, "process_missing")
    BY <1>p, <2>1, WitnessedStep DEF Paced
  <2>2. CASE ~ EndedFor(ledger, "process_missing")
    <3>1. PICK i \in New : /\ ledger'[i].type = "state_change"
                           /\ ledger'[i].value = "failed" /\ ledger'[i].note = "process_missing"
      BY <1>4, <2>2, Came
    <3>2. FirstGone
      BY <1>0, <3>1 DEF Contribution
    <3> QED
      BY <3>2, WitnessedStep
  <2> QED
    BY <2>1, <2>2
<1>5. ASSUME EndedAs(ledger', "completed") PROVE Of(ledger', "delivery_failed") = {}
  <2>0. EndedAs(ledger, "completed") => At \in Past
    BY <1>p DEF Paced
  <2>1. CASE EndedAs(ledger, "completed")
    <3>1. \A i \in New : ledger'[i].type # "delivery_failed"
      BY <1>0, <1>1, <2>0, <2>1 DEF Contribution
    <3> QED
      BY <1>p, <2>1, <3>1, OfGrows DEF Paced
  <2>2. CASE ~ EndedAs(ledger, "completed")
    <3>1. PICK i \in New : ledger'[i].type = "state_change" /\ ledger'[i].value = "completed"
      BY <1>5, <2>2, Came
    <3>2. Claims /\ plan[First] = "created"
      BY <1>0, <3>1 DEF Contribution
    <3>3. "created" \notin PackageFailures
      BY DEF PackageFailures
    <3>4. \A j \in New : ledger'[j].type # "delivery_failed"
      BY <1>0, <3>2, <3>3 DEF Contribution
    <3>5. Of(ledger, "delivery_failed") = {}
      BY <1>1, <1>p, <3>2 DEF Paced
    <3> QED
      BY <3>4, <3>5, OfGrows
  <2> QED
    BY <2>1, <2>2
<1>6. ASSUME Of(ledger', "stop_verified") # {}
      PROVE  worker'[First] = "gone" /\ (EndedAs(ledger', "aborted") \/ At' \in AfterCleanup)
  <2>1. CASE Of(ledger, "stop_verified") # {}
    BY <1>0, <1>p, <2>1, Kept DEF Paced, FirstMoves
  <2>2. CASE Of(ledger, "stop_verified") = {}
    <3>1. PICK i \in New : ledger'[i].type = "stop_verified"
      BY <1>6, <2>2, Came
    <3>2. worker'[First] = "gone" /\ (stopper = "killing" \/ At' \in AfterCleanup)
      BY <1>0, <3>1 DEF Contribution
    <3>3. stopper = "killing" => EndedAs(ledger', "aborted")
      BY Kept DEF SoleInv, Witnessed
    <3> QED
      BY <3>2, <3>3
  <2> QED
    BY <2>1, <2>2
<1> QED
  BY <1>2, <1>3, <1>4, <1>5, <1>6 DEF Paced

(* A repackaging on record has a kind.                                      *)
LEMMA RepackagedKind ==
    ASSUME RunInv, SoleInv, Of(ledger, "delivery_repackaged") # {}
    PROVE  TerminalChanges(ledger) # {} /\ ~ EndedAs(ledger, "completed")
BY KindMeans DEF SoleInv, Recorded, ValidProvenance

(* The verification the runner goes on to is the first one.                 *)
LEMMA VerifiesStep ==
    ASSUME SoleRunner, RunInv, SoleInv, [Next]_vars
    PROVE  Verifies'
<1>0. /\ FirstMoves
      /\ \A i \in New : Contribution(i)
      /\ Claims /\ plan[First] = "created" /\ TerminalChanges(ledger) = {} => EndedAs(ledger', "completed")
  BY StepMoves, StepContributes DEF SoleInv, Contributes
<1>v. Verifies
  BY DEF SoleInv
<1>1. /\ Claims => At = "claim" /\ At' = "cleanup" /\ At \notin Past /\ At' \in Past
      /\ At = "verify" => At \in Past
      /\ At = "cleanup" => At \in Past
      /\ At' = "verify" => ~ Claims
  BY DEF Claims, Past, AfterCleanup
<1>2. plan'[First] = "verify" => At' \in Past
  BY <1>0, <1>1, <1>v DEF FirstMoves, Verifies
<1>3. At' = "verify" => plan'[First] = "verify"
  BY <1>0, <1>1, <1>v DEF FirstMoves, Verifies
<1>4. ASSUME plan'[First] = "verify", At' \in {"cleanup", "verify"}
      PROVE  EndedAs(ledger', "completed") /\ Of(ledger', "verification") = {}
  <2>1. CASE Claims
    <3>1. At = "claim" /\ plan[First] = "created" /\ TerminalChanges(ledger) = {}
      BY <1>0, <1>1, <1>4, <1>v, <2>1 DEF FirstMoves, Verifies
    <3>2. Of(ledger, "delivery_repackaged") = {} /\ ~ EndedAs(ledger, "completed")
      BY <3>1, RepackagedKind DEF EndedAs
    <3>3. Of(ledger, "verification") = {}
      BY <3>2 DEF SoleInv, Recorded
    <3>4. \A i \in New : ledger'[i].type # "verification"
      BY <1>0, <3>1, <3>2 DEF Contribution
    <3> QED
      BY <1>0, <2>1, <3>1, <3>3, <3>4, OfGrows
  <2>2. CASE ~ Claims
    <3>1. At \in {"cleanup", "verify"} /\ plan[First] = "verify"
      BY <1>0, <1>1, <1>4, <1>v, <2>2 DEF FirstMoves, Verifies
    <3>2. EndedAs(ledger, "completed") /\ Of(ledger, "verification") = {}
      BY <1>v, <3>1 DEF Verifies
    <3>3. Of(ledger, "delivery_repackaged") = {}
      BY <3>2, RepackagedKind
    <3>4. \A i \in New : ledger'[i].type # "verification"
      BY <1>0, <1>4, <3>3 DEF Contribution
    <3> QED
      BY <3>2, <3>4, OfGrows, Kept
  <2> QED
    BY <2>1, <2>2
<1> QED
  BY <1>2, <1>3, <1>4 DEF Verifies

(* Something recorded only if nothing like it is on record is recorded once. *)
LEMMA StaysOnce ==
    ASSUME SoleRunner, RunInv, SoleInv, [Next]_vars, NEW type, OnceAtMost(type),
           (\E i \in New : ledger'[i].type = type) => Of(ledger, type) = {}
    PROVE  OnceAtMost(type)'
<1>1. \A i, j \in New : ledger'[i].type = ledger'[j].type => i = j
  BY StepContributes DEF SoleInv, Contributes
<1>2. \A i, j \in Of(ledger', type) : i = j
  <2>1. CASE \E i \in New : ledger'[i].type = type
    BY <1>1, <2>1, OfGrows
  <2>2. CASE ~ \E i \in New : ledger'[i].type = type
    BY <2>2, OfGrows DEF OnceAtMost
  <2> QED
    BY <2>1, <2>2
<1> QED
  BY <1>2 DEF OnceAtMost

(* Provenance stays valid. *)
LEMMA ProvenanceStays ==
    ASSUME SoleRunner, RunInv, SoleInv, [Next]_vars, Of(ledger', "delivery_repackaged") # {}
    PROVE  ValidProvenance(ledger') /\ Of(ledger', "delivery_created") # {}
<1>0. /\ \A i \in New : Contribution(i)
      /\ \A i, j \in New : ledger'[i].type = ledger'[j].type => i = j
  BY StepContributes DEF SoleInv, Contributes
<1>r. Recorded
  BY DEF SoleInv
<1>1. CASE Of(ledger, "delivery_repackaged") # {}
  <2>1. /\ RecoveryKind(ledger) # "none"
        /\ OneOf(ledger, "delivery_repackaged")
        /\ \A i \in Of(ledger, "delivery_repackaged") : ledger[i].value = RecoveryKind(ledger)
        /\ Of(ledger, "delivery_created") # {}
    BY <1>1, <1>r DEF Recorded, ValidProvenance
  <2>2. \A i \in New : ledger'[i].type # "delivery_repackaged"
    BY <1>0, <2>1 DEF Contribution
  <2>3. Of(ledger', "delivery_repackaged") = Of(ledger, "delivery_repackaged")
    BY <2>2, OfGrows
  <2>4. \A i \in Of(ledger, "delivery_repackaged") : ledger'[i] = ledger[i]
    BY LedgerGrows DEF Of
  <2> QED
    BY <2>1, <2>3, <2>4, KindStays, Kept DEF ValidProvenance, OneOf
<1>2. CASE Of(ledger, "delivery_repackaged") = {}
  <2>1. PICK i \in New : ledger'[i].type = "delivery_repackaged"
    BY <1>2, Came
  <2>2. /\ RecoveryKind(ledger) # "none"
        /\ ledger'[i].value = RecoveryKind(ledger)
        /\ Of(ledger', "delivery_created") # {}
    BY <1>0, <2>1 DEF Contribution
  <2>3. Of(ledger', "delivery_repackaged") = {i}
    BY <1>0, <1>2, <2>1, OfGrows
  <2>4. OneOf(ledger', "delivery_repackaged")
    BY <2>3, Singles DEF OneOf
  <2> QED
    BY <2>2, <2>3, <2>4, KindStays DEF ValidProvenance
<1> QED
  BY <1>1, <1>2

(* Each fact stays on record once, with what it rests on.                   *)
LEMMA RecordedStep ==
    ASSUME SoleRunner, RunInv, SoleInv, [Next]_vars
    PROVE  Recorded'
<1>0. \A i \in New : Contribution(i)
  BY StepContributes DEF SoleInv, Contributes
<1>s. Paced /\ Verifies /\ Recorded
  BY DEF SoleInv
<1>1. Claims => At \notin Past
  BY DEF Claims, Past, AfterCleanup
<1>2. OnceAtMost("delivery_created")'
  <2>1. ASSUME NEW i \in New, ledger'[i].type = "delivery_created" PROVE Of(ledger, "delivery_created") = {}
    BY <1>0, <1>1, <1>s, <2>1 DEF Contribution, Paced
  <2> QED
    BY <1>s, <2>1, StaysOnce DEF Recorded
<1>3. OnceAtMost("delivery_failed")'
  <2>1. ASSUME NEW i \in New, ledger'[i].type = "delivery_failed" PROVE Of(ledger, "delivery_failed") = {}
    BY <1>0, <1>1, <1>s, <2>1 DEF Contribution, Paced
  <2> QED
    BY <1>s, <2>1, StaysOnce DEF Recorded
<1>4. OnceAtMost("delivery_repackaged")'
  <2>1. ASSUME NEW i \in New, ledger'[i].type = "delivery_repackaged" PROVE Of(ledger, "delivery_repackaged") = {}
    BY <1>0, <1>s, <2>1 DEF Contribution, Recorded
  <2> QED
    BY <1>s, <2>1, StaysOnce DEF Recorded
<1>5. OnceAtMost("process_missing_confirmed")'
  <2>1. ASSUME NEW i \in New, ledger'[i].type = "process_missing_confirmed"
        PROVE  Of(ledger, "process_missing_confirmed") = {}
    <3>1. TerminalChanges(ledger) = {}
      BY <1>0, <2>1 DEF Contribution
    <3> QED
      BY <1>s, <3>1 DEF Recorded, EndedFor
  <2> QED
    BY <1>s, <2>1, StaysOnce DEF Recorded
<1>6. OnceAtMost("verification")'
  <2>1. ASSUME NEW i \in New, ledger'[i].type = "verification" PROVE Of(ledger, "verification") = {}
    BY <1>0, <1>s, <2>1 DEF Contribution, Verifies
  <2> QED
    BY <1>s, <2>1, StaysOnce DEF Recorded
<1>7. OnceAtMost("decision")'
  <2>1. ASSUME NEW i \in New, ledger'[i].type = "decision" PROVE Of(ledger, "decision") = {}
    BY <1>0, <2>1 DEF Contribution
  <2> QED
    BY <1>s, <2>1, StaysOnce DEF Recorded
<1>8. Of(ledger', "delivery_repackaged") # {} =>
        ValidProvenance(ledger') /\ Of(ledger', "delivery_created") # {}
  BY ProvenanceStays
<1>9. ASSUME Of(ledger', "verification") # {}
      PROVE  EndedAs(ledger', "completed") \/ Of(ledger', "delivery_repackaged") # {}
  <2>1. EndedAs(ledger, "completed") \/ Of(ledger, "delivery_repackaged") # {}
    <3>1. CASE Of(ledger, "verification") # {}
      BY <1>s, <3>1 DEF Recorded
    <3>2. CASE Of(ledger, "verification") = {}
      <4>1. PICK i \in New : ledger'[i].type = "verification"
        BY <1>9, <3>2, Came
      <4> QED
        BY <1>0, <1>s, <4>1 DEF Contribution, Verifies
    <3> QED
      BY <3>1, <3>2
  <2> QED
    BY <2>1, Kept
<1>10. ASSUME Of(ledger', "process_missing_confirmed") # {}
       PROVE  EndedFor(ledger', "process_missing")
  <2>1. CASE Of(ledger, "process_missing_confirmed") # {}
    BY <1>s, <2>1, Kept DEF Recorded
  <2>2. CASE Of(ledger, "process_missing_confirmed") = {}
    <3>1. PICK i \in New : ledger'[i].type = "process_missing_confirmed"
      BY <1>10, <2>2, Came
    <3> QED
      BY <1>0, <3>1 DEF Contribution
  <2> QED
    BY <2>1, <2>2
<1> QED
  BY <1>2, <1>3, <1>4, <1>5, <1>6, <1>7, <1>8, <1>9, <1>10 DEF Recorded

(* Every step keeps all of it.                                              *)
LEMMA SoleStep == SoleRunner /\ RunInv /\ SoleInv /\ [Next]_vars => SoleInv'
BY AloneStep, WitnessedStep, PacedStep, VerifiesStep, RecordedStep DEF SoleInv

(* All of it, of every run nobody resumes.                                  *)
LEMMA SoleInvariant == ASSUME SoleRunner PROVE Spec => []SoleInv
<1>1. Init => SoleInv
  BY SoleInit
<1>2. RunInv /\ SoleInv /\ [Next]_vars => SoleInv'
  BY SoleStep
<1> QED
  BY <1>1, <1>2, RunInvariant, PTL DEF Spec

(* Packaging by the runner and repackaging by any number of callers, each   *)
(* on a transcript read some time ago, never both put a delivery on record. *)
THEOREM OneDeliveryOnRecord ==
    ASSUME SoleRunner
    PROVE  Spec => []OneDelivery
<1>1. SoleInv => OneDelivery
  BY Singles DEF SoleInv, Recorded, OnceAtMost, OneDelivery
<1> QED
  BY <1>1, SoleInvariant, PTL

(* A verification outcome is recorded once, and for the delivery of a       *)
(* completed run or for one recovered.                                      *)
THEOREM OutcomesAreEarned ==
    ASSUME SoleRunner
    PROVE  Spec => []OutcomeIsEarned
<1>1. ASSUME RunInv, SoleInv, Of(ledger, "verification") # {}
      PROVE  /\ OneOf(ledger, "verification")
             /\ ClaimedTerminal(ledger) = "completed" \/ ValidProvenance(ledger)
  <2>1. OneOf(ledger, "verification")
    BY <1>1, Singles DEF SoleInv, Recorded, OnceAtMost, OneOf
  <2>2. CASE EndedAs(ledger, "completed")
    <3>1. PICK i \in TerminalChanges(ledger) : ledger[i].value = "completed"
      BY <2>2 DEF EndedAs
    <3> QED
      BY <1>1, <2>1, <3>1, OneEnd
  <2>3. CASE Of(ledger, "delivery_repackaged") # {}
    BY <1>1, <2>1, <2>3 DEF SoleInv, Recorded
  <2> QED
    BY <1>1, <2>2, <2>3 DEF SoleInv, Recorded
<1>2. RunInv /\ SoleInv => OutcomeIsEarned
  BY <1>1 DEF OutcomeIsEarned
<1> QED
  BY <1>2, RunInvariant, SoleInvariant, PTL

(* Nobody repackages after a backend failure or a missing process while a   *)
(* worker lives.                                                            *)
THEOREM NoWorkerIsLeft ==
    ASSUME SoleRunner
    PROVE  Spec => RecoveredWorkersGone
<1> DEFINE NewlyPackaged == Of(ledger', "delivery_repackaged") \ Of(ledger, "delivery_repackaged")
<1>1. ASSUME RunInv, SoleInv, [Next]_vars, NEW i \in NewlyPackaged,
             ledger'[i].value \in {"process_missing", "backend_failed"},
             NEW r \in Runners
      PROVE  worker[r] = "gone"
  <2>1. i \in New /\ ledger'[i].type = "delivery_repackaged"
    BY <1>1, OfGrows
  <2>2. Contribution(i)
    BY <1>1, <2>1, StepContributes DEF SoleInv, Contributes
  <2>3. RecoveryKind(ledger) \in {"process_missing", "backend_failed"}
    BY <1>1, <2>1, <2>2 DEF Contribution
  <2>4. worker[First] = "gone"
    <3>1. CASE RecoveryKind(ledger) = "process_missing"
      BY <1>1, <3>1, KindMeans DEF SoleInv, Recorded, Paced, FirstGone
    <3>2. CASE RecoveryKind(ledger) = "backend_failed"
      BY <1>1, <3>2, KindMeans DEF SoleInv, Paced
    <3> QED
      BY <2>3, <3>1, <3>2
  <2> QED
    BY <1>1, <2>4 DEF SoleInv, Alone
<1>2. RunInv /\ SoleInv /\ [Next]_vars
        => [\A i \in NewlyPackaged : ledger'[i].value \in {"process_missing", "backend_failed"} =>
              \A r \in Runners : worker[r] = "gone"]_vars
  BY <1>1
<1> QED
  BY <1>2, RunInvariant, SoleInvariant, PTL DEF Spec, RecoveredWorkersGone

-----------------------------------------------------------------------------
(* Decisions. *)

(* The run starts, and changes its state once more when it ends.            *)
StartsAndEnds ==
    /\ 1 \in Of(ledger, "state_change")
    /\ Of(ledger, "state_change") = {1} \cup TerminalChanges(ledger)

(* Only a verification that failed is ever verified again.                  *)
Requested ==
    /\ Of(ledger, "reverify_requested") = {} =>
         Chain(ledger) = EmptyChain /\ Of(ledger, "reverify_outcome") = {}
    /\ Of(ledger, "reverify_requested") # {} =>
         \E v \in Of(ledger, "verification") : ledger[v].value = "failed"

(* A decision rests on facts that validate, an acceptance on facts that can *)
(* be accepted and that nothing is about to change.                         *)
Decided ==
    /\ Of(ledger, "decision") # {} => FactsVerdict(ledger) = "valid"
    /\ \A d \in Of(ledger, "decision") :
         ledger[d].value = "accepted" => Chain(ledger).open = "none" /\ Acceptable(ledger)

(* All of it.                                                               *)
DecisionInv == StartsAndEnds /\ Requested /\ Decided

(* When a step may open or complete a link.                                 *)
LEMMA NewLinks ==
    ASSUME RunInv, [Next]_vars, NEW i \in New
    PROVE  /\ ledger'[i].type = "reverify_requested" => Of(ledger, "decision") = {}
           /\ ledger'[i].type = "reverify_outcome" => Chain(ledger).open # "none"
<1>1. ledger' # ledger
  BY DEF New
<1>2. PICK batch : Batch(batch) /\ ledger' = ledger \o batch
  BY <1>1, NextAppends DEF AppendsOrNot, Appends
<1>3. i - Len(ledger) \in DOMAIN batch /\ ledger'[i] = batch[i - Len(ledger)]
  BY <1>2, GrownLedger DEF RunInv, New
<1> QED
  BY <1>2, <1>3 DEF Batch

(* No link opened or completed: the chain stays.                            *)
LEMMA ChainStays ==
    ASSUME RunInv, [Next]_vars,
           \A i \in New : ledger'[i].type \notin {"reverify_requested", "reverify_outcome"}
    PROVE  /\ Chain(ledger') = Chain(ledger)
           /\ Of(ledger', "reverify_requested") = Of(ledger, "reverify_requested")
           /\ Of(ledger', "reverify_outcome") = Of(ledger, "reverify_outcome")
<1>1. /\ Len(ledger) \in Nat /\ Len(ledger') \in Nat /\ Len(ledger) <= Len(ledger')
      /\ DOMAIN ledger = 1 .. Len(ledger) /\ DOMAIN ledger' = 1 .. Len(ledger')
      /\ \A i \in DOMAIN ledger : ledger'[i] = ledger[i]
  BY LedgerGrows
<1>2. \A i \in Len(ledger) + 1 .. Len(ledger') : i \in New
  BY <1>1 DEF New
<1>3. \A i \in Len(ledger) + 1 .. Len(ledger') :
        ledger'[i].type \notin {"reverify_requested", "reverify_outcome"}
  BY <1>2
<1>4. \A i \in 1 .. Len(ledger) : ledger'[i] = ledger[i]
  BY <1>1
<1>5. Len(ledger) \in Nat /\ Len(ledger') \in Nat /\ Len(ledger) <= Len(ledger')
  BY <1>1
<1>6. Chain(ledger') = Chain(ledger)
  BY ONLY <1>3, <1>4, <1>5, ChainIgnores
<1> QED
  BY <1>6, OfGrows

(* The state of a run that has ended.                                       *)
LEMMA EndedState ==
    ASSUME NEW events, NEW i \in Int, i >= 1,
           Of(events, "state_change") = {1, i}, events[i].value \in TerminalStates
    PROVE  FindState(events) = events[i].value
<1>1. Max({1, i}) = i
  BY DEF Max
<1> QED
  BY <1>1 DEF FindState

(* What a step leaves of a delivery on record.                              *)
LEMMA DeliveryStays ==
    ASSUME SoleRunner, RunInv, SoleInv, StartsAndEnds, [Next]_vars, Of(ledger, "delivery_created") # {}
    PROVE  /\ Of(ledger', "delivery_created") = Of(ledger, "delivery_created")
           /\ Of(ledger', "delivery_failed") = Of(ledger, "delivery_failed")
           /\ TerminalChanges(ledger) # {}
           /\ TerminalChanges(ledger') = TerminalChanges(ledger)
           /\ Of(ledger', "state_change") = Of(ledger, "state_change")
           /\ Of(ledger, "verification") # {} =>
                /\ Of(ledger', "verification") = Of(ledger, "verification")
                /\ OriginalStatus(ledger') = OriginalStatus(ledger)
<1>1. TerminalChanges(ledger) # {} /\ At \in Past
  BY DEF SoleInv, Paced
<1>2. \A i \in New : Contribution(i)
  BY StepContributes DEF SoleInv, Contributes
<1>3. ~ Claims
  BY <1>1 DEF Claims, Past, AfterCleanup
<1>4. \A i \in New : ledger'[i].type \notin {"delivery_created", "delivery_failed", "state_change"}
  BY <1>1, <1>2, <1>3 DEF Contribution
<1>5. ASSUME Of(ledger, "verification") # {}
      PROVE  /\ Of(ledger', "verification") = Of(ledger, "verification")
             /\ OriginalStatus(ledger') = OriginalStatus(ledger)
  <2>1. PICK v \in Of(ledger, "verification") : TRUE
    BY <1>5
  <2>2. \A x, y \in Of(ledger', "verification") : x = y
    BY RecordedStep DEF Recorded, OnceAtMost
  <2>3. Of(ledger, "verification") = {v} /\ Of(ledger', "verification") = {v}
    BY <2>1, <2>2, OfGrows
  <2>4. v \in Int /\ ledger'[v] = ledger[v]
    BY <2>1, LedgerGrows DEF Of
  <2>5. Min({v}) = v
    BY <2>4 DEF Min
  <2> QED
    BY <2>3, <2>4, <2>5 DEF OriginalStatus
<1> QED
  BY <1>1, <1>4, <1>5, OfGrows

(* Nothing to run was declared, and nothing is run.                         *)
LEMMA UnverifiableStays ==
    ASSUME SoleRunner, RunInv, SoleInv, StartsAndEnds, [Next]_vars, Of(ledger, "delivery_created") # {},
           \A i \in New : ledger'[i].type \notin {"reverify_requested", "reverify_outcome"},
           DeclaredUnverifiable(ledger)
    PROVE  DeclaredUnverifiable(ledger')
<1>1. Of(ledger, "verification") # {}
  BY Singles DEF DeclaredUnverifiable, OneOf
<1>2. \A i \in Of(ledger, "delivery_created") : ledger'[i] = ledger[i]
  BY LedgerGrows DEF Of
<1> QED
  BY <1>1, <1>2, DeliveryStays, ChainStays DEF DeclaredUnverifiable, OneOf

(* What is acceptable stays acceptable as long as no link is opened or      *)
(* completed.                                                               *)
LEMMA AcceptableStays ==
    ASSUME SoleRunner, RunInv, SoleInv, StartsAndEnds, [Next]_vars, Of(ledger, "delivery_created") # {},
           \A i \in New : ledger'[i].type \notin {"reverify_requested", "reverify_outcome"},
           Acceptable(ledger)
    PROVE  Acceptable(ledger')
<1>1. OriginalStatus(ledger) = "passed" => OriginalStatus(ledger') = "passed"
  <2>1. OriginalStatus(ledger) = "passed" => Of(ledger, "verification") # {}
    BY DEF OriginalStatus
  <2> QED
    BY <2>1, DeliveryStays
<1>2. DeclaredUnverifiable(ledger) => DeclaredUnverifiable(ledger')
  BY UnverifiableStays
<1>3. EffectiveStatus(ledger) = "passed" => EffectiveStatus(ledger') = "passed"
  <2>1. ChainStatus(ledger') = ChainStatus(ledger)
    BY ChainStays DEF ChainStatus
  <2>2. NewestComplete(ledger') = NewestComplete(ledger)
    <3> DEFINE outcomes == Of(ledger, "reverify_outcome")
    <3>1. CASE outcomes = {}
      BY <3>1, ChainStays DEF NewestComplete
    <3>2. CASE outcomes # {}
      <4>1. outcomes \in SUBSET (1 .. Len(ledger)) /\ Len(ledger) \in Nat
        BY LedgerGrows DEF Of
      <4> HIDE DEF outcomes
      <4>2. Max(outcomes) \in outcomes
        BY <3>2, <4>1, Extremes
      <4>3. ledger'[Max(outcomes)] = ledger[Max(outcomes)]
        BY <4>1, <4>2, LedgerGrows
      <4> QED
        BY <4>3, ChainStays DEF NewestComplete, outcomes
    <3> QED
      BY <3>1, <3>2
  <2> QED
    BY <1>1, <2>1, <2>2 DEF EffectiveStatus
<1>4. FindState(ledger') = FindState(ledger)
  <2>1. PICK i \in TerminalChanges(ledger) : TRUE
    BY DeliveryStays
  <2>2. i \in Int /\ i >= 1 /\ ledger[i].value \in TerminalStates /\ ledger'[i] = ledger[i]
    BY <2>1, LedgerGrows DEF TerminalChanges, Of
  <2>3. Of(ledger, "state_change") = {1, i} /\ Of(ledger', "state_change") = {1, i}
    BY <2>1, OneEnd, DeliveryStays DEF StartsAndEnds
  <2> QED
    BY <2>2, <2>3, EndedState
<1>5. ValidProvenance(ledger) => ValidProvenance(ledger')
  <2>1. ValidProvenance(ledger) => Of(ledger, "delivery_repackaged") # {}
    BY Singles DEF ValidProvenance, OneOf
  <2> QED
    BY <2>1, Kept, ProvenanceStays
<1> QED
  BY <1>1, <1>2, <1>3, <1>4, <1>5 DEF Acceptable, RecoveryAcceptable

(* What was recorded before a position.                                     *)
LEMMA BeforeStays ==
    ASSUME RunInv, [Next]_vars, NEW d \in DOMAIN ledger
    PROVE  /\ SubSeq(ledger', 1, d - 1) = SubSeq(ledger, 1, d - 1)
           /\ ledger'[d] = ledger[d]
           /\ LastChangeBefore(ledger', d) = LastChangeBefore(ledger, d)
<1>1. /\ ledger \in Seq(Events) /\ ledger' \in Seq(Events)
      /\ Len(ledger) \in Nat /\ Len(ledger') \in Nat /\ Len(ledger) <= Len(ledger')
      /\ DOMAIN ledger = 1 .. Len(ledger) /\ DOMAIN ledger' = 1 .. Len(ledger')
      /\ \A i \in DOMAIN ledger : ledger'[i] = ledger[i]
  BY LedgerGrows
<1>2. SubSeq(ledger', 1, d - 1) = SubSeq(ledger, 1, d - 1)
  <2> DEFINE s == SubSeq(ledger, 1, d - 1)
             t == SubSeq(ledger', 1, d - 1)
  <2>1. /\ s \in Seq(Events) /\ Len(s) = d - 1 /\ \A i \in 1 .. d - 1 : s[i] = ledger[i]
    BY <1>1, SubSeqProperties
  <2>2. /\ t \in Seq(Events) /\ Len(t) = d - 1 /\ \A i \in 1 .. d - 1 : t[i] = ledger'[i]
    BY <1>1, SubSeqProperties
  <2>3. \A i \in 1 .. d - 1 : ledger'[i] = ledger[i]
    BY <1>1
  <2> HIDE DEF s, t
  <2>4. s = t
    BY <2>1, <2>2, <2>3, SeqEqual
  <2> QED
    BY <2>4 DEF s, t
<1>3. LastChangeBefore(ledger', d) = LastChangeBefore(ledger, d)
  <2> DEFINE changes == {i \in Of(ledger, "state_change") : i < d}
  <2>1. \A i \in New : ~ (i < d)
    BY <1>1 DEF New
  <2>2. {i \in Of(ledger', "state_change") : i < d} = changes
    BY <2>1, OfGrows
  <2>3. CASE changes = {}
    BY <2>2, <2>3 DEF LastChangeBefore
  <2>4. CASE changes # {}
    <3>1. changes \in SUBSET (1 .. Len(ledger))
      BY <1>1 DEF Of
    <3>2. Max(changes) \in changes
      <4> HIDE DEF changes
      <4> QED
        BY <1>1, <2>4, <3>1, Extremes
    <3>3. ledger'[Max(changes)] = ledger[Max(changes)]
      BY <1>1, <3>1, <3>2
    <3> HIDE DEF changes
    <3> QED
      BY <2>2, <2>4, <3>3 DEF LastChangeBefore, changes
  <2> QED
    BY <2>3, <2>4
<1> QED
  BY <1>1, <1>2, <1>3

(* A decision that is backed stays backed, whatever is recorded after it.   *)
LEMMA BackingStays ==
    ASSUME SoleRunner, RunInv, SoleInv, DecisionInv, [Next]_vars,
           Of(ledger, "delivery_created") # {},
           NEW d \in Of(ledger, "decision"), DecisionBacked(ledger, d)
    PROVE  DecisionBacked(ledger', d)
<1> DEFINE decision == ledger[d]
           before == SubSeq(ledger, 1, d - 1)
           byOutcome == /\ \E i \in Of(ledger, "verification") : i = Min(Of(ledger, "verification")) /\ i < d
                        /\ OriginalStatus(ledger) = decision.note
           byOutcomeNow == /\ \E i \in Of(ledger', "verification") :
                                i = Min(Of(ledger', "verification")) /\ i < d
                           /\ OriginalStatus(ledger') = decision.note
<1>0. /\ \A i \in New : ledger'[i].type # "reverify_requested"
      /\ Chain(ledger).open = "none" =>
           \A i \in New : ledger'[i].type \notin {"reverify_requested", "reverify_outcome"}
  BY NewLinks
<1>1. /\ SubSeq(ledger', 1, d - 1) = before
      /\ ledger'[d] = decision
      /\ LastChangeBefore(ledger', d) = LastChangeBefore(ledger, d)
  BY BeforeStays DEF Of
<1>2. byOutcome => byOutcomeNow
  BY DeliveryStays DEF DecisionInv
<1>3. ChainStatus(ledger) = "none" => ChainStatus(ledger') = "none"
  <2> SUFFICES ASSUME ChainStatus(ledger) = "none" PROVE ChainStatus(ledger') = "none"
    OBVIOUS
  <2>1. Chain(ledger).ok = "ok"
    BY DEF RunInv, ChainInv
  <2>2. Chain(ledger).open = "none"
    BY <2>1 DEF ChainStatus
  <2>3. Chain(ledger') = Chain(ledger)
    BY <1>0, <2>2, ChainStays
  <2> QED
    BY <2>3 DEF ChainStatus
<1>4. DeclaredUnverifiable(ledger) => DeclaredUnverifiable(ledger')
  <2> SUFFICES ASSUME DeclaredUnverifiable(ledger) PROVE DeclaredUnverifiable(ledger')
    OBVIOUS
  <2>1. Chain(ledger).open = "none"
    BY DEF DeclaredUnverifiable, DecisionInv, Requested, EmptyChain
  <2> QED
    BY <1>0, <2>1, UnverifiableStays DEF DecisionInv
<1>5. DecisionBacked(ledger, d) <=>
        /\ Of(before, "delivery_created") # {}
        /\ \/ /\ decision.note = "pending"
              /\ decision.value = "rejected"
              /\ LastChangeBefore(ledger, d) = "completed"
              /\ Of(before, "verification") = {}
              /\ ChainStatus(ledger) = "none"
           \/ /\ decision.note # "pending"
              /\ byOutcome \/ NewestComplete(before) = decision.note
              /\ decision.value = "accepted" =>
                   \/ decision.note = "passed"
                   \/ decision.note = "unavailable" /\ byOutcome /\ DeclaredUnverifiable(ledger)
  BY DEF DecisionBacked
<1>6. DecisionBacked(ledger', d) <=>
        /\ Of(before, "delivery_created") # {}
        /\ \/ /\ decision.note = "pending"
              /\ decision.value = "rejected"
              /\ LastChangeBefore(ledger, d) = "completed"
              /\ Of(before, "verification") = {}
              /\ ChainStatus(ledger') = "none"
           \/ /\ decision.note # "pending"
              /\ byOutcomeNow \/ NewestComplete(before) = decision.note
              /\ decision.value = "accepted" =>
                   \/ decision.note = "passed"
                   \/ decision.note = "unavailable" /\ byOutcomeNow /\ DeclaredUnverifiable(ledger')
  BY <1>1 DEF DecisionBacked
<1> HIDE DEF decision, before, byOutcome, byOutcomeNow
<1> QED
  BY <1>2, <1>3, <1>4, <1>5, <1>6

(* Facts with a decision that validate go on validating.                    *)
LEMMA ValidStays ==
    ASSUME SoleRunner, RunInv, SoleInv, DecisionInv, [Next]_vars,
           Of(ledger, "decision") # {}, FactsVerdict(ledger) = "valid"
    PROVE  FactsVerdict(ledger') = "valid"
<1>1. /\ Of(ledger, "delivery_created") # {}
      /\ ~ (Cardinality(Of(ledger, "delivery_created")) > 1)
      /\ Of(ledger, "delivery_failed") # {} => ValidProvenance(ledger)
      /\ ~ (Cardinality(Of(ledger, "decision")) > 1)
      /\ \A d \in Of(ledger, "decision") : DecisionBacked(ledger, d)
  BY DEF FactsVerdict
<1>2. /\ Of(ledger', "delivery_created") = Of(ledger, "delivery_created")
      /\ Of(ledger', "delivery_failed") = Of(ledger, "delivery_failed")
  BY <1>1, DeliveryStays DEF DecisionInv
<1>3. Of(ledger', "decision") = Of(ledger, "decision")
  <2>1. \A i \in New : ledger'[i].type # "decision"
    BY StepContributes DEF SoleInv, Contributes, Contribution
  <2> QED
    BY <2>1, OfGrows
<1>4. \A d \in Of(ledger', "decision") : DecisionBacked(ledger', d)
  BY <1>1, <1>3, BackingStays
<1>5. Of(ledger', "delivery_failed") # {} => ValidProvenance(ledger')
  <2>1. ValidProvenance(ledger) => Of(ledger, "delivery_repackaged") # {}
    BY Singles DEF ValidProvenance, OneOf
  <2> QED
    BY <1>1, <1>2, <2>1, Kept, ProvenanceStays
<1>6. ~ (Cardinality(Of(ledger', "verification")) > 1)
  <2>1. \A x, y \in Of(ledger', "verification") : x = y
    BY RecordedStep DEF Recorded, OnceAtMost
  <2>2. CASE Of(ledger', "verification") = {}
    <3>1. Cardinality(Of(ledger', "verification")) = 0
      BY <2>2, FS_EmptySet
    <3> QED
      BY <3>1
  <2>3. CASE Of(ledger', "verification") # {}
    <3>1. Cardinality(Of(ledger', "verification")) = 1
      BY <2>1, <2>3, Singles
    <3> QED
      BY <3>1
  <2> QED
    BY <2>2, <2>3
<1>7. ASSUME Of(ledger', "verification") = {} PROVE ChainStatus(ledger') = "none"
  <2>1. Of(ledger, "verification") = {}
    BY <1>7, Kept
  <2>2. Of(ledger, "reverify_requested") = {} /\ Chain(ledger) = EmptyChain
    BY <2>1 DEF DecisionInv, Requested
  <2>3. \A i \in New : ledger'[i].type \notin {"reverify_requested", "reverify_outcome"}
    BY <2>2, NewLinks DEF EmptyChain
  <2>4. Chain(ledger') = EmptyChain
    BY <2>2, <2>3, ChainStays
  <2> QED
    BY <2>4 DEF ChainStatus, EmptyChain
<1> QED
  BY <1>1, <1>2, <1>3, <1>4, <1>5, <1>6, <1>7 DEF FactsVerdict

-----------------------------------------------------------------------------
(* The invariant of decisions. *)

(* Nothing is decided or reverified at the start.                           *)
LEMMA DecisionInit == SoleRunner /\ Init => DecisionInv
<1> SUFFICES ASSUME SoleRunner, Init PROVE DecisionInv
  OBVIOUS
<1>1. /\ Len(ledger) = 1 /\ DOMAIN ledger = {1}
      /\ ledger[1] = Event("state_change", "running", "first_event")
  BY DEF Init
<1>2. /\ \A type : type # "state_change" => Of(ledger, type) = {}
      /\ Of(ledger, "state_change") = {1} /\ TerminalChanges(ledger) = {}
  BY <1>1 DEF Of, TerminalChanges, TerminalStates, Event
<1>3. Chain(ledger) = EmptyChain
  <2>1. Chain(ledger) = Chain(<<>>)
    <3>1. ledger[1].type \notin {"reverify_requested", "reverify_outcome"}
      BY <1>1 DEF Event
    <3>2. \A i \in 1 .. Len(<<>>) : ledger[i] = <<>>[i]
      OBVIOUS
    <3> QED
      BY <1>1, <3>1, <3>2, ChainIgnores
  <2>2. Chain(<<>>) = EmptyChain
    <3>1. PICK u : Pairs(u, Len(<<>>), <<>>) /\ Chain(<<>>) = u[Len(<<>>)]
      BY ChainPairs
    <3> QED
      BY <3>1, PairsStep
  <2> QED
    BY <2>1, <2>2
<1> QED
  BY <1>2, <1>3 DEF DecisionInv, StartsAndEnds, Requested, Decided

(* A state change once the run has started is its end.                      *)
LEMMA StartsAndEndsStep ==
    ASSUME SoleRunner, RunInv, SoleInv, StartsAndEnds, [Next]_vars
    PROVE  StartsAndEnds'
<1>1. ASSUME NEW i \in New, ledger'[i].type = "state_change"
      PROVE  ledger'[i].value \in TerminalStates
  <2>1. Contribution(i)
    BY StepContributes DEF SoleInv, Contributes
  <2> QED
    BY <1>1, <2>1 DEF Contribution, TerminalStates
<1> QED
  BY <1>1, OfGrows DEF StartsAndEnds

(* A request rests on a failed verification, an outcome on a request.       *)
LEMMA RequestedStep ==
    ASSUME SoleRunner, RunInv, SoleInv, Requested, [Next]_vars
    PROVE  Requested'
<1>1. ASSUME Of(ledger', "reverify_requested") = {}
      PROVE  Chain(ledger') = EmptyChain /\ Of(ledger', "reverify_outcome") = {}
  <2>1. Of(ledger, "reverify_requested") = {}
    BY <1>1, Kept
  <2>2. Chain(ledger) = EmptyChain /\ Of(ledger, "reverify_outcome") = {}
    BY <2>1 DEF Requested
  <2>3. \A i \in New : ledger'[i].type \notin {"reverify_requested", "reverify_outcome"}
    BY <1>1, <2>2, NewLinks, OfGrows DEF EmptyChain
  <2> QED
    BY <2>2, <2>3, ChainStays
<1>2. ASSUME Of(ledger', "reverify_requested") # {}
      PROVE  \E v \in Of(ledger', "verification") : ledger'[v].value = "failed"
  <2>1. \E v \in Of(ledger, "verification") : ledger[v].value = "failed"
    <3>1. CASE Of(ledger, "reverify_requested") # {}
      BY <3>1 DEF Requested
    <3>2. CASE Of(ledger, "reverify_requested") = {}
      <4>1. PICK i \in New : ledger'[i].type = "reverify_requested"
        BY <1>2, <3>2, Came
      <4>2. Contribution(i)
        BY StepContributes DEF SoleInv, Contributes
      <4> QED
        BY <4>1, <4>2 DEF Contribution
    <3> QED
      BY <3>1, <3>2
  <2> QED
    BY <2>1, OfGrows, LedgerGrows DEF Of
<1> QED
  BY <1>1, <1>2 DEF Requested

(* What can be accepted is about to be changed by no outcome.               *)
LEMMA NothingOpen ==
    ASSUME RunInv, SoleInv, Requested, Acceptable(ledger)
    PROVE  Chain(ledger).open = "none"
<1>1. CASE DeclaredUnverifiable(ledger)
  BY <1>1 DEF DeclaredUnverifiable, Requested, EmptyChain
<1>2. CASE EffectiveStatus(ledger) = "passed"
  <2>1. CASE ChainStatus(ledger) = "complete"
    BY <2>1 DEF ChainStatus
  <2>2. CASE ChainStatus(ledger) # "complete"
    <3>1. OriginalStatus(ledger) = "passed"
      BY <1>2, <2>2 DEF EffectiveStatus
    <3>2. Of(ledger, "reverify_requested") = {}
      <4> SUFFICES ASSUME Of(ledger, "reverify_requested") # {} PROVE FALSE
        OBVIOUS
      <4>1. PICK v \in Of(ledger, "verification") : ledger[v].value = "failed"
        BY DEF Requested
      <4>2. Of(ledger, "verification") = {v}
        BY <4>1 DEF SoleInv, Recorded, OnceAtMost
      <4>3. v \in Int
        BY <4>1, LenProperties DEF Of, RunInv, TypeOK
      <4>4. Min({v}) = v
        BY <4>3 DEF Min
      <4> QED
        BY <3>1, <4>1, <4>2, <4>4 DEF OriginalStatus
    <3> QED
      BY <3>2 DEF Requested, EmptyChain
  <2> QED
    BY <2>1, <2>2
<1> QED
  BY <1>1, <1>2 DEF Acceptable

(* Decisions stay valid and acceptances acceptable.                         *)
LEMMA DecidedStep ==
    ASSUME SoleRunner, RunInv, SoleInv, DecisionInv, [Next]_vars
    PROVE  Decided'
<1>0. \A i \in New : Contribution(i)
  BY StepContributes DEF SoleInv, Contributes
<1>1. ASSUME Of(ledger', "decision") # {} PROVE FactsVerdict(ledger') = "valid"
  <2>1. CASE Of(ledger, "decision") # {}
    BY <2>1, ValidStays DEF DecisionInv, Decided
  <2>2. CASE Of(ledger, "decision") = {}
    <3>1. PICK i \in New : ledger'[i].type = "decision"
      BY <1>1, <2>2, Came
    <3> QED
      BY <1>0, <3>1 DEF Contribution
  <2> QED
    BY <2>1, <2>2
<1>2. ASSUME NEW d \in Of(ledger', "decision"), ledger'[d].value = "accepted"
      PROVE  Chain(ledger').open = "none" /\ Acceptable(ledger')
  <2>1. /\ FactsVerdict(ledger) = "valid" /\ Acceptable(ledger) /\ Chain(ledger).open = "none"
        /\ \A i \in New : ledger'[i].type \notin {"reverify_requested", "reverify_outcome"}
    <3>1. CASE d \in New
      <4>1. ledger'[d].type = "decision"
        BY <1>2 DEF Of
      <4>2. New = {d} /\ FactsVerdict(ledger) = "valid" /\ Acceptable(ledger)
        BY <1>0, <1>2, <3>1, <4>1 DEF Contribution
      <4>3. Chain(ledger).open = "none"
        BY <4>2, NothingOpen DEF DecisionInv
      <4> QED
        BY <4>1, <4>2, <4>3
    <3>2. CASE d \notin New
      <4>1. d \in Of(ledger, "decision") /\ ledger[d].value = "accepted"
        BY <1>2, <3>2, LedgerGrows DEF New, Of
      <4>2. FactsVerdict(ledger) = "valid" /\ Acceptable(ledger) /\ Chain(ledger).open = "none"
        BY <4>1 DEF DecisionInv, Decided
      <4> QED
        BY <4>1, <4>2, NewLinks
    <3> QED
      BY <3>1, <3>2
  <2>2. Of(ledger, "delivery_created") # {}
    BY <2>1 DEF FactsVerdict
  <2>3. Chain(ledger') = Chain(ledger)
    BY <2>1, ChainStays
  <2> QED
    BY <2>1, <2>2, <2>3, AcceptableStays DEF DecisionInv
<1> QED
  BY <1>1, <1>2 DEF Decided

(* Every step keeps all of it.                                              *)
LEMMA DecisionStep == SoleRunner /\ RunInv /\ SoleInv /\ DecisionInv /\ [Next]_vars => DecisionInv'
BY StartsAndEndsStep, RequestedStep, DecidedStep DEF DecisionInv

(* Decisions are sound in every run nobody resumes.                         *)
LEMMA DecisionInvariant == ASSUME SoleRunner PROVE Spec => []DecisionInv
<1>1. Init => DecisionInv
  BY DecisionInit
<1>2. RunInv /\ SoleInv /\ DecisionInv /\ [Next]_vars => DecisionInv'
  BY DecisionStep
<1> QED
  BY <1>1, <1>2, RunInvariant, SoleInvariant, PTL DEF Spec

(* Nothing that arrives after a decision makes the delivery facts           *)
(* malformed: neither the outcome of a delivery rejected while it was       *)
(* verified nor the completion of a reverification.                         *)
THEOREM DecisionsStayValid ==
    ASSUME SoleRunner
    PROVE  Spec => DecisionStaysValid
<1>1. ASSUME RunInv, SoleInv, DecisionInv, [Next]_vars,
             Of(ledger, "decision") # {}, FactsVerdict(ledger) = "valid"
      PROVE  FactsVerdict(ledger') = "valid"
  BY <1>1, ValidStays
<1>2. RunInv /\ SoleInv /\ DecisionInv /\ [Next]_vars
        => [Of(ledger, "decision") # {} /\ FactsVerdict(ledger) = "valid" => FactsVerdict(ledger') = "valid"]_vars
  BY <1>1
<1> QED
  BY <1>2, RunInvariant, SoleInvariant, DecisionInvariant, PTL DEF Spec, DecisionStaysValid

(* An accepted delivery stays acceptable. *)
THEOREM AcceptedDeliveriesStand ==
    ASSUME SoleRunner
    PROVE  Spec => []AcceptedStands
<1>1. DecisionInv => AcceptedStands
  BY DEF DecisionInv, Decided, AcceptedStands
<1> QED
  BY <1>1, DecisionInvariant, PTL
=============================================================================
