----------------------- MODULE EnrichmentFeedProofs -----------------------
(***************************************************************************)
(* The feed-v2 index only moves forward, mirrors the v1 index it is bound  *)
(* to and is announced before a trigger is completed, for any number of    *)
(* incidents, occurrences, requests, overlapping executions and faults.    *)
(*                                                                         *)
(* The v1 indexes in use anywhere (the current one, the ones executions    *)
(* hold and the one the feed-v2 index is bound to) are versions of one     *)
(* document: they are ordered by their time and a later one shows no older *)
(* occurrence.  A candidate shows exactly the entries of the index it was  *)
(* projected on, and it may replace the feed-v2 index only after that      *)
(* index was seen to be current, so it is bound to no older v1 index.      *)
(* Every binding that reaches the registry was the entry of a v1 index,    *)
(* hence active: no row is ever resolved.                                  *)
(*                                                                         *)
(* The last section is about types: a trigger that waits has a delivery    *)
(* left, however often its session is lost.                                *)
(***************************************************************************)
EXTENDS EnrichmentFeed, FiniteSetTheorems, TLAPS

-----------------------------------------------------------------------------
(* The inductive invariant *)

\* An occurrence of incident i that is current or was so before.
Past(i, o) ==
    /\ o \in Occurrences /\ current[i] # None /\ o.number <= current[i].number
    /\ o.number = current[i].number => o = current[i]

\* A binding that was activated: its occurrence was an entry of the v1 index.
Known(b) == b \in Bindings /\ b.occurrence.lifecycle = "active" /\ Past(b.incident, b.occurrence)

\* The v1 index X is the current one or an earlier one.
SourceOK(X) ==
    /\ X \in Indexes /\ X.at <= index.at
    /\ \A i \in Incidents : X.entries[i] # None =>
         X.entries[i].lifecycle = "active" /\ Past(i, X.entries[i])

\* A later index shows no older occurrence.
Ordered(X, Y) ==
    X.at <= Y.at =>
      /\ X.at = Y.at => X = Y
      /\ \A i \in Incidents : X.entries[i] # None /\ Y.entries[i] # None =>
           X.entries[i].number <= Y.entries[i].number

\* The v1 indexes in use.
Held(w) == IF w = Idle THEN {} ELSE {w.index} \ {None}
Bound(doc) == IF doc = None THEN {} ELSE {doc.source}
Sources == {index} \cup Bound(head) \cup UNION {Held(producer[p]) : p \in Producers}

SourcesOK == \A X \in Sources : SourceOK(X) /\ \A Y \in Sources : Ordered(X, Y)

\* A feed-v2 index that shows exactly the v1 index it is bound to.
Mirror(doc) ==
    /\ doc \in Documents /\ doc.at >= doc.source.at /\ doc.resolved = {}
    /\ \A r \in doc.active : doc.source.entries[r.incident] = r.occurrence
    /\ \A i \in Incidents : doc.source.entries[i] # None => \E r \in doc.active : r.incident = i
    /\ \A r, q \in doc.active : r.incident = q.incident => r = q

\* The feed-v2 index doc may follow the index seen.
Later(seen, doc) ==
    /\ doc.at > seen.at /\ doc.source.at >= seen.source.at
    /\ \A r \in Listed(seen), q \in Listed(doc) :
         r.incident = q.incident => q.occurrence.number >= r.occurrence.number

\* No v1 index in use from time t on shows an older occurrence than b's.
Since(b, t) ==
    \A X \in Sources : X.at >= t /\ X.entries[b.incident] # None =>
        X.entries[b.incident].number >= b.occurrence.number

\* Notification v2 was enqueued for b or a later occurrence.
Told(b) ==
    \E n \in notified : n.incident = b.incident /\ n.occurrence.number >= b.occurrence.number

Owns == [row : Bindings \cup {None}, size : Nat]
Labels == {"enrich", "write", "source", "project", "decide", "commit", "reconcile",
           "confirm_head", "notify", "complete"}
Works == [pc : Labels, binding : Bindings, lock : BOOLEAN, published : Nat, at : Nat,
          outer : Nat, tries : Nat, index : Indexes \cup {None}, own : Owns \cup {None},
          candidate : Documents \cup {None}, seen : Documents \cup {None}]

\* What an execution knows at each of its steps.
WorkOK(w) ==
    /\ w \in Works /\ Known(w.binding)
    /\ w.pc = "write" =>
         /\ w.own \in Owns
         /\ w.own.row # None => w.own.row.occurrence.number < w.binding.occurrence.number
    /\ w.pc \in {"enrich", "project", "decide", "commit", "reconcile", "confirm_head"} =>
         w.index \in Indexes
    /\ w.pc \in {"decide", "commit", "reconcile", "confirm_head"} =>
         Mirror(w.candidate) /\ w.candidate.source = w.index
    /\ w.pc = "commit" => w.seen = None \/ Later(w.seen, w.candidate)
    /\ w.pc = "notify" => head # None /\ Since(w.binding, head.source.at)
    /\ w.pc = "complete" => Told(w.binding)

V1OK ==
    /\ current \in [Incidents -> Occurrences \cup {None}]
    /\ index \in Indexes

GuidanceOK ==
    /\ requests \subseteq Bindings /\ submitted \in 0 .. MaxRequests
    /\ activation \in [Incidents -> Bindings \cup {None}]
    /\ \A i \in Incidents : activation[i] # None => Known(activation[i]) /\ activation[i].incident = i
    /\ \/ publisher = Idle
       \/ /\ publisher \in [pc : {"activate", "enqueue"}, binding : Bindings, index : Indexes]

\* A session with its lock has a message, and one receiver at most.
BrokerOK ==
    /\ queued \in [Incidents -> Seq(Bindings)]
    /\ \A i \in Incidents : \A n \in 1 .. Len(queued[i]) : queued[i][n].incident = i
    /\ \A p \in Producers : producer[p] # Idle /\ producer[p].lock =>
         /\ queued[Subject(p)] # <<>>
         /\ \A q \in Producers : q # p /\ producer[q] # Idle /\ producer[q].lock =>
              Subject(q) # Subject(p)

FeedOK ==
    /\ registry \in [Incidents -> Bindings \cup {None}]
    /\ \A i \in Incidents : registry[i] # None => Known(registry[i]) /\ registry[i].incident = i
    /\ head # None => Mirror(head)

ProducersOK ==
    /\ producer \in [Producers -> Works \cup {Idle}]
    /\ \A p \in Producers : producer[p] # Idle => WorkOK(producer[p])

IInv ==
    V1OK /\ GuidanceOK /\ BrokerOK /\ FeedOK /\ SourcesOK /\ ProducersOK /\ CompletedMeansNotified

-----------------------------------------------------------------------------
(* What stays *)

LEMMA OccurrenceNumbers == \A o \in Occurrences : o.number \in Nat
<1>1. \A i \in Incidents : MaxOccurrence[i] \in Nat
  BY FeedAssumption
<1>2. QED BY <1>1 DEF Occurrences

\* The fields of an execution.
LEMMA WorkFields ==
    ASSUME NEW w \in Works
    PROVE  /\ w # Idle
           /\ w.binding \in Bindings /\ w.binding.incident \in Incidents
           /\ w.binding.occurrence \in Occurrences
<1>1. w.pc # "idle"
  BY DEF Works, Labels
<1>2. QED BY <1>1 DEF Works, Idle, Bindings

\* What a step leaves alone while the v1 index stays: the indexes in use are
\* among the ones before, and the feed-v2 index is bound to no older one.
LEMMA Stays ==
    ASSUME IInv, UNCHANGED v1Vars, Sources' \subseteq Sources, notified \subseteq notified',
           head # None => head' # None /\ head'.source.at >= head.source.at
    PROVE  /\ V1OK' /\ SourcesOK'
           /\ \A b : Known(b) => Known(b)'
           /\ \A w : WorkOK(w) => WorkOK(w)'
<1>1. current' = current /\ index' = index
  BY DEF v1Vars
<1>2. V1OK'
  BY <1>1 DEF IInv, V1OK
<1>3. \A b : Known(b) => Known(b)'
  BY <1>1 DEF Known, Past
<1>4. SourcesOK'
  <2>1. \A X : SourceOK(X) => SourceOK(X)'
    BY <1>1 DEF SourceOK, Past
  <2>2. \A X, Y : Ordered(X, Y) => Ordered(X, Y)'
    BY DEF Ordered
  <2>3. QED BY <2>1, <2>2 DEF IInv, SourcesOK
<1>5. ASSUME NEW w, WorkOK(w) PROVE WorkOK(w)'
  <2>1. w \in Works /\ Known(w.binding)'
    BY <1>3, <1>5 DEF WorkOK
  <2>2. w.pc = "complete" => Told(w.binding)'
    BY <1>5 DEF WorkOK, Told
  <2>3. ASSUME w.pc = "notify" PROVE head' # None /\ Since(w.binding, head.source.at)'
    <3>1. head # None /\ Since(w.binding, head.source.at)
      BY <1>5, <2>3 DEF WorkOK
    <3>2. head' # None /\ head'.source.at >= head.source.at
      BY <3>1
    <3>3. head.source.at \in Nat
      BY <3>1 DEF IInv, FeedOK, Mirror, Documents, Indexes
    <3>4. \A X \in Sources' : X \in Sources /\ X.at \in Nat
      BY DEF IInv, SourcesOK, SourceOK, Indexes
    <3>a. head'.source.at \in Nat
      <4>1. head'.source \in Sources'
        BY <3>1, <3>2 DEF Sources, Bound
      <4>2. QED BY <3>4, <4>1
    <3>5. \A X \in Sources' : X.at >= head'.source.at => X \in Sources /\ X.at >= head.source.at
      BY <3>2, <3>3, <3>4, <3>a
    <3>6. QED BY <3>1, <3>2, <3>5 DEF Since
  <2>4. QED BY <1>5, <2>1, <2>2, <2>3 DEF WorkOK, Mirror, Later
<1>6. QED BY <1>2, <1>3, <1>4, <1>5

\* An execution moves: the indexes in use.
LEMMA SourcesMove ==
    ASSUME ProducersOK, NEW p \in Producers, NEW w, UNCHANGED index,
           producer' = [producer EXCEPT ![p] = w],
           Held(w) \subseteq Held(producer[p]) \cup {index},
           Bound(head') \subseteq Bound(head) \cup Held(producer[p])
    PROVE  Sources' \subseteq Sources
<1>1. producer' = [q \in Producers |-> IF q = p THEN w ELSE producer[q]]
  BY DEF ProducersOK
<1>2. \A q \in Producers : Held(producer'[q]) \subseteq Held(producer[q]) \cup {index}
  BY <1>1
<1>3. SUFFICES ASSUME NEW X \in Sources' PROVE X \in Sources
  OBVIOUS
<1>4. \/ X = index' \/ X \in Bound(head') \/ \E q \in Producers : X \in Held(producer'[q])
  BY DEF Sources
<1>5. CASE X = index'
  BY <1>5 DEF Sources
<1>6. CASE X \in Bound(head')
  BY <1>6 DEF Sources
<1>7. ASSUME NEW q \in Producers, X \in Held(producer'[q]) PROVE X \in Sources
  BY <1>2, <1>7 DEF Sources
<1>8. QED BY <1>4, <1>5, <1>6, <1>7

\* An execution moves within its session.
LEMMA BrokerMove ==
    ASSUME BrokerOK, ProducersOK, NEW p \in Producers, producer[p] # Idle, UNCHANGED queued,
           NEW w \in Works, w.binding = producer[p].binding, w.lock => producer[p].lock,
           producer' = [producer EXCEPT ![p] = w]
    PROVE  BrokerOK'
<1>1. producer' = [q \in Producers |-> IF q = p THEN w ELSE producer[q]]
  BY DEF ProducersOK
<1>2. \A q \in Producers : producer'[q] # Idle /\ producer'[q].lock =>
        producer[q] # Idle /\ producer[q].lock /\ Subject(q)' = Subject(q)
  BY <1>1 DEF Subject
<1>3. QED BY <1>2 DEF BrokerOK

\* The trigger of a session leaves its queue when nobody has the lock any more.
LEMMA QueueRemove ==
    ASSUME BrokerOK, NEW i \in Incidents, queued[i] # <<>>, Remove(i)
    PROVE  /\ queued' \in [Incidents -> Seq(Bindings)]
           /\ \A j \in Incidents : \A n \in 1 .. Len(queued'[j]) : queued'[j][n].incident = j
           /\ \A j \in Incidents : j # i => queued'[j] = queued[j]
<1>1. queued \in [Incidents -> Seq(Bindings)]
      /\ \A j \in Incidents : \A n \in 1 .. Len(queued[j]) : queued[j][n].incident = j
  BY DEF BrokerOK
<1>2. queued' = [queued EXCEPT ![i] = Tail(queued[i])]
  BY DEF Remove
<1>3. /\ Tail(queued[i]) \in Seq(Bindings)
      /\ \A n \in 1 .. Len(Tail(queued[i])) :
           n + 1 \in 1 .. Len(queued[i]) /\ Tail(queued[i])[n] = queued[i][n + 1]
  BY <1>1
<1>4. \A n \in 1 .. Len(Tail(queued[i])) : Tail(queued[i])[n].incident = i
  BY <1>1, <1>3
<1>5. queued'[i] = Tail(queued[i]) /\ \A j \in Incidents : j # i => queued'[j] = queued[j]
  BY <1>1, <1>2
<1>6. queued' \in [Incidents -> Seq(Bindings)]
  BY <1>1, <1>2, <1>3
<1>7. QED BY <1>1, <1>4, <1>5, <1>6

\* The broker after a step that leaves p without its lock.
LEMMA BrokerRelease ==
    ASSUME BrokerOK, ProducersOK, NEW p \in Producers, producer[p] # Idle, producer[p].lock,
           NEW w, w = Idle \/ ~ w.lock, producer' = [producer EXCEPT ![p] = w],
           UNCHANGED queued \/ Remove(Subject(p))
    PROVE  BrokerOK'
<1>1. producer' = [q \in Producers |-> IF q = p THEN w ELSE producer[q]]
  BY DEF ProducersOK
<1>2. Subject(p) \in Incidents
  BY WorkFields DEF ProducersOK, WorkOK, Subject
<1>3. \A q \in Producers : producer'[q] # Idle /\ producer'[q].lock =>
        /\ q # p /\ producer[q] # Idle /\ producer[q].lock
        /\ Subject(q)' = Subject(q) /\ Subject(q) # Subject(p)
  BY <1>1 DEF Subject, BrokerOK
<1>4. \A q \in Producers : producer'[q] # Idle /\ producer'[q].lock => Subject(q) \in Incidents
  BY <1>3, WorkFields DEF ProducersOK, WorkOK, Subject
<1>5. CASE UNCHANGED queued
  BY <1>3, <1>5 DEF BrokerOK
<1>6. CASE Remove(Subject(p))
  <2>1. queued[Subject(p)] # <<>>
    BY DEF BrokerOK
  <2>2. /\ queued' \in [Incidents -> Seq(Bindings)]
        /\ \A j \in Incidents : \A n \in 1 .. Len(queued'[j]) : queued'[j][n].incident = j
        /\ \A j \in Incidents : j # Subject(p) => queued'[j] = queued[j]
    BY <1>2, <1>6, <2>1, QueueRemove
  <2>3. \A q \in Producers : producer'[q] # Idle /\ producer'[q].lock =>
          /\ queued'[Subject(q)'] # <<>>
          /\ \A r \in Producers : r # q /\ producer'[r] # Idle /\ producer'[r].lock =>
               Subject(r)' # Subject(q)'
    BY <1>3, <1>4, <2>2 DEF BrokerOK
  <2>4. QED BY <2>2, <2>3 DEF BrokerOK
<1>7. QED BY <1>5, <1>6

LEMMA SettleStep ==
    ASSUME BrokerOK, ProducersOK, NEW p \in Producers, producer[p] # Idle, NEW how, Settle(p, how)
    PROVE  /\ BrokerOK' /\ producer' = [producer EXCEPT ![p] = Idle]
           /\ settled' \subseteq settled \cup {producer[p].binding}
           /\ how # "complete" => settled' = settled
<1>1. producer' = [producer EXCEPT ![p] = Idle]
  BY DEF Settle, Goto
<1>2. CASE producer[p].lock
  <2>1. UNCHANGED queued \/ Remove(Subject(p))
    BY <1>2 DEF Settle, GiveBack
  <2>2. BrokerOK'
    BY <1>1, <1>2, <2>1, BrokerRelease
  <2>3. QED BY <1>1, <1>2, <2>2 DEF Settle
<1>3. CASE ~ producer[p].lock
  <2>1. UNCHANGED <<queued, settled>>
    BY <1>3 DEF Settle
  <2>2. producer' = [q \in Producers |-> IF q = p THEN Idle ELSE producer[q]]
    BY <1>1 DEF ProducersOK
  <2>3. \A q \in Producers : producer'[q] # Idle =>
          producer'[q] = producer[q] /\ Subject(q)' = Subject(q)
    BY <2>2 DEF Subject
  <2>4. BrokerOK'
    BY <2>1, <2>3 DEF BrokerOK
  <2>5. QED BY <1>1, <2>1, <2>4
<1>4. QED BY <1>2, <1>3

\* The executions after one of them has moved.
LEMMA ProducersMove ==
    ASSUME ProducersOK, \A w : WorkOK(w) => WorkOK(w)', NEW p \in Producers, NEW v,
           v = Idle \/ WorkOK(v)', producer' = [producer EXCEPT ![p] = v]
    PROVE  ProducersOK'
<1>1. producer' = [q \in Producers |-> IF q = p THEN v ELSE producer[q]]
  BY DEF ProducersOK
<1>2. v \in Works \cup {Idle}
  BY DEF WorkOK
<1>3. producer' \in [Producers -> Works \cup {Idle}]
  BY <1>1, <1>2 DEF ProducersOK
<1>4. \A q \in Producers : producer'[q] # Idle => WorkOK(producer[q])'
  BY <1>1 DEF ProducersOK
<1>5. QED BY <1>3, <1>4 DEF ProducersOK

-----------------------------------------------------------------------------
(* The v1 feed *)

LEMMA PublishCurrentInv ==
    ASSUME IInv, NEW i \in Incidents, PublishCurrent(i)
    PROVE  IInv'
<1> DEFINE n == IF current[i] = None THEN 1 ELSE current[i].number + 1
           o == [number |-> n,
                 lifecycle |-> IF index.entries[i] = None THEN "active" ELSE "resolved"]
<1>1. /\ n <= MaxOccurrence[i] /\ current' = [current EXCEPT ![i] = o]
      /\ UNCHANGED <<index, guidanceVars, brokerVars, feedVars, producer, faults>>
  BY DEF PublishCurrent
<1>2. current \in [Incidents -> Occurrences \cup {None}] /\ index \in Indexes
  BY DEF IInv, V1OK
<1>3. n \in Nat /\ n > 0 /\ (current[i] # None => n > current[i].number)
  BY <1>2, OccurrenceNumbers
<1>4. o \in Occurrences /\ o.number = n
  <2>1. MaxOccurrence[i] \in Nat
    BY FeedAssumption
  <2>2. n \in 1 .. MaxOccurrence[i]
    BY <1>1, <1>3, <2>1
  <2> HIDE DEF n
  <2>3. QED BY <2>2 DEF Occurrences
<1> HIDE DEF o, n
<1>5. V1OK'
  BY <1>1, <1>2, <1>4 DEF V1OK
<1>6. ASSUME NEW j \in Incidents, NEW k, Past(j, k) PROVE Past(j, k)'
  <2>1. CASE j = i
    <3>1. current'[j] = o /\ o # None
      BY <1>1, <1>2, <1>4, <2>1, NoneAssumption
    <3>2. k \in Occurrences /\ current[i] # None /\ k.number <= current[i].number
      BY <1>6, <2>1 DEF Past
    <3>3. k.number \in Nat /\ current[i].number \in Nat
      BY <1>2, <3>2, OccurrenceNumbers
    <3>4. QED BY <1>3, <1>4, <3>1, <3>2, <3>3 DEF Past
  <2>2. CASE j # i
    BY <1>1, <1>2, <1>6, <2>2 DEF Past
  <2>3. QED BY <2>1, <2>2
<1>7. \A b : Known(b) => Known(b)'
  BY <1>6 DEF Known, Bindings
<1>8. \A X : SourceOK(X) => SourceOK(X)'
  BY <1>1, <1>6 DEF SourceOK
<1>9. /\ index' = index /\ producer' = producer /\ head' = head /\ notified' = notified
      /\ registry' = registry /\ activation' = activation /\ requests' = requests
      /\ publisher' = publisher /\ queued' = queued /\ settled' = settled
      /\ submitted' = submitted
  BY <1>1 DEF guidanceVars, brokerVars, feedVars
<1>10. Sources' = Sources
  BY <1>9 DEF Sources
<1>11. SourcesOK'
  BY <1>8, <1>10 DEF IInv, SourcesOK, Ordered
<1>12. \A w : WorkOK(w) => WorkOK(w)'
  BY <1>7, <1>9, <1>10 DEF WorkOK, Since, Told, Mirror, Later
<1>13. ProducersOK' /\ FeedOK' /\ BrokerOK' /\ GuidanceOK' /\ CompletedMeansNotified'
  <2>1. ProducersOK'
    BY <1>9, <1>12 DEF IInv, ProducersOK
  <2>2. FeedOK' /\ GuidanceOK'
    BY <1>7, <1>9 DEF IInv, FeedOK, GuidanceOK, Mirror
  <2>3. BrokerOK'
    BY <1>9 DEF IInv, BrokerOK, Subject
  <2>4. CompletedMeansNotified'
    BY <1>9 DEF IInv, CompletedMeansNotified
  <2>5. QED BY <2>1, <2>2, <2>3, <2>4
<1>14. QED BY <1>5, <1>11, <1>13 DEF IInv

\* The v1 index is replaced by one that shows current occurrences, or what it showed.
LEMMA ReplaceIndexInv ==
    ASSUME IInv, NEW entries \in [Incidents -> Occurrences \cup {None}], ReplaceIndex(entries),
           \A i \in Incidents : entries[i] # None /\ entries[i] # index.entries[i] =>
             entries[i] = current[i] /\ current[i].lifecycle = "active"
    PROVE  IInv'
<1>1. /\ index' = [at |-> index.at + 1, entries |-> entries] /\ index'.at <= MaxIndex
      /\ current' = current /\ producer' = producer /\ head' = head /\ notified' = notified
      /\ registry' = registry /\ activation' = activation /\ requests' = requests
      /\ publisher' = publisher /\ queued' = queued /\ settled' = settled
      /\ submitted' = submitted
  BY DEF ReplaceIndex, guidanceVars, brokerVars, feedVars
<1>2. current \in [Incidents -> Occurrences \cup {None}] /\ index \in Indexes
      /\ index.at \in Nat /\ MaxIndex \in Nat
  BY FeedAssumption DEF IInv, V1OK, Indexes
<1>3. index'.at = index.at + 1 /\ index'.entries = entries
  BY <1>1
<1>4. index' \in Indexes
  BY <1>1, <1>2, <1>3 DEF Indexes
<1>5. V1OK'
  BY <1>1, <1>2, <1>4 DEF V1OK
<1>6. \A b : Known(b) => Known(b)'
  BY <1>1 DEF Known, Past
<1>7. ASSUME NEW X \in Sources
      PROVE  /\ SourceOK(X)' /\ X.at < index'.at /\ Ordered(X, index)'
             /\ X \in Indexes /\ X.at \in Nat
  <2>1. SourceOK(X) /\ X \in Indexes /\ X.at <= index.at /\ Ordered(X, index)
    BY DEF IInv, SourcesOK, SourceOK, Sources
  <2>2. X.at \in Nat
    BY <2>1 DEF Indexes
  <2>3. X.at < index'.at /\ X.at <= index'.at /\ X.at # index'.at
    BY <1>2, <1>3, <2>1, <2>2
  <2>4. SourceOK(X)'
    BY <1>1, <2>1, <2>3 DEF SourceOK, Past
  <2>5. ASSUME NEW i \in Incidents, X.entries[i] # None, entries[i] # None
        PROVE  X.entries[i].number <= entries[i].number
    <3>1. CASE entries[i] = index.entries[i]
      BY <2>1, <2>5, <3>1 DEF Ordered
    <3>2. CASE entries[i] # index.entries[i]
      BY <2>1, <2>5, <3>2 DEF SourceOK, Past
    <3>3. QED BY <3>1, <3>2
  <2>6. Ordered(X, index)'
    BY <1>3, <2>3, <2>5 DEF Ordered
  <2>7. QED BY <2>1, <2>2, <2>3, <2>4, <2>6
<1>8. SourceOK(index)'
  <2>1. ASSUME NEW i \in Incidents, entries[i] # None
        PROVE  entries[i].lifecycle = "active" /\ Past(i, entries[i])
    <3>1. CASE entries[i] = index.entries[i]
      BY <2>1, <3>1 DEF IInv, SourcesOK, SourceOK, Sources
    <3>2. CASE entries[i] # index.entries[i]
      <4>1. entries[i] = current[i] /\ current[i].lifecycle = "active" /\ current[i] # None
        BY <2>1, <3>2
      <4>2. current[i] \in Occurrences /\ current[i].number \in Nat
        BY <1>2, <4>1, OccurrenceNumbers
      <4>3. QED BY <4>1, <4>2 DEF Past
    <3>3. QED BY <3>1, <3>2
  <2>2. \A i \in Incidents : entries[i] # None => entries[i].lifecycle = "active" /\ Past(i, entries[i])'
    BY <1>1, <2>1 DEF Past
  <2>3. QED BY <1>2, <1>3, <1>4, <2>2 DEF SourceOK
<1>9. Sources' \subseteq Sources \cup {index'}
  BY <1>1 DEF Sources
<1>10. SourcesOK'
  <2>1. ASSUME NEW X \in Sources' PROVE SourceOK(X)'
    BY <1>7, <1>8, <1>9
  <2>2. ASSUME NEW X \in Sources', NEW Y \in Sources' PROVE Ordered(X, Y)
    <3>1. CASE X \in Sources /\ Y \in Sources
      BY <3>1 DEF IInv, SourcesOK
    <3>2. CASE X \in Sources /\ Y = index'
      BY <1>7, <3>2 DEF Ordered
    <3>3. CASE X = index' /\ Y \in Sources
      <4>1. ~ (X.at <= Y.at)
        BY <1>2, <1>3, <1>7, <3>3
      <4>2. QED BY <4>1 DEF Ordered
    <3>4. CASE X = index' /\ Y = index'
      <4>1. \A i \in Incidents : entries[i] # None => entries[i].number <= entries[i].number
        BY OccurrenceNumbers
      <4>2. QED BY <1>3, <3>4, <4>1 DEF Ordered
    <3>5. QED BY <1>9, <3>1, <3>2, <3>3, <3>4
  <2>3. QED BY <2>1, <2>2 DEF SourcesOK, Ordered
<1>11. ASSUME NEW w, WorkOK(w) PROVE WorkOK(w)'
  <2>1. ASSUME w.pc = "notify" PROVE Since(w.binding, head.source.at)'
    <3>1. Since(w.binding, head.source.at) /\ head # None /\ Known(w.binding)
      BY <1>11, <2>1 DEF WorkOK
    <3> DEFINE i == w.binding.incident
               b == w.binding
    <3>2. i \in Incidents /\ b.occurrence \in Occurrences /\ b.occurrence.number \in Nat
          /\ Past(i, b.occurrence)
      BY <3>1, OccurrenceNumbers DEF Known, Bindings
    <3>3. ASSUME entries[i] # None PROVE entries[i].number >= b.occurrence.number
      <4>1. CASE entries[i] = index.entries[i]
        <5>1. index \in Sources /\ head.source \in Sources
          BY <3>1 DEF Sources, Bound
        <5>2. head.source.at <= index.at /\ head.source.at \in Nat
          BY <5>1 DEF IInv, SourcesOK, SourceOK, Indexes
        <5>3. index.at >= head.source.at
          BY <1>2, <5>2
        <5>4. QED BY <3>1, <3>3, <4>1, <5>1, <5>3 DEF Since
      <4>2. CASE entries[i] # index.entries[i]
        <5>1. entries[i] = current[i] /\ current[i] \in Occurrences
          BY <1>2, <3>2, <3>3, <4>2
        <5>2. current[i].number \in Nat /\ b.occurrence.number <= current[i].number
          BY <3>2, <5>1, OccurrenceNumbers DEF Past
        <5>3. QED BY <3>2, <5>1, <5>2
      <4>3. QED BY <4>1, <4>2
    <3>4. \A X \in Sources : X.at >= head.source.at /\ X.entries[i] # None =>
            X.entries[i].number >= b.occurrence.number
      BY <3>1 DEF Since
    <3>5. QED BY <1>1, <1>3, <1>9, <3>3, <3>4 DEF Since
  <2>2. QED BY <1>1, <1>6, <1>11, <2>1 DEF WorkOK, Told, Mirror, Later
<1>12. ProducersOK'
  BY <1>1, <1>11 DEF IInv, ProducersOK
<1>13. FeedOK' /\ GuidanceOK'
  BY <1>1, <1>6 DEF IInv, FeedOK, GuidanceOK, Mirror
<1>14. BrokerOK' /\ CompletedMeansNotified'
  BY <1>1 DEF IInv, BrokerOK, Subject, CompletedMeansNotified
<1>15. QED BY <1>5, <1>10, <1>12, <1>13, <1>14 DEF IInv

LEMMA PublishIndexInv ==
    ASSUME IInv, NEW i \in Incidents, PublishIndex(i)
    PROVE  IInv'
<1> DEFINE e == [index.entries EXCEPT ![i] =
                   IF current[i].lifecycle = "active" THEN current[i] ELSE None]
<1>1. ReplaceIndex(e) /\ current[i] # None
  BY DEF PublishIndex
<1>2. current \in [Incidents -> Occurrences \cup {None}]
      /\ index.entries \in [Incidents -> Occurrences \cup {None}]
  BY DEF IInv, V1OK, Indexes
<1>3. e \in [Incidents -> Occurrences \cup {None}]
  BY <1>2
<1>4. \A j \in Incidents : e[j] # None /\ e[j] # index.entries[j] =>
        e[j] = current[j] /\ current[j].lifecycle = "active"
  BY <1>2
<1> HIDE DEF e
<1>5. QED BY <1>1, <1>3, <1>4, ReplaceIndexInv

LEMMA HeartbeatInv ==
    ASSUME IInv, Heartbeat
    PROVE  IInv'
<1>1. index.entries \in [Incidents -> Occurrences \cup {None}]
  BY DEF IInv, V1OK, Indexes
<1>2. QED BY <1>1, ReplaceIndexInv DEF Heartbeat

-----------------------------------------------------------------------------
(* Init *)

LEMMA InitInv == Init => IInv
<1> SUFFICES ASSUME Init PROVE IInv
  OBVIOUS
<1> DEFINE O == [number |-> 1, lifecycle |-> "active"]
<1>1. \A i \in Listed0 : i \in Incidents /\ MaxOccurrence[i] \in Nat /\ 1 \in 1 .. MaxOccurrence[i]
  BY FeedAssumption
<1>2. \A i \in Listed0 : Published(i) \in Bindings /\ Published(i).incident = i
        /\ Published(i).occurrence = O /\ O \in Occurrences
  <2>1. ASSUME NEW i \in Listed0 PROVE O \in Occurrences
    BY <1>1 DEF Occurrences
  <2>2. 0 \in 0 .. MaxRequests
    BY FeedAssumption
  <2>3. QED BY <1>1, <2>1, <2>2 DEF Published, Bindings
<1>3. /\ current = [i \in Incidents |-> Initially(i, Published(i).occurrence)]
      /\ index = [at |-> 0, entries |-> current] /\ requests = {} /\ submitted = 0
      /\ activation = [i \in Incidents |-> Initially(i, Published(i))] /\ publisher = Idle
      /\ queued = [i \in Incidents |-> <<>>] /\ registry = activation
      /\ head = IF Listed0 = {} THEN None
                ELSE [source |-> index, at |-> 0, resolved |-> {},
                      active |-> {Published(i) : i \in Listed0}]
      /\ settled = {Published(i) : i \in Listed0} /\ notified = settled
      /\ producer = [p \in Producers |-> Idle]
  BY DEF Init
<1>4. \A i \in Incidents : current[i] = IF i \in Listed0 THEN O ELSE None
  BY <1>2, <1>3 DEF Initially
<1>5. \A i \in Incidents : activation[i] = IF i \in Listed0 THEN Published(i) ELSE None
  BY <1>3 DEF Initially
<1>6. current \in [Incidents -> Occurrences \cup {None}]
  BY <1>2, <1>3, <1>4
<1>7. index \in Indexes /\ index.at = 0 /\ index.entries = current
  <2>1. 0 \in 0 .. MaxIndex
    BY FeedAssumption
  <2>2. QED BY <1>3, <1>6, <2>1 DEF Indexes
<1>8. V1OK
  BY <1>6, <1>7 DEF V1OK
<1>9. \A i \in Listed0 : O # None /\ Past(i, O) /\ Known(Published(i))
  BY <1>1, <1>2, <1>4, NoneAssumption DEF Past, Known
<1> HIDE DEF O
<1>10. \A i \in Incidents : activation[i] # None => Known(activation[i]) /\ activation[i].incident = i
  BY <1>2, <1>5, <1>9
<1>11. activation \in [Incidents -> Bindings \cup {None}]
  BY <1>2, <1>3, <1>5
<1>12. GuidanceOK
  BY <1>3, <1>10, <1>11, FeedAssumption DEF GuidanceOK
<1>13. BrokerOK
  <2>1. \A i \in Incidents : queued[i] = <<>>
    BY <1>3
  <2>2. queued \in [Incidents -> Seq(Bindings)]
    BY <1>3
  <2>3. \A i \in Incidents : Len(queued[i]) = 0
    BY <2>1
  <2>4. \A p \in Producers : producer[p] = Idle
    BY <1>3
  <2>5. QED BY <2>2, <2>3, <2>4 DEF BrokerOK
<1>14. ASSUME head # None PROVE Mirror(head) /\ head.source = index
  <2> DEFINE A == {Published(i) : i \in Listed0}
  <2>1. head = [source |-> index, at |-> 0, resolved |-> {}, active |-> A]
    BY <1>3, <1>14
  <2>2. head.source = index /\ head.at = 0 /\ head.resolved = {} /\ head.active = A
    BY <2>1
  <2>3. A \subseteq Bindings
    BY <1>2
  <2>4. head \in Documents
    BY <1>7, <2>1, <2>3 DEF Documents
  <2>5. \A r \in A : r.incident \in Listed0 /\ r = Published(r.incident)
                     /\ index.entries[r.incident] = r.occurrence
    BY <1>1, <1>2, <1>4, <1>7
  <2>6. \A i \in Incidents : index.entries[i] # None => \E r \in A : r.incident = i
    BY <1>2, <1>4, <1>7
  <2> HIDE DEF A
  <2>7. QED BY <1>7, <2>2, <2>4, <2>5, <2>6 DEF Mirror
<1>15. FeedOK
  BY <1>3, <1>10, <1>11, <1>14 DEF FeedOK
<1>16. Sources = {index}
  BY <1>3, <1>14 DEF Sources, Bound, Held
<1>17. SourcesOK
  <2>1. SourceOK(index)
    <3>1. \A i \in Incidents : index.entries[i] # None =>
            index.entries[i].lifecycle = "active" /\ Past(i, index.entries[i])
      BY <1>4, <1>7, <1>9 DEF O
    <3>2. QED BY <1>7, <3>1 DEF SourceOK
  <2>2. Ordered(index, index)
    BY <1>6, <1>7, OccurrenceNumbers DEF Ordered
  <2>3. QED BY <1>16, <2>1, <2>2 DEF SourcesOK
<1>18. ProducersOK
  BY <1>3 DEF ProducersOK
<1>19. CompletedMeansNotified
  <2>1. \A b \in settled : b.occurrence.number \in Nat
    BY <1>2, <1>3, OccurrenceNumbers
  <2>2. QED BY <1>3, <2>1 DEF CompletedMeansNotified
<1>20. QED BY <1>8, <1>12, <1>13, <1>15, <1>17, <1>18, <1>19 DEF IInv

-----------------------------------------------------------------------------
(* The guidance authority publisher *)

\* A step that leaves the feeds and the executions alone.
LEMMA QuietStep ==
    ASSUME IInv, UNCHANGED <<v1Vars, feedVars, producer, settled>>, GuidanceOK', BrokerOK'
    PROVE  IInv'
<1>1. /\ head' = head /\ registry' = registry /\ notified' = notified /\ producer' = producer
      /\ settled' = settled /\ index' = index /\ UNCHANGED v1Vars
  BY DEF feedVars, v1Vars
<1>2. Sources' = Sources
  BY <1>1 DEF Sources
<1>3. head # None => head' # None /\ head'.source.at >= head.source.at
  BY <1>1 DEF IInv, FeedOK, Mirror, Documents, Indexes
<1>4. /\ V1OK' /\ SourcesOK'
      /\ \A b : Known(b) => Known(b)'
      /\ \A w : WorkOK(w) => WorkOK(w)'
  BY <1>1, <1>2, <1>3, Stays
<1>5. FeedOK'
  BY <1>1, <1>4 DEF IInv, FeedOK, Mirror
<1>6. ProducersOK'
  BY <1>1, <1>4 DEF IInv, ProducersOK
<1>7. CompletedMeansNotified'
  BY <1>1 DEF IInv, CompletedMeansNotified
<1>8. QED BY <1>4, <1>5, <1>6, <1>7 DEF IInv

LEMMA KnownStays ==
    ASSUME UNCHANGED v1Vars
    PROVE  \A b : Known(b) => Known(b)'
BY DEF Known, Past, v1Vars

LEMMA BrokerStays ==
    ASSUME IInv, UNCHANGED <<queued, producer>>
    PROVE  BrokerOK'
BY DEF IInv, BrokerOK, Subject

LEMMA SubmitInv ==
    ASSUME IInv, NEW i \in Incidents, Submit(i)
    PROVE  IInv'
<1>1. /\ UNCHANGED <<v1Vars, feedVars, producer, settled>> /\ UNCHANGED <<queued, producer>>
      /\ UNCHANGED <<activation, publisher>>
  BY DEF Submit, envVars, brokerVars
<1>2. /\ submitted < MaxRequests /\ submitted' = submitted + 1 /\ current[i] # None
      /\ requests' = requests \cup
           {[incident |-> i, occurrence |-> current[i], request |-> submitted']}
  BY DEF Submit
<1>3. submitted' \in 0 .. MaxRequests
  BY <1>2, FeedAssumption DEF IInv, GuidanceOK
<1>4. current[i] \in Occurrences
  BY <1>2 DEF IInv, V1OK
<1>5. requests' \subseteq Bindings
  BY <1>2, <1>3, <1>4 DEF IInv, GuidanceOK, Bindings
<1>6. GuidanceOK'
  BY <1>1, <1>3, <1>5, KnownStays DEF IInv, GuidanceOK
<1>7. QED BY <1>1, <1>6, BrokerStays, QuietStep

\* The steps that change a request, or the publisher without the activation.
LEMMA RequestStep ==
    ASSUME IInv, UNCHANGED <<v1Vars, feedVars, producer, settled>>, UNCHANGED queued,
           UNCHANGED <<submitted, activation>>, requests' \subseteq requests,
           \/ publisher' \in {Idle, publisher}
           \/ publisher' \in [pc : {"activate", "enqueue"}, binding : Bindings, index : Indexes]
    PROVE  IInv'
<1>1. GuidanceOK'
  BY KnownStays DEF IInv, GuidanceOK
<1>2. BrokerOK'
  BY BrokerStays
<1>3. QED BY <1>1, <1>2, QuietStep

LEMMA RequestsInv ==
    ASSUME IInv, NEW b, Expire(b) \/ RejectRequest(b) \/ Authorize(b)
    PROVE  IInv'
<1>1. CASE Expire(b)
  BY <1>1, RequestStep DEF Expire, brokerVars
<1>2. CASE RejectRequest(b)
  BY <1>2, RequestStep DEF RejectRequest, brokerVars, envVars
<1>3. CASE Authorize(b)
  <2>1. b \in Bindings /\ index \in Indexes
    BY <1>3 DEF Authorize, IInv, GuidanceOK, V1OK
  <2>2. publisher' = [pc |-> "activate", binding |-> b, index |-> index]
    BY <1>3 DEF Authorize
  <2>3. publisher' \in [pc : {"activate", "enqueue"}, binding : Bindings, index : Indexes]
    BY <2>1, <2>2
  <2>4. QED BY <1>3, <2>3, RequestStep DEF Authorize, brokerVars, envVars
<1>4. QED BY <1>1, <1>2, <1>3

LEMMA PublisherAt ==
    ASSUME GuidanceOK, publisher # Idle
    PROVE  /\ publisher \in [pc : {"activate", "enqueue"}, binding : Bindings, index : Indexes]
           /\ publisher.binding \in Bindings /\ publisher.binding.incident \in Incidents
BY DEF GuidanceOK, Bindings

\* A binding for an entry of the v1 index that is current.
LEMMA AuthorityIsKnown ==
    ASSUME IInv, NEW b \in Bindings, CurrentAuthority(b)
    PROVE  Known(b)
<1> DEFINE i == b.incident
<1>1. i \in Incidents /\ b.occurrence \in Occurrences
  BY DEF Bindings
<1>2. current[i] = b.occurrence /\ index.entries[i] = b.occurrence
  BY DEF CurrentAuthority
<1>3. b.occurrence # None
  BY <1>1, NoneAssumption
<1>4. index \in Sources
  BY DEF Sources
<1>5. b.occurrence.lifecycle = "active" /\ Past(i, b.occurrence)
  BY <1>1, <1>2, <1>3, <1>4 DEF IInv, SourcesOK, SourceOK
<1>6. QED BY <1>5 DEF Known

LEMMA ActivateInv ==
    ASSUME IInv, Activate
    PROVE  IInv'
<1> DEFINE b == publisher.binding
<1>1. UNCHANGED <<v1Vars, feedVars, producer, settled>> /\ UNCHANGED queued /\ UNCHANGED submitted
  BY DEF Activate, envVars, brokerVars
<1>2. publisher # Idle
  BY DEF Activate, Idle
<1>3. /\ publisher \in [pc : {"activate", "enqueue"}, binding : Bindings, index : Indexes]
      /\ b \in Bindings /\ b.incident \in Incidents
  BY <1>2, PublisherAt DEF IInv
<1>4. \/ /\ UNCHANGED activation /\ publisher' = Idle /\ requests' \subseteq requests
      \/ /\ Unchanged /\ activation' = [activation EXCEPT ![b.incident] = b]
         /\ publisher' = [publisher EXCEPT !.pc = "enqueue"] /\ requests' = requests
  BY DEF Activate, EndRequest
<1>5. CASE UNCHANGED activation /\ publisher' = Idle /\ requests' \subseteq requests
  BY <1>1, <1>5, RequestStep
<1>6. CASE /\ Unchanged /\ activation' = [activation EXCEPT ![b.incident] = b]
           /\ publisher' = [publisher EXCEPT !.pc = "enqueue"] /\ requests' = requests
  <2>1. Known(b)
    BY <1>3, <1>6, AuthorityIsKnown DEF Unchanged
  <2>2. publisher' \in [pc : {"activate", "enqueue"}, binding : Bindings, index : Indexes]
    BY <1>3, <1>6
  <2>3. \A c : Known(c) => Known(c)'
    BY <1>1, KnownStays
  <2>4. activation \in [Incidents -> Bindings \cup {None}]
        /\ \A i \in Incidents : activation[i] # None => Known(activation[i]) /\ activation[i].incident = i
    BY DEF IInv, GuidanceOK
  <2>5. activation' \in [Incidents -> Bindings \cup {None}]
    BY <1>3, <1>6, <2>4
  <2>6. \A i \in Incidents : activation'[i] = IF i = b.incident THEN b ELSE activation[i]
    BY <1>6, <2>4
  <2> HIDE DEF b
  <2>7. \A i \in Incidents : activation'[i] # None =>
          Known(activation'[i]) /\ activation'[i].incident = i
    BY <2>1, <2>4, <2>6
  <2>8. \A i \in Incidents : activation'[i] # None => Known(activation[i])' /\ activation'[i].incident = i
    BY <1>1, <2>7 DEF Known, Past, v1Vars
  <2>9. requests' \subseteq Bindings /\ submitted' \in 0 .. MaxRequests
    BY <1>1, <1>6 DEF IInv, GuidanceOK
  <2>10. GuidanceOK'
    BY <2>2, <2>5, <2>8, <2>9 DEF GuidanceOK
  <2>11. BrokerOK'
    BY <1>1, BrokerStays
  <2>12. QED BY <1>1, <2>10, <2>11, QuietStep
<1>7. QED BY <1>4, <1>5, <1>6

LEMMA EnqueueInv ==
    ASSUME IInv, Enqueue
    PROVE  IInv'
<1> DEFINE b == publisher.binding
<1>1. UNCHANGED <<v1Vars, feedVars, producer, settled>> /\ UNCHANGED <<submitted, activation>>
  BY DEF Enqueue
<1>2. publisher # Idle
  BY DEF Enqueue, Idle
<1>3. b \in Bindings /\ b.incident \in Incidents
  BY <1>2, PublisherAt DEF IInv
<1>4. publisher' = Idle /\ requests' \subseteq requests
  BY DEF Enqueue, EndRequest
<1>5. UNCHANGED queued \/ queued' = [queued EXCEPT ![b.incident] = Append(queued[b.incident], b)]
  BY DEF Enqueue
<1>6. CASE UNCHANGED queued
  BY <1>1, <1>4, <1>6, RequestStep
<1>7. CASE queued' = [queued EXCEPT ![b.incident] = Append(queued[b.incident], b)]
  <2>1. GuidanceOK'
    BY <1>1, <1>4, KnownStays DEF IInv, GuidanceOK
  <2>2. queued \in [Incidents -> Seq(Bindings)]
        /\ \A i \in Incidents : \A n \in 1 .. Len(queued[i]) : queued[i][n].incident = i
    BY DEF IInv, BrokerOK
  <2> DEFINE s == queued[b.incident]
             t == Append(s, b)
  <2>3. /\ s \in Seq(Bindings) /\ t \in Seq(Bindings) /\ t # <<>>
        /\ \A n \in 1 .. Len(t) : t[n] = IF n = Len(s) + 1 THEN b ELSE s[n]
        /\ \A n \in 1 .. Len(t) : n # Len(s) + 1 => n \in 1 .. Len(s)
    <3>1. s \in Seq(Bindings)
      BY <1>3, <2>2
    <3> HIDE DEF s, b
    <3>2. t \in Seq(Bindings) /\ Len(t) = Len(s) + 1 /\ Len(s) \in Nat
      BY <1>3, <3>1
    <3>3. \A n \in 1 .. Len(t) : t[n] = IF n = Len(s) + 1 THEN b ELSE s[n]
      BY <1>3, <3>1, <3>2
    <3> HIDE DEF t
    <3>4. t # <<>>
      BY <3>2
    <3>5. \A n \in 1 .. Len(t) : n # Len(s) + 1 => n \in 1 .. Len(s)
      BY <3>2
    <3>6. QED BY <3>1, <3>2, <3>3, <3>4, <3>5
  <2>4. \A n \in 1 .. Len(t) : t[n].incident = b.incident
    BY <1>3, <2>2, <2>3
  <2>5. \A i \in Incidents : queued'[i] = IF i = b.incident THEN t ELSE queued[i]
    BY <1>3, <1>7, <2>2
  <2>6. queued' \in [Incidents -> Seq(Bindings)]
    BY <1>3, <1>7, <2>2, <2>3
  <2> HIDE DEF b, t
  <2>7. \A i \in Incidents : \A n \in 1 .. Len(queued'[i]) : queued'[i][n].incident = i
    BY <2>2, <2>4, <2>5
  <2>8. \A i \in Incidents : queued[i] # <<>> => queued'[i] # <<>>
    BY <2>3, <2>5
  <2>9. \A p \in Producers : producer[p] # Idle => Subject(p) \in Incidents
    BY WorkFields DEF IInv, ProducersOK, WorkOK, Subject
  <2>10. BrokerOK'
    BY <1>1, <2>6, <2>7, <2>8, <2>9 DEF IInv, BrokerOK, Subject
  <2>11. QED BY <1>1, <2>1, <2>10, QuietStep
<1>8. QED BY <1>5, <1>6, <1>7

LEMMA PublisherCrashInv ==
    ASSUME IInv, PublisherCrash
    PROVE  IInv'
BY RequestStep DEF PublisherCrash, EndRequest, brokerVars

-----------------------------------------------------------------------------
(* The trigger queue *)

\* A step of the queue while nobody has the session.
LEMMA UnlockedRemove ==
    ASSUME IInv, NEW i \in Incidents, Waits(i), Remove(i), UNCHANGED producer
    PROVE  BrokerOK'
<1>1. queued[i] # <<>> /\ SessionFree(i)
  BY DEF Waits
<1>2. /\ queued' \in [Incidents -> Seq(Bindings)]
      /\ \A j \in Incidents : \A n \in 1 .. Len(queued'[j]) : queued'[j][n].incident = j
      /\ \A j \in Incidents : j # i => queued'[j] = queued[j]
  BY <1>1, QueueRemove DEF IInv
<1>3. \A p \in Producers : producer[p] # Idle /\ producer[p].lock =>
        Subject(p) \in Incidents /\ Subject(p) # i
  BY <1>1, WorkFields DEF SessionFree, IInv, ProducersOK, WorkOK, Subject
<1>4. QED BY <1>2, <1>3 DEF IInv, BrokerOK, Subject

LEMMA GuidanceStays ==
    ASSUME IInv, UNCHANGED <<v1Vars, guidanceVars>>
    PROVE  GuidanceOK'
BY KnownStays DEF IInv, GuidanceOK, guidanceVars

LEMMA TriggerInv ==
    ASSUME IInv, NEW i \in Incidents, ExpireTrigger(i) \/ RejectTrigger(i)
    PROVE  IInv'
<1>1. /\ UNCHANGED <<v1Vars, feedVars, producer, settled>> /\ UNCHANGED guidanceVars
      /\ Waits(i) /\ Remove(i)
  BY DEF ExpireTrigger, RejectTrigger, envVars
<1>2. BrokerOK'
  BY <1>1, UnlockedRemove
<1>3. GuidanceOK'
  BY <1>1, GuidanceStays
<1>4. QED BY <1>1, <1>2, <1>3, QuietStep

-----------------------------------------------------------------------------
(* The executions of the enrichment runtime *)

LEMMA ProducerStep ==
    ASSUME IInv, NEW p \in Producers, NEW w, producer' = [producer EXCEPT ![p] = w],
           UNCHANGED <<v1Vars, guidanceVars>>, Sources' \subseteq Sources,
           notified \subseteq notified',
           head # None => head' # None /\ head'.source.at >= head.source.at,
           w = Idle \/ WorkOK(w)', FeedOK', BrokerOK', CompletedMeansNotified'
    PROVE  IInv'
<1>1. UNCHANGED v1Vars
  OBVIOUS
<1>2. /\ V1OK' /\ SourcesOK'
      /\ \A v : WorkOK(v) => WorkOK(v)'
  BY <1>1, Stays
<1>3. ProducersOK'
  BY <1>2, ProducersMove DEF IInv
<1>4. GuidanceOK'
  BY GuidanceStays
<1>5. QED BY <1>2, <1>3, <1>4 DEF IInv

\* The steps that leave the feed alone.
LEMMA FeedStays ==
    ASSUME IInv, UNCHANGED <<v1Vars, feedVars>>
    PROVE  /\ FeedOK' /\ head' = head /\ notified' = notified
           /\ head # None => head' # None /\ head'.source.at >= head.source.at
<1>1. head' = head /\ notified' = notified /\ registry' = registry
  BY DEF feedVars
<1>2. FeedOK'
  BY <1>1, KnownStays DEF IInv, FeedOK, Mirror
<1>3. head # None => head.source.at \in Nat
  BY DEF IInv, FeedOK, Mirror, Documents, Indexes
<1>4. QED BY <1>1, <1>2, <1>3

LEMMA SettleInv ==
    ASSUME IInv, NEW p \in Producers, producer[p] # Idle, NEW how, Settle(p, how),
           UNCHANGED <<v1Vars, guidanceVars, feedVars>>,
           how = "complete" => Told(producer[p].binding)
    PROVE  IInv'
<1>1. /\ BrokerOK' /\ producer' = [producer EXCEPT ![p] = Idle]
      /\ settled' \subseteq settled \cup {producer[p].binding}
      /\ how # "complete" => settled' = settled
  BY SettleStep DEF IInv
<1>2. /\ FeedOK' /\ head' = head /\ notified' = notified
      /\ head # None => head' # None /\ head'.source.at >= head.source.at
  BY FeedStays
<1>3. Sources' \subseteq Sources
  <2>1. Held(Idle) \subseteq Held(producer[p]) \cup {index}
    BY DEF Held
  <2>2. QED BY <1>1, <1>2, <2>1, SourcesMove DEF IInv, v1Vars
<1>4. CompletedMeansNotified'
  BY <1>1, <1>2 DEF IInv, CompletedMeansNotified, Told
<1>5. QED BY <1>1, <1>2, <1>3, <1>4, ProducerStep

\* The execution w0 goes on as w: it serves the same trigger and holds no other
\* v1 index than the one it held or the current one.
Follows(w0, w) ==
    /\ WorkOK(w) /\ w.binding = w0.binding /\ w.lock = w0.lock
    /\ w.index \in {None, index, w0.index}

\* The indexes in use when an execution goes on.
LEMMA FollowSources ==
    ASSUME IInv, NEW p \in Producers, producer[p] # Idle, NEW w, Follows(producer[p], w),
           UNCHANGED index, producer' = [producer EXCEPT ![p] = w],
           Bound(head') \subseteq Bound(head) \cup Held(producer[p])
    PROVE  Sources' \subseteq Sources
<1>1. w # Idle
  BY WorkFields DEF Follows, WorkOK
<1>2. Held(w) \subseteq Held(producer[p]) \cup {index}
  BY <1>1 DEF Held, Follows
<1>3. QED BY <1>2, SourcesMove DEF IInv

LEMMA ContinueInv ==
    ASSUME IInv, NEW p \in Producers, producer[p] # Idle, NEW w, Continue(p, w),
           UNCHANGED <<v1Vars, guidanceVars, feedVars>>, w = None \/ Follows(producer[p], w)
    PROVE  IInv'
<1>1. CASE w = None /\ Settle(p, "abandon")
  BY <1>1, SettleInv
<1>2. CASE w # None /\ Goto(p, w) /\ UNCHANGED brokerVars
  <2>1. /\ producer' = [producer EXCEPT ![p] = w] /\ UNCHANGED <<queued, settled>>
        /\ Follows(producer[p], w)
    BY <1>2 DEF Goto, brokerVars
  <2>2. /\ FeedOK' /\ head' = head /\ notified' = notified
        /\ head # None => head' # None /\ head'.source.at >= head.source.at
    BY FeedStays
  <2>3. Sources' \subseteq Sources
    BY <2>1, <2>2, FollowSources DEF v1Vars
  <2>4. w \in Works /\ WorkOK(w) /\ w.binding = producer[p].binding /\ w.lock = producer[p].lock
    BY <2>1 DEF Follows, WorkOK
  <2>5. BrokerOK'
    BY <2>1, <2>4, BrokerMove DEF IInv
  <2>6. WorkOK(w)'
    BY <2>2, <2>3, <2>4, Stays
  <2>7. CompletedMeansNotified'
    BY <2>1, <2>2 DEF IInv, CompletedMeansNotified
  <2>8. QED BY <2>1, <2>2, <2>3, <2>5, <2>6, <2>7, ProducerStep
<1>3. QED BY <1>1, <1>2 DEF Continue

LEMMA FailInv ==
    ASSUME IInv, NEW p \in Producers, Fail(p)
    PROVE  IInv'
BY SettleInv DEF Fail

\* What the execution holds when it serves a trigger.
LEMMA WorkAt ==
    ASSUME IInv, NEW p \in Producers, producer[p] # Idle
    PROVE  /\ WorkOK(producer[p]) /\ producer[p] \in Works
           /\ producer[p].binding \in Bindings /\ Subject(p) \in Incidents
           /\ producer[p].binding.incident = Subject(p)
BY WorkFields DEF IInv, ProducersOK, WorkOK, Subject

LEMMA LoseLockInv ==
    ASSUME IInv, NEW p \in Producers, LoseLock(p)
    PROVE  IInv'
<1>a. PICK w : w = [producer[p] EXCEPT !.lock = FALSE]
  OBVIOUS
<1>1. /\ producer[p] # Idle /\ producer[p].lock /\ producer' = [producer EXCEPT ![p] = w]
      /\ UNCHANGED <<v1Vars, guidanceVars, feedVars>> /\ UNCHANGED <<v1Vars, feedVars>>
      /\ UNCHANGED index /\ settled' = settled
      /\ (UNCHANGED queued \/ Remove(Subject(p)))
  BY <1>a DEF LoseLock, Goto, GiveBack, v1Vars
<1>2. WorkOK(producer[p]) /\ producer[p] \in Works
  BY <1>1, WorkAt
<1>3. /\ w \in Works /\ w # Idle /\ w.lock = FALSE /\ w.pc = producer[p].pc
      /\ w.binding = producer[p].binding /\ w.own = producer[p].own
      /\ w.index = producer[p].index /\ w.candidate = producer[p].candidate
      /\ w.seen = producer[p].seen
  <2>1. w \in Works
    BY <1>2, <1>a DEF Works
  <2>2. QED BY <1>2, <1>a, <2>1, WorkFields DEF Works
<1>4. WorkOK(w)
  BY <1>2, <1>3 DEF WorkOK
<1>5. /\ FeedOK' /\ head' = head /\ notified' = notified
      /\ head # None => head' # None /\ head'.source.at >= head.source.at
  BY <1>1, FeedStays
<1>6. Sources' \subseteq Sources
  <2>1. Held(w) \subseteq Held(producer[p]) \cup {index}
    BY <1>1, <1>3 DEF Held
  <2>2. QED BY <1>1, <1>5, <2>1, SourcesMove DEF IInv
<1>7. WorkOK(w)'
  BY <1>1, <1>4, <1>5, <1>6, Stays
<1>8. BrokerOK'
  BY <1>1, <1>3, BrokerRelease DEF IInv
<1>9. CompletedMeansNotified'
  BY <1>1, <1>5 DEF IInv, CompletedMeansNotified
<1>10. QED BY <1>1, <1>5, <1>6, <1>7, <1>8, <1>9, ProducerStep

LEMMA ReceiveInv ==
    ASSUME IInv, NEW p \in Producers, NEW i \in Incidents, Receive(p, i)
    PROVE  IInv'
<1>a. PICK b : b = Oldest(i)
  OBVIOUS
<1>b. PICK w : w = [pc |-> "enrich", binding |-> b, lock |-> TRUE, published |-> index.at + 1,
                    at |-> index.at + 1, outer |-> 1, tries |-> 1,
                    index |-> index, own |-> None, candidate |-> None, seen |-> None]
  OBVIOUS
<1>1. /\ producer[p] = Idle /\ queued[i] # <<>> /\ SessionFree(i) /\ Authorized(b)
      /\ producer' = [producer EXCEPT ![p] = w]
      /\ UNCHANGED <<v1Vars, guidanceVars, feedVars>> /\ UNCHANGED <<v1Vars, feedVars>>
      /\ UNCHANGED index /\ queued' = queued /\ settled' = settled
  BY <1>a, <1>b DEF Receive, Waits, Goto, envVars, v1Vars
<1>2. b \in Bindings /\ b.incident = i
  <2>1. queued[i] \in Seq(Bindings) /\ \A n \in 1 .. Len(queued[i]) : queued[i][n].incident = i
    BY DEF IInv, BrokerOK
  <2>2. 1 \in 1 .. Len(queued[i]) /\ b = queued[i][1]
    BY <1>1, <1>a, <2>1 DEF Oldest
  <2>3. QED BY <2>1, <2>2
<1>3. Known(b)
  <2>1. activation[i] = b /\ b # None
    BY <1>1, <1>2, NoneAssumption DEF Authorized
  <2>2. QED BY <2>1 DEF IInv, GuidanceOK
<1>4. index \in Indexes /\ index.at \in Nat
  BY DEF IInv, V1OK, Indexes
<1>5. w \in Works
  BY <1>2, <1>4, <1>b DEF Works, Labels
<1>6. w.pc = "enrich" /\ w.binding = b /\ w.index = index /\ w.lock = TRUE
  BY <1>b
<1>7. WorkOK(w)
  BY <1>3, <1>4, <1>5, <1>6 DEF WorkOK
<1>8. /\ FeedOK' /\ head' = head /\ notified' = notified
      /\ head # None => head' # None /\ head'.source.at >= head.source.at
  BY <1>1, FeedStays
<1>9. Sources' \subseteq Sources
  <2>1. Held(w) \subseteq Held(producer[p]) \cup {index}
    BY <1>6 DEF Held
  <2>2. QED BY <1>1, <1>8, <2>1, SourcesMove DEF IInv
<1>10. WorkOK(w)'
  BY <1>1, <1>7, <1>8, <1>9, Stays
<1>11. BrokerOK'
  <2>1. producer' = [q \in Producers |-> IF q = p THEN w ELSE producer[q]]
    BY <1>1 DEF IInv, ProducersOK
  <2>2. Subject(p)' = i
    BY <1>2, <1>6, <2>1 DEF Subject
  <2>3. \A q \in Producers : q # p => producer'[q] = producer[q] /\ Subject(q)' = Subject(q)
    BY <2>1 DEF Subject
  <2>4. \A q \in Producers : q # p /\ producer'[q] # Idle /\ producer'[q].lock => Subject(q)' # i
    BY <1>1, <2>3 DEF SessionFree
  <2>5. QED BY <1>1, <2>2, <2>3, <2>4 DEF IInv, BrokerOK
<1>12. CompletedMeansNotified'
  BY <1>1, <1>8 DEF IInv, CompletedMeansNotified
<1>13. QED BY <1>1, <1>8, <1>9, <1>10, <1>11, <1>12, ProducerStep

-----------------------------------------------------------------------------
(* The operators that say how an execution goes on *)

LEMMA MaxOfPair ==
    ASSUME NEW a \in Nat, NEW b \in Nat
    PROVE  /\ Max({a, b}) \in Nat /\ Max({a, b}) \in {a, b}
           /\ Max({a, b}) >= a /\ Max({a, b}) >= b
<1>1. \E x \in {a, b} : \A y \in {a, b} : x >= y
  <2>1. CASE a >= b
    BY <2>1
  <2>2. CASE b >= a
    BY <2>2
  <2>3. QED BY <2>1, <2>2
<1>2. Max({a, b}) \in {a, b} /\ \A y \in {a, b} : Max({a, b}) >= y
  BY <1>1 DEF Max
<1>3. QED BY <1>2

\* An execution that starts over with the v1 index.
LEMMA Restart ==
    ASSUME NEW w, WorkOK(w), NEW v \in Works, v.pc = "source", v.binding = w.binding,
           v.lock = w.lock, v.index = None
    PROVE  Follows(w, v)
BY DEF Follows, WorkOK

LEMMA FreshWork ==
    ASSUME NEW w \in Works
    PROVE  /\ Fresh(w) \in Works /\ Fresh(w).binding = w.binding /\ Fresh(w).lock = w.lock
           /\ Fresh(w).index = None
BY DEF Works, Fresh

LEMMA PublishAgainFollows ==
    ASSUME NEW w, WorkOK(w), NEW at \in Nat
    PROVE  PublishAgain(w, at) = None \/ Follows(w, PublishAgain(w, at))
<1>1. w \in Works
  BY DEF WorkOK
<1> DEFINE n == Fresh(w).outer + 1
           v == [Fresh(w) EXCEPT !.pc = "source", !.outer = n, !.tries = 1, !.at = at]
<1>2. PublishAgain(w, at) = None \/ PublishAgain(w, at) = v
  BY DEF PublishAgain
<1>f. /\ Fresh(w) \in Works /\ Fresh(w).binding = w.binding /\ Fresh(w).lock = w.lock
      /\ Fresh(w).index = None
  BY <1>1, FreshWork
<1>n. n \in Nat
  BY <1>f DEF Works
<1> HIDE DEF n
<1>3. v \in Works
  BY <1>f, <1>n DEF Works, Labels
<1>4. v.pc = "source" /\ v.binding = w.binding /\ v.lock = w.lock /\ v.index = None
  BY <1>f DEF Works
<1> HIDE DEF v
<1>5. Follows(w, v)
  BY <1>3, <1>4, Restart
<1>6. QED BY <1>2, <1>5

LEMMA NextAttemptFollows ==
    ASSUME NEW w, WorkOK(w)
    PROVE  NextAttempt(w) = None \/ Follows(w, NextAttempt(w))
<1>1. w \in Works /\ w.at + 1 \in Nat
  BY DEF WorkOK, Works
<1> DEFINE n == Fresh(w).tries + 1
           v == [Fresh(w) EXCEPT !.pc = "source", !.tries = n]
<1>2. NextAttempt(w) = PublishAgain(w, w.at + 1) \/ NextAttempt(w) = v
  BY DEF NextAttempt
<1>f. /\ Fresh(w) \in Works /\ Fresh(w).binding = w.binding /\ Fresh(w).lock = w.lock
      /\ Fresh(w).index = None
  BY <1>1, FreshWork
<1>n. n \in Nat
  BY <1>f DEF Works
<1> HIDE DEF n
<1>3. v \in Works
  BY <1>f, <1>n DEF Works, Labels
<1>4. v.pc = "source" /\ v.binding = w.binding /\ v.lock = w.lock /\ v.index = None
  BY <1>f DEF Works
<1> HIDE DEF v
<1>5. Follows(w, v)
  BY <1>3, <1>4, Restart
<1>6. QED BY <1>1, <1>2, <1>5, PublishAgainFollows

LEMMA ConflictFollows ==
    ASSUME NEW w, WorkOK(w), NEW doc \in Documents
    PROVE  Conflict(w, doc) = None \/ Follows(w, Conflict(w, doc))
<1>1. w.at + 1 \in Nat /\ doc.at + 1 \in Nat
  BY DEF WorkOK, Works, Documents
<1>2. Max({w.at + 1, doc.at + 1}) \in Nat
  BY <1>1, MaxOfPair
<1>3. QED BY <1>2, PublishAgainFollows DEF Conflict

\* The feed-v2 index lists the binding: no later one shows an older occurrence.
LEMMA AcceptFollows ==
    ASSUME IInv, NEW w, WorkOK(w), head # None
    PROVE  Accept(w, head) = None \/ Follows(w, Accept(w, head))
<1>1. w \in Works /\ Mirror(head) /\ head \in Documents
  BY DEF WorkOK, IInv, FeedOK, Mirror
<1>2. w.at \in Nat /\ head.at + 1 \in Nat
  BY <1>1 DEF Works, Documents
<1>3. CASE w.binding \notin Listed(head)
  <2>1. Max({w.at, head.at + 1}) \in Nat
    BY <1>2, MaxOfPair
  <2>2. QED BY <1>3, <2>1, PublishAgainFollows DEF Accept
<1>4. CASE w.binding \in Listed(head)
  <2> DEFINE v == [Fresh(w) EXCEPT !.pc = "notify"]
             b == w.binding
             i == w.binding.incident
  <2>1. Accept(w, head) = v
    BY <1>4 DEF Accept
  <2>2. v \in Works
    BY <1>1 DEF Works, Fresh, Labels
  <2>3. v.pc = "notify" /\ v.binding = w.binding /\ v.lock = w.lock /\ v.index = None
    BY <1>1 DEF Works, Fresh
  <2>4. head.source.entries[i] = b.occurrence
    BY <1>1, <1>4 DEF Mirror, Listed
  <2>5. b.occurrence # None /\ b.occurrence.number \in Nat /\ i \in Incidents
    BY <1>1, WorkFields, NoneAssumption, OccurrenceNumbers
  <2>6. Since(b, head.source.at)
    <3>1. SUFFICES ASSUME NEW X \in Sources, X.at >= head.source.at, X.entries[i] # None
                   PROVE  X.entries[i].number >= b.occurrence.number
      BY DEF Since
    <3>2. head.source \in Sources
      BY DEF Sources, Bound
    <3>3. Ordered(head.source, X) /\ X \in Indexes /\ head.source \in Indexes
      BY <3>2 DEF IInv, SourcesOK, SourceOK
    <3>4. head.source.at <= X.at
      BY <3>1, <3>3 DEF Indexes
    <3>5. head.source.entries[i].number <= X.entries[i].number
      BY <2>4, <2>5, <3>1, <3>3, <3>4 DEF Ordered
    <3>6. X.entries[i].number \in Nat
      BY <2>5, <3>1, <3>3, OccurrenceNumbers DEF Indexes
    <3>7. QED BY <2>4, <2>5, <3>5, <3>6
  <2>7. Known(b)
    BY DEF WorkOK
  <2> HIDE DEF v
  <2>8. WorkOK(v)
    BY <2>2, <2>3, <2>6, <2>7 DEF WorkOK
  <2>9. QED BY <2>1, <2>3, <2>8 DEF Follows
<1>5. QED BY <1>3, <1>4

\* A projection shows exactly the v1 index.
LEMMA CandidateMirrors ==
    ASSUME IInv, NEW X \in Indexes, NEW at \in Nat, at >= X.at, Projects(X)
    PROVE  /\ Mirror(Candidate(X, at)) /\ Candidate(X, at).source = X
           /\ Candidate(X, at).at = at /\ Candidate(X, at) \in Documents
<1> DEFINE doc == Candidate(X, at)
<1>1. \A r \in Rows : /\ r \in Bindings /\ r.incident \in Incidents /\ r = registry[r.incident]
                      /\ r.occurrence.lifecycle = "active"
  BY DEF Rows, IInv, FeedOK, Known, Bindings
<1>2. \A r \in Rows : X.entries[r.incident] = r.occurrence
  BY <1>1 DEF Projects
<1>3. \A i \in Incidents : X.entries[i] # None => \E r \in Rows : r.incident = i
  BY DEF Projects, Rows, IInv, FeedOK
<1>4. doc.source = X /\ doc.at = at /\ doc.active = Rows /\ doc.resolved = {}
  BY <1>1 DEF Candidate
<1>5. doc \in Documents
  BY <1>1 DEF Candidate, Documents
<1> HIDE DEF doc
<1>6. Mirror(doc)
  BY <1>1, <1>2, <1>3, <1>4, <1>5 DEF Mirror
<1>7. QED BY <1>4, <1>5, <1>6 DEF doc

\* A candidate for the current v1 index with a later time may follow the feed-v2 index.
LEMMA MayFollowHead ==
    ASSUME IInv, head # None, NEW doc, Mirror(doc), doc.source = index, doc.at > head.at
    PROVE  Later(head, doc)
<1>1. Mirror(head) /\ head.source \in Indexes /\ index \in Indexes
  BY DEF IInv, FeedOK, V1OK, Mirror, Documents
<1>2. head.source \in Sources /\ index \in Sources
  BY DEF Sources, Bound
<1>3. head.source.at <= index.at /\ Ordered(head.source, index)
  BY <1>2 DEF IInv, SourcesOK, SourceOK
<1>4. doc.source.at >= head.source.at
  BY <1>1, <1>3 DEF Indexes
<1>5. ASSUME NEW r \in Listed(head), NEW q \in Listed(doc), r.incident = q.incident
      PROVE  q.occurrence.number >= r.occurrence.number
  <2>1. /\ r \in head.active /\ q \in doc.active /\ r \in Bindings /\ q \in Bindings
    BY <1>1 DEF Listed, Mirror, Documents
  <2>2. head.source.entries[r.incident] = r.occurrence /\ index.entries[r.incident] = q.occurrence
    BY <1>1, <1>5, <2>1 DEF Mirror
  <2>3. /\ r.occurrence \in Occurrences /\ q.occurrence \in Occurrences /\ r.incident \in Incidents
    BY <2>1 DEF Bindings
  <2>4. r.occurrence.number <= q.occurrence.number
    BY <1>3, <2>2, <2>3, NoneAssumption DEF Ordered
  <2>5. QED BY <2>3, <2>4, OccurrenceNumbers
<1>6. QED BY <1>4, <1>5 DEF Later

\* The execution goes on to commit a candidate.
LEMMA CommitFollows ==
    ASSUME NEW w, WorkOK(w), NEW v \in Works, v.pc = "commit", v.binding = w.binding,
           v.lock = w.lock, v.index = w.index, v.index \in Indexes, Mirror(v.candidate),
           v.candidate.source = v.index, v.seen = None \/ Later(v.seen, v.candidate)
    PROVE  Follows(w, v)
BY DEF Follows, WorkOK

\* What an execution that looks at the feed-v2 index holds.
LEMMA LooksAt ==
    ASSUME NEW w, WorkOK(w), w.pc \in {"decide", "commit", "reconcile", "confirm_head"}
    PROVE  /\ w \in Works /\ w.index \in Indexes /\ Mirror(w.candidate)
           /\ w.candidate.source = w.index /\ w.candidate \in Documents
           /\ w.candidate.at \in Nat
BY DEF WorkOK, Mirror, Documents

LEMMA RepairFollows ==
    ASSUME IInv, NEW w, WorkOK(w), w.pc = "decide", w.seen = head, head # None, w.index = index
    PROVE  Repair(w) = None \/ Follows(w, Repair(w))
<1>1. /\ w \in Works /\ w.index \in Indexes /\ Mirror(w.candidate)
      /\ w.candidate.source = w.index /\ w.candidate \in Documents /\ w.candidate.at \in Nat
  BY LooksAt
<1>2. head \in Documents /\ head.at \in Nat
  BY DEF IInv, FeedOK, Mirror, Documents
<1> DEFINE at == Max({w.candidate.at, w.seen.at + 1})
<1>3. at \in Nat /\ at >= w.candidate.at /\ at >= head.at + 1
  BY <1>1, <1>2, MaxOfPair
<1> HIDE DEF at
<1>4. at > head.at /\ at >= w.index.at
  <2>1. w.candidate.at >= w.index.at /\ w.index.at \in Nat
    BY <1>1 DEF Mirror, Indexes
  <2>2. QED BY <1>1, <1>2, <1>3, <2>1
<1>5. CASE at = w.candidate.at
  <2> DEFINE v == [w EXCEPT !.pc = "commit"]
  <2>1. Repair(w) = v
    BY <1>5 DEF Repair, at
  <2>2. v \in Works
    BY <1>1 DEF Works, Labels
  <2>3. /\ v.pc = "commit" /\ v.binding = w.binding /\ v.lock = w.lock /\ v.index = w.index
        /\ v.candidate = w.candidate /\ v.seen = head
    BY <1>1 DEF Works
  <2> HIDE DEF v
  <2>4. Later(head, w.candidate)
    BY <1>1, <1>4, <1>5, MayFollowHead
  <2>5. Follows(w, v)
    BY <1>1, <2>2, <2>3, <2>4, CommitFollows
  <2>6. QED BY <2>1, <2>5
<1>6. CASE at # w.candidate.at /\ Projects(w.index)
  <2> DEFINE doc == Candidate(w.index, at)
             v == [w EXCEPT !.pc = "commit", !.candidate = doc]
  <2>1. Repair(w) = v
    BY <1>6 DEF Repair, at
  <2>2. Mirror(doc) /\ doc.source = w.index /\ doc.at = at /\ doc \in Documents
    BY <1>1, <1>3, <1>4, <1>6, CandidateMirrors
  <2> HIDE DEF doc
  <2>3. v \in Works
    BY <1>1, <2>2 DEF Works, Labels
  <2>4. /\ v.pc = "commit" /\ v.binding = w.binding /\ v.lock = w.lock /\ v.index = w.index
        /\ v.candidate = doc /\ v.seen = head
    BY <1>1 DEF Works
  <2> HIDE DEF v
  <2>5. Later(head, doc)
    BY <1>4, <2>2, MayFollowHead
  <2>6. Follows(w, v)
    BY <1>1, <2>2, <2>3, <2>4, <2>5, CommitFollows
  <2>7. QED BY <2>1, <2>6
<1>7. CASE at # w.candidate.at /\ ~ Projects(w.index)
  BY <1>7 DEF Repair, at
<1>8. QED BY <1>5, <1>6, <1>7

LEMMA ClassifyFollows ==
    ASSUME IInv, NEW w, WorkOK(w), head # None,
           \/ w.pc = "decide" /\ w.seen = head /\ w.index = index
           \/ w.pc = "reconcile" /\ ~ (head.at < w.candidate.at)
    PROVE  Classify(w, head) = None \/ Follows(w, Classify(w, head))
<1>1. /\ w \in Works /\ w.index \in Indexes /\ Mirror(w.candidate)
      /\ w.candidate.source = w.index /\ w.candidate \in Documents /\ w.candidate.at \in Nat
  BY LooksAt
<1>2. head \in Documents /\ head.at \in Nat
  BY DEF IInv, FeedOK, Mirror, Documents
<1>3. CASE head = w.candidate \/ head.at > w.candidate.at
  BY <1>3, AcceptFollows DEF Classify
<1>4. CASE ~ (head = w.candidate \/ head.at > w.candidate.at) /\ head.at = w.candidate.at
  BY <1>2, <1>4, ConflictFollows DEF Classify
<1>5. CASE ~ (head = w.candidate \/ head.at > w.candidate.at) /\ head.at # w.candidate.at
  <2> DEFINE v == [w EXCEPT !.pc = "commit"]
  <2>1. Classify(w, head) = v
    BY <1>5 DEF Classify
  <2>2. w.candidate.at > head.at
    BY <1>1, <1>2, <1>5
  <2>3. w.seen = head /\ w.index = index
    BY <1>1, <1>2, <2>2
  <2>4. v \in Works
    BY <1>1 DEF Works, Labels
  <2>5. /\ v.pc = "commit" /\ v.binding = w.binding /\ v.lock = w.lock /\ v.index = w.index
        /\ v.candidate = w.candidate /\ v.seen = head
    BY <1>1, <2>3 DEF Works
  <2> HIDE DEF v
  <2>6. Later(head, w.candidate)
    BY <1>1, <2>2, <2>3, MayFollowHead
  <2>7. Follows(w, v)
    BY <1>1, <2>4, <2>5, <2>6, CommitFollows
  <2>8. QED BY <2>1, <2>7
<1>6. QED BY <1>3, <1>4, <1>5

-----------------------------------------------------------------------------
(* The steps of an execution *)

LEMMA NotIdle ==
    ASSUME NEW p \in Producers, NEW label \in Labels, At(p, label)
    PROVE  producer[p] # Idle
BY DEF At, Idle, Labels

LEMMA RowsFinite ==
    ASSUME IInv
    PROVE  Cardinality(Rows) \in Nat
<1> DEFINE T == {registry[i] : i \in Incidents}
<1>a. registry \in [Incidents -> T]
  BY DEF IInv, FeedOK
<1>b. registry \in Surjection(Incidents, T)
  BY <1>a DEF Surjection
<1>1. IsFiniteSet(T)
  BY <1>b, FS_Surjection, FeedAssumption
<1>2. IsFiniteSet(Rows)
  BY <1>1, FS_Subset DEF Rows
<1>3. QED BY <1>2, FS_CardinalityType

LEMMA EnrichInv ==
    ASSUME IInv, NEW p \in Producers, Enrich(p)
    PROVE  IInv'
<1> DEFINE w0 == producer[p]
           i == Subject(p)
           own == registry[i]
           size == Cardinality(Rows)
           w1 == [w0 EXCEPT !.index = None]
           v1 == [w1 EXCEPT !.pc = "source"]
           v2 == [w1 EXCEPT !.pc = "write", !.own = [row |-> own, size |-> size]]
<1>1. At(p, "enrich") /\ UNCHANGED <<v1Vars, guidanceVars, feedVars>>
  BY DEF Enrich, envVars
<1>2. w0 # Idle
  BY <1>1, NotIdle DEF Labels
<1>3. WorkOK(w0) /\ w0 \in Works /\ i \in Incidents /\ w0.binding.incident = i
  BY <1>2, WorkAt
<1>4. CASE Settle(p, "reject")
  BY <1>1, <1>2, <1>4, SettleInv
<1>5. CASE /\ Coherent(w0)
           /\ Continue(p, IF own = w1.binding THEN v1
                          ELSE IF own # None /\ IsCurrent(own) THEN None ELSE v2)
  <2>1. own \in Bindings \cup {None} /\ size \in Nat
    BY <1>3, RowsFinite DEF IInv, FeedOK
  <2>2. own # None => Known(own) /\ own.incident = i
    BY <1>3 DEF IInv, FeedOK
  <2>3. w0.binding.occurrence = current[i] /\ Known(w0.binding)
    BY <1>3, <1>5 DEF Coherent, WorkOK
  <2> HIDE DEF own, size, i
  <2>4. Follows(w0, v1)
    <3>1. v1 \in Works
      BY <1>3 DEF Works, Labels
    <3>2. v1.pc = "source" /\ v1.binding = w0.binding /\ v1.lock = w0.lock /\ v1.index = None
      BY <1>3 DEF Works
    <3> HIDE DEF v1, w1, w0
    <3>3. QED BY <1>3, <3>1, <3>2, Restart
  <2>5. ASSUME ~ (own # None /\ IsCurrent(own)) PROVE Follows(w0, v2)
    <3>1. [row |-> own, size |-> size] \in Owns
      BY <2>1 DEF Owns
    <3>2. v2 \in Works
      BY <1>3, <3>1 DEF Works, Labels
    <3>3. /\ v2.pc = "write" /\ v2.binding = w0.binding /\ v2.lock = w0.lock /\ v2.index = None
          /\ v2.own = [row |-> own, size |-> size]
      BY <1>3 DEF Works
    <3> HIDE DEF v2, w1, w0
    <3>4. ASSUME own # None PROVE own.occurrence.number < w0.binding.occurrence.number
      <4>1. own.occurrence # current[i] /\ Past(i, own.occurrence)
        BY <2>2, <2>5, <3>4 DEF IsCurrent, Known
      <4>2. own.occurrence.number \in Nat /\ current[i].number \in Nat
        BY <2>3, <4>1, OccurrenceNumbers DEF Past, Known, Bindings
      <4>3. own.occurrence.number # current[i].number /\ own.occurrence.number <= current[i].number
        BY <4>1 DEF Past
      <4>4. QED BY <2>3, <4>2, <4>3
    <3>5. WorkOK(v2)
      BY <2>3, <3>1, <3>2, <3>3, <3>4 DEF WorkOK
    <3>6. QED BY <3>3, <3>5 DEF Follows
  <2> DEFINE v == IF own = w1.binding THEN v1
                  ELSE IF own # None /\ IsCurrent(own) THEN None ELSE v2
  <2>6. v = None \/ Follows(w0, v)
    <3> HIDE DEF v1, v2, w1
    <3>1. QED BY <2>4, <2>5
  <2> HIDE DEF v
  <2>7. Continue(p, v)
    BY <1>5 DEF v
  <2>8. QED BY <1>1, <1>2, <2>6, <2>7, ContinueInv
<1>6. QED BY <1>4, <1>5 DEF Enrich

LEMMA WriteInv ==
    ASSUME IInv, NEW p \in Producers, Write(p)
    PROVE  IInv'
<1>a. PICK w : w = [producer[p] EXCEPT !.pc = "source", !.own = None]
  OBVIOUS
<1> DEFINE b == producer[p].binding
<1>1. /\ At(p, "write") /\ producer' = [producer EXCEPT ![p] = w]
      /\ UNCHANGED <<v1Vars, guidanceVars>> /\ UNCHANGED index /\ UNCHANGED <<queued, settled>>
      /\ head' = head /\ notified' = notified
      /\ registry' = registry \/ registry' = [registry EXCEPT ![b.incident] = b]
  BY <1>a DEF Write, Goto, envVars, v1Vars, brokerVars
<1>2. producer[p] # Idle
  BY <1>1, NotIdle DEF Labels
<1>3. WorkOK(producer[p]) /\ producer[p] \in Works /\ b.incident \in Incidents /\ Known(b)
      /\ b \in Bindings
  <2>1. WorkOK(producer[p]) /\ producer[p] \in Works
    BY <1>2, WorkAt
  <2>2. QED BY <2>1, WorkFields DEF WorkOK
<1>4. w \in Works
  BY <1>3, <1>a DEF Works, Labels
<1>5. /\ w.pc = "source" /\ w.binding = b /\ w.lock = producer[p].lock
      /\ w.index = producer[p].index
  BY <1>3, <1>a DEF Works
<1>6. WorkOK(w)
  BY <1>3, <1>4, <1>5 DEF WorkOK
<1>7. Follows(producer[p], w)
  BY <1>5, <1>6 DEF Follows
<1>8. Sources' \subseteq Sources
  BY <1>1, <1>2, <1>7, FollowSources
<1>9. head # None => head' # None /\ head'.source.at >= head.source.at
  BY <1>1 DEF IInv, FeedOK, Mirror, Documents, Indexes
<1>10. WorkOK(w)'
  BY <1>1, <1>6, <1>8, <1>9, Stays
<1>11. BrokerOK'
  BY <1>1, <1>2, <1>4, <1>5, BrokerMove DEF IInv
<1>12. FeedOK'
  <2>1. registry \in [Incidents -> Bindings \cup {None}]
        /\ \A i \in Incidents : registry[i] # None => Known(registry[i]) /\ registry[i].incident = i
    BY DEF IInv, FeedOK
  <2>2. registry' \in [Incidents -> Bindings \cup {None}]
    BY <1>1, <1>3, <2>1
  <2>3. \A i \in Incidents : registry'[i] # None =>
          Known(registry'[i]) /\ registry'[i].incident = i
    <3> HIDE DEF b
    <3>1. QED BY <1>1, <1>3, <2>1
  <2>4. \A i \in Incidents : registry'[i] # None => Known(registry[i])' /\ registry'[i].incident = i
    BY <1>1, <2>3 DEF Known, Past, v1Vars
  <2>5. QED BY <1>1, <2>2, <2>4 DEF IInv, FeedOK, Mirror
<1>13. CompletedMeansNotified'
  BY <1>1 DEF IInv, CompletedMeansNotified
<1>14. QED BY <1>1, <1>8, <1>9, <1>10, <1>11, <1>12, <1>13, ProducerStep

LEMMA ReadSourceInv ==
    ASSUME IInv, NEW p \in Producers, ReadSource(p)
    PROVE  IInv'
<1> DEFINE w == producer[p]
           v == [w EXCEPT !.pc = "project", !.index = index]
<1>1. /\ At(p, "source") /\ UNCHANGED <<v1Vars, guidanceVars, feedVars>>
      /\ Continue(p, None) \/ Continue(p, v)
  BY DEF ReadSource, envVars
<1>2. w # Idle
  BY <1>1, NotIdle DEF Labels
<1>3. WorkOK(w) /\ w \in Works /\ index \in Indexes
  BY <1>2, WorkAt DEF IInv, V1OK
<1>4. v \in Works
  BY <1>3 DEF Works, Labels
<1>5. v.pc = "project" /\ v.binding = w.binding /\ v.lock = w.lock /\ v.index = index
  BY <1>3 DEF Works
<1> HIDE DEF v
<1>6. WorkOK(v)
  BY <1>3, <1>4, <1>5 DEF WorkOK
<1>7. Follows(w, v)
  BY <1>5, <1>6 DEF Follows
<1>8. QED BY <1>1, <1>2, <1>7, ContinueInv

LEMMA ProjectInv ==
    ASSUME IInv, NEW p \in Producers, Project(p)
    PROVE  IInv'
<1> DEFINE w == producer[p]
           at == Max({w.at, w.index.at})
           doc == Candidate(w.index, at)
           v == [w EXCEPT !.pc = "decide", !.candidate = doc]
<1>1. /\ At(p, "project") /\ UNCHANGED <<v1Vars, guidanceVars, feedVars>>
      /\ Continue(p, None) \/ (Projects(w.index) /\ Continue(p, v))
  BY DEF Project, envVars
<1>2. w # Idle
  BY <1>1, NotIdle DEF Labels
<1>3. WorkOK(w) /\ w \in Works /\ w.index \in Indexes
  BY <1>1, <1>2, WorkAt DEF At, WorkOK
<1>4. CASE Continue(p, None)
  BY <1>1, <1>2, <1>4, ContinueInv
<1>5. CASE Projects(w.index) /\ Continue(p, v)
  <2>1. w.at \in Nat /\ w.index.at \in Nat
    BY <1>3 DEF Works, Indexes
  <2>2. at \in Nat /\ at >= w.index.at
    BY <2>1, MaxOfPair
  <2> HIDE DEF at
  <2>3. Mirror(doc) /\ doc.source = w.index /\ doc \in Documents
    BY <1>3, <1>5, <2>2, CandidateMirrors
  <2> HIDE DEF doc
  <2>4. v \in Works
    BY <1>3, <2>3 DEF Works, Labels
  <2>5. /\ v.pc = "decide" /\ v.binding = w.binding /\ v.lock = w.lock /\ v.index = w.index
        /\ v.candidate = doc
    BY <1>3 DEF Works
  <2> HIDE DEF v
  <2>6. WorkOK(v)
    BY <1>3, <2>3, <2>4, <2>5 DEF WorkOK
  <2>7. Follows(w, v)
    BY <2>5, <2>6 DEF Follows
  <2>8. QED BY <1>1, <1>2, <1>5, <2>7, ContinueInv
<1>6. QED BY <1>1, <1>4, <1>5

LEMMA DecideInv ==
    ASSUME IInv, NEW p \in Producers, Decide(p)
    PROVE  IInv'
<1> DEFINE w0 == producer[p]
           w == [w0 EXCEPT !.seen = head]
           c == [w EXCEPT !.pc = "commit"]
           v == IF index # w.index THEN NextAttempt(w)
                ELSE IF head = None THEN c
                ELSE IF ~ Authoritative(head) THEN Repair(w)
                ELSE Classify(w, head)
<1>1. At(p, "decide") /\ UNCHANGED <<v1Vars, guidanceVars, feedVars>> /\ Continue(p, v)
  BY DEF Decide, envVars
<1>2. w0 # Idle
  BY <1>1, NotIdle DEF Labels
<1>3. WorkOK(w0) /\ w0 \in Works /\ w0.pc = "decide"
  BY <1>1, <1>2, WorkAt DEF At
<1>4. head \in Documents \cup {None}
  BY DEF IInv, FeedOK, Mirror
<1>5. w \in Works
  BY <1>3, <1>4 DEF Works
<1>6. /\ w.pc = "decide" /\ w.binding = w0.binding /\ w.lock = w0.lock /\ w.index = w0.index
      /\ w.candidate = w0.candidate /\ w.seen = head /\ w.own = w0.own
  BY <1>3 DEF Works
<1>7. WorkOK(w)
  <2> HIDE DEF w
  <2>1. QED BY <1>3, <1>5, <1>6 DEF WorkOK
<1>8. \A x : Follows(w, x) => Follows(w0, x)
  <2> HIDE DEF w
  <2>1. QED BY <1>6 DEF Follows
<1>9. head = None => Follows(w, c)
  <2>1. c \in Works
    BY <1>5 DEF Works, Labels
  <2>2. /\ c.pc = "commit" /\ c.binding = w.binding /\ c.lock = w.lock /\ c.index = w.index
        /\ c.candidate = w.candidate /\ c.seen = w.seen
    BY <1>5 DEF Works
  <2> HIDE DEF c, w
  <2>3. /\ w.index \in Indexes /\ Mirror(w.candidate) /\ w.candidate.source = w.index
    BY <1>6, <1>7, LooksAt
  <2>4. QED BY <1>6, <1>7, <2>1, <2>2, <2>3, CommitFollows
<1>10. v = None \/ Follows(w, v)
  <2> HIDE DEF c, w
  <2>1. CASE index # w.index
    BY <1>7, <2>1, NextAttemptFollows
  <2>2. CASE index = w.index /\ head = None
    BY <1>9, <2>2
  <2>3. CASE index = w.index /\ head # None /\ ~ Authoritative(head)
    BY <1>6, <1>7, <2>3, RepairFollows
  <2>4. CASE index = w.index /\ head # None /\ Authoritative(head)
    BY <1>6, <1>7, <2>4, ClassifyFollows
  <2>5. QED BY <2>1, <2>2, <2>3, <2>4
<1> HIDE DEF v, w
<1>11. v = None \/ Follows(w0, v)
  BY <1>8, <1>10
<1>12. QED BY <1>1, <1>2, <1>11, ContinueInv

LEMMA CommitInv ==
    ASSUME IInv, NEW p \in Producers, Commit(p)
    PROVE  IInv'
<1>a. PICK w0 : w0 = producer[p]
  OBVIOUS
<1>1. /\ At(p, "commit") /\ UNCHANGED <<v1Vars, guidanceVars>> /\ UNCHANGED index
      /\ UNCHANGED <<queued, settled>> /\ registry' = registry /\ notified' = notified
      /\ (head = w0.seen /\ head' = w0.candidate) \/ head' = head
  BY <1>a DEF Commit, v1Vars, brokerVars
<1>2. producer[p] # Idle
  BY <1>1, NotIdle DEF Labels
<1>3. WorkOK(w0) /\ w0 \in Works /\ w0.pc = "commit"
  BY <1>1, <1>2, <1>a, WorkAt DEF At
<1>4. PICK label \in {"confirm_head", "reconcile"} :
        producer' = [producer EXCEPT ![p] = [w0 EXCEPT !.pc = label, !.seen = None]]
  BY <1>a DEF Commit, Goto
<1>b. PICK w : w = [w0 EXCEPT !.pc = label, !.seen = None]
  OBVIOUS
<1>5. w \in Works
  BY <1>3, <1>4, <1>b DEF Works, Labels
<1>6. /\ w.pc = label /\ w.binding = w0.binding /\ w.lock = w0.lock /\ w.index = w0.index
      /\ w.candidate = w0.candidate
  BY <1>3, <1>b DEF Works
<1>7. /\ w0.index \in Indexes /\ Mirror(w0.candidate) /\ w0.candidate.source = w0.index
      /\ w0.candidate \in Documents
      /\ w0.seen = None \/ Later(w0.seen, w0.candidate)
  BY <1>3, LooksAt DEF WorkOK
<1>8. WorkOK(w)
  BY <1>3, <1>4, <1>5, <1>6, <1>7 DEF WorkOK
<1>9. Follows(producer[p], w) /\ producer' = [producer EXCEPT ![p] = w]
  BY <1>4, <1>6, <1>8, <1>a, <1>b DEF Follows
<1>10. Bound(head') \subseteq Bound(head) \cup Held(producer[p])
  <2>1. w0.index # None /\ w0 # Idle
    BY <1>2, <1>7, <1>a, NoneAssumption
  <2>2. QED BY <1>1, <1>7, <1>a, <2>1 DEF Bound, Held
<1>11. Sources' \subseteq Sources
  BY <1>1, <1>2, <1>9, <1>10, FollowSources
<1>12. head # None => head' # None /\ head'.source.at >= head.source.at
  <2>1. head # None => head.source.at \in Nat
    BY DEF IInv, FeedOK, Mirror, Documents, Indexes
  <2>2. QED BY <1>1, <1>7, <2>1, NoneAssumption DEF Later
<1>13. WorkOK(w)'
  BY <1>1, <1>8, <1>11, <1>12, Stays
<1>14. BrokerOK'
  BY <1>1, <1>2, <1>5, <1>6, <1>9, <1>a, BrokerMove DEF IInv
<1>15. FeedOK'
  <2>1. head' # None => Mirror(head')
    BY <1>1, <1>7 DEF IInv, FeedOK
  <2>2. head' # None => Mirror(head)'
    BY <2>1 DEF Mirror
  <2>3. UNCHANGED v1Vars
    BY <1>1
  <2>4. QED BY <1>1, <2>2, <2>3, KnownStays DEF IInv, FeedOK
<1>16. CompletedMeansNotified'
  BY <1>1 DEF IInv, CompletedMeansNotified
<1>17. notified \subseteq notified' /\ UNCHANGED <<v1Vars, guidanceVars>>
  BY <1>1
<1>18. QED BY <1>9, <1>11, <1>12, <1>13, <1>14, <1>15, <1>16, <1>17, ProducerStep

LEMMA ReconcileInv ==
    ASSUME IInv, NEW p \in Producers, Reconcile(p)
    PROVE  IInv'
<1> DEFINE w == producer[p]
           older == head.source = w.index /\ head.at < w.candidate.at
           v == IF head = None \/ ~ Authoritative(head) \/ older THEN NextAttempt(w)
                ELSE IF head.source # w.index THEN Accept(w, head)
                ELSE Classify(w, head)
<1>1. At(p, "reconcile") /\ UNCHANGED <<v1Vars, guidanceVars, feedVars>> /\ Continue(p, v)
  BY DEF Reconcile, envVars
<1>2. w # Idle
  BY <1>1, NotIdle DEF Labels
<1>3. WorkOK(w) /\ w.pc = "reconcile"
  BY <1>1, <1>2, WorkAt DEF At
<1>4. v = None \/ Follows(w, v)
  <2>1. CASE head = None \/ ~ Authoritative(head) \/ older
    BY <1>3, <2>1, NextAttemptFollows
  <2>2. CASE ~ (head = None \/ ~ Authoritative(head) \/ older) /\ head.source # w.index
    BY <1>3, <2>2, AcceptFollows
  <2>3. CASE ~ (head = None \/ ~ Authoritative(head) \/ older) /\ head.source = w.index
    BY <1>3, <2>3, ClassifyFollows
  <2>4. QED BY <2>1, <2>2, <2>3
<1> HIDE DEF v
<1>5. QED BY <1>1, <1>2, <1>4, ContinueInv

LEMMA ConfirmHeadInv ==
    ASSUME IInv, NEW p \in Producers, ConfirmHead(p)
    PROVE  IInv'
<1> DEFINE w == producer[p]
           v == IF head = w.candidate /\ Authoritative(head) THEN Accept(w, head)
                ELSE NextAttempt(w)
<1>1. At(p, "confirm_head") /\ UNCHANGED <<v1Vars, guidanceVars, feedVars>> /\ Continue(p, v)
  BY DEF ConfirmHead, envVars
<1>2. w # Idle
  BY <1>1, NotIdle DEF Labels
<1>3. WorkOK(w) /\ w.pc = "confirm_head"
  BY <1>1, <1>2, WorkAt DEF At
<1>4. w.candidate \in Documents /\ w.candidate # None
  BY <1>3, LooksAt, NoneAssumption
<1>5. v = None \/ Follows(w, v)
  BY <1>3, <1>4, AcceptFollows, NextAttemptFollows
<1> HIDE DEF v
<1>6. QED BY <1>1, <1>2, <1>5, ContinueInv

LEMMA NotifyInv ==
    ASSUME IInv, NEW p \in Producers, Notify(p)
    PROVE  IInv'
<1>a. PICK w0 : w0 = producer[p]
  OBVIOUS
<1> DEFINE i == w0.binding.incident
           own == {r \in Listed(head) : r.incident = i}
<1>1. /\ At(p, "notify") /\ UNCHANGED <<v1Vars, guidanceVars>> /\ UNCHANGED index
      /\ registry' = registry /\ head' = head
  BY DEF Notify, envVars, v1Vars
<1>2. producer[p] # Idle
  BY <1>1, NotIdle DEF Labels
<1>3. WorkOK(w0) /\ w0 \in Works /\ w0.pc = "notify" /\ i \in Incidents
  BY <1>1, <1>2, <1>a, WorkAt, WorkFields DEF At
<1>4. CASE (Settle(p, "reject") \/ Settle(p, "abandon")) /\ UNCHANGED notified
  <2>1. UNCHANGED <<v1Vars, guidanceVars, feedVars>>
    BY <1>1, <1>4 DEF feedVars
  <2>2. QED BY <1>2, <1>4, <2>1, SettleInv
<1>5. CASE /\ own # {} /\ notified' = notified \cup own /\ UNCHANGED brokerVars
           /\ Goto(p, [w0 EXCEPT !.pc = "complete"])
  <2>a. PICK w : w = [w0 EXCEPT !.pc = "complete"]
    OBVIOUS
  <2>1. w \in Works /\ w # Idle
    <3>1. w \in Works
      BY <1>3, <2>a DEF Works, Labels
    <3>2. QED BY <3>1, WorkFields
  <2>2. /\ w.pc = "complete" /\ w.binding = w0.binding /\ w.lock = w0.lock
        /\ w.index = w0.index
    BY <1>3, <2>a DEF Works
  <2>3. producer' = [producer EXCEPT ![p] = w] /\ UNCHANGED <<queued, settled>>
        /\ notified \subseteq notified'
    BY <1>5, <2>a DEF Goto, brokerVars
  <2>4. head # None => head' # None /\ head'.source.at >= head.source.at
    BY <1>1 DEF IInv, FeedOK, Mirror, Documents, Indexes
  <2>5. Sources' \subseteq Sources
    <3>1. Held(w) \subseteq Held(producer[p]) \cup {index}
      BY <1>2, <1>a, <2>1, <2>2 DEF Held
    <3>2. QED BY <1>1, <2>3, <3>1, SourcesMove DEF IInv
  <2>6. Told(w.binding)'
    <3>1. head # None /\ Mirror(head) /\ Since(w0.binding, head.source.at)
      BY <1>3 DEF WorkOK, IInv, FeedOK
    <3>2. PICK r \in Listed(head) : r.incident = i
      BY <1>5
    <3>3. r \in notified' /\ head.source.entries[i] = r.occurrence /\ r \in Bindings
      BY <1>5, <3>1, <3>2 DEF Listed, Mirror, Documents
    <3>4. r.occurrence # None
      BY <3>3, NoneAssumption DEF Bindings
    <3>5. head.source \in Sources /\ head.source.at \in Nat
      BY <3>1 DEF Sources, Bound, Mirror, Documents, Indexes
    <3>6. r.occurrence.number >= w0.binding.occurrence.number
      BY <3>1, <3>3, <3>4, <3>5 DEF Since
    <3>7. QED BY <2>2, <3>2, <3>3, <3>6 DEF Told
  <2>7. WorkOK(w)'
    <3>1. Known(w.binding)'
      BY <1>1, <1>3, <2>2, KnownStays DEF WorkOK
    <3>2. QED BY <2>1, <2>2, <2>6, <3>1 DEF WorkOK
  <2>8. BrokerOK'
    BY <1>2, <1>a, <2>1, <2>2, <2>3, BrokerMove DEF IInv
  <2>9. FeedOK'
    BY <1>1, KnownStays DEF IInv, FeedOK, Mirror
  <2>10. CompletedMeansNotified'
    BY <2>3 DEF IInv, CompletedMeansNotified
  <2>11. QED BY <1>1, <2>3, <2>4, <2>5, <2>7, <2>8, <2>9, <2>10, ProducerStep
<1>6. QED BY <1>4, <1>5, <1>a DEF Notify

LEMMA CompleteInv ==
    ASSUME IInv, NEW p \in Producers, Complete(p)
    PROVE  IInv'
<1>1. At(p, "complete") /\ UNCHANGED <<v1Vars, guidanceVars, feedVars>> /\ Settle(p, "complete")
  BY DEF Complete, envVars
<1>2. producer[p] # Idle
  BY <1>1, NotIdle DEF Labels
<1>3. Told(producer[p].binding)
  BY <1>1, <1>2, WorkAt DEF At, WorkOK
<1>4. QED BY <1>1, <1>2, <1>3, SettleInv

-----------------------------------------------------------------------------
(* The theorems *)

LEMMA ProduceInv ==
    ASSUME IInv, NEW p \in Producers, Produce(p)
    PROVE  IInv'
<1>1. CASE Enrich(p) \/ Write(p) \/ ReadSource(p) \/ Project(p) \/ Decide(p)
  BY <1>1, EnrichInv, WriteInv, ReadSourceInv, ProjectInv, DecideInv
<1>2. CASE Commit(p) \/ Reconcile(p) \/ ConfirmHead(p) \/ Notify(p) \/ Complete(p)
  BY <1>2, CommitInv, ReconcileInv, ConfirmHeadInv, NotifyInv, CompleteInv
<1>3. QED BY <1>1, <1>2 DEF Produce

LEMMA NextInv == IInv /\ [Next]_vars => IInv'
<1> SUFFICES ASSUME IInv, [Next]_vars PROVE IInv'
  OBVIOUS
<1>1. CASE UNCHANGED vars
  BY <1>1, QuietStep, GuidanceStays, BrokerStays DEF vars, brokerVars
<1>2. CASE Heartbeat
  BY <1>2, HeartbeatInv
<1>3. ASSUME NEW i \in Incidents, PublishCurrent(i) \/ PublishIndex(i) \/ Submit(i)
      PROVE  IInv'
  BY <1>3, PublishCurrentInv, PublishIndexInv, SubmitInv
<1>4. ASSUME NEW b, Expire(b) \/ RejectRequest(b) \/ Authorize(b)
      PROVE  IInv'
  BY <1>4, RequestsInv
<1>5. CASE Activate \/ Enqueue \/ PublisherCrash
  BY <1>5, ActivateInv, EnqueueInv, PublisherCrashInv
<1>6. ASSUME NEW i \in Incidents, ExpireTrigger(i) \/ RejectTrigger(i)
      PROVE  IInv'
  BY <1>6, TriggerInv
<1>7. ASSUME NEW p \in Producers, NEW i \in Incidents, Receive(p, i)
      PROVE  IInv'
  BY <1>7, ReceiveInv
<1>8. ASSUME NEW p \in Producers, Produce(p) \/ Fail(p) \/ LoseLock(p)
      PROVE  IInv'
  BY <1>8, ProduceInv, FailInv, LoseLockInv
<1>9. QED BY <1>1, <1>2, <1>3, <1>4, <1>5, <1>6, <1>7, <1>8 DEF Next

\* The inductive invariant holds: in particular every v1 index in use is a version
\* of one document and an execution commits only what may follow the index it saw.
THEOREM Invariance == Spec => []IInv
BY InitInv, NextInv, PTL DEF Spec

LEMMA MirrorImplied == IInv => FeedMirrorsAuthority
<1> SUFFICES ASSUME IInv, head # None
             PROVE  /\ head.source.at <= index.at /\ head.at >= head.source.at
                    /\ \A i \in Incidents :
                         {r.occurrence : r \in {q \in head.active : q.incident = i}}
                           = {head.source.entries[i]} \ {None}
                    /\ \A r, q \in Listed(head) : r.incident = q.incident => r = q
  BY DEF FeedMirrorsAuthority
<1>1. Mirror(head)
  BY DEF IInv, FeedOK
<1>2. head.source \in Sources
  BY DEF Sources, Bound
<1>3. head.source.at <= index.at /\ head.at >= head.source.at
  BY <1>1, <1>2 DEF IInv, SourcesOK, SourceOK, Mirror
<1>4. ASSUME NEW i \in Incidents
      PROVE  {r.occurrence : r \in {q \in head.active : q.incident = i}}
               = {head.source.entries[i]} \ {None}
  <2>1. \A r \in head.active : r.incident = i =>
          r.occurrence = head.source.entries[i] /\ r.occurrence # None
    BY <1>1, NoneAssumption DEF Mirror, Documents, Bindings
  <2>2. head.source.entries[i] # None => \E r \in head.active : r.incident = i
    BY <1>1 DEF Mirror
  <2>3. QED BY <2>1, <2>2
<1>5. \A r, q \in Listed(head) : r.incident = q.incident => r = q
  BY <1>1 DEF Mirror, Listed
<1>6. QED BY <1>3, <1>4, <1>5

\* The feed-v2 index shows exactly the v1 index it is bound to, whatever executions,
\* publications and faults interleave (project_incident_feed_registry).
THEOREM FeedAlwaysMirrors == Spec => []FeedMirrorsAuthority
BY Invariance, MirrorImplied, PTL

\* A trigger is completed only when notification v2 was enqueued for its occurrence
\* or a later one (run_wc027_enrichment_feed_worker).
THEOREM CompletedAlwaysNotified == Spec => []CompletedMeansNotified
<1>1. IInv => CompletedMeansNotified
  BY DEF IInv
<1>2. QED BY <1>1, Invariance, PTL

\* What one step does to the feed: FeedMovesForward without the box.
Forward ==
    /\ head # None /\ head' # head =>
            /\ head'.at > head.at
            /\ head'.source.at >= head.source.at
            /\ \A r \in Listed(head), q \in Listed(head') :
                 r.incident = q.incident => q.occurrence.number >= r.occurrence.number
    /\ \A i \in Incidents : registry[i] # None /\ registry'[i] # registry[i] =>
            registry'[i].occurrence.number > registry[i].occurrence.number

LEMMA CommitForward ==
    ASSUME IInv, NEW p \in Producers, Commit(p)
    PROVE  Forward
<1> DEFINE w == producer[p]
<1>1. /\ At(p, "commit") /\ registry' = registry
      /\ (head = w.seen /\ head' = w.candidate) \/ head' = head
  BY DEF Commit
<1>2. w # Idle
  BY <1>1, NotIdle DEF Labels
<1>3. w.seen = None \/ Later(w.seen, w.candidate)
  BY <1>1, <1>2, WorkAt DEF At, WorkOK
<1>4. QED BY <1>1, <1>3 DEF Forward, Later, Listed

LEMMA WriteForward ==
    ASSUME IInv, NEW p \in Producers, Write(p)
    PROVE  Forward
<1> DEFINE w == producer[p]
           b == w.binding
<1>1. /\ At(p, "write") /\ head' = head
      /\ \/ registry' = registry
         \/ registry[b.incident] = w.own.row /\ registry' = [registry EXCEPT ![b.incident] = b]
  BY DEF Write
<1>2. w # Idle
  BY <1>1, NotIdle DEF Labels
<1>3. w.own.row # None => w.own.row.occurrence.number < b.occurrence.number
  BY <1>1, <1>2, WorkAt DEF At, WorkOK
<1>4. registry \in [Incidents -> Bindings \cup {None}] /\ b \in Bindings
  BY <1>2, WorkAt DEF IInv, FeedOK
<1>5. ASSUME NEW i \in Incidents, registry[i] # None, registry'[i] # registry[i]
      PROVE  registry'[i].occurrence.number > registry[i].occurrence.number
  <2>1. i = b.incident /\ registry'[i] = b /\ registry[i] = w.own.row
    BY <1>1, <1>4, <1>5
  <2>2. registry[i].occurrence.number \in Nat /\ b.occurrence.number \in Nat
    BY <1>4, <1>5, OccurrenceNumbers DEF Bindings
  <2>3. QED BY <1>3, <1>5, <2>1, <2>2
<1>6. QED BY <1>1, <1>5 DEF Forward

LEMMA OthersForward ==
    ASSUME UNCHANGED <<registry, head>>
    PROVE  Forward
BY DEF Forward

LEMMA NextForward == IInv /\ [Next]_vars => Forward
<1> SUFFICES ASSUME IInv, [Next]_vars PROVE Forward
  OBVIOUS
<1>1. CASE UNCHANGED vars
  BY <1>1, OthersForward DEF vars, feedVars
<1>2. CASE Heartbeat
  BY <1>2, OthersForward DEF Heartbeat, ReplaceIndex, feedVars
<1>3. ASSUME NEW i \in Incidents, PublishCurrent(i) \/ PublishIndex(i) \/ Submit(i)
      PROVE  Forward
  BY <1>3, OthersForward DEF PublishCurrent, PublishIndex, ReplaceIndex, Submit, feedVars
<1>4. ASSUME NEW b, Expire(b) \/ RejectRequest(b) \/ Authorize(b)
      PROVE  Forward
  BY <1>4, OthersForward DEF Expire, RejectRequest, Authorize, feedVars
<1>5. CASE Activate \/ Enqueue \/ PublisherCrash
  BY <1>5, OthersForward DEF Activate, Enqueue, PublisherCrash, feedVars
<1>6. ASSUME NEW i \in Incidents, ExpireTrigger(i) \/ RejectTrigger(i)
      PROVE  Forward
  BY <1>6, OthersForward DEF ExpireTrigger, RejectTrigger, feedVars
<1>7. ASSUME NEW p \in Producers, NEW i \in Incidents, Receive(p, i)
      PROVE  Forward
  BY <1>7, OthersForward DEF Receive, feedVars
<1>8. ASSUME NEW p \in Producers, Produce(p) \/ Fail(p) \/ LoseLock(p)
      PROVE  Forward
  <2>1. CASE Enrich(p) \/ ReadSource(p) \/ Project(p) \/ Decide(p)
    BY <2>1, OthersForward DEF Enrich, ReadSource, Project, Decide, feedVars
  <2>2. CASE Reconcile(p) \/ ConfirmHead(p) \/ Notify(p) \/ Complete(p)
    BY <2>2, OthersForward DEF Reconcile, ConfirmHead, Notify, Complete, feedVars
  <2>3. CASE Fail(p) \/ LoseLock(p)
    BY <2>3, OthersForward DEF Fail, LoseLock, feedVars
  <2>4. QED BY <1>8, <2>1, <2>2, <2>3, CommitForward, WriteForward DEF Produce
<1>9. QED BY <1>1, <1>2, <1>3, <1>4, <1>5, <1>6, <1>7, <1>8 DEF Next

\* Neither the feed-v2 index nor a row of the registry ever goes back, however
\* executions overlap, lose their session or retry
\* (IncidentFeedIndexPublicationService.publish, AzureTableIncidentFeedRegistry.put).
THEOREM FeedAlwaysForward == Spec => FeedMovesForward
<1>1. IInv /\ [Next]_vars => [Forward]_vars
  BY NextForward
<1>2. Spec => [][Forward]_vars
  BY <1>1, Invariance, PTL DEF Spec
<1>3. [][Forward]_vars => FeedMovesForward
  BY DEF Forward, FeedMovesForward
<1>4. QED BY <1>2, <1>3

-----------------------------------------------------------------------------
(* Types, and the deliveries of a trigger *)

\* A trigger is queued once, and one that waits for a receiver, behind another or
\* in a session nobody holds, has a delivery left.
DeliveryOK ==
    /\ DOMAIN deliveries \subseteq Bindings
    /\ \A b \in DOMAIN deliveries : deliveries[b] \in 0 .. MaxDelivery
    /\ \A i \in Incidents : \A n \in 1 .. Len(queued[i]) :
         /\ queued[i][n] \in DOMAIN deliveries
         /\ n > 1 \/ SessionFree(i) => deliveries[queued[i][n]] < MaxDelivery
         /\ \A m \in 1 .. Len(queued[i]) : queued[i][m] = queued[i][n] => m = n

\* The rest of the types that IInv does not hold.
HistoryOK ==
    /\ expired \subseteq Bindings /\ settled \subseteq Bindings /\ notified \subseteq Bindings
    /\ faults \in 0 .. MaxFaults

TypeInv == DeliveryOK /\ HistoryOK

\* No session becomes free but that of incident i.
OnlyFrees(i) == \A j \in Incidents : j # i /\ SessionFree(j)' => SessionFree(j)

\* A queue that stays, with its sessions.
LEMMA DeliveryStays ==
    ASSUME DeliveryOK, UNCHANGED <<queued, deliveries>>,
           \A j \in Incidents : SessionFree(j)' => SessionFree(j)
    PROVE  DeliveryOK'
BY DEF DeliveryOK

\* The oldest trigger of a session leaves its queue.
LEMMA DeliveryRemoved ==
    ASSUME DeliveryOK, BrokerOK, NEW i \in Incidents, queued[i] # <<>>, Remove(i), OnlyFrees(i),
           DOMAIN deliveries' = DOMAIN deliveries,
           \A b \in DOMAIN deliveries : deliveries'[b] \in 0 .. MaxDelivery,
           \A b \in DOMAIN deliveries : b # Oldest(i) => deliveries'[b] = deliveries[b]
    PROVE  DeliveryOK'
<1>1. queued \in [Incidents -> Seq(Bindings)]
      /\ \A j \in Incidents : \A n \in 1 .. Len(queued[j]) : queued[j][n].incident = j
  BY DEF BrokerOK
<1>2. queued[i] \in Seq(Bindings) /\ Len(queued[i]) \in Nat \ {0} /\ Oldest(i) = queued[i][1]
  BY <1>1 DEF Oldest
<1>3. /\ queued'[i] = Tail(queued[i])
      /\ \A j \in Incidents : j # i => queued'[j] = queued[j]
  BY <1>1 DEF Remove
<1>4. /\ Len(queued'[i]) = Len(queued[i]) - 1
      /\ \A n \in 1 .. Len(queued'[i]) :
           n + 1 \in 1 .. Len(queued[i]) /\ queued'[i][n] = queued[i][n + 1]
  BY <1>2, <1>3
<1>5. ASSUME NEW n \in 1 .. Len(queued'[i])
      PROVE  /\ queued'[i][n] \in DOMAIN deliveries
             /\ deliveries'[queued'[i][n]] < MaxDelivery
             /\ \A m \in 1 .. Len(queued'[i]) : queued'[i][m] = queued'[i][n] => m = n
  <2>1. n + 1 \in 1 .. Len(queued[i]) /\ n + 1 > 1 /\ 1 \in 1 .. Len(queued[i]) /\ n + 1 # 1
    BY <1>2, <1>4
  <2>2. /\ queued[i][n + 1] \in DOMAIN deliveries
        /\ deliveries[queued[i][n + 1]] < MaxDelivery
        /\ \A m \in 1 .. Len(queued[i]) : queued[i][m] = queued[i][n + 1] => m = n + 1
    BY <2>1 DEF DeliveryOK
  <2>3. queued[i][n + 1] # Oldest(i)
    BY <1>2, <2>1, <2>2
  <2>4. \A m \in 1 .. Len(queued'[i]) : queued'[i][m] = queued'[i][n] => m = n
    <3>1. SUFFICES ASSUME NEW m \in 1 .. Len(queued'[i]), queued'[i][m] = queued'[i][n]
                   PROVE  m = n
      OBVIOUS
    <3>2. m + 1 \in 1 .. Len(queued[i]) /\ queued[i][m + 1] = queued[i][n + 1]
      BY <1>4, <3>1
    <3>3. m + 1 = n + 1
      BY <2>2, <3>2
    <3>4. QED BY <1>2, <1>4, <3>3
  <2>5. QED BY <1>4, <2>2, <2>3, <2>4
<1>6. ASSUME NEW j \in Incidents, j # i, NEW n \in 1 .. Len(queued'[j])
      PROVE  /\ queued'[j][n] \in DOMAIN deliveries
             /\ n > 1 \/ SessionFree(j)' => deliveries'[queued'[j][n]] < MaxDelivery
             /\ \A m \in 1 .. Len(queued'[j]) : queued'[j][m] = queued'[j][n] => m = n
  <2>1. queued'[j] = queued[j] /\ queued[j][n].incident = j
    BY <1>1, <1>3, <1>6
  <2>2. Oldest(i).incident = i
    BY <1>1, <1>2
  <2>3. queued[j][n] # Oldest(i)
    BY <1>6, <2>1, <2>2
  <2>4. QED BY <1>6, <2>1, <2>3 DEF DeliveryOK, OnlyFrees
<1>7. QED BY <1>5, <1>6 DEF DeliveryOK

\* A session is given up: its trigger leaves the queue or has a delivery left.
LEMMA DeliveryGivenUp ==
    ASSUME DeliveryOK, BrokerOK, NEW i \in Incidents, queued[i] # <<>>, OnlyFrees(i),
           GiveBack(i) \/ Remove(i), UNCHANGED deliveries
    PROVE  DeliveryOK'
<1>1. CASE Remove(i)
  <2>1. \A b \in DOMAIN deliveries : deliveries'[b] \in 0 .. MaxDelivery
    BY DEF DeliveryOK
  <2>2. QED BY <1>1, <2>1, DeliveryRemoved
<1>2. CASE UNCHANGED queued /\ deliveries[Oldest(i)] < MaxDelivery
  <2>1. queued[i] \in Seq(Bindings)
    BY DEF BrokerOK
  <2>2. Oldest(i) = queued[i][1]
    BY <2>1 DEF Oldest
  <2>3. \A n \in 1 .. Len(queued[i]) : deliveries[queued[i][n]] < MaxDelivery
    <3>1. \A n \in 1 .. Len(queued[i]) : n = 1 \/ n > 1
      BY <2>1
    <3>2. QED BY <1>2, <2>2, <3>1 DEF DeliveryOK
  <2>4. QED BY <1>2, <2>3 DEF DeliveryOK, OnlyFrees
<1>3. QED BY <1>1, <1>2 DEF GiveBack

\* The sessions when execution p goes on as v, or ends.
LEMMA SessionsMove ==
    ASSUME ProducersOK, NEW p \in Producers, NEW v, producer' = [producer EXCEPT ![p] = v]
    PROVE  /\ producer[p] # Idle => OnlyFrees(Subject(p))
           /\ producer[p] = Idle \/ ~ producer[p].lock
                => \A j \in Incidents : SessionFree(j)' => SessionFree(j)
           /\ v # Idle /\ v.binding = producer[p].binding /\ v.lock = producer[p].lock
                => \A j \in Incidents : SessionFree(j)' => SessionFree(j)
<1>1. producer' = [q \in Producers |-> IF q = p THEN v ELSE producer[q]]
  BY DEF ProducersOK
<1>2. producer'[p] = v /\ \A q \in Producers : q # p => producer'[q] = producer[q] /\ Subject(q)' = Subject(q)
  BY <1>1 DEF Subject
<1>3. ASSUME NEW j \in Incidents, SessionFree(j)', NEW q \in Producers,
             producer[q] # Idle, Subject(q) = j, q # p
      PROVE  ~ producer[q].lock
  BY <1>2, <1>3 DEF SessionFree
<1>4. ASSUME producer[p] # Idle PROVE OnlyFrees(Subject(p))
  BY <1>3 DEF OnlyFrees, SessionFree
<1>5. ASSUME producer[p] = Idle \/ ~ producer[p].lock, NEW j \in Incidents, SessionFree(j)'
      PROVE  SessionFree(j)
  BY <1>3, <1>5 DEF SessionFree
<1>6. ASSUME v # Idle, v.binding = producer[p].binding, v.lock = producer[p].lock,
             NEW j \in Incidents, SessionFree(j)'
      PROVE  SessionFree(j)
  <2>1. Subject(p)' = Subject(p)
    BY <1>2, <1>6 DEF Subject
  <2>2. Subject(p) = j => ~ producer[p].lock
    BY <1>2, <1>6, <2>1 DEF SessionFree
  <2>3. QED BY <1>3, <1>6, <2>2 DEF SessionFree
<1>7. QED BY <1>4, <1>5, <1>6

LEMMA SettleDelivery ==
    ASSUME IInv, DeliveryOK, NEW p \in Producers, producer[p] # Idle, NEW how, Settle(p, how)
    PROVE  DeliveryOK' /\ settled' \subseteq settled \cup {producer[p].binding}
<1>1. /\ producer' = [producer EXCEPT ![p] = Idle] /\ UNCHANGED deliveries
      /\ settled' \subseteq settled \cup {producer[p].binding}
  BY SettleStep DEF Settle, IInv
<1>2. /\ OnlyFrees(Subject(p))
      /\ ~ producer[p].lock => \A j \in Incidents : SessionFree(j)' => SessionFree(j)
  BY <1>1, SessionsMove DEF IInv
<1>3. CASE producer[p].lock
  <2>1. GiveBack(Subject(p)) \/ Remove(Subject(p))
    BY <1>3 DEF Settle
  <2>2. queued[Subject(p)] # <<>> /\ Subject(p) \in Incidents
    BY <1>3, WorkAt DEF IInv, BrokerOK
  <2>3. QED BY <1>1, <1>2, <2>1, <2>2, DeliveryGivenUp DEF IInv
<1>4. CASE ~ producer[p].lock
  <2>1. UNCHANGED queued
    BY <1>4 DEF Settle
  <2>2. QED BY <1>1, <1>2, <1>4, <2>1, DeliveryStays
<1>5. QED BY <1>3, <1>4
\* The execution w goes on as v with the same trigger and lock.
Keeps(w, v) == v.pc # "idle" /\ v.binding = w.binding /\ v.lock = w.lock

\* However an execution starts over, it keeps them.
LEMMA AttemptKeeps ==
    ASSUME NEW w \in Works, NEW at, NEW doc
    PROVE  /\ PublishAgain(w, at) = None \/ Keeps(w, PublishAgain(w, at))
           /\ NextAttempt(w) = None \/ Keeps(w, NextAttempt(w))
           /\ Conflict(w, doc) = None \/ Keeps(w, Conflict(w, doc))
           /\ Accept(w, doc) = None \/ Keeps(w, Accept(w, doc))
<1>1. Fresh(w) \in Works /\ Fresh(w).binding = w.binding /\ Fresh(w).lock = w.lock
  BY FreshWork
<1>2. ASSUME NEW t PROVE PublishAgain(w, t) = None \/ Keeps(w, PublishAgain(w, t))
  <2> DEFINE v == [Fresh(w) EXCEPT !.pc = "source", !.outer = @ + 1, !.tries = 1, !.at = t]
  <2>1. v.pc = "source" /\ v.binding = w.binding /\ v.lock = w.lock
    BY <1>1 DEF Works
  <2>2. PublishAgain(w, t) = None \/ PublishAgain(w, t) = v
    BY DEF PublishAgain
  <2> HIDE DEF v
  <2>3. QED BY <2>1, <2>2 DEF Keeps
<1>3. NextAttempt(w) = None \/ Keeps(w, NextAttempt(w))
  <2> DEFINE v == [Fresh(w) EXCEPT !.pc = "source", !.tries = @ + 1]
  <2>1. v.pc = "source" /\ v.binding = w.binding /\ v.lock = w.lock
    BY <1>1 DEF Works
  <2>2. NextAttempt(w) = PublishAgain(w, w.at + 1) \/ NextAttempt(w) = v
    BY DEF NextAttempt
  <2> HIDE DEF v
  <2>3. QED BY <1>2, <2>1, <2>2 DEF Keeps
<1>4. Accept(w, doc) = None \/ Keeps(w, Accept(w, doc))
  <2> DEFINE v == [Fresh(w) EXCEPT !.pc = "notify"]
             t == Max({w.at, doc.at + 1})
  <2>1. v.pc = "notify" /\ v.binding = w.binding /\ v.lock = w.lock
    BY <1>1 DEF Works
  <2>2. Accept(w, doc) = PublishAgain(w, t) \/ Accept(w, doc) = v
    BY DEF Accept
  <2> HIDE DEF v, t
  <2>3. QED BY <1>2, <2>1, <2>2 DEF Keeps
<1>5. Conflict(w, doc) = None \/ Keeps(w, Conflict(w, doc))
  BY <1>2 DEF Conflict
<1>6. QED BY <1>2, <1>3, <1>4, <1>5

LEMMA DecisionKeeps ==
    ASSUME NEW w \in Works, NEW doc
    PROVE  /\ Repair(w) = None \/ Keeps(w, Repair(w))
           /\ Classify(w, doc) = None \/ Keeps(w, Classify(w, doc))
<1> DEFINE c == [w EXCEPT !.pc = "commit"]
           at == Max({w.candidate.at, w.seen.at + 1})
           d == Candidate(w.index, at)
           r == [w EXCEPT !.pc = "commit", !.candidate = d]
<1>1. Keeps(w, c)
  BY DEF Keeps, Works
<1>2. Keeps(w, r)
  <2> HIDE DEF d
  <2>1. QED BY DEF Keeps, Works
<1>3. Repair(w) = None \/ Repair(w) = c \/ Repair(w) = r
  BY DEF Repair
<1>4. Classify(w, doc) = Accept(w, doc) \/ Classify(w, doc) = Conflict(w, doc) \/ Classify(w, doc) = c
  BY DEF Classify
<1> HIDE DEF c, r
<1>5. QED BY <1>1, <1>2, <1>3, <1>4, AttemptKeeps

\* An execution that keeps its trigger and its lock leaves the queue alone.
LEMMA GotoDelivery ==
    ASSUME IInv, DeliveryOK, NEW p \in Producers, producer[p] # Idle, NEW v,
           Keeps(producer[p], v), Goto(p, v), UNCHANGED brokerVars
    PROVE  DeliveryOK' /\ settled' = settled
<1>1. /\ producer' = [producer EXCEPT ![p] = v] /\ UNCHANGED <<queued, deliveries>>
      /\ settled' = settled
  BY DEF Goto, brokerVars
<1>2. v # Idle /\ v.binding = producer[p].binding /\ v.lock = producer[p].lock
  BY DEF Keeps, Idle
<1>3. \A j \in Incidents : SessionFree(j)' => SessionFree(j)
  BY <1>1, <1>2, SessionsMove DEF IInv
<1>4. QED BY <1>1, <1>3, DeliveryStays

\* The execution goes on, or its message is given back.
LEMMA ContinueDelivery ==
    ASSUME IInv, DeliveryOK, NEW p \in Producers, producer[p] # Idle, NEW v, Continue(p, v),
           v = None \/ Keeps(producer[p], v)
    PROVE  DeliveryOK' /\ settled' \subseteq settled \cup {producer[p].binding}
<1>1. CASE v = None /\ Settle(p, "abandon")
  BY <1>1, SettleDelivery
<1>2. CASE v # None /\ Goto(p, v) /\ UNCHANGED brokerVars
  BY <1>2, GotoDelivery
<1>3. QED BY <1>1, <1>2 DEF Continue

\* How the steps of an execution go on.
LEMMA StepContinues ==
    ASSUME IInv, NEW p \in Producers,
           Enrich(p) \/ ReadSource(p) \/ Project(p) \/ Decide(p) \/ Reconcile(p) \/ ConfirmHead(p)
    PROVE  /\ producer[p] # Idle
           /\ \/ Settle(p, "reject")
              \/ \E v : Continue(p, v) /\ (v = None \/ Keeps(producer[p], v))
<1> DEFINE w == producer[p]
<1>1. w # Idle
  BY NotIdle DEF Labels, Enrich, ReadSource, Project, Decide, Reconcile, ConfirmHead
<1>2. w \in Works
  BY <1>1, WorkAt
<1>3. CASE Enrich(p)
  <2> DEFINE own == registry[Subject(p)]
             w1 == [w EXCEPT !.index = None]
             v1 == [w1 EXCEPT !.pc = "source"]
             o == [row |-> own, size |-> Cardinality(Rows)]
             v2 == [w1 EXCEPT !.pc = "write", !.own = o]
             v == IF own = w1.binding THEN v1
                  ELSE IF own # None /\ IsCurrent(own) THEN None ELSE v2
  <2>1. Settle(p, "reject") \/ Continue(p, v)
    BY <1>3 DEF Enrich
  <2>2. Keeps(w, v1)
    BY <1>2 DEF Keeps, Works
  <2>3. Keeps(w, v2)
    <3> HIDE DEF o
    <3>1. QED BY <1>2 DEF Keeps, Works
  <2>4. v = None \/ v = v1 \/ v = v2
    OBVIOUS
  <2> HIDE DEF v, v1, v2
  <2>5. QED BY <1>1, <2>1, <2>2, <2>3, <2>4
<1>4. CASE ReadSource(p)
  <2> DEFINE v == [w EXCEPT !.pc = "project", !.index = index]
  <2>1. Continue(p, None) \/ Continue(p, v)
    BY <1>4 DEF ReadSource
  <2>2. Keeps(w, v)
    BY <1>2 DEF Keeps, Works
  <2> HIDE DEF v
  <2>3. QED BY <1>1, <2>1, <2>2
<1>5. CASE Project(p)
  <2> DEFINE d == Candidate(w.index, Max({w.at, w.index.at}))
             v == [w EXCEPT !.pc = "decide", !.candidate = d]
  <2>1. Continue(p, None) \/ Continue(p, v)
    BY <1>5 DEF Project
  <2>2. Keeps(w, v)
    <3> HIDE DEF d
    <3>1. QED BY <1>2 DEF Keeps, Works
  <2> HIDE DEF v
  <2>3. QED BY <1>1, <2>1, <2>2
<1>6. CASE Decide(p)
  <2> DEFINE u == [w EXCEPT !.seen = head]
             c == [u EXCEPT !.pc = "commit"]
             v == IF index # u.index THEN NextAttempt(u)
                  ELSE IF head = None THEN c
                  ELSE IF ~ Authoritative(head) THEN Repair(u)
                  ELSE Classify(u, head)
  <2>1. Continue(p, v)
    BY <1>6 DEF Decide
  <2>2. head \in Documents \cup {None}
    BY DEF IInv, FeedOK, Mirror
  <2>3. u \in Works
    BY <1>2, <2>2 DEF Works
  <2>4. u.binding = w.binding /\ u.lock = w.lock /\ Keeps(w, c)
    BY <1>2 DEF Works, Keeps
  <2>5. v = NextAttempt(u) \/ v = c \/ v = Repair(u) \/ v = Classify(u, head)
    OBVIOUS
  <2> HIDE DEF u, c, v
  <2>6. v = None \/ Keeps(u, v) \/ Keeps(w, v)
    BY <2>3, <2>4, <2>5, AttemptKeeps, DecisionKeeps
  <2>7. v = None \/ Keeps(w, v)
    BY <2>4, <2>6 DEF Keeps
  <2>8. QED BY <1>1, <2>1, <2>7
<1>7. CASE Reconcile(p)
  <2>1. Continue(p, NextAttempt(w)) \/ Continue(p, Accept(w, head)) \/ Continue(p, Classify(w, head))
    BY <1>7 DEF Reconcile
  <2>2. QED BY <1>1, <1>2, <2>1, AttemptKeeps, DecisionKeeps
<1>8. CASE ConfirmHead(p)
  <2>1. Continue(p, NextAttempt(w)) \/ Continue(p, Accept(w, head))
    BY <1>8 DEF ConfirmHead
  <2>2. QED BY <1>1, <1>2, <2>1, AttemptKeeps
<1>9. QED BY <1>3, <1>4, <1>5, <1>6, <1>7, <1>8

LEMMA ProduceTypes ==
    ASSUME IInv, DeliveryOK, NEW p \in Producers, Produce(p)
    PROVE  /\ DeliveryOK' /\ producer[p] # Idle
           /\ settled' \subseteq settled \cup {producer[p].binding}
           /\ notified' \subseteq notified \cup Bindings
           /\ expired' = expired /\ (UNCHANGED faults \/ Fault)
<1> DEFINE w == producer[p]
<1>1. /\ expired' = expired /\ (UNCHANGED faults \/ Fault)
      /\ UNCHANGED notified \/ Notify(p)
  BY DEF Produce, Enrich, Write, ReadSource, Project, Decide, Commit, Reconcile, ConfirmHead,
         Notify, Complete, guidanceVars, envVars, feedVars
<1>2. CASE Enrich(p) \/ ReadSource(p) \/ Project(p) \/ Decide(p) \/ Reconcile(p) \/ ConfirmHead(p)
  <2>1. /\ w # Idle
        /\ Settle(p, "reject") \/ \E v : Continue(p, v) /\ (v = None \/ Keeps(w, v))
    BY <1>2, StepContinues
  <2>2. UNCHANGED notified
    BY <1>2 DEF Enrich, ReadSource, Project, Decide, Reconcile, ConfirmHead, feedVars
  <2>3. QED BY <1>1, <2>1, <2>2, SettleDelivery, ContinueDelivery
<1>3. CASE Write(p)
  <2> DEFINE v == [w EXCEPT !.pc = "source", !.own = None]
  <2>1. /\ w # Idle /\ Goto(p, v) /\ UNCHANGED brokerVars /\ UNCHANGED notified
    BY <1>3, NotIdle DEF Write, Labels
  <2>2. Keeps(w, v)
    BY <2>1, WorkAt DEF Keeps, Works
  <2> HIDE DEF v
  <2>3. QED BY <1>1, <2>1, <2>2, GotoDelivery
<1>4. CASE Commit(p)
  <2>1. w # Idle /\ UNCHANGED brokerVars /\ UNCHANGED notified
    BY <1>4, NotIdle DEF Commit, Labels
  <2>2. PICK label \in {"confirm_head", "reconcile"} : Goto(p, [w EXCEPT !.pc = label, !.seen = None])
    BY <1>4 DEF Commit
  <2> DEFINE v == [w EXCEPT !.pc = label, !.seen = None]
  <2>3. Keeps(w, v)
    BY <2>1, WorkAt DEF Keeps, Works
  <2>4. Goto(p, v)
    BY <2>2
  <2> HIDE DEF v
  <2>5. QED BY <1>1, <2>1, <2>3, <2>4, GotoDelivery
<1>5. CASE Notify(p)
  <2> DEFINE v == [w EXCEPT !.pc = "complete"]
             own == {r \in Listed(head) : r.incident = w.binding.incident}
  <2>1. w # Idle /\ At(p, "notify")
    BY <1>5, NotIdle DEF Notify, Labels
  <2>2. w \in Works /\ head # None
    BY <2>1, WorkAt DEF WorkOK, At
  <2>3. own \subseteq Bindings
    BY <2>2 DEF IInv, FeedOK, Mirror, Documents, Listed
  <2>4. CASE (Settle(p, "reject") \/ Settle(p, "abandon")) /\ UNCHANGED notified
    BY <1>1, <2>1, <2>4, SettleDelivery
  <2>5. CASE notified' = notified \cup own /\ Goto(p, v) /\ UNCHANGED brokerVars
    <3>1. Keeps(w, v)
      BY <2>2 DEF Keeps, Works
    <3> HIDE DEF v, own
    <3>2. QED BY <1>1, <2>1, <2>3, <2>5, <3>1, GotoDelivery
  <2>6. QED BY <1>5, <2>4, <2>5 DEF Notify
<1>6. CASE Complete(p)
  <2>1. w # Idle /\ Settle(p, "complete") /\ UNCHANGED notified
    BY <1>6, NotIdle DEF Complete, Labels, feedVars
  <2>2. QED BY <1>1, <2>1, SettleDelivery
<1>7. QED BY <1>2, <1>3, <1>4, <1>5, <1>6 DEF Produce

LEMMA LoseLockDelivery ==
    ASSUME IInv, DeliveryOK, NEW p \in Producers, LoseLock(p)
    PROVE  DeliveryOK'
<1>1. /\ producer[p] # Idle /\ producer[p].lock /\ GiveBack(Subject(p)) /\ UNCHANGED deliveries
      /\ producer' = [producer EXCEPT ![p] = [producer[p] EXCEPT !.lock = FALSE]]
  BY DEF LoseLock, Goto
<1>2. OnlyFrees(Subject(p))
  BY <1>1, SessionsMove DEF IInv
<1>3. queued[Subject(p)] # <<>> /\ Subject(p) \in Incidents
  BY <1>1, WorkAt DEF IInv, BrokerOK
<1>4. QED BY <1>1, <1>2, <1>3, DeliveryGivenUp DEF IInv

\* A delivery of the oldest trigger of a session that waits.
LEMMA Delivered ==
    ASSUME IInv, DeliveryOK, NEW i \in Incidents, Waits(i), Deliver(i)
    PROVE  /\ Oldest(i) \in DOMAIN deliveries /\ Oldest(i).incident = i
           /\ DOMAIN deliveries' = DOMAIN deliveries
           /\ \A b \in DOMAIN deliveries : deliveries'[b] \in 0 .. MaxDelivery
           /\ \A b \in DOMAIN deliveries : b # Oldest(i) => deliveries'[b] = deliveries[b]
<1>1. queued[i] \in Seq(Bindings) /\ queued[i] # <<>> /\ SessionFree(i)
  BY DEF Waits, IInv, BrokerOK
<1>2. 1 \in 1 .. Len(queued[i]) /\ Oldest(i) = queued[i][1]
  BY <1>1 DEF Oldest
<1>3. /\ Oldest(i) \in DOMAIN deliveries /\ deliveries[Oldest(i)] < MaxDelivery
      /\ Oldest(i).incident = i
  BY <1>1, <1>2 DEF DeliveryOK, IInv, BrokerOK
<1>4. deliveries[Oldest(i)] + 1 \in 0 .. MaxDelivery
  BY <1>3, FeedAssumption DEF DeliveryOK
<1>5. deliveries' = [deliveries EXCEPT ![Oldest(i)] = deliveries[Oldest(i)] + 1]
  BY DEF Deliver
<1>6. QED BY <1>3, <1>4, <1>5 DEF DeliveryOK

LEMMA TriggerDelivery ==
    ASSUME IInv, DeliveryOK, NEW i \in Incidents, ExpireTrigger(i) \/ RejectTrigger(i)
    PROVE  DeliveryOK'
<1>1. Waits(i) /\ Remove(i) /\ UNCHANGED producer /\ queued[i] # <<>>
  BY DEF ExpireTrigger, RejectTrigger, Waits
<1>2. OnlyFrees(i)
  BY <1>1 DEF OnlyFrees, SessionFree, Subject
<1>3. CASE UNCHANGED deliveries
  BY <1>1, <1>2, <1>3, DeliveryGivenUp DEF IInv
<1>4. CASE Deliver(i)
  BY <1>1, <1>2, <1>4, Delivered, DeliveryRemoved DEF IInv
<1>5. QED BY <1>3, <1>4 DEF ExpireTrigger, RejectTrigger

LEMMA ReceiveDelivery ==
    ASSUME IInv, DeliveryOK, NEW p \in Producers, NEW i \in Incidents, Receive(p, i)
    PROVE  DeliveryOK'
<1>a. PICK v : v = [pc |-> "enrich", binding |-> Oldest(i), lock |-> TRUE,
                    published |-> index.at + 1, at |-> index.at + 1, outer |-> 1, tries |-> 1,
                    index |-> index, own |-> None, candidate |-> None, seen |-> None]
  OBVIOUS
<1>1. /\ producer[p] = Idle /\ Waits(i) /\ Deliver(i) /\ queued' = queued
      /\ producer' = [producer EXCEPT ![p] = v]
  BY <1>a DEF Receive, Goto
<1>2. v.binding = Oldest(i) /\ v.lock = TRUE /\ v # Idle
  BY <1>a DEF Idle
<1>3. /\ Oldest(i) \in DOMAIN deliveries /\ Oldest(i).incident = i
      /\ DOMAIN deliveries' = DOMAIN deliveries
      /\ \A b \in DOMAIN deliveries : deliveries'[b] \in 0 .. MaxDelivery
      /\ \A b \in DOMAIN deliveries : b # Oldest(i) => deliveries'[b] = deliveries[b]
  BY <1>1, Delivered
<1>4. \A j \in Incidents : SessionFree(j)' => SessionFree(j)
  BY <1>1, SessionsMove DEF IInv
<1>5. ~ SessionFree(i)'
  <2>1. producer'[p] = v
    BY <1>1 DEF IInv, ProducersOK
  <2>2. Subject(p)' = i
    BY <1>2, <1>3, <2>1 DEF Subject
  <2>3. QED BY <1>2, <2>1, <2>2 DEF SessionFree
<1>6. queued[i] \in Seq(Bindings) /\ Oldest(i) = queued[i][1] /\ 1 \in 1 .. Len(queued[i])
  BY <1>1 DEF IInv, BrokerOK, Waits, Oldest
<1>7. ASSUME NEW j \in Incidents, NEW n \in 1 .. Len(queued[j]), n > 1 \/ SessionFree(j)'
      PROVE  deliveries'[queued[j][n]] < MaxDelivery
  <2>1. queued[j][n] # Oldest(i)
    <3>1. CASE j = i
      <4>1. n # 1
        BY <1>5, <1>7, <3>1
      <4>2. QED BY <1>6, <3>1, <4>1 DEF DeliveryOK
    <3>2. CASE j # i
      BY <1>3, <3>2 DEF IInv, BrokerOK
    <3>3. QED BY <3>1, <3>2
  <2>2. QED BY <1>3, <1>4, <1>7, <2>1 DEF DeliveryOK
<1>8. QED BY <1>1, <1>3, <1>7 DEF DeliveryOK

\* A trigger is sent once, and then no delivery is used.
LEMMA EnqueueDelivery ==
    ASSUME IInv, DeliveryOK, Enqueue
    PROVE  DeliveryOK'
<1> DEFINE b == publisher.binding
           i == publisher.binding.incident
<1>1. UNCHANGED producer
  BY DEF Enqueue
<1>2. \A j \in Incidents : SessionFree(j)' => SessionFree(j)
  BY <1>1 DEF SessionFree, Subject
<1>3. CASE UNCHANGED <<queued, deliveries>>
  BY <1>2, <1>3, DeliveryStays
<1>4. CASE /\ b \notin DOMAIN deliveries
           /\ queued' = [queued EXCEPT ![i] = Append(queued[i], b)]
           /\ deliveries' = [c \in DOMAIN deliveries \cup {b} |->
                               IF c = b THEN 0 ELSE deliveries[c]]
  <2>1. publisher # Idle
    BY DEF Enqueue, Idle
  <2>2. b \in Bindings /\ i \in Incidents
    BY <2>1, PublisherAt DEF IInv
  <2>3. queued \in [Incidents -> Seq(Bindings)] /\ queued[i] \in Seq(Bindings)
    BY <2>2 DEF IInv, BrokerOK
  <2>4. /\ queued'[i] = Append(queued[i], b)
        /\ \A j \in Incidents : j # i => queued'[j] = queued[j]
    BY <1>4, <2>2, <2>3
  <2> DEFINE s == queued[i]
  <2>5. /\ Len(queued'[i]) = Len(s) + 1 /\ Len(s) \in Nat
        /\ \A n \in 1 .. Len(queued'[i]) : queued'[i][n] = IF n = Len(s) + 1 THEN b ELSE s[n]
        /\ \A n \in 1 .. Len(queued'[i]) : n = Len(s) + 1 \/ n \in 1 .. Len(s)
    <3>1. s \in Seq(Bindings)
      BY <2>3
    <3> HIDE DEF s, b
    <3>2. Len(Append(s, b)) = Len(s) + 1 /\ Len(s) \in Nat
      BY <2>2, <3>1
    <3>3. \A n \in 1 .. Len(Append(s, b)) : Append(s, b)[n] = IF n = Len(s) + 1 THEN b ELSE s[n]
      BY <2>2, <3>1, <3>2
    <3>4. \A n \in 1 .. Len(s) + 1 : n = Len(s) + 1 \/ n \in 1 .. Len(s)
      BY <3>2
    <3>5. queued'[i] = Append(s, b)
      BY <2>4 DEF s, b
    <3>6. QED BY <3>2, <3>3, <3>4, <3>5
  <2>6. /\ DOMAIN deliveries' = DOMAIN deliveries \cup {b} /\ deliveries'[b] = 0
        /\ \A c \in DOMAIN deliveries : deliveries'[c] = deliveries[c]
    BY <1>4
  <2>7. MaxDelivery \in Nat /\ 0 < MaxDelivery
    BY FeedAssumption
  <2>8. \A j \in Incidents : \A n \in 1 .. Len(queued[j]) : queued[j][n] \in DOMAIN deliveries
    BY DEF DeliveryOK
  <2> HIDE DEF b, i
  <2>9. ASSUME NEW j \in Incidents, NEW n \in 1 .. Len(queued'[j])
        PROVE  /\ queued'[j][n] \in DOMAIN deliveries'
               /\ n > 1 \/ SessionFree(j)' => deliveries'[queued'[j][n]] < MaxDelivery
               /\ \A m \in 1 .. Len(queued'[j]) : queued'[j][m] = queued'[j][n] => m = n
    <3>1. CASE j # i
      <4>1. queued'[j] = queued[j] /\ n \in 1 .. Len(queued[j])
        BY <2>4, <3>1
      <4>2. QED BY <1>2, <2>6, <2>8, <4>1 DEF DeliveryOK
    <3>2. CASE j = i /\ n = Len(s) + 1
      <4>1. queued'[j][n] = b
        BY <2>5, <3>2
      <4>2. \A m \in 1 .. Len(queued'[j]) : queued'[j][m] = b => m = n
        BY <1>4, <2>2, <2>5, <2>8, <3>2
      <4>3. QED BY <2>6, <2>7, <4>1, <4>2
    <3>3. CASE j = i /\ n \in 1 .. Len(s)
      <4>1. queued'[j][n] = s[n] /\ s[n] \in DOMAIN deliveries
        BY <2>2, <2>5, <2>8, <3>3
      <4>2. \A m \in 1 .. Len(queued'[j]) : queued'[j][m] = s[n] => m \in 1 .. Len(s)
        BY <1>4, <2>5, <3>3, <4>1
      <4>3. \A m \in 1 .. Len(queued'[j]) : queued'[j][m] = s[n] => m = n
        <5>1. SUFFICES ASSUME NEW m \in 1 .. Len(queued'[j]), queued'[j][m] = s[n] PROVE m = n
          OBVIOUS
        <5>2. m \in 1 .. Len(s)
          BY <4>2, <5>1
        <5>3. m # Len(s) + 1
          BY <2>5, <5>2
        <5>4. s[m] = s[n]
          BY <2>5, <3>3, <5>1, <5>3
        <5>5. \A k, l \in 1 .. Len(queued[i]) : queued[i][k] = queued[i][l] => k = l
          BY <2>2 DEF DeliveryOK
        <5>6. QED BY <3>3, <5>2, <5>4, <5>5
      <4>4. n > 1 \/ SessionFree(j)' => deliveries'[s[n]] < MaxDelivery
        BY <1>2, <2>2, <2>6, <3>3, <4>1 DEF DeliveryOK
      <4>5. QED BY <2>6, <4>1, <4>3, <4>4
    <3>4. QED BY <2>5, <3>1, <3>2, <3>3
  <2>10. /\ DOMAIN deliveries' \subseteq Bindings
         /\ \A c \in DOMAIN deliveries' : deliveries'[c] \in 0 .. MaxDelivery
    BY <2>2, <2>6, <2>7 DEF DeliveryOK
  <2>11. QED BY <2>9, <2>10 DEF DeliveryOK
<1>5. QED BY <1>3, <1>4 DEF Enqueue

LEMMA TypesInit == Init => TypeInv
<1> SUFFICES ASSUME Init PROVE TypeInv
  OBVIOUS
<1>1. ASSUME NEW i \in Listed0 PROVE Published(i) \in Bindings
  <2>1. i \in Incidents /\ MaxOccurrence[i] \in Nat \ {0}
    BY FeedAssumption
  <2>2. 1 \in 1 .. MaxOccurrence[i]
    BY <2>1
  <2>3. [number |-> 1, lifecycle |-> "active"] \in Occurrences
    BY <2>1, <2>2 DEF Occurrences
  <2>4. 0 \in 0 .. MaxRequests
    BY FeedAssumption
  <2>5. QED BY <2>1, <2>3, <2>4 DEF Published, Bindings
<1> DEFINE P == {Published(i) : i \in Listed0}
<1>2. P \subseteq Bindings
  BY <1>1
<1>3. /\ queued = [i \in Incidents |-> <<>>] /\ deliveries = [b \in P |-> 1]
      /\ settled = P /\ notified = P /\ expired = {} /\ faults = 0
  BY DEF Init
<1> HIDE DEF P
<1>4. 1 \in 0 .. MaxDelivery /\ 0 \in 0 .. MaxFaults
  BY FeedAssumption
<1>5. \A i \in Incidents : 1 .. Len(queued[i]) = {}
  BY <1>3
<1>6. DeliveryOK
  BY <1>2, <1>3, <1>4, <1>5 DEF DeliveryOK
<1>7. HistoryOK
  BY <1>2, <1>3, <1>4 DEF HistoryOK
<1>8. QED BY <1>6, <1>7 DEF TypeInv

\* What a step adds to the history.
LEMMA HistoryGrows ==
    ASSUME HistoryOK, expired' \subseteq expired \cup Bindings,
           settled' \subseteq settled \cup Bindings, notified' \subseteq notified \cup Bindings,
           UNCHANGED faults \/ Fault
    PROVE  HistoryOK'
<1>1. faults' \in 0 .. MaxFaults
  BY FeedAssumption DEF HistoryOK, Fault
<1>2. QED BY <1>1 DEF HistoryOK

\* The steps of others than the executions and the trigger queue.
LEMMA OutsideTypes ==
    ASSUME DeliveryOK, HistoryOK, UNCHANGED <<queued, deliveries, settled, notified, producer>>,
           expired' \subseteq expired \cup Bindings, UNCHANGED faults \/ Fault
    PROVE  TypeInv'
<1>1. \A j \in Incidents : SessionFree(j)' => SessionFree(j)
  BY DEF SessionFree, Subject
<1>2. DeliveryOK'
  BY <1>1, DeliveryStays
<1>3. HistoryOK'
  BY HistoryGrows
<1>4. QED BY <1>2, <1>3 DEF TypeInv

LEMMA TypesStep == IInv /\ TypeInv /\ [Next]_vars => TypeInv'
<1> SUFFICES ASSUME IInv, TypeInv, [Next]_vars PROVE TypeInv'
  OBVIOUS
<1> USE DEF TypeInv
<1>1. CASE UNCHANGED vars
  BY <1>1, OutsideTypes DEF vars, brokerVars, feedVars, guidanceVars
<1>2. ASSUME Heartbeat \/ \E i \in Incidents : PublishCurrent(i) \/ PublishIndex(i) \/ Submit(i)
      PROVE  TypeInv'
  BY <1>2, OutsideTypes DEF Heartbeat, PublishCurrent, PublishIndex, ReplaceIndex, Submit,
     brokerVars, feedVars, guidanceVars, envVars
<1>3. ASSUME NEW b \in Bindings, Expire(b)
      PROVE  TypeInv'
  BY <1>3, OutsideTypes DEF Expire, brokerVars, feedVars
<1>4. ASSUME NEW b, RejectRequest(b) \/ Authorize(b)
      PROVE  TypeInv'
  BY <1>4, OutsideTypes DEF RejectRequest, Authorize, brokerVars, feedVars, envVars
<1>5. CASE Activate \/ PublisherCrash
  BY <1>5, OutsideTypes DEF Activate, PublisherCrash, brokerVars, feedVars, envVars
<1>6. CASE Enqueue
  <2>1. UNCHANGED <<expired, settled, notified>> /\ (UNCHANGED faults \/ Fault)
    BY <1>6 DEF Enqueue, feedVars
  <2>2. QED BY <1>6, <2>1, EnqueueDelivery, HistoryGrows
<1>7. ASSUME NEW i \in Incidents, ExpireTrigger(i) \/ RejectTrigger(i)
      PROVE  TypeInv'
  <2>1. UNCHANGED <<expired, settled, notified, faults>>
    BY <1>7 DEF ExpireTrigger, RejectTrigger, envVars, guidanceVars, feedVars
  <2>2. QED BY <1>7, <2>1, TriggerDelivery, HistoryGrows
<1>8. ASSUME NEW p \in Producers, NEW i \in Incidents, Receive(p, i)
      PROVE  TypeInv'
  <2>1. UNCHANGED <<expired, settled, notified, faults>>
    BY <1>8 DEF Receive, envVars, guidanceVars, feedVars
  <2>2. QED BY <1>8, <2>1, ReceiveDelivery, HistoryGrows
<1>9. ASSUME NEW p \in Producers, Produce(p)
      PROVE  TypeInv'
  <2>1. /\ DeliveryOK' /\ producer[p] # Idle
        /\ settled' \subseteq settled \cup {producer[p].binding}
        /\ notified' \subseteq notified \cup Bindings
        /\ expired' = expired /\ (UNCHANGED faults \/ Fault)
    BY <1>9, ProduceTypes
  <2>2. producer[p].binding \in Bindings
    BY <2>1, WorkAt
  <2>3. QED BY <2>1, <2>2, HistoryGrows
<1>10. ASSUME NEW p \in Producers, Fail(p)
       PROVE  TypeInv'
  <2>1. producer[p] # Idle /\ Fault /\ Settle(p, "abandon") /\ UNCHANGED <<expired, notified>>
    BY <1>10 DEF Fail, guidanceVars, feedVars
  <2>2. producer[p].binding \in Bindings
    BY <2>1, WorkAt
  <2>3. DeliveryOK' /\ settled' \subseteq settled \cup {producer[p].binding}
    BY <2>1, SettleDelivery
  <2>4. QED BY <2>1, <2>2, <2>3, HistoryGrows
<1>11. ASSUME NEW p \in Producers, LoseLock(p)
       PROVE  TypeInv'
  <2>1. Fault /\ UNCHANGED <<expired, settled, notified>>
    BY <1>11 DEF LoseLock, guidanceVars, feedVars
  <2>2. QED BY <1>11, <2>1, LoseLockDelivery, HistoryGrows
<1>12. \A b \in requests : b \in Bindings
  BY DEF IInv, GuidanceOK
<1>13. \A i \in Incidents : activation[i] # None => activation[i] \in Bindings
  BY DEF IInv, GuidanceOK
<1>14. QED
  <2> USE DEF Next
  <2>1. CASE Next
    <3>1. CASE \E b \in requests : Expire(b) \/ RejectRequest(b) \/ Authorize(b)
      BY <1>3, <1>4, <1>12, <3>1
    <3>2. CASE \E i \in Incidents : activation[i] # None /\ Expire(activation[i])
      BY <1>3, <1>13, <3>2
    <3>3. CASE \E p \in Producers : Produce(p) \/ Fail(p) \/ LoseLock(p)
      BY <1>9, <1>10, <1>11, <3>3
    <3>4. QED BY <1>2, <1>5, <1>6, <1>7, <1>8, <2>1, <3>1, <3>2, <3>3
  <2>2. QED BY <1>1, <2>1

\* The state keeps its type, whatever sessions are lost: in particular no trigger is
\* delivered more often than its queue allows (run_wc027_enrichment_feed_worker).
THEOREM TypeCorrect == Spec => []TypeOK
<1>1. Spec => []TypeInv
  BY Invariance, TypesInit, TypesStep, PTL DEF Spec
<1>2. IInv /\ TypeInv => TypeOK
  <2> SUFFICES ASSUME IInv, TypeInv PROVE TypeOK
    OBVIOUS
  <2>1. queued \in [Incidents -> Seq(DOMAIN deliveries)]
    <3>1. queued \in [Incidents -> Seq(Bindings)]
      BY DEF IInv, BrokerOK
    <3>2. ASSUME NEW i \in Incidents PROVE queued[i] \in Seq(DOMAIN deliveries)
      <4>1. queued[i] \in Seq(Bindings)
            /\ \A n \in 1 .. Len(queued[i]) : queued[i][n] \in DOMAIN deliveries
        BY <3>1 DEF TypeInv, DeliveryOK
      <4>2. Len(queued[i]) \in Nat /\ queued[i] = [n \in 1 .. Len(queued[i]) |-> queued[i][n]]
        BY <4>1
      <4>3. QED BY <4>1, <4>2
    <3>3. QED BY <3>1, <3>2
  <2>2. head \in Documents \cup {None}
    BY DEF IInv, FeedOK, Mirror
  <2>3. /\ DOMAIN deliveries \subseteq Bindings
        /\ \A b \in DOMAIN deliveries : deliveries[b] \in 0 .. MaxDelivery
        /\ expired \subseteq Bindings /\ settled \subseteq Bindings /\ notified \subseteq Bindings
        /\ faults \in 0 .. MaxFaults
    BY DEF TypeInv, DeliveryOK, HistoryOK
  <2>4. /\ current \in [Incidents -> Occurrences \cup {None}] /\ index \in Indexes
        /\ requests \subseteq Bindings /\ submitted \in 0 .. MaxRequests
        /\ activation \in [Incidents -> Bindings \cup {None}]
        /\ registry \in [Incidents -> Bindings \cup {None}]
    BY DEF IInv, V1OK, GuidanceOK, FeedOK
  <2>5. QED BY <2>1, <2>2, <2>3, <2>4 DEF TypeOK
<1>3. QED BY <1>1, <1>2, Invariance, PTL
=============================================================================
