------------------------- MODULE IncidentFeedProofs -------------------------
(***************************************************************************)
(* The consistency of the incident feed, for any number of executions,     *)
(* heartbeats, incidents, hints, deliveries and lost sessions.             *)
(*                                                                         *)
(* An execution that publishes has uploaded what its publication refers    *)
(* to, and one that writes the index has written its pointer.  The writes  *)
(* are conditional, so an index write keeps the entries of the index it    *)
(* replaces, whose references are good already; and it concludes the       *)
(* reassessment whose health it shows.                                     *)
(*                                                                         *)
(* What is said of notifications needs sessions that are not lost while    *)
(* their holder runs on.  Executions of one incident then follow one       *)
(* another, and its current.json and its entry are as the last one left    *)
(* them: a state found current has reached the index, or shows that it has *)
(* not.                                                                    *)
(***************************************************************************)
EXTENDS IncidentFeed, TLAPS

\* The part of an execution's local state that its publications use.
LocalTypeOK ==
    /\ pc \in [Executions -> WorkerPCs \cup HeartbeatPCs]
    /\ req \in [Workers -> Requests \cup {NoRequest}]
    /\ \A w \in Workers : pc[w] # "idle" => req[w] \in Requests
    /\ at \in [Executions -> Nat]
    /\ snap \in [Executions -> Indexes \cup {NoIndex}]
    /\ DOMAIN seen = Executions

FeedTypeOK ==
    /\ clock \in Nat
    /\ current \in [Incidents -> Pointers \cup {NoPointer}]
    /\ index \in Indexes \cup {NoIndex}
    /\ LocalTypeOK

\* What a worker is about to publish is uploaded.
Published(w) ==
    pc[w] \in {"pointing", "indexing"} =>
        /\ \A k \in Kinds : <<k, PointerOf(w)>> \in assets
        /\ <<"indexAttestation", IndexOf(w)>> \in assets

UploadedBeforePublishing == \A w \in Workers : Published(w)

\* What a heartbeat is about to publish is attested.
Attested(h) == pc[h] = "replacing" => <<"indexAttestation", Refreshed(h)>> \in assets

AttestedBeforeReplacing == \A h \in Heartbeats : Attested(h)

\* A worker that writes the index has written current.json, which since then has
\* become newer if it changed.
Pointed(w) ==
    pc[w] = "indexing" =>
        current[I(w)] # NoPointer /\ current[I(w)].published >= at[w]

PointerBeforeIndex == \A w \in Workers : Pointed(w)

\* The inductive invariant.
IInv ==
    /\ FeedTypeOK
    /\ UploadedBeforePublishing
    /\ AttestedBeforeReplacing
    /\ PointerBeforeIndex
    /\ FeedReferencesExist
    /\ IndexTrailsCurrent

-----------------------------------------------------------------------------
(* What is published *)

\* The publication built by a worker: typed, newer than the snapshot it was
\* built from, and with the snapshot's entries for all other incidents.
LEMMA PublicationBuilt ==
    ASSUME FeedTypeOK, NEW w \in Workers, pc[w] # "idle"
    PROVE  /\ I(w) \in Incidents
           /\ PointerOf(w) \in Pointers /\ PointerOf(w) # NoPointer
           /\ PointerOf(w).published = at[w]
           /\ IndexOf(w) \in Indexes /\ IndexOf(w) # NoIndex
           /\ snap[w] # NoIndex => IndexOf(w).published > snap[w].published
           /\ \A i \in Incidents : i # I(w) => Entry(IndexOf(w), i) = Entry(snap[w], i)
           /\ Entry(IndexOf(w), I(w)) \in {NoPointer, PointerOf(w)}
           /\ Healthy(w) => Entry(IndexOf(w), I(w)) = NoPointer
           /\ ~Healthy(w) => Entry(IndexOf(w), I(w)) = PointerOf(w)
<1>1. req[w] \in Requests /\ at[w] \in Nat /\ snap[w] \in Indexes \cup {NoIndex}
  BY DEF FeedTypeOK, LocalTypeOK, Executions
<1>2. I(w) \in Incidents
  BY <1>1, RequestAssumption DEF I
<1>3. PointerOf(w) \in Pointers /\ PointerOf(w).published = at[w]
  BY <1>1 DEF PointerOf, Pointers, Lifecycle, Lifecycles
<1>4. PointerOf(w) # NoPointer
  BY <1>3, AbsenceAssumption
<1> DEFINE entries == [i \in Incidents |->
                         IF i # I(w) THEN Entry(snap[w], i)
                         ELSE IF Healthy(w) THEN NoPointer ELSE PointerOf(w)]
           time == IF snap[w] = NoIndex \/ at[w] > snap[w].published
                   THEN at[w] ELSE snap[w].published + 1
<1>5. \A i \in Incidents : Entry(snap[w], i) \in Pointers \cup {NoPointer}
  BY <1>1 DEF Entry, Indexes
<1>6. entries \in [Incidents -> Pointers \cup {NoPointer}]
  BY <1>3, <1>5
<1>7. snap[w] # NoIndex => snap[w].published \in Nat
  BY <1>1 DEF Indexes
<1>8. time \in Nat /\ (snap[w] # NoIndex => time > snap[w].published)
  BY <1>1, <1>7
<1>9. IndexOf(w) = [entries |-> entries, published |-> time]
  BY DEF IndexOf, Successor
<1> HIDE DEF entries, time
<1>10. IndexOf(w) \in Indexes /\ IndexOf(w).entries = entries /\ IndexOf(w).published = time
  BY <1>6, <1>8, <1>9 DEF Indexes
<1>11. IndexOf(w) # NoIndex
  BY <1>10, AbsenceAssumption
<1>12. \A i \in Incidents : Entry(IndexOf(w), i) = entries[i]
  BY <1>10, <1>11 DEF Entry
<1>13. \A i \in Incidents : i # I(w) => entries[i] = Entry(snap[w], i)
  BY DEF entries
<1>14. /\ entries[I(w)] \in {NoPointer, PointerOf(w)}
       /\ Healthy(w) => entries[I(w)] = NoPointer
       /\ ~Healthy(w) => entries[I(w)] = PointerOf(w)
  BY <1>2 DEF entries
<1>15. QED
  BY <1>2, <1>3, <1>4, <1>8, <1>10, <1>11, <1>12, <1>13, <1>14

\* The index a heartbeat builds: typed, newer, and with the same entries.
LEMMA RefreshBuilt ==
    ASSUME FeedTypeOK, NEW h \in Heartbeats
    PROVE  /\ Refreshed(h) \in Indexes /\ Refreshed(h) # NoIndex
           /\ snap[h] # NoIndex => Refreshed(h).published > snap[h].published
           /\ \A i \in Incidents : Entry(Refreshed(h), i) = Entry(snap[h], i)
<1>1. at[h] \in Nat /\ snap[h] \in Indexes \cup {NoIndex}
  BY DEF FeedTypeOK, LocalTypeOK, Executions
<1> DEFINE entries == [i \in Incidents |-> Entry(snap[h], i)]
           time == IF snap[h] = NoIndex \/ at[h] > snap[h].published
                   THEN at[h] ELSE snap[h].published + 1
<1>2. entries \in [Incidents -> Pointers \cup {NoPointer}]
  BY <1>1 DEF Entry, Indexes
<1>3. snap[h] # NoIndex => snap[h].published \in Nat
  BY <1>1 DEF Indexes
<1>4. time \in Nat /\ (snap[h] # NoIndex => time > snap[h].published)
  BY <1>1, <1>3
<1>5. Refreshed(h) = [entries |-> entries, published |-> time]
  BY DEF Refreshed, Successor
<1> HIDE DEF entries, time
<1>6. /\ Refreshed(h) \in Indexes
      /\ Refreshed(h).entries = entries
      /\ Refreshed(h).published = time
  BY <1>2, <1>4, <1>5 DEF Indexes
<1>7. Refreshed(h) # NoIndex
  BY <1>6, AbsenceAssumption
<1>8. \A i \in Incidents : Entry(Refreshed(h), i) = entries[i]
  BY <1>6, <1>7 DEF Entry
<1>9. \A i \in Incidents : entries[i] = Entry(snap[h], i)
  BY DEF entries
<1>10. QED
  BY <1>4, <1>6, <1>7, <1>8, <1>9

-----------------------------------------------------------------------------
(* Steps *)

\* A step of execution e leaves the local state of all others alone.
OnlyMoves(e) ==
    /\ \A f \in Executions \ {e} :
         pc'[f] = pc[f] /\ seen'[f] = seen[f] /\ at'[f] = at[f] /\ snap'[f] = snap[f]
    /\ \A w \in Workers \ {e} : req'[w] = req[w]

\* current.json of an incident is kept or replaced by one that is no older.
CurrentForward ==
    \A i \in Incidents :
        \/ current'[i] = current[i]
        \/ /\ current'[i] # NoPointer
           /\ current[i] # NoPointer => current'[i].published >= current[i].published

\* How an execution moves on: its local state stays typed and the others' alone.
LEMMA Moving ==
    ASSUME LocalTypeOK, NEW e \in Executions, NEW label \in WorkerPCs \cup HeartbeatPCs,
           Goto(e, label), e \in Workers => pc[e] # "idle",
           UNCHANGED <<req, seen, at, snap>>
    PROVE  LocalTypeOK' /\ OnlyMoves(e) /\ pc'[e] = label
BY DEF LocalTypeOK, OnlyMoves, Executions, Goto

LEMMA Releasing ==
    ASSUME LocalTypeOK, NEW w \in Workers, Finish(w)
    PROVE  LocalTypeOK' /\ OnlyMoves(w) /\ pc'[w] = "idle"
BY DEF LocalTypeOK, OnlyMoves, Executions, Finish, WorkerPCs

LEMMA Concluding ==
    ASSUME LocalTypeOK, NEW w \in Workers, NEW label \in WorkerPCs,
           pc[w] # "idle", Conclude(w, label)
    PROVE  LocalTypeOK' /\ OnlyMoves(w) /\ pc'[w] = label
BY DEF LocalTypeOK, OnlyMoves, Executions, Conclude, Goto

LEMMA Stopping ==
    ASSUME LocalTypeOK, NEW h \in Heartbeats, Stop(h), UNCHANGED req
    PROVE  LocalTypeOK' /\ OnlyMoves(h) /\ pc'[h] = "done"
BY ExecutionAssumption
DEF LocalTypeOK, OnlyMoves, Executions, Stop, Goto, HeartbeatPCs

\* The steps of a worker.
LEMMA WorkerTypeStep ==
    ASSUME FeedTypeOK, NEW w \in Workers, WorkerStep(w)
    PROVE  FeedTypeOK' /\ OnlyMoves(w)
<1> w \in Executions
  BY DEF Executions
<1>a. LocalTypeOK /\ (pc[w] # "idle" => req[w] \in Requests)
  BY DEF FeedTypeOK, LocalTypeOK
<1>b. SUFFICES LocalTypeOK' /\ OnlyMoves(w) /\ clock' \in Nat
               /\ current' \in [Incidents -> Pointers \cup {NoPointer}]
               /\ index' \in Indexes \cup {NoIndex}
  BY DEF FeedTypeOK
<1>1. CASE Receive(w)
  BY <1>1 DEF Receive, FeedTypeOK, LocalTypeOK, OnlyMoves, Executions, WorkerPCs, Goto,
              blobVars
<1>2. CASE LoseLock(w)
  BY <1>2 DEF LoseLock, FeedTypeOK, LocalTypeOK, OnlyMoves, Executions, blobVars
<1>3. CASE Reject(w)
  BY <1>3, <1>a, Releasing DEF Reject, Settle, FeedTypeOK, blobVars
<1>4. CASE Fail(w)
  BY <1>4, <1>a, Releasing DEF Fail, Release, FeedTypeOK, blobVars
<1>5. CASE Reassess(w)
  BY <1>5 DEF Reassess, Reads, FeedTypeOK, LocalTypeOK, OnlyMoves, Executions, WorkerPCs,
              Goto, blobVars
<1>6. CASE ReadIndex(w)
  BY <1>6 DEF ReadIndex, FeedTypeOK, LocalTypeOK, OnlyMoves, Executions, WorkerPCs, Goto,
              blobVars
<1>7. CASE ReadCurrent(w)
  <2>1. pc[w] # "idle" /\ UNCHANGED <<clock, current, index>>
    BY <1>7 DEF ReadCurrent, blobVars
  <2>2. Conclude(w, "completing") \/ Conclude(w, "enqueueing") \/ Finish(w)
    BY <1>7 DEF ReadCurrent, Release
  <2>3. LocalTypeOK' /\ OnlyMoves(w)
    BY <1>a, <2>1, <2>2, Concluding, Releasing DEF WorkerPCs
  <2>4. QED BY <2>1, <2>3 DEF FeedTypeOK
<1>8. CASE Upload(w)
  <2>1. pc[w] # "idle" /\ UNCHANGED <<clock, current, index>>
    BY <1>8 DEF Upload
  <2>2. Finish(w) \/ (Goto(w, "pointing") /\ UNCHANGED <<req, seen, at, snap>>)
    BY <1>8 DEF Upload, Release
  <2>3. LocalTypeOK' /\ OnlyMoves(w)
    BY <1>a, <2>1, <2>2, Moving, Releasing DEF WorkerPCs
  <2>4. QED BY <2>1, <2>3 DEF FeedTypeOK
<1>9. CASE PublishPointer(w)
  <2>1. pc[w] # "idle" /\ UNCHANGED <<clock, index>>
    BY <1>9 DEF PublishPointer
  <2>2. Finish(w) \/ (Goto(w, "indexing") /\ UNCHANGED <<req, seen, at, snap>>)
    BY <1>9 DEF PublishPointer, Release
  <2>3. LocalTypeOK' /\ OnlyMoves(w)
    BY <1>a, <2>1, <2>2, Moving, Releasing DEF WorkerPCs
  <2>4. current' = current \/ current' = [current EXCEPT ![I(w)] = PointerOf(w)]
    BY <1>9 DEF PublishPointer
  <2>5. current' \in [Incidents -> Pointers \cup {NoPointer}]
    BY <2>1, <2>4, PublicationBuilt DEF FeedTypeOK
  <2>6. QED BY <2>1, <2>3, <2>5 DEF FeedTypeOK
<1>10. CASE PublishIndex(w)
  <2>1. pc[w] # "idle" /\ UNCHANGED <<clock, current>>
    BY <1>10 DEF PublishIndex
  <2>2. Finish(w) \/ Conclude(w, "enqueueing")
    BY <1>10 DEF PublishIndex, Release
  <2>3. LocalTypeOK' /\ OnlyMoves(w)
    BY <1>a, <2>1, <2>2, Concluding, Releasing DEF WorkerPCs
  <2>4. index' = index \/ index' = IndexOf(w)
    BY <1>10 DEF PublishIndex
  <2>5. index' \in Indexes \cup {NoIndex}
    BY <2>1, <2>4, PublicationBuilt DEF FeedTypeOK
  <2>6. QED BY <2>1, <2>3, <2>5 DEF FeedTypeOK
<1>11. CASE Enqueue(w)
  BY <1>11, <1>a, Moving DEF Enqueue, WorkerPCs, FeedTypeOK, blobVars
<1>12. CASE Complete(w)
  BY <1>12, <1>a, Releasing DEF Complete, Settle, FeedTypeOK, blobVars
<1>13. QED
  BY <1>1, <1>2, <1>3, <1>4, <1>5, <1>6, <1>7, <1>8, <1>9, <1>10, <1>11, <1>12
  DEF WorkerStep

\* The steps of a heartbeat.
LEMMA HeartbeatTypeStep ==
    ASSUME FeedTypeOK, NEW h \in Heartbeats, HeartbeatStep(h)
    PROVE  FeedTypeOK' /\ OnlyMoves(h)
<1> h \in Executions /\ h \notin Workers
  BY ExecutionAssumption DEF Executions
<1>a. LocalTypeOK
  BY DEF FeedTypeOK
<1>b. UNCHANGED req
  BY DEF HeartbeatStep, Observe, Snapshot, Attest, Replace, Recover, FailHeartbeat,
         HeartbeatKeeps
<1>1. CASE Observe(h)
  BY <1>1, <1>b DEF Observe, Reads, FeedTypeOK, LocalTypeOK, OnlyMoves, Executions,
                    HeartbeatPCs, Goto, blobVars
<1>2. CASE Snapshot(h)
  <2>1. UNCHANGED <<clock, current, index>>
    BY <1>2 DEF Snapshot, blobVars
  <2>2. CASE Matches(h, index)
    <3>1. /\ snap' = [snap EXCEPT ![h] = index]
          /\ Goto(h, "attesting")
          /\ UNCHANGED <<seen, at>>
      BY <1>2, <2>2 DEF Snapshot
    <3>2. LocalTypeOK' /\ OnlyMoves(h)
      BY <3>1, <1>b DEF FeedTypeOK, LocalTypeOK, OnlyMoves, Executions, HeartbeatPCs, Goto
    <3>3. QED BY <2>1, <3>2 DEF FeedTypeOK
  <2>3. CASE ~Matches(h, index)
    <3>1. Stop(h)
      BY <1>2, <2>3 DEF Snapshot
    <3>2. QED BY <1>a, <1>b, <2>1, <3>1, Stopping DEF FeedTypeOK
  <2>4. QED BY <2>2, <2>3
<1>3. CASE Attest(h)
  BY <1>3, <1>a, <1>b, Moving DEF Attest, HeartbeatPCs, FeedTypeOK
<1>4. CASE Replace(h)
  <2>1. UNCHANGED <<clock, current>>
    BY <1>4 DEF Replace
  <2>2. Stop(h) \/ (Goto(h, "recovering") /\ UNCHANGED <<seen, at, snap>>)
    BY <1>4 DEF Replace
  <2>3. LocalTypeOK' /\ OnlyMoves(h)
    BY <1>a, <1>b, <2>2, Moving, Stopping DEF HeartbeatPCs
  <2>4. index' = index \/ index' = Refreshed(h)
    BY <1>4 DEF Replace
  <2>5. index' \in Indexes \cup {NoIndex}
    BY <2>4, RefreshBuilt DEF FeedTypeOK
  <2>6. QED BY <2>1, <2>3, <2>5 DEF FeedTypeOK
<1>5. CASE Recover(h)
  <2>1. UNCHANGED <<clock, current, index>>
    BY <1>5 DEF Recover, blobVars
  <2>2. Stop(h) \/ (Goto(h, "snapshot") /\ UNCHANGED <<seen, at, snap>>)
    BY <1>5 DEF Recover
  <2>3. LocalTypeOK' /\ OnlyMoves(h)
    BY <1>a, <1>b, <2>2, Moving, Stopping DEF HeartbeatPCs
  <2>4. QED BY <2>1, <2>3 DEF FeedTypeOK
<1>6. CASE FailHeartbeat(h)
  BY <1>6, <1>a, <1>b, Stopping DEF FailHeartbeat, FeedTypeOK, blobVars
<1>7. QED
  BY <1>1, <1>2, <1>3, <1>4, <1>5, <1>6 DEF HeartbeatStep

-----------------------------------------------------------------------------
(* The inductive invariant *)

\* What an execution publishes is a function of its local state.
LEMMA SamePublication ==
    ASSUME NEW w \in Workers, UNCHANGED <<req[w], seen[w], at[w], snap[w]>>
    PROVE  PointerOf(w)' = PointerOf(w) /\ IndexOf(w)' = IndexOf(w) /\ I(w)' = I(w)
BY DEF PointerOf, IndexOf, I, Lifecycle, Healthy, Successor, Entry

LEMMA SameRefresh ==
    ASSUME NEW h \in Heartbeats, UNCHANGED <<at[h], snap[h]>>
    PROVE  Refreshed(h)' = Refreshed(h)
BY DEF Refreshed, Successor, Entry

\* Assets are never removed and pointers never go back, so what the others are
\* about to publish stays uploaded and what they have published stays there.
LEMMA Bystanders ==
    ASSUME IInv, FeedTypeOK', NEW e \in Executions, OnlyMoves(e),
           assets \subseteq assets', CurrentForward
    PROVE  /\ \A w \in Workers \ {e} : Published(w)' /\ Pointed(w)'
           /\ \A h \in Heartbeats \ {e} : Attested(h)'
<1>1. ASSUME NEW w \in Workers \ {e} PROVE Published(w)' /\ Pointed(w)'
  <2>1. pc'[w] = pc[w] /\ UNCHANGED <<req[w], seen[w], at[w], snap[w]>>
    BY DEF OnlyMoves, Executions
  <2>2. PointerOf(w)' = PointerOf(w) /\ IndexOf(w)' = IndexOf(w) /\ I(w)' = I(w)
    BY <2>1, SamePublication
  <2>3. Published(w)'
    BY <2>1, <2>2 DEF IInv, UploadedBeforePublishing, Published
  <2>4. Pointed(w)'
    <3> SUFFICES ASSUME pc'[w] = "indexing" PROVE Pointed(w)'
      BY DEF Pointed
    <3>1. I(w) \in Incidents
      BY <2>1, PublicationBuilt DEF IInv
    <3>2. current[I(w)] # NoPointer /\ current[I(w)].published >= at[w]
      BY <2>1 DEF IInv, PointerBeforeIndex, Pointed
    <3>3. current[I(w)].published \in Nat /\ at[w] \in Nat
      BY <3>1, <3>2 DEF IInv, FeedTypeOK, LocalTypeOK, Pointers, Executions
    <3>4. current'[I(w)] # NoPointer /\ current'[I(w)].published >= current[I(w)].published
      BY <3>1, <3>2, <3>3 DEF CurrentForward
    <3>5. current'[I(w)].published \in Nat
      BY <3>1, <3>4 DEF FeedTypeOK, Pointers
    <3>6. QED BY <2>1, <2>2, <3>2, <3>3, <3>4, <3>5 DEF Pointed
  <2>5. QED BY <2>3, <2>4
<1>2. ASSUME NEW h \in Heartbeats \ {e} PROVE Attested(h)'
  <2>1. pc'[h] = pc[h] /\ UNCHANGED <<at[h], snap[h]>>
    BY DEF OnlyMoves, Executions
  <2>2. Refreshed(h)' = Refreshed(h)
    BY <2>1, SameRefresh
  <2>3. QED BY <2>1, <2>2 DEF IInv, AttestedBeforeReplacing, Attested
<1>3. QED BY <1>1, <1>2

\* The feed is good when its new assets only add, its pointers only move forward
\* to uploaded ones, and its index keeps an entry or takes an uploaded one that
\* is not newer than the pointer.
LEMMA FeedGood ==
    ASSUME IInv, FeedTypeOK', assets \subseteq assets', CurrentForward,
           \A i \in Incidents : current'[i] # current[i] =>
               \A k \in Kinds : <<k, current'[i]>> \in assets',
           index' # index => <<"indexAttestation", index'>> \in assets',
           \A i \in Incidents :
               LET p == Entry(index', i) IN
               \/ p \in {Entry(index, i), NoPointer}
               \/ /\ \A k \in Kinds : <<k, p>> \in assets'
                  /\ current'[i] # NoPointer /\ current'[i].published >= p.published
    PROVE  FeedReferencesExist' /\ IndexTrailsCurrent'
<1>1. FeedReferencesExist'
  <2>1. ASSUME NEW i \in Incidents, NEW k \in Kinds, current'[i] # NoPointer
        PROVE  <<k, current'[i]>> \in assets'
    BY <2>1 DEF IInv, FeedReferencesExist
  <2>2. ASSUME NEW i \in Incidents, NEW k \in Kinds, Entry(index', i) # NoPointer
        PROVE  <<k, Entry(index', i)>> \in assets'
    BY <2>2 DEF IInv, FeedReferencesExist
  <2>3. index' # NoIndex => <<"indexAttestation", index'>> \in assets'
    BY DEF IInv, FeedReferencesExist
  <2>4. \A i : Entry(index, i)' = Entry(index', i)
    BY DEF Entry
  <2>5. QED BY <2>1, <2>2, <2>3, <2>4 DEF FeedReferencesExist
<1>2. IndexTrailsCurrent'
  <2>1. SUFFICES ASSUME NEW i \in Incidents, Entry(index', i) # NoPointer
        PROVE  current'[i] # NoPointer
                 /\ current'[i].published >= Entry(index', i).published
    BY DEF IndexTrailsCurrent, Active, Entry
  <2>2. CASE Entry(index', i) = Entry(index, i)
    <3>1. i \in Active(index) /\ index.entries[i] = Entry(index, i)
      BY <2>1, <2>2 DEF Active, Entry
    <3>2. current[i] # NoPointer /\ current[i].published >= Entry(index, i).published
      BY <3>1 DEF IInv, IndexTrailsCurrent
    <3>3. current'[i] # NoPointer /\ Entry(index, i) # NoPointer
      BY <2>1, <2>2, <3>2 DEF CurrentForward
    <3>4. current[i].published \in Nat /\ current'[i].published \in Nat
      BY <3>2, <3>3 DEF IInv, FeedTypeOK, Pointers
    <3>5. Entry(index, i) \in Pointers
      BY <3>3 DEF IInv, FeedTypeOK, Entry, Indexes
    <3>6. Entry(index, i).published \in Nat
      BY <3>5 DEF Pointers
    <3>7. current'[i].published >= current[i].published
      BY <3>2, <3>4 DEF CurrentForward
    <3>8. QED BY <2>2, <3>2, <3>3, <3>4, <3>6, <3>7
  <2>3. CASE Entry(index', i) # Entry(index, i)
    BY <2>1, <2>3
  <2>4. QED BY <2>2, <2>3
<1>3. QED BY <1>1, <1>2

\* A step that publishes nothing, after which its execution is not about to.
LEMMA QuietStep ==
    ASSUME IInv, FeedTypeOK', NEW e \in Executions, OnlyMoves(e),
           UNCHANGED <<current, index>>, assets \subseteq assets',
           pc'[e] \notin {"pointing", "indexing", "replacing"}
    PROVE  IInv'
<1>1. CurrentForward
  BY DEF CurrentForward
<1>2. FeedReferencesExist' /\ IndexTrailsCurrent'
  BY <1>1, FeedGood
<1>3. UploadedBeforePublishing' /\ PointerBeforeIndex'
  BY <1>1, Bystanders DEF UploadedBeforePublishing, PointerBeforeIndex, Published, Pointed
<1>4. AttestedBeforeReplacing'
  BY <1>1, Bystanders DEF AttestedBeforeReplacing, Attested
<1>5. QED BY <1>2, <1>3, <1>4 DEF IInv

\* A step after which no execution has changed what it is about to publish.
LEMMA IdleStep ==
    ASSUME IInv, UNCHANGED <<clock, current, index, assets, pc, req, seen, at, snap>>
    PROVE  IInv'
<1>1. FeedTypeOK'
  BY DEF IInv, FeedTypeOK, LocalTypeOK
<1>2. CurrentForward
  BY DEF CurrentForward
<1>3. FeedReferencesExist' /\ IndexTrailsCurrent'
  BY <1>1, <1>2, FeedGood
<1>4. ASSUME NEW w \in Workers PROVE Published(w)' /\ Pointed(w)'
  <2>1. PointerOf(w)' = PointerOf(w) /\ IndexOf(w)' = IndexOf(w) /\ I(w)' = I(w)
    BY SamePublication
  <2>2. QED
    BY <2>1 DEF IInv, UploadedBeforePublishing, PointerBeforeIndex, Published, Pointed
<1>5. ASSUME NEW h \in Heartbeats PROVE Attested(h)'
  <2>1. Refreshed(h)' = Refreshed(h)
    BY SameRefresh
  <2>2. QED BY <2>1 DEF IInv, AttestedBeforeReplacing, Attested
<1>6. QED
  BY <1>1, <1>3, <1>4, <1>5
  DEF IInv, UploadedBeforePublishing, PointerBeforeIndex, AttestedBeforeReplacing

\* publish_incident: everything the publication refers to is there afterwards, or
\* the execution has ended.
LEMMA UploadStep ==
    ASSUME IInv, FeedTypeOK', NEW w \in Workers, OnlyMoves(w), Upload(w)
    PROVE  IInv'
<1> w \in Executions /\ LocalTypeOK
  BY DEF Executions, IInv, FeedTypeOK
<1>1. assets \subseteq assets' /\ UNCHANGED <<current, index>> /\ pc[w] = "uploading"
  BY DEF Upload, Uploaded
<1>2. CASE Finish(w)
  BY <1>1, <1>2, Releasing, QuietStep
<1>3. CASE ~Finish(w)
  <2>1. /\ Uploaded({<<"state", PointerOf(w)>>, <<"pointer", PointerOf(w)>>,
                     <<"indexAttestation", IndexOf(w)>>})
        /\ Goto(w, "pointing")
        /\ UNCHANGED <<req, seen, at, snap>>
    BY <1>3 DEF Upload, Release, Uploaded
  <2>2. pc'[w] = "pointing"
    BY <1>1, <2>1, Moving DEF WorkerPCs
  <2>3. PointerOf(w)' = PointerOf(w) /\ IndexOf(w)' = IndexOf(w)
    BY <2>1, SamePublication
  <2>4. Published(w)' /\ Pointed(w)'
    BY <2>1, <2>2, <2>3 DEF Published, Pointed, Uploaded, Kinds
  <2>5. CurrentForward
    BY <1>1 DEF CurrentForward
  <2>6. FeedReferencesExist' /\ IndexTrailsCurrent'
    BY <1>1, <2>5, FeedGood
  <2>7. w \notin Heartbeats
    BY ExecutionAssumption
  <2>8. QED
    BY <1>1, <2>4, <2>5, <2>6, <2>7, Bystanders
    DEF IInv, UploadedBeforePublishing, PointerBeforeIndex, AttestedBeforeReplacing
<1>4. QED BY <1>2, <1>3

\* _publish_current_pointer: the new pointer is uploaded and newer.
LEMMA PointerStep ==
    ASSUME IInv, FeedTypeOK', NEW w \in Workers, OnlyMoves(w), PublishPointer(w)
    PROVE  IInv'
<1> w \in Executions /\ LocalTypeOK
  BY DEF Executions, IInv, FeedTypeOK
<1>1. UNCHANGED <<assets, index>> /\ pc[w] = "pointing"
  BY DEF PublishPointer
<1>2. CASE Finish(w) /\ UNCHANGED current
  BY <1>1, <1>2, Releasing, QuietStep
<1>3. CASE ~(Finish(w) /\ UNCHANGED current)
  <2>1. /\ current[I(w)] = NoPointer \/ PointerOf(w).published > current[I(w)].published
             \/ current[I(w)] = PointerOf(w)
        /\ current' = [current EXCEPT ![I(w)] = PointerOf(w)]
        /\ Goto(w, "indexing")
        /\ UNCHANGED <<req, seen, at, snap>>
    BY <1>3 DEF PublishPointer, Release
  <2>2. pc'[w] = "indexing"
    BY <1>1, <2>1, Moving DEF WorkerPCs
  <2>3. PointerOf(w)' = PointerOf(w) /\ IndexOf(w)' = IndexOf(w) /\ I(w)' = I(w)
    BY <2>1, SamePublication
  <2>4. /\ I(w) \in Incidents
        /\ PointerOf(w) # NoPointer
        /\ PointerOf(w).published = at[w]
        /\ at[w] \in Nat
    BY <1>1, PublicationBuilt DEF IInv, FeedTypeOK, LocalTypeOK
  <2>5. /\ current'[I(w)] = PointerOf(w)
        /\ \A i \in Incidents : i # I(w) => current'[i] = current[i]
    BY <2>1, <2>4 DEF IInv, FeedTypeOK
  <2>6. current[I(w)] # NoPointer => current[I(w)].published \in Nat
    BY <2>4 DEF IInv, FeedTypeOK, Pointers
  <2>7. current[I(w)] # NoPointer => PointerOf(w).published >= current[I(w)].published
    BY <2>1, <2>4, <2>6
  <2>8. CurrentForward
    BY <2>4, <2>5, <2>7 DEF CurrentForward
  <2>9. Published(w)
    BY DEF IInv, UploadedBeforePublishing
  <2>10. Published(w)' /\ Pointed(w)'
    BY <1>1, <2>1, <2>2, <2>3, <2>4, <2>5, <2>9 DEF Published, Pointed
  <2>11. \A i \in Incidents : current'[i] # current[i] =>
            \A k \in Kinds : <<k, current'[i]>> \in assets'
    BY <1>1, <2>5, <2>9 DEF Published
  <2>12. FeedReferencesExist' /\ IndexTrailsCurrent'
    BY <1>1, <2>8, <2>11, FeedGood
  <2>13. w \notin Heartbeats
    BY ExecutionAssumption
  <2>14. QED
    BY <1>1, <2>8, <2>10, <2>12, <2>13, Bystanders
    DEF IInv, UploadedBeforePublishing, PointerBeforeIndex, AttestedBeforeReplacing
<1>4. QED BY <1>2, <1>3

\* _publish_active_index of a publication: the entries of the other incidents are
\* those of the index it replaces.
LEMMA IndexWrite ==
    ASSUME IInv, NEW w \in Workers, PublishIndex(w), index' # index
    PROVE  /\ index' = IndexOf(w) /\ index = snap[w] /\ index' # NoIndex
           /\ index # NoIndex => index'.published > index.published
           /\ \A i \in Incidents : i # I(w) => Entry(index', i) = Entry(index, i)
           /\ Entry(index', I(w)) \in {NoPointer, PointerOf(w)}
           /\ Conclude(w, "enqueueing")
<1>1. /\ index' = IndexOf(w) /\ index = snap[w] /\ pc[w] = "indexing"
      /\ Conclude(w, "enqueueing")
  BY DEF PublishIndex, Replaceable
<1>2. QED BY <1>1, PublicationBuilt DEF IInv

LEMMA IndexStep ==
    ASSUME IInv, FeedTypeOK', NEW w \in Workers, OnlyMoves(w), PublishIndex(w)
    PROVE  IInv'
<1> w \in Executions /\ LocalTypeOK
  BY DEF Executions, IInv, FeedTypeOK
<1>1. UNCHANGED <<assets, current>> /\ pc[w] = "indexing"
  BY DEF PublishIndex
<1>2. pc'[w] \in {"idle", "enqueueing"}
  <2>1. Finish(w) \/ Conclude(w, "enqueueing")
    BY DEF PublishIndex, Release
  <2>2. QED BY <1>1, <2>1, Releasing, Concluding DEF WorkerPCs
<1>3. CASE index' = index
  BY <1>1, <1>2, <1>3, QuietStep
<1>4. CASE index' # index
  <2>1. CurrentForward
    BY <1>1 DEF CurrentForward
  <2>2. Published(w) /\ Pointed(w) /\ I(w) \in Incidents /\ PointerOf(w).published = at[w]
    BY <1>1, PublicationBuilt DEF IInv, UploadedBeforePublishing, PointerBeforeIndex
  <2>3. <<"indexAttestation", index'>> \in assets'
    BY <1>1, <1>4, <2>2, IndexWrite DEF Published
  <2>4. ASSUME NEW i \in Incidents
        PROVE  \/ Entry(index', i) \in {Entry(index, i), NoPointer}
               \/ Entry(index', i) = PointerOf(w) /\ i = I(w)
    BY <1>4, IndexWrite
  <2>5. /\ \A k \in Kinds : <<k, PointerOf(w)>> \in assets'
        /\ current'[I(w)] # NoPointer
        /\ current'[I(w)].published >= PointerOf(w).published
    BY <1>1, <2>2 DEF Published, Pointed
  <2>6. FeedReferencesExist' /\ IndexTrailsCurrent'
    BY <1>1, <2>1, <2>3, <2>4, <2>5, FeedGood
  <2>7. UploadedBeforePublishing' /\ PointerBeforeIndex'
    BY <1>1, <1>2, <2>1, Bystanders
    DEF UploadedBeforePublishing, PointerBeforeIndex, Published, Pointed
  <2>8. AttestedBeforeReplacing'
    BY <1>1, <1>2, <2>1, Bystanders DEF AttestedBeforeReplacing, Attested
  <2>9. QED BY <2>6, <2>7, <2>8 DEF IInv
<1>5. QED BY <1>3, <1>4

\* The heartbeat's index write: the same entries, newer.
LEMMA HeartbeatWrite ==
    ASSUME IInv, NEW h \in Heartbeats, Replace(h), index' # index
    PROVE  /\ index' = Refreshed(h) /\ index = snap[h] /\ index' # NoIndex
           /\ index # NoIndex => index'.published > index.published
           /\ \A i \in Incidents : Entry(index', i) = Entry(index, i)
<1>1. index' = Refreshed(h) /\ index = snap[h]
  BY DEF Replace, Replaceable
<1>2. QED BY <1>1, RefreshBuilt DEF IInv

LEMMA AttestStep ==
    ASSUME IInv, FeedTypeOK', NEW h \in Heartbeats, OnlyMoves(h), Attest(h)
    PROVE  IInv'
<1> h \in Executions /\ h \notin Workers /\ LocalTypeOK
  BY ExecutionAssumption DEF Executions, IInv, FeedTypeOK
<1>1. /\ UNCHANGED <<req, seen, at, snap, current, index>>
      /\ \/ Uploaded({<<"indexAttestation", Refreshed(h)>>}) /\ Goto(h, "replacing")
         \/ /\ UNCHANGED assets \/ Uploaded({<<"indexAttestation", Refreshed(h)>>})
            /\ Goto(h, "recovering")
  BY DEF Attest, HeartbeatKeeps
<1>2. assets \subseteq assets' /\ CurrentForward
  BY <1>1 DEF Uploaded, CurrentForward
<1>3. Refreshed(h)' = Refreshed(h)
  BY <1>1, SameRefresh
<1>4. Attested(h)'
  <2>1. CASE Uploaded({<<"indexAttestation", Refreshed(h)>>}) /\ Goto(h, "replacing")
    BY <1>3, <2>1 DEF Attested, Uploaded
  <2>2. CASE Goto(h, "recovering")
    BY <1>1, <2>2, Moving DEF Attested, HeartbeatPCs
  <2>3. QED BY <1>1, <2>1, <2>2
<1>5. FeedReferencesExist' /\ IndexTrailsCurrent'
  BY <1>1, <1>2, FeedGood
<1>6. QED
  BY <1>2, <1>4, <1>5, Bystanders
  DEF IInv, UploadedBeforePublishing, PointerBeforeIndex, AttestedBeforeReplacing

LEMMA ReplaceStep ==
    ASSUME IInv, FeedTypeOK', NEW h \in Heartbeats, OnlyMoves(h), Replace(h)
    PROVE  IInv'
<1> h \in Executions /\ h \notin Workers /\ LocalTypeOK
  BY ExecutionAssumption DEF Executions, IInv, FeedTypeOK
<1>1. UNCHANGED <<assets, current, req>> /\ pc[h] = "replacing"
  BY DEF Replace, HeartbeatKeeps
<1>2. pc'[h] \in {"done", "recovering"}
  <2>1. Stop(h) \/ (Goto(h, "recovering") /\ UNCHANGED <<seen, at, snap>>)
    BY DEF Replace
  <2>2. QED BY <1>1, <2>1, Stopping, Moving DEF HeartbeatPCs
<1>3. CASE index' = index
  BY <1>1, <1>2, <1>3, QuietStep
<1>4. CASE index' # index
  <2>1. CurrentForward
    BY <1>1 DEF CurrentForward
  <2>2. Attested(h)
    BY DEF IInv, AttestedBeforeReplacing
  <2>3. <<"indexAttestation", index'>> \in assets'
    BY <1>1, <1>4, <2>2, HeartbeatWrite DEF Attested
  <2>4. \A i \in Incidents : Entry(index', i) = Entry(index, i)
    BY <1>4, HeartbeatWrite
  <2>5. FeedReferencesExist' /\ IndexTrailsCurrent'
    BY <1>1, <2>1, <2>3, <2>4, FeedGood
  <2>6. UploadedBeforePublishing' /\ PointerBeforeIndex'
    BY <1>1, <2>1, Bystanders DEF UploadedBeforePublishing, PointerBeforeIndex
  <2>7. AttestedBeforeReplacing'
    BY <1>1, <1>2, <2>1, Bystanders DEF AttestedBeforeReplacing, Attested
  <2>8. QED BY <2>5, <2>6, <2>7 DEF IInv
<1>5. QED BY <1>3, <1>4

LEMMA InvInit == Init => IInv
<1> SUFFICES ASSUME Init PROVE IInv
  OBVIOUS
<1>1. FeedTypeOK
  BY DEF Init, FeedTypeOK, LocalTypeOK, Executions, WorkerPCs, HeartbeatPCs
<1>2. \A e \in Executions : pc[e] \in {"idle", "ready"}
  BY DEF Init
<1>3. UploadedBeforePublishing /\ AttestedBeforeReplacing /\ PointerBeforeIndex
  BY <1>2 DEF UploadedBeforePublishing, AttestedBeforeReplacing, PointerBeforeIndex,
              Published, Attested, Pointed, Executions
<1>4. FeedReferencesExist /\ IndexTrailsCurrent
  BY DEF Init, FeedReferencesExist, IndexTrailsCurrent, Active, Entry
<1>5. QED BY <1>1, <1>3, <1>4 DEF IInv

LEMMA InvStep == IInv /\ [Next]_vars => IInv'
<1> SUFFICES ASSUME IInv, [Next]_vars PROVE IInv'
  OBVIOUS
<1>a. FeedTypeOK /\ LocalTypeOK
  BY DEF IInv, FeedTypeOK
<1>1. ASSUME NEW w \in Workers, WorkerStep(w) PROVE IInv'
  <2> w \in Executions
    BY DEF Executions
  <2>a. FeedTypeOK' /\ OnlyMoves(w)
    BY <1>a, <1>1, WorkerTypeStep
  <2>1. CASE Receive(w)
    <3>1. pc'[w] = "received" /\ UNCHANGED blobVars
      BY <1>a, <2>1 DEF Receive, Goto, LocalTypeOK
    <3>2. QED BY <2>a, <3>1, QuietStep DEF blobVars
  <2>2. CASE LoseLock(w)
    BY <2>2, IdleStep DEF LoseLock, blobVars
  <2>3. CASE Reject(w) \/ Fail(w) \/ Complete(w)
    <3>1. Finish(w) /\ UNCHANGED blobVars
      BY <2>3 DEF Reject, Fail, Complete, Settle, Release
    <3>2. QED BY <1>a, <2>a, <3>1, Releasing, QuietStep DEF blobVars
  <2>4. CASE Reassess(w)
    <3>1. pc'[w] = "observed" /\ UNCHANGED blobVars
      BY <1>a, <2>4 DEF Reassess, Goto, LocalTypeOK
    <3>2. QED BY <2>a, <3>1, QuietStep DEF blobVars
  <2>5. CASE ReadIndex(w)
    <3>1. pc'[w] \in {"reconciling", "uploading"} /\ UNCHANGED blobVars
      BY <1>a, <2>5 DEF ReadIndex, Goto, LocalTypeOK
    <3>2. QED BY <2>a, <3>1, QuietStep DEF blobVars
  <2>6. CASE ReadCurrent(w)
    <3>1. pc[w] # "idle" /\ UNCHANGED blobVars
      BY <2>6 DEF ReadCurrent
    <3>2. Conclude(w, "completing") \/ Conclude(w, "enqueueing") \/ Finish(w)
      BY <2>6 DEF ReadCurrent, Release
    <3>3. pc'[w] \in {"completing", "enqueueing", "idle"}
      BY <1>a, <3>1, <3>2, Concluding, Releasing DEF WorkerPCs
    <3>4. QED BY <2>a, <3>1, <3>3, QuietStep DEF blobVars
  <2>7. CASE Upload(w)
    BY <2>a, <2>7, UploadStep
  <2>8. CASE PublishPointer(w)
    BY <2>a, <2>8, PointerStep
  <2>9. CASE PublishIndex(w)
    BY <2>a, <2>9, IndexStep
  <2>10. CASE Enqueue(w)
    <3>1. pc'[w] = "completing" /\ UNCHANGED blobVars
      BY <1>a, <2>10 DEF Enqueue, Goto, LocalTypeOK
    <3>2. QED BY <2>a, <3>1, QuietStep DEF blobVars
  <2>11. QED
    BY <1>1, <2>1, <2>2, <2>3, <2>4, <2>5, <2>6, <2>7, <2>8, <2>9, <2>10 DEF WorkerStep
<1>2. ASSUME NEW h \in Heartbeats, HeartbeatStep(h) PROVE IInv'
  <2> h \in Executions
    BY DEF Executions
  <2>a. FeedTypeOK' /\ OnlyMoves(h)
    BY <1>a, <1>2, HeartbeatTypeStep
  <2>1. CASE Observe(h)
    <3>1. pc'[h] = "snapshot" /\ UNCHANGED blobVars
      BY <1>a, <2>1 DEF Observe, Goto, LocalTypeOK
    <3>2. QED BY <2>a, <3>1, QuietStep DEF blobVars
  <2>2. CASE Snapshot(h)
    <3>1. pc'[h] \in {"attesting", "done"} /\ UNCHANGED blobVars
      BY <1>a, <2>2 DEF Snapshot, Stop, Goto, LocalTypeOK
    <3>2. QED BY <2>a, <3>1, QuietStep DEF blobVars
  <2>3. CASE Attest(h)
    BY <2>a, <2>3, AttestStep
  <2>4. CASE Replace(h)
    BY <2>a, <2>4, ReplaceStep
  <2>5. CASE Recover(h)
    <3>1. pc'[h] \in {"snapshot", "done"} /\ UNCHANGED blobVars
      BY <1>a, <2>5 DEF Recover, Stop, Goto, LocalTypeOK
    <3>2. QED BY <2>a, <3>1, QuietStep DEF blobVars
  <2>6. CASE FailHeartbeat(h)
    <3>1. pc'[h] = "done" /\ UNCHANGED blobVars
      BY <1>a, <2>6 DEF FailHeartbeat, Stop, Goto, LocalTypeOK
    <3>2. QED BY <2>a, <3>1, QuietStep DEF blobVars
  <2>7. QED
    BY <1>2, <2>1, <2>2, <2>3, <2>4, <2>5, <2>6 DEF HeartbeatStep
<1>3. ASSUME NEW r \in Requests, ExpireMessage(r) PROVE IInv'
  BY <1>3, IdleStep DEF ExpireMessage, blobVars, execVars
<1>4. CASE UNCHANGED vars
  BY <1>4, IdleStep DEF vars, blobVars, execVars
<1>5. QED BY <1>1, <1>2, <1>3, <1>4 DEF Next

\* The inductive invariant holds in every reachable state.
THEOREM FeedInvariance == Spec => []IInv
<1>1. IInv /\ [Next]_vars => IInv'
  BY InvStep
<1>2. QED BY <1>1, InvInit, PTL DEF Spec

\* A reader of the feed never follows a dangling reference: whichever publishers
\* overlap, crash or lose their sessions, current.json and active.json refer to
\* uploaded assets only.
THEOREM NoDanglingReference == Spec => []FeedReferencesExist
<1>1. IInv => FeedReferencesExist
  BY DEF IInv
<1>2. QED BY <1>1, FeedInvariance, PTL

\* The index never runs ahead of the incident's current.json.
THEOREM IndexNotAhead == Spec => []IndexTrailsCurrent
<1>1. IInv => IndexTrailsCurrent
  BY DEF IInv
<1>2. QED BY <1>1, FeedInvariance, PTL

-----------------------------------------------------------------------------
(* Action properties *)

\* Only PublishPointer writes current.json; only PublishIndex and Replace write
\* the index.
LEMMA FeedWrites ==
    ASSUME [Next]_vars
    PROVE  /\ current' # current => \E w \in Workers : PublishPointer(w)
           /\ index' # index => \/ \E w \in Workers : PublishIndex(w)
                                \/ \E h \in Heartbeats : Replace(h)
<1>1. ASSUME NEW w \in Workers, WorkerStep(w)
      PROVE  /\ PublishPointer(w) \/ UNCHANGED current
             /\ PublishIndex(w) \/ UNCHANGED index
  BY <1>1 DEF WorkerStep, Receive, LoseLock, Reject, Fail, Reassess, ReadIndex, ReadCurrent,
              Upload, PublishPointer, PublishIndex, Enqueue, Complete, blobVars
<1>2. ASSUME NEW h \in Heartbeats, HeartbeatStep(h)
      PROVE  UNCHANGED current /\ (Replace(h) \/ UNCHANGED index)
  BY <1>2 DEF HeartbeatStep, Observe, Snapshot, Attest, Replace, Recover, FailHeartbeat,
              blobVars
<1>3. ASSUME NEW r \in Requests, ExpireMessage(r) PROVE UNCHANGED <<current, index>>
  BY <1>3 DEF ExpireMessage, blobVars
<1>4. CASE UNCHANGED vars
  BY <1>4 DEF vars, blobVars
<1>5. QED BY <1>1, <1>2, <1>3, <1>4 DEF Next

\* Neither active.json nor a current.json is ever replaced by an older or equally
\* old one.
THEOREM FeedNeverGoesBack == Spec => FeedMovesForward
<1>1. IInv /\ [Next]_vars => [ReplacesByNewer]_vars
  <2> SUFFICES ASSUME IInv, [Next]_vars PROVE ReplacesByNewer
    OBVIOUS
  <2>1. index' # index =>
          index' # NoIndex /\ (index # NoIndex => index'.published > index.published)
    BY FeedWrites, IndexWrite, HeartbeatWrite
  <2>2. ASSUME NEW i \in Incidents, current'[i] # current[i]
        PROVE  /\ current'[i] # NoPointer
               /\ current[i] # NoPointer => current'[i].published > current[i].published
    <3>1. PICK w \in Workers : PublishPointer(w)
      BY <2>2, FeedWrites
    <3>2. /\ current[I(w)] = NoPointer \/ PointerOf(w).published > current[I(w)].published
               \/ current[I(w)] = PointerOf(w)
          /\ current' = [current EXCEPT ![I(w)] = PointerOf(w)]
          /\ pc[w] # "idle"
      BY <2>2, <3>1 DEF PublishPointer
    <3>3. PointerOf(w) # NoPointer
      BY <3>2, PublicationBuilt DEF IInv
    <3>4. i = I(w) /\ current'[i] = PointerOf(w)
      BY <2>2, <3>2 DEF IInv, FeedTypeOK
    <3>5. QED BY <2>2, <3>2, <3>3, <3>4
  <2>3. QED BY <2>1, <2>2 DEF ReplacesByNewer
<1>2. QED BY <1>1, FeedInvariance, PTL DEF Spec, FeedMovesForward

\* No publisher loses another's update: an entry of the index changes only by an
\* execution that reassesses its incident.
THEOREM NoLostUpdate == Spec => OwnEntryOnly
<1>1. IInv /\ [Next]_vars => [ChangesOwnEntry]_vars
  <2> SUFFICES ASSUME IInv, [Next]_vars, NEW i \in Incidents,
                      Entry(index', i) # Entry(index, i)
               PROVE  \E w \in Workers :
                         pc[w] = "indexing" /\ pc'[w] = "enqueueing" /\ I(w) = i
    BY DEF ChangesOwnEntry
  <2>1. index' # index
    OBVIOUS
  <2>2. PICK w \in Workers : PublishIndex(w)
    BY <2>1, FeedWrites, HeartbeatWrite
  <2>3. Conclude(w, "enqueueing") /\ I(w) = i
    BY <2>1, <2>2, IndexWrite
  <2>4. pc[w] = "indexing"
    BY <2>2 DEF PublishIndex
  <2>5. pc'[w] = "enqueueing"
    BY <2>3, <2>4, Concluding DEF IInv, FeedTypeOK, WorkerPCs
  <2>6. QED BY <2>3, <2>4, <2>5
<1>2. QED BY <1>1, FeedInvariance, PTL DEF Spec, OwnEntryOnly

-----------------------------------------------------------------------------
(* What an execution saw *)

\* A worker past its reassessment has the health of its hint's resource.
SeenOK(w) == pc[w] \notin {"idle", "received"} => seen[w] \in [{I(w)} -> BOOLEAN]

\* The index shows what the last concluded reassessment found.
VerdictInv ==
    /\ \A w \in Workers : SeenOK(w)
    /\ verdict \in [Incidents -> BOOLEAN]
    /\ IndexFollowsReassessment

\* A heartbeat that publishes has found the observed incidents in its snapshot.
Checked(h) == pc[h] \in {"attesting", "replacing"} => Matches(h, snap[h])

HeartbeatsChecked == \A h \in Heartbeats : Checked(h)

LEMMA WorkerSeen ==
    ASSUME IInv, NEW w \in Workers, SeenOK(w), WorkerStep(w)
    PROVE  SeenOK(w)'
<1> w \in Executions
  BY DEF Executions
<1>0. LocalTypeOK
  BY DEF IInv, FeedTypeOK
<1>1. CASE Finish(w)
  BY <1>0, <1>1, Releasing DEF SeenOK
<1>2. CASE Receive(w)
  BY <1>0, <1>2 DEF Receive, Goto, SeenOK, LocalTypeOK
<1>3. CASE LoseLock(w)
  BY <1>3 DEF LoseLock, SeenOK, I
<1>4. CASE Reassess(w)
  <2>1. PICK ok \in BOOLEAN : seen' = [seen EXCEPT ![w] = [i \in {I(w)} |-> ok]]
    BY <1>4 DEF Reassess
  <2>2. seen'[w] = [i \in {I(w)} |-> ok] /\ req' = req
    BY <1>0, <1>4, <2>1 DEF Reassess, LocalTypeOK
  <2>3. QED BY <2>2 DEF SeenOK, I
<1>5. ASSUME UNCHANGED <<req, seen>>, pc[w] \notin {"idle", "received"} PROVE SeenOK(w)'
  BY <1>5 DEF SeenOK, I
<1>6. CASE ReadIndex(w) \/ Enqueue(w) \/ ReadCurrent(w) \/ Upload(w) \/ PublishPointer(w)
           \/ PublishIndex(w)
  BY <1>1, <1>5, <1>6 DEF ReadIndex, Enqueue, ReadCurrent, Upload, PublishPointer, PublishIndex,
                          Conclude, Release
<1>7. CASE Reject(w) \/ Fail(w) \/ Complete(w)
  BY <1>1, <1>7 DEF Reject, Fail, Complete, Settle, Release
<1>8. QED
  BY <1>2, <1>3, <1>4, <1>6, <1>7 DEF WorkerStep

\* Others see what they saw.
LEMMA OthersSeen ==
    ASSUME NEW e \in Executions, OnlyMoves(e), NEW w \in Workers, w # e, SeenOK(w)
    PROVE  SeenOK(w)'
BY DEF OnlyMoves, SeenOK, I, Executions

LEMMA SeenStep ==
    ASSUME IInv, [Next]_vars, \A w \in Workers : SeenOK(w)
    PROVE  \A w \in Workers : SeenOK(w)'
<1>0. FeedTypeOK
  BY DEF IInv
<1>1. ASSUME NEW v \in Workers, WorkerStep(v), NEW w \in Workers PROVE SeenOK(w)'
  BY <1>0, <1>1, WorkerTypeStep, WorkerSeen, OthersSeen DEF Executions
<1>2. ASSUME NEW h \in Heartbeats, HeartbeatStep(h), NEW w \in Workers PROVE SeenOK(w)'
  BY <1>0, <1>2, HeartbeatTypeStep, OthersSeen, ExecutionAssumption DEF Executions
<1>3. ASSUME UNCHANGED <<pc, req, seen>>, NEW w \in Workers PROVE SeenOK(w)'
  BY <1>3 DEF SeenOK, I
<1>4. QED
  BY <1>1, <1>2, <1>3 DEF Next, ExpireMessage, vars, execVars

LEMMA HealthyType ==
    ASSUME NEW w \in Workers, SeenOK(w), pc[w] \notin {"idle", "received"}
    PROVE  Healthy(w) \in BOOLEAN
BY DEF SeenOK, Healthy

LEMMA ActiveEntries ==
    ASSUME NEW i \in Incidents
    PROVE  i \in Active(index) <=> Entry(index, i) # NoPointer
BY DEF Active

\* Only these steps conclude a reassessment.
LEMMA VerdictWrites ==
    ASSUME [Next]_vars
    PROVE  \/ verdict' = verdict
           \/ \E w \in Workers : ReadIndex(w) \/ PublishIndex(w)
<1>1. ASSUME NEW w \in Workers, WorkerStep(w)
      PROVE  verdict' = verdict \/ ReadIndex(w) \/ PublishIndex(w)
  BY <1>1 DEF WorkerStep, Receive, LoseLock, Reject, Fail, Reassess, ReadIndex, ReadCurrent,
              Upload, PublishPointer, PublishIndex, Enqueue, Complete, historyVars
<1>2. ASSUME NEW h \in Heartbeats, HeartbeatStep(h) PROVE verdict' = verdict
  BY <1>2 DEF HeartbeatStep, Observe, Snapshot, Attest, Replace, Recover, FailHeartbeat,
              HeartbeatKeeps, historyVars
<1>3. ASSUME NEW r \in Requests, ExpireMessage(r) PROVE verdict' = verdict
  BY <1>3 DEF ExpireMessage, historyVars
<1>4. QED BY <1>1, <1>2, <1>3 DEF Next, vars, historyVars

\* _publish_active_index of a publication, whether or not it was there before.
LEMMA PublishedEntries ==
    ASSUME IInv, NEW w \in Workers, PublishIndex(w), ~Finish(w), SeenOK(w)
    PROVE  /\ index' = IndexOf(w) /\ I(w) \in Incidents /\ Healthy(w) \in BOOLEAN
           /\ committed' = committed \cup {PointerOf(w)}
           /\ verdict' = [verdict EXCEPT ![I(w)] = Healthy(w)]
           /\ \A i \in Incidents : i # I(w) => Entry(index', i) = Entry(index, i)
           /\ Healthy(w) <=> Entry(index', I(w)) = NoPointer
           /\ ~Healthy(w) => Entry(index', I(w)) = PointerOf(w)
           /\ PointerOf(w) \in Pointers /\ PointerOf(w) # NoPointer
           /\ Conclude(w, "enqueueing") /\ pc[w] = "indexing"
<1>1. /\ index' = IndexOf(w) /\ index \in {snap[w], IndexOf(w)} /\ pc[w] = "indexing"
      /\ committed' = committed \cup {PointerOf(w)}
      /\ verdict' = [verdict EXCEPT ![I(w)] = Healthy(w)]
      /\ Conclude(w, "enqueueing")
  BY DEF PublishIndex, Replaceable, Release
<1>2. FeedTypeOK /\ pc[w] \notin {"idle", "received"}
  BY <1>1 DEF IInv
<1>3. Healthy(w) \in BOOLEAN
  BY <1>2, HealthyType
<1>4. QED BY <1>1, <1>2, <1>3, PublicationBuilt

LEMMA VerdictStep ==
    ASSUME IInv, VerdictInv, [Next]_vars
    PROVE  VerdictInv'
<1>1. \A w \in Workers : SeenOK(w)'
  BY SeenStep DEF VerdictInv
<1>2. \A i \in Incidents : Entry(index, i) # NoPointer <=> ~verdict[i]
  BY ActiveEntries DEF VerdictInv, IndexFollowsReassessment
<1>3. SUFFICES /\ verdict' \in [Incidents -> BOOLEAN]
               /\ \A i \in Incidents : Entry(index', i) # NoPointer <=> ~verdict'[i]
  BY <1>1, <1>3 DEF VerdictInv, IndexFollowsReassessment, Active, Entry
<1>4. ASSUME NEW w \in Workers, PublishIndex(w), ~Finish(w)
      PROVE  /\ verdict' \in [Incidents -> BOOLEAN]
             /\ \A i \in Incidents : Entry(index', i) # NoPointer <=> ~verdict'[i]
  <2>1. /\ I(w) \in Incidents /\ Healthy(w) \in BOOLEAN
        /\ verdict' = [verdict EXCEPT ![I(w)] = Healthy(w)]
        /\ \A i \in Incidents : i # I(w) => Entry(index', i) = Entry(index, i)
        /\ Healthy(w) <=> Entry(index', I(w)) = NoPointer
    BY <1>4, PublishedEntries DEF VerdictInv
  <2>2. /\ verdict' \in [Incidents -> BOOLEAN] /\ verdict'[I(w)] = Healthy(w)
        /\ \A i \in Incidents : i # I(w) => verdict'[i] = verdict[i]
    BY <2>1 DEF VerdictInv
  <2>3. QED BY <1>2, <2>1, <2>2
<1>5. ASSUME NEW w \in Workers, ReadIndex(w)
      PROVE  /\ verdict' \in [Incidents -> BOOLEAN]
             /\ \A i \in Incidents : Entry(index', i) # NoPointer <=> ~verdict'[i]
  <2>1. index' = index /\ pc[w] = "observed"
    BY <1>5 DEF ReadIndex, blobVars
  <2>2. CASE Agrees(w, index)
    <3>1. Healthy(w) \in BOOLEAN /\ I(w) \in Incidents
      BY <2>1, HealthyType, PublicationBuilt DEF VerdictInv, IInv
    <3>2. verdict' = [verdict EXCEPT ![I(w)] = Healthy(w)]
      BY <1>5, <2>2 DEF ReadIndex
    <3>3. /\ verdict' \in [Incidents -> BOOLEAN] /\ verdict'[I(w)] = Healthy(w)
          /\ \A i \in Incidents : i # I(w) => verdict'[i] = verdict[i]
      BY <3>1, <3>2 DEF VerdictInv
    <3>4. Healthy(w) <=> Entry(index, I(w)) = NoPointer
      BY <2>2 DEF Agrees
    <3>5. QED BY <1>2, <2>1, <3>1, <3>3, <3>4
  <2>3. CASE ~Agrees(w, index)
    BY <1>2, <1>5, <2>1, <2>3 DEF ReadIndex, VerdictInv
  <2>4. QED BY <2>2, <2>3
<1>6. ASSUME NEW w \in Workers, PublishIndex(w), Finish(w)
      PROVE  (verdict' = verdict /\ index' = index) \/ ~Finish(w)
  <2>1. pc'[w] = "idle" /\ w \in Executions /\ DOMAIN pc = Executions
    BY <1>6, Releasing DEF IInv, FeedTypeOK, LocalTypeOK, Executions
  <2>2. ~Conclude(w, "enqueueing")
    BY <2>1 DEF Conclude, Goto
  <2>3. QED BY <1>6, <2>2 DEF PublishIndex, historyVars
<1>7. CASE verdict' = verdict /\ ~\E w \in Workers : PublishIndex(w)
  <2>1. \A i \in Incidents : Entry(index', i) = Entry(index, i)
    BY <1>7, FeedWrites, HeartbeatWrite
  <2>2. QED BY <1>2, <1>7, <2>1 DEF VerdictInv
<1>8. QED
  BY <1>2, <1>4, <1>5, <1>6, <1>7, VerdictWrites DEF VerdictInv

LEMMA VerdictInvariance == Spec => []VerdictInv
<1>1. Init => VerdictInv
  BY DEF Init, VerdictInv, SeenOK, IndexFollowsReassessment, Active, Entry, Executions
<1>2. IInv /\ VerdictInv /\ [Next]_vars => VerdictInv'
  BY VerdictStep
<1>3. QED BY <1>1, <1>2, FeedInvariance, PTL DEF Spec

\* Whatever sessions are lost: active.json shows an incident exactly when its last
\* concluded reassessment found the resource unhealthy.
THEOREM IndexAlwaysFollows == Spec => []IndexFollowsReassessment
<1>1. VerdictInv => IndexFollowsReassessment
  BY DEF VerdictInv
<1>2. QED BY <1>1, VerdictInvariance, PTL

-----------------------------------------------------------------------------
(* What a heartbeat asserts *)

LEMMA HeartbeatChecks ==
    ASSUME IInv, NEW h \in Heartbeats, Checked(h), HeartbeatStep(h)
    PROVE  Checked(h)'
<1> h \in Executions
  BY DEF Executions
<1>0. LocalTypeOK
  BY DEF IInv, FeedTypeOK
<1>1. CASE Stop(h)
  BY <1>0, <1>1 DEF Stop, Goto, Checked, LocalTypeOK
<1>2. CASE Observe(h)
  BY <1>0, <1>2 DEF Observe, Goto, Checked, LocalTypeOK
<1>3. CASE Snapshot(h) /\ Matches(h, index)
  BY <1>0, <1>3 DEF Snapshot, Checked, Matches, Active, Entry, LocalTypeOK
<1>4. CASE Attest(h)
  BY <1>0, <1>4 DEF Attest, Checked, Matches, Active, Entry
<1>5. CASE Replace(h)
  BY <1>0, <1>1, <1>5 DEF Replace, Goto, Checked, LocalTypeOK
<1>6. CASE Recover(h)
  BY <1>0, <1>1, <1>6 DEF Recover, Goto, Checked, LocalTypeOK
<1>7. QED
  BY <1>1, <1>2, <1>3, <1>4, <1>5, <1>6 DEF HeartbeatStep, Snapshot, FailHeartbeat

LEMMA ChecksStep ==
    ASSUME IInv, HeartbeatsChecked, [Next]_vars
    PROVE  HeartbeatsChecked'
<1>0. FeedTypeOK
  BY DEF IInv
<1>1. ASSUME NEW e \in Executions, OnlyMoves(e), NEW h \in Heartbeats, h # e
      PROVE  Checked(h)'
  BY <1>1 DEF OnlyMoves, HeartbeatsChecked, Checked, Matches, Active, Entry, Executions
<1>2. ASSUME NEW w \in Workers, WorkerStep(w), NEW h \in Heartbeats PROVE Checked(h)'
  BY <1>0, <1>1, <1>2, WorkerTypeStep, ExecutionAssumption DEF Executions
<1>3. ASSUME NEW g \in Heartbeats, HeartbeatStep(g), NEW h \in Heartbeats PROVE Checked(h)'
  BY <1>0, <1>1, <1>3, HeartbeatTypeStep, HeartbeatChecks DEF Executions, HeartbeatsChecked
<1>4. ASSUME UNCHANGED <<pc, seen, snap>>, NEW h \in Heartbeats PROVE Checked(h)'
  BY <1>4 DEF HeartbeatsChecked, Checked, Matches, Active, Entry
<1>5. QED
  BY <1>2, <1>3, <1>4 DEF Next, ExpireMessage, vars, execVars, HeartbeatsChecked

\* A heartbeat never asserts freshness of an index that disagrees with what it
\* observed, whichever publishers race it: an update of theirs makes it lose.
THEOREM HeartbeatsAssertObserved == Spec => HeartbeatAssertsObserved
<1> DEFINE Asserts(h) ==
        pc[h] = "replacing" /\ pc'[h] = "done" /\ index' # index =>
            /\ Matches(h, index')
            /\ \A i \in Incidents : Entry(index', i) = Entry(index, i)
<1>1. Init => HeartbeatsChecked
  BY ExecutionAssumption DEF Init, HeartbeatsChecked, Checked, Executions
<1>2. IInv /\ HeartbeatsChecked /\ [Next]_vars => HeartbeatsChecked'
  BY ChecksStep
<1>3. IInv /\ HeartbeatsChecked /\ [Next]_vars => [\A h \in Heartbeats : Asserts(h)]_vars
  <2> SUFFICES ASSUME IInv, HeartbeatsChecked, [Next]_vars, NEW h \in Heartbeats,
                      pc[h] = "replacing", pc'[h] = "done", index' # index
               PROVE  /\ Matches(h, index')
                      /\ \A i \in Incidents : Entry(index', i) = Entry(index, i)
    OBVIOUS
  <2>0. FeedTypeOK /\ h \in Executions /\ h \notin Workers
    BY ExecutionAssumption DEF IInv, Executions
  <2>1. ASSUME NEW w \in Workers, WorkerStep(w) PROVE FALSE
    <3>1. OnlyMoves(w)
      BY <2>0, <2>1, WorkerTypeStep
    <3>2. QED BY <2>0, <3>1 DEF OnlyMoves
  <2>2. ASSUME NEW g \in Heartbeats, HeartbeatStep(g), g # h PROVE FALSE
    <3>1. OnlyMoves(g)
      BY <2>0, <2>2, HeartbeatTypeStep
    <3>2. QED BY <2>0, <2>2, <3>1 DEF OnlyMoves
  <2>3. HeartbeatStep(h)
    BY <2>1, <2>2 DEF Next, ExpireMessage, vars, blobVars
  <2>4. Replace(h)
    BY <2>3 DEF HeartbeatStep, Observe, Snapshot, Attest, Recover, FailHeartbeat, blobVars
  <2>5. index = snap[h] /\ \A i \in Incidents : Entry(index', i) = Entry(index, i)
    BY <2>4, HeartbeatWrite
  <2>6. Matches(h, index)
    BY <2>5 DEF HeartbeatsChecked, Checked
  <2>7. Active(index') = Active(index)
    BY <2>5 DEF Active
  <2>8. QED BY <2>5, <2>6, <2>7 DEF Matches
<1>4. QED
  BY <1>1, <1>2, <1>3, FeedInvariance, PTL DEF Spec, HeartbeatAssertsObserved

-----------------------------------------------------------------------------
(* Sessions, as long as none was lost while its holder ran on *)

\* An execution at work has its session to itself, and its hint is unsettled.
SessionsOK ==
    /\ lockLosses = 0
    /\ status \in [Requests -> {"queued"} \cup Settled]
    /\ locked \in [Workers -> BOOLEAN]
    /\ \A w \in Workers : (locked[w] <=> pc[w] # "idle")
                          /\ (pc[w] # "idle" => status[req[w]] = "queued")
    /\ \A v, w \in Workers : pc[v] # "idle" /\ pc[w] # "idle" /\ I(v) = I(w) => v = w

\* The incident's state as w found it is still there.
Undisturbed(w) ==
    /\ pc[w] \in {"reconciling", "uploading", "pointing", "indexing"} =>
         Entry(index, I(w)) = Entry(snap[w], I(w))
    /\ pc[w] = "reconciling" => Agrees(w, snap[w])
    /\ pc[w] \in {"uploading", "pointing", "indexing"} => ~Agrees(w, snap[w])
    /\ pc[w] = "indexing" => current[I(w)] = PointerOf(w)
    /\ pc[w] = "enqueueing" =>
         /\ current[I(w)] \in committed /\ current[I(w)].request = req[w]
         /\ current[I(w)].lifecycle = Lifecycle(w)
    /\ pc[w] = "completing" =>
         (current[I(w)] \in committed /\ current[I(w)].request = req[w] =>
            <<req[w], current[I(w)].lifecycle>> \in notified)

\* current.json of i and the index agree once the publication is complete; until
\* then a resolution that is current still shows as active.
FeedInStep(i) ==
    LET p == current[i] IN
    /\ p # NoPointer => incidentOf[p.request] = i
    /\ p \in committed => (p.lifecycle = "active" <=> Entry(index, i) # NoPointer)
    /\ p # NoPointer /\ p \notin committed /\ p.lifecycle = "resolved" =>
         Entry(index, i) # NoPointer
    /\ Entry(index, i) # NoPointer => Entry(index, i) \in committed

\* What was committed was current, and current.json only became newer.
CommittedWasCurrent ==
    /\ committed \subseteq Pointers
    /\ \A p \in committed : /\ current[incidentOf[p.request]] # NoPointer
                            /\ current[incidentOf[p.request]].published >= p.published

\* What NotificationFollowsPublication says.
Followed == \A n \in notified : \E p \in committed : p.request = n[1] /\ p.lifecycle = n[2]

\* What CompletedMeansNotified says of one incident.
CompletedAt(i) ==
    current[i] \in committed /\ status[current[i].request] = "completed" =>
        <<current[i].request, current[i].lifecycle>> \in notified

SessionInv ==
    /\ SessionsOK
    /\ CommittedWasCurrent
    /\ \A w \in Workers : Undisturbed(w)
    /\ \A i \in Incidents : FeedInStep(i)
    /\ Followed
    /\ \A i \in Incidents : CompletedAt(i)

\* A step after which the states that are current, shown and committed are the
\* same.
QuietFeed ==
    /\ UNCHANGED <<current, committed>>
    /\ \A i \in Incidents : Entry(index', i) = Entry(index, i)
    /\ notified \subseteq notified'

\* The execution ends, and the broker settles its hint or offers it again.
Ends(w) ==
    /\ pc[w] # "idle" /\ Finish(w)
    /\ UNCHANGED <<lockLosses, notified>>
    /\ \E s \in {"queued"} \cup Settled :
         /\ status' = [status EXCEPT ![req[w]] = s]
         /\ s = "completed" => pc[w] = "completing"

\* The execution goes on with its hint.
Continues(w) ==
    /\ pc[w] # "idle" /\ pc'[w] # "idle"
    /\ UNCHANGED <<req, locked, status, lockLosses>>

\* Its write of current.json took place.
Points(w) ==
    /\ pc[w] = "pointing" /\ pc'[w] = "indexing"
    /\ current[I(w)] # NoPointer /\ current[I(w)] # PointerOf(w) =>
         PointerOf(w).published > current[I(w)].published
    /\ current' = [current EXCEPT ![I(w)] = PointerOf(w)]
    /\ UNCHANGED <<seen, at, snap, index, committed, notified>>

\* Its write of the index took place.
Commits(w) == PublishIndex(w) /\ pc'[w] = "enqueueing"

LEMMA SettledHint ==
    ASSUME SessionsOK, LocalTypeOK, NEW w \in Workers, pc[w] # "idle", UNCHANGED status
    PROVE  status' = [status EXCEPT ![req[w]] = "queued"]
BY DEF SessionsOK, LocalTypeOK

LEMMA Released ==
    ASSUME SessionsOK, LocalTypeOK, NEW w \in Workers, pc[w] # "idle", Release(w),
           UNCHANGED notified
    PROVE  Ends(w)
<1>1. Finish(w) /\ UNCHANGED lockLosses
  BY DEF Release
<1>2. CASE UNCHANGED status
  BY <1>1, <1>2, SettledHint DEF Ends
<1>3. CASE ~UNCHANGED status
  <2>1. status' = [status EXCEPT ![req[w]] = "exhausted"]
    BY <1>3 DEF Release, TakeBack
  <2>2. QED BY <1>1, <2>1 DEF Ends, Settled
<1>4. QED BY <1>2, <1>3

\* The steps of a worker that does not lose its session.
LEMMA WorkerKinds ==
    ASSUME lockLosses' = 0, SessionsOK, IInv, NEW w \in Workers, WorkerStep(w)
    PROVE  \/ Receive(w)
           \/ Ends(w) /\ QuietFeed
           \/ Continues(w) /\ QuietFeed
                /\ (Reassess(w) \/ ReadIndex(w) \/ ReadCurrent(w) \/ Upload(w) \/ Enqueue(w))
           \/ Continues(w) /\ (Points(w) \/ Commits(w))
<1> w \in Executions /\ LocalTypeOK
  BY DEF Executions, IInv, FeedTypeOK
<1>a. UNCHANGED <<current, index, committed>> /\ notified \subseteq notified' => QuietFeed
  BY DEF QuietFeed
<1>1. CASE LoseLock(w)
  BY <1>1 DEF LoseLock, SessionsOK
<1>2. CASE Reject(w) \/ Complete(w)
  <2>1. /\ pc[w] # "idle" /\ Finish(w) /\ UNCHANGED <<lockLosses, notified>> /\ locked[w]
        /\ UNCHANGED <<current, index, committed>>
    BY <1>2 DEF Reject, Complete, Settle, blobVars, historyVars, SessionsOK
  <2>2. CASE Reject(w)
    BY <2>1, <2>2, <1>a DEF Reject, Settle, Ends, Settled
  <2>3. CASE Complete(w)
    BY <2>1, <2>3, <1>a DEF Complete, Settle, Ends, Settled
  <2>4. QED BY <1>2, <2>2, <2>3
<1>3. CASE Fail(w)
  BY <1>3, <1>a, Released DEF Fail, blobVars, historyVars
<1>4. CASE Reassess(w)
  BY <1>4, <1>a DEF Reassess, Goto, Continues, LocalTypeOK, blobVars, historyVars, brokerVars
<1>5. CASE ReadIndex(w)
  BY <1>5, <1>a DEF ReadIndex, Goto, Continues, LocalTypeOK, blobVars, brokerVars
<1>6. CASE ReadCurrent(w)
  <2>1. QuietFeed /\ UNCHANGED notified /\ pc[w] # "idle"
    BY <1>6, <1>a DEF ReadCurrent, blobVars, historyVars
  <2>2. CASE Release(w)
    BY <2>1, <2>2, Released
  <2>3. CASE ~Release(w)
    BY <1>6, <2>1, <2>3 DEF ReadCurrent, Conclude, Goto, Continues, LocalTypeOK, brokerVars
  <2>4. QED BY <2>2, <2>3
<1>7. CASE Upload(w)
  <2>1. QuietFeed /\ UNCHANGED notified /\ pc[w] # "idle"
    BY <1>7, <1>a DEF Upload, historyVars
  <2>2. CASE Release(w)
    BY <2>1, <2>2, Released
  <2>3. CASE ~Release(w)
    BY <1>7, <2>1, <2>3 DEF Upload, Goto, Continues, LocalTypeOK, brokerVars
  <2>4. QED BY <2>2, <2>3
<1>8. CASE PublishPointer(w)
  <2>1. UNCHANGED <<index, notified, committed>> /\ pc[w] # "idle"
    BY <1>8 DEF PublishPointer, historyVars
  <2>2. CASE Release(w) /\ UNCHANGED current
    BY <1>a, <2>1, <2>2, Released
  <2>3. CASE ~(Release(w) /\ UNCHANGED current)
    BY <1>8, <2>1, <2>3 DEF PublishPointer, Goto, Continues, Points, LocalTypeOK, brokerVars
  <2>4. QED BY <2>2, <2>3
<1>9. CASE PublishIndex(w)
  <2>1. UNCHANGED <<current, notified>> /\ pc[w] # "idle"
    BY <1>9 DEF PublishIndex
  <2>2. CASE Release(w) /\ UNCHANGED <<index, historyVars>>
    BY <1>a, <2>1, <2>2, Released DEF historyVars
  <2>3. CASE ~(Release(w) /\ UNCHANGED <<index, historyVars>>)
    BY <1>9, <2>1, <2>3 DEF PublishIndex, Conclude, Goto, Continues, Commits, LocalTypeOK,
                            brokerVars
  <2>4. QED BY <2>2, <2>3
<1>10. CASE Enqueue(w)
  BY <1>10, <1>a DEF Enqueue, Goto, Continues, LocalTypeOK, blobVars, historyVars, brokerVars
<1>11. QED
  BY <1>1, <1>2, <1>3, <1>4, <1>5, <1>6, <1>7, <1>8, <1>9, <1>10 DEF WorkerStep

\* Sessions stay exclusive.
LEMMA SessionsStep ==
    ASSUME lockLosses' = 0, SessionsOK, IInv, [Next]_vars
    PROVE  SessionsOK'
<1> FeedTypeOK /\ LocalTypeOK
  BY DEF IInv, FeedTypeOK
<1>1. ASSUME NEW w \in Workers, WorkerStep(w) PROVE SessionsOK'
  <2> w \in Executions /\ OnlyMoves(w)
    BY <1>1, WorkerTypeStep DEF Executions
  <2>0. \A v \in Workers \ {w} : pc'[v] = pc[v] /\ req'[v] = req[v]
    BY DEF OnlyMoves, Executions
  <2>1. CASE Receive(w)
    <3>1. PICK r \in Requests :
            /\ status[r] = "queued"
            /\ \A v \in Workers : locked[v] => incidentOf[req[v]] # incidentOf[r]
            /\ req' = [req EXCEPT ![w] = r]
      BY <2>1 DEF Receive
    <3>2. /\ UNCHANGED <<status, lockLosses>> /\ pc'[w] = "received" /\ req'[w] = r
          /\ locked' = [locked EXCEPT ![w] = TRUE]
      BY <2>1, <3>1 DEF Receive, Goto, brokerVars, LocalTypeOK
    <3>3. \A v \in Workers \ {w} : pc[v] # "idle" => I(v)' # I(w)'
      BY <2>0, <3>1, <3>2 DEF SessionsOK, I
    <3>4. \A v, u \in Workers : pc'[v] # "idle" /\ pc'[u] # "idle" /\ I(v)' = I(u)' => v = u
      BY <2>0, <3>3 DEF SessionsOK, I
    <3>5. QED BY <2>0, <3>1, <3>2, <3>4 DEF SessionsOK
  <2>2. CASE Ends(w)
    <3>1. PICK s \in {"queued"} \cup Settled : status' = [status EXCEPT ![req[w]] = s]
      BY <2>2 DEF Ends
    <3>2. /\ UNCHANGED lockLosses /\ pc'[w] = "idle" /\ pc[w] # "idle"
          /\ locked' = [locked EXCEPT ![w] = FALSE]
      BY <2>2 DEF Ends, Finish, LocalTypeOK
    <3>3. \A v \in Workers \ {w} : pc[v] # "idle" => req[v] # req[w]
      BY <3>2 DEF SessionsOK, I
    <3>4. \A v, u \in Workers : pc'[v] # "idle" /\ pc'[u] # "idle" /\ I(v)' = I(u)' => v = u
      BY <2>0, <3>2 DEF SessionsOK, I
    <3>5. /\ status' \in [Requests -> {"queued"} \cup Settled]
          /\ \A r \in Requests : r # req[w] => status'[r] = status[r]
      BY <3>1 DEF SessionsOK
    <3>6. \A v \in Workers \ {w} : pc[v] # "idle" => status'[req[v]] = "queued"
      BY <3>3, <3>5 DEF SessionsOK, LocalTypeOK
    <3>7. QED BY <2>0, <3>2, <3>4, <3>5, <3>6 DEF SessionsOK
  <2>3. CASE Continues(w)
    <3>1. \A v, u \in Workers : pc'[v] # "idle" /\ pc'[u] # "idle" /\ I(v)' = I(u)' => v = u
      BY <2>0, <2>3 DEF SessionsOK, Continues, I
    <3>2. QED BY <2>0, <2>3, <3>1 DEF SessionsOK, Continues
  <2>4. QED BY <1>1, <2>1, <2>2, <2>3, WorkerKinds
<1>2. ASSUME UNCHANGED <<locked, req, status, lockLosses>>,
             \A w \in Workers : pc'[w] = pc[w]
      PROVE  SessionsOK'
  BY <1>2 DEF SessionsOK, I
<1>3. ASSUME NEW h \in Heartbeats, HeartbeatStep(h) PROVE SessionsOK'
  <2>1. UNCHANGED <<locked, req, status, lockLosses>>
    BY <1>3 DEF HeartbeatStep, Observe, Snapshot, Attest, Replace, Recover, FailHeartbeat,
                HeartbeatKeeps, brokerVars
  <2>2. \A w \in Workers : pc'[w] = pc[w]
    BY <1>3, HeartbeatTypeStep, ExecutionAssumption DEF OnlyMoves, Executions
  <2>3. QED BY <1>2, <2>1, <2>2
<1>4. ASSUME NEW r \in Requests, ExpireMessage(r) PROVE SessionsOK'
  BY <1>4 DEF ExpireMessage, execVars, SessionsOK, I, Settled
<1>5. QED
  BY <1>1, <1>2, <1>3, <1>4 DEF Next, vars, execVars, brokerVars

\* What an execution decides is a function of its local state.
LEMMA SameDecisions ==
    ASSUME NEW w \in Workers, UNCHANGED <<req[w], seen[w], snap[w]>>
    PROVE  /\ I(w)' = I(w) /\ Healthy(w)' = Healthy(w) /\ Lifecycle(w)' = Lifecycle(w)
           /\ Entry(snap[w], I(w))' = Entry(snap[w], I(w))
           /\ Agrees(w, snap[w])' <=> Agrees(w, snap[w])
BY DEF I, Healthy, Lifecycle, Entry, Agrees

\* An execution at work finds its incident as it left it when the step of another
\* leaves that incident alone.
LEMMA UndisturbedKept ==
    ASSUME NEW v \in Workers, Undisturbed(v), pc'[v] = pc[v],
           UNCHANGED <<req[v], seen[v], at[v], snap[v]>>,
           current'[I(v)] = current[I(v)], Entry(index', I(v)) = Entry(index, I(v)),
           current[I(v)] \in committed' <=> current[I(v)] \in committed,
           notified \subseteq notified'
    PROVE  Undisturbed(v)'
<1>1. PointerOf(v)' = PointerOf(v) /\ I(v)' = I(v)
  BY SamePublication
<1>2. /\ Lifecycle(v)' = Lifecycle(v)
      /\ Entry(snap[v], I(v))' = Entry(snap[v], I(v))
      /\ Agrees(v, snap[v])' <=> Agrees(v, snap[v])
  BY SameDecisions
<1>3. Entry(index, I(v))' = Entry(index, I(v))
  BY <1>1 DEF Entry
<1>4. QED BY <1>1, <1>2, <1>3 DEF Undisturbed

\* A step that leaves the feed of incident j alone.
Leaves(j) ==
    /\ current'[j] = current[j] /\ Entry(index', j) = Entry(index, j)
    /\ current[j] \in committed' <=> current[j] \in committed

LEMMA FeedKept ==
    ASSUME NEW j \in Incidents, Leaves(j), committed \subseteq committed', FeedInStep(j)
    PROVE  FeedInStep(j)'
<1>1. Entry(index, j)' = Entry(index, j)
  BY DEF Leaves, Entry
<1>2. QED BY <1>1 DEF Leaves, FeedInStep

LEMMA CompletedKept ==
    ASSUME NEW j \in Incidents, Leaves(j), CompletedAt(j), notified \subseteq notified',
           current[j] \in committed /\ status'[current[j].request] = "completed" =>
               status[current[j].request] = "completed"
    PROVE  CompletedAt(j)'
BY DEF Leaves, CompletedAt

LEMMA NotificationsKept ==
    ASSUME Followed, committed \subseteq committed', UNCHANGED notified
    PROVE  Followed'
BY DEF Followed

\* current.json moves forward, so what was committed stays no newer than it.
LEMMA CommittedKept ==
    ASSUME FeedTypeOK, FeedTypeOK', CommittedWasCurrent, CurrentForward, UNCHANGED committed
    PROVE  CommittedWasCurrent'
<1> SUFFICES ASSUME NEW p \in committed
             PROVE  /\ current'[incidentOf[p.request]] # NoPointer
                    /\ current'[incidentOf[p.request]].published >= p.published
  BY DEF CommittedWasCurrent
<1>1. p \in Pointers
  BY DEF CommittedWasCurrent
<1>2. PICK i \in Incidents : i = incidentOf[p.request]
  BY <1>1, RequestAssumption DEF Pointers
<1>3. current[i] # NoPointer /\ current[i].published >= p.published
  BY <1>2 DEF CommittedWasCurrent
<1>4. current'[i] # NoPointer
  BY <1>3 DEF CurrentForward
<1>5. current[i].published \in Nat /\ current'[i].published \in Nat /\ p.published \in Nat
  BY <1>1, <1>3, <1>4 DEF FeedTypeOK, Pointers
<1>6. current'[i].published >= current[i].published
  BY <1>3, <1>5 DEF CurrentForward
<1>7. current'[i].published >= p.published
  BY <1>3, <1>5, <1>6
<1>8. QED BY <1>2, <1>4, <1>7

\* A step that leaves the feed alone disturbs at most the execution that takes it.
LEMMA QuietOthers ==
    ASSUME IInv, SessionInv, FeedTypeOK', QuietFeed
    PROVE  /\ CommittedWasCurrent'
           /\ \A i \in Incidents : Leaves(i) /\ FeedInStep(i)'
           /\ \A v \in Workers :
                pc'[v] = pc[v] /\ UNCHANGED <<req[v], seen[v], at[v], snap[v]>> =>
                    Undisturbed(v)'
<1>1. CommittedWasCurrent'
  <2>1. CurrentForward
    BY DEF QuietFeed, CurrentForward
  <2>2. QED BY <2>1, CommittedKept DEF IInv, SessionInv, QuietFeed
<1>2. \A i \in Incidents : Leaves(i)
  BY DEF QuietFeed, Leaves
<1>3. \A i \in Incidents : FeedInStep(i)'
  BY <1>2, FeedKept DEF SessionInv, QuietFeed
<1>4. ASSUME NEW v \in Workers, pc'[v] = pc[v],
             UNCHANGED <<req[v], seen[v], at[v], snap[v]>>
      PROVE  Undisturbed(v)'
  <2>1. CASE pc[v] = "idle"
    BY <1>4, <2>1 DEF Undisturbed
  <2>2. CASE pc[v] # "idle"
    <3>1. I(v) \in Incidents
      BY <2>2, PublicationBuilt DEF IInv
    <3>2. QED BY <1>2, <1>4, <3>1, UndisturbedKept DEF SessionInv, QuietFeed, Leaves
  <2>3. QED BY <2>1, <2>2
<1>5. QED BY <1>1, <1>2, <1>3, <1>4

\* A step of w that writes the feed of its own incident only.
LEMMA OtherSessions ==
    ASSUME IInv, SessionInv, NEW w \in Workers, pc[w] # "idle", OnlyMoves(w),
           notified' = notified, committed \subseteq committed',
           \A i \in Incidents : i # I(w) =>
               current'[i] = current[i] /\ Entry(index', i) = Entry(index, i),
           \A p \in committed' \ committed : p = PointerOf(w)
    PROVE  /\ \A i \in Incidents : i # I(w) => Leaves(i) /\ FeedInStep(i)'
           /\ \A v \in Workers \ {w} : Undisturbed(v)'
<1>1. ASSUME NEW i \in Incidents, i # I(w) PROVE Leaves(i)
  <2>1. PointerOf(w).request = req[w] /\ PointerOf(w) # NoPointer
    BY PublicationBuilt DEF IInv, PointerOf
  <2>2. current[i] # PointerOf(w)
    BY <1>1, <2>1 DEF SessionInv, FeedInStep, I
  <2>3. QED BY <1>1, <2>2 DEF Leaves
<1>2. ASSUME NEW v \in Workers \ {w} PROVE Undisturbed(v)'
  <2>1. pc'[v] = pc[v] /\ UNCHANGED <<req[v], seen[v], at[v], snap[v]>>
    BY DEF OnlyMoves, Executions
  <2>2. CASE pc[v] = "idle"
    BY <2>1, <2>2 DEF Undisturbed
  <2>3. CASE pc[v] # "idle"
    <3>1. I(v) \in Incidents /\ I(v) # I(w)
      BY <2>3, PublicationBuilt DEF IInv, SessionInv, SessionsOK
    <3>2. QED BY <1>1, <2>1, <3>1, UndisturbedKept DEF SessionInv, Leaves
  <2>4. QED BY <2>2, <2>3
<1>3. QED BY <1>1, <1>2, FeedKept DEF SessionInv

\* What the step must leave behind besides the sessions.
SessionGoal ==
    /\ CommittedWasCurrent'
    /\ \A w \in Workers : Undisturbed(w)'
    /\ \A i \in Incidents : FeedInStep(i)' /\ CompletedAt(i)'
    /\ Followed'

\* Its write of current.json: the pointer is not committed yet, or was there.
LEMMA PointsStep ==
    ASSUME IInv, FeedTypeOK', VerdictInv, SessionInv, NEW w \in Workers, OnlyMoves(w),
           Continues(w), Points(w)
    PROVE  SessionGoal
<1>0. /\ I(w) \in Incidents /\ PointerOf(w) \in Pointers /\ PointerOf(w) # NoPointer
      /\ PointerOf(w).published = at[w] /\ PointerOf(w).request = req[w]
      /\ PointerOf(w).lifecycle = Lifecycle(w) /\ pc[w] = "pointing" /\ FeedTypeOK
      /\ Healthy(w) \in BOOLEAN
  BY PublicationBuilt, HealthyType DEF IInv, Points, PointerOf, VerdictInv
<1>1. /\ current'[I(w)] = PointerOf(w)
      /\ \A i \in Incidents : i # I(w) => current'[i] = current[i]
  BY <1>0 DEF Points, FeedTypeOK
<1>2. UNCHANGED <<index, committed, notified, status, req, seen, at, snap>>
  BY DEF Points, Continues
<1>3. PointerOf(w)' = PointerOf(w) /\ I(w)' = I(w)
  BY <1>2, SamePublication
<1>4. /\ \A i \in Incidents : i # I(w) => Leaves(i) /\ FeedInStep(i)'
      /\ \A v \in Workers \ {w} : Undisturbed(v)'
  BY <1>0, <1>1, <1>2, OtherSessions
<1>5. CurrentForward
  <2>1. current[I(w)] # NoPointer => current[I(w)].published \in Nat
    BY <1>0 DEF FeedTypeOK, Pointers
  <2>2. PointerOf(w).published \in Nat
    BY <1>0 DEF Pointers
  <2>3. current[I(w)] # NoPointer => PointerOf(w).published >= current[I(w)].published
    BY <2>1, <2>2 DEF Points
  <2>4. QED BY <1>0, <1>1, <2>3 DEF CurrentForward
<1>6. CommittedWasCurrent'
  BY <1>0, <1>2, <1>5, CommittedKept DEF SessionInv
<1>7. Undisturbed(w)
  BY DEF SessionInv
<1>8. Undisturbed(w)'
  <2>1. /\ Entry(snap[w], I(w))' = Entry(snap[w], I(w))
        /\ Agrees(w, snap[w])' <=> Agrees(w, snap[w])
    BY <1>2, SameDecisions
  <2>2. Entry(index, I(w))' = Entry(index, I(w))
    BY <1>2, <1>3 DEF Entry
  <2>3. pc'[w] = "indexing"
    BY DEF Points
  <2>4. QED BY <1>0, <1>1, <1>3, <1>7, <2>1, <2>2, <2>3 DEF Undisturbed
<1>9. FeedInStep(I(w))'
  <2>1. CASE PointerOf(w) \in committed
    <3>1. current[I(w)] # NoPointer /\ current[I(w)].published >= PointerOf(w).published
      BY <1>0, <2>1 DEF SessionInv, CommittedWasCurrent, I
    <3>2. current[I(w)].published \in Nat /\ PointerOf(w).published \in Nat
      BY <1>0, <3>1 DEF FeedTypeOK, Pointers
    <3>3. current[I(w)] = PointerOf(w)
      BY <3>1, <3>2 DEF Points
    <3>4. PICK j \in Incidents : j = I(w)
      BY <1>0
    <3>5. Leaves(j)
      BY <1>1, <1>2, <3>3, <3>4 DEF Leaves
    <3>6. FeedInStep(j)'
      BY <1>2, <3>5, FeedKept DEF SessionInv
    <3>7. QED BY <1>3, <3>4, <3>6 DEF FeedInStep, Entry
  <2>2. CASE PointerOf(w) \notin committed
    <3>1. PointerOf(w).lifecycle = "resolved" => Healthy(w)
      BY <1>0 DEF Lifecycle
    <3>2. Healthy(w) => Entry(index, I(w)) # NoPointer
      BY <1>0, <1>7 DEF Undisturbed, Agrees
    <3>3. Entry(index, I(w))' = Entry(index, I(w))
      BY <1>2, <1>3 DEF Entry
    <3>4. Entry(index, I(w)) # NoPointer => Entry(index, I(w)) \in committed
      BY <1>0 DEF SessionInv, FeedInStep
    <3>5. incidentOf[PointerOf(w).request] = I(w)
      BY <1>0 DEF I
    <3>6. QED BY <1>1, <1>2, <1>3, <2>2, <3>1, <3>2, <3>3, <3>4, <3>5 DEF FeedInStep
  <2>3. QED BY <2>1, <2>2
<1>10. ASSUME NEW i \in Incidents PROVE CompletedAt(i)'
  <2>1. CASE i = I(w)
    <3>1. status[req[w]] = "queued"
      BY <1>0 DEF SessionInv, SessionsOK
    <3>2. QED BY <1>0, <1>1, <1>2, <2>1, <3>1 DEF CompletedAt
  <2>2. CASE i # I(w)
    BY <1>2, <1>4, <2>2, CompletedKept DEF SessionInv
  <2>3. QED BY <2>1, <2>2
<1>11. Followed'
  BY <1>2, NotificationsKept DEF SessionInv
<1>12. ASSUME NEW i \in Incidents PROVE FeedInStep(i)'
  <2>1. CASE i = I(w)
    <3>1. FeedInStep(i)' <=> FeedInStep(I(w))'
      BY <1>3, <2>1 DEF FeedInStep, Entry
    <3>2. QED BY <1>9, <3>1
  <2>2. QED BY <1>4, <2>1
<1>13. QED BY <1>4, <1>6, <1>8, <1>10, <1>11, <1>12 DEF SessionGoal

\* Its write of the index: the state it shows or removes is the current one.
LEMMA CommitsStep ==
    ASSUME IInv, FeedTypeOK', VerdictInv, SessionInv, NEW w \in Workers, OnlyMoves(w),
           Continues(w), Commits(w)
    PROVE  SessionGoal
<1> w \in Executions /\ DOMAIN pc = Executions
  BY DEF Executions, IInv, FeedTypeOK, LocalTypeOK
<1>0. /\ PublishIndex(w) /\ SeenOK(w) /\ ~Finish(w) /\ pc'[w] = "enqueueing"
      /\ UNCHANGED <<current, notified, status, req>>
  BY DEF Commits, VerdictInv, Finish, PublishIndex, Continues
<1>1. /\ I(w) \in Incidents /\ Healthy(w) \in BOOLEAN
      /\ committed' = committed \cup {PointerOf(w)}
      /\ \A i \in Incidents : i # I(w) => Entry(index', i) = Entry(index, i)
      /\ Healthy(w) <=> Entry(index', I(w)) = NoPointer
      /\ ~Healthy(w) => Entry(index', I(w)) = PointerOf(w)
      /\ PointerOf(w) \in Pointers /\ PointerOf(w) # NoPointer
      /\ Conclude(w, "enqueueing") /\ pc[w] = "indexing"
  BY <1>0, PublishedEntries
<1>2. current[I(w)] = PointerOf(w)
  BY <1>1 DEF SessionInv, Undisturbed
<1>3. PointerOf(w).request = req[w] /\ PointerOf(w).lifecycle = Lifecycle(w)
  BY DEF PointerOf
<1>4. /\ \A i \in Incidents : i # I(w) => Leaves(i) /\ FeedInStep(i)'
      /\ \A v \in Workers \ {w} : Undisturbed(v)'
  BY <1>0, <1>1, OtherSessions
<1>5. I(w)' = I(w) /\ Lifecycle(w)' = Lifecycle(w)
  <2>1. UNCHANGED <<req, seen>>
    BY <1>1 DEF Conclude
  <2>2. QED BY <2>1 DEF I, Lifecycle, Healthy
<1>6. CommittedWasCurrent'
  <2>1. PointerOf(w).published \in Nat
    BY <1>1 DEF Pointers
  <2>2. PointerOf(w).published >= PointerOf(w).published
    BY <2>1
  <2>3. incidentOf[PointerOf(w).request] = I(w)
    BY <1>3 DEF I
  <2>4. QED
    BY <1>0, <1>1, <1>2, <2>2, <2>3 DEF SessionInv, CommittedWasCurrent
<1>7. Undisturbed(w)'
  BY <1>0, <1>1, <1>2, <1>3, <1>5 DEF Undisturbed
<1>8. FeedInStep(I(w))'
  <2>1. Entry(index, I(w))' = Entry(index', I(w))
    BY <1>5 DEF Entry
  <2>2. Lifecycle(w) = "active" <=> ~Healthy(w)
    BY <1>1 DEF Lifecycle
  <2>3. incidentOf[PointerOf(w).request] = I(w)
    BY <1>3 DEF I
  <2>4. QED BY <1>0, <1>1, <1>2, <1>3, <1>5, <2>1, <2>2, <2>3 DEF FeedInStep
<1>9. ASSUME NEW i \in Incidents PROVE CompletedAt(i)'
  <2>1. CASE i = I(w)
    <3>1. status[req[w]] = "queued"
      BY <1>1 DEF SessionInv, SessionsOK
    <3>2. QED BY <1>0, <1>2, <1>3, <2>1, <3>1 DEF CompletedAt
  <2>2. CASE i # I(w)
    BY <1>0, <1>4, <2>2, CompletedKept DEF SessionInv
  <2>3. QED BY <2>1, <2>2
<1>10. Followed'
  BY <1>0, <1>1, NotificationsKept DEF SessionInv
<1>11. ASSUME NEW i \in Incidents PROVE FeedInStep(i)'
  <2>1. CASE i = I(w)
    <3>1. FeedInStep(i)' <=> FeedInStep(I(w))'
      BY <1>5, <2>1 DEF FeedInStep, Entry
    <3>2. QED BY <1>8, <3>1
  <2>2. QED BY <1>4, <2>1
<1>12. QED BY <1>4, <1>6, <1>7, <1>9, <1>10, <1>11 DEF SessionGoal

\* A step that leaves the feed alone.
LEMMA QuietGoal ==
    ASSUME IInv, FeedTypeOK', SessionInv, QuietFeed, Followed',
           \A v \in Workers :
               \/ Undisturbed(v)'
               \/ pc'[v] = pc[v] /\ UNCHANGED <<req[v], seen[v], at[v], snap[v]>>,
           \A i \in Incidents :
               current[i] \in committed /\ status'[current[i].request] = "completed" =>
                   \/ status[current[i].request] = "completed"
                   \/ <<current[i].request, current[i].lifecycle>> \in notified
    PROVE  SessionGoal
<1>1. /\ CommittedWasCurrent'
      /\ \A i \in Incidents : Leaves(i) /\ FeedInStep(i)'
      /\ \A v \in Workers : Undisturbed(v)'
  BY QuietOthers
<1>2. \A i \in Incidents : CompletedAt(i)
  BY DEF SessionInv
<1>3. \A i \in Incidents : CompletedAt(i)'
  BY <1>1, <1>2 DEF QuietFeed, CompletedAt
<1>4. QED BY <1>1, <1>3 DEF SessionGoal

\* Nothing to publish: the state found current is committed when its notification
\* is enqueued again, and has been notified when it is not.
LEMMA CurrentRead ==
    ASSUME IInv, VerdictInv, SessionInv, NEW w \in Workers, Continues(w), QuietFeed,
           ReadCurrent(w)
    PROVE  Undisturbed(w)'
<1> w \in Executions /\ LocalTypeOK /\ FeedTypeOK
  BY DEF Executions, IInv, FeedTypeOK
<1> DEFINE repeats == /\ current[I(w)] # NoPointer /\ current[I(w)].request = req[w]
                      /\ current[I(w)].lifecycle = Lifecycle(w)
<1>0. /\ pc[w] = "reconciling" /\ I(w) \in Incidents /\ Healthy(w) \in BOOLEAN
      /\ UNCHANGED <<current, committed, notified>>
  BY PublicationBuilt, HealthyType DEF ReadCurrent, VerdictInv, blobVars, historyVars
<1>1. ~Release(w)
  BY DEF Continues, Release, Finish, LocalTypeOK
<1>2. \/ ~repeats /\ Conclude(w, "completing")
      \/ /\ repeats /\ (Healthy(w) \/ Entry(snap[w], I(w)) = current[I(w)])
         /\ Conclude(w, "enqueueing")
  BY <1>1 DEF ReadCurrent, Latest
<1>3. I(w)' = I(w) /\ Lifecycle(w)' = Lifecycle(w) /\ req' = req
  <2>1. UNCHANGED <<req, seen>>
    BY <1>2 DEF Conclude
  <2>2. QED BY <2>1 DEF I, Lifecycle, Healthy
<1>4. /\ Entry(index, I(w)) = Entry(snap[w], I(w))
      /\ Healthy(w) <=> Entry(index, I(w)) = NoPointer
  <2>1. Entry(index, I(w)) = Entry(snap[w], I(w)) /\ Agrees(w, snap[w])
    BY <1>0 DEF SessionInv, Undisturbed
  <2>2. QED BY <2>1 DEF Agrees
<1>5. FeedInStep(I(w))
  BY <1>0 DEF SessionInv
<1>6. current[I(w)] # NoPointer => current[I(w)].lifecycle \in Lifecycles
  BY <1>0 DEF FeedTypeOK, Pointers
<1>7. NoPointer \notin committed
  BY AbsenceAssumption DEF SessionInv, CommittedWasCurrent
<1>8. CASE ~repeats /\ Conclude(w, "completing")
  <2>1. pc'[w] = "completing"
    BY <1>8 DEF Conclude, Goto, LocalTypeOK
  <2>2. ~(current[I(w)] \in committed /\ current[I(w)].request = req[w])
    BY <1>0, <1>4, <1>5, <1>6, <1>7, <1>8 DEF FeedInStep, Lifecycle, Lifecycles
  <2>3. QED BY <1>0, <1>3, <2>1, <2>2 DEF Undisturbed
<1>9. CASE /\ repeats /\ (Healthy(w) \/ Entry(snap[w], I(w)) = current[I(w)])
           /\ Conclude(w, "enqueueing")
  <2>1. pc'[w] = "enqueueing"
    BY <1>9 DEF Conclude, Goto, LocalTypeOK
  <2>2. CASE Healthy(w)
    <3>1. Entry(index, I(w)) = NoPointer /\ Lifecycle(w) = "resolved"
      BY <1>4, <2>2 DEF Lifecycle
    <3>2. current[I(w)] \in committed
      BY <1>5, <1>9, <3>1 DEF FeedInStep
    <3>3. QED BY <1>0, <1>3, <1>9, <2>1, <3>2 DEF Undisturbed
  <2>3. CASE ~Healthy(w)
    <3>1. current[I(w)] \in committed
      BY <1>4, <1>5, <1>9, <2>3 DEF FeedInStep
    <3>2. QED BY <1>0, <1>3, <1>9, <2>1, <3>1 DEF Undisturbed
  <2>4. QED BY <2>2, <2>3
<1>10. QED BY <1>2, <1>8, <1>9

\* The other steps of an execution that goes on.
LEMMA GoesOn ==
    ASSUME IInv, VerdictInv, SessionInv, NEW w \in Workers, Continues(w), QuietFeed,
           Reassess(w) \/ ReadIndex(w) \/ Upload(w) \/ Enqueue(w)
    PROVE  Undisturbed(w)'
<1> w \in Executions /\ LocalTypeOK /\ FeedTypeOK /\ Undisturbed(w)
  BY DEF Executions, IInv, FeedTypeOK, SessionInv
<1>1. CASE Reassess(w)
  BY <1>1 DEF Reassess, Goto, LocalTypeOK, Undisturbed
<1>2. CASE ReadIndex(w)
  <2>1. /\ snap'[w] = index /\ UNCHANGED <<req, seen, index>>
        /\ pc'[w] = IF Agrees(w, index) THEN "reconciling" ELSE "uploading"
    BY <1>2 DEF ReadIndex, Goto, LocalTypeOK, blobVars
  <2>2. Agrees(w, snap[w])' <=> Agrees(w, index)
    BY <2>1 DEF Agrees, Healthy, I, Entry
  <2>3. Entry(index, I(w))' = Entry(snap[w], I(w))'
    BY <2>1 DEF Entry
  <2>4. QED BY <2>1, <2>2, <2>3 DEF Undisturbed
<1>3. CASE Upload(w)
  <2>1. ~Release(w)
    BY DEF Continues, Release, Finish, LocalTypeOK
  <2>2. /\ pc'[w] = "pointing" /\ pc[w] = "uploading"
        /\ UNCHANGED <<req, seen, at, snap, index>>
    BY <1>3, <2>1 DEF Upload, Goto, LocalTypeOK
  <2>3. /\ Entry(snap[w], I(w))' = Entry(snap[w], I(w))
        /\ Agrees(w, snap[w])' <=> Agrees(w, snap[w])
        /\ I(w)' = I(w)
    BY <2>2, SameDecisions
  <2>4. Entry(index, I(w))' = Entry(index, I(w))
    BY <2>2, <2>3 DEF Entry
  <2>5. QED BY <2>2, <2>3, <2>4 DEF Undisturbed
<1>4. CASE Enqueue(w)
  <2>1. /\ pc'[w] = "completing" /\ pc[w] = "enqueueing"
        /\ UNCHANGED <<req, seen, current, committed>>
        /\ notified' = notified \cup {<<req[w], Lifecycle(w)>>}
    BY <1>4 DEF Enqueue, Goto, LocalTypeOK, blobVars, historyVars
  <2>2. I(w)' = I(w)
    BY <2>1 DEF I
  <2>3. QED BY <2>1, <2>2 DEF Undisturbed
<1>5. QED BY <1>1, <1>2, <1>3, <1>4

LEMMA WorkerSession ==
    ASSUME lockLosses' = 0, IInv, VerdictInv, SessionInv, NEW w \in Workers, WorkerStep(w)
    PROVE  SessionGoal
<1> w \in Executions /\ LocalTypeOK /\ FeedTypeOK /\ SessionsOK
  BY DEF Executions, IInv, FeedTypeOK, SessionInv
<1>0. FeedTypeOK' /\ OnlyMoves(w)
  BY WorkerTypeStep
<1>1. \A v \in Workers \ {w} :
          pc'[v] = pc[v] /\ UNCHANGED <<req[v], seen[v], at[v], snap[v]>>
  BY <1>0 DEF OnlyMoves, Executions
<1>2. CASE Receive(w)
  <2>1. /\ pc'[w] = "received"
        /\ UNCHANGED <<status, current, index, committed, notified>>
    BY <1>2 DEF Receive, Goto, LocalTypeOK, brokerVars, blobVars, historyVars
  <2>2. QuietFeed /\ Undisturbed(w)'
    BY <2>1 DEF QuietFeed, Undisturbed
  <2>3. Followed'
    BY <2>1, NotificationsKept DEF SessionInv
  <2>4. QED BY <1>0, <1>1, <2>1, <2>2, <2>3, QuietGoal
<1>3. CASE Ends(w) /\ QuietFeed
  <2>1. PICK s \in {"queued"} \cup Settled :
            /\ status' = [status EXCEPT ![req[w]] = s]
            /\ s = "completed" => pc[w] = "completing"
    BY <1>3 DEF Ends
  <2>2. pc[w] # "idle" /\ pc'[w] = "idle" /\ notified' = notified
    BY <1>3 DEF Ends, Finish, LocalTypeOK
  <2>3. Undisturbed(w)'
    BY <2>2 DEF Undisturbed
  <2>4. Followed'
    BY <1>3, <2>2, NotificationsKept DEF SessionInv, QuietFeed
  <2>5. ASSUME NEW i \in Incidents, current[i] \in committed,
               status'[current[i].request] = "completed",
               status[current[i].request] # "completed"
        PROVE  <<current[i].request, current[i].lifecycle>> \in notified
    <3>1. current[i] \in Pointers /\ current[i] # NoPointer
      BY <2>5, AbsenceAssumption DEF SessionInv, CommittedWasCurrent
    <3>2. current[i].request \in Requests
      BY <3>1 DEF Pointers
    <3>3. current[i].request = req[w] /\ s = "completed"
      BY <2>1, <2>5, <3>2 DEF SessionsOK
    <3>4. i = I(w)
      BY <3>1, <3>3 DEF SessionInv, FeedInStep, I
    <3>5. QED BY <2>1, <2>5, <3>3, <3>4 DEF SessionInv, Undisturbed
  <2>6. QED BY <1>0, <1>1, <1>3, <2>3, <2>4, <2>5, QuietGoal
<1>4. CASE Continues(w) /\ QuietFeed
             /\ (Reassess(w) \/ ReadIndex(w) \/ ReadCurrent(w) \/ Upload(w) \/ Enqueue(w))
  <2>1. Undisturbed(w)' /\ UNCHANGED status
    BY <1>4, CurrentRead, GoesOn DEF Continues
  <2>2. Followed'
    <3>1. CASE Enqueue(w)
      <4>1. /\ pc[w] = "enqueueing" /\ committed' = committed
            /\ notified' = notified \cup {<<req[w], Lifecycle(w)>>}
        BY <3>1 DEF Enqueue, historyVars
      <4>2. PICK p \in committed : p.request = req[w] /\ p.lifecycle = Lifecycle(w)
        BY <4>1 DEF SessionInv, Undisturbed
      <4>3. QED BY <4>1, <4>2 DEF SessionInv, Followed
    <3>2. CASE ~Enqueue(w)
      <4>1. UNCHANGED notified
        BY <1>4, <3>2 DEF Reassess, ReadIndex, ReadCurrent, Upload
      <4>2. QED BY <1>4, <4>1, NotificationsKept DEF SessionInv, QuietFeed
    <3>3. QED BY <3>1, <3>2
  <2>3. QED BY <1>0, <1>1, <1>4, <2>1, <2>2, QuietGoal
<1>5. CASE Continues(w) /\ (Points(w) \/ Commits(w))
  BY <1>0, <1>5, PointsStep, CommitsStep
<1>6. QED BY <1>2, <1>3, <1>4, <1>5, WorkerKinds

LEMMA SessionStep ==
    ASSUME lockLosses' = 0, IInv, VerdictInv, SessionInv, [Next]_vars
    PROVE  SessionInv'
<1> FeedTypeOK /\ LocalTypeOK
  BY DEF IInv, FeedTypeOK
<1>1. SUFFICES SessionGoal
  <2>1. SessionsOK'
    BY SessionsStep DEF SessionInv
  <2>2. QED BY <1>1, <2>1 DEF SessionGoal, SessionInv
<1>2. ASSUME NEW w \in Workers, WorkerStep(w) PROVE SessionGoal
  BY <1>2, WorkerSession
<1>3. ASSUME FeedTypeOK', QuietFeed, UNCHANGED notified,
             \A v \in Workers :
                 pc'[v] = pc[v] /\ UNCHANGED <<req[v], seen[v], at[v], snap[v]>>,
             \A r \in Requests : status'[r] = "completed" => status[r] = "completed"
      PROVE  SessionGoal
  <2>1. Followed'
    BY <1>3, NotificationsKept DEF SessionInv, QuietFeed
  <2>2. \A i \in Incidents : current[i] \in committed => current[i].request \in Requests
    BY DEF SessionInv, CommittedWasCurrent, Pointers
  <2>3. QED BY <1>3, <2>1, <2>2, QuietGoal
<1>4. ASSUME NEW h \in Heartbeats, HeartbeatStep(h) PROVE SessionGoal
  <2>1. UNCHANGED <<current, notified, committed, status>>
    BY <1>4 DEF HeartbeatStep, Observe, Snapshot, Attest, Replace, Recover, FailHeartbeat,
                HeartbeatKeeps, brokerVars, blobVars, historyVars
  <2>2. \A i \in Incidents : Entry(index', i) = Entry(index, i)
    <3>1. Replace(h) \/ UNCHANGED index
      BY <1>4 DEF HeartbeatStep, Observe, Snapshot, Attest, Replace, Recover, FailHeartbeat,
                  blobVars
    <3>2. QED BY <3>1, HeartbeatWrite
  <2>3. FeedTypeOK' /\ \A v \in Workers :
                 pc'[v] = pc[v] /\ UNCHANGED <<req[v], seen[v], at[v], snap[v]>>
    BY <1>4, HeartbeatTypeStep, ExecutionAssumption DEF OnlyMoves, Executions
  <2>4. QED BY <1>3, <2>1, <2>2, <2>3 DEF QuietFeed
<1>5. ASSUME NEW r \in Requests, ExpireMessage(r) PROVE SessionGoal
  <2>1. /\ UNCHANGED <<clock, current, index, committed, notified, pc, req, seen, at, snap>>
        /\ status' = [status EXCEPT ![r] = "expired"]
    BY <1>5 DEF ExpireMessage, blobVars, execVars, historyVars
  <2>2. FeedTypeOK'
    BY <2>1 DEF FeedTypeOK, LocalTypeOK
  <2>3. \A q \in Requests : status'[q] = "completed" => status[q] = "completed"
    BY <2>1 DEF SessionInv, SessionsOK
  <2>4. QED BY <1>3, <2>1, <2>2, <2>3 DEF QuietFeed
<1>6. CASE UNCHANGED vars
  <2>1. UNCHANGED <<clock, current, index, committed, notified, status, pc, req, seen, at,
                    snap>>
    BY <1>6 DEF vars, brokerVars, blobVars, execVars, historyVars
  <2>2. FeedTypeOK'
    BY <2>1 DEF FeedTypeOK, LocalTypeOK
  <2>3. QED BY <1>3, <2>1, <2>2 DEF QuietFeed
<1>7. QED BY <1>2, <1>4, <1>5, <1>6 DEF Next

\* Losses are only counted up.
LEMMA LossesGrow ==
    ASSUME [Next]_vars
    PROVE  lockLosses' = lockLosses \/ lockLosses' = lockLosses + 1
<1>1. ASSUME NEW w \in Workers, WorkerStep(w), ~LoseLock(w) PROVE UNCHANGED lockLosses
  BY <1>1 DEF WorkerStep, Receive, Reject, Fail, Reassess, ReadIndex, ReadCurrent, Upload,
              PublishPointer, PublishIndex, Enqueue, Complete, Settle, Release, Conclude,
              brokerVars
<1>2. ASSUME NEW h \in Heartbeats, HeartbeatStep(h) PROVE UNCHANGED lockLosses
  BY <1>2 DEF HeartbeatStep, Observe, Snapshot, Attest, Replace, Recover, FailHeartbeat,
              HeartbeatKeeps, brokerVars
<1>3. QED BY <1>1, <1>2 DEF Next, LoseLock, ExpireMessage, vars, brokerVars

\* As long as no session was lost while its holder ran on: executions of one
\* incident follow one another, and each finds the feed as the last one left it.
THEOREM SessionInvariance == Spec => [](lockLosses = 0 => SessionInv)
<1> DEFINE Counted == lockLosses \in Nat /\ (lockLosses = 0 => SessionInv)
<1>1. Init => VerdictInv
  BY DEF Init, VerdictInv, SeenOK, IndexFollowsReassessment, Active, Entry, Executions
<1>2. IInv /\ VerdictInv /\ [Next]_vars => VerdictInv'
  BY VerdictStep
<1>3. Init => Counted
  <2> SUFFICES ASSUME Init PROVE lockLosses \in Nat /\ SessionInv
    OBVIOUS
  <2>1. SessionsOK /\ \A w \in Workers : Undisturbed(w)
    BY DEF Init, SessionsOK, Undisturbed, Executions
  <2>2. lockLosses \in Nat /\ CommittedWasCurrent /\ Followed
        /\ \A i \in Incidents : CompletedAt(i)
    BY DEF Init, CommittedWasCurrent, Followed, CompletedAt
  <2>3. \A i \in Incidents : FeedInStep(i)
    BY DEF Init, FeedInStep, Entry
  <2>4. QED BY <2>1, <2>2, <2>3 DEF SessionInv
<1>4. IInv /\ VerdictInv /\ Counted /\ [Next]_vars => Counted'
  <2> SUFFICES ASSUME IInv, VerdictInv, Counted, [Next]_vars PROVE Counted'
    OBVIOUS
  <2>1. lockLosses \in Nat /\ (lockLosses' = lockLosses \/ lockLosses' = lockLosses + 1)
    BY LossesGrow
  <2>2. lockLosses' \in Nat /\ (lockLosses' = 0 => lockLosses = 0)
    BY <2>1
  <2>3. lockLosses' = 0 => SessionInv'
    BY <2>2, SessionStep
  <2>4. QED BY <2>2, <2>3
<1>5. Counted => (lockLosses = 0 => SessionInv)
  OBVIOUS
<1> HIDE DEF Counted
<1>6. QED BY <1>1, <1>2, <1>3, <1>4, <1>5, FeedInvariance, PTL DEF Spec

\* As long as no session was lost, no notification of a state whose publication
\* never reached the index (run_incident_reassessment).
THEOREM NotificationsFollow == Spec => []NotificationFollowsPublication
<1>1. (lockLosses = 0 => SessionInv) => NotificationFollowsPublication
  BY DEF SessionInv, Followed, NotificationFollowsPublication
<1>2. QED BY <1>1, SessionInvariance, PTL

\* As long as no session was lost, no hint is completed while the state it published
\* is current and unnotified (run_incident_orchestrator_worker).
THEOREM CompletedAlwaysNotified == Spec => []CompletedMeansNotified
<1>1. (lockLosses = 0 => SessionInv) => CompletedMeansNotified
  BY DEF SessionInv, CompletedAt, CompletedMeansNotified
<1>2. QED BY <1>1, SessionInvariance, PTL

-----------------------------------------------------------------------------
(* Types, whatever sessions are lost *)

\* The queue: a hint whose deliveries are used up is settled, a session has one
\* holder, and a holder's hint is unsettled.
QueueOK ==
    /\ lockLosses \in Nat
    /\ status \in [Requests -> {"queued"} \cup Settled]
    /\ deliveries \in [Requests -> 0 .. MaxDeliveryCount]
    /\ locked \in [Workers -> BOOLEAN]
    /\ \A r \in Requests : status[r] = "queued" => deliveries[r] < MaxDeliveryCount
    /\ \A w \in Workers : locked[w] => pc[w] # "idle" /\ status[req[w]] = "queued"
    /\ \A v, w \in Workers : locked[v] /\ locked[w] /\ I(v) = I(w) => v = w

\* What a worker holds fits where it is.
HoldsOK(w) ==
    /\ pc[w] \in WorkerPCs
    /\ pc[w] = "idle" <=> req[w] = NoRequest
    /\ pc[w] \in {"idle", "received"} => seen[w] \in [{} -> BOOLEAN]

\* So does what a heartbeat holds; it begins three attempts at most.
BeatOK(h) ==
    /\ pc[h] \in HeartbeatPCs
    /\ pc[h] \notin {"ready", "done"} => seen[h] \in [Incidents -> BOOLEAN]
    /\ attempt[h] \in 0 .. 3
    /\ pc[h] \in {"ready", "snapshot"} => attempt[h] < 3

\* Blobs, notifications and the history.
StoredOK ==
    /\ assets \subseteq (Kinds \X Pointers) \cup ({"indexAttestation"} \X Indexes)
    /\ notified \subseteq Requests \X Lifecycles
    /\ committed \subseteq Pointers

TypeInv ==
    /\ QueueOK /\ StoredOK
    /\ \A w \in Workers : HoldsOK(w)
    /\ attempt \in [Heartbeats -> Nat]
    /\ \A h \in Heartbeats : BeatOK(h)

\* A worker that loses or gives up its session: the broker settles the hint or
\* takes it back, if the lock was still honoured.
GivesUp(w) ==
    /\ locked' = [locked EXCEPT ![w] = FALSE]
    /\ \/ ~locked[w] /\ UNCHANGED <<status, deliveries>>
       \/ /\ locked[w]
          /\ \E s \in {"queued"} \cup Settled, n \in 0 .. MaxDeliveryCount :
               /\ status' = [status EXCEPT ![req[w]] = s]
               /\ deliveries' = [deliveries EXCEPT ![req[w]] = n]
               /\ s = "queued" => n < MaxDeliveryCount

LEMMA TakesBack ==
    ASSUME QueueOK, LocalTypeOK, NEW w \in Workers, locked[w], TakeBack(w),
           locked' = [locked EXCEPT ![w] = FALSE]
    PROVE  GivesUp(w)
<1>1. req[w] \in Requests /\ status[req[w]] = "queued"
  BY DEF QueueOK, LocalTypeOK
<1> DEFINE n == deliveries[req[w]] + 1
           s == IF n >= MaxDeliveryCount THEN "exhausted" ELSE "queued"
<1>2. n \in 0 .. MaxDeliveryCount /\ (s = "queued" => n < MaxDeliveryCount)
  BY <1>1, DeliveryCountAssumption DEF QueueOK
<1>3. deliveries' = [deliveries EXCEPT ![req[w]] = n]
  BY DEF TakeBack
<1>4. status' = [status EXCEPT ![req[w]] = s]
  BY <1>1 DEF TakeBack, QueueOK
<1>5. s \in {"queued"} \cup Settled
  BY DEF Settled
<1> HIDE DEF n, s
<1>6. QED BY <1>2, <1>3, <1>4, <1>5 DEF GivesUp

LEMMA GivesUpQueue ==
    ASSUME QueueOK, LocalTypeOK, NEW w \in Workers, GivesUp(w), lockLosses' \in Nat,
           \A v \in Workers \ {w} : pc'[v] = pc[v] /\ req'[v] = req[v]
    PROVE  QueueOK'
<1>1. /\ locked' \in [Workers -> BOOLEAN] /\ ~locked'[w]
      /\ \A v \in Workers \ {w} : locked'[v] = locked[v]
  BY DEF GivesUp, QueueOK
<1>2. \A u, v \in Workers : locked'[u] /\ locked'[v] /\ I(u)' = I(v)' => u = v
  BY <1>1 DEF QueueOK, I
<1>3. CASE ~locked[w]
  <2>1. UNCHANGED <<status, deliveries>>
    BY <1>3 DEF GivesUp
  <2>2. QED BY <1>1, <1>2, <2>1 DEF QueueOK
<1>4. CASE locked[w]
  <2>1. PICK s \in {"queued"} \cup Settled, n \in 0 .. MaxDeliveryCount :
          /\ status' = [status EXCEPT ![req[w]] = s]
          /\ deliveries' = [deliveries EXCEPT ![req[w]] = n]
          /\ s = "queued" => n < MaxDeliveryCount
    BY <1>4 DEF GivesUp
  <2>2. req[w] \in Requests
    BY <1>4 DEF QueueOK, LocalTypeOK
  <2>3. \A v \in Workers \ {w} : locked[v] => req[v] \in Requests /\ req[v] # req[w]
    BY <1>4 DEF QueueOK, LocalTypeOK, I
  <2>4. /\ status' \in [Requests -> {"queued"} \cup Settled]
        /\ deliveries' \in [Requests -> 0 .. MaxDeliveryCount]
        /\ \A r \in Requests : status'[r] = IF r = req[w] THEN s ELSE status[r]
        /\ \A r \in Requests : deliveries'[r] = IF r = req[w] THEN n ELSE deliveries[r]
    BY <2>1, <2>2 DEF QueueOK
  <2>5. \A r \in Requests : status'[r] = "queued" => deliveries'[r] < MaxDeliveryCount
    BY <2>1, <2>4 DEF QueueOK
  <2>6. \A v \in Workers : locked'[v] => pc'[v] # "idle" /\ status'[req'[v]] = "queued"
    BY <1>1, <2>3, <2>4 DEF QueueOK
  <2>7. QED BY <1>1, <1>2, <2>4, <2>5, <2>6 DEF QueueOK
<1>5. QED BY <1>3, <1>4

LEMMA ReleaseGivesUp ==
    ASSUME QueueOK, LocalTypeOK, NEW w \in Workers, Release(w)
    PROVE  Finish(w) /\ GivesUp(w) /\ UNCHANGED lockLosses
<1>1. Finish(w) /\ UNCHANGED lockLosses /\ locked' = [locked EXCEPT ![w] = FALSE]
  BY DEF Release, Finish
<1>2. CASE locked[w]
  BY <1>1, <1>2, TakesBack DEF Release
<1>3. CASE ~locked[w]
  BY <1>1, <1>3 DEF Release, GivesUp
<1>4. QED BY <1>1, <1>2, <1>3

LEMMA SettleGivesUp ==
    ASSUME QueueOK, LocalTypeOK, NEW w \in Workers, NEW s \in Settled, Settle(w, s)
    PROVE  Finish(w) /\ GivesUp(w) /\ UNCHANGED lockLosses
<1>1. Finish(w) /\ UNCHANGED lockLosses /\ locked' = [locked EXCEPT ![w] = FALSE]
  BY DEF Settle, Finish
<1>2. CASE locked[w]
  <2>1. req[w] \in Requests
    BY <1>2 DEF QueueOK, LocalTypeOK
  <2>2. PICK n \in 0 .. MaxDeliveryCount : n = deliveries[req[w]]
    BY <2>1 DEF QueueOK
  <2>3. deliveries' = [deliveries EXCEPT ![req[w]] = n] /\ status' = [status EXCEPT ![req[w]] = s]
    BY <1>2, <2>1, <2>2 DEF Settle, QueueOK
  <2>4. s # "queued"
    BY DEF Settled
  <2>5. QED BY <1>1, <1>2, <2>2, <2>3, <2>4 DEF GivesUp
<1>3. CASE ~locked[w]
  BY <1>1, <1>3 DEF Settle, GivesUp
<1>4. QED BY <1>1, <1>2, <1>3

\* A worker that goes on with its hint.
GoesAhead(w) ==
    /\ UNCHANGED <<req, locked, status, deliveries, lockLosses>>
    /\ pc[w] # "idle" /\ pc'[w] \in WorkerPCs \ {"idle", "received"}

\* What a worker's step does to its session.
LEMMA WorkerMoves ==
    ASSUME IInv, QueueOK, NEW w \in Workers, WorkerStep(w)
    PROVE  \/ Receive(w) \/ LoseLock(w) \/ GoesAhead(w)
           \/ Finish(w) /\ GivesUp(w) /\ UNCHANGED lockLosses
<1> w \in Executions /\ LocalTypeOK
  BY DEF Executions, IInv, FeedTypeOK
<1>1. ASSUME NEW label \in WorkerPCs \ {"idle", "received"}, Goto(w, label), pc[w] # "idle",
             UNCHANGED <<req, locked, brokerVars>>
      PROVE  GoesAhead(w)
  BY <1>1 DEF Goto, GoesAhead, LocalTypeOK, brokerVars
<1>2. {"observed", "reconciling", "uploading", "pointing", "indexing", "enqueueing", "completing"}
        \subseteq WorkerPCs \ {"idle", "received"}
  BY DEF WorkerPCs
<1>3. ASSUME NEW label \in WorkerPCs \ {"idle", "received"}, Conclude(w, label), pc[w] # "idle"
      PROVE  GoesAhead(w)
  BY <1>1, <1>3 DEF Conclude
<1>4. CASE Reject(w)
  BY <1>4, SettleGivesUp DEF Reject, Settled
<1>5. CASE Complete(w)
  BY <1>5, SettleGivesUp DEF Complete, Settled
<1>6. CASE Fail(w)
  BY <1>6, ReleaseGivesUp DEF Fail
<1>7. CASE Reassess(w) \/ Enqueue(w) \/ ReadIndex(w)
  <2>1. /\ pc[w] # "idle" /\ UNCHANGED <<req, locked, brokerVars>>
        /\ \/ Goto(w, "observed") \/ Goto(w, "completing")
           \/ Goto(w, "reconciling") \/ Goto(w, "uploading")
    BY <1>7 DEF Reassess, Enqueue, ReadIndex
  <2>2. QED BY <1>1, <1>2, <2>1
<1>8. CASE ReadCurrent(w)
  <2>1. /\ pc[w] # "idle"
        /\ Conclude(w, "completing") \/ Conclude(w, "enqueueing") \/ Release(w)
    BY <1>8 DEF ReadCurrent
  <2>2. QED BY <1>2, <1>3, <2>1, ReleaseGivesUp
<1>9. CASE Upload(w) \/ PublishPointer(w)
  <2>1. /\ pc[w] # "idle"
        /\ \/ Release(w)
           \/ (Goto(w, "pointing") \/ Goto(w, "indexing")) /\ UNCHANGED <<req, locked, brokerVars>>
    BY <1>9 DEF Upload, PublishPointer
  <2>2. QED BY <1>1, <1>2, <2>1, ReleaseGivesUp
<1>10. CASE PublishIndex(w)
  <2>1. pc[w] # "idle" /\ (Conclude(w, "enqueueing") \/ Release(w))
    BY <1>10 DEF PublishIndex
  <2>2. QED BY <1>2, <1>3, <2>1, ReleaseGivesUp
<1>11. QED BY <1>4, <1>5, <1>6, <1>7, <1>8, <1>9, <1>10 DEF WorkerStep

\* The session after a worker's step, and what the worker holds.
LEMMA WorkerQueue ==
    ASSUME IInv, QueueOK, NEW w \in Workers, HoldsOK(w), WorkerStep(w)
    PROVE  QueueOK' /\ HoldsOK(w)'
<1> w \in Executions /\ FeedTypeOK /\ LocalTypeOK
  BY DEF Executions, IInv, FeedTypeOK
<1>1. \A v \in Workers \ {w} : pc'[v] = pc[v] /\ req'[v] = req[v]
  BY WorkerTypeStep DEF OnlyMoves, Executions
<1>2. CASE Receive(w)
  <2>1. PICK r \in Requests :
          /\ status[r] = "queued"
          /\ \A v \in Workers : locked[v] => incidentOf[req[v]] # incidentOf[r]
          /\ req' = [req EXCEPT ![w] = r]
    BY <1>2 DEF Receive
  <2>2. /\ UNCHANGED <<status, deliveries, lockLosses>> /\ seen' = seen
        /\ pc[w] = "idle" /\ pc'[w] = "received" /\ req'[w] = r
        /\ locked' = [locked EXCEPT ![w] = TRUE]
    BY <1>2, <2>1 DEF Receive, Goto, brokerVars, LocalTypeOK
  <2>3. /\ locked' \in [Workers -> BOOLEAN] /\ locked'[w]
        /\ \A v \in Workers \ {w} : locked'[v] = locked[v]
    BY <2>2 DEF QueueOK
  <2>4. \A v \in Workers \ {w} : locked[v] => I(v)' # I(w)'
    BY <1>1, <2>1, <2>2 DEF I
  <2>5. \A u, v \in Workers : locked'[u] /\ locked'[v] /\ I(u)' = I(v)' => u = v
    BY <1>1, <2>3, <2>4 DEF QueueOK, I
  <2>6. QueueOK'
    BY <1>1, <2>1, <2>2, <2>3, <2>5 DEF QueueOK
  <2>7. HoldsOK(w)'
    BY <2>2, RequestAssumption DEF HoldsOK, WorkerPCs
  <2>8. QED BY <2>6, <2>7
<1>3. CASE LoseLock(w)
  <2>1. /\ lockLosses' = lockLosses + 1 /\ UNCHANGED <<pc, req, seen>>
        /\ locked[w] /\ TakeBack(w) /\ locked' = [locked EXCEPT ![w] = FALSE]
    BY <1>3 DEF LoseLock
  <2>2. lockLosses' \in Nat
    BY <2>1 DEF QueueOK
  <2>3. GivesUp(w)
    BY <2>1, TakesBack
  <2>4. QueueOK'
    BY <1>1, <2>2, <2>3, GivesUpQueue
  <2>5. QED BY <2>1, <2>4 DEF HoldsOK
<1>4. CASE Finish(w) /\ GivesUp(w) /\ UNCHANGED lockLosses
  <2>1. QueueOK'
    BY <1>1, <1>4, GivesUpQueue DEF QueueOK
  <2>2. pc'[w] = "idle" /\ req'[w] = NoRequest /\ seen'[w] = [i \in {} |-> TRUE]
    BY <1>4 DEF Finish, LocalTypeOK
  <2>3. [i \in {} |-> TRUE] \in [{} -> BOOLEAN]
    OBVIOUS
  <2>4. QED BY <2>1, <2>2, <2>3 DEF HoldsOK, WorkerPCs
<1>5. CASE GoesAhead(w)
  <2>1. UNCHANGED <<req, locked, status, deliveries, lockLosses>>
    BY <1>5 DEF GoesAhead
  <2>2. \A v \in Workers : I(v)' = I(v)
    BY <2>1 DEF I
  <2>3. pc[w] # "idle" /\ pc'[w] \in WorkerPCs /\ pc'[w] \notin {"idle", "received"}
    BY <1>5 DEF GoesAhead
  <2>4. QueueOK'
    BY <1>1, <2>1, <2>2, <2>3 DEF QueueOK
  <2>5. HoldsOK(w)'
    BY <2>1, <2>3 DEF HoldsOK
  <2>6. QED BY <2>4, <2>5
<1>6. QED BY <1>2, <1>3, <1>4, <1>5, WorkerMoves

\* A step of another execution leaves alone what a worker or a heartbeat holds.
LEMMA OthersHold ==
    ASSUME NEW e \in Executions, OnlyMoves(e)
    PROVE  /\ \A w \in Workers \ {e} : HoldsOK(w) => HoldsOK(w)'
           /\ \A h \in Heartbeats \ {e} : BeatOK(h) /\ attempt'[h] = attempt[h] => BeatOK(h)'
<1>1. \A w \in Workers \ {e} : pc'[w] = pc[w] /\ seen'[w] = seen[w] /\ req'[w] = req[w]
  BY DEF OnlyMoves, Executions
<1>2. \A h \in Heartbeats \ {e} : pc'[h] = pc[h] /\ seen'[h] = seen[h]
  BY DEF OnlyMoves, Executions
<1>3. QED BY <1>1, <1>2 DEF HoldsOK, BeatOK

\* What a worker writes.
LEMMA WorkerStores ==
    ASSUME IInv, StoredOK, NEW w \in Workers, WorkerStep(w)
    PROVE  StoredOK' /\ attempt' = attempt
<1>0. FeedTypeOK /\ (pc[w] # "idle" => req[w] \in Requests)
  BY DEF IInv, FeedTypeOK, LocalTypeOK
<1>1. attempt' = attempt
  BY DEF WorkerStep, Receive, LoseLock, Reject, Fail, Reassess, ReadIndex, ReadCurrent, Upload,
         PublishPointer, PublishIndex, Enqueue, Complete, Settle, Release, Finish, Conclude
<1> SUFFICES StoredOK'
  BY <1>1
<1>2. ASSUME UNCHANGED <<assets, notified, committed>> PROVE StoredOK'
  BY <1>2 DEF StoredOK
<1>3. CASE Upload(w)
  <2>1. pc[w] # "idle" /\ UNCHANGED <<notified, committed>>
    BY <1>3 DEF Upload, historyVars
  <2>2. PointerOf(w) \in Pointers /\ IndexOf(w) \in Indexes
    BY <1>0, <2>1, PublicationBuilt
  <2>3. assets' \subseteq assets \cup {<<"state", PointerOf(w)>>, <<"pointer", PointerOf(w)>>,
                                       <<"indexAttestation", IndexOf(w)>>}
    BY <1>3 DEF Upload, Uploaded
  <2>4. {<<"state", PointerOf(w)>>, <<"pointer", PointerOf(w)>>, <<"indexAttestation", IndexOf(w)>>}
          \subseteq (Kinds \X Pointers) \cup ({"indexAttestation"} \X Indexes)
    BY <2>2 DEF Kinds
  <2>5. QED BY <2>1, <2>3, <2>4 DEF StoredOK
<1>4. CASE PublishIndex(w)
  <2>1. pc[w] # "idle" /\ UNCHANGED <<assets, notified>>
    BY <1>4 DEF PublishIndex
  <2>2. committed' \subseteq committed \cup {PointerOf(w)}
    BY <1>4 DEF PublishIndex, historyVars
  <2>3. QED BY <1>0, <2>1, <2>2, PublicationBuilt DEF StoredOK
<1>5. CASE Enqueue(w)
  <2>1. pc[w] # "idle" /\ UNCHANGED <<assets, committed>>
        /\ notified' = notified \cup {<<req[w], Lifecycle(w)>>}
    BY <1>5 DEF Enqueue, blobVars, historyVars
  <2>2. Lifecycle(w) \in Lifecycles
    BY DEF Lifecycle, Lifecycles
  <2>3. QED BY <1>0, <2>1, <2>2 DEF StoredOK
<1>6. CASE \/ Receive(w) \/ LoseLock(w) \/ Reject(w) \/ Fail(w) \/ Reassess(w) \/ ReadIndex(w)
           \/ ReadCurrent(w) \/ PublishPointer(w) \/ Complete(w)
  BY <1>2, <1>6 DEF Receive, LoseLock, Reject, Fail, Reassess, ReadIndex, ReadCurrent,
                    PublishPointer, Complete, blobVars, historyVars
<1>7. QED BY <1>3, <1>4, <1>5, <1>6 DEF WorkerStep

\* What a heartbeat holds and writes.
LEMMA HeartbeatHolds ==
    ASSUME IInv, StoredOK, attempt \in [Heartbeats -> Nat], NEW h \in Heartbeats, BeatOK(h),
           HeartbeatStep(h)
    PROVE  /\ StoredOK' /\ BeatOK(h)' /\ attempt' \in [Heartbeats -> Nat]
           /\ \A g \in Heartbeats \ {h} : attempt'[g] = attempt[g]
<1> h \in Executions /\ FeedTypeOK /\ LocalTypeOK
  BY DEF Executions, IInv, FeedTypeOK
<1>1. UNCHANGED <<notified, committed>>
  BY DEF HeartbeatStep, Observe, Snapshot, Attest, Replace, Recover, FailHeartbeat,
         HeartbeatKeeps, historyVars
<1>2. StoredOK'
  <2>1. UNCHANGED assets \/ assets' = assets \cup {<<"indexAttestation", Refreshed(h)>>}
    BY DEF HeartbeatStep, Observe, Snapshot, Attest, Replace, Recover, FailHeartbeat,
           Uploaded, blobVars
  <2>2. QED BY <1>1, <2>1, RefreshBuilt DEF StoredOK
<1>3. ASSUME Stop(h)
      PROVE  /\ BeatOK(h)' /\ attempt' \in [Heartbeats -> Nat]
             /\ \A g \in Heartbeats \ {h} : attempt'[g] = attempt[g]
  BY <1>3 DEF Stop, Goto, BeatOK, HeartbeatPCs, LocalTypeOK
<1>4. ASSUME UNCHANGED <<seen, attempt>>, pc[h] \notin {"ready", "done"},
             \/ Goto(h, "replacing") \/ Goto(h, "recovering")
             \/ Goto(h, "snapshot") /\ attempt[h] < 3
      PROVE  /\ BeatOK(h)' /\ attempt' \in [Heartbeats -> Nat]
             /\ \A g \in Heartbeats \ {h} : attempt'[g] = attempt[g]
  BY <1>4 DEF Goto, BeatOK, HeartbeatPCs, LocalTypeOK
<1>5. CASE Observe(h)
  <2>1. PICK signals \in [Incidents -> BOOLEAN] : seen' = [seen EXCEPT ![h] = signals]
    BY <1>5 DEF Observe
  <2>2. seen'[h] = signals /\ pc'[h] = "snapshot" /\ pc[h] = "ready" /\ attempt' = attempt
    BY <1>5, <2>1 DEF Observe, Goto, LocalTypeOK
  <2>3. QED BY <1>2, <2>2 DEF BeatOK, HeartbeatPCs
<1>6. CASE Snapshot(h)
  <2>1. CASE Stop(h)
    BY <1>2, <1>3, <2>1
  <2>2. CASE ~Stop(h)
    <3>1. /\ attempt' = [attempt EXCEPT ![h] = @ + 1] /\ Goto(h, "attesting")
          /\ UNCHANGED seen /\ pc[h] = "snapshot"
      BY <1>6, <2>2 DEF Snapshot
    <3>2. /\ attempt' \in [Heartbeats -> Nat] /\ attempt'[h] = attempt[h] + 1 /\ pc'[h] = "attesting"
          /\ \A g \in Heartbeats \ {h} : attempt'[g] = attempt[g]
      BY <3>1 DEF Goto, LocalTypeOK
    <3>3. BeatOK(h)'
      BY <3>1, <3>2 DEF BeatOK, HeartbeatPCs
    <3>4. QED BY <1>2, <3>2, <3>3
  <2>3. QED BY <2>1, <2>2
<1>7. CASE Attest(h) \/ Replace(h) \/ Recover(h)
  <2>1. CASE Stop(h)
    BY <1>2, <1>3, <2>1
  <2>2. CASE ~Stop(h)
    <3>1. /\ UNCHANGED <<seen, attempt>> /\ pc[h] \notin {"ready", "done"}
          /\ \/ Goto(h, "replacing") \/ Goto(h, "recovering")
             \/ Goto(h, "snapshot") /\ attempt[h] < 3
      BY <1>7, <2>2 DEF Attest, Replace, Recover
    <3>2. QED BY <1>2, <1>4, <3>1
  <2>3. QED BY <2>1, <2>2
<1>8. CASE FailHeartbeat(h)
  BY <1>2, <1>3, <1>8 DEF FailHeartbeat
<1>9. QED BY <1>5, <1>6, <1>7, <1>8 DEF HeartbeatStep

LEMMA TypesInit == Init => TypeInv
<1> SUFFICES ASSUME Init PROVE TypeInv
  OBVIOUS
<1>1. QueueOK
  BY DeliveryCountAssumption DEF Init, QueueOK
<1>2. StoredOK
  BY DEF Init, StoredOK
<1>3. ASSUME NEW w \in Workers PROVE HoldsOK(w)
  <2>1. pc[w] = "idle" /\ req[w] = NoRequest /\ seen[w] = [i \in {} |-> TRUE]
    BY DEF Init, Executions
  <2>2. [i \in {} |-> TRUE] \in [{} -> BOOLEAN]
    OBVIOUS
  <2>3. QED BY <2>1, <2>2 DEF HoldsOK, WorkerPCs
<1>4. ASSUME NEW h \in Heartbeats PROVE BeatOK(h)
  <2>1. pc[h] = "ready" /\ attempt[h] = 0
    BY ExecutionAssumption DEF Init, Executions
  <2>2. QED BY <2>1 DEF BeatOK, HeartbeatPCs
<1>5. attempt \in [Heartbeats -> Nat]
  BY DEF Init
<1>6. QED BY <1>1, <1>2, <1>3, <1>4, <1>5 DEF TypeInv

LEMMA TypesStep == IInv /\ TypeInv /\ [Next]_vars => TypeInv'
<1> SUFFICES ASSUME IInv, TypeInv, [Next]_vars PROVE TypeInv'
  OBVIOUS
<1>0. FeedTypeOK /\ QueueOK /\ StoredOK /\ attempt \in [Heartbeats -> Nat]
      /\ (\A w \in Workers : HoldsOK(w)) /\ (\A h \in Heartbeats : BeatOK(h))
  BY DEF IInv, TypeInv
<1>1. ASSUME NEW w \in Workers, WorkerStep(w) PROVE TypeInv'
  <2>1. w \in Executions /\ w \notin Heartbeats /\ OnlyMoves(w)
    BY <1>0, <1>1, WorkerTypeStep, ExecutionAssumption DEF Executions
  <2>2. QueueOK' /\ HoldsOK(w)' /\ StoredOK' /\ attempt' = attempt
    BY <1>0, <1>1, WorkerQueue, WorkerStores
  <2>3. \A v \in Workers : HoldsOK(v)'
    BY <1>0, <2>1, <2>2, OthersHold
  <2>4. \A h \in Heartbeats : BeatOK(h)'
    BY <1>0, <2>1, <2>2, OthersHold
  <2>5. QED BY <1>0, <2>2, <2>3, <2>4 DEF TypeInv
<1>2. ASSUME NEW h \in Heartbeats, HeartbeatStep(h) PROVE TypeInv'
  <2>1. h \in Executions /\ h \notin Workers /\ OnlyMoves(h)
    BY <1>0, <1>2, HeartbeatTypeStep, ExecutionAssumption DEF Executions
  <2>2. /\ StoredOK' /\ BeatOK(h)' /\ attempt' \in [Heartbeats -> Nat]
        /\ \A g \in Heartbeats \ {h} : attempt'[g] = attempt[g]
    BY <1>0, <1>2, HeartbeatHolds
  <2>3. \A v \in Workers : HoldsOK(v)'
    BY <1>0, <2>1, OthersHold
  <2>4. \A g \in Heartbeats : BeatOK(g)'
    BY <1>0, <2>1, <2>2, OthersHold
  <2>5. UNCHANGED <<req, locked, status, deliveries, lockLosses>>
    BY <1>2 DEF HeartbeatStep, Observe, Snapshot, Attest, Replace, Recover, FailHeartbeat,
                HeartbeatKeeps, brokerVars
  <2>6. \A w \in Workers : pc'[w] = pc[w]
    BY <2>1 DEF OnlyMoves, Executions
  <2>7. QueueOK'
    BY <1>0, <2>5, <2>6 DEF QueueOK, I
  <2>8. QED BY <2>2, <2>3, <2>4, <2>7 DEF TypeInv
<1>3. ASSUME NEW r \in Requests, ExpireMessage(r) PROVE TypeInv'
  <2>1. /\ status' = [status EXCEPT ![r] = "expired"]
        /\ \A w \in Workers : locked[w] => req[w] # r
        /\ UNCHANGED <<deliveries, lockLosses, assets, notified, committed>>
        /\ UNCHANGED <<pc, req, locked, seen, attempt>>
    BY <1>3 DEF ExpireMessage, blobVars, execVars, historyVars
  <2>2. /\ status' \in [Requests -> {"queued"} \cup Settled]
        /\ \A q \in Requests : status'[q] = IF q = r THEN "expired" ELSE status[q]
    BY <1>0, <2>1 DEF QueueOK, Settled
  <2>3. \A w \in Workers : locked[w] => req[w] \in Requests
    BY <1>0 DEF QueueOK, FeedTypeOK, LocalTypeOK
  <2>4. QueueOK'
    BY <1>0, <2>1, <2>2, <2>3 DEF QueueOK, I
  <2>5. QED BY <1>0, <2>1, <2>4 DEF TypeInv, StoredOK, HoldsOK, BeatOK
<1>4. CASE UNCHANGED vars
  <2>1. /\ UNCHANGED <<status, deliveries, lockLosses, assets, notified, committed>>
        /\ UNCHANGED <<pc, req, locked, seen, attempt>>
    BY <1>4 DEF vars, brokerVars, blobVars, execVars, historyVars
  <2>2. QED BY <1>0, <2>1 DEF TypeInv, QueueOK, StoredOK, HoldsOK, BeatOK, I
<1>5. QED BY <1>1, <1>2, <1>3, <1>4 DEF Next

\* Every variable keeps its type and what an execution holds fits where it is: a
\* worker has the health of its own hint's resource, whoever holds a session has an
\* unsettled hint, and no heartbeat begins a fourth attempt
\* (run_incident_reassessment, run_active_incident_index_heartbeat).
THEOREM TypeCorrect == Spec => []TypeOK
<1>1. IInv /\ VerdictInv /\ TypeInv => TypeOK
  <2> SUFFICES ASSUME IInv, VerdictInv, TypeInv PROVE TypeOK
    OBVIOUS
  <2>1. FeedTypeOK /\ LocalTypeOK /\ QueueOK /\ StoredOK
    BY DEF IInv, FeedTypeOK, TypeInv
  <2>2. attempt \in [Heartbeats -> 0 .. 3]
    <3>1. \A h \in Heartbeats : attempt[h] \in 0 .. 3
      BY DEF TypeInv, BeatOK
    <3>2. QED BY <3>1 DEF TypeInv
  <2>3. ASSUME NEW w \in Workers
        PROVE  /\ pc[w] \in WorkerPCs /\ (pc[w] = "idle" <=> req[w] = NoRequest)
               /\ locked[w] => pc[w] # "idle" /\ status[req[w]] = "queued"
               /\ seen[w] \in IF pc[w] \in {"idle", "received"} THEN [{} -> BOOLEAN]
                              ELSE [{I(w)} -> BOOLEAN]
    BY <2>1 DEF TypeInv, VerdictInv, HoldsOK, SeenOK, QueueOK
  <2>4. \A h \in Heartbeats : pc[h] \in HeartbeatPCs
          /\ (pc[h] \notin {"ready", "done"} => seen[h] \in [Incidents -> BOOLEAN])
    BY DEF TypeInv, BeatOK
  <2>5. DOMAIN pc = Executions /\ DOMAIN seen = Executions
    BY <2>1 DEF LocalTypeOK
  <2>6. QED
    BY <2>1, <2>2, <2>3, <2>4, <2>5
    DEF TypeOK, FeedTypeOK, LocalTypeOK, QueueOK, StoredOK, VerdictInv
<1>2. Spec => []TypeInv
  BY TypesInit, TypesStep, FeedInvariance, PTL DEF Spec
<1>3. QED BY <1>1, <1>2, VerdictInvariance, FeedInvariance, PTL

=============================================================================
