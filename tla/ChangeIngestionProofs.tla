------------------------ MODULE ChangeIngestionProofs -----------------------
(***************************************************************************)
(* Change ingestion persists what it settles, for any number of overlapping *)
(* executions, messages, records, failures and key versions.                *)
(*                                                                         *)
(* Blobs are created once and never change.  So the version an execution   *)
(* holds, between the two creations of persist_change_evidence, is the     *)
(* artifact's only version, and so is the one any handoff pins: executions *)
(* of the same record cannot disagree.  What an execution still has to     *)
(* persist, together with the handoffs that exist, is the whole message at *)
(* every step, hence when it completes the message.                        *)
(***************************************************************************)
EXTENDS ChangeIngestion, FiniteSetTheorems, TLAPS

\* An execution between its start and its end.
Execution ==
    [pc : {"recover_handoff", "recover_artifact", "create_artifact", "complete"},
     message : Messages \cup {NoMessage}, received : 0 .. MaxNow, key : 1 .. MaxKey,
     rejected : BOOLEAN, rows : SUBSET GraphRows, items : Seq(Records)]

\* The same at any step.
Started ==
    [pc : Steps,
     message : Messages \cup {NoMessage}, received : 0 .. MaxNow, key : 1 .. MaxKey,
     rejected : BOOLEAN, rows : SUBSET GraphRows, items : Seq(Records)]

\* An execution that knows the artifact its handoff is going to pin.
PinningExecution ==
    [pc : {"create_handoff"},
     message : Messages \cup {NoMessage}, received : 0 .. MaxNow, key : 1 .. MaxKey,
     rejected : BOOLEAN, rows : SUBSET GraphRows, items : Seq(Records), pin : Versions]

\* What an execution has still to persist was normalized.
ItemsNormal(w) ==
    \A i \in DOMAIN w.items :
        Fresh(w.items[i], w.received) /\ (w.items[i] \in GraphRows => w.items[i] \in w.rows)

\* It has items as long as it persists, and completes a message without any.
ItemsLast(w) ==
    /\ w.pc = "complete" => w.items = <<>> /\ w.message \in Messages
    /\ w.pc # "complete" => w.items # <<>>
    /\ w.rejected => w.items = <<>>

\* Its items and the handoffs in hand are all the records of its message.
ItemsCover(w, hand) ==
    w.message \in Messages /\ ~ w.rejected =>
        \A j \in DOMAIN Batch[w.message] :
            \/ hand[Batch[w.message][j]] # NoHandoff
            \/ \E i \in DOMAIN w.items : w.items[i] = Batch[w.message][j]

\* The version it is going to pin is the artifact's only one in art.
PinIsArtifact(w, art) == w.pc = "create_handoff" => art[Head(w.items)] = <<w.pin>>

ExecutionOK(w, art, hand) ==
    \/ w = Idle
    \/ /\ w \in Execution \cup PinningExecution
       /\ ItemsNormal(w)
       /\ ItemsLast(w)
       /\ ItemsCover(w, hand)
       /\ PinIsArtifact(w, art)

\* An artifact has one version, fresh and complete.
ArtifactOK(r, art) ==
    art[r] # <<>> =>
        \E v \in Versions :
            art[r] = <<v>> /\ Fresh(r, v.received) /\ (r \in GraphRows => v.detailed)

\* A handoff pins it.
HandoffOK(r, art, hand) == hand[r] # NoHandoff => art[r] = <<hand[r]>>

WorkersOK == \A x \in Workers : ExecutionOK(worker[x], artifact, handoff)
BlobsOK == \A r \in Records : ArtifactOK(r, artifact) /\ HandoffOK(r, artifact, handoff)

StateType ==
    /\ now \in 0 .. MaxNow /\ key \in 1 .. MaxKey /\ failures \in 0 .. MaxFailures
    /\ detailed \subseteq GraphRows
    /\ queue \in [Messages -> Places]
    /\ lock \in [Messages -> Workers \cup {NoWorker}]
    /\ deliveries \in [Messages -> 0 .. MaxDelivery]
    /\ artifact \in [Records -> Seq(Versions)]
    /\ handoff \in [Records -> Versions \cup {NoHandoff}]
    /\ receipts \subseteq Messages
    /\ purge \in Messages \cup {NoMessage}
    /\ worker \in [Workers -> {Idle} \cup Execution \cup PinningExecution]

\* A message that can be received has deliveries left, one whose lock is held is
\* locked, and the one the purge worker has in hand is dead-lettered and has its
\* receipt.
QueueOK ==
    /\ \A m \in Messages :
         /\ queue[m] \in {"unsent", "ready"} => deliveries[m] < MaxDelivery
         /\ queue[m] = "locked" <=> lock[m] # NoWorker
    /\ purge # NoMessage => purge \in receipts /\ queue[purge] = "dead"

\* The inductive invariant.
IInv == StateType /\ WorkersOK /\ BlobsOK /\ QueueOK /\ SettledIsAccounted

-----------------------------------------------------------------------------
(* Sequences and executions *)

\* The tail of a sequence has the other elements of it.
LEMMA TailElements ==
    ASSUME NEW S, NEW s \in Seq(S), s # <<>>
    PROVE  /\ Head(s) \in S /\ Tail(s) \in Seq(S)
           /\ \A i \in DOMAIN Tail(s) : \E j \in DOMAIN s : Tail(s)[i] = s[j]
           /\ \A j \in DOMAIN s : s[j] = Head(s) \/ \E i \in DOMAIN Tail(s) : Tail(s)[i] = s[j]
           /\ \E j \in DOMAIN s : s[j] = Head(s)
<1>1. Head(s) \in S /\ Tail(s) \in Seq(S) /\ Len(s) \in Nat \ {0} /\ Len(Tail(s)) = Len(s) - 1
      /\ DOMAIN s = 1 .. Len(s) /\ DOMAIN Tail(s) = 1 .. Len(Tail(s)) /\ Head(s) = s[1]
      /\ \A i \in 1 .. Len(Tail(s)) : Tail(s)[i] = s[i + 1]
  OBVIOUS
<1>2. \A i \in DOMAIN Tail(s) : i + 1 \in DOMAIN s
  BY <1>1
<1>3. \A j \in DOMAIN s : j # 1 => j - 1 \in DOMAIN Tail(s) /\ Tail(s)[j - 1] = s[j]
  BY <1>1
<1>4. \A i \in DOMAIN Tail(s) : \E j \in DOMAIN s : Tail(s)[i] = s[j]
  BY <1>1, <1>2
<1>5. \A j \in DOMAIN s : s[j] = Head(s) \/ \E i \in DOMAIN Tail(s) : Tail(s)[i] = s[j]
  BY <1>1, <1>3
<1>6. 1 \in DOMAIN s
  BY <1>1
<1>7. QED BY <1>1, <1>4, <1>5, <1>6

\* Blobs are only created: what is there stays as it is.
BlobsGrow(art, hand, art2, hand2) ==
    \A r \in Records :
        /\ art[r] # <<>> => art2[r] = art[r]
        /\ hand[r] # NoHandoff => hand2[r] = hand[r]

\* The blobs other executions create leave an execution as it is.
LEMMA ExecutionKeeps ==
    ASSUME NEW w, NEW art, NEW hand, NEW art2, NEW hand2,
           ExecutionOK(w, art, hand), BlobsGrow(art, hand, art2, hand2)
    PROVE  ExecutionOK(w, art2, hand2)
<1>1. CASE w = Idle
  BY <1>1 DEF ExecutionOK
<1>2. CASE w # Idle
  <2>1. w \in Execution \cup PinningExecution /\ ItemsNormal(w) /\ ItemsLast(w)
        /\ ItemsCover(w, hand) /\ PinIsArtifact(w, art)
    BY <1>2 DEF ExecutionOK
  <2>2. w.items \in Seq(Records)
    BY <2>1 DEF Execution, PinningExecution
  <2>3. ItemsCover(w, hand2)
    BY <2>1, IngestionAssumption DEF ItemsCover, BlobsGrow
  <2>4. PinIsArtifact(w, art2)
    <3>1. SUFFICES ASSUME w.pc = "create_handoff" PROVE art2[Head(w.items)] = <<w.pin>>
      BY DEF PinIsArtifact
    <3>2. w.items # <<>> /\ art[Head(w.items)] = <<w.pin>>
      BY <2>1, <3>1 DEF ItemsLast, PinIsArtifact
    <3>3. Head(w.items) \in Records
      BY <2>2, <3>2, TailElements
    <3>4. QED BY <3>2, <3>3 DEF BlobsGrow
  <2>5. QED BY <2>1, <2>3, <2>4 DEF ExecutionOK
<1>3. QED BY <1>1, <1>2

\* An execution goes on to its next item, to the completion of its message, or
\* to its end.
LEMMA ContinueOK ==
    ASSUME NEW w \in Started, NEW art, NEW hand,
           ItemsNormal(w), w.rejected => w.items = <<>>, ItemsCover(w, hand)
    PROVE  ExecutionOK(Continue(w), art, hand)
<1>1. CASE w.items # <<>>
  <2> DEFINE v == [w EXCEPT !.pc = "recover_handoff"]
  <2>1. Continue(w) = v
    BY <1>1 DEF Continue
  <2>2. v \in Execution /\ v.pc = "recover_handoff" /\ v.items = w.items /\ v.message = w.message
        /\ v.rejected = w.rejected /\ v.received = w.received /\ v.rows = w.rows
    BY DEF Execution, Started
  <2> HIDE DEF v
  <2>3. ItemsNormal(v) /\ ItemsLast(v) /\ ItemsCover(v, hand) /\ PinIsArtifact(v, art)
    BY <1>1, <2>2 DEF ItemsNormal, ItemsLast, ItemsCover, PinIsArtifact
  <2>4. QED BY <2>1, <2>2, <2>3 DEF ExecutionOK
<1>2. CASE w.items = <<>> /\ w.message = NoMessage
  BY <1>2 DEF Continue, ExecutionOK
<1>3. CASE w.items = <<>> /\ w.message # NoMessage
  <2> DEFINE v == [w EXCEPT !.pc = "complete"]
  <2>1. Continue(w) = v
    BY <1>3 DEF Continue
  <2>2. v \in Execution /\ v.pc = "complete" /\ v.items = w.items /\ v.message = w.message
        /\ v.rejected = w.rejected /\ v.received = w.received /\ v.rows = w.rows
        /\ w.message \in Messages
    BY <1>3 DEF Execution, Started
  <2> HIDE DEF v
  <2>3. ItemsNormal(v) /\ ItemsLast(v) /\ ItemsCover(v, hand) /\ PinIsArtifact(v, art)
    BY <1>3, <2>2 DEF ItemsNormal, ItemsLast, ItemsCover, PinIsArtifact
  <2>4. QED BY <2>1, <2>2, <2>3 DEF ExecutionOK
<1>4. QED BY <1>1, <1>2, <1>3

\* An item with a handoff is done with (the loop of _process_event_grid_message
\* and of run_resource_graph_change_collection_worker).
LEMMA DoneOK ==
    ASSUME NEW w \in Started, NEW art, NEW hand, w.items # <<>>,
           ItemsNormal(w), ~ w.rejected, ItemsCover(w, hand), hand[Head(w.items)] # NoHandoff
    PROVE  ExecutionOK(Done(w), art, hand)
<1> DEFINE v == [w EXCEPT !.items = Tail(w.items)]
<1>1. w.items \in Seq(Records)
  BY DEF Started
<1>2. Tail(w.items) \in Seq(Records)
  BY <1>1, TailElements
<1>3. v \in Started /\ v.items = Tail(w.items) /\ v.message = w.message
      /\ v.rejected = w.rejected /\ v.received = w.received /\ v.rows = w.rows
  BY <1>2 DEF Started
<1>4. Done(w) = Continue(v)
  BY DEF Done
<1> HIDE DEF v
<1>5. ItemsNormal(v)
  BY <1>1, <1>3, TailElements DEF ItemsNormal
<1>6. ItemsCover(v, hand)
  <2>1. SUFFICES ASSUME w.message \in Messages, NEW j \in DOMAIN Batch[w.message],
                        hand[Batch[w.message][j]] = NoHandoff
                 PROVE  \E i \in DOMAIN v.items : v.items[i] = Batch[w.message][j]
    BY <1>3 DEF ItemsCover
  <2>2. PICK k \in DOMAIN w.items : w.items[k] = Batch[w.message][j]
    BY <2>1 DEF ItemsCover
  <2>3. w.items[k] # Head(w.items)
    BY <2>1, <2>2
  <2>4. QED BY <1>1, <1>3, <2>2, <2>3, TailElements
<1>7. QED BY <1>3, <1>4, <1>5, <1>6, ContinueOK

-----------------------------------------------------------------------------
(* Steps of an execution that persists *)

\* An execution at a step of persist_change_evidence before the handoff.
LEMMA PersistingAt ==
    ASSUME IInv, NEW x \in Workers,
           worker[x].pc \in {"recover_handoff", "recover_artifact", "create_artifact"}
    PROVE  LET w == worker[x]
               r == Head(w.items)
           IN /\ w \in Execution /\ w.items \in Seq(Records) /\ w.items # <<>> /\ r \in Records
              /\ Fresh(r, w.received) /\ (r \in GraphRows => r \in w.rows)
              /\ ~ w.rejected /\ ItemsNormal(w) /\ ItemsCover(w, handoff)
<1> DEFINE w == worker[x]
<1>1. w # Idle /\ w \notin PinningExecution /\ w.pc # "complete"
  BY DEF Idle, PinningExecution
<1>2. w \in Execution /\ ItemsNormal(w) /\ ItemsLast(w) /\ ItemsCover(w, handoff)
  BY <1>1 DEF IInv, WorkersOK, ExecutionOK
<1>3. w.items \in Seq(Records) /\ w.items # <<>> /\ w.rejected \in BOOLEAN
  BY <1>1, <1>2 DEF Execution, ItemsLast
<1>4. ~ w.rejected
  BY <1>2, <1>3 DEF ItemsLast
<1>5. Head(w.items) \in Records /\ \E j \in DOMAIN w.items : w.items[j] = Head(w.items)
  BY <1>3, TailElements
<1>6. QED BY <1>2, <1>3, <1>4, <1>5 DEF ItemsNormal

\* The same where the handoff is created.
LEMMA PinningAt ==
    ASSUME IInv, NEW x \in Workers, worker[x].pc = "create_handoff"
    PROVE  LET w == worker[x]
               r == Head(w.items)
           IN /\ w \in PinningExecution /\ w.items \in Seq(Records) /\ w.items # <<>>
              /\ r \in Records /\ artifact[r] = <<w.pin>> /\ w.pin \in Versions
              /\ Unpinned(w) \in Started /\ Unpinned(w).items = w.items
              /\ ~ Unpinned(w).rejected /\ ItemsNormal(Unpinned(w))
              /\ ItemsCover(Unpinned(w), handoff)
<1> DEFINE w == worker[x]
<1>1. w # Idle /\ w \notin Execution /\ w.pc # "complete"
  BY DEF Idle, Execution
<1>2. w \in PinningExecution /\ ItemsNormal(w) /\ ItemsLast(w) /\ ItemsCover(w, handoff)
      /\ PinIsArtifact(w, artifact)
  BY <1>1 DEF IInv, WorkersOK, ExecutionOK
<1>3. w.items \in Seq(Records) /\ w.items # <<>> /\ w.rejected \in BOOLEAN /\ w.pin \in Versions
  BY <1>1, <1>2 DEF PinningExecution, ItemsLast
<1>4. ~ w.rejected
  BY <1>2, <1>3 DEF ItemsLast
<1>5. Head(w.items) \in Records
  BY <1>3, TailElements
<1>6. artifact[Head(w.items)] = <<w.pin>>
  BY <1>2 DEF PinIsArtifact
<1> DEFINE u == Unpinned(w)
<1>7. u \in Started
  BY <1>2 DEF Unpinned, Started, PinningExecution, Steps
<1>8. u.items = w.items /\ u.message = w.message /\ u.rejected = w.rejected
      /\ u.received = w.received /\ u.rows = w.rows
  BY DEF Unpinned
<1> HIDE DEF u
<1>9. ItemsNormal(u) /\ ItemsCover(u, handoff)
  BY <1>2, <1>8 DEF ItemsNormal, ItemsCover
<1>10. QED BY <1>2, <1>3, <1>4, <1>5, <1>6, <1>7, <1>8, <1>9 DEF u

\* A step of one execution leaves the others as they should be.
LEMMA WorkerStep ==
    ASSUME IInv, NEW x \in Workers, NEW w, Goto(x, w), ExecutionOK(w, artifact', handoff'),
           BlobsGrow(artifact, handoff, artifact', handoff')
    PROVE  WorkersOK' /\ worker' \in [Workers -> {Idle} \cup Execution \cup PinningExecution]
<1>1. w \in {Idle} \cup Execution \cup PinningExecution
  BY DEF ExecutionOK
<1>2. worker' = [worker EXCEPT ![x] = w]
      /\ worker \in [Workers -> {Idle} \cup Execution \cup PinningExecution]
  BY DEF Goto, IInv, StateType
<1>3. \A y \in Workers : worker'[y] = IF y = x THEN w ELSE worker[y]
  BY <1>2
<1>4. ASSUME NEW y \in Workers PROVE ExecutionOK(worker'[y], artifact', handoff')
  <2>1. ExecutionOK(worker[y], artifact, handoff)
    BY DEF IInv, WorkersOK
  <2>2. ExecutionOK(worker[y], artifact', handoff')
    BY <2>1, ExecutionKeeps
  <2>3. QED BY <1>3, <2>2
<1>5. WorkersOK'
  BY <1>4 DEF WorkersOK
<1>6. QED BY <1>1, <1>2, <1>5

\* A step of persist_change_evidence.
LEMMA PersistStep ==
    ASSUME IInv, NEW x \in Workers, NEW w, Goto(x, w), ExecutionOK(w, artifact', handoff'),
           BlobsGrow(artifact, handoff, artifact', handoff'), BlobsOK',
           artifact' \in [Records -> Seq(Versions)],
           handoff' \in [Records -> Versions \cup {NoHandoff}],
           UNCHANGED <<env, failures, queue, lock, deliveries, receipts, purge>>
    PROVE  IInv'
<1>1. WorkersOK' /\ worker' \in [Workers -> {Idle} \cup Execution \cup PinningExecution]
  BY WorkerStep
<1>2. StateType'
  BY <1>1 DEF IInv, StateType, env
<1>3. QueueOK'
  BY DEF IInv, QueueOK
<1>4. SettledIsAccounted'
  <2>1. \A m \in Messages : \A i \in DOMAIN Batch[m] : Batch[m][i] \in Records
    BY IngestionAssumption
  <2>2. \A r \in Records : handoff[r] # NoHandoff => handoff'[r] # NoHandoff
    BY DEF BlobsGrow
  <2>3. QED BY <2>1, <2>2 DEF IInv, SettledIsAccounted
<1>5. QED BY <1>1, <1>2, <1>3, <1>4 DEF IInv

LEMMA BlobsUnchanged ==
    ASSUME IInv, UNCHANGED blobs
    PROVE  /\ BlobsGrow(artifact, handoff, artifact', handoff') /\ BlobsOK'
           /\ artifact' \in [Records -> Seq(Versions)]
           /\ handoff' \in [Records -> Versions \cup {NoHandoff}]
  BY DEF IInv, StateType, BlobsOK, ArtifactOK, HandoffOK, BlobsGrow, blobs

LEMMA RecoverHandoffStep ==
    ASSUME IInv, NEW x \in Workers, RecoverHandoff(x)
    PROVE  IInv'
<1> DEFINE w == worker[x]
           r == Head(w.items)
           v == [w EXCEPT !.pc = "recover_artifact"]
<1>1. w.pc = "recover_handoff"
  BY DEF RecoverHandoff, At
<1>2. /\ w \in Execution /\ w.items \in Seq(Records) /\ w.items # <<>> /\ r \in Records
      /\ ~ w.rejected /\ ItemsNormal(w) /\ ItemsCover(w, handoff)
  BY <1>1, PersistingAt
<1>3. w \in Started
  BY <1>2 DEF Execution, Started, Steps
<1>4. ExecutionOK(v, artifact, handoff)
  <2>1. v \in Execution /\ v.pc = "recover_artifact" /\ v.items = w.items /\ v.message = w.message
        /\ v.rejected = w.rejected /\ v.received = w.received /\ v.rows = w.rows
    BY <1>2 DEF Execution
  <2> HIDE DEF v
  <2>2. ItemsNormal(v) /\ ItemsLast(v) /\ ItemsCover(v, handoff) /\ PinIsArtifact(v, artifact)
    BY <1>2, <2>1 DEF ItemsNormal, ItemsLast, ItemsCover, PinIsArtifact
  <2>3. QED BY <2>1, <2>2 DEF ExecutionOK
<1>5. handoff[r] # NoHandoff => ExecutionOK(Done(w), artifact, handoff)
  BY <1>2, <1>3, DoneOK
<1>6. ExecutionOK(Idle, artifact, handoff)
  BY DEF ExecutionOK
<1>7. UNCHANGED blobs /\ UNCHANGED <<env, failures, queue, lock, deliveries, receipts, purge>>
  BY DEF RecoverHandoff
<1>8. artifact' = artifact /\ handoff' = handoff
  BY <1>7 DEF blobs
<1>9. PICK u : Goto(x, u) /\ ExecutionOK(u, artifact, handoff)
  BY <1>4, <1>5, <1>6 DEF RecoverHandoff
<1>10. QED BY <1>7, <1>8, <1>9, BlobsUnchanged, PersistStep

\* The version an execution found or created is the artifact's only one.
LEMMA PinOK ==
    ASSUME IInv, NEW x \in Workers, worker[x].pc \in {"recover_artifact", "create_artifact"},
           NEW a \in Versions, NEW art, art[Head(worker[x].items)] = <<a>>
    PROVE  ExecutionOK(Pinning(worker[x], a), art, handoff)
<1> DEFINE w == worker[x]
           v == Pinning(w, a)
<1>1. /\ w \in Execution /\ w.items \in Seq(Records) /\ w.items # <<>>
      /\ ~ w.rejected /\ ItemsNormal(w) /\ ItemsCover(w, handoff)
  BY PersistingAt
<1>2. v \in PinningExecution
  BY <1>1 DEF Pinning, Execution, PinningExecution
<1>3. v.pc = "create_handoff" /\ v.items = w.items /\ v.message = w.message
      /\ v.rejected = w.rejected /\ v.received = w.received /\ v.rows = w.rows /\ v.pin = a
  BY DEF Pinning
<1> HIDE DEF v
<1>4. ItemsNormal(v) /\ ItemsLast(v) /\ ItemsCover(v, handoff) /\ PinIsArtifact(v, art)
  BY <1>1, <1>3 DEF ItemsNormal, ItemsLast, ItemsCover, PinIsArtifact
<1>5. QED BY <1>2, <1>4 DEF ExecutionOK, v

\* The artifact that is there is its only version.
LEMMA CurrentIsOnly ==
    ASSUME IInv, NEW r \in Records, artifact[r] # <<>>
    PROVE  Current(r) \in Versions /\ artifact[r] = <<Current(r)>>
<1>1. PICK v \in Versions : artifact[r] = <<v>>
  BY DEF IInv, BlobsOK, ArtifactOK
<1>2. QED BY <1>1 DEF Current

LEMMA RecoverArtifactStep ==
    ASSUME IInv, NEW x \in Workers, RecoverArtifact(x)
    PROVE  IInv'
<1> DEFINE w == worker[x]
           r == Head(w.items)
           v == [w EXCEPT !.pc = "create_artifact"]
<1>1. w.pc = "recover_artifact"
  BY DEF RecoverArtifact, At
<1>2. /\ w \in Execution /\ w.items \in Seq(Records) /\ w.items # <<>> /\ r \in Records
      /\ ~ w.rejected /\ ItemsNormal(w) /\ ItemsCover(w, handoff)
  BY <1>1, PersistingAt
<1>3. ExecutionOK(v, artifact, handoff)
  <2>1. v \in Execution /\ v.pc = "create_artifact" /\ v.items = w.items /\ v.message = w.message
        /\ v.rejected = w.rejected /\ v.received = w.received /\ v.rows = w.rows
    BY <1>2 DEF Execution
  <2> HIDE DEF v
  <2>2. ItemsNormal(v) /\ ItemsLast(v) /\ ItemsCover(v, handoff) /\ PinIsArtifact(v, artifact)
    BY <1>2, <2>1 DEF ItemsNormal, ItemsLast, ItemsCover, PinIsArtifact
  <2>3. QED BY <2>1, <2>2 DEF ExecutionOK
<1>4. artifact[r] # <<>> => ExecutionOK(Pinning(w, Current(r)), artifact, handoff)
  BY <1>1, <1>2, CurrentIsOnly, PinOK
<1>5. ExecutionOK(Idle, artifact, handoff)
  BY DEF ExecutionOK
<1>6. UNCHANGED blobs /\ UNCHANGED <<env, failures, queue, lock, deliveries, receipts, purge>>
  BY DEF RecoverArtifact
<1>7. artifact' = artifact /\ handoff' = handoff
  BY <1>6 DEF blobs
<1>8. PICK u : Goto(x, u) /\ ExecutionOK(u, artifact, handoff)
  BY <1>3, <1>4, <1>5 DEF RecoverArtifact
<1>9. QED BY <1>6, <1>7, <1>8, BlobsUnchanged, PersistStep

\* The create-only upload: the first of the executions of a record creates its
\* only version, the others recover it.
LEMMA CreateArtifactStep ==
    ASSUME IInv, NEW x \in Workers, CreateArtifact(x)
    PROVE  IInv'
<1> DEFINE w == worker[x]
           r == Head(w.items)
<1>1. w.pc = "create_artifact"
  BY DEF CreateArtifact, At
<1>2. /\ w \in Execution /\ w.items \in Seq(Records) /\ w.items # <<>> /\ r \in Records
      /\ Fresh(r, w.received) /\ (r \in GraphRows => r \in w.rows)
  BY <1>1, PersistingAt
<1>3. handoff' = handoff /\ UNCHANGED <<env, failures, queue, lock, deliveries, receipts, purge>>
  BY DEF CreateArtifact
<1>4. CASE artifact[r] = <<>> /\ artifact' = [artifact EXCEPT ![r] = <<Build(w)>>]
           /\ Goto(x, Pinning(w, Build(w)))
  <2> DEFINE b == Build(w)
  <2>1. b \in Versions /\ b.received = w.received /\ b.detailed = (r \in w.rows)
    BY <1>2 DEF Build, Versions, Execution
  <2> HIDE DEF b
  <2>2. artifact' = [artifact EXCEPT ![r] = <<b>>]
    BY <1>4 DEF b
  <2>3. artifact' \in [Records -> Seq(Versions)] /\ artifact'[r] = <<b>>
        /\ \A q \in Records : q # r => artifact'[q] = artifact[q]
    BY <1>2, <2>1, <2>2 DEF IInv, StateType
  <2>4. BlobsGrow(artifact, handoff, artifact', handoff')
    BY <1>3, <1>4, <2>3 DEF BlobsGrow
  <2>5. BlobsOK'
    <3>1. SUFFICES ASSUME NEW q \in Records
                   PROVE  ArtifactOK(q, artifact') /\ HandoffOK(q, artifact', handoff')
      BY DEF BlobsOK
    <3>2. ArtifactOK(q, artifact) /\ HandoffOK(q, artifact, handoff)
      BY DEF IInv, BlobsOK
    <3>3. CASE q # r
      BY <1>3, <2>3, <3>2, <3>3 DEF ArtifactOK, HandoffOK
    <3>4. CASE q = r
      <4>1. ArtifactOK(q, artifact')
        BY <1>2, <2>1, <2>3, <3>4 DEF ArtifactOK
      <4>2. handoff[r] = NoHandoff
        <5>1. <<>> # <<handoff[r]>>
          OBVIOUS
        <5>2. QED BY <1>4, <3>2, <3>4, <5>1 DEF HandoffOK
      <4>3. QED BY <1>3, <3>4, <4>1, <4>2 DEF HandoffOK
    <3>5. QED BY <3>3, <3>4
  <2>6. ExecutionOK(Pinning(w, b), artifact', handoff')
    BY <1>1, <1>3, <2>1, <2>3, PinOK
  <2>7. Goto(x, Pinning(w, b)) /\ handoff' \in [Records -> Versions \cup {NoHandoff}]
    BY <1>3, <1>4 DEF b, IInv, StateType
  <2>8. QED BY <1>3, <2>3, <2>4, <2>5, <2>6, <2>7, PersistStep
<1>5. CASE artifact[r] # <<>> /\ UNCHANGED artifact
           /\ Goto(x, IF Matches(w, Current(r)) THEN Pinning(w, Current(r)) ELSE Idle)
  <2>1. ExecutionOK(Pinning(w, Current(r)), artifact, handoff)
    BY <1>1, <1>2, <1>5, CurrentIsOnly, PinOK
  <2>2. ExecutionOK(Idle, artifact, handoff)
    BY DEF ExecutionOK
  <2>3. PICK u : Goto(x, u) /\ ExecutionOK(u, artifact, handoff)
    BY <1>5, <2>1, <2>2
  <2>4. UNCHANGED blobs
    BY <1>3, <1>5 DEF blobs
  <2>5. QED BY <1>3, <1>5, <2>3, <2>4, BlobsUnchanged, PersistStep
<1>6. QED BY <1>4, <1>5 DEF CreateArtifact

\* The create-only handoff: one that is there pins the same version.
LEMMA CreateHandoffStep ==
    ASSUME IInv, NEW x \in Workers, CreateHandoff(x)
    PROVE  IInv'
<1> DEFINE w == worker[x]
           r == Head(w.items)
           u == Unpinned(w)
<1>1. w.pc = "create_handoff"
  BY DEF CreateHandoff, At
<1>2. /\ w.items # <<>> /\ r \in Records /\ artifact[r] = <<w.pin>> /\ w.pin \in Versions
      /\ u \in Started /\ u.items = w.items /\ ~ u.rejected
      /\ ItemsNormal(u) /\ ItemsCover(u, handoff)
  BY <1>1, PinningAt
<1>3. artifact' = artifact /\ UNCHANGED <<env, failures, queue, lock, deliveries, receipts, purge>>
  BY DEF CreateHandoff
<1> HIDE DEF u
<1>4. CASE handoff[r] = NoHandoff /\ handoff' = [handoff EXCEPT ![r] = w.pin]
           /\ Goto(x, Done(u))
  <2>1. handoff' \in [Records -> Versions \cup {NoHandoff}] /\ handoff'[r] = w.pin
        /\ \A q \in Records : q # r => handoff'[q] = handoff[q]
    BY <1>2, <1>4 DEF IInv, StateType
  <2>2. BlobsGrow(artifact, handoff, artifact', handoff')
    BY <1>3, <1>4, <2>1 DEF BlobsGrow
  <2>3. BlobsOK'
    <3>1. SUFFICES ASSUME NEW q \in Records
                   PROVE  ArtifactOK(q, artifact') /\ HandoffOK(q, artifact', handoff')
      BY DEF BlobsOK
    <3>2. ArtifactOK(q, artifact) /\ HandoffOK(q, artifact, handoff)
      BY DEF IInv, BlobsOK
    <3>3. QED BY <1>2, <1>3, <2>1, <3>2 DEF ArtifactOK, HandoffOK
  <2>4. ItemsCover(u, handoff') /\ handoff'[Head(u.items)] # NoHandoff
    <3>1. handoff'[Head(u.items)] # NoHandoff
      BY <1>2, <2>1, VersionsAssumption
    <3>2. ItemsCover(u, handoff')
      BY <1>2, <2>2, IngestionAssumption DEF ItemsCover, BlobsGrow
    <3>3. QED BY <3>1, <3>2
  <2>5. ExecutionOK(Done(u), artifact', handoff')
    BY <1>2, <2>4, DoneOK
  <2>6. artifact' \in [Records -> Seq(Versions)]
    BY <1>3 DEF IInv, StateType
  <2>7. QED BY <1>3, <1>4, <2>1, <2>2, <2>3, <2>5, <2>6, PersistStep
<1>5. CASE handoff[r] # NoHandoff /\ UNCHANGED handoff
           /\ Goto(x, IF ~ Matches(w, handoff[r]) THEN Idle
                      ELSE IF handoff[r] = w.pin THEN Done(u)
                      ELSE [u EXCEPT !.pc = "conflict"])
  <2>1. handoff[r] = w.pin
    BY <1>2, <1>5 DEF IInv, BlobsOK, HandoffOK
  <2>2. ExecutionOK(Done(u), artifact, handoff)
    BY <1>2, <1>5, DoneOK
  <2>3. ExecutionOK(Idle, artifact, handoff)
    BY DEF ExecutionOK
  <2>4. PICK v : Goto(x, v) /\ ExecutionOK(v, artifact, handoff)
    BY <1>5, <2>1, <2>2, <2>3
  <2>5. UNCHANGED blobs
    BY <1>3, <1>5 DEF blobs
  <2>6. QED BY <1>3, <1>5, <2>4, <2>5, BlobsUnchanged, PersistStep
<1>6. QED BY <1>4, <1>5 DEF CreateHandoff, u

-----------------------------------------------------------------------------
(* Starts and ends of executions, and the queue *)

\* What an execution starts with.
LEMMA StartOK ==
    ASSUME IInv, NEW m \in Messages \cup {NoMessage}, NEW rejected \in BOOLEAN,
           NEW rows \in SUBSET GraphRows, NEW items \in Seq(Records), rejected => items = <<>>,
           \A i \in DOMAIN items :
               Fresh(items[i], now) /\ (items[i] \in GraphRows => items[i] \in rows),
           m \in Messages /\ ~ rejected => items = Batch[m]
    PROVE  ExecutionOK(Continue([pc |-> "complete", message |-> m, received |-> now, key |-> key,
                                 rejected |-> rejected, rows |-> rows, items |-> items]),
                       artifact, handoff)
<1> DEFINE w == [pc |-> "complete", message |-> m, received |-> now, key |-> key,
                 rejected |-> rejected, rows |-> rows, items |-> items]
<1>1. w \in Started
  BY DEF IInv, StateType, Started, Steps
<1>2. w.items = items /\ w.received = now /\ w.rows = rows /\ w.rejected = rejected /\ w.message = m
  OBVIOUS
<1> HIDE DEF w
<1>3. ItemsNormal(w) /\ (w.rejected => w.items = <<>>) /\ ItemsCover(w, handoff)
  BY <1>2 DEF ItemsNormal, ItemsCover
<1>4. ExecutionOK(Continue(w), artifact, handoff)
  BY <1>1, <1>3, ContinueOK
<1>5. QED BY <1>4 DEF w

LEMMA ReceiveStep ==
    ASSUME IInv, NEW x \in Workers, NEW m \in Messages, Receive(x, m)
    PROVE  IInv'
<1> DEFINE valid == \A i \in DOMAIN Batch[m] : NormalizesEvent(Batch[m][i], now)
           items == IF valid THEN Batch[m] ELSE <<>>
           w == Continue([pc |-> "complete", message |-> m, received |-> now, key |-> key,
                          rejected |-> ~ valid, rows |-> {}, items |-> items])
<1>1. Batch[m] \in Seq(Records) /\ items \in Seq(Records)
  BY IngestionAssumption
<1>2. ~ valid => items = <<>>
  OBVIOUS
<1>3. \A i \in DOMAIN items : Fresh(items[i], now) /\ items[i] \notin GraphRows
  BY SourcesAssumption DEF NormalizesEvent
<1>4. ExecutionOK(w, artifact, handoff)
  <2>1. m \in Messages /\ ~ ~ valid => items = Batch[m]
    OBVIOUS
  <2>2. (~ valid) \in BOOLEAN
    OBVIOUS
  <2> HIDE DEF valid, items
  <2>3. QED BY <1>1, <1>2, <1>3, <2>1, <2>2, StartOK
<1>5. Goto(x, w) /\ queue[m] = "ready" /\ queue' = [queue EXCEPT ![m] = "locked"]
      /\ lock' = [lock EXCEPT ![m] = x] /\ deliveries' = [deliveries EXCEPT ![m] = @ + 1]
      /\ UNCHANGED <<env, failures, blobs, receipts, purge>>
  BY DEF Receive, Goto
<1> HIDE DEF w
<1>6. artifact' = artifact /\ handoff' = handoff
  BY <1>5 DEF blobs
<1>7. BlobsGrow(artifact, handoff, artifact', handoff') /\ BlobsOK'
  BY <1>5, BlobsUnchanged
<1>8. WorkersOK' /\ worker' \in [Workers -> {Idle} \cup Execution \cup PinningExecution]
  BY <1>4, <1>5, <1>6, <1>7, WorkerStep
<1>9. deliveries[m] < MaxDelivery /\ deliveries[m] \in Nat
  BY <1>5 DEF IInv, QueueOK, StateType
<1>10. StateType'
  BY <1>5, <1>6, <1>8, <1>9, IngestionAssumption DEF IInv, StateType, env, Places
<1>11. QueueOK'
  BY <1>5, <1>9, IngestionAssumption DEF IInv, StateType, QueueOK, Places
<1>12. SettledIsAccounted'
  BY <1>5, <1>6 DEF IInv, StateType, SettledIsAccounted
<1>13. QED BY <1>7, <1>8, <1>10, <1>11, <1>12 DEF IInv

LEMMA CollectStep ==
    ASSUME IInv, NEW x \in Workers, Collect(x)
    PROVE  IInv'
<1>1. PICK rows \in SetToSeqs(Window) :
        Goto(x, Continue([pc |-> "complete", message |-> NoMessage, received |-> now,
                          key |-> key, rejected |-> FALSE, rows |-> detailed, items |-> rows]))
  BY DEF Collect, Goto
<1>2. Window \subseteq GraphRows /\ Cardinality(Window) \in Nat
  <2>1. Window \subseteq GraphRows
    BY DEF Window
  <2>2. QED BY <2>1, IngestionAssumption, FS_Subset, FS_CardinalityType
<1>3. rows \in [1 .. Cardinality(Window) -> Window]
  BY DEF SetToSeqs
<1>4. rows \in Seq(Records)
  BY <1>2, <1>3, IngestionAssumption
<1>5. \A i \in DOMAIN rows : Fresh(rows[i], now) /\ rows[i] \in detailed
  BY <1>3 DEF Collect, NormalizesRow
<1>6. detailed \in SUBSET GraphRows /\ NoMessage \notin Messages
  BY IngestionAssumption DEF IInv, StateType
<1>7. PICK w : Goto(x, w) /\ ExecutionOK(w, artifact, handoff)
  BY <1>1, <1>4, <1>5, <1>6, StartOK
<1>8. UNCHANGED blobs /\ UNCHANGED <<env, failures, queue, lock, deliveries, receipts, purge>>
  BY DEF Collect
<1>9. artifact' = artifact /\ handoff' = handoff
  BY <1>8 DEF blobs
<1>10. QED BY <1>7, <1>8, <1>9, BlobsUnchanged, PersistStep

\* complete_message accepts a message only when no item is left, hence when all
\* its records have a handoff.
LEMMA CompleteStep ==
    ASSUME IInv, NEW x \in Workers, CompleteMessage(x)
    PROVE  IInv'
<1> DEFINE w == worker[x]
           m == w.message
<1>1. w.pc = "complete" /\ Goto(x, Idle) /\ UNCHANGED <<env, failures, deliveries, blobs, receipts, purge>>
  BY DEF CompleteMessage, At
<1>2. w \in Execution /\ ItemsLast(w) /\ ItemsCover(w, handoff)
  BY <1>1 DEF IInv, WorkersOK, ExecutionOK, Idle, PinningExecution
<1>3. m \in Messages /\ w.items = <<>> /\ w.rejected \in BOOLEAN
  BY <1>1, <1>2 DEF ItemsLast, Execution
<1>4. ~ w.rejected => \A j \in DOMAIN Batch[m] : handoff[Batch[m][j]] # NoHandoff
  <2>1. DOMAIN w.items = {}
    BY <1>3
  <2>2. QED BY <1>2, <1>3, <2>1 DEF ItemsCover
<1>5. artifact' = artifact /\ handoff' = handoff
  BY <1>1 DEF blobs
<1>6. BlobsGrow(artifact, handoff, artifact', handoff') /\ BlobsOK'
  BY <1>1, BlobsUnchanged
<1>7. ExecutionOK(Idle, artifact', handoff')
  BY DEF ExecutionOK
<1>8. WorkersOK' /\ worker' \in [Workers -> {Idle} \cup Execution \cup PinningExecution]
  BY <1>1, <1>6, <1>7, WorkerStep
<1>9. CASE lock[m] = x
  <2>1. /\ queue' = [queue EXCEPT ![m] = IF w.rejected THEN "discarded" ELSE "accepted"]
        /\ lock' = [lock EXCEPT ![m] = NoWorker]
    BY <1>9 DEF CompleteMessage
  <2>2. queue[m] = "locked"
    BY <1>3, <1>9, IngestionAssumption DEF IInv, QueueOK
  <2> HIDE DEF w, m
  <2>3. StateType'
    BY <1>1, <1>3, <1>5, <1>8, <2>1 DEF IInv, StateType, env, Places
  <2>4. QueueOK'
    BY <1>1, <1>3, <2>1, <2>2 DEF IInv, StateType, QueueOK
  <2>5. SettledIsAccounted'
    BY <1>1, <1>3, <1>4, <1>5, <2>1 DEF IInv, StateType, SettledIsAccounted
  <2>6. QED BY <1>6, <1>8, <2>3, <2>4, <2>5 DEF IInv
<1>10. CASE lock[m] # x
  <2>1. UNCHANGED <<queue, lock>>
    BY <1>10 DEF CompleteMessage
  <2>2. StateType'
    BY <1>1, <1>5, <1>8, <2>1 DEF IInv, StateType, env
  <2>3. QueueOK' /\ SettledIsAccounted'
    BY <1>1, <1>5, <2>1 DEF IInv, QueueOK, SettledIsAccounted
  <2>4. QED BY <1>6, <1>8, <2>2, <2>3 DEF IInv
<1>11. QED BY <1>9, <1>10

\* Nothing is required of an execution that has stopped.
LEMMA StopStep ==
    ASSUME IInv, NEW x \in Workers, Stop(x)
    PROVE  IInv'
<1>1. Goto(x, Idle) /\ UNCHANGED blobs /\ UNCHANGED <<env, queue, lock, deliveries, receipts, purge>>
      /\ failures' = failures + 1 /\ failures < MaxFailures
  BY DEF Stop
<1>2. artifact' = artifact /\ handoff' = handoff
  BY <1>1 DEF blobs
<1>3. BlobsGrow(artifact, handoff, artifact', handoff') /\ BlobsOK'
  BY <1>1, BlobsUnchanged
<1>4. WorkersOK' /\ worker' \in [Workers -> {Idle} \cup Execution \cup PinningExecution]
  <2>1. ExecutionOK(Idle, artifact', handoff')
    BY DEF ExecutionOK
  <2>2. QED BY <1>1, <1>3, <2>1, WorkerStep
<1>5. StateType'
  BY <1>1, <1>2, <1>4, IngestionAssumption DEF IInv, StateType, env
<1>6. QueueOK' /\ SettledIsAccounted'
  BY <1>1, <1>2 DEF IInv, QueueOK, SettledIsAccounted
<1>7. QED BY <1>3, <1>4, <1>5, <1>6 DEF IInv

\* Steps of the queue, of the purge worker and of the surroundings leave
\* executions and blobs alone.
LEMMA OutsideStep ==
    ASSUME IInv,
           \/ Tick \/ RotateKey \/ PurgeComplete \/ PurgeStop
           \/ \E r \in GraphRows : AddDetail(r)
           \/ \E m \in Messages : Send(m) \/ LockExpires(m) \/ MessageExpires(m) \/ PurgeReceipt(m)
    PROVE  IInv'
<1>1. UNCHANGED <<artifact, handoff, worker>>
  BY DEF Tick, RotateKey, PurgeComplete, PurgeStop, AddDetail, Send, LockExpires, MessageExpires,
         PurgeReceipt, blobs
<1>2. WorkersOK' /\ BlobsOK'
  BY <1>1 DEF IInv, WorkersOK, BlobsOK
<1>3. CASE Tick \/ RotateKey \/ PurgeStop \/ \E r \in GraphRows : AddDetail(r)
  <2>1. StateType'
    BY <1>1, <1>3, IngestionAssumption
       DEF IInv, StateType, Tick, RotateKey, PurgeStop, AddDetail, env
  <2>2. QueueOK' /\ SettledIsAccounted'
    BY <1>1, <1>3 DEF IInv, QueueOK, SettledIsAccounted, Tick, RotateKey, PurgeStop, AddDetail, env
  <2>3. QED BY <1>2, <2>1, <2>2 DEF IInv
<1>4. CASE PurgeComplete
  <2>1. purge \in Messages /\ purge \in receipts /\ queue[purge] = "dead"
    BY <1>4 DEF IInv, StateType, QueueOK, PurgeComplete
  <2>2. StateType'
    BY <1>1, <1>4 DEF IInv, StateType, PurgeComplete, env, Places
  <2>3. QueueOK' /\ SettledIsAccounted'
    BY <1>1, <1>4, <2>1 DEF IInv, StateType, QueueOK, SettledIsAccounted, PurgeComplete
  <2>4. QED BY <1>2, <2>2, <2>3 DEF IInv
<1>5. CASE \E m \in Messages : Send(m) \/ LockExpires(m) \/ MessageExpires(m) \/ PurgeReceipt(m)
  <2>1. PICK m \in Messages : Send(m) \/ LockExpires(m) \/ MessageExpires(m) \/ PurgeReceipt(m)
    BY <1>5
  <2>2. StateType'
    BY <1>1, <2>1 DEF IInv, StateType, Send, LockExpires, MessageExpires, PurgeReceipt, env, Places
  <2>3. QueueOK'
    <3>1. CASE Send(m)
      BY <3>1 DEF IInv, StateType, QueueOK, Send
    <3>2. CASE LockExpires(m)
      BY <3>2 DEF IInv, StateType, QueueOK, LockExpires
    <3>3. CASE MessageExpires(m)
      BY <3>3 DEF IInv, StateType, QueueOK, MessageExpires
    <3>4. CASE PurgeReceipt(m)
      BY <3>4 DEF IInv, StateType, QueueOK, PurgeReceipt
    <3>5. QED BY <2>1, <3>1, <3>2, <3>3, <3>4
  <2>4. SettledIsAccounted'
    BY <1>1, <2>1
       DEF IInv, StateType, SettledIsAccounted, Send, LockExpires, MessageExpires, PurgeReceipt
  <2>5. QED BY <1>2, <2>2, <2>3, <2>4 DEF IInv
<1>6. QED BY <1>3, <1>4, <1>5

-----------------------------------------------------------------------------
(* Theorems *)

LEMMA InitOK == Init => IInv
<1> SUFFICES ASSUME Init PROVE IInv
  OBVIOUS
<1>1. StateType
  BY IngestionAssumption DEF Init, StateType, Places
<1>2. WorkersOK
  BY DEF Init, WorkersOK, ExecutionOK
<1>3. BlobsOK
  BY DEF Init, BlobsOK, ArtifactOK, HandoffOK
<1>4. QueueOK /\ SettledIsAccounted
  BY IngestionAssumption DEF Init, QueueOK, SettledIsAccounted
<1>5. QED BY <1>1, <1>2, <1>3, <1>4 DEF IInv

LEMMA NextOK == IInv /\ [Next]_vars => IInv'
<1> SUFFICES ASSUME IInv, [Next]_vars PROVE IInv'
  OBVIOUS
<1>1. CASE UNCHANGED vars
  BY <1>1 DEF vars, IInv, StateType, WorkersOK, BlobsOK, QueueOK, SettledIsAccounted
<1>2. CASE \/ Tick \/ RotateKey \/ PurgeComplete \/ PurgeStop
           \/ \E r \in GraphRows : AddDetail(r)
           \/ \E m \in Messages : Send(m) \/ LockExpires(m) \/ MessageExpires(m) \/ PurgeReceipt(m)
  BY <1>2, OutsideStep
<1>3. ASSUME NEW x \in Workers, Persist(x) PROVE IInv'
  BY <1>3, RecoverHandoffStep, RecoverArtifactStep, CreateArtifactStep, CreateHandoffStep DEF Persist
<1>4. ASSUME NEW x \in Workers, CompleteMessage(x) \/ Stop(x) PROVE IInv'
  BY <1>4, CompleteStep, StopStep
<1>5. ASSUME NEW x \in GraphWorkers, Collect(x) PROVE IInv'
  BY <1>5, CollectStep DEF Workers
<1>6. ASSUME NEW x \in GridWorkers, NEW m \in Messages, Receive(x, m) PROVE IInv'
  BY <1>6, ReceiveStep DEF Workers
<1>7. QED BY <1>1, <1>2, <1>3, <1>4, <1>5, <1>6 DEF Next

\* The inductive invariant holds.
THEOREM Invariance == Spec => []IInv
  BY InitOK, NextOK, PTL DEF Spec

\* The state keeps its type.
THEOREM TypeCorrect == Spec => []TypeOK
<1>1. IInv => TypeOK
  BY DEF IInv, StateType, TypeOK
<1>2. QED BY <1>1, Invariance, PTL

\* Every handoff pins a version of its artifact that exists, that was fresh and
\* complete, whichever executions of persist_change_evidence wrote the two.
THEOREM HandoffsPinArtifacts == Spec => []HandoffPinsArtifact
<1>1. IInv => HandoffPinsArtifact
  <2>1. SUFFICES ASSUME IInv, NEW r \in Records, handoff[r] # NoHandoff
                 PROVE  /\ \E i \in DOMAIN artifact[r] : artifact[r][i] = handoff[r]
                        /\ Fresh(r, handoff[r].received)
                        /\ r \in GraphRows => handoff[r].detailed
    BY DEF HandoffPinsArtifact
  <2>2. artifact[r] = <<handoff[r]>> /\ ArtifactOK(r, artifact)
    BY <2>1 DEF IInv, BlobsOK, HandoffOK
  <2>3. PICK v \in Versions : artifact[r] = <<v>> /\ Fresh(r, v.received)
                              /\ (r \in GraphRows => v.detailed)
    BY <2>2 DEF ArtifactOK
  <2>4. v = handoff[r]
    BY <2>2, <2>3
  <2>5. 1 \in DOMAIN artifact[r] /\ artifact[r][1] = handoff[r]
    BY <2>2
  <2>6. QED BY <2>3, <2>4, <2>5
<1>2. QED BY <1>1, Invariance, PTL

\* The last error of persist_change_evidence is never raised: executions of the
\* same record, side by side or one after the other, write the same handoff.
THEOREM ExecutionsAlwaysAgree == Spec => []ExecutionsAgree
<1>1. IInv => ExecutionsAgree
  BY DEF IInv, WorkersOK, ExecutionOK, ExecutionsAgree, At, Idle, Execution, PinningExecution
<1>2. QED BY <1>1, Invariance, PTL

\* A message is accepted only when each of its records has a handoff, and purged
\* only when it has a failure receipt, whatever stopped on the way.
THEOREM MessagesAccounted == Spec => []SettledIsAccounted
<1>1. IInv => SettledIsAccounted
  BY DEF IInv
<1>2. QED BY <1>1, Invariance, PTL
-----------------------------------------------------------------------------
(* Rejected batches *)

\* No record is delivered in two messages.
DistinctBatches ==
    \A m, n \in Messages : \A i \in DOMAIN Batch[m], j \in DOMAIN Batch[n] :
        Batch[m][i] = Batch[n][j] => m = n

Owns(w, r) ==
    \/ w.message \in Messages /\ \E j \in DOMAIN Batch[w.message] : r = Batch[w.message][j]
    \/ r \in GraphRows

\* An execution persists records of its message, or rows of the history.
ItemsOwned ==
    \A x \in Workers : worker[x] # Idle =>
        \A i \in DOMAIN worker[x].items : Owns(worker[x], worker[x].items[i])

Works(w, m, rejected) == w # Idle /\ w.message = m /\ w.rejected = rejected

\* An execution has found all records of the message normal.
Begun(m) ==
    \/ \E x \in Workers : Works(worker[x], m, FALSE)
    \/ \E i \in DOMAIN Batch[m] : artifact[Batch[m][i]] # <<>>

\* Then the message was delivered, and an execution that rejects it and can
\* still complete it works on a later delivery.
BegunIsEarlier ==
    \A m \in Messages : Begun(m) =>
        /\ deliveries[m] > 0
        /\ queue[m] = "discarded" => deliveries[m] > 1
        /\ \A x \in Workers : Works(worker[x], m, TRUE) /\ lock[m] = x => deliveries[m] > 1

WholeInv == IInv /\ ItemsOwned /\ BegunIsEarlier

\* A step keeps the message of an execution, or ends it.
Follows(w, v) ==
    v # Idle =>
        /\ w # Idle /\ v.message = w.message /\ v.rejected = w.rejected
        /\ \A i \in DOMAIN v.items : \E j \in DOMAIN w.items : v.items[i] = w.items[j]

LEMMA DoneFollows ==
    ASSUME NEW w, NEW u \in Started, w # Idle, u.message = w.message, u.rejected = w.rejected,
           u.items = w.items, u.items # <<>>
    PROVE  Follows(w, Done(u))
<1> DEFINE t == [u EXCEPT !.items = Tail(u.items)]
<1>1. u.items \in Seq(Records) /\ Tail(u.items) \in Seq(Records)
      /\ \A i \in DOMAIN Tail(u.items) : \E j \in DOMAIN u.items : Tail(u.items)[i] = u.items[j]
  <2>1. u.items \in Seq(Records)
    BY DEF Started
  <2>2. QED BY <2>1, TailElements
<1>2. t \in Started /\ t.items = Tail(u.items) /\ t.message = u.message /\ t.rejected = u.rejected
  BY <1>1 DEF Started
<1>3. Done(u) = Continue(t)
  BY DEF Done
<1> HIDE DEF t
<1>4. \A step : LET v == [t EXCEPT !.pc = step]
                IN v.items = t.items /\ v.message = t.message /\ v.rejected = t.rejected
  BY <1>2 DEF Started
<1>5. Done(u) = Idle \/ \E step : Done(u) = [t EXCEPT !.pc = step]
  BY <1>3 DEF Continue
<1> DEFINE v == Done(u)
<1>6. v = Idle \/ (v.items = t.items /\ v.message = t.message /\ v.rejected = t.rejected)
  BY <1>4, <1>5
<1> HIDE DEF v
<1>7. Follows(w, v)
  <2>1. SUFFICES ASSUME v # Idle
                 PROVE  /\ v.message = w.message /\ v.rejected = w.rejected
                        /\ \A i \in DOMAIN v.items : \E j \in DOMAIN w.items : v.items[i] = w.items[j]
    BY DEF Follows
  <2>2. v.items = Tail(u.items) /\ v.message = w.message /\ v.rejected = w.rejected
    BY <1>2, <1>6, <2>1
  <2>3. QED BY <1>1, <2>2
<1>8. QED BY <1>7 DEF v

LEMMA PersistFollows ==
    ASSUME IInv, NEW x \in Workers, Persist(x)
    PROVE  \E v : Goto(x, v) /\ Follows(worker[x], v)
<1> DEFINE w == worker[x]
<1>1. Follows(w, Idle)
  BY DEF Follows
<1>2. ASSUME w.pc \in {"recover_handoff", "recover_artifact", "create_artifact"}
      PROVE  /\ \A step : Follows(w, [w EXCEPT !.pc = step])
             /\ \A a : Follows(w, Pinning(w, a))
             /\ Follows(w, Done(w))
  <2>1. w \in Execution /\ w \in Started /\ w.items # <<>> /\ w # Idle
    BY <1>2, PersistingAt DEF Execution, Started, Steps, Idle
  <2>2. \A step : Follows(w, [w EXCEPT !.pc = step])
    <3>1. ASSUME NEW step
          PROVE  LET v == [w EXCEPT !.pc = step]
                 IN v.items = w.items /\ v.message = w.message /\ v.rejected = w.rejected
      BY <2>1 DEF Execution
    <3>2. QED BY <2>1, <3>1 DEF Follows
  <2>3. \A a : Follows(w, Pinning(w, a))
    <3>1. ASSUME NEW a
          PROVE  LET v == Pinning(w, a)
                 IN v.items = w.items /\ v.message = w.message /\ v.rejected = w.rejected
      BY DEF Pinning
    <3>2. QED BY <2>1, <3>1 DEF Follows
  <2>4. QED BY <2>1, <2>2, <2>3, DoneFollows
<1>3. CASE RecoverHandoff(x)
  BY <1>1, <1>2, <1>3 DEF RecoverHandoff, At
<1>4. CASE RecoverArtifact(x)
  BY <1>1, <1>2, <1>4 DEF RecoverArtifact, At
<1>5. CASE CreateArtifact(x)
  BY <1>1, <1>2, <1>5 DEF CreateArtifact, At
<1>6. CASE CreateHandoff(x)
  <2> DEFINE u == Unpinned(w)
  <2>1. w.pc = "create_handoff"
    BY <1>6 DEF CreateHandoff, At
  <2>2. w # Idle /\ u \in Started /\ u.items = w.items /\ w.items # <<>>
    BY <2>1, PinningAt DEF Idle
  <2>3. u.message = w.message /\ u.rejected = w.rejected
    BY DEF Unpinned
  <2> HIDE DEF u
  <2>4. Follows(w, Done(u))
    BY <2>2, <2>3, DoneFollows
  <2>5. Follows(w, [u EXCEPT !.pc = "conflict"])
    <3>1. LET v == [u EXCEPT !.pc = "conflict"]
          IN v.items = u.items /\ v.message = u.message /\ v.rejected = u.rejected
      BY <2>2 DEF Started
    <3>2. QED BY <2>2, <2>3, <3>1 DEF Follows
  <2>6. QED BY <1>1, <1>6, <2>4, <2>5 DEF CreateHandoff, u
<1>7. QED BY <1>3, <1>4, <1>5, <1>6 DEF Persist

\* A step in which no execution starts, and artifacts are created only by an
\* execution that works on the message: nothing begins.
LEMMA FollowingStep ==
    ASSUME WholeInv, IInv', NEW x \in Workers, NEW v, Goto(x, v), Follows(worker[x], v),
           UNCHANGED deliveries,
           \A m \in Messages : \A i \in DOMAIN Batch[m] :
               artifact'[Batch[m][i]] # <<>> => Begun(m),
           \A m \in Messages :
               /\ lock'[m] = lock[m] \/ lock'[m] = NoWorker
               /\ queue'[m] = "discarded" =>
                    \/ queue[m] = "discarded"
                    \/ lock[m] = x /\ Works(worker[x], m, TRUE)
    PROVE  WholeInv'
<1>1. \A y \in Workers : worker'[y] = IF y = x THEN v ELSE worker[y]
  BY DEF Goto, WholeInv, IInv, StateType
<1>2. \A y \in Workers : Follows(worker[y], worker'[y])
  BY <1>1 DEF Follows
<1>3. ItemsOwned'
  <2>1. SUFFICES ASSUME NEW y \in Workers, worker'[y] # Idle, NEW i \in DOMAIN worker'[y].items
                 PROVE  Owns(worker'[y], worker'[y].items[i])
    BY DEF ItemsOwned, Owns
  <2>2. worker[y] # Idle /\ worker'[y].message = worker[y].message
        /\ \E j \in DOMAIN worker[y].items : worker'[y].items[i] = worker[y].items[j]
    BY <1>2, <2>1 DEF Follows
  <2>3. QED BY <2>2 DEF WholeInv, ItemsOwned, Owns
<1>4. BegunIsEarlier'
  <2>1. SUFFICES ASSUME NEW m \in Messages, Begun(m)'
                 PROVE  /\ deliveries[m] > 0
                        /\ queue'[m] = "discarded" => deliveries[m] > 1
                        /\ \A y \in Workers : Works(worker'[y], m, TRUE) /\ lock'[m] = y
                                                => deliveries[m] > 1
    BY DEF BegunIsEarlier, Works
  <2>2. ASSUME NEW y \in Workers, NEW b, Works(worker'[y], m, b) PROVE Works(worker[y], m, b)
    BY <1>2, <2>2 DEF Works, Follows
  <2>3. Begun(m)
    BY <2>1, <2>2 DEF Begun, Works
  <2>4. deliveries[m] > 0 /\ (queue[m] = "discarded" => deliveries[m] > 1)
        /\ \A y \in Workers : Works(worker[y], m, TRUE) /\ lock[m] = y => deliveries[m] > 1
    BY <2>3 DEF WholeInv, BegunIsEarlier
  <2>5. \A y \in Workers : Works(worker'[y], m, TRUE) /\ lock'[m] = y => deliveries[m] > 1
    BY <2>2, <2>4, IngestionAssumption
  <2>6. QED BY <2>4, <2>5
<1>5. QED BY <1>3, <1>4 DEF WholeInv

LEMMA PersistWhole ==
    ASSUME DistinctBatches, WholeInv, IInv', NEW x \in Workers, Persist(x)
    PROVE  WholeInv'
<1>1. PICK v : Goto(x, v) /\ Follows(worker[x], v)
  BY PersistFollows DEF WholeInv
<1>2. UNCHANGED <<deliveries, queue, lock>>
  BY DEF Persist, RecoverHandoff, RecoverArtifact, CreateArtifact, CreateHandoff
<1>3. ASSUME NEW m \in Messages, NEW i \in DOMAIN Batch[m], artifact'[Batch[m][i]] # <<>>
      PROVE  Begun(m)
  <2> DEFINE r == Batch[m][i]
             w == worker[x]
  <2>1. r \in Records /\ r \notin GraphRows
    BY IngestionAssumption, SourcesAssumption
  <2>2. CASE artifact'[r] = artifact[r]
    BY <1>3, <2>2 DEF Begun
  <2>3. CASE artifact'[r] # artifact[r]
    <3>1. CreateArtifact(x) /\ w.pc = "create_artifact"
      BY <2>3 DEF Persist, RecoverHandoff, RecoverArtifact, CreateArtifact, CreateHandoff, blobs, At
    <3>2. w \in Execution /\ w # Idle /\ w.items \in Seq(Records) /\ w.items # <<>> /\ ~ w.rejected
      BY <3>1, PersistingAt DEF WholeInv, Idle
    <3>3. Head(w.items) = r
      <4>1. artifact \in [Records -> Seq(Versions)] /\ Head(w.items) \in Records
        BY <3>2, TailElements DEF WholeInv, IInv, StateType
      <4>2. \E b : artifact' = [artifact EXCEPT ![Head(w.items)] = b]
        BY <2>3, <3>1 DEF CreateArtifact
      <4>3. QED BY <2>1, <2>3, <4>1, <4>2
    <3>4. PICK j \in DOMAIN w.items : w.items[j] = r
      BY <3>2, <3>3, TailElements
    <3>5. w.message \in Messages /\ \E k \in DOMAIN Batch[w.message] : r = Batch[w.message][k]
      BY <2>1, <3>2, <3>4 DEF WholeInv, ItemsOwned, Owns
    <3>6. w.message = m
      BY <3>5 DEF DistinctBatches
    <3>7. w.rejected = FALSE
      BY <3>2 DEF Execution
    <3>8. QED BY <3>2, <3>6, <3>7 DEF Begun, Works
  <2>4. QED BY <2>2, <2>3
<1>4. QED BY <1>1, <1>2, <1>3, FollowingStep

LEMMA EndWhole ==
    ASSUME WholeInv, IInv', NEW x \in Workers, CompleteMessage(x) \/ Stop(x)
    PROVE  WholeInv'
<1>1. Goto(x, Idle) /\ Follows(worker[x], Idle) /\ UNCHANGED <<artifact, deliveries>>
  BY DEF CompleteMessage, Stop, Follows, blobs
<1>2. \A m \in Messages : \A i \in DOMAIN Batch[m] : artifact'[Batch[m][i]] # <<>> => Begun(m)
  BY <1>1 DEF Begun
<1>3. ASSUME NEW m \in Messages
      PROVE  /\ lock'[m] = lock[m] \/ lock'[m] = NoWorker
             /\ queue'[m] = "discarded" =>
                  \/ queue[m] = "discarded"
                  \/ lock[m] = x /\ Works(worker[x], m, TRUE)
  <2>1. CASE UNCHANGED <<queue, lock>>
    BY <2>1
  <2>2. CASE CompleteMessage(x) /\ lock[worker[x].message] = x
    <3> DEFINE w == worker[x]
    <3>1. w.pc = "complete" /\ w # Idle
      BY <2>2 DEF CompleteMessage, At, Idle
    <3>2. w \in Execution /\ ItemsLast(w)
      BY <3>1 DEF WholeInv, IInv, WorkersOK, ExecutionOK, PinningExecution
    <3>3. w.message \in Messages /\ w.rejected \in BOOLEAN
      BY <3>1, <3>2 DEF Execution, ItemsLast
    <3>4. queue' = [queue EXCEPT ![w.message] = IF w.rejected THEN "discarded" ELSE "accepted"]
          /\ lock' = [lock EXCEPT ![w.message] = NoWorker]
      BY <2>2 DEF CompleteMessage
    <3>5. CASE m = w.message
      <4>1. lock'[m] = NoWorker /\ (queue'[m] = "discarded" => w.rejected = TRUE)
        BY <3>3, <3>4, <3>5 DEF WholeInv, IInv, StateType
      <4>2. QED BY <2>2, <3>1, <3>5, <4>1 DEF Works
    <3>6. CASE m # w.message
      BY <3>4, <3>6 DEF WholeInv, IInv, StateType
    <3>7. QED BY <3>5, <3>6
  <2>3. QED BY <2>1, <2>2 DEF CompleteMessage, Stop
<1>4. QED BY <1>1, <1>2, <1>3, FollowingStep

\* A delivery: an execution that accepts the batch begins the message, and one
\* that rejects a batch that has begun does so at a later delivery.
LEMMA ReceiveWhole ==
    ASSUME WholeInv, IInv', NEW x \in Workers, NEW n \in Messages, Receive(x, n)
    PROVE  WholeInv'
<1> DEFINE valid == \A i \in DOMAIN Batch[n] : NormalizesEvent(Batch[n][i], now)
           s == [pc |-> "complete", message |-> n, received |-> now, key |-> key,
                 rejected |-> ~ valid, rows |-> {}, items |-> IF valid THEN Batch[n] ELSE <<>>]
           w == Continue(s)
<1>1. /\ worker' = [worker EXCEPT ![x] = w] /\ queue[n] = "ready"
      /\ queue' = [queue EXCEPT ![n] = "locked"] /\ lock' = [lock EXCEPT ![n] = x]
      /\ deliveries' = [deliveries EXCEPT ![n] = @ + 1] /\ artifact' = artifact
  BY DEF Receive, blobs
<1>2. w # Idle /\ w.message = n /\ w.rejected = ~ valid
      /\ \A i \in DOMAIN w.items : \E j \in DOMAIN Batch[n] : w.items[i] = Batch[n][j]
  <2>1. n # NoMessage
    BY IngestionAssumption
  <2>2. s.message = n /\ s.rejected = ~ valid /\ s.items = (IF valid THEN Batch[n] ELSE <<>>)
    OBVIOUS
  <2>3. \A p : LET v == [s EXCEPT !.pc = p]
               IN v.pc = p /\ v.message = s.message /\ v.rejected = s.rejected /\ v.items = s.items
    OBVIOUS
  <2>4. \E p \in {"recover_handoff", "complete"} : w = [s EXCEPT !.pc = p]
    BY <2>1, <2>2 DEF Continue
  <2> HIDE DEF s, w, valid
  <2>5. QED BY <2>2, <2>3, <2>4 DEF Idle
<1> HIDE DEF w, s, valid
<1>3. /\ \A y \in Workers : worker'[y] = IF y = x THEN w ELSE worker[y]
      /\ \A m \in Messages : deliveries'[m] = IF m = n THEN deliveries[m] + 1 ELSE deliveries[m]
      /\ \A m \in Messages : queue'[m] = IF m = n THEN "locked" ELSE queue[m]
      /\ \A m \in Messages : lock'[m] = IF m = n THEN x ELSE lock[m]
      /\ \A m \in Messages : deliveries[m] \in Nat
  BY <1>1 DEF WholeInv, IInv, StateType
<1>4. ItemsOwned'
  BY <1>2, <1>3 DEF WholeInv, ItemsOwned, Owns
<1>5. BegunIsEarlier'
  <2>1. SUFFICES ASSUME NEW m \in Messages, Begun(m)'
                 PROVE  /\ deliveries'[m] > 0
                        /\ queue'[m] = "discarded" => deliveries'[m] > 1
                        /\ \A y \in Workers : Works(worker'[y], m, TRUE) /\ lock'[m] = y
                                                => deliveries'[m] > 1
    BY DEF BegunIsEarlier, Works
  <2>2. CASE m # n
    <3>1. Begun(m)
      BY <1>1, <1>2, <1>3, <2>1, <2>2 DEF Begun, Works
    <3>2. QED BY <1>2, <1>3, <2>2, <3>1 DEF WholeInv, BegunIsEarlier, Works
  <2>3. CASE m = n
    <3>1. deliveries'[m] > 0 /\ queue'[m] = "locked" /\ lock'[m] = x
      BY <1>3, <2>3
    <3>2. Works(worker'[x], m, TRUE) => deliveries'[m] > 1
      <4>1. SUFFICES ASSUME w.rejected = TRUE PROVE deliveries'[m] > 1
        BY <1>3 DEF Works
      <4>2. Begun(m)
        BY <1>1, <1>3, <2>1, <4>1 DEF Begun, Works
      <4>3. deliveries[m] > 0
        BY <4>2 DEF WholeInv, BegunIsEarlier
      <4>4. QED BY <1>3, <2>3, <4>3
    <3>3. QED BY <3>1, <3>2
  <2>4. QED BY <2>2, <2>3
<1>6. QED BY <1>4, <1>5 DEF WholeInv

LEMMA CollectWhole ==
    ASSUME WholeInv, IInv', NEW x \in Workers, Collect(x)
    PROVE  WholeInv'
<1>1. PICK rows \in SetToSeqs(Window) :
        worker' = [worker EXCEPT ![x] =
          Continue([pc |-> "complete", message |-> NoMessage, received |-> now, key |-> key,
                    rejected |-> FALSE, rows |-> detailed, items |-> rows])]
  BY DEF Collect
<1> DEFINE s == [pc |-> "complete", message |-> NoMessage, received |-> now, key |-> key,
                 rejected |-> FALSE, rows |-> detailed, items |-> rows]
           w == Continue(s)
<1>2. w # Idle => w.message = NoMessage /\ w.items = rows
  <2>1. s.message = NoMessage /\ s.items = rows
    OBVIOUS
  <2>2. \A p : LET v == [s EXCEPT !.pc = p] IN v.message = s.message /\ v.items = s.items
    OBVIOUS
  <2>3. w = Idle \/ \E p : w = [s EXCEPT !.pc = p]
    BY <2>1 DEF Continue
  <2> HIDE DEF s, w
  <2>4. QED BY <2>1, <2>2, <2>3
<1>3. \A i \in DOMAIN rows : rows[i] \in GraphRows
  BY DEF SetToSeqs, Window
<1>4. worker' = [worker EXCEPT ![x] = w]
  BY <1>1
<1> HIDE DEF s, w
<1>5. \A y \in Workers : worker'[y] = IF y = x THEN w ELSE worker[y]
  BY <1>4 DEF WholeInv, IInv, StateType
<1>6. UNCHANGED <<artifact, queue, lock, deliveries>>
  BY DEF Collect, blobs
<1>7. ItemsOwned'
  BY <1>2, <1>3, <1>5 DEF WholeInv, ItemsOwned, Owns
<1>8. ASSUME NEW m \in Messages, NEW b, NEW y \in Workers, Works(worker'[y], m, b)
      PROVE  Works(worker[y], m, b)
  BY <1>2, <1>5, <1>8, IngestionAssumption DEF Works
<1>9. \A m \in Messages : Begun(m)' => Begun(m)
  BY <1>6, <1>8 DEF Begun, Works
<1>10. BegunIsEarlier'
  <2>1. SUFFICES ASSUME NEW m \in Messages, Begun(m)
                 PROVE  /\ deliveries[m] > 0
                        /\ queue[m] = "discarded" => deliveries[m] > 1
                        /\ \A y \in Workers : Works(worker'[y], m, TRUE) /\ lock[m] = y
                                                => deliveries[m] > 1
    BY <1>6, <1>9 DEF BegunIsEarlier, Works
  <2>2. QED BY <1>8, <2>1 DEF WholeInv, BegunIsEarlier
<1>11. QED BY <1>7, <1>10 DEF WholeInv

LEMMA OutsideWhole ==
    ASSUME WholeInv, IInv',
           \/ Tick \/ RotateKey \/ PurgeComplete \/ PurgeStop \/ UNCHANGED vars
           \/ \E r \in GraphRows : AddDetail(r)
           \/ \E m \in Messages : Send(m) \/ LockExpires(m) \/ MessageExpires(m) \/ PurgeReceipt(m)
    PROVE  WholeInv'
<1>1. UNCHANGED <<artifact, worker, deliveries>>
  BY DEF Tick, RotateKey, PurgeComplete, PurgeStop, AddDetail, Send, LockExpires, MessageExpires,
         PurgeReceipt, blobs, vars
<1>2. \A m \in Messages : /\ lock'[m] = lock[m] \/ lock'[m] = NoWorker
                          /\ queue'[m] = "discarded" => queue[m] = "discarded"
  BY DEF Tick, RotateKey, PurgeComplete, PurgeStop, AddDetail, Send, LockExpires, MessageExpires,
         PurgeReceipt, vars, WholeInv, IInv, StateType, QueueOK
<1>3. ItemsOwned'
  BY <1>1 DEF WholeInv, ItemsOwned, Owns
<1>4. \A m \in Messages : Begun(m)' => Begun(m)
  BY <1>1 DEF Begun, Works
<1>5. BegunIsEarlier'
  BY <1>1, <1>2, <1>4, IngestionAssumption DEF WholeInv, BegunIsEarlier, Works
<1>6. QED BY <1>3, <1>5 DEF WholeInv

\* When messages do not share records, a rejected batch left something behind
\* only through an earlier delivery that found it normal as a whole
\* (_process_event_grid_message normalizes every record before it persists one).
THEOREM RejectedBatchesWhole ==
    ASSUME DistinctBatches
    PROVE  Spec => []RejectedBatchIsWhole
<1>1. Init => WholeInv
  <2>1. SUFFICES ASSUME Init PROVE ItemsOwned /\ BegunIsEarlier
    BY InitOK DEF WholeInv
  <2>2. \A m \in Messages : ~ Begun(m)
    BY <2>1, IngestionAssumption DEF Init, Begun, Works
  <2>3. QED BY <2>1, <2>2 DEF Init, ItemsOwned, BegunIsEarlier
<1>2. WholeInv /\ [Next]_vars => WholeInv'
  <2> SUFFICES ASSUME WholeInv, [Next]_vars PROVE WholeInv'
    OBVIOUS
  <2>1. IInv'
    BY NextOK DEF WholeInv
  <2>2. CASE \/ Tick \/ RotateKey \/ PurgeComplete \/ PurgeStop \/ UNCHANGED vars
             \/ \E r \in GraphRows : AddDetail(r)
             \/ \E m \in Messages : Send(m) \/ LockExpires(m) \/ MessageExpires(m) \/ PurgeReceipt(m)
    BY <2>1, <2>2, OutsideWhole
  <2>3. ASSUME NEW x \in Workers, Persist(x) \/ CompleteMessage(x) \/ Stop(x) PROVE WholeInv'
    BY <2>1, <2>3, PersistWhole, EndWhole
  <2>4. ASSUME NEW x \in GraphWorkers, Collect(x) PROVE WholeInv'
    BY <2>1, <2>4, CollectWhole DEF Workers
  <2>5. ASSUME NEW x \in GridWorkers, NEW m \in Messages, Receive(x, m) PROVE WholeInv'
    BY <2>1, <2>5, ReceiveWhole DEF Workers
  <2>6. QED BY <2>2, <2>3, <2>4, <2>5 DEF Next
<1>3. WholeInv => RejectedBatchIsWhole
  BY DEF WholeInv, BegunIsEarlier, Begun, RejectedBatchIsWhole
<1>4. QED BY <1>1, <1>2, <1>3, PTL DEF Spec

=============================================================================
