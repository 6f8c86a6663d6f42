--------------------------- MODULE ChangeIngestion --------------------------
(***************************************************************************)
(* WC-025 change ingestion                                                 *)
(* (src/src/athena_context/eventing/change_ingestion.py).  Executions of   *)
(* the Event Grid worker take one message of the queue at a time,          *)
(* normalize all its records and persist each of them as a signed artifact *)
(* and a handoff that pins the artifact's version; executions of the       *)
(* Resource Graph worker do the same for the rows of a time window; the    *)
(* purge worker empties the dead-letter queue.  Executions overlap, stop   *)
(* anywhere and are repeated with a later time of reception.               *)
(*                                                                         *)
(* A record stands for its deduplication key and for what the source says  *)
(* of it, except that a Resource Graph row first appears without the       *)
(* details of its changed properties.                                      *)
(***************************************************************************)
EXTENDS Integers, Sequences, SequencesExt, FiniteSets

CONSTANTS
    GridWorkers,   \* executions of the Event Grid worker that can run at a time
    GraphWorkers,  \* executions of the Resource Graph worker that can run at a time
    Messages,      \* messages Event Grid delivers to the queue
    Batch,         \* [Messages -> Seq(Records)]
    GraphRows,     \* records of the Resource Graph change history
    Records,       \* all records
    Approved,      \* records of resources in the approved scope
    Occurred,      \* [Records -> Nat]
    MaxAge,        \* MAX_CHANGE_EVIDENCE_AGE
    Lookback,      \* window of the Resource Graph query
    MaxDelivery,   \* deliveries after which the queue dead-letters a message
    MaxNow,        \* bound: time
    MaxKey,        \* bound: versions of the signing key
    MaxFailures,   \* bound: executions that stop before their end
    NoWorker,
    NoHandoff,
    NoMessage

Workers == GridWorkers \cup GraphWorkers

ASSUME IngestionAssumption ==
    /\ MaxAge \in Nat /\ Lookback \in Nat /\ Lookback <= MaxAge /\ MaxDelivery \in Nat \ {0}
    /\ MaxNow \in Nat /\ MaxKey \in Nat \ {0} /\ MaxFailures \in Nat
    /\ GraphRows \subseteq Records /\ IsFiniteSet(GraphRows) /\ Approved \subseteq Records
    /\ Occurred \in [Records -> Nat]
    /\ Batch \in [Messages -> Seq(Records)]
    /\ NoWorker \notin Workers /\ NoMessage \notin Messages

\* The deduplication key is taken over the source system too, so an event and a
\* row of the change history are never the same record.
ASSUME SourcesAssumption ==
    \A m \in Messages : \A i \in DOMAIN Batch[m] : Batch[m][i] \notin GraphRows

VARIABLES
    now,       \* the clock
    key,       \* version of the signing key that new executions are given
    failures,  \* executions that have stopped before their end
    detailed,  \* Resource Graph rows whose changed properties are complete
    queue,     \* per message, where it is
    lock,      \* per message, the execution that holds its lock
    deliveries,\* per message, how often it was received
    artifact,  \* per record, the versions of its artifact blob
    handoff,   \* per record, the artifact its handoff blob pins
    receipts,  \* messages with a delivery failure receipt
    purge,     \* the dead-lettered message the purge worker is about to complete
    worker     \* per execution, its state

blobs == <<artifact, handoff>>
env == <<now, key, detailed>>
vars == <<now, key, failures, detailed, queue, lock, deliveries, artifact, handoff, receipts,
          purge, worker>>

Idle == [pc |-> "idle"]
Versions == [received : 0 .. MaxNow, key : 1 .. MaxKey, detailed : BOOLEAN]

ASSUME VersionsAssumption == NoHandoff \notin Versions

Steps == {"recover_handoff", "recover_artifact", "create_artifact", "create_handoff", "complete",
          "conflict"}
Places == {"unsent", "ready", "locked", "dead", "accepted", "discarded", "purged"}

Init ==
    /\ now = 0 /\ key = 1 /\ failures = 0
    /\ detailed = {}
    /\ queue = [m \in Messages |-> "unsent"]
    /\ lock = [m \in Messages |-> NoWorker]
    /\ deliveries = [m \in Messages |-> 0]
    /\ artifact = [r \in Records |-> <<>>]
    /\ handoff = [r \in Records |-> NoHandoff]
    /\ receipts = {}
    /\ purge = NoMessage
    /\ worker = [x \in Workers |-> Idle]

-----------------------------------------------------------------------------
(* Surroundings *)

Tick ==
    /\ now < MaxNow
    /\ now' = now + 1
    /\ UNCHANGED <<key, failures, detailed, queue, lock, deliveries, blobs, receipts, purge, worker>>

\* The deployment gives later executions a new version of the key.
RotateKey ==
    /\ key < MaxKey
    /\ key' = key + 1
    /\ UNCHANGED <<now, failures, detailed, queue, lock, deliveries, blobs, receipts, purge, worker>>

\* Resource Graph adds the changed properties to a row.
AddDetail(r) ==
    /\ r \in GraphRows \ detailed
    /\ detailed' = detailed \cup {r}
    /\ UNCHANGED <<now, key, failures, queue, lock, deliveries, blobs, receipts, purge, worker>>

\* Event Grid delivers to the queue.
Send(m) ==
    /\ queue[m] = "unsent"
    /\ queue' = [queue EXCEPT ![m] = "ready"]
    /\ UNCHANGED <<env, failures, lock, deliveries, blobs, receipts, purge, worker>>

\* The lock of a message ends: it is received again, or dead-lettered.
LockExpires(m) ==
    /\ queue[m] = "locked"
    /\ queue' = [queue EXCEPT ![m] = IF deliveries[m] < MaxDelivery THEN "ready" ELSE "dead"]
    /\ lock' = [lock EXCEPT ![m] = NoWorker]
    /\ UNCHANGED <<env, failures, deliveries, blobs, receipts, purge, worker>>

\* deadLetteringOnMessageExpiration
MessageExpires(m) ==
    /\ queue[m] = "ready" /\ now = MaxNow
    /\ queue' = [queue EXCEPT ![m] = "dead"]
    /\ UNCHANGED <<env, failures, lock, deliveries, blobs, receipts, purge, worker>>

-----------------------------------------------------------------------------
(* Normalization *)

\* _validate_freshness
Fresh(r, received) == received - Occurred[r] \in 0 .. MaxAge

\* normalize_event_grid_change does not raise.
NormalizesEvent(r, received) == r \in Approved /\ Fresh(r, received)

\* Defect: rows are taken before their details are complete.
NormalizesAnyRow(r, received) == r \in Approved /\ Fresh(r, received)

\* normalize_resource_graph_change does not raise; _changed_properties wants as
\* many details as the row counts changes.
NormalizesRow(r, received) == r \in Approved /\ Fresh(r, received) /\ r \in detailed

\* What an execution does after the record it has finished with.
Continue(w) ==
    IF w.items # <<>> THEN [w EXCEPT !.pc = "recover_handoff"]
    ELSE IF w.message = NoMessage THEN Idle
    ELSE [w EXCEPT !.pc = "complete"]

\* Defect: a message is completed before its records are persisted.
ReceiveAndComplete(x, m) ==
    /\ worker[x] = Idle
    /\ queue[m] = "ready"
    /\ LET valid == \A i \in DOMAIN Batch[m] : NormalizesEvent(Batch[m][i], now) IN
       /\ queue' = [queue EXCEPT ![m] = IF valid THEN "accepted" ELSE "discarded"]
       /\ worker' = [worker EXCEPT ![x] =
                       Continue([pc |-> "complete", message |-> NoMessage, received |-> now,
                                 key |-> key, rejected |-> ~ valid, rows |-> {},
                                 items |-> IF valid THEN Batch[m] ELSE <<>>])]
    /\ deliveries' = [deliveries EXCEPT ![m] = @ + 1]
    /\ UNCHANGED <<env, failures, lock, blobs, receipts, purge>>

\* Defect: the records are persisted as they are normalized, up to the first that fails.
ReceivePrefix(x, m) ==
    /\ worker[x] = Idle
    /\ queue[m] = "ready"
    /\ queue' = [queue EXCEPT ![m] = "locked"]
    /\ lock' = [lock EXCEPT ![m] = x]
    /\ deliveries' = [deliveries EXCEPT ![m] = @ + 1]
    /\ LET normal(i) == NormalizesEvent(Batch[m][i], now)
           prefix == {i \in DOMAIN Batch[m] : \A j \in 1 .. i : normal(j)}
       IN worker' = [worker EXCEPT ![x] =
                       Continue([pc |-> "complete", message |-> m, received |-> now, key |-> key,
                                 rejected |-> prefix # DOMAIN Batch[m], rows |-> {},
                                 items |-> SubSeq(Batch[m], 1, Cardinality(prefix))])]
    /\ UNCHANGED <<env, failures, blobs, receipts, purge>>

\* run_event_grid_change_ingestion_worker: one message is received and all its
\* records are normalized; one that fails makes the whole message rejected.
Receive(x, m) ==
    /\ worker[x] = Idle
    /\ queue[m] = "ready"
    /\ queue' = [queue EXCEPT ![m] = "locked"]
    /\ lock' = [lock EXCEPT ![m] = x]
    /\ deliveries' = [deliveries EXCEPT ![m] = @ + 1]
    /\ LET valid == \A i \in DOMAIN Batch[m] : NormalizesEvent(Batch[m][i], now) IN
       worker' = [worker EXCEPT ![x] =
                    Continue([pc |-> "complete", message |-> m, received |-> now, key |-> key,
                              rejected |-> ~ valid, rows |-> {},
                              items |-> IF valid THEN Batch[m] ELSE <<>>])]
    /\ UNCHANGED <<env, failures, blobs, receipts, purge>>

\* collect: the rows of the window in the order of their times; one that does
\* not normalize fails the collection.
Window == {r \in GraphRows : now - Occurred[r] \in 0 .. Lookback}

Collect(x) ==
    /\ worker[x] = Idle
    /\ Window # {}
    /\ \A r \in Window : NormalizesRow(r, now)
    /\ \E rows \in SetToSeqs(Window) :
         /\ \A i, j \in DOMAIN rows : i < j => Occurred[rows[i]] <= Occurred[rows[j]]
         /\ worker' = [worker EXCEPT ![x] =
                         Continue([pc |-> "complete", message |-> NoMessage, received |-> now,
                                   key |-> key, rejected |-> FALSE, rows |-> detailed,
                                   items |-> rows])]
    /\ UNCHANGED <<env, failures, queue, lock, deliveries, blobs, receipts, purge>>

-----------------------------------------------------------------------------
(* persist_change_evidence, for the first of the items; one step per call of *)
(* the blob store, whose blobs never change once they are created           *)

\* _validate_recovered_artifact: same source fields and same key version.  The
\* time of reception is not compared.
Matches(w, a) == a.detailed = (Head(w.items) \in w.rows) /\ a.key = w.key

At(x, step) == worker[x].pc = step
Current(r) == artifact[r][Len(artifact[r])]
Goto(x, w) == worker' = [worker EXCEPT ![x] = w]

\* The next item.
Done(w) == Continue([w EXCEPT !.items = Tail(@)])

\* _recover_durable_handoff: a handoff that is there and matches is the result.
RecoverHandoff(x) ==
    LET w == worker[x]
        r == Head(w.items)
    IN
    /\ At(x, "recover_handoff")
    /\ Goto(x, IF handoff[r] = NoHandoff THEN [w EXCEPT !.pc = "recover_artifact"]
               ELSE IF Matches(w, handoff[r]) THEN Done(w)
               ELSE Idle)
    /\ UNCHANGED <<env, failures, queue, lock, deliveries, blobs, receipts, purge>>

\* An execution whose artifact is known goes on to its handoff.
Pinning(w, a) ==
    [pc |-> "create_handoff", message |-> w.message, received |-> w.received, key |-> w.key,
     rejected |-> w.rejected, rows |-> w.rows, items |-> w.items, pin |-> a]

Unpinned(w) ==
    [pc |-> w.pc, message |-> w.message, received |-> w.received, key |-> w.key,
     rejected |-> w.rejected, rows |-> w.rows, items |-> w.items]

\* _recover_existing_artifact
RecoverArtifact(x) ==
    LET w == worker[x]
        r == Head(w.items)
    IN
    /\ At(x, "recover_artifact")
    /\ Goto(x, IF artifact[r] = <<>> THEN [w EXCEPT !.pc = "create_artifact"]
               ELSE IF Matches(w, Current(r)) THEN Pinning(w, Current(r))
               ELSE Idle)
    /\ UNCHANGED <<env, failures, queue, lock, deliveries, blobs, receipts, purge>>

\* build_change_evidence_artifact
Build(w) ==
    [received |-> w.received, key |-> w.key, detailed |-> Head(w.items) \in w.rows]

\* Defect: an upload that overwrites.
CreateArtifactOverwrites(x) ==
    LET w == worker[x]
        r == Head(w.items)
    IN
    /\ At(x, "create_artifact")
    /\ artifact' = [artifact EXCEPT ![r] = Append(@, Build(w))]
    /\ Goto(x, Pinning(w, Build(w)))
    /\ UNCHANGED <<env, failures, queue, lock, deliveries, handoff, receipts, purge>>

\* The create-only upload; when another execution was first, its artifact is
\* recovered.
CreateArtifact(x) ==
    LET w == worker[x]
        r == Head(w.items)
    IN
    /\ At(x, "create_artifact")
    /\ \/ /\ artifact[r] = <<>>
          /\ artifact' = [artifact EXCEPT ![r] = <<Build(w)>>]
          /\ Goto(x, Pinning(w, Build(w)))
       \/ /\ artifact[r] # <<>>
          /\ Goto(x, IF Matches(w, Current(r)) THEN Pinning(w, Current(r)) ELSE Idle)
          /\ UNCHANGED artifact
    /\ UNCHANGED <<env, failures, queue, lock, deliveries, handoff, receipts, purge>>

\* The create-only handoff; one that is there already is recovered and must be
\* the one this execution would have written.
CreateHandoff(x) ==
    LET w == worker[x]
        r == Head(w.items)
    IN
    /\ At(x, "create_handoff")
    /\ \/ /\ handoff[r] = NoHandoff
          /\ handoff' = [handoff EXCEPT ![r] = w.pin]
          /\ Goto(x, Done(Unpinned(w)))
       \/ /\ handoff[r] # NoHandoff
          /\ Goto(x, IF ~ Matches(w, handoff[r]) THEN Idle
                     ELSE IF handoff[r] = w.pin THEN Done(Unpinned(w))
                     ELSE [Unpinned(w) EXCEPT !.pc = "conflict"])
          /\ UNCHANGED handoff
    /\ UNCHANGED <<env, failures, queue, lock, deliveries, artifact, receipts, purge>>

-----------------------------------------------------------------------------
(* Settlement *)

\* complete_message, for a rejected message and for one whose records are all
\* persisted; it raises when the lock is lost.
CompleteMessage(x) ==
    LET m == worker[x].message IN
    /\ At(x, "complete")
    /\ IF lock[m] = x
       THEN /\ queue' = [queue EXCEPT ![m] = IF worker[x].rejected THEN "discarded" ELSE "accepted"]
            /\ lock' = [lock EXCEPT ![m] = NoWorker]
       ELSE UNCHANGED <<queue, lock>>
    /\ Goto(x, Idle)
    /\ UNCHANGED <<env, failures, deliveries, blobs, receipts, purge>>

\* An execution stops: a call fails, it runs out of time, or it is killed.
Stop(x) ==
    /\ worker[x] # Idle /\ ~ At(x, "conflict")
    /\ failures < MaxFailures
    /\ failures' = failures + 1
    /\ Goto(x, Idle)
    /\ UNCHANGED <<env, queue, lock, deliveries, blobs, receipts, purge>>

\* Defect: a receipt that is there already is an error.
PurgeReceiptOnce(m) ==
    /\ queue[m] = "dead" /\ purge = NoMessage
    /\ m \notin receipts
    /\ receipts' = receipts \cup {m}
    /\ purge' = m
    /\ UNCHANGED <<env, failures, queue, lock, deliveries, blobs, worker>>

\* _persist_change_delivery_failure_receipt: created, or found as it should be.
PurgeReceipt(m) ==
    /\ queue[m] = "dead" /\ purge = NoMessage
    /\ receipts' = receipts \cup {m}
    /\ purge' = m
    /\ UNCHANGED <<env, failures, queue, lock, deliveries, blobs, worker>>

PurgeComplete ==
    /\ purge # NoMessage
    /\ queue' = [queue EXCEPT ![purge] = "purged"]
    /\ purge' = NoMessage
    /\ UNCHANGED <<env, failures, lock, deliveries, blobs, receipts, worker>>

PurgeStop ==
    /\ purge # NoMessage
    /\ failures < MaxFailures
    /\ failures' = failures + 1
    /\ purge' = NoMessage
    /\ UNCHANGED <<env, queue, lock, deliveries, blobs, receipts, worker>>

Persist(x) == RecoverHandoff(x) \/ RecoverArtifact(x) \/ CreateArtifact(x) \/ CreateHandoff(x)

Next ==
    \/ Tick \/ RotateKey
    \/ \E r \in GraphRows : AddDetail(r)
    \/ \E m \in Messages : Send(m) \/ LockExpires(m) \/ MessageExpires(m) \/ PurgeReceipt(m)
    \/ \E x \in Workers :
         Persist(x) \/ CompleteMessage(x) \/ Stop(x)
    \/ \E x \in GraphWorkers : Collect(x)
    \/ \E x \in GridWorkers, m \in Messages : Receive(x, m)
    \/ PurgeComplete \/ PurgeStop

\* Locks end, jobs are started while there are messages, and a started
\* execution goes on.
Fairness ==
    /\ \A m \in Messages :
         /\ WF_vars(LockExpires(m))
         /\ WF_vars(\E x \in GridWorkers : Receive(x, m))
         /\ WF_vars(PurgeReceipt(m))
    /\ \A x \in Workers : WF_vars(Persist(x)) /\ WF_vars(CompleteMessage(x))
    /\ WF_vars(PurgeComplete)

Spec == Init /\ [][Next]_vars
FairSpec == Spec /\ Fairness

-----------------------------------------------------------------------------
(* Properties *)

\* The state keeps its type.
TypeOK ==
    /\ now \in 0 .. MaxNow /\ key \in 1 .. MaxKey /\ failures \in 0 .. MaxFailures
    /\ detailed \subseteq GraphRows
    /\ queue \in [Messages -> Places]
    /\ lock \in [Messages -> Workers \cup {NoWorker}]
    /\ deliveries \in [Messages -> 0 .. MaxDelivery]
    /\ \A r \in Records : \A i \in DOMAIN artifact[r] : artifact[r][i] \in Versions
    /\ handoff \in [Records -> Versions \cup {NoHandoff}]
    /\ receipts \subseteq Messages
    /\ purge \in Messages \cup {NoMessage}

\* What leaves the queue is accounted for, whatever executions stopped on the
\* way: an accepted message has a handoff for each of its records, and a purged
\* one has a failure receipt (_process_event_grid_message,
\* run_event_grid_dead_letter_purge_worker).
SettledIsAccounted ==
    \A m \in Messages :
        /\ queue[m] = "accepted" =>
             \A i \in DOMAIN Batch[m] : handoff[Batch[m][i]] # NoHandoff
        /\ queue[m] = "purged" => m \in receipts

\* A handoff pins a version of its record's artifact that exists, that was fresh
\* when it was received and that holds the complete record, although the handoff
\* may come from another, later execution than the artifact
\* (persist_change_evidence).
HandoffPinsArtifact ==
    \A r \in Records : handoff[r] # NoHandoff =>
        /\ \E i \in DOMAIN artifact[r] : artifact[r][i] = handoff[r]
        /\ Fresh(r, handoff[r].received)
        /\ r \in GraphRows => handoff[r].detailed

\* Executions that persist the same record side by side, with different times of
\* reception, end up with the same handoff: the last error of
\* persist_change_evidence is never raised.
ExecutionsAgree == \A x \in Workers : ~ At(x, "conflict")

\* A message does not stay: it is accepted, discarded or purged, although
\* executions stop and locks are lost.
MessagesLeave ==
    \A m \in Messages :
        queue[m] = "ready" ~> queue[m] \in {"accepted", "discarded", "purged"}

\* A batch is normalized as a whole before its first record is persisted: one
\* that is rejected leaves something behind only when an earlier delivery of the
\* same message, at a time when all its records were fresh, got that far
\* (_process_event_grid_message).
RejectedBatchIsWhole ==
    \A m \in Messages :
        queue[m] = "discarded" /\ (\E i \in DOMAIN Batch[m] : artifact[Batch[m][i]] # <<>>)
          => deliveries[m] > 1

=============================================================================
