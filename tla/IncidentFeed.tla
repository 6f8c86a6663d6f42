---------------------------- MODULE IncidentFeed ----------------------------
(***************************************************************************)
(* The incident orchestrator and the feed it publishes                     *)
(* (src/src/athena_context/eventing/orchestrator.py, incident_state.py,    *)
(* runtime.py, and AzureBlobIncidentAssetPublisher in azure_adapters.py).  *)
(*                                                                         *)
(* Orchestrator executions take reassessment hints from a session-enabled  *)
(* queue (one session per incident), read the live health of the resource, *)
(* and reconcile it with the signed index incidents/active.json: they      *)
(* upload the immutable assets of a new incident state, replace            *)
(* incidents/<id>/current.json, replace the index, and enqueue the         *)
(* notification.  Heartbeat executions re-sign the index as it is when it  *)
(* agrees with the health they observed.  Every call that leaves the       *)
(* process is a step of its own.                                           *)
(*                                                                         *)
(* A signed state is identified by its request (the transition), its       *)
(* lifecycle and the time of the live read, which is also the publishedAt  *)
(* of its pointer: max(published_at, updated_at) is the later of two reads *)
(* of one clock.  Digests are injective, so a blob's ETag or SHA-256 is    *)
(* represented by its content.                                             *)
(***************************************************************************)
EXTENDS Naturals, FiniteSets

CONSTANTS
    Workers,           \* executions of the orchestrator job that can overlap
    Heartbeats,        \* executions of the heartbeat job
    Incidents,         \* incident identifiers, one for each approved resource
    NumRequests,       \* hints, numbered in the order the detector sent them
    incidentOf,        \* the incident of a hint
    MaxDeliveryCount,  \* the queue's maxDeliveryCount
    Failing,           \* bound: hints that may expire, be rejected or have executions that fail
    MaxLockLosses,     \* bound: session locks lost while their holder runs on
    MaxUploadFailures, \* bound: attempts of a heartbeat whose upload may fail
    MaxTime,           \* bound: the clock, in milliseconds
    NoPointer,
    NoIndex,
    NoRequest

Requests == 1 .. NumRequests

\* They are executions of two jobs.
ASSUME ExecutionAssumption == Workers \cap Heartbeats = {}

ASSUME RequestAssumption ==
    /\ NumRequests \in Nat
    /\ incidentOf \in [Requests -> Incidents]
    /\ NoRequest \notin Requests
    /\ Failing \subseteq Requests

ASSUME DeliveryCountAssumption == MaxDeliveryCount \in Nat \ {0}

Lifecycles == {"active", "resolved"}
Pointers == [request : Requests, lifecycle : Lifecycles, published : Nat]
Indexes == [entries : [Incidents -> Pointers \cup {NoPointer}], published : Nat]

ASSUME AbsenceAssumption == NoPointer \notin Pointers /\ NoIndex \notin Indexes

VARIABLES
    clock,       \* the latest time read, in milliseconds
    status,      \* broker: what became of each hint
    deliveries,  \* broker: delivery count of each hint
    lockLosses,  \* broker: session locks lost so far
    assets,      \* blobs: the immutable assets <<kind, content>> uploaded so far
    current,     \* blobs: incidents/<id>/current.json
    index,       \* blobs: incidents/active.json
    notified,    \* notification outbox: <<request, lifecycle>> enqueued
    pc,          \* execution: the call it is about to make
    req,         \* worker: the hint it received
    locked,      \* worker: whether the broker still honours its session lock
    seen,        \* execution: the health it observed
    at,          \* execution: the time of its observation
    snap,        \* execution: the index it read before building a publication
    attempt,     \* heartbeat: attempts begun
    committed,   \* history: the pointers whose publication reached the index
    verdict      \* history: health of each incident at its last reassessment

brokerVars == <<status, deliveries, lockLosses>>
blobVars == <<assets, current, index>>
execVars == <<pc, req, locked, seen, at, snap, attempt>>
historyVars == <<committed, verdict>>
vars == <<clock, brokerVars, blobVars, notified, execVars, historyVars>>

Executions == Workers \cup Heartbeats

-----------------------------------------------------------------------------
(* Vocabulary *)

\* state.json and pointer.json, each with its attestation.
Kinds == {"state", "pointer"}

WorkerPCs == {"idle", "received", "observed", "reconciling", "uploading",
              "pointing", "indexing", "enqueueing", "completing"}
HeartbeatPCs == {"ready", "snapshot", "attesting", "replacing", "recovering", "done"}

Entry(ix, i) == IF ix = NoIndex THEN NoPointer ELSE ix.entries[i]
Active(ix) == {i \in Incidents : Entry(ix, i) # NoPointer}

I(w) == incidentOf[req[w]]

Settled == {"completed", "rejected", "exhausted", "expired"}

Init ==
    /\ clock = 0
    /\ status = [r \in Requests |-> "queued"]
    /\ deliveries = [r \in Requests |-> 0]
    /\ lockLosses = 0
    /\ assets = {}
    /\ current = [i \in Incidents |-> NoPointer]
    /\ index = NoIndex
    /\ notified = {}
    /\ pc = [e \in Executions |-> IF e \in Workers THEN "idle" ELSE "ready"]
    /\ req = [w \in Workers |-> NoRequest]
    /\ locked = [w \in Workers |-> FALSE]
    /\ seen = [e \in Executions |-> [i \in {} |-> TRUE]]
    /\ at = [e \in Executions |-> 0]
    /\ snap = [e \in Executions |-> NoIndex]
    /\ attempt = [h \in Heartbeats |-> 0]
    /\ committed = {}
    /\ verdict = [i \in Incidents |-> TRUE]

-----------------------------------------------------------------------------
(* Time and health *)

\* A read of the clock: it never goes back, and two reads can fall in the same
\* millisecond.
Reads(t) == t <= MaxTime /\ clock' = t

-----------------------------------------------------------------------------
(* Broker *)

\* The execution ends; the next one of the same slot starts afresh.
Finish(w) ==
    /\ pc' = [pc EXCEPT ![w] = "idle"]
    /\ req' = [req EXCEPT ![w] = NoRequest]
    /\ locked' = [locked EXCEPT ![w] = FALSE]
    /\ seen' = [seen EXCEPT ![w] = [i \in {} |-> TRUE]]
    /\ at' = [at EXCEPT ![w] = 0]
    /\ snap' = [snap EXCEPT ![w] = NoIndex]
    /\ UNCHANGED attempt

\* complete_message / dead_letter_message: refused once the lock is lost.
Settle(w, outcome) ==
    /\ Finish(w)
    /\ status' = IF locked[w] THEN [status EXCEPT ![req[w]] = outcome] ELSE status
    /\ UNCHANGED <<deliveries, lockLosses>>

\* The broker takes an unsettled hint back, and dead-letters it once its
\* deliveries are used up.
TakeBack(w) ==
    LET r == req[w] IN
    /\ deliveries' = [deliveries EXCEPT ![r] = @ + 1]
    /\ status' = IF deliveries[r] + 1 >= MaxDeliveryCount
                 THEN [status EXCEPT ![r] = "exhausted"] ELSE status

\* abandon_message, an uncaught error or a crash.
Release(w) ==
    /\ Finish(w)
    /\ IF locked[w] THEN TakeBack(w) ELSE UNCHANGED <<deliveries, status>>
    /\ UNCHANGED lockLosses

Goto(e, label) == pc' = [pc EXCEPT ![e] = label]

\* run_incident_orchestrator_worker: lock the next available session and
\* receive its oldest message.
Receive(w) ==
    /\ pc[w] = "idle"
    /\ \E r \in Requests :
         /\ status[r] = "queued"
         /\ \A q \in Requests : q < r /\ incidentOf[q] = incidentOf[r] => status[q] # "queued"
         /\ \A v \in Workers : locked[v] => incidentOf[req[v]] # incidentOf[r]
         /\ req' = [req EXCEPT ![w] = r]
    /\ Goto(w, "received")
    /\ locked' = [locked EXCEPT ![w] = TRUE]
    /\ UNCHANGED <<seen, at, snap, attempt, brokerVars,
                   clock, blobVars, notified, historyVars>>

\* The broker gives the session to others while its holder runs on.
LoseLock(w) ==
    /\ locked[w] /\ req[w] \in Failing
    /\ lockLosses < MaxLockLosses
    /\ lockLosses' = lockLosses + 1
    /\ locked' = [locked EXCEPT ![w] = FALSE]
    /\ TakeBack(w)
    /\ UNCHANGED <<pc, req, seen, at, snap, attempt,
                   clock, blobVars, notified, historyVars>>

\* defaultMessageTimeToLive with deadLetteringOnMessageExpiration.
ExpireMessage(r) ==
    /\ status[r] = "queued" /\ r \in Failing
    /\ \A w \in Workers : locked[w] => req[w] # r
    /\ status' = [status EXCEPT ![r] = "expired"]
    /\ UNCHANGED <<deliveries, lockLosses, clock, blobVars, notified, execVars, historyVars>>

\* ValueError: the hint fails validation, rederivation or the one-day age check, or
\* the notification of a published state fails the trust binding.
Reject(w) ==
    /\ pc[w] \in {"received", "enqueueing"} /\ req[w] \in Failing
    /\ Settle(w, "rejected")
    /\ UNCHANGED <<clock, blobVars, notified, historyVars>>

\* A crash, or an error of any call: RuntimeError and OSError abandon the
\* message, NotificationV2SourceNotReadyError too, any other ends the process.
Fail(w) ==
    /\ pc[w] # "idle" /\ req[w] \in Failing
    /\ Release(w)
    /\ UNCHANGED <<clock, blobVars, notified, historyVars>>

-----------------------------------------------------------------------------
(* run_incident_reassessment *)

\* ApprovedLiveReassessmentAdapter.reassess reads the clock, then live health,
\* which may have changed any number of times since the last read.
Reassess(w) ==
    /\ pc[w] = "received"
    /\ \E t \in {clock, clock + 1} : Reads(t) /\ at' = [at EXCEPT ![w] = t]
    /\ \E ok \in BOOLEAN : seen' = [seen EXCEPT ![w] = [i \in {I(w)} |-> ok]]
    /\ Goto(w, "observed")
    /\ UNCHANGED <<req, locked, snap, attempt, brokerVars,
                   blobVars, notified, historyVars>>

Healthy(w) == seen[w][I(w)]

\* is_noop_reconciliation
Agrees(w, ix) == Healthy(w) <=> Entry(ix, I(w)) = NoPointer

\* read_active_incident_index, and the decision on what it shows.
ReadIndex(w) ==
    /\ pc[w] = "observed"
    /\ snap' = [snap EXCEPT ![w] = index]
    /\ IF Agrees(w, index)
       THEN /\ Goto(w, "reconciling")
            /\ verdict' = [verdict EXCEPT ![I(w)] = Healthy(w)]
       ELSE Goto(w, "uploading") /\ UNCHANGED verdict
    /\ UNCHANGED <<req, locked, seen, at, attempt, committed, brokerVars,
                   clock, blobVars, notified>>

\* The publication is decided; only the request and its lifecycle are used again.
Conclude(w, label) ==
    /\ Goto(w, label)
    /\ at' = [at EXCEPT ![w] = 0]
    /\ snap' = [snap EXCEPT ![w] = NoIndex]
    /\ UNCHANGED <<req, locked, seen, attempt, brokerVars>>

Lifecycle(w) == IF Healthy(w) THEN "resolved" ELSE "active"

\* read_current_incident_state: current.json with the immutable state it names,
\* all of it verified.
Latest(w) == current[I(w)]

\* Defect: a redelivered hint that has nothing to publish is taken for done.
ReadCurrentNever(w) ==
    /\ pc[w] = "reconciling"
    /\ Conclude(w, "completing")
    /\ UNCHANGED <<clock, blobVars, notified, historyVars>>

\* Defect: the lifecycle of the current state is not compared.
ReadCurrentAnyLifecycle(w) ==
    /\ pc[w] = "reconciling"
    /\ Conclude(w, IF Latest(w) # NoPointer /\ Latest(w).request = req[w]
                   THEN "enqueueing" ELSE "completing")
    /\ UNCHANGED <<clock, blobVars, notified, historyVars>>

\* Nothing to publish: the notification is enqueued again when this very
\* transition is the current state, unless the index shows another state.
ReadCurrent(w) ==
    LET latest == Latest(w)
        repeats == latest # NoPointer /\ latest.request = req[w]
                     /\ latest.lifecycle = Lifecycle(w)
    IN
    /\ pc[w] = "reconciling"
    /\ \/ /\ ~repeats
          /\ Conclude(w, "completing")
       \/ /\ repeats
          /\ Healthy(w) \/ Entry(snap[w], I(w)) = latest
          /\ Conclude(w, "enqueueing")
       \/ /\ repeats
          /\ ~Healthy(w) /\ Entry(snap[w], I(w)) # latest
          /\ Release(w)
    /\ UNCHANGED <<clock, blobVars, notified, historyVars>>

\* build_signed_incident_state and the pointer of build_incident_publication.
PointerOf(w) == [request |-> req[w], lifecycle |-> Lifecycle(w), published |-> at[w]]

\* _build_active_incident_index_publication: strictly newer than its predecessor.
Successor(ix, entries, now) ==
    [entries |-> entries,
     published |-> IF ix = NoIndex \/ now > ix.published THEN now ELSE ix.published + 1]

\* Defect: the new index starts from no entries.
IndexOfOwnEntry(w) ==
    Successor(snap[w],
              [i \in Incidents |-> IF i # I(w) \/ Healthy(w) THEN NoPointer ELSE PointerOf(w)],
              at[w])

\* build_incident_publication: set or remove the incident's own entry.
IndexOf(w) ==
    Successor(snap[w],
              [i \in Incidents |->
                 IF i # I(w) THEN Entry(snap[w], i)
                 ELSE IF Healthy(w) THEN NoPointer ELSE PointerOf(w)],
              at[w])

\* _upload_immutable: a blob is created once, and found equal when it exists.
Uploaded(blobs) == assets' = assets \cup blobs

\* Defect: a failed upload is ignored.
UploadPart(w) ==
    /\ pc[w] = "uploading"
    /\ Uploaded({<<"state", PointerOf(w)>>})
    /\ Goto(w, "pointing")
    /\ UNCHANGED <<req, locked, seen, at, snap, attempt, brokerVars>>
    /\ UNCHANGED <<clock, current, index, notified, historyVars>>

\* Defect: the index is published without the current pointer.
UploadForIndex(w) ==
    /\ pc[w] = "uploading"
    /\ Uploaded({<<"state", PointerOf(w)>>, <<"pointer", PointerOf(w)>>,
                 <<"indexAttestation", IndexOf(w)>>})
    /\ Goto(w, "indexing")
    /\ UNCHANGED <<req, locked, seen, at, snap, attempt, brokerVars>>
    /\ UNCHANGED <<clock, current, index, notified, historyVars>>

\* publish_incident: the immutable assets in order; an upload that fails ends the
\* execution after a part of them.
Upload(w) ==
    LET state == {<<"state", PointerOf(w)>>}
        rest == {<<"pointer", PointerOf(w)>>, <<"indexAttestation", IndexOf(w)>>}
    IN
    /\ pc[w] = "uploading"
    /\ \/ /\ req[w] \in Failing
          /\ Uploaded(state)
          /\ Release(w)
       \/ /\ Uploaded(state \cup rest)
          /\ Goto(w, "pointing")
          /\ UNCHANGED <<req, locked, seen, at, snap, attempt, brokerVars>>
    /\ UNCHANGED <<clock, current, index, notified, historyVars>>

\* Defect: a pointer of the same millisecond counts as newer.
PublishPointerNotOlder(w) ==
    LET latest == current[I(w)] IN
    /\ pc[w] = "pointing"
    /\ latest # NoPointer => PointerOf(w).published >= latest.published
    /\ current' = [current EXCEPT ![I(w)] = PointerOf(w)]
    /\ Goto(w, "indexing")
    /\ UNCHANGED <<req, locked, seen, at, snap, attempt, brokerVars>>
    /\ UNCHANGED <<clock, assets, index, notified, historyVars>>

\* _publish_current_pointer: download, then create or replace by a newer pointer
\* only.  The write is conditional on the ETag of the download, so the two act
\* as one step.
PublishPointer(w) ==
    LET latest == current[I(w)]
        newer == latest # NoPointer => PointerOf(w).published > latest.published
    IN
    /\ pc[w] = "pointing"
    /\ \/ /\ newer \/ latest = PointerOf(w)
          /\ current' = [current EXCEPT ![I(w)] = PointerOf(w)]
          /\ Goto(w, "indexing")
          /\ UNCHANGED <<req, locked, seen, at, snap, attempt, brokerVars>>
       \/ /\ ~newer /\ latest # PointerOf(w)
          /\ Release(w)
          /\ UNCHANGED current
    /\ UNCHANGED <<clock, assets, index, notified, historyVars>>

\* _publish_active_index of the publication new: the index must still be the one
\* it was built from and older, or be the publication itself.
Replaceable(old, new) ==
    index = new \/ (index = old /\ (old # NoIndex => new.published > old.published))

\* Defect: the index is replaced whatever it has become.
PublishIndexUnconditionally(w) ==
    /\ pc[w] = "indexing"
    /\ index' = IndexOf(w)
    /\ committed' = committed \cup {PointerOf(w)}
    /\ verdict' = [verdict EXCEPT ![I(w)] = Healthy(w)]
    /\ Conclude(w, "enqueueing")
    /\ UNCHANGED <<clock, assets, current, notified>>

\* _publish_active_index: the download and the conditional write act as one step.
PublishIndex(w) ==
    /\ pc[w] = "indexing"
    /\ \/ /\ Replaceable(snap[w], IndexOf(w))
          /\ index' = IndexOf(w)
          /\ committed' = committed \cup {PointerOf(w)}
          /\ verdict' = [verdict EXCEPT ![I(w)] = Healthy(w)]
          /\ Conclude(w, "enqueueing")
       \/ /\ ~Replaceable(snap[w], IndexOf(w))
          /\ Release(w)
          /\ UNCHANGED <<index, historyVars>>
    /\ UNCHANGED <<clock, assets, current, notified>>

\* The notification of the state published or found current; the outbox absorbs
\* a repeat by its message identifier.
Enqueue(w) ==
    /\ pc[w] = "enqueueing"
    /\ notified' = notified \cup {<<req[w], Lifecycle(w)>>}
    /\ Goto(w, "completing")
    /\ UNCHANGED <<req, locked, seen, at, snap, attempt, brokerVars,
                   clock, blobVars, historyVars>>

Complete(w) ==
    /\ pc[w] = "completing"
    /\ Settle(w, "completed")
    /\ UNCHANGED <<clock, blobVars, notified, historyVars>>

-----------------------------------------------------------------------------
(* run_incident_feed_heartbeat and run_active_incident_index_heartbeat *)

\* The fields of a heartbeat's local state that a step leaves alone.
HeartbeatKeeps == UNCHANGED <<req, locked, brokerVars, notified, historyVars>>

\* observed_at, which is also the publication time, is read before the signals
\* of the approved resources, each of which may show anything.
Observe(h) ==
    /\ pc[h] = "ready"
    /\ \E t \in {clock, clock + 1} : Reads(t) /\ at' = [at EXCEPT ![h] = t]
    /\ \E signals \in [Incidents -> BOOLEAN] : seen' = [seen EXCEPT ![h] = signals]
    /\ Goto(h, "snapshot")
    /\ UNCHANGED <<snap, attempt, blobVars>> /\ HeartbeatKeeps

\* _validate_active_index_health
Matches(h, ix) == Active(ix) = {i \in Incidents : ~seen[h][i]}

\* The execution ends and its local state is gone.
Stop(h) ==
    /\ Goto(h, "done")
    /\ seen' = [seen EXCEPT ![h] = [i \in {} |-> TRUE]]
    /\ at' = [at EXCEPT ![h] = 0]
    /\ snap' = [snap EXCEPT ![h] = NoIndex]
    /\ attempt' = [attempt EXCEPT ![h] = 0]

\* An attempt: read and validate the index, or end with ValueError.
Snapshot(h) ==
    /\ pc[h] = "snapshot"
    /\ IF Matches(h, index)
       THEN /\ attempt' = [attempt EXCEPT ![h] = @ + 1]
            /\ snap' = [snap EXCEPT ![h] = index]
            /\ Goto(h, "attesting")
            /\ UNCHANGED <<seen, at>>
       ELSE Stop(h)
    /\ UNCHANGED <<clock, blobVars>> /\ HeartbeatKeeps

\* build_active_incident_index_heartbeat: the same entries, newer.
Refreshed(h) == Successor(snap[h], [i \in Incidents |-> Entry(snap[h], i)], at[h])

\* publish_active_incident_index: the attestation first.  An upload of which it is
\* unknown whether it arrived counts as a conflict.
Attest(h) ==
    /\ pc[h] = "attesting"
    /\ \/ Uploaded({<<"indexAttestation", Refreshed(h)>>}) /\ Goto(h, "replacing")
       \/ /\ attempt[h] <= MaxUploadFailures
          /\ UNCHANGED assets \/ Uploaded({<<"indexAttestation", Refreshed(h)>>})
          /\ Goto(h, "recovering")
    /\ UNCHANGED <<seen, at, snap, attempt, clock, current, index>> /\ HeartbeatKeeps

\* Defect: the index is replaced whatever it has become.
ReplaceUnconditionally(h) ==
    /\ pc[h] = "replacing"
    /\ index' = Refreshed(h) /\ Stop(h)
    /\ UNCHANGED <<clock, assets, current>> /\ HeartbeatKeeps

\* _publish_active_index, as in PublishIndex.
Replace(h) ==
    /\ pc[h] = "replacing"
    /\ IF Replaceable(snap[h], Refreshed(h))
       THEN index' = Refreshed(h) /\ Stop(h)
       ELSE Goto(h, "recovering") /\ UNCHANGED <<index, seen, at, snap, attempt>>
    /\ UNCHANGED <<clock, assets, current>> /\ HeartbeatKeeps

\* After a conflict: a valid index at least as new will do, else try again,
\* three times in all.
Recover(h) ==
    /\ pc[h] = "recovering"
    /\ IF /\ Matches(h, index)
          /\ index # NoIndex => index.published < Refreshed(h).published
          /\ attempt[h] < 3
       THEN Goto(h, "snapshot") /\ UNCHANGED <<seen, at, snap, attempt>>
       ELSE Stop(h)
    /\ UNCHANGED <<clock, blobVars>> /\ HeartbeatKeeps

\* A crash or an error of any call.
FailHeartbeat(h) ==
    /\ pc[h] \notin {"ready", "done"}
    /\ Stop(h)
    /\ UNCHANGED <<clock, blobVars>> /\ HeartbeatKeeps

-----------------------------------------------------------------------------
WorkerStep(w) ==
    \/ Receive(w) \/ LoseLock(w) \/ Reject(w) \/ Fail(w)
    \/ Reassess(w) \/ ReadIndex(w) \/ ReadCurrent(w) \/ Upload(w)
    \/ PublishPointer(w) \/ PublishIndex(w) \/ Enqueue(w) \/ Complete(w)

HeartbeatStep(h) ==
    \/ Observe(h) \/ Snapshot(h) \/ Attest(h) \/ Replace(h)
    \/ Recover(h) \/ FailHeartbeat(h)

Next ==
    \/ \E r \in Requests : ExpireMessage(r)
    \/ \E w \in Workers : WorkerStep(w)
    \/ \E h \in Heartbeats : HeartbeatStep(h)

Spec == Init /\ [][Next]_vars

-----------------------------------------------------------------------------
(* Properties *)

\* Every variable keeps its type, and what an execution holds fits where it is
\* in run_incident_reassessment or run_active_incident_index_heartbeat: a worker
\* past its receive has a hint, one past its reassessment the health of that
\* hint's resource, a heartbeat past its observations the health of them all.
TypeOK ==
    /\ clock \in Nat /\ lockLosses \in Nat
    /\ status \in [Requests -> {"queued"} \cup Settled]
    /\ deliveries \in [Requests -> 0 .. MaxDeliveryCount]
    /\ assets \subseteq (Kinds \X Pointers) \cup ({"indexAttestation"} \X Indexes)
    /\ current \in [Incidents -> Pointers \cup {NoPointer}]
    /\ index \in Indexes \cup {NoIndex}
    /\ notified \subseteq Requests \X Lifecycles
    /\ req \in [Workers -> Requests \cup {NoRequest}]
    /\ locked \in [Workers -> BOOLEAN]
    /\ at \in [Executions -> Nat]
    /\ snap \in [Executions -> Indexes \cup {NoIndex}]
    /\ attempt \in [Heartbeats -> 0 .. 3]
    /\ committed \subseteq Pointers
    /\ verdict \in [Incidents -> BOOLEAN]
    /\ DOMAIN pc = Executions /\ DOMAIN seen = Executions
    /\ \A w \in Workers :
         /\ pc[w] \in WorkerPCs
         /\ pc[w] = "idle" <=> req[w] = NoRequest
         /\ locked[w] => pc[w] # "idle" /\ status[req[w]] = "queued"
         /\ seen[w] \in IF pc[w] \in {"idle", "received"} THEN [{} -> BOOLEAN]
                        ELSE [{I(w)} -> BOOLEAN]
    /\ \A h \in Heartbeats :
         /\ pc[h] \in HeartbeatPCs
         /\ pc[h] \notin {"ready", "done"} => seen[h] \in [Incidents -> BOOLEAN]

\* What the feed refers to exists: current.json and every entry of active.json
\* name a pointer whose four immutable assets are uploaded, and active.json is
\* attested, at every moment and whichever publisher wins or dies
\* (publish_incident uploads first, publishes after).
FeedReferencesExist ==
    /\ \A i \in Incidents :
         \A p \in {current[i], Entry(index, i)} \ {NoPointer} :
            \A k \in Kinds : <<k, p>> \in assets
    /\ index # NoIndex => <<"indexAttestation", index>> \in assets

\* The index never shows a state newer than the incident's current.json, on
\* which the repair of a missed notification depends (_publish_current_pointer
\* comes before _publish_active_index).
IndexTrailsCurrent ==
    \A i \in Active(index) :
        current[i] # NoPointer /\ current[i].published >= index.entries[i].published

\* What a step may do to the entries of the index.
ChangesOwnEntry ==
    \A i \in Incidents :
        Entry(index', i) # Entry(index, i) =>
            \E w \in Workers : pc[w] = "indexing" /\ pc'[w] = "enqueueing" /\ I(w) = i

\* No update of another publisher is lost: the entry of an incident changes only
\* in the index write of an execution that reassesses that incident, and never
\* in a heartbeat (the SHA-256 and ETag checks of _publish_active_index).
OwnEntryOnly == [][ChangesOwnEntry]_vars

\* What a step may do to the two kinds of mutable blobs.
ReplacesByNewer ==
    /\ index' # index =>
         index' # NoIndex /\ (index # NoIndex => index'.published > index.published)
    /\ \A i \in Incidents :
         current'[i] # current[i] =>
            /\ current'[i] # NoPointer
            /\ current[i] # NoPointer => current'[i].published > current[i].published

\* Neither active.json nor a current.json is ever replaced by one that is not
\* strictly newer, and none disappears.
FeedMovesForward == [][ReplacesByNewer]_vars

\* A heartbeat asserts freshness only of an index whose active incidents are the
\* ones it saw unhealthy, and leaves the entries alone: a transition that races
\* it makes it lose, not overwrite (run_active_incident_index_heartbeat).
HeartbeatAssertsObserved ==
    [][\A h \in Heartbeats :
         pc[h] = "replacing" /\ pc'[h] = "done" /\ index' # index =>
            /\ Matches(h, index')
            /\ \A i \in Incidents : Entry(index', i) = Entry(index, i)]_vars

\* As long as no session was lost, a notification is enqueued only for a state whose
\* publication reached the index, also when a redelivered hint enqueues it again.
NotificationFollowsPublication ==
    lockLosses = 0 =>
      \A n \in notified : \E p \in committed : p.request = n[1] /\ p.lifecycle = n[2]

\* As long as no session was lost, a hint whose publication is the incident's
\* current state is not completed before its notification is enqueued, however often
\* it is redelivered and whatever the health did in between.
CompletedMeansNotified ==
    lockLosses = 0 =>
      \A i \in Incidents :
        LET p == current[i] IN
        p \in committed /\ status[p.request] = "completed" =>
            <<p.request, p.lifecycle>> \in notified

\* The index shows an incident exactly when its last concluded reassessment found
\* the resource unhealthy: neither the compare-and-swap against other incidents
\* nor a retry or a heartbeat loses or revives an entry.
IndexFollowsReassessment ==
    \A i \in Incidents : i \in Active(index) <=> ~verdict[i]

=============================================================================
