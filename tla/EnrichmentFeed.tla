--------------------------- MODULE EnrichmentFeed ---------------------------
(***************************************************************************)
(* WC-027: from a signed guidance authority to the feed-v2 index           *)
(* (src/src/athena_context/guidance, src/src/athena_context/enrichment).   *)
(*                                                                         *)
(* The guidance authority publisher turns a request for the current        *)
(* occurrence of an incident into the incident's one activation and a      *)
(* trigger.  The enrichment runtime takes the trigger, writes the          *)
(* incident's row of the feed registry, projects the whole registry onto   *)
(* the v1 active index, replaces incidents/feed-v2.json by the projection  *)
(* and enqueues notification v2.  Meanwhile the orchestrator and the       *)
(* heartbeat of WC-016 (module IncidentFeed) go on publishing occurrences  *)
(* and replacing the v1 index.                                             *)
(*                                                                         *)
(* A binding stands for the request, the authority, the binding, the       *)
(* enrichment, the feed pointer and the registry row derived from it: all  *)
(* are functions of the request and are created or found equal.  An index  *)
(* stands for its digest.  Time passes with the v1 index, which the        *)
(* heartbeat keeps renewing; that a request expires is a step.             *)
(***************************************************************************)
EXTENDS Integers, Sequences, FiniteSets, FiniteSetsExt

CONSTANTS
    Incidents,
    Listed0,        \* incidents that the feed-v2 index lists when the model starts
    Producers,      \* executions of the enrichment runtime that can overlap
    Skew,           \* _MAX_CLOCK_SKEW
    MaxAttempts,    \* MAX_FEED_V2_PUBLICATION_ATTEMPTS
    MaxDelivery,    \* deliveries after which the trigger queue dead-letters
    MaxRequests,    \* bound: guidance requests
    MaxOccurrence,  \* bound: occurrences, per incident
    MaxIndex,       \* bound: time of the v1 index
    MaxFaults,      \* bound: crashes, failed calls, lost answers and locks, expiries
    None

ASSUME FeedAssumption ==
    /\ IsFiniteSet(Incidents) /\ Listed0 \subseteq Incidents /\ IsFiniteSet(Producers)
    /\ Skew \in Nat /\ MaxAttempts \in Nat \ {0} /\ MaxDelivery \in Nat \ {0}
    /\ MaxRequests \in Nat /\ MaxOccurrence \in [Incidents -> Nat]
    /\ MaxIndex \in Nat /\ MaxFaults \in Nat
    /\ \A i \in Listed0 : MaxOccurrence[i] # 0

Occurrences == [number : UNION {1 .. MaxOccurrence[i] : i \in Incidents},
                lifecycle : {"active", "resolved"}]
Bindings == [incident : Incidents, occurrence : Occurrences, request : 0 .. MaxRequests]
Indexes == [at : 0 .. MaxIndex, entries : [Incidents -> Occurrences \cup {None}]]
Documents == [source : Indexes, at : Nat, active : SUBSET Bindings, resolved : SUBSET Bindings]

ASSUME NoneAssumption ==
    None \notin Occurrences /\ None \notin Bindings /\ None \notin Indexes /\ None \notin Documents

VARIABLES
    current,    \* v1: per incident, the occurrence incidents/<id>/current.json shows
    index,      \* v1: incidents/active.json
    requests,   \* guidance requests on the queue
    submitted,  \* number of guidance requests so far
    expired,    \* bindings whose validity ended
    activation, \* per incident, the binding of the activation row
    publisher,  \* the execution of the guidance authority publisher
    queued,     \* per incident, the triggers of its session
    settled,    \* triggers that were completed
    deliveries, \* per trigger that was delivered, how often
    faults,     \* faults so far
    registry,   \* per incident, the row of the feed registry
    head,       \* incidents/feed-v2.json
    notified,   \* bindings whose notification v2 was enqueued
    producer    \* per execution of the enrichment runtime, its state

v1Vars == <<current, index>>
envVars == <<v1Vars, faults>>
guidanceVars == <<requests, submitted, expired, activation, publisher>>
brokerVars == <<queued, settled, deliveries>>
feedVars == <<registry, head, notified>>
vars == <<v1Vars, guidanceVars, brokerVars, feedVars, producer, faults>>

Idle == [pc |-> "idle"]

\* What was published for the incidents in Listed0 before the model starts.
Published(i) == [incident |-> i, request |-> 0, occurrence |-> [number |-> 1, lifecycle |-> "active"]]
Initially(i, value) == IF i \in Listed0 THEN value ELSE None

Init ==
    /\ current = [i \in Incidents |-> Initially(i, Published(i).occurrence)]
    /\ index = [at |-> 0, entries |-> current]
    /\ requests = {} /\ submitted = 0 /\ expired = {}
    /\ activation = [i \in Incidents |-> Initially(i, Published(i))]
    /\ publisher = Idle
    /\ queued = [i \in Incidents |-> <<>>] /\ faults = 0
    /\ deliveries = [b \in {Published(i) : i \in Listed0} |-> 1]
    /\ registry = activation
    /\ head = IF Listed0 = {} THEN None
              ELSE [source |-> index, at |-> 0, resolved |-> {},
                    active |-> {Published(i) : i \in Listed0}]
    /\ settled = {Published(i) : i \in Listed0} /\ notified = settled
    /\ producer = [p \in Producers |-> Idle]

-----------------------------------------------------------------------------
(* WC-016, as its publications show themselves to readers *)

\* publish_incident, first part: an occurrence that changes what the index shows
\* becomes current.
PublishCurrent(i) ==
    LET number == IF current[i] = None THEN 1 ELSE current[i].number + 1 IN
    /\ number <= MaxOccurrence[i]
    /\ current' = [current EXCEPT ![i] =
                     [number |-> number,
                      lifecycle |-> IF index.entries[i] = None THEN "active" ELSE "resolved"]]
    /\ UNCHANGED <<index, guidanceVars, brokerVars, feedVars, producer, faults>>

\* The index after an update is newer than the one before.
ReplaceIndex(entries) ==
    /\ index' = [at |-> index.at + 1, entries |-> entries]
    /\ index'.at <= MaxIndex
    /\ UNCHANGED <<current, guidanceVars, brokerVars, feedVars, producer, faults>>

\* publish_incident, second part.
PublishIndex(i) ==
    /\ current[i] # None
    /\ IF current[i].lifecycle = "active" THEN index.entries[i] # current[i]
       ELSE index.entries[i] # None
    /\ ReplaceIndex([index.entries EXCEPT ![i] =
                       IF current[i].lifecycle = "active" THEN current[i] ELSE None])

Heartbeat == ReplaceIndex(index.entries)

\* What the code cannot rule out: a crash, a failed call, a lost answer, a lost
\* lock, or a request that expires before it is served.
Fault == faults < MaxFaults /\ faults' = faults + 1

-----------------------------------------------------------------------------
(* GuidanceAuthorityPublisher *)

\* submit_wc027_guidance_authority_request, for a current occurrence that has no row.
Submit(i) ==
    /\ current[i] # None /\ submitted < MaxRequests
    /\ (registry[i] # None => registry[i].occurrence # current[i])
    /\ submitted' = submitted + 1
    /\ requests' = requests \cup
         {[incident |-> i, occurrence |-> current[i], request |-> submitted']}
    /\ UNCHANGED <<envVars, expired, activation, publisher, brokerVars, feedVars, producer>>

\* Time: the validity of a request ends.
Expire(b) ==
    /\ b \notin expired
    /\ Fault
    /\ expired' = expired \cup {b}
    /\ UNCHANGED <<v1Vars, requests, submitted, activation, publisher, brokerVars, feedVars, producer>>

\* _validate_current_authority: the request's occurrence is current and it is the
\* incident's entry in the active index.
CurrentAuthority(b) ==
    /\ current[b.incident] = b.occurrence
    /\ index.entries[b.incident] = b.occurrence

Rejected(b) == b \in expired \/ ~ CurrentAuthority(b)

\* A request that is not valid is dead-lettered.
RejectRequest(b) ==
    /\ publisher = Idle
    /\ b \in requests /\ Rejected(b)
    /\ requests' = requests \ {b}
    /\ UNCHANGED <<envVars, submitted, expired, activation, publisher, brokerVars, feedVars, producer>>

\* publish: the authority that was read; the immutable assets are written.
Authorize(b) ==
    /\ publisher = Idle
    /\ b \in requests /\ ~ Rejected(b)
    /\ publisher' = [pc |-> "activate", binding |-> b, index |-> index]
    /\ UNCHANGED <<envVars, submitted, expired, requests, activation, brokerVars, feedVars, producer>>

\* The execution ends; its request is settled, or stays on the queue.
EndRequest(done) ==
    /\ publisher' = Idle
    /\ requests' = IF done THEN requests \ {publisher.binding} ELSE requests

\* _require_unchanged_authority
Unchanged == CurrentAuthority(publisher.binding) /\ index = publisher.index

\* Another binding for the same occurrence that has not expired.
Competes(b, previous) ==
    /\ previous # None /\ previous # b
    /\ previous.occurrence = b.occurrence
    /\ previous \notin expired

\* The second look at the authority, then read_current and compare_and_swap of
\* the activation row.
Activate ==
    LET b == publisher.binding
        previous == activation[b.incident]
    IN
    /\ publisher.pc = "activate"
    /\ \/ /\ ~ CurrentAuthority(b) \/ (Unchanged /\ b \in expired)
          /\ EndRequest(TRUE)
          /\ UNCHANGED activation
       \/ /\ CurrentAuthority(b)
          /\ ~ Unchanged \/ (b \notin expired /\ Competes(b, previous))
          /\ EndRequest(FALSE)
          /\ UNCHANGED activation
       \/ /\ Unchanged /\ b \notin expired /\ ~ Competes(b, previous)
          /\ activation' = [activation EXCEPT ![b.incident] = b]
          /\ publisher' = [publisher EXCEPT !.pc = "enqueue"]
          /\ UNCHANGED requests
    /\ UNCHANGED <<envVars, submitted, expired, brokerVars, feedVars, producer>>

\* The third look, the activation once more, and the trigger.  The queue drops a
\* trigger it has seen.  The request may stay on its queue after the trigger is sent.
Enqueue ==
    LET b == publisher.binding IN
    /\ publisher.pc = "enqueue"
    /\ \/ /\ ~ CurrentAuthority(b) \/ (Unchanged /\ b \in expired)
          /\ EndRequest(TRUE)
          /\ UNCHANGED <<queued, deliveries, faults>>
       \/ /\ CurrentAuthority(b) /\ ~ Unchanged
          /\ EndRequest(FALSE)
          /\ UNCHANGED <<queued, deliveries, faults>>
       \/ /\ Unchanged /\ b \notin expired
          /\ \/ EndRequest(TRUE) /\ UNCHANGED faults
             \/ EndRequest(FALSE) /\ Fault
          /\ IF b \in DOMAIN deliveries THEN UNCHANGED <<queued, deliveries>>
             ELSE /\ queued' = [queued EXCEPT ![b.incident] = Append(@, b)]
                  /\ deliveries' = [c \in DOMAIN deliveries \cup {b} |->
                                      IF c = b THEN 0 ELSE deliveries[c]]
    /\ UNCHANGED <<v1Vars, submitted, expired, activation, settled, feedVars, producer>>

PublisherCrash ==
    /\ publisher # Idle
    /\ Fault
    /\ EndRequest(FALSE)
    /\ UNCHANGED <<v1Vars, submitted, expired, activation, brokerVars, feedVars, producer>>

-----------------------------------------------------------------------------
(* run_wc027_enrichment_feed_worker: a session and its oldest trigger *)

At(p, label) == producer[p].pc = label
Subject(p) == producer[p].binding.incident
Goto(p, w) == producer' = [producer EXCEPT ![p] = w]

SessionFree(i) == \A p \in Producers : producer[p] # Idle /\ Subject(p) = i => ~ producer[p].lock

\* The trigger that the next receiver of the session gets.
Waits(i) == queued[i] # <<>> /\ SessionFree(i)
Oldest(i) == Head(queued[i])
Deliver(i) == deliveries' = [deliveries EXCEPT ![Oldest(i)] = @ + 1]

\* The trigger leaves the queue: completed, expired or dead-lettered.
Remove(i) == queued' = [queued EXCEPT ![i] = Tail(@)]

\* The message goes back to the queue, or to the dead letters.
GiveBack(i) == IF deliveries[Oldest(i)] < MaxDelivery THEN UNCHANGED queued ELSE Remove(i)

\* The execution ends.  Settling fails once the session is lost.
Settle(p, how) ==
    /\ Goto(p, Idle)
    /\ IF producer[p].lock
       THEN /\ IF how = "abandon" THEN GiveBack(Subject(p)) ELSE Remove(Subject(p))
            /\ settled' = IF how = "complete" THEN settled \cup {producer[p].binding} ELSE settled
       ELSE UNCHANGED <<queued, settled>>
    /\ UNCHANGED deliveries

\* The execution goes on as w, or, when the code raises (None), abandons the message.
Continue(p, w) ==
    \/ w # None /\ Goto(p, w) /\ UNCHANGED brokerVars
    \/ w = None /\ Settle(p, "abandon")

\* An error of any call, abandon_message, or the end of the process.
Fail(p) ==
    /\ producer[p] # Idle
    /\ Fault
    /\ Settle(p, "abandon")
    /\ UNCHANGED <<v1Vars, guidanceVars, feedVars>>

LoseLock(p) ==
    /\ producer[p] # Idle /\ producer[p].lock
    /\ Fault
    /\ GiveBack(Subject(p))
    /\ Goto(p, [producer[p] EXCEPT !.lock = FALSE])
    /\ UNCHANGED <<v1Vars, guidanceVars, settled, deliveries, feedVars>>

\* The time to live of a trigger is what is left of its request's validity.
ExpireTrigger(i) ==
    /\ Waits(i) /\ Oldest(i) \in expired
    /\ Remove(i)
    /\ UNCHANGED <<envVars, guidanceVars, settled, deliveries, feedVars, producer>>

\* verify_guidance_authority_activation, and the binding is for what is current.
Authorized(b) ==
    /\ activation[b.incident] = b
    /\ b \notin expired
    /\ current[b.incident] = b.occurrence

\* The binding is refused before anything is written.
RejectTrigger(i) ==
    /\ Waits(i) /\ ~ Authorized(Oldest(i))
    /\ \E p \in Producers : producer[p] = Idle
    /\ Deliver(i) /\ Remove(i)
    /\ UNCHANGED <<envVars, guidanceVars, settled, feedVars, producer>>

\* The authority is read; the clock is ahead of the v1 index.
Receive(p, i) ==
    LET published == index.at + 1 IN
    /\ producer[p] = Idle
    /\ Waits(i) /\ Authorized(Oldest(i))
    /\ Deliver(i)
    /\ Goto(p, [pc |-> "enrich", binding |-> Oldest(i), lock |-> TRUE, published |-> published,
                at |-> published, outer |-> 1, tries |-> 1,
                index |-> index, own |-> None, candidate |-> None, seen |-> None])
    /\ UNCHANGED <<envVars, guidanceVars, queued, settled, feedVars>>

\* IncidentEnrichmentPublicationService.publish, after the correlation: the v1
\* index must still be the one the runtime read.  The assets are immutable.
Coherent(w) ==
    /\ current[w.binding.incident] = w.binding.occurrence
    /\ index = w.index
    /\ index.entries[w.binding.incident] =
         IF w.binding.occurrence.lifecycle = "active" THEN w.binding.occurrence ELSE None

-----------------------------------------------------------------------------
(* AzureTableIncidentFeedRegistry.put *)

\* validate_incident_feed_registry_record_authority
IsCurrent(b) == current[b.incident] = b.occurrence

Rows == {registry[i] : i \in Incidents} \ {None}

\* The enrichment, then the checks before the row is written and the snapshot the
\* write is conditional on.
Enrich(p) ==
    LET w == [producer[p] EXCEPT !.index = None]
        own == registry[Subject(p)]
    IN
    /\ At(p, "enrich")
    /\ \/ ~ Coherent(producer[p]) /\ Settle(p, "reject")
       \/ /\ Coherent(producer[p])
          /\ Continue(p, IF own = w.binding THEN [w EXCEPT !.pc = "source"]
                         ELSE IF own # None /\ IsCurrent(own) THEN None
                         ELSE [w EXCEPT !.pc = "write",
                                 !.own = [row |-> own, size |-> Cardinality(Rows)]])
    /\ UNCHANGED <<envVars, guidanceVars, feedVars>>

\* A new row together with the capacity row, or the row alone; each on the
\* condition that it is as it was read.
Write(p) ==
    LET b == producer[p].binding
        own == producer[p].own
        unmodified == registry[b.incident] = own.row
                        /\ (own.row = None => Cardinality(Rows) = own.size)
    IN
    /\ At(p, "write")
    /\ registry' = IF unmodified THEN [registry EXCEPT ![b.incident] = b] ELSE registry
    /\ Goto(p, [producer[p] EXCEPT !.pc = "source", !.own = None])
    /\ UNCHANGED <<envVars, guidanceVars, brokerVars, head, notified>>

-----------------------------------------------------------------------------
(* IncidentFeedIndexPublicationService.publish, within the attempts of        *)
(* IncidentEnrichmentFeedPublicationService.publish                           *)

\* Defect: the entries of the v1 index that have no row yet are passed over.
ProjectsPrepared(source) ==
    /\ \A r \in Rows : r.occurrence.lifecycle = "active" => source.entries[r.incident] # None
    /\ \A r \in Rows : IsCurrent(r)

\* project_incident_feed_registry does not raise: every entry of the v1 index
\* has its row, no active row has lost its entry, and the rows are current.
Projects(source) ==
    /\ \A r \in Rows : r.occurrence.lifecycle = "active" => source.entries[r.incident] # None
    /\ \A i \in Incidents : source.entries[i] # None =>
         registry[i] # None /\ registry[i].occurrence = source.entries[i]
    /\ \A r \in Rows : IsCurrent(r)

\* _build_candidate
Candidate(source, at) ==
    [source |-> source, at |-> at,
     active |-> {r \in Rows : r.occurrence.lifecycle = "active"},
     resolved |-> {r \in Rows : r.occurrence.lifecycle = "resolved"}]

Listed(doc) == doc.active \cup doc.resolved

\* _winner_matches_current_authority
Authoritative(doc) ==
    /\ doc.source = index /\ doc.at >= index.at
    /\ \A r \in Listed(doc) : IsCurrent(r)

\* What an execution holds between two publications of the index.
Fresh(w) == [w EXCEPT !.index = None, !.candidate = None, !.seen = None]

\* The next call of publish, with a later time.
PublishAgain(w, at) ==
    IF w.outer < MaxAttempts
    THEN [Fresh(w) EXCEPT !.pc = "source", !.outer = @ + 1, !.tries = 1, !.at = at]
    ELSE None

\* continue, or the error after the last attempt.
NextAttempt(w) ==
    IF w.tries < MaxAttempts THEN [Fresh(w) EXCEPT !.pc = "source", !.tries = @ + 1]
    ELSE PublishAgain(w, w.at + 1)

\* Conflicting content at the same time: the winner's time is known.
Conflict(w, doc) == PublishAgain(w, Max({w.at + 1, doc.at + 1}))

\* A receipt for the index doc: it must list this very binding.
Accept(w, doc) ==
    IF w.binding \in Listed(doc) THEN [Fresh(w) EXCEPT !.pc = "notify"]
    ELSE PublishAgain(w, Max({w.at, doc.at + 1}))

\* _put_or_recover_record: whatever put said, the row is there and is current.
\* Then the v1 index is read.
ReadSource(p) ==
    LET w == producer[p] IN
    /\ At(p, "source")
    /\ Continue(p, IF w.outer = 1 /\ w.tries = 1
                     /\ (registry[Subject(p)] # w.binding \/ ~ IsCurrent(w.binding))
                   THEN None
                   ELSE [w EXCEPT !.pc = "project", !.index = index])
    /\ UNCHANGED <<envVars, guidanceVars, feedVars>>

\* The candidate, or the error of the projection.
Project(p) ==
    LET w == producer[p] IN
    /\ At(p, "project")
    /\ Continue(p, IF Projects(w.index)
                   THEN [w EXCEPT !.pc = "decide",
                           !.candidate = Candidate(w.index, Max({w.at, w.index.at}))]
                   ELSE None)
    /\ UNCHANGED <<envVars, guidanceVars, feedVars>>

\* A head that is not authoritative is replaced by a later candidate.
Repair(w) ==
    LET at == Max({w.candidate.at, w.seen.at + 1}) IN
    IF at = w.candidate.at THEN [w EXCEPT !.pc = "commit"]
    ELSE IF Projects(w.index) THEN [w EXCEPT !.pc = "commit", !.candidate = Candidate(w.index, at)]
    ELSE None

\* _classify_current for a head with the same source.
Classify(w, doc) ==
    IF doc = w.candidate \/ doc.at > w.candidate.at THEN Accept(w, doc)
    ELSE IF doc.at = w.candidate.at THEN Conflict(w, doc)
    ELSE [w EXCEPT !.pc = "commit"]

\* read_current, with the ETag, and the source once more.
Decide(p) ==
    LET w == [producer[p] EXCEPT !.seen = head] IN
    /\ At(p, "decide")
    /\ Continue(p, IF index # w.index THEN NextAttempt(w)
                   ELSE IF head = None THEN [w EXCEPT !.pc = "commit"]
                   ELSE IF ~ Authoritative(head) THEN Repair(w)
                   ELSE Classify(w, head))
    /\ UNCHANGED <<envVars, guidanceVars, feedVars>>

\* Defect: the index is uploaded whatever is there.
CommitUnconditionally(p) ==
    LET w == producer[p] IN
    /\ At(p, "commit")
    /\ head' = w.candidate
    /\ Goto(p, [w EXCEPT !.pc = "confirm_head", !.seen = None])
    /\ UNCHANGED <<envVars, guidanceVars, brokerVars, registry, notified>>

\* compare_and_swap: the upload on the condition of the ETag, which stands for the
\* document: its time grows, so none is stored twice.  The answer may be lost.
Commit(p) ==
    LET w == producer[p] IN
    /\ At(p, "commit")
    /\ \/ /\ head = w.seen
          /\ head' = w.candidate
          /\ Goto(p, [w EXCEPT !.pc = "confirm_head", !.seen = None])
          /\ UNCHANGED faults
       \/ /\ head = w.seen
          /\ head' = w.candidate
          /\ Goto(p, [w EXCEPT !.pc = "reconcile", !.seen = None])
          /\ Fault
       \/ /\ head # w.seen
          /\ Goto(p, [w EXCEPT !.pc = "reconcile", !.seen = None])
          /\ UNCHANGED <<head, faults>>
    /\ UNCHANGED <<v1Vars, guidanceVars, brokerVars, registry, notified>>

\* The head that is there after a lost compare_and_swap.
Reconcile(p) ==
    LET w == producer[p]
        older == head.source = w.index /\ head.at < w.candidate.at
    IN
    /\ At(p, "reconcile")
    /\ Continue(p, IF head = None \/ ~ Authoritative(head) \/ older THEN NextAttempt(w)
                   ELSE IF head.source # w.index THEN Accept(w, head)
                   ELSE Classify(w, head))
    /\ UNCHANGED <<envVars, guidanceVars, feedVars>>

\* The committed index is read back and must still mirror the authority.
ConfirmHead(p) ==
    LET w == producer[p] IN
    /\ At(p, "confirm_head")
    /\ Continue(p, IF head = w.candidate /\ Authoritative(head) THEN Accept(w, head)
                   ELSE NextAttempt(w))
    /\ UNCHANGED <<envVars, guidanceVars, feedVars>>

\* Defect: a source that is not ready counts as nothing to notify.
NotifyWhenReady(p) ==
    LET w == producer[p]
        own == {r \in Listed(head) : r.incident = w.binding.incident}
    IN
    /\ At(p, "notify")
    /\ notified' = IF head.source = index THEN notified \cup own ELSE notified
    /\ Goto(p, [w EXCEPT !.pc = "complete"])
    /\ UNCHANGED brokerVars
    /\ UNCHANGED <<envVars, guidanceVars, registry, head>>

\* NotificationV2PublicationService.publish, for the incident's entry in a
\* feed-v2 index that is bound to the v1 index.
Notify(p) ==
    LET w == producer[p]
        own == {r \in Listed(head) : r.incident = w.binding.incident}
        future == index.at > w.published + Skew \/ head.at > w.published + Skew
        ready == head.source = index /\ own # {}
    IN
    /\ At(p, "notify")
    /\ \/ future /\ Settle(p, "reject") /\ UNCHANGED notified
       \/ /\ ~ future /\ ~ ready
          /\ Settle(p, "abandon")
          /\ UNCHANGED notified
       \/ /\ ~ future /\ ready
          /\ notified' = notified \cup own
          /\ Goto(p, [w EXCEPT !.pc = "complete"])
          /\ UNCHANGED brokerVars
    /\ UNCHANGED <<envVars, guidanceVars, registry, head>>

Complete(p) ==
    /\ At(p, "complete")
    /\ Settle(p, "complete")
    /\ UNCHANGED <<envVars, guidanceVars, feedVars>>

Produce(p) ==
    \/ Enrich(p) \/ Write(p) \/ ReadSource(p) \/ Project(p) \/ Decide(p)
    \/ Commit(p) \/ Reconcile(p) \/ ConfirmHead(p)
    \/ Notify(p) \/ Complete(p)

Next ==
    \/ Heartbeat
    \/ \E i \in Incidents : PublishCurrent(i) \/ PublishIndex(i) \/ Submit(i)
    \/ \E b \in requests : Expire(b) \/ RejectRequest(b) \/ Authorize(b)
    \/ \E i \in Incidents : activation[i] # None /\ Expire(activation[i])
    \/ Activate \/ Enqueue \/ PublisherCrash
    \/ \E i \in Incidents : ExpireTrigger(i) \/ RejectTrigger(i)
    \/ \E p \in Producers, i \in Incidents : Receive(p, i)
    \/ \E p \in Producers : Produce(p) \/ Fail(p) \/ LoseLock(p)

Spec == Init /\ [][Next]_vars

\* Jobs are polled and started again, an orchestrator that published an occurrence
\* publishes the index, and the operator asks for guidance on what is current.
FairSpec ==
    /\ Spec
    /\ \A i \in Incidents :
         /\ WF_vars(PublishIndex(i)) /\ WF_vars(Submit(i))
         /\ WF_vars(RejectTrigger(i) \/ \E p \in Producers : Receive(p, i))
    /\ WF_vars(\E b \in requests : RejectRequest(b) \/ Authorize(b))
    /\ WF_vars(Activate) /\ WF_vars(Enqueue)
    /\ \A p \in Producers : WF_vars(Produce(p))

-----------------------------------------------------------------------------
(* Properties *)

\* The state keeps its type.
TypeOK ==
    /\ current \in [Incidents -> Occurrences \cup {None}]
    /\ index \in Indexes
    /\ requests \subseteq Bindings /\ submitted \in 0 .. MaxRequests /\ expired \subseteq Bindings
    /\ activation \in [Incidents -> Bindings \cup {None}]
    /\ queued \in [Incidents -> Seq(DOMAIN deliveries)] /\ DOMAIN deliveries \subseteq Bindings
    /\ \A b \in DOMAIN deliveries : deliveries[b] \in 0 .. MaxDelivery
    /\ settled \subseteq Bindings /\ faults \in 0 .. MaxFaults
    /\ registry \in [Incidents -> Bindings \cup {None}]
    /\ head \in Documents \cup {None} /\ notified \subseteq Bindings

\* The feed-v2 index never shows a part of the v1 index it is bound to: it lists
\* exactly its incidents as active, each with the binding for the very occurrence
\* of its entry, and it never lists an incident both as active and as resolved
\* (project_incident_feed_registry, _validate_active_mirror).
FeedMirrorsAuthority ==
    head # None =>
      /\ head.source.at <= index.at /\ head.at >= head.source.at
      /\ \A i \in Incidents :
           {r.occurrence : r \in {q \in head.active : q.incident = i}}
             = {head.source.entries[i]} \ {None}
      /\ \A r, q \in Listed(head) : r.incident = q.incident => r = q

\* Whatever executions overlap, lose their session or retry: a later feed-v2
\* index has a later time, is bound to no older v1 index and shows no older
\* occurrence, and a row of the registry only gives way to a later occurrence
\* (IncidentFeedIndexPublicationService.publish, AzureTableIncidentFeedRegistry.put).
FeedMovesForward ==
    [][/\ head # None /\ head' # head =>
            /\ head'.at > head.at
            /\ head'.source.at >= head.source.at
            /\ \A r \in Listed(head), q \in Listed(head') :
                 r.incident = q.incident => q.occurrence.number >= r.occurrence.number
       /\ \A i \in Incidents : registry[i] # None /\ registry'[i] # registry[i] =>
            registry'[i].occurrence.number > registry[i].occurrence.number]_vars

\* A trigger is completed only when notification v2 was enqueued for its
\* occurrence, or for a later one of the same incident that an overlapping
\* execution published (Wc027EnrichmentFeedRuntime.publish,
\* run_wc027_enrichment_feed_worker).
CompletedMeansNotified ==
    \A b \in settled : \E n \in notified :
        n.incident = b.incident /\ n.occurrence.number >= b.occurrence.number

\* The v1 index dropped an incident that has a row, and guidance for its resolved
\* occurrence was asked for.
ResolvedRequested(i) ==
    /\ registry[i] # None /\ index.entries[i] = None /\ current[i].lifecycle = "resolved"
    /\ \E b \in requests : b.incident = i /\ b.occurrence = current[i]

\* An incident that feed v2 listed as active stays discoverable after the v1 index
\* dropped it: a guidance request for its resolved occurrence leads to the feed-v2
\* index listing that occurrence, unless the incident becomes active again
\* (docs/adr/0035, invariants; GuidanceAuthorityPublisher._validate_current_authority).
ResolvedDiscoverable ==
    \A i \in Incidents :
        ResolvedRequested(i) ~> \/ current[i].lifecycle = "active"
                                \/ \E r \in Listed(head) :
                                     r.incident = i /\ r.occurrence = current[i]

=============================================================================
