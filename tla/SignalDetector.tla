--------------------------- MODULE SignalDetector ---------------------------
(***************************************************************************)
(* The scheduled signal detector                                           *)
(* (src/src/athena_context/eventing/detector.py): executions of a          *)
(* cron-triggered job that compare the live health of approved resources   *)
(* with durable checkpoints and queue one reassessment request for every   *)
(* change.  Executions exclude each other by a lease row whose expiry is   *)
(* computed from a clock truncated to the minute; a pending request is     *)
(* staged before it is sent and committed after.                           *)
(*                                                                         *)
(* Time is counted in ticks.  An execution may stop at any step, and is    *)
(* stopped ReplicaTimeout ticks after its start.  Operations of the        *)
(* checkpoint table are one step each (their read and conditional write    *)
(* cannot be separated by another execution: RunExclusion), the lease's    *)
(* read and conditional write are separate steps.                          *)
(***************************************************************************)
EXTENDS Integers, Sequences

CONSTANTS
    Executions,      \* executions of the job; each runs once, its lease owner id is its own
    NumResources,    \* approved resources, in the order of the approved roles
    Minute,          \* ticks in a minute, the detector's clock resolution
    LeaseTime,       \* _RUN_LEASE_SECONDS
    ReplicaTimeout,  \* replicaTimeout of the detector job
    StartDelay,      \* longest time from a scheduled start to reading the clock
    MaxTime,         \* bound: the last instant
    MaxChanges,      \* bound: changes of live health
    NoOwner

ASSUME TimeAssumption ==
    /\ Minute \in Nat \ {0} /\ LeaseTime \in Nat /\ ReplicaTimeout \in Nat
    /\ StartDelay \in Nat /\ MaxTime \in Nat /\ MaxChanges \in Nat

ASSUME ResourceAssumption == NumResources \in Nat \ {0} /\ NoOwner \notin Executions

\* _RUN_LEASE_SECONDS = 240, the job's replicaTimeout = 180, the minute's 60.
ASSUME LeaseCoversRun == LeaseTime >= ReplicaTimeout + Minute

VARIABLES
    now,       \* the time
    changes,   \* changes of health so far
    health,    \* live health of each resource
    lease,     \* table: the run lease row, its owner, expiry and ETag
    ckpt,      \* table: committed health and pending request of each resource
    accepted,  \* broker: the requests of each resource that were queued, in order
    lastStart, \* scheduler: when it last started an execution
    pc,        \* execution: the call it is about to make
    started,   \* execution: when it was started
    clock,     \* execution: observed_at, the clock it read, truncated
    etag,      \* execution: the ETag of the lease row it read
    loop       \* execution: its progress through the resources

environment == <<now, changes, health, lastStart>>
tables == <<lease, ckpt, accepted>>
vars == <<environment, tables, pc, started, clock, etag, loop>>

-----------------------------------------------------------------------------
(* Vocabulary *)

Resources == 1 .. NumResources

Truncate(t) == t - (t % Minute)

\* A request is identified by its resource, its lifecycle and the truncated
\* time: _synthetic_monitor_event, the deduplication key and routing.py derive
\* every identifier, the broker's message id included, from these.
Requests == [health : {"up", "down"}, minute : Nat]
NoRequest == [health |-> "none", minute |-> 0]

Request(h, t) == [health |-> h, minute |-> t]

\* Holding phases: the execution has the lease and has not given it back.
Holding == {"resuming", "recommitting", "observing", "staging", "initializing",
            "sending", "committing", "releasing", "conflict"}
Starting == {"scheduled", "creating", "reading", "claiming"}
Running == Holding \cup Starting

PCs == Running \cup {"waiting", "done"}

\* Locals of _detect_signal_requests_with_lease: the resource at hand, the
\* committed health loaded and the live health read for each resource ("skip":
\* the resource was resent instead), and the request being committed.
LoopStart == [at |-> 1,
              loaded |-> [r \in Resources |-> "skip"],
              seen |-> [r \in Resources |-> "skip"],
              request |-> NoRequest]

Init ==
    /\ now = 0 /\ changes = 0 /\ lastStart = -1
    /\ health \in [Resources -> {"up", "down"}]
    /\ lease = [owner |-> NoOwner, expires |-> 0, etag |-> 0]
    /\ ckpt = [r \in Resources |-> [committed |-> "none", pending |-> NoRequest]]
    /\ accepted = [r \in Resources |-> << >>]
    /\ pc = [e \in Executions |-> "waiting"]
    /\ started = [e \in Executions |-> 0]
    /\ clock = [e \in Executions |-> 0]
    /\ etag = [e \in Executions |-> 0]
    /\ loop = [e \in Executions |-> LoopStart]

-----------------------------------------------------------------------------
(* Environment *)

\* The replica timeout has stopped every execution whose time is up.
Tick ==
    /\ now < MaxTime
    /\ \A e \in Executions : pc[e] \in Running => now < started[e] + ReplicaTimeout
    /\ now' = now + 1
    /\ UNCHANGED <<changes, health, lastStart, tables, pc, started, clock, etag, loop>>

ChangeHealth(r) ==
    /\ changes < MaxChanges
    /\ changes' = changes + 1
    /\ health' = [health EXCEPT ![r] = IF @ = "up" THEN "down" ELSE "up"]
    /\ UNCHANGED <<now, lastStart, tables, pc, started, clock, etag, loop>>

\* The cron trigger: one execution at the beginning of a minute.
Start(e) ==
    /\ pc[e] = "waiting"
    /\ now % Minute = 0 /\ now # lastStart
    /\ lastStart' = now
    /\ pc' = [pc EXCEPT ![e] = "scheduled"]
    /\ started' = [started EXCEPT ![e] = now]
    /\ UNCHANGED <<now, changes, health, tables, clock, etag, loop>>

\* The process is gone, and its locals with it.
End(e) ==
    /\ pc' = [pc EXCEPT ![e] = "done"]
    /\ started' = [started EXCEPT ![e] = 0]
    /\ clock' = [clock EXCEPT ![e] = 0]
    /\ etag' = [etag EXCEPT ![e] = 0]
    /\ loop' = [loop EXCEPT ![e] = LoopStart]

\* A crash, or the replica timeout: the lease row stays behind.
Stop(e) ==
    /\ pc[e] \in Running
    /\ End(e)
    /\ UNCHANGED <<environment, tables>>

-----------------------------------------------------------------------------
(* acquire_run_lease and release_run_lease *)

Goto(e, label) == pc' = [pc EXCEPT ![e] = label] /\ UNCHANGED <<started, clock>>

\* run_scheduled_signal_detector reads the clock and truncates it.
ReadClock(e) ==
    /\ pc[e] = "scheduled"
    /\ now <= started[e] + StartDelay
    /\ pc' = [pc EXCEPT ![e] = "creating"]
    /\ clock' = [clock EXCEPT ![e] = Truncate(now)]
    /\ UNCHANGED <<environment, tables, started, etag, loop>>

\* Defect: the lease forgets that the clock it starts from is truncated.
TakeForReplicaTime(e) ==
    lease' = [owner |-> e, expires |-> clock[e] + ReplicaTimeout, etag |-> lease.etag + 1]

Take(e) == lease' = [owner |-> e, expires |-> clock[e] + LeaseTime, etag |-> lease.etag + 1]

CreateLease(e) ==
    /\ pc[e] = "creating"
    /\ IF lease.owner = NoOwner
       THEN Take(e) /\ Goto(e, "resuming")
       ELSE Goto(e, "reading") /\ UNCHANGED lease
    /\ UNCHANGED <<environment, ckpt, accepted, etag, loop>>

\* Defect: a lease row left by another execution is taken to be expired.
ReadLeaseAsExpired(e) ==
    /\ pc[e] = "reading"
    /\ IF lease.owner = NoOwner
       THEN End(e)
       ELSE /\ Goto(e, "claiming")
            /\ etag' = [etag EXCEPT ![e] = lease.etag]
            /\ UNCHANGED loop
    /\ UNCHANGED <<environment, tables>>

\* get_entity: gone is an error, a live lease ends the execution quietly.
ReadLease(e) ==
    /\ pc[e] = "reading"
    /\ IF lease.owner = NoOwner \/ lease.expires > clock[e]
       THEN End(e)
       ELSE /\ Goto(e, "claiming")
            /\ etag' = [etag EXCEPT ![e] = lease.etag]
            /\ UNCHANGED loop
    /\ UNCHANGED <<environment, tables>>

\* update_entity under the ETag that was read; another ETag, or none, is an error.
ClaimLease(e) ==
    /\ pc[e] = "claiming"
    /\ IF lease.owner # NoOwner /\ lease.etag = etag[e]
       THEN Take(e) /\ Goto(e, "resuming") /\ UNCHANGED <<etag, loop>>
       ELSE End(e) /\ UNCHANGED lease
    /\ UNCHANGED <<environment, ckpt, accepted>>

\* The finally of detect_signal_requests: delete the row if it is still ours.
ReleaseLease(e) ==
    /\ pc[e] \in {"releasing", "conflict"}
    /\ lease' = IF lease.owner = e THEN [lease EXCEPT !.owner = NoOwner] ELSE lease
    /\ End(e)
    /\ UNCHANGED <<environment, ckpt, accepted>>

\* Any call made under the lease raises: nothing more is done but to release.
Fail(e) ==
    /\ pc[e] \in Holding \ {"releasing", "conflict"}
    /\ Goto(e, "releasing")
    /\ UNCHANGED <<environment, tables, etag, loop>>

-----------------------------------------------------------------------------
(* _detect_signal_requests_with_lease: loops over the resources *)

\* The next resource of a loop, or the first of the next loop.
NextResource(e, thisLoop, nextLoop) ==
    Goto(e, IF loop[e].at < NumResources THEN thisLoop ELSE nextLoop)

NextAt(e) == IF loop[e].at < NumResources THEN loop[e].at + 1 ELSE 1

\* sender.send: duplicate detection drops a message id it has seen.
Send(r, q) ==
    accepted' = IF \E i \in 1 .. Len(accepted[r]) : accepted[r][i] = q
                THEN accepted
                ELSE [accepted EXCEPT ![r] = Append(@, q)]

\* First loop: load the checkpoint; resend what an earlier execution left pending.
Resume(e) ==
    LET r == loop[e].at IN
    /\ pc[e] = "resuming"
    /\ IF ckpt[r].pending = NoRequest
       THEN /\ loop' = [loop EXCEPT ![e].loaded[r] = ckpt[r].committed, ![e].at = NextAt(e)]
            /\ NextResource(e, "resuming", "observing")
            /\ UNCHANGED accepted
       ELSE /\ Send(r, ckpt[r].pending)
            /\ loop' = [loop EXCEPT ![e].request = ckpt[r].pending]
            /\ Goto(e, "recommitting")
    /\ UNCHANGED <<environment, lease, ckpt, etag>>

\* complete_transition, and the loop it returns to.
CompleteTransition(e, thisLoop, nextLoop) ==
    LET r == loop[e].at
        q == loop[e].request IN
    /\ IF ckpt[r].pending = q /\ q # NoRequest
       THEN /\ ckpt' = [ckpt EXCEPT ![r] = [committed |-> q.health, pending |-> NoRequest]]
            /\ NextResource(e, thisLoop, nextLoop)
            /\ loop' = [loop EXCEPT ![e].request = NoRequest, ![e].at = NextAt(e)]
       ELSE Goto(e, "conflict") /\ UNCHANGED <<ckpt, loop>>
    /\ UNCHANGED <<environment, lease, accepted, etag>>

Recommit(e) == pc[e] = "recommitting" /\ CompleteTransition(e, "resuming", "observing")

\* Second loop: read the live signal of every resource that was not resent.
Observe(e) ==
    LET r == loop[e].at IN
    /\ pc[e] = "observing"
    /\ loop' = [loop EXCEPT
                  ![e].seen[r] = IF loop[e].loaded[r] = "skip" THEN "skip" ELSE health[r],
                  ![e].at = NextAt(e)]
    /\ NextResource(e, "observing", "staging")
    /\ UNCHANGED <<environment, tables, etag>>

\* Defect: the first observation of a resource is always reported.
EmitsFirst(e, r) ==
    loop[e].loaded[r] # "skip" /\ loop[e].loaded[r] # loop[e].seen[r]

\* Whether the observation of r is a transition from what was committed.
Emits(e, r) ==
    LET previous == loop[e].loaded[r]
        observed == loop[e].seen[r] IN
    \/ previous = "none" /\ observed = "down"
    \/ previous \notin {"none", "skip"} /\ previous # observed

Emitted(e, r) == Request(loop[e].seen[r], clock[e])

\* Defect: staging already records the new health as committed.
StageCommits(e) ==
    LET r == loop[e].at IN
    /\ pc[e] = "staging"
    /\ ckpt' = IF Emits(e, r)
               THEN [ckpt EXCEPT ![r] = [committed |-> loop[e].seen[r], pending |-> Emitted(e, r)]]
               ELSE ckpt
    /\ loop' = [loop EXCEPT ![e].at = NextAt(e)]
    /\ NextResource(e, "staging", "initializing")
    /\ UNCHANGED <<environment, lease, accepted, etag>>

\* Third loop, stage_transition: persist the request before anything is sent.
Stage(e) ==
    LET r == loop[e].at IN
    /\ pc[e] = "staging"
    /\ IF Emits(e, r) /\ ckpt[r].pending # NoRequest
       THEN Goto(e, "conflict") /\ UNCHANGED <<ckpt, loop>>
       ELSE /\ ckpt' = IF Emits(e, r)
                       THEN [ckpt EXCEPT ![r].pending = Emitted(e, r)] ELSE ckpt
            /\ loop' = [loop EXCEPT ![e].at = NextAt(e)]
            /\ NextResource(e, "staging", "initializing")
    /\ UNCHANGED <<environment, lease, accepted, etag>>

\* Defect: every resource without a checkpoint is recorded as healthy.
RecordInitialAlways(e) ==
    LET r == loop[e].at IN
    /\ pc[e] = "initializing"
    /\ ckpt' = IF loop[e].loaded[r] = "none"
               THEN [ckpt EXCEPT ![r] = [committed |-> "up", pending |-> NoRequest]]
               ELSE ckpt
    /\ loop' = [loop EXCEPT ![e].at = NextAt(e)]
    /\ NextResource(e, "initializing", "sending")
    /\ UNCHANGED <<environment, lease, accepted, etag>>

\* Fourth loop, record_initial_health: resources first seen healthy.
RecordInitial(e) ==
    LET r == loop[e].at IN
    /\ pc[e] = "initializing"
    /\ ckpt' = IF loop[e].loaded[r] = "none" /\ loop[e].seen[r] = "up"
               THEN [ckpt EXCEPT ![r] = [committed |-> "up", pending |-> NoRequest]]
               ELSE ckpt
    /\ loop' = [loop EXCEPT ![e].at = NextAt(e)]
    /\ NextResource(e, "initializing", "sending")
    /\ UNCHANGED <<environment, lease, accepted, etag>>

\* Last loop: send what was staged and commit it.
SendStaged(e) ==
    LET r == loop[e].at IN
    /\ pc[e] = "sending"
    /\ IF Emits(e, r)
       THEN /\ Send(r, Emitted(e, r))
            /\ loop' = [loop EXCEPT ![e].request = Emitted(e, r)]
            /\ Goto(e, "committing")
       ELSE /\ loop' = [loop EXCEPT ![e].at = NextAt(e)]
            /\ NextResource(e, "sending", "releasing")
            /\ UNCHANGED accepted
    /\ UNCHANGED <<environment, lease, ckpt, etag>>

Commit(e) == pc[e] = "committing" /\ CompleteTransition(e, "sending", "releasing")

-----------------------------------------------------------------------------

Step(e) ==
    \/ ReadClock(e) \/ CreateLease(e) \/ ReadLease(e) \/ ClaimLease(e)
    \/ Resume(e) \/ Recommit(e) \/ Observe(e) \/ Stage(e) \/ RecordInitial(e)
    \/ SendStaged(e) \/ Commit(e) \/ ReleaseLease(e) \/ Fail(e)

Next ==
    \/ Tick
    \/ \E r \in Resources : ChangeHealth(r)
    \/ \E e \in Executions : Start(e) \/ Stop(e) \/ Step(e)

Spec == Init /\ [][Next]_vars

-----------------------------------------------------------------------------
(* Properties *)

\* Every variable has its type.
TypeOK ==
    /\ now \in Nat /\ changes \in Nat /\ lastStart \in Int
    /\ health \in [Resources -> {"up", "down"}]
    /\ lease \in [owner : Executions \cup {NoOwner}, expires : Nat, etag : Nat]
    /\ ckpt \in [Resources -> [committed : {"none", "up", "down"},
                               pending : Requests \cup {NoRequest}]]
    /\ accepted \in [Resources -> Seq(Requests)]
    /\ pc \in [Executions -> PCs]
    /\ started \in [Executions -> Nat]
    /\ clock \in [Executions -> Nat]
    /\ etag \in [Executions -> Nat]
    /\ loop \in [Executions ->
                  [at : Resources,
                   loaded : [Resources -> {"skip", "none", "up", "down"}],
                   seen : [Resources -> {"skip", "up", "down"}],
                   request : Requests \cup {NoRequest}]]

\* Two executions are never between acquire_run_lease and release_run_lease at
\* once, although each computes the lease's expiry and judges the other's by a
\* clock truncated to the minute, and may have stopped without releasing.
RunExclusion ==
    \A d, e \in Executions : pc[d] \in Holding /\ pc[e] \in Holding => d = e

\* The errors "detector transition is already pending" and "detector pending
\* transition changed before commit" are never raised: the lease makes the
\* checkpoint an execution loaded still the one it writes.
CheckpointNeverConflicts ==
    \A e \in Executions : pc[e] # "conflict"

LastQueued(r) == IF accepted[r] = << >> THEN "up" ELSE accepted[r][Len(accepted[r])].health

\* Whatever crashed or failed and whenever: the queue's last request for a
\* resource carries the committed health, or is the pending one about to be
\* committed.  No transition is committed without having been queued.
QueueFollowsCheckpoint ==
    \A r \in Resources :
        \/ ckpt[r].committed = LastQueued(r)
        \/ ckpt[r].committed = "none" /\ accepted[r] = << >>
        \/ /\ ckpt[r].pending # NoRequest
           /\ accepted[r] # << >>
           /\ ckpt[r].pending = accepted[r][Len(accepted[r])]

\* The requests queued for a resource alternate: unhealthy first, then every
\* request reverses the one before it; nothing is queued twice.
RequestsAlternate ==
    \A r \in Resources : \A i \in 1 .. Len(accepted[r]) :
        accepted[r][i].health =
            IF i = 1 \/ accepted[r][i - 1].health = "up" THEN "down" ELSE "up"

\* A staged request is dropped only once it has been queued, and never replaced.
PendingIsStable ==
    [][\A r \in Resources :
         ckpt[r].pending # NoRequest /\ ckpt'[r].pending # ckpt[r].pending =>
            /\ ckpt'[r].pending = NoRequest
            /\ \E i \in 1 .. Len(accepted[r]) : accepted[r][i] = ckpt[r].pending]_vars

=============================================================================
