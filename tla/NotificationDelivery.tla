------------------------ MODULE NotificationDelivery ------------------------
(***************************************************************************)
(* Delivery of incident notifications to the Logic App webhook             *)
(* (src/src/athena_context/eventing/runtime.py): the notification          *)
(* dispatcher job, the delivery record it keeps in Azure Table storage and *)
(* the session-enabled Service Bus queue it reads.                         *)
(*                                                                         *)
(* Every call that leaves the process (a table operation, the POST, a      *)
(* message settlement) is a step of its own, so executions of the job      *)
(* interleave between any two of them.  The local data of an execution is  *)
(* its message, its ETag and where it is in _dispatch_notification_message.*)
(*                                                                         *)
(* External parts, modelled from how the code uses them: the broker        *)
(* (session locks that can be lost, redelivery up to MaxDeliveryCount,     *)
(* expiry), the table's ETags, and the Logic App's answers.                *)
(***************************************************************************)
EXTENDS Naturals, Sequences, FiniteSets

CONSTANTS
    Workers,           \* executions of the notification job that can overlap
    Messages,          \* queue messages
    Notifications,     \* notification identifiers: sha256(transition, lifecycle)
    Sessions,          \* incident identifiers
    notificationOf,    \* the notification a message carries
    sessionOf,         \* the session (incident) a message is queued under
    MaxDeliveryCount,  \* the queue's maxDeliveryCount
    NoMessage

ASSUME MessageAssumption ==
    /\ notificationOf \in [Messages -> Notifications]
    /\ sessionOf \in [Messages -> Sessions]
    /\ NoMessage \notin Messages

ASSUME DeliveryCountAssumption == MaxDeliveryCount \in Nat \ {0}

VARIABLES
    status,      \* broker: what became of each message
    seqNo,       \* broker: sequence number given when the message is enqueued
    lastSeq,     \* broker: last sequence number given
    deliveries,  \* broker: delivery count of each message
    row,         \* table: delivery record of each notification
    pc,          \* worker: the call it is about to make
    msg,         \* worker: the message it received
    etag,        \* worker: the ETag its next conditional write carries
    locked,      \* worker: whether the broker still honours its session lock
    answers      \* history: the outcome of every POST of a notification

brokerVars == <<status, seqNo, lastSeq, deliveries>>
workerVars == <<pc, msg, etag, locked>>
vars == <<brokerVars, row, workerVars, answers>>

-----------------------------------------------------------------------------
(* Vocabulary *)

RowStates == {"none", "reserved", "dispatching", "delivered"}

\* What ends a message: the settlements of the dispatcher, and the broker's own.
Settled == {"completed", "rejected", "uncertain", "exhausted", "expired"}

PCs == {"idle", "received", "pruning", "creating", "reading", "reacquiring",
        "claimed", "posting", "accepted", "retrying", "rejecting", "doubting",
        "completing", "abandoning", "leaseLost"}

\* urlopen: 2xx, HTTPError 408 or 429, HTTPError 5xx, any other 4xx, and
\* URLError, TimeoutError, OSError or an HTTPError of another class.
Answers == {"accepted", "throttled", "serverError", "refused", "ambiguous"}

\* _notification_http_error_is_retryable
Retryable(a) == a \in {"throttled", "serverError"}

\* _notification_http_error_is_permanent
Permanent(a) == a = "refused"

\* The Logic App acts on a request it accepts, and may have acted on one whose
\* answer is a gateway's 5xx or never arrives.
MayHaveActed(a) == a \in {"accepted", "serverError", "ambiguous"}

N(w) == notificationOf[msg[w]]

\* The message the broker hands out next in a session: the oldest that is queued.
Oldest(s) == {m \in Messages :
              /\ status[m] = "queued" /\ sessionOf[m] = s
              /\ \A o \in Messages :
                    status[o] = "queued" /\ sessionOf[o] = s => seqNo[m] <= seqNo[o]}

SessionFree(s) == \A w \in Workers :
                     locked[w] => msg[w] \in Messages /\ sessionOf[msg[w]] # s

Init ==
    /\ status = [m \in Messages |-> "absent"]
    /\ seqNo = [m \in Messages |-> 0]
    /\ lastSeq = 0
    /\ deliveries = [m \in Messages |-> 0]
    /\ row = [n \in Notifications |-> [state |-> "none", etag |-> 0, expired |-> FALSE]]
    /\ pc = [w \in Workers |-> "idle"]
    /\ msg = [w \in Workers |-> NoMessage]
    /\ etag = [w \in Workers |-> 0]
    /\ locked = [w \in Workers |-> FALSE]
    /\ answers = [n \in Notifications |-> << >>]

-----------------------------------------------------------------------------
(* Broker *)

\* The orchestrator's enqueue.  Two messages of one notification are a repeat
\* that the queue's duplicate detection no longer absorbs.
Enqueue(m) ==
    /\ status[m] = "absent"
    /\ status' = [status EXCEPT ![m] = "queued"]
    /\ lastSeq' = lastSeq + 1
    /\ seqNo' = [seqNo EXCEPT ![m] = lastSeq + 1]
    /\ UNCHANGED <<deliveries, row, workerVars, answers>>

\* Defect: the receiver of an execution that ended keeps its session.
FinishHoldingSession(w) ==
    /\ pc' = [pc EXCEPT ![w] = "idle"]
    /\ etag' = [etag EXCEPT ![w] = 0]
    /\ UNCHANGED <<msg, locked>>

\* The execution ends; the next one of the same slot starts afresh.
Finish(w) ==
    /\ pc' = [pc EXCEPT ![w] = "idle"]
    /\ msg' = [msg EXCEPT ![w] = NoMessage]
    /\ etag' = [etag EXCEPT ![w] = 0]
    /\ locked' = [locked EXCEPT ![w] = FALSE]

\* complete_message / dead_letter_message: refused once the lock is lost, and
\* the execution then ends with the broker's error.
Settle(w, outcome) ==
    /\ Finish(w)
    /\ status' = IF locked[w] THEN [status EXCEPT ![msg[w]] = outcome] ELSE status
    /\ UNCHANGED <<seqNo, lastSeq, deliveries>>

\* The broker takes an unsettled message back: it counts the delivery, and
\* dead-letters the message once the count is used up.
TakeBack(w) ==
    LET m == msg[w] IN
    /\ deliveries' = [deliveries EXCEPT ![m] = @ + 1]
    /\ status' = IF deliveries[m] + 1 >= MaxDeliveryCount
                 THEN [status EXCEPT ![m] = "exhausted"] ELSE status
    /\ UNCHANGED <<seqNo, lastSeq>>

\* abandon_message, an uncaught error or a crash: the message goes back if the
\* execution still held it.
Release(w) ==
    /\ Finish(w)
    /\ IF locked[w] THEN TakeBack(w) ELSE UNCHANGED brokerVars

\* Defect: the receiver takes any message of any session.
ReceiveOutOfOrder(w) ==
    /\ pc[w] = "idle"
    /\ \E m \in Messages : status[m] = "queued" /\ msg' = [msg EXCEPT ![w] = m]
    /\ pc' = [pc EXCEPT ![w] = "received"]
    /\ locked' = [locked EXCEPT ![w] = TRUE]
    /\ UNCHANGED <<etag, brokerVars, row, answers>>

\* Defect: an empty batch is not noticed.
ReceiveNothing(w) ==
    /\ pc[w] = "idle"
    /\ pc' = [pc EXCEPT ![w] = "received"]
    /\ UNCHANGED <<msg, etag, locked, brokerVars, row, answers>>

\* run_notification_dispatcher_worker: lock the next available session and
\* receive its oldest message.
Receive(w) ==
    /\ pc[w] = "idle"
    /\ \E s \in Sessions :
         /\ SessionFree(s)
         /\ \E m \in Oldest(s) : msg' = [msg EXCEPT ![w] = m]
    /\ pc' = [pc EXCEPT ![w] = "received"]
    /\ locked' = [locked EXCEPT ![w] = TRUE]
    /\ UNCHANGED <<etag, brokerVars, row, answers>>

\* Lock renewal fails or comes too late: the broker takes the message back
\* while the execution goes on without knowing.
LoseLock(w) ==
    /\ locked[w]
    /\ locked' = [locked EXCEPT ![w] = FALSE]
    /\ TakeBack(w)
    /\ UNCHANGED <<pc, msg, etag, row, answers>>

\* defaultMessageTimeToLive with deadLetteringOnMessageExpiration.
ExpireMessage(m) ==
    /\ status[m] = "queued"
    /\ \A w \in Workers : locked[w] => msg[w] # m
    /\ status' = [status EXCEPT ![m] = "expired"]
    /\ UNCHANGED <<seqNo, lastSeq, deliveries, row, workerVars, answers>>

-----------------------------------------------------------------------------
(* AzureTableNotificationDeliveryStore and _dispatch_notification_message *)

Goto(w, label) == pc' = [pc EXCEPT ![w] = label]

\* A write to the row of n under a fresh ETag.
Write(n, state) ==
    row' = [row EXCEPT ![n] = [state |-> state, etag |-> @.etag + 1, expired |-> FALSE]]

\* Defect: the conditional write is sent without its match condition.
MatchesUnconditionally(w) == row[N(w)].state # "none"

\* Conditional writes match the worker's ETag; a row that is gone matches none.
Matches(w) == row[N(w)].state # "none" /\ row[N(w)].etag = etag[w]

\* _decode_notification, _validate_notification_broker_metadata or the v2
\* current-source verification fails: ValidationError or ValueError.
Reject(w) ==
    /\ pc[w] = "received"
    /\ Settle(w, "rejected")
    /\ UNCHANGED <<row, answers>>

\* _retry_notification_v2_source gives up: the message is abandoned.
SourceNotReady(w) ==
    /\ pc[w] = "received"
    /\ Release(w)
    /\ UNCHANGED <<row, answers>>

\* The message is valid, its source current and the Logic Apps token obtained.
Verify(w) ==
    /\ pc[w] = "received"
    /\ Goto(w, "pruning")
    /\ UNCHANGED <<msg, etag, locked, brokerVars, row, answers>>

\* Defect: the cleanup forgets its filter on state.
PruneAnyState(w) ==
    /\ pc[w] = "pruning"
    /\ \E S \in SUBSET {n \in Notifications : row[n].state # "none"} :
         row' = [n \in Notifications |->
                   IF n \in S THEN [state |-> "none", etag |-> row[n].etag, expired |-> FALSE]
                              ELSE row[n]]
    /\ Goto(w, "creating")
    /\ UNCHANGED <<msg, etag, locked, brokerVars, answers>>

\* _prune_expired: conditional deletes of expired reserved rows, ended early by
\* the page limit or by the first row another execution has changed.
Prune(w) ==
    /\ pc[w] = "pruning"
    /\ \E S \in SUBSET {n \in Notifications : row[n].state = "reserved" /\ row[n].expired} :
         row' = [n \in Notifications |->
                   IF n \in S THEN [state |-> "none", etag |-> row[n].etag, expired |-> FALSE]
                              ELSE row[n]]
    /\ Goto(w, "creating")
    /\ UNCHANGED <<msg, etag, locked, brokerVars, answers>>

\* acquire: create_entity, or ResourceExistsError.
Create(w) ==
    /\ pc[w] = "creating"
    /\ IF row[N(w)].state = "none"
       THEN /\ Write(N(w), "reserved")
            /\ etag' = [etag EXCEPT ![w] = row[N(w)].etag + 1]
            /\ Goto(w, "claimed")
       ELSE Goto(w, "reading") /\ UNCHANGED <<row, etag>>
    /\ UNCHANGED <<msg, locked, brokerVars, answers>>

\* Defect: a redelivered dispatching row is taken for a delivered one.
ReadTakesDispatchingForDelivered(w) ==
    /\ pc[w] = "reading"
    /\ IF row[N(w)].state = "reserved"
       THEN /\ Goto(w, "reacquiring")
            /\ etag' = [etag EXCEPT ![w] = row[N(w)].etag]
            /\ UNCHANGED <<msg, locked, brokerVars>>
       ELSE Settle(w, "completed")
    /\ UNCHANGED <<row, answers>>

\* Defect: a redelivered dispatching row is reacquired.
ReadReacquiresDispatching(w) ==
    /\ pc[w] = "reading"
    /\ IF row[N(w)].state = "delivered"
       THEN Settle(w, "completed")
       ELSE /\ Goto(w, "reacquiring")
            /\ etag' = [etag EXCEPT ![w] = row[N(w)].etag]
            /\ UNCHANGED <<msg, locked, brokerVars>>
    /\ UNCHANGED <<row, answers>>

\* acquire: get_entity after ResourceExistsError, and the dispatcher's reaction
\* to the dispositions busy (row gone), delivered and dispatching.
Read(w) ==
    /\ pc[w] = "reading"
    /\ CASE row[N(w)].state = "none" -> Release(w)
         [] row[N(w)].state = "delivered" -> Settle(w, "completed")
         [] row[N(w)].state = "dispatching" -> Settle(w, "uncertain")
         [] row[N(w)].state = "reserved" ->
              /\ Goto(w, "reacquiring")
              /\ etag' = [etag EXCEPT ![w] = row[N(w)].etag]
              /\ UNCHANGED <<msg, locked, brokerVars>>
    /\ UNCHANGED <<row, answers>>

\* acquire: replace a reserved row.  ResourceModifiedError is disposition busy,
\* a row that is gone an error; both leave the message unsettled.
Reacquire(w) ==
    /\ pc[w] = "reacquiring"
    /\ IF Matches(w)
       THEN /\ Write(N(w), "reserved")
            /\ etag' = [etag EXCEPT ![w] = row[N(w)].etag + 1]
            /\ Goto(w, "claimed")
            /\ UNCHANGED <<msg, locked, brokerVars>>
       ELSE Release(w) /\ UNCHANGED row
    /\ UNCHANGED answers

\* mark_dispatching; None makes the dispatcher abandon.
MarkDispatching(w) ==
    /\ pc[w] = "claimed"
    /\ IF Matches(w)
       THEN /\ Write(N(w), "dispatching")
            /\ etag' = [etag EXCEPT ![w] = row[N(w)].etag + 1]
            /\ Goto(w, "posting")
            /\ UNCHANGED <<msg, locked, brokerVars>>
       ELSE Release(w) /\ UNCHANGED row
    /\ UNCHANGED answers

\* The table client repeats a write whose answer was lost, and the repeat finds
\* the ETag changed by the first: mark_dispatching returns None although the row
\* is dispatching.
MarkDispatchingRepeated(w) ==
    /\ pc[w] = "claimed"
    /\ Matches(w)
    /\ Write(N(w), "dispatching")
    /\ Release(w)
    /\ UNCHANGED answers

\* urlopen.
Post(w) ==
    /\ pc[w] = "posting"
    /\ \E a \in Answers :
         /\ answers' = [answers EXCEPT ![N(w)] = Append(@, a)]
         /\ Goto(w, CASE a = "accepted" -> "accepted"
                      [] Retryable(a) -> "retrying"
                      [] Permanent(a) -> "rejecting"
                      [] OTHER -> "doubting")
    /\ UNCHANGED <<msg, etag, locked, brokerVars, row>>

\* mark_delivered; False raises RuntimeError("... lost its dispatch lease").
MarkDelivered(w) ==
    /\ pc[w] = "accepted"
    /\ IF Matches(w)
       THEN Write(N(w), "delivered") /\ Goto(w, "completing")
       ELSE Goto(w, "leaseLost") /\ UNCHANGED row
    /\ UNCHANGED <<msg, etag, locked, brokerVars, answers>>

\* reset_for_retry; False raises RuntimeError("... lost its dispatch lease").
ResetForRetry(w) ==
    /\ pc[w] = "retrying"
    /\ IF Matches(w)
       THEN Write(N(w), "reserved") /\ Goto(w, "abandoning")
       ELSE Goto(w, "leaseLost") /\ UNCHANGED row
    /\ UNCHANGED <<msg, etag, locked, brokerVars, answers>>

\* The settlement that ends an execution which has posted.
Conclude(w) ==
    /\ \/ pc[w] = "completing" /\ Settle(w, "completed")
       \/ pc[w] = "rejecting" /\ Settle(w, "rejected")
       \/ pc[w] = "doubting" /\ Settle(w, "uncertain")
       \/ pc[w] = "abandoning" /\ Release(w)
    /\ UNCHANGED <<row, answers>>

\* A crash, the replica timeout, or an error nothing catches (a table or token
\* failure, a lost dispatch lease).  A write whose answer is lost is the write
\* followed by this step.
Crash(w) ==
    /\ pc[w] # "idle"
    /\ Release(w)
    /\ UNCHANGED <<row, answers>>

\* A reservation outlives its eight days.  No execution lives that long, so none
\* still holds the ETag of the row.
ExpireReservation(n) ==
    /\ row[n].state = "reserved" /\ ~row[n].expired
    /\ \A w \in Workers :
         pc[w] \in {"reacquiring", "claimed"} => N(w) # n \/ etag[w] # row[n].etag
    /\ row' = [row EXCEPT ![n].expired = TRUE]
    /\ UNCHANGED <<brokerVars, workerVars, answers>>

-----------------------------------------------------------------------------

Step(w) ==
    \/ Verify(w) \/ Reject(w) \/ SourceNotReady(w)
    \/ Prune(w) \/ Create(w) \/ Read(w) \/ Reacquire(w)
    \/ MarkDispatching(w) \/ MarkDispatchingRepeated(w)
    \/ Post(w) \/ MarkDelivered(w) \/ ResetForRetry(w) \/ Conclude(w)

Next ==
    \/ \E m \in Messages : Enqueue(m) \/ ExpireMessage(m)
    \/ \E w \in Workers : Receive(w) \/ Step(w) \/ LoseLock(w) \/ Crash(w)
    \/ \E n \in Notifications : ExpireReservation(n)

Spec == Init /\ [][Next]_vars

\* The job is started while its queue holds a message, and an execution runs on
\* or is stopped by its replica timeout.
Fairness ==
    /\ WF_vars(\E w \in Workers : Receive(w))
    /\ \A w \in Workers : WF_vars(Step(w) \/ Crash(w))

FairSpec == Spec /\ Fairness

-----------------------------------------------------------------------------
(* Properties *)

\* Every variable has its type.
TypeOK ==
    /\ status \in [Messages -> {"absent", "queued"} \cup Settled]
    /\ seqNo \in [Messages -> Nat]
    /\ lastSeq \in Nat
    /\ deliveries \in [Messages -> Nat]
    /\ row \in [Notifications -> [state : RowStates, etag : Nat, expired : BOOLEAN]]
    /\ pc \in [Workers -> PCs]
    /\ msg \in [Workers -> Messages \cup {NoMessage}]
    /\ \A w \in Workers : pc[w] # "idle" => msg[w] \in Messages
    /\ etag \in [Workers -> Nat]
    /\ locked \in [Workers -> BOOLEAN]
    /\ answers \in [Notifications -> Seq(Answers)]

\* A notification is posted again only if every earlier POST of it was answered
\* with a retryable status, whatever the broker redelivers, however many
\* executions overlap and wherever they crash (the "dispatching" state of
\* acquire, mark_dispatching's compare-and-swap).
RepostOnlyAfterRetryable ==
    \A n \in Notifications : \A i \in 1 .. Len(answers[n]) :
        i < Len(answers[n]) => Retryable(answers[n][i])

\* The execution that marked a row dispatching owns it: mark_delivered and
\* reset_for_retry never lose the dispatch lease, so neither RuntimeError of
\* _dispatch_notification_message is raised by another execution.
DispatchLeaseKept ==
    \A w \in Workers : pc[w] # "leaseLost"

\* The dispatcher completes a message only when the Logic App accepted its
\* notification: uncertainty and rejection are never silently completed.
CompletedMeansAccepted ==
    \A m \in Messages : status[m] = "completed" =>
        \E i \in 1 .. Len(answers[notificationOf[m]]) :
            answers[notificationOf[m]][i] = "accepted"

\* Per-incident order: while an execution that still owns its session posts a
\* notification, every message queued before it in the session is settled.
OrderedPosting ==
    \A w \in Workers : pc[w] = "posting" /\ locked[w] =>
        \A m \in Messages :
            sessionOf[m] = sessionOf[msg[w]] /\ seqNo[m] < seqNo[msg[w]]
                /\ status[m] # "absent" => status[m] \in Settled

\* What may have been posted stays on record: no step removes a dispatching or
\* delivered row, and only a retryable answer takes a row back to reserved.
PostRecordsRetained ==
    [][\A n \in Notifications :
         /\ row[n].state = "delivered" => row'[n].state = "delivered"
         /\ row[n].state = "dispatching" =>
              \/ row'[n].state \in {"dispatching", "delivered"}
              \/ /\ row'[n].state = "reserved"
                 /\ answers[n] # << >> /\ Retryable(answers[n][Len(answers[n])])]_vars

\* Every queued message ends: completed or dead-lettered with a reason.
EventuallySettled ==
    \A m \in Messages : status[m] = "queued" ~> status[m] \in Settled

\* The operations guide's at-most-once claim read as the Logic App sees it: it
\* is never sent again what it may have acted on.  Violated: a 5xx answer resets the row
\* like 408 and 429 do, though the request behind it may have been acted on.
EffectAtMostOnce ==
    \A n \in Notifications :
        \A i, j \in 1 .. Len(answers[n]) :
            MayHaveActed(answers[n][i]) /\ MayHaveActed(answers[n][j]) => i = j

=============================================================================
