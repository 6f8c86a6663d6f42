--------------------- MODULE NotificationDeliveryProofs ---------------------
(***************************************************************************)
(* For any number of overlapping executions, messages and notifications:   *)
(* type correctness, the exclusive ownership of a dispatching record, and  *)
(* what follows from it: a notification is posted again only after         *)
(* retryable answers, only accepted notifications are completed, and what  *)
(* may have been posted stays on record.                                   *)
(*                                                                         *)
(* That argument does not use the session lock at all; only the order of   *)
(* posting within a session rests on it.  An ETag held by a "claimed"      *)
(* execution matches a row only while that row is reserved, so at most one *)
(* execution can move a row to dispatching; from then on the ETag it holds *)
(* is the row's, and no other conditional write succeeds.                  *)
(***************************************************************************)
EXTENDS NotificationDelivery, TLAPS

\* The step between mark_dispatching and the settlement that follows the POST:
\* the execution owns the row of its notification.
Owner(w) == pc[w] \in {"posting", "accepted", "retrying"}

AllRetryable(n) == \A i \in 1 .. Len(answers[n]) : Retryable(answers[n][i])

\* An ETag read from or written to a reserved row is never ahead of the row's,
\* and is the row's only while the row is still reserved or gone.
ClaimsAreReserved ==
    \A w \in Workers : pc[w] \in {"reacquiring", "claimed"} =>
        /\ etag[w] <= row[N(w)].etag
        /\ etag[w] = row[N(w)].etag => row[N(w)].state \in {"none", "reserved"}

OwnersHoldRow ==
    \A w \in Workers : Owner(w) =>
        row[N(w)].state = "dispatching" /\ row[N(w)].etag = etag[w]

OwnersExclusive ==
    \A v, w \in Workers : Owner(v) /\ Owner(w) /\ N(v) = N(w) => v = w

\* Before a POST, and after a retryable one, every answer was retryable.
AnswersFollowRow ==
    /\ \A n \in Notifications : row[n].state \in {"none", "reserved"} => AllRetryable(n)
    /\ \A w \in Workers : pc[w] \in {"posting", "retrying"} => AllRetryable(N(w))

Accepted(n) == \E i \in 1 .. Len(answers[n]) : answers[n][i] = "accepted"

\* A delivered row, and an execution about to make one or to complete its
\* message, follow an accepted POST.
AcceptedOnRecord ==
    /\ \A n \in Notifications : row[n].state = "delivered" => Accepted(n)
    /\ \A w \in Workers : pc[w] \in {"accepted", "completing"} => Accepted(N(w))

\* The inductive invariant.
IInv ==
    /\ TypeOK
    /\ ClaimsAreReserved
    /\ OwnersHoldRow
    /\ OwnersExclusive
    /\ AnswersFollowRow
    /\ RepostOnlyAfterRetryable
    /\ DispatchLeaseKept
    /\ AcceptedOnRecord
    /\ CompletedMeansAccepted

-----------------------------------------------------------------------------
(* Type correctness *)

\* A running execution's notification is one of Notifications.
LEMMA RunningNotification ==
    ASSUME TypeOK, NEW w \in Workers, pc[w] # "idle"
    PROVE  msg[w] \in Messages /\ N(w) \in Notifications
BY MessageAssumption DEF TypeOK, N

\* The helpers that end an execution keep the types of the worker and broker
\* variables (Finish, Settle, TakeBack, Release).
LEMMA EndTypes ==
    ASSUME TypeOK, NEW w \in Workers, msg[w] \in Messages,
           \/ \E o \in Settled : Settle(w, o)
           \/ Release(w)
    PROVE  /\ status' \in [Messages -> {"absent", "queued"} \cup Settled]
           /\ seqNo' \in [Messages -> Nat] /\ lastSeq' \in Nat
           /\ deliveries' \in [Messages -> Nat]
           /\ pc' \in [Workers -> PCs]
           /\ msg' \in [Workers -> Messages \cup {NoMessage}]
           /\ \A v \in Workers : pc'[v] # "idle" => msg'[v] \in Messages
           /\ etag' \in [Workers -> Nat]
           /\ locked' \in [Workers -> BOOLEAN]
<1>1. CASE \E o \in Settled : Settle(w, o)
  BY <1>1 DEF TypeOK, Settle, Finish, PCs
<1>2. CASE Release(w)
  <2>1. Finish(w) BY <1>2 DEF Release
  <2>2. TakeBack(w) \/ UNCHANGED brokerVars BY <1>2 DEF Release
  <2>3. CASE TakeBack(w)
    BY <2>1, <2>3 DEF TypeOK, TakeBack, Finish, PCs, Settled
  <2>4. CASE UNCHANGED brokerVars
    BY <2>1, <2>4 DEF TypeOK, brokerVars, Finish, PCs
  <2>5. QED BY <2>2, <2>3, <2>4
<1>3. QED BY <1>1, <1>2

\* A conditional or creating write keeps the type of the table.
LEMMA WriteTypes ==
    ASSUME TypeOK, NEW n \in Notifications, NEW s \in RowStates, Write(n, s)
    PROVE  row' \in [Notifications -> [state : RowStates, etag : Nat, expired : BOOLEAN]]
BY DEF TypeOK, Write

\* The next action keeps every variable in its type.
LEMMA TypeStep ==
    ASSUME TypeOK, [Next]_vars
    PROVE  TypeOK'
<1> USE DEF vars, brokerVars, workerVars
<1>1. CASE UNCHANGED vars
  BY <1>1 DEF TypeOK
<1>2. ASSUME NEW m \in Messages, Enqueue(m) PROVE TypeOK'
  BY <1>2 DEF TypeOK, Enqueue
<1>3. ASSUME NEW m \in Messages, ExpireMessage(m) PROVE TypeOK'
  BY <1>3 DEF TypeOK, ExpireMessage, Settled
<1>4. ASSUME NEW n \in Notifications, ExpireReservation(n) PROVE TypeOK'
  BY <1>4 DEF TypeOK, ExpireReservation
<1>5. ASSUME NEW w \in Workers, Receive(w) PROVE TypeOK'
  BY <1>5 DEF TypeOK, Receive, Oldest, PCs
<1>6. ASSUME NEW w \in Workers, LoseLock(w) PROVE TypeOK'
  <2>1. CASE msg[w] \in Messages
    BY <1>6, <2>1 DEF TypeOK, LoseLock, TakeBack, Settled
  <2>2. CASE msg[w] \notin Messages
    BY <1>6, <2>2 DEF TypeOK, LoseLock, TakeBack, Settled
  <2>3. QED BY <2>1, <2>2
<1>7. ASSUME NEW w \in Workers, pc[w] # "idle",
             Step(w) \/ Crash(w)
      PROVE  TypeOK'
  <2>1. msg[w] \in Messages /\ N(w) \in Notifications
    BY <1>7, RunningNotification
  <2>2. CASE Reject(w) \/ SourceNotReady(w) \/ Conclude(w) \/ Crash(w)
    <3>1. (\E o \in Settled : Settle(w, o)) \/ Release(w)
      BY <2>2 DEF Reject, SourceNotReady, Conclude, Crash, Settled
    <3>2. UNCHANGED <<row, answers>>
      BY <2>2 DEF Reject, SourceNotReady, Conclude, Crash
    <3>3. QED BY <2>1, <3>1, <3>2, EndTypes DEF TypeOK
  <2>3. CASE Verify(w)
    BY <2>3 DEF TypeOK, Verify, Goto, PCs
  <2>4. CASE Prune(w)
    <3>1. row' \in [Notifications -> [state : RowStates, etag : Nat, expired : BOOLEAN]]
      BY <2>4 DEF TypeOK, Prune, RowStates
    <3>2. Goto(w, "creating") /\ UNCHANGED <<msg, etag, locked, brokerVars, answers>>
      BY <2>4 DEF Prune
    <3>3. QED BY <2>1, <3>1, <3>2 DEF TypeOK, Goto, PCs
  <2>5. CASE Create(w)
    <3>1. row' \in [Notifications -> [state : RowStates, etag : Nat, expired : BOOLEAN]]
      BY <2>5, <2>1, WriteTypes DEF TypeOK, Create, RowStates
    <3>2. row[N(w)].etag + 1 \in Nat
      BY <2>1 DEF TypeOK
    <3>3. etag' \in [Workers -> Nat]
      BY <2>5, <3>2 DEF TypeOK, Create
    <3>4. pc' \in [Workers -> PCs] /\ \A v \in Workers : pc'[v] # "idle" => msg[v] \in Messages
      BY <2>5, <2>1 DEF TypeOK, Create, Goto, PCs
    <3>5. QED BY <2>5, <3>1, <3>3, <3>4 DEF TypeOK, Create
  <2>6. CASE Read(w)
    <3>1. CASE row[N(w)].state = "reserved"
      BY <2>6, <2>1, <3>1 DEF TypeOK, Read, Goto, PCs
    <3>2. CASE row[N(w)].state # "reserved"
      <4>1. row[N(w)].state \in RowStates
        BY <2>1 DEF TypeOK
      <4>2. (\E o \in Settled : Settle(w, o)) \/ Release(w)
        BY <2>6, <3>2, <4>1 DEF Read, Settled, RowStates
      <4>3. QED BY <2>1, <2>6, <4>2, EndTypes DEF TypeOK, Read
    <3>3. QED BY <3>1, <3>2
  <2>7. CASE Reacquire(w) \/ MarkDispatching(w) \/ MarkDispatchingRepeated(w)
    <3>1. row' \in [Notifications -> [state : RowStates, etag : Nat, expired : BOOLEAN]]
      BY <2>7, <2>1, WriteTypes
      DEF TypeOK, Reacquire, MarkDispatching, MarkDispatchingRepeated, RowStates
    <3>2. CASE Release(w)
      BY <3>1, <3>2, <2>7, <2>1, EndTypes
      DEF TypeOK, Reacquire, MarkDispatching, MarkDispatchingRepeated
    <3>3. CASE ~Release(w)
      <4>1. /\ etag' = [etag EXCEPT ![w] = row[N(w)].etag + 1]
            /\ Goto(w, "claimed") \/ Goto(w, "posting")
            /\ UNCHANGED <<msg, locked, brokerVars, answers>>
        BY <3>3, <2>7 DEF Reacquire, MarkDispatching, MarkDispatchingRepeated
      <4>2. row[N(w)].etag + 1 \in Nat
        BY <2>1 DEF TypeOK
      <4>3. etag' \in [Workers -> Nat]
        BY <4>1, <4>2 DEF TypeOK
      <4>4. pc' \in [Workers -> PCs] /\ \A v \in Workers : pc'[v] # "idle" => msg[v] \in Messages
        BY <4>1, <2>1 DEF TypeOK, Goto, PCs
      <4>5. QED BY <3>1, <4>1, <4>3, <4>4 DEF TypeOK
    <3>4. QED BY <3>2, <3>3
  <2>8. CASE Post(w)
    BY <2>8, <2>1 DEF TypeOK, Post, Goto, PCs
  <2>9. CASE MarkDelivered(w) \/ ResetForRetry(w)
    <3>1. row' \in [Notifications -> [state : RowStates, etag : Nat, expired : BOOLEAN]]
      BY <2>9, <2>1, WriteTypes DEF TypeOK, MarkDelivered, ResetForRetry, RowStates
    <3>2. QED BY <2>9, <2>1, <3>1 DEF TypeOK, MarkDelivered, ResetForRetry, Goto, PCs
  <2>10. QED
    BY <1>7, <2>2, <2>3, <2>4, <2>5, <2>6, <2>7, <2>8, <2>9 DEF Step
<1>8. ASSUME NEW w \in Workers, Step(w) \/ Crash(w) PROVE pc[w] # "idle"
  BY <1>8 DEF Step, Crash, Verify, Reject, SourceNotReady, Prune, Create, Read, Reacquire,
              MarkDispatching, MarkDispatchingRepeated, Post, MarkDelivered,
              ResetForRetry, Conclude
<1>9. QED
  BY <1>1, <1>2, <1>3, <1>4, <1>5, <1>6, <1>7, <1>8 DEF Next

\* Every reachable state is well typed.
THEOREM TypeCorrect == Spec => []TypeOK
<1>1. Init => TypeOK
  BY DEF Init, TypeOK, RowStates, PCs
<1>2. TypeOK /\ [Next]_vars => TypeOK'
  BY TypeStep
<1>3. QED BY <1>1, <1>2, PTL DEF Spec

-----------------------------------------------------------------------------
(* Exclusive dispatch *)

\* An execution that settles as completed does so on the evidence of an accepted
\* POST; no other end of an execution completes a message.
LEMMA EndKeepsCompleted ==
    ASSUME IInv, NEW w \in Workers, msg[w] \in Messages,
           \/ \E o \in Settled : Settle(w, o) /\ (o = "completed" => Accepted(N(w)))
           \/ Release(w)
    PROVE  \A m \in Messages : status'[m] = "completed" =>
              status[m] = "completed" \/ Accepted(notificationOf[m])
<1>1. CASE \E o \in Settled : Settle(w, o) /\ (o = "completed" => Accepted(N(w)))
  BY <1>1 DEF IInv, TypeOK, Settle, N
<1>2. CASE Release(w)
  <2>1. TakeBack(w) \/ UNCHANGED brokerVars BY <1>2 DEF Release
  <2>2. QED BY <2>1 DEF IInv, TypeOK, TakeBack, brokerVars
<1>3. QED BY <1>1, <1>2

\* Steps that write no row except to expire or prune reservations, post nothing,
\* and leave every execution where it is or before its conditional writes.
LEMMA QuietStep ==
    ASSUME IInv, TypeOK', UNCHANGED answers,
           \A n \in Notifications :
              /\ row'[n].etag = row[n].etag
              /\ \/ row'[n].state = row[n].state
                 \/ {row[n].state, row'[n].state} \subseteq {"none", "reserved"},
           \A v \in Workers :
              \/ pc'[v] = pc[v] /\ msg'[v] = msg[v] /\ etag'[v] = etag[v]
              \/ pc'[v] \in {"idle", "received", "pruning", "creating", "reading"},
           \A m \in Messages : status'[m] = "completed" =>
              status[m] = "completed" \/ Accepted(notificationOf[m])
    PROVE  IInv'
<1>1. \A v \in Workers : pc'[v] \notin {"idle", "received", "pruning", "creating", "reading"} =>
        /\ pc'[v] = pc[v] /\ etag'[v] = etag[v] /\ N(v)' = N(v)
        /\ N(v) \in Notifications
  BY RunningNotification DEF IInv, N
<1>2. \A n : AllRetryable(n)' = AllRetryable(n) /\ Accepted(n)' = Accepted(n)
  BY DEF AllRetryable, Accepted
<1>3. ClaimsAreReserved'
  BY <1>1 DEF IInv, ClaimsAreReserved
<1>4. OwnersHoldRow' /\ OwnersExclusive'
  BY <1>1 DEF IInv, OwnersHoldRow, OwnersExclusive, Owner
<1>5. AnswersFollowRow'
  BY <1>1, <1>2 DEF IInv, AnswersFollowRow
<1>6. RepostOnlyAfterRetryable' /\ DispatchLeaseKept'
  BY <1>1 DEF IInv, RepostOnlyAfterRetryable, DispatchLeaseKept
<1>7. AcceptedOnRecord'
  BY <1>1, <1>2 DEF IInv, AcceptedOnRecord
<1>8. CompletedMeansAccepted'
  BY <1>2 DEF IInv, CompletedMeansAccepted, Accepted
<1>9. QED BY <1>3, <1>4, <1>5, <1>6, <1>7, <1>8 DEF IInv

\* What a write to the row of n does to the table.
LEMMA WriteEffect ==
    ASSUME TypeOK, NEW n \in Notifications, NEW s, Write(n, s)
    PROVE  /\ row'[n].state = s /\ row'[n].etag = row[n].etag + 1
           /\ \A k \in Notifications : k # n => row'[k] = row[k]
           /\ \A k \in Notifications : row[k].etag \in Nat /\ row[k].etag <= row'[k].etag
BY DEF TypeOK, Write

\* acquire: creating a row or replacing a reserved one.
LEMMA ReserveStep ==
    ASSUME IInv, TypeOK', NEW w \in Workers, pc[w] \in {"creating", "reacquiring"},
           row[N(w)].state \in {"none", "reserved"}, Write(N(w), "reserved"),
           etag' = [etag EXCEPT ![w] = row[N(w)].etag + 1], Goto(w, "claimed"),
           UNCHANGED <<msg, status, answers>>
    PROVE  IInv'
<1>0. TypeOK /\ N(w) \in Notifications
  BY RunningNotification DEF IInv
<1>1. /\ row'[N(w)].state = "reserved" /\ row'[N(w)].etag = row[N(w)].etag + 1
      /\ \A k \in Notifications : k # N(w) => row'[k] = row[k]
      /\ \A k \in Notifications : row[k].etag \in Nat /\ row[k].etag <= row'[k].etag
  BY <1>0, WriteEffect
<1>2. /\ pc'[w] = "claimed" /\ etag'[w] = row[N(w)].etag + 1
      /\ \A v \in Workers : N(v)' = N(v)
      /\ \A v \in Workers : v # w => pc'[v] = pc[v] /\ etag'[v] = etag[v]
      /\ \A v \in Workers : pc[v] # "idle" => N(v) \in Notifications
      /\ \A v \in Workers : etag[v] \in Nat
  BY <1>0, RunningNotification DEF TypeOK, Goto, N
<1>3. ClaimsAreReserved'
  BY <1>1, <1>2 DEF IInv, ClaimsAreReserved
<1>4. OwnersHoldRow' /\ OwnersExclusive'
  BY <1>1, <1>2 DEF IInv, OwnersHoldRow, OwnersExclusive, Owner
<1>5. AnswersFollowRow'
  BY <1>0, <1>1, <1>2 DEF IInv, AnswersFollowRow, AllRetryable
<1>6. RepostOnlyAfterRetryable' /\ DispatchLeaseKept' /\ CompletedMeansAccepted'
  BY <1>2 DEF IInv, RepostOnlyAfterRetryable, DispatchLeaseKept, CompletedMeansAccepted
<1>7. AcceptedOnRecord'
  BY <1>0, <1>1, <1>2 DEF IInv, AcceptedOnRecord, Accepted
<1>8. QED BY <1>3, <1>4, <1>5, <1>6, <1>7 DEF IInv

\* mark_dispatching: the claim matches a reserved row, which no execution owns.
LEMMA MarkDispatchingStep ==
    ASSUME IInv, TypeOK', NEW w \in Workers,
           MarkDispatching(w) /\ Matches(w)
    PROVE  IInv'
<1>0. TypeOK /\ N(w) \in Notifications /\ pc[w] = "claimed"
  BY RunningNotification DEF IInv, MarkDispatching
<1>1. /\ row'[N(w)].state = "dispatching" /\ row'[N(w)].etag = row[N(w)].etag + 1
      /\ \A k \in Notifications : k # N(w) => row'[k] = row[k]
      /\ \A k \in Notifications : row[k].etag \in Nat /\ row[k].etag <= row'[k].etag
  BY <1>0, WriteEffect DEF MarkDispatching
<1>2. /\ pc'[w] = "posting" /\ etag'[w] = row[N(w)].etag + 1
      /\ \A v \in Workers : N(v)' = N(v)
      /\ \A v \in Workers : v # w => pc'[v] = pc[v] /\ etag'[v] = etag[v]
      /\ \A v \in Workers : pc[v] # "idle" => N(v) \in Notifications
      /\ \A v \in Workers : etag[v] \in Nat
      /\ UNCHANGED <<status, answers>>
  BY <1>0, RunningNotification DEF TypeOK, Goto, N, MarkDispatching, brokerVars
<1>3. row[N(w)].state = "reserved" /\ AllRetryable(N(w))
  BY <1>0 DEF IInv, ClaimsAreReserved, AnswersFollowRow, Matches
<1>4. ClaimsAreReserved'
  BY <1>1, <1>2 DEF IInv, ClaimsAreReserved
<1>5. OwnersHoldRow' /\ OwnersExclusive'
  BY <1>1, <1>2, <1>3 DEF IInv, OwnersHoldRow, OwnersExclusive, Owner
<1>6. AnswersFollowRow'
  BY <1>0, <1>1, <1>2, <1>3 DEF IInv, AnswersFollowRow, AllRetryable
<1>7. RepostOnlyAfterRetryable' /\ DispatchLeaseKept' /\ CompletedMeansAccepted'
  BY <1>2 DEF IInv, RepostOnlyAfterRetryable, DispatchLeaseKept, CompletedMeansAccepted
<1>8. AcceptedOnRecord'
  BY <1>0, <1>1, <1>2 DEF IInv, AcceptedOnRecord, Accepted
<1>9. QED BY <1>4, <1>5, <1>6, <1>7, <1>8 DEF IInv

\* The repeated mark_dispatching leaves the row dispatching and without owner.
LEMMA MarkDispatchingRepeatedStep ==
    ASSUME IInv, TypeOK', NEW w \in Workers, MarkDispatchingRepeated(w)
    PROVE  IInv'
<1>0. TypeOK /\ N(w) \in Notifications /\ pc[w] = "claimed" /\ msg[w] \in Messages
  BY RunningNotification DEF IInv, MarkDispatchingRepeated
<1>1. /\ row'[N(w)].state = "dispatching" /\ row'[N(w)].etag = row[N(w)].etag + 1
      /\ \A k \in Notifications : k # N(w) => row'[k] = row[k]
      /\ \A k \in Notifications : row[k].etag \in Nat /\ row[k].etag <= row'[k].etag
  BY <1>0, WriteEffect DEF MarkDispatchingRepeated
<1>2. /\ pc'[w] = "idle"
      /\ \A v \in Workers : v # w => pc'[v] = pc[v] /\ etag'[v] = etag[v] /\ N(v)' = N(v)
      /\ \A v \in Workers : pc[v] # "idle" => N(v) \in Notifications
      /\ \A v \in Workers : etag[v] \in Nat
      /\ UNCHANGED answers
  BY <1>0, RunningNotification DEF TypeOK, N, MarkDispatchingRepeated, Release, Finish
<1>3. row[N(w)].state = "reserved"
  BY <1>0 DEF IInv, ClaimsAreReserved, Matches, MarkDispatchingRepeated
<1>4. ClaimsAreReserved'
  BY <1>1, <1>2 DEF IInv, ClaimsAreReserved
<1>5. OwnersHoldRow' /\ OwnersExclusive'
  BY <1>1, <1>2, <1>3 DEF IInv, OwnersHoldRow, OwnersExclusive, Owner
<1>6. AnswersFollowRow'
  BY <1>0, <1>1, <1>2 DEF IInv, AnswersFollowRow, AllRetryable
<1>7. RepostOnlyAfterRetryable' /\ DispatchLeaseKept'
  BY <1>2 DEF IInv, RepostOnlyAfterRetryable, DispatchLeaseKept
<1>8. AcceptedOnRecord'
  BY <1>0, <1>1, <1>2 DEF IInv, AcceptedOnRecord, Accepted
<1>9. CompletedMeansAccepted'
  <2>1. \A m \in Messages : status'[m] = "completed" =>
          status[m] = "completed" \/ Accepted(notificationOf[m])
    BY <1>0, EndKeepsCompleted DEF MarkDispatchingRepeated
  <2>2. QED BY <2>1, <1>2 DEF IInv, CompletedMeansAccepted, Accepted
<1>10. QED BY <1>4, <1>5, <1>6, <1>7, <1>8, <1>9 DEF IInv

\* The POST: only the owner of a dispatching row whose answers were retryable.
LEMMA PostStep ==
    ASSUME IInv, TypeOK', NEW w \in Workers, Post(w)
    PROVE  IInv'
<1>0. TypeOK /\ N(w) \in Notifications /\ pc[w] = "posting"
  BY RunningNotification DEF IInv, Post
<1> DEFINE n == N(w)
<1>1. PICK a \in Answers :
        /\ answers' = [answers EXCEPT ![n] = Append(@, a)]
        /\ Goto(w, CASE a = "accepted" -> "accepted"
                     [] Retryable(a) -> "retrying"
                     [] Permanent(a) -> "rejecting"
                     [] OTHER -> "doubting")
  BY DEF Post
<1>2. /\ answers[n] \in Seq(Answers)
      /\ answers'[n] = Append(answers[n], a)
      /\ \A k \in Notifications : k # n => answers'[k] = answers[k]
  BY <1>0, <1>1 DEF TypeOK
<1>3. /\ pc'[w] \in {"accepted", "retrying", "rejecting", "doubting"}
      /\ pc'[w] = "retrying" => Retryable(a)
      /\ pc'[w] = "accepted" => a = "accepted"
  BY <1>0, <1>1 DEF TypeOK, Goto, Retryable, Permanent, Answers
<1>4. /\ \A v \in Workers : v # w => pc'[v] = pc[v]
      /\ \A v \in Workers : N(v)' = N(v) /\ etag'[v] = etag[v]
      /\ \A v \in Workers : pc[v] # "idle" => N(v) \in Notifications
      /\ UNCHANGED <<row, status>>
  BY <1>0, <1>1, RunningNotification DEF TypeOK, Goto, N, Post, brokerVars
<1>5. row[n].state = "dispatching" /\ AllRetryable(n)
  BY <1>0 DEF IInv, OwnersHoldRow, Owner, AnswersFollowRow
<1>6. /\ Len(answers'[n]) = Len(answers[n]) + 1 /\ Len(answers[n]) \in Nat
      /\ \A i \in 1 .. Len(answers[n]) : answers'[n][i] = answers[n][i]
      /\ answers'[n][Len(answers[n]) + 1] = a
  BY <1>2
<1>7. ClaimsAreReserved' /\ OwnersHoldRow' /\ OwnersExclusive'
  BY <1>0, <1>3, <1>4
  DEF IInv, ClaimsAreReserved, OwnersHoldRow, OwnersExclusive, Owner
<1>8. AnswersFollowRow'
  <2>1. \A k \in Notifications : row'[k].state \in {"none", "reserved"} => AllRetryable(k)'
    BY <1>2, <1>4, <1>5 DEF IInv, AnswersFollowRow, AllRetryable
  <2>2. ASSUME NEW v \in Workers, pc'[v] \in {"posting", "retrying"}
        PROVE  AllRetryable(N(v))'
    <3>1. CASE v = w
      <4>1. \A i \in 1 .. Len(answers'[n]) : Retryable(answers'[n][i])
        BY <1>3, <1>5, <1>6, <2>2, <3>1 DEF AllRetryable
      <4>2. QED BY <4>1, <3>1, <1>4 DEF AllRetryable
    <3>2. CASE v # w
      <4>1. pc[v] \in {"posting", "retrying"} /\ N(v) # n /\ N(v) \in Notifications
        BY <1>0, <1>4, <2>2, <3>2 DEF IInv, OwnersExclusive, Owner
      <4>2. QED BY <4>1, <1>2, <1>4 DEF IInv, AnswersFollowRow, AllRetryable
    <3>3. QED BY <3>1, <3>2
  <2>3. QED BY <2>1, <2>2 DEF AnswersFollowRow
<1>9. RepostOnlyAfterRetryable'
  <2>1. \A i \in 1 .. Len(answers'[n]) : i < Len(answers'[n]) => Retryable(answers'[n][i])
    BY <1>5, <1>6 DEF AllRetryable
  <2>2. QED BY <2>1, <1>2 DEF IInv, RepostOnlyAfterRetryable
<1>10. DispatchLeaseKept'
  BY <1>3, <1>4 DEF IInv, DispatchLeaseKept
<1>11. \A k \in Notifications : Accepted(k) => Accepted(k)'
  BY <1>2, <1>6 DEF Accepted
<1>12. a = "accepted" => Accepted(n)'
  BY <1>4, <1>6 DEF Accepted
<1>13. AcceptedOnRecord'
  BY <1>0, <1>3, <1>4, <1>11, <1>12 DEF IInv, AcceptedOnRecord
<1>14. CompletedMeansAccepted'
  BY <1>4, <1>11, MessageAssumption DEF IInv, CompletedMeansAccepted, Accepted
<1>15. QED BY <1>7, <1>8, <1>9, <1>10, <1>13, <1>14 DEF IInv

\* mark_delivered and reset_for_retry: the owner's ETag is the row's.
LEMMA OwnerWriteStep ==
    ASSUME IInv, TypeOK', NEW w \in Workers, MarkDelivered(w) \/ ResetForRetry(w)
    PROVE  IInv'
<1>0. /\ TypeOK /\ N(w) \in Notifications
      /\ pc[w] \in {"accepted", "retrying"}
  BY RunningNotification DEF IInv, MarkDelivered, ResetForRetry
<1>1. Matches(w)
  BY <1>0 DEF IInv, OwnersHoldRow, Owner, Matches
<1>2. PICK s \in {"delivered", "reserved"} :
        /\ Write(N(w), s)
        /\ s = "delivered" => pc[w] = "accepted" /\ Goto(w, "completing")
        /\ s = "reserved" => pc[w] = "retrying" /\ Goto(w, "abandoning")
  BY <1>1 DEF MarkDelivered, ResetForRetry
<1>3. /\ row'[N(w)].state = s /\ row'[N(w)].etag = row[N(w)].etag + 1
      /\ \A k \in Notifications : k # N(w) => row'[k] = row[k]
      /\ \A k \in Notifications : row[k].etag \in Nat /\ row[k].etag <= row'[k].etag
  BY <1>0, <1>2, WriteEffect
<1>4. /\ pc'[w] = IF s = "delivered" THEN "completing" ELSE "abandoning"
      /\ \A v \in Workers : v # w => pc'[v] = pc[v]
      /\ \A v \in Workers : N(v)' = N(v) /\ etag'[v] = etag[v] /\ etag[v] \in Nat
      /\ \A v \in Workers : pc[v] # "idle" => N(v) \in Notifications
      /\ UNCHANGED <<status, answers>>
  BY <1>0, <1>2, RunningNotification
  DEF TypeOK, Goto, N, MarkDelivered, ResetForRetry, brokerVars
<1>5. ClaimsAreReserved'
  BY <1>3, <1>4 DEF IInv, ClaimsAreReserved
<1>6. OwnersHoldRow' /\ OwnersExclusive'
  BY <1>0, <1>3, <1>4 DEF IInv, OwnersHoldRow, OwnersExclusive, Owner
<1>7. AnswersFollowRow'
  BY <1>0, <1>2, <1>3, <1>4 DEF IInv, AnswersFollowRow, AllRetryable
<1>8. RepostOnlyAfterRetryable' /\ DispatchLeaseKept' /\ CompletedMeansAccepted'
  BY <1>4 DEF IInv, RepostOnlyAfterRetryable, DispatchLeaseKept, CompletedMeansAccepted
<1>9. AcceptedOnRecord'
  BY <1>0, <1>2, <1>3, <1>4 DEF IInv, AcceptedOnRecord, Accepted
<1>10. QED BY <1>5, <1>6, <1>7, <1>8, <1>9 DEF IInv

\* The inductive step, one case per action.
LEMMA InvStep ==
    ASSUME IInv, [Next]_vars
    PROVE  IInv'
<1>0. TypeOK /\ TypeOK'
  BY TypeStep DEF IInv
<1> DEFINE RowsQuiet ==
              \A n \in Notifications :
                 /\ row'[n].etag = row[n].etag
                 /\ \/ row'[n].state = row[n].state
                    \/ {row[n].state, row'[n].state} \subseteq {"none", "reserved"}
           WorkersQuiet ==
              \A v \in Workers :
                 \/ pc'[v] = pc[v] /\ msg'[v] = msg[v] /\ etag'[v] = etag[v]
                 \/ pc'[v] \in {"idle", "received", "pruning", "creating", "reading"}
           CompletedQuiet ==
              \A m \in Messages : status'[m] = "completed" =>
                 status[m] = "completed" \/ Accepted(notificationOf[m])
<1>1. ASSUME UNCHANGED answers, RowsQuiet, WorkersQuiet, CompletedQuiet PROVE IInv'
  BY <1>0, <1>1, QuietStep
<1> HIDE DEF RowsQuiet, WorkersQuiet, CompletedQuiet
<1>2. UNCHANGED row => RowsQuiet
  BY DEF RowsQuiet
<1>3. UNCHANGED <<pc, msg, etag>> => WorkersQuiet
  BY DEF WorkersQuiet
<1>4. UNCHANGED status => CompletedQuiet
  BY DEF CompletedQuiet
<1>5. ASSUME NEW w \in Workers, pc[w] # "idle", UNCHANGED <<row, answers>>,
             \/ \E o \in Settled : Settle(w, o) /\ (o = "completed" => Accepted(N(w)))
             \/ Release(w)
      PROVE  IInv'
  <2>1. msg[w] \in Messages
    BY <1>0, <1>5, RunningNotification
  <2>2. CompletedQuiet
    BY <1>5, <2>1, EndKeepsCompleted DEF CompletedQuiet
  <2>3. Finish(w)
    BY <1>5 DEF Settle, Release
  <2>4. WorkersQuiet
    BY <1>0, <2>3 DEF Finish, WorkersQuiet, TypeOK
  <2>5. QED BY <1>1, <1>2, <1>5, <2>2, <2>4
<1>6. CASE UNCHANGED vars
  BY <1>1, <1>2, <1>3, <1>4, <1>6 DEF vars, brokerVars, workerVars
<1>7. ASSUME NEW m \in Messages, Enqueue(m) \/ ExpireMessage(m) PROVE IInv'
  <2>1. CompletedQuiet
    BY <1>0, <1>7 DEF Enqueue, ExpireMessage, CompletedQuiet, TypeOK
  <2>2. QED
    BY <1>1, <1>2, <1>3, <1>7, <2>1 DEF Enqueue, ExpireMessage, workerVars
<1>8. ASSUME NEW n \in Notifications, ExpireReservation(n) PROVE IInv'
  <2>1. RowsQuiet
    BY <1>0, <1>8 DEF ExpireReservation, RowsQuiet, TypeOK
  <2>2. QED
    BY <1>1, <1>3, <1>4, <1>8, <2>1 DEF ExpireReservation, brokerVars, workerVars
<1>9. ASSUME NEW w \in Workers, Receive(w) PROVE IInv'
  <2>1. WorkersQuiet
    BY <1>0, <1>9 DEF Receive, WorkersQuiet, TypeOK
  <2>2. QED BY <1>1, <1>2, <1>4, <1>9, <2>1 DEF Receive, brokerVars
<1>10. ASSUME NEW w \in Workers, LoseLock(w) PROVE IInv'
  <2>1. CompletedQuiet
    BY <1>0, <1>10 DEF LoseLock, TakeBack, CompletedQuiet, TypeOK
  <2>2. QED BY <1>1, <1>2, <1>3, <1>10, <2>1 DEF LoseLock
<1>11. ASSUME NEW w \in Workers, Crash(w) PROVE IInv'
  BY <1>5, <1>11 DEF Crash
<1>12. ASSUME NEW w \in Workers, Step(w) PROVE IInv'
  <2>1. CASE Reject(w) \/ SourceNotReady(w) \/ Conclude(w)
    <3>1. pc[w] # "idle" /\ UNCHANGED <<row, answers>>
      BY <2>1 DEF Reject, SourceNotReady, Conclude
    <3>2. pc[w] = "completing" => Accepted(N(w))
      BY DEF IInv, AcceptedOnRecord
    <3>3. \/ \E o \in Settled : Settle(w, o) /\ (o = "completed" => Accepted(N(w)))
          \/ Release(w)
      BY <2>1, <3>2 DEF Reject, SourceNotReady, Conclude, Settled
    <3>4. QED BY <1>5, <3>1, <3>3
  <2>2. CASE Verify(w)
    <3>1. WorkersQuiet
      BY <1>0, <2>2 DEF Verify, Goto, WorkersQuiet, TypeOK
    <3>2. QED BY <1>1, <1>2, <1>4, <2>2, <3>1 DEF Verify, brokerVars
  <2>3. CASE Prune(w)
    <3>1. WorkersQuiet
      BY <1>0, <2>3 DEF Prune, Goto, WorkersQuiet, TypeOK
    <3>2. RowsQuiet
      BY <1>0, <2>3 DEF Prune, RowsQuiet, TypeOK
    <3>3. QED BY <1>1, <1>4, <2>3, <3>1, <3>2 DEF Prune, brokerVars
  <2>4. CASE Create(w)
    <3>1. CASE row[N(w)].state = "none"
      BY <1>0, <2>4, <3>1, ReserveStep DEF Create, brokerVars
    <3>2. CASE row[N(w)].state # "none"
      <4>1. WorkersQuiet
        BY <1>0, <2>4, <3>2 DEF Create, Goto, WorkersQuiet, TypeOK
      <4>2. QED BY <1>1, <1>2, <1>4, <2>4, <3>2, <4>1 DEF Create, brokerVars
    <3>3. QED BY <3>1, <3>2
  <2>5. CASE Read(w)
    <3>0. N(w) \in Notifications /\ pc[w] = "reading" /\ row[N(w)].state \in RowStates
      BY <1>0, <2>5, RunningNotification DEF Read, TypeOK
    <3>1. CASE row[N(w)].state = "reserved"
      <4>0. /\ Goto(w, "reacquiring")
            /\ etag' = [etag EXCEPT ![w] = row[N(w)].etag]
            /\ UNCHANGED <<msg, locked, brokerVars, row, answers>>
        BY <2>5, <3>1 DEF Read
      <4>1. /\ pc'[w] = "reacquiring" /\ etag'[w] = row[N(w)].etag
            /\ \A v \in Workers : v # w => pc'[v] = pc[v] /\ etag'[v] = etag[v]
            /\ \A v \in Workers : N(v)' = N(v)
            /\ row[N(w)].etag \in Nat
        BY <1>0, <3>0, <4>0 DEF Goto, TypeOK, N
      <4>2. ClaimsAreReserved'
        BY <3>1, <4>0, <4>1 DEF IInv, ClaimsAreReserved
      <4>3. OwnersHoldRow' /\ OwnersExclusive'
        BY <4>0, <4>1 DEF IInv, OwnersHoldRow, OwnersExclusive, Owner
      <4>4. AnswersFollowRow' /\ AcceptedOnRecord'
        BY <4>0, <4>1 DEF IInv, AnswersFollowRow, AllRetryable, AcceptedOnRecord, Accepted
      <4>5. RepostOnlyAfterRetryable' /\ DispatchLeaseKept' /\ CompletedMeansAccepted'
        BY <4>0, <4>1
        DEF IInv, RepostOnlyAfterRetryable, DispatchLeaseKept, CompletedMeansAccepted,
            brokerVars
      <4>6. QED BY <1>0, <4>2, <4>3, <4>4, <4>5 DEF IInv
    <3>2. CASE row[N(w)].state # "reserved"
      <4>1. row[N(w)].state = "delivered" => Accepted(N(w))
        BY <3>0 DEF IInv, AcceptedOnRecord
      <4>2. \/ \E o \in Settled : Settle(w, o) /\ (o = "completed" => Accepted(N(w)))
            \/ Release(w)
        BY <2>5, <3>0, <3>2, <4>1 DEF Read, Settled, RowStates
      <4>3. QED BY <1>5, <2>5, <3>0, <4>2 DEF Read
    <3>3. QED BY <3>1, <3>2
  <2>6. CASE Reacquire(w)
    <3>1. CASE Matches(w)
      <4>1. row[N(w)].state \in {"none", "reserved"}
        BY <2>6, <3>1 DEF IInv, ClaimsAreReserved, Matches, Reacquire
      <4>2. QED BY <1>0, <2>6, <3>1, <4>1, ReserveStep DEF Reacquire, brokerVars
    <3>2. CASE ~Matches(w)
      BY <1>5, <2>6, <3>2 DEF Reacquire
    <3>3. QED BY <3>1, <3>2
  <2>7. CASE MarkDispatching(w)
    <3>1. CASE Matches(w)
      BY <1>0, <2>7, <3>1, MarkDispatchingStep
    <3>2. CASE ~Matches(w)
      BY <1>5, <2>7, <3>2 DEF MarkDispatching
    <3>3. QED BY <3>1, <3>2
  <2>8. CASE MarkDispatchingRepeated(w)
    BY <1>0, <2>8, MarkDispatchingRepeatedStep
  <2>9. CASE Post(w)
    BY <1>0, <2>9, PostStep
  <2>10. CASE MarkDelivered(w) \/ ResetForRetry(w)
    BY <1>0, <2>10, OwnerWriteStep
  <2>11. QED
    BY <1>12, <2>1, <2>2, <2>3, <2>4, <2>5, <2>6, <2>7, <2>8, <2>9, <2>10 DEF Step
<1>13. QED
  BY <1>6, <1>7, <1>8, <1>9, <1>10, <1>11, <1>12 DEF Next

\* The initial state satisfies the inductive invariant.
LEMMA InvInit == Init => IInv
<1> SUFFICES ASSUME Init PROVE IInv
  OBVIOUS
<1>1. TypeOK
  BY DEF Init, TypeOK, RowStates, PCs
<1>2. \A n \in Notifications : Len(answers[n]) = 0 /\ row[n].state = "none"
  BY DEF Init
<1>3. \A w \in Workers : pc[w] = "idle"
  BY DEF Init
<1>4. \A m \in Messages : status[m] # "completed"
  BY DEF Init
<1>5. ClaimsAreReserved /\ OwnersHoldRow /\ OwnersExclusive /\ DispatchLeaseKept
  BY <1>3 DEF ClaimsAreReserved, OwnersHoldRow, OwnersExclusive, Owner, DispatchLeaseKept
<1>6. AnswersFollowRow /\ RepostOnlyAfterRetryable /\ AcceptedOnRecord
  BY <1>2, <1>3
  DEF AnswersFollowRow, AllRetryable, RepostOnlyAfterRetryable, AcceptedOnRecord
<1>7. CompletedMeansAccepted
  BY <1>4 DEF CompletedMeansAccepted
<1>8. QED BY <1>1, <1>5, <1>6, <1>7 DEF IInv

\* The inductive invariant holds in every reachable state.
THEOREM Invariance == Spec => []IInv
<1>1. IInv /\ [Next]_vars => IInv'
  BY InvStep
<1>2. QED BY <1>1, InvInit, PTL DEF Spec

\* At-most-once posting: a notification is posted again only after answers that
\* were all retryable, for any number of executions, crashes and redeliveries.
THEOREM AtMostOncePosting == Spec => []RepostOnlyAfterRetryable
<1>1. IInv => RepostOnlyAfterRetryable
  BY DEF IInv
<1>2. QED BY <1>1, Invariance, PTL

\* mark_delivered and reset_for_retry never lose the dispatch lease.
THEOREM LeaseKept == Spec => []DispatchLeaseKept
<1>1. IInv => DispatchLeaseKept
  BY DEF IInv
<1>2. QED BY <1>1, Invariance, PTL

\* A message is completed only if the Logic App accepted its notification.
THEOREM NeverSilentlyCompleted == Spec => []CompletedMeansAccepted
<1>1. IInv => CompletedMeansAccepted
  BY DEF IInv
<1>2. QED BY <1>1, Invariance, PTL

-----------------------------------------------------------------------------
(* Order within a session *)

\* Sequence numbers are given in order, and a session lock that the broker
\* honours is on the oldest queued message of its session.
SessionOrder ==
    /\ \A m \in Messages : seqNo[m] <= lastSeq
    /\ \A w \in Workers : locked[w] =>
         /\ msg[w] \in Messages /\ status[msg[w]] # "absent"
         /\ \A m \in Messages :
              sessionOf[m] = sessionOf[msg[w]] /\ status[m] = "queued" => seqNo[msg[w]] <= seqNo[m]

\* A step that queues nothing and locks no session.
SessionQuiet ==
    /\ UNCHANGED <<seqNo, lastSeq>>
    /\ \A m \in Messages : status'[m] \in {"absent", "queued"} => status'[m] = status[m]
    /\ \A w \in Workers : locked'[w] => locked[w] /\ msg'[w] = msg[w]

LEMMA EndIsQuiet ==
    ASSUME TypeOK, NEW w \in Workers,
           \/ \E o \in Settled : Settle(w, o)
           \/ Release(w)
    PROVE  SessionQuiet
<1>1. \A v \in Workers : locked'[v] => locked[v] /\ msg'[v] = msg[v]
  <2>1. Finish(w)
    BY DEF Settle, Release
  <2>2. QED BY <2>1 DEF TypeOK, Finish
<1>2. UNCHANGED <<seqNo, lastSeq>>
  BY DEF Settle, Release, TakeBack, brokerVars
<1>3. \A m \in Messages : status'[m] \in {"absent", "queued"} => status'[m] = status[m]
  <2>1. \/ status' = status
        \/ \E o \in Settled : status' = [status EXCEPT ![msg[w]] = o]
    BY DEF Settle, Release, TakeBack, brokerVars, Settled
  <2>2. QED BY <2>1 DEF TypeOK, Settled
<1>4. QED BY <1>1, <1>2, <1>3 DEF SessionQuiet

LEMMA QuietKeepsOrder ==
    ASSUME TypeOK, SessionOrder, SessionQuiet
    PROVE  SessionOrder'
BY DEF TypeOK, SessionOrder, SessionQuiet

LEMMA OrderStep == IInv /\ SessionOrder /\ [Next]_vars => SessionOrder'
<1> SUFFICES ASSUME IInv, SessionOrder, [Next]_vars PROVE SessionOrder'
  OBVIOUS
<1>0. TypeOK
  BY DEF IInv
<1>1. ASSUME NEW m \in Messages, Enqueue(m) PROVE SessionOrder'
  <2>1. /\ lastSeq \in Nat /\ lastSeq' = lastSeq + 1 /\ UNCHANGED <<msg, locked>>
        /\ \A o \in Messages : seqNo[o] \in Nat /\ seqNo[o] <= lastSeq
        /\ seqNo'[m] = lastSeq + 1 /\ \A o \in Messages \ {m} : seqNo'[o] = seqNo[o]
        /\ status[m] = "absent" /\ status'[m] = "queued"
        /\ \A o \in Messages \ {m} : status'[o] = status[o]
    BY <1>0, <1>1 DEF TypeOK, SessionOrder, Enqueue, workerVars
  <2>2. \A o \in Messages : seqNo'[o] <= lastSeq'
    BY <2>1
  <2>3. ASSUME NEW w \in Workers, locked'[w]
        PROVE  /\ msg'[w] \in Messages /\ status'[msg'[w]] # "absent"
               /\ \A o \in Messages : sessionOf[o] = sessionOf[msg'[w]] /\ status'[o] = "queued"
                                        => seqNo'[msg'[w]] <= seqNo'[o]
    <3>1. msg'[w] = msg[w] /\ msg[w] \in Messages \ {m} /\ status[msg[w]] # "absent"
      BY <2>1, <2>3 DEF SessionOrder
    <3>2. \A o \in Messages : sessionOf[o] = sessionOf[msg[w]] /\ status[o] = "queued"
                                => seqNo[msg[w]] <= seqNo[o]
      BY <2>1, <2>3 DEF SessionOrder
    <3>3. QED BY <2>1, <3>1, <3>2
  <2>4. QED BY <2>2, <2>3 DEF SessionOrder
<1>2. ASSUME NEW w \in Workers, Receive(w) PROVE SessionOrder'
  <2>1. PICK s \in Sessions : \E m \in Oldest(s) : msg' = [msg EXCEPT ![w] = m]
    BY <1>2 DEF Receive
  <2>0. PICK m \in Oldest(s) : msg' = [msg EXCEPT ![w] = m]
    BY <2>1
  <2>2. /\ m \in Messages /\ status[m] = "queued" /\ sessionOf[m] = s
        /\ \A o \in Messages : status[o] = "queued" /\ sessionOf[o] = s => seqNo[m] <= seqNo[o]
    BY <2>0 DEF Oldest
  <2>3. UNCHANGED <<status, seqNo, lastSeq>> /\ locked' = [locked EXCEPT ![w] = TRUE]
    BY <1>2 DEF Receive, brokerVars
  <2>4. msg'[w] = m /\ \A v \in Workers \ {w} : msg'[v] = msg[v] /\ locked'[v] = locked[v]
    BY <1>0, <2>0, <2>3 DEF TypeOK
  <2>5. QED BY <2>2, <2>3, <2>4 DEF SessionOrder
<1>3. ASSUME NEW w \in Workers, LoseLock(w) PROVE SessionOrder'
  <2>1. UNCHANGED <<seqNo, lastSeq, msg>> /\ locked' = [locked EXCEPT ![w] = FALSE]
    BY <1>3 DEF LoseLock, TakeBack
  <2>2. status' = status \/ status' = [status EXCEPT ![msg[w]] = "exhausted"]
    BY <1>3 DEF LoseLock, TakeBack
  <2>3. SessionQuiet
    BY <1>0, <2>1, <2>2 DEF TypeOK, SessionQuiet
  <2>4. QED BY <1>0, <2>3, QuietKeepsOrder
<1>4. ASSUME NEW m \in Messages, ExpireMessage(m) PROVE SessionOrder'
  <2>1. SessionQuiet
    BY <1>0, <1>4 DEF TypeOK, SessionQuiet, ExpireMessage, workerVars
  <2>2. QED BY <1>0, <2>1, QuietKeepsOrder
<1>5. ASSUME NEW w \in Workers, Step(w) \/ Crash(w) PROVE SessionOrder'
  <2>1. \/ UNCHANGED <<brokerVars, msg, locked>>
        \/ \E o \in Settled : Settle(w, o)
        \/ Release(w)
    <3>1. CASE Read(w)
      <4>1. row[N(w)].state \in RowStates
        BY <1>0, <3>1, RunningNotification DEF TypeOK, Read
      <4>2. QED BY <3>1, <4>1 DEF Read, RowStates, Settled
    <3>2. CASE Verify(w) \/ Prune(w) \/ Create(w) \/ Post(w) \/ MarkDelivered(w) \/ ResetForRetry(w)
      BY <3>2 DEF Verify, Prune, Create, Post, MarkDelivered, ResetForRetry
    <3>3. CASE Reject(w) \/ SourceNotReady(w) \/ Conclude(w) \/ Crash(w)
      BY <3>3 DEF Reject, SourceNotReady, Conclude, Crash, Settled
    <3>4. CASE Reacquire(w) \/ MarkDispatching(w) \/ MarkDispatchingRepeated(w)
      BY <3>4 DEF Reacquire, MarkDispatching, MarkDispatchingRepeated
    <3>5. QED BY <1>5, <3>1, <3>2, <3>3, <3>4 DEF Step
  <2>2. CASE UNCHANGED <<brokerVars, msg, locked>>
    BY <2>2 DEF SessionOrder, brokerVars
  <2>3. CASE ~ UNCHANGED <<brokerVars, msg, locked>>
    BY <1>0, <2>1, <2>3, EndIsQuiet, QuietKeepsOrder
  <2>4. QED BY <2>2, <2>3
<1>6. ASSUME NEW n \in Notifications, ExpireReservation(n) PROVE SessionOrder'
  BY <1>6 DEF SessionOrder, ExpireReservation, brokerVars, workerVars
<1>7. CASE UNCHANGED vars
  BY <1>7 DEF SessionOrder, vars, brokerVars, workerVars
<1>8. QED
  BY <1>1, <1>2, <1>3, <1>4, <1>5, <1>6, <1>7 DEF Next

\* While an execution that owns its session posts a notification, every message
\* queued before it in the session is settled, for any number of sessions,
\* executions and lost locks (run_notification_dispatcher_worker).
THEOREM AlwaysOrdered == Spec => []OrderedPosting
<1>1. Init => SessionOrder
  BY DEF Init, SessionOrder
<1>2. Spec => []SessionOrder
  BY <1>1, OrderStep, Invariance, PTL DEF Spec
<1>3. IInv /\ SessionOrder => OrderedPosting
  <2> SUFFICES ASSUME IInv, SessionOrder, NEW w \in Workers, locked[w], NEW m \in Messages,
                      sessionOf[m] = sessionOf[msg[w]], seqNo[m] < seqNo[msg[w]],
                      status[m] # "absent"
               PROVE  status[m] \in Settled
    BY DEF OrderedPosting
  <2>1. msg[w] \in Messages /\ (status[m] = "queued" => seqNo[msg[w]] <= seqNo[m])
    BY DEF SessionOrder
  <2>2. seqNo[m] \in Nat /\ seqNo[msg[w]] \in Nat /\ status[m] \in {"absent", "queued"} \cup Settled
    BY <2>1 DEF IInv, TypeOK
  <2>3. QED BY <2>1, <2>2
<1>4. QED BY <1>2, <1>3, Invariance, PTL

-----------------------------------------------------------------------------
(* What may have been posted stays on record *)

\* An execution about to reset its row has an answer to its POST.
RetriesAnswered == \A w \in Workers : pc[w] = "retrying" => answers[N(w)] # << >>

\* Rows that a POST may have followed are kept.
RecordKept(n) ==
    /\ row[n].state = "delivered" => row'[n].state = "delivered"
    /\ row[n].state = "dispatching" =>
         \/ row'[n].state \in {"dispatching", "delivered"}
         \/ /\ row'[n].state = "reserved"
            /\ answers[n] # << >> /\ Retryable(answers[n][Len(answers[n])])

\* Steps that post nothing and start no retry.
LEMMA RetriesStay ==
    ASSUME RetriesAnswered, UNCHANGED answers,
           \A w \in Workers : pc'[w] = "retrying" => pc[w] = "retrying" /\ msg'[w] = msg[w]
    PROVE  RetriesAnswered'
BY DEF RetriesAnswered, N

LEMMA RetriesStep == IInv /\ RetriesAnswered /\ [Next]_vars => RetriesAnswered'
<1> SUFFICES ASSUME IInv, RetriesAnswered, [Next]_vars PROVE RetriesAnswered'
  OBVIOUS
<1>0. TypeOK
  BY DEF IInv
<1>1. ASSUME NEW w \in Workers, Post(w) PROVE RetriesAnswered'
  <2>1. N(w) \in Notifications
    BY <1>0, <1>1, RunningNotification DEF Post
  <2>2. PICK a \in Answers : answers' = [answers EXCEPT ![N(w)] = Append(@, a)]
    BY <1>1 DEF Post
  <2>3. \A n \in Notifications : answers[n] \in Seq(Answers)
    BY <1>0 DEF TypeOK
  <2>4. \A n \in Notifications : n # N(w) => answers'[n] = answers[n]
    BY <1>0, <2>2 DEF TypeOK
  <2>5. answers'[N(w)] # << >>
    <3>1. answers'[N(w)] = Append(answers[N(w)], a)
      BY <1>0, <2>1, <2>2 DEF TypeOK
    <3>2. QED BY <2>1, <2>3, <3>1
  <2>6. ASSUME NEW v \in Workers, pc'[v] = "retrying" PROVE answers'[N(v)'] # << >>
    <3>1. N(v)' = N(v)
      BY <1>1 DEF Post, N
    <3>2. CASE N(v) = N(w)
      BY <2>5, <3>1, <3>2
    <3>3. CASE N(v) # N(w)
      <4>1. pc[v] = "retrying"
        <5>1. v # w
          BY <3>3
        <5>2. QED BY <1>0, <1>1, <2>6, <5>1 DEF Post, Goto, TypeOK
      <4>2. N(v) \in Notifications
        BY <1>0, <4>1, RunningNotification
      <4>3. QED BY <2>4, <3>1, <3>3, <4>1, <4>2 DEF RetriesAnswered
    <3>4. QED BY <3>2, <3>3
  <2>7. QED BY <2>6 DEF RetriesAnswered
<1>2. ASSUME NEW w \in Workers,
             \/ \E o \in Settled : Settle(w, o)
             \/ Release(w)
      PROVE  \A v \in Workers : pc'[v] = "retrying" => pc[v] = "retrying" /\ msg'[v] = msg[v]
  <2>1. Finish(w)
    BY <1>2 DEF Settle, Release
  <2>2. QED BY <1>0, <2>1 DEF Finish, TypeOK
<1>3. ASSUME NEW w \in Workers, UNCHANGED msg,
             \E l \in PCs \ {"retrying"} : Goto(w, l)
      PROVE  \A v \in Workers : pc'[v] = "retrying" => pc[v] = "retrying" /\ msg'[v] = msg[v]
  BY <1>0, <1>3 DEF Goto, TypeOK
<1>4. ASSUME NEW w \in Workers, Step(w) \/ Crash(w), ~Post(w) PROVE RetriesAnswered'
  <2>1. UNCHANGED answers
    BY <1>4 DEF Step, Crash, Verify, Reject, SourceNotReady, Prune, Create, Read, Reacquire,
                MarkDispatching, MarkDispatchingRepeated, MarkDelivered, ResetForRetry, Conclude
  <2>2. \/ \E o \in Settled : Settle(w, o)
        \/ Release(w)
        \/ UNCHANGED msg /\ \E l \in PCs \ {"retrying"} : Goto(w, l)
    <3>1. CASE Read(w)
      <4>1. row[N(w)].state \in RowStates
        BY <1>0, <3>1, RunningNotification DEF TypeOK, Read
      <4>2. QED BY <3>1, <4>1 DEF Read, RowStates, Settled, PCs
    <3>2. CASE Verify(w) \/ Prune(w) \/ Create(w) \/ MarkDelivered(w) \/ ResetForRetry(w)
      BY <3>2 DEF Verify, Prune, Create, MarkDelivered, ResetForRetry, PCs
    <3>3. CASE Reject(w) \/ SourceNotReady(w) \/ Conclude(w) \/ Crash(w)
      BY <3>3 DEF Reject, SourceNotReady, Conclude, Crash, Settled
    <3>4. CASE Reacquire(w) \/ MarkDispatching(w) \/ MarkDispatchingRepeated(w)
      BY <3>4 DEF Reacquire, MarkDispatching, MarkDispatchingRepeated, PCs
    <3>5. QED BY <1>4, <3>1, <3>2, <3>3, <3>4 DEF Step
  <2>3. QED BY <1>2, <1>3, <2>1, <2>2, RetriesStay
<1>5. ASSUME NEW w \in Workers, Receive(w) PROVE RetriesAnswered'
  <2>1. pc' = [pc EXCEPT ![w] = "received"] /\ UNCHANGED answers
    BY <1>5 DEF Receive
  <2>2. \A v \in Workers : v # w => msg'[v] = msg[v]
    BY <1>0, <1>5 DEF Receive, TypeOK
  <2>3. \A v \in Workers : pc'[v] = "retrying" => pc[v] = "retrying" /\ msg'[v] = msg[v]
    BY <1>0, <2>1, <2>2 DEF TypeOK
  <2>4. QED BY <2>1, <2>3, RetriesStay
<1>6. CASE UNCHANGED <<pc, msg, answers>>
  BY <1>6, RetriesStay
<1>7. ASSUME NEW m \in Messages, Enqueue(m) \/ ExpireMessage(m) PROVE RetriesAnswered'
  BY <1>6, <1>7 DEF Enqueue, ExpireMessage, workerVars
<1>8. ASSUME NEW n \in Notifications, ExpireReservation(n) PROVE RetriesAnswered'
  BY <1>6, <1>8 DEF ExpireReservation, workerVars
<1>9. ASSUME NEW w \in Workers, LoseLock(w) PROVE RetriesAnswered'
  BY <1>6, <1>9 DEF LoseLock
<1>10. CASE UNCHANGED vars
  BY <1>6, <1>10 DEF vars, workerVars
<1>11. QED
  BY <1>1, <1>4, <1>5, <1>7, <1>8, <1>9, <1>10 DEF Next, Step

LEMMA RecordStep ==
    ASSUME IInv, RetriesAnswered, [Next]_vars
    PROVE  \A n \in Notifications : RecordKept(n)
<1>0. TypeOK
  BY DEF IInv
<1>1. CASE UNCHANGED row
  BY <1>0, <1>1 DEF RecordKept
<1>2. ASSUME NEW w \in Workers, NEW s \in {"reserved", "dispatching", "delivered"},
             N(w) \in Notifications, Write(N(w), s),
             row[N(w)].state # "delivered",
             row[N(w)].state = "dispatching" => \/ s = "delivered"
                                                \/ /\ s = "reserved" /\ answers[N(w)] # << >>
                                                   /\ AllRetryable(N(w))
      PROVE  \A n \in Notifications : RecordKept(n)
  <2>1. row'[N(w)].state = s /\ \A n \in Notifications : n # N(w) => row'[n] = row[n]
    BY <1>0, <1>2, WriteEffect
  <2>2. ASSUME answers[N(w)] # << >>, AllRetryable(N(w))
        PROVE  Retryable(answers[N(w)][Len(answers[N(w)])])
    <3>1. answers[N(w)] \in Seq(Answers)
      BY <1>0, <1>2 DEF TypeOK
    <3>2. Len(answers[N(w)]) \in Nat /\ Len(answers[N(w)]) # 0
      BY <2>2, <3>1
    <3>3. Len(answers[N(w)]) \in 1 .. Len(answers[N(w)])
      BY <3>2
    <3>4. QED BY <2>2, <3>3 DEF AllRetryable
  <2>3. ASSUME NEW n \in Notifications, n # N(w) PROVE RecordKept(n)
    BY <2>1, <2>3 DEF RecordKept
  <2>4. RecordKept(N(w))
    BY <1>2, <2>1, <2>2 DEF RecordKept
  <2>5. QED BY <2>3, <2>4
<1>3. ASSUME NEW w \in Workers, Step(w) PROVE \A n \in Notifications : RecordKept(n)
  <2>1. CASE Prune(w)
    BY <2>1 DEF Prune, RecordKept
  <2>2. CASE Create(w)
    <3>1. N(w) \in Notifications
      BY <1>0, <2>2, RunningNotification DEF Create
    <3>2. UNCHANGED row \/ (row[N(w)].state = "none" /\ Write(N(w), "reserved"))
      BY <2>2 DEF Create
    <3>3. QED BY <1>1, <1>2, <3>1, <3>2
  <2>3. CASE Reacquire(w) \/ MarkDispatching(w) \/ MarkDispatchingRepeated(w)
    <3>1. pc[w] \in {"reacquiring", "claimed"} /\ N(w) \in Notifications
      BY <1>0, <2>3, RunningNotification DEF Reacquire, MarkDispatching, MarkDispatchingRepeated
    <3>2. \/ UNCHANGED row
          \/ Matches(w) /\ \E s \in {"reserved", "dispatching"} : Write(N(w), s)
      BY <2>3 DEF Reacquire, MarkDispatching, MarkDispatchingRepeated
    <3>3. Matches(w) => row[N(w)].state \in {"none", "reserved"}
      BY <3>1 DEF IInv, ClaimsAreReserved, Matches
    <3>4. QED BY <1>1, <1>2, <3>1, <3>2, <3>3
  <2>4. CASE MarkDelivered(w)
    <3>1. pc[w] = "accepted" /\ N(w) \in Notifications
      BY <1>0, <2>4, RunningNotification DEF MarkDelivered
    <3>2. row[N(w)].state = "dispatching"
      BY <3>1 DEF IInv, OwnersHoldRow, Owner
    <3>3. UNCHANGED row \/ Write(N(w), "delivered")
      BY <2>4 DEF MarkDelivered
    <3>4. QED BY <1>1, <1>2, <3>1, <3>2, <3>3
  <2>5. CASE ResetForRetry(w)
    <3>1. pc[w] = "retrying" /\ N(w) \in Notifications
      BY <1>0, <2>5, RunningNotification DEF ResetForRetry
    <3>2. row[N(w)].state = "dispatching" /\ answers[N(w)] # << >> /\ AllRetryable(N(w))
      BY <3>1 DEF IInv, OwnersHoldRow, Owner, RetriesAnswered, AnswersFollowRow
    <3>3. UNCHANGED row \/ Write(N(w), "reserved")
      BY <2>5 DEF ResetForRetry
    <3>4. QED BY <1>1, <1>2, <3>1, <3>2, <3>3
  <2>6. CASE Verify(w) \/ Reject(w) \/ SourceNotReady(w) \/ Read(w) \/ Post(w) \/ Conclude(w)
    BY <1>1, <2>6 DEF Verify, Reject, SourceNotReady, Read, Post, Conclude
  <2>7. QED BY <1>3, <2>1, <2>2, <2>3, <2>4, <2>5, <2>6 DEF Step
<1>4. ASSUME NEW k \in Notifications, ExpireReservation(k) PROVE \A n \in Notifications : RecordKept(n)
  <2>1. \A n \in Notifications : row'[n].state = row[n].state
    BY <1>0, <1>4 DEF ExpireReservation, TypeOK
  <2>2. QED BY <2>1 DEF RecordKept
<1>5. ASSUME NEW m \in Messages, Enqueue(m) \/ ExpireMessage(m)
      PROVE  \A n \in Notifications : RecordKept(n)
  BY <1>1, <1>5 DEF Enqueue, ExpireMessage
<1>6. ASSUME NEW w \in Workers, Receive(w) \/ LoseLock(w) \/ Crash(w)
      PROVE  \A n \in Notifications : RecordKept(n)
  BY <1>1, <1>6 DEF Receive, LoseLock, Crash
<1>7. CASE UNCHANGED vars
  BY <1>1, <1>7 DEF vars
<1>8. QED BY <1>3, <1>4, <1>5, <1>6, <1>7 DEF Next

\* No step removes a row that a POST may have followed, and only retryable
\* answers take one back to reserved (acquire, mark_dispatching,
\* reset_for_retry, _prune_expired).
THEOREM RecordsRetained == Spec => PostRecordsRetained
<1>1. Init => RetriesAnswered
  BY DEF Init, RetriesAnswered
<1>2. Spec => []RetriesAnswered
  BY <1>1, RetriesStep, Invariance, PTL DEF Spec
<1>3. IInv /\ RetriesAnswered /\ [Next]_vars => [\A n \in Notifications : RecordKept(n)]_vars
  BY RecordStep
<1>4. Spec => [][\A n \in Notifications : RecordKept(n)]_vars
  BY <1>2, <1>3, Invariance, PTL DEF Spec
<1>5. [][\A n \in Notifications : RecordKept(n)]_vars => PostRecordsRetained
  BY DEF RecordKept, PostRecordsRetained
<1>6. QED BY <1>4, <1>5

=============================================================================
