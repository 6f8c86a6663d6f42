------------------------ MODULE SignalDetectorProofs ------------------------
(***************************************************************************)
(* Detector executions exclude each other, meet no conflicting checkpoint  *)
(* and lose no transition, for any number of executions, resources and     *)
(* changes of health.                                                      *)
(*                                                                         *)
(* Mutual exclusion comes from one arithmetic fact, LeaseCoversRun: the    *)
(* lease lasts at least the replica timeout plus the minute by which the   *)
(* clock may be truncated.  A holder owns the lease row, whose expiry is   *)
(* its own truncated clock plus LeaseTime.  A contender that found the row *)
(* expired by its own clock, which is not ahead of the time, finds it only *)
(* after the holder's replica timeout, when the holder is gone.            *)
(*                                                                         *)
(* A holder is therefore alone with the checkpoints, and what it loaded,   *)
(* saw and staged is still in the table when it gets to commit (LoopOK).   *)
(* That the queue follows the checkpoints also needs identifiers that      *)
(* differ: if executions read the clock within their minute, holders have  *)
(* different minutes, and a request made now was never sent before.        *)
(***************************************************************************)
EXTENDS SignalDetector, TLAPS

\* The part of the state the lease protocol uses has its types.
LeaseTypeOK ==
    /\ now \in Nat
    /\ lease \in [owner : Executions \cup {NoOwner}, expires : Nat, etag : Nat]
    /\ pc \in [Executions -> PCs]
    /\ started \in [Executions -> Nat]
    /\ clock \in [Executions -> Nat]
    /\ etag \in [Executions -> Nat]

HoldersOwnLease ==
    \A e \in Executions : pc[e] \in Holding =>
        lease.owner = e /\ lease.expires = clock[e] + LeaseTime

RunsAreTimely ==
    \A e \in Executions : pc[e] \in Running =>
        started[e] <= now /\ now <= started[e] + ReplicaTimeout

\* The clock an execution read is at most a minute before its start, and past.
ClocksAreRecent ==
    \A e \in Executions : pc[e] \in Running \ {"scheduled"} =>
        clock[e] <= now /\ started[e] < clock[e] + Minute

\* A contender's ETag is the row's only while the row it read is unchanged.
ClaimsAreExpired ==
    \A e \in Executions : pc[e] = "claiming" =>
        /\ etag[e] <= lease.etag
        /\ etag[e] = lease.etag /\ lease.owner # NoOwner => lease.expires <= clock[e]

\* The inductive invariant.
IInv ==
    /\ LeaseTypeOK
    /\ HoldersOwnLease
    /\ RunsAreTimely
    /\ ClocksAreRecent
    /\ ClaimsAreExpired

-----------------------------------------------------------------------------

\* Truncating to the minute goes back by less than a minute.
LEMMA TruncateBounds ==
    ASSUME NEW t \in Nat
    PROVE  Truncate(t) \in Nat /\ Truncate(t) <= t /\ t < Truncate(t) + Minute
<1>1. t % Minute \in 0 .. (Minute - 1) /\ t % Minute <= t
  BY TimeAssumption, Z3
<1>2. QED BY <1>1, TimeAssumption DEF Truncate

\* Steps of an execution that leave the lease and its clock alone, and move it
\* within the holding phases (the loops of _detect_signal_requests_with_lease).
LEMMA LoopStep ==
    ASSUME IInv, NEW e \in Executions, pc[e] \in Holding,
           UNCHANGED <<now, lease, started, clock, etag>>,
           NEW p \in Holding, pc' = [pc EXCEPT ![e] = p]
    PROVE  IInv'
<1>1. pc' \in [Executions -> PCs] /\ pc'[e] = p /\ \A x \in Executions : x # e => pc'[x] = pc[x]
  BY DEF IInv, LeaseTypeOK, PCs, Running
<1>2. LeaseTypeOK'
  BY <1>1 DEF IInv, LeaseTypeOK
<1>3. HoldersOwnLease'
  BY <1>1 DEF IInv, HoldersOwnLease
<1>4. RunsAreTimely' /\ ClocksAreRecent'
  BY <1>1 DEF IInv, RunsAreTimely, ClocksAreRecent, Running, Holding
<1>5. ClaimsAreExpired'
  BY <1>1 DEF IInv, ClaimsAreExpired, Holding
<1>6. QED BY <1>2, <1>3, <1>4, <1>5 DEF IInv

\* An execution ends: nothing is required of it any more.  The lease row is left
\* alone, or deleted by the execution that owns it.
LEMMA EndStep ==
    ASSUME IInv, NEW e \in Executions, End(e), UNCHANGED now,
           \/ UNCHANGED lease
           \/ lease.owner = e /\ lease' = [lease EXCEPT !.owner = NoOwner]
    PROVE  IInv'
<1>1. /\ pc'[e] = "done"
      /\ \A x \in Executions : x # e =>
            pc'[x] = pc[x] /\ started'[x] = started[x] /\ clock'[x] = clock[x] /\ etag'[x] = etag[x]
  BY DEF IInv, LeaseTypeOK, End
<1>2. LeaseTypeOK'
  BY DEF IInv, LeaseTypeOK, End, PCs
<1>3. "done" \notin Running
  BY DEF Running, Holding, Starting
<1>4. lease'.etag = lease.etag /\ lease'.expires = lease.expires
      /\ (lease'.owner = lease.owner \/ (lease.owner = e /\ lease'.owner = NoOwner))
  BY DEF IInv, LeaseTypeOK
<1>5. HoldersOwnLease'
  BY <1>1, <1>3, <1>4 DEF IInv, HoldersOwnLease, Running
<1>6. RunsAreTimely' /\ ClocksAreRecent'
  BY <1>1, <1>3 DEF IInv, RunsAreTimely, ClocksAreRecent
<1>7. ClaimsAreExpired'
  BY <1>1, <1>4 DEF IInv, ClaimsAreExpired
<1>8. QED BY <1>2, <1>5, <1>6, <1>7 DEF IInv

\* An execution takes a free or expired lease: nobody else holds it.
LEMMA TakeStep ==
    ASSUME IInv, NEW e \in Executions, pc[e] \in {"creating", "claiming"},
           Take(e), Goto(e, "resuming"), UNCHANGED <<now, etag>>,
           lease.owner = NoOwner \/ lease.expires <= clock[e]
    PROVE  IInv'
<1>1. /\ pc'[e] = "resuming" /\ UNCHANGED <<started, clock>>
      /\ \A x \in Executions : x # e => pc'[x] = pc[x]
  BY DEF IInv, LeaseTypeOK, Goto
<1>2. lease' = [owner |-> e, expires |-> clock[e] + LeaseTime, etag |-> lease.etag + 1]
  BY DEF Take
<1>3. LeaseTypeOK'
  BY <1>2, TimeAssumption DEF IInv, LeaseTypeOK, Goto, PCs, Running, Holding
<1>4. ASSUME NEW d \in Executions, pc[d] \in Holding PROVE FALSE
  <2>1. lease.owner = d /\ lease.expires = clock[d] + LeaseTime
    BY <1>4 DEF IInv, HoldersOwnLease
  <2>2. lease.expires <= clock[e]
    BY <2>1, ResourceAssumption
  <2>3. clock[e] <= now
    BY DEF IInv, ClocksAreRecent, Running, Starting
  <2>4. now <= started[d] + ReplicaTimeout
    BY <1>4 DEF IInv, RunsAreTimely, Running
  <2>5. started[d] < clock[d] + Minute
    BY <1>4 DEF IInv, ClocksAreRecent, Running, Holding
  <2>6. /\ clock[d] \in Nat /\ clock[e] \in Nat /\ started[d] \in Nat /\ now \in Nat
        /\ lease.expires \in Nat
    BY DEF IInv, LeaseTypeOK
  <2>7. QED
    BY <2>1, <2>2, <2>3, <2>4, <2>5, <2>6, TimeAssumption, LeaseCoversRun
<1>5. HoldersOwnLease'
  BY <1>1, <1>2, <1>4 DEF HoldersOwnLease
<1>6. RunsAreTimely' /\ ClocksAreRecent'
  BY <1>1 DEF IInv, RunsAreTimely, ClocksAreRecent, Running, Starting
<1>7. ClaimsAreExpired'
  <2>1. \A x \in Executions : etag[x] \in Nat
    BY DEF IInv, LeaseTypeOK
  <2>2. lease.etag \in Nat /\ lease'.etag = lease.etag + 1
    BY <1>2 DEF IInv, LeaseTypeOK
  <2>3. QED BY <1>1, <2>1, <2>2 DEF IInv, ClaimsAreExpired
<1>8. QED BY <1>3, <1>5, <1>6, <1>7 DEF IInv

\* The inductive step, one case per action.
LEMMA InvStep ==
    ASSUME IInv, [Next]_vars
    PROVE  IInv'
<1> USE DEF environment, tables
<1>0. LeaseTypeOK
  BY DEF IInv
<1>1. CASE UNCHANGED vars
  BY <1>1 DEF vars, IInv, LeaseTypeOK, HoldersOwnLease, RunsAreTimely, ClocksAreRecent,
              ClaimsAreExpired
<1>2. CASE Tick
  <2>1. /\ now' = now + 1 /\ UNCHANGED <<lease, pc, started, clock, etag>>
        /\ \A e \in Executions : pc[e] \in Running => now < started[e] + ReplicaTimeout
    BY <1>2 DEF Tick
  <2>2. LeaseTypeOK' /\ HoldersOwnLease' /\ ClaimsAreExpired'
    BY <2>1 DEF IInv, LeaseTypeOK, HoldersOwnLease, ClaimsAreExpired
  <2>3. RunsAreTimely' /\ ClocksAreRecent'
    BY <2>1, TimeAssumption DEF IInv, LeaseTypeOK, RunsAreTimely, ClocksAreRecent
  <2>4. QED BY <2>2, <2>3 DEF IInv
<1>3. ASSUME NEW r \in Resources, ChangeHealth(r) PROVE IInv'
  BY <1>3 DEF ChangeHealth, IInv, LeaseTypeOK, HoldersOwnLease, RunsAreTimely,
              ClocksAreRecent, ClaimsAreExpired
<1>4. ASSUME NEW e \in Executions, Start(e) PROVE IInv'
  <2>1. /\ pc'[e] = "scheduled" /\ started'[e] = now
        /\ \A x \in Executions : x # e => pc'[x] = pc[x] /\ started'[x] = started[x]
        /\ UNCHANGED <<now, lease, clock, etag>>
    BY <1>0, <1>4 DEF Start, LeaseTypeOK
  <2>2. LeaseTypeOK'
    BY <1>4 DEF Start, IInv, LeaseTypeOK, PCs, Running, Starting
  <2>3. HoldersOwnLease' /\ ClaimsAreExpired'
    BY <2>1 DEF IInv, HoldersOwnLease, ClaimsAreExpired, Holding
  <2>4. RunsAreTimely' /\ ClocksAreRecent'
    BY <2>1, <1>0, TimeAssumption DEF IInv, LeaseTypeOK, RunsAreTimely, ClocksAreRecent
  <2>5. QED BY <2>2, <2>3, <2>4 DEF IInv
<1>5. ASSUME NEW e \in Executions, Stop(e) PROVE IInv'
  BY <1>5, EndStep DEF Stop
<1>6. ASSUME NEW e \in Executions, ReadClock(e) PROVE IInv'
  <2>1. /\ pc'[e] = "creating" /\ clock'[e] = Truncate(now) /\ pc[e] = "scheduled"
        /\ \A x \in Executions : x # e => pc'[x] = pc[x] /\ clock'[x] = clock[x]
        /\ UNCHANGED <<now, lease, started, etag>>
    BY <1>0, <1>6 DEF ReadClock, LeaseTypeOK
  <2>2. Truncate(now) \in Nat /\ Truncate(now) <= now /\ now < Truncate(now) + Minute
    BY <1>0, TruncateBounds DEF LeaseTypeOK
  <2>3. LeaseTypeOK'
    BY <1>6, <2>2 DEF ReadClock, IInv, LeaseTypeOK, PCs, Running, Starting
  <2>4. HoldersOwnLease' /\ ClaimsAreExpired'
    BY <2>1 DEF IInv, HoldersOwnLease, ClaimsAreExpired, Holding
  <2>5. RunsAreTimely'
    BY <2>1 DEF IInv, RunsAreTimely, Running, Starting
  <2>6. ClocksAreRecent'
    <3>1. started[e] <= now
      BY <2>1 DEF IInv, RunsAreTimely, Running, Starting
    <3>2. started[e] \in Nat /\ now \in Nat
      BY <1>0 DEF LeaseTypeOK
    <3>3. started[e] < Truncate(now) + Minute
      BY <2>2, <3>1, <3>2, TimeAssumption
    <3>4. QED BY <2>1, <2>2, <3>3 DEF IInv, ClocksAreRecent
  <2>7. QED BY <2>3, <2>4, <2>5, <2>6 DEF IInv
<1>7. ASSUME NEW e \in Executions, CreateLease(e) PROVE IInv'
  <2>1. CASE lease.owner = NoOwner
    BY <1>7, <2>1, TakeStep DEF CreateLease
  <2>2. CASE lease.owner # NoOwner
    <3>1. /\ pc'[e] = "reading" /\ pc[e] = "creating"
          /\ \A x \in Executions : x # e => pc'[x] = pc[x]
          /\ UNCHANGED <<now, lease, started, clock, etag>>
      BY <1>0, <1>7, <2>2 DEF CreateLease, Goto, LeaseTypeOK
    <3>2. LeaseTypeOK'
      BY <1>0, <1>7, <2>2, <3>1 DEF CreateLease, Goto, LeaseTypeOK, PCs, Running, Starting
    <3>3. HoldersOwnLease' /\ ClaimsAreExpired'
      BY <3>1 DEF IInv, HoldersOwnLease, ClaimsAreExpired, Holding
    <3>4. RunsAreTimely' /\ ClocksAreRecent'
      BY <3>1 DEF IInv, RunsAreTimely, ClocksAreRecent, Running, Starting
    <3>5. QED BY <3>2, <3>3, <3>4 DEF IInv
  <2>3. QED BY <2>1, <2>2
<1>8. ASSUME NEW e \in Executions, ReadLease(e) PROVE IInv'
  <2>1. CASE lease.owner = NoOwner \/ lease.expires > clock[e]
    BY <1>8, <2>1, EndStep DEF ReadLease
  <2>2. CASE ~(lease.owner = NoOwner \/ lease.expires > clock[e])
    <3>1. /\ pc'[e] = "claiming" /\ pc[e] = "reading" /\ etag'[e] = lease.etag
          /\ \A x \in Executions : x # e => pc'[x] = pc[x] /\ etag'[x] = etag[x]
          /\ UNCHANGED <<now, lease, started, clock>>
      BY <1>0, <1>8, <2>2 DEF ReadLease, Goto, LeaseTypeOK
    <3>2. LeaseTypeOK'
      BY <1>0, <1>8, <2>2, <3>1 DEF ReadLease, Goto, LeaseTypeOK, PCs, Running, Starting
    <3>3. lease.expires <= clock[e] /\ lease.etag \in Nat
      BY <1>0, <2>2 DEF LeaseTypeOK
    <3>4. HoldersOwnLease' /\ ClaimsAreExpired'
      BY <3>1, <3>3 DEF IInv, HoldersOwnLease, ClaimsAreExpired, Holding
    <3>5. RunsAreTimely' /\ ClocksAreRecent'
      BY <3>1 DEF IInv, RunsAreTimely, ClocksAreRecent, Running, Starting
    <3>6. QED BY <3>2, <3>4, <3>5 DEF IInv
  <2>3. QED BY <2>1, <2>2
<1>9. ASSUME NEW e \in Executions, ClaimLease(e) PROVE IInv'
  <2>1. CASE lease.owner # NoOwner /\ lease.etag = etag[e]
    <3>1. lease.expires <= clock[e]
      BY <1>9, <2>1 DEF ClaimLease, IInv, ClaimsAreExpired
    <3>2. QED BY <1>9, <2>1, <3>1, TakeStep DEF ClaimLease
  <2>2. CASE ~(lease.owner # NoOwner /\ lease.etag = etag[e])
    BY <1>9, <2>2, EndStep DEF ClaimLease
  <2>3. QED BY <2>1, <2>2
<1>10. ASSUME NEW e \in Executions, ReleaseLease(e) PROVE IInv'
  BY <1>10, EndStep DEF ReleaseLease
<1>11. ASSUME NEW e \in Executions,
              \/ Resume(e) \/ Recommit(e) \/ Observe(e) \/ Stage(e) \/ RecordInitial(e)
              \/ SendStaged(e) \/ Commit(e) \/ Fail(e)
       PROVE  IInv'
  <2>1. UNCHANGED <<now, lease, started, clock, etag>> /\ pc[e] \in Holding
    BY <1>11 DEF Resume, Recommit, Observe, Stage, RecordInitial, SendStaged, Commit, Fail,
                 CompleteTransition, NextResource, Goto, Holding
  <2>2. \E p \in Holding : pc' = [pc EXCEPT ![e] = p]
    BY <1>11 DEF Resume, Recommit, Observe, Stage, RecordInitial, SendStaged, Commit, Fail,
                 CompleteTransition, NextResource, Goto, Holding
  <2>3. QED BY <2>1, <2>2, LoopStep
<1>12. QED
  BY <1>1, <1>2, <1>3, <1>4, <1>5, <1>6, <1>7, <1>8, <1>9, <1>10, <1>11 DEF Next, Step

\* The lease invariant holds in every reachable state.
THEOREM LeaseInvariance == Spec => []IInv
<1>1. Init => IInv
  <2> SUFFICES ASSUME Init PROVE IInv
    OBVIOUS
  <2>1. LeaseTypeOK
    BY DEF Init, LeaseTypeOK, PCs
  <2>2. \A e \in Executions : pc[e] = "waiting"
    BY DEF Init
  <2>3. QED
    BY <2>1, <2>2 DEF IInv, HoldersOwnLease, RunsAreTimely, ClocksAreRecent, ClaimsAreExpired,
                      Running, Holding, Starting
<1>2. IInv /\ [Next]_vars => IInv'
  BY InvStep
<1>3. QED BY <1>1, <1>2, PTL DEF Spec

\* Executions of the detector exclude each other between acquire_run_lease and
\* release_run_lease, for every choice of the time constants with LeaseCoversRun.
THEOREM DetectorRunExclusion == Spec => []RunExclusion
<1>1. IInv => RunExclusion
  BY DEF IInv, HoldersOwnLease, RunExclusion
<1>2. QED BY <1>1, LeaseInvariance, PTL

-----------------------------------------------------------------------------
(* The loops over the resources *)

Queued(r, q) == \E i \in 1 .. Len(accepted[r]) : accepted[r][i] = q

\* The checkpoint that e loaded for r is still the stored one.
Loaded(e, r) ==
    loop[e].loaded[r] # "skip" =>
        ckpt[r].pending = NoRequest /\ ckpt[r].committed = loop[e].loaded[r]

\* The transition that e saw is stored as pending.
Staged(e, r) ==
    Emits(e, r) => ckpt[r].pending = Emitted(e, r) /\ ckpt[r].committed = loop[e].loaded[r]

Seen(e, r) == loop[e].loaded[r] # "skip" => loop[e].seen[r] # "skip"

\* What an execution that holds the lease knows of the table, loop by loop.
LoopOK(e) ==
    LET at == loop[e].at IN
    /\ pc[e] \in {"resuming", "recommitting"} =>
         \A r \in Resources : (r < at => Loaded(e, r)) /\ (r >= at => loop[e].loaded[r] = "skip")
    /\ pc[e] = "recommitting" =>
         /\ loop[e].request # NoRequest /\ ckpt[at].pending = loop[e].request
         /\ Queued(at, loop[e].request)
    /\ pc[e] = "observing" =>
         \A r \in Resources : Loaded(e, r) /\ (r < at => Seen(e, r))
    /\ pc[e] \in {"staging", "initializing", "sending", "committing"} =>
         \A r \in Resources : Seen(e, r)
    /\ pc[e] = "staging" =>
         \A r \in Resources : /\ r < at => Staged(e, r)
                              /\ r >= at \/ ~Emits(e, r) => Loaded(e, r)
    /\ pc[e] = "initializing" =>
         \A r \in Resources : /\ Staged(e, r)
                              /\ r >= at /\ ~Emits(e, r) => Loaded(e, r)
    /\ pc[e] \in {"sending", "committing"} =>
         \A r \in Resources : r >= at => Staged(e, r)
    /\ pc[e] = "committing" =>
         /\ Emits(e, at) /\ loop[e].request = Emitted(e, at) /\ Queued(at, loop[e].request)
    /\ pc[e] # "conflict"
    /\ pc[e] \in Starting \cup {"waiting"} => loop[e] = LoopStart

Checkpoints == [committed : {"none", "up", "down"}, pending : Requests \cup {NoRequest}]
Loops == [at : Resources,
          loaded : [Resources -> {"skip", "none", "up", "down"}],
          seen : [Resources -> {"skip", "up", "down"}],
          request : Requests \cup {NoRequest}]

\* The part of the state that the lease protocol does not use has its types.
DataTypeOK ==
    /\ changes \in Nat /\ lastStart \in Int
    /\ health \in [Resources -> {"up", "down"}]
    /\ ckpt \in [Resources -> Checkpoints]
    /\ accepted \in [Resources -> Seq(Requests)]
    /\ loop \in [Executions -> Loops]

\* The invariant of the loops, whatever the start delay.
LoopInv == DataTypeOK /\ \A e \in Executions : LoopOK(e)

LEMMA LoopShape ==
    ASSUME NEW l \in Loops
    PROVE  /\ l = [at |-> l.at, loaded |-> l.loaded, seen |-> l.seen, request |-> l.request]
           /\ l.at \in Resources /\ l.loaded \in [Resources -> {"skip", "none", "up", "down"}]
           /\ l.seen \in [Resources -> {"skip", "up", "down"}]
           /\ l.request \in Requests \cup {NoRequest}
BY DEF Loops

\* What the assignments to two of the locals make of them.
Loading(l, k, v, n) == [l EXCEPT !.loaded[k] = v, !.at = n]
Seeing(l, k, v, n) == [l EXCEPT !.seen[k] = v, !.at = n]
Requesting(l, v, n) == [l EXCEPT !.request = v, !.at = n]

LEMMA LoopUpdate ==
    ASSUME NEW l \in Loops, NEW k, NEW v, NEW n
    PROVE  /\ Loading(l, k, v, n)
                = [at |-> n, loaded |-> [l.loaded EXCEPT ![k] = v], seen |-> l.seen,
                   request |-> l.request]
           /\ Seeing(l, k, v, n)
                = [at |-> n, loaded |-> l.loaded, seen |-> [l.seen EXCEPT ![k] = v],
                   request |-> l.request]
<1>1. PICK a, b, c, q : l = [at |-> a, loaded |-> b, seen |-> c, request |-> q]
  BY LoopShape
<1>2. l.loaded = b /\ l.seen = c /\ l.request = q
  BY <1>1
<1>3. Loading(l, k, v, n)
        = [at |-> n, loaded |-> [b EXCEPT ![k] = v], seen |-> c, request |-> q]
  <2>1. PICK m : m = [l EXCEPT !.loaded[k] = v]
    OBVIOUS
  <2>2. m = [at |-> a, loaded |-> [b EXCEPT ![k] = v], seen |-> c, request |-> q]
    BY <1>1, <2>1
  <2>3. [m EXCEPT !.at = n] = [at |-> n, loaded |-> [b EXCEPT ![k] = v], seen |-> c, request |-> q]
    BY <2>2
  <2>4. Loading(l, k, v, n) = [m EXCEPT !.at = n]
    BY <2>1 DEF Loading
  <2>5. QED BY <2>3, <2>4
<1>4. Seeing(l, k, v, n)
        = [at |-> n, loaded |-> b, seen |-> [c EXCEPT ![k] = v], request |-> q]
  <2>1. PICK m : m = [l EXCEPT !.seen[k] = v]
    OBVIOUS
  <2>2. m = [at |-> a, loaded |-> b, seen |-> [c EXCEPT ![k] = v], request |-> q]
    BY <1>1, <2>1
  <2>3. [m EXCEPT !.at = n] = [at |-> n, loaded |-> b, seen |-> [c EXCEPT ![k] = v], request |-> q]
    BY <2>2
  <2>4. Seeing(l, k, v, n) = [m EXCEPT !.at = n]
    BY <2>1 DEF Seeing
  <2>5. QED BY <2>3, <2>4
<1>5. QED BY <1>2, <1>3, <1>4

LEMMA RequestUpdate ==
    ASSUME NEW l \in Loops, NEW v, NEW n
    PROVE  Requesting(l, v, n) = [at |-> n, loaded |-> l.loaded, seen |-> l.seen, request |-> v]
<1>1. PICK a, b, c, q : l = [at |-> a, loaded |-> b, seen |-> c, request |-> q]
  BY LoopShape
<1>2. l.loaded = b /\ l.seen = c /\ l.request = q
  BY <1>1
<1>3. Requesting(l, v, n) = [at |-> n, loaded |-> b, seen |-> c, request |-> v]
  <2>1. PICK m : m = [l EXCEPT !.request = v]
    OBVIOUS
  <2>2. m = [at |-> a, loaded |-> b, seen |-> c, request |-> v]
    BY <1>1, <2>1
  <2>3. [m EXCEPT !.at = n] = [at |-> n, loaded |-> b, seen |-> c, request |-> v]
    BY <2>2
  <2>4. Requesting(l, v, n) = [m EXCEPT !.at = n]
    BY <2>1 DEF Requesting
  <2>5. QED BY <2>3, <2>4
<1>4. QED BY <1>2, <1>3

LEMMA NextAtFacts ==
    ASSUME DataTypeOK, NEW e \in Executions
    PROVE  /\ NextAt(e) \in Resources /\ loop[e].at \in Resources
           /\ loop[e].at \in Int /\ NumResources \in Nat /\ loop[e].at <= NumResources
           /\ loop[e].at < NumResources => NextAt(e) = loop[e].at + 1
           /\ ~(loop[e].at < NumResources) => loop[e].at = NumResources /\ NextAt(e) = 1
           /\ \A r \in Resources : r \in Int /\ 1 <= r /\ r <= NumResources
<1>1. loop[e].at \in Resources
  BY DEF DataTypeOK, Loops
<1>2. QED BY <1>1, ResourceAssumption DEF Resources, NextAt

\* Executions that hold nothing have nothing to know, and only one holds.
LEMMA HolderStep ==
    ASSUME IInv, LoopInv, NEW e \in Executions, pc[e] \in Holding,
           NEW p \in Holding, pc' = [pc EXCEPT ![e] = p],
           NEW l \in Loops, loop' = [loop EXCEPT ![e] = l],
           UNCHANGED <<changes, lastStart, health>>,
           ckpt' \in [Resources -> Checkpoints], accepted' \in [Resources -> Seq(Requests)],
           LoopOK(e)'
    PROVE  LoopInv'
<1>1. DataTypeOK'
  BY DEF LoopInv, DataTypeOK
<1>2. ASSUME NEW d \in Executions, d # e PROVE LoopOK(d)'
  <2>1. pc[d] \notin Holding
    BY <1>2 DEF IInv, HoldersOwnLease
  <2>2. pc'[d] = pc[d] /\ loop'[d] = loop[d]
    BY <1>2 DEF IInv, LeaseTypeOK, LoopInv, DataTypeOK
  <2>3. pc[d] \in Starting \cup {"waiting"} => loop[d] = LoopStart
    BY DEF LoopInv, LoopOK
  <2>4. QED BY <2>1, <2>2, <2>3 DEF LoopOK, Holding, LoopStart
<1>3. QED BY <1>1, <1>2 DEF LoopInv

LEMMA PendingTypes ==
    ASSUME DataTypeOK, NEW r \in Resources
    PROVE  /\ ckpt[r] \in Checkpoints /\ ckpt[r].committed \in {"none", "up", "down"}
           /\ ckpt[r].pending \in Requests \cup {NoRequest} /\ accepted[r] \in Seq(Requests)
BY DEF DataTypeOK, Checkpoints

\* sender.send queues the request once.
LEMMA SendFacts ==
    ASSUME DataTypeOK, NEW r \in Resources, NEW q \in Requests, Send(r, q)
    PROVE  /\ accepted' \in [Resources -> Seq(Requests)]
           /\ \A s \in Resources : s # r => accepted'[s] = accepted[s]
           /\ Queued(r, q) => accepted'[r] = accepted[r]
           /\ ~Queued(r, q) => accepted'[r] = Append(accepted[r], q)
           /\ Queued(r, q)'
<1>1. accepted \in [Resources -> Seq(Requests)]
  BY DEF DataTypeOK
<1>2. CASE Queued(r, q)
  <2>1. accepted' = accepted
    BY <1>2 DEF Send, Queued
  <2>2. QED BY <1>1, <1>2, <2>1 DEF Queued
<1>3. CASE ~Queued(r, q)
  <2>1. accepted' = [accepted EXCEPT ![r] = Append(@, q)]
    BY <1>3 DEF Send, Queued
  <2>2. Append(accepted[r], q) \in Seq(Requests)
    BY <1>1
  <2>3. /\ accepted' \in [Resources -> Seq(Requests)] /\ accepted'[r] = Append(accepted[r], q)
        /\ \A s \in Resources : s # r => accepted'[s] = accepted[s]
    BY <1>1, <2>1, <2>2
  <2>4. Queued(r, q)'
    <3>1. PICK s \in Seq(Requests) : s = accepted[r]
      BY <1>1
    <3>2. /\ Len(Append(s, q)) = Len(s) + 1 /\ Len(s) \in Nat
          /\ Append(s, q)[Len(s) + 1] = q
      BY <3>1
    <3>3. accepted'[r] = Append(s, q)
      BY <2>3, <3>1
    <3>4. Len(s) + 1 \in 1 .. Len(accepted'[r]) /\ accepted'[r][Len(s) + 1] = q
      BY <3>2, <3>3
    <3>5. QED BY <3>4 DEF Queued
  <2>5. QED BY <1>3, <2>3, <2>4
<1>4. QED BY <1>2, <1>3

LEMMA ResumeStep ==
    ASSUME IInv, LoopInv, NEW e \in Executions, Resume(e)
    PROVE  LoopInv'
<1>r. PICK r : r = loop[e].at
  OBVIOUS
<1>0. /\ DataTypeOK /\ LoopOK(e) /\ loop[e] \in Loops /\ r \in Resources /\ r = loop[e].at
      /\ pc[e] = "resuming" /\ UNCHANGED <<environment, lease, ckpt>>
  BY <1>r, NextAtFacts DEF LoopInv, DataTypeOK, Resume
<1>1. /\ ckpt[r].committed \in {"none", "up", "down"}
      /\ ckpt[r].pending \in Requests \cup {NoRequest} /\ ckpt \in [Resources -> Checkpoints]
  BY <1>0, PendingTypes DEF DataTypeOK
<1>2. CASE ckpt[r].pending = NoRequest
  <2>1. PICK l : l = [at |-> NextAt(e), loaded |-> [loop[e].loaded EXCEPT ![r] = ckpt[r].committed],
                      seen |-> loop[e].seen, request |-> loop[e].request]
    OBVIOUS
  <2>2. PICK p : p = IF r < NumResources THEN "resuming" ELSE "observing"
    OBVIOUS
  <2>3. l \in Loops
    BY <1>0, <1>1, <2>1, NextAtFacts DEF Loops
  <2>4. loop' = [loop EXCEPT ![e] = l]
    <3>1. loop' = [loop EXCEPT ![e].loaded[r] = ckpt[r].committed, ![e].at = NextAt(e)]
      BY <1>0, <1>2 DEF Resume
    <3>2. l = Loading(loop[e], r, ckpt[r].committed, NextAt(e))
      BY <1>0, <2>1, LoopUpdate
    <3>3. QED BY <3>1, <3>2 DEF Loading
  <2>5. pc' = [pc EXCEPT ![e] = p] /\ p \in Holding /\ UNCHANGED <<accepted, clock>>
    BY <1>0, <1>2, <2>2 DEF Resume, NextResource, Goto, Holding
  <2>6. pc'[e] = p /\ loop'[e] = l
    BY <2>4, <2>5 DEF IInv, LeaseTypeOK, LoopInv, DataTypeOK
  <2>7. \A k \in Resources : k <= r => Loaded(e, k)'
    <3>1. ASSUME NEW k \in Resources, k < r PROVE Loaded(e, k)'
      <4>1. Loaded(e, k) /\ l.loaded[k] = loop[e].loaded[k]
        BY <1>0, <2>1, <3>1 DEF LoopOK, Loops, Resources
      <4>2. QED BY <1>0, <2>6, <4>1 DEF Loaded
    <3>2. Loaded(e, r)'
      <4>1. l.loaded[r] = ckpt[r].committed
        BY <1>0, <2>1 DEF Loops
      <4>2. QED BY <1>0, <1>2, <2>6, <4>1 DEF Loaded
    <3>3. QED BY <3>1, <3>2, NextAtFacts, <1>0
  <2>8. \A k \in Resources : k > r => l.loaded[k] = "skip"
    BY <1>0, <2>1, NextAtFacts DEF LoopOK, Loops
  <2>9. LoopOK(e)'
    <3>1. CASE r < NumResources
      <4>1. p = "resuming" /\ l.at = r + 1
        BY <1>0, <2>1, <2>2, <3>1, NextAtFacts
      <4>2. \A k \in Resources : (k < l.at => Loaded(e, k)') /\ (k >= l.at => l.loaded[k] = "skip")
        BY <1>0, <2>7, <2>8, <4>1, NextAtFacts
      <4>3. QED BY <2>6, <4>1, <4>2 DEF LoopOK, Starting
    <3>2. CASE ~(r < NumResources)
      <4>1. p = "observing" /\ l.at = 1 /\ r = NumResources
        BY <1>0, <2>1, <2>2, <3>2, NextAtFacts
      <4>2. \A k \in Resources : Loaded(e, k)' /\ ~(k < l.at)
        BY <1>0, <2>7, <4>1, NextAtFacts
      <4>3. QED BY <2>6, <4>1, <4>2 DEF LoopOK, Starting
    <3>3. QED BY <3>1, <3>2
  <2>10. QED BY <1>0, <1>1, <2>3, <2>4, <2>5, <2>9, HolderStep DEF environment, DataTypeOK, Holding
<1>3. CASE ckpt[r].pending # NoRequest
  <2>1. PICK l : l = [at |-> r, loaded |-> loop[e].loaded,
                      seen |-> loop[e].seen, request |-> ckpt[r].pending]
    OBVIOUS
  <2>2. ckpt[r].pending \in Requests /\ l \in Loops
    BY <1>0, <1>1, <1>3, <2>1 DEF Loops
  <2>3. loop' = [loop EXCEPT ![e] = l]
    <3>1. loop' = [loop EXCEPT ![e].request = ckpt[r].pending]
      BY <1>0, <1>3 DEF Resume
    <3>2. l = [loop[e] EXCEPT !.request = ckpt[r].pending]
      BY <1>0, <2>1 DEF Loops
    <3>3. QED BY <3>1, <3>2
  <2>4. pc' = [pc EXCEPT ![e] = "recommitting"] /\ UNCHANGED clock
    BY <1>0, <1>3 DEF Resume, Goto
  <2>5. pc'[e] = "recommitting" /\ loop'[e] = l
    BY <2>3, <2>4 DEF IInv, LeaseTypeOK, LoopInv, DataTypeOK
  <2>6. Send(r, ckpt[r].pending)
    BY <1>0, <1>3 DEF Resume
  <2>7. PICK q \in Requests : q = ckpt[r].pending
    BY <2>2
  <2>8. PICK k \in Resources : k = r
    BY <1>0
  <2>9. accepted' \in [Resources -> Seq(Requests)] /\ Queued(k, q)'
    BY <1>0, <2>6, <2>7, <2>8, SendFacts
  <2>10. l.at = k /\ l.request = q /\ ckpt'[k].pending = q /\ q # NoRequest
    BY <1>0, <1>3, <2>1, <2>7, <2>8
  <2>11. \A j \in Resources : (j < l.at => Loaded(e, j)') /\ (j >= l.at => l.loaded[j] = "skip")
    BY <1>0, <2>1, <2>5 DEF LoopOK, Loaded
  <2>12. LoopOK(e)'
    BY <2>5, <2>9, <2>10, <2>11 DEF LoopOK, Starting
  <2>13. QED BY <1>0, <1>1, <2>2, <2>3, <2>4, <2>9, <2>12, HolderStep DEF environment, Holding
<1>4. QED BY <1>2, <1>3

\* What an execution knows of a row it neither writes nor judges anew.
LEMMA SameKnowledge ==
    ASSUME NEW e \in Executions, NEW r \in Resources, ckpt'[r] = ckpt[r],
           loop'[e].loaded = loop[e].loaded, loop'[e].seen = loop[e].seen, clock' = clock
    PROVE  /\ Loaded(e, r)' <=> Loaded(e, r)
           /\ Emits(e, r)' <=> Emits(e, r)
           /\ Emitted(e, r)' = Emitted(e, r)
           /\ Staged(e, r)' <=> Staged(e, r)
           /\ Seen(e, r)' <=> Seen(e, r)
BY DEF Loaded, Emits, Emitted, Staged, Seen

\* complete_transition of a request that is still pending.
LEMMA CompleteFacts ==
    ASSUME IInv, LoopInv, NEW e \in Executions, NEW a \in Holding, NEW b \in Holding,
           CompleteTransition(e, a, b), ckpt[loop[e].at].pending = loop[e].request,
           loop[e].request # NoRequest
    PROVE  /\ \E l \in Loops : /\ loop' = [loop EXCEPT ![e] = l] /\ loop'[e] = l
                               /\ l.at = NextAt(e) /\ l.loaded = loop[e].loaded
                               /\ l.seen = loop[e].seen
           /\ NextResource(e, a, b)
           /\ ckpt'[loop[e].at] = [committed |-> loop[e].request.health, pending |-> NoRequest]
           /\ \A k \in Resources : k # loop[e].at => ckpt'[k] = ckpt[k]
           /\ ckpt' \in [Resources -> Checkpoints] /\ clock' = clock /\ accepted' = accepted
           /\ UNCHANGED <<changes, lastStart, health>>
<1>r. PICK r, q : r = loop[e].at /\ q = loop[e].request
  OBVIOUS
<1>0. /\ DataTypeOK /\ loop[e] \in Loops /\ r \in Resources /\ q \in Requests
      /\ ckpt \in [Resources -> Checkpoints]
  BY <1>r, LoopShape, NextAtFacts DEF LoopInv, DataTypeOK
<1>1. /\ ckpt' = [ckpt EXCEPT ![r] = [committed |-> q.health, pending |-> NoRequest]]
      /\ loop' = [loop EXCEPT ![e].request = NoRequest, ![e].at = NextAt(e)]
      /\ NextResource(e, a, b) /\ accepted' = accepted /\ UNCHANGED <<changes, lastStart, health>>
  BY <1>r DEF CompleteTransition, environment
<1>2. PICK l : l = [at |-> NextAt(e), loaded |-> loop[e].loaded,
                    seen |-> loop[e].seen, request |-> NoRequest]
  OBVIOUS
<1>3. l \in Loops
  BY <1>0, <1>2, NextAtFacts DEF Loops
<1>4. l = Requesting(loop[e], NoRequest, NextAt(e))
  BY <1>0, <1>2, RequestUpdate
<1>5. loop' = [loop EXCEPT ![e] = l]
  BY <1>1, <1>4 DEF Requesting
<1>6. loop'[e] = l
  BY <1>5 DEF LoopInv, DataTypeOK
<1>7. clock' = clock
  BY <1>1 DEF NextResource, Goto
<1>10. [committed |-> q.health, pending |-> NoRequest] \in Checkpoints
  BY <1>0 DEF Checkpoints, Requests
<1>11. /\ ckpt' \in [Resources -> Checkpoints]
       /\ ckpt'[r] = [committed |-> q.health, pending |-> NoRequest]
       /\ \A k \in Resources : k # r => ckpt'[k] = ckpt[k]
  BY <1>0, <1>1, <1>10
<1>12. l.at = NextAt(e) /\ l.loaded = loop[e].loaded /\ l.seen = loop[e].seen
  BY <1>2
<1>13. QED
  BY <1>r, <1>1, <1>3, <1>5, <1>6, <1>7, <1>11, <1>12

LEMMA RecommitStep ==
    ASSUME IInv, LoopInv, NEW e \in Executions, Recommit(e)
    PROVE  LoopInv'
<1>r. PICK r : r = loop[e].at
  OBVIOUS
<1>0. /\ DataTypeOK /\ LoopOK(e) /\ loop[e] \in Loops /\ r \in Resources
      /\ pc[e] = "recommitting" /\ CompleteTransition(e, "resuming", "observing")
      /\ ckpt \in [Resources -> Checkpoints]
  BY <1>r, NextAtFacts DEF LoopInv, DataTypeOK, Recommit
<1>1. ckpt[loop[e].at].pending = loop[e].request /\ loop[e].request # NoRequest
  BY <1>0 DEF LoopOK
<1>2. "resuming" \in Holding /\ "observing" \in Holding /\ pc[e] \in Holding
  BY <1>0 DEF Holding
<1>3. /\ \A k \in Resources : k # r => ckpt'[k] = ckpt[k]
      /\ ckpt' \in [Resources -> Checkpoints] /\ clock' = clock /\ accepted' = accepted
      /\ UNCHANGED <<changes, lastStart, health>>
  BY <1>r, <1>0, <1>1, <1>2, CompleteFacts
<1>4. PICK l \in Loops : /\ loop' = [loop EXCEPT ![e] = l] /\ loop'[e] = l
                         /\ l.at = NextAt(e) /\ l.loaded = loop[e].loaded /\ l.seen = loop[e].seen
  BY <1>0, <1>1, <1>2, CompleteFacts
<1>p. PICK p : p = IF r < NumResources THEN "resuming" ELSE "observing"
  OBVIOUS
<1>5. /\ pc' = [pc EXCEPT ![e] = p] /\ pc'[e] = p /\ p \in Holding
      /\ r < NumResources => p = "resuming"
      /\ ~(r < NumResources) => p = "observing"
  <2>1. NextResource(e, "resuming", "observing")
    BY <1>0, <1>1, <1>2, CompleteFacts
  <2>2. pc' = [pc EXCEPT ![e] = p] /\ p \in Holding
    BY <1>r, <1>p, <2>1 DEF NextResource, Goto, Holding
  <2>3. QED BY <1>p, <2>2 DEF IInv, LeaseTypeOK
<1>6. /\ \A k \in Resources : k <= r => Loaded(e, k)'
      /\ \A k \in Resources : k >= r => l.loaded[k] = "skip"
  <2>1. \A k \in Resources : k >= r => l.loaded[k] = "skip"
    BY <1>r, <1>0, <1>4 DEF LoopOK
  <2>2. ASSUME NEW k \in Resources, k < r PROVE Loaded(e, k)'
    <3>1. ckpt'[k] = ckpt[k]
      BY <1>0, <1>3, <2>2, NextAtFacts
    <3>2. Loaded(e, k)
      BY <1>r, <1>0, <2>2 DEF LoopOK
    <3>3. QED BY <1>3, <1>4, <3>1, <3>2, SameKnowledge
  <2>3. Loaded(e, r)'
    BY <1>0, <1>4, <2>1, NextAtFacts DEF Loaded
  <2>4. QED BY <1>0, <2>1, <2>2, <2>3, NextAtFacts
<1>7. LoopOK(e)'
  <2>1. CASE r < NumResources
    <3>1. p = "resuming" /\ l.at = r + 1
      BY <1>r, <1>0, <1>4, <1>5, <2>1, NextAtFacts
    <3>2. \A k \in Resources : (k < l.at => Loaded(e, k)') /\ (k >= l.at => l.loaded[k] = "skip")
      BY <1>0, <1>6, <3>1, NextAtFacts
    <3>3. QED BY <1>4, <1>5, <3>1, <3>2 DEF LoopOK, Starting
  <2>2. CASE ~(r < NumResources)
    <3>1. p = "observing" /\ l.at = 1 /\ r = NumResources
      BY <1>r, <1>0, <1>4, <1>5, <2>2, NextAtFacts
    <3>2. \A k \in Resources : Loaded(e, k)' /\ ~(k < l.at)
      BY <1>0, <1>6, <3>1, NextAtFacts
    <3>3. QED BY <1>4, <1>5, <3>1, <3>2 DEF LoopOK, Starting
  <2>3. QED BY <2>1, <2>2
<1>8. accepted' \in [Resources -> Seq(Requests)]
  BY <1>0, <1>3 DEF DataTypeOK
<1>9. QED BY <1>2, <1>3, <1>4, <1>5, <1>7, <1>8, HolderStep

LEMMA ObserveStep ==
    ASSUME IInv, LoopInv, NEW e \in Executions, Observe(e)
    PROVE  LoopInv'
<1>r. PICK r, v : r = loop[e].at /\ v = IF loop[e].loaded[r] = "skip" THEN "skip" ELSE health[r]
  OBVIOUS
<1>0. /\ DataTypeOK /\ LoopOK(e) /\ loop[e] \in Loops /\ r \in Resources /\ pc[e] = "observing"
      /\ UNCHANGED <<environment, tables>>
  BY <1>r, NextAtFacts DEF LoopInv, DataTypeOK, Observe
<1>1. /\ v \in {"skip", "up", "down"}
      /\ loop[e].loaded[r] # "skip" => v # "skip"
  BY <1>r, <1>0 DEF DataTypeOK
<1>2. PICK l : l = [at |-> NextAt(e), loaded |-> loop[e].loaded,
                    seen |-> [loop[e].seen EXCEPT ![r] = v], request |-> loop[e].request]
  OBVIOUS
<1>3. /\ l \in Loops /\ l.at = NextAt(e) /\ l.loaded = loop[e].loaded /\ l.seen[r] = v
      /\ \A k \in Resources : k # r => l.seen[k] = loop[e].seen[k]
  <2>1. PICK s : s = [loop[e].seen EXCEPT ![r] = v]
    OBVIOUS
  <2>2. /\ s \in [Resources -> {"skip", "up", "down"}] /\ s[r] = v
        /\ \A k \in Resources : k # r => s[k] = loop[e].seen[k]
    BY <1>0, <1>1, <2>1, LoopShape
  <2>3. /\ NextAt(e) \in Resources /\ loop[e].request \in Requests \cup {NoRequest}
        /\ loop[e].loaded \in [Resources -> {"skip", "none", "up", "down"}]
    BY <1>0, NextAtFacts, LoopShape
  <2>4. l \in Loops /\ l.at = NextAt(e) /\ l.loaded = loop[e].loaded /\ l.seen = s
    BY <1>2, <2>1, <2>2, <2>3 DEF Loops
  <2>5. QED BY <2>2, <2>4
<1>4. loop' = [loop EXCEPT ![e] = l]
  <2>1. loop' = [loop EXCEPT ![e].seen[r] = v, ![e].at = NextAt(e)]
    BY <1>r DEF Observe
  <2>2. l = Seeing(loop[e], r, v, NextAt(e))
    BY <1>0, <1>2, LoopUpdate
  <2>3. QED BY <2>1, <2>2 DEF Seeing
<1>p. PICK p : p = IF r < NumResources THEN "observing" ELSE "staging"
  OBVIOUS
<1>5. pc' = [pc EXCEPT ![e] = p] /\ p \in Holding /\ clock' = clock /\ pc[e] \in Holding
  BY <1>r, <1>p, <1>0 DEF Observe, NextResource, Goto, Holding
<1>6. pc'[e] = p /\ loop'[e] = l
  BY <1>4, <1>5 DEF IInv, LeaseTypeOK, LoopInv, DataTypeOK
<1>7. \A k \in Resources : Loaded(e, k)'
  BY <1>0, <1>3, <1>6 DEF LoopOK, Loaded, tables
<1>8. \A k \in Resources : k <= r => Seen(e, k)'
  <2>1. Seen(e, r)'
    BY <1>1, <1>3, <1>6 DEF Seen
  <2>2. ASSUME NEW k \in Resources, k < r PROVE Seen(e, k)'
    <3>1. Seen(e, k) /\ l.seen[k] = loop[e].seen[k]
      BY <1>r, <1>0, <1>3, <2>2, NextAtFacts DEF LoopOK
    <3>2. QED BY <1>3, <1>6, <3>1 DEF Seen
  <2>3. QED BY <1>0, <2>1, <2>2, NextAtFacts
<1>9. LoopOK(e)'
  <2>1. CASE r < NumResources
    <3>1. p = "observing" /\ l.at = r + 1
      BY <1>r, <1>p, <1>0, <1>3, <2>1, NextAtFacts
    <3>2. \A k \in Resources : Loaded(e, k)' /\ (k < l.at => Seen(e, k)')
      BY <1>0, <1>7, <1>8, <3>1, NextAtFacts
    <3>3. QED BY <1>6, <3>1, <3>2 DEF LoopOK, Starting
  <2>2. CASE ~(r < NumResources)
    <3>1. p = "staging" /\ l.at = 1 /\ r = NumResources
      BY <1>r, <1>p, <1>0, <1>3, <2>2, NextAtFacts
    <3>2. \A k \in Resources : Loaded(e, k)' /\ Seen(e, k)' /\ ~(k < l.at)
      BY <1>0, <1>7, <1>8, <3>1, NextAtFacts
    <3>3. QED BY <1>6, <3>1, <3>2 DEF LoopOK, Starting
  <2>3. QED BY <2>1, <2>2
<1>10. ckpt' \in [Resources -> Checkpoints] /\ accepted' \in [Resources -> Seq(Requests)]
       /\ UNCHANGED <<changes, lastStart, health>>
  BY <1>0 DEF DataTypeOK, environment, tables
<1>11. QED BY <1>3, <1>4, <1>5, <1>9, <1>10, HolderStep

Advance(e) == loop' = [loop EXCEPT ![e].at = NextAt(e)]

LEMMA AdvanceFacts ==
    ASSUME DataTypeOK, NEW e \in Executions, Advance(e)
    PROVE  \E l \in Loops : /\ loop' = [loop EXCEPT ![e] = l] /\ loop'[e] = l
                            /\ l.at = NextAt(e) /\ l.loaded = loop[e].loaded
                            /\ l.seen = loop[e].seen
<1>1. loop[e] \in Loops /\ loop \in [Executions -> Loops]
  BY DEF DataTypeOK
<1>2. PICK l : l = [loop[e] EXCEPT !.at = NextAt(e)]
  OBVIOUS
<1>3. l \in Loops /\ l.at = NextAt(e) /\ l.loaded = loop[e].loaded /\ l.seen = loop[e].seen
  BY <1>1, <1>2, NextAtFacts DEF Loops
<1>4. loop' = [loop EXCEPT ![e] = l]
  BY <1>2 DEF Advance
<1>5. QED BY <1>1, <1>3, <1>4

\* A transition was seen, so its request is one.
LEMMA EmittedType ==
    ASSUME IInv, DataTypeOK, NEW e \in Executions, NEW r \in Resources, Seen(e, r), Emits(e, r)
    PROVE  Emitted(e, r) \in Requests /\ Emitted(e, r) # NoRequest /\ loop[e].loaded[r] # "skip"
<1>1. loop[e] \in Loops /\ clock[e] \in Nat
  BY DEF DataTypeOK, IInv, LeaseTypeOK
<1>2. loop[e].seen[r] \in {"skip", "up", "down"}
  BY <1>1, LoopShape
<1>3. loop[e].loaded[r] # "skip"
  BY DEF Emits
<1>4. loop[e].seen[r] \in {"up", "down"}
  BY <1>2, <1>3 DEF Seen
<1>5. QED BY <1>1, <1>3, <1>4 DEF Emitted, Request, Requests, NoRequest

LEMMA StageStep ==
    ASSUME IInv, LoopInv, NEW e \in Executions, Stage(e)
    PROVE  LoopInv'
<1>r. PICK r : r = loop[e].at
  OBVIOUS
<1>0. /\ DataTypeOK /\ LoopOK(e) /\ loop[e] \in Loops /\ r \in Resources /\ pc[e] = "staging"
      /\ UNCHANGED <<environment, accepted>> /\ ckpt \in [Resources -> Checkpoints]
  BY <1>r, NextAtFacts DEF LoopInv, DataTypeOK, Stage
<1>1. /\ \A k \in Resources : Seen(e, k) /\ (k < r => Staged(e, k))
      /\ \A k \in Resources : k >= r \/ ~Emits(e, k) => Loaded(e, k)
  BY <1>r, <1>0 DEF LoopOK
<1>2. Emits(e, r) => /\ ckpt[r].pending = NoRequest /\ ckpt[r].committed = loop[e].loaded[r]
                     /\ Emitted(e, r) \in Requests
  <2>1. Loaded(e, r) /\ Seen(e, r)
    BY <1>0, <1>1, NextAtFacts
  <2>2. QED BY <1>0, <2>1, EmittedType DEF Loaded
<1>3. /\ ckpt' = IF Emits(e, r) THEN [ckpt EXCEPT ![r].pending = Emitted(e, r)] ELSE ckpt
      /\ Advance(e) /\ NextResource(e, "staging", "initializing")
  BY <1>r, <1>2 DEF Stage, Advance
<1>4. /\ ckpt' \in [Resources -> Checkpoints]
      /\ \A k \in Resources : k # r => ckpt'[k] = ckpt[k]
      /\ Emits(e, r) => ckpt'[r].pending = Emitted(e, r) /\ ckpt'[r].committed = loop[e].loaded[r]
      /\ ~Emits(e, r) => ckpt'[r] = ckpt[r]
  <2>1. CASE Emits(e, r)
    <3>1. ckpt' = [ckpt EXCEPT ![r].pending = Emitted(e, r)]
      BY <1>3, <2>1
    <3>2. PICK c, q : c = [ckpt[r] EXCEPT !.pending = q] /\ q = Emitted(e, r)
      OBVIOUS
    <3>3. c \in Checkpoints /\ c.pending = q /\ c.committed = ckpt[r].committed
      BY <1>0, <1>2, <2>1, <3>2 DEF Checkpoints
    <3>4. ckpt' = [ckpt EXCEPT ![r] = c]
      BY <3>1, <3>2
    <3>5. ckpt' \in [Resources -> Checkpoints] /\ ckpt'[r] = c
          /\ \A k \in Resources : k # r => ckpt'[k] = ckpt[k]
      BY <1>0, <3>3, <3>4
    <3>6. QED BY <1>2, <2>1, <3>2, <3>3, <3>5
  <2>2. CASE ~Emits(e, r)
    BY <1>0, <1>3, <2>2
  <2>3. QED BY <2>1, <2>2
<1>5. PICK l \in Loops : /\ loop' = [loop EXCEPT ![e] = l] /\ loop'[e] = l
                         /\ l.at = NextAt(e) /\ l.loaded = loop[e].loaded /\ l.seen = loop[e].seen
  BY <1>0, <1>3, AdvanceFacts
<1>p. PICK p : p = IF r < NumResources THEN "staging" ELSE "initializing"
  OBVIOUS
<1>6. /\ pc' = [pc EXCEPT ![e] = p] /\ pc'[e] = p /\ p \in Holding /\ clock' = clock
      /\ pc[e] \in Holding
  <2>1. pc' = [pc EXCEPT ![e] = p] /\ p \in Holding /\ clock' = clock /\ pc[e] \in Holding
    BY <1>r, <1>p, <1>0, <1>3 DEF NextResource, Goto, Holding
  <2>2. QED BY <2>1 DEF IInv, LeaseTypeOK
<1>7. /\ \A k \in Resources : Seen(e, k)' /\ (k <= r => Staged(e, k)')
      /\ \A k \in Resources : k > r \/ ~Emits(e, k)' => Loaded(e, k)'
  <2>1. ASSUME NEW k \in Resources, ckpt'[k] = ckpt[k]
        PROVE  /\ Loaded(e, k)' <=> Loaded(e, k)
               /\ Emits(e, k)' <=> Emits(e, k)
               /\ Staged(e, k)' <=> Staged(e, k)
    BY <1>5, <1>6, <2>1, SameKnowledge
  <2>2. \A k \in Resources : Seen(e, k)' /\ (Emits(e, k)' <=> Emits(e, k))
    BY <1>1, <1>5 DEF Seen, Emits
  <2>3. Staged(e, r)'
    <3>1. CASE Emits(e, r)
      BY <1>4, <1>5, <1>6, <3>1 DEF Staged, Emitted
    <3>2. CASE ~Emits(e, r)
      BY <1>0, <2>2, <3>2 DEF Staged
    <3>3. QED BY <3>1, <3>2
  <2>4. ASSUME NEW k \in Resources, k < r PROVE Staged(e, k)'
    BY <1>0, <1>1, <1>4, <2>1, <2>4, NextAtFacts
  <2>5. ASSUME NEW k \in Resources, k > r \/ ~Emits(e, k)' PROVE Loaded(e, k)'
    <3>1. CASE k = r
      <4>1. ~Emits(e, r)
        BY <1>0, <2>2, <2>5, <3>1, NextAtFacts
      <4>2. Loaded(e, k) /\ ckpt'[k] = ckpt[k]
        BY <1>1, <1>4, <3>1, <4>1
      <4>3. QED BY <2>1, <4>2
    <3>2. CASE k # r
      <4>1. Loaded(e, k) /\ ckpt'[k] = ckpt[k]
        BY <1>0, <1>1, <1>4, <2>2, <2>5, <3>2, NextAtFacts
      <4>2. QED BY <2>1, <4>1
    <3>3. QED BY <3>1, <3>2
  <2>6. QED BY <1>0, <2>2, <2>3, <2>4, <2>5, NextAtFacts
<1>8. LoopOK(e)'
  <2>1. CASE r < NumResources
    <3>1. p = "staging" /\ l.at = r + 1
      BY <1>r, <1>p, <1>0, <1>5, <2>1, NextAtFacts
    <3>2. \A k \in Resources : /\ k < l.at => Staged(e, k)'
                               /\ k >= l.at \/ ~Emits(e, k)' => Loaded(e, k)'
      BY <1>0, <1>7, <3>1, NextAtFacts
    <3>3. QED BY <1>5, <1>6, <1>7, <3>1, <3>2 DEF LoopOK, Starting
  <2>2. CASE ~(r < NumResources)
    <3>1. p = "initializing" /\ r = NumResources
      BY <1>r, <1>p, <1>0, <1>5, <2>2, NextAtFacts
    <3>2. \A k \in Resources : Staged(e, k)'
      BY <1>0, <1>7, <3>1, NextAtFacts
    <3>3. QED BY <1>5, <1>6, <1>7, <3>1, <3>2 DEF LoopOK, Starting
  <2>3. QED BY <2>1, <2>2
<1>9. accepted' \in [Resources -> Seq(Requests)] /\ UNCHANGED <<changes, lastStart, health>>
  BY <1>0 DEF DataTypeOK, environment
<1>10. QED BY <1>4, <1>5, <1>6, <1>8, <1>9, HolderStep

LEMMA RecordInitialStep ==
    ASSUME IInv, LoopInv, NEW e \in Executions, RecordInitial(e)
    PROVE  LoopInv'
<1>r. PICK r : r = loop[e].at
  OBVIOUS
<1>0. /\ DataTypeOK /\ LoopOK(e) /\ loop[e] \in Loops /\ r \in Resources /\ pc[e] = "initializing"
      /\ UNCHANGED <<environment, accepted>> /\ ckpt \in [Resources -> Checkpoints]
      /\ Advance(e) /\ NextResource(e, "initializing", "sending")
  BY <1>r, NextAtFacts DEF LoopInv, DataTypeOK, RecordInitial, Advance
<1>1. /\ \A k \in Resources : Seen(e, k) /\ Staged(e, k)
      /\ \A k \in Resources : k >= r /\ ~Emits(e, k) => Loaded(e, k)
  BY <1>r, <1>0 DEF LoopOK
<1>2. /\ ckpt' \in [Resources -> Checkpoints]
      /\ \A k \in Resources : k # r => ckpt'[k] = ckpt[k]
      /\ ckpt'[r] = ckpt[r] \/ ~Emits(e, r)
  <2>1. CASE loop[e].loaded[r] = "none" /\ loop[e].seen[r] = "up"
    <3>1. ~Emits(e, r)
      BY <2>1 DEF Emits
    <3>2. [committed |-> "up", pending |-> NoRequest] \in Checkpoints
      BY DEF Checkpoints
    <3>3. ckpt' = [ckpt EXCEPT ![r] = [committed |-> "up", pending |-> NoRequest]]
      BY <1>r, <2>1 DEF RecordInitial
    <3>4. QED BY <1>0, <3>1, <3>2, <3>3
  <2>2. CASE ~(loop[e].loaded[r] = "none" /\ loop[e].seen[r] = "up")
    BY <1>r, <1>0, <2>2 DEF RecordInitial
  <2>3. QED BY <2>1, <2>2
<1>3. PICK l \in Loops : /\ loop' = [loop EXCEPT ![e] = l] /\ loop'[e] = l
                         /\ l.at = NextAt(e) /\ l.loaded = loop[e].loaded /\ l.seen = loop[e].seen
  BY <1>0, AdvanceFacts
<1>p. PICK p : p = IF r < NumResources THEN "initializing" ELSE "sending"
  OBVIOUS
<1>4. /\ pc' = [pc EXCEPT ![e] = p] /\ pc'[e] = p /\ p \in Holding /\ clock' = clock
      /\ pc[e] \in Holding
  <2>1. pc' = [pc EXCEPT ![e] = p] /\ p \in Holding /\ clock' = clock /\ pc[e] \in Holding
    BY <1>r, <1>p, <1>0 DEF NextResource, Goto, Holding
  <2>2. QED BY <2>1 DEF IInv, LeaseTypeOK
<1>5. /\ \A k \in Resources : Seen(e, k)' /\ Staged(e, k)'
      /\ \A k \in Resources : k > r /\ ~Emits(e, k)' => Loaded(e, k)'
  <2>1. \A k \in Resources : Seen(e, k)' /\ (Emits(e, k)' <=> Emits(e, k))
    BY <1>1, <1>3 DEF Seen, Emits
  <2>2. ASSUME NEW k \in Resources, ckpt'[k] = ckpt[k]
        PROVE  /\ Loaded(e, k)' <=> Loaded(e, k)
               /\ Staged(e, k)' <=> Staged(e, k)
    BY <1>3, <1>4, <2>2, SameKnowledge
  <2>3. ASSUME NEW k \in Resources PROVE Staged(e, k)'
    <3>1. CASE ckpt'[k] = ckpt[k]
      BY <1>1, <2>2, <3>1
    <3>2. CASE ckpt'[k] # ckpt[k]
      BY <1>2, <2>1, <3>2 DEF Staged
    <3>3. QED BY <3>1, <3>2
  <2>4. ASSUME NEW k \in Resources, k > r, ~Emits(e, k)' PROVE Loaded(e, k)'
    <3>1. Loaded(e, k) /\ ckpt'[k] = ckpt[k]
      BY <1>0, <1>1, <1>2, <2>1, <2>4, NextAtFacts
    <3>2. QED BY <2>2, <3>1
  <2>5. QED BY <2>1, <2>3, <2>4
<1>6. LoopOK(e)'
  <2>1. CASE r < NumResources
    <3>1. p = "initializing" /\ l.at = r + 1
      BY <1>r, <1>p, <1>0, <1>3, <2>1, NextAtFacts
    <3>2. \A k \in Resources : k >= l.at /\ ~Emits(e, k)' => Loaded(e, k)'
      BY <1>0, <1>5, <3>1, NextAtFacts
    <3>3. QED BY <1>3, <1>4, <1>5, <3>1, <3>2 DEF LoopOK, Starting
  <2>2. CASE ~(r < NumResources)
    BY <1>p, <1>3, <1>4, <1>5, <2>2 DEF LoopOK, Starting
  <2>3. QED BY <2>1, <2>2
<1>7. accepted' \in [Resources -> Seq(Requests)] /\ UNCHANGED <<changes, lastStart, health>>
  BY <1>0 DEF DataTypeOK, environment
<1>8. QED BY <1>2, <1>3, <1>4, <1>6, <1>7, HolderStep

LEMMA SendStagedStep ==
    ASSUME IInv, LoopInv, NEW e \in Executions, SendStaged(e)
    PROVE  LoopInv'
<1>r. PICK r : r = loop[e].at
  OBVIOUS
<1>0. /\ DataTypeOK /\ LoopOK(e) /\ loop[e] \in Loops /\ r \in Resources /\ pc[e] = "sending"
      /\ UNCHANGED <<environment, ckpt>> /\ ckpt \in [Resources -> Checkpoints]
      /\ loop \in [Executions -> Loops]
  BY <1>r, NextAtFacts DEF LoopInv, DataTypeOK, SendStaged
<1>1. \A k \in Resources : Seen(e, k) /\ (k >= r => Staged(e, k))
  BY <1>r, <1>0 DEF LoopOK
<1>2. ASSUME clock' = clock, loop'[e].loaded = loop[e].loaded, loop'[e].seen = loop[e].seen
      PROVE  \A k \in Resources : /\ Seen(e, k)' /\ (k >= r => Staged(e, k)')
                                  /\ Emits(e, k)' <=> Emits(e, k)
                                  /\ Emitted(e, k)' = Emitted(e, k)
  BY <1>0, <1>1, <1>2, SameKnowledge
<1>3. CASE Emits(e, r)
  <2>1. Emitted(e, r) \in Requests
    BY <1>0, <1>1, <1>3, EmittedType
  <2>2. PICK q \in Requests : q = Emitted(e, r)
    BY <2>1
  <2>3. PICK l : l = [at |-> r, loaded |-> loop[e].loaded, seen |-> loop[e].seen, request |-> q]
    OBVIOUS
  <2>4. l \in Loops
    BY <1>0, <2>3 DEF Loops
  <2>5. loop' = [loop EXCEPT ![e] = l]
    <3>1. loop' = [loop EXCEPT ![e].request = q]
      BY <1>r, <1>3, <2>2 DEF SendStaged
    <3>2. l = [loop[e] EXCEPT !.request = q]
      BY <1>r, <1>0, <2>3 DEF Loops
    <3>3. QED BY <3>1, <3>2
  <2>6. pc' = [pc EXCEPT ![e] = "committing"] /\ UNCHANGED clock /\ Send(r, q)
    BY <1>r, <1>3, <2>2 DEF SendStaged, Goto
  <2>7. pc'[e] = "committing" /\ loop'[e] = l
    BY <1>0, <2>5, <2>6 DEF IInv, LeaseTypeOK
  <2>8. PICK k \in Resources : k = r
    BY <1>0
  <2>9. accepted' \in [Resources -> Seq(Requests)] /\ Queued(k, q)'
    BY <1>0, <2>6, <2>8, SendFacts
  <2>10. l.at = k /\ l.request = q /\ l.loaded = loop[e].loaded /\ l.seen = loop[e].seen
    BY <2>3, <2>8
  <2>11. /\ \A j \in Resources : Seen(e, j)' /\ (j >= k => Staged(e, j)')
         /\ Emits(e, k)' /\ Emitted(e, k)' = q
    BY <1>0, <1>2, <1>3, <2>2, <2>6, <2>7, <2>8, <2>10
  <2>12. LoopOK(e)'
    BY <2>7, <2>9, <2>10, <2>11 DEF LoopOK, Starting
  <2>13. QED BY <1>0, <2>4, <2>5, <2>6, <2>9, <2>12, HolderStep DEF environment, Holding
<1>4. CASE ~Emits(e, r)
  <2>1. Advance(e) /\ NextResource(e, "sending", "releasing") /\ UNCHANGED accepted
    BY <1>r, <1>4 DEF SendStaged, Advance
  <2>2. PICK l \in Loops : /\ loop' = [loop EXCEPT ![e] = l] /\ loop'[e] = l
                           /\ l.at = NextAt(e) /\ l.loaded = loop[e].loaded
                           /\ l.seen = loop[e].seen
    BY <1>0, <2>1, AdvanceFacts
  <2>p. PICK p : p = IF r < NumResources THEN "sending" ELSE "releasing"
    OBVIOUS
  <2>3. /\ pc' = [pc EXCEPT ![e] = p] /\ pc'[e] = p /\ p \in Holding /\ clock' = clock
        /\ pc[e] \in Holding
    <3>1. pc' = [pc EXCEPT ![e] = p] /\ p \in Holding /\ clock' = clock /\ pc[e] \in Holding
      BY <1>r, <2>p, <1>0, <2>1 DEF NextResource, Goto, Holding
    <3>2. QED BY <3>1 DEF IInv, LeaseTypeOK
  <2>4. \A k \in Resources : Seen(e, k)' /\ (k >= r => Staged(e, k)')
    BY <1>2, <2>2, <2>3
  <2>5. LoopOK(e)'
    <3>1. CASE r < NumResources
      <4>1. p = "sending" /\ l.at = r + 1
        BY <1>r, <2>p, <1>0, <2>2, <3>1, NextAtFacts
      <4>2. \A k \in Resources : k >= l.at => Staged(e, k)'
        BY <1>0, <2>4, <4>1, NextAtFacts
      <4>3. QED BY <2>2, <2>3, <2>4, <4>1, <4>2 DEF LoopOK, Starting
    <3>2. CASE ~(r < NumResources)
      BY <2>p, <2>3, <3>2 DEF LoopOK, Starting
    <3>3. QED BY <3>1, <3>2
  <2>6. accepted' \in [Resources -> Seq(Requests)] /\ UNCHANGED <<changes, lastStart, health>>
        /\ ckpt' \in [Resources -> Checkpoints]
    BY <1>0, <2>1 DEF DataTypeOK, environment
  <2>7. QED BY <2>2, <2>3, <2>5, <2>6, HolderStep
<1>5. QED BY <1>3, <1>4

\* What the last loop commits is what it staged and queued.
LEMMA CommitRequest ==
    ASSUME IInv, LoopInv, NEW e \in Executions, pc[e] = "committing"
    PROVE  /\ ckpt[loop[e].at].pending = loop[e].request /\ loop[e].request # NoRequest
           /\ Queued(loop[e].at, loop[e].request)
<1>r. PICK r : r = loop[e].at
  OBVIOUS
<1>0. DataTypeOK /\ LoopOK(e) /\ r \in Resources
  BY <1>r, NextAtFacts DEF LoopInv
<1>1. /\ Emits(e, r) /\ loop[e].request = Emitted(e, r) /\ Queued(r, loop[e].request)
      /\ Seen(e, r) /\ Staged(e, r)
  BY <1>r, <1>0, NextAtFacts DEF LoopOK
<1>2. Emitted(e, r) # NoRequest
  BY <1>0, <1>1, EmittedType
<1>3. QED BY <1>r, <1>1, <1>2 DEF Staged

LEMMA CommitStep ==
    ASSUME IInv, LoopInv, NEW e \in Executions, Commit(e)
    PROVE  LoopInv'
<1>r. PICK r : r = loop[e].at
  OBVIOUS
<1>0. /\ DataTypeOK /\ LoopOK(e) /\ loop[e] \in Loops /\ r \in Resources
      /\ pc[e] = "committing" /\ CompleteTransition(e, "sending", "releasing")
      /\ ckpt \in [Resources -> Checkpoints]
  BY <1>r, NextAtFacts DEF LoopInv, DataTypeOK, Commit
<1>1. ckpt[loop[e].at].pending = loop[e].request /\ loop[e].request # NoRequest
  BY <1>0, CommitRequest
<1>2. "sending" \in Holding /\ "releasing" \in Holding /\ pc[e] \in Holding
  BY <1>0 DEF Holding
<1>3. /\ \A k \in Resources : k # r => ckpt'[k] = ckpt[k]
      /\ ckpt' \in [Resources -> Checkpoints] /\ clock' = clock /\ accepted' = accepted
      /\ UNCHANGED <<changes, lastStart, health>>
  BY <1>r, <1>0, <1>1, <1>2, CompleteFacts
<1>4. PICK l \in Loops : /\ loop' = [loop EXCEPT ![e] = l] /\ loop'[e] = l
                         /\ l.at = NextAt(e) /\ l.loaded = loop[e].loaded /\ l.seen = loop[e].seen
  BY <1>0, <1>1, <1>2, CompleteFacts
<1>p. PICK p : p = IF r < NumResources THEN "sending" ELSE "releasing"
  OBVIOUS
<1>5. /\ pc' = [pc EXCEPT ![e] = p] /\ pc'[e] = p /\ p \in Holding
      /\ r < NumResources => p = "sending"
      /\ ~(r < NumResources) => p = "releasing"
  <2>1. NextResource(e, "sending", "releasing")
    BY <1>0, <1>1, <1>2, CompleteFacts
  <2>2. pc' = [pc EXCEPT ![e] = p] /\ p \in Holding
    BY <1>r, <1>p, <2>1 DEF NextResource, Goto, Holding
  <2>3. QED BY <1>p, <2>2 DEF IInv, LeaseTypeOK
<1>6. \A k \in Resources : Seen(e, k)' /\ (k > r => Staged(e, k)')
  <2>1. ASSUME NEW k \in Resources PROVE Seen(e, k)'
    BY <1>0, <1>4 DEF LoopOK, Seen
  <2>2. ASSUME NEW k \in Resources, k > r PROVE Staged(e, k)'
    <3>1. ckpt'[k] = ckpt[k] /\ Staged(e, k)
      BY <1>r, <1>0, <1>3, <2>2, NextAtFacts DEF LoopOK
    <3>2. QED BY <1>3, <1>4, <3>1, SameKnowledge
  <2>3. QED BY <2>1, <2>2
<1>7. LoopOK(e)'
  <2>1. CASE r < NumResources
    <3>1. p = "sending" /\ l.at = r + 1
      BY <1>r, <1>0, <1>4, <1>5, <2>1, NextAtFacts
    <3>2. \A k \in Resources : k >= l.at => Staged(e, k)'
      BY <1>0, <1>6, <3>1, NextAtFacts
    <3>3. QED BY <1>4, <1>5, <1>6, <3>1, <3>2 DEF LoopOK, Starting
  <2>2. CASE ~(r < NumResources)
    BY <1>5, <2>2 DEF LoopOK, Starting
  <2>3. QED BY <2>1, <2>2
<1>8. accepted' \in [Resources -> Seq(Requests)]
  BY <1>0, <1>3 DEF DataTypeOK
<1>9. QED BY <1>2, <1>3, <1>4, <1>5, <1>7, <1>8, HolderStep

\* Steps that leave the tables and every holder alone, except that one execution
\* ends, starts, tries for the lease or turns to releasing it.
LEMMA OtherStep ==
    ASSUME IInv, LoopInv, UNCHANGED <<ckpt, accepted>>, NEW e \in Executions,
           changes' \in Nat, lastStart' \in Int, health' \in [Resources -> {"up", "down"}],
           loop' \in [Executions -> Loops],
           \A d \in Executions : d # e => pc'[d] = pc[d] /\ loop'[d] = loop[d]
                                          /\ clock'[d] = clock[d],
           \/ pc'[e] \in {"done", "releasing"}
           \/ pc'[e] \in Starting \cup {"waiting", "resuming"} /\ loop'[e] = LoopStart
           \/ pc'[e] = pc[e] /\ loop'[e] = loop[e] /\ clock'[e] = clock[e]
    PROVE  LoopInv'
<1>1. DataTypeOK'
  BY DEF LoopInv, DataTypeOK
<1>2. ASSUME NEW d \in Executions, pc'[d] = pc[d], loop'[d] = loop[d], clock'[d] = clock[d]
      PROVE  LoopOK(d)'
  <2>1. LoopOK(d)
    BY DEF LoopInv
  <2>2. \A r \in Resources : /\ Loaded(d, r)' <=> Loaded(d, r)
                             /\ Staged(d, r)' <=> Staged(d, r)
                             /\ Seen(d, r)' <=> Seen(d, r)
                             /\ Emits(d, r)' <=> Emits(d, r)
                             /\ Emitted(d, r)' = Emitted(d, r)
    BY <1>2 DEF Loaded, Staged, Seen, Emits, Emitted
  <2>3. \A r, q : Queued(r, q)' <=> Queued(r, q)
    BY DEF Queued
  <2>4. loop[d].at \in Resources
    BY NextAtFacts DEF LoopInv
  <2>5. QED BY <1>2, <2>1, <2>2, <2>3, <2>4 DEF LoopOK
<1>3. CASE pc'[e] \in {"done", "releasing"}
  <2>1. LoopOK(e)'
    BY <1>3 DEF LoopOK, Starting
  <2>2. QED BY <1>1, <1>2, <2>1 DEF LoopInv
<1>4. CASE pc'[e] \in Starting \cup {"waiting", "resuming"} /\ loop'[e] = LoopStart
  <2>1. /\ loop'[e].at = 1 /\ \A r \in Resources : loop'[e].loaded[r] = "skip"
    BY <1>4 DEF LoopStart
  <2>2. \A r \in Resources : Loaded(e, r)' /\ r >= 1
    BY <2>1, NextAtFacts DEF Loaded, LoopInv
  <2>3. LoopOK(e)'
    BY <1>4, <2>1, <2>2 DEF LoopOK, Starting
  <2>4. QED BY <1>1, <1>2, <2>3 DEF LoopInv
<1>5. QED BY <1>1, <1>2, <1>3, <1>4 DEF LoopInv

LEMMA EndLoops ==
    ASSUME IInv, LoopInv, NEW e \in Executions, End(e), UNCHANGED <<environment, ckpt, accepted>>
    PROVE  LoopInv'
<1>1. LoopStart \in Loops
  BY ResourceAssumption DEF LoopStart, Loops, Resources
<1>2. loop' \in [Executions -> Loops]
  BY <1>1 DEF End, LoopInv, DataTypeOK
<1>3. /\ pc'[e] = "done"
      /\ \A d \in Executions : d # e => pc'[d] = pc[d] /\ loop'[d] = loop[d] /\ clock'[d] = clock[d]
  BY DEF End, IInv, LeaseTypeOK, LoopInv, DataTypeOK
<1>4. /\ changes' \in Nat /\ lastStart' \in Int /\ health' \in [Resources -> {"up", "down"}]
      /\ UNCHANGED <<ckpt, accepted>>
  BY DEF LoopInv, DataTypeOK, environment
<1>5. QED BY <1>2, <1>3, <1>4, OtherStep

\* An execution moves on without touching its locals of the loops.
LEMMA GotoLoops ==
    ASSUME IInv, LoopInv, NEW e \in Executions, NEW p \in Starting \cup {"resuming", "releasing"},
           pc' = [pc EXCEPT ![e] = p], pc[e] \in Starting \cup {"waiting"} \/ p = "releasing",
           \A d \in Executions : d # e => clock'[d] = clock[d],
           UNCHANGED <<changes, health, ckpt, accepted, loop>>, lastStart' \in Int
    PROVE  LoopInv'
<1>1. /\ pc'[e] = p
      /\ \A d \in Executions : d # e => pc'[d] = pc[d] /\ loop'[d] = loop[d] /\ clock'[d] = clock[d]
  BY DEF IInv, LeaseTypeOK
<1>2. /\ changes' \in Nat /\ health' \in [Resources -> {"up", "down"}]
      /\ UNCHANGED <<ckpt, accepted>> /\ loop' \in [Executions -> Loops]
  BY DEF LoopInv, DataTypeOK
<1>3. pc[e] \in Starting \cup {"waiting"} => loop'[e] = LoopStart
  BY DEF LoopInv, LoopOK
<1>4. QED BY <1>1, <1>2, <1>3, OtherStep

LEMMA LoopInvStep ==
    ASSUME IInv, LoopInv, [Next]_vars
    PROVE  LoopInv'
<1>0. lastStart \in Int /\ changes \in Nat /\ health \in [Resources -> {"up", "down"}] /\ now \in Nat
      /\ loop \in [Executions -> Loops]
  BY DEF LoopInv, DataTypeOK, IInv, LeaseTypeOK
<1>1. ASSUME UNCHANGED <<ckpt, accepted, pc, clock, loop>>, changes' \in Nat, lastStart' \in Int,
             health' \in [Resources -> {"up", "down"}]
      PROVE  LoopInv'
  <2>1. CASE Executions = {}
    BY <1>0, <1>1, <2>1 DEF LoopInv, DataTypeOK
  <2>2. ASSUME NEW e \in Executions PROVE LoopInv'
    <3>1. /\ UNCHANGED <<ckpt, accepted>> /\ loop' \in [Executions -> Loops]
          /\ pc'[e] = pc[e] /\ loop'[e] = loop[e] /\ clock'[e] = clock[e]
          /\ \A d \in Executions : d # e => pc'[d] = pc[d] /\ loop'[d] = loop[d]
                                            /\ clock'[d] = clock[d]
      BY <1>0, <1>1
    <3>2. QED BY <1>1, <3>1, OtherStep
  <2>3. QED BY <2>1, <2>2
<1>2. CASE UNCHANGED vars
  BY <1>0, <1>1, <1>2 DEF vars, environment, tables
<1>3. CASE Tick
  BY <1>0, <1>1, <1>3 DEF Tick, tables
<1>4. ASSUME NEW r \in Resources, ChangeHealth(r) PROVE LoopInv'
  <2>1. UNCHANGED <<ckpt, accepted, pc, clock, loop, lastStart>> /\ changes' \in Nat
    BY <1>0, <1>4 DEF ChangeHealth, tables
  <2>2. health' \in [Resources -> {"up", "down"}]
    BY <1>0, <1>4 DEF ChangeHealth
  <2>3. QED BY <1>0, <1>1, <2>1, <2>2
<1>5. ASSUME NEW e \in Executions, Start(e) PROVE LoopInv'
  <2>1. /\ pc' = [pc EXCEPT ![e] = "scheduled"] /\ pc[e] = "waiting" /\ lastStart' \in Int
        /\ UNCHANGED <<changes, health, ckpt, accepted, loop, clock>>
    BY <1>0, <1>5 DEF Start, tables
  <2>2. QED BY <2>1, GotoLoops DEF Starting
<1>6. ASSUME NEW e \in Executions, Stop(e) PROVE LoopInv'
  BY <1>6, EndLoops DEF Stop, tables
<1>7. ASSUME NEW e \in Executions, ReadClock(e) PROVE LoopInv'
  <2>1. /\ pc' = [pc EXCEPT ![e] = "creating"] /\ pc[e] = "scheduled" /\ lastStart' \in Int
        /\ UNCHANGED <<changes, health, ckpt, accepted, loop>>
    BY <1>0, <1>7 DEF ReadClock, tables, environment
  <2>2. \A d \in Executions : d # e => clock'[d] = clock[d]
    BY <1>7 DEF ReadClock, IInv, LeaseTypeOK
  <2>3. QED BY <2>1, <2>2, GotoLoops DEF Starting
<1>8. ASSUME NEW e \in Executions, CreateLease(e) PROVE LoopInv'
  <2>1. /\ \E p \in {"resuming", "reading"} : pc' = [pc EXCEPT ![e] = p]
        /\ pc[e] = "creating" /\ lastStart' \in Int
        /\ UNCHANGED <<changes, health, ckpt, accepted, loop, clock>>
    BY <1>0, <1>8 DEF CreateLease, Goto, environment
  <2>2. QED BY <2>1, GotoLoops DEF Starting
<1>9. ASSUME NEW e \in Executions, ReadLease(e) PROVE LoopInv'
  <2>1. CASE lease.owner = NoOwner \/ lease.expires > clock[e]
    BY <1>9, <2>1, EndLoops DEF ReadLease, tables
  <2>2. CASE ~(lease.owner = NoOwner \/ lease.expires > clock[e])
    <3>1. /\ pc' = [pc EXCEPT ![e] = "claiming"] /\ pc[e] = "reading" /\ lastStart' \in Int
          /\ UNCHANGED <<changes, health, ckpt, accepted, loop, clock>>
      BY <1>0, <1>9, <2>2 DEF ReadLease, Goto, tables, environment
    <3>2. QED BY <3>1, GotoLoops DEF Starting
  <2>3. QED BY <2>1, <2>2
<1>10. ASSUME NEW e \in Executions, ClaimLease(e) PROVE LoopInv'
  <2>1. CASE lease.owner # NoOwner /\ lease.etag = etag[e]
    <3>1. /\ pc' = [pc EXCEPT ![e] = "resuming"] /\ pc[e] = "claiming" /\ lastStart' \in Int
          /\ UNCHANGED <<changes, health, ckpt, accepted, loop, clock>>
      BY <1>0, <1>10, <2>1 DEF ClaimLease, Goto, environment
    <3>2. QED BY <3>1, GotoLoops DEF Starting
  <2>2. CASE ~(lease.owner # NoOwner /\ lease.etag = etag[e])
    BY <1>10, <2>2, EndLoops DEF ClaimLease
  <2>3. QED BY <2>1, <2>2
<1>11. ASSUME NEW e \in Executions, ReleaseLease(e) PROVE LoopInv'
  BY <1>11, EndLoops DEF ReleaseLease
<1>12. ASSUME NEW e \in Executions, Fail(e) PROVE LoopInv'
  <2>1. /\ pc' = [pc EXCEPT ![e] = "releasing"] /\ lastStart' \in Int
        /\ UNCHANGED <<changes, health, ckpt, accepted, loop, clock>>
    BY <1>0, <1>12 DEF Fail, Goto, tables, environment
  <2>2. QED BY <2>1, GotoLoops
<1>13. QED
  BY <1>2, <1>3, <1>4, <1>5, <1>6, <1>7, <1>8, <1>9, <1>10, <1>11, <1>12, ResumeStep,
     RecommitStep, ObserveStep, StageStep, RecordInitialStep, SendStagedStep, CommitStep
     DEF Next, Step

\* What an execution knows of the checkpoints in each of its loops holds in every
\* reachable state, whatever the start delay.
THEOREM LoopInvariance == Spec => []LoopInv
<1>1. Init => LoopInv
  <2> SUFFICES ASSUME Init PROVE LoopInv
    OBVIOUS
  <2>1. LoopStart \in Loops
    BY ResourceAssumption DEF LoopStart, Loops, Resources
  <2>2. [committed |-> "none", pending |-> NoRequest] \in Checkpoints
    BY DEF Checkpoints
  <2>3. accepted \in [Resources -> Seq(Requests)]
    BY DEF Init
  <2>4. DataTypeOK
    BY <2>1, <2>2, <2>3 DEF Init, DataTypeOK
  <2>5. \A e \in Executions : pc[e] = "waiting" /\ loop[e] = LoopStart
    <3>1. pc = [e \in Executions |-> "waiting"] /\ loop = [e \in Executions |-> LoopStart]
      BY DEF Init
    <3>2. QED BY <3>1
  <2>6. QED BY <2>4, <2>5 DEF LoopInv, LoopOK
<1>2. IInv /\ LoopInv /\ [Next]_vars => LoopInv'
  BY LoopInvStep
<1>3. QED BY <1>1, <1>2, LeaseInvariance, PTL DEF Spec

\* Every variable has its type.
THEOREM TypeCorrect == Spec => []TypeOK
<1>1. IInv /\ LoopInv => TypeOK
  BY DEF IInv, LeaseTypeOK, LoopInv, DataTypeOK, TypeOK, Checkpoints, Loops
<1>2. QED BY <1>1, LeaseInvariance, LoopInvariance, PTL

\* stage_transition and complete_transition never raise their conflict errors: no
\* execution finds a checkpoint that is not the one it loaded or staged.
THEOREM CheckpointsNeverConflict == Spec => []CheckpointNeverConflicts
<1>1. LoopInv => CheckpointNeverConflicts
  <2>1. ASSUME NEW e \in Executions, LoopOK(e) PROVE pc[e] # "conflict"
    BY <2>1 DEF LoopOK
  <2>2. QED BY <2>1 DEF LoopInv, CheckpointNeverConflicts
<1>2. QED BY <1>1, LoopInvariance, PTL

\* What the first loop commits again is pending and queued.
LEMMA RecommitRequest ==
    ASSUME LoopInv, NEW e \in Executions, pc[e] = "recommitting"
    PROVE  /\ ckpt[loop[e].at].pending = loop[e].request /\ loop[e].request # NoRequest
           /\ Queued(loop[e].at, loop[e].request)
BY DEF LoopInv, LoopOK

\* Only complete_transition drops a pending request, and it was queued before.
LEMMA PendingStep ==
    ASSUME IInv, LoopInv, [Next]_vars, NEW r \in Resources,
           ckpt[r].pending # NoRequest, ckpt'[r].pending # ckpt[r].pending
    PROVE  ckpt'[r].pending = NoRequest /\ Queued(r, ckpt[r].pending)
<1>0. DataTypeOK /\ ckpt \in [Resources -> Checkpoints]
  BY DEF LoopInv, DataTypeOK
<1>1. ASSUME NEW e \in Executions, NEW a \in Holding, NEW b \in Holding,
             CompleteTransition(e, a, b), ckpt[loop[e].at].pending = loop[e].request,
             loop[e].request # NoRequest, Queued(loop[e].at, loop[e].request)
      PROVE  ckpt'[r].pending = NoRequest /\ Queued(r, ckpt[r].pending)
  <2>0. /\ ckpt'[loop[e].at] = [committed |-> loop[e].request.health, pending |-> NoRequest]
        /\ \A k \in Resources : k # loop[e].at => ckpt'[k] = ckpt[k]
    BY <1>1, CompleteFacts, Zenon
  <2>1. ckpt'[loop[e].at].pending = NoRequest
    BY <2>0
  <2>2. r = loop[e].at
    BY <2>0
  <2>3. QED BY <1>1, <2>1, <2>2
<1>2. ASSUME NEW e \in Executions, Stage(e) PROVE FALSE
  <2>1. LoopOK(e) /\ loop[e].at \in Resources /\ pc[e] = "staging"
    BY <1>0, <1>2, NextAtFacts DEF LoopInv, Stage
  <2>2. Loaded(e, loop[e].at)
    BY <1>0, <2>1, NextAtFacts DEF LoopOK
  <2>3. Emits(e, loop[e].at) => ckpt[loop[e].at].pending = NoRequest
    BY <2>2 DEF Emits, Loaded
  <2>4. ckpt'[r] # ckpt[r]
    OBVIOUS
  <2>5. CASE Emits(e, loop[e].at)
    <3>1. ckpt' = [ckpt EXCEPT ![loop[e].at].pending = Emitted(e, loop[e].at)]
      BY <1>2, <2>3, <2>5 DEF Stage
    <3>2. r = loop[e].at
      BY <1>0, <2>4, <3>1
    <3>3. QED BY <2>3, <2>5, <3>2
  <2>6. CASE ~Emits(e, loop[e].at)
    <3>1. ckpt' = ckpt
      BY <1>2, <2>6 DEF Stage
    <3>2. QED BY <2>4, <3>1
  <2>7. QED BY <2>5, <2>6
<1>3. ASSUME NEW e \in Executions, RecordInitial(e) PROVE FALSE
  <2>1. LoopOK(e) /\ loop[e].at \in Resources /\ pc[e] = "initializing"
    BY <1>0, <1>3, NextAtFacts DEF LoopInv, RecordInitial
  <2>2. CASE loop[e].loaded[loop[e].at] = "none" /\ loop[e].seen[loop[e].at] = "up"
    <3>1. ~Emits(e, loop[e].at)
      BY <2>2 DEF Emits
    <3>2. Loaded(e, loop[e].at)
      BY <1>0, <2>1, <3>1, NextAtFacts DEF LoopOK
    <3>3. ckpt[loop[e].at].pending = NoRequest
      BY <2>2, <3>2 DEF Loaded
    <3>4. ckpt' = [ckpt EXCEPT ![loop[e].at] = [committed |-> "up", pending |-> NoRequest]]
      BY <1>3, <2>2 DEF RecordInitial
    <3>5. r = loop[e].at
      BY <1>0, <3>4
    <3>6. QED BY <3>3, <3>5
  <2>3. CASE ~(loop[e].loaded[loop[e].at] = "none" /\ loop[e].seen[loop[e].at] = "up")
    <3>1. ckpt' = ckpt
      BY <1>3, <2>3 DEF RecordInitial
    <3>2. QED BY <3>1
  <2>4. QED BY <2>2, <2>3
<1>4. ASSUME ckpt' = ckpt PROVE FALSE
  BY <1>4
<1>5. ASSUME NEW e \in Executions, Recommit(e)
      PROVE  ckpt'[r].pending = NoRequest /\ Queued(r, ckpt[r].pending)
  <2>1. /\ CompleteTransition(e, "resuming", "observing") /\ pc[e] = "recommitting"
        /\ "resuming" \in Holding /\ "observing" \in Holding
    BY <1>5 DEF Recommit, Holding
  <2>2. QED BY <1>1, <2>1, RecommitRequest
<1>6. ASSUME NEW e \in Executions, Commit(e)
      PROVE  ckpt'[r].pending = NoRequest /\ Queued(r, ckpt[r].pending)
  <2>1. /\ CompleteTransition(e, "sending", "releasing") /\ pc[e] = "committing"
        /\ "sending" \in Holding /\ "releasing" \in Holding
    BY <1>6 DEF Commit, Holding
  <2>2. QED BY <1>1, <2>1, CommitRequest
<1>7. CASE UNCHANGED vars
  BY <1>4, <1>7 DEF vars, tables
<1>8. CASE Tick \/ \E k \in Resources : ChangeHealth(k)
  BY <1>4, <1>8 DEF Tick, ChangeHealth, tables
<1>9. ASSUME NEW e \in Executions, Start(e) \/ Stop(e) \/ Step(e)
      PROVE  ckpt'[r].pending = NoRequest /\ Queued(r, ckpt[r].pending)
  <2>1. CASE Start(e) \/ Stop(e) \/ ReadClock(e) \/ CreateLease(e) \/ ReadLease(e) \/ ClaimLease(e)
             \/ Resume(e) \/ Observe(e) \/ SendStaged(e) \/ ReleaseLease(e) \/ Fail(e)
    BY <1>4, <2>1 DEF Start, Stop, ReadClock, CreateLease, ReadLease, ClaimLease, Resume, Observe,
                      SendStaged, ReleaseLease, Fail, tables
  <2>2. QED BY <1>2, <1>3, <1>5, <1>6, <1>9, <2>1 DEF Step
<1>10. QED BY <1>7, <1>8, <1>9 DEF Next

\* A staged request is never replaced, and dropped only once it has been queued.
THEOREM PendingAlwaysStable == Spec => PendingIsStable
<1>1. IInv /\ LoopInv /\ [Next]_vars =>
        [\A r \in Resources :
           ckpt[r].pending # NoRequest /\ ckpt'[r].pending # ckpt[r].pending =>
              /\ ckpt'[r].pending = NoRequest
              /\ \E i \in 1 .. Len(accepted[r]) : accepted[r][i] = ckpt[r].pending]_vars
  BY PendingStep DEF Queued
<1>2. QED BY <1>1, LeaseInvariance, LoopInvariance, PTL DEF Spec, PendingIsStable

-----------------------------------------------------------------------------
(* The queue, when executions read the clock in the minute of their start *)

Last(s) == IF s = << >> THEN "up" ELSE s[Len(s)].health

Alternates(s) ==
    \A i \in 1 .. Len(s) : s[i].health = IF i = 1 \/ s[i - 1].health = "up" THEN "down" ELSE "up"

\* The committed health is that of the request queued last.
Stands(r) ==
    \/ ckpt[r].committed = Last(accepted[r])
    \/ ckpt[r].committed = "none" /\ accepted[r] = << >>

\* A pending request reverses what was queued last, or is what was queued last.
RowOK(r) ==
    /\ ckpt[r].pending = NoRequest => Stands(r)
    /\ ckpt[r].pending # NoRequest =>
         \/ /\ Stands(r) /\ ~Queued(r, ckpt[r].pending)
            /\ ckpt[r].pending.health = IF Last(accepted[r]) = "up" THEN "down" ELSE "up"
         \/ accepted[r] # << >> /\ ckpt[r].pending = accepted[r][Len(accepted[r])]
    /\ Alternates(accepted[r])

\* Some request of r was made in the minute t.
Used(r, t) ==
    \/ \E i \in 1 .. Len(accepted[r]) : accepted[r][i].minute = t
    \/ ckpt[r].pending # NoRequest /\ ckpt[r].pending.minute = t

\* e has staged no request for r yet.
NotYet(e, r) ==
    \/ pc[e] \in Starting \cup {"resuming", "recommitting", "observing"}
    \/ pc[e] = "staging" /\ r >= loop[e].at

\* Every execution has a minute of its own, and its requests bear no other.
Timely(e) ==
    /\ started[e] <= lastStart /\ started[e] % Minute = 0
    /\ pc[e] # "scheduled" => clock[e] = started[e]
    /\ \A d \in Executions : pc[d] \in Running /\ started[d] = started[e] => d = e
    /\ \A r \in Resources : NotYet(e, r) => ~Used(r, started[e])

MinutesOK ==
    /\ lastStart <= now
    /\ \A e \in Executions : pc[e] \in Running => Timely(e)
    /\ \A r \in Resources, t \in Nat : Used(r, t) => t <= lastStart

Rows == \A r \in Resources : RowOK(r)

\* The invariant of the queue, if executions read the clock within a minute.
QueueInv == MinutesOK /\ Rows

\* A time truncates to the beginning of its minute.
LEMMA TruncateInMinute ==
    ASSUME NEW s \in Nat, NEW t \in Nat, s % Minute = 0, s <= t, t < s + Minute
    PROVE  Truncate(t) = s
<1>1. Minute \in Nat /\ Minute > 0
  BY TimeAssumption
<1>2. PICK a, b, d, x : /\ a = s \div Minute /\ b = t \div Minute /\ d = b - a /\ x = t % Minute
  OBVIOUS
<1>a. /\ a \in Int /\ b \in Int /\ x \in 0 .. (Minute - 1) /\ d \in Int
  BY <1>1, <1>2, Z3
<1>b. s = Minute * a /\ t = Minute * b + x
  <2>1. s = Minute * (s \div Minute) + (s % Minute)
    BY <1>1, Z3
  <2>2. t = Minute * (t \div Minute) + (t % Minute)
    BY <1>1, Z3
  <2>3. Minute * a \in Int
    BY <1>1, <1>a
  <2>4. QED BY <1>2, <2>1, <2>2, <2>3
<1>c. Minute * d = Minute * b - Minute * a
  BY <1>1, <1>2, <1>a, Z3
<1>d. Minute * d = t - s - x
  BY <1>1, <1>a, <1>b, <1>c
<1>e. d = 0
  <2>1. CASE d >= 1
    <3>1. Minute * d >= Minute
      BY <1>1, <1>a, <2>1, Z3
    <3>2. QED BY <1>1, <1>a, <1>d, <3>1
  <2>2. CASE d <= -1
    <3>1. Minute * d <= -Minute
      BY <1>1, <1>a, <2>2, Z3
    <3>2. QED BY <1>1, <1>a, <1>d, <3>1
  <2>3. QED BY <1>a, <2>1, <2>2
<1>f. t % Minute = t - s
  BY <1>1, <1>2, <1>a, <1>d, <1>e
<1>3. QED BY <1>f DEF Truncate

\* Appending the reverse of the last request.
LEMMA AppendAlternates ==
    ASSUME NEW s \in Seq(Requests), NEW q \in Requests, Alternates(s),
           q.health = IF Last(s) = "up" THEN "down" ELSE "up"
    PROVE  /\ Alternates(Append(s, q)) /\ Append(s, q) # << >>
           /\ Append(s, q)[Len(Append(s, q))] = q
<1>1. PICK u : u = Append(s, q)
  OBVIOUS
<1>2. /\ Len(u) = Len(s) + 1 /\ Len(s) \in Nat /\ u[Len(s) + 1] = q
      /\ \A i \in 1 .. Len(s) : u[i] = s[i]
  BY <1>1
<1>3. ASSUME NEW i \in 1 .. Len(u)
      PROVE  u[i].health = IF i = 1 \/ u[i - 1].health = "up" THEN "down" ELSE "up"
  <2>1. CASE i \in 1 .. Len(s)
    <3>1. i # 1 => i - 1 \in 1 .. Len(s)
      BY <1>2, <2>1
    <3>2. QED BY <1>2, <2>1, <3>1 DEF Alternates
  <2>2. CASE i = Len(s) + 1
    <3>1. CASE Len(s) = 0
      <4>1. s = << >>
        BY <3>1
      <4>2. QED BY <1>2, <2>2, <3>1, <4>1 DEF Last
    <3>2. CASE Len(s) # 0
      <4>1. i # 1 /\ i - 1 = Len(s) /\ Len(s) \in 1 .. Len(s) /\ s # << >>
        BY <1>2, <2>2, <3>2
      <4>2. QED BY <1>2, <2>2, <4>1 DEF Last
    <3>3. QED BY <3>1, <3>2
  <2>3. QED BY <1>2, <1>3, <2>1, <2>2
<1>4. u # << >> /\ u[Len(u)] = q
  BY <1>2
<1>5. QED BY <1>1, <1>3, <1>4 DEF Alternates

LEMMA LastType ==
    ASSUME NEW s \in Seq(Requests)
    PROVE  Last(s) \in {"up", "down"}
<1>1. CASE s = << >>
  BY <1>1 DEF Last
<1>2. CASE s # << >>
  <2>1. Len(s) \in 1 .. Len(s)
    BY <1>2
  <2>2. s[Len(s)] \in Requests
    BY <2>1
  <2>3. QED BY <1>2, <2>2 DEF Last, Requests
<1>3. QED BY <1>1, <1>2

LEMMA SameRow ==
    ASSUME NEW r \in Resources, ckpt'[r] = ckpt[r], accepted'[r] = accepted[r]
    PROVE  (RowOK(r)' <=> RowOK(r)) /\ \A t \in Nat : Used(r, t)' <=> Used(r, t)
BY DEF RowOK, Used, Stands, Queued

\* Steps after which no execution runs that did not, and nothing is newly used.
LEMMA MinutesFrame ==
    ASSUME MinutesOK, now \in Int, now' \in Int, lastStart \in Int,
           lastStart' = lastStart, now <= now',
           \A e \in Executions : pc'[e] \in Running =>
              /\ pc[e] \in Running /\ started'[e] = started[e] /\ started[e] \in Nat
              /\ pc'[e] # "scheduled" => clock'[e] = started[e]
              /\ \A r \in Resources : NotYet(e, r)' => NotYet(e, r),
           \A r \in Resources, t \in Nat : Used(r, t)' => Used(r, t)
    PROVE  MinutesOK'
<1>1. lastStart' <= now'
  BY DEF MinutesOK
<1>2. ASSUME NEW e \in Executions, pc'[e] \in Running PROVE Timely(e)'
  <2>1. Timely(e) /\ started'[e] = started[e] /\ started[e] \in Nat
    BY <1>2 DEF MinutesOK
  <2>2. started'[e] <= lastStart' /\ started'[e] % Minute = 0
    BY <2>1 DEF Timely
  <2>3. pc'[e] # "scheduled" => clock'[e] = started'[e]
    BY <1>2, <2>1
  <2>4. ASSUME NEW d \in Executions, pc'[d] \in Running, started'[d] = started'[e] PROVE d = e
    BY <2>1, <2>4 DEF Timely
  <2>5. ASSUME NEW r \in Resources, NotYet(e, r)' PROVE ~Used(r, started[e])'
    <3>1. PICK m \in Nat : m = started[e]
      BY <2>1
    <3>2. ~Used(r, m)
      BY <1>2, <2>1, <2>5, <3>1 DEF Timely
    <3>3. ~Used(r, m)'
      BY <3>2
    <3>4. QED BY <2>1, <3>1, <3>3 DEF Used
  <2>6. QED BY <2>1, <2>2, <2>3, <2>4, <2>5 DEF Timely
<1>3. ASSUME NEW r \in Resources, NEW t \in Nat, Used(r, t)' PROVE t <= lastStart'
  BY <1>3 DEF MinutesOK
<1>4. QED BY <1>1, <1>2, <1>3 DEF MinutesOK

\* No minute is newly used.
NothingUsed == \A r \in Resources, t \in Nat : Used(r, t)' => Used(r, t)

\* sender.send of the pending request.
LEMMA SendRow ==
    ASSUME DataTypeOK, Rows, NEW r \in Resources, NEW q \in Requests, ckpt[r].pending = q,
           q # NoRequest, Send(r, q), ckpt' = ckpt
    PROVE  Rows' /\ NothingUsed
<1>0. RowOK(r) /\ accepted[r] \in Seq(Requests)
  BY PendingTypes DEF Rows
<1>1. \A k \in Resources : k # r => accepted'[k] = accepted[k]
  BY SendFacts
<1>2. ASSUME NEW k \in Resources, accepted'[k] = accepted[k]
      PROVE  RowOK(k)' /\ \A t \in Nat : Used(k, t)' => Used(k, t)
  BY <1>2, SameRow DEF Rows
<1>3. CASE Queued(r, q)
  <2>1. accepted'[r] = accepted[r]
    BY <1>3, SendFacts
  <2>2. QED BY <1>1, <1>2, <2>1 DEF Rows, NothingUsed
<1>4. CASE ~Queued(r, q)
  <2>1. PICK s \in Seq(Requests) : s = accepted[r]
    BY <1>0
  <2>2. accepted'[r] = Append(s, q)
    BY <1>4, <2>1, SendFacts
  <2>3. Alternates(s) /\ q.health = IF Last(s) = "up" THEN "down" ELSE "up"
    <3>1. ~(s # << >> /\ q = s[Len(s)])
      <4>1. ASSUME s # << >>, q = s[Len(s)] PROVE FALSE
        <5>1. Len(s) \in 1 .. Len(s)
          BY <4>1
        <5>2. QED BY <1>4, <2>1, <4>1, <5>1 DEF Queued
      <4>2. QED BY <4>1
    <3>2. QED BY <1>0, <2>1, <3>1 DEF RowOK
  <2>4. /\ Alternates(Append(s, q)) /\ Append(s, q) # << >>
        /\ Append(s, q)[Len(Append(s, q))] = q
    BY <2>3, AppendAlternates
  <2>5. RowOK(r)'
    BY <2>2, <2>4 DEF RowOK
  <2>6. ASSUME NEW t \in Nat, Used(r, t)' PROVE Used(r, t)
    <3>1. /\ Len(Append(s, q)) = Len(s) + 1 /\ Len(s) \in Nat /\ Append(s, q)[Len(s) + 1] = q
          /\ \A i \in 1 .. Len(s) : Append(s, q)[i] = s[i]
      OBVIOUS
    <3>2. CASE \E i \in 1 .. Len(accepted'[r]) : accepted'[r][i].minute = t
      <4>1. PICK i \in 1 .. (Len(s) + 1) : Append(s, q)[i].minute = t
        BY <2>2, <3>1, <3>2
      <4>2. CASE i = Len(s) + 1
        BY <3>1, <4>1, <4>2 DEF Used
      <4>3. CASE i # Len(s) + 1
        <5>1. i \in 1 .. Len(s)
          BY <3>1, <4>3
        <5>2. QED BY <2>1, <3>1, <4>1, <5>1 DEF Used
      <4>4. QED BY <4>2, <4>3
    <3>3. QED BY <2>6, <3>2 DEF Used
  <2>7. QED BY <1>1, <1>2, <2>5, <2>6 DEF Rows, NothingUsed
<1>5. QED BY <1>3, <1>4

\* complete_transition of a request that was queued.
LEMMA CompleteRow ==
    ASSUME IInv, LoopInv, Rows, NEW e \in Executions, NEW a \in Holding, NEW b \in Holding,
           CompleteTransition(e, a, b), ckpt[loop[e].at].pending = loop[e].request,
           loop[e].request # NoRequest, Queued(loop[e].at, loop[e].request)
    PROVE  Rows' /\ NothingUsed
<1>r. PICK r, q : r = loop[e].at /\ q = loop[e].request
  OBVIOUS
<1>0. /\ DataTypeOK /\ r \in Resources /\ RowOK(r) /\ ckpt[r].pending = q /\ q # NoRequest
      /\ Queued(r, q) /\ accepted[r] \in Seq(Requests)
  BY <1>r, NextAtFacts, PendingTypes DEF LoopInv, Rows
<1>1. /\ ckpt'[r] = [committed |-> q.health, pending |-> NoRequest]
      /\ \A k \in Resources : k # r => ckpt'[k] = ckpt[k]
      /\ accepted' = accepted
  <2>1. /\ ckpt'[loop[e].at] = [committed |-> loop[e].request.health, pending |-> NoRequest]
        /\ \A k \in Resources : k # loop[e].at => ckpt'[k] = ckpt[k]
        /\ accepted' = accepted
    BY CompleteFacts, Zenon
  <2>2. QED BY <1>r, <2>1
<1>2. ckpt'[r].committed = q.health /\ ckpt'[r].pending = NoRequest
  BY <1>1
<1>3. accepted[r] # << >> /\ q = accepted[r][Len(accepted[r])] /\ Alternates(accepted[r])
  BY <1>0 DEF RowOK
<1>4. RowOK(r)'
  <2>1. Stands(r)'
    BY <1>1, <1>2, <1>3 DEF Stands, Last
  <2>2. QED BY <1>1, <1>2, <1>3, <2>1 DEF RowOK
<1>5. ASSUME NEW t \in Nat, Used(r, t)' PROVE Used(r, t)
  BY <1>1, <1>2, <1>5 DEF Used
<1>6. ASSUME NEW k \in Resources, k # r PROVE RowOK(k)' /\ \A t \in Nat : Used(k, t)' => Used(k, t)
  BY <1>1, <1>6, SameRow DEF Rows
<1>7. QED BY <1>4, <1>5, <1>6 DEF Rows, NothingUsed

\* record_initial_health of a resource nothing was queued for.
LEMMA RecordInitialRow ==
    ASSUME IInv, LoopInv, Rows, NEW e \in Executions, RecordInitial(e)
    PROVE  Rows' /\ NothingUsed
<1>r. PICK r : r = loop[e].at
  OBVIOUS
<1>0. /\ DataTypeOK /\ LoopOK(e) /\ r \in Resources /\ pc[e] = "initializing" /\ accepted' = accepted
      /\ ckpt \in [Resources -> Checkpoints] /\ RowOK(r) /\ accepted[r] \in Seq(Requests)
  BY <1>r, NextAtFacts, PendingTypes DEF LoopInv, DataTypeOK, RecordInitial, Rows
<1>1. CASE loop[e].loaded[r] = "none" /\ loop[e].seen[r] = "up"
  <2>1. ~Emits(e, r)
    BY <1>1 DEF Emits
  <2>2. Loaded(e, r)
    BY <1>r, <1>0, <2>1, NextAtFacts DEF LoopOK
  <2>3. ckpt[r].pending = NoRequest /\ ckpt[r].committed = "none"
    BY <1>1, <2>2 DEF Loaded
  <2>4. accepted[r] = << >> /\ Alternates(accepted[r])
    <3>1. Last(accepted[r]) # "none"
      BY <1>0, LastType
    <3>2. QED BY <1>0, <2>3, <3>1 DEF RowOK, Stands
  <2>5. ckpt' = [ckpt EXCEPT ![r] = [committed |-> "up", pending |-> NoRequest]]
    BY <1>r, <1>1 DEF RecordInitial
  <2>6. /\ ckpt'[r].committed = "up" /\ ckpt'[r].pending = NoRequest
        /\ \A k \in Resources : k # r => ckpt'[k] = ckpt[k]
    BY <1>0, <2>5
  <2>7. RowOK(r)'
    <3>1. Stands(r)'
      BY <1>0, <2>4, <2>6 DEF Stands, Last
    <3>2. QED BY <1>0, <2>4, <2>6, <3>1 DEF RowOK
  <2>8. ASSUME NEW t \in Nat, Used(r, t)' PROVE Used(r, t)
    BY <1>0, <2>6, <2>8 DEF Used
  <2>9. ASSUME NEW k \in Resources, k # r PROVE RowOK(k)' /\ \A t \in Nat : Used(k, t)' => Used(k, t)
    BY <1>0, <2>6, <2>9, SameRow DEF Rows
  <2>10. QED BY <2>7, <2>8, <2>9 DEF Rows, NothingUsed
<1>2. CASE ~(loop[e].loaded[r] = "none" /\ loop[e].seen[r] = "up")
  <2>1. ckpt' = ckpt
    BY <1>r, <1>2 DEF RecordInitial
  <2>2. QED BY <1>0, <2>1, SameRow DEF Rows, NothingUsed
<1>3. QED BY <1>1, <1>2

\* stage_transition reverses what was queued last, by a request of a new minute.
LEMMA StageRow ==
    ASSUME IInv, LoopInv, Rows, MinutesOK, NEW e \in Executions, Stage(e)
    PROVE  /\ Rows'
           /\ \A k \in Resources, t \in Nat : Used(k, t)' =>
                Used(k, t) \/ (k = loop[e].at /\ t = started[e])
<1>r. PICK r : r = loop[e].at
  OBVIOUS
<1>0. /\ DataTypeOK /\ LoopOK(e) /\ r \in Resources /\ pc[e] = "staging" /\ accepted' = accepted
      /\ ckpt \in [Resources -> Checkpoints] /\ RowOK(r) /\ accepted[r] \in Seq(Requests)
      /\ r \in Int
  BY <1>r, NextAtFacts, PendingTypes DEF LoopInv, DataTypeOK, Stage, Rows
<1>1. Loaded(e, r) /\ Seen(e, r)
  BY <1>r, <1>0 DEF LoopOK
<1>2. clock[e] = started[e] /\ ~Used(r, started[e])
  <2>1. pc[e] \in Running /\ NotYet(e, r)
    BY <1>r, <1>0 DEF Running, Holding, NotYet
  <2>2. QED BY <1>0, <2>1 DEF MinutesOK, Timely
<1>3. CASE Emits(e, r)
  <2>1. ckpt[r].pending = NoRequest /\ ckpt[r].committed = loop[e].loaded[r]
    BY <1>1, <1>3 DEF Loaded, Emits
  <2>2. PICK q : q = Emitted(e, r)
    OBVIOUS
  <2>3. /\ q \in Requests /\ q # NoRequest /\ q.minute = started[e] /\ q.health = loop[e].seen[r]
        /\ loop[e].seen[r] \in {"up", "down"}
    <3>1. q \in Requests /\ q # NoRequest
      BY <1>0, <1>1, <1>3, <2>2, EmittedType
    <3>2. q.minute = started[e] /\ q.health = loop[e].seen[r]
      BY <1>2, <2>2 DEF Emitted, Request
    <3>3. QED BY <3>1, <3>2 DEF Requests
  <2>4. ckpt' = [ckpt EXCEPT ![r].pending = q]
    BY <1>r, <1>3, <2>1, <2>2 DEF Stage
  <2>5. /\ ckpt'[r].pending = q /\ ckpt'[r].committed = ckpt[r].committed
        /\ \A k \in Resources : k # r => ckpt'[k] = ckpt[k]
    BY <1>0, <2>4 DEF Checkpoints
  <2>6. Stands(r) /\ Alternates(accepted[r])
    BY <1>0, <2>1 DEF RowOK
  <2>7. ~Queued(r, q)
    BY <1>2, <2>3 DEF Queued, Used
  <2>8. q.health = IF Last(accepted[r]) = "up" THEN "down" ELSE "up"
    <3>1. Last(accepted[r]) \in {"up", "down"}
      BY <1>0, LastType
    <3>2. CASE ckpt[r].committed = "none"
      <4>1. accepted[r] = << >>
        BY <2>6, <3>1, <3>2 DEF Stands
      <4>2. q.health = "down"
        BY <1>3, <2>1, <2>3, <3>2 DEF Emits
      <4>3. QED BY <4>1, <4>2 DEF Last
    <3>3. CASE ckpt[r].committed # "none"
      <4>1. ckpt[r].committed = Last(accepted[r]) /\ ckpt[r].committed # q.health
        BY <1>3, <2>1, <2>3, <2>6, <3>3 DEF Stands, Emits
      <4>2. QED BY <2>3, <3>1, <4>1
    <3>4. QED BY <3>2, <3>3
  <2>9. RowOK(r)'
    <3>1. Stands(r)'
      BY <1>0, <2>5, <2>6 DEF Stands
    <3>2. ~Queued(r, q)'
      BY <1>0, <2>7 DEF Queued
    <3>3. QED BY <1>0, <2>3, <2>5, <2>6, <2>8, <3>1, <3>2 DEF RowOK
  <2>10. ASSUME NEW t \in Nat, Used(r, t)' PROVE Used(r, t) \/ t = started[e]
    BY <1>0, <2>3, <2>5, <2>10 DEF Used
  <2>11. ASSUME NEW k \in Resources, k # r
         PROVE  RowOK(k)' /\ \A t \in Nat : Used(k, t)' => Used(k, t)
    BY <1>0, <2>5, <2>11, SameRow DEF Rows
  <2>12. QED BY <1>r, <2>9, <2>10, <2>11 DEF Rows
<1>4. CASE ~Emits(e, r)
  <2>1. ckpt' = ckpt
    BY <1>r, <1>4 DEF Stage
  <2>2. QED BY <1>0, <2>1, SameRow DEF Rows
<1>5. QED BY <1>3, <1>4

\* One execution, past reading its clock, moves on or ends.
LEMMA MoveMinutes ==
    ASSUME IInv, DataTypeOK, MinutesOK, NEW e \in Executions,
           UNCHANGED <<now, lastStart>>, NothingUsed,
           pc'[e] \in Running => /\ pc[e] \in Running \ {"scheduled"} /\ pc'[e] # "scheduled"
                                 /\ started'[e] = started[e] /\ clock'[e] = clock[e]
                                 /\ \A r \in Resources : NotYet(e, r)' => NotYet(e, r),
           \A d \in Executions : d # e => /\ pc'[d] = pc[d] /\ started'[d] = started[d]
                                          /\ clock'[d] = clock[d] /\ loop'[d] = loop[d]
    PROVE  MinutesOK'
<1>1. /\ now \in Int /\ now' \in Int /\ lastStart \in Int /\ now <= now' /\ lastStart' = lastStart
      /\ \A d \in Executions : started[d] \in Nat
  BY DEF IInv, LeaseTypeOK, DataTypeOK
<1>2. ASSUME NEW d \in Executions, pc'[d] \in Running
      PROVE  /\ pc[d] \in Running /\ started'[d] = started[d] /\ started[d] \in Nat
             /\ pc'[d] # "scheduled" => clock'[d] = started[d]
             /\ \A r \in Resources : NotYet(d, r)' => NotYet(d, r)
  <2>1. CASE d = e
    BY <1>1, <1>2, <2>1 DEF MinutesOK, Timely
  <2>2. CASE d # e
    <3>1. \A r \in Resources : NotYet(d, r)' => NotYet(d, r)
      BY <2>2 DEF NotYet
    <3>2. QED BY <1>1, <1>2, <2>2, <3>1 DEF MinutesOK, Timely
  <2>3. QED BY <2>1, <2>2
<1>3. QED BY <1>1, <1>2, MinutesFrame DEF NothingUsed

\* An execution starts in a minute in which none was started before.
LEMMA StartMinutes ==
    ASSUME IInv, DataTypeOK, MinutesOK, NEW e \in Executions, Start(e)
    PROVE  MinutesOK'
<1>1. /\ pc'[e] = "scheduled" /\ started'[e] = now /\ lastStart' = now /\ now' = now
      /\ now \in Nat /\ lastStart \in Int /\ lastStart < now /\ now % Minute = 0
      /\ UNCHANGED <<ckpt, accepted, clock, loop>>
      /\ \A d \in Executions : d # e => pc'[d] = pc[d] /\ started'[d] = started[d]
      /\ \A d \in Executions : started[d] \in Nat
  BY DEF Start, tables, IInv, LeaseTypeOK, DataTypeOK, MinutesOK
<1>2. \A r \in Resources, t \in Nat : Used(r, t)' <=> Used(r, t)
  BY <1>1 DEF Used
<1>3. \A r \in Resources, t \in Nat : Used(r, t)' => t <= lastStart
  BY <1>2 DEF MinutesOK
<1>4. \A d \in Executions : d # e /\ pc'[d] \in Running => Timely(d) /\ started'[d] <= lastStart
  BY <1>1 DEF MinutesOK, Timely
<1>5. Timely(e)'
  <2>1. ASSUME NEW d \in Executions, pc'[d] \in Running, started'[d] = started'[e] PROVE d = e
    BY <1>1, <1>4, <2>1
  <2>2. ASSUME NEW r \in Resources PROVE ~Used(r, started[e])'
    <3>1. PICK m \in Nat : m = now
      BY <1>1
    <3>2. ~Used(r, m)'
      BY <1>1, <1>3, <3>1
    <3>3. QED BY <1>1, <3>1, <3>2 DEF Used
  <2>3. QED BY <1>1, <2>1, <2>2 DEF Timely
<1>6. ASSUME NEW d \in Executions, d # e, pc'[d] \in Running PROVE Timely(d)'
  <2>1. /\ Timely(d) /\ started'[d] = started[d] /\ started[d] \in Nat /\ started[d] <= lastStart
        /\ pc'[d] = pc[d]
    BY <1>1, <1>4, <1>6
  <2>2. started'[d] <= lastStart' /\ started'[d] % Minute = 0
        /\ (pc'[d] # "scheduled" => clock'[d] = started'[d])
    BY <1>1, <2>1 DEF Timely
  <2>3. ASSUME NEW c \in Executions, pc'[c] \in Running, started'[c] = started'[d] PROVE c = d
    BY <1>1, <2>1, <2>3 DEF Timely
  <2>4. ASSUME NEW r \in Resources, NotYet(d, r)' PROVE ~Used(r, started[d])'
    <3>1. PICK m \in Nat : m = started[d]
      BY <2>1
    <3>2. NotYet(d, r)
      BY <1>1, <2>1, <2>4 DEF NotYet
    <3>3. ~Used(r, m)
      BY <2>1, <3>1, <3>2 DEF Timely
    <3>4. ~Used(r, m)'
      BY <1>2, <3>3
    <3>5. QED BY <2>1, <3>1, <3>4 DEF Used
  <2>5. QED BY <2>2, <2>3, <2>4 DEF Timely
<1>7. /\ lastStart' <= now'
      /\ \A r \in Resources, t \in Nat : Used(r, t)' => t <= lastStart'
  BY <1>1, <1>3
<1>8. QED BY <1>5, <1>6, <1>7 DEF MinutesOK

\* stage_transition uses the execution's own minute, once for each resource.
LEMMA StageMinutes ==
    ASSUME IInv, LoopInv, Rows, MinutesOK, NEW e \in Executions, Stage(e)
    PROVE  MinutesOK'
<1>r. PICK r : r = loop[e].at
  OBVIOUS
<1>0. /\ DataTypeOK /\ LoopOK(e) /\ r \in Resources /\ pc[e] = "staging" /\ pc[e] \in Running
      /\ UNCHANGED <<now, lastStart, started, clock>> /\ Loaded(e, r)
      /\ now \in Nat /\ lastStart \in Int /\ \A d \in Executions : started[d] \in Nat
  <2>1. DataTypeOK /\ LoopOK(e) /\ pc[e] = "staging" /\ r \in Resources /\ r \in Int
    BY <1>r, NextAtFacts DEF LoopInv, Stage
  <2>2. Loaded(e, r)
    BY <1>r, <2>1 DEF LoopOK
  <2>3. UNCHANGED <<now, lastStart, started, clock>>
    BY DEF Stage, environment, Goto, NextResource
  <2>4. QED BY <2>1, <2>2, <2>3 DEF IInv, LeaseTypeOK, DataTypeOK, Running, Holding
<1>1. \A k \in Resources, t \in Nat : Used(k, t)' => Used(k, t) \/ (k = r /\ t = started[e])
  BY <1>r, StageRow
<1>2. Timely(e)
  BY <1>0 DEF MinutesOK
<1>3. Advance(e) /\ NextResource(e, "staging", "initializing")
  <2>1. ~(Emits(e, r) /\ ckpt[r].pending # NoRequest)
    BY <1>0 DEF Loaded, Emits
  <2>2. QED BY <1>r, <2>1 DEF Stage, Advance
<1>4. /\ pc'[e] = "staging" => loop'[e].at = r + 1
      /\ pc'[e] \in {"staging", "initializing"}
      /\ \A d \in Executions : d # e => pc'[d] = pc[d] /\ loop'[d] = loop[d]
  <2>1. PICK l \in Loops : /\ loop' = [loop EXCEPT ![e] = l] /\ loop'[e] = l /\ l.at = NextAt(e)
    BY <1>0, <1>3, AdvanceFacts
  <2>2. /\ pc'[e] = "staging" => r < NumResources
        /\ pc'[e] \in {"staging", "initializing"}
        /\ \A d \in Executions : d # e => pc'[d] = pc[d]
    BY <1>r, <1>3 DEF NextResource, Goto, IInv, LeaseTypeOK
  <2>3. r < NumResources => NextAt(e) = r + 1
    BY <1>r, <1>0, NextAtFacts
  <2>4. QED BY <1>0, <2>1, <2>2, <2>3 DEF DataTypeOK
<1>5. \A d \in Executions : pc'[d] \in Running => pc[d] \in Running
  BY <1>0, <1>4
<1>6. ASSUME NEW d \in Executions, pc'[d] \in Running PROVE Timely(d)'
  <2>1. /\ Timely(d) /\ started'[d] = started[d] /\ started[d] \in Nat
    BY <1>0, <1>5, <1>6 DEF MinutesOK
  <2>2. started'[d] <= lastStart' /\ started'[d] % Minute = 0
    BY <1>0, <2>1 DEF Timely
  <2>3. pc'[d] # "scheduled" => clock'[d] = started'[d]
    BY <1>0, <1>4, <2>1 DEF Timely
  <2>4. ASSUME NEW c \in Executions, pc'[c] \in Running, started'[c] = started'[d] PROVE c = d
    BY <1>0, <1>5, <2>1, <2>4 DEF Timely
  <2>5. ASSUME NEW k \in Resources, NotYet(d, k)' PROVE ~Used(k, started[d])'
    <3>1. PICK m \in Nat : m = started[d]
      BY <2>1
    <3>2. CASE d = e
      <4>1. pc'[e] = "staging" /\ k >= r + 1
        BY <1>4, <2>5, <3>2 DEF NotYet, Starting
      <4>2. NotYet(e, k) /\ k # r
        BY <1>r, <1>0, <4>1, NextAtFacts DEF NotYet
      <4>3. ~Used(k, m)
        BY <2>1, <3>1, <3>2, <4>2 DEF Timely
      <4>4. ~Used(k, m)'
        BY <1>1, <4>2, <4>3
      <4>5. QED BY <2>1, <3>1, <4>4 DEF Used
    <3>3. CASE d # e
      <4>1. NotYet(d, k)
        BY <1>4, <2>5, <3>3 DEF NotYet
      <4>2. ~Used(k, m)
        BY <2>1, <3>1, <4>1 DEF Timely
      <4>3. m # started[e]
        BY <1>0, <1>2, <1>5, <1>6, <3>1, <3>3 DEF Timely
      <4>4. ~Used(k, m)'
        BY <1>1, <4>2, <4>3
      <4>5. QED BY <2>1, <3>1, <4>4 DEF Used
    <3>4. QED BY <3>2, <3>3
  <2>6. QED BY <2>2, <2>3, <2>4, <2>5 DEF Timely
<1>7. \A k \in Resources, t \in Nat : Used(k, t)' => t <= lastStart'
  BY <1>0, <1>1, <1>2 DEF MinutesOK, Timely
<1>8. lastStart' <= now'
  BY <1>0 DEF MinutesOK
<1>9. QED BY <1>6, <1>7, <1>8 DEF MinutesOK

\* Steps that change no row.
LEMMA RowsFrame ==
    ASSUME Rows, UNCHANGED <<ckpt, accepted>>
    PROVE  Rows' /\ NothingUsed
BY SameRow DEF Rows, NothingUsed

LEMMA EndMinutes ==
    ASSUME IInv, DataTypeOK, MinutesOK, NothingUsed, NEW e \in Executions, End(e),
           UNCHANGED environment
    PROVE  MinutesOK'
<1>1. UNCHANGED <<now, lastStart>>
  BY DEF environment
<1>2. pc'[e] \notin Running
  BY DEF End, IInv, LeaseTypeOK, Running, Holding, Starting
<1>3. \A d \in Executions : d # e => /\ pc'[d] = pc[d] /\ started'[d] = started[d]
                                     /\ clock'[d] = clock[d] /\ loop'[d] = loop[d]
  BY DEF End, IInv, LeaseTypeOK, DataTypeOK
<1>4. QED BY <1>1, <1>2, <1>3, MoveMinutes

\* One execution goes to another label.
LEMMA GotoMinutes ==
    ASSUME IInv, DataTypeOK, MinutesOK, NothingUsed, NEW e \in Executions,
           pc[e] \in Running \ {"scheduled"}, UNCHANGED environment,
           NEW p \in Running \ {"scheduled"}, Goto(e, p),
           \/ pc[e] \in Starting
           \/ pc[e] \in {"resuming", "recommitting"}
           \/ pc[e] = "observing"
           \/ p \notin Starting \cup {"resuming", "recommitting", "observing", "staging"},
           \A d \in Executions : d # e => loop'[d] = loop[d]
    PROVE  MinutesOK'
<1>1. UNCHANGED <<now, lastStart, started, clock>>
  BY DEF environment, Goto
<1>2. pc'[e] = p /\ \A d \in Executions : d # e => pc'[d] = pc[d]
  BY DEF Goto, IInv, LeaseTypeOK
<1>3. \A r \in Resources : NotYet(e, r)' => NotYet(e, r)
  BY <1>2 DEF NotYet
<1>4. QED BY <1>1, <1>2, <1>3, MoveMinutes

LEMMA OtherLoops ==
    ASSUME DataTypeOK, NEW e \in Executions,
           \/ Resume(e) \/ Recommit(e) \/ Observe(e) \/ RecordInitial(e) \/ SendStaged(e)
           \/ Commit(e) \/ Fail(e)
    PROVE  \A d \in Executions : d # e => loop'[d] = loop[d]
<1>1. loop \in [Executions -> Loops]
  BY DEF DataTypeOK
<1>2. CASE Resume(e)
  BY <1>1, <1>2 DEF Resume
<1>3. CASE Recommit(e) \/ Commit(e)
  BY <1>1, <1>3 DEF Recommit, Commit, CompleteTransition
<1>4. CASE Observe(e)
  BY <1>1, <1>4 DEF Observe
<1>5. CASE RecordInitial(e) \/ SendStaged(e) \/ Fail(e)
  BY <1>1, <1>5 DEF RecordInitial, SendStaged, Fail
<1>6. QED BY <1>2, <1>3, <1>4, <1>5

LEMMA QueueInvStep ==
    ASSUME StartDelay < Minute, IInv, LoopInv, QueueInv, [Next]_vars
    PROVE  QueueInv'
<1>0. /\ MinutesOK /\ Rows /\ DataTypeOK /\ now \in Nat /\ lastStart \in Int
      /\ \A d \in Executions : started[d] \in Nat
  BY DEF QueueInv, LoopInv, DataTypeOK, IInv, LeaseTypeOK
<1>a. {"resuming", "recommitting", "observing", "staging", "initializing", "sending",
       "committing", "releasing", "creating", "reading", "claiming"} \subseteq Running \ {"scheduled"}
  BY DEF Running, Holding, Starting
<1>b. /\ "creating" \in Starting /\ "reading" \in Starting /\ "claiming" \in Starting
      /\ {"initializing", "sending", "committing", "releasing"} \cap
            (Starting \cup {"resuming", "recommitting", "observing", "staging"}) = {}
  BY DEF Starting
<1>1. ASSUME UNCHANGED <<ckpt, accepted, pc, started, clock, loop, lastStart>>, now' \in Nat,
             now <= now'
      PROVE  QueueInv'
  <2>1. Rows' /\ NothingUsed
    BY <1>0, <1>1, RowsFrame
  <2>2. \A e \in Executions : pc'[e] \in Running =>
           /\ pc[e] \in Running /\ started'[e] = started[e] /\ started[e] \in Nat
           /\ pc'[e] # "scheduled" => clock'[e] = started[e]
           /\ \A r \in Resources : NotYet(e, r)' => NotYet(e, r)
    BY <1>0, <1>1 DEF MinutesOK, Timely, NotYet
  <2>3. now \in Int /\ now' \in Int /\ lastStart' = lastStart
    BY <1>0, <1>1
  <2>4. MinutesOK'
    BY <1>0, <1>1, <2>1, <2>2, <2>3, MinutesFrame DEF NothingUsed
  <2>5. QED BY <2>1, <2>4 DEF QueueInv
<1>2. CASE UNCHANGED vars
  BY <1>0, <1>1, <1>2 DEF vars, environment, tables
<1>3. CASE Tick
  BY <1>0, <1>1, <1>3 DEF Tick, tables
<1>4. ASSUME NEW r \in Resources, ChangeHealth(r) PROVE QueueInv'
  BY <1>0, <1>1, <1>4 DEF ChangeHealth, tables
<1>5. ASSUME NEW e \in Executions, Start(e) PROVE QueueInv'
  <2>1. Rows'
    BY <1>0, <1>5, RowsFrame DEF Start, tables
  <2>2. QED BY <1>0, <1>5, <2>1, StartMinutes DEF QueueInv
<1>6. ASSUME NEW e \in Executions, End(e), UNCHANGED <<environment, ckpt, accepted>> PROVE QueueInv'
  <2>1. Rows' /\ NothingUsed
    BY <1>0, <1>6, RowsFrame
  <2>2. QED BY <1>0, <1>6, <2>1, EndMinutes DEF QueueInv
<1>7. ASSUME NEW e \in Executions, Stop(e) \/ ReleaseLease(e) PROVE QueueInv'
  BY <1>6, <1>7 DEF Stop, ReleaseLease, tables
<1>8. ASSUME NEW e \in Executions, ReadClock(e) PROVE QueueInv'
  <2>1. /\ pc[e] = "scheduled" /\ pc'[e] = "creating" /\ clock'[e] = Truncate(now)
        /\ UNCHANGED <<now, lastStart, started, ckpt, accepted, loop>>
        /\ now <= started[e] + StartDelay
        /\ \A d \in Executions : d # e => pc'[d] = pc[d] /\ clock'[d] = clock[d]
    BY <1>8 DEF ReadClock, environment, tables, IInv, LeaseTypeOK
  <2>2. pc[e] \in Running
    BY <2>1 DEF Running, Starting
  <2>3. started[e] <= now /\ started[e] % Minute = 0
    BY <1>0, <2>2 DEF MinutesOK, Timely, IInv, RunsAreTimely
  <2>4. now < started[e] + Minute
    BY <1>0, <2>1, TimeAssumption
  <2>5. Truncate(now) = started[e]
    BY <1>0, <2>3, <2>4, TruncateInMinute
  <2>6. Rows' /\ NothingUsed
    BY <1>0, <2>1, RowsFrame
  <2>7. \A d \in Executions : pc'[d] \in Running =>
           /\ pc[d] \in Running /\ started'[d] = started[d] /\ started[d] \in Nat
           /\ pc'[d] # "scheduled" => clock'[d] = started[d]
           /\ \A r \in Resources : NotYet(d, r)' => NotYet(d, r)
    <3>1. ASSUME NEW d \in Executions, pc'[d] \in Running
          PROVE  /\ pc[d] \in Running /\ started'[d] = started[d] /\ started[d] \in Nat
                 /\ pc'[d] # "scheduled" => clock'[d] = started[d]
                 /\ \A r \in Resources : NotYet(d, r)' => NotYet(d, r)
      <4>1. CASE d = e
        BY <1>0, <2>1, <2>2, <2>5, <4>1 DEF NotYet, Starting
      <4>2. CASE d # e
        <5>1. \A r \in Resources : NotYet(d, r)' => NotYet(d, r)
          BY <2>1, <4>2 DEF NotYet
        <5>2. QED BY <1>0, <2>1, <3>1, <4>2, <5>1 DEF MinutesOK, Timely
      <4>3. QED BY <4>1, <4>2
    <3>2. QED BY <3>1
  <2>8. now \in Int /\ now' \in Int /\ now <= now' /\ lastStart' = lastStart
    BY <1>0, <2>1
  <2>9. MinutesOK'
    BY <1>0, <2>6, <2>7, <2>8, MinutesFrame DEF NothingUsed
  <2>10. QED BY <2>6, <2>9 DEF QueueInv
<1>9. ASSUME NEW e \in Executions, pc[e] \in Starting \ {"scheduled"}, UNCHANGED environment,
             UNCHANGED <<ckpt, accepted, loop>>, NEW p \in {"reading", "claiming", "resuming"},
             Goto(e, p)
      PROVE  QueueInv'
  <2>1. Rows' /\ NothingUsed
    BY <1>0, <1>9, RowsFrame
  <2>2. pc[e] \in Running \ {"scheduled"} /\ p \in Running \ {"scheduled"}
    BY <1>9, <1>a DEF Running
  <2>3. MinutesOK'
    BY <1>0, <1>9, <2>1, <2>2, GotoMinutes
  <2>4. QED BY <2>1, <2>3 DEF QueueInv
<1>10. ASSUME NEW e \in Executions, CreateLease(e) PROVE QueueInv'
  <2>1. /\ pc[e] = "creating" /\ UNCHANGED environment /\ UNCHANGED <<ckpt, accepted, loop>>
        /\ Goto(e, "resuming") \/ Goto(e, "reading")
    BY <1>10 DEF CreateLease
  <2>2. QED BY <1>9, <1>b, <2>1
<1>11. ASSUME NEW e \in Executions, ReadLease(e) PROVE QueueInv'
  <2>1. CASE lease.owner = NoOwner \/ lease.expires > clock[e]
    BY <1>6, <1>11, <2>1 DEF ReadLease, tables
  <2>2. CASE ~(lease.owner = NoOwner \/ lease.expires > clock[e])
    <3>1. /\ pc[e] = "reading" /\ UNCHANGED environment /\ UNCHANGED <<ckpt, accepted, loop>>
          /\ Goto(e, "claiming")
      BY <1>11, <2>2 DEF ReadLease, tables
    <3>2. QED BY <1>9, <1>b, <3>1
  <2>3. QED BY <2>1, <2>2
<1>12. ASSUME NEW e \in Executions, ClaimLease(e) PROVE QueueInv'
  <2>1. CASE lease.owner # NoOwner /\ lease.etag = etag[e]
    <3>1. /\ pc[e] = "claiming" /\ UNCHANGED environment /\ UNCHANGED <<ckpt, accepted, loop>>
          /\ Goto(e, "resuming")
      BY <1>12, <2>1 DEF ClaimLease
    <3>2. QED BY <1>9, <1>b, <3>1
  <2>2. CASE ~(lease.owner # NoOwner /\ lease.etag = etag[e])
    BY <1>6, <1>12, <2>2 DEF ClaimLease
  <2>3. QED BY <2>1, <2>2
<1>13. ASSUME NEW e \in Executions, Rows', NothingUsed,
              Resume(e) \/ Recommit(e) \/ Observe(e) \/ RecordInitial(e) \/ SendStaged(e)
              \/ Commit(e) \/ Fail(e)
       PROVE  QueueInv'
  <2>1. UNCHANGED environment /\ \A d \in Executions : d # e => loop'[d] = loop[d]
    <3>1. UNCHANGED environment
      BY <1>13 DEF Resume, Recommit, Observe, RecordInitial, SendStaged, Commit, Fail,
                   CompleteTransition
    <3>2. QED BY <1>0, <1>13, <3>1, OtherLoops
  <2>2. \/ /\ pc[e] \in {"resuming", "recommitting"}
           /\ \E p \in {"resuming", "recommitting", "observing", "releasing", "conflict"} : Goto(e, p)
        \/ /\ pc[e] = "observing"
           /\ \E p \in {"observing", "staging", "releasing"} : Goto(e, p)
        \/ /\ pc[e] \in {"staging", "initializing", "sending", "committing"}
           /\ \E p \in {"initializing", "sending", "committing", "releasing", "conflict"} : Goto(e, p)
    BY <1>13 DEF Resume, Recommit, Observe, RecordInitial, SendStaged, Commit, Fail,
                 CompleteTransition, NextResource, Holding
  <2>3. "conflict" \in Running \ {"scheduled"}
        /\ "conflict" \notin Starting \cup {"resuming", "recommitting", "observing", "staging"}
    BY DEF Running, Holding, Starting
  <2>4. PICK p : /\ Goto(e, p) /\ p \in Running \ {"scheduled"} /\ pc[e] \in Running \ {"scheduled"}
                 /\ \/ pc[e] \in {"resuming", "recommitting"}
                    \/ pc[e] = "observing"
                    \/ p \notin Starting \cup {"resuming", "recommitting", "observing", "staging"}
    BY <1>a, <1>b, <2>2, <2>3
  <2>5. MinutesOK'
    BY <1>0, <1>13, <2>1, <2>4, GotoMinutes
  <2>6. QED BY <1>13, <2>5 DEF QueueInv
<1>14. ASSUME NEW e \in Executions, Observe(e) \/ Fail(e) PROVE QueueInv'
  <2>1. Rows' /\ NothingUsed
    BY <1>0, <1>14, RowsFrame DEF Observe, Fail, tables
  <2>2. QED BY <1>13, <1>14, <2>1
<1>15. ASSUME NEW e \in Executions, Resume(e) PROVE QueueInv'
  <2>1. PICK r \in Resources : r = loop[e].at
    BY <1>0, NextAtFacts
  <2>2. CASE ckpt[r].pending = NoRequest
    <3>1. UNCHANGED <<ckpt, accepted>>
      BY <1>15, <2>1, <2>2 DEF Resume
    <3>2. QED BY <1>0, <1>13, <1>15, <3>1, RowsFrame
  <2>3. CASE ckpt[r].pending # NoRequest
    <3>1. PICK q \in Requests : q = ckpt[r].pending
      BY <1>0, <2>3, PendingTypes
    <3>2. ckpt' = ckpt /\ Send(r, q)
      BY <1>15, <2>1, <2>3, <3>1 DEF Resume
    <3>3. Rows' /\ NothingUsed
      BY <1>0, <2>3, <3>1, <3>2, SendRow
    <3>4. QED BY <1>13, <1>15, <3>3
  <2>4. QED BY <2>2, <2>3
<1>16. ASSUME NEW e \in Executions, SendStaged(e) PROVE QueueInv'
  <2>1. PICK r \in Resources : r = loop[e].at
    BY <1>0, NextAtFacts
  <2>2. CASE ~Emits(e, r)
    <3>1. UNCHANGED <<ckpt, accepted>>
      BY <1>16, <2>1, <2>2 DEF SendStaged
    <3>2. QED BY <1>0, <1>13, <1>16, <3>1, RowsFrame
  <2>3. CASE Emits(e, r)
    <3>1. LoopOK(e) /\ pc[e] = "sending"
      BY <1>16 DEF LoopInv, SendStaged
    <3>2. Staged(e, r) /\ Seen(e, r)
      BY <1>0, <2>1, <3>1, NextAtFacts DEF LoopOK
    <3>3. PICK q \in Requests : q = Emitted(e, r) /\ q # NoRequest
      BY <1>0, <2>3, <3>2, EmittedType
    <3>4. ckpt[r].pending = q
      BY <2>3, <3>2, <3>3 DEF Staged
    <3>5. ckpt' = ckpt /\ Send(r, q)
      BY <1>16, <2>1, <2>3, <3>3 DEF SendStaged
    <3>6. Rows' /\ NothingUsed
      BY <1>0, <3>3, <3>4, <3>5, SendRow
    <3>7. QED BY <1>13, <1>16, <3>6
  <2>4. QED BY <2>2, <2>3
<1>17. ASSUME NEW e \in Executions, Recommit(e) PROVE QueueInv'
  <2>1. /\ CompleteTransition(e, "resuming", "observing") /\ pc[e] = "recommitting"
        /\ "resuming" \in Holding /\ "observing" \in Holding
    BY <1>17 DEF Recommit, Holding
  <2>2. Rows' /\ NothingUsed
    BY <1>0, <2>1, RecommitRequest, CompleteRow
  <2>3. QED BY <1>13, <1>17, <2>2
<1>18. ASSUME NEW e \in Executions, Commit(e) PROVE QueueInv'
  <2>1. /\ CompleteTransition(e, "sending", "releasing") /\ pc[e] = "committing"
        /\ "sending" \in Holding /\ "releasing" \in Holding
    BY <1>18 DEF Commit, Holding
  <2>2. Rows' /\ NothingUsed
    BY <1>0, <2>1, CommitRequest, CompleteRow
  <2>3. QED BY <1>13, <1>18, <2>2
<1>19. ASSUME NEW e \in Executions, RecordInitial(e) PROVE QueueInv'
  BY <1>0, <1>13, <1>19, RecordInitialRow
<1>20. ASSUME NEW e \in Executions, Stage(e) PROVE QueueInv'
  BY <1>0, <1>20, StageRow, StageMinutes DEF QueueInv
<1>21. QED
  BY <1>2, <1>3, <1>4, <1>5, <1>7, <1>8, <1>10, <1>11, <1>12, <1>14, <1>15, <1>16, <1>17, <1>18,
     <1>19, <1>20 DEF Next, Step

\* The queue follows the checkpoints, in every reachable state, if an execution
\* reads its clock in the minute it was started in.
THEOREM QueueInvariance ==
    ASSUME StartDelay < Minute
    PROVE  Spec => []QueueInv
<1>1. Init => QueueInv
  <2> SUFFICES ASSUME Init PROVE QueueInv
    OBVIOUS
  <2>1. /\ now = 0 /\ lastStart = -1 /\ \A e \in Executions : pc[e] = "waiting"
        /\ \A r \in Resources : /\ accepted[r] = << >> /\ ckpt[r].pending = NoRequest
                                /\ ckpt[r].committed = "none"
    BY DEF Init
  <2>2. "waiting" \notin Running
    BY DEF Running, Holding, Starting
  <2>3. \A r \in Resources, t \in Nat : ~Used(r, t)
    BY <2>1 DEF Used
  <2>4. MinutesOK
    BY <2>1, <2>2, <2>3 DEF MinutesOK
  <2>5. Rows
    BY <2>1 DEF Rows, RowOK, Stands, Alternates
  <2>6. QED BY <2>4, <2>5 DEF QueueInv
<1>2. IInv /\ LoopInv /\ QueueInv /\ [Next]_vars => QueueInv'
  BY QueueInvStep
<1>3. QED BY <1>1, <1>2, LeaseInvariance, LoopInvariance, PTL DEF Spec

\* The last request queued for a resource carries the committed health or is the
\* pending one, whatever crashed or failed.  The hypothesis is needed: the run
\* signal_detector_delayed shows what a later start does.
THEOREM QueueAlwaysFollows ==
    ASSUME StartDelay < Minute
    PROVE  Spec => []QueueFollowsCheckpoint
<1>1. QueueInv => QueueFollowsCheckpoint
  BY DEF QueueInv, Rows, RowOK, Stands, Last, LastQueued, QueueFollowsCheckpoint
<1>2. QED BY <1>1, QueueInvariance, PTL

\* The requests queued for a resource alternate between unhealthy and healthy.
THEOREM RequestsAlwaysAlternate ==
    ASSUME StartDelay < Minute
    PROVE  Spec => []RequestsAlternate
<1>1. QueueInv => RequestsAlternate
  BY DEF QueueInv, Rows, RowOK, Alternates, RequestsAlternate
<1>2. QED BY <1>1, QueueInvariance, PTL

=============================================================================
