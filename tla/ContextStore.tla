---------------------------- MODULE ContextStore ----------------------------
(***************************************************************************)
(* The durable store of the Context API                                    *)
(* (src/src/athena_context/api/durable.py) under several replicas.  All    *)
(* rows of a workload are in one table partition.  A transaction reads the *)
(* whole partition page by page, verifies it against the anchor in the     *)
(* state row, lets _mutate work on what it read, and writes the result as  *)
(* one batch that is conditional on the rows read.                         *)
(*                                                                         *)
(* A replica runs one transaction at a time (its transaction lock), so     *)
(* replicas stand for the concurrency there is.  The digests of the anchor *)
(* are injective: an anchor is the rows it was computed over.  A command   *)
(* stands for its idempotency key: the same command under a second key     *)
(* would only be refused where this one is replayed.  The audit chain is   *)
(* kept as the trail of each draft and the sequence number of its tail.    *)
(***************************************************************************)
EXTENDS ContextMutations, Functions

CONSTANTS
    Replicas,      \* processes of the Context API
    MaxGeneration, \* bound: commits
    MaxOpen,       \* bound: commands clients have open at a time
    MaxTries,      \* bound: times a client sends one command
    Races,         \* bound: generations at which there may be more than one command,
                   \*   try or transaction
    MaxEntities,   \* rows a partition may have
    NoAnswer

ASSUME StoreAssumption ==
    /\ MaxGeneration \in Nat /\ MaxEntities \in Nat \ {0} /\ MaxTries \in Nat

VARIABLES
    part,      \* the rows of the partition
    tries,     \* per command a client waits for, how often it was sent
    answer,    \* the result the last step gave to a client
    rep        \* per replica, its transaction

vars == <<part, tries, answer, rep>>

-----------------------------------------------------------------------------
(* Rows *)

\* A row joins those of its kind.
With(f, key, row) == [k \in DOMAIN f \cup {key} |-> IF k = key THEN row ELSE f[k]]

\* The rows in the order of their row keys, by kind; generation and anchor are
\* columns of the state row.
Rank == [audit |-> 1, tail |-> 1, drafts |-> 2, gen |-> 3, anchor |-> 3, opReceipts |-> 4, published |-> 5,
         receipts |-> 6, superseded |-> 7]

\* _partition_anchor
Anchor(p) ==
    [audit |-> p.audit, tail |-> p.tail, drafts |-> p.drafts, gen |-> p.gen, opReceipts |-> p.opReceipts,
     published |-> p.published, receipts |-> p.receipts, superseded |-> p.superseded]

Anchored(p) == [f \in DOMAIN p \cup {"anchor"} |-> IF f = "anchor" THEN Anchor(p) ELSE p[f]]

\* The partition before it has a state row.
NoPartition == [gen |-> 0]

\* What initialize_empty_partition writes: the state row alone.
Root ==
    Anchored([audit |-> [d \in DraftIds |-> <<>>], tail |-> 0, drafts |-> EmptyContext.drafts, gen |-> 1,
              opReceipts |-> EmptyContext.opReceipts, published |-> EmptyContext.published,
              receipts |-> <<>>, superseded |-> EmptyContext.superseded])

\* The models of a partition.
Context(p) ==
    IF p = NoPartition THEN EmptyContext
    ELSE [drafts |-> p.drafts, opReceipts |-> p.opReceipts, published |-> p.published,
          superseded |-> p.superseded]

RowCount(p) ==
    p.tail + Cardinality(Open(p)) + 1 + Cardinality(p.opReceipts)
      + Cardinality(Published(p)) + Cardinality(DOMAIN p.receipts)
      + Cardinality({v \in Versions : p.superseded[v] # NoVersion})

\* _load_partition: the rows up to a page boundary are older than the others.
Read(old, new, boundary) == [f \in DOMAIN new |-> IF Rank[f] <= boundary THEN old[f] ELSE new[f]]

\* Defect: the anchor is not compared with the rows.
VerifiedByChain(p) == RowCount(p) <= MaxEntities

\* _load_partition, _verify_state_anchor
Verified(p) == RowCount(p) <= MaxEntities /\ p.anchor = Anchor(p)

-----------------------------------------------------------------------------
(* The mutation of a command *)

\* The closures of service.py; the last conjunct of each bounds the model.
Accepts(c, r) ==
    CASE r.op = "create" -> MayCreate(c, r)
      [] r.op = "replace" -> MayReplace(c, r) /\ Detours(Replace(c, r)) <= MaxDetours
      [] r.op = "validate" -> MayValidate(c, r)
      [] r.op = "submit" -> MaySubmit(c, r)
      [] r.op = "review" -> MayReview(c, r) /\ Detours(Review(c, r)) <= MaxDetours
      [] r.op = "issue" -> MayIssue(c, r) /\ Cardinality(ReceiptsOf(c, r.draft)) < MaxReceipts
      [] r.op = "approve" -> MayApprove(c, r)
      [] r.op = "publish" -> MayPublish(c, r)
      [] r.op = "supersede" -> MaySupersede(c, r)

Result(c, r) ==
    CASE r.op = "create" -> Create(c, r)
      [] r.op = "replace" -> Replace(c, r)
      [] r.op = "validate" -> Validate(c, r)
      [] r.op = "submit" -> Submit(c, r)
      [] r.op = "review" -> Review(c, r)
      [] r.op = "issue" -> Issue(c, r)
      [] r.op = "approve" -> Approve(c, r)
      [] r.op = "publish" -> Publish(c, r)
      [] r.op = "supersede" -> Supersede(c, r)

Requests(c) ==
    UNION {CreateRequests(c), ReplaceRequests(c), PlainRequests(c, "validate"),
           PlainRequests(c, "submit"), ReviewRequests(c), IssueRequests(c), ApproveRequests(c),
           PublishRequests(c), SupersedeRequests(c)}

\* What the response names of the outcome: the draft as the mutation left it.
Response(c, r) ==
    [draft |-> r.draft, revision |-> c.drafts[r.draft].revision,
     manifest |-> c.drafts[r.draft].manifest]

\* What the audit event of a mutation with that response names.
Event(op, response) ==
    [op |-> op, draft |-> response.draft, revision |-> response.revision,
     manifest |-> response.manifest]

\* Every mutation appends one audit event, except the issue of a receipt.
AuditEvents(c, r) == IF r.op = "issue" THEN <<>> ELSE <<Event(r.op, Response(c, r))>>

\* The rows _commit means to leave, for command r on the rows p.
After(p, r) ==
    LET c == Result(Context(p), r) IN
    Anchored([audit |-> [p.audit EXCEPT ![r.draft] = @ \o AuditEvents(c, r)],
              tail |-> p.tail + Len(AuditEvents(c, r)), drafts |-> c.drafts, gen |-> p.gen + 1,
              opReceipts |-> c.opReceipts, published |-> c.published,
              receipts |-> With(p.receipts, r, Response(c, r)),
              superseded |-> c.superseded])

\* Defect: the batch is conditional on the draft, audit and receipt rows alone.
BatchWithoutStateRow(p, s, r) ==
    /\ p.drafts[r.draft] = s.drafts[r.draft]
    /\ r.op # "issue" => p.tail = s.tail
    /\ r \notin DOMAIN p.receipts

\* submit_transaction: the draft row and the state row have the ETags read, and
\* the rows to be created are not there yet.
BatchApplies(p, s, r) ==
    /\ p.gen = s.gen
    /\ p.drafts[r.draft] = s.drafts[r.draft]
    /\ r.op # "issue" => p.tail = s.tail
    /\ r \notin DOMAIN p.receipts

\* The rows of the batch replace or join those of the partition: one draft, the
\* state row, and the new audit, receipt and version rows.
Written(p, s, r) ==
    LET a == After(s, r) IN
    [a EXCEPT !.drafts = [p.drafts EXCEPT ![r.draft] = a.drafts[r.draft]],
              !.audit = [p.audit EXCEPT ![r.draft] = a.audit[r.draft]],
              !.opReceipts = p.opReceipts \cup (a.opReceipts \ s.opReceipts),
              !.published = [v \in Versions |-> IF a.published[v] = s.published[v]
                                                THEN p.published[v] ELSE a.published[v]],
              !.superseded = [v \in Versions |-> IF a.superseded[v] = s.superseded[v]
                                                 THEN p.superseded[v] ELSE a.superseded[v]],
              !.receipts = With(p.receipts, r, a.receipts[r])]

-----------------------------------------------------------------------------
(* Replicas *)

Idle == [pc |-> "idle"]

\* The bound n where races are wanted.
Within(n) == IF part.gen \in Races THEN n ELSE 1

\* The client is done with the command.
Close(r) == tries' = Restrict(tries, DOMAIN tries \ {r})

Init ==
    /\ part = NoPartition
    /\ tries = <<>>
    /\ answer = NoAnswer
    /\ rep = [x \in Replicas |-> Idle]

\* initialize_empty_partition: the read of the partition, and the create of the
\* state row, which fails when a concurrent bootstrap was first.
BootstrapRead(x) ==
    /\ rep[x] = Idle
    /\ part = NoPartition
    /\ rep' = [rep EXCEPT ![x] = [pc |-> "bootstrap"]]
    /\ answer' = NoAnswer
    /\ UNCHANGED <<part, tries>>

BootstrapCreate(x) ==
    /\ rep[x].pc = "bootstrap"
    /\ part' = IF part = NoPartition THEN Root ELSE part
    /\ rep' = [rep EXCEPT ![x] = Idle]
    /\ answer' = NoAnswer
    /\ UNCHANGED tries

\* A client decides on a command that the context it has read permits.
Send(r) ==
    /\ part # NoPartition /\ part.gen < MaxGeneration
    /\ Cardinality(DOMAIN tries) < Within(MaxOpen)
    /\ r \notin DOMAIN tries
    /\ Accepts(Context(part), r)
    /\ tries' = With(tries, r, 0)
    /\ answer' = NoAnswer
    /\ UNCHANGED <<part, rep>>

\* A client without an answer, or with a conflict, gives up after its last try.
Abandon(r) ==
    /\ tries[r] >= Within(MaxTries)
    /\ Close(r)
    /\ answer' = NoAnswer
    /\ UNCHANGED <<part, rep>>

\* The command reaches a replica, for the first time or again while an earlier
\* attempt may still run; __enter__ reads the first page.
Enter(x, r) ==
    /\ rep[x] = Idle
    /\ Cardinality({y \in Replicas : rep[y] # Idle}) < Within(Cardinality(Replicas))
    /\ tries[r] < Within(MaxTries)
    /\ tries' = [tries EXCEPT ![r] = @ + 1]
    /\ rep' = [rep EXCEPT ![x] = [pc |-> "reading", request |-> r, page |-> part]]
    /\ answer' = NoAnswer
    /\ UNCHANGED part

\* The remaining pages, then _load_models: what does not match its anchor
\* raises, and the client may try again.
Load(x) ==
    /\ rep[x].pc = "reading"
    /\ \E boundary \in 0 .. 7 :
         LET s == Read(rep[x].page, part, boundary) IN
         rep' = [rep EXCEPT ![x] =
                   IF Verified(s)
                   THEN [pc |-> "mutating", request |-> rep[x].request, snap |-> s]
                   ELSE Idle]
    /\ answer' = NoAnswer
    /\ UNCHANGED <<part, tries>>

\* _mutate meets the receipt of an earlier attempt and repeats its response.
Replay(x) ==
    LET s == rep[x].snap
        r == rep[x].request
    IN
    /\ rep[x].pc = "mutating"
    /\ r \in DOMAIN s.receipts
    /\ answer' = [request |-> r, response |-> s.receipts[r]]
    /\ Close(r)
    /\ rep' = [rep EXCEPT ![x] = Idle]
    /\ UNCHANGED part

\* The mutation raises, or its rows would exceed the bound of the partition.
Refuse(x) ==
    LET s == rep[x].snap
        r == rep[x].request
    IN
    /\ rep[x].pc = "mutating"
    /\ r \notin DOMAIN s.receipts
    /\ \/ ~ Accepts(Context(s), r)
       \/ RowCount(After(s, r)) > MaxEntities
    /\ answer' = NoAnswer
    /\ Close(r)
    /\ rep' = [rep EXCEPT ![x] = Idle]
    /\ UNCHANGED part

\* Defect: a conflict is taken for success.
CommitIgnoresConflict(x) ==
    LET s == rep[x].snap
        r == rep[x].request
    IN
    /\ rep[x].pc = "mutating"
    /\ r \notin DOMAIN s.receipts
    /\ Accepts(Context(s), r)
    /\ RowCount(After(s, r)) <= MaxEntities
    /\ part' = IF BatchApplies(part, s, r) THEN Written(part, s, r) ELSE part
    /\ answer' = [request |-> r, response |-> Response(After(s, r), r)]
    /\ Close(r)
    /\ rep' = [rep EXCEPT ![x] = Idle]

\* Defect: the rows are written over whatever is there, with a matching anchor.
CommitUnchecked(x) ==
    LET s == rep[x].snap
        r == rep[x].request
    IN
    /\ rep[x].pc = "mutating"
    /\ r \notin DOMAIN s.receipts
    /\ Accepts(Context(s), r)
    /\ part' = Anchored(Written(part, s, r))
    /\ answer' = [request |-> r, response |-> Response(After(s, r), r)]
    /\ Close(r)
    /\ rep' = [rep EXCEPT ![x] = Idle]

\* The mutation succeeds on what was read and __exit__ submits the batch; its
\* answer may be lost on the way to the client.  A batch that does not apply
\* changes nothing and raises PersistenceConflictError.
Commit(x) ==
    LET s == rep[x].snap
        r == rep[x].request
    IN
    /\ rep[x].pc = "mutating"
    /\ r \notin DOMAIN s.receipts
    /\ Accepts(Context(s), r)
    /\ RowCount(After(s, r)) <= MaxEntities
    /\ \/ /\ BatchApplies(part, s, r)
          /\ part' = Written(part, s, r)
          /\ answer' = [request |-> r, response |-> Response(After(s, r), r)]
          /\ Close(r)
       \/ /\ BatchApplies(part, s, r)
          /\ part' = Written(part, s, r)
          /\ answer' = NoAnswer
          /\ UNCHANGED tries
       \/ /\ ~ BatchApplies(part, s, r)
          /\ answer' = NoAnswer
          /\ UNCHANGED <<part, tries>>
    /\ rep' = [rep EXCEPT ![x] = Idle]

\* The replica stops, or a call fails, before the batch is submitted.
Crash(x) ==
    /\ rep[x] # Idle
    /\ rep' = [rep EXCEPT ![x] = Idle]
    /\ answer' = NoAnswer
    /\ UNCHANGED <<part, tries>>

Next ==
    \/ \E x \in Replicas :
         \/ BootstrapRead(x) \/ BootstrapCreate(x) \/ Load(x) \/ Replay(x) \/ Refuse(x) \/ Commit(x)
         \/ Crash(x)
         \/ \E r \in DOMAIN tries : Enter(x, r)
    \/ \E r \in Requests(Context(part)) : Send(r)
    \/ \E r \in DOMAIN tries : Abandon(r)

Spec == Init /\ [][Next]_vars

-----------------------------------------------------------------------------
(* Properties *)

\* The state a mutation leaves its draft in.
StateAfter == [create |-> {"draft"}, replace |-> {"draft"}, validate |-> {"validated"},
               submit |-> {"in_review"}, review |-> {"draft", "in_review"},
               approve |-> {"approved"}, publish |-> {"published"}, supersede |-> {"superseded"}]

\* The audit rows, by draft and place in its trail.
AuditRows(p) == UNION {{d} \X DOMAIN p.audit[d] : d \in DraftIds}

\* The audit chain accounts for every draft: its events are the revisions 1 to n
\* without gap or repetition, and the last one names its manifest and state.
AuditTells(p) ==
    /\ p.tail = Cardinality(AuditRows(p))
    /\ \A d \in DraftIds :
        LET trail == p.audit[d]
            x == p.drafts[d]
        IN
        IF x = NoDraft THEN trail = <<>>
        ELSE /\ Len(trail) = x.revision
             /\ \A i \in 1 .. Len(trail) : trail[i].revision = i
             /\ trail[Len(trail)].manifest = x.manifest
             /\ x.state \in StateAfter[trail[Len(trail)].op]

\* Whatever is committed can be opened again: every later transaction verifies
\* the partition against its anchor and counts its rows, and one mismatch would
\* shut the workload out for good (_verify_state_anchor, _commit).
PartitionOpens == part # NoPartition => Verified(part)

\* A transaction never works on a mixture of two commits although its pages are
\* read at different times: the audit chain it read accounts for the drafts it
\* read, and is a beginning of the chain in the table.
SnapshotsConsistent ==
    \A x \in Replicas : rep[x].pc = "mutating" =>
        LET s == rep[x].snap IN
        /\ AuditTells(s)
        /\ s.gen <= part.gen
        /\ \A d \in DraftIds : s.audit[d] = SubSeq(part.audit[d], 1, Len(s.audit[d]))
        /\ s.receipts = Restrict(part.receipts, DOMAIN s.receipts)

\* A result given to a client is committed and is the only one for its command,
\* however often the command was sent and whichever replicas tried it: it is the
\* response recorded with the mutation, and the audit chain has it once.
AnswersHold ==
    answer # NoAnswer =>
        LET r == answer.request IN
        /\ r \in DOMAIN part.receipts /\ part.receipts[r] = answer.response
        /\ r.op # "issue" =>
             Cardinality({i \in DOMAIN part.audit[r.draft] :
                            part.audit[r.draft][i] = Event(r.op, answer.response)}) = 1

\* The promise of the API: the context changes by whole lifecycle mutations,
\* each decided on the context it changes.
Lifecycle == INSTANCE ContextLifecycle WITH ctx <- Context(part)

\* The replicas together implement the lifecycle of ContextLifecycle.
ImplementsLifecycle == Lifecycle!Spec

=============================================================================
