------------------------- MODULE ContextStoreProofs -------------------------
(***************************************************************************)
(* The store of the Context API keeps its promises for any number of       *)
(* replicas, drafts, commands and tries.                                   *)
(*                                                                         *)
(* The state row carries both the generation and the anchor, so pages that *)
(* were read at different times verify only when all of them are of the    *)
(* commit the state row is of: a snapshot is the partition as it was at    *)
(* some time.  Every commit raises the generation, so a batch that finds   *)
(* the generation it read applies to the very rows it was computed from,   *)
(* and is one mutation of the lifecycle.                                   *)
(***************************************************************************)
EXTENDS ContextStore, FiniteSetTheorems, TLAPS

\* The commands of clients.
CreateCommands ==
    [op : {"create"}, draft : DraftIds, version : Versions, manifest : ClientManifests,
     previous : Versions \cup {NoVersion}, source : Versions \cup {NoVersion}]
ReplaceCommands ==
    [op : {"replace"}, draft : DraftIds, revision : Nat, manifest : Manifests,
     replacement : ClientManifests]
PlainCommands ==
    [op : {"validate", "submit", "issue"}, draft : DraftIds, revision : Nat, manifest : Manifests]
ReviewCommands ==
    [op : {"review"}, draft : DraftIds, revision : Nat, manifest : Manifests,
     decision : {"approved", "changes_requested"}]
ApproveCommands ==
    [op : {"approve"}, draft : DraftIds, revision : Nat, manifest : Manifests,
     receipt : OpReceipts]
PublishCommands ==
    [op : {"publish"}, draft : DraftIds, revision : Nat, manifest : Manifests,
     receipt : OpReceipts, approval : Nat]
SupersedeCommands ==
    [op : {"supersede"}, draft : DraftIds, revision : Nat, manifest : Manifests,
     version : Versions, replacement : Versions, replacementManifest : Manifests]
Commands ==
    CreateCommands \cup ReplaceCommands \cup PlainCommands \cup ReviewCommands
      \cup ApproveCommands \cup PublishCommands \cup SupersedeCommands

Ops == {"create", "replace", "validate", "submit", "review", "issue", "approve", "publish",
        "supersede"}
Responses == [draft : DraftIds, revision : Nat, manifest : Manifests]
Events == [op : Ops, draft : DraftIds, revision : Nat, manifest : Manifests]

-----------------------------------------------------------------------------
(* The inductive invariant *)

IsPartition(p) ==
    /\ p = [audit |-> p.audit, tail |-> p.tail, drafts |-> p.drafts, gen |-> p.gen,
            anchor |-> p.anchor, opReceipts |-> p.opReceipts, published |-> p.published,
            receipts |-> p.receipts, superseded |-> p.superseded]
    /\ p.audit \in [DraftIds -> Seq(Events)]
    /\ p.tail \in Nat /\ p.gen \in Nat \ {0}
    /\ Context(p) \in Contexts
    /\ p.receipts \in [DOMAIN p.receipts -> Responses]
    /\ DOMAIN p.receipts \subseteq Commands

\* The receipt of a mutation has its event in the audit chain.
ReceiptsAudited(p) ==
    \A r \in DOMAIN p.receipts : r.op # "issue" =>
        \E i \in DOMAIN p.audit[r.draft] : p.audit[r.draft][i] = Event(r.op, p.receipts[r])

\* Rows that one commit has left.
Committed(p) ==
    /\ IsPartition(p)
    /\ Verified(p)
    /\ IsFiniteSet(AuditRows(p))
    /\ AuditTells(p)
    /\ ReceiptsAudited(p)

\* The audit chain and the receipts of q are still those of p.
Extends(q, p) ==
    /\ \A d \in DraftIds :
         /\ Len(q.audit[d]) <= Len(p.audit[d])
         /\ \A i \in 1 .. Len(q.audit[d]) : q.audit[d][i] = p.audit[d][i]
    /\ \A r \in DOMAIN q.receipts : r \in DOMAIN p.receipts /\ p.receipts[r] = q.receipts[r]

\* The rows q are those of p or of an earlier commit.
Earlier(q, p) ==
    /\ Committed(q)
    /\ q.gen <= p.gen
    /\ q.gen = p.gen => q = p
    /\ Extends(q, p)

\* A command whose client read its fields in p or earlier: revisions only grow,
\* versions stay.
CommandOK(r, p) ==
    /\ r \in Commands
    /\ r.op = "issue" =>
         /\ p.drafts[r.draft] # NoDraft /\ r.revision <= p.drafts[r.draft].revision
         /\ r.revision = p.drafts[r.draft].revision =>
              p.drafts[r.draft].state \in {"in_review", "approved"}
    /\ r.op = "supersede" =>
         p.drafts[r.draft] # NoDraft /\ p.drafts[r.draft].version = r.version

Bootstrapping == [pc |-> "bootstrap"]

ReplicaOK(w, p) ==
    \/ w \in {Idle, Bootstrapping}
    \/ /\ w.pc = "reading"
       /\ w = [pc |-> "reading", request |-> w.request, page |-> w.page]
       /\ p # NoPartition /\ CommandOK(w.request, p) /\ Earlier(w.page, p)
    \/ /\ w.pc = "mutating"
       /\ w = [pc |-> "mutating", request |-> w.request, snap |-> w.snap]
       /\ p # NoPartition /\ CommandOK(w.request, p) /\ Earlier(w.snap, p)

PartitionOK == part = NoPartition \/ Committed(part)

CommandsOK ==
    /\ tries \in [DOMAIN tries -> Nat]
    /\ \A r \in DOMAIN tries : part # NoPartition /\ CommandOK(r, part)

ReplicasOK ==
    /\ rep = [x \in Replicas |-> rep[x]]
    /\ \A x \in Replicas : ReplicaOK(rep[x], part)

IInv == PartitionOK /\ CommandsOK /\ ReplicasOK /\ AnswersHold

-----------------------------------------------------------------------------
(* What a mutation changes *)

\* Context e is what command r leaves of c: one draft is written, with the next
\* revision, or a receipt is issued for one.
Effect(c, r, e) ==
    /\ e \in Contexts
    /\ c.opReceipts \subseteq e.opReceipts
    /\ \A d \in DraftIds : d # r.draft => e.drafts[d] = c.drafts[d]
    /\ r.op = "issue" => e.drafts = c.drafts /\ c.drafts[r.draft] # NoDraft
    /\ r.op # "issue" =>
         /\ e.drafts[r.draft] \in Drafts
         /\ e.drafts[r.draft].state \in StateAfter[r.op]
         /\ c.drafts[r.draft] = NoDraft => e.drafts[r.draft].revision = 1
         /\ c.drafts[r.draft] # NoDraft =>
              /\ e.drafts[r.draft].revision = c.drafts[r.draft].revision + 1
              /\ e.drafts[r.draft].version = c.drafts[r.draft].version

\* put_draft writes one draft, with the next revision.
LEMMA PutEffect ==
    ASSUME NEW c \in Contexts, NEW d \in DraftIds, NEW x \in Drafts
    PROVE  LET e == Put(c, d, x) IN
           /\ e \in Contexts /\ e.opReceipts = c.opReceipts
           /\ e.published = c.published /\ e.superseded = c.superseded
           /\ e.drafts[d] \in Drafts /\ e.drafts[d].revision = x.revision + 1
           /\ e.drafts[d].state = x.state /\ e.drafts[d].version = x.version
           /\ \A q \in DraftIds : q # d => e.drafts[q] = c.drafts[q]
<1> DEFINE y == [x EXCEPT !.revision = @ + 1]
           e == [c EXCEPT !.drafts[d] = y]
<1>1. y \in Drafts /\ y.revision = x.revision + 1 /\ y.state = x.state /\ y.version = x.version
  BY DEF Drafts
<1>2. Put(c, d, x) = e
  BY DEF Put
<1> HIDE DEF y
<1>3. e \in Contexts /\ e.drafts = [c.drafts EXCEPT ![d] = y] /\ e.opReceipts = c.opReceipts
      /\ e.published = c.published /\ e.superseded = c.superseded
  BY <1>1 DEF Contexts
<1> HIDE DEF e
<1>4. e.drafts[d] = y /\ \A q \in DraftIds : q # d => e.drafts[q] = c.drafts[q]
  BY <1>3 DEF Contexts
<1>5. QED BY <1>1, <1>2, <1>3, <1>4

\* A mutation that is a put_draft of a draft that was there.
LEMMA PutIsEffect ==
    ASSUME NEW c \in Contexts, NEW r, r.draft \in DraftIds, r.op \in Ops \ {"issue"},
           c.drafts[r.draft] \in Drafts, NEW x \in Drafts,
           x.revision = c.drafts[r.draft].revision, x.version = c.drafts[r.draft].version,
           x.state \in StateAfter[r.op]
    PROVE  Effect(c, r, Put(c, r.draft, x))
<1> DEFINE e == Put(c, r.draft, x)
<1>1. /\ e \in Contexts /\ e.opReceipts = c.opReceipts
      /\ e.drafts[r.draft] \in Drafts /\ e.drafts[r.draft].revision = x.revision + 1
      /\ e.drafts[r.draft].state = x.state /\ e.drafts[r.draft].version = x.version
      /\ \A q \in DraftIds : q # r.draft => e.drafts[q] = c.drafts[q]
  BY PutEffect
<1> HIDE DEF e
<1>2. c.drafts[r.draft] # NoDraft
  BY NullAssumption
<1>3. Effect(c, r, e)
  BY <1>1, <1>2 DEF Effect
<1>4. QED BY <1>3 DEF e

\* The draft a command names, as the checks have found it.
LEMMA ExpectedDraft ==
    ASSUME NEW c \in Contexts, NEW r, r.draft \in DraftIds, NEW state, Expected(c, r, state)
    PROVE  /\ c.drafts[r.draft] \in Drafts /\ c.drafts[r.draft].state = state
           /\ c.drafts[r.draft].revision = r.revision /\ c.drafts[r.draft].manifest = r.manifest
  BY DEF Expected, Contexts

LEMMA CreateEffect ==
    ASSUME NEW c \in Contexts, NEW r \in CreateCommands, MayCreate(c, r)
    PROVE  Effect(c, r, Create(c, r))
<1> DEFINE y == [state |-> "draft", revision |-> 1, version |-> r.version, manifest |-> r.manifest,
                 previous |-> r.previous, candidate |-> NoManifest, submitted |-> NoManifest,
                 decisions |-> <<>>, approval |-> NoApproval]
           e == [c EXCEPT !.drafts[r.draft] = y]
<1>1. r.draft \in DraftIds /\ r.op = "create" /\ c.drafts[r.draft] = NoDraft
  BY DEF MayCreate, CreateCommands
<1>2. y \in Drafts /\ y.revision = 1 /\ y.state = "draft"
  <2>1. r.manifest \in Manifests /\ r.version \in Versions /\ r.previous \in Versions \cup {NoVersion}
    BY ManifestAssumption DEF CreateCommands
  <2>2. <<>> \in Seq(Decisions)
    OBVIOUS
  <2>3. QED BY <2>1, <2>2 DEF Drafts, States
<1>3. Create(c, r) = e
  BY DEF Create
<1> HIDE DEF y
<1>4. e \in Contexts /\ e.drafts = [c.drafts EXCEPT ![r.draft] = y] /\ e.opReceipts = c.opReceipts
  BY <1>1, <1>2 DEF Contexts
<1> HIDE DEF e
<1>5. e.drafts[r.draft] = y /\ \A q \in DraftIds : q # r.draft => e.drafts[q] = c.drafts[q]
  BY <1>1, <1>4 DEF Contexts
<1>6. "draft" \in StateAfter["create"]
  BY DEF StateAfter
<1>7. QED BY <1>1, <1>2, <1>3, <1>4, <1>5, <1>6 DEF Effect

LEMMA ReplaceEffect ==
    ASSUME NEW c \in Contexts, NEW r \in ReplaceCommands, MayReplace(c, r)
    PROVE  Effect(c, r, Replace(c, r))
<1> DEFINE o == c.drafts[r.draft]
           x == [o EXCEPT !.manifest = r.replacement,
                          !.submitted = NoManifest, !.approval = NoApproval]
<1>1. r.draft \in DraftIds /\ r.op = "replace" /\ r.replacement \in Manifests
  BY ManifestAssumption DEF ReplaceCommands
<1>2. o \in Drafts /\ o.state = "draft"
  BY <1>1, ExpectedDraft DEF MayReplace
<1>3. Replace(c, r) = Put(c, r.draft, x)
  BY DEF Replace
<1>4. x \in Drafts /\ x.revision = o.revision /\ x.version = o.version /\ x.state = "draft"
  BY <1>1, <1>2 DEF Drafts
<1>5. "draft" \in StateAfter["replace"] /\ "replace" \in Ops \ {"issue"}
  BY DEF StateAfter, Ops
<1> HIDE DEF x
<1>6. QED BY <1>1, <1>2, <1>3, <1>4, <1>5, PutIsEffect

LEMMA ValidateEffect ==
    ASSUME NEW c \in Contexts, NEW r \in PlainCommands, r.op = "validate", MayValidate(c, r)
    PROVE  Effect(c, r, Validate(c, r))
<1> DEFINE o == c.drafts[r.draft]
           x == [o EXCEPT !.state = "validated"]
<1>1. r.draft \in DraftIds
  BY DEF PlainCommands
<1>2. o \in Drafts
  BY <1>1, ExpectedDraft DEF MayValidate
<1>3. Validate(c, r) = Put(c, r.draft, x)
  BY DEF Validate
<1>4. x \in Drafts /\ x.revision = o.revision /\ x.version = o.version /\ x.state = "validated"
  BY <1>2 DEF Drafts, States
<1>5. "validated" \in StateAfter["validate"] /\ "validate" \in Ops \ {"issue"}
  BY DEF StateAfter, Ops
<1> HIDE DEF x
<1>6. QED BY <1>1, <1>2, <1>3, <1>4, <1>5, PutIsEffect

LEMMA SubmitEffect ==
    ASSUME NEW c \in Contexts, NEW r \in PlainCommands, r.op = "submit", MaySubmit(c, r)
    PROVE  Effect(c, r, Submit(c, r))
<1> DEFINE o == c.drafts[r.draft]
           f == [r.manifest EXCEPT !.final = TRUE]
           x == [o EXCEPT !.state = "in_review", !.manifest = f, !.candidate = f, !.submitted = f]
<1>1. r.draft \in DraftIds /\ r.manifest \in Manifests
  BY DEF PlainCommands
<1>2. o \in Drafts
  BY <1>1, ExpectedDraft DEF MaySubmit
<1>3. Submit(c, r) = Put(c, r.draft, x)
  BY DEF Submit
<1>4. f \in Manifests
  BY <1>1 DEF Manifests
<1> HIDE DEF f
<1>5. x \in Drafts /\ x.revision = o.revision /\ x.version = o.version /\ x.state = "in_review"
  BY <1>2, <1>4 DEF Drafts, States
<1>6. "in_review" \in StateAfter["submit"] /\ "submit" \in Ops \ {"issue"}
  BY DEF StateAfter, Ops
<1> HIDE DEF x
<1>7. QED BY <1>1, <1>2, <1>3, <1>5, <1>6, PutIsEffect

LEMMA ReviewEffect ==
    ASSUME NEW c \in Contexts, NEW r \in ReviewCommands, MayReview(c, r)
    PROVE  Effect(c, r, Review(c, r))
<1> DEFINE o == c.drafts[r.draft]
           k == [decision |-> r.decision, revision |-> o.revision + 1, manifest |-> o.manifest]
           y == [o EXCEPT !.decisions = Append(@, k)]
           z == [y EXCEPT !.state = "draft", !.submitted = NoManifest,
                          !.candidate = NoManifest, !.approval = NoApproval]
<1>1. r.draft \in DraftIds /\ r.op = "review" /\ r.decision \in {"approved", "changes_requested"}
  BY DEF ReviewCommands
<1>2. o \in Drafts /\ o.state = "in_review"
  BY <1>1, ExpectedDraft DEF MayReview
<1>3. k \in Decisions /\ o.decisions \in Seq(Decisions)
  BY <1>1, <1>2 DEF Drafts, Decisions
<1>4. Append(o.decisions, k) \in Seq(Decisions)
  BY <1>3
<1>5. y \in Drafts /\ y.revision = o.revision /\ y.version = o.version /\ y.state = "in_review"
  BY <1>2, <1>4 DEF Drafts
<1>6. z \in Drafts /\ z.revision = o.revision /\ z.version = o.version /\ z.state = "draft"
  <2> HIDE DEF y
  <2>1. QED BY <1>5 DEF Drafts, States
<1>7. Review(c, r) = Put(c, r.draft, IF r.decision = "approved" THEN y ELSE z)
  BY DEF Review
<1>8. {"draft", "in_review"} \subseteq StateAfter["review"] /\ "review" \in Ops \ {"issue"}
  BY DEF StateAfter, Ops
<1> HIDE DEF y, z
<1>9. Effect(c, r, Put(c, r.draft, y)) /\ Effect(c, r, Put(c, r.draft, z))
  BY <1>1, <1>2, <1>5, <1>6, <1>8, PutIsEffect
<1>10. QED BY <1>7, <1>9

LEMMA IssueEffect ==
    ASSUME NEW c \in Contexts, NEW r \in PlainCommands, r.op = "issue", MayIssue(c, r)
    PROVE  Effect(c, r, Issue(c, r))
<1> DEFINE k == [draft |-> r.draft, revision |-> r.revision, manifest |-> r.manifest]
           e == [c EXCEPT !.opReceipts = @ \cup {k}]
<1>1. r.draft \in DraftIds /\ k \in OpReceipts
  BY DEF PlainCommands, OpReceipts
<1>2. c.drafts[r.draft] # NoDraft
  BY DEF MayIssue, Expected
<1>3. Issue(c, r) = e
  BY DEF Issue
<1> HIDE DEF k
<1>4. e \in Contexts /\ e.drafts = c.drafts /\ e.opReceipts = c.opReceipts \cup {k}
  BY <1>1 DEF Contexts
<1> HIDE DEF e
<1>5. QED BY <1>2, <1>3, <1>4 DEF Effect

LEMMA ApproveEffect ==
    ASSUME NEW c \in Contexts, NEW r \in ApproveCommands, MayApprove(c, r)
    PROVE  Effect(c, r, Approve(c, r))
<1> DEFINE o == c.drafts[r.draft]
           a == [revision |-> o.revision + 1, manifest |-> o.manifest,
                 review |-> o.decisions[Len(o.decisions)].revision]
           x == [o EXCEPT !.state = "approved", !.approval = a]
<1>1. r.draft \in DraftIds /\ r.op = "approve"
  BY DEF ApproveCommands
<1>2. o \in Drafts
  BY <1>1, ExpectedDraft DEF MayApprove
<1>3. Approve(c, r) = Put(c, r.draft, x)
  BY DEF Approve
<1>4. a \in Approvals
  <2>1. o.decisions \in Seq(Decisions) /\ o.decisions # <<>>
    BY <1>2 DEF Drafts, MayApprove
  <2>2. o.decisions[Len(o.decisions)] \in Decisions
    BY <2>1
  <2>3. QED BY <1>2, <2>2 DEF Drafts, Decisions, Approvals
<1> HIDE DEF a
<1>5. x \in Drafts /\ x.revision = o.revision /\ x.version = o.version /\ x.state = "approved"
  BY <1>2, <1>4 DEF Drafts, States
<1>6. "approved" \in StateAfter["approve"] /\ "approve" \in Ops \ {"issue"}
  BY DEF StateAfter, Ops
<1> HIDE DEF x
<1>7. QED BY <1>1, <1>2, <1>3, <1>5, <1>6, PutIsEffect

\* A published version or a supersession joins what put_draft left.
LEMMA VersionEffect ==
    ASSUME NEW c, NEW r, NEW u, Effect(c, r, u), NEW e \in Contexts,
           e.drafts = u.drafts, e.opReceipts = u.opReceipts
    PROVE  Effect(c, r, e)
  BY DEF Effect

LEMMA PublishEffect ==
    ASSUME NEW c \in Contexts, NEW r \in PublishCommands, MayPublish(c, r)
    PROVE  Effect(c, r, Publish(c, r))
<1> DEFINE o == c.drafts[r.draft]
           x == [o EXCEPT !.state = "published"]
           u == Put(c, r.draft, x)
           n == [manifest |-> o.manifest, draft |-> r.draft, previous |-> o.previous,
                 approval |-> o.approval]
           e == [u EXCEPT !.published[o.version] = n]
<1>1. r.draft \in DraftIds /\ r.op = "publish"
  BY DEF PublishCommands
<1>2. o \in Drafts
  BY <1>1, ExpectedDraft DEF MayPublish
<1>3. Publish(c, r) = e
  BY DEF Publish
<1>4. x \in Drafts /\ x.revision = o.revision /\ x.version = o.version /\ x.state = "published"
  BY <1>2 DEF Drafts, States
<1>5. "published" \in StateAfter["publish"] /\ "publish" \in Ops \ {"issue"}
  BY DEF StateAfter, Ops
<1>6. n \in Publications
  BY <1>1, <1>2 DEF Drafts, Publications, MayPublish
<1> HIDE DEF x, n
<1>7. Effect(c, r, u)
  BY <1>1, <1>2, <1>4, <1>5, PutIsEffect
<1> HIDE DEF u
<1>8. u \in Contexts /\ o.version \in Versions
  BY <1>2, <1>7 DEF Effect, Drafts
<1>9. e \in Contexts /\ e.drafts = u.drafts /\ e.opReceipts = u.opReceipts
  BY <1>6, <1>8 DEF Contexts
<1> HIDE DEF e
<1>10. QED BY <1>3, <1>7, <1>9, VersionEffect

LEMMA SupersedeEffect ==
    ASSUME NEW c \in Contexts, NEW r \in SupersedeCommands, MaySupersede(c, r)
    PROVE  Effect(c, r, Supersede(c, r))
<1> DEFINE o == c.drafts[r.draft]
           x == [o EXCEPT !.state = "superseded"]
           u == Put(c, r.draft, x)
           e == [u EXCEPT !.superseded[r.version] = r.replacement]
<1>1. r.draft \in DraftIds /\ r.op = "supersede" /\ r.version \in Versions /\ r.replacement \in Versions
  BY DEF SupersedeCommands
<1>2. o \in Drafts
  BY <1>1, ExpectedDraft DEF MaySupersede
<1>3. Supersede(c, r) = e
  BY DEF Supersede
<1>4. x \in Drafts /\ x.revision = o.revision /\ x.version = o.version /\ x.state = "superseded"
  BY <1>2 DEF Drafts, States
<1>5. "superseded" \in StateAfter["supersede"] /\ "supersede" \in Ops \ {"issue"}
  BY DEF StateAfter, Ops
<1> HIDE DEF x
<1>6. Effect(c, r, u)
  BY <1>1, <1>2, <1>4, <1>5, PutIsEffect
<1> HIDE DEF u
<1>7. u \in Contexts
  BY <1>6 DEF Effect
<1>8. e \in Contexts /\ e.drafts = u.drafts /\ e.opReceipts = u.opReceipts
  BY <1>1, <1>7 DEF Contexts
<1> HIDE DEF e
<1>9. QED BY <1>3, <1>6, <1>8, VersionEffect

\* What the closures of service.py leave, for every command they accept.
LEMMA ResultEffect ==
    ASSUME NEW c \in Contexts, NEW r \in Commands, Accepts(c, r)
    PROVE  Effect(c, r, Result(c, r))
<1>1. CASE r \in CreateCommands
  <2>1. r.op = "create"
    BY <1>1 DEF CreateCommands
  <2>2. MayCreate(c, r) /\ Result(c, r) = Create(c, r)
    BY <2>1 DEF Accepts, Result
  <2>3. QED BY <1>1, <2>2, CreateEffect
<1>2. CASE r \in ReplaceCommands
  <2>1. r.op = "replace"
    BY <1>2 DEF ReplaceCommands
  <2>2. MayReplace(c, r) /\ Result(c, r) = Replace(c, r)
    BY <2>1 DEF Accepts, Result
  <2>3. QED BY <1>2, <2>2, ReplaceEffect
<1>3. CASE r \in PlainCommands
  <2>1. r.op \in {"validate", "submit", "issue"}
    BY <1>3 DEF PlainCommands
  <2>2. r.op = "validate" => MayValidate(c, r) /\ Result(c, r) = Validate(c, r)
    BY DEF Accepts, Result
  <2>3. r.op = "submit" => MaySubmit(c, r) /\ Result(c, r) = Submit(c, r)
    BY DEF Accepts, Result
  <2>4. r.op = "issue" => MayIssue(c, r) /\ Result(c, r) = Issue(c, r)
    BY DEF Accepts, Result
  <2>5. QED BY <1>3, <2>1, <2>2, <2>3, <2>4, ValidateEffect, SubmitEffect, IssueEffect
<1>4. CASE r \in ReviewCommands
  <2>1. r.op = "review"
    BY <1>4 DEF ReviewCommands
  <2>2. MayReview(c, r) /\ Result(c, r) = Review(c, r)
    BY <2>1 DEF Accepts, Result
  <2>3. QED BY <1>4, <2>2, ReviewEffect
<1>5. CASE r \in ApproveCommands
  <2>1. r.op = "approve"
    BY <1>5 DEF ApproveCommands
  <2>2. MayApprove(c, r) /\ Result(c, r) = Approve(c, r)
    BY <2>1 DEF Accepts, Result
  <2>3. QED BY <1>5, <2>2, ApproveEffect
<1>6. CASE r \in PublishCommands
  <2>1. r.op = "publish"
    BY <1>6 DEF PublishCommands
  <2>2. MayPublish(c, r) /\ Result(c, r) = Publish(c, r)
    BY <2>1 DEF Accepts, Result
  <2>3. QED BY <1>6, <2>2, PublishEffect
<1>7. CASE r \in SupersedeCommands
  <2>1. r.op = "supersede"
    BY <1>7 DEF SupersedeCommands
  <2>2. MaySupersede(c, r) /\ Result(c, r) = Supersede(c, r)
    BY <2>1 DEF Accepts, Result
  <2>3. QED BY <1>7, <2>2, SupersedeEffect
<1>8. QED BY <1>1, <1>2, <1>3, <1>4, <1>5, <1>6, <1>7 DEF Commands

-----------------------------------------------------------------------------
(* What a commit leaves *)

LEMMA PartitionContext ==
    ASSUME NEW p, p.gen \in Nat \ {0}
    PROVE  /\ p # NoPartition
           /\ Context(p) = [drafts |-> p.drafts, opReceipts |-> p.opReceipts,
                            published |-> p.published, superseded |-> p.superseded]
<1>1. p # NoPartition
  BY DEF NoPartition
<1>2. QED BY <1>1 DEF Context

LEMMA AnchoredRecord ==
    ASSUME NEW q, q = [audit |-> q.audit, tail |-> q.tail, drafts |-> q.drafts, gen |-> q.gen,
                       opReceipts |-> q.opReceipts, published |-> q.published,
                       receipts |-> q.receipts, superseded |-> q.superseded]
    PROVE  /\ Anchored(q) = [audit |-> q.audit, tail |-> q.tail, drafts |-> q.drafts,
                             gen |-> q.gen, anchor |-> q, opReceipts |-> q.opReceipts,
                             published |-> q.published, receipts |-> q.receipts,
                             superseded |-> q.superseded]
           /\ Anchor(Anchored(q)) = q
<1> DEFINE a == [audit |-> q.audit, tail |-> q.tail, drafts |-> q.drafts, gen |-> q.gen,
                 anchor |-> q, opReceipts |-> q.opReceipts, published |-> q.published,
                 receipts |-> q.receipts, superseded |-> q.superseded]
<1>1. Anchor(q) = q /\ Anchor(a) = q
  BY DEF Anchor
<1>2. DOMAIN q = {"audit", "tail", "drafts", "gen", "opReceipts", "published", "receipts",
                  "superseded"}
  OBVIOUS
<1>3. DOMAIN a = DOMAIN q \cup {"anchor"}
  BY <1>2
<1>4. Anchored(q) = [f \in DOMAIN a |-> IF f = "anchor" THEN q ELSE q[f]]
  BY <1>1, <1>3 DEF Anchored
<1>5. \A f \in DOMAIN a : (IF f = "anchor" THEN q ELSE q[f]) = a[f]
  BY <1>2, <1>3
<1>6. a = [f \in DOMAIN a |-> a[f]]
  OBVIOUS
<1>7. Anchored(q) = a
  BY <1>4, <1>5, <1>6
<1>8. QED BY <1>1, <1>7

\* The rows a that _commit means to leave, field by field, with c for the context.
RowsAfter(p, r, c, a) ==
    /\ a = [audit |-> a.audit, tail |-> a.tail, drafts |-> a.drafts, gen |-> a.gen,
            anchor |-> a.anchor, opReceipts |-> a.opReceipts, published |-> a.published,
            receipts |-> a.receipts, superseded |-> a.superseded]
    /\ a.audit = [p.audit EXCEPT ![r.draft] = @ \o AuditEvents(c, r)]
    /\ a.tail = p.tail + Len(AuditEvents(c, r))
    /\ a.drafts = c.drafts /\ a.gen = p.gen + 1 /\ a.anchor = Anchor(a)
    /\ a.opReceipts = c.opReceipts /\ a.published = c.published
    /\ a.receipts = With(p.receipts, r, Response(c, r))
    /\ a.superseded = c.superseded

LEMMA AfterRows ==
    ASSUME NEW p, NEW r
    PROVE  RowsAfter(p, r, Result(Context(p), r), After(p, r))
<1> DEFINE c == Result(Context(p), r)
           u == [p.audit EXCEPT ![r.draft] = @ \o AuditEvents(c, r)]
           t == p.tail + Len(AuditEvents(c, r))
           g == p.gen + 1
           k == With(p.receipts, r, Response(c, r))
           a == After(p, r)
<1>1. a = Anchored([audit |-> u, tail |-> t, drafts |-> c.drafts, gen |-> g,
                    opReceipts |-> c.opReceipts, published |-> c.published, receipts |-> k,
                    superseded |-> c.superseded])
  BY DEF After
<1> HIDE DEF u, t, g, k, a, c
<1> DEFINE q == [audit |-> u, tail |-> t, drafts |-> c.drafts, gen |-> g,
                 opReceipts |-> c.opReceipts, published |-> c.published, receipts |-> k,
                 superseded |-> c.superseded]
<1>2. /\ q.audit = u /\ q.tail = t /\ q.drafts = c.drafts /\ q.gen = g
      /\ q.opReceipts = c.opReceipts /\ q.published = c.published /\ q.receipts = k
      /\ q.superseded = c.superseded
      /\ q = [audit |-> q.audit, tail |-> q.tail, drafts |-> q.drafts, gen |-> q.gen,
              opReceipts |-> q.opReceipts, published |-> q.published,
              receipts |-> q.receipts, superseded |-> q.superseded]
  OBVIOUS
<1>3. a = Anchored(q)
  BY <1>1
<1> HIDE DEF q
<1>4. /\ a = [audit |-> q.audit, tail |-> q.tail, drafts |-> q.drafts, gen |-> q.gen,
              anchor |-> q, opReceipts |-> q.opReceipts, published |-> q.published,
              receipts |-> q.receipts, superseded |-> q.superseded]
      /\ Anchor(a) = q
  BY <1>2, <1>3, AnchoredRecord
<1>5. /\ a.audit = u /\ a.tail = t /\ a.drafts = c.drafts /\ a.gen = g /\ a.anchor = q
      /\ a.opReceipts = c.opReceipts /\ a.published = c.published /\ a.receipts = k
      /\ a.superseded = c.superseded
  BY <1>2, <1>4
<1>6. RowsAfter(p, r, c, a)
  BY <1>4, <1>5 DEF RowsAfter, u, t, g, k
<1>7. QED BY <1>6 DEF a, c

\* A command is accepted on the rows p and its rows are within the bound.
Applicable(p, r) ==
    /\ Committed(p) /\ CommandOK(r, p)
    /\ r \notin DOMAIN p.receipts
    /\ Accepts(Context(p), r)
    /\ RowCount(After(p, r)) <= MaxEntities

LEMMA CommandFields ==
    ASSUME NEW r \in Commands
    PROVE  r.draft \in DraftIds /\ r.op \in Ops
  BY DEF Commands, CreateCommands, ReplaceCommands, PlainCommands, ReviewCommands, ApproveCommands,
         PublishCommands, SupersedeCommands, Ops

\* The effect of an applicable command, in terms of the rows.
LEMMA AfterEffect ==
    ASSUME NEW p, NEW r, Applicable(p, r)
    PROVE  LET a == After(p, r)
               c == Result(Context(p), r)
           IN /\ p # NoPartition /\ a # NoPartition /\ a.gen = p.gen + 1 /\ a.gen \in Nat \ {0}
              /\ Context(a) = c /\ Context(a) \in Contexts /\ Effect(Context(p), r, c)
              /\ Context(p).drafts = p.drafts /\ Context(p).opReceipts = p.opReceipts
<1> DEFINE a == After(p, r)
           c == Result(Context(p), r)
<1>1. p.gen \in Nat \ {0} /\ Context(p) \in Contexts
  BY DEF Applicable, Committed, IsPartition
<1>2. Effect(Context(p), r, c)
  BY <1>1, ResultEffect DEF Applicable, CommandOK
<1>a. RowsAfter(p, r, c, a)
  BY AfterRows
<1> HIDE DEF a, c
<1>3. /\ a.drafts = c.drafts /\ a.gen = p.gen + 1 /\ a.opReceipts = c.opReceipts
      /\ a.published = c.published /\ a.superseded = c.superseded
  BY <1>a DEF RowsAfter
<1>4. a.gen \in Nat \ {0}
  BY <1>1, <1>3
<1>5. c \in Contexts
  BY <1>2 DEF Effect
<1>6. c = [drafts |-> c.drafts, opReceipts |-> c.opReceipts, published |-> c.published,
           superseded |-> c.superseded]
  BY <1>5 DEF Contexts
<1>7. Context(a) = c /\ a # NoPartition
  BY <1>3, <1>4, <1>6, PartitionContext
<1>8. p # NoPartition /\ Context(p).drafts = p.drafts /\ Context(p).opReceipts = p.opReceipts
  BY <1>1, PartitionContext
<1>9. QED BY <1>2, <1>3, <1>4, <1>5, <1>7, <1>8 DEF a, c

\* The drafts of rows that one commit has left.
LEMMA PartitionFields ==
    ASSUME NEW p, Committed(p)
    PROVE  /\ p.drafts \in [DraftIds -> Drafts \cup {NoDraft}] /\ p.opReceipts \subseteq OpReceipts
           /\ p.published \in [Versions -> Publications \cup {NoPublication}]
           /\ p.superseded \in [Versions -> Versions \cup {NoVersion}]
           /\ p.audit \in [DraftIds -> Seq(Events)] /\ p.gen \in Nat \ {0} /\ p.tail \in Nat
           /\ p.receipts \in [DOMAIN p.receipts -> Responses] /\ DOMAIN p.receipts \subseteq Commands
<1>1. p.gen \in Nat \ {0} /\ Context(p) \in Contexts
  BY DEF Committed, IsPartition
<1> DEFINE c == Context(p)
<1>2. c.drafts = p.drafts /\ c.opReceipts = p.opReceipts /\ c.published = p.published
      /\ c.superseded = p.superseded
  BY <1>1, PartitionContext
<1> HIDE DEF c
<1>3. c \in Contexts
  BY <1>1 DEF c
<1>4. QED BY <1>2, <1>3 DEF Committed, IsPartition, Contexts

\* A batch applied to the rows it was computed from leaves what _commit means.
LEMMA WrittenIsAfter ==
    ASSUME NEW p, NEW r, Applicable(p, r)
    PROVE  Written(p, p, r) = After(p, r)
<1> DEFINE a == After(p, r)
           c == Result(Context(p), r)
<1>1. r.draft \in DraftIds /\ Committed(p)
  BY CommandFields DEF Applicable, CommandOK
<1>2. /\ p.drafts \in [DraftIds -> Drafts \cup {NoDraft}]
      /\ p.audit \in [DraftIds -> Seq(Events)]
  BY <1>1, PartitionFields
<1>3. RowsAfter(p, r, c, a)
  BY AfterRows
<1>4. Effect(Context(p), r, c) /\ Context(p).drafts = p.drafts
      /\ Context(p).opReceipts = p.opReceipts
  BY AfterEffect
<1>5. /\ c \in Contexts /\ p.opReceipts \subseteq c.opReceipts
      /\ \A d \in DraftIds : d # r.draft => c.drafts[d] = p.drafts[d]
  BY <1>4 DEF Effect
<1> HIDE DEF a, c
<1>6. c.drafts \in [DraftIds -> Drafts \cup {NoDraft}]
      /\ c.published \in [Versions -> Publications \cup {NoPublication}]
      /\ c.superseded \in [Versions -> Versions \cup {NoVersion}]
  BY <1>5 DEF Contexts
<1>7. [p.drafts EXCEPT ![r.draft] = a.drafts[r.draft]] = a.drafts
  BY <1>1, <1>2, <1>3, <1>5, <1>6, ZenonT(60) DEF RowsAfter
<1>8. [p.audit EXCEPT ![r.draft] = a.audit[r.draft]] = a.audit
  BY <1>1, <1>2, <1>3 DEF RowsAfter
<1>9. p.opReceipts \cup (a.opReceipts \ p.opReceipts) = a.opReceipts
  BY <1>3, <1>5 DEF RowsAfter
<1>10. [v \in Versions |-> IF a.published[v] = p.published[v] THEN p.published[v]
                           ELSE a.published[v]] = a.published
  BY <1>3, <1>6 DEF RowsAfter
<1>11. [v \in Versions |-> IF a.superseded[v] = p.superseded[v] THEN p.superseded[v]
                           ELSE a.superseded[v]] = a.superseded
  BY <1>3, <1>6 DEF RowsAfter
<1>12. With(p.receipts, r, a.receipts[r]) = a.receipts
  <2>1. a.receipts[r] = Response(c, r)
    BY <1>3 DEF With, RowsAfter
  <2>2. QED BY <1>3, <2>1 DEF RowsAfter
<1>13. Written(p, p, r) =
         [a EXCEPT !.drafts = a.drafts, !.audit = a.audit, !.opReceipts = a.opReceipts,
                   !.published = a.published, !.superseded = a.superseded,
                   !.receipts = a.receipts]
  BY <1>7, <1>8, <1>9, <1>10, <1>11, <1>12 DEF Written, a
<1>14. [a EXCEPT !.drafts = a.drafts, !.audit = a.audit, !.opReceipts = a.opReceipts,
                 !.published = a.published, !.superseded = a.superseded,
                 !.receipts = a.receipts] = a
  BY <1>3 DEF RowsAfter
<1>15. QED BY <1>13, <1>14 DEF a

\* One audit event e and one response k join the rows p; a receipt is issued
\* without an event.
Recorded(p, r, k, a) ==
    /\ r.draft \in DraftIds /\ r.op \in Ops
    /\ k \in Responses /\ Event(r.op, k) \in Events
    /\ a.receipts = With(p.receipts, r, k)
    /\ r.op = "issue" => a.audit = p.audit /\ a.tail = p.tail
    /\ r.op # "issue" =>
         /\ a.audit = [p.audit EXCEPT ![r.draft] = Append(@, Event(r.op, k))]
         /\ a.tail = p.tail + 1

LEMMA AfterRecorded ==
    ASSUME NEW p, NEW r, Applicable(p, r)
    PROVE  Recorded(p, r, Response(Result(Context(p), r), r), After(p, r))
<1> DEFINE a == After(p, r)
           c == Result(Context(p), r)
           e == Event(r.op, Response(c, r))
<1>1. r.draft \in DraftIds /\ r.op \in Ops /\ Committed(p)
  BY CommandFields DEF Applicable, CommandOK
<1>2. p.audit \in [DraftIds -> Seq(Events)] /\ p.tail \in Nat
      /\ p.drafts \in [DraftIds -> Drafts \cup {NoDraft}]
  BY <1>1, PartitionFields
<1>3. RowsAfter(p, r, c, a)
  BY AfterRows
<1>4. Effect(Context(p), r, c) /\ Context(p).drafts = p.drafts
  BY AfterEffect
<1>5. c.drafts[r.draft] \in Drafts
  BY <1>1, <1>2, <1>4 DEF Effect
<1>6. Response(c, r) \in Responses
  BY <1>1, <1>5 DEF Response, Responses, Drafts
<1>7. e \in Events
  BY <1>1, <1>6 DEF Event, Events, Responses
<1> HIDE DEF e, c, a
<1>8. ASSUME r.op = "issue" PROVE a.audit = p.audit /\ a.tail = p.tail
  <2>1. AuditEvents(c, r) = <<>>
    BY <1>8 DEF AuditEvents
  <2>2. p.audit[r.draft] \o <<>> = p.audit[r.draft]
    BY <1>1, <1>2
  <2>3. [p.audit EXCEPT ![r.draft] = p.audit[r.draft]] = p.audit
    BY <1>1, <1>2
  <2>4. a.audit = [p.audit EXCEPT ![r.draft] = p.audit[r.draft]]
    BY <1>3, <2>1, <2>2 DEF RowsAfter
  <2>5. a.tail = p.tail + 0
    BY <1>3, <2>1 DEF RowsAfter
  <2>6. QED BY <1>2, <2>3, <2>4, <2>5
<1>9. ASSUME r.op # "issue"
      PROVE  a.audit = [p.audit EXCEPT ![r.draft] = Append(@, e)] /\ a.tail = p.tail + 1
  <2>1. AuditEvents(c, r) = <<e>>
    BY <1>9 DEF AuditEvents, e
  <2>2. p.audit[r.draft] \o <<e>> = Append(p.audit[r.draft], e)
    BY <1>1, <1>2, <1>7
  <2>3. QED BY <1>2, <1>3, <2>1, <2>2 DEF RowsAfter
<1>10. a.receipts = With(p.receipts, r, Response(c, r))
  BY <1>3 DEF RowsAfter
<1>11. Recorded(p, r, Response(c, r), a)
  BY <1>1, <1>6, <1>7, <1>8, <1>9, <1>10 DEF Recorded, e
<1>12. QED BY <1>11 DEF a, c

\* What is recorded stays recorded.
LEMMA RecordedExtends ==
    ASSUME NEW p, Committed(p), NEW r, r \notin DOMAIN p.receipts, NEW k, NEW a,
           Recorded(p, r, k, a)
    PROVE  /\ Extends(p, a)
           /\ a.audit \in [DraftIds -> Seq(Events)] /\ a.tail \in Nat
           /\ a.receipts \in [DOMAIN a.receipts -> Responses]
           /\ DOMAIN a.receipts = DOMAIN p.receipts \cup {r} /\ a.receipts[r] = k
           /\ r.op # "issue" =>
                /\ Len(a.audit[r.draft]) = Len(p.audit[r.draft]) + 1
                /\ a.audit[r.draft][Len(p.audit[r.draft]) + 1] = Event(r.op, k)
           /\ \A d \in DraftIds : d # r.draft => a.audit[d] = p.audit[d]
<1> DEFINE e == Event(r.op, k)
<1>1. /\ p.audit \in [DraftIds -> Seq(Events)] /\ p.tail \in Nat
      /\ p.receipts \in [DOMAIN p.receipts -> Responses]
  BY PartitionFields
<1>2. /\ DOMAIN a.receipts = DOMAIN p.receipts \cup {r} /\ a.receipts[r] = k
      /\ a.receipts \in [DOMAIN a.receipts -> Responses]
      /\ \A q \in DOMAIN p.receipts : q # r => a.receipts[q] = p.receipts[q]
  BY <1>1 DEF Recorded, With
<1>3. /\ \A q \in DOMAIN p.receipts : q \in DOMAIN a.receipts /\ a.receipts[q] = p.receipts[q]
  BY <1>2
<1>4. r.draft \in DraftIds /\ e \in Events
  BY DEF Recorded
<1> HIDE DEF e
<1>5. CASE r.op = "issue"
  <2>1. a.audit = p.audit /\ a.tail = p.tail
    BY <1>5 DEF Recorded
  <2>2. QED BY <1>1, <1>2, <1>3, <1>5, <2>1 DEF Extends
<1>6. CASE r.op # "issue"
  <2>1. a.audit = [p.audit EXCEPT ![r.draft] = Append(@, e)] /\ a.tail = p.tail + 1
    BY <1>6 DEF Recorded, e
  <2>2. a.audit[r.draft] = Append(p.audit[r.draft], e) /\ p.audit[r.draft] \in Seq(Events)
    BY <1>1, <1>4, <2>1
  <2>3. /\ Len(a.audit[r.draft]) = Len(p.audit[r.draft]) + 1
        /\ a.audit[r.draft] \in Seq(Events)
        /\ a.audit[r.draft][Len(p.audit[r.draft]) + 1] = e
        /\ \A i \in 1 .. Len(p.audit[r.draft]) : p.audit[r.draft][i] = a.audit[r.draft][i]
        /\ Len(p.audit[r.draft]) \in Nat
    BY <1>4, <2>2
  <2>4. \A d \in DraftIds : d # r.draft => a.audit[d] = p.audit[d]
    BY <1>1, <2>1
  <2>5. a.audit \in [DraftIds -> Seq(Events)] /\ a.tail \in Nat
    BY <1>1, <2>1, <2>2, <2>3
  <2>6. \A d \in DraftIds :
          /\ Len(p.audit[d]) <= Len(a.audit[d])
          /\ \A i \in 1 .. Len(p.audit[d]) : p.audit[d][i] = a.audit[d][i]
    <3> TAKE d \in DraftIds
    <3>1. Len(p.audit[d]) \in Nat
      BY <1>1
    <3>2. CASE d = r.draft
      BY <2>3, <3>2
    <3>3. CASE d # r.draft
      BY <2>4, <3>1, <3>3
    <3>4. QED BY <3>2, <3>3
  <2>7. QED BY <1>2, <1>3, <1>6, <2>3, <2>4, <2>5, <2>6 DEF Extends, e
<1>7. QED BY <1>5, <1>6

\* An audit row joins the others.
LEMMA RecordedRows ==
    ASSUME NEW p, Committed(p), NEW r, r \notin DOMAIN p.receipts, NEW k, NEW a,
           Recorded(p, r, k, a)
    PROVE  IsFiniteSet(AuditRows(a)) /\ a.tail = Cardinality(AuditRows(a))
<1>1. IsFiniteSet(AuditRows(p)) /\ p.tail = Cardinality(AuditRows(p))
  BY DEF Committed, AuditTells
<1>2. p.audit \in [DraftIds -> Seq(Events)] /\ p.tail \in Nat
  BY PartitionFields
<1>3. CASE r.op = "issue"
  BY <1>1, <1>3 DEF Recorded, AuditRows
<1>4. CASE r.op # "issue"
  <2> DEFINE n == <<r.draft, Len(p.audit[r.draft]) + 1>>
  <2>1. /\ r.draft \in DraftIds /\ a.audit \in [DraftIds -> Seq(Events)]
        /\ Len(a.audit[r.draft]) = Len(p.audit[r.draft]) + 1
        /\ \A d \in DraftIds : d # r.draft => a.audit[d] = p.audit[d]
        /\ a.tail = p.tail + 1
    <3>1. r.draft \in DraftIds /\ a.tail = p.tail + 1
      BY <1>4 DEF Recorded
    <3>2. /\ a.audit \in [DraftIds -> Seq(Events)]
          /\ Len(a.audit[r.draft]) = Len(p.audit[r.draft]) + 1
          /\ \A d \in DraftIds : d # r.draft => a.audit[d] = p.audit[d]
      BY <1>4, RecordedExtends
    <3>3. QED BY <3>1, <3>2
  <2>2. \A d \in DraftIds : DOMAIN p.audit[d] = 1 .. Len(p.audit[d]) /\ Len(p.audit[d]) \in Nat
                            /\ DOMAIN a.audit[d] = 1 .. Len(a.audit[d])
    BY <1>2, <2>1
  <2>3. \A d \in DraftIds : DOMAIN a.audit[d] =
           DOMAIN p.audit[d] \cup (IF d = r.draft THEN {Len(p.audit[d]) + 1} ELSE {})
    <3> TAKE d \in DraftIds
    <3>1. CASE d = r.draft
      <4>1. \A m \in Nat : 1 .. (m + 1) = (1 .. m) \cup {m + 1}
        OBVIOUS
      <4>2. QED BY <2>1, <2>2, <3>1, <4>1
    <3>2. CASE d # r.draft
      BY <2>1, <3>2
    <3>3. QED BY <3>1, <3>2
  <2>4. n \notin AuditRows(p)
    <3>1. Len(p.audit[r.draft]) + 1 \notin DOMAIN p.audit[r.draft]
      BY <2>1, <2>2
    <3>2. QED BY <3>1 DEF AuditRows
  <2>5. AuditRows(a) = AuditRows(p) \cup {n}
    BY <2>1, <2>3 DEF AuditRows
  <2>6. IsFiniteSet(AuditRows(a)) /\ Cardinality(AuditRows(a)) = Cardinality(AuditRows(p)) + 1
    BY <1>1, <2>4, <2>5, FS_AddElement, SMTT(30)
  <2>7. QED BY <1>1, <2>1, <2>6
<1>5. QED BY <1>3, <1>4

\* The rows of an applicable command account for every draft again.
LEMMA AfterTells ==
    ASSUME NEW p, NEW r, Applicable(p, r)
    PROVE  AuditTells(After(p, r)) /\ IsFiniteSet(AuditRows(After(p, r)))
<1> DEFINE a == After(p, r)
           c == Result(Context(p), r)
           k == Response(c, r)
<1>1. Committed(p) /\ r \notin DOMAIN p.receipts /\ AuditTells(p)
  BY DEF Applicable, Committed
<1>2. Recorded(p, r, k, a)
  BY AfterRecorded
<1>3. Effect(Context(p), r, c) /\ Context(p).drafts = p.drafts
  BY AfterEffect
<1>4. a.drafts = c.drafts
  BY AfterRows, ZenonT(60) DEF RowsAfter
<1> HIDE DEF a, c
<1>5. k.revision = c.drafts[r.draft].revision /\ k.manifest = c.drafts[r.draft].manifest
  BY DEF Response
<1> HIDE DEF k
<1>6. IsFiniteSet(AuditRows(a)) /\ a.tail = Cardinality(AuditRows(a))
  BY <1>1, <1>2, RecordedRows
<1>7. /\ p.audit \in [DraftIds -> Seq(Events)]
      /\ p.drafts \in [DraftIds -> Drafts \cup {NoDraft}]
      /\ r.draft \in DraftIds
  BY <1>1, <1>2, PartitionFields DEF Recorded
<1>8. /\ a.audit \in [DraftIds -> Seq(Events)]
      /\ Extends(p, a)
      /\ \A d \in DraftIds : d # r.draft => a.audit[d] = p.audit[d]
  BY <1>1, <1>2, RecordedExtends
<1> DEFINE Tells(q, d) ==
      IF q.drafts[d] = NoDraft THEN q.audit[d] = <<>>
      ELSE /\ Len(q.audit[d]) = q.drafts[d].revision
           /\ \A i \in 1 .. Len(q.audit[d]) : q.audit[d][i].revision = i
           /\ q.audit[d][Len(q.audit[d])].manifest = q.drafts[d].manifest
           /\ q.drafts[d].state \in StateAfter[q.audit[d][Len(q.audit[d])].op]
<1>9. \A d \in DraftIds : Tells(p, d)
  BY <1>1 DEF AuditTells
<1>10. ASSUME NEW d \in DraftIds PROVE Tells(a, d)
  <2>1. CASE d # r.draft
    <3>1. a.drafts[d] = p.drafts[d] /\ a.audit[d] = p.audit[d]
      BY <1>3, <1>4, <1>8, <2>1 DEF Effect
    <3>2. QED BY <1>9, <3>1
  <2>2. CASE d = r.draft /\ r.op = "issue"
    <3>1. a.drafts[d] = p.drafts[d] /\ a.audit[d] = p.audit[d]
      BY <1>2, <1>3, <1>4, <2>2 DEF Effect, Recorded
    <3>2. QED BY <1>9, <3>1
  <2>3. CASE d = r.draft /\ r.op # "issue"
    <3> DEFINE old == p.audit[d]
               new == a.audit[d]
               x == p.drafts[d]
               y == a.drafts[d]
    <3>1. /\ y \in Drafts /\ y.state \in StateAfter[r.op]
          /\ x = NoDraft => y.revision = 1
          /\ x # NoDraft => y.revision = x.revision + 1
      BY <1>3, <1>4, <2>3 DEF Effect
    <3>2. /\ Len(new) = Len(old) + 1 /\ new[Len(old) + 1] = Event(r.op, k)
          /\ \A i \in 1 .. Len(old) : old[i] = new[i]
      BY <1>1, <1>2, <2>3, RecordedExtends DEF Extends
    <3>3. old \in Seq(Events) /\ Len(old) \in Nat
      BY <1>7
    <3>4. /\ Event(r.op, k).op = r.op /\ Event(r.op, k).revision = y.revision
          /\ Event(r.op, k).manifest = y.manifest
      BY <1>4, <1>5, <2>3 DEF Event
    <3>5. y # NoDraft
      BY <3>1, NullAssumption
    <3>6. Len(old) + 1 = y.revision /\ \A i \in 1 .. Len(old) : old[i].revision = i
      <4>1. CASE x = NoDraft
        <5>1. old = <<>>
          BY <1>9, <4>1
        <5>2. Len(old) = 0
          BY <5>1
        <5>3. QED BY <3>1, <4>1, <5>2
      <4>2. CASE x # NoDraft
        <5>1. Len(old) = x.revision /\ \A i \in 1 .. Len(old) : old[i].revision = i
          BY <1>9, <4>2
        <5>2. QED BY <3>1, <4>2, <5>1
      <4>3. QED BY <4>1, <4>2
    <3>7. ASSUME NEW i \in 1 .. Len(new) PROVE new[i].revision = i
      <4>1. CASE i = Len(old) + 1
        BY <3>2, <3>4, <3>6, <4>1
      <4>2. CASE i # Len(old) + 1
        <5>1. i \in 1 .. Len(old)
          BY <3>2, <3>3, <4>2
        <5>2. QED BY <3>2, <3>6, <5>1
      <4>3. QED BY <4>1, <4>2
    <3>8. Len(new) = y.revision
      BY <3>2, <3>6
    <3>9. new[Len(new)].manifest = y.manifest /\ y.state \in StateAfter[new[Len(new)].op]
      BY <3>1, <3>2, <3>4
    <3>10. QED BY <3>5, <3>7, <3>8, <3>9
  <2>4. QED BY <2>1, <2>2, <2>3
<1>11. AuditTells(a)
  BY <1>6, <1>10 DEF AuditTells
<1>12. QED BY <1>6, <1>11 DEF a

\* The receipts of an applicable command are audited again.
LEMMA AfterAudited ==
    ASSUME NEW p, NEW r, Applicable(p, r)
    PROVE  ReceiptsAudited(After(p, r))
<1> DEFINE a == After(p, r)
           k == Response(Result(Context(p), r), r)
<1>1. Committed(p) /\ r \notin DOMAIN p.receipts /\ ReceiptsAudited(p)
  BY DEF Applicable, Committed
<1>2. Recorded(p, r, k, a)
  BY AfterRecorded
<1> HIDE DEF a, k
<1>3. /\ p.audit \in [DraftIds -> Seq(Events)] /\ DOMAIN p.receipts \subseteq Commands
      /\ r.draft \in DraftIds
  BY <1>1, <1>2, PartitionFields DEF Recorded
<1>4. /\ a.audit \in [DraftIds -> Seq(Events)] /\ Extends(p, a)
      /\ DOMAIN a.receipts = DOMAIN p.receipts \cup {r} /\ a.receipts[r] = k
  BY <1>1, <1>2, RecordedExtends
<1>5. SUFFICES ASSUME NEW q \in DOMAIN a.receipts, q.op # "issue"
               PROVE  \E i \in DOMAIN a.audit[q.draft] :
                          a.audit[q.draft][i] = Event(q.op, a.receipts[q])
  BY DEF ReceiptsAudited, a
<1>6. CASE q = r
  <2>1. /\ Len(a.audit[r.draft]) = Len(p.audit[r.draft]) + 1
        /\ a.audit[r.draft][Len(p.audit[r.draft]) + 1] = Event(r.op, k)
    BY <1>1, <1>2, <1>5, <1>6, RecordedExtends, SMTT(30)
  <2>2. Len(p.audit[r.draft]) + 1 \in DOMAIN a.audit[r.draft]
    <3>1. a.audit[r.draft] \in Seq(Events) /\ Len(p.audit[r.draft]) \in Nat
      BY <1>3, <1>4
    <3>2. QED BY <2>1, <3>1
  <2>3. QED BY <1>4, <1>6, <2>1, <2>2
<1>7. CASE q # r
  <2>1. q \in DOMAIN p.receipts /\ a.receipts[q] = p.receipts[q] /\ q.draft \in DraftIds
    BY <1>3, <1>4, <1>7, CommandFields DEF Extends
  <2>2. PICK i \in DOMAIN p.audit[q.draft] : p.audit[q.draft][i] = Event(q.op, p.receipts[q])
    BY <1>1, <1>5, <2>1 DEF ReceiptsAudited
  <2>3. p.audit[q.draft] \in Seq(Events) /\ a.audit[q.draft] \in Seq(Events)
    BY <1>3, <1>4, <2>1
  <2>4. i \in 1 .. Len(p.audit[q.draft]) /\ Len(p.audit[q.draft]) <= Len(a.audit[q.draft])
        /\ p.audit[q.draft][i] = a.audit[q.draft][i]
    BY <1>4, <2>1, <2>2, <2>3 DEF Extends
  <2>5. i \in DOMAIN a.audit[q.draft]
    BY <2>3, <2>4
  <2>6. QED BY <2>1, <2>2, <2>4, <2>5
<1>8. QED BY <1>6, <1>7

\* A commit leaves committed rows, later than those it was computed from.
LEMMA AfterCommitted ==
    ASSUME NEW p, NEW r, Applicable(p, r)
    PROVE  Committed(After(p, r)) /\ Extends(p, After(p, r))
<1> DEFINE a == After(p, r)
           c == Result(Context(p), r)
           k == Response(c, r)
<1>1. Committed(p) /\ r \in Commands /\ r \notin DOMAIN p.receipts /\ RowCount(a) <= MaxEntities
  BY DEF Applicable, CommandOK
<1>2. Recorded(p, r, k, a) /\ RowsAfter(p, r, c, a)
  BY AfterRecorded, AfterRows
<1>3. Context(a) \in Contexts /\ a.gen \in Nat \ {0}
  BY AfterEffect
<1>4. AuditTells(a) /\ IsFiniteSet(AuditRows(a)) /\ ReceiptsAudited(a)
  BY AfterTells, AfterAudited
<1> HIDE DEF a, c, k
<1>5. /\ a.audit \in [DraftIds -> Seq(Events)] /\ Extends(p, a) /\ a.tail \in Nat
      /\ a.receipts \in [DOMAIN a.receipts -> Responses]
      /\ DOMAIN a.receipts = DOMAIN p.receipts \cup {r}
  BY <1>1, <1>2, RecordedExtends
<1>6. DOMAIN a.receipts \subseteq Commands
  BY <1>1, <1>5, PartitionFields
<1>7. IsPartition(a)
  BY <1>2, <1>3, <1>5, <1>6 DEF IsPartition, RowsAfter
<1>8. Verified(a)
  BY <1>1, <1>2 DEF Verified, RowsAfter
<1>9. Committed(a)
  BY <1>4, <1>7, <1>8 DEF Committed
<1>10. QED BY <1>5, <1>9 DEF a

LEMMA ExtendsTransitive ==
    ASSUME NEW q, NEW p, NEW a, Extends(q, p), Extends(p, a),
           q.audit \in [DraftIds -> Seq(Events)], p.audit \in [DraftIds -> Seq(Events)],
           a.audit \in [DraftIds -> Seq(Events)]
    PROVE  Extends(q, a)
<1>1. ASSUME NEW d \in DraftIds
      PROVE  /\ Len(q.audit[d]) <= Len(a.audit[d])
             /\ \A i \in 1 .. Len(q.audit[d]) : q.audit[d][i] = a.audit[d][i]
  <2>1. Len(q.audit[d]) \in Nat /\ Len(p.audit[d]) \in Nat /\ Len(a.audit[d]) \in Nat
    OBVIOUS
  <2>2. /\ Len(q.audit[d]) <= Len(p.audit[d]) /\ Len(p.audit[d]) <= Len(a.audit[d])
        /\ \A i \in 1 .. Len(q.audit[d]) : q.audit[d][i] = p.audit[d][i]
        /\ \A i \in 1 .. Len(p.audit[d]) : p.audit[d][i] = a.audit[d][i]
    BY DEF Extends
  <2> DEFINE k == Len(q.audit[d])
             l == Len(p.audit[d])
             n == Len(a.audit[d])
  <2>3. k \in Nat /\ l \in Nat /\ n \in Nat /\ k <= l /\ l <= n
    BY <2>1, <2>2
  <2> HIDE DEF k, l, n
  <2>4. k <= n /\ \A i \in 1 .. k : i \in 1 .. l
    BY ONLY <2>3
  <2>5. \A i \in 1 .. k : q.audit[d][i] = a.audit[d][i]
    BY ONLY <2>2, <2>4, Zenon DEF k, l
  <2>6. QED BY <2>4, <2>5, Zenon DEF k, n
<1>2. \A r \in DOMAIN q.receipts : r \in DOMAIN a.receipts /\ a.receipts[r] = q.receipts[r]
  BY DEF Extends
<1>3. QED BY <1>1, <1>2 DEF Extends

LEMMA EarlierReflexive ==
    ASSUME NEW p, Committed(p)
    PROVE  Earlier(p, p)
<1>1. p.gen \in Nat /\ p.audit \in [DraftIds -> Seq(Events)]
  BY PartitionFields
<1>2. \A d \in DraftIds : Len(p.audit[d]) \in Nat
  BY <1>1
<1>3. QED BY <1>1, <1>2 DEF Earlier, Extends

\* A snapshot stays a beginning of the table across commits, and is never taken
\* for the table again.
LEMMA EarlierAfter ==
    ASSUME NEW p, NEW r, Applicable(p, r), NEW q, Earlier(q, p)
    PROVE  Earlier(q, After(p, r))
<1> DEFINE a == After(p, r)
<1>1. Committed(a) /\ Extends(p, a)
  BY AfterCommitted
<1>2. a.gen = p.gen + 1
  BY AfterEffect
<1>3. Committed(p) /\ Committed(q) /\ Extends(q, p) /\ q.gen <= p.gen
  BY DEF Applicable, Earlier
<1> HIDE DEF a
<1>4. /\ q.audit \in [DraftIds -> Seq(Events)] /\ p.audit \in [DraftIds -> Seq(Events)]
      /\ a.audit \in [DraftIds -> Seq(Events)] /\ p.gen \in Nat /\ q.gen \in Nat
  BY <1>1, <1>3, PartitionFields
<1>5. Extends(q, a)
  BY <1>1, <1>3, <1>4, ExtendsTransitive
<1>6. q.gen <= a.gen /\ q.gen # a.gen
  BY <1>2, <1>3, <1>4
<1>7. Earlier(q, a)
  BY <1>3, <1>4, <1>5, <1>6 DEF Earlier
<1>8. QED BY <1>7 DEF a

LEMMA CommandAfter ==
    ASSUME NEW p, NEW r, Applicable(p, r), NEW q, CommandOK(q, p)
    PROVE  CommandOK(q, After(p, r))
<1> DEFINE a == After(p, r)
           c == Result(Context(p), r)
<1>1. a.drafts = c.drafts
  BY AfterRows, ZenonT(60) DEF RowsAfter
<1>2. Effect(Context(p), r, c) /\ Context(p).drafts = p.drafts
  BY AfterEffect
<1> HIDE DEF a, c
<1>3. Committed(p) /\ q \in Commands
  BY DEF Applicable, CommandOK
<1>4. q.draft \in DraftIds /\ p.drafts \in [DraftIds -> Drafts \cup {NoDraft}]
  BY <1>3, CommandFields, PartitionFields
<1>5. CASE a.drafts[q.draft] = p.drafts[q.draft]
  <2>1. CommandOK(q, a)
    BY <1>5 DEF CommandOK
  <2>2. QED BY <2>1 DEF a
<1>6. CASE a.drafts[q.draft] # p.drafts[q.draft]
  <2>1. q.draft = r.draft /\ r.op # "issue"
    BY <1>1, <1>2, <1>4, <1>6 DEF Effect
  <2>2. ASSUME p.drafts[q.draft] # NoDraft
        PROVE  /\ a.drafts[q.draft] \in Drafts
               /\ a.drafts[q.draft].revision = p.drafts[q.draft].revision + 1
               /\ a.drafts[q.draft].version = p.drafts[q.draft].version
    BY <1>1, <1>2, <2>1, <2>2 DEF Effect
  <2>3. ASSUME q.op = "issue"
        PROVE  a.drafts[q.draft] # NoDraft /\ q.revision < a.drafts[q.draft].revision
               /\ q.revision \in Nat /\ a.drafts[q.draft].revision \in Nat
    <3>1. p.drafts[q.draft] # NoDraft /\ q.revision <= p.drafts[q.draft].revision
      BY <2>3 DEF CommandOK
    <3>2. q.revision \in Nat
      BY <1>3, <2>3 DEF Commands, CreateCommands, ReplaceCommands, PlainCommands, ReviewCommands,
                        ApproveCommands, PublishCommands, SupersedeCommands
    <3>3. p.drafts[q.draft].revision \in Nat
      BY <1>4, <3>1 DEF Drafts
    <3>4. QED BY <2>2, <3>1, <3>2, <3>3, NullAssumption
  <2>4. ASSUME q.op = "supersede"
        PROVE  a.drafts[q.draft] # NoDraft /\ a.drafts[q.draft].version = q.version
    BY <2>2, <2>4, NullAssumption DEF CommandOK
  <2>5. CommandOK(q, a)
    BY <1>3, <2>3, <2>4 DEF CommandOK
  <2>6. QED BY <2>5 DEF a
<1>7. QED BY <1>5, <1>6

-----------------------------------------------------------------------------
(* What a transaction reads *)

\* Rows with the same state row are the same rows.
LEMMA SameAnchor ==
    ASSUME NEW p, NEW q, IsPartition(p), p.anchor = Anchor(p), q.anchor = Anchor(q),
           q = [audit |-> q.audit, tail |-> q.tail, drafts |-> q.drafts, gen |-> q.gen,
                anchor |-> q.anchor, opReceipts |-> q.opReceipts, published |-> q.published,
                receipts |-> q.receipts, superseded |-> q.superseded],
           q.anchor = p.anchor
    PROVE  q = p
<1>1. Anchor(p) = Anchor(q)
  OBVIOUS
<1>2. /\ p.audit = q.audit /\ p.tail = q.tail /\ p.drafts = q.drafts /\ p.gen = q.gen
      /\ p.opReceipts = q.opReceipts /\ p.published = q.published /\ p.receipts = q.receipts
      /\ p.superseded = q.superseded
  BY <1>1 DEF Anchor
<1>3. p = [audit |-> p.audit, tail |-> p.tail, drafts |-> p.drafts, gen |-> p.gen,
           anchor |-> p.anchor, opReceipts |-> p.opReceipts, published |-> p.published,
           receipts |-> p.receipts, superseded |-> p.superseded]
  BY DEF IsPartition
<1>4. QED BY <1>2, <1>3

\* Pages that verify are of one commit, that of the state row.
LEMMA VerifiedRead ==
    ASSUME NEW p, NEW q, Committed(p), Earlier(q, p), NEW b \in 0 .. 7, Verified(Read(q, p, b))
    PROVE  Earlier(Read(q, p, b), p)
<1> DEFINE s == Read(q, p, b)
<1>1. IsPartition(p) /\ IsPartition(q) /\ p.anchor = Anchor(p) /\ q.anchor = Anchor(q)
  BY DEF Earlier, Committed, Verified
<1>2. s.anchor = Anchor(s)
  BY DEF Verified
<1>3. DOMAIN p = {"audit", "tail", "drafts", "gen", "anchor", "opReceipts", "published",
                  "receipts", "superseded"}
  <2>1. p = [audit |-> p.audit, tail |-> p.tail, drafts |-> p.drafts, gen |-> p.gen,
             anchor |-> p.anchor, opReceipts |-> p.opReceipts, published |-> p.published,
             receipts |-> p.receipts, superseded |-> p.superseded]
    BY <1>1 DEF IsPartition
  <2> DEFINE t == [audit |-> p.audit, tail |-> p.tail, drafts |-> p.drafts, gen |-> p.gen,
             anchor |-> p.anchor, opReceipts |-> p.opReceipts, published |-> p.published,
             receipts |-> p.receipts, superseded |-> p.superseded]
  <2>2. DOMAIN t = {"audit", "tail", "drafts", "gen", "anchor", "opReceipts", "published",
                  "receipts", "superseded"}
    OBVIOUS
  <2>3. QED BY <2>1, <2>2
<1>4. s = [f \in DOMAIN p |-> IF Rank[f] <= b THEN q[f] ELSE p[f]]
  BY DEF Read
<1>5. s.anchor = (IF 3 <= b THEN q.anchor ELSE p.anchor)
  <2>1. Rank["anchor"] = 3
    BY DEF Rank
  <2>2. "anchor" \in DOMAIN p
    BY <1>3
  <2>3. QED BY <1>4, <2>1, <2>2
<1>6. s = [audit |-> s.audit, tail |-> s.tail, drafts |-> s.drafts, gen |-> s.gen,
           anchor |-> s.anchor, opReceipts |-> s.opReceipts, published |-> s.published,
           receipts |-> s.receipts, superseded |-> s.superseded]
  BY <1>3, <1>4
<1> HIDE DEF s
<1>7. CASE 3 <= b
  <2>1. s.anchor = q.anchor
    BY <1>5, <1>7
  <2>2. s = q
    BY <1>1, <1>2, <1>6, <2>1, SameAnchor
  <2>3. QED BY <2>2 DEF s
<1>8. CASE ~ (3 <= b)
  <2>1. s.anchor = p.anchor
    BY <1>5, <1>8
  <2>2. s = p
    BY <1>1, <1>2, <1>6, <2>1, SameAnchor
  <2>3. Earlier(s, p)
    BY <2>2, EarlierReflexive
  <2>4. QED BY <2>3 DEF s
<1>9. QED BY <1>7, <1>8

-----------------------------------------------------------------------------
(* What a client asks for *)

\* What a client asks for has the fields of the draft it read.
LEMMA RequestOK ==
    ASSUME NEW p, Committed(p), NEW r \in Requests(Context(p))
    PROVE  CommandOK(r, p)
<1> DEFINE c == Context(p)
<1>1. c \in Contexts /\ c.drafts = p.drafts
  <2>1. p.gen \in Nat \ {0} /\ c \in Contexts
    BY DEF Committed, IsPartition
  <2>2. QED BY <2>1, PartitionContext
<1> HIDE DEF c
<1>2. /\ c.drafts \in [DraftIds -> Drafts \cup {NoDraft}] /\ c.opReceipts \subseteq OpReceipts
      /\ c.published \in [Versions -> Publications \cup {NoPublication}]
  BY <1>1 DEF Contexts
<1>3. \A d \in Open(c) : d \in DraftIds /\ c.drafts[d] \in Drafts /\ p.drafts[d] # NoDraft
  BY <1>1, <1>2 DEF Open
<1>4. \A d \in Open(c) : c.drafts[d].revision \in Nat /\ c.drafts[d].manifest \in Manifests
                         /\ c.drafts[d].version \in Versions
  BY <1>3 DEF Drafts
<1>5. \A d : \A x \in ReceiptsOf(c, d) : x \in OpReceipts
  BY <1>2 DEF ReceiptsOf
<1>6. /\ Published(c) \subseteq Versions /\ Active(c) \subseteq Versions
      /\ \A v \in Published(c) : c.published[v].manifest \in Manifests
  BY <1>2 DEF Published, Active, Publications
<1>7. r \in Requests(c)
  BY DEF c
<1>8. CASE r \in CreateRequests(c)
  <2>1. r \in CreateCommands /\ r.op = "create"
    BY <1>6, <1>8 DEF CreateRequests, CreateCommands
  <2>2. QED BY <2>1 DEF CommandOK, Commands
<1>9. CASE r \in ReplaceRequests(c)
  <2>1. r \in ReplaceCommands /\ r.op = "replace"
    BY <1>3, <1>4, <1>9 DEF ReplaceRequests, ReplaceCommands
  <2>2. QED BY <2>1 DEF CommandOK, Commands
<1>10. CASE r \in PlainRequests(c, "validate") \cup PlainRequests(c, "submit")
  <2>1. r \in PlainCommands /\ r.op \in {"validate", "submit"}
    BY <1>3, <1>4, <1>10 DEF PlainRequests, Transition, PlainCommands
  <2>2. QED BY <2>1 DEF CommandOK, Commands
<1>11. CASE r \in ReviewRequests(c)
  <2>1. r \in ReviewCommands /\ r.op = "review"
    BY <1>3, <1>4, <1>11 DEF ReviewRequests, ReviewCommands
  <2>2. QED BY <2>1 DEF CommandOK, Commands
<1>12. CASE r \in IssueRequests(c)
  <2>1. r \in PlainCommands /\ r.op = "issue" /\ r.draft \in Open(c)
        /\ r.revision = c.drafts[r.draft].revision
    BY <1>3, <1>4, <1>12 DEF IssueRequests, PlainRequests, Transition, PlainCommands
  <2>2. c.drafts[r.draft].state \in {"in_review", "approved"}
    BY <1>12 DEF IssueRequests
  <2>3. r.revision \in Nat
    BY <2>1 DEF PlainCommands
  <2>4. r.revision <= p.drafts[r.draft].revision
    BY <1>1, <2>1, <2>3
  <2>5. QED BY <1>1, <1>3, <2>1, <2>2, <2>4 DEF CommandOK, Commands
<1>13. CASE r \in ApproveRequests(c)
  <2>1. PICK d \in Open(c) : \E x \in ReceiptsOf(c, d) :
          r = [op |-> "approve", draft |-> d, revision |-> c.drafts[d].revision,
               manifest |-> c.drafts[d].manifest, receipt |-> x]
    BY <1>13 DEF ApproveRequests
  <2>2. r \in ApproveCommands /\ r.op = "approve"
    BY <1>3, <1>4, <1>5, <2>1 DEF ApproveCommands
  <2>3. QED BY <2>2 DEF CommandOK, Commands
<1>14. CASE r \in PublishRequests(c)
  <2>1. PICK d \in Open(c) :
          /\ c.drafts[d].approval # NoApproval
          /\ \E x \in ReceiptsOf(c, d) :
               r = [op |-> "publish", draft |-> d, revision |-> c.drafts[d].revision,
                    manifest |-> c.drafts[d].manifest, receipt |-> x,
                    approval |-> c.drafts[d].approval.revision]
    BY <1>14 DEF PublishRequests
  <2>2. c.drafts[d].approval.revision \in Nat
    BY <1>3, <2>1 DEF Drafts, Approvals
  <2>3. r \in PublishCommands /\ r.op = "publish"
    BY <1>3, <1>4, <1>5, <2>1, <2>2 DEF PublishCommands
  <2>4. QED BY <2>3 DEF CommandOK, Commands
<1>15. CASE r \in SupersedeRequests(c)
  <2>1. PICK d \in Open(c), w \in Published(c) :
          r = [op |-> "supersede", draft |-> d, revision |-> c.drafts[d].revision,
               manifest |-> c.drafts[d].manifest, version |-> c.drafts[d].version,
               replacement |-> w, replacementManifest |-> c.published[w].manifest]
    BY <1>15 DEF SupersedeRequests
  <2>2. r \in SupersedeCommands /\ r.op = "supersede" /\ r.draft = d
        /\ r.version = c.drafts[d].version
    BY <1>3, <1>4, <1>6, <2>1 DEF SupersedeCommands
  <2>3. QED BY <1>1, <1>3, <2>2 DEF CommandOK, Commands
<1>16. QED BY <1>7, <1>8, <1>9, <1>10, <1>11, <1>12, <1>13, <1>14, <1>15 DEF Requests

-----------------------------------------------------------------------------
(* Answers *)

\* The audit chain has the event of a receipt once.
LEMMA AnswerOnce ==
    ASSUME NEW p, Committed(p), NEW r \in DOMAIN p.receipts, r.op # "issue"
    PROVE  Cardinality({i \in DOMAIN p.audit[r.draft] :
                          p.audit[r.draft][i] = Event(r.op, p.receipts[r])}) = 1
<1> DEFINE t == p.audit[r.draft]
           e == Event(r.op, p.receipts[r])
           S == {i \in DOMAIN t : t[i] = e}
<1>1. r.draft \in DraftIds /\ p.audit \in [DraftIds -> Seq(Events)]
  BY PartitionFields, CommandFields
<1>2. t \in Seq(Events) /\ DOMAIN t = 1 .. Len(t)
  BY <1>1
<1>3. PICK i \in DOMAIN t : t[i] = e
  BY DEF Committed, ReceiptsAudited
<1>4. \A j \in 1 .. Len(t) : t[j].revision = j
  <2>1. t # <<>>
    BY <1>2, <1>3
  <2>2. QED BY <1>1, <2>1 DEF Committed, AuditTells
<1>5. \A j \in S : j = i
  <2> HIDE DEF e
  <2>1. \A j \in S : t[j] = t[i] /\ j \in 1 .. Len(t)
    BY <1>2, <1>3
  <2>2. QED BY <1>2, <1>3, <1>4, <2>1
<1>6. S = {i}
  BY <1>3, <1>5
<1>7. QED BY <1>6, FS_Singleton

\* A response that is recorded may be given.
LEMMA RecordedAnswer ==
    ASSUME Committed(part'), NEW r \in DOMAIN part'.receipts, NEW k, part'.receipts[r] = k,
           answer' = [request |-> r, response |-> k]
    PROVE  AnswersHold'
<1>1. answer'.request = r /\ answer'.response = k
  OBVIOUS
<1>2. r.op # "issue" => Cardinality({i \in DOMAIN part'.audit[r.draft] :
                          part'.audit[r.draft][i] = Event(r.op, part'.receipts[r])}) = 1
  BY AnswerOnce
<1>3. QED BY <1>1, <1>2 DEF AnswersHold

-----------------------------------------------------------------------------
(* Steps *)

\* A step of a replica that leaves the rows alone.
LEMMA ReplicaStep ==
    ASSUME ReplicasOK, UNCHANGED part, NEW x \in Replicas, NEW w, ReplicaOK(w, part),
           rep' = [rep EXCEPT ![x] = w]
    PROVE  ReplicasOK'
<1>1. rep' = [y \in Replicas |-> IF y = x THEN w ELSE rep[y]]
  BY DEF ReplicasOK
<1>2. ASSUME NEW y \in Replicas PROVE ReplicaOK(rep'[y], part')
  <2>1. ReplicaOK(rep[y], part)
    BY DEF ReplicasOK
  <2>2. rep'[y] = IF y = x THEN w ELSE rep[y]
    BY <1>1
  <2>3. QED BY <2>1, <2>2
<1>3. rep' = [y \in Replicas |-> rep'[y]]
  BY <1>1
<1>4. QED BY <1>2, <1>3 DEF ReplicasOK

LEMMA IdleOK == \A p : ReplicaOK(Idle, p)
  BY DEF ReplicaOK

LEMMA CloseStep ==
    ASSUME CommandsOK, UNCHANGED part, NEW r, Close(r)
    PROVE  CommandsOK'
<1>1. tries' = [q \in DOMAIN tries \ {r} |-> tries[q]]
  BY DEF Close, Restrict
<1>2. QED BY <1>1 DEF CommandsOK

\* A commit: the commands and the transactions of the others go on.
LEMMA CommitStep ==
    ASSUME CommandsOK, ReplicasOK, NEW x \in Replicas, NEW r, Applicable(part, r),
           part' = After(part, r), rep' = [rep EXCEPT ![x] = Idle],
           UNCHANGED tries \/ Close(r)
    PROVE  PartitionOK' /\ CommandsOK' /\ ReplicasOK'
<1>1. Committed(part') /\ part' # NoPartition
  BY AfterCommitted, AfterEffect
<1>2. \A q : CommandOK(q, part) => CommandOK(q, part')
  BY CommandAfter
<1>3. \A q : Earlier(q, part) => Earlier(q, part')
  BY EarlierAfter
<1>4. CommandsOK'
  <2>1. CASE UNCHANGED tries
    BY <1>1, <1>2, <2>1 DEF CommandsOK
  <2>2. CASE Close(r)
    <3>1. tries' = [q \in DOMAIN tries \ {r} |-> tries[q]]
      BY <2>2 DEF Close, Restrict
    <3>2. QED BY <1>1, <1>2, <3>1 DEF CommandsOK
  <2>3. QED BY <2>1, <2>2
<1>5. ReplicasOK'
  <2>1. rep' = [y \in Replicas |-> IF y = x THEN Idle ELSE rep[y]]
    BY DEF ReplicasOK
  <2>2. ASSUME NEW w, ReplicaOK(w, part) PROVE ReplicaOK(w, part')
    BY <1>1, <1>2, <1>3, <2>2 DEF ReplicaOK
  <2>3. ASSUME NEW y \in Replicas PROVE ReplicaOK(rep'[y], part')
    <3>1. rep'[y] = IF y = x THEN Idle ELSE rep[y]
      BY <2>1
    <3>2. ReplicaOK(rep[y], part)
      BY DEF ReplicasOK
    <3>3. QED BY <2>2, <3>1, <3>2, IdleOK
  <2>4. rep' = [y \in Replicas |-> rep'[y]]
    BY <2>1
  <2>5. QED BY <2>3, <2>4 DEF ReplicasOK
<1>6. QED BY <1>1, <1>4, <1>5 DEF PartitionOK

LEMMA EmptyIsContext == EmptyContext \in Contexts
  BY DEF EmptyContext, Contexts

\* The state row alone is a committed partition.
LEMMA RootCommitted == Committed(Root) /\ Root # NoPartition /\ Context(Root) = EmptyContext
<1> DEFINE q == [audit |-> [d \in DraftIds |-> <<>>], tail |-> 0, drafts |-> EmptyContext.drafts,
                 gen |-> 1, opReceipts |-> EmptyContext.opReceipts,
                 published |-> EmptyContext.published, receipts |-> <<>>,
                 superseded |-> EmptyContext.superseded]
           a == Root
<1>1. /\ q.audit = [d \in DraftIds |-> <<>>] /\ q.tail = 0 /\ q.gen = 1 /\ q.receipts = <<>>
      /\ q.drafts = EmptyContext.drafts /\ q.opReceipts = EmptyContext.opReceipts
      /\ q.published = EmptyContext.published /\ q.superseded = EmptyContext.superseded
      /\ q = [audit |-> q.audit, tail |-> q.tail, drafts |-> q.drafts, gen |-> q.gen,
              opReceipts |-> q.opReceipts, published |-> q.published,
              receipts |-> q.receipts, superseded |-> q.superseded]
  OBVIOUS
<1>2. a = Anchored(q)
  BY DEF Root
<1> HIDE DEF a, q
<1>3. /\ a = [audit |-> q.audit, tail |-> q.tail, drafts |-> q.drafts, gen |-> q.gen,
              anchor |-> q, opReceipts |-> q.opReceipts, published |-> q.published,
              receipts |-> q.receipts, superseded |-> q.superseded]
      /\ Anchor(a) = q
  BY <1>1, <1>2, AnchoredRecord
<1>4. /\ a.audit = [d \in DraftIds |-> <<>>] /\ a.tail = 0 /\ a.gen = 1 /\ a.receipts = <<>>
      /\ a.drafts = EmptyContext.drafts /\ a.opReceipts = EmptyContext.opReceipts
      /\ a.published = EmptyContext.published /\ a.superseded = EmptyContext.superseded
      /\ a.anchor = Anchor(a)
      /\ a = [audit |-> a.audit, tail |-> a.tail, drafts |-> a.drafts, gen |-> a.gen,
              anchor |-> a.anchor, opReceipts |-> a.opReceipts, published |-> a.published,
              receipts |-> a.receipts, superseded |-> a.superseded]
  BY <1>1, <1>3
<1>5. a # NoPartition /\ Context(a) = EmptyContext
  <2>1. a.gen \in Nat \ {0}
    BY <1>4
  <2>2. EmptyContext = [drafts |-> EmptyContext.drafts, opReceipts |-> EmptyContext.opReceipts,
                        published |-> EmptyContext.published,
                        superseded |-> EmptyContext.superseded]
    BY DEF EmptyContext
  <2>3. QED BY <1>4, <2>1, <2>2, PartitionContext
<1>6. DOMAIN a.receipts = {}
  BY <1>4
<1>7. IsPartition(a)
  <2>1. a.audit \in [DraftIds -> Seq(Events)]
    BY <1>4
  <2>2. a.receipts \in [DOMAIN a.receipts -> Responses]
    BY <1>4, <1>6
  <2>3. QED BY <1>4, <1>5, <1>6, <2>1, <2>2, EmptyIsContext DEF IsPartition
<1>8. AuditRows(a) = {}
  BY <1>4 DEF AuditRows
<1>9. IsFiniteSet(AuditRows(a)) /\ Cardinality(AuditRows(a)) = 0 /\ Cardinality({}) = 0
  BY <1>8, FS_EmptySet
<1>10. AuditTells(a)
  BY <1>4, <1>9 DEF AuditTells, EmptyContext
<1>11. Verified(a)
  <2>1. Open(a) = {} /\ Published(a) = {} /\ a.opReceipts = {}
        /\ {v \in Versions : a.superseded[v] # NoVersion} = {}
    BY <1>4 DEF Open, Published, EmptyContext
  <2>2. RowCount(a) = 1
    <3>1. /\ Cardinality(Open(a)) = 0 /\ Cardinality(Published(a)) = 0
          /\ Cardinality(a.opReceipts) = 0 /\ Cardinality(DOMAIN a.receipts) = 0
          /\ Cardinality({v \in Versions : a.superseded[v] # NoVersion}) = 0
      BY <1>6, <1>9, <2>1
    <3>2. RowCount(a) = 0 + 0 + 1 + 0 + 0 + 0 + 0
      BY <1>4, <3>1 DEF RowCount
    <3>3. QED BY <3>2
  <2>3. QED BY <1>4, <2>2, StoreAssumption DEF Verified
<1>12. ReceiptsAudited(a)
  BY <1>6 DEF ReceiptsAudited
<1>13. Committed(a)
  BY <1>7, <1>9, <1>10, <1>11, <1>12 DEF Committed
<1>14. QED BY <1>5, <1>13 DEF a

LEMMA InitInv == Init => IInv
<1> SUFFICES ASSUME Init PROVE IInv
  OBVIOUS
<1>1. PartitionOK /\ AnswersHold
  BY DEF Init, PartitionOK, AnswersHold
<1>2. CommandsOK
  BY DEF Init, CommandsOK
<1>3. ReplicasOK
  <2>1. rep = [x \in Replicas |-> Idle]
    BY DEF Init
  <2>2. QED BY <2>1, IdleOK DEF ReplicasOK
<1>4. QED BY <1>1, <1>2, <1>3 DEF IInv

\* A transaction that has read its rows.
LEMMA Mutating ==
    ASSUME IInv, NEW x \in Replicas, rep[x].pc = "mutating"
    PROVE  /\ Committed(part) /\ part # NoPartition
           /\ CommandOK(rep[x].request, part) /\ Earlier(rep[x].snap, part)
<1>1. ReplicaOK(rep[x], part) /\ PartitionOK
  BY DEF IInv, ReplicasOK
<1>2. rep[x].pc # "idle" /\ rep[x].pc # "bootstrap" /\ rep[x].pc # "reading"
  OBVIOUS
<1>3. rep[x] # Idle /\ rep[x] # Bootstrapping
  BY <1>2 DEF Idle, Bootstrapping
<1>4. QED BY <1>1, <1>2, <1>3 DEF ReplicaOK, PartitionOK

LEMMA Reading ==
    ASSUME IInv, NEW x \in Replicas, rep[x].pc = "reading"
    PROVE  /\ Committed(part) /\ part # NoPartition
           /\ CommandOK(rep[x].request, part) /\ Earlier(rep[x].page, part)
<1>1. ReplicaOK(rep[x], part) /\ PartitionOK
  BY DEF IInv, ReplicasOK
<1>2. rep[x].pc # "idle" /\ rep[x].pc # "bootstrap" /\ rep[x].pc # "mutating"
  OBVIOUS
<1>3. rep[x] # Idle /\ rep[x] # Bootstrapping
  BY <1>2 DEF Idle, Bootstrapping
<1>4. QED BY <1>1, <1>2, <1>3 DEF ReplicaOK, PartitionOK

\* A batch that applies does so to the rows it was computed from.
LEMMA BatchStep ==
    ASSUME IInv, NEW x \in Replicas, rep[x].pc = "mutating",
           rep[x].request \notin DOMAIN rep[x].snap.receipts,
           Accepts(Context(rep[x].snap), rep[x].request),
           RowCount(After(rep[x].snap, rep[x].request)) <= MaxEntities,
           BatchApplies(part, rep[x].snap, rep[x].request)
    PROVE  /\ rep[x].snap = part /\ Applicable(part, rep[x].request)
           /\ Written(part, rep[x].snap, rep[x].request) = After(part, rep[x].request)
<1> DEFINE s == rep[x].snap
           r == rep[x].request
<1>1. Committed(part) /\ CommandOK(r, part) /\ Earlier(s, part)
  BY Mutating
<1>2. s = part
  BY <1>1 DEF Earlier, BatchApplies
<1>3. Applicable(part, r)
  BY <1>1, <1>2 DEF Applicable
<1>4. QED BY <1>2, <1>3, WrittenIsAfter

-----------------------------------------------------------------------------
(* One lemma per action *)

LEMMA BootstrapReadInv ==
    ASSUME IInv, NEW x \in Replicas, BootstrapRead(x)
    PROVE  IInv'
<1>1. ReplicaOK(Bootstrapping, part)
  BY DEF ReplicaOK
<1>2. ReplicasOK'
  BY <1>1, ReplicaStep DEF BootstrapRead, IInv, Bootstrapping
<1>3. QED BY <1>2 DEF IInv, BootstrapRead, PartitionOK, CommandsOK, AnswersHold

LEMMA BootstrapCreateInv ==
    ASSUME IInv, NEW x \in Replicas, BootstrapCreate(x)
    PROVE  IInv'
<1>1. CASE part = NoPartition
  <2>1. part' = Root /\ rep' = [rep EXCEPT ![x] = Idle] /\ UNCHANGED tries
    BY <1>1 DEF BootstrapCreate
  <2>2. PartitionOK' /\ part' # NoPartition
    BY <2>1, RootCommitted DEF PartitionOK
  <2>3. CommandsOK'
    BY <1>1, <2>1 DEF IInv, CommandsOK
  <2>4. ReplicasOK'
    <3>1. \A y \in Replicas : rep[y] \in {Idle, Bootstrapping}
      BY <1>1 DEF IInv, ReplicasOK, ReplicaOK
    <3>2. rep' = [y \in Replicas |-> IF y = x THEN Idle ELSE rep[y]]
      BY <2>1 DEF IInv, ReplicasOK
    <3>3. \A y \in Replicas : rep'[y] \in {Idle, Bootstrapping}
      BY <3>1, <3>2
    <3>4. rep' = [y \in Replicas |-> rep'[y]]
      BY <3>2
    <3>5. QED BY <3>3, <3>4 DEF ReplicasOK, ReplicaOK
  <2>5. QED BY <2>2, <2>3, <2>4 DEF IInv, AnswersHold, BootstrapCreate
<1>2. CASE part # NoPartition
  <2>1. UNCHANGED <<part, tries>> /\ rep' = [rep EXCEPT ![x] = Idle]
    BY <1>2 DEF BootstrapCreate
  <2>2. ReplicasOK'
    BY <2>1, IdleOK, ReplicaStep DEF IInv
  <2>3. QED BY <2>1, <2>2 DEF IInv, BootstrapCreate, PartitionOK, CommandsOK, AnswersHold
<1>3. QED BY <1>1, <1>2

LEMMA SendInv ==
    ASSUME IInv, NEW r \in Requests(Context(part)), Send(r)
    PROVE  IInv'
<1>1. part # NoPartition /\ UNCHANGED <<part, rep>> /\ tries' = With(tries, r, 0)
  BY DEF Send
<1>2. Committed(part)
  BY <1>1 DEF IInv, PartitionOK
<1>3. CommandOK(r, part)
  BY <1>2, RequestOK
<1>4. tries' = [q \in DOMAIN tries \cup {r} |-> IF q = r THEN 0 ELSE tries[q]]
  BY <1>1 DEF With
<1>5. CommandsOK'
  <2>1. tries' \in [DOMAIN tries' -> Nat]
    BY <1>4 DEF IInv, CommandsOK
  <2>2. \A q \in DOMAIN tries' : CommandOK(q, part)
    BY <1>3, <1>4 DEF IInv, CommandsOK
  <2>3. QED BY <1>1, <2>1, <2>2 DEF CommandsOK
<1>6. QED BY <1>1, <1>5 DEF IInv, Send, PartitionOK, ReplicasOK, AnswersHold

LEMMA AbandonInv ==
    ASSUME IInv, NEW r, Abandon(r)
    PROVE  IInv'
<1>1. UNCHANGED <<part, rep>> /\ Close(r)
  BY DEF Abandon
<1>2. CommandsOK'
  BY <1>1, CloseStep DEF IInv
<1>3. QED BY <1>1, <1>2 DEF IInv, Abandon, PartitionOK, ReplicasOK, AnswersHold

LEMMA EnterInv ==
    ASSUME IInv, NEW x \in Replicas, NEW r \in DOMAIN tries, Enter(x, r)
    PROVE  IInv'
<1> DEFINE w == [pc |-> "reading", request |-> r, page |-> part]
<1>1. UNCHANGED part /\ rep' = [rep EXCEPT ![x] = w] /\ tries' = [tries EXCEPT ![r] = @ + 1]
  BY DEF Enter
<1>2. part # NoPartition /\ CommandOK(r, part) /\ Committed(part)
  BY DEF IInv, CommandsOK, PartitionOK
<1>3. Earlier(part, part)
  BY <1>2, EarlierReflexive
<1>4. ReplicaOK(w, part)
  BY <1>2, <1>3 DEF ReplicaOK
<1> HIDE DEF w
<1>5. ReplicasOK'
  BY <1>1, <1>4, ReplicaStep DEF IInv
<1>6. CommandsOK'
  BY <1>1 DEF IInv, CommandsOK
<1>7. QED BY <1>1, <1>5, <1>6 DEF IInv, Enter, PartitionOK, AnswersHold

LEMMA LoadInv ==
    ASSUME IInv, NEW x \in Replicas, Load(x)
    PROVE  IInv'
<1>1. UNCHANGED <<part, tries>> /\ rep[x].pc = "reading"
  BY DEF Load
<1>2. PICK b \in 0 .. 7 :
        rep' = [rep EXCEPT ![x] =
                  IF Verified(Read(rep[x].page, part, b))
                  THEN [pc |-> "mutating", request |-> rep[x].request,
                        snap |-> Read(rep[x].page, part, b)]
                  ELSE Idle]
  BY DEF Load
<1> DEFINE s == Read(rep[x].page, part, b)
           w == [pc |-> "mutating", request |-> rep[x].request, snap |-> s]
<1>3. /\ Committed(part) /\ part # NoPartition
      /\ CommandOK(rep[x].request, part) /\ Earlier(rep[x].page, part)
  BY <1>1, Reading
<1>4. CASE Verified(s)
  <2>1. Earlier(s, part)
    BY <1>3, <1>4, VerifiedRead
  <2>2. rep' = [rep EXCEPT ![x] = w]
    BY <1>2, <1>4
  <2> HIDE DEF s
  <2>3. ReplicaOK(w, part)
    BY <1>3, <2>1 DEF ReplicaOK
  <2> HIDE DEF w
  <2>4. ReplicasOK'
    BY <1>1, <2>2, <2>3, ReplicaStep DEF IInv
  <2>5. QED BY <1>1, <2>4 DEF IInv, Load, PartitionOK, CommandsOK, AnswersHold
<1>5. CASE ~ Verified(s)
  <2>1. rep' = [rep EXCEPT ![x] = Idle]
    BY <1>2, <1>5
  <2>2. ReplicasOK'
    BY <1>1, <2>1, IdleOK, ReplicaStep DEF IInv
  <2>3. QED BY <1>1, <2>2 DEF IInv, Load, PartitionOK, CommandsOK, AnswersHold
<1>6. QED BY <1>4, <1>5

LEMMA ReplayInv ==
    ASSUME IInv, NEW x \in Replicas, Replay(x)
    PROVE  IInv'
<1> DEFINE s == rep[x].snap
           r == rep[x].request
<1>1. /\ rep[x].pc = "mutating" /\ r \in DOMAIN s.receipts /\ Close(r)
      /\ answer' = [request |-> r, response |-> s.receipts[r]]
      /\ rep' = [rep EXCEPT ![x] = Idle] /\ UNCHANGED part
  BY DEF Replay
<1>2. Committed(part) /\ Earlier(s, part)
  BY <1>1, Mutating
<1> HIDE DEF s, r
<1>3. r \in DOMAIN part.receipts /\ part.receipts[r] = s.receipts[r]
  BY <1>1, <1>2 DEF Earlier, Extends
<1>4. AnswersHold'
  <2>1. Committed(part') /\ r \in DOMAIN part'.receipts /\ part'.receipts[r] = s.receipts[r]
    BY <1>1, <1>2, <1>3
  <2>2. QED BY <1>1, <2>1, RecordedAnswer
<1>5. ReplicasOK'
  BY <1>1, IdleOK, ReplicaStep DEF IInv
<1>6. CommandsOK'
  BY <1>1, CloseStep DEF IInv
<1>7. QED BY <1>1, <1>4, <1>5, <1>6 DEF IInv, PartitionOK

LEMMA RefuseInv ==
    ASSUME IInv, NEW x \in Replicas, Refuse(x)
    PROVE  IInv'
<1>1. /\ UNCHANGED part /\ Close(rep[x].request) /\ answer' = NoAnswer
      /\ rep' = [rep EXCEPT ![x] = Idle]
  BY DEF Refuse
<1>2. ReplicasOK'
  BY <1>1, IdleOK, ReplicaStep DEF IInv
<1>3. CommandsOK'
  BY <1>1, CloseStep DEF IInv
<1>4. QED BY <1>1, <1>2, <1>3 DEF IInv, PartitionOK, AnswersHold

LEMMA CommitInv ==
    ASSUME IInv, NEW x \in Replicas, Commit(x)
    PROVE  IInv'
<1> DEFINE s == rep[x].snap
           r == rep[x].request
<1>1. /\ rep[x].pc = "mutating" /\ r \notin DOMAIN s.receipts /\ Accepts(Context(s), r)
      /\ RowCount(After(s, r)) <= MaxEntities /\ rep' = [rep EXCEPT ![x] = Idle]
  BY DEF Commit
<1>2. CASE BatchApplies(part, s, r)
  <2>1. s = part /\ Applicable(part, r) /\ Written(part, s, r) = After(part, r)
    BY <1>1, <1>2, BatchStep
  <2>2. /\ part' = Written(part, s, r)
        /\ \/ /\ answer' = [request |-> r, response |-> Response(After(s, r), r)]
              /\ Close(r)
           \/ answer' = NoAnswer /\ UNCHANGED tries
    BY <1>2 DEF Commit
  <2> HIDE DEF s, r
  <2>3. part' = After(part, r)
    BY <2>1, <2>2
  <2>4. PartitionOK' /\ CommandsOK' /\ ReplicasOK'
    BY <1>1, <2>1, <2>2, <2>3, CommitStep DEF IInv
  <2>5. AnswersHold'
    <3>1. CASE answer' = NoAnswer
      BY <3>1 DEF AnswersHold
    <3>2. CASE answer' = [request |-> r, response |-> Response(After(s, r), r)]
      <4> DEFINE c == Result(Context(part), r)
                 k == Response(c, r)
      <4>1. Recorded(part, r, k, part') /\ part'.drafts = c.drafts
        <5>1. Recorded(part, r, k, After(part, r))
          BY <2>1, AfterRecorded
        <5>2. RowsAfter(part, r, c, After(part, r))
          BY AfterRows
        <5> HIDE DEF c
        <5>3. After(part, r).drafts = c.drafts
          BY <5>2 DEF RowsAfter
        <5>4. QED BY <2>3, <5>1, <5>3
      <4>2. Response(After(s, r), r) = k
        BY <2>1, <2>3, <4>1 DEF Response
      <4> HIDE DEF k
      <4>3. r \in DOMAIN part'.receipts /\ part'.receipts[r] = k
        <5>1. Committed(part) /\ r \notin DOMAIN part.receipts
          BY <2>1 DEF Applicable
        <5>2. QED BY <4>1, <5>1, RecordedExtends
      <4>4. Committed(part')
        BY <2>1, <2>3, AfterCommitted
      <4>5. QED BY <3>2, <4>2, <4>3, <4>4, RecordedAnswer
    <3>3. QED BY <2>2, <3>1, <3>2
  <2>6. QED BY <2>4, <2>5 DEF IInv
<1>3. CASE ~ BatchApplies(part, s, r)
  <2>1. answer' = NoAnswer /\ UNCHANGED <<part, tries>>
    BY <1>3 DEF Commit
  <2>2. ReplicasOK'
    BY <1>1, <2>1, IdleOK, ReplicaStep DEF IInv
  <2>3. QED BY <2>1, <2>2 DEF IInv, PartitionOK, CommandsOK, AnswersHold
<1>4. QED BY <1>2, <1>3

LEMMA CrashInv ==
    ASSUME IInv, NEW x \in Replicas, Crash(x)
    PROVE  IInv'
<1>1. UNCHANGED <<part, tries>> /\ answer' = NoAnswer /\ rep' = [rep EXCEPT ![x] = Idle]
  BY DEF Crash
<1>2. ReplicasOK'
  BY <1>1, IdleOK, ReplicaStep DEF IInv
<1>3. QED BY <1>1, <1>2 DEF IInv, PartitionOK, CommandsOK, AnswersHold

LEMMA NextInv == IInv /\ [Next]_vars => IInv'
<1> SUFFICES ASSUME IInv, [Next]_vars PROVE IInv'
  OBVIOUS
<1>1. CASE UNCHANGED vars
  BY <1>1 DEF vars, IInv, PartitionOK, CommandsOK, ReplicasOK, AnswersHold
<1>2. ASSUME NEW x \in Replicas,
             \/ BootstrapRead(x) \/ BootstrapCreate(x) \/ Load(x) \/ Replay(x) \/ Refuse(x)
             \/ Commit(x) \/ Crash(x) \/ \E r \in DOMAIN tries : Enter(x, r)
      PROVE  IInv'
  BY <1>2, BootstrapReadInv, BootstrapCreateInv, LoadInv, ReplayInv, RefuseInv, CommitInv,
     CrashInv, EnterInv
<1>3. ASSUME NEW r \in Requests(Context(part)), Send(r) PROVE IInv'
  BY <1>3, SendInv
<1>4. ASSUME NEW r \in DOMAIN tries, Abandon(r) PROVE IInv'
  BY <1>4, AbandonInv
<1>5. QED BY <1>1, <1>2, <1>3, <1>4 DEF Next

-----------------------------------------------------------------------------
(* Theorems *)

\* The inductive invariant holds: what is in the table is what one commit has
\* left, and every transaction works on the rows of some commit.
THEOREM Invariance == Spec => []IInv
<1>1. QED BY InitInv, NextInv, PTL DEF Spec

\* Whatever is committed can be opened again (_verify_state_anchor, _commit).
THEOREM PartitionAlwaysOpens == Spec => []PartitionOpens
<1>1. IInv => PartitionOpens
  BY DEF IInv, PartitionOK, Committed, PartitionOpens
<1>2. QED BY <1>1, Invariance, PTL

\* No transaction works on a mixture of two commits, however its pages were read
\* (_load_partition, _verify_state_anchor).
THEOREM SnapshotsAlwaysConsistent == Spec => []SnapshotsConsistent
<1>1. IInv => SnapshotsConsistent
  <2> SUFFICES ASSUME IInv, NEW x \in Replicas, rep[x].pc = "mutating"
               PROVE  LET s == rep[x].snap IN
                      /\ AuditTells(s)
                      /\ s.gen <= part.gen
                      /\ \A d \in DraftIds :
                           s.audit[d] = SubSeq(part.audit[d], 1, Len(s.audit[d]))
                      /\ s.receipts = Restrict(part.receipts, DOMAIN s.receipts)
    BY DEF SnapshotsConsistent
  <2> DEFINE s == rep[x].snap
  <2>1. Committed(part) /\ Earlier(s, part)
    BY Mutating
  <2> HIDE DEF s
  <2>2. AuditTells(s) /\ s.gen <= part.gen /\ Committed(s) /\ Extends(s, part)
    BY <2>1 DEF Earlier, Committed
  <2>3. ASSUME NEW d \in DraftIds
        PROVE  s.audit[d] = SubSeq(part.audit[d], 1, Len(s.audit[d]))
    <3>1. s.audit[d] \in Seq(Events) /\ part.audit[d] \in Seq(Events)
      BY <2>1, <2>2, PartitionFields
    <3>2. /\ Len(s.audit[d]) <= Len(part.audit[d])
          /\ \A i \in 1 .. Len(s.audit[d]) : s.audit[d][i] = part.audit[d][i]
      BY <2>2 DEF Extends
    <3>3. QED BY <3>1, <3>2
  <2>4. s.receipts = Restrict(part.receipts, DOMAIN s.receipts)
    <3>1. s.receipts \in [DOMAIN s.receipts -> Responses]
      BY <2>2, PartitionFields
    <3>2. QED BY <2>2, <3>1 DEF Extends, Restrict
  <2>5. QED BY <2>2, <2>3, <2>4 DEF s
<1>2. QED BY <1>1, Invariance, PTL

\* A result a client is given is committed, and the only one of its command
\* (_mutate, _commit, the receipts of idempotency keys).
THEOREM AnswersAlwaysHold == Spec => []AnswersHold
<1>1. IInv => AnswersHold
  BY DEF IInv
<1>2. QED BY <1>1, Invariance, PTL

-----------------------------------------------------------------------------
(* The replicas implement the lifecycle *)

\* The operators of the lifecycle are those of the store.
LEMMA SameTerms ==
    /\ Lifecycle!EmptyContext = EmptyContext
    /\ \A c : /\ Lifecycle!CreateRequests(c) = CreateRequests(c)
              /\ Lifecycle!ReplaceRequests(c) = ReplaceRequests(c)
              /\ Lifecycle!ReviewRequests(c) = ReviewRequests(c)
              /\ Lifecycle!IssueRequests(c) = IssueRequests(c)
              /\ Lifecycle!ApproveRequests(c) = ApproveRequests(c)
              /\ Lifecycle!PublishRequests(c) = PublishRequests(c)
              /\ Lifecycle!SupersedeRequests(c) = SupersedeRequests(c)
              /\ Lifecycle!Detours(c) = Detours(c)
    /\ \A c, op : Lifecycle!PlainRequests(c, op) = PlainRequests(c, op)
<1>1. Lifecycle!EmptyContext = EmptyContext
  BY DEF Lifecycle!EmptyContext, EmptyContext, Lifecycle!Versions, Versions, Lifecycle!NoVersion,
         NoVersion
<1>2. ASSUME NEW c PROVE /\ Lifecycle!Published(c) = Published(c) /\ Lifecycle!Open(c) = Open(c)
                         /\ Lifecycle!Active(c) = Active(c)
  BY DEF Lifecycle!Published, Published, Lifecycle!Active, Active, Lifecycle!Open, Open,
         Lifecycle!Versions, Versions, Lifecycle!NoVersion, NoVersion
<1>3. ASSUME NEW c, NEW d PROVE Lifecycle!ReceiptsOf(c, d) = ReceiptsOf(c, d)
  BY DEF Lifecycle!ReceiptsOf, ReceiptsOf
<1>4. ASSUME NEW c, NEW op PROVE Lifecycle!PlainRequests(c, op) = PlainRequests(c, op)
  BY <1>2 DEF Lifecycle!PlainRequests, PlainRequests, Lifecycle!Transition, Transition
<1>5. ASSUME NEW c PROVE /\ Lifecycle!CreateRequests(c) = CreateRequests(c)
                         /\ Lifecycle!ReplaceRequests(c) = ReplaceRequests(c)
                         /\ Lifecycle!ReviewRequests(c) = ReviewRequests(c)
  <2>1. Lifecycle!CreateRequests(c) = CreateRequests(c)
    BY <1>2 DEF Lifecycle!CreateRequests, CreateRequests, Lifecycle!Versions, Versions,
                Lifecycle!NoVersion, NoVersion
  <2>2. Lifecycle!ReplaceRequests(c) = ReplaceRequests(c)
    BY <1>2 DEF Lifecycle!ReplaceRequests, ReplaceRequests
  <2>3. Lifecycle!ReviewRequests(c) = ReviewRequests(c)
    BY <1>2 DEF Lifecycle!ReviewRequests, ReviewRequests
  <2>4. QED BY <2>1, <2>2, <2>3
<1>6. ASSUME NEW c PROVE Lifecycle!IssueRequests(c) = IssueRequests(c)
  BY <1>3, <1>4 DEF Lifecycle!IssueRequests, IssueRequests, Lifecycle!Cardinality, Cardinality
<1>7. ASSUME NEW c PROVE Lifecycle!ApproveRequests(c) = ApproveRequests(c)
  BY <1>2, <1>3 DEF Lifecycle!ApproveRequests, ApproveRequests
<1>8. ASSUME NEW c PROVE Lifecycle!PublishRequests(c) = PublishRequests(c)
  BY <1>2, <1>3 DEF Lifecycle!PublishRequests, PublishRequests
<1>9. ASSUME NEW c PROVE Lifecycle!SupersedeRequests(c) = SupersedeRequests(c)
  BY <1>2 DEF Lifecycle!SupersedeRequests, SupersedeRequests
<1>10. ASSUME NEW c PROVE Lifecycle!Detours(c) = Detours(c)
  BY DEF Lifecycle!Detours, Detours, Lifecycle!Open, Open, Lifecycle!Shortest, Shortest,
         Lifecycle!MapThenSumSet, MapThenSumSet, Lifecycle!MapThenFoldSet, MapThenFoldSet,
         Lifecycle!Max, Max
<1>11. QED BY <1>1, <1>4, <1>5, <1>6, <1>7, <1>8, <1>9, <1>10

LEMMA SameMutations ==
    \A c, r :
        /\ Lifecycle!MayCreate(c, r) <=> MayCreate(c, r)
        /\ Lifecycle!Create(c, r) = Create(c, r)
        /\ Lifecycle!MayReplace(c, r) <=> MayReplace(c, r)
        /\ Lifecycle!Replace(c, r) = Replace(c, r)
        /\ Lifecycle!MayValidate(c, r) <=> MayValidate(c, r)
        /\ Lifecycle!Validate(c, r) = Validate(c, r)
        /\ Lifecycle!MaySubmit(c, r) <=> MaySubmit(c, r)
        /\ Lifecycle!Submit(c, r) = Submit(c, r)
        /\ Lifecycle!MayReview(c, r) <=> MayReview(c, r)
        /\ Lifecycle!Review(c, r) = Review(c, r)
        /\ Lifecycle!MayIssue(c, r) <=> MayIssue(c, r)
        /\ Lifecycle!Issue(c, r) = Issue(c, r)
        /\ Lifecycle!MayApprove(c, r) <=> MayApprove(c, r)
        /\ Lifecycle!Approve(c, r) = Approve(c, r)
        /\ Lifecycle!MayPublish(c, r) <=> MayPublish(c, r)
        /\ Lifecycle!Publish(c, r) = Publish(c, r)
        /\ Lifecycle!MaySupersede(c, r) <=> MaySupersede(c, r)
        /\ Lifecycle!Supersede(c, r) = Supersede(c, r)
<1> SUFFICES ASSUME NEW c, NEW r
             PROVE  /\ Lifecycle!MayCreate(c, r) <=> MayCreate(c, r)
                    /\ Lifecycle!Create(c, r) = Create(c, r)
                    /\ Lifecycle!MayReplace(c, r) <=> MayReplace(c, r)
                    /\ Lifecycle!Replace(c, r) = Replace(c, r)
                    /\ Lifecycle!MayValidate(c, r) <=> MayValidate(c, r)
                    /\ Lifecycle!Validate(c, r) = Validate(c, r)
                    /\ Lifecycle!MaySubmit(c, r) <=> MaySubmit(c, r)
                    /\ Lifecycle!Submit(c, r) = Submit(c, r)
                    /\ Lifecycle!MayReview(c, r) <=> MayReview(c, r)
                    /\ Lifecycle!Review(c, r) = Review(c, r)
                    /\ Lifecycle!MayIssue(c, r) <=> MayIssue(c, r)
                    /\ Lifecycle!Issue(c, r) = Issue(c, r)
                    /\ Lifecycle!MayApprove(c, r) <=> MayApprove(c, r)
                    /\ Lifecycle!Approve(c, r) = Approve(c, r)
                    /\ Lifecycle!MayPublish(c, r) <=> MayPublish(c, r)
                    /\ Lifecycle!Publish(c, r) = Publish(c, r)
                    /\ Lifecycle!MaySupersede(c, r) <=> MaySupersede(c, r)
                    /\ Lifecycle!Supersede(c, r) = Supersede(c, r)
  OBVIOUS
<1>1. /\ Lifecycle!Published(c) = Published(c)
      /\ Lifecycle!Active(c) = Active(c) /\ Lifecycle!NoVersion = NoVersion
  BY DEF Lifecycle!Published, Published, Lifecycle!Active, Active,
         Lifecycle!Versions, Versions, Lifecycle!NoVersion, NoVersion
<1>2. ASSUME NEW n, NEW v PROVE Lifecycle!Lineage(c, n, v) <=> Lineage(c, n, v)
  BY <1>1 DEF Lifecycle!Lineage, Lineage, Lifecycle!Cardinality, Cardinality
<1>3. ASSUME NEW state PROVE Lifecycle!Expected(c, r, state) <=> Expected(c, r, state)
  BY DEF Lifecycle!Expected, Expected
<1>4. ASSUME NEW x PROVE Lifecycle!CurrentCandidate(x) <=> CurrentCandidate(x)
  BY DEF Lifecycle!CurrentCandidate, CurrentCandidate
<1>5. Lifecycle!ReceiptBound(c, r) <=> ReceiptBound(c, r)
  BY DEF Lifecycle!ReceiptBound, ReceiptBound
<1>6. ASSUME NEW d, NEW x PROVE Lifecycle!Put(c, d, x) = Put(c, d, x)
  BY DEF Lifecycle!Put, Put
<1>7. Lifecycle!MayCreate(c, r) <=> MayCreate(c, r)
  BY <1>1, <1>2 DEF Lifecycle!MayCreate, MayCreate
<1>8. Lifecycle!Create(c, r) = Create(c, r)
  BY DEF Lifecycle!Create, Create
<1>9. Lifecycle!MayReplace(c, r) <=> MayReplace(c, r)
  BY <1>2, <1>3 DEF Lifecycle!MayReplace, MayReplace
<1>10. Lifecycle!Replace(c, r) = Replace(c, r)
  BY <1>6 DEF Lifecycle!Replace, Replace
<1>11. Lifecycle!MayValidate(c, r) <=> MayValidate(c, r)
  BY <1>3 DEF Lifecycle!MayValidate, MayValidate
<1>12. Lifecycle!Validate(c, r) = Validate(c, r)
  BY <1>6 DEF Lifecycle!Validate, Validate
<1>13. Lifecycle!MaySubmit(c, r) <=> MaySubmit(c, r)
  BY <1>3 DEF Lifecycle!MaySubmit, MaySubmit
<1>14. Lifecycle!Submit(c, r) = Submit(c, r)
  BY <1>6 DEF Lifecycle!Submit, Submit
<1>15. Lifecycle!MayReview(c, r) <=> MayReview(c, r)
  BY <1>3, <1>4 DEF Lifecycle!MayReview, MayReview
<1>16. Lifecycle!Review(c, r) = Review(c, r)
  BY <1>6 DEF Lifecycle!Review, Review
<1>17. Lifecycle!MayIssue(c, r) <=> MayIssue(c, r)
  BY <1>3 DEF Lifecycle!MayIssue, MayIssue, Lifecycle!States, States
<1>18. Lifecycle!Issue(c, r) = Issue(c, r)
  BY DEF Lifecycle!Issue, Issue
<1>19. Lifecycle!MayApprove(c, r) <=> MayApprove(c, r)
  BY <1>3, <1>4, <1>5 DEF Lifecycle!MayApprove, MayApprove
<1>20. Lifecycle!Approve(c, r) = Approve(c, r)
  BY <1>6 DEF Lifecycle!Approve, Approve
<1>21. Lifecycle!MayPublish(c, r) <=> MayPublish(c, r)
  BY <1>2, <1>3, <1>4, <1>5 DEF Lifecycle!MayPublish, MayPublish
<1>22. Lifecycle!Publish(c, r) = Publish(c, r)
  BY <1>6 DEF Lifecycle!Publish, Publish
<1>23. Lifecycle!MaySupersede(c, r) <=> MaySupersede(c, r)
  BY <1>1, <1>3 DEF Lifecycle!MaySupersede, MaySupersede
<1>24. Lifecycle!Supersede(c, r) = Supersede(c, r)
  BY <1>6 DEF Lifecycle!Supersede, Supersede
<1>25. QED BY <1>7, <1>8, <1>9, <1>10, <1>11, <1>12, <1>13, <1>14, <1>15, <1>16, <1>17, <1>18,
              <1>19, <1>20, <1>21, <1>22, <1>23, <1>24

\* A client that has read c can ask for r.
Asked(c, r) ==
    CASE r.op = "create" -> r \in CreateRequests(c)
      [] r.op = "replace" -> r \in ReplaceRequests(c)
      [] r.op = "validate" -> r \in PlainRequests(c, "validate")
      [] r.op = "submit" -> r \in PlainRequests(c, "submit")
      [] r.op = "review" -> r \in ReviewRequests(c)
      [] r.op = "issue" -> r \in IssueRequests(c)
      [] r.op = "approve" -> r \in ApproveRequests(c)
      [] r.op = "publish" -> r \in PublishRequests(c)
      [] r.op = "supersede" -> r \in SupersedeRequests(c)

\* A command that is accepted is one that a client of the context would ask for.
LEMMA AcceptedRequest ==
    ASSUME NEW p, NEW r, Applicable(p, r)
    PROVE  Asked(Context(p), r)
<1> DEFINE c == Context(p)
<1>1. /\ Committed(p) /\ CommandOK(r, p) /\ r \in Commands /\ Accepts(c, r)
      /\ r.draft \in DraftIds /\ r.op \in Ops
  BY CommandFields DEF Applicable, CommandOK
<1>2. c \in Contexts /\ c.drafts = p.drafts
  BY AfterEffect DEF Applicable, Committed, IsPartition
<1> HIDE DEF c
<1>3. ASSUME NEW state, Expected(c, r, state)
      PROVE  /\ r.draft \in Open(c) /\ c.drafts[r.draft] \in Drafts
             /\ c.drafts[r.draft].state = state /\ c.drafts[r.draft].revision = r.revision
             /\ c.drafts[r.draft].manifest = r.manifest
  BY <1>1, <1>2, <1>3 DEF Expected, Open, Contexts
<1>4. ASSUME ReceiptBound(c, r) PROVE r.receipt \in ReceiptsOf(c, r.draft)
  BY <1>4 DEF ReceiptBound, ReceiptsOf
<1>5. CASE r.op = "create"
  <2>1. r \in CreateCommands /\ MayCreate(c, r)
    BY <1>1, <1>5 DEF Accepts, Commands, CreateCommands, ReplaceCommands, PlainCommands,
              ReviewCommands, ApproveCommands, PublishCommands, SupersedeCommands
  <2>2. r.previous \in Active(c) \cup {NoVersion} /\ r.source \in Published(c) \cup {NoVersion}
    BY <2>1 DEF MayCreate, Lineage
  <2>3. r \in CreateRequests(c)
    BY <2>1, <2>2 DEF MayCreate, CreateCommands, CreateRequests
  <2>4. QED BY <1>5, <2>3 DEF Asked, c
<1>6. CASE r.op = "replace"
  <2>1. r \in ReplaceCommands /\ Expected(c, r, "draft")
    BY <1>1, <1>6 DEF Accepts, MayReplace, Commands, CreateCommands, ReplaceCommands,
              PlainCommands, ReviewCommands, ApproveCommands, PublishCommands, SupersedeCommands
  <2>2. r = [op |-> "replace", draft |-> r.draft, revision |-> c.drafts[r.draft].revision,
             manifest |-> c.drafts[r.draft].manifest, replacement |-> r.replacement]
        /\ r.replacement \in ClientManifests /\ r.draft \in Open(c)
    BY <1>3, <2>1 DEF ReplaceCommands
  <2>3. r \in ReplaceRequests(c)
    BY <2>2 DEF ReplaceRequests
  <2>4. QED BY <1>6, <2>3 DEF Asked, c
<1>7. CASE r.op \in {"validate", "submit", "issue"}
  <2>1. r \in PlainCommands
    BY <1>1, <1>7 DEF Commands, CreateCommands, ReplaceCommands, PlainCommands, ReviewCommands,
              ApproveCommands, PublishCommands, SupersedeCommands
  <2>2. PICK state : Expected(c, r, state)
    <3>1. r.op = "validate" => Expected(c, r, "draft")
      BY <1>1 DEF Accepts, MayValidate
    <3>2. r.op = "submit" => Expected(c, r, "validated")
      BY <1>1 DEF Accepts, MaySubmit
    <3>3. r.op = "issue" => \E state \in States : Expected(c, r, state)
      BY <1>1 DEF Accepts, MayIssue
    <3>4. QED BY <1>7, <3>1, <3>2, <3>3
  <2>3. r = Transition(c, r.op, r.draft) /\ r.draft \in Open(c)
    BY <1>3, <2>1, <2>2 DEF PlainCommands, Transition
  <2>4. r \in PlainRequests(c, r.op)
    BY <2>3 DEF PlainRequests
  <2>5. CASE r.op = "issue"
    <3>1. Cardinality(ReceiptsOf(c, r.draft)) < MaxReceipts
      BY <1>1, <2>5 DEF Accepts
    <3>2. c.drafts[r.draft].state \in {"in_review", "approved"}
      BY <1>1, <1>2, <1>3, <2>2, <2>5 DEF CommandOK
    <3>3. r \in IssueRequests(c)
      BY <2>4, <2>5, <3>1, <3>2 DEF IssueRequests
    <3>4. QED BY <2>5, <3>3 DEF Asked, c
  <2>6. QED BY <1>7, <2>4, <2>5 DEF Asked, c
<1>8. CASE r.op = "review"
  <2>1. r \in ReviewCommands /\ Expected(c, r, "in_review")
    BY <1>1, <1>8 DEF Accepts, MayReview, Commands, CreateCommands, ReplaceCommands,
              PlainCommands, ReviewCommands, ApproveCommands, PublishCommands, SupersedeCommands
  <2>2. r = [op |-> "review", draft |-> r.draft, revision |-> c.drafts[r.draft].revision,
             manifest |-> c.drafts[r.draft].manifest, decision |-> r.decision]
        /\ r.decision \in {"approved", "changes_requested"} /\ r.draft \in Open(c)
    BY <1>3, <2>1 DEF ReviewCommands
  <2>3. r \in ReviewRequests(c)
    BY <2>2 DEF ReviewRequests
  <2>4. QED BY <1>8, <2>3 DEF Asked, c
<1>9. CASE r.op = "approve"
  <2>1. r \in ApproveCommands /\ Expected(c, r, "in_review") /\ ReceiptBound(c, r)
    BY <1>1, <1>9 DEF Accepts, MayApprove, Commands, CreateCommands, ReplaceCommands,
              PlainCommands, ReviewCommands, ApproveCommands, PublishCommands, SupersedeCommands
  <2>2. r = [op |-> "approve", draft |-> r.draft, revision |-> c.drafts[r.draft].revision,
             manifest |-> c.drafts[r.draft].manifest, receipt |-> r.receipt]
        /\ r.draft \in Open(c)
    BY <1>3, <2>1 DEF ApproveCommands
  <2>3. r.receipt \in ReceiptsOf(c, r.draft)
    BY <1>4, <2>1
  <2>4. r \in ApproveRequests(c)
    BY <2>2, <2>3 DEF ApproveRequests
  <2>5. QED BY <1>9, <2>4 DEF Asked, c
<1>10. CASE r.op = "publish"
  <2>1. /\ r \in PublishCommands /\ Expected(c, r, "approved") /\ ReceiptBound(c, r)
        /\ c.drafts[r.draft].approval # NoApproval
        /\ c.drafts[r.draft].approval.revision = r.approval
    BY <1>1, <1>10 DEF Accepts, MayPublish, Commands, CreateCommands, ReplaceCommands,
              PlainCommands, ReviewCommands, ApproveCommands, PublishCommands, SupersedeCommands
  <2>2. r = [op |-> "publish", draft |-> r.draft, revision |-> c.drafts[r.draft].revision,
             manifest |-> c.drafts[r.draft].manifest, receipt |-> r.receipt,
             approval |-> c.drafts[r.draft].approval.revision]
        /\ r.draft \in Open(c)
    BY <1>3, <2>1 DEF PublishCommands
  <2>3. r.receipt \in ReceiptsOf(c, r.draft)
    BY <1>4, <2>1
  <2>4. r \in PublishRequests(c)
    BY <2>1, <2>2, <2>3 DEF PublishRequests
  <2>5. QED BY <1>10, <2>4 DEF Asked, c
<1>11. CASE r.op = "supersede"
  <2>1. /\ r \in SupersedeCommands /\ Expected(c, r, "published")
        /\ r.replacement \in Published(c)
        /\ c.published[r.replacement].manifest = r.replacementManifest
    BY <1>1, <1>11 DEF Accepts, MaySupersede, Commands, CreateCommands, ReplaceCommands,
              PlainCommands, ReviewCommands, ApproveCommands, PublishCommands, SupersedeCommands
  <2>2. c.drafts[r.draft].version = r.version
    BY <1>1, <1>2, <1>11 DEF CommandOK
  <2>3. r = [op |-> "supersede", draft |-> r.draft, revision |-> c.drafts[r.draft].revision,
             manifest |-> c.drafts[r.draft].manifest, version |-> c.drafts[r.draft].version,
             replacement |-> r.replacement,
             replacementManifest |-> c.published[r.replacement].manifest]
        /\ r.draft \in Open(c)
    BY <1>3, <2>1, <2>2 DEF SupersedeCommands
  <2>4. r \in SupersedeRequests(c)
    BY <2>1, <2>3 DEF SupersedeRequests
  <2>5. QED BY <1>11, <2>4 DEF Asked, c
<1>12. QED BY <1>1, <1>5, <1>6, <1>7, <1>8, <1>9, <1>10, <1>11 DEF Ops

\* A commit is one mutation of the lifecycle, decided on the context it changes.
LEMMA CommitIsMutation ==
    ASSUME NEW r, Applicable(part, r), part' = After(part, r)
    PROVE  Lifecycle!Next
<1> DEFINE c == Context(part)
           e == Context(part')
<1>1. Accepts(c, r) /\ r.op \in Ops
  BY CommandFields DEF Applicable, CommandOK
<1>2. e = Result(c, r) /\ Asked(c, r)
  BY AfterEffect, AcceptedRequest
<1> HIDE DEF c, e
<1>3. CASE r.op = "create"
  <2>1. r \in CreateRequests(c) /\ MayCreate(c, r) /\ e = Create(c, r)
    BY <1>1, <1>2, <1>3 DEF Asked, Accepts, Result
  <2>2. Lifecycle!CreateDraft
    BY <2>1, SameTerms, SameMutations DEF Lifecycle!CreateDraft, c, e
  <2>3. QED BY <2>2 DEF Lifecycle!Next
<1>4. CASE r.op = "replace"
  <2>1. r \in ReplaceRequests(c) /\ MayReplace(c, r) /\ e = Replace(c, r)
        /\ Detours(e) <= MaxDetours
    BY <1>1, <1>2, <1>4 DEF Asked, Accepts, Result
  <2>2. Lifecycle!ReplaceDraft
    BY <2>1, SameTerms, SameMutations DEF Lifecycle!ReplaceDraft, c, e
  <2>3. QED BY <2>2 DEF Lifecycle!Next
<1>5. CASE r.op = "validate"
  <2>1. r \in PlainRequests(c, "validate") /\ MayValidate(c, r) /\ e = Validate(c, r)
    BY <1>1, <1>2, <1>5 DEF Asked, Accepts, Result
  <2>2. Lifecycle!ValidateDraft
    BY <2>1, SameTerms, SameMutations DEF Lifecycle!ValidateDraft, c, e
  <2>3. QED BY <2>2 DEF Lifecycle!Next
<1>6. CASE r.op = "submit"
  <2>1. r \in PlainRequests(c, "submit") /\ MaySubmit(c, r) /\ e = Submit(c, r)
    BY <1>1, <1>2, <1>6 DEF Asked, Accepts, Result
  <2>2. Lifecycle!SubmitForReview
    BY <2>1, SameTerms, SameMutations DEF Lifecycle!SubmitForReview, c, e
  <2>3. QED BY <2>2 DEF Lifecycle!Next
<1>7. CASE r.op = "review"
  <2>1. r \in ReviewRequests(c) /\ MayReview(c, r) /\ e = Review(c, r)
        /\ Detours(e) <= MaxDetours
    BY <1>1, <1>2, <1>7 DEF Asked, Accepts, Result
  <2>2. Lifecycle!ReviewDraft
    BY <2>1, SameTerms, SameMutations DEF Lifecycle!ReviewDraft, c, e
  <2>3. QED BY <2>2 DEF Lifecycle!Next
<1>8. CASE r.op = "issue"
  <2>1. r \in IssueRequests(c) /\ MayIssue(c, r) /\ e = Issue(c, r)
    BY <1>1, <1>2, <1>8 DEF Asked, Accepts, Result
  <2>2. Lifecycle!IssueReceipt
    BY <2>1, SameTerms, SameMutations DEF Lifecycle!IssueReceipt, c, e
  <2>3. QED BY <2>2 DEF Lifecycle!Next
<1>9. CASE r.op = "approve"
  <2>1. r \in ApproveRequests(c) /\ MayApprove(c, r) /\ e = Approve(c, r)
    BY <1>1, <1>2, <1>9 DEF Asked, Accepts, Result
  <2>2. Lifecycle!ApproveDraft
    BY <2>1, SameTerms, SameMutations DEF Lifecycle!ApproveDraft, c, e
  <2>3. QED BY <2>2 DEF Lifecycle!Next
<1>10. CASE r.op = "publish"
  <2>1. r \in PublishRequests(c) /\ MayPublish(c, r) /\ e = Publish(c, r)
    BY <1>1, <1>2, <1>10 DEF Asked, Accepts, Result
  <2>2. Lifecycle!PublishDraft
    BY <2>1, SameTerms, SameMutations DEF Lifecycle!PublishDraft, c, e
  <2>3. QED BY <2>2 DEF Lifecycle!Next
<1>11. CASE r.op = "supersede"
  <2>1. r \in SupersedeRequests(c) /\ MaySupersede(c, r) /\ e = Supersede(c, r)
    BY <1>1, <1>2, <1>11 DEF Asked, Accepts, Result
  <2>2. Lifecycle!SupersedeVersion
    BY <2>1, SameTerms, SameMutations DEF Lifecycle!SupersedeVersion, c, e
  <2>3. QED BY <2>2 DEF Lifecycle!Next
<1>12. QED BY <1>1, <1>3, <1>4, <1>5, <1>6, <1>7, <1>8, <1>9, <1>10, <1>11 DEF Ops

\* The replicas implement the lifecycle: each of their steps is a mutation of
\* the context or leaves it alone (durable.py under service.py).
THEOREM StoreImplementsLifecycle == Spec => ImplementsLifecycle
<1>1. Init => Lifecycle!Init
  BY SameTerms DEF Init, Context, Lifecycle!Init
<1>2. IInv /\ [Next]_vars => [Lifecycle!Next]_(Context(part))
  <2> SUFFICES ASSUME IInv, [Next]_vars, Context(part') # Context(part)
               PROVE  Lifecycle!Next
    OBVIOUS
  <2>1. CASE UNCHANGED part
    BY <2>1
  <2>2. ASSUME NEW x \in Replicas, BootstrapCreate(x) PROVE FALSE
    <3>1. (part = NoPartition /\ part' = Root) \/ UNCHANGED part
      BY <2>2 DEF BootstrapCreate
    <3>2. Context(NoPartition) = EmptyContext /\ Context(Root) = EmptyContext
      BY RootCommitted DEF Context
    <3>3. QED BY <3>1, <3>2
  <2>3. ASSUME NEW x \in Replicas, Commit(x), part' # part PROVE Lifecycle!Next
    <3> DEFINE s == rep[x].snap
               r == rep[x].request
    <3>1. /\ rep[x].pc = "mutating" /\ r \notin DOMAIN s.receipts /\ Accepts(Context(s), r)
          /\ RowCount(After(s, r)) <= MaxEntities /\ BatchApplies(part, s, r)
          /\ part' = Written(part, s, r)
      BY <2>3 DEF Commit
    <3>2. Applicable(part, r) /\ part' = After(part, r)
      BY <3>1, BatchStep
    <3>3. QED BY <3>2, CommitIsMutation
  <2>4. ASSUME NEW x \in Replicas,
               \/ BootstrapRead(x) \/ Load(x) \/ Replay(x) \/ Refuse(x) \/ Crash(x)
               \/ \E r \in DOMAIN tries : Enter(x, r)
        PROVE  UNCHANGED part
    BY <2>4 DEF BootstrapRead, Load, Replay, Refuse, Crash, Enter
  <2>5. ASSUME \/ \E r \in Requests(Context(part)) : Send(r)
               \/ \E r \in DOMAIN tries : Abandon(r)
               \/ UNCHANGED vars
        PROVE  UNCHANGED part
    BY <2>5 DEF Send, Abandon, vars
  <2>6. QED BY <2>1, <2>2, <2>3, <2>4, <2>5 DEF Next
<1>3. QED BY <1>1, <1>2, Invariance, PTL DEF Spec, ImplementsLifecycle, Lifecycle!Spec

=============================================================================
