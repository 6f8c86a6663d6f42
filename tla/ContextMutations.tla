-------------------------- MODULE ContextMutations --------------------------
(***************************************************************************)
(* The mutations of the Context API                                        *)
(* (src/src/athena_context/api/service.py) as functions of the context of  *)
(* one workload: its drafts, published versions, supersessions and         *)
(* operational-context receipts.  For each mutation there is the condition *)
(* under which the closure handed to _mutate does not raise, and the       *)
(* context it leaves behind.                                               *)
(*                                                                         *)
(* A manifest is its body and whether its audit section is the one         *)
(* _finalize_publication_candidate writes; digests are injective, so a     *)
(* digest is the manifest itself.  Two finalizations of one body can fall  *)
(* in the same millisecond and are then equal, which is the case kept.     *)
(* Decision identifiers contain the revision, so the revision stands for   *)
(* them.  What can be refused for the contents of a manifest, the rights   *)
(* of an actor or the expiry of a receipt is refused without effect and is *)
(* no step here.                                                           *)
(***************************************************************************)
EXTENDS Integers, Sequences, FiniteSetsExt

CONSTANTS
    DraftIds,      \* draft identifiers
    Bodies,        \* manifest contents without the audit section
    ClientManifests, \* manifests clients send
    MaxVersion,    \* bound: manifest versions, numbered in their order
    MaxDetours,    \* bound: mutations beyond the shortest way of each draft
    MaxReceipts,   \* bound: operational-context receipts per draft
    MaxDecisions,  \* the length at which review_decisions is full
    NoDraft,
    NoManifest,
    NoApproval,
    NoPublication

ASSUME VersionAssumption == MaxVersion \in Nat /\ MaxDecisions \in Nat

Versions == 1 .. MaxVersion
NoVersion == 0

Manifests == [body : Bodies, final : BOOLEAN]
States == {"draft", "validated", "in_review", "approved", "published", "superseded"}
Decisions == [decision : {"approved", "changes_requested"}, revision : Nat,
              manifest : Manifests]
Approvals == [revision : Nat, manifest : Manifests, review : Nat]
Drafts == [state : States, revision : Nat, version : Versions, manifest : Manifests,
           previous : Versions \cup {NoVersion}, candidate : Manifests \cup {NoManifest},
           submitted : Manifests \cup {NoManifest}, decisions : Seq(Decisions),
           approval : Approvals \cup {NoApproval}]
Publications == [manifest : Manifests, draft : DraftIds, previous : Versions \cup {NoVersion},
                 approval : Approvals]
OpReceipts == [draft : DraftIds, revision : Nat, manifest : Manifests]

ASSUME NullAssumption == NoDraft \notin Drafts /\ NoPublication \notin Publications
ASSUME ManifestAssumption == ClientManifests \subseteq Manifests

Contexts ==
    [drafts : [DraftIds -> Drafts \cup {NoDraft}],
     opReceipts : SUBSET OpReceipts,
     published : [Versions -> Publications \cup {NoPublication}],
     superseded : [Versions -> Versions \cup {NoVersion}]]

EmptyContext ==
    [drafts |-> [d \in DraftIds |-> NoDraft],
     opReceipts |-> {},
     published |-> [v \in Versions |-> NoPublication],
     superseded |-> [v \in Versions |-> NoVersion]]

-----------------------------------------------------------------------------
(* Checks *)

Published(c) == {v \in Versions : c.published[v] # NoPublication}
Active(c) == {v \in Published(c) : c.superseded[v] = NoVersion}

\* Defect: two active versions are not noticed.
AmbiguousLineage(c, new, previous) ==
    IF Active(c) = {} THEN previous = NoVersion
    ELSE previous \in Active(c) /\ new > previous

\* _ensure_lineage
Lineage(c, new, previous) ==
    /\ Cardinality(Active(c)) <= 1
    /\ IF Active(c) = {} THEN previous = NoVersion
       ELSE \A a \in Active(c) : previous = a /\ new > a

\* _require_draft, _require_state, _ensure_expected
Expected(c, r, state) ==
    LET x == c.drafts[r.draft] IN
    x # NoDraft /\ x.state = state /\ x.revision = r.revision /\ x.manifest = r.manifest

\* _require_current_publication_candidate
CurrentCandidate(x) == x.candidate = x.manifest /\ x.submitted = x.manifest /\ x.manifest.final

\* Defect: the receipt of an earlier revision will do.
ReceiptOfDraft(c, r) ==
    r.receipt \in c.opReceipts /\ r.receipt.draft = r.draft

\* _require_operational_context_receipt
ReceiptBound(c, r) ==
    LET x == c.drafts[r.draft] IN
    /\ r.receipt \in c.opReceipts
    /\ r.receipt = [draft |-> r.draft, revision |-> x.revision, manifest |-> x.manifest]

-----------------------------------------------------------------------------
(* Mutations: condition and result *)

\* put_draft with the next revision
Put(c, d, x) == [c EXCEPT !.drafts[d] = [x EXCEPT !.revision = @ + 1]]

MayCreate(c, r) ==
    /\ c.drafts[r.draft] = NoDraft
    /\ Lineage(c, r.version, r.previous)
    /\ r.source # NoVersion =>
         /\ r.source \in Published(c)
         /\ r.previous # NoVersion /\ r.source < r.previous
         /\ r.manifest.body = c.published[r.source].manifest.body

Create(c, r) ==
    [c EXCEPT !.drafts[r.draft] =
        [state |-> "draft", revision |-> 1, version |-> r.version, manifest |-> r.manifest,
         previous |-> r.previous, candidate |-> NoManifest, submitted |-> NoManifest,
         decisions |-> <<>>, approval |-> NoApproval]]

MayReplace(c, r) ==
    /\ Expected(c, r, "draft")
    /\ Lineage(c, c.drafts[r.draft].version, c.drafts[r.draft].previous)

Replace(c, r) ==
    Put(c, r.draft, [c.drafts[r.draft] EXCEPT !.manifest = r.replacement,
                        !.submitted = NoManifest, !.approval = NoApproval])

MayValidate(c, r) == Expected(c, r, "draft")

Validate(c, r) == Put(c, r.draft, [c.drafts[r.draft] EXCEPT !.state = "validated"])

MaySubmit(c, r) == Expected(c, r, "validated")

Submit(c, r) ==
    LET final == [r.manifest EXCEPT !.final = TRUE] IN
    Put(c, r.draft, [c.drafts[r.draft] EXCEPT !.state = "in_review", !.manifest = final,
                        !.candidate = final, !.submitted = final])

MayReview(c, r) ==
    /\ Expected(c, r, "in_review")
    /\ CurrentCandidate(c.drafts[r.draft])
    /\ Len(c.drafts[r.draft].decisions) < MaxDecisions

Review(c, r) ==
    LET x == c.drafts[r.draft]
        reviewed == [x EXCEPT !.decisions =
                       Append(@, [decision |-> r.decision, revision |-> x.revision + 1,
                                  manifest |-> x.manifest])]
    IN Put(c, r.draft,
           IF r.decision = "approved" THEN reviewed
           ELSE [reviewed EXCEPT !.state = "draft", !.submitted = NoManifest,
                                 !.candidate = NoManifest, !.approval = NoApproval])

\* issue_operational_context_receipt: bound to the draft as it is, in any state.
MayIssue(c, r) == \E state \in States : Expected(c, r, state)

Issue(c, r) ==
    [c EXCEPT !.opReceipts =
        @ \cup {[draft |-> r.draft, revision |-> r.revision, manifest |-> r.manifest]}]

MayApprove(c, r) ==
    LET x == c.drafts[r.draft] IN
    /\ Expected(c, r, "in_review")
    /\ CurrentCandidate(x)
    /\ x.decisions # <<>>
    /\ x.decisions[Len(x.decisions)] =
         [decision |-> "approved", revision |-> x.revision, manifest |-> x.manifest]
    /\ ReceiptBound(c, r)

Approve(c, r) ==
    LET x == c.drafts[r.draft] IN
    Put(c, r.draft,
        [x EXCEPT !.state = "approved",
                  !.approval = [revision |-> x.revision + 1, manifest |-> x.manifest,
                                review |-> x.decisions[Len(x.decisions)].revision]])

MayPublish(c, r) ==
    LET x == c.drafts[r.draft] IN
    /\ Expected(c, r, "approved")
    /\ CurrentCandidate(x)
    /\ x.approval # NoApproval
    /\ x.approval.revision = r.approval
    /\ x.approval.revision = x.revision
    /\ x.approval.manifest = x.manifest
    /\ \E i \in DOMAIN x.decisions :
         /\ x.decisions[i].revision = x.approval.review
         /\ x.decisions[i] = [decision |-> "approved", revision |-> x.approval.revision - 1,
                              manifest |-> x.approval.manifest]
    /\ ReceiptBound(c, r)
    /\ c.published[x.version] = NoPublication
    /\ Lineage(c, x.version, x.previous)

\* Defect: the approval is cleared with the state it belonged to.
PublishClearsApproval(c, r) ==
    LET x == [c.drafts[r.draft] EXCEPT !.approval = NoApproval] IN
    [Put(c, r.draft, [x EXCEPT !.state = "published"]) EXCEPT
        !.published[x.version] = [manifest |-> x.manifest, draft |-> r.draft,
                                  previous |-> x.previous, approval |-> x.approval]]

Publish(c, r) ==
    LET x == c.drafts[r.draft] IN
    [Put(c, r.draft, [x EXCEPT !.state = "published"]) EXCEPT
        !.published[x.version] = [manifest |-> x.manifest, draft |-> r.draft,
                                  previous |-> x.previous, approval |-> x.approval]]

\* Defect: any other published version may replace the superseded one.
MaySupersedeByAny(c, r) ==
    /\ r.version \in Published(c) /\ r.draft = c.published[r.version].draft
    /\ Expected(c, r, "published")
    /\ c.superseded[r.version] = NoVersion
    /\ r.replacement \in Published(c) /\ r.replacement # r.version

MaySupersede(c, r) ==
    /\ r.version \in Published(c) /\ r.draft = c.published[r.version].draft
    /\ Expected(c, r, "published")
    /\ c.superseded[r.version] = NoVersion
    /\ r.replacement \in Published(c)
    /\ c.published[r.replacement].manifest = r.replacementManifest
    /\ c.published[r.replacement].previous = r.version
    /\ r.replacement # r.version

Supersede(c, r) ==
    [Put(c, r.draft, [c.drafts[r.draft] EXCEPT !.state = "superseded"]) EXCEPT
        !.superseded[r.version] = r.replacement]

-----------------------------------------------------------------------------
(* What a client that has read c can ask for *)

Open(c) == {d \in DraftIds : c.drafts[d] # NoDraft}

\* The revision at which a draft leaves a state when nothing is rejected,
\* replaced or reviewed twice, and by how much the drafts have exceeded it.
Shortest == [draft |-> 1, validated |-> 2, in_review |-> 4, approved |-> 5, published |-> 6,
             superseded |-> 7]

Detours(c) ==
    MapThenSumSet(LAMBDA d : Max({0, c.drafts[d].revision - Shortest[c.drafts[d].state]}), Open(c))

ReceiptsOf(c, d) == {x \in c.opReceipts : x.draft = d}

\* The fields of TransitionCommand, as the client read them.
Transition(c, op, d) ==
    [op |-> op, draft |-> d, revision |-> c.drafts[d].revision, manifest |-> c.drafts[d].manifest]

CreateRequests(c) ==
    [op : {"create"}, draft : {d \in DraftIds : c.drafts[d] = NoDraft}, version : Versions,
     manifest : ClientManifests, previous : Active(c) \cup {NoVersion},
     source : Published(c) \cup {NoVersion}]

ReplaceRequests(c) ==
    {[op |-> "replace", draft |-> d, revision |-> c.drafts[d].revision,
      manifest |-> c.drafts[d].manifest, replacement |-> m] : d \in Open(c), m \in ClientManifests}

PlainRequests(c, op) == {Transition(c, op, d) : d \in Open(c)}

\* A receipt is asked for where one is needed; one issued in another state is
\* bound to a revision that approve_draft and publish_draft never meet.
IssueRequests(c) ==
    {r \in PlainRequests(c, "issue") :
        /\ c.drafts[r.draft].state \in {"in_review", "approved"}
        /\ Cardinality(ReceiptsOf(c, r.draft)) < MaxReceipts}

ReviewRequests(c) ==
    {[op |-> "review", draft |-> d, revision |-> c.drafts[d].revision,
      manifest |-> c.drafts[d].manifest, decision |-> k] :
        d \in Open(c), k \in {"approved", "changes_requested"}}

ApproveRequests(c) ==
    UNION {{[op |-> "approve", draft |-> d, revision |-> c.drafts[d].revision,
             manifest |-> c.drafts[d].manifest, receipt |-> x] : x \in ReceiptsOf(c, d)} :
             d \in Open(c)}

PublishRequests(c) ==
    UNION {{[op |-> "publish", draft |-> d, revision |-> c.drafts[d].revision,
             manifest |-> c.drafts[d].manifest, receipt |-> x,
             approval |-> c.drafts[d].approval.revision] : x \in ReceiptsOf(c, d)} :
             d \in {e \in Open(c) : c.drafts[e].approval # NoApproval}}

SupersedeRequests(c) ==
    UNION {{[op |-> "supersede", draft |-> d, revision |-> c.drafts[d].revision,
             manifest |-> c.drafts[d].manifest, version |-> c.drafts[d].version,
             replacement |-> w, replacementManifest |-> c.published[w].manifest] :
               w \in Published(c)} :
             d \in Open(c)}
=============================================================================
