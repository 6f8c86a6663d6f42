-------------------------- MODULE ContextLifecycle --------------------------
(***************************************************************************)
(* What the Context API promises: the context of a workload changes by one *)
(* complete lifecycle mutation at a time, each of them decided on the      *)
(* context it changes.                                                     *)
(***************************************************************************)
EXTENDS ContextMutations

VARIABLE ctx    \* the context

Init == ctx = EmptyContext

CreateDraft == \E r \in CreateRequests(ctx) : MayCreate(ctx, r) /\ ctx' = Create(ctx, r)
ReplaceDraft == \E r \in ReplaceRequests(ctx) : 
    MayReplace(ctx, r) /\ ctx' = Replace(ctx, r) /\ Detours(ctx') <= MaxDetours
ValidateDraft ==
    \E r \in PlainRequests(ctx, "validate") : MayValidate(ctx, r) /\ ctx' = Validate(ctx, r)
SubmitForReview ==
    \E r \in PlainRequests(ctx, "submit") : MaySubmit(ctx, r) /\ ctx' = Submit(ctx, r)
ReviewDraft == \E r \in ReviewRequests(ctx) : 
    MayReview(ctx, r) /\ ctx' = Review(ctx, r) /\ Detours(ctx') <= MaxDetours
IssueReceipt == \E r \in IssueRequests(ctx) : MayIssue(ctx, r) /\ ctx' = Issue(ctx, r)
ApproveDraft == \E r \in ApproveRequests(ctx) : MayApprove(ctx, r) /\ ctx' = Approve(ctx, r)
PublishDraft == \E r \in PublishRequests(ctx) : MayPublish(ctx, r) /\ ctx' = Publish(ctx, r)
SupersedeVersion ==
    \E r \in SupersedeRequests(ctx) : MaySupersede(ctx, r) /\ ctx' = Supersede(ctx, r)

Next ==
    \/ CreateDraft \/ ReplaceDraft \/ ValidateDraft \/ SubmitForReview \/ ReviewDraft
    \/ IssueReceipt \/ ApproveDraft \/ PublishDraft \/ SupersedeVersion

Spec == Init /\ [][Next]_ctx

-----------------------------------------------------------------------------
(* Properties *)

\* The context keeps its type.
TypeOK == ctx \in Contexts

\* Published versions form one chain: no two of them have the same predecessor,
\* each is newer than its predecessor, a version is superseded only by its
\* successor, and from the first publication on there is an active version and
\* at most two of them, the older waiting to be superseded.
OneChain(c) ==
    LET prev(v) == c.published[v].previous IN
    /\ \A v \in Published(c) : prev(v) # NoVersion => prev(v) \in Published(c) /\ prev(v) < v
    /\ \A v, w \in Published(c) : v # w => prev(v) # prev(w)
    /\ \A v \in Published(c) : c.superseded[v] # NoVersion =>
          c.superseded[v] \in Published(c) /\ prev(c.superseded[v]) = v
    /\ Published(c) # {} => Active(c) # {}
    /\ \A v, w \in Active(c) : v < w => prev(w) = v

\* The lineage of a workload is one chain, whatever drafts compete for the next
\* place in it (_ensure_lineage in create_draft, replace_draft and
\* publish_draft, and the checks of supersede_version).
LineageLinear == OneChain(ctx)

\* The command that finishes the succession of v by w.
Succession(c, v, w) ==
    LET d == c.published[v].draft IN
    [draft |-> d, revision |-> c.drafts[d].revision, manifest |-> c.drafts[d].manifest,
     version |-> v, replacement |-> w, replacementManifest |-> c.published[w].manifest]

\* An interrupted succession can always be finished: while two versions are
\* active, and create_draft, replace_draft and publish_draft are refused for it,
\* supersede_version accepts the older one with its successor.
SuccessionRecoverable ==
    \A v, w \in Active(ctx) : v < w => MaySupersede(ctx, Succession(ctx, v, w))

\* The last review of the draft behind a published version approved exactly the
\* published manifest, one revision before the approval, and each of the two
\* later steps rested on a receipt of its own revision.
ReviewedPublication(c, v) ==
    LET p == c.published[v]
        x == c.drafts[p.draft]
    IN
    /\ x # NoDraft /\ x.state \in {"published", "superseded"} /\ x.version = v
    /\ x.decisions # <<>>
    /\ x.decisions[Len(x.decisions)] =
         [decision |-> "approved", revision |-> p.approval.revision - 1, manifest |-> p.manifest]
    /\ p.manifest.final /\ x.manifest = p.manifest
    /\ \A rev \in {p.approval.revision - 1, p.approval.revision} :
         [draft |-> p.draft, revision |-> rev, manifest |-> p.manifest] \in c.opReceipts

\* What is published is what was reviewed and approved, however often the draft
\* was replaced, rejected and reviewed before (review_draft, approve_draft,
\* publish_draft).
PublishedWasReviewed == \A v \in Published(ctx) : ReviewedPublication(ctx, v)

=============================================================================
