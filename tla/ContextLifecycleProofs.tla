----------------------- MODULE ContextLifecycleProofs -----------------------
(***************************************************************************)
(* The lineage and the review of published versions, for any number of     *)
(* drafts, versions and manifests.  The inductive invariant adds to the    *)
(* properties that the newest published version is active, that a draft    *)
(* behind a published version tells whether it is superseded, and what an  *)
(* approved draft rests on.                                                *)
(***************************************************************************)
EXTENDS ContextLifecycle, FiniteSetTheorems, TLAPS

\* The newest published version is active: nothing published succeeds it.
NewestActive(c) ==
    Published(c) # {} => \E a \in Active(c) : \A v \in Published(c) : v <= a

\* Only published versions are superseded.
SupersededPublished(c) ==
    \A v \in Versions : c.superseded[v] # NoVersion => v \in Published(c)

\* The draft behind an active version is still in the state published.
ActiveSource(c) ==
    \A v \in Active(c) : c.drafts[c.published[v].draft].state = "published"

\* What an approved draft rests on.
ApprovedReviewed(c) ==
    \A d \in DraftIds :
        LET x == c.drafts[d] IN
        x # NoDraft /\ x.state = "approved" =>
            /\ x.decisions # <<>>
            /\ x.decisions[Len(x.decisions)] =
                 [decision |-> "approved", revision |-> x.revision - 1, manifest |-> x.manifest]
            /\ [draft |-> d, revision |-> x.revision - 1, manifest |-> x.manifest]
                 \in c.opReceipts

Good(c) ==
    /\ c \in Contexts
    /\ OneChain(c)
    /\ NewestActive(c)
    /\ SupersededPublished(c)
    /\ \A v \in Published(c) : ReviewedPublication(c, v)
    /\ ActiveSource(c)
    /\ ApprovedReviewed(c)

\* A set of at most one element has no two.
LEMMA AtMostOne ==
    ASSUME NEW S, IsFiniteSet(S), Cardinality(S) <= 1, NEW a \in S, NEW b \in S
    PROVE  a = b
<1> SUFFICES ASSUME a # b PROVE FALSE
    OBVIOUS
<1>1. IsFiniteSet({a}) /\ Cardinality({a}) = 1
    BY FS_Singleton
<1>2. b \notin {a}
    OBVIOUS
<1>3. Cardinality({a} \cup {b}) = 2
    BY <1>1, <1>2, FS_AddElement
<1>4. {a} \cup {b} \in SUBSET S
    OBVIOUS
<1>5. Cardinality({a} \cup {b}) <= Cardinality(S)
    BY <1>4, FS_Subset
<1>6. Cardinality(S) \in Nat
    BY FS_CardinalityType
<1> QED
    BY <1>3, <1>5, <1>6

\* There are finitely many active versions.
LEMMA ActiveFinite ==
    ASSUME NEW c
    PROVE  IsFiniteSet(Active(c))
<1>1. IsFiniteSet(Versions)
    BY VersionAssumption, FS_Interval, SMT DEF Versions
<1>2. Active(c) \in SUBSET Versions
    BY DEF Active, Published
<1> QED
    BY <1>1, <1>2, FS_Subset

\* put_draft writes one draft, with the next revision, and nothing else.
LEMMA PutEffect ==
    ASSUME NEW c \in Contexts, NEW d \in DraftIds, NEW x \in Drafts
    PROVE  /\ [x EXCEPT !.revision = @ + 1] \in Drafts
           /\ Put(c, d, x) \in Contexts
           /\ Put(c, d, x).drafts = [c.drafts EXCEPT ![d] = [x EXCEPT !.revision = @ + 1]]
           /\ Put(c, d, x).published = c.published
           /\ Put(c, d, x).superseded = c.superseded
           /\ Put(c, d, x).opReceipts = c.opReceipts
<1> DEFINE y == [x EXCEPT !.revision = @ + 1]
<1>1. y \in Drafts
    BY DEF Drafts
<1> HIDE DEF y
<1>2. [c EXCEPT !.drafts[d] = y] \in Contexts
    BY <1>1 DEF Contexts
<1>3. Put(c, d, x) = [c EXCEPT !.drafts[d] = y]
    BY DEF Put, y
<1>4. /\ [c EXCEPT !.drafts[d] = y].drafts = [c.drafts EXCEPT ![d] = y]
      /\ [c EXCEPT !.drafts[d] = y].published = c.published
      /\ [c EXCEPT !.drafts[d] = y].superseded = c.superseded
      /\ [c EXCEPT !.drafts[d] = y].opReceipts = c.opReceipts
    BY DEF Contexts
<1> QED
    BY <1>1, <1>2, <1>3, <1>4 DEF y

\* A publication stays reviewed while its record and its draft stay and no receipt goes.
LEMMA ReviewStays ==
    ASSUME NEW c, NEW e, NEW v, ReviewedPublication(c, v),
           e.published[v] = c.published[v], c.opReceipts \subseteq e.opReceipts,
           e.drafts[c.published[v].draft] = c.drafts[c.published[v].draft]
    PROVE  ReviewedPublication(e, v)
<1> DEFINE p == c.published[v]
           x == c.drafts[p.draft]
<1>1. /\ x # NoDraft /\ x.state \in {"published", "superseded"} /\ x.version = v
      /\ x.decisions # <<>>
      /\ x.decisions[Len(x.decisions)] =
           [decision |-> "approved", revision |-> p.approval.revision - 1, manifest |-> p.manifest]
      /\ p.manifest.final /\ x.manifest = p.manifest
    BY Zenon DEF ReviewedPublication
<1>2. \A rev \in {p.approval.revision - 1, p.approval.revision} :
        [draft |-> p.draft, revision |-> rev, manifest |-> p.manifest] \in e.opReceipts
    BY Zenon DEF ReviewedPublication
<1>3. e.published[v] = p /\ e.drafts[p.draft] = x
    BY Zenon
<1> HIDE DEF p, x
<1> QED
    BY <1>1, <1>2, <1>3, Zenon DEF ReviewedPublication

\* A mutation that writes one draft, outside the states that publication reads,
\* keeps the invariant.
LEMMA WorkStep ==
    ASSUME NEW c, Good(c), NEW e \in Contexts, NEW d \in DraftIds, NEW y \in Drafts,
           e.drafts = [c.drafts EXCEPT ![d] = y],
           e.published = c.published, e.superseded = c.superseded,
           e.opReceipts = c.opReceipts,
           c.drafts[d] = NoDraft \/ c.drafts[d].state \notin {"published", "superseded"},
           y.state \notin {"approved", "published", "superseded"}
    PROVE  Good(e)
<1>1. Published(e) = Published(c) /\ Active(e) = Active(c)
    BY DEF Published, Active
<1>2. c \in Contexts /\ c.drafts \in [DraftIds -> Drafts \cup {NoDraft}]
    BY DEF Good, Contexts
<1>3. OneChain(e)
    BY <1>1 DEF Good, OneChain
<1>4. NewestActive(e) /\ SupersededPublished(e)
    BY <1>1 DEF Good, NewestActive, SupersededPublished
<1>5. ASSUME NEW v \in Published(c)
      PROVE  c.published[v].draft # d /\ e.drafts[c.published[v].draft] = c.drafts[c.published[v].draft]
  <2>1. ReviewedPublication(c, v)
      BY DEF Good
  <2>2. c.published[v].draft # d
      BY <2>1 DEF ReviewedPublication
  <2> QED
      BY <2>2, <1>2
<1>6. \A v \in Published(e) : ReviewedPublication(e, v)
    BY <1>1, <1>5, ReviewStays DEF Good
<1>7. ActiveSource(e)
    BY <1>1, <1>5 DEF Good, ActiveSource, Active
<1>8. ApprovedReviewed(e)
    BY <1>2 DEF Good, ApprovedReviewed
<1> QED
    BY <1>3, <1>4, <1>6, <1>7, <1>8 DEF Good

-----------------------------------------------------------------------------
(* One lemma per mutation *)

\* create_draft keeps the invariant.
LEMMA CreateGood ==
    ASSUME NEW c, Good(c), NEW r \in CreateRequests(c), MayCreate(c, r)
    PROVE  Good(Create(c, r))
<1> DEFINE y == [state |-> "draft", revision |-> 1, version |-> r.version, manifest |-> r.manifest,
                 previous |-> r.previous, candidate |-> NoManifest, submitted |-> NoManifest,
                 decisions |-> <<>>, approval |-> NoApproval]
<1>1. /\ r.draft \in DraftIds /\ c.drafts[r.draft] = NoDraft /\ r.version \in Versions
      /\ r.manifest \in Manifests /\ r.previous \in Versions \cup {NoVersion}
    BY ManifestAssumption DEF CreateRequests, Active, Published
<1>2. y \in Drafts
    BY <1>1 DEF Drafts, States
<1> HIDE DEF y
<1>3. c \in Contexts
    BY DEF Good
<1>4. Create(c, r) = [c EXCEPT !.drafts[r.draft] = y]
    BY DEF Create, y
<1>5. /\ [c EXCEPT !.drafts[r.draft] = y] \in Contexts
      /\ [c EXCEPT !.drafts[r.draft] = y].drafts = [c.drafts EXCEPT ![r.draft] = y]
      /\ [c EXCEPT !.drafts[r.draft] = y].published = c.published
      /\ [c EXCEPT !.drafts[r.draft] = y].superseded = c.superseded
      /\ [c EXCEPT !.drafts[r.draft] = y].opReceipts = c.opReceipts
    BY <1>1, <1>2, <1>3 DEF Contexts
<1>6. y.state = "draft"
    BY DEF y
<1> QED
    BY <1>1, <1>2, <1>4, <1>5, <1>6, WorkStep

\* Every draft that is there has its type.
LEMMA DraftType ==
    ASSUME NEW c \in Contexts, NEW d \in DraftIds, c.drafts[d] # NoDraft
    PROVE  c.drafts[d] \in Drafts
    BY DEF Contexts

\* replace_draft, validate_draft, submit_for_review and review_draft write a
\* draft that is no further than in review.
LEMMA PutGood ==
    ASSUME NEW c, Good(c), NEW d \in DraftIds, NEW x \in Drafts,
           c.drafts[d].state \notin {"published", "superseded"},
           x.state \notin {"approved", "published", "superseded"}
    PROVE  Good(Put(c, d, x))
<1> DEFINE y == [x EXCEPT !.revision = @ + 1]
<1>1. c \in Contexts
    BY DEF Good
<1>2. y.state = x.state
    BY DEF Drafts
<1>3. /\ y \in Drafts
      /\ Put(c, d, x) \in Contexts
      /\ Put(c, d, x).drafts = [c.drafts EXCEPT ![d] = y]
      /\ Put(c, d, x).published = c.published
      /\ Put(c, d, x).superseded = c.superseded
      /\ Put(c, d, x).opReceipts = c.opReceipts
    BY <1>1, PutEffect
<1> HIDE DEF y
<1> QED
    BY <1>2, <1>3, WorkStep

\* replace_draft keeps the invariant.
LEMMA ReplaceGood ==
    ASSUME NEW c, Good(c), NEW r \in ReplaceRequests(c), MayReplace(c, r)
    PROVE  Good(Replace(c, r))
<1>1. r.draft \in DraftIds /\ r.replacement \in Manifests
    BY ManifestAssumption DEF ReplaceRequests, Open
<1>2. c.drafts[r.draft] \in Drafts /\ c.drafts[r.draft].state = "draft"
    BY <1>1, DraftType DEF MayReplace, Expected, Good
<1> DEFINE x == [c.drafts[r.draft] EXCEPT !.manifest = r.replacement,
                        !.submitted = NoManifest, !.approval = NoApproval]
<1>3. x \in Drafts /\ x.state = "draft"
    BY <1>1, <1>2 DEF Drafts
<1>4. Replace(c, r) = Put(c, r.draft, x)
    BY DEF Replace
<1> QED
    BY <1>1, <1>2, <1>3, <1>4, PutGood

\* validate_draft keeps the invariant.
LEMMA ValidateGood ==
    ASSUME NEW c, Good(c), NEW r \in PlainRequests(c, "validate"), MayValidate(c, r)
    PROVE  Good(Validate(c, r))
<1>1. r.draft \in DraftIds
    BY DEF PlainRequests, Transition, Open
<1>2. c.drafts[r.draft] \in Drafts /\ c.drafts[r.draft].state = "draft"
    BY <1>1, DraftType DEF MayValidate, Expected, Good
<1> DEFINE x == [c.drafts[r.draft] EXCEPT !.state = "validated"]
<1>3. x \in Drafts /\ x.state = "validated"
    BY <1>2 DEF Drafts, States
<1>4. Validate(c, r) = Put(c, r.draft, x)
    BY DEF Validate
<1> QED
    BY <1>1, <1>2, <1>3, <1>4, PutGood

\* submit_for_review keeps the invariant.
LEMMA SubmitGood ==
    ASSUME NEW c, Good(c), NEW r \in PlainRequests(c, "submit"), MaySubmit(c, r)
    PROVE  Good(Submit(c, r))
<1>1. r.draft \in DraftIds
    BY DEF PlainRequests, Transition, Open
<1>2. /\ c.drafts[r.draft] \in Drafts /\ c.drafts[r.draft].state = "validated"
      /\ c.drafts[r.draft].manifest = r.manifest
    BY <1>1, DraftType DEF MaySubmit, Expected, Good
<1> DEFINE f == [r.manifest EXCEPT !.final = TRUE]
           x == [c.drafts[r.draft] EXCEPT !.state = "in_review", !.manifest = f,
                        !.candidate = f, !.submitted = f]
<1>3. f \in Manifests
    BY <1>2 DEF Drafts, Manifests
<1>4. Submit(c, r) = Put(c, r.draft, x)
    BY DEF Submit
<1> HIDE DEF f
<1>5. x \in Drafts /\ x.state = "in_review"
    BY <1>2, <1>3 DEF Drafts, States
<1> HIDE DEF x
<1> QED
    BY <1>1, <1>2, <1>4, <1>5, PutGood

\* review_draft keeps the invariant.
LEMMA ReviewGood ==
    ASSUME NEW c, Good(c), NEW r \in ReviewRequests(c), MayReview(c, r)
    PROVE  Good(Review(c, r))
<1> DEFINE x == c.drafts[r.draft]
           k == [decision |-> r.decision, revision |-> x.revision + 1, manifest |-> x.manifest]
           y == [x EXCEPT !.decisions = Append(@, k)]
           z == [y EXCEPT !.state = "draft", !.submitted = NoManifest,
                          !.candidate = NoManifest, !.approval = NoApproval]
<1>1. r.draft \in DraftIds /\ r.decision \in {"approved", "changes_requested"}
    BY DEF ReviewRequests, Open
<1>2. x \in Drafts /\ x.state = "in_review"
    BY <1>1, DraftType DEF MayReview, Expected, Good
<1>3. k \in Decisions /\ x.decisions \in Seq(Decisions)
    BY <1>1, <1>2 DEF Drafts, Decisions
<1>4. Append(x.decisions, k) \in Seq(Decisions)
    BY <1>3
<1>5. y \in Drafts /\ y.state = "in_review"
    BY <1>2, <1>4 DEF Drafts
<1>6. z \in Drafts /\ z.state = "draft"
  <2> HIDE DEF y
  <2> QED BY <1>5 DEF Drafts, States
<1>7. Review(c, r) = Put(c, r.draft, IF r.decision = "approved" THEN y ELSE z)
    BY DEF Review
<1> HIDE DEF y, z
<1>8. CASE r.decision = "approved"
    BY <1>1, <1>2, <1>5, <1>7, <1>8, PutGood
<1>9. CASE r.decision # "approved"
    BY <1>1, <1>2, <1>6, <1>7, <1>9, PutGood
<1> QED
    BY <1>8, <1>9

\* issue_operational_context_receipt only adds receipts.
LEMMA IssueGood ==
    ASSUME NEW c, Good(c), NEW r \in IssueRequests(c), MayIssue(c, r)
    PROVE  Good(Issue(c, r))
<1> DEFINE k == [draft |-> r.draft, revision |-> r.revision, manifest |-> r.manifest]
           e == [c EXCEPT !.opReceipts = @ \cup {k}]
<1>1. r.draft \in DraftIds
    BY DEF IssueRequests, PlainRequests, Transition, Open
<1>2. c \in Contexts
    BY DEF Good
<1>3. /\ c.drafts[r.draft] \in Drafts /\ c.drafts[r.draft].revision = r.revision
      /\ c.drafts[r.draft].manifest = r.manifest
    BY <1>1, <1>2, DraftType DEF MayIssue, Expected
<1>4. k \in OpReceipts
    BY <1>1, <1>3 DEF OpReceipts, Drafts
<1> HIDE DEF k
<1>5. /\ e \in Contexts /\ e.drafts = c.drafts /\ e.published = c.published
      /\ e.superseded = c.superseded /\ e.opReceipts = c.opReceipts \cup {k}
    BY <1>2, <1>4 DEF Contexts
<1>6. Issue(c, r) = e
    BY DEF Issue, k
<1> HIDE DEF e
<1>7. Published(e) = Published(c) /\ Active(e) = Active(c)
    BY <1>5 DEF Published, Active
<1>8. OneChain(e)
    BY <1>5, <1>7 DEF Good, OneChain
<1>9. NewestActive(e) /\ SupersededPublished(e) /\ ActiveSource(e)
    BY <1>5, <1>7 DEF Good, NewestActive, SupersededPublished, ActiveSource
<1>10. \A v \in Published(e) : ReviewedPublication(e, v)
    BY <1>5, <1>7, ReviewStays DEF Good
<1>11. ApprovedReviewed(e)
    BY <1>5 DEF Good, ApprovedReviewed
<1> QED
    BY <1>5, <1>6, <1>8, <1>9, <1>10, <1>11 DEF Good

\* approve_draft keeps the invariant: the review it approves is the last one and
\* the receipt it was given is of the revision before the approval.
LEMMA ApproveGood ==
    ASSUME NEW c, Good(c), NEW r \in ApproveRequests(c), MayApprove(c, r)
    PROVE  Good(Approve(c, r))
<1> DEFINE d == r.draft
           x == c.drafts[d]
           a == [revision |-> x.revision + 1, manifest |-> x.manifest,
                 review |-> x.decisions[Len(x.decisions)].revision]
           w == [x EXCEPT !.state = "approved", !.approval = a]
           y == [w EXCEPT !.revision = @ + 1]
           e == Put(c, d, w)
<1>1. d \in DraftIds
    BY DEF ApproveRequests, Open
<1>2. c \in Contexts /\ c.drafts \in [DraftIds -> Drafts \cup {NoDraft}]
    BY DEF Good, Contexts
<1>3. x \in Drafts /\ x.state = "in_review"
    BY <1>1, <1>2, DraftType DEF MayApprove, Expected
<1>4. /\ x.decisions # <<>>
      /\ x.decisions[Len(x.decisions)] =
           [decision |-> "approved", revision |-> x.revision, manifest |-> x.manifest]
      /\ [draft |-> d, revision |-> x.revision, manifest |-> x.manifest] \in c.opReceipts
    BY DEF MayApprove, ReceiptBound
<1>5. a \in Approvals
    BY <1>3, <1>4 DEF Approvals, Drafts
<1>6. Approve(c, r) = e
    BY DEF Approve
<1> HIDE DEF a
<1>7. w \in Drafts
    BY <1>3, <1>5 DEF Drafts, States
<1>8. /\ y.state = "approved" /\ y.decisions = x.decisions /\ y.manifest = x.manifest
      /\ y.revision = x.revision + 1 /\ x.revision \in Nat
    BY <1>3 DEF Drafts
<1> HIDE DEF w
<1>9. /\ y \in Drafts /\ e \in Contexts /\ e.drafts = [c.drafts EXCEPT ![d] = y]
      /\ e.published = c.published /\ e.superseded = c.superseded
      /\ e.opReceipts = c.opReceipts
    BY <1>1, <1>2, <1>7, PutEffect
<1> HIDE DEF y, e, d
<1>10. Published(e) = Published(c) /\ Active(e) = Active(c)
    BY <1>9 DEF Published, Active
<1>11. OneChain(e)
    BY <1>9, <1>10 DEF Good, OneChain
<1>12. NewestActive(e) /\ SupersededPublished(e)
    BY <1>9, <1>10 DEF Good, NewestActive, SupersededPublished
<1>13. ASSUME NEW v \in Published(c)
       PROVE  e.drafts[c.published[v].draft] = c.drafts[c.published[v].draft]
  <2>1. ReviewedPublication(c, v)
      BY DEF Good
  <2>2. c.published[v].draft # d
      BY <1>3, <2>1 DEF ReviewedPublication
  <2> QED
      BY <2>2, <1>2, <1>9
<1>14. \A v \in Published(e) : ReviewedPublication(e, v)
    BY <1>9, <1>10, <1>13, ReviewStays DEF Good
<1>15. ActiveSource(e)
    BY <1>9, <1>10, <1>13 DEF Good, ActiveSource, Active
<1>16. ApprovedReviewed(e)
  <2> SUFFICES ASSUME NEW b \in DraftIds, e.drafts[b] # NoDraft, e.drafts[b].state = "approved"
               PROVE  LET z == e.drafts[b] IN
                      /\ z.decisions # <<>>
                      /\ z.decisions[Len(z.decisions)] =
                           [decision |-> "approved", revision |-> z.revision - 1,
                            manifest |-> z.manifest]
                      /\ [draft |-> b, revision |-> z.revision - 1, manifest |-> z.manifest]
                           \in e.opReceipts
      BY DEF ApprovedReviewed
  <2>1. CASE b = d
    <3>1. e.drafts[b] = y
        BY <2>1, <1>1, <1>2, <1>9
    <3>2. y.revision - 1 = x.revision
        BY <1>8
    <3> QED
        BY <3>1, <3>2, <2>1, <1>4, <1>8, <1>9
  <2>2. CASE b # d
      BY <2>2, <1>2, <1>9 DEF Good, ApprovedReviewed
  <2> QED
      BY <2>1, <2>2
<1> QED
    BY <1>6, <1>9, <1>11, <1>12, <1>14, <1>15, <1>16 DEF Good

\* publish_draft keeps the invariant: the version it adds succeeds the only
\* active version, which is the newest one.
LEMMA PublishGood ==
    ASSUME NEW c, Good(c), NEW r \in PublishRequests(c), MayPublish(c, r)
    PROVE  Good(Publish(c, r))
<1> DEFINE d == r.draft
           x == c.drafts[d]
           n == x.version
           p == x.previous
           q == [manifest |-> x.manifest, draft |-> d, previous |-> p, approval |-> x.approval]
           w == [x EXCEPT !.state = "published"]
           y == [w EXCEPT !.revision = @ + 1]
           f == Put(c, d, w)
           e == [f EXCEPT !.published[n] = q]
<1>1. d \in DraftIds
    BY DEF PublishRequests, Open
<1>2. /\ c \in Contexts /\ c.drafts \in [DraftIds -> Drafts \cup {NoDraft}]
      /\ c.published \in [Versions -> Publications \cup {NoPublication}]
    BY DEF Good, Contexts
<1>3. x \in Drafts /\ x.state = "approved" /\ x # NoDraft
    BY <1>1, <1>2, DraftType DEF MayPublish, Expected
<1>4. /\ x.approval \in Approvals /\ x.approval.revision = x.revision
      /\ x.manifest.final
      /\ [draft |-> d, revision |-> x.revision, manifest |-> x.manifest] \in c.opReceipts
      /\ c.published[n] = NoPublication /\ Lineage(c, n, p)
    BY <1>3 DEF MayPublish, ReceiptBound, CurrentCandidate, Drafts
<1>5. /\ x.decisions # <<>>
      /\ x.decisions[Len(x.decisions)] =
           [decision |-> "approved", revision |-> x.revision - 1, manifest |-> x.manifest]
      /\ [draft |-> d, revision |-> x.revision - 1, manifest |-> x.manifest] \in c.opReceipts
    BY <1>1, <1>3 DEF Good, ApprovedReviewed
<1>6. n \in Versions /\ p \in Versions \cup {NoVersion} /\ x.manifest \in Manifests
    BY <1>3 DEF Drafts
<1>7. q \in Publications
    BY <1>1, <1>4, <1>6 DEF Publications
<1>8. q.manifest = x.manifest /\ q.draft = d /\ q.previous = p /\ q.approval = x.approval
    OBVIOUS
<1>9. Publish(c, r) = e
    BY DEF Publish
<1>10. w \in Drafts
    BY <1>3 DEF Drafts, States
<1>11. /\ y.state = "published" /\ y.decisions = x.decisions /\ y.manifest = x.manifest
       /\ y.version = n
    BY <1>3 DEF Drafts
<1> HIDE DEF w
<1>12. /\ y \in Drafts /\ f \in Contexts /\ f.drafts = [c.drafts EXCEPT ![d] = y]
       /\ f.published = c.published /\ f.superseded = c.superseded
       /\ f.opReceipts = c.opReceipts
    BY <1>1, <1>2, <1>10, PutEffect
<1> HIDE DEF y, f, q, d, n, p
<1>13. /\ e \in Contexts /\ e.drafts = [c.drafts EXCEPT ![d] = y]
       /\ e.published = [c.published EXCEPT ![n] = q] /\ e.superseded = c.superseded
       /\ e.opReceipts = c.opReceipts
    BY <1>6, <1>7, <1>12 DEF Contexts
<1> HIDE DEF e
<1>14. e.published[n] = q /\ (\A v \in Versions : v # n => e.published[v] = c.published[v])
    BY <1>2, <1>6, <1>13
<1>15. n \notin Published(c) /\ Published(e) = Published(c) \cup {n}
    BY <1>4, <1>6, <1>7, <1>14, NullAssumption DEF Published
<1>16. n \notin Active(c) /\ Active(e) = Active(c) \cup {n}
    BY <1>6, <1>13, <1>15 DEF Active, Good, SupersededPublished
<1>17. \/ Published(c) = {} /\ Active(c) = {} /\ p = NoVersion
       \/ \E a \in Active(c) : /\ Active(c) = {a} /\ p = a /\ n > a
                               /\ \A v \in Published(c) : v <= a
  <2>1. CASE Active(c) = {}
      BY <2>1, <1>4 DEF Lineage, Good, OneChain
  <2>2. CASE Active(c) # {}
    <3>1. PICK a \in Active(c) : \A v \in Published(c) : v <= a
        BY <2>2 DEF Good, NewestActive, Active
    <3>2. \A b \in Active(c) : b = a
        BY <1>4, AtMostOne, ActiveFinite DEF Lineage
    <3>3. p = a /\ n > a
        BY <1>4, <2>2 DEF Lineage
    <3> QED
        BY <3>1, <3>2, <3>3
  <2> QED
      BY <2>1, <2>2
<1>18. \A v \in Published(c) : v \in Versions /\ v # n /\ e.published[v] = c.published[v]
    BY <1>14, <1>15 DEF Published
<1>19. Versions \subseteq Nat \ {0}
    BY VersionAssumption DEF Versions
<1>20. OneChain(e)
  <2> DEFINE prev(v) == e.published[v].previous
  <2>1. prev(n) = p /\ (\A v \in Published(c) : prev(v) = c.published[v].previous)
      BY <1>8, <1>14, <1>18
  <2>2. p # NoVersion => p \in Published(c) /\ p < n
      BY <1>6, <1>17, <1>19 DEF Active, Published
  <2>3. \A v \in Published(c) : c.published[v].previous # p
    <3> SUFFICES ASSUME NEW v \in Published(c), c.published[v].previous = p PROVE FALSE
        OBVIOUS
    <3>1. PICK a \in Active(c) : p = a /\ v <= a
        BY <1>17
    <3>2. a \in Versions /\ v \in Versions /\ a # NoVersion
        BY <1>19 DEF Active, Published, NoVersion
    <3>3. a < v
        BY <3>1, <3>2 DEF Good, OneChain
    <3> QED
        BY <1>19, <3>1, <3>2, <3>3
  <2>4. \A v \in Published(e) : prev(v) # NoVersion => prev(v) \in Published(e) /\ prev(v) < v
      BY <2>1, <2>2, <1>15 DEF Good, OneChain
  <2>5. \A v, u \in Published(e) : v # u => prev(v) # prev(u)
      BY <2>1, <2>3, <1>15 DEF Good, OneChain
  <2>6. \A v \in Published(e) : e.superseded[v] # NoVersion =>
            e.superseded[v] \in Published(e) /\ prev(e.superseded[v]) = v
      BY <2>1, <1>13, <1>15, <1>16 DEF Good, OneChain, Active
  <2>7. Active(e) # {}
      BY <1>16
  <2>8. \A v, u \in Active(e) : v < u => prev(u) = v
    <3> SUFFICES ASSUME NEW v \in Active(e), NEW u \in Active(e), v < u PROVE prev(u) = v
        OBVIOUS
    <3>1. v \in Nat /\ u \in Nat
        BY <1>19 DEF Active, Published
    <3>2. v # n \/ u # n
        BY <3>1
    <3>3. PICK a \in Active(c) : Active(c) = {a} /\ p = a /\ n > a
        BY <3>2, <1>16, <1>17
    <3>4. a \in Nat /\ n \in Nat
        BY <1>6, <1>19 DEF Active, Published
    <3>5. v = a /\ u = n
        BY <3>1, <3>3, <3>4, <1>16
    <3> QED
        BY <3>3, <3>5, <2>1
  <2> QED
      BY <2>4, <2>5, <2>6, <2>7, <2>8 DEF OneChain
<1>21. NewestActive(e)
  <2>1. \A v \in Published(e) : v <= n
    <3> SUFFICES ASSUME NEW v \in Published(c) PROVE v <= n
        BY <1>6, <1>15, <1>19
    <3>1. PICK a \in Active(c) : n > a /\ v <= a
        BY <1>17
    <3>2. a \in Nat /\ v \in Nat /\ n \in Nat
        BY <1>6, <1>19 DEF Active, Published
    <3> QED
        BY <3>1, <3>2
  <2> QED
      BY <2>1, <1>16 DEF NewestActive
<1>22. SupersededPublished(e)
    BY <1>13, <1>15 DEF Good, SupersededPublished
<1>23. ASSUME NEW v \in Published(c)
       PROVE  e.drafts[c.published[v].draft] = c.drafts[c.published[v].draft]
  <2>1. ReviewedPublication(c, v)
      BY DEF Good
  <2>2. c.published[v].draft # d
      BY <1>3, <2>1 DEF ReviewedPublication
  <2> QED
      BY <2>2, <1>2, <1>13
<1>24. e.drafts[d] = y /\ y # NoDraft
    BY <1>1, <1>2, <1>12, <1>13, NullAssumption
<1>25. ReviewedPublication(e, n)
  <2>1. /\ y # NoDraft /\ y.state \in {"published", "superseded"} /\ y.version = n
        /\ y.decisions # <<>>
        /\ y.decisions[Len(y.decisions)] =
             [decision |-> "approved", revision |-> q.approval.revision - 1,
              manifest |-> q.manifest]
        /\ q.manifest.final /\ y.manifest = q.manifest
      BY <1>4, <1>5, <1>8, <1>11, <1>24
  <2>2. \A rev \in {q.approval.revision - 1, q.approval.revision} :
             [draft |-> q.draft, revision |-> rev, manifest |-> q.manifest] \in e.opReceipts
      BY <1>4, <1>5, <1>8, <1>13
  <2>3. e.published[n] = q /\ q.draft = d /\ e.drafts[d] = y
      BY <1>8, <1>14, <1>24
  <2> QED
      BY <2>1, <2>2, <2>3 DEF ReviewedPublication
<1>26. \A v \in Published(c) : ReviewedPublication(e, v)
    BY <1>13, <1>18, <1>23, ReviewStays DEF Good
<1>27. ActiveSource(e)
  <2>1. \A v \in Active(c) : e.drafts[e.published[v].draft].state = "published"
      BY <1>18, <1>23 DEF Good, ActiveSource, Active
  <2>2. e.drafts[e.published[n].draft].state = "published"
      BY <1>8, <1>11, <1>14, <1>24
  <2> QED
      BY <2>1, <2>2, <1>16 DEF ActiveSource
<1>28. ApprovedReviewed(e)
    BY <1>2, <1>11, <1>13 DEF Good, ApprovedReviewed
<1> QED
    BY <1>9, <1>13, <1>15, <1>20, <1>21, <1>22, <1>25, <1>26, <1>27, <1>28 DEF Good

\* supersede_version keeps the invariant: it takes the older of two active
\* versions out, never the newest.
LEMMA SupersedeGood ==
    ASSUME NEW c, Good(c), NEW r \in SupersedeRequests(c), MaySupersede(c, r)
    PROVE  Good(Supersede(c, r))
<1> DEFINE d == r.draft
           x == c.drafts[d]
           v == r.version
           u == r.replacement
           w == [x EXCEPT !.state = "superseded"]
           y == [w EXCEPT !.revision = @ + 1]
           f == Put(c, d, w)
           e == [f EXCEPT !.superseded[v] = u]
<1>1. d \in DraftIds
    BY DEF SupersedeRequests, Open
<1>2. /\ c \in Contexts /\ c.drafts \in [DraftIds -> Drafts \cup {NoDraft}]
      /\ c.superseded \in [Versions -> Versions \cup {NoVersion}]
    BY DEF Good, Contexts
<1>3. x \in Drafts /\ x.state = "published" /\ x # NoDraft
    BY <1>1, <1>2, DraftType DEF MaySupersede, Expected
<1>4. /\ v \in Published(c) /\ d = c.published[v].draft /\ c.superseded[v] = NoVersion
      /\ u \in Published(c) /\ c.published[u].previous = v
    BY DEF MaySupersede
<1>5. Supersede(c, r) = e
    BY DEF Supersede
<1>6. w \in Drafts
    BY <1>3 DEF Drafts, States
<1>7. /\ y.state = "superseded" /\ y.decisions = x.decisions /\ y.manifest = x.manifest
      /\ y.version = x.version
    BY <1>3 DEF Drafts
<1> HIDE DEF w
<1>8. /\ y \in Drafts /\ f \in Contexts /\ f.drafts = [c.drafts EXCEPT ![d] = y]
      /\ f.published = c.published /\ f.superseded = c.superseded
      /\ f.opReceipts = c.opReceipts
    BY <1>1, <1>2, <1>6, PutEffect
<1> HIDE DEF y, f, d, v, u
<1>9. v \in Versions /\ u \in Versions
    BY <1>4 DEF Published
<1>10. /\ e \in Contexts /\ e.drafts = [c.drafts EXCEPT ![d] = y]
       /\ e.published = c.published /\ e.superseded = [c.superseded EXCEPT ![v] = u]
       /\ e.opReceipts = c.opReceipts
    BY <1>8, <1>9 DEF Contexts
<1> HIDE DEF e
<1>11. Versions \subseteq Nat \ {0}
    BY VersionAssumption DEF Versions
<1>12. e.superseded[v] = u /\ (\A s \in Versions : s # v => e.superseded[s] = c.superseded[s])
    BY <1>2, <1>9, <1>10
<1>13. Published(e) = Published(c)
    BY <1>10 DEF Published
<1>14. Active(e) = Active(c) \ {v}
    BY <1>9, <1>11, <1>12, <1>13 DEF Active, Published, NoVersion
<1>15. v < u
    BY <1>4, <1>9, <1>11 DEF Good, OneChain, NoVersion
<1>16. NewestActive(e)
  <2>1. PICK a \in Active(c) : \A s \in Published(c) : s <= a
      BY <1>4 DEF Good, NewestActive
  <2>2. a \in Versions
      BY DEF Active, Published
  <2>3. a # v
      BY <2>1, <2>2, <1>4, <1>9, <1>11, <1>15
  <2> QED
      BY <2>1, <2>3, <1>13, <1>14 DEF NewestActive
<1>17. OneChain(e)
  <2> DEFINE prev(s) == c.published[s].previous
  <2>1. /\ \A s \in Published(e) : prev(s) # NoVersion => prev(s) \in Published(e) /\ prev(s) < s
        /\ \A s, t \in Published(e) : s # t => prev(s) # prev(t)
        /\ \A s, t \in Active(e) : s < t => prev(t) = s
      BY <1>13, <1>14 DEF Good, OneChain
  <2>2. \A s \in Published(e) : e.superseded[s] # NoVersion =>
            e.superseded[s] \in Published(e) /\ prev(e.superseded[s]) = s
    <3> SUFFICES ASSUME NEW s \in Published(c), e.superseded[s] # NoVersion
                 PROVE  e.superseded[s] \in Published(c) /\ prev(e.superseded[s]) = s
        BY <1>13
    <3>1. CASE s = v
        BY <3>1, <1>4, <1>12
    <3>2. CASE s # v
        BY <3>2, <1>12 DEF Good, OneChain, Published
    <3> QED
        BY <3>1, <3>2
  <2>3. Published(e) # {} => Active(e) # {}
      BY <1>16 DEF NewestActive
  <2> QED
      BY <2>1, <2>2, <2>3, <1>10 DEF OneChain
<1>18. SupersededPublished(e)
    BY <1>4, <1>12, <1>13 DEF Good, SupersededPublished
<1>19. ASSUME NEW s \in Published(c)
       PROVE  \/ s = v
              \/ e.drafts[c.published[s].draft] = c.drafts[c.published[s].draft]
  <2>1. ReviewedPublication(c, s) /\ ReviewedPublication(c, v)
      BY <1>4 DEF Good
  <2>2. s # v => c.published[s].draft # d
      BY <2>1, <1>4 DEF ReviewedPublication
  <2> QED
      BY <2>2, <1>2, <1>10
<1>20. e.drafts[d] = y /\ y # NoDraft
    BY <1>1, <1>2, <1>8, <1>10, NullAssumption
<1>21. ASSUME NEW s \in Published(c)
       PROVE  ReviewedPublication(e, s)
  <2>1. ReviewedPublication(c, s)
      BY DEF Good
  <2>2. CASE s = v
      BY <2>1, <2>2, <1>4, <1>7, <1>10, <1>20 DEF ReviewedPublication
  <2>3. CASE s # v
      BY <2>1, <2>3, <1>10, <1>19, ReviewStays
  <2> QED
      BY <2>2, <2>3
<1>22. ActiveSource(e)
    BY <1>10, <1>14, <1>19 DEF Good, ActiveSource, Active
<1>23. ApprovedReviewed(e)
    BY <1>2, <1>7, <1>10 DEF Good, ApprovedReviewed
<1> QED
    BY <1>5, <1>10, <1>13, <1>16, <1>17, <1>18, <1>21, <1>22, <1>23 DEF Good

-----------------------------------------------------------------------------
(* Theorems *)

\* A workload without drafts and versions satisfies the invariant.
LEMMA EmptyGood == Good(EmptyContext)
<1>1. EmptyContext \in Contexts
    BY DEF EmptyContext, Contexts
<1>2. Published(EmptyContext) = {} /\ Active(EmptyContext) = {}
    BY DEF EmptyContext, Published, Active
<1>3. SupersededPublished(EmptyContext) /\ ApprovedReviewed(EmptyContext)
    BY DEF EmptyContext, SupersededPublished, ApprovedReviewed
<1> QED
    BY <1>1, <1>2, <1>3 DEF Good, OneChain, NewestActive, ActiveSource

\* The context keeps its type and the inductive invariant under every mutation
\* of the service.
THEOREM LifecycleInvariance == Spec => []Good(ctx)
<1>1. Init => Good(ctx)
    BY EmptyGood DEF Init
<1>2. Good(ctx) /\ [Next]_ctx => Good(ctx)'
  <2> SUFFICES ASSUME Good(ctx), [Next]_ctx PROVE Good(ctx')
      OBVIOUS
  <2>1. CASE CreateDraft
      BY <2>1, CreateGood DEF CreateDraft
  <2>2. CASE ReplaceDraft
      BY <2>2, ReplaceGood DEF ReplaceDraft
  <2>3. CASE ValidateDraft
      BY <2>3, ValidateGood DEF ValidateDraft
  <2>4. CASE SubmitForReview
      BY <2>4, SubmitGood DEF SubmitForReview
  <2>5. CASE ReviewDraft
      BY <2>5, ReviewGood DEF ReviewDraft
  <2>6. CASE IssueReceipt
      BY <2>6, IssueGood DEF IssueReceipt
  <2>7. CASE ApproveDraft
      BY <2>7, ApproveGood DEF ApproveDraft
  <2>8. CASE PublishDraft
      BY <2>8, PublishGood DEF PublishDraft
  <2>9. CASE SupersedeVersion
      BY <2>9, SupersedeGood DEF SupersedeVersion
  <2>10. CASE UNCHANGED ctx
      BY <2>10
  <2> QED
      BY <2>1, <2>2, <2>3, <2>4, <2>5, <2>6, <2>7, <2>8, <2>9, <2>10 DEF Next
<1> QED
    BY <1>1, <1>2, PTL DEF Spec

\* The context keeps its type.
THEOREM LifecycleTypes == Spec => []TypeOK
<1>1. Good(ctx) => TypeOK
    BY DEF Good, TypeOK
<1> QED
    BY <1>1, LifecycleInvariance, PTL

\* Whatever drafts compete, the published versions form one chain.
THEOREM LineageIsLinear == Spec => []LineageLinear
<1>1. Good(ctx) => LineageLinear
    BY DEF Good, LineageLinear
<1> QED
    BY <1>1, LifecycleInvariance, PTL

\* Every published manifest was approved by the last review of its draft and by
\* an approval on receipts of exactly these revisions.
THEOREM NothingUnreviewedPublished == Spec => []PublishedWasReviewed
<1>1. Good(ctx) => PublishedWasReviewed
    BY DEF Good, PublishedWasReviewed
<1> QED
    BY <1>1, LifecycleInvariance, PTL

\* Between publish_draft and supersede_version the succession can be finished.
THEOREM SuccessionNeverStuck == Spec => []SuccessionRecoverable
<1>1. Good(ctx) => SuccessionRecoverable
  <2> SUFFICES ASSUME Good(ctx), NEW v \in Active(ctx), NEW w \in Active(ctx), v < w
               PROVE  MaySupersede(ctx, Succession(ctx, v, w))
      BY DEF SuccessionRecoverable
  <2> DEFINE d == ctx.published[v].draft
             r == Succession(ctx, v, w)
  <2>1. /\ r.draft = d /\ r.revision = ctx.drafts[d].revision
        /\ r.manifest = ctx.drafts[d].manifest /\ r.version = v /\ r.replacement = w
        /\ r.replacementManifest = ctx.published[w].manifest
      BY DEF Succession
  <2>2. /\ v \in Published(ctx) /\ w \in Published(ctx) /\ ctx.superseded[v] = NoVersion
        /\ v \in Nat /\ w \in Nat
      BY VersionAssumption DEF Active, Published, Versions
  <2>3. ctx.drafts[d] # NoDraft /\ ctx.drafts[d].state = "published"
      BY <2>2 DEF Good, ReviewedPublication, ActiveSource
  <2>4. ctx.published[w].previous = v
      BY DEF Good, OneChain
  <2> QED
      BY <2>1, <2>2, <2>3, <2>4 DEF MaySupersede, Expected
<1> QED
    BY <1>1, LifecycleInvariance, PTL
=============================================================================
