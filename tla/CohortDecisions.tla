--------------------------- MODULE CohortDecisions ---------------------------
(***************************************************************************)
(* Human decisions about proposed cohorts                                  *)
(* (src/src/athena_context/api/cohort_service.py and                       *)
(* cohort_decision_service.py) and the selector provenance they leave in   *)
(* the drafts and versions of one workload (selector_provenance.py,        *)
(* selector_authority.py and the selector checks of service.py).           *)
(*                                                                         *)
(* A batch of proposals is bound to one revision of one draft and to one   *)
(* evidence snapshot.  A reviewer previews splits and merges of its        *)
(* proposals and then decides them one by one, while other reviewers       *)
(* decide, drafts are edited, seeded from each other, published and rolled *)
(* back.  Each operation is one transaction of the context store           *)
(* (ContextStore shows that they are atomic).  The way of a draft from     *)
(* validation to publication and the supersession of its predecessor are   *)
(* ContextLifecycle's subject and one step here: between them a draft      *)
(* accepts neither replacements nor decisions.  A snapshot that expires    *)
(* only ends the use of its batch, which nobody has to use.                *)
(*                                                                         *)
(* One profile without descendants is modelled.  A selector is its         *)
(* identity and its atoms, all of which a resource must match: the first   *)
(* selector of a role, the instances of a scale set and lists of           *)
(* resources stand for the variants.  Digests are injective.  Disjunctions,*)
(* maxMatches bounds, the other fields of a role, the actors and the       *)
(* backfilling of baselines for drafts older than this protocol are left   *)
(* out.                                                                    *)
(***************************************************************************)
EXTENDS Integers, Sequences, FiniteSetsExt

CONSTANTS
    Roles,         \* roles of the profile
    Inherited,     \* those declared globally at first; the others are the profile's own
    Members,       \* resources, numbered in the order of their identifiers
    roleOf,        \* the role a resource belongs to by its selectors and tags
    anchorOf,      \* the scale set a resource is an instance of
    NoAnchor,
    Sights,        \* the sets of resources a snapshot may show
    NoRole,
    MaxVersion,    \* bound: manifest versions, numbered in their order
    MaxDrafts,     \* bound: drafts
    MaxSteps,      \* bound: batches, previews and replacements of drafts without a decision
    MaxDecisions   \* bound: recorded decisions

ASSUME RoleAssumption ==
    /\ Inherited \subseteq Roles /\ NoRole \notin Roles /\ IsFiniteSet(Roles)
    /\ roleOf \in [Members -> Roles]
ASSUME MemberAssumption ==
    Members \subseteq Nat /\ IsFiniteSet(Members) /\ Sights \subseteq SUBSET Members
ASSUME BoundAssumption == MaxVersion \in Nat

VARIABLES
    drafts,     \* DraftRecords with their selector baselines, in the order of creation
    batches,    \* cached batches; live while no later snapshot of their binding exists
    previews,   \* candidates stored with preview receipts
    decisions   \* CohortDecisionRecords in the order they were recorded

vars == <<drafts, batches, previews, decisions>>

Versions == 1 .. MaxVersion
NoVersion == 0
NoDraft == 0

-----------------------------------------------------------------------------
(* Selectors, roles and manifests *)

\* An identifier: a fixed name, or one made for a part of some proposals of a batch.
Identity(name, batch, proposals, part) ==
    [name |-> name, batch |-> batch, proposals |-> proposals, part |-> part]
Fixed(name) == Identity(name, 0, {}, {})

Ids(selectors) == {s.id : s \in selectors}
Atom(form, members) == [form |-> form, members |-> members]
MatchesAll(atoms) == {m \in Members : \A a \in atoms : m \in a.members}
Matches(s) == MatchesAll(s.atoms)
Composite(s) == s.id.name \in {"split", "merge"} \/ Cardinality(s.atoms) > 1

\* The selector a role has before any decision.
ManifestSelector(r) ==
    [id |-> Fixed("manifest"), atoms |-> {Atom("role", {m \in Members : roleOf[m] = r})}]

\* The manifest of a new workload: each role is declared globally or by the profile.
FirstManifest ==
    [global |-> [r \in Roles |-> IF r \in Inherited THEN {ManifestSelector(r)} ELSE {}],
     local |-> [r \in Roles |-> IF r \in Inherited THEN {} ELSE {ManifestSelector(r)}],
     text |-> 0]

\* manifest_selector_provenance: every selector at its location.
Provenance(m) == [global |-> m.global, local |-> m.local]

\* _selector_override_is_narrower: each atom is kept; a list may become shorter.
AtomNarrower(previous, current) ==
    /\ previous.form = current.form
    /\ previous = current
         \/ (previous.form = "list" /\ current.members \subseteq previous.members)
OverrideNarrower(previous, current) ==
    /\ Composite(previous) => Composite(current)
    /\ \A a \in previous.atoms : \E b \in current.atoms : AtomNarrower(a, b)

\* is_guarded_selector_replacement_narrower: conjunctions, each of which retains
\* one inherited selector.
GuardedNarrower(previous, current) ==
    /\ previous # {} /\ current # {}
    /\ \A s \in current : Composite(s) /\ \E t \in previous : OverrideNarrower(t, s)

\* _selector_binding_permits for one of the bindings B.
Permits(B, r, inherited, replacement) ==
    /\ \E b \in B :
         \/ /\ b.kind \in {"split", "merge"} /\ b.role = r
            /\ b.source = inherited /\ b.result = replacement
         \/ b.retained[r] = replacement
    /\ GuardedNarrower(inherited, replacement)

\* _merge_keyed: the selectors a role resolves to.
Resolved(m, r) ==
    LET g == m.global[r]
        l == m.local[r]
    IN
    IF l = {} THEN g
    ELSE IF Ids(g) \cap Ids(l) = {} THEN l
    ELSE l \cup {s \in g : s.id \notin Ids(l)}

\* Every role resolves, given the selector capability of the bindings B
\* (_merge_keyed and _validate_inherited_semantics).
Resolves(m, B) ==
    \A r \in Roles : m.global[r] # {} /\ m.local[r] # {} =>
        LET g == m.global[r]
            l == m.local[r]
        IN
        IF Ids(g) \cap Ids(l) = {} THEN Permits(B, r, g, l)
        ELSE /\ Ids(l) \subseteq Ids(g)
             /\ \A s \in l, t \in g : s.id = t.id => OverrideNarrower(t, s)

Effective(m) == [r \in Roles |-> Resolved(m, r)]

-----------------------------------------------------------------------------
(* Lineage and selector authority *)

Drafts == DOMAIN drafts
PublishedVersions == {drafts[d].version : d \in {e \in Drafts : drafts[e].state = "published"}}
PublishedDraft(v) ==
    CHOOSE d \in Drafts : drafts[d].state = "published" /\ drafts[d].version = v
ActiveVersion == Max(PublishedVersions \cup {NoVersion})

\* _ensure_lineage, when every publication supersedes its predecessor.
Lineage(new, previous) == previous = ActiveVersion /\ new > previous

\* Defect: a rollback inherits from the version it follows, not from its source.
SourceIsPrevious(x) == x.previous

\* The version whose selectors a draft starts from.
SelectorSource(x) == IF x.source # NoVersion THEN x.source ELSE x.previous

\* _applied_bindings
AppliedBindings(d, revision) ==
    {b \in Range(decisions) : b.draft = d /\ b.applied \in 1 .. revision}

\* _published_lineage_bindings of every version
LineageBindings ==
    LET bindings[v \in {NoVersion} \cup Versions] ==
          IF v \notin PublishedVersions THEN {}
          ELSE LET x == drafts[PublishedDraft(v)] IN
               AppliedBindings(PublishedDraft(v), x.revision) \cup bindings[SelectorSource(x)]
    IN bindings

\* persisted_selector_authority_for_draft
Authority(d) ==
    AppliedBindings(d, drafts[d].revision) \cup LineageBindings[SelectorSource(drafts[d])]

\* The binding that _validate_manifest_selector_provenance overlays last.  Equal
\* revisions of two drafts are told apart by the digests of the decisions, here by
\* the order of recording: where the digests say otherwise the later decision is
\* refused.
LastBinding(B) ==
    CHOOSE b \in B : \A c \in B :
        c.applied < b.applied \/ (c.applied = b.applied /\ c.number <= b.number)

\* _validate_manifest_selector_provenance: the baseline overlaid with the decisions.
ProvenanceHolds(baseline, m, B) ==
    /\ m.global = baseline.manifest.global
    /\ \A r \in Roles :
         LET on == {b \in B : b.role = r} IN
         m.local[r] = IF on = {} THEN baseline.manifest.local[r] ELSE LastBinding(on).result

\* _validate_inferred_selector_baseline
InferredHolds ==
    LET holds[d \in Drafts] ==
          LET x == drafts[d]
              p == x.baseline.predecessor
          IN
          IF p = NoDraft
          THEN x.previous = NoVersion => \A e \in Drafts : drafts[e].version >= x.version
          ELSE /\ x.previous = NoVersion
               /\ drafts[p].version < x.version
               /\ Provenance(drafts[p].baseline.manifest) = Provenance(x.baseline.manifest)
               /\ holds[p]
    IN holds

\* _validate_lifecycle_manifest
LifecycleHolds(d) ==
    /\ InferredHolds[d]
    /\ ProvenanceHolds(drafts[d].baseline, drafts[d].manifest, Authority(d))
    /\ Resolves(drafts[d].manifest, Authority(d))

-----------------------------------------------------------------------------
(* Drafts *)

\* The manifests clients send: known ones, or with known or proposed selectors
\* put into a role.
KnownManifests == {FirstManifest} \cup {drafts[d].manifest : d \in Drafts}
KnownSelectors(r) ==
    {m.local[r] : m \in KnownManifests} \cup {m.global[r] : m \in KnownManifests}
      \cup {p.selectors : p \in {q \in previews : q.role = r}}
SentManifests ==
    UNION {{m}
           \cup (UNION {{[m EXCEPT !.local[r] = s] : s \in KnownSelectors(r)} : r \in Roles})
           \cup (UNION {{[m EXCEPT !.global[r] = s] : s \in KnownSelectors(r)} : r \in Roles}) :
             m \in KnownManifests}

\* The drafts whose baseline is the predecessor of a draft without declared
\* lineage: those of its version, else those of the latest earlier one.
InferredPredecessors(version) ==
    LET same == {d \in Drafts : drafts[d].version = version}
        earlier == {drafts[d].version : d \in {e \in Drafts : drafts[e].version < version}}
    IN
    IF same # {} THEN same
    ELSE {d \in Drafts : earlier # {} /\ drafts[d].version = Max(earlier)}

\* An unpublished draft may seed another one only while it is untouched by
\* decisions and, for a later version, still as it was created.
MaySeed(d, version) ==
    LET x == drafts[d] IN
    /\ InferredHolds[d]
    /\ x.previous = NoVersion
    /\ Authority(d) = {}
    /\ x.version # version => x.manifest = x.baseline.manifest
    /\ ProvenanceHolds(x.baseline, x.manifest, {})
    /\ Resolves(x.manifest, {})

\* _new_draft_selector_reference: the predecessors a new draft can be measured by.
References(version, previous, source) ==
    LET v == IF source # NoVersion THEN source ELSE previous IN
    IF v # NoVersion
    THEN {[manifest |-> drafts[PublishedDraft(v)].manifest,
           entries |-> Provenance(drafts[PublishedDraft(v)].manifest),
           bindings |-> LineageBindings[v], predecessor |-> NoDraft]}
    ELSE LET candidates == InferredPredecessors(version) IN
         {[manifest |-> drafts[d].manifest,
           entries |-> Provenance(drafts[d].baseline.manifest),
           bindings |-> {},
           predecessor |-> IF drafts[d].version = version
                           THEN drafts[d].baseline.predecessor ELSE d] :
             d \in {e \in candidates : candidates = {e} /\ MaySeed(e, version)}}

\* Defect: the selectors of a new draft are compared as they resolve only.
BaselineUnchecked(version, m, reference) == TRUE

\* _validate_new_draft_selector_baseline
BaselineExpected(version, m, reference) ==
    LET same == {d \in Drafts : drafts[d].version = version} IN
    IF same # {} THEN \A d \in same : Provenance(drafts[d].baseline.manifest) = Provenance(m)
    ELSE Provenance(m) = reference.entries

NewDraft(version, previous, source, m, predecessor) ==
    [version |-> version, previous |-> previous, source |-> source, state |-> "draft",
     revision |-> 1, manifest |-> m, baseline |-> [manifest |-> m, predecessor |-> predecessor]]

\* create_draft of the first draft: nothing to compare it with.
CreateFirstDraft ==
    /\ drafts = <<>>
    /\ \E v \in Versions :
         drafts' = <<NewDraft(v, NoVersion, NoVersion, FirstManifest, NoDraft)>>
    /\ UNCHANGED <<batches, previews, decisions>>

\* create_draft of a further one.
CreateDraft ==
    /\ drafts # <<>> /\ Len(drafts) < MaxDrafts
    /\ \E v \in Versions, s \in PublishedVersions \cup {NoVersion}, m \in SentManifests :
         /\ Lineage(v, ActiveVersion)
         /\ s # NoVersion => s < ActiveVersion /\ m = drafts[PublishedDraft(s)].manifest
         /\ \E reference \in References(v, ActiveVersion, s) :
              /\ BaselineExpected(v, m, reference)
              /\ Resolves(m, reference.bindings)
              /\ Effective(m) = Effective(reference.manifest)
              /\ drafts' = Append(drafts,
                             NewDraft(v, ActiveVersion, s, m, reference.predecessor))
    /\ UNCHANGED <<batches, previews, decisions>>

\* The steps taken besides creations, publications and decisions.
Steps ==
    Len(batches) + Cardinality(previews)
      + MapThenSumSet(LAMBDA d : drafts[d].revision - 1, Drafts)
      - Cardinality({e \in Range(decisions) : e.applied > 0})

Put(d, m) == [drafts EXCEPT ![d].manifest = m, ![d].revision = @ + 1]

\* replace_draft without a decision
ReplaceDraft ==
    /\ Steps < MaxSteps
    /\ \E d \in Drafts : \E m \in SentManifests \cup {[drafts[d].manifest EXCEPT !.text = 1 - @]} :
         LET x == drafts[d] IN
         /\ x.state = "draft" /\ m # x.manifest
         /\ Lineage(x.version, x.previous)
         /\ InferredHolds[d]
         /\ Provenance(m) = Provenance(x.manifest)
         /\ ProvenanceHolds(x.baseline, m, Authority(d))
         /\ Resolves(x.manifest, Authority(d)) /\ Resolves(m, Authority(d))
         /\ Effective(m) = Effective(x.manifest)
         /\ drafts' = Put(d, m)
    /\ UNCHANGED <<batches, previews, decisions>>

\* validate_draft to publish_draft, and supersede_version of the predecessor
PublishDraft ==
    /\ \E d \in Drafts :
         /\ drafts[d].state = "draft"
         /\ Lineage(drafts[d].version, drafts[d].previous)
         /\ LifecycleHolds(d)
         /\ drafts' = [drafts EXCEPT ![d].state = "published"]
    /\ UNCHANGED <<batches, previews, decisions>>

-----------------------------------------------------------------------------
(* Proposals and previews *)

\* _build_selector_preview: known atoms that single the members out among what
\* the snapshot shows, as few as possible, or the list of the members.
DirectAtoms(source, members, seen) ==
    LET anchors == {Atom("anchor", {n \in Members : anchorOf[n] = anchorOf[m]}) :
                      m \in {n \in members : anchorOf[n] # NoAnchor}}
        candidates == {a \in anchors \cup UNION {s.atoms : s \in source} :
                         members \subseteq a.members}
        exact == {A \in SUBSET candidates \ {{}} : MatchesAll(A) \cap seen = members}
    IN
    IF exact = {} THEN {Atom("list", members)}
    ELSE CHOOSE A \in exact : \A C \in exact : Cardinality(A) <= Cardinality(C)

\* The selector that reviews a proposal directly.  It takes the identity of the
\* one selector of its type that matches the same resources, else a fixed one
\* (_bind_direct_review_selector_ids).
DirectSelector(source, members, seen) ==
    LET atoms == DirectAtoms(source, members, seen)
        type(A) == IF Cardinality(A) > 1 THEN "composite" ELSE (CHOOSE a \in A : TRUE).form
        same == {s \in source :
                   /\ (IF Composite(s) THEN "composite" ELSE type(s.atoms)) = type(atoms)
                   /\ Matches(s) \cap seen = members}
    IN
    [id |-> IF Cardinality(same) = 1 THEN (CHOOSE s \in same : TRUE).id
            ELSE IF type(atoms) = "list" THEN Fixed("resource-ids") ELSE Fixed("cohort"),
     atoms |-> atoms]

\* _candidate_groups: the resources of a role, by scale set when all are instances.
Groups(r, seen) ==
    LET candidates == {m \in seen : roleOf[m] = r}
        together(m) == {n \in candidates : anchorOf[n] = anchorOf[m]}
    IN
    IF \A m \in candidates : anchorOf[m] # NoAnchor
    THEN {together(m) : m \in candidates}
    ELSE {candidates}

\* propose_cohorts for the draft d
BatchOf(d, seen) ==
    LET source == Effective(drafts[d].manifest) IN
    [draft |-> d, revision |-> drafts[d].revision, seen |-> seen, source |-> source,
     proposals |-> UNION {{[role |-> r, members |-> members,
                            selector |-> DirectSelector(source[r], members, seen)] :
                              members \in Groups(r, seen)} : r \in Roles},
     live |-> TRUE]

\* get_proposals, on a snapshot collected for the draft as it is.  The snapshot
\* replaces an earlier one of the same binding.
GetProposals ==
    /\ Steps < MaxSteps
    /\ \E d \in Drafts, seen \in Sights :
         /\ drafts[d].state = "draft"
         /\ Resolves(drafts[d].manifest, Authority(d))
         /\ LET new == BatchOf(d, seen)
                retired == [i \in DOMAIN batches |->
                              IF batches[i].draft = d /\ batches[i].revision = new.revision
                              THEN [batches[i] EXCEPT !.live = FALSE] ELSE batches[i]]
            IN new \notin Range(batches) /\ batches' = Append(retired, new)
    /\ UNCHANGED <<drafts, previews, decisions>>

\* _split_previews: two parts of equal size, the first the larger one.
SplitParts(S) ==
    LET low == {m \in S : Cardinality({n \in S : n < m}) < (Cardinality(S) + 1) \div 2} IN
    {low, S \ low}

\* The parts a preview of the proposals P consists of: lists of resources for a
\* split, the selectors of the proposals for a merge (_merge_previews).
Parts(kind, P) ==
    IF kind = "split"
    THEN UNION {{[members |-> part, atoms |-> {Atom("list", part)}] :
                   part \in SplitParts(p.members)} : p \in P}
    ELSE {[members |-> p.members, atoms |-> p.selector.atoms] : p \in P}

\* _guard_selector_replacements: the selectors of the source that match a part.
Guards(source, seen, part) == {g \in source : part.members \subseteq Matches(g) \cap seen}

\* The selectors of a candidate: each part with the atoms of its guard.
CandidateSelectors(kind, i, P, source) ==
    {[id |-> Identity(kind, i, P, part.members),
      atoms |-> (UNION {g.atoms : g \in Guards(source, batches[i].seen, part)}) \cup part.atoms] :
        part \in Parts(kind, P)}

\* _select_proposals: the proposals one preview can be about.
Previewable(kind, P) ==
    /\ Cardinality({p.role : p \in P}) = 1
    /\ IF kind = "split"
       THEN Cardinality(P) = 1 /\ \A p \in P : Cardinality(p.members) >= 2
       ELSE Cardinality(P) >= 2 /\ \A p \in P : ~Composite(p.selector)

\* preview: only while the draft is at the revision of the batch.
Preview ==
    /\ Steps < MaxSteps
    /\ \E i \in DOMAIN batches, kind \in {"split", "merge"} :
       \E P \in SUBSET batches[i].proposals :
         LET b == batches[i]
             r == (CHOOSE p \in P : TRUE).role
         IN
         /\ b.live
         /\ drafts[b.draft].state = "draft" /\ drafts[b.draft].revision = b.revision
         /\ Previewable(kind, P)
         /\ \A part \in Parts(kind, P) : Cardinality(Guards(b.source[r], b.seen, part)) = 1
         /\ GuardedNarrower(b.source[r], CandidateSelectors(kind, i, P, b.source[r]))
         /\ previews' = previews \cup
              {[batch |-> i, kind |-> kind, proposals |-> P, role |-> r,
                selectors |-> CandidateSelectors(kind, i, P, b.source[r])]}
         /\ previews' # previews
    /\ UNCHANGED <<drafts, batches, decisions>>

-----------------------------------------------------------------------------
(* Decisions *)

\* _rejection_authorities: the members under their role and its selectors.
Authorities(i, P) ==
    UNION {{[role |-> p.role, selectors |-> batches[i].source[p.role], member |-> m] :
              m \in p.members} : p \in P}

\* Defect: the overlap is looked for among the decisions on the same draft.
OverlapsInDraft(i, P) ==
    \E e \in Range(decisions) : e.draft = batches[i].draft /\ e.covers \cap Authorities(i, P) # {}

\* list_overlapping_cohort_decisions, _arbitrate_overlap.  Equal proposals of one
\* batch cover equal members.
Overlaps(i, P) == \E e \in Range(decisions) : e.covers \cap Authorities(i, P) # {}

\* _require_current_draft: every revision after the batch was made by one of its
\* own decisions.
CurrentDraft(i) ==
    LET x == drafts[batches[i].draft] IN
    /\ x.state = "draft"
    /\ {e.applied : e \in {f \in Range(decisions) : f.batch = i /\ f.applied > 0}}
         = batches[i].revision + 1 .. x.revision

\* The decision record, of which an apply authorization is a part.
Decision(kind, i, P, role, candidate, result, applied) ==
    [number |-> Len(decisions) + 1, kind |-> kind, batch |-> i, draft |-> batches[i].draft,
     proposals |-> P, covers |-> Authorities(i, P), role |-> role,
     source |-> IF role = NoRole THEN {} ELSE batches[i].source[role],
     candidate |-> candidate, result |-> result,
     retained |-> drafts[batches[i].draft].manifest.local, applied |-> applied]

\* decide, up to the apply: the batch and its snapshot are current, nothing
\* overlaps, the draft has not moved on otherwise.
Decidable(i, P) ==
    /\ Len(decisions) < MaxDecisions
    /\ P # {} /\ P \subseteq batches[i].proposals
    /\ batches[i].live
    /\ ~Overlaps(i, P)
    /\ CurrentDraft(i)

\* Defect: the candidate replaces what the role has become since.
ReplacedRole(source, current, candidate) == candidate

\* _selector_only_replacement: the candidate replaces the selectors it was cut
\* from and joins those of earlier decisions of its batch.
AppliedRole(source, current, candidate) ==
    IF current = source THEN candidate ELSE current \cup candidate

\* decide with a candidate: the record, then replace_draft_in_transaction
Apply(kind, i, P, candidate) ==
    LET d == batches[i].draft
        x == drafts[d]
        r == (CHOOSE p \in P : TRUE).role
        source == batches[i].source[r]
        current == IF x.manifest.local[r] = {} THEN source ELSE x.manifest.local[r]
        result == AppliedRole(source, current, candidate)
        m == [x.manifest EXCEPT !.local[r] = result]
        decision == Decision(kind, i, P, r, candidate, result, x.revision + 1)
        B == Authority(d) \cup {decision}
    IN
    /\ Decidable(i, P)
    /\ Cardinality({p.role : p \in P}) = 1
    /\ current # source => \A s \in candidate, t \in current : s.id = t.id => s = t
    /\ Resolved(x.manifest, r) = current /\ Resolves(x.manifest, {decision})
    /\ Resolved(m, r) = result /\ Resolves(m, {decision})
    /\ Lineage(x.version, x.previous) /\ InferredHolds[d]
    /\ ProvenanceHolds(x.baseline, m, B)
    /\ Resolves(m, B)
    /\ drafts' = Put(d, m)
    /\ decisions' = Append(decisions, decision)
    /\ UNCHANGED <<batches, previews>>

\* decide with the direct candidate of a proposal
Approve ==
    \E i \in DOMAIN batches : \E p \in batches[i].proposals :
      Apply("approve", i, {p}, {p.selector})

\* decide with a stored candidate
ApplyPreview ==
    \E p \in previews : Apply(p.kind, p.batch, p.proposals, p.selectors)

\* decide without a candidate
Reject ==
    /\ \E i \in DOMAIN batches : \E P \in SUBSET batches[i].proposals :
         /\ Decidable(i, P)
         /\ decisions' = Append(decisions, Decision("reject", i, P, NoRole, {}, {}, 0))
    /\ UNCHANGED <<drafts, batches, previews>>

-----------------------------------------------------------------------------

Init == drafts = <<>> /\ batches = <<>> /\ previews = {} /\ decisions = <<>>

Next ==
    \/ CreateFirstDraft \/ CreateDraft \/ ReplaceDraft \/ PublishDraft
    \/ GetProposals \/ Preview
    \/ Approve \/ ApplyPreview \/ Reject

Spec == Init /\ [][Next]_vars

-----------------------------------------------------------------------------
(* Properties *)

\* The published draft whose selectors the draft d declares to start from.
Parents(d) ==
    LET v == IF drafts[d].source # NoVersion THEN drafts[d].source ELSE drafts[d].previous IN
    {e \in Drafts : drafts[e].state = "published" /\ drafts[e].version = v}

\* The drafts a draft descends from, itself included.
Ancestors(d) ==
    {a \in Drafts : \A S \in SUBSET Drafts :
        d \in S /\ (\A e \in S : Parents(e) \subseteq S) => a \in S}

\* The decisions that changed role r, and what the role resolves to after one.
AppliedTo(r) == {e \in Range(decisions) : e.applied > 0 /\ e.role = r}
ResolvedAfter(e) == Resolved([FirstManifest EXCEPT !.local[e.role] = e.result], e.role)

\* No manifest holds a selector nobody decided: in every draft and version a role
\* is declared as in the first manifest of the workload or as a decision left it,
\* and it resolves as at first or as a decision applied to the draft or to a
\* version it descends from made it, whatever manifests clients sent in between
\* (the selector checks of create_draft, replace_draft and publish_draft).
SelectorsTraceable ==
    \A d \in Drafts :
      LET m == drafts[d].manifest IN
      /\ m.global = FirstManifest.global
      /\ \A r \in Roles :
           /\ m.local[r] \in {FirstManifest.local[r]} \cup {e.result : e \in AppliedTo(r)}
           /\ \/ Resolved(m, r) = Resolved(FirstManifest, r)
              \/ \E e \in AppliedTo(r) :
                   e.draft \in Ancestors(d) /\ Resolved(m, r) = ResolvedAfter(e)

\* A rejection is permanent: what was rejected under the selectors of a role is
\* applied by no decision, through whatever regenerated batch, other draft, later
\* version or rollback (_arbitrate_overlap, rejection_authorities_overlap).
RejectionPermanent ==
    \A e, f \in Range(decisions) :
      e.kind = "reject" /\ f.kind # "reject" => e.covers \cap f.covers = {}

\* The decisions applied to the role of f from its batch, f the last of them, and
\* the resources that decisions cover.
AlikeUntil(f) ==
    {e \in Range(decisions) :
       e.batch = f.batch /\ e.role = f.role /\ e.applied \in 1 .. f.applied}
Covered(D) == UNION {{c.member : c \in e.covers} : e \in D}
Selected(f) == batches[f.batch].seen \cap UNION {Matches(s) : s \in f.result}

\* Decisions add up: what a decision leaves in its role selects each resource of
\* the snapshot at most once, all that it covers itself, and nothing that no decision
\* of the batch covers.  If each earlier one visibly changed the selectors of the
\* batch, it selects exactly what they cover together, although all were prepared
\* against one earlier draft.  And that is what the draft keeps until the next
\* decision on the role (_require_current_draft, _selector_only_replacement).
DecisionsAddUp ==
    \A f \in Range(decisions) : f.applied > 0 =>
      /\ Covered({f}) \subseteq Selected(f) /\ Selected(f) \subseteq Covered(AlikeUntil(f))
      /\ (\A g \in AlikeUntil(f) : g.applied < f.applied => g.result # g.source)
           => Selected(f) = Covered(AlikeUntil(f))
      /\ \A s, t \in f.result :
           s # t => Matches(s) \cap Matches(t) \cap batches[f.batch].seen = {}
      /\ (\A e \in Range(decisions) : e.draft = f.draft /\ e.role = f.role => e.applied <= f.applied)
           => drafts[f.draft].manifest.local[f.role] = f.result

\* A decision undoes no earlier one of its batch: it leaves selected what they
\* cover ("Rebased replacement starts from the current draft and therefore preserves
\* every prior disjoint selector change", says the README of the Context API).
\* It fails: _selector_only_replacement takes a role that still has the selectors
\* of the batch for one that no decision has touched, and a decision can confirm
\* the selectors as they are.
PriorChangesPreserved ==
    \A f \in Range(decisions) : f.applied > 0 => Covered(AlikeUntil(f)) \subseteq Selected(f)

\* No draft is accepted that could not be taken further: the selectors of a draft
\* are always those its baseline and the decisions of its lineage account for, and
\* resolve with them, whatever is decided, published or rolled back around it
\* (create_draft "rejects unsafe inferred creation before writing a draft that could
\* fail later lifecycle validation", says the README of the Context API).  Nothing
\* is said of a draft that declares its predecessor when its version has an earlier
\* draft: it is measured by the baseline of that one instead, which lacks what was
\* decided and published in between.
DraftsStayValid ==
    \A d \in Drafts :
      drafts[d].previous = NoVersion
        \/ (\A e \in 1 .. d - 1 : drafts[e].version # drafts[d].version) => LifecycleHolds(d)

=============================================================================
