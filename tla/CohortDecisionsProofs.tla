----------------------- MODULE CohortDecisionsProofs -----------------------
(***************************************************************************)
(* What was rejected is never applied, every selector of every draft and   *)
(* version comes from the first manifest or from a decision, no accepted   *)
(* first draft becomes invalid, and the decisions on a batch add up, for   *)
(* any roles, resources, snapshots, drafts, versions and decisions.        *)
(*                                                                         *)
(* A rejection holds because every decision is compared with all of the    *)
(* workload.  The origin of selectors is an invariant of manifests and of  *)
(* the baselines that new drafts are compared with; which decisions a role *)
(* may owe its resolution to follows the lineage of the draft, and an      *)
(* unpublished draft that seeds another one was touched by none.  A first  *)
(* draft stays valid because a step only adds to the decisions its lineage *)
(* holds.  Decisions add up because those on one batch never overlap, and  *)
(* each candidate selects exactly the resources it is about.               *)
(***************************************************************************)
EXTENDS CohortDecisions, FiniteSetTheorems, WellFoundedInduction, TLAPS

-----------------------------------------------------------------------------
(* The inductive invariant *)

IsSequence(s) == s \in Seq(Range(s))

Shaped(m) == m = [global |-> m.global, local |-> m.local, text |-> m.text]

\* Every declaration of m is the first one or a decision's.
Origin(m) ==
    /\ m.global = FirstManifest.global
    /\ m.local = [r \in Roles |-> m.local[r]]
    /\ \A r \in Roles :
         m.local[r] \in {FirstManifest.local[r]} \cup {e.result : e \in AppliedTo(r)}

DraftOK(x) ==
    /\ x = [version |-> x.version, previous |-> x.previous, source |-> x.source,
            state |-> x.state, revision |-> x.revision, manifest |-> x.manifest,
            baseline |-> x.baseline]
    /\ x.version \in Versions /\ x.revision \in Nat
    /\ x.previous = NoVersion => x.source = NoVersion
    /\ Shaped(x.manifest) /\ Origin(x.manifest) /\ Origin(x.baseline.manifest)

DraftsOK == IsSequence(drafts) /\ \A d \in Drafts : DraftOK(drafts[d])

\* The active version is the latest published one.
ActiveOK ==
    /\ ActiveVersion \in PublishedVersions \cup {NoVersion}
    /\ \A v \in PublishedVersions : v <= ActiveVersion

BatchOK(b) ==
    /\ b = [draft |-> b.draft, revision |-> b.revision, seen |-> b.seen, source |-> b.source,
            proposals |-> b.proposals, live |-> b.live]
    /\ b.draft \in Drafts

BatchesOK ==
    /\ IsSequence(batches) /\ \A i \in DOMAIN batches : BatchOK(batches[i])
    /\ \A p \in previews : p.batch \in DOMAIN batches

DecisionsOK ==
    /\ IsSequence(decisions)
    /\ \A e \in Range(decisions) :
         /\ e.applied \in Nat
         /\ e.applied > 0 => e.draft \in Drafts /\ e.applied <= drafts[e.draft].revision

\* Role r of draft d resolves to X as at first or as a decision of its lineage made it.
Traces(d, r, X) ==
    \/ X = Resolved(FirstManifest, r)
    \/ \E e \in AppliedTo(r) : e.draft \in Ancestors(d) /\ X = ResolvedAfter(e)

TraceOK == \A d \in Drafts, r \in Roles : Traces(d, r, Resolved(drafts[d].manifest, r))

IInv == DraftsOK /\ ActiveOK /\ BatchesOK /\ DecisionsOK /\ TraceOK /\ RejectionPermanent

-----------------------------------------------------------------------------
(* Sequences *)

LEMMA AppendFacts ==
    ASSUME NEW s, IsSequence(s), NEW x
    PROVE  /\ IsSequence(Append(s, x)) /\ Range(Append(s, x)) = Range(s) \cup {x}
           /\ DOMAIN Append(s, x) = DOMAIN s \cup {Len(s) + 1} /\ Len(s) + 1 \notin DOMAIN s
           /\ Append(s, x)[Len(s) + 1] = x /\ \A i \in DOMAIN s : Append(s, x)[i] = s[i]
<1> DEFINE T == Range(s) \cup {x}
           t == Append(s, x)
<1>1. s \in Seq(T)
  <2>1. s \in Seq(Range(s)) /\ Range(s) \subseteq T
    BY DEF IsSequence
  <2>2. QED BY <2>1
<1>2. /\ t \in Seq(T) /\ Len(t) = Len(s) + 1 /\ Len(s) \in Nat
      /\ DOMAIN s = 1 .. Len(s) /\ DOMAIN t = 1 .. Len(s) + 1
      /\ \A i \in 1 .. Len(s) : t[i] = s[i]
      /\ t[Len(s) + 1] = x
  <2> HIDE DEF T
  <2>0. x \in T
    BY DEF T
  <2>1. QED BY <1>1, <2>0
<1>3. DOMAIN t = DOMAIN s \cup {Len(s) + 1} /\ Len(s) + 1 \notin DOMAIN s
  BY <1>2
<1> HIDE DEF t
<1>4. Range(t) = T
  BY <1>2, <1>3 DEF Range
<1>5. QED BY <1>2, <1>3, <1>4 DEF IsSequence, t

LEMMA SequenceDomain ==
    ASSUME NEW s, IsSequence(s)
    PROVE  Len(s) \in Nat /\ DOMAIN s = 1 .. Len(s)
BY DEF IsSequence

\* A sequence that keeps its length.
LEMMA UpdateFacts ==
    ASSUME NEW s, IsSequence(s), NEW t, t = [i \in DOMAIN s |-> t[i]]
    PROVE  IsSequence(t) /\ DOMAIN t = DOMAIN s
<1>1. DOMAIN t = DOMAIN s
  OBVIOUS
<1>2. Len(s) \in Nat /\ DOMAIN s = 1 .. Len(s)
  BY SequenceDomain
<1>3. \A i \in DOMAIN s : t[i] \in Range(t)
  BY <1>1 DEF Range
<1>4. t \in [1 .. Len(s) -> Range(t)]
  BY <1>1, <1>2, <1>3
<1>5. t \in Seq(Range(t))
  BY <1>2, <1>4
<1>6. QED BY <1>1, <1>5 DEF IsSequence

-----------------------------------------------------------------------------
(* The lineage of drafts *)

LEMMA Reflexive == \A d \in Drafts : d \in Ancestors(d)
BY DEF Ancestors

LEMMA ParentsAncestors ==
    ASSUME NEW d \in Drafts, NEW p \in Parents(d)
    PROVE  Ancestors(p) \subseteq Ancestors(d)
BY DEF Ancestors

LEMMA Rootless ==
    ASSUME NEW d \in Drafts, Parents(d) = {}
    PROVE  Ancestors(d) \subseteq {d}
<1>1. SUFFICES ASSUME NEW a \in Ancestors(d) PROVE a \in {d}
  OBVIOUS
<1>2. {d} \in SUBSET Drafts /\ d \in {d} /\ \A e \in {d} : Parents(e) \subseteq {d}
  OBVIOUS
<1>3. QED BY <1>2 DEF Ancestors

\* What no step takes away: drafts with their lineage, publications and decisions.
Grows ==
    /\ Drafts \subseteq Drafts'
    /\ \A d \in Drafts :
         /\ drafts'[d].version = drafts[d].version /\ drafts'[d].source = drafts[d].source
         /\ drafts'[d].previous = drafts[d].previous
         /\ drafts[d].state = "published" => drafts'[d].state = "published"
    /\ Range(decisions) \subseteq Range(decisions')

LEMMA GrowsKeeps ==
    ASSUME Grows
    PROVE  /\ \A d \in Drafts : Ancestors(d) \subseteq Ancestors(d)'
           /\ \A r : AppliedTo(r) \subseteq AppliedTo(r)'
           /\ \A d \in Drafts : \A r, X : Traces(d, r, X) => Traces(d, r, X)'
           /\ \A m : Origin(m) => Origin(m)'
<1>1. \A d \in Drafts : Parents(d) \subseteq Parents(d)'
  BY DEF Grows, Parents
<1>2. ASSUME NEW d \in Drafts, NEW a \in Ancestors(d) PROVE a \in Ancestors(d)'
  <2>1. a \in Drafts'
    BY DEF Ancestors, Grows
  <2>2. ASSUME NEW S \in SUBSET Drafts', d \in S, \A e \in S : Parents(e)' \subseteq S PROVE a \in S
    <3>1. S \cap Drafts \in SUBSET Drafts /\ d \in S \cap Drafts
      BY <2>2
    <3>2. \A e \in S \cap Drafts : Parents(e) \subseteq S \cap Drafts
      BY <1>1, <2>2 DEF Parents
    <3>3. a \in S \cap Drafts
      BY <3>1, <3>2 DEF Ancestors
    <3>4. QED BY <3>3
  <2>3. QED BY <2>1, <2>2 DEF Ancestors
<1>3. \A r : AppliedTo(r) \subseteq AppliedTo(r)'
  BY DEF Grows, AppliedTo
<1>4. ASSUME NEW d \in Drafts, NEW r, NEW X, Traces(d, r, X) PROVE Traces(d, r, X)'
  BY <1>2, <1>3, <1>4 DEF Traces, Resolved, ResolvedAfter, FirstManifest
<1>5. ASSUME NEW m, Origin(m) PROVE Origin(m)'
  BY <1>3, <1>5 DEF Origin, FirstManifest
<1>6. QED BY <1>2, <1>3, <1>4, <1>5

-----------------------------------------------------------------------------
(* Manifests *)

LEMMA FirstFacts == Shaped(FirstManifest) /\ Origin(FirstManifest)
<1>1. Shaped(FirstManifest)
  BY DEF Shaped, FirstManifest
<1>2. FirstManifest.local = [r \in Roles |-> FirstManifest.local[r]]
  BY DEF FirstManifest
<1>3. QED BY <1>1, <1>2 DEF Origin

\* A role resolves by what is declared for it.
LEMMA ResolvedBy ==
    ASSUME NEW m, NEW n, NEW r, m.global[r] = n.global[r], m.local[r] = n.local[r]
    PROVE  Resolved(m, r) = Resolved(n, r)
BY DEF Resolved

\* The manifests that clients send have the parts of a manifest.
LEMMA SentShaped ==
    ASSUME DraftsOK, NEW m \in SentManifests
    PROVE  Shaped(m)
<1>1. \A k \in KnownManifests : Shaped(k)
  BY FirstFacts DEF KnownManifests, DraftsOK, DraftOK
<1>2. PICK k \in KnownManifests :
        \/ m = k
        \/ \E r \in Roles, s \in UNION {KnownSelectors(q) : q \in Roles} :
             m = [k EXCEPT !.local[r] = s] \/ m = [k EXCEPT !.global[r] = s]
  BY DEF SentManifests
<1>3. k = [global |-> k.global, local |-> k.local, text |-> k.text]
  BY <1>1 DEF Shaped
<1>4. ASSUME NEW r, NEW s, m = [k EXCEPT !.local[r] = s] \/ m = [k EXCEPT !.global[r] = s]
      PROVE  Shaped(m)
  BY <1>3, <1>4 DEF Shaped
<1>5. CASE m # k
  <2>1. PICK r, s : m = [k EXCEPT !.local[r] = s] \/ m = [k EXCEPT !.global[r] = s]
    BY <1>2, <1>5
  <2>2. QED BY <1>4, <2>1
<1>6. QED BY <1>1, <1>5

\* One declaration of a manifest is replaced.
LEMMA Redeclared ==
    ASSUME NEW m, Shaped(m), m.local = [r \in Roles |-> m.local[r]], NEW q, NEW s
    PROVE  LET n == [m EXCEPT !.local[q] = s] IN
           /\ Shaped(n) /\ n.global = m.global
           /\ n.local = [r \in Roles |-> IF r = q THEN s ELSE m.local[r]]
<1>1. m = [global |-> m.global, local |-> m.local, text |-> m.text]
  BY DEF Shaped
<1>2. [m EXCEPT !.local[q] = s]
        = [global |-> m.global, local |-> [m.local EXCEPT ![q] = s], text |-> m.text]
  BY <1>1
<1>3. [m.local EXCEPT ![q] = s] = [r \in Roles |-> IF r = q THEN s ELSE m.local[r]]
  OBVIOUS
<1>4. QED BY <1>2, <1>3 DEF Shaped

-----------------------------------------------------------------------------
(* Init *)

LEMMA InitInv == Init => IInv
<1> SUFFICES ASSUME Init PROVE IInv
  OBVIOUS
<1>1. drafts = <<>> /\ batches = <<>> /\ previews = {} /\ decisions = <<>>
  BY DEF Init
<1>2. IsSequence(<<>>) /\ Range(<<>>) = {} /\ DOMAIN <<>> = {}
  BY DEF IsSequence, Range
<1>3. Drafts = {} /\ Range(decisions) = {}
  BY <1>1, <1>2 DEF Drafts
<1>4. DraftsOK /\ BatchesOK /\ DecisionsOK /\ TraceOK /\ RejectionPermanent
  BY <1>1, <1>2, <1>3 DEF DraftsOK, BatchesOK, DecisionsOK, TraceOK, RejectionPermanent
<1>5. ActiveOK
  <2>1. PublishedVersions = {}
    BY <1>3 DEF PublishedVersions
  <2>2. ActiveVersion = Max({0})
    BY <2>1 DEF ActiveVersion, NoVersion
  <2>3. Max({0}) = 0
    BY DEF Max
  <2>4. QED BY <2>1, <2>2, <2>3 DEF ActiveOK, NoVersion
<1>6. QED BY <1>4, <1>5 DEF IInv

-----------------------------------------------------------------------------
(* Drafts are created, replaced and published *)

\* The batches when drafts are only added or changed.
LEMMA BatchesStay ==
    ASSUME IInv, UNCHANGED <<batches, previews>>, Drafts \subseteq Drafts'
    PROVE  BatchesOK'
BY DEF IInv, BatchesOK, BatchOK

\* A draft is created.
LEMMA NewDraftStep ==
    ASSUME IInv, NEW x, drafts' = Append(drafts, x), x.state = "draft", DraftOK(x),
           UNCHANGED <<batches, previews, decisions>>, NEW n, n = Len(drafts) + 1,
           \A r \in Roles : Traces(n, r, Resolved(x.manifest, r))'
    PROVE  IInv'
<1>1. IsSequence(drafts)
  BY DEF IInv, DraftsOK
<1>2. /\ IsSequence(drafts') /\ Drafts' = Drafts \cup {n} /\ n \notin Drafts
      /\ drafts'[n] = x /\ \A d \in Drafts : drafts'[d] = drafts[d]
  BY <1>1, AppendFacts DEF Drafts
<1>3. Grows
  BY <1>2 DEF Grows
<1>4. /\ \A d \in Drafts : \A r, X : Traces(d, r, X) => Traces(d, r, X)'
      /\ \A m : Origin(m) => Origin(m)'
  BY <1>3, GrowsKeeps
<1>5. \A y : DraftOK(y) => DraftOK(y)'
  BY <1>4 DEF DraftOK, Shaped
<1>6. \A d \in Drafts' : DraftOK(drafts'[d])
  BY <1>2 DEF IInv, DraftsOK
<1>7. \A d \in Drafts' : DraftOK(drafts[d])'
  BY <1>5, <1>6
<1>8. DraftsOK'
  BY <1>2, <1>7 DEF DraftsOK
<1>9. PublishedVersions' = PublishedVersions
  BY <1>2 DEF PublishedVersions
<1>10. ActiveOK'
  BY <1>9 DEF IInv, ActiveOK, ActiveVersion
<1>11. DecisionsOK'
  BY <1>2 DEF IInv, DecisionsOK
<1>12. RejectionPermanent'
  BY DEF IInv, RejectionPermanent
<1>13. TraceOK'
  <2>1. ASSUME NEW d \in Drafts', NEW r \in Roles
        PROVE  Traces(d, r, Resolved(drafts[d].manifest, r))'
    <3>1. CASE d = n
      <4>1. PICK X : X = Resolved(x.manifest, r)
        OBVIOUS
      <4>2. Traces(n, r, X)'
        BY <4>1
      <4>3. X = Resolved(drafts[d].manifest, r)'
        BY <1>2, <3>1, <4>1 DEF Resolved
      <4>4. QED BY <3>1, <4>2, <4>3
    <3>2. CASE d \in Drafts
      <4>1. Traces(d, r, Resolved(drafts[d].manifest, r))
        BY <3>2 DEF IInv, TraceOK
      <4>2. PICK X : X = Resolved(drafts[d].manifest, r)
        OBVIOUS
      <4>3. Traces(d, r, X)'
        BY <1>4, <3>2, <4>1, <4>2
      <4>4. X = Resolved(drafts[d].manifest, r)'
        BY <1>2, <3>2, <4>2 DEF Resolved
      <4>5. QED BY <4>3, <4>4
    <3>3. QED BY <1>2, <3>1, <3>2
  <2>2. QED BY <2>1 DEF TraceOK
<1>14. QED BY <1>2, <1>8, <1>10, <1>11, <1>12, <1>13, BatchesStay DEF IInv

\* A draft is changed, its lineage is not.
LEMMA UpdateStep ==
    ASSUME IInv, NEW d \in Drafts, NEW x,
           drafts' = [e \in Drafts |-> IF e = d THEN x ELSE drafts[e]],
           x.version = drafts[d].version, x.source = drafts[d].source,
           x.previous = drafts[d].previous,
           drafts[d].state = "published" => x.state = "published",
           Range(decisions) \subseteq Range(decisions'), DraftOK(x)',
           ActiveOK', DecisionsOK', RejectionPermanent', UNCHANGED <<batches, previews>>,
           \A r \in Roles : Traces(d, r, Resolved(x.manifest, r))'
    PROVE  IInv'
<1>1. IsSequence(drafts)
  BY DEF IInv, DraftsOK
<1>2. /\ IsSequence(drafts') /\ Drafts' = Drafts
      /\ drafts'[d] = x /\ \A e \in Drafts \ {d} : drafts'[e] = drafts[e]
  <2>1. Drafts = DOMAIN drafts /\ Drafts' = DOMAIN drafts'
    BY DEF Drafts
  <2>2. drafts' = [e \in DOMAIN drafts |-> drafts'[e]]
    BY <2>1
  <2>3. IsSequence(drafts')
    BY <1>1, <2>2, UpdateFacts
  <2>4. QED BY <2>1, <2>3
<1>3. Grows
  BY <1>2 DEF Grows
<1>4. /\ \A e \in Drafts : \A r, X : Traces(e, r, X) => Traces(e, r, X)'
      /\ \A m : Origin(m) => Origin(m)'
  BY <1>3, GrowsKeeps
<1>5. \A y : DraftOK(y) => DraftOK(y)'
  BY <1>4 DEF DraftOK, Shaped
<1>6. ASSUME NEW e \in Drafts' PROVE DraftOK(drafts[e])'
  <2>1. CASE e = d
    BY <1>2, <2>1
  <2>2. CASE e # d
    <3>1. DraftOK(drafts[e]) /\ drafts'[e] = drafts[e]
      BY <1>2, <2>2 DEF IInv, DraftsOK
    <3>2. PICK y : y = drafts[e]
      OBVIOUS
    <3>3. DraftOK(y)' /\ y = drafts'[e]
      BY <1>5, <3>1, <3>2
    <3>4. QED BY <3>3
  <2>3. QED BY <2>1, <2>2
<1>7. DraftsOK'
  BY <1>2, <1>6 DEF DraftsOK
<1>8. TraceOK'
  <2>1. ASSUME NEW e \in Drafts', NEW r \in Roles
        PROVE  Traces(e, r, Resolved(drafts[e].manifest, r))'
    <3>1. CASE e = d
      <4>1. PICK X : X = Resolved(x.manifest, r)
        OBVIOUS
      <4>2. Traces(d, r, X)'
        BY <4>1
      <4>3. X = Resolved(drafts[e].manifest, r)'
        BY <1>2, <3>1, <4>1 DEF Resolved
      <4>4. QED BY <3>1, <4>2, <4>3
    <3>2. CASE e # d
      <4>1. Traces(e, r, Resolved(drafts[e].manifest, r))
        BY <1>2 DEF IInv, TraceOK
      <4>2. PICK X : X = Resolved(drafts[e].manifest, r)
        OBVIOUS
      <4>3. Traces(e, r, X)'
        BY <1>2, <1>4, <4>1, <4>2
      <4>4. X = Resolved(drafts[e].manifest, r)'
        BY <1>2, <3>2, <4>2 DEF Resolved
      <4>5. QED BY <4>3, <4>4
    <3>3. QED BY <3>1, <3>2
  <2>2. QED BY <2>1 DEF TraceOK
<1>9. QED BY <1>2, <1>7, <1>8, BatchesStay DEF IInv

\* What a replacement makes of draft d.
PutDraft(d, m, x) ==
    /\ drafts' = [e \in Drafts |-> IF e = d THEN x ELSE drafts[e]]
    /\ x.version = drafts[d].version /\ x.source = drafts[d].source
    /\ x.previous = drafts[d].previous /\ x.state = drafts[d].state
    /\ x.manifest = m /\ x.revision = drafts[d].revision + 1
    /\ x.baseline = drafts[d].baseline
    /\ x = [version |-> x.version, previous |-> x.previous, source |-> x.source,
            state |-> x.state, revision |-> x.revision, manifest |-> x.manifest,
            baseline |-> x.baseline]

LEMMA PutFacts ==
    ASSUME IInv, NEW d \in Drafts, NEW m, drafts' = Put(d, m)
    PROVE  \E x : PutDraft(d, m, x)
<1>1. IsSequence(drafts) /\ DraftOK(drafts[d])
  BY DEF IInv, DraftsOK
<1>2. drafts[d] = [version |-> drafts[d].version, previous |-> drafts[d].previous,
                   source |-> drafts[d].source, state |-> drafts[d].state,
                   revision |-> drafts[d].revision, manifest |-> drafts[d].manifest,
                   baseline |-> drafts[d].baseline]
  BY <1>1 DEF DraftOK
<1>3. drafts = [e \in Drafts |-> drafts[e]]
  BY <1>1 DEF IsSequence, Drafts
<1>4. PICK x : x = [drafts[d] EXCEPT !.manifest = m, !.revision = @ + 1]
  OBVIOUS
<1>5. drafts' = [e \in Drafts |-> IF e = d THEN x ELSE drafts[e]]
  BY <1>3, <1>4 DEF Put
<1>6. PutDraft(d, m, x)
  BY <1>2, <1>4, <1>5 DEF PutDraft
<1>7. QED BY <1>6

LEMMA ActiveStays ==
    ASSUME IInv, PublishedVersions' = PublishedVersions
    PROVE  ActiveOK'
BY DEF IInv, ActiveOK, ActiveVersion

\* A replacement changes neither lineage nor publications.
LEMMA PutGrows ==
    ASSUME IInv, NEW d \in Drafts, NEW m, drafts' = Put(d, m),
           Range(decisions) \subseteq Range(decisions')
    PROVE  /\ Grows /\ Drafts' = Drafts /\ ActiveOK'
           /\ drafts'[d].revision = drafts[d].revision + 1
           /\ \A e \in Drafts : /\ drafts[e].revision \in Nat /\ drafts'[e].revision \in Nat
                                /\ drafts'[e].revision >= drafts[e].revision
<1>1. PICK x : PutDraft(d, m, x)
  BY PutFacts
<1>2. /\ drafts' = [e \in Drafts |-> IF e = d THEN x ELSE drafts[e]]
      /\ x.version = drafts[d].version /\ x.source = drafts[d].source
      /\ x.previous = drafts[d].previous /\ x.state = drafts[d].state
      /\ x.revision = drafts[d].revision + 1
  BY <1>1 DEF PutDraft
<1>3. \A e \in Drafts : drafts[e].revision \in Nat
  BY DEF IInv, DraftsOK, DraftOK
<1>4. Drafts' = Drafts /\ drafts'[d] = x
  BY <1>2 DEF Drafts
<1>5. \A e \in Drafts : drafts'[e].version = drafts[e].version /\ drafts'[e].state = drafts[e].state
  BY <1>2
<1>6. PublishedVersions' = PublishedVersions
  BY <1>4, <1>5 DEF PublishedVersions
<1>7. ActiveOK'
  BY <1>6, ActiveStays
<1>8. Grows
  BY <1>2, <1>4 DEF Grows
<1>9. \A e \in Drafts : drafts'[e].revision \in Nat /\ drafts'[e].revision >= drafts[e].revision
  BY <1>2, <1>3
<1>10. QED BY <1>2, <1>3, <1>4, <1>7, <1>8, <1>9

LEMMA PutStep ==
    ASSUME IInv, NEW d \in Drafts, NEW m, drafts' = Put(d, m), Shaped(m), Origin(m)',
           Range(decisions) \subseteq Range(decisions'),
           DecisionsOK', RejectionPermanent', UNCHANGED <<batches, previews>>,
           \A r \in Roles : Traces(d, r, Resolved(m, r))'
    PROVE  IInv'
<1>1. PICK x : PutDraft(d, m, x)
  BY PutFacts
<1>2. /\ drafts' = [e \in Drafts |-> IF e = d THEN x ELSE drafts[e]]
      /\ x.version = drafts[d].version /\ x.source = drafts[d].source
      /\ x.previous = drafts[d].previous /\ x.state = drafts[d].state
      /\ x.manifest = m /\ x.revision = drafts[d].revision + 1
      /\ x.baseline = drafts[d].baseline
      /\ x = [version |-> x.version, previous |-> x.previous, source |-> x.source,
              state |-> x.state, revision |-> x.revision, manifest |-> x.manifest,
              baseline |-> x.baseline]
  BY <1>1 DEF PutDraft
<1>3. ActiveOK' /\ \A n : Origin(n) => Origin(n)'
  BY PutGrows, GrowsKeeps
<1>4. /\ x.version \in Versions /\ x.revision \in Nat
      /\ x.previous = NoVersion => x.source = NoVersion
  <2>1. DraftOK(drafts[d])
    BY DEF IInv, DraftsOK
  <2>2. /\ drafts[d].version \in Versions /\ drafts[d].revision \in Nat
        /\ drafts[d].previous = NoVersion => drafts[d].source = NoVersion
    BY <2>1 DEF DraftOK
  <2>3. QED BY <1>2, <2>2
<1>5. PICK o : o = drafts[d].baseline.manifest
  OBVIOUS
<1>6. Origin(o)'
  BY <1>3, <1>5 DEF IInv, DraftsOK, DraftOK
<1>7. x.baseline.manifest = o
  BY <1>2, <1>5
<1>8. DraftOK(x)'
  BY <1>2, <1>4, <1>6, <1>7 DEF DraftOK, Shaped, Versions
<1>9. \A r \in Roles : Traces(d, r, Resolved(x.manifest, r))'
  BY <1>2
<1>10. QED BY <1>2, <1>3, <1>8, <1>9, UpdateStep

\* Manifests with the selectors of another one.
LEMMA SameProvenance ==
    ASSUME NEW m, NEW n, Provenance(m) = Provenance(n), Origin(n)
    PROVE  Origin(m)
<1>1. m.global = n.global /\ m.local = n.local
  BY DEF Provenance
<1>2. QED BY <1>1 DEF Origin

LEMMA SameEffective ==
    ASSUME NEW m, NEW n, Effective(m) = Effective(n)
    PROVE  \A r \in Roles : Resolved(m, r) = Resolved(n, r)
BY DEF Effective

LEMMA FirstDraftStep == IInv /\ CreateFirstDraft => IInv'
<1> SUFFICES ASSUME IInv, CreateFirstDraft PROVE IInv'
  OBVIOUS
<1>1. PICK v \in Versions : drafts' = <<NewDraft(v, NoVersion, NoVersion, FirstManifest, NoDraft)>>
  BY DEF CreateFirstDraft
<1>2. PICK x : x = NewDraft(v, NoVersion, NoVersion, FirstManifest, NoDraft)
  OBVIOUS
<1>3. drafts = <<>> /\ Len(drafts) = 0 /\ drafts' = Append(drafts, x)
  BY <1>1, <1>2 DEF CreateFirstDraft
<1>4. DraftOK(x) /\ x.state = "draft" /\ x.manifest = FirstManifest
  <2>1. Shaped(FirstManifest) /\ Origin(FirstManifest)
    BY FirstFacts
  <2> HIDE DEF FirstManifest
  <2>2. QED BY <1>2, <2>1 DEF DraftOK, NewDraft
<1>5. PICK n : n = Len(drafts) + 1
  OBVIOUS
<1>6. \A r \in Roles : Traces(n, r, Resolved(x.manifest, r))'
  BY <1>4 DEF Traces, Resolved, FirstManifest
<1>7. UNCHANGED <<batches, previews, decisions>>
  BY DEF CreateFirstDraft
<1>8. QED BY <1>3, <1>4, <1>5, <1>6, <1>7, NewDraftStep

LEMMA ReplaceStep == IInv /\ ReplaceDraft => IInv'
<1> SUFFICES ASSUME IInv, ReplaceDraft PROVE IInv'
  OBVIOUS
<1>1. PICK d \in Drafts :
        \E m \in SentManifests \cup {[drafts[d].manifest EXCEPT !.text = 1 - @]} :
          /\ Provenance(m) = Provenance(drafts[d].manifest)
          /\ Effective(m) = Effective(drafts[d].manifest)
          /\ drafts' = Put(d, m)
  BY DEF ReplaceDraft
<1>2. PICK m \in SentManifests \cup {[drafts[d].manifest EXCEPT !.text = 1 - @]} :
        /\ Provenance(m) = Provenance(drafts[d].manifest)
        /\ Effective(m) = Effective(drafts[d].manifest)
        /\ drafts' = Put(d, m)
  BY <1>1
<1>3. UNCHANGED <<batches, previews, decisions>>
  BY DEF ReplaceDraft
<1>4. DraftOK(drafts[d])
  BY DEF IInv, DraftsOK
<1>5. Shaped(m)
  <2>1. CASE m \in SentManifests
    BY <2>1, SentShaped DEF IInv
  <2>2. CASE m = [drafts[d].manifest EXCEPT !.text = 1 - @]
    <3>1. Shaped(drafts[d].manifest)
      BY <1>4 DEF DraftOK
    <3>2. QED BY <2>2, <3>1 DEF Shaped
  <2>3. QED BY <1>2, <2>1, <2>2
<1>6. Origin(m)
  BY <1>2, <1>4, SameProvenance DEF DraftOK
<1>7. \A r \in Roles : Resolved(m, r) = Resolved(drafts[d].manifest, r)
  BY <1>2, SameEffective
<1>8. \A r \in Roles : Traces(d, r, Resolved(m, r))
  BY <1>7 DEF IInv, TraceOK
<1>9. /\ Grows /\ Drafts' = Drafts
      /\ \A e \in Drafts : drafts'[e].revision >= drafts[e].revision
  BY <1>2, <1>3, PutGrows
<1>10. Origin(m)' /\ \A r \in Roles : Traces(d, r, Resolved(m, r))'
  <2>1. Origin(m)'
    BY <1>6, <1>9, GrowsKeeps
  <2>2. ASSUME NEW r \in Roles PROVE Traces(d, r, Resolved(m, r))'
    <3>1. PICK X : X = Resolved(m, r)
      OBVIOUS
    <3>2. Traces(d, r, X)'
      BY <1>8, <1>9, <3>1, GrowsKeeps
    <3>3. QED BY <3>1, <3>2 DEF Resolved
  <2>3. QED BY <2>1, <2>2
<1>11. DecisionsOK'
  <2>1. \A e \in Drafts : drafts[e].revision \in Nat /\ drafts'[e].revision \in Nat
    BY <1>2, <1>3, PutGrows
  <2>2. QED BY <1>3, <1>9, <2>1 DEF IInv, DecisionsOK
<1>12. RejectionPermanent'
  BY <1>3 DEF IInv, RejectionPermanent
<1>13. QED BY <1>2, <1>3, <1>5, <1>10, <1>11, <1>12, PutStep

LEMMA MaxIs ==
    ASSUME NEW S \in SUBSET Int, NEW v \in S, \A y \in S : y <= v
    PROVE  Max(S) = v
<1>1. \A y \in S : v >= y
  OBVIOUS
<1>2. \A w \in S : (\A y \in S : w >= y) => w = v
  OBVIOUS
<1>3. QED BY <1>1, <1>2 DEF Max

LEMMA PublishStep == IInv /\ PublishDraft => IInv'
<1> SUFFICES ASSUME IInv, PublishDraft PROVE IInv'
  OBVIOUS
<1>1. PICK d \in Drafts :
        /\ Lineage(drafts[d].version, drafts[d].previous)
        /\ drafts' = [drafts EXCEPT ![d].state = "published"]
  BY DEF PublishDraft
<1>2. UNCHANGED <<batches, previews, decisions>>
  BY DEF PublishDraft
<1>3. IsSequence(drafts) /\ DraftOK(drafts[d])
  BY DEF IInv, DraftsOK
<1>4. drafts = [e \in Drafts |-> drafts[e]]
  BY <1>3 DEF IsSequence, Drafts
<1>5. drafts[d] = [version |-> drafts[d].version, previous |-> drafts[d].previous,
                   source |-> drafts[d].source, state |-> drafts[d].state,
                   revision |-> drafts[d].revision, manifest |-> drafts[d].manifest,
                   baseline |-> drafts[d].baseline]
  BY <1>3 DEF DraftOK
<1>6. PICK x : x = [drafts[d] EXCEPT !.state = "published"]
  OBVIOUS
<1>7. drafts' = [e \in Drafts |-> IF e = d THEN x ELSE drafts[e]]
  BY <1>1, <1>4, <1>6
<1>8. /\ x.version = drafts[d].version /\ x.source = drafts[d].source
      /\ x.previous = drafts[d].previous /\ x.state = "published"
      /\ x.revision = drafts[d].revision /\ x.manifest = drafts[d].manifest
      /\ x.baseline = drafts[d].baseline
      /\ x = [version |-> x.version, previous |-> x.previous, source |-> x.source,
              state |-> x.state, revision |-> x.revision, manifest |-> x.manifest,
              baseline |-> x.baseline]
  BY <1>5, <1>6
<1>9. DraftOK(x)
  BY <1>3, <1>8 DEF DraftOK
<1>10. /\ Drafts' = Drafts
       /\ \A e \in Drafts : /\ drafts'[e].version = drafts[e].version
                            /\ drafts'[e].revision = drafts[e].revision
                            /\ e # d => drafts'[e].state = drafts[e].state
  BY <1>7, <1>8 DEF Drafts
<1>11. drafts'[d].state = "published"
  BY <1>7, <1>8
<1>12. Grows
  BY <1>2, <1>7, <1>8, <1>10 DEF Grows
<1>13. DraftOK(x)'
  <2>1. \A m : Origin(m) => Origin(m)'
    BY <1>12, GrowsKeeps
  <2>2. QED BY <1>9, <2>1 DEF DraftOK, Shaped
<1>14. ActiveOK'
  <2>0. \A e \in Drafts : drafts[e].version \in Int /\ drafts[e].version >= 1
    <3>1. \A e \in Drafts : drafts[e].version \in Versions
      BY DEF IInv, DraftsOK, DraftOK
    <3>2. QED BY <3>1, BoundAssumption DEF Versions
  <2> DEFINE v == drafts[d].version
             S == PublishedVersions \cup {NoVersion}
  <2>1. PublishedVersions' = PublishedVersions \cup {v}
    <3>1. ASSUME NEW w \in PublishedVersions' PROVE w \in PublishedVersions \cup {v}
      <4>1. PICK e \in Drafts : drafts'[e].state = "published" /\ w = drafts'[e].version
        BY <1>10, <3>1 DEF PublishedVersions
      <4>2. QED BY <1>10, <4>1 DEF PublishedVersions
    <3>2. ASSUME NEW w \in PublishedVersions PROVE w \in PublishedVersions'
      <4>1. PICK e \in Drafts : drafts[e].state = "published" /\ w = drafts[e].version
        BY <3>2 DEF PublishedVersions
      <4>2. drafts'[e].state = "published" /\ w = drafts'[e].version
        BY <1>10, <1>11, <4>1
      <4>3. QED BY <1>10, <4>2 DEF PublishedVersions
    <3>3. v \in PublishedVersions'
      BY <1>10, <1>11 DEF PublishedVersions
    <3>4. QED BY <3>1, <3>2, <3>3
  <2>2. v \in Int /\ v > ActiveVersion /\ S \in SUBSET Int
    <3>1. v > ActiveVersion
      BY <1>1 DEF Lineage
    <3>2. QED BY <2>0, <3>1 DEF PublishedVersions, NoVersion
  <2>3. ActiveVersion \in Int /\ NoVersion <= ActiveVersion /\ \A w \in PublishedVersions : w <= ActiveVersion
    <3>1. ActiveVersion \in S /\ \A w \in PublishedVersions : w <= ActiveVersion
      BY DEF IInv, ActiveOK
    <3>2. \A w \in PublishedVersions : w >= NoVersion
      BY <2>0 DEF PublishedVersions, NoVersion
    <3>3. QED BY <2>2, <3>1, <3>2 DEF NoVersion
  <2> HIDE DEF v
  <2>4. \A w \in S \cup {v} : w <= v
    BY <2>2, <2>3
  <2>5. Max(S \cup {v}) = v
    BY <2>2, <2>4, MaxIs
  <2>6. ActiveVersion' = v
    <3>1. PublishedVersions' \cup {NoVersion} = S \cup {v}
      BY <2>1
    <3>2. QED BY <2>5, <3>1 DEF ActiveVersion, NoVersion
  <2>7. QED BY <2>1, <2>4, <2>6 DEF ActiveOK
<1>15. DecisionsOK'
  <2>1. decisions' = decisions
    BY <1>2
  <2>2. QED BY <1>10, <2>1 DEF IInv, DecisionsOK
<1>16. RejectionPermanent'
  BY <1>2 DEF IInv, RejectionPermanent
<1>17. ASSUME NEW r \in Roles PROVE Traces(d, r, Resolved(x.manifest, r))'
  <2>1. PICK X : X = Resolved(x.manifest, r)
    OBVIOUS
  <2>2. Traces(d, r, X)
    BY <1>8, <2>1 DEF IInv, TraceOK
  <2>3. Traces(d, r, X)'
    BY <1>12, <2>2, GrowsKeeps
  <2>4. QED BY <2>1, <2>3 DEF Resolved
<1>18. QED BY <1>2, <1>7, <1>8, <1>13, <1>14, <1>15, <1>16, <1>17, UpdateStep

-----------------------------------------------------------------------------
(* Batches, previews and rejections *)

\* Drafts and decisions as they were.
LEMMA DraftsStay ==
    ASSUME IInv, UNCHANGED drafts, Range(decisions) \subseteq Range(decisions')
    PROVE  DraftsOK' /\ ActiveOK' /\ TraceOK'
<1>1. Grows
  BY DEF Grows, Drafts
<1>2. /\ \A d \in Drafts : \A r, X : Traces(d, r, X) => Traces(d, r, X)'
      /\ \A m : Origin(m) => Origin(m)'
  BY <1>1, GrowsKeeps
<1>3. \A y : DraftOK(y) => DraftOK(y)'
  BY <1>2 DEF DraftOK, Shaped
<1>4. DraftsOK'
  <2>1. IsSequence(drafts') /\ Drafts' = Drafts
    BY DEF IInv, DraftsOK, Drafts
  <2>2. ASSUME NEW d \in Drafts PROVE DraftOK(drafts[d])'
    <3>1. PICK y : y = drafts[d]
      OBVIOUS
    <3>2. DraftOK(y)' /\ y = drafts'[d]
      BY <1>3, <3>1 DEF IInv, DraftsOK
    <3>3. QED BY <3>2
  <2>3. QED BY <2>1, <2>2 DEF DraftsOK
<1>5. ActiveOK'
  <2>1. PublishedVersions' = PublishedVersions
    BY DEF PublishedVersions, Drafts
  <2>2. QED BY <2>1, ActiveStays
<1>6. TraceOK'
  <2>1. ASSUME NEW d \in Drafts', NEW r \in Roles PROVE Traces(d, r, Resolved(drafts[d].manifest, r))'
    <3>1. PICK X : X = Resolved(drafts[d].manifest, r)
      OBVIOUS
    <3>2. d \in Drafts
      BY DEF Drafts
    <3>3. Traces(d, r, X)'
      BY <1>2, <3>1, <3>2 DEF IInv, TraceOK
    <3>4. X = Resolved(drafts[d].manifest, r)'
      BY <3>1 DEF Resolved
    <3>5. QED BY <3>3, <3>4
  <2>2. QED BY <2>1 DEF TraceOK
<1>7. QED BY <1>4, <1>5, <1>6

LEMMA ProposalsStep == IInv /\ GetProposals => IInv'
<1> SUFFICES ASSUME IInv, GetProposals PROVE IInv'
  OBVIOUS
<1>1. PICK d \in Drafts, seen \in Sights :
        \E t : /\ t = [i \in DOMAIN batches |->
                         IF batches[i].draft = d /\ batches[i].revision = BatchOf(d, seen).revision
                         THEN [batches[i] EXCEPT !.live = FALSE] ELSE batches[i]]
               /\ batches' = Append(t, BatchOf(d, seen))
  BY DEF GetProposals
<1>2. PICK t : /\ t = [i \in DOMAIN batches |->
                         IF batches[i].draft = d /\ batches[i].revision = BatchOf(d, seen).revision
                         THEN [batches[i] EXCEPT !.live = FALSE] ELSE batches[i]]
               /\ batches' = Append(t, BatchOf(d, seen))
  BY <1>1
<1>3. UNCHANGED <<drafts, previews, decisions>>
  BY DEF GetProposals
<1>4. IsSequence(batches) /\ \A i \in DOMAIN batches : BatchOK(batches[i])
  BY DEF IInv, BatchesOK
<1>5. IsSequence(t) /\ DOMAIN t = DOMAIN batches
  <2>1. t = [i \in DOMAIN batches |-> t[i]]
    BY <1>2
  <2>2. QED BY <1>4, <2>1, UpdateFacts
<1>6. ASSUME NEW i \in DOMAIN t PROVE BatchOK(t[i])
  <2>1. BatchOK(batches[i])
    BY <1>4, <1>5
  <2>2. t[i] \in {batches[i], [batches[i] EXCEPT !.live = FALSE]}
    BY <1>2, <1>5
  <2>3. QED BY <2>1, <2>2 DEF BatchOK
<1>7. PICK b : b = BatchOf(d, seen)
  OBVIOUS
<1>8. BatchOK(b)
  BY <1>7 DEF BatchOK, BatchOf
<1>9. /\ IsSequence(batches') /\ DOMAIN batches' = DOMAIN t \cup {Len(t) + 1}
      /\ batches'[Len(t) + 1] = b /\ \A i \in DOMAIN t : batches'[i] = t[i]
  BY <1>2, <1>5, <1>7, AppendFacts
<1>10. \A i \in DOMAIN batches' : BatchOK(batches'[i])
  BY <1>6, <1>8, <1>9
<1>11. \A y : BatchOK(y) => BatchOK(y)'
  BY <1>3 DEF BatchOK, Drafts
<1>12. BatchesOK'
  <2>1. \A i \in DOMAIN batches' : BatchOK(batches[i])'
    BY <1>10, <1>11
  <2>2. \A p \in previews' : p.batch \in DOMAIN batches'
    BY <1>3, <1>5, <1>9 DEF IInv, BatchesOK
  <2>3. QED BY <1>9, <2>1, <2>2 DEF BatchesOK
<1>13. DecisionsOK' /\ RejectionPermanent'
  BY <1>3 DEF IInv, DecisionsOK, RejectionPermanent, Drafts
<1>14. QED BY <1>3, <1>12, <1>13, DraftsStay DEF IInv

LEMMA PreviewStep == IInv /\ Preview => IInv'
<1> SUFFICES ASSUME IInv, Preview PROVE IInv'
  OBVIOUS
<1>1. UNCHANGED <<drafts, batches, decisions>>
  BY DEF Preview
<1>2. \A p \in previews' : p \in previews \/ p.batch \in DOMAIN batches
  <2>1. PICK i \in DOMAIN batches, kind \in {"split", "merge"} :
          \E P, r, s : previews' = previews \cup
            {[batch |-> i, kind |-> kind, proposals |-> P, role |-> r, selectors |-> s]}
    BY DEF Preview
  <2>2. QED BY <2>1
<1>3. BatchesOK'
  BY <1>1, <1>2 DEF IInv, BatchesOK, BatchOK, Drafts
<1>4. DecisionsOK' /\ RejectionPermanent'
  BY <1>1 DEF IInv, DecisionsOK, RejectionPermanent, Drafts
<1>5. QED BY <1>1, <1>3, <1>4, DraftsStay DEF IInv

-----------------------------------------------------------------------------
(* Drafts that start from others *)

LEMMA VersionsPositive == IInv => \A d \in Drafts : drafts[d].version \in Int /\ drafts[d].version >= 1
<1> SUFFICES ASSUME IInv PROVE \A d \in Drafts : drafts[d].version \in Int /\ drafts[d].version >= 1
  OBVIOUS
<1>1. \A d \in Drafts : drafts[d].version \in Versions
  BY DEF IInv, DraftsOK, DraftOK
<1>2. QED BY <1>1, BoundAssumption DEF Versions

LEMMA PublishedDraftFacts ==
    ASSUME NEW v \in PublishedVersions
    PROVE  /\ PublishedDraft(v) \in Drafts /\ drafts[PublishedDraft(v)].state = "published"
           /\ drafts[PublishedDraft(v)].version = v
<1>1. \E d \in Drafts : drafts[d].state = "published" /\ drafts[d].version = v
  BY DEF PublishedVersions
<1>2. QED BY <1>1 DEF PublishedDraft

\* A draft without lineage that no decision touched resolves as the first manifest.
LEMMA SeedResolves ==
    ASSUME IInv, NEW d \in Drafts, drafts[d].previous = NoVersion, Authority(d) = {}
    PROVE  \A r \in Roles : Resolved(drafts[d].manifest, r) = Resolved(FirstManifest, r)
<1>1. drafts[d].source = NoVersion
  BY DEF IInv, DraftsOK, DraftOK
<1>2. Parents(d) = {}
  <2>1. \A e \in Drafts : drafts[e].version # NoVersion
    BY VersionsPositive DEF NoVersion
  <2>2. QED BY <1>1, <2>1 DEF Parents
<1>3. Ancestors(d) \subseteq {d}
  BY <1>2, Rootless
<1>4. AppliedBindings(d, drafts[d].revision) = {}
  BY DEF Authority
<1>5. ASSUME NEW r \in Roles, NEW e \in AppliedTo(r), e.draft \in Ancestors(d) PROVE FALSE
  <2>1. e.draft = d /\ e \in Range(decisions) /\ e.applied > 0
    BY <1>3, <1>5 DEF AppliedTo
  <2>2. e.applied \in Nat /\ e.applied <= drafts[d].revision
    BY <2>1 DEF IInv, DecisionsOK
  <2>3. drafts[d].revision \in Nat
    BY DEF IInv, DraftsOK, DraftOK
  <2>4. e.applied \in 1 .. drafts[d].revision
    BY <2>1, <2>2, <2>3
  <2>5. QED BY <1>4, <2>1, <2>4 DEF AppliedBindings
<1>6. QED BY <1>5 DEF IInv, TraceOK, Traces

LEMMA CreateStep == IInv /\ CreateDraft => IInv'
<1> SUFFICES ASSUME IInv, CreateDraft PROVE IInv'
  OBVIOUS
<1>1. PICK v \in Versions, s \in PublishedVersions \cup {NoVersion}, m \in SentManifests :
        /\ s # NoVersion => s < ActiveVersion
        /\ \E reference \in References(v, ActiveVersion, s) :
              /\ BaselineExpected(v, m, reference)
              /\ Effective(m) = Effective(reference.manifest)
              /\ drafts' = Append(drafts, NewDraft(v, ActiveVersion, s, m, reference.predecessor))
  BY DEF CreateDraft
<1>2. PICK reference \in References(v, ActiveVersion, s) :
        /\ BaselineExpected(v, m, reference)
        /\ Effective(m) = Effective(reference.manifest)
        /\ drafts' = Append(drafts, NewDraft(v, ActiveVersion, s, m, reference.predecessor))
  BY <1>1
<1>3. UNCHANGED <<batches, previews, decisions>>
  BY DEF CreateDraft
<1>4. PICK x : x = NewDraft(v, ActiveVersion, s, m, reference.predecessor)
  OBVIOUS
<1>5. PICK n : n = Len(drafts) + 1
  OBVIOUS
<1>6. /\ x.version = v /\ x.previous = ActiveVersion /\ x.source = s /\ x.state = "draft"
      /\ x.revision = 1 /\ x.manifest = m /\ x.baseline.manifest = m
      /\ x = [version |-> x.version, previous |-> x.previous, source |-> x.source,
              state |-> x.state, revision |-> x.revision, manifest |-> x.manifest,
              baseline |-> x.baseline]
  BY <1>4 DEF NewDraft
<1>7. /\ Drafts' = Drafts \cup {n} /\ drafts'[n] = x /\ \A d \in Drafts : drafts'[d] = drafts[d]
  BY <1>2, <1>4, <1>5, AppendFacts DEF IInv, DraftsOK, Drafts
<1>8. Grows
  BY <1>3, <1>7 DEF Grows
<1>9. ActiveVersion = NoVersion => s = NoVersion
  <2>1. SUFFICES ASSUME ActiveVersion = NoVersion, s # NoVersion PROVE FALSE
    OBVIOUS
  <2>2. s \in PublishedVersions
    BY <2>1
  <2>3. s \in Int /\ s >= 1
    BY <2>2, VersionsPositive DEF PublishedVersions
  <2>4. s < NoVersion
    BY <1>1, <2>1
  <2>5. QED BY <2>3, <2>4 DEF NoVersion
<1>10. \A d \in Drafts : Origin(drafts[d].manifest) /\ Origin(drafts[d].baseline.manifest)
  BY DEF IInv, DraftsOK, DraftOK
<1>11. \A r \in Roles : Resolved(m, r) = Resolved(reference.manifest, r)
  BY <1>2, SameEffective
<1>12. Origin(m) /\ \A r \in Roles : Traces(n, r, Resolved(m, r))'
  <2>1. CASE s # NoVersion \/ ActiveVersion # NoVersion
    <3>1. PICK w : w = IF s # NoVersion THEN s ELSE ActiveVersion
      OBVIOUS
    <3>2. w # NoVersion /\ w \in PublishedVersions
      BY <2>1, <3>1 DEF IInv, ActiveOK
    <3>3. PICK p : p = PublishedDraft(w)
      OBVIOUS
    <3>4. p \in Drafts /\ drafts[p].state = "published" /\ drafts[p].version = w
      BY <3>2, <3>3, PublishedDraftFacts
    <3>5. reference.manifest = drafts[p].manifest /\ reference.entries = Provenance(drafts[p].manifest)
      BY <3>1, <3>2, <3>3 DEF References
    <3>6. Origin(m)
      <4>1. PICK q : Provenance(m) = Provenance(q) /\ Origin(q)
        BY <1>2, <1>10, <3>4, <3>5 DEF BaselineExpected
      <4>2. QED BY <4>1, SameProvenance
    <3>7. p \in Parents(n)'
      <4>1. p \in Drafts' /\ drafts'[p].state = "published" /\ drafts'[p].version = w
        BY <1>7, <3>4
      <4>2. QED BY <1>6, <1>7, <3>1, <4>1 DEF Parents, NoVersion
    <3>8. Ancestors(p)' \subseteq Ancestors(n)'
      BY <3>7 DEF Ancestors
    <3>9. ASSUME NEW r \in Roles PROVE Traces(n, r, Resolved(m, r))'
      <4>1. PICK X : X = Resolved(m, r)
        OBVIOUS
      <4>2. Traces(p, r, X)
        BY <1>11, <3>4, <3>5, <4>1 DEF IInv, TraceOK
      <4>3. Traces(p, r, X)'
        BY <1>8, <3>4, <4>2, GrowsKeeps
      <4>4. Traces(n, r, X)'
        BY <3>8, <4>3 DEF Traces
      <4>5. QED BY <4>1, <4>4 DEF Resolved
    <3>10. QED BY <3>6, <3>9
  <2>2. CASE s = NoVersion /\ ActiveVersion = NoVersion
    <3>1. PICK d \in Drafts :
            /\ MaySeed(d, v)
            /\ reference.manifest = drafts[d].manifest
            /\ reference.entries = Provenance(drafts[d].baseline.manifest)
      <4>1. PICK C : C = InferredPredecessors(v)
        OBVIOUS
      <4>2. C \subseteq Drafts
        <5>1. C = {d \in Drafts : drafts[d].version = v} \/ C \subseteq Drafts
          BY <4>1 DEF InferredPredecessors
        <5>2. QED BY <5>1
      <4>3. (IF s # NoVersion THEN s ELSE ActiveVersion) = NoVersion
        BY <2>2
      <4>4. reference \in {[manifest |-> drafts[d].manifest,
                            entries |-> Provenance(drafts[d].baseline.manifest),
                            bindings |-> {},
                            predecessor |-> IF drafts[d].version = v
                                            THEN drafts[d].baseline.predecessor ELSE d] :
                              d \in {e \in C : C = {e} /\ MaySeed(e, v)}}
        BY <1>2, <4>1, <4>3 DEF References
      <4>5. PICK d \in C : /\ MaySeed(d, v)
                           /\ reference = [manifest |-> drafts[d].manifest,
                                entries |-> Provenance(drafts[d].baseline.manifest),
                                bindings |-> {},
                                predecessor |-> IF drafts[d].version = v
                                                THEN drafts[d].baseline.predecessor ELSE d]
        BY <4>4
      <4>6. QED BY <4>2, <4>5
    <3>2. drafts[d].previous = NoVersion /\ Authority(d) = {}
      BY <3>1 DEF MaySeed
    <3>3. \A r \in Roles : Resolved(drafts[d].manifest, r) = Resolved(FirstManifest, r)
      BY <3>2, SeedResolves
    <3>4. \A r \in Roles : Resolved(m, r) = Resolved(FirstManifest, r)
      BY <1>11, <3>1, <3>3
    <3>5. Origin(m)
      <4>1. PICK q : Provenance(m) = Provenance(q) /\ Origin(q)
        BY <1>2, <1>10, <3>1 DEF BaselineExpected
      <4>2. QED BY <4>1, SameProvenance
    <3>6. \A r \in Roles : Traces(n, r, Resolved(m, r))'
      BY <3>4 DEF Traces, Resolved, FirstManifest
    <3>7. QED BY <3>5, <3>6
  <2>3. QED BY <2>1, <2>2
<1>13. DraftOK(x)
  <2>1. Shaped(m)
    BY SentShaped DEF IInv
  <2>2. x.version \in Versions /\ x.revision \in Nat
    BY <1>6
  <2>3. QED BY <1>6, <1>9, <1>12, <2>1, <2>2 DEF DraftOK
<1>14. \A r \in Roles : Traces(n, r, Resolved(x.manifest, r))'
  BY <1>6, <1>12
<1>15. x.state = "draft" /\ drafts' = Append(drafts, x)
  BY <1>2, <1>4, <1>6
<1>16. QED BY <1>3, <1>5, <1>13, <1>14, <1>15, NewDraftStep

-----------------------------------------------------------------------------
(* Decisions *)

\* A decision that overlaps none is recorded.
LEMMA RecordFacts ==
    ASSUME IInv, NEW c, decisions' = Append(decisions, c),
           \A e \in Range(decisions) : e.covers \cap c.covers = {}
    PROVE  /\ IsSequence(decisions') /\ Range(decisions') = Range(decisions) \cup {c}
           /\ RejectionPermanent'
<1>1. IsSequence(decisions') /\ Range(decisions') = Range(decisions) \cup {c}
  BY AppendFacts DEF IInv, DecisionsOK
<1>2. RejectionPermanent'
  <2>1. ASSUME NEW e \in Range(decisions'), NEW f \in Range(decisions'),
               e.kind = "reject", f.kind # "reject"
        PROVE  e.covers \cap f.covers = {}
    <3>1. CASE e \in Range(decisions) /\ f \in Range(decisions)
      BY <2>1, <3>1 DEF IInv, RejectionPermanent
    <3>2. CASE e = c /\ f \in Range(decisions)
      <4>1. f.covers \cap c.covers = {}
        BY <3>2
      <4>2. QED BY <3>2, <4>1
    <3>3. CASE e \in Range(decisions) /\ f = c
      BY <3>3
    <3>4. CASE e = c /\ f = c
      BY <2>1, <3>4
    <3>5. QED BY <1>1, <3>1, <3>2, <3>3, <3>4
  <2>2. QED BY <2>1 DEF RejectionPermanent
<1>3. QED BY <1>1, <1>2

LEMMA RejectStep == IInv /\ Reject => IInv'
<1> SUFFICES ASSUME IInv, Reject PROVE IInv'
  OBVIOUS
<1>1. PICK i \in DOMAIN batches : \E P \in SUBSET batches[i].proposals :
        /\ Decidable(i, P)
        /\ decisions' = Append(decisions, Decision("reject", i, P, NoRole, {}, {}, 0))
  BY DEF Reject
<1>2. PICK P \in SUBSET batches[i].proposals :
        /\ Decidable(i, P)
        /\ decisions' = Append(decisions, Decision("reject", i, P, NoRole, {}, {}, 0))
  BY <1>1
<1>3. UNCHANGED <<drafts, batches, previews>>
  BY DEF Reject
<1>4. PICK c : c = Decision("reject", i, P, NoRole, {}, {}, 0)
  OBVIOUS
<1>5. c.covers = Authorities(i, P) /\ c.applied = 0
  BY <1>4 DEF Decision
<1>6. \A e \in Range(decisions) : e.covers \cap c.covers = {}
  BY <1>2, <1>5 DEF Decidable, Overlaps
<1>7. decisions' = Append(decisions, c)
  BY <1>2, <1>4
<1>8. /\ IsSequence(decisions') /\ Range(decisions') = Range(decisions) \cup {c}
      /\ RejectionPermanent'
  BY <1>6, <1>7, RecordFacts
<1>9. DecisionsOK'
  BY <1>3, <1>5, <1>8 DEF IInv, DecisionsOK, Drafts
<1>10. BatchesOK'
  BY <1>3, BatchesStay DEF Drafts
<1>11. DraftsOK' /\ ActiveOK' /\ TraceOK'
  BY <1>3, <1>8, DraftsStay
<1>12. QED BY <1>8, <1>9, <1>10, <1>11 DEF IInv

\* A decision makes the role of its draft what it says.
LEMMA ApplyStep ==
    ASSUME IInv, NEW kind, NEW i \in DOMAIN batches, NEW P, NEW candidate,
           Apply(kind, i, P, candidate)
    PROVE  IInv'
<1> DEFINE draft == batches[i].draft
           x == drafts[draft]
           role == (CHOOSE p \in P : TRUE).role
           source == batches[i].source[role]
           current == IF x.manifest.local[role] = {} THEN source ELSE x.manifest.local[role]
           applied == AppliedRole(source, current, candidate)
           manifest == [x.manifest EXCEPT !.local[role] = applied]
           decision == Decision(kind, i, P, role, candidate, applied, x.revision + 1)
<1>1. /\ Decidable(i, P) /\ drafts' = Put(draft, manifest)
      /\ decisions' = Append(decisions, decision) /\ UNCHANGED <<batches, previews>>
  BY Zenon DEF Apply
<1>2. PICK d, r, result : d = draft /\ r = role /\ result = applied
  OBVIOUS
<1>3. d \in Drafts /\ DraftOK(drafts[d])
  BY <1>2 DEF IInv, BatchesOK, BatchOK, DraftsOK
<1>4. PICK o : o = drafts[d].manifest
  OBVIOUS
<1> HIDE DEF role, applied
<1>5. PICK m, c : m = manifest /\ c = decision
  OBVIOUS
<1>6. /\ m = [o EXCEPT !.local[r] = result]
      /\ c = Decision(kind, i, P, r, candidate, result, drafts[d].revision + 1)
  BY <1>2, <1>4, <1>5
<1>7. /\ Decidable(i, P) /\ drafts' = Put(d, m) /\ decisions' = Append(decisions, c)
      /\ UNCHANGED <<batches, previews>>
  <2> HIDE DEF draft, manifest, decision
  <2>1. QED BY <1>1, <1>2, <1>5
<1> HIDE DEF draft, x, source, current, manifest, decision
<1>8. /\ c.covers = Authorities(i, P) /\ c.applied = drafts[d].revision + 1
      /\ c.draft = d /\ c.role = r /\ c.result = result
  BY <1>2, <1>6 DEF Decision, draft
<1>9. \A e \in Range(decisions) : e.covers \cap c.covers = {}
  BY <1>7, <1>8 DEF Decidable, Overlaps
<1>10. /\ IsSequence(decisions') /\ Range(decisions') = Range(decisions) \cup {c}
       /\ RejectionPermanent'
  BY <1>7, <1>9, RecordFacts
<1>11. /\ Grows /\ Drafts' = Drafts /\ drafts'[d].revision = drafts[d].revision + 1
       /\ \A e \in Drafts : /\ drafts[e].revision \in Nat /\ drafts'[e].revision \in Nat
                            /\ drafts'[e].revision >= drafts[e].revision
  BY <1>3, <1>7, <1>10, PutGrows
<1>12. DecisionsOK'
  <2>1. c.applied \in Nat /\ c.draft \in Drafts' /\ c.applied <= drafts'[c.draft].revision
    BY <1>3, <1>8, <1>11
  <2>2. ASSUME NEW e \in Range(decisions), e.applied > 0
        PROVE  e.draft \in Drafts' /\ e.applied <= drafts'[e.draft].revision
    <3>1. e.applied \in Nat /\ e.draft \in Drafts /\ e.applied <= drafts[e.draft].revision
      BY <2>2 DEF IInv, DecisionsOK
    <3>2. QED BY <1>11, <3>1
  <2>3. \A e \in Range(decisions) : e.applied \in Nat
    BY DEF IInv, DecisionsOK
  <2>4. QED BY <1>10, <2>1, <2>2, <2>3 DEF DecisionsOK
<1>13. Shaped(o) /\ Origin(o) /\ o.local = [q \in Roles |-> o.local[q]]
  BY <1>3, <1>4 DEF DraftOK, Origin
<1>14. /\ Shaped(m) /\ m.global = o.global
       /\ m.local = [q \in Roles |-> IF q = r THEN result ELSE o.local[q]]
  <2>1. o = [global |-> o.global, local |-> o.local, text |-> o.text]
    BY <1>13 DEF Shaped
  <2>2. m = [global |-> o.global, local |-> [o.local EXCEPT ![r] = result], text |-> o.text]
    BY <1>6, <2>1
  <2>3. [o.local EXCEPT ![r] = result] = [q \in Roles |-> IF q = r THEN result ELSE o.local[q]]
    BY <1>13
  <2>4. QED BY <2>2, <2>3 DEF Shaped
<1>15. c \in AppliedTo(r)'
  <2>1. c.applied > 0
    BY <1>3, <1>8, <1>11
  <2>2. QED BY <1>8, <1>10, <2>1 DEF AppliedTo
<1>16. Origin(m)'
  <2>1. Origin(o)'
    BY <1>11, <1>13, GrowsKeeps
  <2>2. /\ o.global = FirstManifest.global
        /\ \A q \in Roles :
             o.local[q] \in {FirstManifest.local[q]} \cup {e.result : e \in AppliedTo(q)'}
    BY <2>1 DEF Origin, FirstManifest
  <2>3. m.local = [q \in Roles |-> m.local[q]]
    BY <1>14
  <2>4. ASSUME NEW q \in Roles
        PROVE  m.local[q] \in {FirstManifest.local[q]} \cup {e.result : e \in AppliedTo(q)'}
    <3>1. CASE q = r
      BY <1>8, <1>14, <1>15, <3>1
    <3>2. CASE q # r
      BY <1>14, <2>2, <3>2
    <3>3. QED BY <3>1, <3>2
  <2>5. QED BY <1>14, <2>2, <2>3, <2>4 DEF Origin, FirstManifest
<1>17. ASSUME NEW q \in Roles PROVE Traces(d, q, Resolved(m, q))'
  <2>1. PICK X : X = Resolved(m, q)
    OBVIOUS
  <2>2. CASE q = r
    <3>1. X = ResolvedAfter(c)
      <4>1. Shaped(FirstManifest) /\ FirstManifest.local = [k \in Roles |-> FirstManifest.local[k]]
        BY FirstFacts DEF Origin
      <4>2. PICK f : f = [FirstManifest EXCEPT !.local[r] = result]
        OBVIOUS
      <4>3. /\ f.global = FirstManifest.global
            /\ f.local = [k \in Roles |-> IF k = r THEN result ELSE FirstManifest.local[k]]
        BY <4>1, <4>2, Redeclared
      <4>4. m.global[r] = f.global[r] /\ m.local[r] = f.local[r]
        BY <1>13, <1>14, <2>2, <4>3 DEF Origin
      <4>5. Resolved(m, r) = Resolved(f, r)
        BY <4>4, ResolvedBy
      <4>6. ResolvedAfter(c) = Resolved(f, r)
        BY <1>8, <4>2 DEF ResolvedAfter
      <4>7. QED BY <2>1, <2>2, <4>5, <4>6
    <3>2. d \in Ancestors(d)'
      BY <1>3, <1>11 DEF Ancestors
    <3>3. X = ResolvedAfter(c)'
      BY <3>1 DEF ResolvedAfter, Resolved, FirstManifest
    <3>4. Traces(d, q, X)'
      BY <1>8, <1>15, <2>2, <3>2, <3>3 DEF Traces
    <3>5. QED BY <2>1, <3>4 DEF Resolved
  <2>3. CASE q # r
    <3>1. m.global[q] = o.global[q] /\ m.local[q] = o.local[q]
      BY <1>14, <2>3
    <3>2. X = Resolved(o, q)
      BY <2>1, <3>1, ResolvedBy
    <3>3. Traces(d, q, X)
      BY <1>3, <1>4, <3>2 DEF IInv, TraceOK
    <3>4. Traces(d, q, X)'
      BY <1>3, <1>11, <3>3, GrowsKeeps
    <3>5. QED BY <2>1, <3>4 DEF Resolved
  <2>4. QED BY <2>2, <2>3
<1>18. QED BY <1>3, <1>7, <1>10, <1>12, <1>14, <1>16, <1>17, PutStep

-----------------------------------------------------------------------------
(* The theorems *)

LEMMA NextInv == IInv /\ [Next]_vars => IInv'
<1> SUFFICES ASSUME IInv, [Next]_vars PROVE IInv'
  OBVIOUS
<1>1. CASE CreateFirstDraft
  BY <1>1, FirstDraftStep
<1>2. CASE CreateDraft
  BY <1>2, CreateStep
<1>3. CASE ReplaceDraft
  BY <1>3, ReplaceStep
<1>4. CASE PublishDraft
  BY <1>4, PublishStep
<1>5. CASE GetProposals
  BY <1>5, ProposalsStep
<1>6. CASE Preview
  BY <1>6, PreviewStep
<1>7. CASE Approve
  <2>1. PICK i \in DOMAIN batches : \E p \in batches[i].proposals :
          Apply("approve", i, {p}, {p.selector})
    BY <1>7 DEF Approve
  <2>2. PICK p \in batches[i].proposals : Apply("approve", i, {p}, {p.selector})
    BY <2>1
  <2>3. QED BY <2>2, ApplyStep
<1>8. CASE ApplyPreview
  <2>1. PICK p \in previews : Apply(p.kind, p.batch, p.proposals, p.selectors)
    BY <1>8 DEF ApplyPreview
  <2>2. p.batch \in DOMAIN batches
    BY DEF IInv, BatchesOK
  <2>3. QED BY <2>1, <2>2, ApplyStep
<1>9. CASE Reject
  BY <1>9, RejectStep
<1>10. CASE UNCHANGED vars
  <2>1. UNCHANGED <<drafts, batches, previews, decisions>>
    BY <1>10 DEF vars
  <2>2. DraftsOK' /\ ActiveOK' /\ TraceOK'
    BY <2>1, DraftsStay
  <2>3. BatchesOK'
    BY <2>1, BatchesStay DEF Drafts
  <2>4. DecisionsOK' /\ RejectionPermanent'
    BY <2>1 DEF IInv, DecisionsOK, RejectionPermanent, Drafts
  <2>5. QED BY <2>2, <2>3, <2>4 DEF IInv
<1>11. QED
  BY <1>1, <1>2, <1>3, <1>4, <1>5, <1>6, <1>7, <1>8, <1>9, <1>10 DEF Next

\* Every reachable state satisfies the inductive invariant.
THEOREM Invariance == Spec => []IInv
BY InitInv, NextInv, PTL DEF Spec

\* What was rejected under the selectors of a role is applied by no decision
\* (_arbitrate_overlap).
THEOREM RejectionsPermanent == Spec => []RejectionPermanent
<1>1. IInv => RejectionPermanent
  BY DEF IInv
<1>2. QED BY <1>1, Invariance, PTL

\* Every role of every draft and version is declared as at first or by a
\* decision, and resolves as at first or as a decision of its lineage made it
\* (the selector checks of create_draft, replace_draft and publish_draft).
THEOREM SelectorsAlwaysTraceable == Spec => []SelectorsTraceable
<1>1. IInv => SelectorsTraceable
  <2> SUFFICES ASSUME IInv PROVE SelectorsTraceable
    OBVIOUS
  <2>1. \A d \in Drafts : Origin(drafts[d].manifest)
    BY DEF IInv, DraftsOK, DraftOK
  <2>2. \A d \in Drafts, r \in Roles : Traces(d, r, Resolved(drafts[d].manifest, r))
    BY DEF IInv, TraceOK
  <2>3. QED BY <2>1, <2>2 DEF SelectorsTraceable, Origin, Traces
<1>2. QED BY <1>1, Invariance, PTL

-----------------------------------------------------------------------------
(* Recursive definitions: the baselines and the bindings of a lineage *)

\* A set of natural numbers has a least element.
LEMMA Least ==
    ASSUME NEW T \in SUBSET Nat, T # {}
    PROVE  \E x \in T : \A y \in T : x <= y
<1>1. PICK x \in T : \A y \in T : ~ (<<y, x>> \in OpToRel(<, Nat))
  BY NatLessThanWellFounded, WFMin
<1>2. ASSUME NEW y \in T PROVE ~ (y < x)
  <2>1. y < x => <<y, x>> \in OpToRel(<, Nat)
    BY Zenon DEF OpToRel
  <2>2. QED BY <1>1, <2>1, Zenon
<1>3. QED BY <1>2

\* The lineage of a draft: published versions before its own, or a draft before it
\* with the same baseline; without either it is of the lowest version.
Rooted(d) ==
    LET x == drafts[d]
        p == x.baseline.predecessor
    IN
    /\ SelectorSource(x) \in PublishedVersions \cup {NoVersion}
    /\ SelectorSource(x) < x.version
    /\ IF p = NoDraft
       THEN x.previous = NoVersion => \A e \in Drafts : drafts[e].version >= x.version
       ELSE /\ p \in Drafts /\ p < d /\ x.previous = NoVersion
            /\ drafts[p].version < x.version
            /\ Provenance(drafts[p].baseline.manifest) = Provenance(x.baseline.manifest)

\* With them every inferred baseline holds: no predecessor is without its own.
LEMMA InferredAll ==
    ASSUME Drafts \subseteq Nat, \A d \in Drafts : Rooted(d)
    PROVE  \A d \in Drafts : InferredHolds[d]
<1> DEFINE Body(h) ==
      [d \in Drafts |->
          LET x == drafts[d]
              p == x.baseline.predecessor
          IN
          IF p = NoDraft
          THEN x.previous = NoVersion => \A e \in Drafts : drafts[e].version >= x.version
          ELSE /\ x.previous = NoVersion
               /\ drafts[p].version < x.version
               /\ Provenance(drafts[p].baseline.manifest) = Provenance(x.baseline.manifest)
               /\ h[p]]
           all == [d \in Drafts |-> TRUE]
<1>1. all = Body(all)
  BY DEF Rooted
<1>2. InferredHolds = CHOOSE h : h = Body(h)
  BY DEF InferredHolds
<1>3. InferredHolds = Body(InferredHolds)
  <2> HIDE DEF Body, all
  <2>1. QED BY <1>1, <1>2, Zenon
<1>4. ASSUME NEW d \in Drafts, ~ InferredHolds[d] PROVE FALSE
  <2> DEFINE T == {e \in Drafts : ~ InferredHolds[e]}
  <2>1. T \in SUBSET Nat /\ T # {}
    BY <1>4
  <2>2. PICK e \in T : \A y \in T : e <= y
    BY <2>1, Least
  <2>3. e \in Drafts /\ ~ InferredHolds[e]
    OBVIOUS
  <2>4. InferredHolds[e] = Body(InferredHolds)[e]
    BY <1>3, Zenon
  <2>5. drafts[e].baseline.predecessor # NoDraft
    BY <2>3, <2>4 DEF Rooted
  <2>6. PICK p : p = drafts[e].baseline.predecessor
    OBVIOUS
  <2>7. p \in Drafts /\ p < e
    BY <2>5, <2>6 DEF Rooted
  <2>8. ~ InferredHolds[p]
    BY <2>3, <2>4, <2>5, <2>6 DEF Rooted
  <2>9. p \in T
    BY <2>7, <2>8
  <2>10. QED BY <2>1, <2>2, <2>7, <2>9
<1>5. QED BY <1>4

\* The function that collects A along the walk s through P.
IsWalk(f, V, P, A, s) == f = [v \in V |-> IF v \notin P THEN {} ELSE A[v] \cup f[s[v]]]

LEMMA WalkExists ==
    ASSUME NEW V, NEW P \in SUBSET V, NEW A, NEW s, \A v \in P : s[v] \in V
    PROVE  \E f : IsWalk(f, V, P, A, s)
<1> DEFINE Closed(S) == \A w \in S : w \in P => s[w] \in S
           Reach(v) == {u \in V : \A S \in SUBSET V : v \in S /\ Closed(S) => u \in S}
           f == [v \in V |-> UNION {A[u] : u \in Reach(v) \cap P}]
<1>1. ASSUME NEW v \in V, v \notin P PROVE Reach(v) \cap P = {}
  <2>1. {v} \in SUBSET V /\ v \in {v} /\ Closed({v})
    BY <1>1
  <2>2. \A u \in Reach(v) : u \in {v}
    BY <2>1
  <2>3. QED BY <1>1, <2>2
<1>2. ASSUME NEW v \in P PROVE Reach(v) = {v} \cup Reach(s[v])
  <2>1. v \in V /\ s[v] \in V
    OBVIOUS
  <2>2. {v} \cup Reach(s[v]) \subseteq Reach(v)
    BY <2>1
  <2>3. PICK T : T = {v} \cup Reach(s[v])
    OBVIOUS
  <2>4. T \in SUBSET V /\ v \in T
    BY <2>1, <2>3
  <2>5. ASSUME NEW w \in T, w \in P PROVE s[w] \in T
    <3>1. s[w] \in V
      BY <2>5
    <3>2. CASE w = v
      <4>1. s[v] \in Reach(s[v])
        BY <2>1
      <4>2. QED BY <2>3, <3>2, <4>1
    <3>3. CASE w # v
      <4>1. w \in Reach(s[v])
        BY <2>3, <3>3
      <4>2. ASSUME NEW S \in SUBSET V, s[v] \in S, Closed(S) PROVE s[w] \in S
        BY <2>5, <4>1, <4>2
      <4>3. s[w] \in Reach(s[v])
        BY <3>1, <4>2
      <4>4. QED BY <2>3, <4>3
    <3>4. QED BY <3>2, <3>3
  <2>6. Closed(T)
    BY <2>5
  <2>7. Reach(v) \subseteq T
    BY <2>4, <2>6
  <2>8. QED BY <2>2, <2>3, <2>7
<1> HIDE DEF Reach
<1>3. ASSUME NEW v \in V PROVE f[v] = IF v \notin P THEN {} ELSE A[v] \cup f[s[v]]
  <2>1. CASE v \notin P
    BY <1>1, <2>1
  <2>2. CASE v \in P
    <3>1. s[v] \in V /\ Reach(v) = {v} \cup Reach(s[v])
      BY <1>2, <2>2
    <3>2. f[v] = UNION {A[u] : u \in Reach(v) \cap P} /\ f[s[v]] = UNION {A[u] : u \in Reach(s[v]) \cap P}
      BY <3>1
    <3>3. QED BY <2>2, <3>1, <3>2
  <2>3. QED BY <2>1, <2>2
<1>4. IsWalk(f, V, P, A, s)
  <2> DEFINE g == [v \in V |-> IF v \notin P THEN {} ELSE A[v] \cup f[s[v]]]
  <2>1. \A v \in V : f[v] = g[v]
    BY <1>3
  <2>2. f = [v \in V |-> f[v]] /\ g = [v \in V |-> g[v]]
    OBVIOUS
  <2> HIDE DEF f, g
  <2>3. f = g
    BY <2>1, <2>2
  <2>4. QED BY <2>3, Zenon DEF g, IsWalk
<1>5. QED BY <1>4

\* Every published version starts from one that a walk can go on with.
LineageClosed ==
    \A v \in PublishedVersions :
        v \in Versions /\ SelectorSource(drafts[PublishedDraft(v)]) \in {NoVersion} \cup Versions

\* The bindings of a version are those that a walk along its lineage collects.
LineageWalks ==
    /\ \A v \in {NoVersion} \cup Versions : v \notin PublishedVersions => LineageBindings[v] = {}
    /\ \A v \in PublishedVersions :
         LineageBindings[v] =
           AppliedBindings(PublishedDraft(v), drafts[PublishedDraft(v)].revision)
             \cup LineageBindings[SelectorSource(drafts[PublishedDraft(v)])]

LEMMA LineageWalk == LineageClosed => LineageWalks
<1> SUFFICES ASSUME LineageClosed PROVE LineageWalks
  OBVIOUS
<1> DEFINE V == {NoVersion} \cup Versions
           A == [v \in PublishedVersions |->
                   AppliedBindings(PublishedDraft(v), drafts[PublishedDraft(v)].revision)]
           s == [v \in PublishedVersions |-> SelectorSource(drafts[PublishedDraft(v)])]
           Body(f) == [v \in V |->
             IF v \notin PublishedVersions THEN {}
             ELSE LET x == drafts[PublishedDraft(v)] IN
                  AppliedBindings(PublishedDraft(v), x.revision) \cup f[SelectorSource(x)]]
<1>1. PublishedVersions \in SUBSET V /\ \A v \in PublishedVersions : s[v] \in V
  BY DEF LineageClosed
<1>2. \E f : IsWalk(f, V, PublishedVersions, A, s)
  <2> HIDE DEF A, s, V
  <2>1. QED BY <1>1, WalkExists
<1>3. \E f : f = Body(f)
  <2>1. PICK f : f = [v \in V |-> IF v \notin PublishedVersions THEN {} ELSE A[v] \cup f[s[v]]]
    BY <1>2, Zenon DEF IsWalk
  <2>2. \A v \in V : (IF v \notin PublishedVersions THEN {} ELSE A[v] \cup f[s[v]]) = Body(f)[v]
    OBVIOUS
  <2>3. [v \in V |-> IF v \notin PublishedVersions THEN {} ELSE A[v] \cup f[s[v]]]
          = [v \in V |-> Body(f)[v]]
    <3> HIDE DEF Body, A, s, V
    <3>1. QED BY <2>2
  <2>4. Body(f) = [v \in V |-> Body(f)[v]]
    OBVIOUS
  <2> HIDE DEF Body
  <2>5. QED BY <2>1, <2>3, <2>4
<1>4. LineageBindings = CHOOSE f : f = Body(f)
  BY DEF LineageBindings
<1>5. LineageBindings = Body(LineageBindings)
  <2> HIDE DEF Body
  <2>1. QED BY <1>3, <1>4, Zenon
<1>6. \A v \in V : LineageBindings[v] = Body(LineageBindings)[v]
  <2> HIDE DEF Body, V
  <2>1. QED BY <1>5
<1>7. QED BY <1>1, <1>6 DEF LineageWalks

LEMMA LineageWalkNext == LineageClosed' => LineageWalks'
BY LineageWalk, PTL
-----------------------------------------------------------------------------
(* Drafts that stay valid *)

Roots == \A d \in Drafts : Rooted(d)

\* A version is published once.
UniquePublished ==
    \A d, e \in Drafts :
      /\ drafts[d].state = "published" /\ drafts[e].state = "published"
      /\ drafts[d].version = drafts[e].version
      => d = e

\* Draft d is the first of its version, or it declares no predecessor.
IsFirst(d) == \A e \in 1 .. d - 1 : drafts[e].version # drafts[d].version
Measured(d) == drafts[d].previous = NoVersion \/ IsFirst(d)

\* The selectors of draft d are accounted for by its baseline and decisions.
Valid(d) ==
    /\ ProvenanceHolds(drafts[d].baseline, drafts[d].manifest, Authority(d))
    /\ Resolves(drafts[d].manifest, Authority(d))

ValidOK == \A d \in Drafts : drafts[d].state = "published" \/ Measured(d) => Valid(d)

ValidInv == Roots /\ UniquePublished /\ ValidOK

LEMMA RootedClosed == IInv /\ Roots => LineageClosed
<1> SUFFICES ASSUME IInv, Roots, NEW v \in PublishedVersions
             PROVE  v \in Versions
                      /\ SelectorSource(drafts[PublishedDraft(v)]) \in {NoVersion} \cup Versions
  BY DEF LineageClosed
<1>1. \A w \in PublishedVersions : w \in Versions
  BY DEF IInv, DraftsOK, DraftOK, PublishedVersions
<1>2. PublishedDraft(v) \in Drafts
  BY PublishedDraftFacts
<1>3. QED BY <1>1, <1>2 DEF Roots, Rooted

\* The decisions of a draft are within its revisions.
LEMMA AppliedAre ==
    IInv => \A d \in Drafts :
              AppliedBindings(d, drafts[d].revision)
                = {b \in Range(decisions) : b.draft = d /\ b.applied > 0}
<1> SUFFICES ASSUME IInv, NEW d \in Drafts
             PROVE  AppliedBindings(d, drafts[d].revision)
                      = {b \in Range(decisions) : b.draft = d /\ b.applied > 0}
  OBVIOUS
<1>1. drafts[d].revision \in Nat
  BY DEF IInv, DraftsOK, DraftOK
<1>2. \A b \in Range(decisions) : b.draft = d =>
        (b.applied \in 1 .. drafts[d].revision <=> b.applied > 0)
  BY <1>1 DEF IInv, DecisionsOK
<1>3. QED BY <1>2 DEF AppliedBindings

LEMMA AppliedAreNext ==
    IInv' => \A d \in Drafts' :
              AppliedBindings(d, drafts[d].revision)'
                = {b \in Range(decisions') : b.draft = d /\ b.applied > 0}
<1>1. (IInv => \A d \in Drafts :
              AppliedBindings(d, drafts[d].revision)
                = {b \in Range(decisions) : b.draft = d /\ b.applied > 0})'
  BY AppliedAre, PTL
<1>2. QED BY <1>1

LEMMA PublishedOne ==
    ASSUME UniquePublished, NEW d \in Drafts, drafts[d].state = "published"
    PROVE  drafts[d].version \in PublishedVersions /\ PublishedDraft(drafts[d].version) = d
<1>1. drafts[d].version \in PublishedVersions
  BY DEF PublishedVersions
<1>2. QED BY <1>1, PublishedDraftFacts DEF UniquePublished

LEMMA PublishedOneNext ==
    UniquePublished' => \A d \in Drafts' : drafts'[d].state = "published" =>
        drafts'[d].version \in PublishedVersions' /\ PublishedDraft(drafts[d].version)' = d
<1>1. UniquePublished => \A d \in Drafts : drafts[d].state = "published" =>
        drafts[d].version \in PublishedVersions /\ PublishedDraft(drafts[d].version) = d
  BY PublishedOne
<1>2. (UniquePublished => \A d \in Drafts : drafts[d].state = "published" =>
        drafts[d].version \in PublishedVersions /\ PublishedDraft(drafts[d].version) = d)'
  BY <1>1, PTL
<1>3. QED BY <1>2

\* What a step leaves to the lineage: publications and their decisions are final.
Settled ==
    /\ Drafts \subseteq Drafts'
    /\ \A d \in Drafts : drafts[d].state = "published" => drafts'[d] = drafts[d]
    /\ Range(decisions) \subseteq Range(decisions')
    /\ \A e \in Range(decisions') \ Range(decisions) :
         e.applied > 0 /\ e.draft \in Drafts => drafts[e.draft].state # "published"

LEMMA LineageStays ==
    ASSUME IInv, IInv', Roots, Roots', UniquePublished, UniquePublished', Settled
    PROVE  \A v \in PublishedVersions \cup {NoVersion} : LineageBindings'[v] = LineageBindings[v]
<1>1. LineageWalks /\ LineageWalks'
  <2>1. LineageWalks
    BY RootedClosed, LineageWalk
  <2>2. (IInv /\ Roots => LineageClosed)'
    BY RootedClosed, PTL
  <2>3. QED BY <2>1, <2>2, LineageWalkNext
<1>2. LineageBindings[NoVersion] = {} /\ LineageBindings'[NoVersion] = {}
  <2>1. NoVersion \notin PublishedVersions
    BY VersionsPositive DEF PublishedVersions, NoVersion
  <2>2. (IInv => \A d \in Drafts : drafts[d].version \in Int /\ drafts[d].version >= 1)'
    BY VersionsPositive, PTL
  <2>3. NoVersion \notin PublishedVersions'
    BY <2>2 DEF PublishedVersions, NoVersion
  <2>4. QED BY <1>1, <2>1, <2>3 DEF LineageWalks, NoVersion, Versions
<1>3. ASSUME NEW v \in PublishedVersions, NEW p, p = PublishedDraft(v)
      PROVE  /\ p \in Drafts /\ drafts[p].version = v
             /\ v \in PublishedVersions' /\ PublishedDraft(v)' = p
             /\ drafts'[p] = drafts[p]
             /\ AppliedBindings(p, drafts[p].revision)' = AppliedBindings(p, drafts[p].revision)
  <2>1. p \in Drafts /\ drafts[p].state = "published" /\ drafts[p].version = v
    BY <1>3, PublishedDraftFacts
  <2>2. p \in Drafts' /\ drafts'[p] = drafts[p]
    BY <2>1 DEF Settled
  <2>3. v \in PublishedVersions' /\ PublishedDraft(v)' = p
    BY <2>1, <2>2, PublishedOneNext
  <2>4. /\ AppliedBindings(p, drafts[p].revision)
             = {b \in Range(decisions) : b.draft = p /\ b.applied > 0}
        /\ AppliedBindings(p, drafts[p].revision)'
             = {b \in Range(decisions') : b.draft = p /\ b.applied > 0}
    BY <2>1, <2>2, AppliedAre, AppliedAreNext
  <2>5. \A b \in Range(decisions') : b.draft = p /\ b.applied > 0 => b \in Range(decisions)
    BY <2>1 DEF Settled
  <2>6. QED BY <2>1, <2>2, <2>3, <2>4, <2>5 DEF Settled
<1>4. ASSUME NEW v \in PublishedVersions
      PROVE  \E u \in PublishedVersions \cup {NoVersion} :
               u < v /\ (LineageBindings'[u] = LineageBindings[u]
                           => LineageBindings'[v] = LineageBindings[v])
  <2>1. PICK p : p = PublishedDraft(v)
    OBVIOUS
  <2>2. PICK u : u = SelectorSource(drafts[p])
    OBVIOUS
  <2>3. /\ p \in Drafts /\ drafts[p].version = v
        /\ v \in PublishedVersions' /\ PublishedDraft(v)' = p /\ drafts'[p] = drafts[p]
        /\ AppliedBindings(p, drafts[p].revision)' = AppliedBindings(p, drafts[p].revision)
    BY <1>3, <2>1
  <2>4. u \in PublishedVersions \cup {NoVersion} /\ u < v
    BY <2>2, <2>3 DEF Roots, Rooted
  <2>5. LineageBindings[v] = AppliedBindings(p, drafts[p].revision) \cup LineageBindings[u]
    BY <1>1, <2>1, <2>2 DEF LineageWalks
  <2>6. u = SelectorSource(drafts[p])'
    BY <2>2, <2>3 DEF SelectorSource, NoVersion
  <2>7. LineageBindings'[v] = AppliedBindings(p, drafts[p].revision)' \cup LineageBindings'[u]
    BY <1>1, <2>3, <2>6 DEF LineageWalks
  <2>8. QED BY <2>3, <2>4, <2>5, <2>7
<1>5. PublishedVersions \subseteq Nat
  BY VersionsPositive DEF PublishedVersions
<1>6. ASSUME NEW v \in PublishedVersions, LineageBindings'[v] # LineageBindings[v] PROVE FALSE
  <2> DEFINE T == {w \in PublishedVersions : LineageBindings'[w] # LineageBindings[w]}
  <2>1. T \in SUBSET Nat /\ T # {}
    BY <1>5, <1>6
  <2>2. PICK w \in T : \A y \in T : w <= y
    BY <2>1, Least
  <2>3. PICK u \in PublishedVersions \cup {NoVersion} :
               u < w /\ (LineageBindings'[u] = LineageBindings[u]
                           => LineageBindings'[w] = LineageBindings[w])
    BY <1>4, <2>2
  <2>4. LineageBindings'[u] # LineageBindings[u]
    BY <2>2, <2>3
  <2>5. u \in T
    BY <1>2, <2>3, <2>4
  <2>6. QED BY <2>1, <2>2, <2>3, <2>5
<1>7. QED BY <1>2, <1>6

\* A draft with the lineage it had and no new decision has the authority it had.
LEMMA AuthorityStays ==
    ASSUME IInv, IInv', Roots, Roots', UniquePublished, UniquePublished', Settled,
           NEW d \in Drafts, drafts'[d].source = drafts[d].source,
           drafts'[d].previous = drafts[d].previous, NEW B,
           {e \in Range(decisions') : e.draft = d /\ e.applied > 0}
             = {e \in Range(decisions) : e.draft = d /\ e.applied > 0} \cup B
    PROVE  Authority(d)' = Authority(d) \cup B
<1>1. PICK u : u = SelectorSource(drafts[d])
  OBVIOUS
<1>2. u = SelectorSource(drafts[d])' /\ d \in Drafts'
  BY <1>1 DEF SelectorSource, NoVersion, Settled
<1>3. u \in PublishedVersions \cup {NoVersion}
  BY <1>1 DEF Roots, Rooted
<1>4. LineageBindings'[u] = LineageBindings[u]
  BY <1>3, LineageStays
<1>5. /\ AppliedBindings(d, drafts[d].revision)
           = {b \in Range(decisions) : b.draft = d /\ b.applied > 0}
      /\ AppliedBindings(d, drafts[d].revision)'
           = {b \in Range(decisions') : b.draft = d /\ b.applied > 0}
  BY <1>2, AppliedAre, AppliedAreNext
<1>6. Authority(d) = AppliedBindings(d, drafts[d].revision) \cup LineageBindings[u]
  BY <1>1 DEF Authority
<1>7. Authority(d)' = AppliedBindings(d, drafts[d].revision)' \cup LineageBindings'[u]
  BY <1>2 DEF Authority
<1>8. QED BY <1>4, <1>5, <1>6, <1>7

\* Draft d is left alone.
Untouched(d) ==
    /\ d \in Drafts
    /\ drafts'[d].version = drafts[d].version /\ drafts'[d].source = drafts[d].source
    /\ drafts'[d].previous = drafts[d].previous /\ drafts'[d].state = drafts[d].state
    /\ drafts'[d].manifest = drafts[d].manifest /\ drafts'[d].baseline = drafts[d].baseline
    /\ \A e \in Range(decisions') \ Range(decisions) : e.applied > 0 => e.draft # d

LEMMA ValidStays ==
    ASSUME IInv, IInv', ValidInv, Roots', UniquePublished', Settled,
           \A d \in Drafts : drafts'[d].version = drafts[d].version,
           \A d \in Drafts' : \/ Untouched(d)
                              \/ (drafts[d].state = "published" \/ Measured(d) => Valid(d))'
    PROVE  ValidInv'
<1>1. ASSUME NEW d \in Drafts', Untouched(d), (drafts[d].state = "published" \/ Measured(d))'
      PROVE  Valid(d)'
  <2>1. d \in Drafts
    BY <1>1 DEF Untouched
  <2>2. Measured(d)' => Measured(d)
    <3>1. IsSequence(drafts)
      BY DEF IInv, DraftsOK
    <3>2. \A e \in 1 .. d - 1 : e \in Drafts
      BY <2>1, <3>1, SequenceDomain DEF Drafts
    <3>3. QED BY <1>1, <2>1, <3>2 DEF IsFirst, Measured, Untouched, NoVersion
  <2>3. Valid(d)
    BY <1>1, <2>1, <2>2 DEF ValidInv, ValidOK, Untouched
  <2>4. {e \in Range(decisions') : e.draft = d /\ e.applied > 0}
          = {e \in Range(decisions) : e.draft = d /\ e.applied > 0} \cup {}
    BY <1>1 DEF Untouched, Settled
  <2>5. Authority(d)' = Authority(d) \cup {}
    BY <1>1, <2>1, <2>4, AuthorityStays DEF ValidInv, Untouched
  <2>6. PICK b, m, B : b = drafts[d].baseline /\ m = drafts[d].manifest /\ B = Authority(d)
    OBVIOUS
  <2>7. b = drafts'[d].baseline /\ m = drafts'[d].manifest /\ B = Authority(d)'
    BY <1>1, <2>5, <2>6 DEF Untouched
  <2>8. ProvenanceHolds(b, m, B) /\ Resolves(m, B)
    BY <2>3, <2>6 DEF Valid
  <2>9. ProvenanceHolds(b, m, B)' /\ Resolves(m, B)'
    BY <2>8
  <2>10. QED BY <2>7, <2>9 DEF Valid
<1>2. ValidOK'
  <2>1. ASSUME NEW d \in Drafts' PROVE (drafts[d].state = "published" \/ Measured(d) => Valid(d))'
    BY <1>1
  <2>2. QED BY <2>1 DEF ValidOK
<1>3. QED BY <1>2 DEF ValidInv

\* The lineage of drafts that are kept.
LEMMA RootedStays ==
    ASSUME Roots, Grows, NEW d \in Drafts, drafts'[d].baseline = drafts[d].baseline,
           \A e \in Drafts : drafts'[e].baseline = drafts[e].baseline,
           drafts[d].previous = NoVersion
             /\ (\A e \in Drafts : drafts[e].version >= drafts[d].version)
             => \A e \in Drafts' \ Drafts : drafts'[e].version >= drafts[d].version
    PROVE  Rooted(d)'
<1>1. PublishedVersions \subseteq PublishedVersions'
  <2>1. ASSUME NEW v \in PublishedVersions PROVE v \in PublishedVersions'
    <3>1. PICK e \in Drafts : drafts[e].state = "published" /\ drafts[e].version = v
      BY DEF PublishedVersions
    <3>2. e \in Drafts' /\ drafts'[e].state = "published" /\ drafts'[e].version = v
      BY <3>1 DEF Grows
    <3>3. QED BY <3>2 DEF PublishedVersions
  <2>2. QED BY <2>1
<1>2. Rooted(d)
  BY DEF Roots
<1>3. /\ drafts'[d].version = drafts[d].version /\ drafts'[d].source = drafts[d].source
      /\ drafts'[d].previous = drafts[d].previous
  BY DEF Grows
<1>4. SelectorSource(drafts[d])' = SelectorSource(drafts[d])
  BY <1>3 DEF SelectorSource, NoVersion
<1>5. /\ SelectorSource(drafts[d])' \in PublishedVersions' \cup {NoVersion}
      /\ SelectorSource(drafts[d])' < drafts'[d].version
  BY <1>1, <1>2, <1>3, <1>4 DEF Rooted
<1>6. PICK p : p = drafts[d].baseline.predecessor
  OBVIOUS
<1>7. p = drafts'[d].baseline.predecessor
  BY <1>6
<1>8. CASE p = NoDraft
  <2>1. drafts'[d].previous = NoVersion => \A e \in Drafts' : drafts'[e].version >= drafts'[d].version
    <3>1. SUFFICES ASSUME drafts[d].previous = NoVersion, NEW e \in Drafts'
                   PROVE  drafts'[e].version >= drafts[d].version
      BY <1>3
    <3>2. \A f \in Drafts : drafts[f].version >= drafts[d].version
      BY <1>2, <1>6, <1>8, <3>1 DEF Rooted
    <3>3. QED BY <3>1, <3>2 DEF Grows
  <2>2. QED BY <1>5, <1>7, <1>8, <2>1 DEF Rooted, NoDraft, NoVersion
<1>9. CASE p # NoDraft
  <2>1. /\ p \in Drafts /\ p < d /\ drafts[d].previous = NoVersion
        /\ drafts[p].version < drafts[d].version
        /\ Provenance(drafts[p].baseline.manifest) = Provenance(drafts[d].baseline.manifest)
    BY <1>2, <1>6, <1>9 DEF Rooted
  <2>2. /\ p \in Drafts' /\ drafts'[d].previous = NoVersion
        /\ drafts'[p].version < drafts'[d].version
    BY <1>3, <2>1 DEF Grows
  <2>3. Provenance(drafts[p].baseline.manifest)' = Provenance(drafts[d].baseline.manifest)'
    BY <2>1 DEF Provenance
  <2>4. QED BY <1>5, <1>7, <1>9, <2>1, <2>2, <2>3 DEF Rooted, NoDraft, NoVersion
<1>10. QED BY <1>8, <1>9

\* Nothing is drafted, published or applied.
LEMMA QuietValid ==
    ASSUME IInv, IInv', ValidInv, UNCHANGED drafts, Range(decisions) \subseteq Range(decisions'),
           \A e \in Range(decisions') \ Range(decisions) : ~ (e.applied > 0)
    PROVE  ValidInv'
<1>1. Settled /\ Grows /\ \A d \in Drafts' : Untouched(d)
  BY DEF Settled, Grows, Untouched, Drafts
<1>2. UniquePublished'
  BY DEF ValidInv, UniquePublished, Drafts
<1>3. Roots'
  <2>1. Drafts' = Drafts
    BY DEF Drafts
  <2>2. \A d \in Drafts : Rooted(d)'
    BY <1>1, <2>1, RootedStays DEF ValidInv
  <2>3. QED BY <2>1, <2>2 DEF Roots
<1>4. QED BY <1>1, <1>2, <1>3, ValidStays

\* A draft is replaced by m, with the decisions B.
LEMMA PutValid ==
    ASSUME IInv, IInv', ValidInv, NEW d \in Drafts, NEW m, drafts' = Put(d, m),
           drafts[d].state = "draft", NEW B, Range(decisions') = Range(decisions) \cup B,
           \A e \in B : e.draft = d /\ e.applied > 0,
           ProvenanceHolds(drafts[d].baseline, m, Authority(d) \cup B),
           Resolves(m, Authority(d) \cup B)
    PROVE  ValidInv'
<1>1. PICK x : PutDraft(d, m, x)
  BY PutFacts
<1>2. /\ drafts' = [e \in Drafts |-> IF e = d THEN x ELSE drafts[e]]
      /\ x.version = drafts[d].version /\ x.source = drafts[d].source
      /\ x.previous = drafts[d].previous /\ x.state = drafts[d].state
      /\ x.manifest = m /\ x.baseline = drafts[d].baseline
  BY <1>1 DEF PutDraft
<1>3. Grows /\ Drafts' = Drafts
  BY PutGrows
<1>4. /\ drafts'[d] = x
      /\ \A e \in Drafts : /\ e # d => drafts'[e] = drafts[e]
                           /\ drafts'[e].version = drafts[e].version
                           /\ drafts'[e].state = drafts[e].state
                           /\ drafts'[e].baseline = drafts[e].baseline
  BY <1>2
<1>5. Settled
  BY <1>3, <1>4 DEF Settled
<1>6. UniquePublished'
  BY <1>3, <1>4 DEF ValidInv, UniquePublished
<1>7. Roots'
  <2>1. \A e \in Drafts : Rooted(e)'
    BY <1>3, <1>4, RootedStays DEF ValidInv
  <2>2. QED BY <1>3, <2>1 DEF Roots
<1>8. \A e \in Drafts : e # d => Untouched(e)
  BY <1>4 DEF Untouched
<1>9. Valid(d)'
  <2>1. {e \in Range(decisions') : e.draft = d /\ e.applied > 0}
          = {e \in Range(decisions) : e.draft = d /\ e.applied > 0} \cup B
    OBVIOUS
  <2>2. Authority(d)' = Authority(d) \cup B
    BY <1>2, <1>4, <1>5, <1>6, <1>7, <2>1, AuthorityStays DEF ValidInv
  <2>3. PICK b, A : b = drafts[d].baseline /\ A = Authority(d) \cup B
    OBVIOUS
  <2>4. ProvenanceHolds(b, m, A) /\ Resolves(m, A)
    BY <2>3
  <2>5. ProvenanceHolds(b, m, A)' /\ Resolves(m, A)'
    BY <2>4
  <2>6. b = drafts'[d].baseline /\ m = drafts'[d].manifest /\ A = Authority(d)'
    BY <1>2, <1>4, <2>2, <2>3
  <2>7. QED BY <2>5, <2>6 DEF Valid
<1>10. QED BY <1>3, <1>4, <1>5, <1>6, <1>7, <1>8, <1>9, ValidStays

LEMMA ReplaceValid ==
    ASSUME IInv, IInv', ValidInv, ReplaceDraft
    PROVE  ValidInv'
<1>1. PICK d \in Drafts : \E m :
        /\ drafts[d].state = "draft"
        /\ ProvenanceHolds(drafts[d].baseline, m, Authority(d))
        /\ Resolves(m, Authority(d))
        /\ drafts' = Put(d, m)
  BY DEF ReplaceDraft
<1>2. PICK m :
        /\ drafts[d].state = "draft"
        /\ ProvenanceHolds(drafts[d].baseline, m, Authority(d))
        /\ Resolves(m, Authority(d))
        /\ drafts' = Put(d, m)
  BY <1>1
<1>3. PICK B : B = {}
  OBVIOUS
<1>4. /\ Authority(d) \cup B = Authority(d) /\ Range(decisions') = Range(decisions) \cup B
      /\ \A e \in B : e.draft = d /\ e.applied > 0
  BY <1>3 DEF ReplaceDraft
<1>5. QED BY <1>2, <1>4, PutValid

LEMMA ApplyValid ==
    ASSUME IInv, IInv', ValidInv, NEW kind, NEW i \in DOMAIN batches, NEW P, NEW candidate,
           Apply(kind, i, P, candidate)
    PROVE  ValidInv'
<1> DEFINE draft == batches[i].draft
           x == drafts[draft]
           role == (CHOOSE p \in P : TRUE).role
           source == batches[i].source[role]
           current == IF x.manifest.local[role] = {} THEN source ELSE x.manifest.local[role]
           applied == AppliedRole(source, current, candidate)
           manifest == [x.manifest EXCEPT !.local[role] = applied]
           decision == Decision(kind, i, P, role, candidate, applied, x.revision + 1)
<1>1. /\ Decidable(i, P) /\ drafts' = Put(draft, manifest)
      /\ decisions' = Append(decisions, decision)
      /\ ProvenanceHolds(x.baseline, manifest, Authority(draft) \cup {decision})
      /\ Resolves(manifest, Authority(draft) \cup {decision})
  BY Zenon DEF Apply
<1>2. draft \in Drafts /\ x.revision \in Nat /\ x.state = "draft"
  <2>1. draft \in Drafts
    BY DEF IInv, BatchesOK, BatchOK
  <2>2. x.revision \in Nat
    BY <2>1 DEF IInv, DraftsOK, DraftOK
  <2>3. x.state = "draft"
    BY <1>1 DEF Decidable, CurrentDraft
  <2>4. QED BY <2>1, <2>2, <2>3
<1>3. decision.draft = draft /\ decision.applied = x.revision + 1
  BY DEF Decision
<1> HIDE DEF draft, manifest, decision
<1>4. Range(decisions') = Range(decisions) \cup {decision}
  BY <1>1, AppendFacts DEF IInv, DecisionsOK
<1>5. PICK d, m, B : d = draft /\ m = manifest /\ B = {decision}
  OBVIOUS
<1>6. /\ d \in Drafts /\ drafts' = Put(d, m) /\ drafts[d].state = "draft"
      /\ Range(decisions') = Range(decisions) \cup B
      /\ \A e \in B : e.draft = d /\ e.applied > 0
      /\ ProvenanceHolds(drafts[d].baseline, m, Authority(d) \cup B)
      /\ Resolves(m, Authority(d) \cup B)
  BY <1>1, <1>2, <1>3, <1>4, <1>5
<1>7. QED BY <1>6, PutValid

LEMMA PublishValid ==
    ASSUME IInv, IInv', ValidInv, PublishDraft
    PROVE  ValidInv'
<1>1. PICK d \in Drafts :
        /\ drafts[d].state = "draft"
        /\ Lineage(drafts[d].version, drafts[d].previous)
        /\ LifecycleHolds(d)
        /\ drafts' = [drafts EXCEPT ![d].state = "published"]
  BY DEF PublishDraft
<1>2. decisions' = decisions
  BY DEF PublishDraft
<1>3. IsSequence(drafts) /\ DraftOK(drafts[d])
  BY DEF IInv, DraftsOK
<1>4. drafts = [e \in Drafts |-> drafts[e]]
  BY <1>3 DEF IsSequence, Drafts
<1>5. drafts[d] = [version |-> drafts[d].version, previous |-> drafts[d].previous,
                   source |-> drafts[d].source, state |-> drafts[d].state,
                   revision |-> drafts[d].revision, manifest |-> drafts[d].manifest,
                   baseline |-> drafts[d].baseline]
  BY <1>3 DEF DraftOK
<1>6. PICK x : x = [drafts[d] EXCEPT !.state = "published"]
  OBVIOUS
<1>7. drafts' = [e \in Drafts |-> IF e = d THEN x ELSE drafts[e]]
  BY <1>1, <1>4, <1>6
<1>8. /\ x.version = drafts[d].version /\ x.source = drafts[d].source
      /\ x.previous = drafts[d].previous /\ x.state = "published"
      /\ x.revision = drafts[d].revision /\ x.manifest = drafts[d].manifest
      /\ x.baseline = drafts[d].baseline
  BY <1>5, <1>6
<1>9. /\ Drafts' = Drafts /\ drafts'[d] = x
      /\ \A e \in Drafts : /\ e # d => drafts'[e] = drafts[e]
                           /\ drafts'[e].version = drafts[e].version
                           /\ drafts'[e].baseline = drafts[e].baseline
  BY <1>7, <1>8 DEF Drafts
<1>10. Grows
  BY <1>2, <1>8, <1>9 DEF Grows
<1>11. Settled
  BY <1>1, <1>2, <1>9 DEF Settled
<1>12. UniquePublished'
  <2>1. drafts[d].version > ActiveVersion
    BY <1>1 DEF Lineage
  <2>2. \A e \in Drafts : drafts[e].state = "published" => drafts[e].version <= ActiveVersion
    BY DEF IInv, ActiveOK, PublishedVersions
  <2>3. ActiveVersion \in Int
    BY VersionsPositive DEF IInv, ActiveOK, PublishedVersions, NoVersion
  <2>4. \A e \in Drafts : drafts[e].state = "published" => drafts[e].version # drafts[d].version
    BY <2>1, <2>2, <2>3, VersionsPositive
  <2>5. QED BY <1>8, <1>9, <2>4 DEF ValidInv, UniquePublished
<1>13. Roots'
  <2>1. \A e \in Drafts : Rooted(e)'
    BY <1>9, <1>10, RootedStays DEF ValidInv
  <2>2. QED BY <1>9, <2>1 DEF Roots
<1>14. \A e \in Drafts : e # d => Untouched(e)
  BY <1>2, <1>9 DEF Untouched
<1>15. Valid(d)'
  <2>1. Authority(d)' = Authority(d) \cup {}
    BY <1>2, <1>8, <1>9, <1>11, <1>12, <1>13, AuthorityStays DEF ValidInv
  <2>2. PICK b, m, A : b = drafts[d].baseline /\ m = drafts[d].manifest /\ A = Authority(d)
    OBVIOUS
  <2>3. ProvenanceHolds(b, m, A) /\ Resolves(m, A)
    BY <1>1, <2>2 DEF LifecycleHolds
  <2>4. ProvenanceHolds(b, m, A)' /\ Resolves(m, A)'
    BY <2>3
  <2>5. b = drafts'[d].baseline /\ m = drafts'[d].manifest /\ A = Authority(d)'
    BY <1>8, <1>9, <2>1, <2>2
  <2>6. QED BY <2>4, <2>5 DEF Valid
<1>16. QED BY <1>9, <1>11, <1>12, <1>13, <1>14, <1>15, ValidStays

\* A draft is created: its lineage, and its selectors when they must be accounted for.
LEMMA NewValid ==
    ASSUME IInv, IInv', ValidInv, NEW n, n = Len(drafts) + 1, NEW x,
           drafts' = Append(drafts, x), x.state = "draft", UNCHANGED decisions,
           \A d \in Drafts : drafts[d].previous = NoVersion
             /\ (\A e \in Drafts : drafts[e].version >= drafts[d].version)
             => x.version >= drafts[d].version,
           Rooted(n)',
           Measured(n)' => /\ ProvenanceHolds(x.baseline, x.manifest, LineageBindings[SelectorSource(x)])
                           /\ Resolves(x.manifest, LineageBindings[SelectorSource(x)]),
           SelectorSource(x) \in PublishedVersions \cup {NoVersion}
    PROVE  ValidInv'
<1>1. /\ Drafts' = Drafts \cup {n} /\ n \notin Drafts /\ drafts'[n] = x
      /\ \A d \in Drafts : drafts'[d] = drafts[d]
  BY AppendFacts DEF IInv, DraftsOK, Drafts
<1>2. Grows /\ Settled
  BY <1>1 DEF Grows, Settled
<1>3. UniquePublished'
  <2>1. \A d \in Drafts' : drafts'[d].state = "published" => d \in Drafts /\ drafts'[d] = drafts[d]
    BY <1>1
  <2>2. QED BY <2>1 DEF ValidInv, UniquePublished
<1>4. Roots'
  <2>1. ASSUME NEW d \in Drafts PROVE Rooted(d)'
    <3>1. \A e \in Drafts : drafts'[e].baseline = drafts[e].baseline
      BY <1>1
    <3>2. drafts[d].previous = NoVersion
             /\ (\A e \in Drafts : drafts[e].version >= drafts[d].version)
             => \A e \in Drafts' \ Drafts : drafts'[e].version >= drafts[d].version
      BY <1>1
    <3>3. QED BY <1>2, <3>1, <3>2, RootedStays DEF ValidInv
  <2>2. QED BY <1>1, <2>1 DEF Roots
<1>5. \A d \in Drafts : Untouched(d)
  BY <1>1 DEF Untouched
<1>6. ASSUME Measured(n)' PROVE Valid(n)'
  <2>1. PICK u, A : u = SelectorSource(x) /\ A = LineageBindings[u]
    OBVIOUS
  <2>2. LineageBindings'[u] = A
    BY <1>2, <1>3, <1>4, <2>1, LineageStays DEF ValidInv
  <2>3. AppliedBindings(n, drafts[n].revision)' = {}
    <3>1. AppliedBindings(n, drafts[n].revision)'
            = {b \in Range(decisions') : b.draft = n /\ b.applied > 0}
      BY <1>1, AppliedAreNext
    <3>2. \A b \in Range(decisions) : b.applied > 0 => b.draft # n
      BY <1>1 DEF IInv, DecisionsOK
    <3>3. QED BY <3>1, <3>2
  <2>4. u = SelectorSource(drafts[n])'
    BY <1>1, <2>1 DEF SelectorSource, NoVersion
  <2>5. Authority(n)' = A
    BY <2>2, <2>3, <2>4 DEF Authority
  <2>6. PICK b, m : b = x.baseline /\ m = x.manifest
    OBVIOUS
  <2>7. ProvenanceHolds(b, m, A) /\ Resolves(m, A)
    BY <1>6, <2>1, <2>6
  <2>8. ProvenanceHolds(b, m, A)' /\ Resolves(m, A)'
    BY <2>7
  <2>9. b = drafts'[n].baseline /\ m = drafts'[n].manifest
    BY <1>1, <2>6
  <2>10. QED BY <2>5, <2>8, <2>9 DEF Valid
<1>7. \A d \in Drafts : drafts'[d].version = drafts[d].version
  BY <1>1
<1>8. \A d \in Drafts' : \/ Untouched(d)
                         \/ (drafts[d].state = "published" \/ Measured(d) => Valid(d))'
  BY <1>1, <1>5, <1>6
<1>9. QED BY <1>2, <1>3, <1>4, <1>7, <1>8, ValidStays

\* Without declared lineage there is nothing to inherit.
LEMMA NoLineage ==
    ASSUME IInv, Roots
    PROVE  LineageBindings[NoVersion] = {}
<1>1. LineageWalks
  BY RootedClosed, LineageWalk
<1>2. NoVersion \notin PublishedVersions
  BY VersionsPositive DEF PublishedVersions, NoVersion
<1>3. QED BY <1>1, <1>2 DEF LineageWalks, NoVersion, Versions

\* A manifest accounts for itself.
LEMMA SelfProvenance ==
    ASSUME NEW b, NEW m, b.manifest = m
    PROVE  ProvenanceHolds(b, m, {})
BY DEF ProvenanceHolds

LEMMA FirstValid ==
    ASSUME IInv, IInv', ValidInv, CreateFirstDraft
    PROVE  ValidInv'
<1>1. PICK v \in Versions : drafts' = <<NewDraft(v, NoVersion, NoVersion, FirstManifest, NoDraft)>>
  BY DEF CreateFirstDraft
<1>2. PICK x : x = NewDraft(v, NoVersion, NoVersion, FirstManifest, NoDraft)
  OBVIOUS
<1>3. drafts = <<>> /\ Len(drafts) = 0 /\ drafts' = Append(drafts, x) /\ Drafts = {}
  BY <1>1, <1>2 DEF CreateFirstDraft, Drafts
<1>4. /\ x.version = v /\ x.previous = NoVersion /\ x.source = NoVersion /\ x.state = "draft"
      /\ x.manifest = FirstManifest /\ x.baseline.manifest = FirstManifest
      /\ x.baseline.predecessor = NoDraft
  BY <1>2 DEF NewDraft
<1>5. PICK n : n = Len(drafts) + 1
  OBVIOUS
<1>6. Drafts' = {n} /\ drafts'[n] = x
  BY <1>3, <1>5, AppendFacts DEF IInv, DraftsOK, Drafts
<1>7. SelectorSource(x) = NoVersion
  BY <1>4 DEF SelectorSource
<1>8. Rooted(n)'
  <2>1. SelectorSource(drafts[n])' = NoVersion
    BY <1>6, <1>7 DEF SelectorSource, NoVersion
  <2>2. v \in Int /\ v >= 1
    BY BoundAssumption DEF Versions
  <2>3. NoVersion < v
    BY <2>2 DEF NoVersion
  <2>4. drafts'[n].baseline.predecessor = NoDraft /\ drafts'[n].version = v
    BY <1>4, <1>6
  <2>5. \A e \in Drafts' : drafts'[e].version >= v
    BY <1>6, <2>2, <2>4
  <2>6. QED BY <2>1, <2>3, <2>4, <2>5 DEF Rooted, NoDraft, NoVersion
<1>9. LineageBindings[SelectorSource(x)] = {}
  BY <1>7, NoLineage DEF ValidInv
<1>10. ProvenanceHolds(x.baseline, x.manifest, {})
  BY <1>4, SelfProvenance
<1>11. Resolves(x.manifest, {})
  <2>1. \A r \in Roles : FirstManifest.global[r] = {} \/ FirstManifest.local[r] = {}
    BY DEF FirstManifest
  <2>2. QED BY <1>4, <2>1 DEF Resolves
<1>12. UNCHANGED decisions
  BY DEF CreateFirstDraft
<1>13. QED BY <1>3, <1>4, <1>5, <1>7, <1>8, <1>9, <1>10, <1>11, <1>12, NewValid

\* The predecessors of a version: the drafts of it, else those of the latest earlier one.
LEMMA InferredFrom ==
    ASSUME NEW v, NEW d \in InferredPredecessors(v)
    PROVE  d \in Drafts /\ (drafts[d].version = v \/ \A e \in Drafts : drafts[e].version # v)
BY DEF InferredPredecessors

\* A draft that a new one without declared lineage is measured by.
LEMMA SeedFacts ==
    ASSUME IInv, NEW v, NEW reference \in References(v, NoVersion, NoVersion)
    PROVE  \E d \in InferredPredecessors(v) :
             /\ MaySeed(d, v)
             /\ reference.entries = Provenance(drafts[d].baseline.manifest)
             /\ reference.bindings = {}
             /\ reference.predecessor = IF drafts[d].version = v
                                        THEN drafts[d].baseline.predecessor ELSE d
<1>1. PICK C : C = InferredPredecessors(v)
  OBVIOUS
<1>2. reference \in {[manifest |-> drafts[d].manifest,
                      entries |-> Provenance(drafts[d].baseline.manifest),
                      bindings |-> {},
                      predecessor |-> IF drafts[d].version = v
                                      THEN drafts[d].baseline.predecessor ELSE d] :
                        d \in {e \in C : C = {e} /\ MaySeed(e, v)}}
  BY <1>1 DEF References
<1>3. PICK d \in C : /\ MaySeed(d, v)
                     /\ reference = [manifest |-> drafts[d].manifest,
                          entries |-> Provenance(drafts[d].baseline.manifest),
                          bindings |-> {},
                          predecessor |-> IF drafts[d].version = v
                                          THEN drafts[d].baseline.predecessor ELSE d]
  BY <1>2
<1>4. QED BY <1>1, <1>3

\* A bounded set of natural numbers has a greatest element.
LEMMA Greatest ==
    ASSUME NEW v \in Int, NEW S \in SUBSET (1 .. v - 1), S # {}
    PROVE  \E e \in S : \A f \in S : f <= e
<1> DEFINE T == {y \in Nat : \E e \in S : y = v - e}
<1>1. \A e \in S : e \in Int /\ v - e \in Nat /\ v - e \in T
  OBVIOUS
<1>2. T \in SUBSET Nat /\ T # {}
  BY <1>1
<1> HIDE DEF T
<1>3. PICK y \in T : \A z \in T : y <= z
  BY <1>2, Least
<1>4. PICK e \in S : y = v - e
  BY <1>3 DEF T
<1>5. \A f \in S : f <= e
  BY <1>1, <1>3, <1>4
<1>6. QED BY <1>5

\* The earlier versions of a draft that is no first one.
LEMMA InferredEarlier ==
    ASSUME IInv, NEW v \in Int, NEW d \in InferredPredecessors(v), drafts[d].version # v
    PROVE  drafts[d].version < v
<1> DEFINE earlier == {drafts[f].version : f \in {e \in Drafts : drafts[e].version < v}}
<1>1. {e \in Drafts : drafts[e].version = v} = {}
  BY InferredFrom
<1>2. earlier # {} /\ d \in Drafts /\ drafts[d].version = Max(earlier)
  BY <1>1 DEF InferredPredecessors
<1>3. Max(earlier) \in earlier
  <2>1. earlier \subseteq 1 .. v - 1
    BY VersionsPositive
  <2> HIDE DEF earlier
  <2>2. \E e \in earlier : \A f \in earlier : f <= e
    BY <1>2, <2>1, Greatest
  <2>3. earlier \in SUBSET Int
    BY <2>1
  <2>4. QED BY <2>2, <2>3, MaxIs
<1>4. QED BY <1>2, <1>3

LEMMA CreateValid ==
    ASSUME IInv, IInv', ValidInv, CreateDraft
    PROVE  ValidInv'
<1>1. PICK v \in Versions, s \in PublishedVersions \cup {NoVersion}, m \in SentManifests :
        /\ Lineage(v, ActiveVersion)
        /\ s # NoVersion => s < ActiveVersion
        /\ \E reference \in References(v, ActiveVersion, s) :
              /\ BaselineExpected(v, m, reference)
              /\ Resolves(m, reference.bindings)
              /\ drafts' = Append(drafts, NewDraft(v, ActiveVersion, s, m, reference.predecessor))
  BY DEF CreateDraft
<1>2. PICK reference \in References(v, ActiveVersion, s) :
        /\ BaselineExpected(v, m, reference)
        /\ Resolves(m, reference.bindings)
        /\ drafts' = Append(drafts, NewDraft(v, ActiveVersion, s, m, reference.predecessor))
  BY <1>1
<1>3. UNCHANGED decisions
  BY DEF CreateDraft
<1>4. PICK x : x = NewDraft(v, ActiveVersion, s, m, reference.predecessor)
  OBVIOUS
<1>5. PICK n : n = Len(drafts) + 1
  OBVIOUS
<1>6. /\ x.version = v /\ x.previous = ActiveVersion /\ x.source = s /\ x.state = "draft"
      /\ x.manifest = m /\ x.baseline.manifest = m
      /\ x.baseline.predecessor = reference.predecessor
  BY <1>4 DEF NewDraft
<1>7. /\ Drafts' = Drafts \cup {n} /\ n \notin Drafts
      /\ drafts'[n] = x /\ \A d \in Drafts : drafts'[d] = drafts[d]
  BY <1>2, <1>4, <1>5, AppendFacts DEF IInv, DraftsOK, Drafts
<1>8. \A d \in Drafts : d \in Nat /\ d < n
  <2>1. Len(drafts) \in Nat /\ Drafts = 1 .. Len(drafts)
    BY SequenceDomain DEF IInv, DraftsOK, Drafts
  <2>2. QED BY <1>5, <2>1
<1>9. /\ v \in Int /\ ActiveVersion \in Int /\ v > ActiveVersion /\ ActiveVersion >= NoVersion
      /\ \A w \in PublishedVersions : w \in Int /\ w >= 1
  <2>1. \A w \in PublishedVersions : w \in Int /\ w >= 1
    BY VersionsPositive DEF PublishedVersions
  <2>2. QED BY <1>1, <2>1, BoundAssumption DEF Versions, Lineage, IInv, ActiveOK, NoVersion
<1>10. ActiveVersion = NoVersion => s = NoVersion
  BY <1>1, <1>9 DEF NoVersion
<1>11. PICK u : u = SelectorSource(x)
  OBVIOUS
<1>12. u = IF s # NoVersion THEN s ELSE ActiveVersion
  BY <1>6, <1>11 DEF SelectorSource
<1>13. u \in PublishedVersions \cup {NoVersion} /\ u < v
  <2>1. CASE s # NoVersion
    BY <1>1, <1>9, <1>12, <2>1
  <2>2. CASE s = NoVersion
    BY <1>9, <1>12, <2>2 DEF IInv, ActiveOK
  <2>3. QED BY <2>1, <2>2
<1>14. SelectorSource(drafts[n])' = u
  BY <1>7, <1>11 DEF SelectorSource, NoVersion
<1>15. PublishedVersions' = PublishedVersions
  BY <1>6, <1>7 DEF PublishedVersions
<1>16. IsFirst(n)' => \A d \in Drafts : drafts[d].version # v
  <2>1. \A d \in Drafts : d \in 1 .. n - 1
    BY <1>5, SequenceDomain DEF IInv, DraftsOK, Drafts
  <2>2. QED BY <1>6, <1>7, <2>1 DEF IsFirst
<1>17. IsFirst(n)' => Provenance(m) = reference.entries
  <2>1. (\A d \in Drafts : drafts[d].version # v) =>
           {d \in Drafts : drafts[d].version = v} = {}
    OBVIOUS
  <2>2. QED BY <1>2, <1>16, <2>1 DEF BaselineExpected
<1>18. /\ \A d \in Drafts : drafts[d].previous = NoVersion
             /\ (\A e \in Drafts : drafts[e].version >= drafts[d].version)
             => v >= drafts[d].version
       /\ Rooted(n)'
       /\ Measured(n)' => /\ ProvenanceHolds(x.baseline, m, LineageBindings[u])
                          /\ Resolves(m, LineageBindings[u])
  <2>1. CASE ActiveVersion # NoVersion
    <3>1. u # NoVersion /\ u \in PublishedVersions
      BY <1>12, <1>13, <2>1
    <3>2. ActiveVersion \in PublishedVersions
      BY <2>1 DEF IInv, ActiveOK
    <3>3. PICK k : k = PublishedDraft(u)
      OBVIOUS
    <3>4. k \in Drafts /\ drafts[k].state = "published" /\ drafts[k].version = u
      BY <3>1, <3>3, PublishedDraftFacts
    <3>5. /\ reference.entries = Provenance(drafts[k].manifest)
          /\ reference.bindings = LineageBindings[u] /\ reference.predecessor = NoDraft
      BY <1>12, <3>1, <3>3 DEF References
    <3>6. ASSUME NEW d \in Drafts, \A e \in Drafts : drafts[e].version >= drafts[d].version
          PROVE  v >= drafts[d].version
      <4>1. PICK e \in Drafts : drafts[e].version = ActiveVersion
        BY <3>2 DEF PublishedVersions
      <4>2. QED BY <1>9, <3>6, <4>1, VersionsPositive
    <3>7. Rooted(n)'
      BY <1>6, <1>7, <1>13, <1>14, <1>15, <2>1, <3>5 DEF Rooted, NoVersion, NoDraft
    <3>8. ASSUME Measured(n)' PROVE ProvenanceHolds(x.baseline, m, LineageBindings[u])
      <4>. IsFirst(n)'
        BY <1>6, <1>7, <2>1, <3>8 DEF Measured, NoVersion
      <4>1. m.global = drafts[k].manifest.global /\ m.local = drafts[k].manifest.local
        BY <1>17, <3>5 DEF Provenance
      <4>2. Valid(k)
        BY <3>4 DEF ValidInv, ValidOK
      <4>3. Authority(k) = LineageBindings[u]
        <5>1. LineageWalks
          BY RootedClosed, LineageWalk DEF ValidInv
        <5>2. QED BY <3>1, <3>3, <5>1 DEF LineageWalks, Authority
      <4>4. PICK B : B = LineageBindings[u]
        OBVIOUS
      <4>5. ProvenanceHolds(drafts[k].baseline, drafts[k].manifest, B)
        BY <4>2, <4>3, <4>4 DEF Valid
      <4>6. ASSUME NEW r \in Roles, NEW on, on = {b \in B : b.role = r}
            PROVE  m.local[r] = IF on = {} THEN m.local[r] ELSE LastBinding(on).result
        BY <4>1, <4>5, <4>6 DEF ProvenanceHolds
      <4>7. ProvenanceHolds(x.baseline, m, B)
        BY <1>6, <4>6 DEF ProvenanceHolds
      <4>8. QED BY <4>4, <4>7
    <3>9. QED BY <1>2, <3>5, <3>6, <3>7, <3>8
  <2>2. CASE ActiveVersion = NoVersion
    <3>1. s = NoVersion /\ u = NoVersion
      BY <1>10, <1>12, <2>2
    <3>2. reference \in References(v, NoVersion, NoVersion)
      BY <1>2, <2>2, <3>1
    <3>3. PICK k \in InferredPredecessors(v) :
             /\ MaySeed(k, v)
             /\ reference.entries = Provenance(drafts[k].baseline.manifest)
             /\ reference.bindings = {}
             /\ reference.predecessor = IF drafts[k].version = v
                                        THEN drafts[k].baseline.predecessor ELSE k
      BY <3>2, SeedFacts
    <3>4. k \in Drafts /\ drafts[k].version <= v /\ drafts[k].version \in Int
      <4>1. k \in Drafts
        BY InferredFrom
      <4>2. drafts[k].version # v => drafts[k].version < v
        BY <1>9, InferredEarlier
      <4>3. QED BY <1>9, <4>1, <4>2, VersionsPositive
    <3>5. ASSUME NEW d \in Drafts, \A e \in Drafts : drafts[e].version >= drafts[d].version
          PROVE  v >= drafts[d].version
      BY <1>9, <3>4, <3>5, VersionsPositive
    <3>6. LineageBindings[u] = {}
      BY <3>1, NoLineage DEF ValidInv
    <3>7. drafts[k].previous = NoVersion /\ Rooted(k)
      BY <3>3, <3>4 DEF MaySeed, ValidInv, Roots
    <3>8. ASSUME reference.predecessor = NoDraft
          PROVE  \A e \in Drafts' : drafts'[e].version >= v
      <4>1. drafts[k].version = v
        BY <1>8, <3>3, <3>4, <3>8 DEF NoDraft, Drafts, IInv, DraftsOK, IsSequence
      <4>2. \A e \in Drafts : drafts[e].version >= v
        BY <3>3, <3>7, <3>8, <4>1 DEF Rooted
      <4>3. QED BY <1>6, <1>7, <1>9, <4>2
    <3>9. ASSUME NEW p, p = reference.predecessor, p # NoDraft
          PROVE  /\ p \in Drafts /\ drafts[p].version < v
                 /\ Provenance(drafts[p].baseline.manifest) = Provenance(m)
      <4>1. CASE drafts[k].version = v
        <5>1. p = drafts[k].baseline.predecessor
          BY <3>3, <3>9, <4>1
        <5>2. /\ p \in Drafts /\ drafts[p].version < v
              /\ Provenance(drafts[p].baseline.manifest) = Provenance(drafts[k].baseline.manifest)
          BY <3>7, <3>9, <4>1, <5>1 DEF Rooted
        <5>3. k \in {d \in Drafts : drafts[d].version = v}
          BY <3>4, <4>1
        <5>4. Provenance(drafts[k].baseline.manifest) = Provenance(m)
          BY <1>2, <5>3 DEF BaselineExpected
        <5>5. QED BY <5>2, <5>4
      <4>2. CASE drafts[k].version # v
        <5>1. p = k /\ drafts[k].version < v
          BY <1>9, <3>3, <3>9, <4>2, InferredEarlier
        <5>2. {d \in Drafts : drafts[d].version = v} = {}
          BY <4>2, InferredFrom
        <5>3. Provenance(m) = reference.entries
          BY <1>2, <5>2 DEF BaselineExpected
        <5>4. QED BY <3>3, <3>4, <5>1, <5>3
      <4>3. QED BY <4>1, <4>2
    <3>10. Rooted(n)'
      <4>1. PICK p : p = reference.predecessor
        OBVIOUS
      <4>2. p = drafts'[n].baseline.predecessor /\ drafts'[n].previous = NoVersion /\ drafts'[n].version = v
        BY <1>6, <1>7, <2>2, <4>1
      <4>3. CASE p = NoDraft
        BY <1>13, <1>14, <1>15, <3>8, <4>1, <4>2, <4>3 DEF Rooted, NoVersion, NoDraft
      <4>4. CASE p # NoDraft
        <5>1. /\ p \in Drafts /\ drafts[p].version < v
              /\ Provenance(drafts[p].baseline.manifest) = Provenance(m)
          BY <3>9, <4>1, <4>4
        <5>2. p \in Drafts' /\ p < n /\ drafts'[p].version < v
          BY <1>7, <1>8, <5>1
        <5>3. Provenance(drafts[p].baseline.manifest)' = Provenance(drafts[n].baseline.manifest)'
          BY <1>6, <1>7, <5>1 DEF Provenance
        <5>4. QED BY <1>13, <1>14, <1>15, <4>2, <4>4, <5>2, <5>3 DEF Rooted, NoVersion, NoDraft
      <4>5. QED BY <4>3, <4>4
    <3>11. ProvenanceHolds(x.baseline, m, {}) /\ Resolves(m, {})
      BY <1>2, <1>6, <3>3, SelfProvenance
    <3>12. QED BY <3>5, <3>6, <3>10, <3>11
  <2>3. QED BY <2>1, <2>2
<1>19. drafts' = Append(drafts, x)
  BY <1>2, <1>4
<1>20. QED BY <1>3, <1>5, <1>6, <1>11, <1>13, <1>18, <1>19, NewValid

LEMMA InitValid == Init => ValidInv
<1> SUFFICES ASSUME Init PROVE ValidInv
  OBVIOUS
<1>1. Drafts = {}
  BY DEF Init, Drafts
<1>2. QED BY <1>1 DEF ValidInv, Roots, UniquePublished, ValidOK

LEMMA NextValid == IInv /\ ValidInv /\ [Next]_vars => ValidInv'
<1> SUFFICES ASSUME IInv, ValidInv, [Next]_vars PROVE ValidInv'
  OBVIOUS
<1> USE NextInv
<1>1. CASE CreateFirstDraft
  BY <1>1, FirstValid
<1>2. CASE CreateDraft
  BY <1>2, CreateValid
<1>3. CASE ReplaceDraft
  BY <1>3, ReplaceValid
<1>4. CASE PublishDraft
  BY <1>4, PublishValid
<1>5. CASE GetProposals
  BY <1>5, QuietValid DEF GetProposals
<1>6. CASE Preview
  BY <1>6, QuietValid DEF Preview
<1>7. CASE Approve
  <2>1. PICK i \in DOMAIN batches : \E p \in batches[i].proposals :
          Apply("approve", i, {p}, {p.selector})
    BY <1>7 DEF Approve
  <2>2. PICK p \in batches[i].proposals : Apply("approve", i, {p}, {p.selector})
    BY <2>1
  <2>3. QED BY <2>2, ApplyValid
<1>8. CASE ApplyPreview
  <2>1. PICK p \in previews : Apply(p.kind, p.batch, p.proposals, p.selectors)
    BY <1>8 DEF ApplyPreview
  <2>2. p.batch \in DOMAIN batches
    BY DEF IInv, BatchesOK
  <2>3. QED BY <2>1, <2>2, ApplyValid
<1>9. CASE Reject
  <2>1. PICK i, P : decisions' = Append(decisions, Decision("reject", i, P, NoRole, {}, {}, 0))
    BY <1>9 DEF Reject
  <2>2. PICK c : c = Decision("reject", i, P, NoRole, {}, {}, 0)
    OBVIOUS
  <2>3. c.applied = 0
    BY <2>2 DEF Decision
  <2>4. decisions' = Append(decisions, c) /\ IsSequence(decisions)
    BY <2>1, <2>2 DEF IInv, DecisionsOK
  <2>5. Range(decisions') = Range(decisions) \cup {c}
    BY <2>4, AppendFacts
  <2>6. UNCHANGED drafts
    BY <1>9 DEF Reject
  <2>7. QED BY <2>3, <2>5, <2>6, QuietValid
<1>10. CASE UNCHANGED vars
  BY <1>10, QuietValid DEF vars
<1>11. QED
  BY <1>1, <1>2, <1>3, <1>4, <1>5, <1>6, <1>7, <1>8, <1>9, <1>10 DEF Next

\* Every draft without a declared predecessor and the first draft of every version
\* keep the selectors that their baseline and the decisions of their lineage account
\* for, and these resolve with them: nothing that is decided, published or rolled
\* back around such a draft makes it invalid
\* (_validate_lifecycle_manifest, _validate_new_draft_selector_baseline).
THEOREM DraftsAlwaysValid == Spec => []DraftsStayValid
<1>1. IInv /\ ValidInv => DraftsStayValid
  <2> SUFFICES ASSUME IInv, ValidInv PROVE DraftsStayValid
    OBVIOUS
  <2>1. Drafts \subseteq Nat
    BY SequenceDomain DEF IInv, DraftsOK, Drafts
  <2>2. \A d \in Drafts : InferredHolds[d]
    BY <2>1, InferredAll DEF ValidInv, Roots
  <2>3. QED BY <2>2 DEF DraftsStayValid, ValidInv, ValidOK, IsFirst, Measured, Valid, LifecycleHolds
<1>2. Spec => []ValidInv
  BY Invariance, InitValid, NextValid, PTL DEF Spec
<1>3. QED BY <1>1, <1>2, Invariance, PTL

-----------------------------------------------------------------------------
(* Decisions that add up *)

AtomSpace == [form : {"role", "anchor", "list"}, members : SUBSET Members]

LEMMA AtomsFinite == IsFiniteSet(AtomSpace)
<1> DEFINE F == {"role", "anchor", "list"}
           D == F \X SUBSET Members
           f == [x \in D |-> Atom(x[1], x[2])]
<1>1. IsFiniteSet(F)
  <2>1. IsFiniteSet({"role"})
    BY FS_Singleton
  <2>2. IsFiniteSet({"role"} \cup {"anchor"})
    BY <2>1, FS_AddElement
  <2>3. IsFiniteSet(({"role"} \cup {"anchor"}) \cup {"list"})
    BY <2>2, FS_AddElement
  <2>4. ({"role"} \cup {"anchor"}) \cup {"list"} = F
    OBVIOUS
  <2>5. QED BY <2>3, <2>4
<1>2. IsFiniteSet(SUBSET Members)
  BY MemberAssumption, FS_SUBSET
<1>3. IsFiniteSet(D)
  <2> HIDE DEF F
  <2>1. QED BY <1>1, <1>2, FS_Product
<1>4. f \in [D -> AtomSpace]
  BY DEF AtomSpace, Atom
<1>5. ASSUME NEW a \in AtomSpace PROVE \E x \in D : f[x] = a
  <2>1. a.form \in F /\ a.members \in SUBSET Members /\ a = [form |-> a.form, members |-> a.members]
    BY DEF AtomSpace
  <2>2. <<a.form, a.members>> \in D
    BY <2>1
  <2>3. f[<<a.form, a.members>>] = Atom(a.form, a.members)
    BY <2>2
  <2>4. QED BY <2>1, <2>2, <2>3 DEF Atom
<1>6. f \in Surjection(D, AtomSpace)
  BY <1>4, <1>5 DEF Surjection
<1> HIDE DEF D, f
<1>7. QED BY <1>3, <1>6, FS_Surjection

\* Of sets of atoms one is the smallest.
LEMMA Smallest ==
    ASSUME NEW E, E # {}, \A A \in E : A \subseteq AtomSpace
    PROVE  \E A \in E : \A C \in E : Cardinality(A) <= Cardinality(C)
<1>1. \A A \in E : Cardinality(A) \in Nat
  BY AtomsFinite, FS_Subset, FS_CardinalityType
<1> DEFINE T == {Cardinality(A) : A \in E}
<1>2. T \in SUBSET Nat /\ T # {}
  BY <1>1
<1>3. PICK n \in T : \A k \in T : n <= k
  <2> HIDE DEF T
  <2>1. QED BY <1>2, Least
<1>4. QED BY <1>3

\* Selectors of atoms that are known.
Known(S) == \A s \in S : s.atoms \subseteq AtomSpace

\* The selectors C select the resources X and no others of those seen, and none twice.
Partition(C, X, seen) ==
    /\ seen \cap UNION {Matches(s) : s \in C} = X
    /\ \A s, t \in C : s # t => Matches(s) \cap Matches(t) \cap seen = {}

\* The candidate C selects the resources of the proposals P.
Selects(C, P, seen) ==
    C # {} /\ Known(C) /\ Partition(C, UNION {p.members : p \in P}, seen)

\* The resources of some authorities.
MembersOf(covers) == {z.member : z \in covers}

\* The selector s of known atoms singles out the members among those seen.
Exact(s, members, seen) == s.atoms \subseteq AtomSpace /\ Matches(s) \cap seen = members

BatchShape(b) ==
    /\ b.seen \in SUBSET Members
    /\ b.revision \in Nat /\ b.revision <= drafts[b.draft].revision
    /\ \A r \in Roles : Known(b.source[r])
    /\ \A p \in b.proposals :
         /\ p.role \in Roles /\ p.members \subseteq b.seen
         /\ Exact(p.selector, p.members, b.seen)
    /\ \A p, q \in b.proposals : p.role = q.role => p = q \/ p.members \cap q.members = {}

PreviewShape(p) == Selects(p.selectors, p.proposals, batches[p.batch].seen)

DecisionShape(e) ==
    /\ e.batch \in DOMAIN batches /\ e.draft = batches[e.batch].draft /\ e.role \in Roles
    /\ e.source = batches[e.batch].source[e.role]
    /\ \A c \in e.covers : c = [role |-> e.role, selectors |-> e.source, member |-> c.member]
    /\ e.result # {} /\ Known(e.result)

Shapes ==
    /\ \A i \in DOMAIN batches : BatchShape(batches[i])
    /\ \A p \in previews : PreviewShape(p)
    /\ \A e \in Range(decisions) : e.applied > 0 => DecisionShape(e)

\* A revision of a draft is made by one decision.
AppliedOnce ==
    \A e, f \in Range(decisions) :
      e.applied > 0 /\ f.applied = e.applied /\ e.draft = f.draft => e = f

OfBatch(i) == {e \in Range(decisions) : e.batch = i /\ e.applied > 0}

\* While only the batch changes its draft, the other roles are as the batch found them.
BatchTrace(i) ==
    LET b == batches[i]
        x == drafts[b.draft]
    IN
    {e.applied : e \in OfBatch(i)} = b.revision + 1 .. x.revision =>
      \A r \in Roles : (\A e \in OfBatch(i) : e.role # r) => Resolved(x.manifest, r) = b.source[r]

BatchTraces == \A i \in DOMAIN batches : BatchTrace(i)

\* What the role selects after the decision f: what was decided since the batch's own
\* selectors were last replaced.  Only a decision that left those unchanged lets the
\* next one replace them, so DecisionsAddUp follows.
Replaced(e, f) ==
    \E g \in AlikeUntil(f) : g.applied \in e.applied .. f.applied - 1 /\ g.result = g.source
Earlier(f) == {e \in AlikeUntil(f) : ~ Replaced(e, f)}
AddsUp(f) ==
    Partition(f.result, UNION {MembersOf(e.covers) : e \in Earlier(f)}, batches[f.batch].seen)
Kept(f) ==
    (\A e \in Range(decisions) : e.draft = f.draft /\ e.role = f.role => e.applied <= f.applied)
      => drafts[f.draft].manifest.local[f.role] = f.result

Sums == \A f \in Range(decisions) : f.applied > 0 => AddsUp(f) /\ Kept(f)

AddUpInv == Shapes /\ AppliedOnce /\ BatchTraces /\ Sums

LEMMA SumsAddUp == IInv /\ Sums => DecisionsAddUp
<1> SUFFICES ASSUME IInv, Sums, NEW f \in Range(decisions), f.applied > 0
             PROVE  /\ Covered({f}) \subseteq Selected(f)
                    /\ Selected(f) \subseteq Covered(AlikeUntil(f))
                    /\ (\A g \in AlikeUntil(f) : g.applied < f.applied => g.result # g.source)
                         => Selected(f) = Covered(AlikeUntil(f))
                    /\ \A s, t \in f.result :
                         s # t => Matches(s) \cap Matches(t) \cap batches[f.batch].seen = {}
                    /\ Kept(f)
  BY DEF DecisionsAddUp, Kept
<1>1. AddsUp(f) /\ Kept(f)
  BY DEF Sums
<1>2. /\ Selected(f) = Covered(Earlier(f))
      /\ \A s, t \in f.result :
           s # t => Matches(s) \cap Matches(t) \cap batches[f.batch].seen = {}
  BY <1>1 DEF AddsUp, Partition, MembersOf, Selected, Covered
<1>3. f.applied \in Nat /\ \A e \in AlikeUntil(f) : e.applied \in Nat
  BY DEF IInv, DecisionsOK, AlikeUntil
<1>4. f \in Earlier(f)
  BY <1>3 DEF Earlier, Replaced, AlikeUntil
<1>5. Covered({f}) \subseteq Covered(Earlier(f)) /\ Covered(Earlier(f)) \subseteq Covered(AlikeUntil(f))
  BY <1>4 DEF Covered, Earlier
<1>6. ASSUME \A g \in AlikeUntil(f) : g.applied < f.applied => g.result # g.source
      PROVE  Earlier(f) = AlikeUntil(f)
  <2>1. \A g \in AlikeUntil(f), e \in AlikeUntil(f) :
          g.applied \in e.applied .. f.applied - 1 => g.applied < f.applied
    BY <1>3
  <2>2. QED BY <1>6, <2>1 DEF Earlier, Replaced
<1>7. QED BY <1>1, <1>2, <1>5, <1>6

\* What the batch and the draft have of the manifests is known.
LEMMA ManifestsKnown ==
    ASSUME IInv, Shapes, NEW d \in Drafts, NEW r \in Roles
    PROVE  Known(Resolved(drafts[d].manifest, r))
<1>1. PICK m : m = drafts[d].manifest
  OBVIOUS
<1>2. Origin(m)
  BY <1>1 DEF IInv, DraftsOK, DraftOK
<1>3. Known({ManifestSelector(r)}) /\ Known({})
  <2>1. Atom("role", {k \in Members : roleOf[k] = r}) \in AtomSpace
    BY DEF Atom, AtomSpace
  <2>2. QED BY <2>1 DEF Known, ManifestSelector
<1>4. Known(FirstManifest.global[r]) /\ Known(FirstManifest.local[r])
  <2>1. FirstManifest.global[r] \in {{ManifestSelector(r)}, {}} /\ FirstManifest.local[r] \in {{ManifestSelector(r)}, {}}
    BY DEF FirstManifest
  <2>2. QED BY <1>3, <2>1
<1>5. Known(m.global[r])
  BY <1>2, <1>4 DEF Origin
<1>6. Known(m.local[r])
  <2>1. \A e \in AppliedTo(r) : Known(e.result)
    BY DEF AppliedTo, Shapes, DecisionShape
  <2>2. m.local[r] = FirstManifest.local[r] \/ \E e \in AppliedTo(r) : m.local[r] = e.result
    BY <1>2 DEF Origin
  <2>3. QED BY <1>4, <2>1, <2>2
<1>7. Resolved(m, r) \subseteq m.global[r] \cup m.local[r]
  BY DEF Resolved
<1>8. QED BY <1>1, <1>5, <1>6, <1>7 DEF Known
\* A direct selector singles its members out among those seen.
LEMMA DirectFacts ==
    ASSUME NEW source, Known(source), NEW seen \in SUBSET Members, NEW members \in SUBSET seen
    PROVE  Exact(DirectSelector(source, members, seen), members, seen)
<1> DEFINE anchors == {Atom("anchor", {n \in Members : anchorOf[n] = anchorOf[m]}) :
                         m \in {n \in members : anchorOf[n] # NoAnchor}}
           candidates == {a \in anchors \cup UNION {s.atoms : s \in source} :
                            members \subseteq a.members}
           exact == {A \in SUBSET candidates \ {{}} : MatchesAll(A) \cap seen = members}
           atoms == DirectAtoms(source, members, seen)
<1>1. candidates \subseteq AtomSpace
  <2>1. anchors \subseteq AtomSpace
    BY DEF Atom, AtomSpace
  <2>2. UNION {s.atoms : s \in source} \subseteq AtomSpace
    BY DEF Known
  <2>3. QED BY <2>1, <2>2
<1>2. atoms = IF exact = {} THEN {Atom("list", members)}
              ELSE CHOOSE A \in exact : \A C \in exact : Cardinality(A) <= Cardinality(C)
  BY Zenon DEF DirectAtoms
<1>3. atoms \subseteq AtomSpace /\ MatchesAll(atoms) \cap seen = members
  <2>1. CASE exact = {}
    <3>1. atoms = {Atom("list", members)}
      BY <1>2, <2>1
    <3>2. Atom("list", members) \in AtomSpace /\ Atom("list", members).members = members
      BY DEF Atom, AtomSpace
    <3>3. QED BY <3>1, <3>2 DEF MatchesAll
  <2>2. CASE exact # {}
    <3>1. \A A \in exact : A \subseteq AtomSpace /\ MatchesAll(A) \cap seen = members
      BY <1>1
    <3>2. atoms = CHOOSE A \in exact : \A C \in exact : Cardinality(A) <= Cardinality(C)
      BY <1>2, <2>2
    <3> HIDE DEF exact, atoms
    <3>3. \E A \in exact : \A C \in exact : Cardinality(A) <= Cardinality(C)
      BY <2>2, <3>1, Smallest
    <3>4. atoms \in exact
      BY <3>2, <3>3, Zenon
    <3>5. QED BY <3>1, <3>4
  <2>3. QED BY <2>1, <2>2
<1>4. DirectSelector(source, members, seen).atoms = atoms
  BY DEF DirectSelector
<1>5. QED BY <1>3, <1>4 DEF Matches, Exact

\* The groups of a role are parts of what is seen and share nothing.
LEMMA GroupsFacts ==
    ASSUME NEW r, NEW seen
    PROVE  /\ \A G \in Groups(r, seen) : G \subseteq seen
           /\ \A G, H \in Groups(r, seen) : G = H \/ G \cap H = {}
<1> DEFINE candidates == {m \in seen : roleOf[m] = r}
           together(m) == {n \in candidates : anchorOf[n] = anchorOf[m]}
<1>1. Groups(r, seen) \in {{together(m) : m \in candidates}, {candidates}}
  BY DEF Groups
<1>2. \A m, n \in candidates : together(m) = together(n) \/ together(m) \cap together(n) = {}
  OBVIOUS
<1>3. CASE Groups(r, seen) = {together(m) : m \in candidates}
  <2>1. \A G \in Groups(r, seen) : \E m \in candidates : G = together(m)
    BY <1>3
  <2>2. \A G, H \in Groups(r, seen) : G = H \/ G \cap H = {}
    <3> HIDE DEF candidates, together
    <3>1. QED BY <1>2, <2>1
  <2>3. \A m \in candidates : together(m) \subseteq seen
    OBVIOUS
  <2>4. QED BY <2>1, <2>2, <2>3
<1>4. CASE Groups(r, seen) = {candidates}
  BY <1>4
<1>5. QED BY <1>1, <1>3, <1>4

\* A batch of proposals is as it should be.
LEMMA BatchOfShape ==
    ASSUME IInv, Shapes, NEW d \in Drafts, NEW seen \in Sights
    PROVE  BatchShape(BatchOf(d, seen))
<1> DEFINE source == Effective(drafts[d].manifest)
<1>1. PICK b : b = BatchOf(d, seen)
  OBVIOUS
<1>2. /\ b.seen = seen /\ b.revision = drafts[d].revision /\ b.draft = d /\ b.source = source
      /\ b.proposals = UNION {{[role |-> r, members |-> members,
                            selector |-> DirectSelector(source[r], members, seen)] :
                              members \in Groups(r, seen)} : r \in Roles}
  BY <1>1 DEF BatchOf
<1>3. seen \in SUBSET Members
  BY MemberAssumption
<1>4. \A r \in Roles : Known(source[r])
  BY ManifestsKnown DEF Effective
<1>5. drafts[d].revision \in Nat
  BY DEF IInv, DraftsOK, DraftOK
<1> HIDE DEF source
<1>6. \A p \in b.proposals : \E r \in Roles : \E G \in Groups(r, seen) :
        p = [role |-> r, members |-> G, selector |-> DirectSelector(source[r], G, seen)]
  BY <1>2
<1>7. ASSUME NEW p \in b.proposals
      PROVE  /\ p.role \in Roles /\ p.members \subseteq seen
             /\ Exact(p.selector, p.members, seen)
  <2>1. PICK r \in Roles : \E G \in Groups(r, seen) :
          p = [role |-> r, members |-> G, selector |-> DirectSelector(source[r], G, seen)]
    BY <1>6
  <2>2. PICK G \in Groups(r, seen) :
          p = [role |-> r, members |-> G, selector |-> DirectSelector(source[r], G, seen)]
    BY <2>1
  <2>3. p.role = r /\ p.members = G /\ p.selector = DirectSelector(source[r], G, seen)
    BY <2>2
  <2>4. G \in SUBSET seen
    BY GroupsFacts
  <2>5. Exact(DirectSelector(source[r], G, seen), G, seen)
    BY <1>3, <1>4, <2>4, DirectFacts
  <2>6. QED BY <2>3, <2>4, <2>5
<1>8. ASSUME NEW p \in b.proposals, NEW q \in b.proposals, p.role = q.role
      PROVE  p = q \/ p.members \cap q.members = {}
  <2>1. PICK r, G :
          /\ r \in Roles /\ G \in Groups(r, seen)
          /\ p = [role |-> r, members |-> G, selector |-> DirectSelector(source[r], G, seen)]
    BY <1>6
  <2>2. PICK k, H :
          /\ k \in Roles /\ H \in Groups(k, seen)
          /\ q = [role |-> k, members |-> H, selector |-> DirectSelector(source[k], H, seen)]
    BY <1>6
  <2>3. p.role = r /\ p.members = G /\ q.role = k /\ q.members = H
    BY <2>1, <2>2
  <2>4. r = k
    BY <1>8, <2>3
  <2>5. G = H \/ G \cap H = {}
    BY <2>1, <2>2, <2>4, GroupsFacts
  <2>6. QED BY <2>1, <2>2, <2>3, <2>4, <2>5
<1>9. BatchShape(b)
  BY <1>2, <1>3, <1>4, <1>5, <1>7, <1>8 DEF BatchShape
<1>10. QED BY <1>1, <1>9

\* Proposals of one role.
LEMMA OneRole ==
    ASSUME NEW P, \A p \in P : p.role \in Roles, Cardinality({p.role : p \in P}) = 1
    PROVE  /\ P # {} /\ (CHOOSE p \in P : TRUE).role \in Roles
           /\ \A p \in P : p.role = (CHOOSE q \in P : TRUE).role
<1> DEFINE R == {p.role : p \in P}
<1>1. IsFiniteSet(R)
  <2>1. R \in SUBSET Roles
    OBVIOUS
  <2> HIDE DEF R
  <2>2. QED BY <2>1, RoleAssumption, FS_Subset
<1>2. PICK r : R = {r}
  <2> HIDE DEF R
  <2>1. Cardinality(R) = 1
    BY DEF R
  <2>2. QED BY <1>1, <2>1, FS_Singleton
<1>3. P # {} /\ \A p \in P : p.role = r
  BY <1>2
<1>4. (CHOOSE p \in P : TRUE) \in P
  BY <1>3
<1>5. QED BY <1>3, <1>4

\* The parts of a preview single out what they list, and share nothing.
LEMMA PartsFacts ==
    ASSUME NEW b, BatchShape(b), NEW P \in SUBSET b.proposals,
           \A p, q \in P : p.role = q.role, NEW kind
    PROVE  /\ \A part \in Parts(kind, P) :
                /\ part.members \subseteq b.seen /\ part.atoms \subseteq AtomSpace
                /\ MatchesAll(part.atoms) \cap b.seen = part.members
           /\ UNION {part.members : part \in Parts(kind, P)} = UNION {p.members : p \in P}
           /\ \A s, t \in Parts(kind, P) : s # t => s.members \cap t.members = {}
<1>1. b.seen \in SUBSET Members
  BY DEF BatchShape
<1>2. \A p \in P : p.members \subseteq b.seen /\ Exact(p.selector, p.members, b.seen)
  BY DEF BatchShape
<1>3. \A p, q \in P : p = q \/ p.members \cap q.members = {}
  BY DEF BatchShape
<1>4. CASE kind = "split"
  <2> DEFINE L(part) == [members |-> part, atoms |-> {Atom("list", part)}]
  <2>1. Parts(kind, P) = UNION {{L(part) : part \in SplitParts(p.members)} : p \in P}
    BY <1>4 DEF Parts
  <2>2. ASSUME NEW S
        PROVE  /\ UNION SplitParts(S) = S
               /\ \A s, t \in SplitParts(S) : s # t => s \cap t = {}
    <3>1. PICK low : low \subseteq S /\ SplitParts(S) = {low, S \ low}
      <4> DEFINE low == {m \in S : Cardinality({n \in S : n < m}) < (Cardinality(S) + 1) \div 2}
      <4>1. SplitParts(S) = {low, S \ low}
        BY DEF SplitParts
      <4>2. low \subseteq S
        OBVIOUS
      <4> HIDE DEF low
      <4>3. QED BY <4>1, <4>2
    <3>2. QED BY <3>1
  <2>3. ASSUME NEW part \in SUBSET b.seen
        PROVE  {Atom("list", part)} \subseteq AtomSpace /\ MatchesAll({Atom("list", part)}) \cap b.seen = part
    <3>1. Atom("list", part) \in AtomSpace /\ Atom("list", part).members = part
      BY <1>1 DEF Atom, AtomSpace
    <3>2. QED BY <1>1, <3>1 DEF MatchesAll
  <2>4. \A part : L(part).members = part /\ L(part).atoms = {Atom("list", part)}
    OBVIOUS
  <2> HIDE DEF L
  <2>5. \A x \in Parts(kind, P) : \E p \in P : \E part \in SplitParts(p.members) : x = L(part)
    BY <2>1
  <2>6. \A p \in P : \A part \in SplitParts(p.members) : L(part) \in Parts(kind, P)
    BY <2>1
  <2>7. \A p \in P : \A part \in SplitParts(p.members) : part \subseteq p.members /\ part \subseteq b.seen
    BY <1>2, <2>2
  <2>8. ASSUME NEW x \in Parts(kind, P)
        PROVE  /\ x.members \subseteq b.seen /\ x.atoms \subseteq AtomSpace
               /\ MatchesAll(x.atoms) \cap b.seen = x.members
    <3>1. PICK p \in P : \E part \in SplitParts(p.members) : x = L(part)
      BY <2>5
    <3>2. PICK part \in SplitParts(p.members) : x = L(part)
      BY <3>1
    <3>3. x.members = part /\ x.atoms = {Atom("list", part)} /\ part \in SUBSET b.seen
      BY <2>7, <2>4, <3>2
    <3>4. QED BY <2>3, <3>3
  <2>9. UNION {x.members : x \in Parts(kind, P)} = UNION {p.members : p \in P}
    <3>1. ASSUME NEW x \in Parts(kind, P), NEW k \in x.members PROVE \E p \in P : k \in p.members
      BY <2>5, <2>7, <2>4
    <3>2. ASSUME NEW p \in P, NEW k \in p.members PROVE \E x \in Parts(kind, P) : k \in x.members
      <4>1. PICK part \in SplitParts(p.members) : k \in part
        BY <2>2
      <4>2. QED BY <2>6, <2>4, <4>1
    <3>3. QED BY <3>1, <3>2
  <2>10. ASSUME NEW s \in Parts(kind, P), NEW t \in Parts(kind, P), s # t
         PROVE  s.members \cap t.members = {}
    <3>1. PICK p \in P : \E part \in SplitParts(p.members) : s = L(part)
      BY <2>5
    <3>2. PICK y \in SplitParts(p.members) : s = L(y)
      BY <3>1
    <3>3. PICK q \in P : \E part \in SplitParts(q.members) : t = L(part)
      BY <2>5
    <3>4. PICK z \in SplitParts(q.members) : t = L(z)
      BY <3>3
    <3>5. y # z /\ s.members = y /\ t.members = z
      BY <2>4, <2>10, <3>2, <3>4
    <3>6. CASE p = q
      <4>1. y \in SplitParts(p.members) /\ z \in SplitParts(p.members)
        BY <3>6
      <4>2. y \cap z = {}
        BY <2>2, <3>5, <4>1
      <4>3. QED BY <3>5, <4>2
    <3>7. CASE p # q
      BY <1>3, <2>7, <3>5, <3>7
    <3>8. QED BY <3>6, <3>7
  <2>11. QED BY <2>8, <2>9, <2>10
<1>5. CASE kind # "split"
  <2> DEFINE L(p) == [members |-> p.members, atoms |-> p.selector.atoms]
  <2>1. Parts(kind, P) = {L(p) : p \in P}
    BY <1>5 DEF Parts
  <2>2. \A p : L(p).members = p.members /\ L(p).atoms = p.selector.atoms
    OBVIOUS
  <2> HIDE DEF L
  <2>3. ASSUME NEW x \in Parts(kind, P)
        PROVE  /\ x.members \subseteq b.seen /\ x.atoms \subseteq AtomSpace
               /\ MatchesAll(x.atoms) \cap b.seen = x.members
    BY <1>2, <2>1, <2>2 DEF Exact, Matches
  <2>4. UNION {x.members : x \in Parts(kind, P)} = UNION {p.members : p \in P}
    BY <2>1, <2>2
  <2>5. ASSUME NEW s \in Parts(kind, P), NEW t \in Parts(kind, P), s # t
        PROVE  s.members \cap t.members = {}
    <3>1. PICK p \in P, q \in P : s = L(p) /\ t = L(q)
      BY <2>1
    <3>2. p # q /\ s.members = p.members /\ t.members = q.members
      BY <2>2, <2>5, <3>1
    <3>3. QED BY <1>3, <3>2
  <2>6. QED BY <2>3, <2>4, <2>5
<1>6. QED BY <1>4, <1>5

\* A candidate selects what its proposals do: a guard leaves its part alone.
LEMMA CandidateSelects ==
    ASSUME NEW i \in DOMAIN batches, BatchShape(batches[i]), NEW P \in SUBSET batches[i].proposals,
           \A p, q \in P : p.role = q.role, NEW kind, NEW source, Known(source),
           CandidateSelectors(kind, i, P, source) # {}
    PROVE  Selects(CandidateSelectors(kind, i, P, source), P, batches[i].seen)
<1> DEFINE guarded(part) ==
             (UNION {g.atoms : g \in Guards(source, batches[i].seen, part)}) \cup part.atoms
           sel(part) == [id |-> Identity(kind, i, P, part.members), atoms |-> guarded(part)]
           C == CandidateSelectors(kind, i, P, source)
<1>1. PICK seen : seen = batches[i].seen
  OBVIOUS
<1>2. C = {sel(part) : part \in Parts(kind, P)}
  BY DEF CandidateSelectors
<1>3. /\ \A part \in Parts(kind, P) :
           /\ part.members \subseteq seen /\ part.atoms \subseteq AtomSpace
           /\ MatchesAll(part.atoms) \cap seen = part.members
      /\ UNION {part.members : part \in Parts(kind, P)} = UNION {p.members : p \in P}
      /\ \A s, t \in Parts(kind, P) : s # t => s.members \cap t.members = {}
  BY <1>1, PartsFacts
<1>4. seen \in SUBSET Members
  BY <1>1 DEF BatchShape
<1>5. ASSUME NEW part \in Parts(kind, P)
      PROVE  guarded(part) \subseteq AtomSpace /\ MatchesAll(guarded(part)) \cap seen = part.members
  <2>1. \A g \in Guards(source, batches[i].seen, part) :
          g.atoms \subseteq AtomSpace /\ part.members \subseteq MatchesAll(g.atoms)
    BY DEF Guards, Known, Matches
  <2>2. guarded(part) \subseteq AtomSpace
    BY <1>3, <2>1
  <2>3. ASSUME NEW k \in part.members PROVE k \in MatchesAll(guarded(part)) \cap seen
    <3>1. k \in Members /\ k \in seen
      BY <1>3, <1>4
    <3>2. \A a \in part.atoms : k \in a.members
      BY <1>3, <2>3 DEF MatchesAll
    <3>3. \A g \in Guards(source, batches[i].seen, part) : \A a \in g.atoms : k \in a.members
      BY <2>1, <2>3 DEF MatchesAll
    <3>4. QED BY <3>1, <3>2, <3>3 DEF MatchesAll
  <2>4. ASSUME NEW k \in MatchesAll(guarded(part)) \cap seen PROVE k \in part.members
    <3>1. k \in MatchesAll(part.atoms)
      BY <2>4 DEF MatchesAll
    <3>2. QED BY <1>3, <3>1
  <2>5. QED BY <2>2, <2>3, <2>4
<1>6. \A part : sel(part).atoms = guarded(part)
  OBVIOUS
<1> HIDE DEF guarded, sel, C
<1>7. \A part \in Parts(kind, P) :
        sel(part).atoms \subseteq AtomSpace /\ Matches(sel(part)) \cap seen = part.members
  BY <1>5, <1>6 DEF Matches
<1>8. Known(C)
  BY <1>2, <1>7 DEF Known
<1>9. seen \cap UNION {Matches(s) : s \in C} = UNION {p.members : p \in P}
  <2>1. UNION {Matches(s) : s \in C} = UNION {Matches(sel(part)) : part \in Parts(kind, P)}
    BY <1>2
  <2>2. seen \cap UNION {Matches(sel(part)) : part \in Parts(kind, P)}
          = UNION {part.members : part \in Parts(kind, P)}
    BY <1>7
  <2>3. QED BY <1>3, <2>1, <2>2
<1>10. ASSUME NEW s \in C, NEW t \in C, s # t PROVE Matches(s) \cap Matches(t) \cap seen = {}
  <2>1. PICK x \in Parts(kind, P), y \in Parts(kind, P) : s = sel(x) /\ t = sel(y)
    BY <1>2
  <2>2. x.members \cap y.members = {}
    BY <1>3, <1>10, <2>1
  <2>3. Matches(s) \cap seen = x.members /\ Matches(t) \cap seen = y.members
    BY <1>7, <2>1
  <2>4. QED BY <2>2, <2>3
<1>11. QED BY <1>1, <1>8, <1>9, <1>10 DEF Selects, Partition, C

\* The direct selector of a proposal selects what the proposal is about.
LEMMA DirectSelects ==
    ASSUME NEW b, BatchShape(b), NEW p \in b.proposals
    PROVE  Selects({p.selector}, {p}, b.seen)
<1>1. Exact(p.selector, p.members, b.seen)
  BY DEF BatchShape
<1>2. UNION {Matches(s) : s \in {p.selector}} = Matches(p.selector) /\ UNION {q.members : q \in {p}} = p.members
  OBVIOUS
<1>3. QED BY <1>1, <1>2 DEF Selects, Partition, Exact, Known

-----------------------------------------------------------------------------
(* Steps without a decision *)

\* Batches keep what they are about.
BatchesKept ==
    /\ DOMAIN batches \subseteq DOMAIN batches'
    /\ \A i \in DOMAIN batches :
         /\ batches'[i].draft = batches[i].draft /\ batches'[i].revision = batches[i].revision
         /\ batches'[i].seen = batches[i].seen /\ batches'[i].source = batches[i].source
         /\ batches'[i].proposals = batches[i].proposals

\* Drafts keep their declarations, or move on without a decision.
DraftsKept ==
    /\ Drafts \subseteq Drafts'
    /\ \A d \in Drafts :
         /\ drafts'[d].manifest.global = drafts[d].manifest.global
         /\ drafts'[d].manifest.local = drafts[d].manifest.local
         /\ drafts'[d].revision \in Nat /\ drafts'[d].revision >= drafts[d].revision

LEMMA BatchShapeStays ==
    ASSUME IInv, Shapes, BatchesKept, NEW i \in DOMAIN batches,
           \A d \in Drafts : drafts'[d].revision \in Nat /\ drafts'[d].revision >= drafts[d].revision
    PROVE  BatchShape(batches[i])'
<1>1. BatchShape(batches[i])
  BY DEF Shapes
<1>2. batches[i].draft \in Drafts
  BY DEF IInv, BatchesOK, BatchOK
<1>3. drafts[batches[i].draft].revision \in Nat
  BY <1>2 DEF IInv, DraftsOK, DraftOK
<1>4. /\ batches'[i].draft = batches[i].draft /\ batches'[i].revision = batches[i].revision
      /\ batches'[i].seen = batches[i].seen /\ batches'[i].source = batches[i].source
      /\ batches'[i].proposals = batches[i].proposals
  BY DEF BatchesKept
<1>5. batches'[i].revision \in Nat /\ batches'[i].revision <= drafts'[batches'[i].draft].revision
  BY <1>1, <1>2, <1>3, <1>4 DEF BatchShape
<1>6. QED BY <1>1, <1>4, <1>5 DEF BatchShape

LEMMA DecisionShapeStays ==
    ASSUME BatchesKept, NEW e, DecisionShape(e)
    PROVE  DecisionShape(e)'
<1>1. e.batch \in DOMAIN batches
  BY DEF DecisionShape
<1>2. /\ e.batch \in DOMAIN batches' /\ batches'[e.batch].draft = batches[e.batch].draft
      /\ batches'[e.batch].source = batches[e.batch].source
  BY <1>1 DEF BatchesKept
<1>3. QED BY <1>2 DEF DecisionShape

LEMMA PreviewShapeStays ==
    ASSUME IInv, BatchesKept, NEW p \in previews, PreviewShape(p)
    PROVE  PreviewShape(p)'
<1>1. p.batch \in DOMAIN batches
  BY DEF IInv, BatchesOK
<1>2. batches'[p.batch].seen = batches[p.batch].seen
  BY <1>1 DEF BatchesKept
<1>3. QED BY <1>2 DEF PreviewShape

LEMMA AddUpStays ==
    ASSUME IInv, IInv', AddUpInv, BatchesKept, DraftsKept,
           Range(decisions) \subseteq Range(decisions'),
           \A e \in Range(decisions') \ Range(decisions) : e.applied = 0,
           \A i \in DOMAIN batches' \ DOMAIN batches : BatchShape(batches[i])' /\ BatchTrace(i)',
           \A p \in previews' \ previews : PreviewShape(p)'
    PROVE  AddUpInv'
<1>1. \A e \in Range(decisions') : e.applied > 0 => e \in Range(decisions)
  OBVIOUS
<1>2. Shapes'
  <2>1. \A i \in DOMAIN batches' : BatchShape(batches[i])'
    BY BatchShapeStays DEF AddUpInv, DraftsKept
  <2>2. \A p \in previews' : PreviewShape(p)'
    BY PreviewShapeStays DEF AddUpInv, Shapes
  <2>3. \A e \in Range(decisions') : e.applied > 0 => DecisionShape(e)'
    BY <1>1, DecisionShapeStays DEF AddUpInv, Shapes
  <2>4. QED BY <2>1, <2>2, <2>3 DEF Shapes
<1>3. AppliedOnce'
  <2>1. ASSUME NEW e \in Range(decisions'), NEW f \in Range(decisions'),
               e.applied > 0, f.applied = e.applied, e.draft = f.draft
        PROVE  e = f
    <3>1. e \in Range(decisions) /\ f \in Range(decisions)
      BY <1>1, <2>1
    <3>2. QED BY <2>1, <3>1 DEF AddUpInv, AppliedOnce
  <2>2. QED BY <2>1 DEF AppliedOnce
<1>4. \A i : OfBatch(i)' = OfBatch(i)
  BY <1>1 DEF OfBatch
<1>5. BatchTraces'
  <2>1. ASSUME NEW i \in DOMAIN batches PROVE BatchTrace(i)'
    <3>1. PICK b, x, y : b = batches[i] /\ x = drafts[b.draft] /\ y = drafts'[b.draft]
      OBVIOUS
    <3>2. BatchTrace(i) /\ BatchShape(b)
      BY <3>1 DEF AddUpInv, BatchTraces, Shapes
    <3>3. b.draft \in Drafts
      BY <3>1 DEF IInv, BatchesOK, BatchOK
    <3>4. x.revision \in Nat /\ b.revision \in Nat /\ b.revision <= x.revision
      BY <3>1, <3>2, <3>3 DEF IInv, DraftsOK, DraftOK, BatchShape
    <3>5. /\ y.manifest.global = x.manifest.global /\ y.manifest.local = x.manifest.local
          /\ y.revision \in Nat /\ y.revision >= x.revision
      BY <3>1, <3>3 DEF DraftsKept
    <3>6. /\ batches'[i].draft = b.draft /\ batches'[i].revision = b.revision
          /\ batches'[i].source = b.source /\ drafts'[batches'[i].draft] = y
      BY <3>1 DEF BatchesKept
    <3>7. ASSUME {e.applied : e \in OfBatch(i)} = b.revision + 1 .. y.revision
          PROVE  y.revision = x.revision
      <4>1. SUFFICES ASSUME y.revision > x.revision PROVE FALSE
        BY <3>4, <3>5
      <4>2. y.revision \in b.revision + 1 .. y.revision
        BY <3>4, <3>5, <4>1
      <4>3. PICK e \in OfBatch(i) : e.applied = y.revision
        BY <3>7, <4>2
      <4>4. e \in Range(decisions) /\ e.applied > 0 /\ e.batch = i
        BY DEF OfBatch
      <4>5. e.draft = b.draft
        BY <3>1, <4>4 DEF AddUpInv, Shapes, DecisionShape
      <4>6. e.applied <= x.revision
        BY <3>1, <4>4, <4>5 DEF IInv, DecisionsOK
      <4>7. QED BY <3>4, <3>5, <4>1, <4>3, <4>6
    <3>8. \A r \in Roles : Resolved(y.manifest, r) = Resolved(x.manifest, r)
      BY <3>5, ResolvedBy
    <3>9. {e.applied : e \in OfBatch(i)} = b.revision + 1 .. y.revision =>
            \A r \in Roles : (\A e \in OfBatch(i) : e.role # r) => Resolved(y.manifest, r) = b.source[r]
      BY <3>1, <3>2, <3>7, <3>8 DEF BatchTrace
    <3>10. QED BY <1>4, <3>6, <3>9 DEF BatchTrace, Resolved
  <2>2. QED BY <2>1 DEF BatchTraces
<1>6. Sums'
  <2>1. ASSUME NEW f \in Range(decisions'), f.applied > 0 PROVE AddsUp(f)' /\ Kept(f)'
    <3>1. f \in Range(decisions) /\ AddsUp(f) /\ Kept(f) /\ DecisionShape(f)
      BY <1>1, <2>1 DEF AddUpInv, Sums, Shapes
    <3>2. batches'[f.batch].seen = batches[f.batch].seen
      BY <3>1 DEF DecisionShape, BatchesKept
    <3>3. AlikeUntil(f)' = AlikeUntil(f)
      BY DEF AlikeUntil
    <3>4. Earlier(f)' = Earlier(f)
      BY <3>3 DEF Earlier, Replaced
    <3>5. AddsUp(f)'
      BY <3>1, <3>2, <3>4 DEF AddsUp
    <3>6. Kept(f)'
      <4>1. f.draft \in Drafts
        BY <2>1, <3>1 DEF IInv, DecisionsOK
      <4>2. drafts'[f.draft].manifest.local = drafts[f.draft].manifest.local
        BY <4>1 DEF DraftsKept
      <4>3. QED BY <3>1, <4>2 DEF Kept
    <3>7. QED BY <3>5, <3>6
  <2>2. QED BY <2>1 DEF Sums
<1>7. QED BY <1>2, <1>3, <1>5, <1>6 DEF AddUpInv

\* The batches stay.
LEMMA BatchesSame ==
    ASSUME UNCHANGED batches
    PROVE  BatchesKept
BY DEF BatchesKept

LEMMA ProposalsAddUp ==
    ASSUME IInv, IInv', AddUpInv, GetProposals
    PROVE  AddUpInv'
<1>1. PICK d \in Drafts, seen \in Sights :
        \E t : /\ t = [i \in DOMAIN batches |->
                         IF batches[i].draft = d /\ batches[i].revision = BatchOf(d, seen).revision
                         THEN [batches[i] EXCEPT !.live = FALSE] ELSE batches[i]]
               /\ batches' = Append(t, BatchOf(d, seen))
  BY DEF GetProposals
<1>2. PICK t : /\ t = [i \in DOMAIN batches |->
                         IF batches[i].draft = d /\ batches[i].revision = BatchOf(d, seen).revision
                         THEN [batches[i] EXCEPT !.live = FALSE] ELSE batches[i]]
               /\ batches' = Append(t, BatchOf(d, seen))
  BY <1>1
<1>3. UNCHANGED <<drafts, previews, decisions>>
  BY DEF GetProposals
<1>4. IsSequence(batches) /\ \A i \in DOMAIN batches : BatchOK(batches[i])
  BY DEF IInv, BatchesOK
<1>5. IsSequence(t) /\ DOMAIN t = DOMAIN batches
  <2>1. t = [i \in DOMAIN batches |-> t[i]]
    BY <1>2
  <2>2. QED BY <1>4, <2>1, UpdateFacts
<1>6. PICK b, n : b = BatchOf(d, seen) /\ n = Len(t) + 1
  OBVIOUS
<1>7. /\ DOMAIN batches' = DOMAIN batches \cup {n} /\ n \notin DOMAIN batches
      /\ batches'[n] = b /\ \A i \in DOMAIN batches : batches'[i] = t[i]
  <2>1. batches' = Append(t, b)
    BY <1>2, <1>6
  <2>2. /\ DOMAIN batches' = DOMAIN t \cup {Len(t) + 1} /\ Len(t) + 1 \notin DOMAIN t
        /\ batches'[Len(t) + 1] = b /\ \A i \in DOMAIN t : batches'[i] = t[i]
    BY <1>5, <2>1, AppendFacts
  <2>3. QED BY <1>5, <1>6, <2>2
<1>8. BatchesKept
  <2>1. ASSUME NEW i \in DOMAIN batches
        PROVE  /\ t[i].draft = batches[i].draft /\ t[i].revision = batches[i].revision
               /\ t[i].seen = batches[i].seen /\ t[i].source = batches[i].source
               /\ t[i].proposals = batches[i].proposals
    <3>1. batches[i] = [draft |-> batches[i].draft, revision |-> batches[i].revision,
                        seen |-> batches[i].seen, source |-> batches[i].source,
                        proposals |-> batches[i].proposals, live |-> batches[i].live]
      BY <1>4 DEF BatchOK
    <3>2. t[i] \in {batches[i], [batches[i] EXCEPT !.live = FALSE]}
      BY <1>2
    <3>3. QED BY <3>1, <3>2
  <2>2. QED BY <1>7, <2>1 DEF BatchesKept
<1>9. DraftsKept
  BY <1>3 DEF DraftsKept, Drafts, IInv, DraftsOK, DraftOK
<1>10. BatchShape(batches[n])'
  <2>1. BatchShape(b)
    BY <1>6, BatchOfShape DEF AddUpInv
  <2>2. QED BY <1>3, <1>7, <2>1 DEF BatchShape
<1>11. BatchTrace(n)'
  <2>1. b.draft = d /\ b.source = Effective(drafts[d].manifest)
    BY <1>6 DEF BatchOf
  <2>2. \A r \in Roles : b.source[r] = Resolved(drafts[d].manifest, r)
    BY <2>1 DEF Effective
  <2>3. \A r \in Roles : batches'[n].source[r] = Resolved(drafts[batches[n].draft].manifest, r)'
    BY <1>3, <1>7, <2>1, <2>2 DEF Resolved
  <2>4. QED BY <2>3 DEF BatchTrace
<1>12. QED BY <1>3, <1>7, <1>8, <1>9, <1>10, <1>11, AddUpStays

LEMMA PreviewAddUp ==
    ASSUME IInv, IInv', AddUpInv, Preview
    PROVE  AddUpInv'
<1>1. UNCHANGED <<drafts, batches, decisions>>
  BY DEF Preview
<1>2. PICK i \in DOMAIN batches, kind \in {"split", "merge"} :
        \E P \in SUBSET batches[i].proposals : \E r :
          /\ r = (CHOOSE p \in P : TRUE).role /\ Previewable(kind, P)
          /\ GuardedNarrower(batches[i].source[r], CandidateSelectors(kind, i, P, batches[i].source[r]))
          /\ previews' = previews \cup
               {[batch |-> i, kind |-> kind, proposals |-> P, role |-> r,
                 selectors |-> CandidateSelectors(kind, i, P, batches[i].source[r])]}
  BY DEF Preview
<1>3. PICK P \in SUBSET batches[i].proposals : \E r :
          /\ r = (CHOOSE p \in P : TRUE).role /\ Previewable(kind, P)
          /\ GuardedNarrower(batches[i].source[r], CandidateSelectors(kind, i, P, batches[i].source[r]))
          /\ previews' = previews \cup
               {[batch |-> i, kind |-> kind, proposals |-> P, role |-> r,
                 selectors |-> CandidateSelectors(kind, i, P, batches[i].source[r])]}
  BY <1>2
<1>4. PICK r :
          /\ r = (CHOOSE p \in P : TRUE).role /\ Previewable(kind, P)
          /\ GuardedNarrower(batches[i].source[r], CandidateSelectors(kind, i, P, batches[i].source[r]))
          /\ previews' = previews \cup
               {[batch |-> i, kind |-> kind, proposals |-> P, role |-> r,
                 selectors |-> CandidateSelectors(kind, i, P, batches[i].source[r])]}
  BY <1>3
<1>5. BatchShape(batches[i])
  BY DEF AddUpInv, Shapes
<1>6. \A p \in P : p.role \in Roles
  BY <1>5 DEF BatchShape
<1>7. Cardinality({p.role : p \in P}) = 1
  BY <1>4 DEF Previewable
<1>8. r \in Roles /\ \A p, q \in P : p.role = q.role
  BY <1>4, <1>6, <1>7, OneRole
<1>9. PICK source, C : source = batches[i].source[r] /\ C = CandidateSelectors(kind, i, P, source)
  OBVIOUS
<1>10. Known(source)
  BY <1>5, <1>8, <1>9 DEF BatchShape
<1>11. C # {}
  BY <1>4, <1>9 DEF GuardedNarrower
<1>12. Selects(C, P, batches[i].seen)
  BY <1>5, <1>8, <1>9, <1>10, <1>11, CandidateSelects
<1>13. ASSUME NEW p \in previews' \ previews PROVE PreviewShape(p)'
  <2>1. p = [batch |-> i, kind |-> kind, proposals |-> P, role |-> r, selectors |-> C]
    BY <1>4, <1>9
  <2>2. p.batch = i /\ p.proposals = P /\ p.selectors = C
    BY <2>1
  <2>3. QED BY <1>1, <1>12, <2>2 DEF PreviewShape
<1>14. DraftsKept
  BY <1>1 DEF DraftsKept, Drafts, IInv, DraftsOK, DraftOK
<1>15. QED BY <1>1, <1>13, <1>14, BatchesSame, AddUpStays

LEMMA RejectAddUp ==
    ASSUME IInv, IInv', AddUpInv, Reject
    PROVE  AddUpInv'
<1>1. PICK i, P : decisions' = Append(decisions, Decision("reject", i, P, NoRole, {}, {}, 0))
  BY DEF Reject
<1>2. PICK c : c = Decision("reject", i, P, NoRole, {}, {}, 0)
  OBVIOUS
<1>3. c.applied = 0
  BY <1>2 DEF Decision
<1>4. decisions' = Append(decisions, c) /\ IsSequence(decisions)
  BY <1>1, <1>2 DEF IInv, DecisionsOK
<1>5. Range(decisions') = Range(decisions) \cup {c}
  BY <1>4, AppendFacts
<1>6. UNCHANGED <<drafts, batches, previews>>
  BY DEF Reject
<1>7. DraftsKept
  BY <1>6 DEF DraftsKept, Drafts, IInv, DraftsOK, DraftOK
<1>8. QED BY <1>3, <1>5, <1>6, <1>7, BatchesSame, AddUpStays

\* Drafts are created, replaced and published.
LEMMA DraftsAddUp ==
    ASSUME IInv, IInv', AddUpInv, DraftsKept, UNCHANGED <<batches, previews, decisions>>
    PROVE  AddUpInv'
BY BatchesSame, AddUpStays

LEMMA SameKeeps ==
    ASSUME IInv, Drafts \subseteq Drafts', \A d \in Drafts : drafts'[d] = drafts[d]
    PROVE  DraftsKept
<1>1. \A d \in Drafts : drafts[d].revision \in Nat
  BY DEF IInv, DraftsOK, DraftOK
<1>2. QED BY <1>1 DEF DraftsKept

LEMMA CreationKeeps ==
    ASSUME IInv, NEW x, drafts' = Append(drafts, x)
    PROVE  DraftsKept
<1>1. Drafts \subseteq Drafts' /\ \A d \in Drafts : drafts'[d] = drafts[d]
  BY AppendFacts DEF IInv, DraftsOK, Drafts
<1>2. QED BY <1>1, SameKeeps

LEMMA ReplaceKeeps ==
    ASSUME IInv, ReplaceDraft
    PROVE  DraftsKept
<1>1. PICK d \in Drafts : \E m :
        Provenance(m) = Provenance(drafts[d].manifest) /\ drafts' = Put(d, m)
  BY DEF ReplaceDraft
<1>2. PICK m : Provenance(m) = Provenance(drafts[d].manifest) /\ drafts' = Put(d, m)
  BY <1>1
<1>3. PICK x : PutDraft(d, m, x)
  BY <1>2, PutFacts
<1>4. drafts' = [e \in Drafts |-> IF e = d THEN x ELSE drafts[e]] /\ x.manifest = m
  BY <1>3 DEF PutDraft
<1>5. m.global = drafts[d].manifest.global /\ m.local = drafts[d].manifest.local
  BY <1>2 DEF Provenance
<1>6. decisions' = decisions
  BY DEF ReplaceDraft
<1>7. /\ Drafts' = Drafts
      /\ \A e \in Drafts : drafts'[e].revision \in Nat /\ drafts'[e].revision >= drafts[e].revision
  BY <1>2, <1>6, PutGrows
<1>8. QED BY <1>4, <1>5, <1>7 DEF DraftsKept

LEMMA PublishKeeps ==
    ASSUME IInv, PublishDraft
    PROVE  DraftsKept
<1>1. PICK d \in Drafts : drafts' = [drafts EXCEPT ![d].state = "published"]
  BY DEF PublishDraft
<1>2. IsSequence(drafts) /\ \A e \in Drafts : DraftOK(drafts[e])
  BY DEF IInv, DraftsOK
<1>3. drafts[d] = [version |-> drafts[d].version, previous |-> drafts[d].previous,
                   source |-> drafts[d].source, state |-> drafts[d].state,
                   revision |-> drafts[d].revision, manifest |-> drafts[d].manifest,
                   baseline |-> drafts[d].baseline]
  BY <1>2 DEF DraftOK
<1>4. PICK x : x = [drafts[d] EXCEPT !.state = "published"]
  OBVIOUS
<1>5. x.revision = drafts[d].revision /\ x.manifest = drafts[d].manifest
  BY <1>3, <1>4
<1>6. drafts = [e \in Drafts |-> drafts[e]]
  BY <1>2 DEF IsSequence, Drafts
<1>7. drafts' = [e \in Drafts |-> IF e = d THEN x ELSE drafts[e]]
  BY <1>1, <1>4, <1>6
<1>8. \A e \in Drafts : drafts'[e].revision = drafts[e].revision /\ drafts'[e].manifest = drafts[e].manifest
  BY <1>5, <1>7
<1>9. Drafts' = Drafts /\ \A e \in Drafts : drafts[e].revision \in Nat
  BY <1>2, <1>7 DEF Drafts, DraftOK
<1>10. QED BY <1>8, <1>9 DEF DraftsKept

-----------------------------------------------------------------------------
(* A decision *)

\* The decision c about role r of draft d applies the candidate C for the proposals P.
Applies(i, P, C, c, d, r) ==
    /\ d = batches[i].draft /\ d \in Drafts /\ r \in Roles /\ \A p \in P : p.role = r
    /\ c.batch = i /\ c.draft = d /\ c.role = r /\ c.source = batches[i].source[r]
    /\ c.covers = Authorities(i, P) /\ c.applied = drafts[d].revision + 1
    /\ drafts[d].manifest.local[r] # {} =>
         Resolved(drafts[d].manifest, r) = drafts[d].manifest.local[r]
    /\ c.result = AppliedRole(c.source, Resolved(drafts[d].manifest, r), C)
    /\ {e.applied : e \in OfBatch(i)} = batches[i].revision + 1 .. drafts[d].revision
    /\ \A e \in Range(decisions) : e.covers \cap c.covers = {}
    /\ Range(decisions') = Range(decisions) \cup {c}
    /\ UNCHANGED <<batches, previews>> /\ Drafts' = Drafts
    /\ \A e \in Drafts : e # d => drafts'[e] = drafts[e]
    /\ drafts'[d].revision = drafts[d].revision + 1
    /\ drafts'[d].manifest.global = drafts[d].manifest.global
    /\ \A q \in Roles :
         drafts'[d].manifest.local[q] = IF q = r THEN c.result ELSE drafts[d].manifest.local[q]

LEMMA ApplyFacts ==
    ASSUME IInv, Shapes, NEW kind, NEW i \in DOMAIN batches, NEW P, NEW candidate,
           Apply(kind, i, P, candidate)
    PROVE  \E c, d, r : Applies(i, P, candidate, c, d, r)
<1> DEFINE draft == batches[i].draft
           x == drafts[draft]
           role == (CHOOSE p \in P : TRUE).role
           source == batches[i].source[role]
           current == IF x.manifest.local[role] = {} THEN source ELSE x.manifest.local[role]
           applied == AppliedRole(source, current, candidate)
           manifest == [x.manifest EXCEPT !.local[role] = applied]
           decision == Decision(kind, i, P, role, candidate, applied, x.revision + 1)
<1>1. /\ Decidable(i, P) /\ Cardinality({p.role : p \in P}) = 1
      /\ Resolved(x.manifest, role) = current
      /\ drafts' = Put(draft, manifest)
      /\ decisions' = Append(decisions, decision) /\ UNCHANGED <<batches, previews>>
  BY Zenon DEF Apply
<1>2. role \in Roles /\ \A p \in P : p.role = role
  <2>1. P \subseteq batches[i].proposals
    BY <1>1 DEF Decidable
  <2>2. \A p \in P : p.role \in Roles
    BY <2>1 DEF Shapes, BatchShape
  <2>3. QED BY <1>1, <2>2, OneRole
<1>3. role # NoRole
  BY <1>2, RoleAssumption
<1> HIDE DEF role
<1>4. PICK d, r, result, o, m, c :
        /\ d = draft /\ r = role /\ result = applied /\ o = drafts[draft].manifest
        /\ m = manifest /\ c = decision
  OBVIOUS
<1>5. /\ c.batch = i /\ c.draft = d /\ c.role = r /\ c.source = batches[i].source[r]
      /\ c.covers = Authorities(i, P) /\ c.applied = drafts[d].revision + 1 /\ c.result = result
  BY <1>3, <1>4 DEF Decision
<1>6. /\ Resolved(o, r) = (IF o.local[r] = {} THEN c.source ELSE o.local[r])
      /\ result = AppliedRole(c.source, Resolved(o, r), candidate)
  BY <1>1, <1>4, <1>5
<1>7. /\ Decidable(i, P) /\ drafts' = Put(d, m) /\ decisions' = Append(decisions, c)
      /\ UNCHANGED <<batches, previews>>
  <2> HIDE DEF draft, manifest, decision
  <2>1. QED BY <1>1, <1>4
<1>8. m = [o EXCEPT !.local[r] = result] /\ o = drafts[d].manifest /\ d = batches[i].draft
      /\ r \in Roles /\ \A p \in P : p.role = r
  BY <1>2, <1>4
<1> HIDE DEF draft, x, source, current, applied, manifest, decision
<1>9. d \in Drafts /\ DraftOK(drafts[d])
  BY <1>8 DEF IInv, BatchesOK, BatchOK, DraftsOK
<1>10. PICK y : PutDraft(d, m, y)
  BY <1>7, <1>9, PutFacts
<1>11. /\ drafts' = [e \in Drafts |-> IF e = d THEN y ELSE drafts[e]]
       /\ y.manifest = m /\ y.revision = drafts[d].revision + 1
  BY <1>10 DEF PutDraft
<1>12. Drafts' = Drafts /\ drafts'[d] = y /\ \A e \in Drafts : e # d => drafts'[e] = drafts[e]
  BY <1>9, <1>11 DEF Drafts
<1>13. /\ m.global = o.global
       /\ \A q \in Roles : m.local[q] = IF q = r THEN result ELSE o.local[q]
  <2>1. Shaped(o) /\ Origin(o)
    BY <1>8, <1>9 DEF DraftOK
  <2>2. m.global = o.global /\ m.local = [q \in Roles |-> IF q = r THEN result ELSE o.local[q]]
    BY <1>8, <2>1, Redeclared DEF Origin
  <2>3. QED BY <2>2
<1>14. Range(decisions') = Range(decisions) \cup {c}
  BY <1>7, AppendFacts DEF IInv, DecisionsOK
<1>15. \A e \in Range(decisions) : e.covers \cap c.covers = {}
  BY <1>5, <1>7 DEF Decidable, Overlaps
<1>16. {e.applied : e \in OfBatch(i)} = batches[i].revision + 1 .. drafts[d].revision
  BY <1>7, <1>8 DEF Decidable, CurrentDraft, OfBatch
<1>17. /\ drafts'[d].revision = drafts[d].revision + 1
       /\ drafts'[d].manifest.global = drafts[d].manifest.global
       /\ \A q \in Roles :
            drafts'[d].manifest.local[q] = IF q = r THEN c.result ELSE drafts[d].manifest.local[q]
  <2>1. drafts'[d].manifest = m /\ drafts'[d].revision = drafts[d].revision + 1
    BY <1>11, <1>12
  <2>2. /\ drafts'[d].manifest.global = m.global
        /\ \A q \in Roles : drafts'[d].manifest.local[q] = m.local[q]
    BY <2>1
  <2>3. QED BY <1>5, <1>8, <1>13, <2>1, <2>2
<1>18. /\ drafts[d].manifest.local[r] # {} =>
             Resolved(drafts[d].manifest, r) = drafts[d].manifest.local[r]
       /\ c.result = AppliedRole(c.source, Resolved(drafts[d].manifest, r), candidate)
  BY <1>5, <1>6, <1>8
<1>19. Applies(i, P, candidate, c, d, r)
  BY <1>5, <1>7, <1>8, <1>9, <1>12, <1>14, <1>15, <1>16, <1>17, <1>18, Zenon DEF Applies
<1>20. QED BY <1>19

\* What a decision covers.
LEMMA CoversAre ==
    ASSUME NEW i, NEW P, NEW r, \A p \in P : p.role = r
    PROVE  /\ MembersOf(Authorities(i, P)) = UNION {p.members : p \in P}
           /\ \A z \in Authorities(i, P) :
                z = [role |-> r, selectors |-> batches[i].source[r], member |-> z.member]
<1> DEFINE A(m) == [role |-> r, selectors |-> batches[i].source[r], member |-> m]
<1>1. Authorities(i, P) = UNION {{A(m) : m \in p.members} : p \in P}
  <2>1. ASSUME NEW p \in P, NEW m
        PROVE  [role |-> p.role, selectors |-> batches[i].source[p.role], member |-> m] = A(m)
    OBVIOUS
  <2>2. QED BY <2>1 DEF Authorities
<1>2. \A m : A(m).member = m
  OBVIOUS
<1> HIDE DEF A
<1>3. \A z \in Authorities(i, P) : \E p \in P : \E m \in p.members : z = A(m)
  BY <1>1
<1>4. \A p \in P : \A m \in p.members : A(m) \in Authorities(i, P)
  BY <1>1
<1>5. MembersOf(Authorities(i, P)) = UNION {p.members : p \in P}
  <2>1. ASSUME NEW z \in Authorities(i, P) PROVE \E p \in P : z.member \in p.members
    BY <1>2, <1>3
  <2>2. ASSUME NEW p \in P, NEW m \in p.members PROVE \E z \in Authorities(i, P) : z.member = m
    BY <1>2, <1>4
  <2>3. QED BY <2>1, <2>2 DEF MembersOf
<1>6. ASSUME NEW z \in Authorities(i, P)
      PROVE  z = [role |-> r, selectors |-> batches[i].source[r], member |-> z.member]
  <2>1. PICK m : z = A(m)
    BY <1>3
  <2>2. QED BY <1>2, <2>1 DEF A
<1>7. QED BY <1>5, <1>6

\* Selectors of two sets of resources that share none.
LEMMA SelectsBoth ==
    ASSUME NEW A, NEW C, NEW X, NEW Y, NEW seen, X \cap Y = {},
           Partition(A, X, seen), Partition(C, Y, seen)
    PROVE  Partition(A \cup C, X \cup Y, seen)
<1>0. /\ seen \cap UNION {Matches(s) : s \in A} = X
      /\ seen \cap UNION {Matches(s) : s \in C} = Y
      /\ \A s, t \in A : s # t => Matches(s) \cap Matches(t) \cap seen = {}
      /\ \A s, t \in C : s # t => Matches(s) \cap Matches(t) \cap seen = {}
  BY DEF Partition
<1>1. \A s \in A : Matches(s) \cap seen \subseteq X
  BY <1>0
<1>2. \A s \in C : Matches(s) \cap seen \subseteq Y
  BY <1>0
<1>3. UNION {Matches(s) : s \in A \cup C}
        = (UNION {Matches(s) : s \in A}) \cup (UNION {Matches(s) : s \in C})
  OBVIOUS
<1>4. seen \cap UNION {Matches(s) : s \in A \cup C} = X \cup Y
  BY <1>0, <1>3
<1>5. ASSUME NEW s \in A \cup C, NEW t \in A \cup C, s # t
      PROVE  Matches(s) \cap Matches(t) \cap seen = {}
  <2>1. CASE s \in A /\ t \in A
    BY <1>0, <1>5, <2>1
  <2>2. CASE s \in C /\ t \in C
    BY <1>0, <1>5, <2>2
  <2>3. CASE s \in A /\ t \in C
    BY <1>1, <1>2, <2>3
  <2>4. CASE s \in C /\ t \in A
    BY <1>1, <1>2, <2>4
  <2>5. QED BY <2>1, <2>2, <2>3, <2>4
<1>6. QED BY <1>4, <1>5 DEF Partition

\* A decision is later than all others on its draft.
LEMMA AppliesLast ==
    ASSUME IInv, NEW i, NEW P, NEW C, NEW c, NEW d, NEW r, Applies(i, P, C, c, d, r)
    PROVE  /\ c.applied \in Nat /\ c.applied > 0 /\ drafts[d].revision \in Nat
           /\ \A e \in Range(decisions) :
                e.applied \in Nat /\ (e.draft = d => e.applied < c.applied /\ e.applied <= drafts[d].revision)
<1>1. d \in Drafts /\ c.applied = drafts[d].revision + 1
  BY DEF Applies
<1>2. drafts[d].revision \in Nat
  BY <1>1 DEF IInv, DraftsOK, DraftOK
<1>3. ASSUME NEW e \in Range(decisions)
      PROVE  e.applied \in Nat /\ (e.draft = d => e.applied <= drafts[d].revision)
  <2>1. e.applied \in Nat /\ (e.applied > 0 => e.applied <= drafts[e.draft].revision)
    BY DEF IInv, DecisionsOK
  <2>2. QED BY <1>2, <2>1
<1>4. QED BY <1>1, <1>2, <1>3

\* What a decision leaves adds up with what its batch has left before.
LEMMA NewAddsUp ==
    ASSUME IInv, AddUpInv, NEW i \in DOMAIN batches, NEW P, NEW C, NEW c, NEW d, NEW r,
           Applies(i, P, C, c, d, r), Selects(C, P, batches[i].seen)
    PROVE  AddsUp(c)'
<1> DEFINE G == {g \in Range(decisions) : g.batch = i /\ g.role = r /\ g.applied > 0}
<1>1. PICK seen : seen = batches[i].seen
  OBVIOUS
<1>2. /\ d = batches[i].draft /\ r \in Roles /\ \A p \in P : p.role = r
      /\ c.batch = i /\ c.draft = d /\ c.role = r /\ c.source = batches[i].source[r]
      /\ c.covers = Authorities(i, P)
      /\ c.result = AppliedRole(c.source, Resolved(drafts[d].manifest, r), C)
      /\ batches' = batches /\ Range(decisions') = Range(decisions) \cup {c}
  BY DEF Applies
<1>3. /\ c.applied \in Nat /\ c.applied > 0 /\ drafts[d].revision \in Nat
      /\ \A e \in Range(decisions) :
           e.applied \in Nat /\ (e.draft = d => e.applied < c.applied /\ e.applied <= drafts[d].revision)
  BY AppliesLast
<1>4. \A g \in G : g \in Range(decisions) /\ g.draft = d /\ g.source = c.source /\ DecisionShape(g)
  BY <1>2 DEF AddUpInv, Shapes, DecisionShape
<1>5. AlikeUntil(c)' = G \cup {c}
  <2>1. \A e \in Range(decisions) : e \in G => e.applied \in 1 .. c.applied
    BY <1>3, <1>4
  <2>2. c.applied \in 1 .. c.applied
    BY <1>3
  <2>3. QED BY <1>2, <1>3, <2>1, <2>2 DEF AlikeUntil
<1>6. MembersOf(c.covers) = UNION {p.members : p \in P}
  <2>1. \A p \in P : p.role = r
    BY <1>2
  <2>2. MembersOf(Authorities(i, P)) = UNION {p.members : p \in P}
    BY <2>1, CoversAre, Zenon
  <2>3. QED BY <1>2, <2>2
<1>7. ~ Replaced(c, c)'
  BY <1>3 DEF Replaced
<1>8. CASE c.result = C /\ Earlier(c)' = {c}
  <2>1. UNION {MembersOf(e.covers) : e \in {c}} = MembersOf(c.covers)
    OBVIOUS
  <2>2. Partition(C, UNION {MembersOf(e.covers) : e \in {c}}, seen)
    BY <1>1, <1>6, <2>1 DEF Selects
  <2>3. batches'[c.batch].seen = seen
    BY <1>1, <1>2
  <2>4. QED BY <1>8, <2>2, <2>3 DEF AddsUp
<1>9. CASE G = {}
  <2>1. \A e \in OfBatch(i) : e.role # r
    BY <1>9 DEF OfBatch
  <2>2. BatchTrace(i)
    BY DEF AddUpInv, BatchTraces
  <2>3. {e.applied : e \in OfBatch(i)} = batches[i].revision + 1 .. drafts[d].revision
    BY DEF Applies
  <2>4. Resolved(drafts[d].manifest, r) = c.source
    BY <1>2, <2>1, <2>2, <2>3 DEF BatchTrace
  <2>5. c.result = C
    BY <1>2, <2>4 DEF AppliedRole
  <2>6. Earlier(c)' = {c}
    BY <1>5, <1>7, <1>9 DEF Earlier
  <2>7. QED BY <1>8, <2>5, <2>6
<1>10. CASE G # {}
  <2>1. PICK g \in G : \A h \in G : h.applied <= g.applied
    <3> DEFINE S == {h.applied : h \in G}
               v == drafts[d].revision + 1
    <3>1. v \in Int /\ S # {} /\ S \in SUBSET (1 .. v - 1)
      BY <1>3, <1>4, <1>10
    <3>2. PICK n \in S : \A k \in S : k <= n
      <4> HIDE DEF S, v
      <4>1. QED BY <3>1, Greatest
    <3>3. QED BY <3>2
  <2>2. /\ g \in Range(decisions) /\ g.applied > 0 /\ g.draft = d /\ g.role = r /\ g.batch = i
        /\ g.source = c.source /\ DecisionShape(g) /\ AddsUp(g) /\ Kept(g)
    BY <1>4 DEF AddUpInv, Sums
  <2>3. ASSUME NEW e \in Range(decisions), e.draft = d, e.role = r PROVE e.applied <= g.applied
    <3>1. SUFFICES ASSUME e.applied > g.applied PROVE FALSE
      BY <1>3, <2>2
    <3>2. batches[i].revision \in Nat
      BY DEF AddUpInv, Shapes, BatchShape
    <3>3. {f.applied : f \in OfBatch(i)} = batches[i].revision + 1 .. drafts[d].revision
      BY DEF Applies
    <3>4. g \in OfBatch(i)
      BY <2>2 DEF OfBatch
    <3>5. g.applied \in batches[i].revision + 1 .. drafts[d].revision
      BY <3>3, <3>4
    <3>6. e.applied \in batches[i].revision + 1 .. drafts[d].revision
      BY <1>3, <2>3, <3>1, <3>2, <3>5
    <3>7. PICK h \in OfBatch(i) : h.applied = e.applied
      BY <3>3, <3>6
    <3>8. h \in Range(decisions) /\ h.applied > 0 /\ h.batch = i
      BY DEF OfBatch
    <3>9. h.draft = d
      BY <1>2, <3>8 DEF AddUpInv, Shapes, DecisionShape
    <3>10. h = e
      BY <2>3, <3>7, <3>8, <3>9 DEF AddUpInv, AppliedOnce
    <3>11. e \in G
      BY <2>3, <3>8, <3>10
    <3>12. QED BY <1>3, <2>1, <2>2, <3>1, <3>11
  <2>4. drafts[d].manifest.local[r] = g.result
    BY <2>2, <2>3 DEF Kept
  <2>5. Resolved(drafts[d].manifest, r) = g.result
    BY <2>2, <2>4 DEF Applies, DecisionShape
  <2>6. \A h \in G : h.applied \in Nat /\ h.applied <= c.applied - 1 /\ h.applied > 0
    BY <1>3, <1>4
  <2>7. CASE g.result = g.source
    <3>1. c.result = C
      BY <1>2, <2>2, <2>5, <2>7 DEF AppliedRole
    <3>2. \A e \in G : Replaced(e, c)'
      <4>1. SUFFICES ASSUME NEW e \in G PROVE Replaced(e, c)'
        OBVIOUS
      <4>2. g.applied \in e.applied .. c.applied - 1
        BY <1>3, <2>1, <2>6
      <4>3. QED BY <1>5, <2>7, <4>2 DEF Replaced
    <3>3. Earlier(c)' = {c}
      BY <1>5, <1>7, <3>2 DEF Earlier
    <3>4. QED BY <1>8, <3>1, <3>3
  <2>8. CASE g.result # g.source
    <3>1. c.result = g.result \cup C
      BY <1>2, <2>2, <2>5, <2>8 DEF AppliedRole
    <3>2. AlikeUntil(g) = G
      <4>1. \A h \in G : h.applied \in 1 .. g.applied
        BY <2>1, <2>6
      <4>2. QED BY <1>3, <2>2, <4>1 DEF AlikeUntil
    <3>3. ASSUME NEW e \in G PROVE Replaced(e, c)' <=> Replaced(e, g)
      <4>1. ASSUME NEW h \in G, h.result = h.source PROVE h.applied <= g.applied - 1
        <5>1. h # g
          BY <2>8, <4>1
        <5>2. h.applied # g.applied
          BY <1>4, <2>2, <5>1 DEF AddUpInv, AppliedOnce
        <5>3. QED BY <2>1, <2>6, <5>2
      <4>2. Replaced(e, c)' <=> \E h \in G : h.applied \in e.applied .. c.applied - 1 /\ h.result = h.source
        <5>1. c.applied \notin e.applied .. c.applied - 1
          BY <1>3
        <5>2. QED BY <1>5, <5>1 DEF Replaced
      <4>3. Replaced(e, g) <=> \E h \in G : h.applied \in e.applied .. g.applied - 1 /\ h.result = h.source
        BY <3>2 DEF Replaced
      <4>4. \A h \in G : h.result = h.source =>
              (h.applied \in e.applied .. c.applied - 1 <=> h.applied \in e.applied .. g.applied - 1)
        BY <1>3, <2>6, <4>1
      <4>5. QED BY <4>2, <4>3, <4>4
    <3>4. Earlier(c)' = Earlier(g) \cup {c}
      BY <1>5, <1>7, <3>2, <3>3 DEF Earlier
    <3>5. PICK X : X = UNION {MembersOf(e.covers) : e \in Earlier(g)}
      OBVIOUS
    <3>6. Partition(g.result, X, seen)
      BY <1>1, <2>2, <3>5 DEF AddsUp
    <3>7. ASSUME NEW k \in X, k \in MembersOf(c.covers) PROVE FALSE
      <4>1. PICK e \in Earlier(g) : k \in MembersOf(e.covers)
        BY <3>5
      <4>2. PICK y \in e.covers : y.member = k
        BY <4>1 DEF MembersOf
      <4>3. PICK z \in c.covers : z.member = k
        BY <3>7 DEF MembersOf
      <4>4. e \in G
        BY <3>2, <4>1 DEF Earlier
      <4>5. y = [role |-> r, selectors |-> c.source, member |-> k]
        BY <1>4, <4>2, <4>4 DEF DecisionShape
      <4>6. z = [role |-> r, selectors |-> c.source, member |-> k]
        BY <1>2, <4>3, CoversAre
      <4>7. e.covers \cap c.covers = {}
        BY <4>4 DEF Applies
      <4>8. QED BY <4>2, <4>3, <4>5, <4>6, <4>7
    <3>8. X \cap MembersOf(c.covers) = {}
      BY <3>7
    <3>9. Partition(C, MembersOf(c.covers), seen)
      BY <1>1, <1>6 DEF Selects
    <3>10. UNION {MembersOf(e.covers) : e \in Earlier(g) \cup {c}} = X \cup MembersOf(c.covers)
      BY <3>5
    <3>11. Partition(g.result \cup C, X \cup MembersOf(c.covers), seen)
      BY <3>6, <3>8, <3>9, SelectsBoth
    <3>12. batches'[c.batch].seen = seen
      BY <1>1, <1>2
    <3>13. QED BY <3>1, <3>4, <3>10, <3>11, <3>12 DEF AddsUp
  <2>9. QED BY <2>7, <2>8
<1>11. QED BY <1>9, <1>10

LEMMA ApplyAddUp ==
    ASSUME IInv, IInv', AddUpInv, NEW i \in DOMAIN batches, NEW P, NEW C, NEW kind,
           Selects(C, P, batches[i].seen), Apply(kind, i, P, C)
    PROVE  AddUpInv'
<1>1. PICK c, d, r : Applies(i, P, C, c, d, r)
  BY ApplyFacts DEF AddUpInv
<1>2. /\ d = batches[i].draft /\ d \in Drafts /\ r \in Roles /\ \A p \in P : p.role = r
      /\ c.batch = i /\ c.draft = d /\ c.role = r /\ c.source = batches[i].source[r]
      /\ c.covers = Authorities(i, P) /\ c.applied = drafts[d].revision + 1
      /\ c.result = AppliedRole(c.source, Resolved(drafts[d].manifest, r), C)
      /\ batches' = batches /\ previews' = previews /\ Drafts' = Drafts
      /\ Range(decisions') = Range(decisions) \cup {c}
      /\ \A e \in Drafts : e # d => drafts'[e] = drafts[e]
      /\ drafts'[d].revision = drafts[d].revision + 1
      /\ drafts'[d].manifest.global = drafts[d].manifest.global
      /\ \A q \in Roles :
           drafts'[d].manifest.local[q] = IF q = r THEN c.result ELSE drafts[d].manifest.local[q]
  BY <1>1 DEF Applies
<1>3. /\ c.applied \in Nat /\ c.applied > 0 /\ drafts[d].revision \in Nat
      /\ \A e \in Range(decisions) :
           e.applied \in Nat /\ (e.draft = d => e.applied < c.applied /\ e.applied <= drafts[d].revision)
  BY <1>1, AppliesLast
<1>4. AddsUp(c)'
  BY <1>1, NewAddsUp
<1>5. BatchesKept
  BY <1>2, BatchesSame
<1>6. \A e \in Drafts : drafts'[e].revision \in Nat /\ drafts'[e].revision >= drafts[e].revision
  <2>1. \A e \in Drafts : drafts[e].revision \in Nat
    BY DEF IInv, DraftsOK, DraftOK
  <2>2. QED BY <1>2, <2>1
<1>7. DecisionShape(c)
  <2>1. c.result # {} /\ Known(c.result)
    <3>1. C # {} /\ Known(C)
      BY DEF Selects
    <3>2. Known(Resolved(drafts[d].manifest, r))
      BY <1>2, ManifestsKnown DEF AddUpInv
    <3>3. c.result = C \/ c.result = Resolved(drafts[d].manifest, r) \cup C
      BY <1>2 DEF AppliedRole
    <3>4. QED BY <3>1, <3>2, <3>3 DEF Known
  <2>2. \A z \in c.covers : z = [role |-> r, selectors |-> c.source, member |-> z.member]
    <3>1. \A p \in P : p.role = r
      BY <1>2
    <3>2. \A z \in Authorities(i, P) :
            z = [role |-> r, selectors |-> batches[i].source[r], member |-> z.member]
      BY <3>1, CoversAre, Zenon
    <3>3. QED BY <1>2, <3>2
  <2>3. QED BY <1>2, <2>1, <2>2 DEF DecisionShape
<1>8. Shapes'
  <2>1. \A j \in DOMAIN batches' : BatchShape(batches[j])'
    BY <1>2, <1>5, <1>6, BatchShapeStays DEF AddUpInv
  <2>2. \A p \in previews' : PreviewShape(p)'
    BY <1>2, <1>5, PreviewShapeStays DEF AddUpInv, Shapes
  <2>3. \A e \in Range(decisions') : e.applied > 0 => DecisionShape(e)'
    BY <1>2, <1>5, <1>7, DecisionShapeStays DEF AddUpInv, Shapes
  <2>4. QED BY <2>1, <2>2, <2>3 DEF Shapes
<1>9. AppliedOnce'
  <2>1. ASSUME NEW e \in Range(decisions'), NEW f \in Range(decisions'),
               e.applied > 0, f.applied = e.applied, e.draft = f.draft
        PROVE  e = f
    <3>1. CASE e \in Range(decisions) /\ f \in Range(decisions)
      BY <2>1, <3>1 DEF AddUpInv, AppliedOnce
    <3>2. CASE e = c /\ f \in Range(decisions)
      BY <1>2, <1>3, <2>1, <3>2
    <3>3. CASE e \in Range(decisions) /\ f = c
      BY <1>2, <1>3, <2>1, <3>3
    <3>4. QED BY <1>2, <3>1, <3>2, <3>3
  <2>2. QED BY <2>1 DEF AppliedOnce
<1>10. BatchTraces'
  <2>1. ASSUME NEW j \in DOMAIN batches PROVE BatchTrace(j)'
    <3>1. PICK b : b = batches[j] /\ b = batches'[j]
      BY <1>2
    <3>2. BatchTrace(j) /\ BatchShape(b) /\ b.draft \in Drafts
      BY <3>1 DEF AddUpInv, BatchTraces, Shapes, IInv, BatchesOK, BatchOK
    <3>3. CASE j = i
      <4>1. OfBatch(j)' = OfBatch(j) \cup {c}
        BY <1>2, <1>3, <3>3 DEF OfBatch
      <4>2. {e.applied : e \in OfBatch(i)} = batches[i].revision + 1 .. drafts[d].revision
        BY <1>1 DEF Applies
      <4>3. ASSUME NEW q \in Roles, \A e \in OfBatch(j)' : e.role # q
            PROVE  Resolved(drafts'[d].manifest, q) = b.source[q]
        <5>1. q # r
          BY <1>2, <4>1, <4>3
        <5>2. \A e \in OfBatch(i) : e.role # q
          BY <3>3, <4>1, <4>3
        <5>3. Resolved(drafts[d].manifest, q) = b.source[q]
          BY <1>2, <3>1, <3>2, <3>3, <4>2, <5>2 DEF BatchTrace
        <5>4. /\ drafts'[d].manifest.global[q] = drafts[d].manifest.global[q]
              /\ drafts'[d].manifest.local[q] = drafts[d].manifest.local[q]
          BY <1>2, <5>1
        <5>5. Resolved(drafts'[d].manifest, q) = Resolved(drafts[d].manifest, q)
          BY <5>4, ResolvedBy
        <5>6. QED BY <5>3, <5>5
      <4>4. b.draft = d
        BY <1>2, <3>1, <3>3
      <4>5. QED BY <3>1, <4>3, <4>4 DEF BatchTrace, Resolved
    <3>4. CASE j # i
      <4>1. OfBatch(j)' = OfBatch(j)
        BY <1>2, <3>4 DEF OfBatch
      <4>2. CASE b.draft = d
        <5>1. b.revision \in Nat /\ b.revision <= drafts[d].revision
          BY <3>2, <4>2 DEF BatchShape
        <5>2. drafts'[d].revision \in b.revision + 1 .. drafts'[d].revision
          BY <1>2, <1>3, <5>1
        <5>3. ASSUME NEW e \in OfBatch(j) PROVE e.applied # drafts'[d].revision
          <6>1. e \in Range(decisions) /\ e.applied > 0 /\ e.batch = j
            BY DEF OfBatch
          <6>2. e.draft = d
            BY <3>1, <4>2, <6>1 DEF AddUpInv, Shapes, DecisionShape
          <6>3. QED BY <1>2, <1>3, <6>1, <6>2
        <5>4. {e.applied : e \in OfBatch(j)'} # b.revision + 1 .. drafts'[d].revision
          BY <4>1, <5>2, <5>3
        <5>5. QED BY <3>1, <4>2, <5>4 DEF BatchTrace
      <4>3. CASE b.draft # d
        <5>1. drafts'[b.draft] = drafts[b.draft]
          BY <1>2, <3>2, <4>3
        <5>2. ASSUME {e.applied : e \in OfBatch(j)'} = b.revision + 1 .. drafts'[b.draft].revision,
                     NEW q \in Roles, \A e \in OfBatch(j)' : e.role # q
              PROVE  Resolved(drafts'[b.draft].manifest, q) = b.source[q]
          BY <3>1, <3>2, <4>1, <5>1, <5>2, Zenon DEF BatchTrace
        <5>3. QED BY <3>1, <5>2, Zenon DEF BatchTrace, Resolved
      <4>4. QED BY <4>2, <4>3
    <3>5. QED BY <3>3, <3>4
  <2>2. QED BY <1>2, <2>1 DEF BatchTraces
<1>11. Sums'
  <2>1. ASSUME NEW f \in Range(decisions), f.applied > 0 PROVE AddsUp(f)' /\ Kept(f)'
    <3>1. AddsUp(f) /\ Kept(f) /\ DecisionShape(f)
      BY <2>1 DEF AddUpInv, Sums, Shapes
    <3>2. f.batch = i => f.applied < c.applied
      BY <1>2, <1>3, <3>1 DEF DecisionShape
    <3>3. AlikeUntil(f)' = AlikeUntil(f)
      <4>1. ~ (c.batch = f.batch /\ c.role = f.role /\ c.applied \in 1 .. f.applied)
        BY <1>2, <1>3, <3>2
      <4>2. QED BY <1>2, <4>1 DEF AlikeUntil
    <3>4. Earlier(f)' = Earlier(f)
      BY <3>3 DEF Earlier, Replaced
    <3>5. AddsUp(f)'
      BY <1>2, <3>1, <3>4 DEF AddsUp
    <3>6. Kept(f)'
      <4>1. f.draft \in Drafts /\ f.role \in Roles
        BY <2>1, <3>1 DEF IInv, DecisionsOK, DecisionShape
      <4>2. SUFFICES ASSUME \A e \in Range(decisions') :
                              e.draft = f.draft /\ e.role = f.role => e.applied <= f.applied
                     PROVE  drafts'[f.draft].manifest.local[f.role] = f.result
        BY DEF Kept
      <4>3. drafts[f.draft].manifest.local[f.role] = f.result
        BY <1>2, <3>1, <4>2 DEF Kept
      <4>4. f.draft # d \/ f.role # r
        BY <1>2, <1>3, <2>1, <4>2
      <4>5. drafts'[f.draft].manifest.local[f.role] = drafts[f.draft].manifest.local[f.role]
        BY <1>2, <4>1, <4>4
      <4>6. QED BY <4>3, <4>5
    <3>7. QED BY <3>5, <3>6
  <2>2. Kept(c)'
    BY <1>2 DEF Kept
  <2>3. QED BY <1>2, <1>4, <2>1, <2>2 DEF Sums
<1>12. QED BY <1>8, <1>9, <1>10, <1>11 DEF AddUpInv

LEMMA InitAddUp == Init => AddUpInv
<1> SUFFICES ASSUME Init PROVE AddUpInv
  OBVIOUS
<1>1. batches = <<>> /\ previews = {} /\ decisions = <<>>
  BY DEF Init
<1>2. Range(<<>>) = {} /\ DOMAIN <<>> = {}
  BY DEF Range
<1>3. Range(decisions) = {} /\ DOMAIN batches = {}
  BY <1>1, <1>2
<1>4. QED BY <1>1, <1>3 DEF AddUpInv, Shapes, AppliedOnce, BatchTraces, Sums

LEMMA NextAddUp == IInv /\ AddUpInv /\ [Next]_vars => AddUpInv'
<1> SUFFICES ASSUME IInv, AddUpInv, [Next]_vars PROVE AddUpInv'
  OBVIOUS
<1> USE NextInv
<1>1. CASE CreateFirstDraft
  <2>1. PICK x : drafts' = <<x>>
    BY <1>1 DEF CreateFirstDraft
  <2>2. drafts' = Append(drafts, x)
    BY <1>1, <2>1 DEF CreateFirstDraft
  <2>3. DraftsKept
    BY <2>2, CreationKeeps
  <2>4. UNCHANGED <<batches, previews, decisions>>
    BY <1>1 DEF CreateFirstDraft
  <2>5. QED BY <2>3, <2>4, DraftsAddUp
<1>2. CASE CreateDraft
  <2>1. PICK x : drafts' = Append(drafts, x)
    BY <1>2 DEF CreateDraft
  <2>2. DraftsKept
    BY <2>1, CreationKeeps
  <2>3. UNCHANGED <<batches, previews, decisions>>
    BY <1>2 DEF CreateDraft
  <2>4. QED BY <2>2, <2>3, DraftsAddUp
<1>3. CASE ReplaceDraft
  <2>1. UNCHANGED <<batches, previews, decisions>>
    BY <1>3 DEF ReplaceDraft
  <2>2. QED BY <1>3, <2>1, ReplaceKeeps, DraftsAddUp
<1>4. CASE PublishDraft
  <2>1. UNCHANGED <<batches, previews, decisions>>
    BY <1>4 DEF PublishDraft
  <2>2. QED BY <1>4, <2>1, PublishKeeps, DraftsAddUp
<1>5. CASE GetProposals
  BY <1>5, ProposalsAddUp
<1>6. CASE Preview
  BY <1>6, PreviewAddUp
<1>7. CASE Approve
  <2>1. PICK i \in DOMAIN batches : \E p \in batches[i].proposals :
          Apply("approve", i, {p}, {p.selector})
    BY <1>7 DEF Approve
  <2>2. PICK p \in batches[i].proposals : Apply("approve", i, {p}, {p.selector})
    BY <2>1
  <2>3. BatchShape(batches[i])
    BY DEF AddUpInv, Shapes
  <2>4. Selects({p.selector}, {p}, batches[i].seen)
    BY <2>3, DirectSelects
  <2>5. QED BY <2>2, <2>4, ApplyAddUp
<1>8. CASE ApplyPreview
  <2>1. PICK p \in previews : Apply(p.kind, p.batch, p.proposals, p.selectors)
    BY <1>8 DEF ApplyPreview
  <2>2. p.batch \in DOMAIN batches
    BY DEF IInv, BatchesOK
  <2>3. Selects(p.selectors, p.proposals, batches[p.batch].seen)
    BY DEF AddUpInv, Shapes, PreviewShape
  <2>4. QED BY <2>1, <2>2, <2>3, ApplyAddUp
<1>9. CASE Reject
  BY <1>9, RejectAddUp
<1>10. CASE UNCHANGED vars
  <2>1. drafts' = drafts /\ UNCHANGED <<batches, previews, decisions>>
    BY <1>10 DEF vars
  <2>2. DraftsKept
    BY <2>1, SameKeeps DEF Drafts
  <2>3. QED BY <2>1, <2>2, DraftsAddUp
<1>11. QED
  BY <1>1, <1>2, <1>3, <1>4, <1>5, <1>6, <1>7, <1>8, <1>9, <1>10 DEF Next

\* What a decision leaves in its role selects each resource of the batch's snapshot
\* at most once, all it covers and nothing that no decision of the batch covers; it
\* selects exactly what they cover together when each earlier one changed the
\* selectors of the batch (_require_current_draft, _selector_only_replacement,
\* list_overlapping_cohort_decisions).
THEOREM DecisionsAlwaysAddUp == Spec => []DecisionsAddUp
<1>1. IInv /\ AddUpInv => DecisionsAddUp
  BY SumsAddUp DEF AddUpInv
<1>2. Spec => []AddUpInv
  BY Invariance, InitAddUp, NextAddUp, PTL DEF Spec
<1>3. QED BY <1>1, <1>2, Invariance, PTL

=============================================================================
