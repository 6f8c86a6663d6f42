------------------------ MODULE MCContextLifecycle -------------------------
(* Model values for TLC. *)
EXTENDS ContextLifecycle, TLC

CONSTANTS d1, d2, d3, b1

MCDraftIds == {d1, d2, d3}
MCOneBody == {b1}

\* The audit section of a client's manifest is its own, or copied from a
\* finalized one.
MCAllManifests == Manifests

DraftSymmetry == Permutations(DraftIds)
=============================================================================
