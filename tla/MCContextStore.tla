-------------------------- MODULE MCContextStore ---------------------------
(* Model values for TLC. *)
EXTENDS ContextStore, TLC

CONSTANTS d1, d2, b1, x1, x2

MCDraftIds == {d1, d2}
MCBodies == {b1}
MCClientManifests == [body : Bodies, final : {FALSE}]
MCReplicas == {x1, x2}

StoreSymmetry == Permutations(DraftIds) \cup Permutations(Replicas)
=============================================================================
