-------------------------- MODULE MCEnrichmentFeed --------------------------
(* Model values for TLC. *)
EXTENDS EnrichmentFeed, TLC

CONSTANTS i1, i2, p1, p2

MCIncidents == {i1, i2}
MCOneIncident == {i1}
MCProducers == {p1, p2}

\* i1 is resolved and reopened, i2 becomes active.
MCOccurrence == i1 :> 3 @@ i2 :> 1
MCResolves == i1 :> 2

\* Executions are interchangeable.
FeedSymmetry == Permutations(MCProducers)
=============================================================================
