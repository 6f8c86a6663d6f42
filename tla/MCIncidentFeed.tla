--------------------------- MODULE MCIncidentFeed ---------------------------
(* A small instance of IncidentFeed for TLC. *)
EXTENDS IncidentFeed, TLC

CONSTANTS db, web

\* Two incidents, a hint for each.
MCIncidents == {db, web}
MCIncidentOf == [r \in Requests |-> IF r = 1 THEN db ELSE web]

\* Executions of a job are interchangeable.
WorkerSymmetry == Permutations(Workers)

=============================================================================
