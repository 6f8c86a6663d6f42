------------------------- MODULE MCCohortDecisions -------------------------
(* A small instance of CohortDecisions for TLC. *)
EXTENDS CohortDecisions, TLC

CONSTANTS web, job, vmss1, vmss2

\* Instances of two scale sets in a role of the profile and two instances of one
\* in an inherited role.
MCRoleOf == [m \in 1 .. 4 |-> IF m <= 2 THEN job ELSE web]
MCAnchorOf == [m \in 1 .. 4 |-> IF m = 1 THEN vmss1 ELSE vmss2]

\* A snapshot shows everything, or misses a resource.
MCSights == {1 .. 4, {1, 3, 4}}

=============================================================================
