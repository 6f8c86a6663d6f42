-------------------------- MODULE MCSignalDetector --------------------------
(* Small instances of SignalDetector for TLC. *)
EXTENDS SignalDetector, TLC

\* Executions are interchangeable.
ExecutionSymmetry == Permutations(Executions)

=============================================================================
