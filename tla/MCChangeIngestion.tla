------------------------- MODULE MCChangeIngestion --------------------------
(* Model values for TLC. *)
EXTENDS ChangeIngestion, TLC

CONSTANTS w1, w2, m1, a, b, g

MCGridWorkers == {w1, w2}
MCGraphWorkers == {w2}
MCRecords == {a, b, g}

\* b is the first to become stale.
MCOccurred == a :> 1 @@ b :> 0 @@ g :> 0

\* One message of two events.
MCMessages == {m1}
MCBatch == m1 :> <<a, b>>
=============================================================================
