---------------------------- MODULE MCIdempotency ----------------------------
(* Small instances of Idempotency for TLC. *)
EXTENDS Idempotency, TLC

AllSteps == {"idle", "append", "complete"}
\* Keys are interchangeable, and so are batches.
Symmetry == Permutations(Keys) \cup Permutations(Batches)
=============================================================================
