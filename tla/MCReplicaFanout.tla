--------------------------- MODULE MCReplicaFanout ---------------------------
(* Small instances of ReplicaFanout for TLC. *)
EXTENDS ReplicaFanout, TLC

\* Followers are interchangeable, and so are mutations of the same kind.
Symmetry == Permutations(Followers) \cup Permutations(Upserts)
=============================================================================
