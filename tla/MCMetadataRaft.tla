--------------------------- MODULE MCMetadataRaft ---------------------------
(* Small instances of MetadataRaft for TLC. *)
EXTENDS MetadataRaft, TLC

\* Nodes and views are interchangeable: no action or property names one.
Symmetry == Permutations(Nodes) \cup Permutations(Views)
=============================================================================
