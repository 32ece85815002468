-------------------------- MODULE MCJointConsensus --------------------------
(* Small instances of JointConsensus. *)
EXTENDS JointConsensus

\* The voters are interchangeable, and so are the learners.
Symmetry == Permutations(InitialVoters) \cup Permutations(Nodes \ InitialVoters)
=============================================================================
