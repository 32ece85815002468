---------------------------- MODULE MCRebalance ----------------------------
(* Small instances of Rebalance. *)
EXTENDS Rebalance

Change(type, node, cap) == [type |-> type, node |-> node, cap |-> cap]

\* Three nodes, one shard with replicas <<1, 3>>.  Node 2 joins as its leader,
\* <<2, 1>>, and leaves again; with two tickets node 3 would lead.
MCScore == <<<<[t \in 0..1 |-> 50 - 20 * t], [t \in 0..1 |-> 60], [t \in 0..1 |-> 40 + 30 * t]>>>>
MCConfigured == <<1, 1, 1>>
MCChanges == {Change("join", 2, 1), Change("leave", 2, 1)}
=============================================================================
