----------------------------- MODULE Placement -----------------------------
(***************************************************************************)
(* Capacity-weighted rendezvous placement and the movements between two    *)
(* placements.  A committed view gives each of its voters a capacity, and  *)
(* any other node 0; node ids are integers that order as the id strings do.*)
(***************************************************************************)
EXTENDS Integers, Sequences, FiniteSets, FiniteSetsExt, SequencesExt

CONSTANTS
    Nodes,      \* node ids
    Shards,     \* shard ids (integers)
    Capacities, \* the capacities in use, 1..256 in the code
    Score,      \* Score[s][n][t]: the SHA-256 of shard s, node n, ticket t, as a rank
    RF          \* replication factor

Voters(view) == {n \in Nodes : view[n] > 0}

\* Mutant: the last ticket counts, not the best.
LastTicket(s, n, view) == Score[s][n][view[n] - 1]

\* placementNodeScore: the best of the node's tickets.
placementNodeScore(s, n, view) == Max({Score[s][n][t] : t \in 0..(view[n] - 1)})

Outranks(s, view, a, b) ==
    LET x == placementNodeScore(s, a, view)
        y == placementNodeScore(s, b, view)
    IN  x > y \/ (x = y /\ a < b)

\* PlanPlacementWithCapacity: the owner of a shard.
PlanPlacement(s, view) ==
    CHOOSE n \in Voters(view) : \A m \in Voters(view) \ {n} : Outranks(s, view, n, m)

\* PlanReplicaPlacementWithCapacity: a shard's replicas, its leader first, for
\* every view that has enough voters.  (With @@, TLC tabulates a function.)
Views == {view \in [Nodes -> {0} \cup Capacities] : Cardinality(Voters(view)) >= RF}
ReplicaTable == <<>> @@
    [x \in Shards \X Views |->
        SubSeq(SetToSortSeq(Voters(x[2]), LAMBDA a, b : Outranks(x[1], x[2], a, b)), 1, RF)]
PlanReplicaPlacement(s, view) == ReplicaTable[s, view]

Leader(s, view) == PlanReplicaPlacement(s, view)[1]

\* A change is [type, node, cap].  What it makes of the view:
TargetView(change, view) ==
    [view EXCEPT ![change.node] = IF change.type = "leave" THEN 0 ELSE change.cap]

\* The checks of prepareRebalance and PlanCapacityRebalance on node self.
ValidChange(change, view, self) ==
    CASE change.type = "join"  -> change.node \notin Voters(view) \cup {self}
      [] change.type = "leave" -> change.node \in Voters(view) \ {self} /\ Cardinality(Voters(view)) > RF
      [] OTHER                 -> change.node \in Voters(view) /\ view[change.node] # change.cap

\* PlanRebalance: for each changed shard, in order, every new replica is
\* copied and caught up from the shard's leader.
NewReplicas(move) == SelectSeq(move.target, LAMBDA n : n \notin Range(move.source))
DataActions(s, move) ==
    LET fresh == NewReplicas(move)
        Act(kind, n) == [kind |-> kind, shard |-> s, source |-> move.source[1], target |-> n]
    IN  FlattenSeq([i \in DOMAIN fresh |->
                       <<Act("copy_snapshot", fresh[i]), Act("catch_up_wal", fresh[i])>>])
Moves(view, target) ==
    [s \in {x \in Shards : PlanReplicaPlacement(x, view) # PlanReplicaPlacement(x, target)} |->
        [source |-> PlanReplicaPlacement(s, view), target |-> PlanReplicaPlacement(s, target)]]
Actions(moves) ==
    LET ordered == SetToSortSeq(DOMAIN moves, LAMBDA a, b : a < b)
    IN  FlattenSeq([i \in DOMAIN ordered |-> DataActions(ordered[i], moves[ordered[i]])])

\* A plan: its epochs, its movements, and their actions that move data.
MoveTable == <<>> @@
    [x \in Views \X Views |->
        LET moves == Moves(x[1], x[2]) IN [moves |-> moves, actions |-> Actions(moves)]]
PlanRebalance(epoch, view, target) ==
    [from |-> epoch, to |-> epoch + 1, moves |-> MoveTable[view, target].moves,
     actions |-> MoveTable[view, target].actions]

\* The source leaders that a plan's catch-up actions freeze.
Sources(plan) == {a.source : a \in Range(plan.actions)}
=============================================================================
