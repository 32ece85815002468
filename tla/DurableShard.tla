----------------------------- MODULE DurableShard -----------------------------
(***************************************************************************)
(* What a shard of the storage engine promises its clients: there is one   *)
(* durable view of the shard, changed by one mutation (or one replacement  *)
(* by a leader's snapshot) at a time; what is served is that view, or, for *)
(* the one mutation still in flight, the view just before it; and a stop,  *)
(* orderly or not, followed by a start serves the durable view again.      *)
(* Only a WAL that is not synced on every append may lose mutations, and   *)
(* only when the process stops.                                            *)
(***************************************************************************)
EXTENDS ShardData

CONSTANTS
    SyncAlways,     \* TRUE: the WAL is synced on every append
    SnapshotViews,  \* views a leader may send
    Down            \* what is served while the shard is not open

VARIABLES
    kv,      \* the durable view
    served   \* the view readers see, or Down

vars == <<kv, served>>

Init == kv = Empty /\ served = Empty

Commit ==
    /\ served = kv
    /\ \E m \in Ops : kv' = Overlay(kv, m)
    /\ UNCHANGED served

Replace ==
    /\ served = kv
    /\ kv' \in SnapshotViews
    /\ UNCHANGED served

Publish == served # Down /\ served' = kv /\ UNCHANGED kv

Stop ==
    /\ served' = Down
    /\ IF SyncAlways THEN UNCHANGED kv ELSE kv' \in Views

Start == served = Down /\ served' = kv /\ UNCHANGED kv

Next == Commit \/ Replace \/ Publish \/ Stop \/ Start

Spec == Init /\ [][Next]_vars
=============================================================================
