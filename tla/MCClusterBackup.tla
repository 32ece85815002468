-------------------------- MODULE MCClusterBackup --------------------------
(* Small instances of ClusterBackup. *)
EXTENDS ClusterBackup

\* A shard that node 2 leads and the coordinator, node 1, follows.  Mutation 1,
\* a delete, is sent over gRPC to node 1, which forwards it and has it back
\* as the follower; upsert 2 is sent to its leader.
MCReplicas == <<<<2, 1>>>>
MCShard == <<1, 1>>
MCEntries == <<{<<1, "grpc">>}, {<<2, "http">>}>>
MCLevel == <<"quorum", "leader">>

\* One backup to a package, and one that only wants the recovery point.
MCOperation == <<"a", "b">>
MCKind == <<"package", "point">>
=============================================================================
