---------------------------- MODULE MCShardStore ----------------------------
(* Small instances of ShardStore for TLC. *)
EXTENDS ShardStore

\* Crashes everywhere but between a snapshot's manifest and its log reset.
SafeCrashPoints == Steps \ {"snapReset"}
\* Errors that leave the published manifest and the memory in step.
SafeFailPoints == {"sync", "publish"}
NoFailPoints == {}

FullView == [k \in Keys |-> CHOOSE v \in Values : TRUE]
MCSnapshotViews == {Empty, FullView}
MCSnapshotSeqs == {2, 3}
NoSnapshots == {}
=============================================================================
