---------------------------- MODULE ReplicaFanout ----------------------------
(***************************************************************************)
(* Replication of one shard from its planned leader to its followers: the  *)
(* leader's commit and fan-out, the followers' append and snapshot         *)
(* handlers, acknowledgement levels, and background replica repair.        *)
(*                                                                         *)
(* A shard is its log of mutations: log[n][s] is the mutation of sequence  *)
(* s, and what the node serves is the result of all of them.  Every append *)
(* is synced (wal_sync = always, the default), so a restart keeps the log  *)
(* (module ShardStore) and only the leader's operations in progress are    *)
(* lost.  The placement is fixed; no shard is frozen for a rebalance.      *)
(*                                                                         *)
(* A request may be lost, refused by a fence, or arrive after the leader   *)
(* has given up on it: nothing takes it back.  A reply is handled with its *)
(* request or not at all.                                                  *)
(***************************************************************************)
EXTENDS Naturals, FiniteSets, Sequences

CONSTANTS
    Leader, Followers,   \* the replicas of the shard
    Upserts, Deletes,    \* mutations
    Levels,              \* acknowledgement levels in use
    NoFanout,
    MaxSeq,              \* bound on the log
    MaxRounds,           \* bound on the number of fan-outs
    MaxCalls             \* bound on the requests in flight

Ops   == Upserts \cup Deletes
Nodes == Followers \cup {Leader}

ASSUME FanoutAssumption ==
    /\ IsFiniteSet(Followers) /\ Leader \notin Followers
    /\ Levels \subseteq {"leader", "quorum", "all"}
    /\ MaxSeq \in Nat /\ MaxRounds \in Nat /\ MaxCalls \in Nat

VARIABLES
    log,        \* mutations of every replica, by sequence
    base,       \* sequences up to this one have no retained fingerprint
    fanout,     \* the operation that holds replicationMu, or NoFanout
    rounds,     \* number of fan-outs begun
    calls,      \* requests in flight
    behind,     \* followers the repair pass found behind
    answered    \* history: operations answered "committed"

vars == <<log, base, fanout, rounds, calls, behind, answered>>

LastLSN(n) == Len(log[n])

Init ==
    /\ log = [n \in Nodes |-> <<>>]
    /\ base = [f \in Followers |-> 0]
    /\ fanout = NoFanout
    /\ rounds = 0
    /\ calls = {}
    /\ behind = {}
    /\ answered = {}

-----------------------------------------------------------------------------
(* Leader *)

ReplicationFactor == Cardinality(Nodes)

\* Mutant: half of the replicas are taken for a majority.
HalfIsEnough(level) ==
    CASE level = "leader" -> 1
      [] level = "all"    -> ReplicationFactor
      [] OTHER            -> ReplicationFactor \div 2

requiredAcknowledgements(level) ==
    CASE level = "leader" -> 1
      [] level = "all"    -> ReplicationFactor
      [] OTHER            -> ReplicationFactor \div 2 + 1

AppendCall(f, seq, op, round) ==
    [type |-> "append", to |-> f, seq |-> seq, op |-> op, log |-> <<>>, round |-> round]

\* ExportReplicaSnapshot and remoteReplicaSnapshot
SnapshotCall(f, round) ==
    [type |-> "snapshot", to |-> f, seq |-> LastLSN(Leader), op |-> NoFanout,
     log |-> log[Leader], round |-> round]

\* The same sequence to every follower, under replicationMu.
StartFanout(seq, op, level) ==
    /\ fanout' = [seq |-> seq, op |-> op, level |-> level, round |-> rounds + 1,
                  pending |-> Followers, acks |-> {Leader}, done |-> FALSE]
    /\ rounds' = rounds + 1
    /\ calls' = calls \cup {AppendCall(f, seq, op, rounds + 1) : f \in Followers}

CanStart == fanout = NoFanout /\ rounds < MaxRounds
            /\ Cardinality(calls) + Cardinality(Followers) <= MaxCalls

\* commitLeaderShardBatch, commitLeaderShardDelete: append locally, then fan out.
commitLeaderShard(op, level) ==
    /\ CanStart /\ LastLSN(Leader) < MaxSeq
    /\ log' = [log EXCEPT ![Leader] = Append(@, op)]
    /\ StartFanout(LastLSN(Leader) + 1, op, level)
    /\ UNCHANGED <<base, behind, answered>>

\* The same with a completed idempotency key: the retained sequence again.
RetryBatch(seq, level) ==
    /\ CanStart /\ seq <= LastLSN(Leader) /\ log[Leader][seq] \in Upserts
    /\ StartFanout(seq, log[Leader][seq], level)
    /\ UNCHANGED <<log, base, behind, answered>>

\* Whether the operation may be answered: a delete waits for every result.
Acknowledged ==
    /\ Cardinality(fanout.acks) >= requiredAcknowledgements(fanout.level)
    /\ fanout.op \in Deletes => fanout.pending = {}

Answer ==
    /\ fanout # NoFanout /\ ~fanout.done
    /\ Acknowledged
    /\ fanout' = [fanout EXCEPT !.done = TRUE]
    /\ answered' = answered \cup {[seq |-> fanout.seq, op |-> fanout.op, level |-> fanout.level]}
    /\ UNCHANGED <<log, base, rounds, calls, behind>>

\* replicationMu is released when every result is in; an operation short of
\* acknowledgements was answered "unknown".
EndFanout ==
    /\ fanout # NoFanout
    /\ fanout.pending = {} /\ (fanout.done \/ ~Acknowledged)
    /\ fanout' = NoFanout
    /\ UNCHANGED <<log, base, rounds, calls, behind, answered>>

Failed(f) == [fanout EXCEPT !.pending = @ \ {f}]

\* An error or the fan-out deadline: the leader gives up on a follower.
GiveUp(f) ==
    /\ fanout # NoFanout /\ f \in fanout.pending
    /\ fanout' = Failed(f)
    /\ UNCHANGED <<log, base, rounds, calls, behind, answered>>

LeaderRestart ==
    /\ fanout # NoFanout
    /\ fanout' = NoFanout
    /\ behind' = {}
    /\ UNCHANGED <<log, base, rounds, calls, answered>>

\* Whether a result still counts for the operation in progress.
Awaited(c) == fanout # NoFanout /\ c.round = fanout.round /\ c.to \in fanout.pending

Acked(f) == [fanout EXCEPT !.pending = @ \ {f}, !.acks = @ \cup {f}]

\* remoteReplicaAppend: a gap or compacted history is answered with a snapshot,
\* whose result then counts; remoteReplicaDelete has no such path.
CatchesUp(c, result) == result \in {"gap", "compacted"} /\ c.op \in Upserts

HandleResult(c, result) ==
    \/ UNCHANGED fanout /\ calls' = calls \ {c}
    \/ /\ Awaited(c)
       /\ IF result = "ok" THEN fanout' = Acked(c.to) /\ calls' = calls \ {c}
          ELSE IF CatchesUp(c, result)
          THEN UNCHANGED fanout
               /\ calls' = (calls \ {c}) \cup {SnapshotCall(c.to, c.round)}
          ELSE fanout' = Failed(c.to) /\ calls' = calls \ {c}

-----------------------------------------------------------------------------
(* Followers *)

\* Mutant: a sequence ahead of the log is appended.
AppendAnyAhead(f, seq, op) ==
    IF seq > LastLSN(f) THEN "ok"
    ELSE IF seq <= base[f] THEN "compacted"
    ELSE IF log[f][seq] # op THEN "conflict" ELSE "ok"

\* ApplyReplicaBatch, ApplyReplicaDelete: the verdict on a sequence.
ReplicaVerdict(f, seq, op) ==
    IF seq > LastLSN(f) + 1 THEN "gap"
    ELSE IF seq = LastLSN(f) + 1 THEN "ok"
    ELSE IF seq <= base[f] THEN "compacted"
    ELSE IF log[f][seq] # op THEN "conflict" ELSE "ok"

internalReplicaAppend(c) ==
    /\ c.type = "append"
    /\ LET verdict == ReplicaVerdict(c.to, c.seq, c.op) IN
       /\ log' = IF verdict = "ok" /\ c.seq > LastLSN(c.to)
                 THEN [log EXCEPT ![c.to] = Append(@, c.op)] ELSE log
       /\ HandleResult(c, verdict)
    /\ UNCHANGED <<base, rounds, behind, answered>>

\* Mutant: a snapshot older than the log is installed.
SnapshotAlwaysFresh(c) == TRUE

\* InstallReplicaSnapshot refuses to go back.
SnapshotFresh(c) == c.seq # 0 /\ c.seq >= LastLSN(c.to)

internalReplicaSnapshot(c) ==
    /\ c.type = "snapshot"
    /\ IF SnapshotFresh(c)
         THEN /\ log' = [log EXCEPT ![c.to] = c.log]
              /\ base' = [base EXCEPT ![c.to] = c.seq]
              /\ HandleResult(c, "ok")
         ELSE UNCHANGED <<log, base>> /\ HandleResult(c, "conflict")
    /\ UNCHANGED <<rounds, behind, answered>>

\* A request is lost, or a fence refuses it.
Lose(c) ==
    /\ calls' = calls \ {c}
    /\ UNCHANGED <<log, base, fanout, rounds, behind, answered>>

\* Engine.Checkpoint on a follower forgets the fingerprints.
Checkpoint(f) ==
    /\ base' = [base EXCEPT ![f] = LastLSN(f)]
    /\ UNCHANGED <<log, fanout, rounds, calls, behind, answered>>

-----------------------------------------------------------------------------
(* RepairReplicasOnce, without replicationMu: compare sequences, then export. *)

\* Mutant: a follower one sequence behind is taken for healthy.
ProbeLenient(f) ==
    /\ LastLSN(f) + 1 < LastLSN(Leader)
    /\ behind' = behind \cup {f}
    /\ UNCHANGED <<log, base, fanout, rounds, calls, answered>>

\* The sequence that a follower reports.
internalReplicaStatus(f) == LastLSN(f)

RepairProbe(f) ==
    /\ internalReplicaStatus(f) < LastLSN(Leader)
    /\ behind' = behind \cup {f}
    /\ UNCHANGED <<log, base, fanout, rounds, calls, answered>>

RepairSend(f) ==
    /\ f \in behind /\ Cardinality(calls) < MaxCalls
    /\ calls' = calls \cup {SnapshotCall(f, 0)}
    /\ behind' = behind \ {f}
    /\ UNCHANGED <<log, base, fanout, rounds, answered>>

Next ==
    \/ \E op \in Ops, level \in Levels : commitLeaderShard(op, level)
    \/ \E seq \in 1..MaxSeq, level \in Levels : RetryBatch(seq, level)
    \/ Answer \/ EndFanout \/ LeaderRestart
    \/ \E f \in Followers : GiveUp(f) \/ Checkpoint(f) \/ RepairProbe(f) \/ RepairSend(f)
    \/ \E c \in calls : internalReplicaAppend(c) \/ internalReplicaSnapshot(c) \/ Lose(c)

Spec == Init /\ [][Next]_vars

\* The repair loop keeps running, and a follower that is sent snapshots again and
\* again receives some of them.
FairSpec ==
    /\ Spec
    /\ WF_vars(Answer) /\ WF_vars(EndFanout)
    /\ \A f \in Followers :
         /\ WF_vars(GiveUp(f)) /\ WF_vars(RepairProbe(f)) /\ WF_vars(RepairSend(f))
         /\ WF_vars(\E c \in calls : c.to = f /\ (internalReplicaAppend(c) \/ Lose(c)))
         /\ SF_vars(\E c \in calls : c.to = f /\ internalReplicaSnapshot(c))

-----------------------------------------------------------------------------
(* Properties *)

Calls == [type : {"append", "snapshot"}, to : Followers, seq : 0..MaxSeq,
          op : Ops \cup {NoFanout}, log : Seq(Ops), round : 0..MaxRounds]
Fanouts == [seq : 1..MaxSeq, op : Ops, level : Levels, round : 1..MaxRounds,
            pending : SUBSET Followers, acks : SUBSET Nodes, done : BOOLEAN]

\* Every variable of the replica set keeps its type, and no follower has dropped
\* fingerprints beyond its log.
TypeOK ==
    /\ log \in [Nodes -> Seq(Ops)]
    /\ base \in [Followers -> Nat]
    /\ \A n \in Nodes : LastLSN(n) <= MaxSeq
    /\ \A f \in Followers : base[f] <= LastLSN(f)
    /\ fanout = NoFanout \/ fanout \in Fanouts
    /\ rounds \in 0..MaxRounds
    /\ calls \subseteq Calls
    /\ behind \subseteq Followers
    /\ answered \subseteq [seq : 1..MaxSeq, op : Ops, level : Levels]

\* Sequence s of node n holds op.
Holds(n, s, op) == s <= LastLSN(n) /\ log[n][s] = op
Holders(s, op) == {n \in Nodes : Holds(n, s, op)}

\* No follower ever holds, at any sequence, something else than the leader:
\* late appends, snapshots that overtake them, retries and repair included
\* (replication_fanout.go: serialized fan-out; engine.go ApplyReplicaBatch).
ReplicasPrefix ==
    \A f \in Followers :
        /\ LastLSN(f) <= LastLSN(Leader)
        /\ \A s \in 1..LastLSN(f) : log[f][s] = log[Leader][s]

\* A write answered as committed is, from then on, on as many replicas as its
\* acknowledgement level asks for (replication_fanout.go
\* requiredAcknowledgements; engine.go InstallReplicaSnapshot, whose success
\* counts as the follower's acknowledgement).
AckedDurable ==
    \A a \in answered :
        Cardinality(Holders(a.seq, a.op))
            >= IF a.level = "leader" THEN 1
               ELSE IF a.level = "all" THEN ReplicationFactor
               ELSE ReplicationFactor \div 2 + 1

\* No delayed append or snapshot takes a follower back (docs/architecture/
\* replication.md: "Older snapshots are rejected to prevent rollback").
NoRollback == [][\A f \in Followers : LastLSN(f)' >= LastLSN(f)]_vars

\* A request in flight repeats the leader's log.
CallTrue(c) ==
    /\ c.round <= rounds
    /\ c.type = "append" => c.seq \in 1..LastLSN(Leader) /\ log[Leader][c.seq] = c.op
    /\ c.type = "snapshot"
         => /\ c.seq = Len(c.log) /\ c.seq <= LastLSN(Leader)
            /\ \A s \in 1..c.seq : c.log[s] = log[Leader][s]

\* The operation in progress is in the leader's log, is held by every replica
\* that acknowledged it, and its requests cover its sequence.
FanoutTrue ==
    fanout # NoFanout =>
        /\ fanout.round = rounds
        /\ Holds(Leader, fanout.seq, fanout.op)
        /\ \A n \in fanout.acks : Holds(n, fanout.seq, fanout.op)
        /\ \A c \in calls : c.round = rounds
             => /\ c.seq >= fanout.seq
                /\ c.type = "append" => c.seq = fanout.seq

\* The inductive invariant: replicas, requests and the operation in progress all
\* repeat the leader's log.
FanoutInv ==
    /\ TypeOK
    /\ ReplicasPrefix
    /\ \A c \in calls : CallTrue(c)
    /\ FanoutTrue
    /\ AckedDurable

\* When the leader's writes end, every follower ends up with its log
\* (replica_repair.go RunReplicaRepair).
Converges == <>[](\A f \in Followers : log[f] = log[Leader])
=============================================================================
