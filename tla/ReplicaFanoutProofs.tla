------------------------- MODULE ReplicaFanoutProofs -------------------------
(***************************************************************************)
(* For any number of followers, mutations and requests: followers repeat   *)
(* the leader's log, never go back, and hold what was answered committed.  *)
(* At the end, about Rebalance: only the owners of a shard hold its log.   *)
(***************************************************************************)
EXTENDS ReplicaFanout, TLAPS, FiniteSetTheorems

\* The replica set is finite.
LEMMA NodesFinite == IsFiniteSet(Nodes)
  BY FanoutAssumption, FS_AddElement DEF Nodes

\* Appending keeps every earlier mutation in place.
LEMMA AppendFacts ==
  ASSUME NEW S, NEW q \in Seq(S), NEW x \in S
  PROVE  /\ Append(q, x) \in Seq(S)
         /\ Len(Append(q, x)) = Len(q) + 1
         /\ Append(q, x)[Len(q) + 1] = x
         /\ \A s \in 1..Len(q) : Append(q, x)[s] = q[s]
  OBVIOUS

\* What requiredAcknowledgements asks for is what AckedDurable states.
LEMMA RequiredIs ==
  ASSUME NEW level \in Levels
  PROVE  requiredAcknowledgements(level)
           = IF level = "leader" THEN 1
             ELSE IF level = "all" THEN ReplicationFactor
             ELSE ReplicationFactor \div 2 + 1
  BY FanoutAssumption DEF requiredAcknowledgements

\* What a step may do to the logs: every log keeps what it holds.
LogsGrow ==
    \A n \in Nodes : /\ LastLSN(n)' >= LastLSN(n)
                     /\ \A s \in 1..LastLSN(n) : log'[n][s] = log[n][s]

\* A sequence that held an operation goes on holding it.
LEMMA HoldsStable ==
  ASSUME TypeOK, LogsGrow, NEW n \in Nodes, NEW s \in 1..MaxSeq, NEW op,
         Holds(n, s, op), LastLSN(n)' \in Nat
  PROVE  Holds(n, s, op)'
  BY FanoutAssumption DEF LogsGrow, Holds, LastLSN, TypeOK

\* Cardinality is monotone on sets of replicas.
LEMMA MoreReplicas ==
  ASSUME NEW A \in SUBSET Nodes, NEW B \in SUBSET Nodes, A \subseteq B
  PROVE  Cardinality(A) \in Nat /\ Cardinality(B) \in Nat /\ Cardinality(A) <= Cardinality(B)
<1>1. IsFiniteSet(B)
  BY NodesFinite, FS_Subset
<1>2. IsFiniteSet(A) /\ Cardinality(A) <= Cardinality(B)
  BY <1>1, FS_Subset
<1> QED  BY <1>1, <1>2, FS_CardinalityType

\* The replicas a level asks for.
Needed(level) == IF level = "leader" THEN 1
                 ELSE IF level = "all" THEN ReplicationFactor
                 ELSE ReplicationFactor \div 2 + 1

LEMMA NeededNat == \A level : Needed(level) \in Nat
<1>1. ReplicationFactor \in Nat
  BY NodesFinite, FS_CardinalityType DEF ReplicationFactor
<1> QED  BY <1>1 DEF Needed

\* What was committed stays on enough replicas while logs only grow.
LEMMA AckedStable ==
  ASSUME TypeOK, TypeOK', LogsGrow, AckedDurable, UNCHANGED answered
  PROVE  AckedDurable'
<1>1. SUFFICES ASSUME NEW a \in answered
               PROVE  Cardinality(Holders(a.seq, a.op)') >= Needed(a.level)
  BY DEF AckedDurable, Needed, Holders
<1>2. a.seq \in 1..MaxSeq
  BY DEF TypeOK
<1>3. \A n \in Nodes : LastLSN(n)' \in Nat
  BY DEF TypeOK, LastLSN
<1>4. Holders(a.seq, a.op) \subseteq Holders(a.seq, a.op)'
  BY <1>2, <1>3, HoldsStable DEF Holders
<1>5. /\ Cardinality(Holders(a.seq, a.op)) \in Nat
      /\ Cardinality(Holders(a.seq, a.op)') \in Nat
      /\ Cardinality(Holders(a.seq, a.op)) <= Cardinality(Holders(a.seq, a.op)')
  <2>1. Holders(a.seq, a.op) \in SUBSET Nodes /\ Holders(a.seq, a.op)' \in SUBSET Nodes
    BY DEF Holders
  <2> QED  BY <1>4, <2>1, MoreReplicas
<1>6. Cardinality(Holders(a.seq, a.op)) >= Needed(a.level)
  BY DEF AckedDurable, Needed
<1>7. Needed(a.level) \in Nat
  BY NeededNat
<1> QED  BY <1>5, <1>6, <1>7

-----------------------------------------------------------------------------
(* What the steps have in common *)

\* A snapshot of the leader is a true request.
LEMMA SnapshotTrue ==
  ASSUME TypeOK, NEW f \in Followers, NEW r \in 0..rounds
  PROVE  SnapshotCall(f, r) \in Calls /\ CallTrue(SnapshotCall(f, r))
<1>1. log[Leader] \in Seq(Ops) /\ LastLSN(Leader) \in 0..MaxSeq /\ rounds \in 0..MaxRounds
  BY FanoutAssumption DEF TypeOK, Nodes, LastLSN
<1>2. r \in 0..MaxRounds /\ r <= rounds
  BY <1>1, FanoutAssumption
<1> QED  BY <1>1, <1>2 DEF SnapshotCall, Calls, CallTrue, LastLSN

\* Holds after the step, for an operation named before it.
HeldNext(n, s, op) == s <= Len(log'[n]) /\ log'[n][s] = op

\* The operation in progress after a step of a follower or of the leader's wait.
SameOperation ==
    fanout' # NoFanout =>
        /\ fanout # NoFanout
        /\ fanout'.seq = fanout.seq /\ fanout'.op = fanout.op /\ fanout'.round = fanout.round
        /\ \A n \in fanout'.acks : n \in fanout.acks \/ HeldNext(n, fanout.seq, fanout.op)

\* New requests are true, and those of the operation in progress cover it.
GoodCalls ==
    \A c \in calls' :
        /\ CallTrue(c)'
        /\ c \notin calls /\ fanout # NoFanout /\ c.round = rounds
             => c.seq >= fanout.seq /\ (c.type = "append" => c.seq = fanout.seq)

\* Holders of the operation in progress keep it.
LEMMA FanoutStable ==
  ASSUME FanoutInv, TypeOK', LogsGrow, SameOperation, GoodCalls, UNCHANGED rounds
  PROVE  FanoutTrue'
<1> SUFFICES ASSUME fanout' # NoFanout
             PROVE  /\ fanout'.round = rounds
                    /\ HeldNext(Leader, fanout.seq, fanout.op)
                    /\ \A n \in fanout'.acks : HeldNext(n, fanout.seq, fanout.op)
                    /\ \A c \in calls' : c.round = rounds
                         => /\ c.seq >= fanout.seq
                            /\ c.type = "append" => c.seq = fanout.seq
  BY DEF FanoutTrue, SameOperation, Holds, HeldNext, LastLSN
<1>1. fanout # NoFanout /\ fanout \in Fanouts /\ fanout.seq \in 1..MaxSeq /\ fanout.acks \subseteq Nodes
  BY DEF SameOperation, FanoutInv, TypeOK, Fanouts
<1>2. \A n \in Nodes : LastLSN(n)' \in Nat
  BY DEF TypeOK, LastLSN
<1>3. \A n \in Nodes : Holds(n, fanout.seq, fanout.op) => HeldNext(n, fanout.seq, fanout.op)
  BY <1>1, <1>2 DEF FanoutInv, LogsGrow, Holds, HeldNext, LastLSN, TypeOK
<1>4. HeldNext(Leader, fanout.seq, fanout.op)
  BY <1>1, <1>3 DEF FanoutInv, FanoutTrue, Nodes
<1>5. \A n \in fanout'.acks : HeldNext(n, fanout.seq, fanout.op)
  BY <1>1, <1>3 DEF FanoutInv, FanoutTrue, SameOperation
<1>6. fanout'.round = rounds
  BY <1>1 DEF FanoutInv, FanoutTrue, SameOperation
<1>7. ASSUME NEW c \in calls', c.round = rounds
      PROVE  c.seq >= fanout.seq /\ (c.type = "append" => c.seq = fanout.seq)
  BY <1>1, <1>7 DEF FanoutInv, FanoutTrue, GoodCalls
<1> QED  BY <1>4, <1>5, <1>6, <1>7

\* A request that was true stays true while logs only grow.
LEMMA CallStable ==
  ASSUME TypeOK, TypeOK', LogsGrow, NEW c \in Calls, CallTrue(c), rounds' >= rounds
  PROVE  CallTrue(c)'
<1>1. /\ LastLSN(Leader) \in Nat /\ LastLSN(Leader)' \in Nat
      /\ LastLSN(Leader)' >= LastLSN(Leader)
      /\ \A s \in 1..LastLSN(Leader) : log'[Leader][s] = log[Leader][s]
  BY DEF TypeOK, LastLSN, LogsGrow, Nodes
<1>2. c.round \in Nat /\ rounds \in Nat /\ rounds' \in Nat /\ c.seq \in Nat
  BY FanoutAssumption DEF TypeOK, Calls
<1>3. c.round <= rounds'
  BY <1>2 DEF CallTrue
<1>4. ASSUME c.type = "append"
      PROVE  c.seq \in 1..LastLSN(Leader)' /\ log'[Leader][c.seq] = c.op
  BY <1>1, <1>2, <1>4 DEF CallTrue
<1>5. ASSUME c.type = "snapshot"
      PROVE  /\ c.seq = Len(c.log) /\ c.seq <= LastLSN(Leader)'
             /\ \A s \in 1..c.seq : c.log[s] = log'[Leader][s]
  BY <1>1, <1>2, <1>5 DEF CallTrue
<1> QED  BY <1>3, <1>4, <1>5 DEF CallTrue, LastLSN

\* The parts of the invariant, put together for a step that answers nothing.
LEMMA Together ==
  ASSUME FanoutInv, TypeOK', LogsGrow, ReplicasPrefix', SameOperation, GoodCalls,
         UNCHANGED <<rounds, answered>>
  PROVE  FanoutInv'
<1>1. FanoutTrue'
  BY FanoutStable
<1>2. AckedDurable'
  BY AckedStable DEF FanoutInv
<1>3. \A c \in calls' : CallTrue(c)'
  BY DEF GoodCalls
<1> QED  BY <1>1, <1>2, <1>3 DEF FanoutInv

\* Requests that were in flight before stay good.
LEMMA OldCallsGood ==
  ASSUME FanoutInv, TypeOK', LogsGrow, UNCHANGED rounds,
         \A c \in calls' : c \in calls
             \/ /\ CallTrue(c)'
                /\ fanout # NoFanout /\ c.round = rounds
                     => c.seq >= fanout.seq /\ (c.type = "append" => c.seq = fanout.seq)
  PROVE  GoodCalls
<1>1. ASSUME NEW c \in calls PROVE CallTrue(c)'
  <2>1. c \in Calls /\ CallTrue(c) /\ rounds' >= rounds
    BY FanoutAssumption DEF FanoutInv, TypeOK
  <2> QED  BY <2>1, CallStable DEF FanoutInv
<1> QED  BY <1>1 DEF GoodCalls

\* Steps that leave the logs alone.
LEMMA SameLogs ==
  ASSUME FanoutInv, UNCHANGED log
  PROVE  LogsGrow /\ ReplicasPrefix'
<1>1. \A n \in Nodes : LastLSN(n) \in Nat
  BY DEF FanoutInv, TypeOK, LastLSN
<1> QED  BY <1>1 DEF FanoutInv, LogsGrow, ReplicasPrefix, LastLSN

-----------------------------------------------------------------------------
(* One lemma per kind of step *)

\* Steps that change neither logs nor rounds and add no request: waiting, giving
\* up, the end of an operation, a restart, a lost request, a probe, a checkpoint.
LEMMA QuietStep ==
  ASSUME FanoutInv,
         \/ EndFanout \/ LeaderRestart
         \/ \E f \in Followers : GiveUp(f) \/ Checkpoint(f) \/ RepairProbe(f)
         \/ \E c \in calls : Lose(c)
         \/ UNCHANGED vars
  PROVE  FanoutInv' /\ LogsGrow
<1>1. UNCHANGED <<log, rounds, answered>> /\ calls' \subseteq calls
  BY DEF EndFanout, LeaderRestart, GiveUp, Checkpoint, RepairProbe, Lose, vars
<1>2. LogsGrow /\ ReplicasPrefix'
  BY <1>1, SameLogs
<1>3. fanout' = fanout \/ fanout' = NoFanout \/ \E f \in Followers : fanout # NoFanout /\ fanout' = Failed(f)
  BY DEF EndFanout, LeaderRestart, GiveUp, Checkpoint, RepairProbe, Lose, vars
<1>4. /\ fanout' = NoFanout \/ fanout' \in Fanouts
      /\ SameOperation
  <2>1. CASE fanout' = fanout \/ fanout' = NoFanout
    BY <2>1 DEF FanoutInv, TypeOK, SameOperation
  <2>2. CASE \E f \in Followers : fanout # NoFanout /\ fanout' = Failed(f)
    BY <2>2 DEF FanoutInv, TypeOK, SameOperation, Failed, Fanouts
  <2> QED  BY <1>3, <2>1, <2>2
<1>5. behind' \subseteq Followers
  BY DEF FanoutInv, TypeOK, EndFanout, LeaderRestart, GiveUp, Checkpoint, RepairProbe, Lose, vars
<1>6. base' \in [Followers -> Nat] /\ \A f \in Followers : base'[f] <= LastLSN(f)
  <2>1. CASE UNCHANGED base
    BY <2>1 DEF FanoutInv, TypeOK
  <2>2. CASE \E f \in Followers : Checkpoint(f)
    <3>1. \A f \in Followers : LastLSN(f) \in Nat
      BY DEF FanoutInv, TypeOK, LastLSN, Nodes
    <3> QED  BY <2>2, <3>1 DEF FanoutInv, TypeOK, Checkpoint
  <2> QED  BY <2>1, <2>2 DEF EndFanout, LeaderRestart, GiveUp, RepairProbe, Lose, vars
<1>7. TypeOK'
  BY <1>1, <1>4, <1>5, <1>6 DEF FanoutInv, TypeOK, LastLSN
<1>8. GoodCalls
  BY <1>1, <1>2, <1>7, OldCallsGood
<1> QED  BY <1>1, <1>2, <1>4, <1>7, <1>8, Together

\* The operation is answered: its acknowledgements hold it.
LEMMA AnswerStep ==
  ASSUME FanoutInv, Answer
  PROVE  FanoutInv' /\ LogsGrow
<1>1. UNCHANGED <<log, base, rounds, calls, behind>>
  BY DEF Answer
<1>2. LogsGrow /\ ReplicasPrefix'
  BY <1>1, SameLogs
<1>3. fanout # NoFanout /\ fanout \in Fanouts
  BY DEF Answer, FanoutInv, TypeOK
<1>4. fanout' \in Fanouts /\ SameOperation
  BY <1>3 DEF Answer, Fanouts, SameOperation
<1> DEFINE a == [seq |-> fanout.seq, op |-> fanout.op, level |-> fanout.level]
<1>5. answered' = answered \cup {a} /\ a \in [seq : 1..MaxSeq, op : Ops, level : Levels]
  BY <1>3 DEF Answer, Fanouts
<1>6. TypeOK'
  BY <1>1, <1>4, <1>5 DEF FanoutInv, TypeOK, LastLSN
<1>7. GoodCalls
  BY <1>1, <1>2, <1>6, OldCallsGood
<1>8. FanoutTrue'
  BY <1>1, <1>2, <1>4, <1>6, <1>7, FanoutStable
<1>9. Cardinality(Holders(a.seq, a.op)) >= Needed(a.level)
  <2>1. fanout.acks \in SUBSET Nodes /\ fanout.level \in Levels
    BY <1>3 DEF Fanouts
  <2>2. fanout.acks \subseteq Holders(a.seq, a.op)
    BY <1>3, <2>1 DEF FanoutInv, FanoutTrue, Holders
  <2>3. Holders(a.seq, a.op) \in SUBSET Nodes
    BY DEF Holders
  <2>4. Cardinality(fanout.acks) >= Needed(fanout.level)
    BY <2>1, RequiredIs DEF Answer, Acknowledged, Needed
  <2>5. Needed(fanout.level) \in Nat
    BY NeededNat
  <2>6. /\ Cardinality(fanout.acks) \in Nat /\ Cardinality(Holders(a.seq, a.op)) \in Nat
        /\ Cardinality(fanout.acks) <= Cardinality(Holders(a.seq, a.op))
    BY <2>1, <2>2, <2>3, MoreReplicas
  <2>7. a.level = fanout.level
    OBVIOUS
  <2> HIDE DEF a
  <2> QED  BY <2>4, <2>5, <2>6, <2>7
<1>10. AckedDurable'
  <2>1. SUFFICES ASSUME NEW b \in answered'
                 PROVE  Cardinality(Holders(b.seq, b.op)) >= Needed(b.level)
    BY <1>1 DEF AckedDurable, Needed, Holders, Holds, LastLSN
  <2> HIDE DEF a
  <2> QED  BY <1>5, <1>9 DEF FanoutInv, AckedDurable, Needed
<1>11. \A c \in calls' : CallTrue(c)'
  BY <1>7 DEF GoodCalls
<1> QED  BY <1>2, <1>6, <1>8, <1>10, <1>11 DEF FanoutInv

\* Repair sends a snapshot of its own.
LEMMA RepairSendStep ==
  ASSUME FanoutInv, NEW f \in Followers, RepairSend(f)
  PROVE  FanoutInv' /\ LogsGrow
<1>1. UNCHANGED <<log, base, fanout, rounds, answered>>
  BY DEF RepairSend
<1>2. LogsGrow /\ ReplicasPrefix'
  BY <1>1, SameLogs
<1>3. rounds \in Nat /\ 0 \in 0..rounds
  BY FanoutAssumption DEF FanoutInv, TypeOK
<1>4. SnapshotCall(f, 0) \in Calls /\ CallTrue(SnapshotCall(f, 0))
  BY <1>3, SnapshotTrue DEF FanoutInv
<1>5. TypeOK'
  BY <1>1, <1>4 DEF FanoutInv, TypeOK, LastLSN, RepairSend
<1>6. GoodCalls
  <2>1. CallTrue(SnapshotCall(f, 0))'
    BY <1>1, <1>4 DEF CallTrue, SnapshotCall, LastLSN
  <2>2. fanout # NoFanout => rounds # 0
    BY DEF FanoutInv, TypeOK, FanoutTrue, Fanouts
  <2>3. SnapshotCall(f, 0)' = SnapshotCall(f, 0) /\ SnapshotCall(f, 0).round = 0
    BY <1>1 DEF SnapshotCall, LastLSN
  <2>4. \A c \in calls' : c \in calls \/ c = SnapshotCall(f, 0)
    BY DEF RepairSend
  <2>5. \A c \in calls' : c \in calls \/ CallTrue(c)'
    BY <1>1, <1>4, <2>4 DEF CallTrue, LastLSN
  <2> QED  BY <1>1, <1>2, <1>5, <2>2, <2>3, <2>4, <2>5, OldCallsGood
<1>7. SameOperation
  BY <1>1 DEF SameOperation
<1> QED  BY <1>1, <1>2, <1>5, <1>6, <1>7, Together

\* A fan-out begins for a sequence the leader holds.
LEMMA FanoutStarts ==
  ASSUME FanoutInv, LogsGrow, ReplicasPrefix',
         NEW seq \in 1..MaxSeq, NEW op \in Ops, NEW level \in Levels,
         StartFanout(seq, op, level), rounds < MaxRounds, HeldNext(Leader, seq, op),
         log' \in [Nodes -> Seq(Ops)], \A n \in Nodes : LastLSN(n)' <= MaxSeq,
         UNCHANGED <<base, behind, answered>>
  PROVE  FanoutInv'
<1>1. rounds \in Nat /\ rounds' = rounds + 1 /\ rounds' \in 1..MaxRounds
  BY FanoutAssumption DEF FanoutInv, TypeOK, StartFanout
<1>2. fanout' \in Fanouts
  BY <1>1 DEF StartFanout, Fanouts, Nodes
<1>3. \A f \in Followers : AppendCall(f, seq, op, rounds + 1) \in Calls
  BY <1>1, FanoutAssumption DEF AppendCall, Calls
<1>4. \A f \in Followers : base'[f] <= LastLSN(f)'
  BY DEF FanoutInv, TypeOK, LogsGrow, LastLSN, Nodes
<1>5. TypeOK'
  BY <1>1, <1>2, <1>3, <1>4 DEF FanoutInv, TypeOK, StartFanout
<1>6. \A c \in calls' : \/ c \in calls
                        \/ \E f \in Followers : c = AppendCall(f, seq, op, rounds + 1)
  BY DEF StartFanout
<1>7. \A c \in calls : CallTrue(c)'
  <2>1. rounds' >= rounds
    BY <1>1
  <2> QED  BY <1>5, <2>1, CallStable DEF FanoutInv, TypeOK
<1>9. ASSUME NEW c \in calls', c \notin calls
      PROVE  CallTrue(c)' /\ c.seq = seq
  <2>1. c.type = "append" /\ c.seq = seq /\ c.op = op /\ c.round = rounds'
    BY <1>1, <1>6, <1>9 DEF AppendCall
  <2>2. LastLSN(Leader)' \in Nat
    BY DEF LastLSN, Nodes
  <2> QED  BY <1>1, <2>1, <2>2 DEF CallTrue, HeldNext, LastLSN
<1>10. \A c \in calls : c.round # rounds'
  BY <1>1, FanoutAssumption DEF FanoutInv, CallTrue, TypeOK, Calls
<1>11. FanoutTrue'
  <2>1. fanout'.round = rounds' /\ fanout'.seq = seq /\ fanout'.op = op /\ fanout'.acks = {Leader}
    BY <1>1 DEF StartFanout
  <2>2. \A c \in calls' : c.round = rounds' => c.seq = seq
    BY <1>9, <1>10
  <2> QED  BY <2>1, <2>2 DEF FanoutTrue, HeldNext, Holds, LastLSN
<1>12. AckedDurable'
  BY <1>5, AckedStable DEF FanoutInv
<1> QED  BY <1>5, <1>7, <1>9, <1>11, <1>12 DEF FanoutInv

\* The leader appends a new mutation and fans it out.
LEMMA CommitStep ==
  ASSUME FanoutInv, NEW op \in Ops, NEW level \in Levels, commitLeaderShard(op, level)
  PROVE  FanoutInv' /\ LogsGrow
<1>1. log[Leader] \in Seq(Ops) /\ \A n \in Nodes : LastLSN(n) \in Nat
  BY DEF FanoutInv, TypeOK, LastLSN, Nodes
<1>2. /\ log' = [log EXCEPT ![Leader] = Append(log[Leader], op)]
      /\ log'[Leader] = Append(log[Leader], op)
      /\ \A f \in Followers : log'[f] = log[f]
  BY FanoutAssumption DEF commitLeaderShard, FanoutInv, TypeOK, Nodes
<1>3. /\ Append(log[Leader], op) \in Seq(Ops)
      /\ Len(Append(log[Leader], op)) = Len(log[Leader]) + 1
      /\ Append(log[Leader], op)[Len(log[Leader]) + 1] = op
      /\ \A s \in 1..Len(log[Leader]) : Append(log[Leader], op)[s] = log[Leader][s]
  BY <1>1, AppendFacts
<1>4. LogsGrow
  BY <1>1, <1>2, <1>3 DEF LogsGrow, LastLSN, Nodes
<1>5. log' \in [Nodes -> Seq(Ops)]
  BY <1>2, <1>3 DEF FanoutInv, TypeOK
<1>6. LastLSN(Leader) + 1 \in 1..MaxSeq
  BY <1>1, FanoutAssumption DEF commitLeaderShard, Nodes
<1>7. \A n \in Nodes : LastLSN(n)' <= MaxSeq
  BY <1>2, <1>3, <1>6 DEF FanoutInv, TypeOK, LastLSN, Nodes
<1>8. HeldNext(Leader, LastLSN(Leader) + 1, op)
  BY <1>1, <1>2, <1>3 DEF HeldNext, LastLSN, Nodes
<1>9. ReplicasPrefix'
  BY <1>1, <1>2, <1>3 DEF FanoutInv, ReplicasPrefix, LastLSN, Nodes
<1>10. /\ StartFanout(LastLSN(Leader) + 1, op, level) /\ rounds < MaxRounds
       /\ UNCHANGED <<base, behind, answered>>
  BY DEF commitLeaderShard, CanStart
<1> QED  BY <1>4, <1>5, <1>6, <1>7, <1>8, <1>9, <1>10, FanoutStarts

\* A keyed batch is fanned out again.
LEMMA RetryStep ==
  ASSUME FanoutInv, NEW seq \in 1..MaxSeq, NEW level \in Levels, RetryBatch(seq, level)
  PROVE  FanoutInv' /\ LogsGrow
<1>1. UNCHANGED log
  BY DEF RetryBatch
<1>2. LogsGrow /\ ReplicasPrefix'
  BY <1>1, SameLogs
<1>3. log[Leader][seq] \in Ops /\ HeldNext(Leader, seq, log[Leader][seq])
  BY <1>1 DEF RetryBatch, HeldNext, LastLSN, Ops
<1>4. log' \in [Nodes -> Seq(Ops)] /\ \A n \in Nodes : LastLSN(n)' <= MaxSeq
  BY <1>1 DEF FanoutInv, TypeOK, LastLSN
<1>5. /\ StartFanout(seq, log[Leader][seq], level) /\ rounds < MaxRounds
      /\ UNCHANGED <<base, behind, answered>>
  BY DEF RetryBatch, CanStart
<1> QED  BY <1>2, <1>3, <1>4, <1>5, FanoutStarts

\* The leader handles a follower's result: an acknowledgement is from a follower
\* that holds the operation, and a catch-up snapshot covers it.
LEMMA ResultHandled ==
  ASSUME FanoutInv, NEW c \in calls, NEW result, HandleResult(c, result),
         LogsGrow, ReplicasPrefix', log' \in [Nodes -> Seq(Ops)],
         \A n \in Nodes : LastLSN(n)' <= MaxSeq,
         base' \in [Followers -> Nat], \A f \in Followers : base'[f] <= LastLSN(f)',
         result = "ok" /\ Awaited(c) => HeldNext(c.to, fanout.seq, fanout.op),
         UNCHANGED <<rounds, behind, answered>>
  PROVE  FanoutInv'
<1>1. c \in Calls /\ c.to \in Followers /\ c.round \in 0..rounds /\ rounds \in 0..MaxRounds
  BY FanoutAssumption DEF FanoutInv, TypeOK, Calls, CallTrue
<1>2. /\ fanout' = NoFanout \/ fanout' \in Fanouts
      /\ SameOperation
  <2>1. CASE UNCHANGED fanout
    BY <2>1 DEF FanoutInv, TypeOK, SameOperation
  <2>2. CASE Awaited(c) /\ fanout' = Failed(c.to)
    BY <2>2 DEF Awaited, FanoutInv, TypeOK, SameOperation, Failed, Fanouts
  <2>3. CASE Awaited(c) /\ result = "ok" /\ fanout' = Acked(c.to)
    <3>1. fanout # NoFanout /\ fanout \in Fanouts /\ c.to \in Nodes
      BY <1>1, <2>3 DEF Awaited, FanoutInv, TypeOK, Nodes
    <3>2. /\ fanout' = [fanout EXCEPT !.pending = fanout.pending \ {c.to},
                                      !.acks = fanout.acks \cup {c.to}]
          /\ fanout' \in Fanouts
      BY <2>3, <3>1 DEF Acked, Fanouts
    <3>3. /\ fanout'.seq = fanout.seq /\ fanout'.op = fanout.op
          /\ fanout'.round = fanout.round /\ fanout'.acks = fanout.acks \cup {c.to}
      BY <3>1, <3>2 DEF Fanouts
    <3> QED  BY <2>3, <3>1, <3>2, <3>3 DEF SameOperation
  <2> QED  BY <2>1, <2>2, <2>3 DEF HandleResult
<1>3. \A d \in calls' : \/ d \in calls
                        \/ Awaited(c) /\ d = SnapshotCall(c.to, c.round)
  BY DEF HandleResult
<1>4. SnapshotCall(c.to, c.round) \in Calls /\ CallTrue(SnapshotCall(c.to, c.round))
  BY <1>1, SnapshotTrue DEF FanoutInv
<1>5. TypeOK'
  BY <1>2, <1>3, <1>4 DEF FanoutInv, TypeOK
<1>6. \A d \in calls' : d \in Calls /\ CallTrue(d)
  BY <1>3, <1>4 DEF FanoutInv, TypeOK
<1>7. \A d \in calls' : CallTrue(d)'
  <2>1. rounds' >= rounds
    BY <1>1, FanoutAssumption
  <2> QED  BY <1>5, <1>6, <2>1, CallStable DEF FanoutInv
<1>8. ASSUME Awaited(c)
      PROVE  /\ SnapshotCall(c.to, c.round).seq >= fanout.seq
             /\ SnapshotCall(c.to, c.round).type # "append"
  BY <1>8 DEF Awaited, FanoutInv, FanoutTrue, Holds, SnapshotCall, TypeOK, Fanouts, LastLSN, Nodes
<1>9. GoodCalls
  BY <1>3, <1>5, <1>7, <1>8, OldCallsGood
<1> QED  BY <1>2, <1>5, <1>9, Together

\* A follower receives an append: it appends the next sequence, recognises one it
\* holds, or refuses.
LEMMA AppendDeliveredStep ==
  ASSUME FanoutInv, NEW c \in calls, internalReplicaAppend(c)
  PROVE  FanoutInv' /\ LogsGrow
<1> DEFINE f == c.to
<1> DEFINE verdict == ReplicaVerdict(f, c.seq, c.op)
<1>1. /\ c \in Calls /\ f \in Followers /\ f \in Nodes /\ f # Leader /\ c.type = "append"
      /\ c.seq \in 1..LastLSN(Leader) /\ log[Leader][c.seq] = c.op
  BY FanoutAssumption DEF internalReplicaAppend, FanoutInv, TypeOK, Calls, CallTrue, Nodes
<1>2. /\ log[f] \in Seq(Ops) /\ \A n \in Nodes : LastLSN(n) \in Nat
      /\ log[Leader] \in Seq(Ops) /\ LastLSN(Leader) \in 0..MaxSeq
  BY <1>1, FanoutAssumption DEF FanoutInv, TypeOK, LastLSN, Nodes
<1>3. c.op \in Ops
  BY <1>1, <1>2 DEF LastLSN
<1>4. /\ HandleResult(c, verdict) /\ UNCHANGED <<base, rounds, behind, answered>>
      /\ log' = IF verdict = "ok" /\ c.seq > LastLSN(f)
                THEN [log EXCEPT ![f] = Append(log[f], c.op)] ELSE log
  BY DEF internalReplicaAppend
<1>5. /\ Append(log[f], c.op) \in Seq(Ops)
      /\ Len(Append(log[f], c.op)) = Len(log[f]) + 1
      /\ Append(log[f], c.op)[Len(log[f]) + 1] = c.op
      /\ \A s \in 1..Len(log[f]) : Append(log[f], c.op)[s] = log[f][s]
  BY <1>2, <1>3, AppendFacts
<1>6. verdict = "ok" => \/ c.seq = LastLSN(f) + 1
                        \/ c.seq <= LastLSN(f) /\ log[f][c.seq] = c.op
  BY <1>1, <1>2 DEF ReplicaVerdict
<1>7. CASE verdict = "ok" /\ c.seq > LastLSN(f)
  <2>1. c.seq = LastLSN(f) + 1
    BY <1>1, <1>2, <1>6, <1>7
  <2>2. log' \in [Nodes -> Seq(Ops)] /\ log'[f] = Append(log[f], c.op)
        /\ \A n \in Nodes : n # f => log'[n] = log[n]
    BY <1>1, <1>4, <1>5, <1>7 DEF FanoutInv, TypeOK
  <2>3. /\ Len(log'[f]) = Len(log[f]) + 1 /\ log'[f][Len(log[f]) + 1] = c.op
        /\ \A s \in 1..Len(log[f]) : log'[f][s] = log[f][s]
    BY <1>5, <2>2
  <2>4. Len(log[f]) \in Nat /\ c.seq = Len(log[f]) + 1 /\ c.seq <= MaxSeq
    <3>1. c.seq <= MaxSeq
      <4> HIDE DEF f
      <4> QED  BY <1>1, <1>2, FanoutAssumption
    <3>2. Len(log[f]) \in Nat
      BY <1>2
    <3> QED  BY <2>1, <3>1, <3>2 DEF LastLSN
  <2> HIDE DEF f, verdict
  <2>5. LogsGrow
    <3>1. ASSUME NEW n \in Nodes
          PROVE  /\ Len(log'[n]) >= Len(log[n])
                 /\ \A s \in 1..Len(log[n]) : log'[n][s] = log[n][s]
      <4>1. CASE n = f
        BY <2>3, <2>4, <4>1
      <4>2. CASE n # f
        BY <1>2, <2>2, <4>2 DEF LastLSN
      <4> QED  BY <4>1, <4>2
    <3> QED  BY <3>1 DEF LogsGrow, LastLSN
  <2>6. \A n \in Nodes : LastLSN(n)' <= MaxSeq
    <3>1. ASSUME NEW n \in Nodes PROVE Len(log'[n]) <= MaxSeq
      <4>1. CASE n = f
        BY <2>3, <2>4, <4>1
      <4>2. CASE n # f
        BY <2>2, <4>2 DEF LastLSN, FanoutInv, TypeOK
      <4> QED  BY <4>1, <4>2
    <3> QED  BY <3>1 DEF LastLSN
  <2>7. ReplicasPrefix'
    <3>1. ASSUME NEW g \in Followers
          PROVE  /\ LastLSN(g)' <= LastLSN(Leader)'
                 /\ \A s \in 1..LastLSN(g)' : log'[g][s] = log'[Leader][s]
      <4>1. log'[Leader] = log[Leader]
        BY <1>1, <2>2 DEF Nodes
      <4>2. CASE g # f
        BY <2>2, <4>1, <4>2 DEF FanoutInv, ReplicasPrefix, LastLSN, Nodes
      <4>3. CASE g = f
        <5>1. /\ Len(log[f]) + 1 <= Len(log[Leader]) /\ log[Leader][Len(log[f]) + 1] = c.op
              /\ \A s \in 1..Len(log[f]) : log[f][s] = log[Leader][s]
          BY <1>1, <2>4 DEF FanoutInv, ReplicasPrefix, LastLSN
        <5>2. \A s \in 1..(Len(log[f]) + 1) : log'[f][s] = log[Leader][s]
          BY <2>3, <2>4, <5>1, SMTT(60)
        <5> QED  BY <2>3, <4>1, <4>3, <5>1, <5>2 DEF LastLSN
      <4> QED  BY <4>2, <4>3
    <3> QED  BY <3>1 DEF ReplicasPrefix
  <2>8. base' \in [Followers -> Nat] /\ \A g \in Followers : base'[g] <= LastLSN(g)'
    BY <1>2, <1>4, <2>5 DEF FanoutInv, TypeOK, LogsGrow, LastLSN, Nodes
  <2>9. HeldNext(f, c.seq, c.op)
    BY <1>1, <1>2, <1>5, <2>1, <2>2 DEF HeldNext, LastLSN
  <2>10. Awaited(c) => c.seq = fanout.seq /\ c.op = fanout.op
    BY <1>1 DEF Awaited, FanoutInv, FanoutTrue, Holds
  <2>11. Awaited(c) => HeldNext(c.to, fanout.seq, fanout.op)
    BY <2>9, <2>10 DEF f
  <2> QED  BY <1>4, <2>2, <2>5, <2>6, <2>7, <2>8, <2>11, ResultHandled
<1>8. CASE ~(verdict = "ok" /\ c.seq > LastLSN(f))
  <2>1. UNCHANGED log
    BY <1>4, <1>8
  <2>2. LogsGrow /\ ReplicasPrefix'
    BY <2>1, SameLogs
  <2>3. /\ log' \in [Nodes -> Seq(Ops)] /\ \A n \in Nodes : LastLSN(n)' <= MaxSeq
        /\ base' \in [Followers -> Nat] /\ \A g \in Followers : base'[g] <= LastLSN(g)'
    BY <1>4, <2>1 DEF FanoutInv, TypeOK, LastLSN
  <2>4. verdict = "ok" => HeldNext(f, c.seq, c.op)
    BY <1>1, <1>2, <1>6, <1>8, <2>1 DEF HeldNext, LastLSN
  <2>5. Awaited(c) => c.seq = fanout.seq /\ c.op = fanout.op
    BY <1>1 DEF Awaited, FanoutInv, FanoutTrue, Holds
  <2> HIDE DEF f, verdict
  <2>6. verdict = "ok" /\ Awaited(c) => HeldNext(c.to, fanout.seq, fanout.op)
    BY <2>4, <2>5 DEF f
  <2> QED  BY <1>4, <2>2, <2>3, <2>6, ResultHandled
<1> QED  BY <1>7, <1>8

\* A follower receives a snapshot: it takes the leader's log, or refuses an older
\* one.
LEMMA SnapshotDeliveredStep ==
  ASSUME FanoutInv, NEW c \in calls, internalReplicaSnapshot(c)
  PROVE  FanoutInv' /\ LogsGrow
<1> DEFINE f == c.to
<1>1. /\ c \in Calls /\ f \in Followers /\ f \in Nodes /\ f # Leader /\ c.type = "snapshot"
      /\ c.log \in Seq(Ops) /\ c.seq = Len(c.log) /\ c.seq <= LastLSN(Leader)
      /\ \A s \in 1..c.seq : c.log[s] = log[Leader][s]
  BY FanoutAssumption DEF internalReplicaSnapshot, FanoutInv, TypeOK, Calls, CallTrue, Nodes
<1>2. /\ \A n \in Nodes : LastLSN(n) \in 0..MaxSeq
      /\ log[Leader] \in Seq(Ops) /\ Leader \in Nodes
  BY FanoutAssumption DEF FanoutInv, TypeOK, LastLSN, Nodes
<1>3. UNCHANGED <<rounds, behind, answered>>
  BY DEF internalReplicaSnapshot
<1>4. CASE SnapshotFresh(c)
  <2>1. /\ log' = [log EXCEPT ![f] = c.log] /\ base' = [base EXCEPT ![f] = c.seq]
        /\ HandleResult(c, "ok") /\ c.seq >= LastLSN(f)
    BY <1>4 DEF internalReplicaSnapshot, SnapshotFresh
  <2>2. /\ log' \in [Nodes -> Seq(Ops)] /\ log'[f] = c.log
        /\ \A n \in Nodes : n # f => log'[n] = log[n]
    BY <1>1, <2>1 DEF FanoutInv, TypeOK
  <2>3. LogsGrow
    <3>1. ASSUME NEW s \in 1..LastLSN(f) PROVE c.log[s] = log[f][s]
      BY <1>1, <1>2, <2>1 DEF FanoutInv, ReplicasPrefix, LastLSN
    <3> QED  BY <1>1, <1>2, <2>1, <2>2, <3>1 DEF LogsGrow, LastLSN
  <2>4. \A n \in Nodes : LastLSN(n)' <= MaxSeq
    <3>1. ASSUME NEW n \in Nodes PROVE Len(log'[n]) <= MaxSeq
      <4>1. CASE n = f
        BY <1>1, <1>2, <2>2, <4>1, FanoutAssumption DEF LastLSN
      <4>2. CASE n # f
        BY <2>2, <4>2 DEF LastLSN, FanoutInv, TypeOK
      <4> QED  BY <4>1, <4>2
    <3> QED  BY <3>1 DEF LastLSN
  <2>5. ReplicasPrefix'
    <3>1. log'[Leader] = log[Leader]
      BY <1>1, <1>2, <2>2
    <3>2. ASSUME NEW g \in Followers
          PROVE  /\ LastLSN(g)' <= LastLSN(Leader)'
                 /\ \A s \in 1..LastLSN(g)' : log'[g][s] = log'[Leader][s]
      <4>1. CASE g # f
        BY <2>2, <3>1, <4>1 DEF FanoutInv, ReplicasPrefix, LastLSN, Nodes
      <4>2. CASE g = f
        BY <1>1, <2>2, <3>1, <4>2 DEF LastLSN
      <4> QED  BY <4>1, <4>2
    <3> QED  BY <3>2 DEF ReplicasPrefix
  <2>6. base' \in [Followers -> Nat] /\ \A g \in Followers : base'[g] <= LastLSN(g)'
    <3>1. c.seq \in Nat
      BY <1>1
    <3> QED  BY <1>1, <2>1, <2>2, <3>1 DEF FanoutInv, TypeOK, LastLSN, Nodes
  <2>7. Awaited(c) => HeldNext(c.to, fanout.seq, fanout.op)
    <3>1. ASSUME Awaited(c)
          PROVE  fanout.seq \in 1..c.seq /\ log[Leader][fanout.seq] = fanout.op
      <4>1. fanout # NoFanout /\ fanout \in Fanouts /\ fanout.round = rounds /\ c.round = rounds
        BY <3>1 DEF Awaited, FanoutInv, FanoutTrue, TypeOK
      <4>2. c.seq >= fanout.seq /\ fanout.seq \in 1..MaxSeq /\ log[Leader][fanout.seq] = fanout.op
        BY <4>1 DEF FanoutInv, FanoutTrue, Holds, Fanouts
      <4> QED  BY <1>1, <4>2
    <3> QED  BY <1>1, <2>2, <3>1 DEF HeldNext
  <2> QED  BY <1>3, <2>1, <2>2, <2>3, <2>4, <2>5, <2>6, <2>7, ResultHandled
<1>5. CASE ~SnapshotFresh(c)
  <2>1. UNCHANGED <<log, base>> /\ HandleResult(c, "conflict")
    BY <1>5 DEF internalReplicaSnapshot
  <2>2. LogsGrow /\ ReplicasPrefix'
    BY <2>1, SameLogs
  <2>3. /\ log' \in [Nodes -> Seq(Ops)] /\ \A n \in Nodes : LastLSN(n)' <= MaxSeq
        /\ base' \in [Followers -> Nat] /\ \A g \in Followers : base'[g] <= LastLSN(g)'
    BY <2>1 DEF FanoutInv, TypeOK, LastLSN
  <2> QED  BY <1>3, <2>1, <2>2, <2>3, ResultHandled
<1> QED  BY <1>4, <1>5

-----------------------------------------------------------------------------
(* The invariant and what follows from it *)

LEMMA InitInv == Init => FanoutInv
<1> SUFFICES ASSUME Init PROVE FanoutInv
  OBVIOUS
<1>1. \A n \in Nodes : LastLSN(n) = 0
  BY DEF Init, LastLSN
<1>2. TypeOK
  BY <1>1, FanoutAssumption DEF Init, TypeOK, Nodes
<1>3. ReplicasPrefix
  BY <1>1 DEF ReplicasPrefix, Nodes
<1> QED  BY <1>2, <1>3 DEF Init, FanoutInv, FanoutTrue, AckedDurable

LEMMA Inductive == FanoutInv /\ [Next]_vars => FanoutInv' /\ LogsGrow
<1> SUFFICES ASSUME FanoutInv, [Next]_vars PROVE FanoutInv' /\ LogsGrow
  OBVIOUS
<1>1. ASSUME NEW op \in Ops, NEW level \in Levels, commitLeaderShard(op, level)
      PROVE  FanoutInv' /\ LogsGrow
  BY <1>1, CommitStep
<1>2. ASSUME NEW seq \in 1..MaxSeq, NEW level \in Levels, RetryBatch(seq, level)
      PROVE  FanoutInv' /\ LogsGrow
  BY <1>2, RetryStep
<1>3. CASE Answer
  BY <1>3, AnswerStep
<1>4. CASE \/ EndFanout \/ LeaderRestart
           \/ \E f \in Followers : GiveUp(f) \/ Checkpoint(f) \/ RepairProbe(f)
           \/ \E c \in calls : Lose(c)
           \/ UNCHANGED vars
  BY <1>4, QuietStep
<1>5. ASSUME NEW f \in Followers, RepairSend(f) PROVE FanoutInv' /\ LogsGrow
  BY <1>5, RepairSendStep
<1>6. ASSUME NEW c \in calls, internalReplicaAppend(c) PROVE FanoutInv' /\ LogsGrow
  BY <1>6, AppendDeliveredStep
<1>7. ASSUME NEW c \in calls, internalReplicaSnapshot(c) PROVE FanoutInv' /\ LogsGrow
  BY <1>7, SnapshotDeliveredStep
<1> QED  BY <1>1, <1>2, <1>3, <1>4, <1>5, <1>6, <1>7 DEF Next

\* Replicas, requests in flight and the operation in progress always repeat the
\* leader's log (replication_fanout.go, replication.go, replica_repair.go).
THEOREM FanoutCorrect == Spec => []FanoutInv
  BY InitInv, Inductive, PTL DEF Spec

\* The variables of the replica set keep their types, and no follower drops
\* fingerprints beyond its log.
THEOREM FanoutTypeCorrect == Spec => []TypeOK
<1>1. FanoutInv => TypeOK
  BY DEF FanoutInv
<1> QED  BY <1>1, FanoutCorrect, PTL

\* No follower holds anything else than the leader, at any sequence, whatever is
\* delayed, lost, retried or repaired (engine.go ApplyReplicaBatch,
\* InstallReplicaSnapshot).
THEOREM ReplicasAgree == Spec => []ReplicasPrefix
<1>1. FanoutInv => ReplicasPrefix
  BY DEF FanoutInv
<1> QED  BY <1>1, FanoutCorrect, PTL

\* A write answered as committed stays on as many replicas as its level asks for
\* (replication_fanout.go requiredAcknowledgements).
THEOREM CommittedStays == Spec => []AckedDurable
<1>1. FanoutInv => AckedDurable
  BY DEF FanoutInv
<1> QED  BY <1>1, FanoutCorrect, PTL

\* No delayed append or snapshot takes a follower back (engine.go
\* InstallReplicaSnapshot refuses an older one).
THEOREM FollowersNeverGoBack == Spec => NoRollback
<1>1. FanoutInv /\ [Next]_vars => [\A f \in Followers : LastLSN(f)' >= LastLSN(f)]_vars
  BY Inductive DEF LogsGrow, Nodes
<1> QED  BY <1>1, FanoutCorrect, PTL DEF Spec, NoRollback

-----------------------------------------------------------------------------
(* Rebalancing moves shards between nodes.  Moves is module Rebalance, with  *)
(* its nodes and logs under names of their own.                              *)

CONSTANTS Members, Shards, Capacities, Score, RF, InitialVoters, Configured, Serving, Changes,
          NoNode, NoPlan, NoWork, Unset, Faults, MaxEpoch, MaxWrites, MaxDisruptions
VARIABLES views, epoch, term, seen, copies, acked, written, barriers, unsaved, journal, work,
          owned, active, crashes

Moves == INSTANCE Rebalance WITH Nodes <- Members, log <- copies

\* Every node has one log for every shard.
LogShape == copies = [n \in Members |-> [s \in Shards |-> copies[n][s]]]

OwnershipInv == LogShape /\ owned = [n \in Members |-> owned[n]] /\ Moves!OwnershipHolds

\* A log becomes non-empty only at a node that owns the shard.
Appends ==
    \A n \in Members, s \in Shards : copies'[n][s] # <<>> => copies[n][s] # <<>> \/ Moves!Owns(n, s)

-----------------------------------------------------------------------------
(* Its steps *)

\* At first no log holds anything.
LEMMA InitOwnership == Moves!Init => OwnershipInv
  BY DEF Moves!Init, OwnershipInv, LogShape, Moves!OwnershipHolds

\* A step that appends only where the shard is owned, and assigns nothing.
LEMMA AppendsOwned ==
    ASSUME OwnershipInv, LogShape', Appends, UNCHANGED owned
    PROVE  OwnershipInv'
  BY DEF OwnershipInv, Appends, Moves!OwnershipHolds, Moves!Owns

\* InstallReplicaSnapshot at the target of an action.
LEMMA StagedOwned ==
    ASSUME OwnershipInv, NEW a, Moves!Owns(a.target, a.shard), Moves!Staged(a), UNCHANGED owned
    PROVE  OwnershipInv'
<1>1. copies' = [copies EXCEPT ![a.target][a.shard] = copies[a.source][a.shard]]
  BY DEF Moves!Staged
<1> DEFINE t == a.target
           x == a.shard
           v == copies[a.source][a.shard]
<1>2. copies' = [copies EXCEPT ![t] = [copies[t] EXCEPT ![x] = v]]
  BY <1>1
<1> HIDE DEF v, t, x
<1>3. copies = [n \in Members |-> [s \in Shards |-> copies[n][s]]]
  BY DEF OwnershipInv, LogShape
<1>4. ASSUME NEW n \in Members
      PROVE  /\ copies'[n] = [s \in Shards |-> copies'[n][s]]
             /\ \A s \in Shards : copies'[n][s] = copies[n][s] \/ (n = t /\ s = x)
  <2>1. copies[n] = [s \in Shards |-> copies[n][s]]
    BY <1>3
  <2>2. copies'[n] = IF n = t THEN [copies[n] EXCEPT ![x] = v] ELSE copies[n]
    BY <1>2, <1>3
  <2> QED BY <2>1, <2>2
<1>5. LogShape'
  <2>1. DOMAIN copies' = Members /\ copies' = [n \in DOMAIN copies' |-> copies'[n]]
    BY <1>2, <1>3
  <2> QED BY <1>4, <2>1 DEF LogShape
<1>6. Appends
  BY <1>4 DEF Appends, t, x
<1> QED BY <1>5, <1>6, AppendsOwned

\* The actions of a plan (streamLatest, whether or not the coordinator is told).
LEMMA ActionsOwned ==
    ASSUME OwnershipInv, NEW n \in Members, Moves!ExecuteAction(n) \/ Moves!ActionUnanswered(n)
    PROVE  OwnershipInv'
<1> DEFINE a == Moves!NextAction(n)
<1>1. (UNCHANGED copies \/ (Moves!TargetAccepts(n, a) /\ Moves!Staged(a))) /\ UNCHANGED owned
  BY DEF Moves!ExecuteAction, Moves!ActionUnanswered
<1> HIDE DEF a
<1>2. CASE UNCHANGED copies
  BY <1>1, <1>2, AppendsOwned DEF OwnershipInv, LogShape, Appends
<1>3. CASE Moves!TargetAccepts(n, a) /\ Moves!Staged(a)
  <2>1. Moves!Owns(a.target, a.shard)
    BY <1>3 DEF Moves!TargetAccepts
  <2> QED BY <1>1, <1>3, <2>1, StagedOwned
<1> QED BY <1>1, <1>2, <1>3

\* ApplyShardOwnership: the shards that are left out have no data.
LEMMA ActivateOwned ==
    ASSUME OwnershipInv, NEW n \in Members, Moves!ActivateOwnership(n)
    PROVE  OwnershipInv'
<1> DEFINE assigned == {s \in Shards : n \in Moves!Range(Moves!Replicas(n, s))}
<1>1. /\ Moves!Assignable(n, assigned) /\ owned' = [owned EXCEPT ![n] = assigned] /\ UNCHANGED copies
      /\ assigned \subseteq Shards
  BY DEF Moves!ActivateOwnership, Moves!shardData
<1> HIDE DEF assigned
<1>2. LogShape' /\ owned' = [m \in Members |-> owned'[m]]
  BY <1>1 DEF OwnershipInv, LogShape
<1>3. ASSUME NEW m \in Members, NEW s \in Shards, copies'[m][s] # <<>> PROVE Moves!Owns(m, s)'
  <2>1. Moves!Owns(m, s)
    BY <1>1, <1>3 DEF OwnershipInv, Moves!OwnershipHolds
  <2>2. CASE m # n
    <3>1. owned'[m] = owned[m]
      BY <1>1, <2>2 DEF OwnershipInv
    <3> QED BY <2>1, <3>1 DEF Moves!Owns
  <2>3. CASE m = n
    <3>1. owned'[m] = assigned
      BY <1>1, <2>3 DEF OwnershipInv
    <3>2. s \in assigned
      <4>1. CASE owned[n] = Unset
        BY <1>1, <1>3, <2>3, <4>1 DEF Moves!Assignable
      <4>2. CASE owned[n] # Unset
        BY <1>1, <2>1, <2>3, <4>2 DEF Moves!Assignable, Moves!Owns
      <4> QED BY <4>1, <4>2
    <3> QED BY <3>1, <3>2 DEF Moves!Owns
  <2> QED BY <2>2, <2>3
<1> QED BY <1>2, <1>3 DEF OwnershipInv, Moves!OwnershipHolds

\* commitLeaderShardBatch, internalReplicaAppend: leader and followers own the shard.
LEMMA WriteOwned ==
    ASSUME OwnershipInv, NEW n \in Members, NEW s \in Shards, Moves!Write(n, s)
    PROVE  OwnershipInv'
<1>1. /\ Moves!Owns(n, s) /\ UNCHANGED owned
  BY DEF Moves!Write
<1>2. PICK reached \in SUBSET {f \in Moves!Range(Moves!Replicas(n, s)) \ {n} : Moves!FollowerAccepts(n, f, s)} :
        copies' = [m \in Members |->
                [copies[m] EXCEPT ![s] = IF m = n THEN Append(@, written')
                                      ELSE IF m \in reached THEN Moves!FollowerLog(n, m, s, written') ELSE @]]
  BY DEF Moves!Write
<1>3. \A m \in reached : Moves!Owns(m, s)
  BY <1>2 DEF Moves!FollowerAccepts
<1>4. ASSUME NEW m \in Members
      PROVE  /\ copies'[m] = [x \in Shards |-> copies'[m][x]]
             /\ \A x \in Shards : copies'[m][x] = copies[m][x] \/ (x = s /\ (m = n \/ m \in reached))
  <2>1. copies[m] = [x \in Shards |-> copies[m][x]]
    BY DEF OwnershipInv, LogShape
  <2> DEFINE v == IF m = n THEN Append(copies[m][s], written')
                  ELSE IF m \in reached THEN Moves!FollowerLog(n, m, s, written') ELSE copies[m][s]
  <2>2. copies'[m] = [copies[m] EXCEPT ![s] = v]
    BY <1>2
  <2>3. m = n \/ m \in reached \/ v = copies[m][s]
    OBVIOUS
  <2> HIDE DEF v
  <2> QED BY <2>1, <2>2, <2>3
<1>5. LogShape'
  <2>1. DOMAIN copies' = Members /\ copies' = [m \in DOMAIN copies' |-> copies'[m]]
    BY <1>2
  <2> QED BY <1>4, <2>1 DEF LogShape
<1>6. Appends
  BY <1>1, <1>3, <1>4 DEF Appends
<1> QED BY <1>1, <1>5, <1>6, AppendsOwned

\* Every other step leaves logs and ownership alone.
LEMMA OtherOwned ==
    ASSUME OwnershipInv, UNCHANGED <<copies, owned>>
    PROVE  OwnershipInv'
  BY AppendsOwned DEF OwnershipInv, LogShape, Appends

\* Every step preserves the invariant.
LEMMA NextOwned == ASSUME OwnershipInv, [Moves!Next]_(Moves!vars) PROVE OwnershipInv'
<1>1. CASE \E n \in Members : Moves!ExecuteAction(n) \/ Moves!ActionUnanswered(n)
  BY <1>1, ActionsOwned
<1>2. CASE \E n \in Members : Moves!ActivateOwnership(n)
  BY <1>2, ActivateOwned
<1>3. CASE \E n \in Members, s \in Shards : Moves!Write(n, s)
  BY <1>3, WriteOwned
<1>4. ASSUME NEW n \in Members, NEW change \in Changes,
             Moves!PrepareStart(n, change) \/ Moves!ApplyCheck(n, change) \/ Moves!Abort(n, change)
      PROVE  UNCHANGED <<copies, owned>>
  BY <1>4 DEF Moves!PrepareStart, Moves!ApplyCheck, Moves!Abort, Moves!shardData
<1>5. ASSUME NEW n \in Members,
             \/ Moves!FreezeFails(n) \/ Moves!PrepareFinish(n) \/ Moves!RequestFails(n)
             \/ Moves!ApplyCommit(n) \/ Moves!ApplyRelease(n)
      PROVE  UNCHANGED <<copies, owned>>
  BY <1>5 DEF Moves!FreezeFails, Moves!PrepareFinish, Moves!RequestFails, Moves!ApplyCommit,
              Moves!ApplyRelease, Moves!shardData
<1>6. ASSUME NEW n \in Members,
             Moves!AdvanceEpoch(n) \/ Moves!LearnEpoch(n) \/ Moves!Hear(n) \/ Moves!Restart(n) \/ Moves!Elect(n)
      PROVE  UNCHANGED <<copies, owned>>
  BY <1>6 DEF Moves!AdvanceEpoch, Moves!LearnEpoch, Moves!Hear, Moves!Restart, Moves!Elect, Moves!shardData
<1>7. CASE UNCHANGED Moves!vars
  BY <1>7, OtherOwned DEF Moves!vars
<1> QED BY <1>1, <1>2, <1>3, <1>4, <1>5, <1>6, <1>7, OtherOwned DEF Moves!Next

-----------------------------------------------------------------------------
(* Its theorems *)

\* The invariant holds in every reachable state.
THEOREM OwnershipCorrect == Moves!Spec => []OwnershipInv
<1> QED BY InitOwnership, NextOwned, PTL DEF Moves!Spec

\* A shard that a node persistently does not own holds no data there, whatever
\* plans are staged, aborted or applied, at whatever epochs the writes, the
\* snapshots and the assignment of shards meet (ApplyShardOwnership,
\* internalRebalanceSnapshot, internalReplicaAppend).
THEOREM NothingToPrune == Moves!Spec => []Moves!OwnershipHolds
<1>1. OwnershipInv => Moves!OwnershipHolds
  BY DEF OwnershipInv
<1> QED BY OwnershipCorrect, <1>1, PTL
=============================================================================
