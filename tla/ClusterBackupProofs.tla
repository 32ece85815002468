------------------------ MODULE ClusterBackupProofs ------------------------
(***************************************************************************)
(* Theorems about ClusterBackup, for any nodes, shards, replica sets,      *)
(* mutations, backups and number of restarts.                              *)
(***************************************************************************)
EXTENDS ClusterBackup, FiniteSetTheorems, WellFoundedInduction, TLAPS

-----------------------------------------------------------------------------
(* The inductive invariants *)

Handlers == [write : Writes, kind : {"entry", "owner", "replica"}, node : Nodes,
             transport : {"http", "grpc"}, pc : {"sent", "checked", "in", "out"}, late : BOOLEAN]
Logs == [Nodes -> [Shards -> Seq(Writes)]]
Outcomes == {"new", "open", "committed", "unknown", "failed"}

\* The variables of the mutations.
DataType ==
    /\ log \in Logs /\ handlers \subseteq Handlers
    /\ acks \in [Writes -> SUBSET Nodes] /\ outcome \in [Writes -> Outcomes]

Stored(w, n) == w \in Range(log[n][Shard[w]])
Unstored(w) == \A n \in Nodes : ~Stored(w, n)
PrefixOf(a, c) == Len(a) <= Len(c) /\ \A i \in 1..Len(a) : a[i] = c[i]

\* A mutation has one handler of each kind, and one for each follower.
Identical(g, h) == g.write = h.write /\ g.kind = h.kind /\ (g.kind = "replica" => g.node = h.node)
HandlersUnique == \A g, h \in handlers : Identical(g, h) => g = h

\* Where a handler runs, and what its stage says of the mutation: until the
\* leader has appended it, it is stored nowhere and no later handler exists.
HandlerTrue(h) ==
    /\ h.kind = "owner" => h.node = Leader(h.write) /\ h.transport = "http"
    /\ h.kind = "replica" => /\ h.node \in Followers(h.write) /\ h.transport = "http"
                             /\ Stored(h.write, Leader(h.write))
    /\ h.kind = "entry" => <<h.node, h.transport>> \in Entries[h.write]
    /\ h.kind = "entry" /\ h.pc # "out" =>
          Unstored(h.write) /\ \A g \in handlers : g.write = h.write => g = h
    /\ h.kind = "owner" =>
          \A g \in handlers : g.write = h.write /\ g.kind = "entry" => g.pc = "out" /\ ~Direct(g)
    /\ h.kind = "owner" /\ h.pc # "out" =>
          Unstored(h.write) /\ \A g \in handlers : g.write = h.write => g.kind # "replica"
    /\ Commits(h) /\ h.pc = "out" => Stored(h.write, Leader(h.write))

\* A mutation that was not sent or was refused has no handler and is nowhere; one
\* that was acknowledged is at the leader and at those that answered.
WriteTrue(w) ==
    /\ outcome[w] \in {"new", "failed"} => Unstored(w) /\ \A h \in handlers : h.write # w
    /\ outcome[w] = "committed" =>
          /\ Stored(w, Leader(w))
          /\ Cardinality({n \in Nodes : Stored(w, n)}) >= Required(w)
    /\ \A f \in acks[w] : f \in Followers(w) /\ Stored(w, f)

\* Every replica has a prefix of its leader's log.
ReplicasFollow(logs) ==
    \A s \in Shards : \A n \in Range(Replicas[s]) : PrefixOf(logs[n][s], logs[Replicas[s][1]][s])

DataInv ==
    /\ DataType /\ HandlersUnique /\ ReplicasFollow(log)
    /\ \A h \in handlers : HandlerTrue(h)
    /\ \A w \in Writes : WriteTrue(w)

\* No mutation enters over gRPC at the node that leads its shard.
GrpcForwarded == \A w \in Writes : <<Leader(w), "grpc">> \notin Entries[w]

Ops == {Operation[b] : b \in Backups} \cup {NoOp}
Stages == {"idle", "local", "freezing", "await", "capture", "archive", "release", "done"}

\* The variables of the barriers and the backups.
GateType ==
    /\ op \in [Nodes -> Ops] /\ held \in [Nodes -> BOOLEAN]
    /\ cut = [b \in Backups |-> cut[b]] /\ began \in [Backups -> SUBSET Writes]
    /\ request = [b \in Backups |->
          [pc |-> request[b].pc, frozen |-> request[b].frozen, points |-> request[b].points,
           archives |-> request[b].archives]]
    /\ \A b \in Backups : request[b].pc \in Stages

\* A gate that is held has no reader.
GatesShut == \A n \in Nodes : held[n] => op[n] # NoOp /\ Readers(n) = {}

\* What a backup in progress knows of the nodes that still carry its operation:
\* each that it counts as frozen is, and has the log of the cut.
BackupTrue(b) ==
    LET pc == request[b].pc IN
    /\ pc \notin {"idle", "release", "done"} => op[Coordinator] = Operation[b]
    /\ pc \in {"freezing", "await", "capture", "archive"} => held[Coordinator]
    /\ pc = "idle" => op[Coordinator] # Operation[b]
    /\ pc \in {"idle", "local"} => \A n \in Nodes \ {Coordinator} : op[n] # Operation[b]
    /\ pc \in {"freezing", "await"} =>
          \A n \in Nodes \ {Coordinator} : op[n] = Operation[b] =>
              (n \in request[b].frozen /\ held[n]) \/ (pc = "await" /\ n = NextPeer(b))
    /\ pc \in {"capture", "archive"} =>
          \A n \in Nodes : op[n] = Operation[b] => held[n] /\ log[n] = cut[b][n]

\* The cut that an archive is of: replicas follow their leaders, which have what
\* was committed before the backup began.
CutTrue(b) ==
    /\ cut[b] \in Logs /\ ReplicasFollow(cut[b])
    /\ \A w \in began[b] : w \in Range(cut[b][Leader(w)][Shard[w]])

\* An archive has what its node had at the cut, at the node's recovery point.
ArchivesTrue(b) ==
    LET r == request[b] IN
    /\ r.pc \notin {"archive", "release", "done"} => DOMAIN r.archives = {}
    /\ r.pc \in {"capture", "archive"} \/ DOMAIN r.archives # {} => CutTrue(b)
    /\ \A w \in began[b] : Stored(w, Leader(w))
    /\ \A n \in DOMAIN r.archives \cap Nodes :
          /\ r.archives[n].data = cut[b][n] /\ r.archives[n].point = r.points[n]
          /\ r.points[n] = [s \in {x \in Shards : n \in Range(Replicas[x])} |-> Len(cut[b][n][s])]

GateInv ==
    GateType /\ GatesShut /\ \A b \in Backups : BackupTrue(b) /\ ArchivesTrue(b)

-----------------------------------------------------------------------------
(* Facts about the constants *)

\* Where a mutation is to be stored.
LEMMA Places ==
    ASSUME NEW w \in Writes
    PROVE  /\ Shard[w] \in Shards /\ Leader(w) = Replicas[Shard[w]][1] /\ Leader(w) \in Nodes
           /\ Leader(w) \in Range(Replicas[Shard[w]])
           /\ Followers(w) \subseteq Nodes \ {Leader(w)} /\ Followers(w) \subseteq Range(Replicas[Shard[w]])
<1>1. Shard[w] \in Shards
  BY BackupAssumption
<1>2. Replicas[Shard[w]] \in Seq(Nodes) /\ Replicas[Shard[w]] # <<>>
  BY <1>1, BackupAssumption
<1>3. 1 \in DOMAIN Replicas[Shard[w]] /\ Range(Replicas[Shard[w]]) \subseteq Nodes
  BY <1>2 DEF Range
<1> QED BY <1>1, <1>3 DEF Leader, Followers, Range

\* The leader and the replicas of a shard are nodes.
LEMMA ShardPlaces ==
    ASSUME NEW s \in Shards
    PROVE  /\ Replicas[s][1] \in Nodes /\ Replicas[s][1] \in Range(Replicas[s])
           /\ Range(Replicas[s]) \subseteq Nodes
<1>1. Replicas[s] \in Seq(Nodes) /\ Replicas[s] # <<>>
  BY BackupAssumption
<1> QED BY <1>1 DEF Range

\* requiredAcknowledgements is a number.
LEMMA RequiredNumber == ASSUME NEW w \in Writes PROVE Required(w) \in Int
<1>1. Len(Replicas[Shard[w]]) \in Nat
  BY Places, BackupAssumption
<1>2. \A k \in Nat : k \in Int /\ (k \div 2) + 1 \in Int
  OBVIOUS
<1> DEFINE k == Len(Replicas[Shard[w]])
<1> HIDE DEF k
<1>3. \A level : requiredAcknowledgements(level, k) \in Int
  <2> TAKE level
  <2>1. k \in Int /\ (k \div 2) + 1 \in Int
    BY <1>1, <1>2 DEF k
  <2>2. CASE level = "leader"
    BY <2>2 DEF requiredAcknowledgements
  <2>3. CASE level = "all"
    BY <2>1, <2>3 DEF requiredAcknowledgements
  <2>4. CASE level # "leader" /\ level # "all"
    BY <2>1, <2>4 DEF requiredAcknowledgements
  <2> QED BY <2>2, <2>3, <2>4
<1> QED BY <1>3 DEF Required, k

\* A set of naturals has a least element.
LEMMA Least ==
    ASSUME NEW T \in SUBSET Nat, T # {}
    PROVE  \E x \in T : \A y \in T : x <= y
<1> DEFINE R == OpToRel(<, Nat)
<1>1. IsWellFoundedOn(R, Nat)
  BY NatLessThanWellFounded
<1>2. \A x, y \in Nat : y < x => <<y, x>> \in R
  BY DEF OpToRel
<1> HIDE DEF R
<1>3. PICK x \in T : \A y \in T : ~(<<y, x>> \in R)
  BY <1>1, WFMin
<1>4. \A y \in T : x <= y
  <2> TAKE y \in T
  <2>1. ~(y < x)
    BY <1>2, <1>3
  <2> QED BY <2>1
<1> QED BY <1>4

\* What a sequence holds.
LEMMA InRange ==
    ASSUME NEW q \in Seq(Writes), NEW w
    PROVE  w \in Range(q) <=> \E i \in 1..Len(q) : q[i] = w
  BY DEF Range

\* Appending adds one mutation at the end.
LEMMA Appended ==
    ASSUME NEW q \in Seq(Writes), NEW w \in Writes
    PROVE  /\ Append(q, w) \in Seq(Writes) /\ Len(Append(q, w)) = Len(q) + 1
           /\ Append(q, w)[Len(q) + 1] = w
           /\ \A i \in 1..Len(q) : Append(q, w)[i] = q[i]
           /\ Range(Append(q, w)) = Range(q) \cup {w}
<1>1. /\ Append(q, w) \in Seq(Writes) /\ Len(Append(q, w)) = Len(q) + 1
      /\ Append(q, w)[Len(q) + 1] = w
      /\ \A i \in 1..Len(q) : Append(q, w)[i] = q[i]
      /\ Len(q) \in Nat /\ DOMAIN q = 1..Len(q)
      /\ DOMAIN Append(q, w) = 1..(Len(q) + 1)
  OBVIOUS
<1>2. Range(Append(q, w)) = Range(q) \cup {w}
  <2>1. 1..(Len(q) + 1) = (1..Len(q)) \cup {Len(q) + 1}
    BY <1>1
  <2> QED BY <1>1, <2>1 DEF Range
<1> QED BY <1>1, <1>2

\* A handler with another stage, or given up, is the same call.
SameCall(g, h) ==
    /\ g.write = h.write /\ g.kind = h.kind /\ g.node = h.node /\ g.transport = h.transport
    /\ g.pc = "out" <=> h.pc = "out"

\* Nothing is in flight or stored at first.
LEMMA InitData == Init => DataInv
<1> SUFFICES ASSUME Init PROVE DataInv
  OBVIOUS
<1>1. DataType
  BY DEF Init, DataType, Logs, Outcomes
<1>2. \A n \in Nodes, s \in Shards : log[n][s] = <<>>
  BY DEF Init
<1>3. \A w \in Writes : Unstored(w)
  BY <1>2, Places DEF Unstored, Stored, Range
<1>4. ReplicasFollow(log)
  BY <1>2, ShardPlaces DEF ReplicasFollow, PrefixOf
<1>5. \A w \in Writes : WriteTrue(w)
  BY <1>3 DEF Init, WriteTrue
<1> QED BY <1>1, <1>4, <1>5 DEF DataInv, HandlersUnique, Init

-----------------------------------------------------------------------------
(* Mutations *)

\* A step that starts no handler: each that is left is one that was there, what is
\* stored stays, and nothing that was nowhere is stored.
LEMMA SameCalls ==
    ASSUME DataInv, NEW m,
           \A h \in handlers : m[h] \in Handlers /\ SameCall(m[h], h),
           \A x \in handlers' : \E h \in handlers : x = m[h],
           log' \in Logs, ReplicasFollow(log'),
           \A w \in Writes : Unstored(w) => Unstored(w)',
           \A w \in Writes, n \in Nodes : Stored(w, n) => Stored(w, n)',
           acks' \in [Writes -> SUBSET Nodes], outcome' \in [Writes -> Outcomes],
           \A w \in Writes : \A f \in acks'[w] : f \in Followers(w) /\ Stored(w, f)',
           \A w \in Writes :
              \/ outcome'[w] = outcome[w] \/ outcome'[w] = "unknown"
              \/ /\ outcome'[w] = "committed" /\ Stored(w, Leader(w))
                 /\ Cardinality({n \in Nodes : Stored(w, n)}) >= Required(w)
              \/ outcome'[w] = "failed" /\ Unstored(w) /\ \A h \in handlers' : h.write # w
    PROVE  DataInv'
<1>1. DataType'
  BY DEF DataType
<1>2. HandlersUnique'
  BY DEF HandlersUnique, Identical, SameCall, DataInv
<1>3. ASSUME NEW x \in handlers' PROVE HandlerTrue(x)'
  <2>1. PICK h \in handlers : x = m[h]
    OBVIOUS
  <2>2. SameCall(x, h) /\ HandlerTrue(h) /\ h \in Handlers
    BY <2>1 DEF DataInv, DataType
  <2>3. h.write \in Writes /\ Leader(h.write) \in Nodes
    BY <2>2, Places DEF Handlers
  <2>4. \A g \in handlers' : g.write = x.write =>
           \E k \in handlers : g = m[k] /\ k.write = h.write /\ SameCall(g, k)
    BY <2>2 DEF SameCall
  <2>5. /\ Direct(x) <=> Direct(h)
        /\ Commits(x) <=> Commits(h)
    BY <2>2 DEF SameCall, Commits, Direct
  <2>6. /\ x.kind = "owner" => x.node = Leader(x.write) /\ x.transport = "http"
        /\ x.kind = "replica" => /\ x.node \in Followers(x.write) /\ x.transport = "http"
                                 /\ Stored(x.write, Leader(x.write))'
        /\ x.kind = "entry" => <<x.node, x.transport>> \in Entries[x.write]
    BY <2>2, <2>3 DEF HandlerTrue, SameCall
  <2>7. x.kind = "entry" /\ x.pc # "out" =>
           Unstored(x.write)' /\ \A g \in handlers' : g.write = x.write => g = x
    <3> SUFFICES ASSUME x.kind = "entry", x.pc # "out"
                 PROVE  Unstored(x.write)' /\ \A g \in handlers' : g.write = x.write => g = x
      OBVIOUS
    <3>1. Unstored(h.write) /\ x.write = h.write /\ \A k \in handlers : k.write = h.write => k = h
      BY <2>2 DEF HandlerTrue, SameCall
    <3> QED BY <2>1, <2>3, <2>4, <3>1
  <2>8. x.kind = "owner" =>
           \A g \in handlers' : g.write = x.write /\ g.kind = "entry" => g.pc = "out" /\ ~Direct(g)
    BY <2>2, <2>4 DEF HandlerTrue, SameCall, Direct
  <2>9. x.kind = "owner" /\ x.pc # "out" =>
           Unstored(x.write)' /\ \A g \in handlers' : g.write = x.write => g.kind # "replica"
    BY <2>2, <2>3, <2>4 DEF HandlerTrue, SameCall
  <2>10. Commits(x) /\ x.pc = "out" => Stored(x.write, Leader(x.write))'
    <3> SUFFICES ASSUME Commits(x), x.pc = "out" PROVE Stored(x.write, Leader(x.write))'
      OBVIOUS
    <3>1. Stored(h.write, Leader(h.write)) /\ x.write = h.write
      BY <2>2, <2>5 DEF HandlerTrue, SameCall
    <3> QED BY <2>3, <3>1
  <2> QED BY <2>6, <2>7, <2>8, <2>9, <2>10 DEF HandlerTrue, Commits, Direct
<1>4. ASSUME NEW w \in Writes PROVE WriteTrue(w)'
  <2>1. WriteTrue(w) /\ Leader(w) \in Nodes /\ Required(w) \in Int
    BY Places, RequiredNumber DEF DataInv
  <2> DEFINE S == {n \in Nodes : Stored(w, n)}
             T == {n \in Nodes : Stored(w, n)'}
  <2>2. Cardinality(S) \in Nat /\ Cardinality(T) \in Nat /\ Cardinality(S) <= Cardinality(T)
    <3>1. S \subseteq T /\ T \subseteq Nodes
      OBVIOUS
    <3>2. IsFiniteSet(T)
      BY <3>1, FS_Subset, BackupAssumption
    <3> HIDE DEF S, T
    <3> QED BY <3>1, <3>2, FS_Subset, FS_CardinalityType
  <2>3. (\A h \in handlers : h.write # w) => \A x \in handlers' : x.write # w
    BY DEF SameCall
  <2>4. outcome'[w] \in {"new", "failed"} => Unstored(w)' /\ \A h \in handlers' : h.write # w
    BY <2>1, <2>3 DEF WriteTrue
  <2>5. outcome'[w] = "committed" => Stored(w, Leader(w)) /\ Cardinality(S) >= Required(w)
    BY <2>1 DEF WriteTrue
  <2>6. outcome'[w] = "committed" => Stored(w, Leader(w))' /\ Cardinality(T) >= Required(w)
    <3> HIDE DEF S, T
    <3>1. \A i, j \in Nat, k \in Int : i <= j /\ i >= k => j >= k
      OBVIOUS
    <3> QED BY <3>1, <2>1, <2>2, <2>5
  <2> QED BY <2>4, <2>6 DEF WriteTrue
<1> QED BY <1>1, <1>2, <1>3, <1>4 DEF DataInv

\* A step that starts no handler and stores nothing.
LEMMA CallsOnly ==
    ASSUME DataInv, NEW m,
           \A h \in handlers : m[h] \in Handlers /\ SameCall(m[h], h),
           \A x \in handlers' : \E h \in handlers : x = m[h],
           UNCHANGED <<log, acks>>, outcome' \in [Writes -> Outcomes],
           \A w \in Writes :
              \/ outcome'[w] = outcome[w] \/ outcome'[w] = "unknown"
              \/ /\ outcome'[w] = "committed" /\ Stored(w, Leader(w))
                 /\ Cardinality({n \in Nodes : Stored(w, n)}) >= Required(w)
              \/ outcome'[w] = "failed" /\ Unstored(w) /\ \A h \in handlers' : h.write # w
    PROVE  DataInv'
<1>1. log' \in Logs /\ ReplicasFollow(log') /\ acks' \in [Writes -> SUBSET Nodes]
  BY DEF DataInv, DataType
<1>2. \A w \in Writes : \A f \in acks'[w] : f \in Followers(w) /\ Stored(w, f)'
  BY DEF DataInv, WriteTrue, Stored
<1>3. /\ \A w \in Writes : Unstored(w) => Unstored(w)'
      /\ \A w \in Writes, n \in Nodes : Stored(w, n) => Stored(w, n)'
  BY DEF Unstored, Stored
<1> QED BY <1>1, <1>2, <1>3, SameCalls

\* Answers take handlers away and say at most one outcome.
LEMMA Answered ==
    ASSUME DataInv, NEW h \in handlers, NEW answer, Answer(h, answer)
    PROVE  /\ handlers' \subseteq handlers \ {h} /\ h.write \in Writes
           /\ h.kind = "replica" \/ h.late => outcome' = outcome
           /\ h.kind # "replica" /\ ~h.late =>
                 outcome' = [outcome EXCEPT ![h.write] = OutcomeOf(RemoteAnswer(h, answer))]
           /\ h.kind = "owner" /\ ~h.late =>
                 \A g \in handlers' : g.write = h.write => g.kind # "entry"
  BY DEF Answer, DataInv, DataType, Handlers

\* A handler ends without saying that the mutation is stored or refused.
LEMMA AnsweredUnknown ==
    ASSUME DataInv, NEW h \in handlers, NEW answer \in {"none", "5xx"}, Answer(h, answer),
           UNCHANGED <<log, acks>>
    PROVE  DataInv'
<1> DEFINE m == [g \in handlers |-> g]
<1>1. \A g \in handlers : m[g] \in Handlers /\ SameCall(m[g], g)
  BY DEF DataInv, DataType, SameCall
<1>2. handlers' \subseteq handlers
  BY Answered
<1>3. \A x \in handlers' : \E g \in handlers : x = m[g]
  BY <1>2
<1>4. OutcomeOf(RemoteAnswer(h, answer)) = "unknown"
  BY DEF OutcomeOf, RemoteAnswer, remoteShardDelete
<1>5. outcome' = outcome \/ outcome' = [outcome EXCEPT ![h.write] = "unknown"]
  <2>1. CASE h.kind = "replica" \/ h.late
    BY <2>1 DEF Answer
  <2>2. CASE h.kind # "replica" /\ ~h.late
    BY <2>2, <1>4 DEF Answer
  <2> QED BY <2>1, <2>2
<1>6. /\ outcome' \in [Writes -> Outcomes]
      /\ \A w \in Writes : outcome'[w] = outcome[w] \/ outcome'[w] = "unknown"
  BY <1>5 DEF DataInv, DataType, Outcomes
<1> HIDE DEF m
<1> QED BY <1>1, <1>3, <1>6, CallsOnly

\* A handler that goes on to the next stage of the barrier is the same call.
LEMMA MovedCall ==
    ASSUME DataInv, NEW h \in handlers, h.pc # "out", NEW pc \in {"sent", "checked", "in"},
           handlers' = Moved(h, pc), UNCHANGED <<log, acks, outcome>>
    PROVE  DataInv'
<1> DEFINE k == [h EXCEPT !.pc = pc]
           m == [g \in handlers |-> IF g = h THEN k ELSE g]
<1>1. h \in Handlers /\ k \in Handlers /\ SameCall(k, h)
  BY DEF DataInv, DataType, Handlers, SameCall
<1>2. handlers' = (handlers \ {h}) \cup {k}
  BY DEF Moved
<1> HIDE DEF k
<1>3. \A g \in handlers : m[g] \in Handlers /\ SameCall(m[g], g)
  BY <1>1 DEF DataInv, DataType, SameCall
<1>4. \A x \in handlers' : \E g \in handlers : x = m[g]
  BY <1>2
<1>5. outcome' \in [Writes -> Outcomes] /\ \A w \in Writes : outcome'[w] = outcome[w]
  BY DEF DataInv, DataType
<1> HIDE DEF m
<1> QED BY <1>3, <1>4, <1>5, CallsOnly

\* backupBarrierMiddleware.
LEMMA BarrierData ==
    ASSUME DataInv, NEW h \in handlers, Check(h) \/ RLock(h)
    PROVE  DataInv'
<1>1. CASE Check(h)
  BY <1>1, MovedCall, AnsweredUnknown DEF Check
<1>2. CASE RLock(h)
  BY <1>2, MovedCall, AnsweredUnknown DEF RLock
<1> QED BY <1>1, <1>2

\* A refused mutation was not appended, and no handler of it is left that could.
LEMMA RejectData == ASSUME DataInv, NEW h \in handlers, Reject(h) PROVE DataInv'
<1>1. PICK answer \in Refusals(h) : Answer(h, answer)
  BY DEF Reject
<1>2. h.pc = "in" /\ Commits(h) /\ UNCHANGED <<log, acks>> /\ h \in Handlers /\ HandlerTrue(h)
  BY DEF Reject, DataInv, DataType
<1>3. answer \in {"4xx", "5xx"}
  BY <1>1 DEF Refusals
<1>4. CASE answer = "5xx"
  BY <1>1, <1>2, <1>4, AnsweredUnknown
<1>5. CASE answer = "4xx"
  <2> DEFINE m == [g \in handlers |-> g]
  <2>1. \A g \in handlers : m[g] \in Handlers /\ SameCall(m[g], g)
    BY DEF DataInv, DataType, SameCall
  <2>2. handlers' \subseteq handlers \ {h}
    BY <1>1, Answered
  <2>3. \A x \in handlers' : \E g \in handlers : x = m[g]
    BY <2>2
  <2>4. OutcomeOf(RemoteAnswer(h, answer)) \in {"failed", "unknown"}
    BY <1>5 DEF OutcomeOf, RemoteAnswer, remoteShardDelete
  <2>5. CASE h.late
    <3>1. outcome' = outcome
      BY <1>1, <2>5 DEF Answer
    <3> HIDE DEF m
    <3>2. outcome' \in [Writes -> Outcomes]
      BY <3>1 DEF DataInv, DataType
    <3> QED BY <1>2, <2>1, <2>3, <3>1, <3>2, CallsOnly
  <2>6. CASE ~h.late
    <3>1. h.kind # "replica" /\ h.write \in Writes /\ Unstored(h.write)
      BY <1>2 DEF Commits, HandlerTrue, Handlers
    <3>2. \A g \in handlers' : g.write # h.write
      <4>1. CASE h.kind = "entry"
        BY <4>1, <1>2, <2>2 DEF HandlerTrue
      <4>2. CASE h.kind = "owner"
        <5>1. \A g \in handlers' : g.write = h.write => g.kind # "entry" /\ g.kind # "replica"
          BY <4>2, <1>1, <1>2, <2>2, <2>6, Answered DEF HandlerTrue
        <5>2. \A g \in handlers' : g.write = h.write => g.kind # "owner"
          BY <4>2, <2>2 DEF DataInv, HandlersUnique, Identical
        <5>3. \A g \in handlers' : g.kind \in {"entry", "owner", "replica"}
          BY <2>2 DEF DataInv, DataType, Handlers
        <5> QED BY <5>1, <5>2, <5>3
      <4> QED BY <3>1, <4>1, <4>2, <1>2 DEF Handlers
    <3>3. outcome' = [outcome EXCEPT ![h.write] = OutcomeOf(RemoteAnswer(h, answer))]
      BY <1>1, <2>6, <3>1 DEF Answer
    <3>4. /\ outcome' \in [Writes -> Outcomes]
          /\ \A w \in Writes :
                \/ outcome'[w] = outcome[w] \/ outcome'[w] = "unknown"
                \/ outcome'[w] = "failed" /\ w = h.write
      BY <2>4, <3>3 DEF DataInv, DataType, Outcomes
    <3> HIDE DEF m
    <3> QED BY <1>2, <2>1, <2>3, <3>1, <3>2, <3>4, CallsOnly
  <2> QED BY <2>5, <2>6
<1> QED BY <1>3, <1>4, <1>5

\* The leader and the followers that answered are as many as were counted.
LEMMA AcksStored ==
    ASSUME DataInv, NEW w \in Writes, Stored(w, Leader(w)), 1 + Cardinality(acks[w]) >= Required(w)
    PROVE  Cardinality({n \in Nodes : Stored(w, n)}) >= Required(w)
<1> DEFINE S == {n \in Nodes : Stored(w, n)}
           A == acks[w]
<1>1. A \subseteq Nodes /\ Leader(w) \in Nodes /\ Leader(w) \notin A /\ A \subseteq S /\ Leader(w) \in S
  BY Places DEF DataInv, DataType, WriteTrue
<1>2. S \subseteq Nodes
  OBVIOUS
<1>3. 1 + Cardinality(A) >= Required(w) /\ Required(w) \in Int
  BY RequiredNumber
<1> HIDE DEF S, A
<1>4. IsFiniteSet(S) /\ IsFiniteSet(A)
  BY <1>1, <1>2, FS_Subset, BackupAssumption
<1>5. Cardinality(A \cup {Leader(w)}) = Cardinality(A) + 1
  BY <1>1, <1>4, FS_AddElement
<1>6. A \cup {Leader(w)} \subseteq S
  BY <1>1
<1>7. Cardinality(A \cup {Leader(w)}) <= Cardinality(S)
  BY <1>4, <1>6, FS_Subset
<1>8. Cardinality(A) \in Nat /\ Cardinality(S) \in Nat
  BY <1>4, FS_CardinalityType
<1>9. \A a, c \in Nat, k \in Int : 1 + a >= k /\ a + 1 <= c => c >= k
  OBVIOUS
<1>10. Cardinality(S) >= Required(w)
  BY <1>3, <1>5, <1>7, <1>8, <1>9
<1> QED BY <1>10 DEF S

\* The leader's answer: committed when enough have stored the mutation, and
\* otherwise open.
LEMMA AcknowledgeData == ASSUME DataInv, NEW h \in handlers, Acknowledge(h) PROVE DataInv'
<1>1. h.pc = "out" /\ Commits(h) /\ UNCHANGED <<log, acks>> /\ h \in Handlers /\ HandlerTrue(h)
  BY DEF Acknowledge, DataInv, DataType
<1>2. CASE 1 + Cardinality(acks[h.write]) >= Required(h.write) /\ Answer(h, "ok")
  <2> DEFINE m == [g \in handlers |-> g]
  <2>1. \A g \in handlers : m[g] \in Handlers /\ SameCall(m[g], g)
    BY DEF DataInv, DataType, SameCall
  <2>2. handlers' \subseteq handlers
    BY <1>2, Answered
  <2>3. \A x \in handlers' : \E g \in handlers : x = m[g]
    BY <2>2
  <2>4. OutcomeOf(RemoteAnswer(h, "ok")) = "committed"
    BY DEF OutcomeOf, RemoteAnswer, remoteShardDelete
  <2>5. h.write \in Writes /\ Stored(h.write, Leader(h.write))
    BY <1>1 DEF HandlerTrue, Handlers
  <2>6. Cardinality({n \in Nodes : Stored(h.write, n)}) >= Required(h.write)
    BY <1>2, <2>5, AcksStored
  <2>7. outcome' = outcome \/ outcome' = [outcome EXCEPT ![h.write] = "committed"]
    BY <1>2, <2>4 DEF Answer
  <2>8. /\ outcome' \in [Writes -> Outcomes]
        /\ \A w \in Writes : outcome'[w] = outcome[w] \/ (outcome'[w] = "committed" /\ w = h.write)
    BY <2>7 DEF DataInv, DataType, Outcomes
  <2> HIDE DEF m
  <2> QED BY <1>1, <2>1, <2>3, <2>5, <2>6, <2>8, CallsOnly
<1>3. CASE Answer(h, IF h.kind = "owner" THEN "5xx" ELSE "none")
  BY <1>1, <1>3, AnsweredUnknown
<1> QED BY <1>2, <1>3 DEF Acknowledge

\* The caller gives a call up: the outcome is open, the call goes on.
LEMMA GiveUpData == ASSUME DataInv, NEW h \in handlers, GiveUp(h) PROVE DataInv'
<1> DEFINE k == [h EXCEPT !.late = TRUE]
           m == [g \in handlers |-> IF g = h THEN k ELSE g]
<1>1. h \in Handlers /\ k \in Handlers /\ SameCall(k, h) /\ h.write \in Writes
  BY DEF DataInv, DataType, Handlers, SameCall
<1>2. handlers' \subseteq (handlers \ {h}) \cup {k} /\ UNCHANGED <<log, acks>>
  BY DEF GiveUp
<1>3. OutcomeOf("none") = "unknown"
  BY DEF OutcomeOf
<1>4. outcome' = outcome \/ outcome' = [outcome EXCEPT ![h.write] = "unknown"]
  BY <1>3 DEF GiveUp
<1>5. /\ outcome' \in [Writes -> Outcomes]
      /\ \A w \in Writes : outcome'[w] = outcome[w] \/ outcome'[w] = "unknown"
  BY <1>4 DEF DataInv, DataType, Outcomes
<1> HIDE DEF k
<1>6. \A g \in handlers : m[g] \in Handlers /\ SameCall(m[g], g)
  BY <1>1 DEF DataInv, DataType, SameCall
<1>7. \A x \in handlers' : \E g \in handlers : x = m[g]
  BY <1>2
<1> HIDE DEF m
<1> QED BY <1>2, <1>5, <1>6, <1>7, CallsOnly

\* A restart takes handlers away and gives others up; callers of lost ones do not
\* know the outcome.
LEMMA RestartData == ASSUME DataInv, NEW n \in Nodes, Restart(n) PROVE DataInv'
<1> DEFINE late(h) == [h EXCEPT !.late = TRUE]
           gone == {h \in handlers : h.node = n}
           left(h) == h.kind # "entry" /\ \E g \in gone :
                        g.write = h.write /\ (g.kind = "entry" \/ (g.kind = "owner" /\ h.kind = "replica"))
           m == [h \in handlers |-> IF left(h) THEN late(h) ELSE h]
<1>1. \A h \in handlers : late(h) \in Handlers /\ SameCall(late(h), h) /\ h \in Handlers /\ SameCall(h, h)
  BY DEF DataInv, DataType, Handlers, SameCall
<1>2. UNCHANGED <<log, acks>>
  BY DEF Restart
<1>3. \A x \in handlers' : \E h \in handlers : x = IF left(h) THEN late(h) ELSE h
  BY DEF Restart
<1>4. /\ outcome' \in [Writes -> Outcomes]
      /\ \A w \in Writes : outcome'[w] = outcome[w] \/ outcome'[w] = "unknown"
  BY DEF Restart, OutcomeOf, Outcomes, DataInv, DataType
<1> HIDE DEF late, left
<1>5. \A h \in handlers : m[h] \in Handlers /\ SameCall(m[h], h)
  BY <1>1
<1>6. \A x \in handlers' : \E h \in handlers : x = m[h]
  BY <1>3
<1> HIDE DEF m
<1> QED BY <1>2, <1>4, <1>5, <1>6, CallsOnly

\* A prefix stays one when the longer log grows.
LEMMA PrefixAppend ==
    ASSUME NEW a \in Seq(Writes), NEW q \in Seq(Writes), NEW w \in Writes, PrefixOf(a, q)
    PROVE  PrefixOf(a, Append(q, w))
<1>1. Len(a) \in Nat /\ Len(q) \in Nat /\ Len(a) <= Len(q)
  BY DEF PrefixOf
<1>2. \A i \in 1..Len(a) : i \in 1..Len(q) /\ a[i] = q[i]
  BY <1>1 DEF PrefixOf
<1>3. Len(Append(q, w)) = Len(q) + 1 /\ \A i \in 1..Len(q) : Append(q, w)[i] = q[i]
  BY Appended
<1>4. Len(a) <= Len(q) + 1
  BY <1>1
<1> QED BY <1>2, <1>3, <1>4 DEF PrefixOf

\* A mutation is appended to one copy of its shard, which still follows its leader.
LEMMA AppendedCopy ==
    ASSUME DataInv, NEW w \in Writes, NEW n \in Range(Replicas[Shard[w]]),
           log' = [log EXCEPT ![n][Shard[w]] = Append(@, w)],
           n # Leader(w) =>
              /\ Len(log[n][Shard[w]]) + 1 <= Len(log[Leader(w)][Shard[w]])
              /\ log[Leader(w)][Shard[w]][Len(log[n][Shard[w]]) + 1] = w
    PROVE  /\ log' \in Logs /\ ReplicasFollow(log')
           /\ Stored(w, n)' /\ \A x \in Nodes \ {n} : Stored(w, x)' <=> Stored(w, x)
           /\ \A v \in Writes \ {w}, x \in Nodes : Stored(v, x)' <=> Stored(v, x)
<1> DEFINE s == Shard[w]
           q == log[n][s]
<1>1. n \in Nodes /\ s \in Shards /\ q \in Seq(Writes) /\ log \in Logs /\ Leader(w) = Replicas[s][1]
  BY Places, ShardPlaces DEF DataInv, DataType, Logs
<1>2. /\ log'[n][s] = Append(q, w)
      /\ \A x \in Nodes, z \in Shards : <<x, z>> # <<n, s>> => log'[x][z] = log[x][z]
  BY <1>1 DEF Logs
<1>3. /\ Append(q, w) \in Seq(Writes) /\ Len(Append(q, w)) = Len(q) + 1
      /\ Append(q, w)[Len(q) + 1] = w
      /\ \A i \in 1..Len(q) : Append(q, w)[i] = q[i]
      /\ Range(Append(q, w)) = Range(q) \cup {w}
  BY <1>1, Appended
<1>4. log' \in Logs
  BY <1>1, <1>3 DEF Logs
<1>5. Stored(w, n)' /\ \A x \in Nodes \ {n} : Stored(w, x)' <=> Stored(w, x)
  BY <1>1, <1>2, <1>3 DEF Stored
<1>6. \A v \in Writes \ {w}, x \in Nodes : Stored(v, x)' <=> Stored(v, x)
  <2> TAKE v \in Writes \ {w}, x \in Nodes
  <2>1. CASE x = n /\ Shard[v] = s
    BY <2>1, <1>2, <1>3 DEF Stored
  <2>2. CASE ~(x = n /\ Shard[v] = s)
    BY <2>2, <1>2, Places DEF Stored
  <2> QED BY <2>1, <2>2
<1>7. ReplicasFollow(log')
  <2> SUFFICES ASSUME NEW z \in Shards, NEW x \in Range(Replicas[z])
               PROVE  PrefixOf(log'[x][z], log'[Replicas[z][1]][z])
    BY DEF ReplicasFollow
  <2>1. /\ x \in Nodes /\ Replicas[z][1] \in Nodes /\ log[x][z] \in Seq(Writes)
        /\ log[Replicas[z][1]][z] \in Seq(Writes)
        /\ PrefixOf(log[x][z], log[Replicas[z][1]][z])
    BY <1>1, ShardPlaces DEF DataInv, ReplicasFollow, Logs
  <2>2. CASE z # s
    BY <2>1, <2>2, <1>2
  <2>3. CASE z = s /\ n = Leader(w) /\ x = n
    BY <2>3, <1>1 DEF PrefixOf
  <2>4. CASE z = s /\ n = Leader(w) /\ x # n
    <3>1. log'[x][z] = log[x][z] /\ log'[Replicas[z][1]][z] = Append(q, w) /\ PrefixOf(log[x][z], q)
      BY <2>1, <2>4, <1>1, <1>2
    <3> HIDE DEF q
    <3>2. PrefixOf(log[x][z], Append(q, w))
      BY <1>1, <2>1, <3>1, PrefixAppend
    <3> QED BY <3>1, <3>2
  <2>5. CASE z = s /\ n # Leader(w) /\ x = n
    <3>1. /\ log'[x][z] = Append(q, w) /\ log'[Replicas[z][1]][z] = log[Leader(w)][s]
          /\ PrefixOf(q, log[Leader(w)][s])
      BY <2>1, <2>5, <1>1, <1>2
    <3>2. Len(q) \in Nat /\ Len(log[Leader(w)][s]) \in Nat
      BY <1>1, <2>1, <2>5
    <3>3. Len(q) + 1 <= Len(log[Leader(w)][s]) /\ log[Leader(w)][s][Len(q) + 1] = w
      BY <2>5
    <3> HIDE DEF q, s
    <3>4. \A i \in 1..(Len(q) + 1) : i \in 1..Len(q) \/ i = Len(q) + 1
      BY <3>2
    <3>5. \A i \in 1..Len(Append(q, w)) : Append(q, w)[i] = log[Leader(w)][s][i]
      BY <3>1, <3>3, <3>4, <1>3, SMTT(60) DEF PrefixOf
    <3> QED BY <3>1, <3>3, <3>5, <1>3 DEF PrefixOf
  <2>6. CASE z = s /\ n # Leader(w) /\ x # n
    BY <2>1, <2>6, <1>1, <1>2
  <2> QED BY <2>2, <2>3, <2>4, <2>5, <2>6
<1> QED BY <1>4, <1>5, <1>6, <1>7

\* internalReplicaAppend: an append in sequence repeats the leader's log, and a
\* repetition was stored before.
LEMMA StoreData == ASSUME DataInv, NEW h \in handlers, Store(h) PROVE DataInv'
<1> DEFINE w == h.write
           s == Shard[w]
           f == h.node
           l == Leader(w)
           next == Len(log[f][s]) + 1
           p == Position(w)
           m == [g \in handlers |-> g]
<1>1. h \in Handlers /\ HandlerTrue(h) /\ h.kind = "replica" /\ Answer(h, "ok")
  BY DEF DataInv, DataType, Store
<1>2. /\ w \in Writes /\ f \in Followers(w) /\ f \in Nodes /\ f # l /\ s \in Shards /\ l \in Nodes
      /\ f \in Range(Replicas[s]) /\ Stored(w, l) /\ l = Replicas[s][1]
  BY <1>1, Places DEF Handlers, HandlerTrue
<1>3. /\ log[f][s] \in Seq(Writes) /\ log[l][s] \in Seq(Writes) /\ PrefixOf(log[f][s], log[l][s])
      /\ Len(log[f][s]) \in Nat
  <2> HIDE DEF w, s, f, l
  <2>1. PrefixOf(log[f][s], log[l][s])
    BY <1>2 DEF DataInv, ReplicasFollow
  <2>2. log[f][s] \in Seq(Writes) /\ log[l][s] \in Seq(Writes)
    BY <1>2, SMTT(60) DEF DataInv, DataType, Logs
  <2> QED BY <2>1, <2>2
<1>4. p \in 1..Len(log[l][s]) /\ log[l][s][p] = w
  <2>1. \E i \in DOMAIN log[l][s] : log[l][s][i] = w
    BY <1>2 DEF Stored, Range
  <2> QED BY <2>1, <1>3, SMTT(60) DEF Position
<1>5. log' = IF p = next THEN [log EXCEPT ![f][s] = Append(@, w)] ELSE log
  BY DEF Store
<1>6. acks' = IF p <= next /\ ~h.late THEN [acks EXCEPT ![w] = @ \cup {f}] ELSE acks
  BY DEF Store
<1>7. handlers' \subseteq handlers /\ outcome' = outcome
  BY <1>1, Answered
<1> HIDE DEF p, next
<1>8. /\ log' \in Logs /\ ReplicasFollow(log')
      /\ \A v \in Writes, x \in Nodes : Stored(v, x) => Stored(v, x)'
      /\ \A v \in Writes, x \in Nodes : Stored(v, x)' => Stored(v, x) \/ (v = w /\ x = f)
      /\ p = next => Stored(w, f)'
  <2>1. CASE p = next
    <3>1. Len(log[f][s]) + 1 <= Len(log[l][s]) /\ log[l][s][Len(log[f][s]) + 1] = w
      BY <2>1, <1>4 DEF next
    <3>2. log' = [log EXCEPT ![f][s] = Append(@, w)]
      BY <2>1, <1>5, SMTT(60)
    <3> HIDE DEF w, s, f, l
    <3>3. /\ log' \in Logs /\ ReplicasFollow(log')
          /\ Stored(w, f)' /\ \A x \in Nodes \ {f} : Stored(w, x)' <=> Stored(w, x)
          /\ \A v \in Writes \ {w}, x \in Nodes : Stored(v, x)' <=> Stored(v, x)
      BY <1>2, <3>1, <3>2, AppendedCopy DEF s, l
    <3> QED BY <3>3
  <2>2. CASE p # next
    <3>1. log' = log
      BY <2>2, <1>5
    <3> QED BY <3>1, <2>2 DEF DataInv, DataType, Stored
  <2> QED BY <2>1, <2>2
<1>9. p <= next => Stored(w, f)'
  <2>1. CASE p = next
    BY <2>1, <1>8
  <2>2. CASE p < next
    <3>1. p \in 1..Len(log[f][s])
      BY <2>2, <1>3, <1>4 DEF next
    <3>2. log[f][s][p] = w
      BY <3>1, <1>3, <1>4 DEF PrefixOf
    <3>3. w \in Range(log[f][s])
      BY <3>1, <3>2, <1>3, InRange
    <3> QED BY <3>3, <1>2, <1>8 DEF Stored
  <2>3. p \in Nat /\ next \in Nat
    BY <1>3, <1>4 DEF next
  <2> QED BY <2>1, <2>2, <2>3
<1>10. acks' \in [Writes -> SUBSET Nodes]
  BY <1>2, <1>6 DEF DataInv, DataType
<1>11. \A v \in Writes : \A x \in acks'[v] : x \in Followers(v) /\ Stored(v, x)'
  <2> SUFFICES ASSUME NEW v \in Writes, NEW x \in acks'[v] PROVE x \in Followers(v) /\ Stored(v, x)'
    OBVIOUS
  <2>1. CASE x \in acks[v]
    <3>1. x \in Followers(v) /\ Stored(v, x) /\ x \in Nodes
      BY <2>1 DEF DataInv, DataType, WriteTrue
    <3> QED BY <3>1, <1>8
  <2>2. CASE x \notin acks[v]
    <3>1. v = w /\ x = f /\ p <= next
      BY <2>2, <1>2, <1>6 DEF DataInv, DataType
    <3> QED BY <3>1, <1>2, <1>9
  <2> QED BY <2>1, <2>2
<1>12. \A v \in Writes : Unstored(v) => Unstored(v)'
  BY <1>2, <1>8 DEF Unstored
<1>13. /\ \A g \in handlers : m[g] \in Handlers /\ SameCall(m[g], g)
       /\ \A x \in handlers' : \E g \in handlers : x = m[g]
  BY <1>7 DEF DataInv, DataType, SameCall
<1>14. outcome' \in [Writes -> Outcomes] /\ \A v \in Writes : outcome'[v] = outcome[v]
  BY <1>7 DEF DataInv, DataType
<1> HIDE DEF m, w, f, l, s
<1> QED BY <1>8, <1>10, <1>11, <1>12, <1>13, <1>14, SameCalls

\* A step about one mutation leaves the handlers and copies of others alone.
LEMMA OneWrite ==
    ASSUME DataInv, DataType', NEW w \in Writes, ReplicasFollow(log'),
           \A x \in handlers' : x.write # w => x \in handlers,
           \A v \in Writes \ {w}, n \in Nodes : Stored(v, n)' <=> Stored(v, n),
           \A v \in Writes \ {w} : outcome'[v] = outcome[v] /\ acks'[v] = acks[v],
           \A g, h \in handlers' : g.write = w /\ Identical(g, h) => g = h,
           \A x \in handlers' : x.write = w => HandlerTrue(x)',
           WriteTrue(w)'
    PROVE  DataInv'
<1>1. HandlersUnique'
  BY DEF DataInv, HandlersUnique, Identical
<1>2. ASSUME NEW x \in handlers', x.write # w PROVE HandlerTrue(x)'
  <2>1. x \in handlers /\ HandlerTrue(x) /\ x.write \in Writes \ {w} /\ Leader(x.write) \in Nodes
    BY <1>2, Places DEF DataInv, DataType, Handlers
  <2>2. Stored(x.write, Leader(x.write))' <=> Stored(x.write, Leader(x.write))
    BY <2>1
  <2>3. Unstored(x.write)' <=> Unstored(x.write)
    BY <2>1 DEF Unstored
  <2>4. \A g \in handlers' : g.write = x.write => g \in handlers
    BY <1>2
  <2> QED BY <2>1, <2>2, <2>3, <2>4 DEF HandlerTrue, Commits, Direct
<1>3. ASSUME NEW v \in Writes \ {w} PROVE WriteTrue(v)'
  <2>1. WriteTrue(v) /\ Leader(v) \in Nodes
    BY Places DEF DataInv
  <2>2. {n \in Nodes : Stored(v, n)'} = {n \in Nodes : Stored(v, n)}
    OBVIOUS
  <2>3. Unstored(v)' <=> Unstored(v)
    BY DEF Unstored
  <2>4. \A h \in handlers' : h.write = v => h \in handlers
    OBVIOUS
  <2>5. \A f \in acks'[v] : f \in Followers(v) /\ Stored(v, f)'
    BY <2>1 DEF WriteTrue, DataInv, DataType
  <2>6. outcome'[v] \in {"new", "failed"} => Unstored(v)' /\ \A h \in handlers' : h.write # v
    BY <2>1, <2>3, <2>4 DEF WriteTrue
  <2>7. outcome'[v] = "committed" =>
          Stored(v, Leader(v))' /\ Cardinality({n \in Nodes : Stored(v, n)'}) >= Required(v)
    BY <2>1, <2>2 DEF WriteTrue
  <2> QED BY <2>5, <2>6, <2>7 DEF WriteTrue
<1> QED BY <1>1, <1>2, <1>3 DEF DataInv

\* A mutation that is sent has no handler and is stored nowhere.
LEMMA SubmitData ==
    ASSUME DataInv, NEW w \in Writes, NEW n \in Nodes, SubmitHttp(w, n) \/ SubmitGrpc(w, n)
    PROVE  DataInv'
<1>1. PICK t \in {"http", "grpc"}, pc \in {"sent", "in"} : Submit(w, n, t, pc)
  BY DEF SubmitHttp, SubmitGrpc
<1> DEFINE e == Handler(w, "entry", n, t, pc)
<1>2. /\ e \in Handlers /\ e.write = w /\ e.kind = "entry" /\ e.pc = pc /\ e.node = n /\ e.transport = t
  BY DEF Handler, Handlers
<1>3. handlers' = handlers \cup {e} /\ UNCHANGED <<log, acks>>
  BY <1>1 DEF Submit
<1>4. outcome' = [outcome EXCEPT ![w] = "open"] /\ outcome[w] = "new" /\ <<n, t>> \in Entries[w]
  BY <1>1 DEF Submit
<1> HIDE DEF e
<1>5. DataType'
  BY <1>2, <1>3, <1>4 DEF DataInv, DataType, Outcomes
<1>6. Unstored(w) /\ \A h \in handlers : h.write # w
  BY <1>4 DEF DataInv, WriteTrue
<1>7. /\ ReplicasFollow(log') /\ Unstored(w)'
      /\ \A v \in Writes, x \in Nodes : Stored(v, x)' <=> Stored(v, x)
  BY <1>3, <1>6 DEF DataInv, Stored, Unstored
<1>8. \A v \in Writes \ {w} : outcome'[v] = outcome[v] /\ acks'[v] = acks[v]
  BY <1>3, <1>4 DEF DataInv, DataType
<1>9. \A x \in handlers' : x.write = w => x = e
  BY <1>3, <1>6
<1>10. HandlerTrue(e)'
  <2>1. ~(e.kind = "owner") /\ ~(e.kind = "replica") /\ e.pc # "out"
    BY <1>1, <1>2
  <2> QED BY <2>1, <1>2, <1>4, <1>7, <1>9 DEF HandlerTrue
<1>11. WriteTrue(w)'
  <2>1. outcome'[w] = "open"
    BY <1>4 DEF DataInv, DataType
  <2>2. \A f \in acks'[w] : f \in Followers(w) /\ Stored(w, f)'
    BY <1>3 DEF DataInv, WriteTrue, Stored
  <2> QED BY <2>1, <2>2 DEF WriteTrue
<1>12. \A g, h \in handlers' : g.write = w /\ Identical(g, h) => g = h
  BY <1>9 DEF Identical
<1>13. \A x \in handlers' : x.write # w => x \in handlers
  BY <1>2, <1>3
<1> QED BY <1>5, <1>7, <1>8, <1>9, <1>10, <1>11, <1>12, <1>13, OneWrite

\* The coordinator's one call of the owner.
LEMMA ForwardData == ASSUME DataInv, NEW h \in handlers, Forward(h) PROVE DataInv'
<1> DEFINE w == h.write
           k == [h EXCEPT !.pc = "out"]
           c == Called(w, "owner", Leader(w))
<1>1. h \in Handlers /\ HandlerTrue(h) /\ h.kind = "entry" /\ h.pc = "in" /\ ~Direct(h)
  BY DEF DataInv, DataType, Forward
<1>2. /\ w \in Writes /\ Leader(w) \in Nodes /\ Unstored(w)
      /\ \A g \in handlers : g.write = w => g = h
      /\ <<h.node, h.transport>> \in Entries[w]
  BY <1>1, Places DEF Handlers, HandlerTrue
<1>3. /\ k \in Handlers /\ k.write = w /\ k.kind = "entry" /\ k.pc = "out" /\ k.node = h.node
      /\ k.transport = h.transport
      /\ c \in Handlers /\ c.write = w /\ c.kind = "owner" /\ c.pc = "sent" /\ c.node = Leader(w)
      /\ c.transport = "http"
  BY <1>1, <1>2 DEF Handlers, Called, Handler
<1>4. handlers' = (handlers \ {h}) \cup {k, c} /\ UNCHANGED <<log, acks, outcome>>
  BY DEF Forward, Moved
<1>5. w = h.write
  OBVIOUS
<1> HIDE DEF w, k, c
<1>6. DataType'
  BY <1>3, <1>4 DEF DataInv, DataType
<1>7. /\ ReplicasFollow(log') /\ Unstored(w)'
      /\ \A v \in Writes, x \in Nodes : Stored(v, x)' <=> Stored(v, x)
  BY <1>2, <1>4 DEF DataInv, Stored, Unstored
<1>8. \A x \in handlers' : x.write = w => x = k \/ x = c
  BY <1>2, <1>4
<1>9. HandlerTrue(k)'
  <2>1. ~Direct(k) /\ ~Commits(k)
    BY <1>1, <1>3, <1>5 DEF Direct, Commits
  <2> QED BY <2>1, <1>2, <1>3 DEF HandlerTrue, Commits, Direct
<1>10. HandlerTrue(c)'
  <2>1. ~Direct(k)
    BY <1>1, <1>3, <1>5 DEF Direct
  <2>2. /\ \A g \in handlers' : g.write = w /\ g.kind = "entry" => g.pc = "out" /\ ~Direct(g)
        /\ \A g \in handlers' : g.write = w => g.kind # "replica"
    BY <2>1, <1>3, <1>8
  <2> QED BY <2>2, <1>3, <1>7 DEF HandlerTrue, Commits, Direct
<1>11. WriteTrue(w)'
  <2>1. WriteTrue(w) /\ outcome'[w] = outcome[w] /\ acks'[w] = acks[w]
    BY <1>2, <1>4 DEF DataInv
  <2>2. outcome[w] \notin {"new", "failed"}
    BY <2>1, <1>5 DEF WriteTrue
  <2>3. {n \in Nodes : Stored(w, n)'} = {n \in Nodes : Stored(w, n)}
    BY <1>2, <1>7
  <2>4. \A f \in acks'[w] : f \in Followers(w) /\ Stored(w, f)'
    BY <1>4, <2>1 DEF WriteTrue, Stored
  <2>5. Stored(w, Leader(w))' <=> Stored(w, Leader(w))
    BY <1>2, <1>7
  <2> QED BY <2>1, <2>2, <2>3, <2>4, <2>5 DEF WriteTrue
<1>12. \A g, x \in handlers' : g.write = w /\ Identical(g, x) => g = x
  BY <1>3, <1>8 DEF Identical
<1>13. \A x \in handlers' : x.write # w => x \in handlers
  BY <1>3, <1>4
<1> QED BY <1>2, <1>4, <1>6, <1>7, <1>8, <1>9, <1>10, <1>11, <1>12, <1>13, OneWrite

\* commitLeaderShardBatch appends the mutation once, at the leader, and calls every
\* follower.
LEMMA CommitData == ASSUME DataInv, NEW h \in handlers, Commit(h) PROVE DataInv'
<1> DEFINE w == h.write
           l == Leader(w)
           k == [h EXCEPT !.pc = "out"]
           calls == {Called(w, "replica", f) : f \in Followers(w)}
<1>1. h \in Handlers /\ HandlerTrue(h) /\ h.pc = "in" /\ Commits(h)
  BY DEF DataInv, DataType, Commit
<1>2. /\ w \in Writes /\ l \in Nodes /\ l \in Range(Replicas[Shard[w]]) /\ h.node = l /\ h.kind # "replica"
      /\ Followers(w) \subseteq Nodes
  BY <1>1, Places DEF Handlers, HandlerTrue, Commits, Direct
<1>3. Unstored(w) /\ \A g \in handlers : g.write = w => g.kind # "replica"
  BY <1>1, <1>2 DEF HandlerTrue, Commits
<1>4. /\ k \in Handlers /\ k.write = w /\ k.kind = h.kind /\ k.pc = "out" /\ k.node = h.node
      /\ k.transport = h.transport
  BY <1>1 DEF Handlers
<1>5. \A x \in calls :
         /\ x \in Handlers /\ x.write = w /\ x.kind = "replica" /\ x.node \in Followers(w)
         /\ x.transport = "http" /\ x = Called(w, "replica", x.node)
  <2> TAKE x \in calls
  <2>1. PICK f \in Followers(w) : x = Called(w, "replica", f)
    OBVIOUS
  <2>2. x = [write |-> w, kind |-> "replica", node |-> f, transport |-> "http", pc |-> "sent",
             late |-> FALSE]
    BY <2>1 DEF Called, Handler
  <2>3. f \in Nodes /\ w \in Writes
    BY <1>2
  <2> HIDE DEF w, calls
  <2>4. x \in Handlers
    BY <2>2, <2>3 DEF Handlers
  <2>5. x.write = w /\ x.kind = "replica" /\ x.node = f /\ x.transport = "http"
    BY <2>2
  <2> QED BY <2>1, <2>4, <2>5
<1>6. handlers' = ((handlers \ {h}) \cup {k}) \cup calls /\ UNCHANGED <<acks, outcome>>
  BY DEF Commit, Moved
<1>7. log' = [log EXCEPT ![l][Shard[w]] = Append(@, w)]
  BY <1>2 DEF Commit
<1>8. w = h.write /\ l = Leader(w)
  OBVIOUS
<1> HIDE DEF w, l, k, calls
<1>9. /\ log' \in Logs /\ ReplicasFollow(log') /\ Stored(w, l)'
      /\ \A v \in Writes \ {w}, x \in Nodes : Stored(v, x)' <=> Stored(v, x)
  BY <1>2, <1>7, <1>8, AppendedCopy
<1>10. DataType'
  BY <1>4, <1>5, <1>6, <1>9 DEF DataInv, DataType
<1>11. \A x \in handlers' : x.write = w => x = k \/ x \in calls \/ (x \in handlers /\ x # h)
  BY <1>6
<1>12. ASSUME NEW x \in handlers \ {h}, x.write = w
       PROVE  x.kind = "entry" /\ x.pc = "out" /\ ~Direct(x) /\ h.kind = "owner"
  <2>1. h.kind # "entry"
    BY <1>1, <1>8, <1>12 DEF HandlerTrue
  <2>2. h.kind = "owner"
    BY <2>1, <1>1, <1>2 DEF Handlers
  <2>3. x.kind # "owner" /\ x.kind # "replica" /\ x \in Handlers
    BY <2>2, <1>3, <1>8, <1>12 DEF DataInv, DataType, HandlersUnique, Identical
  <2>4. x.kind = "entry"
    BY <2>3 DEF Handlers
  <2> QED BY <2>2, <2>4, <1>1, <1>8, <1>12 DEF HandlerTrue
<1>13. HandlerTrue(k)'
  <2>1. \A g \in handlers' : g.write = w /\ g.kind = "entry" /\ h.kind = "owner" => g.pc = "out" /\ ~Direct(g)
    BY <1>4, <1>5, <1>11, <1>12
  <2>2. /\ k.kind = "owner" => k.node = l /\ k.transport = "http"
        /\ k.kind = "entry" => <<k.node, k.transport>> \in Entries[w]
    BY <1>1, <1>2, <1>4, <1>8 DEF HandlerTrue
  <2> QED BY <2>1, <2>2, <1>2, <1>4, <1>8, <1>9 DEF HandlerTrue, Commits, Direct
<1>14. \A x \in calls : HandlerTrue(x)'
  BY <1>5, <1>8, <1>9 DEF HandlerTrue, Commits
<1>15. ASSUME NEW x \in handlers \ {h}, x.write = w PROVE HandlerTrue(x)'
  <2>1. x.kind = "entry" /\ x.pc = "out" /\ ~Direct(x)
    BY <1>12, <1>15
  <2>2. <<x.node, x.transport>> \in Entries[w]
    BY <2>1, <1>15 DEF DataInv, HandlerTrue
  <2> QED BY <2>1, <2>2, <1>15 DEF HandlerTrue, Commits, Direct
<1>16. WriteTrue(w)'
  <2>1. WriteTrue(w) /\ outcome'[w] = outcome[w] /\ acks'[w] = acks[w]
    BY <1>2, <1>6 DEF DataInv
  <2>2. outcome[w] \notin {"new", "failed", "committed"}
    BY <2>1, <1>2, <1>3, <1>8 DEF WriteTrue, Unstored
  <2>3. acks[w] = {}
    BY <2>1, <1>2, <1>3 DEF WriteTrue, Unstored
  <2> QED BY <2>1, <2>2, <2>3 DEF WriteTrue
<1>17. \A g, x \in handlers' : g.write = w /\ Identical(g, x) => g = x
  <2> SUFFICES ASSUME NEW g \in handlers', NEW x \in handlers', g.write = w, Identical(g, x)
               PROVE  g = x
    OBVIOUS
  <2>1. x.write = w /\ x.kind = g.kind /\ (g.kind = "replica" => g.node = x.node)
    BY DEF Identical
  <2>2. CASE g \in calls
    <3>1. x \in calls
      BY <2>1, <2>2, <1>2, <1>4, <1>5, <1>11, <1>12
    <3> QED BY <2>1, <2>2, <3>1, <1>5
  <2>3. CASE g = k
    <3>1. x = k
      BY <2>1, <2>3, <1>2, <1>4, <1>5, <1>11, <1>12
    <3> QED BY <2>3, <3>1
  <2>4. CASE g \in handlers /\ g # h
    <3>1. g.kind = "entry" /\ h.kind = "owner"
      BY <2>4, <1>12
    <3>2. x \in handlers
      BY <2>1, <3>1, <1>4, <1>5, <1>11
    <3> QED BY <2>4, <3>2 DEF DataInv, HandlersUnique
  <2> QED BY <2>2, <2>3, <2>4, <1>11
<1>18. \A x \in handlers' : x.write # w => x \in handlers
  BY <1>4, <1>5, <1>6
<1>19. \A x \in handlers' : x.write = w => HandlerTrue(x)'
  BY <1>11, <1>13, <1>14, <1>15
<1>20. \A v \in Writes \ {w} : outcome'[v] = outcome[v] /\ acks'[v] = acks[v]
  BY <1>6
<1> QED BY <1>2, <1>9, <1>10, <1>16, <1>17, <1>18, <1>19, <1>20, OneWrite

\* The barriers and the coordinator of a backup touch no mutation.
LEMMA OtherData == ASSUME DataInv, UNCHANGED data PROVE DataInv'
<1> USE DEF data
<1>1. DataType' /\ HandlersUnique' /\ ReplicasFollow(log)'
  BY DEF DataInv, DataType, HandlersUnique, ReplicasFollow
<1>2. /\ \A w \in Writes, n \in Nodes : Stored(w, n)' <=> Stored(w, n)
      /\ \A w \in Writes : Unstored(w)' <=> Unstored(w)
  BY DEF Stored, Unstored
<1>3. ASSUME NEW h \in handlers' PROVE HandlerTrue(h)'
  BY DEF DataInv, HandlerTrue, Stored, Unstored, Commits, Direct
<1>4. ASSUME NEW w \in Writes PROVE WriteTrue(w)'
  BY DEF DataInv, WriteTrue, Stored, Unstored
<1> QED BY <1>1, <1>3, <1>4 DEF DataInv

\* Every step keeps the invariant of the mutations.
LEMMA NextData == ASSUME DataInv, [Next]_vars PROVE DataInv'
<1>1. ASSUME NEW w \in Writes, NEW n \in Nodes, SubmitHttp(w, n) \/ SubmitGrpc(w, n) PROVE DataInv'
  BY <1>1, SubmitData
<1>2. ASSUME NEW h \in handlers, HandlerStep(h) \/ Reject(h) PROVE DataInv'
  BY <1>2, BarrierData, ForwardData, CommitData, StoreData, AcknowledgeData, GiveUpData, RejectData
     DEF HandlerStep
<1>3. ASSUME NEW n \in Nodes, Lock(n) \/ Restart(n) PROVE DataInv'
  BY <1>3, RestartData, OtherData DEF Lock
<1>4. ASSUME NEW b \in Backups,
             StartBackup(b) \/ BackupStep(b) \/ CallFails(b) \/ FreezeLost(b) \/ ReleaseLost(b)
      PROVE  DataInv'
  <2>1. UNCHANGED data
    BY <1>4 DEF StartBackup, BackupStep, CallFails, FreezeLost, ReleaseLost, LocalFrozen, FreezePeer,
       PeerFrozen, AllFrozen, Capture, Archive, Release
  <2> QED BY <2>1, OtherData
<1>5. CASE UNCHANGED vars
  BY <1>5, OtherData DEF vars, data
<1> QED BY <1>1, <1>2, <1>3, <1>4, <1>5 DEF Next

\* What the mutations' invariant says of the outcomes.
LEMMA DataHonest == DataInv => OutcomeHonest
<1> SUFFICES ASSUME DataInv, NEW w \in Writes
             PROVE  LET stored == {n \in Nodes : w \in Range(log[n][Shard[w]])} IN
                    /\ outcome[w] = "failed" => stored = {}
                    /\ outcome[w] = "committed" => Cardinality(stored) >= Required(w)
  BY DEF OutcomeHonest
<1>1. WriteTrue(w)
  BY DEF DataInv
<1> QED BY <1>1 DEF WriteTrue, Unstored, Stored

\* The invariant of the mutations holds in every reachable state.
THEOREM MutationsCorrect == Spec => []DataInv
<1> QED BY InitData, NextData, PTL DEF Spec

\* An outcome can be acted upon, whatever was given up, lost or refused on the way
\* (commitLeaderShardBatch, internalReplicaAppend, the coordinator's reading of the
\* owner's answer).
THEOREM OutcomesHonest == Spec => []OutcomeHonest
<1> QED BY MutationsCorrect, DataHonest, PTL

-----------------------------------------------------------------------------
(* Barriers *)

\* At first no gate is held and no backup has begun.
LEMMA InitGate == Init => GateInv
<1> SUFFICES ASSUME Init PROVE GateInv
  OBVIOUS
<1>1. \A b \in Backups : request[b] = Stage("idle") /\ began[b] = {} /\ cut[b] = <<>>
  BY DEF Init
<1>2. \A n \in Nodes : op[n] = NoOp /\ held[n] = FALSE
  BY DEF Init
<1>3. GateType
  BY DEF Init, GateType, Ops, Stage, Stages
<1>4. GatesShut
  BY <1>2 DEF GatesShut
<1>5. \A b \in Backups : request[b].pc = "idle" /\ DOMAIN request[b].archives = {}
  BY <1>1 DEF Stage, NoPoints
<1>6. \A b \in Backups : BackupTrue(b)
  BY <1>2, <1>5, BackupAssumption DEF BackupTrue
<1>7. \A b \in Backups : ArchivesTrue(b)
  BY <1>1, <1>5 DEF ArchivesTrue
<1> QED BY <1>3, <1>4, <1>6, <1>7 DEF GateInv

\* What a step leaves of a backup that it is not about.
LEMMA BackupKeeps ==
    ASSUME GateInv, NEW c \in Backups,
           request'[c] = request[c], cut'[c] = cut[c], began'[c] = began[c],
           \A n \in Nodes : op'[n] = Operation[c] => op[n] = Operation[c] /\ (held[n] => held'[n]),
           op[Coordinator] = Operation[c] => op'[Coordinator] = Operation[c],
           \A n \in Nodes : held[n] => log'[n] = log[n],
           \A w \in Writes : Stored(w, Leader(w)) => Stored(w, Leader(w))'
    PROVE  BackupTrue(c)' /\ ArchivesTrue(c)'
<1>1. BackupTrue(c) /\ ArchivesTrue(c) /\ GateType /\ Coordinator \in Nodes
  BY BackupAssumption DEF GateInv
<1>2. NextPeer(c)' = NextPeer(c)
  BY DEF NextPeer
<1>3. BackupTrue(c)'
  BY <1>1, <1>2 DEF BackupTrue
<1>4. CutTrue(c) => CutTrue(c)'
  BY DEF CutTrue
<1>5. \A w \in began'[c] : Stored(w, Leader(w))'
  BY <1>1 DEF ArchivesTrue, GateType
<1>6. ArchivesTrue(c)'
  BY <1>1, <1>4, <1>5 DEF ArchivesTrue
<1> QED BY <1>3, <1>6

\* A step of a handler: readers enter only where no freeze holds the gate, and
\* nothing is stored where one does.
LEMMA HandlersGate ==
    ASSUME GateInv, UNCHANGED <<gates, request, history>>,
           \A x \in handlers' : Gated(x) =>
              ~held[x.node] \/ \E h \in handlers : Gated(h) /\ h.node = x.node,
           \A n \in Nodes : held[n] => log'[n] = log[n],
           \A w \in Writes : Stored(w, Leader(w)) => Stored(w, Leader(w))'
    PROVE  GateInv'
<1> USE DEF gates, history
<1>1. GateType'
  BY DEF GateInv, GateType
<1>2. GatesShut'
  <2> SUFFICES ASSUME NEW n \in Nodes, held[n], NEW x \in handlers', x.node = n, Gated(x)
               PROVE  FALSE
    BY DEF GateInv, GatesShut, Readers, Gated
  <2>1. PICK h \in handlers : Gated(h) /\ h.node = n
    OBVIOUS
  <2> QED BY <2>1 DEF GateInv, GatesShut, Readers
<1>3. \A c \in Backups : BackupTrue(c)' /\ ArchivesTrue(c)'
  <2> TAKE c \in Backups
  <2>1. request'[c] = request[c] /\ cut'[c] = cut[c] /\ began'[c] = began[c]
    OBVIOUS
  <2>2. /\ \A n \in Nodes : op'[n] = Operation[c] => op[n] = Operation[c] /\ (held[n] => held'[n])
        /\ op[Coordinator] = Operation[c] => op'[Coordinator] = Operation[c]
    OBVIOUS
  <2> QED BY <2>1, <2>2, BackupKeeps
<1> QED BY <1>1, <1>2, <1>3 DEF GateInv

\* A step of a handler that stores nothing.
LEMMA CallsGate ==
    ASSUME GateInv, UNCHANGED <<log, gates, request, history>>,
           \A x \in handlers' : Gated(x) =>
              ~held[x.node] \/ \E h \in handlers : Gated(h) /\ h.node = x.node
    PROVE  GateInv'
  BY HandlersGate DEF Stored

\* Where a mutation is appended: by a handler inside the barrier of its node.
LEMMA Appends ==
    ASSUME DataInv, GrpcForwarded, NEW h \in handlers, Commit(h) \/ Store(h)
    PROVE  /\ Gated(h) /\ \A n \in Nodes \ {h.node} : log'[n] = log[n]
           /\ \A w \in Writes, n \in Nodes : Stored(w, n) => Stored(w, n)'
<1>1. h \in Handlers /\ HandlerTrue(h) /\ h.pc = "in" /\ log \in Logs
  BY DEF DataInv, DataType, Commit, Store
<1>2. h.write \in Writes /\ h.node \in Nodes /\ Shard[h.write] \in Shards
  BY <1>1, Places DEF Handlers
<1>3. h.transport = "http"
  <2>1. CASE h.kind # "entry"
    BY <2>1, <1>1 DEF HandlerTrue, Handlers
  <2>2. CASE h.kind = "entry"
    <3>1. h.node = Leader(h.write) /\ <<h.node, h.transport>> \in Entries[h.write]
      BY <2>2, <1>1 DEF HandlerTrue, Commit, Store, Commits, Direct
    <3>2. h.transport # "grpc"
      BY <3>1, <1>2 DEF GrpcForwarded
    <3> QED BY <3>2, <1>1 DEF Handlers
  <2> QED BY <2>1, <2>2
<1> DEFINE q == log[h.node][Shard[h.write]]
<1>4. log' = log \/ log' = [log EXCEPT ![h.node][Shard[h.write]] = Append(q, h.write)]
  BY <1>1, <1>2 DEF Commit, Store, Logs
<1>5. q \in Seq(Writes)
  BY <1>1, <1>2 DEF Logs
<1>6. Range(q) \subseteq Range(Append(q, h.write))
  BY <1>2, <1>5, Appended
<1>7. \A n \in Nodes, s \in Shards : Range(log[n][s]) \subseteq Range(log'[n][s])
  <2> SUFFICES ASSUME NEW n \in Nodes, NEW s \in Shards PROVE Range(log[n][s]) \subseteq Range(log'[n][s])
    OBVIOUS
  <2>1. log'[n][s] = log[n][s] \/ (log[n][s] = q /\ log'[n][s] = Append(q, h.write))
    <3>1. CASE log' = log
      BY <3>1
    <3>2. CASE log' = [log EXCEPT ![h.node][Shard[h.write]] = Append(q, h.write)]
      <4> DEFINE y == Append(q, h.write)
      <4>1. log' = [log EXCEPT ![h.node] = [log[h.node] EXCEPT ![Shard[h.write]] = y]]
        BY <3>2
      <4> HIDE DEF y
      <4>2. n = h.node /\ s = Shard[h.write] => log'[n][s] = y
        BY <1>1, <1>2, <4>1 DEF Logs
      <4>3. n # h.node \/ s # Shard[h.write] => log'[n][s] = log[n][s]
        BY <1>1, <1>2, <4>1 DEF Logs
      <4> QED BY <4>2, <4>3 DEF y
    <3> QED BY <3>1, <3>2, <1>4
  <2> HIDE DEF q
  <2> QED BY <2>1, <1>6
<1>8. \A w \in Writes, n \in Nodes : Stored(w, n) => Stored(w, n)'
  BY <1>7, Places DEF Stored
<1>9. \A n \in Nodes \ {h.node} : log'[n] = log[n]
  BY <1>1, <1>2, <1>4 DEF Logs
<1> QED BY <1>1, <1>3, <1>8, <1>9 DEF Gated

\* The steps of handlers keep the invariant of the barriers.
LEMMA HandlerGate ==
    ASSUME DataInv, GateInv, GrpcForwarded, NEW h \in handlers, HandlerStep(h) \/ Reject(h)
    PROVE  GateInv'
<1>1. CASE Check(h)
  <2> DEFINE k == [h EXCEPT !.pc = "checked"]
  <2>1. handlers' \subseteq handlers \cup {k} /\ ~Gated(k)
    BY <1>1 DEF Check, Moved, Answer, Gated, DataInv, DataType, Handlers
  <2> HIDE DEF k
  <2> QED BY <1>1, <2>1, CallsGate DEF Check
<1>2. CASE RLock(h)
  <2> DEFINE k == [h EXCEPT !.pc = "in"]
  <2>1. handlers' \subseteq handlers \cup {k} /\ k.node = h.node /\ ~held[h.node]
    BY <1>2 DEF RLock, Moved, Answer, DataInv, DataType, Handlers
  <2> HIDE DEF k
  <2> QED BY <1>2, <2>1, CallsGate DEF RLock
<1>3. CASE Forward(h)
  <2> DEFINE k == [h EXCEPT !.pc = "out"]
             c == Called(h.write, "owner", Leader(h.write))
  <2>1. handlers' = ((handlers \ {h}) \cup {k}) \cup {c} /\ h \in Handlers /\ h.pc = "in"
    BY <1>3 DEF Forward, Moved, DataInv, DataType
  <2>2. k.node = h.node /\ (Gated(k) => Gated(h)) /\ ~Gated(c)
    BY <2>1 DEF Gated, Handlers, Called, Handler
  <2> HIDE DEF k, c
  <2>3. \A x \in handlers' : Gated(x) => \E g \in handlers : Gated(g) /\ g.node = x.node
    BY <2>1, <2>2
  <2> QED BY <1>3, <2>3, CallsGate DEF Forward
<1>4. CASE Commit(h)
  <2> DEFINE k == [h EXCEPT !.pc = "out"]
             calls == {Called(h.write, "replica", f) : f \in Followers(h.write)}
  <2>1. handlers' = ((handlers \ {h}) \cup {k}) \cup calls /\ h \in Handlers /\ h.node \in Nodes
    BY <1>4 DEF Commit, Moved, DataInv, DataType, Handlers
  <2>2. k.node = h.node
    BY <2>1 DEF Handlers
  <2>3. \A x \in calls : ~Gated(x)
    BY DEF Gated, Called, Handler
  <2>4. /\ Gated(h) /\ \A n \in Nodes \ {h.node} : log'[n] = log[n]
        /\ \A w \in Writes, n \in Nodes : Stored(w, n) => Stored(w, n)'
    BY <1>4, Appends
  <2> HIDE DEF k, calls
  <2>5. \A x \in handlers' : Gated(x) => \E g \in handlers : Gated(g) /\ g.node = x.node
    BY <2>1, <2>2, <2>3, <2>4
  <2>6. ~held[h.node]
    BY <2>1, <2>4 DEF GateInv, GatesShut, Readers
  <2>7. \A w \in Writes : Stored(w, Leader(w)) => Stored(w, Leader(w))'
    BY <2>4, Places
  <2> QED BY <1>4, <2>4, <2>5, <2>6, <2>7, HandlersGate DEF Commit
<1>5. CASE Store(h)
  <2>1. /\ Gated(h) /\ \A n \in Nodes \ {h.node} : log'[n] = log[n] /\ h.node \in Nodes
        /\ \A w \in Writes, n \in Nodes : Stored(w, n) => Stored(w, n)'
    BY <1>5, Appends DEF DataInv, DataType, Handlers
  <2>2. handlers' \subseteq handlers
    BY <1>5 DEF Store, Answer
  <2>3. ~held[h.node]
    BY <2>1 DEF GateInv, GatesShut, Readers, DataInv, DataType, Handlers
  <2>4. \A w \in Writes : Stored(w, Leader(w)) => Stored(w, Leader(w))'
    BY <2>1, Places
  <2>5. \A n \in Nodes : held[n] => log'[n] = log[n]
    BY <2>1, <2>3
  <2>6. \A x \in handlers' : Gated(x) => \E g \in handlers : Gated(g) /\ g.node = x.node
    BY <2>2
  <2> QED BY <1>5, <2>4, <2>5, <2>6, HandlersGate DEF Store
<1>6. CASE Acknowledge(h) \/ Reject(h)
  <2>1. handlers' \subseteq handlers
    BY <1>6 DEF Acknowledge, Reject, Answer
  <2> QED BY <1>6, <2>1, CallsGate DEF Acknowledge, Reject
<1>7. CASE GiveUp(h)
  <2> DEFINE k == [h EXCEPT !.late = TRUE]
  <2>1. handlers' \subseteq handlers \cup {k}
    BY <1>7 DEF GiveUp
  <2>2. k.node = h.node /\ (Gated(k) => Gated(h))
    BY DEF Gated, DataInv, DataType, Handlers
  <2> HIDE DEF k
  <2>3. \A x \in handlers' : Gated(x) => \E g \in handlers : Gated(g) /\ g.node = x.node
    BY <2>1, <2>2
  <2> QED BY <1>7, <2>3, CallsGate DEF GiveUp
<1> QED BY <1>1, <1>2, <1>3, <1>4, <1>5, <1>6, <1>7 DEF HandlerStep

\* A mutation that is sent is not inside a barrier.
LEMMA SubmitGate ==
    ASSUME DataInv, GateInv, NEW w \in Writes, NEW n \in Nodes, SubmitHttp(w, n) \/ SubmitGrpc(w, n)
    PROVE  GateInv'
<1>1. CASE SubmitHttp(w, n)
  <2>1. handlers' = handlers \cup {Handler(w, "entry", n, "http", "sent")}
    BY <1>1 DEF SubmitHttp, Submit
  <2>2. ~Gated(Handler(w, "entry", n, "http", "sent"))
    BY DEF Gated, Handler
  <2> QED BY <1>1, <2>1, <2>2, CallsGate DEF SubmitHttp, Submit
<1>2. CASE SubmitGrpc(w, n)
  <2>1. handlers' = handlers \cup {Handler(w, "entry", n, "grpc", "in")}
    BY <1>2 DEF SubmitGrpc, Submit
  <2>2. ~Gated(Handler(w, "entry", n, "grpc", "in"))
    BY DEF Gated, Handler
  <2> QED BY <1>2, <2>1, <2>2, CallsGate DEF SubmitGrpc, Submit
<1> QED BY <1>1, <1>2

\* A restart opens the node's gate.
LEMMA RestartGate == ASSUME DataInv, GateInv, NEW n \in Nodes, Restart(n) PROVE GateInv'
<1>1. /\ n # Coordinator /\ Coordinator \in Nodes /\ UNCHANGED <<log, request, history>>
      /\ op' = [op EXCEPT ![n] = NoOp] /\ held' = [held EXCEPT ![n] = FALSE]
  BY BackupAssumption DEF Restart
<1>2. GateType'
  BY <1>1 DEF GateInv, GateType, Ops, history
<1>3. \A x \in handlers' : \E h \in handlers : x.node = h.node /\ (Gated(x) => Gated(h))
  <2> TAKE x \in handlers'
  <2>1. PICK h \in handlers : x = h \/ x = [h EXCEPT !.late = TRUE]
    BY DEF Restart
  <2> QED BY <2>1 DEF Gated, DataInv, DataType, Handlers
<1>4. GatesShut'
  <2> SUFFICES ASSUME NEW m \in Nodes, held'[m] PROVE op'[m] # NoOp /\ Readers(m)' = {}
    BY DEF GatesShut
  <2>1. m # n /\ held[m] /\ op'[m] = op[m] /\ op[m] # NoOp /\ Readers(m) = {}
    BY <1>1 DEF GateInv, GateType, GatesShut
  <2>2. ASSUME NEW x \in handlers', x.node = m, Gated(x) PROVE FALSE
    BY <2>1, <2>2, <1>3 DEF Readers
  <2> QED BY <2>1, <2>2 DEF Readers, Gated
<1>5. \A c \in Backups : BackupTrue(c)' /\ ArchivesTrue(c)'
  <2> TAKE c \in Backups
  <2>1. Operation[c] # NoOp
    BY BackupAssumption
  <2>2. /\ \A x \in Nodes : op'[x] = Operation[c] => op[x] = Operation[c] /\ (held[x] => held'[x])
        /\ op[Coordinator] = Operation[c] => op'[Coordinator] = Operation[c]
    BY <1>1, <2>1 DEF GateInv, GateType
  <2> QED BY <1>1, <2>2, BackupKeeps DEF history, Stored
<1> QED BY <1>2, <1>4, <1>5 DEF GateInv

\* A freeze that waited for the readers of the gate holds it.
LEMMA LockGate == ASSUME GateInv, NEW n \in Nodes, Lock(n) PROVE GateInv'
<1>1. /\ UNCHANGED <<log, handlers, op, request, history>> /\ held' = [held EXCEPT ![n] = TRUE]
      /\ op[n] # NoOp /\ Readers(n) = {}
  BY DEF Lock, data, Drained
<1>2. GateType'
  BY <1>1 DEF GateInv, GateType, history
<1>3. GatesShut'
  BY <1>1 DEF GateInv, GateType, GatesShut, Readers, Gated
<1>4. \A c \in Backups : BackupTrue(c)' /\ ArchivesTrue(c)'
  <2> TAKE c \in Backups
  <2>1. \A x \in Nodes : op'[x] = Operation[c] => op[x] = Operation[c] /\ (held[x] => held'[x])
    BY <1>1 DEF GateInv, GateType
  <2> QED BY <1>1, <2>1, BackupKeeps DEF history, Stored
<1> QED BY <1>2, <1>3, <1>4 DEF GateInv

-----------------------------------------------------------------------------
(* Backups *)

\* A step of backup b: its record after the step.
Becomes(b, pc, frozen, points, archives) ==
    request' = [request EXCEPT ![b] =
        [pc |-> pc, frozen |-> frozen, points |-> points, archives |-> archives]]

\* A backup's record has these fields and no others.
LEMMA RecordShape ==
    ASSUME GateType, NEW b \in Backups
    PROVE  /\ request[b] = [pc |-> request[b].pc, frozen |-> request[b].frozen,
                            points |-> request[b].points, archives |-> request[b].archives]
           /\ DOMAIN request = Backups
  BY DEF GateType

\* The assignments of the coordinator, as one record.
LEMMA Assigns ==
    ASSUME GateType, NEW b \in Backups, NEW pc, NEW v
    PROVE  LET r == request[b] IN
           /\ request' = [request EXCEPT ![b].pc = pc] => Becomes(b, pc, r.frozen, r.points, r.archives)
           /\ request' = [request EXCEPT ![b].frozen = v] => Becomes(b, r.pc, v, r.points, r.archives)
           /\ request' = [request EXCEPT ![b].frozen = v, ![b].pc = pc] =>
                 Becomes(b, pc, v, r.points, r.archives)
           /\ request' = [request EXCEPT ![b].points = v, ![b].pc = pc] =>
                 Becomes(b, pc, r.frozen, v, r.archives)
           /\ request' = [request EXCEPT ![b].archives = v, ![b].pc = pc] =>
                 Becomes(b, pc, r.frozen, r.points, v)
<1> DEFINE r == request[b]
<1>1. r = [pc |-> r.pc, frozen |-> r.frozen, points |-> r.points, archives |-> r.archives]
      /\ b \in DOMAIN request
  BY RecordShape
<1> HIDE DEF r
<1>2. /\ [r EXCEPT !.pc = pc] = [pc |-> pc, frozen |-> r.frozen, points |-> r.points, archives |-> r.archives]
      /\ [r EXCEPT !.frozen = v] = [pc |-> r.pc, frozen |-> v, points |-> r.points, archives |-> r.archives]
      /\ [[r EXCEPT !.frozen = v] EXCEPT !.pc = pc] =
            [pc |-> pc, frozen |-> v, points |-> r.points, archives |-> r.archives]
      /\ [[r EXCEPT !.points = v] EXCEPT !.pc = pc] =
            [pc |-> pc, frozen |-> r.frozen, points |-> v, archives |-> r.archives]
      /\ [[r EXCEPT !.archives = v] EXCEPT !.pc = pc] =
            [pc |-> pc, frozen |-> r.frozen, points |-> r.points, archives |-> v]
  <2>1. PICK a, c, d, e : r = [pc |-> a, frozen |-> c, points |-> d, archives |-> e]
    BY <1>1
  <2>2. r.pc = a /\ r.frozen = c /\ r.points = d /\ r.archives = e
    BY <2>1
  <2> DEFINE x == [pc |-> a, frozen |-> v, points |-> d, archives |-> e]
             y == [pc |-> a, frozen |-> c, points |-> v, archives |-> e]
             z == [pc |-> a, frozen |-> c, points |-> d, archives |-> v]
  <2>3. [r EXCEPT !.pc = pc] = [pc |-> pc, frozen |-> c, points |-> d, archives |-> e]
    BY <2>1
  <2>4. [r EXCEPT !.frozen = v] = x /\ [r EXCEPT !.points = v] = y /\ [r EXCEPT !.archives = v] = z
    BY <2>1
  <2>5. /\ [x EXCEPT !.pc = pc] = [pc |-> pc, frozen |-> v, points |-> d, archives |-> e]
        /\ [y EXCEPT !.pc = pc] = [pc |-> pc, frozen |-> c, points |-> v, archives |-> e]
        /\ [z EXCEPT !.pc = pc] = [pc |-> pc, frozen |-> c, points |-> d, archives |-> v]
    OBVIOUS
  <2>6. [r EXCEPT !.frozen = v] = [pc |-> a, frozen |-> v, points |-> d, archives |-> e]
    BY <2>4
  <2> HIDE DEF x, y, z
  <2>7. [[r EXCEPT !.frozen = v] EXCEPT !.pc = pc] =
            [pc |-> pc, frozen |-> v, points |-> r.points, archives |-> r.archives]
    BY ONLY <2>2, <2>4, <2>5, Zenon
  <2>8. [[r EXCEPT !.points = v] EXCEPT !.pc = pc] =
            [pc |-> pc, frozen |-> r.frozen, points |-> v, archives |-> r.archives]
    BY ONLY <2>2, <2>4, <2>5, Zenon
  <2>9. [[r EXCEPT !.archives = v] EXCEPT !.pc = pc] =
            [pc |-> pc, frozen |-> r.frozen, points |-> r.points, archives |-> v]
    BY ONLY <2>2, <2>4, <2>5, Zenon
  <2> QED BY ONLY <2>2, <2>3, <2>6, <2>7, <2>8, <2>9, Zenon
<1>3. /\ [request EXCEPT ![b].pc = pc] = [request EXCEPT ![b] = [r EXCEPT !.pc = pc]]
      /\ [request EXCEPT ![b].frozen = v] = [request EXCEPT ![b] = [r EXCEPT !.frozen = v]]
      /\ [request EXCEPT ![b].frozen = v, ![b].pc = pc] =
            [request EXCEPT ![b] = [[r EXCEPT !.frozen = v] EXCEPT !.pc = pc]]
      /\ [request EXCEPT ![b].points = v, ![b].pc = pc] =
            [request EXCEPT ![b] = [[r EXCEPT !.points = v] EXCEPT !.pc = pc]]
      /\ [request EXCEPT ![b].archives = v, ![b].pc = pc] =
            [request EXCEPT ![b] = [[r EXCEPT !.archives = v] EXCEPT !.pc = pc]]
  BY <1>1 DEF r
<1>4. /\ request' = [request EXCEPT ![b].pc = pc] => Becomes(b, pc, r.frozen, r.points, r.archives)
      /\ request' = [request EXCEPT ![b].frozen = v] => Becomes(b, r.pc, v, r.points, r.archives)
      /\ request' = [request EXCEPT ![b].frozen = v, ![b].pc = pc] =>
            Becomes(b, pc, v, r.points, r.archives)
      /\ request' = [request EXCEPT ![b].points = v, ![b].pc = pc] =>
            Becomes(b, pc, r.frozen, v, r.archives)
      /\ request' = [request EXCEPT ![b].archives = v, ![b].pc = pc] =>
            Becomes(b, pc, r.frozen, r.points, v)
  BY <1>2, <1>3 DEF Becomes
<1> QED BY <1>4 DEF r

\* What the record becomes, and that other records are kept.
LEMMA Became ==
    ASSUME GateType, NEW b \in Backups, NEW pc \in Stages, NEW frozen, NEW points, NEW archives,
           Becomes(b, pc, frozen, points, archives)
    PROVE  /\ request'[b].pc = pc /\ request'[b].frozen = frozen
           /\ request'[b].points = points /\ request'[b].archives = archives
           /\ \A c \in Backups \ {b} : request'[c] = request[c]
           /\ request' = [c \in Backups |->
                [pc |-> request'[c].pc, frozen |-> request'[c].frozen, points |-> request'[c].points,
                 archives |-> request'[c].archives]]
           /\ \A c \in Backups : request'[c].pc \in Stages
<1> DEFINE r == [pc |-> pc, frozen |-> frozen, points |-> points, archives |-> archives]
<1>1. r.pc = pc /\ r.frozen = frozen /\ r.points = points /\ r.archives = archives
      /\ r = [pc |-> r.pc, frozen |-> r.frozen, points |-> r.points, archives |-> r.archives]
  OBVIOUS
<1>2. request' = [request EXCEPT ![b] = r]
  BY DEF Becomes
<1> HIDE DEF r
<1>3. request' = [c \in Backups |-> IF c = b THEN r ELSE request[c]]
  BY <1>2, RecordShape DEF GateType
<1>4. /\ request'[b] = r /\ \A c \in Backups \ {b} : request'[c] = request[c]
      /\ \A c \in Backups : request'[c].pc \in Stages
  BY <1>1, <1>3 DEF GateType
<1>5. \A c \in Backups : request'[c] = [pc |-> request'[c].pc, frozen |-> request'[c].frozen,
         points |-> request'[c].points, archives |-> request'[c].archives]
  BY <1>1, <1>4, RecordShape
<1> QED BY <1>1, <1>3, <1>4, <1>5

\* A step of one backup: it locks no gate, and leaves the operations of others.
LEMMA BackupGate ==
    ASSUME GateInv, UNCHANGED data, NEW b \in Backups, NEW pc \in Stages, NEW frozen, NEW points,
           NEW archives, Becomes(b, pc, frozen, points, archives),
           op' \in [Nodes -> Ops], held' \in [Nodes -> BOOLEAN],
           began' \in [Backups -> SUBSET Writes], cut' = [c \in Backups |-> cut'[c]],
           \A c \in Backups \ {b} : cut'[c] = cut[c] /\ began'[c] = began[c],
           \A n \in Nodes : held'[n] => held[n] /\ op'[n] # NoOp,
           \A c \in Backups \ {b}, n \in Nodes :
              op'[n] = Operation[c] => op[n] = Operation[c] /\ (held[n] => held'[n]),
           \A c \in Backups \ {b} : op[Coordinator] = Operation[c] => op'[Coordinator] = Operation[c],
           BackupTrue(b)', ArchivesTrue(b)'
    PROVE  GateInv'
<1>1. /\ \A c \in Backups \ {b} : request'[c] = request[c]
      /\ request' = [c \in Backups |->
           [pc |-> request'[c].pc, frozen |-> request'[c].frozen, points |-> request'[c].points,
            archives |-> request'[c].archives]]
      /\ \A c \in Backups : request'[c].pc \in Stages
  BY Became DEF GateInv
<1>2. GateType'
  BY <1>1 DEF GateType
<1>3. GatesShut'
  BY DEF GateInv, GatesShut, Readers, Gated, data
<1>4. log' = log /\ \A w \in Writes : Stored(w, Leader(w)) => Stored(w, Leader(w))'
  BY DEF data, Stored
<1>5. ASSUME NEW c \in Backups \ {b} PROVE BackupTrue(c)' /\ ArchivesTrue(c)'
  <2>1. request'[c] = request[c] /\ cut'[c] = cut[c] /\ began'[c] = began[c]
    BY <1>1
  <2>2. /\ \A n \in Nodes : op'[n] = Operation[c] => op[n] = Operation[c] /\ (held[n] => held'[n])
        /\ op[Coordinator] = Operation[c] => op'[Coordinator] = Operation[c]
    OBVIOUS
  <2> QED BY <1>4, <2>1, <2>2, BackupKeeps
<1> QED BY <1>2, <1>3, <1>5 DEF GateInv

\* A step of the coordinator that changes no barrier.
LEMMA CoordinatorGate ==
    ASSUME GateInv, UNCHANGED data, UNCHANGED <<op, held>>, NEW b \in Backups, NEW pc \in Stages,
           NEW frozen, NEW points, NEW archives, Becomes(b, pc, frozen, points, archives),
           began' = began, cut' = [c \in Backups |-> cut'[c]],
           \A c \in Backups \ {b} : cut'[c] = cut[c],
           BackupTrue(b)', ArchivesTrue(b)'
    PROVE  GateInv'
<1>1. /\ op' \in [Nodes -> Ops] /\ held' \in [Nodes -> BOOLEAN] /\ began' \in [Backups -> SUBSET Writes]
      /\ \A n \in Nodes : held'[n] => held[n] /\ op'[n] # NoOp
  BY DEF GateInv, GateType, GatesShut
<1>2. /\ \A c \in Backups \ {b} : cut'[c] = cut[c] /\ began'[c] = began[c]
      /\ \A c \in Backups \ {b}, n \in Nodes :
            op'[n] = Operation[c] => op[n] = Operation[c] /\ (held[n] => held'[n])
      /\ \A c \in Backups \ {b} : op[Coordinator] = Operation[c] => op'[Coordinator] = Operation[c]
  OBVIOUS
<1> QED BY <1>1, <1>2, BackupGate

\* The archives of a backup that only changes its stage.
LEMMA ArchivesKeep ==
    ASSUME GateInv, UNCHANGED log, NEW b \in Backups, NEW pc \in Stages, NEW frozen,
           Becomes(b, pc, frozen, request[b].points, request[b].archives),
           cut'[b] = cut[b], began'[b] = began[b],
           pc \in {"archive", "release", "done"} \/ request[b].pc \notin {"archive", "release", "done"},
           pc \in {"capture", "archive"} => request[b].pc \in {"capture", "archive"}
    PROVE  ArchivesTrue(b)'
<1>1. /\ request'[b].pc = pc /\ request'[b].points = request[b].points
      /\ request'[b].archives = request[b].archives
  BY Became DEF GateInv
<1>2. ArchivesTrue(b)
  BY DEF GateInv
<1>3. CutTrue(b) => CutTrue(b)'
  BY DEF CutTrue
<1>4. \A w \in began'[b] : Stored(w, Leader(w))'
  BY <1>2 DEF ArchivesTrue, Stored
<1> QED BY <1>1, <1>2, <1>3, <1>4 DEF ArchivesTrue

\* Cuts and starts of backups stay functions.
LEMMA HistoryShape == ASSUME GateInv, UNCHANGED cut PROVE cut' = [c \in Backups |-> cut'[c]]
  BY DEF GateInv, GateType

\* freezeBackup on the coordinator: it is free, or another backup has it.
LEMMA StartGate == ASSUME DataInv, GateInv, NEW b \in Backups, StartBackup(b) PROVE GateInv'
<1> DEFINE r == request[b]
           pc == CASE op[Coordinator] = NoOp -> "local"
                   [] op[Coordinator] = Operation[b] -> "freezing"
                   [] OTHER -> "done"
<1>1. /\ GateType /\ BackupTrue(b) /\ ArchivesTrue(b) /\ r.pc = "idle" /\ Coordinator \in Nodes
      /\ UNCHANGED data /\ UNCHANGED <<held, cut>> /\ op[Coordinator] # Operation[b]
      /\ \A c \in Backups : Operation[c] # NoOp /\ (c # b => Operation[c] # Operation[b])
  BY BackupAssumption DEF GateInv, StartBackup, At, BackupTrue
<1>2. pc \in Stages /\ Becomes(b, pc, r.frozen, r.points, r.archives)
  <2>1. request' = [request EXCEPT ![b].pc = pc]
    BY DEF StartBackup, Goes
  <2>2. pc \in Stages
    BY DEF Stages
  <2> HIDE DEF pc
  <2> QED BY <2>1, <2>2, <1>1, Assigns
<1>3. pc = IF op[Coordinator] = NoOp THEN "local" ELSE "done"
  BY <1>1
<1> HIDE DEF pc
<1>4. /\ request'[b].pc = pc /\ request'[b].archives = r.archives
  BY <1>1, <1>2, Became
<1>5. op' = IF op[Coordinator] = NoOp THEN [op EXCEPT ![Coordinator] = Operation[b]] ELSE op
  BY DEF StartBackup
<1>6. began' = [began EXCEPT ![b] = {w \in Writes : outcome[w] = "committed"}]
  BY DEF StartBackup
<1>7. /\ op' \in [Nodes -> Ops] /\ held' \in [Nodes -> BOOLEAN] /\ began' \in [Backups -> SUBSET Writes]
      /\ began'[b] = {w \in Writes : outcome[w] = "committed"}
      /\ \A c \in Backups \ {b} : cut'[c] = cut[c] /\ began'[c] = began[c]
  BY <1>1, <1>5, <1>6 DEF GateType, Ops
<1>8. /\ \A n \in Nodes : held'[n] => held[n] /\ op'[n] # NoOp
      /\ \A c \in Backups \ {b}, n \in Nodes :
            op'[n] = Operation[c] => op[n] = Operation[c] /\ (held[n] => held'[n])
      /\ \A c \in Backups \ {b} : op[Coordinator] = Operation[c] => op'[Coordinator] = Operation[c]
  BY <1>1, <1>5 DEF GateInv, GateType, GatesShut
<1>9. BackupTrue(b)'
  <2>1. \A n \in Nodes \ {Coordinator} : op'[n] # Operation[b]
    BY <1>1, <1>5 DEF BackupTrue, GateType
  <2>2. pc = "local" => op'[Coordinator] = Operation[b]
    BY <1>1, <1>3, <1>5 DEF GateType
  <2> QED BY <2>1, <2>2, <1>3, <1>4 DEF BackupTrue
<1>10. ArchivesTrue(b)'
  <2>1. DOMAIN r.archives = {} /\ pc \notin {"capture", "archive"}
    BY <1>1, <1>3 DEF ArchivesTrue
  <2>2. \A w \in began'[b] : Stored(w, Leader(w))'
    BY <1>1, <1>7 DEF DataInv, WriteTrue, Stored, data
  <2> QED BY <2>1, <2>2, <1>4 DEF ArchivesTrue
<1>11. cut' = [c \in Backups |-> cut'[c]]
  BY <1>1, HistoryShape
<1> QED BY <1>1, <1>2, <1>7, <1>8, <1>9, <1>10, <1>11, BackupGate

\* The coordinator's own gate is held.
LEMMA LocalFrozenGate == ASSUME GateInv, NEW b \in Backups, LocalFrozen(b) PROVE GateInv'
<1> DEFINE r == request[b]
<1>1. /\ GateType /\ BackupTrue(b) /\ r.pc = "local" /\ UNCHANGED data /\ UNCHANGED <<op, held, cut, began>>
      /\ held[Coordinator] /\ "freezing" \in Stages
  BY DEF GateInv, LocalFrozen, At, gates, history, Stages
<1>2. Becomes(b, "freezing", r.frozen, r.points, r.archives)
  BY <1>1, Assigns DEF LocalFrozen, Goes
<1>3. request'[b].pc = "freezing"
  BY <1>1, <1>2, Became
<1>4. BackupTrue(b)'
  BY <1>1, <1>3 DEF BackupTrue
<1>5. ArchivesTrue(b)'
  BY <1>1, <1>2, ArchivesKeep DEF data
<1> QED BY <1>1, <1>2, <1>4, <1>5, CoordinatorGate, HistoryShape

\* internalBackupFreeze at the next peer: it is free and becomes frozen, or is
\* frozen for another operation.
LEMMA FreezePeerGate == ASSUME GateInv, NEW b \in Backups, FreezePeer(b) PROVE GateInv'
<1> DEFINE r == request[b]
           p == NextPeer(b)
<1>1. /\ GateType /\ BackupTrue(b) /\ r.pc = "freezing" /\ Coordinator \in Nodes
      /\ UNCHANGED data /\ UNCHANGED <<held, cut, began>>
      /\ op[Coordinator] = Operation[b] /\ held[Coordinator]
      /\ op' = IF op[p] = NoOp THEN [op EXCEPT ![p] = Operation[b]] ELSE op
      /\ \A c \in Backups : Operation[c] # NoOp /\ (c # b => Operation[c] # Operation[b])
  BY BackupAssumption DEF GateInv, FreezePeer, At, BackupTrue, history
<1>2. /\ op' \in [Nodes -> Ops] /\ held' \in [Nodes -> BOOLEAN] /\ began' \in [Backups -> SUBSET Writes]
      /\ \A c \in Backups \ {b} : cut'[c] = cut[c] /\ began'[c] = began[c]
  BY <1>1 DEF GateType, Ops
<1>3. /\ op'[Coordinator] = Operation[b]
      /\ \A n \in Nodes \ {p} : op'[n] = op[n]
      /\ \A n \in Nodes : op'[n] = op[n] \/ (op[n] = NoOp /\ n = p /\ op'[n] = Operation[b])
  BY <1>1 DEF GateType
<1> HIDE DEF p
<1>4. /\ \A n \in Nodes : held'[n] => held[n] /\ op'[n] # NoOp
      /\ \A c \in Backups \ {b}, n \in Nodes :
            op'[n] = Operation[c] => op[n] = Operation[c] /\ (held[n] => held'[n])
      /\ \A c \in Backups \ {b} : op[Coordinator] = Operation[c] => op'[Coordinator] = Operation[c]
  BY <1>1, <1>3 DEF GateInv, GateType, GatesShut
<1>5. cut' = [c \in Backups |-> cut'[c]]
  BY <1>1, HistoryShape
<1>6. CASE Frozen(b, p)
  <2>1. Becomes(b, "freezing", r.frozen \cup {p}, r.points, r.archives) /\ op' = op
    <3>1. request' = [request EXCEPT ![b].frozen = r.frozen \cup {p}]
      BY <1>6 DEF FreezePeer, p
    <3>2. op' = op
      BY <1>1, <1>6 DEF Frozen
    <3> QED BY <1>1, <3>1, <3>2, Assigns
  <2>2. request'[b].pc = "freezing" /\ request'[b].frozen = r.frozen \cup {p} /\ "freezing" \in Stages
    BY <1>1, <2>1, Became DEF Stages
  <2>3. BackupTrue(b)'
    BY <1>1, <2>1, <2>2 DEF BackupTrue
  <2>4. ArchivesTrue(b)'
    BY <1>1, <2>1, <2>2, ArchivesKeep DEF data
  <2> QED BY <1>1, <1>2, <1>4, <1>5, <2>1, <2>2, <2>3, <2>4, BackupGate
<1>7. CASE ~Frozen(b, p)
  <2> DEFINE pc == IF op[p] = NoOp THEN "await" ELSE "release"
  <2>1. request' = [request EXCEPT ![b].pc = pc]
    BY <1>7 DEF FreezePeer, Goes, p
  <2>2. pc \in Stages /\ pc \in {"await", "release"}
    BY DEF Stages
  <2>3. pc = "release" => op' = op
    BY <1>1 DEF p
  <2> HIDE DEF pc
  <2>4. Becomes(b, pc, r.frozen, r.points, r.archives)
    BY <1>1, <2>1, Assigns
  <2>5. request'[b].pc = pc /\ request'[b].frozen = r.frozen
    BY <1>1, <2>2, <2>4, Became
  <2>6. NextPeer(b)' = p
    BY <2>5 DEF NextPeer, p
  <2>7. \A n \in Nodes \ {Coordinator} : op'[n] = Operation[b] => (n \in r.frozen /\ held'[n]) \/ n = p
    BY <1>1, <1>3 DEF BackupTrue
  <2>8. BackupTrue(b)'
    BY <1>1, <1>3, <2>2, <2>5, <2>6, <2>7 DEF BackupTrue
  <2>9. ArchivesTrue(b)'
    BY <1>1, <2>2, <2>4, ArchivesKeep DEF data
  <2> QED BY <1>1, <1>2, <1>4, <1>5, <2>2, <2>4, <2>8, <2>9, BackupGate
<1> QED BY <1>6, <1>7

\* A peer's freeze is answered once its gate is held.
LEMMA PeerFrozenGate == ASSUME GateInv, NEW b \in Backups, PeerFrozen(b) PROVE GateInv'
<1> DEFINE r == request[b]
           p == NextPeer(b)
<1>1. /\ GateType /\ BackupTrue(b) /\ r.pc = "await" /\ UNCHANGED data /\ UNCHANGED <<op, held, cut, began>>
      /\ held[p] /\ "freezing" \in Stages
      /\ request' = [request EXCEPT ![b].frozen = r.frozen \cup {p}, ![b].pc = "freezing"]
  BY DEF GateInv, PeerFrozen, At, gates, history, Stages
<1>2. Becomes(b, "freezing", r.frozen \cup {p}, r.points, r.archives)
  BY <1>1, Assigns
<1>3. request'[b].pc = "freezing" /\ request'[b].frozen = r.frozen \cup {p}
  BY <1>1, <1>2, Became
<1>4. BackupTrue(b)'
  BY <1>1, <1>3 DEF BackupTrue
<1>5. ArchivesTrue(b)'
  BY <1>1, <1>2, ArchivesKeep DEF data
<1> QED BY <1>1, <1>2, <1>4, <1>5, CoordinatorGate, HistoryShape

\* All are frozen: the logs are those of the cut.
LEMMA AllFrozenGate == ASSUME DataInv, GateInv, NEW b \in Backups, AllFrozen(b) PROVE GateInv'
<1> DEFINE r == request[b]
<1>1. /\ GateType /\ BackupTrue(b) /\ ArchivesTrue(b) /\ r.pc = "freezing" /\ r.frozen = Peers
      /\ UNCHANGED data /\ UNCHANGED <<op, held, began>>
      /\ "capture" \in Stages /\ cut' = [cut EXCEPT ![b] = log]
  BY DEF GateInv, AllFrozen, At, gates, Stages
<1>2. Becomes(b, "capture", r.frozen, r.points, r.archives)
  BY <1>1, Assigns DEF AllFrozen, Goes
<1>3. request'[b].pc = "capture" /\ request'[b].archives = r.archives
  BY <1>1, <1>2, Became
<1>4. /\ cut'[b] = log /\ cut' = [c \in Backups |-> cut'[c]]
      /\ \A c \in Backups \ {b} : cut'[c] = cut[c]
  BY <1>1 DEF GateType
<1>5. BackupTrue(b)'
  BY <1>1, <1>3, <1>4 DEF BackupTrue, Peers, data
<1>6. CutTrue(b)'
  <2>1. cut'[b] \in Logs /\ ReplicasFollow(cut'[b])
    BY <1>4 DEF DataInv, DataType
  <2>2. \A w \in began'[b] : w \in Range(cut'[b][Leader(w)][Shard[w]])
    BY <1>1, <1>4 DEF ArchivesTrue, Stored
  <2> QED BY <2>1, <2>2 DEF CutTrue
<1>7. ArchivesTrue(b)'
  <2>1. DOMAIN r.archives = {}
    BY <1>1 DEF ArchivesTrue
  <2>2. \A w \in began'[b] : Stored(w, Leader(w))'
    BY <1>1 DEF ArchivesTrue, Stored, data
  <2> QED BY <2>1, <2>2, <1>3, <1>6 DEF ArchivesTrue
<1> QED BY <1>1, <1>2, <1>4, <1>5, <1>7, CoordinatorGate

\* A backup that fails, or whose release of a peer is lost, goes on to release.
LEMMA GiveUpGate ==
    ASSUME GateInv, NEW b \in Backups, CallFails(b) \/ FreezeLost(b) \/ ReleaseLost(b)
    PROVE  GateInv'
<1> DEFINE r == request[b]
<1>1. /\ GateType /\ BackupTrue(b) /\ r.pc \in {"await", "capture", "archive", "release"}
      /\ UNCHANGED data /\ UNCHANGED <<op, held, cut, began>> /\ "release" \in Stages
  BY DEF GateInv, CallFails, FreezeLost, ReleaseLost, At, gates, history, Stages
<1>2. PICK frozen : Becomes(b, "release", frozen, r.points, r.archives)
  <2>1. CASE CallFails(b) \/ FreezeLost(b)
    <3>1. request' = [request EXCEPT ![b].pc = "release"]
      BY <2>1 DEF CallFails, FreezeLost, Goes
    <3> QED BY <3>1, <1>1, Assigns
  <2>2. CASE ReleaseLost(b)
    <3>1. request' = [request EXCEPT ![b].frozen = r.frozen \ {Min(r.frozen)}] /\ r.pc = "release"
      BY <2>2 DEF ReleaseLost, At
    <3>2. Becomes(b, r.pc, r.frozen \ {Min(r.frozen)}, r.points, r.archives)
      BY <3>1, <1>1, Assigns
    <3> QED BY <3>1, <3>2
  <2> QED BY <2>1, <2>2
<1>3. request'[b].pc = "release"
  BY <1>1, <1>2, Became
<1>4. BackupTrue(b)'
  BY <1>1, <1>3 DEF BackupTrue
<1>5. ArchivesTrue(b)'
  BY <1>1, <1>2, ArchivesKeep DEF data
<1> QED BY <1>1, <1>2, <1>4, <1>5, CoordinatorGate, HistoryShape

\* captureRecoveryPointLocked at the next node.
LEMMA CaptureGate == ASSUME GateInv, NEW b \in Backups, Capture(b) PROVE GateInv'
<1> DEFINE r == request[b]
<1>1. /\ GateType /\ BackupTrue(b) /\ ArchivesTrue(b) /\ r.pc = "capture"
      /\ UNCHANGED data /\ UNCHANGED <<op, held, cut, began>>
  BY DEF GateInv, Capture, At, gates, history
<1>2. \E points : \E pc \in {"capture", "archive", "release"} : Becomes(b, pc, r.frozen, points, r.archives)
  <2> DEFINE n == NextOf(DOMAIN r.points)
             v == Put(r.points, n, captureRecoveryPoint(n))
             next == IF DOMAIN v # Nodes THEN "capture"
                     ELSE IF Kind[b] = "point" THEN "release" ELSE "archive"
  <2>1. \/ request' = [request EXCEPT ![b].pc = "release"]
        \/ request' = [request EXCEPT ![b].points = v, ![b].pc = next]
    BY DEF Capture, Goes
  <2>2. next \in {"capture", "archive", "release"}
    OBVIOUS
  <2> HIDE DEF v, next
  <2>3. CASE request' = [request EXCEPT ![b].pc = "release"]
    <3>1. Becomes(b, "release", r.frozen, r.points, r.archives)
      BY <1>1, <2>3, Assigns
    <3> WITNESS r.points
    <3> WITNESS "release" \in {"capture", "archive", "release"}
    <3> QED BY <3>1
  <2>4. CASE request' = [request EXCEPT ![b].points = v, ![b].pc = next]
    <3>1. Becomes(b, next, r.frozen, v, r.archives)
      BY <1>1, <2>4, Assigns
    <3> WITNESS v
    <3>2. next \in {"capture", "archive", "release"}
      BY <2>2
    <3> WITNESS next \in {"capture", "archive", "release"}
    <3> QED BY <3>1
  <2> QED BY <2>1, <2>3, <2>4
<1> PICK points : \E pc \in {"capture", "archive", "release"} : Becomes(b, pc, r.frozen, points, r.archives)
  BY <1>2
<1> PICK pc \in {"capture", "archive", "release"} : Becomes(b, pc, r.frozen, points, r.archives)
  OBVIOUS
<1>3. request'[b].pc = pc /\ request'[b].archives = r.archives /\ pc \in Stages
  BY <1>1, <1>2, Became DEF Stages
<1>4. BackupTrue(b)'
  BY <1>1, <1>2, <1>3 DEF BackupTrue, data
<1>5. ArchivesTrue(b)'
  <2>1. DOMAIN r.archives = {} /\ CutTrue(b)
    BY <1>1 DEF ArchivesTrue
  <2>2. CutTrue(b)' /\ \A w \in began'[b] : Stored(w, Leader(w))'
    BY <1>1, <2>1 DEF ArchivesTrue, Stored, data, CutTrue
  <2> QED BY <2>1, <2>2, <1>3 DEF ArchivesTrue
<1> QED BY <1>1, <1>2, <1>3, <1>4, <1>5, CoordinatorGate, HistoryShape

\* BackupAtRecoveryPoint: a node that is still frozen for the backup has the log of
\* the cut.
LEMMA ArchiveGate == ASSUME GateInv, NEW b \in Backups, Archive(b) PROVE GateInv'
<1> DEFINE r == request[b]
           n == NextOf(DOMAIN r.archives)
           a == [point |-> r.points[n], data |-> log[n]]
           v == Put(r.archives, n, a)
           pc == IF DOMAIN v # Nodes THEN "archive" ELSE "release"
<1>1. /\ GateType /\ BackupTrue(b) /\ ArchivesTrue(b) /\ r.pc = "archive" /\ Coordinator \in Nodes
      /\ UNCHANGED data /\ UNCHANGED <<op, held, cut, began>>
      /\ "release" \in Stages /\ "archive" \in Stages
  BY BackupAssumption DEF GateInv, Archive, At, gates, history, Stages
<1>2. /\ CutTrue(b)' /\ \A w \in began'[b] : Stored(w, Leader(w))'
      /\ cut' = [c \in Backups |-> cut'[c]]
  BY <1>1, HistoryShape DEF ArchivesTrue, Stored, data, CutTrue
<1>3. CASE ~ArchivesAt(b, n)
  <2>1. Becomes(b, "release", r.frozen, r.points, r.archives)
    <3>1. request' = [request EXCEPT ![b].pc = "release"]
      BY <1>3 DEF Archive, Goes
    <3> HIDE DEF v, a
    <3> QED BY <3>1, <1>1, Assigns
  <2>2. request'[b].pc = "release"
    BY <1>1, <2>1, Became
  <2>3. BackupTrue(b)'
    BY <1>1, <2>2 DEF BackupTrue
  <2>4. ArchivesTrue(b)'
    BY <1>1, <2>1, ArchivesKeep DEF data
  <2> QED BY <1>1, <2>1, <2>3, <2>4, CoordinatorGate, HistoryShape
<1>4. CASE ArchivesAt(b, n)
  <2>1. pc \in {"archive", "release"}
    OBVIOUS
  <2>2. request' = [request EXCEPT ![b].archives = v, ![b].pc = pc]
    BY <1>4 DEF Archive
  <2>3. /\ DOMAIN v = DOMAIN r.archives \cup {n} /\ v[n] = a
        /\ \A x \in DOMAIN r.archives \ {n} : v[x] = r.archives[x]
    BY DEF Put
  <2>4. a.point = r.points[n] /\ a.data = log[n]
    OBVIOUS
  <2> HIDE DEF a, v, pc
  <2>5. Becomes(b, pc, r.frozen, r.points, v)
    BY <1>1, <2>2, Assigns
  <2>6. request'[b].pc = pc /\ request'[b].archives = v /\ request'[b].points = r.points
    BY <1>1, <2>1, <2>5, Became
  <2>7. BackupTrue(b)'
    BY <1>1, <2>1, <2>6 DEF BackupTrue, data
  <2>8. n \in Nodes =>
          /\ log[n] = cut[b][n]
          /\ r.points[n] = [s \in {x \in Shards : n \in Range(Replicas[x])} |-> Len(cut[b][n][s])]
    <3> SUFFICES ASSUME n \in Nodes
                 PROVE  /\ log[n] = cut[b][n]
                        /\ r.points[n] =
                              [s \in {x \in Shards : n \in Range(Replicas[x])} |-> Len(cut[b][n][s])]
      OBVIOUS
    <3>1. op[n] = Operation[b] /\ captureRecoveryPoint(n) = r.points[n]
      BY <1>1, <1>4 DEF ArchivesAt, Active, Frozen, BackupTrue
    <3>2. log[n] = cut[b][n]
      BY <1>1, <3>1 DEF BackupTrue
    <3> QED BY <3>1, <3>2 DEF captureRecoveryPoint
  <2>9. ArchivesTrue(b)'
    <3>1. ASSUME NEW x \in DOMAIN v \cap Nodes
          PROVE  /\ v[x].data = cut[b][x] /\ v[x].point = r.points[x]
                 /\ r.points[x] = [s \in {y \in Shards : x \in Range(Replicas[y])} |-> Len(cut[b][x][s])]
      <4>1. CASE x = n
        BY <4>1, <3>1, <2>3, <2>4, <2>8
      <4>2. CASE x # n
        <5>1. x \in DOMAIN r.archives \cap Nodes /\ v[x] = r.archives[x]
          BY <4>2, <3>1, <2>3
        <5> QED BY <5>1, <1>1 DEF ArchivesTrue
      <4> QED BY <4>1, <4>2
    <3> QED BY <1>1, <1>2, <2>1, <2>6, <3>1 DEF ArchivesTrue
  <2> QED BY <1>1, <1>2, <2>1, <2>5, <2>7, <2>9, CoordinatorGate
<1> QED BY <1>3, <1>4

\* releaseBackup at a peer that answered the freeze, or at the coordinator.
LEMMA ReleaseGate == ASSUME GateInv, NEW b \in Backups, Release(b) PROVE GateInv'
<1> DEFINE r == request[b]
           p == IF r.frozen = {} THEN Coordinator ELSE Min(r.frozen)
<1>1. /\ GateType /\ BackupTrue(b) /\ r.pc = "release" /\ Coordinator \in Nodes
      /\ UNCHANGED data /\ UNCHANGED <<cut, began>>
      /\ \A c \in Backups : Operation[c] # NoOp /\ (c # b => Operation[c] # Operation[b])
      /\ "release" \in Stages /\ "done" \in Stages
  BY BackupAssumption DEF GateInv, Release, At, history, Stages
<1>2. /\ op' = IF op[p] = Operation[b] THEN [op EXCEPT ![p] = NoOp] ELSE op
      /\ held' = IF op[p] = Operation[b] THEN [held EXCEPT ![p] = FALSE] ELSE held
  BY DEF Release, releaseBackup
<1>3. \E frozen : \E pc \in {"release", "done"} : Becomes(b, pc, frozen, r.points, r.archives)
  <2>1. CASE r.frozen = {}
    <3>1. Becomes(b, "done", r.frozen, r.points, r.archives)
      BY <1>1, <2>1, Assigns DEF Release, Goes
    <3> QED BY <3>1
  <2>2. CASE r.frozen # {}
    <3>1. request' = [request EXCEPT ![b].frozen = r.frozen \ {Min(r.frozen)}]
      BY <2>2 DEF Release
    <3>2. Becomes(b, "release", r.frozen \ {Min(r.frozen)}, r.points, r.archives)
      BY <1>1, <3>1, Assigns
    <3> QED BY <3>2
  <2> QED BY <2>1, <2>2
<1> HIDE DEF p
<1> PICK frozen : \E pc \in {"release", "done"} : Becomes(b, pc, frozen, r.points, r.archives)
  BY <1>3
<1> PICK pc \in {"release", "done"} : Becomes(b, pc, frozen, r.points, r.archives)
  OBVIOUS
<1>4. request'[b].pc = pc /\ pc \in Stages
  BY <1>1, Became
<1>5. /\ op' \in [Nodes -> Ops] /\ held' \in [Nodes -> BOOLEAN] /\ began' \in [Backups -> SUBSET Writes]
      /\ \A c \in Backups \ {b} : cut'[c] = cut[c] /\ began'[c] = began[c]
      /\ \A n \in Nodes : \/ op'[n] = op[n] /\ held'[n] = held[n]
                          \/ op[n] = Operation[b] /\ op'[n] = NoOp /\ ~held'[n]
  BY <1>1, <1>2 DEF GateType, Ops
<1>6. /\ \A n \in Nodes : held'[n] => held[n] /\ op'[n] # NoOp
      /\ \A c \in Backups \ {b}, n \in Nodes :
            op'[n] = Operation[c] => op[n] = Operation[c] /\ (held[n] => held'[n])
      /\ \A c \in Backups \ {b} : op[Coordinator] = Operation[c] => op'[Coordinator] = Operation[c]
  BY <1>1, <1>5 DEF GateInv, GatesShut
<1>7. BackupTrue(b)'
  BY <1>4 DEF BackupTrue
<1>8. ArchivesTrue(b)'
  BY <1>1, <1>4, ArchivesKeep DEF data
<1>9. cut' = [c \in Backups |-> cut'[c]]
  BY <1>1, HistoryShape
<1> QED BY <1>1, <1>4, <1>5, <1>6, <1>7, <1>8, <1>9, BackupGate

\* Every step preserves the barriers' and the backups' invariant.
LEMMA NextGate == ASSUME DataInv, GateInv, GrpcForwarded, [Next]_vars PROVE GateInv'
<1>1. CASE \E w \in Writes, n \in Nodes : SubmitHttp(w, n) \/ SubmitGrpc(w, n)
  BY <1>1, SubmitGate
<1>2. CASE \E h \in handlers : HandlerStep(h) \/ Reject(h)
  BY <1>2, HandlerGate
<1>3. CASE \E n \in Nodes : Lock(n) \/ Restart(n)
  BY <1>3, LockGate, RestartGate
<1>4. CASE \E b \in Backups : StartBackup(b) \/ BackupStep(b) \/ CallFails(b)
                                \/ FreezeLost(b) \/ ReleaseLost(b)
  <2>1. PICK b \in Backups : StartBackup(b) \/ BackupStep(b) \/ CallFails(b)
                                \/ FreezeLost(b) \/ ReleaseLost(b)
    BY <1>4
  <2>2. CASE BackupStep(b)
    BY <2>2, LocalFrozenGate, FreezePeerGate, PeerFrozenGate, AllFrozenGate, CaptureGate,
       ArchiveGate, ReleaseGate DEF BackupStep
  <2> QED BY <2>1, <2>2, StartGate, GiveUpGate
<1>5. CASE UNCHANGED vars
  <2>1. UNCHANGED <<log, gates, request, history>> /\ UNCHANGED handlers
    BY <1>5 DEF vars, gates, history
  <2> QED BY <2>1, CallsGate
<1> QED BY <1>1, <1>2, <1>3, <1>4, <1>5 DEF Next

\* The invariant of the barriers and the backups holds in every reachable state, if
\* every mutation that enters over gRPC is forwarded to the shard's leader over HTTP.
THEOREM BackupsCorrect == ASSUME GrpcForwarded PROVE Spec => [](DataInv /\ GateInv)
<1>1. Init => DataInv /\ GateInv
  BY InitData, InitGate
<1>2. DataInv /\ GateInv /\ [Next]_vars => (DataInv /\ GateInv)'
  BY NextData, NextGate
<1> QED BY <1>1, <1>2, PTL DEF Spec

\* The archives of a package have what the nodes had at the cut.
LEMMA GateCut == GateInv => BackupIsCut
  BY DEF GateInv, ArchivesTrue, BackupIsCut, Packaged

\* A published package is one instant of the cluster, whatever nodes restarted,
\* answers were lost and mutations raced with the freezes (backupBarrierMiddleware,
\* freezeBackup, releaseBackup, BackupAtRecoveryPoint).
THEOREM BackupsAreCuts == ASSUME GrpcForwarded PROVE Spec => []BackupIsCut
<1> QED BY BackupsCorrect, GateCut, PTL

-----------------------------------------------------------------------------
(* Restore *)

\* PlanClusterRestore has a source, and no replica is ahead of it.
LEMMA Planned ==
    ASSUME NEW R \in SUBSET Nat, NEW points \in [R -> Nat], NEW l \in R,
           \A n \in R : points[n] <= points[l]
    PROVE  LET a == CHOOSE x \in R : \A c \in R \ {x} : Precedes(points, x, c)
           IN  a \in R /\ points[a] = points[l]
<1> DEFINE T == {x \in R : points[x] = points[l]}
<1>1. PICK x \in T : \A y \in T : x <= y
  <2>1. T \in SUBSET Nat /\ T # {}
    OBVIOUS
  <2> HIDE DEF T
  <2> QED BY <2>1, Least
<1>2. ASSUME NEW c \in R \ {x} PROVE Precedes(points, x, c)
  <2>1. x \in Nat /\ c \in Nat /\ points[x] \in Nat /\ points[c] \in Nat /\ points[c] <= points[x]
    BY <1>1
  <2>2. points[c] = points[x] => x <= c
    BY <1>1
  <2> QED BY <2>1, <2>2 DEF Precedes
<1>3. \E y \in R : \A c \in R \ {y} : Precedes(points, y, c)
  BY <1>1, <1>2
<1> DEFINE a == CHOOSE y \in R : \A c \in R \ {y} : Precedes(points, y, c)
<1>4. a \in R /\ \A c \in R \ {a} : Precedes(points, a, c)
  BY <1>3
<1> HIDE DEF a
<1>5. points[a] = points[l]
  <2>1. points[a] \in Nat /\ points[l] \in Nat /\ points[a] <= points[l]
    BY <1>4
  <2>2. a = l \/ Precedes(points, a, l)
    BY <1>4
  <2> QED BY <2>1, <2>2 DEF Precedes
<1> QED BY <1>4, <1>5 DEF a

\* A prefix as long as the whole is the whole.
LEMMA WholePrefix ==
    ASSUME NEW a \in Seq(Writes), NEW c \in Seq(Writes), PrefixOf(a, c), Len(a) = Len(c)
    PROVE  a = c /\ IsPrefix(a, c)
<1>1. a = c
  BY DEF PrefixOf
<1> QED BY <1>1 DEF IsPrefix

\* What a package that is a cut is restored to.
LEMMA GateRestores == GateInv => RestoreComplete
<1> SUFFICES ASSUME GateInv, NEW b \in Backups, NEW s \in Shards, Packaged(b)
             PROVE  /\ RestoreClusterBackup(b) /\ Materializes(b, s)
                    /\ {w \in began[b] : Shard[w] = s} \subseteq Range(Restored(b, s))
                    /\ IsPrefix(Restored(b, s), cut[b][Replicas[s][1]][s])
  BY DEF RestoreComplete
<1> DEFINE l == Replicas[s][1]
           R == Range(Replicas[s])
           points == MergeRecoveryPoints(b)[s]
           a == PlanClusterRestore(b, s)
<1>1. /\ CutTrue(b) /\ began[b] \subseteq Writes
      /\ \A n \in Nodes :
          /\ request[b].archives[n].data = cut[b][n]
          /\ request[b].archives[n].point = request[b].points[n]
          /\ request[b].points[n] =
                [x \in {y \in Shards : n \in Range(Replicas[y])} |-> Len(cut[b][n][x])]
  <2>1. ArchivesTrue(b) /\ DOMAIN request[b].archives = Nodes /\ Coordinator \in Nodes
    BY BackupAssumption DEF GateInv, Packaged
  <2> QED BY <2>1 DEF ArchivesTrue, GateInv, GateType
<1>2. /\ cut[b] \in Logs /\ l \in R /\ R \subseteq Nodes /\ Nodes \subseteq Nat
      /\ \A n \in R : PrefixOf(cut[b][n][s], cut[b][l][s])
  BY <1>1, ShardPlaces, BackupAssumption DEF CutTrue, ReplicasFollow
<1>3. RestoreClusterBackup(b)
  <2> SUFFICES ASSUME NEW n \in Nodes
               PROVE  RestoreBackup(b, n).point = nodePoint(MergeRecoveryPoints(b), n)
    BY DEF RestoreClusterBackup
  <2>1. nodePoint(MergeRecoveryPoints(b), n) =
           [x \in {y \in Shards : n \in Range(Replicas[y])} |-> request[b].points[n][x]]
    BY DEF nodePoint, MergeRecoveryPoints
  <2>2. request[b].points[n] =
           [x \in {y \in Shards : n \in Range(Replicas[y])} |-> request[b].points[n][x]]
    BY <1>1
  <2> QED BY <1>1, <2>1, <2>2 DEF RestoreBackup
<1>4. points = [n \in R |-> Len(cut[b][n][s])]
  <2>1. points = [n \in R |-> request[b].points[n][s]]
    BY DEF MergeRecoveryPoints
  <2>2. ASSUME NEW n \in R PROVE request[b].points[n][s] = Len(cut[b][n][s])
    <3>1. n \in Nodes /\ s \in {y \in Shards : n \in Range(Replicas[y])}
      BY <1>2
    <3>2. request[b].points[n] =
             [x \in {y \in Shards : n \in Range(Replicas[y])} |-> Len(cut[b][n][x])]
      BY <1>1, <3>1
    <3> QED BY <3>1, <3>2
  <2> QED BY <2>1, <2>2
<1> HIDE DEF points, R, l
<1>5. \A n \in R : cut[b][n][s] \in Seq(Writes)
  BY <1>2 DEF Logs
<1>6. \A n \in R : points[n] = Len(cut[b][n][s]) /\ points[n] \in Nat
  BY <1>4, <1>5
<1>7. a \in R /\ points[a] = points[l]
  <2>1. /\ points \in [R -> Nat] /\ R \in SUBSET Nat
        /\ \A n \in R : points[n] <= points[l]
    <3>1. points \in [R -> Nat] /\ R \in SUBSET Nat
      BY <1>2, <1>4, <1>6
    <3>2. \A n \in R : points[n] <= points[l]
      BY <1>2, <1>6 DEF PrefixOf
    <3> QED BY <3>1, <3>2
  <2>2. a = CHOOSE x \in R : \A c \in R \ {x} : Precedes(points, x, c)
    BY <1>4 DEF PlanClusterRestore, points
  <2> HIDE DEF a
  <2> QED BY <1>2, <2>1, <2>2, Planned
<1> HIDE DEF a
<1>8. /\ RestoreBackup(b, a).data[s] = cut[b][a][s]
      /\ cut[b][a][s] \in Seq(Writes) /\ cut[b][l][s] \in Seq(Writes)
      /\ Len(cut[b][a][s]) = Len(cut[b][l][s]) /\ Len(cut[b][a][s]) = points[a]
  BY <1>1, <1>2, <1>7, <1>5, <1>6 DEF RestoreBackup
<1>9. cut[b][a][s] = cut[b][l][s] /\ IsPrefix(cut[b][a][s], cut[b][l][s])
  BY <1>2, <1>7, <1>8, WholePrefix
<1>10. Restored(b, s) = cut[b][a][s] /\ Materializes(b, s)
  BY <1>8 DEF Restored, Materializes, a, points
<1>11. {w \in began[b] : Shard[w] = s} \subseteq Range(Restored(b, s))
  BY <1>1, <1>9, <1>10 DEF CutTrue, Leader, l
<1> QED BY <1>3, <1>9, <1>10, <1>11 DEF l

\* Every published package can be restored, to what each shard's leader had when it
\* was frozen, with every mutation that was committed before the backup began
\* (MergeRecoveryPoints, RestoreClusterBackup, PlanClusterRestore,
\* MaterializeClusterRestore).
THEOREM RestoresComplete == ASSUME GrpcForwarded PROVE Spec => []RestoreComplete
<1> QED BY BackupsCorrect, GateRestores, PTL

=============================================================================
