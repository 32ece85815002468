--------------------------- MODULE ClusterBackup ---------------------------
(***************************************************************************)
(* The coordinated cluster backup and the mutations it has to stop.  A     *)
(* mutation is a tree of request handlers (the coordinator that the client *)
(* reaches, the shard's leader, its followers), each of which passes its   *)
(* node's backup barrier.  A backup freezes every node, captures recovery  *)
(* points, collects archives and releases the nodes; a restore is planned  *)
(* from its package.  Epochs are fixed here: Rebalance changes them.       *)
(***************************************************************************)
EXTENDS Integers, Sequences, FiniteSets, FiniteSetsExt, SequencesExt

CONSTANTS
    Nodes,        \* node ids: integers that order as the id strings do
    Coordinator,  \* the Raft leader, which coordinates the backups
    Shards, Replicas, \* Replicas[s]: the nodes of shard s, its leader first
    Writes, Shard, Entries, Level, \* mutations; their shard, the nodes and transports
                  \* ("http" or "grpc") they may be sent to, and acknowledgement level
    Deletes,      \* the mutations that delete; the others upsert
    Backups, Operation, Kind, \* backup requests; their operation id and kind
    NoOp,         \* no backup operation
    MaxRestarts   \* bound on restarts

ASSUME BackupAssumption ==
    /\ Nodes \subseteq Nat /\ IsFiniteSet(Nodes) /\ Shard \in [Writes -> Shards]
    /\ Coordinator \in Nodes /\ NoOp \notin {Operation[b] : b \in Backups}
    /\ \A s \in Shards : Replicas[s] # <<>> /\ Replicas[s] \in Seq(Nodes)
    /\ \A b \in Backups : Kind[b] \in {"package", "point"}
    /\ \A b, c \in Backups : Operation[b] = Operation[c] => b = c

VARIABLES
    log,       \* log[n][s]: the mutations in n's copy of shard s
    handlers,  \* the request handlers under way: [write, kind, node, transport, pc, late]
    acks,      \* acks[w]: the followers whose answer the leader has
    outcome,   \* outcome[w]: what the client knows of w
    op,        \* Server.backupOperation
    held,      \* whether a freeze holds Server.backupGate
    abandoned, \* history: the peers whose freeze answer or release was lost
    request,   \* request[b]: [pc, frozen, points, archives]
    cut, began,\* history: the logs when all were frozen, the writes committed before
    restarts

vars == <<log, handlers, acks, outcome, op, held, abandoned, request, cut, began, restarts>>
gates == <<op, held, abandoned>>
data == <<log, handlers, acks, outcome>>
history == <<cut, began>>

NoPoints == [n \in {} |-> 0]
Put(f, x, value) == [y \in DOMAIN f \cup {x} |-> IF y = x THEN value ELSE f[y]]
Stage(pc) == [pc |-> pc, frozen |-> {}, points |-> NoPoints, archives |-> NoPoints]

Init ==
    /\ log = [n \in Nodes |-> [s \in Shards |-> <<>>]]
    /\ handlers = {}
    /\ acks = [w \in Writes |-> {}] /\ outcome = [w \in Writes |-> "new"]
    /\ op = [n \in Nodes |-> NoOp] /\ held = [n \in Nodes |-> FALSE] /\ abandoned = {}
    /\ request = [b \in Backups |-> Stage("idle")]
    /\ cut = [b \in Backups |-> <<>>] /\ began = [b \in Backups |-> {}]
    /\ restarts = 0

Leader(w) == Replicas[Shard[w]][1]
Followers(w) == Range(Replicas[Shard[w]]) \ {Leader(w)}
Direct(h) == h.node = Leader(h.write)

requiredAcknowledgements(level, replicas) ==
    CASE level = "leader" -> 1 [] level = "all" -> replicas [] OTHER -> (replicas \div 2) + 1
Required(w) ==
    requiredAcknowledgements(IF w \in Deletes THEN "quorum" ELSE Level[w], Len(Replicas[Shard[w]]))

-----------------------------------------------------------------------------
(* Request handlers *)

Handler(w, kind, n, transport, pc) ==
    [write |-> w, kind |-> kind, node |-> n, transport |-> transport, pc |-> pc, late |-> FALSE]
Called(w, kind, n) == Handler(w, kind, n, "http", "sent")

\* A gRPC call runs the coordinator's handler without the HTTP middleware.
Gated(h) == h.pc \in {"in", "out"} /\ h.transport = "http"
Readers(n) == {h \in handlers : h.node = n /\ Gated(h)}

Moved(h, pc) == (handlers \ {h}) \cup {[h EXCEPT !.pc = pc]}

\* Mutant: only a lost answer leaves the outcome open.
OutcomeOfStatus(answer) ==
    CASE answer = "ok" -> "committed" [] answer = "none" -> "unknown" [] OTHER -> "failed"

\* How the coordinator reads the owner's answer: a status of 500 or more, and
\* no answer, leave it open whether the mutation was stored.
OutcomeOf(answer) ==
    CASE answer = "ok" -> "committed" [] answer \in {"none", "5xx"} -> "unknown" [] OTHER -> "failed"

\* remoteShardDelete: any answer of the owner but success is a plain error,
\* for which the coordinator answers 500.
remoteShardDelete(answer) == IF answer = "ok" THEN "ok" ELSE "5xx"
RemoteAnswer(h, answer) ==
    IF h.kind = "owner" /\ h.write \in Deletes THEN remoteShardDelete(answer) ELSE answer

\* A handler ends with an answer for its caller, if that still waits.
Answer(h, answer) ==
    /\ handlers' = {g \in handlers \ {h} :
                      ~(h.kind = "owner" /\ ~h.late /\ g.write = h.write /\ g.kind = "entry")}
    /\ outcome' = IF h.kind = "replica" \/ h.late THEN outcome
                  ELSE [outcome EXCEPT ![h.write] = OutcomeOf(RemoteAnswer(h, answer))]

\* A client sends a mutation to a node, over HTTP or over gRPC.
Submit(w, n, transport, pc) ==
    /\ outcome[w] = "new" /\ <<n, transport>> \in Entries[w]
    /\ outcome' = [outcome EXCEPT ![w] = "open"]
    /\ handlers' = handlers \cup {Handler(w, "entry", n, transport, pc)}
    /\ UNCHANGED <<log, acks, gates, request, history, restarts>>
SubmitHttp(w, n) == Submit(w, n, "http", "sent")
SubmitGrpc(w, n) == Submit(w, n, "grpc", "in")

\* backupBarrierMiddleware: the first check, and the check under the gate.
\* A waiting freeze holds new readers back; one that came before its Lock is
\* refused.
Check(h) ==
    /\ h.pc = "sent"
    /\ IF op[h.node] = NoOp THEN handlers' = Moved(h, "checked") /\ UNCHANGED outcome
       ELSE Answer(h, "5xx")
    /\ UNCHANGED <<log, acks, gates, request, history, restarts>>

RLock(h) ==
    /\ h.pc = "checked" /\ ~held[h.node]
    /\ IF op[h.node] = NoOp THEN handlers' = Moved(h, "in") /\ UNCHANGED outcome
       ELSE Answer(h, "5xx")
    /\ UNCHANGED <<log, acks, gates, request, history, restarts>>

\* The coordinator calls the shard's owner.
Forward(h) ==
    /\ h.pc = "in" /\ h.kind = "entry" /\ ~Direct(h)
    /\ handlers' = Moved(h, "out") \cup {Called(h.write, "owner", Leader(h.write))}
    /\ UNCHANGED <<log, acks, outcome, gates, request, history, restarts>>

Commits(h) == h.kind = "owner" \/ (h.kind = "entry" /\ Direct(h))

\* The fence, the owner check (validateShardOwner) or the leader's own checks
\* refuse the mutation before it is stored: a conflict, and unless the leader
\* reports its own upsert also a 503 or 500.
Refusals(h) == IF h.kind = "owner" \/ h.write \in Deletes THEN {"4xx", "5xx"} ELSE {"4xx"}
Reject(h) ==
    /\ h.pc = "in" /\ Commits(h)
    /\ \E answer \in Refusals(h) : Answer(h, answer)
    /\ UNCHANGED <<log, acks, gates, request, history, restarts>>

\* Server.replicationMu is held until every follower has answered.
Replicating(n) ==
    \E g \in handlers : ~g.late /\ Leader(g.write) = n /\
                        (g.kind = "replica" \/ (Commits(g) /\ g.pc = "out"))

\* commitLeaderShardBatch up to the calls of the followers.
Commit(h) ==
    /\ h.pc = "in" /\ Commits(h) /\ ~Replicating(h.node)
    /\ log' = [log EXCEPT ![h.node][Shard[h.write]] = Append(@, h.write)]
    /\ handlers' = Moved(h, "out") \cup
                      {Called(h.write, "replica", f) : f \in Followers(h.write)}
    /\ UNCHANGED <<acks, outcome, gates, request, history, restarts>>

Position(w) == CHOOSE i \in DOMAIN log[Leader(w)][Shard[w]] : log[Leader(w)][Shard[w]][i] = w

\* internalReplicaAppend: in sequence, a repetition, or refused.
Store(h) ==
    LET s == Shard[h.write]
        next == Len(log[h.node][s]) + 1
    IN  /\ h.pc = "in" /\ h.kind = "replica"
        /\ log' = IF Position(h.write) = next
                  THEN [log EXCEPT ![h.node][s] = Append(@, h.write)] ELSE log
        /\ acks' = IF Position(h.write) <= next /\ ~h.late
                   THEN [acks EXCEPT ![h.write] = @ \cup {h.node}] ELSE acks
        /\ Answer(h, "ok")
        /\ UNCHANGED <<gates, request, history, restarts>>

\* The leader answers once enough replicas have stored the mutation, or none
\* is left that could: the calls still under way go on without the handler.
Acknowledge(h) ==
    /\ h.pc = "out" /\ Commits(h)
    /\ \/ 1 + Cardinality(acks[h.write]) >= Required(h.write) /\ Answer(h, "ok")
       \/ /\ 1 + Cardinality(acks[h.write]) < Required(h.write)
          /\ ~\E g \in handlers : g.write = h.write /\ g.kind = "replica" /\ ~g.late
          /\ Answer(h, IF h.kind = "owner" THEN "5xx" ELSE "none")
    /\ UNCHANGED <<log, acks, gates, request, history, restarts>>

\* Mutant: calls have no deadline.
Waits(h) == FALSE

\* Whether the caller of h still waits for it, and for no longer than 5 s.
TimesOut(h) == h.kind # "entry" /\ ~h.late

\* The caller gives h up; h goes on.
GiveUp(h) ==
    /\ TimesOut(h)
    /\ handlers' = {g \in handlers \ {h} :
                      ~(h.kind = "owner" /\ g.write = h.write /\ g.kind = "entry")}
                   \cup {[h EXCEPT !.late = TRUE]}
    /\ outcome' = IF h.kind = "owner" THEN [outcome EXCEPT ![h.write] = OutcomeOf("none")] ELSE outcome
    /\ UNCHANGED <<log, acks, gates, request, history, restarts>>

-----------------------------------------------------------------------------
(* Barriers *)

\* Mutant: a freeze does not wait for the mutations under way.
DrainedAtOnce(n) == TRUE

\* The gate's Lock waits for its readers.
Drained(n) == Readers(n) = {}

Lock(n) ==
    /\ op[n] # NoOp /\ ~held[n] /\ Drained(n)
    /\ held' = [held EXCEPT ![n] = TRUE]
    /\ UNCHANGED <<data, op, abandoned, request, history, restarts>>

\* releaseBackup on node n.
releaseBackup(n, operation) ==
    /\ op' = IF op[n] = operation THEN [op EXCEPT ![n] = NoOp] ELSE op
    /\ held' = IF op[n] = operation THEN [held EXCEPT ![n] = FALSE] ELSE held
    /\ UNCHANGED abandoned

-----------------------------------------------------------------------------
(* The coordinator *)

Peers == Nodes \ {Coordinator}
Frozen(b, n) == op[n] = Operation[b]
At(b, pc) == request[b].pc = pc
Goes(b, pc) == request' = [request EXCEPT ![b].pc = pc]
NextPeer(b) == Min(Peers \ request[b].frozen)

\* freezeBackup on the coordinator itself.
StartBackup(b) ==
    /\ At(b, "idle")
    /\ op' = IF op[Coordinator] = NoOp THEN [op EXCEPT ![Coordinator] = Operation[b]] ELSE op
    /\ Goes(b, CASE op[Coordinator] = NoOp -> "local"
                 [] op[Coordinator] = Operation[b] -> "freezing"
                 [] OTHER -> "done")
    /\ began' = [began EXCEPT ![b] = {w \in Writes : outcome[w] = "committed"}]
    /\ UNCHANGED <<data, held, abandoned, cut, restarts>>

LocalFrozen(b) ==
    /\ At(b, "local") /\ held[Coordinator]
    /\ Goes(b, "freezing")
    /\ UNCHANGED <<data, gates, history, restarts>>

\* internalBackupFreeze at the next peer.
FreezePeer(b) ==
    /\ At(b, "freezing") /\ request[b].frozen # Peers
    /\ LET p == NextPeer(b) IN
       /\ op' = IF op[p] = NoOp THEN [op EXCEPT ![p] = Operation[b]] ELSE op
       /\ IF Frozen(b, p) THEN request' = [request EXCEPT ![b].frozen = @ \cup {p}]
          ELSE Goes(b, IF op[p] = NoOp THEN "await" ELSE "release")
    /\ UNCHANGED <<data, held, abandoned, history, restarts>>

PeerFrozen(b) ==
    /\ At(b, "await")
    /\ LET p == NextPeer(b) IN
       /\ held[p] /\ Frozen(b, p)
       /\ request' = [request EXCEPT ![b].frozen = @ \cup {p}, ![b].pc = "freezing"]
    /\ UNCHANGED <<data, gates, history, restarts>>

AllFrozen(b) ==
    /\ At(b, "freezing") /\ request[b].frozen = Peers
    /\ Goes(b, "capture")
    /\ cut' = [cut EXCEPT ![b] = log]
    /\ UNCHANGED <<data, gates, began, restarts>>

\* A call that fails ends the backup: at a peer that has lost its freeze, or
\* for any reason once all are frozen.
CallFails(b) ==
    /\ request[b].pc \in {"capture", "archive"} \/ (At(b, "await") /\ ~Frozen(b, NextPeer(b)))
    /\ Goes(b, "release")
    /\ UNCHANGED <<data, gates, history, restarts>>

\* The answer to a freeze is lost or late: the peer goes on and is not released.
FreezeLost(b) ==
    /\ At(b, "await")
    /\ abandoned' = abandoned \cup {NextPeer(b)}
    /\ Goes(b, "release")
    /\ UNCHANGED <<data, op, held, history, restarts>>

\* captureRecoveryPointLocked: the last sequence of each shard the node owns.
captureRecoveryPoint(n) == [s \in {x \in Shards : n \in Range(Replicas[x])} |-> Len(log[n][s])]

\* The nodes in the order they are called, the coordinator first.
NextOf(done) ==
    IF Coordinator \notin done THEN Coordinator ELSE Min(Nodes \ done)

\* Only a peer checks that it is frozen for the operation.
Active(b, n) == n = Coordinator \/ Frozen(b, n)

Capture(b) ==
    /\ At(b, "capture")
    /\ LET n == NextOf(DOMAIN request[b].points)
           points == Put(request[b].points, n, captureRecoveryPoint(n))
       IN  IF ~Active(b, n) THEN Goes(b, "release")
           ELSE request' = [request EXCEPT ![b].points = points,
                   ![b].pc = IF DOMAIN points # Nodes THEN "capture"
                             ELSE IF Kind[b] = "point" THEN "release" ELSE "archive"]
    /\ UNCHANGED <<data, gates, history, restarts>>

\* internalBackupArchive: a node is archived only at its recovery point.
ArchivesAt(b, n) == Active(b, n) /\ captureRecoveryPoint(n) = request[b].points[n]

\* BackupAtRecoveryPoint at each node, then CreateClusterBackup.
Archive(b) ==
    /\ At(b, "archive")
    /\ LET n == NextOf(DOMAIN request[b].archives)
           archives == Put(request[b].archives, n, [point |-> request[b].points[n], data |-> log[n]])
       IN  IF ~ArchivesAt(b, n) THEN Goes(b, "release")
           ELSE request' = [request EXCEPT ![b].archives = archives,
                   ![b].pc = IF DOMAIN archives # Nodes THEN "archive" ELSE "release"]
    /\ UNCHANGED <<data, gates, history, restarts>>

\* The deferred releases: the peers that answered the freeze, then the node.
Release(b) ==
    /\ At(b, "release")
    /\ IF request[b].frozen = {}
       THEN releaseBackup(Coordinator, Operation[b]) /\ Goes(b, "done")
       ELSE LET p == Min(request[b].frozen) IN
            /\ releaseBackup(p, Operation[b])
            /\ request' = [request EXCEPT ![b].frozen = @ \ {p}]
    /\ UNCHANGED <<data, history, restarts>>

\* The release of a peer is lost, and not repeated.
ReleaseLost(b) ==
    /\ At(b, "release") /\ request[b].frozen # {}
    /\ LET p == Min(request[b].frozen) IN
       /\ abandoned' = abandoned \cup {p}
       /\ request' = [request EXCEPT ![b].frozen = @ \ {p}]
    /\ UNCHANGED <<data, op, held, history, restarts>>

\* A peer stops and starts: the barrier and its handlers are gone.
Restart(n) ==
    LET lost == {h \in handlers : h.node = n}
        orphan(h) == h.kind # "entry" /\ \E g \in lost :
                        g.write = h.write /\ (g.kind = "entry" \/ (g.kind = "owner" /\ h.kind = "replica"))
        widowed(h) == h.kind = "entry" /\ \E g \in lost : g.write = h.write /\ g.kind = "owner" /\ ~g.late
        open(w) == outcome[w] = "open" /\ \E h \in handlers :
                        h.write = w /\ h.kind = "entry" /\ (h \in lost \/ widowed(h))
    IN  /\ restarts < MaxRestarts /\ n # Coordinator
        /\ restarts' = restarts + 1
        /\ op' = [op EXCEPT ![n] = NoOp] /\ held' = [held EXCEPT ![n] = FALSE]
        /\ handlers' = {IF orphan(h) THEN [h EXCEPT !.late = TRUE] ELSE h :
                           h \in {g \in handlers \ lost : ~widowed(g)}}
        /\ outcome' = [w \in Writes |-> IF open(w) THEN OutcomeOf("none") ELSE outcome[w]]
        /\ abandoned' = abandoned \ {n}
        /\ UNCHANGED <<log, acks, request, history>>

HandlerStep(h) ==
    Check(h) \/ RLock(h) \/ Forward(h) \/ Commit(h) \/ Store(h) \/ Acknowledge(h) \/ GiveUp(h)
BackupStep(b) ==
    \/ LocalFrozen(b) \/ FreezePeer(b) \/ PeerFrozen(b) \/ AllFrozen(b) \/ Capture(b) \/ Archive(b)
    \/ Release(b)

Next ==
    \/ \E w \in Writes, n \in Nodes : SubmitHttp(w, n) \/ SubmitGrpc(w, n)
    \/ \E h \in handlers : HandlerStep(h) \/ Reject(h)
    \/ \E n \in Nodes : Lock(n) \/ Restart(n)
    \/ \E b \in Backups : StartBackup(b) \/ BackupStep(b) \/ CallFails(b)
                           \/ FreezeLost(b) \/ ReleaseLost(b)

\* Handlers and the coordinator run, the deadline of every call passes, and
\* a coordinator whose peer lost its freeze is told so.
Progress ==
    \/ \E h \in handlers : HandlerStep(h)
    \/ \E n \in Nodes : Lock(n)
    \/ \E b \in Backups : BackupStep(b) \/ CallFails(b)

Spec == Init /\ [][Next]_vars
FairSpec == Spec /\ WF_vars(Progress)

-----------------------------------------------------------------------------
(* Restore *)

\* CreateClusterBackup has published a package of every node.
Packaged(b) == DOMAIN request[b].archives = Nodes

\* MergeRecoveryPoints: the manifest, each shard's sequence at each node.
MergeRecoveryPoints(b) ==
    [s \in Shards |-> [n \in Range(Replicas[s]) |-> request[b].points[n][s]]]
nodePoint(manifest, n) ==
    [s \in {x \in DOMAIN manifest : n \in DOMAIN manifest[x]} |-> manifest[s][n]]

\* RestoreBackup: a node's data path, next to the point that was archived.
RestoreBackup(b, n) == request[b].archives[n]

\* RestoreClusterBackup publishes the paths only if every one of them is at
\* the manifest's point.
RestoreClusterBackup(b) ==
    \A n \in Nodes : RestoreBackup(b, n).point = nodePoint(MergeRecoveryPoints(b), n)

\* Mutant: the replica that is behind is restored.
ShortestFirst(points, a, c) == points[a] < points[c] \/ (points[a] = points[c] /\ a < c)

\* PlanClusterRestore: the source of a shard is its replica with the greatest
\* sequence, and among those the one with the smallest id.
Precedes(points, a, c) == points[a] > points[c] \/ (points[a] = points[c] /\ a < c)
PlanClusterRestore(b, s) ==
    LET points == MergeRecoveryPoints(b)[s]
    IN  CHOOSE a \in DOMAIN points : \A c \in DOMAIN points \ {a} : Precedes(points, a, c)

\* MaterializeClusterRestore: what every target replica of a shard is given,
\* unless the source's log is not at the planned sequence.
Materializes(b, s) ==
    LET source == PlanClusterRestore(b, s)
    IN  Len(RestoreBackup(b, source).data[s]) = MergeRecoveryPoints(b)[s][source]
Restored(b, s) == RestoreBackup(b, PlanClusterRestore(b, s)).data[s]

-----------------------------------------------------------------------------
(* Properties *)

\* A finished package is one instant of the cluster: its archives hold, on
\* every node, what the node held when the last one had been frozen.
BackupIsCut ==
    \A b \in Backups : Packaged(b) => \A n \in Nodes : request[b].archives[n].data = cut[b][n]

\* Every finished package can be restored, and what is restored from it holds
\* every mutation that was answered as committed before the backup began, at
\* whatever acknowledgement level, and is a prefix of what the shard's leader
\* had when it was frozen.
RestoreComplete ==
    \A b \in Backups, s \in Shards : Packaged(b) =>
        /\ RestoreClusterBackup(b) /\ Materializes(b, s)
        /\ {w \in began[b] : Shard[w] = s} \subseteq Range(Restored(b, s))
        /\ IsPrefix(Restored(b, s), cut[b][Replicas[s][1]][s])

\* An outcome can be acted upon: what is reported as failed is nowhere, then
\* or later; what is reported as committed is where its level requires.
OutcomeHonest ==
    \A w \in Writes :
        LET stored == {n \in Nodes : w \in Range(log[n][Shard[w]])} IN
        /\ outcome[w] = "failed" => stored = {}
        /\ outcome[w] = "committed" => Cardinality(stored) >= Required(w)

\* Again and again no node is frozen, unless an answer to a freeze or a release was lost on
\* the way: freezes and mutations that wait for each other are resolved by the
\* mutations' deadlines, and every way out of a backup releases what it froze.
BarriersReleased == []<>(\A n \in Nodes \ abandoned : op[n] = NoOp)
=============================================================================
