----------------------------- MODULE Rebalance -----------------------------
(***************************************************************************)
(* Moving shards between nodes: the Raft leader prepares a plan (copies    *)
(* and frozen catch-ups, recorded in its journal), then commits the next   *)
(* epoch; replicated writes and shard ownership follow the epoch that each *)
(* node has applied.                                                       *)
(*                                                                         *)
(* The metadata Raft group is abstracted to what MetadataRaft checks: one  *)
(* leader per term, which a majority elects, and committed views that      *)
(* nodes apply in order, each when it hears of it.  A write and the        *)
(* appends that reach its followers are one step (ReplicaFanout has them   *)
(* one by one); a log is the sequence of its writes.                       *)
(***************************************************************************)
EXTENDS Placement

CONSTANTS
    InitialVoters, Configured,  \* the first voters, configured capacities
    Serving,       \* the nodes that have served a data request by then
    Changes,       \* the changes an operator may ask for: [type, node, cap]
    NoNode, NoPlan, NoWork, Unset,
    Faults,        \* the failures to include, a subset of AllFaults
    MaxEpoch, MaxWrites,
    MaxDisruptions \* bounds: epochs, writes, and elections and restarts together

\* A request that commits after its node's epoch moved; an abort that misses a
\* source, or that a node without the journal serves; a barrier without its file.
AllFaults == {"overlap", "incomplete_abort", "foreign_abort", "freeze_error"}

ASSUME RebalanceAssumption ==
    /\ Serving \subseteq InitialVoters /\ InitialVoters \subseteq Nodes /\ Cardinality(InitialVoters) >= RF /\ RF \in Nat \ {0}
    /\ Faults \subseteq AllFaults

VARIABLES
    views,      \* the committed views, by epoch
    epoch,      \* the epoch each node has applied
    term,       \* the newest term
    seen,       \* the [term, leader] each node follows
    log,        \* log[n][s]: the writes in n's copy of shard s
    acked,      \* history: the writes answered as committed, per shard
    written,    \* writes begun
    barriers,   \* barriers[n][s]: [plan, target], or NoPlan
    unsaved,    \* barriers[n] that its file lacks
    journal,    \* the executor's [plan, done, ready], or NoPlan
    work,       \* the rebalance request a node serves, or NoWork
    owned,      \* SHARD_OWNERSHIP.json: the shards, or Unset
    active,     \* Server.ownershipApplied
    crashes

vars == <<views, epoch, term, seen, log, acked, written, barriers, unsaved, journal, work, owned,
          active, crashes>>
raft == <<views, epoch, term, seen>>
shardData == <<log, acked, written>>

\* The view that the voters compute at first: members and capacities.  Equal
\* digests are equal views.
InitialView == [n \in Nodes |-> IF n \in InitialVoters THEN Configured[n] ELSE 0]
NoBarriers == [s \in Shards |-> NoPlan]
Preparation(plan) == [plan |-> plan, done |-> 0, ready |-> FALSE]

Init ==
    /\ views = <<InitialView>>
    /\ epoch = [n \in Nodes |-> 1]
    /\ term = 1
    /\ seen = [n \in Nodes |-> [term |-> 1, leader |-> Min(InitialVoters)]]
    /\ log = [n \in Nodes |-> [s \in Shards |-> <<>>]]
    /\ acked = [s \in Shards |-> {}] /\ written = 0
    /\ barriers = [n \in Nodes |-> NoBarriers]
    /\ unsaved = [n \in Nodes |-> {}]
    /\ journal = [n \in Nodes |-> NoPlan]
    /\ work = [n \in Nodes |-> NoWork]
    /\ active = [n \in Nodes |-> n \in Serving]
    /\ owned = [n \in Nodes |->
          IF n \in Serving THEN {s \in Shards : n \in Range(PlanReplicaPlacement(s, views[1]))} ELSE Unset]
    /\ crashes = 0

-----------------------------------------------------------------------------
(* What a node knows *)

Current == Len(views)
ViewOf(n) == views[epoch[n]]
Member(n) == ViewOf(n)[n] > 0
CapacityOf(n, m) == IF ViewOf(n)[m] > 0 THEN ViewOf(n)[m] ELSE Configured[m]

\* membershipPeers with the local node, and every node discovery has found.
LocalView(n) == [ViewOf(n) EXCEPT ![n] = CapacityOf(n, n)]
Discovered(n, found) == [m \in Nodes |-> IF m \in found THEN CapacityOf(n, m) ELSE 0]

\* prepareRebalance on node n, for a valid change.
prepareRebalance(n, change) ==
    PlanRebalance(epoch[n], LocalView(n), TargetView(change, LocalView(n)))

\* observerRebalancePlan: a leaving source plans from all that it discovered.
Leaving(n, change) == change.type = "leave" /\ change.node = n
Observes(n, change) == Leaving(n, change) \/ ValidChange(change, LocalView(n), n)
observerRebalancePlan(n, change) ==
    IF Leaving(n, change)
    THEN PlanRebalance(epoch[n], Discovered(n, Nodes), TargetView(change, Discovered(n, Nodes)))
    ELSE prepareRebalance(n, change)

\* The plan by which a staging target checks a snapshot.
StagingPlan(n, change) ==
    IF change.type = "join"
    THEN LET current == Discovered(n, Nodes \ {n}) IN
         PlanRebalance(epoch[n], current, TargetView([change EXCEPT !.cap = CapacityOf(n, n)], current))
    ELSE prepareRebalance(n, change)
StagingPlans(n, change) ==
    IF change.type = "join" THEN change.node = n ELSE ValidChange(change, LocalView(n), n)

\* Status: the term a node follows, and whether it leads it.
Leads(n) == seen[n].leader = n
FromLeader(n, coordinator, t) == seen[n].term = t /\ seen[n].leader = coordinator

\* validateInternalFence between two nodes that send their own epoch.
SameEpoch(n, m) == epoch[n] = epoch[m]

Owns(n, s) == s \in (IF owned[n] = Unset THEN Shards ELSE owned[n])
Replicas(n, s) == PlanReplicaPlacement(s, LocalView(n))

\* Mutant: a barrier ends when the epoch before its target is applied.
ReleaseEarly(n) ==
    [s \in Shards |-> IF barriers[n][s] # NoPlan /\ barriers[n][s].target <= epoch[n] + 1
                      THEN NoPlan ELSE barriers[n][s]]

\* ReleaseCommitted persists what it keeps.
ReleaseCommitted(n) ==
    [s \in Shards |-> IF barriers[n][s] # NoPlan /\ barriers[n][s].target <= epoch[n]
                      THEN NoPlan ELSE barriers[n][s]]
ReleasePlan(n, plan) ==
    [s \in Shards |-> IF barriers[n][s] # NoPlan /\ barriers[n][s].plan = plan
                      THEN NoPlan ELSE barriers[n][s]]


\* persistLocked of the barrier store: a node's file has all its barriers.
Saved(nodes) == [m \in Nodes |-> IF m \in nodes THEN {} ELSE unsaved[m]]
\* OpenRebalanceBarrierStore: the barriers in the file.
OpenRebalanceBarrierStore(n) == [s \in Shards |-> IF s \in unsaved[n] THEN NoPlan ELSE barriers[n][s]]

-----------------------------------------------------------------------------
(* Prepare *)

Idle(n) == work[n] = NoWork
Serves(n, kind) == ~Idle(n) /\ work[n].kind = kind
Holds(n, plan) == journal[n] # NoPlan /\ journal[n].plan = plan

\* clusterRebalancePrepare up to the first action: the journal must be free
\* or hold the same plan.
PrepareStart(n, change) ==
    LET plan == prepareRebalance(n, change) IN
    /\ Leads(n) /\ Idle(n) /\ ValidChange(change, LocalView(n), n)
    /\ journal[n] = NoPlan \/ Holds(n, plan)
    /\ journal' = [journal EXCEPT ![n] = IF @ = NoPlan THEN Preparation(plan) ELSE @]
    /\ work' = [work EXCEPT ![n] = [kind |-> "prepare", change |-> change, expected |-> epoch[n],
                                    term |-> seen[n].term]]
    /\ UNCHANGED <<raft, shardData, barriers, unsaved, owned, active, crashes>>

NextAction(n) == journal[n].plan.actions[journal[n].done + 1]
Pending(n) == journal[n].done < Len(journal[n].plan.actions)

\* internalRebalanceAction: the source serves the current leader, finds the
\* action in its own plan, and holds the shard.
SourceAccepts(n, a) ==
    LET w == work[n] IN
    /\ a.source # n => /\ SameEpoch(n, a.source) /\ FromLeader(a.source, n, w.term)
                       /\ Observes(a.source, w.change)
                       /\ a \in Range(observerRebalancePlan(a.source, w.change).actions)
    /\ Owns(a.source, a.shard)

\* The barrier of a catch-up, bound to the source's digest of the plan.
Barrier(n, a) ==
    [plan |-> IF a.source = n THEN journal[n].plan ELSE observerRebalancePlan(a.source, work[n].change),
     target |-> work[n].expected + 1]

\* Whether the source freezes the shard, and whether it may.
Freezes(n, a) == a.kind = "catch_up_wal"
Freezable(n, a) == barriers[a.source][a.shard] \in {NoPlan, Barrier(n, a)}

\* internalRebalanceSnapshot and the engine's InstallReplicaSnapshot.
TargetAccepts(n, a) ==
    LET change == work[n].change IN
    /\ SameEpoch(a.source, a.target) /\ work[n].expected = epoch[a.target]
    /\ seen[a.target].term = work[n].term
    /\ StagingPlans(a.target, change)
    /\ \E b \in Range(StagingPlan(a.target, change).actions) :
          b.shard = a.shard /\ b.source = a.source /\ b.target = a.target
    /\ Owns(a.target, a.shard)
    /\ Len(log[a.source][a.shard]) >= Len(log[a.target][a.shard])

Froze(n, a) ==
    barriers' = IF Freezes(n, a) THEN [barriers EXCEPT ![a.source][a.shard] = Barrier(n, a)]
                ELSE barriers
Staged(a) == log' = [log EXCEPT ![a.target][a.shard] = log[a.source][a.shard]]

\* streamLatest, then the executor's record of it.  An empty shard is not sent.
ExecuteAction(n) ==
    /\ Serves(n, "prepare") /\ Pending(n)
    /\ LET a == NextAction(n) IN
       /\ SourceAccepts(n, a)
       /\ Freezes(n, a) => Freezable(n, a)
       /\ Froze(n, a)
       /\ IF log[a.source][a.shard] = <<>> THEN UNCHANGED log ELSE TargetAccepts(n, a) /\ Staged(a)
       /\ unsaved' = IF Freezes(n, a) /\ barriers[a.source][a.shard] = NoPlan
                     THEN Saved({a.source}) ELSE unsaved
    /\ journal' = [journal EXCEPT ![n].done = @ + 1]
    /\ UNCHANGED <<raft, acked, written, work, owned, active, crashes>>

\* The source froze the shard, and maybe staged it, but the coordinator is
\* not told: the target refused, or an answer was lost.  Prepare fails.
ActionUnanswered(n) ==
    /\ Serves(n, "prepare") /\ Pending(n)
    /\ LET a == NextAction(n) IN
       /\ SourceAccepts(n, a)
       /\ Freezes(n, a) => Freezable(n, a)
       /\ Froze(n, a)
       /\ UNCHANGED log \/ (log[a.source][a.shard] # <<>> /\ TargetAccepts(n, a) /\ Staged(a))
       /\ unsaved' = IF Freezes(n, a) /\ barriers[a.source][a.shard] = NoPlan
                     THEN Saved({a.source}) ELSE unsaved
    /\ work' = [work EXCEPT ![n] = NoWork]
    /\ UNCHANGED <<raft, acked, written, journal, owned, active, crashes>>

\* Freeze adds the barrier in memory and fails to persist it; a retry finds
\* it there and goes on.
FreezeFails(n) ==
    /\ Serves(n, "prepare") /\ Pending(n)
    /\ LET a == NextAction(n) IN
       /\ SourceAccepts(n, a) /\ Freezes(n, a) /\ barriers[a.source][a.shard] = NoPlan
       /\ Froze(n, a)
       /\ unsaved' = [unsaved EXCEPT ![a.source] = @ \cup {a.shard}]
    /\ work' = [work EXCEPT ![n] = NoWork]
    /\ UNCHANGED <<raft, shardData, journal, owned, active, crashes>>

\* The end of Prepare.
PrepareFinish(n) ==
    /\ Serves(n, "prepare") /\ ~Pending(n)
    /\ journal' = [journal EXCEPT ![n].ready = TRUE]
    /\ work' = [work EXCEPT ![n] = NoWork]
    /\ UNCHANGED <<raft, shardData, barriers, unsaved, owned, active, crashes>>

\* A refused or cancelled request ends where it is.
RequestFails(n) ==
    /\ ~Idle(n)
    /\ work' = [work EXCEPT ![n] = NoWork]
    /\ UNCHANGED <<raft, shardData, barriers, unsaved, journal, owned, active, crashes>>

-----------------------------------------------------------------------------
(* Apply and abort *)

\* Mutant: any prepared plan will do.
ReadyAny(n, plan) == journal[n] # NoPlan

\* RebalanceExecutor.Ready
Ready(n, plan) == Holds(n, plan) /\ journal[n].ready

\* clusterRebalanceApply up to its call of the Raft runtime.
ApplyCheck(n, change) ==
    LET plan == prepareRebalance(n, change) IN
    /\ journal[n] # NoPlan /\ Idle(n) /\ ValidChange(change, LocalView(n), n) /\ Ready(n, plan)
    /\ work' = [work EXCEPT ![n] = [kind |-> "apply", plan |-> plan,
                                    target |-> TargetView(change, LocalView(n))]]
    /\ UNCHANGED <<raft, shardData, barriers, unsaved, journal, owned, active, crashes>>

\* AdvanceView, or ChangeVoters through its joint configuration: the leader
\* of the newest term commits the view as the epoch after its own.  If its
\* log holds that epoch already, it must be with the same voters and view.
Commits(n, view) ==
    /\ Leads(n) /\ seen[n].term = term /\ epoch[n] < MaxEpoch
    /\ IF epoch[n] = Current THEN views' = Append(views, view)
       ELSE /\ view = views[epoch[n] + 1] /\ Voters(view) = Voters(ViewOf(n))
            /\ UNCHANGED views
    /\ epoch' = [epoch EXCEPT ![n] = @ + 1]
    /\ UNCHANGED <<term, seen>>

ApplyCommit(n) ==
    /\ Serves(n, "apply")
    /\ "overlap" \notin Faults => epoch[n] = work[n].plan.from
    /\ Commits(n, work[n].target)
    /\ work' = [work EXCEPT ![n] = [kind |-> "release", plan |-> work[n].plan]]
    /\ UNCHANGED <<shardData, barriers, unsaved, journal, owned, active, crashes>>

\* releaseRebalanceBarriers: the node itself, and the sources it reaches that
\* have applied the epoch.
releaseRebalanceBarriers(n, plan) ==
    \E reached \in SUBSET {m \in Sources(plan) \ {n} : SameEpoch(m, n)} :
        LET released == reached \cup (Sources(plan) \cap {n}) IN
        /\ barriers' = [m \in Nodes |-> IF m \in released THEN ReleaseCommitted(m) ELSE barriers[m]]
        /\ unsaved' = Saved(released)

\* RebalanceExecutor.ResetCommitted
ResetCommitted(n) ==
    IF journal[n] # NoPlan /\ journal[n].ready /\ journal[n].plan.to <= epoch[n] THEN NoPlan ELSE journal[n]

ApplyRelease(n) ==
    /\ Serves(n, "release")
    /\ releaseRebalanceBarriers(n, work[n].plan)
    /\ journal' = [journal EXCEPT ![n] = ResetCommitted(n)]
    /\ work' = [work EXCEPT ![n] = NoWork]
    /\ UNCHANGED <<raft, shardData, owned, active, crashes>>

\* internalRebalanceAbort: the sources that release a plan for node n.
AbortAccepted(n, plan) ==
    {m \in Sources(plan) : m = n \/ (SameEpoch(m, n) /\ FromLeader(m, n, seen[n].term))}

\* abortRebalanceBarriers, source by source.
abortRebalanceBarriers(plan, reached) ==
    /\ barriers' = [m \in Nodes |-> IF m \in reached THEN ReleasePlan(m, plan) ELSE barriers[m]]
    /\ unsaved' = Saved(reached)

\* RebalanceExecutor.Abort clears the journal of that plan and no other.
AbortJournal(n, plan) == IF Holds(n, plan) THEN [journal EXCEPT ![n] = NoPlan] ELSE journal

\* clusterRebalanceAbort: the journal goes when every source has answered.
Abort(n, change) ==
    LET plan == prepareRebalance(n, change) IN
    /\ Idle(n) /\ Leads(n) /\ ValidChange(change, LocalView(n), n)
    /\ "foreign_abort" \notin Faults => \A m \in Nodes \ {n} : ~Holds(m, plan)
    /\ \E reached \in SUBSET AbortAccepted(n, plan), answered \in BOOLEAN :
          /\ "incomplete_abort" \notin Faults => reached = Sources(plan) /\ answered
          /\ abortRebalanceBarriers(plan, reached)
          /\ journal' = IF answered /\ reached = Sources(plan)
                        THEN AbortJournal(n, plan) ELSE journal
    /\ UNCHANGED <<raft, shardData, work, owned, active, crashes>>

-----------------------------------------------------------------------------
(* Metadata Raft *)

\* advanceMetadataEpoch: the next epoch with the leader's own view.
AdvanceEpoch(n) ==
    /\ Commits(n, LocalView(n))
    /\ UNCHANGED <<shardData, barriers, unsaved, journal, work, owned, active, crashes>>

\* A follower applies the next committed epoch.  Only voters are sent the
\* log, and a leaving voter its own removal.
LearnEpoch(n) ==
    /\ epoch[n] < Current /\ seen[n] # [term |-> term, leader |-> n]
    /\ n \in Voters(ViewOf(n)) \cup Voters(views[epoch[n] + 1])
    /\ epoch' = [epoch EXCEPT ![n] = @ + 1]
    /\ UNCHANGED <<views, term, seen, shardData, barriers, unsaved, journal, work, owned, active, crashes>>

\* A bare majority elects n; the others hear of it.
Elect(n) ==
    /\ term - 1 + crashes < MaxDisruptions
    /\ n \in Voters(views[Current])
    /\ term' = term + 1
    /\ \E quorum \in kSubset((Cardinality(Voters(views[Current])) \div 2) + 1, Voters(views[Current])) :
          /\ n \in quorum
          /\ seen' = [m \in Nodes |-> IF m \in quorum THEN [term |-> term + 1, leader |-> n] ELSE seen[m]]
    /\ UNCHANGED <<views, epoch, shardData, barriers, unsaved, journal, work, owned, active, crashes>>

\* A heartbeat of the newest leader; a learner reaches the term by itself.
Hear(n) ==
    /\ \E m \in Nodes : seen[m].term = term /\ seen[m].leader = m /\ seen[n] # seen[m]
                        /\ seen' = [seen EXCEPT ![n] = seen[m]]
    /\ UNCHANGED <<views, epoch, term, shardData, barriers, unsaved, journal, work, owned, active, crashes>>

-----------------------------------------------------------------------------
(* Data *)

\* Mutant: a changed assignment replaces the old one.
AssignAnyway(n, assigned) ==
    IF owned[n] = Unset THEN \A s \in Shards \ assigned : log[n][s] = <<>> ELSE TRUE

\* ApplyShardOwnership: fixed once, and never without a shard that has data.
Assignable(n, assigned) ==
    IF owned[n] = Unset THEN \A s \in Shards \ assigned : log[n][s] = <<>> ELSE owned[n] = assigned

\* activateLocalOwnership, on the first data request after a start.
ActivateOwnership(n) ==
    LET assigned == {s \in Shards : n \in Range(Replicas(n, s))} IN
    /\ ~active[n] /\ Member(n) /\ Assignable(n, assigned)
    /\ owned' = [owned EXCEPT ![n] = assigned]
    /\ active' = [active EXCEPT ![n] = TRUE]
    /\ UNCHANGED <<raft, shardData, barriers, unsaved, journal, work, crashes>>

\* internalReplicaAppend at follower f, with the leader's snapshot for a gap.
FollowerAccepts(n, f, s) ==
    /\ SameEpoch(n, f) /\ seen[f].term = seen[n].term /\ active[f] /\ Owns(f, s)
    /\ Leader(s, LocalView(f)) = n /\ f \in Range(Replicas(f, s))
    /\ Len(log[f][s]) <= Len(log[n][s])
FollowerLog(n, f, s, w) ==
    IF Len(log[f][s]) = Len(log[n][s]) THEN Append(log[f][s], w) ELSE Append(log[n][s], w)

Thawed(n, s) == ReleaseCommitted(n)[s] = NoPlan

\* commitLeaderShardBatch, reaching some of the followers.
Write(n, s) ==
    /\ written < MaxWrites
    /\ active[n] /\ Member(n) /\ Leader(s, LocalView(n)) = n /\ Owns(n, s)
    /\ Thawed(n, s)
    /\ barriers' = [barriers EXCEPT ![n] = ReleaseCommitted(n)]
    /\ unsaved' = Saved({n})
    /\ written' = written + 1
    /\ \E reached \in SUBSET {f \in Range(Replicas(n, s)) \ {n} : FollowerAccepts(n, f, s)} :
          /\ log' = [m \in Nodes |->
                [log[m] EXCEPT ![s] = IF m = n THEN Append(@, written')
                                      ELSE IF m \in reached THEN FollowerLog(n, m, s, written') ELSE @]]
          /\ acked' = IF 1 + Cardinality(reached) >= (RF \div 2) + 1
                      THEN [acked EXCEPT ![s] = @ \cup {written'}] ELSE acked
    /\ UNCHANGED <<raft, journal, work, owned, active, crashes>>

\* A node stops and starts: OpenRebalanceExecutor, OpenRebalanceBarrierStore,
\* loadOwnership.
Restart(n) ==
    /\ term - 1 + crashes < MaxDisruptions
    /\ "freeze_error" \notin Faults => unsaved[n] = {}
    /\ crashes' = crashes + 1
    /\ barriers' = [barriers EXCEPT ![n] = OpenRebalanceBarrierStore(n)]
    /\ unsaved' = Saved({n})
    /\ work' = [work EXCEPT ![n] = NoWork]
    /\ active' = [active EXCEPT ![n] = FALSE]
    /\ seen' = [seen EXCEPT ![n].leader = NoNode]
    /\ UNCHANGED <<views, epoch, term, shardData, journal, owned>>

Next ==
    \E n \in Nodes :
         \/ \E change \in Changes : PrepareStart(n, change) \/ ApplyCheck(n, change) \/ Abort(n, change)
         \/ ExecuteAction(n) \/ ActionUnanswered(n) \/ FreezeFails(n) \/ PrepareFinish(n)
         \/ RequestFails(n) \/ ApplyCommit(n) \/ ApplyRelease(n)
         \/ AdvanceEpoch(n) \/ LearnEpoch(n) \/ Hear(n)
         \/ ActivateOwnership(n) \/ Restart(n)
         \/ Elect(n)
         \/ \E s \in Shards : Write(n, s)

Spec == Init /\ [][Next]_vars

-----------------------------------------------------------------------------
(* Properties *)

\* The planned leader of the newest committed placement holds every write that
\* was answered as committed, whoever prepared, aborted, crashed or was
\* elected on the way to that placement.
NoAckedLoss ==
    \A s \in Shards : acked[s] \subseteq Range(log[Leader(s, views[Current])][s])

\* A journal that apply would accept now has every source of the plan frozen,
\* and every new replica identical to its source.  (A source without a write
\* is not sent, whatever its target still holds.)
ReadyMeansStaged ==
    \A n \in Nodes :
        journal[n] # NoPlan /\ journal[n].ready /\ journal[n].plan.from = Current =>
            \A a \in Range(journal[n].plan.actions) :
                /\ barriers[a.source][a.shard] # NoPlan
                /\ barriers[a.source][a.shard].target = journal[n].plan.to
                /\ log[a.source][a.shard] \in {<<>>, log[a.target][a.shard]}

\* A shard a node persistently does not own holds no data there, so pruning it
\* at the next start loses nothing.
OwnershipHolds ==
    \A n \in Nodes, s \in Shards : log[n][s] # <<>> => Owns(n, s)

\* From every view that is committed, rendezvous placement moves as little as
\* it can: a joining or strengthened node only gains replicas, a leaving or
\* weakened one only loses its own, and the owner that routing computes is the
\* leader of the replica set.
MovesLittle(view, change) ==
    LET moves == PlanRebalance(Current, view, TargetView(change, view)).moves
        grows == change.type = "join" \/ (change.type = "capacity" /\ change.cap > view[change.node])
    IN  /\ \A s \in Shards : PlanPlacement(s, view) = Leader(s, view)
        /\ \A s \in DOMAIN moves :
              LET from == Range(moves[s].source)
                  to == Range(moves[s].target)
              IN  IF grows THEN change.node \in to /\ to \subseteq from \cup {change.node}
                  ELSE change.node \in from /\ from \ to \subseteq {change.node}
MinimalMovement ==
    [][views' # views =>
          \A change \in [type : {"join", "leave", "capacity"}, node : Nodes, cap : Capacities] :
              LET view == Last(views')
              IN  ValidChange(change, view, NoNode) => MovesLittle(view, change)]_vars
=============================================================================
