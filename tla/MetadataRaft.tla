---------------------------- MODULE MetadataRaft ----------------------------
(***************************************************************************)
(* The metadata Raft group with a fixed voter set: the durable store of    *)
(* every node (terms, votes, log, commit, applied epoch and view, snapshot *)
(* boundary) and the runtime around it (roles, elections, replication,     *)
(* proposals, compaction).                                                 *)
(*                                                                         *)
(* The store handles one call at a time and persists before it answers.    *)
(* The runtime changes its role under another lock, after the store call:  *)
(* with StepDownWindow the two are separate steps, as in the code; without *)
(* it they happen together.                                                *)
(*                                                                         *)
(* A request in flight may be delayed or lost.  A reply is handled with    *)
(* the request: all it does at the caller is add an acknowledgement, or    *)
(* show a higher term (ObserveTerm, which may come at any time later).     *)
(* nextIndex[peer] is any index it can hold; leaderID is not represented.  *)
(***************************************************************************)
EXTENDS Naturals, FiniteSets, Sequences, SequencesExt

CONSTANTS
    Nodes,              \* the voters
    Views,              \* view digests a proposal may carry
    NoView,             \* no committed view yet
    Nobody,             \* no vote
    NoEntry,
    NoProposal,
    StepDownWindow,     \* TRUE: role changes follow the store call
    SnapshotThreshold,  \* committed entries that trigger compaction
    MaxTerm, MaxLog, MaxMsgs, MaxRestarts   \* bounds

ASSUME RaftAssumption ==
    /\ IsFiniteSet(Nodes) /\ Nodes # {}
    /\ NoView \notin Views
    /\ Nobody \notin Nodes
    /\ StepDownWindow \in BOOLEAN
    /\ SnapshotThreshold \in Nat \ {0}
    /\ {MaxTerm, MaxLog, MaxMsgs, MaxRestarts} \subseteq Nat

VARIABLES
    st,        \* RaftStore.state of every node
    disk,      \* what it last persisted
    role,
    stepping,  \* a handler has yet to call becomeFollower
    ballot,    \* the vote request of the node's last campaign
    votes,     \* voters that granted it
    proposal,  \* the proposal a leader is replicating
    msgs,      \* append and snapshot requests in flight
    restarts,
    chosen     \* history: the entry first committed at every index

vars == <<st, disk, role, stepping, ballot, votes, proposal, msgs, restarts, chosen>>

BootstrapEpoch == 1
Indices == 1..MaxLog

\* A log entry: advance_epoch with its view.
Entry(term, epoch, view) == [term |-> term, epoch |-> epoch, view |-> view]

FreshState == [term |-> 0, vote |-> Nobody, commit |-> 0, epoch |-> BootstrapEpoch,
               view |-> NoView, snapIndex |-> 0, snapTerm |-> 0,
               snapEpoch |-> BootstrapEpoch, snapView |-> NoView, log |-> <<>>]

Init ==
    /\ st = [n \in Nodes |-> FreshState]
    /\ disk = st
    /\ role = [n \in Nodes |-> "follower"]
    /\ stepping = [n \in Nodes |-> FALSE]
    /\ ballot = [n \in Nodes |-> [term |-> 0, lastIndex |-> 0, lastTerm |-> 0]]
    /\ votes = [n \in Nodes |-> {}]
    /\ proposal = [n \in Nodes |-> NoProposal]
    /\ msgs = {}
    /\ restarts = 0
    /\ chosen = [i \in Indices |-> NoEntry]

-----------------------------------------------------------------------------
(* The store *)

LastIndex(s) == s.snapIndex + Len(s.log)
\* termAtLocked, for an index inside the retained range.
Retained(s) == s.snapIndex..LastIndex(s)
TermAt(s, index) ==
    IF index = s.snapIndex THEN s.snapTerm ELSE s.log[index - s.snapIndex].term
LastTerm(s) == TermAt(s, LastIndex(s))
EntryAt(s, index) == s.log[index - s.snapIndex]

voterMajority(acks) == Cardinality(acks \cap Nodes) >= Cardinality(Nodes) \div 2 + 1

\* A higher term clears the vote.
AtTerm(s, term) == IF term > s.term THEN [s EXCEPT !.term = term, !.vote = Nobody] ELSE s

\* One advance_epoch: the next epoch, or the current one with the same view.
Extends(a, e) == \/ e.epoch = a.epoch + 1
                 \/ e.epoch = a.epoch /\ e.view = a.view

\* The entries from..to applied one after another to the epoch and view of a;
\* each that extends the one before leaves its own epoch and view.
Replays(a, s, from, to) ==
    \A i \in from..to : Extends(IF i = from THEN a ELSE EntryAt(s, i - 1), EntryAt(s, i))

\* applyThroughLocked: the entries after the commit index up to target.
CanApply(s, target) == Replays(s, s, s.commit + 1, target)
\* Mutant: the leader's commit index is taken over when it is behind, too.
ApplyBehind(s, target) ==
    LET a == IF target = s.snapIndex THEN [epoch |-> s.snapEpoch, view |-> s.snapView]
             ELSE EntryAt(s, target)
    IN  IF target \notin Retained(s) THEN s
        ELSE [s EXCEPT !.commit = target, !.epoch = a.epoch, !.view = a.view]

ApplyThrough(s, target) ==
    IF target <= s.commit THEN s
    ELSE [s EXCEPT !.commit = target, !.epoch = EntryAt(s, target).epoch,
                   !.view = EntryAt(s, target).view]

\* Mutant: compaction forgets the epoch of the boundary.
CompactStaleEpoch(s) ==
    IF s.commit = s.snapIndex THEN s
    ELSE [s EXCEPT !.log = SubSeq(s.log, s.commit - s.snapIndex + 1, Len(s.log)),
                   !.snapIndex = s.commit, !.snapTerm = TermAt(s, s.commit)]

\* CompactCommitted: the committed prefix becomes the snapshot boundary.
CompactCommitted(s) ==
    IF s.commit = s.snapIndex THEN s
    ELSE [s EXCEPT !.log = SubSeq(s.log, s.commit - s.snapIndex + 1, Len(s.log)),
                   !.snapIndex = s.commit, !.snapTerm = TermAt(s, s.commit),
                   !.snapEpoch = s.epoch, !.snapView = s.view]

\* validateLocked: replaying the retained committed entries over the snapshot
\* gives the persisted epoch and view.
Boundary(s) == [epoch |-> s.snapEpoch, view |-> s.snapView]
ValidState(s) ==
    /\ s.epoch >= BootstrapEpoch /\ s.snapEpoch >= BootstrapEpoch
    /\ s.commit \in Retained(s)
    /\ (s.snapIndex = 0) = (s.snapTerm = 0)
    /\ (s.snapEpoch = BootstrapEpoch) = (s.snapView = NoView)
    /\ Replays(Boundary(s), s, s.snapIndex + 1, s.commit)
    /\ LET a == IF s.commit = s.snapIndex THEN Boundary(s) ELSE EntryAt(s, s.commit)
       IN  s.epoch = a.epoch /\ s.view = a.view

\* The store changes and persists.
Persist(n, s) == st' = [st EXCEPT ![n] = s] /\ disk' = [disk EXCEPT ![n] = s]

\* History: the entries a node has newly committed.
Choose(s) ==
    chosen' = [i \in Indices |->
                 IF chosen[i] = NoEntry /\ i \in (s.snapIndex + 1)..s.commit
                 THEN EntryAt(s, i) ELSE chosen[i]]

-----------------------------------------------------------------------------
(* Roles *)

\* becomeFollower, called when the store call is over.
StepDown(n) ==
    IF StepDownWindow
    THEN stepping' = [stepping EXCEPT ![n] = @ \/ role[n] # "follower"] /\ UNCHANGED role
    ELSE role' = [role EXCEPT ![n] = "follower"] /\ UNCHANGED stepping
StayPut == UNCHANGED <<role, stepping>>

becomeFollower(n) ==
    /\ stepping[n]
    /\ stepping' = [stepping EXCEPT ![n] = FALSE]
    /\ role' = [role EXCEPT ![n] = "follower"]
    /\ UNCHANGED <<st, disk, ballot, votes, proposal, msgs, restarts, chosen>>

\* A leader without recent quorum contact.
expireLeaderWithoutQuorum(n) ==
    /\ role[n] = "leader"
    /\ role' = [role EXCEPT ![n] = "follower"]
    /\ UNCHANGED <<st, disk, stepping, ballot, votes, proposal, msgs, restarts, chosen>>

\* campaign, up to the vote requests.
BeginElection(n) ==
    /\ role[n] # "leader" /\ st[n].term < MaxTerm
    /\ LET s == [st[n] EXCEPT !.term = @ + 1, !.vote = n] IN
       /\ Persist(n, s)
       /\ ballot' = [ballot EXCEPT ![n] = [term |-> s.term, lastIndex |-> LastIndex(s),
                                           lastTerm |-> LastTerm(s)]]
    /\ role' = [role EXCEPT ![n] = "candidate"]
    /\ votes' = [votes EXCEPT ![n] = {n}]
    /\ UNCHANGED <<stepping, proposal, msgs, restarts, chosen>>

UpToDate(b, s) ==
    \/ b.lastTerm > LastTerm(s)
    \/ b.lastTerm = LastTerm(s) /\ b.lastIndex >= LastIndex(s)

\* RequestVote of candidate c reaches n; a granted vote reaches a candidate that
\* is still in that campaign.
RequestVote(n, c) ==
    /\ n # c /\ ballot[c].term >= st[n].term /\ ballot[c].term > 0
    /\ LET s == AtTerm(st[n], ballot[c].term)
           granted == UpToDate(ballot[c], s) /\ s.vote \in {Nobody, c} IN
       /\ Persist(n, IF granted THEN [s EXCEPT !.vote = c] ELSE s)
       /\ votes' = IF granted /\ role[c] = "candidate"
                   THEN [votes EXCEPT ![c] = @ \cup {n}] ELSE votes
    /\ IF ballot[c].term > st[n].term THEN StepDown(n) ELSE StayPut
    /\ UNCHANGED <<ballot, proposal, msgs, restarts, chosen>>

\* The end of campaign: a quorum, the same term, still a candidate.
BecomeLeader(n) ==
    /\ role[n] = "candidate" /\ st[n].term = ballot[n].term
    /\ voterMajority(votes[n])
    /\ role' = [role EXCEPT ![n] = "leader"]
    /\ votes' = [votes EXCEPT ![n] = {}]
    /\ UNCHANGED <<st, disk, stepping, ballot, proposal, msgs, restarts, chosen>>

\* A reply of peer p shows a higher term.  campaign and replicatePeer then step
\* down; TransferLeadership does not, unless the transfer was accepted.
ObserveTerm(n, p) ==
    /\ role[n] # "follower" /\ st[p].term > st[n].term
    /\ Persist(n, AtTerm(st[n], st[p].term))
    /\ StepDown(n) \/ (StepDownWindow /\ role[n] = "leader" /\ StayPut)
    /\ UNCHANGED <<ballot, votes, proposal, msgs, restarts, chosen>>

-----------------------------------------------------------------------------
(* Replication *)

\* replicatePeer, up to the call: a leader sends its log from some index on, or
\* its snapshot when that index is compacted.
replicatePeer(n, p, next) ==
    /\ n # p /\ role[n] = "leader" /\ Cardinality(msgs) < MaxMsgs
    /\ LET s == st[n] IN
       /\ next \in 1..(LastIndex(s) + 1)
       /\ msgs' = msgs \cup
            {IF next <= s.snapIndex
             THEN [type |-> "snapshot", from |-> n, to |-> p, term |-> s.term,
                   index |-> s.snapIndex, prevTerm |-> s.snapTerm, entries |-> <<>>,
                   commit |-> s.snapIndex, epoch |-> s.snapEpoch, view |-> s.snapView]
             ELSE [type |-> "append", from |-> n, to |-> p, term |-> s.term,
                   index |-> next - 1, prevTerm |-> TermAt(s, next - 1),
                   entries |-> SubSeq(s.log, next - s.snapIndex, Len(s.log)),
                   commit |-> s.commit, epoch |-> 0, view |-> NoView]}
    /\ UNCHANGED <<st, disk, role, stepping, ballot, votes, proposal, restarts, chosen>>

\* Mutant: any success of the term counts, whatever index it reached.
AcknowledgeAny(m, match) ==
    LET p == proposal[m.from] IN
    proposal' = IF p # NoProposal /\ p.term = m.term
                THEN [proposal EXCEPT ![m.from].acks = @ \cup {m.to}] ELSE proposal

\* A successful reply counts for the proposal it was sent for.
Acknowledge(m, match) ==
    LET p == proposal[m.from] IN
    proposal' = IF p # NoProposal /\ p.term = m.term /\ p.index <= match
                THEN [proposal EXCEPT ![m.from].acks = @ \cup {m.to}] ELSE proposal

\* Mutant: the term of the previous entry is not compared.
PrevExists(s, m) == m.index \in Retained(s)

PrevMatches(s, m) == m.index \in Retained(s) /\ TermAt(s, m.index) = m.prevTerm

\* Offsets of the request's entries that are new or conflict with the log.
Differing(s, m) == {k \in 1..Len(m.entries) :
                      \/ m.index + k > LastIndex(s)
                      \/ TermAt(s, m.index + k) # m.entries[k].term}
FirstDiffering(s, m) == CHOOSE k \in Differing(s, m) : \A j \in Differing(s, m) : k <= j

\* The log after the entry loop: a conflicting suffix is replaced.
Merged(s, m) ==
    IF Differing(s, m) = {} THEN s
    ELSE LET k == FirstDiffering(s, m) IN
         [s EXCEPT !.log = SubSeq(s.log, 1, m.index + k - 1 - s.snapIndex)
                             \o SubSeq(m.entries, k, Len(m.entries))]

OverwritesCommitted(s, m) ==
    Differing(s, m) # {} /\ m.index + FirstDiffering(s, m) <= s.commit

CommitTarget(s, m) == IF m.commit < LastIndex(s) THEN m.commit ELSE LastIndex(s)

\* Refusing to overwrite a committed entry, or a commit that cannot be applied:
\* the store has changed in memory only.
AppendFails(s, m) ==
    \/ OverwritesCommitted(s, m)
    \/ LET target == CommitTarget(Merged(s, m), m) IN
       target > s.commit /\ ~CanApply(Merged(s, m), target)
LeftInMemory(s, m) == IF OverwritesCommitted(s, m) THEN s ELSE Merged(s, m)

\* RaftStore.AppendEntries
AppendEntries(m) ==
    LET n == m.to
        s == AtTerm(st[n], m.term)
        done == ApplyThrough(Merged(s, m), CommitTarget(Merged(s, m), m))
    IN  /\ m.type = "append" /\ m.term >= st[n].term
        /\ \/ /\ ~PrevMatches(s, m)
              /\ Persist(n, s) /\ StepDown(n) /\ UNCHANGED <<proposal, chosen>>
           \/ /\ PrevMatches(s, m) /\ AppendFails(s, m)
              /\ st' = [st EXCEPT ![n] = LeftInMemory(s, m)]
              /\ StayPut /\ UNCHANGED <<disk, proposal, chosen>>
           \/ /\ PrevMatches(s, m) /\ ~AppendFails(s, m)
              /\ Persist(n, done) /\ Choose(done)
              /\ StepDown(n)
              /\ Acknowledge(m, m.index + Len(m.entries))
        /\ msgs' = msgs \ {m}
        /\ UNCHANGED <<ballot, votes, restarts>>

\* The store after a snapshot: a suffix that continues it is kept.
Installed(s, m) ==
    [s EXCEPT !.snapIndex = m.index, !.snapTerm = m.prevTerm, !.snapEpoch = m.epoch,
              !.snapView = m.view, !.commit = m.index, !.epoch = m.epoch, !.view = m.view,
              !.log = IF PrevMatches(s, m)
                      THEN SubSeq(s.log, m.index - s.snapIndex + 1, Len(s.log)) ELSE <<>>]

\* RaftStore.InstallSnapshot
InstallSnapshot(m) ==
    LET n == m.to
        s == AtTerm(st[n], m.term)
    IN  /\ m.type = "snapshot" /\ m.term >= st[n].term
        /\ \/ m.index <= s.commit /\ Persist(n, s) /\ Acknowledge(m, s.commit)
           \/ m.index > s.commit /\ Persist(n, Installed(s, m)) /\ Acknowledge(m, m.index)
        /\ StepDown(n)
        /\ msgs' = msgs \ {m}
        /\ UNCHANGED <<ballot, votes, restarts, chosen>>

\* A request that is lost, or refused for its old term.
Lose(m) ==
    /\ msgs' = msgs \ {m}
    /\ UNCHANGED <<st, disk, role, stepping, ballot, votes, proposal, restarts, chosen>>

-----------------------------------------------------------------------------
(* Proposals *)

\* AdvanceView and Propose, up to the replication: the next epoch, unless the
\* same command is already the last, uncommitted entry of the term.
Propose(n, view) ==
    /\ role[n] = "leader" /\ proposal[n] = NoProposal
    /\ LET s == st[n]
           entry == Entry(s.term, s.epoch + 1, view)
           again == LastIndex(s) > s.commit /\ Last(s.log) = entry
       IN  /\ s.vote = n
           /\ LastIndex(s) < MaxLog \/ again
           /\ Persist(n, IF again THEN s ELSE [s EXCEPT !.log = Append(@, entry)])
           /\ proposal' = [proposal EXCEPT ![n] =
                 [index |-> LastIndex(s) + (IF again THEN 0 ELSE 1),
                  term |-> s.term, acks |-> {n}, committed |-> FALSE]]
    /\ UNCHANGED <<role, stepping, ballot, votes, msgs, restarts, chosen>>

\* Mutant: the leader commits without counting acknowledgements.
CommittableAlone(s, p) ==
    /\ p.term = s.term /\ p.index > s.snapIndex /\ p.index <= LastIndex(s)
    /\ TermAt(s, p.index) = p.term

Committable(s, p) ==
    /\ voterMajority(p.acks)
    /\ p.term = s.term /\ p.index > s.snapIndex /\ p.index <= LastIndex(s)
    /\ TermAt(s, p.index) = p.term

\* CommitWithVoterAcks
CommitWithVoterAcks(n) ==
    /\ proposal[n] # NoProposal /\ ~proposal[n].committed
    /\ LET s == st[n] p == proposal[n] IN
       /\ Committable(s, p)
       /\ p.index > s.commit => CanApply(s, p.index)
       /\ Persist(n, ApplyThrough(s, p.index))
       /\ Choose(ApplyThrough(s, p.index))
    /\ proposal' = [proposal EXCEPT ![n].committed = TRUE]
    /\ UNCHANGED <<role, stepping, ballot, votes, msgs, restarts>>

\* The end of Propose: compaction at the threshold (the difference is unsigned),
\* or an error before the commit.
EndPropose(n) ==
    /\ proposal[n] # NoProposal
    /\ LET s == st[n] p == proposal[n]
           compact == p.committed /\ \/ p.index < s.snapIndex
                                     \/ p.index - s.snapIndex >= SnapshotThreshold
       IN IF compact THEN Persist(n, CompactCommitted(s)) ELSE UNCHANGED <<st, disk>>
    /\ proposal' = [proposal EXCEPT ![n] = NoProposal]
    /\ UNCHANGED <<role, stepping, ballot, votes, msgs, restarts, chosen>>

-----------------------------------------------------------------------------
\* Mutant: the vote is not read back.
RestartWithoutVote(n) ==
    /\ restarts < MaxRestarts
    /\ ValidState(disk[n])
    /\ restarts' = restarts + 1
    /\ st' = [st EXCEPT ![n] = [disk[n] EXCEPT !.vote = Nobody]]
    /\ role' = [role EXCEPT ![n] = "follower"]
    /\ stepping' = [stepping EXCEPT ![n] = FALSE]
    /\ votes' = [votes EXCEPT ![n] = {}]
    /\ proposal' = [proposal EXCEPT ![n] = NoProposal]
    /\ UNCHANGED <<disk, ballot, msgs, chosen>>

(* A node stops and reopens its store (OpenRaftStore). *)
Restart(n) ==
    /\ restarts < MaxRestarts
    /\ ValidState(disk[n])
    /\ restarts' = restarts + 1
    /\ st' = [st EXCEPT ![n] = disk[n]]
    /\ role' = [role EXCEPT ![n] = "follower"]
    /\ stepping' = [stepping EXCEPT ![n] = FALSE]
    /\ votes' = [votes EXCEPT ![n] = {}]
    /\ proposal' = [proposal EXCEPT ![n] = NoProposal]
    /\ UNCHANGED <<disk, ballot, msgs, chosen>>

Next ==
    \/ \E n \in Nodes :
         \/ becomeFollower(n) \/ expireLeaderWithoutQuorum(n)
         \/ BeginElection(n) \/ BecomeLeader(n)
         \/ CommitWithVoterAcks(n) \/ EndPropose(n) \/ Restart(n)
         \/ \E view \in Views : Propose(n, view)
         \/ \E p \in Nodes : RequestVote(n, p) \/ ObserveTerm(n, p)
         \/ \E p \in Nodes, next \in 1..(MaxLog + 1) : replicatePeer(n, p, next)
    \/ \E m \in msgs : AppendEntries(m) \/ InstallSnapshot(m) \/ Lose(m)

Spec == Init /\ [][Next]_vars

-----------------------------------------------------------------------------
(* Properties *)

\* Two nodes never lead by winning the same term, restarts and late vote requests
\* included (raft.go RequestVote: one vote per term, persisted before the answer;
\* raft_runtime.go campaign).
ElectionSafety ==
    \A n, p \in Nodes : role[n] = "leader" /\ role[p] = "leader"
                          /\ ballot[n].term = ballot[p].term => n = p

\* Whether the log or the snapshot of s holds what was committed at an index.
Holds(s, i) ==
    \/ i <= s.snapIndex
    \/ i <= LastIndex(s) /\ EntryAt(s, i) = chosen[i]

\* A committed entry stays on the disks of a majority (raft.go
\* CommitWithVoterAcks, AppendEntries: persist before the acknowledgement).
CommittedDurable ==
    \A i \in Indices : chosen[i] # NoEntry
        => voterMajority({n \in Nodes : Holds(disk[n], i)})

\* A leader of the latest term has every committed entry (raft.go RequestVote:
\* the up-to-date rule).
LeaderCompleteness ==
    \A n \in Nodes :
        role[n] = "leader" /\ (\A p \in Nodes : st[p].term <= st[n].term)
        => \A i \in Indices : chosen[i] # NoEntry => Holds(st[n], i)

\* Nodes at the same epoch serve the same view, whether they got there by log
\* or by snapshot (raft.go applyThroughLocked, InstallSnapshot).
ViewAgreement ==
    \A n, p \in Nodes : st[n].epoch = st[p].epoch => st[n].view = st[p].view

\* Whatever a node persisted, it can reopen (raft.go validateLocked).
Restartable == \A n \in Nodes : ValidState(disk[n])

\* No append, snapshot or restart takes a node's epoch or commit index back
\* (network-partitions.md: "without metadata epoch regression").
EpochNeverRegresses ==
    [][\A n \in Nodes : st'[n].epoch >= st[n].epoch /\ st'[n].commit >= st[n].commit]_vars
=============================================================================
