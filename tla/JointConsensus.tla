--------------------------- MODULE JointConsensus ---------------------------
(***************************************************************************)
(* Voter changes of the metadata Raft group: ChangeVoters through the      *)
(* joint configuration, elections and commits whose quorums follow the     *)
(* configuration that each node has applied, learners that have none, and  *)
(* leaders that fail between the two entries of a change.                  *)
(*                                                                         *)
(* MetadataRaft has delayed and reordered requests, snapshots and the      *)
(* views of entries, for a fixed set of voters.  Here an append is         *)
(* answered at once or lost, nothing is compacted, and an entry's view is  *)
(* not represented.                                                        *)
(***************************************************************************)
EXTENDS Naturals, FiniteSets, FiniteSetsExt, Sequences, SequencesExt

CONSTANTS
    Nodes,          \* all nodes, which discover one another
    InitialVoters,  \* the configured voters; the others are learners
    Nobody,         \* no vote
    NoChange,       \* no proposal under way
    MaxTerm, MaxLog \* bounds

ASSUME JointAssumption ==
    /\ IsFiniteSet(Nodes) /\ InitialVoters \subseteq Nodes /\ InitialVoters # {}
    /\ Nobody \notin Nodes

VARIABLES
    st,        \* RaftStore.state of every node
    disk,      \* what it last persisted
    role,
    ballot,    \* the vote request of the node's last campaign
    votes,     \* the nodes that granted it, while it runs
    change     \* the proposal a leader is replicating

vars == <<st, disk, role, ballot, votes, change>>
runtime == <<role, ballot, votes>>

Entry(term, type, epoch, old, new) ==
    [term |-> term, type |-> type, epoch |-> epoch, old |-> old, new |-> new]

Ballot(term, lastIndex, lastTerm, peers) ==
    [term |-> term, lastIndex |-> lastIndex, lastTerm |-> lastTerm, peers |-> peers]

Configured(voters) ==
    [term |-> 0, vote |-> Nobody, log |-> <<>>, commit |-> 0, epoch |-> 1,
     voters |-> voters, old |-> {}, new |-> {}]

Init ==
    /\ st = [n \in Nodes |-> Configured(IF n \in InitialVoters THEN InitialVoters ELSE {})]
    /\ disk = st
    /\ role = [n \in Nodes |-> "follower"]
    /\ ballot = [n \in Nodes |-> Ballot(0, 0, 0, {})]
    /\ votes = [n \in Nodes |-> {}]
    /\ change = [n \in Nodes |-> NoChange]

-----------------------------------------------------------------------------
(* Configurations *)

LastTerm(s) == IF s.log = <<>> THEN 0 ELSE Last(s.log).term

Joint(s) == s.old # {}

\* activeVotersLocked: both sets while a change is applied and not finished.
activeVoters(s) == IF Joint(s) THEN s.old \cup s.new ELSE s.voters

\* Mutant: half of the voters are enough.
voterHalf(voters, acks) == voters # {} /\ 2 * Cardinality(voters \cap acks) >= Cardinality(voters)

voterMajority(voters, acks) ==
    voters # {} /\ Cardinality(voters \cap acks) >= Cardinality(voters) \div 2 + 1

HasVoterQuorum(s, acks) ==
    IF Joint(s) THEN voterMajority(s.old, acks) /\ voterMajority(s.new, acks)
    ELSE voterMajority(s.voters, acks)

\* normalizeVoterSet accepts any voters but none.
VoterSets == (SUBSET Nodes) \ {{}}

voterSetDifference(old, new) == Cardinality(old \ new) + Cardinality(new \ old)

\* validateRaftEntry.
ValidEntry(e) ==
    /\ e.term > 0 /\ e.epoch >= IF e.type = "begin" THEN 1 ELSE 2
    /\ IF e.type = "advance" THEN e.old = {} /\ e.new = {}
       ELSE e.old \in VoterSets /\ e.new \in VoterSets /\ voterSetDifference(e.old, e.new) = 1

\* A node without voters takes every node it has discovered.
ConfigureVoters(s) == IF activeVoters(s) = {} THEN [s EXCEPT !.voters = Nodes] ELSE s
consensusPeers(n, s) == activeVoters(ConfigureVoters(s)) \ {n}

\* One entry of applyThroughLocked, or of validateLocked, which takes the voters
\* that an entry names without comparing them.
ApplyEntry(a, e) ==
    LET voters == IF a.voters = {} \/ a.reopening THEN e.old ELSE a.voters
    IN  IF ~a.ok THEN a
        ELSE CASE e.type = "advance" ->
                    [a EXCEPT !.epoch = e.epoch,
                              !.ok = a.old = {} /\ e.epoch \in {a.epoch, a.epoch + 1}]
               [] e.type = "begin" ->
                    [a EXCEPT !.voters = voters, !.old = e.old, !.new = e.new,
                              !.ok = a.old = {} /\ e.epoch = a.epoch /\ e.old = voters]
               [] e.type = "finalize" ->
                    [a EXCEPT !.epoch = e.epoch, !.voters = e.new, !.old = {}, !.new = {},
                              !.ok = e.epoch = a.epoch + 1 /\ e.old = a.old /\ e.new = a.new]

\* The entries after from, up to to, one after the other.
ApplyEntries(a, log, from, to) ==
    LET reached[i \in from..to] == IF i = from THEN a ELSE ApplyEntry(reached[i - 1], log[i])
    IN  reached[to]

Configuration(s) ==
    [epoch |-> s.epoch, voters |-> s.voters, old |-> s.old, new |-> s.new, ok |-> TRUE, reopening |-> FALSE]
Applied(s, target) == ApplyEntries(Configuration(s), s.log, s.commit, target)

\* Mutant: a finished change is not taken out of the state.
ApplyKeepsJoint(s, target) ==
    IF target <= s.commit THEN s
    ELSE LET a == Applied(s, target) IN
         [s EXCEPT !.commit = target, !.epoch = a.epoch, !.voters = a.voters,
                   !.old = @ \cup a.old, !.new = @ \cup a.new]

CanApply(s, target) == target > s.commit => Applied(s, target).ok
ApplyThrough(s, target) ==
    IF target <= s.commit THEN s
    ELSE LET a == Applied(s, target) IN
         [s EXCEPT !.commit = target, !.epoch = a.epoch, !.voters = a.voters,
                   !.old = a.old, !.new = a.new]

\* validateLocked: every entry is well formed, an open change is one of the
\* voters in force, and the committed entries give the persisted epoch and, if
\* they say anything of them, the persisted voters.
Unconfigured == [epoch |-> 1, voters |-> {}, old |-> {}, new |-> {}, ok |-> TRUE, reopening |-> TRUE]
Replayed(s) == ApplyEntries(Unconfigured, s.log, 0, s.commit)
ValidState(s) ==
    LET a == Replayed(s)
    IN  /\ s.commit <= Len(s.log) /\ \A i \in 1..Len(s.log) : ValidEntry(s.log[i])
        /\ s.old \cup s.new # {} => s.old # {} /\ s.new # {} /\ s.voters = s.old
        /\ a.ok /\ a.epoch = s.epoch /\ a.old = s.old /\ a.new = s.new
        /\ a.voters # {} => a.voters = s.voters

Persist(n, s) == st' = [st EXCEPT ![n] = s] /\ disk' = [disk EXCEPT ![n] = s]
AtTerm(s, term) == IF term > s.term THEN [s EXCEPT !.term = term, !.vote = Nobody] ELSE s
\* becomeFollower; the votes are the campaign's own, which ends.
Follows(n) == role' = [role EXCEPT ![n] = "follower"] /\ votes' = [votes EXCEPT ![n] = {}]
StaysPut == UNCHANGED <<role, votes>>

-----------------------------------------------------------------------------
(* Elections *)

\* campaign: a learner has no voters yet, and takes part.
BeginElection(n) ==
    /\ role[n] # "leader" /\ st[n].term < MaxTerm
    /\ n \in activeVoters(ConfigureVoters(st[n]))
    /\ LET s == ConfigureVoters([st[n] EXCEPT !.term = @ + 1, !.vote = n]) IN
       /\ Persist(n, s)
       /\ ballot' = [ballot EXCEPT ![n] =
             Ballot(s.term, Len(s.log), LastTerm(s), consensusPeers(n, s))]
    /\ role' = [role EXCEPT ![n] = "candidate"]
    /\ votes' = [votes EXCEPT ![n] = {n}]
    /\ UNCHANGED change

UpToDate(b, s) ==
    b.lastTerm > LastTerm(s) \/ (b.lastTerm = LastTerm(s) /\ b.lastIndex >= Len(s.log))

\* RequestVote of c reaches n, which listens to its active voters; a higher
\* term of anyone makes it a follower.
RequestVote(n, c) ==
    LET known == ConfigureVoters(st[n])
        s == AtTerm(known, ballot[c].term)
        granted == UpToDate(ballot[c], s) /\ s.vote \in {Nobody, c}
        higher == ballot[c].term > known.term
    IN  /\ n \in ballot[c].peers
        /\ IF c \in activeVoters(known) /\ ballot[c].term >= known.term
           THEN /\ Persist(n, IF granted THEN [s EXCEPT !.vote = c] ELSE s)
                /\ votes' = [votes EXCEPT ![c] = IF granted /\ role[c] = "candidate" THEN @ \cup {n} ELSE @,
                                          ![n] = IF higher THEN {} ELSE @]
           ELSE Persist(n, known) /\ votes' = [votes EXCEPT ![n] = IF higher THEN {} ELSE @]
        /\ role' = [role EXCEPT ![n] = IF higher THEN "follower" ELSE @]
        /\ UNCHANGED <<ballot, change>>

BecomeLeader(n) ==
    /\ role[n] = "candidate" /\ st[n].term = ballot[n].term
    /\ HasVoterQuorum(st[n], votes[n])
    /\ role' = [role EXCEPT ![n] = "leader"]
    /\ votes' = [votes EXCEPT ![n] = {}]
    /\ UNCHANGED <<st, disk, ballot, change>>

\* A reply of p shows a higher term.
ObserveTerm(n, p) ==
    /\ role[n] # "follower" /\ st[p].term > st[n].term
    /\ Persist(n, AtTerm(st[n], st[p].term)) /\ Follows(n)
    /\ UNCHANGED <<ballot, change>>

\* expireLeaderWithoutQuorum.
StepsDown(n) ==
    /\ role[n] = "leader" /\ Follows(n)
    /\ UNCHANGED <<st, disk, ballot, change>>

-----------------------------------------------------------------------------
(* Replication *)

PrevMatches(s, leader, next) ==
    /\ next - 1 <= Len(s.log)
    /\ next > 1 => s.log[next - 1].term = leader.log[next - 1].term

\* The entries from next on that are new or conflict with the log.
Differing(s, leader, next) ==
    {i \in next..Len(leader.log) : i > Len(s.log) \/ s.log[i].term # leader.log[i].term}

Merged(s, leader, next) ==
    IF Differing(s, leader, next) = {} THEN s
    ELSE LET i == Min(Differing(s, leader, next)) IN
         [s EXCEPT !.log = SubSeq(s.log, 1, i - 1) \o SubSeq(leader.log, i, Len(leader.log))]

CommitTarget(s, leader) == IF leader.commit < Len(s.log) THEN leader.commit ELSE Len(s.log)

\* A committed entry is not replaced.
Overwrites(s, leader, next) == \E i \in Differing(s, leader, next) : i <= s.commit

\* What p cannot apply it keeps in its memory only.
Unappliable(s, leader, next) ==
    LET merged == Merged(s, leader, next) IN ~CanApply(merged, CommitTarget(merged, leader))

\* Who n sends its log to: its active voters, and the nodes of a change.
Hears(n, p) ==
    \/ p \in consensusPeers(n, st[n])
    \/ change[n] # NoChange /\ p \in change[n].peers

\* replicateVoters counts an answer for the proposal of its term.
Acknowledged(n, p) ==
    IF change[n] # NoChange /\ change[n].term = st[n].term
    THEN [change EXCEPT ![n].acks = @ \cup {p}] ELSE change

\* replicatePeer, and AppendEntries at p, which listens to its active voters
\* or, as a learner, to anyone.
replicatePeer(n, p, next) ==
    LET s == AtTerm(st[p], st[n].term)
        merged == Merged(s, st[n], next)
    IN  /\ n # p /\ role[n] = "leader" /\ Hears(n, p) /\ next \in 1..(Len(st[n].log) + 1)
        /\ st[p].term <= st[n].term
        /\ IF st[p].voters # {} /\ n \notin activeVoters(st[p])
           THEN /\ IF st[p].term = st[n].term THEN Follows(p) ELSE StaysPut
                /\ UNCHANGED <<st, disk, change>>
           ELSE IF ~PrevMatches(s, st[n], next) THEN Persist(p, s) /\ Follows(p) /\ UNCHANGED change
           ELSE IF Overwrites(s, st[n], next)
           THEN st' = [st EXCEPT ![p] = s] /\ StaysPut /\ UNCHANGED <<disk, change>>
           ELSE IF Unappliable(s, st[n], next)
           THEN st' = [st EXCEPT ![p] = merged] /\ StaysPut /\ UNCHANGED <<disk, change>>
           ELSE /\ Persist(p, ApplyThrough(merged, CommitTarget(merged, st[n]))) /\ Follows(p)
                /\ change' = Acknowledged(n, p)
        /\ UNCHANGED ballot

-----------------------------------------------------------------------------
(* Proposals *)

\* AppendCommand: the same command is not appended twice in a row.
Appends(n, type, epoch, old, new, peers) ==
    LET s == st[n]
        entry == Entry(s.term, type, epoch, old, new)
        again == Len(s.log) > s.commit /\ Last(s.log) = entry
        log == IF again THEN s.log ELSE Append(s.log, entry)
    IN  /\ s.vote = n /\ ValidEntry(entry) /\ Len(log) <= MaxLog
        /\ Persist(n, [s EXCEPT !.log = log])
        /\ change' = [change EXCEPT ![n] =
              [type |-> type, index |-> Len(log), term |-> s.term, acks |-> {n},
               peers |-> peers, old |-> old, new |-> new]]
        /\ UNCHANGED runtime

\* AdvanceView.
AdvanceView(n) ==
    /\ role[n] = "leader" /\ change[n] = NoChange
    /\ Appends(n, "advance", st[n].epoch + 1, {}, {}, activeVoters(st[n]))

\* ChangeVoters up to the first replication: one node joins or leaves.
ChangeVoters(n, new) ==
    /\ role[n] = "leader" /\ change[n] = NoChange
    /\ ~Joint(st[n]) /\ voterSetDifference(st[n].voters, new) = 1
    /\ Appends(n, "begin", st[n].epoch, st[n].voters, new, st[n].voters \cup new)

\* Mutant: acknowledgements are not counted.
CommittableAlone(s, c) == c.term = s.term /\ s.log[c.index].term = c.term

\* CommitWithVoterAcks, which a node that joins must have acknowledged.
Committable(s, c) ==
    /\ c.type = "begin" => (c.new \ c.old) \subseteq c.acks
    /\ HasVoterQuorum(s, c.acks)
    /\ c.term = s.term /\ c.index <= Len(s.log) /\ s.log[c.index].term = c.term

CommitWithVoterAcks(n) ==
    LET c == change[n]
        s == ApplyThrough(st[n], c.index)
    IN  /\ c # NoChange /\ c.type \in {"advance", "begin", "finalize"}
        /\ Committable(st[n], c) /\ CanApply(st[n], c.index)
        /\ Persist(n, s)
        /\ change' = [change EXCEPT ![n] = IF c.type = "begin" THEN [c EXCEPT !.type = "joint"]
                                           ELSE [c EXCEPT !.type = "committed"]]
        /\ UNCHANGED runtime

\* The second entry of a change.
Finalize(n) ==
    LET c == change[n]
    IN  /\ c # NoChange /\ c.type = "joint" /\ c.term = st[n].term
        /\ Appends(n, "finalize", st[n].epoch + 1, c.old, c.new, c.peers)

\* The end of a proposal: committed, or given up at any point.  A leader that
\* is no longer a voter steps down.
EndProposal(n) ==
    LET c == change[n]
    IN  /\ c # NoChange
        /\ change' = [change EXCEPT ![n] = NoChange]
        /\ IF c.type = "committed" /\ c.new # {} /\ n \notin c.new THEN Follows(n) ELSE StaysPut
        /\ UNCHANGED <<st, disk, ballot>>

Restart(n) ==
    /\ ValidState(disk[n])
    /\ st' = [st EXCEPT ![n] = disk[n]]
    /\ Follows(n)
    /\ change' = [change EXCEPT ![n] = NoChange]
    /\ UNCHANGED <<disk, ballot>>

Next ==
    \/ \E n \in Nodes :
          \/ BeginElection(n) \/ BecomeLeader(n) \/ StepsDown(n)
          \/ AdvanceView(n) \/ CommitWithVoterAcks(n) \/ Finalize(n) \/ EndProposal(n) \/ Restart(n)
          \/ \E new \in VoterSets : ChangeVoters(n, new)
    \/ \E n, p \in Nodes : RequestVote(n, p) \/ ObserveTerm(n, p)
    \/ \E n, p \in Nodes, next \in 1..(MaxLog + 1) : replicatePeer(n, p, next)

Spec == Init /\ [][Next]_vars

-----------------------------------------------------------------------------
(* Properties *)

\* However voters come and go, two nodes never win the same term, although
\* each counts the votes by the configuration it has applied itself.
OneLeaderPerTerm ==
    \A n, p \in Nodes : role[n] = "leader" /\ role[p] = "leader" /\ ballot[n].term = ballot[p].term
        => n = p

\* What two nodes have committed agrees, through changes of the voters that
\* committed it.
CommittedAgree ==
    \A n, p \in Nodes : \A i \in 1..st[n].commit : i <= st[p].commit => st[n].log[i] = st[p].log[i]

\* Every node reopens its store in the middle of any change, with the joint
\* configuration that it had.
ChangeRestartable == \A n \in Nodes : ValidState(disk[n])
=============================================================================
