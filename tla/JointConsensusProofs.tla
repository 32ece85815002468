----------------------- MODULE JointConsensusProofs ------------------------
(***************************************************************************)
(* Theorems about JointConsensus, for any nodes, voters, changes, terms    *)
(* and lengths of log.                                                     *)
(***************************************************************************)
EXTENDS JointConsensus, WellFoundedInduction, FiniteSetTheorems, TLAPS

-----------------------------------------------------------------------------
(* The inductive invariant *)

\* An open change is one of the voters in force.
Whole(c) == c.old \cup c.new # {} => c.old # {} /\ c.new # {} /\ c.voters = c.old

Entries == {e \in [term : Nat, type : {"advance", "begin", "finalize"}, epoch : Nat,
                   old : SUBSET Nodes, new : SUBSET Nodes] : ValidEntry(e)}
Configs == {c \in [epoch : Nat, voters : SUBSET Nodes, old : SUBSET Nodes, new : SUBSET Nodes,
                   ok : BOOLEAN, reopening : BOOLEAN] : c.ok => Whole(c)}
Stores == {s \in [term : Nat, vote : Nodes \cup {Nobody}, log : Seq(Entries), commit : Nat, epoch : Nat,
                  voters : SUBSET Nodes, old : SUBSET Nodes, new : SUBSET Nodes] : Whole(s)}
Proposals == [type : {"advance", "begin", "joint", "finalize", "committed"}, index : Nat, term : Nat,
              acks : SUBSET Nodes, peers : SUBSET Nodes, old : SUBSET Nodes, new : SUBSET Nodes]

\* reached[i] is the configuration after entry i.
Run(reached, a, log, from, to) ==
    reached = [i \in from..to |-> IF i = from THEN a ELSE ApplyEntry(reached[i - 1], log[i])]

\* A configuration that was replayed from an empty one, and the one in force: the
\* replayed one knows the voters once an entry has named them.
Replays(a, c) ==
    c.ok => /\ a.ok /\ a.epoch = c.epoch /\ a.old = c.old /\ a.new = c.new
            /\ a.voters # {} => a.voters = c.voters
            /\ c.reopening => a.reopening

\* A store whose committed entries lead to its configuration.
StoreTrue(s) ==
    /\ s \in Stores /\ s.commit <= Len(s.log)
    /\ \E reached : /\ Run(reached, Unconfigured, s.log, 0, s.commit)
                    /\ Replays(reached[s.commit], Configuration(s))

JointInv ==
    /\ DOMAIN st = Nodes /\ DOMAIN disk = Nodes
    /\ st = [n \in Nodes |-> st[n]] /\ disk = [n \in Nodes |-> disk[n]]
    /\ ballot = [n \in Nodes |-> ballot[n]] /\ \A n \in Nodes : ballot[n].term \in Nat
    /\ change \in [Nodes -> Proposals \cup {NoChange}]
    /\ \A n \in Nodes : StoreTrue(st[n]) /\ StoreTrue(disk[n])

-----------------------------------------------------------------------------
(* Runs of entries *)

\* A set of naturals has a least element.
LEMMA Least ==
    ASSUME NEW T \in SUBSET Nat, T # {}
    PROVE  \E x \in T : \A y \in T : x <= y
<1> DEFINE R == OpToRel(<, Nat)
<1>1. IsWellFoundedOn(R, Nat)
  BY NatLessThanWellFounded
<1>2. \A x, y \in Nat : y < x => <<y, x>> \in R
  BY DEF OpToRel
<1> HIDE DEF R
<1>3. PICK x \in T : \A y \in T : ~(<<y, x>> \in R)
  BY <1>1, WFMin
<1>4. \A y \in T : x <= y
  <2> TAKE y \in T
  <2>1. ~(y < x)
    BY <1>2, <1>3
  <2> QED BY <2>1
<1> QED BY <1>4

\* A run, index by index.
LEMMA RunSteps ==
    ASSUME NEW from \in Nat, NEW to \in Nat, from <= to, NEW a, NEW log, NEW reached
    PROVE  Run(reached, a, log, from, to) <=>
             /\ reached = [i \in from..to |-> reached[i]]
             /\ reached[from] = a
             /\ \A i \in (from + 1)..to : reached[i] = ApplyEntry(reached[i - 1], log[i])
<1> DEFINE f == [i \in from..to |-> IF i = from THEN a ELSE ApplyEntry(reached[i - 1], log[i])]
<1>1. /\ f = [i \in from..to |-> f[i]] /\ f[from] = a
      /\ \A i \in (from + 1)..to : f[i] = ApplyEntry(reached[i - 1], log[i])
  OBVIOUS
<1>2. ASSUME reached = [i \in from..to |-> reached[i]], reached[from] = a,
             \A i \in (from + 1)..to : reached[i] = ApplyEntry(reached[i - 1], log[i])
      PROVE  reached = f
  <2>1. \A i \in from..to : i = from \/ i \in (from + 1)..to
    OBVIOUS
  <2>2. \A i \in from..to : reached[i] = f[i]
    BY <1>1, <1>2, <2>1
  <2> HIDE DEF f
  <2> QED BY <1>1, <1>2, <2>2
<1>3. Run(reached, a, log, from, to) <=> reached = f
  BY DEF Run
<1> HIDE DEF f
<1> QED BY <1>1, <1>2, <1>3

\* A run that is one entry longer.
LEMMA RunExtends ==
    ASSUME NEW from \in Nat, NEW to \in Nat, from <= to, NEW a, NEW log, NEW reached,
           Run(reached, a, log, from, to)
    PROVE  \E longer : Run(longer, a, log, from, to + 1)
<1>1. /\ reached[from] = a
      /\ \A i \in (from + 1)..to : reached[i] = ApplyEntry(reached[i - 1], log[i])
  BY RunSteps
<1> DEFINE next == ApplyEntry(reached[to], log[to + 1])
<1> HIDE DEF next
<1> DEFINE longer == [i \in from..(to + 1) |-> IF i = to + 1 THEN next ELSE reached[i]]
<1>2. /\ longer = [i \in from..(to + 1) |-> longer[i]] /\ longer[to + 1] = next
      /\ \A i \in from..to : longer[i] = reached[i]
  OBVIOUS
<1> HIDE DEF longer
<1>3. longer[from] = a
  <2>1. from \in from..to
    OBVIOUS
  <2> QED BY <1>1, <1>2, <2>1
<1>4. ASSUME NEW i \in (from + 1)..(to + 1) PROVE longer[i] = ApplyEntry(longer[i - 1], log[i])
  <2>1. i - 1 \in from..to
    OBVIOUS
  <2>2. longer[i - 1] = reached[i - 1]
    BY <1>2, <2>1
  <2>3. CASE i = to + 1
    <3>1. i - 1 = to
      BY <2>3
    <3> QED BY <1>2, <2>2, <2>3, <3>1 DEF next
  <2>4. CASE i # to + 1
    <3>1. i \in (from + 1)..to /\ i \in from..to
      BY <2>4
    <3> QED BY <1>1, <1>2, <2>2, <3>1
  <2> QED BY <2>3, <2>4
<1>5. Run(longer, a, log, from, to + 1)
  <2>1. to + 1 \in Nat /\ from <= to + 1
    OBVIOUS
  <2> QED BY <1>2, <1>3, <1>4, <2>1, RunSteps
<1> QED BY <1>5

\* There is a run of any length.
LEMMA RunExists ==
    ASSUME NEW from \in Nat, NEW to \in Nat, from <= to, NEW a, NEW log
    PROVE  \E reached : Run(reached, a, log, from, to)
<1> DEFINE P(m) == \E reached : Run(reached, a, log, from, m)
           T == {m \in Nat : from <= m /\ ~P(m)}
<1>1. P(from)
  <2> DEFINE r == [i \in from..from |-> a]
  <2>1. r = [i \in from..from |-> r[i]] /\ r[from] = a /\ (from + 1)..from = {}
    OBVIOUS
  <2> HIDE DEF r
  <2>2. from <= from
    OBVIOUS
  <2>3. Run(r, a, log, from, from)
    BY <2>1, <2>2, RunSteps
  <2> QED BY <2>3
<1>2. \A m \in Nat : from <= m /\ P(m) => P(m + 1)
  BY RunExtends
<1> HIDE DEF P
<1>3. T = {}
  <2> SUFFICES ASSUME T # {} PROVE FALSE
    OBVIOUS
  <2>1. PICK m \in T : \A k \in T : m <= k
    BY Least
  <2>2. m \in Nat /\ from <= m /\ ~P(m) /\ m # from
    BY <1>1, <2>1
  <2>3. m - 1 \in Nat /\ from <= m - 1 /\ (m - 1) + 1 = m /\ ~(m <= m - 1)
    BY <2>2
  <2>4. P(m - 1)
    BY <2>1, <2>3
  <2> QED BY <1>2, <2>2, <2>3, <2>4
<1> QED BY <1>3 DEF P

\* Two runs of the same entries from the same configuration are the same.
LEMMA RunUnique ==
    ASSUME NEW from \in Nat, NEW to \in Nat, from <= to, NEW a, NEW log, NEW c, NEW d,
           Run(c, a, log, from, to), Run(d, a, log, from, to)
    PROVE  c[to] = d[to]
<1>1. /\ c[from] = a /\ \A i \in (from + 1)..to : c[i] = ApplyEntry(c[i - 1], log[i])
      /\ d[from] = a /\ \A i \in (from + 1)..to : d[i] = ApplyEntry(d[i - 1], log[i])
  BY RunSteps
<1> DEFINE T == {i \in from..to : c[i] # d[i]}
<1>2. T = {}
  <2> SUFFICES ASSUME T # {} PROVE FALSE
    OBVIOUS
  <2>1. T \in SUBSET Nat
    OBVIOUS
  <2>2. PICK m \in T : \A k \in T : m <= k
    <3> HIDE DEF T
    <3> QED BY <2>1, Least
  <2>3. m \in (from + 1)..to /\ m - 1 \in from..to /\ ~(m <= m - 1)
    BY <1>1, <2>2
  <2>4. c[m - 1] = d[m - 1]
    BY <2>2, <2>3
  <2> QED BY <1>1, <2>2, <2>3, <2>4
<1> QED BY <1>2

\* ApplyEntries is the end of a run.
LEMMA EntriesRun ==
    ASSUME NEW from \in Nat, NEW to \in Nat, from <= to, NEW a, NEW log
    PROVE  \E reached : Run(reached, a, log, from, to) /\ ApplyEntries(a, log, from, to) = reached[to]
<1> DEFINE r == CHOOSE reached : Run(reached, a, log, from, to)
<1>1. Run(r, a, log, from, to)
  BY RunExists
<1>2. ApplyEntries(a, log, from, to) = r[to]
  BY DEF ApplyEntries, Run
<1> HIDE DEF r
<1> QED BY <1>1, <1>2

\* Both parts of a run are runs.
LEMMA RunParts ==
    ASSUME NEW from \in Nat, NEW k \in Nat, NEW to \in Nat, from <= k, k <= to, NEW a, NEW log, NEW r,
           Run(r, a, log, from, to)
    PROVE  /\ Run([i \in from..k |-> r[i]], a, log, from, k)
           /\ Run([i \in k..to |-> r[i]], r[k], log, k, to)
<1>1. /\ r[from] = a /\ \A i \in (from + 1)..to : r[i] = ApplyEntry(r[i - 1], log[i])
  BY RunSteps
<1> DEFINE c == [i \in from..k |-> r[i]]
           d == [i \in k..to |-> r[i]]
<1>2. /\ c = [i \in from..k |-> c[i]] /\ \A i \in from..k : c[i] = r[i]
      /\ d = [i \in k..to |-> d[i]] /\ \A i \in k..to : d[i] = r[i]
      /\ from \in from..k /\ k \in k..to
  OBVIOUS
<1>3. /\ \A i \in (from + 1)..k : i \in from..k /\ i - 1 \in from..k /\ i \in (from + 1)..to
      /\ \A i \in (k + 1)..to : i \in k..to /\ i - 1 \in k..to /\ i \in (from + 1)..to
  OBVIOUS
<1> HIDE DEF c, d
<1>4. c[from] = a /\ \A i \in (from + 1)..k : c[i] = ApplyEntry(c[i - 1], log[i])
  BY <1>1, <1>2, <1>3
<1>5. d[k] = r[k] /\ \A i \in (k + 1)..to : d[i] = ApplyEntry(d[i - 1], log[i])
  BY <1>1, <1>2, <1>3
<1>6. Run(c, a, log, from, k)
  BY <1>2, <1>4, RunSteps
<1>7. Run(d, r[k], log, k, to)
  BY <1>2, <1>5, RunSteps
<1> QED BY <1>6, <1>7 DEF c, d

\* A run only depends on the entries that it applies.
LEMMA RunSame ==
    ASSUME NEW from \in Nat, NEW to \in Nat, from <= to, NEW a, NEW log, NEW other, NEW r,
           Run(r, a, log, from, to), \A i \in (from + 1)..to : other[i] = log[i]
    PROVE  Run(r, a, other, from, to)
<1>1. /\ r = [i \in from..to |-> r[i]] /\ r[from] = a
      /\ \A i \in (from + 1)..to : r[i] = ApplyEntry(r[i - 1], log[i])
  BY RunSteps
<1>2. \A i \in (from + 1)..to : r[i] = ApplyEntry(r[i - 1], other[i])
  BY <1>1
<1> QED BY <1>1, <1>2, RunSteps

\* What one entry makes of a configuration.
LEMMA EntryApplied ==
    ASSUME NEW a \in Configs, NEW e \in Entries
    PROVE  /\ ApplyEntry(a, e) \in Configs /\ ApplyEntry(a, e).reopening = a.reopening
           /\ ~a.ok => ApplyEntry(a, e) = a
           /\ a.ok /\ e.type = "advance" =>
                /\ ApplyEntry(a, e).epoch = e.epoch /\ ApplyEntry(a, e).voters = a.voters
                /\ ApplyEntry(a, e).old = a.old /\ ApplyEntry(a, e).new = a.new
                /\ ApplyEntry(a, e).ok <=> a.old = {} /\ e.epoch \in {a.epoch, a.epoch + 1}
           /\ a.ok /\ e.type = "begin" =>
                /\ ApplyEntry(a, e).epoch = a.epoch
                /\ ApplyEntry(a, e).voters = IF a.voters = {} \/ a.reopening THEN e.old ELSE a.voters
                /\ ApplyEntry(a, e).old = e.old /\ ApplyEntry(a, e).new = e.new
                /\ ApplyEntry(a, e).ok <=> /\ a.old = {} /\ e.epoch = a.epoch
                                           /\ e.old = IF a.voters = {} \/ a.reopening THEN e.old ELSE a.voters
           /\ a.ok /\ e.type = "finalize" =>
                /\ ApplyEntry(a, e).epoch = e.epoch /\ ApplyEntry(a, e).voters = e.new
                /\ ApplyEntry(a, e).old = {} /\ ApplyEntry(a, e).new = {}
                /\ ApplyEntry(a, e).ok <=> e.epoch = a.epoch + 1 /\ e.old = a.old /\ e.new = a.new
<1>1. CASE ~a.ok
  BY <1>1 DEF ApplyEntry, Configs
<1>2. CASE a.ok /\ e.type = "advance"
  BY <1>2 DEF ApplyEntry, Configs, Entries, Whole
<1>3. CASE a.ok /\ e.type = "begin"
  <2>1. e.old \subseteq Nodes /\ e.new \subseteq Nodes /\ e.old # {} /\ e.new # {} /\ e.epoch \in Nat
    <3>1. e.type # "advance"
      BY <1>3
    <3>2. e.old \in VoterSets /\ e.new \in VoterSets /\ e.epoch \in Nat
      BY <3>1 DEF Entries, ValidEntry
    <3> QED BY <3>2 DEF VoterSets
  <2> QED BY <1>3, <2>1 DEF ApplyEntry, Configs, Whole
<1>4. CASE a.ok /\ e.type = "finalize"
  BY <1>4 DEF ApplyEntry, Configs, Entries, Whole
<1>5. e.type \in {"advance", "begin", "finalize"}
  BY DEF Entries
<1> QED BY <1>1, <1>2, <1>3, <1>4, <1>5

\* One entry keeps what was replayed in step with what is in force.
LEMMA EntryReplays ==
    ASSUME NEW a \in Configs, NEW c \in Configs, NEW e \in Entries, Replays(a, c)
    PROVE  Replays(ApplyEntry(a, e), ApplyEntry(c, e))
<1>1. CASE ~c.ok
  BY <1>1, EntryApplied DEF Replays
<1>2. CASE c.ok
  <2>1. /\ a.ok /\ a.epoch = c.epoch /\ a.old = c.old /\ a.new = c.new
        /\ a.voters # {} => a.voters = c.voters
        /\ c.reopening => a.reopening
    BY <1>2 DEF Replays
  <2>2. CASE e.type = "advance"
    BY <1>2, <2>1, <2>2, EntryApplied DEF Replays
  <2>3. CASE e.type = "begin"
    BY <1>2, <2>1, <2>3, EntryApplied DEF Replays
  <2>4. CASE e.type = "finalize"
    <3> DEFINE x == ApplyEntry(a, e)
               y == ApplyEntry(c, e)
    <3>1. /\ x.epoch = e.epoch /\ x.voters = e.new /\ x.old = {} /\ x.new = {}
          /\ x.ok <=> e.epoch = a.epoch + 1 /\ e.old = a.old /\ e.new = a.new
          /\ x.reopening = a.reopening
      BY <2>1, <2>4, EntryApplied
    <3>2. /\ y.epoch = e.epoch /\ y.voters = e.new /\ y.old = {} /\ y.new = {}
          /\ y.ok <=> e.epoch = c.epoch + 1 /\ e.old = c.old /\ e.new = c.new
          /\ y.reopening = c.reopening
      BY <1>2, <2>4, EntryApplied
    <3> HIDE DEF x, y
    <3>3. Replays(x, y)
      BY <2>1, <3>1, <3>2 DEF Replays
    <3> QED BY <3>3 DEF x, y
  <2> QED BY <2>2, <2>3, <2>4 DEF Entries
<1> QED BY <1>1, <1>2

\* So do many.
LEMMA RunReplays ==
    ASSUME NEW from \in Nat, NEW to \in Nat, from <= to, NEW log,
           \A i \in (from + 1)..to : log[i] \in Entries,
           NEW a \in Configs, NEW b \in Configs, Replays(a, b), NEW c, NEW d,
           Run(c, a, log, from, to), Run(d, b, log, from, to)
    PROVE  c[to] \in Configs /\ d[to] \in Configs /\ Replays(c[to], d[to])
<1> DEFINE P(i) == c[i] \in Configs /\ d[i] \in Configs /\ Replays(c[i], d[i])
           T == {i \in from..to : ~P(i)}
<1>1. /\ c[from] = a /\ \A i \in (from + 1)..to : c[i] = ApplyEntry(c[i - 1], log[i])
      /\ d[from] = b /\ \A i \in (from + 1)..to : d[i] = ApplyEntry(d[i - 1], log[i])
  BY RunSteps
<1>2. P(from)
  BY <1>1
<1>3. \A i \in (from + 1)..to : P(i - 1) => P(i)
  <2> TAKE i \in (from + 1)..to
  <2> HAVE P(i - 1)
  <2>1. log[i] \in Entries
    OBVIOUS
  <2> QED BY <1>1, <2>1, EntryApplied, EntryReplays
<1> HIDE DEF P
<1>4. T = {}
  <2> SUFFICES ASSUME T # {} PROVE FALSE
    OBVIOUS
  <2>1. T \in SUBSET Nat
    OBVIOUS
  <2>2. PICK m \in T : \A k \in T : m <= k
    <3> HIDE DEF T
    <3> QED BY <2>1, Least
  <2>3. m # from
    BY <1>2, <2>2
  <2>4. m \in (from + 1)..to /\ m - 1 \in from..to /\ ~(m <= m - 1)
    BY <2>2, <2>3
  <2>5. P(m - 1)
    BY <2>2, <2>4
  <2> QED BY <1>3, <2>2, <2>4, <2>5
<1>5. P(to)
  BY <1>4
<1> QED BY <1>5 DEF P

-----------------------------------------------------------------------------
(* Stores *)

\* The configuration of a store.
LEMMA ConfigurationType ==
    ASSUME NEW s \in Stores
    PROVE  /\ Configuration(s) \in Configs /\ Unconfigured \in Configs
           /\ Configuration(s).ok /\ Configuration(s).epoch = s.epoch /\ Configuration(s).voters = s.voters
           /\ Configuration(s).old = s.old /\ Configuration(s).new = s.new
           /\ ~Configuration(s).reopening
  BY DEF Configuration, Unconfigured, Configs, Stores, Whole

\* validateLocked accepts a store whose committed entries lead to its configuration.
LEMMA StoreValid == ASSUME NEW s, StoreTrue(s) PROVE ValidState(s)
<1>1. PICK c : Run(c, Unconfigured, s.log, 0, s.commit) /\ Replays(c[s.commit], Configuration(s))
  BY DEF StoreTrue
<1>2. s \in Stores /\ s.commit \in Nat /\ 0 \in Nat /\ 0 <= s.commit
  BY DEF StoreTrue, Stores
<1>3. PICK d : Run(d, Unconfigured, s.log, 0, s.commit) /\ Replayed(s) = d[s.commit]
  BY <1>2, EntriesRun DEF Replayed
<1>4. Replayed(s) = c[s.commit]
  BY <1>1, <1>2, <1>3, RunUnique
<1>5. Replays(Replayed(s), Configuration(s))
  BY <1>1, <1>4
<1>6. s.commit <= Len(s.log) /\ Whole(s) /\ \A i \in 1..Len(s.log) : ValidEntry(s.log[i])
  BY <1>2 DEF StoreTrue, Stores, Entries
<1> QED BY <1>2, <1>5, <1>6, ConfigurationType DEF ValidState, Replays, Whole

\* A store that keeps its committed entries and its configuration.
LEMMA StoreKeeps ==
    ASSUME NEW s, StoreTrue(s), NEW x \in Stores, x.commit = s.commit, x.commit <= Len(x.log),
           \A i \in 1..s.commit : x.log[i] = s.log[i],
           x.epoch = s.epoch, x.old = s.old, x.new = s.new, x.voters = s.voters \/ s.voters = {}
    PROVE  StoreTrue(x)
<1>1. PICK c : Run(c, Unconfigured, s.log, 0, s.commit) /\ Replays(c[s.commit], Configuration(s))
  BY DEF StoreTrue
<1>2. s \in Stores /\ s.commit \in Nat /\ 0 \in Nat /\ 0 <= s.commit
  BY DEF StoreTrue, Stores
<1>3. \A i \in (0 + 1)..s.commit : x.log[i] = s.log[i]
  OBVIOUS
<1>4. Run(c, Unconfigured, x.log, 0, x.commit)
  BY <1>1, <1>2, <1>3, RunSame
<1>5. Replays(c[x.commit], Configuration(x))
  BY <1>1, <1>2, ConfigurationType DEF Replays
<1> QED BY <1>4, <1>5 DEF StoreTrue

\* applyThroughLocked.
LEMMA StoreApplies ==
    ASSUME NEW s, StoreTrue(s), NEW t \in Nat, t <= Len(s.log), CanApply(s, t)
    PROVE  StoreTrue(ApplyThrough(s, t))
<1>1. CASE t <= s.commit
  BY <1>1 DEF ApplyThrough
<1>2. CASE ~(t <= s.commit)
  <2>1. /\ s \in Stores /\ s.commit \in Nat /\ 0 \in Nat /\ 0 <= s.commit /\ s.commit <= t /\ 0 <= t
        /\ t > s.commit
    BY <1>2 DEF StoreTrue, Stores
  <2>2. PICK c : Run(c, Unconfigured, s.log, 0, s.commit) /\ Replays(c[s.commit], Configuration(s))
    BY DEF StoreTrue
  <2>3. PICK d : Run(d, Configuration(s), s.log, s.commit, t) /\ Applied(s, t) = d[t]
    BY <2>1, EntriesRun DEF Applied
  <2>4. PICK r : Run(r, Unconfigured, s.log, 0, t)
    BY <2>1, RunExists
  <2> DEFINE p == [i \in 0..s.commit |-> r[i]]
             q == [i \in s.commit..t |-> r[i]]
  <2>5. Run(p, Unconfigured, s.log, 0, s.commit) /\ Run(q, r[s.commit], s.log, s.commit, t)
    BY <2>1, <2>4, RunParts
  <2>6. p[s.commit] = r[s.commit] /\ q[t] = r[t]
    BY <2>1
  <2> HIDE DEF p, q
  <2>7. r[s.commit] = c[s.commit]
    BY <2>1, <2>2, <2>5, <2>6, RunUnique
  <2>8. \A i \in 1..t : s.log[i] \in Entries
    BY <2>1 DEF Stores
  <2>9. c[s.commit] \in Configs
    <3>1. Replays(Unconfigured, Unconfigured) /\ Unconfigured \in Configs
      BY <2>1, ConfigurationType DEF Replays
    <3>2. \A i \in (0 + 1)..s.commit : s.log[i] \in Entries
      BY <2>1, <2>8
    <3> QED BY <2>1, <2>2, <3>1, <3>2, RunReplays
  <2>10. Applied(s, t) \in Configs /\ Replays(r[t], Applied(s, t))
    <3>1. \A i \in (s.commit + 1)..t : s.log[i] \in Entries
      BY <2>1, <2>8
    <3>2. Run(q, c[s.commit], s.log, s.commit, t) /\ Configuration(s) \in Configs
      BY <2>1, <2>5, <2>7, ConfigurationType
    <3> QED BY <2>1, <2>2, <2>3, <2>6, <2>9, <3>1, <3>2, RunReplays
  <2> DEFINE a == Applied(s, t)
             x == ApplyThrough(s, t)
  <2>11. a.ok /\ x = [s EXCEPT !.commit = t, !.epoch = a.epoch, !.voters = a.voters,
                               !.old = a.old, !.new = a.new]
    BY <1>2, <2>1 DEF CanApply, ApplyThrough
  <2> HIDE DEF a
  <2>12. /\ x \in Stores /\ x.commit = t /\ x.log = s.log
         /\ x.epoch = a.epoch /\ x.voters = a.voters /\ x.old = a.old /\ x.new = a.new
    BY <2>1, <2>10, <2>11 DEF Stores, Configs, Whole, a
  <2> HIDE DEF x
  <2>13. Replays(r[t], Configuration(x))
    BY <2>10, <2>11, <2>12, ConfigurationType DEF Replays, a
  <2>14. StoreTrue(x)
    BY <2>4, <2>12, <2>13 DEF StoreTrue
  <2> QED BY <2>14 DEF x
<1> QED BY <1>1, <1>2

\* A new term or vote.
LEMMA StoreVotes ==
    ASSUME NEW s, StoreTrue(s), NEW t \in Nat, NEW v \in Nodes \cup {Nobody}
    PROVE  /\ StoreTrue([s EXCEPT !.term = t, !.vote = v])
           /\ StoreTrue([s EXCEPT !.vote = v])
<1>1. s \in Stores /\ s.commit \in Nat /\ s.commit <= Len(s.log)
  BY DEF StoreTrue, Stores
<1> DEFINE x == [s EXCEPT !.term = t, !.vote = v]
           y == [s EXCEPT !.vote = v]
<1>2. /\ x \in Stores /\ x.commit = s.commit /\ x.log = s.log /\ x.epoch = s.epoch
      /\ x.voters = s.voters /\ x.old = s.old /\ x.new = s.new
  BY <1>1 DEF Stores, Whole
<1>3. /\ y \in Stores /\ y.commit = s.commit /\ y.log = s.log /\ y.epoch = s.epoch
      /\ y.voters = s.voters /\ y.old = s.old /\ y.new = s.new
  BY <1>1 DEF Stores, Whole
<1> HIDE DEF x, y
<1>4. StoreTrue(x)
  BY <1>1, <1>2, StoreKeeps
<1>5. StoreTrue(y)
  BY <1>1, <1>3, StoreKeeps
<1> QED BY <1>4, <1>5 DEF x, y

\* A higher term, and the voters that a learner takes.
LEMMA StoreFollows ==
    ASSUME NEW s, StoreTrue(s), NEW t \in Nat
    PROVE  /\ StoreTrue(AtTerm(s, t)) /\ StoreTrue(ConfigureVoters(s))
           /\ AtTerm(s, t).log = s.log /\ AtTerm(s, t).commit = s.commit
<1>1. s \in Stores /\ s.commit \in Nat /\ s.commit <= Len(s.log)
  BY DEF StoreTrue, Stores
<1>2. StoreTrue(AtTerm(s, t)) /\ AtTerm(s, t).log = s.log /\ AtTerm(s, t).commit = s.commit
  BY <1>1, StoreVotes DEF AtTerm, Stores
<1>3. StoreTrue(ConfigureVoters(s))
  <2>1. CASE activeVoters(s) = {}
    <3>1. s.voters = {}
      BY <1>1, <2>1 DEF activeVoters, Joint
    <3> DEFINE x == [s EXCEPT !.voters = Nodes]
    <3>2. /\ x \in Stores /\ x.commit = s.commit /\ x.log = s.log /\ x.epoch = s.epoch
          /\ x.old = s.old /\ x.new = s.new
      BY <1>1, <2>1 DEF Stores, Whole, activeVoters, Joint
    <3> HIDE DEF x
    <3>3. StoreTrue(x)
      BY <1>1, <3>1, <3>2, StoreKeeps
    <3> QED BY <2>1, <3>3 DEF ConfigureVoters, x
  <2>2. CASE activeVoters(s) # {}
    BY <2>2 DEF ConfigureVoters
  <2> QED BY <2>1, <2>2
<1> QED BY <1>2, <1>3

\* Another log with the same committed entries.
LEMMA StoreAppends ==
    ASSUME NEW s, StoreTrue(s), NEW log \in Seq(Entries), s.commit <= Len(log),
           \A i \in 1..s.commit : log[i] = s.log[i]
    PROVE  StoreTrue([s EXCEPT !.log = log])
<1>1. s \in Stores /\ s.commit \in Nat /\ s.commit <= Len(s.log)
  BY DEF StoreTrue, Stores
<1> DEFINE x == [s EXCEPT !.log = log]
<1>2. /\ x \in Stores /\ x.commit = s.commit /\ x.log = log /\ x.epoch = s.epoch
      /\ x.voters = s.voters /\ x.old = s.old /\ x.new = s.new
  BY <1>1 DEF Stores, Whole
<1> HIDE DEF x
<1>3. StoreTrue(x)
  BY <1>1, <1>2, StoreKeeps
<1> QED BY <1>3 DEF x

\* AppendEntries replaces a tail that is not committed.
LEMMA StoreMerges ==
    ASSUME NEW s, StoreTrue(s), NEW leader, StoreTrue(leader), NEW next \in Nat, next >= 1,
           PrevMatches(s, leader, next), ~Overwrites(s, leader, next)
    PROVE  StoreTrue(Merged(s, leader, next))
<1>1. /\ s \in Stores /\ s.commit \in Nat /\ s.commit <= Len(s.log) /\ s.log \in Seq(Entries)
      /\ leader.log \in Seq(Entries) /\ Len(s.log) \in Nat /\ Len(leader.log) \in Nat
  BY DEF StoreTrue, Stores
<1> DEFINE D == Differing(s, leader, next)
<1>2. CASE D = {}
  BY <1>2 DEF Merged
<1>3. CASE D # {}
  <2>1. D \in SUBSET Nat /\ \A i \in D : i \in next..Len(leader.log)
    BY <1>1 DEF Differing
  <2>2. \A i \in D : i > s.commit
    BY <1>1, <2>1 DEF Overwrites
  <2>3. \A i \in next..Len(leader.log) : i > Len(s.log) => i \in D
    BY DEF Differing
  <2> HIDE DEF D
  <2> DEFINE m == Min(D)
  <2>4. m \in D /\ \A k \in D : m <= k
    BY <1>3, <2>1, Least DEF Min
  <2> HIDE DEF m
  <2>5. m \in Nat /\ m >= 1 /\ m > s.commit /\ m <= Len(leader.log) /\ next <= m
    BY <1>1, <2>1, <2>2, <2>4
  <2>6. m - 1 <= Len(s.log)
    <3>1. next - 1 <= Len(s.log)
      BY DEF PrevMatches
    <3>2. CASE next <= Len(s.log)
      <4>1. CASE Len(s.log) + 1 <= Len(leader.log)
        <5>1. Len(s.log) + 1 \in D
          BY <1>1, <2>3, <3>2, <4>1
        <5> QED BY <1>1, <2>4, <2>5, <5>1
      <4>2. CASE ~(Len(s.log) + 1 <= Len(leader.log))
        BY <1>1, <2>5, <4>2
      <4> QED BY <4>1, <4>2
    <3>3. CASE ~(next <= Len(s.log))
      <4>1. next = Len(s.log) + 1 /\ next \in next..Len(leader.log)
        BY <1>1, <2>5, <3>1, <3>3
      <4>2. next \in D
        BY <1>1, <2>3, <4>1
      <4> QED BY <1>1, <2>4, <2>5, <4>1, <4>2
    <3> QED BY <3>2, <3>3
  <2> DEFINE head == SubSeq(s.log, 1, m - 1)
             tail == SubSeq(leader.log, m, Len(leader.log))
             log == head \o tail
  <2>7. head \in Seq(Entries) /\ Len(head) = m - 1 /\ \A i \in 1..(m - 1) : head[i] = s.log[i]
    BY <1>1, <2>5, <2>6
  <2>8. tail \in Seq(Entries) /\ Len(tail) \in Nat
    BY <1>1, <2>5
  <2> HIDE DEF head, tail
  <2>9. /\ log \in Seq(Entries) /\ Len(log) = (m - 1) + Len(tail)
        /\ \A i \in 1..(m - 1) : log[i] = head[i]
    BY <2>5, <2>7, <2>8, SMTT(60)
  <2>10. s.commit <= Len(log) /\ \A i \in 1..s.commit : log[i] = s.log[i]
    BY <1>1, <2>5, <2>7, <2>8, <2>9
  <2> HIDE DEF log
  <2>11. StoreTrue([s EXCEPT !.log = log])
    BY <2>9, <2>10, StoreAppends
  <2>12. Merged(s, leader, next) = [s EXCEPT !.log = log]
    BY <1>3 DEF Merged, D, m, head, tail, log
  <2> QED BY <2>11, <2>12
<1> QED BY <1>2, <1>3

-----------------------------------------------------------------------------
(* Steps *)

\* A step that leaves one true store in memory, with or without persisting it.
LEMMA OneStore ==
    ASSUME JointInv, NEW n \in Nodes, NEW s, StoreTrue(s), st' = [st EXCEPT ![n] = s],
           disk' = [disk EXCEPT ![n] = s] \/ disk' = disk,
           ballot' = [k \in Nodes |-> ballot'[k]], \A k \in Nodes : ballot'[k].term \in Nat,
           change' \in [Nodes -> Proposals \cup {NoChange}]
    PROVE  JointInv'
<1>1. /\ DOMAIN st = Nodes /\ DOMAIN disk = Nodes
      /\ st = [k \in Nodes |-> st[k]] /\ disk = [k \in Nodes |-> disk[k]]
      /\ \A k \in Nodes : StoreTrue(st[k]) /\ StoreTrue(disk[k])
  BY DEF JointInv
<1>2. /\ st' = [k \in Nodes |-> st'[k]] /\ DOMAIN st' = Nodes
      /\ \A k \in Nodes : st'[k] = IF k = n THEN s ELSE st[k]
  BY <1>1
<1>3. /\ disk' = [k \in Nodes |-> disk'[k]] /\ DOMAIN disk' = Nodes
      /\ \A k \in Nodes : disk'[k] = s \/ disk'[k] = disk[k]
  <2>1. CASE disk' = [disk EXCEPT ![n] = s]
    BY <1>1, <2>1
  <2>2. CASE disk' = disk
    BY <1>1, <2>2
  <2> QED BY <2>1, <2>2
<1>4. \A k \in Nodes : StoreTrue(st'[k]) /\ StoreTrue(disk'[k])
  <2> TAKE k \in Nodes
  <2>1. StoreTrue(st'[k])
    BY <1>1, <1>2
  <2>2. StoreTrue(disk'[k])
    BY <1>1, <1>3
  <2> QED BY <2>1, <2>2
<1>5. (\A k \in Nodes : StoreTrue(st[k]) /\ StoreTrue(disk[k]))'
  BY <1>4
<1> QED BY <1>2, <1>3, <1>5 DEF JointInv

\* The stores that NewRaftStore opens for the first time.
LEMMA InitJoint == Init => JointInv
<1> SUFFICES ASSUME Init PROVE JointInv
  OBVIOUS
<1>1. ASSUME NEW v \in SUBSET Nodes PROVE StoreTrue(Configured(v))
  <2> DEFINE s == Configured(v)
  <2>1. /\ s \in Stores /\ s.commit = 0 /\ Len(s.log) = 0 /\ s.epoch = 1 /\ s.old = {} /\ s.new = {}
    BY DEF Configured, Stores, Whole
  <2> HIDE DEF s
  <2>2. PICK c : Run(c, Unconfigured, s.log, 0, 0)
    BY RunExists
  <2>3. c[0] = Unconfigured
    BY <2>2, RunSteps
  <2>4. Replays(Unconfigured, Configuration(s))
    BY <2>1, ConfigurationType DEF Replays, Unconfigured
  <2>5. StoreTrue(s)
    BY <2>1, <2>2, <2>3, <2>4 DEF StoreTrue
  <2> QED BY <2>5 DEF s
<1>2. \A n \in Nodes : (IF n \in InitialVoters THEN InitialVoters ELSE {}) \in SUBSET Nodes
  BY JointAssumption
<1>3. \A n \in Nodes : StoreTrue(st[n]) /\ StoreTrue(disk[n])
  BY <1>1, <1>2 DEF Init
<1> QED BY <1>3 DEF Init, JointInv, Ballot

\* What JointInv says of the stores and proposals of a node.
LEMMA JointParts ==
    ASSUME JointInv, NEW n \in Nodes
    PROVE  /\ StoreTrue(st[n]) /\ StoreTrue(disk[n]) /\ st[n] \in Stores /\ disk[n] \in Stores
           /\ st[n].term \in Nat /\ st[n].commit \in Nat /\ st[n].log \in Seq(Entries) /\ Len(st[n].log) \in Nat
           /\ st[n].epoch \in Nat /\ st[n].voters \subseteq Nodes /\ st[n].old \subseteq Nodes
           /\ st[n].new \subseteq Nodes /\ st[n].commit <= Len(st[n].log)
           /\ ballot[n].term \in Nat /\ change[n] \in Proposals \cup {NoChange}
           /\ ballot = [k \in Nodes |-> ballot[k]] /\ \A k \in Nodes : ballot[k].term \in Nat
           /\ change \in [Nodes -> Proposals \cup {NoChange}]
  BY DEF JointInv, StoreTrue, Stores

\* BeginElection keeps JointInv.
LEMMA BeginElectionJoint ==
    ASSUME JointInv, NEW n \in Nodes, BeginElection(n)
    PROVE  JointInv'
<1> DEFINE x == [st[n] EXCEPT !.term = @ + 1, !.vote = n]
           s == ConfigureVoters(x)
<1>1. x = [st[n] EXCEPT !.term = st[n].term + 1, !.vote = n] /\ st[n].term + 1 \in Nat
  BY JointParts
<1>2. StoreTrue(x)
  BY <1>1, JointParts, StoreVotes
<1> HIDE DEF x
<1>3. StoreTrue(s)
  BY <1>2, StoreFollows
<1> HIDE DEF s
<1>4. /\ Persist(n, s) /\ UNCHANGED change
      /\ ballot' = [ballot EXCEPT ![n] = Ballot(s.term, Len(s.log), LastTerm(s), consensusPeers(n, s))]
  BY DEF BeginElection, x, s
<1>5. ballot' = [k \in Nodes |-> ballot'[k]] /\ \A k \in Nodes : ballot'[k].term \in Nat
  <2>1. s.term \in Nat
    BY <1>3 DEF StoreTrue, Stores
  <2> DEFINE b == Ballot(s.term, Len(s.log), LastTerm(s), consensusPeers(n, s))
  <2>2. b.term = s.term
    BY DEF Ballot
  <2> HIDE DEF b
  <2>3. ballot = [k \in Nodes |-> ballot[k]] /\ \A k \in Nodes : ballot[k].term \in Nat
    BY JointParts
  <2>4. ballot' = [ballot EXCEPT ![n] = b]
    BY <1>4 DEF b
  <2> QED BY <2>1, <2>2, <2>3, <2>4
<1>6. change' \in [Nodes -> Proposals \cup {NoChange}]
  BY <1>4, JointParts
<1> QED BY <1>3, <1>4, <1>5, <1>6, OneStore DEF Persist

\* RequestVote keeps JointInv: the voter's new term and its vote.
LEMMA RequestVoteJoint ==
    ASSUME JointInv, NEW n \in Nodes, NEW c \in Nodes, RequestVote(n, c)
    PROVE  JointInv'
<1> DEFINE known == ConfigureVoters(st[n])
           s == AtTerm(known, ballot[c].term)
           y == [s EXCEPT !.vote = c]
<1>1. ballot[c].term \in Nat /\ st[n].term \in Nat
  BY JointParts
<1>2. StoreTrue(known)
  BY <1>1, JointParts, StoreFollows
<1> HIDE DEF known
<1>3. StoreTrue(s)
  BY <1>1, <1>2, StoreFollows
<1> HIDE DEF s
<1>4. StoreTrue(y)
  BY <1>1, <1>3, StoreVotes
<1> HIDE DEF y
<1>5. \/ Persist(n, known) \/ Persist(n, s) \/ Persist(n, y)
  BY DEF RequestVote, known, s, y
<1>6. UNCHANGED <<ballot, change>>
  BY DEF RequestVote
<1>7. /\ ballot' = [k \in Nodes |-> ballot'[k]] /\ \A k \in Nodes : ballot'[k].term \in Nat
      /\ change' \in [Nodes -> Proposals \cup {NoChange}]
  BY <1>6, JointParts
<1> QED BY <1>2, <1>3, <1>4, <1>5, <1>7, OneStore DEF Persist

\* ObserveTerm keeps JointInv.
LEMMA ObserveTermJoint ==
    ASSUME JointInv, NEW n \in Nodes, NEW p \in Nodes, ObserveTerm(n, p)
    PROVE  JointInv'
<1> DEFINE s == AtTerm(st[n], st[p].term)
<1>1. StoreTrue(s)
  BY JointParts, StoreFollows
<1> HIDE DEF s
<1>2. Persist(n, s) /\ UNCHANGED <<ballot, change>>
  BY DEF ObserveTerm, s
<1>3. /\ ballot' = [k \in Nodes |-> ballot'[k]] /\ \A k \in Nodes : ballot'[k].term \in Nat
      /\ change' \in [Nodes -> Proposals \cup {NoChange}]
  BY <1>2, JointParts
<1> QED BY <1>1, <1>2, <1>3, OneStore DEF Persist

\* A step that leaves the stores alone.
LEMMA SameStores ==
    ASSUME JointInv, UNCHANGED <<st, disk, ballot>>, change' \in [Nodes -> Proposals \cup {NoChange}]
    PROVE  JointInv'
  BY DEF JointInv

\* An answer that is counted.
LEMMA AcknowledgedType ==
    ASSUME JointInv, NEW n \in Nodes, NEW p \in Nodes
    PROVE  Acknowledged(n, p) \in [Nodes -> Proposals \cup {NoChange}]
<1>1. CASE change[n] # NoChange /\ change[n].term = st[n].term
  <2> DEFINE c == [change[n] EXCEPT !.acks = @ \cup {p}]
  <2>1. change[n] \in Proposals
    BY <1>1, JointParts
  <2>2. c \in Proposals
    BY <2>1 DEF Proposals
  <2>3. Acknowledged(n, p) = [change EXCEPT ![n] = c]
    BY <1>1 DEF Acknowledged
  <2> HIDE DEF c
  <2> QED BY <2>2, <2>3, JointParts
<1>2. CASE ~(change[n] # NoChange /\ change[n].term = st[n].term)
  BY <1>2, JointParts DEF Acknowledged
<1> QED BY <1>1, <1>2

\* AppendEntries keeps JointInv, however far it comes.
LEMMA ReplicateJoint ==
    ASSUME JointInv, NEW n \in Nodes, NEW p \in Nodes, NEW next \in Nat, next >= 1, replicatePeer(n, p, next)
    PROVE  JointInv'
<1> DEFINE s == AtTerm(st[p], st[n].term)
           merged == Merged(s, st[n], next)
           t == CommitTarget(merged, st[n])
           x == ApplyThrough(merged, t)
<1>1. StoreTrue(s)
  BY JointParts, StoreFollows
<1>2. UNCHANGED ballot
  BY DEF replicatePeer
<1>3. ballot' = [k \in Nodes |-> ballot'[k]] /\ \A k \in Nodes : ballot'[k].term \in Nat
  BY <1>2, JointParts
<1>4. \/ UNCHANGED <<st, disk, change>>
      \/ Persist(p, s) /\ UNCHANGED change
      \/ st' = [st EXCEPT ![p] = s] /\ UNCHANGED <<disk, change>>
      \/ /\ PrevMatches(s, st[n], next) /\ ~Overwrites(s, st[n], next)
         /\ st' = [st EXCEPT ![p] = merged] /\ UNCHANGED <<disk, change>>
      \/ /\ PrevMatches(s, st[n], next) /\ ~Overwrites(s, st[n], next) /\ CanApply(merged, t)
         /\ Persist(p, x) /\ change' = Acknowledged(n, p)
  BY DEF replicatePeer, Unappliable
<1> HIDE DEF s
<1>5. CASE UNCHANGED <<st, disk, change>>
  BY <1>2, <1>5, JointParts, SameStores
<1>6. CASE Persist(p, s) /\ UNCHANGED change
  BY <1>1, <1>3, <1>6, JointParts, OneStore DEF Persist
<1>7. CASE st' = [st EXCEPT ![p] = s] /\ UNCHANGED <<disk, change>>
  BY <1>1, <1>3, <1>7, JointParts, OneStore
<1>8. CASE /\ PrevMatches(s, st[n], next) /\ ~Overwrites(s, st[n], next)
           /\ st' = [st EXCEPT ![p] = merged] /\ UNCHANGED <<disk, change>>
  <2>1. StoreTrue(merged)
    BY <1>1, <1>8, JointParts, StoreMerges
  <2> HIDE DEF merged
  <2> QED BY <1>3, <1>8, <2>1, JointParts, OneStore
<1>9. CASE /\ PrevMatches(s, st[n], next) /\ ~Overwrites(s, st[n], next) /\ CanApply(merged, t)
           /\ Persist(p, x) /\ change' = Acknowledged(n, p)
  <2>1. StoreTrue(merged)
    BY <1>1, <1>9, JointParts, StoreMerges
  <2> HIDE DEF merged
  <2>2. t \in Nat /\ t <= Len(merged.log)
    <3>1. merged.log \in Seq(Entries) /\ st[n].commit \in Nat
      BY <2>1, JointParts DEF StoreTrue, Stores
    <3> QED BY <3>1 DEF CommitTarget
  <2> HIDE DEF t
  <2>3. StoreTrue(x)
    BY <1>9, <2>1, <2>2, StoreApplies
  <2> HIDE DEF x
  <2>4. change' \in [Nodes -> Proposals \cup {NoChange}]
    BY <1>9, AcknowledgedType
  <2> QED BY <1>3, <1>9, <2>3, <2>4, OneStore DEF Persist
<1> QED BY <1>4, <1>5, <1>6, <1>7, <1>8, <1>9

\* An entry that a leader adds to its log keeps JointInv.
LEMMA AppendsJoint ==
    ASSUME JointInv, NEW n \in Nodes, NEW type \in {"advance", "begin", "finalize"}, NEW epoch \in Nat,
           NEW old \in SUBSET Nodes, NEW new \in SUBSET Nodes, NEW peers \in SUBSET Nodes,
           Appends(n, type, epoch, old, new, peers)
    PROVE  JointInv'
<1> DEFINE entry == Entry(st[n].term, type, epoch, old, new)
           again == Len(st[n].log) > st[n].commit /\ Last(st[n].log) = entry
           log == IF again THEN st[n].log ELSE Append(st[n].log, entry)
           s == [st[n] EXCEPT !.log = log]
           c == [type |-> type, index |-> Len(log), term |-> st[n].term, acks |-> {n},
                 peers |-> peers, old |-> old, new |-> new]
<1>1. /\ Persist(n, s) /\ change' = [change EXCEPT ![n] = c] /\ UNCHANGED ballot
  BY DEF Appends, runtime
<1>2. entry \in Entries
  <2>1. ValidEntry(entry)
    BY DEF Appends
  <2>2. entry \in [term : Nat, type : {"advance", "begin", "finalize"}, epoch : Nat,
                   old : SUBSET Nodes, new : SUBSET Nodes]
    BY JointParts DEF Entry
  <2> QED BY <2>1, <2>2 DEF Entries
<1> HIDE DEF entry
<1>3. /\ log \in Seq(Entries) /\ st[n].commit <= Len(log) /\ Len(log) \in Nat
      /\ \A i \in 1..st[n].commit : log[i] = st[n].log[i]
  BY <1>2, JointParts
<1> HIDE DEF log
<1>4. StoreTrue(s)
  BY <1>3, JointParts, StoreAppends
<1>5. c \in Proposals
  BY <1>3, JointParts DEF Proposals
<1> HIDE DEF s, c
<1>6. change' \in [Nodes -> Proposals \cup {NoChange}]
  BY <1>1, <1>5, JointParts
<1>7. ballot' = [k \in Nodes |-> ballot'[k]] /\ \A k \in Nodes : ballot'[k].term \in Nat
  BY <1>1, JointParts
<1> QED BY <1>1, <1>4, <1>6, <1>7, OneStore DEF Persist

\* A commit that the voters acknowledged keeps JointInv.
LEMMA CommitJoint ==
    ASSUME JointInv, NEW n \in Nodes, CommitWithVoterAcks(n)
    PROVE  JointInv'
<1> DEFINE c == change[n]
           s == ApplyThrough(st[n], c.index)
<1>1. c \in Proposals /\ c.index \in Nat
  BY JointParts DEF CommitWithVoterAcks, Proposals
<1>2. c.index <= Len(st[n].log) /\ CanApply(st[n], c.index)
  BY DEF CommitWithVoterAcks, Committable
<1>3. StoreTrue(s)
  BY <1>1, <1>2, JointParts, StoreApplies
<1>4. Persist(n, s) /\ UNCHANGED ballot
  BY DEF CommitWithVoterAcks, runtime
<1> HIDE DEF s
<1>5. change' \in [Nodes -> Proposals \cup {NoChange}]
  <2>1. [c EXCEPT !.type = "joint"] \in Proposals /\ [c EXCEPT !.type = "committed"] \in Proposals
    BY <1>1 DEF Proposals
  <2>2. \/ change' = [change EXCEPT ![n] = [c EXCEPT !.type = "joint"]]
        \/ change' = [change EXCEPT ![n] = [c EXCEPT !.type = "committed"]]
    BY DEF CommitWithVoterAcks
  <2> HIDE DEF c
  <2> QED BY <2>1, <2>2, JointParts, ZenonT(60)
<1>6. ballot' = [k \in Nodes |-> ballot'[k]] /\ \A k \in Nodes : ballot'[k].term \in Nat
  BY <1>4, JointParts
<1> QED BY <1>3, <1>4, <1>5, <1>6, OneStore DEF Persist

\* A restart takes the state from the disk.
LEMMA RestartJoint ==
    ASSUME JointInv, NEW n \in Nodes, Restart(n)
    PROVE  JointInv'
<1>1. st' = [st EXCEPT ![n] = disk[n]] /\ UNCHANGED <<disk, ballot>> /\ change' = [change EXCEPT ![n] = NoChange]
  BY DEF Restart
<1>2. change' \in [Nodes -> Proposals \cup {NoChange}]
  BY <1>1, JointParts
<1>3. ballot' = [k \in Nodes |-> ballot'[k]] /\ \A k \in Nodes : ballot'[k].term \in Nat
  BY <1>1, JointParts
<1> QED BY <1>1, <1>2, <1>3, JointParts, OneStore

\* Every step keeps JointInv.
LEMMA NextJoint == JointInv /\ [Next]_vars => JointInv'
<1> SUFFICES ASSUME JointInv, [Next]_vars PROVE JointInv'
  OBVIOUS
<1>1. ASSUME NEW n \in Nodes, BeginElection(n) PROVE JointInv'
  BY <1>1, BeginElectionJoint
<1>2. ASSUME NEW n \in Nodes, BecomeLeader(n) \/ StepsDown(n) PROVE JointInv'
  <2>1. UNCHANGED <<st, disk, ballot, change>>
    BY <1>2 DEF BecomeLeader, StepsDown
  <2> QED BY <1>2, <2>1, JointParts, SameStores
<1>3. ASSUME NEW n \in Nodes, AdvanceView(n) PROVE JointInv'
  <2>1. Appends(n, "advance", st[n].epoch + 1, {}, {}, activeVoters(st[n]))
    BY <1>3 DEF AdvanceView
  <2>2. st[n].epoch + 1 \in Nat /\ activeVoters(st[n]) \in SUBSET Nodes
    BY JointParts DEF activeVoters
  <2> QED BY <2>1, <2>2, AppendsJoint
<1>4. ASSUME NEW n \in Nodes, NEW new \in VoterSets, ChangeVoters(n, new) PROVE JointInv'
  <2>1. Appends(n, "begin", st[n].epoch, st[n].voters, new, st[n].voters \cup new)
    BY <1>4 DEF ChangeVoters
  <2>2. st[n].epoch \in Nat /\ st[n].voters \in SUBSET Nodes /\ new \in SUBSET Nodes
    BY JointParts DEF VoterSets
  <2>3. st[n].voters \cup new \in SUBSET Nodes
    BY <2>2
  <2> QED BY <2>1, <2>2, <2>3, AppendsJoint
<1>5. ASSUME NEW n \in Nodes, CommitWithVoterAcks(n) PROVE JointInv'
  BY <1>5, CommitJoint
<1>6. ASSUME NEW n \in Nodes, Finalize(n) PROVE JointInv'
  <2>1. Appends(n, "finalize", st[n].epoch + 1, change[n].old, change[n].new, change[n].peers)
    BY <1>6 DEF Finalize
  <2>2. change[n] \in Proposals /\ st[n].epoch + 1 \in Nat
    BY <1>6, JointParts DEF Finalize
  <2>3. change[n].old \in SUBSET Nodes /\ change[n].new \in SUBSET Nodes /\ change[n].peers \in SUBSET Nodes
    BY <2>2 DEF Proposals
  <2> QED BY <2>1, <2>2, <2>3, AppendsJoint
<1>7. ASSUME NEW n \in Nodes, EndProposal(n) PROVE JointInv'
  <2>1. UNCHANGED <<st, disk, ballot>> /\ change' = [change EXCEPT ![n] = NoChange]
    BY <1>7 DEF EndProposal
  <2>2. change' \in [Nodes -> Proposals \cup {NoChange}]
    BY <2>1, JointParts
  <2> QED BY <2>1, <2>2, SameStores
<1>8. ASSUME NEW n \in Nodes, Restart(n) PROVE JointInv'
  BY <1>8, RestartJoint
<1>9. ASSUME NEW n \in Nodes, NEW p \in Nodes, RequestVote(n, p) \/ ObserveTerm(n, p) PROVE JointInv'
  BY <1>9, RequestVoteJoint, ObserveTermJoint
<1>10. ASSUME NEW n \in Nodes, NEW p \in Nodes, NEW next \in 1..(MaxLog + 1), replicatePeer(n, p, next)
       PROVE  JointInv'
  <2>1. next \in Nat /\ next >= 1
    BY <1>10 DEF replicatePeer
  <2> QED BY <1>10, <2>1, ReplicateJoint
<1>11. CASE UNCHANGED vars
  BY <1>11 DEF vars, JointInv
<1> QED BY <1>1, <1>2, <1>3, <1>4, <1>5, <1>6, <1>7, <1>8, <1>9, <1>10, <1>11 DEF Next

-----------------------------------------------------------------------------
(* Elections while one change of the voters is under way *)

\* Sets of voters any two of which differ in one node at most: those before and
\* after a change and, when one node joins a cluster, the nodes a learner counts.
Neighbours(F) == \A V, W \in F : V \subseteq Nodes /\ voterSetDifference(V, W) <= 1

\* Every configuration in force is of these sets; a learner may have none.
Within(F) == \A n \in Nodes : st[n].voters \in F \cup {{}} /\ st[n].old \in F \cup {{}}

\* Whom every node voted for in every term.  A state shows the last vote only.
VoteRecords == [Nodes -> [Nat -> Nodes \cup {Nobody}]]
VoteTrue(v, n, s) == v[n][s.term] = s.vote /\ \A t \in Nat : t > s.term => v[n][t] = Nobody
Elected(v, c, t) == {q \in Nodes : v[q][t] = c}

StoresVoted(v) == \A n \in Nodes : VoteTrue(v, n, st[n]) /\ VoteTrue(v, n, disk[n])
VotesCounted(v) ==
    \A c \in Nodes : c \notin ballot[c].peers /\ votes[c] \subseteq Elected(v, c, ballot[c].term)
LeadersElected(F, v) ==
    \A c \in Nodes : role[c] = "leader" =>
        \E V \in F : voterMajority(V, Elected(v, c, ballot[c].term))
VotesKept(F, v) ==
    /\ role = [n \in Nodes |-> role[n]] /\ votes = [n \in Nodes |-> votes[n]]
    /\ StoresVoted(v) /\ VotesCounted(v) /\ LeadersElected(F, v)
ElectionsInv(F) == \E v \in VoteRecords : VotesKept(F, v)

\* Majorities of two sets that differ in one node at most have a node in common.
LEMMA NeighboursMeet ==
    ASSUME NEW V \in SUBSET Nodes, NEW W \in SUBSET Nodes, voterSetDifference(V, W) <= 1,
           NEW A, NEW B, voterMajority(V, A), voterMajority(W, B)
    PROVE  A \cap B # {}
<1> DEFINE U == V \cup W
           X == V \cap A
           Y == W \cap B
           u == Cardinality(U)
           a == Cardinality(V \ W)
           b == Cardinality(W \ V)
<1>1. IsFiniteSet(V) /\ IsFiniteSet(W) /\ IsFiniteSet(U)
  BY JointAssumption, FS_Subset
<1>2. X \in SUBSET U /\ Y \in SUBSET U /\ V \cap U = V /\ U \ V = W \ V /\ U \ W = V \ W
      /\ U \cap V = V /\ U \cap W = W
  OBVIOUS
<1>3. IsFiniteSet(X) /\ IsFiniteSet(Y) /\ IsFiniteSet(V \ W) /\ IsFiniteSet(W \ V)
  BY <1>1, <1>2, FS_Subset, FS_Difference
<1>4. /\ u \in Nat /\ a \in Nat /\ b \in Nat /\ Cardinality(V) \in Nat /\ Cardinality(W) \in Nat
      /\ Cardinality(X) \in Nat /\ Cardinality(Y) \in Nat
  BY <1>1, <1>3, FS_CardinalityType
<1>5. b = u - Cardinality(V) /\ a = u - Cardinality(W)
  <2>1. Cardinality(U \ V) = u - Cardinality(U \cap V) /\ Cardinality(U \ W) = u - Cardinality(U \cap W)
    BY <1>1, FS_Difference
  <2> QED BY <2>1, <1>2
<1>6. a + b <= 1
  BY DEF voterSetDifference
<1>7. Cardinality(X) >= Cardinality(V) \div 2 + 1 /\ Cardinality(Y) >= Cardinality(W) \div 2 + 1
  BY DEF voterMajority
<1> HIDE DEF u, a, b, X, Y, U
<1>8. Cardinality(X) + Cardinality(Y) > u
  <2>1. \A x, y, g, h, k \in Nat :
          x >= g \div 2 + 1 /\ y >= h \div 2 + 1 /\ g <= k /\ h <= k /\ (k - g) + (k - h) <= 1
            => x + y > k
    OBVIOUS
  <2>2. Cardinality(V) <= u /\ Cardinality(W) <= u /\ (u - Cardinality(V)) + (u - Cardinality(W)) <= 1
    BY <1>4, <1>5, <1>6
  <2> QED BY <2>1, <2>2, <1>4, <1>7
<1>9. X \cap Y # {}
  BY <1>1, <1>2, <1>8, FS_MajoritiesIntersect DEF u
<1> QED BY <1>9 DEF X, Y

\* More acknowledgements are still a majority.
LEMMA MajorityStays ==
    ASSUME NEW V \in SUBSET Nodes, NEW A, NEW B, A \subseteq B, voterMajority(V, A)
    PROVE  voterMajority(V, B)
<1> DEFINE X == V \cap A
           Y == V \cap B
<1>1. IsFiniteSet(V) /\ IsFiniteSet(Y) /\ X \in SUBSET Y
  BY JointAssumption, FS_Subset
<1>2. Cardinality(X) <= Cardinality(Y) /\ IsFiniteSet(X)
  BY <1>1, FS_Subset
<1>3. Cardinality(V) \in Nat /\ Cardinality(X) \in Nat /\ Cardinality(Y) \in Nat
  BY <1>1, <1>2, FS_CardinalityType
<1>4. V # {} /\ Cardinality(X) >= Cardinality(V) \div 2 + 1
  BY DEF voterMajority
<1> HIDE DEF X, Y
<1>5. \A x, y, k \in Nat : x >= k \div 2 + 1 /\ x <= y => y >= k \div 2 + 1
  OBVIOUS
<1>6. Cardinality(Y) >= Cardinality(V) \div 2 + 1
  BY <1>2, <1>3, <1>4, <1>5
<1> QED BY <1>4, <1>6 DEF voterMajority, Y

\* Two leaders of one term would share a voter, who voted once.
LEMMA ElectionsUnique ==
    ASSUME NEW F, Neighbours(F), ElectionsInv(F)
    PROVE  OneLeaderPerTerm
<1> SUFFICES ASSUME NEW n \in Nodes, NEW p \in Nodes, role[n] = "leader", role[p] = "leader",
                    ballot[n].term = ballot[p].term
             PROVE  n = p
  BY DEF OneLeaderPerTerm
<1>1. PICK v \in VoteRecords : VotesKept(F, v)
  BY DEF ElectionsInv
<1>2. PICK V \in F : voterMajority(V, Elected(v, n, ballot[n].term))
  BY <1>1 DEF VotesKept, LeadersElected
<1>3. PICK W \in F : voterMajority(W, Elected(v, p, ballot[n].term))
  BY <1>1 DEF VotesKept, LeadersElected
<1>4. V \in SUBSET Nodes /\ W \in SUBSET Nodes /\ voterSetDifference(V, W) <= 1
  BY DEF Neighbours
<1>5. Elected(v, n, ballot[n].term) \cap Elected(v, p, ballot[n].term) # {}
  BY <1>2, <1>3, <1>4, NeighboursMeet
<1> QED BY <1>5 DEF Elected

\* A store that keeps its vote, or has not voted in its new term.
KeepsVote(s, r) ==
    \/ r.term = s.term /\ r.vote = s.vote
    \/ r.term \in Nat /\ r.term > s.term /\ r.vote = Nobody

LEMMA VoteStays ==
    ASSUME NEW v, NEW n, NEW s, NEW r, s.term \in Nat, VoteTrue(v, n, s), KeepsVote(s, r)
    PROVE  VoteTrue(v, n, r)
  BY DEF VoteTrue, KeepsVote

\* What AtTerm, ConfigureVoters, Merged and ApplyThrough do to the vote.
LEMMA VoteAtTerm ==
    ASSUME NEW s \in Stores, NEW t \in Nat
    PROVE  /\ KeepsVote(s, AtTerm(s, t))
           /\ t >= s.term => AtTerm(s, t).term = t
           /\ t = s.term => AtTerm(s, t).vote = s.vote
           /\ t > s.term => AtTerm(s, t).vote = Nobody
  BY DEF AtTerm, KeepsVote, Stores

LEMMA VoteConfigured ==
    ASSUME NEW s \in Stores
    PROVE  ConfigureVoters(s).term = s.term /\ ConfigureVoters(s).vote = s.vote
  BY DEF ConfigureVoters, Stores

LEMMA VoteMerged ==
    ASSUME NEW s \in Stores, NEW leader, NEW next
    PROVE  Merged(s, leader, next).term = s.term /\ Merged(s, leader, next).vote = s.vote
  BY DEF Merged, Stores

LEMMA VoteApplied ==
    ASSUME NEW s \in Stores, NEW t
    PROVE  ApplyThrough(s, t).term = s.term /\ ApplyThrough(s, t).vote = s.vote
  BY DEF ApplyThrough, Stores

\* One node's store changes and keeps its vote.
LEMMA StoreChanges ==
    ASSUME JointInv, NEW v, StoresVoted(v), NEW n \in Nodes, NEW s, VoteTrue(v, n, s),
           st' = [st EXCEPT ![n] = s], disk' = [disk EXCEPT ![n] = s] \/ disk' = disk
    PROVE  StoresVoted(v)'
<1>1. DOMAIN st = Nodes /\ DOMAIN disk = Nodes
  BY DEF JointInv
<1>2. ASSUME NEW k \in Nodes PROVE VoteTrue(v, k, st'[k]) /\ VoteTrue(v, k, disk'[k])
  <2>1. VoteTrue(v, k, st[k]) /\ VoteTrue(v, k, disk[k])
    BY DEF StoresVoted
  <2>2. st'[k] = IF k = n THEN s ELSE st[k]
    BY <1>1
  <2>3. disk'[k] = disk[k] \/ (k = n /\ disk'[k] = s)
    BY <1>1
  <2> QED BY <2>1, <2>2, <2>3
<1>3. (\A k \in Nodes : VoteTrue(v, k, st[k]) /\ VoteTrue(v, k, disk[k]))'
  BY <1>2 DEF VoteTrue
<1> QED BY <1>3 DEF StoresVoted

\* No vote is counted and nobody wins.
Quiet ==
    /\ UNCHANGED ballot
    /\ role' = [n \in Nodes |-> role'[n]] /\ votes' = [n \in Nodes |-> votes'[n]]
    /\ \A n \in Nodes : votes'[n] \subseteq votes[n] /\ (role'[n] = "leader" => role[n] = "leader")

LEMMA QuietKeeps ==
    ASSUME NEW F, NEW v, VotesKept(F, v), StoresVoted(v)', Quiet
    PROVE  VotesKept(F, v)'
<1>1. VotesCounted(v)'
  BY DEF VotesKept, VotesCounted, Quiet
<1>2. LeadersElected(F, v)'
  BY DEF VotesKept, LeadersElected, Quiet
<1> QED BY <1>1, <1>2 DEF VotesKept, Quiet

LEMMA QuietFollows ==
    ASSUME NEW F, NEW v, VotesKept(F, v), NEW n \in Nodes, UNCHANGED ballot, Follows(n) \/ StaysPut
    PROVE  Quiet
<1>1. role = [k \in Nodes |-> role[k]] /\ votes = [k \in Nodes |-> votes[k]]
  BY DEF VotesKept
<1>2. CASE Follows(n)
  <2>1. role' = [role EXCEPT ![n] = "follower"] /\ votes' = [votes EXCEPT ![n] = {}]
    BY <1>2 DEF Follows
  <2>2. \A k \in Nodes : /\ role'[k] = IF k = n THEN "follower" ELSE role[k]
                         /\ votes'[k] = IF k = n THEN {} ELSE votes[k]
    BY <1>1, <2>1
  <2>3. role' = [k \in Nodes |-> role'[k]] /\ votes' = [k \in Nodes |-> votes'[k]]
    BY <1>1, <2>1
  <2> QED BY <2>2, <2>3 DEF Quiet
<1>3. CASE StaysPut
  BY <1>1, <1>3 DEF StaysPut, Quiet
<1> QED BY <1>2, <1>3

\* The records after n has voted for c in term t.
Voted(v, n, t, c) == [v EXCEPT ![n] = [v[n] EXCEPT ![t] = c]]

\* A first vote, or a repeated one, takes no vote from anybody.
LEMMA VotedGrows ==
    ASSUME NEW v \in VoteRecords, NEW n \in Nodes, NEW t \in Nat, NEW c \in Nodes,
           v[n][t] \in {Nobody, c}, NEW w, w = Voted(v, n, t, c)
    PROVE  /\ w \in VoteRecords /\ w[n][t] = c
           /\ \A k \in Nat : k # t => w[n][k] = v[n][k]
           /\ \A k \in Nodes : k # n => w[k] = v[k]
           /\ \A x \in Nodes, k \in Nat : Elected(v, x, k) \subseteq Elected(w, x, k)
           /\ n \in Elected(w, c, t)
<1>1. v[n] \in [Nat -> Nodes \cup {Nobody}]
  BY DEF VoteRecords
<1> DEFINE u == [v[n] EXCEPT ![t] = c]
<1>2. u \in [Nat -> Nodes \cup {Nobody}] /\ u[t] = c /\ \A k \in Nat : k # t => u[k] = v[n][k]
  BY <1>1
<1> HIDE DEF u
<1>3. w = [v EXCEPT ![n] = u]
  BY DEF Voted, u
<1>4. w \in VoteRecords /\ w[n] = u /\ \A k \in Nodes : k # n => w[k] = v[k]
  BY <1>2, <1>3 DEF VoteRecords
<1>5. ASSUME NEW x \in Nodes, NEW k \in Nat, NEW q \in Nodes, v[q][k] = x PROVE w[q][k] = x
  BY <1>2, <1>4, <1>5, JointAssumption
<1> QED BY <1>2, <1>4, <1>5 DEF Elected

LEMMA VotedStores ==
    ASSUME JointInv, NEW v \in VoteRecords, StoresVoted(v), NEW n \in Nodes, NEW t \in Nat, NEW c \in Nodes,
           v[n][t] \in {Nobody, c}, NEW w, w = Voted(v, n, t, c), NEW s, VoteTrue(w, n, s), Persist(n, s)
    PROVE  StoresVoted(w)'
<1>1. DOMAIN st = Nodes /\ DOMAIN disk = Nodes
  BY DEF JointInv
<1>2. ASSUME NEW k \in Nodes PROVE VoteTrue(w, k, st'[k]) /\ VoteTrue(w, k, disk'[k])
  <2>1. CASE k = n
    BY <1>1, <2>1 DEF Persist
  <2>2. CASE k # n
    <3>1. w[k] = v[k]
      BY <2>2, VotedGrows
    <3>2. st'[k] = st[k] /\ disk'[k] = disk[k]
      BY <1>1, <2>2 DEF Persist
    <3> QED BY <3>1, <3>2 DEF StoresVoted, VoteTrue
  <2> QED BY <2>1, <2>2
<1>3. (\A k \in Nodes : VoteTrue(w, k, st[k]) /\ VoteTrue(w, k, disk[k]))'
  BY <1>2 DEF VoteTrue
<1> QED BY <1>3 DEF StoresVoted

\* The votes and leaders after n has voted for c, who alone may count it.
LEMMA VotedKeeps ==
    ASSUME NEW F, Neighbours(F), JointInv, NEW v \in VoteRecords, VotesKept(F, v),
           NEW n \in Nodes, NEW t \in Nat, NEW c \in Nodes, v[n][t] \in {Nobody, c},
           NEW w, w = Voted(v, n, t, c), StoresVoted(w)',
           role' = [k \in Nodes |-> role'[k]], votes' = [k \in Nodes |-> votes'[k]],
           \A k \in Nodes : k \notin ballot'[k].peers,
           \A k \in Nodes : role'[k] = "leader" => role[k] = "leader" /\ ballot'[k] = ballot[k],
           \A k \in Nodes : \/ votes'[k] \subseteq votes[k] /\ ballot'[k] = ballot[k]
                            \/ /\ k = c /\ ballot'[k] = ballot[k] /\ ballot[k].term = t
                               /\ votes'[k] \subseteq votes[k] \cup {n}
                            \/ k = c /\ ballot'[k].term = t /\ votes'[k] \subseteq {n}
    PROVE  ElectionsInv(F)'
<1>1. /\ w \in VoteRecords /\ n \in Elected(w, c, t)
      /\ \A x \in Nodes, k \in Nat : Elected(v, x, k) \subseteq Elected(w, x, k)
  BY VotedGrows
<1>2. \A k \in Nodes : ballot[k].term \in Nat
  BY DEF JointInv
<1>3. ASSUME NEW k \in Nodes PROVE votes'[k] \subseteq Elected(w, k, ballot'[k].term)
  <2>1. votes[k] \subseteq Elected(w, k, ballot[k].term)
    BY <1>1, <1>2 DEF VotesKept, VotesCounted
  <2> QED BY <1>1, <2>1
<1>4. VotesCounted(w)'
  BY <1>3 DEF VotesCounted, Elected
<1>5. ASSUME NEW k \in Nodes, role'[k] = "leader"
      PROVE  \E V \in F : voterMajority(V, Elected(w, k, ballot'[k].term))
  <2>1. role[k] = "leader" /\ ballot'[k] = ballot[k]
    BY <1>5
  <2>2. PICK V \in F : voterMajority(V, Elected(v, k, ballot[k].term))
    BY <2>1 DEF VotesKept, LeadersElected
  <2>3. V \in SUBSET Nodes
    BY DEF Neighbours
  <2>4. voterMajority(V, Elected(w, k, ballot[k].term))
    BY <1>1, <1>2, <2>2, <2>3, MajorityStays
  <2> QED BY <2>1, <2>4
<1>6. LeadersElected(F, w)'
  BY <1>5 DEF LeadersElected, Elected, voterMajority
<1>7. VotesKept(F, w)'
  BY <1>4, <1>6 DEF VotesKept
<1> QED BY <1>1, <1>7 DEF ElectionsInv

\* campaign: the candidate votes for itself in a new term.
LEMMA BeginElectionVotes ==
    ASSUME NEW F, Neighbours(F), JointInv, ElectionsInv(F), NEW n \in Nodes, BeginElection(n)
    PROVE  ElectionsInv(F)'
<1>1. PICK v \in VoteRecords : VotesKept(F, v)
  BY DEF ElectionsInv
<1>2. PICK t : t = st[n].term + 1
  OBVIOUS
<1> DEFINE x == [st[n] EXCEPT !.term = @ + 1, !.vote = n]
           s == ConfigureVoters(x)
           b == Ballot(s.term, Len(s.log), LastTerm(s), consensusPeers(n, s))
<1>3. st[n] \in Stores /\ st[n].term \in Nat /\ t \in Nat /\ t > st[n].term
  BY <1>2, JointParts
<1>4. x \in Stores /\ x.term = t /\ x.vote = n
  BY <1>2, <1>3 DEF Stores, Whole
<1>5. /\ Persist(n, s) /\ role[n] # "leader" /\ ballot' = [ballot EXCEPT ![n] = b]
      /\ role' = [role EXCEPT ![n] = "candidate"] /\ votes' = [votes EXCEPT ![n] = {n}]
  BY DEF BeginElection
<1> HIDE DEF x
<1>6. s.term = t /\ s.vote = n
  BY <1>4, VoteConfigured
<1>7. b.term = s.term /\ n \notin b.peers
  BY DEF Ballot, consensusPeers
<1> HIDE DEF s, b
<1>8. v[n][t] = Nobody /\ \A k \in Nat : k > t => v[n][k] = Nobody
  <2>1. VoteTrue(v, n, st[n])
    BY <1>1 DEF VotesKept, StoresVoted
  <2> QED BY <1>3, <2>1 DEF VoteTrue
<1>9. PICK w : w = Voted(v, n, t, n)
  OBVIOUS
<1>10. w[n][t] = n /\ \A k \in Nat : k # t => w[n][k] = v[n][k]
  BY <1>3, <1>8, <1>9, VotedGrows
<1>11. VoteTrue(w, n, s)
  BY <1>3, <1>6, <1>8, <1>10 DEF VoteTrue
<1>12. StoresVoted(v) /\ role = [k \in Nodes |-> role[k]] /\ votes = [k \in Nodes |-> votes[k]]
       /\ \A k \in Nodes : k \notin ballot[k].peers
  BY <1>1 DEF VotesKept, VotesCounted
<1>13. StoresVoted(w)'
  BY <1>3, <1>5, <1>8, <1>11, <1>12, <1>9, VotedStores
<1>14. ballot = [k \in Nodes |-> ballot[k]]
  BY JointParts
<1>15. \A k \in Nodes : /\ role'[k] = IF k = n THEN "candidate" ELSE role[k]
                        /\ votes'[k] = IF k = n THEN {n} ELSE votes[k]
                        /\ ballot'[k] = IF k = n THEN b ELSE ballot[k]
  BY <1>5, <1>12, <1>14
<1>16. role' = [k \in Nodes |-> role'[k]] /\ votes' = [k \in Nodes |-> votes'[k]]
  BY <1>5, <1>12
<1>17. \A k \in Nodes : /\ k \notin ballot'[k].peers
                        /\ role'[k] = "leader" => role[k] = "leader" /\ ballot'[k] = ballot[k]
                        /\ \/ votes'[k] \subseteq votes[k] /\ ballot'[k] = ballot[k]
                           \/ k = n /\ ballot'[k].term = t /\ votes'[k] \subseteq {n}
  BY <1>6, <1>7, <1>12, <1>15
<1> QED BY <1>1, <1>3, <1>8, <1>13, <1>16, <1>17, <1>9, VotedKeeps

\* RequestVote: a node that has not voted in the term, or voted for c, votes for c.
LEMMA RequestVoteVotes ==
    ASSUME NEW F, Neighbours(F), JointInv, ElectionsInv(F), NEW n \in Nodes, NEW c \in Nodes,
           RequestVote(n, c)
    PROVE  ElectionsInv(F)'
<1>1. PICK v \in VoteRecords : VotesKept(F, v)
  BY DEF ElectionsInv
<1>2. PICK t : t = ballot[c].term
  OBVIOUS
<1> DEFINE known == ConfigureVoters(st[n])
           s == AtTerm(known, t)
           y == [s EXCEPT !.vote = c]
           granted == UpToDate(ballot[c], s) /\ s.vote \in {Nobody, c}
           higher == t > known.term
           active == c \in activeVoters(known) /\ t >= known.term
<1>3. t \in Nat /\ st[n] \in Stores /\ st[n].term \in Nat /\ StoreTrue(st[n])
  BY <1>2, JointParts
<1>4. /\ n \in ballot[c].peers /\ UNCHANGED ballot
      /\ role' = [role EXCEPT ![n] = IF higher THEN "follower" ELSE @]
      /\ IF active
         THEN /\ Persist(n, IF granted THEN y ELSE s)
              /\ votes' = [votes EXCEPT ![c] = IF granted /\ role[c] = "candidate" THEN @ \cup {n} ELSE @,
                                        ![n] = IF higher THEN {} ELSE @]
         ELSE Persist(n, known) /\ votes' = [votes EXCEPT ![n] = IF higher THEN {} ELSE @]
  BY <1>2 DEF RequestVote
<1>5. known \in Stores /\ StoreTrue(known) /\ known.term = st[n].term /\ known.vote = st[n].vote
  BY <1>3, StoreFollows, VoteConfigured DEF StoreTrue
<1> HIDE DEF known
<1>6. /\ s \in Stores /\ KeepsVote(known, s)
      /\ active => s.term = t /\ (t = known.term => s.vote = known.vote)
                              /\ (t > known.term => s.vote = Nobody)
  BY <1>3, <1>5, StoreFollows, VoteAtTerm DEF StoreTrue
<1> HIDE DEF s
<1>7. y.term = s.term /\ y.vote = c
  BY <1>6 DEF Stores
<1> HIDE DEF y
<1>8. /\ StoresVoted(v) /\ role = [k \in Nodes |-> role[k]] /\ votes = [k \in Nodes |-> votes[k]]
      /\ \A k \in Nodes : k \notin ballot[k].peers
  BY <1>1 DEF VotesKept, VotesCounted
<1>9. n # c
  BY <1>4, <1>8
<1>10. VoteTrue(v, n, st[n]) /\ VoteTrue(v, n, known) /\ VoteTrue(v, n, s)
  <2>1. VoteTrue(v, n, st[n])
    BY <1>8 DEF StoresVoted
  <2>2. VoteTrue(v, n, known)
    BY <1>5, <2>1 DEF VoteTrue
  <2>3. known.term \in Nat
    BY <1>3, <1>5
  <2> QED BY <1>6, <2>1, <2>2, <2>3, VoteStays
<1>11. role' = [k \in Nodes |-> role'[k]] /\ \A k \in Nodes : role'[k] = "leader" => role[k] = "leader"
  BY <1>4, <1>8
<1>12. CASE active /\ granted
  <2>1. PICK w : w = Voted(v, n, t, c)
    OBVIOUS
  <2>2. v[n][t] \in {Nobody, c}
    BY <1>6, <1>10, <1>12 DEF VoteTrue
  <2>3. w[n][t] = c /\ \A k \in Nat : k # t => w[n][k] = v[n][k]
    BY <1>3, <2>1, <2>2, VotedGrows
  <2>4. VoteTrue(w, n, y)
    BY <1>3, <1>6, <1>7, <1>10, <1>12, <2>3 DEF VoteTrue
  <2>5. Persist(n, y)
    BY <1>4, <1>12
  <2>6. StoresVoted(w)'
    BY <1>3, <1>8, <2>1, <2>2, <2>4, <2>5, VotedStores
  <2>7. votes' = [k \in Nodes |-> votes'[k]]
    BY <1>4, <1>8, <1>12
  <2>8. \A k \in Nodes : \/ votes'[k] \subseteq votes[k]
                         \/ k = c /\ votes'[k] \subseteq votes[k] \cup {n}
    BY <1>4, <1>8, <1>9, <1>12
  <2> QED BY <1>1, <1>2, <1>3, <1>4, <1>8, <1>11, <2>1, <2>2, <2>6, <2>7, <2>8, VotedKeeps,
            SMTT(60)
<1>13. CASE ~(active /\ granted)
  <2>1. Persist(n, s) \/ Persist(n, known)
    BY <1>4, <1>13
  <2>2. StoresVoted(v)'
    BY <1>8, <1>10, <2>1, StoreChanges DEF Persist
  <2>3. votes' = [k \in Nodes |-> votes'[k]] /\ \A k \in Nodes : votes'[k] \subseteq votes[k]
    BY <1>4, <1>8, <1>13
  <2>4. Quiet
    BY <1>4, <1>11, <2>3 DEF Quiet
  <2>5. VotesKept(F, v)'
    BY <1>1, <2>2, <2>4, QuietKeeps
  <2> QED BY <2>5 DEF ElectionsInv
<1> QED BY <1>12, <1>13

\* becomeLeader: the votes are a majority of a set of voters in force.
LEMMA BecomeLeaderVotes ==
    ASSUME NEW F, Neighbours(F), Within(F), JointInv, ElectionsInv(F), NEW n \in Nodes, BecomeLeader(n)
    PROVE  ElectionsInv(F)'
<1>1. PICK v \in VoteRecords : VotesKept(F, v)
  BY DEF ElectionsInv
<1>2. /\ HasVoterQuorum(st[n], votes[n]) /\ UNCHANGED <<st, disk, ballot>>
      /\ role' = [role EXCEPT ![n] = "leader"] /\ votes' = [votes EXCEPT ![n] = {}]
  BY DEF BecomeLeader
<1>3. PICK V \in F : voterMajority(V, votes[n])
  <2>1. voterMajority(st[n].old, votes[n]) \/ voterMajority(st[n].voters, votes[n])
    BY <1>2 DEF HasVoterQuorum
  <2>2. \A A : ~voterMajority({}, A)
    BY DEF voterMajority
  <2> QED BY <2>1, <2>2 DEF Within
<1>4. voterMajority(V, Elected(v, n, ballot[n].term))
  <2>1. V \in SUBSET Nodes /\ votes[n] \subseteq Elected(v, n, ballot[n].term)
    BY <1>1 DEF Neighbours, VotesKept, VotesCounted
  <2> QED BY <1>3, <2>1, MajorityStays
<1>5. role = [k \in Nodes |-> role[k]] /\ votes = [k \in Nodes |-> votes[k]]
  BY <1>1 DEF VotesKept
<1>6. /\ role' = [k \in Nodes |-> role'[k]] /\ votes' = [k \in Nodes |-> votes'[k]]
      /\ \A k \in Nodes : role'[k] = (IF k = n THEN "leader" ELSE role[k]) /\ votes'[k] \subseteq votes[k]
  BY <1>2, <1>5
<1>7. StoresVoted(v)'
  BY <1>1, <1>2 DEF VotesKept, StoresVoted
<1>8. VotesCounted(v)'
  BY <1>1, <1>2, <1>6 DEF VotesKept, VotesCounted
<1>9. LeadersElected(F, v)'
  <2>1. \A k \in Nodes : role'[k] = "leader" => \E X \in F : voterMajority(X, Elected(v, k, ballot[k].term))
    BY <1>1, <1>4, <1>6 DEF VotesKept, LeadersElected
  <2> QED BY <1>2, <2>1 DEF LeadersElected
<1>10. VotesKept(F, v)'
  BY <1>6, <1>7, <1>8, <1>9 DEF VotesKept
<1> QED BY <1>10 DEF ElectionsInv

\* A step that changes one store, keeps its vote, and makes nobody a leader.
LEMMA QuietStep ==
    ASSUME NEW F, JointInv, ElectionsInv(F), NEW n \in Nodes, UNCHANGED ballot, Follows(n) \/ StaysPut,
           \/ UNCHANGED <<st, disk>>
           \/ st' = [st EXCEPT ![n] = disk[n]] /\ UNCHANGED disk
           \/ \E s : /\ KeepsVote(st[n], s) /\ st' = [st EXCEPT ![n] = s]
                     /\ disk' = [disk EXCEPT ![n] = s] \/ disk' = disk
    PROVE  ElectionsInv(F)'
<1>1. PICK v \in VoteRecords : VotesKept(F, v)
  BY DEF ElectionsInv
<1>2. StoresVoted(v) /\ VoteTrue(v, n, st[n]) /\ VoteTrue(v, n, disk[n])
  BY <1>1 DEF VotesKept, StoresVoted
<1>3. StoresVoted(v)'
  <2>1. CASE UNCHANGED <<st, disk>>
    BY <1>2, <2>1 DEF StoresVoted
  <2>2. CASE st' = [st EXCEPT ![n] = disk[n]] /\ UNCHANGED disk
    BY <1>2, <2>2, StoreChanges
  <2>3. CASE \E s : /\ KeepsVote(st[n], s) /\ st' = [st EXCEPT ![n] = s]
                    /\ disk' = [disk EXCEPT ![n] = s] \/ disk' = disk
    <3>1. PICK s : /\ KeepsVote(st[n], s) /\ st' = [st EXCEPT ![n] = s]
                   /\ disk' = [disk EXCEPT ![n] = s] \/ disk' = disk
      BY <2>3
    <3>2. VoteTrue(v, n, s)
      BY <1>2, <3>1, JointParts, VoteStays
    <3> QED BY <1>2, <3>1, <3>2, StoreChanges
  <2> QED BY <2>1, <2>2, <2>3
<1>4. Quiet
  BY <1>1, QuietFollows
<1>5. VotesKept(F, v)'
  BY <1>1, <1>3, <1>4, QuietKeeps
<1> QED BY <1>5 DEF ElectionsInv

\* replicatePeer: a follower's vote is of its term, which only grows.
LEMMA ReplicateVotes ==
    ASSUME NEW F, JointInv, ElectionsInv(F), NEW n \in Nodes, NEW p \in Nodes, NEW next \in Nat, next >= 1,
           replicatePeer(n, p, next)
    PROVE  ElectionsInv(F)'
<1> DEFINE s == AtTerm(st[p], st[n].term)
           merged == Merged(s, st[n], next)
           t == CommitTarget(merged, st[n])
           x == ApplyThrough(merged, t)
<1>1. /\ UNCHANGED ballot /\ (Follows(p) \/ StaysPut)
      /\ \/ UNCHANGED <<st, disk>>
         \/ Persist(p, s)
         \/ st' = [st EXCEPT ![p] = s] /\ UNCHANGED disk
         \/ /\ PrevMatches(s, st[n], next) /\ ~Overwrites(s, st[n], next)
            /\ (st' = [st EXCEPT ![p] = merged] /\ UNCHANGED disk) \/ Persist(p, x)
  BY DEF replicatePeer
<1>2. s \in Stores /\ KeepsVote(st[p], s) /\ StoreTrue(s)
  BY JointParts, StoreFollows, VoteAtTerm DEF StoreTrue
<1> HIDE DEF s
<1>3. CASE UNCHANGED <<st, disk>>
  BY <1>1, <1>3, QuietStep
<1>4. CASE Persist(p, s) \/ (st' = [st EXCEPT ![p] = s] /\ UNCHANGED disk)
  BY <1>1, <1>2, <1>4, QuietStep DEF Persist
<1>5. CASE /\ PrevMatches(s, st[n], next) /\ ~Overwrites(s, st[n], next)
           /\ (st' = [st EXCEPT ![p] = merged] /\ UNCHANGED disk) \/ Persist(p, x)
  <2>1. merged \in Stores
    BY <1>2, <1>5, JointParts, StoreMerges DEF StoreTrue
  <2>2. merged.term = s.term /\ merged.vote = s.vote
    BY <1>2, VoteMerged
  <2> HIDE DEF merged
  <2>3. x.term = s.term /\ x.vote = s.vote
    BY <2>1, <2>2, VoteApplied
  <2> HIDE DEF x, t
  <2>4. KeepsVote(st[p], merged) /\ KeepsVote(st[p], x)
    BY <1>2, <2>2, <2>3 DEF KeepsVote
  <2>5. \E r : /\ KeepsVote(st[p], r) /\ st' = [st EXCEPT ![p] = r]
               /\ disk' = [disk EXCEPT ![p] = r] \/ disk' = disk
    BY <1>5, <2>4 DEF Persist
  <2> QED BY <1>1, <2>5, QuietStep
<1> QED BY <1>1, <1>3, <1>4, <1>5

\* An entry that a leader appends leaves the votes alone.
LEMMA AppendsVotes ==
    ASSUME NEW F, JointInv, ElectionsInv(F), NEW n \in Nodes, NEW type, NEW epoch, NEW old, NEW new, NEW peers,
           Appends(n, type, epoch, old, new, peers)
    PROVE  ElectionsInv(F)'
<1>1. PICK log : Persist(n, [st[n] EXCEPT !.log = log])
  BY DEF Appends
<1>2. KeepsVote(st[n], [st[n] EXCEPT !.log = log])
  BY JointParts DEF KeepsVote, Stores
<1>3. UNCHANGED ballot /\ StaysPut
  BY DEF Appends, runtime, StaysPut
<1> QED BY <1>1, <1>2, <1>3, QuietStep DEF Persist

\* Every step keeps the record of the votes.
LEMMA NextVotes ==
    ASSUME NEW F, Neighbours(F), Within(F), JointInv, ElectionsInv(F), [Next]_vars
    PROVE  ElectionsInv(F)'
<1>1. ASSUME NEW n \in Nodes, BeginElection(n) PROVE ElectionsInv(F)'
  BY <1>1, BeginElectionVotes
<1>2. ASSUME NEW n \in Nodes, BecomeLeader(n) PROVE ElectionsInv(F)'
  BY <1>2, BecomeLeaderVotes
<1>3. ASSUME NEW n \in Nodes, NEW p \in Nodes, RequestVote(n, p) PROVE ElectionsInv(F)'
  BY <1>3, RequestVoteVotes
<1>4. ASSUME NEW n \in Nodes, StepsDown(n) PROVE ElectionsInv(F)'
  <2>1. UNCHANGED <<st, disk>> /\ UNCHANGED ballot /\ Follows(n)
    BY <1>4 DEF StepsDown
  <2> QED BY <2>1, QuietStep
<1>5. ASSUME NEW n \in Nodes, NEW p \in Nodes, ObserveTerm(n, p) PROVE ElectionsInv(F)'
  <2>1. Persist(n, AtTerm(st[n], st[p].term)) /\ UNCHANGED ballot /\ Follows(n)
    BY <1>5 DEF ObserveTerm
  <2>2. KeepsVote(st[n], AtTerm(st[n], st[p].term))
    BY JointParts, VoteAtTerm
  <2> QED BY <2>1, <2>2, QuietStep DEF Persist
<1>6. ASSUME NEW n \in Nodes, AdvanceView(n) \/ Finalize(n) \/ \E new \in VoterSets : ChangeVoters(n, new)
      PROVE  ElectionsInv(F)'
  BY <1>6, AppendsVotes DEF AdvanceView, Finalize, ChangeVoters
<1>7. ASSUME NEW n \in Nodes, CommitWithVoterAcks(n) PROVE ElectionsInv(F)'
  <2>1. Persist(n, ApplyThrough(st[n], change[n].index)) /\ UNCHANGED ballot /\ StaysPut
    BY <1>7 DEF CommitWithVoterAcks, runtime, StaysPut
  <2>2. KeepsVote(st[n], ApplyThrough(st[n], change[n].index))
    BY JointParts, VoteApplied DEF KeepsVote
  <2> QED BY <2>1, <2>2, QuietStep DEF Persist
<1>8. ASSUME NEW n \in Nodes, EndProposal(n) PROVE ElectionsInv(F)'
  <2>1. UNCHANGED <<st, disk>> /\ UNCHANGED ballot /\ (Follows(n) \/ StaysPut)
    BY <1>8 DEF EndProposal
  <2> QED BY <2>1, QuietStep
<1>9. ASSUME NEW n \in Nodes, Restart(n) PROVE ElectionsInv(F)'
  <2>1. st' = [st EXCEPT ![n] = disk[n]] /\ UNCHANGED disk /\ UNCHANGED ballot /\ Follows(n)
    BY <1>9 DEF Restart
  <2> QED BY <2>1, QuietStep
<1>10. ASSUME NEW n \in Nodes, NEW p \in Nodes, NEW next \in 1..(MaxLog + 1), replicatePeer(n, p, next)
       PROVE  ElectionsInv(F)'
  <2>1. next \in Nat /\ next >= 1
    BY <1>10 DEF replicatePeer
  <2> QED BY <1>10, <2>1, ReplicateVotes
<1>11. CASE UNCHANGED vars
  BY <1>11 DEF vars, ElectionsInv, VotesKept, StoresVoted, VotesCounted, LeadersElected
<1> QED BY <1>1, <1>2, <1>3, <1>4, <1>5, <1>6, <1>7, <1>8, <1>9, <1>10, <1>11 DEF Next

LEMMA InitVotes ==
    ASSUME NEW F, Init
    PROVE  ElectionsInv(F)
<1> DEFINE v == [n \in Nodes |-> [t \in Nat |-> Nobody]]
<1>1. v \in VoteRecords
  BY DEF VoteRecords
<1>2. StoresVoted(v)
  BY DEF Init, Configured, StoresVoted, VoteTrue
<1>3. VotesCounted(v) /\ LeadersElected(F, v)
  BY DEF Init, Ballot, VotesCounted, LeadersElected
<1>4. role = [n \in Nodes |-> role[n]] /\ votes = [n \in Nodes |-> votes[n]]
  BY DEF Init
<1> QED BY <1>1, <1>2, <1>3, <1>4 DEF ElectionsInv, VotesKept

-----------------------------------------------------------------------------
(* Theorems *)

\* In every state of every store, in memory and on disk, the committed entries lead to the epoch
\* and the voters in force (applyThroughLocked, AppendEntries, ChangeVoters, Restart).
THEOREM StoresReplay == Spec => []JointInv
  BY InitJoint, NextJoint, PTL DEF Spec

\* Every node can reopen its store at every point of every change of the voters: validateLocked
\* finds the epoch, the voters and the joint configuration that it persisted.
THEOREM ChangesReopen == Spec => []ChangeRestartable
<1>1. JointInv => ChangeRestartable
  BY StoreValid DEF JointInv, ChangeRestartable
<1> QED BY <1>1, StoresReplay, PTL

\* While the voters change by one node, or one learner joins, no term has two winners: as long as
\* every configuration in force, at whatever node, is of sets that differ in one node at most
\* (the joint configuration of ChangeVoters has both), their majorities meet, and a vote that was
\* given is remembered across restarts (RequestVote, campaign, CommitWithVoterAcks).
THEOREM OneLeaderInChange ==
    ASSUME NEW F, Neighbours(F)
    PROVE  Spec /\ []Within(F) => []OneLeaderPerTerm
<1>1. Init => ElectionsInv(F)
  BY InitVotes
<1>2. JointInv /\ Within(F) /\ ElectionsInv(F) /\ [Next]_vars => ElectionsInv(F)'
  BY NextVotes
<1>3. ElectionsInv(F) => OneLeaderPerTerm
  BY ElectionsUnique
<1> QED BY <1>1, <1>2, <1>3, StoresReplay, PTL DEF Spec

=============================================================================
