------------------------- MODULE MetadataRaftProofs -------------------------
(***************************************************************************)
(* Theorems about MetadataRaft, for any voters and bounds: type            *)
(* correctness and election safety, with and without the window between a  *)
(* store call and the change of role that follows it; then, when the role  *)
(* changes with the store call (StepDownWindow FALSE), the safety of the   *)
(* replicated log.                                                         *)
(***************************************************************************)
EXTENDS MetadataRaft, FiniteSetTheorems, WellFoundedInduction, TLAPS

Terms == 0..MaxTerm
AnyView == Views \cup {NoView}
Entries == [term : Terms, epoch : Nat, view : AnyView]
Store == [term : Terms, vote : Nodes \cup {Nobody}, commit : Nat, epoch : Nat,
          view : AnyView, snapIndex : Nat, snapTerm : Terms, snapEpoch : Nat,
          snapView : AnyView, log : Seq(Entries)]
Ballots == [term : Terms, lastIndex : Nat, lastTerm : Terms]
Proposals == [index : Nat, term : Terms, acks : SUBSET Nodes, committed : BOOLEAN]
Messages == [type : {"append", "snapshot"}, from : Nodes, to : Nodes, term : Terms,
             index : Nat, prevTerm : Terms, entries : Seq(Entries), commit : Nat,
             epoch : Nat, view : AnyView]

\* What every store satisfies, in memory and on disk.
StoreOK(s) == /\ s \in Store
              /\ s.snapIndex <= s.commit /\ s.commit <= LastIndex(s)
              /\ LastIndex(s) <= MaxLog
MessageOK(m) == m \in Messages /\ m.index + Len(m.entries) <= MaxLog

RoleType == /\ role \in [Nodes -> {"follower", "candidate", "leader"}]
            /\ stepping \in [Nodes -> BOOLEAN]
StoreType == /\ st \in [Nodes -> Store] /\ disk \in [Nodes -> Store]
             /\ \A n \in Nodes : StoreOK(st[n]) /\ StoreOK(disk[n])
RestType == /\ ballot \in [Nodes -> Ballots]
            /\ votes \in [Nodes -> SUBSET Nodes]
            /\ proposal \in [Nodes -> Proposals \cup {NoProposal}]
            /\ \A m \in msgs : MessageOK(m)
TypeOK == RoleType /\ StoreType /\ RestType

-----------------------------------------------------------------------------
(* Facts about the store's operators *)

\* The bounds are natural numbers.
LEMMA Bounds == /\ MaxTerm \in Nat /\ MaxLog \in Nat /\ Nobody \notin Nodes
                /\ StepDownWindow \in BOOLEAN /\ IsFiniteSet(Nodes)
  BY RaftAssumption

\* A set of numbers has a least element.
LEMMA LeastElement ==
    ASSUME NEW T \in SUBSET Nat, T # {}
    PROVE  \E x \in T : \A y \in T : x <= y
<1> DEFINE R == {p \in Nat \X Nat : p[1] < p[2]}
<1>1. IsWellFoundedOn(R, Nat)
  BY NatLessThanWellFounded, Zenon DEF OpToRel
<1> HIDE DEF R
<1>2. PICK x \in T : \A y \in T : ~(<<y, x>> \in R)
  BY <1>1, WFMin
<1> USE DEF R
<1>3. \A y \in T : <<y, x>> \in R <=> y < x
  OBVIOUS
<1>4. \A y \in T : y \in Nat /\ x \in Nat
  OBVIOUS
<1>5. ASSUME NEW y \in T PROVE x <= y
  <2>1. ~(y < x)
    BY <1>2, <1>3
  <2> QED BY <2>1, <1>4
<1> QED BY <1>5

\* Two sequences joined.
LEMMA Joined ==
    ASSUME NEW S, NEW a \in Seq(S), NEW b \in Seq(S)
    PROVE  /\ a \o b \in Seq(S) /\ Len(a \o b) = Len(a) + Len(b)
           /\ \A i \in 1..Len(a) : (a \o b)[i] = a[i]
           /\ \A i \in 1..Len(b) : (a \o b)[Len(a) + i] = b[i]
  OBVIOUS

\* A part of a sequence, possibly empty.
LEMMA Cut ==
    ASSUME NEW S, NEW a \in Seq(S), NEW from \in Nat, NEW to \in Nat,
           1 <= from, from <= to + 1, to <= Len(a)
    PROVE  /\ SubSeq(a, from, to) \in Seq(S) /\ Len(SubSeq(a, from, to)) = to + 1 - from
           /\ \A i \in 1..(to + 1 - from) : SubSeq(a, from, to)[i] = a[from + i - 1]
  OBVIOUS

\* The terms a store reports are terms.
LEMMA TermAtType ==
    ASSUME NEW s, StoreOK(s), NEW i \in Nat, i \in Retained(s)
    PROVE  TermAt(s, i) \in Terms
<1>1. CASE i = s.snapIndex
  BY <1>1 DEF StoreOK, Store, TermAt
<1>2. CASE i # s.snapIndex
  <2>1. i - s.snapIndex \in 1..Len(s.log)
    BY <1>2 DEF StoreOK, Store, Retained, LastIndex
  <2>2. s.log[i - s.snapIndex] \in Entries
    BY <2>1 DEF StoreOK, Store
  <2> QED BY <1>2, <2>2 DEF TermAt, Entries
<1> QED BY <1>1, <1>2

\* The last index of a store is retained.
LEMMA LastRetained ==
    ASSUME NEW s, StoreOK(s)
    PROVE  /\ LastIndex(s) \in Nat /\ LastIndex(s) \in Retained(s)
           /\ LastTerm(s) \in Terms
<1>1. LastIndex(s) \in Nat /\ LastIndex(s) \in Retained(s)
  BY DEF StoreOK, Store, LastIndex, Retained
<1> QED BY <1>1, TermAtType DEF LastTerm

\* Observing a term changes the term and the vote only (ObserveTerm).
LEMMA AtTermOK ==
    ASSUME NEW s, StoreOK(s), NEW t \in Terms
    PROVE  /\ StoreOK(AtTerm(s, t))
           /\ AtTerm(s, t).term = IF t > s.term THEN t ELSE s.term
           /\ AtTerm(s, t).vote = IF t > s.term THEN Nobody ELSE s.vote
           /\ AtTerm(s, t).log = s.log /\ AtTerm(s, t).commit = s.commit
           /\ AtTerm(s, t).epoch = s.epoch /\ AtTerm(s, t).view = s.view
           /\ AtTerm(s, t).snapIndex = s.snapIndex /\ AtTerm(s, t).snapTerm = s.snapTerm
           /\ AtTerm(s, t).snapEpoch = s.snapEpoch /\ AtTerm(s, t).snapView = s.snapView
           /\ LastIndex(AtTerm(s, t)) = LastIndex(s) /\ LastTerm(AtTerm(s, t)) = LastTerm(s)
  BY Bounds DEF StoreOK, Store, AtTerm, LastIndex, LastTerm, TermAt, Terms

\* The first differing offset is one, and the least.
LEMMA FirstOK ==
    ASSUME NEW s, NEW m, Differing(s, m) # {}
    PROVE  /\ FirstDiffering(s, m) \in Differing(s, m)
           /\ \A j \in Differing(s, m) : FirstDiffering(s, m) <= j
<1>1. Differing(s, m) \in SUBSET Nat
  BY DEF Differing
<1>2. \E k \in Differing(s, m) : \A j \in Differing(s, m) : k <= j
  BY <1>1, LeastElement
<1> QED BY <1>2, Zenon DEF FirstDiffering

\* The entry loop of AppendEntries changes the log only; it replaces what follows
\* the first differing entry by the entries of the request.
LEMMA MergedOK ==
    ASSUME NEW s, StoreOK(s), NEW m, MessageOK(m), PrevMatches(s, m),
           NEW r, r = Merged(s, m)
    PROVE  /\ r \in Store /\ LastIndex(r) <= MaxLog /\ LastIndex(r) \in Nat
           /\ r.term = s.term /\ r.vote = s.vote /\ r.commit = s.commit
           /\ r.epoch = s.epoch /\ r.view = s.view /\ r.snapIndex = s.snapIndex
           /\ r.snapTerm = s.snapTerm /\ r.snapEpoch = s.snapEpoch /\ r.snapView = s.snapView
           /\ \A k \in 1..Len(m.entries) :
                  m.index + k <= LastIndex(r)
           /\ ~OverwritesCommitted(s, m) => StoreOK(r)
<1>1. CASE Differing(s, m) = {}
  <2>1. r = s
    BY <1>1 DEF Merged
  <2>2. \A k \in 1..Len(m.entries) : m.index + k <= LastIndex(s)
    BY <1>1, SMTT(60) DEF Differing, StoreOK, Store, LastIndex, MessageOK, Messages
  <2> QED BY <2>1, <2>2 DEF StoreOK, Store, LastIndex
<1>2. CASE Differing(s, m) # {}
  <2> DEFINE k == FirstDiffering(s, m)
             cut == m.index + k - 1 - s.snapIndex
             a == SubSeq(s.log, 1, cut)
             b == SubSeq(m.entries, k, Len(m.entries))
  <2>1. k \in 1..Len(m.entries)
    BY <1>2, FirstOK DEF Differing
  <2>2. m.index \in Nat /\ m.index >= s.snapIndex /\ m.index <= LastIndex(s)
        /\ s.snapIndex \in Nat /\ Len(s.log) \in Nat /\ Len(m.entries) \in Nat
        /\ s.log \in Seq(Entries) /\ m.entries \in Seq(Entries)
    BY DEF PrevMatches, Retained, MessageOK, Messages, StoreOK, Store, LastIndex
  <2>3. cut \in Nat /\ cut <= Len(s.log)
    <3>1. k = 1 \/ k - 1 \in 1..Len(m.entries)
      BY <2>1, <2>2
    <3>2. CASE k = 1
      BY <3>2, <2>2 DEF LastIndex
    <3>3. CASE k # 1
      <4>1. k - 1 \notin Differing(s, m)
        BY <2>1, <2>2, <1>2, FirstOK
      <4>2. m.index + (k - 1) <= LastIndex(s)
        BY <4>1, <3>1, <3>3, <2>2, <2>1 DEF Differing, LastIndex
      <4> QED BY <4>2, <2>1, <2>2, SMTT(60) DEF LastIndex
    <3> QED BY <3>2, <3>3
  <2>4. a \in Seq(Entries) /\ Len(a) = cut /\ b \in Seq(Entries)
        /\ Len(b) = Len(m.entries) - k + 1
    BY <2>1, <2>2, <2>3
  <2>5. a \o b \in Seq(Entries) /\ Len(a \o b) = m.index + Len(m.entries) - s.snapIndex
    <3>1. a \o b \in Seq(Entries) /\ Len(a \o b) = Len(a) + Len(b)
      BY <2>4, Joined
    <3>2. cut + (Len(m.entries) - k + 1) = m.index + Len(m.entries) - s.snapIndex
      BY <2>1, <2>2
    <3> HIDE DEF a, b, cut
    <3> QED BY <3>1, <3>2, <2>4
  <2>6. r = [s EXCEPT !.log = a \o b]
    BY <1>2, Zenon DEF Merged
  <2>7. r \in Store /\ r.log = a \o b /\ r.snapIndex = s.snapIndex /\ r.commit = s.commit
    BY <2>6, <2>5 DEF StoreOK, Store
  <2>8. LastIndex(r) = m.index + Len(m.entries)
    BY <2>7, <2>5, <2>2, SMTT(60) DEF LastIndex
  <2>9. /\ r.term = s.term /\ r.vote = s.vote
        /\ r.epoch = s.epoch /\ r.view = s.view
        /\ r.snapTerm = s.snapTerm /\ r.snapEpoch = s.snapEpoch /\ r.snapView = s.snapView
    BY <2>6 DEF StoreOK, Store
  <2>10. ASSUME ~OverwritesCommitted(s, m) PROVE StoreOK(r)
    <3>1. ~(m.index + k <= s.commit)
      BY <2>10, <1>2 DEF OverwritesCommitted
    <3>2. s.commit \in Nat /\ s.snapIndex <= s.commit
      BY DEF StoreOK, Store
    <3> QED BY <3>1, <3>2, <2>7, <2>8, <2>1, <2>2, SMTT(60) DEF StoreOK, MessageOK
  <2>11. LastIndex(r) <= MaxLog /\ LastIndex(r) \in Nat
         /\ \A j \in 1..Len(m.entries) : m.index + j <= LastIndex(r)
    BY <2>8, <2>2 DEF MessageOK
  <2> QED BY <2>7, <2>9, <2>10, <2>11
<1> QED BY <1>1, <1>2

\* An entry of the retained log.
LEMMA EntryAtType ==
    ASSUME NEW s, s \in Store, NEW i \in Nat, s.snapIndex < i, i <= LastIndex(s)
    PROVE  EntryAt(s, i) \in Entries
<1>1. i - s.snapIndex \in 1..Len(s.log)
  BY DEF Store, LastIndex
<1> QED BY <1>1 DEF EntryAt, Store

\* applyThroughLocked moves the commit index, the epoch and the view.
LEMMA ApplyOK ==
    ASSUME NEW s, StoreOK(s), NEW c \in Nat, c <= LastIndex(s),
           NEW r, r = ApplyThrough(s, c)
    PROVE  /\ StoreOK(r) /\ LastIndex(r) = LastIndex(s) /\ LastTerm(r) = LastTerm(s)
           /\ r.term = s.term /\ r.vote = s.vote /\ r.log = s.log
           /\ r.snapIndex = s.snapIndex /\ r.snapTerm = s.snapTerm
           /\ r.snapEpoch = s.snapEpoch /\ r.snapView = s.snapView
           /\ r.commit = IF c <= s.commit THEN s.commit ELSE c
           /\ r.epoch = IF c <= s.commit THEN s.epoch ELSE EntryAt(s, c).epoch
           /\ r.view = IF c <= s.commit THEN s.view ELSE EntryAt(s, c).view
<1>1. CASE c <= s.commit
  BY <1>1 DEF ApplyThrough, StoreOK, Store
<1>2. CASE ~(c <= s.commit)
  <2>1. EntryAt(s, c) \in Entries
    BY <1>2, EntryAtType DEF StoreOK, Store
  <2>2. r = [s EXCEPT !.commit = c, !.epoch = EntryAt(s, c).epoch, !.view = EntryAt(s, c).view]
    BY <1>2, Zenon DEF ApplyThrough
  <2>3. EntryAt(s, c).epoch \in Nat /\ EntryAt(s, c).view \in AnyView
    BY <2>1 DEF Entries
  <2>4. /\ r \in Store
        /\ r.term = s.term /\ r.vote = s.vote /\ r.log = s.log
        /\ r.snapIndex = s.snapIndex /\ r.snapTerm = s.snapTerm
        /\ r.snapEpoch = s.snapEpoch /\ r.snapView = s.snapView
        /\ r.commit = c /\ r.epoch = EntryAt(s, c).epoch /\ r.view = EntryAt(s, c).view
    BY <2>2, <2>3 DEF StoreOK, Store
  <2>5. LastIndex(r) = LastIndex(s) /\ LastTerm(r) = LastTerm(s)
    BY <2>4 DEF LastIndex, LastTerm, TermAt
  <2> QED BY <1>2, <2>4, <2>5 DEF StoreOK, Store
<1> QED BY <1>1, <1>2

\* The commit index a request leads to is inside the log.
LEMMA TargetOK ==
    ASSUME NEW s, LastIndex(s) \in Nat, NEW m, MessageOK(m)
    PROVE  CommitTarget(s, m) \in Nat /\ CommitTarget(s, m) <= LastIndex(s)
  BY DEF CommitTarget, MessageOK, Messages

\* A snapshot ahead of the commit index becomes the boundary (InstallSnapshot).
LEMMA InstalledOK ==
    ASSUME NEW s, StoreOK(s), NEW m, MessageOK(m), m.index > s.commit,
           NEW r, r = Installed(s, m)
    PROVE  /\ StoreOK(r) /\ r.term = s.term /\ r.vote = s.vote
           /\ r.snapIndex = m.index /\ r.snapTerm = m.prevTerm /\ r.commit = m.index
           /\ r.snapEpoch = m.epoch /\ r.snapView = m.view /\ r.epoch = m.epoch /\ r.view = m.view
           /\ ~PrevMatches(s, m) => LastIndex(r) = m.index /\ LastTerm(r) = m.prevTerm
           /\ PrevMatches(s, m) =>
                /\ LastIndex(r) = LastIndex(s) /\ LastTerm(r) = LastTerm(s)
                /\ \A i \in (m.index + 1)..LastIndex(s) : EntryAt(r, i) = EntryAt(s, i)
<1> DEFINE from == m.index - s.snapIndex + 1
           kept == IF PrevMatches(s, m) THEN SubSeq(s.log, from, Len(s.log)) ELSE <<>>
<1>1. /\ s.log \in Seq(Entries) /\ s.snapIndex \in Nat /\ s.commit \in Nat
      /\ s.snapIndex <= s.commit /\ m.index \in Nat /\ Len(s.log) \in Nat
      /\ Len(m.entries) \in Nat /\ m.prevTerm \in Terms /\ m.epoch \in Nat /\ m.view \in AnyView
  BY DEF StoreOK, Store, MessageOK, Messages
<1>2. from \in Nat /\ 1 <= from /\ (PrevMatches(s, m) => from <= Len(s.log) + 1)
  BY <1>1 DEF PrevMatches, Retained, LastIndex
<1>3. PrevMatches(s, m) =>
        /\ kept \in Seq(Entries) /\ Len(kept) = Len(s.log) + 1 - from
        /\ \A i \in 1..(Len(s.log) + 1 - from) : kept[i] = s.log[from + i - 1]
  <2> SUFFICES ASSUME PrevMatches(s, m)
               PROVE  /\ kept \in Seq(Entries) /\ Len(kept) = Len(s.log) + 1 - from
                      /\ \A i \in 1..(Len(s.log) + 1 - from) : kept[i] = s.log[from + i - 1]
    OBVIOUS
  <2>1. kept = SubSeq(s.log, from, Len(s.log))
    OBVIOUS
  <2> HIDE DEF kept, from
  <2> QED BY <1>1, <1>2, <2>1, Cut, SMTT(60)
<1>4. ~PrevMatches(s, m) => kept \in Seq(Entries) /\ Len(kept) = 0
  OBVIOUS
<1>5. r = [s EXCEPT !.snapIndex = m.index, !.snapTerm = m.prevTerm, !.snapEpoch = m.epoch,
              !.snapView = m.view, !.commit = m.index, !.epoch = m.epoch, !.view = m.view,
              !.log = kept]
  BY Zenon DEF Installed
<1> HIDE DEF kept
<1>6. /\ r \in Store /\ r.term = s.term /\ r.vote = s.vote /\ r.log = kept
      /\ r.snapIndex = m.index /\ r.snapTerm = m.prevTerm /\ r.commit = m.index
      /\ r.snapEpoch = m.epoch /\ r.snapView = m.view /\ r.epoch = m.epoch /\ r.view = m.view
  BY <1>5, <1>1, <1>3, <1>4, ZenonT(60) DEF StoreOK, Store
<1>7. CASE ~PrevMatches(s, m)
  <2>1. LastIndex(r) = m.index
    BY <1>7, <1>4, <1>6, <1>1 DEF LastIndex
  <2>2. LastTerm(r) = m.prevTerm
    BY <2>1, <1>6 DEF LastTerm, TermAt
  <2> QED BY <1>7, <2>1, <2>2, <1>6, <1>1, Bounds DEF StoreOK, MessageOK
<1>8. CASE PrevMatches(s, m)
  <2>1. LastIndex(r) = LastIndex(s)
    BY <1>8, <1>3, <1>6, <1>1, SMTT(60) DEF LastIndex
  <2>2. \A i \in (m.index + 1)..LastIndex(s) : EntryAt(r, i) = EntryAt(s, i)
    <3> TAKE i \in (m.index + 1)..LastIndex(s)
    <3>1. i - m.index \in 1..(Len(s.log) + 1 - from)
      BY <1>1, SMTT(60) DEF LastIndex
    <3>2. kept[i - m.index] = s.log[from + (i - m.index) - 1]
      BY <1>3, <1>8, <3>1
    <3>3. from + (i - m.index) - 1 = i - s.snapIndex
      BY <1>1, SMTT(60)
    <3> QED BY <3>2, <3>3, <1>6 DEF EntryAt
  <2>3. LastTerm(r) = LastTerm(s)
    <3>1. LastIndex(s) >= m.index /\ LastIndex(s) \in Nat
      BY <1>8, <1>1 DEF PrevMatches, Retained, LastIndex
    <3>2. CASE LastIndex(s) = m.index
      BY <3>2, <2>1, <1>6, <1>8 DEF LastTerm, TermAt, PrevMatches
    <3>3. CASE LastIndex(s) # m.index
      <4>1. EntryAt(r, LastIndex(s)) = EntryAt(s, LastIndex(s))
        BY <2>2, <3>1, <3>3, <1>1
      <4> QED BY <4>1, <2>1, <3>1, <3>3, <1>1, <1>6 DEF LastTerm, TermAt, EntryAt
    <3> QED BY <3>2, <3>3
  <2>4. LastIndex(s) >= m.index /\ LastIndex(s) <= MaxLog
    BY <1>8, <1>1 DEF PrevMatches, Retained, LastIndex, StoreOK
  <2> QED BY <1>8, <2>1, <2>2, <2>3, <2>4, <1>6, <1>1 DEF StoreOK
<1> QED BY <1>7, <1>8

\* Compaction moves the boundary to the commit index (CompactCommitted).
LEMMA CompactOK ==
    ASSUME NEW s, StoreOK(s), NEW r, r = CompactCommitted(s)
    PROVE  /\ StoreOK(r) /\ r.term = s.term /\ r.vote = s.vote /\ r.commit = s.commit
           /\ r.epoch = s.epoch /\ r.view = s.view /\ r.snapIndex = s.commit
           /\ s.commit # s.snapIndex => /\ r.snapTerm = TermAt(s, s.commit)
                                        /\ r.snapEpoch = s.epoch /\ r.snapView = s.view
           /\ s.commit = s.snapIndex => r = s
           /\ LastIndex(r) = LastIndex(s) /\ LastTerm(r) = LastTerm(s)
           /\ \A i \in (s.commit + 1)..LastIndex(s) : EntryAt(r, i) = EntryAt(s, i)
<1>1. CASE s.commit = s.snapIndex
  BY <1>1 DEF CompactCommitted, StoreOK
<1>2. CASE s.commit # s.snapIndex
  <2> DEFINE from == s.commit - s.snapIndex + 1
             kept == SubSeq(s.log, from, Len(s.log))
  <2>1. /\ s.log \in Seq(Entries) /\ s.snapIndex \in Nat /\ s.commit \in Nat
        /\ s.snapIndex < s.commit /\ s.commit <= s.snapIndex + Len(s.log)
        /\ Len(s.log) \in Nat
    BY <1>2 DEF StoreOK, Store, LastIndex
  <2>2. from \in Nat /\ 1 <= from /\ from <= Len(s.log) + 1
    BY <2>1
  <2>3. /\ kept \in Seq(Entries) /\ Len(kept) = Len(s.log) + 1 - from
        /\ \A i \in 1..(Len(s.log) + 1 - from) : kept[i] = s.log[from + i - 1]
    <3> HIDE DEF from
    <3> QED BY <2>1, <2>2, Cut
  <2>4. r = [s EXCEPT !.log = kept, !.snapIndex = s.commit, !.snapTerm = TermAt(s, s.commit),
                      !.snapEpoch = s.epoch, !.snapView = s.view]
    BY <1>2, Zenon DEF CompactCommitted
  <2>5. TermAt(s, s.commit) \in Terms
    BY <2>1, TermAtType DEF StoreOK, Retained, LastIndex
  <2> HIDE DEF kept
  <2>6. /\ r \in Store /\ r.term = s.term /\ r.vote = s.vote /\ r.log = kept
        /\ r.snapIndex = s.commit /\ r.snapTerm = TermAt(s, s.commit) /\ r.commit = s.commit
        /\ r.snapEpoch = s.epoch /\ r.snapView = s.view /\ r.epoch = s.epoch /\ r.view = s.view
    BY <2>4, <2>1, <2>3, <2>5, ZenonT(60) DEF StoreOK, Store
  <2>7. LastIndex(r) = LastIndex(s)
    BY <2>3, <2>6, <2>1, SMTT(60) DEF LastIndex
  <2>8. \A i \in (s.commit + 1)..LastIndex(s) : EntryAt(r, i) = EntryAt(s, i)
    <3> TAKE i \in (s.commit + 1)..LastIndex(s)
    <3>1. i - s.commit \in 1..(Len(s.log) + 1 - from)
      BY <2>1, SMTT(60) DEF LastIndex
    <3>2. kept[i - s.commit] = s.log[from + (i - s.commit) - 1]
      BY <2>3, <3>1
    <3>3. from + (i - s.commit) - 1 = i - s.snapIndex
      BY <2>1
    <3> QED BY <3>2, <3>3, <2>6 DEF EntryAt
  <2>9. LastTerm(r) = LastTerm(s)
    <3>1. LastIndex(s) >= s.commit /\ LastIndex(s) \in Nat
      BY <2>1 DEF LastIndex
    <3>2. CASE LastIndex(s) = s.commit
      BY <3>2, <2>7, <2>6 DEF LastTerm, TermAt
    <3>3. CASE LastIndex(s) # s.commit
      <4>1. EntryAt(r, LastIndex(s)) = EntryAt(s, LastIndex(s))
        BY <2>8, <3>1, <3>3, <2>1
      <4> QED BY <4>1, <2>7, <3>1, <3>3, <2>1, <2>6 DEF LastTerm, TermAt, EntryAt
    <3> QED BY <3>2, <3>3
  <2> QED BY <1>2, <2>1, <2>6, <2>7, <2>8, <2>9 DEF StoreOK
<1> QED BY <1>1, <1>2

-----------------------------------------------------------------------------
(* Every step keeps the types, and most steps leave elections alone *)

\* The term never decreases, and within a term the vote stays.
KeepsVote(s, r) == r.term >= s.term /\ (r.term = s.term => r.vote = s.vote)

\* A step that starts no campaign, casts no vote and wins no election.
Quiet ==
    /\ ballot' = ballot
    /\ \A n \in Nodes :
         /\ votes'[n] \subseteq votes[n]
         /\ role'[n] \in {role[n], "follower"}
         /\ KeepsVote(st[n], st'[n]) \/ st'[n] = disk[n]
         /\ disk'[n] \in {disk[n], st'[n]}

\* A node that persists a valid store.
LEMMA PersistOK ==
    ASSUME StoreType, NEW n \in Nodes, NEW s, StoreOK(s), Persist(n, s)
    PROVE  /\ StoreType' /\ st'[n] = s /\ disk'[n] = s
           /\ \A p \in Nodes \ {n} : st'[p] = st[p] /\ disk'[p] = disk[p]
<1>1. s \in Store
  BY DEF StoreOK
<1>2. st' \in [Nodes -> Store] /\ disk' \in [Nodes -> Store]
  BY <1>1 DEF StoreType, Persist
<1>3. /\ st'[n] = s /\ disk'[n] = s
      /\ \A p \in Nodes \ {n} : st'[p] = st[p] /\ disk'[p] = disk[p]
  BY DEF StoreType, Persist
<1>4. \A p \in Nodes : StoreOK(st'[p]) /\ StoreOK(disk'[p])
  BY <1>3 DEF StoreType
<1> QED BY <1>2, <1>3, <1>4 DEF StoreType, StoreOK, LastIndex

\* Stepping down, at once or later.
LEMMA RoleOK ==
    ASSUME RoleType, NEW n \in Nodes, StepDown(n) \/ StayPut
    PROVE  /\ RoleType'
           /\ \A p \in Nodes : role'[p] \in {role[p], "follower"}
<1>1. CASE StayPut
  BY <1>1 DEF RoleType, StayPut
<1>2. CASE StepDown(n) /\ StepDownWindow
  BY <1>2 DEF RoleType, StepDown
<1>3. CASE StepDown(n) /\ ~StepDownWindow
  BY <1>3 DEF RoleType, StepDown
<1> QED BY <1>1, <1>2, <1>3, Bounds

\* A persisted store that keeps the vote is a quiet store step.
LEMMA QuietPersist ==
    ASSUME StoreType, NEW n \in Nodes, NEW s, StoreOK(s), Persist(n, s), KeepsVote(st[n], s)
    PROVE  \A p \in Nodes : /\ KeepsVote(st[p], st'[p])
                            /\ disk'[p] \in {disk[p], st'[p]}
<1>1. /\ st'[n] = s /\ disk'[n] = s
      /\ \A p \in Nodes \ {n} : st'[p] = st[p] /\ disk'[p] = disk[p]
  BY PersistOK
<1>2. \A p \in Nodes : st[p].term \in Nat
  BY Bounds DEF StoreType, Store, Terms
<1> QED BY <1>1, <1>2 DEF KeepsVote

\* Observing a term keeps the vote of that term.
LEMMA AtTermKeeps ==
    ASSUME NEW s, StoreOK(s), NEW t \in Terms, NEW r,
           r.term = AtTerm(s, t).term, r.vote = AtTerm(s, t).vote
    PROVE  KeepsVote(s, r)
<1>1. s.term \in Nat /\ t \in Nat
  BY Bounds DEF StoreOK, Store, Terms
<1> QED BY <1>1, AtTermOK DEF KeepsVote

\* Terms are natural numbers.
LEMMA TermsNat ==
    ASSUME TypeOK, NEW n \in Nodes
    PROVE  /\ st[n].term \in Terms /\ disk[n].term \in Terms /\ ballot[n].term \in Terms
           /\ st[n].term \in Nat /\ disk[n].term \in Nat /\ ballot[n].term \in Nat
<1>1. st[n] \in Store /\ disk[n] \in Store /\ ballot[n] \in Ballots
  BY DEF TypeOK, StoreType, RestType
<1>2. st[n].term \in Terms /\ disk[n].term \in Terms /\ ballot[n].term \in Terms
  BY <1>1 DEF Store, Ballots
<1> QED BY <1>2, Bounds DEF Terms

\* The deferred change of role.
LEMMA TypeFollower ==
    ASSUME TypeOK, NEW n \in Nodes, becomeFollower(n) \/ expireLeaderWithoutQuorum(n)
    PROVE  TypeOK' /\ Quiet
<1>1. RoleType' /\ \A p \in Nodes : role'[p] \in {role[p], "follower"}
  BY DEF TypeOK, RoleType, becomeFollower, expireLeaderWithoutQuorum
<1>2. UNCHANGED <<st, disk, ballot, votes, proposal, msgs>>
  BY DEF becomeFollower, expireLeaderWithoutQuorum
<1>3. StoreType' /\ RestType'
  BY <1>2 DEF TypeOK, StoreType, RestType, StoreOK, LastIndex, MessageOK
<1>4. \A p \in Nodes : KeepsVote(st[p], st'[p])
  BY <1>2, Bounds DEF TypeOK, StoreType, Store, Terms, KeepsVote
<1> QED BY <1>1, <1>2, <1>3, <1>4 DEF TypeOK, Quiet

\* A reply with a higher term.
LEMMA TypeObserve ==
    ASSUME TypeOK, NEW n \in Nodes, NEW p \in Nodes, ObserveTerm(n, p)
    PROVE  TypeOK' /\ Quiet
<1> DEFINE s == AtTerm(st[n], st[p].term)
<1>1. StoreOK(st[n]) /\ st[p].term \in Terms /\ StoreType /\ RoleType
  BY DEF TypeOK, StoreType, Store
<1>2. StoreOK(s) /\ KeepsVote(st[n], s)
  BY <1>1, AtTermOK, AtTermKeeps
<1>3. Persist(n, s) /\ (StepDown(n) \/ StayPut) /\ UNCHANGED <<ballot, votes, proposal, msgs>>
  BY DEF ObserveTerm
<1> HIDE DEF s
<1>4. StoreType'
  BY <1>1, <1>2, <1>3, PersistOK
<1>5. RoleType' /\ \A q \in Nodes : role'[q] \in {role[q], "follower"}
  BY <1>1, <1>3, RoleOK
<1>6. RestType'
  BY <1>3 DEF TypeOK, RestType, MessageOK
<1>7. \A q \in Nodes : KeepsVote(st[q], st'[q]) /\ disk'[q] \in {disk[q], st'[q]}
  BY <1>1, <1>2, <1>3, QuietPersist
<1> QED BY <1>3, <1>4, <1>5, <1>6, <1>7 DEF TypeOK, Quiet

\* A request is put in flight.
LEMMA TypeReplicate ==
    ASSUME TypeOK, NEW n \in Nodes, NEW p \in Nodes, NEW next \in 1..(MaxLog + 1),
           replicatePeer(n, p, next)
    PROVE  TypeOK' /\ Quiet
<1> DEFINE s == st[n]
           snap == [type |-> "snapshot", from |-> n, to |-> p, term |-> s.term,
                    index |-> s.snapIndex, prevTerm |-> s.snapTerm, entries |-> <<>>,
                    commit |-> s.snapIndex, epoch |-> s.snapEpoch, view |-> s.snapView]
           app == [type |-> "append", from |-> n, to |-> p, term |-> s.term,
                   index |-> next - 1, prevTerm |-> TermAt(s, next - 1),
                   entries |-> SubSeq(s.log, next - s.snapIndex, Len(s.log)),
                   commit |-> s.commit, epoch |-> 0, view |-> NoView]
<1>1. UNCHANGED <<st, disk, role, stepping, ballot, votes, proposal>>
  BY DEF replicatePeer
<1>2. /\ StoreOK(s) /\ s \in Store /\ next \in 1..(LastIndex(s) + 1)
      /\ s.log \in Seq(Entries) /\ s.snapIndex \in Nat /\ Len(s.log) \in Nat
      /\ s.snapIndex <= LastIndex(s) /\ LastIndex(s) <= MaxLog /\ LastIndex(s) = s.snapIndex + Len(s.log)
  BY DEF TypeOK, StoreType, replicatePeer, StoreOK, Store, LastIndex
<1>3. ASSUME next <= s.snapIndex PROVE \A m \in msgs' : MessageOK(m)
  <2>1. msgs' = msgs \cup {snap}
    BY <1>3 DEF replicatePeer
  <2>2. snap \in Messages
    <3>1. <<>> \in Seq(Entries)
      OBVIOUS
    <3> QED BY <3>1, <1>2 DEF Messages, Store
  <2>3. snap.index = s.snapIndex /\ snap.entries = <<>>
    OBVIOUS
  <2> HIDE DEF snap
  <2>4. MessageOK(snap)
    BY <2>2, <2>3, <1>2, Bounds DEF MessageOK
  <2> QED BY <2>1, <2>4 DEF TypeOK, RestType
<1>4. ASSUME ~(next <= s.snapIndex) PROVE \A m \in msgs' : MessageOK(m)
  <2>1. msgs' = msgs \cup {app}
    BY <1>4 DEF replicatePeer
  <2>2. /\ next - s.snapIndex \in Nat /\ 1 <= next - s.snapIndex
        /\ next - s.snapIndex <= Len(s.log) + 1 /\ next - 1 \in Nat
        /\ next - 1 \in Retained(s)
    BY <1>2, <1>4, SMTT(60) DEF Retained
  <2>3. /\ app.entries \in Seq(Entries)
        /\ Len(app.entries) = Len(s.log) + 1 - (next - s.snapIndex)
    <3> DEFINE f == next - s.snapIndex
    <3>1. app.entries = SubSeq(s.log, f, Len(s.log))
      OBVIOUS
    <3> HIDE DEF f, app
    <3>2. f \in Nat /\ 1 <= f /\ f <= Len(s.log) + 1
      BY <2>2 DEF f
    <3>3. app.entries \in Seq(Entries) /\ Len(app.entries) = Len(s.log) + 1 - f
      BY <3>1, <3>2, <1>2, Cut, SMTT(60)
    <3> QED BY <3>3 DEF f
  <2>4. TermAt(s, next - 1) \in Terms
    BY <2>2, <1>2, TermAtType
  <2>5. app \in Messages
    BY <2>3, <2>4, <2>2, <1>2 DEF Messages, Store, AnyView
  <2>6. app.index = next - 1
    OBVIOUS
  <2> HIDE DEF app
  <2>7. MessageOK(app)
    BY <2>5, <2>6, <2>3, <1>2, Bounds, SMTT(60) DEF MessageOK
  <2> QED BY <2>1, <2>7 DEF TypeOK, RestType
<1>5. \A m \in msgs' : MessageOK(m)
  BY <1>3, <1>4
<1>6. TypeOK'
  BY <1>1, <1>5 DEF TypeOK, RoleType, StoreType, RestType, StoreOK, LastIndex, MessageOK
<1>7. \A q \in Nodes : KeepsVote(st[q], st'[q])
  BY <1>1, Bounds DEF TypeOK, StoreType, Store, Terms, KeepsVote
<1> QED BY <1>1, <1>6, <1>7 DEF Quiet

\* A successful reply is counted for the proposal of its sender.
LEMMA AcknowledgeOK ==
    ASSUME TypeOK, NEW m \in msgs, NEW i, Acknowledge(m, i)
    PROVE  proposal' \in [Nodes -> Proposals \cup {NoProposal}]
<1>1. m.from \in Nodes /\ m.to \in Nodes /\ proposal \in [Nodes -> Proposals \cup {NoProposal}]
  BY DEF TypeOK, RestType, MessageOK, Messages
<1>2. CASE proposal' = proposal
  BY <1>1, <1>2
<1>3. CASE proposal' # proposal
  <2>1. /\ proposal[m.from] # NoProposal
        /\ proposal' = [proposal EXCEPT ![m.from].acks = @ \cup {m.to}]
    BY <1>3 DEF Acknowledge
  <2>2. proposal[m.from] \in Proposals
    BY <1>1, <2>1
  <2>3. [proposal[m.from] EXCEPT !.acks = @ \cup {m.to}] \in Proposals
    BY <2>2, <1>1 DEF Proposals
  <2> QED BY <2>1, <2>3, <1>1
<1> QED BY <1>2, <1>3

\* AppendEntries: refused, failed half way or done.
LEMMA TypeAppend ==
    ASSUME TypeOK, NEW m \in msgs, AppendEntries(m)
    PROVE  TypeOK' /\ Quiet
<1> DEFINE n == m.to
           s == AtTerm(st[n], m.term)
           g == Merged(s, m)
           done == ApplyThrough(g, CommitTarget(g, m))
<1>1. /\ n \in Nodes /\ m.term \in Terms /\ MessageOK(m) /\ StoreOK(st[n])
      /\ RoleType /\ StoreType /\ st \in [Nodes -> Store]
  BY DEF TypeOK, RestType, StoreType, MessageOK, Messages
<1>2. StoreOK(s)
  BY <1>1, AtTermOK
<1>3. UNCHANGED <<ballot, votes>> /\ msgs' = msgs \ {m}
  BY DEF AppendEntries
<1>4. (StepDown(n) \/ StayPut)
  BY DEF AppendEntries
<1>5. RoleType' /\ \A p \in Nodes : role'[p] \in {role[p], "follower"}
  BY <1>1, <1>4, RoleOK
<1>6. proposal' \in [Nodes -> Proposals \cup {NoProposal}]
  <2>1. UNCHANGED proposal \/ Acknowledge(m, m.index + Len(m.entries))
    BY DEF AppendEntries
  <2> QED BY <2>1, AcknowledgeOK DEF TypeOK, RestType
<1>7. RestType'
  BY <1>3, <1>6 DEF TypeOK, RestType, MessageOK
<1>8. StoreType' /\ \A p \in Nodes : /\ KeepsVote(st[p], st'[p])
                                     /\ disk'[p] \in {disk[p], st'[p]}
  <2>1. CASE ~PrevMatches(s, m) /\ Persist(n, s)
    <3>1. KeepsVote(st[n], s)
      BY <1>1, AtTermKeeps
    <3> HIDE DEF s, n
    <3> QED BY <2>1, <3>1, <1>1, <1>2, PersistOK, QuietPersist
  <2>2. CASE /\ PrevMatches(s, m) /\ AppendFails(s, m)
             /\ st' = [st EXCEPT ![n] = LeftInMemory(s, m)] /\ UNCHANGED disk
    <3> DEFINE r == LeftInMemory(s, m)
    <3>3. StoreOK(r) /\ r.term = s.term /\ r.vote = s.vote
      <4>1. CASE OverwritesCommitted(s, m)
        BY <4>1, <1>2 DEF LeftInMemory
      <4>2. CASE ~OverwritesCommitted(s, m)
        <5>1. r = g
          BY <4>2 DEF LeftInMemory
        <5> HIDE DEF r, s
        <5> QED BY <5>1, <1>1, <1>2, <2>2, <4>2, MergedOK
      <4> QED BY <4>1, <4>2
    <3>4. KeepsVote(st[n], r)
      <4> HIDE DEF r
      <4> QED BY <3>3, <1>1, AtTermKeeps
    <3>5. r \in Store /\ st'[n] = r /\ \A p \in Nodes \ {n} : st'[p] = st[p]
      BY <3>3, <2>2, <1>1 DEF StoreOK
    <3> HIDE DEF r, n
    <3>6. \A p \in Nodes : KeepsVote(st[p], st'[p])
      <4>1. \A p \in Nodes : st[p].term \in Nat
        BY Bounds DEF TypeOK, StoreType, Store, Terms
      <4> QED BY <3>5, <3>4, <4>1 DEF KeepsVote
    <3>7. StoreType'
      <4>1. st' \in [Nodes -> Store]
        BY <2>2, <3>5, <1>1
      <4>2. \A p \in Nodes : StoreOK(st'[p])
        BY <3>5, <3>3 DEF TypeOK, StoreType
      <4> QED BY <4>1, <4>2, <2>2 DEF TypeOK, StoreType, StoreOK, LastIndex
    <3> QED BY <3>6, <3>7, <2>2
  <2>3. CASE PrevMatches(s, m) /\ ~AppendFails(s, m) /\ Persist(n, done)
    <3>1. ~OverwritesCommitted(s, m)
      BY <2>3 DEF AppendFails
    <3>2. StoreOK(g) /\ g.term = s.term /\ g.vote = s.vote /\ LastIndex(g) \in Nat
      <4> HIDE DEF s
      <4> QED BY <1>1, <1>2, <2>3, <3>1, MergedOK
    <3>3. CommitTarget(g, m) \in Nat /\ CommitTarget(g, m) <= LastIndex(g)
      <4> HIDE DEF g
      <4> QED BY <3>2, <1>1, TargetOK
    <3>4. StoreOK(done) /\ done.term = s.term /\ done.vote = s.vote
      <4> HIDE DEF g
      <4> QED BY <3>2, <3>3, ApplyOK
    <3>5. KeepsVote(st[n], done)
      <4> HIDE DEF done
      <4> QED BY <3>4, <1>1, AtTermKeeps
    <3> HIDE DEF done, n
    <3> QED BY <2>3, <3>4, <3>5, <1>1, PersistOK, QuietPersist
  <2> QED BY <2>1, <2>2, <2>3 DEF AppendEntries
<1> QED BY <1>3, <1>5, <1>7, <1>8 DEF TypeOK, Quiet

\* InstallSnapshot: behind the commit index or ahead of it.
LEMMA TypeInstall ==
    ASSUME TypeOK, NEW m \in msgs, InstallSnapshot(m)
    PROVE  TypeOK' /\ Quiet
<1> DEFINE n == m.to
           s == AtTerm(st[n], m.term)
<1>1. /\ n \in Nodes /\ m.term \in Terms /\ MessageOK(m) /\ StoreOK(st[n])
      /\ RoleType /\ StoreType
  BY DEF TypeOK, RestType, StoreType, MessageOK, Messages
<1>2. StoreOK(s) /\ s.commit \in Nat
  BY <1>1, AtTermOK DEF StoreOK, Store
<1>3. UNCHANGED <<ballot, votes>> /\ msgs' = msgs \ {m} /\ StepDown(n)
  BY DEF InstallSnapshot
<1>4. RoleType' /\ \A p \in Nodes : role'[p] \in {role[p], "follower"}
  BY <1>1, <1>3, RoleOK
<1>5. proposal' \in [Nodes -> Proposals \cup {NoProposal}]
  <2>1. \E i : Acknowledge(m, i)
    BY DEF InstallSnapshot
  <2> QED BY <2>1, AcknowledgeOK
<1>6. RestType'
  BY <1>3, <1>5 DEF TypeOK, RestType, MessageOK
<1>7. PICK r : Persist(n, r) /\ StoreOK(r) /\ r.term = s.term /\ r.vote = s.vote
  <2>1. CASE m.index <= s.commit /\ Persist(n, s)
    BY <2>1, <1>2
  <2>2. CASE m.index > s.commit /\ Persist(n, Installed(s, m))
    <3> HIDE DEF s
    <3> QED BY <2>2, <1>1, <1>2, InstalledOK
  <2> QED BY <2>1, <2>2 DEF InstallSnapshot
<1>8. KeepsVote(st[n], r)
  BY <1>1, <1>7, AtTermKeeps
<1>9. StoreType' /\ \A p \in Nodes : /\ KeepsVote(st[p], st'[p])
                                     /\ disk'[p] \in {disk[p], st'[p]}
  <2> HIDE DEF n
  <2> QED BY <1>1, <1>7, <1>8, PersistOK, QuietPersist
<1> QED BY <1>3, <1>4, <1>6, <1>9 DEF TypeOK, Quiet

\* A request disappears.
LEMMA TypeLose ==
    ASSUME TypeOK, NEW m \in msgs, Lose(m)
    PROVE  TypeOK' /\ Quiet
<1>1. UNCHANGED <<st, disk, role, stepping, ballot, votes, proposal>> /\ msgs' \subseteq msgs
  BY DEF Lose
<1>2. TypeOK'
  BY <1>1 DEF TypeOK, RoleType, StoreType, RestType, StoreOK, LastIndex, MessageOK
<1>3. \A q \in Nodes : KeepsVote(st[q], st'[q])
  BY <1>1, Bounds DEF TypeOK, StoreType, Store, Terms, KeepsVote
<1> QED BY <1>1, <1>2, <1>3 DEF Quiet

\* The store a proposal leaves: the same, or one entry longer.
LEMMA AppendedOK ==
    ASSUME NEW s, StoreOK(s), NEW view \in Views, LastIndex(s) < MaxLog,
           NEW x, x = Entry(s.term, s.epoch + 1, view),
           NEW r, r = [s EXCEPT !.log = Append(@, x)]
    PROVE  /\ x \in Entries /\ StoreOK(r) /\ r.log = Append(s.log, x)
           /\ r.term = s.term /\ r.vote = s.vote /\ r.commit = s.commit
           /\ r.epoch = s.epoch /\ r.view = s.view /\ r.snapIndex = s.snapIndex
           /\ r.snapTerm = s.snapTerm /\ r.snapEpoch = s.snapEpoch /\ r.snapView = s.snapView
           /\ LastIndex(r) = LastIndex(s) + 1 /\ LastTerm(r) = s.term
           /\ EntryAt(r, LastIndex(s) + 1) = x
           /\ \A i \in (s.snapIndex + 1)..LastIndex(s) : EntryAt(r, i) = EntryAt(s, i)
<1>1. /\ s \in Store /\ s.log \in Seq(Entries) /\ s.snapIndex \in Nat /\ s.epoch \in Nat
      /\ s.term \in Terms /\ s.commit \in Nat /\ Len(s.log) \in Nat
      /\ s.snapIndex <= s.commit /\ s.commit <= s.snapIndex + Len(s.log)
  BY DEF StoreOK, Store, LastIndex
<1>2. x \in Entries /\ x.term = s.term
  BY <1>1 DEF Entry, Entries, AnyView
<1>3. /\ Append(s.log, x) \in Seq(Entries) /\ Len(Append(s.log, x)) = Len(s.log) + 1
      /\ Append(s.log, x)[Len(s.log) + 1] = x
      /\ \A i \in 1..Len(s.log) : Append(s.log, x)[i] = s.log[i]
  BY <1>1, <1>2
<1>4. /\ r \in Store /\ r.log = Append(s.log, x)
      /\ r.term = s.term /\ r.vote = s.vote /\ r.commit = s.commit
      /\ r.epoch = s.epoch /\ r.view = s.view /\ r.snapIndex = s.snapIndex
      /\ r.snapTerm = s.snapTerm /\ r.snapEpoch = s.snapEpoch /\ r.snapView = s.snapView
  BY <1>1, <1>3 DEF Store
<1>5. LastIndex(r) = LastIndex(s) + 1
  <2>1. LastIndex(r) = s.snapIndex + (Len(s.log) + 1)
    BY <1>4, <1>3 DEF LastIndex
  <2> QED BY <2>1, <1>1, SMTT(60) DEF LastIndex
<1>6. EntryAt(r, LastIndex(s) + 1) = x
  BY <1>4, <1>3, <1>1 DEF LastIndex, EntryAt
<1>7. \A i \in (s.snapIndex + 1)..LastIndex(s) : EntryAt(r, i) = EntryAt(s, i)
  BY <1>4, <1>3, <1>1, SMTT(60) DEF LastIndex, EntryAt
<1>8. LastTerm(r) = s.term
  BY <1>5, <1>6, <1>2, <1>4, <1>1, SMTT(60) DEF LastTerm, TermAt, EntryAt, LastIndex
<1>9. StoreOK(r)
  BY <1>1, <1>4, <1>5, Bounds, SMTT(60) DEF StoreOK, LastIndex
<1> QED BY <1>2, <1>4, <1>5, <1>6, <1>7, <1>8, <1>9

\* A proposal is appended to the leader's log.
LEMMA TypePropose ==
    ASSUME TypeOK, NEW n \in Nodes, NEW view \in Views, Propose(n, view)
    PROVE  TypeOK' /\ Quiet
<1> DEFINE s == st[n]
           x == Entry(s.term, s.epoch + 1, view)
           again == LastIndex(s) > s.commit /\ Last(s.log) = x
           r == IF again THEN s ELSE [s EXCEPT !.log = Append(@, x)]
<1>1. /\ UNCHANGED <<role, stepping, ballot, votes, msgs>> /\ Persist(n, r)
      /\ LastIndex(s) < MaxLog \/ again
      /\ proposal' = [proposal EXCEPT ![n] =
             [index |-> LastIndex(s) + (IF again THEN 0 ELSE 1),
              term |-> s.term, acks |-> {n}, committed |-> FALSE]]
  BY DEF Propose
<1>2. StoreOK(s) /\ StoreType /\ s.term \in Terms /\ s.term \in Nat /\ LastIndex(s) \in Nat
  <2>1. StoreOK(s) /\ StoreType /\ s.term \in Terms /\ s.term \in Nat
    BY Bounds, SMTT(60) DEF TypeOK, StoreType, Store, Terms
  <2> QED BY <2>1, LastRetained
<1>3. StoreOK(r) /\ r.term = s.term /\ r.vote = s.vote
  <2>1. CASE again
    BY <2>1, <1>2
  <2>2. CASE ~again
    <3>1. LastIndex(s) < MaxLog /\ r = [s EXCEPT !.log = Append(@, x)]
      BY <1>1, <2>2
    <3> HIDE DEF s, r, x
    <3> QED BY <3>1, <1>2, AppendedOK DEF x
  <2> QED BY <2>1, <2>2
<1>4. KeepsVote(s, r)
  BY <1>2, <1>3 DEF KeepsVote
<1>5. proposal' \in [Nodes -> Proposals \cup {NoProposal}]
  <2>1. LastIndex(s) + (IF again THEN 0 ELSE 1) \in Nat
    BY <1>2
  <2>2. [index |-> LastIndex(s) + (IF again THEN 0 ELSE 1),
         term |-> s.term, acks |-> {n}, committed |-> FALSE] \in Proposals
    <3> HIDE DEF again, s
    <3> QED BY <2>1, <1>2 DEF Proposals
  <2> HIDE DEF again
  <2> QED BY <1>1, <2>2 DEF TypeOK, RestType
<1>6. RoleType' /\ RestType'
  BY <1>1, <1>5 DEF TypeOK, RoleType, RestType, MessageOK
<1> HIDE DEF r
<1>7. StoreType' /\ \A p \in Nodes : /\ KeepsVote(st[p], st'[p])
                                     /\ disk'[p] \in {disk[p], st'[p]}
  BY <1>1, <1>2, <1>3, <1>4, PersistOK, QuietPersist
<1> QED BY <1>1, <1>6, <1>7 DEF TypeOK, Quiet

\* The leader commits.
LEMMA TypeCommit ==
    ASSUME TypeOK, NEW n \in Nodes, CommitWithVoterAcks(n)
    PROVE  TypeOK' /\ Quiet
<1> DEFINE s == st[n]
           p == proposal[n]
           r == ApplyThrough(s, p.index)
<1>1. /\ UNCHANGED <<role, stepping, ballot, votes, msgs>> /\ Persist(n, r)
      /\ proposal[n] # NoProposal /\ p.index <= LastIndex(s)
      /\ proposal' = [proposal EXCEPT ![n].committed = TRUE]
  BY DEF CommitWithVoterAcks, Committable
<1>2. StoreOK(s) /\ StoreType /\ s.term \in Nat /\ p \in Proposals /\ p.index \in Nat
  BY <1>1, Bounds, SMTT(60) DEF TypeOK, StoreType, RestType, Store, Terms, Proposals
<1>3. StoreOK(r) /\ r.term = s.term /\ r.vote = s.vote
  <2> HIDE DEF s, p
  <2> QED BY <1>1, <1>2, ApplyOK
<1>4. KeepsVote(s, r)
  BY <1>2, <1>3 DEF KeepsVote
<1>5. proposal' \in [Nodes -> Proposals \cup {NoProposal}]
  <2>1. [p EXCEPT !.committed = TRUE] \in Proposals
    BY <1>2 DEF Proposals
  <2> QED BY <1>1, <2>1 DEF TypeOK, RestType
<1>6. RoleType' /\ RestType'
  BY <1>1, <1>5 DEF TypeOK, RoleType, RestType, MessageOK
<1> HIDE DEF r
<1>7. StoreType' /\ \A q \in Nodes : /\ KeepsVote(st[q], st'[q])
                                     /\ disk'[q] \in {disk[q], st'[q]}
  BY <1>1, <1>2, <1>3, <1>4, PersistOK, QuietPersist
<1> QED BY <1>1, <1>6, <1>7 DEF TypeOK, Quiet

\* A proposal ends, with or without compaction.
LEMMA TypeEnd ==
    ASSUME TypeOK, NEW n \in Nodes, EndPropose(n)
    PROVE  TypeOK' /\ Quiet
<1> DEFINE s == st[n]
           r == CompactCommitted(s)
<1>1. /\ UNCHANGED <<role, stepping, ballot, votes, msgs>>
      /\ Persist(n, r) \/ UNCHANGED <<st, disk>>
      /\ proposal' = [proposal EXCEPT ![n] = NoProposal]
  BY DEF EndPropose
<1>2. StoreOK(s) /\ StoreType /\ \A q \in Nodes : st[q].term \in Nat
  BY Bounds, SMTT(60) DEF TypeOK, StoreType, Store, Terms
<1>3. StoreOK(r) /\ r.term = s.term /\ r.vote = s.vote
  <2> HIDE DEF s
  <2> QED BY <1>2, CompactOK
<1>4. KeepsVote(s, r)
  BY <1>2, <1>3 DEF KeepsVote
<1>5. RoleType' /\ RestType'
  BY <1>1 DEF TypeOK, RoleType, RestType, MessageOK
<1> HIDE DEF r
<1>6. StoreType' /\ \A q \in Nodes : /\ KeepsVote(st[q], st'[q])
                                     /\ disk'[q] \in {disk[q], st'[q]}
  <2>1. CASE Persist(n, r)
    BY <2>1, <1>2, <1>3, <1>4, PersistOK, QuietPersist
  <2>2. CASE UNCHANGED <<st, disk>>
    BY <2>2, <1>2 DEF StoreType, StoreOK, LastIndex, KeepsVote
  <2> QED BY <1>1, <2>1, <2>2
<1> QED BY <1>1, <1>5, <1>6 DEF TypeOK, Quiet

\* A node stops and reads its store again.
LEMMA TypeRestart ==
    ASSUME TypeOK, NEW n \in Nodes, Restart(n)
    PROVE  TypeOK' /\ Quiet
<1>1. /\ UNCHANGED <<disk, ballot, msgs>> /\ st' = [st EXCEPT ![n] = disk[n]]
      /\ role' = [role EXCEPT ![n] = "follower"] /\ stepping' = [stepping EXCEPT ![n] = FALSE]
      /\ votes' = [votes EXCEPT ![n] = {}] /\ proposal' = [proposal EXCEPT ![n] = NoProposal]
  BY DEF Restart
<1>2. RoleType' /\ RestType'
  BY <1>1 DEF TypeOK, RoleType, RestType, MessageOK
<1>3. \A q \in Nodes : st'[q] = IF q = n THEN disk[n] ELSE st[q]
  BY <1>1 DEF TypeOK, StoreType
<1>4. StoreType'
  <2>1. st' \in [Nodes -> Store] /\ disk' = disk
    BY <1>1 DEF TypeOK, StoreType
  <2>2. \A q \in Nodes : StoreOK(st'[q])
    BY <1>3 DEF TypeOK, StoreType
  <2> QED BY <2>1, <2>2 DEF TypeOK, StoreType, StoreOK, LastIndex
<1>5. \A q \in Nodes : KeepsVote(st[q], st'[q]) \/ st'[q] = disk[q]
  <2>1. \A q \in Nodes : st[q].term \in Nat
    BY Bounds DEF TypeOK, StoreType, Store, Terms
  <2> QED BY <1>3, <2>1 DEF KeepsVote
<1>6. \A q \in Nodes : votes'[q] \subseteq votes[q] /\ role'[q] \in {role[q], "follower"}
  BY <1>1 DEF TypeOK, RoleType, RestType
<1> QED BY <1>1, <1>2, <1>4, <1>5, <1>6 DEF TypeOK, Quiet

\* A campaign begins: a new term and the node's own vote.
LEMMA TypeBegin ==
    ASSUME TypeOK, NEW n \in Nodes, BeginElection(n)
    PROVE  /\ TypeOK'
           /\ LET s == [st[n] EXCEPT !.term = @ + 1, !.vote = n] IN
              /\ StoreOK(s) /\ s.term = st[n].term + 1 /\ s.vote = n
              /\ st'[n] = s /\ disk'[n] = s
              /\ \A p \in Nodes \ {n} : st'[p] = st[p] /\ disk'[p] = disk[p]
              /\ LastIndex(s) = LastIndex(st[n]) /\ LastTerm(s) = LastTerm(st[n])
              /\ s.log = st[n].log /\ s.snapIndex = st[n].snapIndex /\ s.snapTerm = st[n].snapTerm
              /\ s.commit = st[n].commit /\ s.epoch = st[n].epoch /\ s.view = st[n].view
              /\ s.snapEpoch = st[n].snapEpoch /\ s.snapView = st[n].snapView
           /\ ballot' = [ballot EXCEPT ![n] = [term |-> st[n].term + 1,
                           lastIndex |-> LastIndex(st[n]), lastTerm |-> LastTerm(st[n])]]
<1> DEFINE s == [st[n] EXCEPT !.term = @ + 1, !.vote = n]
           b == [term |-> s.term, lastIndex |-> LastIndex(s), lastTerm |-> LastTerm(s)]
<1>1. /\ Persist(n, s) /\ ballot' = [ballot EXCEPT ![n] = b]
      /\ role' = [role EXCEPT ![n] = "candidate"] /\ votes' = [votes EXCEPT ![n] = {n}]
      /\ UNCHANGED <<stepping, proposal, msgs>> /\ st[n].term < MaxTerm
  BY DEF BeginElection
<1>2. StoreOK(st[n]) /\ st[n] \in Store /\ StoreType
  BY DEF TypeOK, StoreType
<1>3. st[n].term + 1 \in Terms
  BY <1>1, <1>2, Bounds, SMTT(60) DEF Store, Terms
<1>4. /\ s \in Store /\ s.term = st[n].term + 1 /\ s.vote = n
      /\ s.log = st[n].log /\ s.snapIndex = st[n].snapIndex /\ s.snapTerm = st[n].snapTerm
      /\ s.commit = st[n].commit /\ s.epoch = st[n].epoch /\ s.view = st[n].view
      /\ s.snapEpoch = st[n].snapEpoch /\ s.snapView = st[n].snapView
  BY <1>2, <1>3 DEF Store
<1> HIDE DEF s
<1>5. LastIndex(s) = LastIndex(st[n]) /\ LastTerm(s) = LastTerm(st[n])
  BY <1>4 DEF LastIndex, LastTerm, TermAt
<1>6. StoreOK(s)
  BY <1>2, <1>4, <1>5 DEF StoreOK
<1>7. /\ StoreType' /\ st'[n] = s /\ disk'[n] = s
      /\ \A p \in Nodes \ {n} : st'[p] = st[p] /\ disk'[p] = disk[p]
  BY <1>1, <1>2, <1>6, PersistOK
<1>8. b \in Ballots
  BY <1>3, <1>4, <1>6, LastRetained DEF Ballots
<1> HIDE DEF b
<1>9. RoleType' /\ RestType'
  BY <1>1, <1>8 DEF TypeOK, RoleType, RestType, MessageOK
<1> USE DEF b
<1>10. ballot' = [ballot EXCEPT ![n] = [term |-> st[n].term + 1,
                           lastIndex |-> LastIndex(st[n]), lastTerm |-> LastTerm(st[n])]]
  BY <1>1, <1>4, <1>5
<1> QED BY <1>4, <1>5, <1>6, <1>7, <1>9, <1>10 DEF TypeOK, s

\* Whether a vote request of c is granted at n.
Granted(n, c) == LET s == AtTerm(st[n], ballot[c].term)
                 IN  UpToDate(ballot[c], s) /\ s.vote \in {Nobody, c}

\* A vote request is answered.
LEMMA TypeVote ==
    ASSUME TypeOK, NEW n \in Nodes, NEW c \in Nodes, RequestVote(n, c)
    PROVE  /\ TypeOK'
           /\ ballot' = ballot
           /\ \A p \in Nodes : role'[p] \in {role[p], "follower"}
           /\ \A p \in Nodes \ {n} : st'[p] = st[p] /\ disk'[p] = disk[p]
           /\ disk'[n] = st'[n] /\ st'[n].term = ballot[c].term
           /\ ~Granted(n, c) => /\ KeepsVote(st[n], st'[n]) /\ votes' = votes
           /\ Granted(n, c) =>
                /\ st'[n].vote = c /\ (ballot[c].term = st[n].term => st[n].vote \in {Nobody, c})
                /\ \A p \in Nodes \ {c} : votes'[p] = votes[p]
                /\ votes'[c] \in {votes[c], votes[c] \cup {n}}
                /\ role[c] # "candidate" => votes' = votes
           /\ LET s == st[n] r == st'[n] IN
              /\ LastIndex(r) = LastIndex(s) /\ LastTerm(r) = LastTerm(s)
              /\ r.log = s.log /\ r.snapIndex = s.snapIndex /\ r.snapTerm = s.snapTerm
              /\ r.commit = s.commit /\ r.epoch = s.epoch /\ r.view = s.view
              /\ r.snapEpoch = s.snapEpoch /\ r.snapView = s.snapView
<1> DEFINE s == AtTerm(st[n], ballot[c].term)
           r == IF Granted(n, c) THEN [s EXCEPT !.vote = c] ELSE s
<1>1. /\ Persist(n, r) /\ UNCHANGED <<ballot, proposal, msgs>> /\ (StepDown(n) \/ StayPut)
      /\ ballot[c].term >= st[n].term
      /\ votes' = IF Granted(n, c) /\ role[c] = "candidate"
                  THEN [votes EXCEPT ![c] = @ \cup {n}] ELSE votes
  BY DEF RequestVote, Granted
<1>2. /\ StoreOK(st[n]) /\ StoreType /\ ballot[c].term \in Terms
      /\ ballot[c].term \in Nat /\ st[n].term \in Nat
  BY TermsNat DEF TypeOK, StoreType
<1>3. /\ StoreOK(s) /\ s.term = ballot[c].term
      /\ s.vote = IF ballot[c].term > st[n].term THEN Nobody ELSE st[n].vote
      /\ LastIndex(s) = LastIndex(st[n]) /\ LastTerm(s) = LastTerm(st[n])
      /\ s.log = st[n].log /\ s.snapIndex = st[n].snapIndex /\ s.snapTerm = st[n].snapTerm
      /\ s.commit = st[n].commit /\ s.epoch = st[n].epoch /\ s.view = st[n].view
      /\ s.snapEpoch = st[n].snapEpoch /\ s.snapView = st[n].snapView
  BY <1>1, <1>2, AtTermOK
<1>4. Granted(n, c) => s.vote \in {Nobody, c}
  BY DEF Granted
<1> HIDE DEF s
<1>5. /\ r \in Store /\ r.term = s.term
      /\ r.vote = IF Granted(n, c) THEN c ELSE s.vote
      /\ r.log = s.log /\ r.snapIndex = s.snapIndex /\ r.snapTerm = s.snapTerm
      /\ r.commit = s.commit /\ r.epoch = s.epoch /\ r.view = s.view
      /\ r.snapEpoch = s.snapEpoch /\ r.snapView = s.snapView
  BY <1>3 DEF StoreOK, Store
<1> HIDE DEF r
<1>6. LastIndex(r) = LastIndex(s) /\ LastTerm(r) = LastTerm(s)
  BY <1>5 DEF LastIndex, LastTerm, TermAt
<1>7. StoreOK(r)
  BY <1>3, <1>5, <1>6 DEF StoreOK
<1>8. /\ StoreType' /\ st'[n] = r /\ disk'[n] = r
      /\ \A p \in Nodes \ {n} : st'[p] = st[p] /\ disk'[p] = disk[p]
  BY <1>1, <1>2, <1>7, PersistOK
<1>9. RoleType' /\ \A p \in Nodes : role'[p] \in {role[p], "follower"}
  BY <1>1, RoleOK DEF TypeOK
<1>10. /\ votes' \in [Nodes -> SUBSET Nodes]
       /\ ~Granted(n, c) => votes' = votes
       /\ role[c] # "candidate" => votes' = votes
       /\ \A p \in Nodes \ {c} : votes'[p] = votes[p]
       /\ votes'[c] \in {votes[c], votes[c] \cup {n}}
  BY <1>1 DEF TypeOK, RestType
<1>11. RestType'
  BY <1>1, <1>10 DEF TypeOK, RestType, MessageOK
<1>12. ~Granted(n, c) => KeepsVote(st[n], st'[n])
  BY <1>2, <1>3, <1>5, <1>8, <1>1 DEF KeepsVote
<1>13. Granted(n, c) => (ballot[c].term = st[n].term => st[n].vote \in {Nobody, c})
  BY <1>2, <1>3, <1>4
<1>14. TypeOK'
  BY <1>8, <1>9, <1>11 DEF TypeOK
<1> QED BY <1>1, <1>3, <1>5, <1>6, <1>8, <1>9, <1>10, <1>12, <1>13, <1>14

\* A candidate wins.
LEMMA TypeWin ==
    ASSUME TypeOK, NEW n \in Nodes, BecomeLeader(n)
    PROVE  TypeOK'
  BY DEF TypeOK, RoleType, StoreType, RestType, StoreOK, LastIndex, MessageOK, BecomeLeader

\* The initial state is well typed.
LEMMA TypeInit == Init => TypeOK
<1> SUFFICES ASSUME Init PROVE TypeOK
  OBVIOUS
<1>1. FreshState \in Store /\ FreshState.snapIndex = 0 /\ FreshState.commit = 0
      /\ FreshState.log = <<>>
  <2>1. <<>> \in Seq(Entries) /\ 0 \in Terms
    BY Bounds DEF Terms
  <2> QED BY <2>1 DEF FreshState, Store, BootstrapEpoch, AnyView
<1>2. StoreOK(FreshState)
  BY <1>1, Bounds DEF StoreOK, LastIndex
<1>3. st = [n \in Nodes |-> FreshState] /\ disk = st
  BY DEF Init
<1>4. StoreType
  BY <1>1, <1>2, <1>3 DEF StoreType
<1>5. RoleType
  BY DEF Init, RoleType
<1>6. RestType
  <2>1. [term |-> 0, lastIndex |-> 0, lastTerm |-> 0] \in Ballots
    BY Bounds DEF Ballots, Terms
  <2> QED BY <2>1 DEF Init, RestType
<1> QED BY <1>4, <1>5, <1>6 DEF TypeOK

-----------------------------------------------------------------------------
(* Elections.  e.vt[q][t] is whom q ever voted for in term t, e.wn[t] who won *)
(* term t and e.qu[t] the votes it won with.                                 *)

Elections == [wn : [Terms -> Nodes \cup {Nobody}], qu : [Terms -> SUBSET Nodes],
              vt : [Nodes -> [Terms -> Nodes \cup {Nobody}]]]

\* A store remembers the vote of its term and has left the terms of other votes.
VoteOK(e, q, s) ==
    \A t \in Terms : e.vt[q][t] # Nobody => t < s.term \/ (t = s.term /\ s.vote = e.vt[q][t])

BallotsSeen == \A n \in Nodes : ballot[n].term <= st[n].term /\ ballot[n].term <= disk[n].term
VotesKept(e) == \A n \in Nodes : VoteOK(e, n, st[n]) /\ VoteOK(e, n, disk[n])
RolesWon(e) == \A n \in Nodes : /\ role[n] = "leader" => e.wn[ballot[n].term] = n
                                /\ role[n] = "candidate" => e.wn[ballot[n].term] # n
VotesCast(e) == \A c \in Nodes : \A q \in votes[c] : e.vt[q][ballot[c].term] = c
QuorumsKept(e) ==
    \A t \in Terms : e.wn[t] # Nobody =>
        /\ t <= ballot[e.wn[t]].term
        /\ voterMajority(e.qu[t])
        /\ \A q \in e.qu[t] : e.vt[q][t] = e.wn[t]
ElectionInv(e) ==
    BallotsSeen /\ VotesKept(e) /\ RolesWon(e) /\ VotesCast(e) /\ QuorumsKept(e)

\* Two majorities of the voters have a voter in common.
LEMMA MajoritiesMeet ==
    ASSUME NEW A \in SUBSET Nodes, NEW B \in SUBSET Nodes, voterMajority(A), voterMajority(B)
    PROVE  A \cap B # {}
<1>1. A \cap Nodes = A /\ B \cap Nodes = B
  OBVIOUS
<1>2. IsFiniteSet(A) /\ IsFiniteSet(B) /\ IsFiniteSet(Nodes)
  BY Bounds, FS_Subset
<1>3. Cardinality(A) \in Nat /\ Cardinality(B) \in Nat /\ Cardinality(Nodes) \in Nat
  BY <1>2, FS_CardinalityType
<1>4. Cardinality(A) + Cardinality(B) > Cardinality(Nodes)
  <2>1. \A a, b, k \in Nat : a >= k \div 2 + 1 /\ b >= k \div 2 + 1 => a + b > k
    OBVIOUS
  <2>2. /\ Cardinality(A) >= Cardinality(Nodes) \div 2 + 1
        /\ Cardinality(B) >= Cardinality(Nodes) \div 2 + 1
    BY <1>1 DEF voterMajority
  <2> QED BY <2>1, <2>2, <1>3
<1> QED BY <1>2, <1>4, FS_MajoritiesIntersect

\* A store that keeps the vote still remembers it.
LEMMA VoteStays ==
    ASSUME NEW e \in Elections, NEW q \in Nodes, NEW s, NEW r, s.term \in Nat, r.term \in Nat,
           VoteOK(e, q, s), KeepsVote(s, r)
    PROVE  VoteOK(e, q, r)
  BY Bounds DEF VoteOK, KeepsVote, Terms

\* A quiet step keeps the election invariant.
LEMMA QuietElections ==
    ASSUME TypeOK, TypeOK', Quiet, NEW e \in Elections, ElectionInv(e)
    PROVE  ElectionInv(e)'
<1>1. \A q \in Nodes : /\ st[q].term \in Nat /\ st'[q].term \in Nat
                       /\ disk[q].term \in Nat /\ disk'[q].term \in Nat
                       /\ ballot[q].term \in Nat
  <2>1. st' \in [Nodes -> Store] /\ disk' \in [Nodes -> Store]
    BY DEF TypeOK, StoreType
  <2>2. \A q \in Nodes : st'[q].term \in Terms /\ disk'[q].term \in Terms
    BY <2>1 DEF Store
  <2> QED BY <2>2, TermsNat, Bounds DEF Terms
<1>2. VotesKept(e)'
  <2> SUFFICES ASSUME NEW q \in Nodes PROVE VoteOK(e, q, st'[q]) /\ VoteOK(e, q, disk'[q])
    BY DEF VotesKept, VoteOK
  <2>1. VoteOK(e, q, st[q]) /\ VoteOK(e, q, disk[q])
    BY DEF ElectionInv, VotesKept
  <2>2. VoteOK(e, q, st'[q])
    <3>1. CASE KeepsVote(st[q], st'[q])
      BY <3>1, <2>1, <1>1, VoteStays
    <3>2. CASE st'[q] = disk[q]
      BY <3>2, <2>1
    <3> QED BY <3>1, <3>2 DEF Quiet
  <2> QED BY <2>1, <2>2 DEF Quiet
<1>3. BallotsSeen'
  <2> SUFFICES ASSUME NEW q \in Nodes
               PROVE  ballot[q].term <= st'[q].term /\ ballot[q].term <= disk'[q].term
    BY DEF BallotsSeen, Quiet
  <2>1. ballot[q].term <= st[q].term /\ ballot[q].term <= disk[q].term
    BY DEF ElectionInv, BallotsSeen
  <2>2. /\ KeepsVote(st[q], st'[q]) \/ st'[q] = disk[q]
        /\ disk'[q] \in {disk[q], st'[q]}
    BY DEF Quiet
  <2> QED BY <2>1, <2>2, <1>1 DEF KeepsVote
<1>4. RolesWon(e)'
  BY DEF ElectionInv, RolesWon, Quiet
<1>5. VotesCast(e)'
  BY DEF ElectionInv, VotesCast, Quiet
<1>6. QuorumsKept(e)'
  BY DEF ElectionInv, QuorumsKept, Quiet, voterMajority
<1> QED BY <1>2, <1>3, <1>4, <1>5, <1>6 DEF ElectionInv

\* The record of elections after a vote, and after a victory.
CastVote(e, q, t, c) == [e EXCEPT !.vt[q][t] = c]
WinTerm(e, t, n, Q) == [e EXCEPT !.wn[t] = n, !.qu[t] = Q]

\* What a vote changes in the record.
LEMMA CastVoteOK ==
    ASSUME NEW e \in Elections, NEW q \in Nodes, NEW t \in Terms, NEW c \in Nodes,
           NEW f, f = CastVote(e, q, t, c)
    PROVE  /\ f \in Elections /\ f.wn = e.wn /\ f.qu = e.qu
           /\ f.vt[q][t] = c
           /\ \A p \in Nodes, u \in Terms : p # q \/ u # t => f.vt[p][u] = e.vt[p][u]
  BY DEF Elections, CastVote

\* What a victory changes in the record.
LEMMA WinTermOK ==
    ASSUME NEW e \in Elections, NEW n \in Nodes, NEW t \in Terms, NEW Q \in SUBSET Nodes,
           NEW f, f = WinTerm(e, t, n, Q)
    PROVE  /\ f \in Elections /\ f.vt = e.vt
           /\ \A u \in Terms : /\ f.wn[u] = IF u = t THEN n ELSE e.wn[u]
                               /\ f.qu[u] = IF u = t THEN Q ELSE e.qu[u]
  BY DEF Elections, WinTerm

\* A node campaigns in a term it has never voted in.
LEMMA BeginElections ==
    ASSUME TypeOK, NEW n \in Nodes, BeginElection(n), NEW e \in Elections, ElectionInv(e),
           NEW f, f = CastVote(e, n, st[n].term + 1, n)
    PROVE  f \in Elections /\ ElectionInv(f)'
<1> DEFINE T == st[n].term + 1
<1>1. /\ st[n].term \in Nat /\ T \in Terms /\ T \in Nat
      /\ \A q \in Nodes : /\ st[q].term \in Nat /\ disk[q].term \in Nat
                          /\ ballot[q].term \in Nat /\ ballot[q].term \in Terms
  BY TermsNat, Bounds DEF BeginElection, Terms
<1>2. /\ f \in Elections /\ f.wn = e.wn /\ f.qu = e.qu
      /\ f.vt[n][T] = n
      /\ \A p \in Nodes, u \in Terms : p # n \/ u # T => f.vt[p][u] = e.vt[p][u]
  BY <1>1, CastVoteOK, SMTT(60)
<1>3. /\ st'[n].term = T /\ st'[n].vote = n /\ disk'[n] = st'[n]
      /\ \A p \in Nodes \ {n} : st'[p] = st[p] /\ disk'[p] = disk[p]
      /\ ballot' = [ballot EXCEPT ![n] = [term |-> T,
                           lastIndex |-> LastIndex(st[n]), lastTerm |-> LastTerm(st[n])]]
  BY TypeBegin, ZenonT(60)
<1>4. /\ role' = [role EXCEPT ![n] = "candidate"] /\ votes' = [votes EXCEPT ![n] = {n}]
  BY DEF BeginElection
<1>5. ballot'[n].term = T /\ \A p \in Nodes \ {n} : ballot'[p] = ballot[p]
  BY <1>3 DEF TypeOK, RestType
<1>6. e.vt[n][T] = Nobody
  BY <1>1 DEF ElectionInv, VotesKept, VoteOK
<1>7. e.wn[T] # n
  BY <1>1, Bounds DEF ElectionInv, QuorumsKept, BallotsSeen
<1> HIDE DEF T
<1>8. BallotsSeen'
  BY <1>1, <1>3, <1>5 DEF ElectionInv, BallotsSeen
<1>9. VotesKept(f)'
  <2> SUFFICES ASSUME NEW q \in Nodes PROVE VoteOK(f, q, st'[q]) /\ VoteOK(f, q, disk'[q])
    BY DEF VotesKept, VoteOK
  <2>1. VoteOK(e, q, st[q]) /\ VoteOK(e, q, disk[q])
    BY DEF ElectionInv, VotesKept
  <2>2. CASE q # n
    BY <2>1, <2>2, <1>2, <1>3 DEF VoteOK
  <2>3. CASE q = n
    <3> SUFFICES ASSUME NEW t \in Terms, f.vt[n][t] # Nobody, t # T PROVE t < T
      BY <2>3, <1>2, <1>3 DEF VoteOK
    <3>1. t < st[n].term \/ t = st[n].term
      BY <2>1, <2>3, <1>2 DEF VoteOK
    <3>2. t \in Nat
      BY Bounds DEF Terms
    <3> QED BY <3>1, <3>2, <1>1 DEF T
  <2> QED BY <2>2, <2>3
<1>10. RolesWon(f)'
  BY <1>2, <1>4, <1>5, <1>7 DEF ElectionInv, RolesWon, TypeOK, RoleType
<1>11. VotesCast(f)'
  <2> SUFFICES ASSUME NEW c \in Nodes, NEW q \in votes'[c]
               PROVE  f.vt[q][ballot'[c].term] = c
    BY DEF VotesCast
  <2>1. CASE c = n
    BY <2>1, <1>1, <1>2, <1>4, <1>5 DEF TypeOK, RestType
  <2>2. CASE c # n
    <3>1. q \in votes[c] /\ q \in Nodes /\ ballot'[c] = ballot[c]
      BY <2>2, <1>4, <1>5 DEF TypeOK, RestType
    <3>2. e.vt[q][ballot[c].term] = c /\ c # Nobody
      BY <3>1, Bounds DEF ElectionInv, VotesCast
    <3> QED BY <3>1, <3>2, <1>1, <1>2, <1>6
  <2> QED BY <2>1, <2>2
<1>12. QuorumsKept(f)'
  <2> SUFFICES ASSUME NEW t \in Terms, f.wn[t] # Nobody
               PROVE  /\ t <= ballot'[f.wn[t]].term
                      /\ voterMajority(f.qu[t])
                      /\ \A q \in f.qu[t] : f.vt[q][t] = f.wn[t]
    BY DEF QuorumsKept, voterMajority
  <2>1. /\ t <= ballot[e.wn[t]].term /\ voterMajority(e.qu[t])
        /\ \A q \in e.qu[t] : e.vt[q][t] = e.wn[t]
    BY <1>2 DEF ElectionInv, QuorumsKept
  <2>2. e.wn[t] \in Nodes /\ e.qu[t] \subseteq Nodes /\ t \in Nat
    BY <1>2, Bounds DEF Elections, Terms
  <2>3. t <= ballot'[f.wn[t]].term
    <3>1. CASE e.wn[t] = n
      <4>1. ballot[n].term <= st[n].term
        BY DEF ElectionInv, BallotsSeen
      <4> QED BY <3>1, <4>1, <2>1, <2>2, <1>1, <1>2, <1>5 DEF T
    <3>2. CASE e.wn[t] # n
      BY <3>2, <2>1, <2>2, <1>2, <1>5
    <3> QED BY <3>1, <3>2
  <2>4. \A q \in f.qu[t] : f.vt[q][t] = f.wn[t]
    BY <2>1, <2>2, <1>2, <1>6, Bounds
  <2> QED BY <2>1, <2>3, <2>4, <1>2
<1> QED BY <1>2, <1>8, <1>9, <1>10, <1>11, <1>12 DEF ElectionInv

\* A granted vote is the only one of its voter in that term.
LEMMA VoteElections ==
    ASSUME TypeOK, NEW n \in Nodes, NEW c \in Nodes, RequestVote(n, c),
           NEW e \in Elections, ElectionInv(e),
           NEW f, Granted(n, c) => f = CastVote(e, n, ballot[c].term, c),
           ~Granted(n, c) => f = e
    PROVE  f \in Elections /\ ElectionInv(f)'
<1> DEFINE T == ballot[c].term
<1>1. /\ T \in Terms /\ T \in Nat /\ T >= st[n].term
      /\ \A q \in Nodes : /\ st[q].term \in Nat /\ disk[q].term \in Nat
                          /\ ballot[q].term \in Nat /\ ballot[q].term \in Terms
  BY TermsNat DEF RequestVote
<1>2. /\ ballot' = ballot
      /\ \A p \in Nodes : role'[p] \in {role[p], "follower"}
      /\ \A p \in Nodes \ {n} : st'[p] = st[p] /\ disk'[p] = disk[p]
      /\ disk'[n] = st'[n] /\ st'[n].term = T
      /\ ~Granted(n, c) => /\ KeepsVote(st[n], st'[n]) /\ votes' = votes
      /\ Granted(n, c) =>
           /\ st'[n].vote = c /\ (T = st[n].term => st[n].vote \in {Nobody, c})
           /\ \A p \in Nodes \ {c} : votes'[p] = votes[p]
           /\ votes'[c] \in {votes[c], votes[c] \cup {n}}
  BY TypeVote
<1>3. CASE ~Granted(n, c)
  <2>1. f = e
    BY <1>3
  <2>2. TypeOK'
    BY TypeVote
  <2>3. Quiet
    <3>1. \A p \in Nodes : KeepsVote(st[p], st'[p])
      BY <1>1, <1>2, <1>3 DEF KeepsVote
    <3> QED BY <3>1, <1>2, <1>3 DEF Quiet
  <2> QED BY <2>1, <2>2, <2>3, QuietElections
<1>4. CASE Granted(n, c)
  <2>1. /\ f \in Elections /\ f.wn = e.wn /\ f.qu = e.qu
        /\ f.vt[n][T] = c
        /\ \A p \in Nodes, u \in Terms : p # n \/ u # T => f.vt[p][u] = e.vt[p][u]
    <3>1. f = CastVote(e, n, T, c) /\ T \in Terms
      BY <1>1, <1>4
    <3> HIDE DEF T
    <3>2. f \in Elections /\ f.wn = e.wn /\ f.qu = e.qu
      BY <3>1, CastVoteOK
    <3>3. f.vt[n][T] = c
      BY <3>1, CastVoteOK
    <3>4. ASSUME NEW p \in Nodes, NEW u \in Terms, p # n \/ u # T
          PROVE  f.vt[p][u] = e.vt[p][u]
      <4>1. f.vt = [e.vt EXCEPT ![n][T] = c]
        BY <3>1 DEF CastVote, Elections
      <4>2. e.vt \in [Nodes -> [Terms -> Nodes \cup {Nobody}]]
        BY DEF Elections
      <4> QED BY <4>1, <4>2, <3>4, <3>1
    <3> QED BY <3>2, <3>3, <3>4
  <2>2. e.vt[n][T] \in {Nobody, c}
    BY <1>1, <1>2, <1>4 DEF ElectionInv, VotesKept, VoteOK
  <2> HIDE DEF T
  <2>3. BallotsSeen'
    <3> SUFFICES ASSUME NEW q \in Nodes
                 PROVE  ballot[q].term <= st'[q].term /\ ballot[q].term <= disk'[q].term
      BY <1>2 DEF BallotsSeen
    <3>1. ballot[q].term <= st[q].term /\ ballot[q].term <= disk[q].term
      BY DEF ElectionInv, BallotsSeen
    <3> QED BY <3>1, <1>1, <1>2
  <2>4. VotesKept(f)'
    <3> SUFFICES ASSUME NEW q \in Nodes PROVE VoteOK(f, q, st'[q]) /\ VoteOK(f, q, disk'[q])
      BY DEF VotesKept, VoteOK
    <3>1. VoteOK(e, q, st[q]) /\ VoteOK(e, q, disk[q])
      BY DEF ElectionInv, VotesKept
    <3>2. CASE q # n
      BY <3>1, <3>2, <2>1, <1>2 DEF VoteOK
    <3>3. CASE q = n
      <4> SUFFICES ASSUME NEW t \in Terms, f.vt[n][t] # Nobody, t # T PROVE t < T
        BY <3>3, <2>1, <1>2, <1>4 DEF VoteOK
      <4>1. t < st[n].term \/ t = st[n].term
        BY <3>1, <3>3, <2>1 DEF VoteOK
      <4>2. t \in Nat
        BY Bounds DEF Terms
      <4> QED BY <4>1, <4>2, <1>1
    <3> QED BY <3>2, <3>3
  <2>5. RolesWon(f)'
    BY <1>2, <2>1 DEF ElectionInv, RolesWon
  <2>6. VotesCast(f)'
    <3> SUFFICES ASSUME NEW d \in Nodes, NEW q \in votes'[d]
                 PROVE  f.vt[q][ballot[d].term] = d
      BY <1>2 DEF VotesCast
    <3>1. CASE q \in votes[d]
      <4>1. q \in Nodes
        BY <3>1 DEF TypeOK, RestType
      <4>2. e.vt[q][ballot[d].term] = d /\ d # Nobody
        BY <3>1, Bounds DEF ElectionInv, VotesCast
      <4> QED BY <4>1, <4>2, <1>1, <2>1, <2>2
    <3>2. CASE q \notin votes[d]
      <4>1. d = c /\ q = n
        BY <3>2, <1>2, <1>4
      <4> QED BY <4>1, <1>1, <2>1 DEF T
    <3> QED BY <3>1, <3>2
  <2>7. QuorumsKept(f)'
    <3> SUFFICES ASSUME NEW t \in Terms, f.wn[t] # Nobody
                 PROVE  /\ t <= ballot[f.wn[t]].term
                        /\ voterMajority(f.qu[t])
                        /\ \A q \in f.qu[t] : f.vt[q][t] = f.wn[t]
      BY <1>2 DEF QuorumsKept, voterMajority
    <3>1. /\ t <= ballot[e.wn[t]].term /\ voterMajority(e.qu[t])
          /\ \A q \in e.qu[t] : e.vt[q][t] = e.wn[t]
      BY <2>1 DEF ElectionInv, QuorumsKept
    <3>2. e.qu[t] \subseteq Nodes
      BY DEF Elections
    <3> QED BY <3>1, <3>2, <2>1, <2>2
  <2> QED BY <2>1, <2>3, <2>4, <2>5, <2>6, <2>7 DEF ElectionInv
<1> QED BY <1>3, <1>4

\* A victory is the first of its term.
LEMMA WinElections ==
    ASSUME TypeOK, NEW n \in Nodes, BecomeLeader(n), NEW e \in Elections, ElectionInv(e),
           NEW f, f = WinTerm(e, ballot[n].term, n, votes[n])
    PROVE  /\ f \in Elections /\ ElectionInv(f)'
           /\ e.wn[ballot[n].term] = Nobody
<1> DEFINE T == ballot[n].term
<1>1. T \in Terms /\ T \in Nat /\ votes[n] \subseteq Nodes
  BY TermsNat DEF TypeOK, RestType
<1>2. /\ f \in Elections /\ f.vt = e.vt
      /\ \A u \in Terms : /\ f.wn[u] = IF u = T THEN n ELSE e.wn[u]
                          /\ f.qu[u] = IF u = T THEN votes[n] ELSE e.qu[u]
  BY <1>1, WinTermOK
<1>3. /\ role[n] = "candidate" /\ voterMajority(votes[n])
      /\ role' = [role EXCEPT ![n] = "leader"] /\ votes' = [votes EXCEPT ![n] = {}]
      /\ UNCHANGED <<st, disk, ballot>>
  BY DEF BecomeLeader
<1>4. e.wn[T] = Nobody
  <2> SUFFICES ASSUME e.wn[T] # Nobody PROVE FALSE
    OBVIOUS
  <2>1. e.wn[T] # n
    BY <1>3 DEF ElectionInv, RolesWon
  <2>2. voterMajority(e.qu[T]) /\ e.qu[T] \subseteq Nodes
    BY <1>1 DEF ElectionInv, QuorumsKept, Elections
  <2>3. PICK q \in Nodes : q \in e.qu[T] /\ q \in votes[n]
    BY <1>1, <1>3, <2>2, MajoritiesMeet
  <2>4. e.vt[q][T] = e.wn[T] /\ e.vt[q][T] = n
    BY <1>1, <2>3 DEF ElectionInv, QuorumsKept, VotesCast
  <2> QED BY <2>1, <2>4
<1>5. BallotsSeen' /\ VotesKept(f)'
  BY <1>2, <1>3 DEF ElectionInv, BallotsSeen, VotesKept, VoteOK
<1>6. RolesWon(f)'
  <2> SUFFICES ASSUME NEW p \in Nodes
               PROVE  /\ role'[p] = "leader" => f.wn[ballot[p].term] = p
                      /\ role'[p] = "candidate" => f.wn[ballot[p].term] # p
    BY <1>3 DEF RolesWon
  <2>1. CASE p = n
    BY <2>1, <1>1, <1>2, <1>3 DEF TypeOK, RoleType
  <2>2. CASE p # n
    <3>1. role'[p] = role[p] /\ ballot[p].term \in Terms
      BY <2>2, <1>3, TermsNat DEF TypeOK, RoleType
    <3>2. /\ role[p] = "leader" => e.wn[ballot[p].term] = p
          /\ role[p] = "candidate" => e.wn[ballot[p].term] # p
      BY DEF ElectionInv, RolesWon
    <3> QED BY <2>2, <3>1, <3>2, <1>2, <1>4, Bounds
  <2> QED BY <2>1, <2>2
<1>7. VotesCast(f)'
  BY <1>2, <1>3 DEF ElectionInv, VotesCast, TypeOK, RestType
<1>8. QuorumsKept(f)'
  <2> SUFFICES ASSUME NEW t \in Terms, f.wn[t] # Nobody
               PROVE  /\ t <= ballot[f.wn[t]].term
                      /\ voterMajority(f.qu[t])
                      /\ \A q \in f.qu[t] : f.vt[q][t] = f.wn[t]
    BY <1>3 DEF QuorumsKept, voterMajority
  <2>1. CASE t = T
    BY <2>1, <1>1, <1>2, <1>3 DEF ElectionInv, VotesCast
  <2>2. CASE t # T
    BY <2>2, <1>2 DEF ElectionInv, QuorumsKept
  <2> QED BY <2>1, <2>2
<1> QED BY <1>2, <1>4, <1>5, <1>6, <1>7, <1>8 DEF ElectionInv

\* The types, and a record of elections that fits the state.
ElectionsCorrect == TypeOK /\ \E e \in Elections : ElectionInv(e)

\* No vote has been cast at the start.
LEMMA InitElections == Init => ElectionsCorrect
<1> SUFFICES ASSUME Init PROVE ElectionsCorrect
  OBVIOUS
<1> DEFINE e == [wn |-> [t \in Terms |-> Nobody], qu |-> [t \in Terms |-> {}],
                 vt |-> [n \in Nodes |-> [t \in Terms |-> Nobody]]]
<1>1. e \in Elections
  BY DEF Elections
<1>2. \A n \in Nodes : st[n].term = 0 /\ disk[n].term = 0 /\ ballot[n].term = 0
  BY DEF Init, FreshState
<1>3. ElectionInv(e)
  BY <1>2 DEF Init, ElectionInv, BallotsSeen, VotesKept, VoteOK, RolesWon, VotesCast, QuorumsKept
<1> QED BY <1>1, <1>3, TypeInit DEF ElectionsCorrect

\* Every step keeps the types and a fitting record of elections.
LEMMA NextElections == ElectionsCorrect /\ [Next]_vars => ElectionsCorrect'
<1> SUFFICES ASSUME ElectionsCorrect, [Next]_vars PROVE ElectionsCorrect'
  OBVIOUS
<1>1. TypeOK
  BY DEF ElectionsCorrect
<1>2. PICK e \in Elections : ElectionInv(e)
  BY DEF ElectionsCorrect
<1>3. ASSUME TypeOK', Quiet PROVE ElectionsCorrect'
  BY <1>1, <1>2, <1>3, QuietElections DEF ElectionsCorrect
<1>4. CASE UNCHANGED vars
  <2>1. TypeOK'
    BY <1>1, <1>4 DEF vars, TypeOK, RoleType, StoreType, RestType, StoreOK, LastIndex, MessageOK
  <2>2. \A q \in Nodes : KeepsVote(st[q], st'[q])
    BY <1>1, <1>4, TermsNat DEF vars, KeepsVote
  <2>3. Quiet
    BY <1>4, <2>2 DEF vars, Quiet
  <2> QED BY <1>3, <2>1, <2>3
<1>5. ASSUME NEW n \in Nodes, becomeFollower(n) \/ expireLeaderWithoutQuorum(n)
      PROVE  ElectionsCorrect'
  BY <1>1, <1>3, <1>5, TypeFollower
<1>6. ASSUME NEW n \in Nodes, BeginElection(n) PROVE ElectionsCorrect'
  <2>1. TypeOK'
    BY <1>1, <1>6, TypeBegin
  <2> QED BY <1>1, <1>2, <1>6, <2>1, BeginElections DEF ElectionsCorrect
<1>7. ASSUME NEW n \in Nodes, BecomeLeader(n) PROVE ElectionsCorrect'
  BY <1>1, <1>2, <1>7, TypeWin, WinElections DEF ElectionsCorrect
<1>8. ASSUME NEW n \in Nodes, CommitWithVoterAcks(n) PROVE ElectionsCorrect'
  BY <1>1, <1>3, <1>8, TypeCommit
<1>9. ASSUME NEW n \in Nodes, EndPropose(n) PROVE ElectionsCorrect'
  BY <1>1, <1>3, <1>9, TypeEnd
<1>10. ASSUME NEW n \in Nodes, Restart(n) PROVE ElectionsCorrect'
  BY <1>1, <1>3, <1>10, TypeRestart
<1>11. ASSUME NEW n \in Nodes, NEW view \in Views, Propose(n, view) PROVE ElectionsCorrect'
  BY <1>1, <1>3, <1>11, TypePropose
<1>12. ASSUME NEW n \in Nodes, NEW c \in Nodes, RequestVote(n, c) PROVE ElectionsCorrect'
  <2>1. TypeOK'
    BY <1>1, <1>12, TypeVote
  <2>2. PICK f : (Granted(n, c) => f = CastVote(e, n, ballot[c].term, c)) /\ (~Granted(n, c) => f = e)
    OBVIOUS
  <2> QED BY <1>1, <1>2, <1>12, <2>1, <2>2, VoteElections DEF ElectionsCorrect
<1>13. ASSUME NEW n \in Nodes, NEW p \in Nodes, ObserveTerm(n, p) PROVE ElectionsCorrect'
  BY <1>1, <1>3, <1>13, TypeObserve
<1>14. ASSUME NEW n \in Nodes, NEW p \in Nodes, NEW next \in 1..(MaxLog + 1),
              replicatePeer(n, p, next)
       PROVE  ElectionsCorrect'
  BY <1>1, <1>3, <1>14, TypeReplicate
<1>15. ASSUME NEW m \in msgs, AppendEntries(m) PROVE ElectionsCorrect'
  BY <1>1, <1>3, <1>15, TypeAppend
<1>16. ASSUME NEW m \in msgs, InstallSnapshot(m) PROVE ElectionsCorrect'
  BY <1>1, <1>3, <1>16, TypeInstall
<1>17. ASSUME NEW m \in msgs, Lose(m) PROVE ElectionsCorrect'
  BY <1>1, <1>3, <1>17, TypeLose
<1> QED
  BY <1>4, <1>5, <1>6, <1>7, <1>8, <1>9, <1>10, <1>11, <1>12, <1>13, <1>14, <1>15, <1>16,
     <1>17 DEF Next

\* The election invariant holds in every reachable state (raft.go, raft_runtime.go).
THEOREM ElectionsAlwaysCorrect == Spec => []ElectionsCorrect
  BY InitElections, NextElections, PTL DEF Spec

\* Every variable keeps its type, every store its commit index between its snapshot
\* boundary and its last entry (raft.go validateLocked).
THEOREM RaftTypeCorrect == Spec => []TypeOK
<1>1. ElectionsCorrect => TypeOK
  BY DEF ElectionsCorrect
<1> QED BY <1>1, ElectionsAlwaysCorrect, PTL

\* Two nodes never lead by winning the same term, for any number of voters, restarts
\* and delayed vote requests, also when a role changes after its store (raft.go
\* RequestVote, raft_runtime.go campaign).
THEOREM OneWinnerPerTerm == Spec => []ElectionSafety
<1>1. ElectionsCorrect => ElectionSafety
  BY DEF ElectionsCorrect, ElectionInv, RolesWon, ElectionSafety
<1> QED BY <1>1, ElectionsAlwaysCorrect, PTL

-----------------------------------------------------------------------------
(* The replicated log.  Its invariant speaks of a record l of what leaders   *)
(* did: l.en[t][1..ln] with ln = l.ln[t] is the log of the winner of term t, *)
(* and l.ak[q][t] the index up to which node q acknowledged that log.  A     *)
(* node's log is a prefix of the log of the winner of its last entry's term. *)

Logs == [ln : [Terms -> 0..MaxLog], en : [Terms -> [Indices -> Entries]],
         ak : [Nodes -> [Terms -> 0..MaxLog]]]

Won(e, t) == e.wn[t] # Nobody
EntryTerm(l, t, i) == IF i = 0 THEN 0 ELSE l.en[t][i].term

\* The winner of term t put an entry of its own at index i.
Created(l, t, i) == i \in 1..l.ln[t] /\ l.en[t][i].term = t

\* An entry of a winner's log comes, with all before it, from the winner of its term.
LeaderLogs(e, l) ==
    /\ ~Won(e, 0)
    /\ \A t \in Terms : ~Won(e, t) => l.ln[t] = 0
    /\ \A t \in Terms : \A i \in 1..l.ln[t] :
         /\ l.en[t][i].term \in 1..t /\ Won(e, l.en[t][i].term)
         /\ i <= l.ln[l.en[t][i].term]
         /\ \A j \in 1..i : l.en[t][j] = l.en[l.en[t][i].term][j]
         /\ l.en[t][i].epoch > BootstrapEpoch /\ l.en[t][i].view \in Views

\* A store holds a prefix of the log of the winner of its last term.
LogOK(l, s) ==
    /\ LastIndex(s) <= l.ln[LastTerm(s)] /\ LastTerm(s) <= s.term
    /\ \A i \in (s.snapIndex + 1)..LastIndex(s) : EntryAt(s, i) = l.en[LastTerm(s)][i]
    /\ s.snapTerm = EntryTerm(l, LastTerm(s), s.snapIndex)

\* The store of the winner of its current term holds the log it leads with.
LeaderHas(e, l, n, s) ==
    e.wn[s.term] = n => /\ LastIndex(s) = l.ln[s.term]
                        /\ \A i \in 1..LastIndex(s) : l.en[LastTerm(s)][i] = l.en[s.term][i]

NodeLogs(e, l) == \A n \in Nodes : LogOK(l, st[n]) /\ LeaderHas(e, l, n, st[n])

\* A candidate campaigns with the log it has.
Campaigns ==
    \A n \in Nodes : role[n] = "candidate" =>
        /\ ballot[n].term >= 1
        /\ ballot[n].lastIndex = LastIndex(st[n]) /\ ballot[n].lastTerm = LastTerm(st[n])

\* Store s holds the entry that the winner of term t put at index i.
Has(l, s, t, i) == i <= LastIndex(s) /\ l.en[LastTerm(s)][i].term = t

\* That entry can no longer be acknowledged by a majority.
Dead(l, t, i) == \E R \in SUBSET Nodes :
    voterMajority(R) /\ \A q \in R : st[q].term > t /\ l.ak[q][t] < i

\* What a node acknowledged, it holds, unless the entry is dead.
AckInv(l) ==
    \A q \in Nodes, t \in Terms :
        /\ l.ak[q][t] <= l.ln[t] /\ (l.ak[q][t] > 0 => t <= st[q].term)
        /\ \A i \in 1..l.ak[q][t] : Created(l, t, i) => Has(l, st[q], t, i) \/ Dead(l, t, i)

\* The winners of later terms hold it too, unless it is dead.
WinnerInv(e, l) ==
    \A t, u \in Terms : t < u /\ Won(e, u) =>
        \A i \in Indices : Created(l, t, i) =>
            (i <= l.ln[u] /\ l.en[u][i].term = t) \/ Dead(l, t, i)

\* A candidate is at least as up to date as what its voters acknowledged.
BallotInv(l) ==
    \A c \in Nodes : role[c] = "candidate" =>
        \A q \in votes[c], t \in Terms : t < ballot[c].term =>
            \A i \in 1..l.ak[q][t] : Created(l, t, i) =>
                \/ ballot[c].lastTerm > t
                \/ ballot[c].lastTerm = t /\ ballot[c].lastIndex >= i
                \/ Dead(l, t, i)

ProposalInv(e, l) ==
    \A n \in Nodes : proposal[n] # NoProposal =>
        /\ e.wn[proposal[n].term] = n
        /\ \A q \in proposal[n].acks : l.ak[q][proposal[n].term] >= proposal[n].index
        /\ proposal[n].index >= 1

\* A majority acknowledged an entry of the winner of term t at index j.
Cert(l, t, j) == Created(l, t, j) /\ voterMajority({q \in Nodes : l.ak[q][t] >= j})

\* The first c chosen entries were certified in term T or before.
Committed(l, T, c) ==
    c = 0 \/ \E t \in Terms, j \in Indices :
        t <= T /\ j >= c /\ Cert(l, t, j) /\ \A i \in 1..c : chosen[i] = l.en[t][i]

\* The epoch and view after the first c chosen entries.
At(c) == IF c = 0 THEN [epoch |-> BootstrapEpoch, view |-> NoView] ELSE chosen[c]

\* What a store committed is chosen, in its log, and applied.
StoreCommitted(l, s) ==
    /\ Committed(l, s.term, s.commit)
    /\ \A i \in 1..s.commit : /\ chosen[i] = l.en[LastTerm(s)][i]
                              /\ Extends(At(i - 1), chosen[i])
    /\ s.epoch = At(s.commit).epoch /\ s.view = At(s.commit).view
    /\ s.snapEpoch = At(s.snapIndex).epoch /\ s.snapView = At(s.snapIndex).view

CommitInv(l) ==
    /\ chosen \in [Indices -> Entries \cup {NoEntry}]
    /\ \A i \in Indices : chosen[i] # NoEntry => \E n \in Nodes : i <= st[n].commit
    /\ \A n \in Nodes : StoreCommitted(l, st[n])

\* A request carries a part of its sender's log and a commit index that some
\* node has reached.
RequestTrue(e, l, m) ==
    /\ e.wn[m.term] = m.from /\ m.from # m.to
    /\ m.index + Len(m.entries) <= l.ln[m.term]
    /\ m.prevTerm = EntryTerm(l, m.term, m.index)
    /\ \A k \in 1..Len(m.entries) : m.entries[k] = l.en[m.term][m.index + k]
    /\ m.commit <= m.index + Len(m.entries)
    /\ Committed(l, m.term, m.commit)
    /\ \E n \in Nodes : m.commit <= st[n].commit
    /\ m.type = "snapshot" =>
         /\ m.index = m.commit /\ m.index > 0 /\ m.entries = <<>>
         /\ m.epoch = At(m.index).epoch /\ m.view = At(m.index).view
RequestInv(e, l) == \A m \in msgs : RequestTrue(e, l, m)

\* Memory, disk and role move together.
Together == /\ st = disk
            /\ \A n \in Nodes : ~stepping[n]
            /\ \A n \in Nodes : role[n] # "follower" => st[n].term = ballot[n].term

LogInv(e, l) ==
    /\ LeaderLogs(e, l) /\ NodeLogs(e, l) /\ Campaigns
    /\ AckInv(l) /\ WinnerInv(e, l) /\ BallotInv(l) /\ ProposalInv(e, l)
    /\ CommitInv(l) /\ RequestInv(e, l)
RaftInv(e, l) == TypeOK /\ ElectionInv(e) /\ Together /\ LogInv(e, l)

-----------------------------------------------------------------------------
(* Facts about one state *)

\* The parts of a record of logs.
LEMMA LogTypes ==
    ASSUME NEW l \in Logs
    PROVE  /\ \A t \in Terms : l.ln[t] \in Nat /\ l.ln[t] <= MaxLog
           /\ \A t \in Terms : \A i \in Indices : l.en[t][i] \in Entries /\ l.en[t][i].term \in Terms
           /\ \A q \in Nodes, t \in Terms : l.ak[q][t] \in Nat
           /\ \A t \in Terms : \A i \in 1..l.ln[t] : i \in Indices
           /\ \A t \in Terms : t \in Nat
<1>1. /\ l.ln \in [Terms -> 0..MaxLog] /\ l.en \in [Terms -> [Indices -> Entries]]
      /\ l.ak \in [Nodes -> [Terms -> 0..MaxLog]]
  BY DEF Logs
<1>2. \A t \in Terms : l.ln[t] \in 0..MaxLog /\ t \in Nat
  BY <1>1, Bounds DEF Terms
<1>3. \A t \in Terms : \A i \in Indices : l.en[t][i] \in Entries
  BY <1>1
<1>4. \A q \in Nodes, t \in Terms : l.ak[q][t] \in 0..MaxLog
  BY <1>1
<1>5. \A x \in Entries : x.term \in Terms
  BY DEF Entries
<1>6. \A t \in Terms : \A i \in 1..l.ln[t] : i \in Indices
  BY <1>2, Bounds DEF Indices
<1> QED BY <1>2, <1>3, <1>4, <1>5, <1>6, Bounds

\* Terms never decrease along a log.
LEMMA TermsGrow ==
    ASSUME NEW e \in Elections, NEW l \in Logs, LeaderLogs(e, l),
           NEW t \in Terms, NEW i \in 1..l.ln[t], NEW j \in 1..i
    PROVE  l.en[t][j].term <= l.en[t][i].term
<1> DEFINE u == l.en[t][i].term
<1>1. /\ u \in 1..t /\ i <= l.ln[u] /\ l.en[t][j] = l.en[u][j]
      /\ l.ln[t] \in Nat /\ u \in Terms /\ l.ln[u] \in Nat
  BY LogTypes DEF LeaderLogs
<1>2. j \in 1..l.ln[u]
  BY <1>1, SMTT(60)
<1>3. l.en[u][j].term \in 1..u
  BY <1>1, <1>2 DEF LeaderLogs
<1> QED BY <1>1, <1>3

\* Two winners' logs with the same term at an index agree up to it.
LEMMA PrefixAgrees ==
    ASSUME NEW e \in Elections, NEW l \in Logs, LeaderLogs(e, l),
           NEW t \in Terms, NEW u \in Terms, NEW i \in Indices, i <= l.ln[t], i <= l.ln[u],
           l.en[t][i].term = l.en[u][i].term
    PROVE  \A j \in 1..i : l.en[t][j] = l.en[u][j]
<1>1. i \in 1..l.ln[t] /\ i \in 1..l.ln[u]
  BY LogTypes DEF Indices
<1> QED BY <1>1 DEF LeaderLogs

\* The last entry of a log names the winner whose log it is a prefix of.
LEMMA OwnTerm ==
    ASSUME NEW e \in Elections, NEW l \in Logs, LeaderLogs(e, l),
           NEW t \in Terms, NEW i \in 1..l.ln[t], NEW u, u = l.en[t][i].term
    PROVE  /\ u \in Terms /\ i <= l.ln[u] /\ l.en[u][i].term = u /\ u <= t /\ u >= 1
           /\ \A j \in 1..i : l.en[t][j] = l.en[u][j]
<1>1. /\ u \in 1..t /\ i <= l.ln[u] /\ \A j \in 1..i : l.en[t][j] = l.en[u][j]
      /\ l.ln[t] \in Nat /\ u \in Terms
  BY LogTypes DEF LeaderLogs
<1>2. i \in 1..i
  OBVIOUS
<1> QED BY <1>1, <1>2, LogTypes

\* The term a store reports for a retained index is that of the log it follows.
LEMMA TermAtLog ==
    ASSUME NEW l \in Logs, NEW s, StoreOK(s), LogOK(l, s), NEW i \in Nat, i \in Retained(s)
    PROVE  TermAt(s, i) = EntryTerm(l, LastTerm(s), i)
<1>1. CASE i = s.snapIndex
  BY <1>1 DEF TermAt, LogOK
<1>2. CASE i # s.snapIndex
  <2>1. i \in (s.snapIndex + 1)..LastIndex(s) /\ i # 0
    BY <1>2 DEF Retained, StoreOK, Store, LastIndex
  <2>2. EntryAt(s, i) = l.en[LastTerm(s)][i]
    BY <2>1 DEF LogOK
  <2> QED BY <1>2, <2>1, <2>2 DEF TermAt, EntryAt, EntryTerm
<1> QED BY <1>1, <1>2

\* The last term of a store is that of the last entry of the log it follows.
LEMMA LastTermLog ==
    ASSUME NEW l \in Logs, NEW s, StoreOK(s), LogOK(l, s)
    PROVE  /\ LastIndex(s) \in Nat /\ LastTerm(s) \in Terms /\ LastTerm(s) \in Nat
           /\ LastIndex(s) = 0 => LastTerm(s) = 0
           /\ LastIndex(s) # 0 => /\ LastIndex(s) \in Indices
                                  /\ LastIndex(s) \in 1..l.ln[LastTerm(s)]
                                  /\ l.en[LastTerm(s)][LastIndex(s)].term = LastTerm(s)
<1>1. LastIndex(s) \in Nat /\ LastIndex(s) \in Retained(s) /\ LastTerm(s) \in Terms
  BY LastRetained
<1>2. LastTerm(s) = EntryTerm(l, LastTerm(s), LastIndex(s))
  BY <1>1, TermAtLog DEF LastTerm
<1>3. LastIndex(s) <= l.ln[LastTerm(s)] /\ l.ln[LastTerm(s)] \in Nat /\ LastIndex(s) <= MaxLog
  BY <1>1, LogTypes DEF LogOK, StoreOK
<1> QED BY <1>1, <1>2, <1>3, LogTypes, Bounds DEF EntryTerm, Indices

\* A certified entry is not dead: the two majorities would meet.
LEMMA CertNotDead ==
    ASSUME TypeOK, NEW l \in Logs, NEW t \in Terms, NEW j \in Indices, Cert(l, t, j)
    PROVE  ~Dead(l, t, j)
<1> SUFFICES ASSUME Dead(l, t, j) PROVE FALSE
  OBVIOUS
<1>1. PICK R \in SUBSET Nodes : voterMajority(R) /\ \A q \in R : st[q].term > t /\ l.ak[q][t] < j
  BY DEF Dead
<1> DEFINE A == {q \in Nodes : l.ak[q][t] >= j}
<1>2. voterMajority(A)
  BY DEF Cert
<1>3. PICK q \in Nodes : q \in A /\ q \in R
  BY <1>1, <1>2, MajoritiesMeet
<1>4. l.ak[q][t] >= j /\ l.ak[q][t] < j /\ l.ak[q][t] \in Nat /\ j \in Nat
  BY <1>1, <1>3, LogTypes, Bounds DEF Indices
<1> QED BY <1>4

\* A certified prefix is in the log of every winner of that term or later.
LEMMA CertInWinner ==
    ASSUME TypeOK, NEW e \in Elections, NEW l \in Logs, LeaderLogs(e, l), WinnerInv(e, l),
           NEW t \in Terms, NEW j \in Indices, Cert(l, t, j),
           NEW u \in Terms, t <= u, Won(e, u)
    PROVE  j <= l.ln[u] /\ l.en[u][j].term = t /\ \A i \in 1..j : l.en[u][i] = l.en[t][i]
<1>1. Created(l, t, j) /\ ~Dead(l, t, j) /\ t \in Nat /\ u \in Nat /\ l.ln[t] \in Nat /\ j \in Nat
  BY CertNotDead, LogTypes, Bounds DEF Cert, Indices
<1>2. CASE t = u
  BY <1>1, <1>2 DEF Created
<1>3. CASE t # u
  <2>1. j <= l.ln[u] /\ l.en[u][j].term = t
    BY <1>1, <1>3 DEF WinnerInv
  <2>2. j <= l.ln[t] /\ l.en[t][j].term = t
    BY <1>1 DEF Created
  <2> QED BY <2>1, <2>2, PrefixAgrees
<1> QED BY <1>2, <1>3

\* Two certified prefixes agree where both reach.
LEMMA CertsAgree ==
    ASSUME TypeOK, NEW e \in Elections, NEW l \in Logs, LeaderLogs(e, l), WinnerInv(e, l),
           NEW t \in Terms, NEW j \in Indices, Cert(l, t, j),
           NEW u \in Terms, NEW k \in Indices, Cert(l, u, k),
           NEW i \in Indices, i <= j, i <= k
    PROVE  l.en[t][i] = l.en[u][i]
<1>1. t \in Nat /\ u \in Nat /\ i \in 1..j /\ i \in 1..k
  BY LogTypes, Bounds DEF Indices
<1>2. Won(e, t) /\ Won(e, u)
  <2>1. j \in 1..l.ln[t] /\ k \in 1..l.ln[u]
    BY DEF Cert, Created
  <2>2. l.ln[t] # 0 /\ l.ln[u] # 0
    BY <2>1
  <2> QED BY <2>2 DEF LeaderLogs
<1>3. CASE t <= u
  BY <1>1, <1>2, <1>3, CertInWinner
<1>4. CASE u <= t
  BY <1>1, <1>2, <1>4, CertInWinner
<1> QED BY <1>1, <1>3, <1>4

\* The chosen prefix committed by term T is in the log of the winner of T.
LEMMA CommittedInWinner ==
    ASSUME TypeOK, NEW e \in Elections, NEW l \in Logs, LeaderLogs(e, l), WinnerInv(e, l),
           NEW T \in Terms, Won(e, T), NEW c \in Nat, Committed(l, T, c)
    PROVE  c <= l.ln[T] /\ \A i \in 1..c : chosen[i] = l.en[T][i]
<1>1. CASE c = 0
  BY <1>1, LogTypes
<1>2. CASE c # 0
  <2>1. PICK t \in Terms, j \in Indices :
          t <= T /\ j >= c /\ Cert(l, t, j) /\ \A i \in 1..c : chosen[i] = l.en[t][i]
    BY <1>2 DEF Committed
  <2>2. j <= l.ln[T] /\ \A i \in 1..j : l.en[T][i] = l.en[t][i]
    BY <2>1, CertInWinner
  <2>3. j \in Nat /\ l.ln[T] \in Nat
    BY LogTypes, Bounds DEF Indices
  <2> QED BY <2>1, <2>2, <2>3
<1> QED BY <1>1, <1>2

\* A part of a committed prefix is committed.
LEMMA CommittedLess ==
    ASSUME NEW l \in Logs, NEW T \in Terms, NEW c \in Nat, Committed(l, T, c),
           NEW d \in Nat, d <= c
    PROVE  Committed(l, T, d)
<1>1. CASE c = 0
  BY <1>1 DEF Committed
<1>2. CASE c # 0
  <2>1. PICK t \in Terms, j \in Indices :
          t <= T /\ j >= c /\ Cert(l, t, j) /\ \A i \in 1..c : chosen[i] = l.en[t][i]
    BY <1>2 DEF Committed
  <2>2. j \in Nat /\ j >= d /\ \A i \in 1..d : i \in 1..c
    BY <2>1, Bounds DEF Indices
  <2> QED BY <2>1, <2>2 DEF Committed
<1> QED BY <1>1, <1>2

-----------------------------------------------------------------------------
(* What no step undoes *)

\* Terms, acknowledgements and winners' logs only grow, and a node acknowledges
\* nothing in a term it has left.
Grows(l, k) ==
    /\ \A q \in Nodes : st'[q].term >= st[q].term
    /\ \A q \in Nodes, t \in Terms :
         k.ak[q][t] >= l.ak[q][t] /\ (st[q].term > t => k.ak[q][t] = l.ak[q][t])
    /\ \A t \in Terms :
         k.ln[t] >= l.ln[t] /\ \A i \in 1..l.ln[t] : k.en[t][i] = l.en[t][i]

\* A superset of a majority is one.
LEMMA MajorityGrows ==
    ASSUME NEW A \in SUBSET Nodes, NEW B \in SUBSET Nodes, A \subseteq B, voterMajority(A)
    PROVE  voterMajority(B)
<1>1. A \cap Nodes = A /\ B \cap Nodes = B
  OBVIOUS
<1>2. IsFiniteSet(B) /\ IsFiniteSet(Nodes)
  BY Bounds, FS_Subset
<1>3. /\ Cardinality(A) <= Cardinality(B) /\ IsFiniteSet(A)
      /\ Cardinality(A) \in Nat /\ Cardinality(B) \in Nat /\ Cardinality(Nodes) \in Nat
  BY <1>2, FS_Subset, FS_CardinalityType
<1>4. \A a, b, n \in Nat : a >= n \div 2 + 1 /\ a <= b => b >= n \div 2 + 1
  OBVIOUS
<1> QED BY <1>1, <1>3, <1>4 DEF voterMajority

\* A dead entry stays dead.
LEMMA DeadStays ==
    ASSUME TypeOK, TypeOK', NEW l \in Logs, NEW k \in Logs, Grows(l, k),
           NEW t \in Terms, NEW i \in Nat, Dead(l, t, i)
    PROVE  Dead(k, t, i)'
<1>1. PICK R \in SUBSET Nodes : voterMajority(R) /\ \A q \in R : st[q].term > t /\ l.ak[q][t] < i
  BY DEF Dead
<1>2. ASSUME NEW q \in R PROVE st'[q].term > t /\ k.ak[q][t] < i
  <2>1. q \in Nodes /\ st[q].term > t /\ l.ak[q][t] < i
    BY <1>1
  <2>2. st'[q].term >= st[q].term /\ k.ak[q][t] = l.ak[q][t]
    BY <2>1 DEF Grows
  <2>3. st[q].term \in Nat /\ st'[q].term \in Nat /\ t \in Nat
    <3>1. st' \in [Nodes -> Store]
      BY DEF TypeOK, StoreType
    <3>2. st'[q].term \in Terms
      BY <3>1, <2>1 DEF Store
    <3> QED BY <2>1, <3>2, TermsNat, LogTypes
  <2> QED BY <2>1, <2>2, <2>3
<1> QED BY <1>1, <1>2 DEF Dead, voterMajority

\* Terms after a step are natural numbers too.
LEMMA TermsNatNext ==
    ASSUME TypeOK', NEW n \in Nodes
    PROVE  st'[n].term \in Terms /\ st'[n].term \in Nat /\ st'[n] \in Store /\ StoreOK(st'[n])
<1>1. st' \in [Nodes -> Store] /\ StoreOK(st'[n])
  BY DEF TypeOK, StoreType, StoreOK, LastIndex
<1>2. st'[n].term \in Terms
  BY <1>1 DEF Store
<1> QED BY <1>1, <1>2, Bounds DEF Terms

\* A certified entry stays certified.
LEMMA CertStays ==
    ASSUME NEW l \in Logs, NEW k \in Logs, Grows(l, k),
           NEW t \in Terms, NEW j \in Indices, Cert(l, t, j)
    PROVE  Cert(k, t, j)
<1>1. Created(k, t, j)
  <2>1. j \in 1..l.ln[t] /\ l.en[t][j].term = t
    BY DEF Cert, Created
  <2>2. k.ln[t] >= l.ln[t] /\ k.en[t][j] = l.en[t][j] /\ l.ln[t] \in Nat /\ k.ln[t] \in Nat
    BY <2>1, LogTypes DEF Grows
  <2> QED BY <2>1, <2>2 DEF Created
<1> DEFINE A == {q \in Nodes : l.ak[q][t] >= j}
           B == {q \in Nodes : k.ak[q][t] >= j}
<1>2. \A q \in Nodes : k.ak[q][t] >= l.ak[q][t] /\ k.ak[q][t] \in Nat /\ l.ak[q][t] \in Nat /\ j \in Nat
  BY LogTypes, Bounds DEF Grows, Indices
<1>3. A \subseteq B
  BY <1>2
<1>4. voterMajority(A)
  BY DEF Cert
<1>5. voterMajority(B)
  BY <1>3, <1>4, MajorityGrows
<1> QED BY <1>1, <1>5 DEF Cert

\* What is committed by a term stays so for that term and later ones.
LEMMA CommittedStays ==
    ASSUME NEW l \in Logs, NEW k \in Logs, Grows(l, k), NEW T \in Terms, NEW U \in Terms,
           T <= U, NEW c \in Nat, Committed(l, T, c), \A i \in 1..c : chosen'[i] = chosen[i]
    PROVE  Committed(k, U, c)'
<1> SUFFICES ASSUME c # 0
             PROVE  \E t \in Terms, j \in Indices :
                      t <= U /\ j >= c /\ Cert(k, t, j) /\ \A i \in 1..c : chosen'[i] = k.en[t][i]
  BY DEF Committed, Cert, Created, voterMajority
<1>1. PICK t \in Terms, j \in Indices :
        t <= T /\ j >= c /\ Cert(l, t, j) /\ \A i \in 1..c : chosen[i] = l.en[t][i]
  BY DEF Committed
<1>2. Cert(k, t, j) /\ t \in Nat /\ T \in Nat /\ U \in Nat /\ j \in Nat
  BY <1>1, CertStays, LogTypes, Bounds DEF Indices
<1>3. \A i \in 1..c : k.en[t][i] = l.en[t][i]
  <2>1. j \in 1..l.ln[t] /\ l.ln[t] \in Nat
    BY <1>1, LogTypes DEF Cert, Created
  <2>2. \A i \in 1..c : i \in 1..l.ln[t]
    BY <1>1, <1>2, <2>1
  <2> QED BY <2>2 DEF Grows
<1>4. t <= U
  BY <1>1, <1>2
<1>5. \A i \in 1..c : chosen'[i] = k.en[t][i]
  BY <1>1, <1>3
<1> QED BY <1>1, <1>2, <1>4, <1>5

\* A store that follows a winner's log still does when that log has grown.
LEMMA LogStays ==
    ASSUME NEW l \in Logs, NEW k \in Logs, Grows(l, k), NEW s, StoreOK(s), LogOK(l, s)
    PROVE  LogOK(k, s) /\ \A i \in 1..LastIndex(s) : k.en[LastTerm(s)][i] = l.en[LastTerm(s)][i]
<1>1. LastTerm(s) \in Terms /\ LastIndex(s) \in Nat
  BY LastRetained
<1>2. /\ k.ln[LastTerm(s)] >= l.ln[LastTerm(s)]
      /\ \A i \in 1..l.ln[LastTerm(s)] : k.en[LastTerm(s)][i] = l.en[LastTerm(s)][i]
      /\ k.ln[LastTerm(s)] \in Nat /\ l.ln[LastTerm(s)] \in Nat
  BY <1>1, LogTypes DEF Grows
<1>3. LastIndex(s) <= l.ln[LastTerm(s)]
  BY DEF LogOK
<1>4. \A i \in 1..LastIndex(s) : k.en[LastTerm(s)][i] = l.en[LastTerm(s)][i]
  BY <1>1, <1>2, <1>3
<1>5. s.snapIndex \in Nat /\ s.snapIndex <= LastIndex(s)
  BY <1>1 DEF StoreOK, Store
<1>6. EntryTerm(k, LastTerm(s), s.snapIndex) = EntryTerm(l, LastTerm(s), s.snapIndex)
  BY <1>4, <1>5, <1>1, SMTT(60) DEF EntryTerm
<1>7. \A i \in (s.snapIndex + 1)..LastIndex(s) : k.en[LastTerm(s)][i] = l.en[LastTerm(s)][i]
  BY <1>4, <1>5, <1>1
<1> QED BY <1>1, <1>2, <1>3, <1>4, <1>6, <1>7 DEF LogOK

\* A request stays true.
LEMMA RequestStays ==
    ASSUME TypeOK, NEW e \in Elections, NEW f \in Elections, NEW l \in Logs, NEW k \in Logs,
           Grows(l, k), NEW m, MessageOK(m), RequestTrue(e, l, m),
           f.wn[m.term] = e.wn[m.term],
           \A i \in 1..m.commit : chosen'[i] = chosen[i],
           \A n \in Nodes : st'[n].commit >= st[n].commit /\ st'[n].commit \in Nat
    PROVE  RequestTrue(f, k, m)'
<1> DEFINE T == m.term
<1>1. /\ T \in Terms /\ m.index \in Nat /\ Len(m.entries) \in Nat /\ m.commit \in Nat
      /\ m.entries \in Seq(Entries) /\ T <= T
  BY Bounds DEF MessageOK, Messages, Terms
<1>2. /\ k.ln[T] >= l.ln[T] /\ \A i \in 1..l.ln[T] : k.en[T][i] = l.en[T][i]
      /\ k.ln[T] \in Nat /\ l.ln[T] \in Nat
  BY <1>1, LogTypes DEF Grows
<1>3. /\ e.wn[T] = m.from /\ m.from # m.to
      /\ m.index + Len(m.entries) <= l.ln[T]
      /\ m.prevTerm = EntryTerm(l, T, m.index)
      /\ \A i \in 1..Len(m.entries) : m.entries[i] = l.en[T][m.index + i]
      /\ m.commit <= m.index + Len(m.entries)
      /\ Committed(l, T, m.commit)
      /\ \E n \in Nodes : m.commit <= st[n].commit
  BY DEF RequestTrue
<1>4. m.prevTerm = EntryTerm(k, T, m.index)
  BY <1>1, <1>2, <1>3, SMTT(60) DEF EntryTerm
<1>5. \A i \in 1..Len(m.entries) : m.entries[i] = k.en[T][m.index + i]
  <2> TAKE i \in 1..Len(m.entries)
  <2>1. m.index + i \in 1..l.ln[T]
    BY <1>1, <1>2, <1>3
  <2> QED BY <2>1, <1>2, <1>3
<1>6. Committed(k, T, m.commit)'
  BY <1>1, <1>3, CommittedStays
<1>7. \E n \in Nodes : m.commit <= st'[n].commit
  <2>1. PICK n \in Nodes : m.commit <= st[n].commit
    BY <1>3
  <2>2. st[n].commit \in Nat
    BY DEF TypeOK, StoreType, Store
  <2> QED BY <2>1, <2>2, <1>1
<1>8. m.type = "snapshot" =>
         /\ m.index = m.commit /\ m.index > 0 /\ m.entries = <<>>
         /\ m.epoch = At(m.index)'.epoch /\ m.view = At(m.index)'.view
  <2> SUFFICES ASSUME m.type = "snapshot"
               PROVE  /\ m.index = m.commit /\ m.index > 0 /\ m.entries = <<>>
                      /\ m.epoch = At(m.index)'.epoch /\ m.view = At(m.index)'.view
    OBVIOUS
  <2>1. /\ m.index = m.commit /\ m.index > 0 /\ m.entries = <<>>
        /\ m.epoch = At(m.index).epoch /\ m.view = At(m.index).view
    BY DEF RequestTrue
  <2>2. chosen'[m.index] = chosen[m.index]
    BY <2>1, <1>1
  <2> QED BY <2>1, <2>2, <1>1 DEF At
<1>9. m.index + Len(m.entries) <= k.ln[T]
  BY <1>1, <1>2, <1>3, SMTT(60)
<1> QED BY <1>3, <1>4, <1>5, <1>6, <1>7, <1>8, <1>9 DEF RequestTrue, EntryTerm

\* A store keeps what it committed, when its log still has it.
LEMMA StoreCommittedStays ==
    ASSUME NEW l \in Logs, NEW k \in Logs, Grows(l, k), NEW s, StoreOK(s), StoreCommitted(l, s),
           NEW r, StoreOK(r), r.term >= s.term, r.commit = s.commit,
           r.epoch = s.epoch, r.view = s.view,
           \A i \in 1..s.commit : chosen'[i] = chosen[i] /\ k.en[LastTerm(r)][i] = l.en[LastTerm(s)][i],
           \/ r.snapIndex = s.snapIndex /\ r.snapEpoch = s.snapEpoch /\ r.snapView = s.snapView
           \/ r.snapIndex = s.commit /\ r.snapEpoch = s.epoch /\ r.snapView = s.view
    PROVE  StoreCommitted(k, r)'
<1>1. /\ s.commit \in Nat /\ s.snapIndex \in Nat /\ s.snapIndex <= s.commit
      /\ s.term \in Terms /\ r.term \in Terms
  BY DEF StoreOK, Store
<1>2. Committed(k, r.term, r.commit)'
  BY <1>1, CommittedStays DEF StoreCommitted
<1>3. \A i \in 0..s.commit : At(i)' = At(i)
  BY <1>1 DEF At
<1>4. \A i \in 1..s.commit : At(i - 1)' = At(i - 1)
  BY <1>1, <1>3
<1>5. \A i \in 1..r.commit : /\ chosen'[i] = k.en[LastTerm(r)][i]
                             /\ Extends(At(i - 1)', chosen'[i])
  BY <1>1, <1>4 DEF StoreCommitted
<1>6. At(s.commit)' = At(s.commit) /\ At(s.snapIndex)' = At(s.snapIndex)
  BY <1>1, <1>3
<1>7. r.epoch = At(r.commit)'.epoch /\ r.view = At(r.commit)'.view
  BY <1>6 DEF StoreCommitted
<1>8. r.snapEpoch = At(r.snapIndex)'.epoch /\ r.snapView = At(r.snapIndex)'.view
  BY <1>6, <1>7, SMTT(60) DEF StoreCommitted
<1> QED BY <1>2, <1>5, <1>7, <1>8 DEF StoreCommitted, Extends, LastTerm, LastIndex, TermAt

\* What a store committed, told of the state after a step.
LEMMA StoreCommittedNext ==
    ASSUME NEW l, NEW n, NEW r, r = st'[n], StoreCommitted(l, r)'
    PROVE  StoreCommitted(l, st[n])'
  BY DEF StoreCommitted, Committed, At, LastTerm, LastIndex, TermAt

\* Nothing changes in the record of logs and no term decreases.
LEMMA GrowsSame ==
    ASSUME NEW l \in Logs, \A q \in Nodes : st'[q].term >= st[q].term
    PROVE  Grows(l, l)
  BY LogTypes DEF Grows

\* Acknowledgements and winners' logs, when every node keeps its log.
LEMMA AcksStay ==
    ASSUME TypeOK, TypeOK', NEW l \in Logs, AckInv(l),
           NEW e \in Elections, NEW f \in Elections, f.wn = e.wn, WinnerInv(e, l),
           \A q \in Nodes : /\ st'[q].term >= st[q].term
                            /\ LastIndex(st'[q]) = LastIndex(st[q])
                            /\ LastTerm(st'[q]) = LastTerm(st[q])
    PROVE  AckInv(l)' /\ WinnerInv(f, l)'
<1>1. Grows(l, l)
  BY GrowsSame
<1>2. AckInv(l)'
  <2> SUFFICES ASSUME NEW q \in Nodes, NEW t \in Terms
               PROVE  /\ l.ak[q][t] <= l.ln[t] /\ (l.ak[q][t] > 0 => t <= st'[q].term)
                      /\ \A i \in 1..l.ak[q][t] :
                           Created(l, t, i) => Has(l, st'[q], t, i) \/ Dead(l, t, i)'
    BY DEF AckInv, Created, Has, Dead, LastTerm, LastIndex, TermAt
  <2>1. /\ l.ak[q][t] <= l.ln[t] /\ (l.ak[q][t] > 0 => t <= st[q].term)
        /\ \A i \in 1..l.ak[q][t] : Created(l, t, i) => Has(l, st[q], t, i) \/ Dead(l, t, i)
    BY DEF AckInv
  <2>2. st[q].term \in Nat /\ st'[q].term \in Nat /\ t \in Nat
    BY TermsNat, TermsNatNext, LogTypes
  <2>3. \A i \in 1..l.ak[q][t] : i \in Nat
    OBVIOUS
  <2>4. ASSUME NEW i \in 1..l.ak[q][t], Created(l, t, i)
        PROVE  Has(l, st'[q], t, i) \/ Dead(l, t, i)'
    <3>1. CASE Has(l, st[q], t, i)
      BY <3>1 DEF Has
    <3>2. CASE Dead(l, t, i)
      BY <3>2, <2>3, <1>1, DeadStays
    <3> QED BY <2>1, <2>4, <3>1, <3>2
  <2> QED BY <2>1, <2>2, <2>4, SMTT(60)
<1>3. WinnerInv(f, l)'
  <2> SUFFICES ASSUME NEW t \in Terms, NEW u \in Terms, t < u, Won(f, u),
                      NEW i \in Indices, Created(l, t, i)
               PROVE  (i <= l.ln[u] /\ l.en[u][i].term = t) \/ Dead(l, t, i)'
    BY DEF WinnerInv, Created, Won
  <2>1. (i <= l.ln[u] /\ l.en[u][i].term = t) \/ Dead(l, t, i)
    BY DEF WinnerInv, Won
  <2>2. i \in Nat
    BY DEF Indices
  <2> QED BY <2>1, <2>2, <1>1, DeadStays
<1> QED BY <1>2, <1>3

\* The winner of a store's term, once the store has moved to a later term.
LEMMA LeaderHasStays ==
    ASSUME TypeOK, TypeOK', NEW e \in Elections, ElectionInv(e), NEW f \in Elections, f.wn = e.wn,
           NEW l \in Logs, NEW n \in Nodes, LeaderHas(e, l, n, st[n]),
           st'[n].term >= st[n].term,
           LastIndex(st'[n]) = LastIndex(st[n]), LastTerm(st'[n]) = LastTerm(st[n])
    PROVE  LeaderHas(f, l, n, st'[n])
<1>1. st[n].term \in Nat /\ st'[n].term \in Nat /\ st'[n].term \in Terms /\ ballot[n].term \in Nat
  BY TermsNat, TermsNatNext
<1>2. CASE st'[n].term = st[n].term
  BY <1>2 DEF LeaderHas
<1>3. CASE st'[n].term # st[n].term
  <2>1. e.wn[st'[n].term] # n
    <3> SUFFICES ASSUME e.wn[st'[n].term] = n PROVE FALSE
      OBVIOUS
    <3>1. st'[n].term <= ballot[n].term
      BY <1>1, Bounds DEF ElectionInv, QuorumsKept
    <3>2. ballot[n].term <= st[n].term
      BY DEF ElectionInv, BallotsSeen
    <3> QED BY <3>1, <3>2, <1>1, <1>3
  <2> QED BY <2>1 DEF LeaderHas
<1> QED BY <1>2, <1>3

\* The part of the invariant that campaigns have no part in.
Settled(e, l) ==
    /\ LeaderLogs(e, l) /\ NodeLogs(e, l) /\ AckInv(l) /\ WinnerInv(e, l)
    /\ ProposalInv(e, l) /\ CommitInv(l)

\* Every node keeps the log, the commits and the proposal it had, but may compact
\* the log, raise its term or give up the proposal.
Steady(l) ==
    /\ chosen' = chosen
    /\ \A q \in Nodes :
         /\ st'[q].term >= st[q].term /\ LogOK(l, st'[q])
         /\ LastIndex(st'[q]) = LastIndex(st[q]) /\ LastTerm(st'[q]) = LastTerm(st[q])
         /\ st'[q].commit = st[q].commit
         /\ st'[q].epoch = st[q].epoch /\ st'[q].view = st[q].view
         /\ \/ /\ st'[q].snapIndex = st[q].snapIndex
               /\ st'[q].snapEpoch = st[q].snapEpoch /\ st'[q].snapView = st[q].snapView
            \/ /\ st'[q].snapIndex = st[q].commit
               /\ st'[q].snapEpoch = st[q].epoch /\ st'[q].snapView = st[q].view
         /\ proposal'[q] \in {proposal[q], NoProposal}

\* No commit index goes back, and what was committed stays chosen.
Forward == \A q \in Nodes : /\ st'[q].commit >= st[q].commit
                            /\ \A i \in 1..st[q].commit : chosen'[i] = chosen[i]

\* A step after which every node has the log and the commits it had.
LEMMA QuietLogs ==
    ASSUME NEW e \in Elections, NEW l \in Logs, RaftInv(e, l), TypeOK',
           NEW f \in Elections, f.wn = e.wn, Steady(l)
    PROVE  Settled(f, l)' /\ Forward /\ \A m \in msgs : RequestTrue(f, l, m)'
<1>1. /\ TypeOK /\ ElectionInv(e) /\ LeaderLogs(e, l) /\ NodeLogs(e, l) /\ AckInv(l)
      /\ WinnerInv(e, l) /\ ProposalInv(e, l) /\ CommitInv(l) /\ RequestInv(e, l)
  BY DEF RaftInv, LogInv
<1> USE DEF Steady
<1>2. Grows(l, l)
  BY GrowsSame
<1>3. LeaderLogs(f, l)'
  BY <1>1, SMTT(60) DEF LeaderLogs, Won
<1>4. NodeLogs(f, l)'
  <2>1. \A n \in Nodes : LogOK(l, st'[n]) /\ LeaderHas(f, l, n, st'[n])
    BY <1>1, LeaderHasStays DEF NodeLogs
  <2> QED BY <2>1 DEF NodeLogs, LogOK, LeaderHas, LastIndex, LastTerm, TermAt, EntryAt
<1>5. AckInv(l)' /\ WinnerInv(f, l)'
  BY <1>1, AcksStay
<1>6. ProposalInv(f, l)'
  BY <1>1 DEF ProposalInv
<1>7. CommitInv(l)'
  <2>1. ASSUME NEW n \in Nodes PROVE StoreCommitted(l, st[n])'
    <3>1. StoreOK(st[n]) /\ StoreOK(st'[n]) /\ StoreCommitted(l, st[n])
      BY <1>1, TermsNatNext DEF TypeOK, StoreType, CommitInv
    <3>2. PICK r : r = st'[n]
      OBVIOUS
    <3>3. \A i \in 1..st[n].commit :
            chosen'[i] = chosen[i] /\ l.en[LastTerm(r)][i] = l.en[LastTerm(st[n])][i]
      BY <3>2
    <3>4. StoreCommitted(l, r)'
      BY <3>1, <3>2, <3>3, <1>2, StoreCommittedStays
    <3> QED BY <3>2, <3>4, StoreCommittedNext
  <2> QED BY <1>1, <2>1 DEF CommitInv
<1>8. \A m \in msgs : RequestTrue(f, l, m)'
  <2> TAKE m \in msgs
  <2>1. RequestTrue(e, l, m) /\ MessageOK(m)
    BY <1>1 DEF RequestInv, TypeOK, RestType
  <2>2. \A n \in Nodes : st'[n].commit >= st[n].commit /\ st'[n].commit \in Nat
    BY TermsNatNext DEF Store
  <2> QED BY <1>1, <1>2, <2>1, <2>2, RequestStays
<1>9. Forward
  <2>1. \A n \in Nodes : st'[n].commit = st[n].commit /\ st'[n].commit \in Nat
    BY TermsNatNext DEF Store
  <2> QED BY <2>1 DEF Forward
<1> QED BY <1>3, <1>4, <1>5, <1>6, <1>7, <1>8, <1>9 DEF Settled

\* A candidate's voters have left the terms below its ballot, so they acknowledge
\* nothing more in them.
LEMMA BallotsStay ==
    ASSUME TypeOK, TypeOK', NEW e \in Elections, ElectionInv(e), NEW l \in Logs, NEW k \in Logs,
           AckInv(l), BallotInv(l), Grows(l, k), ballot' = ballot,
           \A q \in Nodes : role'[q] \in {role[q], "follower", "leader"} /\ votes'[q] \subseteq votes[q]
    PROVE  BallotInv(k)'
<1> SUFFICES ASSUME NEW c \in Nodes, role'[c] = "candidate", NEW q \in votes'[c], NEW t \in Terms,
                    t < ballot[c].term, NEW i \in 1..k.ak[q][t], Created(k, t, i)
             PROVE  \/ ballot[c].lastTerm > t
                    \/ ballot[c].lastTerm = t /\ ballot[c].lastIndex >= i
                    \/ Dead(k, t, i)'
  BY DEF BallotInv, Created
<1>1. role[c] = "candidate" /\ q \in votes[c] /\ q \in Nodes
  BY DEF TypeOK, RestType
<1>2. e.vt[q][ballot[c].term] = c /\ c # Nobody
  BY <1>1, Bounds DEF ElectionInv, VotesCast
<1>3. ballot[c].term \in Terms /\ ballot[c].term \in Nat /\ st[q].term \in Nat /\ t \in Nat
  BY <1>1, TermsNat, LogTypes
<1>4. ballot[c].term <= st[q].term
  BY <1>1, <1>2, <1>3 DEF ElectionInv, VotesKept, VoteOK
<1>5. k.ak[q][t] = l.ak[q][t]
  BY <1>1, <1>3, <1>4 DEF Grows
<1>6. Created(l, t, i)
  <2>1. l.ak[q][t] <= l.ln[t] /\ l.ak[q][t] \in Nat /\ l.ln[t] \in Nat
    BY <1>1, LogTypes DEF AckInv
  <2>2. i \in 1..l.ln[t]
    BY <1>5, <2>1
  <2> QED BY <2>2 DEF Created, Grows
<1>7. \/ ballot[c].lastTerm > t
      \/ ballot[c].lastTerm = t /\ ballot[c].lastIndex >= i
      \/ Dead(l, t, i)
  BY <1>1, <1>5, <1>6 DEF BallotInv
<1>8. i \in Nat
  OBVIOUS
<1> QED BY <1>7, <1>8, DeadStays

\* A steady step that leaves elections alone keeps the invariant; new requests are
\* looked at where they are sent.
LEMMA SteadyRaft ==
    ASSUME NEW e \in Elections, NEW l \in Logs, RaftInv(e, l), TypeOK', Quiet, Together', Steady(l)
    PROVE  /\ ElectionInv(e)' /\ Settled(e, l)' /\ Campaigns' /\ BallotInv(l)'
           /\ \A m \in msgs : RequestTrue(e, l, m)'
           /\ Forward /\ (msgs' \subseteq msgs => RaftInv(e, l)')
<1>1. /\ TypeOK /\ ElectionInv(e) /\ Campaigns /\ AckInv(l) /\ BallotInv(l)
  BY DEF RaftInv, LogInv
<1>2. ElectionInv(e)'
  BY <1>1, QuietElections
<1>3. Settled(e, l)' /\ Forward /\ \A m \in msgs : RequestTrue(e, l, m)'
  BY QuietLogs
<1>4. \A q \in Nodes : role'[q] \in {role[q], "follower"} /\ votes'[q] \subseteq votes[q]
  BY DEF Quiet
<1>5. ballot' = ballot
  BY DEF Quiet
<1>6. Campaigns'
  <2>1. \A n \in Nodes : role'[n] = "candidate" => role[n] = "candidate"
    BY <1>4
  <2>2. \A n \in Nodes : LastIndex(st'[n]) = LastIndex(st[n]) /\ LastTerm(st'[n]) = LastTerm(st[n])
    BY DEF Steady
  <2> QED BY <1>1, <1>5, <2>1, <2>2 DEF Campaigns, LastIndex, LastTerm, TermAt
<1>7. Grows(l, l)
  BY GrowsSame DEF Steady
<1>8. BallotInv(l)'
  <2>1. \A q \in Nodes : role'[q] \in {role[q], "follower", "leader"} /\ votes'[q] \subseteq votes[q]
    BY <1>4
  <2> QED BY <1>1, <1>5, <1>7, <2>1, BallotsStay
<1>9. ASSUME msgs' \subseteq msgs PROVE RequestInv(e, l)'
  BY <1>3, <1>9 DEF RequestInv
<1> QED BY <1>2, <1>3, <1>6, <1>8, <1>9 DEF RaftInv, LogInv, Settled

\* One node changes its store, its role follows at once.
LEMMA TogetherPersist ==
    ASSUME TypeOK, Together, ~StepDownWindow, NEW n \in Nodes, NEW s, StoreOK(s), Persist(n, s),
           StepDown(n) \/ (StayPut /\ s.term = st[n].term), ballot' = ballot
    PROVE  Together'
<1>1. st' = disk'
  BY DEF Together, Persist
<1>2. /\ st'[n] = s /\ \A p \in Nodes \ {n} : st'[p] = st[p]
  BY PersistOK DEF TypeOK
<1>3. CASE StepDown(n)
  <2>1. role' = [role EXCEPT ![n] = "follower"] /\ stepping' = stepping
    BY <1>3 DEF StepDown
  <2> QED BY <1>1, <1>2, <2>1 DEF Together, TypeOK, RoleType
<1>4. CASE StayPut /\ s.term = st[n].term
  <2>1. role' = role /\ stepping' = stepping
    BY <1>4 DEF StayPut
  <2> QED BY <1>1, <1>2, <1>4, <2>1 DEF Together
<1> QED BY <1>3, <1>4

\* One node changes its store without touching log and commits.
LEMMA SteadyPersist ==
    ASSUME NEW e \in Elections, NEW l \in Logs, RaftInv(e, l),
           NEW n \in Nodes, NEW s, StoreOK(s), Persist(n, s),
           s.term >= st[n].term, s.log = st[n].log, s.snapIndex = st[n].snapIndex,
           s.snapTerm = st[n].snapTerm, s.snapEpoch = st[n].snapEpoch, s.snapView = st[n].snapView,
           s.commit = st[n].commit, s.epoch = st[n].epoch, s.view = st[n].view,
           chosen' = chosen, \A q \in Nodes : proposal'[q] \in {proposal[q], NoProposal}
    PROVE  Steady(l)
<1>1. /\ st'[n] = s /\ \A p \in Nodes \ {n} : st'[p] = st[p]
  BY PersistOK DEF RaftInv, TypeOK
<1>2. LastIndex(s) = LastIndex(st[n]) /\ LastTerm(s) = LastTerm(st[n])
  BY DEF LastIndex, LastTerm, TermAt
<1>3. \A q \in Nodes : LogOK(l, st[q]) /\ st[q].term \in Nat
  BY TermsNat DEF RaftInv, LogInv, NodeLogs
<1>4. LastTerm(s) \in Nat /\ s.term \in Nat
  <2>1. LastTerm(s) \in Terms /\ s.term \in Terms
    BY LastRetained DEF StoreOK, Store
  <2> QED BY <2>1, Bounds DEF Terms
<1>5. LogOK(l, s)
  BY <1>2, <1>3, <1>4 DEF LogOK, EntryAt
<1> QED BY <1>1, <1>2, <1>3, <1>5 DEF Steady

-----------------------------------------------------------------------------
(* Steps that leave every log as it is *)

\* A step that changes no store.
LEMMA SteadySame ==
    ASSUME NEW e \in Elections, NEW l \in Logs, RaftInv(e, l), UNCHANGED <<st, disk, chosen>>,
           \A q \in Nodes : proposal'[q] \in {proposal[q], NoProposal}
    PROVE  Steady(l)
<1>1. \A q \in Nodes : LogOK(l, st[q]) /\ st[q].term \in Nat
  BY TermsNat DEF RaftInv, LogInv, NodeLogs
<1> QED BY <1>1 DEF Steady

\* A node without quorum contact stops leading; nothing is deferred.
LEMMA LogFollower ==
    ASSUME NEW e \in Elections, NEW l \in Logs, RaftInv(e, l), NEW n \in Nodes,
           becomeFollower(n) \/ expireLeaderWithoutQuorum(n)
    PROVE  RaftInv(e, l)' /\ Forward
<1>1. TypeOK' /\ Quiet
  BY TypeFollower DEF RaftInv
<1>2. /\ UNCHANGED <<st, disk, chosen, ballot, proposal, msgs>>
      /\ role' = [role EXCEPT ![n] = "follower"]
      /\ stepping' = stepping \/ stepping' = [stepping EXCEPT ![n] = FALSE]
  BY DEF becomeFollower, expireLeaderWithoutQuorum
<1>3. Together'
  BY <1>2 DEF RaftInv, Together, TypeOK, RoleType
<1>4. Steady(l)
  BY <1>2, SteadySame
<1> QED BY <1>1, <1>2, <1>3, <1>4, SteadyRaft

\* A request is lost.
LEMMA LogLose ==
    ASSUME NEW e \in Elections, NEW l \in Logs, RaftInv(e, l), NEW m \in msgs, Lose(m)
    PROVE  RaftInv(e, l)' /\ Forward
<1>1. TypeOK' /\ Quiet
  BY TypeLose DEF RaftInv
<1>2. UNCHANGED <<st, disk, role, stepping, ballot, proposal, chosen>> /\ msgs' \subseteq msgs
  BY DEF Lose
<1>3. Together'
  BY <1>2 DEF RaftInv, Together
<1>4. Steady(l)
  BY <1>2, SteadySame
<1> QED BY <1>1, <1>2, <1>3, <1>4, SteadyRaft

\* A restart brings back the store the node had in memory.
LEMMA LogRestart ==
    ASSUME NEW e \in Elections, NEW l \in Logs, RaftInv(e, l), NEW n \in Nodes, Restart(n)
    PROVE  RaftInv(e, l)' /\ Forward
<1>1. TypeOK' /\ Quiet
  BY TypeRestart DEF RaftInv
<1>2. /\ UNCHANGED <<disk, ballot, msgs, chosen>> /\ st' = [st EXCEPT ![n] = disk[n]]
      /\ role' = [role EXCEPT ![n] = "follower"] /\ stepping' = [stepping EXCEPT ![n] = FALSE]
      /\ proposal' = [proposal EXCEPT ![n] = NoProposal]
  BY DEF Restart
<1>3. st' = st
  <2>1. st \in [Nodes -> Store] /\ st = disk
    BY DEF RaftInv, TypeOK, StoreType, Together
  <2> QED BY <1>2, <2>1
<1>4. Together'
  BY <1>2, <1>3 DEF RaftInv, Together, TypeOK, RoleType
<1>5. \A q \in Nodes : proposal'[q] \in {proposal[q], NoProposal}
  BY <1>2 DEF RaftInv, TypeOK, RestType
<1>6. Steady(l)
  BY <1>2, <1>3, <1>5, SteadySame
<1> QED BY <1>1, <1>2, <1>4, <1>6, SteadyRaft

\* A reply shows a higher term.
LEMMA LogObserve ==
    ASSUME ~StepDownWindow, NEW e \in Elections, NEW l \in Logs, RaftInv(e, l),
           NEW n \in Nodes, NEW p \in Nodes, ObserveTerm(n, p)
    PROVE  RaftInv(e, l)' /\ Forward
<1>1. TypeOK' /\ Quiet
  BY TypeObserve DEF RaftInv
<1>2. PICK s : s = AtTerm(st[n], st[p].term)
  OBVIOUS
<1>3. /\ Persist(n, s) /\ StepDown(n) /\ UNCHANGED <<ballot, proposal, msgs, chosen>>
  BY <1>2 DEF ObserveTerm
<1>4. StoreOK(st[n]) /\ st[p].term \in Terms /\ st[n].term \in Nat /\ st[p].term \in Nat
  BY TermsNat DEF RaftInv, TypeOK, StoreType
<1>5. /\ StoreOK(s) /\ s.term >= st[n].term
      /\ s.log = st[n].log /\ s.snapIndex = st[n].snapIndex
      /\ s.snapTerm = st[n].snapTerm /\ s.snapEpoch = st[n].snapEpoch /\ s.snapView = st[n].snapView
      /\ s.commit = st[n].commit /\ s.epoch = st[n].epoch /\ s.view = st[n].view
  BY <1>2, <1>4, AtTermOK
<1>6. Steady(l)
  <2>1. \A q \in Nodes : proposal'[q] \in {proposal[q], NoProposal}
    BY <1>3
  <2> QED BY <1>3, <1>5, <2>1, SteadyPersist
<1>7. Together'
  BY <1>3, <1>5, TogetherPersist DEF RaftInv
<1> QED BY <1>1, <1>3, <1>6, <1>7, SteadyRaft

\* Compaction keeps the log a store follows.
LEMMA CompactLog ==
    ASSUME NEW l \in Logs, NEW s, StoreOK(s), LogOK(l, s), NEW r, r = CompactCommitted(s)
    PROVE  LogOK(l, r)
<1>1. /\ StoreOK(r) /\ r.term = s.term /\ r.snapIndex = s.commit
      /\ s.commit # s.snapIndex => r.snapTerm = TermAt(s, s.commit)
      /\ s.commit = s.snapIndex => r = s
      /\ LastIndex(r) = LastIndex(s) /\ LastTerm(r) = LastTerm(s)
      /\ \A i \in (s.commit + 1)..LastIndex(s) : EntryAt(r, i) = EntryAt(s, i)
  BY CompactOK
<1>2. /\ s.commit \in Nat /\ s.snapIndex \in Nat /\ s.commit \in Retained(s)
      /\ s.snapIndex <= s.commit /\ LastIndex(s) \in Nat
  BY LastRetained DEF StoreOK, Store, Retained
<1>3. CASE s.commit = s.snapIndex
  BY <1>1, <1>3
<1>4. CASE s.commit # s.snapIndex
  <2>1. r.snapTerm = EntryTerm(l, LastTerm(s), s.commit)
    BY <1>1, <1>2, <1>4, TermAtLog
  <2>2. \A i \in (s.commit + 1)..LastIndex(s) : EntryAt(r, i) = l.en[LastTerm(s)][i]
    <3>1. \A i \in (s.commit + 1)..LastIndex(s) : i \in (s.snapIndex + 1)..LastIndex(s)
      BY <1>2
    <3> QED BY <1>1, <3>1 DEF LogOK
  <2> QED BY <1>1, <2>1, <2>2 DEF LogOK
<1> QED BY <1>3, <1>4

\* A proposal ends, with or without compaction.
LEMMA LogEnd ==
    ASSUME ~StepDownWindow, NEW e \in Elections, NEW l \in Logs, RaftInv(e, l),
           NEW n \in Nodes, EndPropose(n)
    PROVE  RaftInv(e, l)' /\ Forward
<1>1. TypeOK' /\ Quiet
  BY TypeEnd DEF RaftInv
<1>2. PICK r : r = CompactCommitted(st[n])
  OBVIOUS
<1>3. /\ UNCHANGED <<role, stepping, ballot, msgs, chosen>>
      /\ Persist(n, r) \/ UNCHANGED <<st, disk>>
      /\ proposal' = [proposal EXCEPT ![n] = NoProposal]
  BY <1>2 DEF EndPropose
<1>4. \A q \in Nodes : proposal'[q] \in {proposal[q], NoProposal}
  BY <1>3 DEF RaftInv, TypeOK, RestType
<1>5. CASE UNCHANGED <<st, disk>>
  <2>1. Steady(l)
    BY <1>3, <1>4, <1>5, SteadySame
  <2>2. Together'
    BY <1>3, <1>5 DEF RaftInv, Together
  <2> QED BY <1>1, <1>3, <2>1, <2>2, SteadyRaft
<1>6. CASE Persist(n, r)
  <2>1. StoreOK(st[n]) /\ LogOK(l, st[n]) /\ \A q \in Nodes : LogOK(l, st[q]) /\ st[q].term \in Nat
    BY TermsNat DEF RaftInv, TypeOK, StoreType, LogInv, NodeLogs
  <2>2. /\ StoreOK(r) /\ r.term = st[n].term /\ r.commit = st[n].commit
        /\ r.epoch = st[n].epoch /\ r.view = st[n].view /\ r.snapIndex = st[n].commit
        /\ st[n].commit # st[n].snapIndex => r.snapEpoch = st[n].epoch /\ r.snapView = st[n].view
        /\ st[n].commit = st[n].snapIndex => r = st[n]
        /\ LastIndex(r) = LastIndex(st[n]) /\ LastTerm(r) = LastTerm(st[n])
    BY <1>2, <2>1, CompactOK
  <2>3. LogOK(l, r)
    BY <1>2, <2>1, CompactLog
  <2>4. st'[n] = r /\ \A p \in Nodes \ {n} : st'[p] = st[p]
    BY <1>6, <2>2, PersistOK DEF RaftInv, TypeOK
  <2>5. Steady(l)
    BY <1>3, <1>4, <2>1, <2>2, <2>3, <2>4 DEF Steady
  <2>6. Together'
    BY <1>3, <1>6, <2>2, TogetherPersist DEF RaftInv, StayPut
  <2> QED BY <1>1, <1>3, <2>5, <2>6, SteadyRaft
<1> QED BY <1>3, <1>5, <1>6

\* The winner of the term a node leads in.
LEMMA LeaderWon ==
    ASSUME NEW e \in Elections, NEW l \in Logs, RaftInv(e, l), NEW n \in Nodes, role[n] = "leader"
    PROVE  /\ e.wn[st[n].term] = n /\ st[n].term \in Terms /\ st[n].term \in Nat
           /\ Won(e, st[n].term) /\ st[n].term >= 1
           /\ LastIndex(st[n]) = l.ln[st[n].term]
           /\ \A i \in 1..LastIndex(st[n]) : l.en[LastTerm(st[n])][i] = l.en[st[n].term][i]
<1>1. st[n].term \in Terms /\ st[n].term \in Nat
  BY TermsNat DEF RaftInv
<1>2. e.wn[st[n].term] = n
  BY DEF RaftInv, Together, ElectionInv, RolesWon
<1>3. st[n].term # 0
  BY <1>2, Bounds DEF RaftInv, LogInv, LeaderLogs, Won
<1> QED BY <1>1, <1>2, <1>3, Bounds DEF RaftInv, LogInv, NodeLogs, LeaderHas, Won

\* What a leader sends is a part of its log and what it committed.
LEMMA LogReplicate ==
    ASSUME NEW e \in Elections, NEW l \in Logs, RaftInv(e, l), NEW n \in Nodes, NEW p \in Nodes,
           NEW next \in 1..(MaxLog + 1), replicatePeer(n, p, next)
    PROVE  RaftInv(e, l)' /\ Forward
<1>1. TypeOK' /\ Quiet
  BY TypeReplicate DEF RaftInv
<1>2. UNCHANGED <<st, disk, role, stepping, ballot, votes, proposal, chosen>> /\ role[n] = "leader" /\ n # p
  BY DEF replicatePeer
<1>3. Together'
  BY <1>2 DEF RaftInv, Together
<1>4. Steady(l)
  BY <1>2, SteadySame
<1> DEFINE s == st[n]
           snap == [type |-> "snapshot", from |-> n, to |-> p, term |-> s.term,
                    index |-> s.snapIndex, prevTerm |-> s.snapTerm, entries |-> <<>>,
                    commit |-> s.snapIndex, epoch |-> s.snapEpoch, view |-> s.snapView]
           app == [type |-> "append", from |-> n, to |-> p, term |-> s.term,
                   index |-> next - 1, prevTerm |-> TermAt(s, next - 1),
                   entries |-> SubSeq(s.log, next - s.snapIndex, Len(s.log)),
                   commit |-> s.commit, epoch |-> 0, view |-> NoView]
<1>5. /\ StoreOK(s) /\ LogOK(l, s) /\ StoreCommitted(l, s) /\ next \in 1..(LastIndex(s) + 1)
      /\ s.log \in Seq(Entries) /\ s.snapIndex \in Nat /\ s.commit \in Nat /\ Len(s.log) \in Nat
      /\ LastIndex(s) = s.snapIndex + Len(s.log) /\ s.snapIndex <= s.commit
      /\ s.commit <= LastIndex(s)
  BY DEF RaftInv, LogInv, NodeLogs, CommitInv, TypeOK, StoreType, replicatePeer, StoreOK, Store, LastIndex
<1>6. /\ e.wn[s.term] = n /\ s.term \in Terms /\ s.term \in Nat
      /\ LastIndex(s) = l.ln[s.term]
      /\ \A i \in 1..LastIndex(s) : l.en[LastTerm(s)][i] = l.en[s.term][i]
  BY <1>2, LeaderWon
<1>7. \A i \in 0..LastIndex(s) : EntryTerm(l, LastTerm(s), i) = EntryTerm(l, s.term, i)
  BY <1>5, <1>6 DEF EntryTerm
<1>8. ASSUME next <= s.snapIndex PROVE RequestTrue(e, l, snap)
  <2>1. Committed(l, s.term, s.snapIndex)
    <3>1. Committed(l, s.term, s.commit)
      BY <1>5 DEF StoreCommitted
    <3> HIDE DEF s
    <3> QED BY <1>5, <1>6, <3>1, CommittedLess
  <2>2. s.snapTerm = EntryTerm(l, s.term, s.snapIndex)
    BY <1>5, <1>7 DEF LogOK
  <2>3. Len(<<>>) = 0
    OBVIOUS
  <2>4. s.snapEpoch = At(s.snapIndex).epoch /\ s.snapView = At(s.snapIndex).view
    BY <1>5 DEF StoreCommitted
  <2>5. s.snapIndex > 0 /\ s.snapIndex + 0 <= l.ln[s.term] /\ s.snapIndex <= s.snapIndex + 0
    BY <1>5, <1>6, <1>8
  <2>6. \E q \in Nodes : s.snapIndex <= st[q].commit
    BY <1>5
  <2>7. /\ snap.from = n /\ snap.to = p /\ snap.term = s.term /\ snap.index = s.snapIndex
        /\ snap.prevTerm = s.snapTerm /\ snap.entries = <<>> /\ snap.commit = s.snapIndex
        /\ snap.epoch = s.snapEpoch /\ snap.view = s.snapView
    OBVIOUS
  <2>8. \A i \in 1..Len(snap.entries) : snap.entries[i] = l.en[s.term][s.snapIndex + i]
    BY <2>3, <2>7
  <2> HIDE DEF snap, s
  <2> QED BY <1>2, <1>6, <2>1, <2>2, <2>3, <2>4, <2>5, <2>6, <2>7, <2>8 DEF RequestTrue
<1>9. ASSUME ~(next <= s.snapIndex) PROVE RequestTrue(e, l, app)
  <2> DEFINE f == next - s.snapIndex
  <2>1. /\ f \in Nat /\ 1 <= f /\ f <= Len(s.log) + 1 /\ next - 1 \in Nat
        /\ next - 1 \in Retained(s) /\ next - 1 \in 0..LastIndex(s) /\ next \in Nat
    BY <1>5, <1>9, SMTT(60) DEF Retained
  <2>2. /\ app.from = n /\ app.to = p /\ app.term = s.term /\ app.index = next - 1
        /\ app.commit = s.commit /\ app.type = "append" /\ app.prevTerm = TermAt(s, next - 1)
        /\ app.entries = SubSeq(s.log, f, Len(s.log))
    OBVIOUS
  <2> HIDE DEF app
  <2>3. /\ Len(app.entries) = Len(s.log) + 1 - f
        /\ \A i \in 1..(Len(s.log) + 1 - f) : app.entries[i] = s.log[f + i - 1]
    <3> HIDE DEF f, s
    <3> QED BY <2>1, <2>2, <1>5, Cut, SMTT(60)
  <2>4. app.prevTerm = EntryTerm(l, s.term, next - 1)
    BY <2>1, <2>2, <1>5, <1>7, TermAtLog
  <2> HIDE DEF s
  <2>5. next - 1 + Len(app.entries) = LastIndex(s)
    BY <2>1, <2>3, <1>5
  <2>6. \A i \in 1..Len(app.entries) : app.entries[i] = l.en[s.term][next - 1 + i]
    <3> TAKE i \in 1..Len(app.entries)
    <3>1. app.entries[i] = s.log[f + i - 1] /\ i \in Nat /\ i >= 1 /\ i <= Len(s.log) + 1 - f
      BY <2>1, <2>3
    <3>2. /\ next - 1 + i \in (s.snapIndex + 1)..LastIndex(s) /\ next - 1 + i \in 1..LastIndex(s)
          /\ (next - 1 + i) - s.snapIndex = f + i - 1
      <4>1. \A x, b, k, i1 \in Nat : i1 >= 1 /\ x >= b + 1 /\ i1 <= k + 1 - (x - b) =>
              /\ x - 1 + i1 >= b + 1 /\ x - 1 + i1 <= b + k /\ x - 1 + i1 \in Nat
              /\ (x - 1 + i1) - b = (x - b) + i1 - 1
        OBVIOUS
      <4>2. next \in Nat /\ s.snapIndex \in Nat /\ Len(s.log) \in Nat /\ next >= s.snapIndex + 1
        BY <2>1, <1>5, <1>9
      <4>3. /\ next - 1 + i >= s.snapIndex + 1 /\ next - 1 + i <= s.snapIndex + Len(s.log)
            /\ next - 1 + i \in Nat /\ (next - 1 + i) - s.snapIndex = f + i - 1
        BY <3>1, <4>1, <4>2, SMTT(60)
      <4>4. LastIndex(s) = s.snapIndex + Len(s.log)
        BY <1>5
      <4> QED BY <4>2, <4>3, <4>4
    <3>3. EntryAt(s, next - 1 + i) = l.en[LastTerm(s)][next - 1 + i]
      BY <3>2, <1>5 DEF LogOK
    <3> QED BY <3>1, <3>2, <3>3, <1>6 DEF EntryAt
  <2>7. Committed(l, s.term, s.commit)
    BY <1>5 DEF StoreCommitted
  <2>8. \E q \in Nodes : s.commit <= st[q].commit
    BY <1>5 DEF s
  <2>9. e.wn[app.term] = app.from /\ app.from # app.to /\ app.commit <= app.index + Len(app.entries)
    BY <1>2, <1>5, <1>6, <2>2, <2>5
  <2>10. app.index + Len(app.entries) <= l.ln[app.term]
    <3>1. app.index + Len(app.entries) = LastIndex(s)
      BY <2>2, <2>5
    <3>2. l.ln[app.term] = LastIndex(s)
      BY <1>6, <2>2
    <3>3. LastIndex(s) \in Nat
      BY <1>5
    <3> QED BY <3>1, <3>2, <3>3
  <2> QED BY <2>2, <2>4, <2>6, <2>7, <2>8, <2>9, <2>10 DEF RequestTrue
<1>10. RequestInv(e, l)'
  <2>1. ASSUME NEW m, RequestTrue(e, l, m) PROVE RequestTrue(e, l, m)'
    BY <1>2, <2>1 DEF RequestTrue, Committed, At
  <2>2. \A m \in msgs' : RequestTrue(e, l, m)
    <3>1. msgs' = msgs \cup {IF next <= s.snapIndex THEN snap ELSE app}
      BY DEF replicatePeer
    <3>2. \A m \in msgs : RequestTrue(e, l, m)
      BY DEF RaftInv, LogInv, RequestInv
    <3> DEFINE sent == next <= s.snapIndex
    <3>3. CASE sent
      <4>1. msgs' = msgs \cup {snap} /\ RequestTrue(e, l, snap)
        BY <3>1, <3>3, <1>8
      <4> HIDE DEF snap
      <4> QED BY <4>1, <3>2
    <3>4. CASE ~sent
      <4>1. msgs' = msgs \cup {app} /\ RequestTrue(e, l, app)
        BY <3>1, <3>4, <1>9
      <4> HIDE DEF app
      <4> QED BY <4>1, <3>2
    <3> QED BY <3>3, <3>4
  <2> QED BY <2>1, <2>2 DEF RequestInv
<1>11. /\ ElectionInv(e)' /\ Settled(e, l)' /\ Campaigns' /\ BallotInv(l)' /\ Forward
  BY <1>1, <1>3, <1>4, SteadyRaft
<1> QED BY <1>1, <1>3, <1>10, <1>11 DEF RaftInv, LogInv, Settled

-----------------------------------------------------------------------------
(* Elections *)

\* A store that holds an entry is at least as up to date as it.
LEMMA HasUpToDate ==
    ASSUME NEW e \in Elections, NEW l \in Logs, LeaderLogs(e, l), NEW s, StoreOK(s), LogOK(l, s),
           NEW t \in Terms, NEW i \in Nat, i >= 1, Has(l, s, t, i)
    PROVE  LastTerm(s) > t \/ (LastTerm(s) = t /\ LastIndex(s) >= i)
<1>1. i <= LastIndex(s) /\ l.en[LastTerm(s)][i].term = t
  BY DEF Has
<1>2. /\ LastIndex(s) \in Nat /\ LastTerm(s) \in Terms /\ LastTerm(s) \in Nat
      /\ LastIndex(s) # 0 => /\ LastIndex(s) \in 1..l.ln[LastTerm(s)]
                             /\ l.en[LastTerm(s)][LastIndex(s)].term = LastTerm(s)
  BY LastTermLog
<1>3. LastIndex(s) # 0 /\ i \in 1..LastIndex(s)
  BY <1>1, <1>2
<1>4. l.en[LastTerm(s)][i].term <= l.en[LastTerm(s)][LastIndex(s)].term
  BY <1>2, <1>3, TermsGrow
<1>5. t \in Nat
  BY LogTypes
<1> QED BY <1>1, <1>2, <1>3, <1>4, <1>5

\* What a node acknowledged, its log is at least as up to date as, unless dead.
LEMMA AckUpToDate ==
    ASSUME NEW e \in Elections, NEW l \in Logs, RaftInv(e, l), NEW n \in Nodes, NEW t \in Terms,
           NEW i \in 1..l.ak[n][t], Created(l, t, i)
    PROVE  \/ LastTerm(st[n]) > t
           \/ LastTerm(st[n]) = t /\ LastIndex(st[n]) >= i
           \/ Dead(l, t, i)
<1>1. StoreOK(st[n]) /\ LogOK(l, st[n]) /\ LeaderLogs(e, l) /\ AckInv(l)
  BY DEF RaftInv, LogInv, NodeLogs, TypeOK, StoreType
<1>2. Has(l, st[n], t, i) \/ Dead(l, t, i)
  BY <1>1 DEF AckInv
<1>3. i \in Nat /\ i >= 1
  OBVIOUS
<1> QED BY <1>1, <1>2, <1>3, HasUpToDate

\* A node starts a campaign with the log it has.
LEMMA LogBegin ==
    ASSUME NEW e \in Elections, NEW l \in Logs, RaftInv(e, l), NEW n \in Nodes, BeginElection(n),
           NEW f, f = CastVote(e, n, st[n].term + 1, n)
    PROVE  f \in Elections /\ RaftInv(f, l)' /\ Forward
<1>1. TypeOK /\ ElectionInv(e) /\ Together /\ Campaigns /\ BallotInv(l) /\ RequestInv(e, l)
  BY DEF RaftInv, LogInv
<1>2. PICK r : r = [st[n] EXCEPT !.term = @ + 1, !.vote = n]
  OBVIOUS
<1>3. /\ TypeOK' /\ StoreOK(r) /\ r.term = st[n].term + 1 /\ r.vote = n
      /\ st'[n] = r /\ disk'[n] = r
      /\ \A p \in Nodes \ {n} : st'[p] = st[p] /\ disk'[p] = disk[p]
      /\ LastIndex(r) = LastIndex(st[n]) /\ LastTerm(r) = LastTerm(st[n])
      /\ r.log = st[n].log /\ r.snapIndex = st[n].snapIndex /\ r.snapTerm = st[n].snapTerm
      /\ r.commit = st[n].commit /\ r.epoch = st[n].epoch /\ r.view = st[n].view
      /\ r.snapEpoch = st[n].snapEpoch /\ r.snapView = st[n].snapView
      /\ ballot' = [ballot EXCEPT ![n] = [term |-> st[n].term + 1,
                      lastIndex |-> LastIndex(st[n]), lastTerm |-> LastTerm(st[n])]]
  BY <1>1, <1>2, TypeBegin
<1>4. /\ Persist(n, r) /\ UNCHANGED <<stepping, proposal, msgs, chosen>>
      /\ role' = [role EXCEPT ![n] = "candidate"] /\ votes' = [votes EXCEPT ![n] = {n}]
      /\ st[n].term + 1 <= MaxTerm
  <2>1. st[n].term \in Nat /\ st[n].term < MaxTerm
    BY <1>1, TermsNat DEF BeginElection
  <2> QED BY <1>2, <2>1, Bounds DEF BeginElection
<1>5. st[n].term \in Nat /\ st[n].term + 1 \in Terms
  BY <1>1, <1>4, TermsNat, Bounds DEF Terms
<1>6. f \in Elections /\ ElectionInv(f)' /\ f.wn = e.wn
  BY <1>1, <1>5, BeginElections, CastVoteOK
<1>7. Steady(l)
  <2>1. \A q \in Nodes : proposal'[q] \in {proposal[q], NoProposal}
    BY <1>4
  <2>2. r.term >= st[n].term
    BY <1>3, <1>5
  <2> QED BY <1>3, <1>4, <2>1, <2>2, SteadyPersist
<1>8. Settled(f, l)' /\ Forward /\ RequestInv(f, l)'
  <2>1. Settled(f, l)' /\ Forward /\ \A m \in msgs : RequestTrue(f, l, m)'
    BY <1>3, <1>6, <1>7, QuietLogs
  <2> QED BY <2>1, <1>4 DEF RequestInv
<1>9. /\ ballot'[n].term = st[n].term + 1 /\ ballot'[n].lastIndex = LastIndex(st[n])
      /\ ballot'[n].lastTerm = LastTerm(st[n]) /\ role'[n] = "candidate" /\ votes'[n] = {n}
      /\ \A p \in Nodes \ {n} : role'[p] = role[p] /\ votes'[p] = votes[p] /\ ballot'[p] = ballot[p]
  BY <1>1, <1>3, <1>4 DEF TypeOK, RoleType, RestType
<1>10. Together'
  <2>1. st' = disk'
    BY <1>1, <1>4 DEF Together, Persist
  <2>2. \A p \in Nodes : role'[p] # "follower" => st'[p].term = ballot'[p].term
    BY <1>1, <1>3, <1>9 DEF Together
  <2> QED BY <1>1, <1>4, <2>1, <2>2 DEF Together
<1>11. Campaigns'
  <2>1. ASSUME NEW p \in Nodes, role'[p] = "candidate"
        PROVE  /\ ballot'[p].term >= 1 /\ ballot'[p].lastIndex = LastIndex(st'[p])
               /\ ballot'[p].lastTerm = LastTerm(st'[p])
    BY <1>1, <1>3, <1>5, <1>9, <2>1 DEF Campaigns
  <2> QED BY <2>1 DEF Campaigns, LastIndex, LastTerm, TermAt
<1>12. Grows(l, l)
  BY <1>7, GrowsSame DEF Steady
<1>13. BallotInv(l)'
  <2> SUFFICES ASSUME NEW c \in Nodes, role'[c] = "candidate", NEW q \in votes'[c], NEW t \in Terms,
                      t < ballot'[c].term, NEW i \in 1..l.ak[q][t], Created(l, t, i)
               PROVE  \/ ballot'[c].lastTerm > t
                      \/ ballot'[c].lastTerm = t /\ ballot'[c].lastIndex >= i
                      \/ Dead(l, t, i)'
    BY DEF BallotInv, Created
  <2>1. \/ ballot'[c].lastTerm > t
        \/ ballot'[c].lastTerm = t /\ ballot'[c].lastIndex >= i
        \/ Dead(l, t, i)
    <3>1. CASE c = n
      <4>1. q = n
        BY <3>1, <1>9
      <4> QED BY <3>1, <4>1, <1>9, AckUpToDate
    <3>2. CASE c # n
      BY <3>2, <1>1, <1>9 DEF BallotInv
    <3> QED BY <3>1, <3>2
  <2>2. i \in Nat
    OBVIOUS
  <2> QED BY <1>1, <1>3, <1>12, <2>1, <2>2, DeadStays
<1> QED BY <1>3, <1>6, <1>8, <1>10, <1>11, <1>13 DEF RaftInv, LogInv, Settled

\* A vote request is answered; who grants it has a log no more up to date.
LEMMA LogVote ==
    ASSUME ~StepDownWindow, NEW e \in Elections, NEW l \in Logs, RaftInv(e, l),
           NEW n \in Nodes, NEW c \in Nodes, RequestVote(n, c),
           NEW f, Granted(n, c) => f = CastVote(e, n, ballot[c].term, c),
           ~Granted(n, c) => f = e
    PROVE  f \in Elections /\ RaftInv(f, l)' /\ Forward
<1>1. TypeOK /\ ElectionInv(e) /\ Together /\ Campaigns /\ BallotInv(l) /\ RequestInv(e, l)
  BY DEF RaftInv, LogInv
<1>2. PICK r : r = st'[n]
  OBVIOUS
<1>3. /\ TypeOK' /\ ballot' = ballot
      /\ \A p \in Nodes : role'[p] \in {role[p], "follower"}
      /\ \A p \in Nodes \ {n} : st'[p] = st[p]
      /\ disk'[n] = r /\ st'[n] = r /\ r.term = ballot[c].term
      /\ ~Granted(n, c) => votes' = votes
      /\ Granted(n, c) => /\ \A p \in Nodes \ {c} : votes'[p] = votes[p]
                          /\ votes'[c] \in {votes[c], votes[c] \cup {n}}
                          /\ role[c] # "candidate" => votes' = votes
  BY <1>1, <1>2, TypeVote
<1>4. /\ LastIndex(r) = LastIndex(st[n]) /\ LastTerm(r) = LastTerm(st[n])
      /\ r.log = st[n].log /\ r.snapIndex = st[n].snapIndex /\ r.snapTerm = st[n].snapTerm
      /\ r.commit = st[n].commit /\ r.epoch = st[n].epoch /\ r.view = st[n].view
      /\ r.snapEpoch = st[n].snapEpoch /\ r.snapView = st[n].snapView
  BY <1>1, <1>2, TypeVote
<1>5. /\ st[n].term \in Nat /\ ballot[c].term \in Nat /\ ballot[c].term \in Terms
      /\ ballot[c].term >= st[n].term /\ StoreOK(r) /\ StoreOK(st[n])
      /\ UNCHANGED <<proposal, msgs, chosen>>
  BY <1>1, <1>2, <1>3, TermsNat, TermsNatNext DEF RequestVote, TypeOK, StoreType
<1>6. Persist(n, r)
  <2>1. PICK x : Persist(n, x)
    BY DEF RequestVote
  <2>2. st'[n] = x
    BY <1>1, <2>1 DEF Persist, TypeOK, StoreType
  <2> QED BY <1>2, <2>1, <2>2
<1>7. f \in Elections /\ ElectionInv(f)' /\ f.wn = e.wn
  BY <1>1, <1>5, VoteElections, CastVoteOK
<1>8. Steady(l)
  <2>1. \A q \in Nodes : proposal'[q] \in {proposal[q], NoProposal}
    BY <1>5
  <2>2. r.term >= st[n].term
    BY <1>3, <1>5
  <2> QED BY <1>4, <1>5, <1>6, <2>1, <2>2, SteadyPersist
<1>9. Settled(f, l)' /\ Forward /\ RequestInv(f, l)'
  <2>1. Settled(f, l)' /\ Forward /\ \A m \in msgs : RequestTrue(f, l, m)'
    BY <1>3, <1>7, <1>8, QuietLogs
  <2> QED BY <2>1, <1>5 DEF RequestInv
<1>10. Together'
  <2>1. StepDown(n) \/ (StayPut /\ r.term = st[n].term)
    BY <1>3, <1>5 DEF RequestVote
  <2> QED BY <1>1, <1>3, <1>5, <1>6, <2>1, TogetherPersist
<1>11. Campaigns'
  <2>1. ASSUME NEW p \in Nodes, role'[p] = "candidate"
        PROVE  /\ ballot'[p].term >= 1 /\ ballot'[p].lastIndex = LastIndex(st'[p])
               /\ ballot'[p].lastTerm = LastTerm(st'[p])
    BY <1>1, <1>3, <1>4, <2>1 DEF Campaigns
  <2> QED BY <2>1 DEF Campaigns, LastIndex, LastTerm, TermAt
<1>12. Grows(l, l)
  BY <1>8, GrowsSame DEF Steady
<1>13. Granted(n, c) => \/ ballot[c].lastTerm > LastTerm(st[n])
                        \/ ballot[c].lastTerm = LastTerm(st[n]) /\ ballot[c].lastIndex >= LastIndex(st[n])
  <2>1. PICK a : a = AtTerm(st[n], ballot[c].term)
    OBVIOUS
  <2>2. LastIndex(a) = LastIndex(st[n]) /\ LastTerm(a) = LastTerm(st[n])
    BY <1>5, <2>1, AtTermOK
  <2> QED BY <2>1, <2>2 DEF Granted, UpToDate
<1>14. BallotInv(l)'
  <2> SUFFICES ASSUME NEW d \in Nodes, role'[d] = "candidate", NEW q \in votes'[d], NEW t \in Terms,
                      t < ballot[d].term, NEW i \in 1..l.ak[q][t], Created(l, t, i)
               PROVE  \/ ballot[d].lastTerm > t
                      \/ ballot[d].lastTerm = t /\ ballot[d].lastIndex >= i
                      \/ Dead(l, t, i)'
    BY <1>3 DEF BallotInv, Created
  <2>1. role[d] = "candidate"
    BY <1>3
  <2>2. \/ ballot[d].lastTerm > t
        \/ ballot[d].lastTerm = t /\ ballot[d].lastIndex >= i
        \/ Dead(l, t, i)
    <3>1. CASE q \in votes[d]
      BY <3>1, <2>1, <1>1 DEF BallotInv
    <3>2. CASE q \notin votes[d]
      <4>1. d = c /\ q = n /\ Granted(n, c)
        BY <3>2, <1>3
      <4>2. \/ LastTerm(st[n]) > t
            \/ LastTerm(st[n]) = t /\ LastIndex(st[n]) >= i
            \/ Dead(l, t, i)
        BY <4>1, AckUpToDate
      <4>3. /\ LastTerm(st[n]) \in Nat /\ LastIndex(st[n]) \in Nat /\ t \in Nat /\ i \in Nat
            /\ ballot[c].lastTerm \in Nat /\ ballot[c].lastIndex \in Nat
        <5>1. ballot[c] \in Ballots
          BY <1>1 DEF TypeOK, RestType
        <5>2. ballot[c].lastTerm \in Terms /\ ballot[c].lastIndex \in Nat /\ LastTerm(st[n]) \in Terms
          BY <5>1, <1>5, LastRetained DEF Ballots
        <5> QED BY <5>2, <1>5, LastRetained, LogTypes
      <4> QED BY <4>1, <4>2, <4>3, <1>13
    <3> QED BY <3>1, <3>2
  <2>3. i \in Nat
    OBVIOUS
  <2> QED BY <1>1, <1>3, <1>12, <2>2, <2>3, DeadStays
<1> QED BY <1>3, <1>7, <1>9, <1>10, <1>11, <1>14 DEF RaftInv, LogInv, Settled

\* A node that keeps its store keeps what it committed.
LEMMA KeptCommitted ==
    ASSUME NEW l \in Logs, NEW k \in Logs, Grows(l, k), NEW q \in Nodes, NEW s, StoreOK(s),
           LogOK(l, s), StoreCommitted(l, s), st'[q] = s,
           \A i \in 1..s.commit : chosen'[i] = chosen[i]
    PROVE  StoreCommitted(k, st[q])'
<1>1. /\ s.commit \in Nat /\ s.term \in Nat /\ s.commit <= LastIndex(s) /\ LastIndex(s) \in Nat
  <2>1. s.term \in Terms
    BY DEF StoreOK, Store
  <2> QED BY <2>1, LastRetained, LogTypes DEF StoreOK, Store
<1>2. \A i \in 1..LastIndex(s) : k.en[LastTerm(s)][i] = l.en[LastTerm(s)][i]
  BY LogStays
<1>3. \A i \in 1..s.commit : chosen'[i] = chosen[i] /\ k.en[LastTerm(s)][i] = l.en[LastTerm(s)][i]
  BY <1>1, <1>2
<1>4. StoreCommitted(k, s)'
  BY <1>1, <1>3, StoreCommittedStays
<1> QED BY <1>4, StoreCommittedNext

\* Every request stays true when winners stay and no node goes back.
LEMMA RequestsStay ==
    ASSUME TypeOK, TypeOK', NEW e \in Elections, NEW f \in Elections, NEW l \in Logs, NEW k \in Logs,
           Grows(l, k), RequestInv(e, l), Forward,
           \A t \in Terms : Won(e, t) => f.wn[t] = e.wn[t]
    PROVE  \A m \in msgs : RequestTrue(f, k, m)'
<1> TAKE m \in msgs
<1>1. RequestTrue(e, l, m) /\ MessageOK(m)
  BY DEF RequestInv, TypeOK, RestType
<1>2. \A n \in Nodes : st'[n].commit >= st[n].commit /\ st'[n].commit \in Nat /\ st[n].commit \in Nat
  BY TermsNatNext DEF Store, Forward, TypeOK, StoreType
<1>3. m.term \in Terms /\ m.from \in Nodes /\ m.commit \in Nat
  BY <1>1 DEF MessageOK, Messages
<1>4. f.wn[m.term] = e.wn[m.term]
  BY <1>1, <1>3, Bounds DEF RequestTrue, Won
<1>5. \A i \in 1..m.commit : chosen'[i] = chosen[i]
  <2>1. PICK n \in Nodes : m.commit <= st[n].commit
    BY <1>1 DEF RequestTrue
  <2>2. \A i \in 1..m.commit : i \in 1..st[n].commit
    BY <2>1, <1>2, <1>3
  <2> QED BY <2>2 DEF Forward
<1> QED BY <1>1, <1>2, <1>4, <1>5, RequestStays

\* The record of logs after node n, with store s, wins term T.
Lead(l, T, s) == [l EXCEPT !.ln[T] = LastIndex(s), !.en[T] = l.en[LastTerm(s)]]

\* What a victory changes in the record of logs.
LEMMA LeadOK ==
    ASSUME NEW l \in Logs, NEW T \in Terms, NEW s, StoreOK(s), NEW k, k = Lead(l, T, s)
    PROVE  /\ k \in Logs /\ k.ak = l.ak
           /\ k.ln[T] = LastIndex(s) /\ k.en[T] = l.en[LastTerm(s)]
           /\ \A u \in Terms : u # T => k.ln[u] = l.ln[u] /\ k.en[u] = l.en[u]
<1>1. LastIndex(s) \in 0..MaxLog /\ LastTerm(s) \in Terms
  BY LastRetained, Bounds DEF StoreOK
<1>2. /\ l.ln \in [Terms -> 0..MaxLog] /\ l.en \in [Terms -> [Indices -> Entries]]
      /\ l.ak \in [Nodes -> [Terms -> 0..MaxLog]]
  BY DEF Logs
<1>3. /\ k.ln = [l.ln EXCEPT ![T] = LastIndex(s)] /\ k.ak = l.ak
      /\ k.en = [l.en EXCEPT ![T] = l.en[LastTerm(s)]]
      /\ k = [ln |-> k.ln, en |-> k.en, ak |-> k.ak]
  BY DEF Lead, Logs
<1>4. l.en[LastTerm(s)] \in [Indices -> Entries]
  BY <1>1, <1>2
<1>5. k.ln \in [Terms -> 0..MaxLog] /\ k.en \in [Terms -> [Indices -> Entries]]
  BY <1>1, <1>2, <1>3, <1>4
<1> QED BY <1>2, <1>3, <1>5 DEF Logs

\* The winner of an election holds every entry that may be certified: either its
\* voters never acknowledged it, or one that did is no more up to date.
LEMMA WinnerHolds ==
    ASSUME NEW e \in Elections, NEW l \in Logs, RaftInv(e, l), NEW n \in Nodes, BecomeLeader(n),
           NEW t \in Terms, t < ballot[n].term, NEW i \in Indices, Created(l, t, i)
    PROVE  (i <= LastIndex(st[n]) /\ l.en[LastTerm(st[n])][i].term = t) \/ Dead(l, t, i)
<1>1. /\ TypeOK /\ ElectionInv(e) /\ Campaigns /\ LeaderLogs(e, l) /\ WinnerInv(e, l) /\ BallotInv(l)
      /\ StoreOK(st[n]) /\ LogOK(l, st[n]) /\ role[n] = "candidate" /\ voterMajority(votes[n])
  BY DEF RaftInv, LogInv, NodeLogs, TypeOK, StoreType, BecomeLeader
<1>2. /\ ballot[n].lastIndex = LastIndex(st[n]) /\ ballot[n].lastTerm = LastTerm(st[n])
      /\ votes[n] \in SUBSET Nodes
  BY <1>1 DEF Campaigns, TypeOK, RestType
<1>3. /\ i \in Nat /\ i >= 1 /\ t \in Nat /\ ballot[n].term \in Nat /\ ballot[n].term \in Terms
      /\ l.ln[t] \in Nat /\ i \in 1..l.ln[t] /\ l.en[t][i].term = t
  BY <1>1, TermsNat, LogTypes, Bounds DEF Indices, Created
<1>4. CASE \A q \in votes[n] : l.ak[q][t] < i
  <2>1. ASSUME NEW q \in votes[n] PROVE st[q].term > t
    <3>1. e.vt[q][ballot[n].term] = n /\ n # Nobody /\ q \in Nodes
      BY <1>1, <1>2, Bounds DEF ElectionInv, VotesCast
    <3>2. ballot[n].term <= st[q].term /\ st[q].term \in Nat
      BY <1>1, <1>3, <3>1, TermsNat DEF ElectionInv, VotesKept, VoteOK
    <3> QED BY <3>2, <1>3
  <2> QED BY <1>1, <1>2, <1>4, <2>1 DEF Dead
<1>5. CASE ~(\A q \in votes[n] : l.ak[q][t] < i)
  <2>1. PICK q \in votes[n] : ~(l.ak[q][t] < i)
    BY <1>5
  <2>2. i \in 1..l.ak[q][t]
    BY <1>2, <1>3, <2>1, LogTypes
  <2>3. \/ LastTerm(st[n]) > t
        \/ LastTerm(st[n]) = t /\ LastIndex(st[n]) >= i
        \/ Dead(l, t, i)
    BY <1>1, <1>2, <2>2 DEF BallotInv
  <2>4. CASE LastTerm(st[n]) = t /\ LastIndex(st[n]) >= i
    BY <2>4, <1>3, <1>1, LastRetained
  <2>5. CASE LastTerm(st[n]) > t
    <3> DEFINE u == LastTerm(st[n])
               j == LastIndex(st[n])
    <3>1. /\ j \in Nat /\ u \in Terms /\ u \in Nat /\ (j = 0 => u = 0)
          /\ j # 0 => j \in Indices /\ j \in 1..l.ln[u] /\ l.en[u][j].term = u
      BY <1>1, LastTermLog
    <3>2. j \in 1..l.ln[u] /\ l.en[u][j].term = u /\ l.ln[u] # 0 /\ l.ln[u] \in Nat
      BY <3>1, <2>5, <1>3, LogTypes
    <3>3. Won(e, u)
      BY <3>1, <3>2, <1>1 DEF LeaderLogs
    <3>4. (i <= l.ln[u] /\ l.en[u][i].term = t) \/ Dead(l, t, i)
      BY <3>1, <3>3, <2>5, <1>1 DEF WinnerInv
    <3>5. ASSUME i <= l.ln[u], l.en[u][i].term = t PROVE i <= j
      <4> SUFFICES ASSUME ~(i <= j) PROVE FALSE
        OBVIOUS
      <4>1. i \in 1..l.ln[u] /\ j \in 1..i
        BY <3>5, <3>1, <3>2, <1>3
      <4>2. l.en[u][j].term <= l.en[u][i].term
        BY <4>1, <3>1, <1>1, TermsGrow
      <4> QED BY <4>2, <3>1, <3>2, <3>5, <2>5, <1>3
    <3> QED BY <3>4, <3>5
  <2> QED BY <2>3, <2>4, <2>5
<1> QED BY <1>4, <1>5

\* A candidate with a majority of the votes becomes leader with the log it has.
LEMMA LogWin ==
    ASSUME NEW e \in Elections, NEW l \in Logs, RaftInv(e, l), NEW n \in Nodes, BecomeLeader(n),
           NEW f, f = WinTerm(e, ballot[n].term, n, votes[n]),
           NEW k, k = Lead(l, ballot[n].term, st[n])
    PROVE  f \in Elections /\ k \in Logs /\ RaftInv(f, k)' /\ Forward
<1>1. /\ TypeOK /\ ElectionInv(e) /\ Together /\ Campaigns /\ LeaderLogs(e, l) /\ NodeLogs(e, l)
      /\ AckInv(l) /\ WinnerInv(e, l) /\ BallotInv(l) /\ ProposalInv(e, l) /\ CommitInv(l)
      /\ RequestInv(e, l)
  BY DEF RaftInv, LogInv
<1>2. /\ role[n] = "candidate" /\ st[n].term = ballot[n].term
      /\ role' = [role EXCEPT ![n] = "leader"] /\ votes' = [votes EXCEPT ![n] = {}]
      /\ UNCHANGED <<st, disk, stepping, ballot, proposal, msgs, chosen>>
  BY DEF BecomeLeader
<1> DEFINE T == ballot[n].term
           s == st[n]
<1>3. TypeOK'
  BY <1>1, TypeWin
<1>4. f \in Elections /\ ElectionInv(f)' /\ e.wn[T] = Nobody
  BY <1>1, WinElections
<1>5. /\ T \in Terms /\ T \in Nat /\ T >= 1 /\ votes[n] \in SUBSET Nodes
      /\ StoreOK(s) /\ LogOK(l, s) /\ s.term = T
  BY <1>1, <1>2, TermsNat DEF TypeOK, RestType, StoreType, Campaigns, NodeLogs
<1>6. \A u \in Terms : f.wn[u] = IF u = T THEN n ELSE e.wn[u]
  BY <1>5, WinTermOK
<1>7. /\ k \in Logs /\ k.ak = l.ak /\ k.ln[T] = LastIndex(s) /\ k.en[T] = l.en[LastTerm(s)]
      /\ \A u \in Terms : u # T => k.ln[u] = l.ln[u] /\ k.en[u] = l.en[u]
  BY <1>5, LeadOK
<1>8. l.ln[T] = 0
  BY <1>1, <1>4, <1>5 DEF LeaderLogs, Won
<1> HIDE DEF s, T
<1>9. /\ LastIndex(s) \in Nat /\ LastTerm(s) \in Terms /\ LastTerm(s) \in Nat /\ LastTerm(s) < T
      /\ LastIndex(s) <= l.ln[LastTerm(s)] /\ l.ln[LastTerm(s)] \in Nat
  <2>1. /\ LastIndex(s) \in Nat /\ LastTerm(s) \in Terms /\ LastTerm(s) \in Nat
        /\ LastIndex(s) = 0 => LastTerm(s) = 0
        /\ LastIndex(s) # 0 => LastIndex(s) \in 1..l.ln[LastTerm(s)]
    BY <1>5, LastTermLog
  <2>2. LastTerm(s) # T
    BY <2>1, <1>5, <1>8
  <2>3. LastTerm(s) <= T /\ LastIndex(s) <= l.ln[LastTerm(s)]
    BY <1>5 DEF LogOK
  <2>4. l.ln[LastTerm(s)] \in Nat
    BY <2>1, LogTypes
  <2>5. LastTerm(s) < T
    BY <2>1, <2>2, <2>3, <1>5
  <2> QED BY <2>1, <2>3, <2>4, <2>5
<1>10. Grows(l, k)
  <2>1. \A q \in Nodes : st'[q].term >= st[q].term
    BY <1>1, <1>2, TermsNat
  <2>2. ASSUME NEW u \in Terms
        PROVE  k.ln[u] >= l.ln[u] /\ \A i \in 1..l.ln[u] : k.en[u][i] = l.en[u][i]
    <3>1. CASE u = T
      BY <3>1, <1>7, <1>8, <1>9
    <3>2. CASE u # T
      BY <3>2, <1>7, LogTypes
    <3> QED BY <3>1, <3>2
  <2>3. \A q \in Nodes, u \in Terms : k.ak[q][u] = l.ak[q][u] /\ l.ak[q][u] \in Nat
    BY <1>7, LogTypes
  <2>4. \A q \in Nodes, u \in Terms :
          k.ak[q][u] >= l.ak[q][u] /\ (st[q].term > u => k.ak[q][u] = l.ak[q][u])
    BY <2>3
  <2> QED BY <2>1, <2>2, <2>4 DEF Grows
<1>11. \A i \in 1..LastIndex(s) : l.en[LastTerm(s)][i].term < T /\ l.en[LastTerm(s)][i].term \in Terms
  <2> TAKE i \in 1..LastIndex(s)
  <2>1. i \in 1..l.ln[LastTerm(s)]
    BY <1>9
  <2>2. l.en[LastTerm(s)][i].term \in 1..LastTerm(s)
    BY <2>1, <1>1, <1>9, SMTT(60) DEF LeaderLogs
  <2> QED BY <2>1, <2>2, <1>5, <1>9, LogTypes
<1>12. LeaderLogs(f, k)
  <2>1. ~Won(f, 0) /\ \A t \in Terms : ~Won(f, t) => k.ln[t] = 0
    <3>1. 0 \in Terms /\ n # Nobody /\ T # 0
      BY <1>5, Bounds, SMTT(60) DEF Terms
    <3> QED BY <3>1, <1>1, <1>6, <1>7 DEF LeaderLogs, Won
  <2>2. ASSUME NEW t \in Terms, NEW i \in 1..k.ln[t], NEW v \in Terms, t # T => v = t,
               t = T => v = LastTerm(s)
        PROVE  /\ k.en[t][i].term \in 1..t /\ Won(f, k.en[t][i].term)
               /\ i <= k.ln[k.en[t][i].term]
               /\ \A j \in 1..i : k.en[t][j] = k.en[k.en[t][i].term][j]
               /\ k.en[t][i].epoch > BootstrapEpoch /\ k.en[t][i].view \in Views
    <3>1. k.en[t] = l.en[v] /\ i \in 1..l.ln[v] /\ v <= t /\ v \in Nat /\ t \in Nat
      BY <2>2, <1>5, <1>7, <1>9, LogTypes
    <3> DEFINE u == l.en[v][i].term
    <3>2. /\ u \in 1..v /\ Won(e, u) /\ i <= l.ln[u] /\ u \in Terms
          /\ \A j \in 1..i : l.en[v][j] = l.en[u][j]
          /\ l.en[v][i].epoch > BootstrapEpoch /\ l.en[v][i].view \in Views
      BY <3>1, <1>1, LogTypes DEF LeaderLogs
    <3>3. u # T
      BY <3>2, <1>4 DEF Won
    <3>4. Won(f, u) /\ k.ln[u] = l.ln[u] /\ k.en[u] = l.en[u]
      BY <3>2, <3>3, <1>6, <1>7 DEF Won
    <3>5. u \in 1..t
      BY <3>1, <3>2, SMTT(60)
    <3> QED BY <3>1, <3>2, <3>4, <3>5
  <2>3. \A t \in Terms : \A i \in 1..k.ln[t] :
               /\ k.en[t][i].term \in 1..t /\ Won(f, k.en[t][i].term)
               /\ i <= k.ln[k.en[t][i].term]
               /\ \A j \in 1..i : k.en[t][j] = k.en[k.en[t][i].term][j]
               /\ k.en[t][i].epoch > BootstrapEpoch /\ k.en[t][i].view \in Views
    <3> TAKE t \in Terms
    <3>1. PICK v \in Terms : v = IF t = T THEN LastTerm(s) ELSE t
      BY <1>9
    <3> QED BY <3>1, <2>2
  <2> QED BY <2>1, <2>3 DEF LeaderLogs
<1>13. \A q \in Nodes : /\ StoreOK(st[q]) /\ LogOK(l, st[q]) /\ LogOK(k, st[q])
                        /\ \A i \in 1..LastIndex(st[q]) :
                             k.en[LastTerm(st[q])][i] = l.en[LastTerm(st[q])][i]
  BY <1>1, <1>7, <1>10, LogStays, SMTT(60) DEF NodeLogs, TypeOK, StoreType
<1>14. NodeLogs(f, k)'
  <2>1. ASSUME NEW q \in Nodes PROVE LeaderHas(f, k, q, st[q])
    <3>1. st[q].term \in Terms
      BY <1>1, TermsNat
    <3>2. CASE st[q].term = T
      <4> SUFFICES ASSUME q = n PROVE LeaderHas(f, k, q, st[q])
        BY <3>1, <3>2, <1>6 DEF LeaderHas
      <4>1. \A i \in 1..LastIndex(s) : k.en[LastTerm(s)][i] = l.en[LastTerm(s)][i]
        BY <1>13 DEF s
      <4> QED BY <3>2, <4>1, <1>7 DEF LeaderHas, s
    <3>3. CASE st[q].term # T
      BY <3>1, <3>3, <1>1, <1>6, <1>7, <1>13 DEF LeaderHas, NodeLogs
    <3> QED BY <3>2, <3>3
  <2>2. \A q \in Nodes : LogOK(k, st'[q]) /\ LeaderHas(f, k, q, st'[q])
    BY <2>1, <1>13, <1>2
  <2> QED BY <2>2 DEF NodeLogs, LogOK, LeaderHas, LastIndex, LastTerm, TermAt, EntryAt
<1>15. AckInv(k)'
  <2> SUFFICES ASSUME NEW q \in Nodes, NEW t \in Terms
               PROVE  /\ k.ak[q][t] <= k.ln[t] /\ (k.ak[q][t] > 0 => t <= st[q].term)
                      /\ \A i \in 1..k.ak[q][t] :
                           Created(k, t, i) => Has(k, st[q], t, i) \/ Dead(k, t, i)'
    BY <1>2, ZenonT(60) DEF AckInv, Created, Has, Dead, LastTerm, LastIndex, TermAt
  <2>1. /\ l.ak[q][t] <= l.ln[t] /\ (l.ak[q][t] > 0 => t <= st[q].term)
        /\ \A i \in 1..l.ak[q][t] : Created(l, t, i) => Has(l, st[q], t, i) \/ Dead(l, t, i)
        /\ l.ak[q][t] \in Nat /\ l.ln[t] \in Nat /\ k.ln[t] \in Nat /\ k.ln[t] >= l.ln[t]
        /\ k.ak[q][t] = l.ak[q][t]
    BY <1>1, <1>7, <1>10, LogTypes DEF AckInv, Grows
  <2>2. ASSUME NEW i \in 1..l.ak[q][t], Created(k, t, i)
        PROVE  Has(k, st[q], t, i) \/ Dead(k, t, i)'
    <3>1. i \in Nat /\ i >= 1 /\ i \in 1..l.ln[t]
      BY <2>1
    <3>2. t # T
      BY <3>1, <1>8
    <3>3. Created(l, t, i)
      BY <2>2, <3>1, <3>2, <1>7 DEF Created
    <3>4. CASE Has(l, st[q], t, i)
      BY <3>1, <3>4, <1>13, LastRetained DEF Has
    <3>5. CASE Dead(l, t, i)
      BY <3>1, <3>5, <1>1, <1>3, <1>7, <1>10, DeadStays
    <3> QED BY <2>1, <3>3, <3>4, <3>5
  <2> QED BY <2>1, <2>2, SMTT(60)
<1>16. WinnerInv(f, k)'
  <2> SUFFICES ASSUME NEW t \in Terms, NEW u \in Terms, t < u, Won(f, u),
                      NEW i \in Indices, Created(k, t, i)
               PROVE  (i <= k.ln[u] /\ k.en[u][i].term = t) \/ Dead(k, t, i)'
    BY DEF WinnerInv, Created, Won
  <2>1. i \in Nat /\ i >= 1
    BY Bounds DEF Indices
  <2>2. t # T
    <3> SUFFICES ASSUME t = T PROVE FALSE
      OBVIOUS
    <3>1. i \in 1..LastIndex(s) /\ l.en[LastTerm(s)][i].term = T
      BY <1>7 DEF Created
    <3> QED BY <3>1, <1>5, <1>11
  <2>3. Created(l, t, i)
    BY <2>2, <1>7 DEF Created
  <2>4. (i <= k.ln[u] /\ k.en[u][i].term = t) \/ Dead(l, t, i)
    <3>1. CASE u = T
      BY <3>1, <2>3, <1>7, WinnerHolds DEF s, T
    <3>2. CASE u # T
      BY <3>2, <2>3, <1>1, <1>6, <1>7 DEF WinnerInv, Won
    <3> QED BY <3>1, <3>2
  <2> QED BY <2>1, <2>4, <1>1, <1>3, <1>7, <1>10, DeadStays
<1>17. BallotInv(k)'
  <2>1. \A q \in Nodes : role'[q] \in {role[q], "follower", "leader"} /\ votes'[q] \subseteq votes[q]
    BY <1>1, <1>2 DEF TypeOK, RoleType, RestType
  <2> QED BY <2>1, <1>1, <1>2, <1>3, <1>7, <1>10, BallotsStay
<1>18. ProposalInv(f, k)'
  <2> SUFFICES ASSUME NEW q \in Nodes, proposal[q] # NoProposal
               PROVE  /\ f.wn[proposal[q].term] = q
                      /\ \A x \in proposal[q].acks : k.ak[x][proposal[q].term] >= proposal[q].index
                      /\ proposal[q].index >= 1
    BY <1>2 DEF ProposalInv
  <2>1. /\ e.wn[proposal[q].term] = q
        /\ \A x \in proposal[q].acks : l.ak[x][proposal[q].term] >= proposal[q].index
        /\ proposal[q].index >= 1 /\ proposal[q].term \in Terms
    BY <1>1 DEF ProposalInv, TypeOK, RestType, Proposals
  <2>2. proposal[q].term # T
    BY <2>1, <1>4, Bounds
  <2> QED BY <2>1, <2>2, <1>6, <1>7
<1>19. Forward
  BY <1>1, <1>2 DEF Forward, TypeOK, StoreType, Store
<1>20. CommitInv(k)'
  <2>1. ASSUME NEW q \in Nodes PROVE StoreCommitted(k, st[q])'
    <3>1. PICK x : x = st[q]
      OBVIOUS
    <3>2. StoreOK(x) /\ LogOK(l, x) /\ StoreCommitted(l, x) /\ st'[q] = x
      BY <3>1, <1>1, <1>2, <1>13 DEF CommitInv
    <3> QED BY <3>2, <1>2, <1>7, <1>10, KeptCommitted
  <2> QED BY <2>1, <1>1, <1>2 DEF CommitInv
<1>21. RequestInv(f, k)'
  <2>1. \A t \in Terms : Won(e, t) => f.wn[t] = e.wn[t]
    BY <1>4, <1>6 DEF Won
  <2>2. \A m \in msgs : RequestTrue(f, k, m)'
    BY <2>1, <1>1, <1>3, <1>4, <1>7, <1>10, <1>19, RequestsStay
  <2> QED BY <2>2, <1>2 DEF RequestInv
<1>22. Together' /\ Campaigns'
  <2>1. \A q \in Nodes : role'[q] = IF q = n THEN "leader" ELSE role[q]
    BY <1>1, <1>2 DEF TypeOK, RoleType
  <2>2. \A q \in Nodes : role'[q] = "candidate" => role[q] = "candidate"
    BY <2>1
  <2>3. Together'
    BY <2>1, <1>1, <1>2, SMTT(60) DEF Together
  <2> QED BY <2>2, <2>3, <1>1, <1>2 DEF Campaigns, LastIndex, LastTerm, TermAt
<1>23. LeaderLogs(f, k)'
  BY <1>12 DEF LeaderLogs, Won
<1> QED BY <1>3, <1>4, <1>7, <1>14, <1>15, <1>16, <1>17, <1>18, <1>19, <1>20, <1>21, <1>22, <1>23
        DEF RaftInv, LogInv

-----------------------------------------------------------------------------
(* Replication *)

\* The record of logs after node n acknowledged term T up to index K.
Ack(l, n, T, K) == [l EXCEPT !.ak[n][T] = IF K > @ THEN K ELSE @]

\* What an acknowledgement changes in the record of logs.
LEMMA AckOK ==
    ASSUME NEW l \in Logs, NEW n \in Nodes, NEW T \in Terms, NEW K \in 0..MaxLog, NEW k, k = Ack(l, n, T, K)
    PROVE  /\ k \in Logs /\ k.ln = l.ln /\ k.en = l.en
           /\ k.ak[n][T] >= K /\ k.ak[n][T] >= l.ak[n][T] /\ k.ak[n][T] \in {K, l.ak[n][T]}
           /\ \A q \in Nodes, u \in Terms : q # n \/ u # T => k.ak[q][u] = l.ak[q][u]
<1>1. /\ l.ln \in [Terms -> 0..MaxLog] /\ l.en \in [Terms -> [Indices -> Entries]]
      /\ l.ak \in [Nodes -> [Terms -> 0..MaxLog]]
  BY DEF Logs
<1>2. PICK x : x = IF K > l.ak[n][T] THEN K ELSE l.ak[n][T]
  OBVIOUS
<1>3. x \in 0..MaxLog /\ l.ak[n][T] \in 0..MaxLog /\ x >= K /\ x >= l.ak[n][T] /\ x \in {K, l.ak[n][T]}
  <2>1. l.ak[n][T] \in 0..MaxLog
    BY <1>1
  <2> QED BY <1>2, <2>1, Bounds
<1>4. /\ k.ln = l.ln /\ k.en = l.en /\ k.ak = [l.ak EXCEPT ![n][T] = x]
      /\ k = [ln |-> k.ln, en |-> k.en, ak |-> k.ak]
  BY <1>2 DEF Ack, Logs
<1>5. k.ak \in [Nodes -> [Terms -> 0..MaxLog]]
  BY <1>1, <1>3, <1>4
<1>6. k.ak[n][T] = x /\ \A q \in Nodes, u \in Terms : q # n \/ u # T => k.ak[q][u] = l.ak[q][u]
  BY <1>1, <1>4
<1> QED BY <1>1, <1>3, <1>4, <1>5, <1>6 DEF Logs

\* Store s becomes r by taking over the log of the winner of term T up to index K:
\* it keeps its log, or gives up a suffix that differs from that log.
Adopts(l, s, r, T, K) ==
    /\ K <= LastIndex(r) /\ \A i \in 1..K : l.en[LastTerm(r)][i] = l.en[T][i]
    /\ \/ LastIndex(r) = LastIndex(s) /\ LastTerm(r) = LastTerm(s)
       \/ /\ LastIndex(r) = K
          /\ \A i \in (K + 1)..LastIndex(s) :
               i <= l.ln[T] => l.en[LastTerm(s)][i].term # l.en[T][i].term

\* A proposal counts nobody who did not acknowledge its entry.
Counted(e, l, n, T, K) ==
    \A q \in Nodes :
        \/ proposal'[q] \in {proposal[q], NoProposal}
        \/ /\ proposal'[q].term = T /\ e.wn[T] = q
           /\ proposal'[q].index \in Nat /\ proposal'[q].index >= 1 /\ proposal'[q].index <= K
           /\ \A x \in proposal'[q].acks : x = n \/ l.ak[x][T] >= proposal'[q].index

\* What a node acknowledged before and now, it holds after it took over the log.
LEMMA AdoptAcks ==
    ASSUME NEW e \in Elections, NEW l \in Logs, RaftInv(e, l), NEW n \in Nodes, NEW r, StoreOK(r),
           NEW T \in Terms, T >= st[n].term, Won(e, T), NEW K \in 0..MaxLog, K <= l.ln[T],
           Adopts(l, st[n], r, T, K), NEW t \in Terms, NEW i \in Nat, i >= 1,
           i <= l.ak[n][t] \/ (t = T /\ i <= K), Created(l, t, i)
    PROVE  Has(l, r, t, i) \/ Dead(l, t, i)
<1>1. /\ TypeOK /\ LeaderLogs(e, l) /\ AckInv(l) /\ WinnerInv(e, l)
      /\ StoreOK(st[n]) /\ LogOK(l, st[n])
  BY DEF RaftInv, LogInv, NodeLogs, TypeOK, StoreType
<1>2. /\ LastIndex(r) \in Nat /\ LastIndex(st[n]) \in Nat /\ K \in Nat /\ t \in Nat /\ T \in Nat
      /\ st[n].term \in Nat /\ l.ln[T] \in Nat /\ l.ak[n][t] \in Nat /\ l.ln[t] \in Nat
  BY <1>1, LastRetained, LogTypes, TermsNat, Bounds
<1>3. K <= LastIndex(r) /\ \A j \in 1..K : l.en[LastTerm(r)][j] = l.en[T][j]
  BY DEF Adopts
<1>4. i \in 1..l.ln[t] /\ l.en[t][i].term = t /\ i \in Indices
  BY <1>2, LogTypes DEF Created
<1>5. CASE t = T /\ i <= K
  BY <1>2, <1>3, <1>4, <1>5 DEF Has
<1>6. CASE i <= l.ak[n][t]
  <2>1. Has(l, st[n], t, i) \/ Dead(l, t, i)
    BY <1>1, <1>2, <1>6 DEF AckInv
  <2>2. ASSUME Has(l, st[n], t, i) PROVE Has(l, r, t, i) \/ Dead(l, t, i)
    <3>1. CASE LastIndex(r) = LastIndex(st[n]) /\ LastTerm(r) = LastTerm(st[n])
      BY <2>2, <3>1 DEF Has
    <3>2. CASE /\ LastIndex(r) = K
               /\ \A j \in (K + 1)..LastIndex(st[n]) :
                    j <= l.ln[T] => l.en[LastTerm(st[n])][j].term # l.en[T][j].term
      <4>1. (i <= l.ln[T] /\ l.en[T][i].term = t) \/ Dead(l, t, i)
        <5>1. t <= st[n].term
          BY <1>1, <1>2, <1>6 DEF AckInv
        <5>2. CASE t = T
          BY <5>2, <1>2, <1>4
        <5>3. CASE t # T
          BY <5>1, <5>3, <1>1, <1>2, <1>4 DEF WinnerInv
        <5> QED BY <5>2, <5>3
      <4>2. ASSUME i <= l.ln[T], l.en[T][i].term = t PROVE Has(l, r, t, i)
        <5>1. i <= LastIndex(st[n]) /\ l.en[LastTerm(st[n])][i].term = t
          BY <2>2 DEF Has
        <5>2. i <= K
          BY <3>2, <4>2, <5>1, <1>2
        <5>3. i \in 1..K
          BY <5>2, <1>2
        <5> QED BY <5>2, <5>3, <4>2, <3>2, <1>2, <1>3 DEF Has
      <4> QED BY <4>1, <4>2
    <3> QED BY <3>1, <3>2 DEF Adopts
  <2> QED BY <2>1, <2>2
<1> QED BY <1>5, <1>6

\* A node takes over a part of a winner's log and acknowledges it.
LEMMA AdoptLog ==
    ASSUME NEW e \in Elections, NEW l \in Logs, RaftInv(e, l), TypeOK', Quiet, Together',
           NEW n \in Nodes, NEW r, StoreOK(r), Persist(n, r), r.commit >= st[n].commit,
           NEW T \in Terms, r.term = T, T >= st[n].term, Won(e, T), NEW K \in 0..MaxLog, K <= l.ln[T],
           LogOK(l, r), LeaderHas(e, l, n, r), Adopts(l, st[n], r, T, K), StoreCommitted(l, r),
           role'[n] # "candidate", chosen' = chosen, msgs' \subseteq msgs, Counted(e, l, n, T, K),
           NEW k, k = Ack(l, n, T, K)
    PROVE  k \in Logs /\ RaftInv(e, k)' /\ Forward
<1>1. /\ TypeOK /\ ElectionInv(e) /\ Together /\ Campaigns /\ LeaderLogs(e, l) /\ NodeLogs(e, l)
      /\ AckInv(l) /\ WinnerInv(e, l) /\ BallotInv(l) /\ ProposalInv(e, l) /\ CommitInv(l)
      /\ RequestInv(e, l)
  BY DEF RaftInv, LogInv
<1>2. st'[n] = r /\ \A p \in Nodes \ {n} : st'[p] = st[p]
  BY <1>1, PersistOK DEF TypeOK
<1>3. /\ k \in Logs /\ k.ln = l.ln /\ k.en = l.en
      /\ k.ak[n][T] >= K /\ k.ak[n][T] >= l.ak[n][T] /\ k.ak[n][T] \in {K, l.ak[n][T]}
      /\ \A q \in Nodes, u \in Terms : q # n \/ u # T => k.ak[q][u] = l.ak[q][u]
  BY AckOK
<1>4. \A q \in Nodes, u \in Terms :
        k.ak[q][u] \in Nat /\ l.ak[q][u] \in Nat /\ u \in Nat /\ k.ak[q][u] >= l.ak[q][u]
  BY <1>3, LogTypes
<1>5. /\ \A q \in Nodes : st'[q].term >= st[q].term /\ st[q].term \in Nat /\ st'[q].term \in Nat
      /\ T \in Nat /\ K \in Nat
  BY <1>1, <1>2, TermsNat, TermsNatNext, LogTypes, Bounds
<1>6. Grows(l, k)
  <2>1. \A q \in Nodes, u \in Terms : st[q].term > u => k.ak[q][u] = l.ak[q][u]
    BY <1>3, <1>4, <1>5
  <2>2. \A u \in Terms : k.ln[u] >= l.ln[u] /\ \A i \in 1..l.ln[u] : k.en[u][i] = l.en[u][i]
    BY <1>3, LogTypes
  <2> QED BY <2>1, <2>2, <1>4, <1>5 DEF Grows
<1>7. ElectionInv(e)'
  BY <1>1, QuietElections, SMTT(60)
<1>8. LeaderLogs(e, k)'
  BY <1>1, <1>3, SMTT(60) DEF LeaderLogs, Won
<1>9. NodeLogs(e, k)'
  <2>1. \A q \in Nodes : LogOK(k, st'[q]) /\ LeaderHas(e, k, q, st'[q])
    <3>1. \A q \in Nodes : LogOK(l, st'[q]) /\ LeaderHas(e, l, q, st'[q])
      BY <1>1, <1>2 DEF NodeLogs
    <3> QED BY <3>1, <1>3 DEF LogOK, LeaderHas, EntryTerm
  <2> QED BY <2>1 DEF NodeLogs, LogOK, LeaderHas, LastIndex, LastTerm, TermAt, EntryAt
<1>10. \A t \in Terms, i \in Nat : /\ Created(k, t, i) <=> Created(l, t, i)
                                   /\ Dead(l, t, i) => Dead(k, t, i)'
  BY <1>1, <1>3, <1>6, DeadStays DEF Created
<1>11. AckInv(k)'
  <2> SUFFICES ASSUME NEW q \in Nodes, NEW t \in Terms
               PROVE  /\ k.ak[q][t] <= k.ln[t] /\ (k.ak[q][t] > 0 => t <= st'[q].term)
                      /\ \A i \in 1..k.ak[q][t] :
                           Created(k, t, i) => Has(k, st'[q], t, i) \/ Dead(k, t, i)'
    BY DEF AckInv, Created, Has, Dead, LastTerm, LastIndex, TermAt
  <2>1. /\ l.ak[q][t] <= l.ln[t] /\ (l.ak[q][t] > 0 => t <= st[q].term)
        /\ \A i \in 1..l.ak[q][t] : Created(l, t, i) => Has(l, st[q], t, i) \/ Dead(l, t, i)
    BY <1>1 DEF AckInv
  <2>2. k.ak[q][t] <= k.ln[t] /\ (k.ak[q][t] > 0 => t <= st'[q].term)
    <3>1. CASE q = n /\ t = T
      BY <3>1, <2>1, <1>2, <1>3, <1>5
    <3>2. CASE q # n \/ t # T
      BY <3>2, <2>1, <1>3, <1>4, <1>5
    <3> QED BY <3>1, <3>2
  <2>3. ASSUME NEW i \in 1..k.ak[q][t], Created(k, t, i)
        PROVE  Has(k, st'[q], t, i) \/ Dead(k, t, i)'
    <3>1. i \in Nat /\ i >= 1 /\ Created(l, t, i)
      BY <2>3, <1>10
    <3>2. CASE q = n
      <4>1. i <= l.ak[n][t] \/ (t = T /\ i <= K)
        BY <3>2, <1>3, <1>4, <1>5
      <4>2. Has(l, r, t, i) \/ Dead(l, t, i)
        BY <4>1, <3>1, AdoptAcks
      <4> QED BY <4>2, <3>1, <3>2, <1>2, <1>3, <1>10 DEF Has
    <3>3. CASE q # n
      <4>1. Has(l, st[q], t, i) \/ Dead(l, t, i)
        BY <3>1, <3>3, <2>1, <2>3, <1>3
      <4> QED BY <4>1, <3>1, <3>3, <1>2, <1>3, <1>10 DEF Has
    <3> QED BY <3>2, <3>3
  <2> QED BY <2>2, <2>3, SMTT(60)
<1>12. WinnerInv(e, k)'
  <2> SUFFICES ASSUME NEW t \in Terms, NEW u \in Terms, t < u, Won(e, u),
                      NEW i \in Indices, Created(k, t, i)
               PROVE  (i <= k.ln[u] /\ k.en[u][i].term = t) \/ Dead(k, t, i)'
    BY DEF WinnerInv, Created, Won
  <2>1. i \in Nat
    BY DEF Indices
  <2>2. (i <= l.ln[u] /\ l.en[u][i].term = t) \/ Dead(l, t, i)
    BY <2>1, <1>1, <1>10 DEF WinnerInv
  <2> QED BY <2>1, <2>2, <1>3, <1>10
<1>13. BallotInv(k)'
  <2>1. \A q \in Nodes : role'[q] \in {role[q], "follower", "leader"} /\ votes'[q] \subseteq votes[q]
    BY DEF Quiet
  <2>2. ballot' = ballot
    BY DEF Quiet
  <2> QED BY <2>1, <2>2, <1>1, <1>3, <1>6, BallotsStay
<1>14. ProposalInv(e, k)'
  <2> SUFFICES ASSUME NEW q \in Nodes, proposal'[q] # NoProposal
               PROVE  /\ e.wn[proposal'[q].term] = q
                      /\ \A x \in proposal'[q].acks : k.ak[x][proposal'[q].term] >= proposal'[q].index
                      /\ proposal'[q].index >= 1
    BY DEF ProposalInv
  <2>1. proposal' \in [Nodes -> Proposals \cup {NoProposal}]
    BY DEF TypeOK, RestType
  <2>2. /\ proposal'[q].term \in Terms /\ proposal'[q].index \in Nat /\ proposal'[q].acks \in SUBSET Nodes
    BY <2>1 DEF Proposals
  <2>3. CASE proposal'[q] = proposal[q]
    <3>1. /\ e.wn[proposal[q].term] = q /\ proposal[q].index >= 1
          /\ \A x \in proposal[q].acks : l.ak[x][proposal[q].term] >= proposal[q].index
      BY <2>3, <1>1 DEF ProposalInv
    <3>2. \A x \in proposal'[q].acks : k.ak[x][proposal'[q].term] >= proposal'[q].index
      BY <3>1, <2>2, <2>3, <1>4
    <3> QED BY <3>1, <3>2, <2>3
  <2>4. CASE /\ proposal'[q].term = T /\ e.wn[T] = q
             /\ proposal'[q].index \in Nat /\ proposal'[q].index >= 1 /\ proposal'[q].index <= K
             /\ \A x \in proposal'[q].acks : x = n \/ l.ak[x][T] >= proposal'[q].index
    <3>1. ASSUME NEW x \in proposal'[q].acks PROVE k.ak[x][T] >= proposal'[q].index
      <4>1. x \in Nodes /\ k.ak[x][T] \in Nat /\ l.ak[x][T] \in Nat /\ k.ak[x][T] >= l.ak[x][T]
        BY <2>2, <1>4
      <4>2. CASE x = n
        BY <4>1, <4>2, <2>4, <1>3, <1>5
      <4>3. CASE x # n
        BY <4>1, <4>3, <2>4
      <4> QED BY <4>2, <4>3
    <3> QED BY <3>1, <2>4
  <2> QED BY <2>3, <2>4 DEF Counted
<1>15. Forward
  <2>1. \A q \in Nodes : st[q].commit \in Nat /\ st'[q].commit \in Nat
    BY <1>1, TermsNatNext DEF TypeOK, StoreType, Store
  <2> QED BY <2>1, <1>2 DEF Forward
<1>16. CommitInv(k)'
  <2>1. ASSUME NEW q \in Nodes PROVE StoreCommitted(k, st[q])'
    <3>1. PICK x : x = IF q = n THEN r ELSE st[q]
      OBVIOUS
    <3>2. StoreOK(x) /\ LogOK(l, x) /\ StoreCommitted(l, x) /\ st'[q] = x
      BY <3>1, <1>1, <1>2 DEF CommitInv, NodeLogs, TypeOK, StoreType
    <3> QED BY <3>2, <1>3, <1>6, KeptCommitted
  <2>2. \A i \in Indices : chosen[i] # NoEntry => \E q \in Nodes : i <= st'[q].commit
    <3> SUFFICES ASSUME NEW i \in Indices, chosen[i] # NoEntry PROVE \E q \in Nodes : i <= st'[q].commit
      OBVIOUS
    <3>1. PICK q \in Nodes : i <= st[q].commit
      BY <1>1 DEF CommitInv
    <3>2. st[q].commit \in Nat /\ st'[q].commit \in Nat /\ st'[q].commit >= st[q].commit /\ i \in Nat
      BY <1>1, <1>15, TermsNatNext, Bounds DEF TypeOK, StoreType, Store, Forward, Indices
    <3> QED BY <3>1, <3>2
  <2> QED BY <2>1, <2>2, <1>1 DEF CommitInv
<1>17. RequestInv(e, k)'
  <2>1. \A m \in msgs : RequestTrue(e, k, m)'
    BY <1>1, <1>3, <1>6, <1>15, RequestsStay
  <2> QED BY <2>1 DEF RequestInv
<1>18. Campaigns'
  <2>1. ASSUME NEW q \in Nodes, role'[q] = "candidate"
        PROVE  /\ ballot'[q].term >= 1 /\ ballot'[q].lastIndex = LastIndex(st'[q])
               /\ ballot'[q].lastTerm = LastTerm(st'[q])
    <3>1. q # n /\ role[q] = "candidate" /\ ballot' = ballot /\ st'[q] = st[q]
      BY <2>1, <1>2 DEF Quiet
    <3> QED BY <3>1, <1>1 DEF Campaigns
  <2> QED BY <2>1 DEF Campaigns, LastIndex, LastTerm, TermAt
<1> QED BY <1>3, <1>7, <1>8, <1>9, <1>11, <1>12, <1>13, <1>14, <1>15, <1>16, <1>17, <1>18
        DEF RaftInv, LogInv

-----------------------------------------------------------------------------
(* Proposals *)

\* The entries a store committed are entries of proposals.
LEMMA CommittedEntries ==
    ASSUME NEW e \in Elections, NEW l \in Logs, LeaderLogs(e, l), NEW s, StoreOK(s), LogOK(l, s),
           StoreCommitted(l, s), NEW i \in 1..s.commit
    PROVE  /\ chosen[i] \in Entries /\ chosen[i].term >= 1 /\ chosen[i].epoch > BootstrapEpoch
           /\ chosen[i].view \in Views /\ chosen[i] = l.en[LastTerm(s)][i] /\ i \in Indices
<1>1. /\ s.commit \in Nat /\ s.commit <= LastIndex(s) /\ LastIndex(s) \in Nat /\ LastTerm(s) \in Terms
      /\ LastIndex(s) <= l.ln[LastTerm(s)]
  BY LastRetained DEF StoreOK, Store, LogOK
<1>2. l.ln[LastTerm(s)] \in Nat
  BY <1>1, LogTypes
<1>3. i \in 1..l.ln[LastTerm(s)]
  BY <1>1, <1>2
<1>4. chosen[i] = l.en[LastTerm(s)][i]
  BY DEF StoreCommitted
<1>5. i \in Indices /\ l.en[LastTerm(s)][i] \in Entries /\ l.en[LastTerm(s)][i].term \in 1..LastTerm(s)
      /\ l.en[LastTerm(s)][i].epoch > BootstrapEpoch /\ l.en[LastTerm(s)][i].view \in Views
  BY <1>1, <1>3, LogTypes DEF LeaderLogs
<1> QED BY <1>1, <1>4, <1>5

\* The epoch and view after any part of what a store committed.
LEMMA AtCommitted ==
    ASSUME NEW e \in Elections, NEW l \in Logs, LeaderLogs(e, l), NEW s, StoreOK(s), LogOK(l, s),
           StoreCommitted(l, s), NEW c \in 0..s.commit
    PROVE  /\ At(c).epoch \in Nat /\ At(c).epoch >= BootstrapEpoch
           /\ (At(c).epoch = BootstrapEpoch) = (c = 0)
           /\ (At(c).view = NoView) = (c = 0)
<1>1. CASE c = 0
  BY <1>1 DEF At, BootstrapEpoch
<1>2. CASE c # 0
  <2>1. c \in 1..s.commit
    BY <1>2 DEF StoreOK, Store
  <2>2. chosen[c] \in Entries /\ chosen[c].epoch > BootstrapEpoch /\ chosen[c].view \in Views
    BY <2>1, CommittedEntries
  <2>3. chosen[c].epoch \in Nat
    BY <2>2 DEF Entries
  <2> QED BY <1>2, <2>2, <2>3, RaftAssumption DEF At, BootstrapEpoch
<1> QED BY <1>1, <1>2

\* A leader proposes again what it proposed before: it counts itself.
LEMMA LogAgain ==
    ASSUME ~StepDownWindow, NEW e \in Elections, NEW l \in Logs, RaftInv(e, l), NEW n \in Nodes,
           NEW view \in Views, Propose(n, view), Persist(n, st[n]), LastIndex(st[n]) > st[n].commit,
           proposal' = [proposal EXCEPT ![n] = [index |-> LastIndex(st[n]), term |-> st[n].term,
                                                acks |-> {n}, committed |-> FALSE]]
    PROVE  \E k \in Logs : RaftInv(e, k)' /\ Forward
<1>1. PICK s : s = st[n]
  OBVIOUS
<1>2. TypeOK' /\ Quiet
  BY TypePropose DEF RaftInv
<1>3. role[n] = "leader" /\ UNCHANGED <<role, stepping, ballot, votes, msgs, chosen>>
  BY DEF Propose
<1>4. /\ e.wn[s.term] = n /\ s.term \in Terms /\ s.term \in Nat /\ Won(e, s.term)
      /\ LastIndex(s) = l.ln[s.term]
      /\ \A i \in 1..LastIndex(s) : l.en[LastTerm(s)][i] = l.en[s.term][i]
  BY <1>1, <1>3, LeaderWon
<1>5. /\ StoreOK(s) /\ LogOK(l, s) /\ LeaderHas(e, l, n, s) /\ StoreCommitted(l, s)
      /\ s.commit \in Nat
  BY <1>1 DEF RaftInv, LogInv, NodeLogs, CommitInv, TypeOK, StoreType, Store
<1>6. LastIndex(s) \in 0..MaxLog /\ LastIndex(s) \in Nat /\ LastIndex(s) >= 1
  BY <1>1, <1>5, LastRetained, Bounds DEF StoreOK
<1>7. Adopts(l, s, s, s.term, LastIndex(s))
  BY <1>4, <1>6 DEF Adopts
<1>8. Counted(e, l, n, s.term, LastIndex(s))
  <2>1. \A q \in Nodes : proposal'[q] =
          IF q = n THEN [index |-> LastIndex(s), term |-> s.term, acks |-> {n}, committed |-> FALSE]
          ELSE proposal[q]
    BY <1>1 DEF RaftInv, TypeOK, RestType
  <2> QED BY <2>1, <1>4, <1>6 DEF Counted
<1>9. Together'
  BY <1>1, <1>3, <1>5, TogetherPersist DEF RaftInv, StayPut
<1>10. PICK k : k = Ack(l, n, s.term, LastIndex(s))
  OBVIOUS
<1>11. role'[n] # "candidate" /\ s.commit >= st[n].commit /\ s.term >= st[n].term
       /\ LastIndex(s) <= l.ln[s.term]
  BY <1>1, <1>3, <1>4, <1>5, <1>6
<1> QED BY <1>1, <1>2, <1>3, <1>4, <1>5, <1>6, <1>7, <1>8, <1>9, <1>10, <1>11, AdoptLog

\* The record of logs after node n, leader of term T, put entry x at index j.
Put(l, n, T, j, x) == [l EXCEPT !.ln[T] = j, !.en[T][j] = x, !.ak[n][T] = j]

\* What a new entry changes in the record of logs.
LEMMA PutOK ==
    ASSUME NEW l \in Logs, NEW n \in Nodes, NEW T \in Terms, NEW j \in Indices, NEW x \in Entries,
           NEW k, k = Put(l, n, T, j, x)
    PROVE  /\ k \in Logs /\ k.ln[T] = j /\ k.en[T][j] = x /\ k.ak[n][T] = j
           /\ \A u \in Terms : u # T => k.ln[u] = l.ln[u] /\ k.en[u] = l.en[u]
           /\ \A i \in Indices : i # j => k.en[T][i] = l.en[T][i]
           /\ \A q \in Nodes, u \in Terms : q # n \/ u # T => k.ak[q][u] = l.ak[q][u]
<1>1. /\ l.ln \in [Terms -> 0..MaxLog] /\ l.en \in [Terms -> [Indices -> Entries]]
      /\ l.ak \in [Nodes -> [Terms -> 0..MaxLog]] /\ j \in 0..MaxLog
  BY Bounds DEF Logs, Indices
<1>2. /\ k.ln = [l.ln EXCEPT ![T] = j] /\ k.en = [l.en EXCEPT ![T][j] = x]
      /\ k.ak = [l.ak EXCEPT ![n][T] = j] /\ k = [ln |-> k.ln, en |-> k.en, ak |-> k.ak]
  BY DEF Put, Logs
<1>3. /\ k.ln \in [Terms -> 0..MaxLog] /\ k.en \in [Terms -> [Indices -> Entries]]
      /\ k.ak \in [Nodes -> [Terms -> 0..MaxLog]]
  BY <1>1, <1>2
<1>4. k \in Logs
  BY <1>2, <1>3 DEF Logs
<1> QED BY <1>1, <1>2, <1>4

\* A leader appends a new entry, which no later winner can have: its voters have
\* left the term.
LEMMA LogNew ==
    ASSUME ~StepDownWindow, NEW e \in Elections, NEW l \in Logs, RaftInv(e, l), NEW n \in Nodes,
           NEW view \in Views, Propose(n, view), LastIndex(st[n]) < MaxLog,
           NEW x, x = Entry(st[n].term, st[n].epoch + 1, view),
           NEW r, r = [st[n] EXCEPT !.log = Append(@, x)], Persist(n, r),
           proposal' = [proposal EXCEPT ![n] = [index |-> LastIndex(st[n]) + 1, term |-> st[n].term,
                                                acks |-> {n}, committed |-> FALSE]]
    PROVE  \E k \in Logs : RaftInv(e, k)' /\ Forward
<1>1. /\ TypeOK /\ ElectionInv(e) /\ Together /\ Campaigns /\ LeaderLogs(e, l) /\ NodeLogs(e, l)
      /\ AckInv(l) /\ WinnerInv(e, l) /\ BallotInv(l) /\ ProposalInv(e, l) /\ CommitInv(l)
      /\ RequestInv(e, l)
  BY DEF RaftInv, LogInv
<1>2. PICK s : s = st[n]
  OBVIOUS
<1>3. TypeOK' /\ Quiet
  BY <1>1, TypePropose
<1>4. role[n] = "leader" /\ UNCHANGED <<role, stepping, ballot, votes, msgs, chosen>>
  BY DEF Propose
<1>5. PICK T : T = s.term
  OBVIOUS
<1>6. /\ e.wn[T] = n /\ T \in Terms /\ T \in Nat /\ Won(e, T) /\ T >= 1 /\ LastIndex(s) = l.ln[T]
      /\ \A i \in 1..LastIndex(s) : l.en[LastTerm(s)][i] = l.en[T][i]
  BY <1>2, <1>4, <1>5, LeaderWon
<1>7. /\ StoreOK(s) /\ LogOK(l, s) /\ LeaderHas(e, l, n, s) /\ StoreCommitted(l, s)
      /\ s.commit \in Nat /\ s.snapIndex \in Nat /\ s.snapIndex <= s.commit /\ s.commit <= LastIndex(s)
      /\ LastIndex(s) \in Nat /\ LastIndex(s) < MaxLog
  BY <1>1, <1>2, LastRetained DEF NodeLogs, CommitInv, TypeOK, StoreType, Store, StoreOK
<1>8. PICK j : j = LastIndex(s) + 1
  OBVIOUS
<1>9. j \in Indices /\ j \in Nat /\ j = LastIndex(s) + 1
  BY <1>7, <1>8, Bounds DEF Indices
<1>10. /\ x \in Entries /\ StoreOK(r)
       /\ r.term = T /\ r.commit = s.commit
       /\ r.epoch = s.epoch /\ r.view = s.view /\ r.snapIndex = s.snapIndex
       /\ r.snapTerm = s.snapTerm /\ r.snapEpoch = s.snapEpoch /\ r.snapView = s.snapView
       /\ LastIndex(r) = j /\ LastTerm(r) = T /\ EntryAt(r, j) = x
       /\ \A i \in (s.snapIndex + 1)..LastIndex(s) : EntryAt(r, i) = EntryAt(s, i)
  BY <1>2, <1>5, <1>7, <1>9, AppendedOK
<1>11. /\ x.term = T /\ x.view \in Views /\ x.epoch > BootstrapEpoch
  <2>1. x.term = T /\ x.view = view /\ x.epoch = s.epoch + 1
    BY <1>2, <1>5 DEF Entry
  <2>2. s.commit \in 0..s.commit
    BY <1>7
  <2>3. At(s.commit).epoch \in Nat /\ At(s.commit).epoch >= BootstrapEpoch /\ s.epoch = At(s.commit).epoch
    BY <2>2, <1>1, <1>7, AtCommitted DEF StoreCommitted
  <2> QED BY <2>1, <2>3 DEF BootstrapEpoch
<1>12. st'[n] = r /\ \A p \in Nodes \ {n} : st'[p] = st[p]
  BY <1>1, <1>10, PersistOK DEF TypeOK
<1>13. PICK k : k = Put(l, n, T, j, x)
  BY SMTT(60)
<1>14. /\ k \in Logs /\ k.ln[T] = j /\ k.en[T][j] = x /\ k.ak[n][T] = j
       /\ \A u \in Terms : u # T => k.ln[u] = l.ln[u] /\ k.en[u] = l.en[u]
       /\ \A i \in Indices : i # j => k.en[T][i] = l.en[T][i]
       /\ \A q \in Nodes, u \in Terms : q # n \/ u # T => k.ak[q][u] = l.ak[q][u]
  BY <1>6, <1>9, <1>10, <1>13, PutOK, SMTT(60)
<1>15. \A q \in Nodes : /\ st'[q].term = st[q].term /\ st[q].term \in Nat /\ st[q].term \in Terms
                        /\ st'[q].commit = st[q].commit /\ st[q].commit \in Nat
  BY <1>1, <1>2, <1>5, <1>10, <1>12, TermsNat DEF TypeOK, StoreType, Store
<1>16. \A q \in Nodes, u \in Terms :
         k.ak[q][u] \in Nat /\ l.ak[q][u] \in Nat /\ u \in Nat /\ l.ak[q][u] <= l.ln[u] /\ l.ln[u] \in Nat
  BY <1>1, <1>14, LogTypes DEF AckInv
<1>17. Grows(l, k)
  <2>1. ASSUME NEW q \in Nodes, NEW u \in Terms
        PROVE  k.ak[q][u] >= l.ak[q][u] /\ (st[q].term > u => k.ak[q][u] = l.ak[q][u])
    <3>1. CASE q = n /\ u = T
      BY <3>1, <1>2, <1>5, <1>6, <1>7, <1>9, <1>14, <1>16
    <3>2. CASE q # n \/ u # T
      BY <3>2, <1>14, <1>16
    <3> QED BY <3>1, <3>2, SMTT(60)
  <2>2. ASSUME NEW u \in Terms
        PROVE  k.ln[u] >= l.ln[u] /\ \A i \in 1..l.ln[u] : k.en[u][i] = l.en[u][i]
    <3>1. CASE u = T
      <4>1. \A i \in 1..l.ln[T] : i \in Indices /\ i # j
        BY <1>6, <1>7, <1>9, LogTypes
      <4> QED BY <3>1, <4>1, <1>6, <1>7, <1>9, <1>14
    <3>2. CASE u # T
      BY <3>2, <1>14, LogTypes
    <3> QED BY <3>1, <3>2
  <2>3. \A q \in Nodes : st'[q].term >= st[q].term
    BY <1>15
  <2> QED BY <2>1, <2>2, <2>3 DEF Grows
<1>18. \A i \in 1..LastIndex(s) : k.en[T][i] = l.en[LastTerm(s)][i] /\ k.en[T][i] = l.en[T][i]
  BY <1>6, <1>17 DEF Grows
<1>19. ASSUME NEW t \in Terms, NEW i \in Nat, Created(k, t, i), ~(t = T /\ i = j)
       PROVE  Created(l, t, i)
  <2>1. CASE t = T
    <3>1. i \in 1..j /\ i # j
      BY <1>14, <1>19, <2>1 DEF Created
    <3>2. i \in 1..LastIndex(s)
      BY <3>1, <1>7, <1>9
    <3> QED BY <1>6, <1>18, <1>19, <2>1, <3>2 DEF Created
  <2>2. CASE t # T
    BY <1>14, <1>19, <2>2, SMTT(60) DEF Created
  <2> QED BY <2>1, <2>2
<1>20. LeaderLogs(e, k)'
  <2>1. ASSUME NEW t \in Terms, NEW i \in 1..k.ln[t]
        PROVE  /\ k.en[t][i].term \in 1..t /\ Won(e, k.en[t][i].term)
               /\ i <= k.ln[k.en[t][i].term]
               /\ \A h \in 1..i : k.en[t][h] = k.en[k.en[t][i].term][h]
               /\ k.en[t][i].epoch > BootstrapEpoch /\ k.en[t][i].view \in Views
    <3>1. CASE t = T /\ i = j
      BY <3>1, <1>6, <1>9, <1>11, <1>14, SMTT(60)
    <3>2. CASE ~(t = T /\ i = j)
      <4>1. i \in 1..l.ln[t]
        BY <3>2, <1>6, <1>7, <1>9, <1>14
      <4>2. PICK u : u = l.en[t][i].term
        BY SMTT(60)
      <4>3. /\ u \in 1..t /\ Won(e, u) /\ i <= l.ln[u] /\ \A h \in 1..i : l.en[t][h] = l.en[u][h]
            /\ l.en[t][i].epoch > BootstrapEpoch /\ l.en[t][i].view \in Views
            /\ u \in Terms /\ l.ln[u] \in Nat /\ k.ln[u] \in Nat /\ l.ln[t] \in Nat
        BY <4>1, <4>2, <1>1, <1>14, LogTypes DEF LeaderLogs
      <4>4. /\ k.ln[u] >= l.ln[u] /\ \A h \in 1..l.ln[u] : k.en[u][h] = l.en[u][h]
            /\ \A h \in 1..l.ln[t] : k.en[t][h] = l.en[t][h]
        BY <4>3, <1>17 DEF Grows
      <4>5. \A h \in 1..i : k.en[t][h] = k.en[u][h]
        BY <4>1, <4>3, <4>4
      <4>6. k.en[t][i] = l.en[t][i] /\ i <= k.ln[u]
        BY <4>1, <4>3, <4>4
      <4> QED BY <4>2, <4>3, <4>5, <4>6
    <3> QED BY <3>1, <3>2, SMTT(60)
  <2>2. ~Won(e, 0) /\ \A t \in Terms : ~Won(e, t) => k.ln[t] = 0
    BY <1>1, <1>6, <1>14 DEF LeaderLogs
  <2> QED BY <2>1, <2>2, SMTT(60) DEF LeaderLogs, Won
<1>21. \A q \in Nodes : /\ StoreOK(st[q]) /\ LogOK(l, st[q]) /\ LogOK(k, st[q])
                        /\ \A i \in 1..LastIndex(st[q]) :
                             k.en[LastTerm(st[q])][i] = l.en[LastTerm(st[q])][i]
  BY <1>1, <1>14, <1>17, LogStays DEF NodeLogs, TypeOK, StoreType
<1>22. LogOK(k, r)
  <2>1. \A i \in (s.snapIndex + 1)..LastIndex(r) : EntryAt(r, i) = k.en[T][i]
    <3> TAKE i \in (s.snapIndex + 1)..LastIndex(r)
    <3>1. CASE i = j
      BY <3>1, <1>10, <1>14
    <3>2. CASE i # j
      <4>1. i \in (s.snapIndex + 1)..LastIndex(s) /\ i \in 1..LastIndex(s)
        BY <3>2, <1>7, <1>9, <1>10
      <4> QED BY <4>1, <1>7, <1>10, <1>18 DEF LogOK
    <3> QED BY <3>1, <3>2
  <2>2. r.snapTerm = EntryTerm(k, T, s.snapIndex)
    <3>1. s.snapTerm = EntryTerm(l, LastTerm(s), s.snapIndex)
      BY <1>7 DEF LogOK
    <3>2. s.snapIndex # 0 => s.snapIndex \in 1..LastIndex(s)
      BY <1>7
    <3> QED BY <3>1, <3>2, <1>10, <1>18 DEF EntryTerm
  <2>3. LastIndex(r) <= k.ln[T] /\ T <= r.term
    BY <1>6, <1>9, <1>10, <1>14
  <2>4. r.snapIndex = s.snapIndex /\ LastTerm(r) = T
    BY <1>10, SMTT(60)
  <2> QED BY <2>1, <2>2, <2>3, <2>4 DEF LogOK
<1>23. NodeLogs(e, k)'
  <2>1. ASSUME NEW q \in Nodes PROVE LogOK(k, st'[q]) /\ LeaderHas(e, k, q, st'[q])
    <3>1. CASE q = n
      BY <3>1, <1>10, <1>12, <1>14, <1>22, SMTT(60) DEF LeaderHas
    <3>2. CASE q # n
      <4>1. st'[q] = st[q] /\ LeaderHas(e, l, q, st[q]) /\ (e.wn[st[q].term] = q => st[q].term # T)
        BY <3>2, <1>1, <1>6, <1>12 DEF NodeLogs
      <4>2. LeaderHas(e, k, q, st[q])
        BY <4>1, <1>14, <1>15, <1>21 DEF LeaderHas
      <4> QED BY <4>1, <4>2, <1>21
    <3> QED BY <3>1, <3>2
  <2>2. \A q \in Nodes : LogOK(k, st'[q]) /\ LeaderHas(e, k, q, st'[q])
    BY <2>1
  <2> QED BY <2>2 DEF NodeLogs, LogOK, LeaderHas, LastIndex, LastTerm, TermAt, EntryAt
<1>24. \A t \in Terms, i \in Nat : Dead(l, t, i) => Dead(k, t, i)'
  BY <1>1, <1>3, <1>14, <1>17, DeadStays
<1>25. AckInv(k)'
  <2> SUFFICES ASSUME NEW q \in Nodes, NEW t \in Terms
               PROVE  /\ k.ak[q][t] <= k.ln[t] /\ (k.ak[q][t] > 0 => t <= st'[q].term)
                      /\ \A i \in 1..k.ak[q][t] :
                           Created(k, t, i) => Has(k, st'[q], t, i) \/ Dead(k, t, i)'
    BY DEF AckInv, Created, Has, Dead, LastTerm, LastIndex, TermAt
  <2>1. CASE q = n /\ t = T
    <3>1. k.ak[q][t] = j /\ k.ln[t] = j /\ st'[q].term = T /\ LastIndex(st'[q]) = j /\ LastTerm(st'[q]) = T
      BY <2>1, <1>10, <1>12, <1>14
    <3>2. \A i \in 1..j : Created(k, T, i) => Has(k, st'[q], T, i)
      BY <3>1, <1>9 DEF Created, Has
    <3> QED BY <2>1, <3>1, <3>2, <1>6, <1>9
  <2>2. CASE q # n \/ t # T
    <3>1. /\ l.ak[q][t] <= l.ln[t] /\ (l.ak[q][t] > 0 => t <= st[q].term)
          /\ \A i \in 1..l.ak[q][t] : Created(l, t, i) => Has(l, st[q], t, i) \/ Dead(l, t, i)
          /\ k.ln[t] >= l.ln[t] /\ k.ln[t] \in Nat /\ l.ln[t] \in Nat /\ k.ak[q][t] = l.ak[q][t]
      BY <2>2, <1>1, <1>14, <1>17, LogTypes DEF AckInv, Grows
    <3>2. ASSUME NEW i \in 1..l.ak[q][t], Created(k, t, i)
          PROVE  Has(k, st'[q], t, i) \/ Dead(k, t, i)'
      <4>1. i \in Nat /\ i >= 1 /\ i \in 1..l.ln[t]
        BY <3>1, <1>16
      <4>2. ~(t = T /\ i = j)
        BY <4>1, <1>6, <1>7, <1>9
      <4>3. Created(l, t, i)
        BY <4>1, <4>2, <3>2, <1>19
      <4>4. CASE Has(l, st[q], t, i)
        <5>1. i <= LastIndex(st[q]) /\ l.en[LastTerm(st[q])][i].term = t /\ LastIndex(st[q]) \in Nat
          BY <4>4, <1>21, LastRetained DEF Has
        <5>2. CASE q = n
          <6>1. i \in 1..LastIndex(s) /\ i <= j
            BY <5>1, <5>2, <4>1, <1>2, <1>7, <1>9
          <6> QED BY <5>1, <5>2, <6>1, <1>2, <1>10, <1>12, <1>18 DEF Has
        <5>3. CASE q # n
          <6>1. i \in 1..LastIndex(st[q]) /\ st'[q] = st[q]
            BY <5>1, <5>3, <4>1, <1>12
          <6> QED BY <5>1, <6>1, <1>21 DEF Has
        <5> QED BY <5>2, <5>3
      <4>5. CASE Dead(l, t, i)
        BY <4>1, <4>5, <1>24
      <4> QED BY <3>1, <4>3, <4>4, <4>5
    <3>3. k.ak[q][t] <= k.ln[t] /\ (k.ak[q][t] > 0 => t <= st'[q].term)
      BY <3>1, <1>15, <1>16
    <3> QED BY <3>1, <3>2, <3>3
  <2> QED BY <2>1, <2>2
<1>26. WinnerInv(e, k)'
  <2> SUFFICES ASSUME NEW t \in Terms, NEW u \in Terms, t < u, Won(e, u),
                      NEW i \in Indices, Created(k, t, i)
               PROVE  (i <= k.ln[u] /\ k.en[u][i].term = t) \/ Dead(k, t, i)'
    BY DEF WinnerInv, Created, Won
  <2>1. i \in Nat /\ i >= 1
    BY Bounds DEF Indices
  <2>2. CASE t = T /\ i = j
    <3>1. e.qu[u] \in SUBSET Nodes
      BY DEF Elections
    <3>2. voterMajority(e.qu[u]) /\ \A q \in e.qu[u] : e.vt[q][u] = e.wn[u]
      BY <1>1 DEF ElectionInv, QuorumsKept, Won
    <3>3. ASSUME NEW q \in e.qu[u] PROVE st'[q].term > T /\ k.ak[q][T] < j
      <4>1. q \in Nodes /\ e.vt[q][u] # Nobody
        BY <3>1, <3>2 DEF Won
      <4>2. u <= st[q].term
        BY <4>1, <1>1, <1>15, <1>16 DEF ElectionInv, VotesKept, VoteOK
      <4>3. st[q].term > T /\ st'[q].term > T
        BY <4>1, <4>2, <2>2, <1>15, <1>16
      <4>4. q # n
        BY <4>3, <1>2, <1>5, <1>6
      <4>5. k.ak[q][T] = l.ak[q][T] /\ l.ak[q][T] <= LastIndex(s) /\ l.ak[q][T] \in Nat
        BY <4>1, <4>4, <1>6, <1>14, <1>16
      <4> QED BY <4>3, <4>5, <1>7, <1>9
    <3>4. Dead(k, T, j)'
      BY <3>1, <3>2, <3>3 DEF Dead, voterMajority
    <3> QED BY <2>2, <3>4
  <2>3. CASE ~(t = T /\ i = j)
    <3>1. Created(l, t, i)
      BY <2>1, <2>3, <1>19
    <3>2. (i <= l.ln[u] /\ l.en[u][i].term = t) \/ Dead(l, t, i)
      BY <3>1, <1>1 DEF WinnerInv
    <3>3. /\ k.ln[u] >= l.ln[u] /\ k.ln[u] \in Nat /\ l.ln[u] \in Nat
          /\ \A h \in 1..l.ln[u] : k.en[u][h] = l.en[u][h]
      BY <1>14, <1>17, LogTypes DEF Grows
    <3> QED BY <2>1, <3>2, <3>3, <1>24
  <2> QED BY <2>2, <2>3
<1>27. BallotInv(k)'
  <2>1. \A q \in Nodes : role'[q] \in {role[q], "follower", "leader"} /\ votes'[q] \subseteq votes[q]
    BY <1>4
  <2> QED BY <2>1, <1>1, <1>3, <1>4, <1>14, <1>17, BallotsStay
<1>28. ProposalInv(e, k)'
  <2>1. \A q \in Nodes : proposal'[q] =
          IF q = n THEN [index |-> j, term |-> T, acks |-> {n}, committed |-> FALSE] ELSE proposal[q]
    BY <1>1, <1>2, <1>5, <1>8 DEF TypeOK, RestType
  <2> SUFFICES ASSUME NEW q \in Nodes, proposal'[q] # NoProposal
               PROVE  /\ e.wn[proposal'[q].term] = q
                      /\ \A y \in proposal'[q].acks : k.ak[y][proposal'[q].term] >= proposal'[q].index
                      /\ proposal'[q].index >= 1
    BY DEF ProposalInv
  <2>2. CASE q = n
    BY <2>1, <2>2, <1>6, <1>7, <1>9, <1>14
  <2>3. CASE q # n
    <3>1. /\ e.wn[proposal[q].term] = q /\ proposal[q].index >= 1
          /\ \A y \in proposal[q].acks : l.ak[y][proposal[q].term] >= proposal[q].index
          /\ proposal[q].term \in Terms /\ proposal[q].acks \in SUBSET Nodes
      BY <2>1, <2>3, <1>1 DEF ProposalInv, TypeOK, RestType, Proposals
    <3>2. proposal[q].term # T
      BY <3>1, <2>3, <1>6
    <3> QED BY <2>1, <2>3, <3>1, <3>2, <1>14
  <2> QED BY <2>2, <2>3
<1>29. Forward
  BY <1>4, <1>15 DEF Forward
<1>30. CommitInv(k)'
  <2>1. ASSUME NEW q \in Nodes PROVE StoreCommitted(k, st[q])'
    <3>1. CASE q = n
      <4>1. \A i \in 1..s.commit : chosen'[i] = chosen[i] /\ k.en[LastTerm(r)][i] = l.en[LastTerm(s)][i]
        BY <1>4, <1>7, <1>10, <1>18
      <4>2. r.term >= s.term
        BY <1>5, <1>6, <1>10
      <4>3. StoreCommitted(k, r)'
        BY <4>1, <4>2, <1>7, <1>10, <1>14, <1>17, StoreCommittedStays, ZenonT(60)
      <4> QED BY <3>1, <4>3, <1>12, StoreCommittedNext
    <3>2. CASE q # n
      <4>1. PICK y : y = st[q]
        OBVIOUS
      <4>2. StoreOK(y) /\ LogOK(l, y) /\ StoreCommitted(l, y) /\ st'[q] = y
        BY <3>2, <4>1, <1>1, <1>12, <1>21 DEF CommitInv
      <4> QED BY <4>2, <1>4, <1>14, <1>17, KeptCommitted
    <3> QED BY <3>1, <3>2
  <2> QED BY <2>1, <1>1, <1>4, <1>15 DEF CommitInv
<1>31. RequestInv(e, k)'
  <2>1. \A m \in msgs : RequestTrue(e, k, m)'
    BY <1>1, <1>3, <1>14, <1>17, <1>29, RequestsStay
  <2> QED BY <2>1, <1>4 DEF RequestInv
<1>32. Campaigns'
  <2>1. ASSUME NEW q \in Nodes, role'[q] = "candidate"
        PROVE  /\ ballot'[q].term >= 1 /\ ballot'[q].lastIndex = LastIndex(st'[q])
               /\ ballot'[q].lastTerm = LastTerm(st'[q])
    <3>1. q # n /\ role[q] = "candidate" /\ ballot' = ballot /\ st'[q] = st[q]
      BY <2>1, <1>4, <1>12
    <3> QED BY <3>1, <1>1 DEF Campaigns
  <2> QED BY <2>1 DEF Campaigns, LastIndex, LastTerm, TermAt
<1>33. Together'
  <2>1. r.term = st[n].term
    BY <1>2, <1>5, <1>10
  <2> QED BY <2>1, <1>1, <1>4, <1>10, TogetherPersist DEF StayPut
<1>34. ElectionInv(e)'
  BY <1>1, <1>3, QuietElections
<1> QED BY <1>3, <1>14, <1>20, <1>23, <1>25, <1>26, <1>27, <1>28, <1>29, <1>30, <1>31, <1>32, <1>33, <1>34
        DEF RaftInv, LogInv

\* A proposal, new or repeated.
LEMMA LogPropose ==
    ASSUME ~StepDownWindow, NEW e \in Elections, NEW l \in Logs, RaftInv(e, l), NEW n \in Nodes,
           NEW view \in Views, Propose(n, view)
    PROVE  \E k \in Logs : RaftInv(e, k)' /\ Forward
<1>1. PICK x : x = Entry(st[n].term, st[n].epoch + 1, view)
  OBVIOUS
<1>2. PICK r : r = [st[n] EXCEPT !.log = Append(@, x)]
  OBVIOUS
<1> DEFINE again == LastIndex(st[n]) > st[n].commit /\ Last(st[n].log) = x
<1>3. /\ LastIndex(st[n]) < MaxLog \/ again
      /\ Persist(n, IF again THEN st[n] ELSE r)
      /\ proposal' = [proposal EXCEPT ![n] =
            [index |-> LastIndex(st[n]) + (IF again THEN 0 ELSE 1),
             term |-> st[n].term, acks |-> {n}, committed |-> FALSE]]
  BY <1>1, <1>2, Zenon DEF Propose
<1>4. LastIndex(st[n]) \in Nat
  BY LastRetained DEF RaftInv, TypeOK, StoreType
<1>5. CASE again
  <2>1. LastIndex(st[n]) + (IF again THEN 0 ELSE 1) = LastIndex(st[n])
    BY <1>4, <1>5
  <2>2. Persist(n, st[n]) /\ LastIndex(st[n]) > st[n].commit
    BY <1>3, <1>5
  <2>3. proposal' = [proposal EXCEPT ![n] = [index |-> LastIndex(st[n]), term |-> st[n].term,
                                             acks |-> {n}, committed |-> FALSE]]
    BY <1>3, <2>1
  <2> QED BY <2>2, <2>3, LogAgain
<1>6. CASE ~again
  <2>1. LastIndex(st[n]) + (IF again THEN 0 ELSE 1) = LastIndex(st[n]) + 1
    BY <1>6
  <2>2. Persist(n, r) /\ LastIndex(st[n]) < MaxLog
    BY <1>3, <1>6
  <2>3. proposal' = [proposal EXCEPT ![n] = [index |-> LastIndex(st[n]) + 1, term |-> st[n].term,
                                             acks |-> {n}, committed |-> FALSE]]
    BY <1>3, <2>1
  <2> QED BY <1>1, <1>2, <2>2, <2>3, LogNew
<1> QED BY <1>5, <1>6

-----------------------------------------------------------------------------
(* Followers *)

\* An acknowledgement is counted for an entry it covers.
LEMMA AckCounted ==
    ASSUME NEW e \in Elections, NEW l \in Logs, RaftInv(e, l), NEW m \in msgs,
           NEW K \in Nat, Acknowledge(m, K)
    PROVE  Counted(e, l, m.to, m.term, K)
<1>1. ProposalInv(e, l) /\ RequestTrue(e, l, m) /\ MessageOK(m)
      /\ proposal \in [Nodes -> Proposals \cup {NoProposal}]
  BY DEF RaftInv, LogInv, RequestInv, TypeOK, RestType
<1>2. m.from \in Nodes /\ m.to \in Nodes /\ e.wn[m.term] = m.from
  BY <1>1 DEF MessageOK, Messages, RequestTrue
<1> DEFINE p == proposal[m.from]
<1>3. CASE p # NoProposal /\ p.term = m.term /\ p.index <= K
  <2>1. proposal' = [proposal EXCEPT ![m.from].acks = @ \cup {m.to}]
    BY <1>3 DEF Acknowledge
  <2>2. p \in Proposals
    BY <1>1, <1>2, <1>3
  <2>3. PICK y : y = proposal'[m.from]
    OBVIOUS
  <2>4. /\ y.term = p.term /\ y.index = p.index /\ y.acks = p.acks \cup {m.to}
        /\ \A q \in Nodes \ {m.from} : proposal'[q] = proposal[q]
    BY <2>1, <2>2, <2>3, <1>1, <1>2 DEF Proposals
  <2>5. /\ p.index \in Nat /\ p.index >= 1 /\ \A x \in p.acks : l.ak[x][p.term] >= p.index
    BY <2>2, <1>1, <1>2, <1>3 DEF ProposalInv, Proposals
  <2> QED BY <2>3, <2>4, <2>5, <1>2, <1>3 DEF Counted
<1>4. CASE ~(p # NoProposal /\ p.term = m.term /\ p.index <= K)
  <2>1. proposal' = proposal
    BY <1>4 DEF Acknowledge
  <2> QED BY <2>1 DEF Counted
<1> QED BY <1>3, <1>4

\* The commit index of a request is backed by the chosen entries, in the log of
\* the sender's term.
LEMMA RequestChain ==
    ASSUME NEW e \in Elections, NEW l \in Logs, RaftInv(e, l), NEW m \in msgs
    PROVE  /\ RequestTrue(e, l, m) /\ MessageOK(m) /\ Won(e, m.term)
           /\ m.term \in Terms /\ m.term \in Nat /\ m.to \in Nodes /\ m.commit \in Nat
           /\ m.index \in Nat /\ Len(m.entries) \in Nat /\ m.entries \in Seq(Entries)
           /\ m.commit <= l.ln[m.term] /\ l.ln[m.term] \in Nat /\ l.ln[m.term] <= MaxLog
           /\ \A i \in 1..m.commit : chosen[i] = l.en[m.term][i] /\ Extends(At(i - 1), chosen[i])
<1>1. RequestTrue(e, l, m) /\ MessageOK(m) /\ TypeOK /\ LeaderLogs(e, l) /\ WinnerInv(e, l) /\ CommitInv(l)
  BY DEF RaftInv, LogInv, RequestInv, TypeOK, RestType
<1>2. /\ m.term \in Terms /\ m.to \in Nodes /\ m.from \in Nodes /\ m.commit \in Nat /\ m.index \in Nat
      /\ m.entries \in Seq(Entries)
  BY <1>1 DEF MessageOK, Messages
<1>3. Won(e, m.term) /\ Committed(l, m.term, m.commit) /\ \E n \in Nodes : m.commit <= st[n].commit
  BY <1>1, <1>2, Bounds DEF RequestTrue, Won
<1>4. m.commit <= l.ln[m.term] /\ \A i \in 1..m.commit : chosen[i] = l.en[m.term][i]
  BY <1>1, <1>2, <1>3, CommittedInWinner
<1>5. PICK n \in Nodes : m.commit <= st[n].commit
  BY <1>3
<1>6. st[n].commit \in Nat /\ StoreCommitted(l, st[n])
  BY <1>1 DEF CommitInv, TypeOK, StoreType, Store
<1>7. \A i \in 1..m.commit : i \in 1..st[n].commit
  BY <1>2, <1>5, <1>6
<1>8. \A i \in 1..m.commit : Extends(At(i - 1), chosen[i])
  BY <1>6, <1>7 DEF StoreCommitted
<1>9. m.term \in Nat /\ l.ln[m.term] \in Nat /\ l.ln[m.term] <= MaxLog /\ Len(m.entries) \in Nat
  BY <1>2, LogTypes, SMTT(60)
<1> QED BY <1>1, <1>2, <1>3, <1>4, <1>8, <1>9

\* The store at the term of a request: same log, same commits.
LEMMA AtRequest ==
    ASSUME NEW e \in Elections, NEW l \in Logs, RaftInv(e, l), NEW m \in msgs,
           m.term >= st[m.to].term, NEW s, s = AtTerm(st[m.to], m.term)
    PROVE  /\ StoreOK(s) /\ s.term = m.term /\ LogOK(l, s) /\ StoreCommitted(l, s)
           /\ LeaderHas(e, l, m.to, s)
           /\ s.commit = st[m.to].commit /\ s.commit \in Nat /\ s.snapIndex \in Nat
           /\ s.snapIndex <= s.commit /\ s.commit <= LastIndex(s)
           /\ LastIndex(s) = LastIndex(st[m.to]) /\ LastTerm(s) = LastTerm(st[m.to])
           /\ LastIndex(s) \in Nat /\ LastTerm(s) \in Terms /\ LastTerm(s) \in Nat
           /\ s.commit <= l.ln[m.term]
           /\ \A i \in 1..s.commit : /\ chosen[i] = l.en[m.term][i] /\ chosen[i] = l.en[LastTerm(s)][i]
                                     /\ Extends(At(i - 1), chosen[i])
<1>1. /\ RequestTrue(e, l, m) /\ Won(e, m.term) /\ m.term \in Terms /\ m.term \in Nat /\ m.to \in Nodes
  BY RequestChain
<1>2. PICK x : x = st[m.to]
  OBVIOUS
<1>3. /\ TypeOK /\ StoreOK(x) /\ LogOK(l, x) /\ StoreCommitted(l, x) /\ LeaderLogs(e, l) /\ WinnerInv(e, l)
      /\ x.term \in Terms /\ x.term \in Nat
  BY <1>1, <1>2, TermsNat DEF RaftInv, LogInv, NodeLogs, CommitInv, TypeOK, StoreType
<1>4. /\ StoreOK(s) /\ s.term = m.term /\ s.log = x.log /\ s.commit = x.commit
      /\ s.epoch = x.epoch /\ s.view = x.view /\ s.snapIndex = x.snapIndex /\ s.snapTerm = x.snapTerm
      /\ s.snapEpoch = x.snapEpoch /\ s.snapView = x.snapView
      /\ LastIndex(s) = LastIndex(x) /\ LastTerm(s) = LastTerm(x)
  BY <1>1, <1>2, <1>3, AtTermOK
<1>5. /\ s.commit \in Nat /\ s.snapIndex \in Nat /\ s.snapIndex <= s.commit /\ s.commit <= LastIndex(s)
      /\ LastIndex(s) \in Nat /\ LastTerm(s) \in Terms /\ LastTerm(s) \in Nat
  BY <1>4, LastRetained, LogTypes DEF StoreOK, Store
<1>6. LogOK(l, s)
  <2>1. LastTerm(x) <= x.term
    BY <1>3 DEF LogOK
  <2>2. LastTerm(s) <= s.term
    BY <2>1, <1>1, <1>2, <1>3, <1>4, <1>5
  <2> QED BY <2>2, <1>3, <1>4 DEF LogOK, EntryAt
<1>7. Committed(l, m.term, s.commit)
  <2>1. Committed(l, x.term, s.commit)
    BY <1>3, <1>4 DEF StoreCommitted
  <2>2. CASE s.commit = 0
    BY <2>2 DEF Committed
  <2>3. CASE s.commit # 0
    <3>1. PICK t \in Terms, j \in Indices :
            t <= x.term /\ j >= s.commit /\ Cert(l, t, j) /\ \A i \in 1..s.commit : chosen[i] = l.en[t][i]
      BY <2>1, <2>3 DEF Committed
    <3>2. t <= m.term
      BY <3>1, <1>1, <1>2, <1>3, LogTypes
    <3> QED BY <3>1, <3>2 DEF Committed
  <2> QED BY <2>2, <2>3
<1>8. StoreCommitted(l, s)
  BY <1>3, <1>4, <1>7 DEF StoreCommitted
<1>9. s.commit <= l.ln[m.term] /\ \A i \in 1..s.commit : chosen[i] = l.en[m.term][i]
  BY <1>1, <1>3, <1>5, <1>7, CommittedInWinner
<1>10. LeaderHas(e, l, m.to, s)
  BY <1>1, <1>4 DEF LeaderHas, RequestTrue
<1> QED BY <1>2, <1>4, <1>5, <1>6, <1>8, <1>9, <1>10 DEF StoreCommitted

\* A node that hears from the leader of a term takes over what was sent and follows.
LEMMA FollowerStep ==
    ASSUME ~StepDownWindow, NEW e \in Elections, NEW l \in Logs, RaftInv(e, l), NEW m \in msgs,
           m.term >= st[m.to].term, TypeOK', Quiet, StepDown(m.to), chosen' = chosen, msgs' \subseteq msgs,
           NEW r, StoreOK(r), Persist(m.to, r), r.term = m.term, r.commit >= st[m.to].commit,
           LogOK(l, r), StoreCommitted(l, r), NEW K \in Nat, K <= l.ln[m.term],
           Adopts(l, st[m.to], r, m.term, K), Acknowledge(m, K)
    PROVE  \E k \in Logs : RaftInv(e, k)' /\ Forward
<1>1. /\ RequestTrue(e, l, m) /\ Won(e, m.term) /\ m.term \in Terms /\ m.term \in Nat /\ m.to \in Nodes
      /\ l.ln[m.term] \in Nat /\ l.ln[m.term] <= MaxLog
  BY RequestChain
<1>2. PICK n : n = m.to
  OBVIOUS
<1>3. PICK T : T = m.term
  OBVIOUS
<1>4. K \in 0..MaxLog
  BY <1>1, Bounds
<1>5. Counted(e, l, n, T, K)
  BY <1>2, <1>3, AckCounted
<1>6. role'[n] = "follower"
  BY <1>1, <1>2 DEF StepDown, RaftInv, TypeOK, RoleType
<1>7. Together'
  <2>1. ballot' = ballot
    BY DEF Quiet
  <2> QED BY <2>1, <1>1, TogetherPersist DEF RaftInv
<1>8. LeaderHas(e, l, n, r)
  BY <1>1, <1>2 DEF LeaderHas, RequestTrue
<1>9. PICK k : k = Ack(l, n, T, K)
  OBVIOUS
<1> QED BY <1>1, <1>2, <1>3, <1>4, <1>5, <1>6, <1>7, <1>8, <1>9, AdoptLog

\* A snapshot becomes the boundary of a store that follows the sender's log.
LEMMA InstalledLog ==
    ASSUME NEW e \in Elections, NEW l \in Logs, RaftInv(e, l), NEW m \in msgs, m.type = "snapshot",
           m.term >= st[m.to].term, NEW s, s = AtTerm(st[m.to], m.term), m.index > s.commit,
           NEW r, r = Installed(s, m)
    PROVE  /\ StoreOK(r) /\ r.term = m.term /\ r.commit = m.index
           /\ LogOK(l, r) /\ StoreCommitted(l, r) /\ Adopts(l, st[m.to], r, m.term, m.index)
<1> DEFINE T == m.term
           K == m.index
<1>1. /\ RequestTrue(e, l, m) /\ MessageOK(m) /\ Won(e, T) /\ T \in Terms /\ T \in Nat
      /\ m.commit \in Nat /\ K \in Nat /\ m.commit <= l.ln[T] /\ l.ln[T] \in Nat
      /\ \A i \in 1..m.commit : chosen[i] = l.en[T][i] /\ Extends(At(i - 1), chosen[i])
  BY RequestChain
<1>2. /\ K = m.commit /\ K > 0 /\ m.epoch = At(K).epoch /\ m.view = At(K).view
      /\ m.prevTerm = EntryTerm(l, T, K) /\ Committed(l, T, K)
  BY <1>1 DEF RequestTrue
<1>3. /\ StoreOK(s) /\ s.term = T /\ LogOK(l, s) /\ s.commit \in Nat /\ s.snapIndex \in Nat
      /\ s.snapIndex <= s.commit /\ s.commit <= LastIndex(s)
      /\ LastIndex(s) = LastIndex(st[m.to]) /\ LastTerm(s) = LastTerm(st[m.to])
      /\ LastIndex(s) \in Nat /\ LastTerm(s) \in Terms /\ LastTerm(s) \in Nat
  BY AtRequest
<1>4. /\ StoreOK(r) /\ r.term = s.term /\ r.snapIndex = K /\ r.snapTerm = m.prevTerm /\ r.commit = K
      /\ r.snapEpoch = m.epoch /\ r.snapView = m.view /\ r.epoch = m.epoch /\ r.view = m.view
      /\ ~PrevMatches(s, m) => LastIndex(r) = K /\ LastTerm(r) = m.prevTerm
      /\ PrevMatches(s, m) => /\ LastIndex(r) = LastIndex(s) /\ LastTerm(r) = LastTerm(s)
                              /\ \A i \in (K + 1)..LastIndex(s) : EntryAt(r, i) = EntryAt(s, i)
  BY <1>1, <1>3, InstalledOK
<1>5. LeaderLogs(e, l)
  BY DEF RaftInv, LogInv
<1>6. K \in Indices /\ K \in 1..l.ln[T]
  BY <1>1, <1>2, LogTypes
<1> HIDE DEF T, K
<1>7. CASE PrevMatches(s, m)
  <2>1. K <= LastIndex(s) /\ TermAt(s, K) = m.prevTerm /\ K \in Retained(s)
    BY <1>1, <1>3, <1>7 DEF PrevMatches, Retained, K
  <2>2. l.en[LastTerm(s)][K].term = l.en[T][K].term
    BY <2>1, <1>1, <1>2, <1>3, TermAtLog DEF EntryTerm
  <2>3. K <= l.ln[LastTerm(s)] /\ K <= l.ln[T]
    <3>1. LastIndex(s) <= l.ln[LastTerm(s)] /\ l.ln[LastTerm(s)] \in Nat
      BY <1>3, LogTypes DEF LogOK
    <3> QED BY <3>1, <2>1, <1>1, <1>3, <1>6
  <2>4. \A i \in 1..K : l.en[LastTerm(s)][i] = l.en[T][i]
    BY <2>2, <2>3, <1>1, <1>3, <1>5, <1>6, PrefixAgrees
  <2>5. LogOK(l, r)
    <3>1. \A i \in (K + 1)..LastIndex(s) : EntryAt(r, i) = l.en[LastTerm(s)][i]
      <4>1. K > s.snapIndex
        BY <1>1, <1>3 DEF K
      <4>2. \A i \in (K + 1)..LastIndex(s) : i \in (s.snapIndex + 1)..LastIndex(s)
        BY <4>1, <1>1, <1>3
      <4> QED BY <4>2, <1>3, <1>4, <1>7 DEF LogOK
    <3>2. r.snapTerm = EntryTerm(l, LastTerm(s), K)
      BY <2>2, <1>2, <1>4 DEF EntryTerm
    <3> QED BY <3>1, <3>2, <1>3, <1>4, <1>7 DEF LogOK
  <2>6. Adopts(l, st[m.to], r, T, K)
    BY <2>1, <2>4, <1>3, <1>4, <1>7 DEF Adopts
  <2>7. \A i \in 1..K : l.en[LastTerm(r)][i] = l.en[T][i]
    BY <2>4, <1>4, <1>7
  <2>8. StoreCommitted(l, r)
    BY <2>7, <1>1, <1>2, <1>3, <1>4 DEF StoreCommitted
  <2> QED BY <2>5, <2>6, <2>8, <1>3, <1>4 DEF T, K
<1>8. CASE ~PrevMatches(s, m)
  <2>1. PICK u : u = l.en[T][K].term
    OBVIOUS
  <2>2. u \in Terms /\ K <= l.ln[u] /\ u <= T /\ \A j \in 1..K : l.en[T][j] = l.en[u][j]
    BY <2>1, <1>1, <1>5, <1>6, OwnTerm
  <2>3. LastIndex(r) = K /\ LastTerm(r) = u /\ r.snapTerm = u
    BY <2>1, <1>2, <1>4, <1>8 DEF EntryTerm
  <2>4. LogOK(l, r)
    <3>1. \A i \in (K + 1)..K : FALSE
      BY <1>1
    <3>2. K \in 1..K
      BY <1>1, <1>2, SMTT(60)
    <3>3. u = EntryTerm(l, u, K)
      BY <3>2, <2>1, <2>2, <1>1, <1>2 DEF EntryTerm
    <3> QED BY <3>1, <3>3, <2>2, <2>3, <1>3, <1>4 DEF LogOK
  <2>5. ASSUME NEW i \in (K + 1)..LastIndex(s), i <= l.ln[T]
        PROVE  l.en[LastTerm(s)][i].term # l.en[T][i].term
    <3> SUFFICES ASSUME l.en[LastTerm(s)][i].term = l.en[T][i].term PROVE FALSE
      OBVIOUS
    <3>1. LastIndex(s) <= l.ln[LastTerm(s)] /\ l.ln[LastTerm(s)] \in Nat
      BY <1>3, LogTypes DEF LogOK
    <3>2. i \in 1..l.ln[T] /\ i <= l.ln[LastTerm(s)] /\ K \in 1..i
      BY <3>1, <2>5, <1>1, <1>2, <1>3
    <3>3. i \in Indices
      BY <3>2, <1>1, LogTypes
    <3>4. l.en[LastTerm(s)][K] = l.en[T][K]
      BY <3>2, <3>3, <2>5, <1>1, <1>3, <1>5, PrefixAgrees
    <3>5. K \in Retained(s)
      BY <1>1, <1>3 DEF Retained, K
    <3>6. TermAt(s, K) = m.prevTerm
      BY <3>4, <3>5, <1>1, <1>2, <1>3, TermAtLog DEF EntryTerm
    <3> QED BY <3>5, <3>6, <1>8 DEF PrevMatches, K
  <2>6. K <= LastIndex(r) /\ \A i \in 1..K : l.en[LastTerm(r)][i] = l.en[T][i]
    BY <2>2, <2>3, <1>1
  <2>7. Adopts(l, st[m.to], r, T, K)
    BY <2>3, <2>5, <2>6, <1>3 DEF Adopts
  <2>8. StoreCommitted(l, r)
    BY <2>6, <1>1, <1>2, <1>3, <1>4 DEF StoreCommitted
  <2> QED BY <2>4, <2>7, <2>8, <1>3, <1>4 DEF T, K
<1> QED BY <1>7, <1>8

\* A snapshot arrives.
LEMMA LogInstall ==
    ASSUME ~StepDownWindow, NEW e \in Elections, NEW l \in Logs, RaftInv(e, l), NEW m \in msgs,
           InstallSnapshot(m)
    PROVE  \E k \in Logs : RaftInv(e, k)' /\ Forward
<1>1. TypeOK' /\ Quiet
  BY TypeInstall DEF RaftInv
<1>2. PICK s : s = AtTerm(st[m.to], m.term)
  OBVIOUS
<1>3. PICK r : r = Installed(s, m)
  OBVIOUS
<1>4. /\ m.type = "snapshot" /\ m.term >= st[m.to].term
      /\ \/ m.index <= s.commit /\ Persist(m.to, s) /\ Acknowledge(m, s.commit)
         \/ m.index > s.commit /\ Persist(m.to, r) /\ Acknowledge(m, m.index)
      /\ StepDown(m.to) /\ msgs' \subseteq msgs /\ chosen' = chosen
  BY <1>2, <1>3 DEF InstallSnapshot
<1>5. /\ StoreOK(s) /\ s.term = m.term /\ LogOK(l, s) /\ StoreCommitted(l, s)
      /\ s.commit = st[m.to].commit /\ s.commit \in Nat /\ s.commit <= LastIndex(s)
      /\ LastIndex(s) = LastIndex(st[m.to]) /\ LastTerm(s) = LastTerm(st[m.to])
      /\ s.commit <= l.ln[m.term]
      /\ \A i \in 1..s.commit : chosen[i] = l.en[m.term][i] /\ chosen[i] = l.en[LastTerm(s)][i]
  BY <1>2, <1>4, AtRequest
<1>6. CASE Persist(m.to, s) /\ Acknowledge(m, s.commit)
  <2>1. Adopts(l, st[m.to], s, m.term, s.commit)
    BY <1>5 DEF Adopts
  <2>2. s.commit >= st[m.to].commit
    BY <1>5
  <2> QED BY <2>1, <2>2, <1>1, <1>4, <1>5, <1>6, FollowerStep
<1>7. CASE m.index > s.commit /\ Persist(m.to, r) /\ Acknowledge(m, m.index)
  <2>1. /\ StoreOK(r) /\ r.term = m.term /\ r.commit = m.index
        /\ LogOK(l, r) /\ StoreCommitted(l, r) /\ Adopts(l, st[m.to], r, m.term, m.index)
    BY <1>2, <1>3, <1>4, <1>7, InstalledLog
  <2>2. m.index \in Nat /\ m.index <= l.ln[m.term]
    BY <1>4, RequestChain DEF RequestTrue
  <2>3. r.commit >= st[m.to].commit
    BY <2>1, <2>2, <1>5, <1>7
  <2> QED BY <2>1, <2>2, <2>3, <1>1, <1>4, <1>7, FollowerStep
<1> QED BY <1>4, <1>6, <1>7

\* Positions in a log whose suffix from index x + z on was replaced.
LEMMA Shift ==
    ASSUME NEW x \in Nat, NEW y \in Nat, NEW z \in Nat, NEW N \in Nat, x >= y, z >= 1,
           NEW j \in (x + z)..(x + N), NEW h, h = j - (x + z) + 1
    PROVE  h \in 1..(N + 1 - z) /\ (x + z - 1 - y) + h = j - y /\ z + h - 1 = j - x
  OBVIOUS

\* The entries after the entry loop of AppendEntries has replaced a suffix.
LEMMA MergedEntries ==
    ASSUME NEW s, StoreOK(s), NEW m, MessageOK(m), PrevMatches(s, m), Differing(s, m) # {},
           NEW d, d = m.index + FirstDiffering(s, m), NEW r, r = Merged(s, m)
    PROVE  /\ d \in Nat /\ d >= m.index + 1 /\ d <= m.index + Len(m.entries) /\ d - 1 <= LastIndex(s)
           /\ LastIndex(r) = m.index + Len(m.entries)
           /\ \A i \in (s.snapIndex + 1)..(d - 1) : EntryAt(r, i) = EntryAt(s, i)
           /\ \A i \in d..(m.index + Len(m.entries)) : EntryAt(r, i) = m.entries[i - m.index]
           /\ d - 1 # m.index => TermAt(s, d - 1) = m.entries[d - 1 - m.index].term
           /\ d <= LastIndex(s) => TermAt(s, d) # m.entries[d - m.index].term
<1>1. /\ m.index \in Nat /\ m.index >= s.snapIndex /\ m.index <= LastIndex(s) /\ s.snapIndex \in Nat
      /\ Len(s.log) \in Nat /\ Len(m.entries) \in Nat /\ s.log \in Seq(Entries) /\ m.entries \in Seq(Entries)
      /\ LastIndex(s) = s.snapIndex + Len(s.log)
  BY DEF PrevMatches, Retained, MessageOK, Messages, StoreOK, Store, LastIndex
<1>2. PICK k : k = FirstDiffering(s, m)
  OBVIOUS
<1>3. k \in 1..Len(m.entries) /\ k \in Differing(s, m) /\ \A j \in Differing(s, m) : k <= j
  BY <1>2, FirstOK DEF Differing
<1>4. /\ d = m.index + k /\ k \in Nat /\ k >= 1 /\ k <= Len(m.entries) /\ d - m.index = k
      /\ d \in Nat /\ d - 1 \in Nat /\ d - 1 = m.index + k - 1 /\ d - 1 >= s.snapIndex
  <2>1. k \in Nat /\ k >= 1 /\ k <= Len(m.entries) /\ d = m.index + k
    BY <1>1, <1>2, <1>3
  <2> QED BY <2>1, <1>1
<1>5. d <= LastIndex(s) => TermAt(s, d) # m.entries[d - m.index].term
  <2>1. m.index + k > LastIndex(s) \/ TermAt(s, m.index + k) # m.entries[k].term
    BY <1>3 DEF Differing
  <2>2. m.index + k = d /\ d - m.index = k /\ d \in Nat /\ LastIndex(s) \in Nat
    BY <1>1, <1>4, SMTT(60)
  <2> QED BY <2>1, <2>2
<1>6. d - 1 <= LastIndex(s) /\ (d - 1 # m.index => TermAt(s, d - 1) = m.entries[d - 1 - m.index].term)
  <2>1. CASE k = 1
    BY <2>1, <1>1, <1>4
  <2>2. CASE k # 1
    <3>1. k - 1 \in 1..Len(m.entries) /\ k - 1 \notin Differing(s, m) /\ m.index + (k - 1) = d - 1
          /\ d - 1 - m.index = k - 1
      BY <2>2, <1>1, <1>3, <1>4
    <3>2. m.index + (k - 1) <= LastIndex(s) /\ TermAt(s, m.index + (k - 1)) = m.entries[k - 1].term
      BY <3>1, <1>1 DEF Differing
    <3> QED BY <3>1, <3>2
  <2> QED BY <2>1, <2>2
<1> DEFINE cut == d - 1 - s.snapIndex
           a == SubSeq(s.log, 1, cut)
           b == SubSeq(m.entries, k, Len(m.entries))
<1> HIDE DEF a, b
<1>7. cut \in Nat /\ cut <= Len(s.log) /\ cut = m.index + k - 1 - s.snapIndex /\ 1 <= cut + 1 /\ 1 \in Nat
  <2>1. \A x, y, z, L, g \in Nat : g = x + z /\ x >= y /\ z >= 1 /\ g - 1 <= y + L =>
          /\ g - 1 - y \in Nat /\ g - 1 - y <= L /\ g - 1 - y = x + z - 1 - y /\ 1 <= g - 1 - y + 1
    OBVIOUS
  <2>2. d - 1 <= s.snapIndex + Len(s.log)
    BY <1>1, <1>6
  <2>3. m.index \in Nat /\ s.snapIndex \in Nat /\ k \in Nat /\ Len(s.log) \in Nat /\ d \in Nat
        /\ d = m.index + k /\ m.index >= s.snapIndex /\ k >= 1
    BY <1>1, <1>4
  <2> QED BY <2>1, <2>2, <2>3, SMTT(60)
<1>8. r = [s EXCEPT !.log = a \o b]
  <2>1. r = [s EXCEPT !.log = SubSeq(s.log, 1, m.index + k - 1 - s.snapIndex)
                                \o SubSeq(m.entries, k, Len(m.entries))]
    BY <1>2, Zenon DEF Merged
  <2> QED BY <2>1, <1>7 DEF a, b
<1> HIDE DEF cut
<1>9. a \in Seq(Entries) /\ Len(a) = cut /\ \A i \in 1..cut : a[i] = s.log[i]
  <2>1. /\ a \in Seq(Entries) /\ Len(a) = cut + 1 - 1 /\ \A i \in 1..(cut + 1 - 1) : a[i] = s.log[1 + i - 1]
    BY <1>1, <1>7, Cut DEF a
  <2>2. cut + 1 - 1 = cut /\ \A i \in 1..cut : 1 + i - 1 = i
    BY <1>7
  <2> QED BY <2>1, <2>2
<1>10. /\ b \in Seq(Entries) /\ Len(b) = Len(m.entries) + 1 - k
       /\ \A i \in 1..(Len(m.entries) + 1 - k) : b[i] = m.entries[k + i - 1]
  BY <1>1, <1>4, Cut, SMTT(60) DEF b
<1>11. PICK c : c = a \o b
  OBVIOUS
<1>12. /\ Len(c) = cut + (Len(m.entries) + 1 - k) /\ c \in Seq(Entries)
       /\ \A i \in 1..cut : c[i] = s.log[i]
       /\ \A i \in 1..(Len(m.entries) + 1 - k) : c[cut + i] = m.entries[k + i - 1]
  <2>1. /\ a \o b \in Seq(Entries) /\ Len(a \o b) = Len(a) + Len(b)
        /\ \A i \in 1..Len(a) : (a \o b)[i] = a[i]
        /\ \A i \in 1..Len(b) : (a \o b)[Len(a) + i] = b[i]
    <3>1. a \in Seq(Entries) /\ b \in Seq(Entries)
      BY <1>9, <1>10
    <3> QED BY <3>1, Joined
  <2> QED BY <2>1, <1>9, <1>10, <1>11
<1>13. r.log = c /\ r.snapIndex = s.snapIndex
  BY <1>8, <1>11 DEF StoreOK, Store
<1>14. LastIndex(r) = m.index + Len(m.entries)
  <2>1. LastIndex(r) = s.snapIndex + (cut + (Len(m.entries) + 1 - k))
    BY <1>12, <1>13 DEF LastIndex
  <2>2. \A x, y, z, N \in Nat : y + ((x + z - 1 - y) + (N + 1 - z)) = x + N
    OBVIOUS
  <2>3. m.index \in Nat /\ s.snapIndex \in Nat /\ k \in Nat /\ Len(m.entries) \in Nat
    BY <1>1, <1>4
  <2>4. cut = m.index + k - 1 - s.snapIndex
    BY <1>7
  <2>5. s.snapIndex + ((m.index + k - 1 - s.snapIndex) + (Len(m.entries) + 1 - k)) = m.index + Len(m.entries)
    BY <2>2, <2>3, SMTT(60)
  <2> QED BY <2>1, <2>4, <2>5, Zenon
<1>15. ASSUME NEW i \in (s.snapIndex + 1)..(d - 1) PROVE EntryAt(r, i) = EntryAt(s, i)
  <2>1. i - s.snapIndex \in 1..cut
    <3>1. \A y, g \in Nat : \A h \in (y + 1)..(g - 1) : h - y \in 1..(g - 1 - y)
      OBVIOUS
    <3>2. s.snapIndex \in Nat /\ d \in Nat
      BY <1>1, <1>4
    <3> QED BY <3>1, <3>2 DEF cut
  <2> QED BY <2>1, <1>12, <1>13 DEF EntryAt
<1>16. ASSUME NEW i \in d..(m.index + Len(m.entries)) PROVE EntryAt(r, i) = m.entries[i - m.index]
  <2>1. PICK h : h = i - d + 1
    OBVIOUS
  <2>2. h \in 1..(Len(m.entries) + 1 - k) /\ cut + h = i - s.snapIndex /\ k + h - 1 = i - m.index
    <3>1. m.index \in Nat /\ s.snapIndex \in Nat /\ k \in Nat /\ Len(m.entries) \in Nat
          /\ m.index >= s.snapIndex /\ k >= 1 /\ d = m.index + k
      BY <1>1, <1>4
    <3>2. cut = m.index + k - 1 - s.snapIndex
      BY <1>7
    <3>3. i \in (m.index + k)..(m.index + Len(m.entries)) /\ h = i - (m.index + k) + 1
      BY <2>1, <3>1
    <3>4. /\ h \in 1..(Len(m.entries) + 1 - k) /\ k + h - 1 = i - m.index
          /\ (m.index + k - 1 - s.snapIndex) + h = i - s.snapIndex
      <4>1. PICK x, y, z, N \in Nat : x = m.index /\ y = s.snapIndex /\ z = k /\ N = Len(m.entries)
        BY <3>1
      <4>2. x >= y /\ z >= 1 /\ i \in (x + z)..(x + N) /\ h = i - (x + z) + 1
        BY <4>1, <3>1, <3>3
      <4>3. h \in 1..(N + 1 - z) /\ (x + z - 1 - y) + h = i - y /\ z + h - 1 = i - x
        BY <4>2, Shift
      <4> QED BY <4>1, <4>3, Zenon
    <3> QED BY <3>2, <3>4, Zenon
  <2>3. c[cut + h] = m.entries[k + h - 1]
    BY <2>2, <1>12
  <2> QED BY <2>2, <2>3, <1>13 DEF EntryAt
<1>17. d \in Nat /\ d >= m.index + 1 /\ d <= m.index + Len(m.entries)
  BY <1>1, <1>4, SMTT(60)
<1> QED BY <1>5, <1>6, <1>14, <1>15, <1>16, <1>17

\* A request whose previous entry matches continues the common part of the two logs.
LEMMA PrevAgrees ==
    ASSUME NEW e \in Elections, NEW l \in Logs, RaftInv(e, l), NEW m \in msgs,
           m.term >= st[m.to].term, NEW s, s = AtTerm(st[m.to], m.term), PrevMatches(s, m)
    PROVE  /\ m.index \in Nat /\ m.index <= LastIndex(s) /\ m.index >= s.snapIndex
           /\ \A i \in 1..m.index : l.en[LastTerm(s)][i] = l.en[m.term][i]
<1>1. /\ RequestTrue(e, l, m) /\ m.term \in Terms /\ m.index \in Nat /\ Len(m.entries) \in Nat
      /\ l.ln[m.term] \in Nat /\ l.ln[m.term] <= MaxLog
  BY RequestChain
<1>2. /\ StoreOK(s) /\ LogOK(l, s) /\ LastIndex(s) \in Nat /\ LastTerm(s) \in Terms /\ s.snapIndex \in Nat
  BY AtRequest
<1>3. /\ m.index \in Retained(s) /\ m.index <= LastIndex(s) /\ m.index >= s.snapIndex
      /\ TermAt(s, m.index) = m.prevTerm
  BY <1>1, <1>2 DEF PrevMatches, Retained
<1>4. CASE m.index = 0
  BY <1>3, <1>4, <1>1
<1>5. CASE m.index # 0
  <2>1. l.en[LastTerm(s)][m.index].term = l.en[m.term][m.index].term
    <3>1. m.prevTerm = EntryTerm(l, m.term, m.index)
      BY <1>1 DEF RequestTrue
    <3>2. TermAt(s, m.index) = EntryTerm(l, LastTerm(s), m.index)
      BY <1>1, <1>2, <1>3, TermAtLog
    <3> QED BY <3>1, <3>2, <1>3, <1>5 DEF EntryTerm
  <2>2. m.index <= l.ln[m.term] /\ m.index <= l.ln[LastTerm(s)] /\ m.index \in Indices
    <3>1. m.index + Len(m.entries) <= l.ln[m.term] /\ LastIndex(s) <= l.ln[LastTerm(s)]
          /\ l.ln[LastTerm(s)] \in Nat
      BY <1>1, <1>2, LogTypes DEF RequestTrue, LogOK
    <3> QED BY <3>1, <1>1, <1>2, <1>3, <1>5, Bounds DEF Indices
  <2>3. LeaderLogs(e, l)
    BY DEF RaftInv, LogInv
  <2>4. \A i \in 1..m.index : l.en[LastTerm(s)][i] = l.en[m.term][i]
    BY <2>1, <2>2, <2>3, <1>1, <1>2, PrefixAgrees
  <2> QED BY <2>4, <1>1, <1>3
<1> QED BY <1>4, <1>5

\* A store in which no entry of the request differs holds them all.
LEMMA MergedSame ==
    ASSUME NEW e \in Elections, NEW l \in Logs, RaftInv(e, l), NEW m \in msgs,
           m.term >= st[m.to].term, NEW s, s = AtTerm(st[m.to], m.term), PrevMatches(s, m),
           Differing(s, m) = {}, NEW K, K = m.index + Len(m.entries)
    PROVE  K <= LastIndex(s) /\ \A i \in 1..K : l.en[LastTerm(s)][i] = l.en[m.term][i]
<1>1. /\ RequestTrue(e, l, m) /\ m.term \in Terms /\ m.index \in Nat /\ Len(m.entries) \in Nat
      /\ l.ln[m.term] \in Nat /\ l.ln[m.term] <= MaxLog
  BY RequestChain
<1>2. /\ StoreOK(s) /\ LogOK(l, s) /\ LastIndex(s) \in Nat /\ LastTerm(s) \in Terms /\ s.snapIndex \in Nat
  BY AtRequest
<1>3. /\ m.index <= LastIndex(s) /\ m.index >= s.snapIndex
      /\ \A i \in 1..m.index : l.en[LastTerm(s)][i] = l.en[m.term][i]
  BY PrevAgrees
<1>4. CASE Len(m.entries) = 0
  <2>1. K = m.index
    BY <1>1, <1>4
  <2> QED BY <2>1, <1>3
<1>5. CASE Len(m.entries) # 0
  <2>1. PICK h : h = Len(m.entries)
    OBVIOUS
  <2>2. h \in 1..Len(m.entries) /\ h \in Nat /\ h >= 1 /\ K = m.index + h /\ K \in Nat /\ K >= 1
    BY <2>1, <1>1, <1>5
  <2>3. ~(m.index + h > LastIndex(s)) /\ TermAt(s, m.index + h) = m.entries[h].term
    BY <2>2 DEF Differing
  <2>4. K <= LastIndex(s) /\ K >= s.snapIndex /\ K \in Retained(s)
    BY <2>2, <2>3, <1>1, <1>2, <1>3 DEF Retained
  <2>5. m.entries[h] = l.en[m.term][K]
    BY <2>2, <1>1 DEF RequestTrue
  <2>6. TermAt(s, K) = EntryTerm(l, LastTerm(s), K)
    BY <2>2, <2>4, <1>2, TermAtLog
  <2>7. l.en[LastTerm(s)][K].term = l.en[m.term][K].term
    BY <2>2, <2>3, <2>5, <2>6 DEF EntryTerm
  <2>8. K <= l.ln[m.term] /\ K <= l.ln[LastTerm(s)] /\ K \in Indices
    <3>1. K <= l.ln[m.term] /\ LastIndex(s) <= l.ln[LastTerm(s)] /\ l.ln[LastTerm(s)] \in Nat
      BY <1>1, <1>2, LogTypes DEF RequestTrue, LogOK
    <3> QED BY <3>1, <2>2, <2>4, <1>1, <1>2, Bounds DEF Indices
  <2>9. LeaderLogs(e, l)
    BY DEF RaftInv, LogInv
  <2> QED BY <2>4, <2>7, <2>8, <2>9, <1>1, <1>2, PrefixAgrees
<1> QED BY <1>4, <1>5

\* The entry loop never replaces a committed entry, and a store whose suffix it
\* replaced holds exactly the log that was sent.
LEMMA MergedCut ==
    ASSUME NEW e \in Elections, NEW l \in Logs, RaftInv(e, l), NEW m \in msgs,
           m.term >= st[m.to].term, NEW s, s = AtTerm(st[m.to], m.term), PrevMatches(s, m),
           Differing(s, m) # {}, NEW K, K = m.index + Len(m.entries), NEW r, r = Merged(s, m)
    PROVE  /\ ~OverwritesCommitted(s, m) /\ LastIndex(r) = K /\ LogOK(l, r)
           /\ Adopts(l, st[m.to], r, m.term, K)
<1>1. PICK T : T = m.term
  OBVIOUS
<1>2. /\ RequestTrue(e, l, m) /\ MessageOK(m) /\ T \in Terms /\ T \in Nat /\ m.index \in Nat
      /\ Len(m.entries) \in Nat /\ l.ln[T] \in Nat /\ l.ln[T] <= MaxLog /\ LeaderLogs(e, l)
  BY <1>1, RequestChain DEF RaftInv, LogInv
<1>3. /\ StoreOK(s) /\ s.term = T /\ LogOK(l, s) /\ LastIndex(s) \in Nat /\ LastTerm(s) \in Terms
      /\ s.snapIndex \in Nat /\ s.commit \in Nat /\ s.snapIndex <= s.commit /\ s.commit <= LastIndex(s)
      /\ LastIndex(s) = LastIndex(st[m.to]) /\ LastTerm(s) = LastTerm(st[m.to])
      /\ \A i \in 1..s.commit : chosen[i] = l.en[T][i] /\ chosen[i] = l.en[LastTerm(s)][i]
  BY <1>1, AtRequest
<1>4. /\ m.index <= LastIndex(s) /\ m.index >= s.snapIndex
      /\ \A i \in 1..m.index : l.en[LastTerm(s)][i] = l.en[T][i]
  BY <1>1, PrevAgrees
<1>5. PICK d : d = m.index + FirstDiffering(s, m)
  OBVIOUS
<1>6. /\ d \in Nat /\ d >= m.index + 1 /\ d <= K /\ d - 1 <= LastIndex(s) /\ LastIndex(r) = K
      /\ \A i \in (s.snapIndex + 1)..(d - 1) : EntryAt(r, i) = EntryAt(s, i)
      /\ \A i \in d..K : EntryAt(r, i) = m.entries[i - m.index]
      /\ d - 1 # m.index => TermAt(s, d - 1) = m.entries[d - 1 - m.index].term
      /\ d <= LastIndex(s) => TermAt(s, d) # m.entries[d - m.index].term
  <2>1. /\ StoreOK(s) /\ MessageOK(m) /\ PrevMatches(s, m) /\ Differing(s, m) # {}
        /\ d = m.index + FirstDiffering(s, m) /\ r = Merged(s, m)
    BY <1>2, <1>3, <1>5
  <2>2. /\ d \in Nat /\ d >= m.index + 1 /\ d <= m.index + Len(m.entries) /\ d - 1 <= LastIndex(s)
        /\ LastIndex(r) = m.index + Len(m.entries)
    BY ONLY <2>1, MergedEntries
  <2>3. \A i \in (s.snapIndex + 1)..(d - 1) : EntryAt(r, i) = EntryAt(s, i)
    BY ONLY <2>1, MergedEntries
  <2>4. \A i \in d..(m.index + Len(m.entries)) : EntryAt(r, i) = m.entries[i - m.index]
    BY ONLY <2>1, MergedEntries
  <2>5. d - 1 # m.index => TermAt(s, d - 1) = m.entries[d - 1 - m.index].term
    BY ONLY <2>1, MergedEntries
  <2>6. d <= LastIndex(s) => TermAt(s, d) # m.entries[d - m.index].term
    BY ONLY <2>1, MergedEntries
  <2> QED BY <2>2, <2>3, <2>4, <2>5, <2>6, Zenon
<1>7. /\ LastIndex(s) <= l.ln[LastTerm(s)] /\ l.ln[LastTerm(s)] \in Nat /\ K <= l.ln[T]
      /\ K \in Nat /\ d >= 1 /\ K >= 1 /\ s.snapIndex <= d - 1
  <2>1. LastIndex(s) <= l.ln[LastTerm(s)] /\ l.ln[LastTerm(s)] \in Nat /\ K <= l.ln[T]
    BY <1>1, <1>2, <1>3, LogTypes DEF LogOK, RequestTrue
  <2>2. \A x, y, N, g \in Nat : g >= x + 1 /\ x >= y =>
          x + N \in Nat /\ g >= 1 /\ (g <= x + N => x + N >= 1) /\ y <= g - 1
    OBVIOUS
  <2>3. /\ m.index \in Nat /\ s.snapIndex \in Nat /\ Len(m.entries) \in Nat /\ d \in Nat
        /\ d >= m.index + 1 /\ m.index >= s.snapIndex /\ d <= m.index + Len(m.entries)
    BY <1>2, <1>3, <1>4, <1>6
  <2>4. K \in Nat /\ d >= 1 /\ K >= 1 /\ s.snapIndex <= d - 1
    BY <2>2, <2>3
  <2> QED BY <2>1, <2>4
<1>8. \A i \in (m.index + 1)..K : m.entries[i - m.index] = l.en[T][i]
  <2> SUFFICES ASSUME NEW i \in (m.index + 1)..K PROVE m.entries[i - m.index] = l.en[T][i]
    OBVIOUS
  <2>1. i - m.index \in 1..Len(m.entries) /\ m.index + (i - m.index) = i
    BY <1>2
  <2> QED BY <2>1, <1>1, <1>2 DEF RequestTrue
<1>9. ASSUME NEW i \in 1..LastIndex(s), i <= l.ln[T], l.en[LastTerm(s)][i].term = l.en[T][i].term
      PROVE  \A j \in 1..i : l.en[LastTerm(s)][j] = l.en[T][j]
  <2>1. i \in Indices /\ i <= l.ln[LastTerm(s)]
    BY <1>2, <1>3, <1>7, <1>9, Bounds DEF Indices
  <2>2. LastTerm(s) \in Terms /\ T \in Terms /\ LeaderLogs(e, l)
    BY <1>2, <1>3
  <2> QED BY <2>1, <2>2, <1>9, PrefixAgrees
<1>10. \A i \in 1..(d - 1) : l.en[LastTerm(s)][i] = l.en[T][i]
  <2>1. CASE d - 1 = m.index
    BY <2>1, <1>4
  <2>2. CASE d - 1 # m.index
    <3>1. d - 1 \in (m.index + 1)..K /\ d - 1 \in 1..LastIndex(s) /\ d - 1 <= l.ln[T] /\ d - 1 \in Nat
          /\ d - 1 \in Retained(s) /\ d - 1 # 0
      BY <2>2, <1>2, <1>3, <1>4, <1>6, <1>7, SMTT(60) DEF Retained
    <3>2. TermAt(s, d - 1) = l.en[T][d - 1].term
      BY <3>1, <2>2, <1>6, <1>8
    <3>3. TermAt(s, d - 1) = l.en[LastTerm(s)][d - 1].term
      BY <3>1, <1>3, TermAtLog DEF EntryTerm
    <3> QED BY <3>1, <3>2, <3>3, <1>9
  <2> QED BY <2>1, <2>2
<1>11. d <= LastIndex(s) => l.en[LastTerm(s)][d].term # l.en[T][d].term
  <2> SUFFICES ASSUME d <= LastIndex(s) PROVE l.en[LastTerm(s)][d].term # l.en[T][d].term
    OBVIOUS
  <2>1. d \in (m.index + 1)..K /\ d \in Retained(s) /\ d # 0
    <3>1. /\ m.index \in Nat /\ s.snapIndex \in Nat /\ LastIndex(s) \in Nat /\ d \in Nat /\ K \in Nat
          /\ d >= m.index + 1 /\ m.index >= s.snapIndex /\ d <= K /\ d >= 1
      BY <1>2, <1>3, <1>4, <1>6, <1>7
    <3> QED BY <3>1 DEF Retained
  <2>2. TermAt(s, d) # l.en[T][d].term
    BY <2>1, <1>6, <1>8
  <2>3. TermAt(s, d) = l.en[LastTerm(s)][d].term
    BY <2>1, <1>3, <1>6, TermAtLog DEF EntryTerm
  <2> QED BY <2>2, <2>3
<1>12. ~(d <= s.commit)
  <2> SUFFICES ASSUME d <= s.commit PROVE FALSE
    OBVIOUS
  <2>1. d \in 1..s.commit /\ d <= LastIndex(s)
    BY <1>3, <1>6, <1>7
  <2>2. l.en[T][d] = l.en[LastTerm(s)][d]
    BY <2>1, <1>3
  <2> QED BY <2>1, <2>2, <1>11
<1>13. ~OverwritesCommitted(s, m)
  BY <1>5, <1>12 DEF OverwritesCommitted
<1>14. /\ r \in Store /\ r.term = T /\ r.snapIndex = s.snapIndex /\ r.snapTerm = s.snapTerm
  BY <1>2, <1>3, MergedOK
<1>15. \A i \in (s.snapIndex + 1)..K : EntryAt(r, i) = l.en[T][i]
  <2> SUFFICES ASSUME NEW i \in (s.snapIndex + 1)..K PROVE EntryAt(r, i) = l.en[T][i]
    OBVIOUS
  <2>1. CASE i <= d - 1
    <3>1. i \in (s.snapIndex + 1)..(d - 1) /\ i \in (s.snapIndex + 1)..LastIndex(s) /\ i \in 1..(d - 1)
      BY <2>1, <1>3, <1>6
    <3>2. EntryAt(s, i) = l.en[LastTerm(s)][i]
      BY <3>1, <1>3 DEF LogOK
    <3> QED BY <3>1, <3>2, <1>6, <1>10
  <2>2. CASE ~(i <= d - 1)
    <3>1. i \in d..K /\ i \in (m.index + 1)..K
      BY <2>2, <1>2, <1>3, <1>6, <1>7
    <3> QED BY <3>1, <1>6, <1>8
  <2> QED BY <2>1, <2>2
<1>16. PICK u : u = l.en[T][K].term
  OBVIOUS
<1>17. u \in Terms /\ K <= l.ln[u] /\ u <= T /\ \A j \in 1..K : l.en[T][j] = l.en[u][j]
  <2>1. K \in 1..l.ln[T]
    BY <1>2, <1>7
  <2> QED BY <2>1, <1>2, <1>16, OwnTerm
<1>18. LastTerm(r) = u
  <2>1. K \in (s.snapIndex + 1)..K /\ K # r.snapIndex
    <3>1. s.snapIndex \in Nat /\ d \in Nat /\ K \in Nat /\ d <= K /\ s.snapIndex <= d - 1
      BY <1>3, <1>6, <1>7
    <3>2. K \in (s.snapIndex + 1)..K /\ K # s.snapIndex
      BY <3>1
    <3> QED BY <3>2, <1>14
  <2>2. TermAt(r, K) = EntryAt(r, K).term
    BY <2>1 DEF TermAt, EntryAt
  <2> QED BY <2>1, <2>2, <1>6, <1>15, <1>16 DEF LastTerm
<1>19. LogOK(l, r)
  <2>1. \A i \in (s.snapIndex + 1)..K : i \in 1..K
    BY <1>3, <1>7
  <2>2. EntryTerm(l, LastTerm(s), s.snapIndex) = EntryTerm(l, u, s.snapIndex)
    <3>1. s.snapIndex # 0 => s.snapIndex \in 1..(d - 1) /\ s.snapIndex \in 1..K
      BY <1>3, <1>6, <1>7
    <3> QED BY <3>1, <1>10, <1>17 DEF EntryTerm
  <2>3. r.snapTerm = EntryTerm(l, u, r.snapIndex)
    BY <2>2, <1>3, <1>14 DEF LogOK
  <2>4. \A i \in (r.snapIndex + 1)..LastIndex(r) : EntryAt(r, i) = l.en[u][i]
    BY <2>1, <1>6, <1>14, <1>15, <1>17
  <2> QED BY <2>3, <2>4, <1>6, <1>14, <1>17, <1>18 DEF LogOK
<1>20. Adopts(l, st[m.to], r, T, K)
  <2>1. ASSUME NEW i \in (K + 1)..LastIndex(s), i <= l.ln[T]
        PROVE  l.en[LastTerm(s)][i].term # l.en[T][i].term
    <3> SUFFICES ASSUME l.en[LastTerm(s)][i].term = l.en[T][i].term PROVE FALSE
      OBVIOUS
    <3>1. i \in 1..LastIndex(s) /\ d \in 1..i /\ d <= LastIndex(s)
      BY <1>3, <1>6, <1>7
    <3>2. l.en[LastTerm(s)][d] = l.en[T][d]
      BY <3>1, <2>1, <1>9
    <3> QED BY <3>1, <3>2, <1>11
  <2>2. K <= LastIndex(r) /\ \A i \in 1..K : l.en[LastTerm(r)][i] = l.en[T][i]
    BY <1>6, <1>7, <1>17, <1>18
  <2>3. /\ LastIndex(r) = K
        /\ \A i \in (K + 1)..LastIndex(st[m.to]) :
             i <= l.ln[T] => l.en[LastTerm(st[m.to])][i].term # l.en[T][i].term
    BY <2>1, <1>3, <1>6
  <2> QED BY <2>2, <2>3 DEF Adopts
<1> QED BY <1>1, <1>6, <1>13, <1>19, <1>20

\* The log after the entry loop follows the winner of its last term and reaches
\* what was sent.
LEMMA MergedLog ==
    ASSUME NEW e \in Elections, NEW l \in Logs, RaftInv(e, l), NEW m \in msgs,
           m.term >= st[m.to].term, NEW s, s = AtTerm(st[m.to], m.term), PrevMatches(s, m),
           NEW K, K = m.index + Len(m.entries), NEW g, g = Merged(s, m)
    PROVE  /\ ~OverwritesCommitted(s, m) /\ LogOK(l, g) /\ K \in Nat
           /\ Adopts(l, st[m.to], g, m.term, K)
<1>1. /\ LogOK(l, s) /\ LastIndex(s) = LastIndex(st[m.to]) /\ LastTerm(s) = LastTerm(st[m.to])
  BY AtRequest
<1>2. K \in Nat
  BY RequestChain
<1>3. CASE Differing(s, m) = {}
  <2>1. g = s /\ ~OverwritesCommitted(s, m)
    BY <1>3 DEF Merged, OverwritesCommitted
  <2>2. K <= LastIndex(s) /\ \A i \in 1..K : l.en[LastTerm(s)][i] = l.en[m.term][i]
    BY <1>3, MergedSame
  <2>3. Adopts(l, st[m.to], g, m.term, K)
    BY <2>1, <2>2, <1>1 DEF Adopts
  <2> QED BY <2>1, <2>3, <1>1, <1>2
<1>4. CASE Differing(s, m) # {}
  BY <1>2, <1>4, MergedCut, ZenonT(60)
<1> QED BY <1>3, <1>4

\* What is said of a log depends only on the log, not on what is committed.
SameLog(g, r) ==
    /\ LastIndex(r) = LastIndex(g) /\ LastTerm(r) = LastTerm(g) /\ r.term = g.term
    /\ r.snapIndex = g.snapIndex /\ r.snapTerm = g.snapTerm
    /\ \A i : EntryAt(r, i) = EntryAt(g, i)

LEMMA SameLogOK ==
    ASSUME NEW l, NEW g, NEW r, SameLog(g, r), LogOK(l, g)
    PROVE  LogOK(l, r)
  BY Zenon DEF LogOK, SameLog

LEMMA SameAdopts ==
    ASSUME NEW l, NEW g, NEW r, SameLog(g, r), NEW s, NEW T, NEW K, Adopts(l, s, g, T, K)
    PROVE  Adopts(l, s, r, T, K)
  BY Zenon DEF Adopts, SameLog

\* An append that passes the previous-entry check cannot fail, and leaves a store
\* whose committed entries are the chosen ones.
LEMMA AppendedLog ==
    ASSUME NEW e \in Elections, NEW l \in Logs, RaftInv(e, l), NEW m \in msgs,
           m.term >= st[m.to].term, NEW s, s = AtTerm(st[m.to], m.term), PrevMatches(s, m),
           NEW K, K = m.index + Len(m.entries), NEW g, g = Merged(s, m),
           NEW r, r = ApplyThrough(g, CommitTarget(g, m))
    PROVE  /\ ~AppendFails(s, m) /\ K \in Nat
           /\ StoreOK(r) /\ r.term = m.term /\ r.commit \in Nat /\ r.commit >= st[m.to].commit
           /\ LogOK(l, r) /\ StoreCommitted(l, r) /\ Adopts(l, st[m.to], r, m.term, K)
           /\ \A i \in (r.snapIndex + 1)..r.commit : EntryAt(r, i) = chosen[i]
<1>1. PICK T : T = m.term
  OBVIOUS
<1>2. PICK c : c = m.commit
  OBVIOUS
<1>3. /\ MessageOK(m) /\ RequestTrue(e, l, m) /\ T \in Terms /\ c \in Nat
      /\ \A i \in 1..c : chosen[i] = l.en[T][i] /\ Extends(At(i - 1), chosen[i])
  BY <1>1, <1>2, RequestChain
<1>4. c <= K /\ Committed(l, T, c)
  BY <1>1, <1>2, <1>3 DEF RequestTrue
<1>5. /\ StoreOK(s) /\ s.term = T /\ StoreCommitted(l, s) /\ s.commit = st[m.to].commit
      /\ s.commit \in Nat /\ s.snapIndex \in Nat /\ s.snapIndex <= s.commit
      /\ \A i \in 1..s.commit : /\ chosen[i] = l.en[T][i] /\ chosen[i] = l.en[LastTerm(st[m.to])][i]
                                /\ Extends(At(i - 1), chosen[i])
  BY <1>1, AtRequest
<1>6. /\ ~OverwritesCommitted(s, m) /\ LogOK(l, g) /\ K \in Nat /\ Adopts(l, st[m.to], g, T, K)
  BY <1>1, MergedLog
<1>7. /\ StoreOK(g) /\ LastIndex(g) \in Nat /\ g.term = s.term /\ g.commit = s.commit
      /\ g.epoch = s.epoch /\ g.view = s.view /\ g.snapIndex = s.snapIndex
      /\ g.snapEpoch = s.snapEpoch /\ g.snapView = s.snapView
  BY <1>3, <1>5, <1>6, MergedOK
<1>8. /\ K <= LastIndex(g) /\ \A i \in 1..K : l.en[LastTerm(g)][i] = l.en[T][i]
      /\ (LastTerm(g) = LastTerm(st[m.to])) \/ LastIndex(g) = K
  BY <1>6 DEF Adopts
<1>9. c <= LastIndex(g) /\ s.commit <= LastIndex(g)
  <2>1. g.commit <= LastIndex(g)
    BY <1>7 DEF StoreOK
  <2> QED BY <2>1, <1>3, <1>4, <1>6, <1>7, <1>8
<1>10. CommitTarget(g, m) = c
  <2>1. ~(c < LastIndex(g)) => LastIndex(g) = c
    BY <1>3, <1>7, <1>9
  <2> QED BY <2>1, <1>2 DEF CommitTarget
<1>11. \A i \in 1..c : i \in 1..K
  BY <1>3, <1>4, <1>6
<1>12. \A i \in 1..c : chosen[i] = l.en[LastTerm(g)][i]
  BY <1>3, <1>8, <1>11
<1>13. \A i \in 1..s.commit : chosen[i] = l.en[LastTerm(g)][i]
  <2>1. CASE LastTerm(g) = LastTerm(st[m.to])
    BY <2>1, <1>5
  <2>2. CASE LastIndex(g) = K
    <3>1. \A i \in 1..s.commit : i \in 1..K
      BY <2>2, <1>5, <1>6, <1>9
    <3> QED BY <3>1, <1>5, <1>8
  <2> QED BY <2>1, <2>2, <1>8
<1>14. ASSUME NEW i \in (s.snapIndex + 1)..LastIndex(g), i <= c \/ i <= s.commit
       PROVE  EntryAt(g, i) = chosen[i] /\ i \in Nat /\ i >= 1
  <2>1. EntryAt(g, i) = l.en[LastTerm(g)][i]
    BY <1>6, <1>7 DEF LogOK
  <2>2. i \in Nat /\ i >= 1 /\ (i <= c => i \in 1..c) /\ (i <= s.commit => i \in 1..s.commit)
    BY <1>3, <1>5, <1>7
  <2> QED BY <2>1, <2>2, <1>12, <1>13, <1>14
<1>15. c > s.commit => CanApply(g, c)
  <2> SUFFICES ASSUME c > s.commit, NEW i \in (g.commit + 1)..c
               PROVE  Extends(IF i = g.commit + 1 THEN g ELSE EntryAt(g, i - 1), EntryAt(g, i))
    BY DEF CanApply, Replays
  <2>1. /\ i \in (s.snapIndex + 1)..LastIndex(g) /\ i <= c /\ i \in 1..c /\ i \in Nat /\ i >= 1
        /\ i = g.commit + 1 => i - 1 = s.commit
        /\ i # g.commit + 1 => /\ i - 1 \in (s.snapIndex + 1)..LastIndex(g) /\ i - 1 <= c /\ i - 1 # 0
    BY <1>3, <1>5, <1>7, <1>9, SMTT(60)
  <2>2. EntryAt(g, i) = chosen[i] /\ Extends(At(i - 1), chosen[i])
    BY <2>1, <1>3, <1>14
  <2>3. CASE i = g.commit + 1
    <3>1. g.epoch = At(i - 1).epoch /\ g.view = At(i - 1).view
      BY <2>1, <2>3, <1>5, <1>7 DEF StoreCommitted
    <3> QED BY <3>1, <2>2, <2>3 DEF Extends
  <2>4. CASE i # g.commit + 1
    <3>1. EntryAt(g, i - 1) = At(i - 1)
      BY <2>1, <2>4, <1>14 DEF At
    <3> QED BY <3>1, <2>2, <2>4
  <2> QED BY <2>3, <2>4
<1>16. ~AppendFails(s, m)
  <2>1. CommitTarget(Merged(s, m), m) > s.commit => CanApply(Merged(s, m), CommitTarget(Merged(s, m), m))
    BY <1>10, <1>15
  <2> QED BY <2>1, <1>6 DEF AppendFails
<1>17. r = ApplyThrough(g, c)
  BY <1>10
<1>18. /\ StoreOK(r) /\ LastIndex(r) = LastIndex(g) /\ LastTerm(r) = LastTerm(g)
       /\ r.term = T /\ r.log = g.log /\ r.snapIndex = s.snapIndex /\ r.snapTerm = g.snapTerm
       /\ r.snapEpoch = s.snapEpoch /\ r.snapView = s.snapView
       /\ r.commit = IF c <= s.commit THEN s.commit ELSE c
       /\ r.epoch = IF c <= s.commit THEN s.epoch ELSE EntryAt(g, c).epoch
       /\ r.view = IF c <= s.commit THEN s.view ELSE EntryAt(g, c).view
  <2>1. /\ StoreOK(g) /\ c \in Nat /\ c <= LastIndex(g)
    BY <1>3, <1>7, <1>9
  <2>2. /\ StoreOK(r) /\ LastIndex(r) = LastIndex(g) /\ LastTerm(r) = LastTerm(g)
        /\ r.term = g.term /\ r.log = g.log /\ r.snapIndex = g.snapIndex /\ r.snapTerm = g.snapTerm
        /\ r.snapEpoch = g.snapEpoch /\ r.snapView = g.snapView
        /\ r.commit = IF c <= g.commit THEN g.commit ELSE c
        /\ r.epoch = IF c <= g.commit THEN g.epoch ELSE EntryAt(g, c).epoch
        /\ r.view = IF c <= g.commit THEN g.view ELSE EntryAt(g, c).view
    BY <2>1, <1>17, ApplyOK
  <2> QED BY <2>2, <1>5, <1>7, Zenon
<1>19. /\ r.commit \in Nat /\ r.commit >= s.commit /\ r.commit <= LastIndex(g)
       /\ (r.commit = s.commit \/ r.commit = c) /\ (r.commit # s.commit => ~(c <= s.commit) /\ c > s.commit)
  BY <1>3, <1>5, <1>9, <1>18
<1>20. \A i \in (s.snapIndex + 1)..r.commit : EntryAt(g, i) = chosen[i]
  <2> SUFFICES ASSUME NEW i \in (s.snapIndex + 1)..r.commit PROVE EntryAt(g, i) = chosen[i]
    OBVIOUS
  <2>1. i \in (s.snapIndex + 1)..LastIndex(g) /\ (i <= c \/ i <= s.commit)
    BY <1>3, <1>5, <1>7, <1>19
  <2> QED BY <2>1, <1>14
<1>21. \A i : EntryAt(r, i) = EntryAt(g, i)
  BY <1>7, <1>18, ZenonT(60) DEF EntryAt
<1>22. SameLog(g, r)
  BY <1>5, <1>7, <1>18, <1>21, Zenon DEF SameLog
<1>23. LogOK(l, r) /\ Adopts(l, st[m.to], r, T, K)
  <2>1. LogOK(l, r)
    BY <1>6, <1>22, SameLogOK, Zenon
  <2>2. Adopts(l, st[m.to], r, T, K)
    BY <1>6, <1>22, SameAdopts
  <2> QED BY <2>1, <2>2
<1>24. StoreCommitted(l, r)
  <2>1. Committed(l, r.term, r.commit)
    BY <1>4, <1>5, <1>18, <1>19, SMTT(60) DEF StoreCommitted
  <2>2. \A i \in 1..r.commit : chosen[i] = l.en[LastTerm(r)][i] /\ Extends(At(i - 1), chosen[i])
    BY <1>3, <1>5, <1>12, <1>13, <1>18, <1>19
  <2>3. r.epoch = At(r.commit).epoch /\ r.view = At(r.commit).view
    <3>1. CASE c <= s.commit
      BY <3>1, <1>5, <1>18 DEF StoreCommitted
    <3>2. CASE ~(c <= s.commit)
      <4>1. r.commit = c /\ c \in (s.snapIndex + 1)..LastIndex(g) /\ c <= c /\ c # 0
        BY <3>2, <1>3, <1>5, <1>9, <1>18
      <4>2. EntryAt(g, c) = At(c)
        BY <4>1, <1>14 DEF At
      <4> QED BY <4>1, <4>2, <3>2, <1>18
    <3> QED BY <3>1, <3>2
  <2>4. r.snapEpoch = At(r.snapIndex).epoch /\ r.snapView = At(r.snapIndex).view
    BY <1>5, <1>18 DEF StoreCommitted
  <2> QED BY <2>1, <2>2, <2>3, <2>4, SMTT(60) DEF StoreCommitted
<1> QED BY <1>1, <1>5, <1>6, <1>16, <1>18, <1>19, <1>20, <1>21, <1>23, <1>24

\* An append request arrives.
LEMMA LogAppend ==
    ASSUME ~StepDownWindow, NEW e \in Elections, NEW l \in Logs, RaftInv(e, l), NEW m \in msgs,
           AppendEntries(m)
    PROVE  \E k \in Logs : RaftInv(e, k)' /\ Forward
<1>1. TypeOK' /\ Quiet
  BY TypeAppend DEF RaftInv
<1>2. PICK s : s = AtTerm(st[m.to], m.term)
  OBVIOUS
<1>3. PICK g : g = Merged(s, m)
  OBVIOUS
<1>4. PICK r : r = ApplyThrough(g, CommitTarget(g, m))
  OBVIOUS
<1>5. PICK K : K = m.index + Len(m.entries)
  OBVIOUS
<1>6. /\ m.term >= st[m.to].term /\ msgs' \subseteq msgs
      /\ \/ /\ ~PrevMatches(s, m)
            /\ Persist(m.to, s) /\ StepDown(m.to) /\ UNCHANGED <<proposal, chosen>>
         \/ PrevMatches(s, m) /\ AppendFails(s, m)
         \/ /\ PrevMatches(s, m) /\ Persist(m.to, r) /\ Choose(r)
            /\ StepDown(m.to) /\ Acknowledge(m, K)
  BY <1>2, <1>3, <1>4, <1>5 DEF AppendEntries
<1>7. /\ m.to \in Nodes /\ m.term \in Terms /\ K <= l.ln[m.term]
  BY <1>5, RequestChain DEF RequestTrue
<1>8. CASE /\ ~PrevMatches(s, m)
           /\ Persist(m.to, s) /\ StepDown(m.to) /\ UNCHANGED <<proposal, chosen>>
  <2>1. StoreOK(st[m.to]) /\ st[m.to].term \in Nat /\ m.term \in Nat
    BY <1>7, TermsNat, LogTypes DEF RaftInv, TypeOK, StoreType
  <2>2. /\ StoreOK(s) /\ s.term = m.term /\ s.log = st[m.to].log /\ s.commit = st[m.to].commit
        /\ s.epoch = st[m.to].epoch /\ s.view = st[m.to].view
        /\ s.snapIndex = st[m.to].snapIndex /\ s.snapTerm = st[m.to].snapTerm
        /\ s.snapEpoch = st[m.to].snapEpoch /\ s.snapView = st[m.to].snapView
    BY <2>1, <1>2, <1>6, <1>7, AtTermOK
  <2>3. Steady(l)
    <3>1. \A q \in Nodes : proposal'[q] \in {proposal[q], NoProposal}
      BY <1>8
    <3> QED BY <3>1, <2>2, <1>6, <1>7, <1>8, SteadyPersist
  <2>4. Together'
    BY <2>2, <1>1, <1>7, <1>8, TogetherPersist DEF RaftInv, Quiet
  <2>5. RaftInv(e, l)' /\ Forward
    BY <2>3, <2>4, <1>1, <1>6, SteadyRaft
  <2> QED BY <2>5
<1>9. CASE PrevMatches(s, m) /\ AppendFails(s, m)
  BY <1>2, <1>6, <1>9, AppendedLog
<1>10. CASE /\ PrevMatches(s, m) /\ Persist(m.to, r) /\ Choose(r)
            /\ StepDown(m.to) /\ Acknowledge(m, K)
  <2>1. /\ K \in Nat /\ StoreOK(r) /\ r.term = m.term /\ r.commit >= st[m.to].commit
        /\ LogOK(l, r) /\ StoreCommitted(l, r) /\ Adopts(l, st[m.to], r, m.term, K)
        /\ \A i \in (r.snapIndex + 1)..r.commit : EntryAt(r, i) = chosen[i]
    BY <1>2, <1>3, <1>4, <1>5, <1>6, <1>10, AppendedLog
  <2>2. chosen' = chosen
    <3>1. chosen \in [Indices -> Entries \cup {NoEntry}]
      BY DEF RaftInv, LogInv, CommitInv
    <3>2. \A i \in Indices : chosen'[i] = chosen[i]
      BY <2>1, <1>10 DEF Choose
    <3>3. chosen' = [i \in Indices |-> chosen'[i]]
      BY <1>10 DEF Choose
    <3>4. chosen = [i \in Indices |-> chosen[i]]
      BY <3>1
    <3> QED BY <3>2, <3>3, <3>4
  <2> QED BY <2>1, <2>2, <1>1, <1>6, <1>7, <1>10, FollowerStep
<1> QED BY <1>6, <1>8, <1>9, <1>10

-----------------------------------------------------------------------------
(* Commits *)

\* What a leader may commit is certified: a majority acknowledged its entry.
LEMMA CertifiedProposal ==
    ASSUME NEW e \in Elections, NEW l \in Logs, RaftInv(e, l), NEW n \in Nodes,
           proposal[n] # NoProposal, NEW s, s = st[n], Committable(s, proposal[n]),
           NEW j, j = proposal[n].index
    PROVE  /\ Cert(l, s.term, j) /\ j \in Indices /\ j \in Nat /\ j <= LastIndex(s) /\ s.term \in Terms
           /\ \A i \in 1..LastIndex(s) : l.en[LastTerm(s)][i] = l.en[s.term][i]
<1>1. PICK p : p = proposal[n]
  OBVIOUS
<1>2. p \in Proposals /\ StoreOK(s) /\ LogOK(l, s) /\ LeaderHas(e, l, n, s)
  BY <1>1 DEF RaftInv, LogInv, NodeLogs, TypeOK, StoreType, RestType
<1>3. /\ voterMajority(p.acks) /\ p.term = s.term /\ j > s.snapIndex /\ j <= LastIndex(s)
      /\ TermAt(s, j) = p.term
  BY <1>1 DEF Committable
<1>4. /\ e.wn[p.term] = n /\ \A q \in p.acks : l.ak[q][p.term] >= j /\ j >= 1
  BY <1>1 DEF RaftInv, LogInv, ProposalInv
<1>5. /\ j \in Nat /\ j >= 1 /\ p.acks \in SUBSET Nodes /\ s.term \in Terms
      /\ s.snapIndex \in Nat /\ LastIndex(s) \in Nat
  BY <1>1, <1>2, <1>3, LastRetained DEF Proposals, StoreOK, Store
<1>6. /\ LastIndex(s) = l.ln[s.term]
      /\ \A i \in 1..LastIndex(s) : l.en[LastTerm(s)][i] = l.en[s.term][i]
  BY <1>2, <1>3, <1>4 DEF LeaderHas
<1>7. j \in Retained(s) /\ j \in 1..LastIndex(s) /\ j # 0
  BY <1>3, <1>5 DEF Retained
<1>8. l.en[s.term][j].term = s.term
  <2>1. TermAt(s, j) = l.en[LastTerm(s)][j].term
    BY <1>2, <1>5, <1>7, TermAtLog DEF EntryTerm
  <2> QED BY <2>1, <1>3, <1>6, <1>7
<1>9. j \in Indices
  <2>1. LastIndex(s) <= MaxLog
    BY <1>2 DEF StoreOK
  <2> QED BY <2>1, <1>3, <1>5, Bounds DEF Indices
<1>10. voterMajority({q \in Nodes : l.ak[q][s.term] >= j})
  <2>1. p.acks \subseteq {q \in Nodes : l.ak[q][s.term] >= j}
    BY <1>3, <1>4, <1>5
  <2>2. {q \in Nodes : l.ak[q][s.term] >= j} \in SUBSET Nodes
    OBVIOUS
  <2> QED BY <2>1, <2>2, <1>3, <1>5, MajorityGrows
<1>11. Cert(l, s.term, j)
  BY <1>6, <1>7, <1>8, <1>10 DEF Cert, Created
<1> QED BY <1>3, <1>5, <1>6, <1>9, <1>11

\* An index that some node committed has the entry every certificate names.
LEMMA ChosenCertified ==
    ASSUME NEW e \in Elections, NEW l \in Logs, RaftInv(e, l), NEW T \in Terms, NEW j \in Indices,
           Cert(l, T, j), NEW q \in Nodes, NEW i \in 1..st[q].commit, i <= j
    PROVE  chosen[i] = l.en[T][i]
<1>1. /\ TypeOK /\ LeaderLogs(e, l) /\ WinnerInv(e, l) /\ StoreCommitted(l, st[q])
  BY DEF RaftInv, LogInv, CommitInv
<1>2. st[q].commit \in Nat /\ j \in Nat
  BY <1>1, Bounds DEF TypeOK, StoreType, Store, Indices
<1>3. st[q].commit # 0
  BY <1>2
<1>4. PICK t \in Terms, h \in Indices :
        h >= st[q].commit /\ Cert(l, t, h) /\ \A x \in 1..st[q].commit : chosen[x] = l.en[t][x]
  BY <1>1, <1>3 DEF StoreCommitted, Committed
<1>5. i \in Indices /\ i <= h
  BY <1>2, <1>4, Bounds DEF Indices
<1>6. l.en[T][i] = l.en[t][i]
  BY <1>1, <1>4, <1>5, CertsAgree
<1> QED BY <1>4, <1>6

\* The entries chosen after a leader commits up to index j.
LEMMA ChosenEntries ==
    ASSUME NEW e \in Elections, NEW l \in Logs, RaftInv(e, l), NEW n \in Nodes, NEW s, s = st[n],
           NEW j \in Indices, j <= LastIndex(s), Cert(l, s.term, j),
           \A i \in 1..LastIndex(s) : l.en[LastTerm(s)][i] = l.en[s.term][i],
           NEW r, r = ApplyThrough(s, j), Choose(r)
    PROVE  /\ chosen' \in [Indices -> Entries \cup {NoEntry}]
           /\ \A i \in 1..r.commit : chosen'[i] = l.en[LastTerm(s)][i]
           /\ \A i \in Indices : chosen'[i] = chosen[i] \/ i <= r.commit
           /\ \A q \in Nodes : \A i \in 1..st[q].commit : chosen'[i] = chosen[i]
<1>1. /\ TypeOK /\ StoreOK(s) /\ LogOK(l, s) /\ StoreCommitted(l, s) /\ CommitInv(l)
  BY DEF RaftInv, LogInv, NodeLogs, CommitInv, TypeOK, StoreType
<1>2. /\ j \in Nat /\ s.term \in Terms /\ s.snapIndex \in Nat /\ s.commit \in Nat
      /\ s.snapIndex <= s.commit /\ s.commit <= LastIndex(s) /\ LastIndex(s) <= MaxLog /\ LastIndex(s) \in Nat
      /\ LastTerm(s) \in Terms
  BY <1>1, Bounds, LastRetained DEF StoreOK, Store, Indices
<1>3. /\ r.log = s.log /\ r.snapIndex = s.snapIndex /\ r.commit = IF j <= s.commit THEN s.commit ELSE j
  BY <1>1, <1>2, ApplyOK, SMTT(60)
<1>4. /\ r.commit \in Nat /\ r.commit >= s.commit /\ r.commit <= LastIndex(s)
      /\ (r.commit = s.commit \/ r.commit = j)
  BY <1>2, <1>3
<1>5. ASSUME NEW i \in (s.snapIndex + 1)..r.commit
      PROVE  /\ EntryAt(r, i) = l.en[LastTerm(s)][i] /\ i \in Indices /\ i \in 1..LastIndex(s)
             /\ EntryAt(r, i) \in Entries
  <2>1. i \in (s.snapIndex + 1)..LastIndex(s) /\ i \in Indices /\ i \in 1..LastIndex(s)
    BY <1>2, <1>4, Bounds DEF Indices
  <2>2. EntryAt(r, i) = EntryAt(s, i)
    BY <1>3 DEF EntryAt
  <2> QED BY <2>1, <2>2, <1>1, <1>2, LogTypes DEF LogOK
<1>6. ASSUME NEW i \in 1..r.commit, NEW q \in Nodes, i <= st[q].commit
      PROVE  chosen[i] = l.en[LastTerm(s)][i]
  <2>1. CASE i <= s.commit
    <3>1. i \in 1..s.commit
      BY <2>1, <1>2
    <3> QED BY <3>1, <1>1 DEF StoreCommitted
  <2>2. CASE ~(i <= s.commit)
    <3>1. st[q].commit \in Nat
      BY <1>1 DEF TypeOK, StoreType, Store
    <3>2. i \in 1..st[q].commit /\ i <= j /\ i \in 1..LastIndex(s)
      BY <3>1, <2>2, <1>2, <1>4, <1>6
    <3>3. chosen[i] = l.en[s.term][i]
      BY <3>2, <1>2, ChosenCertified
    <3> QED BY <3>2, <3>3
  <2> QED BY <2>1, <2>2
<1>7. \A i \in Indices : chosen'[i] = IF chosen[i] = NoEntry /\ i \in (s.snapIndex + 1)..r.commit
                                      THEN EntryAt(r, i) ELSE chosen[i]
  BY <1>3 DEF Choose
<1>8. chosen' \in [Indices -> Entries \cup {NoEntry}]
  <2>1. chosen \in [Indices -> Entries \cup {NoEntry}]
    BY <1>1 DEF CommitInv
  <2>2. \A i \in Indices : chosen'[i] \in Entries \cup {NoEntry}
    BY <2>1, <1>5, <1>7
  <2>3. chosen' = [i \in Indices |-> chosen'[i]]
    BY DEF Choose
  <2> QED BY <2>2, <2>3
<1>9. ASSUME NEW i \in 1..r.commit PROVE chosen'[i] = l.en[LastTerm(s)][i]
  <2>1. i \in Indices
    BY <1>2, <1>4, Bounds DEF Indices
  <2>2. CASE chosen[i] = NoEntry /\ i \in (s.snapIndex + 1)..r.commit
    BY <2>1, <2>2, <1>5, <1>7
  <2>3. CASE chosen[i] # NoEntry
    <3>1. PICK q \in Nodes : i <= st[q].commit
      BY <2>1, <2>3, <1>1 DEF CommitInv
    <3> QED BY <3>1, <2>1, <2>3, <1>6, <1>7
  <2>4. CASE i \notin (s.snapIndex + 1)..r.commit
    <3>1. i <= s.commit
      BY <2>4, <1>2, <1>4
    <3>2. chosen[i] = l.en[LastTerm(s)][i]
      BY <3>1, <1>6
    <3> QED BY <3>2, <2>1, <2>4, <1>7
  <2> QED BY <2>2, <2>3, <2>4
<1>10. \A i \in Indices : chosen'[i] = chosen[i] \/ i <= r.commit
  BY <1>2, <1>4, <1>7
<1>11. ASSUME NEW q \in Nodes, NEW i \in 1..st[q].commit PROVE chosen'[i] = chosen[i]
  <2>1. StoreOK(st[q]) /\ st[q].commit \in Nat
    BY <1>1 DEF TypeOK, StoreType, Store
  <2>2. LastIndex(st[q]) \in Nat /\ st[q].commit <= LastIndex(st[q]) /\ LastIndex(st[q]) <= MaxLog
    BY <2>1, LastRetained DEF StoreOK
  <2>3. i \in Indices /\ i \in Nat /\ i >= 1 /\ i <= st[q].commit
    BY <2>1, <2>2, Bounds DEF Indices
  <2>4. CASE i <= r.commit
    <3>1. i \in 1..r.commit
      BY <2>3, <2>4, <1>4
    <3> QED BY <3>1, <2>3, <1>6, <1>9
  <2> QED BY <2>3, <2>4, <1>10
<1> QED BY <1>8, <1>9, <1>10, <1>11

\* The store of a leader after it has committed up to index j.
LEMMA CommittedStore ==
    ASSUME NEW l \in Logs, NEW s, StoreOK(s), LogOK(l, s), StoreCommitted(l, s),
           NEW j \in Indices, j <= LastIndex(s), Cert(l, s.term, j),
           \A i \in 1..LastIndex(s) : l.en[LastTerm(s)][i] = l.en[s.term][i],
           j > s.commit => CanApply(s, j), NEW r, r = ApplyThrough(s, j), Grows(l, l),
           \A i \in 1..r.commit : chosen'[i] = l.en[LastTerm(s)][i],
           \A i \in 1..s.commit : chosen'[i] = chosen[i]
    PROVE  StoreCommitted(l, r)'
<1>1. /\ j \in Nat /\ s.term \in Terms /\ s.snapIndex \in Nat /\ s.commit \in Nat /\ s.term \in Nat
      /\ s.snapIndex <= s.commit /\ s.commit <= LastIndex(s) /\ LastIndex(s) <= MaxLog /\ LastIndex(s) \in Nat
  BY Bounds, LastRetained DEF StoreOK, Store, Indices, Terms
<1>2. /\ StoreOK(r) /\ LastIndex(r) = LastIndex(s) /\ LastTerm(r) = LastTerm(s)
      /\ r.term = s.term /\ r.log = s.log /\ r.snapIndex = s.snapIndex
      /\ r.snapEpoch = s.snapEpoch /\ r.snapView = s.snapView
      /\ r.commit = IF j <= s.commit THEN s.commit ELSE j
      /\ r.epoch = IF j <= s.commit THEN s.epoch ELSE EntryAt(s, j).epoch
      /\ r.view = IF j <= s.commit THEN s.view ELSE EntryAt(s, j).view
  BY <1>1, ApplyOK, SMTT(60)
<1>3. CASE j <= s.commit
  <2>1. /\ r.term >= s.term /\ r.commit = s.commit /\ r.epoch = s.epoch /\ r.view = s.view
        /\ \A i \in 1..s.commit : chosen'[i] = chosen[i] /\ l.en[LastTerm(r)][i] = l.en[LastTerm(s)][i]
    BY <1>1, <1>2, <1>3
  <2> QED BY <2>1, <1>2, StoreCommittedStays
<1>4. CASE ~(j <= s.commit)
  <2>1. r.commit = j /\ r.epoch = EntryAt(s, j).epoch /\ r.view = EntryAt(s, j).view /\ j > s.commit
    BY <1>1, <1>2, <1>4
  <2>2. ASSUME NEW i \in (s.commit + 1)..j
        PROVE  chosen'[i] = EntryAt(s, i) /\ i \in 1..j /\ i \in Nat /\ i >= 1
    <3>1. i \in (s.snapIndex + 1)..LastIndex(s) /\ i \in 1..j /\ i \in Nat /\ i >= 1
      BY <1>1
    <3>2. EntryAt(s, i) = l.en[LastTerm(s)][i]
      BY <3>1 DEF LogOK
    <3> QED BY <3>1, <3>2, <2>1
  <2>3. ASSUME NEW c \in 0..s.commit PROVE At(c)' = At(c)
    <3>1. c # 0 => c \in 1..s.commit
      BY <1>1
    <3> QED BY <3>1 DEF At
  <2>4. ASSUME NEW i \in 1..j PROVE Extends(At(i - 1)', chosen'[i])
    <3>1. CASE i <= s.commit
      <4>1. i \in 1..s.commit /\ i - 1 \in 0..s.commit
        BY <3>1, <1>1
      <4>2. Extends(At(i - 1), chosen[i]) /\ chosen'[i] = chosen[i]
        BY <4>1 DEF StoreCommitted
      <4>3. At(i - 1)' = At(i - 1)
        BY <4>1, <2>3
      <4> QED BY <4>2, <4>3
    <3>2. CASE ~(i <= s.commit)
      <4>1. /\ i \in (s.commit + 1)..j
            /\ i = s.commit + 1 => i - 1 = s.commit
            /\ i # s.commit + 1 => i - 1 \in (s.commit + 1)..j /\ i - 1 # 0
        BY <3>2, <1>1
      <4>2. Extends(IF i = s.commit + 1 THEN s ELSE EntryAt(s, i - 1), EntryAt(s, i))
        BY <4>1, <2>1 DEF CanApply, Replays
      <4>3. chosen'[i] = EntryAt(s, i)
        BY <4>1, <2>2
      <4>4. CASE i = s.commit + 1
        <5>1. s.commit \in 0..s.commit
          BY <1>1
        <5>2. At(i - 1)' = At(s.commit)
          BY <5>1, <4>1, <4>4, <2>3
        <5>3. s.epoch = At(s.commit).epoch /\ s.view = At(s.commit).view
          BY DEF StoreCommitted
        <5> QED BY <5>2, <5>3, <4>2, <4>3, <4>4 DEF Extends
      <4>5. CASE i # s.commit + 1
        <5>1. At(i - 1)' = EntryAt(s, i - 1)
          BY <4>1, <4>5, <2>2 DEF At
        <5> QED BY <5>1, <4>2, <4>3, <4>5
      <4> QED BY <4>4, <4>5
    <3> QED BY <3>1, <3>2
  <2>5. \A i \in 1..r.commit : chosen'[i] = l.en[LastTerm(r)][i] /\ Extends(At(i - 1)', chosen'[i])
    BY <2>1, <2>4, <1>2
  <2>6. Committed(l, r.term, r.commit)'
    <3>1. \A i \in 1..j : i \in 1..LastIndex(s)
      BY <1>1
    <3>2. \A i \in 1..j : chosen'[i] = l.en[s.term][i]
      BY <3>1, <2>1
    <3>3. s.term <= s.term /\ j >= j
      BY <1>1
    <3>4. \E t \in Terms, h \in Indices :
            t <= r.term /\ h >= r.commit /\ Cert(l, t, h) /\ \A i \in 1..r.commit : chosen'[i] = l.en[t][i]
      BY <3>2, <3>3, <2>1, <1>1, <1>2
    <3> QED BY <3>4 DEF Committed, Cert, Created, voterMajority
  <2>7. r.epoch = At(r.commit)'.epoch /\ r.view = At(r.commit)'.view
    <3>1. j \in (s.commit + 1)..j /\ j # 0
      BY <2>1, <1>1
    <3>2. At(j)' = EntryAt(s, j)
      BY <3>1, <2>2 DEF At
    <3> QED BY <3>2, <2>1
  <2>8. r.snapEpoch = At(r.snapIndex)'.epoch /\ r.snapView = At(r.snapIndex)'.view
    <3>1. s.snapIndex \in 0..s.commit
      BY <1>1
    <3>2. At(s.snapIndex)' = At(s.snapIndex)
      BY <3>1, <2>3
    <3> QED BY <3>2, <1>2 DEF StoreCommitted
  <2> QED BY <2>5, <2>6, <2>7, <2>8 DEF StoreCommitted, Extends, LastTerm, LastIndex, TermAt
<1> QED BY <1>3, <1>4

\* A leader commits.
LEMMA LogCommit ==
    ASSUME ~StepDownWindow, NEW e \in Elections, NEW l \in Logs, RaftInv(e, l), NEW n \in Nodes,
           CommitWithVoterAcks(n)
    PROVE  RaftInv(e, l)' /\ Forward
<1>1. /\ TypeOK /\ ElectionInv(e) /\ Together /\ Campaigns /\ LeaderLogs(e, l) /\ NodeLogs(e, l)
      /\ AckInv(l) /\ WinnerInv(e, l) /\ BallotInv(l) /\ ProposalInv(e, l) /\ CommitInv(l)
      /\ RequestInv(e, l)
  BY DEF RaftInv, LogInv
<1>2. TypeOK' /\ Quiet
  BY <1>1, TypeCommit
<1>3. PICK s : s = st[n]
  OBVIOUS
<1>4. PICK j : j = proposal[n].index
  OBVIOUS
<1>5. PICK r : r = ApplyThrough(s, j)
  OBVIOUS
<1>6. /\ proposal[n] # NoProposal /\ Committable(s, proposal[n])
      /\ j > s.commit => CanApply(s, j)
      /\ Persist(n, r) /\ Choose(r)
      /\ proposal' = [proposal EXCEPT ![n].committed = TRUE]
      /\ UNCHANGED <<role, stepping, ballot, votes, msgs, restarts>>
  BY <1>3, <1>4, <1>5 DEF CommitWithVoterAcks
<1>7. /\ Cert(l, s.term, j) /\ j \in Indices /\ j \in Nat /\ j <= LastIndex(s) /\ s.term \in Terms
      /\ \A i \in 1..LastIndex(s) : l.en[LastTerm(s)][i] = l.en[s.term][i]
  BY <1>3, <1>4, <1>6, CertifiedProposal
<1>8. /\ chosen' \in [Indices -> Entries \cup {NoEntry}]
      /\ \A i \in 1..r.commit : chosen'[i] = l.en[LastTerm(s)][i]
      /\ \A i \in Indices : chosen'[i] = chosen[i] \/ i <= r.commit
      /\ \A q \in Nodes : \A i \in 1..st[q].commit : chosen'[i] = chosen[i]
  BY <1>3, <1>5, <1>6, <1>7, ChosenEntries
<1>9. StoreOK(s) /\ LogOK(l, s) /\ StoreCommitted(l, s) /\ LeaderHas(e, l, n, s)
  BY <1>1, <1>3 DEF NodeLogs, CommitInv, TypeOK, StoreType
<1>10. /\ StoreOK(r) /\ LastIndex(r) = LastIndex(s) /\ LastTerm(r) = LastTerm(s)
       /\ r.term = s.term /\ r.log = s.log /\ r.snapIndex = s.snapIndex /\ r.snapTerm = s.snapTerm
       /\ r.commit = IF j <= s.commit THEN s.commit ELSE j
  BY <1>5, <1>7, <1>9, ApplyOK
<1>11. st'[n] = r /\ \A q \in Nodes \ {n} : st'[q] = st[q]
  BY <1>1, <1>6, <1>10, PersistOK DEF TypeOK
<1>12. \A q \in Nodes : /\ st'[q].term = st[q].term /\ st[q].term \in Nat
                        /\ LastIndex(st'[q]) = LastIndex(st[q]) /\ LastTerm(st'[q]) = LastTerm(st[q])
  BY <1>1, <1>3, <1>10, <1>11, TermsNat
<1>13. \A q \in Nodes : st'[q].term >= st[q].term
  BY <1>12
<1>14. Grows(l, l)
  BY <1>13, GrowsSame
<1>15. r.commit \in Nat /\ s.commit \in Nat /\ r.commit >= s.commit
  <2>1. s.commit \in Nat
    BY <1>9 DEF StoreOK, Store
  <2> QED BY <2>1, <1>7, <1>10
<1>16. Forward
  <2>1. \A q \in Nodes : st'[q].commit >= st[q].commit
    <3>1. \A q \in Nodes : st[q].commit \in Nat
      BY <1>1 DEF TypeOK, StoreType, Store
    <3> QED BY <3>1, <1>3, <1>11, <1>15
  <2> QED BY <2>1, <1>8 DEF Forward
<1>17. AckInv(l)' /\ WinnerInv(e, l)'
  BY <1>1, <1>2, <1>12, <1>13, AcksStay
<1>18. BallotInv(l)'
  BY <1>1, <1>2, <1>6, <1>14, BallotsStay
<1>19. RequestInv(e, l)'
  <2>1. \A m \in msgs : RequestTrue(e, l, m)'
    BY <1>1, <1>2, <1>14, <1>16, RequestsStay
  <2> QED BY <2>1, <1>6 DEF RequestInv
<1>20. LeaderLogs(e, l)'
  BY <1>1 DEF LeaderLogs, Won
<1>21. LogOK(l, r)
  BY <1>9, <1>10, SMTT(60) DEF LogOK, EntryAt
<1>22. NodeLogs(e, l)'
  <2>1. \A q \in Nodes : LogOK(l, st'[q]) /\ LeaderHas(e, l, q, st'[q])
    <3>1. LeaderHas(e, l, n, r)
      BY <1>9, <1>10 DEF LeaderHas
    <3> QED BY <3>1, <1>1, <1>11, <1>21 DEF NodeLogs
  <2> QED BY <2>1 DEF NodeLogs, LogOK, LeaderHas, LastIndex, LastTerm, TermAt, EntryAt
<1>23. Campaigns'
  <2>1. ASSUME NEW q \in Nodes, role'[q] = "candidate"
        PROVE  /\ ballot'[q].term >= 1 /\ ballot'[q].lastIndex = LastIndex(st'[q])
               /\ ballot'[q].lastTerm = LastTerm(st'[q])
    <3>1. role[q] = "candidate" /\ ballot' = ballot
      BY <2>1, <1>6
    <3> QED BY <3>1, <1>1, <1>12 DEF Campaigns
  <2> QED BY <2>1 DEF Campaigns, LastIndex, LastTerm, TermAt
<1>24. ProposalInv(e, l)'
  <2>1. ASSUME NEW q \in Nodes, proposal'[q] # NoProposal
        PROVE  /\ proposal[q] # NoProposal /\ proposal'[q].term = proposal[q].term
               /\ proposal'[q].index = proposal[q].index /\ proposal'[q].acks = proposal[q].acks
    <3>1. proposal \in [Nodes -> Proposals \cup {NoProposal}]
      BY <1>1 DEF TypeOK, RestType
    <3>2. CASE q = n
      <4>1. proposal[q] \in Proposals /\ proposal'[q] = [proposal[q] EXCEPT !.committed = TRUE]
        BY <3>1, <3>2, <1>6
      <4> QED BY <4>1, <3>2, <1>6 DEF Proposals
    <3>3. CASE q # n
      BY <3>1, <3>3, <2>1, <1>6
    <3> QED BY <3>2, <3>3
  <2> QED BY <2>1, <1>1 DEF ProposalInv
<1>25. CommitInv(l)'
  <2>1. StoreCommitted(l, st[n])'
    <3>1. StoreCommitted(l, r)'
      BY <1>3, <1>5, <1>6, <1>7, <1>8, <1>9, <1>14, CommittedStore
    <3> QED BY <3>1, <1>11, StoreCommittedNext
  <2>2. ASSUME NEW q \in Nodes \ {n} PROVE StoreCommitted(l, st[q])'
    <3>1. PICK x : x = st[q]
      OBVIOUS
    <3>2. StoreOK(x) /\ LogOK(l, x) /\ StoreCommitted(l, x) /\ st'[q] = x
          /\ \A i \in 1..x.commit : chosen'[i] = chosen[i]
      BY <3>1, <1>1, <1>8, <1>11 DEF CommitInv, NodeLogs, TypeOK, StoreType
    <3> QED BY <3>2, <1>14, KeptCommitted
  <2>3. ASSUME NEW i \in Indices, chosen'[i] # NoEntry PROVE \E q \in Nodes : i <= st'[q].commit
    <3>1. CASE i <= r.commit
      BY <3>1, <1>11
    <3>2. CASE ~(i <= r.commit)
      <4>1. chosen[i] # NoEntry
        BY <3>2, <2>3, <1>8
      <4>2. PICK q \in Nodes : i <= st[q].commit
        BY <4>1, <1>1 DEF CommitInv
      <4>3. st[q].commit \in Nat /\ st'[q].commit \in Nat /\ st'[q].commit >= st[q].commit /\ i \in Nat
        BY <1>1, <1>2, <1>16, TermsNatNext, Bounds DEF TypeOK, StoreType, Store, Forward, Indices
      <4> QED BY <4>2, <4>3
    <3> QED BY <3>1, <3>2
  <2> QED BY <2>1, <2>2, <2>3, <1>8 DEF CommitInv
<1>26. ElectionInv(e)'
  BY <1>1, <1>2, QuietElections
<1>27. Together'
  <2>1. StayPut /\ r.term = st[n].term /\ ballot' = ballot
    BY <1>3, <1>6, <1>10 DEF StayPut
  <2> QED BY <2>1, <1>1, <1>6, <1>10, TogetherPersist
<1> QED BY <1>2, <1>16, <1>17, <1>18, <1>19, <1>20, <1>22, <1>23, <1>24, <1>25, <1>26, <1>27
        DEF RaftInv, LogInv

-----------------------------------------------------------------------------
(* The invariant holds *)

\* The types, and records of elections and logs that fit the state.
RaftCorrect == \E e \in Elections, l \in Logs : RaftInv(e, l)

\* No entry exists at the start.
LEMMA InitRaft == Init => RaftCorrect
<1> SUFFICES ASSUME Init PROVE RaftCorrect
  OBVIOUS
<1>1. TypeOK
  BY TypeInit
<1>2. PICK e \in Elections : ElectionInv(e) /\ \A t \in Terms : e.wn[t] = Nobody
  <2> DEFINE f == [wn |-> [t \in Terms |-> Nobody], qu |-> [t \in Terms |-> {}],
                   vt |-> [n \in Nodes |-> [t \in Terms |-> Nobody]]]
  <2>1. f \in Elections
    BY DEF Elections
  <2>2. \A n \in Nodes : st[n].term = 0 /\ disk[n].term = 0 /\ ballot[n].term = 0
    BY DEF Init, FreshState
  <2>3. ElectionInv(f) /\ \A t \in Terms : f.wn[t] = Nobody
    BY <2>2 DEF Init, ElectionInv, BallotsSeen, VotesKept, VoteOK, RolesWon, VotesCast, QuorumsKept
  <2> QED BY <2>1, <2>3
<1>3. PICK l \in Logs : /\ \A t \in Terms : l.ln[t] = 0
                        /\ \A q \in Nodes, t \in Terms : l.ak[q][t] = 0
  <2> DEFINE x == [term |-> 0, epoch |-> 0, view |-> NoView]
             k == [ln |-> [t \in Terms |-> 0], en |-> [t \in Terms |-> [i \in Indices |-> x]],
                   ak |-> [q \in Nodes |-> [t \in Terms |-> 0]]]
  <2>1. x \in Entries
    BY Bounds DEF Entries, Terms, AnyView
  <2>2. 0 \in 0..MaxLog
    BY Bounds
  <2>3. [i \in Indices |-> x] \in [Indices -> Entries]
    BY <2>1
  <2> HIDE DEF x
  <2>4. k \in Logs
    BY <2>2, <2>3 DEF Logs
  <2>5. /\ \A t \in Terms : k.ln[t] = 0
        /\ \A q \in Nodes, t \in Terms : k.ak[q][t] = 0
    OBVIOUS
  <2> QED BY <2>4, <2>5
<1>4. ASSUME NEW n \in Nodes
      PROVE  /\ st[n].term = 0 /\ st[n].commit = 0 /\ st[n].snapIndex = 0 /\ st[n].snapTerm = 0
             /\ st[n].epoch = BootstrapEpoch /\ st[n].view = NoView
             /\ st[n].snapEpoch = BootstrapEpoch /\ st[n].snapView = NoView
             /\ LastIndex(st[n]) = 0 /\ LastTerm(st[n]) = 0 /\ role[n] = "follower" /\ ~stepping[n]
             /\ proposal[n] = NoProposal
  <2>1. st[n] = FreshState /\ role[n] = "follower" /\ ~stepping[n] /\ proposal[n] = NoProposal
    BY DEF Init
  <2>2. LastIndex(FreshState) = 0
    BY DEF LastIndex, FreshState
  <2> QED BY <2>1, <2>2 DEF FreshState, LastTerm, TermAt
<1>5. 0 \in Terms /\ \A n \in Nodes : n # Nobody
  BY Bounds DEF Terms
<1>6. LeaderLogs(e, l)
  BY <1>2, <1>3, <1>5 DEF LeaderLogs, Won
<1>7. NodeLogs(e, l)
  BY <1>2, <1>3, <1>4, <1>5 DEF NodeLogs, LogOK, LeaderHas, EntryTerm
<1>8. Campaigns /\ Together /\ BallotInv(l) /\ ProposalInv(e, l) /\ RequestInv(e, l)
  BY <1>4 DEF Init, Campaigns, Together, BallotInv, ProposalInv, RequestInv
<1>9. AckInv(l)
  BY <1>3 DEF AckInv
<1>10. WinnerInv(e, l)
  BY <1>2 DEF WinnerInv, Won
<1>11. CommitInv(l)
  <2>1. \A n \in Nodes : StoreCommitted(l, st[n])
    BY <1>4 DEF StoreCommitted, Committed, At
  <2> QED BY <2>1 DEF CommitInv, Init
<1> QED BY <1>1, <1>2, <1>6, <1>7, <1>8, <1>9, <1>10, <1>11 DEF RaftCorrect, RaftInv, LogInv

\* Every step keeps the invariant, and moves commits only forward.
LEMMA NextRaft ==
    ASSUME ~StepDownWindow, RaftCorrect, [Next]_vars
    PROVE  RaftCorrect' /\ Forward
<1>1. PICK e \in Elections, l \in Logs : RaftInv(e, l)
  BY DEF RaftCorrect
<1>2. ASSUME RaftInv(e, l)' /\ Forward PROVE RaftCorrect' /\ Forward
  BY <1>2 DEF RaftCorrect
<1>3. ASSUME \E k \in Logs : RaftInv(e, k)' /\ Forward PROVE RaftCorrect' /\ Forward
  BY <1>3 DEF RaftCorrect
<1>4. CASE UNCHANGED vars
  <2>1. TypeOK /\ Together
    BY <1>1 DEF RaftInv
  <2>2. TypeOK'
    BY <2>1, <1>4 DEF vars, TypeOK, RoleType, StoreType, RestType, StoreOK, LastIndex, MessageOK
  <2>3. Quiet
    <3>1. \A q \in Nodes : KeepsVote(st[q], st'[q])
      BY <2>1, <1>4, TermsNat DEF vars, KeepsVote
    <3> QED BY <3>1, <1>4 DEF vars, Quiet
  <2>4. Together'
    BY <2>1, <1>4 DEF vars, Together
  <2>5. Steady(l)
    BY <1>1, <1>4, SteadySame DEF vars
  <2>6. RaftInv(e, l)' /\ Forward
    BY <2>2, <2>3, <2>4, <2>5, <1>1, <1>4, SteadyRaft DEF vars
  <2> QED BY <2>6, <1>2
<1>5. ASSUME NEW n \in Nodes, becomeFollower(n) \/ expireLeaderWithoutQuorum(n)
      PROVE  RaftCorrect' /\ Forward
  BY <1>1, <1>2, <1>5, LogFollower
<1>6. ASSUME NEW n \in Nodes, BeginElection(n) PROVE RaftCorrect' /\ Forward
  <2>1. PICK f : f = CastVote(e, n, st[n].term + 1, n)
    OBVIOUS
  <2>2. f \in Elections /\ RaftInv(f, l)' /\ Forward
    BY <2>1, <1>1, <1>6, LogBegin
  <2> QED BY <2>2 DEF RaftCorrect
<1>7. ASSUME NEW n \in Nodes, BecomeLeader(n) PROVE RaftCorrect' /\ Forward
  <2>1. PICK f : f = WinTerm(e, ballot[n].term, n, votes[n])
    OBVIOUS
  <2>2. PICK k : k = Lead(l, ballot[n].term, st[n])
    OBVIOUS
  <2>3. f \in Elections /\ k \in Logs /\ RaftInv(f, k)' /\ Forward
    BY <2>1, <2>2, <1>1, <1>7, LogWin
  <2> QED BY <2>3 DEF RaftCorrect
<1>8. ASSUME NEW n \in Nodes, CommitWithVoterAcks(n) PROVE RaftCorrect' /\ Forward
  BY <1>1, <1>2, <1>8, LogCommit
<1>9. ASSUME NEW n \in Nodes, EndPropose(n) PROVE RaftCorrect' /\ Forward
  BY <1>1, <1>2, <1>9, LogEnd
<1>10. ASSUME NEW n \in Nodes, Restart(n) PROVE RaftCorrect' /\ Forward
  BY <1>1, <1>2, <1>10, LogRestart
<1>11. ASSUME NEW n \in Nodes, NEW view \in Views, Propose(n, view) PROVE RaftCorrect' /\ Forward
  BY <1>1, <1>3, <1>11, LogPropose
<1>12. ASSUME NEW n \in Nodes, NEW c \in Nodes, RequestVote(n, c) PROVE RaftCorrect' /\ Forward
  <2>1. PICK f : (Granted(n, c) => f = CastVote(e, n, ballot[c].term, c)) /\ (~Granted(n, c) => f = e)
    OBVIOUS
  <2>2. f \in Elections /\ RaftInv(f, l)' /\ Forward
    BY <2>1, <1>1, <1>12, LogVote
  <2> QED BY <2>2 DEF RaftCorrect
<1>13. ASSUME NEW n \in Nodes, NEW p \in Nodes, ObserveTerm(n, p) PROVE RaftCorrect' /\ Forward
  BY <1>1, <1>2, <1>13, LogObserve
<1>14. ASSUME NEW n \in Nodes, NEW p \in Nodes, NEW next \in 1..(MaxLog + 1),
              replicatePeer(n, p, next)
       PROVE  RaftCorrect' /\ Forward
  BY <1>1, <1>2, <1>14, LogReplicate
<1>15. ASSUME NEW m \in msgs, AppendEntries(m) PROVE RaftCorrect' /\ Forward
  BY <1>1, <1>3, <1>15, LogAppend
<1>16. ASSUME NEW m \in msgs, InstallSnapshot(m) PROVE RaftCorrect' /\ Forward
  BY <1>1, <1>3, <1>16, LogInstall
<1>17. ASSUME NEW m \in msgs, Lose(m) PROVE RaftCorrect' /\ Forward
  BY <1>1, <1>2, <1>17, LogLose
<1> QED
  BY <1>4, <1>5, <1>6, <1>7, <1>8, <1>9, <1>10, <1>11, <1>12, <1>13, <1>14, <1>15, <1>16,
     <1>17 DEF Next

\* The invariant of the replicated log holds in every reachable state (raft.go,
\* raft_runtime.go), when roles change with the store.
THEOREM RaftAlwaysCorrect ==
    ASSUME ~StepDownWindow
    PROVE  Spec => []RaftCorrect
<1>1. RaftCorrect /\ [Next]_vars => RaftCorrect'
  BY NextRaft
<1> QED BY <1>1, InitRaft, PTL DEF Spec

-----------------------------------------------------------------------------
(* What the invariant gives *)

\* A node that acknowledged a certified entry still holds every chosen entry up to it.
LEMMA CertHeld ==
    ASSUME NEW e \in Elections, NEW l \in Logs, RaftInv(e, l), NEW t \in Terms, NEW j \in Indices,
           Cert(l, t, j), NEW q \in Nodes, l.ak[q][t] >= j, NEW i \in 1..j, chosen[i] = l.en[t][i]
    PROVE  Holds(st[q], i)
<1>1. /\ TypeOK /\ LeaderLogs(e, l) /\ AckInv(l) /\ StoreOK(st[q]) /\ LogOK(l, st[q])
  BY DEF RaftInv, LogInv, NodeLogs, TypeOK, StoreType
<1>2. PICK s : s = st[q]
  OBVIOUS
<1>3. /\ j \in Nat /\ l.ak[q][t] \in Nat /\ LastIndex(s) \in Nat /\ LastTerm(s) \in Terms /\ s.snapIndex \in Nat
  BY <1>1, <1>2, LogTypes, LastRetained, Bounds DEF Indices, StoreOK, Store
<1>4. Created(l, t, j) /\ ~Dead(l, t, j) /\ j \in 1..l.ak[q][t]
  BY <1>1, <1>3, CertNotDead DEF Cert, Indices
<1>5. Has(l, s, t, j)
  BY <1>1, <1>2, <1>4 DEF AckInv
<1>6. /\ j <= LastIndex(s) /\ l.en[LastTerm(s)][j].term = l.en[t][j].term
      /\ j <= l.ln[t] /\ j <= l.ln[LastTerm(s)]
  <2>1. j <= LastIndex(s) /\ l.en[LastTerm(s)][j].term = t /\ l.en[t][j].term = t /\ j \in 1..l.ln[t]
        /\ LastIndex(s) <= l.ln[LastTerm(s)]
    BY <1>1, <1>2, <1>4, <1>5 DEF Has, Created, LogOK
  <2>2. l.ln[LastTerm(s)] \in Nat
    BY <1>3, LogTypes
  <2> QED BY <2>1, <2>2, <1>3
<1>7. l.en[LastTerm(s)][i] = l.en[t][i]
  BY <1>1, <1>3, <1>6, PrefixAgrees
<1>8. i <= s.snapIndex \/ i \in (s.snapIndex + 1)..LastIndex(s)
  BY <1>3, <1>6
<1>9. i <= s.snapIndex \/ (i <= LastIndex(s) /\ EntryAt(s, i) = chosen[i])
  BY <1>1, <1>2, <1>3, <1>7, <1>8 DEF LogOK
<1> QED BY <1>2, <1>9 DEF Holds

\* A chosen entry was certified, in the term of a node that committed it or before.
LEMMA ChosenCert ==
    ASSUME NEW e \in Elections, NEW l \in Logs, RaftInv(e, l), NEW i \in Indices, chosen[i] # NoEntry
    PROVE  \E n \in Nodes, t \in Terms, j \in Indices :
             t <= st[n].term /\ i \in 1..j /\ Cert(l, t, j) /\ chosen[i] = l.en[t][i]
<1>1. TypeOK /\ CommitInv(l)
  BY DEF RaftInv, LogInv
<1>2. PICK n \in Nodes : i <= st[n].commit
  BY <1>1 DEF CommitInv
<1>3. st[n].commit \in Nat /\ StoreCommitted(l, st[n]) /\ i \in Nat /\ i >= 1
  BY <1>1, Bounds DEF CommitInv, TypeOK, StoreType, Store, Indices
<1>4. PICK t \in Terms, j \in Indices :
        /\ t <= st[n].term /\ j >= st[n].commit /\ Cert(l, t, j)
        /\ \A x \in 1..st[n].commit : chosen[x] = l.en[t][x]
  <2>1. st[n].commit # 0
    BY <1>2, <1>3
  <2>2. Committed(l, st[n].term, st[n].commit)
    BY <1>3 DEF StoreCommitted
  <2> QED BY <2>1, <2>2 DEF Committed
<1>5. i \in 1..st[n].commit /\ i \in 1..j
  BY <1>2, <1>3, <1>4, Bounds DEF Indices
<1> QED BY <1>4, <1>5

\* A committed entry is on the disks of a majority.
LEMMA RaftDurable == RaftCorrect => CommittedDurable
<1> SUFFICES ASSUME RaftCorrect, NEW i \in Indices, chosen[i] # NoEntry
             PROVE  voterMajority({n \in Nodes : Holds(disk[n], i)})
  BY DEF CommittedDurable
<1>1. PICK e \in Elections, l \in Logs : RaftInv(e, l)
  BY DEF RaftCorrect
<1>2. PICK t \in Terms, j \in Indices : i \in 1..j /\ Cert(l, t, j) /\ chosen[i] = l.en[t][i]
  BY <1>1, ChosenCert
<1> DEFINE A == {q \in Nodes : l.ak[q][t] >= j}
           B == {n \in Nodes : Holds(disk[n], i)}
<1>3. st = disk
  BY <1>1 DEF RaftInv, Together
<1>4. A \subseteq B
  BY <1>1, <1>2, <1>3, CertHeld
<1>5. voterMajority(A) /\ A \in SUBSET Nodes /\ B \in SUBSET Nodes
  BY <1>2 DEF Cert
<1>6. voterMajority(B)
  <2> HIDE DEF A, B
  <2> QED BY <1>4, <1>5, MajorityGrows
<1> QED BY <1>6

\* The leader of the latest term holds every committed entry.
LEMMA RaftComplete == RaftCorrect => LeaderCompleteness
<1> SUFFICES ASSUME RaftCorrect, NEW n \in Nodes, role[n] = "leader",
                    \A p \in Nodes : st[p].term <= st[n].term,
                    NEW i \in Indices, chosen[i] # NoEntry
             PROVE  Holds(st[n], i)
  BY DEF LeaderCompleteness
<1>1. PICK e \in Elections, l \in Logs : RaftInv(e, l)
  BY DEF RaftCorrect
<1>2. PICK p \in Nodes, t \in Terms, j \in Indices :
        t <= st[p].term /\ i \in 1..j /\ Cert(l, t, j) /\ chosen[i] = l.en[t][i]
  BY <1>1, ChosenCert
<1>3. PICK s : s = st[n]
  OBVIOUS
<1>4. /\ TypeOK /\ LeaderLogs(e, l) /\ WinnerInv(e, l) /\ StoreOK(s) /\ LogOK(l, s)
  BY <1>1, <1>3 DEF RaftInv, LogInv, NodeLogs, TypeOK, StoreType
<1>5. /\ s.term \in Terms /\ s.term \in Nat /\ Won(e, s.term) /\ LastIndex(s) = l.ln[s.term]
      /\ \A h \in 1..LastIndex(s) : l.en[LastTerm(s)][h] = l.en[s.term][h]
  BY <1>1, <1>3, LeaderWon
<1>6. t <= s.term
  <2>1. st[p].term <= s.term /\ st[p].term \in Nat /\ t \in Nat
    BY <1>3, <1>4, TermsNat, LogTypes
  <2> QED BY <2>1, <1>2, <1>5
<1>7. j <= l.ln[s.term] /\ \A h \in 1..j : l.en[s.term][h] = l.en[t][h]
  BY <1>2, <1>4, <1>5, <1>6, CertInWinner
<1>8. /\ j \in Nat /\ LastIndex(s) \in Nat /\ s.snapIndex \in Nat
  BY <1>4, LastRetained, Bounds DEF Indices, StoreOK, Store
<1>9. i \in 1..LastIndex(s) /\ (i <= s.snapIndex \/ i \in (s.snapIndex + 1)..LastIndex(s))
  BY <1>2, <1>5, <1>7, <1>8
<1>10. l.en[LastTerm(s)][i] = chosen[i]
  BY <1>2, <1>5, <1>7, <1>9
<1>11. i <= s.snapIndex \/ (i <= LastIndex(s) /\ EntryAt(s, i) = chosen[i])
  BY <1>4, <1>8, <1>9, <1>10 DEF LogOK
<1> QED BY <1>3, <1>11 DEF Holds

\* Along a chain of advance_epoch commands epochs never fall, and a repeated epoch
\* repeats its view.
LEMMA EpochsGrow ==
    ASSUME NEW a, NEW N \in Nat, \A i \in 0..N : a[i].epoch \in Nat,
           \A i \in 1..N : Extends(a[i - 1], a[i]), NEW c \in 0..N, NEW d \in c..N
    PROVE  a[c].epoch <= a[d].epoch /\ (a[c].epoch = a[d].epoch => a[c].view = a[d].view)
<1> DEFINE P(x) == a[c].epoch <= a[x].epoch /\ (a[c].epoch = a[x].epoch => a[c].view = a[x].view)
           Bad == {x \in c..N : ~P(x)}
<1> SUFFICES ASSUME ~P(d) PROVE FALSE
  OBVIOUS
<1>1. Bad \in SUBSET Nat /\ Bad # {}
  OBVIOUS
<1> HIDE DEF Bad
<1>2. PICK x \in Bad : \A y \in Bad : x <= y
  BY <1>1, LeastElement
<1>3. x \in c..N /\ ~P(x)
  BY <1>2 DEF Bad
<1>4. x # c
  <2>1. a[c].epoch \in Nat
    OBVIOUS
  <2> QED BY <2>1, <1>3
<1>5. x - 1 \in c..N /\ x \in 1..N /\ x - 1 \in 0..N /\ x \in 0..N
  BY <1>3, <1>4
<1>6. P(x - 1)
  <2>1. x - 1 \notin Bad
    BY <1>2, <1>3, <1>5
  <2> QED BY <2>1, <1>5 DEF Bad
<1>7. Extends(a[x - 1], a[x]) /\ a[x - 1].epoch \in Nat /\ a[x].epoch \in Nat /\ a[c].epoch \in Nat
  BY <1>5
<1>8. P(x)
  BY <1>6, <1>7 DEF Extends
<1> QED BY <1>3, <1>8

\* Of two committed prefixes the longer has the later epoch, or the same view.
LEMMA PrefixEpochs ==
    ASSUME NEW e \in Elections, NEW l \in Logs, RaftInv(e, l), NEW n \in Nodes,
           NEW c \in 0..st[n].commit
    PROVE  /\ At(c).epoch \in Nat /\ st[n].epoch \in Nat /\ At(c).epoch <= st[n].epoch
           /\ At(c).epoch = st[n].epoch => At(c).view = st[n].view
<1>1. PICK s : s = st[n]
  OBVIOUS
<1>2. /\ LeaderLogs(e, l) /\ StoreOK(s) /\ LogOK(l, s) /\ StoreCommitted(l, s)
  BY <1>1 DEF RaftInv, LogInv, NodeLogs, CommitInv, TypeOK, StoreType
<1>3. s.commit \in Nat
  BY <1>2 DEF StoreOK, Store
<1> DEFINE a == [i \in 0..s.commit |-> At(i)]
<1>4. \A i \in 0..s.commit : a[i] = At(i) /\ a[i].epoch \in Nat
  BY <1>2, AtCommitted
<1>5. \A i \in 1..s.commit : Extends(a[i - 1], a[i])
  <2> SUFFICES ASSUME NEW i \in 1..s.commit PROVE Extends(a[i - 1], a[i])
    OBVIOUS
  <2>1. i \in 0..s.commit /\ i - 1 \in 0..s.commit /\ i # 0
    BY <1>3
  <2>2. a[i] = chosen[i] /\ a[i - 1] = At(i - 1)
    BY <2>1, <1>4 DEF At
  <2>3. Extends(At(i - 1), chosen[i])
    BY <1>2 DEF StoreCommitted
  <2> QED BY <2>2, <2>3
<1> HIDE DEF a
<1>6. c \in 0..s.commit /\ s.commit \in c..s.commit /\ s.commit \in 0..s.commit
  BY <1>1, <1>3
<1>7. a[c].epoch <= a[s.commit].epoch /\ (a[c].epoch = a[s.commit].epoch => a[c].view = a[s.commit].view)
  BY <1>3, <1>4, <1>5, <1>6, EpochsGrow
<1>8. s.epoch = a[s.commit].epoch /\ s.view = a[s.commit].view /\ a[c] = At(c) /\ a[c].epoch \in Nat
      /\ a[s.commit].epoch \in Nat
  BY <1>2, <1>4, <1>6 DEF StoreCommitted
<1> QED BY <1>1, <1>7, <1>8

\* Nodes at the same epoch serve the same view.
LEMMA RaftViews == RaftCorrect => ViewAgreement
<1> SUFFICES ASSUME RaftCorrect, NEW n \in Nodes, NEW p \in Nodes, st[n].epoch = st[p].epoch
             PROVE  st[n].view = st[p].view
  BY DEF ViewAgreement
<1>1. PICK e \in Elections, l \in Logs : RaftInv(e, l)
  BY DEF RaftCorrect
<1>2. ASSUME NEW x \in Nodes
      PROVE  st[x].commit \in Nat /\ st[x].epoch = At(st[x].commit).epoch /\ st[x].view = At(st[x].commit).view
  BY <1>1 DEF RaftInv, LogInv, CommitInv, StoreCommitted, TypeOK, StoreType, Store
<1>3. CASE st[n].commit <= st[p].commit
  <2>1. st[n].commit \in 0..st[p].commit
    BY <1>2, <1>3
  <2> QED BY <2>1, <1>1, <1>2, PrefixEpochs
<1>4. CASE st[p].commit <= st[n].commit
  <2>1. st[p].commit \in 0..st[n].commit
    BY <1>2, <1>4
  <2> QED BY <2>1, <1>1, <1>2, PrefixEpochs
<1> QED BY <1>2, <1>3, <1>4

\* A store of the group passes the checks of OpenRaftStore.
LEMMA RaftReopens == RaftCorrect => Restartable
<1> SUFFICES ASSUME RaftCorrect, NEW n \in Nodes PROVE ValidState(disk[n])
  BY DEF Restartable
<1>1. PICK e \in Elections, l \in Logs : RaftInv(e, l)
  BY DEF RaftCorrect
<1>2. PICK s : s = st[n]
  OBVIOUS
<1>3. /\ LeaderLogs(e, l) /\ StoreOK(s) /\ LogOK(l, s) /\ StoreCommitted(l, s) /\ disk[n] = s
  BY <1>1, <1>2 DEF RaftInv, LogInv, NodeLogs, CommitInv, TypeOK, StoreType, Together
<1>4. /\ s.commit \in Nat /\ s.snapIndex \in Nat /\ s.snapIndex <= s.commit /\ s.commit <= LastIndex(s)
      /\ LastIndex(s) \in Nat
  BY <1>3, LastRetained DEF StoreOK, Store
<1>5. /\ s.commit \in 0..s.commit /\ s.snapIndex \in 0..s.commit
  BY <1>4
<1>6. /\ s.epoch = At(s.commit).epoch /\ s.view = At(s.commit).view
      /\ s.snapEpoch = At(s.snapIndex).epoch /\ s.snapView = At(s.snapIndex).view
  BY <1>3 DEF StoreCommitted
<1>7. /\ s.epoch >= BootstrapEpoch /\ s.snapEpoch >= BootstrapEpoch
      /\ (s.snapEpoch = BootstrapEpoch) = (s.snapView = NoView)
  <2>1. At(s.commit).epoch >= BootstrapEpoch
    BY <1>3, <1>5, AtCommitted
  <2>2. /\ At(s.snapIndex).epoch >= BootstrapEpoch
        /\ (At(s.snapIndex).epoch = BootstrapEpoch) = (s.snapIndex = 0)
        /\ (At(s.snapIndex).view = NoView) = (s.snapIndex = 0)
    BY <1>3, <1>5, AtCommitted
  <2> QED BY <2>1, <2>2, <1>6
<1>8. s.commit \in Retained(s)
  BY <1>4 DEF Retained
<1>9. (s.snapIndex = 0) = (s.snapTerm = 0)
  <2>1. s.snapTerm = EntryTerm(l, LastTerm(s), s.snapIndex)
    BY <1>3 DEF LogOK
  <2>2. CASE s.snapIndex = 0
    BY <2>1, <2>2 DEF EntryTerm
  <2>3. CASE s.snapIndex # 0
    <3>1. s.snapIndex \in 1..s.commit
      BY <2>3, <1>4
    <3>2. chosen[s.snapIndex].term >= 1 /\ chosen[s.snapIndex] = l.en[LastTerm(s)][s.snapIndex]
      BY <3>1, <1>3, CommittedEntries
    <3> QED BY <3>2, <2>1, <2>3 DEF EntryTerm
  <2> QED BY <2>2, <2>3
<1>10. ASSUME NEW i \in (s.snapIndex + 1)..s.commit PROVE EntryAt(s, i) = At(i)
  <2>1. i \in (s.snapIndex + 1)..LastIndex(s) /\ i \in 1..s.commit /\ i # 0
    BY <1>4
  <2>2. EntryAt(s, i) = chosen[i]
    BY <2>1, <1>3 DEF LogOK, StoreCommitted
  <2> QED BY <2>1, <2>2 DEF At
<1>11. Replays(Boundary(s), s, s.snapIndex + 1, s.commit)
  <2> SUFFICES ASSUME NEW i \in (s.snapIndex + 1)..s.commit
               PROVE  Extends(IF i = s.snapIndex + 1 THEN Boundary(s) ELSE EntryAt(s, i - 1), EntryAt(s, i))
    BY DEF Replays
  <2>1. /\ i \in 1..s.commit /\ i # 0 /\ (i = s.snapIndex + 1 => i - 1 = s.snapIndex)
        /\ (i # s.snapIndex + 1 => i - 1 \in (s.snapIndex + 1)..s.commit)
    BY <1>4
  <2>2. Extends(At(i - 1), EntryAt(s, i))
    BY <2>1, <1>3, <1>10 DEF StoreCommitted, At
  <2>3. CASE i = s.snapIndex + 1
    <3>1. Boundary(s).epoch = At(i - 1).epoch /\ Boundary(s).view = At(i - 1).view
      BY <2>1, <2>3, <1>6 DEF Boundary
    <3> QED BY <3>1, <2>2, <2>3 DEF Extends
  <2>4. CASE i # s.snapIndex + 1
    BY <2>1, <2>2, <2>4, <1>10
  <2> QED BY <2>3, <2>4
<1>12. ASSUME NEW a, a = IF s.commit = s.snapIndex THEN Boundary(s) ELSE EntryAt(s, s.commit)
       PROVE  s.epoch = a.epoch /\ s.view = a.view
  <2>1. CASE s.commit = s.snapIndex
    BY <2>1, <1>6, <1>12 DEF Boundary
  <2>2. CASE s.commit # s.snapIndex
    <3>1. s.commit \in (s.snapIndex + 1)..s.commit
      BY <2>2, <1>4
    <3> QED BY <3>1, <2>2, <1>6, <1>10, <1>12
  <2> QED BY <2>1, <2>2
<1>13. ValidState(s)
  BY <1>7, <1>8, <1>9, <1>11, <1>12 DEF ValidState
<1> QED BY <1>3, <1>13

\* No committed prefix has a later epoch than its store.
EpochsOrdered ==
    \A n \in Nodes : /\ st[n].epoch = At(st[n].commit).epoch /\ st[n].commit \in Nat
                     /\ \A c \in 0..st[n].commit : At(c).epoch <= st[n].epoch

\* The invariant orders epochs.
LEMMA RaftEpochs == RaftCorrect => EpochsOrdered
<1> SUFFICES ASSUME RaftCorrect, NEW n \in Nodes
             PROVE  /\ st[n].epoch = At(st[n].commit).epoch /\ st[n].commit \in Nat
                    /\ \A c \in 0..st[n].commit : At(c).epoch <= st[n].epoch
  BY DEF EpochsOrdered
<1>1. PICK e \in Elections, l \in Logs : RaftInv(e, l)
  BY DEF RaftCorrect
<1>2. st[n].epoch = At(st[n].commit).epoch /\ st[n].commit \in Nat
  BY <1>1 DEF RaftInv, LogInv, CommitInv, StoreCommitted, TypeOK, StoreType, Store
<1> QED BY <1>1, <1>2, PrefixEpochs

\* A step takes no epoch and no commit index back.
LEMMA EpochStep ==
    ASSUME ~StepDownWindow, RaftCorrect, EpochsOrdered, EpochsOrdered', [Next]_vars, NEW n \in Nodes
    PROVE  st'[n].epoch >= st[n].epoch /\ st'[n].commit >= st[n].commit
<1>1. Forward
  BY NextRaft
<1>2. /\ st'[n].commit >= st[n].commit /\ st[n].commit \in Nat /\ st'[n].commit \in Nat
      /\ st[n].epoch = At(st[n].commit).epoch
      /\ \A c \in 0..st'[n].commit : At(c)'.epoch <= st'[n].epoch
  BY <1>1 DEF Forward, EpochsOrdered, At
<1>3. PICK c : c = st[n].commit
  OBVIOUS
<1>4. c \in 0..st'[n].commit /\ (c # 0 => c \in 1..st[n].commit)
  BY <1>2, <1>3
<1>5. At(c)' = At(c)
  BY <1>1, <1>4 DEF At, Forward
<1>6. At(c).epoch <= st'[n].epoch
  BY <1>2, <1>4, <1>5
<1> QED BY <1>2, <1>3, <1>6

\* A committed entry stays on the disks of a majority, through crashes, elections
\* and compaction (raft.go CommitWithVoterAcks, AppendEntries: persist before the
\* acknowledgement).
THEOREM CommitsDurable ==
    ASSUME ~StepDownWindow
    PROVE  Spec => []CommittedDurable
  BY RaftAlwaysCorrect, RaftDurable, PTL

\* The leader of the latest term has every committed entry (raft.go RequestVote).
THEOREM LeadersComplete ==
    ASSUME ~StepDownWindow
    PROVE  Spec => []LeaderCompleteness
  BY RaftAlwaysCorrect, RaftComplete, PTL

\* Nodes at the same epoch serve the same view, by log or by snapshot (raft.go
\* applyThroughLocked, InstallSnapshot).
THEOREM ViewsAgree ==
    ASSUME ~StepDownWindow
    PROVE  Spec => []ViewAgreement
  BY RaftAlwaysCorrect, RaftViews, PTL

\* Whatever a node persisted, OpenRaftStore accepts (raft.go validateLocked).
THEOREM StoresReopen ==
    ASSUME ~StepDownWindow
    PROVE  Spec => []Restartable
  BY RaftAlwaysCorrect, RaftReopens, PTL

\* No append, snapshot or restart takes a node's epoch or commit index back
\* (raft.go InstallSnapshot, AppendEntries, OpenRaftStore).
THEOREM EpochsForward ==
    ASSUME ~StepDownWindow
    PROVE  Spec => EpochNeverRegresses
<1>1. RaftCorrect /\ EpochsOrdered /\ EpochsOrdered' /\ [Next]_vars =>
        [\A n \in Nodes : st'[n].epoch >= st[n].epoch /\ st'[n].commit >= st[n].commit]_vars
  BY EpochStep
<1> QED BY <1>1, RaftAlwaysCorrect, RaftEpochs, PTL DEF Spec, EpochNeverRegresses

=============================================================================
