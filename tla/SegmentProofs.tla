--------------------------- MODULE SegmentProofs ---------------------------
(***************************************************************************)
(* Theorems about Segment, for any keys, records, readers, index types,    *)
(* compaction policy and bounds.                                           *)
(***************************************************************************)
EXTENDS Segment, FiniteSetTheorems, WellFoundedInduction, TLAPS

-----------------------------------------------------------------------------
(* Sets of integers *)

\* A set of naturals has a least element.
LEMMA Least ==
    ASSUME NEW T \in SUBSET Nat, T # {}
    PROVE  \E x \in T : \A y \in T : x <= y
<1> DEFINE R == OpToRel(<, Nat)
<1>1. IsWellFoundedOn(R, Nat)
  BY NatLessThanWellFounded
<1>2. \A x, y \in Nat : y < x => <<y, x>> \in R
  BY DEF OpToRel
<1> HIDE DEF R
<1>3. PICK x \in T : \A y \in T : ~(<<y, x>> \in R)
  BY <1>1, WFMin
<1>4. \A y \in T : x <= y
  <2> TAKE y \in T
  <2>1. ~(y < x)
    BY <1>2, <1>3
  <2> QED BY <2>1
<1> QED BY <1>4

\* A bounded one has a greatest, which Max finds.
LEMMA Greatest ==
    ASSUME NEW n \in Nat, NEW T \in SUBSET (1..n), T # {}
    PROVE  Max(T) \in T /\ \A y \in T : y <= Max(T)
<1> DEFINE D == {n - y : y \in T}
<1>0. \A y \in T : y \in Int /\ 1 <= y /\ y <= n /\ n - y \in Nat
  OBVIOUS
<1>1. D \in SUBSET Nat /\ D # {}
  BY <1>0
<1>2. PICK d \in D : \A e \in D : d <= e
  BY <1>1, Least
<1>3. PICK x \in T : d = n - x
  BY <1>2
<1>4. ASSUME NEW y \in T
      PROVE  x >= y
  <2>1. n - x <= n - y
    BY <1>2, <1>3
  <2> QED BY <1>0, <2>1
<1>5. \E z \in T : \A y \in T : z >= y
  BY <1>4
<1> QED BY <1>5 DEF Max

LEMMA MinIn ==
    ASSUME NEW T \in SUBSET Nat, T # {}
    PROVE  Min(T) \in T
  BY Least DEF Min

LEMMA MaxIs ==
    ASSUME NEW T \in SUBSET Int, NEW x \in T, \A y \in T : y <= x
    PROVE  Max(T) = x
<1>1. \E z \in T : \A y \in T : z >= y
  OBVIOUS
<1>2. Max(T) \in T /\ \A y \in T : Max(T) >= y
  BY <1>1 DEF Max
<1>3. Max(T) \in Int /\ x \in Int /\ Max(T) <= x /\ Max(T) >= x
  BY <1>2
<1> QED BY <1>3

-----------------------------------------------------------------------------
(* Keys in their order *)

\* Positions count from 1 and tell keys apart.
LEMMA Positions ==
    ASSUME NEW K, IsFiniteSet(K), K \subseteq Int
    PROVE  /\ \A k \in K : Position(K, k) \in 1..Cardinality(K)
           /\ \A k, l \in K : Position(K, k) = Position(K, l) => k = l
<1> DEFINE Upto(k) == {x \in K : x <= k}
<1>1. ASSUME NEW k \in K
      PROVE  IsFiniteSet(Upto(k)) /\ Cardinality(Upto(k)) \in Nat
             /\ Cardinality(Upto(k)) <= Cardinality(K) /\ Cardinality(Upto(k)) # 0
  <2>1. IsFiniteSet(Upto(k)) /\ Cardinality(Upto(k)) <= Cardinality(K)
    BY FS_Subset
  <2>2. k \in Upto(k)
    OBVIOUS
  <2> QED BY <2>1, <2>2, FS_CardinalityType, FS_EmptySet
<1>2. ASSUME NEW k \in K, NEW l \in K, k < l
      PROVE  Cardinality(Upto(k)) < Cardinality(Upto(l))
  <2>0. \A x \in K : x \in Int
    OBVIOUS
  <2>1. Upto(k) \subseteq Upto(l) /\ l \in Upto(l) /\ l \notin Upto(k)
    <3>1. k \in Int /\ l \in Int /\ \A x \in K : x <= k => x <= l
      BY <1>2, <2>0
    <3>2. l <= l /\ ~(l <= k)
      BY <1>2, <3>1
    <3> QED BY <3>1, <3>2
  <2>2. Upto(k) # Upto(l)
    BY <2>1
  <2> HIDE DEF Upto
  <2> QED BY <1>1, <2>1, <2>2, FS_Subset
<1>3. \A k \in K : Position(K, k) = Cardinality(Upto(k))
  BY DEF Position
<1>4. Cardinality(K) \in Nat
  BY FS_CardinalityType
<1> HIDE DEF Upto
<1>5. \A k \in K : Position(K, k) \in 1..Cardinality(K)
  BY <1>1, <1>3, <1>4
<1>6. ASSUME NEW k \in K, NEW l \in K, Position(K, k) = Position(K, l)
      PROVE  k = l
  <2>1. ~(k < l) /\ ~(l < k)
    BY <1>1, <1>2, <1>3, <1>6
  <2> QED BY <2>1
<1> QED BY <1>5, <1>6

-----------------------------------------------------------------------------
(* A segment's records *)

\* Every key has an ordinal of its own with a record, below the next ordinal.
SegmentOK(s) ==
    /\ s = [ordinals |-> s.ordinals, records |-> s.records, nextID |-> s.nextID,
            index |-> s.index, meta |-> s.meta, lexical |-> s.lexical, named |-> s.named]
    /\ DOMAIN s.ordinals \subseteq Keys
    /\ s.nextID \in Nat
    /\ \A k \in DOMAIN s.ordinals :
         s.ordinals[k] \in Nat /\ s.ordinals[k] < s.nextID /\ s.ordinals[k] \in DOMAIN s.records
    /\ \A k, l \in DOMAIN s.ordinals : s.ordinals[k] = s.ordinals[l] => k = l

\* segment.New
LEMMA NewSegmentOK ==
    ASSUME NEW cfg
    PROVE  SegmentOK(NewSegment(cfg)) /\ DOMAIN NewSegment(cfg).ordinals = {}
  BY DEF SegmentOK, NewSegment

\* Segment.Upsert changes what is read under its key, and nothing else.
LEMMA UpsertOK ==
    ASSUME NEW s, SegmentOK(s), NEW key \in Keys, NEW record
    PROVE  LET t == SegmentUpsert(s, key, record) IN
           /\ SegmentOK(t)
           /\ DOMAIN t.ordinals = DOMAIN s.ordinals \cup {key}
           /\ \A k : SegmentGet(t, k) = IF k = key THEN record ELSE SegmentGet(s, k)
<1> DEFINE t == SegmentUpsert(s, key, record)
           n == IF key \in DOMAIN s.ordinals THEN s.ordinals[key] ELSE s.nextID
<1>1. /\ t = [ordinals |-> t.ordinals, records |-> t.records, nextID |-> t.nextID,
              index |-> t.index, meta |-> t.meta, lexical |-> t.lexical, named |-> t.named]
      /\ t.ordinals = Put(s.ordinals, key, n)
      /\ t.records = Put(s.records, n, record)
      /\ t.nextID = IF key \in DOMAIN s.ordinals THEN s.nextID ELSE s.nextID + 1
  BY DEF SegmentUpsert
<1>2. /\ DOMAIN t.ordinals = DOMAIN s.ordinals \cup {key}
      /\ \A k \in DOMAIN t.ordinals : t.ordinals[k] = IF k = key THEN n ELSE s.ordinals[k]
      /\ DOMAIN t.records = DOMAIN s.records \cup {n}
      /\ \A x \in DOMAIN t.records : t.records[x] = IF x = n THEN record ELSE s.records[x]
  BY <1>1 DEF Put
<1>3. /\ n \in Nat /\ n < t.nextID /\ t.nextID \in Nat /\ s.nextID <= t.nextID
      /\ \A k \in DOMAIN s.ordinals : k # key => s.ordinals[k] # n
  BY <1>1 DEF SegmentOK
<1> HIDE DEF t, n
<1>4. ASSUME NEW k \in DOMAIN t.ordinals
      PROVE  t.ordinals[k] \in Nat /\ t.ordinals[k] < t.nextID /\ t.ordinals[k] \in DOMAIN t.records
  BY <1>2, <1>3 DEF SegmentOK
<1>5. ASSUME NEW k \in DOMAIN t.ordinals, NEW l \in DOMAIN t.ordinals,
             t.ordinals[k] = t.ordinals[l]
      PROVE  k = l
  BY <1>2, <1>3, <1>5 DEF SegmentOK
<1>6. SegmentOK(t)
  BY <1>1, <1>2, <1>3, <1>4, <1>5 DEF SegmentOK
<1>7. ASSUME NEW k
      PROVE  SegmentGet(t, k) = IF k = key THEN record ELSE SegmentGet(s, k)
  BY <1>2, <1>3 DEF SegmentGet, Has, SegmentOK
<1> QED BY <1>2, <1>6, <1>7 DEF t

\* Segment.Delete, likewise.
LEMMA DeleteOK ==
    ASSUME NEW s, SegmentOK(s), NEW key \in DOMAIN s.ordinals
    PROVE  LET t == SegmentDelete(s, key) IN
           /\ SegmentOK(t)
           /\ DOMAIN t.ordinals = DOMAIN s.ordinals \ {key}
           /\ \A k \in Keys \ {key} : SegmentGet(t, k) = SegmentGet(s, k)
<1> DEFINE t == SegmentDelete(s, key)
           n == s.ordinals[key]
<1>1. /\ t = [ordinals |-> t.ordinals, records |-> t.records, nextID |-> t.nextID,
              index |-> t.index, meta |-> t.meta, lexical |-> t.lexical, named |-> t.named]
      /\ t.ordinals = Drop(s.ordinals, key)
      /\ t.records = Drop(s.records, n)
      /\ t.nextID = s.nextID
  BY DEF SegmentDelete
<1>2. /\ DOMAIN t.ordinals = DOMAIN s.ordinals \ {key}
      /\ \A k \in DOMAIN t.ordinals : t.ordinals[k] = s.ordinals[k]
      /\ DOMAIN t.records = DOMAIN s.records \ {n}
      /\ \A x \in DOMAIN t.records : t.records[x] = s.records[x]
  BY <1>1 DEF Drop
<1>3. \A k \in DOMAIN t.ordinals : t.ordinals[k] # n
  BY <1>2 DEF SegmentOK
<1> HIDE DEF t, n
<1>4. SegmentOK(t)
  BY <1>1, <1>2, <1>3 DEF SegmentOK
<1>5. \A k \in Keys \ {key} : SegmentGet(t, k) = SegmentGet(s, k)
  BY <1>2, <1>3, <1>4 DEF SegmentGet, Has, SegmentOK
<1> QED BY <1>2, <1>4, <1>5 DEF t

\* The base segment of a checkpoint has exactly the records it was built from.
LEMMA BuildOK ==
    ASSUME NEW recs, NEW meta, DOMAIN recs \subseteq Keys
    PROVE  LET t == BuildBase(recs, meta) IN
           /\ SegmentOK(t)
           /\ DOMAIN t.ordinals = DOMAIN recs
           /\ \A k \in DOMAIN recs : SegmentGet(t, k) = recs[k]
<1> DEFINE t == BuildBase(recs, meta)
           K == DOMAIN recs
           c == Cardinality(K)
           keys == InKeyOrder(K)
<1>1. IsFiniteSet(K) /\ K \subseteq Int
  BY KeysAssumption, FS_Subset
<1>2. c \in Nat
  BY <1>1, FS_CardinalityType
<1>3. /\ \A k \in K : Position(K, k) \in 1..c
      /\ \A k, l \in K : Position(K, k) = Position(K, l) => k = l
  BY <1>1, Positions
<1>4. DOMAIN keys = 1..c /\ \A k \in K : keys[Position(K, k)] = k
  BY <1>3 DEF InKeyOrder
<1>5. Len(keys) = c
  BY <1>2, <1>4 DEF InKeyOrder
<1>6. /\ t = [ordinals |-> t.ordinals, records |-> t.records, nextID |-> t.nextID,
              index |-> t.index, meta |-> t.meta, lexical |-> t.lexical, named |-> t.named]
      /\ t.ordinals = [k \in K |-> Position(K, k)]
      /\ t.records = [i \in DOMAIN keys |-> recs[keys[i]]]
      /\ t.nextID = Len(keys) + 1
  BY DEF BuildBase
<1> HIDE DEF t, keys, c
<1>7. SegmentOK(t)
  <2>1. \A k \in K : t.ordinals[k] \in Nat /\ t.ordinals[k] < t.nextID
                     /\ t.ordinals[k] \in DOMAIN t.records
    BY <1>2, <1>3, <1>4, <1>5, <1>6
  <2>2. \A k, l \in K : t.ordinals[k] = t.ordinals[l] => k = l
    BY <1>3, <1>6
  <2>3. DOMAIN t.ordinals = K /\ t.nextID \in Nat
    BY <1>2, <1>5, <1>6
  <2> QED BY <1>6, <2>1, <2>2, <2>3 DEF SegmentOK
<1>8. \A k \in K : SegmentGet(t, k) = recs[k]
  BY <1>3, <1>4, <1>6 DEF SegmentGet, Has
<1> QED BY <1>6, <1>7, <1>8 DEF t

-----------------------------------------------------------------------------
(* Segment files *)

\* The keys a list of segments mentions.
Mentioned(inputs) == UNION {Mentions(inputs[i]) : i \in DOMAIN inputs}

\* What a list of segments resolves to, key by key.
LEMMA Resolved ==
    ASSUME NEW S, NEW rs \in Seq(S)
    PROVE  LET m == materializeSegments(rs) IN
           /\ m = [recs |-> m.recs, dead |-> m.dead]
           /\ m.dead = {k \in Mentioned(rs) : k \in LastDecides(rs, k).dead}
           /\ m.recs = [k \in Mentioned(rs) \ m.dead |-> LastDecides(rs, k).recs[k]]
           /\ DOMAIN m.recs \cup m.dead = Mentioned(rs)
  BY DEF materializeSegments, Mentioned

\* The segment that decides a key is the last that mentions it.
LEMMA Decides ==
    ASSUME NEW S, NEW rs \in Seq(S), NEW k,
           NEW p \in 1..Len(rs), k \in Mentions(rs[p]),
           \A q \in 1..Len(rs) : q > p => k \notin Mentions(rs[q])
    PROVE  k \in Mentioned(rs) /\ LastDecides(rs, k) = rs[p]
<1>1. DOMAIN rs = 1..Len(rs) /\ Len(rs) \in Nat
  OBVIOUS
<1>2. k \in Mentioned(rs)
  BY <1>1 DEF Mentioned
<1> DEFINE T == Mentioning(rs, k)
<1>3. T \in SUBSET Int /\ p \in T
  BY <1>1 DEF Mentioning
<1>4. \A q \in T : q <= p
  BY <1>1 DEF Mentioning
<1> HIDE DEF T
<1>5. Max(T) = p
  BY <1>3, <1>4, MaxIs
<1> QED BY <1>2, <1>5 DEF LastDecides, T

LEMMA SomeDecides ==
    ASSUME NEW S, NEW rs \in Seq(S), NEW k, k \in Mentioned(rs)
    PROVE  \E p \in 1..Len(rs) : /\ k \in Mentions(rs[p])
                                 /\ \A q \in 1..Len(rs) : q > p => k \notin Mentions(rs[q])
<1>1. DOMAIN rs = 1..Len(rs) /\ Len(rs) \in Nat
  OBVIOUS
<1> DEFINE T == Mentioning(rs, k)
<1>2. T \in SUBSET (1..Len(rs)) /\ T # {}
  BY <1>1 DEF Mentioning, Mentioned
<1>3. Max(T) \in T /\ \A q \in T : q <= Max(T)
  BY <1>1, <1>2, Greatest
<1>4. Max(T) \in 1..Len(rs)
  BY <1>2, <1>3
<1>5. k \in Mentions(rs[Max(T)])
  BY <1>3 DEF Mentioning
<1>6. ASSUME NEW q \in 1..Len(rs), q > Max(T)
      PROVE  k \notin Mentions(rs[q])
  <2>1. q \notin T
    BY <1>3, <1>4, <1>6
  <2> QED BY <1>1, <2>1 DEF Mentioning
<1> QED BY <1>4, <1>5, <1>6

\* Two lists that decide every key alike resolve to the same records.
LEMMA SameResolution ==
    ASSUME NEW S, NEW rs \in Seq(S), NEW ns \in Seq(S), Mentioned(rs) = Mentioned(ns),
           \A k \in Mentioned(rs) :
             /\ k \in LastDecides(ns, k).dead <=> k \in LastDecides(rs, k).dead
             /\ k \notin LastDecides(rs, k).dead =>
                  LastDecides(ns, k).recs[k] = LastDecides(rs, k).recs[k]
    PROVE  materializeSegments(ns).recs = materializeSegments(rs).recs
<1> DEFINE a == materializeSegments(ns)
           b == materializeSegments(rs)
<1>1. /\ a.dead = {k \in Mentioned(ns) : k \in LastDecides(ns, k).dead}
      /\ a.recs = [k \in Mentioned(ns) \ a.dead |-> LastDecides(ns, k).recs[k]]
      /\ b.dead = {k \in Mentioned(rs) : k \in LastDecides(rs, k).dead}
      /\ b.recs = [k \in Mentioned(rs) \ b.dead |-> LastDecides(rs, k).recs[k]]
  BY Resolved
<1> HIDE DEF a, b
<1>2. a.dead = b.dead
  BY <1>1
<1>3. \A k \in Mentioned(rs) \ b.dead : LastDecides(ns, k).recs[k] = LastDecides(rs, k).recs[k]
  BY <1>1
<1>4. a.recs = b.recs
  BY <1>1, <1>2, <1>3
<1> QED BY <1>4 DEF a, b

LEMMA Concatenated ==
    ASSUME NEW S, NEW c \in Seq(S), NEW b \in Seq(S)
    PROVE  /\ c \o b \in Seq(S) /\ Len(c \o b) = Len(c) + Len(b)
           /\ \A p \in 1..Len(c) : (c \o b)[p] = c[p]
           /\ \A p \in (Len(c) + 1)..(Len(c) + Len(b)) : (c \o b)[p] = b[p - Len(c)]
  OBVIOUS

\* A list in which one segment takes the place of a run of them: what is before
\* and after stays in place.
Spliced(rs, i, j, e) == SubSeq(rs, 1, i - 1) \o <<e>> \o SubSeq(rs, j + 1, Len(rs))
IsSpliced(ns, S, rs, i, j, e) ==
    /\ ns \in Seq(S) /\ Len(ns) = Len(rs) - (j - i) /\ ns[i] = e
    /\ \A p \in 1..(i - 1) : ns[p] = rs[p]
    /\ \A p \in (j + 1)..Len(rs) : ns[p - (j - i)] = rs[p]

LEMMA MergedList ==
    ASSUME NEW S, NEW rs \in Seq(S), NEW i \in 1..Len(rs), NEW j \in i..Len(rs), NEW e \in S
    PROVE  IsSpliced(Spliced(rs, i, j, e), S, rs, i, j, e)
<1> DEFINE a == SubSeq(rs, 1, i - 1)
           b == SubSeq(rs, j + 1, Len(rs))
           c == a \o <<e>>
           ns == c \o b
<1>1. a \in Seq(S) /\ Len(a) = i - 1 /\ \A p \in 1..(i - 1) : a[p] = rs[p]
  OBVIOUS
<1>2. b \in Seq(S) /\ Len(b) = Len(rs) - j /\ \A p \in 1..(Len(rs) - j) : b[p] = rs[p + j]
  OBVIOUS
<1> HIDE DEF a, b
<1>3. c \in Seq(S) /\ Len(c) = i /\ c[i] = e /\ \A p \in 1..(i - 1) : c[p] = rs[p]
  BY <1>1
<1> HIDE DEF c
<1>4. /\ ns \in Seq(S) /\ Len(ns) = Len(rs) - (j - i)
      /\ \A p \in 1..i : ns[p] = c[p]
      /\ \A p \in (i + 1)..Len(ns) : ns[p] = b[p - i]
  <2>1. c \in Seq(S) /\ b \in Seq(S)
    BY <1>2, <1>3
  <2>2. /\ ns \in Seq(S) /\ Len(ns) = Len(c) + Len(b)
        /\ \A p \in 1..Len(c) : ns[p] = c[p]
        /\ \A p \in (Len(c) + 1)..(Len(c) + Len(b)) : ns[p] = b[p - Len(c)]
    BY <2>1, Concatenated, Zenon
  <2>3. Len(c) = i /\ Len(b) = Len(rs) - j
    BY <1>2, <1>3
  <2>4. i + (Len(rs) - j) = Len(rs) - (j - i)
    OBVIOUS
  <2> HIDE DEF ns
  <2> QED BY <2>2, <2>3, <2>4
<1> HIDE DEF ns
<1>5. ns[i] = e /\ \A p \in 1..(i - 1) : ns[p] = rs[p]
  BY <1>3, <1>4
<1>6. ASSUME NEW p \in (j + 1)..Len(rs)
      PROVE  ns[p - (j - i)] = rs[p]
  <2>1. p - (j - i) \in (i + 1)..Len(ns) /\ p - (j - i) - i = p - j /\ p - j \in 1..(Len(rs) - j)
    BY <1>4
  <2>2. ns[p - (j - i)] = b[p - j]
    BY <1>4, <2>1
  <2>3. b[p - j] = rs[(p - j) + j]
    BY <1>2, <2>1
  <2> QED BY <2>2, <2>3
<1>7. ns \in Seq(S) /\ Len(ns) = Len(rs) - (j - i)
  BY <1>4
<1>8. ns = Spliced(rs, i, j, e)
  BY DEF ns, c, a, b, Spliced
<1> QED BY <1>5, <1>6, <1>7, <1>8 DEF IsSpliced

\* A part of a list.
LEMMA PartOf ==
    ASSUME NEW S, NEW rs \in Seq(S), NEW i \in 1..Len(rs), NEW j \in i..Len(rs)
    PROVE  /\ SubSeq(rs, i, j) \in Seq(S) /\ Len(SubSeq(rs, i, j)) = j - i + 1
           /\ \A q \in 1..(j - i + 1) : SubSeq(rs, i, j)[q] = rs[i + q - 1]
  OBVIOUS

\* compactSegmentRefs: a merged run decides as the run did.
LEMMA MergeResolves ==
    ASSUME NEW S, NEW rs \in Seq(S), NEW i \in 1..Len(rs), NEW j \in i..Len(rs), NEW e \in S,
           e.recs = materializeSegments(SubSeq(rs, i, j)).recs,
           e.dead = materializeSegments(SubSeq(rs, i, j)).dead
    PROVE  materializeSegments(Spliced(rs, i, j, e)).recs = materializeSegments(rs).recs
<1> DEFINE ns == Spliced(rs, i, j, e)
           sub == SubSeq(rs, i, j)
           d == j - i
<1>1. /\ ns \in Seq(S) /\ Len(ns) = Len(rs) - d /\ ns[i] = e
      /\ \A p \in 1..(i - 1) : ns[p] = rs[p]
      /\ \A p \in (j + 1)..Len(rs) : ns[p - d] = rs[p]
  <2>1. IsSpliced(ns, S, rs, i, j, e)
    BY MergedList
  <2> QED BY <2>1 DEF IsSpliced
<1>2. sub \in Seq(S) /\ Len(sub) = d + 1 /\ \A q \in 1..(d + 1) : sub[q] = rs[i + q - 1]
  BY PartOf
<1>3. /\ e.dead = {k \in Mentioned(sub) : k \in LastDecides(sub, k).dead}
      /\ e.recs = [k \in Mentioned(sub) \ e.dead |-> LastDecides(sub, k).recs[k]]
      /\ Mentions(e) = Mentioned(sub)
  BY <1>2, Resolved DEF Mentions
<1> HIDE DEF ns, sub
<1>4. i \in Int /\ j \in Int /\ i <= j /\ 1 <= i /\ j <= Len(rs) /\ Len(rs) \in Nat
      /\ DOMAIN rs = 1..Len(rs) /\ DOMAIN ns = 1..Len(ns) /\ DOMAIN sub = 1..Len(sub)
  BY <1>1, <1>2
<1>5. ASSUME NEW k
      PROVE  k \in Mentions(e) <=> \E p \in i..j : k \in Mentions(rs[p])
  <2>1. ASSUME NEW p \in i..j, k \in Mentions(rs[p])
        PROVE  k \in Mentioned(sub)
    <3>1. p - i + 1 \in 1..(d + 1) /\ i + (p - i + 1) - 1 = p
      BY <1>4
    <3> QED BY <1>2, <1>4, <2>1, <3>1 DEF Mentioned
  <2>2. ASSUME k \in Mentioned(sub)
        PROVE  \E p \in i..j : k \in Mentions(rs[p])
    <3>1. PICK q \in 1..(d + 1) : k \in Mentions(sub[q])
      BY <1>2, <1>4, <2>2 DEF Mentioned
    <3>2. i + q - 1 \in i..j
      BY <1>4
    <3> QED BY <1>2, <3>1, <3>2
  <2> QED BY <1>3, <2>1, <2>2
<1>6. ASSUME NEW q \in (i + 1)..Len(ns)
      PROVE  q + d \in (j + 1)..Len(rs) /\ ns[q] = rs[q + d]
  <2>1. q + d \in (j + 1)..Len(rs) /\ (q + d) - d = q
    BY <1>1, <1>4
  <2> QED BY <1>1, <2>1
<1>7. ASSUME NEW k \in Mentioned(ns)
      PROVE  k \in Mentioned(rs)
  <2>1. PICK q \in 1..Len(ns) : k \in Mentions(ns[q])
    BY <1>4, <1>7 DEF Mentioned
  <2>2. CASE q < i
    BY <1>1, <1>4, <2>1, <2>2, SMTT(60) DEF Mentioned
  <2>3. CASE q = i
    <3>1. PICK p \in i..j : k \in Mentions(rs[p])
      BY <1>1, <1>5, <2>1, <2>3
    <3> QED BY <1>4, <3>1 DEF Mentioned
  <2>4. CASE q > i
    <3>1. q \in (i + 1)..Len(ns)
      BY <1>4, <2>4
    <3>2. q + d \in 1..Len(rs) /\ k \in Mentions(rs[q + d])
      BY <1>4, <1>6, <2>1, <3>1
    <3> QED BY <1>4, <3>2 DEF Mentioned
  <2> QED BY <1>4, <2>2, <2>3, <2>4
<1>8. ASSUME NEW k \in Mentioned(rs)
      PROVE  /\ k \in Mentioned(ns)
             /\ k \in LastDecides(ns, k).dead <=> k \in LastDecides(rs, k).dead
             /\ k \notin LastDecides(rs, k).dead =>
                  LastDecides(ns, k).recs[k] = LastDecides(rs, k).recs[k]
  <2>1. PICK p \in 1..Len(rs) : /\ k \in Mentions(rs[p])
                                /\ \A q \in 1..Len(rs) : q > p => k \notin Mentions(rs[q])
    BY <1>8, SomeDecides
  <2>2. LastDecides(rs, k) = rs[p]
    BY <2>1, Decides
  <2>3. CASE p < i
    <3>1. p \in 1..Len(ns) /\ ns[p] = rs[p]
      BY <1>1, <1>4, <2>3
    <3>2. ASSUME NEW q \in 1..Len(ns), q > p
          PROVE  k \notin Mentions(ns[q])
      <4>1. CASE q < i
        BY <1>1, <1>4, <2>1, <3>2, <4>1
      <4>2. CASE q = i
        BY <1>1, <1>4, <1>5, <2>1, <2>3, <4>2, SMTT(60)
      <4>3. CASE q > i
        <5>1. q \in (i + 1)..Len(ns)
          BY <1>4, <4>3
        <5>2. q + d \in 1..Len(rs) /\ q + d > p /\ ns[q] = rs[q + d]
          BY <1>4, <1>6, <2>3, <5>1
        <5> QED BY <2>1, <5>2
      <4> QED BY <1>4, <4>1, <4>2, <4>3
    <3>3. k \in Mentioned(ns) /\ LastDecides(ns, k) = ns[p]
      <4>1. k \in Mentions(ns[p])
        BY <2>1, <3>1
      <4> QED BY <1>1, <3>1, <3>2, <4>1, Decides, ZenonT(60)
    <3> QED BY <2>2, <3>1, <3>3
  <2>4. CASE p \in i..j
    <3>1. i \in 1..Len(ns) /\ k \in Mentions(ns[i])
      BY <1>1, <1>4, <1>5, <2>1, <2>4
    <3>2. ASSUME NEW q \in 1..Len(ns), q > i
          PROVE  k \notin Mentions(ns[q])
      <4>1. q \in (i + 1)..Len(ns)
        BY <1>4, <3>2
      <4>2. q + d \in 1..Len(rs) /\ q + d > p /\ ns[q] = rs[q + d]
        BY <1>4, <1>6, <2>4, <4>1
      <4> QED BY <2>1, <4>2
    <3>3. k \in Mentioned(ns) /\ LastDecides(ns, k) = e
      BY <1>1, <3>1, <3>2, Decides, ZenonT(60)
    <3>4. p - i + 1 \in 1..Len(sub) /\ sub[p - i + 1] = rs[p]
      <4>1. p - i + 1 \in 1..(d + 1) /\ i + (p - i + 1) - 1 = p
        BY <1>4, <2>4
      <4> QED BY <1>2, <4>1
    <3>5. ASSUME NEW q \in 1..Len(sub), q > p - i + 1
          PROVE  k \notin Mentions(sub[q])
      <4>1. i + q - 1 \in 1..Len(rs) /\ i + q - 1 > p
        BY <1>2, <1>4, <2>4, <3>5
      <4>2. sub[q] = rs[i + q - 1]
        BY <1>2
      <4> QED BY <2>1, <4>1, <4>2
    <3>6. k \in Mentioned(sub) /\ LastDecides(sub, k) = rs[p]
      <4> DEFINE r == p - i + 1
      <4>1. r \in 1..Len(sub) /\ k \in Mentions(sub[r]) /\ sub[r] = rs[p]
            /\ \A q \in 1..Len(sub) : q > r => k \notin Mentions(sub[q])
        BY <2>1, <3>4, <3>5
      <4> HIDE DEF r
      <4> QED BY <1>2, <4>1, Decides
    <3> QED BY <1>3, <2>2, <3>3, <3>6
  <2>5. CASE p > j
    <3> DEFINE r == p - d
    <3>1. r \in 1..Len(ns) /\ ns[r] = rs[p] /\ r > i
      <4>1. p \in (j + 1)..Len(rs)
        BY <1>4, <2>5
      <4> QED BY <1>1, <1>4, <4>1
    <3>2. ASSUME NEW q \in 1..Len(ns), q > r
          PROVE  k \notin Mentions(ns[q])
      <4>1. q \in (i + 1)..Len(ns)
        BY <1>4, <3>1, <3>2
      <4>2. q + d \in 1..Len(rs) /\ q + d > p /\ ns[q] = rs[q + d]
        BY <1>4, <1>6, <3>2, <4>1
      <4> QED BY <2>1, <4>2
    <3> HIDE DEF r
    <3>3. k \in Mentions(ns[r])
      BY <2>1, <3>1
    <3>4. k \in Mentioned(ns) /\ LastDecides(ns, k) = ns[r]
      <4>1. ns \in Seq(S) /\ r \in 1..Len(ns)
        BY <1>1, <3>1
      <4> QED BY <3>2, <3>3, <4>1, Decides
    <3> QED BY <2>2, <3>1, <3>4
  <2> QED BY <1>4, <2>3, <2>4, <2>5
<1>9. Mentioned(rs) = Mentioned(ns)
  BY <1>7, <1>8
<1>10. materializeSegments(ns).recs = materializeSegments(rs).recs
  BY <1>1, <1>8, <1>9, SameResolution
<1> QED BY <1>10 DEF ns

\* A plan of Policy.Select is a run of the list.
LEMMA PlanIsRun ==
    ASSUME NEW S, NEW rs \in Seq(S), Len(Select(rs)) >= 2
    PROVE  Select(rs)[1] \in 1..Len(rs) /\ Select(rs)[2] \in Select(rs)[1]..Len(rs)
<1> DEFINE starts == {s \in DOMAIN rs : Run(rs, s)}
           fitting == {n \in 2..Len(rs) : n <= FanIn /\ Size(SubSeq(rs, 1, n)) <= MaxInput}
<1>1. Select(rs) = CASE starts # {} -> <<Min(starts), Min(starts) + FanIn - 1>>
                     [] starts = {} /\ Len(rs) < MaxSegments -> <<>>
                     [] OTHER -> IF fitting = {} THEN <<0>> ELSE <<1, Max(fitting)>>
  BY DEF Select
<1>2. DOMAIN rs = 1..Len(rs) /\ Len(rs) \in Nat
  OBVIOUS
<1>3. CASE starts # {}
  <2>1. Select(rs) = <<Min(starts), Min(starts) + FanIn - 1>>
    BY <1>1, <1>3
  <2>2. Min(starts) \in starts
    <3>1. starts \in SUBSET Nat
      BY <1>2
    <3> QED BY <1>3, <3>1, MinIn
  <2>3. Min(starts) \in 1..Len(rs) /\ Min(starts) + FanIn - 1 <= Len(rs)
    BY <1>2, <2>2 DEF Run
  <2> HIDE DEF starts
  <2> QED BY <1>2, <2>1, <2>3, PolicyAssumption
<1>4. CASE starts = {} /\ Len(rs) < MaxSegments
  <2>1. Select(rs) = <<>>
    BY <1>1, <1>4
  <2> QED BY <2>1
<1>5. CASE starts = {} /\ ~(Len(rs) < MaxSegments)
  <2>1. Select(rs) = IF fitting = {} THEN <<0>> ELSE <<1, Max(fitting)>>
    BY <1>1, <1>5
  <2>2. fitting # {}
    <3>1. CASE fitting = {}
      <4>1. Select(rs) = <<0>>
        BY <2>1, <3>1
      <4> QED BY <4>1
    <3> QED BY <3>1
  <2>3. fitting \in SUBSET (1..Len(rs))
    BY <1>2
  <2>4. Max(fitting) \in fitting
    BY <1>2, <2>2, <2>3, Greatest
  <2>5. Max(fitting) \in 1..Len(rs)
    BY <2>3, <2>4
  <2>6. Select(rs) = <<1, Max(fitting)>>
    BY <2>1, <2>2
  <2> HIDE DEF fitting
  <2> QED BY <1>2, <2>5, <2>6
<1> QED BY <1>3, <1>4, <1>5

\* Compaction changes no record.
LEMMA CompactionResolves ==
    ASSUME NEW S, NEW rs \in Seq(S)
    PROVE  /\ \E Z : compactSegmentRefs(rs) \in Seq(Z)
           /\ materializeSegments(compactSegmentRefs(rs)).recs = materializeSegments(rs).recs
<1> DEFINE plan == Select(rs)
           i == plan[1]
           j == plan[2]
           m == materializeSegments(SubSeq(rs, i, j))
           e == Ref(m.recs, m.dead, rs[j].lsn)
<1>1. CASE Len(plan) < 2
  <2>1. compactSegmentRefs(rs) = rs
    BY <1>1 DEF compactSegmentRefs
  <2> QED BY <2>1
<1>2. CASE ~(Len(plan) < 2)
  <2>1. compactSegmentRefs(rs) = Spliced(rs, i, j, e)
    BY <1>2 DEF compactSegmentRefs, Spliced
  <2>2. Len(plan) \in Nat
    BY DEF Select
  <2>3. i \in 1..Len(rs) /\ j \in i..Len(rs)
    <3>1. Len(Select(rs)) >= 2
      BY <1>2, <2>2
    <3> QED BY <3>1, PlanIsRun
  <2>4. e.recs = m.recs /\ e.dead = m.dead
    BY DEF Ref
  <2> HIDE DEF plan, i, j, e
  <2> DEFINE Z == S \cup {e}
  <2>5. rs \in Seq(Z) /\ e \in Z
    OBVIOUS
  <2> HIDE DEF Z
  <2>6. materializeSegments(Spliced(rs, i, j, e)).recs = materializeSegments(rs).recs
    BY <2>3, <2>4, <2>5, MergeResolves
  <2>7. Spliced(rs, i, j, e) \in Seq(Z)
    <3>1. IsSpliced(Spliced(rs, i, j, e), Z, rs, i, j, e)
      BY <2>3, <2>5, MergedList
    <3> QED BY <3>1 DEF IsSpliced
  <2> QED BY <2>1, <2>6, <2>7
<1> QED BY <1>1, <1>2

\* A new segment overlays what was there.
LEMMA AppendResolves ==
    ASSUME NEW S, NEW rs \in Seq(S), NEW e \in S
    PROVE  LET m == materializeSegments(rs) IN
           materializeSegments(Append(rs, e)).recs =
             [k \in (DOMAIN m.recs \cup DOMAIN e.recs) \ e.dead |->
                IF k \in DOMAIN e.recs THEN e.recs[k] ELSE m.recs[k]]
<1> DEFINE m == materializeSegments(rs)
           ns == Append(rs, e)
           a == materializeSegments(ns)
           n == Len(rs) + 1
<1>1. /\ ns \in Seq(S) /\ Len(ns) = n /\ ns[n] = e /\ n \in Nat
      /\ \A p \in 1..Len(rs) : ns[p] = rs[p]
      /\ DOMAIN ns = 1..n /\ DOMAIN rs = 1..Len(rs) /\ Len(rs) \in Nat
  OBVIOUS
<1> HIDE DEF ns, n
<1>2. n = Len(rs) + 1
  BY DEF n
<1>3. /\ a.dead = {k \in Mentioned(ns) : k \in LastDecides(ns, k).dead}
      /\ a.recs = [k \in Mentioned(ns) \ a.dead |-> LastDecides(ns, k).recs[k]]
      /\ m.dead = {k \in Mentioned(rs) : k \in LastDecides(rs, k).dead}
      /\ m.recs = [k \in Mentioned(rs) \ m.dead |-> LastDecides(rs, k).recs[k]]
  BY <1>1, Resolved
<1> HIDE DEF a, m
<1>4. ASSUME NEW k, k \in Mentions(e)
      PROVE  k \in Mentioned(ns) /\ LastDecides(ns, k) = e
  <2>1. n \in 1..Len(ns) /\ k \in Mentions(ns[n]) /\ \A q \in 1..Len(ns) : ~(q > n)
    BY <1>1, <1>2, <1>4
  <2>2. k \in Mentioned(ns) /\ LastDecides(ns, k) = ns[n]
    BY <1>1, <2>1, Decides
  <2> QED BY <1>1, <2>2
<1>5. ASSUME NEW k, k \notin Mentions(e), k \in Mentioned(rs)
      PROVE  k \in Mentioned(ns) /\ LastDecides(ns, k) = LastDecides(rs, k)
  <2>1. PICK p \in 1..Len(rs) : /\ k \in Mentions(rs[p])
                                /\ \A q \in 1..Len(rs) : q > p => k \notin Mentions(rs[q])
    BY <1>5, SomeDecides
  <2>2. LastDecides(rs, k) = rs[p]
    BY <2>1, Decides
  <2>3. p \in 1..Len(ns) /\ k \in Mentions(ns[p]) /\ ns[p] = rs[p]
    BY <1>1, <1>2, <2>1
  <2>4. ASSUME NEW q \in 1..Len(ns), q > p
        PROVE  k \notin Mentions(ns[q])
    <3>1. CASE q = n
      BY <1>1, <1>5, <3>1
    <3>2. CASE q # n
      <4>1. q \in 1..Len(rs)
        BY <1>1, <1>2, <3>2
      <4> QED BY <1>1, <2>1, <2>4, <4>1
    <3> QED BY <3>1, <3>2
  <2>5. k \in Mentioned(ns) /\ LastDecides(ns, k) = ns[p]
    BY <1>1, <2>3, <2>4, Decides
  <2> QED BY <2>2, <2>3, <2>5
<1>6. ASSUME NEW k \in Mentioned(ns)
      PROVE  k \in Mentions(e) \/ k \in Mentioned(rs)
  <2>1. PICK q \in 1..n : k \in Mentions(ns[q])
    BY <1>1, <1>6 DEF Mentioned
  <2>2. CASE q = n
    BY <1>1, <2>1, <2>2
  <2>3. CASE q # n
    <3>1. q \in 1..Len(rs)
      BY <1>1, <1>2, <2>3
    <3> QED BY <1>1, <2>1, <3>1 DEF Mentioned
  <2> QED BY <2>2, <2>3
<1>7. DOMAIN a.recs = (DOMAIN m.recs \cup DOMAIN e.recs) \ e.dead
  BY <1>3, <1>4, <1>5, <1>6 DEF Mentions
<1>8. ASSUME NEW k \in DOMAIN a.recs
      PROVE  a.recs[k] = IF k \in DOMAIN e.recs THEN e.recs[k] ELSE m.recs[k]
  <2>1. a.recs[k] = LastDecides(ns, k).recs[k] /\ k \in Mentioned(ns) /\ k \notin e.dead
    BY <1>3, <1>7
  <2>2. CASE k \in DOMAIN e.recs
    BY <1>4, <2>1, <2>2 DEF Mentions
  <2>3. CASE k \notin DOMAIN e.recs
    <3>1. k \notin Mentions(e) /\ k \in DOMAIN m.recs
      BY <1>7, <2>1, <2>3 DEF Mentions
    <3> QED BY <1>3, <1>5, <2>1, <2>3, <3>1
  <2> QED BY <2>2, <2>3
<1>9. a.recs = [k \in DOMAIN a.recs |-> a.recs[k]]
  BY <1>3
<1>10. a.recs = [k \in (DOMAIN m.recs \cup DOMAIN e.recs) \ e.dead |->
                   IF k \in DOMAIN e.recs THEN e.recs[k] ELSE m.recs[k]]
  BY <1>7, <1>8, <1>9
<1> QED BY <1>10 DEF a, m, ns

-----------------------------------------------------------------------------
(* Generations *)

Generation(G) == [seg : G, readers : Nat, retired : BOOLEAN, closed : BOOLEAN]

\* The readers of a generation are counted; it is closed when it is retired and
\* has none; only the base of an open shard is not retired.
LifeInv ==
    /\ \E G : generations \in Seq(Generation(G))
    /\ base \in 0..Len(generations)
    /\ pins \in [Readers -> 0..Len(generations)]
    /\ closed \in BOOLEAN
    /\ PinsSafe
    /\ base # 0 => (generations[base].retired <=> closed)

\* A reader's generation keeps the segment it was pinned with.
SnapshotKept ==
    \A r \in Readers : pins[r] # 0 /\ pins'[r] = pins[r] =>
        generations'[pins[r]].seg = generations[pins[r]].seg

\* The base keeps its segment until it is closed.
BaseKept ==
    base # 0 /\ ~generations'[base].closed =>
        ~generations[base].closed /\ generations'[base].seg = generations[base].seg

LEMMA WiderSeq ==
    ASSUME NEW A, NEW B, A \subseteq B, NEW s \in Seq(A)
    PROVE  s \in Seq(B)
  OBVIOUS

LEMMA Replaced ==
    ASSUME NEW S, NEW s \in Seq(S), NEW i \in 1..Len(s), NEW e \in S
    PROVE  /\ [s EXCEPT ![i] = e] \in Seq(S) /\ Len([s EXCEPT ![i] = e]) = Len(s)
           /\ [s EXCEPT ![i] = e][i] = e
           /\ \A h \in 1..Len(s) : h # i => [s EXCEPT ![i] = e][h] = s[h]
  OBVIOUS

LEMMA CloseIfOK ==
    ASSUME NEW G, NEW gen \in Generation(G), NEW now \in BOOLEAN
    PROVE  /\ CloseIf(gen, now) \in Generation(G \cup {NewSegment(config)})
           /\ CloseIf(gen, now).readers = gen.readers
           /\ CloseIf(gen, now).retired = gen.retired
           /\ CloseIf(gen, now).closed <=> gen.closed \/ now
           /\ now \/ CloseIf(gen, now).seg = gen.seg
<1>1. CASE now
  <2> DEFINE n == NewSegment(config)
             c == [gen EXCEPT !.closed = TRUE, !.seg = n]
  <2> HIDE DEF n
  <2>1. /\ c \in Generation(G \cup {n})
        /\ c.readers = gen.readers /\ c.retired = gen.retired /\ c.closed = TRUE
    BY DEF Generation
  <2>2. CloseIf(gen, now) = c
    BY <1>1 DEF CloseIf, n
  <2> QED BY <1>1, <2>1, <2>2 DEF n
<1>2. CASE ~now
  BY <1>2 DEF CloseIf, Generation
<1> QED BY <1>1, <1>2

\* Retire, which a checkpoint and Close do to the base.
LEMMA RetireOK ==
    ASSUME NEW G, NEW gs \in Seq(Generation(G)), NEW g \in 0..Len(gs)
    PROVE  LET t == Retire(gs, g) IN
           /\ t \in Seq(Generation(G \cup {NewSegment(config)})) /\ Len(t) = Len(gs)
           /\ \A h \in 1..Len(gs) : h # g => t[h] = gs[h]
           /\ g # 0 => /\ t[g].readers = gs[g].readers /\ t[g].retired
                       /\ t[g].closed <=> gs[g].closed \/ gs[g].readers = 0
                       /\ gs[g].readers = 0 \/ t[g].seg = gs[g].seg
<1> DEFINE G2 == G \cup {NewSegment(config)}
<1>1. CASE g = 0
  <2>1. Generation(G) \subseteq Generation(G2)
    BY DEF Generation
  <2>2. gs \in Seq(Generation(G2))
    BY <2>1, WiderSeq
  <2> QED BY <1>1, <2>2 DEF Retire
<1>2. CASE g # 0
  <2>1. g \in 1..Len(gs)
    BY <1>2
  <2> DEFINE gen == [gs[g] EXCEPT !.retired = TRUE]
             now == gs[g].readers = 0
             c == CloseIf(gen, now)
  <2>2. gs[g] \in Generation(G)
    BY <2>1
  <2>3. gen \in Generation(G) /\ gen.readers = gs[g].readers /\ gen.retired
        /\ gen.closed = gs[g].closed /\ gen.seg = gs[g].seg
    BY <2>2 DEF Generation
  <2>4. Retire(gs, g) = [gs EXCEPT ![g] = c]
    BY <1>2 DEF Retire
  <2>5. now \in BOOLEAN
    OBVIOUS
  <2> HIDE DEF gen, now
  <2>10. /\ c \in Generation(G2) /\ c.readers = gen.readers /\ c.retired = gen.retired
         /\ (c.closed <=> gen.closed \/ now)
         /\ now \/ c.seg = gen.seg
    <3>1. gen \in Generation(G) /\ now \in BOOLEAN
      BY <2>3, <2>5
    <3> HIDE DEF c
    <3> QED BY <3>1, CloseIfOK, Zenon DEF c
  <2> HIDE DEF c, G2
  <2>6. Generation(G) \subseteq Generation(G2)
    BY DEF Generation, G2
  <2>7. gs \in Seq(Generation(G2))
    BY <2>6
  <2> DEFINE H == Generation(G2)
             t == [gs EXCEPT ![g] = c]
  <2>8. gs \in Seq(H) /\ c \in H
    BY <2>7, <2>10, Zenon
  <2> HIDE DEF H
  <2>9. /\ t \in Seq(H) /\ Len(t) = Len(gs) /\ t[g] = c
        /\ \A h \in 1..Len(gs) : h # g => t[h] = gs[h]
    BY <2>1, <2>8, Replaced
  <2> HIDE DEF t
  <2>11. t = Retire(gs, g)
    BY <2>4 DEF t
  <2>12. t[g].readers = gs[g].readers /\ t[g].retired
    BY <2>3, <2>9, <2>10, Zenon
  <2>13. t[g].closed <=> gs[g].closed \/ gs[g].readers = 0
    BY <2>3, <2>9, <2>10, Zenon DEF now
  <2>14. gs[g].readers = 0 \/ t[g].seg = gs[g].seg
    BY <2>3, <2>9, <2>10 DEF now
  <2> QED BY <2>9, <2>11, <2>12, <2>13, <2>14 DEF G2, H
<1> QED BY <1>1, <1>2

Pinned(g) == {r \in Readers : pins[r] = g}

LEMMA PinnedFinite ==
    ASSUME NEW g
    PROVE  /\ IsFiniteSet(Pinned(g)) /\ Cardinality(Pinned(g)) \in Nat
           /\ Cardinality(Pinned(g)) = 0 <=> Pinned(g) = {}
<1>1. IsFiniteSet(Pinned(g))
  BY ReadersAssumption, FS_Subset DEF Pinned
<1> QED BY <1>1, FS_CardinalityType, FS_EmptySet

\* What the invariant says of one generation.
GenerationOK(g) ==
    /\ generations[g].readers = Cardinality(Pinned(g))
    /\ generations[g].closed <=> generations[g].retired /\ generations[g].readers = 0
    /\ g # base => generations[g].retired

LEMMA PinsSafePointwise ==
    ASSUME NEW G, generations \in Seq(Generation(G))
    PROVE  PinsSafe <=> \A g \in 1..Len(generations) : GenerationOK(g)
<1>1. DOMAIN generations = 1..Len(generations)
  OBVIOUS
<1> QED BY <1>1, Zenon DEF PinsSafe, GenerationOK, Pinned

LEMMA LifeInit == Init => LifeInv
<1> SUFFICES ASSUME Init PROVE LifeInv
  OBVIOUS
<1>1. generations = <<>> /\ base = 0 /\ closed = FALSE /\ pins = [r \in Readers |-> 0]
  BY DEF Init
<1>2. generations \in Seq(Generation({})) /\ Len(generations) = 0 /\ DOMAIN generations = {}
  BY <1>1
<1>3. PinsSafe
  BY <1>2 DEF PinsSafe
<1>4. pins \in [Readers -> 0..Len(generations)] /\ base \in 0..Len(generations)
  BY <1>1, <1>2
<1>6. closed \in BOOLEAN
  BY <1>1
<1>5. \E G : generations \in Seq(Generation(G))
  BY <1>2, Zenon
<1> QED BY <1>1, <1>3, <1>4, <1>5, <1>6, Zenon DEF LifeInv

LEMMA LifeUnchanged ==
    ASSUME LifeInv, UNCHANGED <<base, generations, pins, closed>>
    PROVE  LifeInv' /\ SnapshotKept /\ BaseKept
<1>1. base' = base /\ generations' = generations /\ pins' = pins /\ closed' = closed
  OBVIOUS
<1>2. PinsSafe'
  <2>1. \A g : {r \in Readers : pins'[r] = g} = {r \in Readers : pins[r] = g}
    BY <1>1
  <2>2. PinsSafe
    BY DEF LifeInv
  <2> QED BY <1>1, <2>1, <2>2 DEF PinsSafe
<1>3. SnapshotKept /\ BaseKept
  BY <1>1 DEF SnapshotKept, BaseKept
<1>4. LifeInv'
  BY <1>1, <1>2 DEF LifeInv
<1> QED BY <1>3, <1>4

\* Retiring the base leaves every generation retired, and every pinned one as it
\* was.
LEMMA RetireBase ==
    ASSUME LifeInv, ~closed
    PROVE  LET t == Retire(generations, base) IN
           /\ \E G : t \in Seq(Generation(G))
           /\ Len(t) = Len(generations)
           /\ \A g \in 1..Len(generations) :
                /\ t[g].readers = Cardinality(Pinned(g))
                /\ t[g].closed <=> t[g].retired /\ t[g].readers = 0
                /\ t[g].retired
           /\ \A r \in Readers : pins[r] # 0 => t[pins[r]].seg = generations[pins[r]].seg
           /\ base # 0 /\ ~t[base].closed =>
                ~generations[base].closed /\ t[base].seg = generations[base].seg
<1> DEFINE t == Retire(generations, base)
           gs == generations
<1>1. PICK G : generations \in Seq(Generation(G))
  BY Zenon DEF LifeInv
<1>2. /\ base \in 0..Len(gs) /\ pins \in [Readers -> 0..Len(gs)]
      /\ \A g \in 1..Len(gs) : GenerationOK(g)
      /\ base # 0 => ~gs[base].retired
  BY <1>1, PinsSafePointwise, Zenon DEF LifeInv
<1> DEFINE G2 == G \cup {NewSegment(config)}
<1>3. /\ t \in Seq(Generation(G2)) /\ Len(t) = Len(gs)
      /\ \A h \in 1..Len(gs) : h # base => t[h] = gs[h]
      /\ base # 0 => /\ t[base].readers = gs[base].readers /\ t[base].retired
                     /\ t[base].closed <=> gs[base].closed \/ gs[base].readers = 0
                     /\ gs[base].readers = 0 \/ t[base].seg = gs[base].seg
  <2>1. gs \in Seq(Generation(G)) /\ base \in 0..Len(gs)
    BY <1>1, <1>2
  <2> QED BY <2>1, RetireOK
<1> HIDE DEF t, G2
<1>4. ASSUME NEW g \in 1..Len(gs)
      PROVE  /\ t[g].readers = Cardinality(Pinned(g))
             /\ t[g].closed <=> t[g].retired /\ t[g].readers = 0
             /\ t[g].retired
  <2>1. GenerationOK(g)
    BY <1>2
  <2>2. CASE g = base
    <3>1. base # 0
      BY <2>2
    <3>2. /\ t[g].readers = gs[g].readers /\ t[g].retired /\ ~gs[g].retired
          /\ t[g].closed <=> gs[g].closed \/ gs[g].readers = 0
      BY <1>2, <1>3, <2>2, <3>1, Zenon
    <3> QED BY <2>1, <3>2, Zenon DEF GenerationOK
  <2>3. CASE g # base
    <3>1. t[g] = gs[g]
      BY <1>3, <2>3
    <3> QED BY <2>1, <2>3, <3>1, Zenon DEF GenerationOK
  <2> QED BY <2>2, <2>3
<1>5. ASSUME NEW r \in Readers, pins[r] # 0
      PROVE  t[pins[r]].seg = gs[pins[r]].seg
  <2>1. pins[r] \in 1..Len(gs)
    BY <1>2, <1>5
  <2>2. CASE pins[r] # base
    BY <1>3, <2>1, <2>2
  <2>3. CASE pins[r] = base
    <3>1. r \in Pinned(base)
      BY <2>3 DEF Pinned
    <3>2. Cardinality(Pinned(base)) # 0
      BY <3>1, PinnedFinite
    <3>3. gs[base].readers # 0
      BY <1>2, <2>1, <2>3, <3>2 DEF GenerationOK
    <3>4. t[base].seg = gs[base].seg
      BY <1>3, <1>5, <2>3, <3>3, Zenon
    <3> QED BY <2>3, <3>4
  <2> QED BY <2>2, <2>3
<1>6. base # 0 /\ ~t[base].closed => ~gs[base].closed /\ t[base].seg = gs[base].seg
  BY <1>3, Zenon
<1>7. \E H : t \in Seq(Generation(H))
  BY <1>3, Zenon
<1> QED BY <1>3, <1>4, <1>5, <1>6, <1>7, Zenon DEF t

LEMMA LifeClose ==
    ASSUME LifeInv, Close
    PROVE  LifeInv' /\ SnapshotKept /\ BaseKept
<1> DEFINE t == Retire(generations, base)
<1>1. ~closed /\ closed' = TRUE /\ generations' = t /\ base' = base /\ pins' = pins
  BY DEF Close
<1>2. /\ \E G : t \in Seq(Generation(G))
      /\ Len(t) = Len(generations)
      /\ \A g \in 1..Len(generations) :
           /\ t[g].readers = Cardinality(Pinned(g))
           /\ t[g].closed <=> t[g].retired /\ t[g].readers = 0
           /\ t[g].retired
      /\ \A r \in Readers : pins[r] # 0 => t[pins[r]].seg = generations[pins[r]].seg
      /\ base # 0 /\ ~t[base].closed =>
           ~generations[base].closed /\ t[base].seg = generations[base].seg
  BY <1>1, RetireBase, Zenon
<1> HIDE DEF t
<1>3. PICK G : generations' \in Seq(Generation(G))
  BY <1>1, <1>2, Zenon
<1>4. /\ base \in 0..Len(generations) /\ pins \in [Readers -> 0..Len(generations)]
      /\ Len(generations') = Len(generations)
  BY <1>1, <1>2, Zenon DEF LifeInv
<1>5. PinsSafe'
  <2>1. DOMAIN generations' = 1..Len(generations)
    BY <1>3, <1>4
  <2>2. \A g : {r \in Readers : pins'[r] = g} = Pinned(g)
    BY <1>1 DEF Pinned
  <2> QED BY <1>1, <1>2, <2>1, <2>2 DEF PinsSafe
<1>6. base # 0 => generations'[base].retired
  <2> SUFFICES ASSUME base # 0 PROVE generations'[base].retired
    OBVIOUS
  <2>1. base \in 1..Len(generations)
    BY <1>4
  <2> QED BY <1>1, <1>2, <2>1, Zenon
<1>7. \E H : generations' \in Seq(Generation(H))
  BY <1>3, Zenon
<1>8. LifeInv'
  BY <1>1, <1>4, <1>5, <1>6, <1>7 DEF LifeInv
<1>9. SnapshotKept /\ BaseKept
  BY <1>1, <1>2 DEF SnapshotKept, BaseKept
<1> QED BY <1>8, <1>9

\* A checkpoint's new generation.
Opened(s) == [seg |-> s, readers |-> 0, retired |-> FALSE, closed |-> FALSE]
Installed(s) ==
    /\ base' = Len(generations) + 1
    /\ generations' = Append(Retire(generations, base), Opened(s))
    /\ active' = NewSegment(config)
    /\ tombstones' = {}

\* The segments before compaction, and the files' content after it.
Delta == [k \in DOMAIN active.ordinals |-> ShardRecords[k]]
Added == IF refs = <<>> \/ DOMAIN Delta # {} \/ tombstones # {}
         THEN Append(refs, Ref(Delta, tombstones, lsn)) ELSE refs

\* Checkpoint, with what the proofs do not look at left out.
LEMMA CheckpointDoes ==
    ASSUME Checkpoint
    PROVE  /\ ~closed /\ UNCHANGED <<config, lsn, pins, closed, truth>>
           /\ refs' = compactSegmentRefs(Added)
           /\ \/ UNCHANGED <<base, generations, active, tombstones>>
              \/ \E m : Installed(BuildBase(ShardRecords, m))
<1>1. ~closed /\ UNCHANGED <<config, lsn, pins, closed, truth>>
  BY DEF Checkpoint
<1>2. refs' = compactSegmentRefs(Added)
  BY Zenon DEF Checkpoint, Added, Delta
<1>3. \/ UNCHANGED <<base, generations, active, tombstones>>
      \/ \E m : Installed(BuildBase(ShardRecords, m))
  BY Zenon DEF Checkpoint, Installed, Opened
<1> QED BY <1>1, <1>2, <1>3

LEMMA LifeInstall ==
    ASSUME LifeInv, ~closed, UNCHANGED <<pins, closed>>, NEW s, Installed(s)
    PROVE  LifeInv' /\ SnapshotKept /\ BaseKept
<1> DEFINE t == Retire(generations, base)
           new == Opened(s)
           n == Len(generations) + 1
<1>1. /\ closed' = closed /\ pins' = pins /\ base' = n /\ generations' = Append(t, new)
  BY DEF Installed
<1>2. /\ \E G : t \in Seq(Generation(G))
      /\ Len(t) = Len(generations)
      /\ \A g \in 1..Len(generations) :
           /\ t[g].readers = Cardinality(Pinned(g))
           /\ t[g].closed <=> t[g].retired /\ t[g].readers = 0
           /\ t[g].retired
      /\ \A r \in Readers : pins[r] # 0 => t[pins[r]].seg = generations[pins[r]].seg
      /\ base # 0 /\ ~t[base].closed =>
           ~generations[base].closed /\ t[base].seg = generations[base].seg
  BY RetireBase, Zenon
<1>3. /\ base \in 0..Len(generations) /\ pins \in [Readers -> 0..Len(generations)]
      /\ Len(generations) \in Nat
  <2>1. PICK G : generations \in Seq(Generation(G))
    BY Zenon DEF LifeInv
  <2>2. Len(generations) \in Nat
    BY <2>1
  <2> QED BY <2>2 DEF LifeInv
<1> HIDE DEF t
<1>4. PICK G : t \in Seq(Generation(G))
  BY <1>2, Zenon
<1> DEFINE G2 == G \cup {s}
<1>5. new \in Generation(G2) /\ new.seg = s /\ new.readers = 0 /\ ~new.retired /\ ~new.closed
  BY DEF Generation, Opened
<1>6. Generation(G) \subseteq Generation(G2)
  BY DEF Generation
<1> HIDE DEF new
<1>7. /\ generations' \in Seq(Generation(G2)) /\ Len(generations') = n
      /\ generations'[n] = new /\ \A g \in 1..Len(generations) : generations'[g] = t[g]
  <2> DEFINE S == Generation(G) H == Generation(G2)
  <2>1. t \in Seq(S) /\ S \subseteq H /\ new \in H
    BY <1>4, <1>5, <1>6
  <2> HIDE DEF S, H
  <2>2. t \in Seq(H)
    BY <2>1, WiderSeq
  <2>3. /\ Append(t, new) \in Seq(H) /\ Len(Append(t, new)) = n
        /\ Append(t, new)[n] = new /\ \A g \in 1..Len(generations) : Append(t, new)[g] = t[g]
    BY <1>2, <2>1, <2>2
  <2> QED BY <1>1, <2>3 DEF H
<1> HIDE DEF G2
<1>8. PinsSafe'
  <2>1. DOMAIN generations' = 1..n
    BY <1>7, <1>3
  <2>2. \A g : {r \in Readers : pins'[r] = g} = Pinned(g)
    BY <1>1 DEF Pinned
  <2>3. Pinned(n) = {}
    BY <1>3 DEF Pinned
  <2>4. Cardinality(Pinned(n)) = 0
    BY <2>3, PinnedFinite
  <2>5. ASSUME NEW g \in 1..n
        PROVE  /\ generations'[g].readers = Cardinality(Pinned(g))
               /\ generations'[g].closed <=> generations'[g].retired /\ generations'[g].readers = 0
               /\ g # base' => generations'[g].retired
    <3>1. CASE g = n
      BY <1>1, <1>5, <1>7, <2>4, <3>1
    <3>2. CASE g # n
      <4>1. g \in 1..Len(generations)
        BY <1>3, <3>2
      <4> QED BY <1>2, <1>7, <4>1
    <3> QED BY <3>1, <3>2
  <2> QED BY <2>1, <2>2, <2>5 DEF PinsSafe
<1>9. \E H : generations' \in Seq(Generation(H))
  BY <1>7, Zenon
<1>10. /\ base' \in 0..Len(generations') /\ pins' \in [Readers -> 0..Len(generations')]
       /\ base' # 0
  <2>1. base' = n /\ Len(generations') = n
    BY <1>1, <1>7
  <2> QED BY <1>1, <1>3, <2>1
<1>11. generations'[base'] = new
  BY <1>1, <1>7
<1>12. closed' \in BOOLEAN
  BY <1>1 DEF LifeInv
<1>13. LifeInv'
  <2>1. ~closed'
    BY <1>1
  <2>2. ~generations'[base'].retired
    BY <1>5, <1>11
  <2> QED BY <1>8, <1>9, <1>10, <1>12, <2>1, <2>2 DEF LifeInv
<1>14. SnapshotKept
  <2>1. ASSUME NEW r \in Readers, pins[r] # 0
        PROVE  generations'[pins[r]].seg = generations[pins[r]].seg
    <3>1. pins[r] \in 1..Len(generations)
      BY <1>3, <2>1
    <3> QED BY <1>2, <1>7, <2>1, <3>1
  <2> QED BY <2>1 DEF SnapshotKept
<1>15. BaseKept
  <2> SUFFICES ASSUME base # 0, ~generations'[base].closed
               PROVE  ~generations[base].closed /\ generations'[base].seg = generations[base].seg
    BY Zenon DEF BaseKept
  <2>1. generations'[base] = t[base]
    BY <1>3, <1>7
  <2> QED BY <1>2, <2>1, Zenon
<1> QED BY <1>13, <1>14, <1>15

LEMMA LifePin ==
    ASSUME LifeInv, NEW r \in Readers, PinSnapshot(r)
    PROVE  LifeInv' /\ SnapshotKept /\ BaseKept
<1> DEFINE gs == generations
           gen == [gs[base] EXCEPT !.readers = @ + 1]
<1>1. /\ pins[r] = 0 /\ ~closed /\ base # 0 /\ closed' = closed /\ base' = base
      /\ pins' = [pins EXCEPT ![r] = base]
      /\ generations' = [gs EXCEPT ![base] = gen]
  BY DEF PinSnapshot
<1>2. PICK G : gs \in Seq(Generation(G))
  BY Zenon DEF LifeInv
<1>3. /\ base \in 1..Len(gs) /\ pins \in [Readers -> 0..Len(gs)] /\ Len(gs) \in Nat
  <2>1. base \in 0..Len(gs) /\ pins \in [Readers -> 0..Len(gs)]
    BY DEF LifeInv
  <2> QED BY <1>1, <1>2, <2>1
<1>4. \A g \in 1..Len(gs) : GenerationOK(g)
  BY <1>2, PinsSafePointwise, Zenon DEF LifeInv
<1>5. ~gs[base].retired
  BY <1>1, Zenon DEF LifeInv
<1>6. gs[base] \in Generation(G)
  BY <1>2, <1>3
<1>7. /\ gen \in Generation(G) /\ gen.seg = gs[base].seg /\ gen.readers = gs[base].readers + 1
      /\ gen.retired = gs[base].retired /\ gen.closed = gs[base].closed
      /\ gs[base].readers \in Nat
  BY <1>6 DEF Generation
<1> HIDE DEF gen
<1>8. /\ generations' \in Seq(Generation(G)) /\ Len(generations') = Len(gs)
      /\ generations'[base] = gen /\ \A h \in 1..Len(gs) : h # base => generations'[h] = gs[h]
  <2> DEFINE S == Generation(G)
  <2>1. gs \in Seq(S) /\ gen \in S
    BY <1>2, <1>7
  <2> HIDE DEF S
  <2>2. LET t == [gs EXCEPT ![base] = gen] IN
        /\ t \in Seq(S) /\ Len(t) = Len(gs)
        /\ t[base] = gen /\ \A h \in 1..Len(gs) : h # base => t[h] = gs[h]
    BY <1>3, <2>1, Replaced
  <2> QED BY <1>1, <2>2 DEF S
<1>9. \A g : g # base => {x \in Readers : pins'[x] = g} = IF g = 0 THEN Pinned(g) \ {r} ELSE Pinned(g)
  BY <1>1, <1>3 DEF Pinned
<1>10. {x \in Readers : pins'[x] = base} = Pinned(base) \cup {r} /\ r \notin Pinned(base)
  BY <1>1, <1>3 DEF Pinned
<1>11. Cardinality(Pinned(base) \cup {r}) = Cardinality(Pinned(base)) + 1
  BY <1>10, PinnedFinite, FS_AddElement
<1>12. PinsSafe'
  <2>1. DOMAIN generations' = 1..Len(gs)
    BY <1>8
  <2>2. ASSUME NEW g \in 1..Len(gs)
        PROVE  /\ generations'[g].readers = Cardinality({x \in Readers : pins'[x] = g})
               /\ generations'[g].closed <=> generations'[g].retired /\ generations'[g].readers = 0
               /\ g # base' => generations'[g].retired
    <3>1. GenerationOK(g)
      BY <1>4
    <3>2. CASE g = base
      <4>1. /\ generations'[g].readers = gs[g].readers + 1 /\ ~generations'[g].retired
            /\ generations'[g].closed = gs[g].closed
        BY <1>5, <1>7, <1>8, <3>2
      <4>2. gs[g].readers = Cardinality(Pinned(base)) /\ ~gs[g].closed
        BY <1>5, <3>1, <3>2, Zenon DEF GenerationOK
      <4>3. generations'[g].readers = Cardinality({x \in Readers : pins'[x] = g})
        BY <1>10, <1>11, <3>2, <4>1, <4>2
      <4> QED BY <1>1, <3>2, <4>1, <4>2, <4>3, Zenon
    <3>3. CASE g # base
      <4>1. generations'[g] = gs[g] /\ {x \in Readers : pins'[x] = g} = Pinned(g)
        BY <1>8, <1>9, <3>3
      <4> QED BY <1>1, <3>1, <4>1, Zenon DEF GenerationOK
    <3> QED BY <3>2, <3>3
  <2> QED BY <2>1, <2>2 DEF PinsSafe
<1>13. \E H : generations' \in Seq(Generation(H))
  BY <1>8, Zenon
<1>14. base' \in 0..Len(generations') /\ pins' \in [Readers -> 0..Len(generations')]
  <2>1. base' = base /\ Len(generations') = Len(gs)
    BY <1>1, <1>8
  <2> QED BY <1>1, <1>3, <2>1
<1>15. ~generations'[base'].retired /\ ~closed' /\ closed' \in BOOLEAN
  BY <1>1, <1>5, <1>7, <1>8 DEF LifeInv
<1>16. LifeInv'
  BY <1>12, <1>13, <1>14, <1>15 DEF LifeInv
<1>17. \A g \in 1..Len(gs) : generations'[g].seg = gs[g].seg
  BY <1>7, <1>8
<1>18. SnapshotKept
  BY <1>3, <1>17 DEF SnapshotKept
<1>19. generations'[base].closed = gs[base].closed
  BY <1>7, <1>8
<1>20. BaseKept
  BY <1>3, <1>17, <1>19 DEF BaseKept
<1> QED BY <1>16, <1>18, <1>20

LEMMA LifeRelease ==
    ASSUME LifeInv, NEW r \in Readers, Release(r)
    PROVE  LifeInv' /\ SnapshotKept /\ BaseKept
<1> DEFINE gs == generations
           p == pins[r]
           less == [gs[p] EXCEPT !.readers = @ - 1]
           now == gs[p].retired /\ gs[p].readers = 1
           gen == CloseIf(less, now)
<1>1. /\ p # 0 /\ closed' = closed /\ base' = base
      /\ pins' = [pins EXCEPT ![r] = 0]
      /\ generations' = [gs EXCEPT ![p] = gen]
  <2>1. p # 0 /\ closed' = closed /\ base' = base /\ pins' = [pins EXCEPT ![r] = 0]
    BY DEF Release
  <2>2. generations' = [gs EXCEPT ![p] = gen]
    BY Zenon DEF Release
  <2> QED BY <2>1, <2>2
<1>2. PICK G : gs \in Seq(Generation(G))
  BY Zenon DEF LifeInv
<1>3. /\ p \in 1..Len(gs) /\ pins \in [Readers -> 0..Len(gs)] /\ Len(gs) \in Nat
      /\ base \in 0..Len(gs)
  <2>1. base \in 0..Len(gs) /\ pins \in [Readers -> 0..Len(gs)]
    BY DEF LifeInv
  <2> QED BY <1>1, <1>2, <2>1
<1>4. \A g \in 1..Len(gs) : GenerationOK(g)
  BY <1>2, PinsSafePointwise, Zenon DEF LifeInv
<1>5. gs[p] \in Generation(G)
  BY <1>2, <1>3
<1>6. r \in Pinned(p) /\ gs[p].readers = Cardinality(Pinned(p))
  BY <1>3, <1>4 DEF Pinned, GenerationOK
<1>7. /\ Cardinality(Pinned(p) \ {r}) = gs[p].readers - 1
      /\ gs[p].readers \in Nat /\ gs[p].readers # 0
  BY <1>6, PinnedFinite, FS_RemoveElement, ZenonT(60)
<1>8. /\ less \in Generation(G) /\ less.seg = gs[p].seg /\ less.readers = gs[p].readers - 1
      /\ less.retired = gs[p].retired /\ less.closed = gs[p].closed
  BY <1>5, <1>7 DEF Generation
<1>9. now \in BOOLEAN
  BY <1>5 DEF Generation
<1> DEFINE G2 == G \cup {NewSegment(config)}
<1>10. /\ gen \in Generation(G2)
       /\ gen.readers = less.readers /\ gen.retired = less.retired
       /\ gen.closed <=> less.closed \/ now
       /\ now \/ gen.seg = less.seg
  <2> HIDE DEF less, now
  <2>1. less \in Generation(G)
    BY <1>8
  <2> QED BY <1>9, <2>1, CloseIfOK, Zenon
<1> HIDE DEF less, gen
<1>11. /\ generations' \in Seq(Generation(G2)) /\ Len(generations') = Len(gs)
       /\ generations'[p] = gen /\ \A h \in 1..Len(gs) : h # p => generations'[h] = gs[h]
  <2>1. Generation(G) \subseteq Generation(G2)
    BY DEF Generation
  <2> DEFINE S == Generation(G) H == Generation(G2)
             t == [gs EXCEPT ![p] = gen]
  <2>2. gs \in Seq(S) /\ gen \in H /\ S \subseteq H
    BY <1>2, <1>10, <2>1, Zenon
  <2> HIDE DEF S, H
  <2>3. gs \in Seq(H)
    BY <2>2, WiderSeq
  <2>4. /\ t \in Seq(H) /\ Len(t) = Len(gs)
        /\ t[p] = gen /\ \A h \in 1..Len(gs) : h # p => t[h] = gs[h]
    BY <1>3, <2>2, <2>3, Replaced
  <2> QED BY <1>1, <2>4 DEF H
<1> HIDE DEF G2
<1>12. \A g : {x \in Readers : pins'[x] = g} =
               IF g = p THEN Pinned(p) \ {r} ELSE IF g = 0 THEN Pinned(0) \cup {r} ELSE Pinned(g)
  BY <1>1, <1>3 DEF Pinned
<1>13. /\ generations'[p].readers = Cardinality(Pinned(p) \ {r})
       /\ generations'[p].closed <=> generations'[p].retired /\ generations'[p].readers = 0
       /\ generations'[p].retired = gs[p].retired
  <2>1. generations'[p].readers = Cardinality(Pinned(p) \ {r})
    BY <1>7, <1>8, <1>10, <1>11
  <2>2. generations'[p].retired = gs[p].retired
    BY <1>8, <1>10, <1>11
  <2>3. generations'[p].readers = 0 <=> gs[p].readers = 1
    BY <1>7, <1>8, <1>10, <1>11
  <2>4. ~gs[p].closed
    BY <1>3, <1>4, <1>7, Zenon DEF GenerationOK
  <2>5. generations'[p].closed <=> now
    BY <1>8, <1>10, <1>11, <2>4
  <2> QED BY <2>1, <2>2, <2>3, <2>5
<1>14. PinsSafe'
  <2>1. DOMAIN generations' = 1..Len(gs)
    BY <1>11
  <2>2. ASSUME NEW g \in 1..Len(gs)
        PROVE  /\ generations'[g].readers = Cardinality({x \in Readers : pins'[x] = g})
               /\ generations'[g].closed <=> generations'[g].retired /\ generations'[g].readers = 0
               /\ g # base' => generations'[g].retired
    <3>1. GenerationOK(g)
      BY <1>4
    <3>2. CASE g = p
      BY <1>1, <1>12, <1>13, <3>1, <3>2 DEF GenerationOK
    <3>3. CASE g # p
      <4>1. generations'[g] = gs[g] /\ {x \in Readers : pins'[x] = g} = Pinned(g)
        BY <1>11, <1>12, <3>3
      <4> QED BY <1>1, <3>1, <4>1, Zenon DEF GenerationOK
    <3> QED BY <3>2, <3>3
  <2> QED BY <2>1, <2>2 DEF PinsSafe
<1>15. \E H : generations' \in Seq(Generation(H))
  BY <1>11, Zenon
<1>16. base' \in 0..Len(generations') /\ pins' \in [Readers -> 0..Len(generations')]
  <2>1. base' = base /\ Len(generations') = Len(gs)
    BY <1>1, <1>11
  <2> QED BY <1>1, <1>3, <2>1
<1>17. closed' \in BOOLEAN /\ (base' # 0 => (generations'[base'].retired <=> closed'))
  <2>1. base # 0 => generations'[base].retired = gs[base].retired
    BY <1>3, <1>11, <1>13
  <2> QED BY <1>1, <2>1 DEF LifeInv
<1>18. LifeInv'
  BY <1>14, <1>15, <1>16, <1>17 DEF LifeInv
<1>19. ASSUME NEW x \in Readers, pins[x] # 0, pins'[x] = pins[x]
       PROVE  generations'[pins[x]].seg = gs[pins[x]].seg
  <2>1. pins[x] \in 1..Len(gs) /\ x # r
    BY <1>1, <1>3, <1>19
  <2>2. CASE pins[x] = p
    <3>1. x \in {y \in Readers : pins'[y] = p}
      BY <1>19, <2>2
    <3>2. x \in Pinned(p) \ {r}
      BY <2>1, <2>2 DEF Pinned
    <3>3. IsFiniteSet(Pinned(p) \ {r})
      BY PinnedFinite, FS_Subset
    <3>4. Cardinality(Pinned(p) \ {r}) # 0
      BY <3>2, <3>3, FS_EmptySet
    <3>5. ~now
      BY <1>7, <3>4
    <3>6. gen.seg = gs[p].seg
      BY <1>8, <1>10, <3>5
    <3> QED BY <1>11, <2>2, <3>6
  <2>3. CASE pins[x] # p
    BY <1>11, <2>1, <2>3
  <2> QED BY <2>2, <2>3
<1>20. SnapshotKept
  BY <1>19 DEF SnapshotKept
<1>21. BaseKept
  <2> SUFFICES ASSUME base # 0, ~generations'[base].closed
               PROVE  ~gs[base].closed /\ generations'[base].seg = gs[base].seg
    BY Zenon DEF BaseKept
  <2>1. CASE base = p
    <3>1. ~gen.closed
      BY <1>11, <2>1
    <3>2. ~less.closed /\ gen.seg = less.seg
      BY <1>10, <3>1, Zenon
    <3> QED BY <1>8, <1>11, <2>1, <3>2
  <2>2. CASE base # p
    BY <1>3, <1>11, <2>2
  <2> QED BY <2>1, <2>2
<1> QED BY <1>18, <1>20, <1>21

LEMMA LifeStep ==
    ASSUME LifeInv, [Next]_vars
    PROVE  LifeInv' /\ SnapshotKept /\ BaseKept
<1>1. ASSUME NEW key \in Keys, NEW record \in RecordValues, Upsert(key, record)
      PROVE  LifeInv' /\ SnapshotKept /\ BaseKept
  BY <1>1, LifeUnchanged DEF Upsert
<1>2. ASSUME NEW key \in Keys, Delete(key)
      PROVE  LifeInv' /\ SnapshotKept /\ BaseKept
  BY <1>2, LifeUnchanged DEF Delete
<1>3. CASE Checkpoint
  <2>1. ~closed /\ UNCHANGED <<pins, closed>>
    BY <1>3, CheckpointDoes
  <2>2. CASE UNCHANGED <<base, generations, active, tombstones>>
    BY <2>1, <2>2, LifeUnchanged
  <2>3. CASE \E m : Installed(BuildBase(ShardRecords, m))
    BY <2>1, <2>3, LifeInstall, Zenon
  <2> QED BY <1>3, <2>2, <2>3, CheckpointDoes, Zenon
<1>4. ASSUME NEW r \in Readers, PinSnapshot(r) \/ Release(r)
      PROVE  LifeInv' /\ SnapshotKept /\ BaseKept
  BY <1>4, LifePin, LifeRelease, Zenon
<1>5. CASE Close
  BY <1>5, LifeClose
<1>6. CASE UNCHANGED vars
  BY <1>6, LifeUnchanged DEF vars
<1> QED BY <1>1, <1>2, <1>3, <1>4, <1>5, <1>6, Zenon DEF Next

\* A generation a reader pins stays open through checkpoints, other readers
\* leaving and the shard's Close, and a retired generation nobody reads is
\* closed (Shard.PinSnapshot, Shard.release, Shard.InstallImmutable).
THEOREM PinnedGenerationsStayOpen == Spec => []PinsSafe
<1>1. Init => LifeInv
  BY LifeInit
<1>2. LifeInv /\ [Next]_vars => LifeInv'
  BY LifeStep
<1>3. LifeInv => PinsSafe
  BY Zenon DEF LifeInv
<1> QED BY <1>1, <1>2, <1>3, PTL DEF Spec

\* While a reader holds its snapshot no step changes the segment under it: not
\* a checkpoint that retires it, not the reader next to it that leaves.
THEOREM SnapshotsAreStable == Spec => [][SnapshotKept]_vars
<1>1. Init => LifeInv
  BY LifeInit
<1>2. LifeInv /\ [Next]_vars => LifeInv'
  BY LifeStep
<1>3. LifeInv /\ [Next]_vars => [SnapshotKept]_vars
  BY LifeStep
<1> QED BY <1>1, <1>2, <1>3, PTL DEF Spec

-----------------------------------------------------------------------------
(* The shard *)

\* What is read under a key: of the delta a, else of the base b unless the
\* tombstones t hide it.
View(a, t, b, k) ==
    IF k \in DOMAIN a.ordinals THEN SegmentGet(a, k)
    ELSE IF k \in t THEN NoRecord ELSE SegmentGet(b, k)

HoldsRecords(s) == \A k \in DOMAIN s.ordinals : SegmentGet(s, k) \in RecordValues

\* Delta, tombstones and base show what was written.
Shows(a, t, b, tr) ==
    /\ SegmentOK(a) /\ SegmentOK(b) /\ HoldsRecords(a) /\ HoldsRecords(b)
    /\ t \subseteq Keys /\ t \cap DOMAIN a.ordinals = {}
    /\ \A k \in Keys : View(a, t, b, k) = tr[k]

ShardInv ==
    /\ truth \in [Keys -> RecordValues \cup {NoRecord}]
    /\ ~closed => Shows(active, tombstones, BaseSegment, truth)

LEMMA LiveIs ==
    ASSUME NEW k
    PROVE  Live1(k) = View(active, tombstones, BaseSegment, k)
  BY DEF Live1, View, SegmentGet, Has

LEMMA LiveIsNext ==
    ASSUME NEW k
    PROVE  Live1(k)' = View(active', tombstones', BaseSegment', k)
  BY DEF Live1, View, SegmentGet, Has

LEMMA ExactFromShows ==
    ASSUME ShardInv
    PROVE  ShardExact
  BY LiveIs DEF ShardInv, ShardExact, Shows

\* Upsert
LEMMA ShowsUpsert ==
    ASSUME NEW a, NEW t, NEW b, NEW tr, tr \in [Keys -> RecordValues \cup {NoRecord}],
           Shows(a, t, b, tr), NEW key \in Keys, NEW record \in RecordValues
    PROVE  Shows(SegmentUpsert(a, key, record), t \ {key}, b, [tr EXCEPT ![key] = record])
<1> DEFINE a2 == SegmentUpsert(a, key, record)
           tr2 == [tr EXCEPT ![key] = record]
<1>1. /\ SegmentOK(a2) /\ DOMAIN a2.ordinals = DOMAIN a.ordinals \cup {key}
      /\ \A k : SegmentGet(a2, k) = IF k = key THEN record ELSE SegmentGet(a, k)
  BY UpsertOK DEF Shows
<1> HIDE DEF a2
<1>2. HoldsRecords(a2)
  BY <1>1 DEF Shows, HoldsRecords
<1>3. ASSUME NEW k \in Keys
      PROVE  View(a2, t \ {key}, b, k) = tr2[k]
  <2>1. View(a, t, b, k) = tr[k]
    BY DEF Shows
  <2>2. CASE k = key
    BY <1>1, <2>2 DEF View
  <2>3. CASE k # key
    BY <1>1, <2>1, <2>3 DEF View
  <2> QED BY <2>2, <2>3
<1>4. /\ t \ {key} \subseteq Keys /\ (t \ {key}) \cap DOMAIN a2.ordinals = {}
      /\ SegmentOK(b) /\ HoldsRecords(b)
  BY <1>1 DEF Shows
<1>5. Shows(a2, t \ {key}, b, tr2)
  BY <1>1, <1>2, <1>3, <1>4 DEF Shows
<1> QED BY <1>5 DEF a2

\* Delete
LEMMA ShowsDelete ==
    ASSUME NEW a, NEW t, NEW b, NEW tr, tr \in [Keys -> RecordValues \cup {NoRecord}],
           Shows(a, t, b, tr), NEW key \in Keys
    PROVE  Shows(IF Has(a, key) THEN SegmentDelete(a, key) ELSE a,
                 IF Has(b, key) THEN t \cup {key} ELSE t, b, [tr EXCEPT ![key] = NoRecord])
<1> DEFINE a2 == IF Has(a, key) THEN SegmentDelete(a, key) ELSE a
           t2 == IF Has(b, key) THEN t \cup {key} ELSE t
           tr2 == [tr EXCEPT ![key] = NoRecord]
<1>1. /\ SegmentOK(a2) /\ DOMAIN a2.ordinals = DOMAIN a.ordinals \ {key}
      /\ \A k \in Keys \ {key} : SegmentGet(a2, k) = SegmentGet(a, k)
  <2>1. CASE Has(a, key)
    <3>1. SegmentOK(a) /\ key \in DOMAIN a.ordinals
      BY <2>1 DEF Shows, Has
    <3> QED BY <2>1, <3>1, DeleteOK
  <2>2. CASE ~Has(a, key)
    BY <2>2 DEF Shows, Has
  <2> QED BY <2>1, <2>2
<1> HIDE DEF a2
<1>2. HoldsRecords(a2)
  BY <1>1 DEF Shows, HoldsRecords, SegmentOK
<1>3. ASSUME NEW k \in Keys
      PROVE  View(a2, t2, b, k) = tr2[k]
  <2>1. View(a, t, b, k) = tr[k]
    BY DEF Shows
  <2>2. CASE k = key
    <3>1. k \notin DOMAIN a2.ordinals /\ tr2[k] = NoRecord
      BY <1>1, <2>2
    <3>2. CASE Has(b, key)
      BY <2>2, <3>1, <3>2 DEF View
    <3>3. CASE ~Has(b, key)
      BY <2>2, <3>1, <3>3 DEF View, SegmentGet
    <3> QED BY <3>2, <3>3
  <2>3. CASE k # key
    BY <1>1, <2>1, <2>3 DEF View
  <2> QED BY <2>2, <2>3
<1>4. /\ t2 \subseteq Keys /\ t2 \cap DOMAIN a2.ordinals = {}
      /\ SegmentOK(b) /\ HoldsRecords(b)
  BY <1>1 DEF Shows
<1>5. Shows(a2, t2, b, tr2)
  BY <1>1, <1>2, <1>3, <1>4 DEF Shows
<1> QED BY <1>5 DEF a2

\* A checkpoint: an empty delta over the base built of the live records.
LEMMA ShowsInstall ==
    ASSUME truth \in [Keys -> RecordValues \cup {NoRecord}], NEW m,
           Shows(active, tombstones, BaseSegment, truth)
    PROVE  /\ Shows(NewSegment(config), {}, BuildBase(ShardRecords, m), truth)
           /\ DOMAIN BuildBase(ShardRecords, m).ordinals = {k \in Keys : truth[k] # NoRecord}
<1> DEFINE a == NewSegment(config)
           b == BuildBase(ShardRecords, m)
           recs == ShardRecords
<1>1. \A k \in Keys : Live1(k) = truth[k]
  BY LiveIs DEF Shows
<1>2. /\ DOMAIN recs = {k \in Keys : truth[k] # NoRecord}
      /\ \A k \in DOMAIN recs : recs[k] = truth[k]
  BY <1>1 DEF ShardRecords
<1>3. SegmentOK(a) /\ DOMAIN a.ordinals = {}
  BY NewSegmentOK
<1>4. /\ SegmentOK(b) /\ DOMAIN b.ordinals = DOMAIN recs
      /\ \A k \in DOMAIN recs : SegmentGet(b, k) = recs[k]
  <2>1. DOMAIN recs \subseteq Keys
    BY <1>2
  <2> HIDE DEF recs
  <2>2. b = BuildBase(recs, m)
    BY DEF recs
  <2> HIDE DEF b
  <2> QED BY <2>1, <2>2, BuildOK
<1> HIDE DEF a, b, recs
<1>5. HoldsRecords(a) /\ HoldsRecords(b)
  BY <1>2, <1>3, <1>4 DEF HoldsRecords
<1>6. ASSUME NEW k \in Keys
      PROVE  View(a, {}, b, k) = truth[k]
  <2>1. View(a, {}, b, k) = SegmentGet(b, k)
    BY <1>3 DEF View
  <2>2. CASE k \in DOMAIN recs
    BY <1>2, <1>4, <2>1, <2>2
  <2>3. CASE k \notin DOMAIN recs
    <3>1. SegmentGet(b, k) = NoRecord
      BY <1>4, <2>3 DEF SegmentGet, Has
    <3> QED BY <1>2, <2>1, <2>3, <3>1
  <2> QED BY <2>2, <2>3
<1>7. Shows(a, {}, b, truth)
  BY <1>3, <1>4, <1>5, <1>6 DEF Shows
<1> QED BY <1>2, <1>4, <1>7 DEF a, b, recs

\* The base of an open shard is open, so readers that come and go leave it.
LEMMA BaseSame ==
    ASSUME LifeInv', BaseKept, base' = base, config' = config, ~closed'
    PROVE  BaseSegment' = BaseSegment
<1>1. CASE base = 0
  BY <1>1 DEF BaseSegment
<1>2. CASE base # 0
  <2>1. ~generations'[base].retired /\ PinsSafe' /\ base' \in 0..Len(generations')
    BY <1>2 DEF LifeInv
  <2>2. PICK G : generations' \in Seq(Generation(G))
    BY Zenon DEF LifeInv
  <2>3. base \in DOMAIN generations'
    BY <1>2, <2>1, <2>2
  <2>4. ~generations'[base].closed
    BY <2>1, <2>3 DEF PinsSafe
  <2>5. generations'[base].seg = generations[base].seg
    BY <1>2, <2>4 DEF BaseKept
  <2> QED BY <1>2, <2>5 DEF BaseSegment
<1> QED BY <1>1, <1>2

\* A checkpoint's base is the segment it built.
LEMMA BaseInstalled ==
    ASSUME LifeInv, ~closed, NEW s, Installed(s)
    PROVE  BaseSegment' = s /\ base' # base /\ base' # 0
<1> DEFINE t == Retire(generations, base)
           n == Len(generations) + 1
<1>1. base' = n /\ generations' = Append(t, Opened(s))
  BY DEF Installed
<1>2. (\E G : t \in Seq(Generation(G))) /\ Len(t) = Len(generations)
  BY RetireBase, Zenon
<1> HIDE DEF t
<1>3. PICK G : t \in Seq(Generation(G))
  BY <1>2, Zenon
<1>4. Len(generations) \in Nat /\ Append(t, Opened(s))[n] = Opened(s)
  <2> DEFINE S == Generation(G)
  <2>1. t \in Seq(S)
    BY <1>3
  <2> HIDE DEF S
  <2>2. Len(t) \in Nat /\ Append(t, Opened(s))[Len(t) + 1] = Opened(s)
    BY <2>1
  <2> QED BY <1>2, <2>2
<1>5. base \in 0..Len(generations)
  BY DEF LifeInv
<1>6. base' # base /\ base' # 0
  BY <1>1, <1>4, <1>5
<1>7. generations'[base'] = Opened(s)
  BY <1>1, <1>4
<1> QED BY <1>6, <1>7 DEF BaseSegment, Opened

LEMMA ShardInit == Init => ShardInv
<1> SUFFICES ASSUME Init PROVE ShardInv
  OBVIOUS
<1>1. /\ active = NewSegment(config) /\ BaseSegment = NewSegment(config) /\ tombstones = {}
      /\ truth = [k \in Keys |-> NoRecord]
  BY DEF Init, BaseSegment
<1> DEFINE s == NewSegment(config)
<1>2. SegmentOK(s) /\ DOMAIN s.ordinals = {}
  BY NewSegmentOK
<1> HIDE DEF s
<1>3. \A k \in Keys : View(s, {}, s, k) = NoRecord
  BY <1>2 DEF View, SegmentGet, Has
<1>4. Shows(s, {}, s, truth)
  BY <1>1, <1>2, <1>3 DEF Shows, HoldsRecords
<1> QED BY <1>1, <1>4 DEF ShardInv, s

LEMMA ShardUnchanged ==
    ASSUME ShardInv, LifeInv', BaseKept, closed' \/ ~closed,
           UNCHANGED <<active, tombstones, truth, base, config>>
    PROVE  ShardInv'
<1>1. active' = active /\ tombstones' = tombstones /\ truth' = truth
  OBVIOUS
<1>2. ASSUME ~closed'
      PROVE  Shows(active', tombstones', BaseSegment', truth')
  <2>1. BaseSegment' = BaseSegment
    BY <1>2, BaseSame
  <2>2. Shows(active, tombstones, BaseSegment, truth)
    BY <1>2 DEF ShardInv
  <2> QED BY <1>1, <2>1, <2>2
<1>3. truth' \in [Keys -> RecordValues \cup {NoRecord}]
  BY <1>1 DEF ShardInv
<1> QED BY <1>2, <1>3 DEF ShardInv

LEMMA ShardStep ==
    ASSUME LifeInv, ShardInv, [Next]_vars
    PROVE  ShardInv'
<1>1. LifeInv' /\ BaseKept
  BY LifeStep
<1>2. truth \in [Keys -> RecordValues \cup {NoRecord}]
  BY DEF ShardInv
<1>3. ASSUME NEW key \in Keys, NEW record \in RecordValues, Upsert(key, record)
      PROVE  ShardInv'
  <2>1. /\ ~closed /\ closed' = closed /\ base' = base /\ config' = config
        /\ active' = SegmentUpsert(active, key, record)
        /\ tombstones' = tombstones \ {key} /\ truth' = [truth EXCEPT ![key] = record]
    BY <1>3 DEF Upsert
  <2>2. BaseSegment' = BaseSegment
    BY <1>1, <2>1, BaseSame
  <2>3. Shows(active, tombstones, BaseSegment, truth)
    BY <2>1 DEF ShardInv
  <2>4. Shows(active', tombstones', BaseSegment', truth')
    BY <1>2, <2>1, <2>2, <2>3, ShowsUpsert
  <2>5. truth' \in [Keys -> RecordValues \cup {NoRecord}]
    BY <1>2, <2>1
  <2> QED BY <2>4, <2>5 DEF ShardInv
<1>4. ASSUME NEW key \in Keys, Delete(key)
      PROVE  ShardInv'
  <2>1. /\ ~closed /\ closed' = closed /\ base' = base /\ config' = config
        /\ active' = IF Has(active, key) THEN SegmentDelete(active, key) ELSE active
        /\ tombstones' = IF Has(BaseSegment, key) THEN tombstones \cup {key} ELSE tombstones
        /\ truth' = [truth EXCEPT ![key] = NoRecord]
    BY <1>4 DEF Delete
  <2>2. BaseSegment' = BaseSegment
    BY <1>1, <2>1, BaseSame
  <2>3. Shows(active, tombstones, BaseSegment, truth)
    BY <2>1 DEF ShardInv
  <2>4. Shows(active', tombstones', BaseSegment', truth')
    BY <1>2, <2>1, <2>2, <2>3, ShowsDelete
  <2>5. truth' \in [Keys -> RecordValues \cup {NoRecord}]
    BY <1>2, <2>1
  <2> QED BY <2>4, <2>5 DEF ShardInv
<1>5. CASE Checkpoint
  <2>1. ~closed /\ closed' = closed /\ truth' = truth /\ config' = config
    BY <1>5, CheckpointDoes
  <2>2. CASE UNCHANGED <<base, generations, active, tombstones>>
    BY <1>1, <2>1, <2>2, ShardUnchanged
  <2>3. ASSUME NEW m, Installed(BuildBase(ShardRecords, m))
        PROVE  ShardInv'
    <3>1. BaseSegment' = BuildBase(ShardRecords, m)
      BY <2>1, <2>3, BaseInstalled
    <3>2. Shows(active, tombstones, BaseSegment, truth)
      BY <2>1 DEF ShardInv
    <3>3. Shows(NewSegment(config), {}, BuildBase(ShardRecords, m), truth)
      BY <1>2, <3>2, ShowsInstall
    <3>4. active' = NewSegment(config) /\ tombstones' = {}
      BY <2>3 DEF Installed
    <3>5. Shows(active', tombstones', BaseSegment', truth')
      BY <2>1, <3>1, <3>3, <3>4
    <3> QED BY <1>2, <2>1, <3>5 DEF ShardInv
  <2> QED BY <1>5, <2>2, <2>3, CheckpointDoes, Zenon
<1>6. ASSUME NEW r \in Readers, PinSnapshot(r) \/ Release(r)
      PROVE  ShardInv'
  <2>1. closed' = closed /\ UNCHANGED <<active, tombstones, truth, base, config>>
    BY <1>6 DEF PinSnapshot, Release
  <2> QED BY <1>1, <2>1, ShardUnchanged DEF LifeInv
<1>7. CASE Close
  <2>1. closed' /\ UNCHANGED <<active, tombstones, truth, base, config>>
    BY <1>7 DEF Close
  <2> QED BY <1>1, <2>1, ShardUnchanged
<1>8. CASE UNCHANGED vars
  <2>1. closed' = closed /\ UNCHANGED <<active, tombstones, truth, base, config>>
    BY <1>8 DEF vars
  <2> QED BY <1>1, <2>1, ShardUnchanged DEF LifeInv
<1> QED BY <1>3, <1>4, <1>5, <1>6, <1>7, <1>8, Zenon DEF Next

\* The shard reads back what was written last under every key, through
\* checkpoints and with the delta's tombstones over the base (Shard.Upsert,
\* Shard.Delete, Shard.Records, Shard.InstallImmutable).
THEOREM ShardReadsWrites == Spec => []ShardExact
<1>1. Init => LifeInv /\ ShardInv
  BY LifeInit, ShardInit
<1>2. LifeInv /\ ShardInv /\ [Next]_vars => (LifeInv /\ ShardInv)'
  BY LifeStep, ShardStep
<1>3. ShardInv => ShardExact
  BY ExactFromShows
<1> QED BY <1>1, <1>2, <1>3, PTL DEF Spec

-----------------------------------------------------------------------------
(* The manifest *)

RecordsOf(s) == [k \in DOMAIN s.ordinals |-> SegmentGet(s, k)]

ManifestInv ==
    /\ \E Z : refs \in Seq(Z)
    /\ base = 0 => refs = <<>>
    /\ ManifestResolves

\* A step that saves a manifest installs its generation.  The checkpoint saves
\* before it installs, and an installation that fails leaves the new manifest
\* over the old base: then the two resolve differently until the next one.
Published == refs' # refs => base' # base

LEMMA EmptyResolves == materializeSegments(<<>>).recs = <<>>
<1> DEFINE none == <<>>
           m == materializeSegments(none)
<1>1. none \in Seq({})
  OBVIOUS
<1>2. m.recs = [k \in Mentioned(none) \ m.dead |-> LastDecides(none, k).recs[k]]
  BY <1>1, Resolved
<1>3. Mentioned(none) = {}
  BY DEF Mentioned
<1>4. DOMAIN m.recs = {} /\ m.recs = [k \in {} |-> LastDecides(none, k).recs[k]]
  BY <1>2, <1>3
<1> QED BY <1>4

\* In an open shard the manifest resolves to the base, also before the first.
LEMMA ManifestIsBase ==
    ASSUME LifeInv, ManifestInv, ~closed
    PROVE  materializeSegments(refs).recs = RecordsOf(BaseSegment)
<1>1. CASE base = 0
  <2>1. refs = <<>> /\ BaseSegment = NewSegment(config)
    BY <1>1 DEF ManifestInv, BaseSegment
  <2>2. DOMAIN BaseSegment.ordinals = {}
    BY <2>1, NewSegmentOK
  <2>3. RecordsOf(BaseSegment) = <<>>
    BY <2>2 DEF RecordsOf
  <2> QED BY <2>1, <2>3, EmptyResolves
<1>2. CASE base # 0
  <2>1. PICK G : generations \in Seq(Generation(G))
    BY Zenon DEF LifeInv
  <2>2. base \in DOMAIN generations /\ ~generations[base].retired
    BY <1>2, <2>1 DEF LifeInv
  <2>3. ~generations[base].closed
    BY <2>2 DEF LifeInv, PinsSafe
  <2>4. ManifestResolves
    BY DEF ManifestInv
  <2> QED BY <1>2, <2>3, <2>4 DEF ManifestResolves, RecordsOf
<1> QED BY <1>1, <1>2

\* The records of the base that a checkpoint installs.
LiveRecords == [k \in {x \in Keys : truth[x] # NoRecord} |-> truth[k]]

LEMMA AddedResolves ==
    ASSUME LifeInv, ShardInv, ManifestInv, ~closed
    PROVE  /\ \E Z : Added \in Seq(Z)
           /\ materializeSegments(Added).recs = LiveRecords
<1> DEFINE Old == materializeSegments(refs).recs
           A == DOMAIN active.ordinals
           B == DOMAIN BaseSegment.ordinals
<1>1. Shows(active, tombstones, BaseSegment, truth)
  BY DEF ShardInv
<1>2. DOMAIN Old = B /\ \A k \in B : Old[k] = SegmentGet(BaseSegment, k)
  BY ManifestIsBase DEF RecordsOf
<1>3. /\ A \subseteq Keys /\ B \subseteq Keys /\ tombstones \cap A = {}
      /\ \A k \in Keys : Live1(k) = truth[k]
  BY <1>1, LiveIs DEF Shows, SegmentOK
<1>4. \A k \in A : truth[k] = SegmentGet(active, k) /\ truth[k] # NoRecord
  BY <1>1, <1>3, KeysAssumption DEF Shows, View, HoldsRecords
<1>5. \A k \in B \ (A \cup tombstones) :
         truth[k] = SegmentGet(BaseSegment, k) /\ truth[k] # NoRecord
  BY <1>1, <1>3, KeysAssumption DEF Shows, View, HoldsRecords
<1>6. \A k \in Keys : truth[k] # NoRecord => k \in A \/ k \in B \ tombstones
  BY <1>1, <1>3 DEF Shows, View, SegmentGet, Has
<1>7. DOMAIN Delta = A /\ \A k \in A : Delta[k] = truth[k]
  BY <1>3, <1>4 DEF Delta, ShardRecords
<1>8. (A \cup B) \ tombstones = {k \in Keys : truth[k] # NoRecord}
  BY <1>3, <1>4, <1>5, <1>6
<1>9. PICK Z : refs \in Seq(Z)
  BY Zenon DEF ManifestInv
<1>10. CASE Added = refs
  <2> SUFFICES Old = LiveRecords
    BY <1>9, <1>10, Zenon
  <2>1. (A = {} /\ tombstones = {}) \/ Added = Append(refs, Ref(Delta, tombstones, lsn))
    BY <1>7 DEF Added
  <2>2. Len(Append(refs, Ref(Delta, tombstones, lsn))) = Len(refs) + 1 /\ Len(refs) \in Nat
    BY <1>9
  <2>3. A = {} /\ tombstones = {}
    BY <1>10, <2>1, <2>2
  <2>4. DOMAIN Old = {k \in Keys : truth[k] # NoRecord} /\ \A k \in DOMAIN Old : Old[k] = truth[k]
    BY <1>2, <1>5, <1>8, <2>3
  <2>5. Old = [k \in DOMAIN Old |-> Old[k]]
    BY <1>9, Resolved
  <2> HIDE DEF Old
  <2> QED BY <2>4, <2>5 DEF LiveRecords
<1>11. CASE Added = Append(refs, Ref(Delta, tombstones, lsn))
  <2> DEFINE e == Ref(Delta, tombstones, lsn)
             S == Z \cup {e}
  <2>1. e.recs = Delta /\ e.dead = tombstones
    BY DEF Ref
  <2>2. refs \in Seq(S) /\ e \in S /\ Z \subseteq S
    BY <1>9, WiderSeq
  <2> HIDE DEF e, S, Old
  <2>3. materializeSegments(Append(refs, e)).recs =
          [k \in (DOMAIN Old \cup DOMAIN e.recs) \ e.dead |->
             IF k \in DOMAIN e.recs THEN e.recs[k] ELSE Old[k]]
    BY <2>2, AppendResolves, SMTT(60) DEF Old
  <2>4. (DOMAIN Old \cup DOMAIN e.recs) \ e.dead = {k \in Keys : truth[k] # NoRecord}
    BY <1>2, <1>7, <1>8, <2>1
  <2>5. \A k \in (DOMAIN Old \cup DOMAIN e.recs) \ e.dead :
           (IF k \in DOMAIN e.recs THEN e.recs[k] ELSE Old[k]) = truth[k]
    BY <1>2, <1>5, <1>7, <2>1
  <2>6. materializeSegments(Append(refs, e)).recs = LiveRecords
    BY <2>3, <2>4, <2>5 DEF LiveRecords
  <2>7. Append(refs, e) \in Seq(S)
    BY <2>2
  <2> QED BY <1>11, <2>6, <2>7, Zenon DEF e
<1> QED BY <1>10, <1>11 DEF Added

LEMMA ManifestInit == Init => ManifestInv
<1> SUFFICES ASSUME Init PROVE ManifestInv
  OBVIOUS
<1>1. base = 0 /\ refs = <<>>
  BY DEF Init
<1>2. refs \in Seq({})
  BY <1>1
<1> QED BY <1>1, <1>2, Zenon DEF ManifestInv, ManifestResolves

LEMMA ManifestUnchanged ==
    ASSUME ManifestInv, BaseKept, UNCHANGED <<base, refs, config>>
    PROVE  ManifestInv'
<1>1. base' = base /\ refs' = refs /\ config' = config
  OBVIOUS
<1>2. ManifestResolves'
  <2> SUFFICES ASSUME base # 0, ~generations'[base].closed
               PROVE  materializeSegments(refs).recs =
                        [k \in DOMAIN generations'[base].seg.ordinals |->
                           SegmentGet(generations'[base].seg, k)]
    BY <1>1 DEF ManifestResolves, BaseSegment
  <2>1. ~generations[base].closed /\ generations'[base].seg = generations[base].seg
    BY DEF BaseKept
  <2>2. ManifestResolves
    BY DEF ManifestInv
  <2> QED BY <2>1, <2>2 DEF ManifestResolves, BaseSegment
<1>3. \E Z : refs' \in Seq(Z)
  BY <1>1, Zenon DEF ManifestInv
<1>4. base' = 0 => refs' = <<>>
  BY <1>1 DEF ManifestInv
<1> QED BY <1>2, <1>3, <1>4 DEF ManifestInv

LEMMA ManifestStep ==
    ASSUME LifeInv, ShardInv, ManifestInv, [Next]_vars, Published
    PROVE  ManifestInv'
<1>1. BaseKept
  BY LifeStep
<1>2. CASE Checkpoint
  <2>1. /\ ~closed /\ config' = config /\ truth' = truth
        /\ refs' = compactSegmentRefs(Added)
    BY <1>2, CheckpointDoes
  <2>2. CASE UNCHANGED <<base, generations, active, tombstones>>
    <3>1. refs' = refs
      BY <2>2 DEF Published
    <3> QED BY <1>1, <2>1, <2>2, <3>1, ManifestUnchanged
  <2>3. ASSUME NEW m, Installed(BuildBase(ShardRecords, m))
        PROVE  ManifestInv'
    <3> DEFINE b == BuildBase(ShardRecords, m)
    <3>1. BaseSegment' = b /\ base' # 0
      BY <2>1, <2>3, BaseInstalled
    <3>2. Shows(NewSegment(config), {}, b, truth) /\ DOMAIN b.ordinals = {k \in Keys : truth[k] # NoRecord}
      <4>1. truth \in [Keys -> RecordValues \cup {NoRecord}] /\ Shows(active, tombstones, BaseSegment, truth)
        BY <2>1 DEF ShardInv
      <4> QED BY <4>1, ShowsInstall
    <3> HIDE DEF b
    <3>3. \A k \in Keys : SegmentGet(b, k) = truth[k]
      BY <3>2, NewSegmentOK DEF Shows, View
    <3>4. RecordsOf(b) = LiveRecords
      BY <3>2, <3>3 DEF RecordsOf, LiveRecords
    <3>5. PICK Z : Added \in Seq(Z)
      BY <2>1, AddedResolves, Zenon
    <3>6. materializeSegments(Added).recs = LiveRecords
      BY <2>1, AddedResolves, Zenon
    <3>7. /\ \E Y : refs' \in Seq(Y)
          /\ materializeSegments(refs').recs = materializeSegments(Added).recs
      BY <2>1, <3>5, CompactionResolves, Zenon
    <3>8. ManifestResolves'
      BY <3>1, <3>4, <3>6, <3>7 DEF ManifestResolves, RecordsOf
    <3> QED BY <3>1, <3>7, <3>8 DEF ManifestInv
  <2> QED BY <1>2, <2>2, <2>3, CheckpointDoes, Zenon
<1>3. ASSUME NEW key \in Keys, NEW record \in RecordValues, Upsert(key, record)
      PROVE  ManifestInv'
  BY <1>1, <1>3, ManifestUnchanged DEF Upsert
<1>4. ASSUME NEW key \in Keys, Delete(key)
      PROVE  ManifestInv'
  BY <1>1, <1>4, ManifestUnchanged DEF Delete
<1>5. ASSUME NEW r \in Readers, PinSnapshot(r) \/ Release(r)
      PROVE  ManifestInv'
  <2>1. UNCHANGED <<base, refs, config>>
    BY <1>5 DEF PinSnapshot, Release
  <2> QED BY <1>1, <2>1, ManifestUnchanged
<1>6. CASE Close
  BY <1>1, <1>6, ManifestUnchanged DEF Close
<1>7. CASE UNCHANGED vars
  BY <1>1, <1>7, ManifestUnchanged DEF vars
<1> QED BY <1>2, <1>3, <1>4, <1>5, <1>6, <1>7, Zenon DEF Next

\* Where every saved manifest's generation is installed, the segment files the
\* manifest lists, merged by compaction or not, resolve to the records of the
\* base: a restart that loads them finds what the running shard holds
\* (materializeSegments, compactSegmentRefs, Policy.Select).
THEOREM ManifestMatchesBase == Spec /\ [][Published]_vars => []ManifestResolves
<1>1. Init => LifeInv /\ ShardInv /\ ManifestInv
  BY LifeInit, ShardInit, ManifestInit
<1>2. LifeInv /\ ShardInv /\ ManifestInv /\ [Next]_vars /\ [Published]_vars
        => (LifeInv /\ ShardInv /\ ManifestInv)'
  <2> SUFFICES ASSUME LifeInv, ShardInv, ManifestInv, [Next]_vars, [Published]_vars
               PROVE  (LifeInv /\ ShardInv /\ ManifestInv)'
    OBVIOUS
  <2>1. Published
    BY DEF Published, vars
  <2> QED BY <2>1, LifeStep, ShardStep, ManifestStep
<1>3. ManifestInv => ManifestResolves
  BY Zenon DEF ManifestInv
<1> QED BY <1>1, <1>2, <1>3, PTL DEF Spec

=============================================================================
