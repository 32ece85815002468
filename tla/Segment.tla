------------------------------ MODULE Segment ------------------------------
(***************************************************************************)
(* One shard in memory: the mutable segment with its vector, metadata,     *)
(* lexical and named-vector indexes, the immutable generation a checkpoint *)
(* installs under it, the segment files of that generation, and the        *)
(* readers that pin it.  Every operation runs under the shard's lock and   *)
(* is one action.                                                          *)
(*                                                                         *)
(* A record is [vec, meta, text, named]: text gives each token its number  *)
(* of occurrences, named is the record's vector in the one named field, or *)
(* NoVector.  A key stands for a namespace and an id; keys order like      *)
(* namespace and id do.                                                    *)
(***************************************************************************)
EXTENDS MetadataIndex, VectorIndex

CONSTANTS
    Keys, NamespaceOf,   \* record keys (integers) and the namespace of each
    RecordValues,        \* the records a client may write
    Tokens, NoVector, NoRecord,
    Configs,             \* [index, named]: the index types of a collection
    Readers,             \* snapshot readers
    FanIn, SizeRatio, MaxInput, MaxSegments,   \* compaction.Policy
    MaxLSN, MaxGen                             \* bounds: mutations, generations

\* Keys are finitely many and ordered, and no record stands for none.
ASSUME KeysAssumption ==
    /\ IsFiniteSet(Keys) /\ Keys \subseteq Int
    /\ NoRecord \notin RecordValues
ASSUME ReadersAssumption == IsFiniteSet(Readers)
ASSUME PolicyAssumption == FanIn \in Nat \ {0} /\ MaxSegments \in Nat

VARIABLES
    config,       \* [index, named], fixed when the collection is created
    active,       \* the mutable segment
    base,         \* the installed generation's number, 0 for none
    generations,  \* every generation ever installed
    tombstones,   \* keys of the base that are deleted
    count,        \* Shard.count
    lsn,          \* mutations logged
    refs,         \* the manifest's segments, oldest first
    saved,        \* the manifest's MaxLSN
    pins,         \* the generation each reader holds, 0 for none
    closed,       \* Shard.closed
    truth         \* history: what was written last under each key

vars == <<config, active, base, generations, tombstones, count, lsn, refs, saved, pins, closed,
          truth>>

-----------------------------------------------------------------------------
(* Lexical index *)

NewLexical == [text |-> [t \in Tokens |-> <<>>], docLength |-> <<>>, totalTerms |-> 0]
Length(record) == FoldFunction(+, 0, record.text)

LexicalAdd(l, n, record) ==
    IF Length(record) = 0 THEN l
    ELSE [text |-> [t \in Tokens |-> IF record.text[t] = 0 THEN l.text[t]
                                     ELSE Put(l.text[t], n, record.text[t])],
          docLength |-> Put(l.docLength, n, Length(record)),
          totalTerms |-> l.totalTerms + Length(record)]

LexicalRemove(l, n, record) ==
    IF n \notin DOMAIN l.docLength THEN l
    ELSE [text |-> [t \in Tokens |-> IF record.text[t] = 0 THEN l.text[t]
                                     ELSE Drop(l.text[t], n)],
          docLength |-> Drop(l.docLength, n),
          totalTerms |-> l.totalTerms - l.docLength[n]]

-----------------------------------------------------------------------------
(* Named vector field.  An update removes and puts again. *)

NewNamed(type) == [dense |-> <<>>, index |-> IF type = "hnsw" THEN NewHNSW ELSE NewFlat]

NamedRemove(f, n) ==
    IF n \notin DOMAIN f.dense THEN f
    ELSE [dense |-> Drop(f.dense, n),
          index |-> IF f.index.type = "hnsw" THEN HNSWDelete(f.index, n) ELSE f.index]

NamedPut(f, n, v) ==
    LET g == NamedRemove(f, n) IN
    IF v = NoVector THEN g
    ELSE [dense |-> Put(g.dense, n, v),
          index |-> IF g.index.type = "hnsw" THEN HNSWUpsert(g.index, n, v) ELSE g.index]

-----------------------------------------------------------------------------
(* Segment *)

NewSegment(cfg) ==
    [ordinals |-> <<>>, records |-> <<>>, nextID |-> 1, index |-> NewVectorIndex(cfg.index),
     meta |-> NewIndex, lexical |-> NewLexical, named |-> NewNamed(cfg.named)]

\* Mutant: the old text stays in the inverted index of an updated record.
SegmentUpsertKeepsText(s, key, record) ==
    LET n == IF key \in DOMAIN s.ordinals THEN s.ordinals[key] ELSE s.nextID IN
    [ordinals |-> Put(s.ordinals, key, n), records |-> Put(s.records, n, record),
     nextID   |-> IF key \in DOMAIN s.ordinals THEN s.nextID ELSE s.nextID + 1,
     index    |-> VectorUpsert(s.index, n, record.vec),
     meta     |-> IndexUpsert(s.meta, n, record.meta),
     lexical  |-> LexicalAdd(s.lexical, n, record),
     named    |-> NamedPut(s.named, n, record.named)]

\* Segment.Upsert
SegmentUpsert(s, key, record) ==
    LET old == key \in DOMAIN s.ordinals
        n == IF old THEN s.ordinals[key] ELSE s.nextID
        cleared == IF old THEN LexicalRemove(s.lexical, n, s.records[n]) ELSE s.lexical
    IN  [ordinals |-> Put(s.ordinals, key, n), records |-> Put(s.records, n, record),
         nextID   |-> IF old THEN s.nextID ELSE s.nextID + 1,
         index    |-> VectorUpsert(s.index, n, record.vec),
         meta     |-> IndexUpsert(s.meta, n, record.meta),
         lexical  |-> LexicalAdd(cleared, n, record),
         named    |-> NamedPut(s.named, n, record.named)]

\* Segment.Delete
SegmentDelete(s, key) ==
    LET n == s.ordinals[key] IN
    [ordinals |-> Drop(s.ordinals, key), records |-> Drop(s.records, n), nextID |-> s.nextID,
     index    |-> VectorDelete(s.index, n),
     meta     |-> IndexDelete(s.meta, n),
     lexical  |-> LexicalRemove(s.lexical, n, s.records[n]),
     named    |-> NamedRemove(s.named, n)]

Has(s, key) == key \in DOMAIN s.ordinals
SegmentGet(s, key) == IF Has(s, key) THEN s.records[s.ordinals[key]] ELSE NoRecord
-----------------------------------------------------------------------------
(* Segment files.  A ref is [recs, dead, lsn, size]: the records of one    *)
(* delta, the keys it deletes, its last LSN, and its size in entries.       *)

Ref(recs, dead, last) == [recs |-> recs, dead |-> dead, lsn |-> last,
                          size |-> Cardinality(DOMAIN recs) + Cardinality(dead)]

\* The segments that hold or delete a key.
Mentions(ref) == DOMAIN ref.recs \cup ref.dead
Mentioning(inputs, k) == {i \in DOMAIN inputs : k \in Mentions(inputs[i])}

\* Mutant: the inputs are merged with the newest first.
OldestDecides(inputs, k) == inputs[Min(Mentioning(inputs, k))]

\* The pass over the segments, oldest first, leaves of a key what the last one
\* that mentions it says; a segment's tombstones follow its records.
LastDecides(inputs, k) == inputs[Max(Mentioning(inputs, k))]

materializeSegments(inputs) ==
    LET keys == UNION {Mentions(inputs[i]) : i \in DOMAIN inputs}
        dead == {k \in keys : k \in LastDecides(inputs, k).dead}
    IN  [recs |-> [k \in keys \ dead |-> LastDecides(inputs, k).recs[k]], dead |-> dead]

Size(inputs) == FoldLeft(LAMBDA n, ref : n + ref.size, 0, inputs)
exceedsRatio(value, minimum) == value > SizeRatio * minimum

\* Policy.Select: the oldest run of FanIn segments of like size; at the limit,
\* the oldest ones that fit.  <<first, last>>, <<>> for none, or "error".
Run(rs, start) ==
    LET run == SubSeq(rs, start, start + FanIn - 1) IN
    /\ start + FanIn - 1 <= Len(rs)
    /\ \A i \in DOMAIN run : ~exceedsRatio(run[i].size, Max({1, rs[start].size}))
    /\ Size(run) <= MaxInput
Select(rs) ==
    LET starts == {s \in DOMAIN rs : Run(rs, s)}
        fitting == {n \in 2..Len(rs) : n <= FanIn /\ Size(SubSeq(rs, 1, n)) <= MaxInput} IN
    CASE starts # {} -> <<Min(starts), Min(starts) + FanIn - 1>>
      [] starts = {} /\ Len(rs) < MaxSegments -> <<>>
      [] OTHER -> IF fitting = {} THEN <<0>> ELSE <<1, Max(fitting)>>

\* compactSegmentRefs: the merged segment takes the place of its inputs.
compactSegmentRefs(rs) ==
    LET plan == Select(rs) IN
    IF Len(plan) < 2 THEN rs
    ELSE LET m == materializeSegments(SubSeq(rs, plan[1], plan[2])) IN
         SubSeq(rs, 1, plan[1] - 1) \o <<Ref(m.recs, m.dead, rs[plan[2]].lsn)>> \o SubSeq(rs, plan[2] + 1, Len(rs))

-----------------------------------------------------------------------------
(* Shard *)

BaseSegment == IF base = 0 THEN NewSegment(config) ELSE generations[base].seg
\* Shard.Records
Live1(key) == IF Has(active, key) THEN active.records[active.ordinals[key]]
              ELSE IF key \in tombstones THEN NoRecord ELSE SegmentGet(BaseSegment, key)
ShardRecords == [key \in {k \in Keys : Live1(k) # NoRecord} |-> Live1(key)]
Shadowed == DOMAIN active.ordinals \cup tombstones

Init ==
    /\ config \in Configs
    /\ active = NewSegment(config)
    /\ base = 0 /\ generations = <<>> /\ tombstones = {} /\ count = 0 /\ lsn = 0 /\ refs = <<>>
    /\ saved = 0
    /\ pins = [r \in Readers |-> 0] /\ closed = FALSE
    /\ truth = [k \in Keys |-> NoRecord]

\* Shard.Upsert
Upsert(key, record) ==
    LET existed == Has(active, key) \/ (key \notin tombstones /\ Has(BaseSegment, key)) IN
    /\ ~closed /\ lsn < MaxLSN
    /\ active' = SegmentUpsert(active, key, record)
    /\ tombstones' = tombstones \ {key}
    /\ count' = IF existed THEN count ELSE count + 1
    /\ lsn' = lsn + 1
    /\ truth' = [truth EXCEPT ![key] = record]
    /\ UNCHANGED <<config, base, generations, refs, saved, pins, closed>>

\* Mutant: only a record of the active segment is counted and deleted.
DeleteKeepsBase(key) ==
    /\ ~closed /\ lsn < MaxLSN /\ Live1(key) # NoRecord
    /\ active' = IF Has(active, key) THEN SegmentDelete(active, key) ELSE active
    /\ tombstones' = IF Has(active, key) THEN tombstones ELSE tombstones \cup {key}
    /\ count' = count - 1
    /\ lsn' = lsn + 1
    /\ truth' = [truth EXCEPT ![key] = NoRecord]
    /\ UNCHANGED <<config, base, generations, refs, saved, pins, closed>>

\* Shard.Delete
Delete(key) ==
    /\ ~closed /\ lsn < MaxLSN /\ Live1(key) # NoRecord
    /\ active' = IF Has(active, key) THEN SegmentDelete(active, key) ELSE active
    /\ tombstones' = IF Has(BaseSegment, key) THEN tombstones \cup {key} ELSE tombstones
    /\ count' = count - 1
    /\ lsn' = lsn + 1
    /\ truth' = [truth EXCEPT ![key] = NoRecord]
    /\ UNCHANGED <<config, base, generations, refs, saved, pins, closed>>

\* Keys in their order.
Position(keys, key) == Cardinality({k \in keys : k <= key})
InKeyOrder(keys) ==
    [i \in 1..Cardinality(keys) |-> CHOOSE key \in keys : Position(keys, key) = i]

\* The base segment a checkpoint makes of the live records in key order:
\* mapped vectors under a flat index, a graph built and loaded for hnsw.
BuildBase(recs, meta) ==
    LET keys == InKeyOrder(DOMAIN recs)
        rec(i) == recs[keys[i]]
        ids == [i \in DOMAIN keys |-> i]
        entries == [i \in DOMAIN keys |-> <<i, rec(i).vec>>]
    IN  [ordinals |-> [k \in DOMAIN recs |-> Position(DOMAIN recs, k)],
         records  |-> [i \in DOMAIN keys |-> rec(i)],
         nextID   |-> Len(keys) + 1,
         index    |-> IF config.index = "hnsw" THEN buildLocked(entries)
                      ELSE FoldLeft(LAMBDA f, e : FlatUpsert(f, e[1], e[2]), NewFlat, entries),
         meta     |-> meta,
         lexical  |-> FoldLeft(LAMBDA l, i : LexicalAdd(l, i, rec(i)), NewLexical, ids),
         named    |-> FoldLeft(LAMBDA f, i : NamedPut(f, i, rec(i).named),
                               NewNamed(config.named), ids)]

\* A retired generation nobody reads is closed: its vectors are unmapped.
CloseIf(gen, now) == IF now THEN [gen EXCEPT !.closed = TRUE, !.seg = NewSegment(config)] ELSE gen
Retire(gs, g) ==
    IF g = 0 THEN gs
    ELSE [gs EXCEPT ![g] = CloseIf([@ EXCEPT !.retired = TRUE], gs[g].readers = 0)]

\* LoadManifest: segment LSNs increase up to the manifest's.
ManifestLoads ==
    refs # <<>> => /\ Last(refs).lsn = saved
                   /\ \A i \in 2..Len(refs) : refs[i - 1].lsn < refs[i].lsn

\* The engine's checkpoint of a shard up to Shard.InstallImmutable: the delta
\* becomes a segment, segments are compacted, the filter is written and read
\* back, and the new generation replaces base, delta and tombstones.
Checkpoint ==
    LET recs == ShardRecords
        keys == InKeyOrder(DOMAIN recs)
        delta == [k \in DOMAIN active.ordinals |-> recs[k]]
        added == IF refs = <<>> \/ DOMAIN delta # {} \/ tombstones # {}
                 THEN Append(refs, Ref(delta, tombstones, lsn)) ELSE refs
        filter == IndexOf([i \in DOMAIN keys |-> recs[keys[i]].meta])
        seg == BuildBase(recs, LoadBinary(filter))
        written == IF config.index = "hnsw" THEN seg.index ELSE NewHNSW
    IN  /\ ~closed
        /\ Len(generations) < MaxGen
        /\ ManifestLoads
        /\ refs = <<>> \/ saved # lsn \/ DOMAIN delta # {} \/ tombstones # {}
        /\ Select(added) # <<0>>
        /\ saved' = lsn
        /\ refs' = compactSegmentRefs(added)
        /\ IF LoadAccepts(filter) /\ (config.index = "hnsw" =>
                LoadGraphAccepts(written, [i \in DOMAIN keys |-> i]))
           THEN /\ base' = Len(generations) + 1
                /\ generations' = Append(Retire(generations, base),
                      [seg |-> seg, readers |-> 0, retired |-> FALSE, closed |-> FALSE])
                /\ active' = NewSegment(config)
                /\ tombstones' = {}
                /\ count' = VectorLen(seg.index)
           ELSE UNCHANGED <<base, generations, active, tombstones, count>>
        /\ UNCHANGED <<config, lsn, pins, closed, truth>>

\* Shard.PinSnapshot
PinSnapshot(r) ==
    /\ pins[r] = 0 /\ ~closed /\ base # 0
    /\ generations' = [generations EXCEPT ![base].readers = @ + 1]
    /\ pins' = [pins EXCEPT ![r] = base]
    /\ UNCHANGED <<config, active, base, tombstones, count, lsn, refs, saved, closed, truth>>

\* Mutant: the reader that leaves a retired generation closes it.
ReleaseCloses(r) ==
    LET g == pins[r] IN
    /\ g # 0
    /\ generations' = [generations EXCEPT ![g] =
                          CloseIf([generations[g] EXCEPT !.readers = @ - 1], generations[g].retired)]
    /\ pins' = [pins EXCEPT ![r] = 0]
    /\ UNCHANGED <<config, active, base, tombstones, count, lsn, refs, saved, closed, truth>>

\* Snapshot.Close, Shard.release
Release(r) ==
    LET g == pins[r] IN
    /\ g # 0
    /\ generations' = [generations EXCEPT ![g] =
           CloseIf([generations[g] EXCEPT !.readers = @ - 1],
                   generations[g].retired /\ generations[g].readers = 1)]
    /\ pins' = [pins EXCEPT ![r] = 0]
    /\ UNCHANGED <<config, active, base, tombstones, count, lsn, refs, saved, closed, truth>>

\* Shard.Close
Close ==
    /\ ~closed
    /\ closed' = TRUE
    /\ generations' = Retire(generations, base)
    /\ UNCHANGED <<config, active, base, tombstones, count, lsn, refs, saved, pins, truth>>

Next ==
    \/ \E key \in Keys, record \in RecordValues : Upsert(key, record)
    \/ \E key \in Keys : Delete(key)
    \/ Checkpoint
    \/ \E r \in Readers : PinSnapshot(r) \/ Release(r)
    \/ Close

Spec == Init /\ [][Next]_vars

-----------------------------------------------------------------------------
(* Properties *)

Segments == {active} \cup {generations[g].seg : g \in {x \in DOMAIN generations : ~generations[x].closed}}
Written(r) == r # NoRecord

\* The indexes of every segment agree with its records: vectors, postings,
\* inverted text with its statistics, named vectors; graph links stay within
\* the graph, within their bound, and on layers both ends have.  Len, which is
\* kept beside them and taken from the index at a checkpoint, is the number of
\* live records.
GraphOK(h) ==
    /\ h.entry \in DOMAIN h.nodes \/ (h.entry = 0 /\ h.nodes = <<>>)
    /\ \A n \in DOMAIN h.nodes : \A l \in DOMAIN h.nodes[n].neighbors :
         /\ Len(h.nodes[n].neighbors[l]) <= maxNeighbors(l)
         /\ \A m \in ToSet(h.nodes[n].neighbors[l]) :
              m \in DOMAIN h.nodes /\ m # n /\ h.nodes[m].level >= l
Vectors(x) == IF x.type = "hnsw" THEN {<<x.nodes[n].id, x.nodes[n].vec>> : n \in Live(x)}
              ELSE {<<id, x.vectors[x.ordinals[id]]>> : id \in DOMAIN x.ordinals}
SegmentInv ==
    /\ ~closed => count = Cardinality({k \in Keys : Written(truth[k])})
    /\ \A s \in Segments :
        /\ {s.ordinals[k] : k \in DOMAIN s.ordinals} = DOMAIN s.records
        /\ Cardinality(DOMAIN s.ordinals) = Cardinality(DOMAIN s.records)
        /\ \A n \in DOMAIN s.records : n < s.nextID
        /\ Vectors(s.index) = {<<n, s.records[n].vec>> : n \in DOMAIN s.records}
        /\ s.index.type = "hnsw" => GraphOK(s.index)
        /\ s.meta.universe = DOMAIN s.records
        /\ \A t \in Tokens : s.lexical.text[t] =
             [n \in {m \in DOMAIN s.records : s.records[m].text[t] > 0} |-> s.records[n].text[t]]
        /\ s.lexical.totalTerms = FoldFunction(+, 0, s.lexical.docLength)
        /\ s.named.dense = [n \in {m \in DOMAIN s.records : s.records[m].named # NoVector}
                              |-> s.records[n].named]
        /\ s.named.index.type = "hnsw" =>
             /\ GraphOK(s.named.index)
             /\ Vectors(s.named.index) = {<<n, s.named.dense[n]>> : n \in DOMAIN s.named.dense}

\* Get and Records of the shard tell what was written last, wherever the
\* record is: in the delta, in the base, or hidden by a tombstone.
ShardExact ==
    ~closed =>
    /\ \A k \in Keys : Live1(k) = truth[k]
    /\ tombstones \cap DOMAIN active.ordinals = {}

\* The manifest's segments, compacted or not, resolve to the records of the
\* generation that was installed with them.
ManifestResolves ==
    base # 0 /\ ~generations[base].closed => materializeSegments(refs).recs =
                  [k \in DOMAIN BaseSegment.ordinals |-> SegmentGet(BaseSegment, k)]

\* A pinned generation stays open, through checkpoints, other readers leaving
\* and the shard's Close; a retired one nobody reads is closed.
PinsSafe ==
    \A g \in DOMAIN generations :
      /\ generations[g].readers = Cardinality({r \in Readers : pins[r] = g})
      /\ generations[g].closed <=> generations[g].retired /\ generations[g].readers = 0
      /\ g # base => generations[g].retired
=============================================================================
