---------------------------- MODULE ShardQueries ----------------------------
(***************************************************************************)
(* What is asked of a shard in memory: filters, vector searches, searches  *)
(* of the named field and text searches, over the active segment and the   *)
(* installed generation.  A query changes nothing.                         *)
(***************************************************************************)
EXTENDS Segment, MetadataFilter

-----------------------------------------------------------------------------
(* A segment *)

KeyOf(s, n) == CHOOSE key \in DOMAIN s.ordinals : s.ordinals[key] = n

\* The allow function of a search: filter, namespace and hidden keys.
Chosen(s, expr) == IF expr = NoExpr THEN DOMAIN s.records ELSE Evaluate(s.meta, expr)
Allowed(s, ns, chosen, excluded) ==
    {s.ordinals[key] : key \in {k \in DOMAIN s.ordinals \ excluded :
                                  NamespaceOf[k] = ns /\ s.ordinals[k] \in chosen}}

Results(s, candidates) ==
    [i \in DOMAIN candidates |-> Candidate(KeyOf(s, candidates[i].id), candidates[i].score)]

\* SearchFilteredWithOptions
SegmentSearch(s, ns, query, k, expr, excluded) ==
    LET chosen == Chosen(s, expr) IN
    Results(s, VectorSearch(s.index, query, k, Allowed(s, ns, chosen, excluded),
                            IF expr = NoExpr THEN -1 ELSE Cardinality(chosen)))

\* candidates: the field's graph, or a scan of the stored vectors.
NamedCandidates(f, query, k, allowed) ==
    IF f.index.type = "hnsw" THEN HNSWSearch(f.index, query, k, allowed, -1)
    ELSE TopK({Candidate(n, Score(query, f.dense[n])) : n \in DOMAIN f.dense \cap allowed}, k)

\* SearchNamed with a single vector
SegmentSearchNamed(s, ns, query, k, expr, excluded) ==
    Results(s, NamedCandidates(s.named, query, k, Allowed(s, ns, Chosen(s, expr), excluded)))

\* searchText: the documents that hold one of the query's tokens.
SegmentText(s, ns, tokens, expr, excluded) ==
    {KeyOf(s, n) : n \in UNION {DOMAIN s.lexical.text[t] : t \in tokens}
                         \cap Allowed(s, ns, Chosen(s, expr), excluded)}

-----------------------------------------------------------------------------
(* A shard *)

ByScore(rs, k) == TopK(ToSet(rs), k)
\* SearchFilteredWithEF, SearchNamed and SearchHybrid of the shard: the active
\* segment's answer and the base's without the shadowed keys, cut to k.
ShardSearch(ns, query, k, expr) ==
    ByScore(SegmentSearch(active, ns, query, k, expr, {})
            \o SegmentSearch(BaseSegment, ns, query, k, expr, Shadowed), k)
ShardSearchNamed(ns, query, k, expr) ==
    ByScore(SegmentSearchNamed(active, ns, query, k, expr, {})
            \o SegmentSearchNamed(BaseSegment, ns, query, k, expr, Shadowed), k)
ShardText(ns, tokens, expr) ==
    SegmentText(active, ns, tokens, expr, {})
    \cup SegmentText(BaseSegment, ns, tokens, expr, Shadowed)

-----------------------------------------------------------------------------
(* Properties *)

CONSTANTS Filters, Queries, Ks   \* the requests the properties ask

Namespaces == {NamespaceOf[k] : k \in Keys}

\* What a filter means for one record, without an index: a comparison only
\* holds for a scalar of the operand's kind, and a missing field satisfies
\* nothing but {"$exists": false}.
Same(v, w) == v.kind = w.kind /\ v.num = w.num /\ v.words = w.words
Satisfies(v, o) ==
    LET w == CHOOSE x \in o.operand : TRUE
        equal == \E x \in o.operand : Same(v, x) IN
    IF ~Scalar(v) THEN o.name = "$exists" /\ w = Bool(FALSE)
    ELSE CASE o.name = "$exists" -> w = Bool(TRUE)
           [] o.name \in {"$eq", "$in"}  -> equal
           [] o.name \in {"$ne", "$nin"} -> ~equal
           [] o.name = "$text" -> v.kind = "string" /\ w.words \subseteq v.words
           [] OTHER -> v.kind = w.kind /\ rangeMatches(v.num, o.name, w.num)

RECURSIVE Matches(_, _)
Matches(meta, raw) ==
    \A c \in raw :
      CASE c.type = "field" -> \A o \in c.ops : Satisfies(meta[c.field], o)
        [] c.type = "and"   -> \A a \in c.args : Matches(meta, a)
        [] c.type = "or"    -> \E a \in c.args : Matches(meta, a)
        [] c.type = "not"   -> \A a \in c.args : ~Matches(meta, a)

\* metadata.Index.Evaluate selects exactly the records the filter object
\* describes, through updates, deletions, merges of the numeric delta and a
\* reload from the checkpoint's filter file.
FilterExact ==
    \A s \in Segments, raw \in Filters :
      Evaluate(s.meta, Parse(raw)) = {n \in DOMAIN s.records : Matches(s.records[n].meta, raw)}

Hits(ns, raw) == {k \in Keys : /\ Written(truth[k]) /\ NamespaceOf[k] = ns
                                /\ Matches(truth[k].meta, raw)}
\* rs are the k best of the keys in ks, ties at the cut aside.
BestOf(rs, ks, k, ScoreOf(_)) ==
    /\ Len(rs) = Min({k, Cardinality(ks)})
    /\ \A i \in DOMAIN rs : rs[i].id \in ks /\ rs[i].score = ScoreOf(rs[i].id)
    /\ \A i, j \in DOMAIN rs : i < j => better(rs[i], rs[j])
    /\ \A i \in DOMAIN rs, x \in ks :
         ScoreOf(x) > rs[i].score => \E j \in DOMAIN rs : rs[j].id = x
Untombstoned(x) == x.type = "hnsw" => Live(x) = DOMAIN x.nodes

\* A filtered search returns the k best live matching records of its
\* namespace, over delta and base; so does a search of the named field, and
\* a text search finds every record with one of its tokens.  For an HNSW
\* graph this is claimed only while the graph holds no tombstone.
SearchExact ==
    ~closed => \A ns \in Namespaces, raw \in Filters :
      LET hits == Hits(ns, raw)
          named == {x \in hits : truth[x].named # NoVector} IN
      /\ \A q \in Queries, k \in Ks :
           /\ Untombstoned(active.index) =>
                BestOf(ShardSearch(ns, q, k, Parse(raw)), hits, k,
                       LAMBDA x : Score(q, truth[x].vec))
           /\ Untombstoned(active.named.index) =>
                BestOf(ShardSearchNamed(ns, q, k, Parse(raw)), named, k,
                       LAMBDA x : Score(q, truth[x].named))
      /\ \A t \in Tokens : ShardText(ns, {t}, Parse(raw)) = {x \in hits : truth[x].text[t] > 0}
=============================================================================
