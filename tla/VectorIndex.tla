---------------------------- MODULE VectorIndex ----------------------------
(***************************************************************************)
(* The vector indexes of a segment: the exact flat index and the HNSW      *)
(* graph.  Operators only; Segment keeps an index as state.                *)
(*                                                                         *)
(* Vectors have dimension one and are compared with the L2 metric, so a    *)
(* vector is an integer and a score the negated square of a difference.    *)
(* Positions in an index (ordinals in the index packages) count from 1; 0  *)
(* stands for none.  Where the code's heaps leave the order of equal       *)
(* scores to their layout, the lowest position goes first.                 *)
(***************************************************************************)
EXTENDS Integers, Sequences, FiniteSets, SequencesExt, FiniteSetsExt

CONSTANTS
    M,                \* links a node asks for on every layer
    EFConstruction,   \* width of the search an insertion makes
    EFSearch,         \* width of a query
    Level             \* deterministicLevel: the level drawn from an id

Score(a, b) == -((a - b) * (a - b))
Candidate(id, score) == [id |-> id, score |-> score]
better(a, b) == a.score > b.score \/ (a.score = b.score /\ a.id < b.id)
TopK(candidates, k) ==
    LET sorted == SetToSortSeq(candidates, better) IN SubSeq(sorted, 1, Min({k, Len(sorted)}))

-----------------------------------------------------------------------------
(* Flat index: a slot per vector, id 0 marks a free slot. *)

NewFlat == [type |-> "flat", ids |-> <<>>, vectors |-> <<>>, ordinals |-> <<>>, free |-> <<>>]

\* Mutant: an updated id takes a new slot and leaves the old one in place.
FlatUpsertAppends(f, id, v) ==
    [f EXCEPT !.ids = Append(@, id), !.vectors = Append(@, v),
              !.ordinals = (id :> Len(f.ids) + 1) @@ @]

\* flat.Index.Upsert: in place, else the last freed slot, else a new one.
FlatUpsert(f, id, v) ==
    IF id \in DOMAIN f.ordinals THEN [f EXCEPT !.vectors[f.ordinals[id]] = v]
    ELSE IF f.free # <<>>
         THEN [f EXCEPT !.ids[Last(f.free)] = id, !.vectors[Last(f.free)] = v,
                        !.ordinals = (id :> Last(f.free)) @@ @, !.free = Front(@)]
         ELSE [f EXCEPT !.ids = Append(@, id), !.vectors = Append(@, v),
                        !.ordinals = (id :> Len(f.ids) + 1) @@ @]

FlatDelete(f, id) ==
    LET slot == f.ordinals[id] IN
    [f EXCEPT !.ordinals = [x \in DOMAIN @ \ {id} |-> @[x]], !.ids[slot] = 0,
              !.vectors[slot] = 0, !.free = Append(@, slot)]

\* flat.Index.SearchFiltered
FlatSearch(f, query, k, allowed) ==
    TopK({Candidate(f.ids[s], Score(query, f.vectors[s])) :
             s \in {t \in DOMAIN f.ids : f.ids[t] # 0 /\ f.ids[t] \in allowed}}, k)

-----------------------------------------------------------------------------
(* HNSW graph.  A node is never removed: Delete marks it. *)

NewHNSW == [type |-> "hnsw", nodes |-> <<>>, entry |-> 0, maxLevel |-> -1]

Live(h) == {n \in DOMAIN h.nodes : ~h.nodes[n].deleted}
NodeOf(h, id) == CHOOSE n \in Live(h) : h.nodes[n].id = id
Known(h, id) == \E n \in Live(h) : h.nodes[n].id = id

maxNeighbors(layer) == IF layer = 0 THEN 2 * M ELSE M
neighborsAt(h, n, layer) ==
    IF layer > h.nodes[n].level THEN <<>> ELSE h.nodes[n].neighbors[layer]
scoreAt(h, query, n) == Score(query, h.nodes[n].vec)

\* The order of equal scores is that of the ids, then of the nodes.
Nearer(h, query, a, b) ==
    \/ scoreAt(h, query, a) > scoreAt(h, query, b)
    \/ scoreAt(h, query, a) = scoreAt(h, query, b) /\ h.nodes[a].id < h.nodes[b].id
    \/ scoreAt(h, query, a) = scoreAt(h, query, b) /\ h.nodes[a].id = h.nodes[b].id /\ a < b
BestFirst(h, query, ns) == SetToSortSeq(ns, LAMBDA a, b : Nearer(h, query, a, b))

\* One pass over a node's links moves on to every better neighbour it meets,
\* still over the list the pass began with.
greedyLocked(h, query, start, layer) ==
    LET Step(c, n) == IF \/ scoreAt(h, query, n) > scoreAt(h, query, c)
                         \/ /\ scoreAt(h, query, n) = scoreAt(h, query, c)
                            /\ h.nodes[n].id < h.nodes[c].id
                      THEN n ELSE c
        walk[current \in DOMAIN h.nodes] ==
            LET next == FoldLeft(Step, current, neighborsAt(h, current, layer)) IN
            IF next = current THEN current ELSE walk[next]
    IN  walk[start]

\* The roots of the two heaps of a layer's search: the next node to visit, and
\* the score of the node that a full result would give up.
Nearest(h, query, ns) ==
    CHOOSE n \in ns : \A m \in ns \ {n} :
        \/ scoreAt(h, query, n) > scoreAt(h, query, m)
        \/ scoreAt(h, query, n) = scoreAt(h, query, m) /\ n < m
Worst(h, query, ns) == Min({scoreAt(h, query, n) : n \in ns})

\* searchLayerLocked: the nodes found, best first.  The loop keeps a frontier,
\* the best nodes so far and the visited ones; nodes of best are in accept, and
\* a node that is not is still walked through.
searchLayerLocked(h, query, entry, ef, layer, accept) ==
    LET Full(best) == Cardinality(best) >= ef
        Visit(t, n) ==
            IF n \in t.visited THEN t ELSE
            LET seen == [t EXCEPT !.visited = @ \cup {n}]
                in == ~Full(t.best) \/ scoreAt(h, query, n) > Worst(h, query, t.best)
                grown == t.best \cup {n}
                cut == CHOOSE w \in grown : /\ scoreAt(h, query, w) = Worst(h, query, grown)
                                            /\ \A x \in grown : scoreAt(h, query, x) =
                                                 Worst(h, query, grown) => x <= w
            IN  IF ~in THEN seen ELSE
                [seen EXCEPT !.frontier = @ \cup {n},
                             !.best = IF n \notin accept THEN @
                                      ELSE IF Cardinality(grown) > ef THEN grown \ {cut}
                                      ELSE grown]
        Nodes == SUBSET DOMAIN h.nodes
        explore[s \in [frontier : Nodes, best : Nodes, visited : Nodes]] ==
            LET pick == Nearest(h, query, s.frontier) IN
            IF \/ s.frontier = {}
               \/ Full(s.best) /\ scoreAt(h, query, pick) < Worst(h, query, s.best)
            THEN s.best
            ELSE explore[FoldLeft(Visit, [s EXCEPT !.frontier = @ \ {pick}],
                                  neighborsAt(h, pick, layer))]
    IN  BestFirst(h, query, explore[[frontier |-> {entry}, visited |-> {entry},
                                     best |-> {entry} \cap accept]])

\* selectNeighborsLocked: deleted candidates are passed over; a candidate
\* nearer to a kept one than to the base waits, and fills what is left.
selectNeighborsLocked(h, base, candidates, limit) ==
    LET live == SelectSeq(candidates, LAMBDA n : ~h.nodes[n].deleted)
        Pick(s, n) ==
            IF Len(s.kept) = limit THEN s
            ELSE IF \E i \in DOMAIN s.kept :
                      scoreAt(h, h.nodes[n].vec, s.kept[i]) > scoreAt(h, base, n)
                 THEN [s EXCEPT !.pruned = Append(@, n)]
                 ELSE [s EXCEPT !.kept = Append(@, n)]
        r == FoldLeft(Pick, [kept |-> <<>>, pruned |-> <<>>], live)
    IN  r.kept \o SubSeq(r.pruned, 1, Min({limit - Len(r.kept), Len(r.pruned)}))

pruneLocked(h, n, layer) ==
    LET list == h.nodes[n].neighbors[layer] IN
    IF Len(list) <= maxNeighbors(layer) THEN h
    ELSE [h EXCEPT !.nodes[n].neighbors[layer] =
            selectNeighborsLocked(h, h.nodes[n].vec,
                BestFirst(h, h.nodes[n].vec, ToSet(list)), maxNeighbors(layer))]

\* One layer of connectLocked: link both ways and prune; the descent goes on
\* from the best candidate.
ConnectLayer(s, n, layer) ==
    LET h == s.h
        v == h.nodes[n].vec
        candidates == searchLayerLocked(h, v, s.entry, EFConstruction, layer, DOMAIN h.nodes)
        selected == selectNeighborsLocked(h, v, candidates, M)
        own == pruneLocked([h EXCEPT !.nodes[n].neighbors[layer] = @ \o selected], n, layer)
        Back(g, x) == pruneLocked([g EXCEPT !.nodes[x].neighbors[layer] = Append(@, n)], x, layer)
    IN  [h |-> FoldLeft(Back, own, selected), entry |-> Head(candidates)]

connectLocked(h, n, entry, maxLevel) ==
    LET level == h.nodes[n].level
        Down(from, to) == [i \in 1..(from - to + 1) |-> from - i + 1]
        start == FoldLeft(LAMBDA e, layer : greedyLocked(h, h.nodes[n].vec, e, layer), entry,
                          Down(maxLevel, level + 1))
    IN  FoldLeft(LAMBDA s, layer : ConnectLayer(s, n, layer), [h |-> h, entry |-> start],
                 Down(Min({level, maxLevel}), 0)).h

\* insertLocked with appendNodeLocked
insertLocked(h, id, v) ==
    LET n == Len(h.nodes) + 1
        stored == [h EXCEPT !.nodes = Append(@,
                     [id |-> id, level |-> Level[id], deleted |-> FALSE, vec |-> v,
                      neighbors |-> [l \in 0..Level[id] |-> <<>>]])]
        linked == IF h.entry = 0 THEN stored ELSE connectLocked(stored, n, h.entry, h.maxLevel)
    IN  IF Level[id] > h.maxLevel THEN [linked EXCEPT !.entry = n, !.maxLevel = Level[id]]
        ELSE linked

\* buildLocked below the parallel threshold; entries are <<id, vector>>.
buildLocked(entries) ==
    FoldLeft(LAMBDA h, e : insertLocked(h, e[1], e[2]), NewHNSW, entries)

rebuildLocked(h) ==
    buildLocked([i \in 1..Cardinality(Live(h)) |->
                   LET n == SetToSortSeq(Live(h), LAMBDA a, b : a < b)[i] IN
                   <<h.nodes[n].id, h.nodes[n].vec>>])

\* hnsw.Index.Upsert: a changed vector rebuilds the graph.
HNSWUpsert(h, id, v) ==
    IF Known(h, id) THEN rebuildLocked([h EXCEPT !.nodes[NodeOf(h, id)].vec = v])
    ELSE insertLocked(h, id, v)

\* hnsw.Index.Delete: a tombstone.
HNSWDelete(h, id) == [h EXCEPT !.nodes[NodeOf(h, id)].deleted = TRUE]

\* exactFilteredLocked
exactFiltered(h, query, k, allowed) ==
    TopK({Candidate(h.nodes[n].id, scoreAt(h, query, n)) :
             n \in {m \in Live(h) : h.nodes[m].id \in allowed}}, k)

\* SearchWithOptions; allowedCount is -1 without a filter.
HNSWSearch(h, query, k, allowed, allowedCount) ==
    LET ef == Max({k, EFSearch})
        accept == {n \in Live(h) : h.nodes[n].id \in allowed}
        entry == FoldLeft(LAMBDA e, layer : greedyLocked(h, query, e, layer), h.entry,
                          [i \in 1..h.maxLevel |-> h.maxLevel - i + 1])
        found == searchLayerLocked(h, query, entry, ef, 0, accept)
    IN  IF Live(h) = {} THEN <<>>
        ELSE IF allowedCount \in 0..Max({ef, 4 * k}) THEN exactFiltered(h, query, k, allowed)
        ELSE [i \in 1..Min({k, Len(found)}) |->
                Candidate(h.nodes[found[i]].id, scoreAt(h, query, found[i]))]

\* LoadGraph: what it demands of a stored graph over the given ids.
LoadGraphAccepts(h, ids) ==
    /\ Len(h.nodes) = Len(ids)
    /\ \A n \in DOMAIN h.nodes :
         /\ h.nodes[n].id = ids[n]
         /\ \A l \in DOMAIN h.nodes[n].neighbors :
              /\ Len(h.nodes[n].neighbors[l]) <= maxNeighbors(l)
              /\ ToSet(h.nodes[n].neighbors[l]) \subseteq DOMAIN h.nodes \ {n}
    /\ IF ids = <<>> THEN h.entry = 0 /\ h.maxLevel = -1
       ELSE h.entry \in DOMAIN h.nodes /\ h.maxLevel = h.nodes[h.entry].level

-----------------------------------------------------------------------------
(* What a segment calls *)

NewVectorIndex(type) == IF type = "hnsw" THEN NewHNSW ELSE NewFlat
VectorUpsert(x, id, v) == IF x.type = "hnsw" THEN HNSWUpsert(x, id, v) ELSE FlatUpsert(x, id, v)
VectorDelete(x, id) == IF x.type = "hnsw" THEN HNSWDelete(x, id) ELSE FlatDelete(x, id)
VectorSearch(x, query, k, allowed, allowedCount) ==
    IF x.type = "hnsw" THEN HNSWSearch(x, query, k, allowed, allowedCount)
    ELSE FlatSearch(x, query, k, allowed)
VectorLen(x) == IF x.type = "hnsw" THEN Cardinality(Live(x)) ELSE Cardinality(DOMAIN x.ordinals)
=============================================================================
