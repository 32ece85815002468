----------------------------- MODULE MCSegment -----------------------------
(* Small instances of Segment and ShardQueries. *)
EXTENDS ShardQueries

\* Readers are interchangeable.
Symmetry == Permutations(Readers)

MCKeys == 1..3
MCNamespaceOf == [k \in MCKeys |-> IF k = 3 THEN "other" ELSE "default"]
MCLevel == <<0, 0, 3, 1, 1, 0, 1, 0>>      \* deterministicLevel(1..8, 2)

MCConfigs == {[index |-> "flat", named |-> "hnsw"], [index |-> "hnsw", named |-> "scan"]}

Rec(v, year, tag, a, n) ==
    [vec |-> v, meta |-> [f \in Fields |-> IF f = "year" THEN year ELSE tag], named |-> n,
     text |-> [t \in Tokens |-> IF t = "a" THEN a ELSE 0]]
MCRecords == {Rec(1, Number(1), NoValue, 2, 4), Rec(3, GoInt(2), Text(1, {"w"}), 1, 1)}

Year(o) == FieldClause("year", o)
Tag(o) == FieldClause("tag", o)
MCFilters ==
    {{},
     {Year({Op("$gt", {Number(0)}), Op("$gte", {Number(1)}), Op("$lte", {Number(1)})}),
      Tag({Op("$exists", {Bool(FALSE)})})},
     {Logical("not", {{Year({Op("$in", {Number(1), Text(1, {"w"})})})}})},
     {Logical("or", {{Tag({Op("$text", {Text(0, {"w"})})})}, {Year({Op("$lt", {Number(2)})})}})}}
=============================================================================
