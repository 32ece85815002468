--------------------------- MODULE MetadataIndex ---------------------------
(***************************************************************************)
(* The index a segment keeps over its records' metadata, and the form it   *)
(* is persisted in.  Operators only; Segment keeps the index as state.     *)
(*                                                                         *)
(* A metadata value is [kind, num, words, go].  kind is "number",          *)
(* "string", "bool" or "list" (which is no scalar).  Strings are told      *)
(* apart by the words they contain and ordered by num.  go is the Go type  *)
(* that holds a number: "float64" after JSON, "int" when an embedding      *)
(* program wrote it.                                                       *)
(* Ordinal sets are bitmaps in the code, sets here.                        *)
(***************************************************************************)
EXTENDS Integers, Sequences, FiniteSets, SequencesExt

CONSTANTS
    Fields,        \* metadata field names
    NoValue,       \* the field is missing
    DeltaLimit,    \* numericField.mergeIfNeeded: deltaLimit
    DenseAt        \* posting.Add: the size at which a posting becomes a bitmap

Number(n)  == [kind |-> "number", num |-> n, words |-> {}, go |-> "float64"]
GoInt(n)   == [kind |-> "number", num |-> n, words |-> {}, go |-> "int"]
Text(n, w) == [kind |-> "string", num |-> n, words |-> w, go |-> "string"]
Bool(b)    == [kind |-> "bool", num |-> IF b THEN 1 ELSE 0, words |-> {}, go |-> "bool"]
List       == [kind |-> "list", num |-> 0, words |-> {}, go |-> "slice"]

Scalar(v)   == v # NoValue /\ v.kind # "list"
IsNumber(v) == v # NoValue /\ v.kind = "number"

\* canonical: an integer is written in digits; FormatFloat 'g' turns to the
\* exponent form from a million on.
ExponentFrom == 1000000
canonical(v) ==
    CASE v.kind = "string" -> <<"s", v.words, v.num>>
      [] v.kind = "bool"   -> <<"b", {}, v.num>>
      [] v.kind = "number" /\ v.go = "float64" /\ v.num >= ExponentFrom -> <<"e", {}, v.num>>
      [] OTHER -> <<"d", {}, v.num>>

\* What a JSON encoding and decoding makes of a value.
JSONRoundTrip(v) == IF IsNumber(v) THEN Number(v.num) ELSE v

-----------------------------------------------------------------------------
(* The index *)

EmptyPosting == [dense |-> FALSE, ids |-> {}]
NoNumbers == [base |-> <<>>, delta |-> <<>>, current |-> <<>>, invalid |-> {}, stale |-> 0]

NewIndex == [universe |-> {},
             values   |-> [f \in Fields |-> <<>>],
             postings |-> [f \in Fields |-> <<>>],
             present  |-> [f \in Fields |-> {}],
             numeric  |-> [f \in Fields |-> NoNumbers]]

Put(map, k, v)  == [x \in DOMAIN map \cup {k} |-> IF x = k THEN v ELSE map[x]]
Drop(map, k)    == [x \in DOMAIN map \ {k} |-> map[x]]

\* posting.Add and Remove: once a bitmap, always a bitmap.
PostingAdd(p, id) == [dense |-> p.dense \/ Cardinality(p.ids \cup {id}) >= DenseAt,
                      ids |-> p.ids \cup {id}]
PostingRemove(p, id) == [p EXCEPT !.ids = @ \ {id}]
PostingOf(i, f, key) == IF key \in DOMAIN i.postings[f] THEN i.postings[f][key] ELSE EmptyPosting

Entry(id, v) == [id |-> id, value |-> v]
ByValue(a, b) == a.value < b.value \/ (a.value = b.value /\ a.id < b.id)
SortedNumbers(current) ==
    SetToSortSeq({Entry(id, current[id]) : id \in DOMAIN current}, ByValue)

\* numericField.mergeIfNeeded: a full delta, or that many stale entries, is
\* folded into a new sorted base.
mergeIfNeeded(n) ==
    IF Len(n.delta) < DeltaLimit /\ n.stale < DeltaLimit THEN n
    ELSE [n EXCEPT !.base = SortedNumbers(n.current), !.delta = <<>>,
                   !.invalid = {}, !.stale = 0]

insertNumeric(n, id, v) ==
    mergeIfNeeded([n EXCEPT !.current = Put(@, id, v), !.delta = Append(@, Entry(id, v))])

\* Mutant: an entry of the base stays valid when its record is deleted.
deleteNumericOnly(n, id, v) ==
    IF id \in DOMAIN n.current /\ n.current[id] = v
    THEN mergeIfNeeded([n EXCEPT !.current = Drop(@, id), !.stale = @ + 1]) ELSE n

deleteNumeric(n, id, v) ==
    IF id \in DOMAIN n.current /\ n.current[id] = v
    THEN mergeIfNeeded([n EXCEPT !.current = Drop(@, id), !.invalid = @ \cup {id},
                                 !.stale = @ + 1])
    ELSE n

\* Index.Delete
IndexDelete(i, id) ==
    LET had(f) == id \in DOMAIN i.values[f]
        old(f) == i.values[f][id] IN
    [universe |-> i.universe \ {id},
     values   |-> [f \in Fields |-> Drop(i.values[f], id)],
     postings |-> [f \in Fields |->
                     IF had(f) THEN [i.postings[f] EXCEPT ![canonical(old(f))] =
                                       PostingRemove(@, id)]
                     ELSE i.postings[f]],
     present  |-> [f \in Fields |-> i.present[f] \ {id}],
     numeric  |-> [f \in Fields |->
                     IF had(f) /\ IsNumber(old(f))
                     THEN deleteNumeric(i.numeric[f], id, old(f).num) ELSE i.numeric[f]]]

\* Index.Upsert: the old values go first; what is not scalar is not indexed.
IndexUpsert(index, id, metadata) ==
    LET i == IndexDelete(index, id)
        put(f) == Scalar(metadata[f])
        key(f) == canonical(metadata[f]) IN
    [universe |-> i.universe \cup {id},
     values   |-> [f \in Fields |-> IF put(f) THEN Put(i.values[f], id, metadata[f])
                                    ELSE i.values[f]],
     postings |-> [f \in Fields |->
                     IF put(f) THEN Put(i.postings[f], key(f),
                                        PostingAdd(PostingOf(i, f, key(f)), id))
                     ELSE i.postings[f]],
     present  |-> [f \in Fields |-> IF put(f) THEN i.present[f] \cup {id} ELSE i.present[f]],
     numeric  |-> [f \in Fields |->
                     IF put(f) /\ IsNumber(metadata[f])
                     THEN insertNumeric(i.numeric[f], id, metadata[f].num)
                     ELSE i.numeric[f]]]

-----------------------------------------------------------------------------
(* Persistence *)

\* MarshalRecords: an index over the records in their order.
IndexOf(metadatas) ==
    FoldLeft(LAMBDA i, n : IndexUpsert(i, n, metadatas[n]), NewIndex,
             [n \in 1..Len(metadatas) |-> n])

\* LoadBinary refuses a posting whose key is not that of the decoded value.
LoadAccepts(i) ==
    \A f \in Fields : \A key \in DOMAIN i.postings[f] :
        \A id \in i.postings[f][key].ids : canonical(JSONRoundTrip(i.values[f][id])) = key

\* MarshalBinary then LoadBinary: the sorted numbers become the base.
LoadBinary(i) ==
    [i EXCEPT
       !.values  = [f \in Fields |-> [id \in DOMAIN @[f] |-> JSONRoundTrip(@[f][id])]],
       !.numeric = [f \in Fields |->
                      [NoNumbers EXCEPT !.base = SortedNumbers(i.numeric[f].current),
                                        !.current = i.numeric[f].current]]]
=============================================================================
