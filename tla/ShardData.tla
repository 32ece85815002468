------------------------------ MODULE ShardData ------------------------------
(***************************************************************************)
(* The data one logical shard stores, as far as the storage engine tells   *)
(* it apart.  A record is its payload (a member of Values), a key is the   *)
(* (namespace, id) pair, and a shard's contents is a view: what every key  *)
(* maps to.  A WAL mutation says for every key what it does to it: Keep    *)
(* leaves it alone, Missing deletes it, a value upserts it.                *)
(***************************************************************************)
EXTENDS Naturals, FiniteSets

CONSTANTS
    Keys,       \* record keys routed to the shard
    Values,     \* record payloads
    Missing,    \* what an absent key maps to
    Keep        \* what a mutation holds for a key it does not touch

ASSUME DataAssumption ==
    /\ IsFiniteSet(Keys)
    /\ Missing \notin Values
    /\ Keep \notin Values
    /\ Keep # Missing

Views == [Keys -> Values \cup {Missing}]
Empty == [k \in Keys |-> Missing]

\* walMutation: `Record`/`Records` of an upsert, or `Namespace`+`ID` of a delete.
Mutations == [Keys -> Values \cup {Missing, Keep}]
Nop       == [k \in Keys |-> Keep]
Touched(m) == {k \in Keys : m[k] # Keep}

\* One upsert, or a batch of them: every touched key gets a value.
Upserts == {m \in Mutations : Touched(m) # {} /\ \A k \in Touched(m) : m[k] # Missing}
\* A delete names exactly one key.
DeleteOf(k) == [j \in Keys |-> IF j = k THEN Missing ELSE Keep]
Deletes == {DeleteOf(k) : k \in Keys}
Ops     == Upserts \cup Deletes

\* The view after a mutation.
Overlay(view, m) == [k \in Keys |-> IF m[k] = Keep THEN view[k] ELSE m[k]]

\* Number of live records.
Count(view) == Cardinality({k \in Keys : view[k] # Missing})

\* The live view of a base after one more segment: its records replace older
\* ones, then its tombstones delete.
MergeSegment(base, records, dead) ==
    [k \in Keys |-> IF k \in dead THEN Missing
                    ELSE IF records[k] # Missing THEN records[k] ELSE base[k]]
=============================================================================
