--------------------------- MODULE MetadataFilter ---------------------------
(***************************************************************************)
(* Metadata filters: the expression a request's filter object parses to,   *)
(* and its evaluation over a segment's metadata index.                     *)
(***************************************************************************)
EXTENDS MetadataIndex

CONSTANT NoExpr   \* the nil expression

-----------------------------------------------------------------------------
(* Filters.  A filter object is a set of clauses; an operator's operand is *)
(* the set of its values, one value but for $in and $nin.                  *)

FieldClause(f, ops)  == [type |-> "field", field |-> f, ops |-> ops, args |-> {}]
Logical(type, args)  == [type |-> type, field |-> "", ops |-> {}, args |-> args]
Op(name, vs)         == [name |-> name, operand |-> vs]

Predicate(f, o)  == [kind |-> "predicate", field |-> f, op |-> o.name,
                     value |-> o.operand, children |-> {}]
Junction(kind, children) ==
    [kind |-> kind, field |-> "", op |-> "", value |-> {}, children |-> children]
One(children) == IF Cardinality(children) = 1 THEN CHOOSE c \in children : TRUE
                 ELSE Junction("and", children)

\* parseField: several operators on one field are ANDed.
parseField(clause) == One({Predicate(clause.field, o) : o \in clause.ops})

RECURSIVE Parse(_)
ParseClause(c) ==
    CASE c.type = "field" -> parseField(c)
      [] c.type = "not"   -> Junction("not", {Parse(a) : a \in c.args})
      [] OTHER            -> Junction(c.type, {Parse(a) : a \in c.args})
\* Parse: an empty object is no filter, the clauses of an object are ANDed.
Parse(raw) == IF raw = {} THEN NoExpr ELSE One({ParseClause(c) : c \in raw})

-----------------------------------------------------------------------------
(* Evaluation *)

rangeMatches(v, op, target) ==
    CASE op = "$gt" -> v > target [] op = "$gte" -> v >= target
      [] op = "$lt" -> v < target [] op = "$lte" -> v <= target

\* sort.Search: the first position of the sorted base whose value satisfies P.
FirstWhere(base, P(_)) ==
    LET hits == {k \in 1..Len(base) : P(base[k].value)} IN
    IF hits = {} THEN Len(base) + 1 ELSE CHOOSE k \in hits : \A j \in hits : k <= j

\* numericRange: a slice of the base without the invalidated entries, and the
\* delta entries that are still current.
numericRange(i, f, op, target) ==
    LET n == i.numeric[f]
        start == CASE op = "$gt"  -> FirstWhere(n.base, LAMBDA v : v > target)
                   [] op = "$gte" -> FirstWhere(n.base, LAMBDA v : v >= target)
                   [] OTHER -> 1
        end   == CASE op = "$lt"  -> FirstWhere(n.base, LAMBDA v : v >= target)
                   [] op = "$lte" -> FirstWhere(n.base, LAMBDA v : v > target)
                   [] OTHER -> Len(n.base) + 1
    IN  {n.base[k].id : k \in {j \in start..(end - 1) : n.base[j].id \notin n.invalid}}
        \cup {e.id : e \in {d \in ToSet(n.delta) :
                 d.id \in DOMAIN n.current /\ n.current[d.id] = d.value
                 /\ rangeMatches(d.value, op, target)}}

postingSet(i, f, v) == PostingOf(i, f, canonical(v)).ids

\* Index.predicate
predicate(i, e) ==
    LET f == e.field
        v == CHOOSE x \in e.value : TRUE
        listed == UNION {postingSet(i, f, x) : x \in e.value} IN
    CASE e.op = "$exists" -> IF v = Bool(TRUE) THEN i.present[f] ELSE i.universe \ i.present[f]
      [] e.op = "$eq"  -> postingSet(i, f, v)
      [] e.op = "$ne"  -> i.present[f] \ postingSet(i, f, v)
      [] e.op = "$in"  -> listed
      [] e.op = "$nin" -> i.present[f] \ listed
      [] e.op = "$text" -> {id \in DOMAIN i.values[f] :
                              /\ i.values[f][id].kind = "string"
                              /\ v.words \subseteq i.values[f][id].words}
      [] IsNumber(v) -> numericRange(i, f, e.op, v.num)
      [] OTHER -> {id \in DOMAIN i.values[f] :
                     /\ i.values[f][id].kind = "string"
                     /\ rangeMatches(i.values[f][id].num, e.op, v.num)}

RECURSIVE Evaluate(_, _)
\* Index.Evaluate
Evaluate(i, e) ==
    CASE e = NoExpr -> i.universe
      [] e.kind = "and" -> {id \in i.universe : \A c \in e.children : id \in Evaluate(i, c)}
      [] e.kind = "or"  -> UNION {Evaluate(i, c) : c \in e.children}
      [] e.kind = "not" -> i.universe \ UNION {Evaluate(i, c) : c \in e.children}
      [] OTHER -> predicate(i, e)
=============================================================================
