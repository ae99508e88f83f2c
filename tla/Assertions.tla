------------------------------ MODULE Assertions ------------------------------
(* The two evaluators of a recipe's assertions: over the rows a collector    *)
(* observed (packages/core/src/assert.ts) and over the documents a cloud run *)
(* returned, by label (packages/core/src/assert-labeled.ts).                 *)
(*                                                                           *)
(* A value is <<kind, payload>>: "null", "bool", "num", "text", "time" (a    *)
(* text that parses as an instant) or "list", whose payload is a set of      *)
(* values.  A row is a function from the fields it has to values, and a      *)
(* clause a record of field, op and value; an assertion has a set `where` of *)
(* clauses besides.  Time is counted in days.                                *)
EXTENDS Naturals, Sequences, FiniteSets, SequencesExt

Null == <<"null", 0>>
Bool(b) == <<"bool", b>>
Num(n) == <<"num", n>>
Text(s) == <<"text", s>>

\* strict equality: of kind, then of payload
Same(v, w) == v[1] = w[1] /\ v[2] = w[2]

Lookup(row, field) == IF field \in DOMAIN row THEN row[field] ELSE Null

Young(v, limit, now) == v[1] = "time" /\ limit[1] = "num" /\ now <= v[2] + limit[2]

ClauseHolds(row, clause, now) ==
  LET v == Lookup(row, clause.field)
      w == clause.value
      numbers == v[1] = "num" /\ w[1] = "num"
  IN CASE clause.op = "eq"           -> Same(v, w)
       [] clause.op = "exists"       -> v[1] # "null"
       [] clause.op = "not_exists"   -> v[1] = "null"
       [] clause.op = "in"           -> w[1] = "list" /\ \E x \in w[2] : Same(v, x)
       [] clause.op = "lte"          -> numbers /\ v[2] <= w[2]
       [] clause.op = "gte"          -> numbers /\ v[2] >= w[2]
       [] clause.op = "max_age_days" -> Young(v, w, now)

CountOps == {"count_eq", "count_lte"}
CountHolds(a, n) == a.value[1] = "num" /\ (n = a.value[2] \/ (a.op = "count_lte" /\ n < a.value[2]))

\* the fix pointer of a failing row: the first of the fields that has a text;
\* a path that is a chain of calls is no file
FirstText(row, fields) ==
  LET has == {i \in DOMAIN fields : Lookup(row, fields[i])[1] = "text"}
  IN IF has = {} THEN Null ELSE row[fields[Min(has)]]

OffenderPointer(row) ==
  [file  |-> FirstText(row, <<"path", "file", "workflow">>),
   check |-> FirstText(row, <<"check_id", "rule_id", "code", "advisory", "action">>)]

\* at most so many pointers ride on a result; the count is of all of them
WithOffenders(passed, population, failing, limit) ==
  [passed |-> passed, population |-> population,
   offenders |-> IF passed THEN 0 ELSE Len(failing),
   pointers |-> IF passed THEN <<>> ELSE SubSeq(failing, 1, Min({limit, Len(failing)}))]

\* the population is of the observation, before the clause filters it
EvaluateAssertion(a, rows, now) ==
  LET filtered  == SelectSeq(rows, LAMBDA r : \A w \in a.where : ClauseHolds(r, w, now))
      offenders == IF a.op \in CountOps THEN filtered
                   ELSE SelectSeq(filtered, LAMBDA r : ~ClauseHolds(r, a, now))
      passed    == IF a.op \in CountOps THEN CountHolds(a, Len(filtered)) ELSE offenders = <<>>
      pointers  == [i \in DOMAIN offenders |-> OffenderPointer(offenders[i])]
  IN WithOffenders(passed, Len(rows), pointers, 5)

-----------------------------------------------------------------------------
(* Labelled documents: a label's document is the sequence of the elements    *)
(* its last projection yields, an element a function from paths to the       *)
(* sequence of values found there ("@" is the element itself).  An           *)
(* assertion names a label, whether its path has a projection, and a leaf.   *)

\* loose equality, a text being read as JSON would write the scalar
Spelled(v) == CASE v[1] = "bool" -> IF v[2] THEN "true" ELSE "false"
                [] v[1] = "num"  -> ToString(v[2])
                [] OTHER         -> ""
ScalarEq(v, w) == Same(v, w) \/ (v[1] \in {"bool", "num"} /\ w[1] = "text" /\ Spelled(v) = w[2])

\* Number(): a text that is no numeral compares with nothing
IsNumber(v) == v[1] \in {"num", "bool", "null"}
AsNumber(v) == CASE v[1] = "num" -> v[2] [] v[1] = "bool" /\ v[2] -> 1 [] OTHER -> 0

HoldsOp(op, v, w, now) ==
  LET numbers == w[1] = "num" /\ IsNumber(v)
  IN CASE op = "eq"           -> ScalarEq(v, w)
       [] op = "in"           -> w[1] = "list" /\ \E x \in w[2] : ScalarEq(v, x)
       [] op = "lte"          -> numbers /\ AsNumber(v) <= w[2]
       [] op = "gte"          -> numbers /\ AsNumber(v) >= w[2]
       [] op = "max_age_days" -> Young(v, w, now)
       [] op = "exists"       -> v[1] # "null"
       [] op = "not_exists"   -> v[1] = "null"
       [] OTHER               -> FALSE

ValuesAt(element, path) == IF path \in DOMAIN element THEN element[path] ELSE <<>>

\* any value of the clause's path may satisfy it, of none only an absence
WhereHoldsOn(element, clause, now) ==
  LET values == ValuesAt(element, clause.field)
  IN IF values = <<>> THEN clause.op = "not_exists"
     ELSE \E i \in DOMAIN values : HoldsOp(clause.op, values[i], clause.value, now)

\* every value of the leaf must hold; an element without one fails
LeafHolds(element, a, now) ==
  LET values == ValuesAt(element, a.field)
  IN IF values = <<>> THEN a.op = "not_exists"
     ELSE \A i \in DOMAIN values : HoldsOp(a.op, values[i], a.value, now)

Refusal == WithOffenders(FALSE, 0, <<>>, 20)

Narrowed(a, elements, now) ==
  LET survivors == SelectSeq(elements, LAMBDA e : \A w \in a.where : WhereHoldsOn(e, w, now))
      failing   == IF a.op \in CountOps THEN survivors
                   ELSE SelectSeq(survivors, LAMBDA e : ~LeafHolds(e, a, now))
      passed    == IF a.op \in CountOps THEN CountHolds(a, Len(survivors)) ELSE failing = <<>>
  IN IF a.projected THEN WithOffenders(passed, Len(elements), failing, 20) ELSE Refusal

\* without a where: over all the values, flattened, at the path; an op on each
\* of none is no pass
Whole(a, values, now) ==
  LET failing == SelectSeq(values, LAMBDA v : ~HoldsOp(a.op, v, a.value, now))
      passed  == CASE a.op \in CountOps    -> CountHolds(a, Len(values))
                   [] a.op = "exists"      -> values # <<>>
                   [] a.op = "not_exists"  -> values = <<>>
                   [] OTHER                -> values # <<>> /\ failing = <<>>
  IN WithOffenders(passed, Len(values),
                   IF a.op \in CountOps \cup {"exists", "not_exists"} THEN values ELSE failing, 20)

EvaluateLabeled(a, documents, now) ==
  IF a.label \notin DOMAIN documents THEN Refusal
  ELSE LET elements == documents[a.label]
       IN IF a.where # {} THEN Narrowed(a, elements, now)
          ELSE Whole(a, FlattenSeq([i \in DOMAIN elements |-> ValuesAt(elements[i], a.field)]), now)
=============================================================================
