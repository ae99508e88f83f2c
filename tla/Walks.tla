------------------------------- MODULE Walks -------------------------------
(* What a relation reaches: the walk that the code graph's queries, the      *)
(* gates and the tool map each do with a set of what they have seen.  It is  *)
(* a recursive function over the number of steps, not a recursive operator,  *)
(* so that it can be reasoned about.                                         *)
(*                                                                           *)
(* Source: reachableSet in packages/graph/src/query.ts, upstreamTools in     *)
(* packages/cli/src/tools.ts.                                                *)
EXTENDS Naturals, FiniteSets

\* everything a relation reaches from a set of nodes
NodesOf(E) == {e[1] : e \in E} \cup {e[2] : e \in E}
Onward(E, from) == from \cup {e[2] : e \in {d \in E : d[1] \in from}}
Closure(E, S) ==
  LET n == Cardinality(NodesOf(E))
      reach[k \in 0..n] == IF k = 0 THEN S ELSE Onward(E, reach[k - 1])
  IN reach[n]
=============================================================================
