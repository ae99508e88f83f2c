--------------------------------- MODULE Board ---------------------------------
(***************************************************************************)
(* The board as of an instant, and what moved since a baseline             *)
(* (packages/projector/src/diff.ts): two folds of the same ledger (module  *)
(* Chains), compared cell by cell.                                         *)
(***************************************************************************)
EXTENDS Chains

\* A cell for every recipe of the catalog once the repository is known, and for
\* any other that was ingested or scoped.
Cells(S) ==
  {r \in Recipe : (S # {} /\ Anchors[r] # <<>>) \/ Chain(S, r) # {} \/ Scopings(S, r) # {}}

StateOf(S, r) == IF r \in Cells(S) THEN Register(S, r).state ELSE "none"

\* The distinct instants of the evidence are the scans.
ScanInstants(S) == {log[i].at : i \in Evidence(S)}

\* A baseline is any instant before the board's; "previous" is the second-newest
\* scan, and there may be none.
Previous(asOf) ==
  {b \in ScanInstants(InScope(asOf)) :
     Cardinality({t \in ScanInstants(InScope(asOf)) : t > b}) = 1}

Baselines(asOf) == 0..(asOf - 1) \cup {b \in Previous(asOf) : b < asOf}

\* By where the cell is now, then by where it was.
ClassifyChange(from, to) ==
  IF to = "none" THEN "removed"
  ELSE IF to = "violated" THEN "newly-violated"
  ELSE IF from = "none" THEN "appeared"
  ELSE CASE to = "notApplicable" -> "scoped"
         [] to = "evidenced" -> IF from = "violated" THEN "resolved" ELSE "newly-evidenced"
         [] to = "unevidenced" -> IF from = "notApplicable" THEN "unscoped" ELSE "evidence-lapsed"

\* The cells whose state is not what it was; refreshed evidence of the same
\* verdict is no change.
DiffRegisters(baseline, asOf) ==
  LET before == InScope(baseline)
      after == InScope(asOf)
      changed == {[recipe |-> r, from |-> StateOf(before, r), to |-> StateOf(after, r)] :
                    r \in Cells(before) \cup Cells(after)}
  IN {[recipe |-> c.recipe, kind |-> ClassifyChange(c.from, c.to),
       introducedAt |-> Register(after, c.recipe).introducedAt] : c \in {x \in changed : x.from # x.to}}
=============================================================================
