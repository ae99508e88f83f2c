------------------------------ MODULE Toolmap ------------------------------
(* Who feeds whom: recipes, the collectors that evidence them, the tools     *)
(* those spawn and the artifacts they hand to each other, as `rampscan       *)
(* tools` derives it and as a dry run chooses its collectors.                *)
(*                                                                           *)
(* Source: packages/cli/src/tools.ts, dryRunnable in packages/cli/src/       *)
(* check.ts, the manifests and tools.json of packages/collectors.            *)
EXTENDS Walks, SequencesExt

CONSTANTS RecipeIds,    \* recipe ids
          Order,      \* allCollectors: every collector, in execution order
          Artifacts,
          ToolNames,
          PinnedTools,   \* those of them tools.json pins
          Absent

Registered == ToSet(Order)

ASSUME OrderIsList == Order \in Seq(Registered)

VARIABLES manifest,   \* [Registered -> [recipes, inputs, outputs, tools]]
          catalog     \* [RecipeIds -> [ksis, controls, collector, overlap] or Absent]

Catalog == {r \in RecipeIds : catalog[r] # Absent}

ProducersOf(a) == {k \in Registered : a \in manifest[k].outputs}
Feeders(k) == UNION {ProducersOf(a) : a \in manifest[k].inputs}

\* upstreamTools: a walk against the flow of artifacts, each collector once
FedBy == UNION {{<<k, p>> : p \in Feeders(k)} : k \in Registered}
Upstream(k) == Closure(FedBy, {k}) \ {k}
ViaInputs(k) == UNION {{<<t, p>> : t \in manifest[p].tools} : p \in Upstream(k)}

UnproducibleInputs(k) == {a \in manifest[k].inputs : ProducersOf(a) = {}}

UnclaimedRecipe(r) == r \notin manifest[catalog[r].collector].recipes

\* toolMapProblems
ToolMapBrokenAtGates ==
  \E r \in Catalog :
    \/ catalog[r].collector \notin Registered \/ UnclaimedRecipe(r)
    \/ UnproducibleInputs(catalog[r].collector) # {}
ToolMapBroken ==
  \/ \E r \in Catalog : catalog[r].collector \notin Registered \/ UnclaimedRecipe(r)
  \/ \E k \in Registered :
       \/ ~ (manifest[k].recipes \subseteq Catalog)
       \/ UnproducibleInputs(k) # {}
       \/ ~ (manifest[k].tools \subseteq PinnedTools)

-----------------------------------------------------------------------------
(* dryRunnable: one pass over the order; pure collectors that only consume   *)
(* what earlier members produce.                                             *)
Runnable(run, k) ==
  /\ manifest[k].tools = {}
  /\ \A a \in manifest[k].inputs : \E p \in run : a \in manifest[p].outputs

DryRun ==
  LET run[n \in 0 .. Len(Order)] ==
        IF n = 0 THEN {}
        ELSE IF Runnable(run[n - 1], Order[n]) THEN run[n - 1] \cup {Order[n]} ELSE run[n - 1]
  IN run[Len(Order)]
=============================================================================
