------------------------------ MODULE Frontier ------------------------------
(* The commit plane's answer to the frontier: adjudication records, the      *)
(* recipe catalog and the pinned dataset joined into rows, numbers and       *)
(* broken links, while people copy snapshots, move pins, review controls,    *)
(* write recipes and rewire collectors.  Nothing here is a process: the      *)
(* system is a tree that is edited one file at a time and a set of checks    *)
(* that pass or fail on it.                                                  *)
(*                                                                           *)
(* Source: packages/cli/src/frontier.ts, adjudications.ts, recipes.ts,       *)
(* packages/schema/src/adjudication.ts, recipe.ts.                           *)
EXTENDS Dataset, Toolmap

CONSTANTS TierTwo,       \* collectors scoped and not written
          FirstTrees,    \* trees to start from: a release, records, recipes, manifests
          MaxEdits

Dispositions == {"automatable", "partial", "narrative"}
TheirRecipes == UNION {{<<i.plane, i.recipe>> : i \in Release[r].plan} : r \in DOMAIN Release}

\* the shapes that the schemas of records, recipes and manifests demand
Cites == [source : Planes, disposition : Dispositions, agrees : BOOLEAN]
Adjudication ==
  [disposition : Dispositions, recipes : SUBSET RecipeIds, candidates : SUBSET (Registered \cup TierTwo),
   cites : Cites \cup {Absent}, answeredBy : SUBSET (Controls \X TheirRecipes), retired : BOOLEAN,
   dataset : Versions]
Recipe == [ksis : SUBSET Ksis, controls : SUBSET Controls, collector : Registered \cup TierTwo,
           overlap : SUBSET (Controls \X TheirRecipes)]
Manifest == [recipes : SUBSET RecipeIds, inputs : SUBSET Artifacts, outputs : SUBSET Artifacts,
             tools : SUBSET ToolNames]

ASSUME TreesAreTyped ==
  FirstTrees \subseteq
    [release : DOMAIN Release, record : [Controls -> Adjudication \cup {Absent}],
     catalog : [RecipeIds -> Recipe \cup {Absent}], manifest : [Registered -> Manifest]]

VARIABLES record,   \* [Controls -> adjudication or Absent]
          edits

frontierVars == <<file, pin, manifest, catalog, record, edits>>

Records == {c \in Controls : record[c] # Absent}
Live == {c \in Records : ~ record[c].retired}

-----------------------------------------------------------------------------
(* The join (buildFrontier).                                                 *)

Row(c) == record[c] # Absent          \* on the frontier: the row has our column
Rows == OnFrontier
CatalogFor(c) == {r \in Catalog : c \in catalog[r].controls}

\* upstreamDispositions: upstream's one claim, under each source that made it
Filed(c) == IF FrontierRow(c).disposition = Unstated THEN {}
            ELSE IF FrontierRow(c).sources = {} THEN {"unattributed"} ELSE FrontierRow(c).sources

WithDisposition(d) == {c \in Rows : Row(c) /\ record[c].disposition = d}
Discharged == {c \in WithDisposition("automatable") : record[c].recipes # {} /\ record[c].recipes \subseteq Catalog}
CatalogControls == UNION {catalog[r].controls : r \in Catalog}
Reachable == CatalogControls \cup WithDisposition("automatable") \cup WithDisposition("partial")
RetiredList == {c \in Records : record[c].retired}

-----------------------------------------------------------------------------
(* The broken links (frontierProblems).                                      *)

Named(c) == Filed(c) \ {"unattributed"}

\* citationProblems, for a row with a record
Misquoted(c) ==
  LET cite == record[c].cites claim == FrontierRow(c).disposition IN
  IF Named(c) = {} THEN cite # Absent
  ELSE \/ cite = Absent
       \/ cite.source \notin Named(c)
       \/ cite.disposition # claim
Miscited(c) ==
  \/ Misquoted(c)
  \/ /\ record[c].cites # Absent
     /\ record[c].cites.agrees # (FrontierRow(c).disposition = record[c].disposition)

RecordBroken(c) ==
  LET a == record[c] IN
  \/ a.dataset # pin.register
  \/ c \notin OnFrontier /\ ~ a.retired
  \/ c \in OnFrontier /\ a.retired
  \/ ~ (a.recipes \subseteq CatalogFor(c))            \* unknown, or does not claim it back
  \/ ~ (CatalogFor(c) \subseteq a.recipes)            \* claimed by the catalog, not by the record
  \/ ~ (a.candidates \subseteq Registered \cup TierTwo)
  \/ a.disposition \in {"automatable", "partial"} /\ a.recipes = {} /\ a.candidates = {}

\* catalogOverlapProblems: only upstream's plane with our subject collides
Colliding == {"pipeline"}
FrontierUndeclared(r) ==
  \E c \in catalog[r].controls \cap OnFrontier : \E u \in UpstreamRecipesFor(c) :
    u[1] \in Colliding /\ <<c, u>> \notin catalog[r].overlap
Undeclared(r) ==
  \E c \in catalog[r].controls : \E u \in UpstreamRecipesFor(c) :
    u[1] \in Colliding /\ <<c, u>> \notin catalog[r].overlap
OverlapBroken(r) ==
  \/ Undeclared(r)
  \/ \E o \in catalog[r].overlap : o[2] \notin UpstreamRecipesFor(o[1]) \/ o[1] \notin catalog[r].controls

\* remainderPointerProblems
PointerBroken(c) ==
  \/ \E p \in record[c].answeredBy : p[2] \notin UpstreamRecipesFor(p[1])
  \/ record[c].answeredBy # {} /\ record[c].disposition = "automatable"

FrontierBroken ==
  \/ \E c \in Rows : "unattributed" \in Filed(c) \/ (Row(c) /\ Miscited(c))
  \/ \E c \in Records : RecordBroken(c) \/ PointerBroken(c)
  \/ \E r \in Catalog : OverlapBroken(r)

\* validateRecipeIds
RecipeIdsBroken ==
  \E r \in Catalog :
    \/ \E k \in catalog[r].ksis : ControlsFor(k) = {}
    \/ ~ (catalog[r].controls \subseteq UNION {ControlsFor(k) : k \in catalog[r].ksis})

\* the checks of the suite: the dataset loads, and no map has a broken link
Passes == DatasetLoads /\ CatalogLoads /\ ~ FrontierBroken /\ ~ RecipeIdsBroken /\ ~ ToolMapBroken

-----------------------------------------------------------------------------
(* The edits people make, one field of one file at a time.                   *)

Toggle(S, x) == IF x \in S THEN S \ {x} ELSE S \cup {x}

Adjudicate ==
  /\ \E c \in Controls \ Records, d \in Dispositions, k \in Registered \cup TierTwo :
       record' = [record EXCEPT ![c] =
         [disposition |-> d, recipes |-> {}, candidates |-> {k}, cites |-> Absent, answeredBy |-> {},
          retired |-> FALSE, dataset |-> pin.register]]
  /\ UNCHANGED <<catalog, manifest>>

EditRecord ==
  /\ \E c \in Records :
       \/ \E d \in Dispositions : record' = [record EXCEPT ![c].disposition = d]
       \/ \E x \in Cites \cup {Absent} : record' = [record EXCEPT ![c].cites = x]
       \/ \E r \in RecipeIds : record' = [record EXCEPT ![c].recipes = Toggle(@, r)]
       \/ \E u \in TheirRecipes, d \in Controls : record' = [record EXCEPT ![c].answeredBy = Toggle(@, <<d, u>>)]
       \/ record' = [record EXCEPT ![c].retired = ~ @]
       \/ record' = [record EXCEPT ![c].dataset = pin.register]
  /\ record' # record
  /\ UNCHANGED <<catalog, manifest>>

EditCatalog ==
  /\ \/ \E r \in RecipeIds \ Catalog, k \in Registered \cup TierTwo : catalog' = [catalog EXCEPT ![r] =
          [ksis |-> Ksis, controls |-> {}, collector |-> k, overlap |-> {}]]
     \/ \E r \in Catalog :
          \/ catalog' = [catalog EXCEPT ![r] = Absent]
          \/ \E c \in Controls : catalog' = [catalog EXCEPT ![r].controls = Toggle(@, c)]
          \/ \E u \in TheirRecipes, c \in Controls : catalog' = [catalog EXCEPT ![r].overlap = Toggle(@, <<c, u>>)]
  /\ catalog' # catalog
  /\ UNCHANGED <<record, manifest>>

EditManifest ==
  /\ \E k \in Registered :
       \/ \E a \in Artifacts : \/ manifest' = [manifest EXCEPT ![k].inputs = Toggle(@, a)]
                               \/ manifest' = [manifest EXCEPT ![k].outputs = Toggle(@, a)]
       \/ \E r \in RecipeIds : manifest' = [manifest EXCEPT ![k].recipes = Toggle(@, r)]
       \/ \E t \in ToolNames : manifest' = [manifest EXCEPT ![k].tools = Toggle(@, t)]
  /\ UNCHANGED <<record, catalog>>

FrontierInit ==
  /\ \E t \in FirstTrees :
       DatasetInit(t.release) /\ record = t.record /\ catalog = t.catalog /\ manifest = t.manifest
  /\ edits = 0

FrontierNext ==
  /\ edits < MaxEdits /\ edits' = edits + 1
  /\ \/ (Refresh \/ Repin) /\ UNCHANGED <<record, catalog, manifest>>
     \/ (Adjudicate \/ EditRecord \/ EditCatalog \/ EditManifest) /\ UNCHANGED <<file, pin>>

FrontierSpec == FrontierInit /\ [][FrontierNext]_frontierVars

-----------------------------------------------------------------------------
(* Every file of the tree keeps its shape.                                   *)
FrontierTypes ==
  /\ file \in [SnapshotFiles -> DOMAIN Release] /\ pin \in [Pins -> Versions]
  /\ record \in [Controls -> Adjudication \cup {Absent}]
  /\ catalog \in [RecipeIds -> Recipe \cup {Absent}]
  /\ manifest \in [Registered -> Manifest]
  /\ edits \in Nat

(* No disagreement goes undeclared.  In a tree that passes, whatever moved   *)
(* upstream since a record or a recipe was written: a live record agrees     *)
(* with each plane of upstream that spoke of its control, or says that it    *)
(* does not, and quotes what upstream says now; and every control that both  *)
(* this catalog and upstream's pipeline plane answer is declared by our      *)
(* recipe, also where no frontier mentions it any more (frontier.ts          *)
(* citationProblems, catalogOverlapProblems).                                *)
NothingUndeclared ==
  Passes =>
    /\ \A c \in Live : \A p \in Planes :
         p \in FrontierRow(c).sources /\ FrontierRow(c).disposition # Unstated =>
           /\ record[c].cites # Absent /\ record[c].cites.disposition = FrontierRow(c).disposition
           /\ record[c].cites.agrees = (record[c].disposition = FrontierRow(c).disposition)
    /\ \A r \in Catalog : \A c \in catalog[r].controls :
         {u \in UpstreamRecipesFor(c) : u[1] = "pipeline"} \subseteq {o[2] : o \in {x \in catalog[r].overlap : x[1] = c}}

(* The numbers recount.  In a tree that passes, every record is either a     *)
(* counted row or a listed retirement and never both; what the records say   *)
(* is discharged and what the catalog claims are the same controls of the    *)
(* frontier; and the ceiling is a share: what is reachable is among what an  *)
(* indicator reaches by the count that divides it (frontier.ts rollup).      *)
NumbersRecount ==
  Passes =>
    /\ Cardinality(Records) = Cardinality(RetiredList)
         + Cardinality(WithDisposition("automatable")) + Cardinality(WithDisposition("partial"))
         + Cardinality(WithDisposition("narrative"))
    /\ RetiredList \cap Rows = {}
    /\ Discharged = {c \in WithDisposition("automatable") : CatalogFor(c) # {}}
    /\ Cardinality(Reachable) <= KsiReachedControls
    /\ \A c \in Reachable : KsisFor(c) # {}

(* A control counted as discharged can be: each of its recipes has a         *)
(* registered collector that claims it, and every collector its verdict      *)
(* rests on finds a producer for what it consumes and a pin for what it      *)
(* spawns (frontier.ts discharged, tools.ts upstreamTools).                  *)
DischargedCanRun ==
  Passes =>
    \A c \in Discharged : \A r \in record[c].recipes :
      LET k == catalog[r].collector IN
      /\ k \in Registered /\ r \in manifest[k].recipes
      /\ \A p \in {k} \cup Upstream(k) : UnproducibleInputs(p) = {} /\ manifest[p].tools \subseteq PinnedTools

(* What a dry run concludes rests on no tool and on no artifact of an        *)
(* earlier scan: where every artifact has one producer, a collector that is  *)
(* run has none of the inputs the tool map says reach it through a tool, and *)
(* all collectors it rests on run with it (check.ts dryRunnable against      *)
(* tools.ts upstreamTools).                                                  *)
DryRunRestsOnItself ==
  (\A a \in Artifacts : Cardinality(ProducersOf(a)) <= 1) =>
    \A k \in DryRun : ViaInputs(k) = {} /\ Upstream(k) \subseteq DryRun

(* What the frontier counts is there: the numbers recount, and what is       *)
(* called discharged or runnable can be run.                                 *)
CoverageHolds == NumbersRecount /\ DischargedCanRun /\ DryRunRestsOnItself
=============================================================================
