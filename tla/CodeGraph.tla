----------------------------- MODULE CodeGraph -----------------------------
(* The code graph and the walks over it (packages/graph, and the gates in    *)
(* packages/collectors that read it).  A source tree is a set of FACTS, each *)
(* a statement of a file or a line of a manifest:                            *)
(*                                                                           *)
(*   load   file `in` loads `to` (a file, a package of npm, or a workspace   *)
(*          package).  `how` is "plain" (import, re-export, require and      *)
(*          import() of a literal), "opaque" (require or import() of an      *)
(*          expression), "alias" (a path the compiler's configuration maps   *)
(*          to a file) or "unvisited": where the extractor does not look,    *)
(*          the callee of a call (`require("x").y()`, `import("x").then()`), *)
(*          a class field or accessor, a default parameter                   *)
(*   start  a manifest or a framework convention names `in` as an entry      *)
(*   config rampscan.config.json names `in` as an entry                      *)
(*   route  file `in` registers a route handled by function `by`             *)
(*   call   function `by`, in file `in`, calls function `to`: "local" to a   *)
(*          function of its file, "imported" through an import, or "method"  *)
(*          on a value the extractor knows nothing of                        *)
(*   guard  the contract block says only file `in` imports file `to`         *)
(*   needs  the lock file says package `in` depends on package `to`          *)
(*                                                                           *)
(* A tree also holds a "file" fact for each file of it.                      *)
EXTENDS Walks

CONSTANTS Files, Deps, Workspace,  \* source files, npm packages, workspace packages
          EntriesOf,               \* the entry files of a workspace package
          RootOf,                  \* the application root nearest a file
          Fallbacks,               \* files tried when nothing declares an entry
          Functions, FileOf, NameOf, AuthNames

ASSUME GraphAssumption ==
  /\ IsFiniteSet(Files) /\ IsFiniteSet(Deps) /\ IsFiniteSet(Functions)
  /\ EntriesOf \in [Workspace -> SUBSET Files]
  /\ FileOf \in [Functions -> Files]
  /\ Fallbacks \subseteq Files
  /\ Files \cap Deps = {}

Hows == {"plain", "opaque", "alias", "unvisited", "start", "config", "route",
         "local", "imported", "method", "guard", "needs", "file"}

\* a fact says of files, packages and functions what its kind says of them
WellFormed(f) ==
  /\ f.how \in Hows
  /\ f.how \in {"file", "route", "plain", "opaque", "alias", "unvisited"} => f.in \in Files
  /\ f.how \in {"plain", "opaque", "alias", "unvisited"} => f.to \in Files \cup Deps \cup Workspace
  /\ f.how \in {"route", "local", "imported", "method"} => f.by \in Functions
  /\ f.how \in {"local", "imported", "method"} => f.to \in Functions
  /\ f.how = "needs" => f.in \in Deps /\ f.to \in Deps

Of(tree, hows) == {f \in tree : f.how \in hows}
Present(tree) == {f.in : f \in Of(tree, {"file"})}

-----------------------------------------------------------------------------
(* Extraction: nodes are files, packages, symbols <<file, name>> and routes  *)

\* a workspace package is entered through all its entry files
Targets(to) == IF to \in Workspace THEN EntriesOf[to] ELSE {to}

Symbol(g) == <<FileOf[g], NameOf[g]>>
RouteNode(r) == <<"route", r.in, r.by>>
Symbols(tree) == {Symbol(g) : g \in {h \in Functions : FileOf[h] \in Present(tree)}}

\* a name bound in the file or by an import is exact; any other is followed only
\* when one symbol of the project has it
Callee(tree, c) ==
  IF c.how = "method"
  THEN LET named == {s \in Symbols(tree) : s[2] = NameOf[c.to]}
       IN IF Cardinality(named) = 1 THEN named ELSE {}
  ELSE {Symbol(c.to)} \cap Symbols(tree)

LoadEdges(tree) ==
  UNION {{<<l.in, t>> : t \in Targets(l.to)} : l \in Of(tree, {"plain"})}
DeclareEdges(tree) == {<<s[1], s>> : s \in Symbols(tree)}
CallEdges(tree, hows) ==
  UNION {{<<Symbol(c.by), s>> : s \in Callee(tree, c)} : c \in Of(tree, hows)}
HandleEdges(tree) == {<<RouteNode(r), Symbol(r.by)>> : r \in Of(tree, {"route"})}

Edges(tree) == LoadEdges(tree) \cup DeclareEdges(tree) \cup HandleEdges(tree)
                 \cup CallEdges(tree, {"local", "imported", "method"})
Nodes(tree) == Present(tree) \cup UNION {Targets(l.to) : l \in Of(tree, {"plain"})}

-----------------------------------------------------------------------------
(* Where the walk starts, and how wide it was                                *)

Detected(tree) == {f.in : f \in Of(tree, {"start"})} \cap Present(tree)
Configured(tree) == {f.in : f \in Of(tree, {"config"})}

EntryFiles(tree) ==
  IF Configured(tree) # {} THEN Configured(tree) \cap Present(tree)
  ELSE IF Detected(tree) # {} THEN Detected(tree)
  ELSE Fallbacks \cap Present(tree)
Excluded(tree) == IF Configured(tree) # {} THEN Detected(tree) \ EntryFiles(tree) ELSE {}

EntryRoots(tree) == EntryFiles(tree) \cup {RouteNode(r) : r \in Of(tree, {"route"})}
Reached(tree) == Closure(Edges(tree), EntryRoots(tree))

Roots(files) == {RootOf[f] : f \in files}
UnwalkedRoots(tree) == Roots(Present(tree)) \ Roots(Present(tree) \cap Reached(tree))
\* require or import() of an expression: recorded, for it loads what it will
Opaque(tree) == Of(tree, {"opaque"})
OpaqueReached(tree) == {l \in Opaque(tree) : l.in \in Reached(tree)}

NarrowRefusal(tree) == UnwalkedRoots(tree) # {} \/ Excluded(tree) \ Reached(tree) # {}
Refused(tree) ==
  \/ UnwalkedRoots(tree) # {}
  \/ Excluded(tree) \ Reached(tree) # {}
  \/ OpaqueReached(tree) # {}

-----------------------------------------------------------------------------
(* The advisory gate and the SAST gate.  `sbom`: whether the manifest graph   *)
(* was there to continue the walk from what the code reached.                *)

DependsOn(tree) == {<<n.in, n.to>> : n \in Of(tree, {"needs"})}
Arrived(tree, sbom) ==
  LET byCode == Reached(tree) \cap (Files \cup Deps)
  IN IF sbom THEN byCode \cup Closure(DependsOn(tree), byCode \cap Deps) ELSE byCode

WalkedNodes(tree, sbom) == Nodes(tree)

\* true, false (not affected) or unknown, which counts
Reachability(tree, sbom, x) ==
  IF EntryFiles(tree) = {} THEN "unknown"
  ELSE IF x \in Arrived(tree, sbom) THEN "true"
  ELSE IF x \notin WalkedNodes(tree, sbom) \/ Refused(tree) THEN "unknown"
  ELSE "false"

NotAffected(tree, sbom) ==
  {x \in Deps \cup Present(tree) : Reachability(tree, sbom, x) = "false"}

-----------------------------------------------------------------------------
(* Route coverage and the declared contract                                  *)

AuthSymbols(tree) == {s \in Symbols(tree) : s[2] \in AuthNames}
ChainFrom(tree, r, hows) ==
  Closure(HandleEdges(tree) \cup CallEdges(tree, hows), {RouteNode(r)})

AuthReached(tree, r) ==
  ChainFrom(tree, r, {"local", "imported", "method"}) \cap AuthSymbols(tree) # {}
\* a chain every hop of which was resolved to a declaration
AuthNamed(tree, r) == AuthReached(tree, r)
AuthExact(tree, r) == ChainFrom(tree, r, {"local", "imported"}) \cap AuthSymbols(tree) # {}

\* loads into a guarded file from anywhere but the file the contract allows
Breaches(tree) ==
  {l \in Of(tree, {"plain"}) :
     \E g \in Of(tree, {"guard"}) :
       g.to \in Targets(l.to) /\ l.in \notin {g.in, g.to}}

\* the verdict of a recipe over the rows its gate observed
RouteVerdict(tree) ==
  IF Of(tree, {"route"}) = {} THEN "unevidenced"
  ELSE IF \A r \in Of(tree, {"route"}) : AuthReached(tree, r) THEN "evidenced" ELSE "violated"
BoundaryVerdict(tree) ==
  IF Of(tree, {"guard"}) = {} THEN "unevidenced"
  ELSE IF /\ \A g \in Of(tree, {"guard"}) : g.to \in Nodes(tree)
          /\ Breaches(tree) = {}
       THEN "evidenced" ELSE "violated"

Recipes == {"route-auth-coverage", "arch-boundaries-hold"}
Verdict(recipe, tree) ==
  IF recipe = "route-auth-coverage" THEN RouteVerdict(tree) ELSE BoundaryVerdict(tree)

-----------------------------------------------------------------------------
(* What the program does, which the graph is a reading of                     *)

\* loads that happen when the program runs, by the kinds of statement counted
Loaded(tree, hows, listed) ==
  LET starts == EntryFiles(tree) \cup Detected(tree)
      loads  == UNION {{<<l.in, t>> : t \in Targets(l.to)} : l \in Of(tree, hows)}
      chain  == IF listed THEN DependsOn(tree) ELSE {}
  IN Closure(loads \cup chain, starts)

\* the functions a route really runs
Runs(tree, r) ==
  Closure({<<c.by, c.to>> : c \in Of(tree, {"local", "imported", "method"})}, {r.by})
=============================================================================
