----------------------------- MODULE MCFrontier -----------------------------
(* Three controls, one indicator, two recipes of ours and two of upstream's. *)
(* Four releases: the first; an overlay that changes a disposition and       *)
(* answers a control; a register that reaches one control more, under the    *)
(* overlay before; and one whose two texts of the facts part.                *)
EXTENDS Frontier

CONSTANTS c1, c2, c3, k1, u1, u2, r1, r2, scan, join, sbom, results, tool, loose, later

Facts(optional) == [ksis |-> {k1}, floors |-> 1, windows |-> 7, optionalAt |-> [x \in Classes |-> optional]]
Item(plane, recipe, proves, class) == [plane |-> plane, recipe |-> recipe, proves |-> proves, class |-> class]
Claim(d, s) == [disposition |-> d, sources |-> s]
First == [register |-> 1, overlay |-> 1, plane |-> 1, reach |-> [k \in Ksis |-> {c1, c2}],
          frontier |-> c1 :> Claim("narrative", {"aws"}) @@ c2 :> Claim(Unstated, {}) @@ c3 :> Unstated,
          plan |-> {Item("aws", u2, {c2}, "b"), Item("aws", u2, {}, "a")},
          slices |-> Facts({}), rules |-> Facts({})]
Second == [First EXCEPT !.overlay = 2, !.plane = 2,
             !.frontier = c1 :> Claim("partial", {"aws", "pipeline"}) @@ c2 :> Unstated @@ c3 :> Unstated,
             !.plan = {Item("pipeline", u1, {}, "a"), Item("pipeline", u1, {c2}, "b")}]
Third == [First EXCEPT !.register = 2, !.reach = [k \in Ksis |-> {c1, c2, c3}],
            !.frontier = c1 :> Claim("narrative", {"aws"}) @@ c2 :> Claim("partial", {"pipeline"}) @@ c3 :> Claim(Unstated, {})]
Fourth == [Third EXCEPT !.register = 3, !.frontier[c2] = Claim("partial", {}), !.slices = [Facts({}) EXCEPT !.floors = 2], !.rules = Facts({k1})]
MCRelease == <<First, Second, Third, Fourth>>

MCOrder == <<scan, join>>
OurRecipes(overlap) == r1 :> [ksis |-> {k1}, controls |-> {c2}, collector |-> join, overlap |-> overlap] @@ r2 :> Absent
Manifests ==
  scan :> [recipes |-> {}, inputs |-> {}, outputs |-> {sbom}, tools |-> {tool}] @@
  join :> [recipes |-> {r1}, inputs |-> {sbom}, outputs |-> {results}, tools |-> {}]

Written(d, recipes, cites, dataset) ==
  [disposition |-> d, recipes |-> recipes, candidates |-> {}, cites |-> cites, answeredBy |-> {},
   retired |-> FALSE, dataset |-> dataset]
Cite(source, d, agrees) == [source |-> source, disposition |-> d, agrees |-> agrees]
Tree(release, a, b, overlap) ==
  [release |-> release, record |-> c1 :> a @@ c2 :> b @@ c3 :> Absent, catalog |-> OurRecipes(overlap), manifest |-> Manifests]

\* each of the first three releases, and a tree that was brought into line with it
MCFirstTrees ==
  {Tree(1, Written("narrative", {}, Cite("aws", "narrative", TRUE), 1), Written("automatable", {r1}, Absent, 1), {}),
   Tree(2, Written("narrative", {}, Cite("pipeline", "partial", FALSE), 1),
           [Written("automatable", {r1}, Absent, 1) EXCEPT !.retired = TRUE], {<<c2, <<"pipeline", u1>>>>}),
   Tree(3, Written("narrative", {}, Cite("aws", "narrative", TRUE), 2),
           Written("partial", {r1}, Cite("pipeline", "partial", TRUE), 2), {})}
=============================================================================
