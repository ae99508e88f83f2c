------------------------------ MODULE MCReach ------------------------------
(* Three files in two application roots (`tool` has a manifest of its own),  *)
(* two packages, a workspace package built for two targets, four functions.  *)
(* A behaviour is one of the gates over the graph or of one collector.       *)
EXTENDS Reach, Collectors

CONSTANTS main, lib, tool, d1, d2, ws, rootA, rootB, handle, check, auth, other

MCEntriesOf == [w \in Workspace |-> {lib, tool}]
MCRootOf == [f \in Files |-> IF f = tool THEN rootB ELSE rootA]
MCFileOf == [g \in Functions |-> CASE g = auth -> lib [] g = other -> tool [] OTHER -> main]
MCNameOf == [g \in Functions |->
              CASE g = handle -> "handle" [] g \in {auth, other} -> "auth" [] g = check -> "check"]
File(f) == [how |-> "file", in |-> f]
Start(f) == [how |-> "start", in |-> f]
Config(f) == [how |-> "config", in |-> f]
Load(how, f, t) == [how |-> how, in |-> f, to |-> t]
Needs(d, e) == [how |-> "needs", in |-> d, to |-> e]
Call(how, f, g, h) == [how |-> how, in |-> f, by |-> g, to |-> h]

MCFirstTree == {File(main), File(lib), Start(main),
                [how |-> "route", in |-> main, by |-> handle]}
MCFacts == {File(tool), Load("plain", main, ws), Load("plain", main, lib),
            Load("plain", lib, d1), Load("plain", lib, d2), Load("opaque", main, d2),
            Load("unvisited", main, d1), Config(lib), Start(lib),
            [how |-> "guard", in |-> tool, to |-> lib], Needs(d1, d2), Call("local", main, handle, check), Call("imported", main, check, auth),
            Call("method", main, handle, other)}

-----------------------------------------------------------------------------
(* The collectors' scenes: the files that matter to one, and what they may   *)
(* hold.  Steps of a CI file are taken in four combinations.                 *)
Scene(w, contents) == [who |-> w, contents |-> contents]
Steps == {{}, {"unpinned"}, {"pinned", "local"}, {"attest", "test"}}
MCScenes ==
  {Scene("gates", <<>>),
   Scene("repo-facts", [p \in Manifests |-> {{}}]),
   Scene("repo-facts", [p \in Workflows \cup Composites |-> Steps]),
   Scene("repo-facts", [p \in Named(Automation \o Owners) |-> {{}}]),
   Scene("repo-facts", [p \in Named(Disclosures) |-> {{}, {"text"}}]),
   Scene("repo-facts", [p \in {"Dockerfile"} |-> {{}, {"user"}}]),
   Scene("documents", [p \in {GraphConfigFile} |-> {{}, {"policy"}, {"policy", "system"}, {"invalid"}}]
                        @@ [p \in {Documents.policy, Documents.system} |-> {{}, {"text"}}]),
   Scene("gitleaks", [p \in Sources |-> {{}, {"secret"}}]),
   Scene("semgrep", [p \in Sources |-> {{}, {"danger"}}]),
   Scene("syft", [p \in {"package.json", "package-lock.json"} |-> {{}}]),
   Scene("osv-scanner", [p \in Lockfiles |-> {{}, {"vulnerable"}}]),
   Scene("checkov", [p \in Workflows \cup Composites \cup Terraform |-> {{}, {"misconfigured"}}]),
   Scene("spectral", [p \in Specs |-> {{}, {"warning"}, {"error"}}]),
   Scene("grype", [p \in {"Dockerfile"} |-> {{}, {"critical"}, {"scratch"}}])}

\* at most two rows of two columns, and every op with every op as its filter
Row(f, g) == [c \in {"f", "g"} \ ({x \in {"f"} : f = 0} \cup {x \in {"g"} : g = 0}) |-> IF c = "f" THEN Num(f) ELSE Num(g)]
MCTables == UNION {[1..n -> {Row(f, g) : f \in 0..2, g \in 0..1}] : n \in 0..2}
Clauses(field) ==
  {Require(field, o, v) : o \in {"eq", "lte", "gte"}, v \in {Num(1), Num(2)}}
    \cup {Require(field, o, Null) : o \in {"exists", "not_exists"}}
    \cup {Require(field, "in", <<"list", {Num(2), Num(3)}>>)}
MCAsked ==
  {[c EXCEPT !.where = w] :
     c \in Clauses("f") \cup {Require("f", o, Num(n)) : o \in CountOps, n \in 0..1},
     w \in {{}} \cup {{d} : d \in Clauses("g")}}

BothInit == ReachInit /\ CollectInit
BothNext == \/ who = "gates" /\ ReachNext /\ UNCHANGED collectVars
            \/ who # "gates" /\ CollectNext /\ UNCHANGED reachVars
BothSpec == BothInit /\ [][BothNext]_<<reachVars, collectVars>>
=============================================================================
