------------------------------ MODULE Collectors ------------------------------
(* The collectors that look at files or run a tool (packages/collectors):    *)
(* repo-facts and documents read the checkout themselves; gitleaks, semgrep, *)
(* syft, osv-scanner, checkov, spectral and grype run a tool, from the path  *)
(* or in a container.  One behaviour follows one of them through scans of a  *)
(* checkout that is edited and committed, on a machine whose tools come and  *)
(* go, with the scan cache (packages/core/src/cache.ts) and the artifact     *)
(* directory, where the report of an earlier scan may lie.                   *)
(*                                                                           *)
(* A tree is a function from paths to contents; a content is the set of what *)
(* the collectors can tell of a file, or Gone.  Each recipe's file names are *)
(* represented by one or two; what an image or a package is known to suffer  *)
(* from does not change with time.                                           *)
EXTENDS Assertions

CONSTANTS Scenes,    \* per collector, paths and what a developer may write there
          MaxTurns,  \* bound on edits, commits, nights, and changes of the machine
          Tables, Asked,  \* rows and assertions the two evaluators are compared on
          Gone

VARIABLES scene,     \* the collector followed, and the contents its paths may have
          disk,      \* the checkout
          commit,    \* HEAD: its number, its tree, whether a secret is in its history
          host,      \* whether the tool is on the path, and the docker daemon up
          probe,     \* what this process remembers of the docker daemon
          left,      \* the report in the collector's artifact directory
          cache,     \* results of earlier scans, by key
          last,      \* the last scan's result, as the join left it
          day, turns

collectVars == <<scene, disk, commit, host, probe, left, cache, last, day, turns>>

who == scene.who

-----------------------------------------------------------------------------
(* The files each collector reads                                            *)

Lockfiles == {"package-lock.json", "pnpm-lock.yaml"}
Manifests == {"package.json"} \cup Lockfiles
Workflows == {".github/workflows/ci.yml"}
Composites == {".github/actions/build/action.yml"}
Automation == <<".github/dependabot.yml", "renovate.json">>
Owners == <<"CODEOWNERS", "docs/CODEOWNERS">>
Disclosures == <<"SECURITY.md", ".well-known/security.txt">>
Documents == [policy |-> "docs/policy.md", system |-> "docs/system.md"]
GraphConfigFile == "rampscan.config.json"
Sources == {"src/main.ts"}
Terraform == {"main.tf"}
Specs == {"openapi.yaml", "OpenAPI.json"}

Named(candidates) == {candidates[i] : i \in DOMAIN candidates}
Paths == Manifests \cup Workflows \cup Composites \cup Sources
           \cup Named(Automation) \cup Named(Owners) \cup Named(Disclosures) \cup {GraphConfigFile, "Dockerfile"}
           \cup {Documents[k] : k \in DOMAIN Documents} \cup Terraform \cup Specs

Existing(tree, paths) == {p \in paths : tree[p] # Gone}
Holding(tree, paths, trait) == {p \in Existing(tree, paths) : trait \in tree[p]}
Tracked == Existing(commit.tree, Paths)

\* what git does not list is excluded, unless git failed to list it
Committed(listed) == IF listed THEN [p \in Paths |-> IF p \in Tracked THEN disk[p] ELSE Gone] ELSE disk

Frameworks == {{"Dockerfile"}, Workflows \cup Composites, Terraform}
IacScanned == UNION {f \in Frameworks : f \cap Tracked # {}}

-----------------------------------------------------------------------------
(* What a collector observes: per recipe the rows, and the files its          *)
(* evidence is anchored to                                                   *)

\* a step's line names an action, a local one, or runs a command
Uses == {"pinned", "unpinned", "local", "attest"}
Counted(tree) ==
  Existing(tree, Workflows)
    \cup IF Holding(tree, Workflows, "local") # {} THEN Existing(tree, Composites) ELSE {}

RowsOf(S, Row(_)) == LET q == SetToSeq(S) IN [i \in DOMAIN q |-> Row(q[i])]

UsesRows(tree) ==
  RowsOf({<<p, s>> \in Existing(tree, Workflows \cup Composites) \X Uses : s \in tree[p]},
         LAMBDA u : [workflow |-> Text(u[1]), pinned_to_sha |-> Bool(u[2] # "unpinned")])

\* the first of the places a reader would look that has a file, if one has
FirstOf(candidates, tree) ==
  LET there == {i \in DOMAIN candidates : tree[candidates[i]] # Gone}
  IN IF there = {} THEN {} ELSE {candidates[Min(there)]}

\* an anchor is a path and the content it had
Observed(rows, anchors) == [rows |-> rows, on |-> [p \in anchors |-> disk[p]]]

RepoFacts(tree) ==
  LET ci == Existing(tree, Workflows)
      steps(trait) == Num(Cardinality(Holding(tree, Counted(tree), trait)))
      always ==
        [r \in {"ci-provenance-present", "tests-in-ci", "dependency-update-automation",
                "codeowners-defined", "security-disclosure-published"} |->
           CASE r = "ci-provenance-present" ->
                  Observed(<<[provenance_step_count |-> steps("attest")]>>, Counted(tree))
             [] r = "tests-in-ci" -> Observed(<<[test_step_count |-> steps("test")]>>, Counted(tree))
             [] r = "dependency-update-automation" ->
                  LET first == FirstOf(Automation, tree) IN Observed(<<[automated |-> Bool(first # {})]>>, first)
             [] r = "codeowners-defined" ->
                  LET first == FirstOf(Owners, tree) IN Observed(<<[codeowners_present |-> Bool(first # {})]>>, first)
             [] r = "security-disclosure-published" ->
                  LET first == FirstOf(Disclosures, tree)
                  IN Observed(<<[disclosure_present |-> Bool(first # {}),
                                 non_empty |-> Bool(Holding(tree, first, "text") # {})]>>, first)]
  IN always
     @@ (IF tree["package.json"] = Gone THEN <<>>
         ELSE "lockfile-pinned-deps" :>
                Observed(<<[lockfile_present |-> Bool(Existing(tree, Lockfiles) # {})]>>, Existing(tree, Manifests)))
     @@ (IF ci = {} THEN <<>>
         ELSE "ci-actions-pinned" :> Observed(UsesRows(tree), Existing(tree, Workflows \cup Composites)))
     @@ (IF tree["Dockerfile"] = Gone THEN <<>>
         ELSE "container-runs-nonroot" :>
                Observed(<<[nonroot |-> Bool("user" \in tree["Dockerfile"])]>>, {"Dockerfile"}))

\* a declaration makes a claim per kind it declares, and none of the others
Declared == IF disk[GraphConfigFile] = Gone THEN {} ELSE disk[GraphConfigFile]
RecipeFor == [policy |-> "access-control-policy-present", system |-> "system-documentation-present"]
DocumentRows ==
  [r \in {RecipeFor[k] : k \in Declared} |->
     LET p == CHOOSE d \in {Documents[k] : k \in Declared} : \E k \in Declared : RecipeFor[k] = r /\ Documents[k] = d
     IN Observed(<<[present |-> Bool(disk[p] # Gone), non_empty |-> Bool(Holding(disk, {p}, "text") # {})]>>,
                 {GraphConfigFile} \cup Existing(disk, {p}))]

Secrets == IF commit.burned THEN <<[rule_id |-> Text("key")]>> ELSE <<>>
Vulnerabilities(tree) ==
  <<[vulnerability |-> Text("one"),
     severity |-> Text(IF "critical" \in tree["Dockerfile"] THEN "CRITICAL" ELSE "LOW")]>>
Bom(tree) ==
  <<[component_count |-> Num(Cardinality(Existing(tree, Manifests))), generated_at |-> <<"time", day>>]>>
FailedChecks ==
  RowsOf(Holding(disk, IacScanned, "misconfigured"), LAMBDA p : [check_id |-> Text("CKV"), file |-> Text(p)])
LintRows ==
  RowsOf({<<p, s>> \in Existing(disk, Tracked \cap Specs) \X {"error", "warning"} : s \in disk[p]},
         LAMBDA u : [code |-> Text("oas"), severity |-> Text(u[2]), file |-> Text(u[1])])
Matches(tree) == RowsOf(Holding(tree, Sources, "danger"), LAMBDA p : [path |-> Text(p)])
Advisories(sbom) == RowsOf(Holding(sbom, Lockfiles, "vulnerable"), LAMBDA p : [id |-> Text(p)])

\* semgrep and osv-scanner produce an artifact for the gates of module
\* CodeGraph, here under its own name
Observations(listed, sbom) ==
  CASE who = "repo-facts"  -> RepoFacts(disk)
    [] who = "documents"   -> DocumentRows
    [] who = "gitleaks"    -> "no-secrets-in-history" :> Observed(Secrets, {})
    [] who = "semgrep"     -> "semgrep-results.json" :> Observed(Matches(Committed(listed)), {})
    [] who = "syft"        -> "sbom-exists-and-fresh" :> Observed(Bom(Committed(listed)), Existing(disk, Manifests))
    [] who = "osv-scanner" -> "osv-results.json" :> Observed(Advisories(sbom), {})
    [] who = "checkov"     -> "iac-baseline-clean" :> Observed(FailedChecks, Existing(disk, Tracked \cap UNION Frameworks))
    [] who = "spectral"    -> "api-spec-lint-clean" :> Observed(LintRows, Existing(disk, Tracked \cap Specs))
    [] who = "grype"       -> "container-base-image-patched" :> Observed(Vulnerabilities(disk), {"Dockerfile"})

-----------------------------------------------------------------------------
(* Running a tool                                                            *)

\* there is something of its kind to look at; a declaration that cannot be
\* read throws, like a report that cannot be
Subject(sbom) ==
  CASE who = "documents"   -> Declared # {} /\ "invalid" \notin Declared
    [] who = "osv-scanner" -> sbom # Gone
    [] who = "checkov"     -> IacScanned # {}
    [] who = "spectral"    -> Tracked \cap Specs # {}
    [] who = "grype"       -> disk["Dockerfile"] # Gone /\ "scratch" \notin disk["Dockerfile"]
    [] OTHER               -> TRUE

NeedsTool == who \notin {"repo-facts", "documents"}

\* the path first; else the pinned image, if docker answered when it was first
\* asked in this process; two look for their files before they look for the tool
Resolves == NeedsTool /\ (who \in {"checkov", "spectral"} => Subject(Gone))
Probed == IF ~Resolves \/ host.binary \/ probe # "unasked" THEN probe
         ELSE IF host.docker THEN "up" ELSE "down"
Runtime == IF host.binary THEN "binary" ELSE IF Probed = "up" THEN "docker" ELSE "absent"

\* "mute" exits 1 without writing anything, as a container that cannot start may
Ends == {"done", "mute", "failed", "killed"}
ExitCode(how, found) ==
  CASE how = "done" -> IF found THEN 1 ELSE 0 [] how = "mute" -> 1 [] how = "failed" -> 2 [] how = "killed" -> 99
MayEnd(how) ==
  /\ ~NeedsTool => how = "done"
  /\ Runtime = "docker" /\ ~host.docker => how \in {"mute", "failed"}

FindingIsExit1 == {"gitleaks", "osv-scanner", "checkov", "spectral"}
Accepts(how) ==
  LET code == ExitCode(how, FALSE) IN code = 0 \/ (code = 1 /\ who \in FindingIsExit1)

\* two write a report and leave it, which a mute run may find there again
WritesReport == who \in {"gitleaks", "osv-scanner"}
ReadsOldReport(how) == how = "mute" /\ WritesReport /\ left # Gone

Answers(how, sbom) ==
  /\ Subject(sbom)
  /\ NeedsTool => Runtime # "absent" /\ Accepts(how)
  /\ how = "mute" => ReadsOldReport(how)

-----------------------------------------------------------------------------
(* The cache: its key is taken from the commit, its result from the disk     *)

\* the paths of cacheScope; the composite actions checkov reads and the names
\* spectral matches whatever their case are not among them
Overlooked == CASE who = "checkov" -> Composites [] who = "spectral" -> {"OpenAPI.json"} [] OTHER -> {}
WithoutComposites ==
  Manifests \cup Workflows \cup {"Dockerfile"} \cup Named(Automation) \cup Named(Owners) \cup Named(Disclosures)
RepoFactsScope == WithoutComposites \cup Composites
ScopeOf ==
  CASE who = "repo-facts" -> RepoFactsScope
    [] who = "semgrep"    -> Sources
    [] who = "checkov"    -> {"Dockerfile"} \cup Workflows \cup Terraform
    [] who = "spectral"   -> {"openapi.yaml"}
    [] who = "grype"      -> {"Dockerfile"}

Key(sbom) ==
  CASE who = "gitleaks"              -> commit.id
    [] who \in {"documents", "syft"} -> commit.tree
    [] who = "osv-scanner"           -> sbom
    [] OTHER                         -> [p \in ScopeOf |-> commit.tree[p]]

-----------------------------------------------------------------------------
(* The join                                                                  *)

Require(field, op, value) == [field |-> field, op |-> op, value |-> value, where |-> {}]
NoneWhere(field, value) ==
  [field |-> field, op |-> "count_eq", value |-> Num(0), where |-> {Require(field, "eq", value)}]
NoneOf(field) == Require(field, "count_eq", Num(0))
IsTrue(field) == Require(field, "eq", Bool(TRUE))

\* recipes/commit; a producer's artifact has none and is asked to be empty
AssertionsOf(recipe) ==
  CASE recipe = "lockfile-pinned-deps"          -> {IsTrue("lockfile_present")}
    [] recipe = "ci-actions-pinned"             -> {IsTrue("pinned_to_sha")}
    [] recipe = "ci-provenance-present"         -> {Require("provenance_step_count", "gte", Num(1))}
    [] recipe = "tests-in-ci"                   -> {Require("test_step_count", "gte", Num(1))}
    [] recipe = "dependency-update-automation"  -> {IsTrue("automated")}
    [] recipe = "codeowners-defined"            -> {IsTrue("codeowners_present")}
    [] recipe = "security-disclosure-published" -> {IsTrue("disclosure_present"), IsTrue("non_empty")}
    [] recipe = "container-runs-nonroot"        -> {IsTrue("nonroot")}
    [] recipe = "no-secrets-in-history"         -> {NoneOf("rule_id")}
    [] recipe = "iac-baseline-clean"            -> {NoneOf("check_id")}
    [] recipe = "api-spec-lint-clean" ->
         {[NoneOf("code") EXCEPT !.where = {Require("severity", "eq", Text("error"))}]}
    [] recipe = "container-base-image-patched" ->
         {[NoneOf("vulnerability") EXCEPT !.where = {Require("severity", "eq", Text("CRITICAL"))}]}
    [] recipe = "sbom-exists-and-fresh" ->
         {Require("component_count", "gte", Num(1)), Require("generated_at", "max_age_days", Num(1))}
    [] recipe \in {"access-control-policy-present", "system-documentation-present"} ->
         {NoneWhere("present", Bool(FALSE)), NoneWhere("non_empty", Bool(FALSE))}
    [] OTHER -> {NoneOf("id")}

Passes(recipe, rows) == \A a \in AssertionsOf(recipe) : EvaluateAssertion(a, rows, day).passed

\* sound and since are for the properties
Result(seen, sound, since) == [seen |-> seen, sound |-> sound, since |-> since]
Skipped == Result(<<>>, TRUE, 0)

\* what the join makes of a result, now and at this commit
Joined(result) ==
  [says    |-> [r \in DOMAIN result.seen |-> Passes(r, result.seen[r].rows)],
   anchors |-> [r \in DOMAIN result.seen |-> result.seen[r].on],
   of |-> commit.id, sound |-> result.sound, old |-> day > result.since + 1]

-----------------------------------------------------------------------------
(* The machine                                                               *)

CollectInit ==
  /\ scene \in Scenes
  /\ disk = [p \in Paths |-> Gone]
  /\ commit = [id |-> 0, tree |-> disk, burned |-> FALSE]
  /\ host = [binary |-> TRUE, docker |-> TRUE] /\ probe = "unasked"
  /\ day = 0 /\ turns = 0
  /\ left = Gone /\ cache = {} /\ last = Joined(Skipped)

Turn == turns < MaxTurns /\ turns' = turns + 1

Write ==
  /\ Turn
  /\ \E p \in DOMAIN scene.contents : \E c \in scene.contents[p] \cup {Gone} :
       disk[p] # c /\ disk' = [disk EXCEPT ![p] = c]
  /\ UNCHANGED <<scene, commit, host, probe, left, cache, last, day>>

CommitDisk ==
  /\ Turn /\ disk # commit.tree
  /\ commit' = [id |-> commit.id + 1, tree |-> disk,
                burned |-> commit.burned \/ Holding(disk, Paths, "secret") # {}]
  /\ UNCHANGED <<scene, disk, host, probe, left, cache, last, day>>

\* a tool is installed or removed, docker starts or stops
Machine ==
  /\ Turn /\ NeedsTool
  /\ \E thing \in {"binary", "docker"} : host' = [host EXCEPT ![thing] = ~@]
  /\ UNCHANGED <<scene, disk, commit, probe, left, cache, last, day>>

Restart ==
  /\ probe # "unasked" /\ probe' = "unasked"
  /\ UNCHANGED <<scene, disk, commit, host, left, cache, last, day, turns>>

Night ==
  /\ Turn /\ day' = day + 1
  /\ UNCHANGED <<scene, disk, commit, host, probe, left, cache, last>>

\* for the properties: what was read was HEAD's, the report this run's, and no
\* file was there that the cache's key leaves out
View(listed) ==
  CASE who \in {"syft", "semgrep"} -> Committed(listed)
    [] who = "spectral"            -> Committed(TRUE)
    [] who = "gitleaks"            -> commit.tree
    [] OTHER                       -> disk
Sound(how, listed) ==
  View(listed) = commit.tree /\ ~ReadsOldReport(how) /\ Existing(disk, Overlooked) = {}
\* for a hit, what is asked of now: no such file at HEAD, and an SBOM of HEAD
Faithful ==
  Existing(commit.tree, Overlooked) = {} /\ (who = "osv-scanner" => disk = commit.tree)

Reported(how, listed, sbom) ==
  IF ReadsOldReport(how) THEN left ELSE Observations(listed, sbom)

Store(key, result) == {e \in cache : e.key # key} \cup {[key |-> key, result |-> result]}

\* the result is cached unless it was skipped, and the report stays behind
Collect(mode, sbom) ==
  /\ mode = "full" \/ \A e \in cache : e.key # Key(sbom)
  /\ \E how \in Ends, listed \in BOOLEAN :
       /\ MayEnd(how) /\ (listed \/ who \in {"syft", "semgrep"})
       /\ probe' = Probed
       /\ IF Answers(how, sbom)
          THEN LET result == Result(Reported(how, listed, sbom), Sound(how, listed), day)
               IN /\ last' = Joined(result)
                  /\ cache' = Store(Key(sbom), result)
                  /\ left' = IF WritesReport THEN result.seen ELSE Gone
          ELSE last' = Joined(Skipped) /\ UNCHANGED <<cache, left>>
  /\ UNCHANGED <<scene, disk, commit, host, day, turns>>

\* a hit restores the report and is joined as of now
Hit(sbom) ==
  /\ \E e \in cache :
       /\ e.key = Key(sbom)
       /\ last' = Joined([e.result EXCEPT !.sound = @ /\ Faithful])
       /\ left' = IF WritesReport THEN e.result.seen ELSE Gone
  /\ UNCHANGED <<scene, disk, commit, host, probe, cache, day, turns>>

\* osv-scanner is handed the SBOM syft made, unless that was skipped
Sbom == [p \in Manifests |-> Committed(TRUE)[p]]
ScanWith(sbom) == Hit(sbom) \/ \E mode \in {"full", "incremental"} : Collect(mode, sbom)
ScanDisk == \E sbom \in (IF who = "osv-scanner" THEN {Gone, Sbom} ELSE {Gone}) : ScanWith(sbom)

CollectNext == Write \/ CommitDisk \/ Machine \/ Restart \/ Night \/ ScanDisk

-----------------------------------------------------------------------------
(* Properties                                                                *)

\* what each recipe claims, of HEAD and its history
True(recipe) ==
  LET t == commit.tree
      some(paths, trait) == Holding(t, paths, trait) # {}
  IN CASE recipe = "lockfile-pinned-deps"          -> Existing(t, Lockfiles) # {}
       [] recipe = "ci-actions-pinned"             -> ~some(Workflows \cup Composites, "unpinned")
       [] recipe = "ci-provenance-present"         -> some(Counted(t), "attest")
       [] recipe = "tests-in-ci"                   -> some(Counted(t), "test")
       [] recipe = "dependency-update-automation"  -> Existing(t, Named(Automation)) # {}
       [] recipe = "codeowners-defined"            -> Existing(t, Named(Owners)) # {}
       [] recipe = "security-disclosure-published" -> some(FirstOf(Disclosures, t), "text")
       [] recipe = "container-runs-nonroot"        -> some({"Dockerfile"}, "user")
       [] recipe = "no-secrets-in-history"         -> ~commit.burned
       [] recipe = "iac-baseline-clean"            -> ~some(UNION Frameworks, "misconfigured")
       [] recipe = "api-spec-lint-clean"           -> ~some(Specs, "error")
       [] recipe = "container-base-image-patched"  -> ~some({"Dockerfile"}, "critical")
       [] recipe = "sbom-exists-and-fresh"         -> Existing(t, Manifests) # {}
       [] recipe = "access-control-policy-present" -> some({Documents.policy}, "text")
       [] recipe = "system-documentation-present"  -> some({Documents.system}, "text")
       [] recipe = "semgrep-results.json"          -> ~some(Sources, "danger")
       [] recipe = "osv-results.json"              -> ~some(Lockfiles, "vulnerable")

\* an answer is true of the commit it names, from the tool or from the cache;
\* left out: a reading of a checkout that differed, a report an earlier run
\* left, a file cacheScope overlooks, an SBOM cached for over a day
\* (collectors/src/*.ts, core/src/cache.ts)
AnswerIsTrue ==
  last.sound /\ last.of = commit.id =>
    \A r \in DOMAIN last.says :
      (r = "sbom-exists-and-fresh" /\ last.old) \/ last.says[r] = True(r)

\* the claims that something exists, which its anchors keep true until their
\* files change: the fold retires evidence on nothing else.  A claim about all
\* files of a kind is not kept by those it saw
Lasting ==
  {"lockfile-pinned-deps", "ci-provenance-present", "tests-in-ci", "dependency-update-automation",
   "codeowners-defined", "container-runs-nonroot", "container-base-image-patched",
   "sbom-exists-and-fresh", "access-control-policy-present", "system-documentation-present"}
ClaimsKeep ==
  last.sound =>
    \A r \in DOMAIN last.says \cap Lasting :
      last.says[r] /\ (\A p \in DOMAIN last.anchors[r] : commit.tree[p] = last.anchors[r][p]) => True(r)

\* the two evaluators agree: rows read as the elements of a document, one value
\* at a path, pass and count alike; and without a `where` an op on each element
\* never passes over none (assert-labeled.ts:153-175, 275-280)
AsElement(row) == [f \in DOMAIN row |-> <<row[f]>>]
EvaluatorsAgree ==
  \A rows \in Tables, a \in Asked :
    LET elements == [i \in DOMAIN rows |-> AsElement(rows[i])]
        byRow    == EvaluateAssertion(a, rows, 0)
        byLabel  == EvaluateLabeled([label |-> "step", projected |-> TRUE] @@ a, "step" :> elements, 0)
    IN IF a.where # {}
       THEN byRow.passed = byLabel.passed /\ byRow.population = byLabel.population
              /\ byRow.offenders = byLabel.offenders
       ELSE byLabel.passed /\ byLabel.population = 0 => a.op \in CountOps \cup {"not_exists"}

\* what a collector answers holds, and goes on holding, as the evaluators read it
AnswersHold == AnswerIsTrue /\ ClaimsKeep /\ EvaluatorsAgree
=============================================================================
