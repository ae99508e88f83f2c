--------------------------------- MODULE Scan ---------------------------------
(***************************************************************************)
(* What a scan writes to the ledger (packages/cli/src/scan.ts): the        *)
(* evidence of each recipe, the artifact bodies the repository declares,   *)
(* an observation of the declarations, and last the run record, every one  *)
(* signed.  Scans of the daemon, which sign aging evidence again, and of   *)
(* the command line, which never do, overlap beside what people record:    *)
(* `rampscan artifact` a body (cli/src/artifacts.ts), an approved scope-out*)
(* a scoping event of its recipe (cli/src/scoping.ts).  Nothing locks the  *)
(* ledger, and a process may stop, or an operation throw, between any two  *)
(* steps.                                                                  *)
(*                                                                         *)
(* A statement carries the instant its operation began, which the fold     *)
(* orders by (projector/src/fold.ts); the scan reads the ledger in the     *)
(* order of appending.  An append is one step here: module Ledger has its  *)
(* parts.                                                                  *)
(***************************************************************************)
EXTENDS Integers, Sequences, FiniteSetsExt, SignerKeys

CONSTANTS
  Scanner,      \* the processes that scan,
  Refreshing,   \*   those of them, a daemon's, that give the scan a refresh age,
  Recorder,     \*   and the processes that record what a person decided
  Recipes,      \* the recipes, in the catalog's order
  Finding,      \* what the assertions of a recipe may say of a tree
  Slot,         \* the pairs of a KSI and one of its five artifacts
  Body,         \* artifact bodies
  RefreshAfter, \* that age: unchanged evidence as old is signed again
  MaxStarts, MaxBeside, MaxEvents   \* bounds: operations, those at a time, commits and stops

Recipe == {Recipes[k] : k \in DOMAIN Recipes}
Skipped == "skipped"        \* the collector could not run: no verdict
Silent == "undeclared"      \* the slot is not in the repository's artifacts block
Missing == "missing"        \* no file, an empty one, too large, or not committed
None == 0

ASSUME ScanAssumption ==
  /\ Process = Scanner \cup Recorder /\ Scanner \cap Recorder = {}
  /\ Refreshing \subseteq Scanner
  /\ {MaxStarts, MaxBeside, MaxEvents} \subseteq Nat /\ RefreshAfter \in Nat \ {0}
  /\ Recipes \in Seq(Recipe) /\ Recipes # <<>>
  /\ Skipped \notin Finding /\ {Silent, Missing} \cap Body = {}

VARIABLES
  tree,     \* the working tree: findings, files of slots, their last commits
  events,   \* how many commits and stops there were
  clock,    \* the instants that operations read, one each
  log,      \* the ledger's statements, in the order of appending
  op,       \* per process: its operation
  lone      \* history: the process, if any, beside whose operation nothing ran so far

vars == <<keyVars, tree, events, clock, log, op, lone>>

Findings == [Recipe -> Finding \cup {Skipped}]
Files == [Slot -> Body \cup {Silent, Missing}]

\* An operation: what it does next, its instant, what it read of the tree, the
\* recipe its loop is at, the slots it has still to record, per slot the last
\* appended body it read, and the ledger's length when the model was derived.
Idle == [stage |-> "off", now |-> 0, finding |-> [r \in Recipe |-> Skipped],
         file |-> [s \in Slot |-> Silent], touched |-> [s \in Slot |-> 0], next |-> 1,
         slots |-> {}, prior |-> [s \in Slot |-> None], derived |-> 0]

Init ==
  /\ KeysInit
  /\ tree \in [finding: Findings, file: Files, touched: {[s \in Slot |-> 0]}]
  /\ events = 0 /\ clock \in 0..1 /\ log = <<>>
  /\ op = [p \in Process |-> Idle] /\ lone = {}

-----------------------------------------------------------------------------
(* The ledger, as the scan reads it and as the fold does. *)

Of(kind) == {i \in DOMAIN log : log[i].kind = kind}
Said(i) == log[i].payload
Bundles(r) == {i \in Of("evidence") : Said(i).recipe = r}
Scopings(r) == {i \in Of("scoping") : Said(i).recipe = r}
Bodies(s) == {i \in Of("artifact") : Said(i).slot = s}

\* byTime of the fold, latestEntry of the scan: the timestamp, then the order.
Before(i, j) == log[i].at < log[j].at \/ (log[i].at = log[j].at /\ i < j)
Latest(S) == IF S = {} THEN None ELSE CHOOSE i \in S : \A j \in S \ {i} : Before(j, i)

\* list({ recipeId }): the index has a scoping event under its recipe as well.
Listed(r) == Bundles(r) \cup Scopings(r)

\* list() in append order, the last one wins.
LastAppended(S) == IF S = {} THEN None ELSE Max(S)

\* unresolvedByCell: what the fold takes the last observation of a slot to say.
LastWord(S, s) == Latest({i \in S \cap Of("observation") : Said(i).saw[s] # Silent})
Lost(S, s) ==
  LET word == LastWord(S, s)
      body == Latest(S \cap Bodies(s))
  IN  /\ word # None /\ Said(word).saw[s] = Missing
      /\ body # None => log[word].at > log[body].at

\* bodyOf: the statement whose body counts for a slot, of the statements S.
Standing(S, s) == IF Lost(S, s) THEN None ELSE Latest(S \cap Bodies(s))

-----------------------------------------------------------------------------
(* Operations begin, stop and move on. *)

Event == events < MaxEvents /\ events' = events + 1

Active == {p \in Process : op[p].stage # "off"}

\* The instant is read, and whoever runs is no longer alone.
Begins(p) ==
  /\ op[p].stage = "off" /\ clock < MaxStarts /\ clock' = clock + 1
  /\ Cardinality(Active) < MaxBeside
  /\ lone' = IF Active = {} THEN {p} ELSE {}
  /\ UNCHANGED <<keyVars, tree, events, log>>

At(p, stage) == op[p].stage = stage
Moves(p, stage) == op' = [op EXCEPT ![p].stage = stage]

\* A step that appends nothing.
Reads == UNCHANGED <<keyVars, tree, events, clock, log, lone>>

\* signer.sign and ledger.append: nothing is recorded unsigned.
Records(p, kind, payload) ==
  /\ held[p] # NoKey
  /\ log' = Append(log, [kind |-> kind, payload |-> payload, at |-> op[p].now,
                         by |-> p, key |-> held[p], lone |-> lone])
  /\ UNCHANGED <<tree, events, clock>>

Ends(p) == op' = [op EXCEPT ![p] = Idle] /\ lone' = lone \ {p} /\ DropKeys(p)

\* The first signature of an operation loads the keys.
Signing(p) ==
  /\ \/ op[p].stage \in {"evidence", "observation", "record", "revise", "scope"} /\ NeedKeys(p)
     \/ At(p, "artifact") /\ op[p].slots # {} /\ NeedKeys(p)
     \/ KeyStep(p)
  /\ UNCHANGED <<tree, events, clock, log, op, lone>>

\* The process is killed, or something threw.
Stop(p) ==
  /\ ~At(p, "off") /\ Ends(p) /\ Event
  /\ UNCHANGED <<tree, clock, log>>

\* A commit changes what the recipes find and what is declared.
Commit ==
  /\ Event
  /\ \E f \in Findings, d \in Files :
       tree' = [finding |-> f, file |-> d,
                touched |-> [s \in Slot |-> IF d[s] \in Body /\ d[s] # tree.file[s]
                                           THEN events' ELSE tree.touched[s]]]
  /\ UNCHANGED <<keyVars, clock, log, op, lone>>

-----------------------------------------------------------------------------
(* A scan: one instant, read first, is on all that it writes. *)

Start(p) == Begins(p) /\ op' = [op EXCEPT ![p].stage = "collect", ![p].now = clock']

\* The collectors run and their rows are joined with the recipes' assertions.
Collect(p) ==
  /\ At(p, "collect") /\ Reads
  /\ op' = [op EXCEPT ![p].stage = "compare", ![p].finding = tree.finding]

SurvivesOnTheDay(p, r) ==
  LET i == Latest(Listed(r)) IN
  /\ i \in Bundles(r) /\ Said(i).finding = op[p].finding[r]
  /\ p \in Refreshing => op[p].now - log[i].at <= RefreshAfter
SurvivesWhenAging(p, r) ==
  LET i == Latest(Listed(r)) IN
  /\ i \in Bundles(r) /\ Said(i).finding = op[p].finding[r]
  /\ p \in Refreshing => op[p].now - log[i].at >= RefreshAfter

\* The latest statement listed survives while it is a bundle that says the same:
\* for ever on the command line, until it is aging under the daemon.
Survives(p, r) ==
  LET i == Latest(Listed(r)) IN
  /\ i \in Bundles(r) /\ Said(i).finding = op[p].finding[r]
  /\ p \in Refreshing => op[p].now - log[i].at < RefreshAfter

\* The next recipe; behind the last one come the artifacts.
Advances(p) ==
  op' = [op EXCEPT ![p].next = @ + 1,
                   ![p].stage = IF op[p].next < Len(Recipes) THEN "compare" ELSE "declare"]

Compare(p) ==
  /\ At(p, "compare") /\ Reads
  /\ LET r == Recipes[op[p].next] IN
     IF op[p].finding[r] = Skipped \/ Survives(p, r) THEN Advances(p) ELSE Moves(p, "evidence")

SignBundle(p) ==
  /\ At(p, "evidence")
  /\ LET r == Recipes[op[p].next] IN
     Records(p, "evidence", [recipe |-> r, finding |-> op[p].finding[r]])
  /\ Advances(p) /\ UNCHANGED <<keyVars, lone>>

\* loadDeclaredArtifacts and collectAuthoredArtifacts read the working tree as
\* it is by now.  Without declarations there is nothing to observe.
Declare(p) ==
  /\ At(p, "declare") /\ Reads
  /\ op' = [op EXCEPT ![p].file = tree.file, ![p].touched = tree.touched,
              ![p].stage = IF \A s \in Slot : tree.file[s] = Silent THEN "derive" ELSE "list"]

\* A body is recorded unless the last one in its slot has its bytes and its commit.
Unchanged(p, s, i) ==
  i # None /\ Said(i).body = op[p].file[s] /\ Said(i).touched = op[p].touched[s]

ListBodies(p) ==
  /\ At(p, "list") /\ Reads
  /\ LET last == [s \in Slot |-> LastAppended(Bodies(s))]
         new == {s \in Slot : op[p].file[s] \in Body /\ ~Unchanged(p, s, last[s])}
     IN  op' = [op EXCEPT ![p].stage = "artifact", ![p].prior = last, ![p].slots = new]

\* A revision names the bytes it revises; the same bytes revise nothing.
Revised(body, i) == IF i # None /\ Said(i).body # body THEN Said(i).body ELSE Silent

RecordBody(p, s, commit) ==
  Records(p, "artifact", [slot |-> s, body |-> op[p].file[s], touched |-> commit,
                          supersedes |-> Revised(op[p].file[s], op[p].prior[s])])

SignBody(p) ==
  /\ At(p, "artifact") /\ UNCHANGED <<keyVars, lone>>
  /\ \E s \in op[p].slots :
       /\ RecordBody(p, s, op[p].touched[s])
       /\ op' = [op EXCEPT ![p].slots = @ \ {s}]

\* The observation is left out when it repeats the last one appended.
Observe(p) ==
  /\ At(p, "artifact") /\ op[p].slots = {} /\ Reads
  /\ LET i == LastAppended(Of("observation")) IN
     Moves(p, IF i # None /\ Said(i).saw = op[p].file THEN "derive" ELSE "observation")

SignObservation(p) ==
  /\ At(p, "observation") /\ Moves(p, "derive") /\ UNCHANGED <<keyVars, lone>>
  /\ Records(p, "observation", [saw |-> op[p].file])

\* buildRepoModel reads the whole ledger before the run record exists.
DeriveModel(p) ==
  /\ At(p, "derive") /\ Reads
  /\ op' = [op EXCEPT ![p].stage = "record", ![p].derived = Len(log)]

\* Every collector dispatched is named, the skipped ones with their reason; and
\* the artifacts of the run, the derived model among them, are attested to.
CollectorRuns(p) == op[p].finding
RunSubjects(p) == op[p].derived

RecordRun(p) ==
  /\ At(p, "record") /\ Ends(p)
  /\ Records(p, "run", [finding |-> CollectorRuns(p), saw |-> op[p].file,
                        derived |-> RunSubjects(p)])

-----------------------------------------------------------------------------
(* A body recorded by hand: recordArtifact. *)

ByHand == -1    \* such a body is anchored to no commit

\* The slot's last body is read, and then the clock.
Look(p) ==
  /\ Begins(p)
  /\ \E s \in Slot, b \in Body :
       op' = [op EXCEPT ![p].stage = "revise", ![p].now = clock', ![p].slots = {s},
                        ![p].file = [op[p].file EXCEPT ![s] = b],
                        ![p].prior = [op[p].prior EXCEPT ![s] = LastAppended(Bodies(s))]]

Revise(p) ==
  /\ At(p, "revise") /\ Ends(p)
  /\ \E s \in op[p].slots : RecordBody(p, s, ByHand)

-----------------------------------------------------------------------------
(* A recipe scoped out, by the second key of the console: recordScoping. *)

\* The catalog is read, and then the clock.
Approve(p) == Begins(p) /\ op' = [op EXCEPT ![p].stage = "scope", ![p].now = clock']

ScopeOut(p) ==
  /\ At(p, "scope") /\ Ends(p)
  /\ \E r \in Recipe : Records(p, "scoping", [recipe |-> r])

ScanStep(p) ==
  \/ Collect(p) \/ Compare(p) \/ SignBundle(p)
  \/ Declare(p) \/ ListBodies(p) \/ SignBody(p) \/ Observe(p) \/ SignObservation(p)
  \/ DeriveModel(p) \/ RecordRun(p)

Next ==
  \/ Commit
  \/ \E p \in Scanner : Start(p) \/ ScanStep(p)
  \/ \E p \in Recorder : Look(p) \/ Revise(p) \/ Approve(p) \/ ScopeOut(p)
  \/ \E p \in Process : Signing(p) \/ Stop(p)

Spec == Init /\ [][Next]_vars

-----------------------------------------------------------------------------
(* Properties. *)

\* Every statement in the ledger verifies under the public key on disk, however
\* many processes raced to make the pair and wherever they stopped
\* (signer/local.ts, the exclusive creates).
EveryStatementVerifies ==
  \A i \in DOMAIN log : log[i].key = public /\ log[i].key = private

\* The same finding is signed twice in a row only by a daemon that refreshes it,
\* after a scope-out of its recipe, or by operations that overlapped; and one
\* body is revised by two only by operations that overlapped.
Alone(i) == log[i].by \in log[i].lone
Aged(i, by, at) == by \in Refreshing /\ at - log[i].at >= RefreshAfter
TwinsOverlapped ==
  \A i, j \in DOMAIN log : i < j /\ Alone(j) =>
    /\ i \in Of("evidence") /\ j \in Bundles(Said(i).recipe)
         /\ i = Latest(Listed(Said(i).recipe) \cap 1..(j - 1))
         => Said(i).finding # Said(j).finding \/ Aged(i, log[j].by, log[j].at)
    /\ i \in Of("artifact") /\ j \in Bodies(Said(i).slot) /\ Said(i).supersedes \in Body
         => Said(j).supersedes # Said(i).supersedes
            \/ \E k \in Bodies(Said(i).slot) : i < k /\ k < j /\ Said(k).body = Said(j).supersedes

\* What a scan saw of a declared slot is what the fold says of it when its run
\* record lands: a body it read counts and one it could not find does not.
\* Except for a body whose operation observed nothing after it, made by hand or
\* by a scan that ended first: the next scan that misses the file again sees
\* what the last observation says, and leaves it at that.
Together(i, j) == log[i].by = log[j].by /\ log[i].at = log[j].at
Unobserved(j, S) == \A k \in S \cap (Of("observation") \cup Of("run")) : ~Together(j, k)
Decided(i, s) ==
  LET body == Standing(1..i, s) IN
  CASE Said(i).saw[s] \in Body -> body # None /\ Said(body).body = Said(i).saw[s]
    [] Said(i).saw[s] = Missing -> body = None \/ Unobserved(body, 1..i)
    [] OTHER -> TRUE
InOrder(S) == \A i, j \in S : i < j => log[i].at <= log[j].at

\* A run record vouches for its scan: for every recipe it reached a verdict on,
\* a bundle that says so, and is not aging if the scan is a daemon's, precedes
\* it, and is the fold's latest if nothing ran beside the scan; and the model it
\* names was derived from all that the scan had recorded (scan.ts, the loop and
\* the order that follows).  If nothing ran beside it, over statements appended
\* in the order of their instants, it also decided its slots (scan.ts, the
\* artifacts block).
RunIsBacked ==
  \A i \in Of("run") :
    /\ \A r \in {q \in Recipe : Said(i).finding[q] # Skipped} :
         \E j \in Bundles(r) :
           /\ j < i /\ Said(j).finding = Said(i).finding[r]
           /\ ~Aged(j, log[i].by, log[i].at)
           /\ Alone(i) => j = Latest(Bundles(r) \cap 1..i)
    /\ \A j \in 1..(i - 1) : Together(j, i) => j <= Said(i).derived
    /\ Alone(i) /\ InOrder(1..i) => \A s \in Slot : Decided(i, s)
=============================================================================
