-------------------------------- MODULE Intake --------------------------------
(***************************************************************************)
(* `rampscan ingest`: results a client produced become signed bundles      *)
(* (packages/cli/src/ingest.ts, ingest-package.ts, prowler-*.ts and        *)
(* packages/core/src/ingest.ts).  Three of the shapes a handoff comes in   *)
(* are documents of their own, turned into submissions by an adapter: an   *)
(* evidence tree with its manifest, an assessed package, and a Prowler     *)
(* scan's output; the fourth is a submission already.  The machine hands   *)
(* documents to ingests that run beside each other on one ledger and may   *)
(* die between any two of their calls.                                     *)
(*                                                                         *)
(* A batch is a function from places in the document to submissions, so    *)
(* that two equal submissions remain two.  A recipe id is <<name, ordinal, *)
(* the validation that cites it>>; the last is None unless it is needed.   *)
(***************************************************************************)
EXTENDS Chains

CONSTANTS
  Catalog,       \* the KSIs of the pinned dataset
  Mapped,        \* per KSI of the pinned Prowler framework: its AWS checks
  Crosswalk,     \* per indicator of an earlier catalog: the KSIs it became
  Document,      \* what clients hand over
  Ingest,        \* ingests that may run at once
  MaxHandoffs,   \* bound on the ingests ever started
  None

IsList(s) == s \in Seq({s[k] : k \in DOMAIN s})

\* What the parsers of the four shapes let through.
Parsed(d) ==
  \/ d.shape = "native"
  \/ /\ d.shape = "tree"
     /\ \A i \in DOMAIN d.entries : \A a \in d.entries[i].assertions :
          a.op \in {"each", "count_eq", "count_lte"}
  \/ /\ d.shape = "package" /\ IsList(d.validations)
     /\ \A v \in DOMAIN d.validations : IsList(d.validations[v].evidences)
  \/ d.shape = "prowler" /\ IsList(d.rows)

ASSUME IntakeAssumption ==
  /\ MaxHandoffs \in Nat
  /\ \A i \in DOMAIN Crosswalk : Crosswalk[i] \in Seq(Catalog)
  /\ \A d \in Document : Parsed(d)

VARIABLES
  object,      \* the bundles whose file exists; `log` has those the index lists
  todo,        \* per ingest: the submissions of its batch not yet looked at
  sub,         \* per ingest: the submission at hand, None between two
  step,        \* per ingest: "idle", "next", "append" or "row"
  doc,         \* per ingest: the document it was given
  handoffs,    \* ingests started
  cut,         \* bundles whose append was cut short
  finished     \* documents some ingest finished

intakeVars == <<log, object, todo, sub, step, doc, handoffs, cut, finished>>

-----------------------------------------------------------------------------
(* Assertions over rows.  A row is inside the assertion's `where` or not,  *)
(* and satisfies its clause or not.                                        *)

Filtered(rows) == {i \in DOMAIN rows : rows[i].in}

Passes(assertion, rows) ==
  CASE assertion.op = "each"      -> \A i \in Filtered(rows) : rows[i].holds
    [] assertion.op = "count_eq"  -> Cardinality(Filtered(rows)) = assertion.value
    [] assertion.op = "count_lte" -> Cardinality(Filtered(rows)) <= assertion.value


\* submissionVerdict: no assertion at all is no verdict.
VerdictOf(outcomes) ==
  IF outcomes = {} THEN "unevidenced"
  ELSE IF FALSE \in outcomes THEN "violated" ELSE "evidenced"

Submission(recipe, ksi, outcomes, rows, automated, class, at, artifact, signer) ==
  [recipe |-> recipe, ksi |-> ksi, verdict |-> VerdictOf(outcomes), population |-> rows,
   automated |-> automated, class |-> class, at |-> at, artifact |-> artifact, signer |-> signer]

-----------------------------------------------------------------------------
(* The tree: a manifest entry becomes a submission unless its run failed.  *)

Ran(d) == {i \in DOMAIN d.entries : d.entries[i].exit = 0}

TreeRefused(d) ==
  \E i \in Ran(d) :
    LET e == d.entries[i] IN
    \/ e.directories # 1 \/ e.results = None
    \/ e.assertions # {} /\ \E r \in DOMAIN e.results : ~e.results[r].object

EntryToSubmission(d, i) ==
  LET e == d.entries[i] IN
  Submission(<<e.script, 1, None>>, e.ksi, {Passes(a, e.results) : a \in e.assertions},
             IF e.assertions = {} THEN None ELSE Len(e.results), TRUE, d.class, e.at,
             <<d.name, i>>, d.signer)

TreeBatch(d) == [i \in Ran(d) |-> EntryToSubmission(d, i)]

-----------------------------------------------------------------------------
(* The package: a submission per evidence of a validation, and per KSI its *)
(* indicator became.                                                       *)

\* Without a crosswalk the package's own ids are taken for the catalog's.
Successors(d, indicator) == IF d.crosswalk THEN Crosswalk[indicator] ELSE <<indicator>>

\* The latest of an evidence's artifacts dates it, else the assessment.
Instant(d, e) == IF e.at = None THEN d.date ELSE e.at

PackageRefused(d) ==
  \/ ~d.cadence
  \/ \E v \in DOMAIN d.validations :
       LET val == d.validations[v] IN
       \/ d.crosswalk /\ val.indicator \notin DOMAIN Crosswalk
       \/ val.signer = None
       \/ Successors(d, val.indicator) # <<>> /\ \E e \in DOMAIN val.evidences : Instant(d, val.evidences[e]) = None

Candidates(d) ==
  UNION {{<<v, e, k>> : e \in DOMAIN d.validations[v].evidences,
                        k \in DOMAIN Successors(d, d.validations[v].indicator)} :
         v \in DOMAIN d.validations}

\* A name the validation repeats gets an ordinal.
Ordinal(evidences, e) == Cardinality({i \in 1..e : evidences[i].name = evidences[e].name})

CandidateOf(d, c) ==
  LET v == d.validations[c[1]]
      e == v.evidences[c[2]]
  IN Submission(<<e.name, Ordinal(v.evidences, c[2]), None>>, Successors(d, v.indicator)[c[3]], {}, None,
                FALSE, "point-in-time", Instant(d, e), <<d.name, e.artifact>>, v.signer)

SameKey(s, t) == s.recipe = t.recipe /\ s.ksi = t.ksi

GroupOf(d, c) == {o \in Candidates(d) : SameKey(CandidateOf(d, o), CandidateOf(d, c))}

FirstOfGroup(d, c) ==
  \A o \in GroupOf(d, c) \ {c} :
    \/ c[1] < o[1]
    \/ c[1] = o[1] /\ c[2] < o[2]
    \/ c[1] = o[1] /\ c[2] = o[2] /\ c[3] < o[3]

FirstOnly(d) == [c \in {o \in Candidates(d) : FirstOfGroup(d, o)} |-> CandidateOf(d, c)]

\* The same record cited twice is kept once; different records under one name
\* are each named after the validation that cites them.
PackageBatch(d) ==
  LET one(c) == \A o \in GroupOf(d, c) : CandidateOf(d, o) = CandidateOf(d, c)
      kept == {c \in Candidates(d) : one(c) => FirstOfGroup(d, c)}
  IN [c \in kept |->
        IF one(c) THEN CandidateOf(d, c)
        ELSE [CandidateOf(d, c) EXCEPT !.recipe[3] = d.validations[c[1]].indicator]]

-----------------------------------------------------------------------------
(* Prowler: a submission per check and KSI, over the rows it reported.     *)

Manual(d) == {i \in DOMAIN d.rows : d.rows[i].manual = 3}
Reported(d) == DOMAIN d.rows \ Manual(d)
ManualKsis(d) == {d.rows[i].ksi : i \in Manual(d)}

\* The AWS checks the pinned framework, read key by key, gives a KSI.
Checks(k) == IF k \in DOMAIN Mapped THEN Mapped[k] ELSE {}
Uncovered == {k \in DOMAIN Mapped : Checks(k) = {}}

\* A row is of the pinned framework's standard and can be read, names a KSI of
\* the catalog, and carries all three marks of a row nobody looked for, or none.
RowRefused(r) == ~r.legible \/ r.ksi \notin Catalog \/ r.manual \in {1, 2}

DocumentRefused(d) ==
  \/ d.rows = <<>>
  \/ \E i \in DOMAIN d.rows : RowRefused(d.rows[i])
  \/ \E i \in Reported(d) : d.rows[i].ksi \in ManualKsis(d)

\* The provider guard is the join: a check the framework maps to that KSI.
ProviderRefused(d) == \E i \in Reported(d) : d.rows[i].check \notin Checks(d.rows[i].ksi)

FrameworkRefused(d) == ~d.pinned

ProwlerRefused(d) ==
  \/ ~d.declared \/ DocumentRefused(d) \/ FrameworkRefused(d)
  \/ ~(ManualKsis(d) \subseteq Uncovered) \/ ProviderRefused(d)

RowsOfCheck(d, g) == {i \in Reported(d) : d.rows[i].check = g[1] /\ d.rows[i].ksi = g[2]}
Groups(d) == {<<d.rows[i].check, d.rows[i].ksi>> : i \in Reported(d)}

\* PROWLER_NO_FAILING_FINDINGS over the rows: the effective status, muted or not.
NoFailingUnmuted(d, g) == \A i \in RowsOfCheck(d, g) : d.rows[i].status = "FAIL" => d.rows[i].muted
NoFailing(d, g) == \A i \in RowsOfCheck(d, g) : d.rows[i].status # "FAIL"

ProwlerBatch(d) ==
  [g \in {h \in Groups(d) : d.exit = 0} |->
     Submission(<<g[1], 1, None>>, g[2], {NoFailing(d, g)}, Cardinality(RowsOfCheck(d, g)), TRUE,
                "process-generated", Max({d.rows[i].at : i \in RowsOfCheck(d, g)}), <<d.name>>, d.signer)]

-----------------------------------------------------------------------------
(* The batch of a document, and whether the whole of it is refused.        *)

Batch(d) ==
  CASE d.shape = "native"  -> [i \in {1} |-> d.submission]
    [] d.shape = "tree"    -> TreeBatch(d)
    [] d.shape = "package" -> PackageBatch(d)
    [] d.shape = "prowler" -> ProwlerBatch(d)

Unreadable(d) ==
  CASE d.shape = "native"  -> FALSE
    [] d.shape = "tree"    -> TreeRefused(d)
    [] d.shape = "package" -> PackageRefused(d)
    [] d.shape = "prowler" -> ProwlerRefused(d)

Batches == [d \in Document |-> Batch(d)]

\* Every KSI is known and no two results are for one (recipe, KSI).
Refused(d) ==
  \/ Unreadable(d)
  \/ \E p \in DOMAIN Batches[d] : Batches[d][p].ksi \notin Catalog
  \/ \E p, q \in DOMAIN Batches[d] : p # q /\ SameKey(Batches[d][p], Batches[d][q])

Accepted == {d \in Document : ~Refused(d)}

-----------------------------------------------------------------------------
(* The machine. *)

\* toIngestedBundle: no commit, no anchors; it stands for what was accepted.
Bundle(s) ==
  [recipe |-> s.recipe, ksi |-> s.ksi, verdict |-> s.verdict, population |-> s.population,
   automated |-> s.automated, class |-> s.class, at |-> s.at, artifact |-> s.artifact,
   signer |-> s.signer, kind |-> "evidence", seen |-> <<>>, commit |-> 0]

Listed == {log[i] : i \in DOMAIN log}

IntakeInit ==
  /\ log = <<>> /\ object = {} /\ cut = {} /\ finished = {}
  /\ todo = [i \in Ingest |-> {}]
  /\ sub = [i \in Ingest |-> None]
  /\ step = [i \in Ingest |-> "idle"]
  /\ doc = [i \in Ingest |-> None]
  /\ handoffs = 0

\* Validate, then append: a document refused changes nothing.
Handoff(i, d) ==
  /\ step[i] = "idle" /\ handoffs < MaxHandoffs
  /\ d \in Accepted
  /\ handoffs' = handoffs + 1
  /\ todo' = [todo EXCEPT ![i] = {Batches[d][p] : p \in DOMAIN Batches[d]}]
  /\ step' = [step EXCEPT ![i] = "next"]
  /\ doc' = [doc EXCEPT ![i] = d]
  /\ UNCHANGED <<log, object, sub, cut, finished>>

\* ledger.get: what the index lists is left as it is, the rest is signed; the
\* order is the batch's, the same in every ingest.
Take(i) ==
  LET s == CHOOSE x \in todo[i] : TRUE IN
  /\ step[i] = "next" /\ todo[i] # {}
  /\ todo' = [todo EXCEPT ![i] = @ \ {s}]
  /\ IF Bundle(s) \in Listed THEN UNCHANGED <<sub, step>>
     ELSE sub' = [sub EXCEPT ![i] = s] /\ step' = [step EXCEPT ![i] = "append"]
  /\ UNCHANGED <<log, object, doc, handoffs, cut, finished>>

CreateObjectAgain(i) ==
  /\ step[i] = "append"
  /\ object' = object \cup {Bundle(sub[i])}
  /\ step' = [step EXCEPT ![i] = "row"]
  /\ UNCHANGED <<log, todo, sub, doc, handoffs, cut, finished>>

\* ledger.append: the file is created once; who finds it there is done.
CreateObject(i) ==
  /\ step[i] = "append"
  /\ object' = object \cup {Bundle(sub[i])}
  /\ IF Bundle(sub[i]) \in object
     THEN step' = [step EXCEPT ![i] = "next"] /\ sub' = [sub EXCEPT ![i] = None]
     ELSE step' = [step EXCEPT ![i] = "row"] /\ UNCHANGED sub
  /\ UNCHANGED <<log, todo, doc, handoffs, cut, finished>>

List(i) ==
  /\ step[i] = "row"
  /\ log' = Append(log, Bundle(sub[i]))
  /\ step' = [step EXCEPT ![i] = "next"]
  /\ sub' = [sub EXCEPT ![i] = None]
  /\ UNCHANGED <<object, todo, doc, handoffs, cut, finished>>

Stopped(i) ==
  /\ step' = [step EXCEPT ![i] = "idle"]
  /\ todo' = [todo EXCEPT ![i] = {}]
  /\ sub' = [sub EXCEPT ![i] = None]
  /\ doc' = [doc EXCEPT ![i] = None]

Finish(i) ==
  /\ step[i] = "next" /\ todo[i] = {}
  /\ finished' = finished \cup {doc[i]}
  /\ Stopped(i)
  /\ UNCHANGED <<log, object, handoffs, cut>>

\* The process dies, or the signer or the disk fails: what was written stays.
Die(i) ==
  /\ step[i] # "idle"
  /\ cut' = IF step[i] = "row" THEN cut \cup {Bundle(sub[i])} ELSE cut
  /\ Stopped(i)
  /\ UNCHANGED <<log, object, handoffs, finished>>

Advance(i) == Take(i) \/ CreateObject(i) \/ List(i) \/ Finish(i)

IntakeNext ==
  \E i \in Ingest :
    \/ \E d \in Document : Handoff(i, d)
    \/ Advance(i)
    \/ Die(i)

IntakeSpec == IntakeInit /\ [][IntakeNext]_intakeVars

-----------------------------------------------------------------------------
(* Properties *)

OwedBy == [d \in Document |-> {Bundle(Batches[d][p]) : p \in DOMAIN Batches[d]}]

\* Whatever dies, is handed in again or runs beside it: a statement is listed
\* once at most, and once an ingest has finished, all of its batch is listed, or
\* another ingest is about to list it, or its append was cut short, which
\* nothing repairs (the file is there, so no later ingest writes the row).
HandoffLandsOnce ==
  /\ \A i, j \in DOMAIN log : log[i] = log[j] => i = j
  /\ \A d \in finished : \A b \in OwedBy[d] :
       b \in Listed \cup cut \/ \E i \in Ingest : step[i] = "row" /\ Bundle(sub[i]) = b

\* A batch lands as a whole or not at all, dying apart: no statement is listed
\* from a document that also names an unknown KSI or contradicts itself.
NeverHalfABatch ==
  \A i \in DOMAIN log : \E d \in Document :
    /\ log[i] \in OwedBy[d]
    /\ \A b, c \in OwedBy[d] : b.ksi \in Catalog /\ (b # c => ~SameKey(b, c))

\* A handoff lands once, and as a whole.
HandoffLandsWhole == HandoffLandsOnce /\ NeverHalfABatch

\* A verdict is earned by what a machine read: a pass by rows of a run that
\* finished, of which an assertion was evaluated and none failed, a mute not
\* excusing a failure; a package earns none, whatever its assessor wrote.
VerdictIsEarned ==
  \A d \in Accepted : \A b \in OwedBy[d] \cap Listed :
    CASE d.shape = "package" -> b.verdict = "unevidenced" /\ ~b.automated
      [] d.shape = "prowler" ->
           LET rows == {i \in DOMAIN d.rows : d.rows[i].check = b.recipe[1] /\ d.rows[i].ksi = b.ksi}
           IN /\ d.exit = 0 /\ rows # {}
              /\ b.verdict = "violated" <=> \E i \in rows : d.rows[i].status = "FAIL"
              /\ b.verdict # "unevidenced"
      [] d.shape = "tree" ->
           LET e == CHOOSE x \in {d.entries[i] : i \in DOMAIN d.entries} :
                      x.exit = 0 /\ x.script = b.recipe[1] /\ x.ksi = b.ksi
           IN b.verdict = "evidenced" <=> e.assertions # {} /\ \A a \in e.assertions : Passes(a, e.results)
      [] OTHER -> TRUE

\* What a finished document handed over is all accounted for: each evidence of a
\* package under each KSI its indicator became, with its own artifact and its
\* own assessor, and no two under one name; each row Prowler reported, in the
\* population of exactly one statement; and of a failed run, nothing.
NothingIsDropped ==
  \A d \in finished :
    CASE d.shape = "package" ->
           /\ \A c \in Candidates(d) :
                \E b \in OwedBy[d] :
                  b.ksi = CandidateOf(d, c).ksi /\ b.artifact = CandidateOf(d, c).artifact
                  /\ b.signer = CandidateOf(d, c).signer
           /\ \A b, c \in OwedBy[d] : SameKey(b, c) => b = c
      [] d.shape = "prowler" ->
           MapThenSumSet(LAMBDA b : b.population, OwedBy[d]) =
             IF d.exit = 0 THEN Cardinality(Reported(d)) ELSE 0
      [] OTHER -> TRUE
=============================================================================
