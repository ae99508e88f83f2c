# Rampscan in TLA+

Rampscan runs security scanners over a repository, signs what they establish
into an append-only ledger of in-toto statements, and shows the fold of that
ledger as a compliance board. People add to the ledger by two-key writes
(scope-outs, judgments, attestations), runners in a cloud account add to it by
answering signed requests, clients hand in results of their own, and a daemon
rescans before evidence leaves the window its certification class allows.

Everything rampscan claims rests on three things: that the ledger is one history
every process agrees about, although there is no database and no lock behind it;
that what a collector or a runner says is true of the tree or account it names;
and that the views folded from the ledger, of which there are many, computed
apart, say the same. These modules state what the parts promise, check it on
small instances with TLC, and prove most of it for every instance with TLAPS
(section 5).

Paths below are relative to the repository; `ledger/local.ts` and the like are
short for `packages/<package>/src/...`.

## 1. The system

| Part | State it keeps | Operations | Hard because |
|---|---|---|---|
| Ledger store (`ledger/local.ts`), `cli/verify.ts` | `objects/<sha256>.json`, `.envelope.json`, `index.jsonl` | `append`, `get`, `list`, verify | many processes append without a lock; an append is five awaited file operations and may be cut short after any; readers are long-lived and incremental |
| Signer (`signer/local.ts`) | a key pair on disk | create on first use, sign, verify | two processes, first use, a stop between the two files |
| Scan pipeline (`cli/scan.ts`, `core/cache.ts`, `core/join.ts`) | the scan cache | collect, join, sign, append what differs or ages, observe, record the run | scans overlap; the cache cannot see the world; HEAD may move between key and read |
| Collectors and assertions (`collectors/*`, `core/assert*.ts`) | reports in the artifact directory | look at files, run a tool, evaluate | skipping, exit codes, stale reports, two evaluators |
| Code graph (`graph/*`, `collectors/reachability.ts`, `scope.ts`, `sast-gate.ts`, `cli/check*.ts`) | none | extract, walk, gate, compare with a base | an over-approximation has to err to one side only |
| Daemon and scheduler (`cli/daemon.ts`, `scheduler/*`) | scan count, last result and warnings, all in memory; event log and heartbeat files | tick: assess, warn, scan, compare | three clocks (threshold, warning, window), restarts that forget, slow scans |
| Fold (`projector/fold.ts`, `diff.ts`) | none: a function of the ledger | chains, deaths, drift feed, registers, episodes, gaps, method register, artifacts, run rows, comparison of boards | statements arrive in another order than their timestamps; one recipe's scan kills another's evidence |
| Stores (`projector/pocketbase.ts`, `sqlite.ts`, migrations) | tables and collections | create, bring up to date, write, read back | a column that is missing or of another type loses data silently |
| Registers (`cli/ksi-register.ts`, `gaps.ts`, `sdr-*.ts`, `artifacts-view.ts`, `artifact-generators.ts`) | none | print, publish, compute bodies | each recomputes part of what the fold judged |
| Serve (`cli/serve.ts`, `cli/events.ts`) | PocketBase collections; flags and offsets in memory | project at startup and on each append; mirror the daemon's files | projection is not atomic; file watchers with a debounce; files rotate |
| Two-key routes (`console/web/app/api/*/decide`, `cli/scoping.ts`, `artifact-judgment.ts`, `attestation.ts`) | proposals in PocketBase, events in the ledger | draft, approve, reject | two stores, no transaction, status read once |
| Cloud runs (`cli/runs*.ts`, `cli/runner-registry.ts`, `runner/*`) | none but the ledger | mint, claim (poll or token), perform, intake, expire | requests served concurrently, transcripts delivered twice or late, two clocks |
| Ingest (`cli/ingest*.ts`, `prowler-*.ts`) | none but the ledger | adapt, validate, append a batch | four shapes, batches cut short, ingests side by side |
| Frontier (`cli/frontier.ts`, `tools.ts`, `dataset/*`) | files of the repository and a dataset snapshot | load, join, count, refuse | hand-edited records against an upstream that moves |
| Everything else | see `PROJECT.json` | renderings, validators, command line | |

How they interact:

- scans, decide routes, run routes and ingests *append*; daemon, serve, the fold
  and the routes *list*. The ledger is the only thing they all share, and every
  process has its own `LedgerStore` with its own memory of it;
- the console's database holds projections, which serve empties and fills, and
  proposals, which users create and routes patch. The routes never write
  projections; the projector never touches proposals;
- file watchers are the only callbacks: from the ledger and from the daemon's two
  files to serve;
- a runner speaks HTTP to the console and shares nothing with it but keys.

What makes each part correct:

- *ledger*: an index row names a whole object; a content has one row; nothing is
  rewritten; a reader sees a prefix of one history, and later a longer one;
- *signer*: whatever is in the ledger verifies under the key on disk;
- *scan*: a run record vouches for what precedes it;
- *collectors and graph*: an answer is true of the commit it names, from the tool
  or the cache; "not reachable" is never said of what can run;
- *daemon*: evidence does not expire while the daemon is up, its ticks and scans succeed
  and the tools work;
  nobody is surprised by an expiry; silence of a full scan means agreement; the
  cache does not hide the world for ever;
- *fold and registers*: what is dead did change; the views agree; what is
  published is never better than what was recorded;
- *stores*: what is read back is the fold's row;
- *serve*: at rest the board is the ledger and the mirror is the file;
- *two-key*: what the console calls approved is in the ledger and what it calls
  rejected is not; a key turned once signs once;
- *runs*: a request is given to one runner, yields one bundle that saw the
  account, and comes to an end;
- *ingest*: a batch lands whole, once, and with no verdict nobody earned;
- *frontier*: what is counted is there and no disagreement with upstream goes
  undeclared.

## 2. The modules

```
StatementLog <--implements-- LedgerReader --> Ledger
LedgerProofs --> LedgerReader
SignerKeys <-- Scan <-- ScanProofs  CloudRuns <-- CloudRunsProofs
MCTwoKey --> TwoKey, Mirror        ConsoleProofs --> TwoKey, Mirror, Serve
Daemon <-- DaemonProofs            FoldProofs --> Fold, Intake
Fold --> Store --> Chains, Tables  Fold --> Board --> Chains <-- Intake
MethodsProofs --> Artifacts --> Registers --> Methods --> Chains, Calendar
MCReach --> Reach --> CodeGraph    MCReach --> Collectors --> Assertions
Frontier --> Dataset, Toolmap      CodeGraph --> Walks <-- Toolmap
TreeProofs --> Reach, Frontier
```

(`-->` is EXTENDS.) `Ledger` and `LedgerReader` establish what all other modules
take the ledger to be: one sequence, appended to atomically, content-addressed,
read as a whole. `LogSpec`, below, is the licence for that. `Chains` is the part of
the fold that Fold, Board, Store, Methods and Intake share.

| Module | Models | One action is |
|---|---|---|
| `Ledger` | `append()` of any number of concurrent callers | one awaited file-system call, or the end of the process before it |
| `LedgerReader` | `readIndex`, `readEntry`, `get`, `list` of long-lived instances beside those appends, objects modified on disk; what `verify` answers | what happens between two awaits |
| `StatementLog` | the `LedgerStore` port: one history, every observer is told longer and longer prefixes | publish, or observe |
| `SignerKeys` | `loadOrCreateKeypair` by racing processes | one read or exclusive create |
| `Scan` | all that scans, `rampscan artifact` and approved scope-outs append, with stops anywhere | one step of the pipeline; an append |
| `CloudRuns` | mint, claims, the runner's self-check, commands and transcript, intake, expiry, registration, server stops | one HTTP route up to an await on the ledger |
| `TwoKey` | drafting, the three decide routes, the recording functions, scans that append the judged bodies, the scoping register | one await of a route or a scan |
| `Mirror` | the event log's tail and the heartbeat's snapshot in serve, beside the daemon that writes and dies | one watcher callback, read or row |
| `Serve` | startup, `project()` with its two flags, the watcher and its debounce, failures, shutdown | one awaited request of the projection loop |
| `Daemon` | ticks, warnings, scans through the cache, the comparison, restarts; failing ticks and scans, commits, a changing world, failing tools | a tick, one collector's key or run, one recipe's record, one unit of time |
| `Chains`, `Fold` | chains, deaths, drift, register, streak, episodes, gaps, as operators on a set of ledger positions | a statement appended, an instant passing |
| `Board` | the board as of an instant and its comparison with a baseline | (operators) |
| `Tables`, `Store` | the schemas of both stores, migrations, `ensureCollection`; the rows, what each store keeps and what is read back | (operators) |
| `Calendar`, `Methods` | calendar months and windows; the method register, history, artifacts, judgments, rollups, run rows | a statement appended, a day passing |
| `Registers` | KSI register, gap register, Security Decision Record and its rules | (operators over `Methods`) |
| `Artifacts` | computed bodies, what they cite, the queue and the check | with `Methods`' actions, generating a body |
| `CodeGraph`, `Reach` | extraction, entry points, the walks and four gates as operators on a tree of facts; edits, commits, merges, scans and checks over them | one of these |
| `Walks` | the walk over a set of edges that the graph and the tool map share | (operators) |
| `Assertions` | the row evaluator and the labeled evaluator | (operators) |
| `Collectors` | nine collectors, tool lookup, exit codes, cache keys, the join | an edit, a commit, a night, a change of the machine, a scan |
| `Intake` | four shapes of a handoff, their adapters and refusals, ingests that die | one call on the ledger |
| `Dataset`, `Toolmap`, `Frontier` | the loaders under three pins; the map of collectors, artifacts and tools; rows, rollup and broken links | one edit of a file |

Each `MC*` module extends the module(s) of that name with the definitions its
configuration needs. The correspondence of every definition with lines of the
source is in `PROJECT.json`, "map".

### State, and what it stands for

**Ledger, LedgerReader.** `object[d]` is the object file: absent, created but not
filled (`open` with `wx`), whole. `index` is the file's bytes, a row abstracted to
its digest followed by `NL`, so that a torn line and two rows run together can be
told apart from whole ones. `pc`, `arg`, `signed` are the local variables of the
calls in flight; `acked` are digests some call returned; `cut` is a history
variable for appends that ended early; `TornWrite` says whether an index append
can be cut in the middle. `rows`, `consumed`, `partial` are the three variables of
`createLocalLedger`; `loaded` its memory of verified objects; `reading` the size a
`readIndex` saw before it awaited its read; `listed` what the last `list()`
returned.

**Scan, SignerKeys.** `private` and `public` are the files (absent, torn, or the
process whose pair it is half of), `op[p]` one operation: what it read of the tree,
the instant it began, which is on everything it writes, and how far it is. The
fold orders by that instant, the scan by order of appending; the two differ when
scans overlap, which is what the module is about. Scanners in `Refreshing` are a
daemon's, whose scans give a refresh age and sign aging evidence again; the others are
`rampscan scan`, which gives none, so that identical evidence survives for ever
(`Survives`). What survives is the latest of all that is listed for the recipe
(`Listed`), scoping events included: after an approved scope-out (`Approve`,
`ScopeOut`) the next scan signs the same finding again. A statement in `log` carries
its payload, the instant and the process, the key it was signed with, and a history
variable: `lone` is the processes beside whose current operation nothing ran, so
`Alone(i)` says of a statement that nothing else was at work while it was made.

**CloudRuns.** `ledger` holds run events and bundles, folded by `Lifecycle` as
`runsLifecycle` does: `rows` is that fold, one row per minted request, brought up to
date with each append. `handler` is one HTTP request being served: what its route
has read and not yet acted on. `transcripts` is what runners have signed; intake
may be called with any of them any number of times, which is loss, duplication and
reordering at once. An element of `Answers` is what one account says to everything
the runner asks of it: the caller, the simulated probes, and per command the exit
code and the error phrases. The transcript keeps classes of them only; the answer
itself rides along as history, for the property. The start and the end of a run
are one reading of the runner's clock.

**TwoKey.** `row[p]` is a proposal's record in the console, `ledger` the events
and the bodies of one judged slot. `call` is a decide request: after the status was
read, after the body was read, after the event was appended.

**Mirror.** A line of the events file is its number and whether it parses; `remains`
says whether text follows the last newline, onto which the next line would be written. `offset` counts
complete lines, past which alone the tail advances.

**Serve.** `listed` is how many statements the index lists, and a snapshot *is* the
number it was made from, so `pb[c]` is the set of projections whose rows collection
`c` holds. Three collections stand for those of `PROJECTION_COLLECTIONS`: folded
rows, the bundles, and meta.

**Daemon.** Time is kept as ages, saturating, which keeps the model finite without
a last instant: liveness is not cut off by a bound on time. A finding is what a
collector read: the files' content and a version of the world (an advisory
database, a tool). `cache` is indexed by recipe and content: the key is computed
from HEAD before the collector reads the tree. A tick in which `assess()` or `head()`
throws (`TickFails`) neither warns nor scans, and the timer is armed again; `hurt`
remembers it until a recipe is recorded again, `cut` does not, as what the daemon
compares with is untouched. The module has one daemon, and no manual scan and no
scope-out beside it: those are in `Scan`. (After a scope-out the next scan signs the
recipe again whatever its age, so the clock would start over sooner.)

**Fold, Methods.** `world` is the repository's history, one entry per instant;
`log` the ledger. A statement may be appended about an earlier instant: a slow
scan, an overlapping one, an ingested result. All views are operators on the
positions in scope (`InScope(t)` is the `asOf` option). `Methods` counts days, in
months of `Lengths`, and appends to one of the ledgers of `Pasts`, because the
cases of history need months.

**Reach, Collectors.** A tree is a set of facts (a file, a load of some shape, a
dependency edge, a route, a call, a configuration) of which the extractor sees
some and the running program all; a gate's negative is compared with what runs. In
`Collectors` a content is the set of what a collector can tell of a file.

**Intake.** A batch is a function from places in a document to submissions; rows
are inside an assertion's filter or not and satisfy its clause or not.

**Frontier.** No process: a tree of files people edit (snapshot files of one or
another release, pins, records, recipes, manifests) and the checks that pass or
fail on it. Everything promised is promised of a tree that passes.

## 3. What is checked

A run is one TLC configuration; its bounds are constants that its module names, and
a guard that mentions one is the only place where a model stops what the program
could do. All runs are exhaustive and expected to pass. Where the code breaks a
promise in a particular interleaving, the property excepts that interleaving by a
history variable or a named operator and section 6 lists it; with the exception
taken out, TLC shows it.

| Run | Configuration | Distinct states |
|---|---|---|
| ledger | `MCLedgerReader.cfg` | 64 thousand |
| runs | `MCCloudRuns.cfg` | 817 thousand |
| runs_window | `MCCloudRunsWindow.cfg` | 244 thousand |
| twokey | `MCTwoKey.cfg` | 1.15 million |
| serve | `Serve.cfg` | 30 thousand |
| daemon | `MCDaemon.cfg` | 387 thousand |
| scan | `MCScan.cfg` | 2.56 million |
| fold | `MCFold.cfg` | 116 thousand |
| methods | `MCMethods.cfg` | 22 thousand |
| reach | `MCReach.cfg` | 155 thousand |
| intake | `MCIntake.cfg` | 329 thousand |
| frontier | `MCFrontier.cfg` | 885 thousand |

### ledger

Two writers, two contents, appends with and without an envelope, cut short
anywhere, beside one reader; objects modified on disk. The writers can meet on one
content or append two; a third adds no new meeting to what `LedgerProofs` shows for
any number. Lines are whole here (`TornWrite = FALSE`); the proof of `LedgerInv`
covers both.

- `LedgerInv`, the inductive invariant of the proofs: `IndexSound` (a row's object
  is whole), `NoDuplicateRow`, `SignedBeforeListed`, `Accounted` (an object is
  listed, on its way, or its creator was cut short), ownership.
- `AckedEventuallyListed` (fair): a digest that was returned becomes readable,
  unless the append that created the object was cut short. The exception is real:
  the second caller is answered on `EEXIST` without a look at the index.
- `ModifiedNeverServed`: a modified object is never handed out unless this instance
  verified it before, and then `verify` refuses it; what `verify` says of a
  statement it says for good.
- `LogSpec`: `list()` implements `StatementLog` under `log <- EveryWholeRow[index],
  view <- listed`. Two instances never disagree on history, and it never shrinks.

### runs, runs_window

*runs*: one request, two HTTP requests served at once, a sidecar and a one-shot
runner, two deliveries, one stop. *runs_window*: one handler; every kind of caller,
probe decision, exit code and error text; self-check skipped or not; outputs whole
or changed; a runner's clock one tick off either way. One nonce is enough, as no
operation relates two of them but the choice of the oldest.

- `NonceIsSingleUse`: one bundle and one claim per nonce, except for named races
  (two handlers that both read before either recorded; a claim recorded after the
  nonce was spent); nobody works on a request without being on record.
- `AcceptedNamesEvidence`: an accepted run has its bundle before it, ran in the
  window by the runner's clock and the console's, as the configured account, with
  every mutating probe denied and every command clean. None of `classifyStderr`,
  `classifyStep`, `selfCheck` and the intake's order of refusals sees all of that.
- `EveryRunSettles` (fair): an outcome or expiry; excepted is an intake that a stop
  cut off after `submitted`, which neither expires nor can be repeated.

### twokey

Two approvers, two requests at once, three in all, a scope-out and a judgment, a
failure between any two steps, two overlapping scans that write the judged slot. In
other behaviours of the same run (`mirrors`), the console's mirrors of the daemon:
four writes, one rotation, one refused row, restarts, a daemon that may die inside
a write.

- `LedgerMeansApproved`: an approved row names an event in the ledger signed by the
  approver the row names, and an event's proposal is approved.
- `OneEventPerProposal`, `RegisterSaysOneThing`: up to the exceptions `raced` (two
  requests found the proposal pending) and `cut` (a request ended between event and
  patch).
- `JudgedBodyIsLive`: a judgment names what the fold shows, unless a body was
  appended after it read, or overlapping scans appended out of timestamp order: the
  judgment takes the last appended, the fold the newest.
- `MirrorIsTheFile`: at rest the mirror is the newest readable lines of the file,
  once each and in order, and the heartbeat is the one on disk; four writes are two
  more than `TailLimit`, so the bounded backfill leaves some out.

### serve

Three appends, two starts, a failing step. Three appends are one before, one during
and one after a projection.

- `NeverMixed`: a collection never holds rows of two projections.
- `RestIsCurrent`: when nothing is pending, the board shows the whole ledger,
  unless an append fell between the startup's listing and the watcher, or the last
  projection failed (`lapsed`).
- `NoticedIsShown` (fair): what the watcher is to hear of is shown, unless the
  server goes down or a step throws afterwards.

### daemon

Two recipes; window 8, scan due at 5, warning at 6, interval 1, scans of at most 1;
every second scan full; any three of starts, commits, drifts of the world, outages,
failing scans and failing ticks. After a start, the two ticks that may still fail are
enough for evidence to expire. The ages pass every threshold, a process can be killed and
started again, and one recipe can be refreshed while the other is not.

- `FreshWhileWell`: a bundle expires only if since its record its collector was
  out, a scan or a tick failed or the daemon was down; and a scan leaves nothing that the
  same instant would scan for.
- `WarnedBeforeReplaced`: what a scan replaces near or after expiry was warned of.
- `SilenceIsEarned`: a full scan that turns a verdict recorded at its commit raises
  an alert, unless no scan completed since one failed or the process was replaced.
- `ClockSettles` (fair): if tools and daemon stay well, the evidence becomes what
  the collectors would find now, and the daemon does not scan on every tick for
  ever. This needs n(Interval + MaxScan) < ScanAt for n recipes, whose refreshes
  may be staggered; the program's defaults leave room.

### scan

A daemon's scanner, one of the command line and a person who records a body or a
scope-out, in three courses. *beside*: the pair exists, the repository declares its
artifact and goes on declaring it, and three operations run, two at a time, over one
commit or stop. *pair*: two operations race to make the key pair.
*apart*: three operations run one after another, of a repository whose artifact is
missing at first, over three commits and stops, which is what it takes for a body
to come, to go unobserved, and to be missed again. A commit changes what the recipe
finds or what is declared. `RefreshAfter` is 2, so the third operation can find
evidence aged: the daemon's signs it again, the command line's run record is backed by
it. A command-line scan after a scope-out signs a finding a second time with nothing
beside it; that a daemon's does so before the refresh age takes one instant more than
there is, and is left to the proof. Only bodies are symmetric, as the scanners differ.

- `EveryStatementVerifies`: under the pair on disk, whoever raced or stopped.
- `RunIsBacked`: for every verdict a run record lists, a bundle that says so
  precedes it, which is not aging if the scan is a daemon's; the derived model covers all the scan recorded; if
  nothing ran beside it, the fold's word on each slot is what the scan saw. Excepted
  is a body whose operation observed nothing after it (`Unobserved`, section 6).
- `TwinsOverlapped`: the same finding is signed twice in a row only by a daemon that
  refreshes it, after a scope-out of its recipe, or by operations that overlapped; one
  body is revised by two only by operations that overlapped.

### fold

Every ledger of three statements over three instants, about two interchangeable
recipes that anchor one file and a third that is only ever ingested, in every order
of arrival. Three statements are a chain with a death and an observer from another
recipe, or an episode that opens, resolves and opens again.

- `DeathIsDeserved`: the newest bundle of a chain is live exactly if the latest look
  at each of its anchors, by whichever recipe and in whatever order it arrived,
  found the same.
- `MovementsAreTold` (`EventsTellMovements`, `ChangesAreExplained`): when two boards
  differ in a cell the feed has an event for it, and the comparison of two boards
  says why. Excepted (`Returned`) is evidence that comes back to life because its
  file was changed back.
- `FailuresAreTimed` (`StreakIsOpenEpisode`, `GapsAreStaleTimes`): register and
  vulnerability feed agree on when a violation began; gaps are the instants without
  a bundle young enough. Excepted are chains with an ingested bundle without
  verdict.
- `StoresKeepTheFold`: both stores take every row of the projection, from whichever
  migration and release a deployment comes, and give it back.

### methods

Five ledgers of four months (validated twice; once beside a client's result and an
attestation; failed, scoped out and a body lost; a client reporting on both KSIs;
every recipe scoped out and a client's unautomated result left) and two more statements of every kind, folded at the end of each month from
January to April: inside, at and beyond each window.

- `HistoryMeansKnown`: history that meets the floor means that at every instant of the
  owed span some validation by a recipe that bears on this KSI was inside its
  window, and where windows are alike no such history is missed. A validation ends
  with its expiry: renewed only on the day after, the status was lost in between.
- `RegistersAgree` (`ViewsAgree`, `MetersRecount`, `KsisAreIndependent`): three
  computations of the gaps agree, meters recount rows, a KSI is judged from its own
  statements. The first two are asked with no scan recorded as well.
- `PublishedIsEarned` (`NeverOverstates`, `ViolationIsOwed`): the published status
  never overstates and no failure is forgotten. Excepted is a KSI whose automated
  methods are all scoped out (section 6).
- `BodiesHold` (`JudgmentFollowsBytes`, `NextMoveWorks`, `NoRecordMeansNone`,
  `RecordedStandsAtOnce`): a judgment speaks of bytes and goes with them; the queue,
  the generators and the check do not contradict each other.

### reach

Every four edits, commits and merges of fourteen facts (three files in two roots,
two packages, a workspace package, four functions), with a scan or check possible
at any moment; and beside them, each of nine collectors through every four edits,
commits, nights and changes of the machine. Four moves are two facts that only
together make a path, a commit and a merge or one more edit.

- `SignedIsSound` (`NegativesAreTrue`, `SbomOnlyAdds`, `OnlyCommittedFiles`): a signed
  "not reachable" is true of the program read, the SBOM only adds, and a file only on
  disk adds nothing.
- `CoveredRouteRunsAuth`: a route said to reach authentication runs it, where no two
  functions of a file share a name.
- `BlameIsDeserved`: against a base tree nobody is blamed for what the base had nor
  excused for what it had not; against the board that is not promised.
- `AnswersHold` (`AnswerIsTrue`, `ClaimsKeep`, `EvaluatorsAgree`): an answer is true of
  the commit it names; a claim that something exists holds while its anchors stand;
  the two evaluators agree on tables of up to two rows for every operator with every
  operator as its filter.

### intake

Two ingests that may die anywhere take three handoffs out of sixteen documents of
every shape, ten of them refused, each for its own reason. Three handoffs are one
that dies, one beside it and a retry.

- `HandoffLandsWhole` (`HandoffLandsOnce`, `NeverHalfABatch`): a statement is listed
  once; after an ingest finished all of its batch is listed, about to be, or was cut
  short by another; nothing is listed of a document that also names an unknown KSI.
- `VerdictIsEarned`: a pass rests on rows of a run that finished; a mute excuses
  nothing; a package earns no verdict.
- `NothingIsDropped`: every evidence of a package under every KSI its indicator
  became, every reported row in exactly one population.

### frontier

Trees at three of four releases of the dataset, brought into line or not, through
every three edits of snapshot, pins, records, recipes and manifests: enough for a
re-pin (which moves several files) to stop half way.

- `LoadsOneRelease`: what the loaders accept under the pins of a release is that
  release.
- `NothingUndeclared`: in a tree that passes, live records agree with upstream or say
  that they do not, and overlaps are declared.
- `CoverageHolds` (`NumbersRecount`, `DischargedCanRun`, `DryRunRestsOnItself`): the
  numbers recount, and what is called discharged or runnable can be run.

### Mutants

For each property `PROJECT.json` names an operator that replaces one mapped
definition by a plausible mistake (a dropped guard, a lost exclusion, the wrong end
of a list), under which the property fails.

## 4. Fairness

- `Ledger`: weak fairness of each call in flight: its steps are awaited file-system
  calls. Nobody has to begin one.
- `CloudRuns`: time passes, and a handler that was called goes on to its reply. No
  runner has to ask or to answer, so what settles a run without them is expiry.
- `Serve`: awaited requests return, the watcher is called, timers fire. Nobody has
  to append, and the server may be stopped at any time.
- `Daemon`: time passes, the timer fires, awaited steps return. Tools need not be
  repaired, nor the daemon started: those conditions stand in the property
  (`<>[]Well`).

No run uses strong fairness, and the other modules claim no liveness. Deadlock is
checked in ledger and daemon; the other systems stop where their bounds (time,
appends, key turns, edits) are used up, and their configurations say so.

## 5. What is proved

Eight modules prove what the runs show on small instances for every value of the
constants, from the named assumptions of the modules and nothing else. Bounds such as
`MaxTime` or `MaxCalls` are any natural numbers, so a theorem holds of the process
without them. Each proof has the same shape: a type invariant and named parts
that together are inductive, a lemma per action, the property from the parts. Where
a property excepts a named race or failure, so does its theorem.

`LedgerProofs`, for every set of contents, every number of writers and both values
of `TornWrite`, from `LedgerAssumption` alone (`NL` and `None` are not contents):
`LedgerInvariant` (`LedgerSpec => []LedgerInv`), `LedgerSafety` (hence sound index, no
duplicate row, envelope before row, every object accounted for) and
`LedgerAppendOnly` (no step rewrites anything).

For any readers beside them, where an index append is whole or absent
(`TornWrite = FALSE`): `LedgerIsTheLog` (`Spec => LogSpec`, the refinement of
`StatementLog`), `ModifiedIsNeverServed` (`Spec => ModifiedNeverServed`) and the
invariant both rest on, `ReadersFollow`. The condition is needed: a row without its
newline runs into the next one, every reader throws there (section 6), and `verify`
then throws over statements it found before. The argument: rows and newlines
alternate in the index, and a row is without its newline only while the one append
that wrote it is between the two (`Lined`); so the whole rows are every other byte
(`WholeRows`), without a word about how a reader finds them. A reader holds the rows
of the bytes it has consumed, the rest of the last line, and has listed the first of
those rows (`Follows`); what it reads next begins where a row may begin (`RuledPart`),
wherever in a line the stat before it fell, and joined to the held bytes it gives the
rows of all that is consumed (`ReadDoes`). Then an append that ends its line is a
`Publish`, a `list()` is an `Observe`, every other step a stutter. That the published
row is new is `NoDuplicateRow`. `verify` keeps its word because no envelope is written
for a statement that is listed (`OwnerProgress`).

`NoDuplicateRow` is not inductive: nothing in it says that a second append of a
content will not reach the index. The argument runs over ownership. The exclusive
create elects one owner per content (`SingleOwner`); an owner that has not written
its row finds none there (`OwnerProgress`), and an object, once created, keeps
everybody else from becoming an owner. Since a row is only appended by an owner, it
is new. `OwnerProgress` also carries `IndexSound`: at that step the object is whole.
Two lemmas say what one more byte does to `Listed` and to `NoDuplicateRow`; the step
lemma has one case per action.

`ConsoleProofs`, of Serve, for any set of invocations of `project()` and any bounds on appends,
starts and failures: `ServeInvariant`, hence `ServeNeverMixes` and
`ServeRestsCurrent`. `NeverMixed` needs that a collection is empty when it is filled
(`Progress`), which needs that no other loop fills it meanwhile (`OneLoop`: the flag
`projecting` is up exactly while a loop runs). `RestIsCurrent` speaks of a server
with nothing to do; `ReadIsCurrent` says of every state that either something will
project again (`Owed`) or what the loop has listed and folded so far is the whole
ledger. The collections are the three of the module.

`TreeProofs`, of Reach, for every finite set of files, packages and functions and
every set of facts that say of them what their kind says (`GraphAssumption`,
`FactsAssumption`), hence for chains of imports and calls of any length:

- `SignedIsAlwaysSound` (`SignedIsSound`) and `CoveredRoutesRunAuth`
  (`CoveredRouteRunsAuth`): the gates walk what the extractor sees, the property what
  runs, over other edges and from other starts, and both walks have to be compared
  whole. A walk takes as many steps as its edges have nodes (`ClosureIsWalk`); a step
  that is not the last one yet adds a node (`ClosureCloses`), so what it ends with is
  closed under the edges, and it is the least such set (`ClosureWithin`). With these
  two facts neither walk is unfolded again: that everything loaded at run time was
  walked, or some load on the way seen to be opaque (`LoadedHasArrived`), needs only
  that the walked set is closed under one load more. For covered routes the chain is
  the other way round: exact edges are calls that happen (`ExactChainsRun`), where
  names are one to a file (`ExactMeansRun`);
- `SbomOnlyAddsAlways`: whatever is reached without the SBOM's dependency edges is
  reached with them, while the set of what was walked is the same either way; so a
  `not_affected` signed with the SBOM would be signed without it;
- `OnlyCommittedFilesAlways`: each claim a scan signs is about files the commit
  lists, from the invariant that trees consist of facts (`TreesAreFacts`);
- `BlameIsDeservedAlways`: `ReachSpec => []BlameIsDeserved`.

`TreeProofs`, of Frontier, for any controls, indicators, recipes, releases, first
trees and wiring of collectors: `WhatLoadsIsOneRelease` (`LoadsOneRelease`),
`DisagreementIsAlwaysDeclared` (`NothingUndeclared`) and `CoverageAlwaysHolds`
(`CoverageHolds`), and that edits keep trees in shape (`TreesKeepTheirShape`). One
release is loaded because a version names a content (`VersionsNameContent`): a file
that claims the pinned version has the pinned release's bytes, wherever it was copied
from. Numbers recount since the classes that are counted are disjoint and cover what
there is (`CountedApart`). A dry run marks collectors in the order of the list, and
what it has marked so far rests on itself (`DryRunRests`): nothing on it waits for
what comes later. The assumptions say what a release is (`ReleasesAreWhole`,
`FrontierIsReached`), that first trees have the shape of trees (`TreesAreTyped`) and
that the order is a list of collectors (`OrderIsList`); none of them says that a tree
passes.

`MethodsProofs`, of Methods, Registers and Artifacts, for any months of 28 to 31 days,
windows in days or months, recipes, clients, KSIs, floors and ledgers
(`LengthsAssumption`, `MethodsAssumption`, `InputsAreShaped`, `OptionalAssumption`,
`RunCapAssumption`): `HistoryAlwaysMeansKnown` (`HistoryMeansKnown`),
`PublishedIsAlwaysEarned` (`PublishedIsEarned`), `RegistersAlwaysAgree`
(`RegistersAgree`) and `BodiesAlwaysHold` (`BodiesHold`). The invariant
(`LedgerIsAHistory`) says of each statement that it has the shape of its kind, a scan's
a verdict and a client's perhaps none, and that instants never go back. From it the
fold's order is that of the positions (`PositionsOrder`), and the properties are
about views of such a ledger:

- *history*: that a day has a month and a month's sum is its day is proved by least
  counterexample, as the count of days is a recursion (`MonthsFollow`,
  `DayIsOfAMonth`), and that later evidence does not expire sooner although months are
  clamped (`ExpiryAscends`). The owed span opens at the last instant that reaches back
  (`SpanIs`). Of a history with no lapse, the last instant before any day of the span
  still stood on it (`MetMeansKnown`); of one with a lapse, nothing stood on the day of
  it (`KnownMeansMet`), which needs windows that are alike;
- *publication*: a row calls its newest bundle's verdict (`LiveIsNewest`, `RowIs`). Of
  a chain that ends in a failure, the first failure after the last that was none
  opens an episode nothing resolved (`FailureHasEpisode`), and a method whose episode
  is open did not pass (`OpenMeansNotPassed`);
- *registers*: which KSIs a section names and of which it says they are short
  (`SectionsName`, `SectionsOwe`), so that what the one counts is the complement of what
  the other lists (`CountedTheOtherWay`). A KSI's own statements and all of them have the
  same evidence, scope-outs, attestations and slots (`NamingIsEnough`), and every view
  is a function of these (`RowsAreAlike` to `RollupsAreAlike`).

The assumptions say that months are months and that what is appended has its shape;
`InputsAreShaped` asks of a first ledger what the invariant says of every later one.

`FoldProofs`, of Fold, for every history, any recipes with any anchors, and statements
about any instants in any order of arrival (`ChainsAssumption`, `FoldAssumption`):
`FailuresAreAlwaysTimed` (`FailuresAreTimed`), `DeathIsAlwaysDeserved`
(`DeathIsDeserved`) and `MovementsAreAlwaysTold` (`MovementsAreTold`). The invariant is
short, as the views are functions of the ledger: each statement has the shape of its
kind and saw what the world held at its instant (`SawTheWorld`). The rest is about
orders. The order of the fold is total and every set of positions has a first and a
last in it (`ThereIsAFirst`, `ThereIsALast`); of an open failure the episode's opening
and the streak's start are the same first statement (`OneIsOpen`, `StreakOpens`). A
watcher that saw a file changed is followed by a first one that did
(`FirstChanged`), and that one the drift feed names (`DeathIsTold`); a death after the
baseline is an event after the baseline (`DeathIsNew`), and a board's cell can only
move for a birth, a death, or the age of what stood there (`EachIsExplained`).

`FoldProofs`, of Intake, for any documents the parsers let through, any number of
ingests and handoffs (`IntakeAssumption`): `HandoffsAlwaysLandWhole`
(`HandoffLandsWhole`), `VerdictsAreAlwaysEarned` (`VerdictIsEarned`) and
`NothingIsEverDropped` (`NothingIsDropped`). Of ingests beside each other: one at most
is about to list a bundle, and it is not listed (`OneAuthor`); every object is listed,
about to be, or was cut short (`NoneIsLost`); what an ingest was given is still to be
looked at, at hand, or landed (`AllIsLookedAt`). Of documents, shape by shape: what a
batch consists of (`BatchOf`), that each group of one name has a first place
(`FirstPlace`, lexicographic), which keeps its evidence (`EvidenceIsKept`), and that the
populations add up to the rows (`PopulationsAddUp`): the library's fold over a set of
populations is unfolded, and a closed form shown to solve its recursion.

`ConsoleProofs`, of TwoKey, for any number of proposals, judgments among them, approvers,
requests, retries, bodies and scans (`TwoKeyAssumption`): `LedgerMeansApproved`,
`OneEventPerProposal`, `RegisterSaysOneThing` and `JudgedBodyIsLive`. The route checks
the row, awaits twice, appends and then patches; none of the properties says what
holds in between. Without a race one request at most is under way on a proposal
(`OneDecider`) and its row is still pending (`StillPending`); a request between append
and patch holds an event that is in the ledger and its own (`RecordedIsListed`,
`DigestIsOwn`); an event has an approved row, a request about to approve it, or one
that was cut short (`EventIsAnswered`). For judgments, the body a request holds is the
last appended or was overtaken (`HeldIsLast`). That a nonempty log
of bodies has a last one is proved (`LeastOf`, `MaxOf`), not assumed.

`CloudRunsProofs`, for any number of requests, runners, concurrent handlers,
deliveries, restarts and any set of account answers (`RunsAssumption`):
`NonceIsSingleUse` and `AcceptedNamesEvidence`. `RowTells` relates the fold to the
statements it folds: a row's state has happened, and what happened has moved the row
on, unless a claim came late. `OneClaim` and `OneBundle` say that, without a race,
one handler at most is about to claim a nonce or to append its evidence, and none
once that was done. `Judged` carries the intake's checks over its awaits: what is
about to be recorded as accepted passed every one of them.

`ConsoleProofs`, of Mirror, for any number of lines and any `TailLimit`: `MirrorIsTheFile`.
The lines still to insert are the last ones before the offset, the rows are those
before them that parse (`Mirrored`), and the offset is the end of this very file
unless a change was heard or the history says what was missed (`Standing`). That a
complete line is never changed by the next write is what makes this stable.

`DaemonProofs` (`DaemonAssumption`: a nonempty list of recipes, and a window with
room, after the threshold at which a scan is due, for one interval and two scans):
`FreshWhileWell`, `SilenceIsEarned`, `WarnedBeforeReplaced`. Freshness is an account of
ages: evidence nothing happened to (no outage, no failing scan or tick, no stop) is younger than `ScanAt + MaxScan` plus the idle
time of the tick, or plus an interval and what the running scan took (`Aging`). It
needs that the scan, going through the list, has answered (`Collected`) and recorded
(`Recorded`) what lies behind it. Of the alarm, `Remembered` says that a daemon
nothing interrupted remembers of each recipe what the ledger says or nothing, and
says of HEAD only what it read there; `Turned` that a verdict a full scan turned
differs from what is remembered.

`ScanProofs`, for any number of processes, operations, recipes, slots, commits and
stops (`ScanAssumption`, `SignerAssumption`): `EveryStatementVerifies`,
`TwinsOverlapped` and `RunIsBacked`. The key pair: whoever holds a key holds the one
whose halves are both on disk, since the exclusive create lets one process make the
private half and only that process makes the public one (`Paired`). The rest runs
over one operation at a time: each has its own instant (the clock moves on with
every start), and an invariant of its course says what it has recorded so far: each
recipe behind it has a bundle that says what it found and is not aging for a daemon's
scan, each slot behind it the body it read or an observation that does, and what is derived covers it all.
While nothing runs beside it, the last statement listed for a recipe and the last body
of a slot are what it takes them for. Properties of the log itself are kept because no later
append speaks for an earlier run record: the fold's word at position `i` depends on
the positions up to `i` alone. That a set of positions has a latest element, and that
over statements in the order of their instants the fold's latest is the last
appended, are lemmas by well-founded induction over finite sets.

Left to TLC:

- the four liveness properties (`AckedEventuallyListed`, `EveryRunSettles`,
  `NoticedIsShown`, `ClockSettles`), as fairness and `ENABLED` are out of the prover's
  reach;
- readers of an index with a torn line, which throw (section 6);
- `StoresKeepTheFold`: schemas are built with `@@` over migrations, which the prover
  cannot expand, and the rest of it is a comparison of tables;
- `AnswersHold` of `Collectors`, whose answers range over tables of tools and whose
  evaluators are compared operator by operator.

## 6. Where code and words part

None of these is asserted by a run; each is an exception a property names, or was
met while translating.

*Ledger, verify.* A reader that meets a line which two appends share after a crash
throws after `consumed` and `partial` moved and loses the whole lines behind it
(`local.ts:112–122` against 79–82). A statement whose append was cut between object
and row is acknowledged for ever and never listed; `ingest` reports it "appended"
(`ingest.ts:443`). `verify.ts:25` trusts nothing in the index, yet `get` finds the row
through it. `verify` without a key pair makes one. An ingested bundle older than
`method_id` is reported as a mismatch, as `rebuild` does for a superseded ingested
chain. An envelope brought by the second caller of an unsigned statement is dropped.

*Runs.* The fold lets any later timestamp win, so a replayed transcript's
`submitted` takes an accepted run back (`runs.ts:184` against 183). `poll`'s comment
says that a refusal is logged and the loop goes on; what `performAssignment` throws
leaves the loop.

*Two-key.* A proposal can be rejected while a signed scope-out of it stands in the
ledger (`decide/route.ts:65`, 90 against `scoping-register.ts:17`).

*Serve, mirror.* An append between startup listing and watcher is shown only after
the next one (`serve.ts:199`). A rotated event file that has regrown past the offset
is not noticed (`events.ts:8`); a row PocketBase refuses loses the lines the chain
had left, and at start ends serve; `emit` swallows an event it cannot write.

*Signer, PocketBase account.* The comment says an unreadable pair leads to
generation (`local.ts:53`); with a private half on disk the exclusive create then
fails, and every signature fails until somebody removes the file. A torn
`.rampscan-superuser.json` likewise makes every start of the console fail.

*Scan and cache.* The cache is keyed by HEAD's tree while several collectors read the
working tree, so a dirty run's result is served later under the commit's key. The
appends of overlapping scans are in another order than the fold's instants
(`scan.ts:441`, `artifacts.ts:82`). A cached SBOM a day old turns
`sbom-exists-and-fresh` to violated on an incremental scan. A scan leaves its
observation out when it repeats the last one (`scan.ts:552`). If a scan records a
body and stops before it observes anything, and the file is missing again at the
next, that scan sees what the last observation said before the body, and says
nothing; the fold takes no observation older than a body as a word on it
(`fold.ts:870–880`), so the body of a file that is gone counts on. Found while
`RunIsBacked` was being proved; without the exception `Unobserved`, the course *apart*
shows it.

*Collectors.* checkov's scope lacks `.github/actions/**`, spectral's scope is
case-sensitive where its file pattern is not, checkov's `**/Dockerfile.*` is narrower
than its pattern. gitleaks and osv-scanner read a stale report when the tool fails
before writing one. Claims about all files of a kind are not retired by a new file.
If listing the untracked files fails, nothing is excluded. The labeled evaluator
coerces in `eq` and `lte` where the row evaluator does not, and with a `where` over
no elements passes.

*Graph, check.* Loads the extractor does not see break a negative
(`extract.ts:824` against `sast-gate.ts:37`). A scan lists committed files and reads
their bytes from disk. A comparison with the board, not with a base tree, can blame
wrongly.

*Fold.* A drift death can vanish from history when its file changes back, although
drift is called permanent. `fold.ts:1016` has chains without `unevidenced`, which is
not so for ingested ones. A result ingested for two KSIs under one recipe shares a
chain (`fold.ts:274`). The cap of 200 run records is over all repositories. "A body
stood here" is said of declarations never resolved. Artifact 4 is never offered as
derivable. A comparison's "newly violated" may carry `violating since` before the
baseline.

*Registers, record.* An automated method that was scoped out still counts for the floor
(`sdr-build.ts:208`, where `floorMet` counts derived methods, as 175 says), and is not in
scope for the conditions on evidence. With every automated method scoped out, a
client's unautomated result or an attestation alone can make a KSI `Implemented`, a
status that 164 says is "allowed to understate but never to overstate"; that some
automated method holds evidence is asked only where the class owes no floor (209). Met
while `NeverOverstates` was being proved, and excepted there. The gap register calls
history without a scan unmeasured, the KSI register unmet (`gaps.ts:196` against
`ksi-register.ts:222`).

*Daemon.* "HEAD moved since the last recorded scan" is compared with the newest
*bundle's* commit: a commit that changes no evidence makes every tick scan until
something is refreshed.

*Ingest, dataset, frontier.* Two accounts under one repository share a method;
ordinals of repeated names depend on the order of evidence; the check of the
Prowler framework against the catalog is only called from tests. Retired records are
promised frozen, yet one can be flagged after a re-pin; the `aws` plane of the plan is
pinned by nobody; the tool map checks producers, neither order nor cycles.

## 7. What is not modelled, and why

- *Renderings*: submission documents, exports, reports, the repository model, the web
  pages, the wording of notes and problems: pure formatting of what is modelled.
- *Validators and types* (`schema/*`) and ports: the rules the models rely on are
  mapped where they are used.
- *Digests, DSSE, dates*: a content is its digest; a signature is the key it was made
  with.
- *The aws recipe binder, the command line, the trust-center probe*: a pure
  classification, argument parsing, and a command whose output never reaches the
  ledger.
- *Several targets of one scheduler; the 500-proposal page of the scoping register
  and its problems of a recipe outside the catalog or a signature that fails, which do
  not change what it matches; the rule register of the dataset; the frontier's gap rows and the metrics block.*
- Ingested results under the id of a recipe that scans collect: an id is free text, and
  in `Scan` and `Daemon` the two kinds of recipe are taken to be apart.
- PocketBase's default listing order is assumed, and SQLite's transaction is taken to
  be one step. An append is one step outside `Ledger`.

## 8. Plan

What would add most:

1. `TwoKey` as an implementation of one atomic decision where no history variable is
   raised; `Scan` as an implementation of one atomic scan where nothing runs beside.
2. Two targets in `Daemon`; the aws binder as a pure algorithm.

## 9. Running

```
tlc -config MCFold.cfg MCFold        # likewise for the other configurations
tlapm LedgerProofs.tla               # likewise Console-, CloudRuns-, Daemon-, Scan-,
                                     # Methods-, Fold- and TreeProofs
```

Every run ends within three minutes on two workers.
