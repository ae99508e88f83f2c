-------------------------------- MODULE Daemon --------------------------------
(***************************************************************************)
(* `rampscan daemon` keeps a checkout evidenced inside the class window    *)
(* (packages/cli/src/daemon.ts over packages/scheduler, the scan in        *)
(* packages/cli/src/scan.ts and its cache in packages/core/src/cache.ts).  *)
(* A tick assesses the ages of the live evidence, warns, and scans when    *)
(* the oldest has used ScanAt of its window or HEAD moved; one that fails  *)
(* does none of this.  A scan runs one collector after the other, from the *)
(* cache unless it is a full one, and then signs what differs from the     *)
(* ledger's latest bundle or is aging; a full scan's verdicts are compared *)
(* with the last scan's.                                                   *)
(*                                                                         *)
(* Time is kept as ages: of each recipe's latest bundle, of the scan under *)
(* way, of the timer.  What a collector finds is a pair of the content it  *)
(* read and the version of the world outside the repository; one collector *)
(* serves one recipe, and recipes anchor disjoint files.                   *)
(***************************************************************************)
EXTENDS Integers, Sequences, FiniteSets

CONSTANTS
  Recipes,      \* the recipes, in the order they are collected and recorded
  Content,      \* what the files a recipe anchors may hold
  Passes,       \* the findings whose assertions all pass
  Window,       \* the class window,
  ScanAt,       \*   the ages at which a scan is due
  WarnAt,       \*   and a warning is,
  Interval,     \* the time between ticks,
  MaxScan,      \*   and how long a scan takes at most
  FullEvery,    \* every FullEvery-th scan bypasses the cache
  MaxEvents     \* bound: starts, commits, drifts, outages, failing scans and ticks, in all

Recipe == {Recipes[i] : i \in DOMAIN Recipes}
World == 0..1
Finding == Content \X World
None == <<>>    \* no finding: nothing recorded, nothing cached, or skipped

\* There is something to scan for; the window leaves room for a tick and two
\* scans after a scan is due.
ASSUME DaemonAssumption ==
  /\ Recipes \in Seq(Recipe) /\ Recipes # <<>> /\ Content # {}
  /\ {ScanAt, WarnAt, Window, Interval, FullEvery} \subseteq Nat \ {0}
  /\ MaxScan \in Nat /\ Passes \subseteq Finding
  /\ ScanAt <= WarnAt /\ WarnAt < Window
  /\ ScanAt + Interval + 2 * MaxScan <= Window

VARIABLES
  content,      \* per recipe: the committed content of its files,
  outside,      \*   and the version of the world its tool consults
  works,        \* the recipes whose collector can run
  found,        \* per recipe: its latest bundle's finding,
  age,          \*   the time since that bundle's timestamp,
  atHead,       \*   and whether its commit is HEAD
  cache,        \* per recipe and content: the finding cached under it
  phase,        \* the daemon is down, waits for its timer, or scans
  idle,         \* how long it has waited
  scans,        \* how many scans this process began, modulo FullEvery
  warned,       \* per recipe: the warnings given for its latest bundle
  base,         \* the findings of the last completed scan,
  baseHead,     \*   and whether its commit is HEAD; FALSE without such a scan
  stage, pos,   \* what the scan is doing, for which recipe
  took,         \* how long it has been running
  startHead,    \* its commit is HEAD
  comparable,   \* its commit is that of the last completed scan
  key,          \* the content the recipe under way is cached under
  got,          \* per recipe: what its collector found
  hurt,         \* history: recipes not looked after in good order since recorded
  flipped,      \* history: this scan changed a verdict recorded at its commit
  cut,          \* history: a scan failed, or the process ended, since the last
                \* completed scan
  events        \* how many of these there were

repository == <<content, outside, works>>
ledger == <<found, age, atHead>>
memory == <<scans, warned, base, baseHead>>
scan == <<stage, pos, took, startHead, comparable, key, got, flipped>>
vars == <<repository, ledger, cache, phase, idle, memory, scan, hurt, cut, events>>

Cap == Window + MaxScan     \* ages are counted this far
Original == CHOOSE c \in Content : TRUE
Everywhere(x) == [r \in Recipe |-> x]
Event == events < MaxEvents /\ events' = events + 1

Init ==
  /\ content = Everywhere(Original) /\ outside = Everywhere(0) /\ works = Recipe
  /\ found = Everywhere(None) /\ age = Everywhere(0) /\ atHead = Everywhere(FALSE)
  /\ cache = Everywhere([c \in Content |-> None])
  /\ phase = "down" /\ idle = 0
  /\ scans = 0 /\ warned = Everywhere({}) /\ base = Everywhere(None) /\ baseHead = FALSE
  /\ stage = "off" /\ pos = 1 /\ took = 0 /\ startHead = FALSE /\ comparable = FALSE
  /\ key = Original /\ got = Everywhere(None) /\ flipped = FALSE
  /\ hurt = Recipe /\ cut = FALSE
  /\ events = 0

-----------------------------------------------------------------------------
(* The repository and the world its tools consult. *)

\* A commit rewrites the files of some recipes, possibly of none.
Commit ==
  /\ Event
  /\ content' \in [Recipe -> Content]
  /\ atHead' = Everywhere(FALSE)
  /\ baseHead' = FALSE /\ startHead' = FALSE
  /\ UNCHANGED <<outside, works, found, age, cache, phase, idle, scans, warned, base,
                 stage, pos, took, comparable, key, got, flipped, hurt, cut>>

\* An advisory is published, a tool is upgraded in place.
Drift(r) ==
  /\ Event
  /\ outside' = [outside EXCEPT ![r] = 1 - @]
  /\ UNCHANGED <<content, works, ledger, cache, phase, idle, memory, scan, hurt, cut>>

Outage(r) ==
  /\ r \in works /\ Event
  /\ works' = works \ {r} /\ hurt' = hurt \cup {r}
  /\ UNCHANGED <<content, outside, ledger, cache, phase, idle, memory, scan, cut>>

Repair(r) ==
  /\ r \notin works /\ works' = works \cup {r}
  /\ UNCHANGED <<content, outside, ledger, cache, phase, idle, memory, scan, hurt, cut, events>>

-----------------------------------------------------------------------------
(* Time, and the process. *)

Older(a) == IF a < Cap THEN a + 1 ELSE a

\* The timer is punctual and a scan is not slower than MaxScan.
Pass ==
  /\ phase = "wait" => idle < Interval
  /\ phase = "scan" => took < MaxScan
  /\ age' = [r \in Recipe |-> IF found[r] = None THEN 0 ELSE Older(age[r])]
  /\ idle' = IF phase = "wait" THEN idle + 1 ELSE idle
  /\ took' = IF phase = "scan" THEN took + 1 ELSE took
  /\ UNCHANGED <<repository, found, atHead, cache, phase, memory, stage, pos, startHead,
                 comparable, key, got, flipped, hurt, cut, events>>

\* ensureCadence assesses at once; what the process remembers is empty.
Start ==
  /\ phase = "down" /\ Event
  /\ phase' = "wait" /\ idle' = Interval
  /\ scans' = 0 /\ warned' = Everywhere({}) /\ base' = Everywhere(None) /\ baseHead' = FALSE
  /\ UNCHANGED <<repository, ledger, cache, scan, hurt, cut>>

EndScan ==
  /\ stage' = "off" /\ pos' = 1 /\ took' = 0
  /\ comparable' = FALSE /\ startHead' = FALSE
  /\ key' = Original /\ got' = Everywhere(None) /\ flipped' = FALSE

\* Stopped or killed, a scan under way included.
Down ==
  /\ phase # "down" /\ phase' = "down" /\ idle' = 0
  /\ hurt' = Recipe /\ cut' = TRUE
  /\ EndScan
  /\ UNCHANGED <<repository, ledger, cache, memory, events>>

-----------------------------------------------------------------------------
(* tickOne: assess, warn, and scan when one is due. *)

Rows == {r \in Recipe : found[r] # None}

\* The latest bundle of all; within one instant it may be any of them.
Newest == {r \in Rows : \A q \in Rows : age[r] <= age[q]}

HeadMoved == \E r \in Newest : ~atHead[r]
OnExpiry == \E r \in Rows : age[r] >= Window
OnCadence == \E r \in Rows : age[r] >= ScanAt
ScanDue == Rows = {} \/ HeadMoved \/ OnCadence

WarnIfQuiet(r) ==
  IF ScanDue \/ r \notin Rows \/ age[r] < WarnAt THEN {}
  ELSE IF age[r] < Window THEN {"expiring"} ELSE {"expired"}

Warnings(r) ==
  IF r \notin Rows \/ age[r] < WarnAt THEN {}
  ELSE IF age[r] < Window THEN {"expiring"} ELSE {"expired"}

Mode == IF scans = 0 THEN "full" ELSE "incremental"

\* The timer is armed again when a tick is over, so ticks never overlap; the
\* first one comes with the registration.
Due == phase = "wait" /\ idle = Interval

Tick ==
  /\ Due
  /\ idle' = 0
  /\ warned' = [r \in Recipe |-> warned[r] \cup Warnings(r)]
  /\ IF ScanDue
     THEN /\ phase' = "scan" /\ scans' = (scans + 1) % FullEvery
          /\ stage' = "key" /\ startHead' = TRUE /\ comparable' = baseHead
     ELSE UNCHANGED <<phase, scans, stage, startHead, comparable>>
  /\ UNCHANGED <<repository, ledger, cache, base, baseHead, pos, took, key, got, flipped,
                 hurt, cut, events>>

\* The ledger cannot be folded or git does not answer: nothing is warned of and
\* nothing scanned, and the timer is armed again.
TickFails ==
  /\ Due /\ Event
  /\ idle' = 0 /\ hurt' = Recipe
  /\ UNCHANGED <<repository, ledger, cache, phase, memory, scan, cut>>

-----------------------------------------------------------------------------
(* scan: collect through the cache, record, compare. *)

Advance(same, next) ==
  IF pos < Len(Recipes) THEN pos' = pos + 1 /\ stage' = same
  ELSE pos' = 1 /\ stage' = next

\* A hit is the answer; otherwise the collector will run under this key.
Key ==
  /\ stage = "key"
  /\ LET r == Recipes[pos]
         hit == Mode = "incremental" /\ cache[r][content[r]] # None
     IN IF hit
        THEN /\ got' = [got EXCEPT ![r] = cache[r][content[r]]]
             /\ Advance("key", "record") /\ UNCHANGED key
        ELSE key' = content[r] /\ stage' = "run" /\ UNCHANGED <<pos, got>>
  /\ UNCHANGED <<repository, ledger, cache, phase, idle, memory, took, startHead,
                 comparable, flipped, hurt, cut, events>>

\* The entry is written in both modes, under the key computed before the
\* run; a skipped or crashed collector leaves none.
StoreOnce(r, f) == IF cache[r][key] # None THEN cache ELSE [cache EXCEPT ![r] = [@ EXCEPT ![key] = f]]
Store(r, f) == [cache EXCEPT ![r] = [@ EXCEPT ![key] = f]]

Collect ==
  /\ stage = "run"
  /\ LET r == Recipes[pos]
         f == <<content[r], outside[r]>>
     IN IF r \in works THEN got' = [got EXCEPT ![r] = f] /\ cache' = Store(r, f)
        ELSE UNCHANGED <<got, cache>>
  /\ Advance("key", "record")
  /\ UNCHANGED <<repository, ledger, phase, idle, memory, took, startHead, comparable,
                 key, flipped, hurt, cut, events>>

Verdict(f) ==
  IF f = None THEN "unevidenced" ELSE IF f \in Passes THEN "evidenced" ELSE "violated"

Survives(r) == got[r] = found[r] /\ age[r] - took < ScanAt

Record ==
  /\ stage = "record"
  /\ LET r == Recipes[pos] IN
     IF got[r] = None THEN UNCHANGED <<ledger, warned, flipped, hurt>>
     ELSE /\ IF Survives(r) THEN UNCHANGED <<ledger, warned>>
             ELSE /\ found' = [found EXCEPT ![r] = got[r]]
                  /\ age' = [age EXCEPT ![r] = took]
                  /\ atHead' = [atHead EXCEPT ![r] = startHead]
                  /\ warned' = [warned EXCEPT ![r] = {}]
          /\ flipped' = (flipped \/ (atHead[r] /\ startHead /\ Verdict(got[r]) # Verdict(found[r])))
          /\ hurt' = hurt \ (works \cap {r})
  /\ Advance("record", "compare")
  /\ UNCHANGED <<repository, cache, phase, idle, scans, base, baseHead, took, startHead,
                 comparable, key, got, cut, events>>

\* diffScanResults at one commit: an alert, or silence.
DivergesOnRecovery == comparable /\ \E r \in Recipe : got[r] \in Passes /\ base[r] \notin Passes
Diverges == comparable /\ \E r \in Recipe : Verdict(got[r]) # Verdict(base[r])

Complete ==
  /\ stage = "compare"
  /\ phase' = "wait" /\ idle' = 0
  /\ base' = got /\ baseHead' = startHead
  /\ cut' = FALSE
  /\ EndScan
  /\ UNCHANGED <<repository, ledger, cache, scans, warned, hurt, events>>

\* A step of the scan throws: what was recorded stays, the next tick retries.
ScanFails ==
  /\ phase = "scan" /\ Event
  /\ phase' = "wait" /\ idle' = 0
  /\ hurt' = Recipe /\ cut' = TRUE
  /\ EndScan
  /\ UNCHANGED <<repository, ledger, cache, memory>>

Next ==
  \/ Commit \/ Pass \/ Start \/ Down \/ Tick \/ TickFails
  \/ Key \/ Collect \/ Record \/ Complete \/ ScanFails
  \/ \E r \in Recipe : Drift(r) \/ Outage(r) \/ Repair(r)

Spec == Init /\ [][Next]_vars

\* Time passes, the timer fires and awaited steps come back; nobody is obliged
\* to commit, to start or to stop the daemon, or to repair a tool.
Fairness ==
  /\ WF_vars(Pass) /\ WF_vars(Tick)
  /\ WF_vars(Key \/ Collect \/ Record \/ Complete)

FairSpec == Spec /\ Fairness

-----------------------------------------------------------------------------
(* Properties *)

\* Evidence never outlives its window under a daemon that stays up and whose
\* collector works: a recipe's bundle expires only if, since it was last
\* recorded, its collector was out, a scan or a tick failed or the daemon was
\* down.  Each scan settles what it was due for: the evidence it leaves is what its
\* collectors found and young enough that the same instant asks for no scan.
FreshWhileWell ==
  /\ \A r \in Rows : age[r] >= Window => r \in hurt
  /\ stage = "compare" =>
       \A r \in Recipe : got[r] # None => found[r] = got[r] /\ age[r] - took < ScanAt

\* "never after the window closed silently" (cadence.ts): evidence a scan
\* replaces was warned of if it was nearing expiry when the scan was decided
\* on, and once more if it had expired by then, whatever the daemon slept
\* through before.
Replaced(r) == found[r] # None /\ (found'[r] # found[r] \/ age'[r] < age[r])
WarnedBeforeReplaced ==
  [][\A r \in Recipe : Replaced(r) =>
       /\ age[r] >= WarnAt + MaxScan => warned[r] # {}
       /\ age[r] >= Window + MaxScan => "expired" \in warned[r]]_vars

\* "silence is only earned by equality" (diff.ts): when a full scan turns a
\* verdict that was recorded at this very commit, the daemon alerts, unless
\* no scan completed since one failed or the process was replaced.
SilenceIsEarned ==
  stage = "compare" /\ Mode = "full" => Diverges \/ ~flipped \/ cut

\* With the daemon up and its collectors working for good, the evidence comes
\* to be what the collectors would find now, although the cache cannot see
\* the world and an entry may have been written under another commit's key; and
\* then the clock rests, again and again, instead of scanning on every tick.
Well == phase # "down" /\ works = Recipe
ClockSettles ==
  <>[]Well => /\ <>[](\A r \in Recipe : found[r] = <<content[r], outside[r]>>)
              /\ []<>(Due /\ ~ScanDue)
=============================================================================
