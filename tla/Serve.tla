-------------------------------- MODULE Serve --------------------------------
(***************************************************************************)
(* `rampscan serve` keeps the console's database a projection of the       *)
(* ledger (packages/cli/src/serve.ts and writeProjectionPocketBase in      *)
(* packages/projector/src/pocketbase.ts).  It projects once at startup,    *)
(* then mirrors the catalog and the daemon's files, and only then watches  *)
(* the ledger's index; a change re-projects after a debounce.  A           *)
(* projection lists the ledger, folds it (which lists it again), empties   *)
(* every collection and fills them one after the other, each an awaited    *)
(* request that may fail.                                                  *)
(*                                                                         *)
(* The ledger is the number of its statements: what a snapshot holds is a  *)
(* function of how much of the ledger it was made from.  The database      *)
(* outlives the server; everything else is the process's memory.           *)
(***************************************************************************)
EXTENDS Integers, Sequences, FiniteSets

CONSTANTS
  Run,          \* invocations of project() that may be in its loop
  MaxAppends,   \* bound: statements appended
  MaxStarts,    \* bound: how often the server is started
  MaxFailures   \* bound: how often a step throws

ASSUME ServeAssumption == {MaxAppends, MaxStarts, MaxFailures} \subseteq Nat

VARIABLES
  listed,       \* how many statements the index lists
  pb,           \* per collection: the snapshots its rows come from
  phase,        \* how far serve() is
  projecting,   \* the flags of project()
  dirty,
  step,         \* per run of the loop: where it is,
  pos,          \*   the collection it empties or fills,
  entries,      \*   what it listed,
  folded,       \*   and what it folded
  watching,     \* the watcher is installed
  notice,       \* the index changed and the watcher has not been called yet
  timer,        \* the debounce timer runs
  lapsed,       \* history: since the last listing an append went unwatched,
                \* or a projection failed
  starts, failures

flags == <<projecting, dirty>>
loop == <<step, pos, entries, folded>>
events == <<watching, notice, timer>>
serveBounds == <<starts, failures>>
serveVars == <<listed, pb, phase, flags, loop, events, lapsed, serveBounds>>

\* PROJECTION_COLLECTIONS: the folded registers and rollups first, the
\* statements behind them later, meta last.
Collections == <<"registers", "bundles", "meta">>
Collection == {Collections[i] : i \in DOMAIN Collections}

ServeInit ==
  /\ listed = 0 /\ pb = [c \in Collection |-> {}] /\ phase = "down"
  /\ projecting = FALSE /\ dirty = FALSE
  /\ step = [r \in Run |-> "off"] /\ pos = [r \in Run |-> 1]
  /\ entries = [r \in Run |-> 0] /\ folded = [r \in Run |-> 0]
  /\ watching = FALSE /\ notice = FALSE /\ timer = FALSE
  /\ lapsed = FALSE /\ starts = 0 /\ failures = 0

-----------------------------------------------------------------------------
(* The ledger, written by other processes and by the console's routes. *)

\* The startup projection has read the ledger and nothing watches it yet.
Unwatched == phase \in {"startup", "mirrors"} /\ \A r \in Run : step[r] # "list"

AppendStatement ==
  /\ listed < MaxAppends
  /\ listed' = listed + 1
  /\ notice' = (notice \/ watching)
  /\ lapsed' = (lapsed \/ Unwatched)
  /\ UNCHANGED <<pb, phase, flags, loop, watching, timer, serveBounds>>

-----------------------------------------------------------------------------
(* project(): one loop at a time, repeated while asked for meanwhile. *)

EnterUnguarded(r) ==
  /\ step[r] = "off"
  /\ projecting' = TRUE
  /\ step' = [step EXCEPT ![r] = "list"]
  /\ dirty' = FALSE

EnterUnlessMarked(r) ==
  /\ ~projecting /\ ~dirty /\ step[r] = "off"
  /\ projecting' = TRUE
  /\ step' = [step EXCEPT ![r] = "list"]
  /\ UNCHANGED dirty

Enter(r) ==
  /\ ~projecting /\ step[r] = "off"
  /\ projecting' = TRUE
  /\ step' = [step EXCEPT ![r] = "list"]
  /\ dirty' = FALSE

\* Called when a loop runs, project() only leaves a mark.
LeaveMark ==
  /\ projecting
  /\ dirty' = TRUE
  /\ UNCHANGED <<projecting, step>>

List(r) ==
  /\ step[r] = "list"
  /\ entries' = [entries EXCEPT ![r] = listed]
  /\ step' = [step EXCEPT ![r] = "fold"]
  /\ lapsed' = FALSE
  /\ UNCHANGED <<listed, pb, phase, flags, pos, folded, events, serveBounds>>

\* The fold lists the ledger anew.
Fold(r) ==
  /\ step[r] = "fold"
  /\ folded' = [folded EXCEPT ![r] = listed]
  /\ step' = [step EXCEPT ![r] = "empty"] /\ pos' = [pos EXCEPT ![r] = 1]
  /\ UNCHANGED <<listed, pb, phase, flags, entries, events, lapsed, serveBounds>>

\* The rows of a collection come from the fold, the bundles from the list.
Rows(r, c) == IF c = "bundles" THEN entries[r] ELSE folded[r]

Advance(r, next) ==
  IF pos[r] < Len(Collections)
  THEN pos' = [pos EXCEPT ![r] = pos[r] + 1] /\ UNCHANGED step
  ELSE pos' = [pos EXCEPT ![r] = 1] /\ step' = [step EXCEPT ![r] = next]

Truncate(r) ==
  /\ step[r] = "empty"
  /\ pb' = [pb EXCEPT ![Collections[pos[r]]] = {}]
  /\ Advance(r, "fill")
  /\ UNCHANGED <<listed, phase, flags, entries, folded, events, lapsed, serveBounds>>

\* Rows are created one by one on top of what is there.
Fill(r) ==
  /\ step[r] = "fill"
  /\ LET c == Collections[pos[r]] IN pb' = [pb EXCEPT ![c] = @ \cup {Rows(r, c)}]
  /\ Advance(r, "loop")
  /\ UNCHANGED <<listed, phase, flags, entries, folded, events, lapsed, serveBounds>>

\* while (dirty), else the finally; serve() goes on after its own projection.
AgainNever(r) == FALSE
Again(r) == dirty

Loop(r) ==
  /\ step[r] = "loop"
  /\ IF Again(r)
     THEN /\ dirty' = FALSE /\ step' = [step EXCEPT ![r] = "list"]
          /\ UNCHANGED <<projecting, phase>>
     ELSE /\ projecting' = FALSE /\ step' = [step EXCEPT ![r] = "off"]
          /\ phase' = IF phase = "startup" THEN "mirrors" ELSE phase
          /\ UNCHANGED dirty
  /\ UNCHANGED <<listed, pb, pos, entries, folded, events, lapsed, serveBounds>>

-----------------------------------------------------------------------------
(* serve(): startup, the watcher and its debounce, shutdown. *)

Start(r) ==
  /\ phase = "down" /\ starts < MaxStarts
  /\ phase' = "startup" /\ starts' = starts + 1
  /\ Enter(r)
  /\ UNCHANGED <<listed, pb, pos, entries, folded, events, lapsed, failures>>

\* The catalog and the daemon's files are mirrored; then the watcher.
Watch ==
  /\ phase = "mirrors"
  /\ phase' = "serving" /\ watching' = TRUE
  /\ UNCHANGED <<listed, pb, flags, loop, notice, timer, lapsed, serveBounds>>

\* Changes are coalesced; each call of the watcher restarts the timer.
Notice ==
  /\ notice
  /\ notice' = FALSE /\ timer' = TRUE
  /\ UNCHANGED <<listed, pb, phase, flags, loop, watching, lapsed, serveBounds>>

Fire(r) ==
  /\ timer /\ timer' = FALSE
  /\ Enter(r) \/ LeaveMark
  /\ UNCHANGED <<listed, pb, phase, pos, entries, folded, watching, notice, lapsed, serveBounds>>

\* The process ends; a projection under way is left where it is.
Exit ==
  /\ phase' = "down"
  /\ projecting' = FALSE /\ dirty' = FALSE
  /\ step' = [r \in Run |-> "off"] /\ pos' = [r \in Run |-> 1]
  /\ entries' = [r \in Run |-> 0] /\ folded' = [r \in Run |-> 0]
  /\ watching' = FALSE /\ notice' = FALSE /\ timer' = FALSE
  /\ UNCHANGED <<listed, pb>>

\* A failed projection is logged and not repeated, a mark left meanwhile
\* included; during startup, and in the mirrors, a failure ends the process.
FailProjection(r) ==
  /\ step[r] # "off" /\ failures < MaxFailures /\ failures' = failures + 1
  /\ lapsed' = TRUE
  /\ IF phase = "startup" THEN Exit
     ELSE /\ projecting' = FALSE /\ step' = [step EXCEPT ![r] = "off"]
          /\ UNCHANGED <<listed, pb, phase, dirty, pos, entries, folded, events>>
  /\ UNCHANGED starts

FailMirrors ==
  /\ phase = "mirrors" /\ failures < MaxFailures /\ failures' = failures + 1
  /\ Exit
  /\ UNCHANGED <<lapsed, starts>>

\* SIGINT, SIGTERM, or PocketBase exited.
Shutdown ==
  /\ phase = "serving"
  /\ Exit
  /\ UNCHANGED <<lapsed, serveBounds>>

ServeNext ==
  \/ AppendStatement \/ Watch \/ Notice \/ FailMirrors \/ Shutdown
  \/ \E r \in Run :
       \/ Start(r) \/ List(r) \/ Fold(r) \/ Truncate(r) \/ Fill(r) \/ Loop(r)
       \/ Fire(r) \/ FailProjection(r)

ServeSpec == ServeInit /\ [][ServeNext]_serveVars

\* Awaited requests come back, the watcher is called, timers fire; nobody is
\* obliged to append, to start or to stop the server, or to fail.
Fairness ==
  /\ \A r \in Run : WF_serveVars(List(r) \/ Fold(r) \/ Truncate(r) \/ Fill(r) \/ Loop(r))
  /\ WF_serveVars(Watch) /\ WF_serveVars(Notice) /\ WF_serveVars(\E r \in Run : Fire(r))

FairServeSpec == ServeSpec /\ Fairness

-----------------------------------------------------------------------------
(* Properties *)

Steps == {"off", "list", "fold", "empty", "fill", "loop"}

\* Every variable keeps its shape.
ServeTypeOK ==
  /\ listed \in Nat
  /\ pb \in [Collection -> SUBSET Nat]
  /\ phase \in {"down", "startup", "mirrors", "serving"}
  /\ projecting \in BOOLEAN /\ dirty \in BOOLEAN /\ watching \in BOOLEAN
  /\ notice \in BOOLEAN /\ timer \in BOOLEAN /\ lapsed \in BOOLEAN
  /\ step \in [Run -> Steps] /\ pos \in [Run -> DOMAIN Collections]
  /\ entries \in [Run -> Nat] /\ folded \in [Run -> Nat]
  /\ starts \in Nat /\ failures \in Nat

\* No collection ever holds the rows of two projections, although filling is
\* not atomic, calls overlap, and a failed or killed one leaves its rows.
NeverMixed == \A c \in Collection : Cardinality(pb[c]) <= 1

\* serve() has nothing left to do.
AtRest == phase = "serving" /\ ~notice /\ ~timer /\ \A r \in Run : step[r] = "off"

Shows(n) == \A c \in Collection : pb[c] = {n}

\* When serve rests, the board is the ledger: every collection was made from
\* all of it, unless an append fell between the startup's listing and the
\* watcher, or the last projection failed.
RestIsCurrent == AtRest => lapsed \/ Shows(listed)

\* project()'s flag is up exactly while one loop runs, and a mark left for
\* that loop outlives it only if the loop failed.
OneLoop ==
  /\ projecting <=> \E r \in Run : step[r] # "off"
  /\ \A r, q \in Run : step[r] # "off" /\ step[q] # "off" => r = q
  /\ dirty => projecting \/ lapsed

\* How far the running loop has brought the database.
Progress ==
  \A r \in Run, i \in DOMAIN Collections :
    LET rows == pb[Collections[i]] IN
    /\ step[r] = "empty" /\ i < pos[r] => rows = {}
    /\ step[r] = "fill" /\ i >= pos[r] => rows = {}
    /\ step[r] = "loop" => rows = {Rows(r, Collections[i])}
    /\ step[r] = "fill" /\ i < pos[r] => rows = {Rows(r, Collections[i])}

\* Something still to happen will project again, or the lapse excuses it.
Owed == notice \/ timer \/ dirty \/ lapsed

\* With nothing owed, what the loop has read, and what is shown when none
\* runs, is the whole ledger.
ReadIsCurrent ==
  phase # "down" /\ ~Owed =>
    /\ \A r \in Run :
         /\ step[r] \in {"fold", "empty", "fill", "loop"} => entries[r] = listed
         /\ step[r] \in {"empty", "fill", "loop"} => folded[r] = listed
    /\ (\A r \in Run : step[r] = "off") => Shows(listed)

\* Why the board is never mixed and, at rest, current: calls overlapping in
\* project()'s flags run one loop, each collection is empty when that loop
\* fills it, and an append the loop has not read leaves a notice, a timer or
\* a mark behind.
ServeInv ==
  /\ ServeTypeOK /\ OneLoop /\ Progress /\ NeverMixed /\ ReadIsCurrent
  /\ phase = "serving" => watching

\* A change the watcher is to hear of is shown, unless the server goes down
\* or a step throws after it; however appends, the debounce and running
\* projections interleave, and whatever failed before.
NoticedIsShown ==
  \A n \in 1..MaxAppends, f \in 0..MaxFailures :
    notice /\ listed = n /\ failures = f ~>
      \/ \E m \in n..MaxAppends : Shows(m)
      \/ phase = "down" \/ failures > f

=============================================================================
