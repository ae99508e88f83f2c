------------------------------- MODULE Chains -------------------------------
(***************************************************************************)
(* foldEntries in packages/projector/src/fold.ts, as operators on a set of *)
(* ledger positions: the order of the statements, the chains of evidence   *)
(* and their deaths, the drift feed, the register, the violated streak,    *)
(* the vulnerability episodes and the cadence gaps.                        *)
(***************************************************************************)
EXTENDS Integers, Sequences, FiniteSets, FiniteSetsExt

CONSTANTS
  Anchors,      \* per recipe: the paths its bundles anchor, in order
  Window        \* the re-verification window

ASSUME ChainsAssumption ==
  /\ Window \in Nat
  /\ \A r \in DOMAIN Anchors : Anchors[r] \in Seq({Anchors[r][k] : k \in DOMAIN Anchors[r]})

VARIABLE
  log           \* the statements, in the order they were appended

Recipe == DOMAIN Anchors

-----------------------------------------------------------------------------
(* The order of the statements, and the chains. *)

\* byTime: the timestamp, then the order of appending.
Before(i, j) == log[i].at < log[j].at \/ (log[i].at = log[j].at /\ i < j)

FirstOf(S) == CHOOSE i \in S : \A j \in S \ {i} : Before(i, j)
LastOf(S) == CHOOSE i \in S : \A j \in S \ {i} : Before(j, i)

\* asOf leaves the statements up to an instant.
InScope(asOf) == {i \in DOMAIN log : log[i].at <= asOf}

Evidence(S) == {i \in S : log[i].kind = "evidence"}
Scopings(S, r) == {i \in S : log[i].kind = "scoping" /\ log[i].recipe = r}
Chain(S, r) == {i \in Evidence(S) : log[i].recipe = r}
Later(S, i) == {j \in Chain(S, log[i].recipe) : Before(i, j)}
Earlier(S, i) == {j \in Chain(S, log[i].recipe) : Before(j, i)}

FirstObserver(S, p) == FirstOf({i \in Evidence(S) : p \in DOMAIN log[i].seen})

\* pathObservations: who saw this path last.
Observer(S, p) == LastOf({i \in Evidence(S) : p \in DOMAIN log[i].seen})

-----------------------------------------------------------------------------
(* Deaths. *)

\* The anchors, by their place, that somebody later saw changed.
Changed(S, i) ==
  LET paths == Anchors[log[i].recipe] IN
  {k \in DOMAIN paths :
     LET o == Observer(S, paths[k]) IN
     log[o].at > log[i].at /\ log[o].seen[paths[k]] # log[i].seen[paths[k]]}

\* A bundle dies of its successor, the tail of a chain of another's observation.
Status(S, i) ==
  LET later == Later(S, i)
      changed == Changed(S, i)
  IN IF later # {}
     THEN LET q == FirstOf(later) IN
          [state |-> "dead", by |-> q,
           cause |-> IF log[i].seen # log[q].seen THEN "anchor-drift" ELSE "superseded"]
     ELSE IF changed # {}
     THEN [state |-> "dead", cause |-> "anchor-drift",
           by |-> Observer(S, Anchors[log[i].recipe][Min(changed)])]
     ELSE [state |-> "live", cause |-> "none", by |-> i]

-----------------------------------------------------------------------------
(* The drift feed. *)

Event(recipe, at, kind, commit) ==
  [recipe |-> recipe, at |-> at, kind |-> kind, commit |-> commit]

Births(S) ==
  {Event(r, log[FirstOf(Chain(S, r))].at, "born", 0) : r \in {q \in Recipe : Chain(S, q) # {}}}

DeathsInChain(S) ==
  {LET q == FirstOf(Later(S, i)) IN
   Event(log[i].recipe, log[q].at,
         IF log[q].verdict = log[i].verdict THEN "died" ELSE "verdict-flipped",
         log[q].commit) : i \in {j \in Evidence(S) : Later(S, j) # {}}}

Deaths(S) ==
  {LET q == Status(S, i).by IN
   Event(log[i].recipe, log[q].at,
         IF log[q].recipe # log[i].recipe \/ log[q].verdict = log[i].verdict THEN "died"
         ELSE "verdict-flipped",
         log[q].commit) : i \in {j \in Evidence(S) : Status(S, j).state = "dead"}}

Scoped(S) ==
  {Event(log[i].recipe, log[i].at, "scoped", 0) : i \in {j \in S : log[j].kind = "scoping"}}

Drift(S) == Births(S) \cup Deaths(S) \cup Scoped(S)

-----------------------------------------------------------------------------
(* The register. *)

Live(S, r) == {i \in Chain(S, r) : Status(S, i).state = "live"}

\* The bundles of the current violated streak.
Streak(S, r) ==
  {i \in Chain(S, r) : \A j \in {i} \cup Later(S, i) : log[j].verdict = "violated"}

\* Evidence outranks scoping.  The bundle is 0 when none is live.
Register(S, r) ==
  LET live == Live(S, r)
      i == LastOf(live)
  IN [state |-> IF live # {} THEN log[i].verdict
                ELSE IF Scopings(S, r) # {} THEN "notApplicable" ELSE "unevidenced",
      bundle |-> IF live # {} THEN i ELSE 0,
      introducedAt |-> IF live # {} /\ log[i].verdict = "violated"
                       THEN log[FirstOf(Streak(S, r))].at ELSE 0]

-----------------------------------------------------------------------------
(* Vulnerability episodes and cadence gaps. *)

Opens(S, i) ==
  /\ log[i].verdict = "violated"
  /\ Earlier(S, i) # {} => log[LastOf(Earlier(S, i))].verdict # "violated"

Resolves(S, i) == {j \in Later(S, i) : log[j].verdict = "evidenced"}

Vulnerabilities(S, r) ==
  {[detectedAt |-> log[i].at,
    status |-> IF Resolves(S, i) = {} THEN "open" ELSE "resolved"] :
   i \in {j \in Chain(S, r) : Opens(S, j)}}

GapsRefreshed(S, r, projectedAt) ==
  {g \in {[start |-> log[i].at + Window, end |-> log[FirstOf(Later(S, i))].at, ongoing |-> FALSE] :
          i \in {j \in Chain(S, r) : Later(S, j) # {}}} : g.end > g.start}

\* The times, up to `projectedAt`, between a bundle's expiry and its refresh.
Gaps(S, r, projectedAt) ==
  {g \in {[start |-> log[i].at + Window,
           end |-> IF Later(S, i) = {} THEN projectedAt ELSE log[FirstOf(Later(S, i))].at,
           ongoing |-> Later(S, i) = {}] : i \in Chain(S, r)} : g.end > g.start}
=============================================================================
