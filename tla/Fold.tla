--------------------------------- MODULE Fold ---------------------------------
(***************************************************************************)
(* The ledgers the fold's chains (module Chains) are applied to: a         *)
(* repository that changes with time, scans that record what they saw at   *)
(* some time, ingested results that anchor nothing, and scoping events,    *)
(* appended in any order; and what the projection promises of them.        *)
(***************************************************************************)
EXTENDS Store, Board

CONSTANTS
  Content,      \* what a path may hold
  MaxTime, MaxStatements      \* bounds

ASSUME FoldAssumption == {MaxTime, MaxStatements} \subseteq Nat

VARIABLE
  world         \* per instant so far: HEAD and the content of each path

vars == <<world, log>>

Path == UNION {{Anchors[r][k] : k \in DOMAIN Anchors[r]} : r \in Recipe}
Clock == Len(world)

\* Only an ingested result is signed with no verdict reached; it anchors no file.
Verdicts(r) ==
  {"evidenced", "violated"} \cup IF Anchors[r] = <<>> THEN {"unevidenced"} ELSE {}

-----------------------------------------------------------------------------
(* The ledgers. *)

Init ==
  /\ world = <<[commit |-> 1, tree |-> [p \in Path |-> CHOOSE c \in Content : TRUE]]>>
  /\ log = <<>>

\* Time passes, with a commit or without.
Pass ==
  /\ Clock < MaxTime
  /\ \/ world' = Append(world, world[Clock])
     \/ \E t \in [Path -> Content] :
          world' = Append(world, [commit |-> world[Clock].commit + 1, tree |-> t])
  /\ UNCHANGED log

PathsOf(r) == {Anchors[r][k] : k \in DOMAIN Anchors[r]}

Seen(r, at) == [p \in PathsOf(r) |-> world[at].tree[p]]

\* A scan that began at an instant appends, then or later, what it saw then;
\* other scans and ingested results may have come first.
Record(r, verdict, at) ==
  /\ Len(log) < MaxStatements
  /\ log' = Append(log, [kind |-> "evidence", recipe |-> r, verdict |-> verdict, at |-> at,
                         commit |-> IF Anchors[r] = <<>> THEN 0 ELSE world[at].commit,
                         seen |-> Seen(r, at)])
  /\ UNCHANGED world

ScopeOut(r) ==
  /\ Len(log) < MaxStatements
  /\ log' = Append(log, [kind |-> "scoping", recipe |-> r, verdict |-> "none", at |-> Clock,
                         commit |-> 0, seen |-> <<>>])
  /\ UNCHANGED world

Next ==
  \/ Pass
  \/ \E r \in Recipe : ScopeOut(r)
  \/ \E r \in Recipe, at \in 1..Clock : \E v \in Verdicts(r) : Record(r, v, at)

Spec == Init /\ [][Next]_vars

-----------------------------------------------------------------------------
(* Properties *)

Whole == DOMAIN log

\* What the path held when it was last looked at by anyone.
LastSeen(p) ==
  world[Max({log[i].at : i \in {j \in Evidence(Whole) : p \in DOMAIN log[j].seen}})].tree[p]

\* A chain's newest bundle is live exactly when the latest look at each of its
\* anchors, whichever recipe's scan took it and in whatever order the
\* statements arrived, found what the bundle found; and a bundle dead of drift
\* names a commit at which an anchor did differ.
DeathIsDeserved ==
  \A i \in Evidence(Whole) :
    LET s == Status(Whole, i)
        Differs(t) == \E p \in DOMAIN log[i].seen : world[t].tree[p] # log[i].seen[p]
    IN /\ Later(Whole, i) = {} =>
            (s.state = "live" <=> \A p \in DOMAIN log[i].seen : LastSeen(p) = log[i].seen[p])
       /\ s.cause = "anchor-drift" => Differs(log[s.by].at)
       /\ s.cause = "superseded" => ~Differs(log[s.by].at)

\* Some anchor of r went back to a content it had left.
Returned(r, t) ==
  \E p \in PathsOf(r), t1 \in 1..t, t2 \in 1..t :
    /\ t1 < t2 /\ world[t1].tree[p] = world[t].tree[p]
    /\ world[t2].tree[p] # world[t].tree[p]

Shown(t, r) ==
  LET row == Register(InScope(t), r) IN <<row.state, row.bundle>>

\* The drift view tells every movement of the register: when the board and the
\* one as of an instant ago differ in a cell, the feed has an event of that
\* recipe at the present.  (An earlier pair of boards is that of an earlier state.)  The one exception is evidence that comes back to life
\* because its file was changed back: the fold keeps no trace of that death.
EventsTellMovements ==
  \A r \in Recipe :
    Shown(Clock - 1, r) # Shown(Clock, r) =>
      \/ \E e \in Drift(Whole) : e.recipe = r /\ e.at = Clock
      \/ Returned(r, Clock)

\* The newest bundle of r in a set of statements, dead there.
DeadTail(S, r, verdict) ==
  \E i \in Chain(S, r) :
    Later(S, i) = {} /\ log[i].verdict = verdict /\ Status(S, i).state = "dead"

\* A board compared with an earlier one says why a cell changed: what is newly
\* violated began after the baseline, or had died violated by then; what is
\* evidenced has new evidence, or had it dead at the baseline; a lapse is a
\* death since, or an ingested result of no verdict; no cell ever disappears,
\* and no scanned recipe loses its scoping.
ChangesAreExplained ==
  \A b \in Baselines(Clock) : \A c \in DiffRegisters(b, Clock) :
    LET r == c.recipe
        Since(S) == {i \in S : log[i].at > b}
        New(verdict) == \E i \in Since(Chain(Whole, r)) : log[i].verdict = verdict
        DiedSince == \E e \in Drift(Whole) :
                       e.recipe = r /\ e.at > b /\ e.kind \in {"died", "verdict-flipped"}
    IN CASE c.kind = "newly-violated" -> c.introducedAt > b \/ DeadTail(InScope(b), r, "violated")
         [] c.kind \in {"resolved", "newly-evidenced"} ->
              New("evidenced") \/ DeadTail(InScope(b), r, "evidenced")
         [] c.kind = "evidence-lapsed" -> DiedSince
         [] c.kind = "scoped" -> Since(Scopings(Whole, r)) # {} \/ DiedSince
         [] c.kind = "appeared" -> Since(Whole) # {}
         [] c.kind = "unscoped" -> Ingested(r) /\ New("unevidenced")
         [] OTHER -> FALSE

\* What moved on the board can be read off the feed and off the comparison.
MovementsAreTold == EventsTellMovements /\ ChangesAreExplained

\* The register and the vulnerability feed, computed apart, agree: a violated
\* row was introduced when its only open episode was detected, and an open
\* episode means the newest bundle is violated, dead or alive.  A chain with an
\* ingested bundle of no verdict is excepted: there a streak and an episode
\* break at different places.
StreakIsOpenEpisode ==
  \A r \in Recipe :
    LET row == Register(Whole, r)
        chain == Chain(Whole, r)
        open == {v \in Vulnerabilities(Whole, r) : v.status = "open"}
    IN (\A i \in chain : log[i].verdict # "unevidenced") =>
         /\ Cardinality(open) <= 1
         /\ row.state = "violated" => \E v \in open : v.detectedAt = row.introducedAt
         /\ (open # {}) <=> (chain # {} /\ log[LastOf(chain)].verdict = "violated")

\* Out of the window at an instant: no bundle so far is young enough.
Stale(r, t) ==
  LET sofar == {i \in Chain(Whole, r) : log[i].at <= t} IN
  sofar # {} /\ \A i \in sofar : t > log[i].at + Window

\* The gaps are exactly the stale times, whichever order the bundles came in;
\* a gap ends the instant it is refreshed, an ongoing one includes the present.
GapsAreStaleTimes ==
  \A r \in Recipe, t \in 1..Clock :
    Stale(r, t) <=> \E g \in Gaps(Whole, r, Clock) :
                      g.start < t /\ (t < g.end \/ (g.ongoing /\ t = g.end))

\* What the board says of failing and of lapsing recounts what the ledger holds.
FailuresAreTimed == StreakIsOpenEpisode /\ GapsAreStaleTimes

\* Whatever the ledger holds, and from whichever migration and release a
\* deployment was brought up to this build, both stores take every row of the
\* projection, and what is read back is the fold's row: nothing is dropped,
\* zeroed or invented on the way.  The commit of a death or a resolution by an
\* ingested result is the exception: the fold writes it empty, the stores read
\* it as absent.
StoresKeepTheFold ==
  LET rows == ProjectionRows(InScope(Clock)) IN
  /\ KeptAlways
  /\ \A table \in DOMAIN rows : \A row \in rows[table] :
       /\ DOMAIN row \subseteq Columns(table)
       /\ \A c \in Columns(table) :
            (IF c \in DOMAIN row THEN row[c] ELSE "absent") \in Faithful[table][c]
=============================================================================
