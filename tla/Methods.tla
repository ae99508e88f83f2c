------------------------------- MODULE Methods -------------------------------
(***************************************************************************)
(* The method register of packages/projector/src/fold.ts: per key security *)
(* indicator (KSI) the validation methods that bear on it, be they recipes *)
(* of the catalog, results ingested from a client or attestations, each    *)
(* judged against its clock; how far back its history of validation        *)
(* reaches without a lapse; the five artifacts it owes; and the gap that   *)
(* takes precedence.  With it, the rollups of the register's rows.  All of *)
(* it is a fold of the ledger as of a day; the machine appends the         *)
(* statements it reads, in any order a day at a time, after a ledger of    *)
(* `Pasts`.  One repository.                                               *)
(***************************************************************************)
EXTENDS Chains, Calendar

CONSTANTS
  KSIs,
  KsisOf,        \* per recipe of the catalog: the KSIs it claims
  IdOrder,       \* every recipe, the client's too, in the order of the method ids
  Windows,       \* what each clock owes, the machine's and the other
  MethodFloor,   \* automated methods owed per KSI; 0 is none
  HistoryMonths, \* months of history owed; 0 is none
  Scans, Reports,        \* what a scan may find, and what a client may submit
  Claims, Authored, Bodies,      \* mechanisms attested, slots revised, artifact bytes
  Pasts, Days, MaxStatements     \* bounds

Catalog == DOMAIN KsisOf
Upstream == Recipe \ Catalog
Slots == 1..5
Judged == {1, 3, 4}

\* A client's result anchors no file of the repository.
ASSUME MethodsAssumption ==
  /\ Catalog \subseteq Recipe /\ \A u \in Upstream : Anchors[u] = <<>>
  /\ IsFiniteSet(KSIs) /\ IsFiniteSet(Recipe) /\ IsFiniteSet(Claims)
  /\ IdOrder \in Seq(Recipe) /\ \A r \in Recipe : \E n \in DOMAIN IdOrder : IdOrder[n] = r
  /\ Windows \in [{"machine", "non-machine"} -> {NoWindow} \cup [unit : {"days", "months"}, num : Nat]]
  /\ {MethodFloor, HistoryMonths, MaxStatements} \subseteq Nat
  /\ Days \subseteq 1..LastDay

\* What a statement of each kind says: only a client's may come without a verdict.
Shaped(s) ==
  /\ s.at \in Days
  /\ s.kind = "evidence" =>
       \/ s.recipe \in Catalog /\ s.verdict \in {"evidenced", "violated"}
       \/ s.recipe \in Upstream /\ s.verdict \in {"evidenced", "violated", "unevidenced"}
  /\ s.kind = "scoping" => s.recipe \in Catalog
  /\ s.kind = "judgment" => s.sufficient \in BOOLEAN

\* A ledger, appended to a day at a time.
IsHistory(l) ==
  /\ l \in Seq({l[i] : i \in DOMAIN l})
  /\ \A i \in DOMAIN l : Shaped(l[i]) /\ \A j \in 1..i : l[j].at <= l[i].at

ASSUME InputsAreShaped ==
  /\ \A s \in Scans : s.recipe \in Catalog /\ s.verdict \in {"evidenced", "violated"}
  /\ \A r \in Reports : r.recipe \in Upstream /\ r.verdict \in {"evidenced", "violated", "unevidenced"}
  /\ \A past \in Pasts : IsHistory(past)

-----------------------------------------------------------------------------
(* The methods of a KSI, and the state of each. *)

Attested(S, c, k) ==
  {i \in S : log[i].kind = "attestation" /\ log[i].claim = c /\ log[i].ksi = k}


\* Submissions of one of the client's recipes for one KSI.
Submitted(S, u, k) == {i \in Chain(S, u) : log[i].ksi = k}

\* The instant of what holds a method up; 0 when nothing does.
AsOf(i) == IF i = 0 THEN 0 ELSE log[i].at

PipelineMethod(r, row) ==
  [source |-> "pipeline", ref |-> r, automated |-> TRUE, clock |-> "machine", state |-> row.state,
   bundle |-> row.bundle, class |-> IF row.bundle = 0 THEN "none" ELSE log[row.bundle].class]

IngestedMethod(S, u, k) ==
  LET i == LastOf(Submitted(S, u, k)) IN
  [source |-> "aws-ingested", ref |-> u, automated |-> log[i].automated,
   clock |-> IF log[i].automated THEN "machine" ELSE "non-machine", state |-> log[i].verdict,
   bundle |-> i, class |-> log[i].class]

AttestationMethod(S, c, k) ==
  [source |-> "attestation", ref |-> c, automated |-> FALSE, clock |-> "non-machine",
   state |-> "evidenced", bundle |-> LastOf(Attested(S, c, k)), class |-> "none"]

MethodsOf(S, k) ==
  {PipelineMethod(r, Register(S, r)) : r \in {q \in Catalog : k \in KsisOf[q]}}
  \cup {IngestedMethod(S, u, k) : u \in {v \in Upstream : Submitted(S, v, k) # {}}}
  \cup {AttestationMethod(S, c, k) :
          c \in {d \in Claims : Attested(S, d, k) # {} /\ log[LastOf(Attested(S, d, k))].attests}}

\* The instant from which on evidence is fresh by a clock.
Threshold(clock, now) == WindowThreshold(now, Windows[clock])

\* A method's own clock: whether what holds it up is inside the owed window.
FreshMet(m, now) ==
  IF Windows[m.clock] = NoWindow \/ m.state = "notApplicable" THEN "null"
  ELSE IF m.bundle # 0 /\ AsOf(m.bundle) >= Threshold(m.clock, now)
  THEN "met" ELSE "unmet"

Stale(methods, now) == {m \in methods : FreshMet(m, now) = "unmet"}
Automated(methods) == {m \in methods : m.automated}
OfClass(methods, class) == {m \in methods : m.class = class}
Held(methods) == {m \in methods : m.bundle # 0}

-----------------------------------------------------------------------------
(* The history of a KSI: every instant at which one of its recipes' chains *)
(* gained a bundle, dead or alive, with how long the status then held.     *)

Instants(S, methods) ==
  UNION {{[t |-> log[i].at, rank |-> n, bundle |-> i, window |-> Windows[m.clock]] :
            i \in Chain(S, m.ref), n \in {x \in DOMAIN IdOrder : IdOrder[x] = m.ref}} :
         m \in {x \in methods : x.source # "attestation"}}

Precedes(x, y) ==
  \/ x.t < y.t
  \/ x.t = y.t /\ x.rank < y.rank
  \/ x.t = y.t /\ x.rank = y.rank /\ x.bundle < y.bundle

\* The owed span opens at the last instant at or before the threshold: that
\* instant and all that follow, none when the history does not reach back.
Span(all, now) ==
  LET reach == {x \in all : x.t <= MonthsBefore(now, HistoryMonths)}
  IN {x \in all : \E o \in reach : \A y \in reach : (o = y \/ Precedes(y, o)) /\ (x = o \/ Precedes(o, x))}

UnrenewedBetween(all, x, now) ==
  LET after == {y.t : y \in {z \in all : Precedes(x, z)}} IN IF after = {} THEN x.t ELSE Min(after)

\* How long a status stood unrenewed: until the next instant, or to this day.
Unrenewed(all, x, now) ==
  LET after == {y.t : y \in {z \in all : Precedes(x, z)}} IN IF after = {} THEN now ELSE Min(after)

\* The days on which the status, once known, was lost.
Lapses(all, now) ==
  {WindowExpiry(x.t, x.window) : x \in {y \in Span(all, now) :
     y.window # NoWindow /\ Unrenewed(all, y, now) > WindowExpiry(y.t, y.window)}}

HistoryMet(all, now) ==
  IF HistoryMonths = 0 THEN "null"
  ELSE IF Span(all, now) = {} \/ Lapses(all, now) # {} THEN "unmet"
  ELSE IF \E x \in Span(all, now) : x.window = NoWindow THEN "null" ELSE "met"

-----------------------------------------------------------------------------
(* The five artifacts of a KSI. *)

About(S, kind, k, n) == {i \in S : log[i].kind = kind /\ log[i].ksi = k /\ log[i].slot = n}

\* The latest observation of a slot could not resolve it, after its body was signed.
LostSince(S, k, n, at) ==
  LET seen == About(S, "declaration", k, n)
  IN seen # {} /\ ~log[LastOf(seen)].resolved /\ log[LastOf(seen)].at > at

Absent(S, k, n) ==
  LET bodies == About(S, "artifact", k, n)
  IN LostSince(S, k, n, IF bodies = {} THEN 0 ELSE log[LastOf(bodies)].at)

\* bodyOf: the position of the standing body, 0 when there is none.
BodyOf(S, k, n) ==
  LET bodies == About(S, "artifact", k, n)
  IN IF bodies = {} \/ Absent(S, k, n) THEN 0 ELSE LastOf(bodies)

\* A judgment reaches the body that stands only when it named its bytes.
Reaches(S, k, n) ==
  LET calls == About(S, "judgment", k, n)
  IN calls # {} /\ BodyOf(S, k, n) # 0 /\ log[LastOf(calls)].body = log[BodyOf(S, k, n)].body

Present(S, k, n) ==
  /\ BodyOf(S, k, n) # 0
  /\ ~(n \in Judged /\ Reaches(S, k, n) /\ ~log[LastOf(About(S, "judgment", k, n))].sufficient)

ArtifactsPresent(S, k) == {n \in Slots : Present(S, k, n)}

\* What could be generated: 5 from live evidence, 2 from a recipe's cadence.
Derivable(S, k, n, methods) ==
  /\ n \notin Judged /\ BodyOf(S, k, n) = 0
  /\ \E m \in Held(methods) : n = 2 => m.source # "attestation"

-----------------------------------------------------------------------------
(* The row of a KSI, and the rollup of the register's rows. *)

RowOf(S, k, methods, now) ==
  [methods |-> methods, stale |-> Stale(methods, now),
   historyMet |-> HistoryMet(Instants(S, methods), now), present |-> ArtifactsPresent(S, k)]

\* The row of the method register, and the gap that takes precedence in it.
MethodRow(S, k, now) == RowOf(S, k, MethodsOf(S, k), now)

Gap(row) ==
  IF row.methods = {} THEN "G1"
  ELSE IF Cardinality(Automated(row.methods)) < MethodFloor THEN "G2"
  ELSE IF row.stale # {} THEN "G3"
  ELSE IF row.historyMet = "unmet" THEN "G4"
  ELSE IF Cardinality(row.present) < 5 THEN "G5"
  ELSE IF OfClass(row.methods, "point-in-time") # {} /\ OfClass(row.methods, "process-generated") = {} THEN "G6"
  ELSE "none"

\* The KSIs of a register row: the catalog's, or those of the bundle that lives.
RowKsis(r, row) ==
  IF r \in Catalog THEN KsisOf[r] ELSE IF row.bundle # 0 THEN {log[row.bundle].ksi} ELSE {}

\* A violated row beats an unevidenced one, that beats an evidenced one.
Worst(states) ==
  IF "violated" \in states THEN "violated"
  ELSE IF "unevidenced" \in states THEN "unevidenced"
  ELSE IF "evidenced" \in states THEN "evidenced" ELSE "notApplicable"

\* The rollup of a KSI over its rows.
Rollup(S, k) ==
  LET rows == {[recipe |-> r, row |-> Register(S, r)] : r \in Recipe}
      states == {x.row.state : x \in {y \in rows : k \in RowKsis(y.recipe, y.row)}}
  IN Worst(states)

\* An episode names the KSIs of the bundle that opened it.
OpenEpisodes(S, k) ==
  {i \in Evidence(S) :
     Opens(S, i) /\ Resolves(S, i) = {}
     /\ IF log[i].recipe \in Catalog THEN k \in KsisOf[log[i].recipe] ELSE log[i].ksi = k}

-----------------------------------------------------------------------------
(* The ledgers. *)

Init == log \in Pasts

Today == IF log = <<>> THEN 1 ELSE log[Len(log)].at

Says(statement) == Len(log) < MaxStatements /\ log' = Append(log, statement)

Runs(S) == {i \in S : log[i].kind = "run"}

\* A scan's bundle names all of its recipe's KSIs, and the scan.
Validate(scan, at) ==
  Says([kind |-> "evidence", recipe |-> scan.recipe, verdict |-> scan.verdict, seen |-> scan.seen,
        class |-> scan.class, at |-> at, commit |-> at, run |-> Cardinality(Runs(DOMAIN log)) + 1])

\* The scan ends with its record.
Finish(at) == Says([kind |-> "run", run |-> Cardinality(Runs(DOMAIN log)) + 1, at |-> at])

\* A client's result is about one.
Ingest(report, at) ==
  Says([kind |-> "evidence", recipe |-> report.recipe, ksi |-> report.ksi, verdict |-> report.verdict,
        automated |-> report.automated, class |-> report.class, at |-> at, seen |-> <<>>, commit |-> 0, run |-> 0])

ScopeOut(r, at) ==
  Says([kind |-> "scoping", recipe |-> r, verdict |-> "none", at |-> at, commit |-> 0, seen |-> <<>>])

Attest(c, k, attests, at) ==
  Says([kind |-> "attestation", claim |-> c, ksi |-> k, attests |-> attests, at |-> at])

\* An authored body is as old as its file.
Author(k, n, body, since, at) ==
  Says([kind |-> "artifact", ksi |-> k, slot |-> n, body |-> body, since |-> since, at |-> at])

Observe(k, n, resolved, at) ==
  Says([kind |-> "declaration", ksi |-> k, slot |-> n, resolved |-> resolved, at |-> at])

Judge(k, n, sufficient, at) ==
  LET bodies == About(DOMAIN log, "artifact", k, n) IN
  /\ bodies # {}
  /\ Says([kind |-> "judgment", ksi |-> k, slot |-> n, sufficient |-> sufficient, at |-> at,
           body |-> log[Max(bodies)].body])

Next ==
  \E at \in {d \in Days : d >= Today} :
    \/ \E scan \in Scans : Validate(scan, at)
    \/ \E report \in Reports : Ingest(report, at)
    \/ Finish(at)
    \/ \E r \in Catalog : ScopeOut(r, at)
    \/ \E c \in Claims, k \in KSIs, attests \in BOOLEAN : Attest(c, k, attests, at)
    \/ \E s \in Authored, b \in Bodies, since \in {Min(Days), at} : Author(s.ksi, s.slot, b, since, at)
    \/ \E s \in Authored, resolved \in BOOLEAN : Observe(s.ksi, s.slot, resolved, at)
    \/ \E s \in Authored, sufficient \in BOOLEAN : s.slot \in Judged /\ Judge(s.ksi, s.slot, sufficient, at)

Spec == Init /\ [][Next]_log

-----------------------------------------------------------------------------
(* Properties *)

All == DOMAIN log
From(at) == {now \in Days : now >= at}      \* the days on which a ledger may be folded

\* Two KSIs were reported under one of the client's recipes: they share a chain.
Shared(k) ==
  \E u \in Upstream : Submitted(All, u, k) # {} /\ Chain(All, u) # Submitted(All, u, k)

\* "Persistently": history that meets the floor means that at every instant of the
\* owed span some validation of this KSI, by a recipe that bears on it, was still
\* inside its own window, which it is unless none outlasts the span's first day or
\* the day some window ends on.  Where all windows are alike the walk misses no
\* such history either.  A result of another KSI under the same recipe is excepted.
HistoryMeansKnown ==
  \A k \in KSIs, now \in From(Today) :
    LET since == MonthsBefore(now, HistoryMonths)
        own == Instants(All, MethodsOf(All, k))
        met == HistoryMet(own, now)
        known(d) == \E x \in own : x.t <= d /\ d < WindowExpiry(x.t, x.window)
        ends == {WindowExpiry(x.t, x.window) : x \in own}
        always == \A d \in {since} \cup ends : d \in since..(now - 1) => known(d)
    IN (since > 0 /\ HistoryMonths > 0 /\ ~Shared(k) /\ \A x \in own : x.window # NoWindow) =>
         /\ met = "met" => always
         /\ (always /\ \A x, y \in own : x.window = y.window) => met = "met"

\* The statements that are about a KSI.
Naming(k) ==
  {i \in All : IF log[i].kind \in {"evidence", "scoping"} /\ log[i].recipe \in Catalog
               THEN TRUE ELSE log[i].kind = "run" \/ log[i].ksi = k}

\* So it is for every KSI that shares no recipe of the client's with another.
KsisAreIndependent ==
  \A k \in KSIs, now \in From(Today) :
    ~(\E u \in Upstream : Submitted(All, u, k) # Chain(All, u)) =>
      /\ MethodRow(All, k, now) = MethodRow(Naming(k), k, now)
      /\ Rollup(All, k) = Rollup(Naming(k), k)
      /\ OpenEpisodes(All, k) = OpenEpisodes(Naming(k), k)

\* A failed validation is owed: a KSI with a method that stands violated is rolled
\* up as violated and has an episode that is open; and an open episode of a
\* recipe whose newest bundle still lives is a method that stands violated, or
\* one that a client has since left without a verdict.
ViolationIsOwed ==
  \A k \in KSIs : \A methods \in {MethodsOf(All, k)} :
    ~Shared(k) =>
      /\ (\E m \in methods : m.state = "violated") =>
           Rollup(All, k) = "violated" /\ OpenEpisodes(All, k) # {}
      /\ \A i \in OpenEpisodes(All, k) :
           Live(All, log[i].recipe) # {} =>
             \E m \in methods : m.ref = log[i].recipe /\ m.state \in {"violated", "unevidenced"}

\* A judgment speaks of bytes: while the same bytes stand, and nothing else was
\* judged since, the slot is present if and only if they were not last called
\* insufficient; a body replaced or lost takes its judgment with it.
JudgmentFollowsBytes ==
  \A k \in KSIs, n \in Judged :
    LET standing == BodyOf(All, k, n)
        calls == About(All, "judgment", k, n)
        about == {i \in calls : log[i].body = log[standing].body}
    IN /\ Present(All, k, n) => standing # 0
       /\ (standing # 0 /\ about = {}) => Present(All, k, n)
       /\ (standing # 0 /\ about # {} /\ about = calls) =>
            (Present(All, k, n) <=> log[LastOf(about)].sufficient)
=============================================================================
