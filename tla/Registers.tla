------------------------------ MODULE Registers ------------------------------
(***************************************************************************)
(* What is printed and published from the method register: the KSI         *)
(* register (packages/cli/src/ksi-register.ts), the gap register (gaps.ts) *)
(* and the Security Decision Record with the check of its own rules        *)
(* (sdr-build.ts, sdr-rules.ts).  Each recomputes part of what the fold    *)
(* already judged, the first two also where no scan is recorded.           *)
(***************************************************************************)
EXTENDS Methods

CONSTANT Optional      \* the KSIs the class does not oblige

ASSUME OptionalAssumption == Optional \subseteq KSIs

Obliged == KSIs \ Optional

\* The repository has rows once anything but a run is recorded about it.
Rows(S, now) ==
  [k \in IF \E i \in S : log[i].kind # "run" THEN KSIs ELSE {} |-> MethodRow(S, k, now)]

Scanned(rows) == DOMAIN rows # {}

Derived(k) == {r \in Catalog : k \in KsisOf[r]}

-----------------------------------------------------------------------------
(* The KSI register. *)

Total(rows, k) == IF Scanned(rows) THEN Cardinality(rows[k].methods) ELSE Cardinality(Derived(k))
Counted(rows, k) ==
  IF Scanned(rows) THEN Cardinality(Automated(rows[k].methods)) ELSE Cardinality(Derived(k))
StaleCount(rows, k) ==
  IF Scanned(rows) THEN Cardinality(rows[k].stale)
  ELSE IF Windows["machine"] = NoWindow THEN 0 ELSE Cardinality(Derived(k))
History(rows, k) ==
  IF Scanned(rows) THEN rows[k].historyMet ELSE IF HistoryMonths = 0 THEN "null" ELSE "unmet"

WorstGap(rows, k) ==
  IF Total(rows, k) = 0 THEN "G1"
  ELSE IF Counted(rows, k) < MethodFloor THEN "G2"
  ELSE IF StaleCount(rows, k) > 0 THEN "G3"
  ELSE IF History(rows, k) = "unmet" THEN "G4"
  ELSE IF Scanned(rows) /\ Cardinality(rows[k].present) < 5 THEN "G5"
  ELSE IF Scanned(rows) /\ Gap(rows[k]) = "G6" THEN "G6" ELSE "none"

\* The meters count the obliged rows.
Meters(rows) ==
  [noMethod |-> Cardinality({k \in Obliged : Total(rows, k) = 0}),
   floorMet |-> Cardinality({k \in Obliged : Counted(rows, k) >= MethodFloor}),
   fresh |-> Cardinality({k \in Obliged : Total(rows, k) > 0 /\ StaleCount(rows, k) = 0}),
   historyMet |-> Cardinality({k \in Obliged : History(rows, k) = "met"}),
   allArtifacts |-> Cardinality({k \in Obliged : Scanned(rows) /\ rows[k].present = Slots}),
   pointInTime |-> Cardinality({k \in Obliged :
                     Scanned(rows) /\ OfClass(rows[k].methods, "point-in-time") # {}})]

-----------------------------------------------------------------------------
(* The gap register: its sections, each row under its KSI. *)

Row(k, subject) == [ksi |-> k, subject |-> subject, gap |-> TRUE]

\* A row that tells of something short of a gap.
Note(k, subject, gap) == [Row(k, subject) EXCEPT !.gap = gap]

CoverageOfPipeline(rows) == {Row(k, k) : k \in {x \in KSIs : Derived(x) = {}}}
Coverage(rows) == {Row(k, k) : k \in {x \in KSIs : Total(rows, x) = 0}}

MethodCount(rows) ==
  {Row(k, k) : k \in {x \in KSIs : Total(rows, x) > 0 /\ Counted(rows, x) < MethodFloor}}

Freshness(rows) ==
  UNION {IF Scanned(rows) THEN {Row(k, m.ref) : m \in rows[k].stale}
         ELSE IF Windows["machine"] = NoWindow THEN {} ELSE {Row(k, r) : r \in Derived(k)} : k \in KSIs}

HistoryShort(rows) ==
  IF HistoryMonths = 0 THEN {}
  ELSE {Note(k, k, rows[k].historyMet = "unmet") : k \in {x \in DOMAIN rows : rows[x].historyMet # "met"}}

\* A KSI without a method is a matter of coverage: its artifacts are not listed.
ArtifactsShort(rows) ==
  UNION {{Row(k, n) : n \in Slots \ rows[k].present} : k \in {x \in DOMAIN rows : rows[x].methods # {}}}

\* Whether such evidence stands alone is told beside it.
PointInTime(rows) ==
  UNION {{Note(k, m.ref, OfClass(rows[k].methods, "process-generated") = {}) :
            m \in OfClass(rows[k].methods, "point-in-time")} : k \in DOMAIN rows}

Failures(S) == UNION {{Row(k, i) : i \in OpenEpisodes(S, k)} : k \in KSIs}

Sections(S, rows) ==
  [G1 |-> Coverage(rows), G2 |-> MethodCount(rows), G3 |-> Freshness(rows), G4 |-> HistoryShort(rows),
   G5 |-> ArtifactsShort(rows), G6 |-> PointInTime(rows), G13 |-> Failures(S)]

-----------------------------------------------------------------------------
(* The Security Decision Record. *)

InScopeMethods(row) == {m \in row.methods : m.state # "notApplicable"}
WithEvidence(row) == Held(InScopeMethods(row))
Passing(row) == {m \in WithEvidence(row) : m.state = "evidenced"}

ShortOfCounts(row) ==
  \/ MethodFloor > 0 /\ Cardinality(Automated(row.methods)) < MethodFloor
  \/ MethodFloor = 0 /\ ~\E m \in WithEvidence(row) : m.automated
  \/ WithEvidence(row) # InScopeMethods(row)
  \/ row.stale # {}
  \/ row.historyMet = "unmet"
  \/ row.present # Slots

\* What keeps a row below Implemented, each condition on its own terms.
Short(row) ==
  \/ MethodFloor > 0 /\ Cardinality(Automated(row.methods)) < MethodFloor
  \/ MethodFloor = 0 /\ ~\E m \in WithEvidence(row) : m.automated
  \/ WithEvidence(row) # InScopeMethods(row)
  \/ row.stale # {}
  \/ \E m \in InScopeMethods(row) : m.state = "violated"
  \/ row.historyMet = "unmet"
  \/ row.present # Slots

KsiStatus(row) ==
  IF Passing(row) = {} THEN "Not Implemented"
  ELSE IF Short(row) THEN "Partially Implemented" ELSE "Implemented"

\* An optional KSI without evidence has no row.
SdrRows(rows) == {k \in KSIs : k \in Optional => k \in DOMAIN rows /\ Held(rows[k].methods) # {}}

\* What a row carries: a statement per body that stands, judged as it may be, and
\* an entry per method that holds something.
SdrRow(S, k, row) ==
  [status |-> KsiStatus(row), tests |-> row.methods,
   implementation |-> {n \in {1, 2} : BodyOf(S, k, n) # 0},
   validation |-> {n \in {3, 4, 5} : BodyOf(S, k, n) # 0},
   evidence |-> Held(row.methods)]

-----------------------------------------------------------------------------
(* Properties *)

Ranks == <<"G1", "G2", "G3", "G4", "G5", "G6">>
Names(section, k) == {r \in section : r.ksi = k}

\* The KSI register, the gap register and the fold, which each compute the gaps
\* apart, agree, with a scan recorded or none: the worst gap of a KSI is the
\* fold's, its section names the KSI, and so does none before it.  Only a
\* history that could not be judged is listed and is no gap, and point-in-time
\* evidence that is corroborated.
ViewsAgree ==
  \A S \in {All, {}}, now \in From(Today) : \A rows \in {Rows(S, now)} :
    \A sections \in {Sections(S, rows)}, k \in KSIs :
      LET worst == WorstGap(rows, k)
          owes(g) == \E r \in Names(sections[g], k) : r.gap
          rank == {n \in DOMAIN Ranks : Ranks[n] = worst}
      IN /\ Scanned(rows) => worst = Gap(rows[k])
         /\ worst = "none" => \A n \in DOMAIN Ranks : ~owes(Ranks[n])
         /\ \A n \in rank : /\ \A e \in 1..(n - 1) : ~owes(Ranks[e])
                            /\ owes(worst) \/ (~Scanned(rows) /\ worst \in {"G4", "G5"})

KsisIn(section) == {r.ksi : r \in section} \cap Obliged

\* The meters over the KSI register are the gap register's rows counted the other
\* way: what the one counts as met, the other does not list.  Where no scan is
\* recorded there is no history to list, and none is met.
MetersRecount ==
  \A S \in {All, {}}, now \in From(Today) : \A rows \in {Rows(S, now)} :
    \A meters \in {Meters(rows)}, sections \in {Sections(S, rows)} :
    LET owed == Cardinality(Obliged)
        unmet(X) == Cardinality(X)
    IN /\ meters.noMethod = unmet(KsisIn(sections.G1))
       /\ MethodFloor > 0 => meters.floorMet = owed - unmet(KsisIn(sections.G1) \cup KsisIn(sections.G2))
       /\ meters.fresh = owed - unmet(KsisIn(sections.G1) \cup KsisIn(sections.G3))
       /\ HistoryMonths > 0 =>
            meters.historyMet = IF Scanned(rows) THEN owed - unmet(KsisIn(sections.G4)) ELSE 0
       /\ meters.pointInTime = unmet(KsisIn(sections.G6))

\* One ledger, one set of gaps, whoever prints it, and each KSI's from its own
\* statements alone.
RegistersAgree == ViewsAgree /\ MetersRecount /\ KsisAreIndependent

\* The status that is published may understate and never overstates: a KSI called
\* Implemented has an automated method with evidence, has nothing failed, lapsed or
\* missing, every statement and evidence for every method in scope, and each of
\* these passed, save a client's result that came without a verdict.  Excepted from
\* the first are automated methods that were all scoped out: they count for the
\* floor, and a person's word is then all there is.
NeverOverstates ==
  \A now \in From(Today) : \A rows \in {Rows(All, now)} : \A k \in DOMAIN rows :
    \A row \in {SdrRow(All, k, rows[k])} :
    row.status = "Implemented" =>
      /\ k \in SdrRows(rows) /\ WorstGap(rows, k) \in {"none", "G6"}
      /\ row.implementation \cup row.validation = Slots
      /\ \/ \E m \in row.evidence : m.automated
         \/ MethodFloor > 0 /\ \A m \in Automated(row.tests) : m.state = "notApplicable"
      /\ \A m \in row.tests :
           m.state = "notApplicable" \/
           (m \in row.evidence /\ (m.state = "evidenced" \/ (m.source = "aws-ingested" /\ m.state = "unevidenced")))
      /\ \A i \in OpenEpisodes(All, k) :
           \A m \in row.tests : (m.source # "attestation" /\ m.ref = log[i].recipe) =>
             m.state \in {"notApplicable", "unevidenced"}

\* What is published is earned: nothing is overstated and no failure forgotten.
PublishedIsEarned == NeverOverstates /\ ViolationIsOwed
=============================================================================
