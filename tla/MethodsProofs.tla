---------------------------- MODULE MethodsProofs ----------------------------
(***************************************************************************)
(* What the method register says of a ledger, and what is printed,         *)
(* published and generated from it, for any catalog, clients, months and   *)
(* windows, and whatever is appended a day at a time.                      *)
(***************************************************************************)
EXTENDS Artifacts, FiniteSetTheorems, WellFoundedInduction, TLAPS

-----------------------------------------------------------------------------
(* The ledger is appended to a day at a time.  So the fold's order of its  *)
(* statements is that of their positions.                                  *)

\* A set of numbers has a least one,
LEMMA LeastOf ==
  ASSUME NEW S, S \subseteq Nat, S # {}
  PROVE  \E m \in S : \A k \in S : m <= k
<1>1. PICK m \in S : \A k \in S : ~ (<<k, m>> \in OpToRel(<, Nat))
  BY NatLessThanWellFounded, WFMin, Zenon
<1>2. \A k \in S : ~ (k < m)
  BY <1>1, Zenon DEF OpToRel
<1> QED BY <1>2

\* and a bounded one a greatest.
LEMMA GreatestOf ==
  ASSUME NEW n \in Nat, NEW S, S \subseteq 0 .. n, S # {}
  PROVE  \E m \in S : \A k \in S : k <= m
<1> DEFINE D == {n - k : k \in S}
<1>1. D \subseteq Nat /\ D # {}
  <2>1. \A k \in S : n - k \in Nat
    OBVIOUS
  <2>2. PICK k \in S : TRUE
    OBVIOUS
  <2> QED BY <2>1, <2>2
<1> HIDE DEF D
<1>2. PICK d \in D : \A k \in D : d <= k
  BY <1>1, LeastOf
<1>3. PICK m \in S : d = n - m
  BY <1>2 DEF D
<1>4. ASSUME NEW k \in S PROVE k <= m
  <2>1. n - k \in D
    BY DEF D
  <2>2. n - m <= n - k
    BY <1>2, <1>3, <2>1
  <2> QED BY <2>2
<1> QED BY <1>4

\* Days count from the first.
LEMMA DaysAreNumbers == Days \subseteq Nat
  BY MethodsAssumption

\* The inductive invariant: a ledger is a history.
HistoryInv == IsHistory(log)

\* What is said today or later, in the shape of its kind, leaves a history.
LEMMA SaysKeeps ==
  ASSUME HistoryInv, NEW s, Shaped(s), s.at >= Today, Says(s)
  PROVE  HistoryInv'
<1>1. log \in Seq({log[i] : i \in DOMAIN log}) /\ Len(log) \in Nat /\ DOMAIN log = 1 .. Len(log)
  BY DEF HistoryInv, IsHistory
<1>2. log' = Append(log, s)
  BY DEF Says
<1>3. /\ Len(log') = Len(log) + 1 /\ DOMAIN log' = 1 .. Len(log) + 1
      /\ log'[Len(log) + 1] = s /\ \A i \in 1 .. Len(log) : log'[i] = log[i]
  BY <1>1, <1>2
<1>4. log' \in Seq({log'[i] : i \in DOMAIN log'})
  <2> DEFINE T == {log'[i] : i \in DOMAIN log'}
  <2>1. s \in T /\ \A i \in 1 .. Len(log) : log[i] \in T
    BY <1>1, <1>3
  <2> HIDE DEF T
  <2>2. log \in Seq(T)
    <3>1. log = [i \in 1 .. Len(log) |-> log[i]]
      BY <1>1
    <3> DEFINE n == Len(log)
    <3>2. n \in Nat /\ log = [i \in 1 .. n |-> log[i]] /\ \A i \in 1 .. n : log[i] \in T
      BY <1>1, <2>1, <3>1
    <3> HIDE DEF n
    <3>3. log \in [1 .. n -> T]
      BY <3>2
    <3> QED BY <3>2, <3>3
  <2>3. log' \in Seq(T)
    BY <1>2, <2>1, <2>2
  <2> QED BY <2>3 DEF T
<1>5. \A i \in 1 .. Len(log) : Shaped(log[i]) /\ log[i].at \in Nat /\ \A j \in 1 .. i : log[j].at <= log[i].at
  BY <1>1, DaysAreNumbers DEF HistoryInv, IsHistory, Shaped
<1>6. \A i \in 1 .. Len(log) : log[i].at <= s.at
  <2> SUFFICES ASSUME NEW i \in 1 .. Len(log) PROVE log[i].at <= s.at
    OBVIOUS
  <2>1. log # <<>> /\ Len(log) \in 1 .. Len(log) /\ i \in 1 .. Len(log)
    BY <1>1
  <2>2. log[i].at <= log[Len(log)].at /\ log[Len(log)].at <= s.at
    BY <1>1, <1>5, <2>1 DEF Today
  <2>3. log[i].at \in Nat /\ log[Len(log)].at \in Nat /\ s.at \in Nat
    BY <1>5, <2>1, DaysAreNumbers DEF Shaped
  <2> QED BY <2>2, <2>3
<1>7. ASSUME NEW i \in DOMAIN log' PROVE Shaped(log'[i]) /\ \A j \in 1 .. i : log'[j].at <= log'[i].at
  <2>1. CASE i = Len(log) + 1
    <3>1. log'[i] = s /\ s.at \in Nat
      BY <2>1, <1>3, DaysAreNumbers DEF Shaped
    <3>2. ASSUME NEW j \in 1 .. i PROVE log'[j].at <= log'[i].at
      <4>1. j \in 1 .. Len(log) \/ j = i
        BY <1>1, <2>1
      <4> QED BY <4>1, <3>1, <1>3, <1>6
    <3> QED BY <3>1, <3>2
  <2>2. CASE i # Len(log) + 1
    <3>1. i \in 1 .. Len(log) /\ \A j \in 1 .. i : j \in 1 .. Len(log)
      BY <2>2, <1>3, <1>1
    <3> QED BY <3>1, <1>3, <1>5
  <2> QED BY <2>1, <2>2
<1> QED BY <1>4, <1>7 DEF HistoryInv, IsHistory

\* So does every step, a body minted included.
LEMMA StepKeeps == HistoryInv /\ [NextArtifact]_log => HistoryInv'
<1> SUFFICES ASSUME HistoryInv, [NextArtifact]_log PROVE HistoryInv'
  OBVIOUS
<1>1. CASE Next
  <2> PICK at \in {d \in Days : d >= Today} :
        \/ \E scan \in Scans : Validate(scan, at)
        \/ \E report \in Reports : Ingest(report, at)
        \/ Finish(at)
        \/ \E r \in Catalog : ScopeOut(r, at)
        \/ \E c \in Claims, k \in KSIs, attests \in BOOLEAN : Attest(c, k, attests, at)
        \/ \E s \in Authored, b \in Bodies, since \in {Min(Days), at} : Author(s.ksi, s.slot, b, since, at)
        \/ \E s \in Authored, resolved \in BOOLEAN : Observe(s.ksi, s.slot, resolved, at)
        \/ \E s \in Authored, sufficient \in BOOLEAN : s.slot \in Judged /\ Judge(s.ksi, s.slot, sufficient, at)
    BY <1>1 DEF Next
  <2>1. ASSUME NEW scan \in Scans, Validate(scan, at) PROVE HistoryInv'
    <3> DEFINE s == [kind |-> "evidence", recipe |-> scan.recipe, verdict |-> scan.verdict, seen |-> scan.seen,
                     class |-> scan.class, at |-> at, commit |-> at, run |-> Cardinality(Runs(DOMAIN log)) + 1]
    <3>1. Says(s) /\ s.at >= Today
      BY <2>1 DEF Validate
    <3>2. Shaped(s)
      BY InputsAreShaped DEF Shaped
    <3> HIDE DEF s
    <3> QED BY <3>1, <3>2, SaysKeeps
  <2>2. ASSUME NEW report \in Reports, Ingest(report, at) PROVE HistoryInv'
    <3> DEFINE s == [kind |-> "evidence", recipe |-> report.recipe, ksi |-> report.ksi, verdict |-> report.verdict,
                     automated |-> report.automated, class |-> report.class, at |-> at, seen |-> <<>>,
                     commit |-> 0, run |-> 0]
    <3>1. Says(s) /\ s.at >= Today
      BY <2>2 DEF Ingest
    <3>2. Shaped(s)
      BY InputsAreShaped DEF Shaped
    <3> HIDE DEF s
    <3> QED BY <3>1, <3>2, SaysKeeps
  <2>3. ASSUME Finish(at) PROVE HistoryInv'
    <3> DEFINE s == [kind |-> "run", run |-> Cardinality(Runs(DOMAIN log)) + 1, at |-> at]
    <3>1. Says(s) /\ s.at >= Today
      BY <2>3 DEF Finish
    <3>2. Shaped(s)
      BY DEF Shaped
    <3> HIDE DEF s
    <3> QED BY <3>1, <3>2, SaysKeeps
  <2>4. ASSUME NEW r \in Catalog, ScopeOut(r, at) PROVE HistoryInv'
    <3> DEFINE s == [kind |-> "scoping", recipe |-> r, verdict |-> "none", at |-> at, commit |-> 0, seen |-> <<>>]
    <3>1. Says(s) /\ s.at >= Today
      BY <2>4 DEF ScopeOut
    <3>2. Shaped(s)
      BY DEF Shaped
    <3> HIDE DEF s
    <3> QED BY <3>1, <3>2, SaysKeeps
  <2>5. ASSUME NEW c \in Claims, NEW k \in KSIs, NEW attests \in BOOLEAN, Attest(c, k, attests, at)
        PROVE  HistoryInv'
    <3> DEFINE s == [kind |-> "attestation", claim |-> c, ksi |-> k, attests |-> attests, at |-> at]
    <3>1. Says(s) /\ s.at >= Today
      BY <2>5 DEF Attest
    <3>2. Shaped(s)
      BY DEF Shaped
    <3> HIDE DEF s
    <3> QED BY <3>1, <3>2, SaysKeeps
  <2>6. ASSUME NEW k, NEW n, NEW b, NEW since, Author(k, n, b, since, at) PROVE HistoryInv'
    <3> DEFINE s == [kind |-> "artifact", ksi |-> k, slot |-> n, body |-> b, since |-> since, at |-> at]
    <3>1. Says(s) /\ s.at >= Today
      BY <2>6 DEF Author
    <3>2. Shaped(s)
      BY DEF Shaped
    <3> HIDE DEF s
    <3> QED BY <3>1, <3>2, SaysKeeps
  <2>7. ASSUME NEW k, NEW n, NEW resolved, Observe(k, n, resolved, at) PROVE HistoryInv'
    <3> DEFINE s == [kind |-> "declaration", ksi |-> k, slot |-> n, resolved |-> resolved, at |-> at]
    <3>1. Says(s) /\ s.at >= Today
      BY <2>7 DEF Observe
    <3>2. Shaped(s)
      BY DEF Shaped
    <3> HIDE DEF s
    <3> QED BY <3>1, <3>2, SaysKeeps
  <2>8. ASSUME NEW k, NEW n, NEW sufficient \in BOOLEAN, Judge(k, n, sufficient, at) PROVE HistoryInv'
    <3> DEFINE s == [kind |-> "judgment", ksi |-> k, slot |-> n, sufficient |-> sufficient, at |-> at,
                     body |-> log[Max(About(DOMAIN log, "artifact", k, n))].body]
    <3>1. Says(s) /\ s.at >= Today
      BY <2>8 DEF Judge
    <3>2. Shaped(s)
      BY DEF Shaped
    <3> HIDE DEF s
    <3> QED BY <3>1, <3>2, SaysKeeps
  <2> QED BY <2>1, <2>2, <2>3, <2>4, <2>5, <2>6, <2>7, <2>8
<1>2. ASSUME NEW at \in {d \in Days : d >= Today}, NEW k \in KSIs, NEW n \in Computed, Mint(k, n, at)
      PROVE  HistoryInv'
  <2> PICK methods \in {MethodsOf(DOMAIN log, k)} :
        Says([kind |-> "artifact", ksi |-> k, slot |-> n, at |-> at, since |-> at,
              body |-> ToString(Content(DOMAIN log, n, methods, at))])
    BY <1>2 DEF Mint
  <2> DEFINE s == [kind |-> "artifact", ksi |-> k, slot |-> n, at |-> at, since |-> at,
                   body |-> ToString(Content(DOMAIN log, n, methods, at))]
  <2>1. Says(s) /\ s.at >= Today
    OBVIOUS
  <2>2. Shaped(s)
    BY DEF Shaped
  <2> HIDE DEF s
  <2> QED BY <2>1, <2>2, SaysKeeps
<1>3. CASE UNCHANGED log
  BY <1>3 DEF HistoryInv, IsHistory
<1> QED BY <1>1, <1>2, <1>3 DEF NextArtifact

\* Statements have the shape of their kind, and instants that never go back.
THEOREM LedgerIsAHistory == ArtifactsSpec => []HistoryInv
<1>1. Init => HistoryInv
  BY InputsAreShaped DEF Init, HistoryInv
<1> QED BY <1>1, StepKeeps, PTL DEF ArtifactsSpec

\* Before is the order of positions,
LEMMA PositionsOrder ==
  ASSUME HistoryInv
  PROVE  /\ Len(log) \in Nat /\ DOMAIN log = 1 .. Len(log)
         /\ \A i \in DOMAIN log : Shaped(log[i]) /\ log[i].at \in Nat
         /\ \A i, j \in DOMAIN log : i <= j => log[i].at <= log[j].at
         /\ \A i, j \in DOMAIN log : Before(i, j) <=> i < j
<1>1. Len(log) \in Nat /\ DOMAIN log = 1 .. Len(log)
  BY DEF HistoryInv, IsHistory
<1>2. \A i \in DOMAIN log : Shaped(log[i]) /\ log[i].at \in Nat
  BY DaysAreNumbers DEF HistoryInv, IsHistory, Shaped
<1>3. ASSUME NEW i \in DOMAIN log, NEW j \in DOMAIN log, i <= j PROVE log[i].at <= log[j].at
  <2>1. i \in 1 .. j
    BY <1>1, <1>3
  <2> QED BY <2>1 DEF HistoryInv, IsHistory
<1>4. ASSUME NEW i \in DOMAIN log, NEW j \in DOMAIN log PROVE Before(i, j) <=> i < j
  <2>1. i \in Nat /\ j \in Nat /\ log[i].at \in Nat /\ log[j].at \in Nat
    BY <1>1, <1>2
  <2>2. (i <= j => log[i].at <= log[j].at) /\ (j <= i => log[j].at <= log[i].at)
    BY <1>3
  <2> QED BY <2>1, <2>2 DEF Before
<1> QED BY <1>1, <1>2, <1>3, <1>4

\* so the last of some statements is the greatest of them,
LEMMA LastIs ==
  ASSUME HistoryInv, NEW S, S \subseteq DOMAIN log, S # {}
  PROVE  LastOf(S) \in S /\ \A j \in S : j <= LastOf(S)
<1>1. Len(log) \in Nat /\ S \subseteq 0 .. Len(log)
  BY PositionsOrder
<1>2. PICK m \in S : \A k \in S : k <= m
  BY <1>1, GreatestOf
<1>3. \A i, j \in S : Before(i, j) <=> i < j
  BY PositionsOrder
<1>4. \A j \in S \ {m} : Before(j, m)
  BY <1>1, <1>2, <1>3
<1>5. LastOf(S) \in S /\ \A j \in S \ {LastOf(S)} : Before(j, LastOf(S))
  BY <1>2, <1>4 DEF LastOf
<1>6. ASSUME NEW j \in S PROVE j <= LastOf(S)
  <2>1. j # LastOf(S) => j < LastOf(S)
    BY <1>3, <1>5
  <2> QED BY <2>1, <1>1, <1>5
<1> QED BY <1>5, <1>6

\* and the first the least.
LEMMA FirstIs ==
  ASSUME HistoryInv, NEW S, S \subseteq DOMAIN log, S # {}
  PROVE  FirstOf(S) \in S /\ \A j \in S : FirstOf(S) <= j
<1>1. Len(log) \in Nat /\ S \subseteq Nat
  BY PositionsOrder
<1>2. PICK m \in S : \A k \in S : m <= k
  BY <1>1, LeastOf
<1>3. \A i, j \in S : Before(i, j) <=> i < j
  BY PositionsOrder
<1>4. \A j \in S \ {m} : Before(m, j)
  BY <1>1, <1>2, <1>3
<1>5. FirstOf(S) \in S /\ \A j \in S \ {FirstOf(S)} : Before(FirstOf(S), j)
  BY <1>2, <1>4 DEF FirstOf
<1>6. ASSUME NEW j \in S PROVE FirstOf(S) <= j
  <2>1. j # FirstOf(S) => FirstOf(S) < j
    BY <1>3, <1>5
  <2> QED BY <2>1, <1>1, <1>5
<1> QED BY <1>5, <1>6

-----------------------------------------------------------------------------
(* Calendar months.                                                        *)

\* The days before each of the first n months,
Counts(n, f) == f = [m \in 1 .. n |-> IF m = 1 THEN 0 ELSE f[m - 1] + Lengths[m - 1]]

\* The recursion that counts the days before a month defines a function.
LEMMA CountsExist ==
  ASSUME NEW n \in Nat, n <= Len(Lengths) + 1
  PROVE  \E f : Counts(n, f)
<1> DEFINE Bad == {m \in Nat : m <= Len(Lengths) + 1 /\ ~ \E f : Counts(m, f)}
<1> SUFFICES ASSUME Bad # {} PROVE FALSE
  OBVIOUS
<1>0. Len(Lengths) \in Nat
  BY LengthsAssumption
<1>1. PICK m \in Bad : \A k \in Bad : m <= k
  BY LeastOf
<1>2. CASE m = 0
  <2> DEFINE f == [k \in 1 .. 0 |-> 0]
  <2>1. f = [k \in 1 .. 0 |-> IF k = 1 THEN 0 ELSE f[k - 1] + Lengths[k - 1]]
    OBVIOUS
  <2> HIDE DEF f
  <2> QED BY <2>1, <1>2 DEF Counts
<1>3. CASE m # 0
  <2>1. m \in Nat /\ m - 1 \in Nat /\ m - 1 <= Len(Lengths) + 1 /\ m - 1 \notin Bad
    BY <1>0, <1>1, <1>3
  <2>2. PICK g : Counts(m - 1, g)
    BY <2>1
  <2> DEFINE last == IF m = 1 THEN 0 ELSE g[m - 1] + Lengths[m - 1]
             f == [k \in 1 .. m |-> IF k = m THEN last ELSE g[k]]
  <2>3. ASSUME NEW k \in 1 .. m PROVE f[k] = IF k = 1 THEN 0 ELSE f[k - 1] + Lengths[k - 1]
    <3>1. CASE k = m
      <4>1. k = 1 \/ (k - 1 \in 1 .. m /\ k - 1 # m)
        BY <2>1, <3>1
      <4> QED BY <4>1, <3>1
    <3>2. CASE k # m
      <4>1. k \in 1 .. m - 1 /\ f[k] = g[k]
        BY <3>2, <2>1
      <4>2. g[k] = IF k = 1 THEN 0 ELSE g[k - 1] + Lengths[k - 1]
        BY <4>1, <2>2 DEF Counts
      <4>3. k # 1 => k - 1 \in 1 .. m /\ k - 1 # m
        BY <4>1, <2>1
      <4>4. k # 1 => f[k - 1] = g[k - 1]
        BY <4>3
      <4> QED BY <4>1, <4>2, <4>4
    <3> QED BY <3>1, <3>2
  <2>4. f = [k \in 1 .. m |-> IF k = 1 THEN 0 ELSE f[k - 1] + Lengths[k - 1]]
    BY <2>3
  <2> HIDE DEF f
  <2> QED BY <2>4, <1>1 DEF Counts
<1> QED BY <1>2, <1>3

\* so a month begins where the one before it ends,
LEMMA MonthsFollow ==
  /\ Len(Lengths) \in Nat /\ DOMAIN Lengths = 1 .. Len(Lengths) /\ DaysBefore[1] = 0
  /\ \A m \in 1 .. Len(Lengths) + 1 : DaysBefore[m] \in Nat
  /\ \A m \in 1 .. Len(Lengths) :
       Lengths[m] \in 28 .. 31 /\ DaysBefore[m + 1] = DaysBefore[m] + Lengths[m]
<1>1. Len(Lengths) \in Nat /\ DOMAIN Lengths = 1 .. Len(Lengths)
  BY LengthsAssumption
<1>2. \A m \in 1 .. Len(Lengths) : Lengths[m] \in 28 .. 31
  BY LengthsAssumption
<1>3. PICK f : Counts(Len(Lengths) + 1, f)
  BY <1>1, CountsExist
<1>4. DaysBefore = [m \in 1 .. Len(Lengths) + 1 |-> IF m = 1 THEN 0 ELSE DaysBefore[m - 1] + Lengths[m - 1]]
  BY <1>3 DEF Counts, DaysBefore
<1>5. \A m \in 1 .. Len(Lengths) + 1 : DaysBefore[m] = IF m = 1 THEN 0 ELSE DaysBefore[m - 1] + Lengths[m - 1]
  BY <1>4
<1>6. DaysBefore[1] = 0
  BY <1>1, <1>5
<1>7. ASSUME NEW m \in 1 .. Len(Lengths) PROVE DaysBefore[m + 1] = DaysBefore[m] + Lengths[m]
  <2>1. m + 1 \in 1 .. Len(Lengths) + 1 /\ m + 1 # 1 /\ (m + 1) - 1 = m
    BY <1>1
  <2> QED BY <2>1, <1>5
<1>8. \A m \in 1 .. Len(Lengths) + 1 : DaysBefore[m] \in Nat
  <2> DEFINE Bad == {m \in 1 .. Len(Lengths) + 1 : DaysBefore[m] \notin Nat}
  <2> SUFFICES ASSUME Bad # {} PROVE FALSE
    OBVIOUS
  <2>1. PICK m \in Bad : \A k \in Bad : m <= k
    <3>1. Bad \subseteq Nat
      BY <1>1
    <3> HIDE DEF Bad
    <3> QED BY <3>1, LeastOf
  <2>2. m # 1
    BY <1>6, <2>1
  <2>3. m - 1 \in 1 .. Len(Lengths) /\ m - 1 \in 1 .. Len(Lengths) + 1 /\ (m - 1) + 1 = m /\ m - 1 \notin Bad
    BY <1>1, <2>1, <2>2
  <2>4. DaysBefore[m - 1] \in Nat /\ Lengths[m - 1] \in Nat
    BY <2>3, <1>2
  <2>5. DaysBefore[(m - 1) + 1] = DaysBefore[m - 1] + Lengths[m - 1]
    BY <2>3, <1>7
  <2>6. DaysBefore[m] \in Nat
    BY <2>3, <2>4, <2>5
  <2> QED BY <2>1, <2>6
<1> QED BY <1>1, <1>2, <1>6, <1>7, <1>8

\* and a later one not before.
LEMMA MonthsAscend ==
  ASSUME NEW m \in 1 .. Len(Lengths) + 1, NEW n \in 1 .. Len(Lengths) + 1, m <= n
  PROVE  DaysBefore[m] <= DaysBefore[n]
<1> DEFINE Bad == {k \in 1 .. Len(Lengths) + 1 : m <= k /\ ~(DaysBefore[m] <= DaysBefore[k])}
<1> SUFFICES ASSUME Bad # {} PROVE FALSE
  OBVIOUS
<1>0. Len(Lengths) \in Nat /\ \A k \in 1 .. Len(Lengths) + 1 : DaysBefore[k] \in Nat
  BY MonthsFollow
<1>1. PICK k \in Bad : \A j \in Bad : k <= j
  <2>1. Bad \subseteq Nat
    BY <1>0
  <2> HIDE DEF Bad
  <2> QED BY <2>1, LeastOf
<1>2. k # m
  BY <1>0, <1>1
<1>3. /\ k - 1 \in 1 .. Len(Lengths) /\ k - 1 \in 1 .. Len(Lengths) + 1
      /\ (k - 1) + 1 = k /\ m <= k - 1 /\ ~(k <= k - 1)
  BY <1>0, <1>1, <1>2
<1>4. k - 1 \notin Bad
  BY <1>1, <1>3
<1>5. DaysBefore[m] <= DaysBefore[k - 1]
  BY <1>3, <1>4
<1>6. DaysBefore[k] = DaysBefore[k - 1] + Lengths[k - 1] /\ Lengths[k - 1] \in 28 .. 31
  BY <1>3, MonthsFollow
<1>7. DaysBefore[m] <= DaysBefore[k]
  <2>1. DaysBefore[m] \in Nat /\ DaysBefore[k - 1] \in Nat /\ DaysBefore[k] \in Nat
    BY <1>0, <1>1, <1>3
  <2>2. \A a, b, c \in Nat : \A l \in 28 .. 31 : (a <= b /\ c = b + l) => a <= c
    OBVIOUS
  <2> QED BY <2>1, <2>2, <1>5, <1>6
<1> QED BY <1>1, <1>7

\* A day is of one month.
LEMMA DayIsOfAMonth ==
  ASSUME NEW d \in 1 .. LastDay
  PROVE  /\ MonthOf[d] \in 1 .. Len(Lengths)
         /\ DaysBefore[MonthOf[d]] < d /\ d <= DaysBefore[MonthOf[d] + 1]
         /\ DayOfMonth(d) \in 1 .. Lengths[MonthOf[d]] /\ d = DaysBefore[MonthOf[d]] + DayOfMonth(d)
<1>0. /\ Len(Lengths) \in Nat /\ DOMAIN Lengths = 1 .. Len(Lengths) /\ DaysBefore[1] = 0
      /\ \A m \in 1 .. Len(Lengths) + 1 : DaysBefore[m] \in Nat
  BY MonthsFollow
<1> DEFINE Past == {m \in 1 .. Len(Lengths) + 1 : DaysBefore[m] < d}
<1>1. PICK m \in Past : \A k \in Past : k <= m
  <2>1. Past \subseteq 0 .. Len(Lengths) + 1 /\ Len(Lengths) + 1 \in Nat
    BY <1>0
  <2>2. 1 \in Past
    BY <1>0
  <2> HIDE DEF Past
  <2> QED BY <2>1, <2>2, GreatestOf
<1>2. m # Len(Lengths) + 1
  <2>1. d <= DaysBefore[Len(Lengths) + 1] /\ DaysBefore[Len(Lengths) + 1] \in Nat
    BY <1>0 DEF LastDay
  <2> QED BY <2>1, <1>1
<1>3. m \in 1 .. Len(Lengths) /\ m + 1 \in 1 .. Len(Lengths) + 1 /\ ~(m + 1 <= m)
  BY <1>0, <1>1, <1>2
<1>4. m + 1 \notin Past
  BY <1>1, <1>3
<1>5. d \in DaysBefore[m] + 1 .. DaysBefore[m + 1]
  BY <1>0, <1>1, <1>3, <1>4
<1>6. MonthOf[d] = CHOOSE n \in DOMAIN Lengths : d \in DaysBefore[n] + 1 .. DaysBefore[n + 1]
  BY DEF MonthOf
<1>7. MonthOf[d] \in DOMAIN Lengths /\ d \in DaysBefore[MonthOf[d]] + 1 .. DaysBefore[MonthOf[d] + 1]
  BY <1>0, <1>3, <1>5, <1>6
<1>8. MonthOf[d] \in 1 .. Len(Lengths) /\ MonthOf[d] \in 1 .. Len(Lengths) + 1
  BY <1>0, <1>7
<1>9. /\ DaysBefore[MonthOf[d] + 1] = DaysBefore[MonthOf[d]] + Lengths[MonthOf[d]]
      /\ Lengths[MonthOf[d]] \in 28 .. 31 /\ DaysBefore[MonthOf[d]] \in Nat
  BY <1>8, MonthsFollow
<1>10. DaysBefore[MonthOf[d]] < d /\ d <= DaysBefore[MonthOf[d] + 1] /\ d \in Nat
  BY <1>7, <1>9
<1>11. DayOfMonth(d) = d - DaysBefore[MonthOf[d]]
  BY DEF DayOfMonth
<1>12. PICK b, e, l : b = DaysBefore[MonthOf[d]] /\ e = DaysBefore[MonthOf[d] + 1] /\ l = Lengths[MonthOf[d]]
  OBVIOUS
<1>13. b \in Nat /\ l \in Nat /\ e = b + l /\ b < d /\ d <= e /\ d \in Nat /\ DayOfMonth(d) = d - b
  BY <1>9, <1>10, <1>11, <1>12
<1>14. DayOfMonth(d) \in 1 .. l /\ d = b + DayOfMonth(d)
  BY ONLY <1>13
<1> QED BY <1>8, <1>10, <1>12, <1>14

\* The same day of a month is in that month.
LEMMA SameDayIsInMonth ==
  ASSUME NEW d \in 1 .. LastDay, NEW m \in 1 .. Len(Lengths)
  PROVE  /\ InMonth(d, m) \in Nat /\ DaysBefore[m] < InMonth(d, m) /\ InMonth(d, m) <= DaysBefore[m + 1]
         /\ m = MonthOf[d] => InMonth(d, m) = d
<1>1. DaysBefore[m] \in Nat /\ Lengths[m] \in 28 .. 31 /\ DaysBefore[m + 1] = DaysBefore[m] + Lengths[m]
  <2>1. m \in 1 .. Len(Lengths) + 1
    BY MonthsFollow
  <2> QED BY <2>1, MonthsFollow
<1>2. DayOfMonth(d) \in Nat /\ 1 <= DayOfMonth(d)
  <2>1. MonthOf[d] \in 1 .. Len(Lengths) /\ DayOfMonth(d) \in 1 .. Lengths[MonthOf[d]]
    BY DayIsOfAMonth
  <2> QED BY <2>1
<1>3. m = MonthOf[d] => d = DaysBefore[m] + DayOfMonth(d) /\ DayOfMonth(d) <= Lengths[m]
  <2>1. d = DaysBefore[MonthOf[d]] + DayOfMonth(d) /\ DayOfMonth(d) \in 1 .. Lengths[MonthOf[d]]
    BY DayIsOfAMonth
  <2>2. Lengths[m] \in Nat /\ DayOfMonth(d) \in Nat
    BY <1>1, <1>2
  <2> QED BY <2>1, <2>2
<1>4. InMonth(d, m) = DaysBefore[m] + (IF DayOfMonth(d) > Lengths[m] THEN Lengths[m] ELSE DayOfMonth(d))
  BY DEF InMonth
<1>5. PICK b, e, l, c : b = DaysBefore[m] /\ e = DaysBefore[m + 1] /\ l = Lengths[m] /\ c = DayOfMonth(d)
  OBVIOUS
<1>6. b \in Nat /\ l \in 28 .. 31 /\ e = b + l /\ c \in Nat /\ 1 <= c /\ InMonth(d, m) = b + (IF c > l THEN l ELSE c)
  BY <1>1, <1>2, <1>4, <1>5
<1>7. InMonth(d, m) \in Nat /\ b < InMonth(d, m) /\ InMonth(d, m) <= e /\ (c <= l => InMonth(d, m) = b + c)
  BY ONLY <1>6
<1> QED BY <1>3, <1>5, <1>7

LastMonth == Len(Lengths)

\* Where a number of months away is.
LEMMA MonthsAway ==
  ASSUME NEW d \in 1 .. LastDay, NEW n \in Int
  PROVE  /\ MonthOf[d] \in 1 .. LastMonth /\ LastMonth \in Nat
         /\ MonthOf[d] - n < 1 => MonthsBefore(d, n) = 0
         /\ MonthOf[d] - n > LastMonth => MonthsBefore(d, n) = LastDay + 1
         /\ MonthOf[d] - n \in 1 .. LastMonth => MonthsBefore(d, n) = InMonth(d, MonthOf[d] - n)
<1>1. MonthOf[d] \in 1 .. LastMonth /\ LastMonth \in Nat
  BY DayIsOfAMonth, MonthsFollow DEF LastMonth
<1>2. MonthsBefore(d, n) = IF MonthOf[d] - n < 1 THEN 0
                           ELSE IF MonthOf[d] - n > LastMonth THEN LastDay + 1 ELSE InMonth(d, MonthOf[d] - n)
  BY DEF MonthsBefore, LastMonth
<1>3. PICK m : m = MonthOf[d] - n
  OBVIOUS
<1>4. m \in Int
  BY <1>1, <1>3
<1> QED BY <1>1, <1>2, <1>3, <1>4

\* The last day is that of the last month.
LEMMA LastDayIs ==
  LastDay \in Nat /\ LastDay = DaysBefore[LastMonth + 1] /\ LastMonth \in Nat
<1>1. LastMonth \in Nat /\ LastMonth + 1 \in 1 .. LastMonth + 1
  BY MonthsFollow DEF LastMonth
<1> QED BY <1>1, MonthsFollow DEF LastDay, LastMonth

\* Months before a day is before it, unless there are none,
LEMMA MonthsBack ==
  ASSUME NEW d \in 1 .. LastDay, NEW n \in Nat
  PROVE  /\ MonthsBefore(d, n) \in Nat /\ MonthsBefore(d, n) <= d
         /\ n > 0 => MonthsBefore(d, n) < d
<1>1. PICK m : m = MonthOf[d]
  OBVIOUS
<1>2. m \in 1 .. LastMonth /\ LastMonth \in Nat /\ d \in Nat /\ 0 < d
  BY <1>1, MonthsAway, LastDayIs
<1>3. CASE m - n < 1
  BY <1>1, <1>2, <1>3, MonthsAway
<1>4. CASE ~(m - n < 1) /\ n = 0
  <2>1. m - n = m /\ MonthsBefore(d, n) = InMonth(d, m) /\ InMonth(d, m) = d
    BY <1>1, <1>2, <1>4, MonthsAway, SameDayIsInMonth DEF LastMonth
  <2> QED BY <2>1, <1>2, <1>4
<1>5. CASE ~(m - n < 1) /\ n # 0
  <2>1. m - n \in 1 .. LastMonth /\ (m - n) + 1 \in 1 .. LastMonth + 1 /\ m \in 1 .. LastMonth + 1 /\ (m - n) + 1 <= m
    BY <1>2, <1>5
  <2>2. MonthsBefore(d, n) = InMonth(d, m - n)
    BY <1>1, <2>1, MonthsAway
  <2>3. InMonth(d, m - n) \in Nat /\ InMonth(d, m - n) <= DaysBefore[(m - n) + 1]
    BY <2>1, SameDayIsInMonth DEF LastMonth
  <2>4. DaysBefore[(m - n) + 1] <= DaysBefore[m]
    BY <2>1, MonthsAscend DEF LastMonth
  <2>5. DaysBefore[m] < d /\ DaysBefore[m] \in Nat /\ DaysBefore[(m - n) + 1] \in Nat
    BY <1>1, <2>1, DayIsOfAMonth, MonthsFollow DEF LastMonth
  <2> QED BY <2>2, <2>3, <2>4, <2>5, <1>2
<1> QED BY <1>3, <1>4, <1>5

\* and months after it is not before it,
LEMMA MonthsOn ==
  ASSUME NEW d \in 1 .. LastDay, NEW n \in Nat
  PROVE  MonthsBefore(d, -n) \in Nat /\ d <= MonthsBefore(d, -n) /\ MonthsBefore(d, -n) <= LastDay + 1
<1>1. PICK m : m = MonthOf[d]
  OBVIOUS
<1>0. -n \in Int
  OBVIOUS
<1>2. /\ m \in 1 .. LastMonth /\ LastMonth \in Nat /\ d \in Nat /\ LastDay \in Nat /\ d <= LastDay
      /\ m - (-n) = m + n
  BY <1>0, <1>1, MonthsAway, LastDayIs
<1>3. CASE m + n > LastMonth
  <2>1. MonthsBefore(d, -n) = LastDay + 1
    BY <1>0, <1>1, <1>2, <1>3, MonthsAway
  <2> QED BY <2>1, <1>2
<1>4. CASE ~(m + n > LastMonth)
  <2>1. /\ m + n \in 1 .. LastMonth /\ m + n \in 1 .. LastMonth + 1 /\ (m + n) + 1 \in 1 .. LastMonth + 1
        /\ LastMonth + 1 \in 1 .. LastMonth + 1 /\ (m + n) + 1 <= LastMonth + 1
        /\ m + 1 \in 1 .. LastMonth + 1 /\ (n # 0 => m + 1 <= m + n)
    BY <1>2, <1>4
  <2>2. MonthsBefore(d, -n) = InMonth(d, m + n)
    BY <1>0, <1>1, <1>2, <2>1, MonthsAway
  <2>3. /\ InMonth(d, m + n) \in Nat /\ DaysBefore[m + n] < InMonth(d, m + n)
        /\ InMonth(d, m + n) <= DaysBefore[(m + n) + 1] /\ (m + n = m => InMonth(d, m + n) = d)
    BY <1>1, <2>1, SameDayIsInMonth DEF LastMonth
  <2>4. DaysBefore[(m + n) + 1] <= LastDay /\ DaysBefore[(m + n) + 1] \in Nat
    BY <2>1, MonthsAscend, MonthsFollow, LastDayIs DEF LastMonth
  <2>5. n # 0 => d <= DaysBefore[m + 1] /\ DaysBefore[m + 1] <= DaysBefore[m + n]
    BY <1>1, <2>1, DayIsOfAMonth, MonthsAscend DEF LastMonth
  <2>6. DaysBefore[m + 1] \in Nat /\ DaysBefore[m + n] \in Nat
    BY <2>1, MonthsFollow DEF LastMonth
  <2>7. d <= InMonth(d, m + n)
    <3>1. CASE n = 0
      BY <3>1, <1>2, <2>3
    <3>2. CASE n # 0
      BY <3>2, <2>3, <2>5, <2>6, <1>2
    <3> QED BY <3>1, <3>2
  <2> QED BY <2>2, <2>3, <2>4, <2>7, <1>2
<1> QED BY <1>3, <1>4

\* a later day's not before an earlier day's.
LEMMA MonthsOnAscend ==
  ASSUME NEW d \in 1 .. LastDay, NEW e \in 1 .. LastDay, d <= e, NEW n \in Nat
  PROVE  MonthsBefore(d, -n) <= MonthsBefore(e, -n)
<1>0. -n \in Int /\ MonthsBefore(d, -n) \in Nat /\ MonthsBefore(e, -n) \in Nat /\ MonthsBefore(d, -n) <= LastDay + 1
  BY MonthsOn
<1>1. PICK m, k : m = MonthOf[d] /\ k = MonthOf[e]
  OBVIOUS
<1>2. /\ m \in 1 .. LastMonth /\ k \in 1 .. LastMonth /\ LastMonth \in Nat /\ LastDay \in Nat
      /\ m - (-n) = m + n /\ k - (-n) = k + n
  BY <1>0, <1>1, MonthsAway, LastDayIs
<1>3. m <= k
  <2> SUFFICES ASSUME ~(m <= k) PROVE FALSE
    OBVIOUS
  <2>1. k + 1 \in 1 .. LastMonth + 1 /\ m \in 1 .. LastMonth + 1 /\ k + 1 <= m
    BY <1>2
  <2>2. DaysBefore[k + 1] <= DaysBefore[m] /\ DaysBefore[k + 1] \in Nat /\ DaysBefore[m] \in Nat
    BY <2>1, MonthsAscend, MonthsFollow DEF LastMonth
  <2>3. e <= DaysBefore[k + 1] /\ DaysBefore[m] < d
    BY <1>1, DayIsOfAMonth
  <2> QED BY <2>2, <2>3, <1>2
<1>4. CASE k + n > LastMonth
  <2>1. MonthsBefore(e, -n) = LastDay + 1
    BY <1>0, <1>1, <1>2, <1>4, MonthsAway
  <2> QED BY <2>1, <1>0
<1>5. CASE ~(k + n > LastMonth) /\ m = k
  <2>1. m + n \in 1 .. LastMonth
    BY <1>2, <1>5
  <2>2. MonthsBefore(d, -n) = InMonth(d, m + n) /\ MonthsBefore(e, -n) = InMonth(e, m + n)
    BY <1>0, <1>1, <1>2, <1>5, <2>1, MonthsAway
  <2>3. DayOfMonth(d) \in Nat /\ DayOfMonth(e) \in Nat /\ DayOfMonth(d) <= DayOfMonth(e)
    <3>1. m \in 1 .. LastMonth + 1 /\ Lengths[m] \in 28 .. 31 /\ DaysBefore[m] \in Nat
      BY <1>2, MonthsFollow DEF LastMonth
    <3>2. DayOfMonth(d) \in 1 .. Lengths[m] /\ d = DaysBefore[m] + DayOfMonth(d)
      BY <1>1, DayIsOfAMonth
    <3>3. DayOfMonth(e) \in 1 .. Lengths[m] /\ e = DaysBefore[m] + DayOfMonth(e)
      BY <1>1, <1>5, DayIsOfAMonth
    <3> QED BY <3>1, <3>2, <3>3
  <2>4. DaysBefore[m + n] \in Nat /\ Lengths[m + n] \in Nat
    <3>1. m + n \in 1 .. LastMonth + 1
      BY <2>1, <1>2
    <3> QED BY <2>1, <3>1, MonthsFollow DEF LastMonth
  <2>5. InMonth(d, m + n) <= InMonth(e, m + n)
    BY <2>3, <2>4 DEF InMonth
  <2> QED BY <2>2, <2>5
<1>6. CASE ~(k + n > LastMonth) /\ m # k
  <2>1. /\ m + n \in 1 .. LastMonth /\ k + n \in 1 .. LastMonth /\ (m + n) + 1 \in 1 .. LastMonth + 1
        /\ k + n \in 1 .. LastMonth + 1 /\ (m + n) + 1 <= k + n
    BY <1>2, <1>3, <1>6
  <2>2. MonthsBefore(d, -n) = InMonth(d, m + n) /\ MonthsBefore(e, -n) = InMonth(e, k + n)
    BY <1>0, <1>1, <1>2, <2>1, MonthsAway
  <2>3. InMonth(d, m + n) <= DaysBefore[(m + n) + 1] /\ DaysBefore[k + n] < InMonth(e, k + n)
    BY <2>1, SameDayIsInMonth DEF LastMonth
  <2>4. /\ DaysBefore[(m + n) + 1] <= DaysBefore[k + n]
        /\ DaysBefore[(m + n) + 1] \in Nat /\ DaysBefore[k + n] \in Nat
    BY <2>1, MonthsAscend, MonthsFollow DEF LastMonth
  <2> QED BY <2>2, <2>3, <2>4, <1>0
<1> QED BY <1>4, <1>5, <1>6

\* The clocks are known by their unit.
ClockWindows == [unit : {"days", "months"}, num : Nat]

\* A clock's threshold is not after the day,
LEMMA ThresholdBefore ==
  ASSUME NEW d \in 1 .. LastDay, NEW w \in ClockWindows
  PROVE  WindowThreshold(d, w) <= d
<1>1. w.unit \in {"days", "months"} /\ w.num \in Nat /\ d \in Nat
  BY LastDayIs DEF ClockWindows
<1>2. CASE w.unit = "days"
  BY <1>1, <1>2 DEF WindowThreshold
<1>3. CASE w.unit = "months"
  BY <1>1, <1>3, MonthsBack DEF WindowThreshold
<1> QED BY <1>1, <1>2, <1>3

\* its expiry not before it,
LEMMA ExpiryAfter ==
  ASSUME NEW d \in 1 .. LastDay, NEW w \in ClockWindows
  PROVE  WindowExpiry(d, w) \in Nat /\ d <= WindowExpiry(d, w)
<1>1. w.unit \in {"days", "months"} /\ w.num \in Nat /\ d \in Nat
  BY LastDayIs DEF ClockWindows
<1>2. CASE w.unit = "days"
  BY <1>1, <1>2 DEF WindowExpiry
<1>3. CASE w.unit = "months"
  BY <1>1, <1>3, MonthsOn DEF WindowExpiry
<1> QED BY <1>1, <1>2, <1>3

\* and later evidence does not expire sooner.
LEMMA ExpiryAscends ==
  ASSUME NEW d \in 1 .. LastDay, NEW e \in 1 .. LastDay, d <= e, NEW w \in ClockWindows
  PROVE  WindowExpiry(d, w) <= WindowExpiry(e, w)
<1>1. w.unit \in {"days", "months"} /\ w.num \in Nat /\ d \in Nat /\ e \in Nat
  BY LastDayIs DEF ClockWindows
<1>2. CASE w.unit = "days"
  BY <1>1, <1>2 DEF WindowExpiry
<1>3. CASE w.unit = "months"
  BY <1>1, <1>3, MonthsOnAscend DEF WindowExpiry
<1> QED BY <1>1, <1>2, <1>3

-----------------------------------------------------------------------------
(* The history of a KSI, in the order of its instants.                     *)

\* Instants are told apart by the three things they are ordered by.
Ordered(all) ==
  /\ \A x \in all : x.t \in 0 .. LastDay /\ x.rank \in 0 .. Len(IdOrder) /\ x.bundle \in 0 .. Len(log)
  /\ \A x, y \in all : (x.t = y.t /\ x.rank = y.rank /\ x.bundle = y.bundle) => x = y

\* The order is total,
LEMMA OneBeforeTheOther ==
  ASSUME NEW all, Ordered(all), LastDay \in Nat, Len(IdOrder) \in Nat, Len(log) \in Nat,
         NEW x \in all, NEW y \in all
  PROVE  /\ x = y \/ Precedes(x, y) \/ Precedes(y, x)
         /\ ~(Precedes(x, y) /\ Precedes(y, x)) /\ ~Precedes(x, x)
         /\ x.t < y.t => Precedes(x, y)
         /\ Precedes(x, y) => x.t <= y.t
         /\ \A z \in all : Precedes(x, y) /\ Precedes(y, z) => Precedes(x, z)
<1>1. \A z \in all : z.t \in Nat /\ z.rank \in Nat /\ z.bundle \in Nat
  BY DEF Ordered
<1>2. (x.t = y.t /\ x.rank = y.rank /\ x.bundle = y.bundle) => x = y
  BY DEF Ordered
<1>3. \A z \in all : Precedes(x, y) /\ Precedes(y, z) => Precedes(x, z)
  BY <1>1 DEF Precedes
<1> QED BY <1>1, <1>2, <1>3 DEF Precedes

\* and instants have a last among them.
LEMMA ThereIsALastInstant ==
  ASSUME NEW all, Ordered(all), LastDay \in Nat, Len(IdOrder) \in Nat, Len(log) \in Nat,
         NEW Z, Z \subseteq all, Z # {}
  PROVE  \E z \in Z : \A y \in Z : y = z \/ Precedes(y, z)
<1> DEFINE T == {z.t : z \in Z}
<1>1. PICK t \in T : \A u \in T : u <= t
  <2>1. T \subseteq 0 .. LastDay /\ T # {}
    BY DEF Ordered
  <2> HIDE DEF T
  <2> QED BY <2>1, GreatestOf
<1> DEFINE A == {z \in Z : z.t = t}
           R == {z.rank : z \in A}
<1>2. PICK r \in R : \A u \in R : u <= r
  <2>1. R \subseteq 0 .. Len(IdOrder) /\ R # {}
    BY <1>1 DEF Ordered
  <2> HIDE DEF R
  <2> QED BY <2>1, GreatestOf
<1> DEFINE B == {z \in A : z.rank = r}
           C == {z.bundle : z \in B}
<1>3. PICK b \in C : \A u \in C : u <= b
  <2>1. C \subseteq 0 .. Len(log) /\ C # {}
    BY <1>2 DEF Ordered
  <2> HIDE DEF C
  <2> QED BY <2>1, GreatestOf
<1>4. PICK z \in B : z.bundle = b
  BY <1>3
<1>5. ASSUME NEW y \in Z PROVE y = z \/ Precedes(y, z)
  <2>1. y.t <= z.t
    BY <1>1, <1>4
  <2>2. y.t = z.t => y.rank <= z.rank
    BY <1>2, <1>4
  <2>3. (y.t = z.t /\ y.rank = z.rank) => y.bundle <= z.bundle
    BY <1>3, <1>4
  <2>4. (y.t = z.t /\ y.rank = z.rank /\ y.bundle = z.bundle) => y = z
    BY <1>4 DEF Ordered
  <2>5. /\ y.t \in Nat /\ z.t \in Nat /\ y.rank \in Nat /\ z.rank \in Nat
        /\ y.bundle \in Nat /\ z.bundle \in Nat
    BY <1>4 DEF Ordered
  <2> QED BY ONLY <2>1, <2>2, <2>3, <2>4, <2>5 DEF Precedes
<1>6. z \in Z
  BY <1>4
<1> QED BY <1>5, <1>6

\* How long a status stood is a day after it, not after the day it is asked on.
LEMMA UnrenewedIs ==
  ASSUME NEW all, Ordered(all), LastDay \in Nat, Len(IdOrder) \in Nat, Len(log) \in Nat,
         NEW x \in all, NEW now \in Nat, \A y \in all : y.t <= now
  PROVE  /\ Unrenewed(all, x, now) \in Nat /\ Unrenewed(all, x, now) <= now
         /\ \A y \in all : Precedes(x, y) => Unrenewed(all, x, now) <= y.t
         /\ Unrenewed(all, x, now) = now \/ \E y \in all : Precedes(x, y) /\ Unrenewed(all, x, now) = y.t
<1> DEFINE after == {y.t : y \in {z \in all : Precedes(x, z)}}
<1>0. Unrenewed(all, x, now) = IF after = {} THEN now ELSE Min(after)
  BY DEF Unrenewed
<1>1. CASE after = {}
  <2>1. \A y \in all : ~Precedes(x, y)
    BY <1>1
  <2> QED BY <2>1, <1>0, <1>1
<1>2. CASE after # {}
  <2>1. after \subseteq Nat
    BY DEF Ordered
  <2>2. \A y \in all : Precedes(x, y) => y.t \in after
    OBVIOUS
  <2>3. \A u \in after : \E y \in all : Precedes(x, y) /\ u = y.t
    OBVIOUS
  <2> HIDE DEF after
  <2>4. PICK m \in after : \A u \in after : m <= u
    BY <2>1, <1>2, LeastOf
  <2>5. Min(after) \in after /\ \A u \in after : Min(after) <= u
    BY <2>4 DEF Min
  <2> QED BY <2>1, <2>2, <2>3, <2>5, <1>0, <1>2
<1> QED BY <1>1, <1>2

\* The methods of a KSI, one of a recipe.
LEMMA MethodsAre ==
  ASSUME NEW S, NEW k, NEW m \in MethodsOf(S, k)
  PROVE  \/ m.ref \in Catalog /\ k \in KsisOf[m.ref] /\ m = PipelineMethod(m.ref, Register(S, m.ref))
         \/ m.ref \in Upstream /\ Submitted(S, m.ref, k) # {} /\ m = IngestedMethod(S, m.ref, k)
         \/ /\ m.source = "attestation" /\ m.ref \in Claims /\ Attested(S, m.ref, k) # {}
            /\ m = AttestationMethod(S, m.ref, k)
<1>1. ASSUME NEW r \in {q \in Catalog : k \in KsisOf[q]}, m = PipelineMethod(r, Register(S, r))
      PROVE  m.ref \in Catalog /\ k \in KsisOf[m.ref] /\ m = PipelineMethod(m.ref, Register(S, m.ref))
  <2>1. m.ref = r
    BY <1>1 DEF PipelineMethod
  <2> QED BY <2>1, <1>1
<1>2. ASSUME NEW u \in {v \in Upstream : Submitted(S, v, k) # {}}, m = IngestedMethod(S, u, k)
      PROVE  m.ref \in Upstream /\ Submitted(S, m.ref, k) # {} /\ m = IngestedMethod(S, m.ref, k)
  <2>1. m.ref = u
    BY <1>2 DEF IngestedMethod
  <2> QED BY <2>1, <1>2
<1>3. ASSUME NEW c \in {d \in Claims : Attested(S, d, k) # {} /\ log[LastOf(Attested(S, d, k))].attests},
             m = AttestationMethod(S, c, k)
      PROVE  /\ m.source = "attestation" /\ m.ref \in Claims /\ Attested(S, m.ref, k) # {}
             /\ m = AttestationMethod(S, m.ref, k)
  <2>1. m.ref = c /\ m.source = "attestation"
    BY <1>3 DEF AttestationMethod
  <2> QED BY <2>1, <1>3
<1>4. \/ \E r \in {q \in Catalog : k \in KsisOf[q]} : m = PipelineMethod(r, Register(S, r))
      \/ \E u \in {v \in Upstream : Submitted(S, v, k) # {}} : m = IngestedMethod(S, u, k)
      \/ \E c \in {d \in Claims : Attested(S, d, k) # {} /\ log[LastOf(Attested(S, d, k))].attests} :
           m = AttestationMethod(S, c, k)
  BY DEF MethodsOf
<1> QED BY <1>1, <1>2, <1>3, <1>4

\* A recipe is one method of a KSI.
LEMMA OneMethodOfARecipe ==
  ASSUME NEW S, NEW k, NEW m \in MethodsOf(S, k), NEW n \in MethodsOf(S, k),
         m.source # "attestation", n.source # "attestation", m.ref = n.ref
  PROVE  m = n
<1>1. \/ m.ref \in Catalog /\ m = PipelineMethod(m.ref, Register(S, m.ref))
      \/ m.ref \in Upstream /\ m = IngestedMethod(S, m.ref, k)
  BY MethodsAre
<1>2. \/ n.ref \in Catalog /\ n = PipelineMethod(n.ref, Register(S, n.ref))
      \/ n.ref \in Upstream /\ n = IngestedMethod(S, n.ref, k)
  BY MethodsAre
<1>3. m.ref \notin Catalog \/ m.ref \notin Upstream
  BY DEF Upstream
<1> QED BY <1>1, <1>2, <1>3, Zenon

\* A method runs on one of the two clocks.
LEMMA ClocksAreTwo ==
  ASSUME NEW S, NEW k, NEW m \in MethodsOf(S, k)
  PROVE  m.clock \in {"machine", "non-machine"} /\ Windows[m.clock] \in ClockWindows \cup {NoWindow}
<1>1. m.clock \in {"machine", "non-machine"}
  BY MethodsAre DEF PipelineMethod, IngestedMethod, AttestationMethod
<1> QED BY <1>1, MethodsAssumption DEF ClockWindows

\* The instants of a KSI are ordered.
LEMMA InstantsAre ==
  ASSUME HistoryInv, NEW k, NEW x \in Instants(All, MethodsOf(All, k))
  PROVE  /\ \E m \in MethodsOf(All, k) :
              /\ m.source # "attestation" /\ x.bundle \in Chain(All, m.ref)
              /\ x.rank \in DOMAIN IdOrder /\ IdOrder[x.rank] = m.ref
              /\ x = [t |-> log[x.bundle].at, rank |-> x.rank, bundle |-> x.bundle, window |-> Windows[m.clock]]
         /\ x.bundle \in DOMAIN log /\ x.t = log[x.bundle].at
         /\ x.window \in ClockWindows \cup {NoWindow}
<1>1. PICK m \in {n \in MethodsOf(All, k) : n.source # "attestation"} :
        \E i \in Chain(All, m.ref), n \in {y \in DOMAIN IdOrder : IdOrder[y] = m.ref} :
          x = [t |-> log[i].at, rank |-> n, bundle |-> i, window |-> Windows[m.clock]]
  BY DEF Instants
<1>2. PICK i \in Chain(All, m.ref), n \in {y \in DOMAIN IdOrder : IdOrder[y] = m.ref} :
        x = [t |-> log[i].at, rank |-> n, bundle |-> i, window |-> Windows[m.clock]]
  BY <1>1
<1>3. x.bundle = i /\ x.rank = n /\ x.t = log[i].at /\ x.window = Windows[m.clock]
  BY <1>2
<1>4. i \in DOMAIN log
  BY DEF Chain, Evidence, All
<1>5. Windows[m.clock] \in ClockWindows \cup {NoWindow}
  BY ClocksAreTwo
<1>6. /\ m \in MethodsOf(All, k) /\ m.source # "attestation" /\ x.bundle \in Chain(All, m.ref)
      /\ x.rank \in DOMAIN IdOrder /\ IdOrder[x.rank] = m.ref
      /\ x = [t |-> log[x.bundle].at, rank |-> x.rank, bundle |-> x.bundle, window |-> Windows[m.clock]]
  BY <1>2, <1>3
<1> QED BY <1>3, <1>4, <1>5, <1>6

\* The instants of a KSI are in one order.
LEMMA InstantsAreOrdered ==
  ASSUME HistoryInv, NEW k
  PROVE  Ordered(Instants(All, MethodsOf(All, k)))
<1>0. Len(IdOrder) \in Nat /\ DOMAIN IdOrder = 1 .. Len(IdOrder)
  BY MethodsAssumption
<1>1. ASSUME NEW x \in Instants(All, MethodsOf(All, k))
      PROVE  x.t \in 0 .. LastDay /\ x.rank \in 0 .. Len(IdOrder) /\ x.bundle \in 0 .. Len(log)
  <2>1. x.bundle \in DOMAIN log /\ x.t = log[x.bundle].at /\ x.rank \in DOMAIN IdOrder
    BY InstantsAre
  <2>2. Shaped(log[x.bundle]) /\ DOMAIN log = 1 .. Len(log) /\ Len(log) \in Nat
    BY <2>1, PositionsOrder
  <2>3. x.t \in 1 .. LastDay
    BY <2>1, <2>2, MethodsAssumption DEF Shaped
  <2> QED BY <2>1, <2>2, <2>3, <1>0, LastDayIs
<1>2. ASSUME NEW x \in Instants(All, MethodsOf(All, k)), NEW y \in Instants(All, MethodsOf(All, k)),
             x.t = y.t, x.rank = y.rank, x.bundle = y.bundle
      PROVE  x = y
  <2>1. PICK m \in MethodsOf(All, k) :
          /\ m.source # "attestation" /\ IdOrder[x.rank] = m.ref
          /\ x = [t |-> log[x.bundle].at, rank |-> x.rank, bundle |-> x.bundle, window |-> Windows[m.clock]]
    BY InstantsAre
  <2>2. PICK n \in MethodsOf(All, k) :
          /\ n.source # "attestation" /\ IdOrder[y.rank] = n.ref
          /\ y = [t |-> log[y.bundle].at, rank |-> y.rank, bundle |-> y.bundle, window |-> Windows[n.clock]]
    BY InstantsAre
  <2>3. m = n
    BY <2>1, <2>2, <1>2, OneMethodOfARecipe
  <2> QED BY <2>1, <2>2, <2>3, <1>2
<1> QED BY <1>1, <1>2 DEF Ordered

\* A status stands from its instant up to the end of its window.
Stands(x, d) == x.t <= d /\ d < WindowExpiry(x.t, x.window)

\* The history of validations by clocks that owe a window, up to some day.
Judgeable(all, now) ==
  /\ Ordered(all) /\ now \in 1 .. LastDay
  /\ LastDay \in Nat /\ Len(IdOrder) \in Nat /\ Len(log) \in Nat
  /\ \A x \in all : x.t \in 1 .. LastDay /\ x.t <= now /\ x.window \in ClockWindows

\* A clock that owes a window has one.
LEMMA WindowsAreOwed == ASSUME NEW w \in ClockWindows PROVE w # NoWindow
  BY DEF ClockWindows, NoWindow

\* The span begins with the last instant at or before the threshold.
LEMMA SpanIs ==
  ASSUME NEW all, NEW now, Judgeable(all, now), NEW o \in all,
         o.t <= MonthsBefore(now, HistoryMonths),
         \A y \in all : y.t <= MonthsBefore(now, HistoryMonths) => o = y \/ Precedes(y, o)
  PROVE  Span(all, now) = {x \in all : x = o \/ Precedes(o, x)}
<1> DEFINE reach == {x \in all : x.t <= MonthsBefore(now, HistoryMonths)}
           top(p) == \A y \in reach : p = y \/ Precedes(y, p)
<1>1. o \in reach /\ top(o)
  OBVIOUS
<1>2. ASSUME NEW p \in reach, top(p) PROVE p = o
  <2>1. (p = o \/ Precedes(o, p)) /\ (o = p \/ Precedes(p, o))
    BY <1>1, <1>2
  <2> QED BY <2>1, OneBeforeTheOther DEF Judgeable
<1>3. Span(all, now) = {x \in all : \E p \in reach : \A y \in reach : (p = y \/ Precedes(y, p)) /\ (x = p \/ Precedes(p, x))}
  BY DEF Span
<1>4. ASSUME NEW x \in all
      PROVE  (\E p \in reach : \A y \in reach : (p = y \/ Precedes(y, p)) /\ (x = p \/ Precedes(p, x)))
               <=> (x = o \/ Precedes(o, x))
  <2>1. ASSUME NEW p \in reach, \A y \in reach : (p = y \/ Precedes(y, p)) /\ (x = p \/ Precedes(p, x))
        PROVE  x = o \/ Precedes(o, x)
    <3>1. top(p) /\ (x = p \/ Precedes(p, x))
      BY <2>1, <1>1
    <3> QED BY <3>1, <1>2
  <2>2. ASSUME x = o \/ Precedes(o, x)
        PROVE  \E p \in reach : \A y \in reach : (p = y \/ Precedes(y, p)) /\ (x = p \/ Precedes(p, x))
    BY <2>2, <1>1
  <2> QED BY <2>1, <2>2
<1> HIDE DEF reach, top
<1> QED BY <1>3, <1>4

\* A history that meets the floor leaves no gap in the owed span:
LEMMA MetMeansKnown ==
  ASSUME NEW all, NEW now, Judgeable(all, now), HistoryMonths > 0, HistoryMet(all, now) = "met",
         NEW d \in Nat, MonthsBefore(now, HistoryMonths) <= d, d < now
  PROVE  \E x \in all : Stands(x, d)
<1>1. Span(all, now) # {} /\ Lapses(all, now) = {}
  BY DEF HistoryMet
<1> DEFINE since == MonthsBefore(now, HistoryMonths)
           reach == {x \in all : x.t <= since}
<1>2. since \in Nat /\ now \in Nat
  BY MonthsBack, MethodsAssumption DEF Judgeable
<1>3. reach # {}
  BY <1>1 DEF Span
<1>4. PICK o \in reach : \A y \in reach : y = o \/ Precedes(y, o)
  <2>1. reach \subseteq all
    OBVIOUS
  <2> HIDE DEF reach
  <2> QED BY <2>1, <1>3, ThereIsALastInstant DEF Judgeable
<1>5. Span(all, now) = {x \in all : x = o \/ Precedes(o, x)}
  <2>1. o \in all /\ o.t <= MonthsBefore(now, HistoryMonths)
    BY <1>4
  <2>2. \A y \in all : y.t <= MonthsBefore(now, HistoryMonths) => o = y \/ Precedes(y, o)
    BY <1>4
  <2> QED BY <2>1, <2>2, SpanIs
<1> DEFINE Z == {z \in Span(all, now) : z.t <= d}
<1>6. PICK z \in Z : \A y \in Z : y = z \/ Precedes(y, z)
  <2>1. o \in Z
    <3>1. o.t \in Nat /\ o.t <= since
      BY <1>4 DEF Judgeable
    <3> QED BY <3>1, <1>2, <1>4, <1>5
  <2>2. Z \subseteq all
    BY <1>5
  <2> HIDE DEF Z
  <2> QED BY <2>1, <2>2, ThereIsALastInstant DEF Judgeable
<1>7. z \in all /\ z \in Span(all, now) /\ z.t <= d /\ z.window \in ClockWindows /\ z.t \in 1 .. LastDay
  BY <1>5, <1>6 DEF Judgeable
<1>8. Unrenewed(all, z, now) <= WindowExpiry(z.t, z.window)
  <2>1. ~(z.window # NoWindow /\ Unrenewed(all, z, now) > WindowExpiry(z.t, z.window))
    BY <1>1, <1>7 DEF Lapses
  <2>2. z.window # NoWindow
    BY <1>7, WindowsAreOwed
  <2>3. Unrenewed(all, z, now) \in Nat
    BY <1>2, <1>7, UnrenewedIs DEF Judgeable
  <2>4. WindowExpiry(z.t, z.window) \in Nat
    BY <1>7, ExpiryAfter
  <2> QED BY <2>1, <2>2, <2>3, <2>4
<1>9. d < Unrenewed(all, z, now)
  <2>1. \A y \in all : Precedes(z, y) => ~(y.t <= d)
    <3> SUFFICES ASSUME NEW y \in all, Precedes(z, y), y.t <= d PROVE FALSE
      OBVIOUS
    <3>1. y = o \/ Precedes(o, y)
      <4>1. z = o \/ Precedes(o, z)
        BY <1>5, <1>7
      <4>2. o \in all
        BY <1>4
      <4> QED BY <4>1, <4>2, <1>7, OneBeforeTheOther DEF Judgeable
    <3>2. y \in Z
      BY <3>1, <1>5
    <3>3. y = z \/ Precedes(y, z)
      BY <3>2, <1>6
    <3> QED BY <3>3, <1>7, OneBeforeTheOther DEF Judgeable
  <2>2. Unrenewed(all, z, now) = now \/ \E y \in all : Precedes(z, y) /\ Unrenewed(all, z, now) = y.t
    BY <1>2, <1>7, UnrenewedIs DEF Judgeable
  <2>3. \A y \in all : y.t \in Nat
    BY DEF Judgeable
  <2> QED BY <2>1, <2>2, <2>3
<1>10. Unrenewed(all, z, now) \in Nat /\ WindowExpiry(z.t, z.window) \in Nat
  BY <1>2, <1>7, UnrenewedIs, ExpiryAfter DEF Judgeable
<1>11. d < WindowExpiry(z.t, z.window)
  BY <1>8, <1>9, <1>10
<1> QED BY <1>7, <1>11 DEF Stands

\* and where windows are alike, a history without one meets it.
LEMMA KnownMeansMet ==
  ASSUME NEW all, NEW now, Judgeable(all, now), HistoryMonths > 0,
         \E x \in all : Stands(x, MonthsBefore(now, HistoryMonths)),
         \A y \in all : LET e == WindowExpiry(y.t, y.window) IN
           MonthsBefore(now, HistoryMonths) <= e /\ e < now => \E x \in all : Stands(x, e),
         \A x, y \in all : x.window = y.window
  PROVE  HistoryMet(all, now) = "met"
<1> DEFINE since == MonthsBefore(now, HistoryMonths)
           reach == {x \in all : x.t <= since}
<1>1. since \in Nat /\ now \in Nat /\ HistoryMonths \in Nat
  BY MonthsBack, MethodsAssumption DEF Judgeable
<1>2. PICK x0 \in all : x0.t <= since /\ since < WindowExpiry(x0.t, x0.window)
  BY DEF Stands
<1>3. PICK o \in reach : \A y \in reach : y = o \/ Precedes(y, o)
  <2>1. reach \subseteq all /\ reach # {}
    BY <1>2
  <2> HIDE DEF reach
  <2> QED BY <2>1, ThereIsALastInstant DEF Judgeable
<1>4. o \in all /\ o.t <= since /\ \A y \in all : y.t <= since => o = y \/ Precedes(y, o)
  BY <1>3
<1>5. Span(all, now) = {x \in all : x = o \/ Precedes(o, x)}
  BY <1>4, SpanIs
<1>6. ASSUME NEW y \in all
      PROVE  /\ y.t \in 1 .. LastDay /\ y.t \in Nat /\ y.window \in ClockWindows
             /\ WindowExpiry(y.t, y.window) \in Nat /\ y.t <= WindowExpiry(y.t, y.window)
             /\ y.window # NoWindow
             /\ Unrenewed(all, y, now) \in Nat /\ Unrenewed(all, y, now) <= now
  <2>1. y.t \in 1 .. LastDay /\ y.t \in Nat /\ y.window \in ClockWindows
    BY DEF Judgeable
  <2>2. Unrenewed(all, y, now) \in Nat /\ Unrenewed(all, y, now) <= now
    BY <1>1, UnrenewedIs DEF Judgeable
  <2> QED BY <2>1, <2>2, ExpiryAfter, WindowsAreOwed
<1>7. ASSUME NEW x \in all, NEW y \in all, x.t <= y.t
      PROVE  WindowExpiry(x.t, x.window) <= WindowExpiry(y.t, y.window)
  <2>1. x.window = y.window
    OBVIOUS
  <2> QED BY <2>1, <1>6, <1>7, ExpiryAscends
<1>8. ASSUME NEW y \in all, y \in Span(all, now)
      PROVE  ~(Unrenewed(all, y, now) > WindowExpiry(y.t, y.window))
  <2> SUFFICES ASSUME Unrenewed(all, y, now) > WindowExpiry(y.t, y.window) PROVE FALSE
    OBVIOUS
  <2>0. PICK e : e = WindowExpiry(y.t, y.window)
    OBVIOUS
  <2>1. e \in Nat /\ y.t <= e /\ e < Unrenewed(all, y, now) /\ e < now
    BY <2>0, <1>1, <1>6
  <2>2. since <= e
    <3>1. CASE y = o
      <4>1. x0 = o \/ Precedes(x0, o)
        BY <1>2, <1>4
      <4>2. x0.t <= o.t
        BY <4>1, <1>4, <1>6, OneBeforeTheOther DEF Judgeable
      <4>3. WindowExpiry(x0.t, x0.window) <= e
        BY <4>2, <3>1, <2>0, <1>7
      <4> QED BY <4>3, <1>1, <1>2, <1>6, <2>1
    <3>2. CASE y # o
      <4>1. Precedes(o, y)
        BY <3>2, <1>5, <1>8
      <4>2. ~Precedes(y, o)
        BY <4>1, <1>4, OneBeforeTheOther DEF Judgeable
      <4>3. ~(y.t <= since)
        BY <4>2, <3>2, <1>4
      <4> QED BY <4>3, <2>1, <1>1, <1>6
    <3> QED BY <3>1, <3>2
  <2>3. PICK x \in all : x.t <= e /\ e < WindowExpiry(x.t, x.window)
    BY <2>0, <2>1, <2>2 DEF Stands
  <2>4. CASE x = y
    BY <2>4, <2>3, <2>0, <2>1
  <2>5. CASE Precedes(x, y)
    <3>1. x.t <= y.t
      BY <2>5, OneBeforeTheOther DEF Judgeable
    <3>2. WindowExpiry(x.t, x.window) <= e
      BY <3>1, <2>0, <1>7
    <3> QED BY <3>2, <2>3, <2>1, <1>6
  <2>6. CASE Precedes(y, x)
    <3>1. Unrenewed(all, y, now) <= x.t
      BY <2>6, <1>1, UnrenewedIs DEF Judgeable
    <3> QED BY <3>1, <2>3, <2>1, <1>6
  <2> QED BY <2>4, <2>5, <2>6, OneBeforeTheOther DEF Judgeable
<1>9. Span(all, now) # {} /\ Lapses(all, now) = {}
  <2>1. o \in Span(all, now)
    BY <1>4, <1>5
  <2>2. \A y \in Span(all, now) : y \in all
    BY <1>5
  <2> QED BY <2>1, <2>2, <1>8 DEF Lapses
<1>10. ~\E x \in Span(all, now) : x.window = NoWindow
  BY <1>5, <1>6
<1> QED BY <1>1, <1>9, <1>10 DEF HistoryMet

\* "Persistently": history that meets the floor leaves no instant of the owed span
\* without a validation inside its window, whatever the months' lengths, the
\* windows, the recipes and the clients; and where windows are alike the walk
\* misses no such history either.
THEOREM HistoryAlwaysMeansKnown == ArtifactsSpec => []HistoryMeansKnown
<1>1. HistoryInv => HistoryMeansKnown
  <2> SUFFICES ASSUME HistoryInv, NEW k \in KSIs, NEW now \in From(Today),
                      MonthsBefore(now, HistoryMonths) > 0, HistoryMonths > 0,
                      \A x \in Instants(All, MethodsOf(All, k)) : x.window # NoWindow
               PROVE  LET since == MonthsBefore(now, HistoryMonths)
                          own == Instants(All, MethodsOf(All, k))
                          met == HistoryMet(own, now)
                          known(d) == \E x \in own : x.t <= d /\ d < WindowExpiry(x.t, x.window)
                          ends == {WindowExpiry(x.t, x.window) : x \in own}
                          always == \A d \in {since} \cup ends : d \in since..(now - 1) => known(d)
                      IN /\ met = "met" => always
                         /\ (always /\ \A x, y \in own : x.window = y.window) => met = "met"
    BY DEF HistoryMeansKnown
  <2> DEFINE since == MonthsBefore(now, HistoryMonths)
             own == Instants(All, MethodsOf(All, k))
             ends == {WindowExpiry(x.t, x.window) : x \in own}
             always == \A d \in {since} \cup ends :
                         d \in since..(now - 1) => \E x \in own : x.t <= d /\ d < WindowExpiry(x.t, x.window)
  <2>1. now \in 1 .. LastDay /\ now \in Nat /\ now >= Today
    <3>1. now \in Days /\ now >= Today
      BY DEF From
    <3> QED BY <3>1, MethodsAssumption, LastDayIs
  <2>2. since \in Nat /\ since < now
    BY <2>1, MonthsBack, MethodsAssumption
  <2>3. Judgeable(own, now)
    <3>1. Ordered(own)
      BY InstantsAreOrdered
    <3>2. ASSUME NEW x \in own PROVE x.t \in 1 .. LastDay /\ x.t <= now /\ x.window \in ClockWindows
      <4>1. /\ x.bundle \in DOMAIN log /\ x.t = log[x.bundle].at
            /\ x.window \in ClockWindows \cup {NoWindow}
        BY InstantsAre
      <4>2. Len(log) \in DOMAIN log /\ x.bundle <= Len(log) /\ log # <<>>
        BY <4>1, PositionsOrder
      <4>3. log[x.bundle].at <= log[Len(log)].at /\ log[x.bundle].at \in Days /\ log[Len(log)].at \in Days
        BY <4>1, <4>2, PositionsOrder DEF Shaped
      <4>4. Today = log[Len(log)].at
        BY <4>2 DEF Today
      <4>5. log[x.bundle].at \in 1 .. LastDay /\ log[Len(log)].at \in 1 .. LastDay
        BY <4>3, MethodsAssumption
      <4> QED BY <4>1, <4>3, <4>4, <4>5, <2>1, LastDayIs
    <3>3. LastDay \in Nat /\ Len(IdOrder) \in Nat /\ Len(log) \in Nat
      BY LastDayIs, MethodsAssumption, PositionsOrder
    <3> HIDE DEF own
    <3> QED BY <3>1, <3>2, <3>3, <2>1 DEF Judgeable
  <2> HIDE DEF own
  <2>4. ASSUME HistoryMet(own, now) = "met" PROVE always
    <3> SUFFICES ASSUME NEW d \in {since} \cup ends, d \in since..(now - 1)
                 PROVE  \E x \in own : x.t <= d /\ d < WindowExpiry(x.t, x.window)
      OBVIOUS
    <3>1. d \in Nat /\ MonthsBefore(now, HistoryMonths) <= d /\ d < now
      BY <2>1, <2>2
    <3>2. \E x \in own : Stands(x, d)
      BY <2>3, <2>4, <3>1, MetMeansKnown
    <3> QED BY <3>2 DEF Stands
  <2>5. ASSUME always, \A x, y \in own : x.window = y.window PROVE HistoryMet(own, now) = "met"
    <3>1. \E x \in own : Stands(x, MonthsBefore(now, HistoryMonths))
      <4>1. since \in since..(now - 1)
        BY <2>1, <2>2
      <4> QED BY <4>1, <2>5 DEF Stands
    <3>2. ASSUME NEW y \in own, MonthsBefore(now, HistoryMonths) <= WindowExpiry(y.t, y.window),
                 WindowExpiry(y.t, y.window) < now
          PROVE  \E x \in own : Stands(x, WindowExpiry(y.t, y.window))
      <4>1. WindowExpiry(y.t, y.window) \in ends
        OBVIOUS
      <4>2. WindowExpiry(y.t, y.window) \in Nat
        BY <2>3, ExpiryAfter DEF Judgeable
      <4>3. WindowExpiry(y.t, y.window) \in since..(now - 1)
        BY <4>2, <3>2, <2>1, <2>2
      <4> QED BY <4>1, <4>3, <2>5 DEF Stands
    <3> QED BY <3>1, <3>2, <2>3, <2>5, KnownMeansMet
  <2> QED BY <2>4, <2>5 DEF own
<1> QED BY <1>1, LedgerIsAHistory, PTL

-----------------------------------------------------------------------------
(* Bodies, their judgments, and the queue over them.                       *)

\* The statements about a slot.
LEMMA AboutIs ==
  ASSUME NEW kind, NEW k, NEW n
  PROVE  /\ About(All, kind, k, n) \subseteq DOMAIN log
         /\ \A i \in About(All, kind, k, n) : log[i].kind = kind /\ log[i].ksi = k /\ log[i].slot = n
  BY DEF About, All

\* A body that stands was appended.
LEMMA BodiesArePositions ==
  ASSUME HistoryInv, NEW k, NEW n, BodyOf(All, k, n) # 0
  PROVE  BodyOf(All, k, n) = LastOf(About(All, "artifact", k, n)) /\ BodyOf(All, k, n) \in DOMAIN log
<1>1. About(All, "artifact", k, n) # {} /\ BodyOf(All, k, n) = LastOf(About(All, "artifact", k, n))
  BY DEF BodyOf
<1> QED BY <1>1, AboutIs, LastIs

\* A judgment speaks of bytes (JudgmentFollowsBytes).
LEMMA BytesAreFollowed == HistoryInv => JudgmentFollowsBytes
<1> SUFFICES ASSUME HistoryInv, NEW k \in KSIs, NEW n \in Judged
             PROVE  LET standing == BodyOf(All, k, n)
                        calls == About(All, "judgment", k, n)
                        about == {i \in calls : log[i].body = log[standing].body}
                    IN /\ Present(All, k, n) => standing # 0
                       /\ (standing # 0 /\ about = {}) => Present(All, k, n)
                       /\ (standing # 0 /\ about # {} /\ about = calls) =>
                            (Present(All, k, n) <=> log[LastOf(about)].sufficient)
  BY DEF JudgmentFollowsBytes
<1> DEFINE standing == BodyOf(All, k, n)
           calls == About(All, "judgment", k, n)
           about == {i \in calls : log[i].body = log[standing].body}
<1>1. Present(All, k, n) <=> standing # 0 /\ ~(Reaches(All, k, n) /\ ~log[LastOf(calls)].sufficient)
  BY DEF Present
<1>2. Reaches(All, k, n) <=> calls # {} /\ standing # 0 /\ log[LastOf(calls)].body = log[standing].body
  BY DEF Reaches
<1>3. calls # {} => LastOf(calls) \in calls /\ log[LastOf(calls)].sufficient \in BOOLEAN
  <2> SUFFICES ASSUME calls # {} PROVE LastOf(calls) \in calls /\ log[LastOf(calls)].sufficient \in BOOLEAN
    OBVIOUS
  <2>1. LastOf(calls) \in calls
    BY AboutIs, LastIs
  <2>2. LastOf(calls) \in DOMAIN log /\ log[LastOf(calls)].kind = "judgment"
    BY <2>1, AboutIs
  <2>3. Shaped(log[LastOf(calls)])
    BY <2>2, PositionsOrder
  <2> QED BY <2>1, <2>2, <2>3 DEF Shaped
<1>4. ASSUME standing # 0, about = {} PROVE Present(All, k, n)
  <2>1. ~Reaches(All, k, n)
    BY <1>2, <1>3, <1>4
  <2> QED BY <2>1, <1>1, <1>4
<1>5. ASSUME standing # 0, about # {}, about = calls
      PROVE  Present(All, k, n) <=> log[LastOf(about)].sufficient
  <2>1. calls # {} /\ LastOf(calls) \in about
    BY <1>3, <1>5
  <2>2. Reaches(All, k, n)
    BY <2>1, <1>2, <1>5
  <2>3. LastOf(about) = LastOf(calls)
    BY <1>5
  <2> HIDE DEF standing, calls, about
  <2> QED BY <1>1, <1>3, <1>5, <2>1, <2>2, <2>3
<1> QED BY <1>1, <1>4, <1>5

\* What the queue offers is generated (NextMoveWorks).
LEMMA MovesWork == NextMoveWorks
<1> SUFFICES ASSUME NEW k \in KSIs, NEW n \in {2, 5}, NEW methods, methods = MethodsOf(All, k)
             PROVE  /\ NextMove(All, k, n, methods) = "generate" => Generates(All, n, methods)
                    /\ (~Present(All, k, n) /\ Word(All, k, n, methods) = "nothing yet") =>
                         ~Generates(All, n, methods) \/ (n = 2 /\ \A m \in Held(methods) : m.source = "attestation")
  BY DEF NextMoveWorks
<1>1. n \notin Judged /\ n \notin {1, 3} /\ n # 4
  BY DEF Judged
<1>2. Generates(All, n, methods) <=> Held(methods) # {}
  BY <1>1 DEF Generates
<1>3. ASSUME NextMove(All, k, n, methods) = "generate" PROVE Generates(All, n, methods)
  <2>1. Derivable(All, k, n, methods)
    BY <1>1, <1>3 DEF NextMove
  <2> QED BY <2>1, <1>2 DEF Derivable
<1>4. ASSUME ~Present(All, k, n), Word(All, k, n, methods) = "nothing yet"
      PROVE  ~Generates(All, n, methods) \/ (n = 2 /\ \A m \in Held(methods) : m.source = "attestation")
  <2>1. ~Derivable(All, k, n, methods) /\ BodyOf(All, k, n) = 0
    BY <1>1, <1>4 DEF Word, Present
  <2>2. ~\E m \in Held(methods) : n = 2 => m.source # "attestation"
    BY <2>1, <1>1 DEF Derivable
  <2> QED BY <2>2, <1>2
<1> QED BY <1>3, <1>4

\* The positions of a ledger are finitely many.
LEMMA PositionsAreFinite ==
  ASSUME HistoryInv, NEW S, S \subseteq DOMAIN log
  PROVE  IsFiniteSet(S) /\ Cardinality(S) \in Nat
<1>1. DOMAIN log = 1 .. Len(log) /\ Len(log) \in Nat
  BY PositionsOrder
<1>2. IsFiniteSet(1 .. Len(log))
  BY <1>1, FS_Interval
<1>3. IsFiniteSet(S)
  BY <1>1, <1>2, FS_Subset
<1> QED BY <1>3, FS_CardinalityType

\* A record that is not cited is not there, or not among the newest
\* (NoRecordMeansNone).
LEMMA RecordsAreCited == HistoryInv => NoRecordMeansNone
<1> SUFFICES ASSUME HistoryInv, NEW k \in KSIs, NEW methods, methods = MethodsOf(All, k),
                    ~Generates(All, 4, methods), NEW i \in Cited(Runs(All), All, methods)
             PROVE  Cardinality({j \in Runs(All) : Before(i, j)}) >= RunCap
  BY DEF NoRecordMeansNone
<1>1. Cited(Projected(All), All, methods) = {}
  BY DEF Generates
<1>2. PICK m \in Automated(methods) : i \in RecordOf(Runs(All), All, m)
  BY DEF Cited
<1>3. i \in Runs(All) /\ i \notin Projected(All)
  <2>1. i \in Runs(All)
    BY <1>2 DEF RecordOf
  <2>2. ASSUME i \in Projected(All) PROVE FALSE
    <3>1. i \in RecordOf(Projected(All), All, m)
      BY <1>2, <2>2 DEF RecordOf
    <3> QED BY <3>1, <1>1, <1>2 DEF Cited
  <2> QED BY <2>1, <2>2
<1>4. ~(Cardinality({j \in Runs(All) : Before(i, j)}) < RunCap)
  BY <1>3 DEF Projected
<1>5. Cardinality({j \in Runs(All) : Before(i, j)}) \in Nat
  <2>1. {j \in Runs(All) : Before(i, j)} \subseteq DOMAIN log
    BY DEF Runs, All
  <2> QED BY <2>1, PositionsAreFinite
<1> QED BY <1>4, <1>5, RunCapAssumption

\* What was just recorded stands (RecordedStandsAtOnce).
LEMMA LastStandsAtOnce == HistoryInv => RecordedStandsAtOnce
<1> SUFFICES ASSUME HistoryInv, log[Len(log)].kind = "artifact"
             PROVE  LET last == log[Len(log)] IN
                    /\ BodyOf(All, last.ksi, last.slot) = Len(log)
                    /\ "lost" \notin Problems(All, last.ksi, last.slot, Today)
                    /\ last.since = Today => "stale" \notin Problems(All, last.ksi, last.slot, Today)
  BY DEF RecordedStandsAtOnce
<1> DEFINE last == log[Len(log)]
           bodies == About(All, "artifact", last.ksi, last.slot)
           seen == About(All, "declaration", last.ksi, last.slot)
<1>0. Len(log) \in Nat /\ DOMAIN log = 1 .. Len(log)
  BY PositionsOrder
<1>1. CASE Len(log) = 0
  <2>1. All = {}
    BY <1>0, <1>1 DEF All
  <2>2. BodyOf(All, last.ksi, last.slot) = 0
    BY <2>1 DEF BodyOf, About
  <2>3. ~Absent(All, last.ksi, last.slot)
    BY <2>1 DEF Absent, LostSince, About
  <2>4. ~Present(All, last.ksi, last.slot)
    BY <2>2 DEF Present
  <2> QED BY <2>2, <2>3, <2>4, <1>1 DEF Problems
<1>2. CASE Len(log) # 0
  <2>0. Len(log) \in DOMAIN log /\ log # <<>> /\ \A j \in DOMAIN log : j <= Len(log)
    BY <1>0, <1>2
  <2>1. Len(log) \in bodies
    BY <2>0 DEF About, All
  <2>2. LastOf(bodies) = Len(log)
    <3>1. LastOf(bodies) \in bodies /\ Len(log) <= LastOf(bodies)
      BY <2>1, AboutIs, LastIs
    <3>2. LastOf(bodies) \in DOMAIN log
      BY <3>1, AboutIs
    <3> QED BY <3>1, <3>2, <2>0, <1>0
  <2>3. ~Absent(All, last.ksi, last.slot)
    <3> SUFFICES ASSUME seen # {} PROVE ~(log[LastOf(seen)].at > log[LastOf(bodies)].at)
      BY <2>1 DEF Absent, LostSince
    <3>1. LastOf(seen) \in DOMAIN log /\ LastOf(seen) <= Len(log)
      <4>1. seen \subseteq DOMAIN log
        BY AboutIs
      <4>2. LastOf(seen) \in seen
        BY <4>1, LastIs
      <4> QED BY <4>1, <4>2, <2>0
    <3>2. log[LastOf(seen)].at <= log[Len(log)].at /\ log[LastOf(seen)].at \in Nat /\ log[Len(log)].at \in Nat
      BY <3>1, <2>0, PositionsOrder
    <3> QED BY <3>2, <2>2
  <2>4. BodyOf(All, last.ksi, last.slot) = Len(log)
    BY <2>1, <2>2, <2>3 DEF BodyOf
  <2>5. ASSUME last.since = Today PROVE Fresh(All, last.ksi, last.slot, Today)
    <3>1. Today = last.at /\ Today \in 1 .. LastDay
      <4>1. Today = last.at /\ Shaped(last)
        BY <2>0, PositionsOrder DEF Today
      <4> QED BY <4>1, MethodsAssumption DEF Shaped
    <3>2. Windows["non-machine"] = NoWindow \/ Windows["non-machine"] \in ClockWindows
      BY MethodsAssumption DEF ClockWindows
    <3>3. Windows["non-machine"] \in ClockWindows => WindowThreshold(Today, Windows["non-machine"]) <= Today
      BY <3>1, ThresholdBefore
    <3>4. log[BodyOf(All, last.ksi, last.slot)].since = Today
      BY <2>4, <2>5
    <3> QED BY <3>2, <3>3, <3>4 DEF Fresh
  <2>6. "lost" \notin Problems(All, last.ksi, last.slot, Today)
    BY <2>3 DEF Problems
  <2>7. last.since = Today => "stale" \notin Problems(All, last.ksi, last.slot, Today)
    BY <2>5 DEF Problems
  <2> QED BY <2>4, <2>6, <2>7
<1> QED BY <1>1, <1>2

\* In every state a body counts as its bytes were judged, the queue offers what the
\* generators make, and a body that is recorded stands at once.
THEOREM BodiesAlwaysHold == ArtifactsSpec => []BodiesHold
<1>1. HistoryInv => BodiesHold
  BY BytesAreFollowed, MovesWork, RecordsAreCited, LastStandsAtOnce DEF BodiesHold
<1> QED BY <1>1, LedgerIsAHistory, PTL

-----------------------------------------------------------------------------
(* Chains, and the failures in them.                                       *)

\* The chain of a recipe, with what came after and before in it.
LEMMA ChainIs ==
  ASSUME HistoryInv, NEW r
  PROVE  /\ Chain(All, r) \subseteq DOMAIN log
         /\ \A i \in Chain(All, r) :
              /\ log[i].kind = "evidence" /\ log[i].recipe = r /\ i \in Evidence(All) /\ i \in Nat
              /\ Later(All, i) = {j \in Chain(All, r) : i < j}
              /\ Earlier(All, i) = {j \in Chain(All, r) : j < i}
<1>1. Chain(All, r) \subseteq DOMAIN log
  BY DEF Chain, Evidence, All
<1>2. ASSUME NEW i \in Chain(All, r)
      PROVE  /\ log[i].kind = "evidence" /\ log[i].recipe = r /\ i \in Evidence(All) /\ i \in Nat
             /\ Later(All, i) = {j \in Chain(All, r) : i < j}
             /\ Earlier(All, i) = {j \in Chain(All, r) : j < i}
  <2>1. log[i].kind = "evidence" /\ log[i].recipe = r /\ i \in Evidence(All)
    BY DEF Chain, Evidence
  <2>2. i \in Nat
    BY <1>1, PositionsOrder
  <2>3. \A j \in Chain(All, r) : (Before(i, j) <=> i < j) /\ (Before(j, i) <=> j < i)
    BY <1>1, PositionsOrder
  <2>4. Later(All, i) = {j \in Chain(All, r) : Before(i, j)} /\ Earlier(All, i) = {j \in Chain(All, r) : Before(j, i)}
    BY <2>1 DEF Later, Earlier
  <2> QED BY <2>1, <2>2, <2>3, <2>4
<1> QED BY <1>1, <1>2

\* What lives is the newest of its chain.
LEMMA LiveIsNewest ==
  ASSUME HistoryInv, NEW r, Live(All, r) # {}
  PROVE  /\ LastOf(Live(All, r)) \in Chain(All, r) /\ \A j \in Chain(All, r) : j <= LastOf(Live(All, r))
         /\ LastOf(Live(All, r)) = LastOf(Chain(All, r))
<1>1. Live(All, r) \subseteq Chain(All, r) /\ Chain(All, r) \subseteq DOMAIN log
  BY ChainIs DEF Live
<1>2. LastOf(Live(All, r)) \in Live(All, r)
  BY <1>1, LastIs
<1> DEFINE i == LastOf(Live(All, r))
<1>3. i \in Chain(All, r) /\ Status(All, i).state = "live"
  BY <1>1, <1>2 DEF Live
<1>4. Later(All, i) = {}
  <2> SUFFICES ASSUME Later(All, i) # {} PROVE FALSE
    OBVIOUS
  <2>1. Status(All, i).state = "dead"
    BY DEF Status
  <2> QED BY <2>1, <1>3
<1> HIDE DEF i
<1>5. ASSUME NEW j \in Chain(All, r) PROVE j <= i
  <2>1. i \in Nat /\ j \in Nat /\ ~(i < j)
    BY <1>3, <1>4, ChainIs
  <2> QED BY <2>1
<1>6. LastOf(Chain(All, r)) \in Chain(All, r) /\ \A j \in Chain(All, r) : j <= LastOf(Chain(All, r))
  BY <1>1, <1>3, LastIs
<1>7. i = LastOf(Chain(All, r))
  <2>1. i <= LastOf(Chain(All, r)) /\ LastOf(Chain(All, r)) <= i
    BY <1>3, <1>5, <1>6
  <2>2. i \in Nat /\ LastOf(Chain(All, r)) \in Nat
    BY <1>3, <1>6, ChainIs
  <2> QED BY <2>1, <2>2
<1> QED BY <1>3, <1>5, <1>7 DEF i

\* A scan comes to a verdict, and a client may not.
LEMMA VerdictsAre ==
  ASSUME HistoryInv, NEW r, NEW i \in Chain(All, r)
  PROVE  /\ log[i].verdict \in {"evidenced", "violated", "unevidenced"}
         /\ r \in Catalog => log[i].verdict # "unevidenced"
<1>1. i \in DOMAIN log /\ log[i].kind = "evidence" /\ log[i].recipe = r
  BY ChainIs
<1>2. Shaped(log[i])
  BY <1>1, PositionsOrder
<1> QED BY <1>1, <1>2 DEF Shaped, Upstream

\* The row of a recipe is its newest bundle's, or holds none.
LEMMA RowIs ==
  ASSUME HistoryInv, NEW r
  PROVE  \/ /\ Live(All, r) # {} /\ Register(All, r).bundle = LastOf(Chain(All, r))
            /\ Register(All, r).state = log[LastOf(Chain(All, r))].verdict
            /\ LastOf(Chain(All, r)) \in Chain(All, r) /\ LastOf(Chain(All, r)) # 0
         \/ /\ Live(All, r) = {} /\ Register(All, r).bundle = 0
            /\ Register(All, r).state \in {"notApplicable", "unevidenced"}
<1>1. CASE Live(All, r) # {}
  <2>1. LastOf(Live(All, r)) = LastOf(Chain(All, r)) /\ LastOf(Chain(All, r)) \in Chain(All, r)
    BY <1>1, LiveIsNewest
  <2>2. LastOf(Chain(All, r)) \in 1 .. Len(log) /\ Len(log) \in Nat
    BY <2>1, ChainIs, PositionsOrder
  <2>3. LastOf(Chain(All, r)) # 0
    BY <2>2
  <2> QED BY <1>1, <2>1, <2>3 DEF Register
<1>2. CASE Live(All, r) = {}
  BY <1>2 DEF Register
<1> QED BY <1>1, <1>2

\* A chain that stands violated has an episode that is open,
LEMMA FailureHasEpisode ==
  ASSUME HistoryInv, NEW r, Chain(All, r) # {}, log[LastOf(Chain(All, r))].verdict = "violated"
  PROVE  \E i \in Chain(All, r) : Opens(All, i) /\ Resolves(All, i) = {}
<1> DEFINE C == Chain(All, r)
           B == {j \in C : log[j].verdict # "violated"}
<1>0. C \subseteq DOMAIN log /\ C \subseteq Nat /\ LastOf(C) \in C /\ \A j \in C : j <= LastOf(C)
  BY ChainIs, LastIs
<1>1. ASSUME NEW i \in C, \A j \in C : i <= j => log[j].verdict = "violated",
             Earlier(All, i) # {} => log[LastOf(Earlier(All, i))].verdict # "violated"
      PROVE  Opens(All, i) /\ Resolves(All, i) = {}
  <2>1. \A j \in Later(All, i) : log[j].verdict = "violated"
    BY <1>0, <1>1, ChainIs
  <2>2. log[i].verdict = "violated"
    BY <1>0, <1>1
  <2> QED BY <2>1, <2>2, <1>1 DEF Opens, Resolves
<1>2. CASE B = {}
  <2>1. PICK i \in C : \A j \in C : i <= j
    BY <1>0, LeastOf
  <2>2. Earlier(All, i) = {}
    BY <2>1, <1>0, ChainIs
  <2>3. \A j \in C : log[j].verdict = "violated"
    BY <1>2
  <2> QED BY <2>1, <2>2, <2>3, <1>1
<1>3. CASE B # {}
  <2>1. B \subseteq DOMAIN log /\ B \subseteq C
    BY <1>0
  <2>2. PICK b \in B : \A j \in B : j <= b
    <3>1. LastOf(B) \in B /\ \A j \in B : j <= LastOf(B)
      <4> HIDE DEF B
      <4> QED BY <2>1, <1>3, LastIs
    <3> QED BY <3>1
  <2> DEFINE A == {j \in C : b < j}
  <2>3. LastOf(C) \in A
    <3>1. b # LastOf(C)
      BY <2>2
    <3>2. b <= LastOf(C) /\ b \in Nat /\ LastOf(C) \in Nat
      BY <1>0, <2>2
    <3> QED BY <3>1, <3>2, <1>0
  <2>4. PICK i \in A : \A j \in A : i <= j
    <3>1. A \subseteq Nat /\ A # {}
      BY <1>0, <2>3
    <3> HIDE DEF A
    <3> QED BY <3>1, LeastOf
  <2>5. i \in C /\ b < i /\ b \in C /\ i \in Nat /\ b \in Nat
    BY <2>2, <2>4, <1>0
  <2>6. ASSUME NEW j \in C, i <= j PROVE log[j].verdict = "violated"
    <3>1. j \in Nat /\ b < j
      BY <2>5, <2>6, <1>0
    <3>2. j \notin B
      BY <2>2, <2>5, <3>1
    <3> QED BY <3>2
  <2>7. LastOf(Earlier(All, i)) = b
    <3>1. Earlier(All, i) = {j \in C : j < i}
      BY <2>5, ChainIs
    <3>2. b \in Earlier(All, i) /\ Earlier(All, i) \subseteq DOMAIN log
      BY <3>1, <2>5, <1>0
    <3>3. LastOf(Earlier(All, i)) \in Earlier(All, i) /\ b <= LastOf(Earlier(All, i))
      BY <3>2, LastIs
    <3>4. PICK e : e = LastOf(Earlier(All, i))
      OBVIOUS
    <3>5. e \in C /\ e < i /\ b <= e /\ e \in Nat
      BY <3>1, <3>3, <3>4, <1>0
    <3>6. e \notin A
      BY <3>5, <2>4, <2>5
    <3>7. e = b
      BY <3>5, <3>6, <2>5
    <3> QED BY <3>4, <3>7
  <2>8. log[b].verdict # "violated"
    BY <2>2
  <2>9. Opens(All, i) /\ Resolves(All, i) = {}
    BY <1>1, <2>5, <2>6, <2>7, <2>8
  <2> QED BY <2>5, <2>9
<1> QED BY <1>2, <1>3

\* and while it is open nothing passed.
LEMMA OpenMeansNotPassed ==
  ASSUME HistoryInv, NEW r, NEW i \in Chain(All, r), Opens(All, i), Resolves(All, i) = {},
         NEW j \in Chain(All, r), i <= j
  PROVE  log[j].verdict \in {"violated", "unevidenced"}
<1>1. i \in Nat /\ j \in Nat /\ Later(All, i) = {x \in Chain(All, r) : i < x}
  BY ChainIs
<1>2. CASE i = j
  BY <1>2 DEF Opens
<1>3. CASE i # j
  <2>1. j \in Later(All, i)
    BY <1>1, <1>3
  <2>2. log[j].verdict # "evidenced"
    BY <2>1 DEF Resolves
  <2> QED BY <2>2, VerdictsAre
<1> QED BY <1>2, <1>3

\* The open episodes of a KSI.
LEMMA EpisodesAre ==
  ASSUME HistoryInv, NEW k, NEW i
  PROVE  i \in OpenEpisodes(All, k) <=>
           /\ i \in Chain(All, log[i].recipe) /\ Opens(All, i) /\ Resolves(All, i) = {}
           /\ IF log[i].recipe \in Catalog THEN k \in KsisOf[log[i].recipe] ELSE log[i].ksi = k
  BY DEF OpenEpisodes, Chain

\* What a client submitted under a recipe for a KSI, and the last of it.
LEMMA SubmittedIs ==
  ASSUME HistoryInv, NEW u, NEW k
  PROVE  /\ Submitted(All, u, k) \subseteq Chain(All, u) /\ Submitted(All, u, k) \subseteq DOMAIN log
         /\ \A i \in Submitted(All, u, k) : log[i].ksi = k
         /\ Submitted(All, u, k) # {} =>
              /\ LastOf(Submitted(All, u, k)) \in Submitted(All, u, k)
              /\ \A j \in Submitted(All, u, k) : j <= LastOf(Submitted(All, u, k))
<1>1. Submitted(All, u, k) \subseteq Chain(All, u) /\ \A i \in Submitted(All, u, k) : log[i].ksi = k
  BY DEF Submitted
<1>2. Submitted(All, u, k) \subseteq DOMAIN log
  BY <1>1, ChainIs
<1> QED BY <1>1, <1>2, LastIs

\* A client's newest result lives.
LEMMA ClientsLive ==
  ASSUME HistoryInv, NEW u \in Upstream, Chain(All, u) # {}
  PROVE  Live(All, u) # {}
<1>1. Chain(All, u) \subseteq DOMAIN log /\ LastOf(Chain(All, u)) \in Chain(All, u)
  BY ChainIs, LastIs
<1> DEFINE i == LastOf(Chain(All, u))
<1>2. \A j \in Chain(All, u) : j <= i /\ j \in Nat
  BY <1>1, ChainIs, LastIs
<1>3. Later(All, i) = {}
  <2>1. Later(All, i) = {j \in Chain(All, u) : i < j}
    BY <1>1, ChainIs
  <2> QED BY <2>1, <1>1, <1>2
<1>4. Changed(All, i) = {}
  <2>1. log[i].recipe = u /\ Anchors[u] = <<>>
    BY <1>1, ChainIs, MethodsAssumption
  <2>2. DOMAIN Anchors[u] = {}
    BY <2>1
  <2> QED BY <2>1, <2>2 DEF Changed
<1>5. Status(All, i).state = "live"
  BY <1>3, <1>4 DEF Status
<1> QED BY <1>1, <1>5 DEF Live

\* The image of a finite set is finite.
LEMMA ImageIsFinite ==
  ASSUME NEW S, IsFiniteSet(S), NEW f, DOMAIN f = S
  PROVE  IsFiniteSet({f[x] : x \in S})
<1> DEFINE T == {f[x] : x \in S}
           h == [x \in S |-> f[x]]
<1>1. h \in Surjection(S, T)
  BY DEF Surjection
<1> QED BY <1>1, FS_Surjection

\* A KSI has finitely many methods.
LEMMA MethodsAreFinite ==
  ASSUME NEW S, NEW k
  PROVE  IsFiniteSet(MethodsOf(S, k))
<1> DEFINE R == {q \in Catalog : k \in KsisOf[q]}
           U == {v \in Upstream : Submitted(S, v, k) # {}}
           C == {d \in Claims : Attested(S, d, k) # {} /\ log[LastOf(Attested(S, d, k))].attests}
           f == [r \in R |-> PipelineMethod(r, Register(S, r))]
           g == [u \in U |-> IngestedMethod(S, u, k)]
           h == [c \in C |-> AttestationMethod(S, c, k)]
<1>1. IsFiniteSet(R) /\ IsFiniteSet(U) /\ IsFiniteSet(C)
  <2>1. R \subseteq Recipe /\ U \subseteq Recipe /\ C \subseteq Claims
    BY MethodsAssumption DEF Upstream
  <2> HIDE DEF R, U, C
  <2> QED BY <2>1, MethodsAssumption, FS_Subset
<1>2. MethodsOf(S, k) = {f[r] : r \in R} \cup {g[u] : u \in U} \cup {h[c] : c \in C}
  BY DEF MethodsOf
<1>3. DOMAIN f = R /\ DOMAIN g = U /\ DOMAIN h = C
  OBVIOUS
<1> HIDE DEF R, U, C, f, g, h
<1>4. IsFiniteSet({f[r] : r \in R}) /\ IsFiniteSet({g[u] : u \in U}) /\ IsFiniteSet({h[c] : c \in C})
  BY <1>1, <1>3, ImageIsFinite
<1>5. \A a, b, c : IsFiniteSet(a) /\ IsFiniteSet(b) /\ IsFiniteSet(c) => IsFiniteSet(a \cup b \cup c)
  <2> SUFFICES ASSUME NEW a, NEW b, NEW c, IsFiniteSet(a), IsFiniteSet(b), IsFiniteSet(c)
               PROVE  IsFiniteSet(a \cup b \cup c)
    OBVIOUS
  <2>1. IsFiniteSet(a \cup b)
    BY FS_Union
  <2> QED BY <2>1, FS_Union
<1> QED BY <1>2, <1>4, <1>5

\* Of a finite set, its number and whether there is anything in it.
LEMMA NumberOf ==
  ASSUME NEW S, IsFiniteSet(S)
  PROVE  Cardinality(S) \in Nat /\ (Cardinality(S) = 0 <=> S = {}) /\ (Cardinality(S) > 0 <=> S # {})
<1>1. Cardinality(S) \in Nat /\ (Cardinality(S) = 0 <=> S = {})
  BY FS_CardinalityType, FS_EmptySet
<1> QED BY <1>1

\* What a method that holds something says of it.
LEMMA StatesAre ==
  ASSUME HistoryInv, NEW k, NEW m \in MethodsOf(All, k)
  PROVE  /\ m.source \in {"pipeline", "aws-ingested", "attestation"}
         /\ m.source = "pipeline" =>
              /\ m.ref \in Catalog /\ k \in KsisOf[m.ref] /\ m.automated
              /\ m.bundle = Register(All, m.ref).bundle /\ m.state = Register(All, m.ref).state
              /\ m.bundle # 0 => m.state \in {"evidenced", "violated"}
              /\ m.bundle = 0 => m.state \in {"notApplicable", "unevidenced"}
         /\ m.source = "aws-ingested" =>
              /\ m.ref \in Upstream /\ Submitted(All, m.ref, k) # {}
              /\ m.bundle = LastOf(Submitted(All, m.ref, k)) /\ m.state = log[m.bundle].verdict
              /\ m.state \in {"evidenced", "violated", "unevidenced"}
         /\ m.source = "attestation" => m.state = "evidenced"
<1>1. CASE m.ref \in Catalog /\ k \in KsisOf[m.ref] /\ m = PipelineMethod(m.ref, Register(All, m.ref))
  <2>1. /\ m.source = "pipeline" /\ m.automated = TRUE
        /\ m.bundle = Register(All, m.ref).bundle /\ m.state = Register(All, m.ref).state
    BY <1>1 DEF PipelineMethod
  <2>2. /\ m.bundle # 0 => m.state \in {"evidenced", "violated"}
        /\ m.bundle = 0 => m.state \in {"notApplicable", "unevidenced"}
    BY <1>1, <2>1, RowIs, VerdictsAre
  <2> QED BY <1>1, <2>1, <2>2
<1>2. CASE m.ref \in Upstream /\ Submitted(All, m.ref, k) # {} /\ m = IngestedMethod(All, m.ref, k)
  <2>1. /\ m.source = "aws-ingested" /\ m.bundle = LastOf(Submitted(All, m.ref, k))
        /\ m.state = log[LastOf(Submitted(All, m.ref, k))].verdict
    BY <1>2 DEF IngestedMethod
  <2>2. LastOf(Submitted(All, m.ref, k)) \in Chain(All, m.ref)
    BY <1>2, SubmittedIs
  <2>3. m.state \in {"evidenced", "violated", "unevidenced"}
    BY <2>1, <2>2, VerdictsAre
  <2> QED BY <1>2, <2>1, <2>3
<1>3. CASE m.source = "attestation" /\ m = AttestationMethod(All, m.ref, k)
  BY <1>3 DEF AttestationMethod
<1> QED BY <1>1, <1>2, <1>3, MethodsAre

\* A method of a recipe with an open episode did not pass.
LEMMA OpenMeansMethodNotPassed ==
  ASSUME HistoryInv, NEW k, NEW i \in OpenEpisodes(All, k), NEW m \in MethodsOf(All, k),
         m.source # "attestation", m.ref = log[i].recipe
  PROVE  m.state # "evidenced"
<1>1. /\ i \in Chain(All, m.ref) /\ Opens(All, i) /\ Resolves(All, i) = {}
      /\ IF m.ref \in Catalog THEN k \in KsisOf[m.ref] ELSE log[i].ksi = k
  BY EpisodesAre
<1>2. CASE m.source = "pipeline"
  <2>1. m.state = Register(All, m.ref).state
    BY <1>2, StatesAre
  <2>2. CASE Live(All, m.ref) # {}
    <3>1. /\ Register(All, m.ref).state = log[LastOf(Chain(All, m.ref))].verdict
          /\ LastOf(Chain(All, m.ref)) \in Chain(All, m.ref)
      BY <2>2, RowIs
    <3>2. i <= LastOf(Chain(All, m.ref))
      BY <1>1, ChainIs, LastIs
    <3> QED BY <2>1, <3>1, <3>2, <1>1, OpenMeansNotPassed
  <2>3. CASE Live(All, m.ref) = {}
    BY <2>1, <2>3, RowIs
  <2> QED BY <2>2, <2>3
<1>3. CASE m.source = "aws-ingested"
  <2>1. m.ref \in Upstream /\ m.state = log[LastOf(Submitted(All, m.ref, k))].verdict
    BY <1>3, StatesAre
  <2>2. i \in Submitted(All, m.ref, k)
    BY <1>1, <2>1 DEF Submitted, Upstream
  <2>3. LastOf(Submitted(All, m.ref, k)) \in Chain(All, m.ref) /\ i <= LastOf(Submitted(All, m.ref, k))
    BY <2>2, SubmittedIs
  <2> QED BY <2>1, <2>3, <1>1, OpenMeansNotPassed
<1> QED BY <1>2, <1>3, StatesAre

\* A KSI's failures are rolled up and are episodes, and an episode is a method that
\* did not pass.
LEMMA FailuresAreOwed == HistoryInv => ViolationIsOwed
<1> SUFFICES ASSUME HistoryInv, NEW k \in KSIs, ~Shared(k)
             PROVE  /\ (\E m \in MethodsOf(All, k) : m.state = "violated") =>
                         Rollup(All, k) = "violated" /\ OpenEpisodes(All, k) # {}
                    /\ \A i \in OpenEpisodes(All, k) :
                         Live(All, log[i].recipe) # {} =>
                           \E m \in MethodsOf(All, k) : m.ref = log[i].recipe /\ m.state \in {"violated", "unevidenced"}
  BY DEF ViolationIsOwed
<1>1. ASSUME NEW r \in Recipe, Live(All, r) # {}, log[LastOf(Chain(All, r))].verdict = "violated",
             IF r \in Catalog THEN k \in KsisOf[r] ELSE \A i \in Chain(All, r) : log[i].ksi = k
      PROVE  Rollup(All, k) = "violated" /\ OpenEpisodes(All, k) # {}
  <2> DEFINE last == LastOf(Chain(All, r))
             rows == {[recipe |-> q, row |-> Register(All, q)] : q \in Recipe}
             states == {x.row.state : x \in {y \in rows : k \in RowKsis(y.recipe, y.row)}}
             mine == [recipe |-> r, row |-> Register(All, r)]
  <2>1. Register(All, r).bundle = last /\ last # 0 /\ Register(All, r).state = "violated" /\ last \in Chain(All, r)
    BY <1>1, RowIs
  <2>2. k \in RowKsis(r, Register(All, r))
    BY <1>1, <2>1 DEF RowKsis
  <2>3. "violated" \in states
    <3>1. mine \in rows /\ mine.recipe = r /\ mine.row = Register(All, r)
      OBVIOUS
    <3>2. mine \in {y \in rows : k \in RowKsis(y.recipe, y.row)}
      BY <3>1, <2>2
    <3> QED BY <3>1, <3>2, <2>1
  <2>4. Rollup(All, k) = "violated"
    BY <2>3 DEF Rollup, Worst
  <2>5. PICK i \in Chain(All, r) : Opens(All, i) /\ Resolves(All, i) = {}
    BY <1>1, <2>1, FailureHasEpisode
  <2>6. i \in OpenEpisodes(All, k)
    BY <1>1, <2>5, ChainIs, EpisodesAre
  <2> QED BY <2>4, <2>6
<1>2. ASSUME NEW u \in Upstream, Submitted(All, u, k) # {}
      PROVE  Chain(All, u) = Submitted(All, u, k)
  BY <1>2 DEF Shared
<1>3. ASSUME NEW m \in MethodsOf(All, k), m.state = "violated"
      PROVE  Rollup(All, k) = "violated" /\ OpenEpisodes(All, k) # {}
  <2>1. CASE m.source = "pipeline"
    <3>1. /\ m.ref \in Catalog /\ k \in KsisOf[m.ref] /\ m.ref \in Recipe
          /\ Register(All, m.ref).state = "violated"
      BY <1>3, <2>1, StatesAre, MethodsAssumption
    <3>2. Live(All, m.ref) # {} /\ log[LastOf(Chain(All, m.ref))].verdict = "violated"
      BY <3>1, RowIs
    <3> QED BY <3>1, <3>2, <1>1
  <2>2. CASE m.source = "aws-ingested"
    <3>1. /\ m.ref \in Upstream /\ m.ref \in Recipe /\ m.ref \notin Catalog /\ Submitted(All, m.ref, k) # {}
          /\ log[LastOf(Submitted(All, m.ref, k))].verdict = "violated"
      BY <1>3, <2>2, StatesAre DEF Upstream
    <3>2. Chain(All, m.ref) = Submitted(All, m.ref, k) /\ Live(All, m.ref) # {}
      BY <3>1, <1>2, ClientsLive
    <3>3. \A i \in Chain(All, m.ref) : log[i].ksi = k
      BY <3>2, SubmittedIs
    <3> QED BY <3>1, <3>2, <3>3, <1>1
  <2>3. CASE m.source = "attestation"
    BY <1>3, <2>3, StatesAre
  <2> QED BY <2>1, <2>2, <2>3, StatesAre
<1>4. ASSUME NEW i \in OpenEpisodes(All, k), Live(All, log[i].recipe) # {}
      PROVE  \E m \in MethodsOf(All, k) : m.ref = log[i].recipe /\ m.state \in {"violated", "unevidenced"}
  <2> PICK r : r = log[i].recipe
    OBVIOUS
  <2>1. /\ i \in Chain(All, r) /\ Opens(All, i) /\ Resolves(All, i) = {}
        /\ IF r \in Catalog THEN k \in KsisOf[r] ELSE log[i].ksi = k
    BY EpisodesAre
  <2>2. CASE r \in Catalog
    <3> DEFINE m == PipelineMethod(r, Register(All, r))
    <3>1. m \in MethodsOf(All, k)
      BY <2>1, <2>2 DEF MethodsOf
    <3>2. m.ref = r /\ m.source = "pipeline" /\ m.state = Register(All, r).state
      BY DEF PipelineMethod
    <3>3. Register(All, r).state \in {"evidenced", "violated"}
      BY <1>4, <2>2, RowIs, VerdictsAre
    <3>4. m.state # "evidenced"
      BY <3>1, <3>2, <1>4, OpenMeansMethodNotPassed
    <3> QED BY <3>1, <3>2, <3>3, <3>4
  <2>3. CASE r \notin Catalog
    <3>0. r \in Upstream
      <4>1. log[i].kind = "evidence" /\ i \in DOMAIN log
        BY <2>1, ChainIs
      <4> QED BY <4>1, <2>3, PositionsOrder DEF Shaped
    <3> DEFINE m == IngestedMethod(All, r, k)
    <3>1. Submitted(All, r, k) # {}
      BY <2>1, <2>3 DEF Submitted
    <3>2. m \in MethodsOf(All, k)
      BY <3>0, <3>1 DEF MethodsOf
    <3>3. m.ref = r /\ m.source = "aws-ingested"
      BY DEF IngestedMethod
    <3>4. m.state # "evidenced"
      BY <3>2, <3>3, <1>4, OpenMeansMethodNotPassed
    <3>5. m.state \in {"evidenced", "violated", "unevidenced"}
      BY <3>2, <3>3, StatesAre
    <3> QED BY <3>2, <3>3, <3>4, <3>5
  <2> QED BY <2>2, <2>3
<1> QED BY <1>3, <1>4

\* A row that is called Implemented.
LEMMA ImplementedMeans ==
  ASSUME NEW row, KsiStatus(row) = "Implemented"
  PROVE  /\ Passing(row) # {} /\ WithEvidence(row) = InScopeMethods(row) /\ row.stale = {}
         /\ \A m \in InScopeMethods(row) : m.state # "violated"
         /\ row.historyMet # "unmet" /\ row.present = Slots
         /\ MethodFloor > 0 => ~(Cardinality(Automated(row.methods)) < MethodFloor)
         /\ MethodFloor = 0 => \E m \in WithEvidence(row) : m.automated
  BY DEF KsiStatus, Short

\* A KSI owes five artifacts.
LEMMA SlotsAreFive == IsFiniteSet(Slots) /\ Cardinality(Slots) = 5
<1>1. IsFiniteSet(1..5) /\ Cardinality(1..5) = IF 1 > 5 THEN 0 ELSE 5 - 1 + 1
  BY ONLY FS_Interval, 1 \in Int, 5 \in Int
<1> QED BY <1>1 DEF Slots

\* Implemented is earned on every count (NeverOverstates).
LEMMA StatusIsEarned == HistoryInv => NeverOverstates
<1> SUFFICES ASSUME HistoryInv, NEW now \in From(Today), NEW k \in DOMAIN Rows(All, now),
                    SdrRow(All, k, Rows(All, now)[k]).status = "Implemented"
             PROVE  LET rows == Rows(All, now)
                        row == SdrRow(All, k, rows[k])
                    IN /\ k \in SdrRows(rows) /\ WorstGap(rows, k) \in {"none", "G6"}
                       /\ row.implementation \cup row.validation = Slots
                       /\ \/ \E m \in row.evidence : m.automated
                          \/ MethodFloor > 0 /\ \A m \in Automated(row.tests) : m.state = "notApplicable"
                       /\ \A m \in row.tests :
                            m.state = "notApplicable" \/
                            (m \in row.evidence /\ (m.state = "evidenced" \/ (m.source = "aws-ingested" /\ m.state = "unevidenced")))
                       /\ \A i \in OpenEpisodes(All, k) :
                            \A m \in row.tests : (m.source # "attestation" /\ m.ref = log[i].recipe) =>
                              m.state \in {"notApplicable", "unevidenced"}
  BY DEF NeverOverstates
<1> DEFINE rows == Rows(All, now)
           reg == rows[k]
           row == SdrRow(All, k, reg)
           ms == MethodsOf(All, k)
<1>1. k \in KSIs /\ Scanned(rows)
  BY DEF Rows, Scanned
<1>2. reg = MethodRow(All, k, now)
  BY DEF Rows
<1>3. /\ reg.methods = ms /\ reg.stale = Stale(ms, now) /\ reg.present = ArtifactsPresent(All, k)
      /\ reg.historyMet = HistoryMet(Instants(All, ms), now)
  BY <1>2 DEF MethodRow, RowOf
<1>4. /\ row.status = KsiStatus(reg) /\ row.tests = ms /\ row.evidence = Held(ms)
      /\ row.implementation = {n \in {1, 2} : BodyOf(All, k, n) # 0}
      /\ row.validation = {n \in {3, 4, 5} : BodyOf(All, k, n) # 0}
  BY <1>3 DEF SdrRow
<1> HIDE DEF rows, reg, row, ms
<1>5. KsiStatus(reg) = "Implemented"
  BY <1>4 DEF row, reg, rows
<1>6. /\ Passing(reg) # {} /\ WithEvidence(reg) = InScopeMethods(reg) /\ reg.stale = {}
      /\ \A m \in InScopeMethods(reg) : m.state # "violated"
      /\ reg.historyMet # "unmet" /\ reg.present = Slots
      /\ MethodFloor > 0 => ~(Cardinality(Automated(reg.methods)) < MethodFloor)
      /\ MethodFloor = 0 => \E m \in WithEvidence(reg) : m.automated
  BY <1>5, ImplementedMeans
<1>7. /\ InScopeMethods(reg) = {m \in ms : m.state # "notApplicable"}
      /\ WithEvidence(reg) = {m \in InScopeMethods(reg) : m.bundle # 0} /\ WithEvidence(reg) \subseteq Held(ms)
      /\ Held(ms) = {m \in ms : m.bundle # 0} /\ Passing(reg) \subseteq WithEvidence(reg)
  BY <1>3 DEF InScopeMethods, WithEvidence, Held, Passing
<1>8. IsFiniteSet(ms) /\ IsFiniteSet(Automated(ms)) /\ Automated(ms) \subseteq ms
  <2>1. IsFiniteSet(ms) /\ Automated(ms) \subseteq ms
    BY MethodsAreFinite DEF ms, Automated
  <2> QED BY <2>1, FS_Subset
<1>9. MethodFloor \in Nat
  BY MethodsAssumption
<1>10. k \in SdrRows(rows)
  <2>1. Held(reg.methods) # {}
    BY <1>3, <1>6, <1>7
  <2> QED BY <2>1, <1>1 DEF SdrRows, rows, reg
<1>11. WorstGap(rows, k) \in {"none", "G6"}
  <2>1. Total(rows, k) # 0
    <3>1. ms # {}
      BY <1>6, <1>7
    <3>2. Total(rows, k) = Cardinality(ms)
      BY <1>1, <1>3 DEF Total, reg
    <3> QED BY <3>1, <3>2, <1>8, NumberOf
  <2>2. ~(Counted(rows, k) < MethodFloor)
    <3>1. Counted(rows, k) = Cardinality(Automated(ms)) /\ Cardinality(Automated(ms)) \in Nat
      BY <1>1, <1>3, <1>8, NumberOf DEF Counted, reg
    <3> QED BY <3>1, <1>3, <1>6, <1>9
  <2>3. ~(StaleCount(rows, k) > 0)
    <3>1. StaleCount(rows, k) = Cardinality({})
      BY <1>1, <1>6 DEF StaleCount, reg
    <3> QED BY <3>1, FS_EmptySet
  <2>4. History(rows, k) # "unmet"
    BY <1>1, <1>6 DEF History, reg
  <2>5. ~(Cardinality(rows[k].present) < 5)
    BY <1>6, SlotsAreFive DEF reg
  <2> QED BY <2>1, <2>2, <2>3, <2>4, <2>5 DEF WorstGap
<1>12. row.implementation \cup row.validation = Slots
  <2>1. \A n \in Slots : BodyOf(All, k, n) # 0
    BY <1>3, <1>6 DEF ArtifactsPresent, Present
  <2>2. Slots = {1, 2} \cup {3, 4, 5}
    BY DEF Slots
  <2> QED BY <1>4, <2>1, <2>2
<1>13. (\E m \in row.evidence : m.automated) \/ (MethodFloor > 0 /\ \A m \in Automated(row.tests) : m.state = "notApplicable")
  <2>1. CASE MethodFloor = 0
    BY <2>1, <1>4, <1>6, <1>7
  <2>2. CASE MethodFloor > 0
    <3> SUFFICES ASSUME NEW m \in Automated(ms), m.state # "notApplicable"
                 PROVE  \E x \in row.evidence : x.automated
      BY <2>2, <1>4
    <3>1. m \in ms /\ m.automated
      BY DEF Automated
    <3>2. m \in WithEvidence(reg)
      BY <3>1, <1>6, <1>7
    <3> QED BY <3>1, <3>2, <1>4, <1>7
  <2> QED BY <2>1, <2>2, <1>9
<1>14. ASSUME NEW m \in row.tests
       PROVE  m.state = "notApplicable" \/
              (m \in row.evidence /\ (m.state = "evidenced" \/ (m.source = "aws-ingested" /\ m.state = "unevidenced")))
  <2> SUFFICES ASSUME m.state # "notApplicable"
               PROVE  m \in row.evidence /\ (m.state = "evidenced" \/ (m.source = "aws-ingested" /\ m.state = "unevidenced"))
    OBVIOUS
  <2>1. m \in ms /\ m \in InScopeMethods(reg)
    BY <1>4, <1>7
  <2>2. m \in row.evidence /\ m.state # "violated" /\ m.bundle # 0
    BY <2>1, <1>4, <1>6, <1>7
  <2>3. m \in MethodsOf(All, k)
    BY <2>1 DEF ms
  <2> QED BY <2>2, <2>3, StatesAre
<1>15. ASSUME NEW i \in OpenEpisodes(All, k), NEW m \in row.tests, m.source # "attestation", m.ref = log[i].recipe
       PROVE  m.state \in {"notApplicable", "unevidenced"}
  <2>1. m \in MethodsOf(All, k)
    BY <1>4 DEF ms
  <2>2. m.state # "evidenced"
    BY <2>1, <1>15, OpenMeansMethodNotPassed
  <2> QED BY <2>2, <1>14
<1> QED BY <1>10, <1>11, <1>12, <1>13, <1>14, <1>15 DEF row, reg, rows

\* What is published of a KSI is earned and no failure is forgotten, for any
\* recipes, clients, floors and ledgers.
THEOREM PublishedIsAlwaysEarned == ArtifactsSpec => []PublishedIsEarned
<1>1. HistoryInv => PublishedIsEarned
  BY StatusIsEarned, FailuresAreOwed DEF PublishedIsEarned
<1> QED BY <1>1, LedgerIsAHistory, PTL

-----------------------------------------------------------------------------
(* Each KSI is judged by its own statements.                               *)

\* Two sets of statements that the fold's chains, and the artifacts of a KSI,
\* cannot tell apart.
Alike(S, T, k) ==
  /\ Evidence(S) = Evidence(T)
  /\ \A r : Scopings(S, r) = Scopings(T, r)
  /\ \A c : Attested(S, c, k) = Attested(T, c, k)
  /\ \A kind \in {"artifact", "declaration", "judgment"}, n \in Slots : About(S, kind, k, n) = About(T, kind, k, n)

\* What a KSI is told of: all of the evidence, when it shares no recipe.
LEMMA NamingIsEnough ==
  ASSUME HistoryInv, NEW k, \A u \in Upstream : Submitted(All, u, k) = Chain(All, u)
  PROVE  Alike(All, Naming(k), k)
<1>1. Naming(k) \subseteq All
  BY DEF Naming
<1>2. \A i \in All : Shaped(log[i])
  BY PositionsOrder DEF All
<1>3. ASSUME NEW i \in All, log[i].kind = "evidence"
      PROVE  i \in Naming(k)
  <2>1. CASE log[i].recipe \in Catalog
    BY <1>3, <2>1 DEF Naming
  <2>2. CASE log[i].recipe \in Upstream
    <3>1. i \in Chain(All, log[i].recipe)
      BY <1>3 DEF Chain, Evidence
    <3>2. i \in Submitted(All, log[i].recipe, k)
      BY <2>2, <3>1
    <3>3. log[i].ksi = k
      BY <3>2 DEF Submitted
    <3>4. log[i].recipe \notin Catalog
      BY <2>2 DEF Upstream
    <3> QED BY <1>3, <3>3, <3>4 DEF Naming
  <2> QED BY <1>2, <1>3, <2>1, <2>2 DEF Shaped
<1>4. ASSUME NEW i \in All, log[i].kind = "scoping"
      PROVE  i \in Naming(k)
  <2>1. log[i].recipe \in Catalog
    BY <1>2, <1>4 DEF Shaped
  <2> QED BY <1>4, <2>1 DEF Naming
<1>5. ASSUME NEW i \in All, log[i].kind \in {"attestation", "artifact", "declaration", "judgment"}, log[i].ksi = k
      PROVE  i \in Naming(k)
  BY <1>5 DEF Naming
<1>6. Evidence(All) = Evidence(Naming(k))
  BY <1>1, <1>3 DEF Evidence
<1>7. \A r : Scopings(All, r) = Scopings(Naming(k), r)
  BY <1>1, <1>4 DEF Scopings
<1>8. \A c : Attested(All, c, k) = Attested(Naming(k), c, k)
  BY <1>1, <1>5 DEF Attested
<1>9. ASSUME NEW kind \in {"artifact", "declaration", "judgment"}, NEW n \in Slots
      PROVE  About(All, kind, k, n) = About(Naming(k), kind, k, n)
  BY <1>1, <1>5 DEF About
<1> QED BY <1>6, <1>7, <1>8, <1>9 DEF Alike

\* The chains, the deaths and the register read the evidence, and what was scoped out.
LEMMA ChainsAreAlike ==
  ASSUME NEW S, NEW T, Evidence(S) = Evidence(T)
  PROVE  /\ \A r : Chain(S, r) = Chain(T, r)
         /\ \A i : Later(S, i) = Later(T, i) /\ Earlier(S, i) = Earlier(T, i) /\ Changed(S, i) = Changed(T, i)
         /\ \A p : Observer(S, p) = Observer(T, p)
<1>1. \A r : Chain(S, r) = Chain(T, r)
  BY DEF Chain
<1>2. ASSUME NEW p PROVE Observer(S, p) = Observer(T, p)
  BY DEF Observer
<1>3. ASSUME NEW i PROVE Later(S, i) = Later(T, i) /\ Earlier(S, i) = Earlier(T, i)
  BY <1>1, Chain(S, log[i].recipe) = Chain(T, log[i].recipe) DEF Later, Earlier
<1>4. ASSUME NEW i PROVE Changed(S, i) = Changed(T, i)
  BY <1>2 DEF Changed
<1> QED BY <1>1, <1>2, <1>3, <1>4

\* So are the deaths, the streaks and the episodes,
LEMMA StatusesAreAlike ==
  ASSUME NEW S, NEW T, Evidence(S) = Evidence(T)
  PROVE  /\ \A i : Status(S, i) = Status(T, i) /\ (Opens(S, i) <=> Opens(T, i)) /\ Resolves(S, i) = Resolves(T, i)
         /\ \A r : Live(S, r) = Live(T, r) /\ Streak(S, r) = Streak(T, r)
<1>1. ASSUME NEW i PROVE Status(S, i) = Status(T, i)
  <2>1. /\ Later(S, i) = Later(T, i) /\ Changed(S, i) = Changed(T, i)
        /\ Observer(S, Anchors[log[i].recipe][Min(Changed(T, i))]) = Observer(T, Anchors[log[i].recipe][Min(Changed(T, i))])
    BY ChainsAreAlike
  <2> QED BY <2>1, Zenon DEF Status
<1>2. ASSUME NEW i PROVE (Opens(S, i) <=> Opens(T, i)) /\ Resolves(S, i) = Resolves(T, i)
  <2>1. Later(S, i) = Later(T, i) /\ Earlier(S, i) = Earlier(T, i)
    BY ChainsAreAlike
  <2> QED BY <2>1, Zenon DEF Opens, Resolves
<1>3. ASSUME NEW r PROVE Live(S, r) = Live(T, r)
  <2>1. Chain(S, r) = Chain(T, r)
    BY ChainsAreAlike
  <2> QED BY <1>1, <2>1 DEF Live
<1>4. ASSUME NEW r PROVE Streak(S, r) = Streak(T, r)
  <2>1. Chain(S, r) = Chain(T, r) /\ \A i : Later(S, i) = Later(T, i)
    BY ChainsAreAlike
  <2> QED BY <2>1 DEF Streak
<1> QED BY <1>1, <1>2, <1>3, <1>4

\* the rows,
LEMMA RowsAreAlike ==
  ASSUME NEW S, NEW T, NEW k, Alike(S, T, k)
  PROVE  \A r : Register(S, r) = Register(T, r)
<1> SUFFICES ASSUME NEW r PROVE Register(S, r) = Register(T, r)
  OBVIOUS
<1>1. Live(S, r) = Live(T, r) /\ Streak(S, r) = Streak(T, r) /\ Scopings(S, r) = Scopings(T, r)
  BY StatusesAreAlike DEF Alike
<1> QED BY <1>1, Zenon DEF Register

\* the methods of the KSI,
LEMMA MethodsAreAlike ==
  ASSUME NEW S, NEW T, NEW k, Alike(S, T, k)
  PROVE  MethodsOf(S, k) = MethodsOf(T, k)
<1>1. \A u : Submitted(S, u, k) = Submitted(T, u, k)
  BY ChainsAreAlike, Zenon DEF Submitted, Alike
<1>2. \A c : Attested(S, c, k) = Attested(T, c, k)
  BY DEF Alike
<1>3. \A r : PipelineMethod(r, Register(S, r)) = PipelineMethod(r, Register(T, r))
  BY RowsAreAlike
<1>4. \A u : IngestedMethod(S, u, k) = IngestedMethod(T, u, k)
  BY <1>1, Zenon DEF IngestedMethod
<1>5. \A c : AttestationMethod(S, c, k) = AttestationMethod(T, c, k)
  BY <1>2, Zenon DEF AttestationMethod
<1>6. {PipelineMethod(r, Register(S, r)) : r \in {q \in Catalog : k \in KsisOf[q]}}
      = {PipelineMethod(r, Register(T, r)) : r \in {q \in Catalog : k \in KsisOf[q]}}
  BY <1>3, Zenon
<1>7. {v \in Upstream : Submitted(S, v, k) # {}} = {v \in Upstream : Submitted(T, v, k) # {}}
  BY <1>1, Zenon
<1>8. {IngestedMethod(S, u, k) : u \in {v \in Upstream : Submitted(S, v, k) # {}}}
      = {IngestedMethod(T, u, k) : u \in {v \in Upstream : Submitted(T, v, k) # {}}}
  BY <1>4, <1>7, Zenon
<1>9. {d \in Claims : Attested(S, d, k) # {} /\ log[LastOf(Attested(S, d, k))].attests}
      = {d \in Claims : Attested(T, d, k) # {} /\ log[LastOf(Attested(T, d, k))].attests}
  BY <1>2
<1>10. {AttestationMethod(S, c, k) : c \in {d \in Claims : Attested(S, d, k) # {} /\ log[LastOf(Attested(S, d, k))].attests}}
       = {AttestationMethod(T, c, k) : c \in {d \in Claims : Attested(T, d, k) # {} /\ log[LastOf(Attested(T, d, k))].attests}}
  BY <1>5, <1>9, Zenon
<1> QED BY <1>6, <1>8, <1>10, Zenon DEF MethodsOf

\* its row of the method register
LEMMA MethodRowsAreAlike ==
  ASSUME NEW S, NEW T, NEW k, NEW now, Alike(S, T, k)
  PROVE  MethodRow(S, k, now) = MethodRow(T, k, now)
<1>1. MethodsOf(S, k) = MethodsOf(T, k)
  BY MethodsAreAlike
<1>2. \A r : Chain(S, r) = Chain(T, r)
  BY ChainsAreAlike DEF Alike
<1>3. ASSUME NEW methods PROVE Instants(S, methods) = Instants(T, methods)
  BY <1>2 DEF Instants
<1>4. ASSUME NEW n \in Slots PROVE Present(S, k, n) <=> Present(T, k, n)
  <2>1. /\ About(S, "artifact", k, n) = About(T, "artifact", k, n)
        /\ About(S, "declaration", k, n) = About(T, "declaration", k, n)
        /\ About(S, "judgment", k, n) = About(T, "judgment", k, n)
    BY DEF Alike
  <2>2. \A at : LostSince(S, k, n, at) <=> LostSince(T, k, n, at)
    BY <2>1, Zenon DEF LostSince
  <2>3. Absent(S, k, n) <=> Absent(T, k, n)
    BY <2>1, <2>2, Zenon DEF Absent
  <2>4. BodyOf(S, k, n) = BodyOf(T, k, n)
    BY <2>1, <2>3, Zenon DEF BodyOf
  <2>5. Reaches(S, k, n) <=> Reaches(T, k, n)
    BY <2>1, <2>4, Zenon DEF Reaches
  <2> QED BY <2>1, <2>4, <2>5, Zenon DEF Present
<1>5. ArtifactsPresent(S, k) = ArtifactsPresent(T, k)
  BY <1>4, Zenon DEF ArtifactsPresent
<1>6. Instants(S, MethodsOf(T, k)) = Instants(T, MethodsOf(T, k))
  BY <1>3, Zenon
<1> QED BY <1>1, <1>5, <1>6, Zenon DEF MethodRow, RowOf

\* and its rollup.
LEMMA RollupsAreAlike ==
  ASSUME NEW S, NEW T, NEW k, Alike(S, T, k)
  PROVE  Rollup(S, k) = Rollup(T, k) /\ OpenEpisodes(S, k) = OpenEpisodes(T, k)
<1>1. \A r : Register(S, r) = Register(T, r)
  BY RowsAreAlike
<1>2. {[recipe |-> r, row |-> Register(S, r)] : r \in Recipe} = {[recipe |-> r, row |-> Register(T, r)] : r \in Recipe}
  BY <1>1
<1>3. Rollup(S, k) = Rollup(T, k)
  BY <1>2, Zenon DEF Rollup
<1>4. Evidence(S) = Evidence(T) /\ \A i : (Opens(S, i) <=> Opens(T, i)) /\ Resolves(S, i) = Resolves(T, i)
  BY StatusesAreAlike DEF Alike
<1>5. OpenEpisodes(S, k) = OpenEpisodes(T, k)
  BY <1>4, Zenon DEF OpenEpisodes
<1> QED BY <1>3, <1>5

\* Each KSI is judged by the statements about it (KsisAreIndependent).
LEMMA EachStandsAlone == HistoryInv => KsisAreIndependent
<1> SUFFICES ASSUME HistoryInv, NEW k \in KSIs, NEW now \in From(Today),
                    ~(\E u \in Upstream : Submitted(All, u, k) # Chain(All, u))
             PROVE  /\ MethodRow(All, k, now) = MethodRow(Naming(k), k, now)
                    /\ Rollup(All, k) = Rollup(Naming(k), k)
                    /\ OpenEpisodes(All, k) = OpenEpisodes(Naming(k), k)
  BY DEF KsisAreIndependent
<1>1. Alike(All, Naming(k), k)
  BY NamingIsEnough
<1>2. MethodRow(All, k, now) = MethodRow(Naming(k), k, now)
  BY <1>1, MethodRowsAreAlike
<1> QED BY <1>1, <1>2, RollupsAreAlike

-----------------------------------------------------------------------------
(* The KSI register and the gap register, which each count apart.          *)

\* The counts of the KSI register, with rows and without.
LEMMA CountsAre ==
  ASSUME NEW S, NEW now, NEW k \in KSIs, NEW rows, rows = Rows(S, now)
  PROVE  /\ Total(rows, k) \in Nat /\ Counted(rows, k) \in Nat /\ StaleCount(rows, k) \in Nat
         /\ Total(rows, k) = 0 => Counted(rows, k) = 0 /\ StaleCount(rows, k) = 0
         /\ Scanned(rows) =>
              /\ DOMAIN rows = KSIs /\ rows[k] = MethodRow(S, k, now)
              /\ (Total(rows, k) = 0 <=> rows[k].methods = {})
              /\ (StaleCount(rows, k) = 0 <=> rows[k].stale = {})
              /\ Total(rows, k) = Cardinality(rows[k].methods)
              /\ Counted(rows, k) = Cardinality(Automated(rows[k].methods))
         /\ ~Scanned(rows) =>
              /\ DOMAIN rows = {}
              /\ (StaleCount(rows, k) = 0 <=> (Windows["machine"] = NoWindow \/ Derived(k) = {}))
<1>1. CASE Scanned(rows)
  <2> DEFINE ms == MethodsOf(S, k)
             row == MethodRow(S, k, now)
  <2>1. DOMAIN rows = KSIs
    BY <1>1 DEF Scanned, Rows
  <2>2. rows[k] = row
    BY <2>1 DEF Rows
  <2>3. row.methods = ms /\ row.stale = Stale(ms, now)
    BY DEF MethodRow, RowOf
  <2>4. IsFiniteSet(ms)
    BY MethodsAreFinite
  <2>5. Automated(ms) \subseteq ms /\ Stale(ms, now) \subseteq ms
    BY DEF Automated, Stale
  <2> HIDE DEF ms, row
  <2>6. IsFiniteSet(Automated(ms)) /\ IsFiniteSet(Stale(ms, now))
    BY <2>4, <2>5, FS_Subset
  <2>7. /\ Total(rows, k) = Cardinality(ms) /\ Counted(rows, k) = Cardinality(Automated(ms))
        /\ StaleCount(rows, k) = Cardinality(Stale(ms, now))
    BY <1>1, <2>2, <2>3 DEF Total, Counted, StaleCount
  <2>8. /\ Cardinality(ms) \in Nat /\ (Cardinality(ms) = 0 <=> ms = {})
        /\ Cardinality(Automated(ms)) \in Nat /\ (Cardinality(Automated(ms)) = 0 <=> Automated(ms) = {})
        /\ Cardinality(Stale(ms, now)) \in Nat /\ (Cardinality(Stale(ms, now)) = 0 <=> Stale(ms, now) = {})
    BY <2>4, <2>6, NumberOf
  <2>9. ms = {} => Automated(ms) = {} /\ Stale(ms, now) = {}
    BY <2>5
  <2> QED BY <1>1, <2>1, <2>2, <2>3, <2>7, <2>8, <2>9 DEF row
<1>2. CASE ~Scanned(rows)
  <2>1. Derived(k) \subseteq Recipe
    BY MethodsAssumption DEF Derived
  <2>2. IsFiniteSet(Derived(k))
    BY <2>1, MethodsAssumption, FS_Subset
  <2>3. Cardinality(Derived(k)) \in Nat /\ (Cardinality(Derived(k)) = 0 <=> Derived(k) = {})
    BY <2>2, NumberOf
  <2>4. /\ Total(rows, k) = Cardinality(Derived(k)) /\ Counted(rows, k) = Cardinality(Derived(k))
        /\ StaleCount(rows, k) = IF Windows["machine"] = NoWindow THEN 0 ELSE Cardinality(Derived(k))
    BY <1>2 DEF Total, Counted, StaleCount
  <2> QED BY <1>2, <2>3, <2>4 DEF Scanned
<1> QED BY <1>1, <1>2

\* A section of one row per KSI names a KSI when it is about it.
LEMMA NamedOnce ==
  ASSUME NEW P, NEW k
  PROVE  Names({Row(x, x) : x \in P}, k) # {} <=> k \in P
<1>1. ASSUME k \in P PROVE Row(k, k) \in Names({Row(x, x) : x \in P}, k)
  <2>1. Row(k, k) \in {Row(x, x) : x \in P}
    BY <1>1
  <2> QED BY <2>1 DEF Names, Row
<1>2. ASSUME NEW r \in Names({Row(x, x) : x \in P}, k) PROVE k \in P
  <2>1. PICK x \in P : r = Row(x, x)
    BY DEF Names
  <2>2. r.ksi = k
    BY DEF Names
  <2> QED BY <2>1, <2>2 DEF Row
<1> QED BY <1>1, <1>2

\* A section says that a KSI is short.
Owes(section, k) == \E r \in Names(section, k) : r.gap

\* Which KSIs each section names.
LEMMA SectionsName ==
  ASSUME NEW S, NEW now, NEW k \in KSIs, NEW rows, rows = Rows(S, now)
  PROVE  /\ Names(Coverage(rows), k) # {} <=> Total(rows, k) = 0
         /\ Names(MethodCount(rows), k) # {} <=> (Total(rows, k) > 0 /\ Counted(rows, k) < MethodFloor)
         /\ Names(Freshness(rows), k) # {} <=> StaleCount(rows, k) > 0
         /\ Names(HistoryShort(rows), k) # {} <=>
              (HistoryMonths # 0 /\ Scanned(rows) /\ rows[k].historyMet # "met")
         /\ Names(PointInTime(rows), k) # {} <=>
              (Scanned(rows) /\ OfClass(rows[k].methods, "point-in-time") # {})
<1>0. /\ Total(rows, k) \in Nat /\ StaleCount(rows, k) \in Nat
      /\ Scanned(rows) => DOMAIN rows = KSIs /\ (StaleCount(rows, k) = 0 <=> rows[k].stale = {})
      /\ ~Scanned(rows) =>
           DOMAIN rows = {} /\ (StaleCount(rows, k) = 0 <=> (Windows["machine"] = NoWindow \/ Derived(k) = {}))
  BY CountsAre
<1>1. Names(Coverage(rows), k) # {} <=> Total(rows, k) = 0
  <2> DEFINE P == {x \in KSIs : Total(rows, x) = 0}
  <2>1. Coverage(rows) = {Row(x, x) : x \in P}
    BY DEF Coverage
  <2>2. k \in P <=> Total(rows, k) = 0
    OBVIOUS
  <2> HIDE DEF P
  <2> QED BY <2>1, <2>2, NamedOnce
<1>2. Names(MethodCount(rows), k) # {} <=> (Total(rows, k) > 0 /\ Counted(rows, k) < MethodFloor)
  <2> DEFINE P == {x \in KSIs : Total(rows, x) > 0 /\ Counted(rows, x) < MethodFloor}
  <2>1. MethodCount(rows) = {Row(x, x) : x \in P}
    BY DEF MethodCount
  <2>2. k \in P <=> (Total(rows, k) > 0 /\ Counted(rows, k) < MethodFloor)
    OBVIOUS
  <2> HIDE DEF P
  <2> QED BY <2>1, <2>2, NamedOnce
<1>3. Names(Freshness(rows), k) # {} <=> StaleCount(rows, k) > 0
  <2> DEFINE F(j) == IF Scanned(rows) THEN {Row(j, m.ref) : m \in rows[j].stale}
                     ELSE IF Windows["machine"] = NoWindow THEN {} ELSE {Row(j, r) : r \in Derived(j)}
  <2>1. Freshness(rows) = UNION {F(j) : j \in KSIs}
    BY DEF Freshness
  <2>2. \A j : \A r \in F(j) : r.ksi = j
    BY DEF Row
  <2>3. F(k) # {} <=> StaleCount(rows, k) > 0
    <3>1. CASE Scanned(rows)
      <4>1. F(k) = {Row(k, m.ref) : m \in rows[k].stale}
        BY <3>1
      <4>2. F(k) # {} <=> rows[k].stale # {}
        BY <4>1
      <4> HIDE DEF F
      <4> QED BY <1>0, <3>1, <4>2
    <3>2. CASE ~Scanned(rows)
      <4>1. F(k) = IF Windows["machine"] = NoWindow THEN {} ELSE {Row(k, r) : r \in Derived(k)}
        BY <3>2
      <4>2. F(k) # {} <=> (Windows["machine"] # NoWindow /\ Derived(k) # {})
        BY <4>1
      <4> HIDE DEF F
      <4> QED BY <1>0, <3>2, <4>2
    <3> QED BY <3>1, <3>2
  <2> HIDE DEF F
  <2> QED BY <2>1, <2>2, <2>3 DEF Names
<1>4. Names(HistoryShort(rows), k) # {} <=>
        (HistoryMonths # 0 /\ Scanned(rows) /\ rows[k].historyMet # "met")
  <2>1. CASE HistoryMonths # 0 /\ Scanned(rows)
    <3>1. HistoryShort(rows) = {Note(j, j, rows[j].historyMet = "unmet") : j \in {x \in KSIs : rows[x].historyMet # "met"}}
      BY <1>0, <2>1 DEF HistoryShort
    <3> DEFINE P == {x \in KSIs : rows[x].historyMet # "met"}
    <3>2. k \in P <=> rows[k].historyMet # "met"
      OBVIOUS
    <3>3. HistoryShort(rows) = {Note(j, j, rows[j].historyMet = "unmet") : j \in P}
      BY <3>1
    <3> HIDE DEF P
    <3>4. ASSUME k \in P PROVE Note(k, k, rows[k].historyMet = "unmet") \in Names(HistoryShort(rows), k)
      <4>1. Note(k, k, rows[k].historyMet = "unmet") \in HistoryShort(rows)
        BY <3>3, <3>4
      <4> QED BY <4>1 DEF Names, Note, Row
    <3>5. ASSUME NEW r \in Names(HistoryShort(rows), k) PROVE k \in P
      <4>1. PICK j \in P : r = Note(j, j, rows[j].historyMet = "unmet")
        BY <3>3 DEF Names
      <4>2. r.ksi = k
        BY DEF Names
      <4> QED BY <4>1, <4>2 DEF Note, Row
    <3> QED BY <2>1, <3>2, <3>4, <3>5
  <2>2. CASE HistoryMonths = 0 \/ ~Scanned(rows)
    <3>1. HistoryShort(rows) = {}
      BY <1>0, <2>2 DEF HistoryShort
    <3> QED BY <2>2, <3>1 DEF Names
  <2> QED BY <2>1, <2>2
<1>5. Names(PointInTime(rows), k) # {} <=>
        (Scanned(rows) /\ OfClass(rows[k].methods, "point-in-time") # {})
  <2> DEFINE F(j) == {Note(j, m.ref, OfClass(rows[j].methods, "process-generated") = {}) :
                        m \in OfClass(rows[j].methods, "point-in-time")}
  <2>1. PointInTime(rows) = UNION {F(j) : j \in DOMAIN rows}
    BY DEF PointInTime
  <2>2. \A j : \A r \in F(j) : r.ksi = j
    BY DEF Row, Note
  <2>3. F(k) # {} <=> OfClass(rows[k].methods, "point-in-time") # {}
    OBVIOUS
  <2> HIDE DEF F
  <2> QED BY <1>0, <2>1, <2>2, <2>3 DEF Names
<1> QED BY <1>1, <1>2, <1>3, <1>4, <1>5

\* The KSIs that a section names.
LEMMA KsisInAre ==
  ASSUME NEW section
  PROVE  /\ KsisIn(section) \subseteq Obliged
         /\ \A k : k \in KsisIn(section) <=> k \in Obliged /\ Names(section, k) # {}
  BY DEF KsisIn, Names

\* What is not listed is what is met.
LEMMA CountedTheOtherWay ==
  ASSUME NEW X, X \subseteq Obliged
  PROVE  Cardinality(Obliged \ X) = Cardinality(Obliged) - Cardinality(X)
<1>1. IsFiniteSet(Obliged)
  BY MethodsAssumption, FS_Subset, Obliged \subseteq KSIs DEF Obliged
<1>2. Obliged \cap X = X
  OBVIOUS
<1>3. Cardinality(Obliged \ X) = Cardinality(Obliged) - Cardinality(Obliged \cap X)
  BY <1>1, FS_Difference
<1> QED BY <1>2, <1>3

\* History is met, unmet or not judged, and unmet only where some is owed.
LEMMA HistoryIs ==
  ASSUME NEW S, NEW k, NEW now, HistoryMonths \in Nat
  PROVE  /\ MethodRow(S, k, now).historyMet \in {"null", "unmet", "met"}
         /\ MethodRow(S, k, now).historyMet = "unmet" => HistoryMonths # 0
<1>1. MethodRow(S, k, now).historyMet = HistoryMet(Instants(S, MethodsOf(S, k)), now)
  BY DEF MethodRow, RowOf
<1> QED BY <1>1 DEF HistoryMet

\* The meters recount the gap register (MetersRecount).
LEMMA CountsRecount == MetersRecount
<1> SUFFICES ASSUME NEW S \in {All, {}}, NEW now \in From(Today), NEW rows \in {Rows(S, now)},
                    NEW meters \in {Meters(rows)}, NEW sections \in {Sections(S, rows)}
             PROVE  /\ meters.noMethod = Cardinality(KsisIn(sections.G1))
                    /\ MethodFloor > 0 =>
                         meters.floorMet = Cardinality(Obliged) - Cardinality(KsisIn(sections.G1) \cup KsisIn(sections.G2))
                    /\ meters.fresh = Cardinality(Obliged) - Cardinality(KsisIn(sections.G1) \cup KsisIn(sections.G3))
                    /\ HistoryMonths > 0 =>
                         meters.historyMet =
                           IF Scanned(rows) THEN Cardinality(Obliged) - Cardinality(KsisIn(sections.G4)) ELSE 0
                    /\ meters.pointInTime = Cardinality(KsisIn(sections.G6))
  BY DEF MetersRecount
<1>0. rows = Rows(S, now) /\ meters = Meters(rows) /\ sections = Sections(S, rows)
  OBVIOUS
<1> DEFINE g1 == KsisIn(Coverage(rows))
           g2 == KsisIn(MethodCount(rows))
           g3 == KsisIn(Freshness(rows))
           g4 == KsisIn(HistoryShort(rows))
           g6 == KsisIn(PointInTime(rows))
<1>1. /\ Sections(S, rows).G1 = Coverage(rows) /\ Sections(S, rows).G2 = MethodCount(rows)
      /\ Sections(S, rows).G3 = Freshness(rows) /\ Sections(S, rows).G4 = HistoryShort(rows)
      /\ Sections(S, rows).G6 = PointInTime(rows)
  BY DEF Sections
<1>2. /\ g1 \subseteq Obliged /\ g2 \subseteq Obliged /\ g3 \subseteq Obliged /\ g4 \subseteq Obliged
      /\ g6 \subseteq Obliged
  BY KsisInAre
<1>3. Obliged \subseteq KSIs /\ {MethodFloor, HistoryMonths} \subseteq Nat
  BY MethodsAssumption DEF Obliged
<1>4. ASSUME NEW k \in Obliged
      PROVE  /\ k \in g1 <=> Total(rows, k) = 0
             /\ k \in g2 <=> (Total(rows, k) > 0 /\ Counted(rows, k) < MethodFloor)
             /\ k \in g3 <=> StaleCount(rows, k) > 0
             /\ k \in g4 <=> (HistoryMonths # 0 /\ Scanned(rows) /\ rows[k].historyMet # "met")
             /\ k \in g6 <=> (Scanned(rows) /\ OfClass(rows[k].methods, "point-in-time") # {})
  BY <1>0, <1>3, SectionsName, KsisInAre
<1> HIDE DEF g1, g2, g3, g4, g6
<1>5. ASSUME NEW k \in Obliged
      PROVE  /\ Total(rows, k) \in Nat /\ Counted(rows, k) \in Nat /\ StaleCount(rows, k) \in Nat
             /\ Total(rows, k) = 0 => Counted(rows, k) = 0 /\ StaleCount(rows, k) = 0
  BY <1>0, <1>3, CountsAre
<1>6. Meters(rows).noMethod = Cardinality(g1)
  <2>1. {k \in Obliged : Total(rows, k) = 0} = g1
    BY <1>2, <1>4
  <2> QED BY <2>1 DEF Meters
<1>7. ASSUME MethodFloor > 0 PROVE Meters(rows).floorMet = Cardinality(Obliged) - Cardinality(g1 \cup g2)
  <2>1. {k \in Obliged : Counted(rows, k) >= MethodFloor} = Obliged \ (g1 \cup g2)
    BY <1>3, <1>4, <1>5, <1>7
  <2>2. Cardinality(Obliged \ (g1 \cup g2)) = Cardinality(Obliged) - Cardinality(g1 \cup g2)
    BY <1>2, CountedTheOtherWay, g1 \cup g2 \subseteq Obliged
  <2>3. Meters(rows).floorMet = Cardinality({k \in Obliged : Counted(rows, k) >= MethodFloor})
    BY DEF Meters
  <2> QED BY <2>1, <2>2, <2>3
<1>8. Meters(rows).fresh = Cardinality(Obliged) - Cardinality(g1 \cup g3)
  <2>1. {k \in Obliged : Total(rows, k) > 0 /\ StaleCount(rows, k) = 0} = Obliged \ (g1 \cup g3)
    BY <1>3, <1>4, <1>5
  <2>2. Cardinality(Obliged \ (g1 \cup g3)) = Cardinality(Obliged) - Cardinality(g1 \cup g3)
    BY <1>2, CountedTheOtherWay, g1 \cup g3 \subseteq Obliged
  <2>3. Meters(rows).fresh = Cardinality({k \in Obliged : Total(rows, k) > 0 /\ StaleCount(rows, k) = 0})
    BY DEF Meters
  <2> QED BY <2>1, <2>2, <2>3
<1>9. ASSUME HistoryMonths > 0
      PROVE  Meters(rows).historyMet = IF Scanned(rows) THEN Cardinality(Obliged) - Cardinality(g4) ELSE 0
  <2>1. Meters(rows).historyMet = Cardinality({k \in Obliged : History(rows, k) = "met"})
    BY DEF Meters
  <2>2. CASE Scanned(rows)
    <3>1. {k \in Obliged : History(rows, k) = "met"} = Obliged \ g4
      BY <1>3, <1>4, <1>9, <2>2 DEF History
    <3>2. Cardinality(Obliged \ g4) = Cardinality(Obliged) - Cardinality(g4)
      BY <1>2, CountedTheOtherWay
    <3> QED BY <2>1, <2>2, <3>1, <3>2
  <2>3. CASE ~Scanned(rows)
    <3>1. {k \in Obliged : History(rows, k) = "met"} = {}
      BY <1>3, <1>9, <2>3 DEF History
    <3> QED BY <2>1, <2>3, <3>1, FS_EmptySet
  <2> QED BY <2>2, <2>3
<1>10. Meters(rows).pointInTime = Cardinality(g6)
  <2>1. {k \in Obliged : Scanned(rows) /\ OfClass(rows[k].methods, "point-in-time") # {}} = g6
    BY <1>2, <1>4
  <2> QED BY <2>1 DEF Meters
<1> QED BY <1>0, <1>1, <1>6, <1>7, <1>8, <1>9, <1>10, Zenon DEF g1, g2, g3, g4, g6

\* Which KSIs each section says are short: what is listed as a gap.
LEMMA SectionsOwe ==
  ASSUME NEW S, NEW now, NEW k \in KSIs, NEW rows, rows = Rows(S, now)
  PROVE  /\ Owes(Coverage(rows), k) <=> Total(rows, k) = 0
         /\ Owes(MethodCount(rows), k) <=> (Total(rows, k) > 0 /\ Counted(rows, k) < MethodFloor)
         /\ Owes(Freshness(rows), k) <=> StaleCount(rows, k) > 0
         /\ Owes(HistoryShort(rows), k) <=>
              (HistoryMonths # 0 /\ Scanned(rows) /\ rows[k].historyMet = "unmet")
         /\ Owes(ArtifactsShort(rows), k) <=>
              (Scanned(rows) /\ rows[k].methods # {} /\ Slots \ rows[k].present # {})
         /\ Owes(PointInTime(rows), k) <=>
              /\ Scanned(rows) /\ OfClass(rows[k].methods, "point-in-time") # {}
              /\ OfClass(rows[k].methods, "process-generated") = {}
<1>0. /\ Scanned(rows) => DOMAIN rows = KSIs
      /\ ~Scanned(rows) => DOMAIN rows = {}
  BY CountsAre
<1>1. \A section : (\A r \in section : r.gap = TRUE) => (Owes(section, k) <=> Names(section, k) # {})
  BY DEF Owes, Names
<1>2. \A r \in Coverage(rows) \cup MethodCount(rows) : r.gap = TRUE
  BY DEF Coverage, MethodCount, Row
<1>3. \A r \in Freshness(rows) : r.gap = TRUE
  BY DEF Freshness, Row
<1>4. /\ Owes(Coverage(rows), k) <=> Total(rows, k) = 0
      /\ Owes(MethodCount(rows), k) <=> (Total(rows, k) > 0 /\ Counted(rows, k) < MethodFloor)
      /\ Owes(Freshness(rows), k) <=> StaleCount(rows, k) > 0
  BY <1>1, <1>2, <1>3, SectionsName
<1>5. Owes(HistoryShort(rows), k) <=> (HistoryMonths # 0 /\ Scanned(rows) /\ rows[k].historyMet = "unmet")
  <2>1. CASE HistoryMonths # 0 /\ Scanned(rows)
    <3> DEFINE P == {x \in KSIs : rows[x].historyMet # "met"}
    <3>1. k \in P <=> rows[k].historyMet # "met"
      OBVIOUS
    <3>2. HistoryShort(rows) = {Note(j, j, rows[j].historyMet = "unmet") : j \in P}
      BY <1>0, <2>1 DEF HistoryShort
    <3> HIDE DEF P
    <3>3. ASSUME rows[k].historyMet = "unmet" PROVE Owes(HistoryShort(rows), k)
      <4> DEFINE r == Note(k, k, rows[k].historyMet = "unmet")
      <4>1. r \in HistoryShort(rows)
        BY <3>1, <3>2, <3>3
      <4>2. r.ksi = k /\ r.gap
        BY <3>3 DEF Note, Row
      <4> HIDE DEF r
      <4> QED BY <4>1, <4>2 DEF Owes, Names
    <3>4. ASSUME NEW r \in Names(HistoryShort(rows), k), r.gap PROVE rows[k].historyMet = "unmet"
      <4>1. PICK j \in P : r = Note(j, j, rows[j].historyMet = "unmet")
        BY <3>2 DEF Names
      <4>2. r.ksi = j /\ r.gap = (rows[j].historyMet = "unmet")
        BY <4>1 DEF Note, Row
      <4>3. r.ksi = k
        BY DEF Names
      <4> QED BY <3>4, <4>2, <4>3
    <3> QED BY <2>1, <3>3, <3>4 DEF Owes
  <2>2. CASE HistoryMonths = 0 \/ ~Scanned(rows)
    <3>1. HistoryShort(rows) = {}
      BY <1>0, <2>2 DEF HistoryShort
    <3> QED BY <2>2, <3>1 DEF Owes, Names
  <2> QED BY <2>1, <2>2
<1>6. Owes(ArtifactsShort(rows), k) <=>
        (Scanned(rows) /\ rows[k].methods # {} /\ Slots \ rows[k].present # {})
  <2> DEFINE P == {x \in DOMAIN rows : rows[x].methods # {}}
             F(j) == {Row(j, n) : n \in Slots \ rows[j].present}
  <2>1. ArtifactsShort(rows) = UNION {F(j) : j \in P}
    BY DEF ArtifactsShort
  <2>2. \A j : \A r \in F(j) : r.ksi = j /\ r.gap = TRUE
    BY DEF Row
  <2>3. F(k) # {} <=> Slots \ rows[k].present # {}
    OBVIOUS
  <2>4. k \in P <=> Scanned(rows) /\ rows[k].methods # {}
    BY <1>0
  <2> HIDE DEF F, P
  <2>5. Owes(ArtifactsShort(rows), k) <=> k \in P /\ F(k) # {}
    BY <2>1, <2>2 DEF Owes, Names
  <2> QED BY <2>3, <2>4, <2>5
<1>7. Owes(PointInTime(rows), k) <=>
        /\ Scanned(rows) /\ OfClass(rows[k].methods, "point-in-time") # {}
        /\ OfClass(rows[k].methods, "process-generated") = {}
  <2> DEFINE alone(j) == OfClass(rows[j].methods, "process-generated") = {}
             F(j) == {Note(j, m.ref, alone(j)) : m \in OfClass(rows[j].methods, "point-in-time")}
  <2>1. PointInTime(rows) = UNION {F(j) : j \in DOMAIN rows}
    BY DEF PointInTime
  <2>2. \A j : \A r \in F(j) : r.ksi = j /\ r.gap = alone(j)
    BY DEF Row, Note
  <2>3. F(k) # {} <=> OfClass(rows[k].methods, "point-in-time") # {}
    OBVIOUS
  <2>4. k \in DOMAIN rows <=> Scanned(rows)
    BY <1>0
  <2> HIDE DEF F
  <2>5. Owes(PointInTime(rows), k) <=> k \in DOMAIN rows /\ F(k) # {} /\ alone(k)
    <3>1. ASSUME NEW r \in Names(PointInTime(rows), k), r.gap PROVE k \in DOMAIN rows /\ F(k) # {} /\ alone(k)
      <4>1. PICK j \in DOMAIN rows : r \in F(j)
        BY <2>1 DEF Names
      <4>2. r.ksi = j /\ r.gap = alone(j) /\ r.ksi = k
        BY <2>2, <4>1 DEF Names
      <4> QED BY <3>1, <4>1, <4>2
    <3>2. ASSUME k \in DOMAIN rows, F(k) # {}, alone(k) PROVE Owes(PointInTime(rows), k)
      <4>1. PICK r \in F(k) : r.ksi = k /\ r.gap = alone(k)
        BY <2>2, <3>2
      <4>2. r \in PointInTime(rows)
        BY <2>1, <3>2
      <4> QED BY <3>2, <4>1, <4>2 DEF Owes, Names
    <3> QED BY <3>1, <3>2 DEF Owes
  <2> QED BY <2>3, <2>4, <2>5
<1> QED BY <1>4, <1>5, <1>6, <1>7

\* Fewer than five artifacts are present when one is missing.
LEMMA FiveArePresent ==
  ASSUME NEW S, NEW k, NEW now
  PROVE  Cardinality(MethodRow(S, k, now).present) < 5 <=> Slots \ MethodRow(S, k, now).present # {}
<1> DEFINE present == MethodRow(S, k, now).present
<1>1. present \subseteq Slots
  BY DEF MethodRow, RowOf, ArtifactsPresent
<1> HIDE DEF present
<1>2. Cardinality(Slots \ present) = Cardinality(Slots) - Cardinality(Slots \cap present)
  BY SlotsAreFive, FS_Difference
<1>3. IsFiniteSet(present) /\ IsFiniteSet(Slots \ present)
  BY <1>1, SlotsAreFive, FS_Subset, Slots \ present \subseteq Slots
<1>4. /\ Cardinality(present) \in Nat /\ Cardinality(Slots \ present) \in Nat
      /\ (Cardinality(Slots \ present) = 0 <=> Slots \ present = {})
  BY <1>3, NumberOf
<1>5. Slots \cap present = present
  BY <1>1
<1> QED BY <1>2, <1>4, <1>5, SlotsAreFive DEF present

\* The worst gap of a KSI is the first that a section names it for (ViewsAgree).
LEMMA WorstIsFirst == ViewsAgree
<1> SUFFICES ASSUME NEW S \in {All, {}}, NEW now \in From(Today), NEW rows \in {Rows(S, now)},
                    NEW sections \in {Sections(S, rows)}, NEW k \in KSIs
             PROVE  LET worst == WorstGap(rows, k)
                        owes(g) == \E r \in Names(sections[g], k) : r.gap
                        rank == {n \in DOMAIN Ranks : Ranks[n] = worst}
                    IN /\ Scanned(rows) => worst = Gap(rows[k])
                       /\ worst = "none" => \A n \in DOMAIN Ranks : ~owes(Ranks[n])
                       /\ \A n \in rank : /\ \A e \in 1..(n - 1) : ~owes(Ranks[e])
                                          /\ owes(worst) \/ (~Scanned(rows) /\ worst \in {"G4", "G5"})
  BY DEF ViewsAgree
<1> DEFINE worst == WorstGap(rows, k)
           owes(g) == \E r \in Names(sections[g], k) : r.gap
           methods == rows[k].methods
           total == Total(rows, k)
           counted == Counted(rows, k)
           stale == StaleCount(rows, k)
           history == History(rows, k)
           five == Cardinality(rows[k].present) < 5
           alone == /\ OfClass(methods, "point-in-time") # {}
                    /\ OfClass(methods, "process-generated") = {}
<1>0. rows = Rows(S, now) /\ sections = Sections(S, rows) /\ {MethodFloor, HistoryMonths} \subseteq Nat
  BY MethodsAssumption
<1>1. /\ total \in Nat /\ counted \in Nat /\ stale \in Nat
      /\ total = 0 => counted = 0 /\ stale = 0
      /\ Scanned(rows) =>
           /\ rows[k] = MethodRow(S, k, now)
           /\ (total = 0 <=> methods = {}) /\ (stale = 0 <=> rows[k].stale = {})
           /\ counted = Cardinality(Automated(methods))
  BY <1>0, CountsAre
<1>2. Scanned(rows) => /\ history = rows[k].historyMet /\ history \in {"null", "unmet", "met"}
                       /\ history = "unmet" => HistoryMonths # 0
                       /\ (five <=> Slots \ rows[k].present # {})
  BY <1>0, <1>1, HistoryIs, FiveArePresent DEF History
<1>3. /\ owes("G1") <=> total = 0
      /\ owes("G2") <=> (total > 0 /\ counted < MethodFloor)
      /\ owes("G3") <=> stale > 0
      /\ owes("G4") <=> (Scanned(rows) /\ history = "unmet")
      /\ owes("G5") <=> (Scanned(rows) /\ total # 0 /\ five)
      /\ owes("G6") <=> (Scanned(rows) /\ alone)
  <2>1. /\ sections["G1"] = Coverage(rows) /\ sections["G2"] = MethodCount(rows)
        /\ sections["G3"] = Freshness(rows) /\ sections["G4"] = HistoryShort(rows)
        /\ sections["G5"] = ArtifactsShort(rows) /\ sections["G6"] = PointInTime(rows)
    BY <1>0 DEF Sections
  <2>2. \A g \in {"G1", "G2", "G3", "G4", "G5", "G6"} : owes(g) <=> Owes(sections[g], k)
    BY DEF Owes
  <2>3. /\ owes("G1") <=> Owes(Coverage(rows), k)
        /\ owes("G2") <=> Owes(MethodCount(rows), k)
        /\ owes("G3") <=> Owes(Freshness(rows), k)
        /\ owes("G4") <=> Owes(HistoryShort(rows), k)
        /\ owes("G5") <=> Owes(ArtifactsShort(rows), k)
        /\ owes("G6") <=> Owes(PointInTime(rows), k)
    BY <2>1, <2>2
  <2>4. /\ Owes(Coverage(rows), k) <=> total = 0
        /\ Owes(MethodCount(rows), k) <=> (total > 0 /\ counted < MethodFloor)
        /\ Owes(Freshness(rows), k) <=> stale > 0
        /\ Owes(HistoryShort(rows), k) <=> (HistoryMonths # 0 /\ Scanned(rows) /\ rows[k].historyMet = "unmet")
        /\ Owes(ArtifactsShort(rows), k) <=> (Scanned(rows) /\ methods # {} /\ Slots \ rows[k].present # {})
        /\ Owes(PointInTime(rows), k) <=> (Scanned(rows) /\ alone)
    BY <1>0, SectionsOwe
  <2> HIDE DEF owes, methods, total, counted, stale, history, five, alone
  <2> QED BY <1>1, <1>2, <2>3, <2>4
<1>4. worst = IF total = 0 THEN "G1"
              ELSE IF counted < MethodFloor THEN "G2"
              ELSE IF stale > 0 THEN "G3"
              ELSE IF history = "unmet" THEN "G4"
              ELSE IF Scanned(rows) /\ five THEN "G5"
              ELSE IF Scanned(rows) /\ Gap(rows[k]) = "G6" THEN "G6" ELSE "none"
  BY DEF WorstGap
<1>5. Scanned(rows) =>
        Gap(rows[k]) = IF total = 0 THEN "G1"
                       ELSE IF counted < MethodFloor THEN "G2"
                       ELSE IF stale > 0 THEN "G3"
                       ELSE IF history = "unmet" THEN "G4"
                       ELSE IF five THEN "G5"
                       ELSE IF alone THEN "G6" ELSE "none"
  <2>1. Gap(rows[k]) = IF methods = {} THEN "G1"
                       ELSE IF Cardinality(Automated(methods)) < MethodFloor THEN "G2"
                       ELSE IF rows[k].stale # {} THEN "G3"
                       ELSE IF rows[k].historyMet = "unmet" THEN "G4"
                       ELSE IF five THEN "G5"
                       ELSE IF alone THEN "G6" ELSE "none"
    BY DEF Gap
  <2> HIDE DEF methods, total, counted, stale, history, five, alone
  <2> QED BY <1>1, <1>2, <2>1
<1>6. /\ DOMAIN Ranks = 1..6
      /\ Ranks[1] = "G1" /\ Ranks[2] = "G2" /\ Ranks[3] = "G3" /\ Ranks[4] = "G4" /\ Ranks[5] = "G5" /\ Ranks[6] = "G6"
  BY DEF Ranks
<1> HIDE DEF worst, owes, methods, total, counted, stale, history, five, alone
<1>7. Scanned(rows) => worst = Gap(rows[k])
  BY <1>4, <1>5
<1>8. /\ worst = "G1" => owes("G1")
      /\ worst = "G2" => owes("G2") /\ ~owes("G1")
      /\ worst = "G3" => owes("G3") /\ ~owes("G1") /\ ~owes("G2")
      /\ worst = "G4" => ~owes("G1") /\ ~owes("G2") /\ ~owes("G3") /\ (owes("G4") \/ ~Scanned(rows))
      /\ worst = "G5" => ~owes("G1") /\ ~owes("G2") /\ ~owes("G3") /\ ~owes("G4") /\ owes("G5")
      /\ worst = "G6" => ~owes("G1") /\ ~owes("G2") /\ ~owes("G3") /\ ~owes("G4") /\ ~owes("G5") /\ owes("G6")
      /\ worst = "none" =>
           ~owes("G1") /\ ~owes("G2") /\ ~owes("G3") /\ ~owes("G4") /\ ~owes("G5") /\ ~owes("G6")
  BY <1>0, <1>1, <1>3, <1>4, <1>5
<1>9. worst = "none" => \A n \in DOMAIN Ranks : ~owes(Ranks[n])
  BY <1>6, <1>8
<1>10. ASSUME NEW n \in DOMAIN Ranks, Ranks[n] = worst
       PROVE  /\ \A e \in 1..(n - 1) : ~owes(Ranks[e])
              /\ owes(worst) \/ (~Scanned(rows) /\ worst \in {"G4", "G5"})
  <2>1. n \in {1, 2, 3, 4, 5, 6}
    BY <1>6
  <2> QED BY <1>6, <1>8, <1>10, <2>1
<1> QED BY <1>7, <1>9, <1>10, Zenon DEF worst, owes

\* One ledger, one set of gaps: the KSI register, the gap register and the fold, each
\* of which judges a KSI apart, name the same, the meters recount the rows, and a
\* KSI that shares no recipe of the client's is judged by its own statements alone
\* (RegistersAgree).
THEOREM RegistersAlwaysAgree == ArtifactsSpec => []RegistersAgree
<1>1. HistoryInv => RegistersAgree
  BY WorstIsFirst, CountsRecount, EachStandsAlone DEF RegistersAgree
<1> QED BY <1>1, LedgerIsAHistory, PTL
=============================================================================
