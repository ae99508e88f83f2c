------------------------------ MODULE FoldProofs ------------------------------
(***************************************************************************)
(* What the fold says of a ledger is so, whatever was appended to it and   *)
(* in whatever order, for any recipes and anchors, and any length of time; *)
(* and a client's handoffs land in it whole, however many ingests run      *)
(* beside each other and wherever they die.                                *)
(***************************************************************************)
EXTENDS Fold, Intake, FiniteSetTheorems, WellFoundedInduction, TLAPS

-----------------------------------------------------------------------------
(* The order of the statements. *)

\* A set of numbers has a least one,
LEMMA LeastOf ==
  ASSUME NEW S, S \subseteq Nat, S # {}
  PROVE  \E m \in S : \A k \in S : m <= k
<1>1. PICK m \in S : \A k \in S : ~ (<<k, m>> \in OpToRel(<, Nat))
  BY NatLessThanWellFounded, WFMin, Zenon
<1>2. \A k \in S : ~ (k < m)
  BY <1>1, Zenon DEF OpToRel
<1> QED BY <1>2

\* and a bounded one a greatest.
LEMMA GreatestOf ==
  ASSUME NEW n \in Nat, NEW S, S \subseteq 0 .. n, S # {}
  PROVE  \E m \in S : \A k \in S : k <= m
<1> DEFINE D == {n - k : k \in S}
<1>1. D \subseteq Nat /\ D # {}
  <2>1. \A k \in S : n - k \in Nat
    OBVIOUS
  <2>2. PICK k \in S : TRUE
    OBVIOUS
  <2> QED BY <2>1, <2>2
<1> HIDE DEF D
<1>2. PICK d \in D : \A k \in D : d <= k
  BY <1>1, LeastOf
<1>3. PICK m \in S : d = n - m
  BY <1>2 DEF D
<1>4. ASSUME NEW k \in S PROVE k <= m
  <2>1. n - k \in D
    BY DEF D
  <2>2. n - m <= n - k
    BY <1>2, <1>3, <2>1
  <2> QED BY <2>2
<1> QED BY <1>4

\* A ledger whose statements all have an instant, none of them beyond some day.
Timed ==
  /\ Len(log) \in Nat /\ DOMAIN log = 1 .. Len(log)
  /\ \E T \in Nat : \A i \in DOMAIN log : log[i].at \in 0 .. T

\* The order is total,
LEMMA BeforeIsTotal ==
  ASSUME Timed, NEW i \in DOMAIN log, NEW j \in DOMAIN log
  PROVE  /\ i # j => Before(i, j) \/ Before(j, i)
         /\ ~(Before(i, j) /\ Before(j, i)) /\ ~Before(i, i)
  BY DEF Timed, Before

\* and an order.
LEMMA BeforeIsTransitive ==
  ASSUME Timed, NEW i \in DOMAIN log, NEW j \in DOMAIN log, NEW k \in DOMAIN log,
         Before(i, j), Before(j, k)
  PROVE  Before(i, k)
  BY DEF Timed, Before

IsFirst(i, S) == i \in S /\ \A j \in S \ {i} : Before(i, j)
IsLast(i, S) == i \in S /\ \A j \in S \ {i} : Before(j, i)

\* Statements have a first among them, and a last.
LEMMA ThereIsAFirst ==
  ASSUME Timed, NEW S, S \subseteq DOMAIN log, S # {}
  PROVE  IsFirst(FirstOf(S), S)
<1>1. PICK t \in {log[i].at : i \in S} : \A u \in {log[i].at : i \in S} : t <= u
  <2>1. {log[i].at : i \in S} \subseteq Nat /\ {log[i].at : i \in S} # {}
    BY DEF Timed
  <2> QED BY <2>1, LeastOf
<1> DEFINE E == {i \in S : log[i].at = t}
<1>2. PICK i \in E : \A j \in E : i <= j
  <2>1. E \subseteq Nat /\ E # {}
    BY DEF Timed
  <2> HIDE DEF E
  <2> QED BY <2>1, LeastOf
<1>3. ASSUME NEW j \in S \ {i} PROVE Before(i, j)
  <2>1. t <= log[j].at /\ log[j].at \in Nat /\ log[i].at = t /\ t \in Nat /\ i \in Nat /\ j \in Nat
    BY <1>1, <1>2 DEF Timed
  <2>2. log[j].at = t => i <= j
    BY <1>2
  <2> QED BY <2>1, <2>2 DEF Before
<1> QED BY <1>2, <1>3 DEF FirstOf, IsFirst

LEMMA ThereIsALast ==
  ASSUME Timed, NEW S, S \subseteq DOMAIN log, S # {}
  PROVE  IsLast(LastOf(S), S)
<1>1. PICK T \in Nat : \A i \in DOMAIN log : log[i].at \in 0 .. T
  BY DEF Timed
<1>2. PICK t \in {log[i].at : i \in S} : \A u \in {log[i].at : i \in S} : u <= t
  <2>1. {log[i].at : i \in S} \subseteq 0 .. T /\ {log[i].at : i \in S} # {}
    BY <1>1
  <2> QED BY <2>1, GreatestOf
<1> DEFINE E == {i \in S : log[i].at = t}
<1>3. PICK i \in E : \A j \in E : j <= i
  <2>1. E \subseteq 0 .. Len(log) /\ E # {}
    BY DEF Timed
  <2>2. Len(log) \in Nat
    BY DEF Timed
  <2> HIDE DEF E
  <2> QED BY <2>1, <2>2, GreatestOf
<1>4. ASSUME NEW j \in S \ {i} PROVE Before(j, i)
  <2>1. log[j].at <= t /\ log[j].at \in Nat /\ log[i].at = t /\ t \in Nat /\ i \in Nat /\ j \in Nat
    BY <1>1, <1>2, <1>3 DEF Timed
  <2>2. log[j].at = t => j <= i
    BY <1>3
  <2> QED BY <2>1, <2>2 DEF Before
<1> QED BY <1>3, <1>4 DEF LastOf, IsLast

-----------------------------------------------------------------------------
(* Chains, gaps and episodes. *)

\* What comes later in a chain is of the chain, and has a first.
LEMMA LaterInChain ==
  ASSUME Timed, NEW r, NEW i \in Chain(Whole, r)
  PROVE  /\ i \in DOMAIN log /\ log[i].recipe = r /\ Chain(Whole, r) \subseteq DOMAIN log
         /\ Later(Whole, i) = {j \in Chain(Whole, r) : Before(i, j)}
         /\ Earlier(Whole, i) = {j \in Chain(Whole, r) : Before(j, i)}
         /\ Later(Whole, i) # {} => IsFirst(FirstOf(Later(Whole, i)), Later(Whole, i))
         /\ Earlier(Whole, i) # {} => IsLast(LastOf(Earlier(Whole, i)), Earlier(Whole, i))
<1>1. i \in DOMAIN log /\ log[i].recipe = r /\ Chain(Whole, r) \subseteq DOMAIN log
  BY DEF Chain, Evidence, Whole
<1>2. Later(Whole, i) = {j \in Chain(Whole, r) : Before(i, j)}
  BY <1>1 DEF Later
<1>3. Earlier(Whole, i) = {j \in Chain(Whole, r) : Before(j, i)}
  BY <1>1 DEF Earlier
<1> QED BY <1>1, <1>2, <1>3, ThereIsAFirst, ThereIsALast

\* The gaps of a chain are its stale times.
LEMMA GapsRecount ==
  ASSUME Timed, Clock \in Nat
  PROVE  GapsAreStaleTimes
<1> SUFFICES ASSUME NEW r \in Recipe, NEW t \in 1 .. Clock
             PROVE  Stale(r, t) <=> \E g \in Gaps(Whole, r, Clock) :
                      g.start < t /\ (t < g.end \/ (g.ongoing /\ t = g.end))
  BY DEF GapsAreStaleTimes
<1> DEFINE C == Chain(Whole, r)
           sofar == {i \in C : log[i].at <= t}
           Gap(i) == [start |-> log[i].at + Window,
                      end |-> IF Later(Whole, i) = {} THEN Clock ELSE log[FirstOf(Later(Whole, i))].at,
                      ongoing |-> Later(Whole, i) = {}]
<1>a. C \subseteq DOMAIN log /\ Window \in Nat /\ \A i \in DOMAIN log : log[i].at \in Nat
  BY ChainsAssumption DEF Chain, Evidence, Whole, Timed
<1>1. ASSUME Stale(r, t)
      PROVE  \E g \in Gaps(Whole, r, Clock) : g.start < t /\ (t < g.end \/ (g.ongoing /\ t = g.end))
  <2>1. sofar # {} /\ \A i \in sofar : t > log[i].at + Window
    BY <1>1 DEF Stale
  <2> DEFINE i == LastOf(sofar)
  <2>2. IsLast(i, sofar)
    BY <1>a, <2>1, ThereIsALast
  <2> HIDE DEF i
  <2>3. i \in C /\ t > log[i].at + Window /\ log[i].at \in Nat
    BY <1>a, <2>1, <2>2 DEF IsLast
  <2>4. CASE Later(Whole, i) = {}
    <3>a. Gap(i).start = log[i].at + Window /\ Gap(i).end = Clock
      BY <2>4
    <3>b. Gap(i).ongoing
      BY <2>4
    <3>1. Gap(i).start < t /\ t <= Gap(i).end /\ Gap(i).end > Gap(i).start
      BY <2>3, <3>a, <1>a
    <3>2. Gap(i) \in Gaps(Whole, r, Clock)
      BY <2>3, <3>1 DEF Gaps
    <3>3. t < Gap(i).end \/ t = Gap(i).end
      BY <3>1, <3>a
    <3> HIDE DEF Gap
    <3> QED BY <3>b, <3>1, <3>2, <3>3
  <2>5. CASE Later(Whole, i) # {}
    <3> DEFINE q == FirstOf(Later(Whole, i))
    <3>1. q \in C /\ Before(i, q)
      BY <2>3, <2>5, LaterInChain DEF IsFirst
    <3> HIDE DEF q
    <3>2. ~(log[q].at <= t)
      <4> SUFFICES ASSUME log[q].at <= t PROVE FALSE
        OBVIOUS
      <4>1. q \in sofar
        BY <3>1
      <4>2. q = i \/ Before(q, i)
        BY <2>2, <4>1 DEF IsLast
      <4> QED BY <4>2, <3>1, <2>3, <1>a, BeforeIsTotal
    <3>3. log[q].at \in Nat
      BY <3>1, <1>a
    <3>4. Gap(i).start < t /\ t < Gap(i).end /\ Gap(i).end > Gap(i).start
      BY <2>3, <2>5, <3>2, <3>3, <1>a DEF q
    <3>5. Gap(i) \in Gaps(Whole, r, Clock)
      BY <2>3, <3>4 DEF Gaps
    <3> QED BY <3>4, <3>5
  <2> QED BY <2>4, <2>5
<1>2. ASSUME NEW g \in Gaps(Whole, r, Clock), g.start < t, t < g.end \/ (g.ongoing /\ t = g.end)
      PROVE  Stale(r, t)
  <2>1. PICK i \in C : g = Gap(i)
    BY DEF Gaps
  <2>2. log[i].at \in Nat /\ log[i].at + Window < t
    BY <1>a, <1>2, <2>1
  <2>3. i \in sofar
    BY <2>2, <1>a
  <2>4. ASSUME NEW j \in sofar PROVE t > log[j].at + Window
    <3>1. j = i \/ Before(i, j) \/ Before(j, i)
      BY <1>a, BeforeIsTotal
    <3>2. CASE Before(i, j)
      <4>1. j \in Later(Whole, i)
        BY <3>2, LaterInChain
      <4> DEFINE q == FirstOf(Later(Whole, i))
      <4>2. q \in C /\ (q = j \/ Before(q, j))
        BY <4>1, LaterInChain DEF IsFirst
      <4>3. g.end = log[q].at /\ ~g.ongoing
        BY <4>1, <2>1
      <4> HIDE DEF q
      <4>4. log[q].at <= log[j].at
        BY <4>2, <1>a DEF Before
      <4>5. t < log[q].at /\ log[j].at <= t /\ log[q].at \in Nat /\ log[j].at \in Nat
        BY <4>2, <4>3, <1>2, <1>a
      <4> QED BY <4>4, <4>5
    <3>3. CASE j = i \/ Before(j, i)
      <4>1. log[j].at <= log[i].at /\ log[j].at \in Nat
        BY <3>3, <1>a DEF Before
      <4> QED BY <4>1, <2>2, <1>a
    <3> QED BY <3>1, <3>2, <3>3
  <2> QED BY <2>3, <2>4 DEF Stale
<1> QED BY <1>1, <1>2

\* Every result in a chain is a verdict.
Decided(r) == \A i \in Chain(Whole, r) : log[i].verdict \in {"evidenced", "violated"}

\* An episode that was opened and not resolved.
StillOpen(r, i) == i \in Chain(Whole, r) /\ Opens(Whole, i) /\ Resolves(Whole, i) = {}

\* There is one at most,
LEMMA OneIsOpen ==
  ASSUME Timed, NEW r, Decided(r), NEW i, NEW j, StillOpen(r, i), StillOpen(r, j)
  PROVE  i = j
<1>1. ASSUME NEW h, NEW k, StillOpen(r, h), StillOpen(r, k) PROVE ~Before(h, k)
  <2> SUFFICES ASSUME Before(h, k) PROVE FALSE
    OBVIOUS
  <2> DEFINE p == LastOf(Earlier(Whole, k))
  <2>1. h \in Earlier(Whole, k)
    BY <1>1, LaterInChain DEF StillOpen
  <2>2. p \in Chain(Whole, r) /\ (p = h \/ Before(h, p)) /\ log[p].verdict # "violated"
    BY <1>1, <2>1, LaterInChain DEF StillOpen, Opens, IsLast
  <2> HIDE DEF p
  <2>3. log[h].verdict = "violated"
    BY <1>1 DEF StillOpen, Opens
  <2>4. p \in Later(Whole, h) /\ log[p].verdict = "evidenced"
    BY <1>1, <2>2, <2>3, LaterInChain DEF StillOpen, Decided
  <2> QED BY <1>1, <2>4 DEF StillOpen, Resolves
<1>2. i \in DOMAIN log /\ j \in DOMAIN log
  BY LaterInChain DEF StillOpen
<1> QED BY <1>1, <1>2, BeforeIsTotal

\* the newest bundle is violated while there is,
LEMMA OpenMeansViolated ==
  ASSUME Timed, NEW r, Decided(r), NEW i, StillOpen(r, i)
  PROVE  log[LastOf(Chain(Whole, r))].verdict = "violated"
<1> DEFINE l == LastOf(Chain(Whole, r))
<1>1. i \in Chain(Whole, r) /\ log[i].verdict = "violated"
  BY DEF StillOpen, Opens
<1>2. l \in Chain(Whole, r) /\ (l = i \/ Before(i, l))
  BY <1>1, LaterInChain, ThereIsALast DEF IsLast
<1> HIDE DEF l
<1>3. CASE l # i
  <2>1. l \in Later(Whole, i)
    BY <1>1, <1>2, <1>3, LaterInChain
  <2>2. log[l].verdict # "evidenced"
    BY <2>1 DEF StillOpen, Resolves
  <2> QED BY <1>2, <2>2 DEF Decided, l
<1> QED BY <1>1, <1>3 DEF l

\* and while it is, the first of the streak opened it.
LEMMA StreakOpens ==
  ASSUME Timed, NEW r, Decided(r), Chain(Whole, r) # {},
         log[LastOf(Chain(Whole, r))].verdict = "violated"
  PROVE  StillOpen(r, FirstOf(Streak(Whole, r)))
<1> DEFINE C == Chain(Whole, r)
           l == LastOf(C)
           f == FirstOf(Streak(Whole, r))
<1>1. C \subseteq DOMAIN log
  BY DEF Chain, Evidence, Whole
<1>2. IsLast(l, C)
  BY <1>1, ThereIsALast
<1>3. Later(Whole, l) = {}
  BY <1>1, <1>2, LaterInChain, BeforeIsTotal DEF IsLast
<1>4. l \in Streak(Whole, r)
  BY <1>2, <1>3 DEF Streak, IsLast
<1>5. IsFirst(f, Streak(Whole, r))
  BY <1>1, <1>4, ThereIsAFirst DEF Streak
<1> HIDE DEF l, f
<1>6. f \in C /\ \A j \in {f} \cup Later(Whole, f) : log[j].verdict = "violated"
  BY <1>5 DEF Streak, IsFirst
<1>7. Resolves(Whole, f) = {}
  BY <1>6 DEF Resolves
<1>8. ASSUME Earlier(Whole, f) # {} PROVE log[LastOf(Earlier(Whole, f))].verdict # "violated"
  <2> DEFINE p == LastOf(Earlier(Whole, f))
  <2>1. p \in C /\ Before(p, f) /\ \A j \in C : Before(j, f) => j = p \/ Before(j, p)
    BY <1>6, <1>8, LaterInChain DEF IsLast
  <2> HIDE DEF p
  <2> SUFFICES ASSUME log[p].verdict = "violated" PROVE FALSE
    BY DEF p
  <2>2. ASSUME NEW j \in Later(Whole, p) PROVE log[j].verdict = "violated"
    <3>1. j \in C /\ Before(p, j)
      BY <2>1, <2>2, LaterInChain
    <3>2. ~Before(j, p) /\ j # p
      BY <1>1, <2>1, <3>1, BeforeIsTotal
    <3>3. j = f \/ Before(f, j)
      BY <1>1, <1>6, <2>1, <3>1, <3>2, BeforeIsTotal
    <3>4. j \in {f} \cup Later(Whole, f)
      BY <1>6, <3>1, <3>3, LaterInChain
    <3> QED BY <1>6, <3>4
  <2>3. p \in Streak(Whole, r)
    BY <2>1, <2>2 DEF Streak
  <2> QED BY <1>1, <1>5, <1>6, <2>1, <2>3, BeforeIsTotal DEF IsFirst
<1>9. Opens(Whole, f)
  BY <1>6, <1>8 DEF Opens
<1> QED BY <1>6, <1>7, <1>9 DEF StillOpen, f

\* A live bundle is the last of its chain.
LEMMA LiveIsLast ==
  ASSUME Timed, NEW r, NEW i \in Live(Whole, r)
  PROVE  i \in Chain(Whole, r) /\ i = LastOf(Chain(Whole, r))
<1> DEFINE C == Chain(Whole, r)
<1>1. i \in C /\ Status(Whole, i).state = "live"
  BY DEF Live
<1>2. Later(Whole, i) = {}
  BY <1>1 DEF Status
<1>3. C \subseteq DOMAIN log /\ IsLast(LastOf(C), C)
  BY <1>1, LaterInChain, ThereIsALast
<1>4. LastOf(C) \in C /\ (LastOf(C) # i => Before(i, LastOf(C)))
  BY <1>1, <1>3 DEF IsLast
<1>5. LastOf(C) # i => LastOf(C) \in Later(Whole, i)
  BY <1>1, <1>4, LaterInChain
<1> QED BY <1>1, <1>2, <1>5

\* The two views of a failure agree.
LEMMA StreakRecounts ==
  ASSUME Timed, \A r \in Recipe : \A i \in Chain(Whole, r) :
                  log[i].verdict \in {"evidenced", "violated", "unevidenced"}
  PROVE  StreakIsOpenEpisode
<1> SUFFICES ASSUME NEW r \in Recipe, \A i \in Chain(Whole, r) : log[i].verdict # "unevidenced"
             PROVE  LET row == Register(Whole, r)
                        chain == Chain(Whole, r)
                        open == {v \in Vulnerabilities(Whole, r) : v.status = "open"}
                    IN /\ Cardinality(open) <= 1
                       /\ row.state = "violated" => \E v \in open : v.detectedAt = row.introducedAt
                       /\ (open # {}) <=> (chain # {} /\ log[LastOf(chain)].verdict = "violated")
  BY DEF StreakIsOpenEpisode
<1> DEFINE C == Chain(Whole, r)
           open == {v \in Vulnerabilities(Whole, r) : v.status = "open"}
           Told(i) == [detectedAt |-> log[i].at, status |-> "open"]
<1>1. Decided(r)
  BY DEF Decided
<1>2. ASSUME NEW v \in open PROVE \E i : StillOpen(r, i) /\ v = Told(i)
  <2>1. PICK i \in C : Opens(Whole, i) /\ v = [detectedAt |-> log[i].at,
            status |-> IF Resolves(Whole, i) = {} THEN "open" ELSE "resolved"]
    BY DEF Vulnerabilities
  <2>2. Resolves(Whole, i) = {}
    BY <2>1
  <2> QED BY <2>1, <2>2 DEF StillOpen
<1>3. ASSUME NEW i, StillOpen(r, i) PROVE Told(i) \in open
  <2>1. Told(i) \in Vulnerabilities(Whole, r)
    BY <1>3 DEF Vulnerabilities, StillOpen
  <2> QED BY <2>1
<1>4. Cardinality(open) <= 1
  <2>1. CASE open = {}
    BY <2>1, FS_EmptySet
  <2>2. CASE open # {}
    <3>1. PICK v \in open : TRUE
      BY <2>2
    <3>2. open = {v}
      BY <1>1, <1>2, <3>1, OneIsOpen
    <3>3. Cardinality({v}) = 1
      BY FS_Singleton
    <3> HIDE DEF open
    <3> QED BY <3>2, <3>3
  <2> QED BY <2>1, <2>2
<1>5. (open # {}) <=> (C # {} /\ log[LastOf(C)].verdict = "violated")
  <2>1. ASSUME open # {} PROVE C # {} /\ log[LastOf(C)].verdict = "violated"
    <3>1. PICK i : StillOpen(r, i)
      BY <1>2, <2>1
    <3> QED BY <1>1, <3>1, OpenMeansViolated DEF StillOpen
  <2>2. ASSUME C # {}, log[LastOf(C)].verdict = "violated" PROVE open # {}
    <3>1. Told(FirstOf(Streak(Whole, r))) \in open
      BY <1>1, <1>3, <2>2, StreakOpens
    <3> QED BY <3>1
  <2> QED BY <2>1, <2>2
<1>6. ASSUME Register(Whole, r).state = "violated"
      PROVE  \E v \in open : v.detectedAt = Register(Whole, r).introducedAt
  <2> DEFINE i == LastOf(Live(Whole, r))
  <2>1. Live(Whole, r) # {} /\ log[i].verdict = "violated"
        /\ Register(Whole, r).introducedAt = log[FirstOf(Streak(Whole, r))].at
    BY <1>6 DEF Register
  <2>2. i \in Live(Whole, r)
    <3>1. Live(Whole, r) \subseteq DOMAIN log
      BY DEF Live, Chain, Evidence, Whole
    <3> QED BY <2>1, <3>1, ThereIsALast DEF IsLast
  <2> HIDE DEF i
  <2>3. C # {} /\ log[LastOf(C)].verdict = "violated"
    BY <2>1, <2>2, LiveIsLast
  <2>4. Told(FirstOf(Streak(Whole, r))) \in open
    BY <1>1, <1>3, <2>3, StreakOpens
  <2> QED BY <2>1, <2>4
<1> QED BY <1>4, <1>5, <1>6

-----------------------------------------------------------------------------
(* The invariant of the ledgers: what a statement says it saw, the world   *)
(* held at its instant.                                                    *)

Contents == Content \cup {CHOOSE c \in Content : TRUE}
Snapshot == [commit : Nat, tree : [Path -> Contents]]
Sight == {<<>>} \cup UNION {[PathsOf(r) -> Contents] : r \in Recipe}
Verdict == {"evidenced", "violated", "unevidenced"}
Statement == [kind : {"evidence", "scoping"}, recipe : Recipe, verdict : Verdict \cup {"none"},
              at : Nat, commit : Nat, seen : Sight]

FoldTypeOK == world \in Seq(Snapshot) /\ world # <<>> /\ log \in Seq(Statement)

\* Of a statement.
Truthful(s) ==
  /\ s.at \in 1 .. Clock
  /\ s.kind = "evidence" => s.seen = Seen(s.recipe, s.at) /\ s.verdict \in Verdicts(s.recipe)

SawTheWorld == \A i \in DOMAIN log : Truthful(log[i])

FoldInv == FoldTypeOK /\ SawTheWorld

LEMMA FoldInitInv == Init => FoldInv
<1> SUFFICES ASSUME Init PROVE FoldInv
  OBVIOUS
<1> DEFINE first == [commit |-> 1, tree |-> [p \in Path |-> CHOOSE c \in Content : TRUE]]
<1>1. first \in Snapshot
  <2>1. [p \in Path |-> CHOOSE c \in Content : TRUE] \in [Path -> Contents]
    BY Zenon DEF Contents
  <2> QED BY <2>1 DEF Snapshot
<1>2. world = <<first>> /\ log = <<>>
  BY DEF Init
<1> HIDE DEF first
<1> QED BY <1>1, <1>2 DEF FoldInv, FoldTypeOK, SawTheWorld

\* Time changes nothing that was seen.
LEMMA PassInv == FoldInv /\ Pass => FoldInv'
<1> SUFFICES ASSUME FoldInv, Pass PROVE FoldInv'
  OBVIOUS
<1>0. log' = log
  BY DEF Pass
<1>1. PICK w \in Snapshot : world' = Append(world, w)
  <2>1. world[Clock] \in Snapshot
    BY DEF FoldInv, FoldTypeOK, Clock
  <2>2. CASE world' = Append(world, world[Clock])
    BY <2>1, <2>2
  <2>3. CASE \E t \in [Path -> Content] :
               world' = Append(world, [commit |-> world[Clock].commit + 1, tree |-> t])
    <3>1. PICK t \in [Path -> Content] :
            world' = Append(world, [commit |-> world[Clock].commit + 1, tree |-> t])
      BY <2>3
    <3>2. world[Clock].commit + 1 \in Nat
      BY <2>1 DEF Snapshot
    <3>3. t \in [Path -> Contents]
      BY DEF Contents
    <3> QED BY <3>1, <3>2, <3>3 DEF Snapshot
  <2> QED BY <2>2, <2>3 DEF Pass
<1>2. FoldTypeOK'
  BY <1>0, <1>1 DEF FoldInv, FoldTypeOK
<1>3. Clock \in Nat /\ Clock' = Clock + 1 /\ \A t \in 1 .. Clock : world'[t] = world[t]
  BY <1>1 DEF FoldInv, FoldTypeOK, Clock
<1>4. ASSUME NEW s, Truthful(s) PROVE Truthful(s)'
  <2>1. s.at \in 1 .. Clock /\ s.at \in 1 .. Clock'
    BY <1>3, <1>4 DEF Truthful
  <2>2. Seen(s.recipe, s.at) = Seen(s.recipe, s.at)'
    BY <1>3, <2>1 DEF Seen
  <2> QED BY <1>4, <2>1, <2>2 DEF Truthful
<1>5. SawTheWorld'
  BY <1>0, <1>4 DEF FoldInv, SawTheWorld
<1> QED BY <1>2, <1>5 DEF FoldInv

\* A statement of what was seen then is as good as one of now.
LEMMA AppendInv ==
  ASSUME FoldInv, world' = world, NEW s \in Statement, Truthful(s), log' = Append(log, s)
  PROVE  FoldInv'
<1>1. FoldTypeOK'
  BY DEF FoldInv, FoldTypeOK
<1>2. \A i \in DOMAIN log' : log'[i] = s \/ (i \in DOMAIN log /\ log'[i] = log[i])
  BY DEF FoldInv, FoldTypeOK
<1>3. \A i \in DOMAIN log' : Truthful(log'[i])
  BY <1>2 DEF FoldInv, SawTheWorld
<1>4. \A e : Truthful(e) <=> Truthful(e)'
  BY DEF Truthful, Clock, Seen
<1>5. SawTheWorld'
  BY <1>3, <1>4 DEF SawTheWorld, Truthful, Clock, Seen
<1> QED BY <1>1, <1>5 DEF FoldInv

LEMMA FoldStepInv == FoldInv /\ [Next]_vars => FoldInv'
<1> SUFFICES ASSUME FoldInv, [Next]_vars PROVE FoldInv'
  OBVIOUS
<1>0. Clock \in Nat \ {0}
  BY DEF FoldInv, FoldTypeOK, Clock
<1>1. CASE Pass
  BY <1>1, PassInv
<1>2. ASSUME NEW r \in Recipe, ScopeOut(r) PROVE FoldInv'
  <2> DEFINE s == [kind |-> "scoping", recipe |-> r, verdict |-> "none", at |-> Clock,
                   commit |-> 0, seen |-> <<>>]
  <2>0. <<>> \in Sight
    BY DEF Sight
  <2>1. s \in Statement /\ s.at \in 1 .. Clock /\ s.kind # "evidence"
    <3> HIDE DEF Clock
    <3>1. s.at \in 1 .. Clock /\ s.kind = "scoping"
      BY <1>0
    <3>2. s \in Statement
      BY <1>0, <2>0 DEF Statement
    <3> QED BY <3>1, <3>2
  <2>2. Truthful(s)
    BY <2>1 DEF Truthful
  <2>3. world' = world /\ log' = Append(log, s)
    BY <1>2 DEF ScopeOut
  <2> HIDE DEF s
  <2> QED BY <2>1, <2>2, <2>3, AppendInv
<1>3. ASSUME NEW r \in Recipe, NEW at \in 1 .. Clock, NEW v \in Verdicts(r), Record(r, v, at)
      PROVE  FoldInv'
  <2> DEFINE c == IF Anchors[r] = <<>> THEN 0 ELSE world[at].commit
             s == [kind |-> "evidence", recipe |-> r, verdict |-> v, at |-> at, commit |-> c,
                   seen |-> Seen(r, at)]
  <2>1. world[at] \in Snapshot /\ at \in Nat
    BY DEF FoldInv, FoldTypeOK, Clock
  <2>2. Seen(r, at) \in Sight
    <3>1. PathsOf(r) \subseteq Path
      BY DEF PathsOf, Path
    <3>2. Seen(r, at) \in [PathsOf(r) -> Contents]
      BY <2>1, <3>1 DEF Seen, Snapshot
    <3> QED BY <3>2 DEF Sight
  <2>3. c \in Nat
    BY <2>1 DEF Snapshot
  <2>4. v \in Verdict
    BY DEF Verdicts, Verdict
  <2>5. world' = world /\ log' = Append(log, s)
    BY <1>3 DEF Record
  <2> HIDE DEF c
  <2>6. s \in Statement
    BY <2>1, <2>2, <2>3, <2>4 DEF Statement
  <2>7. Truthful(s)
    BY DEF Truthful
  <2> HIDE DEF s
  <2> QED BY <2>5, <2>6, <2>7, AppendInv
<1>4. CASE UNCHANGED vars
  BY <1>4 DEF vars, FoldInv, FoldTypeOK, SawTheWorld, Truthful, Clock, Seen
<1> QED BY <1>1, <1>2, <1>3, <1>4 DEF Next

\* Every ledger of Fold's is of this kind.
LEMMA FoldInvariant == Spec => []FoldInv
  BY FoldInitInv, FoldStepInv, PTL DEF Spec

\* Its statements have instants.
LEMMA FoldIsTimed ==
  ASSUME FoldInv
  PROVE  Timed /\ Clock \in Nat \ {0}
<1>1. Clock \in Nat \ {0} /\ Len(log) \in Nat /\ DOMAIN log = 1 .. Len(log)
  BY DEF FoldInv, FoldTypeOK, Clock
<1>2. \A i \in DOMAIN log : log[i].at \in 0 .. Clock
  BY <1>1 DEF FoldInv, SawTheWorld, Truthful
<1> QED BY <1>1, <1>2 DEF Timed

\* What the board says of failing and of lapsing recounts what the ledger holds
\* (fold.ts, foldEntries: the streak, the episodes and the gaps).
THEOREM FailuresAreAlwaysTimed == Spec => []FailuresAreTimed
<1>1. FoldInv => FailuresAreTimed
  <2> SUFFICES ASSUME FoldInv PROVE FailuresAreTimed
    OBVIOUS
  <2>1. \A r \in Recipe : \A i \in Chain(Whole, r) :
          log[i].verdict \in {"evidenced", "violated", "unevidenced"}
    BY DEF FoldInv, SawTheWorld, Truthful, Chain, Evidence, Whole, Verdicts
  <2>2. Timed /\ Clock \in Nat
    BY FoldIsTimed
  <2> QED BY <2>1, <2>2, GapsRecount, StreakRecounts DEF FailuresAreTimed
<1> QED BY <1>1, FoldInvariant, PTL

-----------------------------------------------------------------------------
(* Deaths. *)

\* The greatest of a set is what it has and nothing in it exceeds.
LEMMA MaxIs ==
  ASSUME NEW S, S \subseteq Nat, NEW m \in S, \A y \in S : y <= m
  PROVE  Max(S) = m
<1>1. \A y \in S : m >= y
  OBVIOUS
<1> DEFINE x == Max(S)
<1>2. x \in S /\ \A y \in S : x >= y
  BY <1>1 DEF Max
<1> HIDE DEF x
<1>3. x \in Nat /\ m \in Nat /\ x <= m /\ x >= m
  BY <1>2
<1>4. x = m
  BY <1>3
<1> QED BY <1>4 DEF x

\* A bundle of evidence holds what its anchors held at its instant.
LEMMA EvidenceSaw ==
  ASSUME FoldInv, NEW i \in Evidence(Whole)
  PROVE  /\ i \in DOMAIN log /\ log[i].at \in Nat /\ log[i].recipe \in Recipe
         /\ log[i].seen = [p \in PathsOf(log[i].recipe) |-> world[log[i].at].tree[p]]
         /\ DOMAIN log[i].seen = PathsOf(log[i].recipe)
<1>1. i \in DOMAIN log /\ log[i].kind = "evidence"
  BY DEF Evidence, Whole
<1>2. log[i] \in Statement
  BY <1>1 DEF FoldInv, FoldTypeOK
<1>3. log[i].seen = Seen(log[i].recipe, log[i].at)
  BY <1>1 DEF FoldInv, SawTheWorld, Truthful
<1> QED BY <1>1, <1>2, <1>3 DEF Statement, Seen

LEMMA SawThen ==
  ASSUME FoldInv, NEW i \in Evidence(Whole), NEW p \in DOMAIN log[i].seen
  PROVE  log[i].seen[p] = world[log[i].at].tree[p]
<1>1. log[i].seen = [a \in PathsOf(log[i].recipe) |-> world[log[i].at].tree[a]]
  BY EvidenceSaw
<1>2. p \in PathsOf(log[i].recipe)
  BY EvidenceSaw
<1> QED BY <1>1, <1>2

Watchers(p) == {j \in Evidence(Whole) : p \in DOMAIN log[j].seen}

\* The last look at a path found what the path held then.
LEMMA ObserverSaw ==
  ASSUME FoldInv, NEW i \in Evidence(Whole), NEW p \in DOMAIN log[i].seen
  PROVE  LET o == Observer(Whole, p) IN
         /\ o \in Evidence(Whole) /\ p \in DOMAIN log[o].seen
         /\ log[i].at <= log[o].at
         /\ log[o].seen[p] = LastSeen(p) /\ log[o].seen[p] = world[log[o].at].tree[p]
<1> DEFINE o == Observer(Whole, p)
<1>1. o = LastOf(Watchers(p)) /\ i \in Watchers(p) /\ Watchers(p) \subseteq DOMAIN log
  BY EvidenceSaw DEF Observer, Watchers
<1>2. IsLast(o, Watchers(p))
  BY <1>1, FoldIsTimed, ThereIsALast
<1>3. LastSeen(p) = world[Max({log[j].at : j \in Watchers(p)})].tree[p]
  BY DEF LastSeen, Watchers
<1> HIDE DEF o
<1>4. o \in Evidence(Whole) /\ p \in DOMAIN log[o].seen
  BY <1>2 DEF IsLast, Watchers
<1>5. \A j \in Watchers(p) : log[j].at \in Nat /\ log[j].at <= log[o].at
  <2>1. \A j \in Watchers(p) : log[j].at \in Nat
    BY EvidenceSaw DEF Watchers
  <2>2. \A j \in Watchers(p) : j = o \/ Before(j, o)
    BY <1>2 DEF IsLast
  <2>3. o \in Watchers(p)
    BY <1>2 DEF IsLast
  <2> QED BY <2>1, <2>2, <2>3 DEF Before
<1>6. Max({log[j].at : j \in Watchers(p)}) = log[o].at
  <2> DEFINE A == {log[j].at : j \in Watchers(p)}
  <2>1. A \subseteq Nat /\ log[o].at \in A /\ \A y \in A : y <= log[o].at
    BY <1>2, <1>5 DEF IsLast
  <2> HIDE DEF A
  <2>2. Max(A) = log[o].at
    BY <2>1, MaxIs
  <2> QED BY <2>2 DEF A
<1>7. log[o].seen[p] = world[log[o].at].tree[p]
  BY <1>4, EvidenceSaw
<1>8. log[i].at <= log[o].at
  BY <1>1, <1>5
<1> QED BY <1>3, <1>4, <1>6, <1>7, <1>8 DEF o

\* An anchor is among the changed exactly when the last look at it found another content.
LEMMA ChangedIsSeen ==
  ASSUME FoldInv, NEW i \in Evidence(Whole)
  PROVE  Changed(Whole, i) = {} <=> \A p \in DOMAIN log[i].seen : LastSeen(p) = log[i].seen[p]
<1> DEFINE paths == Anchors[log[i].recipe]
<1>1. DOMAIN log[i].seen = {paths[k] : k \in DOMAIN paths}
  BY EvidenceSaw DEF PathsOf
<1>2. ASSUME NEW p \in DOMAIN log[i].seen
      PROVE  LET o == Observer(Whole, p) IN
             (log[o].at > log[i].at /\ log[o].seen[p] # log[i].seen[p]) <=> LastSeen(p) # log[i].seen[p]
  <2> DEFINE o == Observer(Whole, p)
  <2>1. /\ o \in Evidence(Whole) /\ log[i].at <= log[o].at
        /\ log[o].seen[p] = LastSeen(p) /\ log[o].seen[p] = world[log[o].at].tree[p]
    BY ObserverSaw
  <2> HIDE DEF o
  <2>2. log[i].at \in Nat /\ log[o].at \in Nat /\ log[i].seen[p] = world[log[i].at].tree[p]
    BY <2>1, EvidenceSaw
  <2>3. log[o].at > log[i].at \/ log[o].at = log[i].at
    BY <2>1, <2>2
  <2>4. (log[o].at > log[i].at /\ log[o].seen[p] # log[i].seen[p]) <=> LastSeen(p) # log[i].seen[p]
    BY <2>1, <2>2, <2>3
  <2> QED BY <2>4 DEF o
<1> QED BY <1>1, <1>2 DEF Changed

\* Of the anchors that changed there is a first.
LEMMA FirstChanged ==
  ASSUME FoldInv, NEW i \in Evidence(Whole), Changed(Whole, i) # {}
  PROVE  Min(Changed(Whole, i)) \in Changed(Whole, i)
<1>1. Anchors[log[i].recipe] \in Seq({Anchors[log[i].recipe][k] : k \in DOMAIN Anchors[log[i].recipe]})
  BY EvidenceSaw, ChainsAssumption DEF Recipe
<1>2. DOMAIN Anchors[log[i].recipe] \subseteq Nat
  BY <1>1
<1>3. Changed(Whole, i) \subseteq Nat
  BY <1>2 DEF Changed
<1>4. PICK m \in Changed(Whole, i) : \A k \in Changed(Whole, i) : m <= k
  BY <1>3, LeastOf
<1> QED BY <1>4 DEF Min

\* What is dead did change, and what lives did not: the tail of a chain by the last
\* look at each of its anchors, whoever took it, and the others by their successor
\* (fold.ts, foldEntries: pathObservations and the deaths).
LEMMA DeathsHold ==
  ASSUME FoldInv
  PROVE  DeathIsDeserved
<1> SUFFICES ASSUME NEW i \in Evidence(Whole)
             PROVE  LET s == Status(Whole, i)
                        Differs(t) == \E p \in DOMAIN log[i].seen : world[t].tree[p] # log[i].seen[p]
                    IN /\ Later(Whole, i) = {} =>
                            (s.state = "live" <=> \A p \in DOMAIN log[i].seen : LastSeen(p) = log[i].seen[p])
                       /\ s.cause = "anchor-drift" => Differs(log[s.by].at)
                       /\ s.cause = "superseded" => ~Differs(log[s.by].at)
  BY DEF DeathIsDeserved
<1> DEFINE s == Status(Whole, i)
           Differs(t) == \E p \in DOMAIN log[i].seen : world[t].tree[p] # log[i].seen[p]
<1>1. CASE Later(Whole, i) # {}
  <2> DEFINE q == FirstOf(Later(Whole, i))
  <2>1. q \in Evidence(Whole) /\ log[q].recipe = log[i].recipe
    <3>1. Later(Whole, i) \subseteq DOMAIN log
      BY DEF Later, Chain, Evidence, Whole
    <3>2. q \in Later(Whole, i)
      BY <1>1, <3>1, FoldIsTimed, ThereIsAFirst DEF IsFirst
    <3> QED BY <3>2 DEF Later, Chain
  <2>2. s.by = q /\ s.cause = IF log[i].seen # log[q].seen THEN "anchor-drift" ELSE "superseded"
    BY <1>1 DEF Status
  <2> HIDE DEF q, s
  <2>3. /\ DOMAIN log[i].seen = DOMAIN log[q].seen
        /\ \A p \in DOMAIN log[i].seen : log[q].seen[p] = world[log[q].at].tree[p]
    BY <2>1, EvidenceSaw
  <2>4. Differs(log[q].at) <=> \E p \in DOMAIN log[i].seen : log[q].seen[p] # log[i].seen[p]
    BY <2>3
  <2>5. (\A p \in DOMAIN log[i].seen : log[q].seen[p] = log[i].seen[p]) <=> log[i].seen = log[q].seen
    <3>1. log[i].seen = [p \in PathsOf(log[i].recipe) |-> world[log[i].at].tree[p]]
          /\ log[q].seen = [p \in PathsOf(log[i].recipe) |-> world[log[q].at].tree[p]]
      BY <2>1, EvidenceSaw
    <3> QED BY <3>1
  <2>6. Differs(log[q].at) <=> log[i].seen # log[q].seen
    BY <2>4, <2>5
  <2> HIDE DEF Differs
  <2>7. (s.cause = "anchor-drift" => Differs(log[s.by].at)) /\ (s.cause = "superseded" => ~Differs(log[s.by].at))
    BY <2>2, <2>6
  <2> QED BY <1>1, <2>7 DEF s, Differs
<1>2. CASE Later(Whole, i) = {} /\ Changed(Whole, i) # {}
  <2> DEFINE k == Min(Changed(Whole, i))
             p == Anchors[log[i].recipe][k]
             o == Observer(Whole, p)
  <2>1. k \in DOMAIN Anchors[log[i].recipe] /\ log[o].seen[p] # log[i].seen[p]
    BY <1>2, FirstChanged DEF Changed
  <2>2. s.by = o /\ s.cause = "anchor-drift" /\ s.state = "dead"
    <3>1. Status(Whole, i) = [state |-> "dead", cause |-> "anchor-drift", by |-> o]
      BY <1>2, Zenon DEF Status
    <3> HIDE DEF o
    <3> QED BY <3>1
  <2> HIDE DEF k
  <2>3. p \in DOMAIN log[i].seen
    <3>1. DOMAIN log[i].seen = PathsOf(log[i].recipe)
      BY EvidenceSaw
    <3> QED BY <2>1, <3>1 DEF PathsOf
  <2> HIDE DEF p, s
  <2>4. world[log[o].at].tree[p] # log[i].seen[p]
    BY <2>1, <2>3, ObserverSaw
  <2>5. Differs(log[s.by].at)
    BY <2>2, <2>3, <2>4
  <2>6. ~\A a \in DOMAIN log[i].seen : LastSeen(a) = log[i].seen[a]
    BY <1>2, ChangedIsSeen
  <2> HIDE DEF o
  <2> QED BY <2>2, <2>5, <2>6 DEF s
<1>3. CASE Later(Whole, i) = {} /\ Changed(Whole, i) = {}
  <2>1. s.state = "live" /\ s.cause = "none"
    BY <1>3 DEF Status
  <2>2. \A p \in DOMAIN log[i].seen : LastSeen(p) = log[i].seen[p]
    BY <1>3, ChangedIsSeen
  <2> HIDE DEF s
  <2> QED BY <2>1, <2>2 DEF s
<1> QED BY <1>1, <1>2, <1>3

\* No evidence dies while its files stand, and none lives after somebody saw them
\* changed (fold.ts, foldEntries: the deaths).
THEOREM DeathIsAlwaysDeserved == Spec => []DeathIsDeserved
  BY DeathsHold, FoldInvariant, PTL

-----------------------------------------------------------------------------
(* What moves on the board. *)

\* Of any statements, the newest of a chain is followed by none.
LEMMA NewestOf ==
  ASSUME Timed, NEW S, S \subseteq DOMAIN log, NEW r, Chain(S, r) # {}
  PROVE  /\ IsLast(LastOf(Chain(S, r)), Chain(S, r))
         /\ Later(S, LastOf(Chain(S, r))) = {}
         /\ \A i \in Chain(S, r) : Later(S, i) = {} => i = LastOf(Chain(S, r))
<1> DEFINE C == Chain(S, r)
           l == LastOf(C)
<1>1. C \subseteq DOMAIN log /\ \A i \in C : log[i].recipe = r
  BY DEF Chain, Evidence
<1>2. IsLast(l, C)
  BY <1>1, ThereIsALast
<1> HIDE DEF l
<1>3. \A i \in C : Later(S, i) = {j \in C : Before(i, j)}
  BY <1>1 DEF Later
<1>4. l \in C /\ \A j \in C : j = l \/ Before(j, l)
  BY <1>2 DEF IsLast
<1>5. \A j \in C : ~Before(l, j)
  BY <1>1, <1>4, BeforeIsTotal
<1> QED BY <1>2, <1>3, <1>4, <1>5 DEF l

\* The register's row is of the newest bundle, if it lives.
LEMMA RowIsNewest ==
  ASSUME Timed, NEW S, S \subseteq DOMAIN log, NEW r, Live(S, r) # {}
  PROVE  /\ Chain(S, r) # {} /\ Live(S, r) = {LastOf(Chain(S, r))}
         /\ Register(S, r).state = log[LastOf(Chain(S, r))].verdict
         /\ Register(S, r).bundle = LastOf(Chain(S, r))
<1> DEFINE l == LastOf(Chain(S, r))
<1>1. Chain(S, r) # {}
  BY DEF Live
<1>2. \A i \in Live(S, r) : i \in Chain(S, r) /\ Later(S, i) = {}
  BY DEF Live, Status
<1>3. \A i \in Live(S, r) : i = l
  BY <1>1, <1>2, NewestOf
<1> HIDE DEF l
<1>4. Live(S, r) = {l}
  BY <1>3
<1>5. LastOf(Live(S, r)) = l
  <2>1. Live(S, r) \subseteq DOMAIN log
    BY <1>2 DEF Chain, Evidence
  <2>2. LastOf(Live(S, r)) \in Live(S, r)
    BY <2>1, ThereIsALast DEF IsLast
  <2> QED BY <1>4, <2>2
<1>6. Register(S, r).state = log[l].verdict /\ Register(S, r).bundle = l
  BY <1>5 DEF Register
<1> QED BY <1>1, <1>4, <1>6 DEF l

\* Otherwise it is of the scoping, or of nothing.
LEMMA RowOfNone ==
  ASSUME NEW S, NEW r, Live(S, r) = {}
  PROVE  /\ Register(S, r).state = IF Scopings(S, r) # {} THEN "notApplicable" ELSE "unevidenced"
         /\ Register(S, r).bundle = 0
  BY DEF Register

\* A board of the past is of statements of the present one.
LEMMA ScopeGrows ==
  ASSUME FoldInv, NEW b \in Nat
  PROVE  /\ Whole = InScope(Clock) /\ InScope(b) \subseteq DOMAIN log /\ InScope(b) \subseteq Whole
         /\ \A i \in Whole : i \in InScope(b) \/ log[i].at > b
         /\ \A i \in InScope(b) : log[i].at <= b
         /\ \A i \in Whole : log[i].at \in 1 .. Clock
         /\ \A r : Chain(InScope(b), r) = {i \in Chain(Whole, r) : i \in InScope(b)}
         /\ \A r : Scopings(InScope(b), r) = {i \in Scopings(Whole, r) : i \in InScope(b)}
<1>1. \A i \in Whole : log[i].at \in 1 .. Clock
  BY DEF FoldInv, SawTheWorld, Truthful, Whole
<1>2. Clock \in Nat
  BY FoldIsTimed
<1>3. Whole = InScope(Clock)
  BY <1>1, <1>2 DEF Whole, InScope
<1>4. /\ InScope(b) \subseteq DOMAIN log /\ InScope(b) \subseteq Whole
      /\ \A i \in InScope(b) : log[i].at <= b
  BY DEF InScope, Whole
<1>5. \A i \in Whole : i \in InScope(b) \/ log[i].at > b
  BY <1>1, <1>2 DEF InScope, Whole
<1>6. \A r : Chain(InScope(b), r) = {i \in Chain(Whole, r) : i \in InScope(b)}
  BY <1>4 DEF Chain, Evidence
<1>7. \A r : Scopings(InScope(b), r) = {i \in Scopings(Whole, r) : i \in InScope(b)}
  BY <1>4 DEF Scopings
<1> QED BY <1>1, <1>3, <1>4, <1>5, <1>6, <1>7

\* Who looked last at a path, looked last before any later instant.
LEMMA LooksThen ==
  ASSUME FoldInv, NEW b \in Nat, NEW i \in Evidence(InScope(b)), NEW p \in DOMAIN log[i].seen
  PROVE  LET o == Observer(Whole, p)
             u == Observer(InScope(b), p)
         IN /\ u \in Evidence(InScope(b)) /\ p \in DOMAIN log[u].seen
            /\ log[o].at <= b => u = o
            /\ log[u].at <= log[o].at
<1> DEFINE o == Observer(Whole, p)
           u == Observer(InScope(b), p)
           W == {j \in Evidence(InScope(b)) : p \in DOMAIN log[j].seen}
<1>1. i \in Evidence(Whole) /\ W = {j \in Watchers(p) : j \in InScope(b)}
  BY ScopeGrows DEF Evidence, Watchers
<1>2. Watchers(p) \subseteq DOMAIN log /\ i \in Watchers(p)
  BY <1>1 DEF Watchers, Evidence, Whole
<1>3. IsLast(o, Watchers(p))
  BY <1>2, FoldIsTimed, ThereIsALast DEF Observer, Watchers
<1>4. i \in W /\ W \subseteq DOMAIN log
  BY <1>1, <1>2 DEF Evidence
<1> HIDE DEF W
<1>5. IsLast(u, W)
  BY <1>4, FoldIsTimed, ThereIsALast DEF Observer, W
<1> HIDE DEF o, u
<1>6. u \in W /\ o \in Watchers(p) /\ o \in DOMAIN log /\ u \in DOMAIN log
  BY <1>2, <1>3, <1>4, <1>5 DEF IsLast
<1>7. u = o \/ Before(u, o)
  BY <1>1, <1>3, <1>6 DEF IsLast
<1>8. log[u].at <= log[o].at
  <2>1. log[u].at \in Nat /\ log[o].at \in Nat
    BY <1>6, FoldIsTimed DEF Timed
  <2> QED BY <1>7, <2>1 DEF Before
<1>9. log[o].at <= b => u = o
  <2> SUFFICES ASSUME log[o].at <= b PROVE u = o
    OBVIOUS
  <2>1. o \in W
    BY <1>1, <1>6 DEF InScope
  <2>2. o = u \/ Before(o, u)
    BY <1>5, <2>1 DEF IsLast
  <2> QED BY <1>6, <1>7, <2>2, FoldIsTimed, BeforeIsTotal
<1>10. u \in Evidence(InScope(b)) /\ p \in DOMAIN log[u].seen
  BY <1>6 DEF W
<1> QED BY <1>8, <1>9, <1>10 DEF o, u

\* What tells of a death.
DiedAfter(r, b) ==
  \E e \in Drift(Whole) :
    e.recipe = r /\ e.at > b /\ e.at \in 1 .. Clock /\ e.kind \in {"died", "verdict-flipped"}

LEMMA DeathIsTold ==
  ASSUME FoldInv, NEW b \in Nat, NEW i \in Evidence(Whole),
         Status(Whole, i).state = "dead", Status(Whole, i).by \in Whole,
         log[Status(Whole, i).by].at > b
  PROVE  DiedAfter(log[i].recipe, b)
<1> DEFINE q == Status(Whole, i).by
           e == Event(log[i].recipe, log[q].at,
                      IF log[q].recipe # log[i].recipe \/ log[q].verdict = log[i].verdict THEN "died"
                      ELSE "verdict-flipped", log[q].commit)
<1>1. e \in Deaths(Whole)
  BY DEF Deaths
<1>0. log[q].at \in 1 .. Clock
  BY ScopeGrows
<1> HIDE DEF q
<1>2. e.recipe = log[i].recipe /\ e.at = log[q].at /\ e.kind \in {"died", "verdict-flipped"}
  BY DEF Event
<1> HIDE DEF e
<1>3. e \in Drift(Whole)
  BY <1>1 DEF Drift
<1> QED BY <1>0, <1>2, <1>3 DEF DiedAfter, q

\* What lived then and does not now, died since, and the drift view tells of it.
LEMMA DeathIsNew ==
  ASSUME FoldInv, NEW b \in Nat, NEW r, NEW i \in Live(InScope(b), r), i \notin Live(Whole, r)
  PROVE  DiedAfter(r, b)
<1>1. /\ i \in Chain(InScope(b), r) /\ Later(InScope(b), i) = {}
      /\ i \in Chain(Whole, r) /\ i \in Evidence(Whole) /\ i \in Evidence(InScope(b))
      /\ Changed(InScope(b), i) = {} /\ log[i].recipe = r /\ i \in DOMAIN log
  BY ScopeGrows DEF Live, Status, Chain, Evidence
<1>2. Status(Whole, i).state = "dead"
  BY <1>1 DEF Live, Status
<1>3. Status(Whole, i).by \in Whole /\ log[Status(Whole, i).by].at > b
  <2>1. CASE Later(Whole, i) # {}
    <3> DEFINE q == FirstOf(Later(Whole, i))
    <3>1. Status(Whole, i).by = q
      BY <2>1 DEF Status
    <3>2. q \in Chain(Whole, r) /\ Before(i, q)
      BY <1>1, <2>1, FoldIsTimed, LaterInChain DEF IsFirst
    <3> HIDE DEF q
    <3>3. q \notin InScope(b)
      <4> SUFFICES ASSUME q \in InScope(b) PROVE FALSE
        OBVIOUS
      <4>1. q \in Later(InScope(b), i)
        BY <1>1, <3>2, ScopeGrows DEF Later
      <4> QED BY <1>1, <4>1
    <3>4. q \in Whole
      BY <3>2 DEF Chain, Evidence
    <3> QED BY <3>1, <3>3, <3>4, ScopeGrows
  <2>2. CASE Later(Whole, i) = {}
    <3> DEFINE k == Min(Changed(Whole, i))
               p == Anchors[log[i].recipe][k]
               o == Observer(Whole, p)
    <3>1. Changed(Whole, i) # {}
      BY <1>2, <2>2 DEF Status
    <3>2. Status(Whole, i).by = o
      BY <2>2, <3>1 DEF Status
    <3>3. k \in DOMAIN Anchors[log[i].recipe] /\ log[o].at > log[i].at /\ log[o].seen[p] # log[i].seen[p]
      BY <1>1, <3>1, FirstChanged DEF Changed
    <3> HIDE DEF k
    <3>4. p \in DOMAIN log[i].seen
      <4>1. DOMAIN log[i].seen = PathsOf(log[i].recipe)
        BY <1>1, EvidenceSaw
      <4> QED BY <3>3, <4>1 DEF PathsOf
    <3>5. ~(log[o].at <= b)
      <4> SUFFICES ASSUME log[o].at <= b PROVE FALSE
        OBVIOUS
      <4>1. Observer(InScope(b), p) = o
        BY <1>1, <3>4, LooksThen
      <4>2. k \in Changed(InScope(b), i)
        BY <3>3, <4>1 DEF Changed
      <4> QED BY <1>1, <4>2
    <3>6. o \in Whole /\ log[o].at \in Nat
      <4>1. o \in Evidence(Whole)
        BY <1>1, <3>4, ObserverSaw
      <4> HIDE DEF o
      <4> QED BY <4>1, EvidenceSaw DEF Evidence
    <3> HIDE DEF o
    <3> QED BY <3>2, <3>5, <3>6
  <2> QED BY <2>1, <2>2
<1> QED BY <1>1, <1>2, <1>3, DeathIsTold

\* When the board of this instant differs from the last one in a cell, the drift view
\* has an event of that recipe now, or evidence came back to life.
LEMMA MovementsHaveEvents ==
  ASSUME FoldInv
  PROVE  EventsTellMovements
<1> DEFINE b == Clock - 1
           Eventful(r) == \E e \in Drift(Whole) : e.recipe = r /\ e.at = Clock
<1> SUFFICES ASSUME NEW r \in Recipe, ~Eventful(r), ~Returned(r, Clock)
             PROVE  Shown(b, r) = Shown(Clock, r)
  BY DEF EventsTellMovements
<1>1. b \in Nat /\ Clock \in Nat \ {0} /\ Clock = b + 1 /\ Timed
  BY FoldIsTimed
<1> HIDE DEF b
<1>2. \A i \in Whole : log[i].at > b <=> log[i].at = Clock
  BY <1>1, ScopeGrows
<1>0. /\ \A i \in Whole : i \in InScope(b) \/ log[i].at > b
      /\ Scopings(InScope(b), r) = {i \in Scopings(Whole, r) : i \in InScope(b)}
      /\ Chain(InScope(b), r) = {i \in Chain(Whole, r) : i \in InScope(b)}
  BY <1>1, ScopeGrows
<1>3. Scopings(InScope(b), r) = Scopings(Whole, r)
  <2> SUFFICES ASSUME NEW i \in Scopings(Whole, r), i \notin InScope(b) PROVE FALSE
    BY <1>0
  <2>1. i \in Whole /\ log[i].kind = "scoping" /\ log[i].recipe = r /\ log[i].at = Clock
    <3>1. i \in Whole /\ log[i].kind = "scoping" /\ log[i].recipe = r
      BY DEF Scopings
    <3>2. log[i].at > b
      BY <1>0, <3>1
    <3> QED BY <1>2, <3>1, <3>2
  <2>2. Event(r, Clock, "scoped", 0) \in Drift(Whole)
    BY <2>1 DEF Drift, Scoped
  <2>3. Event(r, Clock, "scoped", 0).recipe = r /\ Event(r, Clock, "scoped", 0).at = Clock
    BY DEF Event
  <2> QED BY <2>2, <2>3
<1>4. Chain(InScope(b), r) = Chain(Whole, r)
  <2> SUFFICES ASSUME NEW i \in Chain(Whole, r), i \notin InScope(b) PROVE FALSE
    BY <1>0
  <2>1. i \in Whole /\ log[i].at = Clock /\ i \in Evidence(Whole) /\ log[i].recipe = r
    <3>1. i \in Whole /\ i \in Evidence(Whole) /\ log[i].recipe = r
      BY DEF Chain, Evidence
    <3> QED BY <1>0, <1>2, <3>1
  <2>2. CASE Earlier(Whole, i) = {}
    <3> DEFINE f == FirstOf(Chain(Whole, r))
               e == Event(r, log[f].at, "born", 0)
    <3>1. Chain(Whole, r) \subseteq DOMAIN log
      BY DEF Chain, Evidence, Whole
    <3>2. IsFirst(f, Chain(Whole, r))
      BY <1>1, <3>1, ThereIsAFirst
    <3> HIDE DEF f
    <3>3. f = i
      BY <1>1, <2>2, <3>2, LaterInChain DEF IsFirst
    <3>4. e \in Births(Whole)
      BY DEF Births, f
    <3>5. e.recipe = r /\ e.at = Clock
      BY <2>1, <3>3 DEF Event
    <3> HIDE DEF e
    <3>6. e \in Drift(Whole)
      BY <3>4 DEF Drift
    <3> QED BY <3>5, <3>6
  <2>3. CASE Earlier(Whole, i) # {}
    <3> DEFINE p == LastOf(Earlier(Whole, i))
    <3>1. p \in Chain(Whole, r) /\ Before(p, i) /\ \A j \in Chain(Whole, r) : Before(j, i) => j = p \/ Before(j, p)
      BY <1>1, <2>3, LaterInChain DEF IsLast
    <3> HIDE DEF p
    <3>2. i \in Later(Whole, p) /\ p \in DOMAIN log /\ i \in DOMAIN log
      BY <1>1, <3>1, LaterInChain
    <3> DEFINE q == FirstOf(Later(Whole, p))
    <3>3. q \in Chain(Whole, r) /\ Before(p, q) /\ (q = i \/ Before(q, i)) /\ q \in DOMAIN log
      BY <1>1, <3>1, <3>2, LaterInChain DEF IsFirst
    <3>4. Status(Whole, p).state = "dead" /\ Status(Whole, p).by = q
      BY <3>2 DEF Status
    <3> HIDE DEF q
    <3>5. q = i
      <4> SUFFICES ASSUME Before(q, i) PROVE FALSE
        BY <3>3
      <4>1. q = p \/ Before(q, p)
        BY <3>1, <3>3
      <4> QED BY <1>1, <3>2, <3>3, <4>1, BeforeIsTotal
    <3>6. p \in Evidence(Whole) /\ log[p].recipe = r
      BY <3>1 DEF Chain
    <3>7. DiedAfter(r, b)
      BY <1>1, <1>2, <2>1, <3>4, <3>5, <3>6, DeathIsTold
    <3>8. PICK e \in Drift(Whole) : e.recipe = r /\ e.at > b /\ e.at \in 1 .. Clock
      BY <3>7 DEF DiedAfter
    <3>9. e.at = Clock
      BY <1>1, <3>8
    <3> QED BY <3>8, <3>9
  <2> QED BY <2>2, <2>3
<1>5. Live(InScope(b), r) = Live(Whole, r)
  <2>1. ASSUME NEW i \in Live(InScope(b), r), i \notin Live(Whole, r) PROVE FALSE
    <3>1. PICK e \in Drift(Whole) : e.recipe = r /\ e.at > b /\ e.at \in 1 .. Clock
      BY <1>1, <2>1, DeathIsNew DEF DiedAfter
    <3>2. e.at = Clock
      BY <1>1, <3>1
    <3> QED BY <3>1, <3>2
  <2>2. ASSUME NEW i \in Live(Whole, r), i \notin Live(InScope(b), r) PROVE FALSE
    <3>1. /\ i \in Chain(Whole, r) /\ i \in Chain(InScope(b), r) /\ Later(Whole, i) = {}
          /\ i \in Evidence(Whole) /\ i \in Evidence(InScope(b)) /\ Changed(Whole, i) = {}
          /\ log[i].recipe = r
      BY <1>4, <2>2 DEF Live, Status, Chain
    <3>2. Later(InScope(b), i) = {}
      BY <1>4, <3>1 DEF Later
    <3>3. PICK k \in DOMAIN Anchors[r] :
            LET o == Observer(InScope(b), Anchors[r][k]) IN
            log[o].at > log[i].at /\ log[o].seen[Anchors[r][k]] # log[i].seen[Anchors[r][k]]
      <4>1. Changed(InScope(b), i) # {}
        BY <2>2, <3>1, <3>2 DEF Live, Status
      <4> QED BY <3>1, <4>1 DEF Changed
    <3> DEFINE p == Anchors[r][k]
               u == Observer(InScope(b), p)
               o == Observer(Whole, p)
    <3>4. p \in DOMAIN log[i].seen
      <4>1. DOMAIN log[i].seen = PathsOf(r)
        BY <3>1, EvidenceSaw
      <4> QED BY <4>1 DEF PathsOf
    <3>5. log[u].at > log[i].at /\ log[u].seen[p] # log[i].seen[p]
      BY <3>3
    <3> HIDE DEF p
    <3>6. /\ u \in Evidence(InScope(b)) /\ p \in DOMAIN log[u].seen
          /\ log[o].at <= b => u = o
      BY <1>1, <3>1, <3>4, LooksThen
    <3>7. /\ o \in Evidence(Whole) /\ log[o].seen[p] = LastSeen(p)
          /\ log[o].seen[p] = world[log[o].at].tree[p]
      BY <3>1, <3>4, ObserverSaw
    <3>8. log[i].seen[p] = LastSeen(p)
      BY <3>1, <3>4, ChangedIsSeen
    <3> HIDE DEF u, o
    <3>9. u # o
      BY <3>5, <3>7, <3>8
    <3>10. u \in Evidence(Whole) /\ u \in Whole /\ o \in Whole /\ i \in Whole
      BY <1>1, <3>1, <3>6, <3>7, ScopeGrows DEF Evidence
    <3>11. /\ log[o].at = Clock
           /\ log[u].at \in 1 .. Clock /\ log[i].at \in 1 .. Clock
      BY <1>1, <3>6, <3>9, <3>10, ScopeGrows
    <3>12. world[log[u].at].tree[p] = log[u].seen[p] /\ world[log[i].at].tree[p] = log[i].seen[p]
      BY <3>1, <3>4, <3>6, <3>10, SawThen
    <3>13. p \in PathsOf(r)
      BY DEF p, PathsOf
    <3>14. /\ log[i].at < log[u].at /\ world[log[i].at].tree[p] = world[Clock].tree[p]
           /\ world[log[u].at].tree[p] # world[Clock].tree[p]
      BY <1>1, <3>5, <3>7, <3>8, <3>11, <3>12
    <3> QED BY <3>11, <3>13, <3>14 DEF Returned
  <2> QED BY <2>1, <2>2
<1>6. Register(InScope(b), r).state = Register(Whole, r).state
      /\ Register(InScope(b), r).bundle = Register(Whole, r).bundle
  BY <1>3, <1>5 DEF Register
<1>7. Shown(b, r) = <<Register(InScope(b), r).state, Register(InScope(b), r).bundle>>
      /\ Shown(Clock, r) = <<Register(Whole, r).state, Register(Whole, r).bundle>>
  BY <1>1, ScopeGrows DEF Shown
<1> QED BY <1>6, <1>7

\* A bundle gives a verdict its recipe may give.
LEMMA VerdictOfBundle ==
  ASSUME FoldInv, NEW r, NEW i \in Chain(Whole, r)
  PROVE  log[i].verdict \in Verdicts(r) /\ log[i].verdict \in Verdict /\ r \in Recipe
<1>1. i \in DOMAIN log /\ log[i].kind = "evidence" /\ log[i].recipe = r /\ i \in Evidence(Whole)
  BY DEF Chain, Evidence, Whole
<1>2. log[i].verdict \in Verdicts(r)
  BY <1>1 DEF FoldInv, SawTheWorld, Truthful
<1> QED BY <1>1, <1>2, EvidenceSaw DEF Verdicts, Verdict

\* What a board shows of a recipe, by what lives.
LEMMA StateByLife ==
  ASSUME FoldInv, NEW S, S \subseteq Whole, NEW r
  PROVE  /\ Live(S, r) # {} =>
              /\ Chain(S, r) # {} /\ LastOf(Chain(S, r)) \in Chain(Whole, r)
              /\ Live(S, r) = {LastOf(Chain(S, r))}
              /\ StateOf(S, r) = log[LastOf(Chain(S, r))].verdict
              /\ StateOf(S, r) \in Verdict
         /\ Live(S, r) = {} => StateOf(S, r) \in {"notApplicable", "unevidenced", "none"}
         /\ Live(S, r) = {} => (StateOf(S, r) = "notApplicable" <=> r \in Recipe /\ Scopings(S, r) # {})
<1>0. S \subseteq DOMAIN log /\ Timed
  BY FoldIsTimed DEF Whole
<1>1. ASSUME Live(S, r) # {}
      PROVE  /\ Chain(S, r) # {} /\ LastOf(Chain(S, r)) \in Chain(Whole, r)
             /\ Live(S, r) = {LastOf(Chain(S, r))}
             /\ StateOf(S, r) = log[LastOf(Chain(S, r))].verdict
             /\ StateOf(S, r) \in Verdict
  <2> DEFINE l == LastOf(Chain(S, r))
  <2>1. Chain(S, r) # {} /\ Live(S, r) = {l} /\ Register(S, r).state = log[l].verdict
    BY <1>0, <1>1, RowIsNewest
  <2> HIDE DEF l
  <2>2. l \in Chain(Whole, r)
    BY <2>1 DEF Live, Chain, Evidence
  <2>3. r \in Recipe /\ log[l].verdict \in Verdict
    BY <2>2, VerdictOfBundle
  <2>4. StateOf(S, r) = log[l].verdict
    BY <2>1, <2>3 DEF StateOf, Cells
  <2> QED BY <2>1, <2>2, <2>3, <2>4 DEF l
<1>2. ASSUME Live(S, r) = {}
      PROVE  /\ StateOf(S, r) \in {"notApplicable", "unevidenced", "none"}
             /\ StateOf(S, r) = "notApplicable" <=> r \in Recipe /\ Scopings(S, r) # {}
  <2>1. Register(S, r).state = IF Scopings(S, r) # {} THEN "notApplicable" ELSE "unevidenced"
    BY <1>2, RowOfNone
  <2>2. r \in Recipe /\ Scopings(S, r) # {} => r \in Cells(S)
    BY DEF Cells
  <2>3. r \in Cells(S) => r \in Recipe
    BY DEF Cells
  <2> QED BY <2>1, <2>2, <2>3 DEF StateOf
<1> QED BY <1>1, <1>2

\* The newest of now was the newest then, if it was there.
LEMMA NewestThen ==
  ASSUME FoldInv, NEW b \in Nat, NEW r, Chain(Whole, r) # {}, LastOf(Chain(Whole, r)) \in InScope(b)
  PROVE  /\ LastOf(Chain(InScope(b), r)) = LastOf(Chain(Whole, r))
         /\ LastOf(Chain(Whole, r)) \in Chain(InScope(b), r)
<1> DEFINE l == LastOf(Chain(Whole, r))
           m == LastOf(Chain(InScope(b), r))
<1>0. Timed /\ Whole \subseteq DOMAIN log /\ InScope(b) \subseteq DOMAIN log
  BY FoldIsTimed, ScopeGrows DEF Whole
<1>1. IsLast(l, Chain(Whole, r))
  BY <1>0, NewestOf
<1>2. l \in Chain(InScope(b), r)
  BY <1>1, ScopeGrows DEF IsLast
<1>3. IsLast(m, Chain(InScope(b), r))
  BY <1>0, <1>2, NewestOf
<1> HIDE DEF l, m
<1>4. m \in Chain(Whole, r) /\ m \in DOMAIN log /\ l \in DOMAIN log
  BY <1>0, <1>1, <1>3, ScopeGrows DEF IsLast, Chain, Evidence
<1>5. m = l \/ (Before(l, m) /\ Before(m, l))
  BY <1>1, <1>2, <1>3, <1>4 DEF IsLast
<1>6. m = l
  BY <1>0, <1>4, <1>5, BeforeIsTotal
<1> QED BY <1>2, <1>6 DEF l, m

\* A bundle that is the newest is dead if none of its chain lives.
LEMMA TailIsDead ==
  ASSUME FoldInv, NEW S, S \subseteq Whole, NEW r, Chain(S, r) # {}, Live(S, r) = {}
  PROVE  DeadTail(S, r, log[LastOf(Chain(S, r))].verdict)
<1> DEFINE l == LastOf(Chain(S, r))
<1>1. l \in Chain(S, r) /\ Later(S, l) = {}
  BY NewestOf, FoldIsTimed DEF IsLast, Whole
<1> HIDE DEF l
<1>2. Status(S, l).state \in {"live", "dead"}
  BY <1>1 DEF Status
<1>3. Status(S, l).state = "dead"
  BY <1>1, <1>2 DEF Live
<1> QED BY <1>1, <1>3 DEF DeadTail, l

\* Each change of a cell since a baseline has its reason.
Explained(r, b, kind, introducedAt) ==
  CASE kind = "newly-violated" -> introducedAt > b \/ DeadTail(InScope(b), r, "violated")
    [] kind \in {"resolved", "newly-evidenced"} ->
         (\E i \in Chain(Whole, r) : log[i].at > b /\ log[i].verdict = "evidenced")
         \/ DeadTail(InScope(b), r, "evidenced")
    [] kind = "evidence-lapsed" -> DiedAfter(r, b)
    [] kind = "scoped" -> (\E i \in Scopings(Whole, r) : log[i].at > b) \/ DiedAfter(r, b)
    [] kind = "appeared" -> \E i \in Whole : log[i].at > b
    [] kind = "unscoped" ->
         Ingested(r) /\ \E i \in Chain(Whole, r) : log[i].at > b /\ log[i].verdict = "unevidenced"
    [] OTHER -> FALSE

\* What is newly violated began since, or had died violated by then.
LEMMA NewlyViolated ==
  ASSUME FoldInv, NEW b \in Nat, NEW r, StateOf(Whole, r) = "violated", StateOf(InScope(b), r) # "violated"
  PROVE  Register(Whole, r).introducedAt > b \/ DeadTail(InScope(b), r, "violated")
<1> DEFINE C == Chain(Whole, r)
           B == Chain(InScope(b), r)
           f == FirstOf(Streak(Whole, r))
           l == LastOf(C)
<1>0. Timed /\ Whole \subseteq DOMAIN log /\ InScope(b) \subseteq DOMAIN log /\ InScope(b) \subseteq Whole
  BY FoldIsTimed, ScopeGrows DEF Whole
<1>1. Live(Whole, r) # {}
  <2>1. StateOf(Whole, r) \notin {"notApplicable", "unevidenced", "none"}
    OBVIOUS
  <2> QED BY <1>0, <2>1, StateByLife
<1>2. C # {} /\ log[l].verdict = "violated" /\ Live(Whole, r) = {l}
  BY <1>0, <1>1, StateByLife
<1>3. Register(Whole, r).introducedAt = log[f].at
  <2>1. LastOf({l}) = l
    BY DEF LastOf
  <2> HIDE DEF l, f
  <2>2. LastOf(Live(Whole, r)) = l
    BY <1>2, <2>1
  <2> QED BY <1>1, <1>2, <2>2 DEF Register, f
<1>4. l \in Streak(Whole, r) /\ Streak(Whole, r) \subseteq DOMAIN log
  <2>1. IsLast(l, C) /\ Later(Whole, l) = {}
    BY <1>0, <1>2, NewestOf
  <2> QED BY <1>0, <1>2, <2>1 DEF Streak, IsLast, Chain, Evidence
<1> HIDE DEF l
<1>5. IsFirst(f, Streak(Whole, r))
  BY <1>0, <1>4, ThereIsAFirst
<1> HIDE DEF f
<1>6. f \in C /\ f \in Whole /\ \A j \in {f} \cup Later(Whole, f) : log[j].verdict = "violated"
  BY <1>5 DEF IsFirst, Streak, Chain, Evidence
<1>7. CASE log[f].at > b
  BY <1>3, <1>7
<1>8. CASE ~(log[f].at > b)
  <2>1. f \in B
    BY <1>6, <1>8, ScopeGrows
  <2> DEFINE m == LastOf(B)
  <2>2. IsLast(m, B)
    BY <1>0, <2>1, NewestOf
  <2> HIDE DEF m
  <2>3. m \in C /\ (m = f \/ Before(f, m))
    BY <2>1, <2>2, ScopeGrows DEF IsLast
  <2>4. m \in {f} \cup Later(Whole, f)
    BY <1>0, <1>6, <2>3, LaterInChain
  <2>5. log[m].verdict = "violated"
    BY <1>6, <2>4
  <2>6. Live(InScope(b), r) = {}
    <3>1. Live(InScope(b), r) # {} => StateOf(InScope(b), r) = log[m].verdict
      BY <1>0, StateByLife DEF m
    <3> QED BY <2>5, <3>1
  <2>7. DeadTail(InScope(b), r, log[m].verdict)
    BY <1>0, <2>1, <2>6, TailIsDead DEF m
  <2> QED BY <2>5, <2>7
<1> QED BY <1>7, <1>8

\* What is evidenced has new evidence, or had it dead by then.
LEMMA NewlyEvidenced ==
  ASSUME FoldInv, NEW b \in Nat, NEW r, StateOf(Whole, r) = "evidenced", StateOf(InScope(b), r) # "evidenced"
  PROVE  \/ \E i \in Chain(Whole, r) : log[i].at > b /\ log[i].verdict = "evidenced"
         \/ DeadTail(InScope(b), r, "evidenced")
<1> DEFINE l == LastOf(Chain(Whole, r))
<1>0. Timed /\ Whole \subseteq DOMAIN log /\ InScope(b) \subseteq DOMAIN log /\ InScope(b) \subseteq Whole
  BY FoldIsTimed, ScopeGrows DEF Whole
<1>1. Live(Whole, r) # {}
  <2>1. StateOf(Whole, r) \notin {"notApplicable", "unevidenced", "none"}
    OBVIOUS
  <2> QED BY <1>0, <2>1, StateByLife
<1>2. Chain(Whole, r) # {} /\ log[l].verdict = "evidenced" /\ l \in Chain(Whole, r)
  BY <1>0, <1>1, StateByLife
<1>3. CASE l \in InScope(b)
  <2>1. LastOf(Chain(InScope(b), r)) = l /\ Chain(InScope(b), r) # {}
    BY <1>2, <1>3, NewestThen
  <2>2. Live(InScope(b), r) = {}
    <3>1. Live(InScope(b), r) # {} => StateOf(InScope(b), r) = log[LastOf(Chain(InScope(b), r))].verdict
      BY <1>0, StateByLife
    <3> QED BY <1>2, <2>1, <3>1
  <2>3. DeadTail(InScope(b), r, log[LastOf(Chain(InScope(b), r))].verdict)
    BY <1>0, <2>1, <2>2, TailIsDead
  <2> QED BY <1>2, <2>1, <2>3
<1>4. CASE l \notin InScope(b)
  <2>1. l \in Whole
    BY <1>2 DEF Chain, Evidence
  <2> HIDE DEF l
  <2>2. log[l].at > b
    BY <1>4, <2>1, ScopeGrows
  <2> QED BY <1>2, <2>2
<1> QED BY <1>3, <1>4

\* A verdict that is gone died since.
LEMMA VerdictIsGone ==
  ASSUME FoldInv, NEW b \in Nat, NEW r, Live(InScope(b), r) # {},
         StateOf(Whole, r) # StateOf(InScope(b), r)
  PROVE  DiedAfter(r, b)
<1> DEFINE m == LastOf(Chain(InScope(b), r))
<1>0. Timed /\ Whole \subseteq DOMAIN log /\ InScope(b) \subseteq DOMAIN log /\ InScope(b) \subseteq Whole
  BY FoldIsTimed, ScopeGrows DEF Whole
<1>1. Live(InScope(b), r) = {m} /\ StateOf(InScope(b), r) = log[m].verdict
  BY <1>0, StateByLife
<1> HIDE DEF m
<1>2. ASSUME m \in Live(Whole, r) PROVE FALSE
  <2>1. m = LastOf(Chain(Whole, r))
    BY <1>0, <1>2, LiveIsLast
  <2>2. StateOf(Whole, r) = log[m].verdict
    BY <1>0, <1>2, <2>1, StateByLife
  <2> QED BY <1>1, <2>2
<1> QED BY <1>1, <1>2, DeathIsNew

\* Only a client's result is without a verdict, and it does not die by itself.
LEMMA LeftWithoutVerdict ==
  ASSUME FoldInv, NEW b \in Nat, NEW r, StateOf(Whole, r) = "unevidenced",
         StateOf(InScope(b), r) = "notApplicable"
  PROVE  Ingested(r) /\ \E i \in Chain(Whole, r) : log[i].at > b /\ log[i].verdict = "unevidenced"
<1> DEFINE l == LastOf(Chain(Whole, r))
<1>0. Timed /\ Whole \subseteq DOMAIN log /\ InScope(b) \subseteq DOMAIN log /\ InScope(b) \subseteq Whole
  BY FoldIsTimed, ScopeGrows DEF Whole
<1>1. Live(InScope(b), r) = {}
  BY <1>0, StateByLife DEF Verdict
<1>2. Scopings(Whole, r) # {} /\ r \in Recipe
  BY <1>0, <1>1, StateByLife, ScopeGrows
<1>3. Live(Whole, r) # {}
  BY <1>0, <1>2, StateByLife
<1>4. Chain(Whole, r) # {} /\ l \in Chain(Whole, r) /\ log[l].verdict = "unevidenced"
  BY <1>0, <1>3, StateByLife
<1> HIDE DEF l
<1>5. Anchors[r] = <<>>
  <2>1. log[l].verdict \in Verdicts(r)
    BY <1>4, VerdictOfBundle
  <2> QED BY <1>4, <2>1 DEF Verdicts
<1>6. ASSUME l \in InScope(b) PROVE FALSE
  <2>1. LastOf(Chain(InScope(b), r)) = l /\ l \in Chain(InScope(b), r)
    BY <1>4, <1>6, NewestThen DEF l
  <2>2. Later(InScope(b), l) = {}
    BY <1>0, <2>1, NewestOf
  <2>3. Changed(InScope(b), l) = {}
    <3>1. log[l].recipe = r
      BY <1>4 DEF Chain
    <3>2. DOMAIN Anchors[r] = {}
      BY <1>5
    <3> QED BY <3>1, <3>2 DEF Changed
  <2>4. l \in Live(InScope(b), r)
    BY <2>1, <2>2, <2>3 DEF Live, Status
  <2> QED BY <1>1, <2>4
<1>7. log[l].at > b
  <2>1. l \in Whole
    BY <1>4 DEF Chain, Evidence
  <2> QED BY <1>6, <2>1, ScopeGrows
<1> QED BY <1>4, <1>5, <1>7 DEF Ingested

LEMMA EachIsExplained ==
  ASSUME FoldInv, NEW b \in Nat, NEW r \in Cells(InScope(b)) \cup Cells(Whole),
         StateOf(InScope(b), r) # StateOf(Whole, r)
  PROVE  Explained(r, b, ClassifyChange(StateOf(InScope(b), r), StateOf(Whole, r)),
                   Register(Whole, r).introducedAt)
<1> DEFINE from == StateOf(InScope(b), r)
           to == StateOf(Whole, r)
           at == Register(Whole, r).introducedAt
           kind == ClassifyChange(from, to)
<1>0. Timed /\ Whole \subseteq Whole /\ InScope(b) \subseteq Whole
  BY FoldIsTimed, ScopeGrows
<1>1. r \in Cells(Whole) /\ r \in Recipe
  <2>1. Cells(InScope(b)) \subseteq Cells(Whole)
    BY <1>0, ScopeGrows DEF Cells
  <2> QED BY <2>1 DEF Cells
<1>2. to \in Verdict \cup {"notApplicable"}
  <2>1. CASE Live(Whole, r) # {}
    BY <1>0, <2>1, StateByLife
  <2>2. CASE Live(Whole, r) = {}
    <3>1. Register(Whole, r).state = IF Scopings(Whole, r) # {} THEN "notApplicable" ELSE "unevidenced"
      BY <2>2, RowOfNone
    <3>2. to = Register(Whole, r).state
      BY ONLY <1>1 DEF StateOf
    <3> HIDE DEF to
    <3> QED BY ONLY <3>1, <3>2 DEF Verdict
  <2> QED BY <2>1, <2>2
<1>3. from \in Verdict \cup {"notApplicable", "none"}
  <2>1. CASE Live(InScope(b), r) # {}
    BY <1>0, <2>1, StateByLife
  <2>2. CASE Live(InScope(b), r) = {}
    BY <1>0, <2>2, StateByLife DEF Verdict
  <2> QED BY <2>1, <2>2
<1>4. CASE to = "violated"
  <2>1. kind = "newly-violated"
    BY <1>4 DEF ClassifyChange
  <2>2. at > b \/ DeadTail(InScope(b), r, "violated")
    BY <1>4, NewlyViolated
  <2> HIDE DEF kind, at
  <2>3. Explained(r, b, kind, at)
    BY <2>1, <2>2 DEF Explained
  <2> QED BY <2>3 DEF kind, at
<1>5. CASE to # "violated" /\ from = "none"
  <2>1. kind = "appeared"
    BY <1>2, <1>5 DEF ClassifyChange, Verdict
  <2>2. \E i \in Whole : log[i].at > b
    <3> SUFFICES ASSUME \A i \in Whole : ~(log[i].at > b) PROVE FALSE
      OBVIOUS
    <3>1. InScope(b) = Whole
      BY <1>0, ScopeGrows
    <3> QED BY <3>1
  <2> HIDE DEF kind, at
  <2>3. Explained(r, b, kind, at)
    BY <2>1, <2>2 DEF Explained
  <2> QED BY <2>3 DEF kind, at
<1>6. CASE to = "evidenced" /\ from # "none"
  <2>1. kind \in {"resolved", "newly-evidenced"}
    BY <1>6 DEF ClassifyChange
  <2>2. \/ \E i \in Chain(Whole, r) : log[i].at > b /\ log[i].verdict = "evidenced"
        \/ DeadTail(InScope(b), r, "evidenced")
    BY <1>6, NewlyEvidenced
  <2> HIDE DEF kind, at
  <2>3. Explained(r, b, kind, at)
    BY <2>1, <2>2 DEF Explained
  <2> QED BY <2>3 DEF kind, at
<1>7. CASE to = "notApplicable" /\ from # "none"
  <2>1. kind = "scoped"
    BY <1>7 DEF ClassifyChange
  <2>2. (\E i \in Scopings(Whole, r) : log[i].at > b) \/ DiedAfter(r, b)
    <3> SUFFICES ASSUME \A i \in Scopings(Whole, r) : ~(log[i].at > b) PROVE DiedAfter(r, b)
      OBVIOUS
    <3>1. Live(Whole, r) = {}
      BY <1>0, <1>7, StateByLife DEF Verdict
    <3>2. Scopings(Whole, r) # {}
      BY <1>0, <1>7, <3>1, StateByLife
    <3>3. Scopings(InScope(b), r) = Scopings(Whole, r)
      BY <1>0, ScopeGrows DEF Scopings
    <3>4. Live(InScope(b), r) # {}
      BY <1>0, <1>1, <1>7, <3>2, <3>3, StateByLife
    <3> QED BY <3>4, VerdictIsGone
  <2> HIDE DEF kind, at
  <2>3. Explained(r, b, kind, at)
    BY <2>1, <2>2 DEF Explained
  <2> QED BY <2>3 DEF kind, at
<1>8. CASE to = "unevidenced" /\ from = "notApplicable"
  <2>1. kind = "unscoped"
    BY <1>8 DEF ClassifyChange
  <2>2. Ingested(r) /\ \E i \in Chain(Whole, r) : log[i].at > b /\ log[i].verdict = "unevidenced"
    BY <1>8, LeftWithoutVerdict
  <2> HIDE DEF kind, at
  <2>3. Explained(r, b, kind, at)
    BY <2>1, <2>2 DEF Explained
  <2> QED BY <2>3 DEF kind, at
<1>9. CASE to = "unevidenced" /\ from \notin {"notApplicable", "none"}
  <2>1. kind = "evidence-lapsed"
    BY <1>9 DEF ClassifyChange
  <2>2. Live(InScope(b), r) # {}
    BY <1>0, <1>3, <1>9, StateByLife
  <2>3. DiedAfter(r, b)
    BY <2>2, VerdictIsGone
  <2> HIDE DEF kind, at
  <2>4. Explained(r, b, kind, at)
    BY <2>1, <2>3 DEF Explained
  <2> QED BY <2>4 DEF kind, at
<1> HIDE DEF from, to
<1>10. \/ to = "violated" \/ (to # "violated" /\ from = "none")
       \/ (to = "evidenced" /\ from # "none") \/ (to = "notApplicable" /\ from # "none")
       \/ (to = "unevidenced" /\ from = "notApplicable")
       \/ (to = "unevidenced" /\ from \notin {"notApplicable", "none"})
  BY <1>2 DEF Verdict
<1> QED BY <1>4, <1>5, <1>6, <1>7, <1>8, <1>9, <1>10 DEF from, to

\* Whatever the baseline, each cell that is not what it was is explained by what the
\* ledger holds.
LEMMA ChangesHaveReasons ==
  ASSUME FoldInv
  PROVE  ChangesAreExplained
<1>1. ASSUME NEW b \in Baselines(Clock) PROVE b \in Nat
  <2>0. Clock \in Nat
    BY FoldIsTimed
  <2>1. CASE b \in 0 .. (Clock - 1)
    BY <2>0, <2>1
  <2>2. CASE b \in Previous(Clock)
    <3>1. PICK i \in Evidence(InScope(Clock)) : b = log[i].at
      BY <2>2 DEF Previous, ScanInstants
    <3> QED BY <2>0, <3>1, ScopeGrows DEF Evidence
  <2> QED BY <2>1, <2>2 DEF Baselines
<1>2. ASSUME NEW b \in Baselines(Clock), NEW c \in DiffRegisters(b, Clock)
      PROVE  Explained(c.recipe, b, c.kind, c.introducedAt)
  <2>0. InScope(Clock) = Whole
    BY FoldIsTimed, ScopeGrows
  <2> DEFINE Cell(r) == [recipe |-> r, from |-> StateOf(InScope(b), r), to |-> StateOf(Whole, r)]
             Change(x) == [recipe |-> x.recipe, kind |-> ClassifyChange(x.from, x.to),
                           introducedAt |-> Register(Whole, x.recipe).introducedAt]
             cells == {Cell(r) : r \in Cells(InScope(b)) \cup Cells(Whole)}
  <2>1. DiffRegisters(b, Clock) = {Change(x) : x \in {y \in cells : y.from # y.to}}
    BY <2>0 DEF DiffRegisters
  <2>2. PICK x \in cells : x.from # x.to /\ c = Change(x)
    BY <2>1
  <2>3. PICK r \in Cells(InScope(b)) \cup Cells(Whole) : x = Cell(r)
    BY <2>2
  <2>4. StateOf(InScope(b), r) # StateOf(Whole, r)
    BY <2>2, <2>3
  <2>5. c.recipe = r /\ c.kind = ClassifyChange(StateOf(InScope(b), r), StateOf(Whole, r))
        /\ c.introducedAt = Register(Whole, r).introducedAt
    BY <2>2, <2>3
  <2> QED BY <1>1, <2>4, <2>5, EachIsExplained
<1>3. ASSUME NEW b \in Baselines(Clock), NEW c \in DiffRegisters(b, Clock)
      PROVE  LET r == c.recipe
                 Since(S) == {i \in S : log[i].at > b}
                 New(verdict) == \E i \in Since(Chain(Whole, r)) : log[i].verdict = verdict
                 DiedSince == \E e \in Drift(Whole) :
                                e.recipe = r /\ e.at > b /\ e.kind \in {"died", "verdict-flipped"}
             IN CASE c.kind = "newly-violated" -> c.introducedAt > b \/ DeadTail(InScope(b), r, "violated")
                  [] c.kind \in {"resolved", "newly-evidenced"} ->
                       New("evidenced") \/ DeadTail(InScope(b), r, "evidenced")
                  [] c.kind = "evidence-lapsed" -> DiedSince
                  [] c.kind = "scoped" -> Since(Scopings(Whole, r)) # {} \/ DiedSince
                  [] c.kind = "appeared" -> Since(Whole) # {}
                  [] c.kind = "unscoped" -> Ingested(r) /\ New("unevidenced")
                  [] OTHER -> FALSE
  <2> DEFINE r == c.recipe
             kind == c.kind
             at == c.introducedAt
  <2>1. Explained(r, b, kind, at)
    BY <1>2
  <2> HIDE DEF r, kind, at
  <2>2. DiedAfter(r, b) =>
          \E e \in Drift(Whole) : e.recipe = r /\ e.at > b /\ e.kind \in {"died", "verdict-flipped"}
    BY DEF DiedAfter
  <2>3. kind \in {"newly-violated", "resolved", "newly-evidenced", "evidence-lapsed", "scoped",
                  "appeared", "unscoped"}
    BY <2>1 DEF Explained
  <2>4. CASE kind = "newly-violated"
    BY <2>1, <2>4 DEF Explained, r, kind, at
  <2>5. CASE kind \in {"resolved", "newly-evidenced"}
    BY <2>1, <2>5 DEF Explained, r, kind, at
  <2>6. CASE kind = "evidence-lapsed"
    BY <2>1, <2>2, <2>6 DEF Explained, r, kind, at
  <2>7. CASE kind = "scoped"
    BY <2>1, <2>2, <2>7 DEF Explained, r, kind, at
  <2>8. CASE kind = "appeared"
    BY <2>1, <2>8 DEF Explained, r, kind, at
  <2>9. CASE kind = "unscoped"
    BY <2>1, <2>9 DEF Explained, r, kind, at
  <2> QED BY <2>3, <2>4, <2>5, <2>6, <2>7, <2>8, <2>9
<1> QED BY <1>3 DEF ChangesAreExplained

\* What moves on the board can be read off the drift view and off the comparison with
\* any baseline (fold.ts, foldEntries: drift; diff.ts, diffRegisters).
THEOREM MovementsAreAlwaysTold == Spec => []MovementsAreTold
<1>1. FoldInv => MovementsAreTold
  BY MovementsHaveEvents, ChangesHaveReasons DEF MovementsAreTold
<1> QED BY <1>1, FoldInvariant, PTL

-----------------------------------------------------------------------------
(* Handoffs: what is accepted, and what becomes of it. *)

Handed(d) == {Batches[d][p] : p \in DOMAIN Batches[d]}
Owed == UNION {OwedBy[d] : d \in Accepted}
AtRow == {i \in Ingest : step[i] = "row"}

\* A statement is listed, about to be, or was cut short.
Landed(b) == b \in Listed \cup cut \/ \E i \in AtRow : Bundle(sub[i]) = b

IntakeTypes ==
  /\ log \in Seq(Owed) /\ finished \subseteq Accepted
  /\ todo \in [Ingest -> SUBSET UNION {Handed(d) : d \in Accepted}]
  /\ step \in [Ingest -> {"idle", "next", "append", "row"}]
  /\ sub = [i \in Ingest |-> sub[i]] /\ doc = [i \in Ingest |-> doc[i]]
  /\ \A i \in Ingest : step[i] # "idle" => doc[i] \in Accepted /\ todo[i] \subseteq Handed(doc[i])
  /\ \A i \in Ingest : step[i] \in {"append", "row"} => sub[i] \in Handed(doc[i])

\* The file is created once, so one ingest at most is about to list a bundle, and
\* it is not listed yet.
OneAuthor ==
  /\ Listed \subseteq object
  /\ \A j, k \in DOMAIN log : log[j] = log[k] => j = k
  /\ \A i \in AtRow : Bundle(sub[i]) \in object \ Listed
  /\ \A i, j \in AtRow : Bundle(sub[i]) = Bundle(sub[j]) => i = j

\* No file is without its row, but those under way and those cut short.
NoneIsLost == \A b \in object : Landed(b)

\* Of what an ingest was given nothing is forgotten.
AllIsLookedAt ==
  /\ \A i \in Ingest : step[i] # "idle" =>
       \A s \in Handed(doc[i]) :
         s \in todo[i] \/ (step[i] = "append" /\ sub[i] = s) \/ Landed(Bundle(s))
  /\ \A d \in finished : \A b \in OwedBy[d] : Landed(b)

IntakeInv == IntakeTypes /\ OneAuthor /\ NoneIsLost /\ AllIsLookedAt

LEMMA OwedIsHanded ==
  ASSUME NEW d \in Document
  PROVE  OwedBy[d] = {Bundle(s) : s \in Handed(d)}
  BY DEF OwedBy, Handed

LEMMA IntakeInitInv == IntakeInit => IntakeInv
<1> SUFFICES ASSUME IntakeInit PROVE IntakeInv
  OBVIOUS
<1> USE DEF IntakeInit
<1>1. IntakeTypes
  BY DEF IntakeTypes
<1>2. OneAuthor
  BY DEF OneAuthor, Listed, AtRow
<1>3. NoneIsLost /\ AllIsLookedAt
  BY DEF NoneIsLost, AllIsLookedAt
<1> QED BY <1>1, <1>2, <1>3 DEF IntakeInv

\* One more statement is listed.
LEMMA ListedGrows ==
  ASSUME IntakeTypes, NEW b, log' = Append(log, b)
  PROVE  /\ Listed' = Listed \cup {b}
         /\ b \in Owed => log' \in Seq(Owed)
         /\ OneAuthor /\ b \notin Listed => \A j, k \in DOMAIN log' : log'[j] = log'[k] => j = k
<1>1. Len(log) \in Nat /\ DOMAIN log = 1 .. Len(log) /\ log \in Seq(Owed)
  BY DEF IntakeTypes
<1>2. /\ DOMAIN log' = 1 .. (Len(log) + 1)
      /\ \A k \in 1 .. Len(log) : log'[k] = log[k]
      /\ log'[Len(log) + 1] = b
  BY <1>1
<1>3. Listed' = Listed \cup {b}
  BY <1>1, <1>2 DEF Listed
<1>4. ASSUME OneAuthor, b \notin Listed PROVE \A j, k \in DOMAIN log' : log'[j] = log'[k] => j = k
  BY <1>1, <1>2, <1>4 DEF OneAuthor, Listed
<1>5. b \in Owed => log' \in Seq(Owed)
  BY <1>1
<1> QED BY <1>3, <1>4, <1>5

\* A step that only takes a statement further keeps it on its way.
LEMMA LandedStays ==
  ASSUME NEW b, Landed(b), Listed \cup cut \subseteq Listed' \cup cut',
         \A i \in AtRow : (i \in AtRow' /\ sub'[i] = sub[i]) \/ Bundle(sub[i]) \in Listed' \cup cut'
  PROVE  Landed(b)'
  BY DEF Landed

\* What one step of an ingest does to its place, and to nobody else's.
LEMMA HandoffKeeps == ASSUME IntakeInv, NEW i \in Ingest, NEW d \in Document, Handoff(i, d) PROVE IntakeInv'
<1> USE DEF Handoff
<1>1. d \in Accepted /\ doc' = [doc EXCEPT ![i] = d] /\ todo' = [todo EXCEPT ![i] = Handed(d)]
  BY DEF Handed
<1> DEFINE all == UNION {Handed(e) : e \in Accepted}
<1>2. IntakeTypes'
  <2>1. Handed(d) \in SUBSET all
    BY <1>1
  <2> HIDE DEF all
  <2>2. IntakeTypes /\ todo \in [Ingest -> SUBSET all]
    BY DEF IntakeInv, IntakeTypes, all
  <2>3. todo' \in [Ingest -> SUBSET all]
    BY <1>1, <2>1, <2>2
  <2>4. \A j \in Ingest : step'[j] # "idle" => doc'[j] \in Accepted /\ todo'[j] \subseteq Handed(doc'[j])
    BY <1>1, <2>2 DEF IntakeTypes
  <2> QED BY <2>2, <2>3, <2>4 DEF IntakeTypes, all
<1>3. AtRow' = AtRow /\ Listed' = Listed
  BY DEF AtRow, IntakeInv, IntakeTypes, Listed
<1>4. OneAuthor'
  BY <1>3 DEF OneAuthor, IntakeInv
<1>5. ASSUME NEW b, Landed(b) PROVE Landed(b)'
  BY <1>3, <1>5 DEF Landed
<1>6. NoneIsLost'
  BY <1>5 DEF NoneIsLost, IntakeInv
<1>7. AllIsLookedAt'
  BY <1>1, <1>5 DEF AllIsLookedAt, IntakeInv, IntakeTypes
<1> QED BY <1>2, <1>4, <1>6, <1>7 DEF IntakeInv

LEMMA TakeKeeps == ASSUME IntakeInv, NEW i \in Ingest, Take(i) PROVE IntakeInv'
<1> DEFINE s == CHOOSE x \in todo[i] : TRUE
           all == UNION {Handed(e) : e \in Accepted}
<1>1. /\ step[i] = "next" /\ s \in todo[i] /\ todo' = [todo EXCEPT ![i] = @ \ {s}]
      /\ UNCHANGED <<log, object, doc, handoffs, cut, finished>>
      /\ \/ Bundle(s) \in Listed /\ UNCHANGED <<sub, step>>
         \/ sub' = [sub EXCEPT ![i] = s] /\ step' = [step EXCEPT ![i] = "append"]
  BY DEF Take
<1> HIDE DEF s, all
<1>2. IntakeTypes /\ todo \in [Ingest -> SUBSET all]
  BY DEF IntakeInv, IntakeTypes, all
<1>3. IntakeTypes'
  <2>1. todo' \in [Ingest -> SUBSET all]
    BY <1>1, <1>2
  <2>2. s \in Handed(doc[i]) /\ doc[i] \in Accepted
    BY <1>1, <1>2 DEF IntakeTypes
  <2>3. \A j \in Ingest : step'[j] # "idle" => doc'[j] \in Accepted /\ todo'[j] \subseteq Handed(doc'[j])
    BY <1>1, <1>2, <2>2 DEF IntakeTypes
  <2>4. \A j \in Ingest : step'[j] \in {"append", "row"} => sub'[j] \in Handed(doc'[j])
    BY <1>1, <1>2, <2>2 DEF IntakeTypes
  <2> QED BY <1>1, <1>2, <2>1, <2>3, <2>4 DEF IntakeTypes, all
<1>4. AtRow' = AtRow /\ Listed' = Listed /\ \A j \in AtRow : sub'[j] = sub[j]
  BY <1>1, <1>2 DEF AtRow, IntakeTypes, Listed
<1>5. OneAuthor'
  BY <1>1, <1>4 DEF OneAuthor, IntakeInv
<1>6. ASSUME NEW b, Landed(b) PROVE Landed(b)'
  BY <1>1, <1>4, <1>6 DEF Landed
<1>7. NoneIsLost'
  BY <1>1, <1>6 DEF NoneIsLost, IntakeInv
<1>8. AllIsLookedAt'
  <2>1. ASSUME NEW j \in Ingest, step'[j] # "idle", NEW t \in Handed(doc'[j])
        PROVE  t \in todo'[j] \/ (step'[j] = "append" /\ sub'[j] = t) \/ Landed(Bundle(t))'
    <3>1. step[j] # "idle" /\ doc'[j] = doc[j]
      BY <1>1, <1>2, <2>1 DEF IntakeTypes
    <3>2. t \in todo[j] \/ (step[j] = "append" /\ sub[j] = t) \/ Landed(Bundle(t))
      BY <2>1, <3>1 DEF IntakeInv, AllIsLookedAt
    <3>3. CASE Landed(Bundle(t))
      BY <1>6, <3>3
    <3>4. CASE j # i /\ ~Landed(Bundle(t))
      BY <1>1, <1>2, <3>2, <3>4 DEF IntakeTypes
    <3>5. CASE j = i /\ ~Landed(Bundle(t))
      <4>1. t \in todo[i]
        BY <1>1, <3>2, <3>5
      <4>2. CASE t # s
        BY <1>1, <1>2, <3>5, <4>1, <4>2 DEF IntakeTypes
      <4>3. CASE t = s
        <5>1. ~(Bundle(s) \in Listed)
          BY <3>5, <4>3 DEF Landed
        <5> QED BY <1>1, <1>2, <3>5, <4>3, <5>1 DEF IntakeTypes
      <4> QED BY <4>2, <4>3
    <3> QED BY <3>3, <3>4, <3>5
  <2>2. \A d \in finished : \A b \in OwedBy[d] : Landed(b)'
    BY <1>6 DEF IntakeInv, AllIsLookedAt
  <2> QED BY <1>1, <2>1, <2>2 DEF AllIsLookedAt
<1> QED BY <1>3, <1>5, <1>7, <1>8 DEF IntakeInv

LEMMA CreateKeeps == ASSUME IntakeInv, NEW i \in Ingest, CreateObject(i) PROVE IntakeInv'
<1>0. PICK b : b = Bundle(sub[i])
  OBVIOUS
<1>1. /\ step[i] = "append" /\ object' = object \cup {b}
      /\ UNCHANGED <<log, todo, doc, handoffs, cut, finished>>
      /\ \/ b \in object /\ step' = [step EXCEPT ![i] = "next"] /\ sub' = [sub EXCEPT ![i] = None]
         \/ b \notin object /\ step' = [step EXCEPT ![i] = "row"] /\ sub' = sub
  BY <1>0 DEF CreateObject
<1>2. IntakeTypes
  BY DEF IntakeInv
<1>3. IntakeTypes'
  <2>1. \A j \in Ingest : step'[j] # "idle" => doc'[j] \in Accepted /\ todo'[j] \subseteq Handed(doc'[j])
    BY <1>1, <1>2 DEF IntakeTypes
  <2>2. \A j \in Ingest : step'[j] \in {"append", "row"} => sub'[j] \in Handed(doc'[j])
    BY <1>1, <1>2 DEF IntakeTypes
  <2>3. step' \in [Ingest -> {"idle", "next", "append", "row"}] /\ sub' = [j \in Ingest |-> sub'[j]]
    BY <1>1, <1>2 DEF IntakeTypes
  <2> QED BY <1>1, <1>2, <2>1, <2>2, <2>3 DEF IntakeTypes
<1>4. Listed' = Listed /\ AtRow \subseteq AtRow' /\ \A j \in AtRow : sub'[j] = sub[j]
  BY <1>1, <1>2 DEF AtRow, IntakeTypes, Listed
<1>5. \/ b \in object /\ AtRow' = AtRow
      \/ b \notin object /\ AtRow' = AtRow \cup {i} /\ sub' = sub
  BY <1>1, <1>2 DEF AtRow, IntakeTypes
<1>6. OneAuthor'
  <2>1. CASE b \in object /\ AtRow' = AtRow
    BY <1>1, <1>4, <2>1 DEF OneAuthor, IntakeInv
  <2>2. CASE b \notin object /\ AtRow' = AtRow \cup {i} /\ sub' = sub
    BY <1>0, <1>1, <1>4, <2>2 DEF OneAuthor, IntakeInv
  <2> QED BY <1>5, <2>1, <2>2
<1>7. ASSUME NEW c, Landed(c) PROVE Landed(c)'
  BY <1>1, <1>4, <1>7 DEF Landed
<1>8. Landed(b)'
  <2>1. CASE b \in object
    BY <1>7, <2>1 DEF IntakeInv, NoneIsLost
  <2>2. CASE b \notin object
    BY <1>0, <1>5, <2>2 DEF Landed
  <2> QED BY <2>1, <2>2
<1>9. NoneIsLost'
  <2>1. ASSUME NEW c \in object' PROVE Landed(c)'
    <3>1. CASE c \in object
      BY <1>7, <3>1 DEF IntakeInv, NoneIsLost
    <3>2. CASE c = b
      BY <1>8, <3>2
    <3> QED BY <1>1, <2>1, <3>1, <3>2
  <2> QED BY <2>1 DEF NoneIsLost
<1>10. AllIsLookedAt'
  <2>1. ASSUME NEW j \in Ingest, step'[j] # "idle", NEW t \in Handed(doc'[j])
        PROVE  t \in todo'[j] \/ (step'[j] = "append" /\ sub'[j] = t) \/ Landed(Bundle(t))'
    <3>1. step[j] # "idle" /\ doc'[j] = doc[j]
      BY <1>1, <1>2, <2>1 DEF IntakeTypes
    <3>2. t \in todo[j] \/ (step[j] = "append" /\ sub[j] = t) \/ Landed(Bundle(t))
      BY <2>1, <3>1 DEF IntakeInv, AllIsLookedAt
    <3>3. CASE Landed(Bundle(t))
      BY <1>7, <3>3
    <3>5. CASE Bundle(t) = b
      BY <1>8, <3>5
    <3>4. CASE ~Landed(Bundle(t)) /\ Bundle(t) # b
      <4>1. ~(j = i /\ sub[j] = t)
        BY <1>0, <3>4
      <4> QED BY <1>1, <1>2, <3>2, <3>4, <4>1 DEF IntakeTypes
    <3> QED BY <3>3, <3>4, <3>5
  <2>2. \A d \in finished : \A c \in OwedBy[d] : Landed(c)'
    BY <1>7 DEF IntakeInv, AllIsLookedAt
  <2> QED BY <1>1, <2>1, <2>2 DEF AllIsLookedAt
<1> QED BY <1>3, <1>6, <1>9, <1>10 DEF IntakeInv

LEMMA ListKeeps == ASSUME IntakeInv, NEW i \in Ingest, List(i) PROVE IntakeInv'
<1>0. PICK b : b = Bundle(sub[i])
  OBVIOUS
<1>1. /\ step[i] = "row" /\ log' = Append(log, b)
      /\ step' = [step EXCEPT ![i] = "next"] /\ sub' = [sub EXCEPT ![i] = None]
      /\ UNCHANGED <<object, todo, doc, handoffs, cut, finished>>
  BY <1>0 DEF List
<1>2. IntakeTypes /\ OneAuthor /\ i \in AtRow
  BY <1>1 DEF IntakeInv, AtRow
<1>3. b \in Owed /\ b \in object \ Listed
  <2>1. sub[i] \in Handed(doc[i]) /\ doc[i] \in Accepted
    BY <1>1, <1>2 DEF IntakeTypes
  <2>2. b \in OwedBy[doc[i]]
    BY <1>0, <2>1, OwedIsHanded DEF Accepted
  <2> QED BY <1>0, <1>2, <2>1, <2>2 DEF Owed, OneAuthor
<1>4. Listed' = Listed \cup {b} /\ log' \in Seq(Owed) /\ (\A j, k \in DOMAIN log' : log'[j] = log'[k] => j = k)
  BY <1>1, <1>2, <1>3, ListedGrows
<1>5. IntakeTypes'
  <2>1. \A j \in Ingest : step'[j] # "idle" => doc'[j] \in Accepted /\ todo'[j] \subseteq Handed(doc'[j])
    BY <1>1, <1>2 DEF IntakeTypes
  <2>2. \A j \in Ingest : step'[j] \in {"append", "row"} => sub'[j] \in Handed(doc'[j])
    BY <1>1, <1>2 DEF IntakeTypes
  <2>3. step' \in [Ingest -> {"idle", "next", "append", "row"}] /\ sub' = [j \in Ingest |-> sub'[j]]
    BY <1>1, <1>2 DEF IntakeTypes
  <2> QED BY <1>1, <1>2, <1>4, <2>1, <2>2, <2>3 DEF IntakeTypes
<1>6. AtRow' = AtRow \ {i} /\ \A j \in AtRow' : sub'[j] = sub[j]
  BY <1>1, <1>2 DEF AtRow, IntakeTypes
<1>7. OneAuthor'
  BY <1>0, <1>1, <1>2, <1>3, <1>4, <1>6 DEF OneAuthor
<1>8. ASSUME NEW c, Landed(c) PROVE Landed(c)'
  BY <1>0, <1>1, <1>4, <1>6, <1>8 DEF Landed
<1>9. NoneIsLost'
  BY <1>1, <1>8 DEF NoneIsLost, IntakeInv
<1>10. AllIsLookedAt'
  <2>1. ASSUME NEW j \in Ingest, step'[j] # "idle", NEW t \in Handed(doc'[j])
        PROVE  t \in todo'[j] \/ (step'[j] = "append" /\ sub'[j] = t) \/ Landed(Bundle(t))'
    <3>1. step[j] # "idle" /\ doc'[j] = doc[j]
      BY <1>1, <1>2, <2>1 DEF IntakeTypes
    <3>2. t \in todo[j] \/ (step[j] = "append" /\ sub[j] = t) \/ Landed(Bundle(t))
      BY <2>1, <3>1 DEF IntakeInv, AllIsLookedAt
    <3>3. CASE Landed(Bundle(t))
      BY <1>8, <3>3
    <3>4. CASE ~Landed(Bundle(t))
      BY <1>1, <1>2, <3>2, <3>4 DEF IntakeTypes
    <3> QED BY <3>3, <3>4
  <2>2. \A d \in finished : \A c \in OwedBy[d] : Landed(c)'
    BY <1>8 DEF IntakeInv, AllIsLookedAt
  <2> QED BY <1>1, <2>1, <2>2 DEF AllIsLookedAt
<1> QED BY <1>5, <1>7, <1>9, <1>10 DEF IntakeInv

\* Whichever way an ingest stops, what it leaves is on its way or cut short.
LEMMA StoppedKeeps ==
  ASSUME IntakeInv, NEW i \in Ingest, Stopped(i), UNCHANGED <<log, object>>,
         cut \subseteq cut', step[i] = "row" => Bundle(sub[i]) \in cut',
         finished' \subseteq Accepted,
         \A d \in finished' \ finished : \A b \in OwedBy[d] : Landed(b)
  PROVE  IntakeInv'
<1> DEFINE all == UNION {Handed(e) : e \in Accepted}
<1>1. /\ step' = [step EXCEPT ![i] = "idle"] /\ todo' = [todo EXCEPT ![i] = {}]
      /\ sub' = [sub EXCEPT ![i] = None] /\ doc' = [doc EXCEPT ![i] = None]
  BY DEF Stopped
<1> HIDE DEF all
<1>2. IntakeTypes /\ OneAuthor /\ todo \in [Ingest -> SUBSET all]
  BY DEF IntakeInv, IntakeTypes, all
<1>3. IntakeTypes'
  <2>1. todo' \in [Ingest -> SUBSET all]
    BY <1>1, <1>2
  <2>2. \A j \in Ingest : step'[j] # "idle" => doc'[j] \in Accepted /\ todo'[j] \subseteq Handed(doc'[j])
    BY <1>1, <1>2 DEF IntakeTypes
  <2>3. \A j \in Ingest : step'[j] \in {"append", "row"} => sub'[j] \in Handed(doc'[j])
    BY <1>1, <1>2 DEF IntakeTypes
  <2>4. /\ step' \in [Ingest -> {"idle", "next", "append", "row"}]
        /\ sub' = [j \in Ingest |-> sub'[j]] /\ doc' = [j \in Ingest |-> doc'[j]]
    BY <1>1, <1>2 DEF IntakeTypes
  <2> QED BY <1>2, <2>1, <2>2, <2>3, <2>4 DEF IntakeTypes, all
<1>4. Listed' = Listed /\ AtRow' = AtRow \ {i} /\ \A j \in AtRow' : sub'[j] = sub[j]
  BY <1>1, <1>2 DEF AtRow, IntakeTypes, Listed
<1>5. OneAuthor'
  BY <1>2, <1>4 DEF OneAuthor
<1>6. ASSUME NEW b, Landed(b) PROVE Landed(b)'
  <2>1. CASE b \in Listed \cup cut
    BY <1>4, <2>1 DEF Landed
  <2>2. CASE \E j \in AtRow : Bundle(sub[j]) = b
    <3>1. PICK j \in AtRow : Bundle(sub[j]) = b
      BY <2>2
    <3>2. CASE j = i
      BY <3>1, <3>2 DEF Landed, AtRow
    <3>3. CASE j # i
      BY <1>4, <3>1, <3>3 DEF Landed
    <3> QED BY <3>2, <3>3
  <2> QED BY <1>6, <2>1, <2>2 DEF Landed
<1>7. NoneIsLost'
  BY <1>6 DEF NoneIsLost, IntakeInv
<1>8. AllIsLookedAt'
  <2>1. ASSUME NEW j \in Ingest, step'[j] # "idle", NEW t \in Handed(doc'[j])
        PROVE  t \in todo'[j] \/ (step'[j] = "append" /\ sub'[j] = t) \/ Landed(Bundle(t))'
    <3>1. step[j] # "idle" /\ doc'[j] = doc[j] /\ j # i
      BY <1>1, <1>2, <2>1 DEF IntakeTypes
    <3>2. t \in todo[j] \/ (step[j] = "append" /\ sub[j] = t) \/ Landed(Bundle(t))
      BY <2>1, <3>1 DEF IntakeInv, AllIsLookedAt
    <3>3. CASE Landed(Bundle(t))
      BY <1>6, <3>3
    <3>4. CASE ~Landed(Bundle(t))
      BY <1>1, <1>2, <3>1, <3>2, <3>4 DEF IntakeTypes
    <3> QED BY <3>3, <3>4
  <2>2. ASSUME NEW d \in finished', NEW b \in OwedBy[d] PROVE Landed(b)'
    <3>1. Landed(b)
      BY <2>2 DEF IntakeInv, AllIsLookedAt
    <3> QED BY <1>6, <3>1
  <2> QED BY <2>1, <2>2 DEF AllIsLookedAt
<1> QED BY <1>3, <1>5, <1>7, <1>8 DEF IntakeInv

LEMMA FinishKeeps == ASSUME IntakeInv, NEW i \in Ingest, Finish(i) PROVE IntakeInv'
<1>1. step[i] = "next" /\ todo[i] = {} /\ finished' = finished \cup {doc[i]} /\ Stopped(i)
      /\ UNCHANGED <<log, object, cut>>
  BY DEF Finish
<1>2. doc[i] \in Accepted /\ finished \subseteq Accepted
  BY <1>1 DEF IntakeInv, IntakeTypes
<1>3. \A s \in Handed(doc[i]) : Landed(Bundle(s))
  BY <1>1 DEF IntakeInv, AllIsLookedAt
<1>4. \A b \in OwedBy[doc[i]] : Landed(b)
  BY <1>2, <1>3, OwedIsHanded DEF Accepted
<1> QED BY <1>1, <1>2, <1>4, StoppedKeeps

LEMMA DieKeeps == ASSUME IntakeInv, NEW i \in Ingest, Die(i) PROVE IntakeInv'
<1>1. /\ Stopped(i) /\ UNCHANGED <<log, object, finished>> /\ cut \subseteq cut'
      /\ step[i] = "row" => Bundle(sub[i]) \in cut'
  BY DEF Die
<1>2. finished \subseteq Accepted
  BY DEF IntakeInv, IntakeTypes
<1> QED BY <1>1, <1>2, StoppedKeeps

LEMMA IntakeStepInv == IntakeInv /\ [IntakeNext]_intakeVars => IntakeInv'
<1> SUFFICES ASSUME IntakeInv, [IntakeNext]_intakeVars PROVE IntakeInv'
  OBVIOUS
<1>1. ASSUME NEW i \in Ingest, NEW d \in Document, Handoff(i, d) PROVE IntakeInv'
  BY <1>1, HandoffKeeps
<1>2. ASSUME NEW i \in Ingest, Take(i) PROVE IntakeInv'
  BY <1>2, TakeKeeps
<1>3. ASSUME NEW i \in Ingest, CreateObject(i) PROVE IntakeInv'
  BY <1>3, CreateKeeps
<1>4. ASSUME NEW i \in Ingest, List(i) PROVE IntakeInv'
  BY <1>4, ListKeeps
<1>5. ASSUME NEW i \in Ingest, Finish(i) PROVE IntakeInv'
  BY <1>5, FinishKeeps
<1>6. ASSUME NEW i \in Ingest, Die(i) PROVE IntakeInv'
  BY <1>6, DieKeeps
<1>7. CASE UNCHANGED intakeVars
  BY <1>7 DEF intakeVars, IntakeInv, IntakeTypes, OneAuthor, NoneIsLost, AllIsLookedAt, Landed, Listed, AtRow
<1> QED BY <1>1, <1>2, <1>3, <1>4, <1>5, <1>6, <1>7 DEF IntakeNext, Advance

\* Whatever the ingests do beside each other and wherever they die, IntakeInv.
THEOREM IntakeInductive == IntakeSpec => []IntakeInv
  BY IntakeInitInv, IntakeStepInv, PTL DEF IntakeSpec

\* No two results of an accepted document are for one (recipe, KSI), and every KSI
\* is known.
LEMMA AcceptedIsSound ==
  ASSUME NEW d \in Accepted
  PROVE  /\ d \in Document /\ ~Unreadable(d)
         /\ \A p \in DOMAIN Batches[d] : Batches[d][p].ksi \in Catalog
         /\ \A p, q \in DOMAIN Batches[d] : SameKey(Batches[d][p], Batches[d][q]) => p = q
  BY DEF Accepted, Refused

LEMMA OwedIsSound ==
  ASSUME NEW d \in Accepted, NEW b \in OwedBy[d]
  PROVE  b.ksi \in Catalog /\ \A c \in OwedBy[d] : SameKey(b, c) => b = c
<1>1. PICK p \in DOMAIN Batches[d] : b = Bundle(Batches[d][p])
  BY AcceptedIsSound DEF OwedBy
<1>2. b.ksi = Batches[d][p].ksi /\ b.recipe = Batches[d][p].recipe
  BY <1>1 DEF Bundle
<1>3. ASSUME NEW c \in OwedBy[d], SameKey(b, c) PROVE b = c
  <2>1. PICK q \in DOMAIN Batches[d] : c = Bundle(Batches[d][q])
    BY AcceptedIsSound DEF OwedBy
  <2>2. c.ksi = Batches[d][q].ksi /\ c.recipe = Batches[d][q].recipe
    BY <2>1 DEF Bundle
  <2>3. SameKey(Batches[d][p], Batches[d][q])
    BY <1>2, <1>3, <2>2 DEF SameKey
  <2> QED BY <1>1, <2>1, <2>3, AcceptedIsSound
<1> QED BY <1>2, <1>3, AcceptedIsSound

\* A handoff lands once, and as a whole (ingest.ts, ingest; ledger.ts, append).
THEOREM HandoffsAlwaysLandWhole == IntakeSpec => []HandoffLandsWhole
<1>1. ASSUME IntakeInv PROVE HandoffLandsWhole
  <2>1. HandoffLandsOnce
    BY <1>1 DEF IntakeInv, OneAuthor, AllIsLookedAt, HandoffLandsOnce, Landed, AtRow
  <2>2. ASSUME NEW i \in DOMAIN log
        PROVE  \E d \in Document : /\ log[i] \in OwedBy[d]
                                   /\ \A b, c \in OwedBy[d] : b.ksi \in Catalog /\ (b # c => ~SameKey(b, c))
    <3>1. log[i] \in Owed
      BY <1>1 DEF IntakeInv, IntakeTypes
    <3>2. PICK d \in Accepted : log[i] \in OwedBy[d]
      BY <3>1 DEF Owed
    <3> QED BY <3>2, OwedIsSound, AcceptedIsSound
  <2> QED BY <2>1, <2>2 DEF HandoffLandsWhole, NeverHalfABatch
<1> QED BY <1>1, IntakeInductive, PTL

-----------------------------------------------------------------------------
(* What a verdict is earned by. *)

LEMMA PassesIsBoolean ==
  ASSUME NEW a, NEW rows, a.op \in {"each", "count_eq", "count_lte"}
  PROVE  Passes(a, rows) \in BOOLEAN
<1>1. CASE a.op = "each"
  BY <1>1 DEF Passes
<1>2. CASE a.op = "count_eq"
  BY <1>2 DEF Passes
<1>3. CASE a.op = "count_lte"
  BY <1>3 DEF Passes
<1> QED BY <1>1, <1>2, <1>3

LEMMA VerdictOfIs ==
  ASSUME NEW outcomes
  PROVE  /\ VerdictOf(outcomes) = "unevidenced" <=> outcomes = {}
         /\ VerdictOf(outcomes) = "violated" <=> FALSE \in outcomes
         /\ VerdictOf(outcomes) = "evidenced" <=> outcomes # {} /\ FALSE \notin outcomes
  BY DEF VerdictOf

\* The batch of each shape.
LEMMA BatchOf ==
  ASSUME NEW d \in Accepted
  PROVE  /\ d.shape = "tree" => Batches[d] = TreeBatch(d)
         /\ d.shape = "package" => Batches[d] = PackageBatch(d) /\ ~PackageRefused(d)
         /\ d.shape = "prowler" => Batches[d] = ProwlerBatch(d) /\ ~ProwlerRefused(d)
         /\ Parsed(d)
<1>1. Batches[d] = Batch(d) /\ ~Unreadable(d) /\ Parsed(d)
  BY AcceptedIsSound, IntakeAssumption DEF Batches
<1>2. CASE d.shape = "tree"
  BY <1>1, <1>2 DEF Batch
<1>3. CASE d.shape = "package"
  BY <1>1, <1>3 DEF Batch, Unreadable
<1>4. CASE d.shape = "prowler"
  BY <1>1, <1>4 DEF Batch, Unreadable
<1> QED BY <1>1, <1>2, <1>3, <1>4

\* A tree: the entry a bundle came of is the only one that could have given it, and
\* a pass is of assertions all of which held.
LEMMA TreeIsEarned ==
  ASSUME NEW d \in Accepted, d.shape = "tree", NEW b \in OwedBy[d]
  PROVE  LET e == CHOOSE x \in {d.entries[i] : i \in DOMAIN d.entries} :
                    x.exit = 0 /\ x.script = b.recipe[1] /\ x.ksi = b.ksi
         IN b.verdict = "evidenced" <=> e.assertions # {} /\ \A a \in e.assertions : Passes(a, e.results)
<1>1. Batches[d] = TreeBatch(d) /\ DOMAIN TreeBatch(d) = Ran(d)
  BY BatchOf DEF TreeBatch
<1>2. PICK p \in Ran(d) : b = Bundle(EntryToSubmission(d, p))
  <2>1. PICK p \in DOMAIN Batches[d] : b = Bundle(Batches[d][p])
    BY AcceptedIsSound DEF OwedBy
  <2> QED BY <1>1, <2>1 DEF TreeBatch
<1> DEFINE entries == {d.entries[i] : i \in DOMAIN d.entries}
           Fits(x) == x.exit = 0 /\ x.script = b.recipe[1] /\ x.ksi = b.ksi
           e == d.entries[p]
           outcomes == {Passes(a, e.results) : a \in e.assertions}
<1>3. b.recipe = <<e.script, 1, None>> /\ b.ksi = e.ksi /\ b.verdict = VerdictOf(outcomes)
  BY <1>2 DEF Bundle, EntryToSubmission, Submission
<1>4. e \in entries /\ Fits(e)
  BY <1>2, <1>3 DEF Ran
<1>5. ASSUME NEW x \in entries, Fits(x) PROVE x = e
  <2>1. PICK q \in DOMAIN d.entries : x = d.entries[q]
    BY <1>5
  <2>2. q \in Ran(d) /\ x.script = e.script /\ x.ksi = e.ksi
    BY <1>3, <1>5, <2>1 DEF Ran
  <2>3. Batches[d][q] = EntryToSubmission(d, q) /\ Batches[d][p] = EntryToSubmission(d, p)
    BY <1>1, <2>2 DEF TreeBatch
  <2>4. /\ EntryToSubmission(d, q).recipe = <<x.script, 1, None>> /\ EntryToSubmission(d, q).ksi = x.ksi
        /\ EntryToSubmission(d, p).recipe = <<e.script, 1, None>> /\ EntryToSubmission(d, p).ksi = e.ksi
    BY <2>1 DEF EntryToSubmission, Submission
  <2>5. SameKey(Batches[d][q], Batches[d][p])
    BY <2>2, <2>3, <2>4 DEF SameKey
  <2>6. q = p
    BY <1>1, <2>2, <2>5, AcceptedIsSound
  <2> QED BY <2>1, <2>6
<1>6. (CHOOSE x \in entries : Fits(x)) = e
  BY <1>4, <1>5
<1>7. b.verdict = "evidenced" <=> e.assertions # {} /\ \A a \in e.assertions : Passes(a, e.results)
  <2>1. \A a \in e.assertions : Passes(a, e.results) \in BOOLEAN
    <3>1. \A a \in e.assertions : a.op \in {"each", "count_eq", "count_lte"}
      BY BatchOf DEF Parsed, Ran
    <3> QED BY <3>1, PassesIsBoolean
  <2>2. outcomes # {} <=> e.assertions # {}
    OBVIOUS
  <2>3. FALSE \notin outcomes <=> \A a \in e.assertions : Passes(a, e.results)
    BY <2>1
  <2> HIDE DEF e, outcomes
  <2> QED BY <1>3, <2>2, <2>3, VerdictOfIs
<1> HIDE DEF e
<1> QED BY <1>6, <1>7

\* Prowler: the rows under a check and KSI are those that were reported, none of
\* them a mark that nobody looked.
LEMMA GroupIsReported ==
  ASSUME NEW d \in Accepted, d.shape = "prowler", NEW g \in Groups(d)
  PROVE  {i \in DOMAIN d.rows : d.rows[i].check = g[1] /\ d.rows[i].ksi = g[2]} = RowsOfCheck(d, g)
         /\ RowsOfCheck(d, g) # {}
<1>1. ~DocumentRefused(d)
  BY BatchOf DEF ProwlerRefused
<1>2. PICK j \in Reported(d) : g = <<d.rows[j].check, d.rows[j].ksi>>
  BY DEF Groups
<1>3. g[2] \notin ManualKsis(d)
  BY <1>1, <1>2 DEF DocumentRefused
<1>4. \A i \in DOMAIN d.rows : d.rows[i].ksi = g[2] => i \in Reported(d)
  BY <1>3 DEF Reported, ManualKsis, Manual
<1> QED BY <1>2, <1>4 DEF RowsOfCheck, Reported

LEMMA ProwlerIsEarned ==
  ASSUME NEW d \in Accepted, d.shape = "prowler", NEW b \in OwedBy[d]
  PROVE  LET rows == {i \in DOMAIN d.rows : d.rows[i].check = b.recipe[1] /\ d.rows[i].ksi = b.ksi}
         IN /\ d.exit = 0 /\ rows # {}
            /\ b.verdict = "violated" <=> \E i \in rows : d.rows[i].status = "FAIL"
            /\ b.verdict # "unevidenced"
            /\ b.population = Cardinality(rows) /\ rows \subseteq Reported(d)
            /\ b.recipe = <<b.recipe[1], 1, None>> /\ <<b.recipe[1], b.ksi>> \in Groups(d)
<1>1. Batches[d] = ProwlerBatch(d)
  BY BatchOf
<1>2. PICK g \in Groups(d) : d.exit = 0 /\ b = Bundle(ProwlerBatch(d)[g])
  <2>1. PICK p \in DOMAIN Batches[d] : b = Bundle(Batches[d][p])
    BY AcceptedIsSound DEF OwedBy
  <2> QED BY <1>1, <2>1 DEF ProwlerBatch
<1> DEFINE rows == RowsOfCheck(d, g)
<1>3. /\ b.recipe = <<g[1], 1, None>> /\ b.ksi = g[2]
      /\ b.verdict = VerdictOf({NoFailing(d, g)}) /\ b.population = Cardinality(rows)
  BY <1>2 DEF ProwlerBatch, Bundle, Submission
<1>4. rows = {i \in DOMAIN d.rows : d.rows[i].check = b.recipe[1] /\ d.rows[i].ksi = b.ksi} /\ rows # {}
  BY <1>3, GroupIsReported
<1>5. /\ b.verdict = "violated" <=> \E i \in rows : d.rows[i].status = "FAIL"
      /\ b.verdict # "unevidenced"
  <2>1. NoFailing(d, g) <=> ~ \E i \in rows : d.rows[i].status = "FAIL"
    BY DEF NoFailing
  <2>2. b.verdict = "violated" <=> FALSE \in {NoFailing(d, g)}
    BY <1>3, VerdictOfIs
  <2>3. b.verdict # "unevidenced"
    BY <1>3, VerdictOfIs
  <2>4. NoFailing(d, g) \in BOOLEAN
    BY DEF NoFailing
  <2> QED BY <2>1, <2>2, <2>3, <2>4
<1>6. rows \subseteq Reported(d) /\ g = <<g[1], g[2]>>
  BY DEF RowsOfCheck, Groups
<1> QED BY <1>2, <1>3, <1>4, <1>5, <1>6

\* A package: nothing was evaluated.
LEMMA PackageIsUnjudged ==
  ASSUME NEW d \in Accepted, d.shape = "package", NEW b \in OwedBy[d]
  PROVE  b.verdict = "unevidenced" /\ ~b.automated
<1>1. PICK c \in DOMAIN PackageBatch(d) : b = Bundle(PackageBatch(d)[c])
  <2>1. PICK p \in DOMAIN Batches[d] : b = Bundle(Batches[d][p])
    BY AcceptedIsSound DEF OwedBy
  <2> QED BY <2>1, BatchOf
<1>2. CandidateOf(d, c).verdict = "unevidenced" /\ CandidateOf(d, c).automated = FALSE
  BY VerdictOfIs DEF CandidateOf, Submission
<1>3. PackageBatch(d)[c].verdict = "unevidenced" /\ PackageBatch(d)[c].automated = FALSE
  <2>1. PackageBatch(d)[c] \in {CandidateOf(d, c), [CandidateOf(d, c) EXCEPT !.recipe[3] = d.validations[c[1]].indicator]}
    BY <1>1 DEF PackageBatch
  <2> QED BY <1>2, <2>1 DEF CandidateOf, Submission
<1> QED BY <1>1, <1>3 DEF Bundle

\* A verdict is earned by what a machine read (packages/core/src/ingest.ts; assert.ts).
THEOREM VerdictsAreAlwaysEarned == IntakeSpec => []VerdictIsEarned
<1>1. ASSUME NEW d \in Accepted, NEW b \in OwedBy[d] \cap Listed
      PROVE  CASE d.shape = "package" -> b.verdict = "unevidenced" /\ ~b.automated
               [] d.shape = "prowler" ->
                    LET rows == {i \in DOMAIN d.rows : d.rows[i].check = b.recipe[1] /\ d.rows[i].ksi = b.ksi}
                    IN /\ d.exit = 0 /\ rows # {}
                       /\ b.verdict = "violated" <=> \E i \in rows : d.rows[i].status = "FAIL"
                       /\ b.verdict # "unevidenced"
               [] d.shape = "tree" ->
                    LET e == CHOOSE x \in {d.entries[i] : i \in DOMAIN d.entries} :
                               x.exit = 0 /\ x.script = b.recipe[1] /\ x.ksi = b.ksi
                    IN b.verdict = "evidenced" <=> e.assertions # {} /\ \A a \in e.assertions : Passes(a, e.results)
               [] OTHER -> TRUE
  <2>1. CASE d.shape = "package"
    BY <2>1, PackageIsUnjudged
  <2>2. CASE d.shape = "prowler"
    BY <2>2, ProwlerIsEarned
  <2>3. CASE d.shape = "tree"
    BY <2>3, TreeIsEarned
  <2>4. CASE d.shape \notin {"package", "prowler", "tree"}
    BY <2>4
  <2> QED BY <2>1, <2>2, <2>3, <2>4
<1>2. VerdictIsEarned
  BY <1>1 DEF VerdictIsEarned
<1> QED BY <1>2, PTL

-----------------------------------------------------------------------------
(* What is handed over is accounted for. *)

\* The candidates of a package are triples of places.
LEMMA CandidatesArePlaces ==
  ASSUME NEW d \in Accepted, d.shape = "package"
  PROVE  Candidates(d) \subseteq Nat \X Nat \X Nat
<1>0. Parsed(d) /\ ~PackageRefused(d)
  BY BatchOf
<1>1. DOMAIN d.validations \subseteq Nat
      /\ \A v \in DOMAIN d.validations : DOMAIN d.validations[v].evidences \subseteq Nat
  <2>1. ASSUME NEW s, IsList(s) PROVE DOMAIN s \subseteq Nat
    BY <2>1 DEF IsList
  <2>2. IsList(d.validations) /\ \A v \in DOMAIN d.validations : IsList(d.validations[v].evidences)
    BY <1>0 DEF Parsed
  <2> QED BY <2>1, <2>2
<1>2. ASSUME NEW v \in DOMAIN d.validations
      PROVE  DOMAIN Successors(d, d.validations[v].indicator) \subseteq Nat
  <2> DEFINE indicator == d.validations[v].indicator
  <2>1. CASE d.crosswalk
    <3>1. indicator \in DOMAIN Crosswalk
      BY <1>0, <2>1 DEF PackageRefused
    <3>2. Crosswalk[indicator] \in Seq(Catalog)
      BY <3>1, IntakeAssumption
    <3> HIDE DEF indicator
    <3>3. DOMAIN Crosswalk[indicator] \subseteq Nat
      BY ONLY <3>2
    <3> QED BY <2>1, <3>3 DEF Successors, indicator
  <2>2. CASE ~d.crosswalk
    BY <2>2 DEF Successors
  <2> QED BY <2>1, <2>2
<1> QED BY <1>1, <1>2 DEF Candidates

Precedes(c, o) ==
  \/ c[1] < o[1]
  \/ c[1] = o[1] /\ c[2] < o[2]
  \/ c[1] = o[1] /\ c[2] = o[2] /\ c[3] < o[3]

\* Some triple of a set of them precedes every other.
LEMMA FirstPlace ==
  ASSUME NEW S, S \subseteq Nat \X Nat \X Nat, S # {}
  PROVE  \E c \in S : \A o \in S \ {c} : Precedes(c, o)
<1>1. PICK v \in {c[1] : c \in S} : \A w \in {c[1] : c \in S} : v <= w
  <2>1. {c[1] : c \in S} \subseteq Nat /\ {c[1] : c \in S} # {}
    OBVIOUS
  <2> QED BY <2>1, LeastOf
<1> DEFINE T == {c \in S : c[1] = v}
<1>2. T # {} /\ T \subseteq S
  BY <1>1
<1>3. PICK e \in {c[2] : c \in T} : \A w \in {c[2] : c \in T} : e <= w
  <2>1. {c[2] : c \in T} \subseteq Nat /\ {c[2] : c \in T} # {}
    BY <1>2
  <2> QED BY <2>1, LeastOf
<1> DEFINE U == {c \in T : c[2] = e}
<1>4. U # {} /\ U \subseteq T
  BY <1>3
<1>5. PICK k \in {c[3] : c \in U} : \A w \in {c[3] : c \in U} : k <= w
  <2>1. {c[3] : c \in U} \subseteq Nat /\ {c[3] : c \in U} # {}
    BY <1>2, <1>4
  <2> QED BY <2>1, LeastOf
<1>6. PICK c \in U : c[3] = k
  BY <1>5
<1>7. c \in S /\ c[1] = v /\ c[2] = e
  BY <1>2, <1>4, <1>6
<1>8. ASSUME NEW o \in S \ {c} PROVE Precedes(c, o)
  <2>1. o = <<o[1], o[2], o[3]>> /\ c = <<c[1], c[2], c[3]>> /\ {o[1], o[2], o[3], c[1], c[2], c[3]} \subseteq Nat
    BY <1>7, <1>8
  <2>2. v <= o[1]
    BY <1>1
  <2>3. o[1] = v => e <= o[2]
    BY <1>3
  <2>4. o[1] = v /\ o[2] = e => k <= o[3]
    BY <1>5
  <2>5. ~(o[1] = c[1] /\ o[2] = c[2] /\ o[3] = c[3])
    BY <1>8, <2>1
  <2> QED BY ONLY <1>6, <1>7, <2>1, <2>2, <2>3, <2>4, <2>5 DEF Precedes
<1> QED BY <1>7, <1>8

\* Each evidence keeps a statement of its own, or one that says the same.
LEMMA EvidenceIsKept ==
  ASSUME NEW d \in Accepted, d.shape = "package", NEW c \in Candidates(d)
  PROVE  \E b \in OwedBy[d] :
           b.ksi = CandidateOf(d, c).ksi /\ b.artifact = CandidateOf(d, c).artifact
           /\ b.signer = CandidateOf(d, c).signer
<1> DEFINE one(x) == \A o \in GroupOf(d, x) : CandidateOf(d, o) = CandidateOf(d, x)
           kept == {x \in Candidates(d) : one(x) => FirstOfGroup(d, x)}
<1>1. DOMAIN PackageBatch(d) = kept
      /\ \A x \in kept : PackageBatch(d)[x] =
           IF one(x) THEN CandidateOf(d, x)
           ELSE [CandidateOf(d, x) EXCEPT !.recipe[3] = d.validations[x[1]].indicator]
  BY DEF PackageBatch
<1>2. ASSUME NEW x \in kept PROVE Bundle(PackageBatch(d)[x]) \in OwedBy[d]
  BY <1>1, BatchOf, AcceptedIsSound DEF OwedBy
<1>3. CASE ~one(c)
  <2>1. c \in kept /\ PackageBatch(d)[c] =
          [CandidateOf(d, c) EXCEPT !.recipe[3] = d.validations[c[1]].indicator]
    BY <1>1, <1>3
  <2>2. /\ PackageBatch(d)[c].ksi = CandidateOf(d, c).ksi
        /\ PackageBatch(d)[c].artifact = CandidateOf(d, c).artifact
        /\ PackageBatch(d)[c].signer = CandidateOf(d, c).signer
    BY <2>1 DEF CandidateOf, Submission
  <2> HIDE DEF kept, one
  <2> QED BY <1>2, <2>1, <2>2 DEF Bundle
<1>4. CASE one(c)
  <2>1. GroupOf(d, c) \subseteq Nat \X Nat \X Nat /\ c \in GroupOf(d, c)
    BY CandidatesArePlaces DEF GroupOf, SameKey
  <2>2. PICK o \in GroupOf(d, c) : \A q \in GroupOf(d, c) \ {o} : Precedes(o, q)
    BY <2>1, FirstPlace
  <2>3. CandidateOf(d, o) = CandidateOf(d, c) /\ o \in Candidates(d)
    BY <1>4, <2>2 DEF GroupOf
  <2>4. GroupOf(d, o) = GroupOf(d, c)
    BY <2>3 DEF GroupOf
  <2>5. one(o) /\ FirstOfGroup(d, o)
    BY <1>4, <2>2, <2>3, <2>4 DEF FirstOfGroup, Precedes
  <2>6. o \in kept /\ PackageBatch(d)[o] = CandidateOf(d, c)
    BY <1>1, <2>3, <2>5
  <2> HIDE DEF kept, one
  <2> QED BY <1>2, <2>6 DEF Bundle
<1> QED BY <1>3, <1>4

\* What a function makes of a finite set is finite.
LEMMA RangeIsFinite ==
  ASSUME NEW S, IsFiniteSet(S), NEW f, DOMAIN f = S
  PROVE  IsFiniteSet({f[x] : x \in S})
<1> DEFINE T == {f[x] : x \in S}
           h == [x \in S |-> f[x]]
<1>1. h \in Surjection(S, T)
  BY DEF Surjection
<1> QED BY <1>1, FS_Surjection

\* A sum over a set is one of its members and the sum over the others: the sum of the
\* populations of a finite set of statements whose rows are disjoint is the number
\* of those rows.
LEMMA PopulationsAddUp ==
  ASSUME NEW S, IsFiniteSet(S), NEW rows, DOMAIN rows = S,
         \A b \in S : IsFiniteSet(rows[b]),
         \A b \in S : b.population = Cardinality(rows[b]),
         \A b, c \in S : b # c => rows[b] \cap rows[c] = {}
  PROVE  MapThenSumSet(LAMBDA b : b.population, S) = Cardinality(UNION {rows[b] : b \in S})
<1> DEFINE Of(T) == UNION {rows[b] : b \in T}
           Step(f, T) == IF T = {} THEN 0
                         ELSE LET b == CHOOSE b \in T : TRUE IN b.population + f[T \ {b}]
           Solves(f) == f = [T \in SUBSET S |-> Step(f, T)]
           sum == CHOOSE f : Solves(f)
           total == [T \in SUBSET S |-> Cardinality(Of(T))]
<1>0. MapThenSumSet(LAMBDA b : b.population, S) = sum[S]
  BY DEF MapThenSumSet, MapThenFoldSet
<1>1. ASSUME NEW T \in SUBSET S PROVE IsFiniteSet(T) /\ IsFiniteSet(Of(T))
  <2>1. IsFiniteSet(T)
    BY FS_Subset
  <2>2. IsFiniteSet({rows[b] : b \in T})
    <3> DEFINE f == [b \in T |-> rows[b]]
    <3>1. DOMAIN f = T /\ {rows[b] : b \in T} = {f[b] : b \in T}
      OBVIOUS
    <3> HIDE DEF f
    <3> QED BY <2>1, <3>1, RangeIsFinite
  <2> QED BY <2>1, <2>2, FS_UNION
<1>2. ASSUME NEW T \in SUBSET S, NEW b \in T
      PROVE  Cardinality(Of(T)) = b.population + Cardinality(Of(T \ {b}))
  <2>1. Of(T) = rows[b] \cup Of(T \ {b}) /\ rows[b] \cap Of(T \ {b}) = {}
    OBVIOUS
  <2>2. IsFiniteSet(rows[b]) /\ IsFiniteSet(Of(T \ {b}))
    BY <1>1
  <2> HIDE DEF Of
  <2>3. Cardinality(rows[b] \cup Of(T \ {b})) =
          Cardinality(rows[b]) + Cardinality(Of(T \ {b})) - Cardinality(rows[b] \cap Of(T \ {b}))
    BY <2>2, FS_Union
  <2>4. Cardinality({}) = 0 /\ Cardinality(rows[b]) \in Nat /\ Cardinality(Of(T \ {b})) \in Nat
    BY <2>2, FS_EmptySet, FS_CardinalityType
  <2>5. b.population = Cardinality(rows[b])
    OBVIOUS
  <2>6. Cardinality(Of(T)) = Cardinality(rows[b] \cup Of(T \ {b}))
        /\ Cardinality(rows[b] \cap Of(T \ {b})) = Cardinality({})
    BY ONLY <2>1
  <2> QED BY ONLY <2>3, <2>4, <2>5, <2>6
<1> HIDE DEF Of
<1>3. Of({}) = {} /\ Cardinality(Of({})) = 0
  <2>1. Of({}) = {}
    BY DEF Of
  <2> QED BY <2>1, FS_EmptySet
<1>4. Solves(total)
  <2>1. ASSUME NEW T \in SUBSET S
        PROVE  total[T] = Step(total, T)
    <3>1. CASE T = {}
      BY <1>3, <3>1
    <3>2. CASE T # {}
      <4>1. PICK b \in T : b = CHOOSE c \in T : TRUE
        BY <3>2
      <4>2. total[T] = b.population + total[T \ {b}]
        BY <1>2
      <4> QED BY <3>2, <4>1, <4>2
    <3> QED BY <3>1, <3>2
  <2>2. total = [T \in SUBSET S |-> total[T]]
    OBVIOUS
  <2> HIDE DEF total, Step
  <2> QED BY <2>1, <2>2
<1>5. Solves(sum)
  BY <1>4
<1>6. ASSUME NEW T \in SUBSET S
      PROVE  sum[T] = Step(sum, T)
  <2> HIDE DEF sum, Step
  <2> QED BY <1>5
<1> HIDE DEF Solves, sum, total
<1>7. ASSUME NEW n \in Nat, \A m \in 0 .. (n - 1) : \A T \in SUBSET S : Cardinality(T) = m => sum[T] = Cardinality(Of(T)),
             NEW T \in SUBSET S, Cardinality(T) = n
      PROVE  sum[T] = Cardinality(Of(T))
  <2>1. CASE T = {}
    BY <1>3, <1>6, <2>1
  <2>2. CASE T # {}
    <3>1. PICK b \in T : b = CHOOSE c \in T : TRUE
      BY <2>2
    <3>2. sum[T] = b.population + sum[T \ {b}]
      BY <1>6, <2>2, <3>1
    <3>3. T \ {b} \in SUBSET S /\ Cardinality(T \ {b}) = n - 1 /\ n # 0
      BY <1>1, <1>7, <3>1, FS_RemoveElement, FS_EmptySet
    <3>4. n - 1 \in 0 .. (n - 1)
      BY <3>3
    <3>5. sum[T \ {b}] = Cardinality(Of(T \ {b}))
      BY <1>7, <3>3, <3>4
    <3> QED BY <1>2, <3>2, <3>5
  <2> QED BY <2>1, <2>2
<1> DEFINE Wrong == {m \in Nat : \E T \in SUBSET S : Cardinality(T) = m /\ sum[T] # Cardinality(Of(T))}
<1>8. Wrong = {}
  <2> SUFFICES ASSUME Wrong # {} PROVE FALSE
    OBVIOUS
  <2>1. PICK n \in Wrong : \A m \in Wrong : n <= m
    BY LeastOf
  <2>2. PICK T \in SUBSET S : Cardinality(T) = n /\ sum[T] # Cardinality(Of(T))
    BY <2>1
  <2>3. \A m \in 0 .. (n - 1) : \A V \in SUBSET S : Cardinality(V) = m => sum[V] = Cardinality(Of(V))
    BY <2>1
  <2> QED BY <1>7, <2>1, <2>2, <2>3
<1>9. sum[S] = Cardinality(Of(S))
  <2>1. Cardinality(S) \in Nat
    BY FS_CardinalityType
  <2> QED BY <1>8, <2>1
<1> QED BY <1>0, <1>9 DEF Of

\* The rows of a scan are finite in number, and each is of one group.
LEMMA RowsAreCounted ==
  ASSUME NEW d \in Accepted, d.shape = "prowler"
  PROVE  MapThenSumSet(LAMBDA b : b.population, OwedBy[d]) =
           IF d.exit = 0 THEN Cardinality(Reported(d)) ELSE 0
<1> DEFINE Rows(b) == {i \in DOMAIN d.rows : d.rows[i].check = b.recipe[1] /\ d.rows[i].ksi = b.ksi}
<1>1. IsFiniteSet(DOMAIN d.rows)
  <2>1. IsList(d.rows)
    BY BatchOf DEF Parsed
  <2>2. DOMAIN d.rows = 1 .. Len(d.rows) /\ Len(d.rows) \in Nat
    BY <2>1 DEF IsList
  <2> QED BY <2>2, FS_Interval
<1>2. Batches[d] = ProwlerBatch(d) /\ DOMAIN ProwlerBatch(d) = {h \in Groups(d) : d.exit = 0}
  BY BatchOf DEF ProwlerBatch
<1>3. OwedBy[d] = {Bundle(ProwlerBatch(d)[h]) : h \in {h \in Groups(d) : d.exit = 0}}
  BY <1>2, AcceptedIsSound DEF OwedBy
<1>4. IsFiniteSet(OwedBy[d])
  <2>1. IsFiniteSet(Reported(d))
    BY <1>1, FS_Subset DEF Reported
  <2>2. IsFiniteSet(Groups(d))
    <3>1. Groups(d) = {<<d.rows[i].check, d.rows[i].ksi>> : i \in Reported(d)}
      BY DEF Groups
    <3> DEFINE f == [i \in Reported(d) |-> <<d.rows[i].check, d.rows[i].ksi>>]
    <3>2. DOMAIN f = Reported(d) /\ Groups(d) = {f[i] : i \in Reported(d)}
      BY <3>1
    <3> HIDE DEF f
    <3> QED BY <2>1, <3>2, RangeIsFinite
  <2>3. IsFiniteSet({h \in Groups(d) : d.exit = 0})
    BY <2>2, FS_Subset
  <2> DEFINE H == {h \in Groups(d) : d.exit = 0}
             f == [h \in H |-> Bundle(ProwlerBatch(d)[h])]
  <2>4. DOMAIN f = H /\ OwedBy[d] = {f[h] : h \in H}
    BY <1>3
  <2> HIDE DEF f
  <2> QED BY <2>3, <2>4, RangeIsFinite
<1>5. \A b \in OwedBy[d] : b.population = Cardinality(Rows(b)) /\ Rows(b) \subseteq Reported(d)
                           /\ b.recipe = <<b.recipe[1], 1, None>> /\ d.exit = 0
  BY ProwlerIsEarned
<1>6. \A b \in OwedBy[d] : IsFiniteSet(Rows(b))
  BY <1>1, FS_Subset
<1>7. ASSUME NEW b \in OwedBy[d], NEW c \in OwedBy[d], NEW i \in Rows(b) \cap Rows(c) PROVE b = c
  <2>1. b.recipe[1] = c.recipe[1] /\ b.ksi = c.ksi
    OBVIOUS
  <2>2. SameKey(b, c)
    BY <1>5, <2>1 DEF SameKey
  <2> QED BY <2>2, OwedIsSound
<1>8. ASSUME d.exit = 0, NEW i \in Reported(d) PROVE \E b \in OwedBy[d] : i \in Rows(b)
  <2> DEFINE h == <<d.rows[i].check, d.rows[i].ksi>>
             b == Bundle(ProwlerBatch(d)[h])
  <2>1. h \in {g \in Groups(d) : d.exit = 0}
    BY <1>8 DEF Groups
  <2>2. b.recipe = <<d.rows[i].check, 1, None>> /\ b.ksi = d.rows[i].ksi
    BY <2>1 DEF ProwlerBatch, Bundle, Submission
  <2>3. b \in OwedBy[d]
    BY <1>3, <2>1
  <2>4. i \in DOMAIN d.rows
    BY DEF Reported
  <2> HIDE DEF b, h
  <2> QED BY <2>2, <2>3, <2>4
<1> DEFINE counted == UNION {Rows(b) : b \in OwedBy[d]}
<1>9. counted = IF d.exit = 0 THEN Reported(d) ELSE {}
  <2>1. CASE d.exit = 0
    <3>1. counted \subseteq Reported(d)
      BY <1>5
    <3>2. Reported(d) \subseteq counted
      BY <1>8, <2>1
    <3> QED BY <2>1, <3>1, <3>2
  <2>2. CASE d.exit # 0
    <3>1. OwedBy[d] = {}
      BY <1>3, <2>2
    <3> QED BY <2>2, <3>1
  <2> QED BY <2>1, <2>2
<1> DEFINE rows == [b \in OwedBy[d] |-> Rows(b)]
<1>10. \A b, c \in OwedBy[d] : b # c => rows[b] \cap rows[c] = {}
  BY <1>7
<1>11. \A b \in OwedBy[d] : IsFiniteSet(rows[b]) /\ b.population = Cardinality(rows[b])
  BY <1>5, <1>6
<1>12. DOMAIN rows = OwedBy[d] /\ UNION {rows[b] : b \in OwedBy[d]} = counted
  <2> HIDE DEF Rows
  <2> QED OBVIOUS
<1> HIDE DEF rows, Rows, counted
<1>13. MapThenSumSet(LAMBDA b : b.population, OwedBy[d]) = Cardinality(UNION {rows[b] : b \in OwedBy[d]})
  BY <1>4, <1>10, <1>11, <1>12, PopulationsAddUp
<1> QED BY <1>9, <1>12, <1>13, FS_EmptySet

\* What a finished document handed over is all accounted for (ingest-package.ts;
\* prowler-ingest.ts).
THEOREM NothingIsEverDropped == IntakeSpec => []NothingIsDropped
<1>1. ASSUME IntakeInv, NEW d \in finished
      PROVE  CASE d.shape = "package" ->
                    /\ \A c \in Candidates(d) :
                         \E b \in OwedBy[d] :
                           b.ksi = CandidateOf(d, c).ksi /\ b.artifact = CandidateOf(d, c).artifact
                           /\ b.signer = CandidateOf(d, c).signer
                    /\ \A b, c \in OwedBy[d] : SameKey(b, c) => b = c
               [] d.shape = "prowler" ->
                    MapThenSumSet(LAMBDA b : b.population, OwedBy[d]) =
                      IF d.exit = 0 THEN Cardinality(Reported(d)) ELSE 0
               [] OTHER -> TRUE
  <2>0. d \in Accepted
    BY <1>1 DEF IntakeInv, IntakeTypes
  <2>1. CASE d.shape = "package"
    BY <2>0, <2>1, EvidenceIsKept, OwedIsSound
  <2>2. CASE d.shape = "prowler"
    BY <2>0, <2>2, RowsAreCounted
  <2>3. CASE d.shape \notin {"package", "prowler"}
    BY <2>3
  <2> QED BY <2>1, <2>2, <2>3
<1>2. IntakeInv => NothingIsDropped
  BY <1>1 DEF NothingIsDropped
<1> QED BY <1>2, IntakeInductive, PTL

=============================================================================
