----------------------------- MODULE TreeProofs -----------------------------
(***************************************************************************)
(* What is read off a source tree, for every tree.  The code graph: what a *)
(* scan signs as unreachable the program does not load, a route said to    *)
(* reach authentication runs it, an SBOM acquits no package, a file no     *)
(* commit holds adds nothing to a scan, and the base tree is blamed and    *)
(* excused justly.  The frontier: what loads of a snapshot is one release, *)
(* no disagreement with upstream goes undeclared, what is counted is there *)
(* and what is called runnable can be run.                                 *)
(***************************************************************************)
EXTENDS Reach, Frontier, FiniteSetTheorems, WellFoundedInduction, TLAPS

-----------------------------------------------------------------------------
(* Walks over a finite relation.                                             *)

\* A set of numbers has a least one.
LEMMA LeastOf ==
  ASSUME NEW S, S \subseteq Nat, S # {}
  PROVE  \E m \in S : \A k \in S : m <= k
<1>1. PICK m \in S : \A k \in S : ~ (<<k, m>> \in OpToRel(<, Nat))
  BY NatLessThanWellFounded, WFMin, Zenon
<1>2. \A k \in S : ~ (k < m)
  BY <1>1, Zenon DEF OpToRel
<1> QED BY <1>2

\* The walk by steps, for as many as one likes.
Walk(E, S, n, r) == r = [k \in 0 .. n |-> IF k = 0 THEN S ELSE Onward(E, r[k - 1])]

\* There is one.
LEMMA WalkExists ==
  ASSUME NEW E, NEW S, NEW n \in Nat
  PROVE  \E r : Walk(E, S, n, r)
<1> DEFINE Bad == {m \in Nat : ~ \E r : Walk(E, S, m, r)}
<1> SUFFICES ASSUME Bad # {} PROVE FALSE
  OBVIOUS
<1>1. PICK m \in Bad : \A k \in Bad : m <= k
  BY LeastOf
<1>2. CASE m = 0
  <2> DEFINE r == [k \in 0 .. 0 |-> S]
  <2>1. r = [k \in 0 .. 0 |-> IF k = 0 THEN S ELSE Onward(E, r[k - 1])]
    OBVIOUS
  <2>2. Walk(E, S, 0, r)
    BY <2>1 DEF Walk
  <2> QED BY <1>2, <2>2
<1>3. CASE m # 0
  <2>1. m - 1 \in Nat /\ m - 1 \notin Bad
    BY <1>1, <1>3
  <2>2. PICK q : Walk(E, S, m - 1, q)
    BY <2>1
  <2>3. q = [k \in 0 .. m - 1 |-> IF k = 0 THEN S ELSE Onward(E, q[k - 1])]
    BY <2>2 DEF Walk
  <2> DEFINE r == [k \in 0 .. m |-> IF k = m THEN Onward(E, q[m - 1]) ELSE q[k]]
  <2>4. \A k \in 0 .. m : r[k] = IF k = 0 THEN S ELSE Onward(E, r[k - 1])
    <3>1. ASSUME NEW k \in 0 .. m PROVE r[k] = IF k = 0 THEN S ELSE Onward(E, r[k - 1])
      <4>1. CASE k = m
        <5>1. k # 0 /\ k - 1 \in 0 .. m /\ k - 1 # m
          BY <4>1, <1>3, <2>1
        <5> QED BY <4>1, <5>1
      <4>2. CASE k # m /\ k # 0
        <5>1. k \in 0 .. m - 1 /\ k - 1 \in 0 .. m /\ k - 1 # m
          BY <4>2
        <5>2. r[k] = q[k] /\ r[k - 1] = q[k - 1]
          BY <5>1
        <5>3. q[k] = Onward(E, q[k - 1])
          BY <2>3, <5>1, <4>2
        <5> QED BY <5>2, <5>3, <4>2
      <4>3. CASE k # m /\ k = 0
        <5>1. k \in 0 .. m - 1
          BY <4>3
        <5>2. r[k] = q[k]
          BY <4>3, <5>1
        <5> QED BY <2>3, <4>3, <5>1, <5>2
      <4> QED BY <4>1, <4>2, <4>3
    <3> QED BY <3>1
  <2>5. r = [k \in 0 .. m |-> r[k]]
    OBVIOUS
  <2> HIDE DEF r
  <2>6. Walk(E, S, m, r)
    BY <2>4, <2>5 DEF Walk
  <2> QED BY <2>6
<1> QED BY <1>2, <1>3

\* The closure is where the walk arrives.
LEMMA ClosureIsWalk ==
  ASSUME NEW E, NEW S, IsFiniteSet(NodesOf(E))
  PROVE  \E r : Walk(E, S, Cardinality(NodesOf(E)), r) /\ Closure(E, S) = r[Cardinality(NodesOf(E))]
<1> DEFINE n == Cardinality(NodesOf(E))
<1>1. n \in Nat
  BY FS_CardinalityType
<1> DEFINE c == CHOOSE r : r = [k \in 0 .. n |-> IF k = 0 THEN S ELSE Onward(E, r[k - 1])]
<1>2. Closure(E, S) = c[n]
  BY DEF Closure
<1> HIDE DEF n
<1>3. \E r : r = [k \in 0 .. n |-> IF k = 0 THEN S ELSE Onward(E, r[k - 1])]
  <2>1. \E r : Walk(E, S, n, r)
    BY <1>1, WalkExists
  <2> QED BY <2>1, Zenon DEF Walk
<1>4. c = [k \in 0 .. n |-> IF k = 0 THEN S ELSE Onward(E, c[k - 1])]
  BY <1>3, Zenon
<1> HIDE DEF c
<1>5. Walk(E, S, n, c)
  BY <1>4 DEF Walk
<1> QED BY <1>2, <1>5 DEF n

\* A set that a walk's start lies in and that every edge stays in holds the closure.
LEMMA ClosureWithin ==
  ASSUME NEW E, NEW S, IsFiniteSet(NodesOf(E)), NEW T, S \subseteq T,
         \A e \in E : e[1] \in T => e[2] \in T
  PROVE  Closure(E, S) \subseteq T
<1> DEFINE n == Cardinality(NodesOf(E))
<1>0. n \in Nat
  BY FS_CardinalityType
<1>1. PICK r : Walk(E, S, n, r) /\ Closure(E, S) = r[n]
  BY ClosureIsWalk
<1> HIDE DEF n
<1>2. \A k \in 0 .. n : r[k] = IF k = 0 THEN S ELSE Onward(E, r[k - 1])
  BY <1>1 DEF Walk
<1> DEFINE Out == {k \in 0 .. n : ~ (r[k] \subseteq T)}
<1>3. Out = {}
  <2> SUFFICES ASSUME Out # {} PROVE FALSE
    OBVIOUS
  <2>0. Out \subseteq Nat
    BY <1>0
  <2>1. PICK k \in Out : \A j \in Out : k <= j
    BY <2>0, LeastOf
  <2>2. k # 0
    BY <1>2, <1>0
  <2>3. k - 1 \in 0 .. n /\ k - 1 \notin Out /\ k \in 0 .. n
    BY <2>1, <2>2, <1>0
  <2>4. r[k - 1] \subseteq T /\ r[k] = Onward(E, r[k - 1])
    BY <2>2, <2>3, <1>2
  <2>5. r[k] \subseteq T
    BY <2>4 DEF Onward
  <2> QED BY <2>5, <2>1
<1>4. n \in 0 .. n
  BY <1>0
<1> QED BY <1>1, <1>3, <1>4

\* The closure holds where the walk starts and is closed under the edges: as long
\* as a step is not the last, it takes in one more node.
LEMMA ClosureCloses ==
  ASSUME NEW E, NEW S, IsFiniteSet(NodesOf(E))
  PROVE  /\ S \subseteq Closure(E, S)
         /\ \A e \in E : e[1] \in Closure(E, S) => e[2] \in Closure(E, S)
<1> DEFINE N == NodesOf(E)
           n == Cardinality(N)
<1>0. n \in Nat /\ IsFiniteSet(N)
  BY FS_CardinalityType
<1>1. PICK r : Walk(E, S, n, r) /\ Closure(E, S) = r[n]
  BY ClosureIsWalk
<1>9. \A e \in E : e[1] \in N /\ e[2] \in N
  BY DEF NodesOf
<1> HIDE DEF n, N
<1>2. \A k \in 0 .. n : r[k] = IF k = 0 THEN S ELSE Onward(E, r[k - 1])
  BY <1>1 DEF Walk
<1> DEFINE Closed(A) == \A e \in E : e[1] \in A => e[2] \in A
           Full(k) == S \subseteq r[k] /\ (Closed(r[k]) \/ Cardinality(r[k] \cap N) >= k)
           Odd == {k \in 0 .. n : ~ Full(k)}
<1>3. \A A : IsFiniteSet(A \cap N) /\ Cardinality(A \cap N) \in Nat
  BY <1>0, FS_Intersection, FS_CardinalityType
<1>4. Odd = {}
  <2> SUFFICES ASSUME Odd # {} PROVE FALSE
    OBVIOUS
  <2>0. Odd \subseteq Nat
    BY <1>0
  <2> HIDE DEF Odd
  <2>1. PICK k \in Odd : \A j \in Odd : k <= j
    BY <2>0, LeastOf
  <2>2. k \in 0 .. n /\ ~ Full(k)
    BY <2>1 DEF Odd
  <2>3. k # 0
    <3>1. ASSUME k = 0 PROVE FALSE
      <4>1. r[k] = S /\ Cardinality(r[k] \cap N) >= k
        BY <3>1, <1>2, <1>3, <2>2
      <4> QED BY <4>1, <2>2
    <3> QED BY <3>1
  <2>4. k - 1 \in 0 .. n /\ Full(k - 1)
    <3>1. k - 1 \in 0 .. n /\ ~ (k <= k - 1)
      BY <2>2, <2>3, <1>0
    <3> QED BY <3>1, <2>1 DEF Odd
  <2> DEFINE A == r[k - 1]
             B == r[k]
  <2>5. B = Onward(E, A)
    BY <1>2, <2>2, <2>3
  <2>6. A \subseteq B /\ (\A e \in E : e[1] \in A => e[2] \in B) /\ \A x \in B : x \in A \/ \E e \in E : e[1] \in A /\ e[2] = x
    BY <2>5 DEF Onward
  <2>7. S \subseteq A /\ (Closed(A) \/ Cardinality(A \cap N) >= k - 1)
    BY <2>4
  <2>8. ~ (S \subseteq B /\ (Closed(B) \/ Cardinality(B \cap N) >= k))
    BY <2>2
  <2> HIDE DEF A, B, Full
  <2>9. CASE Closed(A)
    <3>1. B = A
      BY <2>6, <2>9
    <3> QED BY <3>1, <2>7, <2>8, <2>9
  <2>10. CASE ~ Closed(A)
    <3>1. PICK e \in E : e[1] \in A /\ e[2] \notin A
      BY <2>10
    <3>2. e[2] \in B \cap N /\ e[2] \notin A \cap N /\ A \cap N \subseteq B \cap N
      BY <3>1, <2>6, <1>9
    <3> DEFINE a == A \cap N
               b == B \cap N
    <3>3. IsFiniteSet(a) /\ Cardinality(a) \in Nat /\ IsFiniteSet(b) /\ Cardinality(b) \in Nat
      BY <1>3
    <3>4. a \in SUBSET b /\ a # b
      BY <3>2
    <3>7. Cardinality(a) >= k - 1
      BY <2>7, <2>10
    <3> HIDE DEF a, b
    <3>5. Cardinality(a) <= Cardinality(b) /\ Cardinality(a) # Cardinality(b)
      BY <3>3, <3>4, FS_Subset
    <3>6. Cardinality(b) >= k
      BY <3>3, <3>5, <3>7, <2>2
    <3> QED BY <3>6, <2>6, <2>7, <2>8 DEF b
  <2> QED BY <2>9, <2>10
<1>5. Full(n)
  BY <1>0, <1>4
<1>6. S \subseteq r[n] /\ Closed(r[n])
  <2>1. S \subseteq r[n]
    BY <1>5
  <2>2. CASE Cardinality(r[n] \cap N) >= n
    <3>1. Cardinality(r[n] \cap N) <= Cardinality(N) /\ (Cardinality(N) = Cardinality(r[n] \cap N) => N = r[n] \cap N)
      BY <1>0, FS_Subset
    <3>2. N = r[n] \cap N
      BY <3>1, <2>2, <1>3, <1>0 DEF n
    <3> QED BY <3>2, <2>1, <1>9
  <2> QED BY <2>1, <2>2, <1>5
<1> QED BY <1>1, <1>6

-----------------------------------------------------------------------------
(* The graph of a tree of well-formed facts.                                 *)

LEMMA ImageIsFinite ==
  ASSUME NEW S, IsFiniteSet(S), NEW f, DOMAIN f = S
  PROVE  IsFiniteSet({f[x] : x \in S})
<1> DEFINE T == {f[x] : x \in S}
           h == [x \in S |-> f[x]]
<1>1. h \in Surjection(S, T)
  BY DEF Surjection
<1> QED BY <1>1, FS_Surjection

\* Everything a graph has for a node.
AllSymbols == {Symbol(g) : g \in Functions}
AllRoutes == {<<"route", p[1], p[2]>> : p \in Files \X Functions}
Universe == Files \cup Deps \cup Functions \cup AllSymbols \cup AllRoutes

LEMMA UniverseIsFinite ==
  ASSUME NEW N, N \subseteq Universe
  PROVE  IsFiniteSet(N)
<1>1. IsFiniteSet(AllSymbols)
  <2> DEFINE f == [g \in Functions |-> Symbol(g)]
  <2>1. DOMAIN f = Functions
    OBVIOUS
  <2>2. AllSymbols = {f[g] : g \in Functions}
    BY DEF AllSymbols
  <2> HIDE DEF f
  <2> QED BY <2>1, <2>2, GraphAssumption, ImageIsFinite
<1>2. IsFiniteSet(AllRoutes)
  <2> DEFINE P == Files \X Functions
             f == [p \in P |-> <<"route", p[1], p[2]>>]
  <2>1. IsFiniteSet(P)
    BY GraphAssumption, FS_Product
  <2>2. DOMAIN f = P /\ AllRoutes = {f[p] : p \in P}
    BY DEF AllRoutes
  <2> HIDE DEF f, P
  <2> QED BY <2>1, <2>2, ImageIsFinite
<1>3. IsFiniteSet(Files \cup Deps)
  BY GraphAssumption, FS_Union
<1>4. IsFiniteSet(Files \cup Deps \cup Functions)
  BY <1>3, GraphAssumption, FS_Union
<1>5. IsFiniteSet(Files \cup Deps \cup Functions \cup AllSymbols)
  BY <1>4, <1>1, FS_Union
<1>6. IsFiniteSet(Universe)
  BY <1>5, <1>2, FS_Union DEF Universe
<1> QED BY <1>6, FS_Subset

Tree(t) == \A f \in t : WellFormed(f)

\* What the extractor relates is a node.
LEMMA TargetsAreFiles ==
  ASSUME NEW f, WellFormed(f), f.how \in {"plain", "opaque", "alias", "unvisited"}
  PROVE  f.in \in Files /\ Targets(f.to) \subseteq Files \cup Deps
BY GraphAssumption DEF WellFormed, Targets

LEMMA SymbolsAreAll ==
  ASSUME NEW t
  PROVE  Symbols(t) \subseteq AllSymbols /\ \A g \in Functions : Symbol(g) \in AllSymbols
BY DEF Symbols, AllSymbols

LEMMA LoadsWithin ==
  ASSUME NEW t, Tree(t), NEW hows, hows \subseteq {"plain", "opaque"}
  PROVE  \A e \in UNION {{<<l.in, x>> : x \in Targets(l.to)} : l \in Of(t, hows)} :
           e[1] \in Universe /\ e[2] \in Universe
<1> SUFFICES ASSUME NEW l \in Of(t, hows), NEW x \in Targets(l.to)
             PROVE  l.in \in Universe /\ x \in Universe
  OBVIOUS
<1>1. WellFormed(l) /\ l.how \in {"plain", "opaque", "alias", "unvisited"}
  BY DEF Tree, Of
<1> QED BY <1>1, TargetsAreFiles DEF Universe

LEMMA CallsWithin ==
  ASSUME NEW t, Tree(t), NEW hows, hows \subseteq {"local", "imported", "method"}
  PROVE  \A e \in CallEdges(t, hows) : e[1] \in Universe /\ e[2] \in Universe
<1> SUFFICES ASSUME NEW c \in Of(t, hows), NEW s \in Callee(t, c)
             PROVE  Symbol(c.by) \in Universe /\ s \in Universe
  BY DEF CallEdges
<1>1. WellFormed(c) /\ c.how \in {"local", "imported", "method"}
  BY DEF Tree, Of
<1>2. c.by \in Functions
  BY <1>1 DEF WellFormed
<1>3. s \in Symbols(t)
  BY DEF Callee
<1> QED BY <1>2, <1>3, SymbolsAreAll DEF Universe

LEMMA HandlesWithin ==
  ASSUME NEW t, Tree(t)
  PROVE  \A e \in HandleEdges(t) : e[1] \in Universe /\ e[2] \in Universe
<1> SUFFICES ASSUME NEW r \in Of(t, {"route"})
             PROVE  RouteNode(r) \in Universe /\ Symbol(r.by) \in Universe
  BY DEF HandleEdges
<1>1. r.in \in Files /\ r.by \in Functions
  BY DEF Tree, Of, WellFormed
<1>2. RouteNode(r) \in AllRoutes
  <2>1. <<r.in, r.by>> \in Files \X Functions
    BY <1>1
  <2>2. RouteNode(r) = <<"route", <<r.in, r.by>>[1], <<r.in, r.by>>[2]>>
    BY DEF RouteNode
  <2> QED BY <2>1, <2>2 DEF AllRoutes
<1> QED BY <1>1, <1>2, SymbolsAreAll DEF Universe

LEMMA EdgesAreFinite ==
  ASSUME NEW t, Tree(t)
  PROVE  IsFiniteSet(NodesOf(Edges(t)))
<1>1. \A e \in LoadEdges(t) : e[1] \in Universe /\ e[2] \in Universe
  BY LoadsWithin DEF LoadEdges
<1>2. \A e \in DeclareEdges(t) : e[1] \in Universe /\ e[2] \in Universe
  <2> SUFFICES ASSUME NEW s \in Symbols(t) PROVE s[1] \in Universe /\ s \in Universe
    BY DEF DeclareEdges
  <2>1. PICK g \in Functions : s = Symbol(g)
    BY DEF Symbols
  <2>2. s[1] \in Files
    BY <2>1, GraphAssumption DEF Symbol
  <2> QED BY <2>2, SymbolsAreAll DEF Universe
<1>3. \A e \in Edges(t) : e[1] \in Universe /\ e[2] \in Universe
  BY <1>1, <1>2, CallsWithin, HandlesWithin DEF Edges
<1>4. NodesOf(Edges(t)) \subseteq Universe
  BY <1>3 DEF NodesOf
<1> QED BY <1>4, UniverseIsFinite

LEMMA DependsAreFinite ==
  ASSUME NEW t, Tree(t)
  PROVE  /\ \A e \in DependsOn(t) : e[1] \in Deps /\ e[2] \in Deps
         /\ IsFiniteSet(NodesOf(DependsOn(t)))
<1>1. \A e \in DependsOn(t) : e[1] \in Deps /\ e[2] \in Deps
  BY DEF DependsOn, Of, Tree, WellFormed
<1>2. NodesOf(DependsOn(t)) \subseteq Universe
  BY <1>1 DEF NodesOf, Universe
<1> QED BY <1>1, <1>2, UniverseIsFinite

-----------------------------------------------------------------------------
(* What the walks of the gates take in, against what the program does.       *)

\* Where the walk took in every start and met no load of an expression, all that
\* the program loads is among what it arrived at.
LEMMA LoadedHasArrived ==
  ASSUME NEW t, Tree(t), NEW sbom \in BOOLEAN, ~ Refused(t)
  PROVE  Loaded(t, {"plain", "opaque"}, sbom) \subseteq Arrived(t, sbom)
<1> DEFINE loads == UNION {{<<l.in, x>> : x \in Targets(l.to)} : l \in Of(t, {"plain", "opaque"})}
           chain == IF sbom THEN DependsOn(t) ELSE {}
           starts == EntryFiles(t) \cup Detected(t)
           code == Reached(t) \cap (Files \cup Deps)
           more == Closure(DependsOn(t), code \cap Deps)
<1>1. /\ EntryRoots(t) \subseteq Reached(t)
      /\ \A e \in Edges(t) : e[1] \in Reached(t) => e[2] \in Reached(t)
  BY EdgesAreFinite, ClosureCloses DEF Reached
<1>2. /\ code \cap Deps \subseteq more /\ more \subseteq Deps
      /\ \A e \in DependsOn(t) : e[1] \in more => e[2] \in more
  BY DependsAreFinite, ClosureCloses, ClosureWithin
<1>3. Arrived(t, sbom) = IF sbom THEN code \cup more ELSE code
  BY DEF Arrived
<1>4. starts \subseteq Arrived(t, sbom)
  <2>1. Present(t) \subseteq Files
    BY DEF Present, Of, Tree, WellFormed
  <2>2. EntryFiles(t) \subseteq Reached(t)
    BY <1>1 DEF EntryRoots
  <2>3. Detected(t) \subseteq Reached(t)
    BY <2>2 DEF EntryFiles, Refused, Excluded
  <2>4. starts \subseteq Files
    BY <2>1, GraphAssumption DEF EntryFiles, Detected
  <2> QED BY <1>3, <2>2, <2>3, <2>4
<1>5. ASSUME NEW l \in Of(t, {"plain", "opaque"}), NEW x \in Targets(l.to), l.in \in Arrived(t, sbom)
      PROVE  x \in Arrived(t, sbom)
  <2>1. WellFormed(l) /\ l.how \in {"plain", "opaque"} /\ l \in t
    BY DEF Tree, Of
  <2>2. l.in \in Files /\ x \in Files \cup Deps
    BY <2>1, TargetsAreFiles
  <2>3. l.in \in Reached(t)
    BY <1>2, <1>3, <1>5, <2>2, GraphAssumption
  <2>4. l.how = "plain"
    BY <2>1, <2>3 DEF Refused, OpaqueReached, Opaque, Of
  <2>5. <<l.in, x>> \in Edges(t)
    BY <2>1, <2>4 DEF Edges, LoadEdges, Of
  <2>6. x \in Reached(t)
    BY <1>1, <2>3, <2>5
  <2> QED BY <1>3, <2>2, <2>6
<1>6. ASSUME NEW e \in chain, e[1] \in Arrived(t, sbom)
      PROVE  e[2] \in Arrived(t, sbom)
  <2>1. sbom /\ e \in DependsOn(t) /\ e[1] \in Deps
    BY DependsAreFinite
  <2>2. e[1] \in more
    BY <1>2, <1>3, <1>6, <2>1
  <2> QED BY <1>2, <1>3, <2>1, <2>2
<1>7. IsFiniteSet(NodesOf(loads \cup chain))
  <2>1. \A e \in loads : e[1] \in Universe /\ e[2] \in Universe
    BY LoadsWithin
  <2>2. \A e \in chain : e[1] \in Universe /\ e[2] \in Universe
    BY DependsAreFinite DEF Universe
  <2> HIDE DEF loads, chain
  <2>3. NodesOf(loads \cup chain) \subseteq Universe
    BY <2>1, <2>2 DEF NodesOf
  <2> QED BY <2>3, UniverseIsFinite
<1>8. \A e \in loads \cup chain : e[1] \in Arrived(t, sbom) => e[2] \in Arrived(t, sbom)
  BY <1>5, <1>6
<1>9. Loaded(t, {"plain", "opaque"}, sbom) = Closure(loads \cup chain, starts)
  BY DEF Loaded
<1> HIDE DEF loads, chain, starts
<1> QED BY <1>4, <1>7, <1>8, <1>9, ClosureWithin

\* What the gates call unreachable the program does not load.
LEMMA NegativeIsTrue ==
  ASSUME NEW t, Tree(t), NEW sbom \in BOOLEAN
  PROVE  NotAffected(t, sbom) \cap Loaded(t, {"plain", "opaque"}, sbom) = {}
<1> SUFFICES ASSUME NEW x \in NotAffected(t, sbom), x \in Loaded(t, {"plain", "opaque"}, sbom)
             PROVE  FALSE
  OBVIOUS
<1>1. x \notin Arrived(t, sbom) /\ ~ Refused(t)
  BY DEF NotAffected, Reachability
<1> QED BY <1>1, LoadedHasArrived

-----------------------------------------------------------------------------
(* Routes.                                                                   *)

\* Every hop of an exact chain is a call of the program.
LEMMA ExactChainsRun ==
  ASSUME NEW t, Tree(t), NEW r \in Of(t, {"route"}),
         \A g, h \in Functions : Symbol(g) = Symbol(h) => g = h
  PROVE  ChainFrom(t, r, {"local", "imported"})
           \subseteq {RouteNode(r)} \cup {Symbol(g) : g \in Runs(t, r) \cap Functions}
<1> DEFINE calls == {<<c.by, c.to>> : c \in Of(t, {"local", "imported", "method"})}
           run == Runs(t, r)
           seen == {RouteNode(r)} \cup {Symbol(g) : g \in run \cap Functions}
           hops == HandleEdges(t) \cup CallEdges(t, {"local", "imported"})
<1>1. r.by \in Functions
  BY DEF Of, Tree, WellFormed
<1>2. IsFiniteSet(NodesOf(calls))
  <2>1. \A e \in calls : e[1] \in Functions /\ e[2] \in Functions
    BY DEF Of, Tree, WellFormed
  <2> HIDE DEF calls
  <2>2. NodesOf(calls) \subseteq Universe
    BY <2>1 DEF NodesOf, Universe
  <2> QED BY <2>2, UniverseIsFinite
<1>3. r.by \in run /\ \A e \in calls : e[1] \in run => e[2] \in run
  <2>1. run = Closure(calls, {r.by})
    BY DEF Runs
  <2> HIDE DEF calls, run
  <2> QED BY <1>2, <2>1, ClosureCloses
<1> HIDE DEF run
<1>4. \A q : \A g \in Functions : Symbol(g) # RouteNode(q)
  BY DEF Symbol, RouteNode
<1>5. ASSUME NEW q \in Of(t, {"route"}), RouteNode(q) \in seen
      PROVE  Symbol(q.by) \in seen
  <2>1. RouteNode(q) = RouteNode(r)
    BY <1>4, <1>5
  <2>2. q.by = r.by
    BY <2>1 DEF RouteNode
  <2> QED BY <1>1, <1>3, <2>2
<1>6. ASSUME NEW c \in Of(t, {"local", "imported"}), NEW s \in Callee(t, c), Symbol(c.by) \in seen
      PROVE  s \in seen
  <2>1. c.by \in Functions /\ c.to \in Functions /\ c.how # "method" /\ c \in Of(t, {"local", "imported", "method"})
    BY DEF Of, Tree, WellFormed
  <2>2. s = Symbol(c.to)
    BY <2>1 DEF Callee
  <2>3. c.by \in run
    BY <1>4, <1>6, <2>1
  <2>4. c.to \in run
    <3> DEFINE e == <<c.by, c.to>>
    <3>1. e \in calls /\ e[1] = c.by /\ e[2] = c.to
      BY <2>1
    <3> HIDE DEF e, calls
    <3> QED BY <1>3, <2>3, <3>1
  <2> QED BY <2>1, <2>2, <2>4
<1>7. \A e \in hops : e[1] \in seen => e[2] \in seen
  BY <1>5, <1>6 DEF HandleEdges, CallEdges
<1>8. IsFiniteSet(NodesOf(hops))
  <2>1. \A e \in hops : e[1] \in Universe /\ e[2] \in Universe
    BY CallsWithin, HandlesWithin
  <2> HIDE DEF hops
  <2>2. NodesOf(hops) \subseteq Universe
    BY <2>1 DEF NodesOf
  <2> QED BY <2>2, UniverseIsFinite
<1>9. ChainFrom(t, r, {"local", "imported"}) = Closure(hops, {RouteNode(r)})
  BY DEF ChainFrom
<1> HIDE DEF hops
<1>10. Closure(hops, {RouteNode(r)}) \subseteq seen
  BY <1>7, <1>8, ClosureWithin
<1> QED BY <1>9, <1>10 DEF run

\* So the route runs a function that is called as its guard is.
LEMMA ExactMeansRun ==
  ASSUME NEW t, Tree(t), NEW r \in Of(t, {"route"}), AuthExact(t, r),
         \A g, h \in Functions : Symbol(g) = Symbol(h) => g = h
  PROVE  \E g \in Runs(t, r) : NameOf[g] \in AuthNames /\ FileOf[g] \in Present(t)
<1>1. PICK s \in ChainFrom(t, r, {"local", "imported"}) : s \in Symbols(t) /\ s[2] \in AuthNames
  BY DEF AuthExact, AuthSymbols
<1>2. PICK h \in Functions : FileOf[h] \in Present(t) /\ s = Symbol(h)
  BY <1>1 DEF Symbols
<1>3. s # RouteNode(r)
  BY <1>2 DEF Symbol, RouteNode
<1>4. PICK g \in Runs(t, r) \cap Functions : s = Symbol(g)
  BY <1>1, <1>3, ExactChainsRun
<1>5. g = h
  BY <1>2, <1>4
<1>6. s[2] = NameOf[h]
  BY <1>2 DEF Symbol
<1> QED BY <1>1, <1>2, <1>4, <1>5, <1>6

-----------------------------------------------------------------------------
(* What a scan signs.                                                        *)

\* Reading the SBOM makes nothing unreachable (query.ts, dependencyReachability).
LEMMA SbomAcquitsNothing ==
  ASSUME NEW t PROVE NotAffected(t, TRUE) \subseteq NotAffected(t, FALSE)
<1> SUFFICES ASSUME NEW x \in NotAffected(t, TRUE) PROVE x \in NotAffected(t, FALSE)
  OBVIOUS
<1>1. x \in Deps \cup Present(t) /\ Reachability(t, TRUE, x) = "false"
  BY DEF NotAffected
<1>2. EntryFiles(t) # {} /\ x \notin Arrived(t, TRUE) /\ x \in WalkedNodes(t, TRUE) /\ ~ Refused(t)
  BY <1>1 DEF Reachability
<1>3. x \notin Arrived(t, FALSE)
  BY <1>2 DEF Arrived
<1>4. x \in WalkedNodes(t, FALSE)
  BY <1>2 DEF WalkedNodes
<1>5. Reachability(t, FALSE, x) = "false"
  BY <1>2, <1>3, <1>4 DEF Reachability
<1> QED BY <1>1, <1>5 DEF NotAffected

\* Whatever a scan signs, its SBOM took no verdict back.
THEOREM SbomOnlyAddsAlways == ReachSpec => []SbomOnlyAdds
<1>1. SbomOnlyAdds
  BY SbomAcquitsNothing DEF SbomOnlyAdds
<1> QED BY <1>1, PTL

-----------------------------------------------------------------------------
\* Trees are made of facts, those a scan read as well, and what it read is the
\* commit's.
TreesAreFacts ==
  /\ tree \subseteq Facts \cup FirstTree
  /\ signed # None => signed.read \subseteq Facts \cup FirstTree /\ signed.sbom \in BOOLEAN
  /\ OnlyCommittedFiles

\* What a scan reads names no file but the commit's.
LEMMA ReadIsCommitted ==
  ASSUME tree \subseteq Facts \cup FirstTree PROVE Present(ReadAtHead) \subseteq Present(head)
<1> SUFFICES ASSUME NEW f \in ReadAtHead, f.how = "file" PROVE f.in \in Present(head)
  BY DEF Present, Of
<1>1. f \in tree /\ f.in \in Present(head) \cup Deps
  BY DEF ReadAtHead
<1>2. f.in \in Files
  BY <1>1, FactsAssumption DEF WellFormed
<1> QED BY <1>1, <1>2, GraphAssumption

\* A step of the traversal keeps the trees to the facts.
LEMMA TreesStep == TreesAreFacts /\ [ReachNext]_reachVars => TreesAreFacts'
<1> SUFFICES ASSUME TreesAreFacts, [ReachNext]_reachVars PROVE TreesAreFacts'
  OBVIOUS
<1>1. CASE Edit
  BY <1>1 DEF Edit, Quiet, TreesAreFacts, OnlyCommittedFiles
<1>2. CASE Commit
  BY <1>2 DEF Commit, Quiet, TreesAreFacts, OnlyCommittedFiles
<1>3. CASE Merge
  BY <1>3 DEF Merge, Quiet, TreesAreFacts, OnlyCommittedFiles
<1>4. CASE Scan
  <2>1. PICK sbom \in BOOLEAN :
          signed' = [at |-> head, read |-> IF Unreadable THEN {} ELSE ReadAtHead, sbom |-> sbom]
    BY <1>4 DEF Scan
  <2>2. signed'.at = head /\ signed'.read = (IF Unreadable THEN {} ELSE ReadAtHead) /\ signed'.sbom = sbom
    BY <2>1
  <2>3. Present({}) = {}
    BY DEF Present, Of
  <2>4. Present(signed'.read) \subseteq Present(head)
    BY <2>2, <2>3, ReadIsCommitted DEF TreesAreFacts
  <2>5. OnlyCommittedFiles'
    BY <2>2, <2>4 DEF OnlyCommittedFiles
  <2>6. signed'.read \subseteq Facts \cup FirstTree
    BY <2>2 DEF ReadAtHead, TreesAreFacts
  <2>7. tree' = tree
    BY <1>4 DEF Scan
  <2> QED BY <2>2, <2>5, <2>6, <2>7 DEF TreesAreFacts
<1>5. CASE Lapse
  BY <1>5 DEF Lapse, Quiet, TreesAreFacts, OnlyCommittedFiles
<1>6. CASE Check
  BY <1>6 DEF Check, TreesAreFacts, OnlyCommittedFiles
<1>7. CASE UNCHANGED reachVars
  BY <1>7 DEF reachVars, TreesAreFacts, OnlyCommittedFiles
<1> QED BY <1>1, <1>2, <1>3, <1>4, <1>5, <1>6, <1>7 DEF ReachNext

LEMMA TreesInvariant == ReachSpec => []TreesAreFacts
<1>1. ReachInit => TreesAreFacts
  BY DEF ReachInit, TreesAreFacts, OnlyCommittedFiles
<1> QED BY <1>1, TreesStep, PTL DEF ReachSpec

\* A file that lies on disk only is in nothing a scan signs.
THEOREM OnlyCommittedFilesAlways == ReachSpec => []OnlyCommittedFiles
<1>1. TreesAreFacts => OnlyCommittedFiles
  BY DEF TreesAreFacts
<1> QED BY <1>1, TreesInvariant, PTL

\* A signed negative is true, whatever the program, the checkout and the SBOM: the
\* walk started where the program does or was refused, so what it did not arrive at
\* no load of the program arrives at (collectors/src/reachability.ts, scope.ts).
THEOREM SignedIsAlwaysSound == ReachSpec => []SignedIsSound
<1>1. TreesAreFacts => NegativesAreTrue
  <2> SUFFICES ASSUME TreesAreFacts, signed # None
               PROVE  NotAffected(signed.read, signed.sbom)
                        \cap Loaded(signed.read, {"plain", "opaque"}, signed.sbom) = {}
    BY DEF NegativesAreTrue
  <2>1. Tree(signed.read) /\ signed.sbom \in BOOLEAN
    BY FactsAssumption DEF TreesAreFacts, Tree
  <2> QED BY <2>1, NegativeIsTrue
<1>2. TreesAreFacts => SignedIsSound
  BY <1>1, SbomAcquitsNothing DEF SignedIsSound, SbomOnlyAdds, TreesAreFacts
<1> QED BY <1>2, TreesInvariant, PTL

\* A route that a scan says reaches authentication by resolved hops runs a function
\* so named (graph/src/extract.ts, routeAuthCoverage).
THEOREM CoveredRoutesRunAuth == ReachSpec => []CoveredRouteRunsAuth
<1>1. TreesAreFacts => CoveredRouteRunsAuth
  <2> SUFFICES ASSUME TreesAreFacts, signed # None, \A g, h \in Functions : Symbol(g) = Symbol(h) => g = h,
                      NEW r \in Of(signed.read, {"route"}), AuthExact(signed.read, r)
               PROVE  \E g \in Runs(signed.read, r) :
                        NameOf[g] \in AuthNames /\ FileOf[g] \in Present(signed.read)
    BY DEF CoveredRouteRunsAuth
  <2>1. Tree(signed.read)
    BY FactsAssumption DEF TreesAreFacts, Tree
  <2> QED BY <2>1, ExactMeansRun
<1> QED BY <1>1, TreesInvariant, PTL

-----------------------------------------------------------------------------
\* A check's word against the base tree is the base tree's.
LEMMA CheckIsJust == Check => BlameIsDeserved'
<1> SUFFICES ASSUME Check PROVE BlameIsDeserved'
  OBVIOUS
<1>1. PICK named \in BOOLEAN, c \in Recipes :
        said' = [recipe |-> c, word |-> Movement(Verdict(c, tree), Baseline(named, c).was),
                 by |-> Baseline(named, c).by, named |-> named]
  BY DEF Check
<1>2. /\ said'.recipe = c /\ said'.named = named
      /\ said'.word = Movement(Verdict(c, tree), Baseline(named, c).was)
  BY <1>1
<1>3. base' = base
  BY DEF Check
<1> SUFFICES ASSUME named
             PROVE  /\ said'.word = "introduced" => Verdict(c, base) # "violated"
                    /\ said'.word = "inherited" => Verdict(c, base) = "violated"
  BY <1>2, <1>3 DEF BlameIsDeserved
<1>4. Baseline(named, c).was = Verdict(c, base)
  BY DEF Baseline, FromTree
<1> QED BY <1>2, <1>4 DEF Movement

\* A step of the traversal blames by what it found.
LEMMA BlameStep == BlameIsDeserved /\ [ReachNext]_reachVars => BlameIsDeserved'
<1> SUFFICES ASSUME BlameIsDeserved, [ReachNext]_reachVars PROVE BlameIsDeserved'
  OBVIOUS
<1>1. CASE Edit \/ Commit \/ Merge \/ Scan \/ Lapse
  <2>1. said' = None
    BY <1>1 DEF Edit, Commit, Merge, Scan, Lapse, Quiet
  <2> QED BY <2>1 DEF BlameIsDeserved
<1>2. CASE Check
  BY <1>2, CheckIsJust
<1>3. CASE UNCHANGED reachVars
  BY <1>3 DEF reachVars, BlameIsDeserved
<1> QED BY <1>1, <1>2, <1>3 DEF ReachNext

\* Against a base tree, no pull request is blamed for what its base already
\* had, and none excused for what it had not.
THEOREM BlameIsDeservedAlways == ReachSpec => []BlameIsDeserved
<1>1. ReachInit => BlameIsDeserved
  BY DEF ReachInit, BlameIsDeserved
<1> QED BY <1>1, BlameStep, PTL DEF ReachSpec
-----------------------------------------------------------------------------
(* The frontier: trees of records, recipes, manifests and a snapshot.        *)

LEMMA CollectorsAreFinite == IsFiniteSet(Registered)
<1> DEFINE f == [i \in 1 .. Len(Order) |-> Order[i]]
<1>1. Order \in Seq(Registered) /\ Len(Order) \in Nat /\ DOMAIN Order = 1 .. Len(Order)
  BY OrderIsList
<1>2. IsFiniteSet(1 .. Len(Order))
  BY <1>1, FS_Interval
<1>3. Registered = {f[i] : i \in 1 .. Len(Order)}
  BY <1>1 DEF Registered, ToSet
<1>4. DOMAIN f = 1 .. Len(Order)
  OBVIOUS
<1> HIDE DEF f
<1> QED BY <1>2, <1>3, <1>4, ImageIsFinite

\* Editing a list of a file leaves a list of the same things.
LEMMA ToggleKeeps ==
  ASSUME NEW T, NEW S \in SUBSET T, NEW x \in T
  PROVE  Toggle(S, x) \in SUBSET T
BY DEF Toggle

LEMMA RefreshTypes ==
  ASSUME FrontierTypes, Refresh
  PROVE  file' \in [SnapshotFiles -> DOMAIN Release] /\ pin' \in [Pins -> Versions]
BY DEF FrontierTypes, Refresh

LEMMA RepinTypes ==
  ASSUME FrontierTypes, Repin
  PROVE  file' \in [SnapshotFiles -> DOMAIN Release] /\ pin' \in [Pins -> Versions]
<1>1. PICK r \in DOMAIN Release, P \in SUBSET Pins : pin' = [q \in Pins |-> IF q \in P THEN Release[r][q] ELSE pin[q]]
  BY DEF Repin
<1>2. \A q \in Pins : Release[r][q] \in Versions
  BY DEF Versions
<1>3. pin \in [Pins -> Versions] /\ file \in [SnapshotFiles -> DOMAIN Release] /\ file' = file
  BY DEF FrontierTypes, Repin
<1> QED BY <1>1, <1>2, <1>3

\* A record stays a record, whichever of its fields is edited.
LEMMA EditRecordTypes ==
  ASSUME FrontierTypes, EditRecord
  PROVE  record' \in [Controls -> Adjudication \cup {Absent}]
<1>0. record \in [Controls -> Adjudication \cup {Absent}]
  BY DEF FrontierTypes
<1>1. PICK c \in Records :
       \/ \E d \in Dispositions : record' = [record EXCEPT ![c].disposition = d]
       \/ \E x \in Cites \cup {Absent} : record' = [record EXCEPT ![c].cites = x]
       \/ \E r \in RecipeIds : record' = [record EXCEPT ![c].recipes = Toggle(@, r)]
       \/ \E u \in TheirRecipes, d \in Controls : record' = [record EXCEPT ![c].answeredBy = Toggle(@, <<d, u>>)]
       \/ record' = [record EXCEPT ![c].retired = ~ @]
       \/ record' = [record EXCEPT ![c].dataset = pin.register]
  BY DEF EditRecord
<1>2. c \in Controls /\ record[c] \in Adjudication
  BY <1>0 DEF Records
<1> DEFINE b == record[c]
<1>3. \A n : n \in Adjudication => [record EXCEPT ![c] = n] \in [Controls -> Adjudication \cup {Absent}]
  BY <1>0
<1>4. b \in Adjudication
  BY <1>2
<1>5. CASE \E d \in Dispositions : record' = [record EXCEPT ![c].disposition = d]
  <2>1. PICK d \in Dispositions : record' = [record EXCEPT ![c] = [b EXCEPT !.disposition = d]]
    BY <1>5
  <2>2. [b EXCEPT !.disposition = d] \in Adjudication
    BY <1>4 DEF Adjudication
  <2> QED BY <2>1, <2>2, <1>3
<1>6. CASE \E x \in Cites \cup {Absent} : record' = [record EXCEPT ![c].cites = x]
  <2>1. PICK x \in Cites \cup {Absent} : record' = [record EXCEPT ![c] = [b EXCEPT !.cites = x]]
    BY <1>6
  <2>2. [b EXCEPT !.cites = x] \in Adjudication
    BY <1>4 DEF Adjudication
  <2> QED BY <2>1, <2>2, <1>3
<1>7. CASE \E r \in RecipeIds : record' = [record EXCEPT ![c].recipes = Toggle(@, r)]
  <2>1. PICK r \in RecipeIds : record' = [record EXCEPT ![c] = [b EXCEPT !.recipes = Toggle(b.recipes, r)]]
    BY <1>7
  <2>2. Toggle(b.recipes, r) \in SUBSET RecipeIds
    <3>1. b.recipes \in SUBSET RecipeIds
      BY <1>4 DEF Adjudication
    <3> QED BY <3>1, ToggleKeeps
  <2>3. [b EXCEPT !.recipes = Toggle(b.recipes, r)] \in Adjudication
    BY <1>4, <2>2 DEF Adjudication
  <2> QED BY <2>1, <2>3, <1>3
<1>8. CASE \E u \in TheirRecipes, d \in Controls : record' = [record EXCEPT ![c].answeredBy = Toggle(@, <<d, u>>)]
  <2>1. PICK u \in TheirRecipes, d \in Controls :
          record' = [record EXCEPT ![c] = [b EXCEPT !.answeredBy = Toggle(b.answeredBy, <<d, u>>)]]
    BY <1>8
  <2>2. Toggle(b.answeredBy, <<d, u>>) \in SUBSET (Controls \X TheirRecipes)
    <3> DEFINE T == Controls \X TheirRecipes
               S == b.answeredBy
               x == <<d, u>>
    <3>1. S \in SUBSET T /\ x \in T
      BY <1>4 DEF Adjudication
    <3> HIDE DEF S, T, x
    <3>2. Toggle(S, x) \in SUBSET T
      BY <3>1, ToggleKeeps
    <3> QED BY <3>2 DEF S, T, x
  <2>3. [b EXCEPT !.answeredBy = Toggle(b.answeredBy, <<d, u>>)] \in Adjudication
    BY <1>4, <2>2 DEF Adjudication
  <2> QED BY <2>1, <2>3, <1>3
<1>9. CASE record' = [record EXCEPT ![c].retired = ~ @]
  <2>1. record' = [record EXCEPT ![c] = [b EXCEPT !.retired = ~ b.retired]]
    BY <1>9
  <2>2. [b EXCEPT !.retired = ~ b.retired] \in Adjudication
    BY <1>4 DEF Adjudication
  <2> QED BY <2>1, <2>2, <1>3
<1>10. CASE record' = [record EXCEPT ![c].dataset = pin.register]
  <2>1. record' = [record EXCEPT ![c] = [b EXCEPT !.dataset = pin.register]]
    BY <1>10
  <2>2. pin.register \in Versions
    BY DEF FrontierTypes, Pins
  <2>3. [b EXCEPT !.dataset = pin.register] \in Adjudication
    BY <1>4, <2>2 DEF Adjudication
  <2> QED BY <2>1, <2>3, <1>3
<1> QED BY <1>1, <1>5, <1>6, <1>7, <1>8, <1>9, <1>10

LEMMA EditCatalogTypes ==
  ASSUME FrontierTypes, EditCatalog
  PROVE  catalog' \in [RecipeIds -> Recipe \cup {Absent}]
<1>0. catalog \in [RecipeIds -> Recipe \cup {Absent}]
  BY DEF FrontierTypes
<1>3. \A r \in RecipeIds, n \in Recipe \cup {Absent} : [catalog EXCEPT ![r] = n] \in [RecipeIds -> Recipe \cup {Absent}]
  BY <1>0
<1>1. CASE \E r \in RecipeIds \ Catalog, k \in Registered \cup TierTwo : catalog' = [catalog EXCEPT ![r] =
             [ksis |-> Ksis, controls |-> {}, collector |-> k, overlap |-> {}]]
  <2>1. \A k \in Registered \cup TierTwo : [ksis |-> Ksis, controls |-> {}, collector |-> k, overlap |-> {}] \in Recipe
    BY DEF Recipe
  <2> QED BY <1>1, <2>1, <1>3
<1>2. ASSUME NEW r \in Catalog,
             \/ catalog' = [catalog EXCEPT ![r] = Absent]
             \/ \E c \in Controls : catalog' = [catalog EXCEPT ![r].controls = Toggle(@, c)]
             \/ \E u \in TheirRecipes, c \in Controls : catalog' = [catalog EXCEPT ![r].overlap = Toggle(@, <<c, u>>)]
      PROVE  catalog' \in [RecipeIds -> Recipe \cup {Absent}]
  <2> DEFINE b == catalog[r]
  <2>1. r \in RecipeIds /\ b \in Recipe
    BY <1>0 DEF Catalog
  <2>2. CASE catalog' = [catalog EXCEPT ![r] = Absent]
    BY <2>1, <2>2, <1>3
  <2>3. CASE \E c \in Controls : catalog' = [catalog EXCEPT ![r].controls = Toggle(@, c)]
    <3>1. PICK c \in Controls : catalog' = [catalog EXCEPT ![r] = [b EXCEPT !.controls = Toggle(b.controls, c)]]
      BY <2>3
    <3>2. Toggle(b.controls, c) \in SUBSET Controls
      <4>1. b.controls \in SUBSET Controls
        BY <2>1 DEF Recipe
      <4> QED BY <4>1, ToggleKeeps
    <3>3. [b EXCEPT !.controls = Toggle(b.controls, c)] \in Recipe
      BY <2>1, <3>2 DEF Recipe
    <3> QED BY <3>1, <3>3, <1>3, <2>1
  <2>4. CASE \E u \in TheirRecipes, c \in Controls : catalog' = [catalog EXCEPT ![r].overlap = Toggle(@, <<c, u>>)]
    <3>1. PICK u \in TheirRecipes, c \in Controls :
            catalog' = [catalog EXCEPT ![r] = [b EXCEPT !.overlap = Toggle(b.overlap, <<c, u>>)]]
      BY <2>4
    <3>2. Toggle(b.overlap, <<c, u>>) \in SUBSET (Controls \X TheirRecipes)
      <4> DEFINE T == Controls \X TheirRecipes
                 S == b.overlap
                 x == <<c, u>>
      <4>1. S \in SUBSET T /\ x \in T
        BY <2>1 DEF Recipe
      <4> HIDE DEF S, T, x
      <4>2. Toggle(S, x) \in SUBSET T
        BY <4>1, ToggleKeeps
      <4> QED BY <4>2 DEF S, T, x
    <3>3. [b EXCEPT !.overlap = Toggle(b.overlap, <<c, u>>)] \in Recipe
      BY <2>1, <3>2 DEF Recipe
    <3> QED BY <3>1, <3>3, <1>3, <2>1
  <2> QED BY <1>2, <2>2, <2>3, <2>4
<1> QED BY <1>1, <1>2 DEF EditCatalog

LEMMA EditManifestTypes ==
  ASSUME FrontierTypes, EditManifest
  PROVE  manifest' \in [Registered -> Manifest]
<1>0. manifest \in [Registered -> Manifest]
  BY DEF FrontierTypes
<1>1. PICK k \in Registered :
       \/ \E a \in Artifacts : \/ manifest' = [manifest EXCEPT ![k].inputs = Toggle(@, a)]
                               \/ manifest' = [manifest EXCEPT ![k].outputs = Toggle(@, a)]
       \/ \E r \in RecipeIds : manifest' = [manifest EXCEPT ![k].recipes = Toggle(@, r)]
       \/ \E t \in ToolNames : manifest' = [manifest EXCEPT ![k].tools = Toggle(@, t)]
  BY DEF EditManifest
<1> DEFINE b == manifest[k]
<1>2. b \in Manifest
  BY <1>0
<1>3. \A n \in Manifest : [manifest EXCEPT ![k] = n] \in [Registered -> Manifest]
  BY <1>0
<1>4. /\ b.inputs \in SUBSET Artifacts /\ b.outputs \in SUBSET Artifacts
      /\ b.recipes \in SUBSET RecipeIds /\ b.tools \in SUBSET ToolNames
  BY <1>2 DEF Manifest
<1>5. ASSUME NEW a \in Artifacts, manifest' = [manifest EXCEPT ![k].inputs = Toggle(@, a)]
      PROVE  manifest' \in [Registered -> Manifest]
  <2>1. Toggle(b.inputs, a) \in SUBSET Artifacts
    BY <1>4, ToggleKeeps
  <2>2. [b EXCEPT !.inputs = Toggle(b.inputs, a)] \in Manifest
    BY <1>2, <2>1 DEF Manifest
  <2> QED BY <1>3, <1>5, <2>2
<1>6. ASSUME NEW a \in Artifacts, manifest' = [manifest EXCEPT ![k].outputs = Toggle(@, a)]
      PROVE  manifest' \in [Registered -> Manifest]
  <2>1. Toggle(b.outputs, a) \in SUBSET Artifacts
    BY <1>4, ToggleKeeps
  <2>2. [b EXCEPT !.outputs = Toggle(b.outputs, a)] \in Manifest
    BY <1>2, <2>1 DEF Manifest
  <2> QED BY <1>3, <1>6, <2>2
<1>7. ASSUME NEW r \in RecipeIds, manifest' = [manifest EXCEPT ![k].recipes = Toggle(@, r)]
      PROVE  manifest' \in [Registered -> Manifest]
  <2>1. Toggle(b.recipes, r) \in SUBSET RecipeIds
    BY <1>4, ToggleKeeps
  <2>2. [b EXCEPT !.recipes = Toggle(b.recipes, r)] \in Manifest
    BY <1>2, <2>1 DEF Manifest
  <2> QED BY <1>3, <1>7, <2>2
<1>8. ASSUME NEW t \in ToolNames, manifest' = [manifest EXCEPT ![k].tools = Toggle(@, t)]
      PROVE  manifest' \in [Registered -> Manifest]
  <2>1. Toggle(b.tools, t) \in SUBSET ToolNames
    BY <1>4, ToggleKeeps
  <2>2. [b EXCEPT !.tools = Toggle(b.tools, t)] \in Manifest
    BY <1>2, <2>1 DEF Manifest
  <2> QED BY <1>3, <1>8, <2>2
<1> QED BY <1>1, <1>5, <1>6, <1>7, <1>8

LEMMA AdjudicateTypes ==
  ASSUME FrontierTypes, Adjudicate
  PROVE  record' \in [Controls -> Adjudication \cup {Absent}]
<1>1. PICK c \in Controls, d \in Dispositions, k \in Registered \cup TierTwo :
        record' = [record EXCEPT ![c] =
          [disposition |-> d, recipes |-> {}, candidates |-> {k}, cites |-> Absent, answeredBy |-> {},
           retired |-> FALSE, dataset |-> pin.register]]
  BY DEF Adjudicate
<1>2. pin.register \in Versions
  BY DEF FrontierTypes, Pins
<1>3. [disposition |-> d, recipes |-> {}, candidates |-> {k}, cites |-> Absent, answeredBy |-> {},
       retired |-> FALSE, dataset |-> pin.register] \in Adjudication
  BY <1>2 DEF Adjudication
<1> QED BY <1>1, <1>3 DEF FrontierTypes

LEMMA InitTypes == FrontierInit => FrontierTypes
<1> SUFFICES ASSUME FrontierInit PROVE FrontierTypes
  OBVIOUS
<1>1. PICK t \in FirstTrees :
        DatasetInit(t.release) /\ record = t.record /\ catalog = t.catalog /\ manifest = t.manifest
  BY DEF FrontierInit
<1>2. /\ t.release \in DOMAIN Release /\ t.record \in [Controls -> Adjudication \cup {Absent}]
      /\ t.catalog \in [RecipeIds -> Recipe \cup {Absent}] /\ t.manifest \in [Registered -> Manifest]
  BY TreesAreTyped
<1>3. file \in [SnapshotFiles -> DOMAIN Release] /\ pin \in [Pins -> Versions]
  BY <1>1, <1>2 DEF DatasetInit, Versions
<1>4. edits \in Nat
  BY DEF FrontierInit
<1> QED BY <1>1, <1>2, <1>3, <1>4 DEF FrontierTypes

LEMMA StepTypes == FrontierTypes /\ [FrontierNext]_frontierVars => FrontierTypes'
<1> SUFFICES ASSUME FrontierTypes, [FrontierNext]_frontierVars PROVE FrontierTypes'
  OBVIOUS
<1>0. CASE UNCHANGED frontierVars
  BY <1>0 DEF frontierVars, FrontierTypes
<1>1. ASSUME FrontierNext PROVE edits' \in Nat
  BY <1>1 DEF FrontierNext, FrontierTypes
<1>2. CASE FrontierNext /\ Refresh /\ UNCHANGED <<record, catalog, manifest>>
  BY <1>1, <1>2, RefreshTypes DEF FrontierTypes
<1>3. CASE FrontierNext /\ Repin /\ UNCHANGED <<record, catalog, manifest>>
  BY <1>1, <1>3, RepinTypes DEF FrontierTypes
<1>4. CASE FrontierNext /\ Adjudicate /\ UNCHANGED <<file, pin>>
  BY <1>1, <1>4, AdjudicateTypes DEF FrontierTypes, Adjudicate
<1>5. CASE FrontierNext /\ EditRecord /\ UNCHANGED <<file, pin>>
  BY <1>1, <1>5, EditRecordTypes DEF FrontierTypes, EditRecord
<1>6. CASE FrontierNext /\ EditCatalog /\ UNCHANGED <<file, pin>>
  BY <1>1, <1>6, EditCatalogTypes DEF FrontierTypes, EditCatalog
<1>7. CASE FrontierNext /\ EditManifest /\ UNCHANGED <<file, pin>>
  BY <1>1, <1>7, EditManifestTypes DEF FrontierTypes, EditManifest
<1> QED BY <1>0, <1>2, <1>3, <1>4, <1>5, <1>6, <1>7 DEF FrontierNext

\* Whatever is copied, pinned, adjudicated or rewired, every file of the tree keeps
\* the shape its schema demands.
THEOREM TreesKeepTheirShape == FrontierSpec => []FrontierTypes
<1>1. FrontierInit => FrontierTypes
  BY InitTypes
<1>2. FrontierTypes /\ [FrontierNext]_frontierVars => FrontierTypes'
  BY StepTypes
<1> QED BY <1>1, <1>2, PTL DEF FrontierSpec

-----------------------------------------------------------------------------
(* What loads is one release.                                                *)

\* Two releases of one register version say the same of reach and facts; with one
\* overlay version beside it, of the frontier; with one plane version, of our subject.
LEMMA SameVersionSameContent ==
  ASSUME NEW i \in DOMAIN Release, NEW j \in DOMAIN Release, Release[i].register = Release[j].register
  PROVE  /\ Release[i].reach = Release[j].reach
         /\ Release[i].slices = Release[j].slices /\ Release[i].rules = Release[j].rules
         /\ Release[i].overlay = Release[j].overlay => Release[i].frontier = Release[j].frontier
         /\ Release[i].plane = Release[j].plane =>
              {x \in Release[i].plan : x.plane = "pipeline"} = {x \in Release[j].plan : x.plane = "pipeline"}
BY VersionsNameContent

LEMMA LoadedIsPinned ==
  ASSUME FrontierTypes, NEW r \in Pinned, DatasetLoads
  PROVE  /\ \A k \in Ksis : ControlsFor(k) = Release[r].reach[k]
         /\ \A c \in Controls :
              /\ FrontierRow(c) = Release[r].frontier[c]
              /\ \A u \in UpstreamRecipesFor(c) :
                   u[1] = "pipeline" => \E i \in Release[r].plan : u = <<i.plane, i.recipe>> /\ c \in i.proves
<1>1. /\ r \in DOMAIN Release /\ Release[r].register = pin.register
      /\ Release[r].overlay = pin.overlay /\ Release[r].plane = pin.plane
  BY DEF Pinned, Pins
<1>2. \A f \in SnapshotFiles : file[f] \in DOMAIN Release
  BY DEF FrontierTypes
<1>3. /\ file["crosswalk"] \in DOMAIN Release /\ file["frontier"] \in DOMAIN Release /\ file["plan"] \in DOMAIN Release
  BY <1>2 DEF SnapshotFiles
<1>4. /\ Release[file["crosswalk"]].register = Release[r].register
      /\ Release[file["frontier"]].register = Release[r].register
      /\ Release[file["plan"]].register = Release[r].register
      /\ Release[file["frontier"]].overlay = Release[r].overlay
      /\ Release[file["plan"]].plane = Release[r].plane
  BY <1>1 DEF DatasetLoads, OverlayAtPin, PlaneAtPin, AtPin, From
<1>5. Release[file["crosswalk"]].reach = Release[r].reach
  BY <1>1, <1>3, <1>4, SameVersionSameContent
<1>6. Release[file["frontier"]].frontier = Release[r].frontier
  BY <1>1, <1>3, <1>4, SameVersionSameContent
<1>7. {x \in Release[file["plan"]].plan : x.plane = "pipeline"} = {x \in Release[r].plan : x.plane = "pipeline"}
  BY <1>1, <1>3, <1>4, SameVersionSameContent
<1>8. ASSUME NEW c \in Controls, NEW u \in UpstreamRecipesFor(c), u[1] = "pipeline"
      PROVE  \E i \in Release[r].plan : u = <<i.plane, i.recipe>> /\ c \in i.proves
  <2>1. PICK i \in Release[file["plan"]].plan : c \in i.proves /\ u = <<i.plane, i.recipe>>
    BY <1>8 DEF UpstreamRecipesFor, From
  <2>2. i.plane = "pipeline"
    BY <2>1, <1>8
  <2> QED BY <2>1, <2>2, <1>7
<1> QED BY <1>5, <1>6, <1>8 DEF ControlsFor, FrontierRow, From

LEMMA FactsArePinned ==
  ASSUME FrontierTypes, NEW r \in Pinned, CatalogLoads
  PROVE  /\ \A x \in AgreedFields : KsiCatalog[x] = Release[r].rules[x] /\ KsiCatalog[x] = Release[r].slices[x]
         /\ \A cls \in Classes : KsiCatalog.optionalAt[cls] \subseteq KsiCatalog.ksis
<1>1. r \in DOMAIN Release /\ Release[r].register = pin.register
  BY DEF Pinned, Pins
<1>2. file["slices"] \in DOMAIN Release /\ file["rules"] \in DOMAIN Release
  BY DEF FrontierTypes, SnapshotFiles
<1>3. Release[file["slices"]].register = Release[r].register /\ Release[file["rules"]].register = Release[r].register
  BY <1>1 DEF CatalogLoads, AtPin, From
<1>4. Release[file["slices"]].slices = Release[r].slices /\ Release[file["rules"]].rules = Release[r].rules
  BY <1>1, <1>2, <1>3, SameVersionSameContent
<1> DEFINE s == Release[r].slices
           t == Release[r].rules
<1>5. FromRules = t /\ FromSlices = [s EXCEPT !.optionalAt = Unstated]
  BY <1>4 DEF FromRules, FromSlices, From
<1>6. /\ s = [ksis |-> s.ksis, floors |-> s.floors, windows |-> s.windows, optionalAt |-> s.optionalAt]
      /\ \A cls \in Classes : t.optionalAt[cls] \subseteq t.ksis
  BY <1>1, ReleasesAreWhole DEF IsFacts
<1> HIDE DEF s, t
<1>7. \A x \in AgreedFields : FromSlices[x] = t[x]
  BY <1>5 DEF CatalogLoads, Equivalent
<1>8. FromSlices = [ksis |-> s.ksis, floors |-> s.floors, windows |-> s.windows, optionalAt |-> Unstated]
  BY <1>5, <1>6
<1>9. KsiCatalog = [ksis |-> s.ksis, floors |-> s.floors, windows |-> s.windows, optionalAt |-> t.optionalAt]
  <2>1. \A g, v : g = [ksis |-> s.ksis, floors |-> s.floors, windows |-> s.windows, optionalAt |-> Unstated] =>
          [g EXCEPT !.optionalAt = v] = [ksis |-> s.ksis, floors |-> s.floors, windows |-> s.windows, optionalAt |-> v]
    OBVIOUS
  <2> QED BY <2>1, <1>5, <1>8, Zenon DEF KsiCatalog
<1>10. t.ksis = s.ksis /\ t.floors = s.floors /\ t.windows = s.windows
  BY <1>7, <1>8 DEF AgreedFields
<1>11. \A x \in AgreedFields : KsiCatalog[x] = t[x] /\ KsiCatalog[x] = s[x]
  BY <1>9, <1>10 DEF AgreedFields
<1>12. \A cls \in Classes : KsiCatalog.optionalAt[cls] \subseteq KsiCatalog.ksis
  BY <1>6, <1>9, <1>10
<1> QED BY <1>11, <1>12 DEF s, t

\* However the files of a snapshot were copied and whichever pins were moved, what the
\* loaders accept under the pins of a release is what that release says.
THEOREM WhatLoadsIsOneRelease == FrontierSpec => []LoadsOneRelease
<1>1. FrontierTypes => LoadsOneRelease
  <2> SUFFICES ASSUME FrontierTypes, NEW r \in Pinned
               PROVE  /\ DatasetLoads =>
                           /\ \A k \in Ksis : ControlsFor(k) = Release[r].reach[k]
                           /\ \A c \in Controls :
                                /\ FrontierRow(c) = Release[r].frontier[c]
                                /\ \A u \in UpstreamRecipesFor(c) :
                                     u[1] = "pipeline" => \E i \in Release[r].plan : u = <<i.plane, i.recipe>> /\ c \in i.proves
                      /\ CatalogLoads =>
                           /\ \A x \in AgreedFields : KsiCatalog[x] = Release[r].rules[x] /\ KsiCatalog[x] = Release[r].slices[x]
                           /\ \A cls \in Classes : KsiCatalog.optionalAt[cls] \subseteq KsiCatalog.ksis
    BY DEF LoadsOneRelease
  <2>1. CASE DatasetLoads
    BY <2>1, LoadedIsPinned, FactsArePinned
  <2>2. CASE ~ DatasetLoads
    BY <2>2, FactsArePinned
  <2> QED BY <2>1, <2>2
<1> QED BY <1>1, TreesKeepTheirShape, PTL

-----------------------------------------------------------------------------
(* No disagreement with upstream goes undeclared.                            *)

LEMMA QuotesUpstream ==
  ASSUME ~ FrontierBroken, NEW c \in Live, NEW p \in Planes,
         p \in FrontierRow(c).sources, FrontierRow(c).disposition # Unstated
  PROVE  /\ record[c].cites # Absent /\ record[c].cites.disposition = FrontierRow(c).disposition
         /\ record[c].cites.agrees = (record[c].disposition = FrontierRow(c).disposition)
<1>1. c \in Records /\ ~ record[c].retired
  BY DEF Live
<1>2. c \in OnFrontier
  <2>1. ~ RecordBroken(c)
    BY <1>1 DEF FrontierBroken
  <2> QED BY <2>1, <1>1 DEF RecordBroken
<1>3. ~ Miscited(c)
  BY <1>1, <1>2 DEF FrontierBroken, Rows, Row, Records
<1>4. p \in Named(c)
  <2>1. Filed(c) = FrontierRow(c).sources
    BY DEF Filed
  <2> QED BY <2>1, ReleasesAreWhole DEF Named
<1>5. record[c].cites # Absent /\ record[c].cites.disposition = FrontierRow(c).disposition
  BY <1>3, <1>4 DEF Miscited, Misquoted
<1>6. record[c].cites.agrees = (FrontierRow(c).disposition = record[c].disposition)
  BY <1>3, <1>5, Zenon DEF Miscited
<1>7. (FrontierRow(c).disposition = record[c].disposition) = (record[c].disposition = FrontierRow(c).disposition)
  OBVIOUS
<1> QED BY <1>5, <1>6, <1>7, Zenon

LEMMA OverlapIsDeclared ==
  ASSUME ~ FrontierBroken, NEW r \in Catalog, NEW c \in catalog[r].controls
  PROVE  {u \in UpstreamRecipesFor(c) : u[1] = "pipeline"} \subseteq {o[2] : o \in {x \in catalog[r].overlap : x[1] = c}}
<1> SUFFICES ASSUME NEW u \in UpstreamRecipesFor(c), u[1] = "pipeline"
             PROVE  u \in {o[2] : o \in {x \in catalog[r].overlap : x[1] = c}}
  OBVIOUS
<1>1. ~ Undeclared(r)
  BY DEF FrontierBroken, OverlapBroken
<1>2. <<c, u>> \in catalog[r].overlap
  BY <1>1 DEF Undeclared, Colliding
<1>3. <<c, u>>[1] = c /\ <<c, u>>[2] = u
  OBVIOUS
<1> QED BY <1>2, <1>3

\* In a tree that passes, whatever moved upstream since its records and recipes were
\* written, every live record quotes and answers what upstream says now, and every
\* control that upstream's pipeline plane answers too is declared by our recipe.
THEOREM DisagreementIsAlwaysDeclared == FrontierSpec => []NothingUndeclared
<1>1. NothingUndeclared
  <2> SUFFICES ASSUME Passes
               PROVE  /\ \A c \in Live : \A p \in Planes :
                           p \in FrontierRow(c).sources /\ FrontierRow(c).disposition # Unstated =>
                             /\ record[c].cites # Absent /\ record[c].cites.disposition = FrontierRow(c).disposition
                             /\ record[c].cites.agrees = (record[c].disposition = FrontierRow(c).disposition)
                      /\ \A r \in Catalog : \A c \in catalog[r].controls :
                           {u \in UpstreamRecipesFor(c) : u[1] = "pipeline"} \subseteq {o[2] : o \in {x \in catalog[r].overlap : x[1] = c}}
    BY DEF NothingUndeclared
  <2>1. ~ FrontierBroken
    BY DEF Passes
  <2>2. ASSUME NEW c \in Live, NEW p \in Planes, p \in FrontierRow(c).sources, FrontierRow(c).disposition # Unstated
        PROVE  /\ record[c].cites # Absent /\ record[c].cites.disposition = FrontierRow(c).disposition
               /\ record[c].cites.agrees = (record[c].disposition = FrontierRow(c).disposition)
    BY <2>1, <2>2, QuotesUpstream, Zenon
  <2>3. ASSUME NEW r \in Catalog, NEW c \in catalog[r].controls
        PROVE  {u \in UpstreamRecipesFor(c) : u[1] = "pipeline"} \subseteq {o[2] : o \in {x \in catalog[r].overlap : x[1] = c}}
    BY <2>1, OverlapIsDeclared
  <2> QED BY <2>2, <2>3
<1> QED BY <1>1, PTL

-----------------------------------------------------------------------------
(* The numbers recount.                                                      *)

\* Two sets without a common element are counted one after the other.
LEMMA CountedApart ==
  ASSUME NEW S, IsFiniteSet(S), NEW T, IsFiniteSet(T), S \cap T = {}
  PROVE  IsFiniteSet(S \cup T) /\ Cardinality(S \cup T) = Cardinality(S) + Cardinality(T)
<1>1. Cardinality(S \cap T) = 0 /\ Cardinality(S) \in Nat /\ Cardinality(T) \in Nat
  BY FS_EmptySet, FS_CardinalityType
<1>2. IsFiniteSet(S \cup T) /\ Cardinality(S \cup T) = Cardinality(S) + Cardinality(T) - Cardinality(S \cap T)
  BY FS_Union, Zenon
<1> QED BY <1>1, <1>2

\* A record is off the frontier exactly when it is retired.
LEMMA RetiredIsOff ==
  ASSUME FrontierTypes, ~ FrontierBroken, NEW c \in Records
  PROVE  /\ record[c] \in Adjudication /\ c \in Controls
         /\ record[c].retired <=> c \notin Rows
<1>1. record[c] \in Adjudication /\ c \in Controls
  BY DEF Records, FrontierTypes
<1>2. ~ RecordBroken(c)
  BY DEF FrontierBroken
<1> QED BY <1>1, <1>2 DEF RecordBroken, Rows

LEMMA RecordsAreCounted ==
  ASSUME FrontierTypes, ~ FrontierBroken
  PROVE  Cardinality(Records) = Cardinality(RetiredList)
           + Cardinality(WithDisposition("automatable")) + Cardinality(WithDisposition("partial"))
           + Cardinality(WithDisposition("narrative"))
<1> DEFINE A == WithDisposition("automatable")
           P == WithDisposition("partial")
           N == WithDisposition("narrative")
           R == RetiredList
<1>1. A \subseteq Controls /\ P \subseteq Controls /\ N \subseteq Controls /\ R \subseteq Controls
  BY DEF WithDisposition, Rows, OnFrontier, RetiredList, Records
<1>2. IsFiniteSet(A) /\ IsFiniteSet(P) /\ IsFiniteSet(N) /\ IsFiniteSet(R)
  BY <1>1, ReleasesAreWhole, FS_Subset
<1>3. A \cap P = {} /\ (A \cup P) \cap N = {}
  BY DEF WithDisposition
<1>4. R \cap ((A \cup P) \cup N) = {}
  <2> SUFFICES ASSUME NEW c \in R, c \in (A \cup P) \cup N PROVE FALSE
    OBVIOUS
  <2>1. c \in Records /\ record[c].retired /\ c \in Rows
    BY DEF RetiredList, WithDisposition
  <2> QED BY <2>1, RetiredIsOff
<1>5. Records = R \cup ((A \cup P) \cup N)
  <2>1. ASSUME NEW c \in Records PROVE c \in R \cup ((A \cup P) \cup N)
    <3>1. record[c] \in Adjudication /\ (record[c].retired <=> c \notin Rows)
      BY RetiredIsOff
    <3>2. record[c].disposition \in Dispositions
      BY <3>1 DEF Adjudication
    <3>3. Row(c)
      BY DEF Records, Row
    <3> QED BY <3>1, <3>2, <3>3 DEF RetiredList, WithDisposition, Dispositions
  <2>2. R \subseteq Records /\ A \subseteq Records /\ P \subseteq Records /\ N \subseteq Records
    BY DEF RetiredList, WithDisposition, Rows, OnFrontier, Row, Records
  <2> QED BY <2>1, <2>2
<1> HIDE DEF A, P, N, R
<1>6. IsFiniteSet(A \cup P) /\ Cardinality(A \cup P) = Cardinality(A) + Cardinality(P)
  BY <1>2, <1>3, CountedApart
<1> DEFINE B == A \cup P
<1>7. IsFiniteSet(B \cup N) /\ Cardinality(B \cup N) = Cardinality(B) + Cardinality(N)
  <2> HIDE DEF B
  <2>1. IsFiniteSet(B) /\ B \cap N = {}
    BY <1>3, <1>6 DEF B
  <2> QED BY <2>1, <1>2, CountedApart
<1> DEFINE C == B \cup N
<1>8. Cardinality(R \cup C) = Cardinality(R) + Cardinality(C)
  <2> HIDE DEF C, B
  <2>1. IsFiniteSet(C) /\ R \cap C = {}
    BY <1>4, <1>7 DEF C, B
  <2> QED BY <2>1, <1>2, CountedApart
<1>9. /\ Cardinality(A) \in Nat /\ Cardinality(P) \in Nat
      /\ Cardinality(N) \in Nat /\ Cardinality(R) \in Nat
  BY <1>2, FS_CardinalityType
<1>10. Cardinality(Records) = Cardinality(R) + ((Cardinality(A) + Cardinality(P)) + Cardinality(N))
  BY <1>5, <1>6, <1>7, <1>8
<1>11. Cardinality(Records) = Cardinality(R) + Cardinality(A) + Cardinality(P) + Cardinality(N)
  BY <1>9, <1>10
<1> QED BY <1>11 DEF A, P, N, R

\* What the records say is discharged and what the catalog claims are the same.
LEMMA DischargedIsClaimed ==
  ASSUME ~ FrontierBroken
  PROVE  Discharged = {c \in WithDisposition("automatable") : CatalogFor(c) # {}}
<1>1. ASSUME NEW c \in WithDisposition("automatable")
      PROVE  record[c].recipes = CatalogFor(c)
  <2>1. c \in Records
    BY <1>1 DEF WithDisposition, Rows, OnFrontier, Row, Records
  <2>2. ~ RecordBroken(c)
    BY <2>1 DEF FrontierBroken
  <2> QED BY <2>2 DEF RecordBroken
<1>2. \A c : CatalogFor(c) \subseteq Catalog
  BY DEF CatalogFor
<1> QED BY <1>1, <1>2 DEF Discharged

\* The files that say which indicator reaches a control say the same.
LEMMA ReachIsOne ==
  ASSUME FrontierTypes, DatasetLoads
  PROVE  /\ From("crosswalk").reach = From("frontier").reach
         /\ From("frontier").reach \in [Ksis -> SUBSET Controls]
         /\ file["frontier"] \in DOMAIN Release
<1>1. file["crosswalk"] \in DOMAIN Release /\ file["frontier"] \in DOMAIN Release
  BY DEF FrontierTypes, SnapshotFiles
<1>2. Release[file["crosswalk"]].register = Release[file["frontier"]].register
  BY DEF DatasetLoads, AtPin, From
<1>3. Release[file["crosswalk"]].reach = Release[file["frontier"]].reach
  BY <1>1, <1>2, SameVersionSameContent
<1>4. Release[file["frontier"]].reach \in [Ksis -> SUBSET Controls]
  BY <1>1, ReleasesAreWhole
<1> QED BY <1>1, <1>3, <1>4 DEF From

\* What is reachable is reached by an indicator.
LEMMA ReachableIsReached ==
  ASSUME FrontierTypes, DatasetLoads, ~ RecipeIdsBroken, NEW c \in Reachable
  PROVE  c \in Controls /\ \E k \in Ksis : c \in From("frontier").reach[k]
<1>1. CASE c \in CatalogControls
  <2>1. PICK r \in Catalog : c \in catalog[r].controls
    BY <1>1 DEF CatalogControls
  <2>2. catalog[r] \in Recipe
    BY DEF FrontierTypes, Catalog
  <2>3. catalog[r].ksis \subseteq Ksis /\ catalog[r].controls \subseteq Controls
    BY <2>2 DEF Recipe
  <2>4. catalog[r].controls \subseteq UNION {ControlsFor(k) : k \in catalog[r].ksis}
    BY DEF RecipeIdsBroken
  <2>5. PICK k \in catalog[r].ksis : c \in ControlsFor(k)
    BY <2>1, <2>4
  <2> QED BY <2>1, <2>3, <2>5, ReachIsOne DEF ControlsFor
<1>2. CASE c \notin CatalogControls
  <2>1. c \in Rows
    BY <1>2 DEF Reachable, WithDisposition
  <2>2. c \in Controls /\ From("frontier").frontier[c] # Unstated
    BY <2>1 DEF Rows, OnFrontier, FrontierRow
  <2>3. file["frontier"] \in DOMAIN Release
    BY ReachIsOne
  <2> QED BY <2>2, <2>3, FrontierIsReached DEF From
<1> QED BY <1>1, <1>2

LEMMA PassingRecounts ==
  ASSUME FrontierTypes
  PROVE  NumbersRecount
<1> SUFFICES ASSUME Passes
             PROVE  /\ Cardinality(Records) = Cardinality(RetiredList)
                         + Cardinality(WithDisposition("automatable")) + Cardinality(WithDisposition("partial"))
                         + Cardinality(WithDisposition("narrative"))
                    /\ RetiredList \cap Rows = {}
                    /\ Discharged = {c \in WithDisposition("automatable") : CatalogFor(c) # {}}
                    /\ Cardinality(Reachable) <= KsiReachedControls
                    /\ \A c \in Reachable : KsisFor(c) # {}
  BY DEF NumbersRecount
<1>1. DatasetLoads /\ ~ FrontierBroken /\ ~ RecipeIdsBroken
  BY DEF Passes
<1>2. RetiredList \cap Rows = {}
  <2> SUFFICES ASSUME NEW c \in RetiredList, c \in Rows PROVE FALSE
    OBVIOUS
  <2> QED BY <1>1, RetiredIsOff DEF RetiredList
<1>3. \A c \in Reachable : c \in Controls /\ \E k \in Ksis : c \in From("frontier").reach[k]
  BY <1>1, ReachableIsReached
<1>4. \A c \in Reachable : KsisFor(c) # {}
  <2>1. From("crosswalk").reach = From("frontier").reach
    BY <1>1, ReachIsOne
  <2> QED BY <2>1, <1>3 DEF KsisFor, ControlsFor
<1>5. Cardinality(Reachable) <= KsiReachedControls
  <2> DEFINE U == UNION {From("frontier").reach[k] : k \in Ksis}
  <2>1. Reachable \in SUBSET U
    BY <1>3
  <2>2. U \subseteq Controls
    BY <1>1, ReachIsOne
  <2>3. IsFiniteSet(U)
    BY <2>2, ReleasesAreWhole, FS_Subset
  <2>4. KsiReachedControls = Cardinality(U)
    BY DEF KsiReachedControls
  <2> HIDE DEF U
  <2> QED BY <2>1, <2>3, <2>4, FS_Subset
<1> QED BY <1>1, <1>2, <1>4, <1>5, RecordsAreCounted, DischargedIsClaimed

-----------------------------------------------------------------------------
(* What is discharged, and what a dry run runs, can be run.                  *)

\* The collectors that feed one another are registered ones, finitely many.
LEMMA FedByIsFinite == IsFiniteSet(NodesOf(FedBy))
<1>1. NodesOf(FedBy) \subseteq Registered
  <2>1. \A e \in FedBy : e[1] \in Registered /\ e[2] \in Registered
    BY DEF FedBy, Feeders, ProducersOf
  <2> QED BY <2>1 DEF NodesOf
<1> QED BY <1>1, CollectorsAreFinite, FS_Subset

\* What a collector rests on lies in every set that holds it and what feeds its members.
LEMMA UpstreamWithin ==
  ASSUME NEW T, NEW k \in T, \A p \in T \cap Registered : Feeders(p) \subseteq T
  PROVE  Upstream(k) \subseteq T
<1>1. \A e \in FedBy : e[1] \in T => e[2] \in T
  BY DEF FedBy
<1>2. {k} \subseteq T
  OBVIOUS
<1>3. Closure(FedBy, {k}) \subseteq T
  BY <1>1, <1>2, FedByIsFinite, ClosureWithin
<1> QED BY <1>3 DEF Upstream

LEMMA PassingDischarges ==
  ASSUME FrontierTypes
  PROVE  DischargedCanRun
<1> SUFFICES ASSUME Passes, NEW c \in Discharged, NEW r \in record[c].recipes
             PROVE  LET k == catalog[r].collector IN
                    /\ k \in Registered /\ r \in manifest[k].recipes
                    /\ \A p \in {k} \cup Upstream(k) : UnproducibleInputs(p) = {} /\ manifest[p].tools \subseteq PinnedTools
  BY DEF DischargedCanRun
<1> DEFINE k == catalog[r].collector
<1>1. ~ ToolMapBroken
  BY DEF Passes
<1>2. r \in Catalog
  BY DEF Discharged
<1>3. k \in Registered /\ r \in manifest[k].recipes
  BY <1>1, <1>2 DEF ToolMapBroken, UnclaimedRecipe
<1>4. \A p \in Registered : UnproducibleInputs(p) = {} /\ manifest[p].tools \subseteq PinnedTools
  BY <1>1 DEF ToolMapBroken
<1>5. Upstream(k) \subseteq Registered
  <2>1. \A p \in Registered \cap Registered : Feeders(p) \subseteq Registered
    BY DEF Feeders, ProducersOf
  <2> HIDE DEF k
  <2> QED BY <1>3, <2>1, UpstreamWithin
<1> QED BY <1>3, <1>4, <1>5

\* The dry run by steps, for as much of the order as one likes,
Running(n, r) ==
  r = [j \in 0 .. n |->
         IF j = 0 THEN {}
         ELSE IF Runnable(r[j - 1], Order[j]) THEN r[j - 1] \cup {Order[j]} ELSE r[j - 1]]

Took(before, after, j) ==
  after = IF Runnable(before, Order[j]) THEN before \cup {Order[j]} ELSE before

LEMMA RunningIs ==
  ASSUME NEW n \in Nat, NEW r, r = [j \in 0 .. n |-> r[j]]
  PROVE  Running(n, r) <=> r[0] = {} /\ \A j \in 1 .. n : Took(r[j - 1], r[j], j)
<1>1. ASSUME Running(n, r) PROVE r[0] = {} /\ \A j \in 1 .. n : Took(r[j - 1], r[j], j)
  <2>1. \A j \in 0 .. n : r[j] = IF j = 0 THEN {}
                                 ELSE IF Runnable(r[j - 1], Order[j]) THEN r[j - 1] \cup {Order[j]} ELSE r[j - 1]
    BY <1>1 DEF Running
  <2>2. r[0] = {}
    <3>1. 0 \in 0 .. n
      OBVIOUS
    <3> QED BY <3>1, <2>1, Zenon
  <2>3. ASSUME NEW j \in 1 .. n PROVE Took(r[j - 1], r[j], j)
    <3>1. j \in 0 .. n /\ j # 0
      OBVIOUS
    <3> QED BY <3>1, <2>1 DEF Took
  <2> QED BY <2>2, <2>3
<1>2. ASSUME r[0] = {}, \A j \in 1 .. n : Took(r[j - 1], r[j], j) PROVE Running(n, r)
  <2>1. ASSUME NEW j \in 0 .. n
        PROVE  r[j] = IF j = 0 THEN {}
                      ELSE IF Runnable(r[j - 1], Order[j]) THEN r[j - 1] \cup {Order[j]} ELSE r[j - 1]
    <3>1. CASE j = 0
      BY <3>1, <1>2
    <3>2. CASE j # 0
      <4>1. j \in 1 .. n
        BY <3>2
      <4> QED BY <4>1, <3>2, <1>2 DEF Took
    <3> QED BY <3>1, <3>2
  <2> QED BY <2>1 DEF Running
<1> QED BY <1>1, <1>2

\* of which there is one.
LEMMA RunningExists ==
  ASSUME NEW n \in Nat
  PROVE  \E r : Running(n, r)
<1> DEFINE Bad == {m \in Nat : ~ \E r : Running(m, r)}
<1> SUFFICES ASSUME Bad # {} PROVE FALSE
  OBVIOUS
<1>1. PICK m \in Bad : \A k \in Bad : m <= k
  BY LeastOf
<1>2. CASE m = 0
  <2> DEFINE r == [j \in 0 .. 0 |-> {}]
  <2>1. r = [j \in 0 .. 0 |-> r[j]] /\ r[0] = {} /\ 1 .. 0 = {}
    OBVIOUS
  <2> HIDE DEF r
  <2>2. Running(0, r)
    BY <2>1, RunningIs
  <2> QED BY <1>2, <2>2
<1>3. CASE m # 0
  <2>1. m - 1 \in Nat /\ m - 1 \notin Bad
    BY <1>1, <1>3
  <2>2. PICK q : Running(m - 1, q)
    BY <2>1
  <2>3. q = [j \in 0 .. m - 1 |-> q[j]]
    BY <2>2 DEF Running
  <2>4. q[0] = {} /\ \A j \in 1 .. m - 1 : Took(q[j - 1], q[j], j)
    BY <2>1, <2>2, <2>3, RunningIs
  <2> DEFINE last == IF Runnable(q[m - 1], Order[m]) THEN q[m - 1] \cup {Order[m]} ELSE q[m - 1]
             r == [j \in 0 .. m |-> IF j = m THEN last ELSE q[j]]
  <2>5. Took(q[m - 1], last, m)
    BY DEF Took
  <2> HIDE DEF last
  <2>6. r = [j \in 0 .. m |-> r[j]] /\ r[0] = {}
    BY <1>3, <2>4
  <2>7. ASSUME NEW j \in 1 .. m PROVE Took(r[j - 1], r[j], j)
    <3>1. j - 1 \in 0 .. m /\ j - 1 # m /\ j \in 0 .. m
      BY <1>1
    <3>2. r[j - 1] = q[j - 1]
      BY <3>1
    <3>3. CASE j = m
      BY <3>2, <3>3, <2>5
    <3>4. CASE j # m
      <4>1. j \in 1 .. m - 1 /\ r[j] = q[j]
        BY <3>4, <3>1
      <4> QED BY <4>1, <3>2, <2>4
    <3> QED BY <3>3, <3>4
  <2> HIDE DEF r
  <2>8. Running(m, r)
    BY <2>6, <2>7, <1>1, RunningIs
  <2> QED BY <2>8
<1> QED BY <1>2, <1>3

\* A run rests on itself: it holds registered collectors that spawn nothing and find a
\* producer of each of their inputs in it.
RestsOnItself(run) ==
  \A k \in run : k \in Registered /\ Runnable(run, k)

LEMMA MoreStaysRunnable ==
  ASSUME NEW A, NEW B, A \subseteq B, NEW k, Runnable(A, k)
  PROVE  Runnable(B, k)
BY DEF Runnable

LEMMA DryRunRests == RestsOnItself(DryRun)
<1> DEFINE n == Len(Order)
           c == CHOOSE r : r = [j \in 0 .. n |->
                                  IF j = 0 THEN {}
                                  ELSE IF Runnable(r[j - 1], Order[j]) THEN r[j - 1] \cup {Order[j]} ELSE r[j - 1]]
<1>0. n \in Nat /\ \A j \in 1 .. n : Order[j] \in Registered
  BY OrderIsList
<1>1. DryRun = c[n]
  BY DEF DryRun
<1> HIDE DEF n
<1>2. \E r : r = [j \in 0 .. n |->
                    IF j = 0 THEN {}
                    ELSE IF Runnable(r[j - 1], Order[j]) THEN r[j - 1] \cup {Order[j]} ELSE r[j - 1]]
  <2>1. \E r : Running(n, r)
    BY <1>0, RunningExists
  <2> QED BY <2>1, Zenon DEF Running
<1>3. c = [j \in 0 .. n |->
             IF j = 0 THEN {}
             ELSE IF Runnable(c[j - 1], Order[j]) THEN c[j - 1] \cup {Order[j]} ELSE c[j - 1]]
  BY <1>2, Zenon
<1> HIDE DEF c
<1>4. Running(n, c) /\ c = [j \in 0 .. n |-> c[j]]
  BY <1>3 DEF Running
<1>5. c[0] = {} /\ \A j \in 1 .. n : Took(c[j - 1], c[j], j)
  BY <1>0, <1>4, RunningIs
<1> DEFINE Odd == {j \in 0 .. n : ~ RestsOnItself(c[j])}
<1>6. Odd = {}
  <2> SUFFICES ASSUME Odd # {} PROVE FALSE
    OBVIOUS
  <2>1. Odd \subseteq Nat
    BY <1>0
  <2>2. PICK j \in Odd : \A i \in Odd : j <= i
    BY <2>1, LeastOf
  <2>3. j # 0
    BY <1>5 DEF RestsOnItself
  <2>4. j \in 1 .. n /\ j - 1 \in 0 .. n /\ ~ (j <= j - 1)
    BY <2>2, <2>3, <1>0
  <2>5. RestsOnItself(c[j - 1])
    BY <2>2, <2>4
  <2>6. Took(c[j - 1], c[j], j)
    BY <2>4, <1>5
  <2> DEFINE before == c[j - 1]
             after == c[j]
  <2>7. Order[j] \in Registered
    BY <2>4, <1>0
  <2>8. RestsOnItself(after)
    <3> HIDE DEF before, after
    <3>1. Took(before, after, j) /\ RestsOnItself(before)
      BY <2>5, <2>6 DEF before, after
    <3>2. before \subseteq after
      BY <3>1 DEF Took
    <3>3. ASSUME NEW k \in after PROVE k \in Registered /\ Runnable(after, k)
      <4>1. CASE k \in before
        BY <4>1, <3>1, <3>2, MoreStaysRunnable DEF RestsOnItself
      <4>2. CASE k \notin before
        <5>1. k = Order[j] /\ Runnable(before, Order[j])
          BY <4>2, <3>1 DEF Took
        <5> QED BY <5>1, <2>7, <3>2, MoreStaysRunnable
      <4> QED BY <4>1, <4>2
    <3> QED BY <3>3 DEF RestsOnItself
  <2> QED BY <2>2, <2>8
<1> QED BY <1>0, <1>1, <1>6

\* Where every artifact has one producer, what feeds a member of such a run is in it.
LEMMA RunFeedsItself ==
  ASSUME FrontierTypes, \A a \in Artifacts : Cardinality(ProducersOf(a)) <= 1,
         NEW run, RestsOnItself(run), NEW k \in run
  PROVE  Feeders(k) \subseteq run
<1> SUFFICES ASSUME NEW a \in manifest[k].inputs, NEW q \in ProducersOf(a) PROVE q \in run
  BY DEF Feeders
<1>1. k \in Registered /\ Runnable(run, k)
  BY DEF RestsOnItself
<1>2. a \in Artifacts
  BY <1>1 DEF FrontierTypes, Manifest
<1>3. PICK p \in run : a \in manifest[p].outputs
  BY <1>1 DEF Runnable
<1>4. p \in ProducersOf(a)
  BY <1>3 DEF RestsOnItself, ProducersOf
<1> DEFINE P == ProducersOf(a)
<1>5. IsFiniteSet(P) /\ Cardinality(P) \in Nat /\ Cardinality(P) <= 1 /\ P # {}
  BY <1>2, <1>4, CollectorsAreFinite, FS_Subset, FS_CardinalityType DEF ProducersOf
<1> HIDE DEF P
<1>6. Cardinality(P) = 1
  BY <1>5, FS_EmptySet
<1>7. PICK x : P = {x}
  BY <1>5, <1>6, FS_Singleton
<1> QED BY <1>3, <1>4, <1>7 DEF P

LEMMA DryRunKeepsToItself ==
  ASSUME FrontierTypes
  PROVE  DryRunRestsOnItself
<1> SUFFICES ASSUME \A a \in Artifacts : Cardinality(ProducersOf(a)) <= 1, NEW k \in DryRun
             PROVE  ViaInputs(k) = {} /\ Upstream(k) \subseteq DryRun
  BY DEF DryRunRestsOnItself
<1> DEFINE run == DryRun
<1>1. RestsOnItself(run) /\ k \in run
  BY DryRunRests
<1> HIDE DEF run
<1>2. \A p \in run \cap Registered : Feeders(p) \subseteq run
  BY <1>1, RunFeedsItself
<1>3. Upstream(k) \subseteq run
  BY <1>1, <1>2, UpstreamWithin
<1>4. \A p \in run : manifest[p].tools = {}
  BY <1>1 DEF RestsOnItself, Runnable
<1>5. ViaInputs(k) = {}
  BY <1>3, <1>4 DEF ViaInputs
<1> QED BY <1>3, <1>5 DEF run

\* What the frontier counts is there.  In every tree that passes, the numbers recount,
\* what is called discharged has its collectors, producers and pins, and in every tree a
\* dry run rests on no tool and on no artifact of an earlier scan.
THEOREM CoverageAlwaysHolds == FrontierSpec => []CoverageHolds
<1>1. FrontierTypes => CoverageHolds
  BY PassingRecounts, PassingDischarges, DryRunKeepsToItself DEF CoverageHolds
<1> QED BY <1>1, TreesKeepTheirShape, PTL
=============================================================================
