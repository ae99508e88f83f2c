---------------------------- MODULE DaemonProofs ----------------------------
(***************************************************************************)
(* The scan clock keeps its three promises whatever the window, the        *)
(* cadence, the recipes and the order of commits, drifts, outages, failing *)
(* ticks and scans, and restarts: evidence expires only where something went wrong,   *)
(* expiry is warned of before a scan hides it, and a full scan that turns  *)
(* a verdict raises the alarm.                                             *)
(***************************************************************************)
EXTENDS Daemon, TLAPS

Stages == {"off", "key", "run", "record", "compare"}
Recording == stage \in {"record", "compare"}

TypeOK ==
  /\ content \in [Recipe -> Content] /\ outside \in [Recipe -> World] /\ works \subseteq Recipe
  /\ found \in [Recipe -> Finding \cup {None}] /\ age \in [Recipe -> Nat] /\ atHead \in [Recipe -> BOOLEAN]
  /\ cache \in [Recipe -> [Content -> Finding \cup {None}]]
  /\ phase \in {"down", "wait", "scan"} /\ idle \in 0 .. Interval
  /\ scans \in 0 .. FullEvery - 1 /\ warned \in [Recipe -> SUBSET {"expiring", "expired"}]
  /\ base \in [Recipe -> Finding \cup {None}] /\ baseHead \in BOOLEAN
  /\ stage \in Stages /\ pos \in 1 .. Len(Recipes) /\ took \in 0 .. MaxScan
  /\ startHead \in BOOLEAN /\ comparable \in BOOLEAN /\ key \in Content
  /\ got \in [Recipe -> Finding \cup {None}]
  /\ hurt \subseteq Recipe /\ flipped \in BOOLEAN /\ cut \in BOOLEAN

\* Between scans nothing of a scan is left; a stopped daemon vouches for
\* nothing; what is recorded at HEAD was so by a scan that began there.
Resting ==
  /\ phase = "scan" <=> stage # "off"
  /\ phase # "scan" => took = 0 /\ pos = 1 /\ got = Everywhere(None)
  /\ flipped => Recording
  /\ phase = "down" => hurt = Recipe
  /\ works \cup hurt = Recipe
  /\ phase = "scan" => \A r \in Recipe : atHead[r] => startHead

\* A recipe nothing happened to has been answered once the scan is past it.
Collected ==
  \A i \in DOMAIN Recipes :
    Recipes[i] \notin hurt /\ (Recording \/ (stage # "off" /\ i < pos)) => got[Recipes[i]] # None

\* What the scan has recorded so far is what was found, and young.
Settled(r) == found[r] = got[r] /\ age[r] - took < ScanAt
Recorded ==
  \A i \in DOMAIN Recipes :
    got[Recipes[i]] # None /\ (stage = "compare" \/ (stage = "record" /\ i < pos)) => Settled(Recipes[i])

\* How old the evidence of a recipe nothing happened to may be.
Aging ==
  \A r \in Recipe : found[r] # None /\ r \notin hurt =>
    age[r] < ScanAt + MaxScan + (IF phase = "scan" THEN Interval + took ELSE idle)

\* What the tick that began this scan saw near its end was warned of.
Foretold ==
  phase = "scan" => \A r \in Recipe : found[r] # None =>
    /\ age[r] - took >= WarnAt => warned[r] # {}
    /\ age[r] - took >= Window => "expired" \in warned[r]

\* Unless something cut it short, the last scan is remembered: where it found
\* anything the ledger still says it, and what the ledger says of HEAD it read
\* at HEAD, or this scan said it.
SaidInThisScan(r) == Recording /\ got[r] # None /\ got[r] = found[r]
Remembered ==
  ~cut => \A r \in Recipe :
    /\ base[r] \in {None, found[r]} \/ SaidInThisScan(r)
    /\ phase = "down" => ~atHead[r]
    /\ phase = "wait" /\ atHead[r] => baseHead
    /\ phase = "scan" /\ atHead[r] => comparable \/ SaidInThisScan(r)

\* A verdict this scan turned differs from the remembered one.
Turned == flipped => Diverges \/ cut

Inv == TypeOK /\ Resting /\ Collected /\ Recorded /\ Aging /\ Foretold /\ Remembered /\ Turned

-----------------------------------------------------------------------------
(* What the constants and the helpers come to. *)

\* The recipes as a sequence.
LEMMA Listed ==
  /\ Len(Recipes) \in Nat \ {0} /\ DOMAIN Recipes = 1 .. Len(Recipes)
  /\ \A i \in 1 .. Len(Recipes) : Recipes[i] \in Recipe
  /\ \A r \in Recipe : \E i \in 1 .. Len(Recipes) : r = Recipes[i]
  /\ None \notin Finding /\ Original \in Content
<1>1. Recipes \in Seq(Recipe) /\ Recipes # <<>> /\ Content # {}
  BY DaemonAssumption
<1>2. Len(Recipes) \in Nat \ {0} /\ DOMAIN Recipes = 1 .. Len(Recipes)
  BY <1>1
<1>3. \A i \in 1 .. Len(Recipes) : Recipes[i] \in Recipe
  BY <1>2 DEF Recipe
<1>4. \A r \in Recipe : \E i \in 1 .. Len(Recipes) : r = Recipes[i]
  BY <1>2 DEF Recipe
<1>5. None \notin Finding
  BY DEF None, Finding
<1>6. Original \in Content
  BY <1>1 DEF Original
<1> QED BY <1>2, <1>3, <1>4, <1>5, <1>6

\* The numbers of the clock.
LEMMA Clocks ==
  /\ ScanAt \in Nat \ {0} /\ WarnAt \in Nat \ {0} /\ Window \in Nat \ {0}
  /\ Interval \in Nat \ {0} /\ FullEvery \in Nat \ {0} /\ MaxScan \in Nat
  /\ ScanAt <= WarnAt /\ WarnAt < Window /\ ScanAt + Interval + 2 * MaxScan <= Window
  /\ Passes \subseteq Finding
BY DaemonAssumption

\* It holds when the daemon comes up.
LEMMA InitInv == Init => Inv
<1> SUFFICES ASSUME Init PROVE Inv
  OBVIOUS
<1>1. TypeOK
  <2>1. cache \in [Recipe -> [Content -> Finding \cup {None}]]
    BY DEF Init, Everywhere
  <2>2. warned \in [Recipe -> SUBSET {"expiring", "expired"}]
    BY DEF Init, Everywhere
  <2>3. /\ outside \in [Recipe -> World] /\ content \in [Recipe -> Content]
        /\ age \in [Recipe -> Nat] /\ atHead \in [Recipe -> BOOLEAN]
    BY Listed DEF Init, Everywhere, World
  <2>4. idle \in 0 .. Interval /\ scans \in 0 .. FullEvery - 1 /\ pos \in 1 .. Len(Recipes) /\ took \in 0 .. MaxScan
    BY Listed, Clocks DEF Init
  <2> QED BY <2>1, <2>2, <2>3, <2>4, Listed DEF Init, TypeOK, Everywhere, Stages
<1>2. Resting /\ Aging /\ Foretold /\ Turned /\ Collected /\ Recorded
  BY DEF Init, Resting, Recording, Everywhere, Aging, Foretold, Turned, Collected, Recorded
<1>3. Remembered
  BY DEF Init, Remembered, Everywhere
<1> QED BY <1>1, <1>2, <1>3 DEF Inv

-----------------------------------------------------------------------------
(* Every action keeps the invariant. *)

\* A commit while the daemon waits or scans.
LEMMA CommitInv == ASSUME Inv, Commit PROVE Inv'
<1> USE DEF Commit
<1>1. TypeOK'
  BY DEF Inv, TypeOK, Everywhere
<1>2. Resting' /\ Collected' /\ Recorded' /\ Aging' /\ Foretold'
  BY DEF Inv, Resting, Recording, Collected, Recorded, Settled, Aging, Foretold, Everywhere
<1>3. Remembered'
  BY DEF Inv, Remembered, SaidInThisScan, Recording, Everywhere
<1>4. Turned'
  BY DEF Inv, Turned, Diverges, Verdict
<1> QED BY <1>1, <1>2, <1>3, <1>4 DEF Inv

\* What the world does to one recipe.
LEMMA WorldInv ==
  ASSUME Inv, NEW r \in Recipe, Drift(r) \/ Outage(r) \/ Repair(r)
  PROVE  Inv'
<1> USE DEF Drift, Outage, Repair, ledger, memory, scan
<1>1. TypeOK'
  BY DEF Inv, TypeOK, World
<1>2. works' \cup hurt' = Recipe /\ hurt \subseteq hurt'
  BY DEF Inv, TypeOK, Resting
<1>3. Resting'
  <2>1. phase = "down" => hurt' = Recipe
    BY <1>1, <1>2 DEF Inv, Resting, TypeOK
  <2> QED BY <1>2, <2>1 DEF Inv, Resting, Recording, Everywhere
<1>4. Collected'
  BY <1>2 DEF Inv, Collected, Recording
<1>5. Recorded' /\ Aging' /\ Foretold'
  BY <1>2 DEF Inv, Recorded, Settled, Aging, Foretold
<1>6. Remembered'
  BY DEF Inv, Remembered, SaidInThisScan, Recording
<1>7. Turned'
  BY DEF Inv, Turned, Diverges, Verdict
<1> QED BY <1>1, <1>3, <1>4, <1>5, <1>6, <1>7 DEF Inv

\* The clock goes on.
LEMMA PassInv == ASSUME Inv, Pass PROVE Inv'
<1> USE DEF Pass, repository, memory, Inv
<1>1. TypeOK'
  <2>1. age' \in [Recipe -> Nat]
    BY Clocks DEF TypeOK, Older, Cap
  <2>2. idle' \in 0 .. Interval /\ took' \in 0 .. MaxScan
    BY Clocks DEF TypeOK
  <2> QED BY <2>1, <2>2 DEF TypeOK
<1>2. Resting' /\ Collected'
  BY DEF Resting, Recording, Collected, Everywhere
<1>3. ASSUME NEW r \in Recipe, found[r] # None
      PROVE  age[r] \in Nat /\ age'[r] \in Nat /\ age'[r] <= age[r] + 1
  <2>1. age[r] \in Nat /\ age'[r] = Older(age[r])
    BY <1>3 DEF TypeOK
  <2> QED BY <2>1 DEF Older
<1>4. Recorded'
  <2> SUFFICES ASSUME NEW i \in DOMAIN Recipes, got[Recipes[i]] # None,
                      stage = "compare" \/ (stage = "record" /\ i < pos)
               PROVE  found[Recipes[i]] = got[Recipes[i]] /\ age'[Recipes[i]] - took' < ScanAt
    BY DEF Recorded, Settled
  <2>1. Settled(Recipes[i]) /\ Recipes[i] \in Recipe
    BY Listed DEF Recorded
  <2>2. phase = "scan" /\ took' = took + 1
    BY DEF Resting
  <2>3. age'[Recipes[i]] \in Nat /\ age'[Recipes[i]] <= age[Recipes[i]] + 1
    BY <2>1, <1>3 DEF Settled
  <2> QED BY <2>1, <2>2, <2>3, Clocks DEF Settled, TypeOK
<1>5. Aging'
  <2> SUFFICES ASSUME NEW r \in Recipe, found[r] # None, r \notin hurt
               PROVE  age'[r] < ScanAt + MaxScan + (IF phase = "scan" THEN Interval + took' ELSE idle')
    BY DEF Aging
  <2>1. age[r] < ScanAt + MaxScan + (IF phase = "scan" THEN Interval + took ELSE idle)
    BY DEF Aging
  <2>2. (phase = "scan" /\ took' = took + 1) \/ (phase = "wait" /\ idle' = idle + 1)
    BY DEF Resting, TypeOK
  <2>3. took \in Nat /\ idle \in Nat
    BY Clocks DEF TypeOK
  <2>4. age[r] \in Nat /\ age'[r] \in Nat /\ age'[r] <= age[r] + 1
    BY <1>3
  <2> QED BY <2>1, <2>2, <2>3, <2>4, Clocks
<1>6. Foretold'
  <2> SUFFICES ASSUME phase = "scan", NEW r \in Recipe, found[r] # None
               PROVE  /\ age'[r] - took' >= WarnAt => warned[r] # {}
                      /\ age'[r] - took' >= Window => "expired" \in warned[r]
    BY DEF Foretold
  <2>1. age'[r] - took' <= age[r] - took /\ age[r] \in Nat /\ age'[r] \in Nat /\ took \in Nat /\ took' \in Nat
    BY <1>3, Clocks DEF TypeOK
  <2> QED BY <2>1, <1>3, Clocks DEF Foretold, TypeOK
<1>7. Remembered'
  BY DEF Remembered, SaidInThisScan, Recording
<1>8. Turned'
  BY DEF Turned, Diverges, Verdict
<1> QED BY <1>1, <1>2, <1>4, <1>5, <1>6, <1>7, <1>8

\* A restart forgets what was in memory.
LEMMA StartInv == ASSUME Inv, Start PROVE Inv'
<1> USE DEF Start, repository, ledger, scan, Inv
<1>1. TypeOK'
  <2>1. warned' \in [Recipe -> SUBSET {"expiring", "expired"}]
    BY DEF Everywhere
  <2>2. base' \in [Recipe -> Finding \cup {None}] /\ idle' \in 0 .. Interval /\ scans' \in 0 .. FullEvery - 1
    BY Clocks DEF Everywhere
  <2> QED BY <2>1, <2>2 DEF TypeOK
<1>2. Resting' /\ Collected' /\ Recorded' /\ Aging' /\ Foretold'
  BY DEF Resting, Recording, Collected, Recorded, Settled, Aging, Foretold, Everywhere
<1>3. Remembered'
  BY DEF Remembered, SaidInThisScan, Recording, Everywhere
<1>4. Turned'
  BY DEF Turned, Resting, Recording
<1> QED BY <1>1, <1>2, <1>3, <1>4

\* Stopping and failing leave a scan the same way.
LEMMA CutInv ==
  ASSUME Inv, Down \/ ScanFails
  PROVE  Inv'
<1> USE DEF Down, ScanFails, EndScan, repository, ledger, memory, Inv
<1>1. TypeOK'
  <2>1. got' \in [Recipe -> Finding \cup {None}] /\ idle' \in 0 .. Interval
    BY Clocks DEF Everywhere
  <2>2. pos' \in 1 .. Len(Recipes) /\ took' \in 0 .. MaxScan /\ key' \in Content
    BY Clocks, Listed
  <2> QED BY <2>1, <2>2 DEF TypeOK, Stages
<1>2. Resting' /\ Collected' /\ Aging'
  BY Listed DEF TypeOK, Resting, Recording, Collected, Aging, Everywhere
<1>3. Recorded' /\ Foretold' /\ Remembered' /\ Turned'
  BY DEF Recorded, Foretold, Remembered, Turned
<1> QED BY <1>1, <1>2, <1>3

\* A failing tick excuses every recipe and begins nothing.
LEMMA TickFailsInv == ASSUME Inv, TickFails PROVE Inv'
<1> USE DEF TickFails, repository, ledger, memory, scan, Inv, Due
<1>1. TypeOK'
  BY Clocks DEF TypeOK
<1>2. Resting' /\ Collected' /\ Aging'
  BY Listed DEF TypeOK, Resting, Recording, Collected, Aging
<1>3. Recorded' /\ Foretold' /\ Remembered' /\ Turned'
  BY DEF Recorded, Settled, Foretold, Resting, Recording, Remembered, SaidInThisScan, Turned, Diverges, Verdict
<1> QED BY <1>1, <1>2, <1>3

\* A tick begins a scan or lets it be.
LEMMA TickInv == ASSUME Inv, Tick PROVE Inv'
<1> USE DEF Tick, repository, ledger, Inv, Due
<1>0. phase = "wait" /\ stage = "off" /\ took = 0 /\ pos = 1 /\ ~flipped
  BY DEF Resting, Recording
<1>1. TypeOK'
  <2>1. warned' \in [Recipe -> SUBSET {"expiring", "expired"}]
    BY DEF TypeOK, Warnings
  <2>2. scans' \in 0 .. FullEvery - 1 /\ idle' \in 0 .. Interval
    BY Clocks DEF TypeOK
  <2> QED BY <2>1, <2>2 DEF TypeOK, Stages
<1>2. Resting'
  BY <1>0 DEF Resting, Recording
<1>7. stage' \in {"off", "key"} /\ pos' = 1
  BY <1>0
<1>8. Collected' /\ Recorded'
  BY <1>7, Listed DEF Recording, Collected, Recorded
<1>3. Aging'
  <2> SUFFICES ASSUME NEW r \in Recipe, found[r] # None, r \notin hurt
               PROVE  age[r] < ScanAt + MaxScan + (IF phase' = "scan" THEN Interval + took ELSE idle')
    BY DEF Aging
  <2>1. age[r] < ScanAt + MaxScan + Interval /\ age[r] \in Nat
    BY <1>0 DEF Aging, TypeOK
  <2>2. ~ScanDue => age[r] < ScanAt
    BY <2>1, Clocks DEF ScanDue, OnCadence, Rows
  <2> QED BY <1>0, <2>1, <2>2, Clocks
<1>4. Foretold'
  <2> SUFFICES ASSUME NEW r \in Recipe, found[r] # None
               PROVE  /\ age[r] - took >= WarnAt => warned'[r] # {}
                      /\ age[r] - took >= Window => "expired" \in warned'[r]
    BY DEF Foretold
  <2>1. warned'[r] = warned[r] \cup Warnings(r) /\ age[r] \in Nat
    BY DEF TypeOK
  <2> QED BY <2>1, <1>0, Clocks DEF Warnings, Rows
<1>5. Remembered'
  BY <1>0 DEF Remembered, SaidInThisScan, Recording
<1>6. Turned'
  BY <1>0 DEF Turned
<1> QED BY <1>1, <1>2, <1>3, <1>4, <1>5, <1>6, <1>8

\* Moving on to the next recipe, or to what follows the last.
LEMMA AdvanceTo ==
  ASSUME NEW same, NEW next, pos \in 1 .. Len(Recipes), Advance(same, next)
  PROVE  /\ pos' \in 1 .. Len(Recipes)
         /\ \/ stage' = same /\ pos' = pos + 1
            \/ stage' = next /\ pos' = 1 /\ pos = Len(Recipes)
<1>1. pos \in Int /\ Len(Recipes) \in Nat /\ 1 <= pos /\ pos <= Len(Recipes)
  BY Listed
<1>2. CASE pos < Len(Recipes)
  BY <1>1, <1>2 DEF Advance
<1>3. CASE ~(pos < Len(Recipes))
  BY <1>1, <1>3 DEF Advance
<1> QED BY <1>2, <1>3

\* A step towards the answer of the recipe under way.
LEMMA AnswerInv ==
  ASSUME Inv, Key \/ Collect
  PROVE  Inv'
<1> DEFINE p == Recipes[pos]
<1>0. /\ p \in Recipe /\ stage \in {"key", "run"} /\ phase = "scan" /\ ~flipped /\ pos \in 1 .. Len(Recipes)
      /\ UNCHANGED <<content, outside, works, found, age, atHead, phase, idle, scans, warned, base, baseHead,
                     took, startHead, comparable, flipped, hurt, cut>>
  BY Listed DEF Inv, TypeOK, Resting, Recording, Key, Collect, repository, ledger, memory
<1>1. /\ pos' \in 1 .. Len(Recipes)
      /\ \/ stage' = "run" /\ pos' = pos /\ got' = got
         \/ /\ \/ stage' = "key" /\ pos' = pos + 1
               \/ stage' = "record" /\ pos' = 1 /\ pos = Len(Recipes)
            /\ p \notin hurt => got'[p] # None
  <2>1. CASE Key
    <3>1. CASE Mode = "incremental" /\ cache[p][content[p]] # None
      BY <2>1, <3>1, <1>0, AdvanceTo DEF Key, Inv, TypeOK
    <3>2. CASE ~(Mode = "incremental" /\ cache[p][content[p]] # None)
      BY <2>1, <3>2, <1>0 DEF Key
    <3> QED BY <3>1, <3>2
  <2>2. CASE Collect
    <3>1. p \notin hurt => p \in works
      BY <1>0 DEF Inv, Resting
    <3>2. <<content[p], outside[p]>> \in Finding
      BY <1>0 DEF Inv, TypeOK, Finding
    <3>3. p \in works => got'[p] # None
      BY <2>2, <3>2, <1>0, Listed DEF Collect, Inv, TypeOK
    <3> QED BY <2>2, <3>1, <3>3, <1>0, AdvanceTo DEF Collect
  <2> QED BY <2>1, <2>2
<1>2. /\ got' \in [Recipe -> Finding \cup {None}]
      /\ \A r \in Recipe : r # p => got'[r] = got[r]
      /\ key' \in Content
  <2>1. CASE Key
    <3>1. content[p] \in Content /\ cache[p][content[p]] \in Finding \cup {None}
      BY <1>0 DEF Inv, TypeOK
    <3>2. got' = got \/ got' = [got EXCEPT ![p] = cache[p][content[p]]]
      BY <2>1 DEF Key
    <3>3. key' = key \/ key' = content[p]
      BY <2>1 DEF Key
    <3> HIDE DEF p
    <3> QED BY <3>1, <3>2, <3>3, <1>0 DEF Inv, TypeOK
  <2>2. CASE Collect
    <3>1. <<content[p], outside[p]>> \in Finding
      BY <1>0 DEF Inv, TypeOK, Finding
    <3> QED BY <2>2, <3>1, <1>0 DEF Collect, Inv, TypeOK
  <2> QED BY <2>1, <2>2
<1>3. cache' \in [Recipe -> [Content -> Finding \cup {None}]]
  <2>1. CASE Key
    BY <2>1 DEF Key, Inv, TypeOK
  <2>2. CASE Collect
    <3>1. <<content[p], outside[p]>> \in Finding
      BY <1>0 DEF Inv, TypeOK, Finding
    <3>2. [cache[p] EXCEPT ![key] = <<content[p], outside[p]>>] \in [Content -> Finding \cup {None}]
      BY <3>1, <1>0 DEF Inv, TypeOK
    <3>3. cache' = cache \/ cache' = [cache EXCEPT ![p] = [cache[p] EXCEPT ![key] = <<content[p], outside[p]>>]]
      BY <2>2 DEF Collect, Store
    <3> HIDE DEF p
    <3> QED BY <3>2, <3>3, <1>0 DEF Inv, TypeOK
  <2> QED BY <2>1, <2>2
<1> HIDE DEF p
<1>4. stage' \in {"key", "run", "record"}
  BY <1>1
<1>5. TypeOK'
  BY <1>0, <1>1, <1>2, <1>3, <1>4 DEF Inv, TypeOK, Stages
<1>6. Resting'
  BY <1>0, <1>4 DEF Inv, Resting
<1>7. Collected'
  <2> SUFFICES ASSUME NEW i \in 1 .. Len(Recipes), Recipes[i] \notin hurt, stage' = "record" \/ i < pos'
               PROVE  got'[Recipes[i]] # None
    BY <1>0, <1>4, Listed DEF Collected, Recording
  <2>1. i < pos => got[Recipes[i]] # None
    BY <1>0, Listed DEF Inv, Collected
  <2>2. CASE Recipes[i] = p
    BY <2>1, <2>2, <1>0, <1>1 DEF p
  <2>3. CASE Recipes[i] # p
    <3>1. got'[Recipes[i]] = got[Recipes[i]] /\ i # pos
      BY <2>3, <1>2, Listed DEF p
    <3> QED BY <2>1, <3>1, <1>0, <1>1
  <2> QED BY <2>2, <2>3
<1>8. Recorded'
  <2>1. stage' = "record" => pos' = 1
    BY <1>0, <1>1
  <2> QED BY <2>1, <1>4, Listed DEF Recorded
<1>9. Aging' /\ Foretold'
  BY <1>0 DEF Inv, Aging, Foretold
<1>10. Remembered'
  BY <1>0 DEF Inv, Remembered, SaidInThisScan, Recording
<1>11. Turned'
  BY <1>0 DEF Turned
<1> QED BY <1>5, <1>6, <1>7, <1>8, <1>9, <1>10, <1>11 DEF Inv

\* The loop records a recipe and goes to the next.
LEMMA RecordInv == ASSUME Inv, Record PROVE Inv'
<1> DEFINE p == Recipes[pos]
<1>0. /\ p \in Recipe /\ stage = "record" /\ phase = "scan" /\ pos \in 1 .. Len(Recipes)
      /\ UNCHANGED <<content, outside, works, cache, phase, idle, scans, base, baseHead, took, startHead,
                     comparable, key, got, cut>>
  BY Listed DEF Inv, TypeOK, Resting, Record, repository
<1>1. /\ pos' \in 1 .. Len(Recipes)
      /\ \/ stage' = "record" /\ pos' = pos + 1
         \/ stage' = "compare" /\ pos' = 1 /\ pos = Len(Recipes)
  BY <1>0, AdvanceTo DEF Record
\* Either the ledger keeps what it says of p or it takes what was found.
<1>2. \/ UNCHANGED <<found, age, atHead, warned>> /\ (got[p] = None \/ Settled(p))
      \/ /\ got[p] # None
         /\ found' = [found EXCEPT ![p] = got[p]] /\ age' = [age EXCEPT ![p] = took]
         /\ atHead' = [atHead EXCEPT ![p] = startHead] /\ warned' = [warned EXCEPT ![p] = {}]
  BY DEF Record, ledger, Survives, Settled
<1>3. /\ hurt' \subseteq hurt /\ \A r \in Recipe \ hurt' : r \notin hurt \/ (r = p /\ p \in works /\ got[p] # None)
      /\ flipped' = flipped \/ /\ flipped' = (flipped \/ (atHead[p] /\ startHead /\ Verdict(got[p]) # Verdict(found[p])))
                               /\ got[p] # None
  <2>1. CASE got[p] = None
    BY <2>1 DEF Record
  <2>2. CASE got[p] # None
    BY <2>2 DEF Record
  <2> QED BY <2>1, <2>2
<1> HIDE DEF p
<1>4. ASSUME NEW r \in Recipe
      PROVE  \/ found'[r] = found[r] /\ age'[r] = age[r] /\ atHead'[r] = atHead[r] /\ warned'[r] = warned[r]
             \/ /\ r = p /\ got[r] # None
                /\ found'[r] = got[r] /\ age'[r] = took /\ atHead'[r] = startHead /\ warned'[r] = {}
  BY <1>0, <1>2 DEF Inv, TypeOK
<1>5. TypeOK'
  <2>1. /\ found' \in [Recipe -> Finding \cup {None}] /\ age' \in [Recipe -> Nat]
        /\ atHead' \in [Recipe -> BOOLEAN]
    <3>1. got[p] \in Finding \cup {None} /\ took \in Nat /\ startHead \in BOOLEAN
      BY <1>0, Clocks DEF Inv, TypeOK
    <3>2. found' \in [Recipe -> Finding \cup {None}]
      BY <1>2, <3>1 DEF Inv, TypeOK
    <3>3. age' \in [Recipe -> Nat]
      BY <1>2, <3>1 DEF Inv, TypeOK
    <3>4. atHead' \in [Recipe -> BOOLEAN]
      BY <1>2, <3>1 DEF Inv, TypeOK
    <3> QED BY <3>2, <3>3, <3>4
  <2>2. warned' \in [Recipe -> SUBSET {"expiring", "expired"}]
    BY <1>0, <1>2 DEF Inv, TypeOK
  <2>3. flipped' \in BOOLEAN /\ hurt' \subseteq Recipe
    BY <1>3 DEF Inv, TypeOK
  <2> QED BY <2>1, <2>2, <2>3, <1>0, <1>1 DEF Inv, TypeOK, Stages
<1>6. Resting'
  <2>1. works \cup hurt' = Recipe
    BY <1>3 DEF Inv, Resting, TypeOK
  <2>2. \A r \in Recipe : atHead'[r] => startHead
    BY <1>0, <1>4 DEF Inv, Resting
  <2> QED BY <2>1, <2>2, <1>0, <1>1 DEF Inv, Resting, Recording
<1>7. Collected'
  <2> SUFFICES ASSUME NEW i \in 1 .. Len(Recipes), Recipes[i] \notin hurt'
               PROVE  got[Recipes[i]] # None
    BY <1>0, Listed DEF Collected
  <2>1. Recipes[i] \in Recipe \ hurt'
    BY Listed
  <2> QED BY <2>1, <1>0, <1>3, Listed DEF Inv, Collected, Recording
<1>8. ASSUME NEW r \in Recipe, Settled(r) \/ (r = p /\ got[r] # None)
      PROVE  found'[r] = got[r] /\ age'[r] - took < ScanAt
  BY <1>8, <1>2, <1>4, <1>0, Clocks DEF Settled, Inv, TypeOK
<1>9. Recorded'
  <2> SUFFICES ASSUME NEW i \in 1 .. Len(Recipes), got[Recipes[i]] # None, stage' = "compare" \/ i < pos'
               PROVE  found'[Recipes[i]] = got[Recipes[i]] /\ age'[Recipes[i]] - took < ScanAt
    BY <1>0, Listed DEF Recorded, Settled
  <2>1. i < pos => Settled(Recipes[i])
    BY <1>0, Listed DEF Inv, Recorded
  <2>2. i = pos \/ i < pos
    BY <1>0, <1>1
  <2> QED BY <2>1, <2>2, <1>8, Listed DEF p
<1>10. Aging'
  <2> SUFFICES ASSUME NEW r \in Recipe, found'[r] # None, r \notin hurt'
               PROVE  age'[r] < ScanAt + MaxScan + Interval + took
    BY <1>0, Clocks DEF Aging, Inv, TypeOK
  <2>1. CASE r = p /\ got[r] # None
    <3>1. age'[r] - took < ScanAt /\ age'[r] \in Nat /\ took \in Nat
      BY <2>1, <1>8, <1>5, <1>0, Clocks DEF TypeOK
    <3> QED BY <3>1, Clocks
  <2>2. CASE ~(r = p /\ got[r] # None)
    <3>1. r \notin hurt /\ age'[r] = age[r] /\ found'[r] = found[r]
      BY <2>2, <1>3, <1>4
    <3>2. age[r] < ScanAt + MaxScan + (Interval + took)
      BY <3>1, <2>2, <1>0 DEF Inv, Aging
    <3>3. age[r] \in Nat /\ took \in Nat
      BY <1>0 DEF Inv, TypeOK
    <3> QED BY <3>1, <3>2, <3>3, Clocks
  <2> QED BY <2>1, <2>2
<1>11. Foretold'
  <2> SUFFICES ASSUME NEW r \in Recipe, found'[r] # None
               PROVE  /\ age'[r] - took >= WarnAt => warned'[r] # {}
                      /\ age'[r] - took >= Window => "expired" \in warned'[r]
    BY <1>0 DEF Foretold
  <2>1. CASE UNCHANGED <<found[r], age[r], warned[r]>>
    BY <2>1, <1>0 DEF Inv, Foretold
  <2>2. CASE age'[r] = took
    <3>1. took \in Nat
      BY <1>0 DEF Inv, TypeOK
    <3>2. age'[r] - took = 0
      BY <2>2, <3>1
    <3> QED BY <3>2, Clocks
  <2> QED BY <2>1, <2>2, <1>4
<1>12. Remembered'
  <2> SUFFICES ASSUME ~cut, NEW r \in Recipe
               PROVE  /\ base[r] \in {None, found'[r]} \/ (got[r] # None /\ got[r] = found'[r])
                      /\ atHead'[r] => comparable \/ (got[r] # None /\ got[r] = found'[r])
    BY <1>0, <1>1 DEF Remembered, SaidInThisScan, Recording
  <2> QED BY <1>0, <1>4 DEF Inv, Remembered, SaidInThisScan, Recording
<1>13. Turned'
  <2>1. Diverges' = Diverges
    BY <1>0 DEF Diverges, Verdict
  <2>2. ASSUME ~cut, atHead[p], startHead, Verdict(got[p]) # Verdict(found[p]), got[p] # None
        PROVE  Diverges
    <3>1. comparable /\ base[p] \in {None, found[p]}
      BY <2>2, <1>0 DEF Inv, Remembered, SaidInThisScan
    <3>2. Verdict(got[p]) # Verdict(base[p])
      BY <2>2, <3>1 DEF Verdict
    <3> QED BY <3>1, <3>2, <1>0 DEF Diverges
  <2> QED BY <2>1, <2>2, <1>0, <1>3 DEF Inv, Turned
<1> QED BY <1>5, <1>6, <1>7, <1>9, <1>10, <1>11, <1>12, <1>13 DEF Inv

\* A scan completes and is the base of the next.
LEMMA CompleteInv == ASSUME Inv, Complete PROVE Inv'
<1>0. /\ stage = "compare" /\ phase = "scan" /\ phase' = "wait" /\ idle' = 0 /\ stage' = "off" /\ took' = 0
      /\ flipped' = FALSE /\ base' = got /\ baseHead' = startHead
      /\ UNCHANGED <<content, outside, works, found, age, atHead, cache, scans, warned, hurt>>
  BY DEF Inv, Resting, Complete, EndScan, repository, ledger
<1>1. ASSUME NEW r \in Recipe, got[r] # None
      PROVE  Settled(r)
  BY <1>0, <1>1, Listed DEF Inv, Recorded
<1>2. TypeOK'
  <2>1. got' \in [Recipe -> Finding \cup {None}]
    BY DEF Complete, EndScan, Everywhere
  <2>2. /\ pos' \in 1 .. Len(Recipes) /\ took' \in 0 .. MaxScan /\ idle' \in 0 .. Interval
        /\ key' \in Content /\ comparable' \in BOOLEAN /\ startHead' \in BOOLEAN /\ cut' \in BOOLEAN
    <3>1. 1 \in 1 .. Len(Recipes) /\ 0 \in 0 .. MaxScan /\ 0 \in 0 .. Interval /\ Original \in Content
      BY Listed, Clocks
    <3> QED BY <3>1 DEF Complete, EndScan
  <2> QED BY <1>0, <2>1, <2>2 DEF Inv, TypeOK, Stages
<1>3. Resting'
  BY <1>0 DEF Inv, Resting, Recording, Complete, EndScan, Everywhere
<1>4. Collected' /\ Recorded' /\ Foretold' /\ Turned'
  BY <1>0 DEF Collected, Recorded, Recording, Foretold, Turned
<1>5. Aging'
  <2> SUFFICES ASSUME NEW r \in Recipe, r \notin hurt
               PROVE  age[r] < ScanAt + MaxScan + 0
    BY <1>0 DEF Aging
  <2>1. got[r] # None
    BY <1>0, Listed DEF Inv, Collected, Recording
  <2> QED BY <2>1, <1>1, Clocks DEF Settled, Inv, TypeOK
<1>6. Remembered'
  <2> SUFFICES ASSUME NEW r \in Recipe
               PROVE  got[r] \in {None, found[r]} /\ (atHead[r] => startHead)
    BY <1>0 DEF Remembered
  <2> QED BY <1>0, <1>1 DEF Settled, Inv, Resting
<1> QED BY <1>2, <1>3, <1>4, <1>5, <1>6 DEF Inv

\* Every step keeps the invariant.
LEMMA StepInv == Inv /\ [Next]_vars => Inv'
<1> SUFFICES ASSUME Inv, [Next]_vars PROVE Inv'
  OBVIOUS
<1>1. CASE UNCHANGED vars
  <2> USE <1>1 DEF vars, repository, ledger, memory, scan, Inv
  <2>1. TypeOK' /\ Resting' /\ Collected' /\ Recorded' /\ Aging' /\ Foretold'
    BY DEF TypeOK, Resting, Recording, Collected, Recorded, Settled, Aging, Foretold
  <2>2. Remembered' /\ Turned'
    BY DEF Remembered, SaidInThisScan, Recording, Turned, Diverges, Verdict
  <2> QED BY <2>1, <2>2
<1>2. CASE Next
  BY <1>2, CommitInv, PassInv, StartInv, CutInv, TickInv, TickFailsInv, AnswerInv, RecordInv, CompleteInv, WorldInv DEF Next
<1> QED BY <1>1, <1>2

-----------------------------------------------------------------------------
(* What the daemon promises. *)

\* The inductive invariant: between scans nothing of a scan is left; a recipe
\* nothing happened to is answered, recorded and young in the order in which
\* the scan comes to it, and its evidence ages by a tick's wait and two scans
\* at most; what a tick saw near its end is warned of; and an uninterrupted
\* daemon remembers of each recipe what the ledger says, or nothing.
THEOREM DaemonInductive == Spec => []Inv
BY InitInv, StepInv, PTL DEF Spec

\* Evidence expires only where a collector was out, a scan or a tick failed or
\* the daemon was down, and every scan settles what it was due for (cadence.ts,
\* scan.ts:391): for any window that leaves room for one interval and two scans
\* after the threshold, any recipes and any history.
THEOREM FreshWhileWellHolds == Spec => []FreshWhileWell
<1>1. Inv => FreshWhileWell
  <2> SUFFICES ASSUME Inv PROVE FreshWhileWell
    OBVIOUS
  <2>1. ASSUME NEW r \in Rows, r \notin hurt
        PROVE  age[r] < Window
    <3>1. age[r] < ScanAt + MaxScan + (IF phase = "scan" THEN Interval + took ELSE idle)
      BY <2>1 DEF Inv, Aging, Rows
    <3>2. age[r] \in Nat /\ took \in Nat /\ took <= MaxScan /\ idle \in Nat /\ idle <= Interval
      BY Clocks DEF Inv, TypeOK, Rows
    <3> QED BY <3>1, <3>2, Clocks
  <2>2. ASSUME stage = "compare", NEW r \in Recipe, got[r] # None
        PROVE  found[r] = got[r] /\ age[r] - took < ScanAt
    BY <2>2, Listed DEF Inv, Recorded, Settled
  <2>3. \A r \in Rows : age[r] \in Nat
    BY DEF Inv, TypeOK, Rows
  <2> QED BY <2>1, <2>2, <2>3, Clocks DEF FreshWhileWell
<1> QED BY <1>1, DaemonInductive, PTL

\* A full scan that turns a verdict recorded at its commit raises the alarm
\* (diff.ts), unless a scan failed or the process was replaced since the last
\* one that completed: whatever commits, drifts, outages and cached answers
\* came between.
THEOREM SilenceIsEarnedHolds == Spec => []SilenceIsEarned
<1>1. Inv => SilenceIsEarned
  BY DEF Inv, Turned, SilenceIsEarned
<1> QED BY <1>1, DaemonInductive, PTL

\* Evidence near its end is warned of before a scan replaces it, and said to
\* have expired if it had (cadence.ts, local.ts:151): however long the daemon
\* slept and whichever recipe the scan records first.
THEOREM WarnedBeforeReplacedHolds == Spec => WarnedBeforeReplaced
<1> DEFINE Told == \A r \in Recipe : Replaced(r) =>
                     /\ age[r] >= WarnAt + MaxScan => warned[r] # {}
                     /\ age[r] >= Window + MaxScan => "expired" \in warned[r]
<1>1. Inv /\ [Next]_vars => [Told]_vars
  <2> SUFFICES ASSUME Inv, Next, NEW r \in Recipe, Replaced(r)
               PROVE  /\ age[r] >= WarnAt + MaxScan => warned[r] # {}
                      /\ age[r] >= Window + MaxScan => "expired" \in warned[r]
    OBVIOUS
  <2>1. Record
    <3>1. CASE UNCHANGED <<found, age>>
      BY <3>1 DEF Replaced, Inv, TypeOK
    <3>2. CASE Pass
      BY <3>2 DEF Pass, Replaced, Older, Inv, TypeOK
    <3> QED BY <3>1, <3>2 DEF Next, Commit, Start, Down, Tick, TickFails, Key, Collect, Complete, ScanFails,
                                Drift, Outage, Repair, ledger
  <2>2. phase = "scan"
    BY <2>1 DEF Record, Inv, Resting
  <2>3. age[r] \in Nat /\ took \in Nat /\ took <= MaxScan
    BY Clocks DEF Inv, TypeOK
  <2>4. /\ age[r] - took >= WarnAt => warned[r] # {}
        /\ age[r] - took >= Window => "expired" \in warned[r]
    BY <2>2 DEF Inv, Foretold, Replaced
  <2> QED BY <2>3, <2>4, Clocks
<1> QED BY <1>1, DaemonInductive, PTL DEF Spec, WarnedBeforeReplaced, Told
=============================================================================
