------------------------------ MODULE ScanProofs ------------------------------
(***************************************************************************)
(* What scans and hands write to the ledger is sound for any number of     *)
(* processes, operations, commits and stops.                               *)
(***************************************************************************)
EXTENDS Scan, FiniteSetTheorems, WellFoundedInduction, TLAPS

-----------------------------------------------------------------------------
(* Types. *)

Stages == {"off", "collect", "compare", "evidence", "declare", "list", "artifact",
           "observation", "derive", "record", "revise", "scope"}
KeySteps == {"none", "readPublic", "makePrivate", "fillPrivate", "makePublic", "fillPublic", "failed"}

Counts == [Slot -> Nat]
Operation ==
  [stage : Stages, now : Nat, finding : Findings, file : Files, touched : Counts,
   next : Nat, slots : SUBSET Slot, prior : Counts, derived : Nat]

EvidenceSaid == [recipe : Recipe, finding : Finding]
BodySaid == [slot : Slot, body : Body, touched : Nat \cup {ByHand}, supersedes : Body \cup {Silent}]
ObservationSaid == [saw : Files]
RunSaid == [finding : Findings, saw : Files, derived : Nat]
ScopingSaid == [recipe : Recipe]
Signed(kind, said) ==
  [kind : {kind}, payload : said, at : Nat, by : Process, key : Process, lone : SUBSET Process]
Statement ==
  Signed("evidence", EvidenceSaid) \cup Signed("artifact", BodySaid)
  \cup Signed("observation", ObservationSaid) \cup Signed("run", RunSaid)
  \cup Signed("scoping", ScopingSaid)

TypeOK ==
  /\ tree \in [finding : Findings, file : Files, touched : Counts]
  /\ events \in Nat /\ clock \in Nat
  /\ log \in Seq(Statement)
  /\ op \in [Process -> Operation]
  /\ lone \in SUBSET Process

KeysType ==
  /\ private \in Process \cup {NoKey, Torn} /\ public \in Process \cup {NoKey, Torn}
  /\ keyStep \in [Process -> KeySteps]
  /\ held \in [Process -> Process \cup {NoKey}]

-----------------------------------------------------------------------------
(* The key pair. *)

\* What is half made is made by one process, and whoever holds a key holds the
\* one whose halves are both on disk.
Paired ==
  /\ public \in Process => public = private
  /\ \A p \in Process :
       /\ held[p] # NoKey => held[p] = private /\ held[p] = public
       /\ keyStep[p] = "readPublic" => private \in Process
       /\ keyStep[p] = "fillPrivate" =>
            private = Torn /\ \A q \in Process : keyStep[q] = "fillPrivate" => q = p
       /\ keyStep[p] \in {"makePublic", "fillPublic"} => private = p
       /\ keyStep[p] = "fillPublic" => public = Torn

KeysInv == KeysType /\ Paired

\* Both files are there, or neither.
LEMMA KeysStart == Init => KeysInv
BY SignerAssumption DEF Init, KeysInit, KeysInv, KeysType, KeySteps, Paired

\* A process that ends leaves the files alone,
LEMMA DropStep ==
  ASSUME KeysInv, NEW p \in Process, DropKeys(p)
  PROVE  KeysInv'
BY SignerAssumption DEF KeysInv, KeysType, KeySteps, Paired, DropKeys, Goes, Holds

\* one that begins reads the private key first,
LEMMA NeedStep ==
  ASSUME KeysInv, NEW p \in Process, NeedKeys(p)
  PROVE  KeysInv'
BY SignerAssumption DEF KeysInv, KeysType, KeySteps, Paired, NeedKeys, Goes, Holds, Readable

\* and pairs it with the public one;
LEMMA ReadStep ==
  ASSUME KeysInv, NEW p \in Process, ReadPublic(p)
  PROVE  KeysInv'
BY SignerAssumption DEF KeysInv, KeysType, KeySteps, Paired, ReadPublic, Goes, Holds, Readable

\* the exclusive create lets one process make the private file,
LEMMA MakePrivateStep ==
  ASSUME KeysInv, NEW p \in Process, MakePrivate(p)
  PROVE  KeysInv'
BY SignerAssumption DEF KeysInv, KeysType, KeySteps, Paired, MakePrivate, Goes, Holds, Creatable

\* that process alone fills it,
LEMMA FillPrivateStep ==
  ASSUME KeysInv, NEW p \in Process, FillPrivate(p)
  PROVE  KeysInv'
BY SignerAssumption DEF KeysInv, KeysType, KeySteps, Paired, FillPrivate, Goes, Holds

\* makes the public one
LEMMA MakePublicStep ==
  ASSUME KeysInv, NEW p \in Process, MakePublic(p)
  PROVE  KeysInv'
BY SignerAssumption DEF KeysInv, KeysType, KeySteps, Paired, MakePublic, Goes, Holds, Creatable

\* and fills that too.
LEMMA FillPublicStep ==
  ASSUME KeysInv, NEW p \in Process, FillPublic(p)
  PROVE  KeysInv'
BY SignerAssumption DEF KeysInv, KeysType, KeySteps, Paired, FillPublic, Goes, Holds
\* The recipe a scan is at.
LEMMA RecipeAt ==
  ASSUME NEW k \in 1..Len(Recipes)
  PROVE  Recipes[k] \in Recipe /\ Len(Recipes) \in Nat \ {0}
BY ScanAssumption DEF Recipe

\* There is one.
LEMMA FirstRecipe == Len(Recipes) \in Nat /\ 1 <= Len(Recipes)
BY ScanAssumption

\* An operation's parts.
LEMMA OpParts ==
  ASSUME op \in [Process -> Operation], NEW p \in Process
  PROVE  /\ op[p].stage \in Stages /\ op[p].now \in Nat /\ op[p].next \in Nat
         /\ op[p].slots \in SUBSET Slot /\ op[p].derived \in Nat
         /\ op[p].finding \in [Recipe -> Finding \cup {Skipped}]
         /\ op[p].file \in [Slot -> Body \cup {Silent, Missing}]
         /\ op[p].touched \in [Slot -> Nat] /\ op[p].prior \in [Slot -> Nat]
BY DEF Operation, Counts, Findings, Files

\* A statement's parts.
LEMMA Parts ==
  ASSUME log \in Seq(Statement), NEW i \in DOMAIN log
  PROVE  /\ log[i].at \in Nat /\ log[i].by \in Process /\ log[i].lone \in SUBSET Process
         /\ log[i].kind \in {"evidence", "artifact", "observation", "run", "scoping"}
         /\ log[i].kind = "artifact" => Said(i) \in BodySaid
         /\ log[i].kind = "observation" => Said(i).saw \in [Slot -> Body \cup {Silent, Missing}]
         /\ log[i].kind = "evidence" => Said(i) \in EvidenceSaid
         /\ log[i].kind = "run" => Said(i) \in RunSaid
<1>1. log[i] \in Statement
  OBVIOUS
<1> QED BY <1>1 DEF Statement, Signed, Said, EvidenceSaid, BodySaid, ObservationSaid, RunSaid, ScopingSaid, Files

\* The statements are numbered from 1.
LEMMA Length ==
  ASSUME log \in Seq(Statement)
  PROVE  Len(log) \in Nat /\ DOMAIN log = 1..Len(log)
OBVIOUS

-----------------------------------------------------------------------------
(* What an append does. *)

\* Process p says something, at the instant of its operation.
Says(p, kind, said) ==
  /\ log' \in Seq(Statement)
  /\ Len(log') = Len(log) + 1 /\ DOMAIN log' = 1..(Len(log) + 1)
  /\ \A i \in 1..Len(log) : log'[i] = log[i]
  /\ LET last == log'[Len(log) + 1] IN
     /\ last.kind = kind /\ last.payload = said /\ last.at = op[p].now /\ last.by = p
     /\ last.key = held[p] /\ last.lone = lone

\* A record is what it says, signed with the key held.
LEMMA SaysWhat ==
  ASSUME TypeOK, KeysInv, NEW p \in Process, NEW kind, NEW said, Records(p, kind, said),
         \A at \in Nat, key \in Process :
           [kind |-> kind, payload |-> said, at |-> at, by |-> p, key |-> key, lone |-> lone] \in Statement
  PROVE  Says(p, kind, said) /\ tree' = tree /\ events' = events /\ clock' = clock
<1> DEFINE e == [kind |-> kind, payload |-> said, at |-> op[p].now, by |-> p, key |-> held[p], lone |-> lone]
<1>1. op[p].now \in Nat /\ held[p] \in Process
  BY OpParts DEF TypeOK, KeysInv, KeysType, Records
<1>2. e \in Statement
  BY <1>1
<1>3. log' = Append(log, e) /\ log \in Seq(Statement)
  BY DEF Records, TypeOK
<1>4. e.kind = kind /\ e.payload = said /\ e.at = op[p].now /\ e.by = p /\ e.key = held[p] /\ e.lone = lone
  OBVIOUS
<1>5. tree' = tree /\ events' = events /\ clock' = clock
  BY DEF Records
<1> HIDE DEF e
<1> QED BY <1>2, <1>3, <1>4, <1>5 DEF Says
-----------------------------------------------------------------------------
(* The inductive invariant: an operation by itself. *)

Working(p) == op[p].stage # "off"

Comparing == {"compare", "evidence"}
Behind == {"declare", "list", "artifact", "observation", "derive", "record"}

\* Where an operation is says what it has left to do.
StagedAt(p) ==
  /\ op[p].stage \in Comparing => op[p].next \in 1..Len(Recipes)
  /\ op[p].stage \in Behind => op[p].next = Len(Recipes) + 1
  /\ op[p].stage \notin Comparing \cup Behind => op[p].next = 1
  /\ op[p].stage = "evidence" => op[p].finding[Recipes[op[p].next]] # Skipped
  /\ op[p].stage \notin {"artifact", "revise"} => op[p].slots = {}
  /\ \A s \in op[p].slots : op[p].file[s] \in Body

BundleOf(i, r) == log[i].kind = "evidence" /\ Said(i).recipe = r
WordOn(i, r) == log[i].kind \in {"evidence", "scoping"} /\ Said(i).recipe = r
BodyOf(i, s) == log[i].kind = "artifact" /\ Said(i).slot = s
Observation(i) == log[i].kind = "observation"

\* The body an operation takes for the last of its slot is a body of it, and the
\* last while the operation is alone.
PriorAt(p) ==
  \A s \in Slot :
    /\ op[p].prior[s] # None => op[p].prior[s] \in 1..Len(log) /\ BodyOf(op[p].prior[s], s)
    /\ p \in lone /\ s \in op[p].slots => \A i \in 1..Len(log) : BodyOf(i, s) => i <= op[p].prior[s]

-----------------------------------------------------------------------------
(* What each action does to its operation. *)

Moved(p) == op' \in [Process -> Operation] /\ \A q \in Process \ {p} : op'[q] = op[q]

Looks(p) ==
  /\ Moved(p) /\ TypeOK' /\ log' = log /\ clock' = clock /\ lone' = lone
  /\ op'[p].now = op[p].now /\ op'[p].derived \in Nat

\* Collect reads the tree and goes to the first recipe.
LEMMA CollectDoes ==
  ASSUME TypeOK, NEW p \in Process, Collect(p)
  PROVE  /\ Looks(p)
         /\ op[p].stage = "collect" /\ op'[p].stage = "compare" /\ op'[p].next = op[p].next
         /\ op'[p].slots = op[p].slots /\ op'[p].file = op[p].file /\ op'[p].prior = op[p].prior
<1>1. op' = [op EXCEPT ![p].stage = "compare", ![p].finding = tree.finding] /\ op \in [Process -> Operation]
  BY DEF Collect, TypeOK
<1>2. "compare" \in Stages /\ tree.finding \in Findings
  BY DEF Stages, TypeOK
<1>3. Moved(p)
  BY <1>1, <1>2 DEF Moved, Operation
<1>4. /\ op'[p].now = op[p].now /\ op'[p].stage = "compare" /\ op'[p].next = op[p].next
      /\ op'[p].slots = op[p].slots /\ op'[p].file = op[p].file /\ op'[p].prior = op[p].prior
      /\ op'[p].derived = op[p].derived
  BY <1>1 DEF Operation
<1>5. tree' = tree /\ events' = events /\ clock' = clock /\ log' = log /\ lone' = lone
  BY DEF Collect, Reads
<1>6. op[p].stage = "collect" /\ op[p].derived \in Nat
  BY OpParts DEF Collect, At, TypeOK
<1> QED BY <1>3, <1>4, <1>5, <1>6 DEF Looks, TypeOK, Moved

\* The loop goes to the next recipe, or behind the last one.
LEMMA AdvancesDoes ==
  ASSUME op \in [Process -> Operation], NEW p \in Process, Advances(p)
  PROVE  /\ Moved(p) /\ op'[p].now = op[p].now /\ op'[p].derived = op[p].derived
         /\ op'[p].next = op[p].next + 1
         /\ op'[p].stage = IF op[p].next < Len(Recipes) THEN "compare" ELSE "declare"
         /\ op'[p].slots = op[p].slots /\ op'[p].file = op[p].file /\ op'[p].prior = op[p].prior
         /\ op'[p].finding = op[p].finding
<1> DEFINE stage == IF op[p].next < Len(Recipes) THEN "compare" ELSE "declare"
           next == op[p].next + 1
<1>1. stage \in Stages /\ next \in Nat
  BY OpParts DEF Stages
<1>2. op' = [op EXCEPT ![p].next = next, ![p].stage = stage]
  BY DEF Advances
<1> HIDE DEF stage, next
<1>3. Moved(p)
  BY <1>1, <1>2 DEF Moved, Operation
<1>4. /\ op'[p].now = op[p].now /\ op'[p].next = next /\ op'[p].stage = stage
      /\ op'[p].slots = op[p].slots /\ op'[p].file = op[p].file /\ op'[p].prior = op[p].prior
      /\ op'[p].finding = op[p].finding /\ op'[p].derived = op[p].derived
  BY <1>2 DEF Operation
<1> QED BY <1>3, <1>4 DEF stage, next

\* A change of stage alone.
LEMMA MovesDoes ==
  ASSUME op \in [Process -> Operation], NEW p \in Process, NEW stage \in Stages, Moves(p, stage)
  PROVE  /\ Moved(p) /\ op'[p].now = op[p].now /\ op'[p].derived = op[p].derived
         /\ op'[p].next = op[p].next /\ op'[p].stage = stage
         /\ op'[p].slots = op[p].slots /\ op'[p].file = op[p].file /\ op'[p].prior = op[p].prior
         /\ op'[p].finding = op[p].finding
BY DEF Moves, Moved, Operation

\* Compare passes a recipe by, or goes to sign it.
LEMMA CompareDoes ==
  ASSUME TypeOK, NEW p \in Process, StagedAt(p), Compare(p)
  PROVE  /\ Looks(p) /\ op[p].stage = "compare" /\ op'[p].finding = op[p].finding
         /\ op'[p].slots = op[p].slots /\ op'[p].file = op[p].file /\ op'[p].prior = op[p].prior
         /\ LET r == Recipes[op[p].next] IN
            \/ /\ op[p].finding[r] = Skipped \/ Survives(p, r)
               /\ op'[p].next = op[p].next + 1
               /\ op'[p].stage = IF op[p].next < Len(Recipes) THEN "compare" ELSE "declare"
            \/ /\ op[p].finding[r] # Skipped /\ ~Survives(p, r)
               /\ op'[p].next = op[p].next /\ op'[p].stage = "evidence"
<1> DEFINE r == Recipes[op[p].next]
           passes == op[p].finding[r] = Skipped \/ Survives(p, r)
<1>1. /\ op[p].stage = "compare" /\ op \in [Process -> Operation] /\ op[p].derived \in Nat
      /\ tree' = tree /\ events' = events /\ clock' = clock /\ log' = log /\ lone' = lone
  BY OpParts DEF Compare, At, Reads, TypeOK
<1>2. CASE passes
  <2>1. Advances(p)
    BY <1>2 DEF Compare
  <2>2. /\ Moved(p) /\ op'[p].now = op[p].now /\ op'[p].derived = op[p].derived
        /\ op'[p].next = op[p].next + 1
        /\ op'[p].stage = IF op[p].next < Len(Recipes) THEN "compare" ELSE "declare"
        /\ op'[p].slots = op[p].slots /\ op'[p].file = op[p].file /\ op'[p].prior = op[p].prior
        /\ op'[p].finding = op[p].finding
    BY <1>1, <2>1, AdvancesDoes
  <2>3. Looks(p)
    BY <1>1, <2>2 DEF Looks, TypeOK, Moved
  <2> QED BY <1>1, <1>2, <2>2, <2>3
<1>3. CASE ~passes
  <2>1. Moves(p, "evidence") /\ "evidence" \in Stages
    BY <1>3 DEF Compare, Stages
  <2>2. /\ Moved(p) /\ op'[p].now = op[p].now /\ op'[p].derived = op[p].derived
        /\ op'[p].next = op[p].next /\ op'[p].stage = "evidence"
        /\ op'[p].slots = op[p].slots /\ op'[p].file = op[p].file /\ op'[p].prior = op[p].prior
        /\ op'[p].finding = op[p].finding
    BY <1>1, <2>1, MovesDoes
  <2>3. Looks(p)
    BY <1>1, <2>2 DEF Looks, TypeOK, Moved
  <2> QED BY <1>1, <1>3, <2>2, <2>3
<1> QED BY <1>2, <1>3

\* Declare reads the files and goes on to list them, if there are any.
LEMMA DeclareDoes ==
  ASSUME TypeOK, NEW p \in Process, Declare(p)
  PROVE  /\ Looks(p) /\ op[p].stage = "declare" /\ op'[p].finding = op[p].finding
         /\ op'[p].next = op[p].next /\ op'[p].slots = op[p].slots /\ op'[p].prior = op[p].prior
         /\ \/ op'[p].stage = "derive" /\ \A s \in Slot : op'[p].file[s] = Silent
            \/ op'[p].stage = "list"
<1> DEFINE stage == IF \A s \in Slot : tree.file[s] = Silent THEN "derive" ELSE "list"
<1>1. stage \in Stages /\ tree.file \in Files /\ tree.touched \in Counts
  BY DEF Stages, TypeOK
<1>2. \/ stage = "derive" /\ \A s \in Slot : tree.file[s] = Silent
      \/ stage = "list"
  OBVIOUS
<1>3. /\ op' = [op EXCEPT ![p].file = tree.file, ![p].touched = tree.touched, ![p].stage = stage]
      /\ op \in [Process -> Operation] /\ op[p].derived \in Nat /\ op[p].stage = "declare"
  BY OpParts DEF Declare, At, TypeOK
<1> HIDE DEF stage
<1>4. Moved(p)
  <2> DEFINE file == tree.file  touched == tree.touched
             first == [op EXCEPT ![p].file = file, ![p].touched = touched]
  <2>1. file \in Files /\ touched \in Counts
    BY <1>1
  <2>2. op' = [first EXCEPT ![p].stage = stage]
    BY <1>3, Zenon
  <2> HIDE DEF file, touched
  <2>3. first \in [Process -> Operation] /\ \A q \in Process \ {p} : first[q] = op[q]
    BY <1>3, <2>1 DEF Operation
  <2> HIDE DEF first
  <2> QED BY <1>1, <2>2, <2>3 DEF Moved, Operation
<1>5. /\ op'[p].now = op[p].now /\ op'[p].next = op[p].next /\ op'[p].stage = stage
      /\ op'[p].slots = op[p].slots /\ op'[p].file = tree.file /\ op'[p].prior = op[p].prior
      /\ op'[p].finding = op[p].finding /\ op'[p].derived = op[p].derived
  BY <1>3 DEF Operation
<1>6. tree' = tree /\ events' = events /\ clock' = clock /\ log' = log /\ lone' = lone
  BY DEF Declare, Reads
<1> QED BY <1>2, <1>3, <1>4, <1>5, <1>6 DEF Looks, TypeOK, Moved

\* A set of numbers has a least one.
LEMMA LeastOf ==
  ASSUME NEW S, S \subseteq Nat, S # {}
  PROVE  \E m \in S : \A k \in S : m <= k
<1>1. PICK m \in S : \A k \in S : ~ (<<k, m>> \in OpToRel(<, Nat))
  BY NatLessThanWellFounded, WFMin, Zenon
<1>2. \A k \in S : ~ (k < m)
  BY <1>1, Zenon DEF OpToRel
<1> QED BY <1>2

\* A bounded set of numbers has a greatest one.
LEMMA MaxOf ==
  ASSUME NEW n \in Nat, NEW S, S \subseteq 1 .. n, S # {}
  PROVE  Max(S) \in S /\ \A y \in S : Max(S) >= y
<1> DEFINE U == {u \in Nat : \A y \in S : y <= u}
<1>1. PICK u \in U : \A v \in U : u <= v
  <2>1. n \in U
    OBVIOUS
  <2> QED BY <2>1, LeastOf
<1>2. u \in S
  <2> SUFFICES ASSUME u \notin S PROVE FALSE
    OBVIOUS
  <2>1. u \in Nat /\ u # 0
    <3>1. PICK y \in S : y <= u
      BY <1>1
    <3> QED BY <3>1, <1>1
  <2>2. u - 1 \in U
    BY <1>1, <2>1
  <2> QED BY <1>1, <2>1, <2>2
<1>3. \A y \in S : u >= y
  BY <1>1
<1> QED BY <1>2, <1>3 DEF Max

\* The last appended statement of a set.
LEMMA LastOf ==
  ASSUME NEW n \in Nat, NEW S, S \subseteq 1 .. n
  PROVE  /\ LastAppended(S) = None <=> S = {}
         /\ S # {} => LastAppended(S) \in S
         /\ LastAppended(S) \in 0..n
         /\ \A y \in S : y <= LastAppended(S)
<1>1. CASE S = {}
  BY <1>1 DEF LastAppended, None
<1>2. CASE S # {}
  <2>1. Max(S) \in S /\ \A y \in S : Max(S) >= y
    BY <1>2, MaxOf
  <2>2. LastAppended(S) = Max(S)
    BY <1>2 DEF LastAppended
  <2>3. PICK m : m = Max(S)
    OBVIOUS
  <2>4. m \in 1 .. n /\ \A y \in S : y \in 1 .. n /\ m >= y
    BY <2>1, <2>3
  <2>5. m # 0 /\ m \in 0 .. n /\ \A y \in S : y <= m
    BY <2>4
  <2> QED BY <1>2, <2>1, <2>2, <2>3, <2>5 DEF None
<1> QED BY <1>1, <1>2

\* ListBodies reads the last body of each slot.
LEMMA ListDoes ==
  ASSUME TypeOK, NEW p \in Process, ListBodies(p)
  PROVE  /\ Looks(p) /\ op[p].stage = "list" /\ op'[p].stage = "artifact"
         /\ op'[p].finding = op[p].finding /\ op'[p].next = op[p].next /\ op'[p].file = op[p].file
         /\ \A s \in Slot : op'[p].prior[s] = LastAppended(Bodies(s))
         /\ \A s \in Slot : s \in op'[p].slots <=>
              op[p].file[s] \in Body /\ ~Unchanged(p, s, LastAppended(Bodies(s)))
<1> DEFINE last == [s \in Slot |-> LastAppended(Bodies(s))]
           new == {s \in Slot : op[p].file[s] \in Body /\ ~Unchanged(p, s, last[s])}
<1>1. /\ op' = [op EXCEPT ![p].stage = "artifact", ![p].prior = last, ![p].slots = new]
      /\ op \in [Process -> Operation] /\ op[p].derived \in Nat /\ op[p].stage = "list"
      /\ tree' = tree /\ events' = events /\ clock' = clock /\ log' = log /\ lone' = lone
  BY OpParts DEF ListBodies, At, Reads, TypeOK
<1>2. "artifact" \in Stages /\ new \in SUBSET Slot
  BY DEF Stages
<1>3. last \in Counts
  <2> SUFFICES ASSUME NEW s \in Slot PROVE LastAppended(Bodies(s)) \in Nat
    BY DEF Counts
  <2>1. Len(log) \in Nat /\ Bodies(s) \subseteq 1..Len(log)
    BY Length DEF TypeOK, Bodies, Of
  <2>2. LastAppended(Bodies(s)) \in 0..Len(log)
    BY <2>1, LastOf
  <2> QED BY <2>1, <2>2
<1>4. /\ \A s \in Slot : last[s] = LastAppended(Bodies(s))
      /\ \A s \in Slot : s \in new <=>
           op[p].file[s] \in Body /\ ~Unchanged(p, s, LastAppended(Bodies(s)))
  OBVIOUS
<1> HIDE DEF last, new
<1>5. Moved(p)
  <2> DEFINE first == [op EXCEPT ![p].stage = "artifact", ![p].prior = last]
  <2>1. op' = [first EXCEPT ![p].slots = new]
    BY <1>1, Zenon
  <2>2. first \in [Process -> Operation] /\ \A q \in Process \ {p} : first[q] = op[q]
    BY <1>1, <1>2, <1>3 DEF Operation
  <2> HIDE DEF first
  <2> QED BY <1>2, <2>1, <2>2 DEF Moved, Operation
<1>6. /\ op'[p].now = op[p].now /\ op'[p].next = op[p].next /\ op'[p].stage = "artifact"
      /\ op'[p].slots = new /\ op'[p].file = op[p].file /\ op'[p].prior = last
      /\ op'[p].finding = op[p].finding /\ op'[p].derived = op[p].derived
  BY <1>1 DEF Operation
<1>7. Looks(p)
  BY <1>1, <1>5, <1>6 DEF Looks, TypeOK, Moved
<1> QED BY <1>1, <1>4, <1>6, <1>7

\* Observe goes to sign, unless the last observation says the same.
LEMMA ObserveDoes ==
  ASSUME TypeOK, NEW p \in Process, Observe(p)
  PROVE  /\ Looks(p) /\ op[p].stage = "artifact" /\ op[p].slots = {}
         /\ op'[p].finding = op[p].finding /\ op'[p].next = op[p].next /\ op'[p].file = op[p].file
         /\ op'[p].slots = op[p].slots /\ op'[p].prior = op[p].prior
         /\ \/ op'[p].stage = "observation"
            \/ LET i == LastAppended(Of("observation")) IN
               op'[p].stage = "derive" /\ i # None /\ Said(i).saw = op[p].file
<1> DEFINE i == LastAppended(Of("observation"))
           repeats == i # None /\ Said(i).saw = op[p].file
           stage == IF repeats THEN "derive" ELSE "observation"
<1>1. /\ op[p].stage = "artifact" /\ op[p].slots = {} /\ Moves(p, stage)
      /\ op \in [Process -> Operation] /\ op[p].derived \in Nat
      /\ tree' = tree /\ events' = events /\ clock' = clock /\ log' = log /\ lone' = lone
  BY OpParts DEF Observe, At, Reads, TypeOK
<1>2. stage \in Stages /\ (stage = "observation" \/ (stage = "derive" /\ repeats))
  BY DEF Stages
<1> HIDE DEF stage
<1>3. /\ Moved(p) /\ op'[p].now = op[p].now /\ op'[p].derived = op[p].derived
      /\ op'[p].next = op[p].next /\ op'[p].stage = stage
      /\ op'[p].slots = op[p].slots /\ op'[p].file = op[p].file /\ op'[p].prior = op[p].prior
      /\ op'[p].finding = op[p].finding
  BY <1>1, <1>2, MovesDoes
<1>4. Looks(p)
  BY <1>1, <1>3 DEF Looks, TypeOK, Moved
<1> QED BY <1>1, <1>2, <1>3, <1>4

\* DeriveModel reads the whole ledger.
LEMMA DeriveDoes ==
  ASSUME TypeOK, NEW p \in Process, DeriveModel(p)
  PROVE  /\ Looks(p) /\ op[p].stage = "derive" /\ op'[p].stage = "record" /\ op'[p].derived = Len(log)
         /\ op'[p].finding = op[p].finding /\ op'[p].next = op[p].next /\ op'[p].file = op[p].file
         /\ op'[p].slots = op[p].slots /\ op'[p].prior = op[p].prior
<1>1. /\ op' = [op EXCEPT ![p].stage = "record", ![p].derived = Len(log)]
      /\ op \in [Process -> Operation] /\ op[p].stage = "derive"
      /\ tree' = tree /\ events' = events /\ clock' = clock /\ log' = log /\ lone' = lone
  BY DEF DeriveModel, At, Reads, TypeOK
<1>2. "record" \in Stages /\ Len(log) \in Nat
  BY Length DEF Stages, TypeOK
<1>3. Moved(p)
  BY <1>1, <1>2 DEF Moved, Operation
<1>4. /\ op'[p].now = op[p].now /\ op'[p].next = op[p].next /\ op'[p].stage = "record"
      /\ op'[p].slots = op[p].slots /\ op'[p].file = op[p].file /\ op'[p].prior = op[p].prior
      /\ op'[p].finding = op[p].finding /\ op'[p].derived = Len(log)
  BY <1>1 DEF Operation
<1>5. Looks(p)
  BY <1>1, <1>2, <1>3, <1>4 DEF Looks, TypeOK, Moved
<1> QED BY <1>1, <1>4, <1>5

-----------------------------------------------------------------------------
(* Operations that begin, and those that end. *)

\* An idle process has nothing to do and read nothing.
LEMMA IdleIs ==
  /\ Idle \in Operation /\ Idle.stage = "off" /\ Idle.next = 1 /\ Idle.slots = {}
  /\ \A s \in Slot : Idle.prior[s] = 0 /\ Idle.prior[s] = None
BY DEF Idle, Operation, Counts, Stages, Findings, Files, None

Stopped(p) ==
  /\ Moved(p) /\ op'[p] = Idle /\ op[p].stage # "off" /\ lone' = lone \ {p} /\ clock' = clock
  /\ DropKeys(p)

\* An operation that ends leaves an idle process.
LEMMA EndsDoes ==
  ASSUME TypeOK, NEW p \in Process, Ends(p)
  PROVE  /\ Moved(p) /\ op'[p] = Idle /\ lone' = lone \ {p} /\ lone' \in SUBSET Process
         /\ DropKeys(p)
BY IdleIs DEF Ends, TypeOK, Moved

\* And so does one that is stopped.
LEMMA StopDoes ==
  ASSUME TypeOK, NEW p \in Process, Stop(p)
  PROVE  Stopped(p) /\ TypeOK' /\ log' = log
<1>1. op[p].stage # "off" /\ Ends(p) /\ events' = events + 1 /\ tree' = tree /\ clock' = clock /\ log' = log
  BY DEF Stop, Event, At
<1>2. /\ Moved(p) /\ op'[p] = Idle /\ lone' = lone \ {p} /\ lone' \in SUBSET Process /\ DropKeys(p)
  BY <1>1, EndsDoes
<1> QED BY <1>1, <1>2 DEF TypeOK, Stopped, Moved

\* An operation that begins is at its stage, at a new instant, and has not looked yet.
Begun(p) ==
  /\ Moved(p) /\ op[p].stage = "off" /\ clock' = clock + 1 /\ op'[p].now = clock'
  /\ lone' = (IF Active = {} THEN {p} ELSE {}) /\ log' = log
  /\ TypeOK' /\ private' = private /\ public' = public /\ keyStep' = keyStep /\ held' = held

\* An operation reads an instant of its own.
LEMMA BeginsDoes ==
  ASSUME TypeOK, NEW p \in Process, Begins(p)
  PROVE  /\ op[p].stage = "off" /\ clock' = clock + 1 /\ clock' \in Nat
         /\ lone' = (IF Active = {} THEN {p} ELSE {}) /\ lone' \in SUBSET Process
         /\ log' = log /\ tree' = tree /\ events' = events
         /\ private' = private /\ public' = public /\ keyStep' = keyStep /\ held' = held
BY DEF Begins, TypeOK, keyVars

\* Start: nothing but the instant is read.
LEMMA StartDoes ==
  ASSUME TypeOK, NEW p \in Process, op[p] = Idle, Start(p)
  PROVE  /\ Begun(p) /\ op'[p].stage = "collect" /\ op'[p].next = 1 /\ op'[p].slots = {}
         /\ op'[p].prior = op[p].prior
<1>1. /\ op[p].stage = "off" /\ clock' = clock + 1 /\ clock' \in Nat
      /\ lone' = (IF Active = {} THEN {p} ELSE {}) /\ lone' \in SUBSET Process
      /\ log' = log /\ tree' = tree /\ events' = events
      /\ private' = private /\ public' = public /\ keyStep' = keyStep /\ held' = held
  BY BeginsDoes DEF Start
<1>2. PICK now : now = clock'
  OBVIOUS
<1>3. op' = [op EXCEPT ![p].stage = "collect", ![p].now = now] /\ op \in [Process -> Operation]
  BY <1>2 DEF Start, TypeOK
<1>4. "collect" \in Stages /\ now \in Nat
  BY <1>1, <1>2 DEF Stages
<1>5. Moved(p)
  BY <1>3, <1>4 DEF Moved, Operation
<1>6. /\ op'[p].now = now /\ op'[p].stage = "collect" /\ op'[p].next = op[p].next
      /\ op'[p].slots = op[p].slots /\ op'[p].prior = op[p].prior
  BY <1>3 DEF Operation
<1>7. op[p].next = 1 /\ op[p].slots = {}
  BY IdleIs
<1> QED BY <1>1, <1>2, <1>5, <1>6, <1>7 DEF Begun, TypeOK, Moved

\* Approve: nor is anything else read here.
LEMMA ApproveDoes ==
  ASSUME TypeOK, NEW p \in Process, op[p] = Idle, Approve(p)
  PROVE  /\ Begun(p) /\ op'[p].stage = "scope" /\ op'[p].next = 1 /\ op'[p].slots = {}
         /\ op'[p].prior = op[p].prior
<1>1. /\ op[p].stage = "off" /\ clock' = clock + 1 /\ clock' \in Nat
      /\ lone' = (IF Active = {} THEN {p} ELSE {}) /\ lone' \in SUBSET Process
      /\ log' = log /\ tree' = tree /\ events' = events
      /\ private' = private /\ public' = public /\ keyStep' = keyStep /\ held' = held
  BY BeginsDoes DEF Approve
<1>2. PICK now : now = clock'
  OBVIOUS
<1>3. op' = [op EXCEPT ![p].stage = "scope", ![p].now = now] /\ op \in [Process -> Operation]
  BY <1>2 DEF Approve, TypeOK
<1>4. "scope" \in Stages /\ now \in Nat
  BY <1>1, <1>2 DEF Stages
<1>5. Moved(p)
  BY <1>3, <1>4 DEF Moved, Operation
<1>6. /\ op'[p].now = now /\ op'[p].stage = "scope" /\ op'[p].next = op[p].next
      /\ op'[p].slots = op[p].slots /\ op'[p].prior = op[p].prior
  BY <1>3 DEF Operation
<1>7. op[p].next = 1 /\ op[p].slots = {}
  BY IdleIs
<1> QED BY <1>1, <1>2, <1>5, <1>6, <1>7 DEF Begun, TypeOK, Moved

\* Look: the last body of one slot is read.
LEMMA LookDoes ==
  ASSUME TypeOK, NEW p \in Process, op[p] = Idle, Look(p)
  PROVE  /\ Begun(p) /\ op'[p].stage = "revise" /\ op'[p].next = 1
         /\ \E s \in Slot :
              /\ op'[p].slots = {s} /\ op'[p].file[s] \in Body
              /\ op'[p].prior[s] = LastAppended(Bodies(s))
              /\ \A t \in Slot \ {s} : op'[p].prior[t] = None
<1>1. /\ op[p].stage = "off" /\ clock' = clock + 1 /\ clock' \in Nat
      /\ lone' = (IF Active = {} THEN {p} ELSE {}) /\ lone' \in SUBSET Process
      /\ log' = log /\ tree' = tree /\ events' = events
      /\ private' = private /\ public' = public /\ keyStep' = keyStep /\ held' = held
  BY BeginsDoes DEF Look
<1>2. PICK now : now = clock'
  OBVIOUS
<1>3. PICK s \in Slot, b \in Body :
        op' = [op EXCEPT ![p].stage = "revise", ![p].now = now, ![p].slots = {s},
                         ![p].file = [op[p].file EXCEPT ![s] = b],
                         ![p].prior = [op[p].prior EXCEPT ![s] = LastAppended(Bodies(s))]]
  BY <1>2 DEF Look
<1>4. PICK last : last = LastAppended(Bodies(s))
  OBVIOUS
<1>5. last \in Nat
  <2>1. Len(log) \in Nat /\ Bodies(s) \subseteq 1..Len(log)
    BY Length DEF TypeOK, Bodies, Of
  <2>2. LastAppended(Bodies(s)) \in 0..Len(log)
    BY <2>1, LastOf
  <2> QED BY <1>4, <2>1, <2>2
<1>6. PICK file, prior, slots : /\ file = [op[p].file EXCEPT ![s] = b] /\ slots = {s}
                                /\ prior = [op[p].prior EXCEPT ![s] = last]
  OBVIOUS
<1>7. /\ file \in Files /\ file[s] = b
      /\ prior \in Counts /\ prior[s] = last /\ \A t \in Slot \ {s} : prior[t] = None
  <2>1. /\ op[p].file \in Files /\ op[p].prior \in Counts
        /\ \A t \in Slot : op[p].prior[t] = None
    BY OpParts, IdleIs DEF TypeOK, Files, Counts
  <2> QED BY <1>5, <1>6, <2>1 DEF Files, Counts
<1>8. /\ "revise" \in Stages /\ now \in Nat /\ slots \in SUBSET Slot /\ op \in [Process -> Operation]
  BY <1>1, <1>2, <1>6 DEF Stages, TypeOK
<1>9. /\ Moved(p) /\ op'[p].now = now /\ op'[p].stage = "revise" /\ op'[p].next = op[p].next
      /\ op'[p].slots = slots /\ op'[p].prior = prior /\ op'[p].file = file
  <2>0. file \in Files /\ prior \in Counts /\ slots \in SUBSET Slot /\ "revise" \in Stages /\ now \in Nat
    BY <1>7, <1>8
  <2> DEFINE first == [op EXCEPT ![p].stage = "revise", ![p].now = now]
             second == [first EXCEPT ![p].slots = slots, ![p].file = file]
  <2>1. op' = [second EXCEPT ![p].prior = prior]
    BY <1>3, <1>4, <1>6, Zenon
  <2>2. /\ first \in [Process -> Operation] /\ \A q \in Process \ {p} : first[q] = op[q]
        /\ first[p].stage = "revise" /\ first[p].now = now /\ first[p].next = op[p].next
    BY <2>0, <1>8 DEF Operation
  <2> HIDE DEF first
  <2>3. /\ second \in [Process -> Operation] /\ \A q \in Process \ {p} : second[q] = op[q]
        /\ second[p].stage = "revise" /\ second[p].now = now /\ second[p].next = op[p].next
        /\ second[p].slots = slots /\ second[p].file = file
    BY <2>0, <2>2 DEF Operation
  <2> HIDE DEF second
  <2>4. Moved(p)
    BY <2>0, <2>1, <2>3 DEF Moved, Operation
  <2> QED BY <2>0, <2>1, <2>3, <2>4 DEF Operation
<1>10. op[p].next = 1
  BY IdleIs
<1>11. Begun(p)
  BY <1>1, <1>2, <1>9 DEF Begun, TypeOK, Moved
<1> QED BY <1>4, <1>6, <1>7, <1>9, <1>10, <1>11

-----------------------------------------------------------------------------
(* Operations that say something. *)

\* ... and go on: what they keep.
Spoken(p) ==
  /\ Moved(p) /\ TypeOK' /\ clock' = clock /\ lone' = lone
  /\ op'[p].now = op[p].now /\ op'[p].finding = op[p].finding /\ op'[p].file = op[p].file
  /\ op'[p].prior = op[p].prior
  /\ private' = private /\ public' = public /\ keyStep' = keyStep /\ held' = held

BundleSaid(p) == [recipe |-> Recipes[op[p].next], finding |-> op[p].finding[Recipes[op[p].next]]]

\* SignBundle says the finding of the recipe the loop is at.
LEMMA SignBundleDoes ==
  ASSUME TypeOK, KeysInv, NEW p \in Process, StagedAt(p), SignBundle(p)
  PROVE  /\ Says(p, "evidence", BundleSaid(p)) /\ Spoken(p) /\ op[p].stage = "evidence"
         /\ held[p] # NoKey
         /\ op'[p].slots = op[p].slots /\ op'[p].next = op[p].next + 1
         /\ op'[p].stage = IF op[p].next < Len(Recipes) THEN "compare" ELSE "declare"
<1>1. /\ op[p].stage = "evidence" /\ Records(p, "evidence", BundleSaid(p)) /\ held[p] # NoKey
      /\ Advances(p) /\ lone' = lone
      /\ private' = private /\ public' = public /\ keyStep' = keyStep /\ held' = held
  BY DEF SignBundle, At, BundleSaid, Records, keyVars
<1>2. BundleSaid(p) \in EvidenceSaid
  <2>1. op[p].next \in 1..Len(Recipes)
    BY <1>1 DEF StagedAt, Comparing
  <2>2. Recipes[op[p].next] \in Recipe
    BY <2>1, RecipeAt
  <2>3. op[p].finding[Recipes[op[p].next]] \in Finding
    BY <1>1, <2>2, OpParts DEF StagedAt, TypeOK
  <2> QED BY <2>2, <2>3 DEF BundleSaid, EvidenceSaid
<1>3. \A at \in Nat, key \in Process :
        [kind |-> "evidence", payload |-> BundleSaid(p), at |-> at, by |-> p, key |-> key, lone |-> lone] \in Statement
  BY <1>2 DEF Statement, Signed, TypeOK
<1>4. Says(p, "evidence", BundleSaid(p)) /\ tree' = tree /\ events' = events /\ clock' = clock
  BY <1>1, <1>3, SaysWhat
<1>5. /\ Moved(p) /\ op'[p].now = op[p].now
      /\ op'[p].next = op[p].next + 1
      /\ op'[p].stage = IF op[p].next < Len(Recipes) THEN "compare" ELSE "declare"
      /\ op'[p].slots = op[p].slots /\ op'[p].file = op[p].file /\ op'[p].prior = op[p].prior
      /\ op'[p].finding = op[p].finding
  BY <1>1, AdvancesDoes DEF TypeOK
<1>6. TypeOK'
  BY <1>1, <1>4, <1>5 DEF TypeOK, Says, Moved
<1> QED BY <1>1, <1>4, <1>5, <1>6 DEF Spoken

SlotSaid(p, s, commit) ==
  [slot |-> s, body |-> op[p].file[s], touched |-> commit,
   supersedes |-> Revised(op[p].file[s], op[p].prior[s])]

\* A revision names the bytes of the last body read, never its own.
LEMMA RevisedIs ==
  ASSUME TypeOK, NEW p \in Process, PriorAt(p), NEW s \in Slot, NEW body \in Body
  PROVE  /\ Revised(body, op[p].prior[s]) \in Body \cup {Silent}
         /\ Revised(body, op[p].prior[s]) # body
         /\ Revised(body, op[p].prior[s]) \in Body =>
              op[p].prior[s] # None /\ Revised(body, op[p].prior[s]) = Said(op[p].prior[s]).body
<1>1. Silent \notin Body
  BY ScanAssumption
<1>2. CASE op[p].prior[s] # None /\ Said(op[p].prior[s]).body # body
  <2>1. op[p].prior[s] \in DOMAIN log /\ log[op[p].prior[s]].kind = "artifact"
    BY <1>2, Length DEF PriorAt, BodyOf, TypeOK
  <2>2. Said(op[p].prior[s]).body \in Body
    BY <2>1, Parts DEF TypeOK, BodySaid
  <2> QED BY <1>2, <2>2 DEF Revised
<1>3. CASE ~(op[p].prior[s] # None /\ Said(op[p].prior[s]).body # body)
  BY <1>1, <1>3 DEF Revised
<1> QED BY <1>2, <1>3

\* What a body says.
LEMMA BodyDoes ==
  ASSUME TypeOK, KeysInv, NEW p \in Process, StagedAt(p), PriorAt(p), NEW s \in op[p].slots,
         NEW commit \in Nat \cup {ByHand}, RecordBody(p, s, commit)
  PROVE  /\ Says(p, "artifact", SlotSaid(p, s, commit)) /\ held[p] # NoKey
         /\ tree' = tree /\ events' = events /\ clock' = clock
         /\ SlotSaid(p, s, commit).supersedes # SlotSaid(p, s, commit).body
<1>1. Records(p, "artifact", SlotSaid(p, s, commit)) /\ held[p] # NoKey
  BY DEF RecordBody, SlotSaid, Records
<1>2. s \in Slot /\ op[p].file[s] \in Body
  BY OpParts DEF TypeOK, StagedAt
<1>3. /\ Revised(op[p].file[s], op[p].prior[s]) \in Body \cup {Silent}
      /\ Revised(op[p].file[s], op[p].prior[s]) # op[p].file[s]
  BY <1>2, RevisedIs
<1>4. SlotSaid(p, s, commit) \in BodySaid
  BY <1>2, <1>3 DEF SlotSaid, BodySaid
<1>5. \A at \in Nat, key \in Process :
        [kind |-> "artifact", payload |-> SlotSaid(p, s, commit), at |-> at, by |-> p, key |-> key, lone |-> lone] \in Statement
  BY <1>4 DEF Statement, Signed, TypeOK
<1>6. Says(p, "artifact", SlotSaid(p, s, commit)) /\ tree' = tree /\ events' = events /\ clock' = clock
  BY <1>1, <1>5, SaysWhat
<1> QED BY <1>1, <1>3, <1>6 DEF SlotSaid

\* SignBody says one of the slots left.
LEMMA SignBodyDoes ==
  ASSUME TypeOK, KeysInv, NEW p \in Process, StagedAt(p), PriorAt(p), SignBody(p)
  PROVE  /\ Spoken(p) /\ op[p].stage = "artifact" /\ op'[p].stage = op[p].stage
         /\ op'[p].next = op[p].next /\ held[p] # NoKey
         /\ \E s \in op[p].slots, commit \in Nat :
              /\ Says(p, "artifact", SlotSaid(p, s, commit))
              /\ SlotSaid(p, s, commit).supersedes # SlotSaid(p, s, commit).body
              /\ op'[p].slots = op[p].slots \ {s}
<1>1. PICK s \in op[p].slots :
        /\ RecordBody(p, s, op[p].touched[s])
        /\ op' = [op EXCEPT ![p].slots = @ \ {s}]
  BY DEF SignBody
<1>2. /\ op[p].stage = "artifact" /\ lone' = lone
      /\ private' = private /\ public' = public /\ keyStep' = keyStep /\ held' = held
  BY DEF SignBody, At, keyVars
<1>3. PICK commit : commit = op[p].touched[s]
  OBVIOUS
<1>4. commit \in Nat /\ op[p].slots \in SUBSET Slot
  BY <1>3, OpParts DEF TypeOK
<1>5. /\ Says(p, "artifact", SlotSaid(p, s, commit)) /\ held[p] # NoKey
      /\ tree' = tree /\ events' = events /\ clock' = clock
      /\ SlotSaid(p, s, commit).supersedes # SlotSaid(p, s, commit).body
  BY <1>1, <1>3, <1>4, BodyDoes
<1>6. PICK left : left = op[p].slots \ {s}
  OBVIOUS
<1>7. left \in SUBSET Slot /\ op \in [Process -> Operation]
  BY <1>4, <1>6 DEF TypeOK
<1>8. op' = [op EXCEPT ![p].slots = left]
  BY <1>1, <1>6, Zenon
<1>9. Moved(p)
  BY <1>7, <1>8 DEF Moved, Operation
<1>10. /\ op'[p].now = op[p].now /\ op'[p].next = op[p].next /\ op'[p].stage = op[p].stage
       /\ op'[p].slots = left /\ op'[p].file = op[p].file /\ op'[p].prior = op[p].prior
       /\ op'[p].finding = op[p].finding
  BY <1>7, <1>8 DEF Operation
<1>11. Spoken(p)
  BY <1>2, <1>5, <1>9, <1>10 DEF Spoken, Says, TypeOK, Moved
<1> QED BY <1>2, <1>4, <1>5, <1>6, <1>10, <1>11

\* SignObservation says what was seen of every slot.
LEMMA SignObservationDoes ==
  ASSUME TypeOK, KeysInv, NEW p \in Process, SignObservation(p)
  PROVE  /\ Says(p, "observation", [saw |-> op[p].file]) /\ Spoken(p)
         /\ op[p].stage = "observation" /\ op'[p].stage = "derive" /\ held[p] # NoKey
         /\ op'[p].next = op[p].next /\ op'[p].slots = op[p].slots
<1>1. /\ op[p].stage = "observation" /\ Records(p, "observation", [saw |-> op[p].file])
      /\ Moves(p, "derive") /\ lone' = lone /\ op \in [Process -> Operation] /\ held[p] # NoKey
      /\ private' = private /\ public' = public /\ keyStep' = keyStep /\ held' = held
  BY DEF SignObservation, At, Records, keyVars, TypeOK
<1>2. [saw |-> op[p].file] \in ObservationSaid
  BY OpParts DEF TypeOK, ObservationSaid, Files
<1>3. \A at \in Nat, key \in Process :
        [kind |-> "observation", payload |-> [saw |-> op[p].file], at |-> at, by |-> p, key |-> key, lone |-> lone] \in Statement
  BY <1>2 DEF Statement, Signed, TypeOK
<1>4. Says(p, "observation", [saw |-> op[p].file]) /\ tree' = tree /\ events' = events /\ clock' = clock
  BY <1>1, <1>3, SaysWhat
<1>5. /\ Moved(p) /\ op'[p].now = op[p].now /\ op'[p].next = op[p].next /\ op'[p].stage = "derive"
      /\ op'[p].slots = op[p].slots /\ op'[p].file = op[p].file /\ op'[p].prior = op[p].prior
      /\ op'[p].finding = op[p].finding
  <2>1. "derive" \in Stages
    BY DEF Stages
  <2> QED BY <1>1, <2>1, MovesDoes
<1>6. Spoken(p)
  BY <1>1, <1>4, <1>5 DEF Spoken, Says, TypeOK, Moved
<1> QED BY <1>1, <1>4, <1>5, <1>6

RunOf(p) == [finding |-> op[p].finding, saw |-> op[p].file, derived |-> op[p].derived]

\* RecordRun says what the scan found and saw, and ends it.
LEMMA RecordRunDoes ==
  ASSUME TypeOK, KeysInv, NEW p \in Process, RecordRun(p)
  PROVE  /\ Says(p, "run", RunOf(p)) /\ Stopped(p) /\ TypeOK'
         /\ op[p].stage = "record" /\ held[p] # NoKey
<1>1. /\ op[p].stage = "record" /\ Records(p, "run", RunOf(p)) /\ Ends(p) /\ held[p] # NoKey
  BY DEF RecordRun, At, Records, RunOf, CollectorRuns, RunSubjects
<1>2. RunOf(p) \in RunSaid
  BY OpParts DEF TypeOK, RunSaid, RunOf, Files, Findings
<1>3. \A at \in Nat, key \in Process :
        [kind |-> "run", payload |-> RunOf(p), at |-> at, by |-> p, key |-> key, lone |-> lone] \in Statement
  BY <1>2 DEF Statement, Signed, TypeOK
<1>4. Says(p, "run", RunOf(p)) /\ tree' = tree /\ events' = events /\ clock' = clock
  BY <1>1, <1>3, SaysWhat
<1>5. /\ Moved(p) /\ op'[p] = Idle /\ lone' = lone \ {p} /\ lone' \in SUBSET Process /\ DropKeys(p)
  BY <1>1, EndsDoes
<1>6. Stopped(p) /\ TypeOK'
  BY <1>1, <1>4, <1>5 DEF Stopped, Says, TypeOK, Moved
<1> QED BY <1>1, <1>4, <1>6

\* Revise says the body it was given, and ends.
LEMMA ReviseDoes ==
  ASSUME TypeOK, KeysInv, NEW p \in Process, StagedAt(p), PriorAt(p), Revise(p)
  PROVE  /\ Stopped(p) /\ TypeOK' /\ op[p].stage = "revise" /\ held[p] # NoKey
         /\ \E s \in op[p].slots :
              /\ Says(p, "artifact", SlotSaid(p, s, ByHand))
              /\ SlotSaid(p, s, ByHand).supersedes # SlotSaid(p, s, ByHand).body
<1>1. PICK s \in op[p].slots : RecordBody(p, s, ByHand)
  BY DEF Revise
<1>2. op[p].stage = "revise" /\ Ends(p)
  BY DEF Revise, At
<1>3. /\ Says(p, "artifact", SlotSaid(p, s, ByHand)) /\ held[p] # NoKey
      /\ tree' = tree /\ events' = events /\ clock' = clock
      /\ SlotSaid(p, s, ByHand).supersedes # SlotSaid(p, s, ByHand).body
  <2>1. ByHand \in Nat \cup {ByHand}
    OBVIOUS
  <2> QED BY <1>1, <2>1, BodyDoes
<1>4. /\ Moved(p) /\ op'[p] = Idle /\ lone' = lone \ {p} /\ lone' \in SUBSET Process /\ DropKeys(p)
  BY <1>2, EndsDoes
<1>5. Stopped(p) /\ TypeOK'
  BY <1>2, <1>3, <1>4 DEF Stopped, Says, TypeOK, Moved
<1> QED BY <1>2, <1>3, <1>5

\* ScopeOut says that a recipe does not apply, and ends.
LEMMA ScopeOutDoes ==
  ASSUME TypeOK, KeysInv, NEW p \in Process, ScopeOut(p)
  PROVE  /\ Stopped(p) /\ TypeOK' /\ op[p].stage = "scope" /\ held[p] # NoKey
         /\ \E r \in Recipe : Says(p, "scoping", [recipe |-> r])
<1>1. PICK r \in Recipe : Records(p, "scoping", [recipe |-> r])
  BY DEF ScopeOut
<1>2. op[p].stage = "scope" /\ Ends(p) /\ held[p] # NoKey
  BY <1>1 DEF ScopeOut, At, Records
<1>3. [recipe |-> r] \in ScopingSaid
  BY DEF ScopingSaid
<1>4. \A at \in Nat, key \in Process :
        [kind |-> "scoping", payload |-> [recipe |-> r], at |-> at, by |-> p, key |-> key, lone |-> lone] \in Statement
  BY <1>3 DEF Statement, Signed, TypeOK
<1>5. Says(p, "scoping", [recipe |-> r]) /\ tree' = tree /\ events' = events /\ clock' = clock
  BY <1>1, <1>4, SaysWhat
<1>6. /\ Moved(p) /\ op'[p] = Idle /\ lone' = lone \ {p} /\ lone' \in SUBSET Process /\ DropKeys(p)
  BY <1>2, EndsDoes
<1>7. Stopped(p) /\ TypeOK'
  BY <1>2, <1>5, <1>6 DEF Stopped, Says, TypeOK, Moved
<1> QED BY <1>2, <1>5, <1>7

-----------------------------------------------------------------------------
(* The inductive invariant: who runs when. *)

RestAt(p) == op[p].stage = "off" => op[p] = Idle
SoloAt(p) == p \in lone => Working(p) /\ \A q \in Process : Working(q) => q = p

\* Every operation has an instant of its own, and so has what it said.
TimedAt(p) ==
  Working(p) =>
    /\ 1 <= op[p].now /\ op[p].now <= clock
    /\ p \in lone => op[p].now = clock
    /\ \A q \in Process : Working(q) /\ op[q].now = op[p].now => q = p
    /\ \A i \in 1..Len(log) : log[i].at = op[p].now => log[i].by = p
Instants ==
  /\ \A i \in 1..Len(log) : log[i].at <= clock
  /\ \A i, j \in 1..Len(log) : log[i].at = log[j].at => log[i].by = log[j].by

Schedule == Instants /\ \A p \in Process : RestAt(p) /\ SoloAt(p) /\ TimedAt(p)

\* What is added to the log is of operation p.
Extended(p) ==
  /\ Len(log') \in Nat /\ Len(log) <= Len(log')
  /\ \A i \in 1..Len(log) : log'[i] = log[i]
  /\ \A i \in (Len(log) + 1)..Len(log') : log'[i].at = op[p].now /\ log'[i].by = p

\* Saying something does,
LEMMA SaysExtends ==
  ASSUME TypeOK, NEW p \in Process, NEW kind, NEW said, Says(p, kind, said)
  PROVE  Extended(p)
BY Length DEF Says, Extended, TypeOK

\* and saying nothing.
LEMMA SameExtends ==
  ASSUME TypeOK, NEW p \in Process, log' = log
  PROVE  Extended(p)
BY Length DEF Extended, TypeOK

\* Instants and places are numbers.
LEMMA Numbers ==
  ASSUME TypeOK
  PROVE  /\ Len(log) \in Nat /\ clock \in Nat /\ \A p \in Process : op[p].now \in Nat
         /\ \A i \in 1..Len(log) : log[i].at \in Nat
         /\ \A i \in 1..Len(log) : i \in DOMAIN log
BY OpParts, Parts, Length DEF TypeOK

\* A step in the middle of an operation leaves the schedule as it is.
LEMMA ScheduleOn ==
  ASSUME TypeOK, TypeOK', Schedule, NEW p \in Process, Moved(p), Extended(p), Working(p), op'[p].stage # "off",
         op'[p].now = op[p].now, clock' = clock, lone' = lone
  PROVE  Schedule'
<1>1. \A q \in Process : (op'[q].stage = "off" <=> op[q].stage = "off") /\ op'[q].now = op[q].now
  BY DEF Moved, Working
<1>2. \A q \in Process : RestAt(q)' /\ SoloAt(q)'
  BY <1>1 DEF Schedule, RestAt, SoloAt, Moved, Working
<1>3. /\ Len(log) \in Nat /\ clock \in Nat /\ \A q \in Process : op[q].now \in Nat
      /\ \A i \in 1..Len(log) : log[i].at \in Nat
  BY Numbers
<1>4. \A i \in 1..Len(log') : i \in 1..Len(log) \/ i \in (Len(log) + 1)..Len(log')
  BY <1>3 DEF Extended
<1>5. op[p].now <= clock /\ \A i \in 1..Len(log) : log[i].at = op[p].now => log[i].by = p
  BY DEF Schedule, TimedAt
<1>6. Instants'
  <2>1. \A i \in 1..Len(log') : log'[i].at <= clock
    BY <1>4, <1>5 DEF Schedule, Instants, Extended
  <2>2. ASSUME NEW i \in 1..Len(log'), NEW j \in 1..Len(log'), log'[i].at = log'[j].at
        PROVE  log'[i].by = log'[j].by
    BY <1>4, <1>5, <2>2 DEF Schedule, Instants, Extended
  <2> QED BY <2>1, <2>2 DEF Instants
<1>7. ASSUME NEW q \in Process, Working(q)'
      PROVE  /\ 1 <= op'[q].now /\ op'[q].now <= clock'
             /\ q \in lone' => op'[q].now = clock'
             /\ \A r \in Process : Working(r)' /\ op'[r].now = op'[q].now => r = q
             /\ \A i \in 1..Len(log') : log'[i].at = op'[q].now => log'[i].by = q
  <2>1. Working(q)
    BY <1>1, <1>7 DEF Working
  <2>2. TimedAt(q)
    BY DEF Schedule
  <2>3. \A i \in 1..Len(log') : log'[i].at = op'[q].now => log'[i].by = q
    <3> SUFFICES ASSUME NEW i \in 1..Len(log'), log'[i].at = op'[q].now PROVE log'[i].by = q
      OBVIOUS
    <3>1. CASE i \in 1..Len(log)
      BY <1>1, <2>1, <2>2, <3>1 DEF TimedAt, Extended
    <3>2. CASE i \in (Len(log) + 1)..Len(log')
      <4>1. log'[i].at = op[p].now /\ log'[i].by = p
        BY <3>2 DEF Extended
      <4>2. op[p].now = op[q].now
        BY <1>1, <4>1
      <4>3. p = q
        BY <2>1, <2>2, <4>2 DEF TimedAt
      <4> QED BY <4>1, <4>3
    <3> QED BY <1>4, <3>1, <3>2
  <2>4. \A r \in Process : Working(r)' /\ op'[r].now = op'[q].now => r = q
    BY <1>1, <2>1, <2>2 DEF TimedAt, Working
  <2> QED BY <1>1, <2>1, <2>2, <2>3, <2>4 DEF TimedAt
<1> QED BY <1>2, <1>6, <1>7 DEF Schedule, TimedAt

\* An operation that begins is alone if nobody runs, at an instant nobody had.
LEMMA ScheduleBegun ==
  ASSUME TypeOK, Schedule, NEW p \in Process, Begun(p), op'[p].stage # "off"
  PROVE  Schedule'
<1>1. /\ Len(log) \in Nat /\ clock \in Nat /\ \A q \in Process : op[q].now \in Nat
      /\ \A i \in 1..Len(log) : log[i].at \in Nat
  BY Numbers
<1>2. /\ clock' = clock + 1 /\ op'[p].now = clock + 1 /\ log' = log /\ op[p].stage = "off"
      /\ lone' = IF Active = {} THEN {p} ELSE {}
      /\ \A q \in Process \ {p} : op'[q] = op[q]
  BY DEF Begun, Moved
<1>3. Instants'
  BY <1>1, <1>2 DEF Schedule, Instants
<1>4. \A q \in Process : RestAt(q)' /\ SoloAt(q)'
  BY <1>2 DEF Schedule, RestAt, SoloAt, Working, Active
<1>5. ASSUME NEW q \in Process, Working(q)'
      PROVE  /\ 1 <= op'[q].now /\ op'[q].now <= clock'
             /\ q \in lone' => op'[q].now = clock'
             /\ \A r \in Process : Working(r)' /\ op'[r].now = op'[q].now => r = q
             /\ \A i \in 1..Len(log') : log'[i].at = op'[q].now => log'[i].by = q
  <2>1. CASE q = p
    <3>1. \A r \in Process \ {p} : op[r].stage # "off" => op[r].now <= clock
      BY DEF Schedule, TimedAt, Working
    <3>2. \A r \in Process : Working(r)' /\ op'[r].now = op'[q].now => r = q
      BY <1>1, <1>2, <2>1, <3>1 DEF Working
    <3>3. \A i \in 1..Len(log') : log'[i].at # op'[q].now
      BY <1>1, <1>2, <2>1 DEF Schedule, Instants
    <3> QED BY <1>1, <1>2, <2>1, <3>2, <3>3
  <2>2. CASE q # p
    <3>1. Working(q) /\ op'[q] = op[q] /\ TimedAt(q)
      BY <1>2, <1>5, <2>2 DEF Working, Schedule
    <3>2. q \notin lone'
      BY <1>2, <2>2
    <3>3. \A r \in Process : Working(r)' /\ op'[r].now = op'[q].now => r = q
      BY <1>1, <1>2, <3>1 DEF Working, TimedAt
    <3> QED BY <1>1, <1>2, <3>1, <3>2, <3>3 DEF TimedAt
  <2> QED BY <2>1, <2>2
<1> QED BY <1>3, <1>4, <1>5 DEF Schedule, TimedAt

\* An operation that ends leaves the others to themselves.
LEMMA ScheduleStopped ==
  ASSUME TypeOK, Schedule, NEW p \in Process, Stopped(p), Extended(p)
  PROVE  Schedule'
<1>1. /\ Len(log) \in Nat /\ clock \in Nat /\ \A q \in Process : op[q].now \in Nat
      /\ \A i \in 1..Len(log) : log[i].at \in Nat
  BY Numbers
<1>2. /\ clock' = clock /\ op'[p].stage = "off" /\ op'[p] = Idle /\ Working(p)
      /\ lone' = lone \ {p} /\ \A q \in Process \ {p} : op'[q] = op[q]
  BY IdleIs DEF Stopped, Moved, Working
<1>3. \A i \in 1..Len(log') : i \in 1..Len(log) \/ i \in (Len(log) + 1)..Len(log')
  BY <1>1 DEF Extended
<1>4. op[p].now <= clock /\ \A i \in 1..Len(log) : log[i].at = op[p].now => log[i].by = p
  BY <1>2 DEF Schedule, TimedAt
<1>5. Instants'
  <2>1. \A i \in 1..Len(log') : log'[i].at <= clock
    BY <1>3, <1>4 DEF Schedule, Instants, Extended
  <2>2. ASSUME NEW i \in 1..Len(log'), NEW j \in 1..Len(log'), log'[i].at = log'[j].at
        PROVE  log'[i].by = log'[j].by
    BY <1>3, <1>4, <2>2 DEF Schedule, Instants, Extended
  <2> QED BY <1>2, <2>1, <2>2 DEF Instants
<1>6. \A q \in Process : RestAt(q)' /\ SoloAt(q)'
  BY <1>2 DEF Schedule, RestAt, SoloAt, Working
<1>7. ASSUME NEW q \in Process, Working(q)'
      PROVE  /\ 1 <= op'[q].now /\ op'[q].now <= clock'
             /\ q \in lone' => op'[q].now = clock'
             /\ \A r \in Process : Working(r)' /\ op'[r].now = op'[q].now => r = q
             /\ \A i \in 1..Len(log') : log'[i].at = op'[q].now => log'[i].by = q
  <2>1. q # p /\ Working(q) /\ op'[q] = op[q] /\ TimedAt(q)
    BY <1>2, <1>7 DEF Working, Schedule
  <2>2. op[q].now # op[p].now
    BY <1>2, <2>1 DEF TimedAt
  <2>3. \A i \in 1..Len(log') : log'[i].at = op'[q].now => log'[i].by = q
    BY <1>3, <2>1, <2>2 DEF TimedAt, Extended
  <2>4. \A r \in Process : Working(r)' /\ op'[r].now = op'[q].now => r = q
    BY <1>2, <2>1 DEF Working, TimedAt
  <2> QED BY <1>2, <2>1, <2>3, <2>4 DEF TimedAt
<1> QED BY <1>5, <1>6, <1>7 DEF Schedule, TimedAt

-----------------------------------------------------------------------------
(* The inductive invariant: what an operation has recorded. *)

NewestBundle(i, r, n) ==
  BundleOf(i, r) /\ \A h \in 1..n : BundleOf(h, r) => h = i \/ Before(h, i)
NewestWord(i, r, n) ==
  WordOn(i, r) /\ \A h \in 1..n : WordOn(h, r) => h = i \/ Before(h, i)
Backs(j, r, finding, by, now, alone, n) ==
  /\ BundleOf(j, r) /\ Said(j).finding = finding[r]
  /\ ~Aged(j, by, now)
  /\ alone => NewestBundle(j, r, n)

\* The recipes behind it are backed by bundles, ...
BackedAt(p) ==
  \A k \in 1..(op[p].next - 1) : op[p].finding[Recipes[k]] # Skipped =>
    \E j \in 1..Len(log) :
      Backs(j, Recipes[k], op[p].finding, p, op[p].now, p \in lone, Len(log))

\* ... and the one that it is about to sign is news.
UnsaidAt(p) ==
  p \in lone /\ op[p].stage = "evidence" =>
    \A i \in 1..Len(log) :
      log[i].kind = "evidence" /\ NewestWord(i, Recipes[op[p].next], Len(log)) =>
        \/ Said(i).finding # op[p].finding[Recipes[op[p].next]]
        \/ Aged(i, p, op[p].now)

LastBody(m, s, n) == BodyOf(m, s) /\ \A i \in 1..n : BodyOf(i, s) => i <= m
LastObservation(m, n) == Observation(m) /\ \A i \in 1..n : Observation(i) => i <= m

\* The bodies it read are the last of their slots, those apart that it has
\* still to record, ...
Recording == {"artifact", "observation", "derive", "record"}
CoveredAt(p) ==
  p \in lone /\ op[p].stage \in Recording =>
    \A s \in Slot : s \notin op[p].slots /\ op[p].file[s] \in Body =>
      \E m \in 1..Len(log) : LastBody(m, s, Len(log)) /\ Said(m).body = op[p].file[s]

\* ... and the last observation says what it saw.
ObservedAt(p) ==
  p \in lone /\ op[p].stage \in {"derive", "record"} /\ (\E s \in Slot : op[p].file[s] # Silent) =>
    \E o \in 1..Len(log) : LastObservation(o, Len(log)) /\ Said(o).saw = op[p].file

\* One of the first n statements observes a body in the slot of body b, and no
\* observation lies between.
Answered(b, n) ==
  \E o \in 1..n : /\ Observation(o) /\ Said(o).saw[Said(b).slot] \in Body
                  /\ \A w \in 1..Len(log) : Observation(w) /\ o < w => b < w

\* What it said by now.
OwnAt(p) ==
  Working(p) => \A i \in 1..Len(log) : log[i].at = op[p].now =>
    /\ log[i].kind = "artifact" =>
         /\ op[p].stage \in Recording /\ Said(i).body = op[p].file[Said(i).slot]
         /\ op[p].stage \in {"derive", "record"} => Answered(i, Len(log))
    /\ log[i].kind = "observation" => op[p].stage \in {"derive", "record"}
    /\ log[i].kind # "run"
    /\ op[p].stage = "record" => i <= op[p].derived

Course(p) ==
  /\ StagedAt(p) /\ PriorAt(p) /\ BackedAt(p) /\ UnsaidAt(p)
  /\ CoveredAt(p) /\ ObservedAt(p) /\ OwnAt(p)

\* An answer stays one.
LEMMA AnsweredKept ==
  ASSUME TypeOK, NEW p \in Process, Extended(p), NEW b \in 1..Len(log), NEW n \in 0..Len(log), Answered(b, n),
         NEW m \in Nat, n <= m
  PROVE  Answered(b, m)'
<1>1. PICK o \in 1..n : /\ Observation(o) /\ Said(o).saw[Said(b).slot] \in Body
                        /\ \A w \in 1..Len(log) : Observation(w) /\ o < w => b < w
  BY DEF Answered
<1>2. Len(log) \in Nat
  BY Numbers
<1>3. log'[o] = log[o] /\ log'[b] = log[b] /\ o \in 1..m
  BY <1>2 DEF Extended
<1>4. ASSUME NEW w \in 1..Len(log'), Observation(w)', o < w PROVE b < w
  <2>1. CASE w \in 1..Len(log)
    BY <1>1, <1>4, <2>1 DEF Observation, Extended
  <2>2. CASE w \notin 1..Len(log)
    BY <1>2, <2>2 DEF Extended
  <2> QED BY <2>1, <2>2
<1>5. Observation(o)' /\ Said(o)'.saw[Said(b)'.slot] \in Body
  BY <1>1, <1>3 DEF Observation, Said
<1> QED BY <1>3, <1>4, <1>5 DEF Answered

\* Beside a step of p the course of another operation stays what it was.
LEMMA Others ==
  ASSUME TypeOK, Schedule, NEW p \in Process, Moved(p), Extended(p), NEW q \in Process \ {p}, Course(q),
         q \notin lone', Len(log') > Len(log) => Working(p)
  PROVE  Course(q)'
<1>1. op'[q] = op[q] /\ Len(log) \in Nat
  BY Numbers DEF Moved
<1>2. \A i \in 1..Len(log) : i \in 1..Len(log') /\ log'[i] = log[i]
  BY <1>1 DEF Extended
<1>3. StagedAt(q)'
  BY <1>1 DEF Course, StagedAt
<1>4. PriorAt(q)'
  BY <1>1, <1>2 DEF Course, PriorAt, BodyOf, Said
<1>5. UnsaidAt(q)' /\ CoveredAt(q)' /\ ObservedAt(q)'
  BY DEF UnsaidAt, CoveredAt, ObservedAt
<1>6. BackedAt(q)'
  <2> SUFFICES ASSUME NEW k \in 1..(op[q].next - 1), op[q].finding[Recipes[k]] # Skipped
               PROVE  \E j \in 1..Len(log') :
                        Backs(j, Recipes[k], op[q].finding, q, op[q].now, q \in lone, Len(log))'
    BY <1>1 DEF BackedAt, Backs, Aged
  <2>1. PICK j \in 1..Len(log) : Backs(j, Recipes[k], op[q].finding, q, op[q].now, q \in lone, Len(log))
    BY DEF Course, BackedAt
  <2>2. Backs(j, Recipes[k], op[q].finding, q, op[q].now, q \in lone, Len(log))'
    BY <1>1, <1>2, <2>1 DEF Backs, Aged, BundleOf, Said
  <2> QED BY <1>2, <2>2
<1>7. OwnAt(q)'
  <2> SUFFICES ASSUME Working(q)', NEW i \in 1..Len(log'), log'[i].at = op'[q].now
               PROVE  /\ log'[i].kind = "artifact" =>
                           /\ op'[q].stage \in Recording /\ Said(i)'.body = op'[q].file[Said(i)'.slot]
                           /\ op'[q].stage \in {"derive", "record"} => Answered(i, Len(log))'
                      /\ log'[i].kind = "observation" => op'[q].stage \in {"derive", "record"}
                      /\ log'[i].kind # "run"
                      /\ op'[q].stage = "record" => i <= op'[q].derived
    BY DEF OwnAt
  <2>1. Working(q) /\ OwnAt(q) /\ TimedAt(q)
    BY <1>1 DEF Working, Course, Schedule
  <2>2. i \in 1..Len(log)
    <3> SUFFICES ASSUME i \in (Len(log) + 1)..Len(log') PROVE FALSE
      BY <1>1 DEF Extended
    <3>1. Working(p) /\ op[p].now = op[q].now
      BY <1>1 DEF Extended
    <3> QED BY <2>1, <3>1 DEF TimedAt
  <2>3. log'[i] = log[i]
    BY <1>2, <2>2
  <2>4. Answered(i, Len(log)) => Answered(i, Len(log))'
    <3> SUFFICES ASSUME Answered(i, Len(log)) PROVE Answered(i, Len(log))'
      OBVIOUS
    <3>1. PICK n : n = Len(log)
      OBVIOUS
    <3>2. PICK m : m = Len(log')
      OBVIOUS
    <3>3. Answered(i, n) /\ n \in 0..Len(log) /\ m \in Nat /\ n <= m
      BY <1>1, <3>1, <3>2 DEF Extended
    <3>4. Answered(i, m)'
      BY <2>2, <3>3, AnsweredKept
    <3> QED BY <3>2, <3>4 DEF Answered
  <2> QED BY <1>1, <2>1, <2>2, <2>3, <2>4 DEF OwnAt, Said
<1> QED BY <1>3, <1>4, <1>5, <1>6, <1>7 DEF Course

-----------------------------------------------------------------------------
(* The latest of some statements. *)

\* There is a latest one: of the newest instant, the last appended.
LEMMA LatestIs ==
  ASSUME TypeOK, Instants, NEW S, S \subseteq 1..Len(log), S # {}
  PROVE  /\ Latest(S) \in S /\ Latest(S) # None
         /\ \A j \in S \ {Latest(S)} : Before(j, Latest(S))
         /\ \A m \in S : (\A j \in S \ {m} : Before(j, m)) => m = Latest(S)
<1>1. /\ Len(log) \in Nat /\ clock \in Nat
      /\ \A i \in S : log[i].at \in Nat /\ log[i].at <= clock /\ i \in Nat /\ i # 0
  <2>1. \A i \in S : i \in 1..Len(log)
    OBVIOUS
  <2>2. Len(log) \in Nat /\ clock \in Nat /\ \A i \in 1..Len(log) : log[i].at \in Nat
    BY Numbers
  <2>3. \A i \in 1..Len(log) : log[i].at <= clock /\ i \in Nat /\ i # 0
    BY <2>2 DEF Instants
  <2> QED BY <2>1, <2>2, <2>3
<1> DEFINE ages == {clock - log[i].at : i \in S}
<1>2. PICK t \in ages : \A u \in ages : t <= u
  <2>1. \A i \in S : clock - log[i].at \in Nat
    BY <1>1
  <2>2. ages \subseteq Nat
    BY <2>1
  <2>3. ages # {}
    BY Zenon
  <2> HIDE DEF ages
  <2> QED BY <2>2, <2>3, LeastOf
<1> DEFINE newest == {i \in S : clock - log[i].at = t}
<1>3. newest \subseteq 1..Len(log) /\ newest # {} /\ newest \subseteq S
  BY <1>2
<1>4. PICK m : m = Max(newest)
  OBVIOUS
<1>5. m \in newest /\ \A y \in newest : m >= y
  <2> HIDE DEF newest
  <2> QED BY <1>1, <1>3, <1>4, MaxOf
<1>6. \A j \in S \ {m} : Before(j, m)
  <2> SUFFICES ASSUME NEW j \in S \ {m} PROVE Before(j, m)
    OBVIOUS
  <2>1. t <= clock - log[j].at /\ t = clock - log[m].at /\ m \in S
    BY <1>2, <1>5
  <2>2. log[j].at = log[m].at => j < m
    <3> SUFFICES ASSUME log[j].at = log[m].at PROVE j < m
      OBVIOUS
    <3>1. j \in newest
      BY <2>1
    <3>2. m >= j /\ j \in Nat /\ m \in Nat /\ j # m
      BY <1>1, <1>5, <2>1, <3>1
    <3> QED BY <3>2
  <2> QED BY <1>1, <2>1, <2>2 DEF Before
<1>7. \A x \in S, y \in S : x # y => ~(Before(x, y) /\ Before(y, x))
  BY <1>1 DEF Before
<1>8. \A x \in S : (\A j \in S \ {x} : Before(j, x)) => x = m
  BY <1>5, <1>6, <1>7
<1>9. Latest(S) = CHOOSE i \in S : \A j \in S \ {i} : Before(j, i)
  BY Zenon DEF Latest
<1>10. m \in S /\ m # None
  BY <1>1, <1>5 DEF None
<1> HIDE DEF newest, ages
<1>11. \E i \in S : \A j \in S \ {i} : Before(j, i)
  BY <1>6, <1>10
<1>12. Latest(S) \in S /\ \A j \in S \ {Latest(S)} : Before(j, Latest(S))
  BY <1>9, <1>11, Zenon
<1> QED BY <1>1, <1>8, <1>10, <1>12

\* The latest of the first statements among some.
LEMMA LatestAmong ==
  ASSUME TypeOK, Instants, NEW T, T \subseteq 1..Len(log), NEW n \in 0..Len(log), NEW i \in 1..n
  PROVE  i \in T /\ (\A h \in T : h \in 1..n => h = i \/ Before(h, i))
           <=> i \in T /\ i = Latest(T \cap 1..n)
<1>1. PICK S : S = T \cap 1..n
  OBVIOUS
<1>2. S \subseteq 1..Len(log)
  BY <1>1
<1>3. S # {} =>
        /\ \A j \in S \ {Latest(S)} : Before(j, Latest(S))
        /\ \A m \in S : (\A j \in S \ {m} : Before(j, m)) => m = Latest(S)
  BY <1>2, LatestIs
<1>4. ASSUME i \in T, \A h \in T : h \in 1..n => h = i \/ Before(h, i) PROVE i = Latest(S)
  <2>1. i \in S /\ \A j \in S \ {i} : Before(j, i)
    BY <1>1, <1>4
  <2> QED BY <1>3, <2>1
<1>5. ASSUME i \in T, i = Latest(S) PROVE \A h \in T : h \in 1..n => h = i \/ Before(h, i)
  <2>1. i \in S
    BY <1>1, <1>5
  <2>2. \A j \in S \ {i} : Before(j, i)
    BY <1>3, <1>5, <2>1
  <2> QED BY <1>1, <2>2
<1> QED BY <1>1, <1>4, <1>5

\* The bundles of a recipe, and what is listed of it.
LEMMA ListedIs ==
  ASSUME TypeOK, NEW r
  PROVE  /\ Bundles(r) \subseteq Listed(r) /\ Listed(r) \subseteq 1..Len(log) /\ Len(log) \in Nat
         /\ \A i \in 1..Len(log) : i \in Bundles(r) <=> BundleOf(i, r)
         /\ \A i \in 1..Len(log) : i \in Listed(r) <=> WordOn(i, r)
BY Length DEF TypeOK, Listed, Bundles, Scopings, Of, BundleOf, WordOn

\* The latest of the first bundles of a recipe,
LEMMA LatestBundle ==
  ASSUME TypeOK, Instants, NEW r, NEW n \in 0..Len(log), NEW i \in 1..n
  PROVE  NewestBundle(i, r, n) <=> i \in Bundles(r) /\ i = Latest(Bundles(r) \cap 1..n)
<1>1. /\ Bundles(r) \subseteq 1..Len(log) /\ Len(log) \in Nat
      /\ \A h \in 1..Len(log) : h \in Bundles(r) <=> BundleOf(h, r)
  BY ListedIs
<1>2. i \in Bundles(r) /\ (\A h \in Bundles(r) : h \in 1..n => h = i \/ Before(h, i))
        <=> i \in Bundles(r) /\ i = Latest(Bundles(r) \cap 1..n)
  BY <1>1, LatestAmong
<1>3. /\ i \in Bundles(r) <=> BundleOf(i, r)
      /\ \A h \in 1..n : h \in Bundles(r) <=> BundleOf(h, r)
  BY <1>1
<1> QED BY <1>2, <1>3 DEF NewestBundle

\* and of what is listed of it.
LEMMA LatestWord ==
  ASSUME TypeOK, Instants, NEW r, NEW n \in 0..Len(log), NEW i \in 1..n
  PROVE  NewestWord(i, r, n) <=> i \in Listed(r) /\ i = Latest(Listed(r) \cap 1..n)
<1>1. /\ Listed(r) \subseteq 1..Len(log) /\ Len(log) \in Nat
      /\ \A h \in 1..Len(log) : h \in Listed(r) <=> WordOn(h, r)
  BY ListedIs
<1>2. i \in Listed(r) /\ (\A h \in Listed(r) : h \in 1..n => h = i \/ Before(h, i))
        <=> i \in Listed(r) /\ i = Latest(Listed(r) \cap 1..n)
  BY <1>1, LatestAmong
<1>3. /\ i \in Listed(r) <=> WordOn(i, r)
      /\ \A h \in 1..n : h \in Listed(r) <=> WordOn(h, r)
  BY <1>1
<1> QED BY <1>2, <1>3 DEF NewestWord

\* The latest statement listed, if it is a bundle, is the latest bundle.
LEMMA WordIsBundle ==
  ASSUME TypeOK, NEW r, NEW n \in 0..Len(log), NEW i \in 1..n, NewestWord(i, r, n), log[i].kind = "evidence"
  PROVE  NewestBundle(i, r, n)
BY DEF NewestWord, WordOn, NewestBundle, BundleOf

-----------------------------------------------------------------------------
(* The course of the operation that steps. *)

\* Nothing is known of an idle process.
LEMMA CourseIdle ==
  ASSUME NEW p \in Process, op'[p] = Idle, p \notin lone'
  PROVE  Course(p)'
<1>1. /\ op'[p].stage = "off" /\ op'[p].next = 1 /\ op'[p].slots = {}
      /\ \A s \in Slot : op'[p].prior[s] = None
  BY IdleIs
<1>2. StagedAt(p)' /\ PriorAt(p)' /\ BackedAt(p)'
  BY <1>1 DEF StagedAt, PriorAt, BackedAt, Comparing, Behind
<1>3. UnsaidAt(p)' /\ CoveredAt(p)' /\ ObservedAt(p)' /\ OwnAt(p)'
  BY <1>1 DEF UnsaidAt, CoveredAt, ObservedAt, OwnAt, Working
<1> QED BY <1>2, <1>3 DEF Course

\* At a new instant nothing was said.
LEMMA NothingSaid ==
  ASSUME TypeOK, Instants, NEW p \in Process, Begun(p)
  PROVE  \A i \in 1..Len(log') : log'[i].at # op'[p].now
<1>1. log' = log /\ op'[p].now = clock + 1
  BY DEF Begun
<1> QED BY <1>1, Numbers DEF Instants

\* A scan starts with nothing behind it, and so does a scope-out.
LEMMA CourseStart ==
  ASSUME TypeOK, Instants, NEW p \in Process, op[p] = Idle, Start(p) \/ Approve(p)
  PROVE  Course(p)'
<1>1. /\ Begun(p) /\ op'[p].stage \in {"collect", "scope"} /\ op'[p].next = 1 /\ op'[p].slots = {}
      /\ op'[p].prior = op[p].prior
  BY StartDoes, ApproveDoes
<1>2. \A s \in Slot : op'[p].prior[s] = None
  BY <1>1, IdleIs
<1>3. StagedAt(p)' /\ PriorAt(p)' /\ BackedAt(p)'
  BY <1>1, <1>2 DEF StagedAt, PriorAt, BackedAt, Comparing, Behind
<1>4. UnsaidAt(p)' /\ CoveredAt(p)' /\ ObservedAt(p)'
  BY <1>1 DEF UnsaidAt, CoveredAt, ObservedAt, Recording
<1>5. OwnAt(p)'
  BY <1>1, NothingSaid DEF OwnAt
<1> QED BY <1>3, <1>4, <1>5 DEF Course

\* The last appended body of a slot.
LEMMA LastBodyIs ==
  ASSUME TypeOK, NEW s
  PROVE  /\ LastAppended(Bodies(s)) # None =>
              LastAppended(Bodies(s)) \in 1..Len(log) /\ BodyOf(LastAppended(Bodies(s)), s)
         /\ \A i \in 1..Len(log) : BodyOf(i, s) => i <= LastAppended(Bodies(s))
         /\ LastAppended(Bodies(s)) \in Nat
<1>1. Bodies(s) \subseteq 1..Len(log) /\ Len(log) \in Nat
  BY Length DEF Bodies, Of, TypeOK
<1>2. \A i \in 1..Len(log) : i \in Bodies(s) <=> BodyOf(i, s)
  BY Length DEF Bodies, BodyOf, Of, TypeOK
<1>3. PICK m : m = LastAppended(Bodies(s))
  OBVIOUS
<1>4. /\ m = None <=> Bodies(s) = {}
      /\ Bodies(s) # {} => m \in Bodies(s)
      /\ m \in 0..Len(log)
      /\ \A y \in Bodies(s) : y <= m
  BY <1>1, <1>3, LastOf
<1>5. /\ m # None => m \in 1..Len(log) /\ BodyOf(m, s)
      /\ \A i \in 1..Len(log) : BodyOf(i, s) => i <= m
      /\ m \in Nat
  BY <1>1, <1>2, <1>4 DEF None
<1> QED BY <1>3, <1>5

\* A hand has looked at its slot.
LEMMA CourseLook ==
  ASSUME TypeOK, Instants, NEW p \in Process, op[p] = Idle, Look(p)
  PROVE  Course(p)'
<1>1. PICK s \in Slot :
        /\ Begun(p) /\ op'[p].stage = "revise" /\ op'[p].next = 1
        /\ op'[p].slots = {s} /\ op'[p].file[s] \in Body
        /\ op'[p].prior[s] = LastAppended(Bodies(s))
        /\ \A t \in Slot \ {s} : op'[p].prior[t] = None
  BY LookDoes
<1>2. log' = log
  BY <1>1 DEF Begun
<1>3. StagedAt(p)' /\ BackedAt(p)'
  BY <1>1 DEF StagedAt, BackedAt, Comparing, Behind
<1>4. PriorAt(p)'
  <2>1. PICK m : m = LastAppended(Bodies(s))
    OBVIOUS
  <2>2. /\ m # None => m \in 1..Len(log) /\ BodyOf(m, s)
        /\ \A i \in 1..Len(log) : BodyOf(i, s) => i <= m
    BY <2>1, LastBodyIs
  <2> QED BY <1>1, <1>2, <2>1, <2>2 DEF PriorAt, BodyOf, Said
<1>5. UnsaidAt(p)' /\ CoveredAt(p)' /\ ObservedAt(p)'
  BY <1>1 DEF UnsaidAt, CoveredAt, ObservedAt, Recording
<1>6. OwnAt(p)'
  BY <1>1, NothingSaid DEF OwnAt
<1> QED BY <1>3, <1>4, <1>5, <1>6 DEF Course

\* Before it records bodies, a scan has said nothing but bundles.
LEMMA OwnBefore ==
  ASSUME NEW p \in Process, OwnAt(p), Working(p), log' = log, op'[p].now = op[p].now,
         op[p].stage \notin Recording, op'[p].stage # "record"
  PROVE  OwnAt(p)'
<1>1. \A i \in 1..Len(log) : log[i].at = op[p].now =>
        log[i].kind # "artifact" /\ log[i].kind # "observation" /\ log[i].kind # "run"
  BY DEF OwnAt, Recording
<1> QED BY <1>1 DEF OwnAt

\* No recipe is behind a scan that has collected.
LEMMA CourseCollect ==
  ASSUME TypeOK, NEW p \in Process, Course(p), Collect(p)
  PROVE  Course(p)'
<1>1. /\ Looks(p) /\ op[p].stage = "collect" /\ op'[p].stage = "compare" /\ op'[p].next = op[p].next
      /\ op'[p].slots = op[p].slots /\ op'[p].file = op[p].file /\ op'[p].prior = op[p].prior
  BY CollectDoes
<1>2. log' = log /\ lone' = lone /\ op'[p].now = op[p].now
  BY <1>1 DEF Looks
<1>3. op[p].next = 1 /\ op[p].slots = {}
  BY <1>1 DEF Course, StagedAt, Comparing, Behind
<1>4. StagedAt(p)' /\ BackedAt(p)'
  BY <1>1, <1>3, FirstRecipe DEF StagedAt, BackedAt, Comparing, Behind
<1>5. PriorAt(p)'
  BY <1>1, <1>2 DEF Course, PriorAt, BodyOf, Said
<1>6. UnsaidAt(p)' /\ CoveredAt(p)' /\ ObservedAt(p)'
  BY <1>1 DEF UnsaidAt, CoveredAt, ObservedAt, Recording
<1>7. OwnAt(p)'
  BY <1>1, <1>2, OwnBefore DEF Course, Recording, Working
<1> QED BY <1>4, <1>5, <1>6, <1>7 DEF Course

\* A finding that survives is backed by the bundle it repeats.
LEMMA SurvivorBacks ==
  ASSUME TypeOK, Instants, NEW p \in Process, NEW r, Survives(p, r)
  PROVE  \E j \in 1..Len(log) : Backs(j, r, op[p].finding, p, op[p].now, TRUE, Len(log))
<1>1. PICK i : i = Latest(Listed(r))
  OBVIOUS
<1>2. i \in Bundles(r) /\ Said(i).finding = op[p].finding[r] /\ ~Aged(i, p, op[p].now)
  <2>1. /\ i \in Bundles(r) /\ Said(i).finding = op[p].finding[r]
        /\ p \in Refreshing => op[p].now - log[i].at < RefreshAfter
    BY <1>1 DEF Survives
  <2>2. i \in 1..Len(log)
    BY <2>1, ListedIs
  <2> QED BY <2>1, <2>2, Numbers, ScanAssumption DEF Aged
<1>3. i \in 1..Len(log) /\ BundleOf(i, r) /\ i \in Listed(r) /\ Len(log) \in Nat
      /\ Listed(r) \cap 1..Len(log) = Listed(r)
  BY <1>2, ListedIs
<1>4. NewestBundle(i, r, Len(log))
  <2>1. PICK n : n = Len(log)
    OBVIOUS
  <2>2. n \in 0..Len(log) /\ i \in 1..n /\ i = Latest(Listed(r) \cap 1..n)
    BY <1>1, <1>3, <2>1
  <2>3. NewestWord(i, r, n)
    BY <1>3, <2>2, LatestWord
  <2> QED BY <1>3, <2>1, <2>2, <2>3, WordIsBundle DEF BundleOf
<1> QED BY <1>2, <1>3, <1>4 DEF Backs

\* A recipe passed by is backed by what survives; one to sign is news.
LEMMA CourseCompare ==
  ASSUME TypeOK, Instants, NEW p \in Process, Course(p), Compare(p)
  PROVE  Course(p)'
<1> DEFINE r == Recipes[op[p].next]
<1>1. /\ Looks(p) /\ op[p].stage = "compare" /\ op'[p].finding = op[p].finding
      /\ op'[p].slots = op[p].slots /\ op'[p].file = op[p].file /\ op'[p].prior = op[p].prior
      /\ \/ /\ op[p].finding[r] = Skipped \/ Survives(p, r)
            /\ op'[p].next = op[p].next + 1
            /\ op'[p].stage = IF op[p].next < Len(Recipes) THEN "compare" ELSE "declare"
         \/ /\ op[p].finding[r] # Skipped /\ ~Survives(p, r)
            /\ op'[p].next = op[p].next /\ op'[p].stage = "evidence"
  BY CompareDoes DEF Course
<1>2. log' = log /\ lone' = lone /\ op'[p].now = op[p].now
  BY <1>1 DEF Looks
<1>3. op[p].slots = {} /\ op[p].next \in 1..Len(Recipes) /\ Len(Recipes) \in Nat
  BY <1>1, FirstRecipe DEF Course, StagedAt, Comparing, Behind
<1>4. StagedAt(p)'
  BY <1>1, <1>3 DEF StagedAt, Comparing, Behind
<1>5. PriorAt(p)'
  BY <1>1, <1>2 DEF Course, PriorAt, BodyOf, Said
<1>6. BackedAt(p)'
  <2> SUFFICES ASSUME NEW k \in 1..(op'[p].next - 1), op[p].finding[Recipes[k]] # Skipped
               PROVE  \E j \in 1..Len(log) :
                        Backs(j, Recipes[k], op[p].finding, p, op[p].now, p \in lone, Len(log))
    BY <1>1, <1>2 DEF BackedAt, Backs, Aged, NewestBundle, BundleOf, Before, Said
  <2>1. CASE k \in 1..(op[p].next - 1)
    BY <2>1 DEF Course, BackedAt
  <2>2. CASE k \notin 1..(op[p].next - 1)
    <3>1. k = op[p].next /\ Survives(p, r)
      BY <1>1, <1>3, <2>2
    <3>2. \E j \in 1..Len(log) : Backs(j, r, op[p].finding, p, op[p].now, TRUE, Len(log))
      BY <3>1, SurvivorBacks
    <3> QED BY <3>1, <3>2 DEF Backs, Aged
  <2> QED BY <2>1, <2>2
<1>7. UnsaidAt(p)'
  <2> SUFFICES ASSUME op'[p].stage = "evidence", NEW i \in 1..Len(log),
                      log[i].kind = "evidence", NewestWord(i, r, Len(log))
               PROVE  Said(i).finding # op[p].finding[r] \/ Aged(i, p, op[p].now)
    BY <1>1, <1>2 DEF UnsaidAt, Aged, NewestWord, WordOn, Before, Said
  <2>1. ~Survives(p, r)
    BY <1>1
  <2>2. PICK n : n = Len(log)
    OBVIOUS
  <2>3. n \in 0..Len(log) /\ i \in 1..n /\ Listed(r) \cap 1..n = Listed(r) /\ BundleOf(i, r)
    BY <2>2, ListedIs DEF NewestWord, WordOn, BundleOf
  <2>4. i = Latest(Listed(r)) /\ i \in Bundles(r)
    <3>1. i = Latest(Listed(r) \cap 1..n)
      BY <2>2, <2>3, LatestWord
    <3> QED BY <2>3, <3>1, ListedIs
  <2>5. op[p].now \in Nat /\ log[i].at \in Nat /\ RefreshAfter \in Nat
    BY Numbers, ScanAssumption
  <2> QED BY <2>1, <2>4, <2>5 DEF Survives, Aged
<1>8. CoveredAt(p)' /\ ObservedAt(p)'
  BY <1>1 DEF CoveredAt, ObservedAt, Recording
<1>9. OwnAt(p)'
  BY <1>1, <1>2, OwnBefore DEF Course, Recording, Working
<1> QED BY <1>4, <1>5, <1>6, <1>7, <1>8, <1>9 DEF Course

\* Where nothing is declared nothing is left to record.
LEMMA CourseDeclare ==
  ASSUME TypeOK, NEW p \in Process, Course(p), Declare(p)
  PROVE  Course(p)'
<1>1. /\ Looks(p) /\ op[p].stage = "declare" /\ op'[p].finding = op[p].finding
      /\ op'[p].next = op[p].next /\ op'[p].slots = op[p].slots /\ op'[p].prior = op[p].prior
      /\ \/ op'[p].stage = "derive" /\ \A s \in Slot : op'[p].file[s] = Silent
         \/ op'[p].stage = "list"
  BY DeclareDoes
<1>2. log' = log /\ lone' = lone /\ op'[p].now = op[p].now
  BY <1>1 DEF Looks
<1>3. op[p].slots = {} /\ op[p].next = Len(Recipes) + 1
  BY <1>1 DEF Course, StagedAt, Comparing, Behind
<1>4. StagedAt(p)'
  BY <1>1, <1>3 DEF StagedAt, Comparing, Behind
<1>5. PriorAt(p)'
  BY <1>1, <1>2 DEF Course, PriorAt, BodyOf, Said
<1>6. BackedAt(p)'
  BY <1>1, <1>2 DEF Course, BackedAt, Backs, Aged, NewestBundle, BundleOf, Before, Said
<1>7. Silent \notin Body
  BY ScanAssumption
<1>8. UnsaidAt(p)' /\ CoveredAt(p)' /\ ObservedAt(p)'
  BY <1>1, <1>7 DEF UnsaidAt, CoveredAt, ObservedAt, Recording
<1>9. OwnAt(p)'
  BY <1>1, <1>2, OwnBefore DEF Course, Recording, Working
<1> QED BY <1>4, <1>5, <1>6, <1>8, <1>9 DEF Course

\* The slots left are those whose last body differs.
LEMMA CourseList ==
  ASSUME TypeOK, NEW p \in Process, Course(p), ListBodies(p)
  PROVE  Course(p)'
<1>1. /\ Looks(p) /\ op[p].stage = "list" /\ op'[p].stage = "artifact"
      /\ op'[p].finding = op[p].finding /\ op'[p].next = op[p].next /\ op'[p].file = op[p].file
      /\ \A s \in Slot : op'[p].prior[s] = LastAppended(Bodies(s))
      /\ \A s \in Slot : s \in op'[p].slots <=>
           op[p].file[s] \in Body /\ ~Unchanged(p, s, LastAppended(Bodies(s)))
  BY ListDoes
<1>2. log' = log /\ lone' = lone /\ op'[p].now = op[p].now /\ op'[p].slots \in SUBSET Slot
  <2>1. Looks(p) /\ op' \in [Process -> Operation]
    BY <1>1 DEF Looks, Moved
  <2> QED BY <2>1 DEF Looks, Operation
<1>3. op[p].next = Len(Recipes) + 1
  BY <1>1 DEF Course, StagedAt, Comparing, Behind
<1>4. StagedAt(p)'
  BY <1>1, <1>2, <1>3 DEF StagedAt, Comparing, Behind
<1>5. \A s \in Slot :
        /\ LastAppended(Bodies(s)) # None =>
             LastAppended(Bodies(s)) \in 1..Len(log) /\ BodyOf(LastAppended(Bodies(s)), s)
        /\ \A i \in 1..Len(log) : BodyOf(i, s) => i <= LastAppended(Bodies(s))
  BY LastBodyIs
<1>6. PriorAt(p)'
  <2> SUFFICES ASSUME NEW s \in Slot
               PROVE  /\ op'[p].prior[s] # None => op'[p].prior[s] \in 1..Len(log) /\ BodyOf(op'[p].prior[s], s)
                      /\ \A i \in 1..Len(log) : BodyOf(i, s) => i <= op'[p].prior[s]
    BY <1>2 DEF PriorAt, BodyOf, Said
  <2> QED BY <1>1, <1>5
<1>7. BackedAt(p)'
  BY <1>1, <1>2 DEF Course, BackedAt, Backs, Aged, NewestBundle, BundleOf, Before, Said
<1>8. UnsaidAt(p)' /\ ObservedAt(p)'
  BY <1>1 DEF UnsaidAt, ObservedAt
<1>9. CoveredAt(p)'
  <2> SUFFICES ASSUME NEW s \in Slot, s \notin op'[p].slots, op[p].file[s] \in Body
               PROVE  \E m \in 1..Len(log) : LastBody(m, s, Len(log)) /\ Said(m).body = op[p].file[s]
    BY <1>1, <1>2 DEF CoveredAt, LastBody, BodyOf, Said
  <2>1. PICK m : m = LastAppended(Bodies(s))
    OBVIOUS
  <2>2. m # None /\ Said(m).body = op[p].file[s]
    BY <1>1, <2>1 DEF Unchanged
  <2> QED BY <1>5, <2>1, <2>2 DEF LastBody
<1>10. OwnAt(p)'
  BY <1>1, <1>2, OwnBefore DEF Course, Recording, Working
<1> QED BY <1>4, <1>6, <1>7, <1>8, <1>9, <1>10 DEF Course

\* The last appended observation.
LEMMA LastObservationIs ==
  ASSUME TypeOK, LastAppended(Of("observation")) # None
  PROVE  /\ LastAppended(Of("observation")) \in 1..Len(log)
         /\ LastObservation(LastAppended(Of("observation")), Len(log))
<1>1. Of("observation") \subseteq 1..Len(log) /\ Len(log) \in Nat
  BY Length DEF Of, TypeOK
<1>2. \A i \in 1..Len(log) : i \in Of("observation") <=> Observation(i)
  BY Length DEF Observation, Of, TypeOK
<1>3. PICK m : m = LastAppended(Of("observation"))
  OBVIOUS
<1>4. m \in Of("observation") /\ \A y \in Of("observation") : y <= m
  BY <1>1, <1>3, LastOf
<1>5. m \in 1..Len(log) /\ LastObservation(m, Len(log))
  BY <1>1, <1>2, <1>4 DEF LastObservation
<1> QED BY <1>3, <1>5

\* An observation left out has been made already.
LEMMA CourseObserve ==
  ASSUME TypeOK, NEW p \in Process, Course(p), Observe(p)
  PROVE  Course(p)'
<1> DEFINE i == LastAppended(Of("observation"))
<1>1. /\ Looks(p) /\ op[p].stage = "artifact" /\ op[p].slots = {}
      /\ op'[p].finding = op[p].finding /\ op'[p].next = op[p].next /\ op'[p].file = op[p].file
      /\ op'[p].slots = op[p].slots /\ op'[p].prior = op[p].prior
      /\ \/ op'[p].stage = "observation"
         \/ op'[p].stage = "derive" /\ i # None /\ Said(i).saw = op[p].file
  BY ObserveDoes
<1>2. log' = log /\ lone' = lone /\ op'[p].now = op[p].now
  BY <1>1 DEF Looks
<1>3. op[p].next = Len(Recipes) + 1
  BY <1>1 DEF Course, StagedAt, Comparing, Behind
<1>4. StagedAt(p)'
  BY <1>1, <1>3 DEF StagedAt, Comparing, Behind
<1>5. PriorAt(p)'
  BY <1>1, <1>2 DEF Course, PriorAt, BodyOf, Said
<1>6. BackedAt(p)'
  BY <1>1, <1>2 DEF Course, BackedAt, Backs, Aged, NewestBundle, BundleOf, Before, Said
<1>7. UnsaidAt(p)'
  BY <1>1 DEF UnsaidAt
<1>8. CoveredAt(p)'
  BY <1>1, <1>2 DEF Course, CoveredAt, LastBody, BodyOf, Said, Recording
<1>9. i # None => i \in 1..Len(log) /\ LastObservation(i, Len(log))
  BY LastObservationIs
<1>10. ObservedAt(p)'
  <2> SUFFICES ASSUME op'[p].stage = "derive"
               PROVE  \E o \in 1..Len(log) : LastObservation(o, Len(log)) /\ Said(o).saw = op[p].file
    BY <1>1, <1>2 DEF ObservedAt, LastObservation, Observation, Said
  <2> HIDE DEF i
  <2> QED BY <1>1, <1>9
<1>11. OwnAt(p)'
  <2> SUFFICES ASSUME NEW b \in 1..Len(log), log[b].at = op[p].now
               PROVE  /\ log[b].kind = "artifact" =>
                           /\ Said(b).body = op[p].file[Said(b).slot]
                           /\ op'[p].stage = "derive" => Answered(b, Len(log))
                      /\ log[b].kind # "observation" /\ log[b].kind # "run"
    BY <1>1, <1>2 DEF OwnAt, Answered, Observation, Said, Recording
  <2>1. /\ log[b].kind = "artifact" => Said(b).body = op[p].file[Said(b).slot]
        /\ log[b].kind # "observation" /\ log[b].kind # "run"
    BY <1>1 DEF Course, OwnAt, Working
  <2>2. ASSUME log[b].kind = "artifact", op'[p].stage = "derive" PROVE Answered(b, Len(log))
    <3> HIDE DEF i
    <3>1. i \in 1..Len(log) /\ LastObservation(i, Len(log)) /\ Said(i).saw = op[p].file
      BY <1>1, <1>9, <2>2
    <3>2. Said(b) \in BodySaid /\ Len(log) \in Nat
      BY <2>2, Parts, Numbers DEF TypeOK
    <3>3. Said(i).saw[Said(b).slot] \in Body
      BY <2>1, <2>2, <3>1, <3>2 DEF BodySaid
    <3> QED BY <3>1, <3>2, <3>3 DEF Answered, LastObservation
  <2> QED BY <2>1, <2>2
<1> QED BY <1>4, <1>5, <1>6, <1>7, <1>8, <1>10, <1>11 DEF Course

\* The model is derived from all that was recorded.
LEMMA CourseDerive ==
  ASSUME TypeOK, NEW p \in Process, Course(p), DeriveModel(p)
  PROVE  Course(p)'
<1>1. /\ Looks(p) /\ op[p].stage = "derive" /\ op'[p].stage = "record" /\ op'[p].derived = Len(log)
      /\ op'[p].finding = op[p].finding /\ op'[p].next = op[p].next /\ op'[p].file = op[p].file
      /\ op'[p].slots = op[p].slots /\ op'[p].prior = op[p].prior
  BY DeriveDoes
<1>2. log' = log /\ lone' = lone /\ op'[p].now = op[p].now /\ Len(log) \in Nat
  BY <1>1, Numbers DEF Looks
<1>3. op[p].next = Len(Recipes) + 1 /\ op[p].slots = {}
  BY <1>1 DEF Course, StagedAt, Comparing, Behind
<1>4. StagedAt(p)'
  BY <1>1, <1>3 DEF StagedAt, Comparing, Behind
<1>5. PriorAt(p)'
  BY <1>1, <1>2 DEF Course, PriorAt, BodyOf, Said
<1>6. BackedAt(p)'
  BY <1>1, <1>2 DEF Course, BackedAt, Backs, Aged, NewestBundle, BundleOf, Before, Said
<1>7. UnsaidAt(p)'
  BY <1>1 DEF UnsaidAt
<1>8. CoveredAt(p)'
  BY <1>1, <1>2 DEF Course, CoveredAt, LastBody, BodyOf, Said, Recording
<1>9. ObservedAt(p)'
  BY <1>1, <1>2 DEF Course, ObservedAt, LastObservation, Observation, Said
<1>10. OwnAt(p)'
  BY <1>1, <1>2 DEF Course, OwnAt, Answered, Observation, Said, Recording, Working
<1> QED BY <1>4, <1>5, <1>6, <1>7, <1>8, <1>9, <1>10 DEF Course

-----------------------------------------------------------------------------
(* The course of the operation that says something. *)

\* The recipe signed is backed by its bundle.
LEMMA CourseSignBundle ==
  ASSUME TypeOK, KeysInv, Schedule, NEW p \in Process, Course(p), SignBundle(p)
  PROVE  Course(p)'
<1>0. PICK r : r = Recipes[op[p].next]
  OBVIOUS
<1>1. /\ Says(p, "evidence", BundleSaid(p)) /\ Spoken(p) /\ op[p].stage = "evidence"
      /\ op'[p].slots = op[p].slots /\ op'[p].next = op[p].next + 1
      /\ op'[p].stage = IF op[p].next < Len(Recipes) THEN "compare" ELSE "declare"
  BY SignBundleDoes DEF Course
<1>2. /\ lone' = lone /\ op'[p].now = op[p].now /\ op'[p].finding = op[p].finding
      /\ op'[p].file = op[p].file /\ op'[p].prior = op[p].prior
  BY <1>1 DEF Spoken
<1>3. PICK n : n = Len(log) + 1
  OBVIOUS
<1>4. /\ Len(log') = n /\ \A i \in 1..Len(log) : log'[i] = log[i]
      /\ log'[n].kind = "evidence" /\ log'[n].at = op[p].now
      /\ log'[n].payload.recipe = r /\ log'[n].payload.finding = op[p].finding[r]
  BY <1>0, <1>1, <1>3 DEF Says, BundleSaid
<1>5. /\ Len(log) \in Nat /\ n \in Nat /\ n \in 1..n /\ \A i \in 1..n : i = n \/ i \in 1..Len(log)
      /\ \A i \in 1..Len(log) : i \in 1..n /\ i # n
      /\ op[p].now \in Nat /\ \A i \in 1..Len(log) : log[i].at \in Nat
  BY <1>3, Numbers
<1>6. op[p].slots = {} /\ op[p].next \in 1..Len(Recipes) /\ Len(Recipes) \in Nat
  BY <1>1, FirstRecipe DEF Course, StagedAt, Comparing, Behind
<1>7. StagedAt(p)'
  BY <1>1, <1>6 DEF StagedAt, Comparing, Behind
<1>8. PriorAt(p)'
  BY <1>1, <1>2, <1>4, <1>5, <1>6 DEF Course, PriorAt, BodyOf, Said
<1>9. UnsaidAt(p)' /\ CoveredAt(p)' /\ ObservedAt(p)'
  BY <1>1 DEF UnsaidAt, CoveredAt, ObservedAt, Recording
<1>10. BackedAt(p)'
  <2>1. RefreshAfter \in Nat /\ RefreshAfter > 0
    BY ScanAssumption
  <2>2. p \in lone => \A i \in 1..Len(log) : log[i].at <= op[p].now
    BY <1>1 DEF Schedule, Instants, TimedAt, Working
  <2>3. Backs(n, r, op[p].finding, p, op[p].now, p \in lone, n)'
    <3>1. ~(op[p].now - op[p].now >= RefreshAfter)
      BY <1>5, <2>1
    <3>2. p \in lone => NewestBundle(n, r, n)'
      BY <1>4, <1>5, <2>2 DEF NewestBundle, BundleOf, Before, Said
    <3> QED BY <1>2, <1>4, <3>1, <3>2 DEF Backs, Aged, BundleOf, Said
  <2> SUFFICES ASSUME NEW k \in 1..(op'[p].next - 1), op[p].finding[Recipes[k]] # Skipped
               PROVE  \E j \in 1..n : Backs(j, Recipes[k], op[p].finding, p, op[p].now, p \in lone, n)'
    BY <1>2, <1>4 DEF BackedAt, Backs, Aged, NewestBundle, BundleOf, Before, Said
  <2>4. CASE Recipes[k] = r
    <3>1. Backs(n, Recipes[k], op[p].finding, p, op[p].now, p \in lone, n)'
      BY <2>3, <2>4 DEF Backs, Aged, NewestBundle, BundleOf, Before, Said
    <3> QED BY <1>5, <3>1
  <2>5. CASE Recipes[k] # r
    <3>1. k \in 1..(op[p].next - 1)
      BY <1>0, <1>1, <1>6, <2>5
    <3>2. PICK j \in 1..Len(log) : Backs(j, Recipes[k], op[p].finding, p, op[p].now, p \in lone, Len(log))
      BY <3>1 DEF Course, BackedAt
    <3>3. NewestBundle(j, Recipes[k], Len(log)) => NewestBundle(j, Recipes[k], n)'
      BY <1>4, <1>5, <2>5 DEF NewestBundle, BundleOf, Before, Said
    <3>4. Backs(j, Recipes[k], op[p].finding, p, op[p].now, p \in lone, n)'
      BY <1>2, <1>4, <1>5, <3>2, <3>3 DEF Backs, Aged, BundleOf, Said
    <3> QED BY <1>5, <3>4
  <2> QED BY <2>4, <2>5
<1>11. OwnAt(p)'
  <2>1. \A i \in 1..Len(log) : log[i].at = op[p].now =>
          log[i].kind # "artifact" /\ log[i].kind # "observation" /\ log[i].kind # "run"
    BY <1>1 DEF Course, OwnAt, Recording, Working
  <2>2. op'[p].stage # "record"
    BY <1>1
  <2> QED BY <1>2, <1>4, <1>5, <2>1, <2>2 DEF OwnAt
<1> QED BY <1>7, <1>8, <1>9, <1>10, <1>11 DEF Course

\* The slot signed is covered by its body.
LEMMA CourseSignBody ==
  ASSUME TypeOK, KeysInv, NEW p \in Process, Course(p), SignBody(p)
  PROVE  Course(p)'
<1>1. /\ Spoken(p) /\ op[p].stage = "artifact" /\ op'[p].stage = op[p].stage
      /\ op'[p].next = op[p].next
  BY SignBodyDoes DEF Course
<1>2. PICK s \in op[p].slots, commit \in Nat :
        /\ Says(p, "artifact", SlotSaid(p, s, commit))
        /\ op'[p].slots = op[p].slots \ {s}
  BY SignBodyDoes DEF Course
<1>3. /\ lone' = lone /\ op'[p].now = op[p].now /\ op'[p].finding = op[p].finding
      /\ op'[p].file = op[p].file /\ op'[p].prior = op[p].prior
  BY <1>1 DEF Spoken
<1>4. PICK n : n = Len(log) + 1
  OBVIOUS
<1>5. /\ Len(log') = n /\ \A i \in 1..Len(log) : log'[i] = log[i]
      /\ log'[n].kind = "artifact" /\ log'[n].at = op[p].now
      /\ log'[n].payload.slot = s /\ log'[n].payload.body = op[p].file[s]
  BY <1>2, <1>4 DEF Says, SlotSaid
<1>6. /\ Len(log) \in Nat /\ n \in Nat /\ n \in 1..n /\ \A i \in 1..n : i = n \/ i \in 1..Len(log)
      /\ \A i \in 1..Len(log) : i \in 1..n /\ i # n /\ i < n
  BY <1>4, Numbers
<1>7. op[p].next = Len(Recipes) + 1
  BY <1>1 DEF Course, StagedAt, Comparing, Behind
<1>8. StagedAt(p)'
  BY <1>1, <1>2, <1>3, <1>7 DEF Course, StagedAt, Comparing, Behind
<1>9. PriorAt(p)'
  <2> SUFFICES ASSUME NEW t \in Slot
               PROVE  /\ op[p].prior[t] # None => op[p].prior[t] \in 1..n /\ BodyOf(op[p].prior[t], t)'
                      /\ p \in lone /\ t \in op'[p].slots => \A i \in 1..n : BodyOf(i, t)' => i <= op[p].prior[t]
    BY <1>3, <1>5 DEF PriorAt, BodyOf, Said
  <2>1. op[p].prior[t] # None => op[p].prior[t] \in 1..n /\ BodyOf(op[p].prior[t], t)'
    BY <1>3, <1>5, <1>6 DEF Course, PriorAt, BodyOf, Said
  <2>2. ASSUME p \in lone, t \in op'[p].slots, NEW i \in 1..n, BodyOf(i, t)' PROVE i <= op[p].prior[t]
    <3>1. t # s /\ t \in op[p].slots
      BY <1>2, <2>2
    <3>2. i # n
      BY <1>5, <2>2, <3>1 DEF BodyOf, Said
    <3>3. i \in 1..Len(log) /\ BodyOf(i, t)
      BY <1>5, <1>6, <2>2, <3>2 DEF BodyOf, Said
    <3> QED BY <2>2, <3>1, <3>3 DEF Course, PriorAt
  <2> QED BY <2>1, <2>2
<1>10. BackedAt(p)'
  <2> SUFFICES ASSUME NEW k \in 1..(op[p].next - 1), op[p].finding[Recipes[k]] # Skipped
               PROVE  \E j \in 1..n : Backs(j, Recipes[k], op[p].finding, p, op[p].now, p \in lone, n)'
    BY <1>1, <1>3, <1>5 DEF BackedAt, Backs, Aged, NewestBundle, BundleOf, Before, Said
  <2>1. PICK j \in 1..Len(log) : Backs(j, Recipes[k], op[p].finding, p, op[p].now, p \in lone, Len(log))
    BY DEF Course, BackedAt
  <2>2. NewestBundle(j, Recipes[k], Len(log)) => NewestBundle(j, Recipes[k], n)'
    BY <1>5, <1>6 DEF NewestBundle, BundleOf, Before, Said
  <2>3. Backs(j, Recipes[k], op[p].finding, p, op[p].now, p \in lone, n)'
    BY <1>3, <1>5, <1>6, <2>1, <2>2 DEF Backs, Aged, BundleOf, Said
  <2> QED BY <1>6, <2>3
<1>11. UnsaidAt(p)' /\ ObservedAt(p)'
  BY <1>1 DEF UnsaidAt, ObservedAt
<1>12. CoveredAt(p)'
  <2> SUFFICES ASSUME p \in lone, NEW t \in Slot, t \notin op'[p].slots, op[p].file[t] \in Body
               PROVE  \E m \in 1..n : LastBody(m, t, n)' /\ Said(m)'.body = op[p].file[t]
    BY <1>1, <1>3, <1>5 DEF CoveredAt, LastBody, BodyOf, Said
  <2>1. CASE t = s
    <3>1. LastBody(n, t, n)'
      BY <1>5, <1>6, <2>1 DEF LastBody, BodyOf, Said
    <3> QED BY <1>5, <1>6, <2>1, <3>1 DEF Said
  <2>2. CASE t # s
    <3>1. PICK m \in 1..Len(log) : LastBody(m, t, Len(log)) /\ Said(m).body = op[p].file[t]
      BY <1>1, <1>2, <2>2 DEF Course, CoveredAt, Recording
    <3>2. LastBody(m, t, n)' /\ Said(m)'.body = op[p].file[t]
      BY <1>5, <1>6, <2>2, <3>1 DEF LastBody, BodyOf, Said
    <3> QED BY <1>6, <3>2
  <2> QED BY <2>1, <2>2
<1>13. OwnAt(p)'
  <2>1. \A i \in 1..Len(log) : log[i].at = op[p].now =>
          /\ log[i].kind = "artifact" => Said(i).body = op[p].file[Said(i).slot]
          /\ log[i].kind # "observation" /\ log[i].kind # "run"
    BY <1>1 DEF Course, OwnAt, Working
  <2>2. op'[p].stage = "artifact"
    BY <1>1
  <2> QED BY <1>3, <1>5, <1>6, <2>1, <2>2 DEF OwnAt, Said, Recording
<1> QED BY <1>8, <1>9, <1>10, <1>11, <1>12, <1>13 DEF Course

\* The observation answers the bodies before it.
LEMMA CourseSignObservation ==
  ASSUME TypeOK, KeysInv, NEW p \in Process, Course(p), SignObservation(p)
  PROVE  Course(p)'
<1>1. /\ Says(p, "observation", [saw |-> op[p].file]) /\ Spoken(p)
      /\ op[p].stage = "observation" /\ op'[p].stage = "derive"
      /\ op'[p].next = op[p].next /\ op'[p].slots = op[p].slots
  BY SignObservationDoes
<1>2. /\ lone' = lone /\ op'[p].now = op[p].now /\ op'[p].finding = op[p].finding
      /\ op'[p].file = op[p].file /\ op'[p].prior = op[p].prior
  BY <1>1 DEF Spoken
<1>3. PICK n : n = Len(log) + 1
  OBVIOUS
<1>4. /\ Len(log') = n /\ \A i \in 1..Len(log) : log'[i] = log[i]
      /\ log'[n].kind = "observation" /\ log'[n].at = op[p].now /\ log'[n].payload.saw = op[p].file
  BY <1>1, <1>3 DEF Says
<1>5. /\ Len(log) \in Nat /\ n \in Nat /\ n \in 1..n /\ \A i \in 1..n : i = n \/ i \in 1..Len(log)
      /\ \A i \in 1..Len(log) : i \in 1..n /\ i # n /\ i < n
  BY <1>3, Numbers
<1>6. op[p].next = Len(Recipes) + 1 /\ op[p].slots = {}
  BY <1>1 DEF Course, StagedAt, Comparing, Behind
<1>7. StagedAt(p)'
  BY <1>1, <1>6 DEF StagedAt, Comparing, Behind
<1>8. PriorAt(p)'
  BY <1>1, <1>2, <1>4, <1>5, <1>6 DEF Course, PriorAt, BodyOf, Said
<1>9. BackedAt(p)'
  <2> SUFFICES ASSUME NEW k \in 1..(op[p].next - 1), op[p].finding[Recipes[k]] # Skipped
               PROVE  \E j \in 1..n : Backs(j, Recipes[k], op[p].finding, p, op[p].now, p \in lone, n)'
    BY <1>1, <1>2, <1>4 DEF BackedAt, Backs, Aged, NewestBundle, BundleOf, Before, Said
  <2>1. PICK j \in 1..Len(log) : Backs(j, Recipes[k], op[p].finding, p, op[p].now, p \in lone, Len(log))
    BY DEF Course, BackedAt
  <2>2. NewestBundle(j, Recipes[k], Len(log)) => NewestBundle(j, Recipes[k], n)'
    BY <1>4, <1>5 DEF NewestBundle, BundleOf, Before, Said
  <2>3. Backs(j, Recipes[k], op[p].finding, p, op[p].now, p \in lone, n)'
    BY <1>2, <1>4, <1>5, <2>1, <2>2 DEF Backs, Aged, BundleOf, Said
  <2> QED BY <1>5, <2>3
<1>10. UnsaidAt(p)'
  BY <1>1 DEF UnsaidAt
<1>11. CoveredAt(p)'
  <2> SUFFICES ASSUME p \in lone, NEW t \in Slot, t \notin op[p].slots, op[p].file[t] \in Body
               PROVE  \E m \in 1..n : LastBody(m, t, n)' /\ Said(m)'.body = op[p].file[t]
    BY <1>1, <1>2, <1>4 DEF CoveredAt, LastBody, BodyOf, Said
  <2>1. PICK m \in 1..Len(log) : LastBody(m, t, Len(log)) /\ Said(m).body = op[p].file[t]
    BY <1>1 DEF Course, CoveredAt, Recording
  <2>2. LastBody(m, t, n)' /\ Said(m)'.body = op[p].file[t]
    BY <1>4, <1>5, <2>1 DEF LastBody, BodyOf, Said
  <2> QED BY <1>5, <2>2
<1>12. ObservedAt(p)'
  <2>1. LastObservation(n, n)' /\ Said(n)'.saw = op[p].file
    BY <1>4, <1>5 DEF LastObservation, Observation, Said
  <2>2. \E o \in 1..n : LastObservation(o, n)' /\ Said(o)'.saw = op[p].file
    BY <1>5, <2>1
  <2> QED BY <1>2, <1>4, <2>2 DEF ObservedAt, LastObservation, Observation, Said
<1>13. OwnAt(p)'
  <2>1. \A i \in 1..Len(log) : log[i].at = op[p].now =>
          /\ log[i].kind = "artifact" => Said(i).body = op[p].file[Said(i).slot]
          /\ log[i].kind # "observation" /\ log[i].kind # "run"
    BY <1>1 DEF Course, OwnAt, Working
  <2>2. ASSUME NEW b \in 1..Len(log), log[b].at = op[p].now, log[b].kind = "artifact"
        PROVE  Answered(b, Len(log))'
    <3>1. Said(b) \in BodySaid
      BY <2>2, Parts, Length DEF TypeOK
    <3>2. op[p].file[Said(b).slot] \in Body
      BY <2>1, <2>2, <3>1 DEF BodySaid
    <3>3. Observation(n)' /\ Said(n)'.saw[Said(b)'.slot] \in Body
      BY <1>4, <3>2 DEF Observation, Said
    <3>4. \A w \in 1..n : n < w => b < w
      BY <1>5
    <3> QED BY <1>4, <1>5, <3>3, <3>4 DEF Answered
  <2> QED BY <1>1, <1>2, <1>4, <1>5, <2>1, <2>2 DEF OwnAt, Said, Recording
<1> QED BY <1>7, <1>8, <1>9, <1>10, <1>11, <1>12, <1>13 DEF Course

-----------------------------------------------------------------------------
(* The inductive invariant: what the ledger says. *)

\* A body revises another one; and what its operation said of its slot later
\* names it, after an observation that does.
Kept ==
  \A b \in 1..Len(log) : log[b].kind = "artifact" =>
    /\ Said(b).supersedes # Said(b).body
    /\ \A k \in 1..Len(log) : log[k].kind \in {"observation", "run"} /\ log[k].at = log[b].at =>
         Said(k).saw[Said(b).slot] = Said(b).body /\ Answered(b, k)

Twins ==
  \A i, j \in 1..Len(log) : i < j /\ Alone(j) =>
    /\ \A r \in Recipe : BundleOf(i, r) /\ BundleOf(j, r) /\ NewestWord(i, r, j - 1)
         => Said(i).finding # Said(j).finding \/ Aged(i, log[j].by, log[j].at)
    /\ \A s \in Slot : BodyOf(i, s) /\ BodyOf(j, s) /\ Said(i).supersedes \in Body
         => Said(j).supersedes # Said(i).supersedes
            \/ \E k \in 1..Len(log) : BodyOf(k, s) /\ i < k /\ k < j /\ Said(k).body = Said(j).supersedes

\* The run record i vouches for its scan.
BackedRun(i) ==
  \A r \in Recipe : Said(i).finding[r] # Skipped =>
    \E j \in 1..(i - 1) : Backs(j, r, Said(i).finding, log[i].by, log[i].at, Alone(i), i)
DerivedRun(i) == \A j \in 1..(i - 1) : log[j].at = log[i].at => j <= Said(i).derived
CoveredRun(i) ==
  Alone(i) => \A s \in Slot : Said(i).saw[s] \in Body =>
    \E m \in 1..i : LastBody(m, s, i) /\ Said(m).body = Said(i).saw[s]
ObservedRun(i) ==
  Alone(i) /\ (\E s \in Slot : Said(i).saw[s] # Silent) =>
    \E o \in 1..i : LastObservation(o, i) /\ Said(o).saw = Said(i).saw
Vouched ==
  \A i \in 1..Len(log) : log[i].kind = "run" =>
    BackedRun(i) /\ DerivedRun(i) /\ CoveredRun(i) /\ ObservedRun(i)

\* The log with one statement more.
LEMMA OneMore ==
  ASSUME TypeOK, NEW p \in Process, NEW kind, NEW said, Says(p, kind, said)
  PROVE  \E n \in Nat :
           /\ n = Len(log) + 1 /\ Len(log) \in Nat /\ Len(log') = n /\ n \in 1..n
           /\ \A i \in 1..Len(log) : log'[i] = log[i] /\ i \in 1..n /\ i # n /\ i < n
           /\ \A i \in 1..n : i = n \/ i \in 1..Len(log)
           /\ log'[n].kind = kind /\ log'[n].payload = said /\ log'[n].at = op[p].now
           /\ log'[n].by = p /\ log'[n].lone = lone /\ log'[n].key = held[p]
<1>1. PICK n : n = Len(log) + 1
  OBVIOUS
<1>2. Len(log) \in Nat /\ n \in Nat
  BY <1>1, Numbers
<1>3. /\ \A i \in 1..Len(log) : i \in 1..n /\ i # n /\ i < n
      /\ \A i \in 1..n : i = n \/ i \in 1..Len(log)
      /\ n \in 1..n
  BY <1>1, <1>2
<1>4. /\ Len(log') = n /\ \A i \in 1..Len(log) : log'[i] = log[i]
      /\ log'[n].kind = kind /\ log'[n].payload = said /\ log'[n].at = op[p].now
      /\ log'[n].by = p /\ log'[n].lone = lone /\ log'[n].key = held[p]
  BY <1>1 DEF Says
<1> QED BY <1>1, <1>2, <1>3, <1>4

\* A statement more keeps what bodies are answered with.
LEMMA KeptSaid ==
  ASSUME TypeOK, Kept, NEW p \in Process, NEW kind, NEW said, Says(p, kind, said),
         Working(p), OwnAt(p),
         kind = "artifact" => said.supersedes # said.body /\ op[p].stage \notin {"derive", "record"},
         kind \in {"observation", "run"} => said.saw = op[p].file,
         kind = "run" => op[p].stage = "record"
  PROVE  Kept'
<1>1. PICK n \in Nat :
        /\ n = Len(log) + 1 /\ Len(log) \in Nat /\ Len(log') = n /\ n \in 1..n
        /\ \A i \in 1..Len(log) : log'[i] = log[i] /\ i \in 1..n /\ i # n /\ i < n
        /\ \A i \in 1..n : i = n \/ i \in 1..Len(log)
        /\ log'[n].kind = kind /\ log'[n].payload = said /\ log'[n].at = op[p].now
  BY OneMore
<1>2. Extended(p)
  BY SaysExtends
<1> SUFFICES ASSUME NEW b \in 1..n, log'[b].kind = "artifact"
             PROVE  /\ log'[b].payload.supersedes # log'[b].payload.body
                    /\ \A k \in 1..n :
                         log'[k].kind \in {"observation", "run"} /\ log'[k].at = log'[b].at =>
                           /\ log'[k].payload.saw[log'[b].payload.slot] = log'[b].payload.body
                           /\ Answered(b, k)'
  BY <1>1 DEF Kept, Said
<1>3. CASE b = n
  <2>1. kind = "artifact" /\ op[p].stage \notin {"derive", "record"}
    BY <1>1, <1>3
  <2>2. \A k \in 1..Len(log) : log[k].at = op[p].now => log[k].kind \notin {"observation", "run"}
    BY <2>1 DEF OwnAt
  <2>3. \A k \in 1..n : log'[k].at = op[p].now => log'[k].kind \notin {"observation", "run"}
    BY <1>1, <2>1, <2>2
  <2> QED BY <1>1, <1>3, <2>1, <2>3
<1>4. CASE b \in 1..Len(log)
  <2>1. log'[b] = log[b] /\ log[b].kind = "artifact" /\ Said(b) \in BodySaid
    BY <1>1, <1>4, Parts, Length DEF TypeOK
  <2>2. log'[b].payload.supersedes # log'[b].payload.body
    BY <1>4, <2>1 DEF Kept, Said
  <2> SUFFICES ASSUME NEW k \in 1..n, log'[k].kind \in {"observation", "run"}, log'[k].at = log'[b].at
               PROVE  /\ log'[k].payload.saw[log'[b].payload.slot] = log'[b].payload.body
                      /\ Answered(b, k)'
    BY <2>2
  <2>3. CASE k \in 1..Len(log)
    <3>1. Said(k).saw[Said(b).slot] = Said(b).body /\ Answered(b, k)
      BY <1>1, <1>4, <2>1, <2>3 DEF Kept
    <3>2. k \in 0..Len(log) /\ k \in Nat /\ k <= k
      BY <1>1, <2>3
    <3>3. Answered(b, k)'
      BY <1>2, <1>4, <3>1, <3>2, AnsweredKept
    <3> QED BY <1>1, <1>4, <2>3, <3>1, <3>3 DEF Said
  <2>4. CASE k = n
    <3>1. log[b].at = op[p].now /\ kind \in {"observation", "run"} /\ said.saw = op[p].file
      BY <1>1, <2>1, <2>4
    <3>2. /\ Said(b).body = op[p].file[Said(b).slot]
          /\ op[p].stage = "record" => Answered(b, Len(log))
      BY <1>4, <2>1, <3>1 DEF OwnAt
    <3>3. CASE kind = "run"
      <4>1. PICK l : l = Len(log)
        OBVIOUS
      <4>2. Answered(b, l) /\ l \in 0..Len(log) /\ l <= k /\ k \in Nat
        BY <1>1, <2>4, <3>2, <3>3, <4>1
      <4>3. Answered(b, k)'
        BY <1>2, <1>4, <4>2, AnsweredKept
      <4> QED BY <1>1, <2>1, <2>4, <3>1, <3>2, <4>3 DEF Said
    <3>4. CASE kind = "observation"
      <4>1. Observation(n)' /\ Said(n)'.saw[Said(b)'.slot] \in Body
        BY <1>1, <2>1, <3>1, <3>2, <3>4 DEF Observation, Said, BodySaid
      <4>2. \A w \in 1..n : n < w => b < w
        BY <1>1
      <4>3. Answered(b, k)'
        BY <1>1, <2>4, <4>1, <4>2 DEF Answered
      <4> QED BY <1>1, <2>1, <2>4, <3>1, <3>2, <4>3 DEF Said
    <3> QED BY <3>1, <3>3, <3>4
  <2> QED BY <1>1, <2>3, <2>4
<1> QED BY <1>1, <1>3, <1>4

\* A statement more repeats none that its operation did not overlap.
LEMMA TwinsSaid ==
  ASSUME TypeOK, Twins, NEW p \in Process, NEW kind, NEW said, Says(p, kind, said),
         kind = "evidence" /\ p \in lone =>
           \A i \in 1..Len(log) : log[i].kind = "evidence" /\ NewestWord(i, said.recipe, Len(log)) =>
             Said(i).finding # said.finding \/ Aged(i, p, op[p].now),
         kind = "artifact" /\ p \in lone =>
           \A i \in 1..Len(log) :
             /\ BodyOf(i, said.slot) /\ Said(i).supersedes \in Body
             /\ said.supersedes = Said(i).supersedes
             => \E k \in 1..Len(log) : BodyOf(k, said.slot) /\ i < k /\ Said(k).body = said.supersedes
  PROVE  Twins'
<1>1. PICK n \in Nat :
        /\ n = Len(log) + 1 /\ Len(log) \in Nat /\ Len(log') = n /\ n \in 1..n
        /\ \A i \in 1..Len(log) : log'[i] = log[i] /\ i \in 1..n /\ i # n /\ i < n
        /\ \A i \in 1..n : i = n \/ i \in 1..Len(log)
        /\ log'[n].kind = kind /\ log'[n].payload = said /\ log'[n].at = op[p].now
        /\ log'[n].by = p /\ log'[n].lone = lone
  BY OneMore
<1> SUFFICES ASSUME NEW i \in 1..n, NEW j \in 1..n, i < j, Alone(j)'
             PROVE  /\ \A r \in Recipe : BundleOf(i, r)' /\ BundleOf(j, r)' /\ NewestWord(i, r, j - 1)' =>
                         \/ log'[i].payload.finding # log'[j].payload.finding
                         \/ Aged(i, log[j].by, log[j].at)'
                    /\ \A s \in Slot :
                         BodyOf(i, s)' /\ BodyOf(j, s)' /\ log'[i].payload.supersedes \in Body =>
                         \/ log'[j].payload.supersedes # log'[i].payload.supersedes
                         \/ \E k \in 1..n : /\ BodyOf(k, s)' /\ i < k /\ k < j
                                            /\ log'[k].payload.body = log'[j].payload.supersedes
  BY <1>1 DEF Twins, Aged, Said, NewestWord, WordOn, BundleOf, BodyOf, Before
<1>2. i \in 1..Len(log) /\ log'[i] = log[i]
  <2>1. i # n
    BY <1>1
  <2> QED BY <1>1, <2>1
<1>3. \A k \in 1..Len(log) : \A r : (BundleOf(k, r)' <=> BundleOf(k, r)) /\ (WordOn(k, r)' <=> WordOn(k, r))
  BY <1>1 DEF BundleOf, WordOn, Said
<1>4. \A k \in 1..Len(log) : \A s : BodyOf(k, s)' <=> BodyOf(k, s)
  BY <1>1 DEF BodyOf, Said
<1>5. ASSUME NEW r, NEW l \in 0..Len(log), NewestWord(i, r, l)' PROVE NewestWord(i, r, l)
  BY <1>1, <1>2, <1>3, <1>5 DEF NewestWord, Before
<1>6. CASE j \in 1..Len(log)
  <2>1. log'[j] = log[j] /\ Alone(j)
    BY <1>1, <1>6 DEF Alone
  <2>2. ASSUME NEW r \in Recipe, BundleOf(i, r)', BundleOf(j, r)', NewestWord(i, r, j - 1)'
        PROVE  Said(i).finding # Said(j).finding \/ Aged(i, log[j].by, log[j].at)
    <3>1. PICK l : l = j - 1
      OBVIOUS
    <3>2. l \in 0..Len(log) /\ NewestWord(i, r, l)'
      BY <1>1, <1>6, <2>2, <3>1 DEF NewestWord
    <3>3. NewestWord(i, r, j - 1)
      BY <1>5, <3>1, <3>2
    <3> QED BY <1>2, <1>3, <1>6, <2>1, <2>2, <3>3 DEF Twins
  <2>3. ASSUME NEW s \in Slot, BodyOf(i, s)', BodyOf(j, s)', log'[i].payload.supersedes \in Body
        PROVE  \/ log'[j].payload.supersedes # log'[i].payload.supersedes
               \/ \E k \in 1..n : /\ BodyOf(k, s)' /\ i < k /\ k < j
                                  /\ log'[k].payload.body = log'[j].payload.supersedes
    <3>1. \/ Said(j).supersedes # Said(i).supersedes
          \/ \E k \in 1..Len(log) : BodyOf(k, s) /\ i < k /\ k < j /\ Said(k).body = Said(j).supersedes
      BY <1>2, <1>4, <1>6, <2>1, <2>3 DEF Twins, Said
    <3> QED BY <1>1, <1>2, <1>4, <2>1, <3>1 DEF Said
  <2> QED BY <1>2, <2>1, <2>2, <2>3 DEF Said, Aged
<1>7. CASE j = n
  <2>1. p \in lone
    BY <1>1, <1>7 DEF Alone
  <2>2. ASSUME NEW r \in Recipe, BundleOf(i, r)', BundleOf(j, r)', NewestWord(i, r, j - 1)'
        PROVE  Said(i).finding # said.finding \/ Aged(i, p, op[p].now)
    <3>1. PICK l : l = Len(log)
      OBVIOUS
    <3>2. l \in 0..Len(log) /\ NewestWord(i, r, l)'
      BY <1>1, <1>7, <2>2, <3>1 DEF NewestWord
    <3>3. NewestWord(i, r, Len(log))
      BY <1>5, <3>1, <3>2
    <3>4. kind = "evidence" /\ said.recipe = r /\ log[i].kind = "evidence"
      BY <1>1, <1>2, <1>7, <2>2 DEF BundleOf, Said
    <3> QED BY <1>2, <2>1, <3>3, <3>4
  <2>3. ASSUME NEW s \in Slot, BodyOf(i, s)', BodyOf(j, s)', log'[i].payload.supersedes \in Body,
               log'[j].payload.supersedes = log'[i].payload.supersedes
        PROVE  \E k \in 1..n : /\ BodyOf(k, s)' /\ i < k /\ k < j
                               /\ log'[k].payload.body = log'[j].payload.supersedes
    <3>1. kind = "artifact" /\ said.slot = s /\ said.supersedes = Said(i).supersedes
      BY <1>1, <1>2, <1>7, <2>3 DEF BodyOf, Said
    <3>2. BodyOf(i, s) /\ Said(i).supersedes \in Body
      BY <1>2, <1>4, <2>3 DEF Said
    <3>3. PICK k \in 1..Len(log) : BodyOf(k, s) /\ i < k /\ Said(k).body = said.supersedes
      BY <1>2, <2>1, <3>1, <3>2
    <3> QED BY <1>1, <1>4, <1>7, <3>3 DEF Said
  <2> QED BY <1>1, <1>2, <1>7, <2>2, <2>3 DEF Said, Aged
<1> QED BY <1>1, <1>6, <1>7

\* A record goes on vouching.
LEMMA VouchedStays ==
  ASSUME TypeOK, NEW p \in Process, Extended(p), NEW i \in 1..Len(log),
         BackedRun(i), DerivedRun(i), CoveredRun(i), ObservedRun(i)
  PROVE  (BackedRun(i) /\ DerivedRun(i) /\ CoveredRun(i) /\ ObservedRun(i))'
<1>1. Len(log) \in Nat /\ \A k \in 1..i : k \in 1..Len(log) /\ log'[k] = log[k]
  BY Numbers DEF Extended
<1>2. i \in 1..i /\ \A k \in 1..(i - 1) : k \in 1..i
  BY <1>1
<1>3. log'[i] = log[i]
  BY <1>1, <1>2
<1>4. BackedRun(i)'
  <2> SUFFICES ASSUME NEW r \in Recipe, Said(i)'.finding[r] # Skipped
               PROVE  \E j \in 1..(i - 1) : Backs(j, r, Said(i).finding, log[i].by, log[i].at, Alone(i), i)'
    BY DEF BackedRun
  <2>1. PICK j \in 1..(i - 1) : Backs(j, r, Said(i).finding, log[i].by, log[i].at, Alone(i), i)
    BY <1>3 DEF BackedRun, Said
  <2>2. Backs(j, r, Said(i).finding, log[i].by, log[i].at, Alone(i), i)'
    BY <1>1, <1>2, <1>3, <2>1 DEF Backs, Aged, NewestBundle, BundleOf, Before, Said, Alone
  <2> QED BY <2>2
<1>5. DerivedRun(i)'
  BY <1>1, <1>2, <1>3 DEF DerivedRun, Said
<1>6. CoveredRun(i)'
  <2> SUFFICES ASSUME Alone(i)', NEW s \in Slot, Said(i)'.saw[s] \in Body
               PROVE  \E m \in 1..i : LastBody(m, s, i)' /\ Said(m)'.body = Said(i)'.saw[s]
    BY DEF CoveredRun
  <2>1. PICK m \in 1..i : LastBody(m, s, i) /\ Said(m).body = Said(i).saw[s]
    BY <1>3 DEF CoveredRun, Alone, Said
  <2>2. LastBody(m, s, i)' /\ Said(m)'.body = Said(i)'.saw[s]
    BY <1>1, <1>3, <2>1 DEF LastBody, BodyOf, Said
  <2> QED BY <2>2
<1>7. ObservedRun(i)'
  <2> SUFFICES ASSUME Alone(i)', \E s \in Slot : Said(i)'.saw[s] # Silent
               PROVE  \E o \in 1..i : LastObservation(o, i)' /\ Said(o)'.saw = Said(i)'.saw
    BY DEF ObservedRun
  <2>1. PICK o \in 1..i : LastObservation(o, i) /\ Said(o).saw = Said(i).saw
    BY <1>3 DEF ObservedRun, Alone, Said
  <2>2. LastObservation(o, i)' /\ Said(o)'.saw = Said(i)'.saw
    BY <1>1, <1>3, <2>1 DEF LastObservation, Observation, Said
  <2> QED BY <2>2
<1> QED BY <1>4, <1>5, <1>6, <1>7

\* A run record vouches from the start.
LEMMA VouchedSaid ==
  ASSUME TypeOK, Vouched, NEW p \in Process, NEW kind, NEW said, Says(p, kind, said),
         kind = "run" => said = RunOf(p) /\ op[p].stage = "record" /\ Course(p)
  PROVE  Vouched'
<1>1. PICK n \in Nat :
        /\ n = Len(log) + 1 /\ Len(log) \in Nat /\ Len(log') = n /\ n \in 1..n
        /\ \A i \in 1..Len(log) : log'[i] = log[i] /\ i \in 1..n /\ i # n /\ i < n
        /\ \A i \in 1..n : i = n \/ i \in 1..Len(log)
        /\ log'[n].kind = kind /\ log'[n].payload = said /\ log'[n].at = op[p].now
        /\ log'[n].by = p /\ log'[n].lone = lone
  BY OneMore
<1> SUFFICES ASSUME NEW i \in 1..n, log'[i].kind = "run"
             PROVE  (BackedRun(i) /\ DerivedRun(i) /\ CoveredRun(i) /\ ObservedRun(i))'
  BY <1>1 DEF Vouched
<1>2. CASE i \in 1..Len(log)
  <2>1. BackedRun(i) /\ DerivedRun(i) /\ CoveredRun(i) /\ ObservedRun(i)
    BY <1>1, <1>2 DEF Vouched
  <2>2. Extended(p)
    BY SaysExtends
  <2> QED BY <1>2, <2>1, <2>2, VouchedStays
<1>3. CASE i = n
  <2>1. kind = "run" /\ op[p].stage = "record" /\ Course(p) /\ Working(p)
    BY <1>1, <1>3 DEF Working
  <2>2. /\ log'[n].payload.finding = op[p].finding /\ log'[n].payload.saw = op[p].file
        /\ log'[n].payload.derived = op[p].derived
    BY <1>1, <2>1 DEF RunOf
  <2>3. \A k \in 1..n : k # n => k \in 1..(n - 1) /\ k \in 1..Len(log)
    BY <1>1
  <2>4. op[p].next = Len(Recipes) + 1 /\ op[p].slots = {} /\ Len(Recipes) \in Nat
    BY <2>1, FirstRecipe DEF Course, StagedAt, Comparing, Behind
  <2>5. Alone(n)' <=> p \in lone
    BY <1>1 DEF Alone
  <2>6. BackedRun(n)'
    <3> SUFFICES ASSUME NEW r \in Recipe, op[p].finding[r] # Skipped
                 PROVE  \E j \in 1..(n - 1) : Backs(j, r, Said(n).finding, log[n].by, log[n].at, Alone(n), n)'
      BY <2>2 DEF BackedRun, Said
    <3>1. PICK k \in 1..Len(Recipes) : r = Recipes[k]
      BY ScanAssumption DEF Recipe
    <3>2. PICK j \in 1..Len(log) : Backs(j, r, op[p].finding, p, op[p].now, p \in lone, Len(log))
      BY <2>1, <2>4, <3>1 DEF Course, BackedAt
    <3>3. NewestBundle(j, r, Len(log)) => NewestBundle(j, r, n)'
      BY <1>1, <2>1 DEF NewestBundle, BundleOf, Before, Said
    <3>4. Backs(j, r, Said(n).finding, log[n].by, log[n].at, Alone(n), n)'
      BY <1>1, <2>2, <2>5, <3>2, <3>3 DEF Backs, Aged, BundleOf, Said
    <3> QED BY <1>1, <2>3, <3>4
  <2>7. DerivedRun(n)'
    BY <1>1, <2>1, <2>2 DEF DerivedRun, Course, OwnAt, Said
  <2>8. CoveredRun(n)'
    <3> SUFFICES ASSUME p \in lone, NEW s \in Slot, op[p].file[s] \in Body
                 PROVE  \E m \in 1..n : LastBody(m, s, n)' /\ Said(m)'.body = op[p].file[s]
      BY <2>2, <2>5 DEF CoveredRun, Said
    <3>1. PICK m \in 1..Len(log) : LastBody(m, s, Len(log)) /\ Said(m).body = op[p].file[s]
      BY <2>1, <2>4 DEF Course, CoveredAt, Recording
    <3>2. LastBody(m, s, n)' /\ Said(m)'.body = op[p].file[s]
      BY <1>1, <2>1, <3>1 DEF LastBody, BodyOf, Said
    <3> QED BY <1>1, <3>2
  <2>9. ObservedRun(n)'
    <3> SUFFICES ASSUME p \in lone, \E s \in Slot : op[p].file[s] # Silent
                 PROVE  \E o \in 1..n : LastObservation(o, n)' /\ Said(o)'.saw = op[p].file
      BY <2>2, <2>5 DEF ObservedRun, Said
    <3>1. PICK o \in 1..Len(log) : LastObservation(o, Len(log)) /\ Said(o).saw = op[p].file
      BY <2>1 DEF Course, ObservedAt
    <3>2. LastObservation(o, n)' /\ Said(o)'.saw = op[p].file
      BY <1>1, <2>1, <3>1 DEF LastObservation, Observation, Said
    <3> QED BY <1>1, <3>2
  <2> QED BY <1>3, <2>6, <2>7, <2>8, <2>9
<1> QED BY <1>1, <1>2, <1>3

\* A pair that signed something stays.
LEMMA VerifiedSigning ==
  ASSUME TypeOK, KeysInv, EveryStatementVerifies, NEW p \in Process, NeedKeys(p) \/ KeyStep(p), log' = log
  PROVE  EveryStatementVerifies'
<1> SUFFICES ASSUME NEW i \in DOMAIN log PROVE log[i].key = public' /\ log[i].key = private'
  BY DEF EveryStatementVerifies
<1>1. log[i].key \in Process
  <2>1. log[i] \in Statement
    BY DEF TypeOK
  <2> QED BY <2>1 DEF Statement, Signed
<1>2. log[i].key = public /\ log[i].key = private /\ public \in Process /\ private \in Process
  BY <1>1 DEF EveryStatementVerifies
<1>3. keyStep[p] # "fillPrivate" /\ keyStep[p] # "fillPublic" /\ ~Creatable(private) /\ ~Creatable(public)
  BY <1>2, SignerAssumption DEF KeysInv, Paired, Creatable
<1>4. public' = public /\ private' = private
  BY <1>3 DEF NeedKeys, KeyStep, ReadPublic, MakePrivate, FillPrivate, MakePublic, FillPublic
<1> QED BY <1>2, <1>4

\* What is signed is signed with the pair on disk.
LEMMA VerifiedSaid ==
  ASSUME TypeOK, KeysInv, EveryStatementVerifies, NEW p \in Process, NEW kind, NEW said,
         Says(p, kind, said), held[p] # NoKey, public' = public, private' = private
  PROVE  EveryStatementVerifies'
<1>1. PICK n \in Nat :
        /\ Len(log') = n
        /\ \A i \in 1..Len(log) : log'[i] = log[i]
        /\ \A i \in 1..n : i = n \/ i \in 1..Len(log)
        /\ log'[n].key = held[p] /\ n = Len(log) + 1
  BY OneMore
<1>2. held[p] = private /\ held[p] = public
  BY DEF KeysInv, Paired
<1>3. DOMAIN log' = 1..n /\ DOMAIN log = 1..Len(log)
  BY <1>1, Length DEF Says, TypeOK
<1> QED BY <1>1, <1>2, <1>3 DEF EveryStatementVerifies

-----------------------------------------------------------------------------
(* The inductive invariant, and each step. *)

Recorded == EveryStatementVerifies /\ Kept /\ Twins /\ Vouched
Inv ==
  /\ TypeOK /\ KeysInv /\ Schedule /\ Recorded
  /\ \A p \in Process : Course(p)

\* Nothing said, nothing changed.
LEMMA SameRecorded ==
  ASSUME Kept, Twins, Vouched, log' = log
  PROVE  (Kept /\ Twins /\ Vouched)'
<1>1. Kept'
  BY DEF Kept, Answered, Observation, Said
<1>2. Twins'
  BY DEF Twins, Alone, Aged, BundleOf, BodyOf, NewestWord, WordOn, Before, Said
<1>3. Vouched'
  BY DEF Vouched, BackedRun, DerivedRun, CoveredRun, ObservedRun, Backs, Aged, Alone, BundleOf, BodyOf,
         NewestBundle, Before, LastBody, LastObservation, Observation, Said
<1> QED BY <1>1, <1>2, <1>3

\* The keys left alone.
LEMMA SameKeys ==
  ASSUME KeysInv, private' = private, public' = public, keyStep' = keyStep, held' = held
  PROVE  KeysInv'
BY DEF KeysInv, KeysType, Paired

\* Whoever runs beside somebody else is not alone.
LEMMA NotLone ==
  ASSUME Schedule, NEW p \in Process, Working(p), NEW q \in Process \ {p}
  PROVE  q \notin lone
BY DEF Schedule, SoloAt

\* An operation that reads.
LEMMA QuietStep ==
  ASSUME Inv, NEW p \in Process, Looks(p), Working(p), op'[p].stage # "off", Course(p)', Reads
  PROVE  Inv'
<1>1. /\ Moved(p) /\ TypeOK' /\ log' = log /\ clock' = clock /\ lone' = lone /\ op'[p].now = op[p].now
      /\ private' = private /\ public' = public /\ keyStep' = keyStep /\ held' = held
  BY DEF Looks, Reads, keyVars
<1>2. TypeOK /\ KeysInv /\ Schedule /\ EveryStatementVerifies /\ Kept /\ Twins /\ Vouched
  BY DEF Inv, Recorded
<1>3. Extended(p)
  BY <1>1, <1>2, SameExtends
<1>4. Schedule' /\ KeysInv'
  BY <1>1, <1>2, <1>3, ScheduleOn, SameKeys
<1>5. Recorded'
  <2>1. (Kept /\ Twins /\ Vouched)'
    BY <1>1, <1>2, SameRecorded
  <2>2. EveryStatementVerifies'
    BY <1>1, <1>2 DEF EveryStatementVerifies
  <2> QED BY <2>1, <2>2 DEF Recorded
<1>6. ASSUME NEW q \in Process \ {p} PROVE Course(q)'
  <2>1. q \notin lone' /\ Course(q)
    BY <1>1, <1>2, NotLone DEF Inv
  <2> QED BY <1>1, <1>2, <1>3, <2>1, Others
<1> QED BY <1>1, <1>4, <1>5, <1>6 DEF Inv

\* An operation that says something and goes on.
LEMMA SpeakStep ==
  ASSUME Inv, NEW p \in Process, NEW kind, NEW said, Spoken(p), Says(p, kind, said), held[p] # NoKey,
         Working(p), op'[p].stage # "off", Course(p)', (Kept /\ Twins /\ Vouched)'
  PROVE  Inv'
<1>1. /\ Moved(p) /\ TypeOK' /\ clock' = clock /\ lone' = lone /\ op'[p].now = op[p].now
      /\ private' = private /\ public' = public /\ keyStep' = keyStep /\ held' = held
  BY DEF Spoken
<1>2. TypeOK /\ KeysInv /\ Schedule /\ EveryStatementVerifies
  BY DEF Inv, Recorded
<1>3. Extended(p)
  BY <1>2, SaysExtends
<1>4. Schedule' /\ KeysInv'
  BY <1>1, <1>2, <1>3, ScheduleOn, SameKeys
<1>5. Recorded'
  BY <1>1, <1>2, VerifiedSaid DEF Recorded
<1>6. ASSUME NEW q \in Process \ {p} PROVE Course(q)'
  <2>1. q \notin lone' /\ Course(q)
    BY <1>1, <1>2, NotLone DEF Inv
  <2> QED BY <1>1, <1>2, <1>3, <2>1, Others
<1> QED BY <1>1, <1>4, <1>5, <1>6 DEF Inv

\* An operation that begins.
LEMMA BegunStep ==
  ASSUME Inv, NEW p \in Process, Begun(p), op'[p].stage # "off", Course(p)'
  PROVE  Inv'
<1>1. /\ Moved(p) /\ TypeOK' /\ log' = log /\ lone' = IF Active = {} THEN {p} ELSE {}
      /\ private' = private /\ public' = public /\ keyStep' = keyStep /\ held' = held
  BY DEF Begun
<1>2. TypeOK /\ KeysInv /\ Schedule /\ EveryStatementVerifies /\ Kept /\ Twins /\ Vouched
  BY DEF Inv, Recorded
<1>3. Extended(p)
  BY <1>1, <1>2, SameExtends
<1>4. Schedule' /\ KeysInv'
  BY <1>1, <1>2, ScheduleBegun, SameKeys
<1>5. Recorded'
  <2>1. (Kept /\ Twins /\ Vouched)'
    BY <1>1, <1>2, SameRecorded
  <2>2. EveryStatementVerifies'
    BY <1>1, <1>2 DEF EveryStatementVerifies
  <2> QED BY <2>1, <2>2 DEF Recorded
<1>6. ASSUME NEW q \in Process \ {p} PROVE Course(q)'
  <2>1. q \notin lone' /\ Course(q) /\ ~(Len(log') > Len(log))
    BY <1>1, <1>2, Numbers DEF Inv
  <2> QED BY <1>1, <1>2, <1>3, <2>1, Others
<1> QED BY <1>1, <1>4, <1>5, <1>6 DEF Inv

\* An operation that ends, with a last word or without.
LEMMA EndStep ==
  ASSUME Inv, NEW p \in Process, Stopped(p), TypeOK', Extended(p), Recorded'
  PROVE  Inv'
<1>1. /\ Moved(p) /\ op'[p] = Idle /\ Working(p) /\ lone' = lone \ {p} /\ clock' = clock /\ DropKeys(p)
  BY DEF Stopped, Working
<1>2. TypeOK /\ KeysInv /\ Schedule
  BY DEF Inv
<1>3. Schedule' /\ KeysInv'
  BY <1>1, <1>2, ScheduleStopped, DropStep
<1>4. Course(p)'
  BY <1>1, CourseIdle
<1>5. ASSUME NEW q \in Process \ {p} PROVE Course(q)'
  <2>1. q \notin lone' /\ Course(q)
    BY <1>1, <1>2, NotLone DEF Inv
  <2> QED BY <1>1, <1>2, <2>1, Others
<1> QED BY <1>3, <1>4, <1>5 DEF Inv

\* Neither a commit nor the work on the keys moves an operation or the ledger.
LEMMA StillStep ==
  ASSUME Inv, op' = op, log' = log, lone' = lone, clock' = clock, TypeOK', KeysInv', EveryStatementVerifies'
  PROVE  Inv'
<1>1. Schedule'
  BY DEF Inv, Schedule, Instants, RestAt, SoloAt, TimedAt, Working
<1>2. Recorded'
  BY SameRecorded DEF Inv, Recorded
<1>3. ASSUME NEW p \in Process PROVE Course(p)'
  <2>1. StagedAt(p)' /\ PriorAt(p)'
    BY DEF Inv, Course, StagedAt, PriorAt, BodyOf, Said
  <2>2. BackedAt(p)' /\ UnsaidAt(p)'
    BY DEF Inv, Course, BackedAt, UnsaidAt, Backs, Aged, NewestBundle, BundleOf, NewestWord, WordOn, Before, Said
  <2>3. CoveredAt(p)' /\ ObservedAt(p)' /\ OwnAt(p)'
    BY DEF Inv, Course, CoveredAt, ObservedAt, OwnAt, LastBody, BodyOf, LastObservation, Observation, Answered,
           Working, Said
  <2> QED BY <2>1, <2>2, <2>3 DEF Course
<1> QED BY <1>1, <1>2, <1>3 DEF Inv

\* It holds of an empty ledger.
LEMMA InitInv == Init => Inv
<1> SUFFICES ASSUME Init PROVE Inv
  OBVIOUS
<1>1. /\ log = <<>> /\ lone = {} /\ op = [p \in Process |-> Idle] /\ clock \in 0..1 /\ events = 0
      /\ tree \in [finding : Findings, file : Files, touched : {[s \in Slot |-> 0]}]
  BY DEF Init
<1>2. TypeOK
  <2>1. [s \in Slot |-> 0] \in Counts
    BY DEF Counts
  <2>2. tree \in [finding : Findings, file : Files, touched : Counts]
    BY <1>1, <2>1
  <2>3. log \in Seq(Statement) /\ op \in [Process -> Operation] /\ clock \in Nat /\ events \in Nat
    BY <1>1, IdleIs
  <2> QED BY <1>1, <2>2, <2>3 DEF TypeOK
<1>3. KeysInv
  BY KeysStart
<1>4. \A p \in Process : op[p] = Idle /\ op[p].stage = "off"
  BY <1>1, IdleIs
<1>5. Len(log) = 0 /\ DOMAIN log = {} /\ 1..Len(log) = {}
  BY <1>1
<1>6. Schedule
  BY <1>1, <1>4, <1>5 DEF Schedule, Instants, RestAt, SoloAt, TimedAt, Working
<1>7. Recorded
  BY <1>5 DEF Recorded, EveryStatementVerifies, Kept, Twins, Vouched
<1>8. ASSUME NEW p \in Process PROVE Course(p)
  <2>1. /\ op[p].stage = "off" /\ op[p].next = 1 /\ op[p].slots = {} /\ \A s \in Slot : op[p].prior[s] = None
    BY <1>4, IdleIs
  <2> QED BY <1>1, <2>1 DEF Course, StagedAt, PriorAt, BackedAt, UnsaidAt, CoveredAt, ObservedAt, OwnAt, Working,
                            Comparing, Behind
<1> QED BY <1>2, <1>3, <1>6, <1>7, <1>8 DEF Inv

\* A scan collects,
LEMMA CollectStep ==
  ASSUME Inv, NEW p \in Process, Collect(p) PROVE Inv'
<1>1. /\ Looks(p) /\ Working(p) /\ op'[p].stage # "off" /\ Reads
  BY CollectDoes DEF Inv, Working, Collect
<1>2. Course(p)'
  BY CourseCollect DEF Inv
<1> QED BY <1>1, <1>2, QuietStep

\* compares,
LEMMA CompareStep ==
  ASSUME Inv, NEW p \in Process, Compare(p) PROVE Inv'
<1>1. TypeOK /\ Instants /\ Course(p) /\ StagedAt(p)
  BY DEF Inv, Schedule, Course
<1>2. Looks(p) /\ Working(p) /\ op'[p].stage # "off" /\ Reads
  BY <1>1, CompareDoes DEF Working, Compare
<1>3. Course(p)'
  BY <1>1, CourseCompare
<1> QED BY <1>2, <1>3, QuietStep

\* reads the declarations,
LEMMA DeclareStep ==
  ASSUME Inv, NEW p \in Process, Declare(p) PROVE Inv'
<1>1. Looks(p) /\ Working(p) /\ op'[p].stage # "off" /\ Reads
  BY DeclareDoes DEF Inv, Working, Declare
<1>2. Course(p)'
  BY CourseDeclare DEF Inv
<1> QED BY <1>1, <1>2, QuietStep

\* lists the bodies,
LEMMA ListStep ==
  ASSUME Inv, NEW p \in Process, ListBodies(p) PROVE Inv'
<1>1. Looks(p) /\ Working(p) /\ op'[p].stage # "off" /\ Reads
  BY ListDoes DEF Inv, Working, ListBodies
<1>2. Course(p)'
  BY CourseList DEF Inv
<1> QED BY <1>1, <1>2, QuietStep

\* finds whether it has to observe,
LEMMA ObserveStep ==
  ASSUME Inv, NEW p \in Process, Observe(p) PROVE Inv'
<1>1. Looks(p) /\ Working(p) /\ op'[p].stage # "off" /\ Reads
  BY ObserveDoes DEF Inv, Working, Observe
<1>2. Course(p)'
  BY CourseObserve DEF Inv
<1> QED BY <1>1, <1>2, QuietStep

\* and derives the model.
LEMMA DeriveStep ==
  ASSUME Inv, NEW p \in Process, DeriveModel(p) PROVE Inv'
<1>1. Looks(p) /\ Working(p) /\ op'[p].stage # "off" /\ Reads
  BY DeriveDoes DEF Inv, Working, DeriveModel
<1>2. Course(p)'
  BY CourseDerive DEF Inv
<1> QED BY <1>1, <1>2, QuietStep

\* A scan signs a bundle.
LEMMA SignBundleStep ==
  ASSUME Inv, NEW p \in Process, SignBundle(p) PROVE Inv'
<1>1. TypeOK /\ KeysInv /\ Schedule /\ Kept /\ Twins /\ Vouched /\ Course(p) /\ StagedAt(p) /\ OwnAt(p)
  BY DEF Inv, Recorded, Course
<1>2. PICK said : said = BundleSaid(p)
  OBVIOUS
<1>3. /\ Says(p, "evidence", said) /\ Spoken(p) /\ op[p].stage = "evidence" /\ held[p] # NoKey
      /\ Working(p) /\ op'[p].stage # "off"
  BY <1>1, <1>2, SignBundleDoes DEF Working
<1>4. Course(p)'
  BY <1>1, CourseSignBundle
<1>5. Kept'
  BY <1>1, <1>3, KeptSaid
<1>6. Twins'
  <2>1. said.recipe = Recipes[op[p].next] /\ said.finding = op[p].finding[Recipes[op[p].next]]
    BY <1>2 DEF BundleSaid
  <2>2. p \in lone =>
          \A i \in 1..Len(log) : log[i].kind = "evidence" /\ NewestWord(i, said.recipe, Len(log)) =>
            Said(i).finding # said.finding \/ Aged(i, p, op[p].now)
    BY <1>1, <1>3, <2>1 DEF Course, UnsaidAt
  <2> QED BY <1>1, <1>3, <2>2, TwinsSaid
<1>7. Vouched'
  BY <1>1, <1>3, VouchedSaid
<1> QED BY <1>3, <1>4, <1>5, <1>6, <1>7, SpeakStep

\* Two revisions of one body overlapped, or one came back to it.
LEMMA RevisionIsNews ==
  ASSUME Inv, NEW p \in Process, NEW s \in op[p].slots, NEW commit, p \in lone,
         NEW i \in 1..Len(log), BodyOf(i, s), Said(i).supersedes \in Body,
         SlotSaid(p, s, commit).supersedes = Said(i).supersedes
  PROVE  \E k \in 1..Len(log) : BodyOf(k, s) /\ i < k /\ Said(k).body = SlotSaid(p, s, commit).supersedes
<1>1. TypeOK /\ Kept /\ StagedAt(p) /\ PriorAt(p) /\ s \in Slot /\ op[p].file[s] \in Body
  BY OpParts DEF Inv, Recorded, Course, StagedAt, TypeOK
<1>2. PICK k : k = op[p].prior[s]
  OBVIOUS
<1>3. k # None /\ Said(i).supersedes = Said(k).body
  BY <1>1, <1>2, RevisedIs DEF SlotSaid
<1>4. k \in 1..Len(log) /\ BodyOf(k, s) /\ i <= k
  BY <1>1, <1>2, <1>3 DEF PriorAt
<1>5. i # k
  BY <1>1, <1>3 DEF Kept, BodyOf
<1>6. i < k
  BY <1>4, <1>5
<1> QED BY <1>3, <1>4, <1>6

\* So a body repeats no revision.
LEMMA TwinsBody ==
  ASSUME Inv, NEW p \in Process, NEW s \in op[p].slots, NEW commit,
         Says(p, "artifact", SlotSaid(p, s, commit))
  PROVE  Twins'
<1>1. PICK said : said = SlotSaid(p, s, commit)
  OBVIOUS
<1>2. said.slot = s
  BY <1>1 DEF SlotSaid
<1>3. p \in lone =>
        \A i \in 1..Len(log) :
          BodyOf(i, said.slot) /\ Said(i).supersedes \in Body /\ said.supersedes = Said(i).supersedes =>
            \E k \in 1..Len(log) : BodyOf(k, said.slot) /\ i < k /\ Said(k).body = said.supersedes
  BY <1>1, <1>2, RevisionIsNews
<1>4. TypeOK /\ Twins /\ Says(p, "artifact", said)
  BY <1>1 DEF Inv, Recorded
<1> QED BY <1>3, <1>4, TwinsSaid

\* A scan signs a body,
LEMMA SignBodyStep ==
  ASSUME Inv, NEW p \in Process, SignBody(p) PROVE Inv'
<1>1. /\ TypeOK /\ KeysInv /\ Schedule /\ Kept /\ Twins /\ Vouched /\ Course(p) /\ StagedAt(p) /\ PriorAt(p)
      /\ OwnAt(p)
  BY DEF Inv, Recorded, Course
<1>2. /\ Spoken(p) /\ op[p].stage = "artifact" /\ op'[p].stage = op[p].stage /\ held[p] # NoKey
      /\ Working(p) /\ op'[p].stage # "off"
  BY <1>1, SignBodyDoes DEF Working
<1>3. PICK s \in op[p].slots, commit \in Nat :
        /\ Says(p, "artifact", SlotSaid(p, s, commit))
        /\ SlotSaid(p, s, commit).supersedes # SlotSaid(p, s, commit).body
  BY <1>1, SignBodyDoes
<1>4. Course(p)'
  BY <1>1, CourseSignBody
<1>5. Twins'
  BY <1>3, TwinsBody
<1>6. PICK said : said = SlotSaid(p, s, commit)
  OBVIOUS
<1>7. Says(p, "artifact", said) /\ said.supersedes # said.body
  BY <1>3, <1>6
<1>8. Kept' /\ Vouched'
  BY <1>1, <1>2, <1>7, KeptSaid, VouchedSaid
<1> QED BY <1>2, <1>4, <1>5, <1>7, <1>8, SpeakStep

\* its observation,
LEMMA SignObservationStep ==
  ASSUME Inv, NEW p \in Process, SignObservation(p) PROVE Inv'
<1>1. TypeOK /\ KeysInv /\ Schedule /\ Kept /\ Twins /\ Vouched /\ Course(p) /\ OwnAt(p)
  BY DEF Inv, Recorded, Course
<1>2. PICK said : said = [saw |-> op[p].file]
  OBVIOUS
<1>3. /\ Says(p, "observation", said) /\ Spoken(p) /\ op[p].stage = "observation" /\ held[p] # NoKey
      /\ Working(p) /\ op'[p].stage # "off" /\ said.saw = op[p].file
  BY <1>1, <1>2, SignObservationDoes DEF Working
<1>4. Course(p)'
  BY <1>1, CourseSignObservation
<1>5. Kept'
  BY <1>1, <1>3, KeptSaid
<1>6. Twins' /\ Vouched'
  BY <1>1, <1>3, TwinsSaid, VouchedSaid
<1> QED BY <1>3, <1>4, <1>5, <1>6, SpeakStep

\* and the run record.
LEMMA RecordRunStep ==
  ASSUME Inv, NEW p \in Process, RecordRun(p) PROVE Inv'
<1>1. /\ TypeOK /\ KeysInv /\ EveryStatementVerifies /\ Kept /\ Twins /\ Vouched /\ Course(p) /\ OwnAt(p)
  BY DEF Inv, Recorded, Course
<1>2. PICK said : said = RunOf(p)
  OBVIOUS
<1>3. /\ Says(p, "run", said) /\ Stopped(p) /\ TypeOK' /\ op[p].stage = "record" /\ held[p] # NoKey
      /\ Working(p) /\ said.saw = op[p].file
  BY <1>1, <1>2, RecordRunDoes DEF Working, RunOf
<1>4. Extended(p)
  BY <1>1, <1>3, SaysExtends
<1>5. public' = public /\ private' = private
  BY <1>3 DEF Stopped, DropKeys
<1>6. EveryStatementVerifies'
  BY <1>1, <1>3, <1>5, VerifiedSaid
<1>7. Kept'
  BY <1>1, <1>3, KeptSaid
<1>8. Twins' /\ Vouched'
  BY <1>1, <1>2, <1>3, TwinsSaid, VouchedSaid
<1> QED BY <1>3, <1>4, <1>6, <1>7, <1>8, EndStep DEF Recorded

\* A hand signs its body.
LEMMA ReviseStep ==
  ASSUME Inv, NEW p \in Process, Revise(p) PROVE Inv'
<1>1. /\ TypeOK /\ KeysInv /\ EveryStatementVerifies /\ Kept /\ Twins /\ Vouched /\ Course(p) /\ StagedAt(p)
      /\ PriorAt(p) /\ OwnAt(p)
  BY DEF Inv, Recorded, Course
<1>2. Stopped(p) /\ TypeOK' /\ op[p].stage = "revise" /\ held[p] # NoKey /\ Working(p)
  BY <1>1, ReviseDoes DEF Working
<1>3. PICK s \in op[p].slots :
        /\ Says(p, "artifact", SlotSaid(p, s, ByHand))
        /\ SlotSaid(p, s, ByHand).supersedes # SlotSaid(p, s, ByHand).body
  BY <1>1, ReviseDoes
<1>4. Twins'
  BY <1>3, TwinsBody
<1>5. PICK said : said = SlotSaid(p, s, ByHand)
  OBVIOUS
<1>6. Says(p, "artifact", said) /\ said.supersedes # said.body
  BY <1>3, <1>5
<1>7. Extended(p) /\ public' = public /\ private' = private
  BY <1>1, <1>2, <1>6, SaysExtends DEF Stopped, DropKeys
<1>8. EveryStatementVerifies'
  BY <1>1, <1>2, <1>6, <1>7, VerifiedSaid
<1>9. Kept' /\ Vouched'
  BY <1>1, <1>2, <1>6, KeptSaid, VouchedSaid
<1> QED BY <1>2, <1>4, <1>7, <1>8, <1>9, EndStep DEF Recorded

\* A recipe is scoped out.
LEMMA ScopeOutStep ==
  ASSUME Inv, NEW p \in Process, ScopeOut(p) PROVE Inv'
<1>1. /\ TypeOK /\ KeysInv /\ EveryStatementVerifies /\ Kept /\ Twins /\ Vouched /\ OwnAt(p)
  BY DEF Inv, Recorded, Course
<1>2. PICK r \in Recipe :
        /\ Stopped(p) /\ TypeOK' /\ op[p].stage = "scope" /\ held[p] # NoKey /\ Working(p)
        /\ Says(p, "scoping", [recipe |-> r])
  BY <1>1, ScopeOutDoes DEF Working
<1>3. PICK said : said = [recipe |-> r]
  OBVIOUS
<1>4. Says(p, "scoping", said)
  BY <1>2, <1>3
<1>5. Extended(p) /\ public' = public /\ private' = private
  BY <1>1, <1>2, <1>4, SaysExtends DEF Stopped, DropKeys
<1>6. EveryStatementVerifies'
  BY <1>1, <1>2, <1>4, <1>5, VerifiedSaid
<1>7. Kept'
  BY <1>1, <1>2, <1>4, KeptSaid
<1>8. Twins' /\ Vouched'
  BY <1>1, <1>4, TwinsSaid, VouchedSaid
<1> QED BY <1>2, <1>5, <1>6, <1>7, <1>8, EndStep DEF Recorded

\* Operations begin,
LEMMA StartStep ==
  ASSUME Inv, NEW p \in Process, Start(p) \/ Look(p) \/ Approve(p) PROVE Inv'
<1>1. TypeOK /\ Instants /\ (op[p].stage = "off" => op[p] = Idle)
  BY DEF Inv, Schedule, RestAt
<1>2. op[p] = Idle
  BY <1>1 DEF Start, Look, Approve, Begins
<1>3. CASE Start(p)
  BY <1>1, <1>2, <1>3, StartDoes, CourseStart, BegunStep
<1>4. CASE Look(p)
  BY <1>1, <1>2, <1>4, LookDoes, CourseLook, BegunStep
<1>5. CASE Approve(p)
  BY <1>1, <1>2, <1>5, ApproveDoes, CourseStart, BegunStep
<1> QED BY <1>3, <1>4, <1>5

\* and stop anywhere.
LEMMA StopStep ==
  ASSUME Inv, NEW p \in Process, Stop(p) PROVE Inv'
<1>1. TypeOK /\ EveryStatementVerifies /\ Kept /\ Twins /\ Vouched
  BY DEF Inv, Recorded
<1>2. Stopped(p) /\ TypeOK' /\ log' = log
  BY <1>1, StopDoes
<1>3. Extended(p)
  BY <1>1, <1>2, SameExtends
<1>4. (Kept /\ Twins /\ Vouched)'
  BY <1>1, <1>2, SameRecorded
<1>5. EveryStatementVerifies'
  BY <1>1, <1>2 DEF EveryStatementVerifies, Stopped, DropKeys
<1> QED BY <1>2, <1>3, <1>4, <1>5, EndStep DEF Recorded

\* Keys are read and made.
LEMMA SigningStep ==
  ASSUME Inv, NEW p \in Process, Signing(p) PROVE Inv'
<1>1. /\ NeedKeys(p) \/ KeyStep(p)
      /\ tree' = tree /\ events' = events /\ clock' = clock /\ log' = log /\ op' = op /\ lone' = lone
  BY DEF Signing
<1>2. TypeOK /\ KeysInv /\ EveryStatementVerifies
  BY DEF Inv, Recorded
<1>3. TypeOK'
  BY <1>1, <1>2 DEF TypeOK
<1>4. KeysInv'
  BY <1>1, <1>2, NeedStep, ReadStep, MakePrivateStep, FillPrivateStep, MakePublicStep, FillPublicStep DEF KeyStep
<1>5. EveryStatementVerifies'
  BY <1>1, <1>2, VerifiedSigning
<1> QED BY <1>1, <1>3, <1>4, <1>5, StillStep

\* The tree changes.
LEMMA CommitStep ==
  ASSUME Inv, Commit PROVE Inv'
<1>1. PICK f \in Findings, d \in Files :
        tree' = [finding |-> f, file |-> d,
                 touched |-> [s \in Slot |-> IF d[s] \in Body /\ d[s] # tree.file[s]
                                            THEN events' ELSE tree.touched[s]]]
  BY DEF Commit
<1>2. /\ events' = events + 1 /\ clock' = clock /\ log' = log /\ op' = op /\ lone' = lone
      /\ private' = private /\ public' = public /\ keyStep' = keyStep /\ held' = held
  BY DEF Commit, Event, keyVars
<1>3. TypeOK /\ KeysInv /\ EveryStatementVerifies
  BY DEF Inv, Recorded
<1>4. PICK touched : touched = [s \in Slot |-> IF d[s] \in Body /\ d[s] # tree.file[s]
                                              THEN events' ELSE tree.touched[s]]
  OBVIOUS
<1>5. touched \in Counts
  <2>1. events' \in Nat /\ tree.touched \in [Slot -> Nat]
    BY <1>2, <1>3 DEF TypeOK, Counts
  <2> QED BY <1>4, <2>1 DEF Counts
<1>6. tree' = [finding |-> f, file |-> d, touched |-> touched]
  BY <1>1, <1>4
<1>7. TypeOK'
  BY <1>2, <1>3, <1>5, <1>6 DEF TypeOK
<1>8. KeysInv' /\ EveryStatementVerifies'
  BY <1>2, <1>3, SameKeys DEF EveryStatementVerifies
<1> QED BY <1>2, <1>7, <1>8, StillStep

\* Every step keeps the invariant.
LEMMA StepInv == Inv /\ [Next]_vars => Inv'
<1> SUFFICES ASSUME Inv, [Next]_vars PROVE Inv'
  OBVIOUS
<1>1. Scanner \subseteq Process /\ Recorder \subseteq Process
  BY ScanAssumption
<1>2. CASE Commit
  BY <1>2, CommitStep
<1>3. ASSUME NEW p \in Scanner, Start(p) PROVE Inv'
  BY <1>1, <1>3, StartStep
<1>4. ASSUME NEW p \in Scanner, ScanStep(p) PROVE Inv'
  <2>1. p \in Process
    BY <1>1
  <2>2. CASE Collect(p) \/ Compare(p) \/ Declare(p) \/ ListBodies(p) \/ Observe(p) \/ DeriveModel(p)
    BY <2>1, <2>2, CollectStep, CompareStep, DeclareStep, ListStep, ObserveStep, DeriveStep
  <2>3. CASE SignBundle(p) \/ SignBody(p) \/ SignObservation(p) \/ RecordRun(p)
    BY <2>1, <2>3, SignBundleStep, SignBodyStep, SignObservationStep, RecordRunStep
  <2> QED BY <1>4, <2>2, <2>3 DEF ScanStep
<1>5. ASSUME NEW p \in Recorder, Look(p) PROVE Inv'
  BY <1>1, <1>5, StartStep
<1>6. ASSUME NEW p \in Recorder, Revise(p) PROVE Inv'
  BY <1>1, <1>6, ReviseStep
<1>9. ASSUME NEW p \in Recorder, Approve(p) \/ ScopeOut(p) PROVE Inv'
  BY <1>1, <1>9, StartStep, ScopeOutStep
<1>7. ASSUME NEW p \in Process, Signing(p) \/ Stop(p) PROVE Inv'
  BY <1>7, SigningStep, StopStep
<1>8. CASE UNCHANGED vars
  <2>1. /\ tree' = tree /\ events' = events /\ clock' = clock /\ log' = log /\ op' = op /\ lone' = lone
        /\ private' = private /\ public' = public /\ keyStep' = keyStep /\ held' = held
    BY <1>8 DEF vars, keyVars
  <2>2. TypeOK' /\ KeysInv' /\ EveryStatementVerifies'
    BY <2>1, SameKeys DEF Inv, Recorded, TypeOK, EveryStatementVerifies
  <2> QED BY <2>1, <2>2, StillStep
<1> QED BY <1>2, <1>3, <1>4, <1>5, <1>6, <1>7, <1>8, <1>9 DEF Next

-----------------------------------------------------------------------------
(* Theorems. *)

\* However operations, commits and stops interleave, what is in the ledger, what
\* the operations know of it and the pair on disk keep to the invariant.
THEOREM ScanInductive == Spec => []Inv
BY InitInv, StepInv, PTL DEF Spec

\* Every statement in the ledger verifies under the one pair on disk, however
\* many processes raced to make it and wherever they stopped.
THEOREM EveryStatementVerifiesHolds == Spec => []EveryStatementVerifies
<1>1. Inv => EveryStatementVerifies
  BY DEF Inv, Recorded
<1> QED BY <1>1, ScanInductive, PTL

\* The same finding is signed twice in a row only by a daemon that refreshes it,
\* after a scope-out of its recipe, or by operations that overlapped; one body is
\* revised by two only by operations that overlapped (scan.ts:386-394).
THEOREM TwinsOverlappedHolds == Spec => []TwinsOverlapped
<1>1. Inv => TwinsOverlapped
  <2> SUFFICES ASSUME Inv, NEW i \in DOMAIN log, NEW j \in DOMAIN log, i < j, Alone(j)
               PROVE  /\ i \in Of("evidence") /\ j \in Bundles(Said(i).recipe)
                           /\ i = Latest(Listed(Said(i).recipe) \cap 1..(j - 1))
                           => Said(i).finding # Said(j).finding \/ Aged(i, log[j].by, log[j].at)
                      /\ i \in Of("artifact") /\ j \in Bodies(Said(i).slot) /\ Said(i).supersedes \in Body
                           => Said(j).supersedes # Said(i).supersedes
                              \/ \E k \in Bodies(Said(i).slot) :
                                   i < k /\ k < j /\ Said(k).body = Said(j).supersedes
    BY DEF TwinsOverlapped
  <2>1. TypeOK /\ Instants /\ Twins /\ DOMAIN log = 1..Len(log) /\ Len(log) \in Nat
    BY Length DEF Inv, Schedule, Recorded, TypeOK
  <2>2. ASSUME i \in Of("evidence"), j \in Bundles(Said(i).recipe),
               i = Latest(Listed(Said(i).recipe) \cap 1..(j - 1))
        PROVE  Said(i).finding # Said(j).finding \/ Aged(i, log[j].by, log[j].at)
    <3>1. PICK r : r = Said(i).recipe
      OBVIOUS
    <3>2. r \in Recipe /\ BundleOf(i, r) /\ BundleOf(j, r) /\ i \in Listed(r)
      BY <2>1, <2>2, <3>1, Parts DEF TypeOK, Of, Bundles, Listed, BundleOf, EvidenceSaid
    <3>3. PICK n : n = j - 1
      OBVIOUS
    <3>4. n \in 0..Len(log) /\ i \in 1..n
      BY <2>1, <3>3
    <3>5. NewestWord(i, r, n)
      BY <2>1, <2>2, <3>1, <3>2, <3>3, <3>4, LatestWord
    <3> QED BY <2>1, <3>2, <3>3, <3>5 DEF Twins
  <2>3. ASSUME i \in Of("artifact"), j \in Bodies(Said(i).slot), Said(i).supersedes \in Body
        PROVE  Said(j).supersedes # Said(i).supersedes
               \/ \E k \in Bodies(Said(i).slot) : i < k /\ k < j /\ Said(k).body = Said(j).supersedes
    <3>1. PICK s : s = Said(i).slot
      OBVIOUS
    <3>2. s \in Slot /\ BodyOf(i, s) /\ BodyOf(j, s)
      BY <2>1, <2>3, <3>1, Parts DEF TypeOK, Of, Bodies, BodyOf, BodySaid
    <3>3. \/ Said(j).supersedes # Said(i).supersedes
          \/ \E k \in 1..Len(log) : BodyOf(k, s) /\ i < k /\ k < j /\ Said(k).body = Said(j).supersedes
      BY <2>1, <2>3, <3>2 DEF Twins
    <3> QED BY <2>1, <3>1, <3>3 DEF Bodies, BodyOf, Of
  <2> QED BY <2>2, <2>3
<1> QED BY <1>1, ScanInductive, PTL

\* In the order of instants the latest is the last appended.
LEMMA LatestInOrder ==
  ASSUME TypeOK, Instants, NEW n \in 1..Len(log), InOrder(1..n), NEW S, S \subseteq 1..n,
         NEW m \in S, \A k \in S : k <= m
  PROVE  Latest(S) = m /\ m # None
<1>1. Len(log) \in Nat /\ \A k \in 1..n : k \in 1..Len(log) /\ log[k].at \in Nat
  BY Numbers
<1>2. \A j \in S \ {m} : j < m /\ log[j].at <= log[m].at /\ log[j].at \in Nat /\ log[m].at \in Nat
  <2> SUFFICES ASSUME NEW j \in S \ {m}
               PROVE  j < m /\ log[j].at <= log[m].at /\ log[j].at \in Nat /\ log[m].at \in Nat
    OBVIOUS
  <2>1. j \in 1..n /\ m \in 1..n /\ j <= m /\ j # m
    OBVIOUS
  <2>2. j < m
    BY <2>1
  <2> QED BY <1>1, <2>1, <2>2 DEF InOrder
<1>3. \A j \in S \ {m} : Before(j, m)
  BY <1>2 DEF Before
<1>4. S \subseteq 1..Len(log) /\ S # {}
  BY <1>1
<1>5. m = Latest(S) /\ Latest(S) # None
  BY <1>3, <1>4, LatestIs
<1> QED BY <1>5

\* A scan that nothing ran beside decided its slots.
LEMMA DecidedHolds ==
  ASSUME Inv, NEW i \in 1..Len(log), log[i].kind = "run", Alone(i), InOrder(1..i), NEW s \in Slot,
         Said(i).saw[s] \in Body \/ Said(i).saw[s] = Missing
  PROVE  LET body == Standing(1..i, s) IN
         /\ Said(i).saw[s] \in Body => body # None /\ Said(body).body = Said(i).saw[s]
         /\ Said(i).saw[s] = Missing => body = None \/ Unobserved(body, 1..i)
<1>1. /\ TypeOK /\ Instants /\ Kept /\ CoveredRun(i) /\ ObservedRun(i)
      /\ DOMAIN log = 1..Len(log) /\ Len(log) \in Nat
      /\ \A k \in 1..i : k \in 1..Len(log) /\ log[k].at \in Nat
  BY Length, Numbers DEF Inv, Schedule, Recorded, Vouched, TypeOK
<1>2. Silent \notin Body /\ Missing \notin Body /\ Missing # Silent
  BY ScanAssumption DEF Missing, Silent
<1>3. PICK o \in 1..i : LastObservation(o, i) /\ Said(o).saw = Said(i).saw
  BY <1>1, <1>2 DEF ObservedRun
<1>4. PICK words : words = {k \in 1..i \cap Of("observation") : Said(k).saw[s] # Silent}
  OBVIOUS
<1>5. o \in words /\ words \subseteq 1..i /\ \A k \in words : k <= o
  BY <1>1, <1>2, <1>3, <1>4 DEF LastObservation, Observation, Of
<1>6. LastWord(1..i, s) = o /\ o # None
  BY <1>1, <1>4, <1>5, LatestInOrder DEF LastWord
<1>7. PICK bodies : bodies = 1..i \cap Bodies(s)
  OBVIOUS
<1>8. \A k \in 1..i : k \in bodies <=> BodyOf(k, s)
  BY <1>1, <1>7 DEF Bodies, BodyOf, Of
<1>9. Lost(1..i, s) <=>
        Said(o).saw[s] = Missing /\ (Latest(bodies) # None => log[o].at > log[Latest(bodies)].at)
  BY <1>6, <1>7 DEF Lost
<1>10. Standing(1..i, s) = IF Lost(1..i, s) THEN None ELSE Latest(bodies)
  BY <1>7 DEF Standing
<1>11. ASSUME Said(i).saw[s] \in Body
       PROVE  Standing(1..i, s) # None /\ Said(Standing(1..i, s)).body = Said(i).saw[s]
  <2>1. PICK m \in 1..i : LastBody(m, s, i) /\ Said(m).body = Said(i).saw[s]
    BY <1>1, <1>11 DEF CoveredRun
  <2>2. m \in bodies /\ bodies \subseteq 1..i /\ \A k \in bodies : k <= m
    BY <1>7, <1>8, <2>1 DEF LastBody
  <2>3. Latest(bodies) = m /\ m # None
    BY <1>1, <2>2, LatestInOrder
  <2>4. ~Lost(1..i, s)
    BY <1>2, <1>3, <1>9, <1>11
  <2> QED BY <1>10, <2>1, <2>3, <2>4
<1>12. ASSUME Said(i).saw[s] = Missing, Standing(1..i, s) # None
       PROVE  Unobserved(Standing(1..i, s), 1..i)
  <2>1. PICK m : m = Standing(1..i, s)
    OBVIOUS
  <2>2. m = Latest(bodies) /\ m # None /\ ~Lost(1..i, s)
    BY <1>10, <1>12, <2>1
  <2>3. bodies # {} /\ bodies \subseteq 1..Len(log)
    BY <1>1, <1>7, <2>2 DEF Latest
  <2>4. m \in bodies
    BY <1>1, <2>2, <2>3, LatestIs
  <2>5. m \in 1..i /\ BodyOf(m, s) /\ m \in 1..Len(log)
    BY <1>1, <1>7, <1>8, <2>4
  <2>6. ~(log[o].at > log[m].at)
    BY <1>3, <1>9, <1>12, <2>2
  <2>7. ASSUME NEW k \in 1..i, log[k].kind \in {"observation", "run"}, Together(m, k)
        PROVE  FALSE
    <3>1. Said(k).saw[s] = Said(m).body /\ Answered(m, k)
      BY <1>1, <2>5, <2>7 DEF Kept, BodyOf, Together
    <3>2. PICK w \in 1..k : /\ Observation(w) /\ Said(w).saw[s] \in Body
                            /\ \A v \in 1..Len(log) : Observation(v) /\ w < v => m < v
      BY <2>5, <3>1 DEF Answered, BodyOf
    <3>3. w \in 1..i /\ w <= o /\ w # o
      BY <1>2, <1>3, <1>12, <3>2 DEF LastObservation
    <3>4. w < o
      BY <3>3
    <3>5. m < o /\ Observation(o)
      BY <1>1, <1>3, <3>2, <3>4 DEF LastObservation
    <3>6. log[m].at <= log[o].at
      BY <2>5, <3>5 DEF InOrder
    <3>7. log[m].at = log[o].at
      BY <1>1, <2>5, <2>6, <3>6
    <3>8. Said(o).saw[s] = Said(m).body
      BY <1>1, <2>5, <3>5, <3>7 DEF Kept, BodyOf, Observation
    <3>9. Said(m) \in BodySaid
      BY <1>1, <2>5, Parts DEF TypeOK, BodyOf
    <3> QED BY <1>2, <1>3, <1>12, <3>8, <3>9 DEF BodySaid
  <2>8. Unobserved(m, 1..i)
    BY <2>7 DEF Unobserved, Of
  <2> QED BY <2>1, <2>8
<1> QED BY <1>11, <1>12

\* A run record vouches for its scan (scan.ts:373-655): bundles say what it says,
\* and are not aging if the scan is a daemon's, the model it names was derived
\* from all that the scan recorded, and beside nobody it decided the slots it saw.
THEOREM RunIsBackedHolds == Spec => []RunIsBacked
<1>1. Inv => RunIsBacked
  <2> SUFFICES ASSUME Inv, NEW i \in Of("run")
               PROVE  /\ \A r \in {q \in Recipe : Said(i).finding[q] # Skipped} :
                           \E j \in Bundles(r) :
                             /\ j < i /\ Said(j).finding = Said(i).finding[r]
                             /\ ~Aged(j, log[i].by, log[i].at)
                             /\ Alone(i) => j = Latest(Bundles(r) \cap 1..i)
                      /\ \A j \in 1..(i - 1) : Together(j, i) => j <= Said(i).derived
                      /\ Alone(i) /\ InOrder(1..i) => \A s \in Slot : Decided(i, s)
    BY DEF RunIsBacked
  <2>1. TypeOK /\ Instants /\ DOMAIN log = 1..Len(log) /\ Len(log) \in Nat
    BY Length DEF Inv, Schedule, TypeOK
  <2>2. i \in 1..Len(log) /\ log[i].kind = "run" /\ BackedRun(i) /\ DerivedRun(i)
    BY <2>1 DEF Of, Inv, Recorded, Vouched
  <2>3. ASSUME NEW r \in Recipe, Said(i).finding[r] # Skipped
        PROVE  \E j \in Bundles(r) :
                 /\ j < i /\ Said(j).finding = Said(i).finding[r]
                 /\ ~Aged(j, log[i].by, log[i].at)
                 /\ Alone(i) => j = Latest(Bundles(r) \cap 1..i)
    <3>1. PICK j \in 1..(i - 1) : Backs(j, r, Said(i).finding, log[i].by, log[i].at, Alone(i), i)
      BY <2>2, <2>3 DEF BackedRun
    <3>2. i \in 0..Len(log) /\ j \in 1..i /\ j \in 1..Len(log) /\ j < i
      BY <2>1, <2>2
    <3>3. j \in Bundles(r)
      BY <2>1, <3>1, <3>2 DEF Backs, Aged, BundleOf, Bundles, Of
    <3>4. Alone(i) => j = Latest(Bundles(r) \cap 1..i)
      BY <2>1, <3>1, <3>2, LatestBundle DEF Backs
    <3> QED BY <3>1, <3>2, <3>3, <3>4 DEF Backs, Aged
  <2>4. ASSUME NEW j \in 1..(i - 1), Together(j, i) PROVE j <= Said(i).derived
    BY <2>2, <2>4 DEF DerivedRun, Together
  <2>5. ASSUME Alone(i), InOrder(1..i), NEW s \in Slot PROVE Decided(i, s)
    <3>1. CASE Said(i).saw[s] \in Body
      BY <2>2, <2>5, <3>1, DecidedHolds DEF Decided
    <3>2. CASE Said(i).saw[s] = Missing
      <4>1. Missing \notin Body
        BY ScanAssumption
      <4> QED BY <2>2, <2>5, <3>2, <4>1, DecidedHolds DEF Decided
    <3>3. CASE Said(i).saw[s] \notin Body /\ Said(i).saw[s] # Missing
      BY <3>3 DEF Decided
    <3> QED BY <3>1, <3>2, <3>3
  <2> QED BY <2>3, <2>4, <2>5
<1> QED BY <1>1, ScanInductive, PTL
=============================================================================
