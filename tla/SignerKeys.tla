------------------------------ MODULE SignerKeys ------------------------------
(***************************************************************************)
(* The local Signer's key pair (packages/signer/src/local.ts).  Every      *)
(* operation that signs makes a signer of its own, which reads the pair    *)
(* from disk when it first signs and generates one if it cannot.  Several  *)
(* processes may be doing so, and each may stop between two writes.  The   *)
(* files are created exclusively: a file that exists fails the write.      *)
(* A key is named by the process that generated it.                        *)
(***************************************************************************)
CONSTANTS
  Process,      \* the processes that sign
  NoKey         \* the key nobody has: an absent file, a signer without keys

Torn == "torn"      \* created, and not written yet

ASSUME SignerAssumption == NoKey \notin Process /\ Torn \notin Process \cup {NoKey}

VARIABLES
  private, public,  \* the two files: NoKey, Torn or a key
  keyStep,          \* per process: what loadOrCreateKeypair does next
  held              \* per process: the key its signer holds

keyVars == <<private, public, keyStep, held>>

KeysInit ==
  /\ private \in Process \cup {NoKey} /\ public = private   \* of an earlier process
  /\ keyStep = [p \in Process |-> "none"]
  /\ held = [p \in Process |-> NoKey]

Goes(p, step) == keyStep' = [keyStep EXCEPT ![p] = step]
Holds(p, key) == held' = [held EXCEPT ![p] = key]
Readable(file) == file \in Process

\* getKeys: a signer without keys reads the private one; whatever cannot be read
\* leads to generation.
NeedKeys(p) ==
  /\ keyStep[p] = "none" /\ held[p] = NoKey
  /\ Goes(p, IF Readable(private) THEN "readPublic" ELSE "makePrivate")
  /\ UNCHANGED <<private, public, held>>

\* A signer pairs the private key it read with the public key it reads now.
ReadPublic(p) ==
  /\ keyStep[p] = "readPublic"
  /\ IF Readable(public)
     THEN Goes(p, "none") /\ Holds(p, private)
     ELSE Goes(p, "makePrivate") /\ UNCHANGED held
  /\ UNCHANGED <<private, public>>

CreatableAnyway(file) == TRUE

\* The exclusive create refuses a file that is there, torn or whole.
Creatable(file) == file = NoKey

MakePrivate(p) ==
  /\ keyStep[p] = "makePrivate"
  /\ IF Creatable(private)
     THEN private' = Torn /\ Goes(p, "fillPrivate")
     ELSE Goes(p, "failed") /\ UNCHANGED private
  /\ UNCHANGED <<public, held>>

FillPrivate(p) ==
  /\ keyStep[p] = "fillPrivate"
  /\ private' = p /\ Goes(p, "makePublic")
  /\ UNCHANGED <<public, held>>

MakePublic(p) ==
  /\ keyStep[p] = "makePublic"
  /\ IF Creatable(public)
     THEN public' = Torn /\ Goes(p, "fillPublic")
     ELSE Goes(p, "failed") /\ UNCHANGED public
  /\ UNCHANGED <<private, held>>

FillPublic(p) ==
  /\ keyStep[p] = "fillPublic"
  /\ public' = p /\ Goes(p, "none") /\ Holds(p, p)
  /\ UNCHANGED private

\* The process ends, its signer with it; the files stay as they are.
DropKeys(p) ==
  /\ Goes(p, "none") /\ Holds(p, NoKey)
  /\ UNCHANGED <<private, public>>

KeyStep(p) ==
  \/ ReadPublic(p)
  \/ MakePrivate(p) \/ FillPrivate(p) \/ MakePublic(p) \/ FillPublic(p)

=============================================================================
