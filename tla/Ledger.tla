------------------------------- MODULE Ledger -------------------------------
(***************************************************************************)
(* The append side of the local LedgerStore (packages/ledger/src/local.ts):*)
(* a content-addressed directory that several processes (a daemon's scan, *)
(* an operator's scan, the console's decide routes, a runner's intake)     *)
(* append to without any lock between them.                                *)
(*                                                                         *)
(* An append is a sequence of awaited file-system calls: create the object *)
(* with the exclusive flag, fill it, write the envelope, append one line   *)
(* to index.jsonl.  Each call is an action, so that other writers and      *)
(* crashes fall between any two of them.  The bytes of a row are abstracted*)
(* to one symbol, its digest; a line is that symbol followed by NL.        *)
(***************************************************************************)
EXTENDS Integers, Sequences

CONSTANTS
  Digest,       \* contents a caller may append (content = address)
  Writer,       \* append() calls that can be in flight at once
  NL,           \* the newline byte of index.jsonl
  None,         \* the argument of a call that is not there
  TornWrite     \* whether a cut-short index append may leave half a line

ASSUME LedgerAssumption ==
  /\ NL \notin Digest
  /\ None \notin Digest
  /\ TornWrite \in BOOLEAN

VARIABLES
  object,       \* objects/<digest>.json: "absent", "partial" or "whole"
  envelope,     \* digests whose objects/<digest>.envelope.json was written
  index,        \* index.jsonl, a sequence over Digest \cup {NL}
  pc,           \* per writer: the next step of its append()
  arg,          \* per writer: the digest it appends, None when idle
  signed,       \* writers whose append() was given an envelope
  acked,        \* digests some append() returned to its caller
  cut           \* history: digests whose creating append() was cut short

ledgerVars == <<object, envelope, index, pc, arg, signed, acked, cut>>

Step == {"idle", "create", "fill", "envelope", "row", "newline"}

\* The steps at which the call has created the object itself: only the
\* creator goes on to the envelope and the index.
OwnerStep == {"fill", "envelope", "row", "newline"}

Done(w) ==
  /\ pc' = [pc EXCEPT ![w] = "idle"]
  /\ arg' = [arg EXCEPT ![w] = None]
  /\ signed' = signed \ {w}

Listed == {d \in Digest : \E i \in DOMAIN index : index[i] = d}

LedgerTypeOK ==
  /\ object \in [Digest -> {"absent", "partial", "whole"}]
  /\ envelope \in SUBSET Digest
  /\ index \in Seq(Digest \cup {NL})
  /\ pc \in [Writer -> Step]
  /\ arg \in [Writer -> Digest \cup {None}]
  /\ signed \in SUBSET Writer
  /\ \A w \in Writer : pc[w] # "idle" => arg[w] \in Digest
  /\ acked \in SUBSET Digest
  /\ cut \in SUBSET Digest

LedgerInit ==
  /\ object = [d \in Digest |-> "absent"]
  /\ envelope = {}
  /\ index = <<>>
  /\ pc = [w \in Writer |-> "idle"]
  /\ arg = [w \in Writer |-> None]
  /\ signed = {}
  /\ acked = {}
  /\ cut = {}

-----------------------------------------------------------------------------

\* A caller asks for an append: parse, canonical bytes, digest, mkdir.
Begin(w, d, withEnvelope) ==
  /\ pc[w] = "idle"
  /\ pc' = [pc EXCEPT ![w] = "create"]
  /\ arg' = [arg EXCEPT ![w] = d]
  /\ signed' = IF withEnvelope THEN signed \cup {w} ELSE signed
  /\ UNCHANGED <<object, envelope, index, acked, cut>>

\* With an envelope to write, the envelope comes before the index.
AfterFillIgnoringEnvelope(w) == "row"
AfterFill(w) == IF w \in signed THEN "envelope" ELSE "row"

\* The exclusive create succeeds: nobody has this content yet.
CreateObject(w) ==
  LET d == arg[w] IN
  /\ pc[w] = "create"
  /\ object[d] = "absent"
  /\ object' = [object EXCEPT ![d] = "partial"]
  /\ pc' = [pc EXCEPT ![w] = "fill"]
  /\ UNCHANGED <<arg, signed, envelope, index, acked, cut>>

\* EEXIST: same content, same address; the digest is returned at once, the
\* envelope offered by this caller and the index are not looked at.
ReturnExisting(w) ==
  LET d == arg[w] IN
  /\ pc[w] = "create"
  /\ object[d] # "absent"
  /\ Done(w)
  /\ acked' = acked \cup {d}
  /\ UNCHANGED <<object, envelope, index, cut>>

FillObjectIndexOnlySigned(w) ==
  /\ pc[w] = "fill"
  /\ object' = [object EXCEPT ![arg[w]] = "whole"]
  /\ IF w \in signed
     THEN pc' = [pc EXCEPT ![w] = "envelope"] /\ UNCHANGED <<arg, signed, acked>>
     ELSE Done(w) /\ acked' = acked \cup {arg[w]}
  /\ UNCHANGED <<envelope, index, cut>>

\* The bytes land and the file is made read-only.
FillObject(w) ==
  LET d == arg[w] IN
  /\ pc[w] = "fill"
  /\ object' = [object EXCEPT ![d] = "whole"]
  /\ pc' = [pc EXCEPT ![w] = AfterFill(w)]
  /\ UNCHANGED <<arg, signed, envelope, index, acked, cut>>

WriteEnvelope(w) ==
  /\ pc[w] = "envelope"
  /\ envelope' = envelope \cup {arg[w]}
  /\ pc' = [pc EXCEPT ![w] = "row"]
  /\ UNCHANGED <<arg, signed, object, index, acked, cut>>

IndexWith(b) == Append(index, b)

\* appendFile(index.jsonl): a reader may see the line before its newline, but
\* the kernel orders appends to one file, so no other line starts inside it.
AppendRow(w) ==
  /\ pc[w] = "row"
  /\ \A v \in Writer : pc[v] # "newline"
  /\ index' = IndexWith(arg[w])
  /\ pc' = [pc EXCEPT ![w] = "newline"]
  /\ UNCHANGED <<arg, signed, object, envelope, acked, cut>>

EndRow(w) ==
  /\ pc[w] = "newline"
  /\ index' = IndexWith(NL)
  /\ Done(w)
  /\ acked' = acked \cup {arg[w]}
  /\ UNCHANGED <<object, envelope, cut>>

\* The process dies, or a write fails and append() throws: what was written
\* stays, the caller gets no digest and may call again later.
CutShort(w) ==
  /\ pc[w] # "idle"
  /\ pc[w] = "newline" => TornWrite
  /\ cut' = IF pc[w] \in OwnerStep THEN cut \cup {arg[w]} ELSE cut
  /\ Done(w)
  /\ UNCHANGED <<object, envelope, index, acked>>

Continue(w) ==
  \/ CreateObject(w)
  \/ ReturnExisting(w)
  \/ FillObject(w)
  \/ WriteEnvelope(w)
  \/ AppendRow(w)
  \/ EndRow(w)

LedgerNext ==
  \E w \in Writer :
    \/ \E d \in Digest, withEnvelope \in BOOLEAN : Begin(w, d, withEnvelope)
    \/ Continue(w)
    \/ CutShort(w)

LedgerSpec == LedgerInit /\ [][LedgerNext]_ledgerVars

\* Every call in flight goes on by itself: each step is an awaited file-system
\* call.  Nobody has to start an append, and nothing has to fail.
LedgerFairness == \A w \in Writer : WF_ledgerVars(Continue(w))

-----------------------------------------------------------------------------

\* A digest the index names has its whole object on disk: a reader that meets
\* the row (local.ts readEntry) never finds the file missing or half written.
IndexSound == \A d \in Listed : object[d] = "whole"

\* No statement is listed twice, whatever concurrent or repeated appends of the
\* same content do (ledger.test.ts "no duplicate index rows").
NoDuplicateRow ==
  \A i, j \in DOMAIN index : index[i] = index[j] /\ index[i] # NL => i = j

\* At most one append in flight owns a content: the exclusive create elects it,
\* and only the owner reaches the envelope and the index.
SingleOwner ==
  \A v, w \in Writer :
    /\ pc[v] \in OwnerStep
    /\ pc[w] \in OwnerStep
    /\ arg[v] = arg[w]
    => v = w

\* The strengthening that makes the three inductive: what an owner has done so
\* far, and that nothing it still has to do is already there.
OwnerProgress ==
  \A w \in Writer :
    /\ pc[w] \in OwnerStep => object[arg[w]] # "absent"
    /\ pc[w] \in {"envelope", "row", "newline"} => object[arg[w]] = "whole"
    /\ pc[w] \in {"fill", "envelope", "row"} => arg[w] \notin Listed
    /\ pc[w] = "newline" => arg[w] \in Listed

\* Nothing on disk is ever taken back or rewritten: index.jsonl only grows, an
\* object once whole stays whole, an envelope once written stays.
Kept ==
  /\ Len(index') >= Len(index)
  /\ \A i \in DOMAIN index : index'[i] = index[i]
  /\ \A d \in Digest : object[d] = "whole" => object'[d] = "whole"
  /\ envelope \subseteq envelope'

AppendOnly == [][Kept]_ledgerVars

\* A signed append never lists its statement before its envelope is on disk, so
\* that no reader sees a statement that was signed as if it were unsigned.
SignedBeforeListed ==
  \A w \in Writer :
    pc[w] \in {"row", "newline"} /\ w \in signed
      => arg[w] \in envelope

\* No statement that exists on disk is unaccounted for: it is in the index, its
\* creator is still on the way there, or that creator was cut short.  A digest
\* handed to a caller is one of these, so a statement that was acknowledged and
\* never becomes readable has exactly one cause.
Accounted ==
  \A d \in Digest :
    object[d] # "absent" =>
      \/ d \in Listed
      \/ d \in cut
      \/ \E w \in Writer : pc[w] \in OwnerStep /\ arg[w] = d

AckedOnDisk == \A d \in acked : object[d] # "absent"

LedgerInv ==
  /\ LedgerTypeOK
  /\ IndexSound
  /\ NoDuplicateRow
  /\ SingleOwner
  /\ OwnerProgress
  /\ SignedBeforeListed
  /\ Accounted
  /\ AckedOnDisk

\* What a caller reads into the digest it was given (ledger.test.ts "append -> get
\* round-trips the bundle and its envelope"): get() finds it.  The second caller
\* of a content is answered before the index row is there, so this holds in the
\* end, and unless the append that created the object was cut short.
AckedEventuallyListed == \A d \in Digest : d \in acked ~> d \in (Listed \cup cut)

=============================================================================
