---------------------------- MODULE LedgerReader ----------------------------
(***************************************************************************)
(* The read side of the local LedgerStore: readIndex, readEntry, get and   *)
(* list of packages/ledger/src/local.ts, run by long-lived instances       *)
(* (serve, daemon) beside the appends of module Ledger.                    *)
(*                                                                         *)
(* An instance remembers the rows it parsed, the bytes it consumed and a   *)
(* trailing line that has no newline yet.  readIndex awaits twice: stat,   *)
(* then a read of exactly the bytes between the watermark and that size;   *)
(* the index may grow in between.  What follows the read is synchronous.   *)
(* An instance has one call in flight at a time: every caller awaits it.   *)
(***************************************************************************)
EXTENDS Ledger, SequencesExt

CONSTANTS
  Reader,     \* LedgerStore instances that read
  Flaw        \* per content: what is wrong with what its caller hands over

\* An envelope of another statement, one signed under another key pair, or a
\* client's result whose method id is not what its content derives.
Flaws == {"none", "statement", "key", "method"}
ASSUME ReaderAssumption == Flaw \in [Digest -> Flaws]

VARIABLES
  rows,       \* per instance: the digests of the rows parsed so far
  consumed,   \* per instance: bytes of index.jsonl consumed
  partial,    \* per instance: the trailing line without a newline
  loaded,     \* per instance: digests whose object was read and verified
  reading,    \* per instance: the size a readIndex in flight saw, or Quiet
  listed,     \* per instance: the last list() that returned, a sequence
  failed,     \* per instance: whether some readIndex threw
  modified    \* objects changed on disk out of band

readerVars == <<rows, consumed, partial, loaded, reading, listed, failed, modified>>
vars == <<object, envelope, index, pc, arg, signed, acked, cut,
          rows, consumed, partial, loaded, reading, listed, failed, modified>>

Quiet == -1

-----------------------------------------------------------------------------
(* Splitting bytes into lines. *)

Newlines(bytes) == {i \in DOMAIN bytes : bytes[i] = NL}
LastNewline(bytes) == Max({0} \cup Newlines(bytes))

\* The newline before position i, 0 if the line is the first.
LineStart(bytes, i) == Max({0} \cup {j \in Newlines(bytes) : j < i})

\* The lines, named by their newline, that JSON.parse cannot read: two lines
\* run together.  (A blank line is skipped.)
BadLines(bytes) == {i \in Newlines(bytes) : i - LineStart(bytes, i) > 2}

\* The bytes of the whole lines that are parsed before the first bad one.
Parsable(bytes) ==
  LET end == IF BadLines(bytes) = {} THEN LastNewline(bytes)
             ELSE LineStart(bytes, Min(BadLines(bytes)))
  IN  SubSeq(bytes, 1, end)

\* The lines that hold one row, named by their newline, and the numbers of a set
\* in order.
WholeLines(bytes) == {i \in Newlines(bytes) : i - LineStart(bytes, i) = 2}
Ascending(S) ==
  CHOOSE f \in [1 .. Cardinality(S) -> S] : \A i, j \in DOMAIN f : i < j => f[i] < f[j]

\* The rows of every whole line, the unreadable ones left out.
EveryWholeRow[bytes \in Seq(Digest \cup {NL})] ==
  LET at == Ascending(WholeLines(bytes)) IN [k \in DOMAIN at |-> bytes[at[k] - 1]]

\* The rows a reader makes of bytes; a blank line is none.
RowsOf(bytes) == EveryWholeRow[Parsable(bytes)]

-----------------------------------------------------------------------------

ReaderInit ==
  /\ rows = [r \in Reader |-> <<>>]
  /\ consumed = [r \in Reader |-> 0]
  /\ partial = [r \in Reader |-> <<>>]
  /\ loaded = [r \in Reader |-> {}]
  /\ reading = [r \in Reader |-> Quiet]
  /\ listed = [r \in Reader |-> <<>>]
  /\ failed = [r \in Reader |-> FALSE]
  /\ modified = {}

Init == LedgerInit /\ ReaderInit

\* The objects an instance loads for the rows it has: each is read and hashed
\* once, in order, until one does not hash to its name.
Unverified(r, list) == {i \in DOMAIN list : list[i] \notin loaded[r]}
ModifiedUnchecked(r, list) == {}
FirstModified(r, list) == {i \in Unverified(r, list) : list[i] \in modified}

\* list() after readIndex: verified entries come from memory, the others from
\* disk; a modified one makes the whole call throw.
Load(r, list) ==
  LET bad == FirstModified(r, list) IN
  IF bad = {}
  THEN /\ loaded' = [loaded EXCEPT ![r] = @ \cup {list[i] : i \in DOMAIN list}]
       /\ listed' = [listed EXCEPT ![r] = list]
  ELSE /\ loaded' = [loaded EXCEPT ![r] = @ \cup {list[i] : i \in 1 .. Min(bad) - 1}]
       /\ UNCHANGED listed

\* get() after readIndex: answers from the disk, remembers nothing.
Reply(r, op, list) ==
  \/ op = "list" /\ Load(r, list)
  \/ op = "get" /\ UNCHANGED <<loaded, listed>>

\* open and stat: nothing new, so the rows in memory are the answer.
AnswerUnchanged(r, op) ==
  /\ reading[r] = Quiet
  /\ Len(index) = consumed[r]
  /\ Reply(r, op, rows[r])
  /\ UNCHANGED <<ledgerVars, rows, consumed, partial, reading, failed, modified>>

\* open and stat: the index is longer than the watermark.
Stat(r) ==
  /\ reading[r] = Quiet
  /\ Len(index) > consumed[r]
  /\ reading' = [reading EXCEPT ![r] = Len(index)]
  /\ UNCHANGED <<ledgerVars, rows, consumed, partial, loaded, listed, failed, modified>>

TailBytes(r) == partial[r] \o SubSeq(index, consumed[r] + 1, reading[r])

WatermarkKept(r) == consumed[r]
Watermark(r) == reading[r]

RowsWith(r, bytes) == rows[r] \o RowsOf(bytes)

\* The read lands: the watermark moves to the size that was seen, the rest of
\* the last line is held back, the whole lines become rows.  A line that does
\* not parse throws after the watermark and the held line were moved.
ReadTail(r, op) ==
  LET bytes == TailBytes(r)
      more == RowsWith(r, bytes)
  IN
  /\ reading[r] # Quiet
  /\ reading' = [reading EXCEPT ![r] = Quiet]
  /\ consumed' = [consumed EXCEPT ![r] = Watermark(r)]
  /\ partial' = [partial EXCEPT ![r] = SubSeq(bytes, LastNewline(bytes) + 1, Len(bytes))]
  /\ rows' = [rows EXCEPT ![r] = more]
  /\ IF BadLines(bytes) = {}
     THEN Reply(r, op, more) /\ UNCHANGED failed
     ELSE failed' = [failed EXCEPT ![r] = TRUE] /\ UNCHANGED <<loaded, listed>>
  /\ UNCHANGED <<ledgerVars, modified>>

\* An object file is changed underneath the store (bit rot, a hand edit).
Modify(d) ==
  /\ object[d] = "whole"
  /\ modified' = modified \cup {d}
  /\ UNCHANGED <<ledgerVars, rows, consumed, partial, loaded, reading, listed, failed>>

Answer(r) == \E op \in {"list", "get"} : AnswerUnchanged(r, op) \/ ReadTail(r, op)

Next ==
  \/ LedgerNext /\ UNCHANGED readerVars
  \/ \E r \in Reader : Stat(r) \/ Answer(r)
  \/ \E d \in Digest : Modify(d)

Spec == Init /\ [][Next]_vars

-----------------------------------------------------------------------------
(* `rampscan verify` (cli/src/verify.ts): a process of its own, with an    *)
(* instance that has read nothing, asks for one statement by its digest.   *)

\* verifyEnvelope: signed under the pair on disk, and over this very content.
SignatureOk(d) == Flaw[d] # "key"
PayloadMatches(d) == Flaw[d] # "statement"
DerivationOk(d) == Flaw[d] # "method"

VerifyEnvelope(d) == d \in envelope /\ SignatureOk(d) /\ PayloadMatches(d)

\* What it reports at this moment; get() throws over a line it cannot parse, or
\* over bytes that do not hash to the statement's name.
Verify(d) ==
  IF BadLines(index) # {} THEN "throws"
  ELSE IF ~Contains(RowsOf(index), d) THEN "no entry"
  ELSE IF object[d] # "whole" \/ d \in modified THEN "throws"
  ELSE IF VerifyEnvelope(d) /\ DerivationOk(d) THEN "ok" ELSE "refused"

-----------------------------------------------------------------------------

\* Bytes that do not hash to their name are never handed out by list(), unless
\* this very instance verified the object before it was modified; and then
\* verify refuses them still.  What list() hands out verify finds, and what it
\* says of a statement it says for good, whatever is appended, retried or cut
\* short: a second caller's envelope never reaches a statement listed unsigned.
ModifiedNeverServed ==
  [][/\ \A r \in Reader, d \in Digest :
          /\ d \in modified \ loaded[r] /\ Contains(listed'[r], d) => Contains(listed[r], d)
          /\ Contains(listed[r], d) => Verify(d) # "no entry"
     /\ \A d \in Digest :
          Verify(d) # "no entry" => Verify(d)' = IF d \in modified' THEN "throws" ELSE Verify(d)]_vars

\* The abstract ledger: one history, published one statement at a time, of which
\* every instance sees a prefix that only grows (ledger.test.ts: "never served as
\* a shorter history"); so the daemon and the console differ in how recent they
\* are and in nothing else.
Log == INSTANCE StatementLog WITH
         Statement <- Digest, Observer <- Reader,
         log <- EveryWholeRow[index], view <- listed
LogSpec == Log!Spec

=============================================================================
