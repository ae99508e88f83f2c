---------------------------- MODULE LedgerProofs ----------------------------
(***************************************************************************)
(* The append side of the ledger is correct for every set of contents and  *)
(* of concurrent appends, torn index writes included: LedgerInv is         *)
(* inductive, and nothing on disk is ever taken back.                      *)
(*                                                                         *)
(* Where an index append is whole or absent (TornWrite = FALSE), any number*)
(* of readers beside any number of writers see the log that the port       *)
(* promises: module LedgerReader implements module StatementLog.  Rows and *)
(* newlines then alternate in the index (Lined), and a reader holds the    *)
(* rows of what it has consumed and the rest of the last line (Follows).   *)
(***************************************************************************)
EXTENDS LedgerReader, FiniteSetTheorems, SequenceTheorems, WellFoundedInduction, TLAPS

\* What one more byte in index.jsonl does to the set of listed digests.
LEMMA ListedAppend ==
  ASSUME LedgerTypeOK, NEW b \in Digest \cup {NL}, index' = Append(index, b)
  PROVE  /\ index' \in Seq(Digest \cup {NL})
         /\ Listed' = Listed \cup ({b} \ {NL})
<1>1. index \in Seq(Digest \cup {NL})
  BY DEF LedgerTypeOK
<1>2. /\ index' \in Seq(Digest \cup {NL})
      /\ DOMAIN index' = 1 .. Len(index) + 1
      /\ DOMAIN index = 1 .. Len(index)
      /\ \A i \in 1 .. Len(index) : index'[i] = index[i]
      /\ index'[Len(index) + 1] = b
  BY <1>1
<1>3. Len(index) \in Nat
  BY <1>1
<1>4. ASSUME NEW d \in Digest
      PROVE  (\E i \in DOMAIN index' : index'[i] = d)
               <=> (d = b \/ \E i \in DOMAIN index : index[i] = d)
  <2>1. ASSUME NEW i \in DOMAIN index', index'[i] = d
        PROVE  d = b \/ \E j \in DOMAIN index : index[j] = d
    BY <2>1, <1>2, <1>3
  <2>2. ASSUME d = b  PROVE \E i \in DOMAIN index' : index'[i] = d
    <3>1. Len(index) + 1 \in DOMAIN index'
      BY <1>2, <1>3
    <3> QED BY <3>1, <2>2, <1>2
  <2>3. ASSUME NEW j \in DOMAIN index, index[j] = d
        PROVE  \E i \in DOMAIN index' : index'[i] = d
    BY <2>3, <1>2, <1>3
  <2> QED BY <2>1, <2>2, <2>3
<1>5. NL \notin Digest
  BY LedgerAssumption
<1> QED BY <1>2, <1>4, <1>5 DEF Listed

\* An append whose byte is new to the index, or a newline, repeats no row.
LEMMA NoDuplicateAppend ==
  ASSUME LedgerTypeOK, NoDuplicateRow,
         NEW b \in Digest \cup {NL}, b = NL \/ b \notin Listed,
         index' = Append(index, b)
  PROVE  NoDuplicateRow'
<1>1. index \in Seq(Digest \cup {NL})
  BY DEF LedgerTypeOK
<1>2. /\ DOMAIN index' = 1 .. Len(index) + 1
      /\ DOMAIN index = 1 .. Len(index)
      /\ Len(index) \in Nat
      /\ \A i \in 1 .. Len(index) : index'[i] = index[i] /\ index[i] \in Digest \cup {NL}
      /\ index'[Len(index) + 1] = b
  BY <1>1
<1>3. \A i \in DOMAIN index : index[i] = b => b = NL
  BY <1>2 DEF Listed
<1>4. SUFFICES ASSUME NEW i \in DOMAIN index', NEW j \in DOMAIN index',
                      index'[i] = index'[j], index'[i] # NL
               PROVE  i = j
  BY DEF NoDuplicateRow
<1>5. CASE i \in DOMAIN index /\ j \in DOMAIN index
  BY <1>5, <1>4, <1>2 DEF NoDuplicateRow
<1>6. CASE i = Len(index) + 1 \/ j = Len(index) + 1
  BY <1>6, <1>4, <1>2, <1>3
<1> QED BY <1>5, <1>6, <1>2

\* It holds of an empty ledger.
LEMMA InitInv == LedgerInit => LedgerInv
<1> SUFFICES ASSUME LedgerInit PROVE LedgerInv
  OBVIOUS
<1>1. DOMAIN index = {} /\ index \in Seq(Digest \cup {NL})
  BY DEF LedgerInit
<1>2. LedgerTypeOK
  BY <1>1 DEF LedgerInit, LedgerTypeOK, Step
<1> QED
  BY <1>1, <1>2, LedgerAssumption
  DEF LedgerInit, LedgerInv, IndexSound, NoDuplicateRow, SingleOwner, OwnerProgress,
      SignedBeforeListed, Accounted, AckedOnDisk, Listed, OwnerStep

\* Every step of an append preserves the invariant; one step per action.
LEMMA StepInv == LedgerInv /\ [LedgerNext]_ledgerVars => LedgerInv'
<1> SUFFICES ASSUME LedgerInv, [LedgerNext]_ledgerVars PROVE LedgerInv'
  OBVIOUS
<1> USE LedgerAssumption
<1>1. ASSUME NEW w \in Writer, NEW d \in Digest, NEW s \in BOOLEAN, Begin(w, d, s)
      PROVE  LedgerInv'
  <2>1. Listed' = Listed
    BY <1>1 DEF Begin, Listed
  <2> QED
    BY <1>1, <2>1
    DEF Begin, LedgerInv, LedgerTypeOK, IndexSound, NoDuplicateRow, SingleOwner, OwnerProgress,
        SignedBeforeListed, Accounted, AckedOnDisk, OwnerStep, Step
<1>2. ASSUME NEW w \in Writer, CreateObject(w)
      PROVE  LedgerInv'
  <2>1. Listed' = Listed
    BY <1>2 DEF CreateObject, Listed
  <2>2. arg[w] \in Digest /\ arg[w] \notin Listed
    BY <1>2 DEF CreateObject, LedgerInv, LedgerTypeOK, IndexSound
  <2>3. LedgerTypeOK'
    BY <1>2, <2>2 DEF CreateObject, LedgerInv, LedgerTypeOK, Step
  <2>4. IndexSound' /\ NoDuplicateRow'
    BY <1>2, <2>1, <2>2 DEF CreateObject, LedgerInv, LedgerTypeOK, IndexSound, NoDuplicateRow
  <2>5. SingleOwner'
    BY <1>2 DEF CreateObject, LedgerInv, LedgerTypeOK, SingleOwner, OwnerProgress, OwnerStep
  <2>6. OwnerProgress' /\ SignedBeforeListed'
    BY <1>2, <2>1, <2>2
    DEF CreateObject, LedgerInv, LedgerTypeOK, OwnerProgress, SignedBeforeListed, OwnerStep
  <2>7. Accounted' /\ AckedOnDisk'
    BY <1>2, <2>1
    DEF CreateObject, LedgerInv, LedgerTypeOK, Accounted, AckedOnDisk, OwnerStep
  <2> QED BY <2>3, <2>4, <2>5, <2>6, <2>7 DEF LedgerInv
<1>3. ASSUME NEW w \in Writer, ReturnExisting(w)
      PROVE  LedgerInv'
  <2>1. Listed' = Listed
    BY <1>3 DEF ReturnExisting, Done, Listed
  <2> QED
    BY <1>3, <2>1
    DEF ReturnExisting, Done, LedgerInv, LedgerTypeOK, IndexSound, NoDuplicateRow, SingleOwner,
        OwnerProgress, SignedBeforeListed, Accounted, AckedOnDisk, OwnerStep, Step
<1>4. ASSUME NEW w \in Writer, FillObject(w)
      PROVE  LedgerInv'
  <2>1. Listed' = Listed
    BY <1>4 DEF AfterFill, FillObject, Listed
  <2>2. LedgerTypeOK'
    BY <1>4 DEF AfterFill, FillObject, LedgerInv, LedgerTypeOK, Step
  <2>3. IndexSound' /\ NoDuplicateRow' /\ AckedOnDisk'
    BY <1>4, <2>1
    DEF AfterFill, FillObject, LedgerInv, LedgerTypeOK, IndexSound, NoDuplicateRow, AckedOnDisk
  <2>4. SingleOwner' /\ Accounted'
    BY <1>4, <2>1 DEF AfterFill, FillObject, LedgerInv, LedgerTypeOK, SingleOwner, Accounted, OwnerStep
  <2>5. OwnerProgress' /\ SignedBeforeListed'
    BY <1>4, <2>1
    DEF AfterFill, FillObject, LedgerInv, LedgerTypeOK, OwnerProgress, SignedBeforeListed, OwnerStep
  <2> QED BY <2>2, <2>3, <2>4, <2>5 DEF LedgerInv
<1>5. ASSUME NEW w \in Writer, WriteEnvelope(w)
      PROVE  LedgerInv'
  <2>1. Listed' = Listed
    BY <1>5 DEF WriteEnvelope, Listed
  <2>2. LedgerTypeOK'
    BY <1>5 DEF WriteEnvelope, LedgerInv, LedgerTypeOK, Step
  <2>3. IndexSound' /\ NoDuplicateRow' /\ AckedOnDisk'
    BY <1>5, <2>1
    DEF WriteEnvelope, LedgerInv, LedgerTypeOK, IndexSound, NoDuplicateRow, AckedOnDisk
  <2>4. SingleOwner' /\ Accounted'
    BY <1>5, <2>1 DEF WriteEnvelope, LedgerInv, LedgerTypeOK, SingleOwner, Accounted, OwnerStep
  <2>5. OwnerProgress' /\ SignedBeforeListed'
    BY <1>5, <2>1
    DEF WriteEnvelope, LedgerInv, LedgerTypeOK, OwnerProgress, SignedBeforeListed, OwnerStep
  <2> QED BY <2>2, <2>3, <2>4, <2>5 DEF LedgerInv
<1>6. ASSUME NEW w \in Writer, AppendRow(w)
      PROVE  LedgerInv'
  <2> DEFINE d == arg[w]
  <2>1. d \in Digest /\ d \notin Listed /\ object[d] = "whole"
    BY <1>6 DEF IndexWith, AppendRow, LedgerInv, LedgerTypeOK, OwnerProgress
  <2>2. /\ index' \in Seq(Digest \cup {NL})
        /\ Listed' = Listed \cup {d}
    BY <1>6, <2>1, ListedAppend DEF IndexWith, AppendRow, LedgerInv
  <2>3. NoDuplicateRow'
    BY <1>6, <2>1, NoDuplicateAppend DEF IndexWith, AppendRow, LedgerInv
  <2>4. LedgerTypeOK'
    BY <1>6, <2>2 DEF IndexWith, AppendRow, LedgerInv, LedgerTypeOK, Step
  <2>5. IndexSound' /\ AckedOnDisk'
    BY <1>6, <2>1, <2>2 DEF IndexWith, AppendRow, LedgerInv, IndexSound, AckedOnDisk
  <2>6. SingleOwner'
    BY <1>6 DEF IndexWith, AppendRow, LedgerInv, LedgerTypeOK, SingleOwner, OwnerStep
  <2>7. OwnerProgress'
    BY <1>6, <2>1, <2>2
    DEF IndexWith, AppendRow, LedgerInv, LedgerTypeOK, OwnerProgress, SingleOwner, OwnerStep
  <2>8. SignedBeforeListed' /\ Accounted'
    BY <1>6, <2>2
    DEF IndexWith, AppendRow, LedgerInv, LedgerTypeOK, SignedBeforeListed, Accounted, OwnerStep
  <2> QED BY <2>3, <2>4, <2>5, <2>6, <2>7, <2>8 DEF LedgerInv
<1>7. ASSUME NEW w \in Writer, EndRow(w)
      PROVE  LedgerInv'
  <2>1. /\ index' \in Seq(Digest \cup {NL})
        /\ Listed' = Listed
    BY <1>7, ListedAppend DEF IndexWith, EndRow, LedgerInv, Listed
  <2>2. NoDuplicateRow'
    BY <1>7, NoDuplicateAppend DEF IndexWith, EndRow, LedgerInv
  <2>3. arg[w] \in Digest /\ object[arg[w]] = "whole"
    BY <1>7 DEF IndexWith, EndRow, LedgerInv, LedgerTypeOK, OwnerProgress
  <2>4. LedgerTypeOK'
    BY <1>7, <2>1 DEF IndexWith, EndRow, Done, LedgerInv, LedgerTypeOK, Step
  <2>5. IndexSound' /\ AckedOnDisk'
    BY <1>7, <2>1, <2>3 DEF IndexWith, EndRow, LedgerInv, IndexSound, AckedOnDisk
  <2>6. SingleOwner' /\ OwnerProgress' /\ SignedBeforeListed'
    BY <1>7, <2>1
    DEF IndexWith, EndRow, Done, LedgerInv, LedgerTypeOK, SingleOwner, OwnerProgress, SignedBeforeListed,
        OwnerStep
  <2>7. Accounted'
    BY <1>7, <2>1
    DEF IndexWith, EndRow, Done, LedgerInv, LedgerTypeOK, OwnerProgress, Accounted, OwnerStep
  <2> QED BY <2>2, <2>4, <2>5, <2>6, <2>7 DEF LedgerInv
<1>8. ASSUME NEW w \in Writer, CutShort(w)
      PROVE  LedgerInv'
  <2>1. Listed' = Listed
    BY <1>8 DEF CutShort, Done, Listed
  <2> QED
    BY <1>8, <2>1
    DEF CutShort, Done, LedgerInv, LedgerTypeOK, IndexSound, NoDuplicateRow, SingleOwner,
        OwnerProgress, SignedBeforeListed, Accounted, AckedOnDisk, OwnerStep, Step
<1>9. ASSUME UNCHANGED ledgerVars
      PROVE  LedgerInv'
  <2>1. Listed' = Listed
    BY <1>9 DEF ledgerVars, Listed
  <2> QED
    BY <1>9, <2>1
    DEF ledgerVars, LedgerInv, LedgerTypeOK, IndexSound, NoDuplicateRow, SingleOwner,
        OwnerProgress, SignedBeforeListed, Accounted, AckedOnDisk
<1> QED
  BY <1>1, <1>2, <1>3, <1>4, <1>5, <1>6, <1>7, <1>8, <1>9 DEF LedgerNext, Continue

\* No step takes back or rewrites anything,
LEMMA StepKept == LedgerInv /\ [LedgerNext]_ledgerVars => [Kept]_ledgerVars
<1> SUFFICES ASSUME LedgerInv, LedgerNext PROVE Kept
  OBVIOUS
<1>1. index \in Seq(Digest \cup {NL}) /\ object \in [Digest -> {"absent", "partial", "whole"}]
  BY DEF LedgerInv, LedgerTypeOK
<1>2. PICK w \in Writer :
        \/ \E d \in Digest, s \in BOOLEAN : Begin(w, d, s)
        \/ Continue(w)
        \/ CutShort(w)
  BY DEF LedgerNext
<1>3. UNCHANGED index \/ index' = Append(index, arg[w]) \/ index' = Append(index, NL)
  BY <1>2 DEF Begin, Continue, CutShort, CreateObject, ReturnExisting, FillObject,
              WriteEnvelope, AppendRow, EndRow, IndexWith
<1>4. pc[w] # "idle" => arg[w] \in Digest
  BY DEF LedgerInv, LedgerTypeOK
<1>5. index' = Append(index, arg[w]) => arg[w] \in Digest \/ UNCHANGED index
  BY <1>2, <1>4 DEF Begin, Continue, CutShort, CreateObject, ReturnExisting, FillObject,
                    WriteEnvelope, AppendRow, EndRow, IndexWith
<1>6. Len(index') >= Len(index) /\ \A i \in DOMAIN index : index'[i] = index[i]
  BY <1>1, <1>3, <1>5
<1>7. \A d \in Digest : object[d] = "whole" => object'[d] = "whole"
  BY <1>1, <1>2
  DEF Begin, Continue, CutShort, CreateObject, ReturnExisting, FillObject, WriteEnvelope,
      AppendRow, EndRow, IndexWith
<1>8. envelope \subseteq envelope'
  BY <1>2
  DEF Begin, Continue, CutShort, CreateObject, ReturnExisting, FillObject, WriteEnvelope,
      AppendRow, EndRow, IndexWith
<1> QED BY <1>6, <1>7, <1>8 DEF Kept

\* and none writes an envelope over a statement that is listed.
LEMMA EnvelopeKept ==
  ASSUME LedgerInv, [LedgerNext]_ledgerVars, NEW d \in Listed
  PROVE  d \in envelope' <=> d \in envelope
<1>1. ASSUME NEW w \in Writer, WriteEnvelope(w) PROVE arg[w] # d
  BY <1>1 DEF WriteEnvelope, LedgerInv, OwnerProgress
<1>2. CASE \E w \in Writer : WriteEnvelope(w)
  BY <1>1, <1>2 DEF WriteEnvelope
<1>3. CASE ~ \E w \in Writer : WriteEnvelope(w)
  BY <1>3 DEF LedgerNext, Continue, Begin, CreateObject, ReturnExisting, FillObject,
              AppendRow, EndRow, CutShort, ledgerVars
<1> QED BY <1>2, <1>3

\* The inductive invariant holds in every reachable state of the append side.
THEOREM LedgerInvariant == LedgerSpec => []LedgerInv
<1> QED BY InitInv, StepInv, PTL DEF LedgerSpec

\* Concurrent, repeated and cut-short appends of any contents leave an index in
\* which every row has its whole object, no content has two rows, no signed
\* statement precedes its envelope, and every object on disk is either listed,
\* on its way there, or was left behind by an append that was cut short.
THEOREM LedgerSafety ==
  LedgerSpec => [](IndexSound /\ NoDuplicateRow /\ SignedBeforeListed /\ Accounted)
<1>1. LedgerInv => IndexSound /\ NoDuplicateRow /\ SignedBeforeListed /\ Accounted
  BY DEF LedgerInv
<1> QED BY <1>1, LedgerInvariant, PTL

\* Nothing written is ever taken back or rewritten, whatever is cut short.
THEOREM LedgerAppendOnly == LedgerSpec => AppendOnly
<1> QED BY StepKept, LedgerInvariant, PTL DEF LedgerSpec, AppendOnly

-----------------------------------------------------------------------------
(* Lines of bytes in which rows and newlines alternate. *)

\* A set of numbers has a least one.
LEMMA LeastOf ==
  ASSUME NEW S, S \subseteq Nat, S # {}
  PROVE  \E m \in S : \A k \in S : m <= k
<1>1. PICK m \in S : \A k \in S : ~ (<<k, m>> \in OpToRel(<, Nat))
  BY NatLessThanWellFounded, WFMin, Zenon
<1>2. \A k \in S : ~ (k < m)
  BY <1>1, Zenon DEF OpToRel
<1> QED BY <1>2

\* Rows and newlines alternate.
Ruled(bytes) ==
  /\ bytes \in Seq(Digest \cup {NL})
  /\ \A i \in 1 .. Len(bytes) : IF i % 2 = 0 THEN bytes[i] = NL ELSE bytes[i] \in Digest

Evens(n) == {i \in 1 .. n : i % 2 = 0}

\* The even numbers in order.
LEMMA EvensAscend ==
  ASSUME NEW n \in Nat
  PROVE  Ascending(Evens(n)) = [k \in 1 .. n \div 2 |-> 2 * k]
<1> DEFINE m == n \div 2
           f == [k \in 1 .. m |-> 2 * k]
<1>0. m \in Nat /\ 2 * m <= n /\ n <= 2 * m + 1
  OBVIOUS
<1> HIDE DEF m
<1>1. f \in [1 .. m -> Evens(n)] /\ \A i, j \in 1 .. m : i < j => f[i] < f[j]
  BY <1>0 DEF Evens
<1>2. Cardinality(Evens(n)) = m
  <2>1. f \in Injection(1 .. m, Evens(n))
    BY <1>0, <1>1 DEF Injection, IsInjective
  <2>2. ASSUME NEW i \in Evens(n) PROVE \E k \in 1 .. m : f[k] = i
    <3>1. i = 2 * (i \div 2) /\ i \div 2 \in 1 .. m
      BY <1>0 DEF Evens
    <3> QED BY <3>1
  <2>3. f \in Bijection(1 .. m, Evens(n))
    BY <2>1, <2>2, <1>1 DEF Bijection, Surjection
  <2> QED BY <2>3, <1>0, FS_CountingElements DEF ExistsBijection
<1>3. ASSUME NEW g \in [1 .. m -> Evens(n)], \A i, j \in 1 .. m : i < j => g[i] < g[j]
      PROVE  g = f
  <2>0. \A k \in 1 .. m : g[k] \in Nat /\ g[k] >= 2 /\ g[k] <= 2 * m /\ g[k] % 2 = 0
    BY <1>0 DEF Evens
  <2>1. ASSUME NEW k \in 1 .. m, g[k] < 2 * k PROVE FALSE
    <3> DEFINE Low == {l \in 1 .. m : g[l] < 2 * l}
    <3>0. Low \subseteq Nat /\ k \in Low
      BY <2>1, <1>0
    <3>1. PICK l \in Low : \A j \in Low : l <= j
      BY <3>0, LeastOf
    <3>2. l # 1
      BY <2>0
    <3>3. l - 1 \in 1 .. m /\ l - 1 \notin Low
      BY <3>1, <3>2, <1>0
    <3>4. g[l - 1] >= 2 * (l - 1) /\ g[l - 1] < g[l]
      BY <3>3, <1>3, <2>0
    <3>5. l \in 1 .. m /\ g[l] < 2 * l
      BY <3>1
    <3>6. /\ g[l] \in Nat /\ g[l - 1] \in Nat /\ g[l] % 2 = 0 /\ g[l - 1] % 2 = 0
      BY <3>3, <3>5, <2>0
    <3>7. l \in Nat /\ 2 * (l - 1) = 2 * l - 2
      BY <3>5
    <3> HIDE DEF Low
    <3> QED BY <3>4, <3>5, <3>6, <3>7
  <2>2. ASSUME NEW k \in 1 .. m, g[k] > 2 * k PROVE FALSE
    <3> DEFINE High == {l \in 0 .. m - 1 : g[m - l] > 2 * (m - l)}
    <3>0. High \subseteq Nat /\ m - k \in High
      <4>1. m - (m - k) = k /\ m - k \in 0 .. m - 1
        BY <1>0
      <4> QED BY <4>1, <2>2
    <3>1. PICK l \in High : \A j \in High : l <= j
      BY <3>0, LeastOf
    <3>2. l # 0
      BY <2>0, <1>0
    <3>3. l - 1 \in 0 .. m - 1 /\ l - 1 \notin High
      BY <3>1, <3>2, <1>0
    <3>4. m - l \in 1 .. m /\ m - (l - 1) \in 1 .. m /\ m - l < m - (l - 1)
      BY <3>3, <3>1, <1>0
    <3>5. g[m - (l - 1)] <= 2 * (m - (l - 1)) /\ g[m - l] < g[m - (l - 1)]
      BY <3>3, <3>4, <1>3, <2>0
    <3>6. g[m - l] > 2 * (m - l) /\ g[m - l] \in Nat /\ g[m - (l - 1)] \in Nat
      BY <3>1, <3>4, <2>0
    <3>7. g[m - l] % 2 = 0 /\ g[m - (l - 1)] % 2 = 0
      BY <3>4, <2>0
    <3>8. 2 * (m - (l - 1)) = 2 * (m - l) + 2 /\ m - l \in Nat
      BY <3>4, <1>0
    <3> HIDE DEF High
    <3> QED BY <3>5, <3>6, <3>7, <3>8
  <2>3. \A k \in 1 .. m : g[k] = 2 * k
    BY <2>0, <2>1, <2>2
  <2> QED BY <2>3
<1> DEFINE C == CHOOSE h \in [1 .. m -> Evens(n)] : \A i, j \in DOMAIN h : i < j => h[i] < h[j]
<1>4. C \in [1 .. m -> Evens(n)] /\ \A i, j \in DOMAIN C : i < j => C[i] < C[j]
  <2> HIDE DEF f
  <2>1. f \in [1 .. m -> Evens(n)] /\ \A i, j \in DOMAIN f : i < j => f[i] < f[j]
    BY <1>1
  <2> QED BY <2>1
<1>5. Ascending(Evens(n)) = C
  BY <1>2 DEF Ascending
<1> QED BY <1>3, <1>4, <1>5 DEF m

\* What is at least all of a set is its maximum.
LEMMA MaxIs ==
  ASSUME NEW S, S \subseteq Int, NEW m \in S, \A y \in S : m >= y
  PROVE  Max(S) = m
<1>1. Max(S) \in S /\ \A y \in S : Max(S) >= y
  BY DEF Max
<1>2. Max(S) \in Int /\ m \in Int /\ Max(S) >= m /\ m >= Max(S)
  BY <1>1
<1> HIDE DEF Max
<1> QED BY <1>2

\* In ruled bytes every line but the last is one row and its newline.
LEMMA RuledLines ==
  ASSUME NEW bytes, Ruled(bytes)
  PROVE  /\ Newlines(bytes) = Evens(Len(bytes)) /\ BadLines(bytes) = {}
         /\ WholeLines(bytes) = Evens(Len(bytes))
         /\ LastNewline(bytes) = 2 * (Len(bytes) \div 2)
<1>0. Len(bytes) \in Nat /\ DOMAIN bytes = 1 .. Len(bytes)
  BY DEF Ruled
<1>1. Newlines(bytes) = Evens(Len(bytes))
  BY <1>0, LedgerAssumption DEF Ruled, Newlines, Evens
<1>2. ASSUME NEW i \in Newlines(bytes) PROVE LineStart(bytes, i) = i - 2
  <2>1. i \in Nat /\ i >= 2 /\ i <= Len(bytes) /\ i % 2 = 0
    BY <1>1, <1>0 DEF Evens
  <2> DEFINE before == {0} \cup {j \in Newlines(bytes) : j < i}
  <2>2. \A j \in before : j \in Int /\ i - 2 >= j
    BY <2>1, <1>1, <1>0 DEF Evens
  <2>3. i - 2 \in before
    BY <2>1, <1>1, <1>0 DEF Evens
  <2> HIDE DEF before
  <2>4. Max(before) = i - 2
    BY <2>2, <2>3, MaxIs
  <2> QED BY <2>4 DEF before, LineStart
<1>3. \A i \in Newlines(bytes) : i \in Nat
  BY <1>1, <1>0 DEF Evens
<1>4. BadLines(bytes) = {} /\ WholeLines(bytes) = Newlines(bytes)
  BY <1>2, <1>3 DEF BadLines, WholeLines
<1>5. LastNewline(bytes) = 2 * (Len(bytes) \div 2)
  <2> DEFINE ends == {0} \cup Newlines(bytes)
             last == 2 * (Len(bytes) \div 2)
  <2>1. last \in Nat /\ last <= Len(bytes) /\ Len(bytes) <= last + 1 /\ last % 2 = 0
    BY <1>0
  <2>2. last \in ends
    BY <2>1, <1>1, <1>0 DEF Evens
  <2>3. \A j \in ends : j \in Int /\ last >= j
    BY <2>1, <1>1, <1>0 DEF Evens
  <2> HIDE DEF ends, last
  <2>4. Max(ends) = last
    BY <2>2, <2>3, MaxIs
  <2> QED BY <2>4 DEF ends, last, LastNewline
<1> QED BY <1>1, <1>4, <1>5

\* So the rows are the odd bytes that a newline follows,
RowsIn(bytes) == [k \in 1 .. Len(bytes) \div 2 |-> bytes[2 * k - 1]]
LEMMA WholeRows ==
  ASSUME NEW bytes, Ruled(bytes)
  PROVE  EveryWholeRow[bytes] = RowsIn(bytes)
<1>0. Len(bytes) \in Nat /\ bytes \in Seq(Digest \cup {NL})
  BY DEF Ruled
<1> DEFINE at == Ascending(WholeLines(bytes))
<1>1. at = [k \in 1 .. Len(bytes) \div 2 |-> 2 * k]
  BY <1>0, RuledLines, EvensAscend
<1>2. EveryWholeRow[bytes] = [k \in DOMAIN at |-> bytes[at[k] - 1]]
  BY <1>0 DEF EveryWholeRow
<1> HIDE DEF at
<1> QED BY <1>1, <1>2 DEF RowsIn

\* and a reader makes the same of them.
LEMMA RowsRead ==
  ASSUME NEW bytes, Ruled(bytes)
  PROVE  RowsOf(bytes) = RowsIn(bytes)
<1>0. Len(bytes) \in Nat /\ bytes \in Seq(Digest \cup {NL})
  BY DEF Ruled
<1> DEFINE last == 2 * (Len(bytes) \div 2)
<1>1. last \in Nat /\ last <= Len(bytes) /\ last \div 2 = Len(bytes) \div 2
  BY <1>0
<1>2. Parsable(bytes) = SubSeq(bytes, 1, last)
  BY RuledLines DEF Parsable
<1> HIDE DEF last
<1>3. /\ SubSeq(bytes, 1, last) \in Seq(Digest \cup {NL}) /\ Len(SubSeq(bytes, 1, last)) = last
      /\ \A i \in 1 .. last : SubSeq(bytes, 1, last)[i] = bytes[i]
  BY <1>0, <1>1
<1>4. Ruled(SubSeq(bytes, 1, last))
  <2> DEFINE whole == SubSeq(bytes, 1, last)
  <2>1. whole \in Seq(Digest \cup {NL}) /\ Len(whole) = last /\ \A i \in 1 .. last : whole[i] = bytes[i]
    BY <1>3
  <2> HIDE DEF whole
  <2>2. \A i \in 1 .. last : i \in 1 .. Len(bytes)
    BY <1>0, <1>1
  <2>3. Ruled(whole)
    BY <2>1, <2>2 DEF Ruled
  <2> QED BY <2>3 DEF whole
<1>5. \A k \in 1 .. last \div 2 : 2 * k - 1 \in 1 .. last
  BY <1>1
<1>6. RowsIn(SubSeq(bytes, 1, last)) = RowsIn(bytes)
  BY <1>1, <1>3, <1>5 DEF RowsIn
<1> QED BY <1>2, <1>4, <1>6, WholeRows DEF RowsOf

-----------------------------------------------------------------------------
(* The index where a row is appended whole or not at all. *)

\* Rows and newlines alternate in it, and a row is without its newline exactly
\* while one append is between the two.
Lined ==
  /\ Ruled(index)
  /\ \A v, w \in Writer : pc[v] = "newline" /\ pc[w] = "newline" => v = w
  /\ Len(index) % 2 = 1 <=> \E w \in Writer : pc[w] = "newline"

\* One more byte of the right kind.
LEMMA RuledAppend ==
  ASSUME Ruled(index), NEW b, IF Len(index) % 2 = 1 THEN b = NL ELSE b \in Digest, index' = Append(index, b)
  PROVE  /\ Ruled(index') /\ Len(index') = Len(index) + 1 /\ Len(index) \in Nat
         /\ index'[Len(index) + 1] = b /\ \A i \in 1 .. Len(index) : index'[i] = index[i]
<1>1. index \in Seq(Digest \cup {NL}) /\ b \in Digest \cup {NL} /\ Len(index) \in Nat
  BY DEF Ruled
<1>2. /\ index' \in Seq(Digest \cup {NL}) /\ Len(index') = Len(index) + 1
      /\ index'[Len(index) + 1] = b /\ \A i \in 1 .. Len(index) : index'[i] = index[i]
  BY <1>1
<1>3. ASSUME NEW i \in 1 .. Len(index')
      PROVE  IF i % 2 = 0 THEN index'[i] = NL ELSE index'[i] \in Digest
  <2>1. CASE i \in 1 .. Len(index)
    BY <2>1, <1>2 DEF Ruled
  <2>2. CASE i = Len(index) + 1
    <3>1. i % 2 = 0 <=> Len(index) % 2 = 1
      BY <2>2, <1>1
    <3> QED BY <3>1, <2>2, <1>2
  <2> QED BY <2>1, <2>2, <1>1, <1>2
<1> QED BY <1>1, <1>2, <1>3 DEF Ruled

\* A step of a writer adds a byte of the right kind or none.
LEMMA LinedStep ==
  ASSUME LedgerInv, Lined, TornWrite = FALSE, [LedgerNext]_ledgerVars
  PROVE  /\ Lined'
         /\ \/ index' = index
            \/ \E b : index' = Append(index, b) /\ IF Len(index) % 2 = 1 THEN b = NL ELSE b \in Digest
<1>0. pc \in [Writer -> Step] /\ Len(index) \in Nat /\ \A w \in Writer : pc[w] # "idle" => arg[w] \in Digest
  BY DEF LedgerInv, LedgerTypeOK, Lined, Ruled
<1>1. ASSUME index' = index, \A w \in Writer : pc'[w] = "newline" <=> pc[w] = "newline"
      PROVE  Lined'
  BY <1>1 DEF Lined
<1>2. CASE UNCHANGED ledgerVars
  BY <1>2, <1>1 DEF ledgerVars
<1>3. ASSUME NEW w \in Writer, NEW d \in Digest, NEW s \in BOOLEAN, Begin(w, d, s)
      PROVE  index' = index /\ Lined'
  BY <1>3, <1>1, <1>0 DEF Begin
<1>4. ASSUME NEW w \in Writer, CreateObject(w) \/ ReturnExisting(w) \/ FillObject(w) \/ WriteEnvelope(w)
      PROVE  index' = index /\ Lined'
  BY <1>4, <1>1, <1>0 DEF CreateObject, ReturnExisting, FillObject, AfterFill, WriteEnvelope, Done
<1>5. ASSUME NEW w \in Writer, AppendRow(w)
      PROVE  Lined' /\ index' = Append(index, arg[w]) /\ Len(index) % 2 # 1 /\ arg[w] \in Digest
  <2>1. /\ index' = Append(index, arg[w]) /\ arg[w] \in Digest /\ Len(index) % 2 # 1
        /\ pc'[w] = "newline" /\ \A v \in Writer \ {w} : pc'[v] = pc[v] /\ pc[v] # "newline"
    BY <1>5, <1>0 DEF AppendRow, IndexWith, Lined
  <2>2. Ruled(index') /\ Len(index') = Len(index) + 1
    BY <2>1, RuledAppend DEF Lined
  <2>3. Len(index') % 2 = 1
    BY <2>1, <2>2, <1>0
  <2> QED BY <2>1, <2>2, <2>3 DEF Lined
<1>6. ASSUME NEW w \in Writer, EndRow(w)
      PROVE  Lined' /\ index' = Append(index, NL) /\ Len(index) % 2 = 1
  <2>1. /\ index' = Append(index, NL) /\ Len(index) % 2 = 1 /\ pc[w] = "newline"
        /\ pc'[w] = "idle" /\ \A v \in Writer \ {w} : pc'[v] = pc[v] /\ pc[v] # "newline"
    BY <1>6, <1>0 DEF EndRow, IndexWith, Lined, Done
  <2>2. Ruled(index') /\ Len(index') = Len(index) + 1
    BY <2>1, RuledAppend DEF Lined
  <2>3. Len(index') % 2 # 1
    BY <2>1, <2>2, <1>0
  <2> QED BY <2>1, <2>2, <2>3 DEF Lined
<1>7. ASSUME NEW w \in Writer, CutShort(w)
      PROVE  index' = index /\ Lined'
  BY <1>7, <1>1, <1>0 DEF CutShort, Done
<1> QED BY <1>2, <1>3, <1>4, <1>5, <1>6, <1>7 DEF LedgerNext, Continue

\* The part of a sequence after a place and up to another.
After(s, a, b) == SubSeq(s, a + 1, b)

LEMMA PartOf ==
  ASSUME NEW S, NEW s \in Seq(S), NEW a \in Nat, NEW b \in Nat, a <= b, b <= Len(s)
  PROVE  /\ After(s, a, b) \in Seq(S) /\ Len(After(s, a, b)) = b - a
         /\ \A i \in 1 .. b - a : After(s, a, b)[i] = s[a + i]
<1>1. \A i \in a + 1 .. b : s[i] \in S
  <2>1. Len(s) \in Nat /\ \A i \in 1 .. Len(s) : s[i] \in S
    OBVIOUS
  <2> QED BY <2>1
<1>2. /\ SubSeq(s, a + 1, b) \in Seq(S)
      /\ Len(SubSeq(s, a + 1, b)) = IF a + 1 <= b THEN b - (a + 1) + 1 ELSE 0
      /\ \A i \in 1 .. b - (a + 1) + 1 : SubSeq(s, a + 1, b)[i] = s[(a + 1) + i - 1]
  BY <1>1, SubSeqProperties
<1>3. b - (a + 1) + 1 = b - a /\ \A i \in 1 .. b - a : (a + 1) + i - 1 = a + i
  OBVIOUS
<1> QED BY <1>2, <1>3 DEF After

\* Two parts that adjoin make one,
LEMMA PartsJoin ==
  ASSUME NEW S, NEW s \in Seq(S), NEW a \in Nat, NEW b \in Nat, NEW c \in Nat, a <= b, b <= c, c <= Len(s)
  PROVE  After(s, a, b) \o After(s, b, c) = After(s, a, c)
<1>0. Len(s) \in Nat /\ b <= Len(s) /\ a <= c
  OBVIOUS
<1> DEFINE u == After(s, a, b)
<1>1. /\ u \in Seq(S) /\ Len(u) = b - a
      /\ \A i \in 1 .. b - a : u[i] = s[a + i]
  BY <1>0, PartOf
<1> DEFINE v == After(s, b, c)
<1>2. /\ v \in Seq(S) /\ Len(v) = c - b
      /\ \A i \in 1 .. c - b : v[i] = s[b + i]
  BY <1>0, PartOf
<1> DEFINE w == After(s, a, c)
<1>3. /\ w \in Seq(S) /\ Len(w) = c - a
      /\ \A i \in 1 .. c - a : w[i] = s[a + i]
  BY <1>0, PartOf
<1> HIDE DEF u, v, w
<1>4. /\ u \o v \in Seq(S) /\ Len(u \o v) = Len(u) + Len(v)
      /\ \A i \in 1 .. Len(u) + Len(v) : (u \o v)[i] = IF i <= Len(u) THEN u[i] ELSE v[i - Len(u)]
  <2>1. u \in Seq(S) /\ v \in Seq(S)
    BY <1>1, <1>2
  <2> QED BY <2>1, ConcatProperties
<1> DEFINE uv == u \o v
<1> HIDE DEF uv
<1>9. /\ uv \in Seq(S) /\ Len(uv) = c - a
      /\ \A i \in 1 .. c - a : uv[i] = IF i <= b - a THEN u[i] ELSE v[i - (b - a)]
  <2>1. Len(u) = b - a /\ Len(u) + Len(v) = c - a
    BY <1>1, <1>2
  <2>2. /\ uv \in Seq(S) /\ Len(uv) = Len(u) + Len(v)
        /\ \A i \in 1 .. Len(u) + Len(v) : uv[i] = IF i <= Len(u) THEN u[i] ELSE v[i - Len(u)]
    BY <1>4 DEF uv
  <2> QED BY ONLY <2>1, <2>2
<1>5. ASSUME NEW i \in 1 .. c - a PROVE uv[i] = w[i]
  <2>1. CASE i <= b - a
    <3>1. i \in 1 .. b - a
      BY <2>1
    <3>2. uv[i] = u[i] /\ u[i] = s[a + i]
      BY <2>1, <3>1, <1>9, <1>1
    <3> QED BY <3>2, <1>3
  <2>2. CASE i > b - a
    <3>1. i - (b - a) \in 1 .. c - b /\ b + (i - (b - a)) = a + i /\ ~(i <= b - a)
      BY <2>2
    <3>2. uv[i] = v[i - (b - a)]
      BY <3>1, <1>9
    <3>3. v[i - (b - a)] = s[a + i]
      BY <3>1, <1>2
    <3> QED BY <3>2, <3>3, <1>3
  <2> QED BY <2>1, <2>2
<1>6. uv = w
  BY <1>3, <1>9, <1>5, SeqEqual
<1> QED BY <1>6 DEF uv, u, v, w

\* and a part of a part is one.
LEMMA PartOfPart ==
  ASSUME NEW S, NEW s \in Seq(S), NEW a \in Nat, NEW b \in Nat, NEW c \in Nat, a + b <= c, c <= Len(s)
  PROVE  After(After(s, a, c), b, c - a) = After(s, a + b, c)
<1>0. Len(s) \in Nat /\ a <= c /\ c - a \in Nat /\ b <= c - a /\ a + b \in Nat
  OBVIOUS
<1> DEFINE u == After(s, a, c)
<1>1. /\ u \in Seq(S) /\ Len(u) = c - a
      /\ \A i \in 1 .. c - a : u[i] = s[a + i]
  BY ONLY <1>0, PartOf, ZenonT(40), s \in Seq(S), a \in Nat, c \in Nat, c <= Len(s)
<1> HIDE DEF u
<1> DEFINE v == After(u, b, c - a)
<1>2. /\ v \in Seq(S) /\ Len(v) = (c - a) - b
      /\ \A i \in 1 .. (c - a) - b : v[i] = u[b + i]
  <2>1. u \in Seq(S) /\ b \in Nat /\ c - a \in Nat /\ b <= c - a /\ c - a <= Len(u)
    BY <1>0, <1>1
  <2> QED BY ONLY <2>1, PartOf
<1> DEFINE w == After(s, a + b, c)
<1>3. /\ w \in Seq(S) /\ Len(w) = c - (a + b)
      /\ \A i \in 1 .. c - (a + b) : w[i] = s[(a + b) + i]
  BY ONLY <1>0, PartOf, ZenonT(40), s \in Seq(S), c \in Nat, a + b <= c, c <= Len(s)
<1> HIDE DEF u, v, w
<1>4. ASSUME NEW i \in 1 .. (c - a) - b PROVE v[i] = w[i]
  <2>1. b + i \in 1 .. c - a /\ a + (b + i) = (a + b) + i /\ i \in 1 .. c - (a + b)
    BY <1>0
  <2> QED BY <2>1, <1>1, <1>2, <1>3
<1>5. Len(v) = Len(w) /\ Len(v) = (c - a) - b
  BY <1>0, <1>2, <1>3
<1>6. v = w
  <2>1. v \in Seq(S) /\ w \in Seq(S) /\ \A i \in 1 .. Len(v) : v[i] = w[i]
    BY <1>2, <1>3, <1>4, <1>5
  <2> QED BY <2>1, <1>5, SeqEqual
<1> QED BY <1>6 DEF u, v, w

\* What begins where a row may begin is ruled as well.
LEMMA RuledPart ==
  ASSUME NEW bytes, Ruled(bytes), NEW h \in Nat, NEW n \in Nat, 2 * h <= n, n <= Len(bytes)
  PROVE  Ruled(After(bytes, 2 * h, n)) /\ Len(After(bytes, 2 * h, n)) = n - 2 * h
<1>0. bytes \in Seq(Digest \cup {NL}) /\ Len(bytes) \in Nat /\ 2 * h \in Nat
  BY DEF Ruled
<1> DEFINE u == After(bytes, 2 * h, n)
<1>1. /\ u \in Seq(Digest \cup {NL}) /\ Len(u) = n - 2 * h
      /\ \A i \in 1 .. n - 2 * h : u[i] = bytes[2 * h + i]
  BY ONLY <1>0, PartOf, ZenonT(40), n \in Nat, 2 * h <= n, n <= Len(bytes)
<1> HIDE DEF u
<1>2. ASSUME NEW i \in 1 .. n - 2 * h PROVE IF i % 2 = 0 THEN u[i] = NL ELSE u[i] \in Digest
  <2>1. 2 * h + i \in 1 .. Len(bytes) /\ (2 * h + i) % 2 = i % 2
    BY <1>0
  <2> QED BY <2>1, <1>1 DEF Ruled
<1>3. Ruled(u) /\ Len(u) = n - 2 * h
  BY <1>1, <1>2 DEF Ruled
<1> QED BY <1>3 DEF u

\* The rows of the first lines of ruled bytes.
FirstRows(list, h, bytes) ==
  list \in Seq(Digest) /\ Len(list) = h /\ \A k \in 1 .. h : list[k] = bytes[2 * k - 1]

\* Two lists agree in their first k entries.
Agree(s, t, n) == \A k \in 1 .. n : s[k] = t[k]

\* Rows of the first h lines and those of what follows are the rows of it all.
LEMMA RowsJoin ==
  ASSUME NEW bytes, Ruled(bytes), NEW h \in Nat, NEW n \in Nat, 2 * h <= n, n <= Len(bytes),
         NEW list, FirstRows(list, h, bytes),
         NEW more, more = list \o RowsIn(After(bytes, 2 * h, n))
  PROVE  /\ FirstRows(more, n \div 2, bytes) /\ h <= n \div 2 /\ Agree(more, list, h)
<1>10. list \in Seq(Digest) /\ Len(list) = h /\ \A k \in 1 .. h : list[k] = bytes[2 * k - 1]
  BY DEF FirstRows
<1>0. bytes \in Seq(Digest \cup {NL}) /\ Len(bytes) \in Nat /\ 2 * h \in Nat
  BY DEF Ruled
<1>1. PICK m \in Nat : m = (n - 2 * h) \div 2
  OBVIOUS
<1>2. n \div 2 = h + m /\ 2 * h + 2 * m <= n
  BY <1>1
<1> DEFINE u == After(bytes, 2 * h, n)
<1>3. /\ Len(u) = n - 2 * h
      /\ \A i \in 1 .. n - 2 * h : u[i] = bytes[2 * h + i]
  BY <1>0, PartOf
<1> HIDE DEF u
<1>4. RowsIn(u) = [k \in 1 .. m |-> u[2 * k - 1]]
  BY <1>1, <1>3 DEF RowsIn
<1>5. ASSUME NEW k \in 1 .. m
      PROVE  u[2 * k - 1] \in Digest /\ u[2 * k - 1] = bytes[2 * (h + k) - 1]
  <2>1. 2 * k - 1 \in 1 .. n - 2 * h /\ 2 * h + (2 * k - 1) = 2 * (h + k) - 1
    BY <1>2
  <2>2. 2 * (h + k) - 1 \in 1 .. Len(bytes) /\ (2 * (h + k) - 1) % 2 # 0
    BY <1>2, <1>0
  <2> QED BY <2>1, <2>2, <1>3 DEF Ruled
<1> DEFINE v == RowsIn(u)
<1>6. /\ v \in Seq(Digest) /\ Len(v) = m
      /\ \A k \in 1 .. m : v[k] = bytes[2 * (h + k) - 1]
  <2>1. v = [k \in 1 .. m |-> u[2 * k - 1]]
    BY <1>4
  <2> HIDE DEF v
  <2>2. v \in Seq(Digest) /\ Len(v) = m
    BY <2>1, <1>5
  <2> QED BY <2>1, <2>2, <1>5
<1> HIDE DEF v
<1>7. /\ more \in Seq(Digest) /\ Len(more) = h + m
      /\ \A k \in 1 .. h + m : more[k] = IF k <= h THEN list[k] ELSE v[k - h]
  <2>1. more = list \o v
    BY DEF u, v
  <2>2. /\ list \o v \in Seq(Digest) /\ Len(list \o v) = Len(list) + Len(v)
        /\ \A k \in 1 .. Len(list) + Len(v) : (list \o v)[k] = IF k <= Len(list) THEN list[k] ELSE v[k - Len(list)]
    <3>1. list \in Seq(Digest) /\ v \in Seq(Digest)
      BY <1>6, <1>10
    <3> QED BY <3>1, ConcatProperties
  <2> QED BY <2>1, <2>2, <1>6, <1>10
<1>8. ASSUME NEW k \in 1 .. h + m PROVE more[k] = bytes[2 * k - 1]
  <2>1. CASE k <= h
    <3>1. k \in 1 .. h
      BY <2>1
    <3> QED BY <2>1, <3>1, <1>7, <1>10
  <2>2. CASE k > h
    <3>1. PICK j \in 1 .. m : k = h + j /\ k - h = j
      <4>1. k - h \in 1 .. m /\ k = h + (k - h)
        BY <2>2
      <4> QED BY <4>1
    <3>6. ~(k <= h)
      BY <2>2
    <3>7. more[k] = v[k - h]
      BY ONLY <3>6, <1>7, k \in 1 .. h + m
    <3>2. more[k] = v[j]
      BY <3>7, <3>1, Zenon
    <3>3. v[j] = bytes[2 * (h + j) - 1]
      BY <1>6
    <3>4. 2 * (h + j) - 1 = 2 * k - 1
      BY <3>1
    <3>5. bytes[2 * (h + j) - 1] = bytes[2 * k - 1]
      BY <3>4, Zenon
    <3> QED BY <3>2, <3>3, <3>5
  <2>3. k <= h \/ k > h
    OBVIOUS
  <2> QED BY <2>1, <2>2, <2>3, Zenon
<1>9. Agree(more, list, h)
  BY <1>7 DEF Agree
<1>11. FirstRows(more, h + m, bytes)
  BY ONLY <1>7, <1>8 DEF FirstRows
<1>12. h <= n \div 2
  BY <1>2
<1> QED BY <1>2, <1>9, <1>11, <1>12, Zenon

\* Sequences that agree so far have the same parts.
LEMMA PartKept ==
  ASSUME NEW S, NEW s \in Seq(S), NEW t \in Seq(S), NEW a \in Nat, NEW b \in Nat, a <= b,
         b <= Len(s), b <= Len(t)
  PROVE  (\A i \in 1 .. b : s[i] = t[i]) => After(s, a, b) = After(t, a, b)
<1>1. /\ After(s, a, b) \in Seq(S) /\ Len(After(s, a, b)) = b - a
      /\ \A i \in 1 .. b - a : After(s, a, b)[i] = s[a + i]
  BY PartOf
<1>2. /\ After(t, a, b) \in Seq(S) /\ Len(After(t, a, b)) = b - a
      /\ \A i \in 1 .. b - a : After(t, a, b)[i] = t[a + i]
  BY PartOf
<1> SUFFICES ASSUME \A i \in 1 .. b : s[i] = t[i] PROVE After(s, a, b) = After(t, a, b)
  OBVIOUS
<1>3. ASSUME NEW i \in 1 .. b - a PROVE After(s, a, b)[i] = After(t, a, b)[i]
  <2>1. a + i \in 1 .. b
    OBVIOUS
  <2> QED BY <2>1, <1>1, <1>2
<1> QED BY <1>1, <1>2, <1>3, SeqEqual

-----------------------------------------------------------------------------
(* A reader beside it. *)

ReaderTypeOK ==
  /\ rows \in [Reader -> Seq(Digest)] /\ listed \in [Reader -> Seq(Digest)]
  /\ consumed \in [Reader -> Nat] /\ reading \in [Reader -> Nat \cup {Quiet}]
  /\ partial \in [Reader -> Seq(Digest \cup {NL})]
  /\ loaded \in [Reader -> SUBSET Digest] /\ modified \in SUBSET Digest

\* A reader holds the rows of what it consumed and the rest of the last line,
\* and what it has listed is the first of them.
Follows(r) ==
  /\ consumed[r] <= Len(index)
  /\ reading[r] # Quiet => consumed[r] <= reading[r] /\ reading[r] <= Len(index)
  /\ partial[r] = After(index, 2 * (consumed[r] \div 2), consumed[r])
  /\ FirstRows(rows[r], consumed[r] \div 2, index)
  /\ Len(listed[r]) <= Len(rows[r])
  /\ Agree(listed[r], rows[r], Len(listed[r]))

ReaderInv == LedgerInv /\ Lined /\ ReaderTypeOK /\ \A r \in Reader : Follows(r)

\* A longer index is followed where the shorter one was.
LEMMA FollowsOn ==
  ASSUME ReaderInv, NEW r \in Reader, UNCHANGED <<rows[r], consumed[r], partial[r], reading[r], listed[r]>>,
         index' \in Seq(Digest \cup {NL}), Len(index) <= Len(index'), \A i \in 1 .. Len(index) : index'[i] = index[i]
  PROVE  Follows(r)'
<1>0. Len(index') \in Nat /\ Len(index) \in Nat /\ index \in Seq(Digest \cup {NL}) /\ consumed[r] \in Nat /\ consumed[r] <= Len(index)
  BY DEF ReaderInv, Lined, Ruled, ReaderTypeOK, Follows
<1> DEFINE c == consumed[r]
           e == 2 * (c \div 2)
<1>1. After(index', e, c) = After(index, e, c)
  <2>1. c \in Nat /\ e \in Nat /\ e <= c /\ c <= Len(index) /\ c <= Len(index')
    BY <1>0
  <2> HIDE DEF c, e
  <2>2. \A i \in 1 .. c : index[i] = index'[i]
    BY <2>1, <1>0
  <2> QED BY <2>1, <2>2, <1>0, PartKept DEF c
<1>2. \A k \in 1 .. Len(rows[r]) : 2 * k - 1 \in 1 .. Len(index)
  BY <1>0 DEF ReaderInv, Follows, FirstRows
<1>3. /\ rows'[r] = rows[r] /\ consumed'[r] = consumed[r] /\ partial'[r] = partial[r]
      /\ reading'[r] = reading[r] /\ listed'[r] = listed[r] /\ reading[r] \in Nat \cup {Quiet}
  BY DEF ReaderInv, ReaderTypeOK
<1>4. consumed[r] <= Len(index') /\ (reading[r] # Quiet => reading[r] <= Len(index'))
  BY <1>0, <1>3 DEF ReaderInv, Follows
<1>5. FirstRows(rows[r], consumed[r] \div 2, index')
  BY <1>2 DEF ReaderInv, Follows, FirstRows
<1> QED BY <1>1, <1>3, <1>4, <1>5 DEF ReaderInv, Follows

\* What a read makes of the bytes: it holds the rows of all it has consumed.
LEMMA ReadDoes ==
  ASSUME ReaderInv, NEW r \in Reader, NEW op, ReadTail(r, op),
         NEW c \in Nat, c = consumed[r], NEW n \in Nat, n = reading[r], NEW h \in Nat, h = c \div 2
  PROVE  /\ BadLines(TailBytes(r)) = {} /\ Reply(r, op, rows'[r])
         /\ FirstRows(rows'[r], n \div 2, index) /\ h <= n \div 2 /\ Agree(rows'[r], rows[r], h)
         /\ partial'[r] = After(index, 2 * (n \div 2), n)
<1> DEFINE bytes == TailBytes(r)
<1>0. /\ index \in Seq(Digest \cup {NL}) /\ Ruled(index) /\ Len(index) \in Nat
      /\ c <= n /\ n <= Len(index) /\ 2 * h \in Nat /\ 2 * h <= c /\ 2 * h <= n
  <2>1. Ruled(index) /\ c <= n /\ n <= Len(index)
    BY DEF ReaderInv, Lined, Follows, ReadTail
  <2>2. 2 * h \in Nat /\ 2 * h <= c
    OBVIOUS
  <2>3. Len(index) \in Nat
    BY <2>1 DEF Ruled
  <2> QED BY <2>1, <2>2, <2>3 DEF Ruled
<1>1. bytes = After(index, 2 * h, n)
  <2>1. TailBytes(r) = After(index, 2 * h, c) \o After(index, c, n)
    BY DEF TailBytes, ReaderInv, Follows, After
  <2> DEFINE e == 2 * h
             S == Digest \cup {NL}
  <2>2. index \in Seq(S) /\ e \in Nat /\ e <= c /\ c <= n /\ n <= Len(index)
    BY <1>0
  <2> HIDE DEF e, S
  <2>3. After(index, e, c) \o After(index, c, n) = After(index, e, n)
    BY ONLY <2>2, PartsJoin, c \in Nat, n \in Nat
  <2> QED BY <2>1, <2>3 DEF e
<1>2. Ruled(bytes) /\ Len(bytes) = n - 2 * h
  <2>1. Ruled(index) /\ 2 * h <= n /\ n <= Len(index)
    BY <1>0
  <2>2. Ruled(After(index, 2 * h, n)) /\ Len(After(index, 2 * h, n)) = n - 2 * h
    BY <2>1, RuledPart
  <2> QED BY <2>2, <1>1
<1>3. BadLines(bytes) = {} /\ LastNewline(bytes) = 2 * (Len(bytes) \div 2) /\ RowsOf(bytes) = RowsIn(bytes)
  BY <1>2, RuledLines, RowsRead
<1> HIDE DEF bytes
<1>4. FirstRows(rows[r], h, index)
  BY DEF ReaderInv, Follows
<1>5. rows'[r] = rows[r] \o RowsIn(After(index, 2 * h, n))
  BY <1>1, <1>3 DEF ReadTail, RowsWith, bytes, ReaderInv, ReaderTypeOK
<1>6. /\ FirstRows(rows'[r], n \div 2, index) /\ h <= n \div 2 /\ Agree(rows'[r], rows[r], h)
  <2>1. Ruled(index) /\ 2 * h <= n /\ n <= Len(index)
    BY <1>0
  <2> DEFINE more == rows'[r]
             list == rows[r]
  <2>2. FirstRows(list, h, index) /\ more = list \o RowsIn(After(index, 2 * h, n))
    BY <1>4, <1>5
  <2> HIDE DEF more, list
  <2>3. FirstRows(more, n \div 2, index) /\ h <= n \div 2 /\ Agree(more, list, h)
    BY <2>1, <2>2, RowsJoin
  <2> QED BY <2>3 DEF more, list
<1>7. partial'[r] = After(index, 2 * (n \div 2), n)
  <2> DEFINE m == (n - 2 * h) \div 2
  <2>0. n - 2 * h \in Nat
    BY <1>0
  <2>1. m \in Nat /\ 2 * h + 2 * m = 2 * (n \div 2) /\ 2 * m \in Nat /\ 2 * h + 2 * m <= n
    BY <2>0
  <2> HIDE DEF m
  <2>2. partial'[r] = After(bytes, 2 * m, n - 2 * h)
    BY <1>2, <1>3 DEF ReadTail, bytes, ReaderInv, ReaderTypeOK, After, m
  <2>3. After(After(index, 2 * h, n), 2 * m, n - 2 * h) = After(index, 2 * h + 2 * m, n)
    BY <2>1, <1>0, PartOfPart
  <2> QED BY <2>1, <2>2, <2>3, <1>1
<1>8. Reply(r, op, rows'[r])
  <2>1. rows'[r] = RowsWith(r, TailBytes(r))
    BY DEF ReadTail, ReaderInv, ReaderTypeOK
  <2> QED BY <2>1, <1>3 DEF ReadTail, bytes
<1> QED BY <1>3, <1>6, <1>7, <1>8 DEF bytes

\* A reply tells a caller the list or leaves what it was told.
LEMMA ReplyDoes ==
  ASSUME ReaderTypeOK, NEW r \in Reader, NEW op, NEW list \in Seq(Digest), Reply(r, op, list)
  PROVE  /\ listed' = listed \/ listed' = [listed EXCEPT ![r] = list]
         /\ loaded' \in [Reader -> SUBSET Digest]
<1>1. loaded \in [Reader -> SUBSET Digest] /\ \A i \in DOMAIN list : list[i] \in Digest
  BY DEF ReaderTypeOK
<1>2. CASE op = "get"
  BY <1>1, <1>2 DEF Reply
<1>3. CASE op = "list" /\ Load(r, list)
  <2> DEFINE bad == FirstModified(r, list)
  <2>1. CASE bad = {}
    BY <1>1, <1>3, <2>1 DEF Load
  <2>2. CASE bad # {}
    <3>1. bad \subseteq DOMAIN list /\ DOMAIN list \subseteq Nat
      BY DEF FirstModified, Unverified
    <3>2. \E m \in bad : \A k \in bad : m <= k
      BY <3>1, <2>2, LeastOf
    <3>3. Min(bad) \in DOMAIN list
      BY <3>1, <3>2 DEF Min
    <3> DEFINE before == {list[i] : i \in 1 .. Min(bad) - 1}
    <3>4. before \subseteq Digest
      BY <1>1, <3>3
    <3>5. loaded' = [loaded EXCEPT ![r] = @ \cup before] /\ listed' = listed
      BY <1>3, <2>2 DEF Load
    <3> HIDE DEF before, bad
    <3> QED BY <3>4, <3>5, <1>1
  <2> QED BY <2>1, <2>2
<1> QED BY <1>2, <1>3 DEF Reply

\* Nothing but the index, the rows and the listing of a reader bears on it.
LEMMA FollowsSame ==
  ASSUME ReaderInv, NEW r \in Reader,
         UNCHANGED <<index, rows[r], consumed[r], partial[r], listed[r]>>,
         reading'[r] = reading[r] \/ reading'[r] = Quiet \/ reading'[r] = Len(index)
  PROVE  Follows(r)'
BY DEF ReaderInv, Follows

\* Each step of a reader keeps it and the others where they should be.
LEMMA AnswerStep ==
  ASSUME ReaderInv, NEW r \in Reader, NEW op, AnswerUnchanged(r, op)
  PROVE  /\ ReaderInv' /\ Len(listed[r]) <= Len(rows'[r])
         /\ listed' = listed \/ listed' = [listed EXCEPT ![r] = rows'[r]]
<1>1. ReaderTypeOK /\ rows[r] \in Seq(Digest) /\ \A q \in Reader : Follows(q)
  BY DEF ReaderInv, ReaderTypeOK
<1>2. /\ listed' = listed \/ listed' = [listed EXCEPT ![r] = rows[r]]
      /\ loaded' \in [Reader -> SUBSET Digest]
  BY <1>1, ReplyDoes DEF AnswerUnchanged
<1>3. UNCHANGED <<ledgerVars, rows, consumed, partial, reading, failed, modified>>
  BY DEF AnswerUnchanged
<1>4. LedgerInv' /\ Lined'
  BY <1>3, StepInv DEF ReaderInv, Lined, Ruled, ledgerVars
<1>5. ReaderTypeOK'
  BY <1>1, <1>2, <1>3 DEF ReaderTypeOK
<1>6. ASSUME NEW q \in Reader PROVE Follows(q)'
  <2>1. listed'[q] = listed[q] \/ (q = r /\ listed'[q] = rows[q])
    BY <1>1, <1>2 DEF ReaderTypeOK
  <2>2. /\ index' = index /\ rows'[q] = rows[q] /\ consumed'[q] = consumed[q]
        /\ partial'[q] = partial[q] /\ reading'[q] = reading[q]
    BY <1>3 DEF ledgerVars
  <2>3. Agree(rows[q], rows[q], Len(rows[q])) /\ Len(rows[q]) \in Nat
    BY <1>1 DEF Agree, ReaderTypeOK
  <2> QED BY <1>1, <2>1, <2>2, <2>3 DEF Follows
<1>7. Len(listed[r]) <= Len(rows'[r])
  BY <1>1, <1>3 DEF Follows
<1> QED BY <1>2, <1>3, <1>4, <1>5, <1>6, <1>7 DEF ReaderInv

\* A reader that saw more bytes is about to read no further than they go,
LEMMA StatStep ==
  ASSUME ReaderInv, NEW r \in Reader, Stat(r)
  PROVE  ReaderInv' /\ listed' = listed
<1>1. ReaderTypeOK /\ Len(index) \in Nat
  BY DEF ReaderInv, Lined, Ruled
<1>2. /\ UNCHANGED <<ledgerVars, rows, consumed, partial, loaded, listed, failed, modified>>
      /\ reading' = [reading EXCEPT ![r] = Len(index)]
  BY DEF Stat
<1>3. LedgerInv' /\ Lined'
  BY <1>2, StepInv DEF ReaderInv, Lined, Ruled, ledgerVars
<1>4. ReaderTypeOK'
  BY <1>1, <1>2 DEF ReaderTypeOK
<1>5. ASSUME NEW q \in Reader PROVE Follows(q)'
  <2>1. UNCHANGED <<index, rows[q], consumed[q], partial[q], listed[q]>>
    BY <1>2 DEF ledgerVars
  <2>2. reading'[q] = reading[q] \/ reading'[q] = Len(index)
    BY <1>1, <1>2 DEF ReaderTypeOK
  <2> QED BY <2>1, <2>2, FollowsSame
<1> QED BY <1>2, <1>3, <1>4, <1>5 DEF ReaderInv

\* and bytes changed under an object are no reader's rows.
LEMMA ModifyStep ==
  ASSUME ReaderInv, NEW d \in Digest, Modify(d)
  PROVE  ReaderInv' /\ listed' = listed
<1>1. UNCHANGED <<ledgerVars, rows, consumed, partial, loaded, reading, listed, failed>> /\ modified' = modified \cup {d}
  BY DEF Modify
<1>2. LedgerInv' /\ Lined' /\ ReaderTypeOK'
  BY <1>1, StepInv DEF ReaderInv, Lined, Ruled, ledgerVars, ReaderTypeOK
<1>3. ASSUME NEW q \in Reader PROVE Follows(q)'
  BY <1>1, FollowsSame DEF ledgerVars
<1> QED BY <1>1, <1>2, <1>3 DEF ReaderInv

\* The step of a reader that moves it on,
LEMMA ReadStep ==
  ASSUME ReaderInv, NEW r \in Reader, NEW op, ReadTail(r, op)
  PROVE  /\ ReaderInv' /\ Len(listed[r]) <= Len(rows'[r])
         /\ listed' = listed \/ listed' = [listed EXCEPT ![r] = rows'[r]]
<1>0. ReaderTypeOK /\ reading[r] \in Nat /\ consumed[r] \in Nat /\ \A q \in Reader : Follows(q)
  BY DEF ReaderInv, ReaderTypeOK, ReadTail
<1> DEFINE n == reading[r]
           h == consumed[r] \div 2
<1>1. /\ BadLines(TailBytes(r)) = {} /\ Reply(r, op, rows'[r])
      /\ FirstRows(rows'[r], n \div 2, index) /\ h <= n \div 2 /\ Agree(rows'[r], rows[r], h)
      /\ partial'[r] = After(index, 2 * (n \div 2), n)
  <2>1. consumed[r] \div 2 \in Nat
    BY <1>0
  <2> QED BY <1>0, <2>1, ReadDoes
<1>2. rows'[r] \in Seq(Digest) /\ Len(rows'[r]) = n \div 2
  BY <1>1 DEF FirstRows
<1>3. /\ listed' = listed \/ listed' = [listed EXCEPT ![r] = rows'[r]]
      /\ loaded' \in [Reader -> SUBSET Digest]
  BY <1>0, <1>1, <1>2, ReplyDoes
<1>4. /\ UNCHANGED <<ledgerVars, modified>> /\ n <= Len(index)
      /\ reading' = [reading EXCEPT ![r] = Quiet] /\ consumed' = [consumed EXCEPT ![r] = n]
  BY <1>0 DEF ReadTail, Watermark, Follows
<1>5. /\ \E p : partial' = [partial EXCEPT ![r] = p]
      /\ \E l : rows' = [rows EXCEPT ![r] = l]
  BY DEF ReadTail
<1>6. LedgerInv' /\ Lined'
  BY <1>4, StepInv DEF ReaderInv, Lined, Ruled, ledgerVars
<1>7. partial'[r] \in Seq(Digest \cup {NL})
  <2>1. index \in Seq(Digest \cup {NL}) /\ 2 * (n \div 2) \in Nat /\ 2 * (n \div 2) <= n
    BY <1>0 DEF ReaderInv, Lined, Ruled
  <2> DEFINE e == 2 * (n \div 2)
  <2>2. e \in Nat /\ e <= n
    BY <2>1
  <2> HIDE DEF e, n
  <2>3. n \in Nat
    BY <1>0 DEF n
  <2>4. After(index, e, n) \in Seq(Digest \cup {NL})
    BY <2>1, <2>2, <2>3, <1>4, PartOf
  <2> QED BY <2>4, <1>1 DEF e
<1>8. ReaderTypeOK'
  BY <1>0, <1>2, <1>3, <1>4, <1>5, <1>7 DEF ReaderTypeOK
<1>9. ASSUME NEW q \in Reader, q # r PROVE Follows(q)'
  <2>1. UNCHANGED <<index, rows[q], consumed[q], partial[q], listed[q], reading[q]>>
    BY <1>0, <1>3, <1>4, <1>5, <1>9 DEF ReaderTypeOK, ledgerVars
  <2> QED BY <2>1, FollowsSame
<1>10. Follows(r)'
  <2>1. index' = index /\ consumed'[r] = n /\ reading'[r] = Quiet
    BY <1>0, <1>4 DEF ReaderTypeOK, ledgerVars
  <2>2. listed'[r] = listed[r] \/ listed'[r] = rows'[r]
    BY <1>0, <1>3 DEF ReaderTypeOK
  <2>3. /\ listed[r] \in Seq(Digest) /\ Len(listed[r]) <= h /\ h \in Nat /\ Agree(listed[r], rows[r], Len(listed[r]))
    BY <1>0 DEF Follows, ReaderTypeOK, FirstRows
  <2>4. Len(listed[r]) \in Nat /\ Agree(listed[r], rows'[r], Len(listed[r]))
    BY <2>3, <1>1 DEF Agree
  <2>5. Agree(rows'[r], rows'[r], Len(rows'[r]))
    BY DEF Agree
  <2>6. Len(listed'[r]) <= Len(rows'[r]) /\ Agree(listed'[r], rows'[r], Len(listed'[r]))
    BY <1>1, <1>2, <2>2, <2>3, <2>4, <2>5
  <2> QED BY <1>0, <1>1, <1>4, <2>1, <2>6 DEF Follows
<1>11. Len(listed[r]) <= Len(rows'[r])
  <2>1. Len(listed[r]) <= h /\ listed[r] \in Seq(Digest) /\ h \in Nat
    BY <1>0 DEF Follows, FirstRows, ReaderTypeOK
  <2> QED BY <2>1, <1>1, <1>2
<1> QED BY <1>3, <1>6, <1>8, <1>9, <1>10, <1>11 DEF ReaderInv

\* a step of a writer beside it,
LEMMA WriterStep ==
  ASSUME ReaderInv, TornWrite = FALSE, [LedgerNext]_ledgerVars, UNCHANGED readerVars
  PROVE  ReaderInv'
<1>1. LedgerInv' /\ Lined' /\ ReaderTypeOK'
  BY StepInv, LinedStep DEF ReaderInv, ReaderTypeOK, readerVars
<1>2. /\ index' \in Seq(Digest \cup {NL}) /\ Len(index) <= Len(index')
      /\ \A i \in 1 .. Len(index) : index'[i] = index[i]
  <2>1. CASE index' = index
    BY <2>1 DEF ReaderInv, Lined, Ruled
  <2>2. ASSUME NEW b, index' = Append(index, b), IF Len(index) % 2 = 1 THEN b = NL ELSE b \in Digest
        PROVE  /\ index' \in Seq(Digest \cup {NL}) /\ Len(index) <= Len(index')
               /\ \A i \in 1 .. Len(index) : index'[i] = index[i]
    <3>1. Ruled(index)
      BY DEF ReaderInv, Lined
    <3> QED BY <2>2, <3>1, RuledAppend DEF Ruled
  <2> QED BY <2>1, <2>2, LinedStep DEF ReaderInv
<1>3. ASSUME NEW r \in Reader PROVE Follows(r)'
  BY <1>2, FollowsOn DEF readerVars
<1> QED BY <1>1, <1>3 DEF ReaderInv

\* and the start, where there is nothing to read.
LEMMA ReaderInitInv == Init => ReaderInv
<1> SUFFICES ASSUME Init PROVE ReaderInv
  OBVIOUS
<1>1. LedgerInv /\ index = <<>> /\ pc = [w \in Writer |-> "idle"]
  BY InitInv DEF Init, LedgerInit
<1>2. Lined
  BY <1>1 DEF Lined, Ruled
<1>3. ReaderTypeOK
  BY DEF Init, ReaderInit, ReaderTypeOK
<1>4. ASSUME NEW r \in Reader PROVE Follows(r)
  <2>1. rows[r] = <<>> /\ consumed[r] = 0 /\ partial[r] = <<>> /\ reading[r] = Quiet /\ listed[r] = <<>> /\ Len(index) = 0
    BY <1>1 DEF Init, ReaderInit
  <2>2. After(index, 0, 0) = <<>>
    BY <1>1 DEF After
  <2>3. FirstRows(rows[r], 0, index)
    BY <2>1 DEF FirstRows
  <2>4. Agree(listed[r], rows[r], 0)
    BY DEF Agree
  <2> QED BY <2>1, <2>2, <2>3, <2>4 DEF Follows
<1> QED BY <1>1, <1>2, <1>3, <1>4 DEF ReaderInv

-----------------------------------------------------------------------------
(* The ledger is the log its callers are promised. *)

\* The rows of a longer index go on from those of the shorter one.
LEMMA RowsGrow ==
  ASSUME Ruled(index), NEW b, IF Len(index) % 2 = 1 THEN b = NL ELSE b \in Digest, index' = Append(index, b)
  PROVE  IF Len(index) % 2 = 1
         THEN index[Len(index)] \in Digest /\ RowsIn(index') = Append(RowsIn(index), index[Len(index)])
         ELSE RowsIn(index') = RowsIn(index)
<1>1. /\ Len(index') = Len(index) + 1 /\ Len(index) \in Nat
      /\ \A i \in 1 .. Len(index) : index'[i] = index[i]
  BY RuledAppend
<1> DEFINE m == Len(index) \div 2
<1>2. m \in Nat /\ 2 * m <= Len(index)
  BY <1>1
<1>3. CASE Len(index) % 2 = 1
  <2>1. Len(index) = 2 * m + 1 /\ Len(index') \div 2 = m + 1
    BY <1>1, <1>3
  <2>2. index[Len(index)] \in Digest
    BY <1>1, <1>3, <2>1, <1>2 DEF Ruled
  <2>3. RowsIn(index) = [k \in 1 .. m |-> index[2 * k - 1]]
    BY DEF RowsIn
  <2>4. RowsIn(index') = [k \in 1 .. m + 1 |-> index'[2 * k - 1]]
    BY <2>1 DEF RowsIn
  <2> HIDE DEF m
  <2> DEFINE s == [k \in 1 .. m |-> index[2 * k - 1]]
             t == [k \in 1 .. m + 1 |-> index'[2 * k - 1]]
             x == index[Len(index)]
  <2>5. \A k \in 1 .. m : 2 * k - 1 \in 1 .. Len(index)
    BY <1>2, <1>1
  <2>6. \A k \in 1 .. m : t[k] = s[k]
    BY <2>5, <1>1, <1>2
  <2>7. t[m + 1] = x
    <3>1. 2 * (m + 1) - 1 = Len(index) /\ Len(index) \in 1 .. Len(index) /\ m + 1 \in 1 .. m + 1
      BY <2>1, <1>2
    <3> QED BY <3>1, <1>1
  <2>8. \A k \in 1 .. m : index[2 * k - 1] \in Digest
    <3>1. \A k \in 1 .. m : (2 * k - 1) % 2 # 0
      BY <1>2
    <3> QED BY <2>5, <3>1 DEF Ruled
  <2>9. s \in Seq(Digest) /\ Len(s) = m
    BY <2>8, <1>2
  <2>10. t \in Seq(Digest) /\ Len(t) = m + 1
    <3>1. \A k \in 1 .. m + 1 : 2 * k - 1 \in 1 .. Len(index') /\ (2 * k - 1) % 2 # 0
      BY <1>1, <1>2, <2>1
    <3>2. \A k \in 1 .. m + 1 : index'[2 * k - 1] \in Digest
      BY <3>1, RuledAppend DEF Ruled
    <3>3. m + 1 \in Nat
      BY <1>2
    <3> QED BY ONLY <3>2, <3>3
  <2> HIDE DEF s, t
  <2>11. t = Append(s, x)
    <3>1. x \in Digest
      BY <2>2
    <3> HIDE DEF x
    <3>2. /\ Append(s, x) \in Seq(Digest) /\ Len(Append(s, x)) = m + 1 /\ Append(s, x)[m + 1] = x
          /\ \A k \in 1 .. m : Append(s, x)[k] = s[k]
      BY <3>1, <2>9
    <3>3. \A k \in 1 .. m + 1 : t[k] = Append(s, x)[k]
      BY <2>6, <2>7, <3>2, <1>2 DEF x
    <3> QED BY <2>10, <3>2, <3>3, SeqEqual
  <2> QED BY <1>3, <2>2, <2>3, <2>4, <2>11 DEF s, t, x
<1>4. CASE Len(index) % 2 # 1
  <2>1. Len(index') \div 2 = m
    BY <1>1, <1>4
  <2>2. \A k \in 1 .. m : 2 * k - 1 \in 1 .. Len(index)
    BY <1>2, <1>1
  <2> QED BY <1>1, <1>4, <2>1, <2>2 DEF RowsIn
<1> QED BY <1>3, <1>4

\* The first rows are a part of the rows.
LEMMA FirstRowsAre ==
  ASSUME Ruled(index), NEW h \in Nat, 2 * h <= Len(index), NEW list, FirstRows(list, h, index)
  PROVE  list = SubSeq(RowsIn(index), 1, h) /\ h <= Len(RowsIn(index))
<1>1. Len(index) \in Nat
  BY DEF Ruled
<1> DEFINE m == Len(index) \div 2
           s == [k \in 1 .. m |-> index[2 * k - 1]]
<1>2. m \in Nat /\ h <= m
  BY <1>1
<1>3. RowsIn(index) = s
  BY DEF RowsIn
<1> HIDE DEF m
<1>4. Len(s) = m /\ \A k \in 1 .. m : s[k] = index[2 * k - 1]
  BY <1>2
<1> HIDE DEF s
<1>5. SubSeq(s, 1, h) = [k \in 1 .. h |-> s[k]]
  BY <1>2, <1>4
<1>6. list = [k \in 1 .. h |-> list[k]] /\ \A k \in 1 .. h : list[k] = s[k]
  BY <1>2, <1>4 DEF FirstRows
<1> QED BY <1>2, <1>3, <1>4, <1>5, <1>6

\* No row is there already when its line ends.
LEMMA NewRow ==
  ASSUME Ruled(index), NoDuplicateRow, Len(index) % 2 = 1, index[Len(index)] \in Digest
  PROVE  ~ Contains(RowsIn(index), index[Len(index)])
<1>1. Len(index) \in Nat /\ DOMAIN index = 1 .. Len(index) /\ index[Len(index)] # NL
  BY LedgerAssumption DEF Ruled
<1>2. Len(RowsIn(index)) = Len(index) \div 2 /\ Len(index) \div 2 \in Nat
  BY <1>1 DEF RowsIn
<1>3. SUFFICES ASSUME NEW k \in 1 .. Len(index) \div 2, index[2 * k - 1] = index[Len(index)]
               PROVE  FALSE
  BY <1>2 DEF Contains, RowsIn
<1>4. 2 * k - 1 \in 1 .. Len(index) /\ 2 * k - 1 # Len(index) /\ Len(index) \in 1 .. Len(index)
  BY <1>1
<1> QED BY <1>1, <1>3, <1>4 DEF NoDuplicateRow

\* A reader that lists its rows tells a prefix of the log.
LEMMA ObserveStep ==
  ASSUME ReaderInv, ReaderInv', index' = index, NEW r \in Reader, Len(listed[r]) <= Len(rows'[r]),
         listed' = listed \/ listed' = [listed EXCEPT ![r] = rows'[r]]
  PROVE  [Log!Next]_<<EveryWholeRow[index], listed>>
<1>1. CASE listed' = listed
  BY <1>1
<1>2. CASE listed' = [listed EXCEPT ![r] = rows'[r]]
  <2> DEFINE c == consumed'[r]
             h == c \div 2
             list == rows'[r]
             log == EveryWholeRow[index]
  <2>1. Ruled(index) /\ log = RowsIn(index)
    BY WholeRows DEF ReaderInv, Lined
  <2>2. c \in Nat /\ c <= Len(index) /\ FirstRows(list, h, index)
    BY DEF ReaderInv, ReaderTypeOK, Follows
  <2>3. h \in Nat /\ 2 * h <= Len(index)
    BY <2>1, <2>2 DEF Ruled
  <2>4. Len(listed[r]) \in Nat /\ Len(list) = h
    BY <2>2 DEF ReaderInv, ReaderTypeOK, FirstRows
  <2> HIDE DEF c, h, list, log
  <2>5. list = SubSeq(RowsIn(index), 1, h) /\ h <= Len(RowsIn(index))
    BY <2>1, <2>2, <2>3, FirstRowsAre
  <2>6. Len(RowsIn(index)) \in Nat
    BY <2>1 DEF RowsIn, Ruled
  <2>7. h \in Len(listed[r]) .. Len(log) /\ listed' = [listed EXCEPT ![r] = SubSeq(log, 1, h)]
    BY <1>2, <2>1, <2>3, <2>4, <2>5, <2>6 DEF list
  <2>8. log' = log
    BY DEF log
  <2>9. Log!Observe(r)
    BY <2>7, <2>8 DEF Log!Observe, log
  <2> QED BY <2>9 DEF Log!Next
<1> QED BY <1>1, <1>2

\* A writer that ends a line publishes its row; nothing else a writer does shows.
LEMMA PublishStep ==
  ASSUME ReaderInv, ReaderInv', TornWrite = FALSE, [LedgerNext]_ledgerVars, listed' = listed
  PROVE  [Log!Next]_<<EveryWholeRow[index], listed>>
<1> DEFINE log == EveryWholeRow[index]
<1>1. Ruled(index) /\ log = RowsIn(index) /\ log' = RowsIn(index') /\ NoDuplicateRow /\ LedgerInv /\ Lined
  BY WholeRows DEF ReaderInv, Lined, LedgerInv
<1>2. CASE index' = index
  BY <1>2
<1>3. ASSUME NEW b, index' = Append(index, b), IF Len(index) % 2 = 1 THEN b = NL ELSE b \in Digest
      PROVE  [Log!Next]_<<log, listed>>
  <2>1. CASE Len(index) % 2 = 1
    <3> DEFINE s == index[Len(index)]
    <3>1. s \in Digest /\ RowsIn(index') = Append(RowsIn(index), s)
      BY <1>1, <1>3, <2>1, RowsGrow
    <3>2. ~ Contains(RowsIn(index), s)
      BY <1>1, <2>1, <3>1, NewRow
    <3> HIDE DEF s
    <3>3. ~ Contains(log, s) /\ log' = Append(log, s)
      BY <1>1, <3>1, <3>2
    <3> HIDE DEF log
    <3>4. Log!Publish(s)
      BY <3>3 DEF Log!Publish, Log!Contains, Contains, log
    <3> QED BY <3>1, <3>4 DEF Log!Next
  <2>2. CASE Len(index) % 2 # 1
    <3>1. RowsIn(index') = RowsIn(index)
      BY <1>1, <1>3, <2>2, RowsGrow
    <3> QED BY <1>1, <3>1
  <2> QED BY <2>1, <2>2
<1> QED BY <1>1, <1>2, <1>3, LinedStep

\* One step of the ledger and its readers.
LEMMA ReaderNext ==
  ASSUME ReaderInv, TornWrite = FALSE, [Next]_vars
  PROVE  ReaderInv' /\ [Log!Next]_<<EveryWholeRow[index], listed>>
<1>1. ASSUME [LedgerNext]_ledgerVars, UNCHANGED readerVars
      PROVE  ReaderInv' /\ [Log!Next]_<<EveryWholeRow[index], listed>>
  <2>1. ReaderInv' /\ listed' = listed
    BY <1>1, WriterStep DEF readerVars
  <2> QED BY <1>1, <2>1, PublishStep
<1>2. CASE UNCHANGED vars
  BY <1>1, <1>2 DEF vars, ledgerVars, readerVars
<1>3. ASSUME NEW r \in Reader, Stat(r)
      PROVE  ReaderInv' /\ [Log!Next]_<<EveryWholeRow[index], listed>>
  <2>1. ReaderInv' /\ listed' = listed /\ index' = index
    BY <1>3, StatStep DEF Stat, ledgerVars
  <2> QED BY <2>1
<1>4. ASSUME NEW r \in Reader, NEW op, AnswerUnchanged(r, op) \/ ReadTail(r, op)
      PROVE  ReaderInv' /\ [Log!Next]_<<EveryWholeRow[index], listed>>
  <2>1. /\ ReaderInv' /\ Len(listed[r]) <= Len(rows'[r]) /\ index' = index
        /\ listed' = listed \/ listed' = [listed EXCEPT ![r] = rows'[r]]
    <3>1. index' = index
      BY <1>4 DEF AnswerUnchanged, ReadTail, ledgerVars
    <3> QED BY <1>4, <3>1, AnswerStep, ReadStep
  <2> QED BY <2>1, ObserveStep
<1>5. ASSUME NEW d \in Digest, Modify(d)
      PROVE  ReaderInv' /\ [Log!Next]_<<EveryWholeRow[index], listed>>
  <2>1. ReaderInv' /\ listed' = listed /\ index' = index
    BY <1>5, ModifyStep DEF Modify, ledgerVars
  <2> QED BY <2>1
<1> QED BY <1>1, <1>2, <1>3, <1>4, <1>5 DEF Next, Answer

\* An empty ledger is an empty log.
LEMMA EmptyLog == Init => Log!Init
<1> SUFFICES ASSUME Init PROVE Log!Init
  OBVIOUS
<1>1. index = <<>> /\ listed = [r \in Reader |-> <<>>]
  BY DEF Init, LedgerInit, ReaderInit
<1>2. Ruled(index)
  BY <1>1 DEF Ruled
<1>3. RowsIn(index) = <<>>
  BY <1>1 DEF RowsIn
<1> QED BY <1>1, <1>2, <1>3, WholeRows DEF Log!Init

\* Where a row is appended whole or not at all, the append side keeps its invariant
\* beside readers, and every reader holds the rows of what it has consumed
\* (packages/ledger/src/local.ts readIndex).
THEOREM ReadersFollow == TornWrite = FALSE => (Spec => [](LedgerInv /\ \A r \in Reader : Follows(r)))
<1> SUFFICES ASSUME TornWrite = FALSE PROVE Spec => [](LedgerInv /\ \A r \in Reader : Follows(r))
  OBVIOUS
<1>1. Init => ReaderInv
  BY ReaderInitInv
<1>2. ReaderInv /\ [Next]_vars => ReaderInv'
  BY ReaderNext
<1>3. ReaderInv => LedgerInv /\ \A r \in Reader : Follows(r)
  BY DEF ReaderInv
<1> QED BY <1>1, <1>2, <1>3, PTL DEF Spec

\* The same ledger implements the log its port promises (core/src/ports.ts): one
\* history, published once, of which every reader sees a prefix that only grows.
THEOREM LedgerIsTheLog == TornWrite = FALSE => (Spec => LogSpec)
<1> SUFFICES ASSUME TornWrite = FALSE PROVE Spec => LogSpec
  OBVIOUS
<1>1. Init => ReaderInv /\ Log!Init
  BY ReaderInitInv, EmptyLog
<1>2. ReaderInv /\ [Next]_vars
        => ReaderInv' /\ [Log!Next]_<<EveryWholeRow[index], listed>>
  BY ReaderNext
<1> QED BY <1>1, <1>2, PTL DEF Spec, LogSpec, Log!Spec

-----------------------------------------------------------------------------
(* What `rampscan verify` says it says for good. *)

\* What verify finds the index lists.
LEMMA VerifyFinds ==
  ASSUME Ruled(index), IndexSound, NEW d \in Digest, Contains(RowsOf(index), d)
  PROVE  /\ d \in Listed /\ object[d] = "whole"
         /\ \E k \in 1 .. Len(index) \div 2 : index[2 * k - 1] = d
<1>0. Len(index) \in Nat /\ DOMAIN index = 1 .. Len(index)
  BY DEF Ruled
<1>1. Contains(RowsIn(index), d)
  BY RowsRead
<1>2. \E k \in 1 .. Len(index) \div 2 : index[2 * k - 1] = d
  BY <1>0, <1>1 DEF Contains, RowsIn
<1>3. \A k \in 1 .. Len(index) \div 2 : 2 * k - 1 \in 1 .. Len(index)
  BY <1>0
<1>4. d \in Listed
  BY <1>0, <1>2, <1>3 DEF Listed
<1> QED BY <1>2, <1>4 DEF IndexSound

\* What ruled bytes list verify finds in them.
LEMMA FoundByVerify ==
  ASSUME NEW bytes, Ruled(bytes), NEW d, NEW k \in 1 .. Len(bytes) \div 2, bytes[2 * k - 1] = d
  PROVE  BadLines(bytes) = {} /\ Contains(RowsOf(bytes), d)
<1>0. Len(bytes) \in Nat
  BY DEF Ruled
<1>1. Len(RowsIn(bytes)) = Len(bytes) \div 2 /\ RowsIn(bytes)[k] = d
  BY <1>0 DEF RowsIn
<1> QED BY <1>1, RuledLines, RowsRead DEF Contains

\* A statement that a reader listed is one verify finds.
LEMMA ListedIsFound ==
  ASSUME ReaderInv, NEW r \in Reader, NEW d \in Digest, Contains(listed[r], d)
  PROVE  Verify(d) # "no entry"
<1>1. PICK k \in 1 .. Len(listed[r]) : listed[r][k] = d
  BY DEF Contains
<1>2. /\ Ruled(index) /\ Len(index) \in Nat /\ consumed[r] \in Nat /\ consumed[r] <= Len(index)
      /\ FirstRows(rows[r], consumed[r] \div 2, index) /\ listed[r] \in Seq(Digest)
      /\ Len(listed[r]) <= Len(rows[r]) /\ Agree(listed[r], rows[r], Len(listed[r]))
  BY DEF ReaderInv, Lined, Ruled, ReaderTypeOK, Follows
<1>3. rows[r][k] = d /\ k \in 1 .. consumed[r] \div 2 /\ k \in 1 .. Len(index) \div 2
  <2>1. Len(rows[r]) = consumed[r] \div 2 /\ Len(listed[r]) \in Nat
    BY <1>2 DEF FirstRows
  <2>2. k \in 1 .. consumed[r] \div 2
    BY <1>2, <2>1
  <2>3. consumed[r] \div 2 <= Len(index) \div 2 /\ consumed[r] \div 2 \in Nat /\ Len(index) \div 2 \in Nat
    BY <1>2
  <2>4. k \in 1 .. Len(index) \div 2
    BY <2>2, <2>3
  <2>5. rows[r][k] = d
    BY <1>1, <1>2 DEF Agree
  <2> QED BY <2>2, <2>4, <2>5
<1>4. index[2 * k - 1] = d
  BY <1>2, <1>3 DEF FirstRows
<1>5. BadLines(index) = {} /\ Contains(RowsOf(index), d)
  BY <1>2, <1>3, <1>4, FoundByVerify
<1> QED BY <1>5 DEF Verify

\* No step makes an instance list what is modified and it has not verified.
LEMMA ServedOnlyVerified ==
  ASSUME ReaderTypeOK, [Next]_vars, NEW r \in Reader, NEW d \in modified \ loaded[r], Contains(listed'[r], d)
  PROVE  Contains(listed[r], d)
<1>1. ASSUME NEW q \in Reader, NEW op, NEW list, Reply(q, op, list)
      PROVE  listed'[r] = listed[r] \/ ~ Contains(listed'[r], d)
  <2>1. CASE op = "list" /\ Load(q, list)
    <3>1. CASE FirstModified(q, list) = {}
      <4>1. listed' = [listed EXCEPT ![q] = list]
        BY <2>1, <3>1 DEF Load
      <4>2. CASE q = r
        <5>1. listed'[r] = list
          BY <4>1, <4>2 DEF ReaderTypeOK
        <5>2. \A i \in DOMAIN list : list[i] # d
          BY <3>1, <4>2 DEF FirstModified, Unverified
        <5> QED BY <5>1, <5>2 DEF Contains
      <4>3. CASE q # r
        BY <4>1, <4>3 DEF ReaderTypeOK
      <4> QED BY <4>2, <4>3
    <3>2. CASE FirstModified(q, list) # {}
      BY <2>1, <3>2 DEF Load
    <3> QED BY <3>1, <3>2
  <2>2. CASE op = "get" /\ UNCHANGED <<loaded, listed>>
    BY <2>2
  <2> QED BY <1>1, <2>1, <2>2 DEF Reply
<1>2. CASE LedgerNext /\ UNCHANGED readerVars
  BY <1>2 DEF readerVars
<1>3. CASE \E q \in Reader : Stat(q)
  BY <1>3 DEF Stat
<1>4. CASE \E q \in Reader : Answer(q)
  <2>1. PICK q \in Reader, op \in {"list", "get"} : AnswerUnchanged(q, op) \/ ReadTail(q, op)
    BY <1>4 DEF Answer
  <2>2. (\E list : Reply(q, op, list)) \/ listed' = listed
    BY <2>1 DEF AnswerUnchanged, ReadTail
  <2> QED BY <1>1, <2>2
<1>5. CASE \E q \in Digest : Modify(q)
  BY <1>5 DEF Modify
<1>6. CASE UNCHANGED vars
  BY <1>6 DEF vars
<1> QED BY <1>2, <1>3, <1>4, <1>5, <1>6 DEF Next

\* What verify goes by stays as it is for a statement it finds, but for the bytes
\* of its object.
LEMMA FoundKept ==
  ASSUME ReaderInv, ReaderInv', [Next]_vars, NEW d \in Digest, Contains(RowsOf(index), d)
  PROVE  /\ Contains(RowsOf(index'), d) /\ object[d] = "whole" /\ object'[d] = "whole"
         /\ modified \subseteq modified' /\ (d \in envelope' <=> d \in envelope)
<1>1. /\ Ruled(index) /\ Ruled(index') /\ IndexSound /\ OwnerProgress /\ LedgerInv /\ Lined
      /\ Len(index) \in Nat /\ Len(index') \in Nat
  BY DEF ReaderInv, Lined, LedgerInv, Ruled
<1>3. d \in Listed /\ object[d] = "whole" /\ \E k \in 1 .. Len(index) \div 2 : index[2 * k - 1] = d
  BY <1>1, VerifyFinds
<1>4. [LedgerNext]_ledgerVars /\ modified \subseteq modified'
  BY DEF Next, Stat, Answer, AnswerUnchanged, ReadTail, Modify, readerVars, vars, ledgerVars
<1>5. /\ Len(index) <= Len(index') /\ \A i \in 1 .. Len(index) : index'[i] = index[i]
      /\ object'[d] = "whole"
  <2>1. CASE UNCHANGED ledgerVars
    BY <2>1, <1>1, <1>3 DEF ledgerVars
  <2>2. CASE Kept
    <3>1. DOMAIN index = 1 .. Len(index)
      BY <1>1 DEF Ruled
    <3> QED BY <2>2, <3>1, <1>1, <1>3 DEF Kept
  <2> QED BY <2>1, <2>2, <1>1, <1>4, StepKept
<1>6. Contains(RowsOf(index'), d)
  <2>1. PICK k \in 1 .. Len(index) \div 2 : index[2 * k - 1] = d
    BY <1>3
  <2>2. k \in 1 .. Len(index') \div 2 /\ 2 * k - 1 \in 1 .. Len(index)
    BY <1>1, <1>5
  <2>3. index'[2 * k - 1] = d
    BY <2>1, <2>2, <1>5
  <2> QED BY <1>1, <2>2, <2>3, FoundByVerify
<1>7. d \in envelope' <=> d \in envelope
  BY <1>1, <1>3, <1>4, EnvelopeKept
<1> QED BY <1>3, <1>4, <1>5, <1>6, <1>7

\* So what it says of a statement only a modified object changes.
LEMMA VerdictKept ==
  ASSUME ReaderInv, ReaderInv', [Next]_vars, NEW d \in Digest
  PROVE  Verify(d) # "no entry" => Verify(d)' = IF d \in modified' THEN "throws" ELSE Verify(d)
<1>1. BadLines(index) = {} /\ BadLines(index') = {}
  <2>1. Ruled(index) /\ Ruled(index')
    BY DEF ReaderInv, Lined
  <2> QED BY <2>1, RuledLines
<1>2. CASE Contains(RowsOf(index), d)
  <2>1. /\ Contains(RowsOf(index'), d) /\ object[d] = "whole" /\ object'[d] = "whole"
        /\ modified \subseteq modified' /\ (d \in envelope' <=> d \in envelope)
    BY <1>2, FoundKept
  <2>2. VerifyEnvelope(d)' = VerifyEnvelope(d) /\ DerivationOk(d)' = DerivationOk(d)
    BY <2>1 DEF VerifyEnvelope, SignatureOk, PayloadMatches, DerivationOk
  <2> QED BY <1>1, <1>2, <2>1, <2>2 DEF Verify
<1>3. CASE ~ Contains(RowsOf(index), d)
  BY <1>1, <1>3 DEF Verify
<1> QED BY <1>2, <1>3

\* Bytes that do not hash to their name are not listed but by an instance that
\* verified them before, and what `rampscan verify` says of a statement it says
\* for good (ledger/src/local.ts readEntry, cli/src/verify.ts).
THEOREM ModifiedIsNeverServed == TornWrite = FALSE => (Spec => ModifiedNeverServed)
<1> SUFFICES ASSUME TornWrite = FALSE PROVE Spec => ModifiedNeverServed
  OBVIOUS
<1> DEFINE Served ==
      /\ \A r \in Reader, d \in Digest :
           /\ d \in modified \ loaded[r] /\ Contains(listed'[r], d) => Contains(listed[r], d)
           /\ Contains(listed[r], d) => Verify(d) # "no entry"
      /\ \A d \in Digest :
           Verify(d) # "no entry" => Verify(d)' = IF d \in modified' THEN "throws" ELSE Verify(d)
<1>1. Init => ReaderInv
  BY ReaderInitInv
<1>2. ReaderInv /\ [Next]_vars => ReaderInv'
  BY ReaderNext
<1>3. ReaderInv /\ ReaderInv' /\ [Next]_vars => Served
  <2> SUFFICES ASSUME ReaderInv, ReaderInv', [Next]_vars PROVE Served
    OBVIOUS
  <2>1. ASSUME NEW r \in Reader, NEW d \in Digest
        PROVE  d \in modified \ loaded[r] /\ Contains(listed'[r], d) => Contains(listed[r], d)
    BY ServedOnlyVerified DEF ReaderInv
  <2>2. ASSUME NEW r \in Reader, NEW d \in Digest
        PROVE  Contains(listed[r], d) => Verify(d) # "no entry"
    BY ListedIsFound
  <2>3. ASSUME NEW d \in Digest
        PROVE  Verify(d) # "no entry" => Verify(d)' = IF d \in modified' THEN "throws" ELSE Verify(d)
    BY VerdictKept
  <2> QED BY <2>1, <2>2, <2>3
<1> QED BY <1>1, <1>2, <1>3, PTL DEF Spec, ModifiedNeverServed
=============================================================================
