---------------------------- MODULE StatementLog ----------------------------
(***************************************************************************)
(* What the LedgerStore port (packages/core/src/ports.ts) promises its     *)
(* callers: one append-only history without repetitions, and readers that  *)
(* see longer and longer prefixes of it.                                   *)
(***************************************************************************)
EXTENDS Sequences, SequencesExt, Integers

CONSTANTS Statement, Observer

VARIABLES
  log,   \* the published statements, in order
  view   \* per observer: what it was last told

Init == log = <<>> /\ view = [o \in Observer |-> <<>>]

Publish(s) ==
  /\ ~ Contains(log, s)
  /\ log' = Append(log, s)
  /\ UNCHANGED view

\* An observer is told a prefix of the history at least as long as before.
Observe(o) ==
  /\ \E n \in Len(view[o]) .. Len(log) : view' = [view EXCEPT ![o] = SubSeq(log, 1, n)]
  /\ UNCHANGED log

Next == (\E s \in Statement : Publish(s)) \/ (\E o \in Observer : Observe(o))

Spec == Init /\ [][Next]_<<log, view>>

=============================================================================
