--------------------------- MODULE MCLedgerReader ---------------------------
(***************************************************************************)
(* TLC instances of the ledger with its readers.  Appends in flight go on  *)
(* by themselves; nobody has to start one, and nothing has to read.        *)
(***************************************************************************)
EXTENDS LedgerReader

MCFlaw == [d \in Digest |-> IF d = CHOOSE x \in Digest : TRUE THEN "none" ELSE "method"]
MCSpec == Spec /\ LedgerFairness
=============================================================================
