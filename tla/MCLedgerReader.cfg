SPECIFICATION MCSpec
CONSTANTS
  Digest = {d1, d2}
  Writer = {w1, w2}
  Reader = {r1}
  Flaw <- MCFlaw
  NL = NL
  None = None
  TornWrite = FALSE
INVARIANTS
  LedgerInv
PROPERTIES
  AckedEventuallyListed
  ModifiedNeverServed
  LogSpec
