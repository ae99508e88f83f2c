SPECIFICATION ConsoleSpec
CONSTANTS
  Proposal = {scopeOut, judge}
  Judgment = {judge}
  Approver = {alice, bob}
  Call = {c1, c2}
  Scan = {s1, s2}
  Body = {b1, b2}
  NoBody = NoBody
  MaxTime = 1
  MaxCalls = 3
  TailLimit = 2
  MaxWrites = 4
  MaxRemovals = 1
  MaxRefusals = 1
  Nothing = Nothing
  Torn = Torn
SYMMETRY Symmetry
CHECK_DEADLOCK FALSE
INVARIANTS
  LedgerMeansApproved
  OneEventPerProposal
  RegisterSaysOneThing
  JudgedBodyIsLive
  MirrorIsTheFile
