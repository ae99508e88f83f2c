SPECIFICATION MCSpec
CONSTANTS
  Scanner = {s1, s2}
  Refreshing = {s1}
  Recorder = {h}
  Process <- MCProcess
  NoKey = NoKey
  Recipes <- MCRecipes
  Finding = {"pass"}
  Slot = {k1}
  Body = {a, b}
  RefreshAfter = 2
  MaxStarts = 3
  MaxBeside = 2
  MaxEvents = 3
SYMMETRY Symmetry
INVARIANTS
  EveryStatementVerifies
  RunIsBacked
  TwinsOverlapped
CHECK_DEADLOCK FALSE
