SPECIFICATION FairSpec
CONSTANTS
  Recipes <- MCRecipes
  Content = {1, 2}
  Passes <- MCPasses
  Window = 8
  ScanAt = 5
  WarnAt = 6
  Interval = 1
  MaxScan = 1
  FullEvery = 2
  MaxEvents = 3
INVARIANTS
  FreshWhileWell
  SilenceIsEarned
PROPERTIES
  WarnedBeforeReplaced
  ClockSettles
