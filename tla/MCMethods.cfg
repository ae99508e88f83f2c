SPECIFICATION ArtifactsSpec
CONSTANTS
  Anchors <- MCAnchors
  Window = 31
  Lengths <- MCLengths
  KSIs = {"k1", "k2"}
  KsisOf <- MCKsisOf
  Optional = {"k2"}
  IdOrder <- MCIdOrder
  Windows <- MCWindows
  MethodFloor = 2
  HistoryMonths = 2
  Scans <- MCScans
  Reports <- MCReports
  Claims = {"c"}
  Authored <- MCAuthored
  Bodies = {"b1", "b2"}
  Pasts <- MCPasts
  Days <- MCDays
  MaxStatements = 13
  RunCap = 2
INVARIANTS
  HistoryMeansKnown
  RegistersAgree
  PublishedIsEarned
  BodiesHold
CHECK_DEADLOCK FALSE
