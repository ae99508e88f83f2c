SPECIFICATION Spec
CONSTANTS
  a = a
  b = b
  c = c
  Anchors <- MCAnchors
  Content = {0, 1}
  Window = 1
  MaxTime = 3
  MaxStatements = 3
SYMMETRY Symmetry
INVARIANTS
  DeathIsDeserved
  MovementsAreTold
  FailuresAreTimed
  StoresKeepTheFold
CHECK_DEADLOCK FALSE
