SPECIFICATION IntakeSpec
CONSTANTS
  Anchors <- MCAnchors
  Window = 1
  Catalog = {"k1", "k2", "k3"}
  Mapped <- MCMapped
  Crosswalk <- MCCrosswalk
  Document <- MCDocument
  Ingest = {i1, i2}
  MaxHandoffs = 3
  None = None
SYMMETRY Symmetry
INVARIANTS
  HandoffLandsWhole
  VerdictIsEarned
  NothingIsDropped
CHECK_DEADLOCK FALSE
