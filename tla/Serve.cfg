SPECIFICATION FairServeSpec
CONSTANTS
  Run = {r1, r2}
  MaxAppends = 3
  MaxStarts = 2
  MaxFailures = 1
CHECK_DEADLOCK FALSE
INVARIANTS
  NeverMixed
  RestIsCurrent
PROPERTY NoticedIsShown
