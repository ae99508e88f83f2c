SPECIFICATION FairSpec
CONSTANTS
  Nonce = {n1}
  Sidecar = {r1}
  Once = Once
  Handler = {h1}
  TTL = 1
  MaxTime = 3
  MaxPosts = 2
  MaxStops = 1
  Skew = 1
  Answers <- EveryAnswer
  Deliveries = {"whole", "changed"}
  Skips = {TRUE, FALSE}
  Emulator = FALSE
INVARIANT AcceptedNamesEvidence
PROPERTY EveryRunSettles
CHECK_DEADLOCK FALSE
