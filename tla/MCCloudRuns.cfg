SPECIFICATION Spec
CONSTANTS
  Nonce = {n1}
  Sidecar = {r1}
  Once = Once
  Handler = {h1, h2}
  TTL = 1
  MaxTime = 2
  MaxPosts = 2
  MaxStops = 1
  Skew = 0
  Answers <- TwoAnswers
  Deliveries = {"whole"}
  Skips = {FALSE}
  Emulator = FALSE
SYMMETRY Symmetry
INVARIANTS
  NonceIsSingleUse
CHECK_DEADLOCK FALSE
