SPECIFICATION Spec
CONSTANTS
  Workers = {w1, w2}
  Clients = {a, b}
  Jobs = {j1, j2, j3}
  Cues = {c1, c2}
  None = None
  MAX_QUEUE_DEPTH = 1
  MaxInits = 2
  CreateMayFail = TRUE
  Overlap = TRUE
SYMMETRY PoolSymmetry
INVARIANTS
  CallerSafe
  ResultMatches
  QueueBounded
  PoolInv
