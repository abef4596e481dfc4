SPECIFICATION FairSpec
CONSTANTS
  Workers = {w1}
  Clients = {a}
  Jobs = {j1}
  Cues = {c1}
  None = None
  MAX_QUEUE_DEPTH = 1
  MaxInits = 1
  CreateMayFail = FALSE
  Overlap = TRUE
PROPERTY SyncReturns
