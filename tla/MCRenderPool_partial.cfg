SPECIFICATION FairSpec
CONSTANTS
  Workers = {w1, w2}
  Clients = {main}
  Jobs = {j1}
  Cues = {c1}
  None = None
  MAX_QUEUE_DEPTH = 1
  MaxInits = 1
  CreateMayFail = TRUE
  Overlap = FALSE
PROPERTY InitReturns
