SPECIFICATION Spec
CONSTANTS
  NTracks = 1
  CueLists <- OneList
  Delays = {0}
  InputStarts = {0}
  MS = 2
  NOPTS = NOPTS
  PacketTimes = {0, 2, 3, 6}
  InputStreams = {1, 2}
  LateStreams = {}
  TrackStream <- OneStream
  Overwritten = {2}
  Mode = "mux"
  UsePool = TRUE
  PREFETCH_WINDOW = 2
  SUB_BUF_SIZE = 2
  MAX_SUB_BUF_SIZE = 3
  FULL_COUNT_THRESHOLD = 2
  EncodedSizes = {1, 2}
  Faults = {}
INVARIANTS
  PayloadIntact
