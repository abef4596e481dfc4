SPECIFICATION Spec
CONSTANTS
  NTracks = 2
  CueLists <- PairLists
  Delays <- BothDelays
  InputStarts = {0, 1}
  MS = 2
  NOPTS = NOPTS
  PacketTimes = {0, 3, 6}
  InputStreams = {1, 2}
  LateStreams = {}
  TrackStream <- TwoStreams
  Overwritten = {2}
  Mode = "mux"
  UsePool = TRUE
  PREFETCH_WINDOW = 2
  SUB_BUF_SIZE = 2
  MAX_SUB_BUF_SIZE = 3
  FULL_COUNT_THRESHOLD = 2
  EncodedSizes = {1}
  Faults = {}
INVARIANTS
  CaughtUp
  NoEventLost
PROPERTIES
  NeverLate
