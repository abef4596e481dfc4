SPECIFICATION Spec
CONSTANTS
  NTracks = 1
  CueLists <- PairLists
  Delays = {0}
  InputStarts = {0}
  MS = 2
  NOPTS = NOPTS
  PacketTimes = {6}
  InputStreams = {1, 2}
  LateStreams = {}
  TrackStream <- OneStream
  Overwritten = {2}
  Mode = "mux"
  UsePool = TRUE
  PREFETCH_WINDOW = 2
  SUB_BUF_SIZE = 2
  MAX_SUB_BUF_SIZE = 3
  FULL_COUNT_THRESHOLD = 2
  EncodedSizes = {0, 1, 2}
  Faults = {"submit", "render", "build", "clear", "buffer", "packet", "write", "realloc"}
INVARIANTS
  MuxInv
  PtsIncreasing
  EventOrder
  CueMatches
