SPECIFICATION Spec
CONSTANTS
  MinPid = 2
  MaxPid = 6
  MaxTracks = 2
  MaxTargets = 2
  IntMax = 9
  Processors = 1
  MinRate = 2
  MaxRate = 9
  MaxMargin = 9
  MaxFaults = 1
  Languages = {"eng", "deu"}
  GoodFiles = {"a.srt", "b.srt", "b2.srt", "b.ass", "x.srt"}
  AssFiles = {"b.ass", "bad.ass"}
  LongPaths = {"long"}
  Disks <- MCDisks
  Invocations <- MCInvocations
  Tree <- MCTree
  Unreadable = {"locked"}
  About <- MCAbout
  Creatable = {"out"}
  Subtitles <- MCSubtitles
  CommaPaths <- MCCommaPaths
  Content <- MCContent
INVARIANT FlagsSignalled
