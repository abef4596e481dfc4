SPECIFICATION Spec
CONSTANTS
  CommandLines <- MCCommandLines
  Media <- MCMedia
  MaxPerBucket = 2
  PaletteMax = 4
  DefaultColors = 3
  MaxTracks = 2
  MaxColors = 2
  Hd = 2
  Uhd = 4
  Width = 3
  IntMax = 3
  MaxFaults = 2
  NoPts = NoPts
INVARIANTS
  CacheSound
  TimesSound
  StreamComplete
  PictureExact
  ExitTruthful
