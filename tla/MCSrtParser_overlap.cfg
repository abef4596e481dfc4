SPECIFICATION Spec
CONSTANTS
  Files <- ParserFiles
  InitCap = 2
  TextMax = 9
INVARIANT OverlapsReported
