SPECIFICATION Spec
CONSTANTS
  Files <- ParserFiles
  InitCap = 2
  TextMax = 9
INVARIANTS
  RepairSound
  NoCueLost
  Accounting
  TextsOwned
