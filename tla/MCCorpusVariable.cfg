SPECIFICATION Spec
CONSTANTS
  MapSize = 3
  MaxQueue = 3
  InitialEntries = 1
  Traces <- VariableTraces
  MaxFav = 1
  CalChances = 2
  SkipThreshold = 1
  StableTarget = FALSE
  DumbMode = FALSE
INVARIANTS
  RefCountExact
  MiniIffReferenced
  WinnersCalibrated
  CullCovers
  PendingFavoredExact
  PendingNotFuzzedExact
