SPECIFICATION FairSpec
CONSTANTS
  MapSize = 3
  MaxQueue = 2
  InitialEntries = 1
  Traces <- StableTraces
  MaxFav = 2
  CalChances = 2
  SkipThreshold = 1
  StableTarget = TRUE
  DumbMode = FALSE
INVARIANTS
  TopRatedBest
PROPERTIES
  FavoredGetsFuzzed
