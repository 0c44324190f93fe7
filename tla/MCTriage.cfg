SPECIFICATION Spec
CONSTANTS
  Cells <- ThreeCells
  Traces <- FewTraces
  CrashModes = {"none", "crash"}
  ShortTimeout = TRUE
  Tolerant = TRUE
  InitialEntries = 1
  MaxQueue = 2
  MaxFaults = 2
  CAL_CHANCES = 2
  CAL_CYCLES = 2
  CAL_CYCLES_LONG = 3
  KEEP_UNIQUE_HANG = 1
  KEEP_UNIQUE_CRASH = 2
INVARIANTS
  CoverageBacked
  VarBytesTrue
PROPERTIES
  FaultsUnique
CHECK_DEADLOCK FALSE
