SPECIFICATION FairSpec
CONSTANTS
  MaxRuns = 3
  Persistent = TRUE
INVARIANTS
  TraceOfThisRun
  NoWriterWhileReading
  VerdictTrue
PROPERTIES
  ImplementsTargetRun
  RunReturns
  FuzzerStops
