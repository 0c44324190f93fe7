SPECIFICATION Spec
CONSTANTS
  Branch <- TwoBranches
  Left <- LeftCounts
  Right <- RightCounts
  Modes = {"ORIGIN", "ADP2"}
  MAX_MUL = 2
  Magnitudes = {0, 2}
INVARIANTS
  NothingLeftOver
  VerdictIsSide
