SPECIFICATION Spec
CONSTANTS
  Branch <- TwoBranches
  Left <- LeftCounts
  Right <- RightCounts
  Modes = {"ORIGIN"}
  MAX_MUL = 2
  Magnitudes = {0, 2}
INVARIANTS
  FlipNoticed
