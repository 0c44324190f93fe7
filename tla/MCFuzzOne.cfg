SPECIFICATION Spec
CONSTANTS
  W = 2
  Modes = {"origin", "bound"}
  ProbModes = {"epsilon"}
  PostHandler = TRUE
  Interesting <- FewFinds
  ITERATION_MAX = 1
  EPSILON_AFTER = 0
  LINE_SEARCHES = 2
  TMOUT_LIMIT = 0
  MaxDescent = 2
  Start <- FewQueues
  Extras <- OneToken
  Profiles <- FewProfiles
  avg_exec_us = 4
  avg_bitmap_size = 12
  BlockBounds <- FewBlocks
  HAVOC_BLK_XL = 2
  MAX_FILE = 5
  HAVOC_CYCLES = 1
  HAVOC_CYCLES_INIT = 1
  SPLICE_HAVOC = 1
  HAVOC_MIN = 1
  HAVOC_MAX_MULT = 1
  Stackings = {2}
  SPLICE_CYCLES = 2
  JUMP = 2
INVARIANTS
  HavocStartsClean
  InBounds
  NeighbourInput
  SpliceMixes
PROPERTIES
  FuzzOneReturns
