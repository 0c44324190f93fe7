SPECIFICATION Spec
CONSTANTS
  Inputs <- FewInputs
  Zero = 0
  Hangs = 1
  ExactModes = {TRUE, FALSE}
  TMIN_SET_STEPS = 2
  TMIN_SET_MIN_SIZE = 2
  TRIM_START_STEPS = 2
  Given <- FewGiven
  Dull <- FewDull
  Sources <- FewSources
  MaxSessions = 3
  MIN_AUTO_EXTRA = 3
  MAX_AUTO_EXTRA = 4
  USE_AUTO_EXTRAS = 3
  MAX_DICT_FILE = 5
  Threads = {t1, t2}
  SIZE = 8
  max_mem = 3
  MaxBlocks = 3
  Ratios = {0, 100}
  MaxLines = 6
INVARIANTS
  OutputFaithful
  OneMinimal
  TokensKept
  BytesCounted
  BlocksMarked
PROPERTIES
  Terminates
CHECK_DEADLOCK FALSE
