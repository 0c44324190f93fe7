SPECIFICATION Spec
CONSTANTS
  Byte = 2
  SplitFrom = {0, 2, 8}
  Compares <- SomeCompares
  SwitchBytes = 2
  SwitchCases <- SomeCases
  Literals <- SomeLiterals
  Buffers <- SomeBuffers
  LastBlock = 4
  Sizes <- BlockSizes
  Instructions <- Conditions2
  Leaves = {1, 2, 3}
  OpSize = 4
  CmpArgs <- SomeOperands
INVARIANTS
  LafKeepsMeaning
  EntryCoversAll
  VerdictNamesSide
CHECK_DEADLOCK FALSE
