SPECIFICATION Spec
CONSTANTS
  a = a
  b = b
  e1 = e1
  e2 = e2
  Fuzzers <- TwoFuzzers
  Edges <- TwoEdges
  MaxStops = 1
  MaxTrims = 1
INVARIANTS
  MarkedIsKnown
  NoEcho
PROPERTIES
  MarksCatchUp
