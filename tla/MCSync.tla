-------------------------------- MODULE MCSync --------------------------------
(* Small instances of Sync for TLC: two fuzzers exchange what they find.    *)
EXTENDS Sync
CONSTANTS a, b, e1, e2
TwoFuzzers == {a, b}
TwoEdges == {e1, e2}
=============================================================================
