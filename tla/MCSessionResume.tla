-------------------------- MODULE MCSessionResume --------------------------
(* Small instances of SessionResume for TLC: two seeds, one of them        *)
(* flagged as deterministic_done, and a third test case to find.           *)
EXTENDS SessionResume

CONSTANTS c1, c2, c3

AllContent  == {c1, c2, c3}
TwoSeeds    == {c1, c2}
FlaggedSeed == {c1}

(* A process may be killed anywhere but while it deletes _resume/.         *)
SafePoints  == Steps \ {"nuke"}
=============================================================================
