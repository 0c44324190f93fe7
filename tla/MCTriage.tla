------------------------------ MODULE MCTriage ------------------------------
(* Small instances of Triage for TLC.                                      *)
EXTENDS Triage

(* Three bytes of the map, hit one after the other in longer and longer    *)
(* paths, and a run that leaves no trace.                                  *)
ThreeCells == {1, 2, 3}
FewTraces == {[c \in ThreeCells |-> 0],
              [c \in ThreeCells |-> IF c = 1 THEN 1 ELSE 0],
              [c \in ThreeCells |-> IF c = 1 THEN 1 ELSE IF c = 2 THEN 5 ELSE 0],
              [c \in ThreeCells |-> IF c = 1 THEN 2 ELSE 5]}
=============================================================================
