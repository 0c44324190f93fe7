------------------------------ MODULE Distances ------------------------------
(***************************************************************************)
(* The doubles that say how far a comparison or a branch was from going    *)
(* the other way (types.h).  BR_TRUE and BR_FALSE are small constants of   *)
(* either sign, for what is no number; BR_SUCC is the number -2.0.         *)
(***************************************************************************)

Num(neg, mag) == [kind |-> "num", neg |-> neg, mag |-> mag]
Flag(neg)     == [kind |-> "flag", neg |-> neg, mag |-> 0]
BR_TRUE  == Flag(TRUE)
BR_FALSE == Flag(FALSE)
BR_SUCC  == Num(TRUE, 2)
Negated(x) == [x EXCEPT !.neg = ~@]
=============================================================================
