-------------------------- MODULE MCBranchFeedback --------------------------
(* Small instances of BranchFeedback for TLC.                              *)
EXTENDS BranchFeedback

(* One branch with more instructions behind each side.                     *)
TwoBranches == {1, 2}
LeftCounts  == [b \in TwoBranches |-> b]
RightCounts == [b \in TwoBranches |-> 3 - b]
=============================================================================
