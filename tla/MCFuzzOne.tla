------------------------------ MODULE MCFuzzOne ------------------------------
(* Small instances of FuzzOne for TLC.                                     *)
EXTENDS FuzzOne

(* Three bytes differ in a first and a last place, one byte cannot be      *)
(* spliced, and a queue of one offers no partner.                          *)
FewQueues == {<<<<0, 0, 1>>, <<1>>, <<1, 0, 0>>>>, <<<<0, 1>>>>}
FewFinds == {<<1, 1>>, <<0>>}
(* Slow and broad but late, fast and deep, slowish: they are worth 120,    *)
(* 500 and 112, each above the limit of an instance with HAVOC_MAX_MULT 1. *)
FewProfiles ==
  {[exec_us |-> 44, bitmap_size |-> 41, handicap |-> 4, depth |-> 0],
   [exec_us |-> 1, bitmap_size |-> 4, handicap |-> 0, depth |-> 26],
   [exec_us |-> 6, bitmap_size |-> 17, handicap |-> 0, depth |-> 3]}
OneToken == {<<1, 0>>}
FewBlocks == {<<1, 1>>, <<2, 2>>}
=============================================================================
