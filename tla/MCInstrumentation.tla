-------------------------- MODULE MCInstrumentation --------------------------
(* Small instances of Instrumentation for TLC.                             *)
EXTENDS Instrumentation

(* All pairs of 3 and 4 bits, and of 8 bits the values about the borders   *)
(* of their halves.                                                        *)
Borders == {0, 1, 15, 16, 127, 128, 143, 255}
SomeCompares ==
  UNION {{<<w, a, b>> : a, b \in 0 .. 2 ^ w - 1} : w \in {3, 4}}
    \cup {<<8, a, b>> : a, b \in Borders}

(* Values of two bytes of two bits.                                        *)
SomeCases == {S \in SUBSET {0, 1, 2, 3, 5, 6, 9, 15} : S # {}}

SomeLiterals == {<<>>, <<1>>, <<1, 1>>, <<1, 3>>}
SomeBuffers == {<<0>>, <<1, 0>>, <<1, 1, 0>>, <<1, 2, 0>>, <<1, 3, 0>>, <<1, 0, 3>>}

BlockSizes == [b \in 1 .. 4 |-> b]

(* Of a type with four values, which fit, and of one with eight.           *)
SomeOperands == {<<4, 0, 0>>, <<4, 1, 3>>, <<8, 4, 0>>, <<8, 6, 1>>}

Joined(op, c, leaf) == c \o <<leaf, bin(op, Len(c), Len(c) + 1)>>
Complement(c) == Append(c, not(Len(c)))
Singles == {<<cmp(1)>>, <<etc(1)>>}
Pairs == {Joined(op, l, cmp(2)) : op \in {"and", "or", "xor"}, l \in Singles}
(* The last ones use a comparison twice.                                   *)
Conditions2 ==
  Singles \cup Pairs \cup {Complement(c) : c \in Singles \cup Pairs}
    \cup {Joined(op, Complement(p), etc(3)) : op \in {"and", "or"}, p \in Pairs}
    \cup {<<cmp(1), cmp(2), bin("and", 1, 2), bin(op, 1, 3)>> : op \in {"and", "or"}}
=============================================================================
