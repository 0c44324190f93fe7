------------------------------ MODULE MCAuxiliary ------------------------------
(* Small instances of Auxiliary for TLC.                                   *)
EXTENDS Auxiliary

(* Short files of two and three symbols.                                   *)
FewInputs == {<<1, 1, 1, 1>>, <<2, 0, 1>>}

(* More files than a session uses, tokens too short, dull, and spelt in    *)
(* two ways.                                                               *)
FewGiven ==
  {<<>>,
   <<<<3, 1, 1>>, <<4, 1, 1>>, <<3, 1, 2>>>>,
   <<<<2, 1, 1>>, <<3, 2, 1>>, <<3, 3, 1>>, <<3, 1, 1>>>>}
FewDull == {<<3, 2, 1>>}

Line(kind, level, token) == [kind |-> kind, level |-> level, token |-> token]
FewSources ==
  {[directory |-> FALSE, level |-> 0,
    lines |-> <<Line("word", 0, <<4, 1, 1>>), Line("blank", 0, Empty),
                Line("word", 1, <<6, 1, 1>>), Line("word", 0, <<3, 1, 1>>)>>],
   [directory |-> FALSE, level |-> 1, lines |-> <<Line("garbled", 1, Empty)>>],
   [directory |-> TRUE, level |-> 1, lines |-> <<>>]}
=============================================================================
