------------------------------ MODULE MCCorpus ------------------------------
(* Small instances of Corpus for TLC.                                      *)
EXTENDS Corpus

(* Two disjoint traces over three bytes are enough for a nondeterministic  *)
(* target to be calibrated with one trace and scored with the other.       *)
VariableTraces == {{0, 1}, {2}}

(* Overlapping traces: inputs compete for bytes they share.                *)
StableTraces == {{0}, {0, 1}, {1, 2}}
=============================================================================
