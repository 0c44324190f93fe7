---------------------------- MODULE Instrumentation ----------------------------
(***************************************************************************)
(* The instrumentation of a target, one piece of it per behaviour: a       *)
(* comparison, a switch or a string comparison rewritten by the LAF-Intel  *)
(* passes, the graph of a function weighed by the MaxAFL pass, or the      *)
(* condition of a branch written down by it and evaluated by its runtime.  *)
(***************************************************************************)
EXTENDS LafIntel, Meic, Conditions

vars == <<lafVars, meicVars, condVars>>

Piece(kind) ==
  /\ LafInit(kind)
  /\ MeicInit(kind = "graph")
  /\ ConditionInit(kind = "condition")

Init == \E kind \in {"compare", "switch", "string", "graph", "condition"} : Piece(kind)

Next ==
  \/ LafNext /\ UNCHANGED <<meicVars, condVars>>
  \/ MeicNext /\ UNCHANGED <<lafVars, condVars>>
  \/ CondNext /\ UNCHANGED <<lafVars, meicVars>>

Spec == Init /\ [][Next]_vars
=============================================================================
