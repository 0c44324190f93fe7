------------------------------- MODULE Auxiliary -------------------------------
(***************************************************************************)
(* The parts that work beside the fuzzing loop and share no state with it  *)
(* while they do, one of them per behaviour: the minimiser afl-tmin, the   *)
(* dictionaries of a series of sessions, the allocator preloaded into a    *)
(* target, and the tool that instruments assembly files.                   *)
(***************************************************************************)
EXTENDS TMin, Dictionary, Dislocator, Assembler

vars == <<tminVars, dictVars, dislocatorVars, asVars>>

Part(name) ==
  /\ TMinInit(name = "tmin")
  /\ DictInit(name = "dictionary")
  /\ DislocatorInit(name = "dislocator")
  /\ AsInit(name = "assembler")

Init == \E name \in {"tmin", "dictionary", "dislocator", "assembler"} : Part(name)

Minimise == Work /\ UNCHANGED <<dictVars, dislocatorVars, asVars>>

Next ==
  \/ Minimise
  \/ HandleStopSig /\ UNCHANGED <<dictVars, dislocatorVars, asVars>>
  \/ DictNext /\ UNCHANGED <<tminVars, dislocatorVars, asVars>>
  \/ DislocatorNext /\ UNCHANGED <<tminVars, dictVars, asVars>>
  \/ AsNext /\ UNCHANGED <<tminVars, dictVars, dislocatorVars>>

(* afl-tmin is one process, and every run of its target is timed.          *)
Spec == Init /\ [][Next]_vars /\ WF_vars(Minimise)
=============================================================================
