------------------------------ MODULE TargetRun ------------------------------
(***************************************************************************)
(* What run_target promises its callers, whatever processes, pipes and     *)
(* signals are behind it: a run starts, one thing happens to the target,   *)
(* and the verdict the caller gets says what that was.  A request to stop  *)
(* voids the promise (the callers look at stop_soon before they use the    *)
(* verdict) but not the return.                                            *)
(***************************************************************************)

VARIABLES
  phase,      \* "idle", "busy" between call and return, "over"
  fate,       \* what happened to the target in the last run
  verdict,    \* what the last call returned
  stopping    \* the fuzzer was asked to stop

absVars == <<phase, fate, verdict, stopping>>

Fate    == {"none", "passed", "crashed", "killed"}
Verdict == {"none", "FAULT_NONE", "FAULT_CRASH", "FAULT_TMOUT"}

(* The verdict a fate deserves.                                            *)
Deserved(f) == CASE f = "passed"  -> "FAULT_NONE"
                 [] f = "crashed" -> "FAULT_CRASH"
                 [] f = "killed"  -> "FAULT_TMOUT"
                 [] OTHER         -> "none"

Init ==
  /\ phase = "idle"
  /\ fate = "none"
  /\ verdict = "none"
  /\ stopping = FALSE

Call ==
  /\ phase = "idle"
  /\ phase' = "busy"
  /\ fate' = "none"
  /\ verdict' = "none"
  /\ UNCHANGED stopping

(* The target ends its run, is killed for taking too long, or, with the    *)
(* fuzzer stopping, meets its fate after the caller has gone.              *)
Happens ==
  /\ phase = "busy" \/ stopping
  /\ fate = "none"
  /\ fate' \in Fate \ {"none"}
  /\ UNCHANGED <<phase, verdict, stopping>>

Return ==
  /\ phase = "busy"
  /\ phase' = "idle"
  /\ \/ fate # "none" /\ verdict' = Deserved(fate)
     \/ stopping /\ verdict' \in Verdict \ {"none"}
  /\ UNCHANGED <<fate, stopping>>

(* The request to stop may cost a run in progress its life.                *)
Stop ==
  /\ ~stopping
  /\ stopping' = TRUE
  /\ \/ UNCHANGED fate
     \/ phase = "busy" /\ fate = "none" /\ fate' = "killed"
  /\ UNCHANGED <<phase, verdict>>

(* The fuzzer ends, because it was asked to or because the server is lost. *)
Quit ==
  /\ phase # "over"
  /\ phase' = "over"
  /\ UNCHANGED <<fate, verdict, stopping>>

Next == Call \/ Happens \/ Return \/ Stop \/ Quit
Spec == Init /\ [][Next]_absVars
=============================================================================
