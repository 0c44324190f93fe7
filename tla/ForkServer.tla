----------------------------- MODULE ForkServer -----------------------------
(***************************************************************************)
(* The fork server protocol: afl-fuzz (init_forkserver, run_target and its *)
(* signal handlers, src/afl-fuzz.c), the server compiled into the target   *)
(* (__afl_start_forkserver, __afl_persistent_loop,                         *)
(* src/llvm_mode/afl-llvm-rt.o.c) and the target processes it forks.       *)
(*                                                                         *)
(* The fuzzer writes prev_timed_out to the control pipe, reads a PID and   *)
(* then a wait status from the status pipe.  The interval timer and the    *)
(* stop signal interrupt it between any two system calls.  A process is    *)
(* named by the order of its creation, a run by the order of its request.  *)
(***************************************************************************)
EXTENDS Integers, Sequences, FiniteSets

CONSTANTS
  MaxRuns,      \* bound: requests the fuzzer makes
  Persistent    \* is_persistent: the target calls __AFL_LOOP

ASSUME ConstantsAssumption ==
  MaxRuns \in Nat \ {0} /\ Persistent \in BOOLEAN

VARIABLES
  (* the fuzzer *)
  fpc,              \* where run_target (or init_forkserver, main) is
  child_pid,        \* -1 until the first run, 0 when there is no child
  child_timed_out,
  prev_timed_out,
  stop_soon,        \* 1: manual stop, 2: the fuzzer decided to stop
  timer,            \* ITIMER_REAL is armed
  status,           \* the status the fuzzer has read
  verdict,          \* what the last run_target returned
  run,              \* requests made
  (* the pipes *)
  ctl, st,
  (* the server *)
  spc,
  srv_child,        \* child_pid of __afl_start_forkserver
  child_stopped,
  srv_status,
  served,           \* the request being served
  (* the target processes and the shared map *)
  proc,             \* [pid -> state of the process]
  exec_of,          \* [pid -> the run it executes]
  fate,             \* [run -> what became of it]
  trace_bits        \* the runs that wrote the map since it was cleared

fuzzerVars == <<fpc, child_pid, child_timed_out, prev_timed_out, stop_soon,
                timer, status, verdict, run>>
pipes      == <<ctl, st>>
serverVars == <<spc, srv_child, child_stopped, srv_status, served>>
targetVars == <<proc, exec_of, fate, trace_bits>>
vars == <<fuzzerVars, pipes, serverVars, targetVars>>

Pid   == 1 .. MaxRuns
Run   == 1 .. MaxRuns
Alive == {"starting", "running", "stopped"}
Ended == {"exited", "crashed", "killed"}
Fate  == {"none", "passed", "crashed", "killed"}

FuzzerAlive == fpc \notin {"exit", "fatal"}
Busy        == fpc \in {"pid", "arm", "wait", "reap", "disarm", "judge"}

(* The server holds the far ends of both pipes, and so does a process it   *)
(* has forked until that process closes them.                              *)
FarEndOpen == spc # "dead" \/ \E p \in Pid : proc[p] = "starting"

-----------------------------------------------------------------------------
Init ==
  /\ fpc = "init" /\ timer = TRUE
  /\ child_pid = -1
  /\ child_timed_out = FALSE /\ prev_timed_out = FALSE
  /\ stop_soon = 0
  /\ status = "none" /\ verdict = "none" /\ run = 0
  /\ ctl = <<>> /\ st = <<>>
  /\ spc = "boot" /\ srv_child = 0 /\ child_stopped = FALSE
  /\ srv_status = "none" /\ served = 0
  /\ proc = [p \in Pid |-> "none"]
  /\ exec_of = [p \in Pid |-> 0]
  /\ fate = [r \in Run |-> "none"]
  /\ trace_bits = {}

-----------------------------------------------------------------------------
(* Signals sent to processes.                                              *)

(* SIGKILL ends a process that has not ended yet, and its run with it      *)
(* unless the server has already seen that run stop.                       *)
Kill(p) ==
  IF p \in Pid /\ proc[p] \in Alive
  THEN /\ proc' = [proc EXCEPT ![p] = "killed"]
       /\ fate' = [fate EXCEPT ![exec_of[p]] =
                     IF @ = "none" THEN "killed" ELSE @]
  ELSE UNCHANGED <<proc, fate>>

-----------------------------------------------------------------------------
(* The fuzzer: init_forkserver.                                            *)

ReadHello ==
  /\ fpc = "init"
  /\ IF st # <<>>
     THEN fpc' = "hello" /\ st' = Tail(st)
     ELSE ~FarEndOpen /\ fpc' = "fatal" /\ UNCHANGED st
  /\ UNCHANGED <<child_pid, child_timed_out, prev_timed_out, stop_soon, timer,
                 status, verdict, run, ctl, serverVars, targetVars>>

DisarmHello ==
  /\ fpc = "hello"
  /\ timer' = FALSE
  /\ fpc' = "idle"
  /\ UNCHANGED <<child_pid, child_timed_out, prev_timed_out, stop_soon,
                 status, verdict, run, pipes, serverVars, targetVars>>

-----------------------------------------------------------------------------
(* The fuzzer: run_target, one action per system call.                     *)

StaleTrace == trace_bits                               \* fault: no memset
FreshTrace == {}

(* A pipe with nobody at the other end: run_target returns 0 if the fuzzer *)
(* is stopping, else the fuzzer gives up.                                  *)
ServerLost ==
  /\ IF stop_soon # 0
     THEN fpc' = "idle" /\ verdict' = "FAULT_NONE"
     ELSE fpc' = "fatal" /\ UNCHANGED verdict

Ask ==
  /\ fpc = "idle"
  /\ run < MaxRuns
  /\ run' = run + 1
  /\ child_timed_out' = FALSE
  /\ trace_bits' = FreshTrace
  /\ verdict' = "none"
  /\ fpc' = "ask"
  /\ UNCHANGED <<child_pid, prev_timed_out, stop_soon, timer, status, pipes,
                 serverVars, proc, exec_of, fate>>

WriteRequest ==
  /\ fpc = "ask"
  /\ IF FarEndOpen
     THEN /\ ctl' = Append(ctl, [was_killed |-> prev_timed_out, run |-> run])
          /\ fpc' = "pid"
          /\ UNCHANGED verdict
     ELSE ServerLost /\ UNCHANGED ctl
  /\ UNCHANGED <<child_pid, child_timed_out, prev_timed_out, stop_soon, timer,
                 status, run, st, serverVars, targetVars>>

ReadPid ==
  /\ fpc = "pid"
  /\ IF st # <<>>
     THEN /\ child_pid' = Head(st)
          /\ st' = Tail(st)
          /\ fpc' = "arm"
          /\ UNCHANGED verdict
     ELSE ~FarEndOpen /\ ServerLost /\ UNCHANGED <<child_pid, st>>
  /\ UNCHANGED <<child_timed_out, prev_timed_out, stop_soon, timer, status,
                 run, ctl, serverVars, targetVars>>

ArmTimer ==
  /\ fpc = "arm"
  /\ timer' = TRUE
  /\ fpc' = "wait"
  /\ UNCHANGED <<child_pid, child_timed_out, prev_timed_out, stop_soon, status,
                 verdict, run, pipes, serverVars, targetVars>>

ReadStatus ==
  /\ fpc = "wait"
  /\ IF st # <<>>
     THEN /\ status' = Head(st)
          /\ st' = Tail(st)
          /\ fpc' = "reap"
          /\ UNCHANGED verdict
     ELSE ~FarEndOpen /\ ServerLost /\ UNCHANGED <<status, st>>
  /\ UNCHANGED <<child_pid, child_timed_out, prev_timed_out, stop_soon, timer,
                 run, ctl, serverVars, targetVars>>

(* child_pid is forgotten, unless the child is only stopped.               *)
Forget ==
  /\ fpc = "reap"
  /\ child_pid' = IF status = "stopped" THEN child_pid ELSE 0
  /\ fpc' = "disarm"
  /\ UNCHANGED <<child_timed_out, prev_timed_out, stop_soon, timer, status,
                 verdict, run, pipes, serverVars, targetVars>>

DisarmTimer ==
  /\ fpc = "disarm"
  /\ timer' = FALSE
  /\ fpc' = "judge"
  /\ UNCHANGED <<child_pid, child_timed_out, prev_timed_out, stop_soon, status,
                 verdict, run, pipes, serverVars, targetVars>>

NotAnnounced == prev_timed_out                         \* fault: not recorded
Announced == child_timed_out

KilledIsCrash ==                                       \* fault: no FAULT_TMOUT
  IF status \in {"crashed", "killed"} /\ stop_soon = 0
  THEN "FAULT_CRASH" ELSE "FAULT_NONE"
Outcome ==
  IF stop_soon # 0 THEN "FAULT_NONE"
  ELSE IF status = "killed" /\ child_timed_out THEN "FAULT_TMOUT"
  ELSE IF status \in {"crashed", "killed"} THEN "FAULT_CRASH"
  ELSE "FAULT_NONE"

Judge ==
  /\ fpc = "judge"
  /\ prev_timed_out' = Announced
  /\ verdict' = Outcome
  /\ fpc' = "idle"
  /\ UNCHANGED <<child_pid, child_timed_out, stop_soon, timer, status, run,
                 pipes, serverVars, targetVars>>

-----------------------------------------------------------------------------
(* The fuzzer: the end of main.                                            *)

LeavesThemAlive == FALSE                               \* fault: no kill
KillsThem == stop_soon = 2

DecideToStop ==
  /\ fpc = "idle"
  /\ stop_soon = 0
  /\ stop_soon' = 2
  /\ UNCHANGED <<fpc, child_pid, child_timed_out, prev_timed_out, timer,
                 status, verdict, run, pipes, serverVars, targetVars>>

LeaveLoop ==
  /\ fpc = "idle"
  /\ stop_soon # 0
  /\ fpc' = "down"
  /\ IF KillsThem
     THEN Kill(child_pid) /\ spc' = "dead"
     ELSE UNCHANGED <<proc, fate, spc>>
  /\ UNCHANGED <<child_pid, child_timed_out, prev_timed_out, stop_soon, timer,
                 status, verdict, run, pipes, srv_child, child_stopped,
                 srv_status, served, exec_of, trace_bits>>

(* waitpid(forksrv_pid).                                                   *)
WaitServer ==
  /\ fpc = "down"
  /\ spc = "dead"
  /\ fpc' = "exit"
  /\ UNCHANGED <<child_pid, child_timed_out, prev_timed_out, stop_soon, timer,
                 status, verdict, run, pipes, serverVars, targetVars>>

-----------------------------------------------------------------------------
(* The fuzzer's signal handlers.                                           *)

HandleTimeout ==
  /\ timer /\ FuzzerAlive
  /\ timer' = FALSE
  /\ \/ /\ child_pid > 0
        /\ child_timed_out' = TRUE
        /\ Kill(child_pid)
        /\ UNCHANGED spc
     \/ /\ child_pid = -1
        /\ child_timed_out' = TRUE
        /\ spc' = "dead"
        /\ UNCHANGED <<proc, fate>>
     \/ /\ child_pid = 0
        /\ UNCHANGED <<child_timed_out, spc, proc, fate>>
  /\ UNCHANGED <<fpc, child_pid, prev_timed_out, stop_soon, status, verdict,
                 run, pipes, srv_child, child_stopped, srv_status, served,
                 exec_of, trace_bits>>

HandleStop ==
  /\ FuzzerAlive
  /\ stop_soon' = 1
  /\ Kill(child_pid)
  /\ spc' = "dead"
  /\ UNCHANGED <<fpc, child_pid, child_timed_out, prev_timed_out, timer,
                 status, verdict, run, pipes, srv_child, child_stopped,
                 srv_status, served, exec_of, trace_bits>>

-----------------------------------------------------------------------------
(* The server.                                                             *)

SayHello ==
  /\ spc = "boot"
  /\ IF FuzzerAlive THEN st' = Append(st, "hello") /\ spc' = "read"
     ELSE spc' = "dead" /\ UNCHANGED st
  /\ UNCHANGED <<fuzzerVars, ctl, srv_child, child_stopped, srv_status, served,
                 targetVars>>

MustFork == ~child_stopped

(* The target crashes before main, or fork() fails in the server.          *)
ServerFails ==
  /\ spc = "boot" \/ (spc = "start" /\ MustFork)
  /\ spc' = "dead"
  /\ UNCHANGED <<fuzzerVars, pipes, srv_child, child_stopped, srv_status,
                 served, targetVars>>

AnyStopped(was_killed) == child_stopped                \* fault: alive or not
KilledWhileStopped(was_killed) == child_stopped /\ was_killed

ReadRequest ==
  /\ spc = "read"
  /\ IF ctl # <<>>
     THEN /\ spc' = IF KilledWhileStopped(Head(ctl).was_killed)
                    THEN "writeoff" ELSE "start"
          /\ served' = Head(ctl).run
          /\ ctl' = Tail(ctl)
     ELSE ~FuzzerAlive /\ spc' = "dead" /\ UNCHANGED <<served, ctl>>
  /\ UNCHANGED <<fuzzerVars, st, srv_child, child_stopped, srv_status,
                 targetVars>>

(* The stopped child has been killed after its last run: reap it.          *)
WriteOff ==
  /\ spc = "writeoff"
  /\ proc[srv_child] \in Ended
  /\ proc' = [proc EXCEPT ![srv_child] = "reaped"]
  /\ child_stopped' = FALSE
  /\ spc' = "start"
  /\ UNCHANGED <<fuzzerVars, pipes, srv_child, srv_status, served, exec_of,
                 fate, trace_bits>>

ForkChild ==
  /\ spc = "start"
  /\ MustFork
  /\ LET p == Cardinality({q \in Pid : proc[q] # "none"}) + 1 IN
       /\ srv_child' = p
       /\ proc' = [proc EXCEPT ![p] = "starting"]
       /\ exec_of' = [exec_of EXCEPT ![p] = served]
  /\ spc' = "tell"
  /\ UNCHANGED <<fuzzerVars, pipes, child_stopped, srv_status, served, fate,
                 trace_bits>>

ContinueChild ==
  /\ spc = "start"
  /\ ~MustFork
  /\ proc' = [proc EXCEPT ![srv_child] = IF @ = "stopped" THEN "running" ELSE @]
  /\ exec_of' = [exec_of EXCEPT ![srv_child] = served]
  /\ child_stopped' = FALSE
  /\ spc' = "tell"
  /\ UNCHANGED <<fuzzerVars, pipes, srv_child, srv_status, served, fate,
                 trace_bits>>

TellPid ==
  /\ spc = "tell"
  /\ IF FuzzerAlive THEN st' = Append(st, srv_child) /\ spc' = "wait"
     ELSE spc' = "dead" /\ UNCHANGED st
  /\ UNCHANGED <<fuzzerVars, ctl, srv_child, child_stopped, srv_status, served,
                 targetVars>>

NotWaited(p) == proc[p] # "none"                       \* fault: WNOHANG
Waited(p) == proc[p] \in Ended \/ (Persistent /\ proc[p] = "stopped")

WaitChild ==
  /\ spc = "wait"
  /\ Waited(srv_child)
  /\ srv_status' = proc[srv_child]
  /\ child_stopped' = (proc[srv_child] = "stopped")
  /\ proc' = [proc EXCEPT ![srv_child] = IF @ \in Ended THEN "reaped" ELSE @]
  /\ fate' = IF proc[srv_child] = "stopped"
             THEN [fate EXCEPT ![exec_of[srv_child]] = "passed"] ELSE fate
  /\ spc' = "report"
  /\ UNCHANGED <<fuzzerVars, pipes, srv_child, served, exec_of, trace_bits>>

Report ==
  /\ spc = "report"
  /\ IF FuzzerAlive THEN st' = Append(st, srv_status) /\ spc' = "read"
     ELSE spc' = "dead" /\ UNCHANGED st
  /\ UNCHANGED <<fuzzerVars, ctl, srv_child, child_stopped, srv_status, served,
                 targetVars>>

-----------------------------------------------------------------------------
(* The target processes.                                                   *)

CloseFds(p) ==
  /\ proc[p] = "starting"
  /\ proc' = [proc EXCEPT ![p] = "running"]
  /\ UNCHANGED <<fuzzerVars, pipes, serverVars, exec_of, fate, trace_bits>>

WriteTrace(p) ==
  /\ proc[p] = "running"
  /\ trace_bits' = trace_bits \cup {exec_of[p]}
  /\ UNCHANGED <<fuzzerVars, pipes, serverVars, proc, exec_of, fate>>

(* The process stops itself in __AFL_LOOP, exits, or crashes; it may also  *)
(* do none of these, for ever.                                             *)
EndRun(p) ==
  /\ proc[p] = "running"
  /\ \E how \in {"exited", "crashed", "stopped"} :
       /\ how = "stopped" => Persistent
       /\ proc' = [proc EXCEPT ![p] = how]
       /\ fate' = [fate EXCEPT ![exec_of[p]] =
                     CASE how = "crashed" -> "crashed"
                       [] how = "exited"  -> "passed"
                       [] OTHER           -> @]
  /\ UNCHANGED <<fuzzerVars, pipes, serverVars, exec_of, trace_bits>>

-----------------------------------------------------------------------------
Fuzzer == \/ ReadHello \/ DisarmHello
          \/ Ask \/ WriteRequest \/ ReadPid \/ ArmTimer \/ ReadStatus
          \/ Forget \/ DisarmTimer \/ Judge
          \/ LeaveLoop \/ WaitServer
Server == \/ SayHello \/ ReadRequest \/ WriteOff \/ ForkChild
          \/ ContinueChild \/ TellPid \/ WaitChild \/ Report
Start  == \E p \in Pid : CloseFds(p)
Target == \E p \in Pid : WriteTrace(p) \/ EndRun(p)

Finished == ~FuzzerAlive /\ spc = "dead" /\ UNCHANGED vars

Next == \/ Fuzzer \/ DecideToStop \/ HandleTimeout \/ HandleStop
        \/ Server \/ ServerFails \/ Start \/ Target \/ Finished

Spec == Init /\ [][Next]_vars

(* The scheduler runs the fuzzer, the server and a forked process up to    *)
(* main, and the timer goes off; the target itself may hang.               *)
FairSpec == Spec /\ WF_vars(Fuzzer) /\ WF_vars(Server) /\ WF_vars(Start)
                 /\ WF_vars(HandleTimeout)

-----------------------------------------------------------------------------
(* Properties.                                                             *)

Returned == fpc = "idle" /\ verdict # "none" /\ stop_soon = 0

(* When run_target returns, only the run it was called for has written the *)
(* coverage map since it was cleared.                                      *)
TraceOfThisRun == Returned => trace_bits \subseteq {run}

(* Between the status of one run and the request of the next nothing in    *)
(* the target is running, so trace_bits[] behaves "very normally" there.   *)
Quiet == fpc \in {"reap", "disarm", "judge", "idle", "ask"} /\ stop_soon = 0
NoWriterWhileReading ==
  Quiet => \A p \in Pid : proc[p] \notin {"starting", "running"}

(* The verdict says what happened to this run: a crash is the target's own,*)
(* a timeout is the timer's kill.  A stopped process the timer killed too  *)
(* late must not be charged to the next input.                             *)
VerdictTrue ==
  Returned =>
    verdict = CASE fate[run] = "crashed" -> "FAULT_CRASH"
                [] fate[run] = "killed"  -> "FAULT_TMOUT"
                [] fate[run] = "passed"  -> "FAULT_NONE"
                [] OTHER                 -> "none"

(* Every call of run_target returns or ends the fuzzer, even if the target *)
(* hangs, the server dies or the stop signal comes in between.             *)
RunReturns == Busy ~> ~Busy

(* A fuzzer that is asked to stop ends: no side waits for the other.       *)
FuzzerStops == (stop_soon # 0) ~> ~FuzzerAlive

(* run_target keeps the promise of TargetRun.                              *)
Abstract == INSTANCE TargetRun WITH
  phase    <- IF fpc = "ask" \/ Busy THEN "busy"
              ELSE IF FuzzerAlive THEN "idle"
              ELSE "over",
  fate     <- IF run = 0 THEN "none" ELSE fate[run],
  stopping <- stop_soon # 0
ImplementsTargetRun == Abstract!Spec
=============================================================================
