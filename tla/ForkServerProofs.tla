--------------------------- MODULE ForkServerProofs ---------------------------
(***************************************************************************)
(* Proofs about ForkServer, for any number of runs, persistent or not:     *)
(* what run_target returns is true, its coverage map is that of the run,   *)
(* nothing writes it while it is read, and run_target keeps the promise of *)
(* TargetRun.                                                              *)
(***************************************************************************)
EXTENDS ForkServer, FiniteSetTheorems, SequenceTheorems, TLAPS

-----------------------------------------------------------------------------
(* Types.                                                                  *)

ProcState == {"none", "starting", "running", "stopped", "exited", "crashed",
              "killed", "reaped"}

Typed ==
  /\ run \in 0 .. MaxRuns
  /\ stop_soon \in 0 .. 2
  /\ timer \in BOOLEAN /\ child_timed_out \in BOOLEAN /\ prev_timed_out \in BOOLEAN
  /\ child_stopped \in BOOLEAN
  /\ srv_child \in {0} \cup Pid
  /\ proc \in [Pid -> ProcState]
  /\ exec_of \in [Pid -> {0} \cup Run]
  /\ fate \in [Run -> Fate]

-----------------------------------------------------------------------------
(* The processes, whatever has become of fuzzer and server: the server     *)
(* forks them in order, one for a run at most; only the last may be alive; *)
(* and a run has no fate while its process is at work.                     *)

Forked(p) == proc[p] # "none"

Processes ==
  /\ \A p \in Pid : Forked(p) => p <= exec_of[p] /\ exec_of[p] <= run
  /\ \A p, q \in Pid : q < p /\ Forked(p) => Forked(q)
  /\ \A p \in Pid : ~Forked(p) => exec_of[p] = 0
  /\ \A p \in Pid : proc[p] \in Alive => p = srv_child
  /\ \A p \in Pid : proc[p] \in {"starting", "running"} => fate[exec_of[p]] = "none"
  /\ \A r \in Run : r > run => fate[r] = "none"

-----------------------------------------------------------------------------
(* The conversation, as long as the fuzzer has not been stopped by the     *)
(* user and has not left its loop.                                         *)

Live == stop_soon # 1 /\ fpc \notin {"down", "exit", "fatal"}

NoneAlive == \A p \in Pid : proc[p] \notin Alive

(* Between two runs nothing is alive but a child that has stopped itself,  *)
(* which the timer may still have killed; then the fuzzer knows.           *)
Parked(timed_out) ==
  /\ \A p \in Pid : proc[p] \in Alive => child_stopped /\ proc[p] = "stopped"
  /\ child_stopped => /\ srv_child \in Pid
                      /\ \/ proc[srv_child] = "stopped"
                         \/ proc[srv_child] = "killed" /\ timed_out

(* No process has been asked for the current run.                          *)
NotStarted == run > 0 /\ fate[run] = "none" /\ \A p \in Pid : exec_of[p] < run

(* The child is at the current run, or has ended it unseen.                *)
AtRun ==
  /\ run > 0 /\ served = run /\ ~child_stopped
  /\ srv_child \in Pid /\ exec_of[srv_child] = run
  /\ proc[srv_child] \in Alive \cup Ended
  /\ proc[srv_child] = "stopped" => fate[run] = "none"
  /\ proc[srv_child] = "exited" => fate[run] = "passed"
  /\ proc[srv_child] = "crashed" => fate[run] = "crashed"
  /\ proc[srv_child] = "killed" => fate[run] = "killed" /\ child_timed_out

(* The server has seen how the current run ended.                          *)
SeenEnd ==
  /\ run > 0 /\ srv_child \in Pid
  /\ Parked(child_timed_out)
  /\ srv_status \in Ended \cup {"stopped"}
  /\ srv_status \in {"stopped", "exited"} => fate[run] = "passed"
  /\ srv_status = "crashed" => fate[run] = "crashed"
  /\ srv_status = "killed" => fate[run] = "killed" /\ child_timed_out

Booting ==
  /\ fpc = "init" /\ st = << >> /\ spc \in {"boot", "dead"}
  /\ NoneAlive /\ ~child_stopped

Greeted ==
  /\ fpc = "init" /\ st = <<"hello">> /\ spc \in {"read", "dead"}
  /\ NoneAlive /\ ~child_stopped

Resting ==
  /\ fpc \in {"hello", "idle", "ask"} /\ st = << >>
  /\ \/ spc = "read" /\ Parked(prev_timed_out)
     \/ spc = "dead" /\ NoneAlive
  /\ fpc = "hello" => NoneAlive /\ ~child_stopped
  /\ fpc = "ask" => NotStarted

Asked ==
  /\ fpc = "pid" /\ st = << >> /\ spc = "read"
  /\ NotStarted /\ Parked(prev_timed_out)

Taken ==
  /\ fpc = "pid" /\ st = << >> /\ NotStarted /\ served = run
  /\ \/ spc = "writeoff" /\ Parked(TRUE) /\ child_stopped
     \/ spc = "start" /\ Parked(FALSE)
     \/ spc = "dead" /\ NoneAlive

Started == fpc = "pid" /\ st = << >> /\ spc = "tell" /\ AtRun

(* The PID has been told, and perhaps read.                                *)
Told(unread, rest) ==
  \/ fpc = "pid" /\ st = unread
  \/ fpc \in {"arm", "wait"} /\ st = rest

Waiting  == spc = "wait" /\ AtRun /\ Told(<<srv_child>>, << >>)
Noticed  == spc = "report" /\ SeenEnd /\ Told(<<srv_child>>, << >>)
Reported == spc = "read" /\ SeenEnd /\ Told(<<srv_child, srv_status>>, <<srv_status>>)

Finishing ==
  /\ fpc \in {"reap", "disarm", "judge"} /\ st = << >> /\ spc = "read"
  /\ SeenEnd /\ status = srv_status

Conversation ==
  \/ /\ ctl = << >>
     /\ \/ Booting \/ Greeted \/ Resting \/ Taken \/ Started
        \/ Waiting \/ Noticed \/ Reported \/ Finishing
  \/ ctl = <<[was_killed |-> prev_timed_out, run |-> run]>> /\ Asked

Timer ==
  /\ timer => fpc \in {"init", "hello", "wait", "reap", "disarm"}
  /\ fpc \in {"arm", "wait", "reap"} => child_pid = srv_child
  /\ fpc = "disarm" => child_pid \in {0, srv_child}

Verdicts ==
  /\ fpc \in {"init", "hello"} => verdict = "none" /\ run = 0
  /\ fpc = "idle" /\ stop_soon = 0 =>
       \/ run = 0 /\ verdict = "none"
       \/ run > 0 /\ fate[run] = "crashed" /\ verdict = "FAULT_CRASH"
       \/ run > 0 /\ fate[run] = "killed" /\ verdict = "FAULT_TMOUT"
       \/ run > 0 /\ fate[run] = "passed" /\ verdict = "FAULT_NONE"

Exchange == Conversation /\ Timer /\ Verdicts /\ trace_bits \subseteq {run}

(* After the end of the conversation the server is dead, and unless the    *)
(* fuzzer was asked to stop it had no child.                               *)
Aftermath == spc = "dead" /\ (stop_soon = 0 => NoneAlive)

IInv ==
  /\ Typed /\ Processes
  /\ IF Live THEN Exchange ELSE Aftermath

-----------------------------------------------------------------------------
(* Facts about the short sequences in the pipes.                           *)

LEMMA Pipes ==
  ASSUME NEW x, NEW y
  PROVE  /\ <<x>> # << >> /\ Head(<<x>>) = x /\ Tail(<<x>>) = << >>
         /\ <<x, y>> # << >> /\ Head(<<x, y>>) = x /\ Tail(<<x, y>>) = <<y>>
         /\ Append(<< >>, x) = <<x>> /\ Append(<<x>>, y) = <<x, y>>
<1> DEFINE S == {x, y}
<1>1. <<x>> \in Seq(S) /\ <<x, y>> \in Seq(S) /\ y \in S
  OBVIOUS
<1>2. Len(<<x>>) = 1 /\ Len(<<x, y>>) = 2
  OBVIOUS
<1>3. /\ Append(<<x>>, y) \in Seq(S) /\ Len(Append(<<x>>, y)) = 2
      /\ Append(<<x>>, y)[1] = x /\ Append(<<x>>, y)[2] = y
  BY <1>1, <1>2
<1>4. \A i \in 1 .. 2 : Append(<<x>>, y)[i] = <<x, y>>[i]
  BY <1>3
<1>5. Append(<<x>>, y) = <<x, y>>
  BY <1>1, <1>2, <1>3, <1>4, SeqEqual
<1>6. <<x>> # << >> /\ Head(<<x>>) = x /\ Tail(<<x>>) = << >>
  OBVIOUS
<1>7. <<x, y>> # << >> /\ Head(<<x, y>>) = x /\ Tail(<<x, y>>) = <<y>>
  OBVIOUS
<1>8. Append(<< >>, x) = <<x>>
  OBVIOUS
<1> QED
  BY <1>5, <1>6, <1>7, <1>8

LEMMA KillEffect ==
  ASSUME Typed, Processes, NEW p, Kill(p)
  PROVE  \/ proc' = proc /\ fate' = fate
         \/ /\ p \in Pid /\ p = srv_child /\ proc[p] \in Alive
            /\ exec_of[p] \in Run
            /\ proc' = [proc EXCEPT ![p] = "killed"]
            /\ fate' = [fate EXCEPT ![exec_of[p]] = IF @ = "none" THEN "killed" ELSE @]
<1>1. CASE ~(p \in Pid /\ proc[p] \in Alive)
  BY <1>1 DEF Kill
<1>2. CASE p \in Pid /\ proc[p] \in Alive
  <2>1. p = srv_child /\ Forked(p)
    BY <1>2 DEF Processes, Alive, Forked
  <2>2. exec_of[p] \in {0} \cup Run /\ p <= exec_of[p]
    BY <1>2, <2>1 DEF Typed, Processes
  <2>3. exec_of[p] \in Run
    BY <1>2, <2>2, ConstantsAssumption DEF Pid, Run
  <2> QED
    BY <1>2, <2>1, <2>3 DEF Kill
<1> QED
  BY <1>1, <1>2

LEMMA InitIInv == Init => IInv
<1> SUFFICES ASSUME Init PROVE IInv
  OBVIOUS
<1>1. Typed
  <2>1. run \in 0 .. MaxRuns /\ stop_soon \in 0 .. 2
    BY ConstantsAssumption DEF Init
  <2>2. proc \in [Pid -> ProcState]
    BY DEF Init, ProcState
  <2>3. fate \in [Run -> Fate]
    BY DEF Init, Fate
  <2>4. exec_of \in [Pid -> {0} \cup Run]
    BY DEF Init
  <2>5. /\ timer \in BOOLEAN /\ child_timed_out \in BOOLEAN
        /\ prev_timed_out \in BOOLEAN /\ child_stopped \in BOOLEAN
        /\ srv_child \in {0} \cup Pid
    BY DEF Init
  <2> QED
    BY <2>1, <2>2, <2>3, <2>4, <2>5 DEF Typed
<1>2. Processes
  BY <1>1 DEF Init, Processes, Alive, Forked, Pid
<1>3. Live /\ Exchange
  BY <1>1 DEF Init, Live, Exchange, Conversation, Booting, NoneAlive, Alive, Timer, Verdicts
<1> QED
  BY <1>1, <1>2, <1>3 DEF IInv

-----------------------------------------------------------------------------
(* Types and processes, step by step.                                      *)

(* The steps that leave the processes and their fates alone.               *)
Calm ==
  \/ ReadHello \/ DisarmHello \/ WriteRequest \/ ReadPid \/ ArmTimer \/ ReadStatus
  \/ Forget \/ DisarmTimer \/ Judge \/ WaitServer \/ DecideToStop
  \/ SayHello \/ ReadRequest \/ TellPid \/ Report \/ ServerFails
  \/ (\E p \in Pid : WriteTrace(p)) \/ UNCHANGED vars

LEMMA CalmUnchanged ==
  Calm => UNCHANGED <<run, srv_child, child_stopped, proc, exec_of, fate>>
BY DEF Calm, ReadHello, DisarmHello, WriteRequest, ReadPid, ArmTimer, ReadStatus,
   Forget, DisarmTimer, Judge, WaitServer, DecideToStop, SayHello, ReadRequest, TellPid,
   Report, ServerFails, WriteTrace, ServerLost, vars, fuzzerVars, pipes, serverVars,
   targetVars

LEMMA CalmTyped ==
  ASSUME Typed, Calm
  PROVE  /\ stop_soon' \in 0 .. 2 /\ timer' \in BOOLEAN
         /\ child_timed_out' \in BOOLEAN /\ prev_timed_out' \in BOOLEAN
<1>1. CASE DisarmHello \/ ArmTimer \/ DisarmTimer
  BY <1>1 DEF Typed, DisarmHello, ArmTimer, DisarmTimer
<1>2. CASE Judge
  BY <1>2 DEF Typed, Judge, Announced
<1>3. CASE DecideToStop
  BY <1>3 DEF Typed, DecideToStop
<1>4. ASSUME UNCHANGED <<stop_soon, timer, child_timed_out, prev_timed_out>>
      PROVE  /\ stop_soon' \in 0 .. 2 /\ timer' \in BOOLEAN
             /\ child_timed_out' \in BOOLEAN /\ prev_timed_out' \in BOOLEAN
  BY <1>4 DEF Typed
<1>5. CASE \/ ReadHello \/ WriteRequest \/ ReadPid \/ ReadStatus \/ Forget \/ WaitServer
  BY <1>4, <1>5 DEF ReadHello, WriteRequest, ReadPid, ReadStatus, Forget, WaitServer
<1>6. CASE \/ SayHello \/ ReadRequest \/ TellPid \/ Report \/ ServerFails
           \/ (\E p \in Pid : WriteTrace(p)) \/ UNCHANGED vars
  BY <1>4, <1>6 DEF SayHello, ReadRequest, TellPid, Report, ServerFails, WriteTrace, vars,
     fuzzerVars
<1> QED
  BY <1>1, <1>2, <1>3, <1>5, <1>6 DEF Calm

LEMMA CalmStep ==
  ASSUME Typed, Processes, Calm
  PROVE  Typed' /\ Processes'
<1>1. UNCHANGED <<run, srv_child, child_stopped, proc, exec_of, fate>>
  BY CalmUnchanged
<1>2. Typed'
  BY <1>1, CalmTyped DEF Typed
<1>3. Processes'
  BY <1>1 DEF Processes, Forked
<1> QED
  BY <1>2, <1>3

LEMMA AskStep ==
  ASSUME Typed, Processes, Ask
  PROVE  Typed' /\ Processes'
<1>1. /\ run \in 0 .. MaxRuns /\ run < MaxRuns /\ run' = run + 1
      /\ UNCHANGED <<srv_child, child_stopped, stop_soon, timer, prev_timed_out,
                     proc, exec_of, fate>>
      /\ child_timed_out' = FALSE
  BY DEF Ask, Typed, serverVars
<1>2. run' \in 0 .. MaxRuns
  BY <1>1, ConstantsAssumption
<1>3. Typed'
  BY <1>1, <1>2 DEF Typed
<1>4. Processes'
  BY <1>1, ConstantsAssumption DEF Processes, Forked, Typed, Pid, Run
<1> QED
  BY <1>3, <1>4

(* A kill, whoever sends it.                                               *)
LEMMA KillStep ==
  ASSUME Typed, Processes, NEW p, Kill(p),
         UNCHANGED <<run, srv_child, child_stopped, prev_timed_out, exec_of>>,
         stop_soon' \in 0 .. 2, timer' \in BOOLEAN, child_timed_out' \in BOOLEAN
  PROVE  Typed' /\ Processes'
<1>1. CASE proc' = proc /\ fate' = fate
  BY <1>1 DEF Typed, Processes, Forked
<1>2. CASE /\ p \in Pid /\ p = srv_child /\ proc[p] \in Alive /\ exec_of[p] \in Run
           /\ proc' = [proc EXCEPT ![p] = "killed"]
           /\ fate' = [fate EXCEPT ![exec_of[p]] = IF @ = "none" THEN "killed" ELSE @]
  <2>1. /\ proc' \in [Pid -> ProcState] /\ fate' \in [Run -> Fate]
        /\ proc'[p] = "killed" /\ \A q \in Pid \ {p} : proc'[q] = proc[q]
        /\ \A r \in Run \ {exec_of[p]} : fate'[r] = fate[r]
    BY <1>2 DEF Typed, ProcState, Fate
  <2>2. Typed'
    BY <2>1 DEF Typed
  <2>3. Forked(p) /\ exec_of[p] <= run
    BY <1>2 DEF Processes, Forked, Alive
  <2>4. \A q \in Pid : Forked(q)' <=> Forked(q)
    BY <2>1, <2>3 DEF Forked
  <2>5. \A q \in Pid : proc'[q] \in Alive => q = srv_child /\ q # p
    BY <2>1 DEF Processes, Alive
  <2>6. \A r \in Run : r > run => fate'[r] = "none"
    <3>1. \A r \in Run : r > run => r # exec_of[p]
      BY <1>2, <2>3 DEF Typed, Run
    <3> QED
      BY <2>1, <3>1 DEF Processes
  <2>7. Processes'
    BY <1>2, <2>4, <2>5, <2>6 DEF Processes, Alive
  <2> QED
    BY <2>2, <2>7
<1> QED
  BY <1>1, <1>2, KillEffect

LEMMA HandlerSteps ==
  ASSUME Typed, Processes, LeaveLoop \/ HandleTimeout \/ HandleStop
  PROVE  Typed' /\ Processes'
<1>1. CASE LeaveLoop
  <2>1. UNCHANGED <<run, srv_child, child_stopped, prev_timed_out, exec_of, stop_soon,
                    timer, child_timed_out>>
    BY <1>1 DEF LeaveLoop
  <2>2. CASE Kill(child_pid)
    BY <2>1, <2>2, KillStep DEF Typed
  <2>3. CASE UNCHANGED <<proc, fate>>
    BY <2>1, <2>3 DEF Typed, Processes, Forked
  <2> QED
    BY <1>1, <2>2, <2>3 DEF LeaveLoop
<1>2. CASE HandleTimeout
  <2>1. /\ UNCHANGED <<run, srv_child, child_stopped, prev_timed_out, exec_of, stop_soon>>
        /\ timer' = FALSE /\ (child_timed_out' = TRUE \/ child_timed_out' = child_timed_out)
    BY <1>2 DEF HandleTimeout
  <2>2. child_timed_out' \in BOOLEAN /\ timer' \in BOOLEAN /\ stop_soon' \in 0 .. 2
    BY <2>1 DEF Typed
  <2>3. CASE Kill(child_pid)
    BY <2>1, <2>2, <2>3, KillStep
  <2>4. CASE UNCHANGED <<proc, fate>>
    BY <2>1, <2>2, <2>4 DEF Typed, Processes, Forked
  <2> QED
    BY <1>2, <2>3, <2>4 DEF HandleTimeout
<1>3. CASE HandleStop
  <2>1. /\ UNCHANGED <<run, srv_child, child_stopped, prev_timed_out, exec_of, timer,
                       child_timed_out>>
        /\ stop_soon' = 1 /\ Kill(child_pid)
    BY <1>3 DEF HandleStop
  <2> QED
    BY <2>1, KillStep DEF Typed
<1> QED
  BY <1>1, <1>2, <1>3

(* A target's own step, taken whenever its process is at work.             *)
LEMMA AtWork ==
  ASSUME Typed, Processes, NEW p \in Pid, proc[p] \in Alive
  PROVE  p = srv_child /\ Forked(p) /\ exec_of[p] \in Run /\ p <= exec_of[p] /\ exec_of[p] <= run
<1>1. p = srv_child /\ Forked(p)
  BY DEF Processes, Alive, Forked
<1>2. exec_of[p] \in {0} \cup Run /\ p <= exec_of[p] /\ exec_of[p] <= run
  BY <1>1 DEF Typed, Processes
<1>3. exec_of[p] \in Run
  BY <1>2, ConstantsAssumption DEF Pid, Run
<1> QED
  BY <1>1, <1>2, <1>3

LEMMA TargetSteps ==
  ASSUME Typed, Processes, NEW p \in Pid, CloseFds(p) \/ EndRun(p)
  PROVE  Typed' /\ Processes'
<1>1. CASE CloseFds(p)
  <2>1. /\ proc[p] = "starting" /\ proc' = [proc EXCEPT ![p] = "running"]
        /\ UNCHANGED <<run, stop_soon, timer, child_timed_out, prev_timed_out, srv_child,
                       child_stopped, exec_of, fate>>
    BY <1>1 DEF CloseFds, fuzzerVars, serverVars
  <2>2. /\ proc' \in [Pid -> ProcState] /\ proc'[p] = "running"
        /\ \A q \in Pid \ {p} : proc'[q] = proc[q]
    BY <2>1 DEF Typed, ProcState
  <2>3. Typed'
    BY <2>1, <2>2 DEF Typed
  <2>4. Processes'
    BY <2>1, <2>2, AtWork DEF Processes, Forked, Alive
  <2> QED
    BY <2>3, <2>4
<1>2. CASE EndRun(p)
  <2>1. PICK how \in {"exited", "crashed", "stopped"} :
          /\ proc' = [proc EXCEPT ![p] = how]
          /\ fate' = [fate EXCEPT ![exec_of[p]] = CASE how = "crashed" -> "crashed"
                                                    [] how = "exited"  -> "passed"
                                                    [] OTHER           -> @]
    BY <1>2 DEF EndRun
  <2>2. /\ proc[p] = "running"
        /\ UNCHANGED <<run, stop_soon, timer, child_timed_out, prev_timed_out, srv_child,
                       child_stopped, exec_of>>
    BY <1>2 DEF EndRun, fuzzerVars, serverVars
  <2>3. p = srv_child /\ Forked(p) /\ exec_of[p] \in Run /\ exec_of[p] <= run
    BY <2>2, AtWork DEF Alive
  <2>4. /\ proc' \in [Pid -> ProcState] /\ proc'[p] = how
        /\ \A q \in Pid \ {p} : proc'[q] = proc[q]
    BY <2>1 DEF Typed, ProcState
  <2>5. /\ fate' \in [Run -> Fate] /\ \A r \in Run \ {exec_of[p]} : fate'[r] = fate[r]
    <3> DEFINE new == CASE how = "crashed" -> "crashed"
                        [] how = "exited"  -> "passed"
                        [] OTHER           -> fate[exec_of[p]]
    <3>1. new \in Fate
      BY <2>3 DEF Typed, Fate
    <3>2. fate' = [fate EXCEPT ![exec_of[p]] = new]
      BY <2>1, <2>3 DEF Typed
    <3> HIDE DEF new
    <3> QED
      BY <3>1, <3>2, <2>3 DEF Typed
  <2>6. Typed'
    BY <2>2, <2>4, <2>5 DEF Typed
  <2>7. \A q \in Pid : Forked(q)' <=> Forked(q)
    BY <2>3, <2>4 DEF Forked
  <2>8. \A q \in Pid : proc'[q] \in Alive => q = srv_child
    BY <2>3, <2>4 DEF Processes, Alive
  <2>9. \A q \in Pid : proc'[q] \notin {"starting", "running"}
    BY <2>3, <2>4 DEF Processes, Alive
  <2>10. \A r \in Run : r > run => fate'[r] = "none"
    <3>1. \A r \in Run : r > run => r # exec_of[p]
      BY <2>3 DEF Typed, Run
    <3> QED
      BY <2>5, <3>1 DEF Processes
  <2>11. Processes'
    BY <2>2, <2>7, <2>8, <2>9, <2>10 DEF Processes
  <2> QED
    BY <2>6, <2>11
<1> QED
  BY <1>1, <1>2

(* What the server knows when it acts.                                     *)
LEMMA ServerAlive ==
  ASSUME IInv, spc # "dead"
  PROVE  /\ Live /\ Exchange /\ FuzzerAlive
         /\ spc \in {"writeoff", "start"} => Taken
         /\ spc = "tell" => Started
         /\ spc = "wait" => Waiting
         /\ spc = "report" => Noticed
<1>1. Live /\ Exchange
  BY DEF IInv, Aftermath
<1>2. FuzzerAlive
  BY <1>1 DEF Live, FuzzerAlive
<1>3. /\ spc \in {"writeoff", "start"} => Taken
      /\ spc = "tell" => Started
      /\ spc = "wait" => Waiting
      /\ spc = "report" => Noticed
  BY <1>1 DEF Exchange, Conversation, Booting, Greeted, Resting, Asked, Taken, Started,
     Waiting, Noticed, Reported, Finishing
<1> QED
  BY <1>1, <1>2, <1>3

(* The processes forked so far are the first ones, so the next PID is free *)
(* and not above the current run.                                          *)
LEMMA NextPid ==
  ASSUME Typed, Processes, NotStarted,
         NEW n, n = Cardinality({q \in Pid : proc[q] # "none"}) + 1
  PROVE  n \in Pid /\ n <= run /\ ~Forked(n) /\ \A q \in Pid : q < n <=> Forked(q)
<1> DEFINE F == {q \in Pid : proc[q] # "none"}
           c == Cardinality(F)
<1>1. IsFiniteSet(F) /\ c \in Nat
  <2>1. IsFiniteSet(Pid)
    BY ConstantsAssumption, FS_Interval DEF Pid
  <2> QED
    BY <2>1, FS_Subset, FS_CardinalityType
<1>2. ASSUME NEW x \in F PROVE x <= c
  <2>1. x \in Nat /\ x >= 1 /\ 1 .. x \subseteq F
    BY <1>2, ConstantsAssumption DEF Processes, Forked, Pid
  <2>2. IsFiniteSet(1 .. x) /\ Cardinality(1 .. x) = x
    BY <2>1, FS_Interval
  <2> QED
    BY <1>1, <2>1, <2>2, FS_Subset
<1>3. F = 1 .. c
  <2>1. F \subseteq 1 .. c
    BY <1>1, <1>2, ConstantsAssumption DEF Pid
  <2>2. IsFiniteSet(1 .. c) /\ Cardinality(1 .. c) = c
    BY <1>1, FS_Interval
  <2> QED
    BY <1>1, <2>1, <2>2, FS_Subset
<1>4. run \in 1 .. MaxRuns
  BY ConstantsAssumption DEF Typed, NotStarted
<1>5. c < run
  <2>1. CASE c = 0
    BY <1>4, <2>1
  <2>2. CASE c # 0
    <3> HIDE DEF F, c
    <3>1. c \in F
      BY <1>1, <1>3, <2>2
    <3>2. c \in Pid /\ c <= exec_of[c] /\ exec_of[c] < run /\ exec_of[c] \in {0} \cup Run
      BY <3>1 DEF Processes, Forked, NotStarted, Typed, F
    <3> QED
      BY <1>1, <1>4, <3>2, ConstantsAssumption DEF Run
  <2> QED
    BY <2>1, <2>2
<1>6. n \in Pid /\ n <= run
  BY <1>1, <1>4, <1>5, ConstantsAssumption DEF Pid
<1>7. \A q \in Pid : Forked(q) <=> q \in 1 .. c
  BY <1>3 DEF Forked
<1> HIDE DEF F, c
<1>8. n = c + 1
  BY DEF F, c
<1> QED
  BY <1>1, <1>6, <1>7, <1>8, ConstantsAssumption DEF Pid

LEMMA ServerSteps ==
  ASSUME IInv, WriteOff \/ ForkChild \/ ContinueChild \/ WaitChild
  PROVE  Typed' /\ Processes'
<1> USE DEF IInv
<1>a. Typed /\ Processes /\ spc # "dead"
  BY DEF WriteOff, ForkChild, ContinueChild, WaitChild
<1>b. UNCHANGED <<run, stop_soon, timer, child_timed_out, prev_timed_out>>
  BY DEF WriteOff, ForkChild, ContinueChild, WaitChild, fuzzerVars
<1>1. CASE WriteOff
  <2>1. srv_child \in Pid
    BY <1>a, <1>1, ServerAlive DEF WriteOff, Taken, Parked
  <2>2. /\ proc' \in [Pid -> ProcState] /\ proc'[srv_child] = "reaped"
        /\ \A q \in Pid \ {srv_child} : proc'[q] = proc[q]
        /\ proc[srv_child] \in Ended
        /\ child_stopped' = FALSE /\ UNCHANGED <<srv_child, exec_of, fate>>
    BY <1>a, <1>1, <2>1 DEF WriteOff, Typed, ProcState
  <2>3. Typed'
    BY <1>a, <1>b, <2>1, <2>2 DEF Typed
  <2>4. Processes'
    BY <1>a, <1>b, <2>1, <2>2 DEF Processes, Forked, Alive, Ended
  <2> QED
    BY <2>3, <2>4
<1>2. CASE ForkChild
  <2>1. NotStarted /\ served = run
    BY <1>a, <1>2, ServerAlive DEF ForkChild, Taken
  <2>3. PICK p \in Pid :
          /\ p = Cardinality({q \in Pid : proc[q] # "none"}) + 1
          /\ p <= run /\ ~Forked(p) /\ \A q \in Pid : q < p <=> Forked(q)
    BY <1>a, <2>1, NextPid
  <2>2. /\ ~child_stopped /\ srv_child' = p
        /\ proc' = [proc EXCEPT ![p] = "starting"]
        /\ exec_of' = [exec_of EXCEPT ![p] = served]
        /\ UNCHANGED <<child_stopped, fate>>
    BY <1>2, <2>3 DEF ForkChild, MustFork
  <2>4. NoneAlive
    BY <1>a, <1>2, <2>2, ServerAlive DEF ForkChild, Taken, Parked, NoneAlive
  <2>5. run \in Run
    BY <1>a, <2>1 DEF Typed, NotStarted, Run
  <2>6. /\ proc' \in [Pid -> ProcState] /\ proc'[p] = "starting"
        /\ \A q \in Pid \ {p} : proc'[q] = proc[q]
        /\ exec_of' \in [Pid -> {0} \cup Run] /\ exec_of'[p] = run
        /\ \A q \in Pid \ {p} : exec_of'[q] = exec_of[q]
    BY <1>a, <2>1, <2>2, <2>3, <2>5 DEF Typed, ProcState
  <2>7. Typed'
    BY <1>a, <1>b, <2>2, <2>3, <2>6 DEF Typed
  <2>8. /\ Forked(p)' /\ \A q \in Pid \ {p} : Forked(q)' <=> Forked(q)
    BY <2>3, <2>6 DEF Forked
  <2>9. \A q, r \in Pid : r < q /\ Forked(q)' => Forked(r)'
    BY <2>3, <2>8, ConstantsAssumption DEF Pid
  <2>10. \A q \in Pid : proc'[q] \in Alive => q = p
    BY <2>4, <2>6 DEF NoneAlive
  <2>11. \A q \in Pid : Forked(q)' => q <= exec_of'[q] /\ exec_of'[q] <= run
    BY <1>a, <2>3, <2>6, <2>8, <2>5 DEF Processes, Run
  <2>12. \A q \in Pid : proc'[q] \in {"starting", "running"} => fate'[exec_of'[q]] = "none"
    BY <2>1, <2>2, <2>6, <2>10 DEF NotStarted, Alive
  <2>13. \A q \in Pid : ~Forked(q)' => exec_of'[q] = 0
    BY <1>a, <2>6, <2>8 DEF Processes
  <2>14. Processes'
    BY <1>a, <1>b, <2>2, <2>9, <2>10, <2>11, <2>12, <2>13 DEF Processes
  <2> QED
    BY <2>7, <2>14
<1>3. CASE ContinueChild
  <2>1. /\ NotStarted /\ served = run /\ Parked(FALSE) /\ child_stopped
        /\ srv_child \in Pid /\ proc[srv_child] = "stopped"
    BY <1>a, <1>3, ServerAlive DEF ContinueChild, MustFork, Taken, Parked
  <2>2. /\ proc' \in [Pid -> ProcState] /\ proc'[srv_child] = "running"
        /\ \A q \in Pid \ {srv_child} : proc'[q] = proc[q]
        /\ UNCHANGED <<srv_child, fate>> /\ child_stopped' = FALSE
        /\ exec_of' = [exec_of EXCEPT ![srv_child] = run]
    BY <1>a, <1>3, <2>1 DEF ContinueChild, Typed, ProcState
  <2>3. run \in Run
    BY <1>a, <2>1 DEF Typed, NotStarted, Run
  <2>4. /\ exec_of' \in [Pid -> {0} \cup Run] /\ exec_of'[srv_child] = run
        /\ \A q \in Pid \ {srv_child} : exec_of'[q] = exec_of[q]
    BY <1>a, <2>1, <2>2, <2>3 DEF Typed
  <2>5. Typed'
    BY <1>a, <1>b, <2>2, <2>4 DEF Typed
  <2>6. \A q \in Pid : Forked(q)' <=> Forked(q)
    BY <2>1, <2>2 DEF Forked
  <2>7. srv_child <= run
    <3>1. srv_child <= exec_of[srv_child] /\ exec_of[srv_child] < run
          /\ exec_of[srv_child] \in {0} \cup Run
      BY <1>a, <2>1 DEF Processes, Forked, NotStarted, Typed
    <3> QED
      BY <2>1, <2>3, <3>1, ConstantsAssumption DEF Pid, Run
  <2>8. \A q \in Pid : Forked(q)' => q <= exec_of'[q] /\ exec_of'[q] <= run
    BY <1>a, <2>3, <2>4, <2>6, <2>7 DEF Processes, Run
  <2>9. \A q \in Pid : proc'[q] \in Alive => q = srv_child
    BY <1>a, <2>2 DEF Processes
  <2>10. \A q \in Pid : proc'[q] \in {"starting", "running"} => fate'[exec_of'[q]] = "none"
    BY <2>1, <2>2, <2>4, <2>9 DEF NotStarted, Alive
  <2>11. \A q \in Pid : ~Forked(q)' => exec_of'[q] = 0
    BY <1>a, <2>1, <2>4, <2>6 DEF Processes, Forked
  <2>12. Processes'
    BY <1>a, <1>b, <2>2, <2>6, <2>8, <2>9, <2>10, <2>11 DEF Processes
  <2> QED
    BY <2>5, <2>12
<1>4. CASE WaitChild
  <2>1. AtRun /\ Waited(srv_child)
    BY <1>a, <1>4, ServerAlive DEF WaitChild, Waiting
  <2>2. srv_child \in Pid /\ exec_of[srv_child] = run /\ run \in Run
    BY <1>a, <2>1 DEF AtRun, Typed, Run
  <2>3. /\ UNCHANGED <<srv_child, exec_of>>
        /\ child_stopped' = (proc[srv_child] = "stopped")
        /\ proc' = [proc EXCEPT ![srv_child] = IF @ \in Ended THEN "reaped" ELSE @]
        /\ fate' = IF proc[srv_child] = "stopped" THEN [fate EXCEPT ![run] = "passed"] ELSE fate
    BY <1>4, <2>2 DEF WaitChild
  <2>4. /\ proc' \in [Pid -> ProcState]
        /\ proc'[srv_child] \in {"reaped", "stopped"}
        /\ \A q \in Pid \ {srv_child} : proc'[q] = proc[q]
    BY <1>a, <2>1, <2>2, <2>3 DEF Typed, ProcState, Waited, Ended
  <2>5. fate' \in [Run -> Fate] /\ \A r \in Run \ {run} : fate'[r] = fate[r]
    BY <1>a, <2>2, <2>3 DEF Typed, Fate
  <2>6. Typed'
    BY <1>a, <1>b, <2>3, <2>4, <2>5 DEF Typed
  <2>7. \A q \in Pid : Forked(q)' <=> Forked(q)
    BY <2>1, <2>2, <2>4 DEF Forked, Waited, Ended
  <2>8. \A q \in Pid : proc'[q] \in Alive => q = srv_child
    BY <1>a, <2>4 DEF Processes
  <2>9. \A q \in Pid : proc'[q] \notin {"starting", "running"}
    BY <2>4, <2>8 DEF Alive
  <2>10. \A r \in Run : r > run => fate'[r] = "none"
    BY <1>a, <2>2, <2>5 DEF Processes, Run
  <2>11. Processes'
    BY <1>a, <1>b, <2>3, <2>7, <2>8, <2>9, <2>10 DEF Processes
  <2> QED
    BY <2>6, <2>11
<1> QED
  BY <1>1, <1>2, <1>3, <1>4

(* Every step keeps the types and what is known of the processes.          *)
LEMMA ProcessesStep ==
  ASSUME IInv, [Next]_vars
  PROVE  Typed' /\ Processes'
<1>1. \/ Calm \/ Ask \/ LeaveLoop \/ HandleTimeout \/ HandleStop
      \/ (\E p \in Pid : CloseFds(p) \/ EndRun(p))
      \/ WriteOff \/ ForkChild \/ ContinueChild \/ WaitChild
  BY DEF Next, Fuzzer, Server, Start, Target, Finished, Calm
<1> QED
  BY <1>1, CalmStep, AskStep, HandlerSteps, TargetSteps, ServerSteps DEF IInv

-----------------------------------------------------------------------------
(* The conversation, step by step.                                         *)

(* Where the conversation is, by where the fuzzer is.                      *)
LEMMA FuzzerKnows ==
  ASSUME Exchange
  PROVE  /\ fpc = "init" => ctl = << >> /\ (Booting \/ Greeted)
         /\ fpc \in {"hello", "idle", "ask"} => ctl = << >> /\ Resting
         /\ fpc = "pid" => \/ Asked /\ ctl = <<[was_killed |-> prev_timed_out, run |-> run]>>
                           \/ ctl = << >> /\ \/ Taken \/ Started \/ Waiting
                                             \/ Noticed \/ Reported
         /\ fpc \in {"arm", "wait"} => ctl = << >> /\ (Waiting \/ Noticed \/ Reported)
         /\ fpc \in {"reap", "disarm", "judge"} => ctl = << >> /\ Finishing
BY DEF Exchange, Conversation, Booting, Greeted, Resting, Asked, Taken, Started, Waiting,
   Noticed, Reported, Finishing, Told

(* A server whose fuzzer finds the pipe broken is dead and has no child.   *)
LEMMA BrokenPipe ==
  ASSUME Exchange, ~FarEndOpen, fpc \in {"init", "ask", "pid"}
  PROVE  ctl = << >> /\ spc = "dead" /\ NoneAlive /\ st \in {<< >>, <<"hello">>}
<1>1. spc = "dead"
  BY DEF FarEndOpen
<1> QED
  BY <1>1, FuzzerKnows DEF Booting, Greeted, Resting, Asked, Taken, Started, Waiting,
     Noticed, Reported

LEMMA GreetingSteps ==
  ASSUME IInv, Live, ReadHello \/ DisarmHello
  PROVE  IF Live' THEN Exchange' ELSE Aftermath'
<1>a. Typed /\ Exchange
  BY DEF IInv
<1>1. CASE ReadHello
  <2>1. /\ fpc = "init" /\ ctl = << >> /\ (Booting \/ Greeted)
        /\ UNCHANGED <<timer, child_pid, verdict, stop_soon, prev_timed_out, run, ctl, spc, proc,
                       srv_child, child_stopped, fate, exec_of, trace_bits>>
    BY <1>1, <1>a, FuzzerKnows DEF ReadHello, serverVars, targetVars
  <2>2. CASE Booting
    <3>1. fpc' = "fatal" /\ ~FarEndOpen
      BY <1>1, <2>2 DEF ReadHello, Booting
    <3> QED
      BY <2>1, <2>2, <3>1 DEF Live, Aftermath, Booting, FarEndOpen, NoneAlive
  <2>3. CASE Greeted
    <3>1. fpc' = "hello" /\ st' = << >>
      BY <1>1, <2>3, Pipes DEF ReadHello, Greeted
    <3>2. Resting' /\ ctl' = << >>
      BY <2>1, <2>3, <3>1 DEF Greeted, Resting, Parked, NoneAlive
    <3>3. Timer' /\ Verdicts'
      BY <1>a, <2>1, <3>1 DEF Exchange, Timer, Verdicts
    <3>4. Live' /\ trace_bits' \subseteq {run'}
      BY <1>a, <2>1, <3>1 DEF Live, Exchange
    <3> QED
      BY <3>2, <3>3, <3>4 DEF Exchange, Conversation
  <2> QED
    BY <2>1, <2>2, <2>3
<1>2. CASE DisarmHello
  <2>1. /\ fpc = "hello" /\ fpc' = "idle" /\ timer' = FALSE
        /\ UNCHANGED <<child_pid, verdict, stop_soon, prev_timed_out, run, ctl, st, spc, proc,
                       srv_child, child_stopped, fate, exec_of, trace_bits>>
    BY <1>2 DEF DisarmHello, pipes, serverVars, targetVars
  <2>2. Resting' /\ ctl' = << >>
    BY <1>a, <2>1, FuzzerKnows DEF Resting, Parked, NoneAlive
  <2>3. Timer' /\ Verdicts'
    BY <1>a, <2>1 DEF Exchange, Timer, Verdicts
  <2>4. Live' /\ trace_bits' \subseteq {run'}
    BY <1>a, <2>1 DEF Live, Exchange
  <2> QED
    BY <2>2, <2>3, <2>4 DEF Exchange, Conversation
<1> QED
  BY <1>1, <1>2

(* What is left of the exchange when the pipe turns out to be broken.      *)
LEMMA LostStep ==
  ASSUME IInv, Live, fpc \in {"ask", "pid"}, st = << >>, ~FarEndOpen, ServerLost,
         UNCHANGED <<child_pid, child_timed_out, prev_timed_out, stop_soon, timer, run, ctl,
                     st, serverVars, targetVars>>
  PROVE  IF Live' THEN Exchange' ELSE Aftermath'
<1>1. Exchange /\ ctl = << >> /\ spc = "dead" /\ NoneAlive
  BY BrokenPipe DEF IInv
<1>2. UNCHANGED <<spc, proc, trace_bits>>
  BY DEF serverVars, targetVars
<1>3. CASE stop_soon # 0
  <2>1. fpc' = "idle" /\ stop_soon' # 0 /\ ~timer
    BY <1>1, <1>3 DEF ServerLost, Exchange, Timer
  <2>2. Resting' /\ ctl' = << >>
    BY <1>1, <1>2, <2>1 DEF Resting, NoneAlive
  <2>3. Live' /\ Timer' /\ Verdicts' /\ trace_bits' \subseteq {run'}
    BY <1>1, <1>2, <2>1 DEF Live, Timer, Verdicts, Exchange
  <2> QED
    BY <2>2, <2>3 DEF Exchange, Conversation
<1>4. CASE stop_soon = 0
  <2>1. fpc' = "fatal"
    BY <1>4 DEF ServerLost
  <2> QED
    BY <1>1, <1>2, <2>1 DEF Live, Aftermath, NoneAlive
<1> QED
  BY <1>3, <1>4

LEMMA AskingSteps ==
  ASSUME IInv, Live, Ask \/ WriteRequest \/ ReadPid
  PROVE  IF Live' THEN Exchange' ELSE Aftermath'
<1>a. Typed /\ Processes /\ Exchange
  BY DEF IInv
<1>1. CASE Ask
  <2>1. /\ fpc = "idle" /\ fpc' = "ask" /\ run < MaxRuns /\ run' = run + 1
        /\ verdict' = "none" /\ trace_bits' = {}
        /\ UNCHANGED <<child_pid, stop_soon, prev_timed_out, timer, ctl, st, spc, proc,
                       srv_child, child_stopped, fate, exec_of>>
    BY <1>1 DEF Ask, pipes, serverVars, FreshTrace
  <2>2. run \in Nat /\ run' \in Run /\ run' > run
    BY <1>a, <2>1, ConstantsAssumption DEF Typed, Run
  <2>3. fate'[run'] = "none"
    BY <1>a, <2>1, <2>2 DEF Processes
  <2>4. \A p \in Pid : exec_of[p] < run'
    BY <1>a, <2>1, <2>2, ConstantsAssumption DEF Processes, Typed, Run
  <2>5. NotStarted'
    BY <2>1, <2>2, <2>3, <2>4 DEF NotStarted
  <2>6. Resting' /\ ctl' = << >>
    BY <1>a, <2>1, <2>5, FuzzerKnows DEF Resting, Parked, NoneAlive
  <2>7. Timer' /\ Verdicts'
    BY <1>a, <2>1 DEF Exchange, Timer, Verdicts
  <2>8. Live' /\ trace_bits' \subseteq {run'}
    BY <2>1 DEF Live
  <2> QED
    BY <2>6, <2>7, <2>8 DEF Exchange, Conversation
<1>2. CASE WriteRequest
  <2>1. /\ fpc = "ask" /\ ctl = << >> /\ Resting
        /\ UNCHANGED <<child_pid, stop_soon, prev_timed_out, timer, run, st, spc, proc,
                       srv_child, child_stopped, fate, exec_of, trace_bits>>
    BY <1>a, <1>2, FuzzerKnows DEF WriteRequest, serverVars, targetVars
  <2>2. CASE FarEndOpen
    <3>1. fpc' = "pid" /\ ctl' = <<[was_killed |-> prev_timed_out, run |-> run]>>
      BY <1>2, <2>1, <2>2, Pipes DEF WriteRequest
    <3>2. spc = "read"
      BY <2>1, <2>2 DEF Resting, FarEndOpen, NoneAlive, Alive
    <3>3. Asked'
      BY <2>1, <3>1, <3>2 DEF Resting, Asked, NotStarted, Parked
    <3>4. ctl' = <<[was_killed |-> prev_timed_out', run |-> run']>>
      BY <2>1, <3>1
    <3>5. Live' /\ Timer' /\ Verdicts' /\ trace_bits' \subseteq {run'}
      BY <1>a, <2>1, <3>1 DEF Live, Timer, Verdicts, Exchange
    <3> QED
      BY <3>3, <3>4, <3>5 DEF Exchange, Conversation
  <2>3. CASE ~FarEndOpen
    BY <1>2, <2>1, <2>3, LostStep DEF WriteRequest, Resting
  <2> QED
    BY <2>2, <2>3
<1>3. CASE ReadPid
  <2>1. /\ fpc = "pid"
        /\ UNCHANGED <<stop_soon, prev_timed_out, child_timed_out, timer, run, ctl, spc, proc,
                       srv_child, child_stopped, srv_status, served, fate, exec_of, trace_bits>>
    BY <1>3 DEF ReadPid, serverVars, targetVars
  <2>2. CASE st = << >>
    BY <1>3, <2>1, <2>2, LostStep DEF ReadPid
  <2>3. CASE st # << >>
    <3>1. ctl = << >> /\ (Waiting \/ Noticed \/ Reported)
      BY <1>a, <2>1, <2>3, FuzzerKnows DEF Asked, Taken, Started
    <3>2. fpc' = "arm" /\ child_pid' = Head(st) /\ st' = Tail(st)
      BY <1>3, <2>3 DEF ReadPid
    <3>3. /\ child_pid' = srv_child'
          /\ Waiting' \/ Noticed' \/ Reported'
      <4>1. CASE Waiting
        <5>1. st = <<srv_child>>
          BY <2>1, <4>1 DEF Waiting, Told
        <5>2. child_pid' = srv_child /\ st' = << >>
          BY <3>2, <5>1, Pipes
        <5> QED
          BY <2>1, <3>2, <4>1, <5>2 DEF Waiting, AtRun, Told
      <4>2. CASE Noticed
        <5>1. st = <<srv_child>>
          BY <2>1, <4>2 DEF Noticed, Told
        <5>2. child_pid' = srv_child /\ st' = << >>
          BY <3>2, <5>1, Pipes
        <5> QED
          BY <2>1, <3>2, <4>2, <5>2 DEF Noticed, SeenEnd, Parked, Told
      <4>3. CASE Reported
        <5>1. st = <<srv_child, srv_status>>
          BY <2>1, <4>3 DEF Reported, Told
        <5>2. child_pid' = srv_child /\ st' = <<srv_status>>
          BY <3>2, <5>1, Pipes
        <5> QED
          BY <2>1, <3>2, <4>3, <5>2 DEF Reported, SeenEnd, Parked, Told
      <4> QED
        BY <3>1, <4>1, <4>2, <4>3
    <3>4. Live' /\ Timer' /\ Verdicts' /\ trace_bits' \subseteq {run'} /\ ctl' = << >>
      BY <1>a, <2>1, <3>1, <3>2, <3>3 DEF Live, Timer, Verdicts, Exchange
    <3> QED
      BY <3>3, <3>4 DEF Exchange, Conversation
  <2> QED
    BY <2>2, <2>3
<1> QED
  BY <1>1, <1>2, <1>3

LEMMA WaitingSteps ==
  ASSUME IInv, Live, ArmTimer \/ ReadStatus
  PROVE  IF Live' THEN Exchange' ELSE Aftermath'
<1>a. Typed /\ Processes /\ Exchange
  BY DEF IInv
<1>b. /\ fpc \in {"arm", "wait"} /\ ctl = << >> /\ (Waiting \/ Noticed \/ Reported)
      /\ UNCHANGED <<stop_soon, prev_timed_out, child_timed_out, child_pid, run, ctl, spc, proc,
                     srv_child, child_stopped, srv_status, served, fate, exec_of, trace_bits>>
  BY <1>a, FuzzerKnows DEF ArmTimer, ReadStatus, pipes, serverVars, targetVars
<1>1. CASE ArmTimer
  <2>1. fpc = "arm" /\ fpc' = "wait" /\ UNCHANGED <<st, verdict>>
    BY <1>1 DEF ArmTimer, pipes
  <2>2. Waiting' \/ Noticed' \/ Reported'
    BY <1>b, <2>1 DEF Waiting, Noticed, Reported, AtRun, SeenEnd, Parked, Told
  <2>3. Live' /\ Timer' /\ Verdicts' /\ trace_bits' \subseteq {run'} /\ ctl' = << >>
    BY <1>a, <1>b, <2>1 DEF Live, Timer, Verdicts, Exchange
  <2> QED
    BY <2>2, <2>3 DEF Exchange, Conversation
<1>2. CASE ReadStatus
  <2>1. fpc = "wait" /\ Reported
    <3>1. st # << >>
      BY <1>b, <1>2 DEF ReadStatus, FarEndOpen, Waiting, Noticed, Reported
    <3> QED
      BY <1>b, <1>2, <3>1 DEF ReadStatus, Waiting, Noticed, Told
  <2>2. st = <<srv_status>>
    BY <2>1 DEF Reported, Told
  <2>3. fpc' = "reap" /\ status' = srv_status /\ st' = << >> /\ UNCHANGED <<timer, verdict>>
    BY <1>2, <2>2, Pipes DEF ReadStatus
  <2>4. Finishing'
    BY <1>b, <2>1, <2>3 DEF Finishing, Reported, SeenEnd, Parked
  <2>5. Live' /\ Timer' /\ Verdicts' /\ trace_bits' \subseteq {run'} /\ ctl' = << >>
    BY <1>a, <1>b, <2>1, <2>3 DEF Live, Timer, Verdicts, Exchange
  <2> QED
    BY <2>4, <2>5 DEF Exchange, Conversation
<1> QED
  BY <1>1, <1>2

LEMMA FinishingSteps ==
  ASSUME IInv, Live, Forget \/ DisarmTimer \/ Judge
  PROVE  IF Live' THEN Exchange' ELSE Aftermath'
<1>a. Typed /\ Processes /\ Exchange
  BY DEF IInv
<1>b. /\ fpc \in {"reap", "disarm", "judge"} /\ ctl = << >> /\ Finishing
      /\ UNCHANGED <<stop_soon, child_timed_out, run, ctl, st, status, spc, proc, srv_child,
                     child_stopped, srv_status, fate, exec_of, trace_bits>>
  BY <1>a, FuzzerKnows DEF Forget, DisarmTimer, Judge, pipes, serverVars, targetVars
<1>c. trace_bits' \subseteq {run'} /\ ctl' = << >>
  BY <1>a, <1>b DEF Exchange
<1>1. CASE Forget \/ DisarmTimer
  <2>1. /\ \/ fpc = "reap" /\ fpc' = "disarm" /\ child_pid' \in {0, child_pid}
           \/ fpc = "disarm" /\ fpc' = "judge" /\ timer' = FALSE
      /\ UNCHANGED verdict
    BY <1>1 DEF Forget, DisarmTimer
  <2>2. Finishing'
    BY <1>b, <2>1 DEF Finishing, SeenEnd, Parked
  <2>3. Live' /\ Timer' /\ Verdicts'
    BY <1>a, <1>b, <2>1 DEF Live, Timer, Verdicts, Exchange
  <2> QED
    BY <1>c, <2>2, <2>3 DEF Exchange, Conversation
<1>2. CASE Judge
  <2>1. /\ fpc = "judge" /\ fpc' = "idle" /\ prev_timed_out' = child_timed_out
        /\ verdict' = Outcome /\ UNCHANGED <<timer, child_pid>>
    BY <1>2 DEF Judge, Announced
  <2>2. Resting'
    BY <1>b, <2>1 DEF Finishing, SeenEnd, Parked, Resting
  <2>3. Verdicts'
    <3>1. /\ run > 0
          /\ \/ status \in {"stopped", "exited"} /\ fate[run] = "passed"
             \/ status = "crashed" /\ fate[run] = "crashed"
             \/ status = "killed" /\ fate[run] = "killed" /\ child_timed_out
      BY <1>b DEF Finishing, SeenEnd, Ended
    <3> QED
      BY <1>b, <2>1, <3>1 DEF Verdicts, Outcome
  <2>4. Live' /\ Timer'
    BY <1>a, <1>b, <2>1 DEF Live, Timer, Exchange
  <2> QED
    BY <1>c, <2>2, <2>3, <2>4 DEF Exchange, Conversation
<1> QED
  BY <1>1, <1>2

LEMMA StoppingSteps ==
  ASSUME IInv, Live, DecideToStop \/ LeaveLoop \/ WaitServer \/ HandleStop
  PROVE  IF Live' THEN Exchange' ELSE Aftermath'
<1>a. Typed /\ Processes /\ Exchange
  BY DEF IInv
<1>1. CASE DecideToStop
  <2>1. /\ fpc = "idle" /\ stop_soon' = 2 /\ ctl = << >> /\ Resting
        /\ UNCHANGED <<fpc, child_pid, child_timed_out, prev_timed_out, timer, verdict, run, ctl,
                       st, spc, proc, srv_child, child_stopped, fate, exec_of, trace_bits>>
    BY <1>a, <1>1, FuzzerKnows DEF DecideToStop, pipes, serverVars, targetVars
  <2>2. Resting'
    BY <2>1 DEF Resting, Parked, NoneAlive
  <2>3. Live' /\ Timer' /\ Verdicts' /\ trace_bits' \subseteq {run'} /\ ctl' = << >>
    BY <1>a, <2>1 DEF Live, Timer, Verdicts, Exchange
  <2> QED
    BY <2>2, <2>3 DEF Exchange, Conversation
<1>2. CASE LeaveLoop
  <2>1. fpc' = "down" /\ stop_soon = 2 /\ stop_soon' = 2
    BY <1>a, <1>2 DEF LeaveLoop, Live, Typed
  <2>2. spc' = "dead"
    BY <1>2, <2>1 DEF LeaveLoop, KillsThem
  <2> QED
    BY <2>1, <2>2 DEF Live, Aftermath
<1>3. CASE WaitServer
  BY <1>3 DEF WaitServer, Live
<1>4. CASE HandleStop
  BY <1>4 DEF HandleStop, Live, Aftermath
<1> QED
  BY <1>1, <1>2, <1>3, <1>4

(* The timer goes off.  While the fuzzer waits for a status, child_pid is  *)
(* the child of the current run; the kill comes before the run's end and   *)
(* is its fate, or after it and is seen only by the next request.          *)
LEMMA TimeoutStep ==
  ASSUME IInv, Live, HandleTimeout
  PROVE  IF Live' THEN Exchange' ELSE Aftermath'
<1>a. Typed /\ Processes /\ Exchange
  BY DEF IInv
<1>b. /\ fpc \in {"init", "hello", "wait", "reap", "disarm"} /\ ctl = << >>
      /\ UNCHANGED <<fpc, child_pid, prev_timed_out, stop_soon, status, verdict, run, ctl, st,
                     srv_child, child_stopped, srv_status, served, exec_of, trace_bits>>
      /\ timer' = FALSE
  BY <1>a, FuzzerKnows DEF HandleTimeout, pipes, Exchange, Timer
<1>c. Live' /\ trace_bits' \subseteq {run'} /\ ctl' = << >>
  BY <1>a, <1>b DEF Live, Exchange
<1>d. Timer'
  BY <1>a, <1>b DEF Exchange, Timer
<1>e. Verdicts'
  BY <1>a, <1>b DEF Exchange, Verdicts
<1>1. CASE fpc \in {"init", "hello"}
  <2>1. (Booting \/ Greeted \/ Resting) /\ NoneAlive /\ ~child_stopped
    BY <1>a, <1>1, FuzzerKnows DEF Booting, Greeted, Resting
  <2>2. UNCHANGED <<proc, fate>> /\ (spc' = spc \/ spc' = "dead")
    BY <2>1 DEF HandleTimeout, Kill, NoneAlive
  <2>3. Booting' \/ Greeted' \/ Resting'
    BY <1>b, <1>1, <2>1, <2>2 DEF Booting, Greeted, Resting, NoneAlive, Parked
  <2> QED
    BY <1>c, <1>d, <1>e, <2>3 DEF Exchange, Conversation
<1>2. CASE fpc \in {"wait", "reap", "disarm"}
  <2>1. Waiting \/ Noticed \/ Reported \/ Finishing
    BY <1>a, <1>2, FuzzerKnows
  <2>2. child_pid \in {0, srv_child} /\ srv_child \in Pid /\ child_pid # -1 /\ run \in Run
    <3>1. child_pid \in {0, srv_child} /\ srv_child \in Pid /\ run > 0
      BY <1>a, <1>2, <2>1 DEF Exchange, Timer, Waiting, AtRun, Noticed, Reported, Finishing,
         SeenEnd
    <3> QED
      BY <1>a, <3>1, ConstantsAssumption DEF Pid, Run, Typed
  <2>3. UNCHANGED spc
    BY <2>2 DEF HandleTimeout
  <2>4. \/ UNCHANGED <<proc, fate>> /\ (child_timed_out => child_timed_out')
        \/ /\ proc[srv_child] \in Alive /\ exec_of[srv_child] \in Run /\ child_timed_out'
           /\ proc' = [proc EXCEPT ![srv_child] = "killed"]
           /\ fate' = [fate EXCEPT ![exec_of[srv_child]] =
                         IF @ = "none" THEN "killed" ELSE @]
    <3>1. CASE child_pid = 0
      BY <2>2, <3>1 DEF HandleTimeout
    <3>2. CASE child_pid = srv_child
      <4>1. Kill(srv_child) /\ child_timed_out'
        BY <2>2, <3>2, ConstantsAssumption DEF HandleTimeout, Pid
      <4> QED
        BY <1>a, <4>1, KillEffect
    <3> QED
      BY <2>2, <3>1, <3>2
  <2>5. CASE UNCHANGED <<proc, fate>> /\ (child_timed_out => child_timed_out')
    <3>1. Waiting' \/ Noticed' \/ Reported' \/ Finishing'
      BY <1>b, <2>1, <2>3, <2>5 DEF Waiting, AtRun, Noticed, Reported, Finishing, SeenEnd, Parked,
         Told
    <3> QED
      BY <1>c, <1>d, <1>e, <3>1 DEF Exchange, Conversation
  <2>6. CASE /\ proc[srv_child] \in Alive /\ exec_of[srv_child] \in Run /\ child_timed_out'
             /\ proc' = [proc EXCEPT ![srv_child] = "killed"]
             /\ fate' = [fate EXCEPT ![exec_of[srv_child]] =
                           IF @ = "none" THEN "killed" ELSE @]
    <3>1. proc'[srv_child] = "killed" /\ \A q \in Pid : proc'[q] \notin Alive
      BY <1>a, <2>2, <2>6 DEF Typed, Processes, Alive
    <3>2. fate[run] # "none" => fate'[run] = fate[run]
      BY <1>a, <2>2, <2>6 DEF Typed
    <3>3. CASE Waiting
      <4>1. exec_of[srv_child] = run /\ fate[run] = "none"
        BY <1>a, <2>2, <2>6, <3>3 DEF Waiting, AtRun, Processes, Alive
      <4>2. fate'[run] = "killed"
        BY <1>a, <2>2, <2>6, <4>1 DEF Typed
      <4>3. Waiting'
        BY <1>b, <2>3, <2>6, <3>1, <3>3, <4>2 DEF Waiting, AtRun, Told, Ended
      <4> QED
        BY <1>c, <1>d, <1>e, <4>3 DEF Exchange, Conversation
    <3>4. CASE Noticed \/ Reported \/ Finishing
      <4>1. SeenEnd
        BY <3>4 DEF Noticed, Reported, Finishing
      <4>2. SeenEnd'
        BY <1>b, <2>6, <3>1, <3>2, <4>1 DEF SeenEnd, Parked, Ended
      <4>3. Noticed' \/ Reported' \/ Finishing'
        BY <1>b, <2>3, <3>4, <4>2 DEF Noticed, Reported, Finishing, Told
      <4> QED
        BY <1>c, <1>d, <1>e, <4>3 DEF Exchange, Conversation
    <3> QED
      BY <2>1, <3>3, <3>4
  <2> QED
    BY <2>4, <2>5, <2>6
<1> QED
  BY <1>b, <1>1, <1>2

(* The server and the target change nothing the fuzzer holds, and act only *)
(* while the fuzzer waits for them.                                        *)
LEMMA FuzzerUntouched ==
  ASSUME Exchange, Live, fpc \in {"init", "hello", "ask", "pid", "arm", "wait"},
         UNCHANGED <<fuzzerVars, trace_bits>>, srv_child' = srv_child \/ fpc \in {"init", "pid"}
  PROVE  Live' /\ Timer' /\ Verdicts' /\ trace_bits' \subseteq {run'}
BY DEF Exchange, Live, Timer, Verdicts, fuzzerVars

LEMMA ServerStartSteps ==
  ASSUME IInv, Live, SayHello \/ ServerFails \/ ReadRequest \/ WriteOff
  PROVE  IF Live' THEN Exchange' ELSE Aftermath'
<1>a. Typed /\ Processes /\ Exchange /\ FuzzerAlive
  BY DEF IInv, Live, FuzzerAlive
<1>b. UNCHANGED <<fuzzerVars, trace_bits, srv_child, exec_of, fate>>
  BY DEF SayHello, ServerFails, ReadRequest, WriteOff, targetVars
<1>c. UNCHANGED <<fpc, prev_timed_out, child_timed_out, run, status>>
  BY <1>b DEF fuzzerVars
<1>1. CASE SayHello
  <2>1. Booting /\ ctl = << >>
    BY <1>a, <1>1 DEF SayHello, Exchange, Conversation, Booting, Greeted, Resting, Asked, Taken,
       Started, Waiting, Noticed, Reported, Finishing
  <2>2. st' = <<"hello">> /\ spc' = "read" /\ UNCHANGED <<ctl, proc, child_stopped>>
    BY <1>1, <1>a, <2>1, Pipes DEF SayHello, Booting, targetVars
  <2>3. Greeted' /\ ctl' = << >>
    BY <1>c, <2>1, <2>2 DEF Booting, Greeted, NoneAlive
  <2> QED
    BY <1>a, <1>b, <2>1, <2>3, FuzzerUntouched DEF Exchange, Conversation, Booting
<1>2. CASE ServerFails
  <2>1. spc' = "dead" /\ UNCHANGED <<ctl, st, proc, child_stopped, served>>
    BY <1>2 DEF ServerFails, pipes, targetVars
  <2>2. CASE spc = "boot"
    <3>1. Booting /\ ctl = << >>
      BY <1>a, <2>2 DEF Exchange, Conversation, Booting, Greeted, Resting, Asked, Taken,
         Started, Waiting, Noticed, Reported, Finishing
    <3>2. Booting' /\ ctl' = << >>
      BY <1>c, <2>1, <3>1 DEF Booting, NoneAlive
    <3> QED
      BY <1>a, <1>b, <3>1, <3>2, FuzzerUntouched DEF Exchange, Conversation, Booting
  <2>3. CASE spc = "start" /\ ~child_stopped
    <3>1. Taken /\ ctl = << >>
      BY <1>a, <2>3 DEF Exchange, Conversation, Booting, Greeted, Resting, Asked, Taken,
         Started, Waiting, Noticed, Reported, Finishing
    <3>2. NoneAlive
      BY <2>3, <3>1 DEF Taken, Parked, NoneAlive
    <3>3. Taken' /\ ctl' = << >>
      BY <1>b, <1>c, <2>1, <3>1, <3>2 DEF Taken, NotStarted, NoneAlive
    <3> QED
      BY <1>a, <1>b, <3>1, <3>3, FuzzerUntouched DEF Exchange, Conversation, Taken
  <2> QED
    BY <1>2, <2>2, <2>3 DEF ServerFails, MustFork
<1>3. CASE ReadRequest
  <2>1. spc = "read" /\ ctl # << >> /\ UNCHANGED <<st, proc, child_stopped>>
    BY <1>a, <1>3 DEF ReadRequest, targetVars
  <2>2. Asked /\ ctl = <<[was_killed |-> prev_timed_out, run |-> run]>>
    BY <1>a, <2>1 DEF Exchange, Conversation
  <2>3. /\ Head(ctl) = [was_killed |-> prev_timed_out, run |-> run] /\ ctl' = << >>
    BY <1>3, <2>1, <2>2, Pipes DEF ReadRequest
  <2>4. served' = run /\ spc' = IF child_stopped /\ prev_timed_out THEN "writeoff" ELSE "start"
    BY <1>3, <2>1, <2>3 DEF ReadRequest, KilledWhileStopped
  <2>5. NotStarted'
    BY <1>b, <1>c, <2>2 DEF Asked, NotStarted
  <2>6. Taken'
    <3>1. CASE child_stopped /\ prev_timed_out
      BY <1>b, <1>c, <2>1, <2>2, <2>4, <2>5, <3>1 DEF Asked, Taken, Parked
    <3>2. CASE ~(child_stopped /\ prev_timed_out)
      <4>1. Parked(FALSE)'
        BY <1>b, <2>1, <2>2, <3>2 DEF Asked, Parked
      <4> QED
        BY <1>c, <2>1, <2>2, <2>4, <2>5, <3>2, <4>1 DEF Asked, Taken
    <3> QED
      BY <3>1, <3>2
  <2> QED
    BY <1>a, <1>b, <2>2, <2>3, <2>6, FuzzerUntouched DEF Exchange, Conversation, Asked
<1>4. CASE WriteOff
  <2>1. Taken /\ ctl = << >>
    BY <1>a, <1>4 DEF WriteOff, Exchange, Conversation, Booting, Greeted, Resting, Asked, Taken,
       Started, Waiting, Noticed, Reported, Finishing
  <2>2. srv_child \in Pid /\ Parked(TRUE) /\ spc = "writeoff"
    BY <1>4, <2>1 DEF WriteOff, Taken, Parked
  <2>3. /\ proc[srv_child] \in Ended /\ proc' = [proc EXCEPT ![srv_child] = "reaped"]
        /\ child_stopped' = FALSE /\ spc' = "start" /\ UNCHANGED <<ctl, st, served>>
    BY <1>4 DEF WriteOff, pipes
  <2>4. NoneAlive'
    BY <1>a, <2>2, <2>3 DEF Processes, Typed, NoneAlive, Alive, Ended
  <2>5. Taken' /\ ctl' = << >>
    BY <1>b, <1>c, <2>1, <2>3, <2>4 DEF Taken, NotStarted, Parked, NoneAlive
  <2> QED
    BY <1>a, <1>b, <2>1, <2>5, FuzzerUntouched DEF Exchange, Conversation, Taken
<1> QED
  BY <1>1, <1>2, <1>3, <1>4

LEMMA ServerRunSteps ==
  ASSUME IInv, Live, ForkChild \/ ContinueChild \/ TellPid \/ WaitChild \/ Report
  PROVE  IF Live' THEN Exchange' ELSE Aftermath'
<1>a. Typed /\ Processes /\ Exchange /\ FuzzerAlive /\ spc # "dead"
  BY DEF IInv, Live, FuzzerAlive, ForkChild, ContinueChild, TellPid, WaitChild, Report
<1>b. UNCHANGED <<fuzzerVars, trace_bits, served>>
  BY DEF ForkChild, ContinueChild, TellPid, WaitChild, Report, targetVars
<1>c. UNCHANGED <<fpc, prev_timed_out, child_timed_out, run, status>>
  BY <1>b DEF fuzzerVars
<1>1. CASE ForkChild
  <2>1. Taken /\ ctl = << >> /\ spc = "start" /\ ~child_stopped
    BY <1>a, <1>1, ServerAlive, FuzzerKnows DEF ForkChild, MustFork, Taken, Asked
  <2>2. PICK p \in Pid : p = Cardinality({q \in Pid : proc[q] # "none"}) + 1
    BY <1>a, <2>1, NextPid DEF Taken
  <2>3. /\ srv_child' = p /\ proc' = [proc EXCEPT ![p] = "starting"]
        /\ exec_of' = [exec_of EXCEPT ![p] = run]
        /\ spc' = "tell" /\ UNCHANGED <<ctl, st, child_stopped>>
    BY <1>1, <2>1, <2>2 DEF ForkChild, pipes, Taken
  <2>4. proc'[p] = "starting" /\ exec_of'[p] = run
    BY <1>a, <2>3 DEF Typed
  <2>5. Started' /\ ctl' = << >>
    BY <1>b, <1>c, <2>1, <2>2, <2>3, <2>4 DEF Taken, Started, AtRun, NotStarted, Alive
  <2> QED
    BY <1>a, <1>b, <2>1, <2>5, FuzzerUntouched DEF IInv, Exchange, Conversation, Taken
<1>2. CASE ContinueChild
  <2>1. Taken /\ ctl = << >> /\ spc = "start" /\ child_stopped
    BY <1>a, <1>2, ServerAlive, FuzzerKnows DEF ContinueChild, MustFork, Taken, Asked
  <2>2. srv_child \in Pid /\ proc[srv_child] = "stopped"
    BY <2>1 DEF Taken, Parked
  <2>3. /\ proc'[srv_child] = "running" /\ exec_of'[srv_child] = run
        /\ child_stopped' = FALSE /\ spc' = "tell" /\ UNCHANGED <<ctl, st, srv_child>>
    BY <1>a, <1>2, <2>1, <2>2 DEF ContinueChild, pipes, Taken, Typed
  <2>4. Started' /\ ctl' = << >>
    BY <1>b, <1>c, <2>1, <2>2, <2>3 DEF Taken, Started, AtRun, NotStarted, Alive
  <2> QED
    BY <1>a, <1>b, <2>1, <2>3, <2>4, FuzzerUntouched DEF Exchange, Conversation, Taken
<1>3. CASE TellPid
  <2>1. Started /\ ctl = << >>
    BY <1>a, <1>3, ServerAlive, FuzzerKnows DEF TellPid, Started, Asked
  <2>2. /\ st' = <<srv_child>> /\ spc' = "wait"
        /\ UNCHANGED <<ctl, srv_child, child_stopped, proc, exec_of, fate>>
    BY <1>3, <1>a, <2>1, Pipes DEF TellPid, Started, targetVars
  <2>3. Waiting' /\ ctl' = << >>
    BY <1>b, <1>c, <2>1, <2>2 DEF Started, Waiting, AtRun, Told
  <2> QED
    BY <1>a, <1>b, <2>1, <2>2, <2>3, FuzzerUntouched DEF Exchange, Conversation, Started
<1>4. CASE WaitChild
  <2>1. Waiting /\ ctl = << >>
    BY <1>a, <1>4, ServerAlive, FuzzerKnows DEF WaitChild, Waiting, Asked, Told
  <2>2. srv_child \in Pid /\ exec_of[srv_child] = run /\ run \in Run
    BY <1>a, <2>1, ConstantsAssumption DEF Waiting, AtRun, Typed, Run
  <2>3. /\ Waited(srv_child) /\ srv_status' = proc[srv_child]
        /\ child_stopped' = (proc[srv_child] = "stopped")
        /\ proc' = [proc EXCEPT ![srv_child] = IF @ \in Ended THEN "reaped" ELSE @]
        /\ fate' = IF proc[srv_child] = "stopped" THEN [fate EXCEPT ![run] = "passed"] ELSE fate
        /\ spc' = "report" /\ UNCHANGED <<ctl, st, srv_child>>
    BY <1>4, <2>2 DEF WaitChild, pipes
  <2>4. \A q \in Pid \ {srv_child} : proc'[q] = proc[q] /\ proc'[q] \notin Alive
    BY <1>a, <2>2, <2>3 DEF Typed, Processes
  <2>5. SeenEnd'
    <3>1. CASE proc[srv_child] = "stopped"
      <4>1. proc'[srv_child] = "stopped" /\ fate'[run] = "passed" /\ child_stopped'
        BY <1>a, <2>2, <2>3, <3>1 DEF Typed, Ended
      <4> QED
        BY <1>c, <2>1, <2>2, <2>3, <2>4, <3>1, <4>1 DEF Waiting, AtRun, SeenEnd, Parked, Ended
    <3>2. CASE proc[srv_child] \in Ended
      <4>1. proc'[srv_child] = "reaped" /\ fate' = fate /\ ~child_stopped'
        BY <1>a, <2>2, <2>3, <3>2 DEF Typed, Ended
      <4>2. Parked(child_timed_out)'
        BY <2>3, <2>4, <4>1 DEF Parked, Alive
      <4> QED
        BY <1>c, <2>1, <2>2, <2>3, <3>2, <4>1, <4>2 DEF Waiting, AtRun, SeenEnd, Ended
    <3> QED
      BY <2>3, <3>1, <3>2 DEF Waited
  <2>6. Noticed' /\ ctl' = << >>
    BY <1>c, <2>1, <2>3, <2>5 DEF Waiting, Noticed, Told
  <2> QED
    BY <1>a, <1>b, <2>1, <2>3, <2>6, FuzzerUntouched DEF Exchange, Conversation, Waiting, Told
<1>5. CASE Report
  <2>1. Noticed /\ ctl = << >>
    BY <1>a, <1>5, ServerAlive, FuzzerKnows DEF Report, Noticed, Asked, Told
  <2>2. /\ st' = Append(st, srv_status) /\ spc' = "read"
        /\ UNCHANGED <<ctl, srv_child, srv_status, child_stopped, proc, exec_of, fate>>
    BY <1>5, <1>a DEF Report, targetVars
  <2>3. Told(<<srv_child, srv_status>>, <<srv_status>>)'
    <3>1. CASE fpc = "pid" /\ st = <<srv_child>>
      <4>1. st' = <<srv_child, srv_status>>
        BY <2>2, <3>1, Pipes
      <4> QED
        BY <1>c, <2>2, <3>1, <4>1 DEF Told
    <3>2. CASE fpc \in {"arm", "wait"} /\ st = << >>
      <4>1. st' = <<srv_status>>
        BY <2>2, <3>2, Pipes
      <4> QED
        BY <1>c, <2>2, <3>2, <4>1 DEF Told
    <3> QED
      BY <2>1, <3>1, <3>2 DEF Noticed, Told
  <2>4. Reported' /\ ctl' = << >>
    BY <1>c, <2>1, <2>2, <2>3 DEF Noticed, Reported, SeenEnd, Parked
  <2> QED
    BY <1>a, <1>b, <2>1, <2>2, <2>4, FuzzerUntouched DEF Exchange, Conversation, Noticed, Told
<1> QED
  BY <1>1, <1>2, <1>3, <1>4, <1>5

(* A process is at work only for the run the fuzzer waits for.             *)
LEMMA AtWorkForRun ==
  ASSUME Typed, Processes, Exchange, NEW p \in Pid, proc[p] \in {"starting", "running"}
  PROVE  /\ AtRun /\ p = srv_child /\ exec_of[p] = run /\ run \in Run /\ fate[run] = "none"
         /\ ctl = << >> /\ (Started \/ Waiting) /\ fpc \in {"pid", "arm", "wait"}
<1>1. p = srv_child /\ fate[exec_of[p]] = "none"
  BY DEF Processes, Alive
<1>2. ctl = << >> /\ (Started \/ Waiting)
  BY DEF Exchange, Conversation, Booting, Greeted, Resting, Asked, Taken, Started, Waiting,
     Noticed, Reported, Finishing, SeenEnd, Parked, NoneAlive, Alive
<1>3. AtRun /\ fpc \in {"pid", "arm", "wait"}
  BY <1>2 DEF Started, Waiting, Told
<1>4. exec_of[p] = run /\ run \in Run
  BY <1>1, <1>3, ConstantsAssumption DEF AtRun, Typed, Run
<1> QED
  BY <1>1, <1>2, <1>3, <1>4

LEMMA TargetRunSteps ==
  ASSUME IInv, Live, NEW p \in Pid, CloseFds(p) \/ WriteTrace(p) \/ EndRun(p)
  PROVE  IF Live' THEN Exchange' ELSE Aftermath'
<1>a. Typed /\ Processes /\ Exchange
  BY DEF IInv
<1>b. proc[p] \in {"starting", "running"}
  BY DEF CloseFds, WriteTrace, EndRun
<1>c. /\ AtRun /\ p = srv_child /\ exec_of[p] = run /\ run \in Run /\ fate[run] = "none"
      /\ ctl = << >> /\ (Started \/ Waiting) /\ fpc \in {"pid", "arm", "wait"}
  BY <1>a, <1>b, AtWorkForRun
<1>d. UNCHANGED <<fpc, child_pid, child_timed_out, prev_timed_out, stop_soon, timer, verdict, run,
                  ctl, st, spc, srv_child, child_stopped, served, exec_of>>
  BY DEF CloseFds, WriteTrace, EndRun, fuzzerVars, pipes, serverVars
<1>e. Live' /\ Timer' /\ Verdicts'
  BY <1>a, <1>c, <1>d DEF Live, Exchange, Timer, Verdicts
<1>f. trace_bits' \subseteq {run'}
  BY <1>a, <1>c, <1>d DEF CloseFds, WriteTrace, EndRun, Exchange
<1>g. AtRun'
  <2>1. CASE CloseFds(p)
    <3>1. proc'[p] = "running" /\ UNCHANGED fate
      BY <1>a, <2>1 DEF CloseFds, Typed
    <3> QED
      BY <1>c, <1>d, <3>1 DEF AtRun, Alive
  <2>2. CASE WriteTrace(p)
    BY <1>c, <1>d, <2>2 DEF WriteTrace, AtRun
  <2>3. CASE EndRun(p)
    <3>1. PICK how \in {"exited", "crashed", "stopped"} :
            /\ proc' = [proc EXCEPT ![p] = how]
            /\ fate' = [fate EXCEPT ![run] = CASE how = "crashed" -> "crashed"
                                               [] how = "exited"  -> "passed"
                                               [] OTHER           -> @]
      BY <1>c, <2>3 DEF EndRun
    <3>2. proc'[p] = how
      BY <1>a, <3>1 DEF Typed
    <3>3. fate'[run] = CASE how = "crashed" -> "crashed"
                         [] how = "exited"  -> "passed"
                         [] OTHER           -> fate[run]
      BY <1>a, <1>c, <3>1 DEF Typed
    <3>4. /\ how = "crashed" => fate'[run] = "crashed"
          /\ how = "exited" => fate'[run] = "passed"
          /\ how = "stopped" => fate'[run] = "none"
      BY <1>c, <3>3
    <3> QED
      BY <1>c, <1>d, <3>2, <3>4 DEF AtRun, Alive, Ended
  <2> QED
    BY <2>1, <2>2, <2>3
<1>h. Started' \/ Waiting'
  BY <1>c, <1>d, <1>g DEF Started, Waiting, Told
<1> QED
  BY <1>c, <1>d, <1>e, <1>f, <1>h DEF Exchange, Conversation

LEMMA ExchangeStep ==
  ASSUME IInv, Live, [Next]_vars
  PROVE  IF Live' THEN Exchange' ELSE Aftermath'
<1>1. CASE UNCHANGED vars
  <2>1. UNCHANGED <<fpc, child_pid, child_timed_out, prev_timed_out, stop_soon, timer, status,
                    verdict, run, ctl, st, spc, srv_child, child_stopped, srv_status, served,
                    proc, exec_of, fate, trace_bits>>
    BY <1>1 DEF vars, fuzzerVars, pipes, serverVars, targetVars
  <2>2. Conversation'
    BY <2>1 DEF IInv, Exchange, Conversation, Booting, Greeted, Resting, Asked, Taken, Started,
       Waiting, Noticed, Reported, Finishing, NoneAlive, NotStarted, AtRun, SeenEnd, Parked, Told
  <2>3. Live' /\ Timer' /\ Verdicts' /\ trace_bits' \subseteq {run'}
    BY <2>1 DEF IInv, Live, Exchange, Timer, Verdicts
  <2> QED
    BY <2>2, <2>3 DEF Exchange
<1>2. CASE Next
  <2>1. \/ ReadHello \/ DisarmHello \/ Ask \/ WriteRequest \/ ReadPid
        \/ ArmTimer \/ ReadStatus \/ Forget \/ DisarmTimer \/ Judge
        \/ LeaveLoop \/ WaitServer \/ DecideToStop \/ HandleStop \/ HandleTimeout
        \/ SayHello \/ ServerFails \/ ReadRequest \/ WriteOff
        \/ ForkChild \/ ContinueChild \/ TellPid \/ WaitChild \/ Report
        \/ (\E p \in Pid : CloseFds(p) \/ WriteTrace(p) \/ EndRun(p))
        \/ UNCHANGED vars
    BY <1>2 DEF Next, Fuzzer, Server, Start, Target, Finished
  <2> QED
    BY <1>1, <2>1, GreetingSteps, AskingSteps, WaitingSteps, FinishingSteps, StoppingSteps,
       TimeoutStep, ServerStartSteps, ServerRunSteps, TargetRunSteps
<1> QED
  BY <1>1, <1>2

(* A conversation that is over stays so.                                   *)
LEMMA AftermathStep ==
  ASSUME IInv, ~Live, [Next]_vars
  PROVE  ~Live' /\ Aftermath'
<1>a. Typed /\ Processes /\ spc = "dead" /\ (stop_soon = 0 => NoneAlive)
  BY DEF IInv, Aftermath
<1>1. \/ ReadHello \/ DisarmHello \/ Ask \/ WriteRequest \/ ReadPid \/ ArmTimer
      \/ ReadStatus \/ Forget \/ DisarmTimer \/ Judge \/ DecideToStop \/ LeaveLoop
      \/ WaitServer \/ HandleStop \/ HandleTimeout
      \/ (\E p \in Pid : CloseFds(p) \/ WriteTrace(p) \/ EndRun(p))
      \/ UNCHANGED vars
  BY <1>a DEF Next, Fuzzer, Server, Start, Target, Finished, SayHello, ServerFails, ReadRequest,
     WriteOff, ForkChild, ContinueChild, TellPid, WaitChild, Report
<1>2. CASE \/ ReadHello \/ DisarmHello \/ Ask \/ WriteRequest \/ ReadPid \/ ArmTimer
           \/ ReadStatus \/ Forget \/ DisarmTimer \/ Judge \/ DecideToStop
  <2>1. stop_soon = 1 /\ stop_soon' = 1 /\ UNCHANGED spc
    BY <1>2 DEF Live, ReadHello, DisarmHello, Ask, WriteRequest, ReadPid, ArmTimer, ReadStatus,
       Forget, DisarmTimer, Judge, DecideToStop, serverVars
  <2> QED
    BY <1>a, <2>1 DEF Live, Aftermath
<1>3. CASE LeaveLoop
  <2>1. fpc' = "down" /\ stop_soon # 0 /\ UNCHANGED stop_soon /\ spc' \in {"dead", spc}
    BY <1>3 DEF LeaveLoop
  <2> QED
    BY <1>a, <2>1 DEF Live, Aftermath
<1>4. CASE HandleStop
  BY <1>4 DEF HandleStop, Live, Aftermath
<1>5. CASE WaitServer \/ HandleTimeout
  <2>1. /\ fpc' \in {"exit", fpc} /\ UNCHANGED stop_soon /\ spc' \in {"dead", spc}
    BY <1>5 DEF WaitServer, HandleTimeout, serverVars
  <2>2. NoneAlive => NoneAlive'
    <3>1. CASE UNCHANGED proc
      BY <3>1 DEF NoneAlive
    <3>2. CASE Kill(child_pid)
      BY <3>2 DEF Kill, NoneAlive
    <3> QED
      BY <1>5, <3>1, <3>2 DEF WaitServer, HandleTimeout, targetVars
  <2> QED
    BY <1>a, <2>1, <2>2 DEF Live, Aftermath
<1>6. ASSUME NEW p \in Pid, CloseFds(p) \/ WriteTrace(p) \/ EndRun(p)
      PROVE  ~Live' /\ Aftermath'
  <2>1. UNCHANGED <<fpc, stop_soon, spc>> /\ ~NoneAlive
    BY <1>6 DEF CloseFds, WriteTrace, EndRun, fuzzerVars, serverVars, NoneAlive, Alive
  <2> QED
    BY <1>a, <2>1 DEF Live, Aftermath
<1>7. CASE UNCHANGED vars
  <2>1. UNCHANGED <<fpc, stop_soon, spc, proc>>
    BY <1>7 DEF vars, fuzzerVars, serverVars, targetVars
  <2> QED
    BY <1>a, <2>1 DEF Live, Aftermath, NoneAlive
<1> QED
  BY <1>1, <1>2, <1>3, <1>4, <1>5, <1>6, <1>7

LEMMA IInvStep == IInv /\ [Next]_vars => IInv'
<1> SUFFICES ASSUME IInv, [Next]_vars PROVE IInv'
  OBVIOUS
<1>1. Typed' /\ Processes'
  BY ProcessesStep
<1>2. IF Live' THEN Exchange' ELSE Aftermath'
  BY ExchangeStep, AftermathStep
<1> QED
  BY <1>1, <1>2 DEF IInv

LEMMA AlwaysIInv == Spec => []IInv
BY InitIInv, IInvStep, PTL DEF Spec

-----------------------------------------------------------------------------
(* The properties of ForkServer.                                           *)

LEMMA FuzzerPlaces ==
  ASSUME Exchange
  PROVE  fpc \in {"init", "hello", "idle", "ask", "pid", "arm", "wait", "reap", "disarm", "judge"}
BY DEF Exchange, Conversation, Booting, Greeted, Resting, Asked, Taken, Started, Waiting,
   Noticed, Reported, Finishing, Told

(* The coverage map the fuzzer reads after a call was written by that run  *)
(* alone, although a stopped child of an earlier run may still be there.   *)
THEOREM TraceIsOfThisRun == Spec => []TraceOfThisRun
<1>1. IInv => TraceOfThisRun
  BY DEF IInv, Live, Exchange, TraceOfThisRun, Returned
<1> QED
  BY <1>1, AlwaysIInv, PTL

(* Between the status of a run and the next request no target process is   *)
(* at work.                                                                *)
THEOREM QuietWhileReading == Spec => []NoWriterWhileReading
<1>1. IInv => NoWriterWhileReading
  <2> SUFFICES ASSUME IInv, Quiet, NEW p \in Pid, proc[p] \in {"starting", "running"}
               PROVE  FALSE
    BY DEF NoWriterWhileReading
  <2>1. Live
    BY DEF Quiet, Live
  <2> QED
    BY <2>1, AtWorkForRun DEF IInv, Quiet
<1> QED
  BY <1>1, AlwaysIInv, PTL

(* The verdict run_target returns is what happened to that run: a timer    *)
(* that went off too late is not charged to it, nor to the next.           *)
THEOREM VerdictIsTrue == Spec => []VerdictTrue
<1>1. IInv => VerdictTrue
  <2> SUFFICES ASSUME IInv, Returned PROVE VerdictTrue
    BY DEF VerdictTrue
  <2>1. \/ fate[run] = "crashed" /\ verdict = "FAULT_CRASH"
        \/ fate[run] = "killed" /\ verdict = "FAULT_TMOUT"
        \/ fate[run] = "passed" /\ verdict = "FAULT_NONE"
    BY DEF IInv, Returned, Live, Exchange, Verdicts
  <2> QED
    BY <2>1 DEF VerdictTrue
<1> QED
  BY <1>1, AlwaysIInv, PTL

-----------------------------------------------------------------------------
(* ForkServer implements TargetRun.                                        *)

Calling == fpc = "ask" \/ Busy
LastFate == IF run = 0 THEN "none" ELSE fate[run]

(* As long as the fuzzer is not stopping, a living process whose run is    *)
(* the last one and undecided means that a call is in progress.            *)
LEMMA UndecidedInCall ==
  ASSUME IInv, stop_soon = 0, NEW p \in Pid, proc[p] \in Alive, exec_of[p] = run,
         fate[run] = "none"
  PROVE  Calling
<1>1. Live /\ Exchange
  BY DEF IInv, Aftermath, NoneAlive
<1>2. run # 0
  BY AtWork, ConstantsAssumption DEF IInv, Run
<1>3. fpc \notin {"init", "hello", "idle"}
  BY <1>1, <1>2 DEF Exchange, Verdicts
<1> QED
  BY <1>1, <1>3, FuzzerPlaces DEF Calling, Busy

(* The fate of the last run changes once, and only during a call or while  *)
(* the fuzzer is stopping.                                                 *)
LEMMA FateSettledOnce ==
  ASSUME IInv, LeaveLoop \/ HandleTimeout \/ HandleStop \/ WaitChild \/ (\E p \in Pid : EndRun(p))
  PROVE  \/ LastFate' = LastFate
         \/ /\ LastFate = "none" /\ LastFate' \in Fate \ {"none"}
            /\ Calling \/ stop_soon # 0
            /\ HandleStop /\ stop_soon = 0 => LastFate' = "killed"
<1>a. Typed /\ Processes /\ UNCHANGED <<run, exec_of>>
  BY DEF IInv, LeaveLoop, HandleTimeout, HandleStop, WaitChild, EndRun, fuzzerVars
<1>b. ASSUME NEW p \in Pid, proc[p] \in Alive, exec_of[p] = run, fate[run] = "none"
      PROVE  Calling \/ stop_soon # 0
  BY <1>b, UndecidedInCall
<1>c. run = 0 => LastFate' = LastFate
  BY <1>a DEF LastFate
<1>d. fate' = fate => LastFate' = LastFate
  BY <1>a DEF LastFate
<1>e. run # 0 => run \in Run
  BY <1>a, ConstantsAssumption DEF Typed, Run
<1>1. CASE LeaveLoop \/ HandleTimeout \/ HandleStop
  <2>1. Kill(child_pid) \/ UNCHANGED fate
    BY <1>1 DEF LeaveLoop, HandleTimeout, HandleStop
  <2>2. CASE /\ child_pid \in Pid /\ proc[child_pid] \in Alive /\ exec_of[child_pid] \in Run
             /\ fate' = [fate EXCEPT ![exec_of[child_pid]] = IF @ = "none" THEN "killed" ELSE @]
             /\ run # 0
    <3>1. CASE exec_of[child_pid] = run /\ fate[run] = "none"
      <4>1. fate'[run] = "killed"
        BY <1>a, <1>e, <2>2, <3>1 DEF Typed
      <4> QED
        BY <1>a, <1>b, <2>2, <3>1, <4>1 DEF LastFate, Fate
    <3>2. CASE ~(exec_of[child_pid] = run /\ fate[run] = "none")
      <4>1. fate'[run] = fate[run]
        BY <1>a, <1>e, <2>2, <3>2 DEF Typed
      <4> QED
        BY <1>a, <4>1 DEF LastFate
    <3> QED
      BY <3>1, <3>2
  <2> QED
    BY <1>a, <1>c, <1>d, <2>1, <2>2, KillEffect
<1>2. CASE WaitChild
  <2>1. AtRun /\ Waited(srv_child)
    BY <1>2, ServerAlive DEF WaitChild, Waiting
  <2>2. CASE proc[srv_child] = "stopped"
    <3>1. run \in Run /\ srv_child \in Pid /\ exec_of[srv_child] = run /\ fate[run] = "none"
      BY <1>e, <2>1, <2>2 DEF AtRun
    <3>2. fate'[run] = "passed"
      BY <1>2, <1>a, <2>2, <3>1 DEF WaitChild, Typed
    <3> QED
      BY <1>2, <1>a, <1>b, <2>2, <3>1, <3>2 DEF LastFate, Fate, Alive, WaitChild, HandleStop,
         fuzzerVars
  <2>3. CASE proc[srv_child] # "stopped"
    BY <1>2, <1>d, <2>3 DEF WaitChild
  <2> QED
    BY <2>2, <2>3
<1>3. ASSUME NEW p \in Pid, EndRun(p)
      PROVE  \/ LastFate' = LastFate
             \/ /\ LastFate = "none" /\ LastFate' \in Fate \ {"none"}
                /\ Calling \/ stop_soon # 0
                /\ HandleStop /\ stop_soon = 0 => LastFate' = "killed"
  <2>1. PICK how \in {"exited", "crashed", "stopped"} :
          fate' = [fate EXCEPT ![exec_of[p]] = CASE how = "crashed" -> "crashed"
                                                 [] how = "exited"  -> "passed"
                                                 [] OTHER           -> @]
    BY <1>3 DEF EndRun
  <2>2. proc[p] \in Alive /\ exec_of[p] \in Run /\ fate[exec_of[p]] = "none" /\ proc # proc'
    <3>1. proc[p] = "running"
      BY <1>3 DEF EndRun
    <3>2. proc'[p] # "running"
      BY <1>3, <1>a DEF EndRun, Typed
    <3> QED
      BY <1>a, <3>1, <3>2, AtWork DEF Alive, Processes
  <2>3. fate'[exec_of[p]] = CASE how = "crashed" -> "crashed"
                              [] how = "exited"  -> "passed"
                              [] OTHER           -> fate[exec_of[p]]
    BY <1>a, <2>1, <2>2 DEF Typed
  <2>4. fate'[exec_of[p]] \in {"crashed", "passed", "none"}
    BY <2>2, <2>3
  <2>5. ~(HandleStop /\ stop_soon = 0)
    BY <1>3 DEF EndRun, HandleStop, fuzzerVars
  <2>6. CASE exec_of[p] = run
    BY <1>3, <1>a, <1>b, <1>c, <2>2, <2>4, <2>5, <2>6 DEF LastFate, Fate
  <2>7. CASE exec_of[p] # run
    <3>1. run # 0 => fate'[run] = fate[run]
      BY <1>a, <1>e, <2>1, <2>2, <2>7 DEF Typed
    <3> QED
      BY <1>a, <1>c, <3>1 DEF LastFate
  <2> QED
    BY <2>6, <2>7
<1> QED
  BY <1>1, <1>2, <1>3

(* The steps of TargetRun, in terms of the state of ForkServer.            *)
Phase == IF Calling THEN "busy" ELSE IF FuzzerAlive THEN "idle" ELSE "over"
Stopping == stop_soon # 0

LEMMA MappedStutter ==
  ASSUME Phase' = Phase, LastFate' = LastFate, verdict' = verdict, Stopping' = Stopping
  PROVE  UNCHANGED Abstract!absVars
BY DEF Abstract!absVars, Phase, Calling, LastFate, Stopping

LEMMA MappedCall ==
  ASSUME Phase = "idle", Phase' = "busy", LastFate' = "none", verdict' = "none",
         Stopping' = Stopping
  PROVE  Abstract!Call
BY DEF Abstract!Call, Phase, Calling, LastFate, Stopping

LEMMA MappedHappens ==
  ASSUME Phase = "busy" \/ Stopping, LastFate = "none", LastFate' \in Fate \ {"none"},
         Phase' = Phase, verdict' = verdict, Stopping' = Stopping
  PROVE  Abstract!Happens
BY DEF Abstract!Happens, Fate, Abstract!Fate, Phase, Calling, LastFate, Stopping

LEMMA MappedReturn ==
  ASSUME Phase = "busy", Phase' = "idle", LastFate' = LastFate, Stopping' = Stopping,
         \/ LastFate = "passed" /\ verdict' = "FAULT_NONE"
         \/ LastFate = "crashed" /\ verdict' = "FAULT_CRASH"
         \/ LastFate = "killed" /\ verdict' = "FAULT_TMOUT"
         \/ Stopping /\ verdict' = "FAULT_NONE"
  PROVE  Abstract!Return
BY DEF Abstract!Return, Abstract!Deserved, Abstract!Verdict, Phase, Calling, LastFate, Stopping

LEMMA MappedStop ==
  ASSUME ~Stopping, Stopping', Phase' = Phase, verdict' = verdict,
         \/ LastFate' = LastFate
         \/ Phase = "busy" /\ LastFate = "none" /\ LastFate' = "killed"
  PROVE  Abstract!Stop
BY DEF Abstract!Stop, Phase, Calling, LastFate, Stopping

LEMMA MappedQuit ==
  ASSUME Phase # "over", Phase' = "over", LastFate' = LastFate, verdict' = verdict,
         Stopping' = Stopping
  PROVE  Abstract!Quit
BY DEF Abstract!Quit, Phase, Calling, LastFate, Stopping

LEMMA InitMapped == Init => Abstract!Init
BY DEF Init, Abstract!Init, FuzzerAlive, Busy

(* Every step of the fork server is one of TargetRun's, or none.           *)
LEMMA StepMapped ==
  ASSUME IInv, [Next]_vars
  PROVE  [Abstract!Next]_(Abstract!absVars)
<1>a. Typed /\ Processes
  BY DEF IInv
<1>b. ASSUME UNCHANGED <<run, fate>> PROVE LastFate' = LastFate
  BY <1>b DEF LastFate
<1>1. CASE Ask
  <2>1. fpc = "idle" /\ fpc' = "ask" /\ run' = run + 1 /\ verdict' = "none"
        /\ UNCHANGED <<stop_soon, fate>> /\ run < MaxRuns
    BY <1>1 DEF Ask
  <2>2. run' \in Run /\ run' > run
    BY <1>a, <2>1, ConstantsAssumption DEF Typed, Run
  <2>3. LastFate' = "none"
    BY <1>a, <2>1, <2>2 DEF LastFate, Processes
  <2>4. Phase = "idle" /\ Phase' = "busy" /\ Stopping' = Stopping
    BY <2>1 DEF Phase, Calling, Busy, FuzzerAlive, Stopping
  <2> QED
    BY <2>1, <2>3, <2>4, MappedCall DEF Abstract!Next
<1>2. CASE WriteRequest \/ ReadPid \/ ReadStatus
  <2>1. UNCHANGED <<stop_soon, run, fate>> /\ fpc \in {"ask", "pid", "wait"}
    BY <1>2 DEF WriteRequest, ReadPid, ReadStatus, targetVars
  <2>2. LastFate' = LastFate /\ Stopping' = Stopping /\ Phase = "busy"
    BY <1>b, <2>1 DEF Stopping, Phase, Calling, Busy
  <2>3. \/ fpc' \in {"pid", "arm", "reap"} /\ UNCHANGED verdict
        \/ fpc' = "idle" /\ verdict' = "FAULT_NONE" /\ stop_soon # 0
        \/ fpc' = "fatal" /\ UNCHANGED verdict
    BY <1>2 DEF WriteRequest, ReadPid, ReadStatus, ServerLost
  <2>4. CASE fpc' \in {"pid", "arm", "reap"} /\ UNCHANGED verdict
    <3>1. Phase' = "busy"
      BY <2>4 DEF Phase, Calling, Busy
    <3> QED
      BY <2>2, <2>4, <3>1, MappedStutter
  <2>5. CASE fpc' = "idle" /\ verdict' = "FAULT_NONE" /\ stop_soon # 0
    <3>1. Phase' = "idle" /\ Stopping
      BY <2>5 DEF Phase, Calling, Busy, FuzzerAlive, Stopping
    <3> QED
      BY <2>2, <2>5, <3>1, MappedReturn DEF Abstract!Next
  <2>6. CASE fpc' = "fatal" /\ UNCHANGED verdict
    <3>1. Phase' = "over"
      BY <2>6 DEF Phase, Calling, Busy, FuzzerAlive
    <3> QED
      BY <2>2, <2>6, <3>1, MappedQuit DEF Abstract!Next
  <2> QED
    BY <2>3, <2>4, <2>5, <2>6
<1>3. CASE Judge
  <2>1. /\ fpc = "judge" /\ fpc' = "idle" /\ verdict' = Outcome
        /\ UNCHANGED <<stop_soon, run, fate>>
    BY <1>3 DEF Judge, targetVars
  <2>2. LastFate' = LastFate /\ Stopping' = Stopping /\ Phase = "busy" /\ Phase' = "idle"
    BY <1>b, <2>1 DEF Stopping, Phase, Calling, Busy, FuzzerAlive
  <2>3. \/ LastFate = "passed" /\ verdict' = "FAULT_NONE"
        \/ LastFate = "crashed" /\ verdict' = "FAULT_CRASH"
        \/ LastFate = "killed" /\ verdict' = "FAULT_TMOUT"
        \/ Stopping /\ verdict' = "FAULT_NONE"
    <3>1. CASE stop_soon # 0
      BY <2>1, <3>1 DEF Outcome, Stopping
    <3>2. CASE stop_soon = 0
      <4>1. Finishing
        BY <2>1, <3>2, FuzzerKnows DEF IInv, Live
      <4>2. /\ run > 0
            /\ \/ status \in {"stopped", "exited"} /\ fate[run] = "passed"
               \/ status = "crashed" /\ fate[run] = "crashed"
               \/ status = "killed" /\ fate[run] = "killed" /\ child_timed_out
        BY <4>1 DEF Finishing, SeenEnd, Ended
      <4>3. run # 0
        BY <1>a, <4>2 DEF Typed
      <4> QED
        BY <2>1, <3>2, <4>2, <4>3 DEF Outcome, LastFate
    <3> QED
      BY <3>1, <3>2
  <2> QED
    BY <2>2, <2>3, MappedReturn DEF Abstract!Next
<1>4. CASE ReadHello \/ WaitServer
  <2>1. /\ UNCHANGED <<stop_soon, run, fate, verdict>>
        /\ fpc \in {"init", "down"} /\ fpc' \in {"hello", "fatal", "exit"}
    BY <1>4 DEF ReadHello, WaitServer, targetVars
  <2>2. LastFate' = LastFate /\ Stopping' = Stopping /\ Phase = "idle" /\ Phase' \in {"idle", "over"}
    BY <1>b, <2>1 DEF Stopping, Phase, Calling, Busy, FuzzerAlive
  <2> QED
    BY <2>1, <2>2, MappedStutter, MappedQuit DEF Abstract!Next
<1>5. CASE LeaveLoop \/ HandleTimeout \/ WaitChild \/ (\E p \in Pid : EndRun(p))
  <2>1. /\ UNCHANGED <<stop_soon, verdict>>
        /\ UNCHANGED fpc \/ (fpc = "idle" /\ fpc' = "down")
    <3>1. CASE LeaveLoop \/ HandleTimeout
      BY <3>1 DEF LeaveLoop, HandleTimeout
    <3>2. CASE WaitChild \/ (\E p \in Pid : EndRun(p))
      BY <3>2 DEF WaitChild, EndRun, fuzzerVars
    <3> QED
      BY <1>5, <3>1, <3>2
  <2>2. Phase' = Phase /\ Stopping' = Stopping
    BY <2>1 DEF Stopping, Phase, Calling, Busy, FuzzerAlive
  <2>3. \/ LastFate' = LastFate
        \/ /\ LastFate = "none" /\ LastFate' \in Fate \ {"none"}
           /\ Phase = "busy" \/ Stopping
    BY <1>5, FateSettledOnce DEF Phase, Stopping
  <2> QED
    BY <2>1, <2>2, <2>3, MappedStutter, MappedHappens DEF Abstract!Next
<1>6. CASE HandleStop
  <2>1. UNCHANGED <<fpc, verdict>> /\ stop_soon' = 1
    BY <1>6 DEF HandleStop
  <2>2. Phase' = Phase /\ Stopping'
    BY <2>1 DEF Stopping, Phase, Calling, Busy, FuzzerAlive
  <2>3. \/ LastFate' = LastFate
        \/ /\ LastFate = "none" /\ LastFate' \in Fate \ {"none"}
           /\ Phase = "busy" \/ Stopping
           /\ Stopping \/ LastFate' = "killed"
    BY <1>6, FateSettledOnce DEF Phase, Stopping
  <2>4. CASE Stopping
    <3>1. Stopping' = Stopping
      BY <2>2, <2>4 DEF Stopping
    <3> QED
      BY <2>1, <2>2, <2>3, <2>4, <3>1, MappedStutter, MappedHappens DEF Abstract!Next
  <2>5. CASE ~Stopping
    BY <2>1, <2>2, <2>3, <2>5, MappedStop DEF Abstract!Next
  <2> QED
    BY <2>4, <2>5
<1>7. CASE DecideToStop
  <2>1. UNCHANGED <<fpc, verdict, run, fate>> /\ stop_soon = 0 /\ stop_soon' = 2
    BY <1>7 DEF DecideToStop, targetVars
  <2>2. Phase' = Phase /\ ~Stopping /\ Stopping' /\ LastFate' = LastFate
    BY <1>b, <2>1 DEF Stopping, Phase, Calling, Busy, FuzzerAlive
  <2> QED
    BY <2>1, <2>2, MappedStop DEF Abstract!Next
<1>8. CASE \/ DisarmHello \/ ArmTimer \/ Forget \/ DisarmTimer
           \/ SayHello \/ ServerFails \/ ReadRequest \/ WriteOff \/ ForkChild
           \/ ContinueChild \/ TellPid \/ Report
           \/ (\E p \in Pid : CloseFds(p) \/ WriteTrace(p)) \/ UNCHANGED vars
  <2>1. /\ UNCHANGED <<stop_soon, verdict, run, fate>>
        /\ \/ UNCHANGED fpc
           \/ fpc = "hello" /\ fpc' = "idle"
           \/ fpc \in {"arm", "reap", "disarm"} /\ fpc' \in {"wait", "disarm", "judge"}
    <3>1. CASE DisarmHello \/ ArmTimer \/ Forget \/ DisarmTimer
      BY <3>1 DEF DisarmHello, ArmTimer, Forget, DisarmTimer, targetVars
    <3>2. CASE \/ SayHello \/ ServerFails \/ ReadRequest \/ WriteOff \/ ForkChild
               \/ ContinueChild \/ TellPid \/ Report
      BY <3>2 DEF SayHello, ServerFails, ReadRequest, WriteOff, ForkChild, ContinueChild,
         TellPid, Report, fuzzerVars, targetVars
    <3>3. CASE (\E p \in Pid : CloseFds(p) \/ WriteTrace(p)) \/ UNCHANGED vars
      BY <3>3 DEF CloseFds, WriteTrace, vars, fuzzerVars, targetVars
    <3> QED
      BY <1>8, <3>1, <3>2, <3>3
  <2>2. LastFate' = LastFate /\ Stopping' = Stopping /\ Phase' = Phase
    BY <1>b, <2>1 DEF Stopping, Phase, Calling, Busy, FuzzerAlive
  <2> QED
    BY <2>1, <2>2, MappedStutter
<1>9. \/ Ask \/ WriteRequest \/ ReadPid \/ ReadStatus \/ Judge \/ ReadHello \/ WaitServer
      \/ LeaveLoop \/ HandleTimeout \/ WaitChild \/ (\E p \in Pid : EndRun(p))
      \/ HandleStop \/ DecideToStop
      \/ DisarmHello \/ ArmTimer \/ Forget \/ DisarmTimer
      \/ SayHello \/ ServerFails \/ ReadRequest \/ WriteOff \/ ForkChild
      \/ ContinueChild \/ TellPid \/ Report
      \/ (\E p \in Pid : CloseFds(p) \/ WriteTrace(p)) \/ UNCHANGED vars
  BY DEF Next, Fuzzer, Server, Start, Target, Finished
<1> QED
  BY <1>1, <1>2, <1>3, <1>4, <1>5, <1>6, <1>7, <1>8, <1>9

(* run_target keeps the promise of TargetRun: one thing happens to the     *)
(* target per call, and the verdict is the one it deserves.                *)
THEOREM KeepsTargetRun == Spec => ImplementsTargetRun
<1>1. Spec => Abstract!Spec
  BY InitMapped, StepMapped, AlwaysIInv, PTL DEF Spec, Abstract!Spec
<1> QED
  BY <1>1 DEF ImplementsTargetRun
=============================================================================
