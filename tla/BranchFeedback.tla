--------------------------- MODULE BranchFeedback ---------------------------
(***************************************************************************)
(* The branch feedback of MaxAFL: the br_info[] and br_hit[] tables that   *)
(* the instrumented target fills while it runs (__maxafl_visit_br,         *)
(* src/llvm_mode/afl-llvm-rt.o.c) and that the gradient descent reads and  *)
(* rewrites between the runs (run_target, calculate_obj_func,              *)
(* save_branch_hit and check_branch_hit of src/afl-fuzz.c, called from     *)
(* FuzzProb and GradientDescentFuzzSolver of src/afl-lbfgs.cpp).           *)
(*                                                                         *)
(* A double is abstracted to its sign bit and a small magnitude, because   *)
(* the code tells -0.0 from 0.0; the cost of a branch and the sum of the   *)
(* costs are left out, the verdict on every branch is kept.                *)
(***************************************************************************)
EXTENDS Integers, Sequences, FiniteSets, Distances
LOCAL INSTANCE FiniteSetsExt

CONSTANTS
  Branch,       \* the instrumented branches
  Left, Right,  \* [branch -> instructions behind its true, false successor]
  Modes,        \* the objective modes to consider
  MAX_MUL,      \* the largest multiplier of ADP1
  Magnitudes    \* bound: the distances a comparison can yield

ASSUME ConstantsAssumption ==
  /\ Left \in [Branch -> Nat] /\ Right \in [Branch -> Nat]
  /\ Modes \subseteq {"ORIGIN", "ADP1", "ADP2"}
  /\ MAX_MUL \in Nat
  /\ Magnitudes \subseteq Nat /\ 2 \in Magnitudes

VARIABLES
  obj_mode_cur, \* chosen on the command line
  onBoolean,    \* the branches whose condition is a Boolean, not a comparison
  real,         \* [branch -> distance, or what the fuzzer made of it]
  cmpReal,      \* cmp_info[].real: [branch -> distance of its condition]
  hit,          \* [branch -> verdict saved by save_branch_hit]
  leftHit, rightHit,
  leftMul, rightMul,
  br_hit,       \* the branches listed in br_hit[1 .. br_hit[0] - 1]
  pc,
  chk,          \* what check_branch_hit returned
  side,         \* history: [branch -> the side taken last in this run]
  frozen,       \* history: [branch -> the side it was frozen at, or "none"]
  judged,       \* history: [branch -> verdict of value() at this input]
  point         \* history: judged, at the point the gradient is taken in

mulVars  == <<leftHit, rightHit, leftMul, rightMul>>
sides    == <<side, frozen>>
history  == <<sides, judged, point>>
setup    == <<obj_mode_cur, onBoolean>>
vars == <<setup, real, cmpReal, hit, mulVars, br_hit, pc, chk, history>>

-----------------------------------------------------------------------------
(* BR_NOHIT and BR_FINISH are no distances; BR_SUCC may be one.            *)

BR_NOHIT  == [kind |-> "nohit", neg |-> TRUE, mag |-> 3]
BR_FINISH == [kind |-> "finish", neg |-> TRUE, mag |-> 5]

(* The distances a condition can have: negative when it holds.             *)
Distance(b, cond) ==
  IF b \in onBoolean THEN {Flag(cond)} ELSE {Num(cond, m) : m \in Magnitudes}

(* left and right after the multipliers, as the fuzzer computes them, in   *)
(* doubles (here in tenths), and as the target does, in 32-bit integers.   *)
FuzzerLeft(b) ==
  CASE obj_mode_cur = "ORIGIN" -> 10 * Left[b]
    [] obj_mode_cur = "ADP1"   -> Left[b] * (10 + rightMul[b])
    [] obj_mode_cur = "ADP2"   -> 10 * (Left[b] - (leftMul[b] - rightMul[b]))
FuzzerRight(b) ==
  CASE obj_mode_cur = "ORIGIN" -> 10 * Right[b]
    [] obj_mode_cur = "ADP1"   -> Right[b] * (10 + leftMul[b])
    [] obj_mode_cur = "ADP2"   -> 10 * (Right[b] - (rightMul[b] - leftMul[b]))
TargetLeft(b)  == FuzzerLeft(b) \div 10
TargetRight(b) == FuzzerRight(b) \div 10

-----------------------------------------------------------------------------
Init ==
  /\ obj_mode_cur \in Modes /\ onBoolean \in SUBSET Branch
  /\ real = [b \in Branch |-> BR_NOHIT]
  /\ cmpReal = [b \in Branch |-> BR_NOHIT]
  /\ hit = [b \in Branch |-> "nohit"]
  /\ leftHit = [b \in Branch |-> 0] /\ rightHit = [b \in Branch |-> 0]
  /\ leftMul = [b \in Branch |-> 1] /\ rightMul = [b \in Branch |-> 1]
  /\ br_hit = <<>>
  /\ pc = "iterate"
  /\ chk = "none"
  /\ side = [b \in Branch |-> "none"] /\ frozen = [b \in Branch |-> "none"]
  /\ judged = [b \in Branch |-> "none"]
  /\ point = [b \in Branch |-> "none"]

-----------------------------------------------------------------------------
(* A run of the target.  The part of run_target that prepares the tables   *)
(* clears the listed branches only.  Comparisons are listed before their   *)
(* distance is stored, and only the target reads it: all are cleared.      *)

ListedButLast == {br_hit[i] : i \in 1 .. Len(br_hit) - 1} \* fault: off by one
Listed == {br_hit[i] : i \in 1 .. Len(br_hit)}

RunTarget(from, next) ==
  /\ pc = from
  /\ pc' = next
  /\ real' = [b \in Branch |-> IF b \in Listed THEN BR_NOHIT ELSE real[b]]
  /\ hit' = [b \in Branch |-> IF b \in Listed THEN "nohit" ELSE hit[b]]
  /\ cmpReal' = [b \in Branch |-> BR_NOHIT]
  /\ br_hit' = <<>>
  /\ chk' = "none"
  /\ side' = [b \in Branch |-> "none"] /\ frozen' = [b \in Branch |-> "none"]
  /\ judged' = [b \in Branch |-> "none"]
  /\ UNCHANGED <<setup, mulVars, point>>

(* The callers: value() at a point of the descent, and value() again in    *)
(* gradient(), there and at the neighbours.                                *)
EvaluatePoint     == RunTarget("iterate", "run point")
EvaluateNeighbour == RunTarget("gradient", "run neighbour")
(* An interesting input is run again by calibrate_case, and one that timed *)
(* out by save_if_interesting, before value() gets to look at the tables.  *)
CalibratePoint     == RunTarget("ran point", "run point")
CalibrateNeighbour == RunTarget("ran neighbour", "run neighbour")

Running == {"run point", "run neighbour"}

(* How far the multipliers may grow.  In ORIGIN mode the target compares   *)
(* with an uninitialized variable; MAX_MUL stands for all that let them    *)
(* grow.                                                                   *)
LeftMax(b) ==
  CASE obj_mode_cur = "ORIGIN" -> {0, MAX_MUL}
    [] obj_mode_cur = "ADP1"   -> {MAX_MUL}
    [] obj_mode_cur = "ADP2"   -> {Left[b]}
RightMax(b) ==
  CASE obj_mode_cur = "ORIGIN" -> {0, MAX_MUL}
    [] obj_mode_cur = "ADP1"   -> {MAX_MUL}
    [] obj_mode_cur = "ADP2"   -> {Right[b]}

Room(mul, max) == mul < max

(* A side with n instructions raises its multiplier every n * n visits.    *)
Counted(hits, n) == IF hits + 1 >= n * n THEN 0 ELSE hits + 1
Raised(mul, hits, n) == IF hits + 1 >= n * n THEN mul + 1 ELSE mul

CountHit(b, r) ==
  IF r.kind = "flag" \/ Left[b] = 0 \/ Right[b] = 0
  THEN UNCHANGED mulVars
  ELSE \E lmax \in LeftMax(b), rmax \in RightMax(b) :
    CASE r.neg /\ Room(leftMul[b], lmax) ->
           /\ leftHit' = [leftHit EXCEPT ![b] = Counted(@, Left[b])]
           /\ leftMul' = [leftMul EXCEPT ![b] = Raised(@, leftHit[b], Left[b])]
           /\ UNCHANGED <<rightHit, rightMul>>
      [] ~r.neg /\ Room(rightMul[b], rmax) ->
           /\ rightHit' = [rightHit EXCEPT ![b] = Counted(@, Right[b])]
           /\ rightMul' = [rightMul EXCEPT ![b] = Raised(@, rightHit[b], Right[b])]
           /\ UNCHANGED <<leftHit, leftMul>>
      [] OTHER -> UNCHANGED mulVars

FirstVisit(b) == real[b] = BR_NOHIT

List(b) == br_hit' = IF FirstVisit(b) THEN Append(br_hit, b) ELSE br_hit

(* A visit leaves alone what is -2.0, as if it had been set to BR_SUCC.    *)
NeverIgnored(b) == FALSE                                \* fault: no such check
Ignored(b) == real[b] \in {BR_SUCC, BR_FINISH}
CmpIgnored(b) == cmpReal[b] = BR_SUCC

(* The sides the program takes, the visits that leave no trace included.   *)
Goes(b, taken, freezes) ==
  /\ side' = [side EXCEPT ![b] = taken]
  /\ frozen' = [frozen EXCEPT ![b] = IF @ = "none" /\ freezes THEN taken ELSE @]

(* __maxafl_visit_cmp_* or __maxafl_visit_etc, and __maxafl_visit_br on a  *)
(* branch whose condition is that comparison or Boolean.  The program goes *)
(* to the left when the condition holds, whatever was stored.              *)

VisitBr(b) ==
  /\ pc \in Running
  /\ \E cond \in BOOLEAN : \E d \in Distance(b, cond) :
       LET c == IF CmpIgnored(b) THEN cmpReal[b] ELSE d
           r == IF TargetLeft(b) >= TargetRight(b) THEN Negated(c) ELSE c
       IN
       /\ cmpReal' = [cmpReal EXCEPT ![b] = c]
       /\ IF Ignored(b)
          THEN UNCHANGED <<real, br_hit, mulVars>>
          ELSE List(b) /\ real' = [real EXCEPT ![b] = r] /\ CountHit(b, r)
       /\ Goes(b, IF cond THEN "left" ELSE "right", BR_SUCC \in {c, r})
  /\ UNCHANGED <<setup, hit, pc, chk, judged, point>>

(* The target ends, or is killed anywhere: between two visits, or in one,  *)
(* after the branch is listed and before its distance is stored.           *)
After == [c \in Running |->
            IF c = "run point" THEN "ran point" ELSE "ran neighbour"]

TargetEnds ==
  /\ pc \in Running
  /\ pc' = After[pc]
  /\ UNCHANGED <<setup, real, cmpReal, hit, mulVars, br_hit, chk, history>>

KilledInVisit(b) ==
  /\ pc \in Running
  /\ ~Ignored(b)
  /\ List(b)
  /\ pc' = After[pc]
  /\ UNCHANGED <<setup, real, cmpReal, hit, mulVars, chk, history>>

-----------------------------------------------------------------------------
(* calculate_obj_func rewrites the distances it reads: what it leaves in   *)
(* real[] is not what it found there.                                      *)

Exhausted(b) ==
  CASE obj_mode_cur = "ORIGIN" -> FALSE
    [] obj_mode_cur = "ADP1"   -> rightMul[b] = MAX_MUL /\ leftMul[b] = MAX_MUL
    [] obj_mode_cur = "ADP2"   -> rightMul[b] = Right[b] /\ leftMul[b] = Left[b]

Heavier(b) == FuzzerRight(b) < FuzzerLeft(b)           \* fault: swapped
Lighter(b) == FuzzerLeft(b) < FuzzerRight(b)

Evaluated(b) ==
  LET x == IF Lighter(b) THEN Negated(real[b]) ELSE real[b] IN
  IF b \notin Listed \/ real[b] = BR_NOHIT THEN real[b]
  ELSE IF Exhausted(b) THEN BR_FINISH
  ELSE IF x.neg THEN BR_SUCC
  ELSE x

Verdict(x) == CASE x = BR_NOHIT  -> "none"
                [] x = BR_FINISH -> "finish"
                [] x = BR_SUCC   -> "succ"
                [] OTHER         -> "fail"

CalculateObjFunc == real' = [b \in Branch |-> Evaluated(b)]

(* value(): the run is over, the objective function is calculated.  In     *)
(* gradient() only the neighbours are compared with what was saved.        *)
Value ==
  /\ pc \in {"ran point", "ran neighbour"}
  /\ CalculateObjFunc
  /\ judged' = [b \in Branch |-> Verdict(real'[b])]
  /\ pc' \in IF pc = "ran point" THEN {"save"} ELSE {"gradient", "check"}
  /\ UNCHANGED <<setup, cmpReal, hit, mulVars, br_hit, chk, sides, point>>

(* save_branch_hit calculates the objective function first.                *)
SaveBranchHit ==
  /\ pc = "save"
  /\ CalculateObjFunc
  /\ hit' = [b \in Branch |-> IF b \in Listed
                              THEN CASE real'[b] = BR_SUCC   -> "succ"
                                     [] real'[b] = BR_FINISH -> "finish"
                                     [] OTHER                -> "fail"
                              ELSE hit[b]]
  /\ point' = judged
  /\ pc' = "gradient"
  /\ UNCHANGED <<setup, cmpReal, mulVars, br_hit, chk, sides, judged>>

(* check_branch_hit: how the verdicts differ from the saved ones, weighed  *)
(* with what the two sides of the branch differ by.                        *)
NonNegative(x) ==                                      \* -0.0 >= 0 holds
  x.kind \in {"num", "flag"} /\ (x.neg => x.kind = "num" /\ x.mag = 0)
Wrong ==
  {b \in Listed : real[b] # BR_NOHIT /\ NonNegative(real[b]) /\ hit[b] = "succ"}
Changed == {b \in Listed : real[b] = BR_SUCC /\ hit[b] = "fail"}

Weight(b) == LET d == TargetLeft(b) - TargetRight(b) IN IF d > 0 THEN d ELSE -d
Balance   == MapThenSumSet(Weight, Changed) - MapThenSumSet(Weight, Wrong)

CheckBranchHit ==
  /\ pc = "check"
  /\ chk' = CASE Balance > 0 -> "BR_CHANGED"
              [] Balance < 0 -> "BR_WRONG"
              [] OTHER       -> "BR_UNCHANGED"
  /\ pc' \in {"gradient", "iterate"}
  /\ UNCHANGED <<setup, real, cmpReal, hit, mulVars, br_hit, history>>

Next ==
  \/ EvaluatePoint \/ EvaluateNeighbour
  \/ CalibratePoint \/ CalibrateNeighbour
  \/ \E b \in Branch : VisitBr(b) \/ KilledInVisit(b)
  \/ TargetEnds
  \/ Value \/ SaveBranchHit \/ CheckBranchHit

Spec == Init /\ [][Next]_vars

-----------------------------------------------------------------------------
(* Properties.                                                             *)

(* What a run leaves in the tables is found through br_hit[] alone: no     *)
(* branch keeps a distance or a verdict of an earlier run, even when the   *)
(* target was killed half-way through a visit.                             *)
NothingLeftOver ==
  \A b \in Branch \ Listed : real[b] = BR_NOHIT /\ hit[b] = "nohit"

(* Without multipliers the verdict of value() says which side of the       *)
(* branch the run took last, unless a visit left -2.0 in the branch or in  *)
(* its comparison: BR_SUCC is a distance like others, later visits change  *)
(* nothing, and the verdict is about the first visit that did so.  The     *)
(* sign set in the target and the one set in the fuzzer, from two          *)
(* computations of left and right, agree.                                  *)
SideJudged(b) == IF frozen[b] # "none" THEN frozen[b] ELSE side[b]
VerdictIsSide ==
  obj_mode_cur = "ORIGIN" /\ pc \in {"save", "gradient", "check"} =>
    \A b \in Branch :
      /\ judged[b] = "succ" => SideJudged(b) = "right"
      /\ judged[b] = "fail" => SideJudged(b) = "left"

(* gradient() wants to steer towards BR_CHANGED: when a neighbour passes a *)
(* branch with unequal sides that the point fails, and spoils no other,    *)
(* check_branch_hit says so.                                               *)
FlipNoticed ==
  /\ chk # "none"
  /\ \E b \in Branch : point[b] = "fail" /\ judged[b] = "succ" /\ Weight(b) > 0
  /\ \A b \in Branch : point[b] = "succ" => judged[b] # "fail"
  => chk = "BR_CHANGED"
=============================================================================
