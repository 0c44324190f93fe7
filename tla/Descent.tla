------------------------------- MODULE Descent -------------------------------
(***************************************************************************)
(* The gradient stage of fuzz_one: solve_lbfgs and the solver it runs      *)
(* (src/afl-lbfgs.cpp), with common_fuzz_stuff, which executes its inputs. *)
(*                                                                         *)
(* The point x is a vector of numbers, the test case out_buf a string of   *)
(* bytes.  value() does not write all of x to out_buf but only the bytes   *)
(* at mIdx and pIdx, when these are set.  What the target makes of an      *)
(* input is unpredictable, so gradients are any gradients; only which of   *)
(* their components vanish is kept.  A component of x is a whole number:   *)
(* its fraction is lost in the conversion to a byte, which wraps, as the   *)
(* conversion through s8 does in the code a compiler makes for x86.        *)
(*                                                                         *)
(* FuzzOne embeds these actions in the whole of fuzz_one.                  *)
(***************************************************************************)
EXTENDS Integers, Sequences, FiniteSets

CONSTANTS
  W,                  \* number of byte values; 256 in the code
  Modes,              \* the values of lbfgs_mode_cur to consider: "origin", "bound"
  ProbModes,          \* the values of prob_mode_cur: "none", "epsilon"
  PostHandler,        \* there is a post handler, which may reject an input
  Interesting,        \* the inputs save_if_interesting may keep
  ITERATION_MAX,      \* criteria.iterations
  EPSILON_AFTER,      \* 10 in minimize
  LINE_SEARCHES,      \* 5 in minimize
  TMOUT_LIMIT

ASSUME DescentAssumption ==
  /\ W \in Nat \ {0}
  /\ Modes \subseteq {"origin", "bound"} /\ ProbModes \subseteq {"none", "epsilon"}
  /\ PostHandler \in BOOLEAN
  /\ {ITERATION_MAX, EPSILON_AFTER, LINE_SEARCHES, TMOUT_LIMIT} \subseteq Nat

VARIABLES
  mode, prob,         \* the modes of this session
  queue,              \* the test cases, oldest first
  in_buf, out_buf,    \* the test case and the input made of it
  x,                  \* the point (<<>> outside the stage), with the offset of the neighbour being run
  mIdx, pIdx,         \* the bytes value() writes; 0 for -1
  d, s,               \* the loops of gradient: component and neighbour
  live,               \* the components whose gradient is not 0
  firstMove, iterations,
  small,              \* the gradient is below criteria.gradNorm
  flag, tries,        \* the line search of bound mode:
  back, tried,        \* the point before its last step, and the point it tries
  subseq_tmouts, skip_requested, stop_soon,
  pc

solver  == <<x, mIdx, pIdx, d, s, live, firstMove, iterations, small,
             flag, tries, back, tried>>
signals == <<subseq_tmouts, skip_requested, stop_soon>>

Byte  == 0 .. W - 1
Dims  == 1 .. Len(in_buf)
(* Bound: how far a component leaves the range of a byte.                  *)
Reach == 0 .. W
Neighbours == 1 .. 2

(* (u8)(s8): the byte a component is written as.                           *)
AsByte(r) == r % W
AsBytes(v) == [i \in 1 .. Len(in_buf) |-> AsByte(v[i])]

DescentInit ==
  /\ mode \in Modes /\ prob \in ProbModes
  /\ x = <<>> /\ back = <<>> /\ tried = <<>>
  /\ mIdx = 0 /\ pIdx = 0 /\ d = 0 /\ s = 0
  /\ live = {} /\ firstMove = FALSE /\ iterations = 0 /\ small = FALSE
  /\ flag = 0 /\ tries = 0
  /\ subseq_tmouts = 0 /\ skip_requested = FALSE /\ stop_soon = FALSE

-----------------------------------------------------------------------------
(* common_fuzz_stuff, with run_target and save_if_interesting, given buf:  *)
(* ret is what it returns.                                                 *)

Rejected(ret) ==
  PostHandler /\ ret = 0 /\ UNCHANGED <<queue, subseq_tmouts, skip_requested>>

RunInterrupted(ret) ==
  stop_soon /\ ret = 1 /\ UNCHANGED <<queue, subseq_tmouts, skip_requested>>

(* subseq_tmouts is only compared with its limit: it stops counting there. *)
OneMoreTimeout == IF subseq_tmouts > TMOUT_LIMIT THEN subseq_tmouts ELSE subseq_tmouts + 1

TooManyTimeouts(ret) ==
  /\ ~stop_soon /\ subseq_tmouts > TMOUT_LIMIT /\ ret = 1
  /\ subseq_tmouts' = OneMoreTimeout
  /\ UNCHANGED <<queue, skip_requested>>

EntrySkipped(ret) ==
  /\ ~stop_soon /\ skip_requested /\ ret = 1
  /\ skip_requested' = FALSE
  /\ \/ subseq_tmouts <= TMOUT_LIMIT /\ subseq_tmouts' = OneMoreTimeout
     \/ subseq_tmouts' = 0
  /\ UNCHANGED queue

Kept(buf) == buf \in Interesting /\ \A i \in DOMAIN queue : queue[i] # buf

InputJudged(buf, ret) ==
  /\ ~stop_soon /\ ~skip_requested /\ ret = 0
  /\ \/ subseq_tmouts <= TMOUT_LIMIT /\ subseq_tmouts' = OneMoreTimeout
     \/ subseq_tmouts' = 0
  /\ \/ Kept(buf) /\ queue' = Append(queue, buf)
     \/ UNCHANGED queue
  /\ UNCHANGED skip_requested

common_fuzz_stuff(buf, ret) ==
  /\ \/ Rejected(ret) \/ RunInterrupted(ret) \/ TooManyTimeouts(ret)
     \/ EntrySkipped(ret) \/ InputJudged(buf, ret)
  /\ UNCHANGED stop_soon

-----------------------------------------------------------------------------
(* value(): the bytes at mIdx and pIdx are written, all of them when both  *)
(* are unset; what common_fuzz_stuff returns is ignored.                   *)
Written(v) ==
  IF mIdx = 0 /\ pIdx = 0 THEN AsBytes(v)
  ELSE [i \in DOMAIN out_buf |-> IF i \in {mIdx, pIdx} THEN AsByte(v[i]) ELSE out_buf[i]]

Value ==
  /\ out_buf' = Written(x)
  /\ \E ret \in {0, 1} : common_fuzz_stuff(out_buf', ret)

Goto(l) == pc' = l
(* The components in free take any values.                                 *)
Moved(free) ==
  x' \in {v \in [Dims -> Reach] : \A i \in Dims \ free : v[i] = x[i]}

(* init_lbfgs, and solve_lbfgs up to the loop of minimize.                 *)
Solve ==
  /\ x' = in_buf /\ back' = <<>> /\ tried' = <<>>
  /\ firstMove' = TRUE /\ iterations' = 0 /\ flag' = 0 /\ tries' = 0
  /\ mIdx' = 0 /\ pIdx' = 0
  /\ live' = {} /\ small' = FALSE
  /\ Goto("point")
  /\ UNCHANGED <<d, s>>

(* The head of minimize's loop: f(x0), then the dice.                      *)
Point ==
  /\ pc = "point"
  /\ Value
  /\ \/ prob = "epsilon" /\ iterations > EPSILON_AFTER /\ Goto("epsilon")
     \/ Goto("centre")
  /\ UNCHANGED <<mode, prob, in_buf, solver>>

(* x0 drawn around the point, or with bits of it flipped.                  *)
Epsilon ==
  /\ pc = "epsilon"
  /\ Moved(Dims)
  /\ Goto("converge")
  /\ UNCHANGED <<mode, prob, queue, in_buf, out_buf, mIdx, pIdx, d, s, live, firstMove,
                 iterations, small, flag, tries, back, tried, signals>>

(* gradient(): the point once more.                                        *)
Centre ==
  /\ pc = "centre"
  /\ Value
  /\ d' = 1
  /\ Goto("component")
  /\ UNCHANGED <<mode, prob, in_buf, x, mIdx, pIdx, s, live, firstMove, iterations,
                 small, flag, tries, back, tried>>

Skipped(i) == i \notin live /\ ~firstMove

SkipComponent ==
  /\ pc = "component" /\ d \in Dims /\ Skipped(d)
  /\ d' = d + 1
  /\ UNCHANGED <<mode, prob, queue, in_buf, out_buf, x, mIdx, pIdx, s, live, firstMove,
                 iterations, small, flag, tries, back, tried, signals, pc>>

Offset(n) == IF n = 1 THEN 1 ELSE -1
Shifted(v, i, by) == [v EXCEPT ![i] = @ + by]

ForgetsLast == UNCHANGED pIdx \* fault: the byte of the last component is not restored
RemembersLast == pIdx' = mIdx

StartComponent ==
  /\ pc = "component" /\ d \in Dims /\ ~Skipped(d)
  /\ RemembersLast /\ mIdx' = d
  /\ s' = 1
  /\ x' = Shifted(x, d, Offset(1))
  /\ Goto("neighbour")
  /\ UNCHANGED <<mode, prob, queue, in_buf, out_buf, d, live, firstMove, iterations,
                 small, flag, tries, back, tried, signals>>

(* vxx[s] = value(xx), up to check_branch_hit.                             *)
Neighbour ==
  /\ pc = "neighbour"
  /\ Value
  /\ Goto("compare")
  /\ UNCHANGED <<mode, prob, in_buf, solver>>

(* The first neighbour judged and undone, the second made.                 *)
NextNeighbour ==
  /\ pc = "compare" /\ s = 1
  /\ s' = 2
  /\ x' = Shifted(Shifted(x, d, -Offset(1)), d, Offset(2))
  /\ Goto("neighbour")
  /\ UNCHANGED <<mode, prob, queue, in_buf, out_buf, mIdx, pIdx, d, live, firstMove,
                 iterations, small, flag, tries, back, tried, signals>>

EndComponent ==
  /\ pc = "compare" /\ s = 2
  /\ x' = Shifted(x, d, -Offset(2))
  /\ live' \in {live \cup {d}, live \ {d}}
  /\ d' = d + 1 /\ s' = 0
  /\ Goto("component")
  /\ UNCHANGED <<mode, prob, queue, in_buf, out_buf, mIdx, pIdx, firstMove, iterations,
                 small, flag, tries, back, tried, signals>>

EndGradient ==
  /\ pc = "component" /\ d \notin Dims
  /\ firstMove' = FALSE
  /\ small' \in (IF live = {} THEN {TRUE} ELSE BOOLEAN)
  /\ tries' = 0 /\ d' = 0
  /\ Goto("step")
  /\ UNCHANGED <<mode, prob, queue, in_buf, out_buf, x, mIdx, pIdx, s, live,
                 iterations, flag, back, tried, signals>>

(* x0 - rate * direction.  The step is undone with the rate that has just  *)
(* been changed (ChangeRate), so the next try leads to the same point.     *)
Step ==
  /\ pc = "step"
  /\ IF tries = 0 THEN Moved(live) ELSE x' = tried
  /\ IF mode = "bound" THEN back' = x /\ tried' = x' ELSE UNCHANGED <<back, tried>>
  /\ Goto(IF mode = "bound" THEN "try" ELSE "converge")
  /\ UNCHANGED <<mode, prob, queue, in_buf, out_buf, mIdx, pIdx, d, s, live, firstMove,
                 iterations, small, flag, tries, signals>>

(* Bound mode: the new point is run and taken,                             *)
TakeStep ==
  /\ pc = "try"
  /\ Value
  /\ Goto("converge")
  /\ UNCHANGED <<mode, prob, in_buf, solver>>

(* or the rate is changed and the step undone with the new rate, until     *)
(* tries run out,                                                          *)
ChangeRate ==
  /\ pc = "try"
  /\ Value
  /\ flag' \in {-1, 1} /\ flag # -flag'
  /\ Moved(live)
  /\ tries' = tries + 1
  /\ Goto(IF tries' = LINE_SEARCHES THEN "solved" ELSE "step")
  /\ UNCHANGED <<mode, prob, in_buf, mIdx, pIdx, d, s, live, firstMove, iterations,
                 small, back, tried>>

(* or the rate has been changed the other way before: the search is over.  *)
GiveUpStep ==
  /\ pc = "try" /\ flag # 0
  /\ Value
  /\ flag' = -2
  /\ x' = back
  /\ Goto("solved")
  /\ UNCHANGED <<mode, prob, in_buf, mIdx, pIdx, d, s, live, firstMove, iterations,
                 small, tries, back, tried>>

Converged(n) == n > ITERATION_MAX \/ small

CheckConvergence ==
  /\ pc = "converge"
  /\ iterations' = iterations + 1
  /\ tries' = 0 /\ back' = <<>> /\ tried' = <<>>
  /\ IF Converged(iterations')
     THEN Goto("solved") /\ UNCHANGED <<mIdx, pIdx>>
     ELSE Goto("point") /\ mIdx' = 0 /\ pIdx' = 0
  /\ UNCHANGED <<mode, prob, queue, in_buf, out_buf, x, d, s, live, firstMove, small,
                 flag, signals>>

(* fx = f(x) at the end of solve_lbfgs, free_lbfgs, and the test case      *)
(* restored.                                                               *)
EndDescent(next) ==
  /\ pc = "solved"
  /\ \E ret \in {0, 1} : common_fuzz_stuff(Written(x), ret)
  /\ out_buf' = in_buf
  /\ x' = <<>> /\ back' = <<>> /\ tried' = <<>>
  /\ mIdx' = 0 /\ pIdx' = 0 /\ d' = 0 /\ s' = 0
  /\ live' = {} /\ firstMove' = FALSE /\ iterations' = 0 /\ small' = FALSE
  /\ flag' = 0 /\ tries' = 0
  /\ Goto(next)
  /\ UNCHANGED <<mode, prob, in_buf>>

Descend ==
  \/ Point \/ Epsilon \/ Centre
  \/ SkipComponent \/ StartComponent \/ Neighbour \/ NextNeighbour
  \/ EndComponent \/ EndGradient
  \/ Step \/ TakeStep \/ ChangeRate \/ GiveUpStep
  \/ CheckConvergence

-----------------------------------------------------------------------------
(* Every input run while gradient() looks at the neighbours of a point is  *)
(* the neighbour itself, although only two of its bytes are written: the   *)
(* byte of the previous component is put back, and what was written for    *)
(* the components before that has been put back in turn.                   *)
NeighbourInput == pc = "compare" => out_buf = AsBytes(x)
=============================================================================
