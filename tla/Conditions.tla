------------------------------ MODULE Conditions ------------------------------
(***************************************************************************)
(* The condition of a branch: how visitBrInst (maxafl-pass.cpp) writes it  *)
(* down as a list of comparisons and operators, with a flag on each that   *)
(* says whether it is negated, and how __maxafl_visit_br                   *)
(* (afl-llvm-rt.o.c) works out the distance of the branch from the list    *)
(* and the distances of the comparisons, with a stack.                     *)
(*                                                                         *)
(* A condition is a list of instructions, the last of which the branch is  *)
(* on: a comparison, a Boolean from elsewhere ("etc"), or an operator on   *)
(* the results of instructions before it, which others may use as well.    *)
(***************************************************************************)
EXTENDS Integers, Sequences, Distances

CONSTANTS
  Instructions,     \* the conditions to consider
  Leaves,           \* the numbers of the comparisons and Booleans in them
  OpSize,           \* how many values opsize leaves an operand: 2 ^ 32
  CmpArgs           \* bound: the operands <<n, a, b>> of the comparisons, bit
                    \* patterns of an integer type with n values

cmp(id) == [op |-> "cmp", id |-> id]
etc(id) == [op |-> "etc", id |-> id]
bin(op, l, r) == [op |-> op, l |-> l, r |-> r]
not(e) == [op |-> "not", e |-> e]

(* What may stand at place k of a condition.                               *)
InstructionsAt(k) ==
  {cmp(id) : id \in Leaves} \cup {etc(id) : id \in Leaves}
    \cup {not(e) : e \in 1 .. k - 1}
    \cup {bin(op, l, r) : op \in {"and", "or", "xor"},
                          l \in 1 .. k - 1, r \in 1 .. k - 1}

ASSUME ConditionsAssumption ==
  /\ OpSize \in Nat \ {0}
  /\ \A x \in CmpArgs :
       /\ x[1] \in Nat \ {0} /\ (x[1] <= OpSize \/ x[1] % OpSize = 0)
       /\ x[2] \in 0 .. x[1] - 1 /\ x[3] \in 0 .. x[1] - 1
  /\ \A c \in Instructions :
       Len(c) \in Nat \ {0} /\ \A k \in 1 .. Len(c) : c[k] \in InstructionsAt(k)

VARIABLES
  condition, heavy, \* of the branch; left has at least the instructions of right
  work,             \* what visitBrInst has still to visit
  cmpvec,           \* the list it has written
  cmp_info,         \* [leaf -> the distance its visit stored, <<>> before]
  truth,            \* history: [leaf -> what it came out as last]
  unreliable,       \* history: the leaves whose distance need not say so
  at, stack         \* of __maxafl_visit_br: entries left, values worked out

condVars ==
  <<condition, heavy, work, cmpvec, cmp_info, truth, unreliable, at, stack>>

-----------------------------------------------------------------------------
(* visitBrInst: operands after their operator.  An exclusive or becomes    *)
(* an or of two ands; one with a constant, the only form of a negation,    *)
(* turns the flag of what is below it.                                     *)

Item(k, no) == [node |-> k, emit |-> "none", no |-> no]
Operator(op, no) == [node |-> 0, emit |-> op, no |-> no]
Entry(what, id, no) == [what |-> what, id |-> id, no |-> no]

ConditionInit(on) ==
  /\ IF on
     THEN /\ condition \in Instructions /\ heavy \in BOOLEAN
          /\ work = <<Item(Len(condition), FALSE)>>
     ELSE condition = <<>> /\ heavy = FALSE /\ work = <<>>
  /\ cmpvec = <<>>
  /\ cmp_info = [l \in Leaves |-> <<>>] /\ truth = [l \in Leaves |-> FALSE]
  /\ unreliable = {}
  /\ at = 0 /\ stack = <<>>

Visiting == work # <<>> /\ Head(work).emit = "none"
top == condition[Head(work).node]
no == Head(work).no

VisitLeaf ==
  /\ Visiting /\ top.op \in {"cmp", "etc"}
  /\ cmpvec' = Append(cmpvec, Entry(top.op, top.id, no))
  /\ work' = Tail(work)
  /\ UNCHANGED <<condition, heavy, cmp_info, truth, unreliable, at, stack>>

VisitNot ==
  /\ Visiting /\ top.op = "not"
  /\ work' = <<Item(top.e, ~no)>> \o Tail(work)
  /\ UNCHANGED <<condition, heavy, cmpvec, cmp_info, truth, unreliable, at, stack>>

VisitAndOr ==
  /\ Visiting /\ top.op \in {"and", "or"}
  /\ cmpvec' = Append(cmpvec, Entry(top.op, -1, no))
  /\ work' = <<Item(top.l, no), Item(top.r, no)>> \o Tail(work)
  /\ UNCHANGED <<condition, heavy, cmp_info, truth, unreliable, at, stack>>

VisitXor ==
  /\ Visiting /\ top.op = "xor"
  /\ cmpvec' = Append(cmpvec, Entry("or", -1, no))
  /\ work' = <<Operator("and", no), Item(top.l, ~no), Item(top.r, no),
               Operator("and", no), Item(top.l, no), Item(top.r, ~no)>>
             \o Tail(work)
  /\ UNCHANGED <<condition, heavy, cmp_info, truth, unreliable, at, stack>>

EmitOperator ==
  /\ work # <<>> /\ ~Visiting
  /\ cmpvec' = Append(cmpvec, Entry(Head(work).emit, -1, no))
  /\ work' = Tail(work)
  /\ UNCHANGED <<condition, heavy, cmp_info, truth, unreliable, at, stack>>

-----------------------------------------------------------------------------
(* The run: __maxafl_visit_cmp_integer, __maxafl_visit_cmp_float and       *)
(* __maxafl_visit_etc store what the comparisons were, before the branch   *)
(* is reached and again whenever the program comes by.                     *)

(* A difference as a double; a zero of it is positive.                     *)
Double(n) == Num(n < 0, IF n < 0 THEN -n ELSE n)
MinusZero(x) == IF x.mag = 0 THEN Num(TRUE, 0) ELSE x
PlainZero(x) == x                                       \* fault: no -0.0

AtEquality(x) == MinusZero(x)

Abs(x) == IF x < 0 THEN -x ELSE x
AsSigned(x, n) == IF 2 * x < n THEN x ELSE x - n

(* castCmpArgType extends an operand to 64 bits, with and without its      *)
(* sign, and the runtime keeps the low opsize of them: visitCmpInst always *)
(* says 32, whatever the type of the operands.                             *)
ZeroExtended(x, n) == x % OpSize                        \* fault: sign lost
sarg(x, n) == IF n <= OpSize THEN AsSigned(x, n) ELSE AsSigned(x % OpSize, OpSize)
zarg(x, n) == x % OpSize

(* The distance is negative, or minus zero, when the predicate holds of    *)
(* what is left of the operands.                                           *)
visit_cmp_integer(pred, n, a, b) ==
  LET s == sarg(b, n) - sarg(a, n)
      z == zarg(b, n) - zarg(a, n)
      d == IF Abs(s) < Abs(z) THEN Abs(s) ELSE Abs(z)
  IN  CASE pred = "EQ"  -> AtEquality(Double(d))
        [] pred = "NE"  -> Negated(AtEquality(Double(d)))
        [] pred = "UGT" -> Double(z)
        [] pred = "ULE" -> Negated(Double(z))
        [] pred = "UGE" -> AtEquality(Double(z))
        [] pred = "ULT" -> Negated(AtEquality(Double(z)))
        [] pred = "SGT" -> Double(s)
        [] pred = "SLE" -> Negated(Double(s))
        [] pred = "SGE" -> AtEquality(Double(s))
        [] pred = "SLT" -> Negated(AtEquality(Double(s)))

(* Among doubles the negation of NE, LE and LT is worked out, not applied. *)
visit_cmp_float(pred, a, b) ==
  CASE pred \in {"EQ", "NE"} -> AtEquality(Double(Abs(b - a)))
    [] pred \in {"GT", "LE"} -> Double(b - a)
    [] pred \in {"GE", "LT"} -> AtEquality(Double(b - a))

FloatPredicates == {"EQ", "NE", "GT", "LE", "GE", "LT"}
Fulfilled(pred, a, b) ==
  \/ pred = "EQ" /\ a = b
  \/ pred = "NE" /\ a # b
  \/ pred = "GT" /\ a > b
  \/ pred = "LE" /\ a <= b
  \/ pred = "GE" /\ a >= b
  \/ pred = "LT" /\ a < b

(* The integer predicates, by what they ask of the patterns or, some of    *)
(* them, of what the patterns are as signed numbers.                       *)
OrderOf == [EQ |-> "EQ", NE |-> "NE",
            UGT |-> "GT", ULE |-> "LE", UGE |-> "GE", ULT |-> "LT",
            SGT |-> "GT", SLE |-> "LE", SGE |-> "GE", SLT |-> "LT"]
IntegerPredicates == DOMAIN OrderOf
SignedPredicates == {"SGT", "SLE", "SGE", "SLT"}
FulfilledBy(pred, n, a, b) ==
  IF pred \in SignedPredicates
  THEN Fulfilled(OrderOf[pred], AsSigned(a, n), AsSigned(b, n))
  ELSE Fulfilled(OrderOf[pred], a, b)

(* Nothing is lost when 32 bits hold both operands, read as the predicate  *)
(* reads them; whether they are equal may be read either way.              *)
FitsSigned(x, n) ==
  n <= OpSize \/ (-OpSize <= 2 * AsSigned(x, n) /\ 2 * AsSigned(x, n) < OpSize)
FitsUnsigned(x) == x < OpSize
Fits(pred, n, a, b) ==
  \/ pred \notin SignedPredicates /\ FitsUnsigned(a) /\ FitsUnsigned(b)
  \/ /\ pred \in {"EQ", "NE"} \cup SignedPredicates
     /\ FitsSigned(a, n) /\ FitsSigned(b, n)

Entries == {cmpvec[k] : k \in 1 .. Len(cmpvec)}
Written == condition # <<>> /\ work = <<>>
Comparisons(what) == {e.id : e \in {x \in Entries : x.what = what}}

Started == stack # <<>> \/ at # 0

(* A distance that is -2.0 is taken for BR_SUCC and kept, whatever the     *)
(* comparison comes out as from then on.                                   *)
CmpFrozen(id) == cmp_info[id] = <<BR_SUCC>>

Store(id, d, holds, faithful) ==
  /\ cmp_info' =
       IF CmpFrozen(id) THEN cmp_info ELSE [cmp_info EXCEPT ![id] = <<d>>]
  /\ truth' = [truth EXCEPT ![id] = holds]
  /\ unreliable' = IF faithful /\ ~CmpFrozen(id)
                   THEN unreliable \ {id} ELSE unreliable \cup {id}
  /\ UNCHANGED <<condition, heavy, work, cmpvec, at, stack>>

Reached(what, id) == Written /\ ~Started /\ id \in Comparisons(what)

(* The predicate of a comparison and its type are chosen when it is run.   *)
VisitCmpInteger(id) ==
  /\ Reached("cmp", id)
  /\ \E pred \in IntegerPredicates, x \in CmpArgs :
       Store(id, visit_cmp_integer(pred, x[1], x[2], x[3]),
             FulfilledBy(pred, x[1], x[2], x[3]), Fits(pred, x[1], x[2], x[3]))

VisitCmpFloat(id) ==
  /\ Reached("cmp", id)
  /\ \E pred \in FloatPredicates, x \in CmpArgs :
       Store(id, visit_cmp_float(pred, x[2], x[3]), Fulfilled(pred, x[2], x[3]),
             pred \notin {"NE", "LE", "LT"})

VisitEtc(id) ==
  /\ Reached("etc", id)
  /\ \E b \in BOOLEAN : Store(id, Flag(b), b, TRUE)

StartVisit ==
  /\ Written /\ ~Started
  /\ \A id \in Comparisons("cmp") \cup Comparisons("etc") : cmp_info[id] # <<>>
  /\ at' = Len(cmpvec)
  /\ UNCHANGED <<condition, heavy, work, cmpvec, cmp_info, truth, unreliable, stack>>

-----------------------------------------------------------------------------
(* __maxafl_visit_br, from the last entry of the list to the first.        *)

cmpNo == cmpvec[at].no # heavy
Take(values) ==
  /\ stack' = values /\ at' = at - 1
  /\ UNCHANGED <<condition, heavy, work, cmpvec, cmp_info, truth, unreliable>>

PushLeaf ==
  /\ at > 0 /\ cmpvec[at].what \in {"cmp", "etc"}
  /\ LET r == cmp_info[cmpvec[at].id][1]
     IN  Take(<<IF cmpNo THEN Negated(r) ELSE r>> \o stack)

(* The value of a double in halves, flags being tiny: -0.0 equals 0.0.     *)
Below(x, y) ==
  LET n(d) == IF d.kind = "flag" THEN (IF d.neg THEN -1 ELSE 1)
              ELSE IF d.neg THEN -2 * d.mag ELSE 2 * d.mag
  IN  n(x) < n(y)

Nearest(x, y) ==
  CASE x = BR_TRUE \/ y = BR_TRUE -> BR_TRUE
    [] x = BR_FALSE -> y
    [] y = BR_FALSE -> x
    [] OTHER -> IF Below(x, y) THEN x ELSE y
Furthest(x, y) ==
  CASE x = BR_FALSE \/ y = BR_FALSE -> BR_FALSE
    [] x = BR_TRUE -> y
    [] y = BR_TRUE -> x
    [] OTHER -> IF Below(y, x) THEN x ELSE y

(* Which operator takes the nearer distance depends on the negation.       *)
binop_or == IF cmpNo THEN "or" ELSE "and"

Combine ==
  /\ at > 0 /\ cmpvec[at].what \in {"and", "or"}
  /\ Len(stack) >= 2
  /\ Take(<<IF cmpvec[at].what = binop_or THEN Nearest(stack[1], stack[2])
             ELSE Furthest(stack[1], stack[2])>> \o SubSeq(stack, 3, Len(stack)))

CondNext ==
  \/ VisitLeaf \/ VisitNot \/ VisitAndOr \/ VisitXor \/ EmitOperator
  \/ \E id \in Leaves : VisitCmpInteger(id) \/ VisitCmpFloat(id) \/ VisitEtc(id)
  \/ StartVisit \/ PushLeaf \/ Combine

CondSpec == ConditionInit(TRUE) /\ [][CondNext]_condVars

-----------------------------------------------------------------------------
(* Properties.                                                             *)

(* What an instruction yields, from what earlier ones and leaves do.       *)
Yields(e, m, t) ==
  CASE e.op \in {"cmp", "etc"} -> t[e.id]
    [] e.op = "not" -> ~m[e.e]
    [] e.op = "and" -> m[e.l] /\ m[e.r]
    [] e.op = "or"  -> m[e.l] \/ m[e.r]
    [] e.op = "xor" -> m[e.l] # m[e.r]
meaning[k \in 1 .. Len(condition)] == Yields(condition[k], meaning, truth)
Meaning == meaning[Len(condition)]

Visited == Written /\ at = 0 /\ stack # <<>>

(* calculate_obj_func negates what the target has not, and takes a         *)
(* negative distance for a branch passed.                                  *)
Passed == (IF heavy THEN stack[1] ELSE Negated(stack[1])).neg
(* Conditions that are a conjunction, or a disjunction, once negations are *)
(* pushed down to the comparisons; a single comparison is both.            *)
Dual == [and |-> "or", or |-> "and"]
FormsOf(e, a) ==
  CASE e.op \in {"cmp", "etc"} -> {"and", "or"}
    [] e.op = "not" -> {Dual[op] : op \in a[e.e]}
    [] e.op \in {"and", "or"} -> {e.op} \cap a[e.l] \cap a[e.r]
    [] e.op = "xor" -> {}
allOf[k \in 1 .. Len(condition)] == FormsOf(condition[k], allOf)
AllOf(op) == op \in allOf[Len(condition)]

(* A branch on one comparison counts as passed exactly when its right side *)
(* is taken.  The operators of a compound condition take the nearer        *)
(* distance where both sides are wanted, and the other way round: a        *)
(* conjunction that counts as passed is false, a disjunction that does not *)
(* is true, and no more can be told.  All this is so while no comparison   *)
(* is unreliable: one whose operands do not fit in 32 bits, one of doubles *)
(* that the runtime has to negate, one whose distance was -2.0 before.     *)
VerdictNamesSide ==
  Visited /\ unreliable = {} =>
    /\ AllOf("and") => (Passed => ~Meaning)
    /\ AllOf("or") => (~Passed => Meaning)
=============================================================================
