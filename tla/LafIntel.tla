------------------------------- MODULE LafIntel -------------------------------
(***************************************************************************)
(* What the LAF-Intel passes of src/llvm_mode make of a comparison         *)
(* (split-compares-pass.so.cc), of a switch (split-switches-pass.so.cc)    *)
(* and of a call of strcmp or memcmp with one constant string              *)
(* (compare-transform-pass.so.cc): the code they emit, as it runs.         *)
(*                                                                         *)
(* A byte has Byte bits, so that the widths 16, 32 and 64 of the passes    *)
(* stand for two, four and eight of them.                                  *)
(***************************************************************************)
EXTENDS Integers, Sequences, FiniteSets

CONSTANTS
  Byte,             \* bound: the bits of a byte
  SplitFrom,        \* values of LAF_SPLIT_COMPARES_BITW, in bytes
  Compares,         \* <<width, first operand, second operand>> to consider
  SwitchBytes,      \* the bytes of the value switched on
  SwitchCases,      \* sets of case values to consider
  Literals,         \* the constant strings, without their final zero
  Buffers           \* what the other argument points to

(* The values a number of bits has.                                        *)
pow2[n \in Nat] == IF n = 0 THEN 1 ELSE 2 * pow2[n - 1]
Bits(n) == 0 .. pow2[n] - 1

ASSUME LafAssumption ==
  /\ Byte \in Nat \ {0} /\ SwitchBytes \in Nat \ {0}
  /\ \A c \in Compares : c[1] \in Nat \ {0} /\ {c[2], c[3]} \subseteq Bits(c[1])
  /\ \A cases \in SwitchCases : cases # {} /\ cases \subseteq Bits(Byte * SwitchBytes)
  /\ Literals \subseteq Seq(Bits(Byte) \ {0}) /\ Buffers \subseteq Seq(Bits(Byte))

VARIABLES
  bitw, asked,      \* the comparison in the source
  node, pending,    \* what is evaluated next, and the branches that wait
  switch, value,    \* the case values and the value switched on
  cases, bytesChecked, dest,
  call, i, cmp_phi  \* the string comparison, the byte it is at, its result

compareVars == <<bitw, asked, node, pending>>
switchVars == <<switch, value, cases, bytesChecked, dest>>
stringVars == <<call, i, cmp_phi>>
lafVars == <<compareVars, switchVars, stringVars>>

None == [is |-> "none"]
Default == -1       \* the default of a switch, among the case values

-----------------------------------------------------------------------------
(* Comparisons.  A node is a comparison, a branch on one, or a value.      *)

Cmp(pred, w, a, b) == [is |-> "cmp", pred |-> pred, w |-> w, a |-> a, b |-> b]
CondBr(test, yes, no) == [is |-> "branch", test |-> test, yes |-> yes, no |-> no]
Val(v) == [is |-> "val", v |-> v]

Signed(x, w) == IF x >= pow2[w - 1] THEN x - pow2[w] ELSE x

(* The predicates of an icmp, as LLVM defines them.                        *)
Holds(c) ==
  LET s == Signed(c.a, c.w)
      t == Signed(c.b, c.w)
  IN  CASE c.pred = "EQ"  -> c.a = c.b [] c.pred = "NE"  -> c.a # c.b
        [] c.pred = "UGT" -> c.a > c.b [] c.pred = "UGE" -> c.a >= c.b
        [] c.pred = "ULT" -> c.a < c.b [] c.pred = "ULE" -> c.a <= c.b
        [] c.pred = "SGT" -> s > t     [] c.pred = "SGE" -> s >= t
        [] c.pred = "SLT" -> s < t     [] c.pred = "SLE" -> s <= t

Strict == [UGE |-> "UGT", SGE |-> "SGT", ULE |-> "ULT", SLE |-> "SLT"]
simplifyCompares(c) ==
  CondBr(Cmp(Strict[c.pred], c.w, c.a, c.b), Val(TRUE), Cmp("EQ", c.w, c.a, c.b))

SignBit(x, w) == x \div pow2[w - 1]
Unsigned == [SGT |-> "UGT", SLT |-> "ULT"]
Inverted == [UGT |-> "ULT", ULT |-> "UGT"]

(* Operands of one sign compare as unsigned ones; else the sign bits do,   *)
(* the other way round.                                                    *)
simplifySignedness(c) ==
  LET a == SignBit(c.a, c.w)
      b == SignBit(c.b, c.w)
      pred == Unsigned[c.pred]
  IN  CondBr(Cmp("EQ", 1, a, b), Cmp(pred, c.w, c.a, c.b), Cmp(Inverted[pred], 1, a, b))

(* The high halves decide; the low ones when the high ones are equal.  An  *)
(* order is only known to be false once the inverse has been tested.       *)
NotTested(test, low) == low                             \* fault: no inverse test
Tested(test, low) == CondBr(test, Val(FALSE), low)

splitCompares(c) ==
  LET half == c.w \div 2
      high(pred) == Cmp(pred, half, c.a \div pow2[half], c.b \div pow2[half])
      low == Cmp(c.pred, half, c.a % pow2[half], c.b % pow2[half])
  IN  CASE c.pred = "EQ" -> CondBr(high("EQ"), low, Val(FALSE))
        [] c.pred = "NE" -> CondBr(high("NE"), Val(TRUE), low)
        [] OTHER -> CondBr(high(c.pred), Val(TRUE), Tested(high(Inverted[c.pred]), low))

(* The widths that are split; none when the variable has another value.    *)
Widths == {w * Byte : w \in {k \in {2, 4, 8} : bitw \in {2, 4, 8} /\ k <= bitw}}

CompareInit(on) ==
  IF on
  THEN /\ bitw \in SplitFrom
       /\ \E pred \in {"EQ", "NE", "UGT", "UGE", "ULT", "ULE", "SGT", "SGE", "SLT", "SLE"},
             operands \in Compares :
            asked = Cmp(pred, operands[1], operands[2], operands[3])
       /\ node = asked /\ pending = <<>>
  ELSE bitw = 0 /\ asked = None /\ node = None /\ pending = <<>>

Simplify ==
  /\ node.is = "cmp" /\ node.pred \in DOMAIN Strict
  /\ node' = simplifyCompares(node)
  /\ UNCHANGED <<bitw, asked, pending>>

RemoveSign ==
  /\ node.is = "cmp" /\ node.pred \in DOMAIN Unsigned
  /\ node' = simplifySignedness(node)
  /\ UNCHANGED <<bitw, asked, pending>>

Split ==
  /\ node.is = "cmp" /\ node.pred \in {"EQ", "NE", "UGT", "ULT"} /\ node.w \in Widths
  /\ node' = splitCompares(node)
  /\ UNCHANGED <<bitw, asked, pending>>

Compare ==
  /\ node.is = "cmp" /\ node.pred \in {"EQ", "NE", "UGT", "ULT"} /\ node.w \notin Widths
  /\ node' = Val(Holds(node))
  /\ UNCHANGED <<bitw, asked, pending>>

TakeTest ==
  /\ node.is = "branch"
  /\ node' = node.test /\ pending' = <<node>> \o pending
  /\ UNCHANGED <<bitw, asked>>

Follow ==
  /\ node.is = "val" /\ pending # <<>>
  /\ node' = IF node.v THEN Head(pending).yes ELSE Head(pending).no
  /\ pending' = Tail(pending)
  /\ UNCHANGED <<bitw, asked>>

CompareNext == Simplify \/ RemoveSign \/ Split \/ Compare \/ TakeTest \/ Follow

-----------------------------------------------------------------------------
(* Switches: the walk down the tree switchConvert builds.                  *)

Bytes == 0 .. SwitchBytes - 1
ByteOf(x, k) == (x \div pow2[Byte * k]) % pow2[Byte]
ByteSet(k) == {ByteOf(c, k) : c \in cases}

SwitchInit(on) ==
  /\ IF on THEN switch \in SwitchCases /\ value \in Bits(Byte * SwitchBytes)
     ELSE switch = {} /\ value = 0
  /\ cases = switch /\ bytesChecked = {} /\ dest = {}

Unchecked == Bytes \ bytesChecked

(* The byte with the fewest values among the cases left, the first of them.*)
smallestIndex ==
  CHOOSE k \in Unchecked : \A l \in Unchecked :
    LET m == Cardinality(ByteSet(k))
        n == Cardinality(ByteSet(l))
    IN  m < n \/ (m = n /\ k <= l)

Walking == switch # {} /\ dest = {}
SingleValue == Cardinality(ByteSet(smallestIndex)) = 1

ByteMatches ==
  /\ Walking /\ SingleValue
  /\ ByteOf(value, smallestIndex) \in ByteSet(smallestIndex)
  /\ bytesChecked' = bytesChecked \cup {smallestIndex}
  /\ dest' = IF bytesChecked' = Bytes THEN cases ELSE {}
  /\ UNCHANGED <<switch, value, cases>>

ByteDiffers ==
  /\ Walking /\ SingleValue
  /\ ByteOf(value, smallestIndex) \notin ByteSet(smallestIndex)
  /\ dest' = {Default}
  /\ UNCHANGED <<switch, value, cases, bytesChecked>>

(* The value in the middle of the sorted ones.                             *)
pivot ==
  LET values == ByteSet(smallestIndex)
  IN  CHOOSE p \in values :
        Cardinality({b \in values : b < p}) = Cardinality(values) \div 2

PivotToo(b) == b <= pivot                               \* fault: boundary on the left
LeftOfPivot(b) == b < pivot

Descend ==
  /\ Walking /\ ~SingleValue
  /\ cases' = {c \in cases : LeftOfPivot(ByteOf(c, smallestIndex))
                               <=> ByteOf(value, smallestIndex) < pivot}
  /\ UNCHANGED <<switch, value, bytesChecked, dest>>

SwitchNext == ByteMatches \/ ByteDiffers \/ Descend

-----------------------------------------------------------------------------
(* strcmp and memcmp: one block per byte of the constant string.           *)

OffByOne(s) == Len(s)                                   \* fault: the final zero is left out
GetStringLength(s) == Len(s) + 1
CharAt(s, k) == IF k <= Len(s) THEN s[k] ELSE 0

StringInit(on) ==
  /\ IF on
     THEN \E literal \in Literals, buffer \in Buffers, hasStr1, isMemcmp \in BOOLEAN :
            \E len \in IF isMemcmp THEN 1 .. GetStringLength(literal)
                       ELSE {GetStringLength(literal)} :
              /\ IF isMemcmp THEN Len(buffer) >= len \* memory the program owns
                 ELSE \E k \in DOMAIN buffer : buffer[k] = 0
              /\ call = [is |-> "call", literal |-> literal, buffer |-> buffer,
                         hasStr1 |-> hasStr1, isMemcmp |-> isMemcmp, constLen |-> len]
     ELSE call = None
  /\ i = 1 /\ cmp_phi = <<>>

isub ==
  LET c == CharAt(call.literal, i)
      load == call.buffer[i]
  IN  (IF call.hasStr1 THEN c - load ELSE load - c) % pow2[Byte]

CompareByte ==
  /\ call # None /\ cmp_phi = <<>>
  /\ IF isub = 0 /\ i < call.constLen
     THEN i' = i + 1 /\ UNCHANGED cmp_phi
     ELSE cmp_phi' = <<Signed(isub, Byte)>> /\ UNCHANGED i
  /\ UNCHANGED call

-----------------------------------------------------------------------------
(* One of the three per behaviour.                                         *)

LafInit(kind) ==
  CompareInit(kind = "compare") /\ SwitchInit(kind = "switch") /\ StringInit(kind = "string")

LafNext ==
  \/ CompareNext /\ UNCHANGED <<switchVars, stringVars>>
  \/ SwitchNext /\ UNCHANGED <<compareVars, stringVars>>
  \/ CompareByte /\ UNCHANGED <<compareVars, switchVars>>

LafSpec == (\E kind \in {"compare", "switch", "string"} : LafInit(kind)) /\ [][LafNext]_lafVars

-----------------------------------------------------------------------------
(* Properties.                                                             *)

(* A comparison gives what it gave in the source, for every predicate and  *)
(* width, split or not.                                                    *)
CompareKept == node.is = "val" /\ pending = <<>> => (node.v <=> Holds(asked))

(* A switch goes where it went, to the one case with the value, or to the  *)
(* default when there is none.                                             *)
SwitchKept == dest # {} => dest = IF value \in switch THEN {value} ELSE {Default}

(* The byte loop says equal exactly when strcmp or memcmp does.            *)
Prefix(s, n) == [k \in 1 .. n |-> CharAt(s, k)]
StringKept ==
  cmp_phi # <<>> =>
    LET n == IF call.isMemcmp THEN call.constLen ELSE Len(call.literal) + 1
    IN  cmp_phi = <<0>> <=> Prefix(call.buffer, n) = Prefix(call.literal, n)

(* What the passes emit computes what the source did: the byte-wise        *)
(* comparisons, decision trees and loops that are to give the fuzzer       *)
(* partial credit never change the outcome.                                *)
LafKeepsMeaning == CompareKept /\ SwitchKept /\ StringKept
=============================================================================
