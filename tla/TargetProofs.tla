----------------------------- MODULE TargetProofs -----------------------------
(***************************************************************************)
(* Proofs about what the compiler passes put in a target and what the      *)
(* fuzzer reads of it.  BranchFeedback, for any set of branches, any       *)
(* weights of their sides, all three objective modes and any distances:    *)
(* the tables hold one run only, and in ORIGIN mode the verdict of value() *)
(* names the side of the branch that the run took last or, once a distance *)
(* was -2.0, the side it took then.  Meic, for any function and any sizes  *)
(* of its blocks: the count of the entry covers all of it.  LafIntel, for  *)
(* every width, every set of cases and every string: what the passes emit  *)
(* computes what the source did.  Conditions, for any condition and        *)
(* integers of any width, the comparisons visited any number of times: the *)
(* distance of a compound branch tells a conjunction that holds, and a     *)
(* disjunction that does not, from the rest, unless a comparison has       *)
(* operands of more than 32 bits, is on doubles and negated, or was -2.0.  *)
(***************************************************************************)
EXTENDS BranchFeedback, Meic, LafIntel, Conditions, FiniteSetTheorems, WellFoundedInduction, TLAPS

-----------------------------------------------------------------------------
LEMMA LeastNumber ==
  ASSUME NEW T \in SUBSET Nat, T # {}
  PROVE  \E m \in T : \A k \in T : m <= k
<1>1. PICK m \in T : \A k \in T : ~(<<k, m>> \in OpToRel(<, Nat))
  BY NatLessThanWellFounded, WFMin
<1>2. \A k \in T : ~(k < m)
  BY <1>1 DEF OpToRel
<1> QED
  BY <1>2

-----------------------------------------------------------------------------
(* The tables.                                                             *)

TablesOK ==
  /\ DOMAIN real = Branch
  /\ DOMAIN hit = Branch
  /\ br_hit \in Seq(Branch)

TInv == TablesOK /\ NothingLeftOver

(* The branches listed before and after a branch is listed.                *)
LEMMA ListedAfter ==
  ASSUME TablesOK, NEW b \in Branch, List(b)
  PROVE  /\ br_hit' \in Seq(Branch)
         /\ Listed' = IF FirstVisit(b) THEN Listed \cup {b} ELSE Listed
<1>1. CASE FirstVisit(b)
  <2>1. br_hit' = Append(br_hit, b)
    BY <1>1 DEF List
  <2>2. br_hit' \in Seq(Branch) /\ Len(br_hit') = Len(br_hit) + 1
    BY <2>1 DEF TablesOK
  <2>3. \A n \in 1 .. Len(br_hit) : br_hit'[n] = br_hit[n]
    BY <2>1 DEF TablesOK
  <2>4. br_hit'[Len(br_hit) + 1] = b
    BY <2>1 DEF TablesOK
  <2>5. Len(br_hit) \in Nat
    BY DEF TablesOK
  <2>6. {br_hit'[n] : n \in 1 .. Len(br_hit) + 1}
          = {br_hit[n] : n \in 1 .. Len(br_hit)} \cup {b}
    BY <2>3, <2>4, <2>5
  <2> QED
    BY <1>1, <2>2, <2>6 DEF Listed
<1>2. CASE ~FirstVisit(b)
  BY <1>2 DEF List, Listed, TablesOK
<1> QED
  BY <1>1, <1>2

LEMMA InitTables == Init => TInv
<1> SUFFICES ASSUME Init PROVE TInv
  OBVIOUS
<1>1. TablesOK
  BY DEF Init, TablesOK
<1>2. NothingLeftOver
  BY DEF Init, NothingLeftOver
<1> QED
  BY <1>1, <1>2 DEF TInv

(* A step starts a run, lists a branch, evaluates the tables, or leaves    *)
(* them alone.                                                             *)
LEMMA TablesStep == TInv /\ [Next]_vars => TInv'
<1> SUFFICES ASSUME TInv, [Next]_vars PROVE TInv'
  OBVIOUS
<1> USE DEF TInv
<1>1. ASSUME NEW from, NEW next, RunTarget(from, next) PROVE TInv'
  <2>1. br_hit' = << >> /\ Listed' = {}
    BY <1>1 DEF RunTarget, Listed
  <2>2. TablesOK'
    BY <1>1, <2>1 DEF RunTarget, TablesOK
  <2>3. NothingLeftOver'
    BY <1>1 DEF RunTarget, NothingLeftOver
  <2> QED
    BY <2>2, <2>3
<1>2. ASSUME NEW b \in Branch, VisitBr(b) PROVE TInv'
  <2>1. hit' = hit
    BY <1>2 DEF VisitBr
  <2>2. CASE Ignored(b)
    <3>1. real' = real /\ br_hit' = br_hit
      BY <1>2, <2>2 DEF VisitBr
    <3> QED
      BY <2>1, <3>1 DEF TablesOK, NothingLeftOver, Listed
  <2>3. CASE ~Ignored(b)
    <3>1. /\ List(b)
          /\ DOMAIN real' = Branch
          /\ \A c \in Branch \ {b} : real'[c] = real[c]
      BY <1>2, <2>3 DEF VisitBr, TablesOK
    <3>2. TablesOK'
      BY <2>1, <3>1, ListedAfter DEF TablesOK
    <3>3. b \in Listed' /\ Listed \subseteq Listed'
      BY <3>1, ListedAfter DEF FirstVisit, NothingLeftOver
    <3>4. NothingLeftOver'
      BY <2>1, <3>1, <3>3 DEF NothingLeftOver
    <3> QED
      BY <3>2, <3>4
  <2> QED
    BY <2>2, <2>3
<1>3. ASSUME NEW b \in Branch, KilledInVisit(b) PROVE TInv'
  <2>1. List(b) /\ hit' = hit /\ real' = real
    BY <1>3 DEF KilledInVisit
  <2>2. Listed \subseteq Listed'
    BY <2>1, ListedAfter
  <2>3. TablesOK'
    BY <2>1, ListedAfter DEF TablesOK
  <2>4. NothingLeftOver'
    BY <2>1, <2>2 DEF NothingLeftOver
  <2> QED
    BY <2>3, <2>4
<1>4. CASE Value
  <2>1. br_hit' = br_hit /\ hit' = hit /\ CalculateObjFunc
    BY <1>4 DEF Value
  <2>2. Listed' = Listed
    BY <2>1 DEF Listed
  <2>3. \A b \in Branch \ Listed : real'[b] = real[b]
    BY <2>1 DEF CalculateObjFunc, Evaluated
  <2> QED
    BY <2>1, <2>2, <2>3 DEF TablesOK, NothingLeftOver, CalculateObjFunc
<1>5. CASE SaveBranchHit
  <2>1. br_hit' = br_hit /\ CalculateObjFunc
    BY <1>5 DEF SaveBranchHit
  <2>2. Listed' = Listed
    BY <2>1 DEF Listed
  <2>3. \A b \in Branch \ Listed : real'[b] = real[b] /\ hit'[b] = hit[b]
    BY <1>5, <2>1 DEF CalculateObjFunc, Evaluated, SaveBranchHit
  <2>4. DOMAIN hit' = Branch
    BY <1>5 DEF SaveBranchHit
  <2> QED
    BY <2>1, <2>2, <2>3, <2>4 DEF TablesOK, NothingLeftOver, CalculateObjFunc
<1>6. CASE TargetEnds \/ CheckBranchHit \/ UNCHANGED vars
  <2>1. br_hit' = br_hit /\ hit' = hit /\ real' = real
    BY <1>6 DEF TargetEnds, CheckBranchHit, vars
  <2> QED
    BY <2>1 DEF TablesOK, NothingLeftOver, Listed
<1> QED
  BY <1>1, <1>2, <1>3, <1>4, <1>5, <1>6
  DEF Next, EvaluatePoint, EvaluateNeighbour, CalibratePoint, CalibrateNeighbour

(* Whatever the target does and whenever it is killed, a branch that is    *)
(* not in br_hit[] has no distance and no verdict of an earlier run.       *)
THEOREM OneRunOnly == Spec => []NothingLeftOver
<1>1. TInv => NothingLeftOver
  BY DEF TInv
<1> QED
  BY InitTables, TablesStep, <1>1, PTL DEF Spec

-----------------------------------------------------------------------------
(* The sides.  In ORIGIN mode what the target stores for a visit is        *)
(* negative when the condition held and the true side is the lighter one,  *)
(* or when it did not hold and the true side is at least as heavy.         *)

InTarget == Running \cup {"ran point", "ran neighbour"}
Judged   == {"save", "gradient", "check"}
Recorded == [kind : {"num", "flag"}, neg : BOOLEAN, mag : Nat]

Stored(r, s, b) ==
  /\ r \in Recorded
  /\ s \in {"left", "right"}
  /\ r.neg <=> ((s = "left") <=> Left[b] < Right[b])

(* What the target makes of the distance of a condition.                   *)
SignSet(b, c) == IF Left[b] < Right[b] THEN c ELSE Negated(c)

(* A branch is frozen when it or its comparison is at -2.0, and neither of *)
(* them changes any more: what is stored stays about that visit.           *)
FrozenKnown(b) ==
  /\ frozen[b] \in {"none", "left", "right"}
  /\ frozen[b] = "none" => real[b] # BR_SUCC /\ cmpReal[b] # BR_SUCC
  /\ frozen[b] # "none" =>
       \/ real[b] = BR_SUCC
       \/ cmpReal[b] = BR_SUCC /\ real[b] = SignSet(b, BR_SUCC)

SidesKnown ==
  obj_mode_cur = "ORIGIN" /\ pc \in InTarget =>
    \A b \in Branch : /\ real[b] = BR_NOHIT \/ Stored(real[b], SideJudged(b), b)
                      /\ FrozenKnown(b)

TracesTyped == DOMAIN side = Branch /\ DOMAIN frozen = Branch /\ DOMAIN cmpReal = Branch

SInv == TInv /\ TracesTyped /\ SidesKnown /\ VerdictIsSide

LEMMA NegatedSign ==
  ASSUME NEW x \in Recorded
  PROVE  Negated(x) \in Recorded /\ (Negated(x).neg <=> ~x.neg)
BY DEF Negated, Recorded

LEMMA DistanceSign ==
  ASSUME NEW b, NEW cond \in BOOLEAN, NEW d \in Distance(b, cond)
  PROVE  d \in Recorded /\ (d.neg <=> cond)
BY ConstantsAssumption DEF Distance, Num, Flag, Recorded

(* Target and fuzzer weigh the sides alike in this mode.                   *)
LEMMA OriginWeights ==
  ASSUME obj_mode_cur = "ORIGIN", NEW b \in Branch
  PROVE  /\ TargetLeft(b) >= TargetRight(b) <=> ~(Left[b] < Right[b])
         /\ Lighter(b) <=> Left[b] < Right[b]
<1>1. Left[b] \in Nat /\ Right[b] \in Nat
  BY ConstantsAssumption
<1>2. FuzzerLeft(b) = 10 * Left[b] /\ FuzzerRight(b) = 10 * Right[b]
  BY DEF FuzzerLeft, FuzzerRight
<1>3. (10 * Left[b]) \div 10 = Left[b] /\ (10 * Right[b]) \div 10 = Right[b]
  BY <1>1
<1> QED
  BY <1>1, <1>2, <1>3 DEF TargetLeft, TargetRight, Lighter

(* What value() makes of a stored distance.                                *)
LEMMA StoredVerdict ==
  ASSUME obj_mode_cur = "ORIGIN", NEW b \in Branch, b \in Listed,
         Stored(real[b], SideJudged(b), b)
  PROVE  \/ Verdict(Evaluated(b)) = "succ" /\ SideJudged(b) = "right"
         \/ Verdict(Evaluated(b)) = "fail" /\ SideJudged(b) = "left"
<1> DEFINE x == IF Lighter(b) THEN Negated(real[b]) ELSE real[b]
<1>1. real[b] \in Recorded /\ real[b] # BR_NOHIT
  BY DEF Stored, Recorded, BR_NOHIT
<1>2. x \in Recorded /\ (x.neg <=> SideJudged(b) = "right")
  BY <1>1, NegatedSign, OriginWeights DEF Stored
<1>3. ~Exhausted(b)
  BY DEF Exhausted
<1>4. Evaluated(b) = IF x.neg THEN BR_SUCC ELSE x
  BY <1>1, <1>3 DEF Evaluated
<1>5. CASE x.neg
  <2>1. BR_SUCC # BR_NOHIT /\ BR_SUCC # BR_FINISH
    BY DEF BR_SUCC, BR_NOHIT, BR_FINISH, Num
  <2> QED
    BY <1>2, <1>4, <1>5, <2>1 DEF Verdict
<1>6. CASE ~x.neg
  <2>1. x # BR_SUCC /\ x # BR_NOHIT /\ x # BR_FINISH
    BY <1>6 DEF BR_SUCC, BR_NOHIT, BR_FINISH, Num
  <2>2. SideJudged(b) = "left"
    BY <1>2, <1>6 DEF Stored
  <2> QED
    BY <1>4, <1>6, <2>1, <2>2 DEF Verdict
<1> QED
  BY <1>5, <1>6

LEMMA InitSides == Init => SInv
BY InitTables DEF Init, SInv, TracesTyped, SidesKnown, VerdictIsSide, InTarget, Running

(* A visit of a branch that is not frozen is stored.  One of a branch that *)
(* is frozen changes nothing that is stored.                               *)
LEMMA VisitStored ==
  ASSUME SInv, obj_mode_cur = "ORIGIN", pc \in Running, NEW b \in Branch, VisitBr(b)
  PROVE  /\ real'[b] = BR_NOHIT \/ Stored(real'[b], SideJudged(b)', b)
         /\ FrozenKnown(b)'
<1>1. /\ real[b] = BR_NOHIT \/ Stored(real[b], SideJudged(b), b)
      /\ FrozenKnown(b)
      /\ DOMAIN real = Branch /\ TracesTyped
  BY DEF SInv, SidesKnown, TInv, TablesOK, InTarget
<1>2. PICK cond \in BOOLEAN : \E d \in Distance(b, cond) :
       LET c == IF CmpIgnored(b) THEN cmpReal[b] ELSE d
           r == IF TargetLeft(b) >= TargetRight(b) THEN Negated(c) ELSE c
       IN
       /\ cmpReal' = [cmpReal EXCEPT ![b] = c]
       /\ IF Ignored(b)
          THEN UNCHANGED <<real, br_hit, mulVars>>
          ELSE List(b) /\ real' = [real EXCEPT ![b] = r] /\ CountHit(b, r)
       /\ Goes(b, IF cond THEN "left" ELSE "right", BR_SUCC \in {c, r})
  BY DEF VisitBr
<1>3. PICK d \in Distance(b, cond) :
       LET c == IF CmpIgnored(b) THEN cmpReal[b] ELSE d
           r == IF TargetLeft(b) >= TargetRight(b) THEN Negated(c) ELSE c
       IN
       /\ cmpReal' = [cmpReal EXCEPT ![b] = c]
       /\ IF Ignored(b)
          THEN UNCHANGED <<real, br_hit, mulVars>>
          ELSE List(b) /\ real' = [real EXCEPT ![b] = r] /\ CountHit(b, r)
       /\ Goes(b, IF cond THEN "left" ELSE "right", BR_SUCC \in {c, r})
  BY <1>2
<1>4. PICK c, r, taken :
       /\ c = IF CmpIgnored(b) THEN cmpReal[b] ELSE d
       /\ r = SignSet(b, c)
       /\ taken = IF cond THEN "left" ELSE "right"
       /\ cmpReal' = [cmpReal EXCEPT ![b] = c]
       /\ Ignored(b) => real' = real
       /\ ~Ignored(b) => real' = [real EXCEPT ![b] = r]
       /\ Goes(b, taken, BR_SUCC \in {c, r})
  BY <1>3, OriginWeights DEF SignSet
<1>5. /\ cmpReal'[b] = c
      /\ Ignored(b) => real'[b] = real[b]
      /\ ~Ignored(b) => real'[b] = r
      /\ side'[b] = taken
      /\ frozen'[b] = IF frozen[b] = "none" /\ BR_SUCC \in {c, r} THEN taken ELSE frozen[b]
  BY <1>1, <1>4 DEF TracesTyped, Goes
<1>6. BR_SUCC \in Recorded /\ BR_NOHIT \notin Recorded /\ BR_FINISH \notin Recorded
  BY DEF BR_SUCC, BR_NOHIT, BR_FINISH, Num, Recorded
<1>7. taken \in {"left", "right"} /\ taken # "none"
  BY <1>4
<1>8. CASE frozen[b] = "none"
  <2>1. ~Ignored(b) /\ ~CmpIgnored(b)
    <3>1. real[b] # BR_SUCC /\ cmpReal[b] # BR_SUCC
      BY <1>1, <1>8 DEF FrozenKnown
    <3>2. BR_NOHIT # BR_FINISH
      BY DEF BR_NOHIT, BR_FINISH
    <3>3. real[b] # BR_FINISH
      BY <1>1, <1>6, <3>2 DEF Stored
    <3> QED
      BY <3>1, <3>3 DEF Ignored, CmpIgnored
  <2>2. c = d /\ real'[b] = r /\ cmpReal'[b] = d
    BY <1>4, <1>5, <2>1
  <2>3. r \in Recorded /\ (r.neg <=> (cond <=> Left[b] < Right[b]))
    BY <1>4, <2>2, DistanceSign, NegatedSign DEF SignSet
  <2>4. SideJudged(b)' = taken
    BY <1>5, <1>7, <1>8 DEF SideJudged
  <2>5. Stored(real'[b], SideJudged(b)', b)
    BY <1>4, <1>7, <2>2, <2>3, <2>4 DEF Stored
  <2>6. FrozenKnown(b)'
    <3>1. CASE BR_SUCC \in {c, r}
      <4>1. frozen'[b] = taken
        BY <1>5, <1>8, <3>1
      <4>2. \/ real'[b] = BR_SUCC
            \/ cmpReal'[b] = BR_SUCC /\ real'[b] = SignSet(b, BR_SUCC)
        BY <1>4, <2>2, <3>1
      <4> QED
        BY <1>7, <4>1, <4>2 DEF FrozenKnown, SignSet
    <3>2. CASE BR_SUCC \notin {c, r}
      <4>1. frozen'[b] = "none"
        BY <1>5, <1>8, <3>2
      <4>2. real'[b] # BR_SUCC /\ cmpReal'[b] # BR_SUCC
        BY <2>2, <3>2
      <4> QED
        BY <4>1, <4>2 DEF FrozenKnown
    <3> QED
      BY <3>1, <3>2
  <2> QED
    BY <2>5, <2>6
<1>9. CASE frozen[b] # "none"
  <2>1. frozen'[b] = frozen[b] /\ SideJudged(b)' = SideJudged(b)
    BY <1>5, <1>9 DEF SideJudged
  <2>2. real'[b] = real[b]
    <3>1. CASE Ignored(b)
      BY <1>5, <3>1
    <3>2. CASE ~Ignored(b)
      <4>1. cmpReal[b] = BR_SUCC /\ real[b] = SignSet(b, BR_SUCC)
        BY <1>1, <1>9, <3>2 DEF FrozenKnown, Ignored
      <4>2. c = BR_SUCC
        BY <1>4, <4>1 DEF CmpIgnored
      <4> QED
        BY <1>4, <1>5, <3>2, <4>1, <4>2
    <3> QED
      BY <3>1, <3>2
  <2>3. cmpReal[b] = BR_SUCC => cmpReal'[b] = BR_SUCC
    BY <1>4, <1>5 DEF CmpIgnored
  <2>4. FrozenKnown(b)'
    BY <1>1, <1>9, <2>1, <2>2, <2>3 DEF FrozenKnown, SignSet
  <2> QED
    BY <1>1, <2>1, <2>2, <2>4
<1> QED
  BY <1>8, <1>9

LEMMA SidesStep == SInv /\ [Next]_vars => SInv'
<1> SUFFICES ASSUME SInv, [Next]_vars PROVE SInv'
  OBVIOUS
<1>0. TInv' /\ obj_mode_cur' = obj_mode_cur
  BY TablesStep DEF SInv, Next, vars, setup, EvaluatePoint, EvaluateNeighbour, CalibratePoint,
     CalibrateNeighbour, RunTarget, VisitBr, KilledInVisit, TargetEnds, Value,
     SaveBranchHit, CheckBranchHit
<1>1. ASSUME NEW from, NEW next \in Running, RunTarget(from, next) PROVE SInv'
  <2>1. pc' \notin Judged /\ TracesTyped'
    BY <1>1 DEF RunTarget, Running, Judged, TracesTyped
  <2>2. \A b \in Branch : real'[b] = BR_NOHIT
    BY <1>1 DEF RunTarget, SInv, TInv, NothingLeftOver
  <2>3. \A b \in Branch : cmpReal'[b] = BR_NOHIT /\ frozen'[b] = "none"
    BY <1>1 DEF RunTarget
  <2>4. BR_NOHIT # BR_SUCC
    BY DEF BR_NOHIT, BR_SUCC, Num
  <2>5. \A b \in Branch : FrozenKnown(b)'
    BY <2>2, <2>3, <2>4 DEF FrozenKnown
  <2> QED
    BY <1>0, <2>1, <2>2, <2>5 DEF SInv, SidesKnown, VerdictIsSide, Judged
<1>2. ASSUME NEW b \in Branch, VisitBr(b) PROVE SInv'
  <2>1. pc' \in InTarget /\ pc' \notin Judged /\ pc \in Running
    BY <1>2 DEF VisitBr, Running, InTarget, Judged
  <2>2. TracesTyped'
    BY <1>2 DEF VisitBr, Goes, SInv, TracesTyped
  <2>3. ASSUME NEW c \in Branch \ {b}
        PROVE  /\ real'[c] = real[c] /\ cmpReal'[c] = cmpReal[c]
               /\ side'[c] = side[c] /\ frozen'[c] = frozen[c]
    BY <1>2, <2>3 DEF VisitBr, Goes, SInv, TInv, TablesOK, TracesTyped
  <2>4. ASSUME obj_mode_cur = "ORIGIN", NEW c \in Branch
        PROVE  /\ real'[c] = BR_NOHIT \/ Stored(real'[c], SideJudged(c)', c)
               /\ FrozenKnown(c)'
    <3>1. CASE c = b
      BY <1>2, <2>1, <2>4, <3>1, VisitStored
    <3>2. CASE c # b
      <4>1. /\ real[c] = BR_NOHIT \/ Stored(real[c], SideJudged(c), c)
            /\ FrozenKnown(c)
        BY <2>1, <2>4 DEF SInv, SidesKnown, InTarget
      <4>2. SideJudged(c)' = SideJudged(c) /\ (FrozenKnown(c) => FrozenKnown(c)')
        BY <2>3, <3>2 DEF SideJudged, FrozenKnown, SignSet
      <4> QED
        BY <2>3, <3>2, <4>1, <4>2
    <3> QED
      BY <3>1, <3>2
  <2>5. SidesKnown'
    BY <1>0, <2>4 DEF SidesKnown, Stored
  <2> QED
    BY <1>0, <2>1, <2>2, <2>5 DEF SInv, VerdictIsSide, Judged
<1>3. CASE TargetEnds \/ \E b \in Branch : KilledInVisit(b)
  <2>1. /\ pc \in InTarget /\ pc' \in InTarget /\ pc' \notin Judged
        /\ real' = real /\ cmpReal' = cmpReal /\ side' = side /\ frozen' = frozen
    BY <1>3 DEF TargetEnds, KilledInVisit, After, Running, InTarget, Judged, history, sides
  <2>2. \A b \in Branch : SideJudged(b)' = SideJudged(b) /\ (FrozenKnown(b) => FrozenKnown(b)')
    BY <2>1 DEF SideJudged, FrozenKnown, SignSet
  <2> QED
    BY <1>0, <2>1, <2>2 DEF SInv, TracesTyped, SidesKnown, Stored, VerdictIsSide, Judged
<1>4. CASE Value
  <2>1. /\ pc \in InTarget /\ pc' \notin InTarget
        /\ side' = side /\ frozen' = frozen /\ cmpReal' = cmpReal
        /\ \A b \in Branch : judged'[b] = Verdict(Evaluated(b))
    BY <1>4 DEF Value, InTarget, Running, CalculateObjFunc, sides
  <2>2. ASSUME obj_mode_cur = "ORIGIN", NEW b \in Branch
        PROVE  /\ judged'[b] = "succ" => SideJudged(b) = "right"
               /\ judged'[b] = "fail" => SideJudged(b) = "left"
    <3>1. CASE real[b] = BR_NOHIT
      <4>1. BR_NOHIT # BR_FINISH /\ BR_NOHIT # BR_SUCC
        BY DEF BR_NOHIT, BR_FINISH, BR_SUCC, Num
      <4> QED
        BY <2>1, <3>1, <4>1 DEF Evaluated, Verdict
    <3>2. CASE real[b] # BR_NOHIT
      <4>1. b \in Listed
        BY <3>2 DEF SInv, TInv, NothingLeftOver
      <4>2. Stored(real[b], SideJudged(b), b)
        BY <2>1, <2>2, <3>2 DEF SInv, SidesKnown
      <4> QED
        BY <2>1, <2>2, <4>1, <4>2, StoredVerdict
    <3> QED
      BY <3>1, <3>2
  <2>3. \A b \in Branch : SideJudged(b)' = SideJudged(b)
    BY <2>1 DEF SideJudged
  <2> QED
    BY <1>0, <2>1, <2>2, <2>3 DEF SInv, TracesTyped, SidesKnown, VerdictIsSide
<1>5. CASE SaveBranchHit \/ CheckBranchHit \/ UNCHANGED vars
  <2>1. /\ side' = side /\ frozen' = frozen /\ cmpReal' = cmpReal /\ judged' = judged
        /\ \/ pc' = pc /\ real' = real
           \/ pc \in Judged /\ pc' \notin InTarget
    BY <1>5 DEF SaveBranchHit, CheckBranchHit, vars, history, sides, Judged, InTarget, Running
  <2>2. \A b \in Branch : SideJudged(b)' = SideJudged(b)
    BY <2>1 DEF SideJudged
  <2>3. real' = real => \A b \in Branch : FrozenKnown(b) => FrozenKnown(b)'
    BY <2>1 DEF FrozenKnown, SignSet
  <2>4. VerdictIsSide'
    BY <1>0, <2>1, <2>2 DEF SInv, VerdictIsSide, Judged
  <2>5. SidesKnown'
    BY <1>0, <2>1, <2>2, <2>3 DEF SInv, SidesKnown, Stored
  <2> QED
    BY <1>0, <2>1, <2>4, <2>5 DEF SInv, TracesTyped
<1>6. {"run point", "run neighbour"} = Running
  BY DEF Running
<1> QED
  BY <1>1, <1>2, <1>3, <1>4, <1>5, <1>6
  DEF Next, EvaluatePoint, EvaluateNeighbour, CalibratePoint, CalibrateNeighbour

(* Without multipliers, and for any weights and any distances, value()     *)
(* finds a branch passed or failed according to the side the run took      *)
(* last, or, once a distance was -2.0, the side it took then.              *)
THEOREM OriginVerdicts == Spec => []VerdictIsSide
<1>1. SInv => VerdictIsSide
  BY DEF SInv
<1> QED
  BY InitSides, SidesStep, <1>1, PTL DEF Spec

-----------------------------------------------------------------------------
(* Graphs: walks, and the edges left when the back edges are gone.         *)

LEMMA WalksGoOn ==
  ASSUME NEW next, NEW S, NEW avoid, \A b \in Blocks : next[b] \subseteq Blocks
  PROVE  /\ (S \ avoid) \cap Blocks \subseteq Reach(next, S, avoid)
         /\ Reach(next, S, avoid) \subseteq Blocks
         /\ \A b \in Reach(next, S, avoid) : next[b] \ avoid \subseteq Reach(next, S, avoid)
BY DEF Reach

LEMMA WalksStayIn ==
  ASSUME NEW next, NEW S, NEW avoid, NEW C \in SUBSET Blocks,
         S \ avoid \subseteq C, \A b \in C : next[b] \ avoid \subseteq C
  PROVE  Reach(next, S, avoid) \subseteq C
BY DEF Reach

(* A set of blocks that no edge of E leads out of.                         *)
Closed(E, C) == \A u, v \in Blocks : <<u, v>> \in E /\ u \in C => v \in C

(* The graph before the search.                                            *)
Kept == Edges \ {<<backedge[h], h>> : h \in DOMAIN backedge}

Graph ==
  /\ succ \in [Blocks -> SUBSET (Blocks \ {1})]
  /\ From(1) = Blocks
  /\ DOMAIN backedge = Headers

LEMMA EntryIsBlock == 1 \in Blocks
BY MeicAssumption DEF Blocks

LEMMA FunctionReached ==
  ASSUME Graph, NEW C \in SUBSET Blocks, 1 \in C, \A b \in C : succ[b] \subseteq C
  PROVE  C = Blocks
<1>1. Reach(succ, {1}, {}) \subseteq C
  BY WalksStayIn
<1> QED
  BY <1>1 DEF Graph, From

(* Without the latches' edges every block is still reached: a header is    *)
(* met before any of its latches.                                          *)
LEMMA KeptReaches ==
  ASSUME Graph, LatchesTaken, NEW C \in SUBSET Blocks, 1 \in C, Closed(Kept, C)
  PROVE  C = Blocks
<1> DEFINE D == {b \in Blocks : \A X \in SUBSET Blocks : 1 \in X /\ Closed(Kept, X) => b \in X}
<1>1. D \in SUBSET Blocks /\ D \subseteq C
  OBVIOUS
<1>2. 1 \in D
  BY EntryIsBlock
<1>3. Closed(Kept, D)
  <2> SUFFICES ASSUME NEW u \in Blocks, NEW v \in Blocks, <<u, v>> \in Kept, u \in D,
                      NEW X \in SUBSET Blocks, 1 \in X, Closed(Kept, X)
               PROVE  v \in X
    BY DEF Closed
  <2>1. u \in X
    OBVIOUS
  <2> QED
    BY <2>1 DEF Closed
<1>4. ASSUME NEW X \in SUBSET Blocks, 1 \in X, Closed(Kept, X) PROVE D \subseteq X
  BY <1>4
<1> HIDE DEF D
<1>5. ASSUME NEW b \in D, NEW h \in succ[b], h \notin D PROVE FALSE
  <2>1. b \in Blocks /\ h \in Blocks /\ h # 1 /\ succ[b] \subseteq Blocks
    BY <1>1, <1>5 DEF Graph
  <2>2. <<b, h>> \in Edges
    BY <2>1 DEF Edges
  <2>3. <<b, h>> \notin Kept
    BY <1>3, <1>5, <2>1 DEF Closed
  <2>4. PICK k \in DOMAIN backedge : <<b, h>> = <<backedge[k], k>>
    BY <2>2, <2>3 DEF Kept
  <2>5. h \in DOMAIN backedge /\ backedge[h] = b
    BY <2>4
  <2>6. b \notin Reach(succ, {1}, {h})
    BY <2>5 DEF LatchesTaken, Latches, Dominates
  <2> DEFINE R == Reach(succ, {1}, {h})
  <2>7. /\ 1 \in R /\ R \subseteq Blocks
        /\ \A u \in R : succ[u] \ {h} \subseteq R
    <3>1. \A u \in Blocks : succ[u] \subseteq Blocks
      BY DEF Graph
    <3> QED
      BY <2>1, <3>1, EntryIsBlock, WalksGoOn
  <2> HIDE DEF R
  <2>8. Closed(Kept, D \cap R)
    <3> SUFFICES ASSUME NEW u \in Blocks, NEW v \in Blocks, <<u, v>> \in Kept, u \in D, u \in R
                 PROVE  v \in D /\ v \in R
      BY DEF Closed
    <3>1. v \in D
      BY <1>3 DEF Closed
    <3>2. v \in succ[u] /\ v # h
      BY <1>5, <3>1 DEF Kept, Edges
    <3> QED
      BY <2>7, <3>1, <3>2
  <2>9. D \subseteq D \cap R
    <3>1. D \cap R \in SUBSET Blocks /\ 1 \in D \cap R
      BY <1>1, <1>2, <2>7
    <3> QED
      BY <1>4, <2>8, <3>1
  <2> QED
    BY <1>5, <2>6, <2>9 DEF R
<1>6. \A b \in D : succ[b] \subseteq D
  BY <1>5
<1>7. D = Blocks
  BY <1>1, <1>2, <1>6, FunctionReached
<1> QED
  BY <1>1, <1>7

-----------------------------------------------------------------------------
(* The search.                                                             *)

Path == {stk[k] : k \in 1 .. Len(stk)}
Met == finished \cup Path

Stack ==
  /\ stk \in Seq(Blocks)
  /\ \A j, k \in 1 .. Len(stk) : stk[j] = stk[k] => j = k
  /\ stk # <<>> => stk[Len(stk)] = 1 /\ OnPath = Path
  /\ \A k \in 1 .. Len(stk) - 1 : <<stk[k + 1], stk[k]>> \in edges

(* What has been left has only edges to what was left before, so no cycle  *)
(* goes through it; what was removed leads to blocks that had been met.    *)
Searched ==
  /\ edges \subseteq Kept
  /\ finished \subseteq Blocks /\ finished \cap Path = {}
  /\ \A u, v \in Blocks : <<u, v>> \in edges /\ u \in finished => v \in finished
  /\ \A u, v \in Blocks : <<u, v>> \in Kept /\ <<u, v>> \notin edges => v \in Met
  /\ \A S \in SUBSET finished : S # {} => \E b \in S : Out(b) \cap S = {}
  /\ 1 \in Met

(* All that was met is still reached from the entry.                       *)
Hanging == \A C \in SUBSET Blocks : 1 \in C /\ Closed(edges, C) => Met \subseteq C

(* The counts given so far.                                                *)
Weighed ==
  /\ Done \subseteq Blocks
  /\ \A b \in Done : /\ instCnt[b] \in Nat \ {0}
                     /\ \A c \in Out(b) : c \in Done /\ instCnt[b] > instCnt[c]

MInv ==
  /\ Graph /\ phase \in {"search", "weigh"}
  /\ Stack /\ Searched /\ Hanging /\ Weighed
  /\ phase = "search" => Done = {}
  /\ phase = "weigh" => stk = <<>>

(* The blocks of a path are reached one after the other.                   *)
LEMMA PathReached ==
  ASSUME NEW s \in Seq(Blocks), s # <<>>, s[Len(s)] = 1, NEW E,
         \A k \in 1 .. Len(s) - 1 : <<s[k + 1], s[k]>> \in E,
         NEW C \in SUBSET Blocks, 1 \in C, Closed(E, C)
  PROVE  \A k \in 1 .. Len(s) : s[k] \in C
<1> SUFFICES ASSUME NEW k \in 1 .. Len(s), s[k] \notin C PROVE FALSE
  OBVIOUS
<1> DEFINE T == {j \in Nat : j < Len(s) /\ s[Len(s) - j] \notin C}
<1>1. Len(s) \in Nat /\ \A x \in 1 .. Len(s) : s[x] \in Blocks
  OBVIOUS
<1>2. Len(s) - k \in T
  <2>1. Len(s) - k \in Nat /\ Len(s) - k < Len(s) /\ Len(s) - (Len(s) - k) = k
    BY <1>1
  <2> QED
    BY <2>1
<1>3. PICK m \in T : \A j \in T : m <= j
  <2>1. T \in SUBSET Nat /\ T # {}
    BY <1>2
  <2> QED
    BY <2>1, LeastNumber
<1>4. m \in Nat /\ m < Len(s) /\ s[Len(s) - m] \notin C
  OBVIOUS
<1>5. m # 0
  BY <1>1, <1>4
<1>6. m - 1 \in Nat /\ m - 1 < Len(s) /\ m - 1 \notin T
  BY <1>1, <1>3, <1>4, <1>5
<1>7. s[Len(s) - (m - 1)] \in C
  BY <1>6
<1> DEFINE n == Len(s) - m
<1>8. n \in 1 .. Len(s) - 1 /\ n + 1 = Len(s) - (m - 1) /\ n + 1 \in 1 .. Len(s)
  BY <1>1, <1>4, <1>5
<1>9. <<s[n + 1], s[n]>> \in E /\ s[n + 1] \in C /\ s[n] \in Blocks /\ s[n + 1] \in Blocks
  BY <1>1, <1>7, <1>8
<1>10. s[n] \in C
  BY <1>9 DEF Closed
<1> QED
  BY <1>4, <1>10

LEMMA StackTop ==
  ASSUME Stack, stk # <<>>
  PROVE  /\ cur = stk[1] /\ cur \in Blocks /\ cur \in Path
         /\ Len(stk) \in Nat \ {0} /\ Path \subseteq Blocks
         /\ Path = {cur} \cup {stk[k] : k \in 2 .. Len(stk)}
         /\ cur \notin {stk[k] : k \in 2 .. Len(stk)}
<1>1. Len(stk) \in Nat \ {0} /\ \A k \in 1 .. Len(stk) : stk[k] \in Blocks
  BY DEF Stack
<1>2. cur = stk[1]
  BY DEF Stack, cur
<1>3. 1 .. Len(stk) = {1} \cup 2 .. Len(stk) /\ 1 \notin 2 .. Len(stk)
  BY <1>1
<1>4. Path = {stk[1]} \cup {stk[k] : k \in 2 .. Len(stk)}
  BY <1>3 DEF Path
<1>5. stk[1] \notin {stk[k] : k \in 2 .. Len(stk)}
  BY <1>1, <1>3 DEF Stack
<1> QED
  BY <1>1, <1>2, <1>3, <1>4, <1>5 DEF Path

(* Taking away edges to blocks that are still reached hides nothing.       *)
LEMMA RemovalHidesNothing ==
  ASSUME Hanging, NEW E, NEW C \in SUBSET Blocks, 1 \in C, Closed(E, C), Path \subseteq C,
         \A u, v \in Blocks : <<u, v>> \in edges /\ <<u, v>> \notin E => v \in Path
  PROVE  Met \subseteq C
<1>1. Closed(edges, C)
  BY DEF Closed
<1> QED
  BY <1>1 DEF Hanging

LEMMA GraphKept ==
  ASSUME Graph, UNCHANGED <<succ, backedge>>
  PROVE  Graph' /\ Kept' = Kept /\ Edges' = Edges
BY DEF Graph, Kept, Edges, From, Reach, Headers, Latches, Preds, Dominates

LEMMA VisitSearches ==
  ASSUME MInv, Visit
  PROVE  Stack' /\ Searched' /\ Hanging'
<1> DEFINE next == Min(ToVisit)
<1>1. /\ stk # <<>> /\ ToVisit # {}
      /\ edges' = edges \ {<<cur, c>> : c \in {d \in IntoPath : d < next}}
      /\ stk' = <<next>> \o stk
      /\ visited' = OnPath
      /\ UNCHANGED <<succ, backedge, finished>>
  BY DEF Visit
<1>2. /\ Stack /\ Searched /\ Hanging /\ Graph /\ OnPath = Path
  BY <1>1 DEF MInv, Stack
<1>3. next \in ToVisit
  <2>1. ToVisit \subseteq Nat
    BY DEF ToVisit, Out, Blocks
  <2>2. PICK m \in ToVisit : \A k \in ToVisit : m <= k
    BY <1>1, <2>1, LeastNumber
  <2> QED
    BY <2>2 DEF Min
<1>4. /\ next \in Blocks /\ <<cur, next>> \in edges
      /\ next \notin Path /\ next \notin finished
  BY <1>2, <1>3 DEF ToVisit, Out
<1> HIDE DEF next
<1>5. /\ cur = stk[1] /\ cur \in Blocks /\ cur \in Path /\ Len(stk) \in Nat \ {0}
      /\ Path \subseteq Blocks
  BY <1>1, <1>2, StackTop
<1>6. /\ edges' \subseteq edges /\ <<cur, next>> \in edges'
      /\ \A u, v \in Blocks : <<u, v>> \in edges /\ <<u, v>> \notin edges' => u = cur /\ v \in Path
      /\ \A u, v \in Blocks : <<u, v>> \in edges /\ u # cur => <<u, v>> \in edges'
  BY <1>1, <1>2, <1>4 DEF IntoPath
<1>7. /\ stk' \in Seq(Blocks) /\ Len(stk') = Len(stk) + 1 /\ stk' # <<>>
      /\ stk'[1] = next /\ \A k \in 1 .. Len(stk) : stk'[k + 1] = stk[k]
  BY <1>1, <1>2, <1>4 DEF Stack
<1>8. \A k \in 2 .. Len(stk') : k - 1 \in 1 .. Len(stk) /\ stk'[k] = stk[k - 1]
  <2>1. ASSUME NEW k \in 2 .. Len(stk') PROVE k - 1 \in 1 .. Len(stk) /\ k = (k - 1) + 1
    BY <1>5, <1>7
  <2> QED
    BY <1>7, <2>1
<1>9. Path' = {next} \cup Path
  <2>1. Path' \subseteq {next} \cup Path
    <3> SUFFICES ASSUME NEW k \in 1 .. Len(stk') PROVE stk'[k] \in {next} \cup Path
      BY DEF Path
    <3>1. k = 1 \/ k \in 2 .. Len(stk')
      BY <1>5, <1>7
    <3> QED
      BY <1>7, <1>8, <3>1 DEF Path
  <2>2. Path \subseteq Path'
    <3> SUFFICES ASSUME NEW k \in 1 .. Len(stk) PROVE stk[k] \in Path'
      BY DEF Path
    <3>1. k + 1 \in 1 .. Len(stk') /\ stk'[k + 1] = stk[k]
      BY <1>5, <1>7
    <3> QED
      BY <3>1 DEF Path
  <2>3. next \in Path'
    <3>1. 1 \in 1 .. Len(stk')
      BY <1>5, <1>7
    <3> QED
      BY <1>7, <3>1 DEF Path
  <2> QED
    BY <2>1, <2>2, <2>3
<1>10. Met' = {next} \cup Met
  BY <1>1, <1>9 DEF Met
<1>11. Kept' = Kept
  BY <1>1, <1>2, GraphKept
<1>12. Stack'
  <2>1. ASSUME NEW j \in 1 .. Len(stk'), NEW k \in 1 .. Len(stk'), stk'[j] = stk'[k]
        PROVE  j = k
    <3>1. \A x \in 1 .. Len(stk') : x = 1 \/ x \in 2 .. Len(stk')
      BY <1>5, <1>7
    <3>2. \A x \in 2 .. Len(stk') : stk'[x] # next
      BY <1>4, <1>8 DEF Path
    <3>3. CASE j = 1 \/ k = 1
      BY <1>7, <2>1, <3>1, <3>2, <3>3
    <3>4. CASE j \in 2 .. Len(stk') /\ k \in 2 .. Len(stk')
      <4>1. j - 1 = k - 1
        BY <1>2, <1>8, <2>1, <3>4 DEF Stack
      <4> QED
        BY <4>1
    <3> QED
      BY <3>1, <3>3, <3>4
  <2>2. stk'[Len(stk')] = 1
    <3>1. Len(stk') \in 2 .. Len(stk') /\ Len(stk') - 1 = Len(stk)
      BY <1>5, <1>7
    <3> QED
      BY <1>1, <1>2, <1>8, <3>1 DEF Stack
  <2>3. OnPath' = Path'
    <3>1. cur' = next
      BY <1>7 DEF cur
    <3> QED
      BY <1>1, <1>2, <1>9, <3>1 DEF OnPath
  <2>4. ASSUME NEW k \in 1 .. Len(stk') - 1 PROVE <<stk'[k + 1], stk'[k]>> \in edges'
    <3>1. CASE k = 1
      <4>1. 1 \in 1 .. Len(stk)
        BY <1>5
      <4>2. stk'[1 + 1] = stk[1]
        BY <1>7, <4>1
      <4> QED
        BY <1>5, <1>6, <1>7, <3>1, <4>2
    <3>2. CASE k # 1
      <4>1. /\ k \in 2 .. Len(stk') /\ k - 1 \in 1 .. Len(stk) - 1 /\ k \in 1 .. Len(stk)
            /\ (k - 1) + 1 = k
        BY <1>5, <1>7, <3>2
      <4>2. stk'[k] = stk[k - 1] /\ stk'[k + 1] = stk[k]
        BY <1>7, <1>8, <4>1
      <4>3. <<stk[k], stk[k - 1]>> \in edges
        BY <1>2, <4>1 DEF Stack
      <4>4. stk[k] # cur /\ stk[k] \in Blocks /\ stk[k - 1] \in Blocks
        <5>1. 1 \in 1 .. Len(stk)
          BY <1>5
        <5> QED
          BY <1>2, <1>5, <3>2, <4>1, <5>1 DEF Stack, Path
      <4> QED
        BY <1>6, <4>2, <4>3, <4>4
    <3> QED
      BY <3>1, <3>2
  <2> QED
    BY <1>7, <2>1, <2>2, <2>3, <2>4 DEF Stack
<1>13. Searched'
  <2>1. edges' \subseteq Kept'
    BY <1>2, <1>6, <1>11 DEF Searched
  <2>2. finished' \subseteq Blocks /\ finished' \cap Path' = {}
    BY <1>1, <1>2, <1>4, <1>9 DEF Searched
  <2>3. \A u, v \in Blocks : <<u, v>> \in edges' /\ u \in finished' => v \in finished'
    BY <1>1, <1>2, <1>6 DEF Searched
  <2>4. \A u, v \in Blocks : <<u, v>> \in Kept' /\ <<u, v>> \notin edges' => v \in Met'
    BY <1>2, <1>6, <1>10, <1>11 DEF Searched, Met
  <2>5. ASSUME NEW S \in SUBSET finished', S # {} PROVE \E b \in S : Out(b)' \cap S = {}
    <3>1. PICK b \in S : Out(b) \cap S = {}
      BY <1>1, <1>2, <2>5 DEF Searched
    <3>2. Out(b)' \subseteq Out(b)
      BY <1>6 DEF Out
    <3> QED
      BY <3>1, <3>2
  <2>6. 1 \in Met'
    BY <1>2, <1>10 DEF Searched
  <2> QED
    BY <2>1, <2>2, <2>3, <2>4, <2>5, <2>6 DEF Searched
<1>14. Hanging'
  <2> SUFFICES ASSUME NEW C \in SUBSET Blocks, 1 \in C, Closed(edges', C)
               PROVE  Met' \subseteq C
    BY DEF Hanging
  <2>1. Path' \subseteq C
    <3>1. \A k \in 1 .. Len(stk') : stk'[k] \in C
      BY <1>7, <1>12, PathReached DEF Stack
    <3> QED
      BY <3>1 DEF Path
  <2>2. Met \subseteq C
    BY <1>2, <1>6, <1>9, <2>1, RemovalHidesNothing
  <2> QED
    BY <1>9, <1>10, <2>1, <2>2
<1> QED
  BY <1>12, <1>13, <1>14

LEMMA LeaveSearches ==
  ASSUME MInv, Leave
  PROVE  Stack' /\ Searched' /\ Hanging'
<1>1. /\ stk # <<>> /\ ToVisit = {}
      /\ edges' = edges \ {<<cur, c>> : c \in IntoPath}
      /\ visited' = visited \ {cur} /\ finished' = finished \cup {cur}
      /\ stk' = Tail(stk)
      /\ UNCHANGED <<succ, backedge>>
  BY DEF Leave
<1>2. /\ Stack /\ Searched /\ Hanging /\ Graph /\ OnPath = Path
  BY <1>1 DEF MInv, Stack
<1> DEFINE rest == {stk[k] : k \in 2 .. Len(stk)}
<1>3. /\ cur = stk[1] /\ cur \in Blocks /\ cur \in Path /\ Len(stk) \in Nat \ {0}
      /\ Path \subseteq Blocks /\ Path = {cur} \cup rest /\ cur \notin rest
  BY <1>1, <1>2, StackTop
<1>4. /\ edges' \subseteq edges
      /\ \A u, v \in Blocks : <<u, v>> \in edges /\ <<u, v>> \notin edges' => u = cur /\ v \in Path
      /\ \A u, v \in Blocks : <<u, v>> \in edges /\ u # cur => <<u, v>> \in edges'
      /\ \A v \in Blocks : <<cur, v>> \in edges' => <<cur, v>> \in edges /\ v \notin Path
  BY <1>1, <1>2 DEF IntoPath
<1>5. /\ stk' \in Seq(Blocks) /\ Len(stk') = Len(stk) - 1
      /\ \A k \in 1 .. Len(stk') : stk'[k] = stk[k + 1] /\ k + 1 \in 2 .. Len(stk)
  BY <1>1, <1>2, <1>3 DEF Stack
<1>6. Path' = rest
  <2>1. ASSUME NEW k \in 1 .. Len(stk') PROVE stk'[k] \in rest
    BY <1>5
  <2>2. ASSUME NEW k \in 2 .. Len(stk) PROVE stk[k] \in Path'
    <3>1. k - 1 \in 1 .. Len(stk') /\ (k - 1) + 1 = k
      BY <1>3, <1>5
    <3>2. stk'[k - 1] = stk[k]
      BY <1>5, <3>1
    <3> QED
      BY <3>1, <3>2 DEF Path
  <2> QED
    BY <2>1, <2>2 DEF Path
<1> HIDE DEF rest
<1>7. Met' = Met
  BY <1>1, <1>3, <1>6 DEF Met
<1>8. Kept' = Kept
  BY <1>1, <1>2, GraphKept
<1>9. \A k \in 1 .. Len(stk) - 1 : <<stk[k + 1], stk[k]>> \in edges'
  <2> SUFFICES ASSUME NEW k \in 1 .. Len(stk) - 1 PROVE <<stk[k + 1], stk[k]>> \in edges'
    OBVIOUS
  <2>1. k + 1 \in 1 .. Len(stk) /\ k \in 1 .. Len(stk) /\ 1 \in 1 .. Len(stk) /\ k + 1 # 1
    BY <1>3
  <2>2. stk[k + 1] # cur /\ stk[k + 1] \in Blocks /\ stk[k] \in Blocks
    BY <1>2, <1>3, <2>1 DEF Stack
  <2> QED
    BY <1>2, <1>4, <2>2 DEF Stack
<1>10. Stack'
  <2>1. ASSUME NEW j \in 1 .. Len(stk'), NEW k \in 1 .. Len(stk'), stk'[j] = stk'[k]
        PROVE  j = k
    <3>1. j + 1 \in 1 .. Len(stk) /\ k + 1 \in 1 .. Len(stk) /\ stk[j + 1] = stk[k + 1]
      BY <1>3, <1>5, <2>1
    <3>2. j + 1 = k + 1
      BY <1>2, <3>1 DEF Stack
    <3> QED
      BY <3>2
  <2>2. ASSUME stk' # <<>> PROVE stk'[Len(stk')] = 1 /\ OnPath' = Path'
    <3>1. Len(stk') \in 1 .. Len(stk') /\ Len(stk') + 1 = Len(stk) /\ 1 \in 1 .. Len(stk')
      BY <1>3, <1>5, <2>2
    <3>2. stk'[Len(stk')] = 1
      BY <1>1, <1>2, <1>5, <3>1 DEF Stack
    <3>3. cur' \in Path'
      <4>1. cur' = stk'[1]
        BY <1>5, <2>2 DEF cur
      <4> QED
        BY <3>1, <4>1 DEF Path
    <3>4. (visited \cup {cur}) = Path
      BY <1>2 DEF OnPath
    <3> QED
      BY <1>1, <1>3, <1>6, <3>2, <3>3, <3>4 DEF OnPath
  <2>3. ASSUME NEW k \in 1 .. Len(stk') - 1 PROVE <<stk'[k + 1], stk'[k]>> \in edges'
    <3>1. k + 1 \in 1 .. Len(stk) - 1 /\ k + 1 \in 1 .. Len(stk') /\ k \in 1 .. Len(stk')
      BY <1>3, <1>5
    <3>2. stk'[k] = stk[k + 1] /\ stk'[k + 1] = stk[(k + 1) + 1]
      BY <1>5, <3>1
    <3> QED
      BY <1>9, <3>1, <3>2
  <2> QED
    BY <1>5, <2>1, <2>2, <2>3 DEF Stack
<1>11. \A v \in Blocks : <<cur, v>> \in edges' => v \in finished
  <2> SUFFICES ASSUME NEW v \in Blocks, <<cur, v>> \in edges' PROVE v \in finished
    OBVIOUS
  <2>1. v \in Out(cur) /\ v \notin OnPath
    BY <1>2, <1>4 DEF Out
  <2> QED
    BY <1>1, <2>1 DEF ToVisit
<1>12. Searched'
  <2>1. edges' \subseteq Kept'
    BY <1>2, <1>4, <1>8 DEF Searched
  <2>2. finished' \subseteq Blocks /\ finished' \cap Path' = {}
    BY <1>1, <1>2, <1>3, <1>6 DEF Searched
  <2>3. \A u, v \in Blocks : <<u, v>> \in edges' /\ u \in finished' => v \in finished'
    BY <1>1, <1>2, <1>4, <1>11 DEF Searched
  <2>4. \A u, v \in Blocks : <<u, v>> \in Kept' /\ <<u, v>> \notin edges' => v \in Met'
    BY <1>2, <1>4, <1>7, <1>8 DEF Searched, Met
  <2>5. ASSUME NEW S \in SUBSET finished', S # {} PROVE \E b \in S : Out(b)' \cap S = {}
    <3>1. \A b : Out(b)' \subseteq Out(b)
      BY <1>4 DEF Out
    <3>2. CASE S \cap finished # {}
      <4>1. PICK b \in S \cap finished : Out(b) \cap (S \cap finished) = {}
        <5>1. S \cap finished \in SUBSET finished
          OBVIOUS
        <5> QED
          BY <1>2, <3>2, <5>1 DEF Searched
      <4>2. Out(b) \subseteq finished
        BY <1>2, <4>1 DEF Searched, Out
      <4> QED
        BY <3>1, <4>1, <4>2
    <3>3. CASE S \cap finished = {}
      <4>1. S = {cur}
        BY <1>1, <2>5, <3>3
      <4>2. \A b \in S : Out(b)' = {c \in Blocks : <<cur, c>> \in edges'}
        BY <4>1 DEF Out
      <4>3. {c \in Blocks : <<cur, c>> \in edges'} \cap S = {}
        <5>1. cur \notin finished
          BY <1>2, <1>3 DEF Searched
        <5> QED
          BY <1>11, <4>1, <5>1
      <4> QED
        BY <4>1, <4>2, <4>3
    <3> QED
      BY <3>2, <3>3
  <2>6. 1 \in Met'
    BY <1>2, <1>7 DEF Searched
  <2> QED
    BY <2>1, <2>2, <2>3, <2>4, <2>5, <2>6 DEF Searched
<1>13. Hanging'
  <2> SUFFICES ASSUME NEW C \in SUBSET Blocks, 1 \in C, Closed(edges', C)
               PROVE  Met' \subseteq C
    BY DEF Hanging
  <2>1. Path \subseteq C
    <3>1. \A k \in 1 .. Len(stk) : stk[k] \in C
      BY <1>1, <1>2, <1>9, PathReached DEF Stack
    <3> QED
      BY <3>1 DEF Path
  <2>2. Met \subseteq C
    BY <1>2, <1>4, <2>1, RemovalHidesNothing
  <2> QED
    BY <1>7, <2>2
<1> QED
  BY <1>10, <1>12, <1>13

-----------------------------------------------------------------------------
(* The counts.                                                             *)

LEMMA LargestCount ==
  ASSUME NEW f, NEW S \in SUBSET Blocks, S # {}, \A b \in S : f[b] \in Nat
  PROVE  /\ Max({f[b] : b \in S}) \in Nat
         /\ \A b \in S : f[b] <= Max({f[b_1] : b_1 \in S})
<1> DEFINE F == {f[b] : b \in S}
           Bound(m, n) == \A b \in S : b <= n => f[b] <= m
           Unbounded == {n \in Nat : ~\E m \in Nat : Bound(m, n)}
<1>1. Unbounded = {}
  <2> SUFFICES ASSUME Unbounded # {} PROVE FALSE
    OBVIOUS
  <2>1. PICK n \in Unbounded : \A k \in Unbounded : n <= k
    <3>1. Unbounded \in SUBSET Nat
      OBVIOUS
    <3> QED
      BY <3>1, LeastNumber
  <2>2. S \subseteq Nat \ {0}
    BY DEF Blocks
  <2>3. n # 0
    <3>1. Bound(0, 0)
      BY <2>2
    <3> QED
      BY <3>1
  <2>4. n \in Nat /\ n - 1 \in Nat /\ n - 1 \notin Unbounded
    BY <2>1, <2>3
  <2>5. PICK m \in Nat : Bound(m, n - 1)
    BY <2>4
  <2>6. CASE n \in S
    <3>1. f[n] \in Nat /\ m + f[n] \in Nat /\ m <= m + f[n] /\ f[n] <= m + f[n]
      BY <2>6
    <3>2. ASSUME NEW b \in S, b <= n PROVE f[b] <= m + f[n]
      <4>1. b = n \/ b <= n - 1
        BY <2>2, <2>4, <3>2
      <4>2. CASE b = n
        BY <3>1, <4>2
      <4>3. CASE b <= n - 1
        <5>1. f[b] <= m /\ f[b] \in Nat
          BY <2>5, <4>3
        <5> QED
          BY <3>1, <5>1
      <4> QED
        BY <4>1, <4>2, <4>3
    <3>3. Bound(m + f[n], n)
      BY <3>2
    <3> QED
      BY <3>1, <3>3
  <2>7. CASE n \notin S
    <3>1. Bound(m, n)
      <4> SUFFICES ASSUME NEW b \in S, b <= n PROVE f[b] <= m
        OBVIOUS
      <4>1. b # n /\ b \in Nat
        BY <2>2, <2>7
      <4>2. b <= n - 1
        BY <2>4, <4>1
      <4> QED
        BY <2>5, <4>2
    <3> QED
      BY <3>1
  <2> QED
    BY <2>6, <2>7
<1>2. PICK m \in Nat : \A b \in S : f[b] <= m
  <2>1. LastBlock \in Nat
    BY MeicAssumption
  <2>2. PICK m \in Nat : Bound(m, LastBlock)
    BY <1>1, <2>1
  <2>3. \A b \in S : b <= LastBlock
    BY DEF Blocks
  <2> QED
    BY <2>2, <2>3
<1> DEFINE Above == {n \in Nat : \A x \in F : x <= n}
<1>3. PICK t \in Above : \A n \in Above : t <= n
  <2>1. m \in Above /\ Above \in SUBSET Nat
    BY <1>2
  <2> QED
    BY <2>1, LeastNumber
<1>4. F \subseteq Nat /\ F # {}
  OBVIOUS
<1>5. t \in F
  <2> SUFFICES ASSUME t \notin F PROVE FALSE
    OBVIOUS
  <2>1. ASSUME NEW x \in F PROVE x <= t - 1
    <3>1. x \in Nat /\ x <= t /\ t \in Nat
      BY <1>3, <1>4
    <3>2. x # t
      OBVIOUS
    <3> QED
      BY <3>1, <3>2
  <2>2. t - 1 \in Nat
    BY <1>3, <1>4, <2>1
  <2>3. t - 1 \in Above
    BY <2>1, <2>2
  <2> QED
    BY <1>3, <2>2, <2>3
<1>6. \A x \in F : t >= x
  BY <1>3, <1>4
<1>7. Max(F) \in F /\ \A x \in F : Max(F) >= x
  BY <1>5, <1>6 DEF Max
<1>8. Max(F) \in Nat /\ \A b \in S : f[b] <= Max(F)
  BY <1>4, <1>7
<1> QED
  BY <1>8

LEMMA WeighWeighs ==
  ASSUME MInv, Weigh
  PROVE  Weighed'
<1> DEFINE b == Max(Ready)
<1>1. /\ Ready # {} /\ UNCHANGED edges
      /\ instCnt' = [c \in Done \cup {b} |-> IF c = b THEN Sizes[b] + Heaviest(b) ELSE instCnt[c]]
  BY DEF Weigh
<1>2. Weighed
  BY DEF MInv
<1>3. b \in Ready
  <2>1. Ready \in SUBSET Blocks
    BY DEF Ready
  <2> DEFINE f == [x \in Blocks |-> x]
             T == {LastBlock - x : x \in Ready}
  <2>2. LastBlock \in Nat /\ \A x \in Ready : x \in Nat /\ x <= LastBlock
    BY <2>1, MeicAssumption DEF Blocks
  <2>3. PICK m \in T : \A k \in T : m <= k
    <3>1. T \in SUBSET Nat
      BY <2>2
    <3>2. T # {}
      BY <1>1
    <3> QED
      BY <3>1, <3>2, LeastNumber
  <2>4. PICK x \in Ready : m = LastBlock - x
    BY <2>3
  <2>5. \A y \in Ready : x >= y
    BY <2>2, <2>3, <2>4
  <2> QED
    BY <2>4, <2>5 DEF Max
<1> HIDE DEF b
<1>4. b \in Blocks /\ b \notin Done /\ Out(b) \subseteq Done
  BY <1>3 DEF Ready
<1>5. Sizes[b] \in Nat \ {0}
  BY <1>4, MeicAssumption
<1>6. Heaviest(b) \in Nat /\ \A c \in Out(b) : instCnt[c] <= Heaviest(b)
  <2>1. Out(b) \in SUBSET Blocks /\ \A c \in Out(b) : instCnt[c] \in Nat
    BY <1>2, <1>4 DEF Weighed, Out
  <2>2. CASE Out(b) = {}
    BY <2>2 DEF Heaviest
  <2>3. CASE Out(b) # {}
    BY <2>1, <2>3, LargestCount DEF Heaviest
  <2> QED
    BY <2>2, <2>3
<1>7. /\ Done' = Done \cup {b}
      /\ instCnt'[b] = Sizes[b] + Heaviest(b)
      /\ \A c \in Done : instCnt'[c] = instCnt[c]
  BY <1>1, <1>4 DEF Done
<1>8. \A c : Out(c)' = Out(c)
  BY <1>1 DEF Out
<1>9. ASSUME NEW d \in Done'
      PROVE  /\ instCnt'[d] \in Nat \ {0}
             /\ \A c \in Out(d) : c \in Done' /\ instCnt'[d] > instCnt'[c]
  <2>1. CASE d = b
    <3>1. \A c \in Out(b) : c \in Done /\ instCnt'[c] = instCnt[c] /\ instCnt[c] \in Nat
      BY <1>2, <1>4, <1>7 DEF Weighed
    <3>2. instCnt'[b] \in Nat \ {0} /\ instCnt'[b] > Heaviest(b)
      BY <1>5, <1>6, <1>7
    <3>3. \A c \in Out(b) : instCnt'[b] > instCnt'[c]
      BY <1>6, <3>1, <3>2
    <3> QED
      BY <1>7, <2>1, <3>1, <3>2, <3>3
  <2>2. CASE d \in Done
    BY <1>2, <1>7, <2>2 DEF Weighed
  <2> QED
    BY <1>7, <2>1, <2>2
<1> QED
  BY <1>2, <1>4, <1>7, <1>8, <1>9 DEF Weighed

LEMMA InitMInv == MeicInit(TRUE) => MInv
<1> SUFFICES ASSUME MeicInit(TRUE) PROVE MInv
  OBVIOUS
<1>1. /\ succ \in [Blocks -> {S \in SUBSET (Blocks \ {1}) : Cardinality(S) <= 2}]
      /\ From(1) = Blocks
      /\ backedge \in [Headers -> Blocks]
      /\ edges = Edges \ {<<backedge[h], h>> : h \in Headers}
      /\ phase = "search"
      /\ stk = <<1>> /\ visited = {} /\ finished = {} /\ instCnt = <<>>
  BY DEF MeicInit
<1>2. DOMAIN backedge = Headers
  BY <1>1
<1>3. succ \in [Blocks -> SUBSET (Blocks \ {1})]
  BY <1>1
<1>4. Graph /\ edges = Kept
  BY <1>1, <1>2, <1>3 DEF Graph, Kept
<1>5. stk \in Seq(Blocks) /\ Len(stk) = 1 /\ stk[1] = 1 /\ Head(stk) = 1
  BY <1>1, EntryIsBlock
<1>6. Path = {1}
  BY <1>5 DEF Path
<1>7. Stack
  BY <1>1, <1>5, <1>6 DEF Stack, OnPath, cur
<1>8. Searched
  BY <1>1, <1>4, <1>6 DEF Searched, Met
<1>9. Hanging
  BY <1>1, <1>6 DEF Hanging, Met
<1>10. Done = {} /\ Weighed
  BY <1>1 DEF Done, Weighed
<1> QED
  BY <1>1, <1>4, <1>7, <1>8, <1>9, <1>10 DEF MInv

LEMMA NextMInv == MInv /\ [MeicNext]_meicVars => MInv'
<1> SUFFICES ASSUME MInv, [MeicNext]_meicVars PROVE MInv'
  OBVIOUS
<1> USE DEF MInv
<1>1. CASE Visit
  <2>1. Stack' /\ Searched' /\ Hanging'
    BY <1>1, VisitSearches
  <2>2. /\ UNCHANGED <<succ, backedge, phase, instCnt>> /\ phase = "search"
    BY <1>1 DEF Visit
  <2>3. Done' = {} /\ Weighed'
    BY <2>2 DEF Done, Weighed
  <2> QED
    BY <2>1, <2>2, <2>3, GraphKept
<1>2. CASE Leave
  <2>1. Stack' /\ Searched' /\ Hanging'
    BY <1>2, LeaveSearches
  <2>2. /\ UNCHANGED <<succ, backedge, phase, instCnt>> /\ phase = "search"
    BY <1>2 DEF Leave
  <2>3. Done' = {} /\ Weighed'
    BY <2>2 DEF Done, Weighed
  <2> QED
    BY <2>1, <2>2, <2>3, GraphKept
<1>3. ASSUME UNCHANGED <<succ, backedge, edges, stk, visited, finished>>
      PROVE  Graph' /\ Stack' /\ Searched' /\ Hanging'
  <2>1. Graph' /\ Kept' = Kept
    BY <1>3, GraphKept
  <2>2. Path' = Path /\ Met' = Met /\ OnPath' = OnPath /\ \A b : Out(b)' = Out(b)
    BY <1>3 DEF Path, Met, OnPath, cur, Out
  <2>3. Stack'
    BY <1>3, <2>2 DEF Stack
  <2>4. Searched'
    BY <1>3, <2>1, <2>2 DEF Searched
  <2>5. Hanging'
    BY <1>3, <2>2 DEF Hanging
  <2> QED
    BY <2>1, <2>3, <2>4, <2>5
<1>4. CASE SearchDone
  <2>1. /\ UNCHANGED <<succ, backedge, edges, stk, visited, finished, instCnt>>
        /\ phase = "search" /\ phase' = "weigh" /\ stk = <<>>
    BY <1>4 DEF SearchDone
  <2>2. Weighed'
    BY <2>1 DEF Weighed, Done, Out
  <2> QED
    BY <1>3, <2>1, <2>2
<1>5. CASE Weigh
  <2>1. /\ UNCHANGED <<succ, backedge, edges, phase, stk, visited, finished>> /\ phase = "weigh"
    BY <1>5 DEF Weigh
  <2> QED
    BY <1>3, <1>5, <2>1, WeighWeighs
<1>6. CASE UNCHANGED meicVars
  <2>1. UNCHANGED <<succ, backedge, edges, phase, stk, visited, finished, instCnt>>
    BY <1>6 DEF meicVars
  <2>2. Weighed' /\ Done' = Done
    BY <2>1 DEF Weighed, Done, Out
  <2> QED
    BY <1>3, <2>1, <2>2
<1> QED
  BY <1>1, <1>2, <1>4, <1>5, <1>6 DEF MeicNext

(* The search has met every block when it ends.                            *)
LEMMA AllFinished ==
  ASSUME MInv, LatchesTaken, phase = "weigh"
  PROVE  finished = Blocks /\ Met = Blocks
<1>1. stk = <<>> /\ Graph /\ Searched
  BY DEF MInv
<1>2. Path = {}
  BY <1>1 DEF Path
<1>3. finished \in SUBSET Blocks /\ 1 \in finished /\ Met = finished
  BY <1>1, <1>2 DEF Searched, Met
<1>4. Closed(Kept, finished)
  BY <1>1, <1>3 DEF Closed, Searched
<1> QED
  BY <1>1, <1>3, <1>4, KeptReaches

(* The weighing of the blocks ends with a count for each, and the entry    *)
(* counts more than all others, whatever loops and jumps a function has.   *)
THEOREM CountsCoverCode == MeicSpec => []EntryCoversAll
<1>1. MInv => EntryCoversAll
  <2> SUFFICES ASSUME MInv, LatchesTaken, phase = "weigh"
               PROVE  Sortable /\ Covered
    BY DEF EntryCoversAll, Sortable, Covered
  <2>1. finished = Blocks /\ Met = Blocks
    BY AllFinished
  <2>2. Sortable
    <3> SUFFICES ASSUME Done # Blocks PROVE Ready # {}
      BY DEF Sortable
    <3>1. Blocks \ Done \in SUBSET finished /\ Blocks \ Done # {}
      BY <2>1 DEF MInv, Weighed
    <3>2. PICK b \in Blocks \ Done : Out(b) \cap (Blocks \ Done) = {}
      BY <3>1 DEF MInv, Searched
    <3>3. Out(b) \subseteq Done
      BY <3>2 DEF Out
    <3> QED
      BY <3>2, <3>3 DEF Ready
  <2>3. Covered
    <3> SUFFICES ASSUME Done = Blocks
                 PROVE  /\ \A b \in Blocks \ {1} : instCnt[1] > instCnt[b]
                        /\ \A b \in Blocks : \A l, r \in succ[b] :
                             /\ <<b, l>> \in edges => Sides(b, l, r)[1] < instCnt[b]
                             /\ <<b, r>> \in edges => Sides(b, l, r)[2] < instCnt[b]
      BY DEF Covered
    <3>1. \A b \in Blocks : /\ instCnt[b] \in Nat \ {0}
                            /\ \A c \in Out(b) : instCnt[b] > instCnt[c]
      BY DEF MInv, Weighed
    <3>2. \A b \in Blocks \ {1} : instCnt[1] > instCnt[b]
      <4> DEFINE C == {b \in Blocks : b = 1 \/ instCnt[1] > instCnt[b]}
      <4>1. 1 \in C /\ C \in SUBSET Blocks
        BY EntryIsBlock
      <4>2. Closed(edges, C)
        <5> SUFFICES ASSUME NEW u \in Blocks, NEW v \in Blocks, <<u, v>> \in edges, u \in C
                     PROVE  instCnt[1] > instCnt[v]
          BY DEF Closed
        <5>1. instCnt[u] > instCnt[v] /\ instCnt[u] \in Nat /\ instCnt[v] \in Nat /\ instCnt[1] \in Nat
          BY <3>1, EntryIsBlock DEF Out
        <5>2. u = 1 \/ instCnt[1] > instCnt[u]
          OBVIOUS
        <5> QED
          BY <5>1, <5>2
      <4>3. Met \subseteq C
        BY <4>1, <4>2 DEF MInv, Hanging
      <4> QED
        BY <2>1, <4>3
    <3>3. ASSUME NEW b \in Blocks, NEW l \in succ[b], NEW r \in succ[b]
          PROVE  /\ <<b, l>> \in edges => Sides(b, l, r)[1] < instCnt[b]
                 /\ <<b, r>> \in edges => Sides(b, l, r)[2] < instCnt[b]
      <4>1. l \in Blocks /\ r \in Blocks
        BY DEF MInv, Graph
      <4>2. /\ <<b, l>> \in edges => instCnt[l] < instCnt[b]
            /\ <<b, r>> \in edges => instCnt[r] < instCnt[b]
            /\ 0 < instCnt[b]
        BY <3>1, <4>1 DEF Out
      <4>3. /\ Sides(b, l, r)[1] = instCnt[l] \/ Sides(b, l, r)[1] = 0
            /\ Sides(b, l, r)[2] = instCnt[r] \/ Sides(b, l, r)[2] = 0
        BY DEF Sides
      <4> QED
        BY <4>2, <4>3
    <3> QED
      BY <3>2, <3>3
  <2> QED
    BY <2>2, <2>3
<1> QED
  BY <1>1, InitMInv, NextMInv, PTL DEF MeicSpec

-----------------------------------------------------------------------------
(* Powers of two.                                                          *)

(* The first n + 1 of them, and that there is one such list.               *)
Powers(n, g) ==
  /\ g \in [0 .. n -> Nat \ {0}]
  /\ g[0] = 1 /\ \A k \in 1 .. n : g[k] = 2 * g[k - 1]

LEMMA PowersAgree ==
  ASSUME NEW m \in Nat, NEW n \in Nat, NEW g, NEW h, Powers(m, g), Powers(n, h),
         NEW k0 \in Nat, k0 <= m, k0 <= n
  PROVE  g[k0] = h[k0]
<1> SUFFICES ASSUME g[k0] # h[k0] PROVE FALSE
  OBVIOUS
<1> DEFINE T == {k \in Nat : k <= m /\ k <= n /\ g[k] # h[k]}
<1>1. T \in SUBSET Nat /\ k0 \in T
  OBVIOUS
<1>2. PICK k \in T : \A l \in T : k <= l
  BY <1>1, LeastNumber
<1>3. k # 0 /\ k \in 1 .. m /\ k \in 1 .. n
  BY <1>2 DEF Powers
<1>4. k - 1 \in Nat /\ k - 1 <= m /\ k - 1 <= n /\ ~(k <= k - 1)
  BY <1>3
<1>5. g[k - 1] = h[k - 1]
  BY <1>2, <1>4
<1>6. g[k] = 2 * g[k - 1] /\ h[k] = 2 * h[k - 1]
  BY <1>3 DEF Powers
<1> QED
  BY <1>2, <1>5, <1>6

LEMMA PowersExist == \A n \in Nat : \E g : Powers(n, g)
<1> DEFINE T == {n \in Nat : ~\E g : Powers(n, g)}
<1> SUFFICES ASSUME T # {} PROVE FALSE
  OBVIOUS
<1>1. PICK n \in T : \A l \in T : n <= l
  <2>1. T \in SUBSET Nat
    OBVIOUS
  <2> QED
    BY <2>1, LeastNumber
<1>2. n # 0
  <2>1. Powers(0, [k \in 0 .. 0 |-> 1])
    BY DEF Powers
  <2> QED
    BY <1>1, <2>1
<1>3. n \in Nat /\ n - 1 \in Nat /\ n - 1 \notin T
  BY <1>1, <1>2
<1>4. PICK g : Powers(n - 1, g)
  BY <1>3
<1> DEFINE h == [k \in 0 .. n |-> IF k = n THEN 2 * g[n - 1] ELSE g[k]]
<1>5. Powers(n, h)
  <2>1. g \in [0 .. n - 1 -> Nat \ {0}] /\ g[0] = 1
        /\ \A k \in 1 .. n - 1 : g[k] = 2 * g[k - 1]
    BY <1>4 DEF Powers
  <2>2. n - 1 \in 0 .. n - 1 /\ g[n - 1] \in Nat \ {0} /\ 2 * g[n - 1] \in Nat \ {0}
    BY <1>3, <2>1
  <2>3. \A k \in 0 .. n : k = n \/ k \in 0 .. n - 1
    BY <1>3
  <2>4. h \in [0 .. n -> Nat \ {0}]
    BY <2>1, <2>2, <2>3
  <2>5. h[0] = 1
    BY <1>2, <1>3, <2>1
  <2>6. ASSUME NEW k \in 1 .. n PROVE h[k] = 2 * h[k - 1]
    <3>1. k \in 0 .. n /\ k - 1 \in 0 .. n /\ k - 1 # n /\ (k = n \/ k \in 1 .. n - 1)
      BY <1>3
    <3>2. h[k - 1] = g[k - 1]
      BY <3>1
    <3>3. CASE k = n
      BY <3>1, <3>2, <3>3
    <3>4. CASE k \in 1 .. n - 1
      BY <1>3, <2>1, <3>1, <3>2, <3>4
    <3> QED
      BY <3>1, <3>3, <3>4
  <2> HIDE DEF h
  <2> QED
    BY <2>4, <2>5, <2>6 DEF Powers
<1> QED
  BY <1>1, <1>5

LEMMA PowerOfTwo ==
  /\ pow2[0] = 1
  /\ \A n \in Nat : pow2[n] \in Nat \ {0} /\ pow2[n + 1] = 2 * pow2[n]
<1> DEFINE Is(f) == f = [n \in Nat |-> IF n = 0 THEN 1 ELSE 2 * f[n - 1]]
           list == [n \in Nat |-> CHOOSE g : Powers(n, g)]
           f0 == [n \in Nat |-> list[n][n]]
<1>1. \A n \in Nat : Powers(n, list[n])
  BY PowersExist
<1> HIDE DEF list
<1>2. \A n \in Nat : f0[n] \in Nat \ {0}
  BY <1>1 DEF Powers
<1>3. \A n \in Nat : f0[n] = IF n = 0 THEN 1 ELSE 2 * f0[n - 1]
  <2> SUFFICES ASSUME NEW n \in Nat PROVE f0[n] = IF n = 0 THEN 1 ELSE 2 * f0[n - 1]
    OBVIOUS
  <2>1. CASE n = 0
    BY <1>1, <2>1 DEF Powers
  <2>2. CASE n # 0
    <3>1. n - 1 \in Nat /\ n - 1 <= n /\ n - 1 <= n - 1 /\ n \in 1 .. n
      BY <2>2
    <3>2. list[n][n] = 2 * list[n][n - 1]
      BY <1>1, <3>1 DEF Powers
    <3>3. list[n][n - 1] = list[n - 1][n - 1]
      BY <1>1, <3>1, PowersAgree
    <3> QED
      BY <2>2, <3>1, <3>2, <3>3
  <2> QED
    BY <2>1, <2>2
<1>4. f0 = [n \in Nat |-> f0[n]]
  OBVIOUS
<1> HIDE DEF f0
<1>5. Is(f0)
  BY <1>3, <1>4
<1>6. Is(pow2)
  <2>1. pow2 = CHOOSE f : Is(f)
    BY DEF pow2
  <2> HIDE DEF Is
  <2> QED
    BY <1>5, <2>1
<1>7. pow2[0] = 1 /\ \A n \in Nat : pow2[n + 1] = 2 * pow2[n]
  <2>1. \A n \in Nat : pow2[n] = IF n = 0 THEN 1 ELSE 2 * pow2[n - 1]
    BY <1>6
  <2>2. \A n \in Nat : n + 1 \in Nat /\ n + 1 # 0 /\ (n + 1) - 1 = n
    OBVIOUS
  <2> QED
    BY <2>1, <2>2
<1> DEFINE T == {n \in Nat : pow2[n] \notin Nat \ {0}}
<1>8. T = {}
  <2> SUFFICES ASSUME T # {} PROVE FALSE
    OBVIOUS
  <2>1. PICK n \in T : \A l \in T : n <= l
    <3>1. T \in SUBSET Nat
      OBVIOUS
    <3> QED
      BY <3>1, LeastNumber
  <2>2. n # 0
    BY <1>7, <2>1
  <2>3. n - 1 \in Nat /\ (n - 1) + 1 = n /\ n - 1 \notin T
    BY <2>1, <2>2
  <2>4. pow2[n - 1] \in Nat \ {0} /\ pow2[n] = 2 * pow2[n - 1]
    BY <1>7, <2>3
  <2> QED
    BY <2>1, <2>4
<1> QED
  BY <1>7, <1>8

LEMMA PowerSum ==
  ASSUME NEW m \in Nat, NEW n \in Nat
  PROVE  pow2[m + n] = pow2[m] * pow2[n]
<1> DEFINE T == {k \in Nat : pow2[m + k] # pow2[m] * pow2[k]}
<1> SUFFICES ASSUME T # {} PROVE FALSE
  OBVIOUS
<1>1. PICK k \in T : \A l \in T : k <= l
  <2>1. T \in SUBSET Nat
    OBVIOUS
  <2> QED
    BY <2>1, LeastNumber
<1>2. pow2[m] \in Nat /\ pow2[m + k] # pow2[m] * pow2[k] /\ k \in Nat
  BY <1>1, PowerOfTwo
<1>3. k # 0
  <2>1. m + 0 = m /\ pow2[m] * 1 = pow2[m]
    BY <1>2
  <2> QED
    BY <1>2, <2>1, PowerOfTwo
<1>4. k - 1 \in Nat /\ (k - 1) + 1 = k /\ k - 1 \notin T /\ m + (k - 1) \in Nat
      /\ (m + (k - 1)) + 1 = m + k
  BY <1>1, <1>3
<1>5. pow2[m + (k - 1)] = pow2[m] * pow2[k - 1]
  BY <1>4
<1>6. pow2[k] = 2 * pow2[k - 1] /\ pow2[m + k] = 2 * pow2[m + (k - 1)] /\ pow2[k - 1] \in Nat
  BY <1>4, PowerOfTwo
<1>7. pow2[m] * (2 * pow2[k - 1]) = 2 * (pow2[m] * pow2[k - 1])
  BY <1>2, <1>6
<1> QED
  BY <1>2, <1>5, <1>6, <1>7

LEMMA BitsAre ==
  ASSUME NEW n \in Nat
  PROVE  pow2[n] \in Nat \ {0} /\ \A x : x \in Bits(n) <=> x \in Nat /\ x < pow2[n]
BY PowerOfTwo DEF Bits

-----------------------------------------------------------------------------
(* Comparisons.  The passes nest branches at most twice, and the tests of  *)
(* all of them are comparisons.                                            *)

IcmpPredicates == {"EQ", "NE", "UGT", "UGE", "ULT", "ULE", "SGT", "SGE", "SLT", "SLE"}

Cmps ==
  {c \in [is : {"cmp"}, pred : IcmpPredicates, w : Nat \ {0}, a : Nat, b : Nat] :
     c.pred \notin {"EQ", "NE", "UGT", "ULT"} => {c.a, c.b} \subseteq Bits(c.w)}
LeafNodes == Cmps \cup [is : {"val"}, v : BOOLEAN]
Inner == [is : {"branch"}, test : Cmps, yes : LeafNodes, no : LeafNodes]
Outer == [is : {"branch"}, test : Cmps, yes : LeafNodes, no : LeafNodes \cup Inner]

(* What they come to.                                                      *)
Leaf(n) == IF n.is = "val" THEN n.v ELSE Holds(n)
InnerTrue(n) ==
  IF n.is = "branch" THEN (IF Leaf(n.test) THEN Leaf(n.yes) ELSE Leaf(n.no)) ELSE Leaf(n)
True(n) ==
  IF n.is = "branch" THEN (IF Leaf(n.test) THEN Leaf(n.yes) ELSE InnerTrue(n.no)) ELSE Leaf(n)

LEMMA CmpIn ==
  ASSUME NEW pred \in IcmpPredicates, NEW w \in Nat \ {0}, NEW a \in Nat, NEW b \in Nat,
         pred \in {"EQ", "NE", "UGT", "ULT"} \/ {a, b} \subseteq Bits(w)
  PROVE  Cmp(pred, w, a, b) \in Cmps
BY DEF Cmp, Cmps

LEMMA CmpFields ==
  ASSUME NEW pred, NEW w, NEW a, NEW b
  PROVE  /\ Cmp(pred, w, a, b).is = "cmp" /\ Cmp(pred, w, a, b).pred = pred
         /\ Cmp(pred, w, a, b).w = w /\ Cmp(pred, w, a, b).a = a /\ Cmp(pred, w, a, b).b = b
BY DEF Cmp

(* The meaning of each predicate.                                          *)
LEMMA CmpHolds ==
  ASSUME NEW w, NEW a, NEW b
  PROVE  /\ Holds(Cmp("EQ", w, a, b)) <=> (a = b)
         /\ Holds(Cmp("NE", w, a, b)) <=> (a # b)
         /\ Holds(Cmp("UGT", w, a, b)) <=> (a > b)
         /\ Holds(Cmp("UGE", w, a, b)) <=> (a >= b)
         /\ Holds(Cmp("ULT", w, a, b)) <=> (a < b)
         /\ Holds(Cmp("ULE", w, a, b)) <=> (a <= b)
         /\ Holds(Cmp("SGT", w, a, b)) <=> (Signed(a, w) > Signed(b, w))
         /\ Holds(Cmp("SGE", w, a, b)) <=> (Signed(a, w) >= Signed(b, w))
         /\ Holds(Cmp("SLT", w, a, b)) <=> (Signed(a, w) < Signed(b, w))
         /\ Holds(Cmp("SLE", w, a, b)) <=> (Signed(a, w) <= Signed(b, w))
BY DEF Holds, Cmp

LEMMA CmpRebuilt ==
  ASSUME NEW c \in Cmps
  PROVE  /\ c = Cmp(c.pred, c.w, c.a, c.b) /\ c.is = "cmp"
         /\ c.pred \in IcmpPredicates /\ c.w \in Nat \ {0} /\ c.a \in Nat /\ c.b \in Nat
         /\ c.pred \notin {"EQ", "NE", "UGT", "ULT"} => c.a \in Bits(c.w) /\ c.b \in Bits(c.w)
BY DEF Cmp, Cmps

LEMMA BranchFields ==
  ASSUME NEW t, NEW y, NEW n
  PROVE  /\ CondBr(t, y, n).is = "branch" /\ CondBr(t, y, n).test = t
         /\ CondBr(t, y, n).yes = y /\ CondBr(t, y, n).no = n
         /\ CondBr(t, y, n) = [is |-> "branch", test |-> t, yes |-> y, no |-> n]
BY DEF CondBr

LEMMA ValFields ==
  ASSUME NEW v \in BOOLEAN
  PROVE  /\ Val(v).is = "val" /\ Val(v).v = v /\ Val(v) \in LeafNodes
BY DEF Val, LeafNodes

LEMMA LeafIs ==
  /\ \A c \in Cmps : Leaf(c) = Holds(c) /\ InnerTrue(c) = Holds(c) /\ True(c) = Holds(c)
  /\ \A v \in BOOLEAN : Leaf(Val(v)) = v /\ InnerTrue(Val(v)) = v /\ True(Val(v)) = v
<1>1. ASSUME NEW c \in Cmps
      PROVE  Leaf(c) = Holds(c) /\ InnerTrue(c) = Holds(c) /\ True(c) = Holds(c)
  <2>1. c.is = "cmp"
    BY CmpRebuilt
  <2>2. c.is # "val" /\ c.is # "branch"
    BY <2>1
  <2> QED
    BY <2>2 DEF Leaf, InnerTrue, True
<1>2. ASSUME NEW v \in BOOLEAN
      PROVE  Leaf(Val(v)) = v /\ InnerTrue(Val(v)) = v /\ True(Val(v)) = v
  <2>1. Val(v).is = "val" /\ Val(v).v = v /\ Val(v).is # "branch"
    BY ValFields
  <2> QED
    BY <2>1 DEF Leaf, InnerTrue, True
<1> QED
  BY <1>1, <1>2

LEMMA HoldsIsBoolean == ASSUME NEW c, c.pred \in IcmpPredicates PROVE Holds(c) \in BOOLEAN
<1>1. CASE c.pred = "EQ"
  BY <1>1 DEF Holds
<1>2. CASE c.pred = "NE"
  BY <1>2 DEF Holds
<1>3. CASE c.pred = "UGT"
  BY <1>3 DEF Holds
<1>4. CASE c.pred = "UGE"
  BY <1>4 DEF Holds
<1>5. CASE c.pred = "ULT"
  BY <1>5 DEF Holds
<1>6. CASE c.pred = "ULE"
  BY <1>6 DEF Holds
<1>7. CASE c.pred = "SGT"
  BY <1>7 DEF Holds
<1>8. CASE c.pred = "SGE"
  BY <1>8 DEF Holds
<1>9. CASE c.pred = "SLT"
  BY <1>9 DEF Holds
<1>10. CASE c.pred = "SLE"
  BY <1>10 DEF Holds
<1> QED
  BY <1>1, <1>2, <1>3, <1>4, <1>5, <1>6, <1>7, <1>8, <1>9, <1>10 DEF IcmpPredicates

LEMMA LeafTrue ==
  ASSUME NEW n \in LeafNodes
  PROVE  InnerTrue(n) = Leaf(n) /\ True(n) = Leaf(n) /\ n.is # "branch"
<1>1. n.is # "branch"
  BY DEF LeafNodes, Cmps
<1> QED
  BY <1>1 DEF InnerTrue, True

LEMMA InnerIs ==
  ASSUME NEW t \in Cmps, NEW y \in LeafNodes, NEW n \in LeafNodes
  PROVE  /\ CondBr(t, y, n) \in Inner /\ CondBr(t, y, n) \in Outer
         /\ InnerTrue(CondBr(t, y, n)) <=> IF Leaf(t) THEN Leaf(y) ELSE Leaf(n)
         /\ True(CondBr(t, y, n)) <=> IF Leaf(t) THEN Leaf(y) ELSE Leaf(n)
<1>1. CondBr(t, y, n) \in Inner /\ CondBr(t, y, n) \in Outer
  BY BranchFields DEF Inner, Outer
<1>2. InnerTrue(CondBr(t, y, n)) <=> IF Leaf(t) THEN Leaf(y) ELSE Leaf(n)
  BY BranchFields DEF InnerTrue
<1>3. True(CondBr(t, y, n)) <=> IF Leaf(t) THEN Leaf(y) ELSE InnerTrue(n)
  BY BranchFields DEF True
<1> QED
  BY <1>1, <1>2, <1>3, LeafTrue

LEMMA OuterIs ==
  ASSUME NEW t \in Cmps, NEW y \in LeafNodes, NEW n \in Inner
  PROVE  /\ CondBr(t, y, n) \in Outer
         /\ True(CondBr(t, y, n)) <=> IF Leaf(t) THEN Leaf(y) ELSE InnerTrue(n)
<1>1. CondBr(t, y, n) \in Outer
  BY BranchFields DEF Outer
<1>2. True(CondBr(t, y, n)) <=> IF Leaf(t) THEN Leaf(y) ELSE InnerTrue(n)
  BY BranchFields DEF True
<1> QED
  BY <1>1, <1>2

LEMMA SimplifyKeeps ==
  ASSUME NEW c \in Cmps, c.pred \in DOMAIN Strict
  PROVE  simplifyCompares(c) \in Outer /\ (True(simplifyCompares(c)) <=> Holds(c))
<1>1. c.pred \in {"UGE", "SGE", "ULE", "SLE"}
  BY DEF Strict
<1>2. /\ c = Cmp(c.pred, c.w, c.a, c.b) /\ c.w \in Nat \ {0} /\ c.a \in Nat /\ c.b \in Nat
      /\ c.a \in Bits(c.w) /\ c.b \in Bits(c.w)
  <2>1. c.pred \notin {"EQ", "NE", "UGT", "ULT"}
    BY <1>1
  <2> QED
    BY <2>1, CmpRebuilt
<1> DEFINE strict == Cmp(Strict[c.pred], c.w, c.a, c.b)
           eq == Cmp("EQ", c.w, c.a, c.b)
<1>3. Strict[c.pred] \in {"UGT", "SGT", "ULT", "SLT"}
  BY <1>1 DEF Strict
<1>4. strict \in Cmps /\ eq \in Cmps
  <2>1. Strict[c.pred] \in IcmpPredicates /\ "EQ" \in IcmpPredicates
    BY <1>3 DEF IcmpPredicates
  <2>2. {c.a, c.b} \subseteq Bits(c.w)
    BY <1>2
  <2> QED
    BY <1>2, <2>1, <2>2, CmpIn
<1> DEFINE n == CondBr(strict, Val(TRUE), eq)
<1>5. simplifyCompares(c) = n
  BY DEF simplifyCompares
<1>6. Holds(c) <=> (Holds(strict) \/ Holds(eq))
  <2>1. Signed(c.a, c.w) \in Int /\ Signed(c.b, c.w) \in Int
        /\ (Signed(c.a, c.w) = Signed(c.b, c.w) <=> c.a = c.b)
    <3>1. c.w - 1 \in Nat /\ (c.w - 1) + 1 = c.w
      BY <1>2
    <3>2. pow2[c.w - 1] \in Nat \ {0} /\ pow2[c.w] = 2 * pow2[c.w - 1]
      BY <3>1, PowerOfTwo
    <3>3. c.a < pow2[c.w] /\ c.b < pow2[c.w]
      BY <1>2, BitsAre
    <3> QED
      BY <1>2, <3>2, <3>3 DEF Signed
  <2>2. CASE c.pred = "UGE"
    <3>1. Strict[c.pred] = "UGT"
      BY <2>2 DEF Strict
    <3>2. (Holds(c) <=> (c.a >= c.b)) /\ (Holds(strict) <=> (c.a > c.b)) /\ (Holds(eq) <=> (c.a = c.b))
      BY <1>2, <2>2, <3>1, CmpHolds
    <3> QED
      BY <1>2, <3>2
  <2>3. CASE c.pred = "ULE"
    <3>1. Strict[c.pred] = "ULT"
      BY <2>3 DEF Strict
    <3>2. (Holds(c) <=> (c.a <= c.b)) /\ (Holds(strict) <=> (c.a < c.b)) /\ (Holds(eq) <=> (c.a = c.b))
      BY <1>2, <2>3, <3>1, CmpHolds
    <3> QED
      BY <1>2, <3>2
  <2>4. CASE c.pred = "SGE"
    <3>1. Strict[c.pred] = "SGT"
      BY <2>4 DEF Strict
    <3>2. /\ (Holds(c) <=> (Signed(c.a, c.w) >= Signed(c.b, c.w)))
          /\ (Holds(strict) <=> (Signed(c.a, c.w) > Signed(c.b, c.w))) /\ (Holds(eq) <=> (c.a = c.b))
      BY <1>2, <2>4, <3>1, CmpHolds
    <3> QED
      BY <2>1, <3>2
  <2>5. CASE c.pred = "SLE"
    <3>1. Strict[c.pred] = "SLT"
      BY <2>5 DEF Strict
    <3>2. /\ (Holds(c) <=> (Signed(c.a, c.w) <= Signed(c.b, c.w)))
          /\ (Holds(strict) <=> (Signed(c.a, c.w) < Signed(c.b, c.w))) /\ (Holds(eq) <=> (c.a = c.b))
      BY <1>2, <2>5, <3>1, CmpHolds
    <3> QED
      BY <2>1, <3>2
  <2> QED
    BY <1>1, <2>2, <2>3, <2>4, <2>5
<1> HIDE DEF strict, eq
<1>7. Val(TRUE) \in LeafNodes /\ Leaf(Val(TRUE)) = TRUE
  BY ValFields, LeafIs
<1>8. n \in Outer /\ (True(n) <=> IF Leaf(strict) THEN Leaf(Val(TRUE)) ELSE Leaf(eq))
  BY <1>4, <1>7, InnerIs DEF LeafNodes
<1>9. Leaf(strict) = Holds(strict) /\ Leaf(eq) = Holds(eq)
  BY <1>4, LeafIs
<1> HIDE DEF n
<1> QED
  BY <1>5, <1>6, <1>7, <1>8, <1>9

LEMMA SignKeeps ==
  ASSUME NEW c \in Cmps, c.pred \in DOMAIN Unsigned
  PROVE  simplifySignedness(c) \in Outer /\ (True(simplifySignedness(c)) <=> Holds(c))
<1>1. c.pred \in {"SGT", "SLT"}
  BY DEF Unsigned
<1>2. /\ c = Cmp(c.pred, c.w, c.a, c.b) /\ c.w \in Nat \ {0} /\ c.a \in Nat /\ c.b \in Nat
      /\ c.a \in Bits(c.w) /\ c.b \in Bits(c.w)
  <2>1. c.pred \notin {"EQ", "NE", "UGT", "ULT"}
    BY <1>1
  <2> QED
    BY <2>1, CmpRebuilt
<1> DEFINE a == SignBit(c.a, c.w)
           b == SignBit(c.b, c.w)
           pred == Unsigned[c.pred]
           same == Cmp("EQ", 1, a, b)
           plain == Cmp(pred, c.w, c.a, c.b)
           signs == Cmp(Inverted[pred], 1, a, b)
<1>3. pred \in {"UGT", "ULT"} /\ Inverted[pred] \in {"UGT", "ULT"}
  BY <1>1 DEF Unsigned, Inverted
<1> DEFINE H == pow2[c.w - 1]
<1>4. H \in Nat \ {0} /\ pow2[c.w] = 2 * H /\ c.a < 2 * H /\ c.b < 2 * H
  <2>1. c.w - 1 \in Nat /\ (c.w - 1) + 1 = c.w
    BY <1>2
  <2>2. c.a < pow2[c.w] /\ c.b < pow2[c.w]
    BY <1>2, BitsAre
  <2> QED
    BY <2>1, <2>2, PowerOfTwo
<1>5. /\ a = c.a \div H /\ b = c.b \div H
      /\ Signed(c.a, c.w) = IF c.a >= H THEN c.a - 2 * H ELSE c.a
      /\ Signed(c.b, c.w) = IF c.b >= H THEN c.b - 2 * H ELSE c.b
  BY <1>4 DEF SignBit, Signed
<1> HIDE DEF H, a, b
<1>6. /\ a \in {0, 1} /\ (a = 1 <=> c.a >= H)
      /\ b \in {0, 1} /\ (b = 1 <=> c.b >= H)
  <2>1. ASSUME NEW x \in Nat, x < 2 * H
        PROVE  x \div H \in {0, 1} /\ (x \div H = 1 <=> x >= H)
    BY <1>4, <2>1
  <2> QED
    BY <1>2, <1>4, <1>5, <2>1
<1>7. same \in Cmps /\ plain \in Cmps /\ signs \in Cmps
  <2>1. pred \in IcmpPredicates /\ Inverted[pred] \in IcmpPredicates /\ "EQ" \in IcmpPredicates
    BY <1>3 DEF IcmpPredicates
  <2>2. a \in Nat /\ b \in Nat /\ 1 \in Nat \ {0}
    BY <1>6
  <2> QED
    BY <1>2, <1>3, <2>1, <2>2, CmpIn
<1>8. Holds(c) <=> IF Holds(same) THEN Holds(plain) ELSE Holds(signs)
  <2>1. CASE c.pred = "SGT"
    <3>1. pred = "UGT" /\ Inverted[pred] = "ULT"
      BY <2>1 DEF Unsigned, Inverted
    <3>2. /\ (Holds(c) <=> (Signed(c.a, c.w) > Signed(c.b, c.w)))
          /\ (Holds(same) <=> (a = b)) /\ (Holds(plain) <=> (c.a > c.b)) /\ (Holds(signs) <=> (a < b))
      BY <1>2, <2>1, <3>1, CmpHolds
    <3> HIDE DEF same, plain, signs
    <3>3. (Signed(c.a, c.w) > Signed(c.b, c.w)) = IF a = b THEN c.a > c.b ELSE a < b
      BY <1>2, <1>4, <1>5, <1>6
    <3> QED
      BY <3>2, <3>3
  <2>2. CASE c.pred = "SLT"
    <3>1. pred = "ULT" /\ Inverted[pred] = "UGT"
      BY <2>2 DEF Unsigned, Inverted
    <3>2. /\ (Holds(c) <=> (Signed(c.a, c.w) < Signed(c.b, c.w)))
          /\ (Holds(same) <=> (a = b)) /\ (Holds(plain) <=> (c.a < c.b)) /\ (Holds(signs) <=> (a > b))
      BY <1>2, <2>2, <3>1, CmpHolds
    <3> HIDE DEF same, plain, signs
    <3>3. (Signed(c.a, c.w) < Signed(c.b, c.w)) = IF a = b THEN c.a < c.b ELSE a > b
      BY <1>2, <1>4, <1>5, <1>6
    <3> QED
      BY <3>2, <3>3
  <2> QED
    BY <1>1, <2>1, <2>2
<1> DEFINE n == CondBr(same, plain, signs)
<1>9. simplifySignedness(c) = n
  BY DEF simplifySignedness, a, b
<1> HIDE DEF same, plain, signs
<1>10. n \in Outer /\ (True(n) <=> IF Leaf(same) THEN Leaf(plain) ELSE Leaf(signs))
  BY <1>7, InnerIs DEF LeafNodes
<1>11. Leaf(same) = Holds(same) /\ Leaf(plain) = Holds(plain) /\ Leaf(signs) = Holds(signs)
  BY <1>7, LeafIs
<1> HIDE DEF n
<1> QED
  BY <1>8, <1>9, <1>10, <1>11

(* The high and the low halves of two numbers decide their order.          *)
LEMMA Halves ==
  ASSUME NEW P \in Nat \ {0}, NEW x \in Nat, NEW y \in Nat
  PROVE  /\ x = y <=> x \div P = y \div P /\ x % P = y % P
         /\ x > y <=> x \div P > y \div P \/ (~(x \div P < y \div P) /\ x % P > y % P)
         /\ x < y <=> x \div P < y \div P \/ (~(x \div P > y \div P) /\ x % P < y % P)
<1> DEFINE s == x \div P
           t == y \div P
           l == x % P
           m == y % P
<1>1. /\ s \in Nat /\ t \in Nat /\ l \in 0 .. P - 1 /\ m \in 0 .. P - 1
      /\ x = P * s + l /\ y = P * t + m
  OBVIOUS
<1> HIDE DEF s, t, l, m
<1>2. ASSUME s < t PROVE x < y
  <2>1. P * s + P <= P * t
    <3>1. s + 1 <= t /\ P * (s + 1) = P * s + P
      BY <1>1, <1>2
    <3>2. P * (s + 1) <= P * t
      BY <1>1, <3>1
    <3> QED
      BY <3>1, <3>2
  <2>2. P * s \in Nat /\ P * t \in Nat
    BY <1>1
  <2> QED
    BY <1>1, <2>1, <2>2
<1>3. ASSUME t < s PROVE y < x
  <2>1. P * t + P <= P * s
    <3>1. t + 1 <= s /\ P * (t + 1) = P * t + P
      BY <1>1, <1>3
    <3>2. P * (t + 1) <= P * s
      BY <1>1, <3>1
    <3> QED
      BY <3>1, <3>2
  <2>2. P * s \in Nat /\ P * t \in Nat
    BY <1>1
  <2> QED
    BY <1>1, <2>1, <2>2
<1>4. ASSUME s = t PROVE (x < y <=> l < m) /\ (x = y <=> l = m) /\ (x > y <=> l > m)
  <2>1. P * s \in Nat /\ P * t = P * s
    BY <1>1, <1>4
  <2> QED
    BY <1>1, <2>1
<1>5. s < t \/ t < s \/ s = t
  BY <1>1
<1>6. /\ x = y <=> s = t /\ l = m
      /\ x > y <=> s > t \/ (~(s < t) /\ l > m)
      /\ x < y <=> s < t \/ (~(s > t) /\ l < m)
  BY <1>1, <1>2, <1>3, <1>4, <1>5
<1> QED
  BY <1>6 DEF s, t, l, m

LEMMA SplitKeeps ==
  ASSUME NEW c \in Cmps, c.pred \in {"EQ", "NE", "UGT", "ULT"}, c.w \in Widths
  PROVE  splitCompares(c) \in Outer /\ (True(splitCompares(c)) <=> Holds(c))
<1> DEFINE half == c.w \div 2
           P == pow2[half]
           High(p) == Cmp(p, half, c.a \div P, c.b \div P)
           low == Cmp(c.pred, half, c.a % P, c.b % P)
<1>1. half \in Nat \ {0} /\ P \in Nat \ {0}
  <2>1. PICK k \in {2, 4, 8} : c.w = k * Byte
    BY DEF Widths
  <2>2. c.w \in {2 * Byte, 4 * Byte, 8 * Byte} /\ Byte \in Nat \ {0}
    BY <2>1, LafAssumption
  <2>3. half \in Nat \ {0}
    BY <2>2
  <2> QED
    BY <2>3, PowerOfTwo
<1>2. c = Cmp(c.pred, c.w, c.a, c.b) /\ c.a \in Nat /\ c.b \in Nat
  BY CmpRebuilt
<1> DEFINE s == c.a \div P
           t == c.b \div P
           l == c.a % P
           m == c.b % P
<1>3. splitCompares(c) =
        CASE c.pred = "EQ" -> CondBr(High("EQ"), low, Val(FALSE))
          [] c.pred = "NE" -> CondBr(High("NE"), Val(TRUE), low)
          [] OTHER -> CondBr(High(c.pred), Val(TRUE),
                             CondBr(High(Inverted[c.pred]), Val(FALSE), low))
  BY DEF splitCompares, Tested
<1> HIDE DEF half, P
<1>4. /\ s \in Nat /\ t \in Nat /\ l \in Nat /\ m \in Nat
      /\ c.a = c.b <=> s = t /\ l = m
      /\ c.a > c.b <=> s > t \/ (~(s < t) /\ l > m)
      /\ c.a < c.b <=> s < t \/ (~(s > t) /\ l < m)
  <2>1. s \in Nat /\ t \in Nat /\ l \in Nat /\ m \in Nat
    BY <1>1, <1>2
  <2>2. \A x, y \in Nat :
          /\ x = y <=> x \div P = y \div P /\ x % P = y % P
          /\ x > y <=> x \div P > y \div P \/ (~(x \div P < y \div P) /\ x % P > y % P)
          /\ x < y <=> x \div P < y \div P \/ (~(x \div P > y \div P) /\ x % P < y % P)
    BY <1>1, Halves
  <2>3. /\ c.a = c.b <=> s = t /\ l = m
        /\ c.a > c.b <=> s > t \/ (~(s < t) /\ l > m)
        /\ c.a < c.b <=> s < t \/ (~(s > t) /\ l < m)
    BY <1>2, <2>2
  <2> QED
    BY <2>1, <2>3
<1> HIDE DEF s, t, l, m
<1>5. \A p \in {"EQ", "NE", "UGT", "ULT"} : High(p) \in Cmps
  BY <1>1, <1>4, CmpIn DEF IcmpPredicates, s, t
<1>6. low \in Cmps
  BY <1>1, <1>4, CmpIn DEF IcmpPredicates, l, m
<1>7. /\ Holds(High("EQ")) <=> s = t
      /\ Holds(High("NE")) <=> s # t
      /\ Holds(High("UGT")) <=> s > t
      /\ Holds(High("ULT")) <=> s < t
  BY CmpHolds DEF s, t
<1>8. /\ c.pred = "EQ" => (Holds(low) <=> l = m) /\ (Holds(c) <=> c.a = c.b)
      /\ c.pred = "NE" => (Holds(low) <=> l # m) /\ (Holds(c) <=> c.a # c.b)
      /\ c.pred = "UGT" => (Holds(low) <=> l > m) /\ (Holds(c) <=> c.a > c.b)
      /\ c.pred = "ULT" => (Holds(low) <=> l < m) /\ (Holds(c) <=> c.a < c.b)
  BY <1>2, CmpHolds DEF l, m
<1> HIDE DEF High, low
<1>9. /\ Val(TRUE) \in LeafNodes /\ (Leaf(Val(TRUE)) <=> TRUE)
      /\ Val(FALSE) \in LeafNodes /\ (Leaf(Val(FALSE)) <=> FALSE)
  BY ValFields, LeafIs
<1>10. /\ \A p \in {"EQ", "NE", "UGT", "ULT"} : Leaf(High(p)) = Holds(High(p)) /\ High(p) \in LeafNodes
       /\ Leaf(low) = Holds(low) /\ low \in LeafNodes
  BY <1>5, <1>6, LeafIs DEF LeafNodes
<1>11. CASE c.pred = "EQ"
  <2> DEFINE n == CondBr(High("EQ"), low, Val(FALSE))
  <2>1. splitCompares(c) = n
    BY <1>3, <1>11
  <2>2. n \in Outer /\ (True(n) <=> IF Leaf(High("EQ")) THEN Leaf(low) ELSE Leaf(Val(FALSE)))
    BY <1>5, <1>9, <1>10, InnerIs
  <2> HIDE DEF n
  <2>3. True(n) <=> s = t /\ l = m
    BY <1>7, <1>8, <1>9, <1>10, <1>11, <2>2
  <2> QED
    BY <1>4, <1>8, <1>11, <2>1, <2>2, <2>3
<1>12. CASE c.pred = "NE"
  <2> DEFINE n == CondBr(High("NE"), Val(TRUE), low)
  <2>1. splitCompares(c) = n
    BY <1>3, <1>12
  <2>2. n \in Outer /\ (True(n) <=> IF Leaf(High("NE")) THEN Leaf(Val(TRUE)) ELSE Leaf(low))
    BY <1>5, <1>9, <1>10, InnerIs
  <2> HIDE DEF n
  <2>3. True(n) <=> s # t \/ l # m
    BY <1>7, <1>8, <1>9, <1>10, <1>12, <2>2
  <2> QED
    BY <1>4, <1>8, <1>12, <2>1, <2>2, <2>3
<1>13. ASSUME NEW p \in {"UGT", "ULT"}, NEW q \in {"UGT", "ULT"}, c.pred = p, Inverted[p] = q
       PROVE  /\ splitCompares(c) \in Outer
              /\ True(splitCompares(c)) <=> Holds(High(p)) \/ (~Holds(High(q)) /\ Holds(low))
  <2> DEFINE inner == CondBr(High(q), Val(FALSE), low)
             n == CondBr(High(p), Val(TRUE), inner)
  <2>1. splitCompares(c) = n
    BY <1>3, <1>13
  <2>2. inner \in Inner /\ (InnerTrue(inner) <=> IF Leaf(High(q)) THEN Leaf(Val(FALSE)) ELSE Leaf(low))
    BY <1>5, <1>9, <1>10, <1>13, InnerIs
  <2> HIDE DEF inner
  <2>3. n \in Outer /\ (True(n) <=> IF Leaf(High(p)) THEN Leaf(Val(TRUE)) ELSE InnerTrue(inner))
    BY <1>5, <1>9, <1>13, <2>2, OuterIs
  <2> HIDE DEF n
  <2>4. True(n) <=> Holds(High(p)) \/ (~Holds(High(q)) /\ Holds(low))
    BY <1>9, <1>10, <1>13, <2>2, <2>3
  <2> QED
    BY <2>1, <2>3, <2>4
<1>14. CASE c.pred = "UGT"
  <2>1. Inverted["UGT"] = "ULT"
    BY DEF Inverted
  <2>2. /\ splitCompares(c) \in Outer
        /\ True(splitCompares(c)) <=> Holds(High("UGT")) \/ (~Holds(High("ULT")) /\ Holds(low))
    BY <1>13, <1>14, <2>1
  <2> QED
    BY <1>4, <1>7, <1>8, <1>14, <2>2
<1>15. CASE c.pred = "ULT"
  <2>1. Inverted["ULT"] = "UGT"
    BY DEF Inverted
  <2>2. /\ splitCompares(c) \in Outer
        /\ True(splitCompares(c)) <=> Holds(High("ULT")) \/ (~Holds(High("UGT")) /\ Holds(low))
    BY <1>13, <1>15, <2>1
  <2> QED
    BY <1>4, <1>7, <1>8, <1>15, <2>2
<1> QED
  BY <1>11, <1>12, <1>14, <1>15

-----------------------------------------------------------------------------
(* A comparison is evaluated as it was asked: what is evaluated next comes *)
(* to what the last of the waiting branches tests, each of these to what   *)
(* the one before it tests, and the first to the comparison in the source. *)

Nodes == LeafNodes \cup Outer

CompareInv ==
  IF asked = None THEN node = None
  ELSE /\ asked \in Cmps /\ node \in Nodes /\ pending \in Seq(Outer)
       /\ True(node) <=> IF pending = <<>> THEN Holds(asked) ELSE Leaf(pending[1].test)
       /\ \A k \in 1 .. Len(pending) :
            True(pending[k]) <=> IF k = Len(pending) THEN Holds(asked)
                                 ELSE Leaf(pending[k + 1].test)

LEMMA NodeKinds ==
  ASSUME NEW n \in Nodes
  PROVE  /\ n.is = "cmp" => n \in Cmps
         /\ n.is = "val" => n.v \in BOOLEAN /\ (True(n) <=> n.v)
         /\ n.is = "branch" => n \in Outer
<1>1. CASE n \in Cmps
  BY <1>1, CmpRebuilt
<1>2. CASE n \in [is : {"val"}, v : BOOLEAN]
  <2>1. n.is = "val" /\ n.v \in BOOLEAN /\ n.is # "branch" /\ n.is # "cmp"
    BY <1>2
  <2>2. True(n) = n.v
    BY <2>1 DEF True, Leaf
  <2> QED
    BY <2>1, <2>2
<1>3. CASE n \in Outer
  <2>1. n.is = "branch"
    BY <1>3 DEF Outer
  <2> QED
    BY <1>3, <2>1
<1> QED
  BY <1>1, <1>2, <1>3 DEF Nodes, LeafNodes

LEMMA BranchParts ==
  ASSUME NEW n \in Outer
  PROVE  /\ n.is = "branch" /\ n.test \in Cmps /\ n.test \in Nodes
         /\ n.yes \in Nodes /\ n.no \in Nodes
         /\ True(n.test) <=> Leaf(n.test)
         /\ True(n) <=> IF Leaf(n.test) THEN True(n.yes) ELSE True(n.no)
<1>1. n.is = "branch" /\ n.test \in Cmps /\ n.yes \in LeafNodes /\ n.no \in LeafNodes \cup Inner
  BY DEF Outer
<1>2. n.test \in LeafNodes /\ Inner \subseteq Outer
  BY <1>1 DEF LeafNodes, Inner, Outer
<1>3. True(n.test) = Leaf(n.test) /\ True(n.yes) = Leaf(n.yes)
  BY <1>1, <1>2, LeafTrue
<1>4. InnerTrue(n.no) <=> True(n.no)
  <2>1. CASE n.no \in LeafNodes
    BY <2>1, LeafTrue
  <2>2. CASE n.no \in Inner
    <3>1. n.no.is = "branch" /\ n.no.no \in LeafNodes
      BY <2>2 DEF Inner
    <3>2. InnerTrue(n.no.no) = Leaf(n.no.no)
      BY <3>1, LeafTrue
    <3> QED
      BY <3>1, <3>2 DEF InnerTrue, True
  <2> QED
    BY <1>1, <2>1, <2>2
<1>5. True(n) <=> IF Leaf(n.test) THEN Leaf(n.yes) ELSE InnerTrue(n.no)
  BY <1>1 DEF True
<1> QED
  BY <1>1, <1>2, <1>3, <1>4, <1>5 DEF Nodes

LEMMA CompareStart == ASSUME NEW on \in BOOLEAN, CompareInit(on) PROVE CompareInv
<1>1. CASE on = FALSE
  BY <1>1 DEF CompareInit, CompareInv
<1>2. CASE on = TRUE
  <2>1. PICK pred \in IcmpPredicates, c \in Compares : asked = Cmp(pred, c[1], c[2], c[3])
    BY <1>2 DEF CompareInit, IcmpPredicates
  <2>2. node = asked /\ pending = <<>>
    BY <1>2 DEF CompareInit
  <2>3. /\ c[1] \in Nat \ {0} /\ {c[2], c[3]} \subseteq Bits(c[1])
        /\ c[2] \in Nat /\ c[3] \in Nat
    <3>1. c[1] \in Nat \ {0} /\ {c[2], c[3]} \subseteq Bits(c[1])
      BY LafAssumption
    <3> QED
      BY <3>1, BitsAre
  <2>4. asked \in Cmps
    BY <2>1, <2>3, CmpIn
  <2>5. asked # None
    <3>1. asked.is = "cmp"
      BY <2>4, CmpRebuilt
    <3>2. None.is = "none"
      BY DEF None
    <3> QED
      BY <3>1, <3>2
  <2>6. node \in Nodes /\ (True(node) <=> Holds(asked))
    BY <2>2, <2>4, LeafIs DEF Nodes, LeafNodes
  <2>7. Len(pending) = 0 /\ pending \in Seq(Outer)
    BY <2>2
  <2> QED
    BY <2>2, <2>4, <2>5, <2>6, <2>7 DEF CompareInv
<1> QED
  BY <1>1, <1>2

LEMMA CompareStep == ASSUME CompareInv, CompareNext PROVE CompareInv'
<1>1. asked # None
  <2> SUFFICES ASSUME asked = None PROVE FALSE
    OBVIOUS
  <2>1. node = None /\ None.is = "none"
    BY DEF CompareInv, None
  <2>2. node.is \notin {"cmp", "branch", "val"}
    BY <2>1
  <2> QED
    BY <2>2 DEF CompareNext, Simplify, RemoveSign, Split, Compare, TakeTest, Follow
<1>2. /\ asked \in Cmps /\ node \in Nodes /\ pending \in Seq(Outer)
      /\ True(node) <=> IF pending = <<>> THEN Holds(asked) ELSE Leaf(pending[1].test)
      /\ \A k \in 1 .. Len(pending) :
           True(pending[k]) <=> IF k = Len(pending) THEN Holds(asked)
                                ELSE Leaf(pending[k + 1].test)
  BY <1>1 DEF CompareInv
<1>3. ASSUME node' \in Nodes, True(node') <=> True(node), UNCHANGED <<asked, pending>>
      PROVE  CompareInv'
  BY <1>1, <1>2, <1>3 DEF CompareInv
<1>4. CASE Simplify
  <2>1. node.is = "cmp" /\ node.pred \in DOMAIN Strict /\ node' = simplifyCompares(node)
    BY <1>4 DEF Simplify
  <2>2. node \in Cmps /\ True(node) = Holds(node)
    BY <1>2, <2>1, NodeKinds, LeafIs
  <2>3. node' \in Nodes /\ (True(node') <=> True(node))
    BY <2>1, <2>2, SimplifyKeeps DEF Nodes
  <2> QED
    BY <1>3, <1>4, <2>3 DEF Simplify
<1>5. CASE RemoveSign
  <2>1. node.is = "cmp" /\ node.pred \in DOMAIN Unsigned /\ node' = simplifySignedness(node)
    BY <1>5 DEF RemoveSign
  <2>2. node \in Cmps /\ True(node) = Holds(node)
    BY <1>2, <2>1, NodeKinds, LeafIs
  <2>3. node' \in Nodes /\ (True(node') <=> True(node))
    BY <2>1, <2>2, SignKeeps DEF Nodes
  <2> QED
    BY <1>3, <1>5, <2>3 DEF RemoveSign
<1>6. CASE Split
  <2>1. /\ node.is = "cmp" /\ node.pred \in {"EQ", "NE", "UGT", "ULT"} /\ node.w \in Widths
        /\ node' = splitCompares(node)
    BY <1>6 DEF Split
  <2>2. node \in Cmps /\ True(node) = Holds(node)
    BY <1>2, <2>1, NodeKinds, LeafIs
  <2>3. node' \in Nodes /\ (True(node') <=> True(node))
    BY <2>1, <2>2, SplitKeeps DEF Nodes
  <2> QED
    BY <1>3, <1>6, <2>3 DEF Split
<1>7. CASE Compare
  <2>1. node.is = "cmp" /\ node' = Val(Holds(node))
    BY <1>7 DEF Compare
  <2>2. node \in Cmps /\ True(node) = Holds(node) /\ Holds(node) \in BOOLEAN
    BY <1>2, <2>1, NodeKinds, LeafIs, HoldsIsBoolean, CmpRebuilt
  <2>3. node' \in Nodes /\ (True(node') <=> True(node))
    BY <2>1, <2>2, ValFields, LeafIs DEF Nodes
  <2> QED
    BY <1>3, <1>7, <2>3 DEF Compare
<1>8. CASE TakeTest
  <2>1. node.is = "branch" /\ node' = node.test /\ pending' = <<node>> \o pending /\ asked' = asked
    BY <1>8 DEF TakeTest
  <2>2. /\ node \in Outer /\ node.test \in Nodes /\ (True(node.test) <=> Leaf(node.test))
    BY <1>2, <2>1, NodeKinds, BranchParts
  <2>3. /\ pending' \in Seq(Outer) /\ Len(pending') = Len(pending) + 1 /\ pending' # <<>>
        /\ pending'[1] = node
        /\ \A k \in 1 .. Len(pending) : pending'[k + 1] = pending[k]
        /\ Len(pending) \in Nat
    BY <1>2, <2>1, <2>2
  <2>4. ASSUME NEW k \in 1 .. Len(pending')
        PROVE  True(pending'[k]) <=> IF k = Len(pending') THEN Holds(asked)
                                     ELSE Leaf(pending'[k + 1].test)
    <3>1. CASE k = 1
      <4>1. CASE pending = <<>>
        <5>1. Len(pending') = 1
          BY <2>3, <4>1
        <5> QED
          BY <1>2, <2>3, <3>1, <4>1, <5>1
      <4>2. CASE pending # <<>>
        <5>1. Len(pending) # 0 /\ 1 \in 1 .. Len(pending) /\ 1 # Len(pending')
          BY <1>2, <2>3, <4>2
        <5>2. pending'[1 + 1] = pending[1]
          BY <2>3, <5>1
        <5> QED
          BY <1>2, <2>3, <3>1, <4>2, <5>1, <5>2
      <4> QED
        BY <4>1, <4>2
    <3>2. CASE k # 1
      <4>1. /\ k - 1 \in 1 .. Len(pending) /\ (k - 1) + 1 = k
            /\ (k - 1 = Len(pending) <=> k = Len(pending'))
        BY <2>3, <3>2
      <4>2. pending'[k] = pending[k - 1]
        BY <2>3, <4>1
      <4>3. CASE k = Len(pending')
        BY <1>2, <4>1, <4>2, <4>3
      <4>4. CASE k # Len(pending')
        <5>1. k \in 1 .. Len(pending)
          BY <2>3, <4>4
        <5>2. pending'[k + 1] = pending[k]
          BY <2>3, <5>1
        <5>3. True(pending[k - 1]) <=> Leaf(pending[(k - 1) + 1].test)
          BY <1>2, <4>1, <4>4
        <5> QED
          BY <4>1, <4>2, <4>4, <5>2, <5>3
      <4> QED
        BY <4>3, <4>4
    <3> QED
      BY <3>1, <3>2
  <2> QED
    BY <1>1, <1>2, <2>1, <2>2, <2>3, <2>4 DEF CompareInv
<1>9. CASE Follow
  <2>1. /\ node.is = "val" /\ pending # <<>> /\ asked' = asked
        /\ node' = IF node.v THEN Head(pending).yes ELSE Head(pending).no
        /\ pending' = Tail(pending)
    BY <1>9 DEF Follow
  <2> DEFINE p == pending[1]
  <2>2. p \in Outer /\ Head(pending) = p /\ Len(pending) \in Nat \ {0} /\ 1 \in 1 .. Len(pending)
    BY <1>2, <2>1
  <2>3. node.v <=> Leaf(p.test)
    BY <1>2, <2>1, NodeKinds
  <2> HIDE DEF p
  <2>4. node' \in Nodes /\ (True(node') <=> True(p))
    BY <2>1, <2>2, <2>3, BranchParts
  <2>5. /\ pending' \in Seq(Outer) /\ Len(pending') = Len(pending) - 1
        /\ \A k \in 1 .. Len(pending') : pending'[k] = pending[k + 1]
    BY <1>2, <2>1, <2>2
  <2>6. True(node') <=> IF pending' = <<>> THEN Holds(asked) ELSE Leaf(pending'[1].test)
    <3>1. True(p) <=> IF 1 = Len(pending) THEN Holds(asked) ELSE Leaf(pending[1 + 1].test)
      BY <1>2, <2>2 DEF p
    <3>2. CASE pending' = <<>>
      <4>1. Len(pending) = 1
        BY <2>2, <2>5, <3>2
      <4> QED
        BY <2>4, <3>1, <3>2, <4>1
    <3>3. CASE pending' # <<>>
      <4>1. 1 \in 1 .. Len(pending') /\ Len(pending) # 1
        BY <2>2, <2>5, <3>3
      <4>2. pending'[1] = pending[1 + 1]
        BY <2>5, <4>1
      <4> QED
        BY <2>4, <3>1, <3>3, <4>1, <4>2
    <3> QED
      BY <3>2, <3>3
  <2>7. ASSUME NEW k \in 1 .. Len(pending')
        PROVE  True(pending'[k]) <=> IF k = Len(pending') THEN Holds(asked)
                                     ELSE Leaf(pending'[k + 1].test)
    <3>1. /\ k + 1 \in 1 .. Len(pending) /\ (k = Len(pending') <=> k + 1 = Len(pending))
          /\ k # Len(pending') => k + 1 \in 1 .. Len(pending')
      BY <2>2, <2>5
    <3>2. pending'[k] = pending[k + 1] /\ (k # Len(pending') => pending'[k + 1] = pending[(k + 1) + 1])
      BY <2>5, <3>1
    <3>3. True(pending[k + 1]) <=> IF k + 1 = Len(pending) THEN Holds(asked)
                                   ELSE Leaf(pending[(k + 1) + 1].test)
      BY <1>2, <3>1
    <3> QED
      BY <3>1, <3>2, <3>3
  <2> QED
    BY <1>1, <1>2, <2>1, <2>4, <2>5, <2>6, <2>7 DEF CompareInv
<1> QED
  BY <1>4, <1>5, <1>6, <1>7, <1>8, <1>9 DEF CompareNext

LEMMA CompareIsKept == ASSUME CompareInv PROVE CompareKept
<1> SUFFICES ASSUME node.is = "val", pending = <<>> PROVE node.v <=> Holds(asked)
  BY DEF CompareKept
<1>1. asked # None
  BY DEF CompareInv, None
<1> QED
  BY <1>1, NodeKinds DEF CompareInv

-----------------------------------------------------------------------------
(* Switches.  A number is known by its bytes.                              *)

LEMMA ModuloIs ==
  ASSUME NEW x \in Nat, NEW M \in Nat \ {0}, NEW e \in Nat, NEW s \in Nat,
         x = M * e + s, s < M
  PROVE  x % M = s
<1> DEFINE d == x \div M
           r == x % M
<1>1. d \in Nat /\ r \in Nat /\ r < M /\ x = M * d + r
  OBVIOUS
<1> HIDE DEF d, r
<1>2. M * d + r = M * e + s
  BY <1>1
<1>3. CASE d = e
  BY <1>1, <1>2, <1>3 DEF r
<1>4. CASE d > e
  <2>1. PICK f \in Nat \ {0} : d = e + f
    <3>1. d - e \in Nat \ {0} /\ d = e + (d - e)
      BY <1>1, <1>4
    <3> QED
      BY <3>1
  <2>2. M * d = M * e + M * f
    BY <2>1
  <2>3. M * f >= M
    BY <2>1
  <2>4. M * e \in Nat /\ M * f \in Nat
    BY <2>1
  <2> QED
    BY <1>1, <1>2, <2>2, <2>3, <2>4
<1>5. CASE d < e
  <2>1. PICK f \in Nat \ {0} : e = d + f
    <3>1. e - d \in Nat \ {0} /\ e = d + (e - d)
      BY <1>1, <1>5
    <3> QED
      BY <3>1
  <2>2. M * e = M * d + M * f
    BY <1>1, <2>1
  <2>3. M * f >= M
    BY <2>1
  <2>4. M * d \in Nat /\ M * f \in Nat
    BY <1>1, <2>1
  <2> QED
    BY <1>1, <1>2, <2>2, <2>3, <2>4
<1> QED
  BY <1>1, <1>3, <1>4, <1>5

(* As operators of their own, quotients and remainders are left alone.    *)
Quotient(x, y) == x \div y
Remainder(x, y) == x % y
Digits(q, f, r) == q * f + r

LEMMA NextDigit ==
  ASSUME NEW x \in Nat, NEW P \in Nat \ {0}, NEW Q \in Nat \ {0}, NEW f \in Nat, NEW r \in Nat,
         f = Remainder(Quotient(x, Q), P), r = Remainder(x, Q)
  PROVE  Remainder(x, Q * P) = Digits(Q, f, r)
<1> DEFINE d == x \div Q
           e == d \div P
<1>1. d \in Nat /\ r \in Nat /\ r < Q /\ x = Q * d + r
  BY DEF Remainder
<1>2. f = d % P
  BY DEF Remainder, Quotient
<1> HIDE DEF d
<1>3. e \in Nat /\ f \in Nat /\ f < P /\ d = P * e + f
  BY <1>1, <1>2
<1> HIDE DEF e
<1>4. Q * d = (Q * P) * e + Q * f
  BY <1>3
<1>5. Q * f \in Nat /\ Q * P \in Nat \ {0} /\ (Q * P) * e \in Nat
  BY <1>3
<1>6. Q * f + Q <= Q * P
  <2>1. f + 1 <= P /\ f + 1 \in Nat
    BY <1>3
  <2>2. Q * (f + 1) <= Q * P
    BY <2>1
  <2>3. Q * (f + 1) = Q * f + Q
    BY <1>3
  <2> QED
    BY <2>2, <2>3
<1>7. x = (Q * P) * e + (Q * f + r) /\ Q * f + r \in Nat /\ Q * f + r < Q * P
  BY <1>1, <1>4, <1>5, <1>6
<1> QED
  BY <1>3, <1>5, <1>7, ModuloIs DEF Remainder, Digits

LEMMA DigitsTell ==
  ASSUME NEW x \in Nat, NEW y \in Nat, NEW P \in Nat \ {0}, NEW Q \in Nat \ {0},
         Remainder(x, Q) = Remainder(y, Q),
         Remainder(Quotient(x, Q), P) = Remainder(Quotient(y, Q), P)
  PROVE  Remainder(x, Q * P) = Remainder(y, Q * P)
<1> DEFINE f == Remainder(Quotient(x, Q), P)
           r == Remainder(x, Q)
<1>1. f \in Nat /\ r \in Nat
  <2>1. x \div Q \in Nat
    OBVIOUS
  <2> QED
    BY <2>1 DEF Quotient, Remainder
<1>2. Remainder(x, Q * P) = Digits(Q, f, r)
  BY <1>1, NextDigit
<1>3. Remainder(y, Q * P) = Digits(Q, f, r)
  BY <1>1, NextDigit
<1> QED
  BY <1>2, <1>3

LEMMA BytesTell ==
  ASSUME NEW x \in Bits(Byte * SwitchBytes), NEW y \in Bits(Byte * SwitchBytes),
         \A k \in Bytes : ByteOf(x, k) = ByteOf(y, k)
  PROVE  x = y
<1>1. Byte \in Nat \ {0} /\ SwitchBytes \in Nat \ {0} /\ Byte * SwitchBytes \in Nat
  BY LafAssumption
<1>2. x \in Nat /\ y \in Nat /\ x < pow2[Byte * SwitchBytes] /\ y < pow2[Byte * SwitchBytes]
  BY <1>1, BitsAre
<1> DEFINE T == {k \in Nat : k <= SwitchBytes /\ x % pow2[Byte * k] # y % pow2[Byte * k]}
<1>3. T = {}
  <2> SUFFICES ASSUME T # {} PROVE FALSE
    OBVIOUS
  <2>1. PICK k \in T : \A l \in T : k <= l
    <3>1. T \in SUBSET Nat
      OBVIOUS
    <3> QED
      BY <3>1, LeastNumber
  <2>2. k # 0
    <3>1. Byte * 0 = 0 /\ pow2[0] = 1
      BY <1>1, PowerOfTwo
    <3>2. x % 1 = y % 1
      BY <1>2
    <3> QED
      BY <2>1, <3>1, <3>2
  <2> DEFINE j == k - 1
             Q == pow2[Byte * j]
             P == pow2[Byte]
  <2>3. j \in Nat /\ j \in Bytes /\ j \notin T /\ j <= SwitchBytes /\ k = j + 1
    BY <1>1, <2>1, <2>2 DEF Bytes
  <2>4. x % Q = y % Q
    BY <2>3
  <2>5. Byte * k = Byte * j + Byte /\ Byte * j \in Nat
    BY <1>1, <2>3
  <2>6. pow2[Byte * k] = Q * P /\ Q \in Nat \ {0} /\ P \in Nat \ {0}
    <3>1. Byte \in Nat /\ Byte * j \in Nat
      BY <1>1, <2>5
    <3>2. pow2[Byte * j + Byte] = Q * P
      BY <3>1, PowerSum
    <3>3. Q \in Nat \ {0} /\ P \in Nat \ {0}
      BY <3>1, PowerOfTwo
    <3> QED
      BY <2>5, <3>2, <3>3
  <2>7. (x \div Q) % P = (y \div Q) % P
    BY <2>3 DEF ByteOf
  <2> HIDE DEF Q, P
  <2>8. x \in Nat /\ y \in Nat /\ P \in Nat \ {0} /\ Q \in Nat \ {0}
    BY <1>2, <2>6
  <2>9. Remainder(x, Q) = Remainder(y, Q)
    BY <2>4 DEF Remainder
  <2>10. Remainder(Quotient(x, Q), P) = Remainder(Quotient(y, Q), P)
    BY <2>7 DEF Remainder, Quotient
  <2>11. Remainder(x, Q * P) = Remainder(y, Q * P)
    BY <2>8, <2>9, <2>10, DigitsTell
  <2> QED
    BY <2>1, <2>6, <2>11 DEF Remainder
<1>4. x % pow2[Byte * SwitchBytes] = y % pow2[Byte * SwitchBytes]
  BY <1>1, <1>3
<1>5. x % pow2[Byte * SwitchBytes] = x /\ y % pow2[Byte * SwitchBytes] = y
  <2>1. pow2[Byte * SwitchBytes] \in Nat \ {0}
    BY <1>1, PowerOfTwo
  <2> QED
    BY <1>2, <2>1
<1> QED
  BY <1>4, <1>5

(* Of the cases only those are dropped whose bytes differ from the value's,*)
(* and those that are left have its bytes wherever the walk has looked.    *)
SwitchInv ==
  /\ switch = {} => dest = {}
  /\ switch \subseteq Bits(Byte * SwitchBytes)
  /\ switch # {} => value \in Bits(Byte * SwitchBytes)
  /\ cases \subseteq switch
  /\ value \in switch => value \in cases
  /\ \A c \in cases, k \in bytesChecked : ByteOf(c, k) = ByteOf(value, k)
  /\ SwitchKept

LEMMA SwitchStart == ASSUME NEW on \in BOOLEAN, SwitchInit(on) PROVE SwitchInv
<1>1. CASE on
  <2>1. /\ switch \in SwitchCases /\ value \in Bits(Byte * SwitchBytes)
        /\ cases = switch /\ bytesChecked = {} /\ dest = {}
    BY <1>1 DEF SwitchInit
  <2>2. switch # {} /\ switch \subseteq Bits(Byte * SwitchBytes)
    BY <2>1, LafAssumption
  <2> QED
    BY <2>1, <2>2 DEF SwitchInv, SwitchKept
<1>2. CASE ~on
  BY <1>2 DEF SwitchInit, SwitchInv, SwitchKept
<1> QED
  BY <1>1, <1>2

LEMMA OneByteValue ==
  ASSUME SwitchInv, NEW k, Cardinality(ByteSet(k)) = 1
  PROVE  cases # {} /\ \A c, d \in cases : ByteOf(c, k) = ByteOf(d, k)
<1>1. IsFiniteSet(Bits(Byte * SwitchBytes))
  <2>1. Byte * SwitchBytes \in Nat
    BY LafAssumption
  <2>2. pow2[Byte * SwitchBytes] - 1 \in Int
    BY <2>1, PowerOfTwo
  <2> QED
    BY <2>2, FS_Interval DEF Bits
<1>2. IsFiniteSet(cases)
  BY <1>1, FS_Subset DEF SwitchInv
<1>3. IsFiniteSet(ByteSet(k))
  <2> DEFINE byte == [c \in cases |-> ByteOf(c, k)]
  <2>1. byte \in Surjection(cases, ByteSet(k))
    BY DEF Surjection, ByteSet
  <2> QED
    BY <1>2, <2>1, FS_Surjection
<1>4. PICK b : ByteSet(k) = {b}
  BY <1>3, FS_Singleton
<1>5. \A c \in cases : ByteOf(c, k) = b
  BY <1>4 DEF ByteSet
<1>6. cases # {}
  BY <1>4 DEF ByteSet
<1> QED
  BY <1>5, <1>6

LEMMA SwitchStep == ASSUME SwitchInv, SwitchNext PROVE SwitchInv'
<1>1. switch # {} /\ dest = {}
  BY DEF SwitchNext, ByteMatches, ByteDiffers, Descend, Walking
<1>2. /\ switch \subseteq Bits(Byte * SwitchBytes) /\ value \in Bits(Byte * SwitchBytes)
      /\ cases \subseteq switch /\ (value \in switch => value \in cases)
      /\ \A c \in cases, k \in bytesChecked : ByteOf(c, k) = ByteOf(value, k)
  BY <1>1 DEF SwitchInv
<1>3. CASE ByteMatches
  <2> DEFINE k == smallestIndex
  <2>1. /\ Cardinality(ByteSet(k)) = 1 /\ ByteOf(value, k) \in ByteSet(k)
        /\ bytesChecked' = bytesChecked \cup {k}
        /\ dest' = IF bytesChecked' = Bytes THEN cases ELSE {}
        /\ UNCHANGED <<switch, value, cases>>
    BY <1>3 DEF ByteMatches, SingleValue
  <2> HIDE DEF k
  <2>2. cases # {} /\ \A c \in cases : ByteOf(c, k) = ByteOf(value, k)
    <3>1. PICK d \in cases : ByteOf(value, k) = ByteOf(d, k)
      BY <2>1 DEF ByteSet
    <3> QED
      BY <2>1, <3>1, OneByteValue
  <2>3. \A c \in cases, l \in bytesChecked' : ByteOf(c, l) = ByteOf(value, l)
    BY <1>2, <2>1, <2>2
  <2>4. dest' # {} => dest' = IF value \in switch THEN {value} ELSE {Default}
    <3> SUFFICES ASSUME bytesChecked' = Bytes, dest' = cases
                 PROVE  value \in switch /\ dest' = {value}
      BY <2>1
    <3>1. \A c \in cases : c = value
      <4> SUFFICES ASSUME NEW c \in cases PROVE c = value
        OBVIOUS
      <4>1. \A l \in Bytes : ByteOf(c, l) = ByteOf(value, l)
        BY <2>3
      <4>2. c \in Bits(Byte * SwitchBytes)
        BY <1>2
      <4> QED
        BY <1>2, <4>1, <4>2, BytesTell
    <3> QED
      BY <1>2, <2>2, <3>1
  <2> QED
    BY <1>1, <1>2, <2>1, <2>3, <2>4 DEF SwitchInv, SwitchKept, ByteOf
<1>4. CASE ByteDiffers
  <2>1. /\ ByteOf(value, smallestIndex) \notin ByteSet(smallestIndex) /\ dest' = {Default}
        /\ UNCHANGED <<switch, value, cases, bytesChecked>>
    BY <1>4 DEF ByteDiffers
  <2>2. value \notin cases
    BY <2>1 DEF ByteSet
  <2> QED
    BY <1>1, <1>2, <2>1, <2>2 DEF SwitchInv, SwitchKept, ByteOf
<1>5. CASE Descend
  <2>1. /\ cases' = {c \in cases : LeftOfPivot(ByteOf(c, smallestIndex))
                                     <=> ByteOf(value, smallestIndex) < pivot}
        /\ UNCHANGED <<switch, value, bytesChecked, dest>>
    BY <1>5 DEF Descend
  <2>2. value \in cases => value \in cases'
    BY <2>1 DEF LeftOfPivot
  <2>3. cases' \subseteq cases
    BY <2>1
  <2> QED
    BY <1>1, <1>2, <2>1, <2>2, <2>3 DEF SwitchInv, SwitchKept, ByteOf
<1> QED
  BY <1>3, <1>4, <1>5 DEF SwitchNext

-----------------------------------------------------------------------------
(* Strings.  The bytes before the one the loop is at are equal; the other  *)
(* string does not end among them, because none of them is the final zero. *)

StringInv ==
  IF call = None THEN cmp_phi = <<>>
  ELSE /\ call \in [is : {"call"}, literal : Seq(Bits(Byte) \ {0}), buffer : Seq(Bits(Byte)),
                    hasStr1 : BOOLEAN, isMemcmp : BOOLEAN, constLen : Nat \ {0}]
       /\ call.constLen <= Len(call.literal) + 1
       /\ IF call.isMemcmp THEN Len(call.buffer) >= call.constLen
          ELSE /\ call.constLen = Len(call.literal) + 1
               /\ \E k \in DOMAIN call.buffer : call.buffer[k] = 0
       /\ i \in 1 .. call.constLen
       /\ \A k \in 1 .. i - 1 : CharAt(call.literal, k) = CharAt(call.buffer, k)
       /\ \/ cmp_phi = <<>>
          \/ \E v \in Int :
               /\ cmp_phi = <<v>>
               /\ v = 0 <=> CharAt(call.literal, i) = CharAt(call.buffer, i)
               /\ v = 0 => i = call.constLen

LEMMA StringStart == ASSUME NEW on \in BOOLEAN, StringInit(on) PROVE StringInv
<1>1. CASE ~on
  BY <1>1 DEF StringInit, StringInv
<1>2. CASE on
  <2>1. i = 1 /\ cmp_phi = <<>>
    BY DEF StringInit
  <2>2. PICK literal \in Literals, buffer \in Buffers, hasStr1 \in BOOLEAN, isMemcmp \in BOOLEAN :
          \E len \in IF isMemcmp THEN 1 .. GetStringLength(literal)
                     ELSE {GetStringLength(literal)} :
            /\ IF isMemcmp THEN Len(buffer) >= len ELSE \E k \in DOMAIN buffer : buffer[k] = 0
            /\ call = [is |-> "call", literal |-> literal, buffer |-> buffer,
                       hasStr1 |-> hasStr1, isMemcmp |-> isMemcmp, constLen |-> len]
    BY <1>2 DEF StringInit
  <2>3. PICK len \in IF isMemcmp THEN 1 .. GetStringLength(literal)
                     ELSE {GetStringLength(literal)} :
          /\ IF isMemcmp THEN Len(buffer) >= len ELSE \E k \in DOMAIN buffer : buffer[k] = 0
          /\ call = [is |-> "call", literal |-> literal, buffer |-> buffer,
                     hasStr1 |-> hasStr1, isMemcmp |-> isMemcmp, constLen |-> len]
    BY <2>2
  <2>4. literal \in Seq(Bits(Byte) \ {0}) /\ buffer \in Seq(Bits(Byte)) /\ Len(literal) \in Nat
    BY LafAssumption
  <2>5. len \in Nat \ {0} /\ len <= Len(literal) + 1 /\ (~isMemcmp => len = Len(literal) + 1)
    BY <2>3, <2>4 DEF GetStringLength
  <2>6. /\ call \in [is : {"call"}, literal : Seq(Bits(Byte) \ {0}), buffer : Seq(Bits(Byte)),
                     hasStr1 : BOOLEAN, isMemcmp : BOOLEAN, constLen : Nat \ {0}]
        /\ call.literal = literal /\ call.buffer = buffer /\ call.isMemcmp = isMemcmp
        /\ call.constLen = len /\ call.is = "call"
    BY <2>3, <2>4, <2>5
  <2>7. call # None
    BY <2>6 DEF None
  <2>8. i \in 1 .. call.constLen /\ 1 .. i - 1 = {}
    BY <2>1, <2>5, <2>6
  <2> QED
    BY <2>1, <2>3, <2>5, <2>6, <2>7, <2>8 DEF StringInv
<1> QED
  BY <1>1, <1>2

LEMMA CharsAre ==
  ASSUME NEW S, NEW s \in Seq(S), NEW k \in Nat \ {0}
  PROVE  k <= Len(s) => k \in DOMAIN s /\ CharAt(s, k) = s[k] /\ s[k] \in S
BY DEF CharAt

LEMMA StringStep == ASSUME StringInv, CompareByte PROVE StringInv'
<1>1. call # None /\ cmp_phi = <<>> /\ call' = call
  BY DEF CompareByte
<1> DEFINE s == call.literal
           b == call.buffer
           n == call.constLen
           P == pow2[Byte]
<1>2. /\ call \in [is : {"call"}, literal : Seq(Bits(Byte) \ {0}), buffer : Seq(Bits(Byte)),
                   hasStr1 : BOOLEAN, isMemcmp : BOOLEAN, constLen : Nat \ {0}]
      /\ n <= Len(s) + 1
      /\ IF call.isMemcmp THEN Len(b) >= n
         ELSE n = Len(s) + 1 /\ \E k \in DOMAIN b : b[k] = 0
      /\ i \in 1 .. n /\ \A k \in 1 .. i - 1 : CharAt(s, k) = CharAt(b, k)
  BY <1>1 DEF StringInv
<1>3. s \in Seq(Bits(Byte) \ {0}) /\ b \in Seq(Bits(Byte)) /\ n \in Nat \ {0}
      /\ Len(s) \in Nat /\ Len(b) \in Nat /\ call.hasStr1 \in BOOLEAN /\ call.isMemcmp \in BOOLEAN
  BY <1>2
<1>4. i <= Len(b)
  <2>1. CASE call.isMemcmp
    BY <1>2, <1>3, <2>1
  <2>2. CASE ~call.isMemcmp
    <3> SUFFICES ASSUME i > Len(b) PROVE FALSE
      BY <1>2, <1>3
    <3>1. PICK k \in DOMAIN b : b[k] = 0
      BY <1>2, <2>2
    <3>2. k \in 1 .. i - 1 /\ k <= Len(s) /\ k <= Len(b) /\ k \in Nat \ {0}
      BY <1>2, <1>3
    <3>3. CharAt(s, k) = CharAt(b, k)
      BY <1>2, <3>2
    <3>4. CharAt(s, k) = s[k] /\ s[k] \in Bits(Byte) \ {0}
      BY <1>3, <3>2, CharsAre
    <3>5. CharAt(b, k) = b[k]
      BY <1>3, <3>2, CharsAre
    <3> QED
      BY <3>1, <3>3, <3>4, <3>5
  <2> QED
    BY <1>3, <2>1, <2>2
<1> DEFINE c == CharAt(s, i)
           load == b[i]
<1>5. /\ i \in Nat \ {0} /\ load = CharAt(b, i) /\ load \in Bits(Byte) /\ c \in Bits(Byte)
      /\ P \in Nat \ {0} /\ load \in Nat /\ load < P /\ c \in Nat /\ c < P
  <2>1. i \in Nat \ {0} /\ Byte \in Nat \ {0}
    BY <1>2, <1>3, LafAssumption
  <2>2. load = CharAt(b, i) /\ load \in Bits(Byte)
    BY <1>3, <1>4, <2>1, CharsAre
  <2>3. P \in Nat \ {0} /\ \A x : x \in Bits(Byte) <=> x \in Nat /\ x < P
    BY <2>1, BitsAre
  <2>4. c \in Bits(Byte)
    <3>1. CASE i <= Len(s)
      BY <1>3, <2>1, <3>1, CharsAre
    <3>2. CASE ~(i <= Len(s))
      BY <2>3, <3>2 DEF CharAt
    <3> QED
      BY <3>1, <3>2
  <2> QED
    BY <2>1, <2>2, <2>3, <2>4
<1>6. isub = (IF call.hasStr1 THEN c - load ELSE load - c) % P
  BY DEF isub
<1> HIDE DEF c, load, P
<1>7. isub \in Nat /\ isub < P /\ (isub = 0 <=> c = load)
  <2>1. \A x, y \in Nat : x < P /\ y < P => /\ (x - y) % P \in Nat /\ (x - y) % P < P
                                           /\ ((x - y) % P = 0) <=> (x = y)
    <3> SUFFICES ASSUME NEW x \in Nat, NEW y \in Nat, x < P, y < P
                 PROVE  /\ (x - y) % P \in Nat /\ (x - y) % P < P
                        /\ ((x - y) % P = 0) <=> (x = y)
      OBVIOUS
    <3>1. (x - y) % P \in Nat /\ (x - y) % P < P
      BY <1>5
    <3>2. CASE x = y
      BY <1>5, <3>2
    <3>3. CASE x > y
      BY <1>5, <3>3
    <3>4. CASE x < y
      <4>1. (x - y) % P = x - y + P
        BY <1>5, <3>4
      <4> QED
        BY <1>5, <3>4, <4>1
    <3> QED
      BY <3>1, <3>2, <3>3, <3>4
  <2>2. CASE call.hasStr1
    BY <1>5, <1>6, <2>1, <2>2
  <2>3. CASE ~call.hasStr1
    BY <1>5, <1>6, <2>1, <2>3
  <2> QED
    BY <2>2, <2>3
<1>8. CASE isub = 0 /\ i < n
  <2>1. i' = i + 1 /\ cmp_phi' = <<>>
    BY <1>1, <1>8 DEF CompareByte
  <2>2. i' \in 1 .. n
    BY <1>2, <1>3, <1>8, <2>1
  <2>3. \A k \in 1 .. i' - 1 : CharAt(s, k) = CharAt(b, k)
    <3>1. c = load
      BY <1>7, <1>8
    <3>2. CharAt(s, i) = CharAt(b, i)
      BY <1>5, <3>1 DEF c
    <3>3. \A k \in 1 .. i' - 1 : k = i \/ k \in 1 .. i - 1
      BY <1>2, <1>3, <2>1
    <3> QED
      BY <1>2, <3>2, <3>3
  <2> QED
    BY <1>1, <1>2, <2>1, <2>2, <2>3 DEF StringInv, CharAt
<1>9. CASE ~(isub = 0 /\ i < n)
  <2> DEFINE v == Signed(isub, Byte)
  <2>1. cmp_phi' = <<v>> /\ i' = i
    BY <1>9 DEF CompareByte
  <2>2. v \in Int /\ (v = 0 <=> isub = 0)
    <3>1. Byte - 1 \in Nat /\ (Byte - 1) + 1 = Byte
      BY LafAssumption
    <3>2. pow2[Byte - 1] \in Nat \ {0} /\ P = 2 * pow2[Byte - 1]
      BY <3>1, PowerOfTwo DEF P
    <3> QED
      BY <1>5, <1>7, <3>2 DEF Signed, P
  <2> HIDE DEF v
  <2>3. v = 0 => i = n
    BY <1>2, <1>3, <1>9, <2>2
  <2>4. v = 0 <=> CharAt(s, i) = CharAt(b, i)
    BY <1>5, <1>7, <2>2 DEF c
  <2>5. \E w \in Int : /\ cmp_phi' = <<w>> /\ (w = 0 <=> CharAt(s, i) = CharAt(b, i))
                       /\ w = 0 => i = n
    BY <2>1, <2>2, <2>3, <2>4
  <2> QED
    BY <1>1, <1>2, <2>1, <2>5 DEF StringInv, CharAt
<1> QED
  BY <1>8, <1>9

LEMMA StringIsKept == ASSUME StringInv PROVE StringKept
<1> SUFFICES ASSUME cmp_phi # <<>> PROVE StringKept
  BY DEF StringKept
<1>1. call # None
  BY DEF StringInv
<1> DEFINE s == call.literal
           b == call.buffer
           n == call.constLen
<1>2. /\ n \in Nat \ {0} /\ i \in 1 .. n /\ (~call.isMemcmp => n = Len(s) + 1)
      /\ \A k \in 1 .. i - 1 : CharAt(s, k) = CharAt(b, k)
  BY <1>1 DEF StringInv
<1>3. PICK v \in Int : /\ cmp_phi = <<v>> /\ (v = 0 <=> CharAt(s, i) = CharAt(b, i))
                       /\ v = 0 => i = n
  BY <1>1 DEF StringInv
<1>4. cmp_phi = <<0>> <=> v = 0
  BY <1>3
<1>5. Prefix(b, n) = Prefix(s, n) <=> \A k \in 1 .. n : CharAt(b, k) = CharAt(s, k)
  BY DEF Prefix
<1>6. v = 0 <=> \A k \in 1 .. n : CharAt(b, k) = CharAt(s, k)
  <2>1. ASSUME v = 0, NEW k \in 1 .. n PROVE CharAt(b, k) = CharAt(s, k)
    <3>1. k = i \/ k \in 1 .. i - 1
      BY <1>2, <1>3, <2>1
    <3> QED
      BY <1>2, <1>3, <2>1, <3>1
  <2>2. ASSUME \A k \in 1 .. n : CharAt(b, k) = CharAt(s, k) PROVE v = 0
    BY <1>2, <1>3, <2>2
  <2> QED
    BY <2>1, <2>2
<1>7. (IF call.isMemcmp THEN n ELSE Len(s) + 1) = n
  BY <1>2
<1>8. cmp_phi = <<0>> <=> Prefix(b, n) = Prefix(s, n)
  BY <1>4, <1>5, <1>6
<1> QED
  BY <1>7, <1>8 DEF StringKept

-----------------------------------------------------------------------------
LafInv == CompareInv /\ SwitchInv /\ StringInv

(* What the passes emit computes what the source did, for bytes and words  *)
(* of every width, every set of cases, and every string.                   *)
THEOREM MeaningIsKept == LafSpec => []LafKeepsMeaning
<1>1. ASSUME NEW kind \in {"compare", "switch", "string"}, LafInit(kind) PROVE LafInv
  <2>1. CompareInit(kind = "compare") /\ SwitchInit(kind = "switch") /\ StringInit(kind = "string")
    BY <1>1 DEF LafInit
  <2>2. (kind = "compare") \in BOOLEAN /\ (kind = "switch") \in BOOLEAN /\ (kind = "string") \in BOOLEAN
    OBVIOUS
  <2> QED
    BY <2>1, <2>2, CompareStart, SwitchStart, StringStart DEF LafInv
<1>2. ASSUME LafInv, [LafNext]_lafVars PROVE LafInv'
  <2>1. ASSUME UNCHANGED compareVars PROVE CompareInv'
    <3>1. UNCHANGED <<asked, node, pending>>
      BY <2>1 DEF compareVars
    <3> QED
      BY <1>2, <3>1 DEF LafInv, CompareInv
  <2>2. ASSUME UNCHANGED switchVars PROVE SwitchInv'
    <3>1. UNCHANGED <<switch, value, cases, bytesChecked, dest>>
      BY <2>2 DEF switchVars
    <3> QED
      BY <1>2, <3>1 DEF LafInv, SwitchInv, SwitchKept, ByteOf
  <2>3. ASSUME UNCHANGED stringVars PROVE StringInv'
    <3>1. UNCHANGED <<call, i, cmp_phi>>
      BY <2>3 DEF stringVars
    <3> QED
      BY <1>2, <3>1 DEF LafInv, StringInv
  <2>4. CASE CompareNext /\ UNCHANGED <<switchVars, stringVars>>
    BY <1>2, <2>2, <2>3, <2>4, CompareStep DEF LafInv
  <2>5. CASE SwitchNext /\ UNCHANGED <<compareVars, stringVars>>
    BY <1>2, <2>1, <2>3, <2>5, SwitchStep DEF LafInv
  <2>6. CASE CompareByte /\ UNCHANGED <<compareVars, switchVars>>
    BY <1>2, <2>1, <2>2, <2>6, StringStep DEF LafInv
  <2>7. CASE UNCHANGED lafVars
    BY <2>1, <2>2, <2>3, <2>7 DEF LafInv, lafVars
  <2> QED
    BY <1>2, <2>4, <2>5, <2>6, <2>7 DEF LafNext
<1>3. ASSUME LafInv PROVE LafKeepsMeaning
  BY <1>3, CompareIsKept, StringIsKept DEF LafInv, SwitchInv, LafKeepsMeaning
<1>4. (\E kind \in {"compare", "switch", "string"} : LafInit(kind)) => LafInv
  BY <1>1
<1> QED
  BY <1>2, <1>3, <1>4, PTL DEF LafSpec
-----------------------------------------------------------------------------
(* Conditions.  Every instruction uses earlier ones only, so what it       *)
(* yields, and of which operators it consists, are well defined.           *)

WellFormed(c) == Len(c) \in Nat /\ \A k \in 1 .. Len(c) : c[k] \in InstructionsAt(k)

LEMMA InstructionParts ==
  ASSUME NEW k \in Nat, NEW e \in InstructionsAt(k)
  PROVE  /\ e.op \in {"cmp", "etc", "not", "and", "or", "xor"}
         /\ e.op \in {"cmp", "etc"} => e.id \in Leaves
         /\ e.op = "not" => e.e \in 1 .. k - 1
         /\ e.op \in {"and", "or", "xor"} => e.l \in 1 .. k - 1 /\ e.r \in 1 .. k - 1
<1>1. CASE \E id \in Leaves : e = cmp(id)
  BY <1>1 DEF cmp
<1>2. CASE \E id \in Leaves : e = etc(id)
  BY <1>2 DEF etc
<1>3. CASE \E o \in 1 .. k - 1 : e = not(o)
  BY <1>3 DEF not
<1>4. CASE \E op \in {"and", "or", "xor"}, l \in 1 .. k - 1, r \in 1 .. k - 1 : e = bin(op, l, r)
  BY <1>4 DEF bin
<1> QED
  BY <1>1, <1>2, <1>3, <1>4 DEF InstructionsAt

Yielded(n, c, m, t) ==
  /\ m \in [1 .. n -> BOOLEAN]
  /\ \A k \in 1 .. n : m[k] = Yields(c[k], m, t)
Formed(n, c, a) ==
  /\ a \in [1 .. n -> SUBSET {"and", "or"}]
  /\ \A k \in 1 .. n : a[k] = FormsOf(c[k], a)

LEMMA YieldsEarlier ==
  ASSUME NEW c, NEW t \in [Leaves -> BOOLEAN], NEW k \in Nat, c[k] \in InstructionsAt(k),
         NEW m, NEW m1, \A j \in 1 .. k - 1 : m1[j] = m[j] /\ m[j] \in BOOLEAN
  PROVE  Yields(c[k], m1, t) = Yields(c[k], m, t) /\ Yields(c[k], m, t) \in BOOLEAN
<1> DEFINE e == c[k]
<1>1. /\ e.op \in {"cmp", "etc", "not", "and", "or", "xor"}
      /\ e.op \in {"cmp", "etc"} => e.id \in Leaves
      /\ e.op = "not" => e.e \in 1 .. k - 1
      /\ e.op \in {"and", "or", "xor"} => e.l \in 1 .. k - 1 /\ e.r \in 1 .. k - 1
  BY InstructionParts
<1> HIDE DEF e
<1>2. Yields(e, m1, t) = Yields(e, m, t)
  BY <1>1 DEF Yields
<1>3. Yields(e, m, t) \in BOOLEAN
  BY <1>1 DEF Yields
<1> QED
  BY <1>2, <1>3 DEF e

LEMMA FormsEarlier ==
  ASSUME NEW c, NEW k \in Nat, c[k] \in InstructionsAt(k),
         NEW a, NEW a1, \A j \in 1 .. k - 1 : a1[j] = a[j] /\ a[j] \subseteq {"and", "or"}
  PROVE  FormsOf(c[k], a1) = FormsOf(c[k], a) /\ FormsOf(c[k], a) \subseteq {"and", "or"}
<1> DEFINE e == c[k]
<1>1. /\ e.op \in {"cmp", "etc", "not", "and", "or", "xor"}
      /\ e.op = "not" => e.e \in 1 .. k - 1
      /\ e.op \in {"and", "or", "xor"} => e.l \in 1 .. k - 1 /\ e.r \in 1 .. k - 1
  BY InstructionParts
<1> HIDE DEF e
<1>2. FormsOf(e, a1) = FormsOf(e, a)
  BY <1>1 DEF FormsOf
<1>3. FormsOf(e, a) \subseteq {"and", "or"}
  BY <1>1 DEF FormsOf, Dual
<1> QED
  BY <1>2, <1>3 DEF e

LEMMA YieldedExists ==
  ASSUME NEW c, WellFormed(c), NEW t \in [Leaves -> BOOLEAN]
  PROVE  \E m : Yielded(Len(c), c, m, t)
<1> DEFINE T == {n \in 0 .. Len(c) : ~\E m : Yielded(n, c, m, t)}
<1>0. Len(c) \in Nat /\ \A k \in 1 .. Len(c) : c[k] \in InstructionsAt(k)
  BY DEF WellFormed
<1> SUFFICES ASSUME T # {} PROVE FALSE
  BY <1>0
<1>1. PICK n \in T : \A l \in T : n <= l
  <2>1. T \in SUBSET Nat
    BY <1>0
  <2> QED
    BY <2>1, LeastNumber
<1>2. n # 0
  <2>1. Yielded(0, c, [k \in 1 .. 0 |-> TRUE], t)
    BY DEF Yielded
  <2> QED
    BY <1>1, <2>1
<1>3. n \in 1 .. Len(c) /\ n \in Nat /\ n - 1 \in 0 .. Len(c) /\ n - 1 \notin T
  BY <1>0, <1>1, <1>2
<1>4. PICK m : Yielded(n - 1, c, m, t)
  BY <1>3
<1> DEFINE h == [k \in 1 .. n |-> IF k = n THEN Yields(c[n], m, t) ELSE m[k]]
<1>5. m \in [1 .. n - 1 -> BOOLEAN] /\ \A k \in 1 .. n - 1 : m[k] = Yields(c[k], m, t)
  BY <1>4 DEF Yielded
<1>6. \A k \in 1 .. n : k = n \/ k \in 1 .. n - 1
  BY <1>3
<1>7. Yields(c[n], m, t) \in BOOLEAN
  BY <1>0, <1>3, <1>5, YieldsEarlier
<1>8. \A k \in 1 .. n - 1 : k # n /\ k \in 1 .. n /\ h[k] = m[k]
  BY <1>3
<1>9. h \in [1 .. n -> BOOLEAN]
  BY <1>5, <1>6, <1>7
<1>10. h[n] = Yields(c[n], m, t)
  BY <1>3
<1> HIDE DEF h
<1>11. ASSUME NEW k \in 1 .. n PROVE h[k] = Yields(c[k], h, t)
  <2>1. k \in Nat /\ c[k] \in InstructionsAt(k)
    BY <1>0, <1>3
  <2>2. \A j \in 1 .. k - 1 : j \in 1 .. n - 1
    BY <1>3
  <2>3. \A j \in 1 .. k - 1 : h[j] = m[j] /\ m[j] \in BOOLEAN
    BY <1>5, <1>8, <2>2
  <2>4. Yields(c[k], h, t) = Yields(c[k], m, t)
    BY <2>1, <2>3, YieldsEarlier
  <2>5. h[k] = Yields(c[k], m, t)
    BY <1>5, <1>6, <1>8, <1>10
  <2> QED
    BY <2>4, <2>5
<1>12. Yielded(n, c, h, t)
  BY <1>9, <1>11 DEF Yielded
<1> QED
  BY <1>1, <1>12

LEMMA FormedExists ==
  ASSUME NEW c, WellFormed(c)
  PROVE  \E a : Formed(Len(c), c, a)
<1> DEFINE T == {n \in 0 .. Len(c) : ~\E a : Formed(n, c, a)}
<1>0. Len(c) \in Nat /\ \A k \in 1 .. Len(c) : c[k] \in InstructionsAt(k)
  BY DEF WellFormed
<1> SUFFICES ASSUME T # {} PROVE FALSE
  BY <1>0
<1>1. PICK n \in T : \A l \in T : n <= l
  <2>1. T \in SUBSET Nat
    BY <1>0
  <2> QED
    BY <2>1, LeastNumber
<1>2. n # 0
  <2>1. Formed(0, c, [k \in 1 .. 0 |-> {}])
    BY DEF Formed
  <2> QED
    BY <1>1, <2>1
<1>3. n \in 1 .. Len(c) /\ n \in Nat /\ n - 1 \in 0 .. Len(c) /\ n - 1 \notin T
  BY <1>0, <1>1, <1>2
<1>4. PICK a : Formed(n - 1, c, a)
  BY <1>3
<1> DEFINE h == [k \in 1 .. n |-> IF k = n THEN FormsOf(c[n], a) ELSE a[k]]
<1>5. a \in [1 .. n - 1 -> SUBSET {"and", "or"}] /\ \A k \in 1 .. n - 1 : a[k] = FormsOf(c[k], a)
  BY <1>4 DEF Formed
<1>6. \A k \in 1 .. n : k = n \/ k \in 1 .. n - 1
  BY <1>3
<1>7. FormsOf(c[n], a) \subseteq {"and", "or"}
  BY <1>0, <1>3, <1>5, FormsEarlier
<1>8. \A k \in 1 .. n - 1 : k # n /\ k \in 1 .. n /\ h[k] = a[k]
  BY <1>3
<1>9. h \in [1 .. n -> SUBSET {"and", "or"}]
  BY <1>5, <1>6, <1>7
<1>10. h[n] = FormsOf(c[n], a)
  BY <1>3
<1> HIDE DEF h
<1>11. ASSUME NEW k \in 1 .. n PROVE h[k] = FormsOf(c[k], h)
  <2>1. k \in Nat /\ c[k] \in InstructionsAt(k)
    BY <1>0, <1>3
  <2>2. \A j \in 1 .. k - 1 : j \in 1 .. n - 1
    BY <1>3
  <2>3. \A j \in 1 .. k - 1 : h[j] = a[j] /\ a[j] \subseteq {"and", "or"}
    BY <1>5, <1>8, <2>2
  <2>4. FormsOf(c[k], h) = FormsOf(c[k], a)
    BY <2>1, <2>3, FormsEarlier
  <2>5. h[k] = FormsOf(c[k], a)
    BY <1>5, <1>6, <1>8, <1>10
  <2> QED
    BY <2>4, <2>5
<1>12. Formed(n, c, h)
  BY <1>9, <1>11 DEF Formed
<1> QED
  BY <1>1, <1>12

(* So the recursive definitions of Conditions have the values they say.    *)
LEMMA MeaningIs ==
  ASSUME WellFormed(condition), truth \in [Leaves -> BOOLEAN]
  PROVE  Yielded(Len(condition), condition, meaning, truth)
<1> DEFINE n == Len(condition)
           Is(f) == f = [k \in 1 .. n |-> Yields(condition[k], f, truth)]
<1>0. n \in Nat /\ \A k \in 1 .. n : k \in Nat /\ condition[k] \in InstructionsAt(k)
  BY DEF WellFormed
<1>1. PICK m : Yielded(n, condition, m, truth)
  BY YieldedExists
<1>2. meaning = CHOOSE f : Is(f)
  BY DEF meaning
<1>3. Is(m)
  BY <1>1 DEF Yielded
<1>4. Is(meaning)
  <2> HIDE DEF Is
  <2> QED
    BY <1>2, <1>3
<1> DEFINE T == {k \in 1 .. n : meaning[k] \notin BOOLEAN}
<1>5. T = {}
  <2> SUFFICES ASSUME T # {} PROVE FALSE
    OBVIOUS
  <2>1. PICK k \in T : \A l \in T : k <= l
    <3>1. T \in SUBSET Nat
      BY <1>0
    <3> QED
      BY <3>1, LeastNumber
  <2>2. \A j \in 1 .. k - 1 : j \in 1 .. n /\ j \notin T
    BY <1>0, <2>1
  <2>3. \A j \in 1 .. k - 1 : meaning[j] \in BOOLEAN
    BY <2>2
  <2>4. Yields(condition[k], meaning, truth) \in BOOLEAN
    BY <1>0, <2>3, YieldsEarlier
  <2> QED
    BY <1>4, <2>1, <2>4
<1> HIDE DEF Is
<1>6. meaning \in [1 .. n -> BOOLEAN]
  BY <1>4, <1>5 DEF Is
<1>7. \A k \in 1 .. n : meaning[k] = Yields(condition[k], meaning, truth)
  BY <1>4 DEF Is
<1> QED
  BY <1>6, <1>7 DEF Yielded

LEMMA AllOfIs ==
  ASSUME WellFormed(condition)
  PROVE  Formed(Len(condition), condition, allOf)
<1> DEFINE n == Len(condition)
           Is(f) == f = [k \in 1 .. n |-> FormsOf(condition[k], f)]
<1>0. n \in Nat /\ \A k \in 1 .. n : k \in Nat /\ condition[k] \in InstructionsAt(k)
  BY DEF WellFormed
<1>1. PICK a : Formed(n, condition, a)
  BY FormedExists
<1>2. allOf = CHOOSE f : Is(f)
  BY DEF allOf
<1>3. Is(a)
  BY <1>1 DEF Formed
<1>4. Is(allOf)
  <2> HIDE DEF Is
  <2> QED
    BY <1>2, <1>3
<1> DEFINE T == {k \in 1 .. n : ~(allOf[k] \subseteq {"and", "or"})}
<1>5. T = {}
  <2> SUFFICES ASSUME T # {} PROVE FALSE
    OBVIOUS
  <2>1. PICK k \in T : \A l \in T : k <= l
    <3>1. T \in SUBSET Nat
      BY <1>0
    <3> QED
      BY <3>1, LeastNumber
  <2>2. \A j \in 1 .. k - 1 : j \in 1 .. n /\ j \notin T
    BY <1>0, <2>1
  <2>3. \A j \in 1 .. k - 1 : allOf[j] \subseteq {"and", "or"}
    BY <2>2
  <2>4. FormsOf(condition[k], allOf) \subseteq {"and", "or"}
    BY <1>0, <2>3, FormsEarlier
  <2> QED
    BY <1>4, <2>1, <2>4
<1> HIDE DEF Is
<1>6. allOf \in [1 .. n -> SUBSET {"and", "or"}]
  BY <1>4, <1>5 DEF Is
<1>7. \A k \in 1 .. n : allOf[k] = FormsOf(condition[k], allOf)
  BY <1>4 DEF Is
<1> QED
  BY <1>6, <1>7 DEF Formed

-----------------------------------------------------------------------------
(* Readings of a list: where the expression at each place ends, and a      *)
(* value for it.  An operator may take the value of either operand; which  *)
(* of them the distances decide.                                           *)

ListEntries == [what : {"cmp", "etc"}, id : Leaves, no : BOOLEAN]
                 \cup [what : {"and", "or"}, id : {-1}, no : BOOLEAN]

EntryRead(x, p, t, end, val) ==
  /\ x.what \in {"cmp", "etc"} => end[p] = p + 1 /\ (val[p] <=> ~(t[x.id] <=> x.no))
  /\ x.what \in {"and", "or"} =>
       /\ end[p] = end[end[p + 1]]
       /\ (val[p] <=> val[p + 1]) \/ (val[p] <=> val[end[p + 1]])

Reading(c, r) ==
  /\ r.list \in Seq(ListEntries)
  /\ r.truth \in [Leaves -> BOOLEAN] /\ r.end \in [Nat -> Nat] /\ r.val \in [Nat -> BOOLEAN]
  /\ \A p \in 1 .. Len(r.list) : EntryRead(r.list[p], p, r.truth, r.end, r.val)
  /\ Yielded(Len(c), c, r.means, r.truth)
  /\ Formed(Len(c), c, r.forms)

(* The value at place p is what can be told of instruction k, negated or   *)
(* not: a conjunction that is true has the value true, a disjunction with  *)
(* the value true is true.                                                 *)
Tells(r, k, neg, p) ==
  /\ "and" \in r.forms[k] /\ ~neg => (r.means[k] => r.val[p])
  /\ "or" \in r.forms[k] /\ ~neg => (r.val[p] => r.means[k])
  /\ "or" \in r.forms[k] /\ neg => (~r.means[k] => r.val[p])
  /\ "and" \in r.forms[k] /\ neg => (r.val[p] => ~r.means[k])

LEMMA LeafTells ==
  ASSUME NEW c, WellFormed(c), NEW r, Reading(c, r), NEW k \in 1 .. Len(c), NEW neg \in BOOLEAN,
         NEW p \in 1 .. Len(r.list), c[k].op \in {"cmp", "etc"},
         r.list[p] = Entry(c[k].op, c[k].id, neg)
  PROVE  r.end[p] = p + 1 /\ Tells(r, k, neg, p)
<1>1. EntryRead(r.list[p], p, r.truth, r.end, r.val)
  BY DEF Reading
<1>2. r.end[p] = p + 1 /\ (r.val[p] <=> ~(r.truth[c[k].id] <=> neg))
  BY <1>1 DEF EntryRead, Entry
<1>3. r.means[k] = r.truth[c[k].id]
  BY DEF Reading, Yielded, Yields
<1> QED
  BY <1>2, <1>3 DEF Tells

LEMMA NotTells ==
  ASSUME NEW c, WellFormed(c), NEW r, Reading(c, r), NEW k \in 1 .. Len(c), NEW neg \in BOOLEAN,
         NEW p \in Nat, c[k].op = "not", Tells(r, c[k].e, ~neg, p)
  PROVE  Tells(r, k, neg, p)
<1> DEFINE e == c[k].e
<1>1. k \in Nat /\ c[k] \in InstructionsAt(k)
  BY DEF WellFormed
<1>2. e \in 1 .. Len(c)
  <2>1. e \in 1 .. k - 1
    BY <1>1, InstructionParts
  <2> QED
    BY <2>1 DEF WellFormed
<1>3. r.means[k] = ~r.means[e] /\ r.means[e] \in BOOLEAN
  BY <1>2 DEF Reading, Yielded, Yields
<1>4. r.forms[k] = {Dual[op] : op \in r.forms[e]} /\ r.forms[e] \subseteq {"and", "or"}
  BY <1>2 DEF Reading, Formed, FormsOf
<1>5. ("and" \in r.forms[k] <=> "or" \in r.forms[e]) /\ ("or" \in r.forms[k] <=> "and" \in r.forms[e])
  BY <1>4 DEF Dual
<1> HIDE DEF e
<1>6. Tells(r, e, ~neg, p)
  BY DEF e
<1>7. r.means[k] <=> ~r.means[e]
  BY <1>3
<1> QED
  BY <1>5, <1>6, <1>7 DEF Tells

LEMMA AndOrTells ==
  ASSUME NEW c, WellFormed(c), NEW r, Reading(c, r), NEW k \in 1 .. Len(c), NEW neg \in BOOLEAN,
         NEW p \in 1 .. Len(r.list), c[k].op \in {"and", "or"},
         r.list[p] = Entry(c[k].op, -1, neg),
         Tells(r, c[k].l, neg, p + 1), Tells(r, c[k].r, neg, r.end[p + 1])
  PROVE  r.end[p] = r.end[r.end[p + 1]] /\ Tells(r, k, neg, p)
<1> DEFINE x == c[k].l
           y == c[k].r
           q == r.end[p + 1]
<1>1. EntryRead(r.list[p], p, r.truth, r.end, r.val)
  BY DEF Reading
<1>2. r.end[p] = r.end[r.end[p + 1]] /\ ((r.val[p] <=> r.val[p + 1]) \/ (r.val[p] <=> r.val[q]))
  BY <1>1 DEF EntryRead, Entry
<1>3. k \in Nat /\ c[k] \in InstructionsAt(k)
  BY DEF WellFormed
<1>4. x \in 1 .. Len(c) /\ y \in 1 .. Len(c)
  <2>1. x \in 1 .. k - 1 /\ y \in 1 .. k - 1
    BY <1>3, InstructionParts
  <2> QED
    BY <2>1 DEF WellFormed
<1>5. r.means[k] = IF c[k].op = "and" THEN r.means[x] /\ r.means[y] ELSE r.means[x] \/ r.means[y]
  BY DEF Reading, Yielded, Yields
<1>6. r.forms[k] = {c[k].op} \cap r.forms[x] \cap r.forms[y]
  BY DEF Reading, Formed, FormsOf
<1>7. Tells(r, x, neg, p + 1) /\ Tells(r, y, neg, q)
  OBVIOUS
<1> HIDE DEF x, y, q
<1>8. CASE c[k].op = "and"
  <2>1. r.means[k] <=> r.means[x] /\ r.means[y]
    BY <1>5, <1>8
  <2>2. /\ "or" \notin r.forms[k]
        /\ "and" \in r.forms[k] => "and" \in r.forms[x] /\ "and" \in r.forms[y]
    BY <1>6, <1>8
  <2>3. Tells(r, k, neg, p)
    BY <1>2, <1>7, <2>1, <2>2 DEF Tells
  <2> QED
    BY <1>2, <2>3
<1>9. CASE c[k].op = "or"
  <2>1. r.means[k] <=> r.means[x] \/ r.means[y]
    BY <1>5, <1>9
  <2>2. /\ "and" \notin r.forms[k]
        /\ "or" \in r.forms[k] => "or" \in r.forms[x] /\ "or" \in r.forms[y]
    BY <1>6, <1>9
  <2>3. Tells(r, k, neg, p)
    BY <1>2, <1>7, <2>1, <2>2 DEF Tells
  <2> QED
    BY <1>2, <2>3
<1> QED
  BY <1>8, <1>9

(* Of an exclusive or nothing is told but where it ends.                   *)
LEMMA XorTells ==
  ASSUME NEW c, NEW r, Reading(c, r), NEW k \in 1 .. Len(c), NEW neg \in BOOLEAN, NEW p \in Nat,
         c[k].op = "xor"
  PROVE  Tells(r, k, neg, p)
<1>1. r.forms[k] = {}
  BY DEF Reading, Formed, FormsOf
<1> QED
  BY <1>1 DEF Tells

LEMMA OperatorEnds ==
  ASSUME NEW c, NEW r, Reading(c, r), NEW p \in 1 .. Len(r.list), r.list[p].what \in {"and", "or"}
  PROVE  r.end[p] = r.end[r.end[p + 1]]
BY DEF Reading, EntryRead

-----------------------------------------------------------------------------
(* What is left to visit, placed in a list: item j from q[j] to q[j + 1].  *)

WorkItems(n) == [node : 1 .. n, emit : {"none"}, no : BOOLEAN]
                  \cup [node : {0}, emit : {"and"}, no : BOOLEAN]

ItemAt(r, x, from, to) ==
  IF x.emit = "none" THEN r.end[from] = to /\ Tells(r, x.node, x.no, from)
  ELSE from \in 1 .. Len(r.list) /\ r.list[from].what = x.emit /\ to = from + 1

Placed(r, items, q) ==
  /\ q \in [Nat -> Nat]
  /\ \A j \in 1 .. Len(items) : ItemAt(r, items[j], q[j], q[j + 1])

Extends(list, front) ==
  Len(list) >= Len(front) /\ \A p \in 1 .. Len(front) : list[p] = front[p]

(* However the list goes on, when what is left to visit is right, so is    *)
(* the whole condition.                                                    *)
ReadInv ==
  \A r, q :
    Reading(condition, r) /\ Extends(r.list, cmpvec) /\ Placed(r, work, q) /\ q[1] = Len(cmpvec) + 1
      => Tells(r, Len(condition), FALSE, 1)

(* A place for the first item, when the first n of others stand for it.    *)
LEMMA PlaceFirst ==
  ASSUME NEW r, NEW items, Len(items) \in Nat \ {0}, NEW others, NEW n \in Nat,
         Len(others) = Len(items) - 1 + n,
         \A j \in 2 .. Len(items) : others[j + n - 1] = items[j],
         NEW q1, Placed(r, others, q1), NEW from \in Nat, ItemAt(r, items[1], from, q1[n + 1])
  PROVE  \E q : Placed(r, items, q) /\ q[1] = from
<1> DEFINE q == [j \in Nat |-> IF j = 1 THEN from ELSE q1[IF j = 0 THEN 0 ELSE j + n - 1]]
<1>1. q1 \in [Nat -> Nat] /\ \A j \in 1 .. Len(others) : ItemAt(r, others[j], q1[j], q1[j + 1])
  BY DEF Placed
<1>2. q \in [Nat -> Nat] /\ q[1] = from
  <2>1. \A j \in Nat : (IF j = 0 THEN 0 ELSE j + n - 1) \in Nat
    OBVIOUS
  <2> QED
    BY <1>1, <2>1
<1>3. \A j \in Nat : j >= 2 => q[j] = q1[j + n - 1]
  OBVIOUS
<1> HIDE DEF q
<1>4. ASSUME NEW j \in 1 .. Len(items) PROVE ItemAt(r, items[j], q[j], q[j + 1])
  <2>1. CASE j = 1
    <3>1. q[j + 1] = q1[n + 1]
      BY <1>3, <2>1
    <3> QED
      BY <1>2, <2>1, <3>1
  <2>2. CASE j # 1
    <3>1. j \in 2 .. Len(items) /\ j + 1 >= 2 /\ j \in Nat /\ j + 1 \in Nat
      BY <2>2
    <3>2. j + n - 1 \in 1 .. Len(others) /\ (j + n - 1) + 1 = (j + 1) + n - 1
      BY <3>1
    <3>3. q[j] = q1[j + n - 1] /\ q[j + 1] = q1[(j + n - 1) + 1]
      <4>1. j >= 2
        BY <3>1
      <4>2. q[j] = q1[j + n - 1]
        BY <1>3, <3>1, <4>1
      <4>3. q[j + 1] = q1[(j + 1) + n - 1]
        BY <1>3, <3>1
      <4> QED
        BY <3>2, <4>2, <4>3
    <3>4. ItemAt(r, others[j + n - 1], q1[j + n - 1], q1[(j + n - 1) + 1])
      BY <1>1, <3>2
    <3> QED
      BY <3>1, <3>3, <3>4
  <2> QED
    BY <2>1, <2>2
<1> QED
  BY <1>2, <1>4 DEF Placed

-----------------------------------------------------------------------------
(* The state of the pass and of the run.                                   *)

Doubles == [kind : {"num", "flag"}, neg : BOOLEAN, mag : Nat]

(* A comparison that was visited left a distance that says what it was,    *)
(* unless it is unreliable.                                                *)
LeafStored(id) ==
  cmp_info[id] # <<>> =>
    /\ cmp_info[id][1] \in Doubles
    /\ id \notin unreliable => (cmp_info[id][1].neg <=> truth[id])

IsLeaf(x) == x.what \in {"cmp", "etc"}

CondTyped ==
  /\ condition \in Instructions /\ heavy \in BOOLEAN
  /\ work \in Seq(WorkItems(Len(condition)))
  /\ cmpvec \in Seq(ListEntries)
  /\ DOMAIN cmp_info = Leaves /\ truth \in [Leaves -> BOOLEAN]
  /\ \A id \in Leaves : LeafStored(id)
  /\ at \in 0 .. Len(cmpvec) /\ stack \in Seq(Doubles)
  /\ Started => /\ work = <<>>
                /\ \A k \in 1 .. Len(cmpvec) : IsLeaf(cmpvec[k]) => cmp_info[cmpvec[k].id] # <<>>

LEMMA ConditionIsWellFormed ==
  ASSUME CondTyped
  PROVE  WellFormed(condition) /\ Len(condition) \in Nat \ {0}
BY ConditionsAssumption DEF CondTyped, WellFormed

LEMMA EntryFields ==
  ASSUME NEW x \in ListEntries
  PROVE  /\ x.what \in {"cmp", "etc", "and", "or"} /\ x.no \in BOOLEAN
         /\ x.what \in {"cmp", "etc"} => x.id \in Leaves
BY DEF ListEntries

LEMMA WorkTop ==
  ASSUME CondTyped, work # <<>>
  PROVE  /\ Len(work) \in Nat \ {0} /\ no \in BOOLEAN
         /\ Head(work) = work[1] /\ Tail(work) \in Seq(WorkItems(Len(condition)))
         /\ Len(Tail(work)) = Len(work) - 1
         /\ \A j \in 1 .. Len(work) - 1 : Tail(work)[j] = work[j + 1]
         /\ ~Started
         /\ Visiting => /\ Head(work).node \in 1 .. Len(condition)
                        /\ top \in InstructionsAt(Head(work).node)
         /\ ~Visiting => Head(work).emit = "and"
<1>1. work \in Seq(WorkItems(Len(condition)))
  BY DEF CondTyped
<1>2. /\ Len(work) \in Nat \ {0} /\ Head(work) = work[1] /\ Head(work) \in WorkItems(Len(condition))
      /\ Tail(work) \in Seq(WorkItems(Len(condition))) /\ Len(Tail(work)) = Len(work) - 1
  BY <1>1
<1>3. \A j \in 1 .. Len(work) - 1 : Tail(work)[j] = work[j + 1]
  BY <1>1
<1>4. ~Started
  BY DEF CondTyped
<1>5. no \in BOOLEAN
  BY <1>2 DEF WorkItems, no
<1>6. ASSUME Visiting
      PROVE  Head(work).node \in 1 .. Len(condition) /\ top \in InstructionsAt(Head(work).node)
  <2>1. Head(work).node \in 1 .. Len(condition)
    BY <1>2, <1>6 DEF Visiting, WorkItems
  <2> QED
    BY <2>1, ConditionIsWellFormed DEF WellFormed, top
<1>7. ~Visiting => Head(work).emit = "and"
  BY <1>2 DEF Visiting, WorkItems
<1> QED
  BY <1>2, <1>3, <1>4, <1>5, <1>6, <1>7

(* A step of the pass writes at most one entry and leaves the rest alone.  *)
LEMMA WritingTyped ==
  ASSUME CondTyped, work # <<>>,
         work' \in Seq(WorkItems(Len(condition))),
         cmpvec' \in Seq(ListEntries),
         UNCHANGED <<condition, heavy, cmp_info, truth, unreliable, at, stack>>
  PROVE  CondTyped'
<1>1. ~Started /\ at = 0
  BY WorkTop DEF Started
<1>2. ~Started'
  BY <1>1 DEF Started
<1>3. \A id \in Leaves : LeafStored(id)'
  BY DEF CondTyped, LeafStored
<1>4. at' \in 0 .. Len(cmpvec')
  BY <1>1
<1> QED
  BY <1>2, <1>3, <1>4 DEF CondTyped

LEMMA Appended ==
  ASSUME NEW S, NEW s \in Seq(S), NEW x \in S
  PROVE  /\ Append(s, x) \in Seq(S) /\ Len(Append(s, x)) = Len(s) + 1
         /\ \A j \in 1 .. Len(s) : Append(s, x)[j] = s[j]
         /\ Append(s, x)[Len(s) + 1] = x
OBVIOUS

LEMMA Joins ==
  ASSUME NEW S, NEW s \in Seq(S), NEW u \in Seq(S), NEW w, w = s \o u
  PROVE  /\ w \in Seq(S) /\ Len(w) = Len(s) + Len(u)
         /\ \A j \in 1 .. Len(s) : w[j] = s[j]
         /\ \A j \in 1 .. Len(u) : w[Len(s) + j] = u[j]
OBVIOUS

LEMMA EntryIn ==
  /\ \A what \in {"cmp", "etc"}, id \in Leaves, neg \in BOOLEAN : Entry(what, id, neg) \in ListEntries
  /\ \A what \in {"and", "or"}, neg \in BOOLEAN : Entry(what, -1, neg) \in ListEntries
BY DEF Entry, ListEntries

LEMMA ItemIn ==
  ASSUME NEW n, NEW neg \in BOOLEAN
  PROVE  /\ \A k \in 1 .. n : Item(k, neg) \in WorkItems(n)
         /\ Operator("and", neg) \in WorkItems(n)
BY DEF Item, Operator, WorkItems

-----------------------------------------------------------------------------
(* The pass.                                                               *)

LEMMA FrontOf ==
  ASSUME CondTyped, work # <<>>, NEW F \in Seq(WorkItems(Len(condition)))
  PROVE  /\ F \o Tail(work) \in Seq(WorkItems(Len(condition)))
         /\ Len(F \o Tail(work)) = Len(work) - 1 + Len(F)
         /\ \A j \in 1 .. Len(F) : (F \o Tail(work))[j] = F[j]
         /\ \A j \in 2 .. Len(work) : (F \o Tail(work))[j + Len(F) - 1] = work[j]
<1> DEFINE S == WorkItems(Len(condition))
           u == Tail(work)
           W == F \o u
<1>1. /\ u \in Seq(S) /\ Len(u) = Len(work) - 1 /\ Len(work) \in Nat \ {0}
      /\ \A j \in 1 .. Len(work) - 1 : u[j] = work[j + 1]
  BY WorkTop
<1>0. F \in Seq(S)
  OBVIOUS
<1> HIDE DEF S, u
<1>2. /\ W \in Seq(S) /\ Len(W) = Len(F) + Len(u)
      /\ \A j \in 1 .. Len(F) : W[j] = F[j]
      /\ \A j \in 1 .. Len(u) : W[Len(F) + j] = u[j]
  <2>1. W = F \o u
    OBVIOUS
  <2> HIDE DEF W
  <2>2. u \in Seq(S)
    BY <1>1
  <2>3. W \in Seq(S)
    BY <1>0, <2>1, <2>2, Joins
  <2>4. Len(W) = Len(F) + Len(u)
    BY <1>0, <2>1, <2>2, Joins
  <2>5. \A j \in 1 .. Len(F) : W[j] = F[j]
    BY <1>0, <2>1, <2>2, Joins
  <2>6. \A j \in 1 .. Len(u) : W[Len(F) + j] = u[j]
    BY <1>0, <2>1, <2>2, Joins
  <2> QED
    BY <2>3, <2>4, <2>5, <2>6
<1> HIDE DEF W
<1>3. Len(F) \in Nat
  OBVIOUS
<1>4. Len(W) = Len(work) - 1 + Len(F)
  BY <1>1, <1>2, <1>3
<1>5. ASSUME NEW j \in 2 .. Len(work) PROVE W[j + Len(F) - 1] = work[j]
  <2>1. j - 1 \in 1 .. Len(u) /\ Len(F) + (j - 1) = j + Len(F) - 1 /\ (j - 1) + 1 = j
        /\ j - 1 \in 1 .. Len(work) - 1
    BY <1>1, <1>3
  <2>2. W[Len(F) + (j - 1)] = u[j - 1] /\ u[j - 1] = work[(j - 1) + 1]
    BY <1>1, <1>2, <2>1
  <2> QED
    BY <2>1, <2>2
<1> QED
  BY <1>2, <1>4, <1>5 DEF u, W, S

(* What is right after a step was right before it, when the item visited   *)
(* is where it belongs.                                                    *)
LEMMA StepBack ==
  ASSUME CondTyped, ReadInv, work # <<>>, NEW r, Reading(condition, r), Extends(r.list, cmpvec),
         NEW n \in Nat, Len(work') = Len(work) - 1 + n,
         \A j \in 2 .. Len(work) : work'[j + n - 1] = work[j],
         NEW q1, Placed(r, work', q1), ItemAt(r, Head(work), Len(cmpvec) + 1, q1[n + 1])
  PROVE  Tells(r, Len(condition), FALSE, 1)
<1>1. Len(work) \in Nat \ {0} /\ Head(work) = work[1]
  BY WorkTop
<1>2. Len(cmpvec) + 1 \in Nat
  BY DEF CondTyped
<1>3. PICK q : Placed(r, work, q) /\ q[1] = Len(cmpvec) + 1
  BY <1>1, <1>2, PlaceFirst
<1> QED
  BY <1>3 DEF ReadInv

LEMMA ExtendsEarlier ==
  ASSUME NEW x \in ListEntries, cmpvec \in Seq(ListEntries), NEW list \in Seq(ListEntries),
         Extends(list, Append(cmpvec, x))
  PROVE  /\ Extends(list, cmpvec) /\ Len(cmpvec) + 1 \in 1 .. Len(list)
         /\ list[Len(cmpvec) + 1] = x
<1>1. /\ Len(Append(cmpvec, x)) = Len(cmpvec) + 1
      /\ \A j \in 1 .. Len(cmpvec) : Append(cmpvec, x)[j] = cmpvec[j]
      /\ Append(cmpvec, x)[Len(cmpvec) + 1] = x
  BY Appended
<1>2. Len(list) \in Nat /\ Len(cmpvec) \in Nat
  OBVIOUS
<1> QED
  BY <1>1, <1>2 DEF Extends

(* The first items of work, placed.                                        *)
LEMMA PlacedAt ==
  ASSUME NEW r, NEW items, NEW q, Placed(r, items, q), NEW j \in 1 .. Len(items)
  PROVE  ItemAt(r, items[j], q[j], q[j + 1])
BY DEF Placed

LEMMA PlacedItem ==
  ASSUME NEW r, NEW k, NEW neg, NEW from, NEW to
  PROVE  ItemAt(r, Item(k, neg), from, to) <=> r.end[from] = to /\ Tells(r, k, neg, from)
<1>1. Item(k, neg).emit = "none" /\ Item(k, neg).node = k /\ Item(k, neg).no = neg
  BY DEF Item
<1> QED
  BY <1>1 DEF ItemAt

LEMMA PlacedOperator ==
  ASSUME NEW r, NEW op \in {"and", "or"}, NEW neg, NEW from, NEW to
  PROVE  ItemAt(r, Operator(op, neg), from, to)
           <=> from \in 1 .. Len(r.list) /\ r.list[from].what = op /\ to = from + 1
<1>1. Operator(op, neg).emit = op /\ op # "none"
  BY DEF Operator
<1> QED
  BY <1>1 DEF ItemAt

(* The item that is visited, an instruction.                               *)
LEMMA VisitedItem ==
  ASSUME CondTyped, Visiting
  PROVE  Head(work) = Item(Head(work).node, no)
<1>1. Head(work) \in WorkItems(Len(condition)) /\ Head(work).emit = "none"
  <2>1. work \in Seq(WorkItems(Len(condition))) /\ work # <<>>
    BY DEF CondTyped, Visiting
  <2> QED
    BY <2>1 DEF Visiting
<1> QED
  BY <1>1 DEF WorkItems, Item, no

LEMMA VisitLeafStep ==
  ASSUME CondTyped, ReadInv, VisitLeaf
  PROVE  CondTyped' /\ ReadInv'
<1> DEFINE k == Head(work).node
           x == Entry(top.op, top.id, no)
<1>1. Visiting /\ work # <<>> /\ top = condition[k] /\ top.op \in {"cmp", "etc"}
  BY DEF VisitLeaf, Visiting, top
<1>2. /\ Len(work) \in Nat \ {0} /\ no \in BOOLEAN /\ k \in 1 .. Len(condition)
      /\ top \in InstructionsAt(k)
      /\ Tail(work) \in Seq(WorkItems(Len(condition))) /\ Len(Tail(work)) = Len(work) - 1
      /\ \A j \in 1 .. Len(work) - 1 : Tail(work)[j] = work[j + 1]
  BY <1>1, WorkTop
<1>3. WellFormed(condition) /\ Len(condition) \in Nat
  BY ConditionIsWellFormed
<1>4. top.id \in Leaves
  BY <1>1, <1>2, <1>3, InstructionParts
<1>5. x \in ListEntries
  BY <1>1, <1>2, <1>4, EntryIn
<1>6. work' = Tail(work) /\ cmpvec' = Append(cmpvec, x)
      /\ UNCHANGED <<condition, heavy, cmp_info, truth, unreliable, at, stack>>
  BY DEF VisitLeaf
<1>7. Head(work) = Item(k, no)
  BY <1>1, VisitedItem
<1>8. cmpvec \in Seq(ListEntries)
  BY DEF CondTyped
<1> HIDE DEF x, k
<1>9. cmpvec' \in Seq(ListEntries) /\ Len(cmpvec') = Len(cmpvec) + 1
  BY <1>5, <1>6, <1>8, Appended
<1>10. CondTyped'
  BY <1>1, <1>2, <1>6, <1>9, WritingTyped
<1>11. ASSUME NEW r, NEW q1, Reading(condition, r), Extends(r.list, cmpvec'), Placed(r, work', q1),
              q1[1] = Len(cmpvec') + 1
       PROVE  Tells(r, Len(condition), FALSE, 1)
  <2>1. r.list \in Seq(ListEntries)
    BY <1>11 DEF Reading
  <2>2. /\ Extends(r.list, cmpvec) /\ Len(cmpvec) + 1 \in 1 .. Len(r.list)
        /\ r.list[Len(cmpvec) + 1] = x
    BY <1>5, <1>6, <1>8, <1>11, <2>1, ExtendsEarlier
  <2>3. r.end[Len(cmpvec) + 1] = (Len(cmpvec) + 1) + 1 /\ Tells(r, k, no, Len(cmpvec) + 1)
    BY <1>1, <1>2, <1>3, <1>11, <2>2, LeafTells DEF x
  <2>4. ItemAt(r, Head(work), Len(cmpvec) + 1, q1[0 + 1])
    BY <1>7, <1>9, <1>11, <2>3, PlacedItem
  <2>5. 0 \in Nat /\ Len(work') = Len(work) - 1 + 0
        /\ \A j \in 2 .. Len(work) : work'[j + 0 - 1] = work[j]
    <3>1. \A j \in 2 .. Len(work) : j - 1 \in 1 .. Len(work) - 1 /\ j + 0 - 1 = j - 1 /\ (j - 1) + 1 = j
      BY <1>2
    <3> QED
      BY <1>2, <1>6, <3>1
  <2> QED
    BY <1>1, <1>11, <2>2, <2>4, <2>5, StepBack
<1> QED
  BY <1>6, <1>10, <1>11 DEF ReadInv

LEMMA EmitOperatorStep ==
  ASSUME CondTyped, ReadInv, EmitOperator
  PROVE  CondTyped' /\ ReadInv'
<1> DEFINE x == Entry("and", -1, no)
<1>1. /\ work # <<>> /\ ~Visiting
      /\ Len(work) \in Nat \ {0} /\ no \in BOOLEAN /\ Head(work).emit = "and"
      /\ Tail(work) \in Seq(WorkItems(Len(condition))) /\ Len(Tail(work)) = Len(work) - 1
      /\ \A j \in 1 .. Len(work) - 1 : Tail(work)[j] = work[j + 1]
  BY WorkTop DEF EmitOperator
<1>2. /\ work' = Tail(work) /\ cmpvec' = Append(cmpvec, x)
      /\ UNCHANGED <<condition, heavy, cmp_info, truth, unreliable, at, stack>>
  BY <1>1 DEF EmitOperator, no
<1>3. x \in ListEntries /\ x.what = "and"
  BY <1>1, EntryIn DEF Entry
<1>4. cmpvec \in Seq(ListEntries)
  BY DEF CondTyped
<1> HIDE DEF x
<1>5. cmpvec' \in Seq(ListEntries) /\ Len(cmpvec') = Len(cmpvec) + 1
  BY <1>2, <1>3, <1>4, Appended
<1>6. CondTyped'
  BY <1>1, <1>2, <1>5, WritingTyped
<1>7. ASSUME NEW r, NEW q1, Reading(condition, r), Extends(r.list, cmpvec'), Placed(r, work', q1),
             q1[1] = Len(cmpvec') + 1
      PROVE  Tells(r, Len(condition), FALSE, 1)
  <2>1. r.list \in Seq(ListEntries)
    BY <1>7 DEF Reading
  <2>2. /\ Extends(r.list, cmpvec) /\ Len(cmpvec) + 1 \in 1 .. Len(r.list)
        /\ r.list[Len(cmpvec) + 1] = x
    BY <1>2, <1>3, <1>4, <1>7, <2>1, ExtendsEarlier
  <2>3. ItemAt(r, Head(work), Len(cmpvec) + 1, q1[0 + 1])
    BY <1>1, <1>3, <1>5, <1>7, <2>2 DEF ItemAt
  <2>4. 0 \in Nat /\ Len(work') = Len(work) - 1 + 0
        /\ \A j \in 2 .. Len(work) : work'[j + 0 - 1] = work[j]
    <3>1. \A j \in 2 .. Len(work) : j - 1 \in 1 .. Len(work) - 1 /\ j + 0 - 1 = j - 1 /\ (j - 1) + 1 = j
      BY <1>1
    <3> QED
      BY <1>1, <1>2, <3>1
  <2> QED
    BY <1>1, <1>7, <2>2, <2>3, <2>4, StepBack
<1> QED
  BY <1>2, <1>6, <1>7 DEF ReadInv

LEMMA VisitNotStep ==
  ASSUME CondTyped, ReadInv, VisitNot
  PROVE  CondTyped' /\ ReadInv'
<1> DEFINE k == Head(work).node
           F == <<Item(top.e, ~no)>>
<1>1. Visiting /\ work # <<>> /\ top = condition[k] /\ top.op = "not"
  BY DEF VisitNot, Visiting, top
<1>2. /\ Len(work) \in Nat \ {0} /\ no \in BOOLEAN /\ k \in 1 .. Len(condition)
      /\ top \in InstructionsAt(k)
  BY <1>1, WorkTop
<1>3. WellFormed(condition) /\ Len(condition) \in Nat
  BY ConditionIsWellFormed
<1>4. top.e \in 1 .. Len(condition)
  <2>1. k \in Nat /\ top.e \in 1 .. k - 1
    BY <1>1, <1>2, <1>3, InstructionParts
  <2> QED
    BY <1>2, <1>3, <2>1
<1>5. F \in Seq(WorkItems(Len(condition))) /\ Len(F) = 1 /\ F[1] = Item(top.e, ~no)
  <2>1. Item(top.e, ~no) \in WorkItems(Len(condition))
    BY <1>2, <1>4, ItemIn
  <2> QED
    BY <2>1
<1>6. /\ work' = F \o Tail(work) /\ cmpvec' = cmpvec
      /\ UNCHANGED <<condition, heavy, cmp_info, truth, unreliable, at, stack>>
  BY DEF VisitNot
<1>7. Head(work) = Item(k, no)
  BY <1>1, VisitedItem
<1> HIDE DEF F, k
<1>8. /\ work' \in Seq(WorkItems(Len(condition))) /\ Len(work') = Len(work) - 1 + 1
      /\ work'[1] = F[1]
      /\ \A j \in 2 .. Len(work) : work'[j + 1 - 1] = work[j]
  <2>1. /\ work' \in Seq(WorkItems(Len(condition))) /\ Len(work') = Len(work) - 1 + Len(F)
        /\ \A j \in 1 .. Len(F) : work'[j] = F[j]
        /\ \A j \in 2 .. Len(work) : work'[j + Len(F) - 1] = work[j]
    BY <1>1, <1>5, <1>6, FrontOf
  <2> QED
    BY <1>5, <2>1
<1>9. CondTyped'
  <2>1. cmpvec' \in Seq(ListEntries)
    BY <1>6 DEF CondTyped
  <2> QED
    BY <1>1, <1>6, <1>8, <2>1, WritingTyped
<1>10. ASSUME NEW r, NEW q1, Reading(condition, r), Extends(r.list, cmpvec'), Placed(r, work', q1),
              q1[1] = Len(cmpvec') + 1
       PROVE  Tells(r, Len(condition), FALSE, 1)
  <2>1. 1 \in 1 .. Len(work')
    BY <1>2, <1>8
  <2>2. ItemAt(r, Item(top.e, ~no), q1[1], q1[1 + 1])
    BY <1>5, <1>8, <1>10, <2>1, PlacedAt
  <2>3. r.end[Len(cmpvec) + 1] = q1[1 + 1] /\ Tells(r, top.e, ~no, Len(cmpvec) + 1)
    BY <1>6, <1>10, <2>2, PlacedItem
  <2>4. Len(cmpvec) + 1 \in Nat
    BY DEF CondTyped
  <2>5. Tells(r, k, no, Len(cmpvec) + 1)
    BY <1>1, <1>2, <1>3, <1>10, <2>3, <2>4, NotTells
  <2>6. ItemAt(r, Head(work), Len(cmpvec) + 1, q1[1 + 1])
    BY <1>7, <2>3, <2>5, PlacedItem
  <2> QED
    BY <1>1, <1>6, <1>8, <1>10, <2>6, StepBack
<1> QED
  BY <1>6, <1>9, <1>10 DEF ReadInv

LEMMA VisitAndOrStep ==
  ASSUME CondTyped, ReadInv, VisitAndOr
  PROVE  CondTyped' /\ ReadInv'
<1> DEFINE k == Head(work).node
           x == Entry(top.op, -1, no)
           F == <<Item(top.l, no), Item(top.r, no)>>
<1>1. Visiting /\ work # <<>> /\ top = condition[k] /\ top.op \in {"and", "or"}
  BY DEF VisitAndOr, Visiting, top
<1>2. /\ Len(work) \in Nat \ {0} /\ no \in BOOLEAN /\ k \in 1 .. Len(condition)
      /\ top \in InstructionsAt(k)
  BY <1>1, WorkTop
<1>3. WellFormed(condition) /\ Len(condition) \in Nat
  BY ConditionIsWellFormed
<1>4. top.l \in 1 .. Len(condition) /\ top.r \in 1 .. Len(condition)
  <2>1. k \in Nat /\ top.l \in 1 .. k - 1 /\ top.r \in 1 .. k - 1
    BY <1>1, <1>2, <1>3, InstructionParts
  <2> QED
    BY <1>2, <1>3, <2>1
<1>5. /\ F \in Seq(WorkItems(Len(condition))) /\ Len(F) = 2
      /\ F[1] = Item(top.l, no) /\ F[2] = Item(top.r, no)
  <2>1. /\ Item(top.l, no) \in WorkItems(Len(condition))
        /\ Item(top.r, no) \in WorkItems(Len(condition))
    BY <1>2, <1>4, ItemIn
  <2> QED
    BY <2>1
<1>6. /\ work' = F \o Tail(work) /\ cmpvec' = Append(cmpvec, x)
      /\ UNCHANGED <<condition, heavy, cmp_info, truth, unreliable, at, stack>>
  BY DEF VisitAndOr
<1>7. Head(work) = Item(k, no)
  BY <1>1, VisitedItem
<1>8. x \in ListEntries
  BY <1>1, <1>2, EntryIn
<1>9. cmpvec \in Seq(ListEntries)
  BY DEF CondTyped
<1> HIDE DEF F, k, x
<1>10. cmpvec' \in Seq(ListEntries) /\ Len(cmpvec') = Len(cmpvec) + 1
  BY <1>6, <1>8, <1>9, Appended
<1>11. /\ work' \in Seq(WorkItems(Len(condition))) /\ Len(work') = Len(work) - 1 + 2
       /\ work'[1] = F[1] /\ work'[2] = F[2]
       /\ \A j \in 2 .. Len(work) : work'[j + 2 - 1] = work[j]
  <2>1. /\ work' \in Seq(WorkItems(Len(condition))) /\ Len(work') = Len(work) - 1 + Len(F)
        /\ \A j \in 1 .. Len(F) : work'[j] = F[j]
        /\ \A j \in 2 .. Len(work) : work'[j + Len(F) - 1] = work[j]
    BY <1>1, <1>5, <1>6, FrontOf
  <2> QED
    BY <1>5, <2>1
<1>12. CondTyped'
  BY <1>1, <1>6, <1>10, <1>11, WritingTyped
<1>13. ASSUME NEW r, NEW q1, Reading(condition, r), Extends(r.list, cmpvec'), Placed(r, work', q1),
              q1[1] = Len(cmpvec') + 1
       PROVE  Tells(r, Len(condition), FALSE, 1)
  <2> DEFINE p == Len(cmpvec) + 1
  <2>1. r.list \in Seq(ListEntries)
    BY <1>13 DEF Reading
  <2>2. Extends(r.list, cmpvec) /\ p \in 1 .. Len(r.list) /\ r.list[p] = x
    BY <1>6, <1>8, <1>9, <1>13, <2>1, ExtendsEarlier
  <2>3. q1[1] = p + 1 /\ 1 \in 1 .. Len(work') /\ 2 \in 1 .. Len(work')
    BY <1>2, <1>10, <1>11, <1>13
  <2> HIDE DEF p
  <2>4. ItemAt(r, Item(top.l, no), q1[1], q1[1 + 1]) /\ ItemAt(r, Item(top.r, no), q1[2], q1[2 + 1])
    BY <1>5, <1>11, <1>13, <2>3, PlacedAt
  <2>5. /\ r.end[q1[1]] = q1[2] /\ Tells(r, top.l, no, q1[1])
        /\ r.end[q1[2]] = q1[3] /\ Tells(r, top.r, no, q1[2])
    BY <2>4, PlacedItem
  <2>6. r.end[p] = q1[3] /\ Tells(r, k, no, p)
    BY <1>1, <1>2, <1>3, <1>13, <2>2, <2>3, <2>5, AndOrTells DEF x
  <2>7. ItemAt(r, Head(work), Len(cmpvec) + 1, q1[2 + 1])
    BY <1>7, <2>6, PlacedItem DEF p
  <2> QED
    BY <1>1, <1>11, <1>13, <2>2, <2>7, StepBack
<1> QED
  BY <1>6, <1>12, <1>13 DEF ReadInv

LEMMA VisitXorStep ==
  ASSUME CondTyped, ReadInv, VisitXor
  PROVE  CondTyped' /\ ReadInv'
<1> DEFINE k == Head(work).node
           x == Entry("or", -1, no)
           F == <<Operator("and", no), Item(top.l, ~no), Item(top.r, no),
                  Operator("and", no), Item(top.l, no), Item(top.r, ~no)>>
<1>1. Visiting /\ work # <<>> /\ top = condition[k] /\ top.op = "xor"
  BY DEF VisitXor, Visiting, top
<1>2. /\ Len(work) \in Nat \ {0} /\ no \in BOOLEAN /\ k \in 1 .. Len(condition)
      /\ top \in InstructionsAt(k)
  BY <1>1, WorkTop
<1>3. WellFormed(condition) /\ Len(condition) \in Nat
  BY ConditionIsWellFormed
<1>4. top.l \in 1 .. Len(condition) /\ top.r \in 1 .. Len(condition)
  <2>1. k \in Nat /\ top.l \in 1 .. k - 1 /\ top.r \in 1 .. k - 1
    BY <1>1, <1>2, <1>3, InstructionParts
  <2> QED
    BY <1>2, <1>3, <2>1
<1>5. /\ F \in Seq(WorkItems(Len(condition))) /\ Len(F) = 6
      /\ F[1] = Operator("and", no) /\ F[2] = Item(top.l, ~no) /\ F[3] = Item(top.r, no)
      /\ F[4] = Operator("and", no) /\ F[5] = Item(top.l, no) /\ F[6] = Item(top.r, ~no)
  <2>1. /\ Operator("and", no) \in WorkItems(Len(condition))
        /\ Item(top.l, ~no) \in WorkItems(Len(condition))
        /\ Item(top.r, no) \in WorkItems(Len(condition))
        /\ Item(top.l, no) \in WorkItems(Len(condition))
        /\ Item(top.r, ~no) \in WorkItems(Len(condition))
    BY <1>2, <1>4, ItemIn
  <2> QED
    BY <2>1
<1>6. /\ work' = F \o Tail(work) /\ cmpvec' = Append(cmpvec, x)
      /\ UNCHANGED <<condition, heavy, cmp_info, truth, unreliable, at, stack>>
  BY DEF VisitXor
<1>7. Head(work) = Item(k, no)
  BY <1>1, VisitedItem
<1>8. x \in ListEntries /\ x.what = "or"
  BY <1>1, <1>2, EntryIn DEF Entry
<1>9. cmpvec \in Seq(ListEntries)
  BY DEF CondTyped
<1> HIDE DEF F, k, x
<1>10. cmpvec' \in Seq(ListEntries) /\ Len(cmpvec') = Len(cmpvec) + 1
  BY <1>6, <1>8, <1>9, Appended
<1>11. /\ work' \in Seq(WorkItems(Len(condition))) /\ Len(work') = Len(work) - 1 + 6
       /\ \A j \in 1 .. 6 : work'[j] = F[j]
       /\ \A j \in 2 .. Len(work) : work'[j + 6 - 1] = work[j]
  <2>1. /\ work' \in Seq(WorkItems(Len(condition))) /\ Len(work') = Len(work) - 1 + Len(F)
        /\ \A j \in 1 .. Len(F) : work'[j] = F[j]
        /\ \A j \in 2 .. Len(work) : work'[j + Len(F) - 1] = work[j]
    BY <1>1, <1>5, <1>6, FrontOf
  <2> QED
    BY <1>5, <2>1
<1>12. CondTyped'
  BY <1>1, <1>6, <1>10, <1>11, WritingTyped
<1>13. ASSUME NEW r, NEW q1, Reading(condition, r), Extends(r.list, cmpvec'), Placed(r, work', q1),
              q1[1] = Len(cmpvec') + 1
       PROVE  Tells(r, Len(condition), FALSE, 1)
  <2> DEFINE p == Len(cmpvec) + 1
  <2>1. r.list \in Seq(ListEntries)
    BY <1>13 DEF Reading
  <2>2. Extends(r.list, cmpvec) /\ p \in 1 .. Len(r.list) /\ r.list[p] = x
    BY <1>6, <1>8, <1>9, <1>13, <2>1, ExtendsEarlier
  <2>3. q1[1] = p + 1 /\ \A j \in 1 .. 6 : j \in 1 .. Len(work') /\ work'[j] = F[j]
    BY <1>2, <1>10, <1>11, <1>13
  <2> HIDE DEF p
  <2>4. \A j \in 1 .. 6 : ItemAt(r, F[j], q1[j], q1[j + 1])
    BY <1>13, <2>3, PlacedAt
  <2>5. /\ ItemAt(r, Operator("and", no), q1[1], q1[2]) /\ ItemAt(r, Item(top.l, ~no), q1[2], q1[3])
        /\ ItemAt(r, Item(top.r, no), q1[3], q1[4])
    BY <1>5, <2>4
  <2>6. /\ ItemAt(r, Operator("and", no), q1[4], q1[5]) /\ ItemAt(r, Item(top.l, no), q1[5], q1[6])
        /\ ItemAt(r, Item(top.r, ~no), q1[6], q1[7])
    BY <1>5, <2>4
  <2>7. r.end[q1[2]] = q1[3] /\ r.end[q1[3]] = q1[4] /\ r.end[q1[5]] = q1[6] /\ r.end[q1[6]] = q1[7]
    BY <2>5, <2>6, PlacedItem
  <2>8. q1[1] \in 1 .. Len(r.list) /\ r.list[q1[1]].what = "and" /\ q1[2] = q1[1] + 1
    BY <2>5, PlacedOperator
  <2>9. q1[4] \in 1 .. Len(r.list) /\ r.list[q1[4]].what = "and" /\ q1[5] = q1[4] + 1
    BY <2>6, PlacedOperator
  <2>10. r.end[q1[1]] = r.end[r.end[q1[1] + 1]] /\ r.end[q1[4]] = r.end[r.end[q1[4] + 1]]
    <3>1. r.end[q1[1]] = r.end[r.end[q1[1] + 1]]
      BY <1>13, <2>8, OperatorEnds
    <3>2. r.end[q1[4]] = r.end[r.end[q1[4] + 1]]
      BY <1>13, <2>9, OperatorEnds
    <3> QED
      BY <3>1, <3>2
  <2>11. r.end[p] = q1[7]
    <3>1. r.end[q1[1]] = q1[4] /\ r.end[q1[4]] = q1[7]
      BY <2>7, <2>8, <2>9, <2>10
    <3>2. r.end[p] = r.end[r.end[p + 1]]
      BY <1>8, <1>13, <2>2, OperatorEnds
    <3> QED
      BY <2>3, <3>1, <3>2
  <2>12. p \in Nat
    BY <1>9 DEF p
  <2>13. Tells(r, k, no, p)
    BY <1>1, <1>2, <1>13, <2>12, XorTells
  <2>14. ItemAt(r, Head(work), Len(cmpvec) + 1, q1[6 + 1])
    BY <1>7, <2>11, <2>13, PlacedItem DEF p
  <2> QED
    BY <1>1, <1>11, <1>13, <2>2, <2>14, StepBack
<1> QED
  BY <1>6, <1>12, <1>13 DEF ReadInv

-----------------------------------------------------------------------------
(* The run: what a comparison leaves says what it was.                     *)

LEMMA DoubleIs ==
  ASSUME NEW n \in Int
  PROVE  Double(n) \in Doubles /\ (Double(n).neg <=> n < 0) /\ (Double(n).mag = 0 <=> n = 0)
<1>1. CASE n < 0
  <2>1. (n < 0) = TRUE /\ (IF n < 0 THEN -n ELSE n) = -n /\ -n \in Nat /\ -n # 0
    BY <1>1
  <2>2. Double(n) = Num(TRUE, -n)
    BY <2>1 DEF Double
  <2> QED
    BY <1>1, <2>1, <2>2 DEF Num, Doubles
<1>2. CASE ~(n < 0)
  <2>1. (n < 0) = FALSE /\ (IF n < 0 THEN -n ELSE n) = n /\ n \in Nat
    BY <1>2
  <2>2. Double(n) = Num(FALSE, n)
    BY <2>1 DEF Double
  <2> QED
    BY <1>2, <2>1, <2>2 DEF Num, Doubles
<1> QED
  BY <1>1, <1>2

LEMMA NegatedIs ==
  ASSUME NEW x \in Doubles
  PROVE  Negated(x) \in Doubles /\ (Negated(x).neg <=> ~x.neg)
BY DEF Negated, Doubles

LEMMA AtEqualityIs ==
  ASSUME NEW x \in Doubles
  PROVE  AtEquality(x) \in Doubles /\ (AtEquality(x).neg <=> x.neg \/ x.mag = 0)
BY DEF AtEquality, MinusZero, Num, Doubles

(* The distance of two numbers and that of their order, with what the sign *)
(* of each says.                                                           *)
LEMMA AbsIs ==
  ASSUME NEW x \in Int
  PROVE  Abs(x) \in Nat /\ (Abs(x) = 0 <=> x = 0)
BY DEF Abs

LEMMA ApartSign ==
  ASSUME NEW x \in Nat, NEW same \in BOOLEAN, x = 0 <=> same
  PROVE  /\ AtEquality(Double(x)) \in Doubles /\ (AtEquality(Double(x)).neg <=> same)
         /\ Negated(AtEquality(Double(x))) \in Doubles
         /\ (Negated(AtEquality(Double(x))).neg <=> ~same)
<1>1. x \in Int /\ ~(x < 0)
  OBVIOUS
<1>2. Double(x) \in Doubles /\ ~Double(x).neg /\ (Double(x).mag = 0 <=> same)
  BY <1>1, DoubleIs
<1>3. AtEquality(Double(x)) \in Doubles /\ (AtEquality(Double(x)).neg <=> same)
  BY <1>2, AtEqualityIs
<1> QED
  BY <1>3, NegatedIs

LEMMA OrderSign ==
  ASSUME NEW a \in Int, NEW b \in Int
  PROVE  /\ Double(b - a) \in Doubles /\ (Double(b - a).neg <=> a > b)
         /\ Negated(Double(b - a)) \in Doubles /\ (Negated(Double(b - a)).neg <=> a <= b)
         /\ AtEquality(Double(b - a)) \in Doubles /\ (AtEquality(Double(b - a)).neg <=> a >= b)
         /\ Negated(AtEquality(Double(b - a))) \in Doubles
         /\ (Negated(AtEquality(Double(b - a))).neg <=> a < b)
<1>1. b - a \in Int /\ (b - a < 0 <=> a > b) /\ (b - a = 0 <=> a = b)
  OBVIOUS
<1>2. /\ Double(b - a) \in Doubles /\ (Double(b - a).neg <=> a > b)
      /\ (Double(b - a).mag = 0 <=> a = b)
  BY <1>1, DoubleIs
<1>3. /\ AtEquality(Double(b - a)) \in Doubles
      /\ (AtEquality(Double(b - a)).neg <=> a > b \/ a = b)
  BY <1>2, AtEqualityIs
<1>4. /\ Negated(Double(b - a)) \in Doubles /\ (Negated(Double(b - a)).neg <=> ~(a > b))
      /\ Negated(AtEquality(Double(b - a))) \in Doubles
      /\ (Negated(AtEquality(Double(b - a))).neg <=> ~(a > b \/ a = b))
  BY <1>2, <1>3, NegatedIs
<1>5. (a >= b <=> a > b \/ a = b) /\ (a <= b <=> ~(a > b)) /\ (a < b <=> ~(a > b \/ a = b))
  OBVIOUS
<1> QED
  BY <1>2, <1>3, <1>4, <1>5

LEMMA FloatStored ==
  ASSUME NEW pred \in FloatPredicates, NEW a \in Int, NEW b \in Int
  PROVE  /\ visit_cmp_float(pred, a, b) \in Doubles /\ Fulfilled(pred, a, b) \in BOOLEAN
         /\ pred \notin {"NE", "LE", "LT"} =>
              (visit_cmp_float(pred, a, b).neg <=> Fulfilled(pred, a, b))
<1>1. b - a \in Int /\ (b - a = 0 <=> a = b)
  OBVIOUS
<1>2. Abs(b - a) \in Nat /\ (Abs(b - a) = 0 <=> a = b)
  BY <1>1, AbsIs
<1>3. AtEquality(Double(Abs(b - a))) \in Doubles /\ (AtEquality(Double(Abs(b - a))).neg <=> a = b)
  BY <1>2, ApartSign
<1>4. Fulfilled(pred, a, b) \in BOOLEAN
  BY DEF Fulfilled
<1>5. CASE pred \in {"EQ", "NE"}
  BY <1>3, <1>4, <1>5 DEF visit_cmp_float, Fulfilled
<1>6. CASE pred \in {"GT", "LE"}
  BY <1>4, <1>6, OrderSign DEF visit_cmp_float, Fulfilled
<1>7. CASE pred \in {"GE", "LT"}
  BY <1>4, <1>7, OrderSign DEF visit_cmp_float, Fulfilled
<1> QED
  BY <1>5, <1>6, <1>7 DEF FloatPredicates

(* What opsize leaves of an operand: all of it when it fits, and enough to *)
(* tell either way of reading two operands whether they are equal.         *)
OfType(x, n) == n \in Nat \ {0} /\ (n <= OpSize \/ n % OpSize = 0) /\ x \in 0 .. n - 1

LEMMA Cut ==
  ASSUME NEW n, NEW x, OfType(x, n)
  PROVE  /\ x % OpSize \in 0 .. OpSize - 1
         /\ x < OpSize => x % OpSize = x
         /\ n > OpSize /\ x - n < 0 /\ n - x < OpSize => x % OpSize = OpSize - (n - x)
<1>1. OpSize \in Nat \ {0} /\ n \in Nat \ {0} /\ x \in Nat /\ x < n
  BY ConditionsAssumption DEF OfType
<1>2. x % OpSize \in 0 .. OpSize - 1
  BY <1>1
<1>3. ASSUME x < OpSize PROVE x % OpSize = x
  BY <1>1, <1>3
<1>4. ASSUME n > OpSize, n - x < OpSize PROVE x % OpSize = OpSize - (n - x)
  <2>1. n % OpSize = 0
    BY <1>1, <1>4 DEF OfType
  <2>2. OpSize - (n - x) \in 0 .. OpSize - 1
    BY <1>1, <1>4
  <2>3. PICK q \in Nat : n = OpSize * q
    <3>1. n = OpSize * (n \div OpSize) + (n % OpSize) /\ n \div OpSize \in Nat
      BY <1>1
    <3>2. OpSize * (n \div OpSize) + 0 = OpSize * (n \div OpSize)
      BY <1>1, <3>1
    <3> QED
      BY <2>1, <3>1, <3>2
  <2>5. q - 1 \in Nat
    <3>1. q = 0 => OpSize * q = 0
      BY <1>1
    <3> QED
      BY <1>1, <1>4, <2>3, <3>1
  <2>4. x = OpSize * (q - 1) + (OpSize - (n - x))
    <3>1. OpSize * (q - 1) = OpSize * q - OpSize
      BY <1>1
    <3> QED
      BY <1>1, <2>3, <3>1
  <2>6. PICK e \in Nat, t \in Nat : e = q - 1 /\ t = OpSize - (n - x) /\ t < OpSize
    BY <1>1, <2>2, <2>5
  <2>7. x = OpSize * e + t
    BY <2>4, <2>6
  <2> QED
    BY <1>1, <2>6, <2>7, ModuloIs
<1> QED
  BY <1>2, <1>3, <1>4

LEMMA Extended ==
  ASSUME NEW n, NEW x, OfType(x, n)
  PROVE  /\ sarg(x, n) \in Int /\ zarg(x, n) \in Int /\ AsSigned(x, n) \in Int
         /\ FitsSigned(x, n) => sarg(x, n) = AsSigned(x, n)
         /\ FitsUnsigned(x) => zarg(x, n) = x
<1>1. OpSize \in Nat \ {0} /\ n \in Nat \ {0} /\ x \in Nat /\ x < n
  BY ConditionsAssumption DEF OfType
<1>2. x % OpSize \in 0 .. OpSize - 1 /\ (x < OpSize => x % OpSize = x)
  BY Cut
<1>3. sarg(x, n) \in Int /\ zarg(x, n) \in Int /\ AsSigned(x, n) \in Int
  BY <1>1, <1>2 DEF sarg, zarg, AsSigned
<1>4. ASSUME FitsUnsigned(x) PROVE zarg(x, n) = x
  BY <1>2, <1>4 DEF FitsUnsigned, zarg
<1>5. ASSUME FitsSigned(x, n) PROVE sarg(x, n) = AsSigned(x, n)
  <2>1. CASE n <= OpSize
    BY <2>1 DEF sarg
  <2>2. CASE ~(n <= OpSize) /\ 2 * x < n
    <3>1. AsSigned(x, n) = x /\ 2 * x < OpSize
      BY <1>1, <1>5, <2>2 DEF FitsSigned, AsSigned
    <3>2. x % OpSize = x
      BY <1>1, <1>2, <3>1
    <3>3. AsSigned(x, OpSize) = x
      BY <3>1 DEF AsSigned
    <3> QED
      BY <2>2, <3>1, <3>2, <3>3 DEF sarg
  <2>3. CASE ~(n <= OpSize) /\ ~(2 * x < n)
    <3>1. AsSigned(x, n) = x - n /\ -OpSize <= 2 * (x - n)
      BY <1>1, <1>5, <2>3 DEF FitsSigned, AsSigned
    <3>2. n > OpSize /\ n - x < OpSize /\ x - n < 0
      BY <1>1, <2>3, <3>1
    <3>3. x % OpSize = OpSize - (n - x)
      BY <3>2, Cut
    <3>4. ~(2 * (x % OpSize) < OpSize)
      BY <1>1, <3>1, <3>3
    <3>5. AsSigned(x % OpSize, OpSize) = (x % OpSize) - OpSize
      BY <3>4 DEF AsSigned
    <3>6. (x % OpSize) - OpSize = x - n
      BY <1>1, <3>3
    <3> QED
      BY <2>3, <3>1, <3>5, <3>6 DEF sarg
  <2> QED
    BY <2>1, <2>2, <2>3
<1> QED
  BY <1>3, <1>4, <1>5

LEMMA SignedTells ==
  ASSUME NEW n \in Nat, NEW a \in 0 .. n - 1, NEW b \in 0 .. n - 1
  PROVE  AsSigned(a, n) = AsSigned(b, n) <=> a = b
BY DEF AsSigned

LEMMA EitherTells ==
  ASSUME NEW n, NEW a, NEW b, OfType(a, n), OfType(b, n)
  PROVE  sarg(a, n) = sarg(b, n) <=> zarg(a, n) = zarg(b, n)
<1>1. /\ OpSize \in Nat \ {0} /\ n \in Nat \ {0}
      /\ a \in Nat /\ a < n /\ b \in Nat /\ b < n
  BY ConditionsAssumption DEF OfType
<1>2. /\ a % OpSize \in 0 .. OpSize - 1 /\ (a < OpSize => a % OpSize = a)
      /\ b % OpSize \in 0 .. OpSize - 1 /\ (b < OpSize => b % OpSize = b)
  BY Cut
<1>3. CASE n <= OpSize
  <2>1. zarg(a, n) = a /\ zarg(b, n) = b
    BY <1>1, <1>2, <1>3 DEF zarg
  <2>2. sarg(a, n) = AsSigned(a, n) /\ sarg(b, n) = AsSigned(b, n)
    BY <1>3 DEF sarg
  <2>3. AsSigned(a, n) = AsSigned(b, n) <=> a = b
    BY <1>1, SignedTells
  <2> QED
    BY <2>1, <2>2, <2>3
<1>4. CASE ~(n <= OpSize)
  <2>1. AsSigned(a % OpSize, OpSize) = AsSigned(b % OpSize, OpSize) <=> a % OpSize = b % OpSize
    BY <1>1, <1>2, SignedTells
  <2> QED
    BY <1>4, <2>1 DEF sarg, zarg
<1> QED
  BY <1>3, <1>4

(* Operands that fit are as far apart as they were, or at least the nearer *)
(* of the two distances is zero when they are equal and only then.         *)
LEMMA ApartIs ==
  ASSUME NEW n, NEW a, NEW b, OfType(a, n), OfType(b, n),
         NEW s \in Int, NEW z \in Int, NEW d,
         s = sarg(b, n) - sarg(a, n), z = zarg(b, n) - zarg(a, n),
         d = IF Abs(s) < Abs(z) THEN Abs(s) ELSE Abs(z)
  PROVE  /\ d \in Nat
         /\ \/ FitsSigned(a, n) /\ FitsSigned(b, n)
            \/ FitsUnsigned(a) /\ FitsUnsigned(b)
            => (d = 0 <=> a = b)
<1>1. /\ sarg(a, n) \in Int /\ sarg(b, n) \in Int /\ zarg(a, n) \in Int /\ zarg(b, n) \in Int
      /\ sarg(a, n) = sarg(b, n) <=> zarg(a, n) = zarg(b, n)
  BY Extended, EitherTells
<1>2. (s = 0 <=> sarg(a, n) = sarg(b, n)) /\ (z = 0 <=> zarg(a, n) = zarg(b, n))
  BY <1>1
<1>3. /\ Abs(s) \in Nat /\ (Abs(s) = 0 <=> s = 0)
      /\ Abs(z) \in Nat /\ (Abs(z) = 0 <=> z = 0)
  BY AbsIs
<1>4. d \in Nat /\ (d = 0 <=> zarg(a, n) = zarg(b, n))
  BY <1>1, <1>2, <1>3
<1>5. ASSUME FitsSigned(a, n), FitsSigned(b, n) PROVE d = 0 <=> a = b
  <2>1. sarg(a, n) = AsSigned(a, n) /\ sarg(b, n) = AsSigned(b, n)
    BY <1>5, Extended
  <2>2. n \in Nat /\ a \in 0 .. n - 1 /\ b \in 0 .. n - 1
    BY DEF OfType
  <2> QED
    BY <1>1, <1>4, <2>1, <2>2, SignedTells
<1>6. ASSUME FitsUnsigned(a), FitsUnsigned(b) PROVE d = 0 <=> a = b
  BY <1>4, <1>6, Extended
<1> QED
  BY <1>4, <1>5, <1>6

LEMMA IntegerStored ==
  ASSUME NEW pred \in IntegerPredicates, NEW n, NEW a, NEW b, OfType(a, n), OfType(b, n)
  PROVE  /\ visit_cmp_integer(pred, n, a, b) \in Doubles
         /\ FulfilledBy(pred, n, a, b) \in BOOLEAN /\ Fits(pred, n, a, b) \in BOOLEAN
         /\ Fits(pred, n, a, b) =>
              (visit_cmp_integer(pred, n, a, b).neg <=> FulfilledBy(pred, n, a, b))
<1>1. /\ sarg(a, n) \in Int /\ sarg(b, n) \in Int /\ zarg(a, n) \in Int /\ zarg(b, n) \in Int
      /\ AsSigned(a, n) \in Int /\ AsSigned(b, n) \in Int /\ a \in Int /\ b \in Int
  BY Extended DEF OfType
<1>2. PICK s \in Int, z \in Int :
        s = sarg(b, n) - sarg(a, n) /\ z = zarg(b, n) - zarg(a, n)
  BY <1>1
<1>3. PICK d : d = IF Abs(s) < Abs(z) THEN Abs(s) ELSE Abs(z)
  OBVIOUS
<1>4. visit_cmp_integer(pred, n, a, b) =
        CASE pred = "EQ"  -> AtEquality(Double(d))
          [] pred = "NE"  -> Negated(AtEquality(Double(d)))
          [] pred = "UGT" -> Double(z)
          [] pred = "ULE" -> Negated(Double(z))
          [] pred = "UGE" -> AtEquality(Double(z))
          [] pred = "ULT" -> Negated(AtEquality(Double(z)))
          [] pred = "SGT" -> Double(s)
          [] pred = "SLE" -> Negated(Double(s))
          [] pred = "SGE" -> AtEquality(Double(s))
          [] pred = "SLT" -> Negated(AtEquality(Double(s)))
  BY <1>2, <1>3 DEF visit_cmp_integer
<1>5. IntegerPredicates = {"EQ", "NE", "UGT", "ULE", "UGE", "ULT", "SGT", "SLE", "SGE", "SLT"}
  BY DEF IntegerPredicates, OrderOf
<1>6. CASE pred \in {"EQ", "NE"}
  <2>1. /\ d \in Nat
        /\ \/ FitsSigned(a, n) /\ FitsSigned(b, n)
           \/ FitsUnsigned(a) /\ FitsUnsigned(b)
           => (d = 0 <=> a = b)
    BY <1>2, <1>3, ApartIs
  <2>2. PICK same \in BOOLEAN : same <=> d = 0
    OBVIOUS
  <2>3. /\ AtEquality(Double(d)) \in Doubles /\ (AtEquality(Double(d)).neg <=> same)
        /\ Negated(AtEquality(Double(d))) \in Doubles
        /\ (Negated(AtEquality(Double(d))).neg <=> ~same)
    BY <2>1, <2>2, ApartSign
  <2>4. /\ FulfilledBy(pred, n, a, b) <=> IF pred = "EQ" THEN a = b ELSE a # b
        /\ FulfilledBy(pred, n, a, b) \in BOOLEAN
    BY <1>6 DEF FulfilledBy, Fulfilled, OrderOf, SignedPredicates
  <2>5. /\ Fits(pred, n, a, b) <=> \/ FitsSigned(a, n) /\ FitsSigned(b, n)
                                   \/ FitsUnsigned(a) /\ FitsUnsigned(b)
        /\ Fits(pred, n, a, b) \in BOOLEAN
    BY <1>6 DEF Fits, SignedPredicates
  <2>6. visit_cmp_integer(pred, n, a, b) =
          IF pred = "EQ" THEN AtEquality(Double(d)) ELSE Negated(AtEquality(Double(d)))
    BY <1>4, <1>6
  <2> QED
    BY <1>6, <2>1, <2>2, <2>3, <2>4, <2>5, <2>6
<1>7. CASE pred \in {"UGT", "ULE", "UGE", "ULT"}
  <2>1. PICK v \in Int, w \in Int : v = zarg(a, n) /\ w = zarg(b, n) /\ z = w - v
    BY <1>1, <1>2
  <2>2. /\ visit_cmp_integer(pred, n, a, b) \in Doubles
        /\ visit_cmp_integer(pred, n, a, b).neg <=> Fulfilled(OrderOf[pred], v, w)
    <3>1. /\ Double(w - v) \in Doubles /\ (Double(w - v).neg <=> v > w)
          /\ Negated(Double(w - v)) \in Doubles /\ (Negated(Double(w - v)).neg <=> v <= w)
          /\ AtEquality(Double(w - v)) \in Doubles /\ (AtEquality(Double(w - v)).neg <=> v >= w)
          /\ Negated(AtEquality(Double(w - v))) \in Doubles
          /\ (Negated(AtEquality(Double(w - v))).neg <=> v < w)
      BY <2>1, OrderSign
    <3>2. CASE pred = "UGT"
      BY <1>4, <2>1, <3>1, <3>2 DEF Fulfilled, OrderOf
    <3>3. CASE pred = "ULE"
      BY <1>4, <2>1, <3>1, <3>3 DEF Fulfilled, OrderOf
    <3>4. CASE pred = "UGE"
      BY <1>4, <2>1, <3>1, <3>4 DEF Fulfilled, OrderOf
    <3>5. CASE pred = "ULT"
      BY <1>4, <2>1, <3>1, <3>5 DEF Fulfilled, OrderOf
    <3> QED
      BY <1>7, <3>2, <3>3, <3>4, <3>5
  <2>3. /\ FulfilledBy(pred, n, a, b) = Fulfilled(OrderOf[pred], a, b)
        /\ Fits(pred, n, a, b) <=> FitsUnsigned(a) /\ FitsUnsigned(b)
        /\ Fits(pred, n, a, b) \in BOOLEAN
    BY <1>7 DEF FulfilledBy, Fits, SignedPredicates
  <2>4. Fulfilled(OrderOf[pred], a, b) \in BOOLEAN
    BY DEF Fulfilled
  <2>5. FitsUnsigned(a) /\ FitsUnsigned(b) => v = a /\ w = b
    BY <2>1, Extended
  <2> QED
    BY <2>2, <2>3, <2>4, <2>5
<1>8. CASE pred \in {"SGT", "SLE", "SGE", "SLT"}
  <2>1. PICK v \in Int, w \in Int : v = sarg(a, n) /\ w = sarg(b, n) /\ s = w - v
    BY <1>1, <1>2
  <2>2. /\ visit_cmp_integer(pred, n, a, b) \in Doubles
        /\ visit_cmp_integer(pred, n, a, b).neg <=> Fulfilled(OrderOf[pred], v, w)
    <3>1. /\ Double(w - v) \in Doubles /\ (Double(w - v).neg <=> v > w)
          /\ Negated(Double(w - v)) \in Doubles /\ (Negated(Double(w - v)).neg <=> v <= w)
          /\ AtEquality(Double(w - v)) \in Doubles /\ (AtEquality(Double(w - v)).neg <=> v >= w)
          /\ Negated(AtEquality(Double(w - v))) \in Doubles
          /\ (Negated(AtEquality(Double(w - v))).neg <=> v < w)
      BY <2>1, OrderSign
    <3>2. CASE pred = "SGT"
      BY <1>4, <2>1, <3>1, <3>2 DEF Fulfilled, OrderOf
    <3>3. CASE pred = "SLE"
      BY <1>4, <2>1, <3>1, <3>3 DEF Fulfilled, OrderOf
    <3>4. CASE pred = "SGE"
      BY <1>4, <2>1, <3>1, <3>4 DEF Fulfilled, OrderOf
    <3>5. CASE pred = "SLT"
      BY <1>4, <2>1, <3>1, <3>5 DEF Fulfilled, OrderOf
    <3> QED
      BY <1>8, <3>2, <3>3, <3>4, <3>5
  <2>3. /\ FulfilledBy(pred, n, a, b) = Fulfilled(OrderOf[pred], AsSigned(a, n), AsSigned(b, n))
        /\ Fits(pred, n, a, b) <=> FitsSigned(a, n) /\ FitsSigned(b, n)
        /\ Fits(pred, n, a, b) \in BOOLEAN
    BY <1>8 DEF FulfilledBy, Fits, SignedPredicates
  <2>4. Fulfilled(OrderOf[pred], AsSigned(a, n), AsSigned(b, n)) \in BOOLEAN
    BY DEF Fulfilled
  <2>5. FitsSigned(a, n) /\ FitsSigned(b, n) => v = AsSigned(a, n) /\ w = AsSigned(b, n)
    BY <2>1, Extended
  <2> QED
    BY <2>2, <2>3, <2>4, <2>5
<1> QED
  BY <1>5, <1>6, <1>7, <1>8

(* A comparison that is listed is run before the branch, once or more.  A  *)
(* visit that is ignored makes its distance unreliable.                    *)
LEMMA StoredTyped ==
  ASSUME CondTyped, NEW id \in Leaves, NEW what, Reached(what, id),
         NEW d \in Doubles, NEW holds \in BOOLEAN, NEW faithful \in BOOLEAN,
         faithful => (d.neg <=> holds), Store(id, d, holds, faithful)
  PROVE  /\ CondTyped' /\ ~Started'
         /\ UNCHANGED <<condition, heavy, work, cmpvec, at, stack>>
<1>1. /\ ~Started
      /\ cmp_info' = IF CmpFrozen(id) THEN cmp_info ELSE [cmp_info EXCEPT ![id] = <<d>>]
      /\ truth' = [truth EXCEPT ![id] = holds]
      /\ unreliable' = IF faithful /\ ~CmpFrozen(id)
                       THEN unreliable \ {id} ELSE unreliable \cup {id}
      /\ UNCHANGED <<condition, heavy, work, cmpvec, at, stack>>
  BY DEF Reached, Store
<1>2. ~Started'
  BY <1>1 DEF Started
<1>3. DOMAIN cmp_info' = Leaves /\ truth' \in [Leaves -> BOOLEAN]
  BY <1>1 DEF CondTyped
<1>4. ASSUME NEW other \in Leaves PROVE LeafStored(other)'
  <2>1. LeafStored(other)
    BY DEF CondTyped
  <2>2. CASE other = id /\ CmpFrozen(id)
    <3>1. cmp_info'[other] = cmp_info[other] /\ other \in unreliable'
      BY <1>1, <2>2
    <3> QED
      BY <2>1, <3>1 DEF LeafStored
  <2>3. CASE other = id /\ ~CmpFrozen(id)
    <3>1. cmp_info'[other] = <<d>> /\ truth'[other] = holds
      BY <1>1, <2>3 DEF CondTyped
    <3>2. other \notin unreliable' => (d.neg <=> holds)
      BY <1>1, <2>3
    <3> QED
      BY <3>1, <3>2 DEF LeafStored
  <2>4. CASE other # id
    <3>1. cmp_info'[other] = cmp_info[other] /\ truth'[other] = truth[other]
      BY <1>1, <2>4 DEF CondTyped
    <3>2. other \notin unreliable' => other \notin unreliable
      BY <1>1, <2>4
    <3> QED
      BY <2>1, <3>1, <3>2 DEF LeafStored
  <2> QED
    BY <2>2, <2>3, <2>4
<1>5. CondTyped'
  BY <1>1, <1>2, <1>3, <1>4 DEF CondTyped
<1> QED
  BY <1>1, <1>2, <1>5

LEMMA VisitLeafRun ==
  ASSUME CondTyped, ReadInv, NEW id \in Leaves,
         VisitCmpInteger(id) \/ VisitCmpFloat(id) \/ VisitEtc(id)
  PROVE  CondTyped' /\ ReadInv' /\ ~Started'
<1>1. ASSUME VisitCmpInteger(id)
      PROVE  /\ CondTyped' /\ ~Started'
             /\ UNCHANGED <<condition, heavy, work, cmpvec, at, stack>>
  <2>1. Reached("cmp", id)
    BY <1>1 DEF VisitCmpInteger
  <2>2. PICK pred \in IntegerPredicates, x \in CmpArgs :
          Store(id, visit_cmp_integer(pred, x[1], x[2], x[3]),
                FulfilledBy(pred, x[1], x[2], x[3]), Fits(pred, x[1], x[2], x[3]))
    BY <1>1 DEF VisitCmpInteger
  <2>3. OfType(x[2], x[1]) /\ OfType(x[3], x[1])
    BY ConditionsAssumption DEF OfType
  <2>4. /\ visit_cmp_integer(pred, x[1], x[2], x[3]) \in Doubles
        /\ FulfilledBy(pred, x[1], x[2], x[3]) \in BOOLEAN
        /\ Fits(pred, x[1], x[2], x[3]) \in BOOLEAN
        /\ Fits(pred, x[1], x[2], x[3]) =>
             (visit_cmp_integer(pred, x[1], x[2], x[3]).neg <=> FulfilledBy(pred, x[1], x[2], x[3]))
    BY <2>3, IntegerStored
  <2> QED
    BY <2>1, <2>2, <2>4, StoredTyped
<1>2. ASSUME VisitCmpFloat(id)
      PROVE  /\ CondTyped' /\ ~Started'
             /\ UNCHANGED <<condition, heavy, work, cmpvec, at, stack>>
  <2>1. Reached("cmp", id)
    BY <1>2 DEF VisitCmpFloat
  <2>2. PICK pred \in FloatPredicates, x \in CmpArgs :
          Store(id, visit_cmp_float(pred, x[2], x[3]), Fulfilled(pred, x[2], x[3]),
                pred \notin {"NE", "LE", "LT"})
    BY <1>2 DEF VisitCmpFloat
  <2>3. x[2] \in Int /\ x[3] \in Int
    BY ConditionsAssumption
  <2>4. /\ visit_cmp_float(pred, x[2], x[3]) \in Doubles /\ Fulfilled(pred, x[2], x[3]) \in BOOLEAN
        /\ pred \notin {"NE", "LE", "LT"} =>
             (visit_cmp_float(pred, x[2], x[3]).neg <=> Fulfilled(pred, x[2], x[3]))
        /\ (pred \notin {"NE", "LE", "LT"}) \in BOOLEAN
    BY <2>3, FloatStored
  <2> QED
    BY <2>1, <2>2, <2>4, StoredTyped
<1>3. ASSUME VisitEtc(id)
      PROVE  /\ CondTyped' /\ ~Started'
             /\ UNCHANGED <<condition, heavy, work, cmpvec, at, stack>>
  <2>1. PICK b \in BOOLEAN : Reached("etc", id) /\ Store(id, Flag(b), b, TRUE)
    BY <1>3 DEF VisitEtc
  <2>2. Flag(b) \in Doubles /\ Flag(b).neg = b
    BY DEF Flag, Doubles
  <2> QED
    BY <2>1, <2>2, StoredTyped
<1> QED
  BY <1>1, <1>2, <1>3 DEF ReadInv

-----------------------------------------------------------------------------
(* The visit of the branch, from the last entry to the first.              *)

(* The stack holds values of a reading of what has been passed of the      *)
(* list, each of an expression that starts at its place and ends where the *)
(* next one starts.                                                        *)
Values(end, val, pos) ==
  /\ end \in [Nat -> Nat] /\ val \in [Nat -> BOOLEAN] /\ pos \in [Nat -> Nat]
  /\ \A p \in Nat : p > at => end[p] > p
  /\ \A p \in at + 1 .. Len(cmpvec) : EntryRead(cmpvec[p], p, truth, end, val)
  /\ pos[1] = at + 1
  /\ \A j \in 1 .. Len(stack) :
       /\ pos[j] \in at + 1 .. Len(cmpvec) /\ end[pos[j]] = pos[j + 1]
       /\ stack[j].neg <=> ~(val[pos[j]] <=> heavy)

VisitInv == Started /\ unreliable = {} => \E end, val, pos : Values(end, val, pos)

LEMMA EntryKept ==
  ASSUME NEW a \in Nat, NEW x, NEW p \in Nat, p > a, NEW t,
         NEW end \in [Nat -> Nat], \A m \in Nat : m > a => end[m] > m, NEW val \in [Nat -> BOOLEAN],
         EntryRead(x, p, t, end, val), NEW e, NEW v
  PROVE  EntryRead(x, p, t, [end EXCEPT ![a] = e], [val EXCEPT ![a] = v])
<1> DEFINE end1 == [end EXCEPT ![a] = e]
           val1 == [val EXCEPT ![a] = v]
           q == end[p + 1]
<1>1. p + 1 \in Nat /\ p + 1 > a /\ p + 1 # a /\ p # a
  OBVIOUS
<1>2. q \in Nat /\ q # a
  <2>1. q \in Nat /\ q > p + 1
    BY <1>1
  <2> QED
    BY <1>1, <2>1
<1>3. \A m \in Nat : m # a => end1[m] = end[m] /\ val1[m] = val[m]
  OBVIOUS
<1>4. /\ end1[p] = end[p] /\ end1[p + 1] = q /\ end1[q] = end[q]
      /\ val1[p] = val[p] /\ val1[p + 1] = val[p + 1] /\ val1[q] = val[q]
  BY <1>1, <1>2, <1>3
<1> HIDE DEF end1, val1
<1>5. EntryRead(x, p, t, end1, val1)
  BY <1>4 DEF EntryRead
<1> QED
  BY <1>5 DEF end1, val1

(* What stands behind a place of the list stands behind the one before.    *)
LEMMA PlaceBeyond ==
  ASSUME NEW k \in Nat, NEW n \in Nat, NEW p \in k + 1 .. n
  PROVE  p \in Nat /\ p > k /\ p # k /\ p \in (k - 1) + 1 .. n
OBVIOUS

(* A value takes the place of the first n on the stack.                    *)
LEMMA Replaces ==
  ASSUME CondTyped, NEW end, NEW val, NEW pos, Values(end, val, pos), at > 0, at' = at - 1,
         UNCHANGED <<cmpvec, truth, heavy>>,
         NEW n \in {0, 2}, n <= Len(stack), Len(stack') = Len(stack) - n + 1,
         \A j \in 2 .. Len(stack') : stack'[j] = stack[j + n - 1],
         NEW v \in BOOLEAN, stack'[1].neg <=> ~(v <=> heavy),
         EntryRead(cmpvec[at], at, truth, [end EXCEPT ![at] = pos[n + 1]], [val EXCEPT ![at] = v])
  PROVE  VisitInv'
<1>0. PICK end1, val1, pos1 :
        /\ end1 = [end EXCEPT ![at] = pos[n + 1]]
        /\ val1 = [val EXCEPT ![at] = v]
        /\ pos1 = [j \in Nat |-> IF j = 1 THEN at ELSE pos[IF j = 0 THEN 0 ELSE j + n - 1]]
  OBVIOUS
<1>1. /\ end \in [Nat -> Nat] /\ val \in [Nat -> BOOLEAN] /\ pos \in [Nat -> Nat]
      /\ \A p \in Nat : p > at => end[p] > p
      /\ \A p \in at + 1 .. Len(cmpvec) : EntryRead(cmpvec[p], p, truth, end, val)
      /\ pos[1] = at + 1
      /\ \A j \in 1 .. Len(stack) :
           /\ pos[j] \in at + 1 .. Len(cmpvec) /\ end[pos[j]] = pos[j + 1]
           /\ stack[j].neg <=> ~(val[pos[j]] <=> heavy)
  BY DEF Values
<1>2. at \in 1 .. Len(cmpvec) /\ at \in Nat /\ Len(cmpvec) \in Nat /\ Len(stack) \in Nat /\ n + 1 \in Nat
  BY DEF CondTyped
<1>3. pos[n + 1] \in Nat /\ pos[n + 1] > at
  <2>1. CASE n = 0
    BY <1>1, <1>2, <2>1
  <2>2. CASE n = 2
    <3>1. 2 \in 1 .. Len(stack)
      BY <1>2, <2>2
    <3>2. pos[2] \in at + 1 .. Len(cmpvec) /\ end[pos[2]] = pos[2 + 1]
      BY <1>1, <3>1
    <3>3. pos[2] \in Nat /\ pos[2] > at
      BY <1>2, <3>2, PlaceBeyond
    <3>4. end[pos[2]] > pos[2]
      BY <1>1, <3>3
    <3>5. pos[n + 1] = end[pos[2]]
      BY <2>2, <3>2
    <3>6. end[pos[2]] \in Nat
      BY <1>1, <3>3
    <3> QED
      BY <1>2, <3>3, <3>4, <3>5, <3>6
  <2> QED
    BY <2>1, <2>2
<1>4. end1 \in [Nat -> Nat] /\ val1 \in [Nat -> BOOLEAN] /\ end1[at] = pos[n + 1] /\ val1[at] = v
  BY <1>0, <1>1, <1>2, <1>3
<1>5. \A m \in Nat : m # at => end1[m] = end[m] /\ val1[m] = val[m]
  BY <1>0, <1>1
<1>6. pos1 \in [Nat -> Nat]
  <2>1. \A j \in Nat : (IF j = 0 THEN 0 ELSE j + n - 1) \in Nat
    OBVIOUS
  <2> QED
    BY <1>0, <1>1, <1>2, <2>1
<1>7. pos1[1] = at /\ \A j \in Nat : j >= 2 => pos1[j] = pos[j + n - 1]
  <2>1. pos1[1] = at
    BY <1>0
  <2>2. ASSUME NEW j \in Nat, j >= 2 PROVE pos1[j] = pos[j + n - 1]
    <3>1. j # 0 /\ j # 1
      BY <2>2
    <3> QED
      BY <1>0, <3>1
  <2> QED
    BY <2>1, <2>2
<1>8. EntryRead(cmpvec[at], at, truth, end1, val1)
  BY <1>0
<1>9. ASSUME NEW p \in at + 1 .. Len(cmpvec) PROVE EntryRead(cmpvec[p], p, truth, end1, val1)
  <2>1. p \in Nat /\ p > at
    BY <1>2
  <2>2. EntryRead(cmpvec[p], p, truth, end, val)
    BY <1>1
  <2> QED
    BY <1>0, <1>1, <1>2, <2>1, <2>2, EntryKept
<1>10. \A p \in Nat : p > at' => end1[p] > p
  <2> SUFFICES ASSUME NEW p \in Nat, p > at' PROVE end1[p] > p
    OBVIOUS
  <2>1. CASE p = at
    BY <1>3, <1>4, <2>1
  <2>2. CASE p # at
    <3>1. p > at
      BY <1>2, <2>2
    <3> QED
      BY <1>1, <1>5, <2>2, <3>1
  <2> QED
    BY <2>1, <2>2
<1>11. \A p \in at' + 1 .. Len(cmpvec) : EntryRead(cmpvec[p], p, truth, end1, val1)
  <2>1. \A p \in at' + 1 .. Len(cmpvec) : p = at \/ p \in at + 1 .. Len(cmpvec)
    BY <1>2
  <2> QED
    BY <1>8, <1>9, <2>1
<1>12. ASSUME NEW j \in 1 .. Len(stack')
       PROVE  /\ pos1[j] \in at' + 1 .. Len(cmpvec) /\ end1[pos1[j]] = pos1[j + 1]
              /\ stack'[j].neg <=> ~(val1[pos1[j]] <=> heavy)
  <2>1. CASE j = 1
    <3>1. pos1[j + 1] = pos[n + 1]
      <4>1. j + 1 \in Nat /\ j + 1 >= 2 /\ (j + 1) + n - 1 = n + 1
        BY <2>1
      <4> QED
        BY <1>7, <4>1
    <3>2. at \in at' + 1 .. Len(cmpvec)
      BY <1>2
    <3> QED
      BY <1>4, <1>7, <2>1, <3>1, <3>2
  <2>2. CASE j # 1
    <3> DEFINE k == j + n - 1
    <3>1. j \in Nat /\ j >= 2 /\ j + 1 \in Nat /\ j + 1 >= 2 /\ j \in 2 .. Len(stack')
          /\ k \in 1 .. Len(stack) /\ (j + 1) + n - 1 = k + 1
      <4>1. Len(stack') \in Nat /\ Len(stack) = Len(stack') + n - 1
        BY <1>2
      <4>2. j \in Nat /\ j >= 2 /\ j <= Len(stack')
        BY <2>2, <4>1
      <4>3. k \in Nat /\ k >= 1 /\ k <= Len(stack)
        BY <1>2, <4>1, <4>2
      <4>4. (j + 1) + n - 1 = k + 1
        BY <4>2
      <4>5. j + 1 \in Nat /\ j + 1 >= 2
        BY <4>2
      <4>6. j \in 2 .. Len(stack')
        BY <4>1, <4>2
      <4>7. k \in 1 .. Len(stack)
        <5> HIDE DEF k
        <5> QED
          BY <1>2, <4>3
      <4> QED
        BY <4>2, <4>4, <4>5, <4>6, <4>7
    <3>2. pos1[j] = pos[k] /\ pos1[j + 1] = pos[k + 1] /\ stack'[j] = stack[k]
      <4>1. pos1[j] = pos[k]
        BY <1>7, <3>1
      <4>2. pos1[j + 1] = pos[(j + 1) + n - 1]
        BY <1>7, <3>1
      <4>3. stack'[j] = stack[k]
        BY <3>1
      <4> QED
        BY <3>1, <4>1, <4>2, <4>3
    <3> HIDE DEF k
    <3>3. /\ pos[k] \in at + 1 .. Len(cmpvec) /\ end[pos[k]] = pos[k + 1]
          /\ stack[k].neg <=> ~(val[pos[k]] <=> heavy)
      BY <1>1, <3>1
    <3>4. pos[k] \in Nat /\ pos[k] # at /\ pos[k] \in at' + 1 .. Len(cmpvec)
      BY <1>2, <3>3, PlaceBeyond
    <3>5. end1[pos[k]] = end[pos[k]] /\ val1[pos[k]] = val[pos[k]]
      BY <1>5, <3>4
    <3> QED
      BY <3>2, <3>3, <3>4, <3>5
  <2> QED
    BY <2>1, <2>2
<1>13. pos1[1] = at' + 1
  BY <1>2, <1>7
<1>14. \A p \in at' + 1 .. Len(cmpvec') : EntryRead(cmpvec'[p], p, truth', end1, val1)
  BY <1>11
<1>15. \A j \in 1 .. Len(stack') :
         /\ pos1[j] \in at' + 1 .. Len(cmpvec') /\ end1[pos1[j]] = pos1[j + 1]
         /\ stack'[j].neg <=> ~(val1[pos1[j]] <=> heavy')
  BY <1>12
<1>16. Values(end1, val1, pos1)'
  BY <1>4, <1>6, <1>10, <1>13, <1>14, <1>15 DEF Values
<1> QED
  BY <1>16 DEF VisitInv

LEMMA StartVisitStep ==
  ASSUME CondTyped, ReadInv, StartVisit
  PROVE  CondTyped' /\ ReadInv' /\ VisitInv'
<1>1. /\ Written /\ ~Started /\ at' = Len(cmpvec)
      /\ \A id \in Comparisons("cmp") \cup Comparisons("etc") : cmp_info[id] # <<>>
      /\ UNCHANGED <<condition, heavy, work, cmpvec, cmp_info, truth, unreliable, stack>>
  BY DEF StartVisit
<1>2. Len(cmpvec) \in Nat /\ at' \in 0 .. Len(cmpvec')
  BY <1>1 DEF CondTyped
<1>3. \A k \in 1 .. Len(cmpvec) : IsLeaf(cmpvec[k]) => cmp_info[cmpvec[k].id] # <<>>
  BY <1>1 DEF Comparisons, Entries, IsLeaf
<1>4. \A id \in Leaves : LeafStored(id)'
  BY <1>1 DEF CondTyped, LeafStored
<1>5. CondTyped'
  BY <1>1, <1>2, <1>3, <1>4 DEF CondTyped, Written
<1>6. stack = <<>>
  BY <1>1 DEF Started
<1>7. PICK end, val, pos :
        /\ end = [p \in Nat |-> p + 1] /\ val = [p \in Nat |-> TRUE]
        /\ pos = [j \in Nat |-> Len(cmpvec) + 1]
  OBVIOUS
<1>8. Values(end, val, pos)'
  <2>1. /\ end \in [Nat -> Nat] /\ val \in [Nat -> BOOLEAN] /\ pos \in [Nat -> Nat]
        /\ \A p \in Nat : end[p] > p
        /\ pos[1] = at' + 1
    <3>1. Len(cmpvec) + 1 \in Nat /\ at' + 1 = Len(cmpvec) + 1 /\ \A p \in Nat : p + 1 \in Nat /\ p + 1 > p
      BY <1>1, <1>2
    <3>2. end \in [Nat -> Nat] /\ \A p \in Nat : end[p] > p
      BY <1>7, <3>1
    <3>3. pos \in [Nat -> Nat] /\ pos[1] = at' + 1
      BY <1>7, <3>1
    <3>4. val \in [Nat -> BOOLEAN]
      BY <1>7
    <3> QED
      BY <3>2, <3>3, <3>4
  <2>2. at' + 1 .. Len(cmpvec') = {} /\ 1 .. Len(stack') = {}
    BY <1>1, <1>2, <1>6
  <2> QED
    BY <2>1, <2>2 DEF Values
<1> QED
  BY <1>1, <1>5, <1>8 DEF ReadInv, VisitInv

(* Taking the entry at the top of what is left of the list.                *)
LEMMA TakeTyped ==
  ASSUME CondTyped, NEW values, values \in Seq(Doubles), at > 0, Take(values), values # <<>>
  PROVE  CondTyped' /\ stack' = values /\ at' = at - 1 /\ Started
         /\ UNCHANGED <<condition, heavy, work, cmpvec, cmp_info, truth, unreliable>>
<1>1. /\ stack' = values /\ at' = at - 1 /\ Started
      /\ UNCHANGED <<condition, heavy, work, cmpvec, cmp_info, truth, unreliable>>
  BY DEF Take, Started
<1>2. \A id \in Leaves : LeafStored(id)'
  BY <1>1 DEF CondTyped, LeafStored
<1>3. at' \in 0 .. Len(cmpvec')
  BY <1>1 DEF CondTyped
<1> QED
  BY <1>1, <1>2, <1>3 DEF CondTyped

LEMMA NoChange ==
  ASSUME NEW a \in BOOLEAN, NEW b \in BOOLEAN
  PROVE  (a # b) <=> ~(a <=> b)
OBVIOUS

LEMMA PushLeafStep ==
  ASSUME CondTyped, ReadInv, VisitInv, PushLeaf
  PROVE  CondTyped' /\ ReadInv' /\ VisitInv'
<1> DEFINE x == cmpvec[at]
           r == cmp_info[x.id][1]
           s == IF cmpNo THEN Negated(r) ELSE r
<1>1. at > 0 /\ x.what \in {"cmp", "etc"} /\ Take(<<s>> \o stack)
  BY DEF PushLeaf
<1>2. Started /\ at \in 1 .. Len(cmpvec) /\ heavy \in BOOLEAN /\ stack \in Seq(Doubles)
  BY <1>1 DEF CondTyped, Started
<1>3. x \in ListEntries
  BY <1>2 DEF CondTyped
<1>4. x.id \in Leaves /\ x.no \in BOOLEAN
  BY <1>1, <1>3, EntryFields
<1>5. cmp_info[x.id] # <<>>
  BY <1>1, <1>2 DEF CondTyped, IsLeaf
<1>6. r \in Doubles /\ (x.id \notin unreliable => (r.neg <=> truth[x.id])) /\ truth[x.id] \in BOOLEAN
  BY <1>4, <1>5 DEF CondTyped, LeafStored
<1>7. cmpNo <=> ~(x.no <=> heavy)
  BY <1>2, <1>4, NoChange DEF cmpNo
<1>8. s \in Doubles /\ (s.neg <=> ~(r.neg <=> cmpNo))
  <2>1. Negated(r) \in Doubles /\ (Negated(r).neg <=> ~r.neg)
    BY <1>6, NegatedIs
  <2> QED
    BY <1>6, <2>1
<1> HIDE DEF s, r
<1> DEFINE values == <<s>> \o stack
<1>9. <<s>> \in Seq(Doubles) /\ Len(<<s>>) = 1 /\ <<s>>[1] = s
  BY <1>8
<1>10. values \in Seq(Doubles) /\ Len(values) = 1 + Len(stack)
       /\ (\A j \in 1 .. 1 : values[j] = <<s>>[j]) /\ \A j \in 1 .. Len(stack) : values[1 + j] = stack[j]
  <2>1. values = <<s>> \o stack
    OBVIOUS
  <2> HIDE DEF values
  <2>2. values \in Seq(Doubles)
    BY <1>2, <1>9, <2>1, Joins
  <2>3. Len(values) = 1 + Len(stack)
    BY <1>2, <1>9, <2>1, Joins
  <2>4. \A j \in 1 .. 1 : values[j] = <<s>>[j]
    BY <1>2, <1>9, <2>1, Joins
  <2>5. \A j \in 1 .. Len(stack) : values[1 + j] = stack[j]
    BY <1>2, <1>9, <2>1, Joins
  <2> QED
    BY <2>2, <2>3, <2>4, <2>5
<1>11. Take(values)
  BY <1>1
<1> HIDE DEF values
<1>12. values # <<>> /\ Len(stack) \in Nat /\ values[1] = s
  <2>1. Len(stack) \in Nat
    BY <1>2
  <2>2. values[1] = s
    BY <1>9, <1>10
  <2> QED
    BY <1>10, <2>1, <2>2
<1>13. CondTyped' /\ stack' = values /\ at' = at - 1
       /\ UNCHANGED <<condition, heavy, work, cmpvec, cmp_info, truth, unreliable>>
  BY <1>1, <1>10, <1>11, <1>12, TakeTyped
<1>14. ReadInv'
  BY <1>13 DEF ReadInv
<1>15. ASSUME Started', unreliable' = {} PROVE VisitInv'
  <2>1. unreliable = {}
    BY <1>13, <1>15
  <2>2. PICK end, val, pos : Values(end, val, pos)
    BY <1>2, <2>1 DEF VisitInv
  <2> DEFINE v == ~(truth[x.id] <=> x.no)
             end1 == [end EXCEPT ![at] = pos[0 + 1]]
             val1 == [val EXCEPT ![at] = v]
  <2>3. v \in BOOLEAN /\ (v <=> ~(truth[x.id] <=> x.no))
    OBVIOUS
  <2>4. s.neg <=> ~(v <=> heavy)
    BY <1>2, <1>4, <1>6, <1>7, <1>8, <2>1
  <2>5. end \in [Nat -> Nat] /\ val \in [Nat -> BOOLEAN] /\ pos[0 + 1] = at + 1 /\ at \in Nat
    <3>1. 0 + 1 = 1 /\ at \in Nat
      BY <1>2 DEF CondTyped
    <3> QED
      BY <2>2, <3>1 DEF Values
  <2>6. end1[at] = at + 1 /\ val1[at] = v
    BY <2>5
  <2> HIDE DEF v, end1, val1
  <2>7. EntryRead(cmpvec[at], at, truth, end1, val1)
    BY <1>1, <2>3, <2>6 DEF EntryRead
  <2>8. \A j \in 2 .. Len(stack') : stack'[j] = stack[j + 0 - 1]
    <3>1. \A j \in 2 .. Len(stack') : j - 1 \in 1 .. Len(stack) /\ 1 + (j - 1) = j /\ j + 0 - 1 = j - 1
      BY <1>10, <1>12, <1>13
    <3> QED
      BY <1>10, <1>13, <3>1
  <2>9. 0 \in {0, 2} /\ 0 <= Len(stack) /\ Len(stack') = Len(stack) - 0 + 1 /\ (stack'[1].neg <=> ~(v <=> heavy))
    BY <1>10, <1>12, <1>13, <2>4
  <2> QED
    BY <1>1, <1>13, <2>2, <2>3, <2>7, <2>8, <2>9, Replaces DEF end1, val1
<1> QED
  BY <1>13, <1>14, <1>15 DEF VisitInv

(* An operator takes one of the two distances, whichever it is.            *)
LEMMA TakesOneOfThem ==
  ASSUME NEW x, NEW y
  PROVE  Nearest(x, y) \in {x, y} /\ Furthest(x, y) \in {x, y}
<1>1. Nearest(x, y) \in {x, y}
  BY DEF Nearest
<1>2. Furthest(x, y) \in {x, y}
  BY DEF Furthest
<1> QED
  BY <1>1, <1>2

LEMMA BelowTwo ==
  ASSUME NEW S, NEW s \in Seq(S), Len(s) >= 2
  PROVE  /\ SubSeq(s, 3, Len(s)) \in Seq(S) /\ Len(SubSeq(s, 3, Len(s))) = Len(s) - 2
         /\ \A j \in 1 .. Len(s) - 2 : SubSeq(s, 3, Len(s))[j] = s[j + 2]
<1>1. Len(s) \in Nat /\ \A j \in 3 .. Len(s) : s[j] \in S
  OBVIOUS
<1>2. SubSeq(s, 3, Len(s)) \in Seq(S)
  BY <1>1
<1>3. Len(SubSeq(s, 3, Len(s))) = Len(s) - 2
  <2>1. CASE Len(s) >= 3
    BY <1>1, <2>1
  <2>2. CASE Len(s) = 2
    BY <1>1, <2>2
  <2> DEFINE n == Len(s)
  <2>3. n \in Nat /\ n >= 2
    BY <1>1
  <2> HIDE DEF n
  <2>4. n >= 3 \/ n = 2
    BY <2>3
  <2> QED
    BY <2>1, <2>2, <2>4 DEF n
<1>4. ASSUME NEW j \in 1 .. Len(s) - 2 PROVE SubSeq(s, 3, Len(s))[j] = s[j + 2]
  <2>1. j \in 1 .. Len(s) - 3 + 1 /\ 3 + j - 1 = j + 2
    BY <1>1
  <2>2. SubSeq(s, 3, Len(s))[j] = s[3 + j - 1]
    BY <1>1, <2>1
  <2> QED
    BY <2>1, <2>2
<1> QED
  BY <1>2, <1>3, <1>4

LEMMA CombineStep ==
  ASSUME CondTyped, ReadInv, VisitInv, Combine
  PROVE  CondTyped' /\ ReadInv' /\ VisitInv'
<1> DEFINE x == cmpvec[at]
           s == IF x.what = binop_or THEN Nearest(stack[1], stack[2]) ELSE Furthest(stack[1], stack[2])
           below == SubSeq(stack, 3, Len(stack))
           values == <<s>> \o below
<1>1. at > 0 /\ x.what \in {"and", "or"} /\ Len(stack) >= 2 /\ Take(values)
  BY DEF Combine
<1>2. /\ at \in 1 .. Len(cmpvec) /\ at \in Nat /\ Len(cmpvec) \in Nat /\ heavy \in BOOLEAN
      /\ stack \in Seq(Doubles) /\ Len(stack) \in Nat
  BY <1>1 DEF CondTyped
<1>3. Started
  BY <1>1 DEF Started
<1>4. s \in {stack[1], stack[2]}
  BY TakesOneOfThem
<1>5. stack[1] \in Doubles /\ stack[2] \in Doubles
  BY <1>1, <1>2
<1>6. /\ below \in Seq(Doubles) /\ Len(below) = Len(stack) - 2
      /\ \A j \in 1 .. Len(stack) - 2 : below[j] = stack[j + 2]
  BY <1>1, <1>2, BelowTwo
<1>7. s \in Doubles
  BY <1>4, <1>5
<1> HIDE DEF s, below
<1>8. <<s>> \in Seq(Doubles) /\ Len(<<s>>) = 1 /\ <<s>>[1] = s
  BY <1>7
<1>9. /\ values \in Seq(Doubles) /\ Len(values) = 1 + Len(below)
      /\ \A j \in 1 .. 1 : values[j] = <<s>>[j]
      /\ \A j \in 1 .. Len(below) : values[1 + j] = below[j]
  <2>1. values = <<s>> \o below
    OBVIOUS
  <2> HIDE DEF values
  <2>2. values \in Seq(Doubles)
    BY <1>6, <1>8, <2>1, Joins
  <2>3. Len(values) = 1 + Len(below)
    BY <1>6, <1>8, <2>1, Joins
  <2>4. \A j \in 1 .. 1 : values[j] = <<s>>[j]
    BY <1>6, <1>8, <2>1, Joins
  <2>5. \A j \in 1 .. Len(below) : values[1 + j] = below[j]
    BY <1>6, <1>8, <2>1, Joins
  <2> QED
    BY <2>2, <2>3, <2>4, <2>5
<1> HIDE DEF values
<1>10. Len(values) = Len(stack) - 1 /\ values # <<>> /\ values[1] = s
  <2>1. Len(values) = Len(stack) - 1
    BY <1>2, <1>6, <1>9
  <2>2. values[1] = s
    BY <1>8, <1>9
  <2> QED
    BY <1>1, <1>2, <2>1, <2>2
<1>11. CondTyped' /\ stack' = values /\ at' = at - 1
       /\ UNCHANGED <<condition, heavy, work, cmpvec, cmp_info, truth, unreliable>>
  BY <1>1, <1>9, <1>10, TakeTyped
<1>12. ReadInv'
  BY <1>11 DEF ReadInv
<1>13. ASSUME Started', unreliable' = {} PROVE VisitInv'
  <2>1. PICK end, val, pos : Values(end, val, pos)
    BY <1>3, <1>11, <1>13 DEF VisitInv
  <2>2. /\ end \in [Nat -> Nat] /\ val \in [Nat -> BOOLEAN] /\ pos \in [Nat -> Nat]
        /\ \A p \in Nat : p > at => end[p] > p
        /\ pos[1] = at + 1
        /\ \A j \in 1 .. Len(stack) :
             /\ pos[j] \in at + 1 .. Len(cmpvec) /\ end[pos[j]] = pos[j + 1]
             /\ stack[j].neg <=> ~(val[pos[j]] <=> heavy)
    BY <2>1 DEF Values
  <2>3. 1 \in 1 .. Len(stack) /\ 2 \in 1 .. Len(stack) /\ 1 + 1 = 2 /\ 2 + 1 = 3
    BY <1>1, <1>2
  <2>4. /\ end[at + 1] = pos[2] /\ end[pos[2]] = pos[3]
        /\ stack[1].neg <=> ~(val[at + 1] <=> heavy)
        /\ stack[2].neg <=> ~(val[pos[2]] <=> heavy)
    BY <2>2, <2>3
  <2>5. pos[2] \in Nat /\ pos[2] # at /\ at + 1 \in Nat /\ at + 1 # at
    <3>1. pos[2] \in at + 1 .. Len(cmpvec)
      BY <2>2, <2>3
    <3> QED
      BY <1>2, <3>1
  <2> DEFINE v == IF s = stack[1] THEN val[at + 1] ELSE val[pos[2]]
             end1 == [end EXCEPT ![at] = pos[2 + 1]]
             val1 == [val EXCEPT ![at] = v]
  <2>6. v \in BOOLEAN /\ ((v <=> val[at + 1]) \/ (v <=> val[pos[2]]))
    BY <2>2, <2>5
  <2>7. s.neg <=> ~(v <=> heavy)
    <3>1. CASE s = stack[1]
      BY <2>4, <3>1
    <3>2. CASE s # stack[1]
      BY <1>4, <2>4, <3>2
    <3> QED
      BY <3>1, <3>2
  <2>8. /\ end1[at] = pos[3] /\ end1[at + 1] = pos[2] /\ end1[pos[2]] = pos[3]
        /\ val1[at] = v /\ val1[at + 1] = val[at + 1] /\ val1[pos[2]] = val[pos[2]]
    BY <1>2, <2>2, <2>3, <2>4, <2>5
  <2> HIDE DEF v, end1, val1
  <2>9. EntryRead(cmpvec[at], at, truth, end1, val1)
    BY <1>1, <2>6, <2>8 DEF EntryRead
  <2>10. \A j \in 2 .. Len(stack') : stack'[j] = stack[j + 2 - 1]
    <3>1. ASSUME NEW j \in 2 .. Len(stack') PROVE stack'[j] = stack[j + 2 - 1]
      <4>1. j - 1 \in 1 .. Len(below) /\ j - 1 \in 1 .. Len(stack) - 2 /\ 1 + (j - 1) = j
            /\ (j - 1) + 2 = j + 2 - 1
        BY <1>2, <1>6, <1>10, <1>11
      <4>2. values[1 + (j - 1)] = below[j - 1] /\ below[j - 1] = stack[(j - 1) + 2]
        BY <1>6, <1>9, <4>1
      <4> QED
        BY <1>11, <4>1, <4>2
    <3> QED
      BY <3>1
  <2>11. /\ 2 \in {0, 2} /\ 2 <= Len(stack) /\ Len(stack') = Len(stack) - 2 + 1
         /\ stack'[1].neg <=> ~(v <=> heavy)
    BY <1>1, <1>2, <1>10, <1>11, <2>7
  <2> QED
    BY <1>1, <1>11, <2>1, <2>6, <2>9, <2>10, <2>11, Replaces DEF end1, val1
<1> QED
  BY <1>11, <1>12, <1>13 DEF VisitInv

-----------------------------------------------------------------------------
CondInv == CondTyped /\ ReadInv /\ VisitInv

LEMMA ConditionStart == ConditionInit(TRUE) => CondInv
<1> SUFFICES ASSUME ConditionInit(TRUE) PROVE CondInv
  OBVIOUS
<1>1. /\ condition \in Instructions /\ heavy \in BOOLEAN /\ work = <<Item(Len(condition), FALSE)>>
      /\ cmpvec = <<>> /\ cmp_info = [l \in Leaves |-> <<>>] /\ truth = [l \in Leaves |-> FALSE]
      /\ at = 0 /\ stack = <<>>
  BY DEF ConditionInit
<1>2. ~Started
  BY <1>1 DEF Started
<1>3. Len(condition) \in 1 .. Len(condition) /\ Len(condition) \in Nat
  BY <1>1, ConditionsAssumption
<1>4. work \in Seq(WorkItems(Len(condition)))
  <2> DEFINE S == WorkItems(Len(condition))
             x == Item(Len(condition), FALSE)
  <2>1. x \in S /\ work = <<x>>
    BY <1>1, <1>3, ItemIn
  <2> HIDE DEF S, x
  <2>2. <<x>> \in Seq(S)
    BY <2>1
  <2> QED
    BY <2>1, <2>2 DEF S
<1>5. CondTyped
  <2>1. cmpvec \in Seq(ListEntries) /\ stack \in Seq(Doubles) /\ at \in 0 .. Len(cmpvec)
    BY <1>1
  <2>2. DOMAIN cmp_info = Leaves /\ truth \in [Leaves -> BOOLEAN] /\ \A id \in Leaves : LeafStored(id)
    BY <1>1 DEF LeafStored
  <2> QED
    BY <1>1, <1>2, <1>4, <2>1, <2>2 DEF CondTyped
<1>6. ASSUME NEW r, NEW q, Placed(r, work, q), q[1] = Len(cmpvec) + 1
      PROVE  Tells(r, Len(condition), FALSE, 1)
  <2>1. 1 \in 1 .. Len(work) /\ work[1] = Item(Len(condition), FALSE) /\ q[1] = 1
    BY <1>1, <1>6
  <2>2. ItemAt(r, work[1], q[1], q[1 + 1])
    BY <1>6, <2>1, PlacedAt
  <2>3. work[1].emit = "none" /\ work[1].node = Len(condition) /\ work[1].no = FALSE
    BY <2>1 DEF Item
  <2>4. Tells(r, work[1].node, work[1].no, q[1])
    BY <2>2, <2>3 DEF ItemAt
  <2> QED
    BY <2>1, <2>3, <2>4
<1> QED
  BY <1>2, <1>5, <1>6 DEF CondInv, ReadInv, VisitInv

LEMMA ConditionStep == CondInv /\ [CondNext]_condVars => CondInv'
<1> SUFFICES ASSUME CondInv, [CondNext]_condVars PROVE CondInv'
  OBVIOUS
<1> USE DEF CondInv
<1>1. ASSUME work # <<>>, UNCHANGED <<at, stack>> PROVE VisitInv'
  <2>1. ~Started
    BY <1>1, WorkTop
  <2>2. ~Started'
    BY <1>1, <2>1 DEF Started
  <2> QED
    BY <2>2 DEF VisitInv
<1>2. CASE VisitLeaf
  BY <1>1, <1>2, VisitLeafStep DEF VisitLeaf, Visiting
<1>3. CASE VisitNot
  BY <1>1, <1>3, VisitNotStep DEF VisitNot, Visiting
<1>4. CASE VisitAndOr
  BY <1>1, <1>4, VisitAndOrStep DEF VisitAndOr, Visiting
<1>5. CASE VisitXor
  BY <1>1, <1>5, VisitXorStep DEF VisitXor, Visiting
<1>6. CASE EmitOperator
  BY <1>1, <1>6, EmitOperatorStep DEF EmitOperator
<1>7. ASSUME NEW id \in Leaves, VisitCmpInteger(id) \/ VisitCmpFloat(id) \/ VisitEtc(id)
      PROVE  CondInv'
  BY <1>7, VisitLeafRun DEF VisitInv
<1>9. CASE StartVisit
  BY <1>9, StartVisitStep
<1>10. CASE PushLeaf
  BY <1>10, PushLeafStep
<1>11. CASE Combine
  BY <1>11, CombineStep
<1>12. CASE UNCHANGED condVars
  <2>1. UNCHANGED <<condition, heavy, work, cmpvec, cmp_info, truth, unreliable, at, stack>>
    BY <1>12 DEF condVars
  <2>2. CondTyped'
    BY <2>1 DEF CondTyped, LeafStored, Started
  <2>3. ReadInv'
    BY <2>1 DEF ReadInv
  <2>4. ASSUME NEW end, NEW val, NEW pos, Values(end, val, pos) PROVE Values(end, val, pos)'
    BY <2>1, <2>4 DEF Values
  <2>5. VisitInv'
    BY <2>1, <2>4 DEF VisitInv, Started
  <2> QED
    BY <2>2, <2>3, <2>5
<1> QED
  BY <1>2, <1>3, <1>4, <1>5, <1>6, <1>7, <1>9, <1>10, <1>11, <1>12 DEF CondNext

LEMMA VerdictIs ==
  ASSUME CondInv PROVE VerdictNamesSide
<1> USE DEF CondInv
<1> SUFFICES ASSUME Visited, unreliable = {}
             PROVE  /\ AllOf("and") => (Passed => ~Meaning)
                    /\ AllOf("or") => (~Passed => Meaning)
  BY DEF VerdictNamesSide
<1>1. Written /\ at = 0 /\ stack # <<>> /\ Started /\ work = <<>>
  BY DEF Visited, Written, Started
<1>2. PICK end, val, pos : Values(end, val, pos)
  BY <1>1 DEF VisitInv
<1>3. heavy \in BOOLEAN /\ stack \in Seq(Doubles) /\ cmpvec \in Seq(ListEntries)
      /\ truth \in [Leaves -> BOOLEAN]
  BY DEF CondTyped
<1>4. 1 \in 1 .. Len(stack) /\ stack[1] \in Doubles
  BY <1>1, <1>3
<1>5. stack[1].neg <=> ~(val[1] <=> heavy)
  <2>1. pos[1] = 1
    BY <1>1, <1>2 DEF Values
  <2> QED
    BY <1>2, <1>4, <2>1 DEF Values
<1>6. Passed <=> ~val[1]
  <2>1. Negated(stack[1]).neg <=> ~stack[1].neg
    BY <1>4, NegatedIs
  <2>2. CASE heavy
    BY <1>3, <1>5, <2>2 DEF Passed
  <2>3. CASE ~heavy
    BY <1>3, <1>5, <2>1, <2>3 DEF Passed
  <2> QED
    BY <2>2, <2>3
<1>7. WellFormed(condition) /\ Len(condition) \in Nat \ {0}
  BY ConditionIsWellFormed
<1>8. /\ Yielded(Len(condition), condition, meaning, truth)
      /\ Formed(Len(condition), condition, allOf)
  BY <1>3, <1>7, MeaningIs, AllOfIs
<1> DEFINE r == [list |-> cmpvec, truth |-> truth, end |-> end, val |-> val,
                 means |-> meaning, forms |-> allOf]
           q == [j \in Nat |-> Len(cmpvec) + 1]
<1>9. /\ r.list = cmpvec /\ r.truth = truth /\ r.end = end /\ r.val = val
      /\ r.means = meaning /\ r.forms = allOf
  OBVIOUS
<1> HIDE DEF r
<1>10. Reading(condition, r)
  <2>1. /\ end \in [Nat -> Nat] /\ val \in [Nat -> BOOLEAN]
        /\ \A p \in 1 .. Len(cmpvec) : EntryRead(cmpvec[p], p, truth, end, val)
    <3>1. at + 1 .. Len(cmpvec) = 1 .. Len(cmpvec)
      BY <1>1
    <3> QED
      BY <1>2, <3>1 DEF Values
  <2> QED
    BY <1>3, <1>8, <1>9, <2>1 DEF Reading
<1>11. Placed(r, work, q) /\ q[1] = Len(cmpvec) + 1
  <2>1. Len(cmpvec) + 1 \in Nat
    BY <1>3
  <2>2. q \in [Nat -> Nat] /\ q[1] = Len(cmpvec) + 1
    BY <2>1
  <2>3. 1 .. Len(work) = {}
    BY <1>1
  <2> HIDE DEF q
  <2> QED
    BY <2>2, <2>3 DEF Placed
<1>12. Extends(r.list, cmpvec)
  BY <1>3, <1>9 DEF Extends
<1>13. Tells(r, Len(condition), FALSE, 1)
  BY <1>10, <1>11, <1>12 DEF ReadInv
<1>14. /\ "and" \in allOf[Len(condition)] => (meaning[Len(condition)] => val[1])
       /\ "or" \in allOf[Len(condition)] => (val[1] => meaning[Len(condition)])
  BY <1>9, <1>13 DEF Tells
<1> QED
  BY <1>6, <1>14 DEF AllOf, Meaning

(* For any condition, however its operators are nested and shared, and any *)
(* number of visits of its comparisons: what __maxafl_visit_br works out   *)
(* from the list that the pass has written tells a conjunction that is     *)
(* true, and a disjunction that is false, from the side that was taken, as *)
(* long as 32 bits hold the operands last visited with, as the predicate   *)
(* reads them, no NE, LE or LT is on doubles, and none was at -2.0 before. *)
THEOREM VerdictIsSound == CondSpec => []VerdictNamesSide
<1>1. ConditionInit(TRUE) => CondInv
  BY ConditionStart
<1>2. CondInv /\ [CondNext]_condVars => CondInv'
  BY ConditionStep
<1>3. CondInv => VerdictNamesSide
  BY VerdictIs
<1> QED
  BY <1>1, <1>2, <1>3, PTL DEF CondSpec
=============================================================================
