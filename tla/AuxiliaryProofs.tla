---------------------------- MODULE AuxiliaryProofs ----------------------------
(***************************************************************************)
(* Proofs about Auxiliary, part by part and for any inputs, tokens,        *)
(* threads and numbers of sessions, blocks and lines: what the minimiser   *)
(* writes, what dictionaries keep, what the allocator counts and what the  *)
(* assembly filter instruments.                                            *)
(***************************************************************************)
EXTENDS Auxiliary, SequenceTheorems, FiniteSetTheorems, WellFoundedInduction, TLAPS

-----------------------------------------------------------------------------
(* afl-tmin.                                                               *)

(* Every file with one of the first n bytes left out has been refused,     *)
(* unless a run was cut off.                                               *)
Tried(n) == hangs = 0 => \A k \in 0 .. n - 1 : k < in_len => Without(k, 1) \in bad

TMinTyped ==
  /\ in_data \in Seq(Nat)
  /\ crash_mode \in BOOLEAN /\ exact_mode \in BOOLEAN /\ changed_any \in BOOLEAN
  /\ prev_del \in BOOLEAN
  /\ pos \in Nat /\ hangs \in Nat /\ del_len \in Nat
  /\ stage = "delete" => del_len # 0

(* The file at hand is one that was seen to be wanted, from the dry run on.*)
Faithful ==
  /\ good = {} => stage \in {"dry run", "aborted", "written"}
  /\ good # {} => in_data \in good
  /\ out_file # {} => out_file = {in_data} /\ stage \in {"aborted", "written"}

(* How far the last round of deletions has got, if nothing has changed in  *)
(* the pass.  A block is compared only with one that was kept.             *)
Minimal ==
  /\ stage = "delete" =>
       /\ ~prev_del => pos >= del_len
       /\ del_len = 1 /\ ~changed_any => Tried(pos)
  /\ stage \in {"alphabet", "character"} /\ ~changed_any => Tried(in_len)
  /\ stage \in {"write", "written"} => Tried(in_len)

TMinInv == TMinTyped /\ Faithful /\ Minimal

LEMMA LeastNumber ==
  ASSUME NEW T \in SUBSET Nat, T # {}
  PROVE  \E m \in T : \A k \in T : m <= k
<1>1. PICK m \in T : \A k \in T : ~(<<k, m>> \in OpToRel(<, Nat))
  BY NatLessThanWellFounded, WFMin
<1>2. \A k \in T : ~(k < m)
  BY <1>1 DEF OpToRel
<1> QED
  BY <1>2

(* The loop of next_p2 ends.                                               *)
LEMMA PowerAbove ==
  ASSUME NEW n \in Nat
  PROVE  next_p2(n) \in Nat \ {0}
<1> DEFINE Power(m, ret) == Doubled(ret) /\ ret >= m /\ (ret = 1 \/ ret \div 2 < m)
           T == {m \in Nat : ~ \E ret \in Nat \ {0} : Power(m, ret)}
<1>1. ASSUME T # {} PROVE FALSE
  <2>1. PICK m \in T : \A k \in T : m <= k
    BY <1>1, LeastNumber
  <2>2. Doubled(1)
    <3>1. 1 \in {1} /\ {1} \in SUBSET (1 .. 1) /\ \A r \in {1} : r = 1
      OBVIOUS
    <3> QED
      BY <3>1 DEF Doubled
  <2>3. m # 0
    <3>1. Power(0, 1)
      BY <2>2
    <3> QED
      BY <2>1, <3>1
  <2>4. PICK ret \in Nat \ {0} : Power(m - 1, ret)
    <3>1. m - 1 \in Nat /\ ~(m <= m - 1)
      BY <2>1, <2>3
    <3>2. m - 1 \notin T
      BY <2>1, <3>1
    <3> QED
      BY <3>1, <3>2
  <2>5. CASE ret >= m
    <3>1. Power(m, ret)
      BY <2>1, <2>4, <2>5
    <3> QED
      BY <2>1, <3>1
  <2>6. CASE ret < m
    <3>1. ret = m - 1 /\ 2 * ret \in Nat \ {0} /\ 2 * ret >= m /\ (2 * ret) \div 2 = ret
      BY <2>1, <2>4, <2>6
    <3>2. Doubled(2 * ret)
      <4>1. PICK tried \in SUBSET (1 .. ret) :
              ret \in tried /\ \A r \in tried : r = 1 \/ (r % 2 = 0 /\ r \div 2 \in tried)
        BY <2>4 DEF Doubled
      <4> DEFINE more == tried \cup {2 * ret}
      <4>2. more \in SUBSET (1 .. 2 * ret) /\ 2 * ret \in more
        BY <2>4
      <4>3. (2 * ret) % 2 = 0 /\ (2 * ret) \div 2 \in tried
        BY <2>4, <3>1, <4>1
      <4>4. \A r \in more : r = 1 \/ (r % 2 = 0 /\ r \div 2 \in more)
        BY <4>1, <4>3
      <4> HIDE DEF more
      <4> QED
        BY <4>2, <4>4 DEF Doubled
    <3>3. Power(m, 2 * ret)
      BY <2>1, <2>6, <3>1, <3>2
    <3> QED
      BY <2>1, <3>1, <3>3
  <2> QED
    BY <2>1, <2>4, <2>5, <2>6
<1>2. PICK ret \in Nat \ {0} : Power(n, ret)
  BY <1>1
<1>3. ret \in 1 .. 2 * n + 1
  BY <1>2
<1>4. next_p2(n) \in 1 .. 2 * n + 1
  BY <1>2, <1>3 DEF next_p2
<1> QED
  BY <1>4

-----------------------------------------------------------------------------
(* Files and runs.                                                         *)

(* What is left of a file without one byte, or without a block.            *)
LEMMA WithoutBlock ==
  ASSUME in_data \in Seq(Nat), NEW from \in Nat, NEW n \in Nat, from < in_len
  PROVE  /\ Without(from, n) \in Seq(Nat)
         /\ Len(Without(from, n)) = from + in_len - AtMost(in_len, from + n)
         /\ \A i \in 1 .. from + in_len - AtMost(in_len, from + n) :
              Without(from, n)[i] = IF i <= from THEN in_data[i]
                                    ELSE in_data[i - from + AtMost(in_len, from + n)]
<1> DEFINE to == AtMost(in_len, from + n)
           head == SubSeq(in_data, 1, from)
           tail == SubSeq(in_data, to + 1, in_len)
           size == from + in_len - to
<1>1. in_len \in Nat /\ to \in Nat /\ to <= in_len /\ size \in Nat
  BY DEF in_len, AtMost
<1>2. \A i \in 1 .. in_len : in_data[i] \in Nat
  BY DEF in_len
<1> HIDE DEF to, head, tail
<1>3. head \in Seq(Nat) /\ Len(head) = from /\ \A i \in 1 .. from : head[i] = in_data[i]
  <2>1. \A i \in 1 .. from : in_data[i] \in Nat
    BY <1>1, <1>2
  <2>2. /\ head \in Seq(Nat)
        /\ Len(head) = IF 1 <= from THEN from - 1 + 1 ELSE 0
        /\ \A i \in 1 .. from - 1 + 1 : head[i] = in_data[1 + i - 1]
    BY <2>1, SubSeqProperties DEF head
  <2>3. \A i \in 1 .. from : i \in 1 .. from - 1 + 1 /\ 1 + i - 1 = i
    OBVIOUS
  <2>4. ASSUME NEW i \in 1 .. from PROVE head[i] = in_data[i]
    BY <2>2, <2>3
  <2> QED
    BY <2>2, <2>4
<1>4. /\ tail \in Seq(Nat) /\ Len(tail) = in_len - to
      /\ \A i \in 1 .. in_len - to : tail[i] = in_data[to + i]
  <2>1. \A i \in to + 1 .. in_len : in_data[i] \in Nat
    BY <1>1, <1>2
  <2>2. to + 1 \in Int /\ in_len \in Int
    BY <1>1
  <2>3. /\ tail \in Seq(Nat)
        /\ Len(tail) = IF to + 1 <= in_len THEN in_len - (to + 1) + 1 ELSE 0
        /\ \A i \in 1 .. in_len - (to + 1) + 1 : tail[i] = in_data[to + 1 + i - 1]
    BY <2>1, <2>2, SubSeqProperties DEF tail
  <2>4. ASSUME NEW i \in 1 .. in_len - to PROVE tail[i] = in_data[to + i]
    <3>1. i \in 1 .. in_len - (to + 1) + 1 /\ to + 1 + i - 1 = to + i
      BY <1>1
    <3> QED
      BY <2>3, <3>1
  <2> QED
    BY <1>1, <2>3, <2>4
<1>5. /\ head \o tail \in Seq(Nat) /\ Len(head \o tail) = Len(head) + Len(tail)
      /\ \A i \in 1 .. Len(head) + Len(tail) :
           (head \o tail)[i] = IF i <= Len(head) THEN head[i] ELSE tail[i - Len(head)]
  BY <1>3, <1>4, ConcatProperties
<1>6. Len(head) + Len(tail) = size
  BY <1>1, <1>3, <1>4
<1>7. ASSUME NEW i \in 1 .. size
      PROVE  (head \o tail)[i] = IF i <= from THEN in_data[i] ELSE in_data[i - from + to]
  <2>1. (head \o tail)[i] = IF i <= from THEN head[i] ELSE tail[i - from]
    BY <1>3, <1>5, <1>6
  <2>2. CASE i <= from
    <3>1. i \in 1 .. from
      BY <1>1, <2>2
    <3> QED
      BY <1>3, <2>1, <2>2, <3>1
  <2>3. CASE ~(i <= from)
    <3>1. i - from \in 1 .. in_len - to /\ to + (i - from) = i - from + to
      BY <1>1, <2>3
    <3> QED
      BY <1>4, <2>1, <2>3, <3>1
  <2> QED
    BY <2>2, <2>3
<1>8. Without(from, n) = head \o tail
  BY DEF Without, head, tail, to
<1> QED
  BY <1>5, <1>6, <1>7, <1>8 DEF to

LEMMA WithoutByte ==
  ASSUME in_data \in Seq(Nat), NEW k \in Nat, k < in_len
  PROVE  /\ Without(k, 1) \in Seq(Nat) /\ Len(Without(k, 1)) = in_len - 1
         /\ \A i \in 1 .. in_len - 1 :
              Without(k, 1)[i] = IF i <= k THEN in_data[i] ELSE in_data[i + 1]
<1>1. in_len \in Nat /\ AtMost(in_len, k + 1) = k + 1 /\ 1 \in Nat
  BY DEF in_len, AtMost
<1>2. /\ Without(k, 1) \in Seq(Nat) /\ Len(Without(k, 1)) = k + in_len - (k + 1)
      /\ \A i \in 1 .. k + in_len - (k + 1) :
           Without(k, 1)[i] = IF i <= k THEN in_data[i] ELSE in_data[i - k + (k + 1)]
  <2>1. /\ Without(k, 1) \in Seq(Nat)
        /\ Len(Without(k, 1)) = k + in_len - AtMost(in_len, k + 1)
        /\ \A i \in 1 .. k + in_len - AtMost(in_len, k + 1) :
             Without(k, 1)[i] = IF i <= k THEN in_data[i]
                                ELSE in_data[i - k + AtMost(in_len, k + 1)]
    BY <1>1, WithoutBlock
  <2> QED
    BY <1>1, <2>1
<1>3. k + in_len - (k + 1) = in_len - 1 /\ \A i \in Int : i - k + (k + 1) = i + 1
  BY <1>1
<1> QED
  BY <1>2, <1>3

LEMMA ByteAt ==
  ASSUME NEW s \in Seq(Nat), NEW i \in 1 .. Len(s)
  PROVE  SubSeq(s, i, i)[1] = s[i]
<1>1. \A j \in i .. i : s[j] \in Nat
  OBVIOUS
<1>2. \A j \in 1 .. i - i + 1 : SubSeq(s, i, i)[j] = s[i + j - 1]
  BY <1>1, SubSeqProperties
<1>3. 1 \in 1 .. i - i + 1 /\ i + 1 - 1 = i
  OBVIOUS
<1> QED
  BY <1>2, <1>3

(* A byte like the one before it need not be tried.                        *)
LEMMA RepeatedByte ==
  ASSUME in_data \in Seq(Nat), NEW k \in Nat \ {0}, k < in_len,
         in_data[k] = in_data[k + 1]
  PROVE  Without(k - 1, 1) = Without(k, 1)
<1>1. in_len \in Nat
  BY DEF in_len
<1>2. /\ Without(k, 1) \in Seq(Nat) /\ Len(Without(k, 1)) = in_len - 1
      /\ \A i \in 1 .. in_len - 1 :
           Without(k, 1)[i] = IF i <= k THEN in_data[i] ELSE in_data[i + 1]
  BY <1>1, WithoutByte
<1>3. /\ Without(k - 1, 1) \in Seq(Nat) /\ Len(Without(k - 1, 1)) = in_len - 1
      /\ \A i \in 1 .. in_len - 1 :
           Without(k - 1, 1)[i] = IF i <= k - 1 THEN in_data[i] ELSE in_data[i + 1]
  <2>1. k - 1 \in Nat /\ k - 1 < in_len
    BY <1>1
  <2> QED
    BY <2>1, WithoutByte
<1>4. \A i \in 1 .. in_len - 1 : Without(k - 1, 1)[i] = Without(k, 1)[i]
  <2> SUFFICES ASSUME NEW i \in 1 .. in_len - 1 PROVE Without(k - 1, 1)[i] = Without(k, 1)[i]
    OBVIOUS
  <2>1. CASE i <= k - 1
    BY <1>1, <1>2, <1>3, <2>1
  <2>2. CASE i = k
    BY <1>1, <1>2, <1>3, <2>2
  <2>3. CASE i > k
    BY <1>1, <1>2, <1>3, <2>3
  <2> QED
    BY <1>1, <2>1, <2>2, <2>3
<1> QED
  BY <1>2, <1>3, <1>4, SeqEqual

(* A run that is accepted makes the input a wanted one, and nothing that   *)
(* is known of others is forgotten.                                        *)
LEMMA AcceptedRun ==
  ASSUME TMinTyped, NEW input, Accepted(input)
  PROVE  input \in good' /\ good' # {} /\ bad \subseteq bad' /\ hangs' = hangs
<1>1. CASE input \in good /\ UNCHANGED verdicts
  BY <1>1 DEF verdicts
<1>2. ASSUME NEW o \in Outcomes, Like(o), FirstRun(input, o)
      PROVE  input \in good' /\ bad \subseteq bad' /\ hangs' = hangs
  BY <1>2 DEF TMinTyped, Outcomes, Like, FirstRun, Wanted
<1> QED
  BY <1>1, <1>2 DEF Accepted

LEMMA RefusedRun ==
  ASSUME TMinTyped, NEW input, Refused(input)
  PROVE  /\ good \subseteq good'
         /\ bad \subseteq bad' /\ hangs' \in Nat
         /\ hangs' = 0 => input \in bad' /\ hangs = 0
<1>1. CASE input \in bad /\ UNCHANGED verdicts
  BY <1>1 DEF TMinTyped, verdicts
<1>2. ASSUME NEW o \in Outcomes, ~Like(o), FirstRun(input, o)
      PROVE  /\ good' = good /\ bad \subseteq bad' /\ hangs' = hangs /\ input \in bad'
  BY <1>2 DEF TMinTyped, Outcomes, Like, FirstRun, Wanted
<1>3. CASE handle_timeout /\ UNCHANGED <<good, bad>>
  BY <1>3 DEF TMinTyped, handle_timeout
<1> QED
  BY <1>1, <1>2, <1>3 DEF Refused, TMinTyped

LEMMA Division ==
  ASSUME NEW n \in Nat, NEW d \in Nat \ {0}
  PROVE  n \div d \in Nat
OBVIOUS

LEMMA SizesTyped ==
  ASSUME TMinTyped
  PROVE  set_len \in Nat /\ next_p2(in_len \div TRIM_START_STEPS) \in Nat \ {0}
<1>1. in_len \in Nat
  BY DEF TMinTyped, in_len
<1>2. in_len \div TRIM_START_STEPS \in Nat /\ in_len \div TMIN_SET_STEPS \in Nat
  BY <1>1, TMinAssumption, Division
<1>3. next_p2(in_len \div TMIN_SET_STEPS) \in Nat
  BY <1>2, PowerAbove
<1>4. TMIN_SET_MIN_SIZE \in Nat
  BY TMinAssumption
<1>5. set_len \in Nat
  BY <1>3, <1>4 DEF set_len, AtLeast
<1> QED
  BY <1>2, <1>5, PowerAbove

LEMMA Rewritten ==
  ASSUME TMinTyped
  PROVE  /\ \A from, n \in Nat : Zeroed(from, n) \in Seq(Nat)
         /\ \A sym : Replaced(sym) \in Seq(Nat)
<1>1. in_len \in Nat /\ \A k \in 1 .. in_len : in_data[k] \in Nat
  BY DEF TMinTyped, in_len
<1>2. Zero \in Nat
  BY TMinAssumption
<1>3. \A f \in [1 .. in_len -> Nat] : f \in Seq(Nat)
  BY <1>1
<1>4. \A from, n \in Nat : Zeroed(from, n) \in [1 .. in_len -> Nat]
  BY <1>1, <1>2 DEF Zeroed
<1>5. \A sym : Replaced(sym) \in [1 .. in_len -> Nat]
  BY <1>1, <1>2 DEF Replaced
<1> QED
  BY <1>3, <1>4, <1>5

LEMMA SameFile ==
  ASSUME in_data' = in_data
  PROVE  in_len' = in_len /\ \A k, n : Without(k, n)' = Without(k, n)
BY DEF in_len, Without, AtMost

-----------------------------------------------------------------------------
(* Each step of afl-tmin.                                                  *)

LEMMA TMinStart == ASSUME NEW on \in BOOLEAN, TMinInit(on) PROVE TMinInv
<1>1. in_data \in Seq(Nat) /\ (~on => in_data = << >>)
  <2>1. << >> \in Seq(Nat)
    OBVIOUS
  <2> QED
    BY <2>1, TMinAssumption DEF TMinInit
<1>2. TMinTyped
  BY <1>1, TMinAssumption DEF TMinInit, TMinTyped
<1>3. Faithful
  BY DEF TMinInit, Faithful
<1>4. ~on => in_len = 0
  BY <1>1 DEF in_len
<1>5. Minimal
  <2>1. (on => stage = "dry run") /\ (~on => stage = "written")
    BY DEF TMinInit
  <2>2. ~on => Tried(in_len)
    BY <1>4 DEF Tried
  <2> QED
    BY <2>1, <2>2 DEF Minimal
<1> QED
  BY <1>2, <1>3, <1>5 DEF TMinInv

LEMMA TMinTypedStep ==
  ASSUME TMinInv, Work \/ HandleStopSig
  PROVE  TMinTyped'
<1>0. TMinTyped
  BY DEF TMinInv
<1>1. CASE DryRun \/ DryRunSilent \/ DryRunHangs
  <2>1. crash_mode' \in BOOLEAN
    BY <1>0, <1>1 DEF TMinTyped, DryRun, DryRunSilent, DryRunHangs, Outcomes
  <2>2. hangs' \in Nat /\ stage' # "delete"
    <3>1. CASE DryRun
      BY <1>0, <3>1 DEF TMinTyped, DryRun
    <3>2. CASE DryRunSilent
      BY <1>0, <3>2 DEF TMinTyped, DryRunSilent
    <3>3. CASE DryRunHangs
      <4>1. hangs \in Nat /\ hangs' = hangs + 1 /\ stage' = "aborted"
        BY <1>0, <3>3 DEF TMinTyped, DryRunHangs, handle_timeout
      <4> QED
        BY <4>1
    <3> QED
      BY <1>1, <3>1, <3>2, <3>3
  <2> QED
    BY <1>0, <1>1, <2>1, <2>2 DEF TMinTyped, DryRun, DryRunSilent, DryRunHangs, loop
<1>2. CASE NormalizeBlock
  <2> DEFINE input == Zeroed(pos, AtMost(in_len - pos, set_len))
  <2>1. in_len \in Nat /\ pos \in Nat /\ set_len \in Nat /\ pos < in_len
    BY <1>0, <1>2, SizesTyped DEF TMinTyped, in_len, NormalizeBlock
  <2>2. AtMost(in_len - pos, set_len) \in Nat
    BY <2>1 DEF AtMost
  <2>3. input \in Seq(Nat)
    BY <1>0, <2>1, <2>2, Rewritten
  <2>4. \/ input = in_data /\ UNCHANGED <<in_data, verdicts>>
        \/ input # in_data /\ Accepted(input) /\ in_data' = input
        \/ input # in_data /\ Refused(input) /\ UNCHANGED in_data
    BY <1>2 DEF NormalizeBlock
  <2> HIDE DEF input
  <2>5. in_data' \in Seq(Nat) /\ hangs' \in Nat
    BY <1>0, <2>3, <2>4, AcceptedRun, RefusedRun DEF TMinTyped, verdicts
  <2>6. pos' \in Nat
    BY <1>2, <2>1 DEF NormalizeBlock
  <2> QED
    BY <1>0, <1>2, <2>5, <2>6 DEF TMinTyped, NormalizeBlock
<1>3. CASE NormalizeDone \/ NextPass
  <2>1. PICK pass : StartPass(pass)
    BY <1>3 DEF NormalizeDone, NextPass
  <2> QED
    BY <1>0, <2>1, SizesTyped DEF TMinTyped, StartPass, FlagAtStart, verdicts
<1>4. CASE SkipBlock
  BY <1>0, <1>4 DEF TMinTyped, SkipBlock, verdicts
<1>5. CASE DeleteBlock
  <2>1. pos \in Nat /\ del_len \in Nat /\ pos < in_len
    BY <1>0, <1>5 DEF TMinTyped, DeleteBlock
  <2>2. Without(pos, del_len) \in Seq(Nat)
    BY <1>0, <2>1, WithoutBlock DEF TMinTyped
  <2>3. hangs' \in Nat
    BY <1>0, <1>5, AcceptedRun DEF DeleteBlock, TMinTyped
  <2> QED
    BY <1>0, <1>5, <2>2, <2>3 DEF TMinTyped, DeleteBlock
<1>6. CASE KeepBlock
  <2>1. hangs' \in Nat
    BY <1>0, <1>6, RefusedRun DEF KeepBlock
  <2>2. pos' \in Nat
    BY <1>0, <1>6 DEF TMinTyped, KeepBlock
  <2>3. prev_del' \in BOOLEAN /\ UNCHANGED <<in_data, crash_mode, exact_mode, changed_any, del_len, stage>>
    BY <1>6 DEF KeepBlock
  <2> QED
    BY <1>0, <2>1, <2>2, <2>3 DEF TMinTyped
<1>7. CASE SmallerBlocks \/ DeletionDone
  <2>1. UNCHANGED <<in_data, crash_mode, exact_mode, changed_any, hangs>>
    BY <1>7 DEF SmallerBlocks, DeletionDone, verdicts
  <2>2. prev_del' \in BOOLEAN /\ pos' = 0
    BY <1>7 DEF SmallerBlocks, DeletionDone
  <2>3. del_len' \in Nat /\ (stage' = "delete" => del_len' # 0)
    BY <1>0, <1>7 DEF TMinTyped, SmallerBlocks, DeletionDone, Smallest
  <2> QED
    BY <1>0, <2>1, <2>2, <2>3 DEF TMinTyped
<1>8. CASE TrySymbol
  <2>1. PICK sym \in symbols :
          \/ /\ Accepted(Replaced(sym))
             /\ in_data' = Replaced(sym) /\ changed_any' = TRUE
          \/ Refused(Replaced(sym)) /\ UNCHANGED <<in_data, changed_any>>
    BY <1>8 DEF TrySymbol
  <2>2. Replaced(sym) \in Seq(Nat)
    BY <1>0, Rewritten
  <2>3. in_data' \in Seq(Nat) /\ changed_any' \in BOOLEAN /\ hangs' \in Nat
    BY <1>0, <2>1, <2>2, AcceptedRun, RefusedRun DEF TMinTyped
  <2> QED
    BY <1>0, <1>8, <2>3 DEF TMinTyped, TrySymbol
<1>9. CASE TryCharacter
  <2> DEFINE input == Zeroed(pos, 1)
  <2>1. pos \in Nat
    BY <1>0 DEF TMinTyped
  <2>2. input \in Seq(Nat)
    BY <1>0, <2>1, Rewritten
  <2>3. \/ input = in_data /\ UNCHANGED <<in_data, changed_any, verdicts>>
        \/ Accepted(input) /\ in_data' = input /\ changed_any' = TRUE
        \/ Refused(input) /\ UNCHANGED <<in_data, changed_any>>
    BY <1>9 DEF TryCharacter
  <2> HIDE DEF input
  <2>4. in_data' \in Seq(Nat) /\ changed_any' \in BOOLEAN /\ hangs' \in Nat
    BY <1>0, <2>2, <2>3, AcceptedRun, RefusedRun DEF TMinTyped, verdicts
  <2> QED
    BY <1>0, <1>9, <2>1, <2>4 DEF TMinTyped, TryCharacter
<1>10. CASE AlphabetDone \/ PassesDone \/ WriteOutput \/ Interrupted \/ HandleStopSig
  BY <1>0, <1>10 DEF TMinTyped, AlphabetDone, PassesDone, WriteOutput, Interrupted,
     HandleStopSig, loop, verdicts
<1> QED
  BY <1>1, <1>2, <1>3, <1>4, <1>5, <1>6, <1>7, <1>8, <1>9, <1>10 DEF Work

LEMMA FaithfulStep ==
  ASSUME TMinInv, Work \/ HandleStopSig
  PROVE  Faithful'
<1>0. TMinTyped /\ Faithful
  BY DEF TMinInv
<1>1. CASE DryRun \/ DryRunSilent \/ DryRunHangs
  BY <1>0, <1>1 DEF Faithful, DryRun, DryRunSilent, DryRunHangs, handle_timeout
(* A step that runs the target.                                            *)
<1>2. ASSUME NEW input, stage \in {"normalize", "delete", "alphabet", "character"},
             stage' = stage, out_file' = out_file,
             \/ Accepted(input) /\ in_data' = input
             \/ Refused(input) /\ in_data' = in_data
             \/ in_data' = in_data /\ good' = good
      PROVE  Faithful'
  <2>1. good # {} /\ in_data \in good /\ out_file = {}
    BY <1>0, <1>2 DEF Faithful
  <2>2. good' # {} /\ in_data' \in good'
    <3>1. CASE Accepted(input) /\ in_data' = input
      BY <1>0, <3>1, AcceptedRun
    <3>2. CASE Refused(input) /\ in_data' = in_data
      <4>1. good \subseteq good'
        BY <1>0, <3>2, RefusedRun
      <4> QED
        BY <2>1, <3>2, <4>1
    <3>3. CASE in_data' = in_data /\ good' = good
      BY <2>1, <3>3
    <3> QED
      BY <1>2, <3>1, <3>2, <3>3
  <2> QED
    BY <1>2, <2>1, <2>2 DEF Faithful
<1>3. CASE NormalizeBlock
  BY <1>2, <1>3 DEF NormalizeBlock, verdicts
<1>4. CASE SkipBlock \/ DeleteBlock \/ KeepBlock
  BY <1>2, <1>4 DEF SkipBlock, DeleteBlock, KeepBlock, verdicts
<1>5. CASE TrySymbol
  BY <1>2, <1>5 DEF TrySymbol
<1>6. CASE TryCharacter
  BY <1>2, <1>6 DEF TryCharacter, verdicts
<1>7. CASE NormalizeDone \/ NextPass \/ SmallerBlocks \/ DeletionDone \/ AlphabetDone
           \/ PassesDone
  BY <1>0, <1>7 DEF Faithful, NormalizeDone, NextPass, SmallerBlocks, DeletionDone,
     AlphabetDone, PassesDone, StartPass, verdicts
<1>8. CASE WriteOutput \/ Interrupted \/ HandleStopSig
  BY <1>0, <1>8 DEF Faithful, WriteOutput, Interrupted, HandleStopSig, write_to_file,
     verdicts
<1> QED
  BY <1>1, <1>3, <1>4, <1>5, <1>6, <1>7, <1>8 DEF Work

LEMMA MinimalStep ==
  ASSUME TMinInv, Work \/ HandleStopSig
  PROVE  Minimal'
<1>0. TMinTyped /\ Minimal
  BY DEF TMinInv
<1>1. in_len \in Nat
  BY <1>0 DEF TMinTyped, in_len
<1>2. CASE DryRun \/ DryRunSilent \/ DryRunHangs \/ NormalizeBlock
  BY <1>2 DEF Minimal, DryRun, DryRunSilent, DryRunHangs, NormalizeBlock
<1>3. CASE NormalizeDone \/ NextPass
  <2>1. stage' = "delete" /\ prev_del' = TRUE /\ pos' = 0
    BY <1>3 DEF NormalizeDone, NextPass, StartPass
  <2> QED
    BY <2>1 DEF Minimal, Tried
<1>4. CASE SkipBlock
  <2>1. /\ stage = "delete" /\ stage' = "delete" /\ pos < in_len /\ SeenBefore
        /\ pos' = pos + del_len /\ in_data' = in_data /\ UNCHANGED <<del_len, prev_del>>
        /\ changed_any' = changed_any /\ bad' = bad /\ hangs' = hangs
    BY <1>4 DEF SkipBlock, verdicts
  <2>2. ~prev_del' /\ pos' >= del_len'
    BY <1>0, <2>1 DEF Minimal, TMinTyped, SeenBefore
  <2>3. ASSUME del_len = 1, ~changed_any PROVE Tried(pos)'
    <3>1. Tried(pos) /\ pos \in Nat \ {0} /\ pos' = pos + 1
      BY <1>0, <2>1, <2>3 DEF Minimal, TMinTyped, SeenBefore
    <3>2. Without(pos - 1, 1) = Without(pos, 1)
      <4>1. /\ BlockAt(pos - 1) = BlockAt(pos)
            /\ BlockAt(pos - 1) = SubSeq(in_data, pos - 1 + 1, pos - 1 + 1)
            /\ BlockAt(pos) = SubSeq(in_data, pos + 1, pos + 1)
        BY <2>1, <2>3 DEF SeenBefore, BlockAt
      <4>2. pos - 1 + 1 = pos /\ pos \in 1 .. Len(in_data) /\ pos + 1 \in 1 .. Len(in_data)
        BY <1>0, <1>1, <2>1, <3>1 DEF in_len
      <4>3. SubSeq(in_data, pos, pos)[1] = in_data[pos]
        BY <1>0, <4>2, ByteAt DEF TMinTyped
      <4>4. SubSeq(in_data, pos + 1, pos + 1)[1] = in_data[pos + 1]
        BY <1>0, <4>2, ByteAt DEF TMinTyped
      <4>5. in_data[pos] = in_data[pos + 1]
        BY <4>1, <4>2, <4>3, <4>4
      <4> QED
        BY <1>0, <2>1, <3>1, <4>5, RepeatedByte DEF TMinTyped
    <3>3. ASSUME hangs = 0, NEW k \in 0 .. pos, k < in_len PROVE Without(k, 1) \in bad
      <4>1. CASE k < pos
        BY <3>1, <3>3, <4>1 DEF Tried
      <4>2. CASE k = pos
        <5>1. pos - 1 \in 0 .. pos - 1 /\ pos - 1 < in_len
          BY <1>1, <2>1, <3>1
        <5> QED
          BY <3>1, <3>2, <3>3, <4>2, <5>1 DEF Tried
      <4> QED
        BY <3>1, <4>1, <4>2
    <3> QED
      BY <2>1, <3>1, <3>3, SameFile DEF Tried
  <2> QED
    BY <2>1, <2>2, <2>3 DEF Minimal
<1>5. CASE DeleteBlock
  <2>1. stage' = "delete" /\ prev_del' = TRUE /\ changed_any' = TRUE
    BY <1>5 DEF DeleteBlock
  <2> QED
    BY <2>1 DEF Minimal
<1>6. CASE KeepBlock
  <2>1. /\ stage = "delete" /\ stage' = "delete" /\ Refused(Without(pos, del_len))
        /\ pos' = pos + del_len /\ in_data' = in_data /\ del_len' = del_len
        /\ changed_any' = changed_any
    BY <1>6 DEF KeepBlock
  <2>2. pos' >= del_len'
    BY <1>0, <2>1 DEF TMinTyped
  <2>3. bad \subseteq bad' /\ (hangs' = 0 => Without(pos, del_len) \in bad' /\ hangs = 0)
    BY <1>0, <2>1, RefusedRun
  <2>4. ASSUME del_len = 1, ~changed_any PROVE Tried(pos)'
    <3>1. Tried(pos) /\ pos \in Nat /\ pos' = pos + 1
      BY <1>0, <2>1, <2>4 DEF Minimal, TMinTyped
    <3>2. ASSUME hangs' = 0, NEW k \in 0 .. pos, k < in_len PROVE Without(k, 1) \in bad'
      <4>1. CASE k < pos
        BY <2>3, <3>1, <3>2, <4>1 DEF Tried
      <4>2. CASE k = pos
        BY <2>3, <2>4, <3>2, <4>2
      <4> QED
        BY <3>1, <4>1, <4>2
    <3> QED
      BY <2>1, <3>1, <3>2, SameFile DEF Tried
  <2> QED
    BY <2>1, <2>2, <2>4 DEF Minimal
<1>7. CASE SmallerBlocks
  <2>1. stage' = "delete" /\ prev_del' = TRUE /\ pos' = 0
    BY <1>7 DEF SmallerBlocks
  <2> QED
    BY <2>1 DEF Minimal, Tried
(* The steps after the last round of deletions keep file and verdicts.     *)
<1>8. CASE DeletionDone
  <2>1. /\ stage = "delete" /\ pos >= in_len /\ (del_len <= 1 \/ in_len < 1)
        /\ in_data' = in_data /\ bad' = bad /\ hangs' = hangs /\ changed_any' = changed_any
        /\ IF cur_pass > 1 /\ ~changed_any THEN stage' = "write" ELSE stage' = "alphabet"
    BY <1>8 DEF DeletionDone, Smallest, verdicts
  <2>2. ~changed_any => Tried(in_len)
    <3>1. CASE in_len < 1
      BY <1>1, <3>1 DEF Tried
    <3>2. CASE del_len = 1
      BY <1>0, <1>1, <2>1, <3>2 DEF Minimal, Tried, TMinTyped
    <3> QED
      BY <1>0, <2>1, <3>1, <3>2 DEF TMinTyped
  <2>3. ~changed_any => Tried(in_len)'
    BY <2>1, <2>2, SameFile DEF Tried
  <2> QED
    BY <2>1, <2>3 DEF Minimal
<1>9. CASE TrySymbol
  <2>1. PICK sym \in symbols :
          \/ changed_any' = TRUE
          \/ Refused(Replaced(sym)) /\ UNCHANGED <<in_data, changed_any>>
    BY <1>9 DEF TrySymbol
  <2>2. stage = "alphabet" /\ stage' = "alphabet"
    BY <1>9 DEF TrySymbol
  <2>3. ASSUME ~changed_any' PROVE Tried(in_len)'
    <3>1. /\ in_data' = in_data /\ Tried(in_len) /\ bad \subseteq bad'
          /\ hangs' = 0 => hangs = 0
      BY <1>0, <2>1, <2>2, <2>3, RefusedRun DEF Minimal
    <3> QED
      BY <3>1, SameFile DEF Tried
  <2> QED
    BY <2>2, <2>3 DEF Minimal
<1>10. CASE TryCharacter
  <2>1. stage = "character" /\ stage' = "character"
    BY <1>10 DEF TryCharacter
  <2>2. \/ changed_any' = TRUE
        \/ /\ Refused(Zeroed(pos, 1)) \/ UNCHANGED verdicts
           /\ UNCHANGED <<in_data, changed_any>>
    BY <1>10 DEF TryCharacter
  <2>3. ASSUME ~changed_any' PROVE Tried(in_len)'
    <3>1. /\ in_data' = in_data /\ Tried(in_len) /\ bad \subseteq bad'
          /\ hangs' = 0 => hangs = 0
      BY <1>0, <2>1, <2>2, <2>3, RefusedRun DEF Minimal, verdicts
    <3> QED
      BY <3>1, SameFile DEF Tried
  <2> QED
    BY <2>1, <2>3 DEF Minimal
<1>11. CASE AlphabetDone \/ PassesDone \/ WriteOutput
  <2>1. /\ in_data' = in_data /\ bad' = bad /\ hangs' = hangs /\ changed_any' = changed_any
        /\ \/ stage = "alphabet" /\ stage' = "character"
           \/ stage = "character" /\ ~changed_any /\ stage' = "write"
           \/ stage = "write" /\ stage' = "written"
    BY <1>11 DEF AlphabetDone, PassesDone, WriteOutput, verdicts
  <2>2. Tried(in_len) => Tried(in_len)'
    BY <2>1, SameFile DEF Tried
  <2> QED
    BY <1>0, <2>1, <2>2 DEF Minimal
<1>12. CASE Interrupted
  BY <1>12 DEF Minimal, Interrupted
<1>13. CASE HandleStopSig
  <2>1. /\ in_data' = in_data /\ bad' = bad /\ hangs' = hangs /\ changed_any' = changed_any
        /\ UNCHANGED <<stage, pos, del_len, prev_del>>
    BY <1>13 DEF HandleStopSig, loop, verdicts
  <2>2. (Tried(in_len) => Tried(in_len)') /\ (Tried(pos) => Tried(pos)')
    BY <2>1, SameFile DEF Tried
  <2> QED
    BY <1>0, <2>1, <2>2 DEF Minimal
<1> QED
  BY <1>2, <1>3, <1>4, <1>5, <1>6, <1>7, <1>8, <1>9, <1>10, <1>11, <1>12, <1>13 DEF Work

LEMMA TMinStay ==
  ASSUME TMinInv, UNCHANGED tminVars
  PROVE  TMinInv'
<1>1. TMinTyped' /\ Faithful'
  BY DEF TMinInv, TMinTyped, Faithful, tminVars, loop, verdicts
<1>2. /\ in_data' = in_data /\ bad' = bad /\ hangs' = hangs
      /\ UNCHANGED <<stage, pos, del_len, prev_del, changed_any>>
  BY DEF tminVars, loop, verdicts
<1>3. (Tried(in_len) => Tried(in_len)') /\ (Tried(pos) => Tried(pos)')
  BY <1>2, SameFile DEF Tried
<1>4. Minimal'
  BY <1>2, <1>3 DEF TMinInv, Minimal
<1> QED
  BY <1>1, <1>4 DEF TMinInv

-----------------------------------------------------------------------------
(* The dictionaries.                                                       *)

AutoToken == [token : Token, hit_cnt : Nat]

DictTyped ==
  /\ given \in Seq(Token) /\ saved \in Seq(Token) /\ moved \in Seq(Token)
  /\ a_extras \in Seq(AutoToken)
  /\ begun \in BOOLEAN /\ resumes \in BOOLEAN /\ resumeDir \in BOOLEAN
  /\ auto_changed \in BOOLEAN /\ cut \in BOOLEAN
  /\ at \in Nat \ {0}
  /\ step \in {"off", "down", "load", "extras", "dry_run", "save", "fuzz"}

(* The files of a directory: tokens that were given, or none yet.          *)
Wholesome(files) ==
  /\ Len(files) <= USE_AUTO_EXTRAS
  /\ \A i \in DOMAIN files : files[i] \in Usable \cup {Empty}

(* A list of tokens: each of them given, in one spelling.                  *)
Distinct(list) ==
  \A i, j \in DOMAIN list : Matches(list[i].token, list[j].token) => i = j
Clean(list) ==
  /\ Len(list) <= USE_AUTO_EXTRAS
  /\ \A i \in DOMAIN list : list[i].token \in Usable
  /\ Distinct(list)

KnownIn(list, t) == \E i \in DOMAIN list : Matches(list[i].token, t)
Covered == \A t \in Usable : KnownIn(a_extras, t)
Covers(files) == \A t \in Usable : \E i \in DOMAIN files : Matches(files[i], t)

(* load_auto has read the files before this one.                           *)
Loading ==
  step = "load" =>
    /\ begun = resumes /\ resumeDir = resumes
    /\ extras = <<>> /\ saved = <<>>
    /\ Len(a_extras) < at
    /\ \A k \in 1 .. at - 1 :
         k \in DOMAIN Files /\ Files[k] \in Usable => KnownIn(a_extras, Files[k])
    /\ resumes /\ ~cut => Covers(moved)

Starting ==
  step \in {"extras", "dry_run"} => ~resumeDir /\ saved = <<>> /\ (~cut => Covered)

Changed == step \in {"load", "extras", "dry_run"} => (auto_changed <=> a_extras # <<>>)

(* save_auto has written the files before this one.                        *)
Saving ==
  step = "save" =>
    /\ begun /\ ~resumeDir
    /\ at <= Len(a_extras) + 1
    /\ Len(saved) = at - 1 \/ (Len(saved) = at /\ at <= Len(a_extras))
    /\ \A k \in 1 .. at - 1 : saved[k] = a_extras[k].token
    /\ ~cut => Covered

Fuzzing ==
  step = "fuzz" =>
    /\ begun /\ ~resumeDir
    /\ saved = [i \in DOMAIN a_extras |-> a_extras[i].token]
    /\ ~cut => Covered

(* Between two sessions the tokens are in the directory that the next one  *)
(* will read.                                                              *)
Between ==
  step = "down" /\ begun /\ ~cut => IF resumeDir THEN Covers(moved) ELSE Covers(saved)

DictInv ==
  /\ DictTyped
  /\ resumeDir => begun
  /\ Wholesome(saved) /\ Wholesome(moved) /\ Clean(a_extras)
  /\ Loading /\ Starting /\ Changed /\ Saving /\ Fuzzing /\ Between

(* What qsort does to a list: it takes the places in another order.        *)
Reorders(r, q, p) ==
  /\ r \in Seq(AutoToken) /\ Len(r) = Len(q)
  /\ p \in [1 .. Len(q) -> 1 .. Len(q)]
  /\ \A i, j \in 1 .. Len(q) : p[i] = p[j] => i = j
  /\ \A j \in 1 .. Len(q) : \E i \in 1 .. Len(q) : p[i] = j
  /\ \A i \in 1 .. Len(q) : r[i] = q[p[i]]
Reordered(r, q) == \E p : Reorders(r, q, p)

LEMMA OrdersReorder ==
  ASSUME NEW q \in Seq(AutoToken), NEW key, NEW r \in Orders(q, key)
  PROVE  Reordered(r, q)
<1>0. DOMAIN q = 1 .. Len(q) /\ Len(q) \in Nat
  OBVIOUS
<1>1. PICK p \in Bijection(1 .. Len(q), 1 .. Len(q)) : r = [i \in 1 .. Len(q) |-> q[p[i]]]
  BY <1>0 DEF Orders
<1>2. /\ p \in [1 .. Len(q) -> 1 .. Len(q)]
      /\ \A i, j \in 1 .. Len(q) : p[i] = p[j] => i = j
      /\ \A j \in 1 .. Len(q) : \E i \in 1 .. Len(q) : p[i] = j
  BY DEF Bijection, Injection, IsInjective, Surjection
<1>3. ASSUME NEW i \in 1 .. Len(q) PROVE q[p[i]] \in AutoToken
  <2>1. p[i] \in 1 .. Len(q)
    BY <1>2
  <2> QED
    BY <2>1
<1>4. r \in Seq(AutoToken) /\ Len(r) = Len(q)
  BY <1>0, <1>1, <1>3
<1> QED
  BY <1>1, <1>2, <1>4 DEF Reordered, Reorders

LEMMA ReorderedAgain ==
  ASSUME NEW q, NEW s, NEW r, Reordered(s, q), Reordered(r, s)
  PROVE  Reordered(r, q)
<1>1. PICK p1 : Reorders(s, q, p1)
  BY DEF Reordered
<1>2. PICK p2 : Reorders(r, s, p2)
  BY DEF Reordered
<1> DEFINE n == Len(q)
           p == [i \in 1 .. n |-> p1[p2[i]]]
<1>3. /\ p1 \in [1 .. n -> 1 .. n] /\ \A i, j \in 1 .. n : p1[i] = p1[j] => i = j
      /\ \A j \in 1 .. n : \E i \in 1 .. n : p1[i] = j
      /\ \A i \in 1 .. n : s[i] = q[p1[i]] /\ Len(s) = n
  BY <1>1 DEF Reorders
<1>4. /\ p2 \in [1 .. n -> 1 .. n] /\ \A i, j \in 1 .. n : p2[i] = p2[j] => i = j
      /\ \A j \in 1 .. n : \E i \in 1 .. n : p2[i] = j
      /\ r \in Seq(AutoToken) /\ Len(r) = n /\ \A i \in 1 .. n : r[i] = s[p2[i]]
  BY <1>1, <1>2 DEF Reorders
<1> HIDE DEF n
<1>5. p \in [1 .. n -> 1 .. n] /\ \A i \in 1 .. n : p[i] = p1[p2[i]] /\ p2[i] \in 1 .. n
  BY <1>3, <1>4
<1> HIDE DEF p
<1>6. ASSUME NEW i \in 1 .. n, NEW j \in 1 .. n, p[i] = p[j] PROVE i = j
  <2>1. p2[i] \in 1 .. n /\ p2[j] \in 1 .. n /\ p1[p2[i]] = p1[p2[j]]
    BY <1>5, <1>6
  <2>2. p2[i] = p2[j]
    BY <1>3, <2>1
  <2> QED
    BY <1>4, <2>2
<1>7. ASSUME NEW j \in 1 .. n PROVE \E i \in 1 .. n : p[i] = j
  <2>1. PICK k \in 1 .. n : p1[k] = j
    BY <1>3
  <2>2. PICK i \in 1 .. n : p2[i] = k
    BY <1>4
  <2> QED
    BY <1>5, <2>1, <2>2
<1>8. ASSUME NEW i \in 1 .. n PROVE r[i] = q[p[i]]
  <2>1. p2[i] \in 1 .. n /\ p[i] = p1[p2[i]] /\ r[i] = s[p2[i]]
    BY <1>4, <1>5
  <2> QED
    BY <1>3, <2>1
<1>9. Reorders(r, q, p)
  BY <1>4, <1>5, <1>6, <1>7, <1>8 DEF Reorders, n
<1> QED
  BY <1>9 DEF Reordered

(* Another order of the first n places only.                               *)
LEMMA ReorderedFirst ==
  ASSUME NEW s \in Seq(AutoToken), NEW n \in 0 .. Len(s), NEW r, Reordered(r, SubSeq(s, 1, n))
  PROVE  Reordered(r \o SubSeq(s, Len(r) + 1, Len(s)), s)
<1> DEFINE m    == Len(s)
           rest == SubSeq(s, n + 1, m)
           out  == r \o rest
<1>0. m \in Nat /\ n \in Nat /\ n <= m /\ \A i \in 1 .. m : s[i] \in AutoToken
  OBVIOUS
<1>1. /\ SubSeq(s, 1, n) \in Seq(AutoToken) /\ Len(SubSeq(s, 1, n)) = n
      /\ \A i \in 1 .. n : SubSeq(s, 1, n)[i] = s[i]
  <2>1. \A i \in 1 .. n : s[i] \in AutoToken
    BY <1>0
  <2>2. /\ SubSeq(s, 1, n) \in Seq(AutoToken)
        /\ Len(SubSeq(s, 1, n)) = IF 1 <= n THEN n - 1 + 1 ELSE 0
        /\ \A i \in 1 .. n - 1 + 1 : SubSeq(s, 1, n)[i] = s[1 + i - 1]
    BY <1>0, <2>1, SubSeqProperties
  <2> QED
    BY <1>0, <2>2
<1>2. /\ rest \in Seq(AutoToken) /\ Len(rest) = m - n
      /\ \A i \in 1 .. m - n : rest[i] = s[n + i]
  <2>1. \A i \in n + 1 .. m : s[i] \in AutoToken
    BY <1>0
  <2>2. /\ rest \in Seq(AutoToken)
        /\ Len(rest) = IF n + 1 <= m THEN m - (n + 1) + 1 ELSE 0
        /\ \A i \in 1 .. m - (n + 1) + 1 : rest[i] = s[(n + 1) + i - 1]
    BY <1>0, <2>1, SubSeqProperties
  <2> QED
    BY <1>0, <2>2
<1>3. PICK p0 : Reorders(r, SubSeq(s, 1, n), p0)
  BY DEF Reordered
<1>4. /\ r \in Seq(AutoToken) /\ Len(r) = n /\ p0 \in [1 .. n -> 1 .. n]
      /\ \A i, j \in 1 .. n : p0[i] = p0[j] => i = j
      /\ \A j \in 1 .. n : \E i \in 1 .. n : p0[i] = j
      /\ \A i \in 1 .. n : r[i] = s[p0[i]]
  BY <1>1, <1>3 DEF Reorders
<1> HIDE DEF rest, m
<1>5. /\ out \in Seq(AutoToken) /\ Len(out) = m
      /\ \A i \in 1 .. m : out[i] = IF i <= n THEN r[i] ELSE rest[i - n]
  <2>1. /\ out \in Seq(AutoToken) /\ Len(out) = n + (m - n)
        /\ \A i \in 1 .. n + (m - n) : out[i] = IF i <= n THEN r[i] ELSE rest[i - n]
    <3>1. r \in Seq(AutoToken) /\ rest \in Seq(AutoToken) /\ Len(r) = n /\ Len(rest) = m - n
      BY <1>2, <1>4
    <3>2. /\ r \o rest \in Seq(AutoToken) /\ Len(r \o rest) = Len(r) + Len(rest)
          /\ \A i \in 1 .. Len(r) + Len(rest) : (r \o rest)[i] =
               IF i <= Len(r) THEN r[i] ELSE rest[i - Len(r)]
      BY <3>1, ConcatProperties, Zenon
    <3> QED
      BY <3>1, <3>2
  <2> QED
    BY <1>0, <2>1
<1> DEFINE p == [i \in 1 .. m |-> IF i <= n THEN p0[i] ELSE i]
<1>6. \A i \in 1 .. m : IF i <= n THEN p[i] = p0[i] /\ p[i] \in 1 .. n ELSE p[i] = i
  BY <1>0, <1>4
<1>7. p \in [1 .. m -> 1 .. m]
  BY <1>0, <1>4
<1> HIDE DEF p, out
<1>8. ASSUME NEW i \in 1 .. m, NEW j \in 1 .. m, p[i] = p[j] PROVE i = j
  <2>1. CASE i <= n /\ j <= n
    <3>1. i \in 1 .. n /\ j \in 1 .. n /\ p0[i] = p0[j]
      BY <1>0, <1>6, <1>8, <2>1
    <3> QED
      BY <1>4, <3>1
  <2>2. CASE i <= n /\ ~(j <= n)
    <3>1. p[i] \in 1 .. n /\ p[j] = j
      BY <1>6, <2>2
    <3> QED
      BY <1>0, <1>8, <2>2, <3>1
  <2>3. CASE ~(i <= n) /\ j <= n
    <3>1. p[j] \in 1 .. n /\ p[i] = i
      BY <1>6, <2>3
    <3> QED
      BY <1>0, <1>8, <2>3, <3>1
  <2>4. CASE ~(i <= n) /\ ~(j <= n)
    BY <1>6, <1>8, <2>4
  <2> QED
    BY <2>1, <2>2, <2>3, <2>4
<1>9. ASSUME NEW j \in 1 .. m PROVE \E i \in 1 .. m : p[i] = j
  <2>1. CASE j <= n
    <3>1. j \in 1 .. n
      BY <1>0, <2>1
    <3>2. PICK i \in 1 .. n : p0[i] = j
      BY <1>4, <3>1
    <3>3. i \in 1 .. m /\ i <= n
      BY <1>0
    <3> QED
      BY <1>6, <3>2, <3>3
  <2>2. CASE ~(j <= n)
    BY <1>6, <2>2
  <2> QED
    BY <2>1, <2>2
<1>10. ASSUME NEW i \in 1 .. m PROVE out[i] = s[p[i]]
  <2>1. CASE i <= n
    <3>1. i \in 1 .. n /\ p[i] = p0[i] /\ out[i] = r[i]
      BY <1>0, <1>5, <1>6, <2>1
    <3> QED
      BY <1>4, <3>1
  <2>2. CASE ~(i <= n)
    <3>1. i - n \in 1 .. m - n /\ n + (i - n) = i
      BY <1>0, <2>2
    <3> QED
      BY <1>2, <1>5, <1>6, <2>2, <3>1
  <2> QED
    BY <2>1, <2>2
<1>11. Reorders(out, s, p)
  BY <1>5, <1>7, <1>8, <1>9, <1>10 DEF Reorders, m
<1>12. r \o SubSeq(s, Len(r) + 1, Len(s)) = out
  BY <1>4 DEF out, rest, m
<1> QED
  BY <1>11, <1>12 DEF Reordered

LEMMA ArrangedReorders ==
  ASSUME NEW q \in Seq(AutoToken), NEW r \in Arranged(q)
  PROVE  Reordered(r, q)
<1>0. PICK s \in ByUse(q) :
        \E r1 \in BySize(SubSeq(s, 1, UpTo(Len(s), USE_AUTO_EXTRAS))) :
          r = r1 \o SubSeq(s, Len(r1) + 1, Len(s))
  BY DEF Arranged
<1>1. PICK r1 \in BySize(SubSeq(s, 1, UpTo(Len(s), USE_AUTO_EXTRAS))) :
        r = r1 \o SubSeq(s, Len(r1) + 1, Len(s))
  BY <1>0
<1>2. Reordered(s, q) /\ s \in Seq(AutoToken)
  <2>1. Reordered(s, q)
    BY OrdersReorder DEF ByUse
  <2> QED
    BY <2>1 DEF Reordered, Reorders
<1> DEFINE n == UpTo(Len(s), USE_AUTO_EXTRAS)
<1>3. n \in 0 .. Len(s)
  BY <1>2, DictionaryAssumption DEF UpTo
<1> HIDE DEF n
<1>4. SubSeq(s, 1, n) \in Seq(AutoToken)
  BY <1>2, <1>3
<1>5. Reordered(r1, SubSeq(s, 1, n))
  BY <1>1, <1>4, OrdersReorder DEF BySize, n
<1>6. Reordered(r, s)
  BY <1>1, <1>2, <1>3, <1>5, ReorderedFirst
<1> QED
  BY <1>2, <1>6, ReorderedAgain

(* The order of a list is of no matter.                                    *)
LEMMA ReorderedKeeps ==
  ASSUME NEW q \in Seq(AutoToken), NEW r, Reordered(r, q), Clean(q)
  PROVE  /\ r \in Seq(AutoToken) /\ Len(r) = Len(q) /\ Clean(r)
         /\ \A t : KnownIn(q, t) => KnownIn(r, t)
<1>1. PICK p : Reorders(r, q, p)
  BY DEF Reordered
<1> DEFINE n == Len(q)
<1>2. DOMAIN q = 1 .. n /\ DOMAIN r = 1 .. n /\ r \in Seq(AutoToken) /\ Len(r) = n
  BY <1>1 DEF Reorders
<1>3. /\ p \in [1 .. n -> 1 .. n] /\ \A i, j \in 1 .. n : p[i] = p[j] => i = j
      /\ \A j \in 1 .. n : \E i \in 1 .. n : p[i] = j
      /\ \A i \in 1 .. n : r[i] = q[p[i]]
  BY <1>1 DEF Reorders
<1> HIDE DEF n
<1>4. \A i \in 1 .. n : r[i].token \in Usable
  BY <1>2, <1>3 DEF Clean
<1>5. ASSUME NEW i \in 1 .. n, NEW j \in 1 .. n, Matches(r[i].token, r[j].token) PROVE i = j
  <2>1. p[i] \in 1 .. n /\ p[j] \in 1 .. n /\ Matches(q[p[i]].token, q[p[j]].token)
    BY <1>3, <1>5
  <2>2. p[i] = p[j]
    BY <1>2, <2>1 DEF Clean, Distinct
  <2> QED
    BY <1>3, <2>2
<1>6. ASSUME NEW t, KnownIn(q, t) PROVE KnownIn(r, t)
  <2>1. PICK j \in 1 .. n : Matches(q[j].token, t)
    BY <1>2, <1>6 DEF KnownIn
  <2>2. PICK i \in 1 .. n : p[i] = j
    BY <1>3
  <2> QED
    BY <1>2, <1>3, <2>1, <2>2 DEF KnownIn
<1> QED
  BY <1>2, <1>4, <1>5, <1>6 DEF Clean, Distinct, n

LEMMA UsableTyped ==
  ASSUME DictTyped
  PROVE  /\ \A t \in Usable : t \in Token /\ Fits(t) /\ t \notin Dull
         /\ Empty \notin Usable /\ \A t \in Usable : ~Matches(Empty, t)
         /\ \A i \in 1 .. UpTo(Len(given), USE_AUTO_EXTRAS) :
              i \in DOMAIN given /\ (Fits(given[i]) /\ given[i] \notin Dull => given[i] \in Usable)
<1>1. given \in Seq(Token)
  BY DEF DictTyped
<1>2. \A i \in 1 .. UpTo(Len(given), USE_AUTO_EXTRAS) : i \in DOMAIN given /\ given[i] \in Token
  BY <1>1, DictionaryAssumption DEF UpTo
<1>3. \A t \in Usable : t \in Token /\ Fits(t) /\ t \notin Dull
  BY <1>2 DEF Usable
<1>4. ~Fits(Empty)
  BY DictionaryAssumption DEF Fits, Size, Empty
<1>5. \A t \in Usable : Size(t) # 0
  BY <1>3, DictionaryAssumption DEF Fits
<1>6. \A t \in Usable : ~Matches(Empty, t)
  BY <1>5 DEF Matches, Size, Empty
<1> QED
  BY <1>2, <1>3, <1>4, <1>6 DEF Usable

LEMMA DictStart == ASSUME NEW on \in BOOLEAN, DictInit(on) PROVE DictInv
<1>1. given \in Seq(Token)
  <2>1. << >> \in Seq(Token)
    OBVIOUS
  <2>2. given \in Given \/ given = <<>>
    BY DEF DictInit
  <2> QED
    BY <2>1, <2>2, DictionaryAssumption
<1>2. DictTyped
  <2>1. << >> \in Seq(Token) /\ << >> \in Seq(AutoToken)
    OBVIOUS
  <2>2. step \in {"off", "down"} /\ at = 1
    BY DEF DictInit
  <2>3. saved = <<>> /\ moved = <<>> /\ a_extras = <<>>
    BY DEF DictInit
  <2>4. /\ begun \in BOOLEAN /\ resumes \in BOOLEAN /\ resumeDir \in BOOLEAN
        /\ auto_changed \in BOOLEAN /\ cut \in BOOLEAN
    BY DEF DictInit
  <2> QED
    <3>1. /\ step \in {"off", "down", "load", "extras", "dry_run", "save", "fuzz"}
          /\ at \in Nat \ {0}
      BY <2>2
    <3>2. saved \in Seq(Token) /\ moved \in Seq(Token) /\ a_extras \in Seq(AutoToken)
      BY <2>1, <2>3
    <3> QED
      BY <1>1, <2>4, <3>1, <3>2 DEF DictTyped
<1>3. Wholesome(<<>>) /\ Clean(<<>>)
  BY DictionaryAssumption DEF Wholesome, Clean, Distinct
<1>4. Loading /\ Starting /\ Changed /\ Saving /\ Fuzzing /\ Between
  BY DEF DictInit, Loading, Starting, Changed, Saving, Fuzzing, Between
<1> QED
  BY <1>2, <1>3, <1>4 DEF DictInit, DictInv

(* A token is added, or known better.                                      *)
LEMMA AddedKeeps ==
  ASSUME DictTyped, Clean(a_extras), extras = <<>>, NEW t \in Token,
         t \notin Dull => t \in Usable, Len(a_extras) < USE_AUTO_EXTRAS,
         auto_changed <=> a_extras # <<>>, maybe_add_auto(t)
  PROVE  /\ a_extras' \in Seq(AutoToken) /\ Clean(a_extras') /\ Len(a_extras') <= Len(a_extras) + 1
         /\ auto_changed' \in BOOLEAN /\ (auto_changed' <=> a_extras' # <<>>)
         /\ \A u : KnownIn(a_extras, u) => KnownIn(a_extras', u)
         /\ t \in Usable => KnownIn(a_extras', t)
<1> DEFINE n == Len(a_extras)
<1>0. a_extras \in Seq(AutoToken) /\ n \in Nat /\ DOMAIN a_extras = 1 .. n /\ auto_changed \in BOOLEAN
      /\ \A i \in 1 .. n : a_extras[i] \in AutoToken
  <2>1. a_extras \in Seq(AutoToken) /\ auto_changed \in BOOLEAN
    BY DEF DictTyped
  <2>2. n \in Nat /\ DOMAIN a_extras = 1 .. n
    BY <2>1
  <2>3. ASSUME NEW i \in 1 .. n PROVE a_extras[i] \in AutoToken
    BY <2>1, <2>3
  <2> QED
    BY <2>1, <2>2, <2>3
<1>1. Unwanted(t) <=> t \in Dull
  BY DEF Unwanted
<1>2. CASE Unwanted(t)
  <2>1. UNCHANGED <<a_extras, auto_changed>>
    BY <1>2 DEF maybe_add_auto
  <2>2. t \notin Usable
    BY <1>1, <1>2 DEF Usable
  <2>3. a_extras' = a_extras /\ auto_changed' = auto_changed
    BY <2>1
  <2> QED
    BY <1>0, <2>2, <2>3
<1>3. CASE ~Unwanted(t)
  <2> DEFINE bumped == [i \in 1 .. n |->
                          IF i \in Known(t) THEN [a_extras[i] EXCEPT !.hit_cnt = @ + 1]
                          ELSE a_extras[i]]
             longer == Append(a_extras, [token |-> t, hit_cnt |-> 0])
             q == IF Known(t) # {} THEN bumped ELSE longer
  <2>1. auto_changed' = TRUE /\ a_extras' \in Arranged(q)
    BY <1>0, <1>3 DEF maybe_add_auto
  <2>2. t \in Usable
    BY <1>1, <1>3
  <2>3. /\ q \in Seq(AutoToken) /\ Len(q) <= n + 1 /\ Len(q) # 0 /\ Clean(q) /\ KnownIn(q, t)
        /\ \A u : KnownIn(a_extras, u) => KnownIn(q, u)
    <3>1. CASE Known(t) # {}
      <4>1. \A i \in 1 .. n : bumped[i] \in AutoToken /\ bumped[i].token = a_extras[i].token
        BY <1>0 DEF AutoToken
      <4>2. bumped \in Seq(AutoToken) /\ Len(bumped) = n /\ DOMAIN bumped = 1 .. n
        BY <1>0, <4>1
      <4> HIDE DEF bumped, n
      <4>3. Clean(bumped)
        BY <1>0, <4>1, <4>2 DEF Clean, Distinct, n
      <4>4. PICK j \in 1 .. n : Matches(a_extras[j].token, t)
        BY <1>0, <3>1 DEF Known
      <4>5. \A u : KnownIn(a_extras, u) => KnownIn(bumped, u)
        BY <1>0, <4>1, <4>2 DEF KnownIn
      <4>6. KnownIn(bumped, t)
        BY <4>1, <4>2, <4>4 DEF KnownIn
      <4>7. n # 0
        BY <4>4
      <4> QED
        BY <1>0, <3>1, <4>2, <4>3, <4>5, <4>6, <4>7
    <3>2. CASE Known(t) = {}
      <4> DEFINE new == [token |-> t, hit_cnt |-> 0]
      <4>1. new \in AutoToken /\ new.token = t
        BY DEF AutoToken
      <4> HIDE DEF new
      <4>2. /\ longer \in Seq(AutoToken) /\ Len(longer) = n + 1 /\ DOMAIN longer = 1 .. n + 1
            /\ longer[n + 1] = new /\ \A i \in 1 .. n : longer[i] = a_extras[i]
        BY <1>0, <4>1, AppendProperties DEF new
      <4> HIDE DEF longer
      <4>3. \A i \in 1 .. n : ~Matches(a_extras[i].token, t)
        BY <1>0, <3>2 DEF Known
      <4>4. \A i \in 1 .. n + 1 : i \in 1 .. n \/ i = n + 1
        BY <1>0
      <4>5. \A i \in 1 .. n + 1 : longer[i].token \in Usable
        BY <1>0, <2>2, <4>1, <4>2, <4>4 DEF Clean
      <4>6. Distinct(longer)
        <5>1. \A i, j \in 1 .. n : Matches(a_extras[i].token, a_extras[j].token) => i = j
          BY <1>0 DEF Clean, Distinct
        <5>2. \A i \in 1 .. n : ~Matches(t, a_extras[i].token)
          BY <4>3 DEF Matches
        <5>3. ASSUME NEW i \in 1 .. n + 1, NEW j \in 1 .. n + 1,
                     Matches(longer[i].token, longer[j].token)
              PROVE  i = j
          BY <4>1, <4>2, <4>3, <4>4, <5>1, <5>2, <5>3
        <5> QED
          BY <4>2, <5>3 DEF Distinct
      <4>7. \A u : KnownIn(a_extras, u) => KnownIn(longer, u)
        <5>1. \A i \in 1 .. n : i \in 1 .. n + 1
          BY <1>0
        <5> QED
          BY <1>0, <4>2, <5>1 DEF KnownIn
      <4>8. KnownIn(longer, t)
        <5>1. n + 1 \in DOMAIN longer /\ Matches(longer[n + 1].token, t)
          BY <1>0, <4>1, <4>2 DEF Matches
        <5> QED
          BY <5>1 DEF KnownIn
      <4>9. Clean(longer)
        BY <1>0, <4>2, <4>5, <4>6, DictionaryAssumption DEF Clean
      <4> QED
        BY <1>0, <3>2, <4>2, <4>7, <4>8, <4>9
    <3> QED
      BY <3>1, <3>2
  <2> HIDE DEF q
  <2>4. /\ a_extras' \in Seq(AutoToken) /\ Len(a_extras') = Len(q) /\ Clean(a_extras')
        /\ \A u : KnownIn(q, u) => KnownIn(a_extras', u)
    BY <2>1, <2>3, ArrangedReorders, ReorderedKeeps
  <2>5. a_extras' # <<>>
    BY <2>3, <2>4
  <2> QED
    BY <1>0, <2>1, <2>3, <2>4, <2>5
<1> QED
  BY <1>2, <1>3

LEMMA LoadFileKeeps == ASSUME DictInv, LoadFile PROVE DictInv'
<1> DEFINE t == Files[at]
<1>1. /\ DictTyped /\ (resumeDir => begun) /\ Wholesome(saved) /\ Wholesome(moved)
      /\ Clean(a_extras) /\ Loading /\ Changed
  BY DEF DictInv
<1>2. /\ step = "load" /\ at <= UpTo(Len(Files), USE_AUTO_EXTRAS) /\ at' = at + 1
      /\ UNCHANGED <<given, saved, moved, resumeDir, begun, resumes, extras, step, sessions, cut>>
  BY DEF LoadFile, disk
<1>3. /\ begun = resumes /\ resumeDir = resumes /\ extras = <<>> /\ saved = <<>>
      /\ Len(a_extras) < at /\ (resumes /\ ~cut => Covers(moved))
      /\ \A k \in 1 .. at - 1 :
           k \in DOMAIN Files /\ Files[k] \in Usable => KnownIn(a_extras, Files[k])
      /\ (auto_changed <=> a_extras # <<>>)
  BY <1>1, <1>2 DEF Loading, Changed
<1>4. /\ at \in Nat \ {0} /\ Files \in Seq(Token) /\ at \in DOMAIN Files /\ t \in Token
      /\ at <= USE_AUTO_EXTRAS /\ at \in 1 .. UpTo(Len(Files), USE_AUTO_EXTRAS)
      /\ Len(a_extras) \in Nat
  BY <1>1, <1>2, DictionaryAssumption DEF DictTyped, Files, UpTo
<1>5. Fits(t) /\ t \notin Dull => t \in Usable
  <2>1. CASE resumes
    <3>1. t \in Usable \cup {Empty}
      BY <1>1, <1>4, <2>1 DEF Wholesome, Files
    <3>2. ~Fits(Empty)
      BY DictionaryAssumption DEF Fits, Size, Empty
    <3> QED
      BY <3>1, <3>2
  <2>2. CASE ~resumes
    BY <1>1, <1>4, <2>2, UsableTyped DEF Files
  <2> QED
    BY <2>1, <2>2
<1>6. t \in Usable => Fits(t)
  BY DEF Usable
<1>7. /\ a_extras' \in Seq(AutoToken) /\ Clean(a_extras') /\ Len(a_extras') <= Len(a_extras) + 1
      /\ auto_changed' \in BOOLEAN /\ (auto_changed' <=> a_extras' # <<>>)
      /\ \A u : KnownIn(a_extras, u) => KnownIn(a_extras', u)
      /\ t \in Usable => KnownIn(a_extras', t)
  <2>1. CASE Fits(t)
    <3>1. maybe_add_auto(t)
      BY <2>1 DEF LoadFile
    <3>2. Len(a_extras) < USE_AUTO_EXTRAS
      BY <1>3, <1>4, DictionaryAssumption
    <3> HIDE DEF t
    <3> QED
      BY <1>1, <1>3, <1>4, <1>5, <2>1, <3>1, <3>2, AddedKeeps
  <2>2. CASE ~Fits(t)
    <3>1. a_extras' = a_extras /\ auto_changed' = auto_changed
      BY <2>2 DEF LoadFile
    <3>2. a_extras \in Seq(AutoToken) /\ auto_changed \in BOOLEAN
      BY <1>1 DEF DictTyped
    <3>3. t \notin Usable
      BY <1>6, <2>2
    <3>4. Len(a_extras) <= Len(a_extras) + 1
      BY <1>4
    <3> HIDE DEF t
    <3> QED
      BY <1>1, <1>3, <3>1, <3>2, <3>3, <3>4
  <2> QED
    BY <2>1, <2>2
<1>8. Files' = Files /\ Usable' = Usable
  BY <1>2 DEF Files, Usable
<1>9. \A k \in 1 .. at' - 1 :
        k \in DOMAIN Files' /\ Files'[k] \in Usable' => KnownIn(a_extras', Files'[k])
  <2>1. ASSUME NEW k \in 1 .. at, k \in DOMAIN Files, Files[k] \in Usable
        PROVE  KnownIn(a_extras', Files[k])
    <3>1. k = at \/ k \in 1 .. at - 1
      BY <1>4
    <3> QED
      BY <1>3, <1>7, <2>1, <3>1
  <2>2. at' - 1 = at
    BY <1>2, <1>4
  <2> QED
    BY <1>8, <2>1, <2>2
<1>10. Len(a_extras') < at'
  <2>1. Len(a_extras') \in Nat
    BY <1>7
  <2> QED
    BY <1>2, <1>3, <1>4, <1>7, <2>1
<1>11. Loading'
  BY <1>2, <1>3, <1>9, <1>10, <1>8 DEF Loading, Covers
<1>12. DictTyped'
  BY <1>1, <1>2, <1>4, <1>7 DEF DictTyped
<1>13. Wholesome(saved)' /\ Wholesome(moved)' /\ Clean(a_extras)'
  BY <1>1, <1>2, <1>7, <1>8 DEF Wholesome, Clean
<1>14. Starting' /\ Changed' /\ Saving' /\ Fuzzing' /\ Between'
  BY <1>2, <1>7 DEF Starting, Changed, Saving, Fuzzing, Between
<1> QED
  BY <1>1, <1>2, <1>11, <1>12, <1>13, <1>14 DEF DictInv

LEMMA NothingKnown ==
  Wholesome(<<>>) /\ Clean(<<>>) /\ << >> \in Seq(Token) /\ << >> \in Seq(AutoToken)
BY DictionaryAssumption DEF Wholesome, Clean, Distinct

LEMMA StartSessionKeeps == ASSUME DictInv, StartSession PROVE DictInv'
<1>1. /\ DictTyped /\ Wholesome(saved) /\ Wholesome(moved) /\ Between /\ (resumeDir => begun)
  BY DEF DictInv
<1>2. /\ step = "down" /\ step' = "load" /\ at' = 1 /\ resumes' = begun /\ resumeDir' = begun
      /\ moved' = (IF begun /\ ~resumeDir THEN saved ELSE moved)
      /\ saved' = <<>> /\ extras' = <<>> /\ a_extras' = <<>> /\ auto_changed' = FALSE
      /\ UNCHANGED <<given, begun, cut>>
  BY DEF StartSession
<1>3. Usable' = Usable /\ (moved' = saved \/ moved' = moved)
  BY <1>2 DEF Usable
<1>4. DictTyped'
  <2>1. saved' \in Seq(Token) /\ a_extras' \in Seq(AutoToken) /\ moved' \in Seq(Token)
    BY <1>1, <1>2, <1>3, NothingKnown DEF DictTyped
  <2>2. /\ resumes' \in BOOLEAN /\ resumeDir' \in BOOLEAN /\ auto_changed' \in BOOLEAN
        /\ begun' \in BOOLEAN /\ cut' \in BOOLEAN
    BY <1>1, <1>2 DEF DictTyped
  <2>3. /\ given' \in Seq(Token) /\ at' \in Nat \ {0}
        /\ step' \in {"off", "down", "load", "extras", "dry_run", "save", "fuzz"}
    BY <1>1, <1>2 DEF DictTyped
  <2> QED
    BY <2>1, <2>2, <2>3 DEF DictTyped
<1>5. Wholesome(saved)' /\ Wholesome(moved)' /\ Clean(a_extras)'
  <2>1. Wholesome(<<>>) /\ Clean(<<>>)
    BY NothingKnown
  <2>2. Wholesome(saved)' /\ Clean(a_extras)'
    BY <1>2, <1>3, <2>1 DEF Wholesome, Clean
  <2>3. Wholesome(moved)'
    BY <1>1, <1>3 DEF Wholesome
  <2> QED
    BY <2>2, <2>3
<1>6. begun /\ ~cut => Covers(moved)'
  BY <1>1, <1>2, <1>3 DEF Between, Covers
<1>7. Loading'
  <2>1. Len(a_extras') < at' /\ 1 .. at' - 1 = {}
    BY <1>2
  <2> QED
    BY <1>2, <1>6, <2>1 DEF Loading
<1>8. Changed'
  BY <1>2 DEF Changed
<1>9. Starting' /\ Saving' /\ Fuzzing' /\ Between'
  BY <1>2 DEF Starting, Saving, Fuzzing, Between
<1> QED
  BY <1>2, <1>4, <1>5, <1>7, <1>8, <1>9 DEF DictInv

(* All files are read, and a file for each usable token was among them.    *)
LEMMA PivotInputsKeeps == ASSUME DictInv, PivotInputs PROVE DictInv'
<1>1. /\ DictTyped /\ Wholesome(saved) /\ Wholesome(moved) /\ Clean(a_extras)
      /\ Loading /\ Changed
  BY DEF DictInv
<1>2. /\ step = "load" /\ at > UpTo(Len(Files), USE_AUTO_EXTRAS)
      /\ moved' = <<>> /\ resumeDir' = FALSE /\ step' = "extras" /\ at' = 1
      /\ UNCHANGED <<given, saved, begun, resumes, extras, a_extras, auto_changed, cut>>
  BY DEF PivotInputs, tokens
<1>3. /\ saved = <<>> /\ (resumes /\ ~cut => Covers(moved))
      /\ \A k \in 1 .. at - 1 :
           k \in DOMAIN Files /\ Files[k] \in Usable => KnownIn(a_extras, Files[k])
      /\ (auto_changed <=> a_extras # <<>>)
  BY <1>1, <1>2 DEF Loading, Changed
<1>4. Usable' = Usable
  BY <1>2 DEF Usable
<1>5. ASSUME ~cut, NEW t \in Usable PROVE KnownIn(a_extras, t)
  <2>1. CASE resumes
    <3>1. PICK i \in DOMAIN moved : Matches(moved[i], t)
      BY <1>3, <1>5, <2>1 DEF Covers
    <3>2. moved[i] \in Usable
      <4>1. moved[i] # Empty
        BY <1>1, <3>1, UsableTyped
      <4> QED
        BY <1>1, <4>1 DEF Wholesome
    <3>3. i \in 1 .. at - 1 /\ Files = moved
      <4>1. moved \in Seq(Token) /\ Len(moved) <= USE_AUTO_EXTRAS /\ at \in Nat
        BY <1>1 DEF DictTyped, Wholesome
      <4>2. at > Len(moved)
        BY <1>2, <2>1, <4>1, DictionaryAssumption DEF UpTo, Files
      <4> QED
        BY <2>1, <4>1, <4>2 DEF Files
    <3>4. PICK j \in DOMAIN a_extras : Matches(a_extras[j].token, moved[i])
      BY <1>3, <3>2, <3>3 DEF KnownIn
    <3>5. Matches(a_extras[j].token, t)
      BY <3>1, <3>4 DEF Matches
    <3> QED
      BY <3>5 DEF KnownIn
  <2>2. CASE ~resumes
    <3>1. PICK i \in 1 .. UpTo(Len(given), USE_AUTO_EXTRAS) : given[i] = t
      BY <1>5 DEF Usable
    <3>2. Files = given /\ i \in DOMAIN given
      BY <1>1, <2>2, UsableTyped DEF Files
    <3>3. i \in 1 .. at - 1
      <4>1. at \in Nat /\ Len(given) \in Nat
        BY <1>1 DEF DictTyped
      <4> QED
        BY <1>2, <3>2, <4>1, DictionaryAssumption DEF UpTo
    <3> QED
      BY <1>3, <1>5, <3>1, <3>2, <3>3
  <2> QED
    BY <2>1, <2>2
<1>6. Starting'
  BY <1>2, <1>3, <1>4, <1>5 DEF Starting, Covered, KnownIn
<1>7. DictTyped'
  <2>1. moved' \in Seq(Token)
    BY <1>2, NothingKnown
  <2>2. /\ resumes' \in BOOLEAN /\ resumeDir' \in BOOLEAN /\ auto_changed' \in BOOLEAN
        /\ begun' \in BOOLEAN /\ cut' \in BOOLEAN
    BY <1>1, <1>2 DEF DictTyped
  <2>3. /\ given' \in Seq(Token) /\ saved' \in Seq(Token) /\ a_extras' \in Seq(AutoToken)
        /\ at' \in Nat \ {0}
        /\ step' \in {"off", "down", "load", "extras", "dry_run", "save", "fuzz"}
    BY <1>1, <1>2 DEF DictTyped
  <2> QED
    BY <2>1, <2>2, <2>3 DEF DictTyped
<1>8. Wholesome(saved)' /\ Wholesome(moved)' /\ Clean(a_extras)'
  <2>1. Wholesome(<<>>)
    BY NothingKnown
  <2> QED
    BY <1>1, <1>2, <1>4, <2>1 DEF Wholesome, Clean
<1>9. Loading' /\ Changed' /\ Saving' /\ Fuzzing' /\ Between'
  BY <1>2, <1>3 DEF Loading, Changed, Saving, Fuzzing, Between
<1> QED
  BY <1>2, <1>6, <1>7, <1>8, <1>9 DEF DictInv

(* Nothing that the tokens depend on changes.                              *)
Same == UNCHANGED <<given, saved, moved, resumeDir, resumes, a_extras>>

LEMMA SameKeeps ==
  ASSUME DictInv, Same
  PROVE  /\ Usable' = Usable /\ Wholesome(saved)' /\ Wholesome(moved)' /\ Clean(a_extras)'
         /\ (Covered' <=> Covered) /\ (Covers(moved)' <=> Covers(moved))
         /\ (Covers(saved)' <=> Covers(saved))
<1>1. Usable' = Usable
  BY DEF Same, Usable
<1>2. Wholesome(saved) /\ Wholesome(moved) /\ Clean(a_extras)
  BY DEF DictInv
<1> QED
  BY <1>1, <1>2 DEF Same, Wholesome, Clean, Covered, Covers, KnownIn

LEMMA ExtrasKeep ==
  ASSUME DictInv, NoExtras \/ \E src \in Sources : LoadExtras(src)
  PROVE  DictInv'
<1>1. /\ step = "extras" /\ step' = "dry_run"
      /\ UNCHANGED <<given, saved, moved, resumeDir, begun, resumes, a_extras, auto_changed,
                     at, cut>>
  BY DEF NoExtras, LoadExtras, disk, tokens
<1>2. /\ DictTyped /\ (resumeDir => begun) /\ Starting /\ Changed
  BY DEF DictInv
<1>3. /\ Usable' = Usable /\ Wholesome(saved)' /\ Wholesome(moved)' /\ Clean(a_extras)'
      /\ (Covered' <=> Covered)
  BY <1>1, SameKeeps DEF Same
<1>4. DictTyped'
  BY <1>1, <1>2 DEF DictTyped
<1>5. Starting'
  BY <1>1, <1>2, <1>3 DEF Starting
<1>6. Loading' /\ Changed' /\ Saving' /\ Fuzzing' /\ Between'
  BY <1>1, <1>2 DEF Loading, Changed, Saving, Fuzzing, Between
<1> QED
  BY <1>1, <1>2, <1>3, <1>4, <1>5, <1>6 DEF DictInv

LEMMA DryRunEndsKeeps == ASSUME DictInv, DryRunEnds PROVE DictInv'
<1>1. /\ step = "dry_run" /\ step' = (IF auto_changed THEN "save" ELSE "fuzz")
      /\ begun' = TRUE /\ auto_changed' = FALSE /\ at' = 1
      /\ UNCHANGED <<given, saved, moved, resumeDir, resumes, a_extras, cut>>
  BY DEF DryRunEnds, disk
<1>2. DictTyped /\ Starting /\ Changed
  BY DEF DictInv
<1>3. /\ ~resumeDir /\ saved = <<>> /\ (~cut => Covered) /\ (auto_changed <=> a_extras # <<>>)
  BY <1>1, <1>2 DEF Starting, Changed
<1>4. /\ Usable' = Usable /\ Wholesome(saved)' /\ Wholesome(moved)' /\ Clean(a_extras)'
      /\ (Covered' <=> Covered)
  BY <1>1, SameKeeps DEF Same
<1>5. DictTyped'
  <2>1. step' \in {"save", "fuzz"} /\ at' \in Nat \ {0}
    BY <1>1
  <2> QED
    BY <1>1, <1>2, <2>1 DEF DictTyped
<1>6. Saving'
  <2>1. Len(saved') = 0 /\ 1 .. at' - 1 = {} /\ at' - 1 = 0
    BY <1>1, <1>3
  <2>2. Len(a_extras) \in Nat
    BY <1>2 DEF DictTyped
  <2> QED
    BY <1>1, <1>3, <1>4, <2>1, <2>2 DEF Saving
<1>7. Fuzzing'
  <2>1. step' = "fuzz" => a_extras = <<>>
    BY <1>1, <1>3
  <2>2. << >> = [i \in DOMAIN << >> |-> << >>[i].token]
    OBVIOUS
  <2> QED
    BY <1>1, <1>3, <1>4, <2>1, <2>2 DEF Fuzzing
<1>8. Loading' /\ Starting' /\ Changed' /\ Between'
  BY <1>1 DEF Loading, Starting, Changed, Between
<1> QED
  BY <1>1, <1>4, <1>5, <1>6, <1>7, <1>8 DEF DictInv

(* save_auto.                                                              *)
LEMMA LastIs == ASSUME DictTyped, Clean(a_extras) PROVE Last = Len(a_extras) /\ Last \in Nat
<1>1. Len(a_extras) \in Nat /\ Len(a_extras) <= USE_AUTO_EXTRAS
  BY DEF DictTyped, Clean
<1> QED
  BY <1>1, DictionaryAssumption DEF Last, UpTo

LEMMA SaveKeeps ==
  ASSUME DictInv, CreateFile \/ WriteFile
  PROVE  DictInv'
<1>1. /\ step = "save" /\ at <= Last
      /\ UNCHANGED <<given, moved, resumeDir, begun, resumes, extras, a_extras, auto_changed,
                     step, cut>>
  BY DEF CreateFile, WriteFile, tokens
<1>2. /\ DictTyped /\ (resumeDir => begun) /\ Wholesome(saved) /\ Wholesome(moved)
      /\ Clean(a_extras) /\ Saving
  BY DEF DictInv
<1>3. /\ begun /\ ~resumeDir /\ (~cut => Covered)
      /\ Len(saved) = at - 1 \/ (Len(saved) = at /\ at <= Len(a_extras))
      /\ \A k \in 1 .. at - 1 : saved[k] = a_extras[k].token
  BY <1>1, <1>2 DEF Saving
<1>4. /\ at \in Nat \ {0} /\ at <= Len(a_extras) /\ at <= USE_AUTO_EXTRAS /\ Len(a_extras) \in Nat
      /\ at \in DOMAIN a_extras /\ saved \in Seq(Token) /\ a_extras \in Seq(AutoToken)
  <2>1. Last = Len(a_extras) /\ a_extras \in Seq(AutoToken) /\ at \in Nat \ {0} /\ saved \in Seq(Token)
    BY <1>2, LastIs DEF DictTyped
  <2> QED
    BY <1>1, <1>2, <2>1, DictionaryAssumption DEF Clean
<1>5. a_extras[at].token \in Usable /\ a_extras[at].token \in Token /\ Empty \in Token
  BY <1>2, <1>4, UsableTyped DEF Clean, Token, Empty
<1>6. Usable' = Usable /\ (Covered' <=> Covered)
  BY <1>1 DEF Usable, Covered, KnownIn
<1>7. /\ saved' \in Seq(Token) /\ at' \in Nat \ {0} /\ at' <= Len(a_extras) + 1
      /\ Len(saved') <= USE_AUTO_EXTRAS
      /\ \A k \in DOMAIN saved' : saved'[k] \in Usable \cup {Empty}
      /\ Len(saved') = at' - 1 \/ (Len(saved') = at' /\ at' <= Len(a_extras))
      /\ \A k \in 1 .. at' - 1 : saved'[k] = a_extras[k].token
  <2>1. CASE CreateFile
    <3>1. /\ saved' = Append(saved, Empty) /\ at' = at /\ Len(saved) = at - 1
      <4>1. saved' = Append(saved, Empty) /\ at' = at /\ Len(saved) < at
        BY <2>1 DEF CreateFile
      <4> QED
        BY <1>3, <1>4, <4>1
    <3>2. /\ saved' \in Seq(Token) /\ Len(saved') = Len(saved) + 1
          /\ saved'[Len(saved) + 1] = Empty
          /\ \A k \in 1 .. Len(saved) : saved'[k] = saved[k]
      BY <1>4, <1>5, <3>1, AppendProperties
    <3>3. Len(saved') = at /\ DOMAIN saved' = 1 .. at /\ DOMAIN saved = 1 .. at - 1
      BY <1>4, <3>1, <3>2
    <3>4. \A k \in 1 .. at - 1 : saved'[k] = a_extras[k].token
      BY <1>3, <3>1, <3>2
    <3>5. ASSUME NEW k \in 1 .. at PROVE saved'[k] \in Usable \cup {Empty}
      <4>1. k = at \/ k \in 1 .. at - 1
        BY <1>4
      <4>2. CASE k = at
        BY <1>4, <3>1, <3>2, <4>2
      <4>3. CASE k \in 1 .. at - 1
        BY <1>2, <3>1, <3>2, <3>3, <4>3 DEF Wholesome
      <4> QED
        BY <4>1, <4>2, <4>3
    <3> QED
      BY <1>4, <3>1, <3>2, <3>3, <3>4, <3>5
  <2>2. CASE WriteFile
    <3>1. saved' = [saved EXCEPT ![at] = a_extras[at].token] /\ at' = at + 1 /\ Len(saved) = at
      BY <2>2 DEF WriteFile
    <3>2. at \in 1 .. Len(saved)
      BY <1>4, <3>1
    <3>3. /\ saved' \in Seq(Token) /\ Len(saved') = Len(saved)
          /\ \A k \in 1 .. Len(saved) :
               saved'[k] = IF k = at THEN a_extras[at].token ELSE saved[k]
      BY <1>4, <1>5, <3>1, <3>2, ExceptSeq
    <3>4. DOMAIN saved' = 1 .. at /\ DOMAIN saved = 1 .. at
      BY <1>4, <3>1, <3>3
    <3>5. ASSUME NEW k \in 1 .. at
          PROVE  saved'[k] \in Usable \cup {Empty} /\ saved'[k] = a_extras[k].token
      <4>1. CASE k = at
        BY <1>5, <3>1, <3>3, <4>1
      <4>2. CASE k # at
        <5>1. k \in 1 .. at - 1 /\ saved'[k] = saved[k]
          BY <1>4, <3>1, <3>3, <4>2
        <5> QED
          BY <1>2, <1>3, <3>4, <5>1 DEF Wholesome
      <4> QED
        BY <4>1, <4>2
    <3>6. at' - 1 = at /\ at' \in Nat \ {0} /\ at' <= Len(a_extras) + 1
      BY <1>4, <3>1
    <3> QED
      BY <1>4, <3>1, <3>3, <3>4, <3>5, <3>6
  <2> QED
    BY <2>1, <2>2
<1>8. DictTyped'
  BY <1>1, <1>2, <1>7 DEF DictTyped
<1>9. Wholesome(saved)' /\ Wholesome(moved)' /\ Clean(a_extras)'
  BY <1>1, <1>2, <1>6, <1>7 DEF Wholesome, Clean
<1>10. Saving'
  BY <1>1, <1>3, <1>6, <1>7 DEF Saving
<1>11. Loading' /\ Starting' /\ Changed' /\ Fuzzing' /\ Between'
  BY <1>1 DEF Loading, Starting, Changed, Fuzzing, Between
<1> QED
  BY <1>1, <1>2, <1>8, <1>9, <1>10, <1>11 DEF DictInv

LEMMA SaveDoneKeeps == ASSUME DictInv, SaveDone PROVE DictInv'
<1>1. /\ step = "save" /\ step' = "fuzz" /\ at > Last
      /\ UNCHANGED <<given, saved, moved, resumeDir, begun, resumes, a_extras, auto_changed,
                     at, cut>>
  BY DEF SaveDone, disk, tokens
<1>2. DictTyped /\ (resumeDir => begun) /\ Clean(a_extras) /\ Saving
  BY DEF DictInv
<1>3. /\ begun /\ ~resumeDir /\ (~cut => Covered) /\ at <= Len(a_extras) + 1
      /\ Len(saved) = at - 1 \/ (Len(saved) = at /\ at <= Len(a_extras))
      /\ \A k \in 1 .. at - 1 : saved[k] = a_extras[k].token
  BY <1>1, <1>2 DEF Saving
<1>4. /\ Usable' = Usable /\ Wholesome(saved)' /\ Wholesome(moved)' /\ Clean(a_extras)'
      /\ (Covered' <=> Covered)
  BY <1>1, SameKeeps DEF Same
<1>5. saved = [i \in DOMAIN a_extras |-> a_extras[i].token]
  <2>1. /\ Last = Len(a_extras) /\ a_extras \in Seq(AutoToken) /\ at \in Nat \ {0} /\ saved \in Seq(Token)
    BY <1>2, LastIs DEF DictTyped
  <2>2. Len(saved) = Len(a_extras) /\ at - 1 = Len(a_extras)
    BY <1>1, <1>3, <2>1
  <2>3. DOMAIN saved = 1 .. at - 1 /\ DOMAIN a_extras = 1 .. at - 1
    BY <2>1, <2>2
  <2>4. saved = [k \in 1 .. at - 1 |-> saved[k]]
    BY <2>1, <2>3
  <2> QED
    BY <1>3, <2>3, <2>4
<1>6. DictTyped'
  BY <1>1, <1>2 DEF DictTyped
<1>7. Fuzzing'
  BY <1>1, <1>3, <1>4, <1>5 DEF Fuzzing
<1>8. Loading' /\ Starting' /\ Changed' /\ Saving' /\ Between'
  BY <1>1 DEF Loading, Starting, Changed, Saving, Between
<1> QED
  BY <1>1, <1>2, <1>4, <1>6, <1>7, <1>8 DEF DictInv

LEMMA StopSessionKeeps == ASSUME DictInv, StopSession PROVE DictInv'
<1>1. /\ step = "fuzz" /\ step' = "down" /\ a_extras' = <<>>
      /\ UNCHANGED <<given, saved, moved, resumeDir, begun, resumes, auto_changed, at, cut>>
  BY DEF StopSession, destroy_extras, disk
<1>2. /\ DictTyped /\ (resumeDir => begun) /\ Wholesome(saved) /\ Wholesome(moved) /\ Fuzzing
  BY DEF DictInv
<1>3. /\ ~resumeDir /\ (~cut => Covered)
      /\ saved = [i \in DOMAIN a_extras |-> a_extras[i].token]
  BY <1>1, <1>2 DEF Fuzzing
<1>4. Usable' = Usable
  BY <1>1 DEF Usable
<1>5. ~cut => Covers(saved)
  BY <1>3 DEF Covered, Covers, KnownIn
<1>6. DictTyped' /\ Clean(a_extras)'
  BY <1>1, <1>2, <1>4, NothingKnown DEF DictTyped, Clean
<1>7. Wholesome(saved)' /\ Wholesome(moved)'
  BY <1>1, <1>2, <1>4 DEF Wholesome
<1>8. Between'
  BY <1>1, <1>3, <1>4, <1>5 DEF Between, Covers
<1>9. Loading' /\ Starting' /\ Changed' /\ Saving' /\ Fuzzing'
  BY <1>1 DEF Loading, Starting, Changed, Saving, Fuzzing
<1> QED
  BY <1>1, <1>2, <1>6, <1>7, <1>8, <1>9 DEF DictInv

LEMMA DieKeeps ==
  ASSUME DictInv, Die \/ \E src \in Sources : LoadExtrasFails(src)
  PROVE  DictInv'
<1>1. /\ step \in {"load", "extras", "dry_run", "save"} /\ step' = "down"
      /\ cut' = (cut \/ InMemoryOnly)
      /\ UNCHANGED <<given, saved, moved, resumeDir, begun, resumes, a_extras, auto_changed, at>>
  <2>1. step \in {"off", "down", "load", "extras", "dry_run", "save", "fuzz"}
    BY DEF DictInv, DictTyped
  <2> QED
    BY <2>1 DEF Die, LoadExtrasFails, disk, tokens
<1>2. /\ DictTyped /\ (resumeDir => begun) /\ Loading /\ Starting /\ Saving
  BY DEF DictInv
<1>3. /\ Usable' = Usable /\ Wholesome(saved)' /\ Wholesome(moved)' /\ Clean(a_extras)'
      /\ (Covers(moved)' <=> Covers(moved)) /\ (Covers(saved)' <=> Covers(saved))
  BY <1>1, SameKeeps DEF Same
<1>4. ASSUME begun, ~cut' PROVE IF resumeDir THEN Covers(moved) ELSE Covers(saved)
  <2>1. ~cut /\ ~InMemoryOnly
    BY <1>1, <1>4
  <2>2. CASE step = "load"
    <3>1. begun \in BOOLEAN /\ resumes \in BOOLEAN /\ resumeDir \in BOOLEAN
      BY <1>2 DEF DictTyped
    <3>2. begun = resumes /\ resumeDir = resumes /\ (resumes /\ ~cut => Covers(moved))
      BY <1>2, <2>2 DEF Loading
    <3> QED
      BY <1>4, <2>1, <3>1, <3>2
  <2>3. CASE step \in {"extras", "dry_run", "save"}
    <3>1. a_extras = <<>> /\ ~resumeDir /\ Covered
      BY <1>2, <1>4, <2>1, <2>3 DEF InMemoryOnly, Starting, Saving
    <3>2. Usable = {}
      BY <3>1 DEF Covered, KnownIn
    <3> QED
      BY <3>1, <3>2 DEF Covers
  <2> QED
    BY <1>1, <2>2, <2>3
<1>5. Between'
  BY <1>1, <1>3, <1>4 DEF Between
<1>6. DictTyped'
  <2>1. cut' \in BOOLEAN
    BY <1>1, <1>2 DEF DictTyped
  <2> QED
    BY <1>1, <1>2, <2>1 DEF DictTyped
<1>7. Loading' /\ Starting' /\ Changed' /\ Saving' /\ Fuzzing'
  BY <1>1 DEF Loading, Starting, Changed, Saving, Fuzzing
<1> QED
  BY <1>1, <1>2, <1>3, <1>5, <1>6, <1>7 DEF DictInv

LEMMA DictStep == ASSUME DictInv, DictNext PROVE DictInv'
<1>1. CASE CreateFile \/ WriteFile
  BY <1>1, SaveKeeps
<1>2. CASE NoExtras \/ \E src \in Sources : LoadExtras(src)
  BY <1>2, ExtrasKeep
<1>3. CASE Die \/ \E src \in Sources : LoadExtrasFails(src)
  BY <1>3, DieKeeps
<1> QED
  BY <1>1, <1>2, <1>3, StartSessionKeeps, LoadFileKeeps, PivotInputsKeeps, DryRunEndsKeeps,
     SaveDoneKeeps, StopSessionKeeps
     DEF DictNext

LEMMA DictStay == ASSUME DictInv, UNCHANGED dictVars PROVE DictInv'
<1>1. Usable' = Usable /\ Files' = Files
  BY DEF dictVars, Usable, Files
<1>2. DictTyped' /\ Wholesome(saved)' /\ Wholesome(moved)' /\ Clean(a_extras)'
  BY <1>1 DEF DictInv, DictTyped, Wholesome, Clean, dictVars
<1>3. (Covered' <=> Covered) /\ (Covers(moved)' <=> Covers(moved)) /\ (Covers(saved)' <=> Covers(saved))
  BY <1>1 DEF Covered, Covers, KnownIn, dictVars
<1>4. Loading' /\ Starting' /\ Changed'
  BY <1>1, <1>3 DEF DictInv, Loading, Starting, Changed, dictVars
<1>5. Saving' /\ Fuzzing' /\ Between'
  BY <1>1, <1>3 DEF DictInv, Saving, Fuzzing, Between, dictVars
<1> QED
  BY <1>2, <1>4, <1>5 DEF DictInv, dictVars

LEMMA TokensAreKept == ASSUME DictInv PROVE TokensKept
<1>1. ASSUME step = "fuzz", ~cut, NEW t \in Usable PROVE Known(t) # {}
  <2>1. KnownIn(a_extras, t)
    BY <1>1 DEF DictInv, Fuzzing, Covered
  <2> QED
    BY <2>1 DEF KnownIn, Known
<1>2. step = "fuzz" => saved = [i \in DOMAIN a_extras |-> a_extras[i].token]
  BY DEF DictInv, Fuzzing
<1>3. /\ \A i \in DOMAIN a_extras : a_extras[i].token \in Usable
      /\ \A i, j \in DOMAIN a_extras :
           Matches(a_extras[i].token, a_extras[j].token) => i = j
  BY DEF DictInv, Clean, Distinct
<1> QED
  BY <1>1, <1>2, <1>3 DEF TokensKept

-----------------------------------------------------------------------------
(* Division.                                                               *)

LEMMA QuotRem ==
  ASSUME NEW n \in Nat \ {0}, NEW x \in Int
  PROVE  x % n \in 0 .. n - 1 /\ x \div n \in Int /\ x = n * (x \div n) + (x % n)
<1>1. x % n \in 0 .. n - 1 /\ x \div n \in Int
  OBVIOUS
<1>2. ASSUME NEW q \in Int, NEW r \in Int, q = x \div n, r = x % n
      PROVE  x = n * q + r
  BY <1>2
<1> QED
  BY <1>1, <1>2

LEMMA Reduced ==
  ASSUME NEW n \in Nat \ {0}, NEW x \in Int
  PROVE  /\ 0 <= x /\ x < n => x % n = x
         /\ n <= x /\ x < n + n => x % n = x - n
         /\ 0 - n <= x /\ x < 0 => x % n = x + n
<1>1. ASSUME 0 <= x, x < n PROVE x % n = x
  BY <1>1
<1>2. ASSUME n <= x, x < n + n PROVE x % n = x - n
  BY <1>2
<1>3. ASSUME 0 - n <= x, x < 0 PROVE x % n = x + n
  BY <1>3
<1> QED
  BY <1>1, <1>2, <1>3

LEMMA Congruent ==
  ASSUME NEW n \in Nat \ {0}, NEW x \in Int, NEW k \in Int
  PROVE  (x + k * n) % n = x % n
<1>1. PICK q \in Int, r \in 0 .. n - 1 : x = n * q + r /\ r = x % n
  BY QuotRem
<1>2. x + k * n = n * (q + k) + r
  <2>1. n * (q + k) = n * q + n * k /\ n * k = k * n /\ n * q \in Int /\ n * k \in Int
    OBVIOUS
  <2> QED
    BY <1>1, <2>1
<1>3. \A p \in Int : (n * p + r) % n = r
  OBVIOUS
<1>4. q + k \in Int
  OBVIOUS
<1> QED
  BY <1>1, <1>2, <1>3, <1>4

-----------------------------------------------------------------------------
(* Sums over finite sets.                                                  *)

Units(f) == UNION {{x} \X (1 .. f[x]) : x \in DOMAIN f}

LEMMA UnitsFinite ==
  ASSUME NEW D, IsFiniteSet(D), NEW f \in [D -> Nat]
  PROVE  IsFiniteSet(Units(f)) /\ Total(f) = Cardinality(Units(f)) /\ Total(f) \in Nat
<1> DEFINE units == [x \in D |-> {x} \X (1 .. f[x])]
           T == {{x} \X (1 .. f[x]) : x \in D}
<1>1. units \in Surjection(D, T)
  BY DEF Surjection
<1>2. IsFiniteSet(T)
  BY <1>1, FS_Surjection
<1>3. ASSUME NEW x \in D PROVE IsFiniteSet({x} \X (1 .. f[x]))
  <2>1. f[x] \in Int
    OBVIOUS
  <2>2. IsFiniteSet(1 .. f[x])
    BY <2>1, FS_Interval
  <2>3. IsFiniteSet({x})
    BY FS_Singleton
  <2> QED
    BY <2>2, <2>3, FS_Product
<1>4. IsFiniteSet(UNION T)
  BY <1>2, <1>3, FS_UNION
<1>5. Units(f) = UNION T
  BY DEF Units
<1> QED
  BY <1>4, <1>5, FS_CardinalityType DEF Units, Total

LEMMA TotalOfNone == ASSUME NEW f \in [{} -> Nat] PROVE Total(f) = 0
<1>1. Units(f) = {}
  BY DEF Units
<1> QED
  BY <1>1, FS_EmptySet DEF Units, Total

(* One more place adds its value.                                          *)
OneMore(f, g, D, x) ==
  /\ IsFiniteSet(D) /\ x \notin D
  /\ f \in [D -> Nat] /\ g \in [D \cup {x} -> Nat] /\ \A d \in D : g[d] = f[d]

LEMMA TotalAdd ==
  ASSUME NEW D, NEW x, NEW f, NEW g, OneMore(f, g, D, x)
  PROVE  Total(g) = Total(f) + g[x]
<1> USE DEF OneMore
<1> DEFINE new == {x} \X (1 .. g[x])
<1>1. Units(g) = Units(f) \cup new
  <2>1. Units(g) = UNION {{d} \X (1 .. g[d]) : d \in D \cup {x}}
    BY DEF Units
  <2>2. Units(f) = UNION {{d} \X (1 .. f[d]) : d \in D}
    BY DEF Units
  <2>3. ASSUME NEW d \in D PROVE {d} \X (1 .. g[d]) = {d} \X (1 .. f[d])
    OBVIOUS
  <2>4. {{d} \X (1 .. g[d]) : d \in D} = {{d} \X (1 .. f[d]) : d \in D}
    BY <2>3
  <2>5. {{d} \X (1 .. g[d]) : d \in D \cup {x}} = {{d} \X (1 .. g[d]) : d \in D} \cup {new}
    OBVIOUS
  <2> QED
    BY <2>1, <2>2, <2>4, <2>5
<1>2. Units(f) \cap new = {}
  BY DEF Units
<1>3. IsFiniteSet(new) /\ Cardinality(new) = g[x]
  <2>1. IsFiniteSet({x}) /\ Cardinality({x}) = 1
    BY FS_Singleton
  <2>2. g[x] \in Nat
    OBVIOUS
  <2>3. IsFiniteSet(1 .. g[x]) /\ Cardinality(1 .. g[x]) = g[x]
    BY <2>2, FS_Interval
  <2>4. ASSUME NEW A, NEW B, IsFiniteSet(A), IsFiniteSet(B)
        PROVE  IsFiniteSet(A \X B) /\ Cardinality(A \X B) = Cardinality(A) * Cardinality(B)
    BY <2>4, FS_Product
  <2>5. IsFiniteSet(new) /\ Cardinality(new) = Cardinality({x}) * Cardinality(1 .. g[x])
    BY <2>1, <2>3, <2>4
  <2> HIDE DEF new
  <2> QED
    BY <2>1, <2>2, <2>3, <2>5
<1>4. IsFiniteSet(D \cup {x})
  BY FS_AddElement
<1>5. IsFiniteSet(Units(f)) /\ Total(f) = Cardinality(Units(f)) /\ Total(f) \in Nat
  BY UnitsFinite
<1>6. Total(g) = Cardinality(Units(g))
  BY <1>4, UnitsFinite
<1>7. Cardinality({}) = 0
  BY FS_EmptySet
<1>8. Cardinality(Units(f) \cup new)
        = Cardinality(Units(f)) + Cardinality(new) - Cardinality(Units(f) \cap new)
  BY <1>3, <1>5, FS_Union
<1>9. g[x] \in Nat
  OBVIOUS
<1> HIDE DEF new
<1>10. Cardinality(Units(f) \cup new) = Cardinality(Units(f)) + Cardinality(new) - 0
  BY <1>2, <1>7, <1>8
<1> QED
  BY <1>1, <1>3, <1>5, <1>6, <1>9, <1>10

(* A change at one place.                                                  *)
Differ(f, g, D, x) ==
  /\ IsFiniteSet(D) /\ x \in D
  /\ f \in [D -> Nat] /\ g \in [D -> Nat] /\ \A d \in D \ {x} : g[d] = f[d]

LEMMA TotalUpdate ==
  ASSUME NEW D, NEW x, NEW f, NEW g, Differ(f, g, D, x)
  PROVE  Total(g) + f[x] = Total(f) + g[x]
<1> USE DEF Differ
<1> DEFINE rest == [d \in D \ {x} |-> f[d]]
<1>1. IsFiniteSet(D \ {x}) /\ x \notin D \ {x} /\ (D \ {x}) \cup {x} = D
  BY FS_Subset
<1>2. rest \in [D \ {x} -> Nat]
  OBVIOUS
<1>3. Total(f) = Total(rest) + f[x]
  <2>1. OneMore(rest, f, D \ {x}, x)
    BY <1>1, <1>2 DEF OneMore
  <2> HIDE DEF rest
  <2> QED
    BY <2>1, TotalAdd
<1>4. Total(g) = Total(rest) + g[x]
  <2>1. OneMore(rest, g, D \ {x}, x)
    BY <1>1, <1>2 DEF OneMore
  <2> HIDE DEF rest
  <2> QED
    BY <2>1, TotalAdd
<1>5. Total(rest) \in Nat
  BY <1>1, <1>2, UnitsFinite
<1> QED
  BY <1>3, <1>4, <1>5

(* Nothing counted.                                                        *)
LEMMA TotalOfZeros ==
  ASSUME NEW D, IsFiniteSet(D)
  PROVE  Total([d \in D |-> 0]) = 0
<1> DEFINE f == [d \in D |-> 0]
<1>1. Units(f) = {}
  BY DEF Units
<1> QED
  BY <1>1, FS_EmptySet DEF Units, Total

-----------------------------------------------------------------------------
(* The allocator.                                                          *)

Block == [len : Sizes, freed : BOOLEAN, by : Threads]
Lens(list, S)  == [b \in Live(list, S) |-> list[b].len]
Bytes(list, S) == Total(Lens(list, S))

DislocatorTyped ==
  /\ options \in [on : BOOLEAN, hard_fail : BOOLEAN, no_calloc_over : BOOLEAN]
  /\ total_mem \in [Threads -> Sizes]
  /\ blocks \in Seq(Block)
  /\ ended \in BOOLEAN
  /\ strangers \subseteq Threads

(* Over all threads the counts are the bytes in use, up to a multiple of   *)
(* what a size_t can count.                                                *)
Balanced(total, list) == \E k \in Int : Total(total) = Bytes(list, Threads) + k * SIZE

Own(total, list, S) ==
  \A t \in S : total[t] = Bytes(list, {t}) /\ total[t] <= max_mem

DislocatorInv ==
  /\ DislocatorTyped
  /\ Balanced(total_mem, blocks)
  /\ Own(total_mem, blocks, Threads \ strangers)

LEMMA SizeIs == SIZE \in Nat \ {0} /\ max_mem \in Nat /\ max_mem < SIZE /\ 0 \in Sizes
BY DislocatorAssumption DEF Sizes

(* Arithmetic in a size_t.                                                 *)
LEMMA InSize ==
  ASSUME NEW x \in Int
  PROVE  /\ x % SIZE \in Sizes
         /\ 0 <= x /\ x < SIZE => x % SIZE = x
         /\ SIZE <= x /\ x < SIZE + SIZE => x % SIZE = x - SIZE
<1>1. SIZE \in Nat \ {0}
  BY SizeIs
<1> QED
  BY <1>1, QuotRem, Reduced DEF Sizes

LEMMA LensTyped ==
  ASSUME NEW list \in Seq(Block), NEW S
  PROVE  /\ IsFiniteSet(Live(list, S)) /\ Lens(list, S) \in [Live(list, S) -> Nat]
         /\ Bytes(list, S) \in Nat
<1>1. Live(list, S) \subseteq 1 .. Len(list)
  BY DEF Live
<1>2. IsFiniteSet(1 .. Len(list))
  BY FS_Interval
<1>3. IsFiniteSet(Live(list, S))
  BY <1>1, <1>2, FS_Subset
<1>4. Lens(list, S) \in [Live(list, S) -> Nat]
  <2>1. \A b \in Live(list, S) : list[b] \in Block
    BY <1>1
  <2>2. \A b \in Live(list, S) : list[b].len \in Nat
    BY <2>1, SizeIs DEF Block, Sizes
  <2> QED
    BY <2>2 DEF Lens
<1> QED
  BY <1>3, <1>4, UnitsFinite DEF Bytes

LEMMA NewBlock ==
  ASSUME NEW list \in Seq(Block), NEW t \in Threads, NEW len \in Sizes, NEW S
  PROVE  LET new == Append(list, [len |-> len, freed |-> FALSE, by |-> t])
         IN  /\ new \in Seq(Block)
             /\ Bytes(new, S) = Bytes(list, S) + (IF t \in S THEN len ELSE 0)
<1> DEFINE block == [len |-> len, freed |-> FALSE, by |-> t]
           new   == Append(list, block)
           n     == Len(list) + 1
<1>1. block \in Block
  BY DEF Block
<1>2. /\ new \in Seq(Block) /\ DOMAIN new = DOMAIN list \cup {n} /\ n \notin DOMAIN list
      /\ new[n] = block /\ \A b \in DOMAIN list : new[b] = list[b]
  <2> HIDE DEF block
  <2> QED
    BY <1>1
<1>3. block.len = len /\ block.freed = FALSE /\ block.by = t
  OBVIOUS
<1> HIDE DEF new, n, block
<1>4. CASE t \in S
  <2>1. Live(new, S) = Live(list, S) \cup {n} /\ n \notin Live(list, S)
    BY <1>2, <1>3, <1>4 DEF Live
  <2>2. \A b \in Live(list, S) : Lens(new, S)[b] = Lens(list, S)[b]
    BY <1>2, <2>1 DEF Lens, Live
  <2>3. Lens(new, S)[n] = len
    BY <1>2, <1>3, <2>1 DEF Lens
  <2>4. /\ IsFiniteSet(Live(list, S)) /\ Lens(list, S) \in [Live(list, S) -> Nat]
        /\ Lens(new, S) \in [Live(list, S) \cup {n} -> Nat]
    BY <1>2, <2>1, LensTyped
  <2>5. Total(Lens(new, S)) = Total(Lens(list, S)) + Lens(new, S)[n]
    <3>1. OneMore(Lens(list, S), Lens(new, S), Live(list, S), n)
      BY <2>1, <2>2, <2>4 DEF OneMore
    <3> QED
      BY <3>1, TotalAdd
  <2> QED
    BY <1>2, <1>4, <2>3, <2>5 DEF Bytes, new, block
<1>5. CASE t \notin S
  <2>1. Live(new, S) = Live(list, S)
    BY <1>2, <1>3, <1>5 DEF Live
  <2>2. Lens(new, S) = Lens(list, S)
    BY <1>2, <2>1 DEF Lens, Live
  <2>3. Bytes(list, S) \in Nat
    BY LensTyped
  <2> QED
    BY <1>2, <1>5, <2>2, <2>3 DEF Bytes, new, block
<1> QED
  BY <1>4, <1>5

LEMMA FreeBlock ==
  ASSUME NEW list \in Seq(Block), NEW b \in DOMAIN list, ~list[b].freed, NEW S
  PROVE  LET new == [list EXCEPT ![b].freed = TRUE]
         IN  /\ new \in Seq(Block)
             /\ Bytes(new, S) + (IF list[b].by \in S THEN list[b].len ELSE 0)
                  = Bytes(list, S)
<1> DEFINE new == [list EXCEPT ![b].freed = TRUE]
<1>1. list[b] \in Block
  OBVIOUS
<1>2. /\ new \in Seq(Block) /\ DOMAIN new = DOMAIN list /\ new[b].freed = TRUE
      /\ \A c \in DOMAIN list : new[c].len = list[c].len /\ new[c].by = list[c].by
      /\ \A c \in DOMAIN list \ {b} : new[c] = list[c]
  <2>1. [list[b] EXCEPT !.freed = TRUE] \in Block
    BY <1>1 DEF Block
  <2>2. new = [list EXCEPT ![b] = [list[b] EXCEPT !.freed = TRUE]]
    OBVIOUS
  <2>3. DOMAIN list = 1 .. Len(list) /\ list \in [1 .. Len(list) -> Block] /\ Len(list) \in Nat
    OBVIOUS
  <2>4. new \in [1 .. Len(list) -> Block]
    BY <2>1, <2>2, <2>3
  <2>5. new \in Seq(Block)
    BY <2>3, <2>4, IsASeq
  <2>6. /\ [list[b] EXCEPT !.freed = TRUE].freed = TRUE
        /\ [list[b] EXCEPT !.freed = TRUE].len = list[b].len
        /\ [list[b] EXCEPT !.freed = TRUE].by = list[b].by
    BY <1>1 DEF Block
  <2> QED
    BY <2>2, <2>3, <2>5, <2>6
<1> HIDE DEF new
<1>3. CASE list[b].by \in S
  <2>1. /\ Live(list, S) = Live(new, S) \cup {b} /\ b \notin Live(new, S)
    BY <1>2, <1>3 DEF Live
  <2>2. \A c \in Live(new, S) : Lens(list, S)[c] = Lens(new, S)[c]
    BY <1>2, <2>1 DEF Lens, Live
  <2>3. Lens(list, S)[b] = list[b].len
    BY <2>1 DEF Lens
  <2>4. /\ IsFiniteSet(Live(new, S)) /\ Lens(new, S) \in [Live(new, S) -> Nat]
        /\ Lens(list, S) \in [Live(new, S) \cup {b} -> Nat]
    BY <1>2, <2>1, LensTyped
  <2>5. Total(Lens(list, S)) = Total(Lens(new, S)) + Lens(list, S)[b]
    <3>1. OneMore(Lens(new, S), Lens(list, S), Live(new, S), b)
      BY <2>1, <2>2, <2>4 DEF OneMore
    <3> QED
      BY <3>1, TotalAdd
  <2> QED
    BY <1>2, <1>3, <2>3, <2>5 DEF Bytes, new
<1>4. CASE list[b].by \notin S
  <2>1. Live(list, S) = Live(new, S)
    BY <1>2, <1>4 DEF Live
  <2>2. Lens(list, S) = Lens(new, S)
    BY <1>2, <2>1 DEF Lens, Live
  <2>3. Bytes(new, S) \in Nat
    BY <1>2, LensTyped
  <2> QED
    BY <1>2, <1>4, <2>2, <2>3 DEF Bytes, new
<1> QED
  BY <1>3, <1>4

(* What a call adds to a count and to the bytes in use, it adds to both    *)
(* sides of the balance.                                                   *)
LEMMA Rebalanced ==
  ASSUME NEW total \in [Threads -> Sizes], NEW t \in Threads, NEW d \in Int,
         NEW list \in Seq(Block), NEW new \in Seq(Block), Balanced(total, list),
         Bytes(new, Threads) = Bytes(list, Threads) + d
  PROVE  LET count == [total EXCEPT ![t] = (@ + d) % SIZE]
         IN  count \in [Threads -> Sizes] /\ Balanced(count, new)
<1> DEFINE x == total[t] + d
           count == [total EXCEPT ![t] = (@ + d) % SIZE]
<1>1. IsFiniteSet(Threads) /\ SIZE \in Nat \ {0}
  BY SizeIs, DislocatorAssumption
<1>2. x \in Int /\ total[t] \in Int
  BY <1>1 DEF Sizes
<1>3. x % SIZE \in Sizes /\ x \div SIZE \in Int /\ x = SIZE * (x \div SIZE) + (x % SIZE)
  BY <1>1, <1>2, QuotRem DEF Sizes
<1>4. count \in [Threads -> Sizes] /\ count[t] = x % SIZE
      /\ \A u \in Threads \ {t} : count[u] = total[u]
  BY <1>3
<1>5. total \in [Threads -> Nat] /\ count \in [Threads -> Nat]
  BY <1>1, <1>4 DEF Sizes
<1> HIDE DEF count
<1>6. Total(count) + total[t] = Total(total) + count[t]
  <2>1. Differ(total, count, Threads, t)
    BY <1>1, <1>4, <1>5 DEF Differ
  <2> QED
    BY <2>1, TotalUpdate
<1>7. PICK k \in Int : Total(total) = Bytes(list, Threads) + k * SIZE
  BY DEF Balanced
<1>8. Total(count) \in Nat /\ Total(total) \in Nat /\ Bytes(list, Threads) \in Nat
  BY <1>1, <1>5, UnitsFinite, LensTyped
<1>9. (k - (x \div SIZE)) * SIZE = k * SIZE - SIZE * (x \div SIZE)
  BY <1>1, <1>3
<1>10. k * SIZE \in Int /\ SIZE * (x \div SIZE) \in Int /\ x % SIZE \in Int
  BY <1>1, <1>3 DEF Sizes
<1>11. Total(count) = Bytes(new, Threads) + (k * SIZE - SIZE * (x \div SIZE))
  <2> DEFINE m == SIZE * (x \div SIZE)
             r == x % SIZE
             n == k * SIZE
  <2>1. /\ total[t] + d = m + r /\ Total(count) + total[t] = Total(total) + r
        /\ Total(total) = Bytes(list, Threads) + n
        /\ Bytes(new, Threads) = Bytes(list, Threads) + d
    BY <1>3, <1>4, <1>6, <1>7
  <2>2. m \in Int /\ r \in Int /\ n \in Int
    BY <1>10
  <2> HIDE DEF m, r, n, x
  <2>3. ASSUME NEW c \in Int, NEW c1 \in Int, NEW y \in Int, NEW y1 \in Int, NEW w \in Int,
               w + d = m + r, c1 + w = c + r, c = y + n, y1 = y + d
        PROVE  c1 = y1 + (n - m)
    BY <2>2, <2>3
  <2>4. Total(count) = Bytes(new, Threads) + (n - m)
    BY <1>2, <1>8, <2>1, <2>3
  <2> QED
    BY <2>4 DEF m, n
<1>12. k - (x \div SIZE) \in Int
  BY <1>3
<1> QED
  BY <1>4, <1>9, <1>11, <1>12 DEF Balanced, count

LEMMA DislocatorStart == ASSUME NEW on \in BOOLEAN, DislocatorInit(on) PROVE DislocatorInv
<1>1. DislocatorTyped
  <2>1. options \in [on : BOOLEAN, hard_fail : BOOLEAN, no_calloc_over : BOOLEAN]
    BY DEF DislocatorInit
  <2>2. total_mem \in [Threads -> Sizes]
    BY SizeIs DEF DislocatorInit
  <2>3. blocks \in Seq(Block) /\ ended = FALSE /\ strangers = {}
    BY DEF DislocatorInit
  <2> QED
    BY <2>1, <2>2, <2>3 DEF DislocatorTyped
<1>2. ASSUME NEW S PROVE Bytes(blocks, S) = 0
  <2>1. Lens(blocks, S) \in [{} -> Nat]
    BY DEF DislocatorInit, Lens, Live
  <2> QED
    BY <2>1, TotalOfNone DEF Bytes
<1>3. Total(total_mem) = 0
  <2>1. IsFiniteSet(Threads)
    BY DislocatorAssumption
  <2> QED
    BY <2>1, TotalOfZeros DEF DislocatorInit
<1>4. Balanced(total_mem, blocks)
  <2>1. 0 = 0 + 0 * SIZE
    BY SizeIs
  <2> QED
    BY <1>2, <1>3, <2>1 DEF Balanced
<1>5. Own(total_mem, blocks, Threads \ strangers)
  BY <1>2, SizeIs DEF DislocatorInit, Own
<1> QED
  BY <1>1, <1>4, <1>5 DEF DislocatorInv

(* A count that passed the limit did not wrap.                             *)
LEMMA WithinLimit ==
  ASSUME DislocatorTyped, NEW t \in Threads, NEW len \in Sizes, ~Exceeds(t, len)
  PROVE  (total_mem[t] + len) % SIZE = total_mem[t] + len /\ total_mem[t] + len <= max_mem
<1> DEFINE x == total_mem[t]
<1>1. x \in Int /\ len \in Int /\ 0 <= x /\ x < SIZE /\ 0 <= len /\ len < SIZE
  BY SizeIs DEF DislocatorTyped, Sizes
<1>2. (x + len) % SIZE <= max_mem /\ ~((x + len) % SIZE < x)
  <2>1. x + len \in Int
    BY <1>1
  <2>2. (x + len) % SIZE \in Int
    BY <2>1, InSize, SizeIs DEF Sizes
  <2> QED
    BY <1>1, <2>2, SizeIs DEF Exceeds
<1> HIDE DEF x
<1>3. CASE x + len < SIZE
  <2>1. (x + len) % SIZE = x + len
    <3>1. x + len \in Int /\ 0 <= x + len
      BY <1>1
    <3> QED
      BY <1>3, <3>1, InSize
  <2> QED
    BY <1>2, <2>1 DEF x
<1>4. CASE SIZE <= x + len
  <2>1. (x + len) % SIZE = (x + len) - SIZE
    <3>1. x + len \in Int /\ x + len < SIZE + SIZE
      BY <1>1, SizeIs
    <3>2. ASSUME NEW y \in Int, SIZE <= y, y < SIZE + SIZE PROVE y % SIZE = y - SIZE
      BY <3>2, InSize
    <3> QED
      BY <1>4, <3>1, <3>2
  <2>2. (x + len) - SIZE < x
    BY <1>1, SizeIs
  <2> QED
    BY <1>2, <2>1, <2>2
<1> QED
  BY <1>1, <1>3, <1>4, SizeIs

(* The first half of malloc and realloc.                                   *)
LEMMA AllocatedKeeps ==
  ASSUME DislocatorInv, NEW t \in Threads, NEW len \in Sizes, ~Exceeds(t, len)
  PROVE  LET count == [total_mem EXCEPT ![t] = (@ + len) % SIZE]
             list  == Append(blocks, [len |-> len, freed |-> FALSE, by |-> t])
         IN  /\ count \in [Threads -> Sizes] /\ list \in Seq(Block)
             /\ Balanced(count, list) /\ Own(count, list, Threads \ strangers)
<1> DEFINE count == [total_mem EXCEPT ![t] = (@ + len) % SIZE]
           list  == Append(blocks, [len |-> len, freed |-> FALSE, by |-> t])
<1>1. /\ DislocatorTyped /\ Balanced(total_mem, blocks)
      /\ Own(total_mem, blocks, Threads \ strangers)
      /\ total_mem \in [Threads -> Sizes] /\ blocks \in Seq(Block)
  BY DEF DislocatorInv, DislocatorTyped
<1>2. len \in Nat
  BY SizeIs DEF Sizes
<1>3. list \in Seq(Block) /\ \A S : Bytes(list, S) = Bytes(blocks, S) + (IF t \in S THEN len ELSE 0)
  BY <1>1, <1>2, NewBlock
<1> HIDE DEF list
<1>4. count \in [Threads -> Sizes] /\ Balanced(count, list)
  <2>1. Bytes(list, Threads) = Bytes(blocks, Threads) + len /\ len \in Int
    BY <1>2, <1>3
  <2> QED
    BY <1>1, <1>3, <2>1, Rebalanced
<1>5. ASSUME NEW u \in Threads \ strangers
      PROVE  count[u] = Bytes(list, {u}) /\ count[u] <= max_mem
  <2>1. total_mem[u] = Bytes(blocks, {u}) /\ total_mem[u] <= max_mem
    BY <1>1, <1>5 DEF Own
  <2>2. CASE u = t
    <3>1. count[u] = total_mem[u] + len /\ count[u] <= max_mem
      BY <1>1, <2>2, WithinLimit
    <3>2. Bytes(list, {u}) = Bytes(blocks, {u}) + len
      BY <1>3, <2>2
    <3> QED
      BY <2>1, <3>1, <3>2
  <2>3. CASE u # t
    <3>1. count[u] = total_mem[u]
      BY <1>1, <1>5, <2>3
    <3>2. Bytes(list, {u}) = Bytes(blocks, {u}) + 0 /\ Bytes(blocks, {u}) \in Nat
      BY <1>1, <1>3, <2>3, LensTyped
    <3> QED
      BY <2>1, <3>1, <3>2
  <2> QED
    BY <2>2, <2>3
<1> QED
  BY <1>3, <1>4, <1>5 DEF Own, list

(* free, and the second half of realloc, whatever the counts are by then.  *)
LEMMA FreedKeeps ==
  ASSUME NEW total \in [Threads -> Sizes], NEW list \in Seq(Block), NEW S \in SUBSET Threads,
         Balanced(total, list), Own(total, list, S),
         NEW t \in Threads, NEW b \in DOMAIN list, ~list[b].freed
  PROVE  LET count == [total EXCEPT ![t] = (@ - list[b].len) % SIZE]
             new   == [list EXCEPT ![b].freed = TRUE]
             met   == IF list[b].by = t THEN {} ELSE {t, list[b].by}
         IN  /\ count \in [Threads -> Sizes] /\ new \in Seq(Block)
             /\ Balanced(count, new) /\ Own(count, new, S \ met)
<1> DEFINE len   == list[b].len
           count == [total EXCEPT ![t] = (@ + (0 - len)) % SIZE]
           new   == [list EXCEPT ![b].freed = TRUE]
           met   == IF list[b].by = t THEN {} ELSE {t, list[b].by}
<1>1. /\ new \in Seq(Block)
      /\ \A P : Bytes(new, P) + (IF list[b].by \in P THEN len ELSE 0) = Bytes(list, P)
  BY FreeBlock
<1>2. \A P : Bytes(new, P) \in Nat /\ Bytes(list, P) \in Nat
  BY <1>1, LensTyped
<1>3. list[b].by \in Threads /\ len \in Nat /\ len < SIZE
  <2>1. list[b] \in Block
    OBVIOUS
  <2>2. list[b].by \in Threads /\ list[b].len \in Sizes
    BY <2>1 DEF Block
  <2> QED
    BY <2>2, SizeIs DEF Sizes
<1>4. [total EXCEPT ![t] = (@ - list[b].len) % SIZE] = count
  <2>1. total[t] \in Int
    BY SizeIs DEF Sizes
  <2>2. total[t] - len = total[t] + (0 - len)
    BY <1>3, <2>1
  <2> QED
    BY <2>2
<1> HIDE DEF new, len
<1>5. count \in [Threads -> Sizes] /\ Balanced(count, new)
  <2>1. Bytes(new, Threads) + len = Bytes(list, Threads)
    BY <1>1, <1>3
  <2>2. Bytes(new, Threads) = Bytes(list, Threads) + (0 - len) /\ 0 - len \in Int
    BY <1>2, <1>3, <2>1
  <2> QED
    BY <1>1, <2>2, Rebalanced
<1>6. ASSUME NEW u \in S \ met
      PROVE  count[u] = Bytes(new, {u}) /\ count[u] <= max_mem
  <2>1. total[u] = Bytes(list, {u}) /\ total[u] <= max_mem
    BY <1>6 DEF Own
  <2>2. CASE u = t
    <3>1. list[b].by = u
      BY <1>6, <2>2
    <3>2. Bytes(new, {u}) + len = total[u]
      BY <1>1, <2>1, <3>1
    <3>3. 0 <= total[u] + (0 - len) /\ total[u] + (0 - len) < SIZE
          /\ total[u] + (0 - len) = Bytes(new, {u}) /\ Bytes(new, {u}) <= max_mem
      BY <1>2, <1>3, <2>1, <3>2, SizeIs
    <3>4. Bytes(new, {u}) % SIZE = Bytes(new, {u})
      <4>1. Bytes(new, {u}) \in Int /\ 0 <= Bytes(new, {u}) /\ Bytes(new, {u}) < SIZE
        BY <1>2, <3>3
      <4> QED
        BY <4>1, InSize
    <3>5. count[u] = (total[u] + (0 - len)) % SIZE
      BY <2>2
    <3> QED
      BY <3>3, <3>4, <3>5
  <2>3. CASE u # t
    <3>1. count[u] = total[u]
      BY <1>6, <2>3
    <3>2. list[b].by # u
      BY <1>6, <2>3
    <3>3. Bytes(new, {u}) + 0 = Bytes(list, {u})
      BY <1>1, <3>2
    <3> QED
      BY <1>2, <2>1, <3>1, <3>3
  <2> QED
    BY <2>2, <2>3
<1> QED
  BY <1>1, <1>4, <1>5, <1>6 DEF Own, new

(* Nothing but the end of the process.                                     *)
LEMMA EndedKeeps ==
  ASSUME DislocatorInv, ended' \in BOOLEAN,
         UNCHANGED <<options, total_mem, blocks, strangers>>
  PROVE  DislocatorInv'
BY DEF DislocatorInv, DislocatorTyped

LEMMA MallocKeeps ==
  ASSUME DislocatorInv, NEW t \in Threads, NEW len \in Sizes, Malloc(t, len)
  PROVE  DislocatorInv'
<1>1. CASE Allocated(t, len)
  <2>1. /\ total_mem' \in [Threads -> Sizes] /\ blocks' \in Seq(Block)
        /\ Balanced(total_mem', blocks') /\ Own(total_mem', blocks', Threads \ strangers)
    BY <1>1, AllocatedKeeps DEF Allocated
  <2>2. UNCHANGED <<options, ended, strangers>>
    BY <1>1 DEF Allocated
  <2> QED
    BY <2>1, <2>2 DEF DislocatorInv, DislocatorTyped
<1>2. CASE Unavailable \/ Abort
  <2>1. ended' \in BOOLEAN
    BY <1>2 DEF Unavailable, Abort, DislocatorInv, DislocatorTyped
  <2> QED
    BY <1>2, <2>1, EndedKeeps DEF Unavailable, Abort
<1> QED
  BY <1>1, <1>2 DEF Malloc

LEMMA FreeKeeps ==
  ASSUME DislocatorInv, NEW t \in Threads, NEW b \in DOMAIN blocks, Free(t, b)
  PROVE  DislocatorInv'
<1>1. CASE Abort
  BY <1>1, EndedKeeps DEF Abort
<1>2. CASE ~Abort
  <2>1. /\ ~blocks[b].freed
        /\ total_mem' = [total_mem EXCEPT ![t] = (@ - blocks[b].len) % SIZE]
        /\ blocks' = [blocks EXCEPT ![b].freed = TRUE]
        /\ strangers' = strangers \cup (IF blocks[b].by = t THEN {} ELSE {t, blocks[b].by})
        /\ UNCHANGED <<options, ended>>
    BY <1>2 DEF Free, Freed, Met
  <2>2. /\ total_mem \in [Threads -> Sizes] /\ blocks \in Seq(Block)
        /\ Balanced(total_mem, blocks) /\ Own(total_mem, blocks, Threads \ strangers)
    BY DEF DislocatorInv, DislocatorTyped
  <2>3. /\ total_mem' \in [Threads -> Sizes] /\ blocks' \in Seq(Block)
        /\ Balanced(total_mem', blocks')
        /\ Own(total_mem', blocks',
               (Threads \ strangers) \ (IF blocks[b].by = t THEN {} ELSE {t, blocks[b].by}))
    BY <2>1, <2>2, FreedKeeps
  <2>4. strangers' \subseteq Threads
    <3>1. blocks[b] \in Block
      BY <2>2
    <3> QED
      BY <2>1, <3>1 DEF Block, DislocatorInv, DislocatorTyped
  <2>5. Threads \ strangers' =
          (Threads \ strangers) \ (IF blocks[b].by = t THEN {} ELSE {t, blocks[b].by})
    BY <2>1
  <2> QED
    BY <2>1, <2>3, <2>4, <2>5
       DEF DislocatorInv, DislocatorTyped
<1> QED
  BY <1>1, <1>2

LEMMA ReallocKeeps ==
  ASSUME DislocatorInv, NEW t \in Threads, NEW b \in DOMAIN blocks, NEW len \in Sizes,
         Realloc(t, b, len)
  PROVE  DislocatorInv'
<1>1. CASE Unavailable \/ Abort
  <2>1. ended' \in BOOLEAN
    BY <1>1 DEF Unavailable, Abort, DislocatorInv, DislocatorTyped
  <2> QED
    BY <1>1, <2>1, EndedKeeps DEF Unavailable, Abort
<1>2. CASE Moved(t, b, len)
  <2> DEFINE count == [total_mem EXCEPT ![t] = (@ + len) % SIZE]
             block == [len |-> len, freed |-> FALSE, by |-> t]
             list  == Append(blocks, block)
             met   == IF blocks[b].by = t THEN {} ELSE {t, blocks[b].by}
  <2>1. /\ ~Exceeds(t, len) /\ ~blocks[b].freed
        /\ total_mem' = [count EXCEPT ![t] = (@ - blocks[b].len) % SIZE]
        /\ blocks' = Append([blocks EXCEPT ![b].freed = TRUE], block)
        /\ strangers' = strangers \cup met
        /\ UNCHANGED <<options, ended>>
    BY <1>2 DEF Moved, Freed, Met
  <2>2. blocks \in Seq(Block) /\ blocks[b] \in Block /\ strangers \subseteq Threads
    BY DEF DislocatorInv, DislocatorTyped
  <2>3. /\ count \in [Threads -> Sizes] /\ list \in Seq(Block)
        /\ Balanced(count, list) /\ Own(count, list, Threads \ strangers)
    BY <2>1, AllocatedKeeps
  <2>4. block \in Block
    BY DEF Block
  <2> HIDE DEF block
  <2>5. b \in DOMAIN list /\ list[b] = blocks[b]
    BY <2>2, <2>4
  <2>6. blocks' = [list EXCEPT ![b].freed = TRUE]
    <3> DEFINE mark == [blocks[b] EXCEPT !.freed = TRUE]
    <3>1. mark \in Block
      BY <2>2 DEF Block
    <3>2. /\ [blocks EXCEPT ![b].freed = TRUE] = [blocks EXCEPT ![b] = mark]
          /\ [list EXCEPT ![b].freed = TRUE] = [list EXCEPT ![b] = mark]
      BY <2>2, <2>3, <2>5
    <3> HIDE DEF mark
    <3>3. Append([blocks EXCEPT ![b] = mark], block) = [Append(blocks, block) EXCEPT ![b] = mark]
      <4> DEFINE n == Len(blocks)
                 f == Append([blocks EXCEPT ![b] = mark], block)
                 g == [Append(blocks, block) EXCEPT ![b] = mark]
      <4>1. /\ [blocks EXCEPT ![b] = mark] \in Seq(Block)
            /\ Len([blocks EXCEPT ![b] = mark]) = n
        BY <2>2, <3>1, ExceptSeq
      <4>2. /\ f \in Seq(Block) /\ Len(f) = n + 1 /\ f[n + 1] = block
            /\ \A i \in 1 .. n : f[i] = [blocks EXCEPT ![b] = mark][i]
        BY <2>4, <4>1, AppendProperties
      <4>3. /\ Append(blocks, block) \in Seq(Block) /\ Len(Append(blocks, block)) = n + 1
            /\ Append(blocks, block)[n + 1] = block
            /\ \A i \in 1 .. n : Append(blocks, block)[i] = blocks[i]
        BY <2>2, <2>4, AppendProperties
      <4>4. b \in 1 .. n /\ b \in 1 .. n + 1 /\ n \in Nat
        BY <2>2
      <4>5. /\ g \in Seq(Block) /\ Len(g) = n + 1
            /\ \A i \in 1 .. n + 1 : g[i] = IF i = b THEN mark ELSE Append(blocks, block)[i]
        <5> DEFINE h == Append(blocks, block)
        <5>1. h \in Seq(Block) /\ b \in 1 .. Len(h) /\ Len(h) = n + 1
          BY <4>3, <4>4
        <5> HIDE DEF h
        <5>2. /\ [h EXCEPT ![b] = mark] \in Seq(Block) /\ Len([h EXCEPT ![b] = mark]) = Len(h)
              /\ \A i \in 1 .. Len(h) :
                   [h EXCEPT ![b] = mark][i] = IF i = b THEN mark ELSE h[i]
          BY <3>1, <5>1, ExceptSeq
        <5> QED
          BY <5>1, <5>2 DEF h
      <4>6. \A i \in 1 .. n : [blocks EXCEPT ![b] = mark][i] = IF i = b THEN mark ELSE blocks[i]
        BY <2>2
      <4> HIDE DEF f, g, n
      <4>7. \A i \in 1 .. n + 1 : f[i] = g[i]
        <5>1. ASSUME NEW i \in 1 .. n PROVE f[i] = g[i]
          BY <4>2, <4>3, <4>4, <4>5, <4>6
        <5>2. f[n + 1] = g[n + 1]
          BY <4>2, <4>3, <4>4, <4>5
        <5> QED
          BY <4>4, <5>1, <5>2
      <4>8. f = g
        BY <4>2, <4>5, <4>7, SeqEqual
      <4> QED
        BY <4>8 DEF f, g
    <3> QED
      BY <2>1, <3>2, <3>3
  <2> HIDE DEF list, count
  <2>7. /\ total_mem' \in [Threads -> Sizes] /\ blocks' \in Seq(Block)
        /\ Balanced(total_mem', blocks')
        /\ Own(total_mem', blocks', (Threads \ strangers) \ met)
    <3> DEFINE S == Threads \ strangers
    <3>1. S \in SUBSET Threads /\ ~list[b].freed
      BY <2>1, <2>5
    <3> HIDE DEF S
    <3>2. LET after == [count EXCEPT ![t] = (@ - list[b].len) % SIZE]
              new   == [list EXCEPT ![b].freed = TRUE]
              seen  == IF list[b].by = t THEN {} ELSE {t, list[b].by}
          IN  /\ after \in [Threads -> Sizes] /\ new \in Seq(Block)
              /\ Balanced(after, new) /\ Own(after, new, S \ seen)
      <4>1. Own(count, list, S)
        BY <2>3 DEF S
      <4> QED
        BY <2>3, <2>5, <3>1, <4>1, FreedKeeps
    <3> QED
      BY <2>1, <2>5, <2>6, <3>2 DEF S
  <2>8. strangers' \subseteq Threads /\ Threads \ strangers' = (Threads \ strangers) \ met
    BY <2>1, <2>2 DEF Block
  <2> QED
    BY <2>1, <2>7, <2>8
       DEF DislocatorInv, DislocatorTyped
<1> QED
  BY <1>1, <1>2 DEF Realloc

LEMMA DislocatorStep == ASSUME DislocatorInv, DislocatorNext PROVE DislocatorInv'
<1>1. PICK t \in Threads :
        \/ \E len \in Sizes : Malloc(t, len)
        \/ \E elem_len, elem_cnt \in Sizes : Calloc(t, elem_len, elem_cnt)
        \/ \E b \in DOMAIN blocks : Free(t, b) \/ \E len \in Sizes : Realloc(t, b, len)
  BY DEF DislocatorNext
<1>2. ASSUME NEW elem_len \in Sizes, NEW elem_cnt \in Sizes, Calloc(t, elem_len, elem_cnt)
      PROVE  DislocatorInv'
  <2>1. elem_len * elem_cnt \in Int
    <3>1. elem_len \in Int /\ elem_cnt \in Int
      BY SizeIs DEF Sizes
    <3> QED
      BY <3>1
  <2>2. (elem_len * elem_cnt) % SIZE \in Sizes
    BY <2>1, InSize
  <2>3. CASE Overflows(elem_len, elem_cnt)
    <3>1. ended' \in BOOLEAN /\ UNCHANGED <<options, total_mem, blocks, strangers>>
      BY <1>2, <2>3 DEF Calloc
    <3> QED
      BY <3>1, EndedKeeps
  <2>4. CASE ~Overflows(elem_len, elem_cnt)
    <3>1. Malloc(t, (elem_len * elem_cnt) % SIZE)
      BY <1>2, <2>4 DEF Calloc
    <3> QED
      BY <2>2, <3>1, MallocKeeps
  <2> QED
    BY <2>3, <2>4
<1> QED
  BY <1>1, <1>2, MallocKeeps, FreeKeeps, ReallocKeeps

LEMMA DislocatorStay == ASSUME DislocatorInv, UNCHANGED dislocatorVars PROVE DislocatorInv'
BY DEF DislocatorInv, DislocatorTyped, dislocatorVars

LEMMA CountsAreRight == ASSUME DislocatorInv PROVE BytesCounted
<1>1. \A S : LiveOf(S) = Bytes(blocks, S)
  BY DEF LiveOf, Bytes, Lens
<1>2. Total(total_mem) % SIZE = Bytes(blocks, Threads) % SIZE
  <2>1. PICK k \in Int : Total(total_mem) = Bytes(blocks, Threads) + k * SIZE
    BY DEF DislocatorInv, Balanced
  <2>2. Bytes(blocks, Threads) \in Int /\ SIZE \in Nat \ {0}
    BY LensTyped, SizeIs DEF DislocatorInv, DislocatorTyped
  <2> QED
    BY <2>1, <2>2, Congruent
<1>3. \A t \in Threads \ strangers :
        total_mem[t] = Bytes(blocks, {t}) /\ Bytes(blocks, {t}) <= max_mem
  BY DEF DislocatorInv, Own
<1> QED
  BY <1>1, <1>2, <1>3 DEF BytesCounted

-----------------------------------------------------------------------------
(* afl-as.                                                                 *)

AsTyped ==
  /\ as_options \in [inst_ratio : 0 .. 100, clang_mode : BOOLEAN, use_64bit : BOOLEAN,
                     pass_thru : BOOLEAN]
  /\ place \in Place
  /\ skip_next_label \in BOOLEAN /\ instrument_next \in BOOLEAN
  /\ unmarked \in Nat /\ aligns \in Nat

(* What the tool thinks of the place is so.                                *)
Aware ==
  /\ instr_ok = place.text /\ skip_intel = place.intel /\ skip_app = place.app
  /\ skip_csect = (place.bits64 # as_options.use_64bit)

(* A trampoline is on its way to each function, and to each block but one  *)
(* for each jump table, found already or announced.                        *)
Awaited ==
  /\ "function" \in due => instrument_next
  /\ as_options.inst_ratio = 100 =>
       unmarked + One(skip_next_label) + One(due # {} /\ ~instrument_next) <= aligns

AsInv == AsTyped /\ Aware /\ Awaited /\ ~astray /\ unmarked_functions = 0

LEMMA Ones == ASSUME NEW b PROVE One(b) \in {0, 1} /\ (One(b) = 1 <=> b) /\ (One(b) = 0 <=> ~b)
BY DEF One

LEMMA SkippingIsElsewhere == ASSUME AsTyped, Aware PROVE Skipping <=> ~OwnCode
BY DEF AsTyped, Aware, Place, Skipping, OwnCode

LEMMA AlwaysDrawn ==
  ASSUME NEW draw \in Draws, as_options.inst_ratio = 100
  PROVE  draw = TRUE
<1>1. ~(as_options.inst_ratio < 100)
  OBVIOUS
<1> QED
  BY <1>1 DEF Draws

LEMMA AsStart == ASSUME NEW on \in BOOLEAN, AsInit(on) PROVE AsInv
<1>1. as_options \in [inst_ratio : 0 .. 100, clang_mode : BOOLEAN, use_64bit : BOOLEAN,
                      pass_thru : BOOLEAN]
  <2>1. InstRatios \subseteq 0 .. 100
    <3>1. \A r \in 0 .. 100 : r \div 3 \in 0 .. 100
      OBVIOUS
    <3> QED
      BY <3>1, AssemblerAssumption DEF InstRatios
  <2>2. as_options \in [inst_ratio : (IF on THEN InstRatios ELSE {100}),
                        clang_mode : (IF on THEN BOOLEAN ELSE {FALSE}),
                        use_64bit : (IF on THEN BOOLEAN ELSE {TRUE}),
                        pass_thru : (IF on THEN BOOLEAN ELSE {FALSE})]
    BY DEF AsInit
  <2>3. /\ (IF on THEN InstRatios ELSE {100}) \subseteq 0 .. 100
        /\ (IF on THEN BOOLEAN ELSE {FALSE}) \subseteq BOOLEAN
        /\ (IF on THEN BOOLEAN ELSE {TRUE}) \subseteq BOOLEAN
    <3>1. CASE on
      BY <2>1, <3>1
    <3>2. CASE ~on
      BY <3>2
    <3> QED
      BY <3>1, <3>2
  <2>4. \A A, B, C : A \subseteq 0 .. 100 /\ B \subseteq BOOLEAN /\ C \subseteq BOOLEAN =>
          [inst_ratio : A, clang_mode : B, use_64bit : C, pass_thru : B] \subseteq
            [inst_ratio : 0 .. 100, clang_mode : BOOLEAN, use_64bit : BOOLEAN,
             pass_thru : BOOLEAN]
    OBVIOUS
  <2> QED
    BY <2>2, <2>3, <2>4
<1>2. AsTyped
  BY <1>1 DEF AsInit, AsTyped
<1>3. Aware
  <2>1. place.text \in BOOLEAN /\ place.intel \in BOOLEAN /\ place.app \in BOOLEAN
    BY <1>2 DEF AsTyped, Place
  <2>2. ~place.text /\ ~place.intel /\ ~place.app /\ place.bits64 = as_options.use_64bit
    BY DEF AsInit
  <2>3. instr_ok = FALSE /\ skip_csect = FALSE /\ skip_intel = FALSE /\ skip_app = FALSE
    BY DEF AsInit
  <2> QED
    BY <2>1, <2>2, <2>3 DEF Aware
<1>4. Awaited
  <2>1. One(skip_next_label) = 0 /\ One(due # {} /\ ~instrument_next) = 0
    BY DEF AsInit, One
  <2> QED
    BY <2>1 DEF AsInit, Awaited
<1> QED
  BY <1>2, <1>3, <1>4 DEF AsInit, AsInv

(* The instruction a trampoline has been waiting for.                      *)
LEMMA InstructionStep ==
  ASSUME AsInv, NEW conditional \in BOOLEAN, Instruction(conditional)
  PROVE  AsInv'
<1>1. AsTyped /\ Aware /\ Awaited /\ ~astray /\ unmarked_functions = 0
  BY DEF AsInv
<1>2. PICK draw \in Draws :
       LET before == ~Skipping /\ instrument_next
           after  == ~Skipping /\ conditional /\ draw
       IN  /\ instrument_next' = (instrument_next /\ ~before)
           /\ ins_lines' = ins_lines + One(before) + One(after)
           /\ astray' = (astray \/ ((before \/ after) /\ ~OwnCode))
           /\ unmarked' = unmarked + One(OwnCode /\ due # {} /\ ~before)
                                   + One(OwnCode /\ conditional /\ ~after)
           /\ unmarked_functions' =
                unmarked_functions + One(OwnCode /\ "function" \in due /\ ~before)
           /\ due' = (IF OwnCode THEN {} ELSE due)
  BY DEF Instruction
<1>3. Skipping <=> ~OwnCode
  BY <1>1, SkippingIsElsewhere
<1>4. UNCHANGED <<as_options, place, instr_ok, skip_csect, skip_next_label, skip_intel,
                  skip_app, aligns>>
  BY DEF Instruction, NextLine, skips
<1>5. CASE OwnCode
  <2>1. instrument_next' = FALSE /\ due' = {}
    BY <1>1, <1>2, <1>3, <1>5 DEF AsTyped
  <2>2. ~astray'
    BY <1>1, <1>2, <1>5
  <2>3. unmarked' = unmarked + One(due # {} /\ ~instrument_next) + One(conditional /\ ~draw)
    <3>1. (OwnCode /\ due # {} /\ ~(~Skipping /\ instrument_next)) = (due # {} /\ ~instrument_next)
      BY <1>3, <1>5
    <3>2. (OwnCode /\ conditional /\ ~(~Skipping /\ conditional /\ draw)) = (conditional /\ ~draw)
      BY <1>3, <1>5
    <3> QED
      BY <1>2, <3>1, <3>2
  <2>4. unmarked_functions' = 0
    <3>1. ~(OwnCode /\ "function" \in due /\ ~(~Skipping /\ instrument_next))
      BY <1>1, <1>3, <1>5 DEF Awaited
    <3>2. One(OwnCode /\ "function" \in due /\ ~(~Skipping /\ instrument_next)) = 0
      BY <3>1 DEF One
    <3> QED
      BY <1>1, <1>2, <3>2
  <2>5. unmarked' \in Nat
    BY <1>1, <2>3, Ones DEF AsTyped
  <2>6. ASSUME as_options.inst_ratio = 100
        PROVE  unmarked' + One(skip_next_label)
                 + One(due' # {} /\ ~instrument_next') <= aligns
    <3>1. One(conditional /\ ~draw) = 0
      BY <2>6, AlwaysDrawn DEF One
    <3>2. One(due' # {} /\ ~instrument_next') = 0
      BY <2>1 DEF One
    <3>3. unmarked + One(skip_next_label) + One(due # {} /\ ~instrument_next) <= aligns
      BY <1>1, <2>6 DEF Awaited
    <3> QED
      BY <1>1, <2>3, <3>1, <3>2, <3>3, Ones DEF AsTyped
  <2>7. AsTyped' /\ Aware'
    BY <1>1, <1>4, <2>1, <2>5 DEF AsTyped, Aware
  <2>8. Awaited'
    BY <1>4, <2>1, <2>6 DEF Awaited, One
  <2> QED
    BY <2>2, <2>4, <2>7, <2>8 DEF AsInv
<1>6. CASE ~OwnCode
  <2>1. instrument_next' = instrument_next /\ due' = due /\ ~astray'
    BY <1>1, <1>2, <1>3, <1>6 DEF AsTyped
  <2>2. One(OwnCode /\ due # {} /\ ~(~Skipping /\ instrument_next)) = 0
    BY <1>6 DEF One
  <2>3. One(OwnCode /\ conditional /\ ~(~Skipping /\ conditional /\ draw)) = 0
    BY <1>6 DEF One
  <2>4. One(OwnCode /\ "function" \in due /\ ~(~Skipping /\ instrument_next)) = 0
    BY <1>6 DEF One
  <2>5. unmarked' = unmarked /\ unmarked_functions' = 0
    BY <1>1, <1>2, <2>2, <2>3, <2>4 DEF AsTyped
  <2>6. AsTyped' /\ Aware' /\ Awaited'
    BY <1>1, <1>4, <2>1, <2>5 DEF AsTyped, Aware, Awaited, One
  <2> QED
    BY <1>1, <2>1, <2>5, <2>6 DEF AsInv
<1> QED
  BY <1>5, <1>6

LEMMA AsStep == ASSUME AsInv, AsNext PROVE AsInv'
<1>1. AsTyped /\ Aware /\ Awaited /\ ~astray /\ unmarked_functions = 0
  BY DEF AsInv
<1>2. Skipping <=> ~OwnCode
  BY <1>1, SkippingIsElsewhere
<1>3. CASE CopyLine \/ OtherLine \/ EndOfFile
  <2>1. UNCHANGED <<as_options, place, instr_ok, skips, instrument_next, asHistory>>
    BY <1>3 DEF CopyLine, OtherLine, EndOfFile, NextLine
  <2> QED
    BY <2>1 DEF AsInv, AsTyped, Aware, Awaited, One, skips, asHistory
<1>4. ASSUME NEW b \in BOOLEAN, Section(b) \/ CodeSize(b) \/ Syntax(b) \/ AdHocBlock(b)
      PROVE  AsInv'
  <2>1. /\ UNCHANGED <<as_options, skip_next_label, instrument_next, due, aligns, unmarked,
                       unmarked_functions, astray>>
    BY <1>4 DEF Section, CodeSize, Syntax, AdHocBlock, NextLine, skips, asHistory
  <2>2. place' \in Place /\ Aware'
    <3>1. CASE Section(b)
      BY <1>1, <3>1 DEF AsTyped, Place, Aware, Section, NextLine, skips
    <3>2. CASE CodeSize(b)
      BY <1>1, <3>2 DEF AsTyped, Place, Aware, CodeSize, NextLine
    <3>3. CASE Syntax(b)
      BY <1>1, <3>3 DEF AsTyped, Place, Aware, Syntax, NextLine
    <3>4. CASE AdHocBlock(b)
      BY <1>1, <3>4 DEF AsTyped, Place, Aware, AdHocBlock, NextLine
    <3> QED
      BY <1>4, <3>1, <3>2, <3>3, <3>4
  <2>3. AsTyped' /\ Awaited'
    BY <1>1, <2>1, <2>2 DEF AsTyped, Awaited, One
  <2> QED
    BY <1>1, <2>1, <2>2, <2>3 DEF AsInv
<1>5. CASE P2Align
  <2>1. /\ UNCHANGED <<as_options, place, instr_ok, skip_csect, skip_intel, skip_app,
                       instrument_next, due, unmarked, unmarked_functions, astray>>
        /\ skip_next_label' = (skip_next_label \/ (~as_options.clang_mode /\ instr_ok))
        /\ aligns' = aligns + 1
    BY <1>5 DEF P2Align, NextLine
  <2>2. AsTyped' /\ Aware'
    BY <1>1, <2>1 DEF AsTyped, Aware, Place
  <2>3. ASSUME as_options.inst_ratio = 100
        PROVE  unmarked + One(skip_next_label') + One(due # {} /\ ~instrument_next) <= aligns + 1
    <3>1. unmarked + One(skip_next_label) + One(due # {} /\ ~instrument_next) <= aligns
      BY <1>1, <2>3 DEF Awaited
    <3> QED
      BY <1>1, <3>1, Ones DEF AsTyped
  <2>4. Awaited'
    BY <1>1, <2>1, <2>3 DEF Awaited, One
  <2> QED
    BY <1>1, <2>1, <2>2, <2>4 DEF AsInv
<1>6. CASE FunctionLabel
  <2>1. /\ UNCHANGED <<as_options, place, instr_ok, skips, aligns, unmarked,
                       unmarked_functions, astray>>
        /\ instrument_next' = (instrument_next \/ OwnCode)
        /\ due' = IF OwnCode THEN due \cup {"function"} ELSE due
    BY <1>2, <1>6 DEF FunctionLabel, NextLine
  <2>2. AsTyped' /\ Aware'
    BY <1>1, <2>1 DEF AsTyped, Aware, skips
  <2>3. "function" \in due' => instrument_next'
    BY <1>1, <2>1 DEF Awaited
  <2>4. One(due' # {} /\ ~instrument_next') <= One(due # {} /\ ~instrument_next)
    <3>1. CASE OwnCode
      <4>1. ~(due' # {} /\ ~instrument_next')
        BY <2>1, <3>1
      <4>2. One(due' # {} /\ ~instrument_next') = 0
        BY <4>1, Ones
      <4> QED
        BY <4>2, Ones
    <3>2. CASE ~OwnCode
      <4>1. instrument_next' = instrument_next /\ due' = due
        BY <1>1, <2>1, <3>2 DEF AsTyped
      <4> QED
        BY <4>1, Ones
    <3> QED
      BY <3>1, <3>2
  <2>5. ASSUME as_options.inst_ratio = 100
        PROVE  unmarked + One(skip_next_label) + One(due' # {} /\ ~instrument_next') <= aligns
    <3>1. unmarked + One(skip_next_label) + One(due # {} /\ ~instrument_next) <= aligns
      BY <1>1, <2>5 DEF Awaited
    <3> QED
      BY <1>1, <2>4, <3>1, Ones DEF AsTyped
  <2>6. Awaited'
    BY <2>1, <2>3, <2>5 DEF Awaited, One, skips
  <2> QED
    BY <1>1, <2>1, <2>2, <2>6 DEF AsInv
<1>7. ASSUME NEW b \in BOOLEAN, BranchLabel(b)
      PROVE  AsInv'
  <2>1. PICK draw \in Draws :
          /\ instrument_next' = (instrument_next \/ (~Skipping /\ draw /\ ~skip_next_label))
          /\ skip_next_label' = (skip_next_label /\ ~(~Skipping /\ draw))
    BY <1>7 DEF BranchLabel, SkipsOnce
  <2>2. /\ UNCHANGED <<as_options, place, instr_ok, skip_csect, skip_intel, skip_app, aligns,
                       unmarked, unmarked_functions, astray>>
        /\ due' = IF OwnCode THEN due \cup {"branch"} ELSE due
    BY <1>7 DEF BranchLabel, NextLine
  <2>3. skip_next_label' \in BOOLEAN /\ instrument_next' \in BOOLEAN
    BY <2>1
  <2>4. AsTyped' /\ Aware'
    BY <1>1, <2>2, <2>3 DEF AsTyped, Aware
  <2>5. "function" \in due' => instrument_next'
    BY <1>1, <2>1, <2>2 DEF Awaited
  <2>6. ASSUME as_options.inst_ratio = 100
        PROVE  unmarked + One(skip_next_label') + One(due' # {} /\ ~instrument_next') <= aligns
    <3>1. unmarked + One(skip_next_label) + One(due # {} /\ ~instrument_next) <= aligns
      BY <1>1, <2>6 DEF Awaited
    <3>2. draw = TRUE
      BY <2>6, AlwaysDrawn
    <3>3. One(skip_next_label') + One(due' # {} /\ ~instrument_next')
            <= One(skip_next_label) + One(due # {} /\ ~instrument_next)
      <4>1. CASE OwnCode
        <5>1. instrument_next' = (instrument_next \/ ~skip_next_label) /\ skip_next_label' = FALSE
          BY <1>2, <2>1, <3>2, <4>1
        <5>2. One(skip_next_label') = 0
          BY <5>1, Ones
        <5>3. CASE skip_next_label
          <6>1. One(skip_next_label) = 1
            BY <5>3 DEF One
          <6> QED
            BY <5>2, <6>1, Ones
        <5>4. CASE ~skip_next_label
          <6>1. ~(due' # {} /\ ~instrument_next')
            BY <5>1, <5>4
          <6>2. One(due' # {} /\ ~instrument_next') = 0
            BY <6>1, Ones
          <6> QED
            BY <5>2, <6>2, Ones
        <5> QED
          BY <5>3, <5>4
      <4>2. CASE ~OwnCode
        <5>1. instrument_next' = instrument_next /\ skip_next_label' = skip_next_label
          BY <1>1, <1>2, <2>1, <4>2 DEF AsTyped
        <5> QED
          BY <2>2, <4>2, <5>1, Ones DEF One
      <4> QED
        BY <4>1, <4>2
    <3> QED
      BY <1>1, <3>1, <3>3, Ones DEF AsTyped
  <2>7. Awaited'
    BY <2>2, <2>5, <2>6 DEF Awaited, One
  <2> QED
    BY <1>1, <2>2, <2>4, <2>7 DEF AsInv
<1> QED
  BY <1>3, <1>4, <1>5, <1>6, <1>7, InstructionStep DEF AsNext

LEMMA AsStay == ASSUME AsInv, UNCHANGED asVars PROVE AsInv'
BY DEF AsInv, AsTyped, Aware, Awaited, One, asVars, skips, asHistory

-----------------------------------------------------------------------------
(* The parts together.                                                     *)

IInv == TMinInv /\ DictInv /\ DislocatorInv /\ AsInv

LEMMA InitIInv == Init => IInv
<1> SUFFICES ASSUME Init PROVE IInv
  OBVIOUS
<1>1. PICK name \in {"tmin", "dictionary", "dislocator", "assembler"} : Part(name)
  BY DEF Init
<1>2. /\ TMinInit(name = "tmin") /\ DictInit(name = "dictionary")
      /\ DislocatorInit(name = "dislocator") /\ AsInit(name = "assembler")
  BY <1>1 DEF Part
<1>3. \A part : (name = part) \in BOOLEAN
  OBVIOUS
<1>4. TMinInv /\ DictInv
  BY <1>2, <1>3, TMinStart, DictStart
<1>5. DislocatorInv /\ AsInv
  BY <1>2, <1>3, DislocatorStart, AsStart
<1> QED
  BY <1>4, <1>5 DEF IInv

LEMMA NextIInv == IInv /\ [Next]_vars => IInv'
<1> SUFFICES ASSUME IInv, [Next]_vars PROVE IInv'
  OBVIOUS
<1>0. TMinInv /\ DictInv /\ DislocatorInv /\ AsInv
  BY DEF IInv
<1>1. CASE (Work \/ HandleStopSig) /\ UNCHANGED <<dictVars, dislocatorVars, asVars>>
  <2>1. TMinInv'
    <3>1. TMinTyped'
      BY <1>0, <1>1, TMinTypedStep
    <3>2. Faithful'
      BY <1>0, <1>1, FaithfulStep
    <3>3. Minimal'
      BY <1>0, <1>1, MinimalStep
    <3> QED
      BY <3>1, <3>2, <3>3 DEF TMinInv
  <2> QED
    BY <1>0, <1>1, <2>1, DictStay, DislocatorStay, AsStay DEF IInv
<1>2. CASE DictNext /\ UNCHANGED <<tminVars, dislocatorVars, asVars>>
  BY <1>0, <1>2, TMinStay, DictStep, DislocatorStay, AsStay DEF IInv
<1>3. CASE DislocatorNext /\ UNCHANGED <<tminVars, dictVars, asVars>>
  BY <1>0, <1>3, TMinStay, DictStay, DislocatorStep, AsStay DEF IInv
<1>4. CASE AsNext /\ UNCHANGED <<tminVars, dictVars, dislocatorVars>>
  BY <1>0, <1>4, TMinStay, DictStay, DislocatorStay, AsStep DEF IInv
<1>5. CASE UNCHANGED vars
  <2>1. UNCHANGED <<tminVars, dictVars, dislocatorVars, asVars>>
    BY <1>5 DEF vars
  <2> QED
    BY <1>0, <2>1, TMinStay, DictStay, DislocatorStay, AsStay DEF IInv
<1> QED
  BY <1>1, <1>2, <1>3, <1>4, <1>5 DEF Next, Minimise

LEMMA Always == Spec => []IInv
<1> QED
  BY InitIInv, NextIInv, PTL DEF Spec

(* However minimize ends, the file that afl-tmin writes is one the target  *)
(* was seen to treat like the first, unless the first run had not ended.   *)
THEOREM OutputIsFaithful == Spec => []OutputFaithful
<1>1. IInv => OutputFaithful
  BY DEF IInv, TMinInv, TMinTyped, Faithful, OutputFaithful
<1> QED
  BY <1>1, Always, PTL

(* The result cannot be made shorter by any one byte: each such file was   *)
(* run in vain, unless a run was cut off by the timeout.                   *)
THEOREM ResultIsOneMinimal == Spec => []OneMinimal
<1>1. IInv => OneMinimal
  BY DEF IInv, TMinInv, TMinTyped, Minimal, Tried, OneMinimal, in_len
<1> QED
  BY <1>1, Always, PTL

(* Over any number of stops, resumes and deaths a fuzzing session has the  *)
(* tokens it was first given, in memory and on disk.                       *)
THEOREM DictionariesSurvive == Spec => []TokensKept
<1>1. IInv => TokensKept
  BY TokensAreKept DEF IInv
<1> QED
  BY <1>1, Always, PTL

(* The counts of the threads are the bytes in use, and keep to the limit.  *)
THEOREM AllBytesCounted == Spec => []BytesCounted
<1>1. IInv => BytesCounted
  BY CountsAreRight DEF IInv
<1> QED
  BY <1>1, Always, PTL

(* No trampoline of afl-as is put outside the code of the program, every   *)
(* function begins with one, and at a ratio of 100 no more blocks are      *)
(* without one than jump tables were announced.                            *)
THEOREM BlocksAreMarked == Spec => []BlocksMarked
<1>1. IInv => BlocksMarked
  BY DEF IInv, AsInv, AsTyped, Awaited, One, BlocksMarked
<1> QED
  BY <1>1, Always, PTL
=============================================================================
