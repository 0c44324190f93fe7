---------------------------- MODULE FuzzOneProofs ----------------------------
(***************************************************************************)
(* Proofs about FuzzOne and the solver it embeds, for every value of their *)
(* constants.  The inductive invariant IInv says which of the buffers are  *)
(* test cases (Typed), where out_buf is the input again and how much is    *)
(* allocated for it (Buffers), which bytes of out_buf the solver has not   *)
(* put back yet (Solver), and what the partner of a splice is (Splicing).  *)
(***************************************************************************)
EXTENDS FuzzOne, SequenceTheorems, WellFoundedInduction, TLAPS

(* What a test case may be.                                                *)
Cases == {c \in Seq(Byte) : Len(c) \in 1 .. MAX_FILE}

Solving == {"point", "epsilon", "centre", "component", "neighbour",
           "compare", "step", "try", "converge", "solved"}
InDescent == pc \in Solving
Fresh == pc \in {"score", "stages"} \/ InDescent

Typed ==
  /\ queue \in Seq(Cases)
  /\ in_buf \in Cases
  /\ out_buf \in Cases
  /\ alloc \in Nat
  /\ current_entry \in 0 .. queued_paths - 1

Buffers ==
  /\ pc \in {"score", "stages", "havoc", "cycle"} => out_buf = in_buf
  /\ Fresh \/ pc \in {"havoc", "cycle"} => alloc >= len
  /\ pc = "tweak" => alloc >= temp_len /\ temp_len <= AtLeast(len, MAX_FILE - 1)

(* The bytes in which out_buf may differ from the point.                   *)
Points == [Dims -> Int]
AgreesOff(these) == \A i \in Dims \ these : out_buf[i] = AsByte(x[i])

Solver ==
  /\ InDescent => Len(out_buf) = len /\ x \in Points
  /\ pc \in {"point", "epsilon", "centre"} => mIdx = 0 /\ pIdx = 0
  /\ pc = "component" => AgreesOff({mIdx})
  /\ pc = "neighbour" => AgreesOff({mIdx, pIdx})
  /\ pc = "compare" => AgreesOff({})
  /\ pc \in {"neighbour", "compare"} => d \in Dims /\ mIdx = d
  /\ pc = "try" => back \in Points
  /\ pc = "try" \/ (pc = "step" /\ tries # 0) => tried \in Points
  /\ pc \in {"component", "neighbour", "compare"} => d \in Nat
  /\ tries \in Nat

Splicing ==
  /\ Fresh => target = NoTarget
  /\ pc = "diff" =>
       /\ target \in (0 .. queued_paths - 1) \ {current_entry}
       /\ in_buf = Case(current_entry)
  /\ pc = "havoc" /\ target # NoTarget =>
       target # current_entry /\ in_buf # Case(current_entry)

IInv == Typed /\ Buffers /\ Solver /\ Splicing

-----------------------------------------------------------------------------
(* Test cases and the operators that change them.                          *)

LEMMA ConstantsTyped ==
  /\ W \in Nat \ {0} /\ MAX_FILE \in Nat
  /\ HAVOC_BLK_XL \in Nat \ {0}
  /\ \A e \in Extras : e \in Seq(Byte) /\ Len(e) \in Nat \ {0}
  /\ \A b \in BlockBounds :
       b[1] \in Nat /\ b[2] \in Nat /\ 1 <= b[1] /\ b[1] <= b[2] /\ b[2] <= HAVOC_BLK_XL
  /\ NoTarget \notin Nat
<1>1. \A e \in Extras : e \in Seq(Byte) /\ Len(e) \in Nat \ {0}
  BY FuzzOneAssumption, EmptySeq
<1>2. \A b \in BlockBounds :
       b[1] \in Nat /\ b[2] \in Nat /\ 1 <= b[1] /\ b[1] <= b[2] /\ b[2] <= HAVOC_BLK_XL
  BY FuzzOneAssumption
<1> QED
  BY <1>1, <1>2, FuzzOneAssumption, DescentAssumption DEF NoTarget

LEMMA ByteOfComponent == ASSUME NEW r \in Int PROVE AsByte(r) \in Byte
  BY ConstantsTyped DEF AsByte, Byte

(* A sequence of bytes, given by its length and its elements.              *)
LEMMA CaseOf ==
  ASSUME NEW n \in 1 .. MAX_FILE, NEW c, c \in [1 .. n -> Byte]
  PROVE  c \in Cases /\ Len(c) = n
<1>1. c \in Seq(Byte) /\ Len(c) = n
  BY ConstantsTyped
<1> QED
  BY <1>1 DEF Cases

(* What the solver writes is a test case, and where.                       *)
LEMMA WrittenCase ==
  ASSUME Typed, NEW v \in Points, Len(out_buf) = len
  PROVE  /\ Written(v) \in Cases /\ Len(Written(v)) = len
         /\ \A i \in Dims :
              Written(v)[i] = IF (mIdx = 0 /\ pIdx = 0) \/ i \in {mIdx, pIdx}
                              THEN AsByte(v[i]) ELSE out_buf[i]
<1>1. out_buf \in Seq(Byte) /\ in_buf \in Seq(Byte) /\ len \in 1 .. MAX_FILE
  BY DEF Typed, Cases, len
<1>2. DOMAIN out_buf = Dims /\ \A i \in Dims : out_buf[i] \in Byte
  BY <1>1 DEF Dims, len
<1>3. \A i \in Dims : AsByte(v[i]) \in Byte
  BY ByteOfComponent DEF Points
<1>4. Dims = 1 .. len
  BY DEF Dims, len
<1>5. CASE mIdx = 0 /\ pIdx = 0
  <2>1. Written(v) = [i \in Dims |-> AsByte(v[i])]
    BY <1>5 DEF Written, AsBytes, Dims
  <2>2. Written(v) \in [Dims -> Byte]
    BY <1>3, <2>1
  <2> QED
    BY <1>1, <1>4, <1>5, <2>1, <2>2, CaseOf
<1>6. CASE ~(mIdx = 0 /\ pIdx = 0)
  <2>1. Written(v) = [i \in Dims |-> IF i \in {mIdx, pIdx} THEN AsByte(v[i]) ELSE out_buf[i]]
    BY <1>2, <1>6 DEF Written
  <2>2. Written(v) \in [Dims -> Byte]
    BY <1>2, <1>3, <2>1
  <2> QED
    BY <1>1, <1>4, <1>6, <2>1, <2>2, CaseOf
<1> QED
  BY <1>5, <1>6

(* A run leaves the queue as it is or adds the input to its end.           *)
Grows ==
  /\ queue' \in Seq(Cases)
  /\ Len(queue') \in Nat /\ Len(queue') >= Len(queue)
  /\ \A n \in 0 .. queued_paths - 1 : queue'[n + 1] = Case(n)

LEMMA RunGrows ==
  ASSUME Typed, NEW buf \in Cases, NEW ret, common_fuzz_stuff(buf, ret)
  PROVE  Grows
<1>1. queue \in Seq(Cases) /\ Len(queue) \in Nat
  BY DEF Typed
<1>2. CASE queue' = queue
  BY <1>1, <1>2 DEF Grows, Case, queued_paths
<1>3. CASE queue' = Append(queue, buf)
  <2>1. queue' \in Seq(Cases) /\ Len(queue') = Len(queue) + 1
    BY <1>1, <1>3
  <2>2. \A n \in 1 .. Len(queue) : queue'[n] = queue[n]
    BY <1>1, <1>3
  <2> QED
    BY <1>1, <2>1, <2>2 DEF Grows, Case, queued_paths
<1> QED
  BY <1>2, <1>3 DEF common_fuzz_stuff, Rejected, RunInterrupted, TooManyTimeouts,
     EntrySkipped, InputJudged

LEMMA ValueRuns ==
  ASSUME Typed, x \in Points, Len(out_buf) = len, Value
  PROVE  /\ Grows
         /\ out_buf' \in Cases /\ Len(out_buf') = len
         /\ \A i \in Dims :
              out_buf'[i] = IF (mIdx = 0 /\ pIdx = 0) \/ i \in {mIdx, pIdx}
                            THEN AsByte(x[i]) ELSE out_buf[i]
<1>1. out_buf' = Written(x) /\ \E ret \in {0, 1} : common_fuzz_stuff(out_buf', ret)
  BY DEF Value
<1>2. Grows
  BY <1>1, WrittenCase, RunGrows
<1> QED
  BY <1>1, <1>2, WrittenCase

LEMMA BlockLengths ==
  ASSUME NEW limit \in Nat \ {0}, NEW n \in choose_block_len(limit)
  PROVE  n \in 1 .. limit /\ n <= HAVOC_BLK_XL
<1>1. PICK b \in BlockBounds :
        n \in (IF b[1] >= limit THEN 1 ELSE b[1]) .. AtMost(limit, b[2])
  BY DEF choose_block_len
<1> QED
  BY <1>1, ConstantsTyped DEF AtMost

LEMMA OverwrittenCase ==
  ASSUME Typed, NEW at \in Int, NEW bytes \in Seq(Byte)
  PROVE  Overwritten(at, bytes) \in Cases /\ Len(Overwritten(at, bytes)) = temp_len
<1>1. out_buf \in Seq(Byte) /\ temp_len \in 1 .. MAX_FILE /\ DOMAIN out_buf = 1 .. temp_len
  BY DEF Typed, Cases, temp_len
<1>2. \A i \in 1 .. temp_len : out_buf[i] \in Byte
  BY <1>1 DEF temp_len
<1>3. \A j \in DOMAIN bytes : bytes[j] \in Byte
  OBVIOUS
<1>4. Overwritten(at, bytes) \in [1 .. temp_len -> Byte]
  BY <1>1, <1>2, <1>3 DEF Overwritten
<1> QED
  BY <1>1, <1>4, CaseOf

LEMMA BlockBytes ==
  ASSUME Typed, NEW n \in 1 .. temp_len, NEW at \in Places(n)
  PROVE  Block(at, n) \in Seq(Byte) /\ Len(Block(at, n)) = n
<1>1. out_buf \in Seq(Byte) /\ temp_len \in Nat /\ temp_len = Len(out_buf)
  BY DEF Typed, Cases, temp_len
<1>2. at \in Nat /\ at + n <= temp_len
  BY <1>1 DEF Places
<1>3. at + 1 \in 1 .. Len(out_buf) /\ at + n \in 0 .. Len(out_buf)
  BY <1>1, <1>2
<1>4. SubSeq(out_buf, at + 1, at + n) \in Seq(Byte)
  BY <1>1, <1>3
<1>5. Len(SubSeq(out_buf, at + 1, at + n)) = n
  BY <1>1, <1>2, <1>3
<1> QED
  BY <1>4, <1>5 DEF Block

LEMMA FilledBytes ==
  ASSUME NEW n \in Nat, NEW byte \in Byte
  PROVE  Filled(n, byte) \in Seq(Byte) /\ Len(Filled(n, byte)) = n
  BY DEF Filled

LEMMA InsertedCase ==
  ASSUME Typed, NEW at \in 0 .. temp_len, NEW bytes \in Seq(Byte),
         temp_len + Len(bytes) <= MAX_FILE
  PROVE  Inserted(at, bytes) \in Cases /\ Len(Inserted(at, bytes)) = temp_len + Len(bytes)
<1> DEFINE head == SubSeq(out_buf, 1, at)
           tail == SubSeq(out_buf, at + 1, temp_len)
<1>1. out_buf \in Seq(Byte) /\ temp_len \in 1 .. MAX_FILE /\ temp_len = Len(out_buf)
  BY DEF Typed, Cases, temp_len
<1>2. head \in Seq(Byte) /\ Len(head) = at
  BY <1>1
<1>3. tail \in Seq(Byte) /\ Len(tail) = temp_len - at
  BY <1>1
<1>4. Inserted(at, bytes) = head \o bytes \o tail
  BY DEF Inserted
<1> HIDE DEF head, tail
<1>5. head \o bytes \in Seq(Byte) /\ Len(head \o bytes) = at + Len(bytes)
  BY <1>2
<1>6. head \o bytes \o tail \in Seq(Byte) /\ Len(head \o bytes \o tail) = temp_len + Len(bytes)
  <2>1. \A p \in Seq(Byte), q \in Seq(Byte) : p \o q \in Seq(Byte) /\ Len(p \o q) = Len(p) + Len(q)
    OBVIOUS
  <2>2. (head \o bytes) \o tail \in Seq(Byte)
    BY <1>3, <1>5, <2>1
  <2>3. Len((head \o bytes) \o tail) = Len(head \o bytes) + Len(tail)
    BY <1>3, <1>5, <2>1
  <2>4. Len(head \o bytes) + Len(tail) = temp_len + Len(bytes)
    <3>1. Len(bytes) \in Nat /\ temp_len \in Nat
      BY <1>1
    <3> QED
      BY <1>3, <1>5, <3>1
  <2> QED
    BY <2>2, <2>3, <2>4
<1> QED
  BY <1>1, <1>4, <1>6, ConstantsTyped DEF Cases

LEMMA DeletedCase ==
  ASSUME Typed, NEW n \in 1 .. temp_len - 1, NEW at \in Places(n)
  PROVE  LET rest == SubSeq(out_buf, 1, at) \o SubSeq(out_buf, at + n + 1, temp_len)
         IN  rest \in Cases /\ Len(rest) = temp_len - n
<1> DEFINE head == SubSeq(out_buf, 1, at)
           tail == SubSeq(out_buf, at + n + 1, temp_len)
<1>1. out_buf \in Seq(Byte) /\ temp_len \in 1 .. MAX_FILE /\ temp_len = Len(out_buf)
  BY DEF Typed, Cases, temp_len
<1>2. at \in Nat /\ at + n <= temp_len
  BY <1>1 DEF Places
<1>3. head \in Seq(Byte) /\ Len(head) = at
  BY <1>1, <1>2
<1>4. tail \in Seq(Byte) /\ Len(tail) = temp_len - at - n
  BY <1>1, <1>2
<1> HIDE DEF head, tail
<1>5. head \o tail \in Seq(Byte) /\ Len(head \o tail) = temp_len - n
  <2>1. head \o tail \in Seq(Byte) /\ Len(head \o tail) = Len(head) + Len(tail)
    BY <1>3, <1>4, ConcatProperties
  <2> QED
    BY <1>1, <1>2, <1>3, <1>4, <2>1
<1>6. head \o tail \in Cases
  BY <1>1, <1>5, ConstantsTyped DEF Cases
<1> QED
  BY <1>5, <1>6 DEF head, tail

-----------------------------------------------------------------------------
(* Havoc: whatever a tweak does, out_buf stays a test case that fits into  *)
(* the memory it has.                                                      *)

Fits == Len(out_buf') <= AtLeast(len, MAX_FILE - 1) /\ alloc' >= Len(out_buf')
Tweaked == out_buf' \in Cases /\ alloc' \in Nat /\ Fits

LEMMA TweakedInPlace ==
  ASSUME Typed, Buffers, pc = "tweak",
         NEW buf \in Cases, Len(buf) <= temp_len, InPlace(buf)
  PROVE  Tweaked
<1>1. /\ temp_len \in Int /\ Len(buf) \in Int /\ alloc \in Nat
      /\ AtLeast(len, MAX_FILE - 1) \in Int
  BY ConstantsTyped DEF Typed, Cases, temp_len, len, AtLeast
<1>2. alloc >= temp_len /\ temp_len <= AtLeast(len, MAX_FILE - 1)
  BY DEF Buffers
<1>3. out_buf' = buf /\ alloc' = alloc
  BY DEF InPlace
<1> QED
  BY <1>1, <1>2, <1>3 DEF Tweaked, Fits

LEMMA TweakedElsewhere ==
  ASSUME Typed, NEW buf \in Cases, Len(buf) <= MAX_FILE - 1, Replaced(buf)
  PROVE  Tweaked
<1>1. Len(buf) \in Nat /\ len \in Int
  BY DEF Typed, Cases, len
<1>2. out_buf' = buf /\ alloc' = Len(buf)
  BY DEF Replaced
<1>3. Len(buf) <= AtLeast(len, MAX_FILE - 1)
  BY <1>1, ConstantsTyped DEF AtLeast
<1> QED
  BY <1>1, <1>2, <1>3 DEF Tweaked, Fits

LEMMA TweakStep ==
  ASSUME Typed, Buffers, Tweak
  PROVE  Tweaked
<1>1. /\ pc = "tweak" /\ out_buf \in Cases /\ temp_len \in 1 .. MAX_FILE
      /\ Len(out_buf) <= temp_len
  BY ConstantsTyped DEF Tweak, Typed, Cases, temp_len
<1>2. CASE InPlace(out_buf)
  BY <1>1, <1>2, TweakedInPlace
<1>3. ASSUME NEW at \in Int, NEW bytes \in Seq(Byte), InPlace(Overwritten(at, bytes))
      PROVE  Tweaked
  BY <1>1, <1>3, OverwrittenCase, TweakedInPlace
<1>4. ASSUME NEW at \in 0 .. temp_len, NEW bytes \in Seq(Byte),
             temp_len + Len(bytes) <= MAX_FILE - 1, Replaced(Inserted(at, bytes))
      PROVE  Tweaked
  <2>1. temp_len + Len(bytes) <= MAX_FILE
    BY <1>1, <1>4, ConstantsTyped
  <2> QED
    BY <1>4, <2>1, InsertedCase, TweakedElsewhere
<1>5. \A n \in Int : \A at \in Places(n) : at \in Int
  BY <1>1 DEF Places
<1>6. CASE SetNumber
  <2>1. CASE \E n \in {1, 2, 4} : temp_len < n /\ InPlace(out_buf)
    BY <1>2, <2>1
  <2>2. CASE \E n \in {1, 2, 4} : \E at \in Places(n), bytes \in [1 .. n -> Byte] :
               InPlace(Overwritten(at, bytes))
    <3>1. PICK n \in {1, 2, 4} : \E at \in Places(n), bytes \in [1 .. n -> Byte] :
                 InPlace(Overwritten(at, bytes))
      BY <2>2
    <3>2. PICK at \in Places(n), bytes \in [1 .. n -> Byte] : InPlace(Overwritten(at, bytes))
      BY <3>1
    <3>3. at \in Int /\ bytes \in Seq(Byte)
      BY <1>5, <3>1
    <3> QED
      BY <1>3, <3>2, <3>3
  <2> QED
    BY <1>6, <2>1, <2>2 DEF SetNumber
<1>7. CASE DeleteBytes
  <2>1. CASE temp_len >= 2
    <3>1. CASE InPlace(out_buf)
      BY <1>2, <3>1
    <3>2. CASE ~InPlace(out_buf)
      <4>1. PICK n \in choose_block_len(temp_len - 1) : \E at \in Places(n) :
              InPlace(SubSeq(out_buf, 1, at) \o SubSeq(out_buf, at + n + 1, temp_len))
        BY <1>7, <3>2 DEF DeleteBytes
      <4>2. n \in 1 .. temp_len - 1
        BY <1>1, <2>1, <4>1, BlockLengths
      <4>3. PICK at \in Places(n) :
              InPlace(SubSeq(out_buf, 1, at) \o SubSeq(out_buf, at + n + 1, temp_len))
        BY <4>1
      <4> DEFINE rest == SubSeq(out_buf, 1, at) \o SubSeq(out_buf, at + n + 1, temp_len)
      <4>4. rest \in Cases /\ Len(rest) = temp_len - n
        BY <4>2, <4>3, DeletedCase
      <4>5. InPlace(rest)
        BY <4>3
      <4> HIDE DEF rest
      <4>6. Len(rest) <= temp_len
        BY <1>1, <4>2, <4>4
      <4> QED
        BY <1>1, <4>4, <4>5, <4>6, TweakedInPlace
    <3> QED
      BY <3>1, <3>2
  <2>2. CASE ~(temp_len >= 2)
    BY <1>2, <1>7, <2>2 DEF DeleteBytes
  <2> QED
    BY <2>1, <2>2
<1>8. CASE CloneBytes
  <2>1. CASE RoomForBlock
    <3>1. temp_len + HAVOC_BLK_XL < MAX_FILE
      BY <2>1 DEF RoomForBlock
    <3>2. CASE InPlace(out_buf)
      BY <1>2, <3>2
    <3>3. CASE ~InPlace(out_buf)
      <4>1. PICK to \in 0 .. temp_len - 1 :
              \/ \E n \in choose_block_len(temp_len) : \E from \in Places(n) :
                   Replaced(Inserted(to, Block(from, n)))
              \/ \E n \in choose_block_len(HAVOC_BLK_XL), byte \in Byte :
                   Replaced(Inserted(to, Filled(n, byte)))
        BY <1>8, <3>3 DEF CloneBytes
      <4>2. to \in 0 .. temp_len
        BY <1>1, <4>1
      <4>3. CASE \E n \in choose_block_len(temp_len) : \E from \in Places(n) :
                   Replaced(Inserted(to, Block(from, n)))
        <5>1. PICK n \in choose_block_len(temp_len) : \E from \in Places(n) :
                   Replaced(Inserted(to, Block(from, n)))
          BY <4>3
        <5>2. n \in 1 .. temp_len /\ n <= HAVOC_BLK_XL
          BY <1>1, BlockLengths
        <5>3. PICK from \in Places(n) : Replaced(Inserted(to, Block(from, n)))
          BY <5>1
        <5>4. Block(from, n) \in Seq(Byte) /\ Len(Block(from, n)) = n
          BY <5>2, BlockBytes
        <5>5. temp_len + n <= MAX_FILE - 1
          BY <1>1, <3>1, <5>2, ConstantsTyped
        <5> QED
          BY <1>4, <4>2, <5>3, <5>4, <5>5
      <4>4. CASE \E n \in choose_block_len(HAVOC_BLK_XL), byte \in Byte :
                   Replaced(Inserted(to, Filled(n, byte)))
        <5>1. PICK n \in choose_block_len(HAVOC_BLK_XL), byte \in Byte :
                   Replaced(Inserted(to, Filled(n, byte)))
          BY <4>4
        <5>2. n \in 1 .. HAVOC_BLK_XL /\ n \in Nat
          BY ConstantsTyped, BlockLengths
        <5>3. Filled(n, byte) \in Seq(Byte) /\ Len(Filled(n, byte)) = n
          BY <5>2, FilledBytes
        <5>4. temp_len + n <= MAX_FILE - 1
          BY <1>1, <3>1, <5>2, ConstantsTyped
        <5> QED
          BY <1>4, <4>2, <5>1, <5>3, <5>4
      <4> QED
        BY <4>1, <4>3, <4>4
    <3> QED
      BY <3>2, <3>3
  <2>2. CASE ~RoomForBlock
    BY <1>2, <1>8, <2>2 DEF CloneBytes
  <2> QED
    BY <2>1, <2>2
<1>9. CASE CopyBytes
  <2>1. CASE temp_len >= 2
    <3>1. CASE InPlace(out_buf)
      BY <1>2, <3>1
    <3>2. CASE ~InPlace(out_buf)
      <4>1. PICK n \in choose_block_len(temp_len - 1) : \E from, to \in Places(n) :
              \/ InPlace(Overwritten(to, Block(from, n)))
              \/ \E byte \in Byte : InPlace(Overwritten(to, Filled(n, byte)))
        BY <1>9, <3>2 DEF CopyBytes
      <4>2. n \in 1 .. temp_len - 1
        BY <1>1, <2>1, BlockLengths
      <4>3. n \in 1 .. temp_len /\ n \in Nat
        BY <1>1, <4>2
      <4>4. PICK from \in Places(n), to \in Places(n) :
              \/ InPlace(Overwritten(to, Block(from, n)))
              \/ \E byte \in Byte : InPlace(Overwritten(to, Filled(n, byte)))
        BY <4>1
      <4>5. to \in Int
        BY <1>5, <4>3
      <4>6. CASE InPlace(Overwritten(to, Block(from, n)))
        BY <1>3, <4>3, <4>5, <4>6, BlockBytes
      <4>7. CASE \E byte \in Byte : InPlace(Overwritten(to, Filled(n, byte)))
        BY <1>3, <4>3, <4>5, <4>7, FilledBytes
      <4> QED
        BY <4>4, <4>6, <4>7
    <3> QED
      BY <3>1, <3>2
  <2>2. CASE ~(temp_len >= 2)
    BY <1>2, <1>9, <2>2 DEF CopyBytes
  <2> QED
    BY <2>1, <2>2
<1>10. CASE OverwriteExtra
  <2>1. PICK e \in Extras : \/ InPlace(out_buf)
                            \/ \E at \in Places(Len(e)) : InPlace(Overwritten(at, e))
    BY <1>10 DEF OverwriteExtra
  <2>2. e \in Seq(Byte) /\ Len(e) \in Int
    BY ConstantsTyped
  <2>3. CASE \E at \in Places(Len(e)) : InPlace(Overwritten(at, e))
    BY <1>3, <1>5, <2>2, <2>3
  <2> QED
    BY <1>2, <2>1, <2>3
<1>11. CASE InsertExtra
  <2>1. PICK e \in Extras :
          \/ InPlace(out_buf)
          \/ /\ ~(temp_len + Len(e) >= MAX_FILE)
             /\ \E at \in 0 .. temp_len : Replaced(Inserted(at, e))
    BY <1>11 DEF InsertExtra
  <2>2. e \in Seq(Byte) /\ Len(e) \in Nat
    BY ConstantsTyped
  <2>3. CASE InPlace(out_buf)
    BY <1>2, <2>3
  <2>4. CASE /\ ~(temp_len + Len(e) >= MAX_FILE)
             /\ \E at \in 0 .. temp_len : Replaced(Inserted(at, e))
    <3>1. temp_len + Len(e) <= MAX_FILE - 1
      BY <1>1, <2>2, <2>4, ConstantsTyped
    <3> QED
      BY <1>4, <2>2, <2>4, <3>1
  <2> QED
    BY <2>1, <2>3, <2>4
<1> QED
  BY <1>6, <1>7, <1>8, <1>9, <1>10, <1>11 DEF Tweak

-----------------------------------------------------------------------------
(* Splicing.                                                               *)

LEMMA LeastNumber ==
  ASSUME NEW T \in SUBSET Nat, T # {}
  PROVE  \E m \in T : \A k \in T : m <= k
<1>1. PICK m \in T : \A k \in T : ~(<<k, m>> \in OpToRel(<, Nat))
  BY NatLessThanWellFounded, WFMin
<1>2. \A k \in T : ~(k < m)
  BY <1>1 DEF OpToRel
<1> QED
  BY <1>2

LEMMA GreatestNumber ==
  ASSUME NEW n \in Nat, NEW T \in SUBSET (0 .. n), T # {}
  PROVE  \E m \in T : \A k \in T : k <= m
<1> DEFINE U == {n - k : k \in T}
<1>1. U \in SUBSET Nat /\ U # {}
  <2>1. \A k \in T : n - k \in Nat
    OBVIOUS
  <2> QED
    BY <2>1
<1>2. PICK u \in U : \A v \in U : u <= v
  BY <1>1, LeastNumber
<1>3. PICK m \in T : u = n - m
  BY <1>2
<1>4. \A k \in T : n - m <= n - k
  BY <1>2, <1>3
<1>5. \A k \in T : k <= m
  BY <1>4
<1> QED
  BY <1>5

(* A partner is another entry of the queue.                                *)
LEMMA TargetChosen ==
  ASSUME Typed, ChooseTarget
  PROVE  target' = NoTarget \/ target' \in (0 .. queued_paths - 1) \ {current_entry}
<1>1. queued_paths \in Nat
  BY DEF Typed, queued_paths
<1>2. PICK tid \in 0 .. queued_paths - 1 : target' = FirstSuitable(Sought(tid))
  BY DEF ChooseTarget
<1>3. Sought(tid) \in Nat
  BY <1>1, FuzzOneAssumption DEF Sought
<1> DEFINE later == {m \in Sought(tid) .. queued_paths - 1 : Suitable(m)}
<1>4. target' = IF later = {} THEN NoTarget
                ELSE CHOOSE m \in later : \A k \in later : m <= k
  BY <1>2 DEF FirstSuitable
<1>5. CASE later # {}
  <2>1. later \in SUBSET Nat
    BY <1>1, <1>3
  <2>2. \E m \in later : \A k \in later : m <= k
    BY <1>5, <2>1, LeastNumber
  <2>3. target' \in later
    BY <1>4, <1>5, <2>2
  <2> QED
    BY <1>1, <1>3, <2>3 DEF Suitable
<1> QED
  BY <1>4, <1>5

(* The head of the spliced input ends before the last difference, so the   *)
(* byte of that difference is the partner's.                               *)
LEMMA SpliceStep ==
  ASSUME Typed, Splicing, Splice
  PROVE  in_buf' \in Cases /\ in_buf' # Case(current_entry)
<1> DEFINE a == in_buf
           b == Case(target)
           D == Diffs(a, b)
<1>1. /\ a = Case(current_entry) /\ target \in 0 .. queued_paths - 1
      /\ ~TooSimilar
  BY DEF Splice, Splicing
<1>2. a \in Seq(Byte) /\ Len(a) \in Nat
  BY DEF Typed, Cases
<1>3. b \in Seq(Byte) /\ Len(b) \in 1 .. MAX_FILE
  <2>1. queue \in Seq(Cases) /\ target + 1 \in 1 .. Len(queue)
    BY <1>1 DEF Typed, queued_paths
  <2>2. b \in Cases
    BY <2>1 DEF Case
  <2> QED
    BY <2>2 DEF Cases
<1>4. /\ f_diff = IF D = {} THEN -1 ELSE CHOOSE i \in D : \A j \in D : i <= j
      /\ l_diff = IF D = {} THEN -1 ELSE CHOOSE i \in D : \A j \in D : j <= i
  BY DEF f_diff, l_diff
<1>5. D # {}
  BY <1>1, <1>4 DEF TooSimilar
<1>6. \A i \in D : i \in Nat /\ i < Len(a) /\ i < Len(b) /\ a[i + 1] # b[i + 1]
  <2>1. D = {i \in 0 .. (IF Len(a) < Len(b) THEN Len(a) ELSE Len(b)) - 1 : a[i + 1] # b[i + 1]}
    BY DEF Diffs
  <2> QED
    BY <1>2, <1>3, <2>1
<1>7. f_diff \in D /\ \A j \in D : f_diff <= j
  <2>1. D \in SUBSET Nat
    BY <1>6
  <2>2. \E i \in D : \A j \in D : i <= j
    BY <1>5, <2>1, LeastNumber
  <2> QED
    BY <1>4, <1>5, <2>2
<1>8. l_diff \in D
  <2>1. D \in SUBSET (0 .. Len(a))
    BY <1>2, <1>6
  <2>2. \E i \in D : \A j \in D : j <= i
    BY <1>2, <1>5, <2>1, GreatestNumber
  <2> QED
    BY <1>4, <1>5, <2>2
<1>9. PICK split_at \in f_diff .. l_diff - 1 :
        in_buf' = SubSeq(a, 1, split_at) \o SubSeq(b, split_at + 1, Len(b))
  BY DEF Splice, SplitPoints
<1> DEFINE head == SubSeq(a, 1, split_at)
           tail == SubSeq(b, split_at + 1, Len(b))
<1>10. /\ split_at \in Nat /\ split_at < l_diff /\ l_diff \in Nat
       /\ l_diff < Len(a) /\ l_diff < Len(b) /\ a[l_diff + 1] # b[l_diff + 1]
  BY <1>6, <1>7, <1>8, <1>9
<1>11. head \in Seq(Byte) /\ Len(head) = split_at
  BY <1>2, <1>10
<1>12. /\ tail \in Seq(Byte) /\ Len(tail) = Len(b) - split_at
       /\ \A i \in 1 .. Len(b) - split_at : tail[i] = b[split_at + i]
  <2>1. /\ b \in Seq(Byte) /\ split_at + 1 \in 1 .. Len(b) /\ Len(b) \in Nat
        /\ Len(b) - (split_at + 1) + 1 = Len(b) - split_at
    BY <1>3, <1>10
  <2>2. tail \in Seq(Byte) /\ Len(tail) = Len(b) - split_at
    BY <2>1
  <2>3. ASSUME NEW i \in 1 .. Len(b) - split_at PROVE tail[i] = b[split_at + i]
    <3>1. split_at + 1 + i - 1 = split_at + i
      BY <1>10
    <3> QED
      BY <2>1, <3>1
  <2> QED
    BY <2>2, <2>3
<1>13. in_buf' = head \o tail
  BY <1>9
<1> HIDE DEF head, tail, a, b, D
<1>joined. \A p, q \in Seq(Byte) :
        /\ p \o q \in Seq(Byte) /\ Len(p \o q) = Len(p) + Len(q)
        /\ \A i \in 1 .. Len(p) + Len(q) :
             (p \o q)[i] = IF i <= Len(p) THEN p[i] ELSE q[i - Len(p)]
  OBVIOUS
<1>parts. head \in Seq(Byte) /\ tail \in Seq(Byte)
  BY <1>11, <1>12
<1>14. in_buf' \in Cases
  <2>1. head \o tail \in Seq(Byte) /\ Len(head \o tail) = Len(head) + Len(tail)
    BY <1>joined, <1>parts
  <2>2. Len(head) + Len(tail) = Len(b)
    BY <1>3, <1>10, <1>11, <1>12
  <2> QED
    BY <1>3, <1>13, <2>1, <2>2 DEF Cases
<1>15. in_buf'[l_diff + 1] = b[l_diff + 1]
  <2>1. l_diff + 1 - split_at \in 1 .. Len(b) - split_at
    BY <1>3, <1>10
  <2>2. (head \o tail)[l_diff + 1] = tail[l_diff + 1 - split_at]
    <3>1. l_diff + 1 \in 1 .. Len(head) + Len(tail) /\ ~(l_diff + 1 <= Len(head))
      BY <1>3, <1>10, <1>11, <1>12
    <3>2. (head \o tail)[l_diff + 1] = tail[l_diff + 1 - Len(head)]
      <4>1. \A i \in 1 .. Len(head) + Len(tail) :
              (head \o tail)[i] = IF i <= Len(head) THEN head[i] ELSE tail[i - Len(head)]
        BY <1>joined, <1>parts, Zenon
      <4> QED
        BY <1>10, <3>1, <4>1
    <3> QED
      BY <1>11, <3>2
  <2>3. tail[l_diff + 1 - split_at] = b[split_at + (l_diff + 1 - split_at)]
    BY <1>12, <2>1
  <2>4. split_at + (l_diff + 1 - split_at) = l_diff + 1
    BY <1>10
  <2> QED
    BY <1>13, <2>2, <2>3, <2>4
<1> QED
  BY <1>1, <1>10, <1>14, <1>15 DEF a

-----------------------------------------------------------------------------
(* The solver.                                                             *)

LEMMA QueueKept == ASSUME Typed, UNCHANGED queue PROVE Grows
  BY DEF Typed, Grows, Case, queued_paths

(* While the solver runs the rest of fuzz_one does not change.             *)
LEMMA Inside ==
  ASSUME IInv, InDescent, InDescent', Grows, out_buf' \in Cases,
         UNCHANGED <<in_buf, alloc, current_entry, target>>
  PROVE  Typed' /\ Buffers' /\ Splicing'
<1>1. Typed'
  BY DEF IInv, Typed, Grows, queued_paths
<1>2. Buffers'
  BY DEF IInv, Buffers, InDescent, Solving, Fresh, len
<1>3. Splicing'
  BY DEF IInv, Splicing, InDescent, Solving, Fresh, NoTarget
<1> QED
  BY <1>1, <1>2, <1>3

LEMMA ShiftedPoint ==
  ASSUME NEW v \in Points, NEW i \in Dims, NEW by \in Int
  PROVE  /\ Shifted(v, i, by) \in Points
         /\ \A j \in Dims \ {i} : Shifted(v, i, by)[j] = v[j]
  BY DEF Points, Shifted

LEMMA MovedPoint == ASSUME NEW free, Moved(free) PROVE x' \in Points
<1>1. x' \in [Dims -> Reach]
  BY DEF Moved
<1>2. Reach \subseteq Int
  BY ConstantsTyped DEF Reach
<1> QED
  BY <1>1, <1>2 DEF Points

LEMMA DescendStep ==
  ASSUME IInv, Descending
  PROVE  IInv'
<1> USE DEF Goto, solver, signals
<1>1. /\ UNCHANGED <<in_buf, alloc, current_entry, target>>
      /\ Dims' = Dims /\ Points' = Points /\ len' = len
  <2>1. UNCHANGED <<alloc, current_entry, target>>
    BY DEF Descending, call
  <2>2. UNCHANGED in_buf
    BY DEF Descending, Descend, Point, Epsilon, Centre, SkipComponent, StartComponent,
       Neighbour, NextNeighbour, EndComponent, EndGradient, Step, TakeStep, ChangeRate,
       GiveUpStep, CheckConvergence
  <2> QED
    BY <2>1, <2>2 DEF Dims, Points, len
<1>2. InDescent /\ InDescent'
  BY DEF Descending, Descend, Point, Epsilon, Centre, SkipComponent, StartComponent,
     Neighbour, NextNeighbour, EndComponent, EndGradient, Step, TakeStep, ChangeRate,
     GiveUpStep, CheckConvergence, InDescent, Solving
<1>3. /\ Typed /\ Solver /\ x \in Points /\ Len(out_buf) = len /\ out_buf \in Cases
      /\ tries \in Nat
  BY <1>2 DEF IInv, Solver, Typed
<1>4. SUFFICES Grows /\ out_buf' \in Cases /\ Solver'
  BY <1>1, <1>2, Inside DEF IInv
<1>5. ASSUME UNCHANGED <<queue, out_buf>> PROVE Grows /\ out_buf' \in Cases
  BY <1>3, <1>5, QueueKept
<1> USE DEF Solver
<1>6. CASE Point
  <2>1. Grows /\ out_buf' \in Cases /\ Len(out_buf') = len
    BY <1>3, <1>6, ValueRuns DEF Point
  <2>2. /\ pc = "point" /\ pc' \in {"epsilon", "centre"}
        /\ UNCHANGED <<x, mIdx, pIdx, d, tries, back, tried>>
    BY <1>6 DEF Point
  <2>3. Solver'
    <3>1. CASE pc' = "epsilon"
      BY <1>1, <1>3, <2>1, <2>2, <3>1
    <3>2. CASE pc' = "centre"
      BY <1>1, <1>3, <2>1, <2>2, <3>2
    <3> QED
      BY <2>2, <3>1, <3>2
  <2> QED
    BY <2>1, <2>3
<1>7. CASE Epsilon
  <2>1. x' \in Points
    BY <1>7, MovedPoint DEF Epsilon
  <2>2. Solver'
    BY <1>1, <1>3, <1>7, <2>1 DEF Epsilon
  <2> QED
    BY <1>5, <1>7, <2>2 DEF Epsilon
<1>8. CASE Centre
  <2>1. /\ Grows /\ out_buf' \in Cases /\ Len(out_buf') = len
        /\ \A i \in Dims :
             out_buf'[i] = IF (mIdx = 0 /\ pIdx = 0) \/ i \in {mIdx, pIdx}
                           THEN AsByte(x[i]) ELSE out_buf[i]
    BY <1>3, <1>8, ValueRuns DEF Centre
  <2>2. /\ pc = "centre" /\ pc' = "component" /\ d' = 1
        /\ UNCHANGED <<x, mIdx, pIdx, tries, back, tried>>
    BY <1>8 DEF Centre
  <2>3. AgreesOff({mIdx})'
    BY <1>1, <1>3, <2>1, <2>2 DEF AgreesOff
  <2>4. Solver'
    BY <1>1, <1>3, <2>1, <2>2, <2>3
  <2> QED
    BY <2>1, <2>4
<1>9. CASE SkipComponent
  <2>1. AgreesOff({mIdx})'
    BY <1>1, <1>3, <1>9 DEF SkipComponent, AgreesOff
  <2>2. Solver'
    BY <1>1, <1>3, <1>9, <2>1 DEF SkipComponent
  <2> QED
    BY <1>5, <1>9, <2>2 DEF SkipComponent
<1>10. CASE StartComponent
  <2>1. /\ pc = "component" /\ d \in Dims /\ pIdx' = mIdx /\ mIdx' = d
        /\ x' = Shifted(x, d, 1) /\ pc' = "neighbour"
        /\ UNCHANGED <<queue, out_buf, d, tries, back, tried>>
    BY <1>10 DEF StartComponent, RemembersLast, Offset
  <2>2. x' \in Points /\ \A j \in Dims \ {d} : x'[j] = x[j]
    <3>1. 1 \in Int
      OBVIOUS
    <3> QED
      BY <1>3, <2>1, <3>1, ShiftedPoint
  <2>3. AgreesOff({mIdx, pIdx})'
    BY <1>1, <1>3, <2>1, <2>2 DEF AgreesOff
  <2>4. Solver'
    BY <1>1, <1>3, <2>1, <2>2, <2>3 DEF Dims
  <2> QED
    BY <1>5, <2>1, <2>4
<1>11. CASE Neighbour
  <2>1. /\ Grows /\ out_buf' \in Cases /\ Len(out_buf') = len
        /\ \A i \in Dims :
             out_buf'[i] = IF (mIdx = 0 /\ pIdx = 0) \/ i \in {mIdx, pIdx}
                           THEN AsByte(x[i]) ELSE out_buf[i]
    BY <1>3, <1>11, ValueRuns DEF Neighbour
  <2>2. /\ pc = "neighbour" /\ pc' = "compare"
        /\ UNCHANGED <<x, mIdx, pIdx, d, tries, back, tried>>
    BY <1>11 DEF Neighbour
  <2>3. AgreesOff({})'
    BY <1>1, <1>3, <2>1, <2>2 DEF AgreesOff
  <2>4. Solver'
    BY <1>1, <1>3, <2>1, <2>2, <2>3
  <2> QED
    BY <2>1, <2>4
<1>12. CASE NextNeighbour
  <2>1. /\ pc = "compare" /\ pc' = "neighbour" /\ d \in Dims /\ mIdx = d
        /\ x' = Shifted(Shifted(x, d, -1), d, -1)
        /\ UNCHANGED <<queue, out_buf, mIdx, pIdx, d, tries, back, tried>>
    BY <1>3, <1>12 DEF NextNeighbour, Offset
  <2>2. x' \in Points /\ \A j \in Dims \ {d} : x'[j] = x[j]
    <3>1. -1 \in Int
      OBVIOUS
    <3>2. Shifted(x, d, -1) \in Points /\ \A j \in Dims \ {d} : Shifted(x, d, -1)[j] = x[j]
      BY <1>3, <2>1, <3>1, ShiftedPoint
    <3> QED
      BY <2>1, <3>1, <3>2, ShiftedPoint
  <2>3. AgreesOff({mIdx, pIdx})'
    BY <1>1, <1>3, <2>1, <2>2 DEF AgreesOff
  <2>4. Solver'
    BY <1>1, <1>3, <2>1, <2>2, <2>3
  <2> QED
    BY <1>5, <2>1, <2>4
<1>13. CASE EndComponent
  <2>1. /\ pc = "compare" /\ pc' = "component" /\ d \in Dims /\ mIdx = d /\ d' = d + 1
        /\ x' = Shifted(x, d, -(-1))
        /\ UNCHANGED <<queue, out_buf, mIdx, pIdx, tries, back, tried>>
    BY <1>3, <1>13 DEF EndComponent, Offset
  <2>2. x' \in Points /\ \A j \in Dims \ {d} : x'[j] = x[j]
    <3>1. -(-1) \in Int
      OBVIOUS
    <3> QED
      BY <1>3, <2>1, <3>1, ShiftedPoint
  <2>3. AgreesOff({mIdx})'
    BY <1>1, <1>3, <2>1, <2>2 DEF AgreesOff
  <2>4. Solver'
    BY <1>1, <1>3, <2>1, <2>2, <2>3
  <2> QED
    BY <1>5, <2>1, <2>4
<1>14. CASE EndGradient
  <2>1. Solver'
    BY <1>1, <1>3, <1>14 DEF EndGradient
  <2> QED
    BY <1>5, <1>14, <2>1 DEF EndGradient
<1>15. CASE Step
  <2>1. x' \in Points
    <3>1. CASE tries = 0
      BY <1>15, <3>1, MovedPoint DEF Step
    <3>2. CASE tries # 0
      BY <1>3, <1>15, <3>2 DEF Step
    <3> QED
      BY <3>1, <3>2
  <2>2. Solver'
    BY <1>1, <1>3, <1>15, <2>1 DEF Step
  <2> QED
    BY <1>5, <1>15, <2>2 DEF Step
<1>16. CASE TakeStep
  <2>1. Grows /\ out_buf' \in Cases /\ Len(out_buf') = len
    BY <1>3, <1>16, ValueRuns DEF TakeStep
  <2>2. Solver'
    BY <1>1, <1>3, <1>16, <2>1 DEF TakeStep
  <2> QED
    BY <2>1, <2>2
<1>17. CASE ChangeRate
  <2>1. Grows /\ out_buf' \in Cases /\ Len(out_buf') = len
    BY <1>3, <1>17, ValueRuns DEF ChangeRate
  <2>2. x' \in Points
    BY <1>17, MovedPoint DEF ChangeRate
  <2>3. Solver'
    BY <1>1, <1>3, <1>17, <2>1, <2>2 DEF ChangeRate
  <2> QED
    BY <2>1, <2>3
<1>18. CASE GiveUpStep
  <2>1. Grows /\ out_buf' \in Cases /\ Len(out_buf') = len
    BY <1>3, <1>18, ValueRuns DEF GiveUpStep
  <2>2. Solver'
    BY <1>1, <1>3, <1>18, <2>1 DEF GiveUpStep
  <2> QED
    BY <2>1, <2>2
<1>19. CASE CheckConvergence
  <2>1. Solver'
    BY <1>1, <1>3, <1>19 DEF CheckConvergence
  <2> QED
    BY <1>5, <1>19, <2>1 DEF CheckConvergence
<1> QED
  BY <1>6, <1>7, <1>8, <1>9, <1>10, <1>11, <1>12, <1>13, <1>14, <1>15, <1>16, <1>17,
     <1>18, <1>19 DEF Descending, Descend

-----------------------------------------------------------------------------
(* The rest of fuzz_one.                                                   *)

LEMMA InitInvariant == ASSUME Init PROVE IInv
<1>1. queue \in Seq(Cases) /\ queue # <<>>
  <2>1. queue \in Seq(Seq(Byte)) /\ queue # <<>> /\ \A n \in DOMAIN queue : Len(queue[n]) \in 1 .. MAX_FILE
    BY FuzzOneAssumption DEF Init
  <2>2. \A n \in 1 .. Len(queue) : queue[n] \in Cases
    BY <2>1 DEF Cases
  <2> QED
    BY <2>1, <2>2
<1>2. current_entry \in 0 .. queued_paths - 1 /\ in_buf = Case(current_entry)
  BY DEF Init
<1>3. in_buf \in Cases
  <2>1. current_entry + 1 \in 1 .. Len(queue)
    BY <1>1, <1>2 DEF queued_paths
  <2> QED
    BY <1>1, <1>2, <2>1 DEF Case
<1>4. out_buf = in_buf /\ alloc = len /\ target = NoTarget /\ pc = "score" /\ tries = 0
  BY DEF Init, DescentInit
<1>5. len \in Nat
  BY <1>3 DEF Cases, len
<1>6. Typed
  BY <1>1, <1>2, <1>3, <1>4, <1>5 DEF Typed
<1>7. Buffers
  BY <1>4, <1>5 DEF Buffers
<1>8. Solver
  BY <1>4 DEF Solver, InDescent, Solving
<1>9. Splicing
  BY <1>4 DEF Splicing
<1> QED
  BY <1>6, <1>7, <1>8, <1>9 DEF IInv

(* The steps that leave the buffers and the queue alone.                   *)
BuffersKept ==
  UNCHANGED <<queue, in_buf, out_buf, alloc, current_entry, target>>

LEMMA KeptStep ==
  ASSUME IInv, BuffersKept, UNCHANGED solver,
         \/ UNCHANGED pc
         \/ pc = "score" /\ pc' = "stages"
         \/ pc = "stages" /\ pc' = "havoc"
         \/ pc = "cycle" /\ pc' \in {"tweak", "splice"}
         \/ pc = "splice" /\ pc' = "abandon"
  PROVE  IInv'
<1>1. Typed'
  BY DEF IInv, Typed, BuffersKept, queued_paths
<1>2. Buffers'
  <2>1. len \in Int /\ temp_len \in Int /\ AtLeast(len, MAX_FILE - 1) >= len
    BY ConstantsTyped DEF IInv, Typed, Cases, len, temp_len, AtLeast
  <2>2. len' = len /\ temp_len' = temp_len /\ UNCHANGED <<in_buf, out_buf, alloc>>
    BY DEF BuffersKept, len, temp_len
  <2>3. pc = "cycle" => temp_len = len /\ alloc >= len
    BY DEF IInv, Buffers, len, temp_len
  <2> QED
    BY <2>1, <2>2, <2>3 DEF IInv, Buffers, Fresh, InDescent, Solving
<1>3. Solver'
  BY DEF IInv, Solver, BuffersKept, solver, InDescent, Solving, Points, Dims, AgreesOff, len
<1>4. Splicing'
  BY DEF IInv, Splicing, BuffersKept, Fresh, InDescent, Solving, Case, queued_paths
<1> QED
  BY <1>1, <1>2, <1>3, <1>4 DEF IInv

LEMMA OutsideSolver ==
  ASSUME pc' \notin Solving, tries' \in Nat
  PROVE  Solver'
  BY DEF Solver, InDescent, Solving

LEMMA StartDescentStep ==
  ASSUME IInv, StartDescent
  PROVE  IInv'
<1>1. /\ pc = "stages" /\ pc' = "point" /\ x' = in_buf /\ mIdx' = 0 /\ pIdx' = 0 /\ tries' = 0
      /\ UNCHANGED <<queue, in_buf, out_buf, alloc, current_entry, target>>
  BY DEF StartDescent, Solve, Goto, call
<1>2. out_buf = in_buf /\ alloc >= len /\ target = NoTarget /\ in_buf \in Seq(Byte)
  BY <1>1 DEF IInv, Buffers, Splicing, Fresh, Typed, Cases
<1>3. Typed'
  BY <1>1 DEF IInv, Typed, queued_paths
<1>4. Buffers'
  BY <1>1, <1>2 DEF Buffers, Fresh, len
<1>5. Splicing'
  BY <1>1, <1>2 DEF Splicing, Fresh, NoTarget
<1>6. x' \in Points'
  <2>1. \A b \in Byte : b \in Int
    BY ConstantsTyped DEF Byte
  <2>2. in_buf \in [Dims -> Int]
    BY <1>2, <2>1 DEF Dims
  <2> QED
    BY <1>1, <2>2 DEF Points, Dims
<1>7. Solver'
  BY <1>1, <1>2, <1>6 DEF Solver, len
<1> QED
  BY <1>3, <1>4, <1>5, <1>7 DEF IInv

LEMMA LeaveDescentStep ==
  ASSUME IInv, LeaveDescent
  PROVE  IInv'
<1>1. /\ pc = "solved" /\ pc' = "havoc" /\ out_buf' = in_buf /\ tries' = 0
      /\ UNCHANGED <<in_buf, alloc, current_entry, target>>
      /\ \E ret \in {0, 1} : common_fuzz_stuff(Written(x), ret)
  BY DEF LeaveDescent, EndDescent, Goto, call
<1>2. /\ Typed /\ alloc >= len /\ target = NoTarget
      /\ Len(out_buf) = len /\ x \in Points
  BY <1>1 DEF IInv, Buffers, Splicing, Solver, Fresh, InDescent, Solving
<1>3. Grows
  BY <1>1, <1>2, WrittenCase, RunGrows
<1>4. Typed'
  BY <1>1, <1>2, <1>3 DEF Typed, Grows, queued_paths
<1>5. Buffers'
  BY <1>1, <1>2 DEF Buffers, Fresh, InDescent, Solving, len
<1>6. Splicing'
  BY <1>1, <1>2 DEF Splicing, Fresh, InDescent, Solving, NoTarget
<1>7. Solver'
  BY <1>1, OutsideSolver DEF Solving
<1> QED
  BY <1>4, <1>5, <1>6, <1>7 DEF IInv

LEMMA HavocStep ==
  ASSUME IInv, Havoc
  PROVE  IInv'
<1>1. /\ pc = "havoc" /\ pc' = "cycle" /\ out_buf' = SubSeq(out_buf, 1, len)
      /\ UNCHANGED <<queue, in_buf, alloc, current_entry, target, tries>>
  BY DEF Havoc, Goto, call, solver
<1>2. /\ Typed /\ out_buf = in_buf /\ alloc >= len /\ in_buf \in Seq(Byte) /\ tries \in Nat
  BY <1>1 DEF IInv, Buffers, Typed, Cases, Solver
<1>3. out_buf' = in_buf
  <2>1. SubSeq(in_buf, 1, Len(in_buf)) = in_buf
    BY <1>2
  <2> QED
    BY <1>1, <1>2, <2>1 DEF len
<1>4. Typed'
  BY <1>1, <1>2, <1>3 DEF Typed, queued_paths
<1>5. Buffers'
  BY <1>1, <1>2, <1>3 DEF Buffers, len
<1>6. Splicing'
  BY <1>1 DEF Splicing, Fresh, InDescent, Solving
<1>7. Solver'
  BY <1>1, <1>2, OutsideSolver DEF Solving
<1> QED
  BY <1>4, <1>5, <1>6, <1>7 DEF IInv

LEMMA TweakInvariant ==
  ASSUME IInv, Tweak
  PROVE  IInv'
<1>1. /\ pc = "tweak" /\ pc' = "tweak"
      /\ UNCHANGED <<queue, in_buf, current_entry, target, tries>>
  BY DEF Tweak, call, solver
<1>2. Typed /\ Buffers /\ tries \in Nat
  BY DEF IInv, Solver
<1>3. out_buf' \in Cases /\ alloc' \in Nat /\ Fits
  BY <1>2, TweakStep DEF Tweaked
<1>4. Typed'
  BY <1>1, <1>2, <1>3 DEF Typed, queued_paths
<1>5. Buffers'
  BY <1>1, <1>3 DEF Buffers, Fresh, InDescent, Solving, Fits, temp_len, len, AtLeast
<1>6. Splicing'
  BY <1>1 DEF Splicing, Fresh, InDescent, Solving
<1>7. Solver'
  BY <1>1, <1>2, OutsideSolver DEF Solving
<1> QED
  BY <1>4, <1>5, <1>6, <1>7 DEF IInv

LEMMA RunInputStep ==
  ASSUME IInv, RunInput
  PROVE  IInv'
<1>1. /\ pc = "tweak" /\ pc' = "cycle" /\ out_buf' = in_buf /\ alloc' = Reallocated(alloc)
      /\ UNCHANGED <<in_buf, current_entry, target, tries>>
      /\ common_fuzz_stuff(out_buf, 0)
  BY DEF RunInput, Restored, Goto, call, solver
<1>2. Typed /\ alloc >= temp_len /\ tries \in Nat
  BY <1>1 DEF IInv, Buffers, Solver
<1>3. Grows
  BY <1>1, <1>2, RunGrows DEF Typed
<1>4. alloc' \in Nat /\ alloc' >= len
  <2>1. len \in Nat /\ temp_len \in Nat /\ alloc \in Nat
    BY <1>2 DEF Typed, Cases, len, temp_len
  <2> QED
    BY <1>1, <1>2, <2>1 DEF Reallocated
<1>5. Typed'
  BY <1>1, <1>2, <1>3, <1>4 DEF Typed, Grows, queued_paths
<1>6. Buffers'
  BY <1>1, <1>4 DEF Buffers, len
<1>7. Splicing'
  BY <1>1 DEF Splicing, Fresh, InDescent, Solving
<1>8. Solver'
  BY <1>1, <1>2, OutsideSolver DEF Solving
<1> QED
  BY <1>5, <1>6, <1>7, <1>8 DEF IInv

LEMMA BailStep ==
  ASSUME IInv, Bail
  PROVE  IInv'
<1>1. /\ pc' = "abandon" /\ UNCHANGED <<in_buf, out_buf, alloc, current_entry, target, tries>>
      /\ common_fuzz_stuff(out_buf, 1)
  BY DEF Bail, Goto, call, solver
<1>2. Typed /\ tries \in Nat
  BY DEF IInv, Solver
<1>3. Grows
  BY <1>1, <1>2, RunGrows DEF Typed
<1>4. Typed'
  BY <1>1, <1>2, <1>3 DEF Typed, Grows, queued_paths
<1>5. Buffers' /\ Splicing'
  BY <1>1 DEF Buffers, Splicing, Fresh, InDescent, Solving
<1>6. Solver'
  BY <1>1, <1>2, OutsideSolver DEF Solving
<1> QED
  BY <1>4, <1>5, <1>6 DEF IInv

LEMMA ChooseTargetStep ==
  ASSUME IInv, ChooseTarget
  PROVE  IInv'
<1>1. /\ in_buf' = Case(current_entry) /\ pc' = (IF target' = NoTarget THEN "splice" ELSE "diff")
      /\ UNCHANGED <<queue, out_buf, alloc, current_entry, tries>>
  BY DEF ChooseTarget, Goto, call, solver
<1>2. Typed /\ tries \in Nat
  BY DEF IInv, Solver
<1>3. in_buf' \in Cases
  <2>1. queue \in Seq(Cases) /\ current_entry + 1 \in 1 .. Len(queue)
    BY <1>2 DEF Typed, queued_paths
  <2> QED
    BY <1>1, <2>1 DEF Case
<1>4. Typed'
  BY <1>1, <1>2, <1>3 DEF Typed, queued_paths
<1>5. Buffers'
  BY <1>1 DEF Buffers, Fresh, InDescent, Solving
<1>6. Splicing'
  <2>1. target' = NoTarget \/ target' \in (0 .. queued_paths - 1) \ {current_entry}
    BY <1>2, TargetChosen
  <2>2. queued_paths' = queued_paths /\ Case(current_entry)' = Case(current_entry)
    BY <1>1 DEF queued_paths, Case
  <2> QED
    BY <1>1, <2>1, <2>2 DEF Splicing, Fresh, InDescent, Solving
<1>7. Solver'
  BY <1>1, <1>2, OutsideSolver DEF Solving
<1> QED
  BY <1>4, <1>5, <1>6, <1>7 DEF IInv

LEMMA SpliceInvariant ==
  ASSUME IInv, Splice
  PROVE  IInv'
<1>1. /\ pc = "diff" /\ pc' = "havoc" /\ out_buf' = in_buf' /\ alloc' = Len(in_buf')
      /\ UNCHANGED <<queue, current_entry, target, tries>>
  BY DEF Splice, Goto, call, solver
<1>2. Typed /\ Splicing /\ tries \in Nat
  BY DEF IInv, Solver
<1>3. in_buf' \in Cases /\ in_buf' # Case(current_entry)
  BY <1>2, SpliceStep
<1>4. Len(in_buf') \in Nat
  BY <1>3 DEF Cases
<1>5. Typed'
  BY <1>1, <1>2, <1>3, <1>4 DEF Typed, queued_paths
<1>6. Buffers'
  BY <1>1, <1>4 DEF Buffers, Fresh, InDescent, Solving, len
<1>7. Splicing'
  <2>1. target # current_entry
    BY <1>1, <1>2 DEF Splicing
  <2>2. Case(current_entry)' = Case(current_entry)
    BY <1>1 DEF Case
  <2> QED
    BY <1>1, <1>3, <2>1, <2>2 DEF Splicing, Fresh, InDescent, Solving
<1>8. Solver'
  BY <1>1, <1>2, OutsideSolver DEF Solving
<1> QED
  BY <1>5, <1>6, <1>7, <1>8 DEF IInv

(* The partner is given up, because of its likeness or at the end.         *)
LEMMA PartnerDropped ==
  ASSUME IInv, SpliceAgain \/ AbandonEntry
  PROVE  IInv'
<1>1. /\ pc' \in {"splice", "returned"}
      /\ UNCHANGED <<queue, in_buf, out_buf, alloc, current_entry, tries>>
  BY DEF SpliceAgain, AbandonEntry, Goto, call, solver
<1>2. Typed'
  BY <1>1 DEF IInv, Typed, queued_paths
<1>3. Buffers' /\ Splicing'
  BY <1>1 DEF Buffers, Splicing, Fresh, InDescent, Solving
<1>4. Solver'
  <2>1. tries' \in Nat
    BY <1>1 DEF IInv, Solver
  <2> QED
    BY <1>1, <2>1, OutsideSolver DEF Solving
<1> QED
  BY <1>2, <1>3, <1>4 DEF IInv

LEMMA NextInvariant ==
  ASSUME IInv, [Next]_vars
  PROVE  IInv'
<1>1. CASE Score \/ SkipDeterministic \/ StartStack \/ EndHavoc \/ NoSplicing
  BY <1>1, KeptStep DEF Score, SkipDeterministic, StartStack, EndHavoc, NoSplicing,
     BuffersKept, call, solver, Goto
<1>2. CASE HandleSkipReq \/ HandleStopSig \/ Returned \/ UNCHANGED vars
  BY <1>2, KeptStep DEF HandleSkipReq, HandleStopSig, Returned, vars, BuffersKept, call
<1>3. CASE StartDescent
  BY <1>3, StartDescentStep
<1>4. CASE Descending
  BY <1>4, DescendStep
<1>5. CASE LeaveDescent
  BY <1>5, LeaveDescentStep
<1>6. CASE Havoc
  BY <1>6, HavocStep
<1>7. CASE Tweak
  BY <1>7, TweakInvariant
<1>8. CASE RunInput
  BY <1>8, RunInputStep
<1>9. CASE Bail
  BY <1>9, BailStep
<1>10. CASE ChooseTarget
  BY <1>10, ChooseTargetStep
<1>11. CASE SpliceAgain \/ AbandonEntry
  BY <1>11, PartnerDropped
<1>12. CASE Splice
  BY <1>12, SpliceInvariant
<1> QED
  BY <1>1, <1>2, <1>3, <1>4, <1>5, <1>6, <1>7, <1>8, <1>9, <1>10, <1>11, <1>12
     DEF Next, Program

LEMMA Inductive == Spec => []IInv
<1>1. Init => IInv
  BY InitInvariant
<1>2. IInv /\ [Next]_vars => IInv'
  BY NextInvariant
<1> QED
  BY <1>1, <1>2, PTL DEF Spec

-----------------------------------------------------------------------------
(* Every stack of tweaks starts from the test case, or from the blob that  *)
(* splicing made of it, with its own bytes and length.                     *)
THEOREM HavocIsClean == Spec => []HavocStartsClean
<1>1. IInv => HavocStartsClean
  BY DEF IInv, Buffers, HavocStartsClean
<1> QED
  BY <1>1, Inductive, PTL

(* No sequence of tweaks writes beyond the memory of out_buf or makes an   *)
(* input, or a new entry of the queue, that is empty or too long.          *)
THEOREM BuffersSuffice == Spec => []InBounds
<1>1. IInv => InBounds
  <2> SUFFICES ASSUME IInv PROVE InBounds
    OBVIOUS
  <2>1. /\ queue \in Seq(Cases) /\ in_buf \in Cases /\ out_buf \in Cases
        /\ len \in Int /\ temp_len \in 1 .. MAX_FILE /\ AtLeast(len, MAX_FILE - 1) >= len
    BY ConstantsTyped DEF IInv, Typed, Cases, len, temp_len, AtLeast
  <2>2. \A n \in 1 .. queued_paths : Len(queue[n]) \in 1 .. MAX_FILE
    <3>1. \A n \in 1 .. Len(queue) : queue[n] \in Cases
      BY <2>1
    <3> QED
      BY <3>1 DEF Cases, queued_paths
  <2>3. pc \in {"havoc", "cycle"} => alloc >= len /\ temp_len = len
    BY DEF IInv, Buffers, len, temp_len
  <2>4. pc = "tweak" => alloc >= temp_len /\ temp_len <= AtLeast(len, MAX_FILE - 1)
    BY DEF IInv, Buffers
  <2> QED
    BY <2>1, <2>2, <2>3, <2>4 DEF InBounds
<1> QED
  BY <1>1, Inductive, PTL

(* The solver runs exactly the neighbour it measures, although value()     *)
(* writes two bytes of it.                                                 *)
THEOREM NeighboursAreRun == Spec => []NeighbourInput
<1>1. IInv => NeighbourInput
  <2> SUFFICES ASSUME IInv, pc = "compare" PROVE out_buf = AsBytes(x)
    BY DEF NeighbourInput
  <2>1. out_buf \in Seq(Byte) /\ Len(out_buf) = Len(in_buf)
    BY DEF IInv, Typed, Cases, Solver, InDescent, Solving, len
  <2>2. \A i \in 1 .. Len(in_buf) : out_buf[i] = AsByte(x[i])
    BY DEF IInv, Solver, AgreesOff, Dims
  <2>3. AsBytes(x) = [i \in 1 .. Len(in_buf) |-> AsByte(x[i])]
    BY DEF AsBytes
  <2>4. out_buf = [i \in 1 .. Len(in_buf) |-> out_buf[i]]
    BY <2>1
  <2> QED
    BY <2>2, <2>3, <2>4
<1> QED
  BY <1>1, Inductive, PTL

(* Splicing hands havoc an input with a byte that is not the test case's.  *)
THEOREM SplicesMix == Spec => []SpliceMixes
<1>1. IInv => SpliceMixes
  BY DEF IInv, Splicing, SpliceMixes
<1> QED
  BY <1>1, Inductive, PTL
=============================================================================
