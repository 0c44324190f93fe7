------------------------------- MODULE FuzzOne -------------------------------
(***************************************************************************)
(* One call of fuzz_one (src/afl-fuzz.c) from the point where the test     *)
(* case has been read, calibrated and trimmed: the gradient stage of       *)
(* Descent, havoc, splicing and abandon_entry.  The stages between the     *)
(* gradient stage and havoc are skipped by a goto that is always taken.    *)
(*                                                                         *)
(* Only the bytes of out_buf below temp_len are kept, so that temp_len is  *)
(* the length of out_buf; alloc is the number of bytes allocated for it.   *)
(* Entries are numbered from 0, as in the code; queue[n + 1] is entry n.   *)
(***************************************************************************)
EXTENDS Descent

CONSTANTS
  Start,              \* the queues to start with
  MaxDescent,         \* bound: the longest test case taken through Descent
  Extras,             \* the tokens of the dictionaries
  Profiles,           \* what calculate_score looks at: exec_us, bitmap_size, handicap, depth
  avg_exec_us, avg_bitmap_size,
  BlockBounds,        \* the <<min, max>> choose_block_len picks from
  HAVOC_BLK_XL, MAX_FILE,
  HAVOC_CYCLES, HAVOC_CYCLES_INIT, SPLICE_HAVOC, HAVOC_MIN, HAVOC_MAX_MULT,
  Stackings,          \* the values of use_stacking
  SPLICE_CYCLES,
  JUMP                \* the entries a next_100 link passes; 100 in the code

ASSUME FuzzOneAssumption ==
  /\ MAX_FILE \in Nat
  /\ \A q \in Start : /\ q \in Seq(Seq(Byte)) /\ q # <<>>
                      /\ \A n \in DOMAIN q : Len(q[n]) \in 1 .. MAX_FILE
  /\ \A e \in Extras : e \in Seq(Byte) /\ e # <<>>
  /\ BlockBounds \subseteq Nat \X Nat
  /\ \A b \in BlockBounds : 1 <= b[1] /\ b[1] <= b[2] /\ b[2] <= HAVOC_BLK_XL
  /\ Profiles \subseteq [exec_us : Nat, bitmap_size : Nat, handicap : Nat, depth : Nat]
  /\ avg_exec_us \in Nat /\ avg_bitmap_size \in Nat /\ HAVOC_MAX_MULT \in Nat \ {0}
  /\ {HAVOC_MIN, HAVOC_BLK_XL, JUMP} \subseteq Nat \ {0}
  /\ {HAVOC_CYCLES, HAVOC_CYCLES_INIT, SPLICE_HAVOC, SPLICE_CYCLES} \subseteq Nat
  /\ Stackings \subseteq Nat \ {0}

VARIABLES
  current_entry,
  skips_det,          \* -d, was_fuzzed, passed_det, or out of this master's scope
  doing_det, use_splicing,
  alloc,
  handicap,
  perf_score, orig_perf,
  stage_cur, stage_max,
  stacking,           \* tweaks left of use_stacking
  havoc_queued,
  splice_cycle,
  target,             \* the entry to splice with, NoTarget before it is chosen
  ret_val

call  == <<current_entry, skips_det, use_splicing, handicap, orig_perf>>
stage == <<doing_det, perf_score, stage_cur, stage_max, stacking, havoc_queued>>
vars  == <<mode, prob, queue, in_buf, out_buf, solver, signals, pc,
           call, stage, alloc, splice_cycle, target, ret_val>>

len == Len(in_buf)
temp_len == Len(out_buf)
queued_paths == Len(queue)
Case(n) == queue[n + 1]
NoTarget == -1

Init ==
  /\ DescentInit
  /\ queue \in Start
  /\ current_entry \in 0 .. queued_paths - 1
  /\ in_buf = Case(current_entry)
  /\ out_buf = in_buf /\ alloc = len
  /\ skips_det \in {skip \in BOOLEAN : len > MaxDescent => skip}
  /\ skips_det => mode = CHOOSE m \in Modes : TRUE  \* which it then does not use
  /\ use_splicing \in BOOLEAN
  /\ doing_det = FALSE
  /\ handicap \in {q.handicap : q \in Profiles}
  /\ perf_score = 0 /\ orig_perf = 0
  /\ stage_cur = 0 /\ stage_max = 0 /\ stacking = 0 /\ havoc_queued = 0
  /\ splice_cycle = 0 /\ target = NoTarget
  /\ ret_val = 1
  /\ pc = "score"

-----------------------------------------------------------------------------
(* Up to the first stage.                                                  *)

(* calculate_score: the products are truncated one by one.                 *)
BySpeed(us) ==
  IF us > 10 * avg_exec_us THEN 10
  ELSE IF us > 4 * avg_exec_us THEN 25
  ELSE IF us > 2 * avg_exec_us THEN 50
  ELSE IF 3 * us > 4 * avg_exec_us THEN 75
  ELSE IF 4 * us < avg_exec_us THEN 300
  ELSE IF 3 * us < avg_exec_us THEN 200
  ELSE IF 2 * us < avg_exec_us THEN 150
  ELSE 100

ByCoverage(size, score) ==
  IF 3 * size > 10 * avg_bitmap_size THEN score * 3
  ELSE IF size > 2 * avg_bitmap_size THEN score * 2
  ELSE IF 3 * size > 4 * avg_bitmap_size THEN (score * 3) \div 2
  ELSE IF 3 * size < avg_bitmap_size THEN score \div 4
  ELSE IF 2 * size < avg_bitmap_size THEN score \div 2
  ELSE IF 3 * size < 2 * avg_bitmap_size THEN (score * 3) \div 4
  ELSE score

(* What a latecomer gives up of its handicap, and what it gets for it.     *)
Spent(h) == IF h >= 4 THEN 4 ELSE IF h > 0 THEN 1 ELSE 0
ByHandicap(h) == IF h >= 4 THEN 4 ELSE IF h > 0 THEN 2 ELSE 1

ByDepth(depth) ==
  CASE depth \in 0 .. 3   -> 1
    [] depth \in 4 .. 7   -> 2
    [] depth \in 8 .. 13  -> 3
    [] depth \in 14 .. 25 -> 4
    [] OTHER              -> 5

calculate_score(q) ==
  LET score == ByCoverage(q.bitmap_size, BySpeed(q.exec_us))
                 * ByHandicap(q.handicap) * ByDepth(q.depth)
  IN  IF score > HAVOC_MAX_MULT * 100 THEN HAVOC_MAX_MULT * 100 ELSE score

Score ==
  /\ pc = "score"
  /\ \E q \in Profiles :
       /\ q.handicap = handicap
       /\ perf_score' = calculate_score(q)
       /\ handicap' = handicap - Spent(handicap)
  /\ orig_perf' = perf_score'
  /\ Goto("stages")
  /\ UNCHANGED <<mode, prob, queue, in_buf, out_buf, solver, signals, current_entry,
                 skips_det, use_splicing, doing_det, stage_cur, stage_max, stacking,
                 havoc_queued, alloc, splice_cycle, target, ret_val>>

SkipDeterministic ==
  /\ pc = "stages" /\ skips_det
  /\ Goto("havoc")
  /\ UNCHANGED <<mode, prob, queue, in_buf, out_buf, solver, signals,
                 call, stage, alloc, splice_cycle, target, ret_val>>

StartDescent ==
  /\ pc = "stages" /\ ~skips_det
  /\ doing_det' = TRUE
  /\ Solve
  /\ UNCHANGED <<mode, prob, queue, in_buf, out_buf, signals, call, perf_score,
                 stage_cur, stage_max, stacking, havoc_queued, alloc, splice_cycle,
                 target, ret_val>>

Descending ==
  /\ Descend
  /\ UNCHANGED <<call, stage, alloc, splice_cycle, target, ret_val>>

LeaveDescent ==
  /\ EndDescent("havoc")
  /\ UNCHANGED <<call, stage, alloc, splice_cycle, target, ret_val>>

-----------------------------------------------------------------------------
(* Havoc.                                                                  *)

AtLeast(low, n) == IF n < low THEN low ELSE n

(* havoc_div is 1; it only makes the stage shorter.                        *)
Cycles(score) ==
  ((IF splice_cycle > 0 THEN SPLICE_HAVOC
    ELSE IF doing_det THEN HAVOC_CYCLES_INIT ELSE HAVOC_CYCLES) * score) \div 100

Havoc ==
  /\ pc = "havoc"
  /\ perf_score' = (IF splice_cycle > 0 THEN orig_perf ELSE perf_score)
  /\ stage_max' = AtLeast(HAVOC_MIN, Cycles(perf_score'))
  /\ stage_cur' = 0
  /\ out_buf' = SubSeq(out_buf, 1, len)  \* temp_len = len
  /\ havoc_queued' = queued_paths
  /\ Goto("cycle")
  /\ UNCHANGED <<mode, prob, queue, in_buf, solver, signals, call, doing_det, stacking,
                 alloc, splice_cycle, target, ret_val>>

StartStack ==
  /\ pc = "cycle" /\ stage_cur < stage_max
  /\ stacking' \in Stackings
  /\ Goto("tweak")
  /\ UNCHANGED <<mode, prob, queue, in_buf, out_buf, solver, signals, call, doing_det,
                 perf_score, stage_cur, stage_max, havoc_queued, alloc, splice_cycle,
                 target, ret_val>>

(* choose_block_len: the lengths it may return.                            *)
AtMost(high, n) == IF n > high THEN high ELSE n
choose_block_len(limit) ==
  UNION {(IF b[1] >= limit THEN 1 ELSE b[1]) .. AtMost(limit, b[2]) : b \in BlockBounds}

(* The positions of a block of n bytes in a buffer.                        *)
Places(n) == 0 .. temp_len - n
Overwritten(at, bytes) ==
  [i \in DOMAIN out_buf |->
     IF i - at \in DOMAIN bytes THEN bytes[i - at] ELSE out_buf[i]]
Inserted(at, bytes) ==
  SubSeq(out_buf, 1, at) \o bytes \o SubSeq(out_buf, at + 1, temp_len)
Block(at, n) == SubSeq(out_buf, at + 1, at + n)
Filled(n, byte) == [i \in 1 .. n |-> byte]

(* A tweak in place, or none: the buffer stays where it is.                *)
InPlace(buf) == out_buf' = buf /\ UNCHANGED alloc
(* A tweak into a new buffer of just the size it needs.                    *)
Replaced(buf) == out_buf' = buf /\ alloc' = Len(buf)

(* Cases 0 to 10: a bit, byte, word or dword set, flipped, or added to.    *)
SetNumber ==
  \E n \in {1, 2, 4} :
    \/ temp_len < n /\ InPlace(out_buf)
    \/ \E at \in Places(n), bytes \in [1 .. n -> Byte] : InPlace(Overwritten(at, bytes))

DeleteBytes ==
  \/ temp_len < 2 /\ InPlace(out_buf)
  \/ /\ temp_len >= 2
     /\ \E n \in choose_block_len(temp_len - 1) : \E at \in Places(n) :
          InPlace(SubSeq(out_buf, 1, at) \o SubSeq(out_buf, at + n + 1, temp_len))

RoomForBlock == temp_len + HAVOC_BLK_XL < MAX_FILE

CloneBytes ==
  \/ ~RoomForBlock /\ InPlace(out_buf)
  \/ /\ RoomForBlock
     /\ \E to \in 0 .. temp_len - 1 :
          \/ \E n \in choose_block_len(temp_len) : \E from \in Places(n) :
               Replaced(Inserted(to, Block(from, n)))
          \/ \E n \in choose_block_len(HAVOC_BLK_XL), byte \in Byte :
               Replaced(Inserted(to, Filled(n, byte)))

CopyBytes ==
  \/ temp_len < 2 /\ InPlace(out_buf)
  \/ /\ temp_len >= 2
     /\ \E n \in choose_block_len(temp_len - 1) : \E from, to \in Places(n) :
          \/ InPlace(Overwritten(to, Block(from, n)))
          \/ \E byte \in Byte : InPlace(Overwritten(to, Filled(n, byte)))

OverwriteExtra ==
  \E e \in Extras :
    \/ Len(e) > temp_len /\ InPlace(out_buf)
    \/ \E at \in Places(Len(e)) : InPlace(Overwritten(at, e))

InsertExtra ==
  \E e \in Extras :
    IF temp_len + Len(e) >= MAX_FILE THEN InPlace(out_buf)
    ELSE \E at \in 0 .. temp_len : Replaced(Inserted(at, e))

Tweak ==
  /\ pc = "tweak" /\ stacking > 0
  /\ \/ SetNumber \/ DeleteBytes \/ CloneBytes \/ CopyBytes
     \/ OverwriteExtra \/ InsertExtra
  /\ stacking' = stacking - 1
  /\ UNCHANGED <<mode, prob, queue, in_buf, solver, signals, pc, call, doing_det,
                 perf_score, stage_cur, stage_max, havoc_queued, splice_cycle,
                 target, ret_val>>

LongerByItself(a) == a \* fault: the shrunken buffer is not reallocated
Reallocated(a) == IF temp_len < len THEN len ELSE a

(* The mangled buffer gets its original size and shape back.               *)
KeepsLength == SubSeq(in_buf, 1, IF temp_len < len THEN temp_len ELSE len) \* fault
Restored == in_buf

MayDouble == perf_score <= HAVOC_MAX_MULT * 100

RunInput ==
  /\ pc = "tweak" /\ stacking = 0
  /\ common_fuzz_stuff(out_buf, 0)
  /\ alloc' = Reallocated(alloc)
  /\ out_buf' = Restored
  /\ IF Len(queue') # havoc_queued /\ MayDouble
     THEN stage_max' = stage_max * 2 /\ perf_score' = perf_score * 2
     ELSE UNCHANGED <<stage_max, perf_score>>
  /\ havoc_queued' = Len(queue')
  /\ stage_cur' = stage_cur + 1
  /\ Goto("cycle")
  /\ UNCHANGED <<mode, prob, in_buf, solver, call, doing_det, stacking, splice_cycle,
                 target, ret_val>>

Bail ==
  /\ pc = "tweak" /\ stacking = 0
  /\ common_fuzz_stuff(out_buf, 1)
  /\ Goto("abandon")
  /\ UNCHANGED <<mode, prob, in_buf, out_buf, solver, call, stage, alloc, splice_cycle,
                 target, ret_val>>

EndHavoc ==
  /\ pc = "cycle" /\ stage_cur = stage_max
  /\ Goto("splice")
  /\ UNCHANGED <<mode, prob, queue, in_buf, out_buf, solver, signals, call, stage,
                 alloc, splice_cycle, target, ret_val>>

-----------------------------------------------------------------------------
(* Splicing.                                                               *)

SameAgain(n) == n \* fault: a retry is not counted
Counted(n) == n + 1

(* splice_cycle is counted before the other conditions are looked at.      *)
MaySplice ==
  use_splicing /\ splice_cycle < SPLICE_CYCLES /\ queued_paths > 1
    /\ Len(Case(current_entry)) > 1

NoSplicing ==
  /\ pc = "splice" /\ ~MaySplice
  /\ splice_cycle' = (IF use_splicing THEN splice_cycle + 1 ELSE splice_cycle)
  /\ ret_val' = 0
  /\ Goto("abandon")
  /\ UNCHANGED <<mode, prob, queue, in_buf, out_buf, solver, signals, call, stage,
                 alloc, target>>

(* A link leads from entry 0 to entry JUMP - 1 and from there JUMP further *)
(* each time (add_to_queue): entries beyond the first link are reached one *)
(* too early.                                                              *)
Sought(tid) == IF tid < JUMP THEN tid ELSE tid - 1

Suitable(n) == Len(Case(n)) >= 2 /\ n # current_entry
FirstSuitable(n) ==
  LET later == {m \in n .. queued_paths - 1 : Suitable(m)}
  IN  IF later = {} THEN NoTarget ELSE CHOOSE m \in later : \A k \in later : m <= k

(* The blob of an earlier splice is dropped and in_buf is the test case    *)
(* again; out_buf is left as it is.                                        *)
ChooseTarget ==
  /\ pc = "splice" /\ MaySplice
  /\ splice_cycle' = Counted(splice_cycle)
  /\ in_buf' = Case(current_entry)
  /\ \E tid \in (0 .. queued_paths - 1) \ {current_entry} :
       target' = FirstSuitable(Sought(tid))
  /\ Goto(IF target' = NoTarget THEN "splice" ELSE "diff")
  /\ UNCHANGED <<mode, prob, queue, out_buf, solver, signals, call, stage, alloc, ret_val>>

(* locate_diffs: the offsets in which two inputs differ.                   *)
Diffs(a, b) ==
  {i \in 0 .. (IF Len(a) < Len(b) THEN Len(a) ELSE Len(b)) - 1 : a[i + 1] # b[i + 1]}
f_diff == IF Diffs(in_buf, Case(target)) = {} THEN -1
          ELSE CHOOSE i \in Diffs(in_buf, Case(target)) :
                 \A j \in Diffs(in_buf, Case(target)) : i <= j
l_diff == IF Diffs(in_buf, Case(target)) = {} THEN -1
          ELSE CHOOSE i \in Diffs(in_buf, Case(target)) :
                 \A j \in Diffs(in_buf, Case(target)) : j <= i

TooSimilar == f_diff < 0 \/ l_diff < 2 \/ f_diff = l_diff

SpliceAgain ==
  /\ pc = "diff" /\ TooSimilar
  /\ target' = NoTarget
  /\ Goto("splice")
  /\ UNCHANGED <<mode, prob, queue, in_buf, out_buf, solver, signals, call, stage,
                 alloc, splice_cycle, ret_val>>

AfterLast == f_diff .. l_diff + 1 \* fault: the head may hold every difference
SplitPoints == f_diff .. l_diff - 1

Splice ==
  /\ pc = "diff" /\ ~TooSimilar
  /\ \E split_at \in SplitPoints :
       in_buf' = SubSeq(in_buf, 1, split_at)
                   \o SubSeq(Case(target), split_at + 1, Len(Case(target)))
  /\ out_buf' = in_buf' /\ alloc' = Len(in_buf')
  /\ Goto("havoc")
  /\ UNCHANGED <<mode, prob, queue, solver, signals, call, stage, splice_cycle,
                 target, ret_val>>

-----------------------------------------------------------------------------
AbandonEntry ==
  /\ pc = "abandon"
  /\ target' = NoTarget
  /\ Goto("returned")
  /\ UNCHANGED <<mode, prob, queue, in_buf, out_buf, solver, signals, call, stage,
                 alloc, splice_cycle, ret_val>>

(* SIGUSR1, and SIGINT or SIGTERM.                                         *)
HandleSkipReq ==
  /\ pc # "returned" /\ ~skip_requested /\ skip_requested' = TRUE
  /\ UNCHANGED <<mode, prob, queue, in_buf, out_buf, solver, subseq_tmouts, stop_soon,
                 pc, call, stage, alloc, splice_cycle, target, ret_val>>

HandleStopSig ==
  /\ pc # "returned" /\ ~stop_soon /\ stop_soon' = TRUE
  /\ UNCHANGED <<mode, prob, queue, in_buf, out_buf, solver, subseq_tmouts,
                 skip_requested, pc, call, stage, alloc, splice_cycle, target, ret_val>>

(* fuzz_one returns; the caller is not modelled.                           *)
Returned == pc = "returned" /\ UNCHANGED vars

Program ==
  \/ Score \/ SkipDeterministic \/ StartDescent \/ Descending \/ LeaveDescent
  \/ Havoc \/ StartStack \/ Tweak \/ RunInput \/ Bail \/ EndHavoc
  \/ NoSplicing \/ ChooseTarget \/ SpliceAgain \/ Splice
  \/ AbandonEntry

Next == Program \/ HandleSkipReq \/ HandleStopSig \/ Returned

(* The process runs on unless it has returned.                             *)
Spec == Init /\ [][Next]_vars /\ WF_vars(Program)

-----------------------------------------------------------------------------
(* Properties.                                                             *)

(* Each havoc run mutates the test case and nothing else: whatever the     *)
(* previous run did to the length and the place of out_buf has been undone *)
(* when the next stack of tweaks starts, and so has the gradient stage.    *)
HavocStartsClean == pc = "cycle" => out_buf = in_buf

(* No tweak empties the input, makes it longer than a test case may be, or *)
(* leaves less memory allocated for it than restoring it will write; and   *)
(* nothing the stages run or add to the queue is longer than a test case.  *)
InBounds ==
  /\ pc \in {"havoc", "cycle", "tweak"} =>
       alloc >= temp_len /\ temp_len <= AtLeast(len, MAX_FILE - 1)
  /\ pc = "cycle" => alloc >= len
  /\ temp_len \in 1 .. MAX_FILE
  /\ \A n \in 1 .. queued_paths : Len(queue[n]) \in 1 .. MAX_FILE

(* What splicing hands to havoc is a blob of the test case and another     *)
(* entry: never the test case itself, nor one made of it alone.            *)
SpliceMixes ==
  pc = "havoc" /\ target # NoTarget =>
    target # current_entry /\ in_buf # Case(current_entry)

(* fuzz_one returns: the descent converges or runs out of iterations, and  *)
(* splicing runs out of cycles whatever partners it draws.                 *)
FuzzOneReturns == <>(pc = "returned")
=============================================================================
