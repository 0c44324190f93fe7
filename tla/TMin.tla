--------------------------------- MODULE TMin ---------------------------------
(***************************************************************************)
(* afl-tmin (src/afl-tmin.c): the dry run, the passes of minimize, and the *)
(* stop signal.                                                            *)
(*                                                                         *)
(* The target is deterministic but for the clock: what it makes of an      *)
(* input is chosen when the input is first run and remembered.  The timer  *)
(* may go off in any run, also in one that has just ended by itself.  A    *)
(* file is a sequence of symbols; Zero is the '0' the tool writes.         *)
(***************************************************************************)
EXTENDS Integers, Sequences, FiniteSets

CONSTANTS
  Inputs,             \* the files to start with
  Zero,
  Hangs,              \* bound: runs that are cut off by the timer
  ExactModes,         \* the values of exact_mode to consider
  TMIN_SET_STEPS, TMIN_SET_MIN_SIZE, TRIM_START_STEPS

ASSUME TMinAssumption ==
  /\ Inputs \subseteq Seq(Nat) \ {<<>>} /\ Zero \in Nat
  /\ Hangs \in Nat /\ ExactModes \subseteq BOOLEAN
  /\ {TMIN_SET_STEPS, TMIN_SET_MIN_SIZE, TRIM_START_STEPS} \subseteq Nat \ {0}

VARIABLES
  in_data,
  crash_mode, exact_mode,
  stage,
  cur_pass, changed_any,
  pos,                \* set_pos, del_pos, and the i of the last stage
  del_len, prev_del,
  symbols,            \* the symbols of alpha_map still to be tried
  stop_soon,
  out_file,           \* the set of what has been written to it
  good, bad,          \* history: the inputs run, by how the target treats them
  hangs               \* history: runs cut off

verdicts == <<good, bad, hangs>>
loop == <<pos, del_len, prev_del, symbols>>
tminVars == <<in_data, crash_mode, exact_mode, stage, cur_pass, changed_any, loop,
          stop_soon, out_file, verdicts>>

in_len == Len(in_data)

TMinInit(on) ==
  /\ in_data \in (IF on THEN Inputs ELSE {<<>>})
  /\ crash_mode = FALSE /\ exact_mode \in (IF on THEN ExactModes ELSE {FALSE})
  /\ stage = (IF on THEN "dry run" ELSE "written")
  /\ cur_pass = 0 /\ changed_any = FALSE
  /\ pos = 0 /\ del_len = 0 /\ prev_del = FALSE /\ symbols = {}
  /\ stop_soon = FALSE /\ out_file = {}
  /\ good = {} /\ bad = {} /\ hangs = 0

AtMost(high, n) == IF n > high THEN high ELSE n
AtLeast(low, n) == IF n < low THEN low ELSE n

(* ret is 1, and doubled until it is not below n.                          *)
Doubled(ret) ==
  \E tried \in SUBSET (1 .. ret) :
    ret \in tried /\ \A r \in tried : r = 1 \/ (r % 2 = 0 /\ r \div 2 \in tried)
next_p2(n) ==
  CHOOSE ret \in 1 .. 2 * n + 1 : Doubled(ret) /\ ret >= n /\ (ret = 1 \/ ret \div 2 < n)

write_to_file(mem) == out_file' = {mem}

-----------------------------------------------------------------------------
(* run_target.                                                             *)

(* How the target can end: the same path as at first, another path, and    *)
(* a crash on either.                                                      *)
Outcomes == [crash : BOOLEAN, same : BOOLEAN]

AnyCrash(o) == o.same \/ (crash_mode /\ ~exact_mode) \* fault: crash mode keeps clean runs
Like(o) ==
  /\ o.crash = crash_mode
  /\ o.same \/ (crash_mode /\ ~exact_mode)

(* What the minimised file is wanted for: it still crashes the target, and *)
(* takes the path of the first file where paths count.                     *)
Wanted(o) ==
  IF crash_mode THEN o.crash /\ (exact_mode => o.same) ELSE ~o.crash /\ o.same

FirstRun(input, o) ==
  IF Wanted(o) THEN good' = good \cup {input} /\ UNCHANGED <<bad, hangs>>
  ELSE bad' = bad \cup {input} /\ UNCHANGED <<good, hangs>>

Accepted(input) ==
  /\ ~stop_soon
  /\ \/ input \in good /\ UNCHANGED verdicts
     \/ /\ input \notin good \cup bad
        /\ \E o \in Outcomes : Like(o) /\ FirstRun(input, o)

(* The timer goes off before the run has been collected.                   *)
handle_timeout == hangs < Hangs /\ hangs' = hangs + 1

Refused(input) ==
  /\ ~stop_soon
  /\ \/ input \in bad /\ UNCHANGED verdicts
     \/ /\ input \notin good \cup bad
        /\ \E o \in Outcomes : ~Like(o) /\ FirstRun(input, o)
     \/ handle_timeout /\ UNCHANGED <<good, bad>>

(* A stop during a run: the target is killed, what there is is written.    *)
Interrupted ==
  /\ stage \notin {"written", "aborted"} /\ stop_soon
  /\ write_to_file(in_data)
  /\ stage' = "aborted"
  /\ UNCHANGED <<in_data, crash_mode, exact_mode, cur_pass, changed_any, loop,
                 stop_soon, verdicts>>

(* The first run sets the mode and the checksum to compare with.           *)
DryRun ==
  /\ stage = "dry run" /\ ~stop_soon
  /\ \E o \in Outcomes : o.same /\ crash_mode' = o.crash
  /\ good' = {in_data}
  /\ stage' = "normalize"
  /\ UNCHANGED <<in_data, exact_mode, cur_pass, changed_any, loop, stop_soon,
                 out_file, bad, hangs>>

DryRunHangs ==
  /\ stage = "dry run" /\ ~stop_soon
  /\ handle_timeout
  /\ stage' = "aborted"
  /\ UNCHANGED <<in_data, crash_mode, exact_mode, cur_pass, changed_any, loop,
                 stop_soon, out_file, good, bad>>

(* A target that ends by itself without touching the bitmap.               *)
DryRunSilent ==
  /\ stage = "dry run" /\ ~stop_soon
  /\ good' = {in_data}
  /\ stage' = "aborted"
  /\ UNCHANGED <<in_data, crash_mode, exact_mode, cur_pass, changed_any, loop, stop_soon,
                 out_file, bad, hangs>>

-----------------------------------------------------------------------------
(* minimize.                                                               *)

Zeroed(from, n) ==
  [k \in 1 .. in_len |-> IF k \in from + 1 .. from + n THEN Zero ELSE in_data[k]]

set_len == AtLeast(TMIN_SET_MIN_SIZE, next_p2(in_len \div TMIN_SET_STEPS))

NormalizeBlock ==
  /\ stage = "normalize" /\ pos < in_len
  /\ LET input == Zeroed(pos, AtMost(in_len - pos, set_len))
     IN  \/ input = in_data /\ UNCHANGED <<in_data, verdicts>>
         \/ input # in_data /\ Accepted(input) /\ in_data' = input
         \/ input # in_data /\ Refused(input) /\ UNCHANGED in_data
  /\ pos' = pos + set_len
  /\ UNCHANGED <<crash_mode, exact_mode, stage, cur_pass, changed_any, del_len,
                 prev_del, symbols, stop_soon, out_file>>

StillSet == changed_any \* fault: a change counts for every later pass
FlagAtStart == FALSE

StartPass(pass) ==
  /\ cur_pass' = pass
  /\ changed_any' = FlagAtStart
  /\ del_len' = next_p2(in_len \div TRIM_START_STEPS)
  /\ pos' = 0 /\ prev_del' = TRUE
  /\ stage' = "delete"
  /\ UNCHANGED <<in_data, crash_mode, exact_mode, symbols, stop_soon, out_file, verdicts>>

NormalizeDone == stage = "normalize" /\ pos >= in_len /\ StartPass(1)

tail_len == AtLeast(0, in_len - pos - del_len)
Without(from, n) ==
  SubSeq(in_data, 1, from) \o SubSeq(in_data, AtMost(in_len, from + n) + 1, in_len)

BlockAt(from) == SubSeq(in_data, from + 1, from + del_len)
(* The block is a copy of the one before it, which has been tried.         *)
SeenBefore == ~prev_del /\ tail_len > 0 /\ BlockAt(pos - del_len) = BlockAt(pos)

SkipBlock ==
  /\ stage = "delete" /\ pos < in_len /\ SeenBefore
  /\ pos' = pos + del_len
  /\ UNCHANGED <<in_data, crash_mode, exact_mode, stage, cur_pass, changed_any,
                 del_len, prev_del, symbols, stop_soon, out_file, verdicts>>

DeleteBlock ==
  /\ stage = "delete" /\ pos < in_len /\ ~SeenBefore
  /\ Accepted(Without(pos, del_len))
  /\ in_data' = Without(pos, del_len)
  /\ prev_del' = TRUE /\ changed_any' = TRUE
  /\ UNCHANGED <<crash_mode, exact_mode, stage, cur_pass, pos, del_len, symbols,
                 stop_soon, out_file>>

KeepBlock ==
  /\ stage = "delete" /\ pos < in_len /\ ~SeenBefore
  /\ Refused(Without(pos, del_len))
  /\ prev_del' = FALSE
  /\ pos' = pos + del_len
  /\ UNCHANGED <<in_data, crash_mode, exact_mode, stage, cur_pass, changed_any,
                 del_len, symbols, stop_soon, out_file>>

LastSize == 2 \* fault: single bytes are not tried
Smallest == 1

SmallerBlocks ==
  /\ stage = "delete" /\ pos >= in_len /\ del_len > Smallest /\ in_len >= 1
  /\ del_len' = del_len \div 2
  /\ pos' = 0 /\ prev_del' = TRUE
  /\ UNCHANGED <<in_data, crash_mode, exact_mode, stage, cur_pass, changed_any,
                 symbols, stop_soon, out_file, verdicts>>

DeletionDone ==
  /\ stage = "delete" /\ pos >= in_len /\ (del_len <= Smallest \/ in_len < 1)
  /\ IF cur_pass > 1 /\ ~changed_any THEN stage' = "write" /\ symbols' = {}
     ELSE stage' = "alphabet" /\ symbols' = {in_data[k] : k \in 1 .. in_len} \ {Zero}
  /\ pos' = 0 /\ del_len' = 0 /\ prev_del' = FALSE
  /\ UNCHANGED <<in_data, crash_mode, exact_mode, cur_pass, changed_any, stop_soon,
                 out_file, verdicts>>

Replaced(sym) ==
  [k \in 1 .. in_len |-> IF in_data[k] = sym THEN Zero ELSE in_data[k]]

(* The symbols are tried in the order of their codes.                      *)
TrySymbol ==
  /\ stage = "alphabet"
  /\ \E sym \in symbols :
       /\ \A other \in symbols : sym <= other
       /\ symbols' = symbols \ {sym}
       /\ \/ /\ Accepted(Replaced(sym))
             /\ in_data' = Replaced(sym) /\ changed_any' = TRUE
          \/ Refused(Replaced(sym)) /\ UNCHANGED <<in_data, changed_any>>
  /\ UNCHANGED <<crash_mode, exact_mode, stage, cur_pass, pos, del_len, prev_del,
                 stop_soon, out_file>>

AlphabetDone ==
  /\ stage = "alphabet" /\ symbols = {}
  /\ stage' = "character"
  /\ UNCHANGED <<in_data, crash_mode, exact_mode, cur_pass, changed_any, loop,
                 stop_soon, out_file, verdicts>>

TryCharacter ==
  /\ stage = "character" /\ pos < in_len
  /\ LET input == Zeroed(pos, 1)
     IN  \/ input = in_data /\ UNCHANGED <<in_data, changed_any, verdicts>>
         \/ /\ input # in_data /\ Accepted(input)
            /\ in_data' = input /\ changed_any' = TRUE
         \/ /\ input # in_data /\ Refused(input)
            /\ UNCHANGED <<in_data, changed_any>>
  /\ pos' = pos + 1
  /\ UNCHANGED <<crash_mode, exact_mode, stage, cur_pass, del_len, prev_del, symbols,
                 stop_soon, out_file>>

NextPass ==
  /\ stage = "character" /\ pos >= in_len /\ changed_any
  /\ StartPass(AtMost(2, cur_pass + 1)) \* only compared with 1

PassesDone ==
  /\ stage = "character" /\ pos >= in_len /\ ~changed_any
  /\ stage' = "write"
  /\ pos' = 0
  /\ UNCHANGED <<in_data, crash_mode, exact_mode, cur_pass, changed_any, del_len,
                 prev_del, symbols, stop_soon, out_file, verdicts>>

WriteOutput ==
  /\ stage = "write"
  /\ write_to_file(in_data)
  /\ stage' = "written"
  /\ UNCHANGED <<in_data, crash_mode, exact_mode, cur_pass, changed_any, loop,
                 stop_soon, verdicts>>

HandleStopSig ==
  /\ stage \notin {"write", "written", "aborted"} /\ ~stop_soon
  /\ stop_soon' = TRUE
  /\ UNCHANGED <<in_data, crash_mode, exact_mode, stage, cur_pass, changed_any, loop,
                 out_file, verdicts>>

Work ==
  \/ DryRun \/ DryRunSilent \/ DryRunHangs \/ Interrupted
  \/ NormalizeBlock \/ NormalizeDone
  \/ SkipBlock \/ DeleteBlock \/ KeepBlock \/ SmallerBlocks \/ DeletionDone
  \/ TrySymbol \/ AlphabetDone \/ TryCharacter \/ NextPass \/ PassesDone
  \/ WriteOutput

-----------------------------------------------------------------------------
(* Properties.                                                             *)

(* However minimize ends, the file written is one the target has been seen *)
(* to treat like the first, unless the first run had not ended yet.        *)
OutputFaithful == out_file \subseteq good \/ (good = {} /\ out_file = {in_data})

(* When minimize comes to its end, every file with one byte less has been  *)
(* run and refused: the blocks left out because they repeat the block      *)
(* before them lose nothing.                                               *)
OneMinimal ==
  stage = "written" /\ hangs = 0 =>
    \A k \in 0 .. in_len - 1 : Without(k, 1) \in bad

(* The passes come to an end: each but the last makes the file smaller or  *)
(* turns more of it into zeros.                                            *)
Terminates == <>(stage \in {"written", "aborted"})
=============================================================================
