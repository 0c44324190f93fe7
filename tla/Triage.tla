------------------------------- MODULE Triage -------------------------------
(***************************************************************************)
(* What afl-fuzz makes of the trace of a run: the virgin maps of           *)
(* has_new_bits, save_if_interesting with its hangs and crashes, and       *)
(* calibrate_case with the bytes that vary (src/afl-fuzz.c).               *)
(*                                                                         *)
(* The target is unpredictable: every run ends with any verdict and any of *)
(* the traces in Traces, also when the input is the same.  A byte of a map *)
(* is the set of its bits, so clearing bits is a set difference.  The      *)
(* modes are those with a fork server: FAULT_ERROR and dumb mode are left  *)
(* out.                                                                    *)
(***************************************************************************)
EXTENDS Integers, FiniteSets

CONSTANTS
  Cells,              \* the bytes of trace_bits
  Traces,             \* the raw hit counts a run can leave, a set of [Cells -> 0 .. 255]
  CrashModes,         \* the values of crash_mode to consider: "none", "crash"
  ShortTimeout,       \* exec_tmout < hang_tmout
  Tolerant,           \* the dry run skips timeouts and crashes (-t nn+, AFL_SKIP_CRASHES)
  InitialEntries,     \* test cases in the input directory
  MaxQueue,           \* bound: entries in the queue
  MaxFaults,          \* bound: paths of crashes and timeouts looked at
  CAL_CHANCES, CAL_CYCLES, CAL_CYCLES_LONG,
  KEEP_UNIQUE_HANG, KEEP_UNIQUE_CRASH

ASSUME TriageAssumption ==
  /\ Traces \subseteq [Cells -> 0 .. 255]
  /\ CrashModes \subseteq {"none", "crash"}
  /\ {ShortTimeout, Tolerant} \subseteq BOOLEAN
  /\ Cells # {}
  /\ MaxQueue \in Nat /\ InitialEntries \in 1 .. MaxQueue
  /\ CAL_CHANCES \in Nat \ {0}
  /\ CAL_CYCLES_LONG \in Nat /\ CAL_CYCLES \in 1 .. CAL_CYCLES_LONG
  /\ KEEP_UNIQUE_HANG \in Nat /\ KEEP_UNIQUE_CRASH \in Nat

VARIABLES
  crash_mode,
  trace_bits,
  virgin_bits, virgin_tmout, virgin_crash,
  var_bytes,          \* the bytes marked in var_bytes[]
  queued_paths,
  exec_cksum,         \* [entry -> {the trace with that checksum}, {} for 0]
  has_new_cov, var_behavior, cal_failed,
  queued_with_cov, queued_variable,
  unique_hangs, unique_crashes,
  cal,                \* the locals of calibrate_case
  fault,              \* the verdict save_if_interesting looks at
  stop_soon,
  pc,
  shown,              \* history: the bits clean runs of queue entries have had
  varied,             \* history: the bytes in which two of one entry differed
  stale,              \* history: a leftover trace has been taken for a first trace
  crashSeen, hangSeen \* history: what the crashes and timeouts looked at had hit

maps    == <<virgin_bits, virgin_tmout, virgin_crash>>
queue   == <<queued_paths, exec_cksum, has_new_cov, var_behavior, cal_failed,
             queued_with_cov, queued_variable>>
found   == <<unique_hangs, unique_crashes>>
faults  == <<crashSeen, hangSeen>>
history == <<shown, varied, stale, faults>>
vars == <<crash_mode, trace_bits, maps, var_bytes, queue, found,
          cal, fault, stop_soon, pc, history>>

-----------------------------------------------------------------------------
(* Bytes and maps.                                                         *)

Bits == 0 .. 7
Byte == SUBSET Bits
Entries == 1 .. queued_paths

(* count_class_lookup8: the bucket of a hit count, a byte with one bit.    *)
Bucket(n) ==
  CASE n = 0         -> {}
    [] n \in 1 .. 3  -> {n - 1}
    [] n \in 4 .. 7  -> {3}
    [] n \in 8 .. 15 -> {4}
    [] n \in 16 .. 31  -> {5}
    [] n \in 32 .. 127 -> {6}
    [] OTHER           -> {7}

classify_counts(counts) == [c \in Cells |-> Bucket(counts[c])]

(* simplify_lookup: 128 for a byte that was hit, 1 for one that was not.   *)
HitsOnly(trace) == [c \in Cells |-> IF trace[c] = {} THEN {} ELSE {7}] \* fault: no mark
simplify_trace(trace) == [c \in Cells |-> IF trace[c] = {} THEN {0} ELSE {7}]

count_bytes(trace) == Cardinality({c \in Cells : trace[c] # {}})

Pristine == [c \in Cells |-> Bits]

(* has_new_bits: 2 for a new tuple, 1 for a new count; and the map after.  *)
NewBits(virgin, trace) ==
  IF \E c \in Cells : trace[c] # {} /\ virgin[c] = Bits THEN 2
  ELSE IF \E c \in Cells : trace[c] \cap virgin[c] # {} THEN 1
  ELSE 0

Cleared(virgin, trace) == [c \in Cells |-> virgin[c] \ trace[c]]

-----------------------------------------------------------------------------
Idle == [q |-> 0, from |-> "none", stage_cur |-> 0, stage_max |-> 0,
         new_bits |-> 0, var_detected |-> FALSE, first_run |-> FALSE,
         first_trace |-> [c \in Cells |-> {}]]

Init ==
  /\ crash_mode \in CrashModes
  /\ trace_bits = [c \in Cells |-> {}]
  /\ virgin_bits = Pristine /\ virgin_tmout = Pristine /\ virgin_crash = Pristine
  /\ var_bytes = {}
  /\ queued_paths = InitialEntries
  /\ exec_cksum = [q \in 1 .. MaxQueue |-> {}]
  /\ has_new_cov = [q \in 1 .. MaxQueue |-> FALSE]
  /\ var_behavior = [q \in 1 .. MaxQueue |-> FALSE]
  /\ cal_failed = [q \in 1 .. MaxQueue |-> 0]
  /\ queued_with_cov = 0 /\ queued_variable = 0
  /\ unique_hangs = 0 /\ unique_crashes = 0
  /\ cal = [Idle EXCEPT !.q = 1]
  /\ fault = "none"
  /\ stop_soon = FALSE
  /\ pc = "dry run"
  /\ shown = [c \in Cells |-> {}] /\ varied = {} /\ stale = FALSE
  /\ crashSeen = {} /\ hangSeen = {}

-----------------------------------------------------------------------------
(* calibrate_case.  An entry that has a checksum takes what is in          *)
(* trace_bits for the trace of its first run.                              *)

StartCalibration(q, from, cksum) ==
  /\ cal' = [Idle EXCEPT !.q = q, !.from = from, !.stage_max = CAL_CYCLES,
                         !.first_run = cksum = {},
                         !.first_trace = IF cksum # {} THEN trace_bits ELSE @]
  /\ cal_failed' = [cal_failed EXCEPT ![q] = @ + 1]
  /\ pc' = "calibrate"

WithBits(trace) == [c \in Cells |-> shown[c] \cup trace[c]]

(* What comes after abort_calibration, with the new_bits and var_detected  *)
(* at that point.                                                          *)
FirstTimeNew(q) == ~has_new_cov[q]

AfterCalibration(result, new_bits, var_detected) ==
  LET q == cal.q
      newCov == new_bits = 2 /\ FirstTimeNew(q)
      newVar == var_detected /\ ~var_behavior[q]
  IN  /\ has_new_cov' = [has_new_cov EXCEPT ![q] = @ \/ newCov]
      /\ queued_with_cov' = queued_with_cov + (IF newCov THEN 1 ELSE 0)
      /\ var_behavior' = [var_behavior EXCEPT ![q] = @ \/ newVar]
      /\ queued_variable' = queued_variable + (IF newVar THEN 1 ELSE 0)
      /\ fault' = CASE cal.from = "dry run" -> result
                    [] cal.from = "find"    -> fault
                    [] cal.from = "fuzz"    -> "none"
      /\ cal' = [Idle EXCEPT !.q = IF cal.from = "dry run" THEN q ELSE 0]
      /\ pc' = CASE cal.from = "dry run" -> "judge"
                 [] cal.from = "find"    -> "switch"
                 [] cal.from = "fuzz"    -> "fuzz"

(* The bytes that differ from the first trace.                             *)
EveryHitByte(q, trace) == {c \in Cells : trace[c] # {}} \* fault: not compared
Differing(q, trace) == {c \in Cells : cal.first_trace[c] # trace[c]}

(* One run of the loop: a run that fails, one without any instrumentation, *)
(* or one that is compared with the checksum.                              *)
Unclean(verdict) == stop_soon \/ verdict # crash_mode
AnyVerdict(verdict) == FALSE                           \* fault: verdict ignored
Aborts(verdict) == Unclean(verdict)

CalibrationAborts(verdict, trace) ==
  /\ Aborts(verdict) \/ (cal.stage_cur = 0 /\ count_bytes(trace) = 0)
  /\ AfterCalibration(IF Aborts(verdict) THEN verdict ELSE "noinst",
                      cal.new_bits, cal.var_detected)
  /\ UNCHANGED <<virgin_bits, var_bytes, exec_cksum, shown, varied>>

CalibrationCompares(verdict, trace) ==
  LET q == cal.q
      same == exec_cksum[q] = {trace}
      hnb  == NewBits(virgin_bits, trace)
      diff == Differing(q, trace) \ var_bytes
  IN
  /\ ~Aborts(verdict) /\ (cal.stage_cur = 0 => count_bytes(trace) > 0)
  /\ shown' = IF Unclean(verdict) THEN shown ELSE WithBits(trace)
  /\ varied' = varied \cup {c \in Cells : \E t \in exec_cksum[q] : t[c] # trace[c]}
  /\ virgin_bits' = IF same THEN virgin_bits ELSE Cleared(virgin_bits, trace)
  /\ exec_cksum' = [exec_cksum EXCEPT ![q] = IF @ = {} THEN {trace} ELSE @]
  /\ LET varies == ~same /\ exec_cksum[q] # {} IN
     /\ var_bytes' = IF varies THEN var_bytes \cup diff ELSE var_bytes
     /\ cal' = [cal EXCEPT
          !.stage_cur = @ + 1,
          !.first_trace = IF exec_cksum[q] = {} THEN trace ELSE @,
          !.stage_max = IF varies /\ diff # {} THEN CAL_CYCLES_LONG ELSE @,
          !.new_bits = IF ~same /\ hnb > @ THEN hnb ELSE @,
          !.var_detected = @ \/ varies]
  /\ UNCHANGED <<has_new_cov, var_behavior, queued_with_cov, queued_variable, fault, pc>>

CalibrationRun ==
  /\ pc = "calibrate" /\ cal.stage_cur < cal.stage_max
  /\ \E verdict \in {"none", "tmout", "crash"}, counts \in Traces :
       LET trace == classify_counts(counts) IN
       /\ trace_bits' = trace
       /\ \/ CalibrationAborts(verdict, trace)
          \/ CalibrationCompares(verdict, trace)
  /\ UNCHANGED <<crash_mode, virgin_tmout, virgin_crash, queued_paths, cal_failed,
                 found, stop_soon, stale, faults>>

CalibrationDone ==
  /\ pc = "calibrate" /\ cal.stage_cur = cal.stage_max
  /\ cal_failed' = [cal_failed EXCEPT ![cal.q] = 0]
  /\ AfterCalibration(IF cal.first_run /\ crash_mode = "none" /\ cal.new_bits = 0
                      THEN "nobits" ELSE crash_mode,
                      cal.new_bits, cal.var_detected)
  /\ UNCHANGED <<crash_mode, trace_bits, maps, var_bytes, queued_paths,
                 exec_cksum, found, stop_soon, history>>

-----------------------------------------------------------------------------
(* perform_dry_run calibrates the entries it has read, in order.           *)

DryRun ==
  /\ pc = "dry run" /\ cal.q <= InitialEntries
  /\ StartCalibration(cal.q, "dry run", exec_cksum[cal.q])
  /\ UNCHANGED <<crash_mode, trace_bits, maps, var_bytes, queued_paths, exec_cksum,
                 has_new_cov, var_behavior, queued_with_cov, queued_variable, found,
                 fault, stop_soon, history>>

(* The switch over the result.  A program that does not crash is no use in *)
(* crash exploration; a timeout or a crash is skipped or fatal.            *)
Acceptable == \/ fault = "none" /\ crash_mode = "none"
              \/ fault = "crash" /\ crash_mode = "crash"
              \/ fault = "nobits"
Skippable == fault \in {"tmout", "crash"} /\ ~Acceptable /\ Tolerant

Judge ==
  /\ pc = "judge"
  /\ cal_failed' = IF Skippable /\ ~stop_soon
                   THEN [cal_failed EXCEPT ![cal.q] = CAL_CHANCES] ELSE cal_failed
  /\ cal' = [cal EXCEPT !.q = @ + 1]
  /\ fault' = "none"
  /\ pc' = IF stop_soon THEN "end"
           ELSE IF ~Acceptable /\ ~Skippable THEN "fatal"
           ELSE "dry run"
  /\ UNCHANGED <<crash_mode, trace_bits, maps, var_bytes, queued_paths,
                 exec_cksum, has_new_cov, var_behavior, queued_with_cov,
                 queued_variable, found, stop_soon, history>>

DryRunDone ==
  /\ pc = "dry run" /\ cal.q > InitialEntries
  /\ pc' = IF \A q \in Entries : cal_failed[q] = CAL_CHANCES THEN "fatal" ELSE "fuzz"
  /\ cal' = Idle
  /\ UNCHANGED <<crash_mode, trace_bits, maps, var_bytes, queue, found,
                 fault, stop_soon, history>>

-----------------------------------------------------------------------------
(* fuzz_one calibrates an entry again whose calibration was cut short.     *)

Recalibrate(q) ==
  /\ pc = "fuzz" /\ ~stop_soon
  /\ cal_failed[q] \in 1 .. CAL_CHANCES - 1
  /\ StartCalibration(q, "fuzz", exec_cksum[q])
  /\ stale' = (stale \/ exec_cksum[q] # {})
  /\ UNCHANGED <<crash_mode, trace_bits, maps, var_bytes, queued_paths, exec_cksum,
                 has_new_cov, var_behavior, queued_with_cov, queued_variable, found,
                 fault, stop_soon, shown, varied, faults>>

(* common_fuzz_stuff runs a mutated input; a trimming run is the same with *)
(* nothing saved.  After a stop the result is not looked at.               *)
FuzzRun ==
  /\ pc = "fuzz" /\ ~stop_soon
  /\ \E verdict \in {"none", "tmout", "crash"}, counts \in Traces :
       /\ verdict = crash_mode \/ Cardinality(crashSeen) + Cardinality(hangSeen) < MaxFaults
       /\ trace_bits' = classify_counts(counts)
       /\ fault' = verdict
  /\ pc' = "save"
  /\ UNCHANGED <<crash_mode, maps, var_bytes, queue, found, cal,
                 stop_soon, history>>

RunStopped ==
  /\ pc \in {"fuzz", "save"} /\ stop_soon
  /\ pc' = "end"
  /\ UNCHANGED <<crash_mode, trace_bits, maps, var_bytes, queue, found,
                 cal, fault, stop_soon, history>>

Return == pc' = "fuzz" /\ fault' = "none"

(* save_if_interesting, up to its switch: a run as wanted, without and     *)
(* with new bits, and another one.                                         *)
SaveNothingNew ==
  /\ pc = "save" /\ ~stop_soon
  /\ fault = crash_mode /\ NewBits(virgin_bits, trace_bits) = 0
  /\ Return
  /\ UNCHANGED <<crash_mode, trace_bits, maps, var_bytes, queue, found, cal, stop_soon,
                 history>>

SaveFind ==
  LET q == queued_paths + 1
      hnb == NewBits(virgin_bits, trace_bits)
  IN
  /\ pc = "save" /\ ~stop_soon
  /\ fault = crash_mode /\ hnb # 0
  /\ queued_paths < MaxQueue
  /\ virgin_bits' = Cleared(virgin_bits, trace_bits)
  /\ queued_paths' = q
  /\ has_new_cov' = [has_new_cov EXCEPT ![q] = hnb = 2]
  /\ queued_with_cov' = queued_with_cov + (IF hnb = 2 THEN 1 ELSE 0)
  /\ exec_cksum' = [exec_cksum EXCEPT ![q] = {trace_bits}]
  /\ shown' = WithBits(trace_bits)
  /\ StartCalibration(q, "find", {trace_bits})
  /\ UNCHANGED <<crash_mode, trace_bits, virgin_tmout, virgin_crash, var_bytes,
                 var_behavior, queued_variable, found, fault, stop_soon, varied, stale,
                 faults>>

SaveOther ==
  /\ pc = "save" /\ ~stop_soon
  /\ fault # crash_mode
  /\ pc' = "switch"
  /\ UNCHANGED <<crash_mode, trace_bits, maps, var_bytes, queue, found,
                 cal, fault, stop_soon, history>>

-----------------------------------------------------------------------------
(* The switch of save_if_interesting.                                      *)

Hit(trace) == {c \in Cells : trace[c] # {}}

SwitchNone ==
  /\ pc = "switch" /\ fault = "none"
  /\ Return
  /\ UNCHANGED <<crash_mode, trace_bits, maps, var_bytes, queue, found, cal, stop_soon,
                 history>>

Enough(n, keep) == n >= keep

SwitchTimeout ==
  /\ pc = "switch" /\ fault = "tmout"
  /\ UNCHANGED <<crash_mode, virgin_bits, virgin_crash, var_bytes, queue,
                 unique_crashes, cal, stop_soon, shown, varied, stale, crashSeen>>
  /\ IF Enough(unique_hangs, KEEP_UNIQUE_HANG)
     THEN Return /\ UNCHANGED <<trace_bits, virgin_tmout, unique_hangs, hangSeen>>
     ELSE LET new == NewBits(virgin_tmout, simplify_trace(trace_bits)) # 0 IN
          /\ trace_bits' = simplify_trace(trace_bits)
          /\ virgin_tmout' = Cleared(virgin_tmout, simplify_trace(trace_bits))
          /\ unique_hangs' = unique_hangs + (IF new /\ ~ShortTimeout THEN 1 ELSE 0)
          /\ IF new /\ ShortTimeout THEN pc' = "confirm" /\ fault' = "none" ELSE Return
          /\ hangSeen' = hangSeen \cup {Hit(trace_bits)}

(* The second run, with hang_tmout: a hang after all, a crash, or nothing. *)
ConfirmHang ==
  /\ pc = "confirm"
  /\ \E verdict \in {"none", "tmout", "crash"}, counts \in Traces :
       /\ trace_bits' = classify_counts(counts)
       /\ unique_hangs' =
            unique_hangs + (IF verdict = "tmout" /\ ~stop_soon THEN 1 ELSE 0)
       /\ IF verdict = "crash" /\ ~stop_soon
          THEN pc' = "switch" /\ fault' = "crash" ELSE Return
  /\ UNCHANGED <<crash_mode, maps, var_bytes, queue, unique_crashes, cal,
                 stop_soon, history>>

(* In crash exploration the trace is that of the last calibration run.     *)
SwitchCrash ==
  /\ pc = "switch" /\ fault = "crash"
  /\ Return
  /\ IF Enough(unique_crashes, KEEP_UNIQUE_CRASH)
     THEN UNCHANGED <<trace_bits, virgin_crash, unique_crashes, crashSeen>>
     ELSE /\ trace_bits' = simplify_trace(trace_bits)
          /\ virgin_crash' = Cleared(virgin_crash, simplify_trace(trace_bits))
          /\ unique_crashes' = unique_crashes +
               (IF NewBits(virgin_crash, simplify_trace(trace_bits)) # 0 THEN 1 ELSE 0)
          /\ crashSeen' = crashSeen \cup {Hit(trace_bits)}
  /\ UNCHANGED <<crash_mode, virgin_bits, virgin_tmout, var_bytes, queue,
                 unique_hangs, cal, stop_soon, shown, varied, stale, hangSeen>>

HandleStop ==
  /\ pc \notin {"end", "fatal"} /\ ~stop_soon
  /\ stop_soon' = TRUE
  /\ UNCHANGED <<crash_mode, trace_bits, maps, var_bytes, queue, found,
                 cal, fault, pc, history>>

Next ==
  \/ DryRun \/ Judge \/ DryRunDone
  \/ CalibrationRun \/ CalibrationDone
  \/ \E q \in Entries : Recalibrate(q)
  \/ FuzzRun \/ RunStopped
  \/ SaveNothingNew \/ SaveFind \/ SaveOther
  \/ SwitchNone \/ SwitchTimeout \/ ConfirmHang \/ SwitchCrash
  \/ HandleStop

Spec == Init /\ [][Next]_vars

-----------------------------------------------------------------------------
(* Properties.                                                             *)

(* Coverage is claimed for the queue only: a bit is cleared in virgin_bits *)
(* exactly when a clean run of an entry of the queue has shown it, so an   *)
(* interrupted calibration or an input that was not kept hides nothing     *)
(* from later ones.                                                        *)
CoverageBacked ==
  \A c \in Cells : Bits \ virgin_bits[c] = shown[c]

(* A byte is marked variable only if two clean runs of one entry differ in *)
(* it, as long as no entry has been calibrated again with the trace left   *)
(* over from another input.                                                *)
VarBytesTrue ==
  ~stale => var_bytes \subseteq varied

(* docs/technical_details.txt: a crash is unique if its path includes a    *)
(* tuple not seen in any of the earlier crashes, or misses one that was    *)
(* always present.  A crash is counted exactly then, and a timeout is      *)
(* looked at again exactly then.                                           *)
Unseen(hit, seen) ==
  \/ seen = {}
  \/ hit \ UNION seen # {}
  \/ \E c \in Cells \ hit : \A s \in seen : c \in s

FaultsUnique ==
  [][pc = "switch" /\ pc' # pc =>
       /\ fault = "crash" /\ unique_crashes < KEEP_UNIQUE_CRASH =>
            (unique_crashes' > unique_crashes <=> Unseen(Hit(trace_bits), crashSeen))
       /\ fault = "tmout" /\ unique_hangs < KEEP_UNIQUE_HANG =>
            ((pc' = "confirm" \/ unique_hangs' > unique_hangs)
               <=> Unseen(Hit(trace_bits), hangSeen))]_vars
=============================================================================
