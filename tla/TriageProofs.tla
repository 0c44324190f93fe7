----------------------------- MODULE TriageProofs -----------------------------
(***************************************************************************)
(* Proofs about Triage, for any map, any traces, any queue and any limits: *)
(* coverage is claimed for entries of the queue only, a byte is marked     *)
(* variable only if two runs of one entry differ in it, and crashes and    *)
(* timeouts are told apart as the documentation says.                      *)
(***************************************************************************)
EXTENDS Triage, TLAPS

-----------------------------------------------------------------------------
(* Types, and where a calibration is.                                      *)

Callers == {"dry run", "find", "fuzz"}
Trace   == [Cells -> Byte]

Calibration ==
  [q : Nat, from : Callers \cup {"none"}, stage_cur : Nat, stage_max : Nat,
   new_bits : 0 .. 2, var_detected : BOOLEAN, first_run : BOOLEAN, first_trace : Trace]

CalOK ==
  /\ cal \in Calibration
  /\ pc = "calibrate" => cal.q \in 1 .. MaxQueue /\ cal.from \in Callers
  /\ pc \in {"dry run", "judge"} => cal.q >= 1

Typed ==
  /\ queued_paths \in 1 .. MaxQueue
  /\ trace_bits \in Trace
  /\ DOMAIN exec_cksum = 1 .. MaxQueue
  /\ unique_hangs \in Nat /\ unique_crashes \in Nat
  /\ CalOK

LEMMA ClassifiedTrace ==
  ASSUME NEW counts \in Traces PROVE classify_counts(counts) \in Trace
<1>1. \A c \in Cells : counts[c] \in 0 .. 255
  BY TriageAssumption
<1>2. ASSUME NEW n \in 0 .. 255 PROVE Bucket(n) \in Byte
  <2>1. CASE n = 0
    BY <2>1 DEF Bucket, Byte
  <2>2. CASE n \in 1 .. 3
    BY <2>2 DEF Bucket, Byte, Bits
  <2>3. CASE n > 3
    BY <1>2, <2>3 DEF Bucket, Byte, Bits
  <2> QED
    BY <1>2, <2>1, <2>2, <2>3
<1> QED
  BY <1>1, <1>2 DEF classify_counts, Trace

LEMMA SimplifiedTrace ==
  ASSUME NEW t PROVE simplify_trace(t) \in Trace
BY DEF simplify_trace, Trace, Byte, Bits

LEMMA IdleCalibration == Idle \in Calibration
BY DEF Idle, Calibration, Trace, Byte

(* What StartCalibration and AfterCalibration make of cal and pc.          *)
LEMMA Started ==
  ASSUME NEW q \in Nat, NEW from \in Callers, NEW cksum, trace_bits \in Trace,
         StartCalibration(q, from, cksum)
  PROVE  /\ pc' = "calibrate"
         /\ cal' \in Calibration /\ cal'.q = q /\ cal'.from = from
         /\ cksum # {} => cal'.first_trace = trace_bits
<1>1. CAL_CYCLES \in Nat
  BY TriageAssumption
<1> QED
  BY <1>1, IdleCalibration DEF StartCalibration, Idle, Calibration, Callers

LEMMA Finished ==
  ASSUME NEW result, NEW new_bits, NEW var_detected, cal \in Calibration,
         cal.from \in Callers, AfterCalibration(result, new_bits, var_detected)
  PROVE  /\ cal' \in Calibration
         /\ \/ pc' = "judge" /\ cal.from = "dry run" /\ cal'.q = cal.q
            \/ pc' \in {"switch", "fuzz"}
<1>1. cal' = [Idle EXCEPT !.q = IF cal.from = "dry run" THEN cal.q ELSE 0]
  BY DEF AfterCalibration
<1>2. cal.q \in Nat
  BY DEF Calibration
<1>3. cal' \in Calibration /\ (cal.from = "dry run" => cal'.q = cal.q)
  <2>1. (IF cal.from = "dry run" THEN cal.q ELSE 0) \in Nat
    BY <1>2
  <2> QED
    BY <1>1, <2>1, IdleCalibration DEF Calibration
<1>4. CASE cal.from = "dry run"
  BY <1>3, <1>4 DEF AfterCalibration
<1>5. CASE cal.from = "find"
  BY <1>3, <1>5 DEF AfterCalibration
<1>6. CASE cal.from = "fuzz"
  BY <1>3, <1>6 DEF AfterCalibration
<1> QED
  BY <1>4, <1>5, <1>6 DEF Callers

(* A run that is compared changes nothing of the calibration but what it   *)
(* has found out.                                                          *)
LEMMA Compared ==
  ASSUME NEW verdict, NEW trace \in Trace, cal \in Calibration,
         CalibrationCompares(verdict, trace)
  PROVE  /\ pc' = pc
         /\ cal' \in Calibration /\ cal'.q = cal.q /\ cal'.from = cal.from
         /\ cal'.first_trace = IF exec_cksum[cal.q] = {} THEN trace ELSE cal.first_trace
<1> DEFINE q == cal.q
           same == exec_cksum[q] = {trace}
           hnb == NewBits(virgin_bits, trace)
           diff == Differing(q, trace) \ var_bytes
           varies == ~same /\ exec_cksum[q] # {}
<1>1. hnb \in 0 .. 2
  BY DEF NewBits
<1>2. CAL_CYCLES_LONG \in Nat
  BY TriageAssumption
<1>3. cal' = [cal EXCEPT
          !.stage_cur = @ + 1,
          !.first_trace = IF exec_cksum[q] = {} THEN trace ELSE @,
          !.stage_max = IF varies /\ diff # {} THEN CAL_CYCLES_LONG ELSE @,
          !.new_bits = IF ~same /\ hnb > @ THEN hnb ELSE @,
          !.var_detected = @ \/ varies]
  BY DEF CalibrationCompares
<1>4. pc' = pc
  BY DEF CalibrationCompares
<1> DEFINE first == IF exec_cksum[q] = {} THEN trace ELSE cal.first_trace
           max   == IF varies /\ diff # {} THEN CAL_CYCLES_LONG ELSE cal.stage_max
           bits  == IF ~same /\ hnb > cal.new_bits THEN hnb ELSE cal.new_bits
           found_var == cal.var_detected \/ varies
<1>5. /\ cal.stage_cur + 1 \in Nat /\ first \in Trace /\ max \in Nat
      /\ bits \in 0 .. 2 /\ found_var \in BOOLEAN
  BY <1>1, <1>2 DEF Calibration
<1>6. cal' = [cal EXCEPT !.stage_cur = cal.stage_cur + 1, !.first_trace = first,
                         !.stage_max = max, !.new_bits = bits,
                         !.var_detected = found_var]
  BY <1>3
<1> HIDE DEF first, max, bits, found_var
<1>7. /\ cal' \in Calibration /\ cal'.q = cal.q /\ cal'.from = cal.from
      /\ cal'.first_trace = first
  BY <1>5, <1>6 DEF Calibration
<1> QED
  BY <1>4, <1>7 DEF first

(* The steps that do not touch the queue and its coverage, and neither     *)
(* start nor continue a calibration.                                       *)
Elsewhere ==
  \/ DryRunDone \/ FuzzRun \/ RunStopped \/ SaveNothingNew \/ SaveOther
  \/ SwitchNone \/ SwitchTimeout \/ ConfirmHang \/ SwitchCrash \/ HandleStop
  \/ UNCHANGED vars

Calibrating == {"dry run", "calibrate", "judge"}

LEMMA ElsewhereQueue ==
  ASSUME Elsewhere
  PROVE  /\ UNCHANGED <<queued_paths, exec_cksum, virgin_bits, var_bytes, shown, varied,
                        stale>>
         /\ (pc' = pc /\ cal' = cal) \/ pc' \notin Calibrating
BY DEF Elsewhere, DryRunDone, FuzzRun, RunStopped, SaveNothingNew, SaveOther, SwitchNone,
   SwitchTimeout, ConfirmHang, SwitchCrash, HandleStop, Return, Calibrating, vars, maps,
   queue, found, faults, history

LEMMA ElsewhereTyped ==
  ASSUME Typed, Elsewhere
  PROVE  /\ trace_bits' \in Trace /\ cal' \in Calibration
         /\ unique_hangs' \in Nat /\ unique_crashes' \in Nat
<1> USE DEF Typed, CalOK
<1>1. CASE DryRunDone
  BY <1>1, IdleCalibration DEF DryRunDone, found
<1>2. CASE FuzzRun
  BY <1>2, ClassifiedTrace DEF FuzzRun, found
<1>3. CASE RunStopped \/ SaveNothingNew \/ SaveOther \/ SwitchNone \/ HandleStop
           \/ UNCHANGED vars
  BY <1>3 DEF RunStopped, SaveNothingNew, SaveOther, SwitchNone, HandleStop, vars, found
<1>4. CASE SwitchTimeout
  BY <1>4, SimplifiedTrace DEF SwitchTimeout
<1>5. CASE ConfirmHang
  BY <1>5, ClassifiedTrace DEF ConfirmHang
<1>6. CASE SwitchCrash
  BY <1>6, SimplifiedTrace DEF SwitchCrash
<1> QED
  BY <1>1, <1>2, <1>3, <1>4, <1>5, <1>6 DEF Elsewhere

LEMMA Bounds ==
  /\ InitialEntries \in 1 .. MaxQueue /\ MaxQueue \in Nat
  /\ 1 \in 1 .. MaxQueue
  /\ \A n \in Nat : n >= 1 /\ n <= InitialEntries => n \in 1 .. MaxQueue
  /\ \A n \in 1 .. MaxQueue : \A q \in 1 .. n : q \in 1 .. MaxQueue /\ q \in Nat
  /\ \A n \in 1 .. MaxQueue : n < MaxQueue => n + 1 \in 1 .. MaxQueue /\ n + 1 \in Nat
  /\ \A n \in 1 .. MaxQueue : n >= 1
<1>1. MaxQueue \in Nat /\ InitialEntries \in 1 .. MaxQueue
  BY TriageAssumption
<1> QED
  BY <1>1

LEMMA InitTyped == Init => Typed
<1> SUFFICES ASSUME Init PROVE Typed
  OBVIOUS
<1>1. queued_paths \in 1 .. MaxQueue
  <2>1. queued_paths = InitialEntries
    BY DEF Init
  <2> QED
    BY <2>1, Bounds
<1>2. trace_bits \in Trace
  BY DEF Init, Trace, Byte
<1>3. cal \in Calibration /\ cal.q = 1
  BY IdleCalibration DEF Init, Calibration
<1>4. /\ unique_hangs \in Nat /\ unique_crashes \in Nat /\ pc = "dry run"
      /\ DOMAIN exec_cksum = 1 .. MaxQueue
  BY DEF Init
<1>5. CalOK
  <2>1. cal.q = 1
    BY <1>3
  <2>2. cal.q >= 1
    BY <2>1
  <2> QED
    BY <1>3, <1>4, <2>2 DEF CalOK
<1> QED
  BY <1>1, <1>2, <1>4, <1>5 DEF Typed

LEMMA TypedStep == Typed /\ [Next]_vars => Typed'
<1> SUFFICES ASSUME Typed, [Next]_vars PROVE Typed'
  OBVIOUS
<1>0. /\ queued_paths \in 1 .. MaxQueue /\ trace_bits \in Trace
      /\ DOMAIN exec_cksum = 1 .. MaxQueue
      /\ unique_hangs \in Nat /\ unique_crashes \in Nat
      /\ cal \in Calibration
      /\ pc = "calibrate" => cal.q \in 1 .. MaxQueue /\ cal.from \in Callers
      /\ pc \in {"dry run", "judge"} => cal.q >= 1
  BY DEF Typed, CalOK
<1>q. cal.q \in Nat
  BY <1>0 DEF Calibration
<1>1. CASE DryRun
  <2>1. /\ pc = "dry run" /\ cal.q <= InitialEntries
        /\ StartCalibration(cal.q, "dry run", exec_cksum[cal.q])
        /\ UNCHANGED <<trace_bits, queued_paths, exec_cksum, unique_hangs, unique_crashes>>
    BY <1>1 DEF DryRun, found
  <2>2. cal.q \in 1 .. MaxQueue /\ cal.q >= 1 /\ "dry run" \in Callers
    <3>1. cal.q >= 1 /\ cal.q <= InitialEntries
      BY <1>0, <2>1
    <3> QED
      BY <1>q, <3>1, Bounds DEF Callers
  <2>3. pc' = "calibrate" /\ cal' \in Calibration /\ cal'.q = cal.q /\ cal'.from = "dry run"
    BY <1>0, <1>q, <2>1, <2>2, Started
  <2> QED
    BY <1>0, <2>1, <2>2, <2>3 DEF Typed, CalOK
<1>2. CASE Judge
  <2>1. /\ cal' = [cal EXCEPT !.q = cal.q + 1] /\ pc = "judge"
        /\ UNCHANGED <<trace_bits, queued_paths, exec_cksum, unique_hangs, unique_crashes>>
        /\ pc' # "calibrate"
    BY <1>2 DEF Judge, found
  <2>2. cal.q + 1 \in Nat /\ cal.q + 1 >= 1
    BY <1>q
  <2>3. cal' \in Calibration /\ cal'.q = cal.q + 1
    BY <1>0, <2>1, <2>2 DEF Calibration
  <2>4. cal'.q >= 1
    BY <2>2, <2>3
  <2> QED
    BY <1>0, <2>1, <2>3, <2>4 DEF Typed, CalOK
<1>3. CASE CalibrationRun
  <2>0. /\ pc = "calibrate" /\ cal.q \in 1 .. MaxQueue /\ cal.from \in Callers
        /\ UNCHANGED <<queued_paths, unique_hangs, unique_crashes>>
    BY <1>0, <1>3 DEF CalibrationRun, found
  <2>1. PICK verdict \in {"none", "tmout", "crash"}, counts \in Traces :
          /\ trace_bits' = classify_counts(counts)
          /\ \/ CalibrationAborts(verdict, classify_counts(counts))
             \/ CalibrationCompares(verdict, classify_counts(counts))
    BY <1>3 DEF CalibrationRun
  <2>2. trace_bits' \in Trace
    BY <2>1, ClassifiedTrace
  <2>3. CASE CalibrationAborts(verdict, classify_counts(counts))
    <3>1. exec_cksum' = exec_cksum
      BY <2>3 DEF CalibrationAborts
    <3>2. /\ cal' \in Calibration
          /\ (pc' = "judge" /\ cal'.q = cal.q) \/ pc' \in {"switch", "fuzz"}
      BY <1>0, <2>0, <2>3, Finished DEF CalibrationAborts
    <3>3. CalOK'
      BY <2>0, <3>2, Bounds DEF CalOK
    <3> QED
      BY <1>0, <2>0, <2>2, <3>1, <3>3 DEF Typed
  <2>4. CASE CalibrationCompares(verdict, classify_counts(counts))
    <3>1. /\ pc' = pc /\ cal' \in Calibration
          /\ cal'.q = cal.q /\ cal'.from = cal.from
      BY <1>0, <2>1, <2>2, <2>4, Compared
    <3>2. DOMAIN exec_cksum' = DOMAIN exec_cksum
      BY <2>4 DEF CalibrationCompares
    <3> QED
      BY <1>0, <2>0, <2>2, <3>1, <3>2 DEF Typed, CalOK
  <2> QED
    BY <2>1, <2>3, <2>4
<1>4. CASE CalibrationDone
  <2>0. /\ cal.q \in 1 .. MaxQueue /\ cal.from \in Callers
        /\ UNCHANGED <<queued_paths, trace_bits, exec_cksum, unique_hangs, unique_crashes>>
    BY <1>0, <1>4 DEF CalibrationDone, found
  <2>1. /\ cal' \in Calibration
        /\ (pc' = "judge" /\ cal'.q = cal.q) \/ pc' \in {"switch", "fuzz"}
    BY <1>0, <1>4, <2>0, Finished DEF CalibrationDone
  <2>2. CalOK'
    BY <2>0, <2>1, Bounds DEF CalOK
  <2> QED
    BY <1>0, <2>0, <2>2 DEF Typed
<1>5. ASSUME NEW q \in Entries, Recalibrate(q) PROVE Typed'
  <2>1. q \in 1 .. MaxQueue /\ q \in Nat /\ "fuzz" \in Callers
    BY <1>0, Bounds DEF Entries, Callers
  <2>2. /\ StartCalibration(q, "fuzz", exec_cksum[q])
        /\ UNCHANGED <<trace_bits, queued_paths, exec_cksum, unique_hangs, unique_crashes>>
    BY <1>5 DEF Recalibrate, found
  <2>3. pc' = "calibrate" /\ cal' \in Calibration /\ cal'.q = q /\ cal'.from = "fuzz"
    BY <1>0, <2>1, <2>2, Started
  <2> QED
    BY <1>0, <2>1, <2>2, <2>3 DEF Typed, CalOK
<1>6. CASE SaveFind
  <2>1. /\ StartCalibration(queued_paths + 1, "find", {trace_bits})
        /\ queued_paths' = queued_paths + 1 /\ queued_paths < MaxQueue
        /\ DOMAIN exec_cksum' = DOMAIN exec_cksum
        /\ UNCHANGED <<trace_bits, unique_hangs, unique_crashes>>
    BY <1>6 DEF SaveFind, found
  <2>2. queued_paths + 1 \in 1 .. MaxQueue /\ queued_paths + 1 \in Nat /\ "find" \in Callers
    BY <1>0, <2>1, Bounds DEF Callers
  <2>3. /\ pc' = "calibrate" /\ cal' \in Calibration
        /\ cal'.q = queued_paths + 1 /\ cal'.from = "find"
    BY <1>0, <2>1, <2>2, Started
  <2> QED
    BY <1>0, <2>1, <2>2, <2>3 DEF Typed, CalOK
<1>7. CASE Elsewhere
  <2>1. /\ UNCHANGED <<queued_paths, exec_cksum>>
        /\ (pc' = pc /\ cal' = cal) \/ pc' \notin Calibrating
    BY <1>7, ElsewhereQueue
  <2>2. /\ trace_bits' \in Trace /\ cal' \in Calibration
        /\ unique_hangs' \in Nat /\ unique_crashes' \in Nat
    BY <1>7, ElsewhereTyped
  <2> QED
    BY <1>0, <2>1, <2>2 DEF Typed, CalOK, Calibrating
<1> QED
  BY <1>1, <1>2, <1>3, <1>4, <1>5, <1>6, <1>7 DEF Next, Elsewhere

-----------------------------------------------------------------------------
(* Coverage.  A checksum of an entry is that of a trace that was shown, so *)
(* a run with that checksum has no bit to clear.                           *)

Backed ==
  /\ CoverageBacked
  /\ \A q \in 1 .. MaxQueue : \A t \in exec_cksum[q] :
       \A c \in Cells : t[c] \subseteq shown[c]

LEMMA ShownByRun ==
  ASSUME CoverageBacked, NEW trace \in Trace,
         virgin_bits' = Cleared(virgin_bits, trace), shown' = WithBits(trace)
  PROVE  /\ CoverageBacked'
         /\ \A c \in Cells : trace[c] \subseteq shown'[c] /\ shown[c] \subseteq shown'[c]
<1>1. \A c \in Cells : /\ virgin_bits'[c] = virgin_bits[c] \ trace[c]
                       /\ shown'[c] = shown[c] \cup trace[c]
                       /\ trace[c] \subseteq Bits
  BY DEF Cleared, WithBits, Trace, Byte
<1> QED
  BY <1>1 DEF CoverageBacked

LEMMA InitBacked == Init => Backed
BY DEF Init, Backed, CoverageBacked, Pristine

LEMMA BackedStep == Typed /\ Backed /\ [Next]_vars => Backed'
<1> SUFFICES ASSUME Typed, Backed, [Next]_vars PROVE Backed'
  OBVIOUS
<1>1. ASSUME UNCHANGED <<exec_cksum, virgin_bits, shown>> PROVE Backed'
  BY <1>1 DEF Backed, CoverageBacked
<1>2. CASE CalibrationRun
  <2>1. PICK verdict \in {"none", "tmout", "crash"}, counts \in Traces :
          \/ CalibrationAborts(verdict, classify_counts(counts))
          \/ CalibrationCompares(verdict, classify_counts(counts))
    BY <1>2 DEF CalibrationRun
  <2>2. CASE CalibrationAborts(verdict, classify_counts(counts))
    BY <1>1, <2>2 DEF CalibrationAborts
  <2>3. CASE CalibrationCompares(verdict, classify_counts(counts))
    <3> DEFINE trace == classify_counts(counts)
    <3> HIDE DEF trace
    <3>1. /\ shown' = WithBits(trace)
          /\ virgin_bits' = IF exec_cksum[cal.q] = {trace} THEN virgin_bits
                            ELSE Cleared(virgin_bits, trace)
          /\ exec_cksum' =
               [exec_cksum EXCEPT ![cal.q] = IF @ = {} THEN {trace} ELSE @]
      BY <2>3 DEF CalibrationCompares, Aborts, trace
    <3>2. trace \in Trace
      BY ClassifiedTrace DEF trace
    <3>3. cal.q \in 1 .. MaxQueue /\ DOMAIN exec_cksum = 1 .. MaxQueue
      BY <1>2 DEF CalibrationRun, Typed, CalOK
    <3>4. /\ CoverageBacked'
          /\ \A c \in Cells : trace[c] \subseteq shown'[c] /\ shown[c] \subseteq shown'[c]
      <4>1. CASE exec_cksum[cal.q] = {trace}
        <5>1. \A c \in Cells : trace[c] \subseteq shown[c]
          BY <3>3, <4>1 DEF Backed
        <5>2. \A c \in Cells : shown'[c] = shown[c] /\ virgin_bits'[c] = virgin_bits[c]
          BY <3>1, <4>1, <5>1 DEF WithBits
        <5> QED
          BY <5>1, <5>2 DEF Backed, CoverageBacked
      <4>2. CASE exec_cksum[cal.q] # {trace}
        BY <3>1, <3>2, <4>2, ShownByRun DEF Backed
      <4> QED
        BY <4>1, <4>2
    <3>5. \A q \in 1 .. MaxQueue : exec_cksum'[q] = exec_cksum[q] \/ exec_cksum'[q] = {trace}
      BY <3>1, <3>3
    <3> QED
      BY <3>4, <3>5 DEF Backed
  <2> QED
    BY <2>1, <2>2, <2>3
<1>3. CASE SaveFind
  <2>1. /\ virgin_bits' = Cleared(virgin_bits, trace_bits)
        /\ shown' = WithBits(trace_bits)
        /\ exec_cksum' = [exec_cksum EXCEPT ![queued_paths + 1] = {trace_bits}]
    BY <1>3 DEF SaveFind
  <2>2. trace_bits \in Trace /\ DOMAIN exec_cksum = 1 .. MaxQueue
    BY DEF Typed
  <2>3. \A q \in 1 .. MaxQueue :
          exec_cksum'[q] = exec_cksum[q] \/ exec_cksum'[q] = {trace_bits}
    BY <2>1, <2>2
  <2>4. /\ CoverageBacked'
        /\ \A c \in Cells :
             trace_bits[c] \subseteq shown'[c] /\ shown[c] \subseteq shown'[c]
    BY <2>1, <2>2, ShownByRun DEF Backed
  <2> QED
    BY <2>3, <2>4 DEF Backed
<1>4. CASE DryRun \/ Judge \/ CalibrationDone \/ \E q \in Entries : Recalibrate(q)
  BY <1>1, <1>4 DEF DryRun, Judge, CalibrationDone, Recalibrate, maps, history
<1>5. CASE Elsewhere
  BY <1>1, <1>5, ElsewhereQueue
<1> QED
  BY <1>2, <1>3, <1>4, <1>5 DEF Next, Elsewhere

(* For any map, any traces and any bounds, virgin_bits has lost exactly    *)
(* the bits that clean runs of entries of the queue have shown.            *)
THEOREM QueueBacksCoverage == Spec => []CoverageBacked
<1>1. Typed /\ Backed /\ [Next]_vars => (Typed /\ Backed)'
  BY TypedStep, BackedStep
<1>2. Backed => CoverageBacked
  BY DEF Backed
<1> QED
  BY InitTyped, InitBacked, <1>1, <1>2, PTL DEF Spec

-----------------------------------------------------------------------------
(* Variable bytes.  Unless a leftover trace has been taken for the first   *)
(* one, the trace a calibration compares with is the one whose checksum    *)
(* the entry has; the dry run meets its entries without a checksum.        *)

NoChecksumFrom(n) == \A q \in 1 .. MaxQueue : q >= n => exec_cksum[q] = {}

FirstTrace ==
  pc = "calibrate" /\ ~stale /\ exec_cksum[cal.q] # {} =>
    cal.first_trace \in exec_cksum[cal.q]

DryRunAhead ==
  /\ pc = "dry run" => NoChecksumFrom(cal.q)
  /\ pc = "judge" => NoChecksumFrom(cal.q + 1)
  /\ pc = "calibrate" /\ cal.from = "dry run" => NoChecksumFrom(cal.q + 1)

Varying == VarBytesTrue /\ FirstTrace /\ DryRunAhead

LEMMA InitVarying == Init => Varying
<1> SUFFICES ASSUME Init PROVE Varying
  OBVIOUS
<1>1. pc = "dry run" /\ var_bytes = {} /\ \A q \in 1 .. MaxQueue : exec_cksum[q] = {}
  BY DEF Init
<1> QED
  BY <1>1 DEF Varying, VarBytesTrue, FirstTrace, DryRunAhead, NoChecksumFrom

LEMMA VaryingStep == Typed /\ Varying /\ [Next]_vars => Varying'
<1> SUFFICES ASSUME Typed, Varying, [Next]_vars PROVE Varying'
  OBVIOUS
<1>0. DOMAIN exec_cksum = 1 .. MaxQueue /\ cal \in Calibration /\ trace_bits \in Trace
  BY DEF Typed, CalOK
<1>q. cal.q \in Nat
  BY <1>0 DEF Calibration
<1>n. \A n \in Nat : \A q \in 1 .. MaxQueue : q >= n + 1 => q >= n /\ q # n
  BY Bounds
<1>1. CASE DryRun
  <2>1. /\ StartCalibration(cal.q, "dry run", exec_cksum[cal.q])
        /\ pc = "dry run" /\ cal.q <= InitialEntries
        /\ UNCHANGED <<exec_cksum, var_bytes, varied, stale>>
    BY <1>1 DEF DryRun, history
  <2>2. cal.q >= 1
    BY <2>1 DEF Typed, CalOK
  <2>3. cal.q \in 1 .. MaxQueue
    BY <1>q, <2>1, <2>2, Bounds
  <2>4. pc' = "calibrate" /\ cal'.q = cal.q
    BY <1>0, <1>q, <2>1, Started DEF Callers
  <2>5. NoChecksumFrom(cal.q)
    BY <2>1 DEF Varying, DryRunAhead
  <2>6. exec_cksum[cal.q] = {}
    BY <1>q, <2>3, <2>5 DEF NoChecksumFrom
  <2>7. NoChecksumFrom(cal.q + 1)
    BY <1>q, <1>n, <2>5 DEF NoChecksumFrom
  <2> QED
    BY <2>1, <2>4, <2>6, <2>7
    DEF Varying, VarBytesTrue, FirstTrace, DryRunAhead, NoChecksumFrom
<1>2. CASE Judge
  <2>1. /\ cal' = [cal EXCEPT !.q = cal.q + 1] /\ pc = "judge" /\ pc' # "judge"
        /\ pc' # "calibrate"
        /\ UNCHANGED <<exec_cksum, var_bytes, varied, stale>>
    BY <1>2 DEF Judge, history
  <2>2. cal'.q = cal.q + 1
    BY <1>0, <2>1 DEF Calibration
  <2> QED
    BY <2>1, <2>2 DEF Varying, VarBytesTrue, FirstTrace, DryRunAhead, NoChecksumFrom
<1>3. CASE CalibrationRun
  <2>0. /\ pc = "calibrate" /\ cal.q \in 1 .. MaxQueue /\ cal.from \in Callers
        /\ stale' = stale
    BY <1>3 DEF CalibrationRun, Typed, CalOK
  <2>1. PICK verdict \in {"none", "tmout", "crash"}, counts \in Traces :
          \/ CalibrationAborts(verdict, classify_counts(counts))
          \/ CalibrationCompares(verdict, classify_counts(counts))
    BY <1>3 DEF CalibrationRun
  <2>2. CASE CalibrationAborts(verdict, classify_counts(counts))
    <3>1. \/ pc' = "judge" /\ cal.from = "dry run" /\ cal'.q = cal.q
          \/ pc' \in {"switch", "fuzz"}
      BY <1>0, <2>0, <2>2, Finished DEF CalibrationAborts
    <3>2. UNCHANGED <<exec_cksum, var_bytes, varied>>
      BY <2>2 DEF CalibrationAborts
    <3> QED
      BY <2>0, <3>1, <3>2
      DEF Varying, VarBytesTrue, FirstTrace, DryRunAhead, NoChecksumFrom
  <2>3. CASE CalibrationCompares(verdict, classify_counts(counts))
    <3> DEFINE trace == classify_counts(counts)
    <3>1. trace \in Trace
      BY ClassifiedTrace
    <3>2. /\ pc' = pc /\ cal'.q = cal.q /\ cal'.from = cal.from
          /\ cal'.first_trace = IF exec_cksum[cal.q] = {} THEN trace ELSE cal.first_trace
      BY <1>0, <2>3, <3>1, Compared
    <3>3. /\ exec_cksum' = [exec_cksum EXCEPT ![cal.q] = IF @ = {} THEN {trace} ELSE @]
          /\ varied' = varied \cup
               {c \in Cells : \E t \in exec_cksum[cal.q] : t[c] # trace[c]}
          /\ \/ var_bytes' = var_bytes
             \/ /\ exec_cksum[cal.q] # {}
                /\ var_bytes' = var_bytes \cup (Differing(cal.q, trace) \ var_bytes)
      BY <2>3 DEF CalibrationCompares
    <3> HIDE DEF trace
    <3>4. /\ exec_cksum'[cal.q] =
               IF exec_cksum[cal.q] = {} THEN {trace} ELSE exec_cksum[cal.q]
          /\ \A q \in 1 .. MaxQueue : q # cal.q => exec_cksum'[q] = exec_cksum[q]
      BY <1>0, <2>0, <3>3
    <3>5. VarBytesTrue'
      <4>1. ASSUME ~stale, exec_cksum[cal.q] # {}
            PROVE  Differing(cal.q, trace) \subseteq varied'
        <5>1. cal.first_trace \in exec_cksum[cal.q]
          BY <2>0, <4>1 DEF Varying, FirstTrace
        <5> QED
          BY <3>3, <5>1 DEF Differing
      <4> QED
        BY <2>0, <3>3, <4>1 DEF Varying, VarBytesTrue
    <3>6. FirstTrace'
      BY <2>0, <3>2, <3>4 DEF Varying, FirstTrace
    <3>7. DryRunAhead'
      <4>1. ASSUME cal.from = "dry run" PROVE NoChecksumFrom(cal.q + 1)'
        <5>1. \A q \in 1 .. MaxQueue :
                q >= cal.q + 1 => exec_cksum[q] = {} /\ q # cal.q
          BY <1>q, <1>n, <2>0, <4>1 DEF Varying, DryRunAhead, NoChecksumFrom
        <5> QED
          BY <3>2, <3>4, <5>1 DEF NoChecksumFrom
      <4> QED
        BY <2>0, <3>2, <4>1 DEF DryRunAhead
    <3> QED
      BY <3>5, <3>6, <3>7 DEF Varying
  <2> QED
    BY <2>1, <2>2, <2>3
<1>4. CASE CalibrationDone
  <2>1. /\ pc = "calibrate" /\ cal.from \in Callers
        /\ UNCHANGED <<exec_cksum, var_bytes, varied, stale>>
    BY <1>4 DEF CalibrationDone, Typed, CalOK, history
  <2>2. \/ pc' = "judge" /\ cal.from = "dry run" /\ cal'.q = cal.q
        \/ pc' \in {"switch", "fuzz"}
    BY <1>0, <1>4, <2>1, Finished DEF CalibrationDone
  <2> QED
    BY <2>1, <2>2 DEF Varying, VarBytesTrue, FirstTrace, DryRunAhead, NoChecksumFrom
<1>5. ASSUME NEW q \in Entries, Recalibrate(q) PROVE Varying'
  <2>1. /\ StartCalibration(q, "fuzz", exec_cksum[q])
        /\ stale' = (stale \/ exec_cksum[q] # {})
        /\ UNCHANGED <<exec_cksum, var_bytes, varied>>
    BY <1>5 DEF Recalibrate
  <2>2. pc' = "calibrate" /\ cal'.q = q /\ cal'.from = "fuzz"
    <3>1. q \in Nat
      BY Bounds DEF Entries, Typed
    <3> QED
      BY <1>0, <2>1, <3>1, Started DEF Callers
  <2> QED
    BY <2>1, <2>2 DEF Varying, VarBytesTrue, FirstTrace, DryRunAhead
<1>6. CASE SaveFind
  <2>1. /\ StartCalibration(queued_paths + 1, "find", {trace_bits})
        /\ queued_paths < MaxQueue
        /\ exec_cksum' = [exec_cksum EXCEPT ![queued_paths + 1] = {trace_bits}]
        /\ UNCHANGED <<var_bytes, varied, stale>>
    BY <1>6 DEF SaveFind
  <2>2. queued_paths + 1 \in 1 .. MaxQueue /\ queued_paths + 1 \in Nat
    BY <2>1, Bounds DEF Typed
  <2>3. /\ pc' = "calibrate" /\ cal'.q = queued_paths + 1 /\ cal'.from = "find"
        /\ cal'.first_trace = trace_bits
    BY <1>0, <2>1, <2>2, Started DEF Callers
  <2>4. exec_cksum'[queued_paths + 1] = {trace_bits}
    BY <1>0, <2>1, <2>2
  <2> QED
    BY <2>1, <2>3, <2>4 DEF Varying, VarBytesTrue, FirstTrace, DryRunAhead
<1>7. CASE Elsewhere
  <2>1. /\ UNCHANGED <<exec_cksum, var_bytes, varied, stale>>
        /\ (pc' = pc /\ cal' = cal) \/ pc' \notin Calibrating
    BY <1>7, ElsewhereQueue
  <2> QED
    BY <2>1
    DEF Varying, VarBytesTrue, FirstTrace, DryRunAhead, NoChecksumFrom, Calibrating
<1> QED
  BY <1>1, <1>2, <1>3, <1>4, <1>5, <1>6, <1>7 DEF Next, Elsewhere

(* For any map, any traces and any bounds, and whatever the verdicts and   *)
(* the stop signal cut short, a byte is marked in var_bytes[] only if two  *)
(* runs of one entry differ in it, until a leftover trace is used.         *)
THEOREM VariableBytesVary == Spec => []VarBytesTrue
<1>1. Typed /\ Varying /\ [Next]_vars => (Typed /\ Varying)'
  BY TypedStep, VaryingStep
<1>2. Varying => VarBytesTrue
  BY DEF Varying
<1> QED
  BY InitTyped, InitVarying, <1>1, <1>2, PTL DEF Spec

-----------------------------------------------------------------------------
(* Unique faults.  A virgin map that has been cleared with the simplified  *)
(* traces of the paths in seen has lost, in each byte, the mark of a hit   *)
(* or of a miss exactly when one of these paths has it.                    *)

MapOf(virgin, seen) ==
  \A c \in Cells :
    /\ virgin[c] \subseteq Bits
    /\ 7 \in virgin[c] <=> ~ \E s \in seen : c \in s
    /\ 0 \in virgin[c] <=> ~ \E s \in seen : c \notin s

Fresh == MapOf(virgin_crash, crashSeen) /\ MapOf(virgin_tmout, hangSeen)

LEMMA SimplifiedBits ==
  ASSUME NEW trace, NEW c \in Cells
  PROVE  simplify_trace(trace)[c] = IF c \in Hit(trace) THEN {7} ELSE {0}
BY DEF simplify_trace, Hit

LEMMA ClearedMap ==
  ASSUME NEW virgin, NEW seen, MapOf(virgin, seen), NEW trace
  PROVE  MapOf(Cleared(virgin, simplify_trace(trace)), seen \cup {Hit(trace)})
<1> SUFFICES ASSUME NEW c \in Cells
             PROVE  /\ Cleared(virgin, simplify_trace(trace))[c] \subseteq Bits
                    /\ 7 \in Cleared(virgin, simplify_trace(trace))[c]
                         <=> ~ \E s \in seen \cup {Hit(trace)} : c \in s
                    /\ 0 \in Cleared(virgin, simplify_trace(trace))[c]
                         <=> ~ \E s \in seen \cup {Hit(trace)} : c \notin s
  BY DEF MapOf
<1>1. Cleared(virgin, simplify_trace(trace))[c]
        = virgin[c] \ (IF c \in Hit(trace) THEN {7} ELSE {0})
  BY SimplifiedBits DEF Cleared
<1>2. /\ virgin[c] \subseteq Bits
      /\ 7 \in virgin[c] <=> ~ \E s \in seen : c \in s
      /\ 0 \in virgin[c] <=> ~ \E s \in seen : c \notin s
  BY DEF MapOf
<1>3. CASE c \in Hit(trace)
  BY <1>1, <1>2, <1>3
<1>4. CASE c \notin Hit(trace)
  BY <1>1, <1>2, <1>4
<1> QED
  BY <1>3, <1>4

(* has_new_bits finds something in such a map exactly when the path is     *)
(* unlike all the earlier ones in the sense of Unseen.                     *)
LEMMA NewIffUnseen ==
  ASSUME NEW virgin, NEW seen, MapOf(virgin, seen), NEW trace
  PROVE  NewBits(virgin, simplify_trace(trace)) # 0 <=> Unseen(Hit(trace), seen)
<1> DEFINE Touches(c) == simplify_trace(trace)[c] \cap virgin[c] # {}
<1>1. \A c \in Cells :
        Touches(c) <=> IF c \in Hit(trace) THEN \A s \in seen : c \notin s
                                           ELSE \A s \in seen : c \in s
  <2> SUFFICES ASSUME NEW c \in Cells
               PROVE  Touches(c) <=> IF c \in Hit(trace) THEN \A s \in seen : c \notin s
                                                         ELSE \A s \in seen : c \in s
    OBVIOUS
  <2>1. /\ 7 \in virgin[c] <=> ~ \E s \in seen : c \in s
        /\ 0 \in virgin[c] <=> ~ \E s \in seen : c \notin s
    BY DEF MapOf
  <2>2. Touches(c) <=> IF c \in Hit(trace) THEN 7 \in virgin[c] ELSE 0 \in virgin[c]
    BY SimplifiedBits
  <2> QED
    BY <2>1, <2>2
<1>2. ASSUME NEW c \in Cells, simplify_trace(trace)[c] # {}, virgin[c] = Bits
      PROVE  Touches(c)
  <2>1. 0 \in Bits /\ 7 \in Bits
    BY DEF Bits
  <2> QED
    BY <1>2, <2>1, SimplifiedBits
<1>3. NewBits(virgin, simplify_trace(trace)) # 0 <=> \E c \in Cells : Touches(c)
  BY <1>2 DEF NewBits
<1>4. Hit(trace) \subseteq Cells
  BY DEF Hit
<1>5. ASSUME seen # {}
      PROVE  Unseen(Hit(trace), seen) <=>
               \/ \E c \in Hit(trace) : \A s \in seen : c \notin s
               \/ \E c \in Cells \ Hit(trace) : \A s \in seen : c \in s
  BY <1>5 DEF Unseen
<1>6. CASE seen # {}
  BY <1>1, <1>3, <1>4, <1>5, <1>6
<1>7. CASE seen = {}
  BY <1>1, <1>3, <1>7, TriageAssumption DEF Unseen
<1> QED
  BY <1>6, <1>7

LEMMA InitFresh == Init => Fresh
<1> SUFFICES ASSUME Init PROVE Fresh
  OBVIOUS
<1>1. /\ crashSeen = {} /\ hangSeen = {}
      /\ \A c \in Cells : virgin_crash[c] = Bits /\ virgin_tmout[c] = Bits
  BY DEF Init, Pristine
<1> QED
  BY <1>1 DEF Fresh, MapOf, Bits

LEMMA FreshStep == Fresh /\ [Next]_vars => Fresh'
<1> SUFFICES ASSUME Fresh, [Next]_vars PROVE Fresh'
  OBVIOUS
<1>1. ASSUME UNCHANGED <<virgin_crash, virgin_tmout, crashSeen, hangSeen>> PROVE Fresh'
  BY <1>1 DEF Fresh, MapOf
<1>2. CASE SwitchTimeout
  <2>1. \/ UNCHANGED <<virgin_crash, virgin_tmout, crashSeen, hangSeen>>
        \/ /\ UNCHANGED <<virgin_crash, crashSeen>>
           /\ virgin_tmout' = Cleared(virgin_tmout, simplify_trace(trace_bits))
           /\ hangSeen' = hangSeen \cup {Hit(trace_bits)}
    BY <1>2 DEF SwitchTimeout
  <2>2. ASSUME virgin_tmout' = Cleared(virgin_tmout, simplify_trace(trace_bits)),
               hangSeen' = hangSeen \cup {Hit(trace_bits)}
        PROVE  MapOf(virgin_tmout', hangSeen')
    BY <2>2, ClearedMap DEF Fresh
  <2> QED
    BY <1>1, <2>1, <2>2 DEF Fresh, MapOf
<1>3. CASE SwitchCrash
  <2>1. \/ UNCHANGED <<virgin_crash, virgin_tmout, crashSeen, hangSeen>>
        \/ /\ UNCHANGED <<virgin_tmout, hangSeen>>
           /\ virgin_crash' = Cleared(virgin_crash, simplify_trace(trace_bits))
           /\ crashSeen' = crashSeen \cup {Hit(trace_bits)}
    BY <1>3 DEF SwitchCrash
  <2>2. ASSUME virgin_crash' = Cleared(virgin_crash, simplify_trace(trace_bits)),
               crashSeen' = crashSeen \cup {Hit(trace_bits)}
        PROVE  MapOf(virgin_crash', crashSeen')
    BY <2>2, ClearedMap DEF Fresh
  <2> QED
    BY <1>1, <2>1, <2>2 DEF Fresh, MapOf
<1>4. CASE \/ DryRun \/ Judge \/ DryRunDone \/ CalibrationRun \/ CalibrationDone
           \/ \E q \in Entries : Recalibrate(q)
  BY <1>1, <1>4 DEF DryRun, Judge, DryRunDone, CalibrationRun, CalibrationDone,
     Recalibrate, maps, history, faults
<1>5. CASE \/ FuzzRun \/ RunStopped \/ SaveNothingNew \/ SaveFind \/ SaveOther
           \/ SwitchNone \/ ConfirmHang \/ HandleStop \/ UNCHANGED vars
  BY <1>1, <1>5 DEF FuzzRun, RunStopped, SaveNothingNew, SaveFind, SaveOther, SwitchNone,
     ConfirmHang, HandleStop, vars, maps, history, faults
<1> QED
  BY <1>2, <1>3, <1>4, <1>5 DEF Next

(* The step FaultsUnique is about.                                         *)
LEMMA SwitchJudges ==
  ASSUME Typed, Fresh, [Next]_vars, pc = "switch", pc' # pc
  PROVE  /\ fault = "crash" /\ unique_crashes < KEEP_UNIQUE_CRASH =>
              (unique_crashes' > unique_crashes <=> Unseen(Hit(trace_bits), crashSeen))
         /\ fault = "tmout" /\ unique_hangs < KEEP_UNIQUE_HANG =>
              ((pc' = "confirm" \/ unique_hangs' > unique_hangs)
                 <=> Unseen(Hit(trace_bits), hangSeen))
<1>1. SwitchNone \/ SwitchTimeout \/ SwitchCrash
  BY DEF Next, DryRun, Judge, DryRunDone, CalibrationRun, CalibrationDone, Recalibrate,
     FuzzRun, RunStopped, SaveNothingNew, SaveFind, SaveOther, ConfirmHang, HandleStop, vars
<1>2. unique_crashes \in Nat /\ unique_hangs \in Nat
  BY DEF Typed
<1>3. KEEP_UNIQUE_HANG \in Nat /\ KEEP_UNIQUE_CRASH \in Nat
  BY TriageAssumption
<1>4. ASSUME fault = "crash", unique_crashes < KEEP_UNIQUE_CRASH
      PROVE  unique_crashes' > unique_crashes <=> Unseen(Hit(trace_bits), crashSeen)
  <2>1. SwitchCrash
    BY <1>1, <1>4 DEF SwitchNone, SwitchTimeout
  <2>2. ~Enough(unique_crashes, KEEP_UNIQUE_CRASH)
    BY <1>2, <1>3, <1>4 DEF Enough
  <2>3. unique_crashes' = unique_crashes +
          (IF NewBits(virgin_crash, simplify_trace(trace_bits)) # 0 THEN 1 ELSE 0)
    BY <2>1, <2>2 DEF SwitchCrash
  <2>4. NewBits(virgin_crash, simplify_trace(trace_bits)) # 0
          <=> Unseen(Hit(trace_bits), crashSeen)
    BY NewIffUnseen DEF Fresh
  <2> QED
    BY <1>2, <2>3, <2>4
<1>5. ASSUME fault = "tmout", unique_hangs < KEEP_UNIQUE_HANG
      PROVE  (pc' = "confirm" \/ unique_hangs' > unique_hangs)
               <=> Unseen(Hit(trace_bits), hangSeen)
  <2>1. SwitchTimeout
    BY <1>1, <1>5 DEF SwitchNone, SwitchCrash
  <2>2. ~Enough(unique_hangs, KEEP_UNIQUE_HANG)
    BY <1>2, <1>3, <1>5 DEF Enough
  <2> DEFINE new == NewBits(virgin_tmout, simplify_trace(trace_bits)) # 0
  <2>3. /\ unique_hangs' = unique_hangs + (IF new /\ ~ShortTimeout THEN 1 ELSE 0)
        /\ IF new /\ ShortTimeout THEN pc' = "confirm" ELSE pc' = "fuzz"
    BY <2>1, <2>2 DEF SwitchTimeout, Return
  <2>4. new <=> Unseen(Hit(trace_bits), hangSeen)
    BY NewIffUnseen DEF Fresh
  <2> HIDE DEF new
  <2> QED
    BY <1>2, <2>3, <2>4
<1> QED
  BY <1>4, <1>5

(* For any map, any traces and any limits, a crash is counted, and a       *)
(* timeout looked at again or counted, exactly when its path has a tuple   *)
(* that no earlier one had or lacks one that all of them had.              *)
THEOREM FaultsCountedOnce == Spec => FaultsUnique
<1>1. Typed /\ Fresh /\ [Next]_vars => (Typed /\ Fresh)'
  BY TypedStep, FreshStep
<1>2. Typed /\ Fresh /\ [Next]_vars =>
        [pc = "switch" /\ pc' # pc =>
           /\ fault = "crash" /\ unique_crashes < KEEP_UNIQUE_CRASH =>
                (unique_crashes' > unique_crashes <=> Unseen(Hit(trace_bits), crashSeen))
           /\ fault = "tmout" /\ unique_hangs < KEEP_UNIQUE_HANG =>
                ((pc' = "confirm" \/ unique_hangs' > unique_hangs)
                   <=> Unseen(Hit(trace_bits), hangSeen))]_vars
  BY SwitchJudges
<1> QED
  BY InitTyped, InitFresh, <1>1, <1>2, PTL DEF Spec, FaultsUnique
=============================================================================
