------------------------------- MODULE Corpus -------------------------------
(***************************************************************************)
(* The corpus of afl-fuzz: the queue of test cases, the top_rated[] table  *)
(* of the cheapest known case for every byte of the coverage map, and the  *)
(* one thread that calibrates, trims, fuzzes and culls the queue           *)
(* (main, perform_dry_run, fuzz_one, calibrate_case, trim_case,            *)
(* sync_fuzzers, update_bitmap_score and cull_queue of src/afl-fuzz.c).    *)
(*                                                                         *)
(* The two loops over the map, in update_bitmap_score and cull_queue, take *)
(* one step per byte, so that every invariant is also checked, and proved, *)
(* inside the loops.  A run of the target is abstracted to its verdict and *)
(* to the set of map bytes it leaves non-zero in trace_bits; a target may  *)
(* be nondeterministic, in which case the runs of one calibration differ.  *)
(***************************************************************************)
EXTENDS Integers, FiniteSets

CONSTANTS
  MapSize,         \* MAP_SIZE: bytes of the coverage map
  MaxQueue,        \* bound: queue entries the model may create
  InitialEntries,  \* test cases found in the input directory
  Traces,          \* the traces the target can leave in trace_bits
  MaxFav,          \* bound: largest fav_factor (exec_us * len)
  CalChances,      \* CAL_CHANCES: calibration attempts per entry
  SkipThreshold,   \* queue size above which non-favored cases may be skipped
  StableTarget,    \* TRUE: every run of one input leaves the same trace
  DumbMode         \* dumb_mode: no instrumentation feedback

Byte  == 0 .. MapSize - 1
Entry == 1 .. MaxQueue
None  == 0                  \* a NULL queue_entry pointer

ASSUME SizesAssumption ==
  /\ MapSize \in Nat \ {0}
  /\ MaxQueue \in Nat
  /\ InitialEntries \in 1 .. MaxQueue
  /\ MaxFav \in Nat
  /\ CalChances \in Nat \ {0}
  /\ SkipThreshold \in Nat
  /\ Traces \subseteq SUBSET Byte
  /\ StableTarget \in BOOLEAN
  /\ DumbMode \in BOOLEAN

VARIABLES
  queued_paths,        \* length of the queue: entries 1 .. queued_paths exist
  exec_cksum,          \* [entry -> trace its checksum stands for, {} if 0]
  fav_factor,          \* [entry -> exec_us * len]
  cal_failed,          \* [entry -> failed calibrations]
  was_fuzzed,          \* [entry -> fuzzing finished at least once]
  trim_done,           \* [entry -> trimmed]
  favored,             \* [entry -> chosen by the last cull]
  fs_redundant,        \* [entry -> marked in .state/redundant_edges]
  tc_ref,              \* [entry -> bytes of top_rated pointing to it]
  trace_mini,          \* [entry -> minimised trace, {} if NULL]
  top_rated,           \* [byte -> entry or None]
  score_changed,       \* top_rated changed since the last cull
  temp_v,              \* cull_queue: bytes not covered yet
  queued_favored,      \* statistics of the last cull
  pending_favored,
  pending_not_fuzzed,
  queue_cur,           \* the entry being fuzzed, None at the end of a cycle
  cycling,             \* the main loop has been entered (queue_cycle > 0)
  stop_soon,           \* set by handle_stop_sig
  trace_bits,          \* the trace update_bitmap_score reads ({} elsewhere)
  pc,                  \* where the thread is
  cur,                 \* the entry the current function works on
  idx,                 \* byte index of the loop being run
  ret                  \* who called update_bitmap_score

entryVars == <<exec_cksum, fav_factor, cal_failed, was_fuzzed, trim_done>>
scoreVars == <<tc_ref, trace_mini, top_rated, score_changed>>
cullVars  == <<favored, fs_redundant, temp_v, queued_favored>>
pending   == <<pending_favored, pending_not_fuzzed>>
loopVars  == <<trace_bits, cur, idx, ret>>
mainVars  == <<queue_cur, cycling, stop_soon>>
vars == <<queued_paths, entryVars, scoreVars, cullVars, pending, mainVars,
          loopVars, pc>>

Queue    == 1 .. queued_paths
Location == {"dry", "main", "cull", "select", "import", "fuzz_one",
             "calibrate", "trim", "stages", "abandon", "done", "sync",
             "advance", "score", "exit"}
Caller   == {"dry", "calibrate", "trim", "stages", "sync", "import"}

-----------------------------------------------------------------------------
(* The state after read_testcases has filled the queue.                    *)

Init ==
  /\ queued_paths = InitialEntries
  /\ exec_cksum = [e \in Entry |-> {}]
  /\ fav_factor = [e \in Entry |-> 0]
  /\ cal_failed = [e \in Entry |-> 0]
  /\ was_fuzzed = [e \in Entry |-> FALSE]
  /\ trim_done = [e \in Entry |-> FALSE]
  /\ favored = [e \in Entry |-> FALSE]
  /\ fs_redundant = [e \in Entry |-> FALSE]
  /\ tc_ref = [e \in Entry |-> 0]
  /\ trace_mini = [e \in Entry |-> {}]
  /\ top_rated = [b \in Byte |-> None]
  /\ score_changed = FALSE
  /\ temp_v = {}
  /\ queued_favored = 0
  /\ pending_favored = 0
  /\ pending_not_fuzzed = InitialEntries
  /\ queue_cur = None
  /\ cycling = FALSE
  /\ stop_soon = FALSE
  /\ trace_bits = {}
  /\ pc = "dry"
  /\ cur = 1
  /\ idx = 0
  /\ ret = "dry"

-----------------------------------------------------------------------------
(* calibrate_case on entry e, which has been executed before with trace    *)
(* known ({} if never).  Either every run is clean: the checksum of the    *)
(* first run is kept, the time is measured, the trace of the LAST run is   *)
(* scored.  Or a run faults, or stop_soon is seen: cal_failed stays        *)
(* incremented and nothing is scored.                                      *)

FailuresKept(e) == [cal_failed EXCEPT ![e] = @ + 1]   \* fault: no reset
FailuresCleared(e) == [cal_failed EXCEPT ![e] = 0]

CalibrateOK(e, known, caller) ==
  \E first \in Traces, last \in Traces, fav \in 0 .. MaxFav :
    /\ ~stop_soon
    /\ first # {}
    /\ known # {} => first = known
    /\ StableTarget => last = first
    /\ exec_cksum' = [exec_cksum EXCEPT ![e] = first]
    /\ fav_factor' = [fav_factor EXCEPT ![e] = fav]
    /\ cal_failed' = FailuresCleared(e)
    /\ trace_bits' = last
    /\ cur' = e
    /\ idx' = 0
    /\ ret' = caller
    /\ pc' = "score"

CalibrateAborted(e, known) ==
  /\ \E first \in Traces \cup {{}} :
       /\ known # {} => first = known
       /\ exec_cksum' = [exec_cksum EXCEPT ![e] = first]
  /\ cal_failed' = [cal_failed EXCEPT ![e] = @ + 1]
  /\ UNCHANGED <<fav_factor, trace_bits, idx, ret>>

-----------------------------------------------------------------------------
(* perform_dry_run: calibrate the initial entries one by one.  An entry    *)
(* that times out or crashes is given up (timeout_given > 1, skip_crashes) *)
(* or ends the program, as do FAULT_ERROR and FAULT_NOINST.                *)

DryRunCalibrated ==
  /\ pc = "dry"
  /\ cur \in Queue
  /\ CalibrateOK(cur, exec_cksum[cur], "dry")
  /\ UNCHANGED <<queued_paths, was_fuzzed, trim_done, scoreVars, cullVars,
                 pending, mainVars>>

DryRunSkip ==
  /\ pc = "dry"
  /\ cur \in Queue
  /\ ~stop_soon
  /\ \E first \in Traces \cup {{}} :
       exec_cksum' = [exec_cksum EXCEPT ![cur] = first]
  /\ cal_failed' = [cal_failed EXCEPT ![cur] = CalChances]
  /\ cur' = cur + 1
  /\ UNCHANGED <<queued_paths, fav_factor, was_fuzzed, trim_done, scoreVars,
                 cullVars, pending, mainVars, trace_bits, idx,
                 ret, pc>>

DryRunStopped ==
  /\ pc = "dry"
  /\ cur \in Queue
  /\ stop_soon
  /\ CalibrateAborted(cur, exec_cksum[cur])
  /\ pc' = "main"
  /\ UNCHANGED <<queued_paths, was_fuzzed, trim_done, scoreVars, cullVars,
                 pending, mainVars, cur>>

(* All cases processed; the program gives up if every one of them failed.  *)
DryRunDone ==
  /\ pc = "dry"
  /\ cur \notin Queue
  /\ pc' = IF \A e \in Queue : cal_failed[e] = CalChances
           THEN "exit" ELSE "main"
  /\ UNCHANGED <<queued_paths, entryVars, scoreVars, cullVars, pending,
                 mainVars, loopVars>>

-----------------------------------------------------------------------------
(* update_bitmap_score(cur): one step per byte of the map.                 *)

WinsAlways(e, b) == b \in trace_bits                    \* fault: no contest
Wins(e, b) ==
  /\ b \in trace_bits
  /\ top_rated[b] # None => fav_factor[e] <= fav_factor[top_rated[b]]

(* The reference counts and minimised traces after the winner of b loses   *)
(* its place, before the new one takes it.                                 *)
RefKept(b) == tc_ref                                   \* fault: no decrement
RefDropped(b) ==
  IF top_rated[b] = None THEN tc_ref
  ELSE [tc_ref EXCEPT ![top_rated[b]] = @ - 1]

MiniKept(b) == trace_mini                              \* fault: not freed
MiniDropped(b) ==
  [e \in Entry |->
     IF e = top_rated[b] /\ tc_ref[e] = 1 THEN {} ELSE trace_mini[e]]

ScoreByte ==
  /\ pc = "score"
  /\ idx \in Byte
  /\ idx' = idx + 1
  /\ \/ /\ ~Wins(cur, idx)
        /\ UNCHANGED scoreVars
     \/ /\ Wins(cur, idx)
        /\ tc_ref' = [RefDropped(idx) EXCEPT ![cur] = @ + 1]
        /\ trace_mini' = [MiniDropped(idx) EXCEPT
                            ![cur] = IF @ = {} THEN trace_bits ELSE @]
        /\ top_rated' = [top_rated EXCEPT ![idx] = cur]
        /\ score_changed' = TRUE
  /\ UNCHANGED <<queued_paths, entryVars, cullVars, pending, mainVars, trace_bits, cur, ret, pc>>

(* Back in the caller: the dry run goes on with the next entry unless it   *)
(* is being stopped, fuzz_one goes on to trim or marks the entry trimmed,  *)
(* and save_if_interesting returns to the stage or to sync_fuzzers.        *)
ScoreReturn ==
  /\ pc = "score"
  /\ idx = MapSize
  /\ trace_bits' = {}
  /\ pc' = CASE ret = "dry" -> IF stop_soon THEN "main" ELSE "dry"
             [] ret = "calibrate" -> IF stop_soon THEN "abandon" ELSE "trim"
             [] ret = "trim" -> IF stop_soon THEN "abandon" ELSE "stages"
             [] OTHER -> ret
  /\ cur' = IF ret = "dry" THEN cur + 1 ELSE cur
  /\ trim_done' = IF ret = "trim" /\ ~stop_soon
                  THEN [trim_done EXCEPT ![cur] = TRUE] ELSE trim_done
  /\ UNCHANGED <<queued_paths, exec_cksum, fav_factor, cal_failed, was_fuzzed,
                 scoreVars, cullVars, pending, mainVars, idx, ret>>

-----------------------------------------------------------------------------
(* cull_queue: grab the winner of every byte not covered yet and mark it   *)
(* favored, then mark all the others as redundant.                         *)

StaleTemp == temp_v                                    \* fault: no memset
FreshTemp == Byte
OneByteLess(e) == temp_v \ {idx}                       \* fault: not the trace
Uncovered(e) == temp_v \ trace_mini[e]

CullNothing ==
  /\ pc = "main"
  /\ DumbMode \/ ~score_changed
  /\ pc' = "select"
  /\ UNCHANGED <<queued_paths, entryVars, scoreVars, cullVars, pending,
                 mainVars, loopVars>>

CullStart ==
  /\ pc = "main"
  /\ ~DumbMode /\ score_changed
  /\ score_changed' = FALSE
  /\ temp_v' = FreshTemp
  /\ queued_favored' = 0
  /\ pending_favored' = 0
  /\ favored' = [e \in Entry |-> FALSE]
  /\ idx' = 0
  /\ pc' = "cull"
  /\ UNCHANGED <<queued_paths, entryVars, tc_ref, trace_mini, top_rated,
                 fs_redundant, pending_not_fuzzed, mainVars,
                 trace_bits, cur, ret>>

CullByte ==
  /\ pc = "cull"
  /\ idx \in Byte
  /\ idx' = idx + 1
  /\ IF top_rated[idx] # None /\ idx \in temp_v
     THEN LET e == top_rated[idx] IN
          /\ temp_v' = Uncovered(e)
          /\ favored' = [favored EXCEPT ![e] = TRUE]
          /\ queued_favored' = queued_favored + 1
          /\ pending_favored' =
               IF was_fuzzed[e] THEN pending_favored ELSE pending_favored + 1
     ELSE UNCHANGED <<temp_v, favored, queued_favored, pending_favored>>
  /\ UNCHANGED <<queued_paths, entryVars, scoreVars, fs_redundant,
                 pending_not_fuzzed, mainVars, trace_bits, cur,
                 ret, pc>>

CullMark ==
  /\ pc = "cull"
  /\ idx = MapSize
  /\ fs_redundant' = [e \in Entry |-> e \in Queue /\ ~favored[e]]
  /\ pc' = "select"
  /\ UNCHANGED <<queued_paths, entryVars, scoreVars, favored, temp_v,
                 queued_favored, pending, mainVars, loopVars>>

-----------------------------------------------------------------------------
(* The main loop and the head of fuzz_one.                                 *)

(* The stop flag is looked at between the dry run and the loop.            *)
StopBeforeLoop ==
  /\ pc = "select"
  /\ stop_soon /\ ~cycling
  /\ pc' = "exit"
  /\ UNCHANGED <<queued_paths, entryVars, scoreVars, cullVars, pending,
                 mainVars, loopVars>>

(* The first cycle starts where a resumed session had stopped (seek_to)    *)
(* and may sync first (AFL_IMPORT_FIRST), the others at the first entry.   *)
SelectFirst ==
  /\ pc = "select"
  /\ ~cycling /\ ~stop_soon
  /\ cycling' = TRUE
  /\ queue_cur' \in Queue
  /\ pc' \in {"fuzz_one", "import"}
  /\ UNCHANGED <<queued_paths, entryVars, scoreVars, cullVars, pending,
                 stop_soon, loopVars>>

SelectNext ==
  /\ pc = "select"
  /\ cycling
  /\ queue_cur' = IF queue_cur = None THEN 1 ELSE queue_cur
  /\ pc' = "fuzz_one"
  /\ UNCHANGED <<queued_paths, entryVars, scoreVars, cullVars, pending,
                 cycling, stop_soon, loopVars>>

(* fuzz_one may skip an entry: with high probability while favored new     *)
(* arrivals wait and this is not one of them, else with some probability   *)
(* when it is not favored and the queue is not tiny.                       *)
MaySkipAny(e) ==                                       \* fault: favored too
  pending_favored # 0 \/ queued_paths > SkipThreshold
MaySkip(e) ==
  \/ /\ pending_favored # 0
     /\ was_fuzzed[e] \/ ~favored[e]
  \/ /\ pending_favored = 0
     /\ ~DumbMode
     /\ ~favored[e]
     /\ queued_paths > SkipThreshold

FuzzOneSkip ==
  /\ pc = "fuzz_one"
  /\ MaySkip(queue_cur)
  /\ pc' = "advance"
  /\ UNCHANGED <<queued_paths, entryVars, scoreVars, cullVars, pending,
                 mainVars, loopVars>>

FuzzOneStart ==
  /\ pc = "fuzz_one"
  /\ pc' = IF cal_failed[queue_cur] # 0 THEN "calibrate" ELSE "trim"
  /\ cur' = queue_cur
  /\ UNCHANGED <<queued_paths, entryVars, scoreVars, cullVars, pending,
                 mainVars, trace_bits, idx, ret>>

-----------------------------------------------------------------------------
(* fuzz_one: a calibration that failed earlier is tried again, a limited   *)
(* number of times; the entry is abandoned unless it succeeds.             *)

MayCalibrate(e) == cal_failed[e] < CalChances

Recalibrated ==
  /\ pc = "calibrate"
  /\ MayCalibrate(cur)
  /\ CalibrateOK(cur, exec_cksum[cur], "calibrate")
  /\ UNCHANGED <<queued_paths, was_fuzzed, trim_done, scoreVars, cullVars,
                 pending, mainVars>>

RecalibrationFailed ==
  /\ pc = "calibrate"
  /\ MayCalibrate(cur)
  /\ CalibrateAborted(cur, exec_cksum[cur])
  /\ pc' = "abandon"
  /\ UNCHANGED <<queued_paths, was_fuzzed, trim_done, scoreVars, cullVars,
                 pending, mainVars, cur>>

CalibrationGivenUp ==
  /\ pc = "calibrate"
  /\ ~MayCalibrate(cur)
  /\ pc' = "abandon"
  /\ UNCHANGED <<queued_paths, entryVars, scoreVars, cullVars, pending,
                 mainVars, loopVars>>

(* trim_case: chunks whose removal leaves the checksum unchanged go away.  *)
(* The entry gets smaller and is scored again, with the trace of the first *)
(* such run, which is the one exec_cksum stands for.                       *)
TrimUnchanged ==
  /\ pc = "trim"
  /\ trim_done' = IF DumbMode \/ (stop_soon /\ ~trim_done[cur])
                  THEN trim_done ELSE [trim_done EXCEPT ![cur] = TRUE]
  /\ pc' = IF ~DumbMode /\ ~trim_done[cur] /\ stop_soon
           THEN "abandon" ELSE "stages"
  /\ UNCHANGED <<queued_paths, exec_cksum, fav_factor, cal_failed, was_fuzzed,
                 scoreVars, cullVars, pending, mainVars, loopVars>>

TrimShrinks ==
  /\ pc = "trim"
  /\ ~DumbMode /\ ~trim_done[cur]
  /\ \E fav \in 0 .. fav_factor[cur] :
       fav_factor' = [fav_factor EXCEPT ![cur] = fav]
  /\ IF stop_soon
     THEN /\ pc' = "abandon"
          /\ UNCHANGED <<trace_bits, idx, ret>>
     ELSE /\ trace_bits' = exec_cksum[cur]
          /\ idx' = 0
          /\ ret' = "trim"
          /\ pc' = "score"
  /\ UNCHANGED <<queued_paths, exec_cksum, cal_failed, was_fuzzed, trim_done,
                 scoreVars, cullVars, pending, mainVars, cur>>

-----------------------------------------------------------------------------
(* save_if_interesting for a clean run with new coverage, from a mutation  *)
(* stage or from sync_fuzzers: add_to_queue, then calibrate inline.        *)

AddToQueue ==
  /\ queued_paths < MaxQueue
  /\ ~stop_soon
  /\ queued_paths' = queued_paths + 1
  /\ pending_not_fuzzed' = pending_not_fuzzed + 1

FindCalibrated ==
  /\ pc \in {"stages", "sync", "import"}
  /\ AddToQueue
  /\ CalibrateOK(queued_paths + 1, {}, pc)
  /\ UNCHANGED <<was_fuzzed, trim_done, scoreVars, cullVars, pending_favored,
                 mainVars>>

FindNotCalibrated ==
  /\ pc \in {"stages", "sync", "import"}
  /\ AddToQueue
  /\ \E first \in Traces \ {{}} :
       exec_cksum' = [exec_cksum EXCEPT ![queued_paths + 1] = first]
  /\ cal_failed' = [cal_failed EXCEPT ![queued_paths + 1] = 1]
  /\ UNCHANGED <<fav_factor, was_fuzzed, trim_done, scoreVars, cullVars,
                 pending_favored, mainVars, loopVars, pc>>

(* The stages run to their end (ret_val 0) or are left early, on a stop,   *)
(* on too many timeouts or on a skip request (ret_val 1).                  *)
StagesEnd ==
  /\ pc = "stages"
  /\ pc' \in {"done", "abandon"}
  /\ UNCHANGED <<queued_paths, entryVars, scoreVars, cullVars, pending,
                 mainVars, loopVars>>

(* abandon_entry and, in main, the decision to sync.                       *)
EveryTime(e) == ~stop_soon /\ cal_failed[e] = 0         \* fault: counted twice
FirstTime(e) == ~stop_soon /\ cal_failed[e] = 0 /\ ~was_fuzzed[e]
OneFewerFavored(e) ==
  IF favored[e] THEN pending_favored - 1 ELSE pending_favored

AbandonEntry ==
  /\ pc \in {"done", "abandon"}
  /\ IF FirstTime(queue_cur)
     THEN /\ was_fuzzed' = [was_fuzzed EXCEPT ![queue_cur] = TRUE]
          /\ pending_not_fuzzed' = pending_not_fuzzed - 1
          /\ pending_favored' = OneFewerFavored(queue_cur)
     ELSE UNCHANGED <<was_fuzzed, pending>>
  /\ \/ pc' = "advance"
     \/ pc = "done" /\ ~stop_soon /\ pc' = "sync"
  /\ UNCHANGED <<queued_paths, exec_cksum, fav_factor, cal_failed, trim_done,
                 scoreVars, cullVars, mainVars, loopVars>>

SyncEnd ==
  /\ pc \in {"sync", "import"}
  /\ pc' = IF pc = "sync" THEN "advance" ELSE "fuzz_one"
  /\ UNCHANGED <<queued_paths, entryVars, scoreVars, cullVars, pending,
                 mainVars, loopVars>>

Advance ==
  /\ pc = "advance"
  /\ IF stop_soon
     THEN pc' = "exit" /\ UNCHANGED queue_cur
     ELSE /\ pc' = "main"
          /\ queue_cur' = IF queue_cur < queued_paths
                          THEN queue_cur + 1 ELSE None
  /\ UNCHANGED <<queued_paths, entryVars, scoreVars, cullVars, pending,
                 cycling, stop_soon, loopVars>>

(* FATAL and PFATAL: an execution error of the target anywhere, or an      *)
(* initial test case that fails and may not be skipped.                    *)
Fatal ==
  /\ pc \in {"dry", "calibrate", "trim", "stages", "sync", "import"}
  /\ pc' = "exit"
  /\ UNCHANGED <<queued_paths, entryVars, scoreVars, cullVars, pending,
                 mainVars, loopVars>>

(* handle_stop_sig: Ctrl-C, at any moment.                                 *)
HandleStop ==
  /\ ~stop_soon
  /\ pc # "exit"
  /\ stop_soon' = TRUE
  /\ UNCHANGED <<queued_paths, entryVars, scoreVars, cullVars, pending,
                 queue_cur, cycling, loopVars, pc>>

Terminated == pc = "exit" /\ UNCHANGED vars

-----------------------------------------------------------------------------
DryRun   == DryRunCalibrated \/ DryRunSkip \/ DryRunStopped \/ DryRunDone
Score    == ScoreByte \/ ScoreReturn
Cull     == CullNothing \/ CullStart \/ CullByte \/ CullMark
MainLoop == StopBeforeLoop \/ SelectFirst \/ SelectNext \/ Advance
FuzzOne  == \/ FuzzOneSkip \/ FuzzOneStart
            \/ Recalibrated \/ RecalibrationFailed \/ CalibrationGivenUp
            \/ TrimUnchanged \/ TrimShrinks
            \/ StagesEnd \/ AbandonEntry
Finds    == FindCalibrated \/ FindNotCalibrated \/ SyncEnd

Work == DryRun \/ Score \/ Cull \/ MainLoop \/ FuzzOne \/ Finds
Next == Work \/ Fatal \/ HandleStop \/ Terminated

Spec     == Init /\ [][Next]_vars
FairSpec == Spec /\ WF_vars(Work)

-----------------------------------------------------------------------------
(* Properties.                                                             *)

QueueTypeOK ==
  /\ queued_paths \in InitialEntries .. MaxQueue
  /\ exec_cksum \in [Entry -> SUBSET Byte]
  /\ fav_factor \in [Entry -> 0 .. MaxFav]
  /\ cal_failed \in [Entry -> 0 .. CalChances]
  /\ was_fuzzed \in [Entry -> BOOLEAN]
  /\ trim_done \in [Entry -> BOOLEAN]

ScoreTypeOK ==
  /\ tc_ref \in [Entry -> Nat]
  /\ trace_mini \in [Entry -> SUBSET Byte]
  /\ top_rated \in [Byte -> Entry \cup {None}]
  /\ score_changed \in BOOLEAN

CullTypeOK ==
  /\ favored \in [Entry -> BOOLEAN]
  /\ fs_redundant \in [Entry -> BOOLEAN]
  /\ temp_v \in SUBSET Byte
  /\ queued_favored \in Nat

PendingTypeOK ==
  /\ pending_favored \in Nat
  /\ pending_not_fuzzed \in Nat

ControlTypeOK ==
  /\ queue_cur \in Entry \cup {None}
  /\ cycling \in BOOLEAN
  /\ stop_soon \in BOOLEAN
  /\ trace_bits \in SUBSET Byte
  /\ cur \in 1 .. MaxQueue + 1
  /\ idx \in 0 .. MapSize
  /\ pc \in Location
  /\ ret \in Caller

(* The type invariant.  It bounds cal_failed by the number of chances and  *)
(* keeps the counters, which the code holds in unsigned integers, from     *)
(* going below zero.                                                       *)
TypeOK ==
  QueueTypeOK /\ ScoreTypeOK /\ CullTypeOK /\ PendingTypeOK /\ ControlTypeOK

WonBy(e) == {b \in Byte : top_rated[b] = e}

(* tc_ref is exactly the number of map bytes an entry currently wins, also *)
(* while update_bitmap_score re-scores an entry that already owns bytes.   *)
RefCountExact == \A e \in Entry : tc_ref[e] = Cardinality(WonBy(e))

(* trace_mini is allocated exactly as long as top_rated refers to the      *)
(* entry: cull_queue never reads a freed or NULL trace_mini, and no trace  *)
(* is kept for an entry that lost all its bytes.                           *)
MiniIffReferenced ==
  \A e \in Entry : trace_mini[e] # {} <=> \E b \in Byte : top_rated[b] = e

(* A winner of top_rated has been calibrated: it is never one of the       *)
(* entries whose calibration failed, which fuzz_one would abandon, so a    *)
(* favored entry can always be fuzzed.                                     *)
WinnersCalibrated ==
  \A b \in Byte : top_rated[b] # None =>
    /\ top_rated[b] \in Queue
    /\ exec_cksum[top_rated[b]] # {}
    /\ cal_failed[top_rated[b]] = 0

(* After cull_queue every byte with a known winner is reached by a favored *)
(* entry, or has a favored winner; a favored entry is not also marked      *)
(* redundant on disk.                                                      *)
Culled == pc \in {"select", "import", "fuzz_one"} /\ ~score_changed
CullCovers ==
  Culled =>
    /\ \A b \in Byte : top_rated[b] # None =>
         \E e \in Queue : favored[e] /\ (b \in trace_mini[e] \/ top_rated[b] = e)
    /\ \A e \in Queue : ~(favored[e] /\ fs_redundant[e])

PendingFavored == {e \in Queue : favored[e] /\ ~was_fuzzed[e]}
NeverFuzzed    == {e \in Queue : ~was_fuzzed[e]}

(* pending_favored never drops below the number of favored entries still   *)
(* waiting, so it cannot wrap around below zero and a favored new arrival  *)
(* keeps its priority for as long as there is one.                         *)
PendingFavoredCovers == pending_favored >= Cardinality(PendingFavored)

(* pending_not_fuzzed is exactly the number of entries never fuzzed.       *)
PendingNotFuzzedExact == pending_not_fuzzed = Cardinality(NeverFuzzed)

(* Between two runs of cull_queue pending_favored is the "number of        *)
(* favored entries still waiting to be fuzzed" (docs/status_screen.txt),   *)
(* also for targets that are not stable: cull_queue counts an entry once   *)
(* for each byte it holds outside its trace_mini, but the second trace     *)
(* that wins it such bytes comes with trim_case, on the way to was_fuzzed. *)
PendingFavoredExact ==
  pc # "cull" => pending_favored = Cardinality(PendingFavored)

(* With a stable target the winner of a byte is never slower or larger     *)
(* than any calibrated entry that also reaches the byte.                   *)
TopRatedBest ==
  pc = "select" =>
    \A e \in Queue, b \in Byte :
      (cal_failed[e] = 0 /\ b \in exec_cksum[e]) =>
        /\ top_rated[b] # None
        /\ fav_factor[top_rated[b]] <= fav_factor[e]

(* A favored entry that waits is fuzzed, unless it loses its place to a    *)
(* better one or the fuzzer ends.                                          *)
FavoredGetsFuzzed ==
  \A e \in Entry :
    (favored[e] /\ ~was_fuzzed[e]) ~>
      (was_fuzzed[e] \/ ~favored[e] \/ pc = "exit")
=============================================================================
