---------------------------- MODULE CorpusProofs ----------------------------
(***************************************************************************)
(* Proofs about Corpus, for every value of its constants.  The inductive   *)
(* invariant IInv adds to the checked invariants what the thread knows at  *)
(* each program location: which entries have been calibrated (Settled),    *)
(* which entry it works on (Position), and that entries not yet in the     *)
(* queue are blank (Blank).                                                *)
(***************************************************************************)
EXTENDS Corpus, FiniteSetTheorems, TLAPS

InFuzzOne ==
  \/ pc \in {"fuzz_one", "calibrate", "trim", "stages", "abandon", "done",
             "sync", "advance", "import"}
  \/ pc = "score" /\ ret # "dry"

(* Where the thread is determines which entries cur and queue_cur name.    *)
Position ==
  /\ queue_cur \in Queue \cup {None}
  /\ InFuzzOne => queue_cur \in Queue /\ cycling
  /\ pc \in {"calibrate", "trim"} => cur \in Queue
  /\ pc = "calibrate" => cal_failed[cur] # 0
  /\ pc = "trim" => cal_failed[cur] = 0 /\ exec_cksum[cur] # {}
  /\ pc = "score" =>
       cur \in Queue /\ cal_failed[cur] = 0 /\ exec_cksum[cur] # {}
  /\ pc = "dry" => ~cycling
  /\ pc = "score" /\ ret = "dry" => ~cycling

(* An entry the dry run has passed either failed or has a checksum.        *)
Known(e) == cal_failed[e] = 0 => exec_cksum[e] # {}
Fresh(e) == cal_failed[e] = 0 /\ exec_cksum[e] = {}
Settled ==
  /\ pc = "dry" => \A e \in Queue : IF e < cur THEN Known(e)
                                               ELSE Fresh(e)
  /\ pc = "score" /\ ret = "dry" =>
       \A e \in Queue : IF e <= cur THEN Known(e) ELSE Fresh(e)
  /\ pc \in {"main", "cull", "select"} /\ ~cycling /\ ~stop_soon =>
       \A e \in Queue : Known(e)
  /\ cycling => \A e \in Queue : Known(e)

Blank == \A e \in Entry \ Queue : ~was_fuzzed[e] /\ ~favored[e]

IInv ==
  /\ TypeOK
  /\ Position
  /\ Settled
  /\ Blank
  /\ RefCountExact
  /\ MiniIffReferenced
  /\ WinnersCalibrated
  /\ PendingFavoredCovers
  /\ PendingNotFuzzedExact

-----------------------------------------------------------------------------
(* Finite sets of queue entries and of map bytes.                          *)

LEMMA QueueFinite ==
  ASSUME TypeOK
  PROVE  /\ IsFiniteSet(PendingFavored) /\ Cardinality(PendingFavored) \in Nat
         /\ IsFiniteSet(NeverFuzzed) /\ Cardinality(NeverFuzzed) \in Nat
<1>1. IsFiniteSet(Queue)
  BY SizesAssumption, FS_Interval DEF TypeOK, QueueTypeOK, Queue
<1>2. PendingFavored \subseteq Queue /\ NeverFuzzed \subseteq Queue
  BY DEF PendingFavored, NeverFuzzed
<1> QED
  BY <1>1, <1>2, FS_Subset, FS_CardinalityType

LEMMA WonByFinite ==
  ASSUME NEW e PROVE IsFiniteSet(WonBy(e)) /\ Cardinality(WonBy(e)) \in Nat
<1>1. IsFiniteSet(Byte)
  BY SizesAssumption, FS_Interval DEF Byte
<1>2. WonBy(e) \subseteq Byte
  BY DEF WonBy
<1> QED
  BY <1>1, <1>2, FS_Subset, FS_CardinalityType

(* While an entry waits to be fuzzed the counters that AbandonEntry        *)
(* decrements are positive.                                                *)
LEMMA CountersPositive ==
  ASSUME TypeOK, PendingFavoredCovers, PendingNotFuzzedExact,
         NEW e \in Queue, ~was_fuzzed[e]
  PROVE  pending_not_fuzzed > 0 /\ (favored[e] => pending_favored > 0)
<1>1. e \in NeverFuzzed /\ (favored[e] => e \in PendingFavored)
  BY DEF NeverFuzzed, PendingFavored
<1>2. Cardinality(NeverFuzzed) # 0
  BY <1>1, QueueFinite, FS_EmptySet
<1>3. favored[e] => Cardinality(PendingFavored) # 0
  BY <1>1, QueueFinite, FS_EmptySet
<1> QED
  BY <1>2, <1>3, QueueFinite DEF TypeOK, PendingTypeOK,
     PendingFavoredCovers, PendingNotFuzzedExact

(* Frame conditions: which steps touch which group of variables.           *)
LEMMA Frames ==
  ASSUME [Next]_vars
  PROVE  /\ ScoreByte \/ CullStart \/ UNCHANGED scoreVars
         /\ CullStart \/ CullByte \/ CullMark \/ UNCHANGED cullVars
         /\ \/ CullStart \/ CullByte \/ AbandonEntry
            \/ FindCalibrated \/ FindNotCalibrated \/ UNCHANGED pending
         /\ \/ DryRunCalibrated \/ DryRunSkip \/ DryRunStopped
            \/ Recalibrated \/ RecalibrationFailed \/ TrimUnchanged
            \/ TrimShrinks \/ ScoreReturn \/ AbandonEntry
            \/ FindCalibrated \/ FindNotCalibrated
            \/ UNCHANGED <<queued_paths, entryVars>>
<1>1. CASE DryRun
  BY <1>1 DEF
     DryRun, DryRunCalibrated, DryRunSkip, DryRunStopped, DryRunDone,
     CalibrateOK, CalibrateAborted
<1>2. CASE Score
  BY <1>2 DEF
     Score, ScoreByte, ScoreReturn
<1>3. CASE Cull
  BY <1>3 DEF
     Cull, CullNothing, CullStart, CullByte, CullMark
<1>4. CASE MainLoop
  BY <1>4 DEF
     MainLoop, StopBeforeLoop, SelectFirst, SelectNext, Advance
<1>5. CASE FuzzOne
  BY <1>5 DEF
     FuzzOne, FuzzOneSkip, FuzzOneStart, Recalibrated, RecalibrationFailed,
     CalibrationGivenUp, TrimUnchanged, TrimShrinks, StagesEnd,
     AbandonEntry, CalibrateOK, CalibrateAborted
<1>6. CASE Finds
  BY <1>6 DEF
     Finds, FindCalibrated, FindNotCalibrated, SyncEnd, AddToQueue,
     CalibrateOK
<1>7. CASE Fatal \/ HandleStop
  BY <1>7 DEF Fatal, HandleStop
<1>8. CASE Terminated \/ UNCHANGED vars
  BY <1>8 DEF Terminated, vars
<1> QED
  BY <1>1, <1>2, <1>3, <1>4, <1>5, <1>6, <1>7, <1>8 DEF Next, Work

-----------------------------------------------------------------------------
(* Type correctness, one group of variables at a time.                     *)

LEMMA QueueTypeStep == IInv /\ [Next]_vars => QueueTypeOK'
<1> SUFFICES ASSUME IInv, [Next]_vars PROVE QueueTypeOK'
  OBVIOUS
<1> USE SizesAssumption DEF IInv, TypeOK, QueueTypeOK, entryVars
<1>1. CASE DryRunCalibrated \/ Recalibrated
  <2>1. cur \in Entry
    BY <1>1 DEF DryRunCalibrated, Recalibrated, Position, Queue, Entry
  <2>2. PICK first \in SUBSET Byte, fav \in 0 .. MaxFav :
          /\ exec_cksum' = [exec_cksum EXCEPT ![cur] = first]
          /\ fav_factor' = [fav_factor EXCEPT ![cur] = fav]
          /\ cal_failed' = [cal_failed EXCEPT ![cur] = 0]
    BY <1>1 DEF DryRunCalibrated, Recalibrated, CalibrateOK, FailuresCleared
  <2> QED
    BY <1>1, <2>1, <2>2 DEF DryRunCalibrated, Recalibrated
<1>2. CASE DryRunSkip
  BY <1>2 DEF DryRunSkip, Queue, Entry
<1>3. CASE DryRunStopped \/ RecalibrationFailed
  <2>1. cur \in Entry
    BY <1>3 DEF DryRunStopped, RecalibrationFailed, Position, Queue, Entry
  <2>2. PICK first \in SUBSET Byte :
          exec_cksum' = [exec_cksum EXCEPT ![cur] = first]
    BY <1>3 DEF DryRunStopped, RecalibrationFailed, CalibrateAborted
  <2>3. cal_failed[cur] + 1 \in 0 .. CalChances
    <3>1. CASE DryRunStopped
      <4>1. pc = "dry" /\ cur \in Queue /\ cur \in Int
        BY <3>1, <2>1 DEF DryRunStopped, Entry
      <4>2. cal_failed[cur] = 0
        BY <4>1 DEF Settled, Fresh
      <4> QED
        BY <4>2
    <3>2. CASE RecalibrationFailed
      BY <3>2, <2>1 DEF RecalibrationFailed, MayCalibrate
    <3> QED
      BY <1>3, <3>1, <3>2
  <2> QED
    BY <1>3, <2>1, <2>2, <2>3 DEF DryRunStopped, RecalibrationFailed,
       CalibrateAborted
<1>4. CASE TrimUnchanged \/ ScoreReturn
  BY <1>4 DEF TrimUnchanged, ScoreReturn
<1>5. CASE TrimShrinks
  BY <1>5 DEF TrimShrinks, Position, Queue, Entry
<1>6. CASE AbandonEntry
  BY <1>6 DEF AbandonEntry
<1>7. CASE FindCalibrated
  <2>1. queued_paths + 1 \in Entry
    BY <1>7 DEF FindCalibrated, AddToQueue, Entry
  <2>2. PICK first \in SUBSET Byte, fav \in 0 .. MaxFav :
          /\ exec_cksum' = [exec_cksum EXCEPT ![queued_paths + 1] = first]
          /\ fav_factor' = [fav_factor EXCEPT ![queued_paths + 1] = fav]
          /\ cal_failed' = [cal_failed EXCEPT ![queued_paths + 1] = 0]
    BY <1>7 DEF FindCalibrated, CalibrateOK, FailuresCleared
  <2>3. queued_paths' \in InitialEntries .. MaxQueue
    BY <1>7 DEF FindCalibrated, AddToQueue
  <2> QED
    BY <1>7, <2>1, <2>2, <2>3 DEF FindCalibrated
<1>8. CASE FindNotCalibrated
  <2>1. queued_paths + 1 \in Entry
    BY <1>8 DEF FindNotCalibrated, AddToQueue, Entry
  <2>2. PICK first \in SUBSET Byte :
          exec_cksum' = [exec_cksum EXCEPT ![queued_paths + 1] = first]
    BY <1>8 DEF FindNotCalibrated
  <2>3. queued_paths' \in InitialEntries .. MaxQueue
    BY <1>8 DEF FindNotCalibrated, AddToQueue
  <2> QED
    BY <1>8, <2>1, <2>2, <2>3 DEF FindNotCalibrated
<1>9. CASE UNCHANGED <<queued_paths, entryVars>>
  BY <1>9
<1> QED
  BY <1>1, <1>2, <1>3, <1>4, <1>5, <1>6, <1>7, <1>8, <1>9, Frames

(* The winner of a byte holds at least one reference.                      *)
LEMMA RefDroppedType ==
  ASSUME TypeOK, RefCountExact, NEW b \in Byte
  PROVE  RefDropped(b) \in [Entry -> Nat]
<1>1. CASE top_rated[b] = None
  BY <1>1 DEF TypeOK, ScoreTypeOK, RefDropped
<1>2. CASE top_rated[b] # None
  <2>1. top_rated[b] \in Entry /\ b \in WonBy(top_rated[b])
    BY <1>2 DEF TypeOK, ScoreTypeOK, WonBy
  <2>2. tc_ref[top_rated[b]] > 0
    BY <2>1, WonByFinite, FS_EmptySet DEF RefCountExact, TypeOK, ScoreTypeOK
  <2> QED
    BY <1>2, <2>1, <2>2 DEF TypeOK, ScoreTypeOK, RefDropped
<1> QED
  BY <1>1, <1>2

LEMMA ScoreTypeStep == IInv /\ [Next]_vars => ScoreTypeOK'
<1> SUFFICES ASSUME IInv, [Next]_vars PROVE ScoreTypeOK'
  OBVIOUS
<1> USE DEF IInv, TypeOK, ScoreTypeOK, scoreVars
<1>1. CASE ScoreByte
  <2>1. cur \in Entry
    BY <1>1, SizesAssumption DEF ScoreByte, Position, Queue, Entry, QueueTypeOK
  <2>2. CASE Wins(cur, idx)
    <3>1. tc_ref' \in [Entry -> Nat]
      BY <1>1, <2>1, <2>2, RefDroppedType DEF ScoreByte
    <3>2. trace_mini' \in [Entry -> SUBSET Byte]
      <4>1. MiniDropped(idx) \in [Entry -> SUBSET Byte] /\ trace_bits \in SUBSET Byte
        BY DEF MiniDropped, ControlTypeOK
      <4> QED
        BY <1>1, <2>1, <2>2, <4>1 DEF ScoreByte
    <3> QED
      BY <1>1, <2>1, <2>2, <3>1, <3>2 DEF ScoreByte
  <2> QED
    BY <1>1, <2>2 DEF ScoreByte
<1>2. CASE CullStart
  BY <1>2 DEF CullStart
<1>3. CASE UNCHANGED scoreVars
  BY <1>3
<1> QED
  BY <1>1, <1>2, <1>3, Frames

LEMMA CullTypeStep == IInv /\ [Next]_vars => CullTypeOK'
<1> SUFFICES ASSUME IInv, [Next]_vars PROVE CullTypeOK'
  OBVIOUS
<1> USE DEF IInv, TypeOK, CullTypeOK, cullVars
<1>1. CASE CullStart
  BY <1>1 DEF CullStart, FreshTemp
<1>2. CASE CullByte
  <2>1. CASE top_rated[idx] # None /\ idx \in temp_v
    <3>1. top_rated[idx] \in Entry
      BY <1>2, <2>1 DEF CullByte, ScoreTypeOK
    <3>2. /\ temp_v' = temp_v \ trace_mini[top_rated[idx]]
          /\ favored' = [favored EXCEPT ![top_rated[idx]] = TRUE]
          /\ queued_favored' = queued_favored + 1
          /\ UNCHANGED fs_redundant
      BY <1>2, <2>1 DEF CullByte, Uncovered
    <3>3. favored' \in [Entry -> BOOLEAN]
      BY <3>1, <3>2
    <3>4. temp_v' \in SUBSET Byte
      BY <3>2
    <3> QED
      BY <3>2, <3>3, <3>4
  <2>2. CASE ~(top_rated[idx] # None /\ idx \in temp_v)
    BY <1>2, <2>2 DEF CullByte
  <2> QED
    BY <2>1, <2>2
<1>3. CASE CullMark
  BY <1>3 DEF CullMark
<1>4. CASE UNCHANGED cullVars
  BY <1>4
<1> QED
  BY <1>1, <1>2, <1>3, <1>4, Frames

LEMMA PendingTypeStep == IInv /\ [Next]_vars => PendingTypeOK'
<1> SUFFICES ASSUME IInv, [Next]_vars PROVE PendingTypeOK'
  OBVIOUS
<1> USE DEF IInv, TypeOK, PendingTypeOK, pending
<1>1. CASE CullStart \/ CullByte
  BY <1>1 DEF CullStart, CullByte
<1>2. CASE AbandonEntry
  BY <1>2, CountersPositive DEF AbandonEntry, FirstTime, OneFewerFavored,
     Position, InFuzzOne
<1>3. CASE FindCalibrated \/ FindNotCalibrated
  BY <1>3 DEF FindCalibrated, FindNotCalibrated, AddToQueue
<1>4. CASE UNCHANGED pending
  BY <1>4
<1> QED
  BY <1>1, <1>2, <1>3, <1>4, Frames

LEMMA ControlTypeStep == IInv /\ [Next]_vars => ControlTypeOK'
<1> SUFFICES ASSUME IInv, [Next]_vars PROVE ControlTypeOK'
  OBVIOUS
<1> USE SizesAssumption DEF IInv, TypeOK, QueueTypeOK, ControlTypeOK,
         Caller, Location, Queue, Entry, None, loopVars, mainVars
<1>1. CASE DryRunCalibrated
  BY <1>1 DEF DryRunCalibrated, CalibrateOK
<1>2. CASE DryRunSkip
  BY <1>2 DEF DryRunSkip
<1>3. CASE DryRunStopped
  BY <1>3 DEF DryRunStopped, CalibrateAborted
<1>4. CASE DryRunDone
  BY <1>4 DEF DryRunDone
<1>5. CASE ScoreByte
  BY <1>5 DEF ScoreByte, Byte
<1>6. CASE ScoreReturn
  <2>1. pc' \in Location
    BY <1>6 DEF ScoreReturn
  <2>2. cur' \in 1 .. MaxQueue + 1
    BY <1>6 DEF ScoreReturn, Position
  <2> QED
    BY <1>6, <2>1, <2>2 DEF ScoreReturn
<1>7. CASE CullNothing
  BY <1>7 DEF CullNothing
<1>8. CASE CullStart
  BY <1>8 DEF CullStart
<1>9. CASE CullByte
  BY <1>9 DEF CullByte, Byte
<1>10. CASE CullMark
  BY <1>10 DEF CullMark
<1>11. CASE StopBeforeLoop
  BY <1>11 DEF StopBeforeLoop
<1>12. CASE SelectFirst
  BY <1>12 DEF SelectFirst
<1>13. CASE SelectNext
  BY <1>13 DEF SelectNext
<1>14. CASE Advance
  BY <1>14 DEF Advance
<1>15. CASE FuzzOneSkip
  BY <1>15 DEF FuzzOneSkip
<1>16. CASE FuzzOneStart
  BY <1>16 DEF FuzzOneStart, Position, InFuzzOne
<1>17. CASE Recalibrated
  BY <1>17 DEF Recalibrated, CalibrateOK
<1>18. CASE RecalibrationFailed
  BY <1>18 DEF RecalibrationFailed, CalibrateAborted
<1>19. CASE CalibrationGivenUp
  BY <1>19 DEF CalibrationGivenUp
<1>20. CASE TrimUnchanged
  BY <1>20 DEF TrimUnchanged
<1>21. CASE TrimShrinks
  BY <1>21 DEF TrimShrinks, Position
<1>22. CASE StagesEnd
  BY <1>22 DEF StagesEnd
<1>23. CASE AbandonEntry
  BY <1>23 DEF AbandonEntry
<1>24. CASE FindCalibrated
  BY <1>24 DEF FindCalibrated, CalibrateOK, AddToQueue
<1>25. CASE FindNotCalibrated
  BY <1>25 DEF FindNotCalibrated, AddToQueue
<1>26. CASE SyncEnd
  BY <1>26 DEF SyncEnd
<1>27. CASE Fatal
  BY <1>27 DEF Fatal
<1>28. CASE HandleStop
  BY <1>28 DEF HandleStop
<1>29. CASE Terminated \/ UNCHANGED vars
  <2>1. UNCHANGED <<queued_paths, entryVars, scoreVars, cullVars, pending,
                    mainVars, loopVars, pc>>
    BY <1>29 DEF Terminated, vars
  <2> QED
    BY <2>1 DEF entryVars, scoreVars, cullVars, loopVars, mainVars
<1> QED
  BY <1>1, <1>2, <1>3, <1>4, <1>5, <1>6, <1>7, <1>8, <1>9, <1>10, <1>11,
     <1>12, <1>13, <1>14, <1>15, <1>16, <1>17, <1>18, <1>19, <1>20, <1>21,
     <1>22, <1>23, <1>24, <1>25, <1>26, <1>27, <1>28, <1>29
     DEF Next, Work, DryRun, Score, Cull, MainLoop, FuzzOne, Finds

-----------------------------------------------------------------------------
(* What the thread knows at each location.                                 *)

LEMMA PositionStep == IInv /\ [Next]_vars => Position'
<1> SUFFICES ASSUME IInv, [Next]_vars PROVE Position'
  OBVIOUS
<1> USE SizesAssumption DEF IInv, TypeOK, QueueTypeOK, ControlTypeOK,
         Position, InFuzzOne, Queue, Entry, None, entryVars, loopVars, mainVars
<1>1. CASE DryRunCalibrated
  BY <1>1 DEF DryRunCalibrated, CalibrateOK, FailuresCleared
<1>2. CASE DryRunSkip
  BY <1>2 DEF DryRunSkip
<1>3. CASE DryRunStopped
  BY <1>3 DEF DryRunStopped, CalibrateAborted
<1>4. CASE DryRunDone
  BY <1>4 DEF DryRunDone
<1>5. CASE ScoreByte
  BY <1>5 DEF ScoreByte, Byte
<1>6. CASE ScoreReturn
  BY <1>6 DEF ScoreReturn
<1>7. CASE CullNothing
  BY <1>7 DEF CullNothing
<1>8. CASE CullStart
  BY <1>8 DEF CullStart
<1>9. CASE CullByte
  BY <1>9 DEF CullByte
<1>10. CASE CullMark
  BY <1>10 DEF CullMark
<1>11. CASE StopBeforeLoop
  BY <1>11 DEF StopBeforeLoop
<1>12. CASE SelectFirst
  BY <1>12 DEF SelectFirst
<1>13. CASE SelectNext
  BY <1>13 DEF SelectNext
<1>14. CASE Advance
  BY <1>14 DEF Advance
<1>15. CASE FuzzOneSkip
  BY <1>15 DEF FuzzOneSkip
<1>16. CASE FuzzOneStart
  BY <1>16 DEF FuzzOneStart, Settled, Known
<1>17. CASE Recalibrated
  BY <1>17 DEF Recalibrated, CalibrateOK, FailuresCleared
<1>18. CASE RecalibrationFailed
  BY <1>18 DEF RecalibrationFailed, CalibrateAborted
<1>19. CASE CalibrationGivenUp
  BY <1>19 DEF CalibrationGivenUp
<1>20. CASE TrimUnchanged
  BY <1>20 DEF TrimUnchanged
<1>21. CASE TrimShrinks
  BY <1>21 DEF TrimShrinks
<1>22. CASE StagesEnd
  BY <1>22 DEF StagesEnd
<1>23. CASE AbandonEntry
  BY <1>23 DEF AbandonEntry
<1>24. CASE FindCalibrated
  BY <1>24 DEF FindCalibrated, CalibrateOK, AddToQueue, FailuresCleared
<1>25. CASE FindNotCalibrated
  BY <1>25 DEF FindNotCalibrated, AddToQueue
<1>26. CASE SyncEnd
  BY <1>26 DEF SyncEnd
<1>27. CASE Fatal
  BY <1>27 DEF Fatal
<1>28. CASE HandleStop
  BY <1>28 DEF HandleStop
<1>29. CASE Terminated \/ UNCHANGED vars
  <2>1. UNCHANGED <<queued_paths, entryVars, scoreVars, cullVars, pending,
                    mainVars, loopVars, pc>>
    BY <1>29 DEF Terminated, vars
  <2> QED
    BY <2>1 DEF entryVars, scoreVars, cullVars, loopVars, mainVars
<1> QED
  BY <1>1, <1>2, <1>3, <1>4, <1>5, <1>6, <1>7, <1>8, <1>9, <1>10, <1>11,
     <1>12, <1>13, <1>14, <1>15, <1>16, <1>17, <1>18, <1>19, <1>20, <1>21,
     <1>22, <1>23, <1>24, <1>25, <1>26, <1>27, <1>28, <1>29
     DEF Next, Work, DryRun, Score, Cull, MainLoop, FuzzOne, Finds

LEMMA SettledStep == IInv /\ [Next]_vars => Settled'
<1> SUFFICES ASSUME IInv, [Next]_vars PROVE Settled'
  OBVIOUS
<1> USE SizesAssumption DEF IInv, TypeOK, QueueTypeOK, ControlTypeOK,
         Position, InFuzzOne, Settled, Known, Fresh, Queue, Entry, None, entryVars,
         loopVars, mainVars
<1>1. CASE DryRunCalibrated
  BY <1>1 DEF DryRunCalibrated, CalibrateOK, FailuresCleared
<1>2. CASE DryRunSkip
  BY <1>2 DEF DryRunSkip
<1>3. CASE DryRunStopped
  BY <1>3 DEF DryRunStopped, CalibrateAborted
<1>4. CASE DryRunDone
  <2>1. \A e \in Queue : e < cur
    BY <1>4 DEF DryRunDone
  <2>2. \A e \in Queue : Known(e)
    BY <1>4, <2>1 DEF DryRunDone
  <2> QED
    BY <1>4, <2>2 DEF DryRunDone
<1>5. CASE ScoreByte
  BY <1>5 DEF ScoreByte
<1>6. CASE ScoreReturn
  <2>1. CASE ret # "dry"
    BY <1>6, <2>1 DEF ScoreReturn
  <2>2. CASE ret = "dry"
    <3>1. \A e \in Queue : IF e < cur + 1 THEN Known(e) ELSE Fresh(e)
      <4>1. \A e \in Queue : e < cur + 1 <=> e <= cur
        OBVIOUS
      <4>2. \A e \in Queue : IF e <= cur THEN Known(e) ELSE Fresh(e)
        BY <1>6, <2>2 DEF ScoreReturn
      <4> QED
        BY <4>1, <4>2
    <3>2. /\ ~cycling /\ cur' = cur + 1
          /\ UNCHANGED <<queued_paths, exec_cksum, cal_failed, cycling, stop_soon>>
          /\ pc' = IF stop_soon THEN "main" ELSE "dry"
      BY <1>6, <2>2 DEF ScoreReturn
    <3> QED
      BY <3>1, <3>2
  <2> QED
    BY <2>1, <2>2
<1>7. CASE CullNothing
  BY <1>7 DEF CullNothing
<1>8. CASE CullStart
  BY <1>8 DEF CullStart
<1>9. CASE CullByte
  BY <1>9 DEF CullByte
<1>10. CASE CullMark
  BY <1>10 DEF CullMark
<1>11. CASE StopBeforeLoop
  BY <1>11 DEF StopBeforeLoop
<1>12. CASE SelectFirst
  BY <1>12 DEF SelectFirst
<1>13. CASE SelectNext
  BY <1>13 DEF SelectNext
<1>14. CASE Advance
  BY <1>14 DEF Advance
<1>15. CASE FuzzOneSkip
  BY <1>15 DEF FuzzOneSkip
<1>16. CASE FuzzOneStart
  BY <1>16 DEF FuzzOneStart
<1>17. CASE Recalibrated
  BY <1>17 DEF Recalibrated, CalibrateOK, FailuresCleared
<1>18. CASE RecalibrationFailed
  BY <1>18 DEF RecalibrationFailed, CalibrateAborted
<1>19. CASE CalibrationGivenUp
  BY <1>19 DEF CalibrationGivenUp
<1>20. CASE TrimUnchanged
  BY <1>20 DEF TrimUnchanged
<1>21. CASE TrimShrinks
  BY <1>21 DEF TrimShrinks
<1>22. CASE StagesEnd
  BY <1>22 DEF StagesEnd
<1>23. CASE AbandonEntry
  BY <1>23 DEF AbandonEntry
<1>24. CASE FindCalibrated
  BY <1>24 DEF FindCalibrated, CalibrateOK, AddToQueue, FailuresCleared
<1>25. CASE FindNotCalibrated
  BY <1>25 DEF FindNotCalibrated, AddToQueue
<1>26. CASE SyncEnd
  BY <1>26 DEF SyncEnd
<1>27. CASE Fatal
  BY <1>27 DEF Fatal
<1>28. CASE HandleStop
  BY <1>28 DEF HandleStop
<1>29. CASE Terminated \/ UNCHANGED vars
  <2>1. UNCHANGED <<queued_paths, entryVars, scoreVars, cullVars, pending,
                    mainVars, loopVars, pc>>
    BY <1>29 DEF Terminated, vars
  <2> QED
    BY <2>1 DEF entryVars, scoreVars, cullVars, loopVars, mainVars
<1> QED
  BY <1>1, <1>2, <1>3, <1>4, <1>5, <1>6, <1>7, <1>8, <1>9, <1>10, <1>11,
     <1>12, <1>13, <1>14, <1>15, <1>16, <1>17, <1>18, <1>19, <1>20, <1>21,
     <1>22, <1>23, <1>24, <1>25, <1>26, <1>27, <1>28, <1>29
     DEF Next, Work, DryRun, Score, Cull, MainLoop, FuzzOne, Finds

LEMMA BlankStep == IInv /\ [Next]_vars => Blank'
<1> SUFFICES ASSUME IInv, [Next]_vars PROVE Blank'
  OBVIOUS
<1> USE SizesAssumption DEF IInv, TypeOK, QueueTypeOK, CullTypeOK, Blank, Queue,
        Entry
<1>1. queued_paths' = queued_paths \/ queued_paths' = queued_paths + 1
  BY Frames DEF DryRunCalibrated, DryRunSkip, DryRunStopped, Recalibrated,
     RecalibrationFailed, TrimUnchanged, TrimShrinks, ScoreReturn,
     AbandonEntry, FindCalibrated, FindNotCalibrated, AddToQueue
<1>2. \A e \in Entry \ Queue : ~was_fuzzed'[e]
  <2>1. CASE AbandonEntry
    BY <2>1 DEF AbandonEntry, Position, InFuzzOne
  <2>2. CASE ~AbandonEntry
    <3>1. UNCHANGED was_fuzzed
      BY <2>2, Frames DEF DryRunCalibrated, DryRunSkip, DryRunStopped,
         Recalibrated, RecalibrationFailed, TrimUnchanged, TrimShrinks,
         ScoreReturn, FindCalibrated, FindNotCalibrated, entryVars
    <3> QED
      BY <3>1
  <2> QED
    BY <2>1, <2>2
<1>3. \A e \in Entry \ Queue : ~favored'[e]
  <2>1. CASE CullStart
    BY <2>1 DEF CullStart
  <2>2. CASE CullByte
    <3>1. top_rated[idx] # None => top_rated[idx] \in Queue
      BY <2>2 DEF CullByte, WinnersCalibrated
    <3>2. \/ UNCHANGED favored
          \/ /\ top_rated[idx] # None
             /\ favored' = [favored EXCEPT ![top_rated[idx]] = TRUE]
      BY <2>2 DEF CullByte
    <3> QED
      BY <3>1, <3>2
  <2>3. CASE CullMark \/ UNCHANGED cullVars
    BY <2>3 DEF CullMark, cullVars
  <2> QED
    BY <2>1, <2>2, <2>3, Frames
<1> QED
  BY <1>1, <1>2, <1>3

-----------------------------------------------------------------------------
(* The reference counts.                                                   *)

(* One step of update_bitmap_score that changes the winner of byte b.      *)
LEMMA WinnerChange ==
  ASSUME IInv, ScoreByte, Wins(cur, idx)
  PROVE  /\ idx \in Byte /\ cur \in Entry
         /\ top_rated' = [top_rated EXCEPT ![idx] = cur]
         /\ trace_bits # {}
         /\ \A e \in Entry :
              /\ e = cur => WonBy(e)' = WonBy(e) \cup {idx}
              /\ e # cur => WonBy(e)' = WonBy(e) \ {idx}
<1> USE DEF IInv, TypeOK, ScoreTypeOK
<1>1. idx \in Byte /\ top_rated' = [top_rated EXCEPT ![idx] = cur]
  BY DEF ScoreByte
<1>2. cur \in Entry
  BY SizesAssumption DEF ScoreByte, Position, Queue, Entry, QueueTypeOK
<1>3. trace_bits # {}
  BY DEF Wins
<1>4. ASSUME NEW e \in Entry
      PROVE  /\ e = cur => WonBy(e)' = WonBy(e) \cup {idx}
             /\ e # cur => WonBy(e)' = WonBy(e) \ {idx}
  BY <1>1, <1>2 DEF WonBy
<1> QED
  BY <1>1, <1>2, <1>3, <1>4

LEMMA RefCountStep == IInv /\ [Next]_vars => RefCountExact'
<1> SUFFICES ASSUME IInv, [Next]_vars, NEW e \in Entry
             PROVE  tc_ref'[e] = Cardinality(WonBy(e)')
  BY DEF RefCountExact
<1> USE DEF IInv, TypeOK, ScoreTypeOK
<1>1. tc_ref[e] = Cardinality(WonBy(e)) /\ tc_ref[e] \in Nat
  BY DEF RefCountExact
<1>2. CASE ScoreByte /\ Wins(cur, idx)
  <2> USE WinnerChange, <1>2
  <2>1. tc_ref' = [RefDropped(idx) EXCEPT ![cur] = @ + 1]
    BY DEF ScoreByte
  <2>2. IsFiniteSet(WonBy(e))
    BY WonByFinite
  <2>3. idx \in WonBy(e) <=> top_rated[idx] = e
    BY DEF WonBy
  <2>4. RefDropped(idx)[e] = IF top_rated[idx] = e THEN tc_ref[e] - 1
                             ELSE tc_ref[e]
    <3>1. e # None
      BY DEF Entry, None
    <3> QED
      BY <3>1 DEF RefDropped
  <2>5. RefDropped(idx) \in [Entry -> Nat]
    BY RefDroppedType
  <2>6. CASE e = cur
    <3>1. tc_ref'[e] = RefDropped(idx)[e] + 1
      BY <2>1, <2>5, <2>6
    <3>2. Cardinality(WonBy(e)') = IF idx \in WonBy(e)
                                   THEN Cardinality(WonBy(e))
                                   ELSE Cardinality(WonBy(e)) + 1
      BY <2>2, <2>6, FS_AddElement
    <3> QED
      BY <1>1, <2>3, <2>4, <3>1, <3>2
  <2>7. CASE e # cur
    <3>1. tc_ref'[e] = RefDropped(idx)[e]
      BY <2>1, <2>5, <2>7
    <3>2. Cardinality(WonBy(e)') = IF idx \in WonBy(e)
                                   THEN Cardinality(WonBy(e)) - 1
                                   ELSE Cardinality(WonBy(e))
      BY <2>2, <2>7, FS_RemoveElement
    <3> QED
      BY <1>1, <2>3, <2>4, <3>1, <3>2
  <2> QED
    BY <2>6, <2>7
<1>3. CASE UNCHANGED <<tc_ref, top_rated>>
  BY <1>1, <1>3 DEF WonBy
<1>4. UNCHANGED <<tc_ref, top_rated>> \/ (ScoreByte /\ Wins(cur, idx))
  BY Frames DEF ScoreByte, CullStart, scoreVars
<1> QED
  BY <1>2, <1>3, <1>4

LEMMA MiniStep == IInv /\ [Next]_vars => MiniIffReferenced'
<1> SUFFICES ASSUME IInv, [Next]_vars, NEW e \in Entry
             PROVE  trace_mini'[e] # {} <=> \E b \in Byte : top_rated'[b] = e
  BY DEF MiniIffReferenced
<1> USE DEF IInv, TypeOK, ScoreTypeOK
<1>1. trace_mini[e] # {} <=> \E b \in Byte : top_rated[b] = e
  BY DEF MiniIffReferenced
<1>2. CASE ScoreByte /\ Wins(cur, idx)
  <2> USE WinnerChange, <1>2
  <2>1. trace_mini' = [MiniDropped(idx) EXCEPT
                         ![cur] = IF @ = {} THEN trace_bits ELSE @]
    BY DEF ScoreByte
  <2>2. MiniDropped(idx)[e] = IF e = top_rated[idx] /\ tc_ref[e] = 1
                              THEN {} ELSE trace_mini[e]
    BY DEF MiniDropped
  <2>3. CASE e = cur
    <3>1. trace_mini'[e] # {}
      BY <2>1, <2>2, <2>3 DEF MiniDropped
    <3> QED
      BY <2>3, <3>1
  <2>4. CASE e # cur
    <3>1. trace_mini'[e] = MiniDropped(idx)[e]
      BY <2>1, <2>4 DEF MiniDropped
    <3>2. (\E b \in Byte : top_rated'[b] = e) <=> WonBy(e)' # {}
      BY DEF WonBy
    <3>3. WonBy(e)' = WonBy(e) \ {idx}
      BY <2>4
    <3>4. IsFiniteSet(WonBy(e)) /\ tc_ref[e] = Cardinality(WonBy(e))
      BY WonByFinite DEF RefCountExact
    <3>5. CASE e = top_rated[idx]
      <4>1. idx \in WonBy(e)
        BY <3>5 DEF WonBy
      <4>2. /\ IsFiniteSet(WonBy(e) \ {idx})
            /\ Cardinality(WonBy(e) \ {idx}) = tc_ref[e] - 1
        <5>1. /\ IsFiniteSet(WonBy(e) \ {idx})
              /\ Cardinality(WonBy(e) \ {idx}) = Cardinality(WonBy(e)) - 1
          BY <3>4, <4>1, FS_RemoveElement
        <5> QED
          BY <3>4, <5>1
      <4>3. tc_ref[e] = 1 <=> WonBy(e) \ {idx} = {}
        <5>1. Cardinality(WonBy(e) \ {idx}) = 0 <=> WonBy(e) \ {idx} = {}
          BY <4>2, FS_EmptySet
        <5>2. tc_ref[e] \in Nat
          OBVIOUS
        <5> QED
          BY <4>2, <5>1, <5>2
      <4>4. trace_mini[e] # {}
        BY <1>1, <3>5
      <4> QED
        BY <2>2, <3>1, <3>2, <3>3, <3>5, <4>3, <4>4
    <3>6. CASE e # top_rated[idx]
      <4>1. WonBy(e) \ {idx} = WonBy(e)
        BY <3>6 DEF WonBy
      <4>2. (\E b \in Byte : top_rated[b] = e) <=> WonBy(e) # {}
        BY DEF WonBy
      <4> QED
        BY <1>1, <2>2, <3>1, <3>2, <3>3, <3>6, <4>1, <4>2
    <3> QED
      BY <3>5, <3>6
  <2> QED
    BY <2>3, <2>4
<1>3. CASE UNCHANGED <<trace_mini, top_rated>>
  BY <1>1, <1>3
<1>4. UNCHANGED <<trace_mini, top_rated>> \/ (ScoreByte /\ Wins(cur, idx))
  BY Frames DEF ScoreByte, CullStart, scoreVars
<1> QED
  BY <1>2, <1>3, <1>4

-----------------------------------------------------------------------------
(* The winners of top_rated are calibrated entries of the queue.           *)

LEMMA WinnersStep == IInv /\ [Next]_vars => WinnersCalibrated'
<1> SUFFICES ASSUME IInv, [Next]_vars, NEW b \in Byte, top_rated'[b] # None
             PROVE  /\ top_rated'[b] \in 1 .. queued_paths'
                    /\ exec_cksum'[top_rated'[b]] # {}
                    /\ cal_failed'[top_rated'[b]] = 0
  BY DEF WinnersCalibrated, Queue
<1> USE SizesAssumption DEF IInv, TypeOK, QueueTypeOK, ScoreTypeOK, Queue, Entry
<1>1. CASE ScoreByte /\ Wins(cur, idx)
  <2>1. UNCHANGED <<queued_paths, exec_cksum, cal_failed>>
    BY <1>1 DEF ScoreByte, entryVars
  <2>2. cur \in Queue /\ cal_failed[cur] = 0 /\ exec_cksum[cur] # {}
    BY <1>1 DEF ScoreByte, Position
  <2>3. top_rated'[b] = IF b = idx THEN cur ELSE top_rated[b]
    BY <1>1, WinnerChange
  <2> QED
    BY <2>1, <2>2, <2>3 DEF WinnersCalibrated
<1>2. CASE ~(ScoreByte /\ Wins(cur, idx))
  <2> DEFINE w == top_rated[b]
  <2>1. top_rated'[b] = w /\ w # None
    BY <1>2, Frames DEF ScoreByte, CullStart, scoreVars
  <2>2. w \in 1 .. queued_paths /\ exec_cksum[w] # {} /\ cal_failed[w] = 0
    BY <2>1 DEF WinnersCalibrated
  <2> HIDE DEF w
  <2>a. w \in Entry
    BY <2>2
  <2>3. /\ queued_paths' \in {queued_paths, queued_paths + 1}
        /\ exec_cksum'[w] # {} /\ cal_failed'[w] = 0
    <3>1. CASE DryRunCalibrated \/ Recalibrated
      <4>1. PICK first \in Traces :
              /\ first # {}
              /\ exec_cksum' = [exec_cksum EXCEPT ![cur] = first]
              /\ cal_failed' = [cal_failed EXCEPT ![cur] = 0]
        BY <3>1 DEF DryRunCalibrated, Recalibrated, CalibrateOK,
           FailuresCleared
      <4>2. UNCHANGED queued_paths
        BY <3>1 DEF DryRunCalibrated, Recalibrated
      <4> QED
        BY <2>2, <2>a, <4>1, <4>2
    <3>2. CASE DryRunSkip \/ DryRunStopped
      <4>1. cur # w
        <5>1. pc = "dry" /\ cur \in Queue
          BY <3>2 DEF DryRunSkip, DryRunStopped
        <5>2. exec_cksum[cur] = {}
          BY <5>1 DEF Settled, Fresh
        <5> QED
          BY <2>2, <5>2
      <4> QED
        <5>1. PICK first \in Traces \cup {{}} :
                exec_cksum' = [exec_cksum EXCEPT ![cur] = first]
          BY <3>2 DEF DryRunSkip, DryRunStopped, CalibrateAborted
        <5>2. cal_failed'[w] = cal_failed[w] /\ UNCHANGED queued_paths
          BY <2>a, <3>2, <4>1 DEF DryRunSkip, DryRunStopped, CalibrateAborted
        <5> QED
          BY <2>2, <2>a, <4>1, <5>1, <5>2
    <3>3. CASE RecalibrationFailed
      <4>1. cur # w
        BY <2>2, <3>3 DEF RecalibrationFailed, Position
      <4> QED
        BY <2>2, <2>a, <3>3, <4>1 DEF RecalibrationFailed, CalibrateAborted
    <3>4. CASE TrimUnchanged \/ TrimShrinks \/ ScoreReturn \/ AbandonEntry
      BY <2>2, <3>4 DEF TrimUnchanged, TrimShrinks, ScoreReturn, AbandonEntry
    <3>5. CASE FindCalibrated
      <4>1. PICK first \in Traces :
              /\ first # {}
              /\ exec_cksum' = [exec_cksum EXCEPT ![queued_paths + 1] = first]
              /\ cal_failed' = [cal_failed EXCEPT ![queued_paths + 1] = 0]
        BY <3>5 DEF FindCalibrated, CalibrateOK, FailuresCleared
      <4>2. queued_paths' = queued_paths + 1
        BY <3>5 DEF FindCalibrated, AddToQueue
      <4> QED
        BY <2>2, <2>a, <4>1, <4>2
    <3>6. CASE FindNotCalibrated
      <4>1. PICK first \in Traces :
              /\ exec_cksum' = [exec_cksum EXCEPT ![queued_paths + 1] = first]
              /\ cal_failed' = [cal_failed EXCEPT ![queued_paths + 1] = 1]
        BY <3>6 DEF FindNotCalibrated
      <4>2. queued_paths' = queued_paths + 1 /\ w # queued_paths + 1
        BY <2>2, <3>6 DEF FindNotCalibrated, AddToQueue
      <4> QED
        BY <2>2, <2>a, <4>1, <4>2
    <3>7. CASE UNCHANGED <<queued_paths, entryVars>>
      BY <2>2, <3>7 DEF entryVars
    <3> QED
      BY <3>1, <3>2, <3>3, <3>4, <3>5, <3>6, <3>7, Frames
  <2>4. w \in 1 .. queued_paths'
    <3>1. queued_paths \in Nat
      OBVIOUS
    <3> HIDE DEF IInv, TypeOK
    <3> QED
      BY <2>2, <2>3, <3>1
  <2> QED
    BY <2>1, <2>3, <2>4
<1> QED
  BY <1>1, <1>2

-----------------------------------------------------------------------------
(* The counters of pending entries.                                        *)

LEMMA PendingStep ==
  IInv /\ [Next]_vars => PendingFavoredCovers' /\ PendingNotFuzzedExact'
<1> SUFFICES ASSUME IInv, [Next]_vars
             PROVE  PendingFavoredCovers' /\ PendingNotFuzzedExact'
  OBVIOUS
<1> USE SizesAssumption DEF IInv, TypeOK, QueueTypeOK, CullTypeOK, PendingTypeOK,
        PendingFavoredCovers, PendingNotFuzzedExact, Queue, Entry
<1>1. /\ IsFiniteSet(PendingFavored) /\ Cardinality(PendingFavored) \in Nat
      /\ IsFiniteSet(NeverFuzzed) /\ Cardinality(NeverFuzzed) \in Nat
  BY QueueFinite
<1>2. CASE FindCalibrated \/ FindNotCalibrated
  <2>1. /\ queued_paths' = queued_paths + 1 /\ queued_paths + 1 \in Entry \ Queue
        /\ pending_not_fuzzed' = pending_not_fuzzed + 1
        /\ UNCHANGED <<was_fuzzed, favored, pending_favored>>
    BY <1>2 DEF FindCalibrated, FindNotCalibrated, AddToQueue, cullVars
  <2>2. ~was_fuzzed[queued_paths + 1] /\ ~favored[queued_paths + 1]
    BY <2>1 DEF Blank
  <2>a. Queue' = Queue \cup {queued_paths + 1}
    <3>1. queued_paths \in Nat
      OBVIOUS
    <3>2. 1 .. (queued_paths + 1) = (1 .. queued_paths) \cup {queued_paths + 1}
      BY <3>1
    <3> QED
      BY <2>1, <3>2
  <2>3. PendingFavored' = PendingFavored
    <3>1. PendingFavored' = {e \in Queue' : favored[e] /\ ~was_fuzzed[e]}
      BY <2>1 DEF PendingFavored
    <3> QED
      BY <2>2, <2>a, <3>1 DEF PendingFavored
  <2>4. NeverFuzzed' = NeverFuzzed \cup {queued_paths + 1}
    <3>1. NeverFuzzed' = {e \in Queue' : ~was_fuzzed[e]}
      BY <2>1 DEF NeverFuzzed
    <3> QED
      BY <2>2, <2>a, <3>1 DEF NeverFuzzed
  <2>5. queued_paths + 1 \notin NeverFuzzed
    BY DEF NeverFuzzed
  <2>6. Cardinality(NeverFuzzed') = Cardinality(NeverFuzzed) + 1
    BY <1>1, <2>4, <2>5, FS_AddElement
  <2> QED
    BY <2>1, <2>3, <2>6
<1>3. CASE AbandonEntry
  <2> DEFINE q == queue_cur
  <2>1. q \in Queue
    BY <1>3 DEF AbandonEntry, Position, InFuzzOne
  <2>2. UNCHANGED <<queued_paths, favored>>
    BY <1>3 DEF AbandonEntry, cullVars
  <2>3. CASE FirstTime(q)
    <3>1. /\ was_fuzzed' = [was_fuzzed EXCEPT ![q] = TRUE] /\ ~was_fuzzed[q]
          /\ pending_not_fuzzed' = pending_not_fuzzed - 1
          /\ pending_favored' = IF favored[q] THEN pending_favored - 1
                                ELSE pending_favored
      BY <1>3, <2>3 DEF AbandonEntry, FirstTime, OneFewerFavored
    <3>2. NeverFuzzed' = NeverFuzzed \ {q} /\ q \in NeverFuzzed
      BY <2>1, <2>2, <3>1 DEF NeverFuzzed
    <3>3. /\ PendingFavored' = PendingFavored \ {q}
          /\ q \in PendingFavored <=> favored[q]
      BY <2>1, <2>2, <3>1 DEF PendingFavored
    <3>4. Cardinality(NeverFuzzed') = Cardinality(NeverFuzzed) - 1
      BY <1>1, <3>2, FS_RemoveElement
    <3>5. Cardinality(PendingFavored') =
            IF favored[q] THEN Cardinality(PendingFavored) - 1
            ELSE Cardinality(PendingFavored)
      BY <1>1, <3>3, FS_RemoveElement
    <3> QED
      BY <1>1, <3>1, <3>4, <3>5
  <2>4. CASE ~FirstTime(q)
    <3>1. UNCHANGED <<was_fuzzed, pending_favored, pending_not_fuzzed>>
      BY <1>3, <2>4 DEF AbandonEntry, pending
    <3> QED
      BY <2>2, <3>1 DEF PendingFavored, NeverFuzzed
  <2> QED
    BY <2>3, <2>4
<1>4. CASE CullStart
  <2>1. /\ UNCHANGED <<queued_paths, was_fuzzed, pending_not_fuzzed>>
        /\ favored' = [e \in Entry |-> FALSE] /\ pending_favored' = 0
    BY <1>4 DEF CullStart, entryVars
  <2>2. PendingFavored' = {} /\ NeverFuzzed' = NeverFuzzed
    BY <2>1 DEF PendingFavored, NeverFuzzed
  <2> QED
    BY <2>1, <2>2, FS_EmptySet
<1>5. CASE CullByte
  <2> DEFINE w == top_rated[idx]
  <2>1. UNCHANGED <<queued_paths, was_fuzzed, pending_not_fuzzed>>
    BY <1>5 DEF CullByte, entryVars
  <2>2. NeverFuzzed' = NeverFuzzed
    BY <2>1 DEF NeverFuzzed
  <2>3. CASE w # None /\ idx \in temp_v
    <3>1. w \in Queue
      BY <1>5, <2>3 DEF CullByte, WinnersCalibrated
    <3>2. /\ favored' = [favored EXCEPT ![w] = TRUE]
          /\ pending_favored' = IF was_fuzzed[w] THEN pending_favored
                                ELSE pending_favored + 1
      BY <1>5, <2>3 DEF CullByte
    <3>3. PendingFavored' = IF was_fuzzed[w] THEN PendingFavored
                            ELSE PendingFavored \cup {w}
      BY <2>1, <3>1, <3>2 DEF PendingFavored
    <3> HIDE DEF w
    <3>4. Cardinality(PendingFavored \cup {w}) =
            IF w \in PendingFavored THEN Cardinality(PendingFavored)
            ELSE Cardinality(PendingFavored) + 1
      BY <1>1, FS_AddElement
    <3>5. PendingFavoredCovers'
      <4>1. CASE was_fuzzed[w]
        BY <1>1, <3>2, <3>3, <4>1
      <4>2. CASE ~was_fuzzed[w]
        BY <1>1, <3>2, <3>3, <3>4, <4>2
      <4> QED
        BY <4>1, <4>2
    <3>6. PendingNotFuzzedExact'
      BY <2>1, <2>2
    <3> QED
      BY <3>5, <3>6
  <2>4. CASE ~(w # None /\ idx \in temp_v)
    <3>1. UNCHANGED <<favored, pending_favored>>
      BY <1>5, <2>4 DEF CullByte
    <3> QED
      BY <2>1, <2>2, <3>1 DEF PendingFavored
  <2> QED
    BY <2>3, <2>4
<1>6. CASE ~(CullStart \/ CullByte \/ AbandonEntry
             \/ FindCalibrated \/ FindNotCalibrated)
  <2>1. UNCHANGED <<queued_paths, was_fuzzed, favored, pending_favored,
                    pending_not_fuzzed>>
    BY <1>6, Frames DEF DryRunCalibrated, DryRunSkip, DryRunStopped,
       Recalibrated, RecalibrationFailed, TrimUnchanged, TrimShrinks,
       ScoreReturn, CullMark, entryVars, cullVars, pending
  <2> QED
    BY <2>1 DEF PendingFavored, NeverFuzzed
<1> QED
  BY <1>2, <1>3, <1>4, <1>5, <1>6

-----------------------------------------------------------------------------
(* The initial state.                                                      *)

LEMMA InitInvariant == Init => IInv
<1> SUFFICES ASSUME Init PROVE IInv
  OBVIOUS
<1> USE SizesAssumption DEF Init
<1>1. TypeOK
  <2>1. QueueTypeOK
    BY DEF QueueTypeOK
  <2>2. ScoreTypeOK
    BY DEF ScoreTypeOK
  <2>3. CullTypeOK /\ PendingTypeOK
    BY DEF CullTypeOK, PendingTypeOK
  <2>4. ControlTypeOK
    <3>1. cur \in 1 .. MaxQueue + 1 /\ idx \in 0 .. MapSize
      OBVIOUS
    <3>2. pc \in Location /\ ret \in Caller
      BY DEF Location, Caller
    <3> QED
      BY <3>1, <3>2 DEF ControlTypeOK
  <2> QED
    BY <2>1, <2>2, <2>3, <2>4 DEF TypeOK
<1>2. Position /\ Settled /\ Blank
  BY DEF Position, InFuzzOne, Settled, Fresh, Blank, Queue, Entry, None
<1>3. RefCountExact
  <2>1. ASSUME NEW e \in Entry PROVE WonBy(e) = {}
    BY DEF WonBy, Entry, None
  <2> QED
    BY <2>1, FS_EmptySet DEF RefCountExact
<1>4. MiniIffReferenced /\ WinnersCalibrated
  BY DEF MiniIffReferenced, WinnersCalibrated, Entry, None
<1>5. PendingFavoredCovers
  <2>1. PendingFavored = {}
    BY DEF PendingFavored, Queue, Entry
  <2> QED
    BY <2>1, FS_EmptySet DEF PendingFavoredCovers
<1>6. PendingNotFuzzedExact
  <2>1. NeverFuzzed = 1 .. InitialEntries
    BY DEF NeverFuzzed, Queue, Entry
  <2>2. Cardinality(1 .. InitialEntries) = InitialEntries
    BY FS_Interval
  <2> QED
    BY <2>1, <2>2 DEF PendingNotFuzzedExact
<1> QED
  BY <1>1, <1>2, <1>3, <1>4, <1>5, <1>6 DEF IInv

(* Every step preserves the inductive invariant.                           *)
LEMMA NextInvariant == IInv /\ [Next]_vars => IInv'
<1> SUFFICES ASSUME IInv, [Next]_vars PROVE IInv'
  OBVIOUS
<1>1. TypeOK'
  BY QueueTypeStep, ScoreTypeStep, CullTypeStep, PendingTypeStep,
     ControlTypeStep DEF TypeOK
<1> QED
  BY <1>1, PositionStep, SettledStep, BlankStep, RefCountStep, MiniStep,
     WinnersStep, PendingStep DEF IInv

(* IInv holds in every reachable state of the corpus, for every map size,  *)
(* queue length and choice of traces.                                      *)
THEOREM Inductive == Spec => []IInv
  BY InitInvariant, NextInvariant, PTL DEF Spec

(* The type invariant of the corpus: cal_failed stays within CAL_CHANCES   *)
(* and no counter or reference count of the code drops below zero.         *)
THEOREM TypeCorrect == Spec => []TypeOK
<1>1. IInv => TypeOK
  BY DEF IInv
<1> QED
  BY <1>1, Inductive, PTL

(* update_bitmap_score keeps tc_ref equal to the number of bytes an entry  *)
(* wins, also when it scores an entry again that wins bytes already.       *)
THEOREM RefCountsExact == Spec => []RefCountExact
<1>1. IInv => RefCountExact
  BY DEF IInv
<1> QED
  BY <1>1, Inductive, PTL

(* trace_mini is allocated exactly while an entry wins a byte: cull_queue  *)
(* never reads a trace that was freed, and none is kept for nothing.       *)
THEOREM MiniTracesKept == Spec => []MiniIffReferenced
<1>1. IInv => MiniIffReferenced
  BY DEF IInv
<1> QED
  BY <1>1, Inductive, PTL

(* Only calibrated entries win bytes: a favored entry is never one that    *)
(* fuzz_one would abandon for a failed calibration.                        *)
THEOREM WinnersAreCalibrated == Spec => []WinnersCalibrated
<1>1. IInv => WinnersCalibrated
  BY DEF IInv
<1> QED
  BY <1>1, Inductive, PTL

(* pending_favored never falls below the favored entries that wait, and    *)
(* pending_not_fuzzed counts exactly the entries never fuzzed.             *)
THEOREM PendingCounts == Spec => [](PendingFavoredCovers /\ PendingNotFuzzedExact)
<1>1. IInv => PendingFavoredCovers /\ PendingNotFuzzedExact
  BY DEF IInv
<1> QED
  BY <1>1, Inductive, PTL

-----------------------------------------------------------------------------
(* cull_queue covers the map.  Covering says how far its loop has come:    *)
(* the bytes gone from temp_v are covered by favored entries, and the      *)
(* winners of the others are favored as far as the loop has gone.          *)

Covered ==
  /\ \A b \in Byte : top_rated[b] # None =>
       \E e \in Queue : favored[e] /\ (b \in trace_mini[e] \/ top_rated[b] = e)
  /\ \A e \in Queue : ~(favored[e] /\ fs_redundant[e])

Culling ==
  /\ ~score_changed
  /\ \A b \in Byte \ temp_v : \E e \in Queue : favored[e] /\ b \in trace_mini[e]
  /\ \A b \in temp_v : b < idx /\ top_rated[b] # None => favored[top_rated[b]]
  /\ \A e \in Queue : favored[e] => trace_mini[e] \cap temp_v = {}

Covering ==
  /\ pc = "cull" => Culling
  /\ (pc # "cull" /\ ~score_changed) => Covered

(* The steps into, in and out of cull_queue.                               *)
LEMMA CullFrames ==
  ASSUME TypeOK, [Next]_vars
  PROVE  /\ (pc # "cull" /\ pc' = "cull") => CullStart
         /\ pc = "cull" => \/ CullByte \/ CullMark
                           \/ UNCHANGED <<scoreVars, cullVars, queued_paths, idx, pc>>
<1>1. CASE DryRun
  BY <1>1 DEF DryRun, DryRunCalibrated, DryRunSkip, DryRunStopped, DryRunDone, CalibrateOK
<1>2. CASE Score
  BY <1>2 DEF Score, ScoreByte, ScoreReturn, Caller, TypeOK, ControlTypeOK
<1>3. CASE Cull
  BY <1>3 DEF Cull, CullNothing, CullStart, CullByte, CullMark
<1>4. CASE MainLoop
  BY <1>4 DEF MainLoop, StopBeforeLoop, SelectFirst, SelectNext, Advance
<1>5. CASE FuzzOne
  BY <1>5 DEF FuzzOne, FuzzOneSkip, FuzzOneStart, Recalibrated, RecalibrationFailed,
     CalibrationGivenUp, TrimUnchanged, TrimShrinks, StagesEnd, AbandonEntry, CalibrateOK
<1>6. CASE Finds
  BY <1>6 DEF Finds, FindCalibrated, FindNotCalibrated, SyncEnd, CalibrateOK
<1>7. CASE Fatal \/ HandleStop
  BY <1>7 DEF Fatal, HandleStop, loopVars
<1>8. CASE Terminated \/ UNCHANGED vars
  BY <1>8 DEF Terminated, vars, loopVars
<1> QED
  BY <1>1, <1>2, <1>3, <1>4, <1>5, <1>6, <1>7, <1>8 DEF Next, Work

LEMMA CoveringStep ==
  ASSUME IInv, Covering, [Next]_vars
  PROVE  Covering'
<1>0. TypeOK /\ Blank /\ WinnersCalibrated /\ ScoreTypeOK /\ CullTypeOK /\ QueueTypeOK
  BY DEF IInv, TypeOK
<1>1. Queue \subseteq Queue' /\ Queue' \subseteq Entry
  <2>1. queued_paths' = queued_paths \/ queued_paths' = queued_paths + 1
    BY Frames DEF DryRunCalibrated, DryRunSkip, DryRunStopped, Recalibrated,
       RecalibrationFailed, TrimUnchanged, TrimShrinks, ScoreReturn,
       AbandonEntry, FindCalibrated, FindNotCalibrated, AddToQueue
  <2>2. QueueTypeOK' /\ queued_paths \in Nat /\ queued_paths' \in Nat
    BY <1>0, QueueTypeStep, SizesAssumption DEF QueueTypeOK
  <2> QED
    BY <2>1, <2>2, SizesAssumption DEF Queue, Entry, QueueTypeOK
<1>2. CASE CullStart
  <2>1. /\ pc' = "cull" /\ idx' = 0 /\ temp_v' = Byte /\ ~score_changed'
        /\ \A e \in Entry : ~favored'[e]
    BY <1>2 DEF CullStart, FreshTemp
  <2>2. \A b \in Byte : ~(b < 0)
    BY SizesAssumption DEF Byte
  <2> QED
    BY <1>1, <2>1, <2>2 DEF Covering, Culling
<1>3. CASE CullByte
  <2>1. /\ pc = "cull" /\ pc' = "cull" /\ idx \in Byte /\ idx' = idx + 1
        /\ UNCHANGED <<queued_paths, trace_mini, top_rated, score_changed>>
    BY <1>3 DEF CullByte, scoreVars
  <2>2. Culling /\ Queue' = Queue /\ Queue \subseteq Entry
    BY <1>1, <2>1 DEF Covering, Queue
  <2>3. CASE top_rated[idx] # None /\ idx \in temp_v
    <3>1. PICK e \in Queue : e = top_rated[idx] /\ e \in Entry
      BY <1>0, <2>1, <2>2, <2>3 DEF WinnersCalibrated
    <3>2. temp_v' = temp_v \ trace_mini[e] /\ favored' = [favored EXCEPT ![e] = TRUE]
      BY <1>3, <2>3, <3>1 DEF CullByte, Uncovered
    <3>3. favored'[e] /\ \A q \in Entry : favored[q] => favored'[q]
      BY <1>0, <3>1, <3>2 DEF CullTypeOK
    <3>4. ASSUME NEW b \in Byte \ temp_v'
          PROVE  \E q \in Queue : favored'[q] /\ b \in trace_mini[q]
      BY <2>2, <3>1, <3>2, <3>3 DEF Culling
    <3>5. ASSUME NEW b \in temp_v', b < idx + 1, top_rated[b] # None
          PROVE  favored'[top_rated[b]]
      <4>1. b \in Byte /\ idx \in Int /\ b \in Int /\ b \in temp_v
        <5>1. b \in temp_v /\ b \in Byte
          BY <1>0, <3>2, <3>5 DEF CullTypeOK
        <5> QED
          BY <2>1, <5>1 DEF Byte
      <4>2. b < idx \/ b = idx
        BY <3>5, <4>1
      <4>3. top_rated[b] \in Entry
        BY <1>0, <3>5, <4>1 DEF ScoreTypeOK
      <4> QED
        BY <2>2, <3>1, <3>3, <3>5, <4>1, <4>2, <4>3 DEF Culling
    <3>6. ASSUME NEW q \in Queue, favored'[q]
          PROVE  trace_mini[q] \cap temp_v' = {}
      BY <1>0, <2>2, <3>1, <3>2, <3>6 DEF Culling, CullTypeOK
    <3> QED
      BY <2>1, <2>2, <3>4, <3>5, <3>6 DEF Covering, Culling
  <2>4. CASE ~(top_rated[idx] # None /\ idx \in temp_v)
    <3>1. UNCHANGED <<temp_v, favored>>
      BY <1>3, <2>4 DEF CullByte
    <3>2. ASSUME NEW b \in temp_v, b < idx + 1, top_rated[b] # None
          PROVE  favored[top_rated[b]]
      <4>1. b \in Int /\ idx \in Int
        BY <1>0, <2>1 DEF CullTypeOK, Byte
      <4>2. b < idx \/ b = idx
        BY <3>2, <4>1
      <4> QED
        BY <2>2, <2>4, <3>2, <4>2 DEF Culling
    <3> QED
      BY <2>1, <2>2, <3>1, <3>2 DEF Covering, Culling
  <2> QED
    BY <2>3, <2>4
<1>4. CASE CullMark
  <2>1. /\ pc = "cull" /\ pc' = "select" /\ idx = MapSize
        /\ fs_redundant' = [e \in Entry |-> e \in Queue /\ ~favored[e]]
        /\ UNCHANGED <<queued_paths, trace_mini, top_rated, score_changed, favored, temp_v>>
    BY <1>4 DEF CullMark, scoreVars
  <2>2. Culling /\ Queue' = Queue /\ Queue \subseteq Entry
    BY <1>1, <2>1 DEF Covering, Queue
  <2>3. \A b \in Byte : b < idx
    BY <2>1, SizesAssumption DEF Byte
  <2>4. ASSUME NEW b \in Byte, top_rated[b] # None
        PROVE  \E e \in Queue : favored[e] /\ (b \in trace_mini[e] \/ top_rated[b] = e)
    BY <1>0, <2>2, <2>3, <2>4 DEF Culling, WinnersCalibrated
  <2>5. \A e \in Queue : ~(favored[e] /\ fs_redundant'[e])
    BY <2>1, <2>2
  <2> QED
    BY <2>1, <2>2, <2>4, <2>5 DEF Covering, Covered
<1>5. CASE ScoreByte
  <2>1. CASE Wins(cur, idx)
    BY <1>5, <2>1 DEF ScoreByte, Covering
  <2>2. CASE ~Wins(cur, idx)
    BY <1>5, <2>2 DEF ScoreByte, Covering, Covered, Queue, scoreVars, cullVars
  <2> QED
    BY <2>1, <2>2
<1>6. CASE ~(CullStart \/ CullByte \/ CullMark \/ ScoreByte)
  <2>1. UNCHANGED <<scoreVars, cullVars>>
    BY <1>6, Frames
  <2>2. CASE pc = "cull"
    BY <1>0, <1>6, <2>2, CullFrames DEF Covering, Culling, Queue, scoreVars, cullVars
  <2>3. CASE pc # "cull"
    <3>1. pc' # "cull"
      BY <1>0, <1>6, <2>3, CullFrames
    <3>2. ASSUME ~score_changed PROVE Covered'
      <4>1. Covered /\ UNCHANGED <<trace_mini, top_rated, favored, fs_redundant>>
        BY <2>1, <2>3, <3>2 DEF Covering, scoreVars, cullVars
      <4>2. \A e \in Queue' : favored[e] => e \in Queue
        BY <1>0, <1>1 DEF Blank
      <4> QED
        BY <1>1, <4>1, <4>2 DEF Covered
    <3> QED
      BY <2>1, <3>1, <3>2 DEF Covering, scoreVars
  <2> QED
    BY <2>2, <2>3
<1> QED
  BY <1>2, <1>3, <1>4, <1>5, <1>6

(* cull_queue picks favored entries that reach every byte with a winner,   *)
(* and flags none of them as redundant; its choice holds until a byte gets *)
(* another winner.                                                         *)
THEOREM FavoredCoverMap == Spec => []CullCovers
<1>1. Init => Covering
  BY SizesAssumption DEF Init, Covering, Covered, Byte, Entry, Queue, None
<1>2. IInv /\ Covering /\ [Next]_vars => Covering'
  BY CoveringStep
<1>3. Covering => CullCovers
  BY DEF Covering, Covered, CullCovers, Culled
<1> QED
  BY <1>1, <1>2, <1>3, Inductive, PTL DEF Spec

-----------------------------------------------------------------------------
(* pending_favored is exact.  An entry can hold bytes outside its          *)
(* trace_mini only after it was scored twice, and trim_case, which does    *)
(* that, is on the way to was_fuzzed or to the end of the program.         *)

Trimming(e) ==
  /\ e = queue_cur
  /\ \/ pc \in {"stages", "done", "abandon", "exit"}
     \/ pc = "score" /\ ret \in {"trim", "stages"}
     \/ pc = "advance" /\ stop_soon

Tidy ==
  /\ \A b \in Byte, e \in Entry : top_rated[b] = e =>
       was_fuzzed[e] \/ b \in trace_mini[e] \/ Trimming(e)
  /\ pc \in {"calibrate", "trim"} => cur = queue_cur
  /\ (pc = "score" /\ ret \in {"calibrate", "trim"}) => cur = queue_cur
  /\ (pc = "score" /\ ret # "trim") => trace_mini[cur] = {} \/ trace_mini[cur] = trace_bits

Exact == pending_favored = Cardinality(PendingFavored)

(* What the thread knows of the entry it is trimming.                      *)
LEMMA TrimmingFrames ==
  ASSUME IInv, Tidy, [Next]_vars
  PROVE  /\ \A e : Trimming(e) => AbandonEntry \/ Trimming(e)'
         /\ pc' \in {"calibrate", "trim"} => cur' = queue_cur'
         /\ (pc' = "score" /\ ret' \in {"calibrate", "trim"}) => cur' = queue_cur'
         /\ pc' = "score" =>
              \/ DryRunCalibrated \/ Recalibrated \/ FindCalibrated \/ ret' = "trim"
              \/ pc = "score" /\ UNCHANGED <<cur, ret, trace_bits>>
<1> USE DEF Trimming, mainVars, loopVars
<1>0. ret \in Caller /\ cycling \in BOOLEAN
  BY DEF IInv, TypeOK, ControlTypeOK
<1>1. CASE DryRun
  BY <1>1 DEF DryRun, DryRunCalibrated, DryRunSkip, DryRunStopped, DryRunDone, CalibrateOK
<1>2. CASE ScoreByte
  BY <1>2 DEF ScoreByte, Tidy
<1>3. CASE ScoreReturn
  <2>1. /\ pc = "score" /\ UNCHANGED <<queue_cur, stop_soon>>
        /\ cur' = IF ret = "dry" THEN cur + 1 ELSE cur
        /\ pc' = CASE ret = "dry" -> IF stop_soon THEN "main" ELSE "dry"
                   [] ret = "calibrate" -> IF stop_soon THEN "abandon" ELSE "trim"
                   [] ret = "trim" -> IF stop_soon THEN "abandon" ELSE "stages"
                   [] OTHER -> ret
    BY <1>3 DEF ScoreReturn
  <2>2. CASE ret = "dry"
    BY <2>1, <2>2
  <2>3. CASE ret = "calibrate"
    BY <2>1, <2>3 DEF Tidy
  <2>4. CASE ret = "trim"
    BY <2>1, <2>4
  <2>5. CASE ret \notin {"dry", "calibrate", "trim"}
    <3>1. pc' = ret
      BY <2>1, <2>5
    <3> QED
      BY <1>0, <2>1, <2>5, <3>1 DEF Caller
  <2> QED
    BY <2>2, <2>3, <2>4, <2>5
<1>4. CASE Cull
  BY <1>4 DEF Cull, CullNothing, CullStart, CullByte, CullMark
<1>5. CASE MainLoop
  BY <1>5 DEF MainLoop, StopBeforeLoop, SelectFirst, SelectNext, Advance
<1>6. CASE FuzzOneSkip \/ FuzzOneStart
  BY <1>6 DEF FuzzOneSkip, FuzzOneStart
<1>7. CASE Recalibrated \/ RecalibrationFailed \/ CalibrationGivenUp
  BY <1>7 DEF Recalibrated, RecalibrationFailed, CalibrationGivenUp, CalibrateOK, Tidy
<1>8. CASE TrimUnchanged \/ TrimShrinks
  BY <1>8 DEF TrimUnchanged, TrimShrinks, Tidy
<1>9. CASE StagesEnd \/ AbandonEntry
  BY <1>9 DEF StagesEnd, AbandonEntry
<1>10. CASE Finds
  BY <1>10 DEF Finds, FindCalibrated, FindNotCalibrated, SyncEnd, CalibrateOK, Tidy
<1>11. CASE Fatal \/ HandleStop
  BY <1>11 DEF Fatal, HandleStop, Tidy
<1>12. CASE Terminated \/ UNCHANGED vars
  BY <1>12 DEF Terminated, vars, Tidy
<1> QED
  BY <1>1, <1>2, <1>3, <1>4, <1>5, <1>6, <1>7, <1>8, <1>9, <1>10, <1>11, <1>12
     DEF Next, Work, Score, FuzzOne

(* An entry that is calibrated for the first time wins nothing yet.        *)
LEMMA CalibratedOwnsNothing ==
  ASSUME IInv, DryRunCalibrated \/ Recalibrated \/ FindCalibrated
  PROVE  cur' \in Entry /\ trace_mini[cur'] = {} /\ trace_mini' = trace_mini
<1>0. /\ MiniIffReferenced /\ WinnersCalibrated /\ Settled /\ Position /\ QueueTypeOK
      /\ UNCHANGED trace_mini /\ Queue \subseteq Entry
  BY SizesAssumption DEF IInv, TypeOK, QueueTypeOK, Queue, Entry, DryRunCalibrated, Recalibrated, FindCalibrated, scoreVars
<1>1. CASE DryRunCalibrated
  <2>1. cur' = cur /\ cur \in Queue /\ pc = "dry"
    BY <1>1 DEF DryRunCalibrated, CalibrateOK
  <2>2. cur \in Int
    BY <2>1 DEF Queue
  <2>3. Fresh(cur)
    BY <1>0, <2>1, <2>2 DEF Settled
  <2> QED
    <3>1. cur \in Entry /\ cur # None /\ exec_cksum[cur] = {}
      BY <1>0, <2>1, <2>3 DEF Fresh, Queue, None
    <3>2. \A b \in Byte : top_rated[b] # cur
      BY <1>0, <3>1 DEF WinnersCalibrated
    <3> QED
      BY <1>0, <2>1, <3>1, <3>2 DEF MiniIffReferenced
<1>2. CASE Recalibrated
  <2>1. cur' = cur /\ cur \in Queue /\ cal_failed[cur] # 0
    BY <1>0, <1>2 DEF Recalibrated, CalibrateOK, Position
  <2>2. cur \in Entry /\ cur # None
    BY <1>0, <2>1, SizesAssumption DEF Queue, QueueTypeOK, Entry, None
  <2>3. \A b \in Byte : top_rated[b] # cur
    BY <1>0, <2>1, <2>2 DEF WinnersCalibrated
  <2> QED
    BY <1>0, <2>1, <2>2, <2>3 DEF MiniIffReferenced
<1>3. CASE FindCalibrated
  <2>1. cur' = queued_paths + 1 /\ queued_paths + 1 \in Entry
    BY <1>0, <1>3, SizesAssumption DEF FindCalibrated, CalibrateOK, AddToQueue, QueueTypeOK, Entry
  <2>2. queued_paths + 1 \notin Queue /\ queued_paths + 1 # None
    BY <1>0, SizesAssumption DEF QueueTypeOK, Queue, None
  <2> QED
    BY <1>0, <2>1, <2>2 DEF WinnersCalibrated, MiniIffReferenced
<1> QED
  BY <1>1, <1>2, <1>3

LEMMA TidyStep ==
  ASSUME IInv, Tidy, [Next]_vars
  PROVE  Tidy'
<1>0. /\ TypeOK /\ ScoreTypeOK /\ QueueTypeOK /\ MiniIffReferenced /\ WinnersCalibrated
      /\ MiniIffReferenced'
  BY MiniStep DEF IInv, TypeOK
<1>1. /\ pc' \in {"calibrate", "trim"} => cur' = queue_cur'
      /\ (pc' = "score" /\ ret' \in {"calibrate", "trim"}) => cur' = queue_cur'
  BY TrimmingFrames
<1>2. CASE ScoreByte /\ Wins(cur, idx)
  <2>1. /\ pc = "score" /\ pc' = "score" /\ idx \in Byte /\ cur \in Entry
        /\ trace_mini' = [MiniDropped(idx) EXCEPT ![cur] = IF @ = {} THEN trace_bits ELSE @]
        /\ top_rated' = [top_rated EXCEPT ![idx] = cur] /\ idx \in trace_bits
        /\ UNCHANGED <<was_fuzzed, trace_bits, cur, ret, queue_cur, stop_soon>>
    BY <1>2, WinnerChange DEF ScoreByte, Wins, entryVars, mainVars
  <2>2. /\ trace_mini'[cur] = IF MiniDropped(idx)[cur] = {} THEN trace_bits ELSE MiniDropped(idx)[cur]
        /\ \A e \in Entry \ {cur} : trace_mini'[e] = MiniDropped(idx)[e]
    BY <2>1 DEF MiniDropped
  <2>3. \A e \in Entry : MiniDropped(idx)[e] = {} \/ MiniDropped(idx)[e] = trace_mini[e]
    BY DEF MiniDropped
  <2>4. ret # "trim" => trace_mini'[cur] = trace_bits
    BY <2>1, <2>2, <2>3 DEF Tidy
  <2>5. ASSUME NEW b \in Byte, NEW e \in Entry, top_rated'[b] = e
        PROVE  was_fuzzed'[e] \/ b \in trace_mini'[e] \/ Trimming(e)'
    <3>1. e = top_rated'[b]
      BY <2>5
    <3>2. CASE e = cur
      <4>1. CASE ret = "trim"
        BY <2>1, <3>1, <3>2, <4>1 DEF Tidy, Trimming
      <4>2. CASE ret # "trim"
        <5>1. CASE b = idx
          BY <2>1, <2>4, <3>1, <3>2, <4>2, <5>1
        <5>2. CASE b # idx
          <6>1. top_rated[b] = cur
            BY <1>0, <2>1, <3>1, <3>2, <5>2 DEF ScoreTypeOK
          <6>2. trace_mini[cur] # {}
            BY <1>0, <2>1, <6>1 DEF MiniIffReferenced
          <6>3. trace_mini[cur] = trace_bits
            BY <2>1, <4>2, <6>2 DEF Tidy
          <6>4. was_fuzzed[cur] \/ b \in trace_mini[cur] \/ Trimming(cur)
            BY <2>5, <3>1, <3>2, <6>1 DEF Tidy
          <6> QED
            BY <2>1, <2>4, <3>1, <3>2, <4>2, <6>3, <6>4 DEF Trimming
        <5> QED
          BY <5>1, <5>2
      <4> QED
        BY <4>1, <4>2
    <3>3. CASE e # cur
      <4>1. top_rated[b] = e
        BY <1>0, <2>1, <3>1, <3>3 DEF ScoreTypeOK
      <4>2. trace_mini'[e] # {}
        BY <1>0, <3>1 DEF MiniIffReferenced
      <4>3. trace_mini'[e] = trace_mini[e]
        BY <2>2, <2>3, <3>3, <4>2
      <4>4. was_fuzzed[e] \/ b \in trace_mini[e] \/ Trimming(e)
        BY <2>5, <3>1, <4>1 DEF Tidy
      <4> QED
        BY <2>1, <3>1, <4>3, <4>4 DEF Trimming
    <3> QED
      BY <3>2, <3>3
  <2> QED
    BY <1>1, <2>1, <2>4, <2>5 DEF Tidy
<1>3. CASE ~(ScoreByte /\ Wins(cur, idx))
  <2>1. UNCHANGED <<trace_mini, top_rated>>
    BY <1>3, Frames DEF ScoreByte, CullStart, scoreVars
  <2>2. (pc' = "score" /\ ret' # "trim") => trace_mini'[cur'] = {} \/ trace_mini'[cur'] = trace_bits'
    <3>1. CASE DryRunCalibrated \/ Recalibrated \/ FindCalibrated
      BY <2>1, <3>1, CalibratedOwnsNothing
    <3>2. CASE ~(DryRunCalibrated \/ Recalibrated \/ FindCalibrated)
      BY <2>1, <3>2, TrimmingFrames DEF Tidy
    <3> QED
      BY <3>1, <3>2
  <2>3. ASSUME NEW b \in Byte, NEW e \in Entry, top_rated'[b] = e
        PROVE  was_fuzzed'[e] \/ b \in trace_mini'[e] \/ Trimming(e)'
    <3>1. e = top_rated[b] /\ cal_failed[e] = 0
      <4>1. e # None
        BY DEF Entry, None
      <4> QED
        BY <1>0, <2>1, <2>3, <4>1 DEF WinnersCalibrated
    <3>2. was_fuzzed[e] \/ b \in trace_mini[e] \/ Trimming(e)
      BY <2>1, <2>3, <3>1 DEF Tidy
    <3>3. CASE AbandonEntry
      <4>1. /\ pc' = "advance" \/ (~stop_soon /\ pc' = "sync")
            /\ UNCHANGED <<queue_cur, stop_soon>>
            /\ IF FirstTime(queue_cur) THEN was_fuzzed' = [was_fuzzed EXCEPT ![queue_cur] = TRUE]
               ELSE was_fuzzed' = was_fuzzed
        BY <3>3 DEF AbandonEntry, mainVars
      <4>2. was_fuzzed[e] => was_fuzzed'[e]
        BY <1>0, <3>1, <4>1 DEF QueueTypeOK
      <4>3. ASSUME Trimming(e) PROVE was_fuzzed'[e] \/ Trimming(e)'
        <5>1. e = queue_cur
          BY <4>3 DEF Trimming
        <5>2. CASE stop_soon
          BY <4>1, <5>1, <5>2 DEF Trimming
        <5>3. CASE ~stop_soon
          BY <1>0, <3>1, <4>1, <4>2, <5>1, <5>3 DEF FirstTime, QueueTypeOK
        <5> QED
          BY <5>2, <5>3
      <4> QED
        BY <2>1, <3>2, <4>2, <4>3
    <3>4. CASE ~AbandonEntry
      <4>1. UNCHANGED was_fuzzed
        BY <3>4, Frames DEF DryRunCalibrated, DryRunSkip, DryRunStopped,
           Recalibrated, RecalibrationFailed, TrimUnchanged, TrimShrinks,
           ScoreReturn, FindCalibrated, FindNotCalibrated, entryVars
      <4>2. Trimming(e) => Trimming(e)'
        BY <3>4, TrimmingFrames
      <4> QED
        BY <2>1, <3>2, <4>1, <4>2
    <3> QED
      BY <3>3, <3>4
  <2> QED
    BY <1>1, <2>2, <2>3 DEF Tidy
<1> QED
  BY <1>2, <1>3

LEMMA ExactStep ==
  ASSUME IInv, Tidy, Covering, Exact, [Next]_vars
  PROVE  Exact'
<1>0. /\ TypeOK /\ CullTypeOK /\ QueueTypeOK /\ Position /\ WinnersCalibrated /\ Blank
      /\ IsFiniteSet(PendingFavored) /\ Cardinality(PendingFavored) \in Nat
  BY QueueFinite DEF IInv, TypeOK
<1>1. CASE FindCalibrated \/ FindNotCalibrated
  <2>1. /\ queued_paths' = queued_paths + 1 /\ queued_paths + 1 \in Entry \ Queue
        /\ UNCHANGED <<was_fuzzed, favored, pending_favored>>
    BY <1>0, <1>1, SizesAssumption DEF FindCalibrated, FindNotCalibrated, AddToQueue, cullVars,
       QueueTypeOK, Entry, Queue
  <2>2. ~favored[queued_paths + 1]
    BY <1>0, <2>1 DEF Blank
  <2>3. Queue' = Queue \cup {queued_paths + 1}
    <3>1. queued_paths \in Nat
      BY <1>0, SizesAssumption DEF QueueTypeOK
    <3>2. 1 .. (queued_paths + 1) = (1 .. queued_paths) \cup {queued_paths + 1}
      BY <3>1
    <3> QED
      BY <2>1, <3>2 DEF Queue
  <2>4. PendingFavored' = {e \in Queue' : favored[e] /\ ~was_fuzzed[e]}
    BY <2>1 DEF PendingFavored
  <2>5. PendingFavored' = PendingFavored
    BY <2>2, <2>3, <2>4 DEF PendingFavored
  <2> QED
    BY <2>1, <2>5 DEF Exact
<1>2. CASE AbandonEntry
  <2>1. PICK q \in Queue : q = queue_cur /\ q \in Entry
    BY <1>0, <1>2, SizesAssumption DEF AbandonEntry, Position, InFuzzOne, Queue, Entry, QueueTypeOK
  <2>2. UNCHANGED <<queued_paths, favored>>
    BY <1>2 DEF AbandonEntry, cullVars
  <2>3. CASE FirstTime(q)
    <3>1. /\ was_fuzzed' = [was_fuzzed EXCEPT ![q] = TRUE] /\ ~was_fuzzed[q]
          /\ pending_favored' = IF favored[q] THEN pending_favored - 1 ELSE pending_favored
      BY <1>2, <2>1, <2>3 DEF AbandonEntry, FirstTime, OneFewerFavored
    <3>2. \A e \in Queue : was_fuzzed'[e] <=> was_fuzzed[e] \/ e = q
      <4>1. Queue \subseteq Entry
        BY <1>0, SizesAssumption DEF Queue, Entry, QueueTypeOK
      <4> QED
        BY <1>0, <3>1, <4>1 DEF QueueTypeOK
    <3>3. PendingFavored' = PendingFavored \ {q} /\ (q \in PendingFavored <=> favored[q])
      <4>1. PendingFavored' = {e \in Queue : favored[e] /\ ~was_fuzzed'[e]}
        BY <2>2 DEF PendingFavored, Queue
      <4> QED
        BY <3>1, <3>2, <4>1 DEF PendingFavored
    <3>4. Cardinality(PendingFavored') =
            IF favored[q] THEN Cardinality(PendingFavored) - 1 ELSE Cardinality(PendingFavored)
      BY <1>0, <3>3, FS_RemoveElement
    <3> QED
      BY <3>1, <3>4 DEF Exact
  <2>4. CASE ~FirstTime(q)
    <3>1. UNCHANGED <<was_fuzzed, pending_favored>>
      BY <1>2, <2>1, <2>4 DEF AbandonEntry, pending
    <3> QED
      BY <2>2, <3>1 DEF PendingFavored, Exact, Queue
  <2> QED
    BY <2>3, <2>4
<1>3. CASE CullStart
  <2>1. /\ UNCHANGED <<queued_paths, was_fuzzed>>
        /\ favored' = [e \in Entry |-> FALSE] /\ pending_favored' = 0
    BY <1>3 DEF CullStart, entryVars
  <2>2. PendingFavored' = {}
    <3>1. Queue' \subseteq Entry
      BY <1>0, <2>1, SizesAssumption DEF Queue, Entry, QueueTypeOK
    <3> QED
      BY <2>1, <3>1 DEF PendingFavored
  <2> QED
    BY <2>1, <2>2, FS_EmptySet DEF Exact
<1>4. CASE CullByte
  <2>1. UNCHANGED <<queued_paths, was_fuzzed>> /\ pc = "cull" /\ idx \in Byte
    BY <1>4 DEF CullByte, entryVars
  <2>2. CASE top_rated[idx] # None /\ idx \in temp_v
    <3>1. PICK w \in Queue : w = top_rated[idx] /\ w \in Entry
      BY <1>0, <2>1, <2>2, SizesAssumption DEF WinnersCalibrated, Queue, Entry, QueueTypeOK
    <3>2. /\ favored' = [favored EXCEPT ![w] = TRUE]
          /\ pending_favored' = IF was_fuzzed[w] THEN pending_favored ELSE pending_favored + 1
      BY <1>4, <2>2, <3>1 DEF CullByte
    <3>3. \A e \in Queue : favored'[e] <=> favored[e] \/ e = w
      <4>1. Queue \subseteq Entry
        BY <1>0, SizesAssumption DEF Queue, Entry, QueueTypeOK
      <4> QED
        BY <1>0, <3>1, <3>2, <4>1 DEF CullTypeOK
    <3>4. PendingFavored' = {e \in Queue : favored'[e] /\ ~was_fuzzed[e]}
      BY <2>1 DEF PendingFavored, Queue
    <3>5. CASE was_fuzzed[w]
      <4>1. PendingFavored' = PendingFavored
        BY <3>3, <3>4, <3>5 DEF PendingFavored
      <4> QED
        BY <3>2, <3>5, <4>1 DEF Exact
    <3>6. CASE ~was_fuzzed[w]
      <4>1. idx \in trace_mini[w]
        BY <2>1, <2>2, <3>1, <3>6 DEF Tidy, Trimming
      <4>2. ~favored[w]
        BY <2>1, <2>2, <3>1, <4>1 DEF Covering, Culling
      <4>3. PendingFavored' = PendingFavored \cup {w} /\ w \notin PendingFavored
        BY <3>1, <3>3, <3>4, <3>6, <4>2 DEF PendingFavored
      <4>4. Cardinality(PendingFavored') = Cardinality(PendingFavored) + 1
        BY <1>0, <4>3, FS_AddElement
      <4> QED
        BY <3>2, <3>6, <4>4 DEF Exact
    <3> QED
      BY <3>5, <3>6
  <2>3. CASE ~(top_rated[idx] # None /\ idx \in temp_v)
    <3>1. UNCHANGED <<favored, pending_favored>>
      BY <1>4, <2>3 DEF CullByte
    <3> QED
      BY <2>1, <3>1 DEF PendingFavored, Exact, Queue
  <2> QED
    BY <2>2, <2>3
<1>5. CASE ~(CullStart \/ CullByte \/ AbandonEntry \/ FindCalibrated \/ FindNotCalibrated)
  <2>1. UNCHANGED <<queued_paths, was_fuzzed, favored, pending_favored>>
    BY <1>5, Frames DEF DryRunCalibrated, DryRunSkip, DryRunStopped,
       Recalibrated, RecalibrationFailed, TrimUnchanged, TrimShrinks,
       ScoreReturn, CullMark, entryVars, cullVars, pending
  <2> QED
    BY <2>1 DEF PendingFavored, Exact, Queue
<1> QED
  BY <1>1, <1>2, <1>3, <1>4, <1>5

(* pending_favored is the number of favored entries that wait, for targets *)
(* that are not stable as well.                                            *)
THEOREM PendingFavoredCounts == Spec => []PendingFavoredExact
<1>1. Init => Covering /\ Tidy /\ Exact
  <2> SUFFICES ASSUME Init PROVE Covering /\ Tidy /\ Exact
    OBVIOUS
  <2>1. Covering
    BY SizesAssumption DEF Init, Covering, Covered, Byte, Entry, Queue, None
  <2>2. Tidy
    BY SizesAssumption DEF Init, Tidy, Entry, None
  <2>3. PendingFavored = {}
    BY SizesAssumption DEF Init, PendingFavored, Queue, Entry
  <2> QED
    BY <2>1, <2>2, <2>3, FS_EmptySet DEF Init, Exact
<1>2. IInv /\ Covering /\ Tidy /\ Exact /\ [Next]_vars => Covering' /\ Tidy' /\ Exact'
  BY CoveringStep, TidyStep, ExactStep
<1>3. Exact => PendingFavoredExact
  BY DEF Exact, PendingFavoredExact
<1> QED
  BY <1>1, <1>2, <1>3, Inductive, PTL DEF Spec

-----------------------------------------------------------------------------
(* The winner of a byte is the cheapest entry that reaches it.  With a     *)
(* stable target the trace that is scored is the one the checksum stands   *)
(* for; the bytes the loop has not come to are not decided yet, and an     *)
(* entry that got smaller while the fuzzer was being stopped is not scored *)
(* again, but then cull_queue does not run again either.                   *)

Undecided(e, b) == pc = "score" /\ e = cur /\ b >= idx
Stopping == stop_soon /\ pc \in {"abandon", "advance", "exit"}

Beaten(e, b) ==
  /\ top_rated[b] # None
  /\ fav_factor[top_rated[b]] <= fav_factor[e]

Cheapest ==
  \A e \in Entry, b \in Byte :
    (e \in Queue /\ cal_failed[e] = 0 /\ b \in exec_cksum[e]) =>
      Undecided(e, b) \/ Beaten(e, b)

Best ==
  /\ pc = "score" => trace_bits = exec_cksum[cur]
  /\ Stopping \/ Cheapest

(* What is scored, and when scoring can be left out.                       *)
LEMMA ScoredTrace ==
  ASSUME IInv, Best, StableTarget, [Next]_vars
  PROVE  /\ pc' = "score" => trace_bits' = exec_cksum'[cur']
         /\ Stopping => Stopping'
<1> USE DEF Stopping, mainVars, loopVars, entryVars
<1>0. /\ QueueTypeOK /\ Queue \subseteq Entry /\ Position /\ Best /\ ret \in Caller
      /\ cycling \in BOOLEAN
  BY SizesAssumption DEF IInv, TypeOK, QueueTypeOK, ControlTypeOK, Queue, Entry
<1>1. CASE DryRunCalibrated \/ Recalibrated \/ FindCalibrated
  <2>1. PICK e \in Entry, first \in Traces :
          /\ exec_cksum' = [exec_cksum EXCEPT ![e] = first]
          /\ trace_bits' = first /\ cur' = e
    <3>1. CASE DryRunCalibrated
      BY <1>0, <3>1 DEF DryRunCalibrated, CalibrateOK
    <3>2. CASE Recalibrated
      BY <1>0, <3>2 DEF Recalibrated, CalibrateOK, Position
    <3>3. CASE FindCalibrated
      <4>1. queued_paths + 1 \in Entry
        BY <1>0, <3>3, SizesAssumption DEF FindCalibrated, AddToQueue, QueueTypeOK, Entry
      <4> QED
        BY <3>3, <4>1 DEF FindCalibrated, CalibrateOK
    <3> QED
      BY <1>1, <3>1, <3>2, <3>3
  <2>2. exec_cksum'[e] = first
    BY <1>0, <2>1 DEF QueueTypeOK
  <2>3. ~Stopping
    BY <1>1 DEF DryRunCalibrated, Recalibrated, FindCalibrated
  <2> QED
    BY <2>1, <2>2, <2>3
<1>2. CASE TrimShrinks
  BY <1>2 DEF TrimShrinks
<1>3. CASE ScoreByte
  BY <1>0, <1>3 DEF ScoreByte, Best
<1>4. CASE ScoreReturn
  <2>1. pc' # "score"
    BY <1>0, <1>4 DEF ScoreReturn, Caller
  <2> QED
    BY <1>4, <2>1 DEF ScoreReturn
<1>5. CASE AbandonEntry
  BY <1>5 DEF AbandonEntry
<1>6. CASE DryRunSkip \/ DryRunStopped \/ DryRunDone \/ RecalibrationFailed \/ CalibrationGivenUp
  BY <1>6 DEF DryRunSkip, DryRunStopped, DryRunDone, RecalibrationFailed, CalibrationGivenUp
<1>7. CASE Cull \/ MainLoop
  BY <1>7 DEF Cull, CullNothing, CullStart, CullByte, CullMark,
     MainLoop, StopBeforeLoop, SelectFirst, SelectNext, Advance
<1>8. CASE FuzzOneSkip \/ FuzzOneStart \/ TrimUnchanged \/ StagesEnd
  BY <1>8 DEF FuzzOneSkip, FuzzOneStart, TrimUnchanged, StagesEnd
<1>9. CASE FindNotCalibrated \/ SyncEnd
  BY <1>9 DEF FindNotCalibrated, SyncEnd
<1>10. CASE Fatal \/ HandleStop
  BY <1>0, <1>10 DEF Fatal, HandleStop, Best
<1>11. CASE Terminated \/ UNCHANGED vars
  BY <1>0, <1>11 DEF Terminated, vars, Best
<1> QED
  BY <1>1, <1>2, <1>3, <1>4, <1>5, <1>6, <1>7, <1>8, <1>9, <1>10, <1>11
     DEF Next, Work, DryRun, Score, FuzzOne, Finds

(* The other steps change nothing the contest for a byte looks at.         *)
LEMMA ContestFrames ==
  ASSUME IInv, [Next]_vars
  PROVE  \/ DryRunCalibrated \/ Recalibrated \/ FindCalibrated
         \/ DryRunSkip \/ DryRunStopped \/ RecalibrationFailed
         \/ FindNotCalibrated \/ TrimShrinks \/ ScoreByte \/ ScoreReturn
         \/ /\ UNCHANGED <<queued_paths, exec_cksum, fav_factor, cal_failed, top_rated>>
            /\ pc # "score" \/ UNCHANGED <<pc, cur, idx>>
<1> USE DEF mainVars, loopVars, entryVars, scoreVars
<1>1. CASE DryRunDone \/ CalibrationGivenUp
  BY <1>1 DEF DryRunDone, CalibrationGivenUp
<1>2. CASE Cull
  BY <1>2 DEF Cull, CullNothing, CullStart, CullByte, CullMark
<1>3. CASE MainLoop
  BY <1>3 DEF MainLoop, StopBeforeLoop, SelectFirst, SelectNext, Advance
<1>4. CASE FuzzOneSkip \/ FuzzOneStart \/ TrimUnchanged \/ StagesEnd
  BY <1>4 DEF FuzzOneSkip, FuzzOneStart, TrimUnchanged, StagesEnd
<1>5. CASE AbandonEntry \/ SyncEnd
  BY <1>5 DEF AbandonEntry, SyncEnd
<1>6. CASE Fatal \/ HandleStop
  BY <1>6 DEF Fatal, HandleStop
<1>7. CASE Terminated \/ UNCHANGED vars
  BY <1>7 DEF Terminated, vars
<1> QED
  BY <1>1, <1>2, <1>3, <1>4, <1>5, <1>6, <1>7 DEF Next, Work, DryRun, Score, FuzzOne, Finds

LEMMA CheapestStep ==
  ASSUME IInv, Best, Cheapest, StableTarget, [Next]_vars
  PROVE  Stopping' \/ Cheapest'
<1> SUFFICES ASSUME ~Stopping',
                    NEW e \in Entry, NEW b \in Byte,
                    e \in Queue', cal_failed'[e] = 0, b \in exec_cksum'[e]
             PROVE  Undecided(e, b)' \/ Beaten(e, b)'
  BY DEF Cheapest
<1> USE DEF Undecided, Beaten
<1>0. /\ QueueTypeOK /\ ScoreTypeOK /\ WinnersCalibrated /\ Position /\ Queue \subseteq Entry
      /\ idx \in 0 .. MapSize /\ b \in Int
      /\ \A x \in Entry : fav_factor[x] \in Int /\ cal_failed[x] \in Nat
  BY SizesAssumption DEF IInv, TypeOK, QueueTypeOK, ControlTypeOK, Queue, Entry, Byte
<1>1. CASE DryRunCalibrated \/ Recalibrated \/ FindCalibrated
  <2>1. PICK n \in Entry :
          /\ cur' = n /\ idx' = 0 /\ pc' = "score"
          /\ \A x \in Entry : x # n => /\ exec_cksum'[x] = exec_cksum[x]
                                       /\ fav_factor'[x] = fav_factor[x]
                                       /\ cal_failed'[x] = cal_failed[x]
          /\ Queue' = Queue \/ Queue' = Queue \cup {n}
    <3>1. CASE DryRunCalibrated
      BY <1>0, <3>1 DEF DryRunCalibrated, CalibrateOK, FailuresCleared, QueueTypeOK, Queue
    <3>2. CASE Recalibrated
      BY <1>0, <3>2 DEF Recalibrated, CalibrateOK, FailuresCleared, QueueTypeOK, Queue, Position
    <3>3. CASE FindCalibrated
      <4>1. queued_paths' = queued_paths + 1 /\ queued_paths + 1 \in Entry /\ queued_paths \in Nat
        BY <1>0, <3>3, SizesAssumption DEF FindCalibrated, AddToQueue, QueueTypeOK, Entry
      <4>2. Queue' = Queue \cup {queued_paths + 1}
        BY <4>1 DEF Queue
      <4> QED
        BY <1>0, <3>3, <4>1, <4>2 DEF FindCalibrated, CalibrateOK, FailuresCleared, QueueTypeOK
    <3> QED
      BY <1>1, <3>1, <3>2, <3>3
  <2>2. CASE e = n
    BY <1>0, <2>1, <2>2 DEF Byte
  <2>3. CASE e # n
    <3>1. pc # "score" /\ UNCHANGED top_rated
      BY <1>1 DEF DryRunCalibrated, Recalibrated, FindCalibrated, scoreVars
    <3>2. Beaten(e, b)
      BY <2>1, <2>3, <3>1 DEF Cheapest
    <3>3. trace_mini[n] = {}
      BY <1>1, <2>1, CalibratedOwnsNothing
    <3>4. top_rated[b] # n
      BY <3>3 DEF IInv, MiniIffReferenced
    <3>5. top_rated[b] \in Entry
      BY <1>0, <3>2 DEF ScoreTypeOK
    <3> QED
      BY <2>1, <2>3, <3>1, <3>2, <3>4, <3>5
  <2> QED
    BY <2>2, <2>3
<1>2. CASE DryRunSkip \/ DryRunStopped \/ RecalibrationFailed
  <2>1. /\ pc # "score" /\ UNCHANGED <<top_rated, fav_factor>> /\ Queue' = Queue
        /\ cur \in Queue
    BY <1>0, <1>2 DEF DryRunSkip, DryRunStopped, RecalibrationFailed, CalibrateAborted,
       scoreVars, Queue, Position
  <2>2. /\ cal_failed'[cur] # 0
        /\ \A x \in Entry : x # cur => exec_cksum'[x] = exec_cksum[x] /\ cal_failed'[x] = cal_failed[x]
    <3>1. CASE DryRunSkip
      BY <1>0, <2>1, <3>1, SizesAssumption DEF DryRunSkip, QueueTypeOK
    <3>2. CASE DryRunStopped \/ RecalibrationFailed
      <4>1. cal_failed' = [cal_failed EXCEPT ![cur] = @ + 1]
        BY <3>2 DEF DryRunStopped, RecalibrationFailed, CalibrateAborted
      <4>2. \A x \in Entry : x # cur => exec_cksum'[x] = exec_cksum[x]
        BY <1>0, <3>2 DEF DryRunStopped, RecalibrationFailed, CalibrateAborted, QueueTypeOK
      <4> QED
        BY <1>0, <2>1, <4>1, <4>2 DEF QueueTypeOK
    <3> QED
      BY <1>2, <3>1, <3>2
  <2> QED
    BY <2>1, <2>2 DEF Cheapest
<1>3. CASE FindNotCalibrated
  <2>1. /\ queued_paths' = queued_paths + 1 /\ queued_paths + 1 \in Entry /\ queued_paths \in Nat
        /\ cal_failed' = [cal_failed EXCEPT ![queued_paths + 1] = 1]
        /\ pc # "score" /\ UNCHANGED <<top_rated, fav_factor>>
    BY <1>0, <1>3, SizesAssumption DEF FindNotCalibrated, AddToQueue, QueueTypeOK, Entry, scoreVars
  <2>2. e # queued_paths + 1
    BY <1>0, <2>1 DEF QueueTypeOK
  <2>3. exec_cksum'[e] = exec_cksum[e] /\ cal_failed'[e] = cal_failed[e]
    BY <1>0, <1>3, <2>1, <2>2 DEF FindNotCalibrated, QueueTypeOK
  <2>4. e \in Queue
    BY <2>1, <2>2 DEF Queue
  <2> QED
    BY <2>1, <2>3, <2>4 DEF Cheapest
<1>4. CASE TrimShrinks
  <2>1. /\ pc = "trim" /\ cur \in Entry /\ cur' = cur
        /\ UNCHANGED <<queued_paths, exec_cksum, cal_failed, top_rated>>
    BY <1>0, <1>4 DEF TrimShrinks, Position, scoreVars
  <2>2. PICK fav \in 0 .. fav_factor[cur] : fav_factor' = [fav_factor EXCEPT ![cur] = fav]
    BY <1>4 DEF TrimShrinks
  <2>3. \A x \in Entry : /\ x # cur => fav_factor'[x] = fav_factor[x]
                         /\ fav_factor'[x] <= fav_factor[x]
    BY <1>0, <2>1, <2>2 DEF QueueTypeOK
  <2>4. fav_factor'[cur] \in Int /\ \A x \in Entry : fav_factor'[x] \in Int
    BY <1>0, <2>1, <2>2 DEF QueueTypeOK
  <2>5. Beaten(e, b)
    BY <2>1 DEF Cheapest, Queue
  <2>6. top_rated[b] \in Entry
    BY <1>0, <2>5 DEF ScoreTypeOK
  <2>7. CASE e = cur
    <3>1. pc' = "score" /\ idx' = 0
      BY <1>4, <2>1 DEF TrimShrinks, Stopping, mainVars
    <3> QED
      BY <1>0, <2>1, <2>7, <3>1 DEF Byte
  <2>8. CASE e # cur
    BY <1>0, <2>1, <2>3, <2>4, <2>5, <2>6, <2>8
  <2> QED
    BY <2>7, <2>8
<1>5. CASE ScoreByte
  <2>1. /\ pc = "score" /\ pc' = "score" /\ cur' = cur /\ idx' = idx + 1 /\ idx \in Byte
        /\ UNCHANGED <<queued_paths, exec_cksum, cal_failed, fav_factor>>
    BY <1>5 DEF ScoreByte, entryVars
  <2>2. cur \in Entry /\ trace_bits = exec_cksum[cur] /\ cur # None
    <3>1. cur \in Entry
      BY <1>0, <2>1 DEF Position
    <3>2. trace_bits = exec_cksum[cur]
      BY <2>1 DEF Best
    <3> QED
      BY <3>1, <3>2 DEF Entry, None
  <2>3. Undecided(e, b) \/ Beaten(e, b)
    BY <2>1 DEF Cheapest, Queue
  <2>4. CASE Wins(cur, idx)
    <3>1. top_rated' = [top_rated EXCEPT ![idx] = cur]
      BY <1>5, <2>4 DEF ScoreByte
    <3>2. CASE b = idx
      <4>1. top_rated'[b] = cur
        BY <1>0, <3>1, <3>2 DEF ScoreTypeOK
      <4>2. fav_factor[cur] <= fav_factor[e]
        <5>1. CASE e = cur
          BY <1>0, <2>2, <5>1
        <5>2. CASE e # cur
          <6>1. Beaten(e, b)
            BY <2>3, <5>2
          <6>2. fav_factor[cur] <= fav_factor[top_rated[b]] /\ top_rated[b] \in Entry
            BY <1>0, <2>4, <3>2, <6>1 DEF Wins, ScoreTypeOK
          <6> QED
            BY <1>0, <2>2, <6>1, <6>2
        <5> QED
          BY <5>1, <5>2
      <4> QED
        BY <2>1, <2>2, <4>1, <4>2
    <3>3. CASE b # idx
      <4>1. top_rated'[b] = top_rated[b]
        BY <1>0, <3>1, <3>3 DEF ScoreTypeOK
      <4>2. Undecided(e, b) => Undecided(e, b)'
        BY <1>0, <2>1, <3>3
      <4> QED
        BY <2>1, <2>3, <4>1, <4>2
    <3> QED
      BY <3>2, <3>3
  <2>5. CASE ~Wins(cur, idx)
    <3>1. UNCHANGED top_rated
      BY <1>5, <2>5 DEF ScoreByte, scoreVars
    <3>2. CASE b = idx /\ e = cur
      <4>1. /\ top_rated[b] # None
            /\ ~(fav_factor[cur] <= fav_factor[top_rated[b]])
        BY <2>1, <2>2, <2>5, <3>2 DEF Wins
      <4>2. top_rated[b] \in Entry
        BY <1>0, <4>1 DEF ScoreTypeOK
      <4>3. fav_factor[top_rated[b]] <= fav_factor[cur]
        BY <1>0, <2>2, <4>1, <4>2
      <4> QED
        BY <2>1, <3>1, <3>2, <4>1, <4>3
    <3>3. CASE ~(b = idx /\ e = cur)
      <4>1. Undecided(e, b) => Undecided(e, b)'
        BY <1>0, <2>1, <3>3
      <4> QED
        BY <2>1, <2>3, <3>1, <4>1
    <3> QED
      BY <3>2, <3>3
  <2> QED
    BY <2>4, <2>5
<1>6. CASE ScoreReturn
  <2>1. /\ pc = "score" /\ idx = MapSize
        /\ UNCHANGED <<queued_paths, exec_cksum, cal_failed, fav_factor, top_rated>>
    BY <1>6 DEF ScoreReturn, scoreVars
  <2>2. ~Undecided(e, b)
    BY <2>1, SizesAssumption DEF Byte
  <2> QED
    BY <2>1, <2>2 DEF Cheapest, Queue
<1>7. CASE /\ UNCHANGED <<queued_paths, exec_cksum, fav_factor, cal_failed, top_rated>>
           /\ pc # "score" \/ UNCHANGED <<pc, cur, idx>>
  BY <1>7 DEF Cheapest, Queue
<1> QED
  BY <1>1, <1>2, <1>3, <1>4, <1>5, <1>6, <1>7, ContestFrames

(* With a stable target no calibrated entry that reaches a byte is cheaper *)
(* than the winner of the byte, whenever the fuzzer picks an entry: what   *)
(* cull_queue selects from top_rated is the best known.                    *)
THEOREM WinnersAreBest == ASSUME StableTarget PROVE Spec => []TopRatedBest
<1>1. Init => Best
  <2> SUFFICES ASSUME Init PROVE Best
    OBVIOUS
  <2>1. pc = "dry" /\ exec_cksum = [e \in Entry |-> {}]
    BY DEF Init
  <2> QED
    BY <2>1 DEF Best, Cheapest
<1>2. IInv /\ Best /\ [Next]_vars => Best'
  BY ScoredTrace, CheapestStep DEF Best
<1>3. IInv /\ Best => TopRatedBest
  <2> SUFFICES ASSUME IInv, Best, pc = "select",
                      NEW e \in Queue, NEW b \in Byte, cal_failed[e] = 0, b \in exec_cksum[e]
               PROVE  Beaten(e, b)
    BY DEF TopRatedBest, Beaten
  <2>1. e \in Entry
    BY SizesAssumption DEF IInv, TypeOK, QueueTypeOK, Queue, Entry
  <2> QED
    BY <2>1 DEF Best, Stopping, Cheapest, Undecided
<1> QED
  BY <1>1, <1>2, <1>3, Inductive, PTL DEF Spec
=============================================================================
