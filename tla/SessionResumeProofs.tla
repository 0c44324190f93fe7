-------------------------- MODULE SessionResumeProofs --------------------------
(***************************************************************************)
(* Proofs about SessionResume, for any test cases and any number of        *)
(* processes and kills: a session survives the death of a process at any   *)
(* point but the deletion of _resume/.                                     *)
(***************************************************************************)
EXTENDS SessionResume, Functions, FiniteSetTheorems, SequenceTheorems, TLAPS

-----------------------------------------------------------------------------
(* Files in the order of their numbers, as scandir gives them to           *)
(* read_testcases: the nth of a finite set of numbers is the one with      *)
(* n - 1 smaller ones.                                                     *)

Below(W, i) == {j \in W : j < i}
Rank(W, i)  == Cardinality(Below(W, i))

(* A larger number has a larger rank, and all ranks are below the size.    *)
LEMMA RankGrows ==
  ASSUME NEW W \in SUBSET Nat, IsFiniteSet(W), NEW i \in W, NEW j \in W, i < j
  PROVE  Rank(W, i) < Rank(W, j)
<1>0. \A k \in W : k \in Int
  OBVIOUS
<1>1. Below(W, i) \subseteq Below(W, j) /\ i \in Below(W, j) /\ i \notin Below(W, i)
  <2>1. ASSUME NEW k \in W, k < i PROVE k < j
    BY <1>0, <2>1
  <2>2. ~(i < i)
    BY <1>0
  <2> QED
    BY <2>1, <2>2 DEF Below
<1>2. IsFiniteSet(Below(W, j))
  BY FS_Subset DEF Below
<1> QED
  BY <1>1, <1>2, FS_Subset, FS_CardinalityType DEF Rank

LEMMA RankRange ==
  ASSUME NEW W \in SUBSET Nat, IsFiniteSet(W), NEW i \in W
  PROVE  Rank(W, i) \in 0 .. Cardinality(W) - 1
<1>1. Below(W, i) \subseteq W /\ i \notin Below(W, i)
  BY DEF Below
<1>2. /\ IsFiniteSet(Below(W, i)) /\ Cardinality(Below(W, i)) <= Cardinality(W)
      /\ Cardinality(Below(W, i)) # Cardinality(W)
  BY <1>1, FS_Subset
<1>3. Cardinality(Below(W, i)) \in Nat /\ Cardinality(W) \in Nat
  BY <1>2, FS_CardinalityType
<1> QED
  BY <1>2, <1>3 DEF Rank

LEMMA RankInjective ==
  ASSUME NEW W \in SUBSET Nat, IsFiniteSet(W), NEW i \in W, NEW j \in W,
         Rank(W, i) = Rank(W, j)
  PROVE  i = j
<1>1. Rank(W, i) \in Int /\ Rank(W, j) \in Int
  BY RankRange
<1>2. ~(i < j) /\ ~(j < i)
  BY <1>1, RankGrows
<1> QED
  BY <1>2

(* There is an nth number for every n up to the size of the set.           *)
LEMMA NthExists ==
  ASSUME NEW W \in SUBSET Nat, IsFiniteSet(W), NEW n \in 1 .. Cardinality(W)
  PROVE  \E i \in W : Rank(W, i) = n - 1
<1> DEFINE T == 0 .. Cardinality(W) - 1
           rank == [i \in W |-> Rank(W, i)]
<1>1. Cardinality(W) \in Nat
  BY FS_CardinalityType
<1>2. IsFiniteSet(T) /\ Cardinality(T) = Cardinality(W)
  <2>1. \A c \in Nat : IsFiniteSet(0 .. c - 1) /\ Cardinality(0 .. c - 1) = c
    BY FS_Interval
  <2> QED
    BY <1>1, <2>1
<1>3. rank \in Injection(W, T)
  BY RankRange, RankInjective DEF Injection, IsInjective
<1>4. rank \in Surjection(W, T)
  BY <1>2, <1>3, FS_Injection
<1>5. n - 1 \in T
  BY <1>1
<1> QED
  BY <1>4, <1>5 DEF Surjection

-----------------------------------------------------------------------------
(* The inductive invariant.                                                *)

Entry == [content : Content, passed_det : BOOLEAN, trim_done : BOOLEAN]
Files == UNION {[D -> Content \cup {Partial}] : D \in SUBSET Nat}
Dir   == [depth : 0 .. 3, files : Files, marks : SUBSET Nat]

(* A directory: no files without the directory, no flags without the       *)
(* innermost one, and no two files with the same test case.                *)
Proper(d) ==
  /\ d \in Dir
  /\ IsFiniteSet(DOMAIN d.files)
  /\ d.depth = 0 => DOMAIN d.files = {}
  /\ d.depth < 3 => d.marks = {}
  /\ \A i, j \in DOMAIN d.files : d.files[i] = d.files[j] /\ d.files[i] # Partial => i = j

Typed ==
  /\ pc \in Steps \cup {"off"}
  /\ in_place_resume \in BOOLEAN
  /\ queue \in Seq(Entry)
  /\ made \in 0 .. 3
  /\ pivot \in Nat \ {0}
  /\ queue_cur \in Nat
  /\ Proper(queueDir) /\ Proper(resumeDir)
  /\ det_done \subseteq saved /\ saved \subseteq Content

(* The session can be restored from a directory: what it has saved is      *)
(* there, with the right flags.                                            *)
Complete(d) ==
  saved # {} =>
    /\ \A c \in saved : \E i \in DOMAIN d.files : d.files[i] = c
    /\ \A i \in DOMAIN d.files :
         d.files[i] # Partial => (i \in d.marks <=> d.files[i] \in det_done)

(* The process and its memory.                                             *)
Starting == pc \in {"clean", "mkdir", "scan", "link", "mark"}
InSession == Running \/ pc = "nuke"

Memory ==
  /\ pc \in {"off", "clean", "mkdir", "scan"} => queue = << >> /\ pivot = 1
  /\ pc \in {"off", "clean"} => made = 0
  /\ pc = "mkdir" => made < 3
  /\ queue_cur # 0 <=> pc \in {"unlinked", "emptied"}
  /\ ended # "none" => pc = "off"
  /\ ended = "fatal" => saved = {} \/ stats = "torn"
  /\ (pc # "off" \/ saved # {}) => out_dir
  /\ pc = "nuke" => in_place_resume

(* While a process starts, the session is in _resume/, or it is a new one. *)
Restoring ==
  Starting => IF in_place_resume THEN Complete(resumeDir)
              ELSE saved = {} /\ Vacant(resumeDir)

(* The new queue/ is made in order, and so are its links and flags.        *)
Making ==
  /\ pc = "mkdir" => queueDir.depth = made /\ DOMAIN queueDir.files = {}
  /\ pc = "scan" => queueDir.depth = 3 /\ DOMAIN queueDir.files = {} /\ queueDir.marks = {}

(* The entries that have their file: all of them but the one that is being *)
(* written.                                                                *)
Hole == IF pc = "write" THEN Len(queue) ELSE queue_cur

Distinct == \A m, n \in DOMAIN queue : queue[m].content = queue[n].content => m = n

Importing ==
  pc \in {"link", "mark"} =>
    /\ queueDir.depth = 3 /\ Distinct
    /\ DOMAIN queueDir.files = IF pc = "link" THEN 0 .. pivot - 2 ELSE 0 .. pivot - 1
    /\ \A i \in DOMAIN queueDir.files :
         i + 1 \in DOMAIN queue /\ queueDir.files[i] = queue[i + 1].content
    /\ \A i \in Nat : i \in queueDir.marks <=>
         i < pivot - 1 /\ i + 1 \in DOMAIN queue /\ queue[i + 1].passed_det
    /\ pc = "mark" => pivot \in DOMAIN queue /\ queue[pivot].passed_det
    /\ saved # {} =>
         /\ \A c \in saved : \E n \in DOMAIN queue : queue[n].content = c
         /\ \A n \in DOMAIN queue : queue[n].passed_det <=> queue[n].content \in det_done

(* In a session queue/ is what the queue says, but for one file.           *)
Session ==
  InSession =>
    /\ queueDir.depth = 3 /\ Distinct
    /\ Vacant(resumeDir) \/ pc = "nuke"
    /\ Hole = 0 \/ Hole \in DOMAIN queue
    /\ pc = "write" => Hole - 1 \in DOMAIN queueDir.files /\ ~queue[Hole].passed_det
    /\ \A i \in DOMAIN queueDir.files : i + 1 \in DOMAIN queue
    /\ \A n \in DOMAIN queue \ {Hole} :
         n - 1 \in DOMAIN queueDir.files /\ queueDir.files[n - 1] = queue[n].content
    /\ Hole - 1 \in DOMAIN queueDir.files => queueDir.files[Hole - 1] = Partial
    /\ \A i \in Nat : i \in queueDir.marks <=>
         i + 1 \in DOMAIN queue /\ queue[i + 1].passed_det
    /\ saved = {queue[n].content : n \in DOMAIN queue \ {Hole}}
    /\ \A n \in DOMAIN queue \ {Hole} : queue[n].passed_det <=> queue[n].content \in det_done

IInv ==
  /\ Typed /\ Memory /\ Restoring /\ Making /\ Importing /\ Session
  /\ pc = "off" => Complete(NextInput)

-----------------------------------------------------------------------------
(* Directories.                                                            *)

LEMMA FilesParts ==
  ASSUME NEW F
  PROVE  F \in Files <=> /\ F = [i \in DOMAIN F |-> F[i]] /\ DOMAIN F \subseteq Nat
                         /\ \A i \in DOMAIN F : F[i] \in Content \cup {Partial}
<1>1. ASSUME F \in Files
      PROVE  /\ F = [i \in DOMAIN F |-> F[i]] /\ DOMAIN F \subseteq Nat
             /\ \A i \in DOMAIN F : F[i] \in Content \cup {Partial}
  <2>1. PICK D \in SUBSET Nat : F \in [D -> Content \cup {Partial}]
    BY <1>1 DEF Files
  <2> QED
    BY <2>1
<1>2. ASSUME F = [i \in DOMAIN F |-> F[i]], DOMAIN F \subseteq Nat,
             \A i \in DOMAIN F : F[i] \in Content \cup {Partial}
      PROVE  F \in Files
  <2>1. F \in [DOMAIN F -> Content \cup {Partial}]
    BY <1>2
  <2> QED
    BY <1>2, <2>1 DEF Files
<1> QED
  BY <1>1, <1>2

LEMMA WithFile ==
  ASSUME NEW F \in Files, NEW i \in Nat, NEW c \in Content \cup {Partial}
  PROVE  /\ With(F, i, c) \in Files /\ DOMAIN With(F, i, c) = DOMAIN F \cup {i}
         /\ With(F, i, c)[i] = c
         /\ \A j \in DOMAIN F \ {i} : With(F, i, c)[j] = F[j]
         /\ IsFiniteSet(DOMAIN F) => IsFiniteSet(DOMAIN With(F, i, c))
<1>1. /\ DOMAIN With(F, i, c) = DOMAIN F \cup {i} /\ With(F, i, c)[i] = c
      /\ \A j \in DOMAIN F \ {i} : With(F, i, c)[j] = F[j]
      /\ With(F, i, c) = [j \in DOMAIN With(F, i, c) |-> With(F, i, c)[j]]
  BY DEF With
<1>2. DOMAIN F \subseteq Nat /\ \A j \in DOMAIN F : F[j] \in Content \cup {Partial}
  BY FilesParts
<1>3. \A j \in DOMAIN With(F, i, c) : With(F, i, c)[j] \in Content \cup {Partial}
  BY <1>1, <1>2
<1>4. With(F, i, c) \in Files
  BY <1>1, <1>2, <1>3, FilesParts
<1>5. IsFiniteSet(DOMAIN F) => IsFiniteSet(DOMAIN F \cup {i})
  BY FS_AddElement
<1> QED
  BY <1>1, <1>4, <1>5

LEMMA WithoutFile ==
  ASSUME NEW F \in Files, NEW i
  PROVE  /\ Without(F, i) \in Files /\ DOMAIN Without(F, i) = DOMAIN F \ {i}
         /\ \A j \in DOMAIN F \ {i} : Without(F, i)[j] = F[j]
         /\ IsFiniteSet(DOMAIN F) => IsFiniteSet(DOMAIN Without(F, i))
<1>1. /\ DOMAIN Without(F, i) = DOMAIN F \ {i}
      /\ \A j \in DOMAIN F \ {i} : Without(F, i)[j] = F[j]
      /\ Without(F, i) = [j \in DOMAIN Without(F, i) |-> Without(F, i)[j]]
  BY DEF Without
<1>2. DOMAIN F \subseteq Nat /\ \A j \in DOMAIN F : F[j] \in Content \cup {Partial}
  BY FilesParts
<1>3. Without(F, i) \in Files
  BY <1>1, <1>2, FilesParts
<1>4. IsFiniteSet(DOMAIN F) => IsFiniteSet(DOMAIN F \ {i})
  BY FS_RemoveElement
<1> QED
  BY <1>1, <1>3, <1>4

LEMMA DirUpdate ==
  ASSUME NEW d \in Dir
  PROVE  /\ d.depth \in 0 .. 3 /\ d.files \in Files /\ d.marks \in SUBSET Nat
         /\ \A F \in Files :
              /\ [d EXCEPT !.files = F] \in Dir /\ [d EXCEPT !.files = F].files = F
              /\ [d EXCEPT !.files = F].depth = d.depth /\ [d EXCEPT !.files = F].marks = d.marks
         /\ \A k \in 0 .. 3 :
              /\ [d EXCEPT !.depth = k] \in Dir /\ [d EXCEPT !.depth = k].depth = k
              /\ [d EXCEPT !.depth = k].files = d.files /\ [d EXCEPT !.depth = k].marks = d.marks
         /\ \A M \in SUBSET Nat :
              /\ [d EXCEPT !.marks = M] \in Dir /\ [d EXCEPT !.marks = M].marks = M
              /\ [d EXCEPT !.marks = M].files = d.files /\ [d EXCEPT !.marks = M].depth = d.depth
BY DEF Dir

LEMMA DepthUpdate ==
  ASSUME NEW d \in Dir, NEW k \in 0 .. 3
  PROVE  /\ [d EXCEPT !.depth = k] \in Dir /\ [d EXCEPT !.depth = k].depth = k
         /\ [d EXCEPT !.depth = k].files = d.files /\ [d EXCEPT !.depth = k].marks = d.marks
BY DEF Dir

LEMMA MarksUpdate ==
  ASSUME NEW d \in Dir, NEW M \in SUBSET Nat
  PROVE  /\ [d EXCEPT !.marks = M] \in Dir /\ [d EXCEPT !.marks = M].marks = M
         /\ [d EXCEPT !.marks = M].files = d.files /\ [d EXCEPT !.marks = M].depth = d.depth
BY DEF Dir

LEMMA AbsentProper ==
  Proper(Absent) /\ Vacant(Absent) /\ DOMAIN Absent.files = {} /\ Absent.depth = 0
<1>1. NoFiles = [i \in DOMAIN NoFiles |-> NoFiles[i]] /\ DOMAIN NoFiles = {}
  BY DEF NoFiles
<1>2. NoFiles \in Files
  BY <1>1, FilesParts
<1>3. Absent \in Dir /\ Absent.files = NoFiles /\ Absent.depth = 0 /\ Absent.marks = {}
  BY <1>2 DEF Absent, Dir
<1>4. IsFiniteSet({})
  BY FS_EmptySet
<1> QED
  BY <1>1, <1>3, <1>4 DEF Proper, Vacant

(* A directory with a file in it is not vacant.                            *)
LEMMA VacantHasNoFile ==
  ASSUME NEW d, Proper(d), Vacant(d)
  PROVE  DOMAIN d.files = {}
BY DEF Proper, Vacant

(* One system call of a deletion.                                          *)
LEMMA UnlinkStep ==
  ASSUME NEW d, NEW smaller, Proper(d), Unlink(d, smaller)
  PROVE  Proper(smaller)
<1>1. d \in Dir /\ d.depth \in 0 .. 3 /\ d.files \in Files /\ d.marks \in SUBSET Nat
  BY DirUpdate DEF Proper
<1>2. CASE \E i \in d.marks : smaller = [d EXCEPT !.marks = @ \ {i}]
  <2>1. PICK i \in d.marks : smaller = [d EXCEPT !.marks = @ \ {i}]
    BY <1>2
  <2>2. PICK M \in SUBSET Nat : M = d.marks \ {i}
    BY <1>1
  <2>3. smaller = [d EXCEPT !.marks = M]
    BY <2>1, <2>2
  <2>4. /\ smaller \in Dir /\ smaller.marks = M /\ smaller.files = d.files
        /\ smaller.depth = d.depth
    BY <1>1, <2>3, MarksUpdate
  <2> QED
    BY <2>2, <2>4 DEF Proper
<1>3. CASE d.marks = {} /\ d.depth > 1 /\ smaller = [d EXCEPT !.depth = @ - 1]
  <2>1. PICK k \in 0 .. 3 : k = d.depth - 1 /\ k # 0
    BY <1>1, <1>3
  <2>2. smaller = [d EXCEPT !.depth = k]
    BY <1>3, <2>1
  <2>3. /\ [d EXCEPT !.depth = k] \in Dir /\ [d EXCEPT !.depth = k].depth = k
        /\ [d EXCEPT !.depth = k].files = d.files /\ [d EXCEPT !.depth = k].marks = d.marks
    BY <1>1, DirUpdate
  <2>4. smaller \in Dir /\ smaller.depth = k /\ smaller.files = d.files /\ smaller.marks = {}
    BY <1>3, <2>2, <2>3
  <2> QED
    BY <2>1, <2>4 DEF Proper
<1>4. CASE d.depth = 1 /\ \E i \in DOMAIN d.files : smaller = [d EXCEPT !.files = Without(@, i)]
  <2>1. PICK i \in DOMAIN d.files : smaller = [d EXCEPT !.files = Without(@, i)]
    BY <1>4
  <2>2. PICK F \in Files : F = Without(d.files, i)
    BY <1>1, WithoutFile
  <2>3. smaller = [d EXCEPT !.files = F]
    BY <2>1, <2>2
  <2>4. smaller \in Dir /\ smaller.depth = 1 /\ smaller.files = F /\ smaller.marks = d.marks
    BY <1>1, <1>4, <2>3, DirUpdate
  <2>5. /\ DOMAIN F = DOMAIN d.files \ {i} /\ \A j \in DOMAIN d.files \ {i} : F[j] = d.files[j]
        /\ IsFiniteSet(DOMAIN d.files) => IsFiniteSet(DOMAIN F)
    <3>1. LET W == Without(d.files, i) IN
            /\ DOMAIN W = DOMAIN d.files \ {i} /\ \A j \in DOMAIN d.files \ {i} : W[j] = d.files[j]
            /\ IsFiniteSet(DOMAIN d.files) => IsFiniteSet(DOMAIN W)
      BY <1>1, WithoutFile
    <3> QED
      BY <2>2, <3>1
  <2>6. d.marks = {} /\ IsFiniteSet(DOMAIN d.files)
    BY <1>4 DEF Proper
  <2>7. \A m, n \in DOMAIN F : F[m] = F[n] /\ F[m] # Partial => m = n
    BY <2>5 DEF Proper
  <2> QED
    BY <2>4, <2>5, <2>6, <2>7 DEF Proper
<1>5. CASE smaller = Absent
  BY <1>5, AbsentProper
<1> QED
  BY <1>2, <1>3, <1>4, <1>5 DEF Unlink

-----------------------------------------------------------------------------
(* The initial state, and the end of a process.                            *)

LEMMA InitIInv == Init => IInv
<1> SUFFICES ASSUME Init PROVE IInv
  OBVIOUS
<1>1. Typed
  <2>1. /\ pc = "off" /\ in_place_resume = FALSE /\ queue = << >> /\ made = 0 /\ pivot = 1
        /\ queue_cur = 0 /\ queueDir = Absent /\ resumeDir = Absent
        /\ det_done = {} /\ saved = {}
    BY DEF Init
  <2>2. queue \in Seq(Entry)
    BY <2>1
  <2>3. Proper(queueDir) /\ Proper(resumeDir)
    BY <2>1, AbsentProper
  <2>4. pc \in Steps \cup {"off"} /\ in_place_resume \in BOOLEAN /\ det_done \subseteq saved
       /\ saved \subseteq Content
    BY <2>1
  <2>5. made \in 0 .. 3 /\ pivot \in Nat \ {0} /\ queue_cur \in Nat
    BY <2>1
  <2> QED
    BY <2>2, <2>3, <2>4, <2>5 DEF Typed
<1>2. Memory
  BY DEF Init, Memory
<1>3. Restoring /\ Making /\ Importing /\ Session
  BY DEF Init, Restoring, Starting, Making, Importing, Session, InSession, Running
<1>4. Complete(NextInput)
  BY DEF Init, Complete
<1> QED
  BY <1>1, <1>2, <1>3, <1>4 DEF IInv

(* Wherever a process is, unless it deletes _resume/, the session can be   *)
(* restored from the directory the next resume would import.               *)
LEMMA CompleteInput ==
  ASSUME IInv, pc # "nuke"
  PROVE  Complete(NextInput)
<1>1. CASE pc = "off"
  BY <1>1 DEF IInv
<1>2. CASE Starting
  <2>1. CASE saved = {}
    BY <2>1 DEF Complete
  <2>2. CASE saved # {}
    <3>1. Complete(resumeDir)
      BY <1>2, <2>2 DEF IInv, Restoring
    <3>2. DOMAIN resumeDir.files # {}
      BY <2>2, <3>1 DEF Complete
    <3>3. ~Vacant(resumeDir)
      BY <3>2, VacantHasNoFile DEF IInv, Typed
    <3> QED
      BY <3>1, <3>3 DEF NextInput
  <2> QED
    BY <2>1, <2>2
<1>3. CASE Running
  <2>1. NextInput = queueDir /\ Session /\ InSession
    BY <1>3 DEF IInv, Session, InSession, Running, NextInput
  <2>2. queue \in Seq(Entry) /\ queueDir.files \in Files
    BY DirUpdate DEF IInv, Typed, Proper
  <2>3. DOMAIN queue \subseteq Nat /\ DOMAIN queueDir.files \subseteq Nat
    BY <2>2, FilesParts
  <2>4. \A c \in saved : \E i \in DOMAIN queueDir.files : queueDir.files[i] = c
    BY <2>1 DEF Session
  <2>5. ASSUME NEW i \in DOMAIN queueDir.files, queueDir.files[i] # Partial
        PROVE  i \in queueDir.marks <=> queueDir.files[i] \in det_done
    <3>1. i \in Nat /\ i + 1 \in DOMAIN queue
      BY <2>1, <2>3 DEF Session
    <3>2. i + 1 # Hole
      <4>1. i + 1 = Hole => Hole - 1 = i
        BY <3>1
      <4> QED
        BY <2>1, <2>5, <4>1 DEF Session
    <3>3. i + 1 - 1 = i
      BY <3>1
    <3>4. /\ queueDir.files[i] = queue[i + 1].content
          /\ queue[i + 1].passed_det <=> queue[i + 1].content \in det_done
          /\ i \in queueDir.marks <=> queue[i + 1].passed_det
      BY <2>1, <3>1, <3>2, <3>3 DEF Session
    <3> QED
      BY <3>4
  <2> QED
    BY <2>1, <2>4, <2>5 DEF Complete
<1> QED
  BY <1>1, <1>2, <1>3 DEF IInv, Typed, Steps, Starting, Running

LEMMA EndStep ==
  ASSUME IInv, pc # "nuke", NEW how, End(how),
         UNCHANGED <<queueDir, resumeDir, saved, det_done>>,
         out_dir' = out_dir \/ out_dir' = TRUE,
         how = "fatal" => saved = {} \/ stats' = "torn"
  PROVE  IInv'
<1>1. Complete(NextInput)
  BY CompleteInput
<1>2. /\ pc' = "off" /\ ended' = how /\ in_place_resume' = FALSE /\ queue' = << >>
      /\ queue_cur' = 0 /\ made' = 0 /\ pivot' = 1
  BY DEF End
<1>3. Typed'
  <2>1. Proper(queueDir)' /\ Proper(resumeDir)' /\ (det_done \subseteq saved /\ saved \subseteq Content)'
    BY DEF IInv, Typed, Proper
  <2>2. queue' \in Seq(Entry)
    BY <1>2
  <2>3. pc' \in Steps \cup {"off"} /\ in_place_resume' \in BOOLEAN
    BY <1>2
  <2>4. made' \in 0 .. 3 /\ pivot' \in Nat \ {0} /\ queue_cur' \in Nat
    BY <1>2
  <2> QED
    BY <2>1, <2>2, <2>3, <2>4 DEF Typed
<1>4. Memory'
  BY <1>2 DEF IInv, Memory
<1>5. Restoring' /\ Making' /\ Importing' /\ Session'
  BY <1>2 DEF Restoring, Starting, Making, Importing, Session, InSession, Running
<1>6. Complete(NextInput)'
  BY <1>1 DEF Complete, NextInput, Vacant
<1> QED
  BY <1>3, <1>4, <1>5, <1>6 DEF IInv

(* Starts that are refused, stop signals that are acted upon, and kills.   *)
LEMMA EndingSteps ==
  ASSUME IInv, "nuke" \notin KillPoints,
         ResumeNothing \/ RefuseFresh \/ MalformedStats \/ Kill \/ (WriteStats /\ stop_soon)
  PROVE  IInv'
<1>1. CASE ResumeNothing
  <2>1. saved = {}
    BY <1>1 DEF ResumeNothing, IInv, Memory
  <2> QED
    BY <1>1, <2>1, EndStep DEF ResumeNothing, history
<1>2. CASE RefuseFresh
  BY <1>2, EndStep DEF RefuseFresh, disk, history
<1>3. CASE MalformedStats
  BY <1>3, EndStep DEF MalformedStats, Fatal, disk, history
<1>4. CASE Kill
  BY <1>4, EndStep DEF Kill, disk, history
<1>5. CASE WriteStats /\ stop_soon
  BY <1>5, EndStep DEF WriteStats, disk, history
<1> QED
  BY <1>1, <1>2, <1>3, <1>4, <1>5

-----------------------------------------------------------------------------
(* What a process does before it is in the session.                        *)

LEMMA ResumeIInv == IInv /\ Resume => IInv'
<1> SUFFICES ASSUME IInv, Resume PROVE IInv'
  OBVIOUS
<1>1. /\ pc = "off" /\ pc' = "clean" /\ in_place_resume' = TRUE /\ ended' = "none" /\ out_dir
      /\ UNCHANGED <<out_dir, stats, queue, queue_cur, made, pivot, saved, det_done>>
  BY DEF Resume, history
<1>2. Complete(NextInput) /\ Typed /\ Memory
  BY <1>1 DEF IInv
<1>3. Proper(queueDir)' /\ Proper(resumeDir)'
  <2>1. CASE resumeDir' = queueDir /\ queueDir' = Absent
    BY <1>2, <2>1, AbsentProper DEF Typed, Proper
  <2>2. CASE UNCHANGED <<resumeDir, queueDir>>
    BY <1>2, <2>2 DEF Typed, Proper
  <2> QED
    BY <2>1, <2>2 DEF Resume
<1>4. Typed'
  BY <1>1, <1>2, <1>3 DEF Typed, Steps
<1>5. Memory'
  BY <1>1, <1>2 DEF Memory
<1>6. Complete(resumeDir)'
  <2>1. CASE Renamable
    <3>1. resumeDir' = queueDir /\ NextInput = queueDir
      BY <2>1 DEF Resume, Renamable, NextInput
    <3> QED
      BY <1>1, <1>2, <3>1 DEF Complete
  <2>2. CASE ~Renamable
    <3>1. resumeDir' = resumeDir
      BY <2>2 DEF Resume
    <3>2. CASE ~Vacant(resumeDir)
      BY <1>1, <1>2, <3>1, <3>2 DEF Complete, NextInput
    <3>3. CASE Vacant(resumeDir)
      <4>1. ~(queueDir.depth > 0) /\ NextInput = queueDir
        BY <2>2, <3>3 DEF Renamable, NextInput
      <4>2. queueDir.depth \in 0 .. 3
        BY <1>2, DirUpdate DEF Typed, Proper
      <4>3. DOMAIN queueDir.files = {}
        BY <1>2, <4>1, <4>2 DEF Typed, Proper
      <4>4. saved = {}
        BY <1>2, <4>1, <4>3 DEF Complete
      <4> QED
        BY <1>1, <4>4 DEF Complete
    <3> QED
      BY <3>2, <3>3
  <2> QED
    BY <2>1, <2>2
<1>7. Restoring' /\ Making' /\ Importing' /\ Session'
  BY <1>1, <1>6 DEF Restoring, Starting, Making, Importing, Session, InSession, Running
<1> QED
  BY <1>1, <1>4, <1>5, <1>7 DEF IInv

LEMMA StartFreshIInv ==
  ASSUME IInv, StartFresh, ~FreshOverLeftover
  PROVE  IInv'
<1>1. /\ pc = "off" /\ pc' = "clean" /\ in_place_resume' = FALSE /\ ended' = "none" /\ out_dir'
      /\ saved' = {} /\ det_done' = {} /\ Vacant(resumeDir)
      /\ UNCHANGED <<queueDir, resumeDir, stats, queue, queue_cur, made, pivot>>
  BY DEF StartFresh
<1>2. Typed /\ Memory
  BY DEF IInv
<1>3. Proper(queueDir)' /\ Proper(resumeDir)'
  BY <1>1, <1>2 DEF Typed, Proper
<1>4. Typed'
  BY <1>1, <1>2, <1>3 DEF Typed, Steps
<1>5. Memory'
  BY <1>1, <1>2 DEF Memory
<1>6. Vacant(resumeDir)'
  BY <1>1 DEF Vacant
<1>7. Restoring' /\ Making' /\ Importing' /\ Session'
  BY <1>1, <1>6 DEF Restoring, Starting, Making, Importing, Session, InSession, Running
<1> QED
  BY <1>1, <1>4, <1>5, <1>7 DEF IInv

LEMMA CleanQueueIInv == IInv /\ CleanQueue => IInv'
<1> SUFFICES ASSUME IInv, CleanQueue PROVE IInv'
  OBVIOUS
<1>1. /\ pc = "clean" /\ Unlink(queueDir, queueDir')
      /\ UNCHANGED <<pc, in_place_resume, out_dir, resumeDir, stats, queue, queue_cur, made, pivot,
                     ended, saved, det_done>>
  BY DEF CleanQueue, process, running, memory, history
<1>2. Typed /\ Memory /\ Restoring
  BY DEF IInv
<1>3. Proper(queueDir)' /\ Proper(resumeDir)'
  <2>1. Proper(queueDir')
    BY <1>1, <1>2, UnlinkStep DEF Typed
  <2>2. Proper(resumeDir')
    BY <1>1, <1>2 DEF Typed
  <2> QED
    BY <2>1, <2>2 DEF Proper
<1>4. Typed'
  BY <1>1, <1>2, <1>3 DEF Typed
<1>5. Memory'
  BY <1>1, <1>2 DEF Memory
<1>6. Restoring'
  BY <1>1, <1>2 DEF Restoring, Starting, Complete, Vacant
<1>7. Making' /\ Importing' /\ Session'
  BY <1>1 DEF Making, Importing, Session, InSession, Running
<1> QED
  BY <1>1, <1>4, <1>5, <1>6, <1>7 DEF IInv

LEMMA CleanedIInv == IInv /\ Cleaned => IInv'
<1> SUFFICES ASSUME IInv, Cleaned PROVE IInv'
  OBVIOUS
<1>1. /\ pc = "clean" /\ pc' = "mkdir" /\ queueDir.depth = 0
      /\ UNCHANGED <<in_place_resume, out_dir, queueDir, resumeDir, queue, queue_cur, made, pivot,
                     ended, saved, det_done>>
  BY DEF Cleaned, Gone, running, memory, history
<1>2. Typed /\ Memory /\ Restoring
  BY DEF IInv
<1>3. Typed'
  BY <1>1, <1>2 DEF Typed, Proper, Steps
<1>4. Memory'
  BY <1>1, <1>2 DEF Memory
<1>5. Restoring'
  BY <1>1, <1>2 DEF Restoring, Starting, Complete, Vacant
<1>6. made = 0 /\ DOMAIN queueDir.files = {}
  BY <1>1, <1>2 DEF Memory, Typed, Proper
<1>7. Making' /\ Importing' /\ Session'
  BY <1>1, <1>6 DEF Making, Importing, Session, InSession, Running
<1> QED
  BY <1>1, <1>3, <1>4, <1>5, <1>7 DEF IInv

(* mkdir never finds the directory there.                                  *)
LEMMA MakeDirIInv == IInv /\ MakeDir => IInv'
<1> SUFFICES ASSUME IInv, MakeDir PROVE IInv'
  OBVIOUS
<1>1. /\ pc = "mkdir" /\ made < 3 /\ made \in 0 .. 3 /\ queueDir.depth = made
      /\ DOMAIN queueDir.files = {} /\ Proper(queueDir)
  BY DEF MakeDir, IInv, Making, Typed
<1>2. /\ queueDir' = [queueDir EXCEPT !.depth = made + 1] /\ made' = made + 1
      /\ pc' = IF made' = 3 THEN "scan" ELSE "mkdir"
      /\ UNCHANGED <<out_dir, resumeDir, stats, in_place_resume, queue, queue_cur, pivot, ended,
                     saved, det_done>>
  <2>1. ~(queueDir.depth > made)
    BY <1>1
  <2> QED
    BY <2>1 DEF MakeDir, history
<1>3. Typed /\ Memory /\ Restoring
  BY DEF IInv
<1>4. PICK k \in 0 .. 3 : k = made + 1
  BY <1>1
<1>5. queueDir' \in Dir /\ queueDir'.depth = k /\ queueDir'.files = queueDir.files
      /\ queueDir'.marks = queueDir.marks
  <2>1. queueDir' = [queueDir EXCEPT !.depth = k] /\ queueDir \in Dir
    BY <1>1, <1>2, <1>4 DEF Proper
  <2> QED
    BY <2>1, DepthUpdate
<1>6. queueDir.marks = {}
  BY <1>1 DEF Proper
<1>7. Proper(queueDir')
  BY <1>1, <1>5, <1>6 DEF Proper
<1>8. Typed'
  <2>1. Proper(queueDir)' /\ Proper(resumeDir)'
    BY <1>2, <1>3, <1>7 DEF Typed, Proper
  <2>2. made' \in 0 .. 3 /\ pc' \in Steps \cup {"off"}
    BY <1>2, <1>4 DEF Steps
  <2> QED
    BY <1>2, <1>3, <2>1, <2>2 DEF Typed
<1>9. Memory'
  <2>1. made' # 3 => made' < 3
    BY <1>2, <1>4
  <2> QED
    BY <1>1, <1>2, <1>3, <2>1 DEF Memory
<1>10. Restoring'
  BY <1>1, <1>2, <1>3 DEF Restoring, Starting, Complete, Vacant
<1>11. Making' /\ Importing' /\ Session'
  BY <1>1, <1>2, <1>4, <1>5, <1>6 DEF Making, Importing, Session, InSession, Running
<1> QED
  BY <1>2, <1>8, <1>9, <1>10, <1>11 DEF IInv

LEMMA NukeResumeDirIInv == IInv /\ NukeResumeDir => IInv'
<1> SUFFICES ASSUME IInv, NukeResumeDir PROVE IInv'
  OBVIOUS
<1>1. /\ pc = "nuke" /\ pc' \in {"nuke", "dry"}
      /\ UNCHANGED <<out_dir, queueDir, stats, queue, queue_cur, made, pivot, in_place_resume, ended,
                     saved, det_done>>
  BY DEF NukeResumeDir, running, memory, history
<1>2. Typed /\ Memory /\ Session
  BY DEF IInv
<1>3. Proper(resumeDir')
  <2>1. CASE Gone(resumeDir)
    BY <1>2, <2>1 DEF NukeResumeDir, Typed
  <2>2. CASE ~Gone(resumeDir)
    BY <1>2, <2>2, UnlinkStep DEF NukeResumeDir, Typed
  <2> QED
    BY <2>1, <2>2
<1>4. Typed'
  <2>1. Proper(queueDir)' /\ Proper(resumeDir)'
    BY <1>1, <1>2, <1>3 DEF Typed, Proper
  <2> QED
    BY <1>1, <1>2, <2>1 DEF Typed, Steps
<1>5. Memory'
  BY <1>1, <1>2 DEF Memory
<1>6. Vacant(resumeDir)' \/ pc' = "nuke"
  BY DEF NukeResumeDir, Gone, Vacant
<1>7. Restoring' /\ Making' /\ Importing'
  BY <1>1 DEF Restoring, Starting, Making, Importing
<1>8. Session'
  BY <1>1, <1>2, <1>6 DEF Session, InSession, Running, Hole, Distinct
<1> QED
  BY <1>1, <1>4, <1>5, <1>7, <1>8 DEF IInv

(* Steps that leave the directories and the queue alone.                   *)
LEMMA QuietSteps ==
  ASSUME IInv,
         TruncateStats \/ (WriteStats /\ ~stop_soon) \/ GrowOld \/ HandleStopSig \/ UNCHANGED vars
  PROVE  IInv'
<1>1. /\ UNCHANGED <<out_dir, queueDir, resumeDir, in_place_resume, queue, queue_cur, made, pivot,
                     ended, saved, det_done>>
      /\ UNCHANGED <<pc, stats>> \/ {pc, pc'} \subseteq {"dry", "fuzz", "stats"}
  <2>1. CASE TruncateStats
    BY <2>1 DEF TruncateStats, running, memory, history
  <2>2. CASE WriteStats /\ ~stop_soon
    BY <2>2 DEF WriteStats, memory, history
  <2>3. CASE GrowOld
    BY <2>3 DEF GrowOld, disk, memory, history
  <2>4. CASE HandleStopSig
    BY <2>4 DEF HandleStopSig, disk, memory, history
  <2>5. CASE UNCHANGED vars
    BY <2>5 DEF vars, disk, process, running, memory, history
  <2> QED
    BY <2>1, <2>2, <2>3, <2>4, <2>5
<1>2. /\ Typed /\ Memory /\ Restoring /\ Making /\ Importing /\ Session
      /\ pc = "off" => Complete(NextInput)
  BY DEF IInv
<1>3. Typed'
  <2>1. Proper(queueDir)' /\ Proper(resumeDir)'
    BY <1>1, <1>2 DEF Typed, Proper
  <2> QED
    BY <1>1, <1>2, <2>1 DEF Typed, Steps
<1>4. Memory'
  BY <1>1, <1>2 DEF Memory
<1>5. Restoring'
  BY <1>1, <1>2 DEF Restoring, Starting, Complete, Vacant
<1>6. Making'
  BY <1>1, <1>2 DEF Making
<1>7. Importing'
  BY <1>1, <1>2 DEF Importing, Distinct
<1>8. Session'
  <2>1. UNCHANGED <<Hole, Distinct, Vacant(resumeDir)>>
    BY <1>1 DEF Hole, Distinct, Vacant
  <2>2. InSession' => InSession
    BY <1>1 DEF InSession, Running
  <2> QED
    BY <1>1, <1>2, <2>1, <2>2 DEF Session
<1>9. (pc = "off" => Complete(NextInput))'
  BY <1>1, <1>2 DEF Complete, NextInput, Vacant
<1> QED
  BY <1>3, <1>4, <1>5, <1>6, <1>7, <1>8, <1>9 DEF IInv

-----------------------------------------------------------------------------
(* The import.                                                             *)

LEMMA SeedFilesType ==
  /\ SeedFiles \in [0 .. Cardinality(Seeds) - 1 -> Seeds]
  /\ \A i, j \in DOMAIN SeedFiles : SeedFiles[i] = SeedFiles[j] => i = j
<1> DEFINE S == 0 .. Cardinality(Seeds) - 1
<1>1. IsFiniteSet(S) /\ Cardinality(S) = Cardinality(Seeds)
  <2>1. \A c \in Nat : IsFiniteSet(0 .. c - 1) /\ Cardinality(0 .. c - 1) = c
    BY FS_Interval
  <2>2. Cardinality(Seeds) \in Nat
    BY ConstantsAssumption, FS_CardinalityType
  <2> QED
    BY <2>1, <2>2
<1>2. ExistsBijection(S, Seeds)
  BY <1>1, ConstantsAssumption, FS_SameCardinalityBij
<1>3. PICK f : f \in [S -> Seeds] /\ \A i, j \in DOMAIN f : f[i] = f[j] => i = j
  BY <1>2 DEF ExistsBijection, Bijection, Injection, IsInjective
<1> QED
  BY <1>3 DEF SeedFiles

(* What read_testcases finds: each usable file has a place of its own.     *)
LEMMA UsableFiles ==
  ASSUME Typed
  PROVE  /\ Usable \in SUBSET Nat /\ IsFiniteSet(Usable) /\ Cardinality(Usable) \in Nat
         /\ \A i \in Usable : InDir.files[i] \in Content
         /\ \A i, j \in Usable : InDir.files[i] = InDir.files[j] => i = j
<1>1. /\ DOMAIN InDir.files \subseteq Nat /\ IsFiniteSet(DOMAIN InDir.files)
      /\ \A i \in DOMAIN InDir.files : InDir.files[i] \in Content \cup {Partial}
      /\ \A i, j \in DOMAIN InDir.files :
           InDir.files[i] = InDir.files[j] /\ InDir.files[i] # Partial => i = j
  <2>1. CASE in_place_resume
    <3>1. InDir = resumeDir /\ Proper(resumeDir)
      BY <2>1 DEF InDir, Typed
    <3>2. resumeDir.files \in Files
      BY <3>1, DirUpdate DEF Proper
    <3> QED
      BY <3>1, <3>2, FilesParts DEF Proper
  <2>2. CASE ~in_place_resume
    <3>1. InDir.files = SeedFiles
      BY <2>2 DEF InDir
    <3>2. \A c \in Nat : IsFiniteSet(0 .. c - 1)
      BY FS_Interval
    <3>3. Cardinality(Seeds) \in Nat /\ Seeds \subseteq Content
      BY ConstantsAssumption, FS_CardinalityType
    <3>4. IsFiniteSet(DOMAIN SeedFiles) /\ DOMAIN SeedFiles \subseteq Nat
      BY <3>2, <3>3, SeedFilesType
    <3> QED
      BY <3>1, <3>3, <3>4, SeedFilesType
  <2> QED
    BY <2>1, <2>2
<1>2. Usable \subseteq DOMAIN InDir.files
  BY DEF Usable
<1> QED
  BY <1>1, <1>2, FS_Subset, FS_CardinalityType DEF Usable

LEMMA NthIsUsable ==
  ASSUME Typed
  PROVE  /\ \A n \in 1 .. Cardinality(Usable) :
              Nth(n) \in Usable /\ Rank(Usable, Nth(n)) = n - 1
         /\ \A i \in Usable : \E n \in 1 .. Cardinality(Usable) : Nth(n) = i
<1>1. Usable \in SUBSET Nat /\ IsFiniteSet(Usable) /\ Cardinality(Usable) \in Nat
  BY UsableFiles
<1>2. ASSUME NEW n \in 1 .. Cardinality(Usable)
      PROVE  Nth(n) \in Usable /\ Rank(Usable, Nth(n)) = n - 1
  <2>1. \E i \in Usable : Rank(Usable, i) = n - 1
    BY <1>1, NthExists
  <2> QED
    BY <2>1 DEF Nth, Rank, Below
<1>3. ASSUME NEW i \in Usable
      PROVE  \E n \in 1 .. Cardinality(Usable) : Nth(n) = i
  <2>1. PICK r \in 0 .. Cardinality(Usable) - 1 : r = Rank(Usable, i)
    BY <1>1, RankRange
  <2>2. r + 1 \in 1 .. Cardinality(Usable) /\ r + 1 - 1 = r
    BY <1>1, <2>1
  <2>3. Nth(r + 1) \in Usable /\ Rank(Usable, Nth(r + 1)) = r
    BY <1>2, <2>2
  <2>4. Nth(r + 1) = i
    BY <1>1, <2>1, <2>3, RankInjective
  <2> QED
    BY <2>2, <2>4
<1> QED
  BY <1>2, <1>3

(* A resume always finds something to import.                              *)
LEMMA ReadTestcasesIInv == IInv /\ ReadTestcases => IInv'
<1> SUFFICES ASSUME IInv, ReadTestcases PROVE IInv'
  OBVIOUS
<1>0. /\ Typed /\ Memory /\ Restoring /\ Making /\ pc = "scan"
  BY DEF IInv, ReadTestcases
<1>1. \A c \in saved : in_place_resume /\ \E n \in 1 .. Cardinality(Usable) : InDir.files[Nth(n)] = c
  <2> TAKE c \in saved
  <2>1. in_place_resume /\ Complete(resumeDir)
    BY <1>0 DEF Restoring, Starting
  <2>2. PICK i \in DOMAIN resumeDir.files : resumeDir.files[i] = c
    BY <2>1 DEF Complete
  <2>3. c # Partial
    BY <1>0, ConstantsAssumption DEF Typed
  <2>4. i \in Usable /\ InDir = resumeDir
    BY <2>1, <2>2, <2>3 DEF Usable, InDir
  <2> QED
    BY <1>0, <2>1, <2>2, <2>4, NthIsUsable
<1>2. CASE Usable = {}
  <2>1. saved = {}
    BY <1>0, <1>1, <1>2, NthIsUsable
  <2>2. Fatal
    BY <1>2 DEF ReadTestcases
  <2> QED
    BY <1>0, <2>1, <2>2, EndStep DEF Fatal, disk, history
<1>3. CASE Usable # {}
  <2>1. PICK k \in Nat : k = Cardinality(Usable)
    BY <1>0, UsableFiles
  <2>2. /\ queue' = [n \in 1 .. k |-> [content |-> InDir.files[Nth(n)],
                                       passed_det |-> Flagged(n), trim_done |-> FALSE]]
        /\ pc' = "link"
        /\ UNCHANGED <<out_dir, queueDir, resumeDir, stats, queue_cur, made, pivot, in_place_resume,
                       ended, saved, det_done>>
    BY <1>3, <2>1 DEF ReadTestcases, disk, running, memory, history
  <2>3. \A n \in 1 .. k : /\ Nth(n) \in Usable /\ Rank(Usable, Nth(n)) = n - 1
                          /\ InDir.files[Nth(n)] \in Content
    BY <1>0, <2>1, NthIsUsable, UsableFiles
  <2>4. \A n \in 1 .. k : [content |-> InDir.files[Nth(n)], passed_det |-> Flagged(n),
                            trim_done |-> FALSE] \in Entry
    BY <2>3 DEF Entry, Flagged
  <2>5. queue' \in Seq(Entry) /\ DOMAIN queue' = 1 .. k
    BY <2>2, <2>4
  <2>6. \A n \in 1 .. k : /\ queue'[n].content = InDir.files[Nth(n)]
                          /\ queue'[n].passed_det <=> Nth(n) \in InDir.marks
    BY <2>2 DEF Flagged
  <2>7. Distinct'
    <3> SUFFICES ASSUME NEW m \in 1 .. k, NEW n \in 1 .. k, queue'[m].content = queue'[n].content
                 PROVE  m = n
      BY <2>5 DEF Distinct
    <3>1. Nth(m) = Nth(n)
      BY <1>0, <2>3, <2>6, UsableFiles
    <3>2. m - 1 = n - 1
      BY <2>3, <3>1
    <3> QED
      BY <3>2
  <2>8. Typed'
    <3>1. Proper(queueDir)' /\ Proper(resumeDir)'
      BY <1>0, <2>2 DEF Typed, Proper
    <3> QED
      BY <1>0, <2>2, <2>5, <3>1 DEF Typed, Steps
  <2>9. Memory'
    BY <1>0, <2>2 DEF Memory
  <2>10. Restoring' /\ Making' /\ Session'
    BY <1>0, <2>2 DEF Restoring, Starting, Complete, Vacant, Making, Session, InSession, Running
  <2>11. Importing'
    <3>1. queueDir'.depth = 3 /\ DOMAIN queueDir'.files = {} /\ queueDir'.marks = {} /\ pivot' = 1
      BY <1>0, <2>2 DEF Making, Memory
    <3>2. 0 .. pivot' - 2 = {}
      BY <3>1
    <3>3. \A i \in Nat : ~(i < pivot' - 1)
      BY <3>1
    <3>4. \A c \in saved' : \E n \in DOMAIN queue' : queue'[n].content = c
      BY <1>1, <2>1, <2>2, <2>5, <2>6
    <3>5. ASSUME saved' # {}, NEW n \in DOMAIN queue'
          PROVE  queue'[n].passed_det <=> queue'[n].content \in det_done'
      <4>1. saved # {} /\ in_place_resume
        BY <1>1, <2>2, <3>5
      <4>2. InDir = resumeDir /\ Complete(resumeDir)
        BY <1>0, <4>1 DEF InDir, Restoring, Starting
      <4>3. Nth(n) \in DOMAIN resumeDir.files /\ resumeDir.files[Nth(n)] # Partial
        BY <2>3, <2>5, <4>2 DEF Usable
      <4> QED
        BY <2>2, <2>5, <2>6, <4>1, <4>2, <4>3 DEF Complete
    <3> QED
      BY <2>2, <2>7, <3>1, <3>2, <3>3, <3>4, <3>5 DEF Importing
  <2> QED
    BY <2>2, <2>8, <2>9, <2>10, <2>11 DEF IInv
<1> QED
  BY <1>2, <1>3

LEMMA QueueType ==
  ASSUME Typed
  PROVE  /\ Len(queue) \in Nat /\ DOMAIN queue = 1 .. Len(queue)
         /\ \A n \in DOMAIN queue : queue[n] \in Entry /\ queue[n].content \in Content
                                   /\ queue[n].passed_det \in BOOLEAN
<1>1. queue \in Seq(Entry)
  BY DEF Typed
<1>2. Len(queue) \in Nat /\ DOMAIN queue = 1 .. Len(queue)
  BY <1>1
<1>3. \A n \in DOMAIN queue : queue[n] \in Entry
  BY <1>1
<1> QED
  BY <1>2, <1>3 DEF Entry

(* No name is ever taken: the entries are linked in order.                 *)
LEMMA LinkInputIInv == IInv /\ LinkInput => IInv'
<1> SUFFICES ASSUME IInv, LinkInput PROVE IInv'
  OBVIOUS
<1>0. Typed /\ Memory /\ Restoring /\ Importing /\ pc = "link"
  BY DEF IInv, LinkInput
<1>1. /\ pivot \in DOMAIN queue /\ pivot \in Nat /\ pivot - 1 \in Nat /\ pivot - 1 + 1 = pivot
      /\ queue[pivot].content \in Content
  <2>1. pivot \in Nat \ {0} /\ ~(pivot > Len(queue))
    BY <1>0 DEF Typed, LinkInput, Imported
  <2> QED
    BY <1>0, <2>1, QueueType
<1>2. DOMAIN queueDir.files = 0 .. pivot - 2 /\ queueDir.depth = 3
  BY <1>0 DEF Importing
<1>3. pivot - 1 \notin DOMAIN queueDir.files
  BY <1>1, <1>2
<1>4. /\ queueDir' = [queueDir EXCEPT !.files = With(queueDir.files, pivot - 1, queue[pivot].content)]
      /\ UNCHANGED <<out_dir, resumeDir, stats, queue, queue_cur, made, in_place_resume, ended, saved,
                     det_done>>
      /\ IF queue[pivot].passed_det THEN pc' = "mark" /\ pivot' = pivot
         ELSE pc' = "link" /\ pivot' = pivot + 1
  <2>1. ~Taken(pivot - 1)
    BY <1>3 DEF Taken
  <2> QED
    BY <1>0, <2>1 DEF LinkInput, running, memory, history
<1>5. PICK F \in Files :
        /\ F = With(queueDir.files, pivot - 1, queue[pivot].content)
        /\ DOMAIN F = DOMAIN queueDir.files \cup {pivot - 1} /\ F[pivot - 1] = queue[pivot].content
        /\ \A j \in DOMAIN queueDir.files \ {pivot - 1} : F[j] = queueDir.files[j]
        /\ IsFiniteSet(DOMAIN queueDir.files) => IsFiniteSet(DOMAIN F)
  <2>1. queueDir.files \in Files /\ queue[pivot].content \in Content \cup {Partial}
    BY <1>0, <1>1, DirUpdate DEF Typed, Proper
  <2>2. PICK G \in Files, i \in Nat, c \in Content \cup {Partial} :
          G = queueDir.files /\ i = pivot - 1 /\ c = queue[pivot].content
    BY <1>1, <2>1
  <2>3. /\ With(G, i, c) \in Files /\ DOMAIN With(G, i, c) = DOMAIN G \cup {i}
        /\ With(G, i, c)[i] = c
        /\ \A j \in DOMAIN G \ {i} : With(G, i, c)[j] = G[j]
        /\ IsFiniteSet(DOMAIN G) => IsFiniteSet(DOMAIN With(G, i, c))
    BY WithFile
  <2> QED
    BY <2>2, <2>3
<1>6. /\ queueDir' \in Dir /\ queueDir'.files = F /\ queueDir'.depth = 3
      /\ queueDir'.marks = queueDir.marks
  <2>1. queueDir \in Dir /\ queueDir' = [queueDir EXCEPT !.files = F]
    BY <1>0, <1>4, <1>5 DEF Typed, Proper
  <2> QED
    BY <1>2, <2>1, DirUpdate
<1>7. DOMAIN F = 0 .. pivot - 1
  <2>1. DOMAIN F = (0 .. pivot - 2) \cup {pivot - 1}
    BY <1>2, <1>5
  <2> QED
    BY <1>1, <2>1
<1>8. \A i \in DOMAIN F : i + 1 \in DOMAIN queue /\ F[i] = queue[i + 1].content
  BY <1>0, <1>1, <1>5 DEF Importing
<1>9. Proper(queueDir')
  <2>1. ASSUME NEW i \in DOMAIN F, NEW j \in DOMAIN F, F[i] = F[j] PROVE i = j
    <3>1. i + 1 = j + 1
      BY <1>0, <1>8, <2>1 DEF Importing, Distinct
    <3>2. i \in Int /\ j \in Int
      BY <1>7
    <3> QED
      BY <3>1, <3>2
  <2>2. IsFiniteSet(DOMAIN F)
    BY <1>0, <1>5 DEF Typed, Proper
  <2> QED
    BY <1>6, <2>1, <2>2 DEF Proper
<1>10. Typed'
  <2>1. Proper(queueDir)' /\ Proper(resumeDir)'
    BY <1>0, <1>4, <1>9 DEF Typed, Proper
  <2>2. pivot' \in Nat \ {0} /\ pc' \in Steps
    BY <1>0, <1>1, <1>4 DEF Typed, Steps
  <2> QED
    BY <1>0, <1>4, <2>1, <2>2 DEF Typed
<1>11. Memory'
  BY <1>0, <1>4 DEF Memory
<1>12. Restoring' /\ Making' /\ Session'
  BY <1>0, <1>4 DEF Restoring, Starting, Complete, Vacant, Making, Session, InSession, Running
<1>13. Importing'
  <2>1. DOMAIN queueDir'.files = IF pc' = "link" THEN 0 .. pivot' - 2 ELSE 0 .. pivot' - 1
    BY <1>1, <1>4, <1>6, <1>7
  <2>2. ASSUME NEW i \in Nat
        PROVE  i \in queueDir'.marks <=>
                 i < pivot' - 1 /\ i + 1 \in DOMAIN queue' /\ queue'[i + 1].passed_det
    <3>1. i \in queueDir'.marks <=>
            i < pivot - 1 /\ i + 1 \in DOMAIN queue' /\ queue'[i + 1].passed_det
      BY <1>0, <1>4, <1>6 DEF Importing
    <3>2. CASE queue[pivot].passed_det
      BY <1>4, <3>1, <3>2
    <3>3. CASE ~queue[pivot].passed_det
      <4>1. i < pivot' - 1 <=> i < pivot - 1 \/ i = pivot - 1
        BY <1>1, <1>4, <3>3
      <4> QED
        BY <1>1, <1>4, <3>1, <3>3, <4>1
    <3> QED
      BY <3>2, <3>3
  <2>3. pc' = "mark" => pivot' \in DOMAIN queue' /\ queue'[pivot'].passed_det
    BY <1>1, <1>4
  <2>4. /\ queueDir'.depth = 3 /\ Distinct'
        /\ \A i \in DOMAIN queueDir'.files :
             i + 1 \in DOMAIN queue' /\ queueDir'.files[i] = queue'[i + 1].content
    BY <1>0, <1>4, <1>6, <1>8 DEF Importing, Distinct
  <2>5. saved' # {} =>
          /\ \A c \in saved' : \E n \in DOMAIN queue' : queue'[n].content = c
          /\ \A n \in DOMAIN queue' : queue'[n].passed_det <=> queue'[n].content \in det_done'
    BY <1>0, <1>4 DEF Importing
  <2> QED
    BY <2>1, <2>2, <2>3, <2>4, <2>5 DEF Importing
<1> QED
  BY <1>4, <1>10, <1>11, <1>12, <1>13 DEF IInv

LEMMA MarkInputIInv == IInv /\ MarkInput => IInv'
<1> SUFFICES ASSUME IInv, MarkInput PROVE IInv'
  OBVIOUS
<1>0. Typed /\ Memory /\ Restoring /\ Importing /\ pc = "mark"
  BY DEF IInv, MarkInput
<1>1. /\ pivot \in DOMAIN queue /\ pivot \in Nat \ {0} /\ pivot - 1 \in Nat
      /\ pivot - 1 + 1 = pivot /\ queue[pivot].passed_det
  BY <1>0 DEF Importing, Typed
<1>2. \A i \in Nat : i \in queueDir.marks <=>
        i < pivot - 1 /\ i + 1 \in DOMAIN queue /\ queue[i + 1].passed_det
  BY <1>0 DEF Importing
<1>3. pivot - 1 \notin queueDir.marks
  BY <1>1, <1>2
<1>4. /\ queueDir' = [queueDir EXCEPT !.marks = queueDir.marks \cup {pivot - 1}]
      /\ UNCHANGED <<out_dir, resumeDir, stats, queue, queue_cur, made, in_place_resume, ended, saved,
                     det_done>>
      /\ pc' = "link" /\ pivot' = pivot + 1
  BY <1>3 DEF MarkInput, running, memory, history
<1>5. queueDir \in Dir /\ queueDir.depth = 3 /\ queueDir.marks \in SUBSET Nat
  BY <1>0, DirUpdate DEF Typed, Proper, Importing
<1>6. /\ queueDir' \in Dir /\ queueDir'.files = queueDir.files /\ queueDir'.depth = 3
      /\ queueDir'.marks = queueDir.marks \cup {pivot - 1}
  <2>1. PICK M \in SUBSET Nat : M = queueDir.marks \cup {pivot - 1}
    BY <1>1, <1>5
  <2>2. queueDir' = [queueDir EXCEPT !.marks = M]
    BY <1>4, <2>1
  <2> QED
    BY <1>5, <2>1, <2>2, MarksUpdate
<1>7. Proper(queueDir')
  BY <1>0, <1>6 DEF Typed, Proper
<1>8. Typed'
  <2>1. Proper(queueDir)' /\ Proper(resumeDir)'
    BY <1>0, <1>4, <1>7 DEF Typed, Proper
  <2>2. pivot' \in Nat \ {0} /\ pc' \in Steps
    BY <1>1, <1>4 DEF Steps
  <2> QED
    BY <1>0, <1>4, <2>1, <2>2 DEF Typed
<1>9. Memory'
  BY <1>0, <1>4 DEF Memory
<1>10. Restoring' /\ Making' /\ Session'
  BY <1>0, <1>4 DEF Restoring, Starting, Complete, Vacant, Making, Session, InSession, Running
<1>11. Importing'
  <2>1. DOMAIN queueDir'.files = 0 .. pivot' - 2
    BY <1>0, <1>1, <1>4, <1>6 DEF Importing
  <2>2. ASSUME NEW i \in Nat
        PROVE  i \in queueDir'.marks <=>
                 i < pivot' - 1 /\ i + 1 \in DOMAIN queue' /\ queue'[i + 1].passed_det
    <3>1. i < pivot' - 1 <=> i < pivot - 1 \/ i = pivot - 1
      BY <1>1, <1>4
    <3> QED
      BY <1>1, <1>2, <1>4, <1>6, <3>1
  <2> QED
    BY <1>0, <1>4, <1>6, <2>1, <2>2 DEF Importing, Distinct
<1> QED
  BY <1>4, <1>8, <1>9, <1>10, <1>11 DEF IInv

LEMMA ImportDoneIInv == IInv /\ ImportDone => IInv'
<1> SUFFICES ASSUME IInv, ImportDone PROVE IInv'
  OBVIOUS
<1> DEFINE contents == {queue[n].content : n \in DOMAIN queue}
<1>0. Typed /\ Memory /\ Restoring /\ Importing /\ pc = "link"
  BY DEF IInv, ImportDone
<1>1. /\ pivot > Len(queue) /\ Len(queue) \in Nat /\ DOMAIN queue = 1 .. Len(queue) /\ pivot \in Nat
  BY <1>0, QueueType DEF ImportDone, Imported, Typed
<1>2. /\ pc' = IF in_place_resume THEN "nuke" ELSE "dry"
      /\ saved' = saved \cup contents
      /\ det_done' = IF saved # {} THEN det_done
           ELSE {queue[n].content : n \in {m \in DOMAIN queue : queue[m].passed_det}}
      /\ UNCHANGED <<out_dir, queueDir, resumeDir, stats, queue, queue_cur, made, pivot,
                     in_place_resume, ended>>
  BY DEF ImportDone, disk, running, memory
<1>3. saved' = contents /\ contents \subseteq Content
  <2>1. saved \subseteq contents
    BY <1>0 DEF Importing
  <2>2. contents \subseteq Content
    BY <1>0, QueueType
  <2> QED
    BY <1>2, <2>1, <2>2
<1>4. queue_cur = 0 /\ Hole' = 0
  <2>1. queue_cur = 0
    BY <1>0 DEF Memory
  <2> QED
    BY <1>2, <2>1 DEF Hole
<1>5. \A n \in DOMAIN queue : queue[n].passed_det <=> queue[n].content \in det_done'
  <2>1. CASE saved # {}
    BY <1>0, <1>2, <2>1 DEF Importing
  <2>2. CASE saved = {}
    BY <1>0, <1>2, <2>2 DEF Importing, Distinct
  <2> QED
    BY <2>1, <2>2
<1>6. det_done' \subseteq saved'
  BY <1>0, <1>2 DEF Typed
<1>7. Typed'
  <2>1. Proper(queueDir)' /\ Proper(resumeDir)'
    BY <1>0, <1>2 DEF Typed, Proper
  <2>2. pc' \in Steps
    BY <1>2 DEF Steps
  <2> QED
    BY <1>0, <1>2, <1>3, <1>6, <2>1, <2>2 DEF Typed
<1>8. Memory'
  <2>1. ended = "none" /\ out_dir
    BY <1>0 DEF Memory
  <2> QED
    BY <1>0, <1>2, <2>1 DEF Memory
<1>9. Restoring' /\ Making' /\ Importing'
  BY <1>2 DEF Restoring, Starting, Making, Importing
<1>10. Session'
  <2>1. Vacant(resumeDir)' \/ pc' = "nuke"
    BY <1>0, <1>2 DEF Restoring, Starting, Vacant
  <2>2. \A i \in DOMAIN queueDir.files : i + 1 \in DOMAIN queue /\ queueDir.files[i] = queue[i + 1].content
    BY <1>0 DEF Importing
  <2>3. ASSUME NEW n \in DOMAIN queue
        PROVE  n - 1 \in DOMAIN queueDir.files /\ queueDir.files[n - 1] = queue[n].content
    <3>1. n - 1 \in 0 .. pivot - 2 /\ n - 1 + 1 = n
      BY <1>1
    <3>2. n - 1 \in DOMAIN queueDir.files
      BY <1>0, <3>1 DEF Importing
    <3> QED
      BY <2>2, <3>1, <3>2
  <2>4. ASSUME NEW i \in Nat
        PROVE  i \in queueDir.marks <=> i + 1 \in DOMAIN queue /\ queue[i + 1].passed_det
    <3>1. i + 1 \in DOMAIN queue => i < pivot - 1
      BY <1>1
    <3> QED
      BY <1>0, <3>1 DEF Importing
  <2>5. Hole' - 1 \notin DOMAIN queueDir'.files
    <3>1. 0 - 1 \notin 0 .. pivot - 2
      OBVIOUS
    <3> QED
      BY <1>0, <1>2, <1>4, <3>1 DEF Importing
  <2>6. DOMAIN queue' \ {Hole'} = DOMAIN queue
    BY <1>1, <1>2, <1>4
  <2>7. Distinct' /\ queueDir'.depth = 3
    BY <1>0, <1>2 DEF Importing, Distinct
  <2>8. /\ \A i \in DOMAIN queueDir'.files : i + 1 \in DOMAIN queue'
        /\ \A n \in DOMAIN queue' \ {Hole'} :
             n - 1 \in DOMAIN queueDir'.files /\ queueDir'.files[n - 1] = queue'[n].content
        /\ \A i \in Nat : i \in queueDir'.marks <=>
             i + 1 \in DOMAIN queue' /\ queue'[i + 1].passed_det
    BY <1>2, <2>2, <2>3, <2>4, <2>6
  <2>9. /\ saved' = {queue'[n].content : n \in DOMAIN queue' \ {Hole'}}
        /\ \A n \in DOMAIN queue' \ {Hole'} :
             queue'[n].passed_det <=> queue'[n].content \in det_done'
    BY <1>2, <1>3, <1>5, <2>6
  <2> QED
    BY <1>2, <1>4, <2>1, <2>5, <2>7, <2>8, <2>9 DEF Session
<1> QED
  BY <1>2, <1>7, <1>8, <1>9, <1>10 DEF IInv

-----------------------------------------------------------------------------
(* The running session.                                                    *)

LEMMA NewFiles ==
  ASSUME NEW d, Proper(d), d.depth # 0, NEW F \in Files, IsFiniteSet(DOMAIN F),
         \A i, j \in DOMAIN F : F[i] = F[j] /\ F[i] # Partial => i = j,
         NEW e, e = [d EXCEPT !.files = F]
  PROVE  Proper(e) /\ e.files = F /\ e.depth = d.depth /\ e.marks = d.marks
<1>1. d \in Dir
  BY DEF Proper
<1>2. e \in Dir /\ e.files = F /\ e.depth = d.depth /\ e.marks = d.marks
  BY <1>1, DirUpdate
<1> QED
  BY <1>2 DEF Proper

(* Files that are written are those of the queue.                          *)
LEMMA SessionFiles ==
  ASSUME IInv, Running
  PROVE  /\ queueDir.files \in Files /\ IsFiniteSet(DOMAIN queueDir.files)
         /\ DOMAIN queueDir.files \subseteq Nat
         /\ queueDir.depth = 3 /\ Proper(queueDir) /\ Distinct /\ ended = "none"
         /\ \A i \in DOMAIN queueDir.files :
              /\ i + 1 \in DOMAIN queue
              /\ queueDir.files[i] # Partial => i + 1 # Hole /\ queueDir.files[i] = queue[i + 1].content
<1>1. Typed /\ Session /\ InSession /\ Memory
  BY DEF IInv, InSession
<1>2. /\ queueDir.files \in Files /\ IsFiniteSet(DOMAIN queueDir.files) /\ Proper(queueDir)
      /\ DOMAIN queueDir.files \subseteq Nat
  BY <1>1, DirUpdate, FilesParts DEF Typed, Proper
<1>3. queueDir.depth = 3 /\ Distinct /\ \A i \in DOMAIN queueDir.files : i + 1 \in DOMAIN queue
  BY <1>1 DEF Session
<1>4. ended = "none"
  BY <1>1 DEF Memory, Running
<1>5. ASSUME NEW i \in DOMAIN queueDir.files, queueDir.files[i] # Partial
      PROVE  i + 1 # Hole /\ queueDir.files[i] = queue[i + 1].content
  <2>1. i \in Nat /\ i + 1 - 1 = i
    BY <1>2
  <2>2. i + 1 # Hole
    BY <1>1, <1>5, <2>1 DEF Session
  <2> QED
    BY <1>1, <1>3, <2>1, <2>2 DEF Session
<1> QED
  BY <1>2, <1>3, <1>4, <1>5

LEMMA FilesDistinct ==
  ASSUME NEW F, DOMAIN F \subseteq Nat, Distinct,
         \A i \in DOMAIN F : F[i] # Partial => i + 1 \in DOMAIN queue /\ F[i] = queue[i + 1].content
  PROVE  \A i, j \in DOMAIN F : F[i] = F[j] /\ F[i] # Partial => i = j
<1> SUFFICES ASSUME NEW i \in DOMAIN F, NEW j \in DOMAIN F, F[i] = F[j], F[i] # Partial
             PROVE  i = j
  OBVIOUS
<1>1. i + 1 = j + 1
  BY DEF Distinct
<1>2. i \in Nat /\ j \in Nat
  OBVIOUS
<1> QED
  BY <1>1, <1>2

(* The parts of the invariant that a step of a running session leaves.     *)
LEMMA SessionStep ==
  ASSUME IInv, Running, Running', Session', Proper(queueDir'), queue' \in Seq(Entry),
         queue_cur' \in Nat, queue_cur' # 0 <=> pc' \in {"unlinked", "emptied"},
         det_done' \subseteq saved',
         UNCHANGED <<out_dir, resumeDir, stats, pivot, in_place_resume, made, ended>>
  PROVE  IInv'
<1>1. Typed /\ Memory
  BY DEF IInv
<1>2. saved' \subseteq Content
  <2>1. \A n \in DOMAIN queue' : queue'[n] \in Entry
    OBVIOUS
  <2>2. \A n \in DOMAIN queue' : queue'[n].content \in Content
    BY <2>1 DEF Entry
  <2>3. saved' = {queue'[n].content : n \in DOMAIN queue' \ {Hole'}}
    BY DEF Session, InSession
  <2> QED
    BY <2>2, <2>3
<1>3. Typed'
  <2>1. Proper(queueDir)' /\ Proper(resumeDir)'
    BY <1>1 DEF Typed, Proper
  <2>2. pc' \in Steps
    BY DEF Steps, Running
  <2> QED
    BY <1>1, <1>2, <2>1, <2>2 DEF Typed
<1>4. Memory'
  <2>1. pc # "off" /\ pc' \notin {"off", "clean", "mkdir", "scan", "nuke"}
    BY DEF Running
  <2> QED
    BY <1>1, <2>1 DEF Memory
<1>5. Restoring' /\ Making' /\ Importing' /\ pc' # "off"
  BY DEF Restoring, Starting, Making, Importing, Running
<1> QED
  BY <1>3, <1>4, <1>5 DEF IInv

(* The name of a new test case is never taken.                             *)
LEMMA CreateCaseIInv ==
  ASSUME IInv, NEW c \in Content, CreateCase(c)
  PROVE  IInv'
<1> DEFINE L == Len(queue)
           e == [content |-> c, passed_det |-> FALSE, trim_done |-> FALSE]
<1>0. /\ Running /\ InSession /\ Typed /\ Session /\ Memory /\ pc = "fuzz"
      /\ \A n \in DOMAIN queue : queue[n].content # c
  BY DEF IInv, CreateCase, Running, InSession
<1>1. L \in Nat /\ DOMAIN queue = 1 .. L /\ queue \in Seq(Entry)
  BY <1>0, QueueType DEF Typed
<1>2. queue_cur = 0 /\ Hole = 0 /\ DOMAIN queue \ {Hole} = DOMAIN queue
  BY <1>0, <1>1 DEF Memory, Hole
<1>3. L \notin DOMAIN queueDir.files
  <2>1. L + 1 \notin DOMAIN queue
    BY <1>1
  <2> QED
    BY <1>0, <2>1, SessionFiles
<1>4. /\ queue' = Append(queue, e) /\ pc' = "write"
      /\ queueDir' = [queueDir EXCEPT !.files = With(queueDir.files, L, Partial)]
      /\ UNCHANGED <<out_dir, resumeDir, stats, queue_cur, made, pivot, in_place_resume, ended, saved,
                     det_done>>
  BY <1>3 DEF CreateCase, running, memory, history
<1>5. PICK F \in Files :
        /\ F = With(queueDir.files, L, Partial)
        /\ DOMAIN F = DOMAIN queueDir.files \cup {L} /\ F[L] = Partial
        /\ \A j \in DOMAIN queueDir.files \ {L} : F[j] = queueDir.files[j]
        /\ IsFiniteSet(DOMAIN queueDir.files) => IsFiniteSet(DOMAIN F)
  <2>1. PICK G \in Files : G = queueDir.files
    BY <1>0, SessionFiles
  <2>2. /\ With(G, L, Partial) \in Files /\ DOMAIN With(G, L, Partial) = DOMAIN G \cup {L}
        /\ With(G, L, Partial)[L] = Partial
        /\ \A j \in DOMAIN G \ {L} : With(G, L, Partial)[j] = G[j]
        /\ IsFiniteSet(DOMAIN G) => IsFiniteSet(DOMAIN With(G, L, Partial))
    BY <1>1, WithFile
  <2> QED
    BY <2>1, <2>2
<1>6. \A i \in DOMAIN F : F[i] # Partial =>
        i \in DOMAIN queueDir.files /\ F[i] = queueDir.files[i]
  BY <1>5
<1>7. /\ Proper(queueDir') /\ queueDir'.files = F /\ queueDir'.depth = 3
      /\ queueDir'.marks = queueDir.marks
  <2>1. DOMAIN F \subseteq Nat
    BY <1>0, <1>1, <1>5, SessionFiles
  <2>2. \A i \in DOMAIN F : F[i] # Partial => i + 1 \in DOMAIN queue /\ F[i] = queue[i + 1].content
    BY <1>0, <1>6, SessionFiles
  <2>3. \A i, j \in DOMAIN F : F[i] = F[j] /\ F[i] # Partial => i = j
    BY <1>0, <2>1, <2>2, FilesDistinct, SessionFiles
  <2>4. IsFiniteSet(DOMAIN F) /\ Proper(queueDir) /\ queueDir.depth = 3
    BY <1>0, <1>5, SessionFiles
  <2>5. queueDir' = [queueDir EXCEPT !.files = F]
    BY <1>4, <1>5
  <2> QED
    BY <2>3, <2>4, <2>5, NewFiles
<1>8. /\ queue' \in Seq(Entry) /\ DOMAIN queue' = 1 .. L + 1 /\ queue'[L + 1] = e
      /\ Len(queue') = L + 1
      /\ \A n \in 1 .. L : queue'[n] = queue[n]
  <2>1. e \in Entry
    BY DEF Entry
  <2> HIDE DEF e
  <2> QED
    BY <1>1, <1>4, <2>1
<1>9. Hole' = L + 1 /\ DOMAIN queue' \ {Hole'} = DOMAIN queue /\ Hole' - 1 = L
  BY <1>1, <1>4, <1>8 DEF Hole
<1>10. Distinct'
  <2>1. \A n \in 1 .. L : queue'[n].content # queue'[L + 1].content
    BY <1>0, <1>1, <1>8
  <2>2. \A m, n \in 1 .. L : queue'[m].content = queue'[n].content => m = n
    <3>1. \A m, n \in 1 .. L : queue[m].content = queue[n].content => m = n
      BY <1>0, <1>1, SessionFiles DEF Distinct
    <3> HIDE DEF e
    <3> QED
      BY <1>8, <3>1
  <2>3. \A n \in DOMAIN queue' : n \in 1 .. L \/ n = L + 1
    BY <1>1, <1>8
  <2> QED
    BY <2>1, <2>2, <2>3 DEF Distinct
<1>11. Session'
  <2>1. Vacant(resumeDir)'
    BY <1>0, <1>4 DEF Session, Vacant
  <2>2. \A i \in DOMAIN queueDir'.files : i + 1 \in DOMAIN queue'
    <3>1. L + 1 \in DOMAIN queue' /\ DOMAIN queue \subseteq DOMAIN queue'
      BY <1>1, <1>8
    <3> QED
      BY <1>0, <1>5, <1>7, <3>1, SessionFiles
  <2>3. ASSUME NEW n \in DOMAIN queue
        PROVE  n - 1 \in DOMAIN queueDir'.files /\ queueDir'.files[n - 1] = queue'[n].content
    <3>1. n - 1 \in DOMAIN queueDir.files /\ queueDir.files[n - 1] = queue[n].content
      BY <1>0, <1>2 DEF Session
    <3>2. n - 1 # L
      BY <1>1
    <3> QED
      BY <1>1, <1>5, <1>7, <1>8, <3>1, <3>2
  <2>4. ASSUME NEW i \in Nat
        PROVE  i \in queueDir'.marks <=> i + 1 \in DOMAIN queue' /\ queue'[i + 1].passed_det
    <3>1. i \in queueDir'.marks <=> i + 1 \in DOMAIN queue /\ queue[i + 1].passed_det
      BY <1>0, <1>7 DEF Session
    <3>2. i + 1 \in DOMAIN queue' <=> i + 1 \in 1 .. L \/ i + 1 = L + 1
      BY <1>1, <1>8
    <3>3. ~queue'[L + 1].passed_det
      BY <1>8
    <3> QED
      BY <1>1, <1>8, <3>1, <3>2, <3>3
  <2>5. /\ Hole' \in DOMAIN queue' /\ Hole' - 1 \in DOMAIN queueDir'.files
        /\ queueDir'.files[Hole' - 1] = Partial /\ ~queue'[Hole'].passed_det
    BY <1>1, <1>5, <1>7, <1>8, <1>9
  <2>6. /\ saved' = {queue'[n].content : n \in DOMAIN queue' \ {Hole'}}
        /\ \A n \in DOMAIN queue' \ {Hole'} :
             queue'[n].passed_det <=> queue'[n].content \in det_done'
    <3>1. /\ saved = {queue[n].content : n \in DOMAIN queue}
          /\ \A n \in DOMAIN queue : queue[n].passed_det <=> queue[n].content \in det_done
      BY <1>0, <1>2 DEF Session
    <3>2. \A n \in DOMAIN queue : queue'[n] = queue[n]
      BY <1>1, <1>8
    <3> QED
      BY <1>4, <1>9, <3>1, <3>2
  <2>7. queueDir'.depth = 3
    BY <1>7
  <2>8. \A n \in DOMAIN queue' \ {Hole'} :
          n - 1 \in DOMAIN queueDir'.files /\ queueDir'.files[n - 1] = queue'[n].content
    BY <1>9, <2>3
  <2> QED
    BY <1>10, <2>1, <2>2, <2>4, <2>5, <2>6, <2>7, <2>8 DEF Session
<1>12. Running' /\ (queue_cur' # 0 <=> pc' \in {"unlinked", "emptied"}) /\ queue_cur' \in Nat
  BY <1>2, <1>4 DEF Running
<1>13. det_done' \subseteq saved'
  BY <1>0, <1>4 DEF Typed
<1> QED
  BY <1>0, <1>4, <1>7, <1>8, <1>11, <1>12, <1>13, SessionStep

LEMMA WriteCaseIInv == IInv /\ WriteCase => IInv'
<1> SUFFICES ASSUME IInv, WriteCase PROVE IInv'
  OBVIOUS
<1> DEFINE L == Len(queue)
<1>0. Running /\ InSession /\ Typed /\ Session /\ Memory /\ pc = "write"
  BY DEF IInv, WriteCase, Running, InSession
<1>1. /\ Hole = L /\ DOMAIN queue = 1 .. L /\ L \in DOMAIN queue /\ L \in Nat \ {0}
      /\ L - 1 \in DOMAIN queueDir.files /\ queue[L].content \in Content
      /\ ~queue[L].passed_det /\ queue_cur = 0
  <2>1. Hole = L /\ queue_cur = 0
    BY <1>0 DEF Hole, Memory
  <2>2. L \in Nat /\ DOMAIN queue = 1 .. L
    BY <1>0, QueueType
  <2>3. L - 1 \in DOMAIN queueDir.files /\ ~queue[L].passed_det
    BY <1>0, <2>1 DEF Session
  <2>4. L - 1 \in Nat /\ L - 1 + 1 \in DOMAIN queue
    BY <1>0, <2>3, SessionFiles
  <2>5. L \in Nat \ {0} /\ L \in 1 .. L
    BY <2>2, <2>4
  <2>6. queue[L].content \in Content
    BY <1>0, <2>2, <2>5, QueueType
  <2> QED
    BY <2>1, <2>2, <2>3, <2>5, <2>6
<1>2. /\ queueDir' = [queueDir EXCEPT !.files[L - 1] = queue[L].content]
      /\ saved' = saved \cup {queue[L].content} /\ pc' = "fuzz"
      /\ UNCHANGED <<out_dir, resumeDir, stats, queue, queue_cur, made, pivot, in_place_resume, ended,
                     det_done>>
  BY DEF WriteCase, running, memory
<1>3. PICK F \in Files :
        /\ F = [queueDir.files EXCEPT ![L - 1] = queue[L].content]
        /\ DOMAIN F = DOMAIN queueDir.files /\ F[L - 1] = queue[L].content
        /\ \A j \in DOMAIN queueDir.files \ {L - 1} : F[j] = queueDir.files[j]
  <2>1. PICK G \in Files : G = queueDir.files
    BY <1>0, SessionFiles
  <2>2. /\ G = [i \in DOMAIN G |-> G[i]] /\ DOMAIN G \subseteq Nat
        /\ \A i \in DOMAIN G : G[i] \in Content \cup {Partial}
    BY FilesParts
  <2>3. PICK F : F = [G EXCEPT ![L - 1] = queue[L].content]
    OBVIOUS
  <2>4. /\ DOMAIN F = DOMAIN G /\ F[L - 1] = queue[L].content
        /\ \A j \in DOMAIN G \ {L - 1} : F[j] = G[j]
        /\ F = [i \in DOMAIN F |-> F[i]]
    BY <1>1, <2>1, <2>2, <2>3
  <2>5. \A i \in DOMAIN F : F[i] \in Content \cup {Partial}
    BY <1>1, <2>2, <2>4
  <2>6. F \in Files
    BY <2>2, <2>4, <2>5, FilesParts
  <2> QED
    BY <2>1, <2>3, <2>4, <2>6
<1>4. \A i \in DOMAIN F : i \in Nat /\ (i = L - 1 <=> i + 1 = L)
  BY <1>0, <1>1, <1>3, SessionFiles
<1>5. /\ Proper(queueDir') /\ queueDir'.files = F /\ queueDir'.depth = 3
      /\ queueDir'.marks = queueDir.marks
  <2>1. \A i \in DOMAIN F : F[i] # Partial => i + 1 \in DOMAIN queue /\ F[i] = queue[i + 1].content
    BY <1>0, <1>1, <1>3, <1>4, SessionFiles
  <2>2. \A i, j \in DOMAIN F : F[i] = F[j] /\ F[i] # Partial => i = j
    BY <1>0, <1>4, <2>1, FilesDistinct, SessionFiles
  <2>3. IsFiniteSet(DOMAIN F) /\ Proper(queueDir) /\ queueDir.depth = 3
    BY <1>0, <1>3, SessionFiles
  <2>4. queueDir' = [queueDir EXCEPT !.files = F]
    BY <1>2, <1>3
  <2> QED
    BY <2>2, <2>3, <2>4, NewFiles
<1>6. Hole' = 0 /\ Hole' - 1 \notin DOMAIN queueDir'.files /\ DOMAIN queue' \ {Hole'} = DOMAIN queue
  <2>1. Hole' = 0
    BY <1>1, <1>2 DEF Hole
  <2>2. 0 - 1 \notin Nat /\ 0 \notin 1 .. L
    OBVIOUS
  <2> QED
    BY <1>1, <1>2, <1>4, <1>5, <2>1, <2>2
<1>7. queue[L].content \notin det_done
  <2>1. \A n \in DOMAIN queue \ {L} : queue[n].content # queue[L].content
    BY <1>0, <1>1, SessionFiles DEF Distinct
  <2>2. det_done \subseteq {queue[n].content : n \in DOMAIN queue \ {L}}
    BY <1>0, <1>1 DEF Session, Typed
  <2> QED
    BY <2>1, <2>2
<1>8. Session'
  <2>1. Vacant(resumeDir)' /\ Distinct' /\ queueDir'.depth = 3
    BY <1>0, <1>2, <1>5 DEF Session, Vacant, Distinct
  <2>2. \A i \in DOMAIN queueDir'.files : i + 1 \in DOMAIN queue'
    BY <1>0, <1>2, <1>3, <1>5, SessionFiles
  <2>3. ASSUME NEW n \in DOMAIN queue
        PROVE  n - 1 \in DOMAIN queueDir'.files /\ queueDir'.files[n - 1] = queue'[n].content
    <3>1. CASE n = L
      BY <1>1, <1>2, <1>3, <1>5, <3>1
    <3>2. CASE n # L
      <4>1. n - 1 \in DOMAIN queueDir.files /\ queueDir.files[n - 1] = queue[n].content
        BY <1>0, <1>1, <3>2 DEF Session
      <4>2. n - 1 # L - 1
        BY <1>1, <3>2
      <4> QED
        BY <1>2, <1>3, <1>5, <4>1, <4>2
    <3> QED
      BY <3>1, <3>2
  <2>4. \A i \in Nat : i \in queueDir'.marks <=> i + 1 \in DOMAIN queue' /\ queue'[i + 1].passed_det
    BY <1>0, <1>2, <1>5 DEF Session
  <2>5. /\ saved' = {queue'[n].content : n \in DOMAIN queue'}
        /\ \A n \in DOMAIN queue' : queue'[n].passed_det <=> queue'[n].content \in det_done'
    BY <1>0, <1>1, <1>2, <1>7 DEF Session
  <2> QED
    BY <1>2, <1>6, <2>1, <2>2, <2>3, <2>4, <2>5 DEF Session
<1>9. /\ Running' /\ (queue_cur' # 0 <=> pc' \in {"unlinked", "emptied"}) /\ queue_cur' \in Nat
      /\ queue' \in Seq(Entry) /\ det_done' \subseteq saved'
  BY <1>0, <1>1, <1>2 DEF Running, Typed
<1> QED
  BY <1>0, <1>2, <1>5, <1>8, <1>9, SessionStep

LEMMA TrimUnlinkIInv ==
  ASSUME IInv, NEW n \in DOMAIN queue, TrimUnlink(n)
  PROVE  IInv'
<1>0. Running /\ InSession /\ Typed /\ Session /\ Memory /\ pc = "fuzz"
  BY DEF IInv, TrimUnlink, Rewrite, Running, InSession
<1>1. /\ Hole = 0 /\ DOMAIN queue = 1 .. Len(queue) /\ n \in Nat \ {0} /\ DOMAIN queue \ {Hole} = DOMAIN queue
  <2>1. Hole = 0
    BY <1>0 DEF Hole, Memory
  <2>2. Len(queue) \in Nat /\ DOMAIN queue = 1 .. Len(queue)
    BY <1>0, QueueType
  <2> QED
    BY <2>1, <2>2
<1>2. /\ queueDir' = [queueDir EXCEPT !.files = Without(queueDir.files, n - 1)]
      /\ saved' = saved \ {queue[n].content} /\ det_done' = det_done \ {queue[n].content}
      /\ pc' = "unlinked" /\ queue_cur' = n
      /\ UNCHANGED <<out_dir, resumeDir, stats, queue, made, pivot, in_place_resume, ended>>
  BY DEF TrimUnlink, Rewrite
<1>3. PICK F \in Files :
        /\ F = Without(queueDir.files, n - 1) /\ DOMAIN F = DOMAIN queueDir.files \ {n - 1}
        /\ \A j \in DOMAIN queueDir.files \ {n - 1} : F[j] = queueDir.files[j]
        /\ IsFiniteSet(DOMAIN queueDir.files) => IsFiniteSet(DOMAIN F)
  <2>1. PICK G \in Files, i \in Nat : G = queueDir.files /\ i = n - 1
    BY <1>0, <1>1, SessionFiles
  <2>2. /\ Without(G, i) \in Files /\ DOMAIN Without(G, i) = DOMAIN G \ {i}
        /\ \A j \in DOMAIN G \ {i} : Without(G, i)[j] = G[j]
        /\ IsFiniteSet(DOMAIN G) => IsFiniteSet(DOMAIN Without(G, i))
    BY WithoutFile
  <2> QED
    BY <2>1, <2>2
<1>4. \A i \in DOMAIN F : i \in Nat
  BY <1>0, <1>3, SessionFiles
<1>5. /\ Proper(queueDir') /\ queueDir'.files = F /\ queueDir'.depth = 3
      /\ queueDir'.marks = queueDir.marks
  <2>1. \A i \in DOMAIN F : F[i] # Partial => i + 1 \in DOMAIN queue /\ F[i] = queue[i + 1].content
    BY <1>0, <1>3, SessionFiles
  <2>2. \A i, j \in DOMAIN F : F[i] = F[j] /\ F[i] # Partial => i = j
    BY <1>0, <1>4, <2>1, FilesDistinct, SessionFiles
  <2>3. IsFiniteSet(DOMAIN F) /\ Proper(queueDir) /\ queueDir.depth = 3
    BY <1>0, <1>3, SessionFiles
  <2>4. queueDir' = [queueDir EXCEPT !.files = F]
    BY <1>2, <1>3
  <2> QED
    BY <2>2, <2>3, <2>4, NewFiles
<1>6. Hole' = n /\ n - 1 \notin DOMAIN F
  BY <1>2, <1>3 DEF Hole
<1>7. \A m \in DOMAIN queue \ {n} : queue[m].content # queue[n].content
  BY <1>0, SessionFiles DEF Distinct
<1>8. Session'
  <2>1. Vacant(resumeDir)' /\ Distinct' /\ queueDir'.depth = 3
    BY <1>0, <1>2, <1>5 DEF Session, Vacant, Distinct
  <2>2. \A i \in DOMAIN queueDir'.files : i + 1 \in DOMAIN queue'
    BY <1>0, <1>2, <1>3, <1>5, SessionFiles
  <2>3. ASSUME NEW m \in DOMAIN queue \ {n}
        PROVE  m - 1 \in DOMAIN queueDir'.files /\ queueDir'.files[m - 1] = queue'[m].content
    <3>1. m - 1 \in DOMAIN queueDir.files /\ queueDir.files[m - 1] = queue[m].content
      BY <1>0, <1>1 DEF Session
    <3>2. m - 1 # n - 1
      BY <1>1
    <3> QED
      BY <1>2, <1>3, <1>5, <3>1, <3>2
  <2>4. \A i \in Nat : i \in queueDir'.marks <=> i + 1 \in DOMAIN queue' /\ queue'[i + 1].passed_det
    BY <1>0, <1>2, <1>5 DEF Session
  <2>5. /\ saved' = {queue'[m].content : m \in DOMAIN queue' \ {n}}
        /\ \A m \in DOMAIN queue' \ {n} : queue'[m].passed_det <=> queue'[m].content \in det_done'
    <3>1. /\ saved = {queue[m].content : m \in DOMAIN queue}
          /\ \A m \in DOMAIN queue : queue[m].passed_det <=> queue[m].content \in det_done
      BY <1>0, <1>1 DEF Session
    <3> QED
      BY <1>2, <1>7, <3>1
  <2> QED
    BY <1>2, <1>5, <1>6, <2>1, <2>2, <2>3, <2>4, <2>5 DEF Session
<1>9. /\ Running' /\ (queue_cur' # 0 <=> pc' \in {"unlinked", "emptied"}) /\ queue_cur' \in Nat
      /\ queue' \in Seq(Entry) /\ det_done' \subseteq saved'
  BY <1>0, <1>1, <1>2 DEF Running, Typed
<1> QED
  BY <1>0, <1>2, <1>5, <1>8, <1>9, SessionStep

LEMMA TrimCreateIInv == IInv /\ TrimCreate => IInv'
<1> SUFFICES ASSUME IInv, TrimCreate PROVE IInv'
  OBVIOUS
<1>0. /\ Running /\ InSession /\ Typed /\ Session /\ Memory /\ pc = "unlinked"
  BY DEF IInv, TrimCreate, Rewrite, Running, InSession
<1>1. PICK n \in DOMAIN queue : n = queue_cur /\ n \in Nat \ {0} /\ Hole = n
  <2>1. Hole = queue_cur /\ queue_cur # 0
    BY <1>0 DEF Hole, Memory
  <2>2. queue_cur \in Nat /\ queue_cur \in DOMAIN queue
    BY <1>0, <2>1 DEF Session, Typed
  <2> QED
    BY <2>1, <2>2
<1>2. /\ queueDir' = [queueDir EXCEPT !.files = With(queueDir.files, n - 1, Partial)]
      /\ pc' = "emptied"
      /\ UNCHANGED <<out_dir, resumeDir, stats, queue, queue_cur, made, pivot, in_place_resume, ended,
                     saved, det_done>>
  BY <1>1 DEF TrimCreate, Rewrite, history
<1>3. PICK F \in Files :
        /\ F = With(queueDir.files, n - 1, Partial)
        /\ DOMAIN F = DOMAIN queueDir.files \cup {n - 1} /\ F[n - 1] = Partial
        /\ \A j \in DOMAIN queueDir.files \ {n - 1} : F[j] = queueDir.files[j]
        /\ IsFiniteSet(DOMAIN queueDir.files) => IsFiniteSet(DOMAIN F)
  <2>1. PICK G \in Files, i \in Nat : G = queueDir.files /\ i = n - 1
    BY <1>0, <1>1, SessionFiles
  <2>2. /\ With(G, i, Partial) \in Files /\ DOMAIN With(G, i, Partial) = DOMAIN G \cup {i}
        /\ With(G, i, Partial)[i] = Partial
        /\ \A j \in DOMAIN G \ {i} : With(G, i, Partial)[j] = G[j]
        /\ IsFiniteSet(DOMAIN G) => IsFiniteSet(DOMAIN With(G, i, Partial))
    BY WithFile
  <2> QED
    BY <2>1, <2>2
<1>4. \A i \in DOMAIN F : i \in Nat /\ (F[i] # Partial => i \in DOMAIN queueDir.files /\ F[i] = queueDir.files[i])
  BY <1>0, <1>1, <1>3, SessionFiles
<1>5. /\ Proper(queueDir') /\ queueDir'.files = F /\ queueDir'.depth = 3
      /\ queueDir'.marks = queueDir.marks
  <2>1. \A i \in DOMAIN F : F[i] # Partial => i + 1 \in DOMAIN queue /\ F[i] = queue[i + 1].content
    BY <1>0, <1>4, SessionFiles
  <2>2. \A i, j \in DOMAIN F : F[i] = F[j] /\ F[i] # Partial => i = j
    BY <1>0, <1>4, <2>1, FilesDistinct, SessionFiles
  <2>3. IsFiniteSet(DOMAIN F) /\ Proper(queueDir) /\ queueDir.depth = 3
    BY <1>0, <1>3, SessionFiles
  <2>4. queueDir' = [queueDir EXCEPT !.files = F]
    BY <1>2, <1>3
  <2> QED
    BY <2>2, <2>3, <2>4, NewFiles
<1>6. Hole' = n
  BY <1>1, <1>2 DEF Hole
<1>8. Session'
  <2>1. Vacant(resumeDir)' /\ Distinct' /\ queueDir'.depth = 3
    BY <1>0, <1>2, <1>5 DEF Session, Vacant, Distinct
  <2>2. \A i \in DOMAIN queueDir'.files : i + 1 \in DOMAIN queue'
    <3>1. n - 1 + 1 = n
      BY <1>1
    <3> QED
      BY <1>0, <1>2, <1>3, <1>5, <3>1, SessionFiles
  <2>3. ASSUME NEW m \in DOMAIN queue \ {n}
        PROVE  m - 1 \in DOMAIN queueDir'.files /\ queueDir'.files[m - 1] = queue'[m].content
    <3>1. m - 1 \in DOMAIN queueDir.files /\ queueDir.files[m - 1] = queue[m].content
      BY <1>0, <1>1 DEF Session
    <3>2. m - 1 # n - 1
      <4>1. m \in Nat
        BY <1>0, QueueType
      <4> QED
        BY <1>1, <4>1
    <3> QED
      BY <1>2, <1>3, <1>5, <3>1, <3>2
  <2>4. \A i \in Nat : i \in queueDir'.marks <=> i + 1 \in DOMAIN queue' /\ queue'[i + 1].passed_det
    BY <1>0, <1>2, <1>5 DEF Session
  <2>5. /\ saved' = {queue'[m].content : m \in DOMAIN queue' \ {n}}
        /\ \A m \in DOMAIN queue' \ {n} : queue'[m].passed_det <=> queue'[m].content \in det_done'
    BY <1>0, <1>1, <1>2 DEF Session
  <2>6. queueDir'.files[n - 1] = Partial
    BY <1>3, <1>5
  <2> QED
    BY <1>1, <1>2, <1>6, <2>1, <2>2, <2>3, <2>4, <2>5, <2>6 DEF Session
<1>9. /\ Running' /\ (queue_cur' # 0 <=> pc' \in {"unlinked", "emptied"}) /\ queue_cur' \in Nat
      /\ queue' \in Seq(Entry) /\ det_done' \subseteq saved'
  BY <1>0, <1>1, <1>2 DEF Running, Typed
<1> QED
  BY <1>0, <1>2, <1>5, <1>8, <1>9, SessionStep

LEMMA TrimWriteIInv == IInv /\ TrimWrite => IInv'
<1> SUFFICES ASSUME IInv, TrimWrite PROVE IInv'
  OBVIOUS
<1>0. Running /\ InSession /\ Typed /\ Session /\ Memory /\ pc = "emptied"
  BY DEF IInv, TrimWrite, Rewrite, Running, InSession
<1>1. PICK n \in DOMAIN queue : n = queue_cur /\ n \in Nat \ {0} /\ Hole = n
  <2>1. Hole = queue_cur /\ queue_cur # 0
    BY <1>0 DEF Hole, Memory
  <2>2. queue_cur \in Nat /\ queue_cur \in DOMAIN queue
    BY <1>0, <2>1 DEF Session, Typed
  <2> QED
    BY <2>1, <2>2
<1>2. PICK q \in Entry : q = queue[n] /\ q.content \in Content
  BY <1>0, QueueType
<1>3. /\ queueDir' = [queueDir EXCEPT !.files = With(queueDir.files, n - 1, q.content)]
      /\ queue' = [queue EXCEPT ![n].trim_done = TRUE]
      /\ pc' = "fuzz" /\ queue_cur' = 0
      /\ saved' = saved \cup {q.content}
      /\ det_done' = IF q.passed_det THEN det_done \cup {q.content} ELSE det_done
      /\ UNCHANGED <<out_dir, resumeDir, stats, made, pivot, in_place_resume, ended>>
  BY <1>1, <1>2 DEF TrimWrite, Rewrite
<1>4. /\ queue' \in Seq(Entry) /\ DOMAIN queue' = DOMAIN queue /\ Len(queue') = Len(queue)
      /\ \A m \in DOMAIN queue : /\ queue'[m].content = queue[m].content
                                 /\ queue'[m].passed_det = queue[m].passed_det
  <2>1. PICK e \in Entry : e = [q EXCEPT !.trim_done = TRUE]
    BY DEF Entry
  <2>2. e.content = q.content /\ e.passed_det = q.passed_det
    BY <2>1 DEF Entry
  <2>3. queue' = [queue EXCEPT ![n] = e]
    BY <1>2, <1>3, <2>1
  <2>4. queue \in Seq(Entry)
    BY <1>0 DEF Typed
  <2>5. queue' \in Seq(Entry) /\ DOMAIN queue' = DOMAIN queue /\ Len(queue') = Len(queue)
    BY <2>3, <2>4
  <2>6. queue'[n] = e /\ \A m \in DOMAIN queue \ {n} : queue'[m] = queue[m]
    BY <2>3, <2>4
  <2> QED
    BY <1>2, <2>2, <2>5, <2>6
<1>5. PICK F \in Files :
        /\ F = With(queueDir.files, n - 1, q.content)
        /\ DOMAIN F = DOMAIN queueDir.files \cup {n - 1} /\ F[n - 1] = q.content
        /\ \A j \in DOMAIN queueDir.files \ {n - 1} : F[j] = queueDir.files[j]
        /\ IsFiniteSet(DOMAIN queueDir.files) => IsFiniteSet(DOMAIN F)
  <2>1. PICK G \in Files, i \in Nat, c \in Content \cup {Partial} :
          G = queueDir.files /\ i = n - 1 /\ c = q.content
    BY <1>0, <1>1, <1>2, SessionFiles
  <2>2. /\ With(G, i, c) \in Files /\ DOMAIN With(G, i, c) = DOMAIN G \cup {i}
        /\ With(G, i, c)[i] = c
        /\ \A j \in DOMAIN G \ {i} : With(G, i, c)[j] = G[j]
        /\ IsFiniteSet(DOMAIN G) => IsFiniteSet(DOMAIN With(G, i, c))
    BY WithFile
  <2> QED
    BY <2>1, <2>2
<1>6. \A i \in DOMAIN F : i \in Nat /\ (i = n - 1 <=> i + 1 = n)
  BY <1>0, <1>1, <1>5, SessionFiles
<1>7. /\ Proper(queueDir') /\ queueDir'.files = F /\ queueDir'.depth = 3
      /\ queueDir'.marks = queueDir.marks
  <2>1. \A i \in DOMAIN F : F[i] # Partial => i + 1 \in DOMAIN queue /\ F[i] = queue[i + 1].content
    BY <1>0, <1>2, <1>5, <1>6, SessionFiles
  <2>2. \A i, j \in DOMAIN F : F[i] = F[j] /\ F[i] # Partial => i = j
    BY <1>0, <1>6, <2>1, FilesDistinct, SessionFiles
  <2>3. IsFiniteSet(DOMAIN F) /\ Proper(queueDir) /\ queueDir.depth = 3
    BY <1>0, <1>5, SessionFiles
  <2>4. queueDir' = [queueDir EXCEPT !.files = F]
    BY <1>3, <1>5
  <2> QED
    BY <2>2, <2>3, <2>4, NewFiles
<1>8. Hole' = 0 /\ Hole' - 1 \notin DOMAIN queueDir'.files /\ DOMAIN queue' \ {Hole'} = DOMAIN queue
  <2>1. Hole' = 0
    BY <1>3 DEF Hole
  <2>2. 0 - 1 \notin Nat /\ 0 \notin 1 .. Len(queue)
    OBVIOUS
  <2>3. DOMAIN queue = 1 .. Len(queue)
    BY <1>0, QueueType
  <2> QED
    BY <1>4, <1>6, <1>7, <2>1, <2>2, <2>3
<1>9. q.content \notin det_done
  <2>1. \A m \in DOMAIN queue \ {n} : queue[m].content # q.content
    BY <1>0, <1>2, SessionFiles DEF Distinct
  <2>2. det_done \subseteq {queue[m].content : m \in DOMAIN queue \ {n}}
    BY <1>0, <1>1 DEF Session, Typed
  <2> QED
    BY <2>1, <2>2
<1>10. Session'
  <2>1. Vacant(resumeDir)' /\ queueDir'.depth = 3
    BY <1>0, <1>3, <1>7 DEF Session, Vacant
  <2>2. Distinct'
    BY <1>0, <1>4, SessionFiles DEF Distinct
  <2>3. \A i \in DOMAIN queueDir'.files : i + 1 \in DOMAIN queue'
    BY <1>0, <1>4, <1>5, <1>6, <1>7, SessionFiles
  <2>4. ASSUME NEW m \in DOMAIN queue
        PROVE  m - 1 \in DOMAIN queueDir'.files /\ queueDir'.files[m - 1] = queue'[m].content
    <3>1. CASE m = n
      BY <1>2, <1>4, <1>5, <1>7, <3>1
    <3>2. CASE m # n
      <4>1. m - 1 \in DOMAIN queueDir.files /\ queueDir.files[m - 1] = queue[m].content
        BY <1>0, <1>1, <3>2 DEF Session
      <4>2. m - 1 # n - 1
        <5>1. m \in Nat
          BY <1>0, QueueType
        <5> QED
          BY <1>1, <3>2, <5>1
      <4> QED
        BY <1>4, <1>5, <1>7, <4>1, <4>2
    <3> QED
      BY <3>1, <3>2
  <2>5. \A i \in Nat : i \in queueDir'.marks <=> i + 1 \in DOMAIN queue' /\ queue'[i + 1].passed_det
    <3>1. \A i \in Nat : i \in queueDir.marks <=> i + 1 \in DOMAIN queue /\ queue[i + 1].passed_det
      BY <1>0 DEF Session
    <3> QED
      BY <1>4, <1>7, <3>1
  <2>6. saved' = {queue'[m].content : m \in DOMAIN queue'}
    <3>1. saved = {queue[m].content : m \in DOMAIN queue \ {n}}
      BY <1>0, <1>1 DEF Session
    <3>2. saved' = {queue[m].content : m \in DOMAIN queue}
      BY <1>2, <1>3, <3>1
    <3> QED
      BY <1>4, <3>2
  <2>7. \A m \in DOMAIN queue' : queue'[m].passed_det <=> queue'[m].content \in det_done'
    <3>1. ASSUME NEW m \in DOMAIN queue
          PROVE  queue[m].passed_det <=> queue[m].content \in det_done'
      <4>1. CASE m = n
        BY <1>2, <1>3, <1>9, <4>1
      <4>2. CASE m # n
        <5>1. queue[m].passed_det <=> queue[m].content \in det_done
          BY <1>0, <1>1, <4>2 DEF Session
        <5>2. queue[m].content # q.content
          BY <1>0, <1>2, <4>2, SessionFiles DEF Distinct
        <5> QED
          BY <1>3, <5>1, <5>2
      <4> QED
        BY <4>1, <4>2
    <3> QED
      BY <1>4, <3>1
  <2> QED
    BY <1>3, <1>4, <1>8, <2>1, <2>2, <2>3, <2>4, <2>5, <2>6, <2>7 DEF Session
<1>11. Running' /\ (queue_cur' # 0 <=> pc' \in {"unlinked", "emptied"}) /\ queue_cur' \in Nat
  BY <1>3 DEF Running
<1>12. det_done' \subseteq saved'
  BY <1>0, <1>3 DEF Typed
<1> QED
  BY <1>0, <1>3, <1>4, <1>7, <1>10, <1>11, <1>12, SessionStep

-----------------------------------------------------------------------------
(* Every step of a process that is not killed while it deletes _resume/    *)
(* keeps the invariant, if no new session is started over what such a      *)
(* process left.                                                           *)
LEMMA NextIInv ==
  ASSUME "nuke" \notin KillPoints, ~FreshOverLeftover, IInv, [Next]_vars
  PROVE  IInv'
<1>1. CASE Resume
  BY <1>1, ResumeIInv
<1>2. CASE ResumeNothing
  BY <1>2, EndingSteps
<1>3. CASE StartFresh
  BY <1>3, StartFreshIInv
<1>4. CASE RefuseFresh
  BY <1>4, EndingSteps
<1>5. CASE MalformedStats
  BY <1>5, EndingSteps
<1>6. CASE Kill
  BY <1>6, EndingSteps
<1>7. CASE CleanQueue
  BY <1>7, CleanQueueIInv
<1>8. CASE Cleaned
  BY <1>8, CleanedIInv
<1>9. CASE MakeDir
  BY <1>9, MakeDirIInv
<1>10. CASE ReadTestcases
  BY <1>10, ReadTestcasesIInv
<1>11. CASE LinkInput
  BY <1>11, LinkInputIInv
<1>12. CASE MarkInput
  BY <1>12, MarkInputIInv
<1>13. CASE ImportDone
  BY <1>13, ImportDoneIInv
<1>14. CASE NukeResumeDir
  BY <1>14, NukeResumeDirIInv
<1>15. ASSUME NEW c \in Content, CreateCase(c) PROVE IInv'
  BY <1>15, CreateCaseIInv
<1>16. CASE WriteCase
  BY <1>16, WriteCaseIInv
<1>17. ASSUME NEW n \in DOMAIN queue, TrimUnlink(n) PROVE IInv'
  BY <1>17, TrimUnlinkIInv
<1>18. CASE TrimCreate
  BY <1>18, TrimCreateIInv
<1>19. CASE TrimWrite
  BY <1>19, TrimWriteIInv
<1>20. CASE WriteStats
  BY <1>20, EndingSteps, QuietSteps
<1>21. CASE TruncateStats
  BY <1>21, QuietSteps
<1>22. CASE GrowOld
  BY <1>22, QuietSteps
<1>23. CASE HandleStopSig
  BY <1>23, QuietSteps
<1>24. CASE UNCHANGED vars
  BY <1>24, QuietSteps
<1> QED
  BY <1>1, <1>2, <1>3, <1>4, <1>5, <1>6, <1>7, <1>8, <1>9, <1>10, <1>11, <1>12, <1>13, <1>14,
     <1>15, <1>16, <1>17, <1>18, <1>19, <1>20, <1>21, <1>22, <1>23, <1>24 DEF Next

LEMMA InvariantHolds ==
  ASSUME "nuke" \notin KillPoints, ~FreshOverLeftover
  PROVE  Spec => []IInv
<1>1. Init => IInv
  BY InitIInv
<1>2. IInv /\ [Next]_vars => IInv'
  BY NextIInv
<1> QED
  BY <1>1, <1>2, PTL DEF Spec

(* However often and wherever else the processes of a session are killed,  *)
(* the next one has in its queue all the test cases the session ever wrote *)
(* in full.                                                                *)
THEOREM NoCaseIsLost ==
  ASSUME "nuke" \notin KillPoints, ~FreshOverLeftover
  PROVE  Spec => []NothingLost
<1>1. IInv => NothingLost
  BY DEF IInv, Session, InSession, NothingLost
<1> QED
  BY <1>1, InvariantHolds, PTL

(* ... and each of them has the flag it had.                               *)
THEOREM FlagsFollowCases ==
  ASSUME "nuke" \notin KillPoints, ~FreshOverLeftover
  PROVE  Spec => []FlagsCarried
<1>1. IInv => FlagsCarried
  <2> SUFFICES ASSUME IInv, Running, NEW n \in DOMAIN queue \ {queue_cur}
               PROVE  queue[n].passed_det <=> queue[n].content \in det_done
    BY DEF FlagsCarried
  <2>1. Session /\ InSession /\ Typed
    BY DEF IInv, InSession
  <2>2. CASE n # Hole
    BY <2>1, <2>2 DEF Session
  <2>3. CASE n = Hole
    <3>1. pc = "write" /\ ~queue[n].passed_det
      <4>1. pc = "write"
        BY <2>3 DEF Hole
      <4> QED
        BY <2>1, <2>3, <4>1 DEF Session
    <3>2. \A m \in DOMAIN queue \ {n} : queue[m].content # queue[n].content
      BY SessionFiles DEF Distinct
    <3>3. det_done \subseteq {queue[m].content : m \in DOMAIN queue \ {n}}
      BY <2>1, <2>3 DEF Session, Typed
    <3> QED
      BY <3>1, <3>2, <3>3
  <2> QED
    BY <2>2, <2>3
<1> QED
  BY <1>1, InvariantHolds, PTL

(* At every moment the session is in full in the directory a resume would  *)
(* import, or in queue/ while _resume/ is deleted.                         *)
THEOREM SessionIsOnDisk ==
  ASSUME "nuke" \notin KillPoints, ~FreshOverLeftover
  PROVE  Spec => []Recoverable
<1>1. IInv => Recoverable
  <2> SUFFICES ASSUME IInv, NEW c \in saved
               PROVE  IF pc = "nuke" THEN Holds(queueDir, c) ELSE Holds(NextInput, c)
    BY DEF Recoverable
  <2>1. CASE pc = "nuke"
    <3>1. Session /\ Typed /\ InSession /\ Memory
      BY <2>1 DEF IInv, InSession
    <3>2. Hole = 0
      BY <2>1, <3>1 DEF Hole, Memory
    <3>3. PICK n \in DOMAIN queue : n # Hole /\ queue[n].content = c
      BY <3>1 DEF Session
    <3>4. n \in Nat \ {0}
      BY <3>1, QueueType
    <3>5. n - 1 \in Nat /\ n - 1 + 1 = n
      BY <3>4
    <3>6. /\ n - 1 \in DOMAIN queueDir.files /\ queueDir.files[n - 1] = c
          /\ c \in det_done => n - 1 \in queueDir.marks
      BY <3>1, <3>3, <3>5 DEF Session
    <3> QED
      BY <2>1, <3>6 DEF Holds
  <2>2. CASE pc # "nuke"
    <3>1. Complete(NextInput)
      BY <2>2, CompleteInput
    <3>2. c # Partial
      BY ConstantsAssumption DEF IInv, Typed
    <3> QED
      BY <2>2, <3>1, <3>2 DEF Complete, Holds
  <2> QED
    BY <2>1, <2>2
<1> QED
  BY <1>1, InvariantHolds, PTL

(* No start of a session that has saved something ends in a fatal error    *)
(* but for statistics that were cut short.                                 *)
THEOREM StartsGoThrough ==
  ASSUME "nuke" \notin KillPoints, ~FreshOverLeftover
  PROVE  Spec => []ResumeNeverStuck
<1>1. IInv => ResumeNeverStuck
  BY DEF IInv, Memory, ResumeNeverStuck
<1> QED
  BY <1>1, InvariantHolds, PTL
=============================================================================
