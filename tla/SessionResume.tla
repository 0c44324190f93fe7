--------------------------- MODULE SessionResume ---------------------------
(***************************************************************************)
(* The output directory across sessions (src/afl-fuzz.c): what a start of  *)
(* afl-fuzz deletes, moves aside and imports (maybe_delete_out_dir,        *)
(* setup_dirs_fds, read_testcases, pivot_inputs, nuke_resume_dir), what a  *)
(* running session does in it (save_if_interesting, trim_case,             *)
(* write_stats_file), and processes that die between any two system calls. *)
(*                                                                         *)
(* A directory is queue/ or _resume/ with its .state/deterministic_done/;  *)
(* the other three directories of .state hold nothing a session is         *)
(* restored from but dictionary guesses, and live and die like this one.   *)
(* A file is named by the number after "id:".  What a dead process wrote   *)
(* stays written: the machine itself does not crash.                       *)
(*                                                                         *)
(* In this program fuzz_one leaves for the havoc stage right after L-BFGS  *)
(* and never gets to its call of mark_as_det_done: the flags of            *)
(* .state/deterministic_done come with the input directory, one a stock    *)
(* afl-fuzz has written, and are carried from one process to the next.     *)
(***************************************************************************)
EXTENDS Integers, Sequences, FiniteSets

CONSTANTS
  Content,            \* what test cases can contain
  Seeds,              \* the contents in the directory given with -i
  SeedsDetDone,       \* those it flags as deterministic_done
  MaxPaths,           \* bound: entries a session may have
  MaxKills,           \* bound: processes that are killed
  KillPoints,         \* where a process may be killed
  FreshOverLeftover   \* a new session may be started over a left _resume/

Steps == {"clean", "mkdir", "scan", "link", "mark", "nuke", "dry", "fuzz",
          "write", "unlinked", "emptied", "stats"}

Partial == "created, not written"

ASSUME ConstantsAssumption ==
  /\ Partial \notin Content
  /\ Seeds \subseteq Content /\ Seeds # {} /\ SeedsDetDone \subseteq Seeds
  /\ IsFiniteSet(Seeds)
  /\ MaxPaths \in Nat /\ Cardinality(Seeds) <= MaxPaths
  /\ MaxKills \in Nat
  /\ KillPoints \subseteq Steps
  /\ FreshOverLeftover \in BOOLEAN

VARIABLES
  (* on disk *)
  out_dir,         \* the output directory exists
  queueDir, resumeDir,
  stats,           \* fuzzer_stats: none, the run time it reports, or torn
  (* in the process *)
  pc,              \* where the process is, "off" when there is none
  in_place_resume,
  queue,           \* the linked list
  queue_cur,       \* the entry being trimmed, 0 when there is none
  made,            \* setup_dirs_fds: the directories it has made
  pivot,           \* pivot_inputs: the entry it is at
  old,             \* it has run for more than OUTPUT_GRACE
  stop_soon,
  ended,           \* how the last process ended
  kills,
  (* history *)
  saved,           \* what this session has written in full
  det_done         \* ... and its first import flagged as deterministic_done

disk    == <<out_dir, queueDir, resumeDir, stats>>
memory  == <<in_place_resume, queue_cur, made>>
signals == <<old, stop_soon>>
running == <<memory, signals, ended, kills>>
process == <<pc, queue, pivot, running>>
history == <<saved, det_done>>
vars    == <<disk, process, history>>

(* depth counts the nested directories that exist: queue/, .state/ and     *)
(* .state/deterministic_done/.                                             *)
NoFiles == [i \in {} |-> Partial]
Absent  == [depth |-> 0, files |-> NoFiles, marks |-> {}]
Vacant(d) == d.depth = 0 \/ (d.depth = 1 /\ DOMAIN d.files = {})

With(files, i, c) ==
  [j \in DOMAIN files \cup {i} |-> IF j = i THEN c ELSE files[j]]
Without(files, i) == [j \in DOMAIN files \ {i} |-> files[j]]

-----------------------------------------------------------------------------
Init ==
  /\ out_dir = FALSE /\ queueDir = Absent /\ resumeDir = Absent /\ stats = "none"
  /\ pc = "off" /\ in_place_resume = FALSE /\ queue = <<>>
  /\ queue_cur = 0 /\ made = 0 /\ pivot = 1 /\ old = FALSE /\ stop_soon = FALSE
  /\ ended = "none" /\ kills = 0
  /\ saved = {} /\ det_done = {}

(* The process ends: its memory is gone, the directory is unlocked.        *)
End(how) ==
  /\ pc' = "off" /\ ended' = how
  /\ in_place_resume' = FALSE /\ queue' = <<>> /\ queue_cur' = 0
  /\ made' = 0 /\ pivot' = 1 /\ old' = FALSE /\ stop_soon' = FALSE

Fatal == End("fatal") /\ UNCHANGED <<disk, kills, history>>

-----------------------------------------------------------------------------
(* maybe_delete_out_dir.  One process at a time passes the flock().        *)

(* Fault: the current queue/ is taken whatever _resume/ still holds.        *)
RenamableAlways == queueDir.depth > 0

(* rename() onto a directory fails unless that directory is empty.         *)
Renamable == queueDir.depth > 0 /\ Vacant(resumeDir)

(* afl-fuzz -i -                                                           *)
Resume ==
  /\ pc = "off" /\ out_dir /\ stats # "torn"
  /\ pc' = "clean" /\ in_place_resume' = TRUE /\ ended' = "none"
  /\ IF Renamable
     THEN resumeDir' = queueDir /\ queueDir' = Absent
     ELSE UNCHANGED <<resumeDir, queueDir>>
  /\ UNCHANGED <<out_dir, stats, queue, queue_cur, made, pivot, signals, kills, history>>

(* The mkdir() of the output directory went through: there is no session.  *)
ResumeNothing ==
  /\ pc = "off" /\ ~out_dir
  /\ End("fatal") /\ out_dir' = TRUE
  /\ UNCHANGED <<queueDir, resumeDir, stats, kills, history>>

(* A new session over data that the statistics do not protect: from here   *)
(* on the old session is no longer wanted.                                 *)
StartFresh ==
  /\ pc = "off" /\ stats \notin {"old", "torn"}
  /\ Vacant(resumeDir) \/ FreshOverLeftover
  /\ pc' = "clean" /\ in_place_resume' = FALSE /\ ended' = "none"
  /\ out_dir' = TRUE
  /\ saved' = {} /\ det_done' = {}
  /\ UNCHANGED <<queueDir, resumeDir, stats, queue, queue_cur, made, pivot, signals, kills>>

RefuseFresh ==
  /\ pc = "off" /\ stats = "old"
  /\ End("refused")
  /\ UNCHANGED <<disk, kills, history>>

(* Statistics cut short by a dead process stop both kinds of start.        *)
MalformedStats == pc = "off" /\ stats = "torn" /\ Fatal

(* One system call of delete_files and of the two rmdir around it: flags   *)
(* first, then .state, then the test cases, then the directory.  readdir   *)
(* gives files in any order.                                               *)
Unlink(d, smaller) ==
  \/ \E i \in d.marks : smaller = [d EXCEPT !.marks = @ \ {i}]
  \/ d.marks = {} /\ d.depth > 1 /\ smaller = [d EXCEPT !.depth = @ - 1]
  \/ /\ d.depth = 1
     /\ \E i \in DOMAIN d.files : smaller = [d EXCEPT !.files = Without(@, i)]
  \/ d.depth = 1 /\ DOMAIN d.files = {} /\ smaller = Absent

(* Fault: the emptied directory itself is left.                            *)
GoneButForItself(d) == d.depth <= 1 /\ DOMAIN d.files = {}

Gone(d) == d.depth = 0

CleanQueue ==
  /\ pc = "clean" /\ ~Gone(queueDir)
  /\ Unlink(queueDir, queueDir')
  /\ UNCHANGED <<out_dir, resumeDir, stats, process, history>>

(* fuzzer_stats goes last, and only for a new session.                     *)
Cleaned ==
  /\ pc = "clean" /\ Gone(queueDir)
  /\ pc' = "mkdir"
  /\ stats' = IF in_place_resume THEN stats ELSE "none"
  /\ UNCHANGED <<out_dir, queueDir, resumeDir, queue, pivot, running, history>>

-----------------------------------------------------------------------------
(* setup_dirs_fds: queue/, queue/.state/, .state/deterministic_done/.      *)
(* mkdir fails on one that is already there.                               *)
MakeDir ==
  /\ pc = "mkdir" /\ made < 3
  /\ IF queueDir.depth > made
     THEN Fatal
     ELSE /\ queueDir' = [queueDir EXCEPT !.depth = made + 1]
          /\ made' = made + 1
          /\ pc' = IF made' = 3 THEN "scan" ELSE "mkdir"
          /\ UNCHANGED <<out_dir, resumeDir, stats, in_place_resume, queue, queue_cur,
                         pivot, signals, ended, kills, history>>

(* read_testcases.  An empty file is passed over, a flag under the same    *)
(* name makes the entry passed_det, scandir gives the names in order.      *)
SeedFiles == CHOOSE f \in [0 .. Cardinality(Seeds) - 1 -> Seeds] :
               \A i, j \in DOMAIN f : f[i] = f[j] => i = j
InDir  == IF in_place_resume THEN resumeDir
          ELSE [depth |-> 3, files |-> SeedFiles,
                marks |-> {i \in DOMAIN SeedFiles :
                             SeedFiles[i] \in SeedsDetDone}]

Usable == {i \in DOMAIN InDir.files : InDir.files[i] # Partial}
Nth(n) == CHOOSE i \in Usable : Cardinality({j \in Usable : j < i}) = n - 1

(* Fault: the flag is looked up under the new number.                      *)
FlaggedByPlace(n) == n - 1 \in InDir.marks
Flagged(n) == Nth(n) \in InDir.marks

ReadTestcases ==
  /\ pc = "scan"
  /\ IF Usable = {}          \* no such directory, or nothing in it
     THEN Fatal
     ELSE /\ queue' = [n \in 1 .. Cardinality(Usable) |->
                        [content |-> InDir.files[Nth(n)],
                         passed_det |-> Flagged(n),
                         trim_done |-> FALSE]]
          /\ pc' = "link"
          /\ UNCHANGED <<disk, pivot, running, history>>

(* pivot_inputs: each entry gets the number of its place in the queue; a   *)
(* link to a name that is taken, or a flag that is set, ends the program.  *)
(* Fault: the last entry is never linked.                                  *)
ImportedButLast == pivot >= Len(queue)

Imported == pivot > Len(queue)

(* link_or_copy: neither the link nor the copy replaces a file.            *)
Taken(i) == i \in DOMAIN queueDir.files

LinkInput ==
  /\ pc = "link" /\ ~Imported
  /\ IF Taken(pivot - 1)
     THEN Fatal
     ELSE /\ queueDir' = [queueDir EXCEPT
               !.files = With(@, pivot - 1, queue[pivot].content)]
          /\ IF queue[pivot].passed_det
             THEN pc' = "mark" /\ UNCHANGED pivot
             ELSE UNCHANGED pc /\ pivot' = pivot + 1
          /\ UNCHANGED <<out_dir, resumeDir, stats, queue, running, history>>

MarkInput ==
  /\ pc = "mark"
  /\ IF pivot - 1 \in queueDir.marks
     THEN Fatal
     ELSE /\ queueDir' = [queueDir EXCEPT !.marks = @ \cup {pivot - 1}]
          /\ pc' = "link" /\ pivot' = pivot + 1
          /\ UNCHANGED <<out_dir, resumeDir, stats, queue, running, history>>

(* The first import of a session to finish says what the session is.       *)
ImportDone ==
  /\ pc = "link" /\ Imported
  /\ pc' = IF in_place_resume THEN "nuke" ELSE "dry"
  /\ saved' = saved \cup {queue[n].content : n \in DOMAIN queue}
  /\ det_done' = IF saved # {} THEN det_done
       ELSE {queue[n].content : n \in {m \in DOMAIN queue : queue[m].passed_det}}
  /\ UNCHANGED <<disk, queue, pivot, running>>

(* nuke_resume_dir.                                                        *)
NukeResumeDir ==
  /\ pc = "nuke"
  /\ IF Gone(resumeDir)
     THEN pc' = "dry" /\ UNCHANGED resumeDir
     ELSE Unlink(resumeDir, resumeDir') /\ UNCHANGED pc
  /\ UNCHANGED <<out_dir, queueDir, stats, queue, pivot, running, history>>

-----------------------------------------------------------------------------
(* The running session.                                                    *)

(* save_if_interesting names the file by queued_paths, queues the entry    *)
(* and creates the file; the contents follow with the write.               *)
CreateCase(c) ==
  /\ pc = "fuzz" /\ ~stop_soon /\ Len(queue) < MaxPaths
  /\ c \notin {queue[n].content : n \in DOMAIN queue}
  /\ IF Len(queue) \in DOMAIN queueDir.files
     THEN Fatal
     ELSE /\ queue' = Append(queue, 
               [content |-> c, passed_det |-> FALSE, trim_done |-> FALSE])
          /\ queueDir' = [queueDir EXCEPT !.files = With(@, Len(queue), Partial)]
          /\ pc' = "write"
          /\ UNCHANGED <<out_dir, resumeDir, stats, pivot, running, history>>

WriteCase ==
  /\ pc = "write"
  /\ LET last == Len(queue) IN
     /\ queueDir' = [queueDir EXCEPT !.files[last - 1] = queue[last].content]
     /\ saved' = saved \cup {queue[last].content}
  /\ pc' = "fuzz"
  /\ UNCHANGED <<out_dir, resumeDir, stats, queue, pivot, running, det_done>>

(* trim_case rewrites the file of an entry that got smaller: it unlinks    *)
(* it, creates it again and writes it.  From the first to the last of      *)
(* these the test case is only in memory, and the session has not saved    *)
(* it.  Its flag stays all along.                                          *)
Rewrite(from, to, files) ==
  /\ pc = from /\ pc' = to
  /\ queueDir' = [queueDir EXCEPT !.files = files]
  /\ UNCHANGED <<out_dir, resumeDir, stats, pivot, in_place_resume, made, signals, ended,
                 kills>>

TrimUnlink(n) ==
  /\ ~stop_soon /\ ~queue[n].trim_done
  /\ Rewrite("fuzz", "unlinked", Without(queueDir.files, n - 1))
  /\ queue_cur' = n
  /\ saved' = saved \ {queue[n].content}
  /\ det_done' = det_done \ {queue[n].content}
  /\ UNCHANGED queue

TrimCreate ==
  /\ Rewrite("unlinked", "emptied",
             With(queueDir.files, queue_cur - 1, Partial))
  /\ UNCHANGED <<queue, queue_cur, history>>

TrimWrite ==
  LET q == queue[queue_cur] IN
  /\ Rewrite("emptied", "fuzz",
             With(queueDir.files, queue_cur - 1, q.content))
  /\ queue' = [queue EXCEPT ![queue_cur].trim_done = TRUE]
  /\ queue_cur' = 0
  /\ saved' = saved \cup {q.content}
  /\ det_done' = IF q.passed_det THEN det_done \cup {q.content} ELSE det_done

(* write_stats_file, after the dry run, from time to time while fuzzing    *)
(* and on the way out: the file is truncated, then written.                *)
TruncateStats ==
  /\ pc \in {"dry", "fuzz"}
  /\ pc' = "stats" /\ stats' = "torn"
  /\ UNCHANGED <<out_dir, queueDir, resumeDir, queue, pivot, running, history>>

WriteStats ==
  /\ pc = "stats"
  /\ stats' = IF old THEN "old" ELSE "young"
  /\ IF stop_soon
     THEN End("stopped")
     ELSE pc' = "fuzz" /\ UNCHANGED <<memory, queue, pivot, signals, ended>>
  /\ UNCHANGED <<out_dir, queueDir, resumeDir, kills, history>>

GrowOld ==
  /\ pc = "fuzz" /\ ~old
  /\ old' = TRUE
  /\ UNCHANGED <<disk, pc, queue, pivot, memory, stop_soon, ended, kills, history>>

(* A stop signal before the dry run is acted upon after it, as this one.   *)
HandleStopSig ==
  /\ pc \in {"dry", "fuzz"} /\ ~stop_soon
  /\ stop_soon' = TRUE
  /\ UNCHANGED <<disk, pc, queue, pivot, memory, old, ended, kills, history>>

Kill ==
  /\ pc \in KillPoints /\ kills < MaxKills
  /\ End("killed") /\ kills' = kills + 1
  /\ UNCHANGED <<disk, history>>

-----------------------------------------------------------------------------
Next ==
  \/ Resume \/ ResumeNothing \/ StartFresh \/ RefuseFresh \/ MalformedStats
  \/ CleanQueue \/ Cleaned \/ MakeDir
  \/ ReadTestcases \/ LinkInput \/ MarkInput \/ ImportDone
  \/ NukeResumeDir
  \/ \E c \in Content : CreateCase(c)
  \/ WriteCase \/ TrimCreate \/ TrimWrite
  \/ \E n \in DOMAIN queue : TrimUnlink(n)
  \/ TruncateStats \/ WriteStats \/ GrowOld \/ HandleStopSig \/ Kill

Spec == Init /\ [][Next]_vars

-----------------------------------------------------------------------------
(* Properties.                                                             *)

Running == pc \in {"dry", "fuzz", "write", "unlinked", "emptied", "stats"}

(* A running session has in its queue every test case that was written in  *)
(* full since the session was first started, whatever number of its        *)
(* processes died and wherever, importing and cleaning up included: at     *)
(* most the one entry a process was rewriting as it died is missing.       *)
NothingLost == Running => saved \subseteq {queue[n].content : n \in DOMAIN queue}

(* The flags stay with their test cases: a running session does not repeat *)
(* deterministic fuzzing that was finished before, nor skip it for a test  *)
(* case that took over the number of a lost one.                           *)
FlagsCarried ==
  Running => \A n \in DOMAIN queue \ {queue_cur} :
    queue[n].passed_det <=> queue[n].content \in det_done

(* The directory the next resume would import.                             *)
NextInput == IF Vacant(resumeDir) THEN queueDir ELSE resumeDir
Holds(d, c) == \E i \in DOMAIN d.files :
  d.files[i] = c /\ (c \in det_done => i \in d.marks)

(* At every moment, between any two system calls, a process that dies      *)
(* leaves behind the session in full where the next resume will look.      *)
(* While _resume/ is being deleted that moment is not reached: queue/ is   *)
(* complete then, and it is the other directory that is looked at.         *)
Recoverable ==
  IF pc = "nuke"
  THEN \A c \in saved : Holds(queueDir, c)
  ELSE \A c \in saved : Holds(NextInput, c)

(* While there is a session to resume, no start ends in a fatal error on a *)
(* directory it finds half made or half deleted or on a name that is       *)
(* taken.  One thing does stop it: statistics cut short, which every start *)
(* refuses before it touches anything.                                     *)
ResumeNeverStuck == ended = "fatal" => saved = {} \/ stats = "torn"
=============================================================================
