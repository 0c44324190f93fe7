--------------------------------- MODULE Sync ---------------------------------
(***************************************************************************)
(* Fuzzers that share a sync directory: sync_fuzzers (src/afl-fuzz.c), the *)
(* writes to the queue directories that it reads while they happen, and    *)
(* the stop and in-place resume of any of the fuzzers at any time.         *)
(*                                                                         *)
(* A test case is the one thing it discovers, its edge.  A fuzzer keeps an *)
(* input when the edge is new to it (Triage has the whole story).  The id  *)
(* of a test case is its place in the queue directory, counted from 0.     *)
(* SessionResume shows what happens to the files of a session; here the    *)
(* resume of a fuzzer is seen from the others: its queue directory is gone *)
(* for a while, and returns without the files that were empty.             *)
(***************************************************************************)
EXTENDS Integers, Sequences, FiniteSets

CONSTANTS
  Fuzzers,
  Edges,
  MaxStops,           \* bound: stops and crashes in all
  MaxTrims            \* bound: test cases rewritten by trim_case

ASSUME SyncAssumption ==
  IsFiniteSet(Fuzzers) /\ IsFiniteSet(Edges) /\ MaxStops \in Nat /\ MaxTrims \in Nat

VARIABLES
  files,              \* the queue directory: for each id the edge, and if it is written
  known,              \* virgin_bits: the edges seen in this process
  synced,             \* .synced/<party>: the ids below it are not looked at again
  pc,
  left,               \* the entries of sync_dir still to come
  party,              \* whose queue is being read
  next_min_accept,
  listed,             \* the ids in the directory when it was opened
  seen,               \* the ids readdir has returned
  stops, trims,
  missed,             \* history: <<reader, party, id>> passed by without being run
  lost                \* history: <<fuzzer, edge>> whose file did not survive

scan == <<left, party, next_min_accept, listed, seen>>
history == <<stops, trims, missed, lost>>
vars == <<files, known, synced, pc, scan, history>>

(* A fuzzer never reads its own queue directory: as a party it is nobody.  *)
Nobody(f) == f
Ids(f) == 0 .. Len(files[f]) - 1
File(f, id) == files[f][id + 1]
Running(f) == pc[f] # "resuming"

Init ==
  /\ files = [f \in Fuzzers |-> <<>>]
  /\ known = [f \in Fuzzers |-> {}]
  /\ synced = [f \in Fuzzers |-> [g \in Fuzzers |-> 0]]
  /\ pc = [f \in Fuzzers |-> "fuzz"]
  /\ left = [f \in Fuzzers |-> {}]
  /\ party = [f \in Fuzzers |-> Nobody(f)]
  /\ next_min_accept = [f \in Fuzzers |-> 0]
  /\ listed = [f \in Fuzzers |-> {}] /\ seen = [f \in Fuzzers |-> {}]
  /\ stops = 0 /\ trims = 0 /\ missed = {} /\ lost = {}

-----------------------------------------------------------------------------
(* The queue directory of a fuzzer changes.                                *)

(* save_if_interesting: the file is created, and written in a second step. *)
Forgetful(f, e) == UNCHANGED known \* fault: an import does not clear the virgin map
Learn(f, e) == known' = [known EXCEPT ![f] = @ \cup {e}]

Save(f, e) ==
  /\ e \notin known[f]
  /\ Learn(f, e)
  /\ files' = [files EXCEPT ![f] = Append(@, [edge |-> e, written |-> FALSE])]

Discover(f) ==
  /\ pc[f] = "fuzz"
  /\ \E e \in Edges : Save(f, e)
  /\ pc' = [pc EXCEPT ![f] = "save"]
  /\ UNCHANGED <<synced, scan, history>>

Complete(f) == [n \in DOMAIN files[f] |-> [files[f][n] EXCEPT !.written = TRUE]]

(* The write of the new file; a sync goes on where it was.                 *)
WriteCase(f) ==
  /\ pc[f] = "save"
  /\ files' = [files EXCEPT ![f] = Complete(f)]
  /\ pc' = [pc EXCEPT ![f] = IF party[f] = Nobody(f) THEN "fuzz" ELSE "sync"]
  /\ UNCHANGED <<known, synced, scan, history>>

(* trim_case unlinks the file of an entry and creates it again.            *)
Trim(f) ==
  /\ pc[f] = "fuzz" /\ trims < MaxTrims
  /\ trims' = trims + 1
  /\ \E id \in Ids(f) : files' = [files EXCEPT ![f][id + 1].written = FALSE]
  /\ pc' = [pc EXCEPT ![f] = "save"]
  /\ UNCHANGED <<known, synced, scan, stops, missed, lost>>

-----------------------------------------------------------------------------
(* sync_fuzzers.                                                           *)

StartSync(f) ==
  /\ pc[f] = "fuzz"
  /\ pc' = [pc EXCEPT ![f] = "sync"]
  /\ left' = [left EXCEPT ![f] = Fuzzers \ {f}]
  /\ UNCHANGED <<files, known, synced, party, next_min_accept, listed, seen, history>>

NoQueueDir(f, g) ==
  /\ ~Running(g)
  /\ UNCHANGED <<synced, party, next_min_accept, listed, seen>>

EarlyMark(f, g) ==
  synced' = [synced EXCEPT ![f][g] = Len(files[g])] \* fault: the mark is written first
NoMarkYet(f, g) == UNCHANGED synced

OpenQueueDir(f, g) ==
  /\ Running(g)
  /\ NoMarkYet(f, g)
  /\ party' = [party EXCEPT ![f] = g]
  /\ next_min_accept' = [next_min_accept EXCEPT ![f] = synced[f][g]]
  /\ listed' = [listed EXCEPT ![f] = Ids(g)]
  /\ seen' = [seen EXCEPT ![f] = {}]

OpenParty(f) ==
  /\ pc[f] = "sync" /\ party[f] = Nobody(f)
  /\ \E g \in left[f] :
       /\ left' = [left EXCEPT ![f] = @ \ {g}]
       /\ NoQueueDir(f, g) \/ OpenQueueDir(f, g)
  /\ UNCHANGED <<files, known, pc, history>>

(* readdir returns the ids listed at first in any order, and of those that *)
(* have come since any or none.                                            *)
Readable(f) == (listed[f] \cup Ids(party[f])) \ seen[f]

(* open fails while the directory is gone, and an empty file is ignored.   *)
Unreadable(g, id) ==
  id \notin {i \in Ids(g) : Running(g) /\ File(g, i).written}

Mark(f) == synced[f][party[f]]
Accepted(f, id) == id >= Mark(f)

PassBy(f, id) ==
  /\ Unreadable(party[f], id)
  /\ missed' = missed \cup {<<f, party[f], id>>}
  /\ UNCHANGED <<files, known, pc>>

RunKnown(f, id) ==
  /\ ~Unreadable(party[f], id) /\ File(party[f], id).edge \in known[f]
  /\ UNCHANGED <<files, known, pc, missed>>

Import(f, id) ==
  /\ ~Unreadable(party[f], id)
  /\ Save(f, File(party[f], id).edge)
  /\ pc' = [pc EXCEPT ![f] = "save"]
  /\ UNCHANGED missed

SeeCase(f) ==
  /\ pc[f] = "sync" /\ party[f] # Nobody(f)
  /\ \E id \in Readable(f) :
       /\ Accepted(f, id)
       /\ seen' = [seen EXCEPT ![f] = @ \cup {id}]
       /\ next_min_accept' = [next_min_accept EXCEPT ![f] = IF id >= @ THEN id + 1 ELSE @]
       /\ PassBy(f, id) \/ RunKnown(f, id) \/ Import(f, id)
  /\ UNCHANGED <<synced, left, party, listed, stops, trims, lost>>

OldMark(f) == Mark(f) \* fault: the mark is written back as it was
NewMark(f) == next_min_accept[f]

CloseParty(f) ==
  /\ pc[f] = "sync" /\ party[f] # Nobody(f)
  /\ \A id \in listed[f] \ seen[f] : ~Accepted(f, id)
  /\ synced' = [synced EXCEPT ![f][party[f]] = NewMark(f)]
  /\ missed' = missed \cup
       {<<f, party[f], id>> : id \in (Mark(f) .. next_min_accept[f] - 1) \ seen[f]}
  /\ party' = [party EXCEPT ![f] = Nobody(f)]
  /\ next_min_accept' = [next_min_accept EXCEPT ![f] = 0]
  /\ listed' = [listed EXCEPT ![f] = {}] /\ seen' = [seen EXCEPT ![f] = {}]
  /\ UNCHANGED <<files, known, pc, left, stops, trims, lost>>

EndSync(f) ==
  /\ pc[f] = "sync" /\ party[f] = Nobody(f) /\ left[f] = {}
  /\ pc' = [pc EXCEPT ![f] = "fuzz"]
  /\ UNCHANGED <<files, known, synced, scan, history>>

-----------------------------------------------------------------------------
(* A stop leaves sync_fuzzers without writing the mark, a kill anything    *)
(* at all; the user resumes the session, and the queue directory is moved  *)
(* away.                                                                   *)
Stop(f) ==
  /\ Running(f) /\ stops < MaxStops
  /\ stops' = stops + 1
  /\ pc' = [pc EXCEPT ![f] = "resuming"]
  /\ left' = [left EXCEPT ![f] = {}]
  /\ party' = [party EXCEPT ![f] = Nobody(f)]
  /\ next_min_accept' = [next_min_accept EXCEPT ![f] = 0]
  /\ listed' = [listed EXCEPT ![f] = {}] /\ seen' = [seen EXCEPT ![f] = {}]
  /\ UNCHANGED <<files, known, synced, trims, missed, lost>>

Empty(f) == {id \in Ids(f) : ~File(f, id).written}
Written(f) == Ids(f) \ Empty(f)

(* scandir gives the names in order, and read_testcases ignores an empty   *)
(* file: the nth entry of the queue is the nth file that is written.       *)
Nth(f, n) == CHOOSE id \in Written(f) :
               Cardinality({i \in Written(f) : i < id}) = n - 1
Imported(f) == [n \in 1 .. Cardinality(Written(f)) |-> File(f, Nth(f, n))]

Passed(g, f) == IF party[g] = f THEN next_min_accept[g] ELSE synced[g][f]
Renumbered(g, f) == {id \in 0 .. Passed(g, f) - 1 : \E e \in Empty(f) : e <= id}

(* The files are imported again, without the empty ones, and numbered from *)
(* 0: an id behind an empty file stands for another test case now, which a *)
(* reader whose mark is beyond it does not look at.                        *)
Resumed(f) ==
  /\ pc[f] = "resuming"
  /\ files' = [files EXCEPT ![f] = Imported(f)]
  /\ known' = [known EXCEPT ![f] = {File(f, id).edge : id \in Written(f)}]
  /\ lost' = lost \cup {<<f, File(f, id).edge>> : id \in Empty(f)}
  /\ missed' = missed \cup
       UNION {{<<g, f, id>> : id \in Renumbered(g, f)} : g \in Fuzzers}
  /\ pc' = [pc EXCEPT ![f] = "fuzz"]
  /\ UNCHANGED <<synced, scan, stops, trims>>

Go(f) ==
  \/ WriteCase(f) \/ OpenParty(f) \/ SeeCase(f) \/ CloseParty(f) \/ EndSync(f)
  \/ Resumed(f)

Next ==
  \E f \in Fuzzers : Discover(f) \/ Trim(f) \/ StartSync(f) \/ Go(f) \/ Stop(f)

(* The loop of main syncs again and again, and a sync comes to its end:    *)
(* the fuzzers are processes that all get their share of the machine.      *)
Fairness == \A f \in Fuzzers : WF_vars(Go(f)) /\ WF_vars(StartSync(f))

Spec == Init /\ [][Next]_vars /\ Fairness

-----------------------------------------------------------------------------
(* Properties.                                                             *)

(* A mark only passes test cases the reader has run and kept if they were  *)
(* new, through stops at any point of a sync: the exceptions are those     *)
(* that were unreadable when their turn came, those that were numbered     *)
(* anew behind a lost file, and those whose copy the reader itself lost.   *)
MarkedIsKnown ==
  \A f, g \in Fuzzers : Running(f) => \A id \in Ids(g) :
    id < synced[f][g] =>
      File(g, id).edge \in known[f] \/ <<f, g, id>> \in missed
        \/ <<f, File(g, id).edge>> \in lost

(* Imports do not echo: what a fuzzer has taken from another comes back to *)
(* that one as a test case of the first, and is not kept again.            *)
NoEcho ==
  \A f \in Fuzzers : \A i, j \in Ids(f) :
    i # j => File(f, i).edge # File(f, j).edge

(* However the fuzzers interleave, every mark reaches the end of the queue *)
(* it is about: no test case waits for ever to be looked at.               *)
MarksCatchUp ==
  []<>(\A f \in Fuzzers : \A g \in Fuzzers \ {f} : synced[f][g] >= Len(files[g]))
=============================================================================
