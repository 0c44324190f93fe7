------------------------------ MODULE SyncProofs ------------------------------
(***************************************************************************)
(* Proofs about Sync, for any fuzzers and test cases and any number of     *)
(* stops: imports do not echo, and a mark passes no test case that was not *)
(* run, but for the exceptions that the history names.                     *)
(***************************************************************************)
EXTENDS Sync, Functions, FiniteSetTheorems, SequenceTheorems, TLAPS

-----------------------------------------------------------------------------
(* Files in the order of their numbers, as scandir gives them to           *)
(* read_testcases: the nth of a finite set of numbers is the one with      *)
(* n - 1 smaller ones.                                                     *)

Below(W, i) == {j \in W : j < i}
Rank(W, i)  == Cardinality(Below(W, i))

(* A larger number has a larger rank, and all ranks are below the size.    *)
LEMMA RankGrows ==
  ASSUME NEW W \in SUBSET Nat, IsFiniteSet(W), NEW i \in W, NEW j \in W, i < j
  PROVE  Rank(W, i) < Rank(W, j)
<1>0. \A k \in W : k \in Int
  OBVIOUS
<1>1. Below(W, i) \subseteq Below(W, j) /\ i \in Below(W, j) /\ i \notin Below(W, i)
  <2>1. ASSUME NEW k \in W, k < i PROVE k < j
    BY <1>0, <2>1
  <2>2. ~(i < i)
    BY <1>0
  <2> QED
    BY <2>1, <2>2 DEF Below
<1>2. IsFiniteSet(Below(W, j))
  BY FS_Subset DEF Below
<1> QED
  BY <1>1, <1>2, FS_Subset, FS_CardinalityType DEF Rank

LEMMA RankRange ==
  ASSUME NEW W \in SUBSET Nat, IsFiniteSet(W), NEW i \in W
  PROVE  Rank(W, i) \in 0 .. Cardinality(W) - 1
<1>1. Below(W, i) \subseteq W /\ i \notin Below(W, i)
  BY DEF Below
<1>2. /\ IsFiniteSet(Below(W, i)) /\ Cardinality(Below(W, i)) <= Cardinality(W)
      /\ Cardinality(Below(W, i)) # Cardinality(W)
  BY <1>1, FS_Subset
<1>3. Cardinality(Below(W, i)) \in Nat /\ Cardinality(W) \in Nat
  BY <1>2, FS_CardinalityType
<1> QED
  BY <1>2, <1>3 DEF Rank

LEMMA RankInjective ==
  ASSUME NEW W \in SUBSET Nat, IsFiniteSet(W), NEW i \in W, NEW j \in W,
         Rank(W, i) = Rank(W, j)
  PROVE  i = j
<1>1. Rank(W, i) \in Int /\ Rank(W, j) \in Int
  BY RankRange
<1>2. ~(i < j) /\ ~(j < i)
  BY <1>1, RankGrows
<1> QED
  BY <1>2

(* There is an nth number for every n up to the size of the set.           *)
LEMMA NthExists ==
  ASSUME NEW W \in SUBSET Nat, IsFiniteSet(W), NEW n \in 1 .. Cardinality(W)
  PROVE  \E i \in W : Rank(W, i) = n - 1
<1> DEFINE T == 0 .. Cardinality(W) - 1
           rank == [i \in W |-> Rank(W, i)]
<1>1. Cardinality(W) \in Nat
  BY FS_CardinalityType
<1>2. IsFiniteSet(T) /\ Cardinality(T) = Cardinality(W)
  <2>1. \A c \in Nat : IsFiniteSet(0 .. c - 1) /\ Cardinality(0 .. c - 1) = c
    BY FS_Interval
  <2> QED
    BY <1>1, <2>1
<1>3. rank \in Injection(W, T)
  BY RankRange, RankInjective DEF Injection, IsInjective
<1>4. rank \in Surjection(W, T)
  BY <1>2, <1>3, FS_Injection
<1>5. n - 1 \in T
  BY <1>1
<1> QED
  BY <1>4, <1>5 DEF Surjection

(* Up to the first gap the nth number is n - 1.                            *)
LEMMA RankOfPrefix ==
  ASSUME NEW W \in SUBSET Nat, IsFiniteSet(W), NEW i \in Nat, 0 .. i \subseteq W
  PROVE  Rank(W, i) = i /\ i + 1 \in 1 .. Cardinality(W)
<1>0. \A k \in W : k \in Nat
  OBVIOUS
<1>1. Below(W, i) = 0 .. i - 1
  <2>1. \A k : k \in Below(W, i) => k \in 0 .. i - 1
    BY <1>0 DEF Below
  <2>2. \A k : k \in 0 .. i - 1 => k \in W /\ k < i
    OBVIOUS
  <2> QED
    BY <2>1, <2>2 DEF Below
<1>2. Cardinality(0 .. i - 1) = i /\ IsFiniteSet(0 .. i) /\ Cardinality(0 .. i) = i + 1
  BY FS_Interval
<1>3. Cardinality(0 .. i) <= Cardinality(W) /\ Cardinality(W) \in Nat
  BY <1>2, FS_Subset, FS_CardinalityType
<1> QED
  BY <1>1, <1>2, <1>3 DEF Rank

-----------------------------------------------------------------------------
(* The inductive invariant.                                                *)

Case == [edge : Edges, written : BOOLEAN]

Typed ==
  /\ files \in [Fuzzers -> Seq(Case)]
  /\ known \in [Fuzzers -> SUBSET Edges]
  /\ synced \in [Fuzzers -> [Fuzzers -> Nat]]
  /\ pc \in [Fuzzers -> {"fuzz", "save", "sync", "resuming"}]
  /\ left \in [Fuzzers -> SUBSET Fuzzers]
  /\ party \in [Fuzzers -> Fuzzers]
  /\ next_min_accept \in [Fuzzers -> Nat]
  /\ listed \in [Fuzzers -> SUBSET Nat]
  /\ seen \in [Fuzzers -> SUBSET Nat]

(* A fuzzer has seen the edges of its own files and no other: virgin_bits  *)
(* and the queue directory say the same.                                   *)
Kept == \A f \in Fuzzers : known[f] = {File(f, id).edge : id \in Ids(f)}

(* A fuzzer does not read its own queue directory.                         *)
Apart == \A f \in Fuzzers : synced[f][f] = 0 /\ f \notin left[f]

(* Nothing more is to be done about the file with this number: its edge is *)
(* known to the reader, or the history has an excuse.                      *)
Settled(f, g, id) ==
  \/ <<f, g, id>> \in missed
  \/ /\ id \in Ids(g)
     /\ File(g, id).edge \in known[f] \/ <<f, File(g, id).edge>> \in lost

(* All below a mark is settled, also where the directory has become        *)
(* shorter than the mark.                                                  *)
Marked == \A f, g \in Fuzzers : \A id \in Nat : id < synced[f][g] => Settled(f, g, id)

(* ... and all that a sync in progress has seen.                           *)
Scanning ==
  \A f \in Fuzzers : party[f] # f =>
    /\ synced[f][party[f]] <= next_min_accept[f]
    /\ \A id \in seen[f] : id < next_min_accept[f] /\ Settled(f, party[f], id)

IInv == Typed /\ Kept /\ NoEcho /\ Apart /\ Marked /\ Scanning

LEMMA InitIInv == Init => IInv
<1> SUFFICES ASSUME Init PROVE IInv
  OBVIOUS
<1>1. Typed
  <2>1. files \in [Fuzzers -> Seq(Case)]
    BY DEF Init
  <2>2. known \in [Fuzzers -> SUBSET Edges] /\ pc \in [Fuzzers -> {"fuzz", "save", "sync", "resuming"}]
    BY DEF Init
  <2>3. synced \in [Fuzzers -> [Fuzzers -> Nat]] /\ next_min_accept \in [Fuzzers -> Nat]
    BY DEF Init
  <2>4. /\ left \in [Fuzzers -> SUBSET Fuzzers] /\ party \in [Fuzzers -> Fuzzers]
        /\ listed \in [Fuzzers -> SUBSET Nat] /\ seen \in [Fuzzers -> SUBSET Nat]
    BY DEF Init, Nobody
  <2> QED
    BY <2>1, <2>2, <2>3, <2>4 DEF Typed
<1>2. \A f \in Fuzzers : Ids(f) = {}
  BY DEF Init, Ids
<1>3. Kept /\ NoEcho
  BY <1>2 DEF Init, Kept, NoEcho
<1>4. Apart /\ Marked
  BY DEF Init, Apart, Marked
<1>5. Scanning
  BY DEF Init, Scanning, Nobody
<1> QED
  BY <1>1, <1>3, <1>4, <1>5 DEF IInv

-----------------------------------------------------------------------------
(* What happens to the files.                                              *)

LEMMA FileType ==
  ASSUME Typed, NEW f \in Fuzzers
  PROVE  /\ files[f] \in Seq(Case) /\ Len(files[f]) \in Nat
         /\ Ids(f) = 0 .. Len(files[f]) - 1
         /\ \A id \in Ids(f) : id \in Nat /\ id + 1 \in 1 .. Len(files[f])
                               /\ File(f, id) \in Case /\ File(f, id).edge \in Edges
<1>1. files[f] \in Seq(Case) /\ Len(files[f]) \in Nat
  BY DEF Typed
<1>2. \A id \in Ids(f) : id \in Nat /\ id + 1 \in 1 .. Len(files[f])
  BY <1>1 DEF Ids
<1>3. \A id \in Ids(f) : File(f, id) \in Case
  BY <1>1, <1>2 DEF File
<1> QED
  BY <1>1, <1>2, <1>3 DEF Ids, Case

(* Nothing of what was there before is gone.                               *)
Grown ==
  /\ missed \subseteq missed' /\ lost \subseteq lost'
  /\ \A f \in Fuzzers :
       /\ known[f] \subseteq known'[f]
       /\ \A id \in Ids(f) : id \in Ids(f)' /\ File(f, id).edge' = File(f, id).edge

LEMMA GrownSettled ==
  ASSUME Grown, NEW f \in Fuzzers, NEW g \in Fuzzers, NEW id, Settled(f, g, id)
  PROVE  Settled(f, g, id)'
BY DEF Grown, Settled

LEMMA SaveStep ==
  ASSUME Typed, Kept, NoEcho, NEW f \in Fuzzers, NEW e \in Edges, Save(f, e),
         missed \subseteq missed', lost' = lost
  PROVE  /\ files' \in [Fuzzers -> Seq(Case)] /\ known' \in [Fuzzers -> SUBSET Edges]
         /\ Kept' /\ NoEcho' /\ Grown /\ e \in known'[f]
<1>0. PICK n \in Nat : n = Len(files[f])
  BY FileType
<1>1. /\ e \notin known[f] /\ known' = [known EXCEPT ![f] = @ \cup {e}]
      /\ files' = [files EXCEPT ![f] = Append(@, [edge |-> e, written |-> FALSE])]
  BY DEF Save, Learn
<1>2. files[f] \in Seq(Case) /\ n \in Nat /\ [edge |-> e, written |-> FALSE] \in Case
  BY <1>0, FileType DEF Case
<1>3. /\ files'[f] \in Seq(Case) /\ Len(files'[f]) = n + 1
      /\ files'[f][n + 1] = [edge |-> e, written |-> FALSE]
      /\ \A i \in 1 .. n : files'[f][i] = files[f][i]
      /\ \A g \in Fuzzers \ {f} : files'[g] = files[g]
  BY <1>0, <1>1, <1>2 DEF Typed
<1>4. files' \in [Fuzzers -> Seq(Case)]
  <2>1. files' = [g \in Fuzzers |-> files'[g]]
    BY <1>1 DEF Typed
  <2>2. \A g \in Fuzzers : files'[g] \in Seq(Case)
    BY <1>3, FileType
  <2> QED
    BY <2>1, <2>2
<1>5. /\ known' \in [Fuzzers -> SUBSET Edges] /\ known'[f] = known[f] \cup {e}
      /\ \A g \in Fuzzers \ {f} : known'[g] = known[g]
  BY <1>1 DEF Typed
<1>6. Ids(f) = 0 .. n - 1 /\ Ids(f)' = 0 .. n
  BY <1>0, <1>2, <1>3 DEF Ids
<1>7. \A id \in Ids(f) : id \in Ids(f)' /\ File(f, id)' = File(f, id)
  BY <1>2, <1>3, <1>6 DEF File
<1>8. n \in Ids(f)' /\ File(f, n)' = [edge |-> e, written |-> FALSE]
  BY <1>2, <1>3, <1>6 DEF File
<1>9. \A g \in Fuzzers \ {f} : Ids(g)' = Ids(g) /\ \A id \in Ids(g) : File(g, id)' = File(g, id)
  BY <1>3 DEF Ids, File
<1>10. \A id \in Ids(f)' : id = n \/ id \in Ids(f)
  BY <1>2, <1>6
<1>11. Grown
  BY <1>5, <1>7, <1>9 DEF Grown
<1>12. Kept'
  <2>1. ASSUME NEW g \in Fuzzers PROVE known'[g] = {File(g, id)'.edge : id \in Ids(g)'}
    <3>1. CASE g = f
      BY <1>5, <1>7, <1>8, <1>10, <3>1 DEF Kept
    <3>2. CASE g # f
      BY <1>5, <1>9, <3>2 DEF Kept
    <3> QED
      BY <3>1, <3>2
  <2> QED
    BY <2>1 DEF Kept
<1>13. NoEcho'
  <2>1. ASSUME NEW g \in Fuzzers, NEW i \in Ids(g)', NEW j \in Ids(g)', i # j
        PROVE  File(g, i)'.edge # File(g, j)'.edge
    <3>1. CASE g = f
      <4>1. \A id \in Ids(f) : File(f, id).edge # e
        BY <1>1 DEF Kept
      <4> QED
        BY <1>7, <1>8, <1>10, <2>1, <3>1, <4>1 DEF NoEcho
    <3>2. CASE g # f
      BY <1>9, <2>1, <3>2 DEF NoEcho
    <3> QED
      BY <3>1, <3>2
  <2> QED
    BY <2>1 DEF NoEcho
<1> QED
  BY <1>4, <1>5, <1>11, <1>12, <1>13

(* The write of a file, and its removal before it is written again.        *)
LEMMA RewriteStep ==
  ASSUME Typed, Kept, NoEcho, NEW f \in Fuzzers,
         NEW S \in Seq(Case), Len(S) = Len(files[f]),
         \A id \in Ids(f) : S[id + 1].edge = File(f, id).edge,
         files' = [files EXCEPT ![f] = S],
         UNCHANGED <<known, missed, lost>>
  PROVE  files' \in [Fuzzers -> Seq(Case)] /\ Kept' /\ NoEcho' /\ Grown
<1>1. /\ files' \in [Fuzzers -> Seq(Case)] /\ files'[f] = S
      /\ \A g \in Fuzzers \ {f} : files'[g] = files[g]
  BY DEF Typed
<1>2. \A g \in Fuzzers : Ids(g)' = Ids(g)
  BY <1>1 DEF Ids
<1>3. \A g \in Fuzzers : \A id \in Ids(g) : File(g, id)'.edge = File(g, id).edge
  BY <1>1 DEF File
<1>4. Grown
  BY <1>2, <1>3 DEF Grown
<1>5. Kept'
  BY <1>2, <1>3 DEF Kept
<1>6. NoEcho'
  BY <1>2, <1>3 DEF NoEcho
<1> QED
  BY <1>1, <1>4, <1>5, <1>6

LEMMA WriteCaseFiles ==
  ASSUME Typed, Kept, NoEcho, NEW f \in Fuzzers, WriteCase(f)
  PROVE  files' \in [Fuzzers -> Seq(Case)] /\ Kept' /\ NoEcho' /\ Grown
<1>1. files[f] \in Seq(Case) /\ DOMAIN files[f] = 1 .. Len(files[f]) /\ Len(files[f]) \in Nat
  BY FileType
<1>2. \A n \in 1 .. Len(files[f]) :
        /\ [files[f][n] EXCEPT !.written = TRUE] \in Case
        /\ [files[f][n] EXCEPT !.written = TRUE].edge = files[f][n].edge
  <2> TAKE n \in 1 .. Len(files[f])
  <2>1. files[f][n] \in Case
    BY <1>1
  <2> QED
    BY <2>1 DEF Case
<1>3. Complete(f) \in Seq(Case) /\ Len(Complete(f)) = Len(files[f])
  BY <1>1, <1>2 DEF Complete
<1>4. \A id \in Ids(f) : Complete(f)[id + 1].edge = File(f, id).edge
  BY <1>1, <1>2, FileType DEF Complete, File
<1>5. files' = [files EXCEPT ![f] = Complete(f)] /\ UNCHANGED <<known, missed, lost>>
  BY DEF WriteCase, history
<1> QED
  BY <1>3, <1>4, <1>5, RewriteStep

LEMMA TrimFiles ==
  ASSUME Typed, Kept, NoEcho, NEW f \in Fuzzers, Trim(f)
  PROVE  files' \in [Fuzzers -> Seq(Case)] /\ Kept' /\ NoEcho' /\ Grown
<1>1. PICK id \in Ids(f) : files' = [files EXCEPT ![f][id + 1].written = FALSE]
  BY DEF Trim
<1> DEFINE S == [files[f] EXCEPT ![id + 1] = [@ EXCEPT !.written = FALSE]]
<1>2. files' = [files EXCEPT ![f] = S]
  BY <1>1
<1>3. files[f] \in Seq(Case) /\ Len(files[f]) \in Nat /\ id \in Nat /\ id + 1 \in 1 .. Len(files[f])
  BY FileType
<1>4. files[f][id + 1] \in Case
  BY <1>3
<1>5. [files[f][id + 1] EXCEPT !.written = FALSE] \in Case
      /\ [files[f][id + 1] EXCEPT !.written = FALSE].edge = files[f][id + 1].edge
  BY <1>4 DEF Case
<1>6. S \in Seq(Case) /\ Len(S) = Len(files[f])
  BY <1>3, <1>5
<1>7. \A i \in Ids(f) : S[i + 1].edge = File(f, i).edge
  BY <1>3, <1>5, FileType DEF File
<1>8. UNCHANGED <<known, missed, lost>>
  BY DEF Trim
<1> HIDE DEF S
<1> QED
  BY <1>2, <1>6, <1>7, <1>8, RewriteStep

(* The import of a resumed session: the files that were written, in their  *)
(* order.                                                                  *)
LEMMA NthIsWritten ==
  ASSUME Typed, NEW f \in Fuzzers
  PROVE  /\ Written(f) \in SUBSET Nat /\ Written(f) \subseteq Ids(f) /\ IsFiniteSet(Written(f))
         /\ Cardinality(Written(f)) \in Nat /\ Cardinality(Written(f)) <= Len(files[f])
         /\ \A n \in 1 .. Cardinality(Written(f)) :
              Nth(f, n) \in Written(f) /\ Rank(Written(f), Nth(f, n)) = n - 1
<1>1. Written(f) \in SUBSET Nat /\ Written(f) \subseteq Ids(f)
  BY FileType DEF Written
<1>2. IsFiniteSet(Ids(f)) /\ Cardinality(Ids(f)) = Len(files[f])
  <2>1. \A c \in Nat : IsFiniteSet(0 .. c - 1) /\ Cardinality(0 .. c - 1) = c
    BY FS_Interval
  <2> QED
    BY <2>1, FileType
<1>3. /\ IsFiniteSet(Written(f)) /\ Cardinality(Written(f)) \in Nat
      /\ Cardinality(Written(f)) <= Len(files[f])
  BY <1>1, <1>2, FS_Subset, FS_CardinalityType
<1>4. ASSUME NEW n \in 1 .. Cardinality(Written(f))
      PROVE  Nth(f, n) \in Written(f) /\ Rank(Written(f), Nth(f, n)) = n - 1
  <2>1. \E i \in Written(f) : Rank(Written(f), i) = n - 1
    BY <1>1, <1>3, NthExists
  <2> QED
    BY <2>1 DEF Nth, Rank, Below
<1> QED
  BY <1>1, <1>3, <1>4

LEMMA NthOfRank ==
  ASSUME Typed, NEW f \in Fuzzers, NEW id \in Written(f)
  PROVE  /\ Rank(Written(f), id) + 1 \in 1 .. Cardinality(Written(f))
         /\ Nth(f, Rank(Written(f), id) + 1) = id
<1>1. /\ Written(f) \in SUBSET Nat /\ IsFiniteSet(Written(f))
      /\ Cardinality(Written(f)) \in Nat
  BY NthIsWritten
<1>2. PICK n \in Nat : n = Rank(Written(f), id) /\ n \in 0 .. Cardinality(Written(f)) - 1
  BY <1>1, RankRange
<1>3. n + 1 \in 1 .. Cardinality(Written(f))
  BY <1>1, <1>2
<1>4. Nth(f, n + 1) \in Written(f) /\ Rank(Written(f), Nth(f, n + 1)) = n
  BY <1>2, <1>3, NthIsWritten
<1>5. Nth(f, n + 1) = id
  BY <1>1, <1>2, <1>4, RankInjective
<1> QED
  BY <1>2, <1>3, <1>5

(* Up to the first empty file nothing is renumbered.                       *)
LEMMA PrefixStays ==
  ASSUME Typed, NEW f \in Fuzzers, NEW id \in Nat, \A e \in Empty(f) : ~(e <= id), id \in Ids(f)
  PROVE  id + 1 \in 1 .. Cardinality(Written(f)) /\ Nth(f, id + 1) = id
<1>1. 0 .. id \subseteq Ids(f)
  BY FileType
<1>2. 0 .. id \subseteq Written(f)
  BY <1>1 DEF Written
<1>3. Written(f) \in SUBSET Nat /\ IsFiniteSet(Written(f)) /\ id \in Written(f)
  BY <1>2, NthIsWritten
<1>4. Rank(Written(f), id) = id /\ id + 1 \in 1 .. Cardinality(Written(f))
  BY <1>2, <1>3, RankOfPrefix
<1> QED
  BY <1>3, <1>4, NthOfRank

LEMMA ResumedFiles ==
  ASSUME Typed, Kept, NoEcho, NEW f \in Fuzzers, Resumed(f)
  PROVE  /\ files' \in [Fuzzers -> Seq(Case)] /\ known' \in [Fuzzers -> SUBSET Edges]
         /\ Kept' /\ NoEcho'
         /\ \A g \in Fuzzers \ {f} : files'[g] = files[g] /\ known'[g] = known[g]
         /\ \A id \in Ids(f) : (\A e \in Empty(f) : ~(e <= id)) =>
              id \in Ids(f)' /\ File(f, id)' = File(f, id)
         /\ \A e \in known[f] : e \in known'[f] \/ <<f, e>> \in lost'
<1>1. /\ files' = [files EXCEPT ![f] = Imported(f)]
      /\ known' = [known EXCEPT ![f] = {File(f, id).edge : id \in Written(f)}]
      /\ lost' = lost \cup {<<f, File(f, id).edge>> : id \in Empty(f)}
  BY DEF Resumed
<1>2. PICK c \in Nat : c = Cardinality(Written(f))
  BY NthIsWritten
<1>3. \A n \in 1 .. c : Nth(f, n) \in Written(f) /\ Nth(f, n) \in Ids(f)
                        /\ Rank(Written(f), Nth(f, n)) = n - 1
  BY <1>2, NthIsWritten
<1>4. Imported(f) = [n \in 1 .. c |-> File(f, Nth(f, n))]
  BY <1>2 DEF Imported
<1>5. Imported(f) \in Seq(Case) /\ Len(Imported(f)) = c
  <2>1. \A n \in 1 .. c : File(f, Nth(f, n)) \in Case
    BY <1>3, FileType
  <2> QED
    BY <1>4, <2>1
<1>6. /\ files' \in [Fuzzers -> Seq(Case)] /\ files'[f] = Imported(f)
      /\ \A g \in Fuzzers \ {f} : files'[g] = files[g]
  BY <1>1, <1>5 DEF Typed
<1>a. \A g \in Fuzzers \ {f} : Ids(g)' = Ids(g) /\ \A id : File(g, id)' = File(g, id)
  BY <1>6 DEF Ids, File
<1>7. /\ known' \in [Fuzzers -> SUBSET Edges]
      /\ known'[f] = {File(f, id).edge : id \in Written(f)}
      /\ \A g \in Fuzzers \ {f} : known'[g] = known[g]
  <2>1. {File(f, id).edge : id \in Written(f)} \subseteq Edges
    BY FileType, NthIsWritten
  <2> QED
    BY <1>1, <2>1 DEF Typed
<1>8. Ids(f)' = 0 .. c - 1
  BY <1>5, <1>6 DEF Ids
<1>9. \A id \in 0 .. c - 1 : File(f, id)' = File(f, Nth(f, id + 1)) /\ id + 1 \in 1 .. c
  BY <1>2, <1>4, <1>6 DEF File
<1>10. Kept'
  <2>1. known'[f] = {File(f, id)'.edge : id \in Ids(f)'}
    <3>1. ASSUME NEW id \in Written(f)
          PROVE  \E i \in 0 .. c - 1 : File(f, i)'.edge = File(f, id).edge
      <4>1. PICK i \in 0 .. c - 1 : i = Rank(Written(f), id) /\ Nth(f, i + 1) = id
        <5>1. Rank(Written(f), id) \in 0 .. c - 1
          BY <1>2, NthIsWritten, RankRange
        <5> QED
          BY <5>1, NthOfRank
      <4> QED
        BY <1>9, <4>1
    <3>2. ASSUME NEW i \in 0 .. c - 1
          PROVE  \E id \in Written(f) : File(f, i)'.edge = File(f, id).edge
      BY <1>3, <1>9
    <3> QED
      BY <1>7, <1>8, <3>1, <3>2
  <2>2. ASSUME NEW g \in Fuzzers \ {f} PROVE known'[g] = {File(g, id)'.edge : id \in Ids(g)'}
    BY <1>7, <1>a DEF Kept
  <2> QED
    BY <2>1, <2>2 DEF Kept
<1>11. NoEcho'
  <2>1. ASSUME NEW i \in 0 .. c - 1, NEW j \in 0 .. c - 1, i # j
        PROVE  File(f, i)'.edge # File(f, j)'.edge
    <3>1. Nth(f, i + 1) # Nth(f, j + 1)
      BY <1>3, <1>9, <2>1
    <3>2. Nth(f, i + 1) \in Ids(f) /\ Nth(f, j + 1) \in Ids(f)
      BY <1>3, <1>9
    <3> QED
      BY <1>9, <3>1, <3>2 DEF NoEcho
  <2>2. ASSUME NEW g \in Fuzzers \ {f}, NEW i \in Ids(g)', NEW j \in Ids(g)', i # j
        PROVE  File(g, i)'.edge # File(g, j)'.edge
    BY <1>a, <2>2 DEF NoEcho
  <2> QED
    BY <1>8, <2>1, <2>2 DEF NoEcho
<1>12. \A id \in Ids(f) : (\A e \in Empty(f) : ~(e <= id)) =>
         id \in Ids(f)' /\ File(f, id)' = File(f, id)
  <2> SUFFICES ASSUME NEW id \in Ids(f), \A e \in Empty(f) : ~(e <= id)
               PROVE  id \in Ids(f)' /\ File(f, id)' = File(f, id)
    OBVIOUS
  <2>1. id \in Nat /\ id + 1 \in 1 .. c /\ Nth(f, id + 1) = id
    BY <1>2, FileType, PrefixStays
  <2>2. id \in 0 .. c - 1
    BY <2>1
  <2> QED
    BY <1>8, <1>9, <2>1, <2>2
<1>13. \A e \in known[f] : e \in known'[f] \/ <<f, e>> \in lost'
  BY <1>1, <1>7 DEF Kept, Written
<1> QED
  BY <1>6, <1>7, <1>10, <1>11, <1>12, <1>13

-----------------------------------------------------------------------------
(* The steps.                                                              *)

(* The types of the variables a sync works with.                           *)
ScanTyped ==
  /\ synced \in [Fuzzers -> [Fuzzers -> Nat]]
  /\ pc \in [Fuzzers -> {"fuzz", "save", "sync", "resuming"}]
  /\ left \in [Fuzzers -> SUBSET Fuzzers]
  /\ party \in [Fuzzers -> Fuzzers]
  /\ next_min_accept \in [Fuzzers -> Nat]
  /\ listed \in [Fuzzers -> SUBSET Nat]
  /\ seen \in [Fuzzers -> SUBSET Nat]

LEMMA TypedParts ==
  Typed <=> /\ files \in [Fuzzers -> Seq(Case)] /\ known \in [Fuzzers -> SUBSET Edges]
            /\ ScanTyped
BY DEF Typed, ScanTyped

(* The scan of one fuzzer moves, and what is settled stays so while files, *)
(* edges and history only grow.                                            *)
LEMMA OneReader ==
  ASSUME Typed, Typed', Grown, Marked, Scanning, NEW f \in Fuzzers,
         \A h \in Fuzzers \ {f} :
           /\ synced'[h] = synced[h] /\ party'[h] = party[h] /\ seen'[h] = seen[h]
           /\ next_min_accept'[h] = next_min_accept[h],
         \A g \in Fuzzers : \A id \in Nat : id < synced'[f][g] => Settled(f, g, id)',
         \A g \in Fuzzers : party'[f] = g /\ g # f =>
           /\ synced'[f][g] <= next_min_accept'[f]
           /\ \A id \in seen'[f] : id < next_min_accept'[f] /\ Settled(f, g, id)'
  PROVE  Marked' /\ Scanning'
<1>1. Marked'
  <2> SUFFICES ASSUME NEW h \in Fuzzers, NEW g \in Fuzzers, NEW id \in Nat, id < synced'[h][g]
               PROVE  Settled(h, g, id)'
    BY DEF Marked
  <2>1. CASE h = f
    BY <2>1
  <2>2. CASE h # f
    BY <2>2, GrownSettled DEF Marked
  <2> QED
    BY <2>1, <2>2
<1>2. ASSUME NEW h \in Fuzzers, NEW g \in Fuzzers, g = party'[h], g # h
      PROVE  /\ synced'[h][g] <= next_min_accept'[h]
             /\ \A id \in seen'[h] : id < next_min_accept'[h] /\ Settled(h, g, id)'
  <2>1. CASE h = f
    BY <1>2, <2>1
  <2>2. CASE h # f
    <3>1. /\ synced[h][g] <= next_min_accept[h]
          /\ \A id \in seen[h] : id < next_min_accept[h] /\ Settled(h, g, id)
      BY <1>2, <2>2 DEF Scanning
    <3> QED
      BY <2>2, <3>1, GrownSettled
  <2> QED
    BY <2>1, <2>2
<1>3. Scanning'
  <2>1. \A h \in Fuzzers : party'[h] \in Fuzzers
    BY DEF Typed
  <2> QED
    BY <1>2, <2>1 DEF Scanning, Settled, Ids, File
<1> QED
  BY <1>1, <1>3

(* A fuzzer whose scan does not move.                                      *)
LEMMA NoReader ==
  ASSUME Typed, Typed', Grown, Marked, Scanning,
         UNCHANGED <<synced, party, next_min_accept, seen>>
  PROVE  Marked' /\ Scanning'
<1>1. CASE Fuzzers = {}
  BY <1>1 DEF Marked, Scanning
<1>2. ASSUME NEW f \in Fuzzers PROVE Marked' /\ Scanning'
  <2>1. \A g \in Fuzzers : \A id \in Nat : id < synced[f][g] => Settled(f, g, id)'
    BY GrownSettled DEF Marked
  <2>2. ASSUME NEW g \in Fuzzers, party[f] = g, g # f
        PROVE  /\ synced[f][g] <= next_min_accept[f]
               /\ \A id \in seen[f] : id < next_min_accept[f] /\ Settled(f, g, id)'
    <3>1. /\ synced[f][g] <= next_min_accept[f]
          /\ \A id \in seen[f] : id < next_min_accept[f] /\ Settled(f, g, id)
      BY <2>2 DEF Scanning
    <3> QED
      BY <3>1, GrownSettled
  <2> QED
    BY <2>1, <2>2, OneReader
<1> QED
  BY <1>1, <1>2

LEMMA FileSteps ==
  ASSUME IInv, NEW f \in Fuzzers, Discover(f) \/ WriteCase(f) \/ Trim(f)
  PROVE  IInv'
<1>1. /\ UNCHANGED <<synced, left, party, next_min_accept, listed, seen>>
      /\ pc' \in [Fuzzers -> {"fuzz", "save", "sync", "resuming"}]
  BY DEF IInv, Typed, Discover, WriteCase, Trim, scan
<1>2. files' \in [Fuzzers -> Seq(Case)] /\ known' \in [Fuzzers -> SUBSET Edges]
      /\ Kept' /\ NoEcho' /\ Grown
  <2>1. CASE Discover(f)
    <3>1. PICK e \in Edges : Save(f, e)
      BY <2>1 DEF Discover
    <3> QED
      BY <2>1, <3>1, SaveStep DEF IInv, Discover, history
  <2>2. CASE WriteCase(f)
    BY <2>2, WriteCaseFiles DEF IInv, WriteCase, Typed
  <2>3. CASE Trim(f)
    BY <2>3, TrimFiles DEF IInv, Trim, Typed
  <2> QED
    BY <2>1, <2>2, <2>3
<1>3. Typed' /\ Apart'
  BY <1>1, <1>2 DEF IInv, Typed, Apart
<1> QED
  BY <1>1, <1>2, <1>3, NoReader DEF IInv

(* Nothing happens to the files.                                           *)
LEMMA FilesStay ==
  ASSUME IInv, UNCHANGED <<files, known, lost>>, missed \subseteq missed'
  PROVE  files' \in [Fuzzers -> Seq(Case)] /\ known' \in [Fuzzers -> SUBSET Edges]
         /\ Kept' /\ NoEcho' /\ Grown
<1>1. \A f \in Fuzzers : Ids(f)' = Ids(f) /\ \A id : File(f, id)' = File(f, id)
  BY DEF Ids, File
<1>2. Kept' /\ NoEcho'
  BY <1>1 DEF IInv, Kept, NoEcho
<1>3. Grown
  BY <1>1 DEF Grown
<1> QED
  BY <1>2, <1>3 DEF IInv, Typed

LEMMA SyncFrameSteps ==
  ASSUME IInv, NEW f \in Fuzzers, StartSync(f) \/ EndSync(f) \/ Stop(f)
  PROVE  IInv'
<1>1. /\ UNCHANGED <<files, known, lost, missed, synced>>
      /\ pc' \in [Fuzzers -> {"fuzz", "save", "sync", "resuming"}]
      /\ left' \in [Fuzzers -> SUBSET Fuzzers] /\ \A h \in Fuzzers : h \notin left'[h]
  <2>1. UNCHANGED <<files, known, lost, missed, synced>>
    BY DEF StartSync, EndSync, Stop, history, scan
  <2>2. PICK p \in {"fuzz", "sync", "resuming"} : pc' = [pc EXCEPT ![f] = p]
    BY DEF StartSync, EndSync, Stop
  <2>3. left' = left \/ \E S \in {Fuzzers \ {f}, {}} : left' = [left EXCEPT ![f] = S]
    BY DEF StartSync, EndSync, Stop, scan
  <2>4. pc' \in [Fuzzers -> {"fuzz", "save", "sync", "resuming"}]
    BY <2>2 DEF IInv, Typed
  <2>5. left' \in [Fuzzers -> SUBSET Fuzzers] /\ \A h \in Fuzzers : h \notin left'[h]
    <3>1. ASSUME NEW S \in {Fuzzers \ {f}, {}}, left' = [left EXCEPT ![f] = S]
          PROVE  left' \in [Fuzzers -> SUBSET Fuzzers] /\ \A h \in Fuzzers : h \notin left'[h]
      <4>1. S \in SUBSET Fuzzers /\ f \notin S
        OBVIOUS
      <4> QED
        BY <3>1, <4>1 DEF IInv, Typed, Apart
    <3>2. CASE left' = left
      BY <3>2 DEF IInv, Typed, Apart
    <3> QED
      BY <2>3, <3>1, <3>2
  <2> QED
    BY <2>1, <2>4, <2>5
<1>2. files' \in [Fuzzers -> Seq(Case)] /\ known' \in [Fuzzers -> SUBSET Edges]
      /\ Kept' /\ NoEcho' /\ Grown
  BY <1>1, FilesStay
<1>3. CASE StartSync(f) \/ EndSync(f)
  <2>1. UNCHANGED <<party, next_min_accept, listed, seen>>
    BY <1>3 DEF StartSync, EndSync, scan
  <2>2. Typed' /\ Apart'
    BY <1>1, <1>2, <2>1 DEF IInv, Typed, Apart
  <2> QED
    BY <1>1, <1>2, <2>1, <2>2, NoReader DEF IInv
<1>4. CASE Stop(f)
  <2>1. /\ party' = [party EXCEPT ![f] = f] /\ next_min_accept' = [next_min_accept EXCEPT ![f] = 0]
        /\ listed' = [listed EXCEPT ![f] = {}] /\ seen' = [seen EXCEPT ![f] = {}]
    BY <1>4 DEF Stop, Nobody
  <2>2. Typed' /\ Apart'
    BY <1>1, <1>2, <2>1 DEF IInv, Typed, Apart
  <2>3. party'[f] = f /\ \A h \in Fuzzers \ {f} :
          /\ party'[h] = party[h] /\ seen'[h] = seen[h]
          /\ next_min_accept'[h] = next_min_accept[h]
    BY <2>1 DEF IInv, Typed
  <2>4. \A g \in Fuzzers : \A id \in Nat : id < synced'[f][g] => Settled(f, g, id)'
    BY <1>1, <1>2, GrownSettled DEF IInv, Marked
  <2> QED
    BY <1>1, <1>2, <2>2, <2>3, <2>4, OneReader DEF IInv
<1> QED
  BY <1>3, <1>4

LEMMA OpenPartyStep ==
  ASSUME IInv, NEW f \in Fuzzers, OpenParty(f)
  PROVE  IInv'
<1>1. PICK g \in left[f] :
        /\ left' = [left EXCEPT ![f] = @ \ {g}]
        /\ NoQueueDir(f, g) \/ OpenQueueDir(f, g)
  BY DEF OpenParty
<1>2. UNCHANGED <<files, known, pc, missed, lost>> /\ g \in Fuzzers /\ g # f
  BY DEF OpenParty, history, IInv, Typed, Apart
<1>3. files' \in [Fuzzers -> Seq(Case)] /\ known' \in [Fuzzers -> SUBSET Edges]
      /\ Kept' /\ NoEcho' /\ Grown
  BY <1>2, FilesStay
<1>4. /\ left' \in [Fuzzers -> SUBSET Fuzzers] /\ \A h \in Fuzzers : h \notin left'[h]
  BY <1>1, <1>2 DEF IInv, Typed, Apart
<1>5. CASE NoQueueDir(f, g)
  <2>1. UNCHANGED <<synced, party, next_min_accept, listed, seen>>
    BY <1>5 DEF NoQueueDir
  <2>2. Typed' /\ Apart'
    BY <1>2, <1>3, <1>4, <2>1 DEF IInv, Typed, Apart
  <2> QED
    BY <1>3, <2>1, <2>2, NoReader DEF IInv
<1>6. CASE OpenQueueDir(f, g)
  <2>1. /\ UNCHANGED synced /\ party' = [party EXCEPT ![f] = g]
        /\ next_min_accept' = [next_min_accept EXCEPT ![f] = synced[f][g]]
        /\ listed' = [listed EXCEPT ![f] = Ids(g)] /\ seen' = [seen EXCEPT ![f] = {}]
    BY <1>6 DEF OpenQueueDir, NoMarkYet
  <2>2. Ids(g) \subseteq Nat /\ synced[f][g] \in Nat
    BY <1>2, FileType DEF IInv, Typed
  <2>3. Typed' /\ Apart'
    BY <1>2, <1>3, <1>4, <2>1, <2>2 DEF IInv, Typed, Apart
  <2>4. /\ party'[f] = g /\ seen'[f] = {} /\ next_min_accept'[f] = synced'[f][g]
        /\ \A h \in Fuzzers \ {f} :
             /\ party'[h] = party[h] /\ seen'[h] = seen[h]
             /\ next_min_accept'[h] = next_min_accept[h]
    BY <1>2, <2>1 DEF IInv, Typed
  <2>5. \A h \in Fuzzers : \A id \in Nat : id < synced'[f][h] => Settled(f, h, id)'
    BY <1>3, <2>1, GrownSettled DEF IInv, Marked
  <2>6. \A h \in Fuzzers : party'[f] = h /\ h # f =>
          /\ synced'[f][h] <= next_min_accept'[f]
          /\ \A id \in seen'[f] : id < next_min_accept'[f] /\ Settled(f, h, id)'
    BY <2>1, <2>2, <2>4
  <2>7. Marked' /\ Scanning'
    BY <1>3, <2>1, <2>3, <2>4, <2>5, <2>6, OneReader DEF IInv
  <2> QED
    BY <1>3, <2>3, <2>7 DEF IInv
<1> QED
  BY <1>1, <1>5, <1>6

LEMMA SeeCaseStep ==
  ASSUME IInv, NEW f \in Fuzzers, SeeCase(f)
  PROVE  IInv'
<1>1. PICK id \in Readable(f) :
        /\ Accepted(f, id)
        /\ seen' = [seen EXCEPT ![f] = @ \cup {id}]
        /\ next_min_accept' = [next_min_accept EXCEPT ![f] = IF id >= @ THEN id + 1 ELSE @]
        /\ PassBy(f, id) \/ RunKnown(f, id) \/ Import(f, id)
  BY DEF SeeCase
<1>2. PICK g \in Fuzzers : g = party[f] /\ g # f
  BY DEF SeeCase, Nobody, IInv, Typed
<1>3. id \in Nat /\ UNCHANGED <<synced, left, party, listed, lost>>
  BY <1>2, FileType DEF SeeCase, Readable, IInv, Typed
<1>4. id \notin {i \in Ids(g) : Running(g) /\ File(g, i).written} \/ id \in Ids(g)
  OBVIOUS
<1>5. /\ files' \in [Fuzzers -> Seq(Case)] /\ known' \in [Fuzzers -> SUBSET Edges]
      /\ Kept' /\ NoEcho' /\ Grown /\ Settled(f, g, id)'
      /\ pc' \in [Fuzzers -> {"fuzz", "save", "sync", "resuming"}]
  <2>1. CASE PassBy(f, id)
    <3>1. <<f, g, id>> \in missed' /\ missed \subseteq missed' /\ UNCHANGED <<files, known, pc>>
      BY <1>2, <2>1 DEF PassBy
    <3> QED
      BY <1>3, <3>1, FilesStay DEF Settled, IInv, Typed
  <2>2. CASE RunKnown(f, id)
    <3>1. /\ id \in Ids(g) /\ File(g, id).edge \in known[f]
          /\ UNCHANGED <<files, known, pc, missed>>
      BY <1>2, <2>2 DEF RunKnown, Unreadable
    <3> QED
      BY <1>3, <3>1, FilesStay DEF Settled, IInv, Typed, Ids, File
  <2>3. CASE Import(f, id)
    <3>1. id \in Ids(g) /\ Save(f, File(g, id).edge) /\ UNCHANGED missed
          /\ pc' = [pc EXCEPT ![f] = "save"]
      BY <1>2, <2>3 DEF Import, Unreadable
    <3>2. PICK e \in Edges : e = File(g, id).edge
      BY <3>1, FileType DEF IInv
    <3>3. files' \in [Fuzzers -> Seq(Case)] /\ known' \in [Fuzzers -> SUBSET Edges]
          /\ Kept' /\ NoEcho' /\ Grown /\ e \in known'[f]
      BY <1>3, <3>1, <3>2, SaveStep DEF IInv
    <3>4. Settled(f, g, id)'
      BY <3>1, <3>2, <3>3 DEF Grown, Settled
    <3> QED
      BY <3>1, <3>3, <3>4 DEF IInv, Typed
  <2> QED
    BY <1>1, <2>1, <2>2, <2>3
<1>7. PICK m \in Nat : m = next_min_accept[f]
  BY DEF IInv, Typed
<1>8. /\ seen'[f] = seen[f] \cup {id} /\ next_min_accept'[f] = IF id >= m THEN id + 1 ELSE m
      /\ \A h \in Fuzzers \ {f} : seen'[h] = seen[h] /\ next_min_accept'[h] = next_min_accept[h]
  BY <1>1, <1>7 DEF IInv, Typed
<1>6. Typed' /\ Apart'
  <2>1. seen' \in [Fuzzers -> SUBSET Nat]
    BY <1>1, <1>3 DEF IInv, Typed
  <2>2. next_min_accept' \in [Fuzzers -> Nat]
    <3>1. PICK v \in Nat : v = IF id >= m THEN id + 1 ELSE m
      BY <1>3, <1>7
    <3>2. next_min_accept' = [next_min_accept EXCEPT ![f] = v]
      BY <1>1, <1>7, <3>1
    <3> QED
      BY <3>2 DEF IInv, Typed
  <2> QED
    BY <1>3, <1>5, <2>1, <2>2 DEF IInv, Typed, Apart
<1>9. synced[f][g] <= m /\ synced[f][g] \in Nat
      /\ \A i \in seen[f] : i \in Nat /\ i < m /\ Settled(f, g, i)
  BY <1>2, <1>7 DEF IInv, Scanning, Typed
<1>10. m <= next_min_accept'[f] /\ id < next_min_accept'[f] /\ next_min_accept'[f] \in Nat
  BY <1>3, <1>7, <1>8
<1>11. /\ synced'[f][g] <= next_min_accept'[f]
       /\ \A i \in seen'[f] : i < next_min_accept'[f] /\ Settled(f, g, i)'
  <2>1. synced'[f][g] <= next_min_accept'[f]
    BY <1>3, <1>9, <1>10
  <2>2. \A i \in seen[f] : i < next_min_accept'[f]
    BY <1>9, <1>10
  <2>3. \A i \in seen[f] : Settled(f, g, i)'
    BY <1>5, <1>9, GrownSettled
  <2> QED
    BY <1>5, <1>8, <1>10, <2>1, <2>2, <2>3
<1>12. \A h \in Fuzzers : \A i \in Nat : i < synced'[f][h] => Settled(f, h, i)'
  BY <1>3, <1>5, GrownSettled DEF IInv, Marked
<1>13. \A h \in Fuzzers : party'[f] = h /\ h # f =>
         /\ synced'[f][h] <= next_min_accept'[f]
         /\ \A i \in seen'[f] : i < next_min_accept'[f] /\ Settled(f, h, i)'
  BY <1>2, <1>3, <1>11
<1>14. Marked' /\ Scanning'
  BY <1>3, <1>5, <1>6, <1>8, <1>12, <1>13, OneReader DEF IInv
<1> QED
  BY <1>5, <1>6, <1>14 DEF IInv

LEMMA ClosePartyStep ==
  ASSUME IInv, NEW f \in Fuzzers, CloseParty(f)
  PROVE  IInv'
<1>1. PICK g \in Fuzzers : g = party[f] /\ g # f
  BY DEF CloseParty, Nobody, IInv, Typed
<1>2. PICK m \in Nat : m = next_min_accept[f]
  BY DEF IInv, Typed
<1>3. /\ synced' = [synced EXCEPT ![f][g] = m]
      /\ missed' = missed \cup
           {<<f, g, id>> : id \in (synced[f][g] .. m - 1) \ seen[f]}
      /\ party' = [party EXCEPT ![f] = f]
      /\ next_min_accept' = [next_min_accept EXCEPT ![f] = 0]
      /\ listed' = [listed EXCEPT ![f] = {}] /\ seen' = [seen EXCEPT ![f] = {}]
      /\ UNCHANGED <<files, known, pc, left, lost>>
  BY <1>1, <1>2 DEF CloseParty, Mark, NewMark, Nobody
<1>4. files' \in [Fuzzers -> Seq(Case)] /\ known' \in [Fuzzers -> SUBSET Edges]
      /\ Kept' /\ NoEcho' /\ Grown
  BY <1>3, FilesStay
<1>5. /\ synced' \in [Fuzzers -> [Fuzzers -> Nat]] /\ synced'[f][g] = m
      /\ \A h \in Fuzzers \ {g} : synced'[f][h] = synced[f][h]
      /\ \A h \in Fuzzers \ {f} : synced'[h] = synced[h]
  BY <1>3 DEF IInv, Typed
<1>6. Typed'
  BY <1>3, <1>4, <1>5 DEF IInv, Typed
<1>7. Apart'
  BY <1>1, <1>3, <1>5 DEF IInv, Apart
<1>8. /\ party'[f] = f
      /\ \A h \in Fuzzers \ {f} : /\ party'[h] = party[h] /\ seen'[h] = seen[h]
                                  /\ next_min_accept'[h] = next_min_accept[h]
  BY <1>3 DEF IInv, Typed
<1>9. ASSUME NEW h \in Fuzzers, NEW id \in Nat, id < synced'[f][h]
      PROVE  Settled(f, h, id)'
  <2>1. CASE id < synced[f][h]
    BY <1>4, <2>1, GrownSettled DEF IInv, Marked
  <2>2. CASE ~(id < synced[f][h])
    <3>1. h = g /\ id < m
      BY <1>5, <1>9, <2>2
    <3>2. CASE id \in seen[f]
      BY <1>1, <1>4, <3>1, <3>2, GrownSettled DEF IInv, Scanning
    <3>3. CASE id \notin seen[f]
      <4>1. id \in synced[f][g] .. m - 1
        BY <1>2, <2>2, <3>1 DEF IInv, Typed
      <4>2. <<f, g, id>> \in missed'
        BY <1>3, <3>3, <4>1
      <4> QED
        BY <3>1, <4>2 DEF Settled
    <3> QED
      BY <3>2, <3>3
  <2> QED
    BY <2>1, <2>2
<1>10. Marked' /\ Scanning'
  BY <1>4, <1>5, <1>6, <1>8, <1>9, OneReader DEF IInv
<1> QED
  BY <1>4, <1>6, <1>7, <1>10 DEF IInv

(* A resume loses and renumbers files.  What a reader has passed of them   *)
(* is settled by the history; what the resumed fuzzer itself had settled   *)
(* it has kept, or lost with its file.                                     *)
LEMMA ResumedStep ==
  ASSUME IInv, NEW f \in Fuzzers, Resumed(f)
  PROVE  IInv'
<1> DEFINE Upto(h, g) == IF party[h] = g THEN next_min_accept[h] ELSE synced[h][g]
<1>1. /\ UNCHANGED <<synced, left, party, next_min_accept, listed, seen>>
      /\ pc' \in [Fuzzers -> {"fuzz", "save", "sync", "resuming"}]
      /\ lost \subseteq lost'
      /\ missed' = missed \cup UNION {{<<g, f, id>> : id \in Renumbered(g, f)} : g \in Fuzzers}
  BY DEF Resumed, scan, IInv, Typed
<1>2. /\ files' \in [Fuzzers -> Seq(Case)] /\ known' \in [Fuzzers -> SUBSET Edges]
      /\ Kept' /\ NoEcho'
      /\ \A g \in Fuzzers \ {f} : files'[g] = files[g] /\ known'[g] = known[g]
      /\ \A id \in Ids(f) : (\A e \in Empty(f) : ~(e <= id)) =>
           id \in Ids(f)' /\ File(f, id)' = File(f, id)
      /\ \A e \in known[f] : e \in known'[f] \/ <<f, e>> \in lost'
  BY ResumedFiles DEF IInv
<1>3. Typed' /\ Apart'
  BY <1>1, <1>2 DEF IInv, Typed, Apart
<1>4. ASSUME NEW h \in Fuzzers, NEW g \in Fuzzers, h # g, NEW id \in Nat, Settled(h, g, id),
             id < Upto(h, g)
      PROVE  Settled(h, g, id)'
  <2>1. CASE <<h, g, id>> \in missed
    BY <1>1, <2>1 DEF Settled
  <2>2. CASE /\ id \in Ids(g)
             /\ File(g, id).edge \in known[h] \/ <<h, File(g, id).edge>> \in lost
    <3>1. CASE g # f
      <4>1. id \in Ids(g)' /\ File(g, id)' = File(g, id)
        BY <1>2, <2>2, <3>1 DEF Ids, File
      <4> QED
        BY <1>1, <1>2, <2>2, <4>1 DEF Settled
    <3>2. CASE g = f /\ \A e \in Empty(f) : ~(e <= id)
      <4>1. id \in Ids(g)' /\ File(g, id)' = File(g, id)
        BY <1>2, <2>2, <3>2
      <4> QED
        BY <1>1, <1>2, <1>4, <2>2, <3>2, <4>1 DEF Settled
    <3>3. CASE g = f /\ \E e \in Empty(f) : e <= id
      <4>1. Upto(h, g) \in Nat
        BY DEF IInv, Typed
      <4>2. id \in Renumbered(h, f)
        BY <1>4, <3>3, <4>1 DEF Renumbered, Passed
      <4> QED
        BY <1>1, <3>3, <4>2 DEF Settled
    <3> QED
      BY <3>1, <3>2, <3>3
  <2> QED
    BY <1>4, <2>1, <2>2 DEF Settled
<1>5. Marked'
  <2> SUFFICES ASSUME NEW h \in Fuzzers, NEW g \in Fuzzers, NEW id \in Nat, id < synced[h][g]
               PROVE  Settled(h, g, id)'
    BY <1>1 DEF Marked
  <2>1. h # g
    BY DEF IInv, Apart
  <2>2. Settled(h, g, id)
    BY DEF IInv, Marked
  <2>3. id < Upto(h, g)
    <3>1. synced[h][g] \in Nat /\ next_min_accept[h] \in Nat
      BY DEF IInv, Typed
    <3>2. party[h] = g => synced[h][g] <= next_min_accept[h]
      BY <2>1 DEF IInv, Scanning
    <3> QED
      BY <3>1, <3>2
  <2> QED
    BY <1>4, <2>1, <2>2, <2>3
<1>6. Scanning'
  <2>1. ASSUME NEW h \in Fuzzers, NEW g \in Fuzzers, g = party[h], g # h, NEW id \in seen[h]
        PROVE  Settled(h, g, id)'
    <3>1. id \in Nat /\ id < next_min_accept[h] /\ Settled(h, g, id)
      BY <2>1 DEF IInv, Typed, Scanning
    <3> QED
      BY <1>4, <2>1, <3>1
  <2>2. \A h \in Fuzzers : party[h] \in Fuzzers
    BY DEF IInv, Typed
  <2>3. \A h \in Fuzzers : party[h] # h =>
          \A id \in seen[h] : Settled(h, party[h], id)'
    <3> SUFFICES ASSUME NEW h \in Fuzzers, party[h] # h, NEW id \in seen[h]
                 PROVE  Settled(h, party[h], id)'
      OBVIOUS
    <3>1. PICK g \in Fuzzers : g = party[h]
      BY <2>2
    <3>2. Settled(h, g, id)'
      BY <2>1, <3>1
    <3> QED
      BY <1>1, <3>1, <3>2 DEF Settled, Ids, File
  <2> QED
    BY <1>1, <2>3 DEF IInv, Scanning, Settled, Ids, File
<1> QED
  BY <1>2, <1>3, <1>5, <1>6 DEF IInv

LEMMA IInvStep == IInv /\ [Next]_vars => IInv'
<1> SUFFICES ASSUME IInv, [Next]_vars PROVE IInv'
  OBVIOUS
<1>1. CASE Next
  <2>1. PICK f \in Fuzzers :
          \/ Discover(f) \/ WriteCase(f) \/ Trim(f) \/ StartSync(f) \/ EndSync(f) \/ Stop(f)
          \/ OpenParty(f) \/ SeeCase(f) \/ CloseParty(f) \/ Resumed(f)
    BY <1>1 DEF Next, Go
  <2> QED
    BY <2>1, FileSteps, SyncFrameSteps, OpenPartyStep, SeeCaseStep, ClosePartyStep, ResumedStep
<1>2. CASE UNCHANGED vars
  <2>1. UNCHANGED <<files, known, synced, pc, left, party, next_min_accept, listed, seen, missed,
                    lost>>
    BY <1>2 DEF vars, scan, history
  <2>2. Kept' /\ NoEcho' /\ Grown
    BY <2>1, FilesStay
  <2>3. Typed' /\ Apart'
    BY <2>1 DEF IInv, Typed, Apart
  <2> QED
    BY <2>1, <2>2, <2>3, NoReader DEF IInv
<1> QED
  BY <1>1, <1>2

LEMMA AlwaysIInv == Spec => []IInv
BY InitIInv, IInvStep, PTL DEF Spec

-----------------------------------------------------------------------------
(* The properties of Sync.                                                 *)

(* No fuzzer keeps two test cases for the same thing, however often they   *)
(* come back to it from the others.                                        *)
THEOREM ImportsDoNotEcho == Spec => []NoEcho
<1>1. IInv => NoEcho
  BY DEF IInv
<1> QED
  BY <1>1, AlwaysIInv, PTL

(* A mark passes no test case that the reader has not run, through stops   *)
(* and crashes at any point of a sync.                                     *)
THEOREM MarksAreEarned == Spec => []MarkedIsKnown
<1>1. IInv => MarkedIsKnown
  <2> SUFFICES ASSUME IInv, NEW f \in Fuzzers, NEW g \in Fuzzers, NEW id \in Ids(g),
                      id < synced[f][g]
               PROVE  File(g, id).edge \in known[f] \/ <<f, g, id>> \in missed
                        \/ <<f, File(g, id).edge>> \in lost
    BY DEF MarkedIsKnown
  <2>1. Settled(f, g, id)
    BY FileType DEF IInv, Marked
  <2> QED
    BY <2>1 DEF Settled
<1> QED
  BY <1>1, AlwaysIInv, PTL
=============================================================================
