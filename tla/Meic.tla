--------------------------------- MODULE Meic ---------------------------------
(***************************************************************************)
(* How MaxAFLPass::runOnModule (src/llvm_mode/maxafl-pass.cpp) weighs the  *)
(* two sides of a branch: the control flow graph of a function without the *)
(* back edges of its loops, the search that removes the cycles left, and   *)
(* the most instructions (MEIC) a run can still execute from a block on.   *)
(*                                                                         *)
(* Blocks are numbered as they are laid out, the entry is block 1.  What a *)
(* call adds to its block is part of the block's size.  The same search    *)
(* runs over the call graph, with functions for blocks.  Left out: a block *)
(* that calls a function of the name ErrFatal keeps the count of its own   *)
(* instructions, its successors add nothing.                               *)
(***************************************************************************)
EXTENDS Integers, Sequences, FiniteSetsExt

CONSTANTS
  LastBlock,        \* bound: the number of blocks
  Sizes             \* [block -> its instructions, with those it calls]

Blocks == 1 .. LastBlock
ASSUME MeicAssumption == LastBlock \in Nat \ {0} /\ Sizes \in [Blocks -> Nat \ {0}]

VARIABLES
  succ,             \* [block -> the blocks its terminator leads to]
  backedge,         \* [header of a loop -> the predecessor taken for its latch]
  edges,            \* <<block, successor>> kept, cfG with the edges turned
  phase,
  stk, visited, finished, \* of the search
  instCnt           \* [block -> its MEIC], for the blocks done

meicVars == <<succ, backedge, edges, phase, stk, visited, finished, instCnt>>

-----------------------------------------------------------------------------
(* Graphs.                                                                 *)

Edges == {e \in Blocks \X Blocks : e[2] \in succ[e[1]]}
Preds(b) == {u \in Blocks : b \in succ[u]}

(* The blocks on a walk from those in S that stays out of avoid.           *)
Reach(next, S, avoid) ==
  {b \in Blocks : \A C \in SUBSET Blocks :
     S \ avoid \subseteq C /\ (\A u \in C : next[u] \ avoid \subseteq C) => b \in C}

From(b) == Reach(succ, {b}, {})

(* LoopInfo: a loop for each header with a latch it dominates; the blocks  *)
(* of the loop reach a latch without passing the header.                   *)
Dominates(h, b) == b \notin Reach(succ, {1}, {h})
Latches(h) == {u \in Preds(h) : Dominates(h, u)}
Headers == {h \in Blocks : Latches(h) # {}}
LoopOf(h) == {h} \cup Reach([b \in Blocks |-> Preds(b)], Latches(h), {h})

(* getIncomingAndBackEdge looks at the first two predecessors of a header. *)
(* With one of each kind it finds the back edge; otherwise what it leaves  *)
(* in Backedge is the first, and that is inserted too.                     *)
Backedges(h) ==
  LET inside == Preds(h) \cap LoopOf(h)
  IN  IF Cardinality(Preds(h)) = 2 /\ Cardinality(inside) = 1
      THEN inside
      ELSE Preds(h)

(* A function: every block reachable, none before the entry, and at most   *)
(* two successors; one back edge is picked for every loop.                 *)
MeicInit(on) ==
  /\ IF on
     THEN /\ succ \in [Blocks -> {S \in SUBSET (Blocks \ {1}) : Cardinality(S) <= 2}]
          /\ From(1) = Blocks
          /\ LET headers == Headers
             IN  /\ backedge \in [headers -> Blocks]
                 /\ \A h \in headers : backedge[h] \in Backedges(h)
                 /\ edges = Edges \ {<<backedge[h], h>> : h \in headers}
          /\ phase = "search"
     ELSE succ = <<>> /\ backedge = <<>> /\ edges = {} /\ phase = "off"
  /\ stk = <<1>> /\ visited = {} /\ finished = {}
  /\ instCnt = <<>>

-----------------------------------------------------------------------------
(* The search: the top of the stack looks at its successors in the order   *)
(* of the layout, up to the first it has to visit before; the edges back   *)
(* into the path it has met so far are removed.                            *)

cur == Head(stk)
Out(b) == {c \in Blocks : <<b, c>> \in edges}
OnPath == visited \cup {cur}

NotRemoved == {}                                        \* fault: cycles are kept
FinishedToo == OnPath \cup finished                     \* fault: more than the path
IntoPath == OnPath
ToVisit == {c \in Out(cur) : c \notin OnPath /\ c \notin finished}

Visit ==
  /\ phase = "search" /\ stk # <<>> /\ ToVisit # {}
  /\ LET next == Min(ToVisit)
     IN  /\ edges' = edges \ {<<cur, c>> : c \in {d \in IntoPath : d < next}}
         /\ stk' = <<next>> \o stk
  /\ visited' = OnPath
  /\ UNCHANGED <<succ, backedge, phase, finished, instCnt>>

Leave ==
  /\ phase = "search" /\ stk # <<>> /\ ToVisit = {}
  /\ edges' = edges \ {<<cur, c>> : c \in IntoPath}
  /\ visited' = visited \ {cur} /\ finished' = finished \cup {cur}
  /\ stk' = Tail(stk)
  /\ UNCHANGED <<succ, backedge, phase, instCnt>>

SearchDone ==
  /\ phase = "search" /\ stk = <<>>
  /\ phase' = "weigh"
  /\ UNCHANGED <<succ, backedge, edges, stk, visited, finished, instCnt>>

(* Every block after its successors; topological_sort throws on a cycle.   *)
Done == DOMAIN instCnt
Ready == {b \in Blocks \ Done : Out(b) \subseteq Done}
Heaviest(b) == IF Out(b) = {} THEN 0 ELSE Max({instCnt[c] : c \in Out(b)})

Weigh ==
  /\ phase = "weigh" /\ Ready # {}
  /\ LET b == Max(Ready)
     IN  instCnt' = [c \in Done \cup {b} |-> IF c = b THEN Sizes[b] + Heaviest(b)
                                             ELSE instCnt[c]]
  /\ UNCHANGED <<succ, backedge, edges, phase, stk, visited, finished>>

MeicNext == Visit \/ Leave \/ SearchDone \/ Weigh

MeicSpec == MeicInit(TRUE) /\ [][MeicNext]_meicVars

(* left and right in br_info: for a latch the side that goes back weighs   *)
(* nothing, told by the numbers of the blocks.                             *)
Sides(b, l, r) ==
  IF \E h \in DOMAIN backedge : b \in Latches(h)
  THEN IF l > r THEN <<instCnt[l], 0>> ELSE <<0, instCnt[r]>>
  ELSE <<instCnt[l], instCnt[r]>>

-----------------------------------------------------------------------------
(* Properties.                                                             *)

(* Of a loop with several latches the edge taken may be one that enters    *)
(* the loop, as the predecessors come in no particular order.              *)
LatchesTaken == \A h \in DOMAIN backedge : backedge[h] \in Latches(h)

(* No cycle is left, whatever goto made of the function: topological_sort  *)
(* does not throw, and every block gets its count.                         *)
Sortable == phase = "weigh" /\ Done # Blocks => Ready # {}

(* Taking edges away hides no code from the entry: its count is above that *)
(* of every other block, and a side of a branch that is kept is below the  *)
(* count of its block.                                                     *)
Covered ==
  phase = "weigh" /\ Done = Blocks =>
    /\ \A b \in Blocks \ {1} : instCnt[1] > instCnt[b]
    /\ \A b \in Blocks : \A l, r \in succ[b] :
         /\ <<b, l>> \in edges => Sides(b, l, r)[1] < instCnt[b]
         /\ <<b, r>> \in edges => Sides(b, l, r)[2] < instCnt[b]

(* The counts exist and are those of the function, unless an edge into a   *)
(* loop was taken for its back edge.                                       *)
EntryCoversAll == LatchesTaken => Sortable /\ Covered
=============================================================================
