------------------------------ MODULE Dislocator ------------------------------
(***************************************************************************)
(* libdislocator (src/libdislocator/libdislocator.so.c), the allocator     *)
(* preloaded into a target, under the calls of several threads.  A block   *)
(* is never reused, so blocks are numbered in the order they are given     *)
(* out; a size_t has the values 0 .. SIZE - 1.  A call touches the count   *)
(* of its own thread and one block, and is one step.                       *)
(***************************************************************************)
EXTENDS Integers, Sequences, FiniteSets

CONSTANTS
  Threads,
  SIZE,               \* 2^64 in the code
  max_mem,
  MaxBlocks           \* bound on the number of blocks given out

ASSUME DislocatorAssumption ==
  IsFiniteSet(Threads) /\ SIZE \in Nat /\ max_mem \in 1 .. SIZE - 1

VARIABLES
  options,            \* hard_fail and no_calloc_over; "off" for a process without the library
  total_mem,          \* by thread
  blocks,             \* [len, freed, by]: by is the thread that asked for it
  ended,              \* the process was aborted, or has touched a protected page
  strangers           \* history: the threads one of which has freed what another asked for

dislocatorVars == <<options, total_mem, blocks, ended, strangers>>

Sizes == 0 .. SIZE - 1
Running == options.on /\ ~ended

DislocatorInit(on) ==
  /\ options \in [on : {on}, hard_fail : (IF on THEN BOOLEAN ELSE {FALSE}),
                  no_calloc_over : (IF on THEN BOOLEAN ELSE {FALSE})]
  /\ total_mem = [t \in Threads |-> 0]
  /\ blocks = <<>>
  /\ ended = FALSE /\ strangers = {}

-----------------------------------------------------------------------------
(* __dislocator_alloc                                                      *)

LimitOnly(t, len) == (total_mem[t] + len) % SIZE > max_mem   \* fault: no look at the overflow
Exceeds(t, len) ==
  \/ (total_mem[t] + len) % SIZE > max_mem
  \/ (total_mem[t] + len) % SIZE < total_mem[t]

(* The limit, or mmap, which may fail at any time.                         *)
Unavailable ==
  /\ ended' = options.hard_fail
  /\ UNCHANGED <<options, total_mem, blocks, strangers>>

Allocated(t, len) ==
  /\ ~Exceeds(t, len) /\ Len(blocks) < MaxBlocks
  /\ total_mem' = [total_mem EXCEPT ![t] = (@ + len) % SIZE]
  /\ blocks' = Append(blocks, [len |-> len, freed |-> FALSE, by |-> t])
  /\ UNCHANGED <<options, ended, strangers>>

(* A block freed before, whose canary is on a protected page, or mprotect  *)
(* that fails.                                                             *)
Abort ==
  /\ ended' = TRUE
  /\ UNCHANGED <<options, total_mem, blocks, strangers>>

Malloc(t, len) ==
  /\ Running
  /\ Allocated(t, len) \/ Unavailable \/ (~Exceeds(t, len) /\ Abort)

(* The product is taken in a size_t.                                       *)
Overflows(elem_len, elem_cnt) ==
  elem_cnt # 0 /\ ((elem_len * elem_cnt) % SIZE) \div elem_cnt # elem_len

Calloc(t, elem_len, elem_cnt) ==
  /\ Running
  /\ IF Overflows(elem_len, elem_cnt)
     THEN /\ ended' = ~options.no_calloc_over
          /\ UNCHANGED <<options, total_mem, blocks, strangers>>
     ELSE Malloc(t, (elem_len * elem_cnt) % SIZE)

Freed(t, b, total) == [total EXCEPT ![t] = (@ - blocks[b].len) % SIZE]
Met(t, b) == IF blocks[b].by = t THEN {} ELSE {t, blocks[b].by}

Free(t, b) ==
  /\ Running
  /\ \/ Abort
     \/ /\ ~blocks[b].freed
        /\ total_mem' = Freed(t, b, total_mem)
        /\ blocks' = [blocks EXCEPT ![b].freed = TRUE]
        /\ strangers' = strangers \cup Met(t, b)
        /\ UNCHANGED <<options, ended>>

(* realloc asks for the new block first; it looks at the old one only if   *)
(* it has got that.                                                        *)
Moved(t, b, len) ==
  /\ ~Exceeds(t, len) /\ Len(blocks) < MaxBlocks
  /\ ~blocks[b].freed
  /\ total_mem' = Freed(t, b, [total_mem EXCEPT ![t] = (@ + len) % SIZE])
  /\ blocks' = Append([blocks EXCEPT ![b].freed = TRUE],
                      [len |-> len, freed |-> FALSE, by |-> t])
  /\ strangers' = strangers \cup Met(t, b)
  /\ UNCHANGED <<options, ended>>

Realloc(t, b, len) ==
  /\ Running
  /\ \/ Moved(t, b, len)
     \/ ~Exceeds(t, len) /\ Abort
     \/ Unavailable

DislocatorNext ==
  \E t \in Threads :
    \/ \E len \in Sizes : Malloc(t, len)
    \/ \E elem_len, elem_cnt \in Sizes : Calloc(t, elem_len, elem_cnt)
    \/ \E b \in DOMAIN blocks : Free(t, b) \/ \E len \in Sizes : Realloc(t, b, len)

-----------------------------------------------------------------------------
(* Properties.                                                             *)

(* The sum of a function with values in Nat.                               *)
Total(f) == Cardinality(UNION {{x} \X (1 .. f[x]) : x \in DOMAIN f})

Live(list, S) == {b \in DOMAIN list : ~list[b].freed /\ list[b].by \in S}
LiveOf(S)     == Total([b \in Live(blocks, S) |-> blocks[b].len])

(* The counts of all threads together are the bytes in use, whatever       *)
(* thread frees a block; and a thread that has nothing to do with the      *)
(* blocks of others counts its own, and never has more than the limit.     *)
BytesCounted ==
  /\ Total(total_mem) % SIZE = LiveOf(Threads) % SIZE
  /\ \A t \in Threads \ strangers :
       total_mem[t] = LiveOf({t}) /\ LiveOf({t}) <= max_mem
=============================================================================
