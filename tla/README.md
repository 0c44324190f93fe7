# MaxAFL in TLA+

MaxAFL is a fork of AFL 2.56b that adds a gradient descent stage: the
instrumented target reports how far each branch was from going the other way,
and `afl-fuzz` minimises the weighted sum. This directory models the fuzzer
(corpus, fork server, triage, stages, session directory, synchronisation), what
the compiler passes put into a target, and the tools with logic of their own.
TLC checks small instances. TLAPS proves the safety properties for every value of
the constants.

Paths are relative to the repository; `afl-fuzz.c` and the other names without
a directory are in `src/`.

## Inventory

| Part | Source | State | Operations | Modules |
|---|---|---|---|---|
| Corpus | `afl-fuzz.c` | queue entries, `top_rated[]`, reference counts and minimised traces, favored set, pending counters | `add_to_queue`, `calibrate_case`, `trim_case`, `update_bitmap_score`, `cull_queue`, `fuzz_one`, `perform_dry_run`, the loop of `main` | `Corpus`, `CorpusProofs` |
| Fork server | `afl-fuzz.c`, `llvm_mode/afl-llvm-rt.o.c` | two pipes, `child_pid`, `prev_timed_out`, interval timer, `stop_soon`, `child_stopped`, the target processes | `init_forkserver`, `run_target`, `handle_timeout`, `handle_stop_sig`, `__afl_start_forkserver`, `__afl_persistent_loop` | `ForkServer`, `TargetRun`, `ForkServerProofs` |
| Coverage and triage | `afl-fuzz.c` | `virgin_bits`, `virgin_tmout`, `virgin_crash`, `var_bytes` | `has_new_bits`, `classify_counts`, `simplify_trace`, `calibrate_case`, `save_if_interesting` | `Triage`, `TriageProofs` |
| Stages and score | `afl-fuzz.c` | `out_buf`, stage counters, `perf_score`, `subseq_tmouts`, `skip_requested`, `next_100` | `fuzz_one`, `common_fuzz_stuff`, `calculate_score` | `FuzzOne`, `FuzzOneProofs` |
| Gradient descent | `afl-lbfgs.cpp` | the point, the step, the bytes to write | `solve_lbfgs`, `minimize`, `gradient`, `value` | `Descent`, `FuzzOneProofs` |
| Branch tables | `afl-llvm-rt.o.c`, `afl-fuzz.c`, `types.h` | `br_info[]`, `br_hit[]`, `cmp_info[]`, in shared memory | `__maxafl_visit_br`, `__maxafl_visit_cmp_*`, `calculate_obj_func`, `save_branch_hit`, `check_branch_hit` | `BranchFeedback`, `Conditions`, `Distances`, `TargetProofs` |
| Session directory | `afl-fuzz.c` | `queue/`, `_resume/`, `.state/`, `fuzzer_stats`, `crashes/`, `hangs/` | `maybe_delete_out_dir`, `setup_dirs_fds`, `read_testcases`, `pivot_inputs`, `nuke_resume_dir`, `write_stats_file` | `SessionResume`, `SessionResumeProofs` |
| Synchronisation | `afl-fuzz.c` | `.synced/` marks, the queues of the peers | `sync_fuzzers` | `Sync`, `SyncProofs` |
| Dictionaries | `afl-fuzz.c` | `extras[]`, `a_extras[]`, `auto_extras/` | `load_extras`, `maybe_add_auto`, `save_auto`, `load_auto` | `Dictionary`, `AuxiliaryProofs` |
| MaxAFL pass | `llvm_mode/maxafl-pass.cpp` | call graph, control flow graphs, instruction counts, lists of comparisons | `runOnModule`, `visitBrInst` | `Meic`, `TargetProofs`, `Conditions` |
| LAF-Intel passes | `llvm_mode/split-*.cc`, `compare-transform-pass.so.cc` | LLVM IR | `splitCompares`, `switchConvert`, `transformCmps` | `LafIntel`, `TargetProofs` |
| Wrappers | `afl-as.c`, `afl-gcc.c`, `afl-clang-fast.c` | the flags of one pass over a file | `add_instrumentation`; command lines | `Assembler`, `AuxiliaryProofs` |
| Minimiser | `afl-tmin.c` | the current input, pass, block size | `minimize`, `run_target` | `TMin`, `AuxiliaryProofs` |
| Libraries | `libdislocator`, `libtokencap` | `total_mem`, the blocks | `malloc` family | `Dislocator`, `AuxiliaryProofs` |
| Other tools, QEMU mode, `cppoptlib` | | | | none |

How they interact. One thread runs everything in `afl-fuzz`. The corpus calls
`run_target`, directly or through `calibrate_case`, `trim_case` and the stages.
`run_target` talks to the fork server over two pipes, while the timer and
Ctrl-C interrupt it between any two system calls. The target writes
`trace_bits` and the branch tables in shared memory. Triage and the corpus read
the first, the gradient descent the second, both rely on the run being over.
What the branch tables say depends on what the passes wrote into the target.
Every entry of the queue is a file of the session directory, from which the next
process builds the queue again. Peers read that directory while it is written.
The minimiser, the allocator, the assembler and the dictionaries share no state
with the loop while they work.

What is hard to test in this code: the signals and two processes of the fork
server protocol; in-place evaluation of tables that are shared with a process
that can be killed at any instruction; reference counting inside a loop over
64 K bytes; counters that are kept in three places; buffers that shrink, grow
and are restored by a stack of random tweaks; a directory that has to survive a
process dying anywhere, and be read by others meanwhile; emitted code that has
to compute what the source did. `PROJECT.json` lists these hazards with the
line where each bites and the properties that cover it. Where a model has the
behaviour and its property states it as an exception, the hazard names no
property and its note says so.

## Modules

| Module | Content | Runs |
|---|---|---|
| `Corpus`, `CorpusProofs` | the corpus and the main loop; theorems about it | `corpus_variable`, `corpus_stable` |
| `TargetRun` | what `run_target` promises, abstractly | |
| `ForkServer`, `ForkServerProofs` | the fork server protocol, shown to implement `TargetRun`; theorems about it, the refinement among them | `forkserver` |
| `Triage`, `TriageProofs` | virgin maps, calibration, crashes and hangs; theorems about them | `triage` |
| `Descent` | the gradient stage | |
| `FuzzOne`, `FuzzOneProofs` | one call of `fuzz_one`; embeds `Descent`; theorems about both | `fuzz_one` |
| `Distances` | the doubles that say how far a branch was from going the other way | |
| `BranchFeedback` | the branch tables during the descent | `branch`, `branch_flip` |
| `SessionResume`, `SessionResumeProofs` | the output directory across processes; theorems about it | `resume`, `resume_loss` |
| `Sync`, `SyncProofs` | fuzzers that share a directory; theorems about them | `sync` |
| `LafIntel`, `Meic`, `Conditions` | what the passes make of comparisons, graphs and conditions | |
| `Instrumentation` | one piece of these three per behaviour | `instrument` |
| `TargetProofs` | theorems about `BranchFeedback`, `LafIntel`, `Meic` and `Conditions` | |
| `TMin`, `Dictionary`, `Dislocator`, `Assembler` | the parts beside the loop | |
| `Auxiliary`, `AuxiliaryProofs` | one of these four per behaviour; theorems about each | `auxiliary` |
| `MC...` | small values of the constants for TLC | |

`Instrumentation` and `Auxiliary` put parts that do not interact into one
specification: the initial state switches one of them on, the others keep still.
In each module, a definition marked `fault:` is a plausible bug; nothing uses
it. `PROJECT.json` names, for every property, the definition it would stand in
for, and TLC finds the property violated with it.

### Corpus

State: one function per field of `struct queue_entry` that the logic reads,
plus the globals of the same name. `exec_cksum` stands for the set of map
bytes the hashed trace touches, `fav_factor` for `exec_us * len`, `trace_mini`
for the bit vector of the same name, and is `{}` when the pointer is NULL.
`pc` says where the thread is. The two loops over the map take one step per
byte (`ScoreByte`, `CullByte`), so invariants are checked inside them.

A run of the target is abstracted to whether it was clean and to the set of
bytes it touched. `Traces` holds the possible sets. When `StableTarget` is
FALSE the runs of one calibration may differ: the checksum is that of the
first, and the last one is scored, as in `calibrate_case`; `trim_case` later
scores the trace the checksum stands for. Probabilities are nondeterministic
choices. `HandleStop` may happen at any moment and every early return it
causes is modelled. `seek_to` is any position.

Bounds: three map bytes, three entries of which one is initial, two
calibration chances, `fav_factor` up to 1 or 2, `SkipThreshold` 1 in place of
10. Three bytes are needed for a winner to lose one byte and keep another
while a third changes hands; three entries for two rivals and a new arrival.
`DumbMode` is FALSE in the runs; in dumb mode nothing is culled. It is a
parameter of the proofs.

Fairness: `WF_vars(Work)`, the thread goes on until it ends. `Work` excludes
the stop signal and fatal errors.

Runs:

* `corpus_variable`: a target that is not stable. Reference counts are exact
  (`RefCountExact`), minimised traces exist exactly as long as they are
  referred to (`MiniIffReferenced`), winners are calibrated
  (`WinnersCalibrated`), the favored set covers the winners (`CullCovers`), and
  the counters are right (`PendingFavoredExact`, `PendingNotFuzzedExact`).
  `pending_favored` is exact even though an entry is counted once per byte it
  holds outside its trace: the second trace of an entry is scored by
  `trim_case`, at a time when the entry is about to get `was_fuzzed`.
* `corpus_stable`: a stable target. Winners are the cheapest entries
  (`TopRatedBest`), and a waiting favored entry is fuzzed or loses its place
  (`FavoredGetsFuzzed`).

Seen on the way: for the same reason `queued_favored`, which is only shown,
counts such an entry several times (`afl-fuzz.c:1447`).

### ForkServer and TargetRun

The fuzzer is a `pc` over the system calls of `run_target`, the server a `pc`
over those of `__afl_start_forkserver`, and a target process has a state as the
kernel would report it. Pipes are sequences. `HandleTimeout` and `HandleStop`
are enabled at every step and do what the handlers do with the `child_pid` the
fuzzer knows at that moment. Signals reach a process at once; a process is
named by its order of creation, so PIDs are not reused. A target process may
run for ever. When the fuzzer ends, reads and writes of the server fail and it
exits.

`TargetRun` is the promise to the callers: a call, one fate of the target, a
return with the verdict that fate deserves. Being asked to stop voids the
verdict, not the return. `ImplementsTargetRun` checks the refinement: `phase`
is derived from `fpc`, `fate` is what happened to the current run, `stopping`
is `stop_soon # 0`.

Bounds: three requests, so that a persistent child can be forked, stopped,
continued or written off, and be followed by another one.

Fairness: weak fairness of the fuzzer, of the server, of a forked process until
it has closed its descriptors, and of the timer once it is armed. None for the
target's own steps: it may hang. The kernel schedules runnable processes and
delivers armed timers, which is all this assumes.

Runs:

* `forkserver`: the trace is this run's (`TraceOfThisRun`), nothing writes
  while the fuzzer reads (`NoWriterWhileReading`), verdicts are true
  (`VerdictTrue`), the refinement, and that calls return (`RunReturns`) and a
  stop ends the fuzzer (`FuzzerStops`).

Seen on the way: a stop signal after the server's `fork` and before the fuzzer
has read the PID leaves that one target process running when the fuzzer ends
(`afl-fuzz.c:8126`), unlike what the comment at `afl-fuzz.c:9602` says.

Not modelled: the fork per run of dumb mode and `AFL_NO_FORKSRV`, deferred
start, `__AFL_LOOP` with a bounded count beyond the choice between stopping and
exiting, MSAN exit codes.

### Triage

State: the three virgin maps, `trace_bits`, `var_bytes`, the fields of a queue
entry that calibration sets, the locals of `calibrate_case` and a `pc` over the
calls. A byte of a map is the set of its bits, a class of hit counts one bit, so
`classify_counts` and `simplify_trace` are functions on traces and clearing is
set difference. Every run ends with any verdict and any trace. A recalibration
takes the trace that happens to be in `trace_bits` for its first one, as the
code does. Histories: the bits clean runs of entries have shown, the bytes in
which two runs of one entry differed, what crashes and timeouts have hit.

Bounds: three bytes, four traces, two entries, two calibration chances, two
crashes or timeouts looked at, of which one hang and two crashes are kept. A
crash that misses a byte of the one before, one that adds a byte and one that
does neither all occur.

Run `triage`: coverage is claimed only for what entries have shown
(`CoverageBacked`), a variable byte has varied (`VarBytesTrue`), and a crash or
timeout is unique as `docs/technical_details.txt` defines it (`FaultsUnique`).
Normal and crash exploration mode are both initial states.

Seen on the way: `VarBytesTrue` excludes recalibrations with a leftover trace
(`afl-fuzz.c:3266`), where it fails; in crash exploration the trace triaged is
that of the last calibration run, not that of the crash; a slow run that turns
out clean with the long timeout has still been entered in `virgin_tmout`.

Not modelled: FAULT_ERROR, dumb mode.

### FuzzOne and Descent

`FuzzOne` is one call of `fuzz_one` after the test case has been calibrated and
trimmed: score, gradient stage, havoc, splicing, end. The stages between the
gradient stage and havoc are unreachable behind the `goto` at `afl-fuzz.c:6205`
and are left out. State: `in_buf`, `out_buf` with its length `temp_len` and the
size of its allocation, the stage counters, the score, the splice cycle and
target, the signals. `Tweak` is the switch of havoc: each kind is a disjunct
with the guards on the lengths that the code has. `calculate_score` is a
function on what it looks at. `Descent` is the solver: the point, the component
and neighbour being run, the bytes `value()` writes, the line search of bound
mode and the dice of epsilon mode. Gradients, steps and the outcome of runs are
any; of a gradient only which components vanish is kept. `common_fuzz_stuff`
may reject, time out, be skipped or stopped, and its result is ignored by
`value()`, as in the code.

Bounds: two byte values, test cases up to five bytes, a queue of three entries
and one of one, stacks of two tweaks, one iteration of the descent on test
cases of two bytes, two splice cycles, links of two entries in place of 100.
Profiles are worth 120, 500 and 112 to `calculate_score` and are capped at 100.
Two components are the least for `pIdx` to matter, two tweaks for one to undo
or extend the other, three entries for a partner that is refused.

Fairness: `WF_vars(Program)`, the process runs on until it returns.

Run `fuzz_one`: the descent runs the neighbour it means to run
(`NeighbourInput`), each stack of tweaks starts from the test case
(`HavocStartsClean`), buffers are long enough and inputs not empty nor too long,
in `out_buf` as in the queue (`InBounds`), splicing mixes two different test cases (`SpliceMixes`), the call
returns (`FuzzOneReturns`).

Seen on the way: after a stop or a skip request the descent runs to its end; the
line search of bound mode changes the rate before it undoes a step, and so comes
back to another point; `norm` is read before it is set; the links of `next_100`
lead one entry too early, and the newest entry is never drawn directly. A stack of
tweaks may not make an input longer than the one it started from, or than
`MAX_FILE - 1`, whichever is more. That bound holds only while havoc works on the
input: after a splice of `MAX_FILE` bytes `in_buf` is put back before `out_buf`
is, and so `InBounds` asks for `MAX_FILE` there.

### BranchFeedback

State: the fields of `br_info_t`, the list `br_hit[]`, `cmp_info[].real` of the
condition of each branch, and history variables: the side the program took last,
the side it took when a distance first was -2.0, the verdict `value()` gave, and
that verdict at the point of the descent. A double is its sign bit and a small
magnitude, because `signbit` tells -0.0 from 0.0. The markers `BR_NOHIT` and
`BR_FINISH` are values of their own; `BR_SUCC` is the number -2.0, and a
distance may equal it, as in the code. `VisitBr` is the visit of a condition, one
comparison or one Boolean, and then `__maxafl_visit_br`: the program takes either
side each time, whatever the tables say. A branch that is at -2.0 or finished
ignores the visit (`Ignored`, `afl-llvm-rt.o.c:568`), and a comparison at -2.0
keeps its distance (`CmpIgnored`, lines 737 and 804), which a heavy branch, itself
at +2.0, goes on to read. Booleans are stored without that test. `KilledInVisit` ends the run after the
branch is listed and before its distance is stored.

`value()` is a run of the target, possibly another run when the input was new
or timed out, and `calculate_obj_func`. The descent is the loop `iterate` (a point),
`save`, `gradient` (the point again and its neighbours), `check`. Reads of the
uninitialised `leftMax` and `rightMax` in ORIGIN mode are a choice of either
outcome.

Bounds: two branches, one heavier on each side, weights 1 and 2, so that a
multiplier can reach its maximum; distances 0, 2 and the Boolean constants, so
that any visit may or may not be at -2.0; runs visit the branches any number of
times.
ADP1 is written in the module but not run: weights there are truncated by the
target and not by the fuzzer, and near equality the verdict may name the other
side.

Runs:

* `branch`: nothing is left of an earlier run (`NothingLeftOver`), and the
  verdict names the side of the last visit or, when a distance was -2.0, of the
  first visit that left that in the branch or its comparison (`VerdictIsSide`,
  ORIGIN). That the side may be an old one is what the code does.
* `branch_flip`: a disagreement, see Findings.

Seen on the way: `save_branch_hit` evaluates tables that `value()` evaluated
already, and the evaluation negates in place (`afl-fuzz.c:2850`), so what it
saves for a branch with `left < right` is the opposite verdict. Nobody reads it,
for the reason `branch_flip` shows.

Not modelled: the cost and its sum, the exit penalty. How several comparisons
make one distance is in `Conditions`.

### SessionResume

State on disk: whether the output directory exists, `queue/` and `_resume/`,
each with the depth of the nested directories made so far, the test cases by
number, and the `deterministic_done` flags, and `fuzzer_stats`, which may be
cut short. State of the process: a `pc` over the system calls of a start
(rename, delete one file, mkdir, link one file, flag one file), the linked
list, and the entry being trimmed. `Kill` ends the process at any of
`KillPoints`; what it has written stays. `saved` is history: what the session
has written in full. An entry `trim_case` is rewriting is taken out of it until
it is written again.

Assumptions on the environment: one process at a time (`flock`), the machine
does not crash (no `fsync` is needed), nobody else puts files there, `rename`
onto a directory that is not empty fails.

Bounds: two seeds, one of them flagged, a third test case to find, three
processes killed. Three kills allow an aborted resume of an aborted resume of
an aborted session.

Runs:

* `resume`: with a process killed anywhere but inside `nuke_resume_dir`, a
  running session has every test case that was saved (`NothingLost`) and every
  flag on the right entry (`FlagsCarried`); the directory the next resume takes
  is complete at every moment (`Recoverable`); only a torn `fuzzer_stats` stops
  a resume (`ResumeNeverStuck`).
* `resume_loss`: the same with kills inside `nuke_resume_dir`, see Findings.

`FreshOverLeftover` allows a new session over an aborted resume.
`maybe_delete_out_dir` does not remove `_resume/`, so the first resume of the
new session deletes its queue and brings the old one back. TLC shows this when
the constant is TRUE (`Recoverable` fails); the runs keep it FALSE.

Not modelled: `crashes/`, `hangs/` and their backups, `redundant_edges` and
`variable_behavior`, the position to seek to. `auto_extras` is in `Dictionary`,
`.synced/` in `Sync`.

### Sync

State: for each fuzzer its queue directory (the edge each file is about, and
whether it is written yet), the edges it knows, its marks on the others, and
the position of its scan: entries of the directory left, the party open,
`next_min_accept`, what `readdir` has returned. Creating and writing a file are
two steps, `readdir` may or may not show files that came after `opendir`. A
fuzzer can be stopped at any time and resumed in place; its queue directory is
gone meanwhile and returns renumbered, without files that were empty: the nth
file in the order of the numbers gets number n - 1 (`Nth`, `Imported`).

Bounds: two fuzzers, two edges, one stop, one trim. Fairness: each fuzzer goes
on and syncs again and again; nothing forces it to find anything.

Run `sync`: a mark passes only what the reader has run (`MarkedIsKnown`), what
comes back is not kept twice (`NoEcho`), marks catch up (`MarksCatchUp`).

The exceptions of `MarkedIsKnown` are what the code loses: a file that is empty
or cannot be opened when its turn comes is passed for good, as is a case that
gets a number below the mark after a resume that dropped an empty file. What
`trim_case` was rewriting at that moment is never imported.

### LafIntel, Meic, Conditions: Instrumentation

`LafIntel` follows the code the passes emit as it runs. A comparison becomes a
tree of comparisons and branches by the same rewriting steps (`simplifyCompares`,
`simplifySignedness`, `splitCompares`, from 64 bits down to 8) and is evaluated
one node at a time; a switch is a walk down the tree of `switchConvert`; a call
of `strcmp` or `memcmp` is the byte loop. `LafKeepsMeaning` compares each with
what the source says.

`Meic` is the weighing of the two sides of a branch: loops and their back edges
as LLVM's LoopInfo has them, the stack search that removes the cycles left, the
instruction counts in topological order. All graphs of four blocks are initial
states, with every choice the order of predecessors allows. `EntryCoversAll`:
no cycle is left, and no block weighs as much as the entry.

`Conditions` has both ends of a compound condition: `visitBrInst` writes it as a
list with a negation flag on each item, the run stores the distances, and
`__maxafl_visit_br` combines them from the end of the list with a stack. The
operands of an integer comparison are bit patterns of a type with `n` values. The
pass extends them to 64 bits with and without the sign, the runtime keeps `OpSize`
values of either (32 bits, whatever the type: `maxafl-pass.cpp:694`), and
`visit_cmp_integer` stores the signed, the unsigned or the smaller difference
with its sign bit. A comparison may be visited any number of times before the
branch is; once its distance is -2.0 it keeps it (`CmpFrozen`). A condition is
a list of instructions whose operands are earlier places of it, as in LLVM, so
an instruction may have several users; the recursion of `visitBrInst` is the
sequence `work` of what it has still to visit. `meaning` is what each instruction
yields, `allOf` the operators it consists of once negations are pushed down.
`VerdictNamesSide` says what a verdict tells about the side taken, while no
comparison is `unreliable`: one whose operands 32 bits do not hold, read as its
predicate reads them, one of doubles that has to be negated, or one visited after
its distance was -2.0.

Bounds: a byte has two bits in switches and strings and comparisons are split
from 16 to 4 bits, so every width is split more than once; all pairs of three
and four bits, and the values about the borders for eight; four blocks allow
nested and irreducible loops; conditions have up to three leaves, and two of them
use a comparison twice. `OpSize` is 4 and the operands are of types with four
values, where all fit, and with eight: 6 and 1 fit as the signed numbers -2 and 1
only, 4 and 0 do not fit and are equal once cut. With all predicates that gives
equal, signed, unsigned and cut operands and distances of -2.0.

Run `instrument` checks the three properties. There is no fairness.

What they leave out is what the code does differently. The order `strcmp`
returns is wrong for bytes more than 127 apart, so only equality is kept.
`EntryCoversAll` assumes that the edge taken for a back edge is one
(`LatchesTaken`): for a header with several latches or entries
`getIncomingAndBackEdge` leaves any predecessor in its result, and it is
inserted. In `__maxafl_visit_br` the nearer and the further distance are swapped
between `and` and `or`: for a conjunction only "passed" is certain, for a
disjunction only "not passed". A 64-bit operand loses its upper half: `x == 0`
counts as holding for `x` = 2^32, and a signed `n > 0` as false for `n` = 2^31
(`afl-llvm-rt.o.c:814`). A negated floating point comparison is not negated
(line 751), and a comparison at -2.0 keeps that distance for the rest of the run
(lines 737 and 804). These three are the exceptions of `VerdictNamesSide`, and the
model has the behaviour of each. Left out: predicates of doubles that are always
true, always false or only ask for a NaN, and NaNs; blocks that call a function
of the name `ErrFatal`, whose count does not include their successors'
(`maxafl-pass.cpp:1264`), so `EntryCoversAll` says nothing of functions with one.
More than 20 comparisons nested to the left would overrun the
stack (`afl-llvm-rt.o.c:560`).

### TMin, Dictionary, Dislocator, Assembler: Auxiliary

`TMin`: the dry run and the four stages of `minimize`. The target is
deterministic; what it makes of an input is chosen when that is first run and
remembered in `good` and `bad`. The timer may cut off a run, the stop signal may
come at any time. The output has a verdict that was seen (`OutputFaithful`), no
byte of it can be deleted (`OneMinimal`, if no run was cut off), and it ends
(`Terminates`, under `WF_vars(Minimise)`: one process whose runs are timed).
Files of four equal and of three different symbols, one timeout. The result is
not minimal with respect to replacing characters by zeros, as deletion comes
last; a timer that goes off after the run has ended voids a good run.

`Dictionary`: three sessions over one output directory, each loading tokens,
reading `-x`, dying anywhere. `TokensKept`: a running session has one spelling
of each usable token, in memory and on disk. The exception is what the code
loses: `nuke_resume_dir` deletes the old `auto_extras/` long before `save_auto`
writes the new one, so a process that dies or finds `-x` malformed in between
takes the tokens with it. Tokens are never discovered, since the deterministic
stages are unreachable; the eviction of `maybe_add_auto` is too. `load_auto` runs
before `load_extras`, so its comparison with `extras[]` never applies.

`Dislocator`: the allocation functions under two threads, a `size_t` of eight
values, a limit of three bytes, three blocks. `BytesCounted`: the counts of all
threads add up to the bytes in use. The limit holds for threads that free only
their own blocks; one that frees another's wraps its count
(`libdislocator.so.c:86` makes it thread-local).

`Assembler`: the pass of `add_instrumentation` over a file of six lines of any
kinds, for ratios of 0, 33 and 100. `place` is where the assembler stands, the
flags are what the tool thinks. `BlocksMarked`: no trampoline outside the
program's own code, none missing at a function, and none at a block for ratio
100 except one per `.p2align`. That directive makes the tool skip a label, also
when what follows is not a jump table (`afl-as.c:295`).

Run `auxiliary` checks all of these. `CHECK_DEADLOCK` is off: each part ends.

## Findings

Each is a run that TLC finishes with a counterexample.

1. `branch_flip`: `run_target` clears `.hit` before every run
   (`afl-fuzz.c:2921`), so `check_branch_hit` never finds a change and the
   cases of `gradient()` for it never run.
2. `resume_loss`: a process that dies while it deletes `_resume/`
   (`afl-fuzz.c:4378`) has a complete `queue/`, and the next resume deletes it
   in favour of the half-deleted `_resume/`.

The other observations, marked "Seen on the way", are described with their
modules and have no run of their own.

## Proofs

`CorpusProofs` proves, for every map size, queue bound, set of traces, number of
chances and mode, stable or not:

* `TypeCorrect`: the type invariant, with `cal_failed <= CalChances` and no
  counter below zero;
* `RefCountsExact` and `MiniTracesKept`: `RefCountExact` and `MiniIffReferenced`;
* `WinnersAreCalibrated`: `WinnersCalibrated`;
* `PendingCounts`: `PendingNotFuzzedExact`, and `PendingFavoredCovers`, which
  bounds `pending_favored` from below;
* `FavoredCoverMap`: `CullCovers`;
* `PendingFavoredCounts`: `PendingFavoredExact`;
* `WinnersAreBest`: `TopRatedBest`, for a stable target, the only case in which
  the property says anything.

The assumption is `SizesAssumption` of `Corpus`: the sizes are natural numbers,
at least one byte, one initial entry and one chance. It constrains nothing else.

The argument is one inductive invariant, `IInv`. The properties are not
inductive as they stand. `Position` says what a location implies about the
entry being worked on: in `score` and `trim` it has a checksum and no failed
calibration, which `WinnersCalibrated` needs when the entry takes a byte.
`Settled` says that an entry the dry run has passed is either calibrated or
failed, which `Position` needs when `fuzz_one` goes on to trim. `Blank` says
that entries not yet in the queue are neither fuzzed nor favored, so adding one
changes the pending sets by that entry alone. Counting is done with the
cardinality theorems of the library: `WinnerChange` describes how the set of
bytes won by each entry changes when a byte changes hands, and `RefCountStep`
follows. Each conjunct of `IInv` has a lemma with one step per action, and
`Inductive` puts them together.

The last three theorems add to `IInv` what their loops know:

* `Covering`: inside `cull_queue` the bytes gone from `temp_v` are covered by
  favored entries, and the winners of the other bytes it has passed are favored
  (`Culling`); outside, all is covered until `score_changed` is set.
* `Tidy`: an entry holds a byte outside its `trace_mini`, and so can be counted
  twice, only once it has been scored twice. `trim_case` does that, and from
  there `fuzz_one` leads to `was_fuzzed` or to the end of the program
  (`Trimming`), before `cull_queue` counts again.
* `Best`: no calibrated entry is cheaper than the winner of a byte it reaches,
  but for bytes the loop of `update_bitmap_score` has not come to (`Undecided`),
  and for an entry that was trimmed while the fuzzer was being stopped, which
  is not scored again (`Stopping`). Then no entry is picked any more.

`TriageProofs` proves the three properties of `Triage` for any map, any traces
the target may leave, any queue and any limits (`TriageAssumption`: the sizes are
natural numbers, hit counts fit a byte, the map has one). `Typed` knows where a
calibration is: its entry is in the queue and its caller is one of three.

* `QueueBacksCoverage`: `CoverageBacked`. Inductive with the fact that the trace
  behind an entry's checksum was shown (`Backed`), so that the run whose checksum
  matches, which skips `has_new_bits`, had no bit to clear.
* `VariableBytesVary`: `VarBytesTrue`. A calibration compares with the trace
  whose checksum the entry has (`FirstTrace`); for that the dry run has to meet
  its entries without a checksum (`DryRunAhead`).
* `FaultsCountedOnce`: `FaultsUnique`, an action property. `MapOf` says which
  marks a virgin map has lost after any set of paths, `NewIffUnseen` that
  `has_new_bits` on a simplified trace then decides what the documentation calls
  unique.

`TargetProofs` proves, of `BranchFeedback`, for any set of branches, weights and
distances (`ConstantsAssumption`):

* `OneRunOnly`: `NothingLeftOver`, in all three objective modes. Inductive once
  `br_hit[]` is known to be a list of branches; `ListedAfter` says what listing
  one more branch adds.
* `OriginVerdicts`: `VerdictIsSide`. `SidesKnown` says what the sign of a stored
  distance means before `value()` looks at it, for the side that is judged;
  `FrozenKnown`, that the distance of a comparison at -2.0 and of its branch belong
  to the visit that left it there, whichever of the two it was, and that without
  one no distance is -2.0 (`VisitStored` carries both through a visit);
  `StoredVerdict`, that the two computations of the weights then cancel.

of `Meic`, for any control flow graph and any sizes of its blocks:

* `CountsCoverCode`: `EntryCoversAll`. `KeptReaches` is about graphs alone: when
  only edges of latches are taken for back edges, every block is still reached
  without them, for the first block of a loop that was not would be its header
  or follow one. `Hanging` carries this through the search: an edge is removed
  only when it leads to a block that was met, so all that was met is still
  reached. `Searched` says that what is finished leads only to what is finished,
  and that every set of finished blocks has one without a successor in the set.
  When the search is over all blocks are finished (`AllFinished`), so there is
  always one to weigh next, and along the edges counts fall (`LargestCount`).

of `LafIntel`, for every size of a byte, every width, set of cases and string
(`LafAssumption`: operands and bytes fit their widths, a switch has a case, and a
constant string ends at its first zero):

* `MeaningIsKept`: `LafKeepsMeaning`. `SimplifyKeeps`, `SignKeeps` and
  `SplitKeeps` say that each rewriting means what the comparison meant, and
  `CompareInv` that along the branches that wait each has the value the one
  before tests, up to the comparison in the source. `SwitchInv` says that the
  cases left are those that agree with the value on the bytes looked at;
  `BytesTell`, that a value is known by its bytes. `StringInv` says that the
  bytes passed are equal, so that `strcmp` has not passed the end of the other
  string. The lemmas on powers of two start from the recursive function `pow2`.

and of `Conditions`, for any list of instructions, integer types of any size and
any number of visits of each comparison (`ConditionsAssumption`: operands of
instructions are earlier ones, operands of comparisons are bit patterns of their
type, and the number of values of a type wider than `OpSize` is a multiple of it,
as for powers of two):

* `VerdictIsSound`: `VerdictNamesSide`. The pass works from the first entry of
  the list to the last and the run from the last to the first, so the invariant
  has two halves that meet when the visit ends. A `Reading` of a list says where
  the expression at each place ends and gives it a value, an operator taking that
  of either operand. `ReadInv` is about every list that goes on from what is
  written: when what is left in `work` has its place there and tells what it should
  (`Tells`), so does the whole condition. It is proved backwards, by finding the
  place of the item a step visits from those of the items that replace it
  (`PlaceFirst`). `VisitInv` says that the stack holds, up to the sign that
  `heavy` stands for, the values of a reading of the part of the list passed, each
  expression ending where the next on the stack begins. It needs of `Nearest` and
  `Furthest` only that they return one of the two, and of a comparison that the
  sign of its distance says what it was, unless it is unreliable (`LeafStored`). That is
  arithmetic: `Cut` and `Extended` say that what the runtime keeps of an operand
  that fits is the operand, `SignedTells` and `EitherTells` that two operands are
  equal, or in order, when what is kept of them is, and `IntegerStored` puts them
  together for each predicate (`FloatStored` for doubles). Since every
  instruction uses earlier ones, `meaning` and `allOf` satisfy their equations
  (`MeaningIs`, `AllOfIs`), by the least prefix for which they would not.

`ForkServerProofs` proves, for any number of runs, persistent or not
(`ConstantsAssumption`):

* `TraceIsOfThisRun`, `QuietWhileReading`, `VerdictIsTrue`: `TraceOfThisRun`,
  `NoWriterWhileReading` and `VerdictTrue`;
* `KeepsTargetRun`: `ImplementsTargetRun`. The initial state maps to an initial
  state of `TargetRun`, and each action of the fuzzer, the server, the target
  and the two handlers maps to one of its steps or changes nothing it sees.

`Conversation` of the inductive invariant lists how far the two programs can be
apart: for each point of `run_target`, where the server is, what is in the two
pipes, and what has become of the process it forked. `Processes` holds whatever
happens: processes are forked in order, one for a run at most, and only the last
may be alive. `Timer` says when `ITIMER_REAL` is armed and when `handle_timeout`
may still kill; `Verdicts` relates `child_timed_out`, `prev_timed_out` and the
status on its way to the fate of the run. When one side has ended (`Aftermath`),
the server is dead, and has left a process behind only if the fuzzer was told to
stop. `VerdictIsTrue` needs both: a timer that goes off after the status was sent
kills nobody and is charged to nobody.

`SyncProofs` proves, for any finite sets of fuzzers and edges and any number of
stops (`SyncAssumption`):

* `ImportsDoNotEcho`: `NoEcho`. Inductive once `known` is the set of edges of the
  fuzzer's own files (`Kept`).
* `MarksAreEarned`: `MarkedIsKnown`. A mark says something about numbers, and
  numbers change when a peer resumes. `Marked` is therefore about every number
  below a mark, also beyond the end of a directory that has become shorter, and
  `Scanning` about the numbers seen by a sync in progress. That the files keep
  their order, and what is `lost` by renumbering, rests on lemmas about ranks:
  the nth of a finite set of numbers is the one with n - 1 below it
  (`RankGrows`, and that every rank below the size is taken).

`SessionResumeProofs` proves `NoCaseIsLost`, `FlagsFollowCases`, `SessionIsOnDisk`
and `StartsGoThrough`, that is `NothingLost`, `FlagsCarried`, `Recoverable` and
`ResumeNeverStuck`, for any test cases and any number of processes. Beside
`ConstantsAssumption` (an empty file is no test case, there are finitely many
seeds and room for them) they have the hypotheses `"nuke" \notin KillPoints` and
`~FreshOverLeftover`. Those are the values of run `resume`; `resume_loss` refutes
`Recoverable` without the first, and without the second TLC refutes it as well
(see SessionResume). The invariant follows the data through a start: the session
is complete in the directory the next start will import (`Complete(NextInput)`
when no process is running), stays so in `_resume/` while `queue/` is made again
(`Restoring`, `Making`), is in the list and half in the links (`Importing`), and
then `queue/` is what the list says but for the one file being written
(`Session`). `Memory` says what each `pc` knows of the process, and that only a
torn `fuzzer_stats` has stopped it.

`FuzzOneProofs` proves, for any test cases up to `MAX_FILE` bytes and any values
of the settings (`FuzzOneAssumption`, `DescentAssumption`):

* `HavocIsClean`: `HavocStartsClean`;
* `BuffersSuffice`: `InBounds`;
* `NeighboursAreRun`: `NeighbourInput`;
* `SplicesMix`: `SpliceMixes`.

`Buffers` says at which points `out_buf` is the input again and that `alloc` is
never less than what is about to be written; the lemmas on lengths give, for
each tweak, the length of what it makes. `Solver` says which bytes of `out_buf`
may differ from the point: none at `compare`, one or two while `value()` writes.
`Splicing` knows that a target is another entry and that locating the differing
bytes leaves one on each side.

`AuxiliaryProofs` proves the five properties of `Auxiliary`, under the
assumptions of the four modules. Each part has an invariant that holds also
while the part is off.

* `OutputIsFaithful`, `ResultIsOneMinimal`: `OutputFaithful` and `OneMinimal`.
  From the dry run on the file at hand is one the target was seen to treat like
  the first (`Faithful`). During the last round of deletions by single bytes,
  every file with one of the bytes passed left out has been refused, provided
  nothing was removed in this round (`Minimal`, `Tried`).
* `DictionariesSurvive`: `TokensKept`. What is in the two directories is usable
  tokens, or an empty file that a dying process left (`Wholesome`); what is in
  memory has one spelling of each (`Clean`). `Loading` to `Between` say for each
  step of a session where the tokens are complete: in the files it has yet to
  read, in memory, in the files it has written. `qsort` takes the places of a
  list in another order, and none of this depends on the order (`Reordered`).
* `AllBytesCounted`: `BytesCounted`. The counts of all threads and the bytes in
  use differ by a multiple of the size of a `size_t` (`Balanced`), and the count
  of a thread that frees only its own blocks is the bytes of those (`Own`),
  which is why the limit holds for it. Sums are cardinalities of sets of
  numbered bytes, so that the cardinality theorems apply.
* `BlocksAreMarked`: `BlocksMarked`. The flags of the tool agree with where the
  assembler stands (`Aware`), and a trampoline is on its way to each function and
  to each block that is not owed to a `.p2align` (`Awaited`).

The inductive invariants of `ForkServer`, `SessionResume`, `FuzzOne` and
`Dictionary` were checked by TLC before they were proved. Two changed the
models: the bound on lengths described under FuzzOne, and constants that had to
be stated as assumptions (`Partial \notin Content`, finite `Threads`).

Some changes of the models came with the proofs. `Reach`, the walks of
a graph, is what all sets closed under its edges share, where it was a recursion.
Powers of two are the function `pow2`, because the provers know nothing of `^`. And
`StringInit` asks of the other argument of `strcmp` that it ends with a zero. A
condition is a list of instructions where it was a tree taken apart by recursive
operators; that also brought in instructions with several users.

Only model-checked is liveness under fairness, which is out of the prover's reach:
`FavoredGetsFuzzed`, `RunReturns`, `FuzzerStops`, `FuzzOneReturns`,
`MarksCatchUp`, `Terminates`. `FlipNoticed` and, with kills inside
`nuke_resume_dir`, `Recoverable` are what TLC refutes (see Findings).

## Not modelled

* Statistics, plots and the user interface only print.
* QEMU mode is a set of patches against sources that are not here; its fork
  server is the protocol of `ForkServer`, its translation requests are a cache.
* `afl-showmap`, `afl-analyze`, `afl-gotcpu` and the shell tools run a target
  once per step and keep nothing.
* The wrappers `afl-gcc` and `afl-clang-fast` rewrite a command line; `afl-as.h`
  is assembly text; `libtokencap` prints.
* Of the passes, the search for instructions and the emission of IR.
* `crashes/` and `hangs/` with their backups, the position to seek to.
* The floating point of the descent: costs, step sizes, convergence.
* The deterministic stages: no run reaches them.
* `cppoptlib` is a vendored library; helpers and settings are constants of the
  models where these depend on them.

## Plan

The modules of the plan are written and their safety properties proved. What is
left to say is about parts a model would have to describe with more detail than
the properties need: the costs of the descent, and the hazards of `PROJECT.json`
that have a note in place of a property.
