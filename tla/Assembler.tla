------------------------------ MODULE Assembler ------------------------------
(***************************************************************************)
(* add_instrumentation (src/afl-as.c): one pass over an assembly file that *)
(* puts a trampoline in front of each function, at each branch label and   *)
(* after each conditional jump.  A step reads one line; a line is what it  *)
(* means to the assembler.  Where the assembler stands is `place', what    *)
(* the tool thinks of it are its flags.                                    *)
(***************************************************************************)
EXTENDS Integers, FiniteSets

CONSTANTS
  Ratios,             \* the values of AFL_INST_RATIO to consider
  MaxLines            \* bound on the length of the file

ASSUME AssemblerAssumption == Ratios \subseteq 0 .. 100

VARIABLES
  as_options,         \* inst_ratio, clang_mode, use_64bit, pass_thru
  place,              \* text, intel, app and bits64, as the assembler sees them
  instr_ok, skip_csect, skip_next_label, skip_intel, skip_app,
  instrument_next,
  ins_lines,
  payload,
  reading,
  lines,
  due,                \* history: the labels the next instruction is behind
  aligns,             \* history: p2align directives of a jump table
  unmarked,           \* history: blocks begun without a trampoline
  unmarked_functions, \* history: functions begun without one
  astray              \* history: a trampoline was put where it does not belong

skips == <<skip_csect, skip_next_label, skip_intel, skip_app>>
asHistory == <<due, aligns, unmarked, unmarked_functions, astray>>
asVars == <<as_options, place, instr_ok, skips, instrument_next, ins_lines, payload,
            reading, lines, asHistory>>

(* Branches of a sanitizer are made up for by marking a third of them all. *)
InstRatios == Ratios \cup {r \div 3 : r \in Ratios}

Place == [text : BOOLEAN, intel : BOOLEAN, app : BOOLEAN, bits64 : BOOLEAN]

AsInit(on) ==
  /\ as_options \in
       [inst_ratio : (IF on THEN InstRatios ELSE {100}),
        clang_mode : (IF on THEN BOOLEAN ELSE {FALSE}),
        use_64bit : (IF on THEN BOOLEAN ELSE {TRUE}),
        pass_thru : (IF on THEN BOOLEAN ELSE {FALSE})]
  /\ place \in {p \in Place : ~p.text /\ ~p.intel /\ ~p.app
                                /\ p.bits64 = as_options.use_64bit}
  /\ instr_ok = FALSE /\ skip_csect = FALSE /\ skip_next_label = FALSE
  /\ skip_intel = FALSE /\ skip_app = FALSE /\ instrument_next = FALSE
  /\ ins_lines = 0 /\ payload = FALSE
  /\ reading = on /\ lines = 0
  /\ due = {} /\ aligns = 0 /\ unmarked = 0 /\ unmarked_functions = 0 /\ astray = FALSE

-----------------------------------------------------------------------------
Skipping == skip_intel \/ skip_app \/ skip_csect \/ ~instr_ok

(* Where the program's own code of the kind the tool instruments is.       *)
OwnCode ==
  /\ place.text /\ ~place.intel /\ ~place.app
  /\ place.bits64 = as_options.use_64bit

(* R(100) < inst_ratio.                                                    *)
Draws ==
  {draw \in BOOLEAN : IF draw THEN as_options.inst_ratio > 0 ELSE as_options.inst_ratio < 100}

NextLine(passed) ==
  /\ reading /\ lines < MaxLines /\ as_options.pass_thru = passed
  /\ lines' = lines + 1
  /\ UNCHANGED <<as_options, payload, reading>>

CopyLine ==
  /\ NextLine(TRUE)
  /\ UNCHANGED <<place, instr_ok, skips, instrument_next, ins_lines, asHistory>>

(* A deferred trampoline comes before the instruction, that of the path    *)
(* not taken after it.                                                     *)
One(b) == IF b THEN 1 ELSE 0

Instruction(conditional) ==
  /\ NextLine(FALSE)
  /\ \E draw \in Draws :
       LET before == ~Skipping /\ instrument_next
           after  == ~Skipping /\ conditional /\ draw
       IN  /\ instrument_next' = (instrument_next /\ ~before)
           /\ ins_lines' = ins_lines + One(before) + One(after)
           /\ astray' = (astray \/ ((before \/ after) /\ ~OwnCode))
           /\ unmarked' = unmarked + One(OwnCode /\ due # {} /\ ~before)
                                   + One(OwnCode /\ conditional /\ ~after)
           /\ unmarked_functions' =
                unmarked_functions + One(OwnCode /\ "function" \in due /\ ~before)
           /\ due' = (IF OwnCode THEN {} ELSE due)
  /\ UNCHANGED <<place, instr_ok, skips, aligns>>

(* The section directives are looked for before anything else is.          *)
Section(text) ==
  /\ NextLine(FALSE)
  /\ place' = [place EXCEPT !.text = text]
  /\ instr_ok' = text
  /\ UNCHANGED <<skips, instrument_next, ins_lines, asHistory>>

(* OpenBSD puts a p2align in front of a jump table in the code.            *)
P2Align ==
  /\ NextLine(FALSE)
  /\ skip_next_label' = (skip_next_label \/ (~as_options.clang_mode /\ instr_ok))
  /\ aligns' = aligns + 1
  /\ UNCHANGED <<place, instr_ok, skip_csect, skip_intel, skip_app, instrument_next,
                 ins_lines, due, unmarked, unmarked_functions, astray>>

CodeSize(bits64) ==
  /\ NextLine(FALSE)
  /\ place' = [place EXCEPT !.bits64 = bits64]
  /\ skip_csect' = (bits64 # as_options.use_64bit)
  /\ UNCHANGED <<instr_ok, skip_next_label, skip_intel, skip_app, instrument_next,
                 ins_lines, asHistory>>

Syntax(intel) ==
  /\ NextLine(FALSE)
  /\ place' = [place EXCEPT !.intel = intel]
  /\ skip_intel' = intel
  /\ UNCHANGED <<instr_ok, skip_csect, skip_next_label, skip_app, instrument_next,
                 ins_lines, asHistory>>

AdHocBlock(app) ==
  /\ NextLine(FALSE)
  /\ place' = [place EXCEPT !.app = app]
  /\ skip_app' = app
  /\ UNCHANGED <<instr_ok, skip_csect, skip_next_label, skip_intel, instrument_next,
                 ins_lines, asHistory>>

FunctionLabel ==
  /\ NextLine(FALSE)
  /\ instrument_next' = (instrument_next \/ ~Skipping)
  /\ due' = (IF OwnCode THEN due \cup {"function"} ELSE due)
  /\ UNCHANGED <<place, instr_ok, skips, ins_lines, aligns, unmarked,
                 unmarked_functions, astray>>

SkipsOn(skipped) == skip_next_label \* fault: one table, every label after it
SkipsOnce(skipped) == skip_next_label /\ ~skipped

(* .L0 for GCC, and .LBB0_0 for clang, where it is a label of code.        *)
BranchLabel(by_clang) ==
  /\ NextLine(FALSE)
  /\ by_clang => as_options.clang_mode
  /\ \E draw \in Draws :
       LET found == ~Skipping /\ draw
       IN  /\ instrument_next' = (instrument_next \/ (found /\ ~skip_next_label))
           /\ skip_next_label' = SkipsOnce(found)
  /\ due' = (IF OwnCode THEN due \cup {"branch"} ELSE due)
  /\ UNCHANGED <<place, instr_ok, skip_csect, skip_intel, skip_app, ins_lines, aligns,
                 unmarked, unmarked_functions, astray>>

(* Any other label, another directive, a comment.                          *)
OtherLine ==
  /\ NextLine(FALSE)
  /\ UNCHANGED <<place, instr_ok, skips, instrument_next, ins_lines, asHistory>>

EndOfFile ==
  /\ reading
  /\ payload' = (ins_lines > 0)
  /\ reading' = FALSE
  /\ UNCHANGED <<as_options, place, instr_ok, skips, instrument_next, ins_lines, lines,
                 asHistory>>

AsNext ==
  \/ CopyLine \/ P2Align \/ FunctionLabel \/ OtherLine \/ EndOfFile
  \/ \E b \in BOOLEAN :
       \/ Instruction(b) \/ Section(b) \/ CodeSize(b) \/ Syntax(b) \/ AdHocBlock(b)
       \/ BranchLabel(b)

-----------------------------------------------------------------------------
(* Properties.                                                             *)

(* However labels, directives and foreign code follow each other, a        *)
(* trampoline is never put into data, foreign syntax or code of the other  *)
(* size, every function begins with one, and when all branches are to be   *)
(* marked a block is without one only where a jump table was announced,    *)
(* one block for each.                                                     *)
BlocksMarked ==
  /\ ~astray
  /\ unmarked_functions = 0
  /\ as_options.inst_ratio = 100 /\ ~as_options.pass_thru => unmarked <= aligns
=============================================================================
