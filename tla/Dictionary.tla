------------------------------ MODULE Dictionary ------------------------------
(***************************************************************************)
(* The dictionaries of afl-fuzz over the sessions of an output directory:  *)
(* extras[] from -x, and a_extras[] from the auto_extras/ files of the     *)
(* session before (src/afl-fuzz.c).                                        *)
(*                                                                         *)
(* A token is <<length, letters, spelling>>: two tokens of one length with *)
(* the same letters match whatever the case they are spelt in.  The files  *)
(* auto_000000, auto_000001, ... of a directory are a sequence of tokens;  *)
(* one that has been created and not written yet is Empty.  Tokens are     *)
(* discovered by deterministic stages only, which are not run: what fills  *)
(* a_extras is load_auto.                                                  *)
(***************************************************************************)
EXTENDS Integers, Sequences, FiniteSets, Functions

CONSTANTS
  Given,              \* the auto_extras/ files of the input directory, a set of sequences
  Dull,               \* the tokens that are runs of a byte or interesting values
  Sources,            \* what -x may name: files of lines, and directories
  MaxSessions,        \* bound on the number of sessions
  MIN_AUTO_EXTRA, MAX_AUTO_EXTRA, USE_AUTO_EXTRAS, MAX_DICT_FILE

Token == Nat \X Nat \X Nat
Empty == <<0, 0, 0>>

ASSUME DictionaryAssumption ==
  /\ Given \subseteq Seq(Token)
  /\ MIN_AUTO_EXTRA \in Nat \ {0} /\ MAX_AUTO_EXTRA \in Nat /\ USE_AUTO_EXTRAS \in Nat

VARIABLES
  given, saved, moved,    \* auto_extras/ of the input directory, queue/ and _resume/
  begun, resumes,         \* fuzzer_stats exists; this session resumes the one before
  resumeDir,              \* _resume/ exists
  extras, a_extras, auto_changed,
  step, at,               \* where the session is, and the file it is at
  sessions,
  cut                     \* history: a session died with the tokens in its memory only

dictVars == <<given, saved, moved, begun, resumes, resumeDir, extras, a_extras,
              auto_changed, step, at, sessions, cut>>
disk   == <<given, saved, moved, resumeDir>>
tokens == <<extras, a_extras, auto_changed>>

Size(t) == t[1]
Matches(t, u) == t[1] = u[1] /\ t[2] = u[2]     \* memcmp_nocase
UpTo(n, most) == IF n > most THEN most ELSE n

DictInit(on) ==
  /\ given \in (IF on THEN Given ELSE {<<>>})
  /\ saved = <<>> /\ moved = <<>>
  /\ begun = FALSE /\ resumes = FALSE /\ resumeDir = FALSE
  /\ extras = <<>> /\ a_extras = <<>> /\ auto_changed = FALSE
  /\ step = (IF on THEN "down" ELSE "off") /\ at = 1
  /\ sessions = 0 /\ cut = FALSE

-----------------------------------------------------------------------------
(* setup_dirs_fds: without statistics there is nothing to resume.  In a    *)
(* resume queue/ becomes _resume/, unless there is one left, which is then *)
(* taken instead.                                                          *)
StartSession ==
  /\ step = "down" /\ sessions < MaxSessions
  /\ sessions' = sessions + 1
  /\ resumes' = begun
  /\ resumeDir' = begun
  /\ moved' = (IF begun /\ ~resumeDir THEN saved ELSE moved)
  /\ saved' = <<>>
  /\ extras' = <<>> /\ a_extras' = <<>> /\ auto_changed' = FALSE
  /\ step' = "load" /\ at' = 1
  /\ UNCHANGED <<given, begun, cut>>

(* The orders qsort may leave a sequence in, by a key of its elements.     *)
Elements(q) == {q[i] : i \in DOMAIN q}
Orders(q, key) ==
  {r \in {[i \in DOMAIN q |-> q[p[i]]] : p \in Bijection(DOMAIN q, DOMAIN q)} :
     \A i \in 1 .. Len(q) - 1 : key[r[i]] <= key[r[i + 1]]}

(* By use, and the first of them by size.                                  *)
ByUse(q)  == Orders(q, [e \in Elements(q) |-> -e.hit_cnt])
BySize(q) == Orders(q, [e \in Elements(q) |-> Size(e.token)])
Arranged(q) ==
  UNION {{r \o SubSeq(s, Len(r) + 1, Len(s)) :
            r \in BySize(SubSeq(s, 1, UpTo(Len(s), USE_AUTO_EXTRAS)))} :
         s \in ByUse(q)}

KnownAsSpelt(t) == {i \in DOMAIN a_extras : a_extras[i].token = t}  \* fault: case matters
Known(t) == {i \in DOMAIN a_extras : Matches(a_extras[i].token, t)}

Unwanted(t) == t \in Dull \/ \E i \in DOMAIN extras : Matches(extras[i], t)

maybe_add_auto(t) ==
  IF Unwanted(t) THEN UNCHANGED <<a_extras, auto_changed>>
  ELSE /\ auto_changed' = TRUE
       /\ a_extras' \in Arranged(
            IF Known(t) # {}
            THEN [i \in DOMAIN a_extras |->
                    IF i \in Known(t) THEN [a_extras[i] EXCEPT !.hit_cnt = @ + 1]
                    ELSE a_extras[i]]
            ELSE Append(a_extras, [token |-> t, hit_cnt |-> 0]))

(* load_auto: up to the first file that does not exist.                    *)
Files == IF resumes THEN moved ELSE given
Fits(t) == Size(t) \in MIN_AUTO_EXTRA .. MAX_AUTO_EXTRA

LoadFile ==
  /\ step = "load" /\ at <= UpTo(Len(Files), USE_AUTO_EXTRAS)
  /\ IF Fits(Files[at]) THEN maybe_add_auto(Files[at])
     ELSE UNCHANGED <<a_extras, auto_changed>>
  /\ at' = at + 1
  /\ UNCHANGED <<disk, begun, resumes, extras, step, sessions, cut>>

(* pivot_inputs, and nuke_resume_dir at its end.                           *)
PivotInputs ==
  /\ step = "load" /\ at > UpTo(Len(Files), USE_AUTO_EXTRAS)
  /\ moved' = <<>> /\ resumeDir' = FALSE
  /\ step' = "extras" /\ at' = 1
  /\ UNCHANGED <<given, saved, begun, resumes, tokens, sessions, cut>>

-----------------------------------------------------------------------------
(* load_extras, if there is a -x: a file is read line by line, a directory *)
(* file by file.  A line above the wanted level is not looked at beyond    *)
(* its closing quote.                                                      *)
NoExtras ==
  /\ step = "extras"
  /\ step' = "dry_run"
  /\ UNCHANGED <<disk, begun, resumes, tokens, at, sessions, cut>>

Considered(src) ==
  {k \in DOMAIN src.lines : src.lines[k].kind # "blank" /\ src.lines[k].level <= src.level}
Malformed(src) ==
  \/ \E k \in DOMAIN src.lines : src.lines[k].kind = "no quote"
  \/ \E k \in Considered(src) :
       src.lines[k].kind = "garbled" \/ Size(src.lines[k].token) > MAX_DICT_FILE
  \/ src.directory /\ src.level > 0
Words(src) ==
  LET picked == SelectSeq([k \in DOMAIN src.lines |-> <<k, src.lines[k]>>],
                          LAMBDA e : e[1] \in Considered(src))
  IN  [k \in DOMAIN picked |-> picked[k][2].token]

LoadExtras(src) ==
  /\ step = "extras"
  /\ ~Malformed(src) /\ Words(src) # <<>>
  /\ extras' \in Orders(Words(src), [t \in Elements(Words(src)) |-> Size(t)])
  /\ step' = "dry_run"
  /\ UNCHANGED <<disk, begun, resumes, a_extras, auto_changed, at, sessions, cut>>

(* A session that ends before save_auto leaves no token behind, if it has  *)
(* deleted _resume/ or the next one will look at queue/.                   *)
InMemoryOnly == step \in {"extras", "dry_run", "save"} /\ begun /\ a_extras # <<>>

LoadExtrasFails(src) ==
  /\ step = "extras"
  /\ Malformed(src) \/ Words(src) = <<>>
  /\ cut' = (cut \/ InMemoryOnly)
  /\ step' = "down"
  /\ UNCHANGED <<disk, begun, resumes, tokens, at, sessions>>

-----------------------------------------------------------------------------
(* After the dry run: write_stats_file and save_auto, which clears         *)
(* auto_changed first.                                                     *)
DryRunEnds ==
  /\ step = "dry_run"
  /\ begun' = TRUE
  /\ step' = (IF auto_changed THEN "save" ELSE "fuzz")
  /\ auto_changed' = FALSE
  /\ at' = 1
  /\ UNCHANGED <<disk, resumes, extras, a_extras, sessions, cut>>

Last == UpTo(Len(a_extras), USE_AUTO_EXTRAS)

CreateFile ==
  /\ step = "save" /\ at <= Last /\ Len(saved) < at
  /\ saved' = Append(saved, Empty)
  /\ UNCHANGED <<given, moved, resumeDir, begun, resumes, tokens, step, at, sessions, cut>>

WriteFile ==
  /\ step = "save" /\ at <= Last /\ Len(saved) = at
  /\ saved' = [saved EXCEPT ![at] = a_extras[at].token]
  /\ at' = at + 1
  /\ UNCHANGED <<given, moved, resumeDir, begun, resumes, tokens, step, sessions, cut>>

SaveDone ==
  /\ step = "save" /\ at > Last
  /\ step' = "fuzz"
  /\ UNCHANGED <<disk, begun, resumes, tokens, at, sessions, cut>>

(* The session is stopped, or dies.                                        *)
destroy_extras == extras' = <<>> /\ a_extras' = <<>>

StopSession ==
  /\ step = "fuzz"
  /\ destroy_extras
  /\ step' = "down"
  /\ UNCHANGED <<disk, begun, resumes, auto_changed, at, sessions, cut>>

Die ==
  /\ step \notin {"down", "fuzz", "off"}
  /\ cut' = (cut \/ InMemoryOnly)
  /\ step' = "down"
  /\ UNCHANGED <<disk, begun, resumes, tokens, at, sessions>>

DictNext ==
  \/ StartSession \/ LoadFile \/ PivotInputs \/ NoExtras
  \/ \E src \in Sources : LoadExtras(src) \/ LoadExtrasFails(src)
  \/ DryRunEnds \/ CreateFile \/ WriteFile \/ SaveDone
  \/ StopSession \/ Die

-----------------------------------------------------------------------------
(* Properties.                                                             *)

Usable ==
  {t \in {given[i] : i \in 1 .. UpTo(Len(given), USE_AUTO_EXTRAS)} : Fits(t) /\ t \notin Dull}

(* However often the fuzzer is stopped, resumed or dies, a session has in  *)
(* memory and on disk one spelling of each usable token it was first       *)
(* given, unless a process ended between the deletion of _resume/ and the  *)
(* end of save_auto; then it has none that was not given.                  *)
TokensKept ==
  step = "fuzz" =>
    /\ \A i \in DOMAIN a_extras : a_extras[i].token \in Usable
    /\ \A i, j \in DOMAIN a_extras :
         Matches(a_extras[i].token, a_extras[j].token) => i = j
    /\ saved = [i \in DOMAIN a_extras |-> a_extras[i].token]
    /\ ~cut => \A t \in Usable : Known(t) # {}
=============================================================================
