-------------------------------- MODULE Shell -------------------------------
(***************************************************************************)
(* The terminal: the keyboard, the shell of shell.c and shell-lib.c, the   *)
(* commands it runs, and the screen.                                       *)
(*                                                                         *)
(* A word of the line is what the user typed; which of the commands a word *)
(* names is left open (CommandNames), for the model has too few letters to *)
(* spell them.  The output of a command is OUTPUT, and the prompt, eight   *)
(* characters of NEW_LINE, is one.  newShell and the commands that cause   *)
(* an exception are left out, and what block, unblock and nice do to       *)
(* another process; a process that is slow may be one that is blocked.     *)
(***************************************************************************)
EXTENDS Keyboard, Video

CONSTANTS
    WORD_BUFFER_SIZE,  \* characters of a line, and one
    MAX_ARGS,          \* words of a line
    MAX_ARG_LEN,       \* characters of a word, and one
    Known,             \* the letters that name a command
    Kids,              \* the pids of the children of the shell
    MaxKeys            \* bound: keys that are pressed

ASSUME ShellAssumption ==
    /\ Kids \subseteq Nat \ 0..3 /\ IsFiniteSet(Kids)
    /\ MAX_ARGS \in Nat /\ MAX_ARG_LEN \in Nat \ {0, 1}

\* The pids that main gives away; 0 is nobody's.
NOBODY == 0
FIRST == 1
IDLE == 2
SHELL == 3
PROMPT == ">"
SPACE == " "
OUTPUT == <<"o", NL>>

VARIABLES
    kb,       \* the keyboard
    video,    \* the screen
    proc,     \* where the shell and its children are
    line,     \* buffer[0 .. index - 1] of the shell
    fg,       \* the process with is_foreground
    late,     \* the processes that a Ctrl-C cut off, with its prompt still to print
    spoilt,   \* the line holds or was interrupted by what is not shown
    presses   \* keys pressed

vars == <<kb, video, proc, line, fg, late, spoilt, presses>>

Init ==
    /\ kb = init_keyboard
    /\ video = [InitVideo EXCEPT !.x = 1, !.cells[<<1, 0>>] = PROMPT, !.matrix[<<1, 0>>] = PROMPT]
    /\ proc = [p \in Kids \cup {SHELL} |-> IF p = SHELL THEN "run" ELSE "none"]
    /\ line = <<>> /\ fg = SHELL /\ late = {} /\ spoilt = FALSE /\ presses = 0

\* sys_write to STDOUT or STDERR: only the foreground process reaches the screen.
Printed(v, p, text) == IF fg = p THEN imprimirVideo(v, text) ELSE v

\* A character that was read is printed as a string, which ends at its NUL.
Echoed(v, p, c) == IF c = NUL THEN v ELSE Printed(v, p, <<c>>)

-----------------------------------------------------------------------------
(* Ends of processes.                                                      *)

\* The parent of p, if there is one.
Parent(p) ==
    IF p = SHELL THEN FIRST
    ELSE IF proc[SHELL] # "none" THEN SHELL ELSE NOBODY

\* p leaves the table: its parent gets the foreground, and the token of a reader
\* that was let through goes with it.
remove_from_processes_list(p) ==
    /\ fg' = (IF fg = p THEN Parent(p) ELSE fg)
    /\ kb' = IF proc[p] = "woken" THEN [kb EXCEPT !.lost = @ + 1] ELSE kb

-----------------------------------------------------------------------------
(* The keyboard interrupt.                                                 *)

\* Who may execute with interrupts enabled: idle, and who is in no call.
Interruptible ==
    ({IDLE} \cup {p \in DOMAIN proc : proc[p] \notin {"none", "kbd", "woken"}}) \ late

\* Ten bytes are printed of a string of nine.
Prompted == imprimirVideo(video, <<NL, PROMPT, BLANK, "junk">>)

\* Ctrl-C kills the foreground process and prints a prompt.  The two pids that
\* kill_process refuses are not the shell's.  A kill calls the scheduler before the
\* handler prints: with the killed process on the CPU, nothing is printed, and with
\* another one, now or when that one goes on.  With nobody in the foreground the
\* handler reads a pid at address 0: not followed.
CtrlC ==
    /\ fg # NOBODY
    /\ \/ /\ fg < SHELL
          /\ video' = Prompted
          /\ UNCHANGED <<kb, proc, fg, late>>
       \/ /\ fg >= SHELL
          /\ remove_from_processes_list(fg)
          /\ proc' = [proc EXCEPT ![fg] = "none"]
          /\ \E q \in Interruptible :
                \/ q = fg /\ late' = late \ {fg} /\ UNCHANGED video
                \/ q # fg /\ late' = late \ {fg} /\ video' = Prompted
                \/ q # fg /\ late' = (late \ {fg}) \cup {q} /\ UNCHANGED video
    /\ UNCHANGED spoilt

\* q goes on where a Ctrl-C cut it off: the prompt comes into whatever is on the
\* screen by now.
LatePrompt(q) ==
    /\ late' = late \ {q} /\ video' = Prompted /\ spoilt' = TRUE
    /\ UNCHANGED <<kb, proc, line, fg, presses>>

int_21(key, isPressed) ==
    LET status == updateKeyboardStatus(kb, key, isPressed)
        k      == loadBuffer([kb |-> status, proc |-> proc], key)
    IN  /\ UNCHANGED line
        /\ IF isPressed /\ kb.ctrl /\ key = "c" THEN CtrlC
           ELSE /\ IF isPressed THEN kb' = k.kb /\ proc' = k.proc
                                ELSE kb' = status /\ UNCHANGED proc
                /\ UNCHANGED <<video, fg, late, spoilt>>

Press(key) == presses < MaxKeys /\ presses' = presses + 1 /\ int_21(key, TRUE)

Release(key) ==
    /\ \/ key = "shift" /\ kb.shift
       \/ key = "ctrl" /\ kb.ctrl
    /\ int_21(key, FALSE) /\ UNCHANGED presses

\* read_keyboard, for one character: blocked without one, or kb2 is what is left.
Blocks(p) ==
    /\ p \notin late /\ proc[p] = "run" /\ kb.is_key = 0
    /\ proc' = [proc EXCEPT ![p] = "kbd"]
    /\ kb' = [kb EXCEPT !.waiting = Append(@, p)]
    /\ UNCHANGED <<video, line, fg, late, spoilt, presses>>

\* Mutant: a reader that was blocked reads the next place.
read_keyboard_Late(p) ==
    \/ proc[p] = "run" /\ kb.is_key > 0 /\ kb' = Taken([kb EXCEPT !.is_key = @ - 1])
    \/ proc[p] = "woken" /\ kb' = Taken(Taken(kb))

read_keyboard(p) ==
    \/ proc[p] = "run" /\ kb.is_key > 0 /\ kb' = Taken([kb EXCEPT !.is_key = @ - 1])
    \/ proc[p] = "woken" /\ kb' = Taken(kb)

-----------------------------------------------------------------------------
(* The line.                                                               *)

\* Mutant: a word that is full goes on in the same word.
Reads_Long(p, c) ==
    IF c = SPACE THEN [p EXCEPT !.open = FALSE]
    ELSE IF p.open THEN [p EXCEPT !.args[Len(p.args)] = Append(@, c)]
    ELSE IF Len(p.args) < MAX_ARGS THEN [args |-> Append(p.args, <<c>>), open |-> TRUE]
    ELSE p

\* A character of the line: a word that is full goes on in the next one, and what
\* follows the last one is dropped.
Reads(p, c) ==
    IF c = SPACE THEN [p EXCEPT !.open = FALSE]
    ELSE IF p.open /\ Len(Last(p.args)) < MAX_ARG_LEN - 1
    THEN [p EXCEPT !.args[Len(p.args)] = Append(@, c)]
    ELSE IF Len(p.args) < MAX_ARGS THEN [args |-> Append(p.args, <<c>>), open |-> TRUE]
    ELSE [p EXCEPT !.open = FALSE]

\* The words of the line.
parseCommand(s) == FoldLeft(Reads, [args |-> <<>>, open |-> FALSE], s).args

\* strSize(buffer): up to the NUL.
Text(s) == SubSeq(s, 1, Min({Len(s)} \cup {i - 1 : i \in {j \in DOMAIN s : s[j] = NUL}}))

\* A character in the shell's loop.  The line is run at the Enter, and when it is full.
Edit(c) ==
    LET next == IF c = DEL THEN Front(line) ELSE Append(line, c)
        full == Len(next) = WORD_BUFFER_SIZE - 1
    IN  \/ /\ c = NL
           /\ video' = Printed(video, SHELL, IF line = <<>> THEN <<NL, PROMPT>> ELSE <<NL>>)
           /\ proc' = [proc EXCEPT ![SHELL] = IF line = <<>> THEN "run" ELSE "command"]
           /\ UNCHANGED line
           /\ spoilt' = (spoilt /\ line # <<>>)
        \/ /\ c = DEL /\ line = <<>>
           /\ proc' = [proc EXCEPT ![SHELL] = "run"]
           /\ UNCHANGED <<video, line, spoilt>>
        \/ /\ c # NL /\ (c = DEL => line # <<>>)
           /\ video' = Echoed(video, SHELL, c)
           /\ line' = next
           /\ proc' = [proc EXCEPT ![SHELL] = IF full THEN "command" ELSE "run"]
           /\ spoilt' = (spoilt \/ c = NUL)

ShellKey ==
    /\ SHELL \notin late
    /\ read_keyboard(SHELL)
    /\ Edit(NextKey(kb))
    /\ UNCHANGED <<fg, late, presses>>

-----------------------------------------------------------------------------
(* The commands.                                                           *)

\* How many arguments each command takes; a wrong number, or wrong arguments, is an
\* error message.
Takes ==
    [help |-> {0}, time |-> {1}, zoom |-> {1}, clear |-> {0}, regs |-> {0}, test |-> 1..3,
     block |-> {1}, unblock |-> {1}, nice |-> {2}, yeild |-> {0}, kill |-> {1}, ps |-> {0},
     loop |-> {0}, mem |-> {0}, cat |-> {0}, wc |-> {0}, filter |-> {0}, phylo |-> {0},
     echo |-> 0..MAX_ARGS]
CommandNames == DOMAIN Takes

\* The commands that run in a process of their own.
Programs == {"loop", "mem", "cat", "wc", "filter", "phylo", "echo", "test"}

\* What a command does: it starts a program, or it changes the screen.
Builtin(name) ==
    CASE name = "zoom"  -> {Printed(v, SHELL, <<NL>>) : v \in {zoomIN(video), zoomOUT(video), video}}
      [] name = "clear" -> {videoClear(video)}
      [] OTHER -> {video, Printed(video, SHELL, OUTPUT)}

\* A word names a command when it is a letter of Known.
Named == {<<c>> : c \in Known}

argsError == Printed(video, SHELL, OUTPUT)

processCommand(word) == IF word \in Named THEN CommandNames ELSE {"invalid"}

\* createProcess, as far as the terminal sees it: whoever was in the foreground
\* leaves it, also to a child that runs in the background.
usr_create_process(is_foreground, next) ==
    \E p \in Kids :
        /\ proc[p] = "none" /\ \A q \in Kids : q < p => proc[q] # "none"
        /\ proc' = [proc EXCEPT ![p] = "run", ![SHELL] = next]
        /\ fg' = IF is_foreground THEN p ELSE NOBODY
        /\ UNCHANGED <<kb, video, late>>

\* The shell kills a child, or itself; which pid the word is, is left open.
usr_kill(next) ==
    \E p \in DOMAIN proc :
        /\ proc[p] # "none"
        /\ remove_from_processes_list(p)
        /\ proc' = [proc EXCEPT ![SHELL] = next, ![p] = "none"]
        /\ late' = late \ {p}
        /\ video' = IF p = SHELL THEN Printed(video, SHELL, <<"o">>)
                    ELSE IF SHELL \in {fg, fg'} THEN imprimirVideo(video, OUTPUT) ELSE video

newComand(argv, next) ==
    LET back == Len(argv) > 1 /\ argv[2] = <<"&">>
        argc == Len(argv) - (IF back THEN 2 ELSE 1)
        Shows(v) == /\ video' = v /\ proc' = [proc EXCEPT ![SHELL] = next]
                    /\ UNCHANGED <<kb, fg, late>>
    IN  \E name \in processCommand(argv[1]) :
          IF name = "invalid" \/ argc \notin Takes[name] THEN Shows(argsError)
          ELSE IF name \in Programs
          THEN usr_create_process(~back, next) \/ (name = "test" /\ Shows(argsError))
          ELSE (\E v \in Builtin(name) : Shows(v)) \/ (name = "kill" /\ usr_kill(next))

\* The last `|' that is not the first word.
PipePos(args) == Max({0} \cup {i \in DOMAIN args \ {1} : args[i] = <<"|">>})

\* Without a word, or with no word after the `|', the shell reads and writes past
\* its arrays, and nothing more is said of it.
chekCommand ==
    LET args == parseCommand(Text(line))
        bar  == PipePos(args)
        Goes(label) == proc' = [proc EXCEPT ![SHELL] = label]
    IN  \/ /\ proc[SHELL] = "command"
           /\ \/ /\ args = <<>> \/ bar = Len(args)
                 /\ Goes("undefined") /\ UNCHANGED <<kb, video, fg, late>>
              \/ /\ args # <<>> /\ bar < Len(args)
                 /\ newComand(IF bar = 0 THEN args ELSE SubSeq(args, 1, bar - 1),
                              IF bar = 0 THEN "wait" ELSE "right")
              \/ \* -info; with one word the second is what the memory held before
                 /\ args # <<>> /\ args[1] \in Named
                 /\ Len(args) > 1 => args[2] \notin {<<"&">>, <<"|">>}
                 /\ video' = Printed(video, SHELL, OUTPUT)
                 /\ Goes("info") /\ UNCHANGED <<kb, fg, late>>
        \/ /\ proc[SHELL] = "right"
           /\ newComand(SubSeq(args, bar + 1, Len(args)), "wait")

\* usr_wait_children, and the prompt.
NewLine ==
    /\ \/ proc[SHELL] = "info"
       \/ proc[SHELL] = "wait" /\ \A p \in Kids : proc[p] = "none"
    /\ video' = Printed(video, SHELL, <<PROMPT>>)
    /\ line' = <<>> /\ spoilt' = FALSE
    /\ proc' = [proc EXCEPT ![SHELL] = "run"]
    /\ UNCHANGED <<kb, fg, late>>

-----------------------------------------------------------------------------
(* The children: they print, read and echo what they read, and end.        *)

Kid(p) ==
    \/ /\ proc[p] = "run" /\ video' = Printed(video, p, OUTPUT)
       /\ UNCHANGED <<kb, proc, fg>>
    \/ /\ read_keyboard(p)
       /\ video' = Echoed(video, p, NextKey(kb))
       /\ proc' = [proc EXCEPT ![p] = "run"]
       /\ UNCHANGED fg
    \/ /\ proc[p] = "run" /\ proc' = [proc EXCEPT ![p] = "none"]
       /\ remove_from_processes_list(p)
       /\ UNCHANGED video

Next ==
    \/ \E key \in Keys : Press(key) \/ Release(key)
    \/ \E q \in late : LatePrompt(q)
    \/ \E p \in {SHELL} \cup Kids : Blocks(p)
    \/ ShellKey
    \/ SHELL \notin late /\ chekCommand /\ UNCHANGED <<line, spoilt, presses>>
    \/ SHELL \notin late /\ NewLine /\ UNCHANGED presses
    \/ \E p \in Kids \ late : Kid(p) /\ UNCHANGED <<line, late, spoilt, presses>>

Spec == Init /\ [][Next]_vars

-----------------------------------------------------------------------------
(* Properties.                                                             *)

\* Every unread character has one token: in the count, with a reader that was let
\* through, or lost with a reader that was killed or on a pid that was used again; and
\* as long as the unread ones fit into the buffer they are there, in the order in which
\* they were typed, also after more were typed than fit.  So whoever reads, and in
\* whatever order keys, reads and deaths come, nobody reads what was not typed or was
\* read before, and nobody is overtaken.
KeysKept ==
    LET woken == Cardinality({p \in DOMAIN proc : proc[p] = "woken"})
        count == Len(kb.unread)
    IN  /\ count = kb.is_key + woken + kb.lost
        /\ count <= BUFFER_SIZE =>
              \A i \in 1..count : kb.buffer[(kb.read + i - 1) % BUFFER_SIZE] = kb.unread[i]

\* The character i places before the cursor.
Shown(i) ==
    LET n == (video.y - 1) * COLS + video.x - i
    IN  video.cells[<<1 + n \div COLS, n % COLS>>]

\* At zoom 1 the user sees what will be run: before the cursor there is the line,
\* and before the line the prompt, unless the screen was cleared since, through line
\* ends, full screens and deletions, and whatever was killed by Ctrl-C or by a command.
\* A Ctrl-D in the line, or the prompt of a Ctrl-C that comes late, breaks it up to the
\* next Enter.
LineShown ==
    (  /\ proc[SHELL] \in {"run", "kbd", "woken"}
       /\ fg = SHELL /\ video.zoom = 1 /\ ~spoilt )
    => \A i \in 1..Len(line) + 1 :
          (video.y - 1) * COLS + video.x >= i =>
              Shown(i) = IF i > Len(line) THEN PROMPT ELSE line[Len(line) + 1 - i]

\* The run of characters without a space that i is in begins here.
RunStart(s, i) == Max({j \in 1..i : j = 1 \/ s[j - 1] = SPACE})

\* Each run is cut into pieces that fit: where they begin, and where each ends.
WordStarts(s) == {i \in DOMAIN s : s[i] # SPACE /\ (i - RunStart(s, i)) % (MAX_ARG_LEN - 1) = 0}
WordEnd(s, i) ==
    Min({j - 1 : j \in {j \in i..Len(s) : s[j] = SPACE}} \cup {Len(s), i + MAX_ARG_LEN - 2})

\* The words: the first MAX_ARGS pieces.
Words(s) ==
    LET start(n) == CHOOSE i \in WordStarts(s) : Cardinality({j \in WordStarts(s) : j <= i}) = n
    IN  [n \in 1..Min({Cardinality(WordStarts(s)), MAX_ARGS}) |-> SubSeq(s, start(n), WordEnd(s, start(n)))]

\* The shell runs the words that were typed.
ParseExact == proc[SHELL] = "command" => parseCommand(Text(line)) = Words(Text(line))
=============================================================================
