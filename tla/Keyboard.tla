------------------------------ MODULE Keyboard ------------------------------
(***************************************************************************)
(* The keyboard of drivers/keyboard-driver.c: the interrupt handler, which *)
(* turns keys into characters and stores them, and read_keyboard, which    *)
(* takes them out.  The semaphore is_key counts the unread characters.     *)
(*                                                                         *)
(* The whole driver is the record kb; proc is the state of each reader.    *)
(* Two fields are history: unread has the characters that were stored and  *)
(* not taken, in that order, and lost counts the tokens that nobody got.   *)
(* The indices wrap at BUFFER_SIZE, the constant of pipe.h, although the   *)
(* array has the BUFF_SIZE (1024) places of keyboard.h: the places behind  *)
(* it are modelled as memory that nobody else uses.                        *)
(***************************************************************************)
EXTENDS Integers, Sequences, FiniteSetsExt, SequencesExt

CONSTANTS
    BUFFER_SIZE,  \* where the indices wrap
    Keys          \* the keys that are pressed, named for what is on them

ASSUME KeyboardAssumption == BUFFER_SIZE \in Nat \ {0}

NUL == "nul"
NL == "nl"
DEL == "del"

\* Characters with another one above them.
Upper == [c |-> "C", d |-> "D"]
shiftNum == [k \in {"7", "8"} |-> IF k = "7" THEN "&" ELSE "*"]
Modifiers == {"shift", "ctrl", "caps"}

init_keyboard ==
    [buffer |-> [i \in 0..BUFFER_SIZE - 1 |-> NUL], write |-> 0, read |-> 0,
     is_key |-> 0, waiting |-> <<>>, shift |-> FALSE, ctrl |-> FALSE, caps |-> FALSE,
     unread |-> <<>>, lost |-> 0]

\* Shift and control are held, caps lock stays.
updateKeyboardStatus(kb, key, isPressed) ==
    CASE key = "shift" -> [kb EXCEPT !.shift = isPressed]
      [] key = "ctrl"  -> [kb EXCEPT !.ctrl = isPressed]
      [] key = "caps" /\ isPressed -> [kb EXCEPT !.caps = ~@]
      [] OTHER -> kb

toLetter(kb, key) ==
    IF key \in DOMAIN Upper /\ (kb.caps \/ kb.shift) THEN Upper[key]
    ELSE IF key \in DOMAIN shiftNum /\ kb.shift THEN shiftNum[key]
    ELSE key

\* What a key puts into the buffer.  Tab stores five times the byte that is at
\* address 0x20, whatever that is.
Characters(kb, key) ==
    CASE kb.ctrl /\ key = "d" -> <<NUL>>
      [] key = "back"  -> <<DEL>>
      [] key = "enter" -> <<NL>>
      [] key = "tab"   -> [i \in 1..5 |-> "junk"]
      [] key \in Modifiers \cup {"esc", "left", "right"} -> <<>>
      [] OTHER -> <<toLetter(kb, key)>>

-----------------------------------------------------------------------------
(* Storing and reading: k is the pair of kb and proc.                      *)

\* sem_post: a waiter that exists is let through, or the count goes up.  The token
\* is lost on a waiter that was killed when its pid is in use again.
sem_post(k) ==
    LET queue  == k.kb.waiting
        living == {i \in DOMAIN queue : k.proc[queue[i]] # "none"}
        first  == Min(living)
    IN  IF living = {}
        THEN [k EXCEPT !.kb = [k.kb EXCEPT !.is_key = @ + 1, !.waiting = <<>>]]
        ELSE [kb   |-> [k.kb EXCEPT !.waiting = SubSeq(queue, first + 1, Len(queue)),
                                    !.lost = IF k.proc[queue[first]] = "kbd" THEN @ ELSE @ + 1],
              proc |-> [k.proc EXCEPT ![queue[first]] = IF @ = "kbd" THEN "woken" ELSE @]]

Store(k, c) ==
    LET posted == sem_post([k EXCEPT !.kb = [k.kb EXCEPT !.buffer[k.kb.write] = c]])
    IN  [posted EXCEPT !.kb = [posted.kb EXCEPT !.write = (@ + 1) % BUFFER_SIZE,
                                                !.unread = Append(@, c)]]

loadBuffer(k, key) == FoldLeft(Store, k, Characters(k.kb, key))

\* The place of the next character, and what is left when it has been taken.
NextKey(kb) == kb.buffer[kb.read]
Taken(kb) ==
    [kb EXCEPT !.read = (@ + 1) % BUFFER_SIZE, !.unread = SubSeq(@, 2, Len(@))]
=============================================================================
