-------------------------------- MODULE Video -------------------------------
(***************************************************************************)
(* The text console of drivers/video-driver.c.  The screen is the record v *)
(* of the cursor (x, y), the zoom, the cells that are drawn, and matrix,   *)
(* the characters that rePrint draws again.                                *)
(*                                                                         *)
(* The unit is the place of a character at zoom 1: 8 pixels across, and 16 *)
(* down.  Lines are twice as far apart at zoom 2, and a character takes    *)
(* two places of one line.  The first line belongs to imprimirPrograma and *)
(* is left out.  aux, where y returns after a character, equals y whenever *)
(* no character is being drawn, and is left out too.                       *)
(***************************************************************************)
EXTENDS Integers, Sequences, FiniteSetsExt, SequencesExt

CONSTANTS
    COLS,   \* BORDER_X / MOV_X, 128
    ROWS    \* BORDER_Y / MOV_Y, 48

ASSUME VideoAssumption == COLS \in Nat \ {0, 1} /\ ROWS \in Nat \ {0, 1, 2}

BLANK == "blank"
Screen == (1..ROWS - 1) \X (0..COLS - 1)
Matrix == (0..ROWS - 1) \X (0..COLS - 1)

clearScreen(v) == [v EXCEPT !.cells = [c \in Screen |-> BLANK], !.x = 0, !.y = 1]

videoClear(v) ==
    [clearScreen(v) EXCEPT
        !.matrix = [m \in Matrix |-> IF m[1] = 0 THEN v.matrix[m] ELSE BLANK]]

InitVideo ==
    [x |-> 0, y |-> 1, zoom |-> 1,
     cells |-> [c \in Screen |-> BLANK], matrix |-> [m \in Matrix |-> BLANK]]

\* The place of the cursor in the matrix.
Saved(v) == <<v.y \div v.zoom, v.x \div v.zoom>>

\* Draws a character at the cursor, if that is on the screen, and moves on.
charVideo(v, char, isEndLine) ==
    LET drawn == [v EXCEPT !.cells = [c \in Screen |->
                     IF c[1] = v.y /\ c[2] \in v.x..v.x + v.zoom - 1 THEN char ELSE v.cells[c]]]
        next  == IF v.x > COLS \/ v.y >= ROWS THEN v
                 ELSE IF v.x + v.zoom >= COLS /\ isEndLine
                 THEN [drawn EXCEPT !.x = 0, !.y = @ + v.zoom]
                 ELSE [drawn EXCEPT !.x = @ + v.zoom]
    IN  IF next.x >= COLS - 1 /\ next.y >= ROWS - 1 THEN videoClear(next) ELSE next

nlVideo(v) ==
    IF v.y < ROWS - v.zoom THEN [v EXCEPT !.x = 0, !.y = @ + v.zoom] ELSE videoClear(v)

\* The character before the cursor is blanked, and the cursor is left there.
Erase(v, isEndLine) ==
    LET w == charVideo([v EXCEPT !.matrix[Saved(v)] = BLANK], BLANK, isEndLine)
    IN  [w EXCEPT !.x = @ - v.zoom]

\* Mutant: the first place of a line is the end of what can be deleted.
deleteVideo_Line(v) ==
    IF v.x >= v.zoom THEN Erase([v EXCEPT !.x = @ - v.zoom], TRUE) ELSE v

deleteVideo(v) ==
    IF v.y <= 1 /\ v.x <= 0 THEN v
    ELSE IF v.x >= v.zoom THEN Erase([v EXCEPT !.x = @ - v.zoom], TRUE)
    ELSE IF v.y - v.zoom < 1 THEN [v EXCEPT !.x = 0, !.y = 1]
    ELSE Erase([v EXCEPT !.x = COLS - v.zoom, !.y = @ - v.zoom], FALSE)

Imprime(v, char) ==
    CASE char = "nl"  -> nlVideo(v)
      [] char = "del" -> deleteVideo(v)
      [] OTHER -> charVideo([v EXCEPT !.matrix[Saved(v)] = char], char, TRUE)

imprimirVideo(v, text) == FoldLeft(Imprime, v, text)

\* The character of the matrix at m is drawn again.
Redraw(v, m) == charVideo(v, v.matrix[m], TRUE)

\* The lines of the matrix up to the one before a line that starts empty.
rePrint(v) ==
    LET last  == ROWS \div v.zoom - 1
        wide  == COLS \div v.zoom
        lines == Min({last} \cup {i \in 1..last - 1 : v.matrix[<<i + 1, 0>>] = BLANK})
        order == [n \in 1..lines * wide |-> <<1 + (n - 1) \div wide, (n - 1) % wide>>]
    IN  FoldLeft(Redraw, clearScreen(v), order)

zoomIN(v) == rePrint([v EXCEPT !.zoom = IF @ < 2 THEN @ + 1 ELSE @])
zoomOUT(v) == rePrint([v EXCEPT !.zoom = IF @ > 1 THEN @ - 1 ELSE @])
=============================================================================
