------------------------------ MODULE Console ------------------------------
(***************************************************************************)
(* The console of src/console.c and the screen of src/screen.c under it:   *)
(* a cursor, and video memory, one cell after the other, row by row.       *)
(*                                                                         *)
(* A call is a single step, as nothing interrupts it.  What stream.c makes *)
(* of formats and numbers reaches the console character by character and   *)
(* is a sequence of calls here.  Colours are left out.                     *)
(***************************************************************************)
EXTENDS Integers, Sequences

CONSTANTS
  COLS, ROWS,
  Behind,           \* cells of video memory behind the screen that are looked at
  Letters,          \* characters other than '\n' and '\r'
  Blank,            \* ' '
  Messages          \* what is passed to screen_write_string_at

ASSUME ScreenAssumption ==
  /\ COLS \in Nat \ {0}
  /\ ROWS \in Nat \ {0}
  /\ Behind \in Nat \ {0}
  /\ Messages \subseteq Seq(Letters)
  /\ {"newline", "return"} \intersect Letters = {}

VARIABLES
  vram,             \* cell -> character
  row, column       \* stream.row, stream.column

consoleVars == <<vram, row, column>>
cursor      == <<row, column>>

ScreenSize == ROWS * COLS
Cells      == 0 .. ScreenSize + Behind - 1

ConsoleTypeOK ==
  /\ vram \in [Cells -> Letters \union {Blank}]
  /\ row \in 0 .. ROWS - 1
  /\ column \in 0 .. COLS

\* The video memory is as the boot loader left it.
ConsoleInit ==
  /\ vram \in {[i \in Cells |-> c] : c \in Letters \union {Blank}}
  /\ row = 0 /\ column = 0

-----------------------------------------------------------------------------
(***************************************************************************)
(* src/screen.c                                                            *)
(***************************************************************************)
Offset(x, y) == y * COLS + x

\* Mutant of ScrolledUp: the last row is not blanked.
ScrolledUpOnly(v) ==
  [i \in Cells |-> IF i < (ROWS - 1) * COLS THEN v[i + COLS] ELSE v[i]]

\* Mutant of ScrolledUp: one row too many is blanked.
ScrolledUpTooFar(v) ==
  [i \in Cells |-> IF i < (ROWS - 1) * COLS THEN v[i + COLS] ELSE Blank]

\* screen_scroll_up
ScrolledUp(v) ==
  [i \in Cells |->
     IF i < (ROWS - 1) * COLS THEN v[i + COLS]
     ELSE IF i < ScreenSize THEN Blank
     ELSE v[i]]

Cleared == [i \in Cells |-> IF i < ScreenSize THEN Blank ELSE vram[i]]

ScreenClear ==
  /\ vram' = Cleared
  /\ UNCHANGED cursor

ScreenWriteStringAt(m, x, y) ==
  /\ x + Len(m) <= COLS
  /\ vram' = [i \in Cells |->
       IF i \in Offset(x, y) .. Offset(x, y) + Len(m) - 1
       THEN m[i - Offset(x, y) + 1]
       ELSE vram[i]]
  /\ UNCHANGED cursor

-----------------------------------------------------------------------------
(***************************************************************************)
(* src/console.c                                                           *)
(***************************************************************************)

\* The end of _console_write_char: the cursor goes to column x of row y, and
\* v scrolls if that is below the screen.  The loop runs once at most, as y
\* was a row of the screen before.
MoveTo(v, x, y) ==
  /\ column' = x
  /\ IF y >= ROWS
     THEN vram' = ScrolledUp(v) /\ row' = y - 1
     ELSE vram' = v /\ row' = y

\* '\n' falls through to '\r'.
WriteNewLine == MoveTo(vram, 0, row + 1)

WriteReturn == MoveTo(vram, 0, row)

\* Mutant of Wraps: a longer row.
WrapsLater == column + 1 > COLS + 1

\* The column is compared after it was incremented.
Wraps == column + 1 > COLS

WriteLetter(c) ==
  LET v == [vram EXCEPT ![Offset(column, row)] = c]
  IN  IF Wraps THEN MoveTo(v, 0, row + 1) ELSE MoveTo(v, column + 1, row)

ConsoleWriteChar(c) ==
  \/ c = "newline" /\ WriteNewLine
  \/ c = "return"  /\ WriteReturn
  \/ c \in Letters /\ WriteLetter(c)

\* Called with positions on the screen: src/ has console_reset only.
ConsoleSetCursor(x, y) ==
  /\ column' = x
  /\ row' = y
  /\ UNCHANGED vram

ConsoleReset ==
  /\ vram' = Cleared
  /\ column' = 0
  /\ row' = 0

\* Any call of the two files that prints no other letters than C's
ConsoleCalls(C) ==
  \/ \E c \in C \union {"newline", "return"} : ConsoleWriteChar(c)
  \/ ScreenClear
  \/ ConsoleReset
  \/ \E x \in 0 .. COLS - 1, y \in 0 .. ROWS - 1 :
       \/ ConsoleSetCursor(x, y)
       \/ \E m \in Messages : ScreenWriteStringAt(m, x, y)

ConsoleNext == ConsoleCalls(Letters)

ConsoleSpec == ConsoleInit /\ [][ConsoleNext]_consoleVars

-----------------------------------------------------------------------------
(***************************************************************************)
(* Properties                                                              *)
(***************************************************************************)
Shown == [y \in 0 .. ROWS - 1 |-> [x \in 0 .. COLS - 1 |-> vram[Offset(x, y)]]]

Screen == INSTANCE Terminal WITH text <- Shown

\* The screen shows the text: the rows scroll together, nothing that was
\* written is lost but what is written over or scrolls off, and a character
\* behind the last column goes where Terminal says and nowhere else.
ImplementsTerminal == Screen!TerminalSpec

\* Of the memory behind the screen no call writes to more than the first
\* cell, however text wraps and scrolls.
MemoryBehindScreenKept ==
  [][\A i \in Cells : i > ScreenSize => vram'[i] = vram[i]]_consoleVars
=============================================================================
