------------------------------ MODULE Terminal ------------------------------
(***************************************************************************)
(* What the console of src/console.c shows of the text written to it: rows *)
(* of characters and a cursor.  A row has COLS characters; the cursor may  *)
(* stand behind the last one, and a character written there appears at the *)
(* start of the next row, in the way of the one that follows it.  When the *)
(* cursor leaves the last row the text moves up by one.                    *)
(***************************************************************************)
EXTENDS Integers, Sequences

CONSTANTS
  COLS, ROWS,
  Letters,          \* characters that are shown
  Blank,            \* ' '
  Messages          \* texts written at a position of their own

VARIABLES
  text,             \* row -> column -> character
  row, column       \* the cursor

terminalVars == <<text, row, column>>

Rows    == 0 .. ROWS - 1
Columns == 0 .. COLS - 1

BlankRow == [x \in Columns |-> Blank]

TerminalInit ==
  /\ text \in {[y \in Rows |-> [x \in Columns |-> c]] : c \in Letters \union {Blank}}
  /\ row = 0 /\ column = 0

\* t, after the cursor has moved down from its row
Down(t) ==
  IF row < ROWS - 1
  THEN t
  ELSE [y \in Rows |-> IF y < ROWS - 1 THEN t[y + 1] ELSE BlankRow]

RowBelow == IF row < ROWS - 1 THEN row + 1 ELSE row

Put(c) ==
  /\ column < COLS
  /\ text' = [text EXCEPT ![row][column] = c]
  /\ column' = column + 1
  /\ UNCHANGED row

PutBehind(c) ==
  /\ column = COLS
  /\ text' = Down(IF row < ROWS - 1 THEN [text EXCEPT ![row + 1][0] = c] ELSE text)
  /\ column' = 0
  /\ row' = RowBelow

NewLine ==
  /\ text' = Down(text)
  /\ column' = 0
  /\ row' = RowBelow

CarriageReturn == column' = 0 /\ UNCHANGED <<text, row>>

MoveCursor(x, y) == column' = x /\ row' = y /\ UNCHANGED text

Clear == text' = [y \in Rows |-> BlankRow] /\ UNCHANGED <<row, column>>

Reset == text' = [y \in Rows |-> BlankRow] /\ row' = 0 /\ column' = 0

\* A message stays on its row and does not move the cursor.
PutAt(m, x, y) ==
  /\ x + Len(m) <= COLS
  /\ text' = [text EXCEPT ![y] =
       [z \in Columns |-> IF z \in x .. x + Len(m) - 1 THEN m[z - x + 1] ELSE text[y][z]]]
  /\ UNCHANGED <<row, column>>

TerminalNext ==
  \/ \E c \in Letters : Put(c) \/ PutBehind(c)
  \/ NewLine \/ CarriageReturn \/ Clear \/ Reset
  \/ \E x \in Columns, y \in Rows :
       MoveCursor(x, y) \/ \E m \in Messages : PutAt(m, x, y)

TerminalSpec == TerminalInit /\ [][TerminalNext]_terminalVars
=============================================================================
