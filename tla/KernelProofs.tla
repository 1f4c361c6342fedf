--------------------------- MODULE KernelProofs ----------------------------
(***************************************************************************)
(* From the first instruction to panic, on every machine the constants     *)
(* describe: the kernel's image is mapped, the descriptor tables serve,    *)
(* exceptions reach panic once interrupts_init has run, the console shows  *)
(* what a terminal shows, a byte for the serial port is sent, and panic    *)
(* leaves its message and nothing else on the screen.                      *)
(*                                                                         *)
(* The console comes first, by itself: it keeps its types, never writes    *)
(* behind the first cell after the screen, and implements Terminal, on a   *)
(* screen of any size.                                                     *)
(***************************************************************************)
EXTENDS Kernel, SequenceTheorems, TLAPS

XS == 0 .. COLS - 1
YS == 0 .. ROWS - 1

-----------------------------------------------------------------------------
(***************************************************************************)
(* Cells                                                                   *)
(***************************************************************************)

\* The number of cells does not shrink with the rows.
LEMMA RowsMonotone ==
  ASSUME NEW a \in Nat, NEW b \in Nat, a <= b
  PROVE  a * COLS <= b * COLS
<1>1. (b - a) * COLS >= 0
  BY ScreenAssumption, SMT
<1>2. b * COLS = a * COLS + (b - a) * COLS
  BY ScreenAssumption, SMT
<1> QED  BY <1>1, <1>2, ScreenAssumption, SMT

\* A cell lies behind the cells of the rows above, and COLS before the cell
\* below it.
LEMMA OffsetIsInt ==
  ASSUME NEW x \in Nat, NEW y \in Nat
  PROVE  /\ Offset(x, y) \in Nat
         /\ Offset(x, y) >= y * COLS
         /\ Offset(x, y + 1) = Offset(x, y) + COLS
BY ScreenAssumption, SMT DEF Offset

\* Cursor positions, the one behind a row's last column included, are cells
\* up to the first behind the screen.
LEMMA OffsetInCells ==
  ASSUME NEW x \in 0 .. COLS, NEW y \in YS
  PROVE  /\ Offset(x, y) \in Cells
         /\ Offset(x, y) <= ScreenSize
         /\ x < COLS => Offset(x, y) < ScreenSize
<1>1. (y + 1) * COLS <= ROWS * COLS
  BY RowsMonotone, ScreenAssumption, SMT DEF YS
<1>2. (y + 1) * COLS = y * COLS + COLS
  BY ScreenAssumption, SMT DEF YS
<1> QED  BY <1>1, <1>2, ScreenAssumption, SMT DEF Offset, ScreenSize, Cells, YS

\* A cell of the screen has one column and one row.
LEMMA OffsetUnique ==
  ASSUME NEW x \in XS, NEW y \in YS, NEW a \in XS, NEW b \in YS,
         Offset(x, y) = Offset(a, b)
  PROVE  x = a /\ y = b
<1>1. CASE y < b
  <2>1. (y + 1) * COLS <= b * COLS /\ (y + 1) * COLS = y * COLS + COLS
    BY <1>1, RowsMonotone, ScreenAssumption, SMT DEF YS
  <2> QED  BY <2>1, ScreenAssumption, SMT DEF Offset, XS, YS
<1>2. CASE b < y
  <2>1. (b + 1) * COLS <= y * COLS /\ (b + 1) * COLS = b * COLS + COLS
    BY <1>2, RowsMonotone, ScreenAssumption, SMT DEF YS
  <2> QED  BY <2>1, ScreenAssumption, SMT DEF Offset, XS, YS
<1>3. CASE y = b
  BY <1>3, ScreenAssumption, SMT DEF Offset, XS, YS
<1> QED  BY <1>1, <1>2, <1>3, ScreenAssumption, SMT DEF YS

\* A cell is above the last row just when its row is not the last.
LEMMA OffsetAboveLastRow ==
  ASSUME NEW x \in XS, NEW y \in YS
  PROVE  Offset(x, y) < (ROWS - 1) * COLS <=> y < ROWS - 1
<1>1. CASE y < ROWS - 1
  <2>1. (y + 1) * COLS <= (ROWS - 1) * COLS /\ (y + 1) * COLS = y * COLS + COLS
    BY <1>1, RowsMonotone, ScreenAssumption, SMT DEF YS
  <2> QED  BY <1>1, <2>1, ScreenAssumption, SMT DEF Offset, XS, YS
<1>2. CASE y = ROWS - 1
  BY <1>2, ScreenAssumption, SMT DEF Offset, XS, YS
<1> QED  BY <1>1, <1>2, ScreenAssumption, SMT DEF YS

-----------------------------------------------------------------------------
(***************************************************************************)
(* What the routines do to the memory                                      *)
(***************************************************************************)

\* The type of the video memory.
Vram == [Cells -> Letters \union {Blank}]

\* Scrolling moves the rows up by one, blanks the last, and touches nothing
\* behind the screen.
LEMMA ScrollMovesRows ==
  ASSUME NEW v \in Vram
  PROVE  /\ ScrolledUp(v) \in Vram
         /\ \A i \in Cells : i >= ScreenSize => ScrolledUp(v)[i] = v[i]
         /\ \A x \in XS, y \in YS :
              ScrolledUp(v)[Offset(x, y)] =
                IF y < ROWS - 1 THEN v[Offset(x, y + 1)] ELSE Blank
<1>1. (ROWS - 1) * COLS + COLS = ScreenSize /\ (ROWS - 1) * COLS \in Nat /\ ScreenSize \in Nat
  BY ScreenAssumption, SMT DEF ScreenSize
<1>2. \A i \in Cells : i < (ROWS - 1) * COLS => i + COLS \in Cells
  BY <1>1, ScreenAssumption, SMT DEF Cells
<1>3. ScrolledUp(v) \in Vram
  BY <1>2, ScreenAssumption, SMT DEF ScrolledUp, Vram
<1>4. \A i \in Cells : i >= ScreenSize => ScrolledUp(v)[i] = v[i]
  BY <1>1, ScreenAssumption, SMT DEF ScrolledUp, Cells
<1>5. ASSUME NEW x \in XS, NEW y \in YS
      PROVE  ScrolledUp(v)[Offset(x, y)] =
               IF y < ROWS - 1 THEN v[Offset(x, y + 1)] ELSE Blank
  <2>1. Offset(x, y) \in Cells /\ Offset(x, y) < ScreenSize
    BY OffsetInCells, ScreenAssumption, SMT DEF XS
  <2>2. Offset(x, y + 1) = Offset(x, y) + COLS
    BY OffsetIsInt, SMT DEF XS, YS
  <2>3. Offset(x, y) < (ROWS - 1) * COLS <=> y < ROWS - 1
    BY OffsetAboveLastRow
  <2> QED  BY <2>1, <2>2, <2>3 DEF ScrolledUp
<1> QED  BY <1>3, <1>4, <1>5

\* A cleared screen is blank, and nothing behind it is touched.
LEMMA ClearBlanksRows ==
  ASSUME vram \in Vram
  PROVE  /\ Cleared \in Vram
         /\ \A i \in Cells : i >= ScreenSize => Cleared[i] = vram[i]
         /\ \A x \in XS, y \in YS : Cleared[Offset(x, y)] = Blank
<1>1. \A x \in XS, y \in YS : Offset(x, y) \in Cells /\ Offset(x, y) < ScreenSize
  BY OffsetInCells, ScreenAssumption, SMT DEF XS
<1>2. \A i \in Cells : i \in Int /\ ScreenSize \in Int
  BY ScreenAssumption, SMT DEF Cells, ScreenSize
<1> QED  BY <1>1, <1>2, SMT DEF Cleared, Vram

\* Where a written cell is shown: in its row and column if it is on the
\* screen; behind the last column it is the first cell of the row below.
LEMMA WriteShows ==
  ASSUME vram \in Vram, NEW c \in Letters, NEW x \in 0 .. COLS, NEW y \in YS
  PROVE  LET v == [vram EXCEPT ![Offset(x, y)] = c]
         IN  /\ v \in Vram
             /\ \A i \in Cells : i > ScreenSize => v[i] = vram[i]
             /\ \A a \in XS, b \in YS :
                  v[Offset(a, b)] =
                    IF \/ x < COLS /\ a = x /\ b = y
                       \/ x = COLS /\ a = 0 /\ b = y + 1
                    THEN c ELSE vram[Offset(a, b)]
<1> DEFINE v == [vram EXCEPT ![Offset(x, y)] = c]
<1>1. Offset(x, y) \in Cells /\ Offset(x, y) <= ScreenSize
  BY OffsetInCells
<1>2. v \in Vram
  BY DEF Vram
<1>3. \A i \in Cells : i > ScreenSize => v[i] = vram[i]
  BY <1>1, ScreenAssumption, SMT DEF Vram, Cells, ScreenSize
<1>4. ASSUME NEW a \in XS, NEW b \in YS
      PROVE  v[Offset(a, b)] =
               IF \/ x < COLS /\ a = x /\ b = y
                  \/ x = COLS /\ a = 0 /\ b = y + 1
               THEN c ELSE vram[Offset(a, b)]
  <2>1. Offset(a, b) \in Cells /\ Offset(a, b) < ScreenSize
    BY OffsetInCells, ScreenAssumption, SMT DEF XS
  <2>2. v[Offset(a, b)] = IF Offset(a, b) = Offset(x, y) THEN c ELSE vram[Offset(a, b)]
    BY <1>1, <2>1 DEF Vram
  <2>3. CASE x < COLS
    <3>1. x \in XS
      BY <2>3, ScreenAssumption, SMT DEF XS
    <3>2. Offset(a, b) = Offset(x, y) => a = x /\ b = y
      BY <3>1, OffsetUnique
    <3> QED  BY <2>2, <2>3, <3>2, ScreenAssumption, SMT
  <2>4. CASE x = COLS
    <3>1. Offset(x, y) = Offset(0, y + 1)
      BY <2>4, ScreenAssumption, SMT DEF Offset, YS
    <3>2. CASE y < ROWS - 1
      <4>1. 0 \in XS /\ y + 1 \in YS
        BY <3>2, ScreenAssumption, SMT DEF XS, YS
      <4>2. Offset(a, b) = Offset(0, y + 1) => a = 0 /\ b = y + 1
        BY <4>1, OffsetUnique
      <4> QED  BY <2>2, <2>4, <3>1, <4>2, ScreenAssumption, SMT
    <3>3. CASE y = ROWS - 1
      <4>1. Offset(x, y) = ScreenSize
        BY <2>4, <3>3, ScreenAssumption, SMT DEF Offset, ScreenSize
      <4>2. b # y + 1
        BY <3>3, ScreenAssumption, SMT DEF YS
      <4>3. Offset(a, b) # Offset(x, y)
        BY <2>1, <4>1, ScreenAssumption, SMT DEF ScreenSize, Cells
      <4> QED  BY <2>2, <2>4, <4>2, <4>3, ScreenAssumption, SMT
    <3> QED  BY <3>2, <3>3, ScreenAssumption, SMT DEF YS
  <2> QED  BY <2>3, <2>4, ScreenAssumption, SMT
<1> QED  BY <1>2, <1>3, <1>4

\* A message put on a row changes the cells of its columns and no others.
LEMMA MessageShows ==
  ASSUME vram \in Vram, NEW m \in Messages, NEW x \in XS, NEW y \in YS,
         ScreenWriteStringAt(m, x, y)
  PROVE  /\ vram' \in Vram
         /\ \A i \in Cells : i >= ScreenSize => vram'[i] = vram[i]
         /\ \A a \in XS, b \in YS :
              vram'[Offset(a, b)] =
                IF b = y /\ a \in x .. x + Len(m) - 1 THEN m[a - x + 1]
                ELSE vram[Offset(a, b)]
<1> DEFINE Columns == Offset(x, y) .. Offset(x, y) + Len(m) - 1
<1>1. m \in Seq(Letters) /\ Len(m) \in Nat /\ x + Len(m) <= COLS
  BY ScreenAssumption DEF ScreenWriteStringAt
<1>2. Offset(x, y) \in Nat
  BY OffsetIsInt, SMT DEF XS, YS
<1>3. vram' = [i \in Cells |-> IF i \in Columns THEN m[i - Offset(x, y) + 1] ELSE vram[i]]
  BY DEF ScreenWriteStringAt
<1>4. \A i \in Columns : i - Offset(x, y) + 1 \in 1 .. Len(m)
  BY <1>1, <1>2, SMT
<1>5. \A k \in 1 .. Len(m) : m[k] \in Letters
  BY <1>1
<1>6. vram' \in Vram
  BY <1>3, <1>4, <1>5 DEF Vram
<1>7. \A i \in Cells : i >= ScreenSize => i \notin Columns
  <2>1. COLS - 1 \in 0 .. COLS /\ COLS - 1 < COLS
    BY ScreenAssumption, SMT
  <2>2. Offset(COLS - 1, y) < ScreenSize
    BY <2>1, OffsetInCells
  <2>3. Offset(x, y) + Len(m) - 1 <= Offset(COLS - 1, y)
    BY <1>1, ScreenAssumption, SMT DEF Offset, XS, YS
  <2>4. Offset(COLS - 1, y) \in Int /\ ScreenSize \in Int
    BY ScreenAssumption, SMT DEF Offset, ScreenSize, YS
  <2> QED  BY <1>1, <1>2, <2>2, <2>3, <2>4, SMT DEF Cells
<1>8. ASSUME NEW a \in XS, NEW b \in YS
      PROVE  vram'[Offset(a, b)] =
               IF b = y /\ a \in x .. x + Len(m) - 1 THEN m[a - x + 1]
               ELSE vram[Offset(a, b)]
  <2>1. Offset(a, b) \in Cells /\ a \in Nat /\ x \in Nat
    BY OffsetInCells, ScreenAssumption, SMT DEF XS
  <2>2. CASE b = y
    <3>1. Offset(a, b) - Offset(x, y) = a - x
      BY <2>2, ScreenAssumption, SMT DEF Offset, XS, YS
    <3>2. Offset(a, b) \in Columns <=> a \in x .. x + Len(m) - 1
      BY <1>1, <1>2, <2>1, <3>1, SMT DEF Cells
    <3> QED  BY <1>3, <2>1, <2>2, <3>1, <3>2
  <2>3. CASE b # y
    <3>1. ASSUME Offset(a, b) \in Columns
          PROVE  FALSE
      <4> DEFINE k == Offset(a, b) - Offset(x, y) + x
      <4>1. k \in XS
        BY <1>1, <1>2, <2>1, <3>1, ScreenAssumption, SMT DEF XS
      <4>2. Offset(a, b) = Offset(k, y)
        BY ScreenAssumption, SMT DEF Offset, XS, YS
      <4> QED  BY <2>3, <4>1, <4>2, OffsetUnique
    <3> QED  BY <1>3, <2>1, <2>3, <3>1
  <2> QED  BY <2>2, <2>3
<1> QED  BY <1>3, <1>6, <1>7, <1>8

-----------------------------------------------------------------------------
(***************************************************************************)
(* Steps                                                                   *)
(***************************************************************************)

\* What a step keeps, and the step of the terminal it is.
Good ==
  /\ ConsoleTypeOK'
  /\ \A i \in Cells : i > ScreenSize => vram'[i] = vram[i]
  /\ Screen!TerminalNext

\* The memory of a step, v, scrolled where the cursor leaves the last row.
LEMMA MoveToShows ==
  ASSUME NEW v \in Vram, NEW x \in 0 .. COLS, NEW y \in 0 .. ROWS, MoveTo(v, x, y),
         \A i \in Cells : i > ScreenSize => v[i] = vram[i]
  PROVE  /\ ConsoleTypeOK'
         /\ \A i \in Cells : i > ScreenSize => vram'[i] = vram[i]
         /\ column' = x /\ row' = IF y = ROWS THEN ROWS - 1 ELSE y
         /\ \A a \in XS, b \in YS :
              vram'[Offset(a, b)] =
                IF y < ROWS THEN v[Offset(a, b)]
                ELSE IF b < ROWS - 1 THEN v[Offset(a, b + 1)] ELSE Blank
<1>1. CASE y >= ROWS
  <2>1. y = ROWS /\ ~ (y < ROWS) /\ y - 1 \in 0 .. ROWS - 1
    BY <1>1, ScreenAssumption, SMT
  <2>2. vram' = ScrolledUp(v) /\ row' = y - 1 /\ column' = x
    BY <1>1 DEF MoveTo
  <2>3. \A i \in Cells : i > ScreenSize => i >= ScreenSize
    BY ScreenAssumption, SMT DEF Cells, ScreenSize
  <2> QED  BY <2>1, <2>2, <2>3, ScrollMovesRows DEF ConsoleTypeOK, Vram
<1>2. CASE ~ (y >= ROWS)
  <2>1. y < ROWS /\ y # ROWS /\ y \in 0 .. ROWS - 1
    BY <1>2, ScreenAssumption, SMT
  <2>2. vram' = v /\ row' = y /\ column' = x
    BY <1>2 DEF MoveTo
  <2> QED  BY <2>1, <2>2 DEF ConsoleTypeOK, Vram
<1> QED  BY <1>1, <1>2

\* What is shown after a step.
LEMMA ShownAfter ==
  Shown' = [y \in YS |-> [x \in XS |-> vram'[Offset(x, y)]]]
BY DEF Shown, XS, YS, Offset

\* One character shown elsewhere than before.
LEMMA OneCellShown ==
  ASSUME NEW x \in XS, NEW y \in YS, NEW c,
         \A a \in XS, b \in YS :
           vram'[Offset(a, b)] = IF a = x /\ b = y THEN c ELSE vram[Offset(a, b)]
  PROVE  Shown' = [Shown EXCEPT ![y][x] = c]
<1> DEFINE S == [Shown EXCEPT ![y] = [Shown[y] EXCEPT ![x] = c]]
           T == [b \in YS |-> [a \in XS |-> vram'[Offset(a, b)]]]
<1>1. Shown = [b \in YS |-> [a \in XS |-> vram[Offset(a, b)]]]
  BY DEF Shown, XS, YS
<1>2. ASSUME NEW b \in YS, b # y
      PROVE  S[b] = T[b]
  BY <1>1, <1>2
<1>3. S[y] = T[y]
  <2>1. Shown[y] = [a \in XS |-> vram[Offset(a, y)]]
    BY <1>1
  <2>2. S[y] = [a \in XS |-> IF a = x THEN c ELSE vram[Offset(a, y)]]
    BY <1>1, <2>1
  <2> QED  BY <2>2
<1>4. S = T
  <2>1. S = [b \in YS |-> S[b]] /\ T = [b \in YS |-> T[b]]
    BY <1>1
  <2> QED  BY <1>2, <1>3, <2>1
<1> QED  BY <1>4, ShownAfter

\* A line feed is the terminal's, scrolling included.
LEMMA NewLineIsGood ==
  ASSUME ConsoleTypeOK, WriteNewLine
  PROVE  Good
<1>1. 0 \in 0 .. COLS /\ row + 1 \in 0 .. ROWS /\ vram \in Vram
  BY ScreenAssumption, SMT DEF ConsoleTypeOK, Vram
<1>2. MoveTo(vram, 0, row + 1)
  BY DEF WriteNewLine
<1>3. /\ ConsoleTypeOK' /\ column' = 0
      /\ \A i \in Cells : i > ScreenSize => vram'[i] = vram[i]
      /\ row' = IF row + 1 = ROWS THEN ROWS - 1 ELSE row + 1
      /\ \A a \in XS, b \in YS :
           vram'[Offset(a, b)] =
             IF row + 1 < ROWS THEN vram[Offset(a, b)]
             ELSE IF b < ROWS - 1 THEN vram[Offset(a, b + 1)] ELSE Blank
  BY <1>1, <1>2, MoveToShows
<1>4. row' = Screen!RowBelow
  BY <1>3, ScreenAssumption, SMT DEF ConsoleTypeOK, Screen!RowBelow
<1>5. Shown' = Screen!Down(Shown)
  <2>1. CASE row < ROWS - 1
    <3>1. row + 1 < ROWS
      BY <2>1, ScreenAssumption, SMT DEF ConsoleTypeOK
    <3> QED  BY <1>3, <2>1, <3>1 DEF Shown, Screen!Down, XS, YS, Offset
  <2>2. CASE ~ (row < ROWS - 1)
    <3>1. ~ (row + 1 < ROWS) /\ \A b \in YS : b < ROWS - 1 => b + 1 \in YS
      BY <2>2, ScreenAssumption, SMT DEF ConsoleTypeOK, YS
    <3> QED  BY <1>3, <2>2, <3>1 DEF Shown, Screen!Down, Screen!Rows, Screen!Columns, Screen!BlankRow, XS, YS, Offset
  <2> QED  BY <2>1, <2>2
<1>6. Screen!NewLine
  BY <1>3, <1>4, <1>5 DEF Screen!NewLine
<1> QED  BY <1>3, <1>6 DEF Good, Screen!TerminalNext

\* So is a carriage return.
LEMMA ReturnIsGood ==
  ASSUME ConsoleTypeOK, WriteReturn
  PROVE  Good
<1>1. 0 \in 0 .. COLS /\ row \in 0 .. ROWS /\ row < ROWS /\ row # ROWS /\ vram \in Vram
  BY ScreenAssumption, SMT DEF ConsoleTypeOK, Vram
<1>2. MoveTo(vram, 0, row)
  BY DEF WriteReturn
<1>3. /\ ConsoleTypeOK' /\ column' = 0 /\ row' = row
      /\ \A i \in Cells : i > ScreenSize => vram'[i] = vram[i]
      /\ \A a \in XS, b \in YS : vram'[Offset(a, b)] = vram[Offset(a, b)]
  BY <1>1, <1>2, MoveToShows
<1>4. Shown' = Shown
  BY <1>3 DEF Shown, XS, YS, Offset
<1> QED  BY <1>3, <1>4 DEF Good, Screen!TerminalNext, Screen!CarriageReturn

\* A letter on the screen, before the cursor is behind the last column.
LEMMA LetterIsGood ==
  ASSUME ConsoleTypeOK, NEW c \in Letters, WriteLetter(c)
  PROVE  Good
<1> DEFINE v == [vram EXCEPT ![Offset(column, row)] = c]
<1>1. /\ vram \in Vram /\ column \in 0 .. COLS /\ row \in YS /\ 0 \in 0 .. COLS
      /\ row \in 0 .. ROWS /\ row + 1 \in 0 .. ROWS /\ row < ROWS /\ row # ROWS
  BY ScreenAssumption, SMT DEF ConsoleTypeOK, Vram, YS
<1>2. /\ v \in Vram
      /\ \A i \in Cells : i > ScreenSize => v[i] = vram[i]
      /\ \A a \in XS, b \in YS :
           v[Offset(a, b)] =
             IF \/ column < COLS /\ a = column /\ b = row
                \/ column = COLS /\ a = 0 /\ b = row + 1
             THEN c ELSE vram[Offset(a, b)]
  BY <1>1, WriteShows
<1>3. CASE Wraps
  <2>1. column = COLS /\ ~ (column < COLS)
    BY <1>1, <1>3, ScreenAssumption, SMT DEF Wraps
  <2>2. MoveTo(v, 0, row + 1)
    BY <1>3 DEF WriteLetter
  <2> HIDE DEF v
  <2>3. /\ ConsoleTypeOK' /\ column' = 0
        /\ \A i \in Cells : i > ScreenSize => vram'[i] = vram[i]
        /\ row' = IF row + 1 = ROWS THEN ROWS - 1 ELSE row + 1
        /\ \A a \in XS, b \in YS :
             vram'[Offset(a, b)] =
               IF row + 1 < ROWS THEN v[Offset(a, b)]
               ELSE IF b < ROWS - 1 THEN v[Offset(a, b + 1)] ELSE Blank
    BY <1>1, <1>2, <2>2, MoveToShows
  <2>4. row' = Screen!RowBelow
    BY <2>3, ScreenAssumption, SMT DEF ConsoleTypeOK, Screen!RowBelow
  <2>5. CASE row < ROWS - 1
    <3>1. row + 1 < ROWS /\ row + 1 \in YS /\ 0 \in XS
      BY <2>5, ScreenAssumption, SMT DEF ConsoleTypeOK, YS, XS
    <3>2. \A a \in XS, b \in YS :
            vram'[Offset(a, b)] = IF a = 0 /\ b = row + 1 THEN c ELSE vram[Offset(a, b)]
      BY <1>2, <2>1, <2>3, <3>1
    <3>3. Shown' = [Shown EXCEPT ![row + 1][0] = c]
      BY <3>1, <3>2, OneCellShown
    <3>4. Screen!PutBehind(c)
      BY <2>1, <2>3, <2>4, <2>5, <3>3 DEF Screen!PutBehind, Screen!Down
    <3> QED  BY <2>3, <3>4 DEF Good, Screen!TerminalNext
  <2>6. CASE ~ (row < ROWS - 1)
    <3>1. /\ ~ (row + 1 < ROWS) /\ \A b \in YS : b # row + 1
          /\ \A b \in YS : b < ROWS - 1 => b + 1 \in YS
      BY <2>6, ScreenAssumption, SMT DEF ConsoleTypeOK, YS
    <3>2. \A a \in XS, b \in YS : v[Offset(a, b)] = vram[Offset(a, b)]
      BY <1>2, <2>1, <3>1
    <3>3. \A a \in XS, b \in YS :
            vram'[Offset(a, b)] = IF b < ROWS - 1 THEN vram[Offset(a, b + 1)] ELSE Blank
      BY <2>3, <3>1, <3>2
    <3>4. Shown' = Screen!Down(Shown)
      BY <2>6, <3>1, <3>3
         DEF Shown, Screen!Down, Screen!Rows, Screen!Columns, Screen!BlankRow, XS, YS, Offset
    <3>5. Screen!PutBehind(c)
      BY <2>1, <2>3, <2>4, <2>6, <3>4 DEF Screen!PutBehind
    <3> QED  BY <2>3, <3>5 DEF Good, Screen!TerminalNext
  <2> QED  BY <2>5, <2>6
<1>4. CASE ~ Wraps
  <2>1. column < COLS /\ column # COLS /\ column + 1 \in 0 .. COLS /\ column \in XS
    BY <1>1, <1>4, ScreenAssumption, SMT DEF Wraps, XS
  <2>2. MoveTo(v, column + 1, row)
    BY <1>4 DEF WriteLetter
  <2> HIDE DEF v
  <2>3. /\ ConsoleTypeOK' /\ column' = column + 1 /\ row' = row
        /\ \A i \in Cells : i > ScreenSize => vram'[i] = vram[i]
        /\ \A a \in XS, b \in YS : vram'[Offset(a, b)] = v[Offset(a, b)]
    BY <1>1, <1>2, <2>1, <2>2, MoveToShows
  <2>4. \A a \in XS, b \in YS :
          vram'[Offset(a, b)] = IF a = column /\ b = row THEN c ELSE vram[Offset(a, b)]
    BY <1>2, <2>1, <2>3
  <2>5. Shown' = [Shown EXCEPT ![row][column] = c]
    BY <1>1, <2>1, <2>4, OneCellShown
  <2>6. Screen!Put(c)
    BY <2>1, <2>3, <2>5 DEF Screen!Put
  <2> QED  BY <2>3, <2>6 DEF Good, Screen!TerminalNext
<1> QED  BY <1>3, <1>4

\* console_write_char is a step of the terminal.
LEMMA CharacterIsGood ==
  ASSUME ConsoleTypeOK, NEW c, ConsoleWriteChar(c)
  PROVE  Good
BY NewLineIsGood, ReturnIsGood, LetterIsGood DEF ConsoleWriteChar

\* A screen all of whose cells have become blank.
LEMMA BlankShown ==
  ASSUME \A x \in XS, y \in YS : vram'[Offset(x, y)] = Blank
  PROVE  Shown' = [y \in YS |-> [x \in XS |-> Blank]]
BY ShownAfter

\* So is screen_clear, which leaves the cursor where it is.
LEMMA ClearIsGood ==
  ASSUME ConsoleTypeOK, ScreenClear
  PROVE  Good
<1>1. /\ vram' \in Vram /\ row' = row /\ column' = column
      /\ \A i \in Cells : i >= ScreenSize => vram'[i] = vram[i]
      /\ \A x \in XS, y \in YS : vram'[Offset(x, y)] = Blank
  BY ClearBlanksRows DEF ConsoleTypeOK, Vram, ScreenClear, cursor
<1>2. \A i \in Cells : i > ScreenSize => i >= ScreenSize
  BY ScreenAssumption, SMT DEF Cells, ScreenSize
<1>3. Shown' = [y \in YS |-> [x \in XS |-> Blank]]
  BY <1>1, BlankShown
<1>4. Screen!Clear
  BY <1>1, <1>3 DEF Screen!Clear, Screen!Rows, Screen!BlankRow, Screen!Columns, XS, YS
<1> QED  BY <1>1, <1>2, <1>4 DEF Good, Screen!TerminalNext, ConsoleTypeOK, Vram

\* So is console_reset.
LEMMA ResetIsGood ==
  ASSUME ConsoleTypeOK, ConsoleReset
  PROVE  Good
<1>1. /\ vram' \in Vram /\ row' = 0 /\ column' = 0
      /\ \A i \in Cells : i >= ScreenSize => vram'[i] = vram[i]
      /\ \A x \in XS, y \in YS : vram'[Offset(x, y)] = Blank
  BY ClearBlanksRows DEF ConsoleTypeOK, Vram, ConsoleReset
<1>2. \A i \in Cells : i > ScreenSize => i >= ScreenSize
  BY ScreenAssumption, SMT DEF Cells, ScreenSize
<1>3. Shown' = [y \in YS |-> [x \in XS |-> Blank]]
  BY <1>1, BlankShown
<1>4. Screen!Reset
  BY <1>1, <1>3 DEF Screen!Reset, Screen!Rows, Screen!BlankRow, Screen!Columns, XS, YS
<1>5. 0 \in 0 .. ROWS - 1 /\ 0 \in 0 .. COLS
  BY ScreenAssumption, SMT
<1> QED  BY <1>1, <1>2, <1>4, <1>5 DEF Good, Screen!TerminalNext, ConsoleTypeOK, Vram

\* screen_write_string_at shows the string where it is told to.
LEMMA MessageIsGood ==
  ASSUME ConsoleTypeOK, NEW m \in Messages, NEW x \in XS, NEW y \in YS,
         ScreenWriteStringAt(m, x, y)
  PROVE  Good
<1>1. /\ vram' \in Vram /\ row' = row /\ column' = column /\ x + Len(m) <= COLS
      /\ \A i \in Cells : i >= ScreenSize => vram'[i] = vram[i]
      /\ \A a \in XS, b \in YS :
           vram'[Offset(a, b)] =
             IF b = y /\ a \in x .. x + Len(m) - 1 THEN m[a - x + 1]
             ELSE vram[Offset(a, b)]
  BY MessageShows DEF ConsoleTypeOK, Vram, ScreenWriteStringAt, cursor
<1>2. \A i \in Cells : i > ScreenSize => i >= ScreenSize
  BY ScreenAssumption, SMT DEF Cells, ScreenSize
<1> DEFINE R == [a \in XS |-> IF a \in x .. x + Len(m) - 1 THEN m[a - x + 1] ELSE Shown[y][a]]
           S == [Shown EXCEPT ![y] = R]
           T == [b \in YS |-> [a \in XS |-> vram'[Offset(a, b)]]]
<1>3. Shown = [b \in YS |-> [a \in XS |-> vram[Offset(a, b)]]]
  BY DEF Shown, XS, YS
<1>4. S = T
  <2>1. S[y] = T[y]
    <3>1. Shown[y] = [a \in XS |-> vram[Offset(a, y)]]
      BY <1>3
    <3>2. \A a \in XS : R[a] = vram'[Offset(a, y)]
      BY <1>1, <3>1
    <3>3. S[y] = R
      BY <1>3
    <3> QED  BY <3>2, <3>3
  <2>2. ASSUME NEW b \in YS, b # y
        PROVE  S[b] = T[b]
    BY <1>1, <1>3, <2>2
  <2>3. S = [b \in YS |-> S[b]] /\ T = [b \in YS |-> T[b]]
    BY <1>3
  <2> QED  BY <2>1, <2>2, <2>3
<1>5. Screen!PutAt(m, x, y)
  BY <1>1, <1>4, ShownAfter DEF Screen!PutAt, Screen!Columns, XS
<1>6. Screen!TerminalNext
  BY <1>5 DEF Screen!TerminalNext, Screen!Columns, Screen!Rows, XS, YS
<1> QED  BY <1>1, <1>2, <1>6 DEF Good, ConsoleTypeOK, Vram

\* Moving the cursor changes nothing that is shown.
LEMMA CursorIsGood ==
  ASSUME ConsoleTypeOK, NEW x \in XS, NEW y \in YS, ConsoleSetCursor(x, y)
  PROVE  Good
<1>1. x \in 0 .. COLS
  BY ScreenAssumption, SMT DEF XS
<1>2. vram' = vram /\ row' = y /\ column' = x
  BY DEF ConsoleSetCursor
<1>3. Shown' = Shown
  BY <1>2 DEF Shown, Offset
<1>4. Screen!MoveCursor(x, y)
  BY <1>2, <1>3 DEF Screen!MoveCursor
<1>5. Screen!TerminalNext
  BY <1>4 DEF Screen!TerminalNext, Screen!Columns, Screen!Rows, XS, YS
<1> QED  BY <1>1, <1>2, <1>5 DEF Good, ConsoleTypeOK, YS

\* Every call of the console keeps the type, leaves the memory behind the
\* screen's first cell alone, and is a step of the terminal.
LEMMA ConsoleStepIsGood ==
  ASSUME ConsoleTypeOK, ConsoleNext
  PROVE  Good
BY CharacterIsGood, ClearIsGood, ResetIsGood, CursorIsGood, MessageIsGood
   DEF ConsoleNext, ConsoleCalls, XS, YS

-----------------------------------------------------------------------------
\* The cursor and the video memory keep their types, column COLS included.
THEOREM ConsoleTypeCorrect == ConsoleSpec => []ConsoleTypeOK
<1>1. ConsoleInit => ConsoleTypeOK
  <2>1. 0 \in 0 .. ROWS - 1 /\ 0 \in 0 .. COLS
    BY ScreenAssumption, SMT
  <2> QED  BY <2>1 DEF ConsoleInit, ConsoleTypeOK
<1>2. ConsoleTypeOK /\ [ConsoleNext]_consoleVars => ConsoleTypeOK'
  BY ConsoleStepIsGood DEF Good, consoleVars, ConsoleTypeOK
<1> QED  BY <1>1, <1>2, PTL DEF ConsoleSpec

\* No call writes behind the first cell after the screen.
THEOREM ConsoleStaysOnScreen == ConsoleSpec => MemoryBehindScreenKept
<1>1. ConsoleTypeOK /\ [ConsoleNext]_consoleVars
        => [\A i \in Cells : i > ScreenSize => vram'[i] = vram[i]]_consoleVars
  BY ConsoleStepIsGood DEF Good
<1> QED  BY <1>1, ConsoleTypeCorrect, PTL DEF ConsoleSpec, MemoryBehindScreenKept

\* What is on the screen is what a terminal shows.
THEOREM ConsoleImplementsTerminal == ConsoleSpec => ImplementsTerminal
<1>1. ConsoleInit => Screen!TerminalInit
  <2> SUFFICES ASSUME ConsoleInit
               PROVE  Screen!TerminalInit
    OBVIOUS
  <2>1. PICK c \in Letters \union {Blank} : vram = [i \in Cells |-> c]
    BY DEF ConsoleInit
  <2>2. \A x \in XS, y \in YS : Offset(x, y) \in Cells
    BY OffsetInCells, ScreenAssumption, SMT DEF XS
  <2>3. Shown = [y \in YS |-> [x \in XS |-> c]]
    BY <2>1, <2>2 DEF Shown, XS, YS
  <2> QED  BY <2>3 DEF ConsoleInit, Screen!TerminalInit, Screen!Rows, Screen!Columns, XS, YS
<1>2. ConsoleTypeOK /\ [ConsoleNext]_consoleVars => [Screen!TerminalNext]_(Screen!terminalVars)
  <2>1. UNCHANGED consoleVars => UNCHANGED Screen!terminalVars
    BY DEF consoleVars, Screen!terminalVars, Shown, Offset
  <2> QED  BY <2>1, ConsoleStepIsGood DEF Good
<1> QED  BY <1>1, <1>2, ConsoleTypeCorrect, PTL DEF ConsoleSpec, ImplementsTerminal, Screen!TerminalSpec

-----------------------------------------------------------------------------
(***************************************************************************)
(* What the kernel's invariants say                                        *)
(***************************************************************************)
\* Up to here the boot loader's IDT is in force.
BeforeIdt ==
  {"start", "map_kernel_loop", "enable_paging", "higher_half_start",
   "interrupts_disable", "fpu_init", "finit", "screen_clear", "memory_init_gdt",
   "gdt_set", "interrupts_init", "idt_set"}

GdtrValues ==
  {[first |-> "boot_loader", limit |-> -1], [first |-> "fake_gdt", limit |-> 23],
   [first |-> "gdt", limit |-> 39]}

IdtrValues ==
  {[first |-> "boot_loader", limit |-> -1], [first |-> "idt", limit |-> 2047]}

\* A table is in force only when it is filled in, and a selector is loaded
\* only from a table of ours.
GdtInv ==
  /\ gdtr \in GdtrValues
  /\ gdtr.first = "gdt" \/ at = "gdt_set" => gdt = Gdt
  /\ at \in {"interrupts_init", "idt_set", "protected_mode_start"} => gdtr.first = "gdt"
  /\ segments \in [code : {0, KernelCode}, data : {0, KernelData}]
  /\ gdtr.first = "boot_loader" =>
       at \in {"start", "reset"} /\ segments.code = 0 /\ segments.data = 0

IdtInv ==
  /\ idtr \in IdtrValues
  /\ idtr.first = "idt" \/ at = "idt_set" => idt = Idt
  /\ idtr.first = "idt" => gdtr.first = "gdt"
  /\ at \in BeforeIdt \union {"reset"} => idtr.first # "idt"

\* What ImageMapped says, whether paging is on or not.
LoaderMapped ==
  \A byte \in 0 .. kernel_end - 1 :
    \/ kernel_page_table[byte \div PageSize] = byte \div PageSize
    \/ kernel_end % PageSize \in 1 .. 3 /\ byte >= kernel_end - (kernel_end % PageSize)

MapInv ==
  /\ kernel_end \in KernelEnds
  /\ "PG" \in cr0 \/ at = "enable_paging" => LoaderMapped

PrintInv == printed \in Nat

IInv == GdtInv /\ IdtInv /\ MapInv /\ PrintInv

-----------------------------------------------------------------------------
(***************************************************************************)
(* Descriptors                                                             *)
(***************************************************************************)

\* Both tables, the boot stage's and memory_init_gdt's, have flat segments
\* behind the kernel's two selectors.
LEMMA KernelSelectorsServe ==
  ASSUME GdtInv, gdtr.first # "boot_loader"
  PROVE  Flat(Descriptor(KernelCode), "code") /\ Flat(Descriptor(KernelData), "data")
<1>1. Flat(GdtEntry("code", 0), "code") /\ Flat(GdtEntry("data", 0), "data")
  BY SMT DEF Flat, GdtEntry, SetLimit
<1>2. CASE gdtr = [first |-> "fake_gdt", limit |-> 23]
  <2>1. Descriptor(KernelCode) = GdtEntry("code", 0)
    BY <1>2, SMT DEF Descriptor, FakeGdt, KernelCode
  <2>2. Descriptor(KernelData) = GdtEntry("data", 0)
    BY <1>2, SMT DEF Descriptor, FakeGdt, KernelData
  <2> QED  BY <1>1, <2>1, <2>2
<1>3. CASE gdtr = [first |-> "gdt", limit |-> 39]
  <2>0. gdt = Gdt
    BY <1>3 DEF GdtInv
  <2>1. Descriptor(KernelCode) = GdtEntry("code", 0)
    BY <1>3, <2>0, SMT DEF Descriptor, Gdt, KernelCode
  <2>2. Descriptor(KernelData) = GdtEntry("data", 0)
    BY <1>3, <2>0, SMT DEF Descriptor, Gdt, KernelData
  <2> QED  BY <1>1, <2>1, <2>2
<1> QED  BY <1>2, <1>3 DEF GdtInv, GdtrValues

\* A number below n is its own remainder.
LEMMA RemainderOfSmall ==
  ASSUME NEW n \in Nat, NEW q \in Nat, q < n
  PROVE  q % n = q
BY SMT

\* A handler's address survives being split into half words.
LEMMA HalvesMakeAddress ==
  ASSUME NEW a \in Nat, a < HalfWord * HalfWord
  PROVE  ((a \div HalfWord) % HalfWord) * HalfWord + (a % HalfWord) = a
<1>1. HalfWord \in Nat \ {0}
  BY KernelAssumption
<1>2. /\ a \div HalfWord \in Nat
      /\ a \in (a \div HalfWord) * HalfWord .. (a \div HalfWord) * HalfWord + HalfWord - 1
  BY <1>1, SMT
<1>5. a % HalfWord = a - (a \div HalfWord) * HalfWord
  BY <1>1, <1>2, SMT
<1>3. a \div HalfWord < HalfWord
  BY <1>1, <1>2, SMT
<1>4. (a \div HalfWord) % HalfWord = a \div HalfWord
  BY <1>1, <1>2, <1>3, RemainderOfSmall
<1> QED  BY <1>1, <1>2, <1>4, <1>5, SMT

\* Once LIDT has been executed every exception finds its handler.
LEMMA EveryExceptionDelivered ==
  ASSUME GdtInv, IdtInv, idtr.first = "idt", NEW v \in 0 .. 31
  PROVE  Delivered(v)
<1>1. idtr = [first |-> "idt", limit |-> 2047] /\ idt = Idt /\ gdtr.first = "gdt"
  BY DEF IdtInv, IdtrValues
<1>2. Isr(v) \in Nat /\ Isr(v) < HalfWord * HalfWord
  BY KernelAssumption, SMT DEF Isr
<1>3. idt[v] = SetupInterruptGate(Isr(v))
  BY <1>1 DEF Idt
<1>4. idt[v].offset_upper * HalfWord + idt[v].offset_lower = Isr(v)
  <2>1. idt[v].offset_upper = (Isr(v) \div HalfWord) % HalfWord
    BY <1>3 DEF SetupInterruptGate
  <2>2. idt[v].offset_lower = Isr(v) % HalfWord
    BY <1>3 DEF SetupInterruptGate
  <2> QED  BY <1>2, <2>1, <2>2, HalvesMakeAddress
<1>5. idt[v].present /\ idt[v].selector = KernelCode
  BY <1>3 DEF SetupInterruptGate
<1>6. Flat(Descriptor(KernelCode), "code")
  BY <1>1, KernelSelectorsServe
<1>7. 8 * v + 7 <= idtr.limit
  BY <1>1, SMT
<1> QED  BY <1>1, <1>4, <1>5, <1>6, <1>7 DEF Delivered

\* An exception leads to panic, or, with the boot loader's IDT, to a reset.
LEMMA TrapKeepsTables ==
  ASSUME GdtInv, IdtInv, NEW v \in 0 .. 31, Trap(v), UNCHANGED tables
  PROVE  GdtInv' /\ IdtInv' /\ at' \in {"panic", "reset"} /\ printed' = printed
<1>1. /\ at' \in {"panic", "reset"} /\ printed' = printed
      /\ at' = "reset" => ~ Delivered(v)
      /\ at' = "panic" => idtr.first = "idt"
  BY DEF Trap, Delivered
<1>2. at' = "reset" => idtr.first # "idt"
  BY <1>1, EveryExceptionDelivered
<1> QED  BY <1>1, <1>2 DEF GdtInv, IdtInv, tables, BeforeIdt

-----------------------------------------------------------------------------
(***************************************************************************)
(* The page table                                                          *)
(***************************************************************************)

\* map_kernel_loop maps every byte of the image but the last one, two or
\* three of an image that ends that far into a page.
LEMMA LoopMapsImage ==
  ASSUME kernel_end \in KernelEnds,
         kernel_page_table' =
           [e \in 0 .. NumEntries - 1 |-> IF MapsEntry(e) THEN e ELSE Absent],
         kernel_end' = kernel_end
  PROVE  LoaderMapped'
<1> SUFFICES ASSUME NEW byte \in 0 .. kernel_end - 1
             PROVE  \/ kernel_page_table'[byte \div PageSize] = byte \div PageSize
                    \/ /\ kernel_end % PageSize \in 1 .. 3
                       /\ byte >= kernel_end - (kernel_end % PageSize)
  BY DEF LoaderMapped
<1> DEFINE e == byte \div PageSize
<1>1. /\ PageSize \in Nat /\ PageSize > 4 /\ NumEntries \in Nat
      /\ kernel_end \in Nat /\ kernel_end <= NumEntries * PageSize
  BY KernelAssumption
<1>2. byte \in Nat /\ byte < kernel_end
  BY <1>1, SMT
<1>3. e \in Nat /\ e * PageSize <= byte /\ byte < e * PageSize + PageSize
  BY <1>1, <1>2, SMT
<1>4. e < NumEntries
  <2>1. CASE e >= NumEntries
    <3>1. (e - NumEntries) * PageSize >= 0
      BY <1>1, <1>3, <2>1, SMT
    <3>2. e * PageSize = NumEntries * PageSize + (e - NumEntries) * PageSize
      BY <1>1, <1>3, SMT
    <3> QED  BY <1>1, <1>2, <1>3, <3>1, <3>2, SMT
  <2> QED  BY <1>1, <1>3, <2>1, SMT
<1>5. CASE MapsEntry(e)
  BY <1>1, <1>3, <1>4, <1>5, SMT
<1>6. CASE ~ MapsEntry(e)
  <2>1. e * PageSize \in Nat /\ e * PageSize + 3 >= kernel_end
    BY <1>1, <1>3, <1>6, SMT DEF MapsEntry
  <2> DEFINE r == kernel_end - e * PageSize
  <2>2. r \in 1 .. 3 /\ r < PageSize /\ kernel_end = e * PageSize + r
    BY <1>1, <1>2, <1>3, <2>1, SMT
  <2>3. kernel_end % PageSize = r
    BY <1>1, <1>3, <2>2, SMT
  <2> QED  BY <1>1, <1>2, <1>3, <2>1, <2>2, <2>3, SMT
<1> QED  BY <1>5, <1>6

\* memory_detect takes free entries only.
LEMMA WindowsKeepImage ==
  ASSUME LoaderMapped, kernel_end \in KernelEnds, NEW S \in SUBSET FreeEntries,
         NEW b \in BOOLEAN,
         kernel_page_table' =
           [e \in 0 .. NumEntries - 1 |-> IF e \in S /\ b THEN 0 ELSE kernel_page_table[e]],
         kernel_end' = kernel_end
  PROVE  LoaderMapped'
<1> SUFFICES ASSUME NEW byte \in 0 .. kernel_end - 1,
                    kernel_page_table[byte \div PageSize] = byte \div PageSize
             PROVE  kernel_page_table'[byte \div PageSize] = byte \div PageSize
  BY DEF LoaderMapped
<1> DEFINE e == byte \div PageSize
<1>1. /\ PageSize \in Nat /\ PageSize > 4 /\ NumEntries \in Nat
      /\ kernel_end \in Nat /\ kernel_end <= NumEntries * PageSize
  BY KernelAssumption
<1>2. e \in Nat /\ e * PageSize <= byte /\ byte < kernel_end
  BY <1>1, SMT
<1>3. e < NumEntries
  <2>1. CASE e >= NumEntries
    <3>1. (e - NumEntries) * PageSize >= 0
      BY <1>1, <1>2, <2>1, SMT
    <3>2. e * PageSize = NumEntries * PageSize + (e - NumEntries) * PageSize
      BY <1>1, <1>2, SMT
    <3> QED  BY <1>1, <1>2, <3>1, <3>2, SMT
  <2> QED  BY <1>1, <1>2, <2>1, SMT
<1>4. e \notin S
  BY <1>2, SMT DEF FreeEntries, Absent
<1> QED  BY <1>1, <1>2, <1>3, <1>4, SMT

-----------------------------------------------------------------------------
(***************************************************************************)
(* The invariant                                                           *)
(***************************************************************************)

\* The invariant holds at the first instruction of start.
LEMMA BootInvHolds ==
  ASSUME KernelInit
  PROVE  IInv
<1>1. GdtInv
  BY DEF KernelInit, GdtInv, GdtrValues
<1>2. IdtInv
  BY DEF KernelInit, IdtInv, IdtrValues, BeforeIdt
<1>3. MapInv /\ PrintInv
  BY DEF KernelInit, MapInv, PrintInv
<1> QED  BY <1>1, <1>2, <1>3 DEF IInv

\* A step that leaves the machine as it is keeps the invariant if it does not
\* lead back into the boot.
LEMMA MachineKept ==
  ASSUME IInv, UNCHANGED machine, printed' \in Nat, at \notin {"start", "reset"},
         at' \in {"running", "serial_write_char", "memory_detect", "panic", "panic_print",
                  "panic_halt", "halted"}
  PROVE  IInv'
BY DEF IInv, GdtInv, IdtInv, MapInv, PrintInv, machine, tables, BeforeIdt, LoaderMapped

\* Taking an exception keeps the invariant.
LEMMA TrapKeepsInv ==
  ASSUME IInv, NEW v \in 0 .. 31, Trap(v), UNCHANGED machine
  PROVE  IInv'
<1>1. UNCHANGED tables
  BY DEF machine
<1>2. GdtInv' /\ IdtInv' /\ at' \in {"panic", "reset"} /\ printed' = printed
  BY <1>1, TrapKeepsTables DEF IInv
<1> QED  BY <1>2 DEF IInv, MapInv, PrintInv, machine, LoaderMapped

\* The boot stage.
LEMMA BootStageKeepsInv ==
  ASSUME IInv, Start \/ MapKernelLoop \/ EnablePaging \/ HigherHalfStart
  PROVE  IInv'
<1> USE DEF IInv, PrintInv, panicVars
<1>1. CASE Start
  <2>1. gdtr' = [first |-> "fake_gdt", limit |-> 23]
    BY <1>1, SMT DEF Start, FakeGdt
  <2>2. GdtInv'
    BY <1>1, <2>1 DEF Start, GdtInv, GdtrValues
  <2>3. IdtInv'
    BY <1>1, <2>1 DEF Start, IdtInv, BeforeIdt
  <2> QED  BY <1>1, <2>2, <2>3 DEF Start, MapInv, LoaderMapped
<1>2. CASE MapKernelLoop
  <2>1. GdtInv' /\ IdtInv'
    BY <1>2 DEF MapKernelLoop, GdtInv, IdtInv, BeforeIdt, tables
  <2>2. LoaderMapped'
    BY <1>2, LoopMapsImage DEF MapKernelLoop, MapInv
  <2> QED  BY <1>2, <2>1, <2>2 DEF MapKernelLoop, MapInv
<1>3. CASE EnablePaging
  <2>1. GdtInv'
    BY <1>3 DEF EnablePaging, GdtInv
  <2>2. IdtInv' /\ MapInv'
    BY <1>3 DEF EnablePaging, IdtInv, BeforeIdt, MapInv, LoaderMapped
  <2> QED  BY <1>3, <2>1, <2>2 DEF EnablePaging
<1>4. CASE HigherHalfStart
  <2>1. CASE StackMapped(kernel_end)
    BY <1>4, <2>1 DEF HigherHalfStart, GdtInv, IdtInv, MapInv, machine, tables, BeforeIdt, LoaderMapped
  <2>2. CASE ~ StackMapped(kernel_end)
    BY <1>4, <2>2, TrapKeepsInv DEF HigherHalfStart, PageFault
  <2> QED  BY <2>1, <2>2
<1> QED  BY <1>1, <1>2, <1>3, <1>4

\* kmain up to its last call.
LEMMA KmainKeepsInv ==
  ASSUME IInv, KmainStep
  PROVE  IInv'
<1> USE DEF IInv, PrintInv, panicVars
<1>1. CASE at = "interrupts_disable" /\ InterruptsDisable("fpu_init")
  BY <1>1 DEF InterruptsDisable, tables, GdtInv, IdtInv, BeforeIdt, MapInv, LoaderMapped
<1>2. CASE FpuInit
  <2>1. "PG" \in cr0' => "PG" \in cr0
    BY <1>2 DEF FpuInit
  <2> QED  BY <1>2, <2>1 DEF FpuInit, tables, GdtInv, IdtInv, BeforeIdt, MapInv, LoaderMapped
<1>3. CASE Finit
  <2>1. CASE "EM" \in cr0
    BY <1>3, <2>1, TrapKeepsInv DEF Finit, DeviceNotAvailable
  <2>2. CASE "EM" \notin cr0
    BY <1>3, <2>2
       DEF Finit, machine, tables, GdtInv, IdtInv, BeforeIdt, MapInv, LoaderMapped
  <2> QED  BY <2>1, <2>2
<1>4. CASE KmainScreenClear
  BY <1>4 DEF KmainScreenClear, machine, tables, GdtInv, IdtInv, BeforeIdt, MapInv, LoaderMapped
<1>5. CASE MemoryInitGdt
  <2>1. GdtInv' /\ IdtInv'
    BY <1>5 DEF MemoryInitGdt, GdtInv, IdtInv, BeforeIdt
  <2> QED  BY <1>5, <2>1 DEF MemoryInitGdt, MapInv, LoaderMapped
<1>6. CASE GdtSet
  <2>1. gdtr' = [first |-> "gdt", limit |-> 39]
    BY <1>6, SMT DEF GdtSet
  <2>2. GdtInv'
    BY <1>6, <2>1 DEF GdtSet, GdtInv, GdtrValues
  <2>3. IdtInv'
    BY <1>6, <2>1 DEF GdtSet, IdtInv, BeforeIdt
  <2> QED  BY <1>6, <2>2, <2>3 DEF GdtSet, MapInv, LoaderMapped
<1>7. CASE InterruptsInit
  <2>1. GdtInv' /\ IdtInv'
    BY <1>7 DEF InterruptsInit, GdtInv, IdtInv, BeforeIdt
  <2> QED  BY <1>7, <2>1 DEF InterruptsInit, MapInv, LoaderMapped
<1>8. CASE IdtSet
  <2>1. idtr' = [first |-> "idt", limit |-> 2047]
    BY <1>8, SMT DEF IdtSet
  <2>2. GdtInv'
    BY <1>8 DEF IdtSet, GdtInv
  <2>3. IdtInv'
    BY <1>8, <2>1 DEF IdtSet, IdtInv, IdtrValues, BeforeIdt, GdtInv
  <2> QED  BY <1>8, <2>2, <2>3 DEF IdtSet, MapInv, LoaderMapped
<1>9. CASE ProtectedModeStart
  <2>1. gdtr.first # "boot_loader"
    BY <1>9 DEF ProtectedModeStart, GdtInv
  <2>2. Flat(Descriptor(KernelData), "data") /\ Flat(Descriptor(KernelCode), "code")
    BY <2>1, KernelSelectorsServe
  <2>3. GdtInv' /\ IdtInv'
    BY <1>9, <2>1, <2>2 DEF ProtectedModeStart, GdtInv, IdtInv, BeforeIdt
  <2> QED  BY <1>9, <2>2, <2>3 DEF ProtectedModeStart, MapInv, LoaderMapped
<1>10. CASE KmainSerialInit
  <2>1. UNCHANGED machine /\ printed' \in Nat /\ at = "serial_init" /\ at' = "memory_detect"
    BY <1>10 DEF KmainSerialInit
  <2> QED  BY <2>1, MachineKept
<1>11. CASE MemoryDetect
  <2>1. CASE Cardinality(FreeEntries) < 2
    BY <1>11, <2>1 DEF MemoryDetect, tables, GdtInv, IdtInv, BeforeIdt, MapInv, LoaderMapped
  <2>2. CASE ~ (Cardinality(FreeEntries) < 2)
    <3>1. PICK S \in SUBSET FreeEntries, b \in BOOLEAN :
            kernel_page_table' =
              [e \in 0 .. NumEntries - 1 |-> IF e \in S /\ b THEN 0 ELSE kernel_page_table[e]]
      BY <1>11, <2>2 DEF MemoryDetect
    <3>2. at = "memory_detect" /\ at' = "running" /\ kernel_end' = kernel_end /\ cr0' = cr0
      BY <1>11, <2>2 DEF MemoryDetect
    <3>3. "PG" \in cr0 => LoaderMapped'
      BY <3>1, <3>2, WindowsKeepImage DEF MapInv
    <3>4. GdtInv' /\ IdtInv'
      BY <1>11, <3>2 DEF MemoryDetect, tables, GdtInv, IdtInv, BeforeIdt
    <3> QED  BY <1>11, <3>2, <3>3, <3>4 DEF MemoryDetect, MapInv
  <2> QED  BY <2>1, <2>2
<1> QED
  BY <1>1, <1>2, <1>3, <1>4, <1>5, <1>6, <1>7, <1>8, <1>9, <1>10, <1>11 DEF KmainStep

\* Printing, the serial port, and panic change neither tables nor mappings.
LEMMA RunningKeepsInv ==
  ASSUME IInv, ConsoleCall \/ SerialCall \/ SerialReturn \/ PanicCalled \/ PanicStep
  PROVE  IInv'
<1> USE DEF IInv, PrintInv, panicVars
<1>1. CASE ConsoleCall
  BY <1>1, MachineKept DEF ConsoleCall
<1>2. CASE SerialCall \/ SerialReturn \/ PanicCalled
  BY <1>2, MachineKept DEF SerialCall, SerialReturn, PanicCalled
<1>3. CASE PanicReset \/ PanicPrint \/ PanicHalt
  BY <1>3, MachineKept DEF PanicReset, PanicPrint, PanicHalt
<1>4. CASE PanicPrinted
  BY <1>4 DEF PanicPrinted, InterruptsDisable, tables, GdtInv, IdtInv, BeforeIdt, MapInv, LoaderMapped
<1> QED  BY <1>1, <1>2, <1>3, <1>4 DEF PanicStep

\* Every step of the kernel keeps the invariant.
LEMMA StepKeepsInv ==
  ASSUME IInv, [KernelNext]_kernelVars
  PROVE  IInv'
<1>1. CASE UNCHANGED <<at, machine, panicVars>>
  BY <1>1 DEF IInv, GdtInv, IdtInv, MapInv, PrintInv, machine, tables, panicVars, LoaderMapped
<1>2. CASE UNCHANGED kernelVars
  BY <1>1, <1>2 DEF kernelVars
<1>3. ASSUME NEW v \in Vectors, Exception(v)
      PROVE  IInv'
  <2>1. v \in 0 .. 31
    BY KernelAssumption
  <2> QED  BY <1>3, <2>1, TrapKeepsInv DEF Exception
<1>4. CASE KernelStep
  BY <1>4, BootStageKeepsInv, KmainKeepsInv, RunningKeepsInv DEF KernelStep
<1> QED
  BY <1>1, <1>2, <1>3, <1>4, RunningKeepsInv DEF KernelNext

\* At every step a descriptor table is in force only when it is filled in,
\* and the loader's page table maps the image.
THEOREM KernelInvariant == KernelSpec => []IInv
BY BootInvHolds, StepKeepsInv, PTL DEF KernelSpec

-----------------------------------------------------------------------------
(***************************************************************************)
(* Theorems                                                                *)
(***************************************************************************)

\* Once paging is on, the whole image is mapped to itself, but for the last
\* bytes of one that ends up to three bytes into a page.
THEOREM KernelImageMapped == KernelSpec => []ImageMapped
<1>1. IInv => ImageMapped
  BY DEF IInv, MapInv, ImageMapped, LoaderMapped
<1> QED  BY <1>1, KernelInvariant, PTL

\* Selectors select flat segments while the GDT is replaced under them.
THEOREM KernelSegmentsServe == KernelSpec => []SegmentsServe
<1>1. IInv => SegmentsServe
  <2> SUFFICES ASSUME IInv
               PROVE  SegmentsServe
    OBVIOUS
  <2> USE DEF IInv, GdtInv
  <2>1. gdtr.first # "boot_loader" =>
          Flat(Descriptor(KernelCode), "code") /\ Flat(Descriptor(KernelData), "data")
    BY KernelSelectorsServe
  <2>2. segments.code # 0 => Flat(Descriptor(segments.code), "code")
    BY <2>1
  <2>3. segments.data # 0 => Flat(Descriptor(segments.data), "data")
    BY <2>1
  <2>4. ASSUME idtr.first = "idt", NEW v \in 0 .. 31
        PROVE  Flat(Descriptor(idt[v].selector), "code")
    <3>1. idt[v] = SetupInterruptGate(Isr(v)) /\ gdtr.first = "gdt"
      BY <2>4 DEF IdtInv, Idt
    <3>2. idt[v].selector = KernelCode
      BY <3>1 DEF SetupInterruptGate
    <3> QED  BY <2>1, <3>1, <3>2
  <2> QED  BY <2>2, <2>3, <2>4 DEF SegmentsServe
<1> QED  BY <1>1, KernelInvariant, PTL

\* After interrupts_init no exception resets the machine.
THEOREM KernelExceptionsPanic == KernelSpec => ExceptionsPanic
<1>1. IInv' /\ [KernelNext]_kernelVars => [at' = "reset" => idtr.first # "idt"]_kernelVars
  <2> SUFFICES ASSUME IInv', KernelNext, at' = "reset"
               PROVE  idtr.first # "idt"
    BY DEF kernelVars
  <2>1. idtr'.first # "idt"
    BY DEF IInv, IdtInv
  <2>2. idtr' = idtr
    BY DEF KernelNext, KernelStep, KmainStep, PanicStep, Exception, Start, MapKernelLoop,
           EnablePaging, HigherHalfStart, InterruptsDisable, FpuInit, Finit,
           KmainScreenClear, MemoryInitGdt, GdtSet, InterruptsInit, IdtSet,
           ProtectedModeStart, KmainSerialInit, MemoryDetect, ConsoleCall, SerialCall,
           SerialReturn, PanicCalled, PanicReset, PanicPrint, PanicPrinted, PanicHalt,
           machine, tables
  <2> QED  BY <2>1, <2>2
<1> QED  BY <1>1, KernelInvariant, PTL DEF KernelSpec, ExceptionsPanic

-----------------------------------------------------------------------------
\* Every character panic prints is a letter or a line feed.
LEMMA PanicTextIsText ==
  PanicText \in Seq(Letters \union {"newline"})
<1>1. DumpLines \in Nat /\ PanicLetter \in Letters /\ DumpLetter \in Letters
  BY KernelAssumption
<1> DEFINE L == Letters \union {"newline"}
           D == [j \in 1 .. 2 * DumpLines |-> IF j % 2 = 1 THEN DumpLetter ELSE "newline"]
<1>2. D \in Seq(L)
  BY <1>1, SMT
<1>3. <<PanicLetter, "newline">> \in Seq(L)
  BY <1>1, SMT
<1>4. PanicText = <<PanicLetter, "newline">> \o D
  BY DEF PanicText
<1> HIDE DEF D
<1>5. \A s, t \in Seq(L) : s \o t \in Seq(L)
  OBVIOUS
<1> QED  BY <1>2, <1>3, <1>4, <1>5

\* What the kernel does with the console are calls of the console.
LEMMA KernelCallsConsole ==
  ASSUME PrintInv, [KernelNext]_kernelVars
  PROVE  [ConsoleNext]_consoleVars
<1>1. CASE KmainScreenClear
  BY <1>1 DEF KmainScreenClear, ConsoleNext, ConsoleCalls
<1>2. CASE ConsoleCall
  <2>1. Printed \subseteq Letters
    BY KernelAssumption
  <2> QED  BY <1>2, <2>1 DEF ConsoleCall, ConsoleNext, ConsoleCalls
<1>3. CASE PanicReset
  BY <1>3 DEF PanicReset, ConsoleNext, ConsoleCalls
<1>4. CASE PanicPrint
  <2>1. printed + 1 \in 1 .. Len(PanicText)
    BY <1>4, PanicTextIsText, SMT DEF PanicPrint, PrintInv
  <2>2. PanicText[printed + 1] \in Letters \union {"newline"}
    BY <2>1, PanicTextIsText
  <2> QED  BY <1>4, <2>2 DEF PanicPrint, ConsoleNext, ConsoleCalls
<1>5. CASE UNCHANGED consoleVars
  BY <1>5
<1>6. UNCHANGED consoleVars \/ KmainScreenClear \/ ConsoleCall \/ PanicReset \/ PanicPrint
  BY DEF KernelNext, KernelStep, KmainStep, PanicStep, kernelVars, Exception, Start,
         MapKernelLoop, EnablePaging, HigherHalfStart, InterruptsDisable, FpuInit, Finit,
         MemoryInitGdt, GdtSet, InterruptsInit, IdtSet, ProtectedModeStart,
         KmainSerialInit, MemoryDetect, SerialCall, SerialReturn, PanicCalled,
         PanicPrinted, PanicHalt
<1> QED  BY <1>1, <1>2, <1>3, <1>4, <1>5, <1>6

\* The kernel is a user of the console, so all that holds of the console
\* holds of it.
LEMMA KernelUsesConsole == KernelSpec => ConsoleSpec
<1>1. KernelInit => ConsoleInit
  BY DEF KernelInit
<1>2. IInv /\ [KernelNext]_kernelVars => [ConsoleNext]_consoleVars
  BY KernelCallsConsole DEF IInv
<1> QED  BY <1>1, <1>2, KernelInvariant, PTL DEF KernelSpec, ConsoleSpec

\* Through boot, exceptions and panic the screen shows what a terminal would.
THEOREM KernelScreenIsTerminal == KernelSpec => ImplementsTerminal
BY KernelUsesConsole, ConsoleImplementsTerminal, PTL

\* Nothing the kernel prints lands behind the screen's next cell.
THEOREM KernelStaysOnScreen == KernelSpec => MemoryBehindScreenKept
BY KernelUsesConsole, ConsoleStaysOnScreen, PTL

-----------------------------------------------------------------------------
(***************************************************************************)
(* The serial port                                                         *)
(***************************************************************************)

\* Where a write goes
LEMMA OutGoes ==
  ASSUME NEW u, NEW register, NEW value
  PROVE  Out(u, register, value) =
           IF DLAB(u) /\ register \in {0, 1} THEN ToDivisor(u, register, value)
                                            ELSE ToRegister(u, register, value)
  BY DEF Out

\* With DLAB set registers 0 and 1 are the divisor ...
LEMMA OutLow ==
  ASSUME NEW u, NEW value, DLAB(u)
  PROVE  Out(u, 0, value) = [u EXCEPT !.divisor["low"] = value]
<1>1. Out(u, 0, value) = ToDivisor(u, 0, value)
  BY OutGoes
<1> QED  BY <1>1 DEF ToDivisor

LEMMA OutHigh ==
  ASSUME NEW u, NEW value, DLAB(u)
  PROVE  Out(u, 1, value) = [u EXCEPT !.divisor["high"] = value]
<1>1. Out(u, 1, value) = ToDivisor(u, 1, value)
  BY OutGoes
<1> QED  BY <1>1 DEF ToDivisor

\* ... without it register 0 is the transmitter and 1 enables interrupts ...
LEMMA OutData ==
  ASSUME NEW u, NEW value, ~DLAB(u)
  PROVE  Out(u, 0, value) = Queue(u, value)
<1>1. Out(u, 0, value) = ToRegister(u, 0, value)
  BY OutGoes
<1> QED  BY <1>1 DEF ToRegister

LEMMA OutEnable ==
  ASSUME NEW u, NEW value, ~DLAB(u)
  PROVE  Out(u, 1, value) = [u EXCEPT !.ier = value]
<1>1. Out(u, 1, value) = ToRegister(u, 1, value)
  BY OutGoes
<1> QED  BY <1>1 DEF ToRegister

\* ... and the others do not depend on it.
LEMMA OutFifo ==
  ASSUME NEW u \in UartType, NEW value \in 0 .. 255
  PROVE  /\ Out(u, 2, value) \in UartType
         /\ Out(u, 2, value).ier = u.ier
         /\ Out(u, 2, value).divisor = u.divisor
         /\ Out(u, 2, value).lcr = u.lcr
         /\ Out(u, 2, value).fcr = value
<1> DEFINE f == IF (value \div 4) % 2 = 1 THEN <<>> ELSE u.fifo
<1>1. Out(u, 2, value) = ToRegister(u, 2, value)
  BY OutGoes
<1>2. ToRegister(u, 2, value) = [u EXCEPT !.fcr = value, !.fifo = f]
  BY DEF ToRegister
<1>3. u.fifo \in Seq(Bytes) /\ <<>> \in Seq(Bytes)
  BY DEF UartType
<1>4. f \in Seq(Bytes)
  BY <1>3
<1> HIDE DEF f
<1>5. PICK o : o = [u EXCEPT !.fcr = value, !.fifo = f]
  OBVIOUS
<1>6. /\ o \in UartType
      /\ o.ier = u.ier /\ o.divisor = u.divisor /\ o.lcr = u.lcr /\ o.fcr = value
  BY <1>4, <1>5, ZenonT(30) DEF UartType
<1> QED  BY <1>1, <1>2, <1>5, <1>6

LEMMA OutControl ==
  ASSUME NEW u, NEW value
  PROVE  /\ Out(u, 3, value) = [u EXCEPT !.lcr = value]
         /\ Out(u, 4, value) = [u EXCEPT !.mcr = value]
<1>1. Out(u, 3, value) = ToRegister(u, 3, value)
  BY OutGoes
<1>2. Out(u, 4, value) = ToRegister(u, 4, value)
  BY OutGoes
<1>3. ToRegister(u, 3, value) = [u EXCEPT !.lcr = value]
  BY DEF ToRegister
<1>4. ToRegister(u, 4, value) = [u EXCEPT !.mcr = value]
  BY DEF ToRegister
<1> QED  BY <1>1, <1>2, <1>3, <1>4

\* The device keeps its type.
LEMMA OutTypes ==
  ASSUME NEW u \in UartType, NEW register \in 0 .. 4, NEW value \in 0 .. 255,
         register = 0 /\ ~DLAB(u) => value \in Bytes
  PROVE  Out(u, register, value) \in UartType
<1>1. CASE register = 0 /\ DLAB(u)
  <2>1. Out(u, 0, value) = [u EXCEPT !.divisor["low"] = value]
    BY <1>1, OutLow
  <2>2. [u EXCEPT !.divisor["low"] = value] \in UartType
    BY DEF UartType
  <2> QED  BY <1>1, <2>1, <2>2
<1>2. CASE register = 0 /\ ~DLAB(u)
  <2>1. Append(u.fifo, value) \in Seq(Bytes)
    BY <1>2 DEF UartType
  <2>2. Out(u, 0, value) = Queue(u, value)
    BY <1>2, OutData
  <2>3. Queue(u, value) \in UartType
    BY <2>1, ZenonT(30) DEF Queue, UartType
  <2> QED  BY <1>2, <2>2, <2>3
<1>3. CASE register = 1 /\ DLAB(u)
  <2>1. Out(u, 1, value) = [u EXCEPT !.divisor["high"] = value]
    BY <1>3, OutHigh
  <2>2. [u EXCEPT !.divisor["high"] = value] \in UartType
    BY DEF UartType
  <2> QED  BY <1>3, <2>1, <2>2
<1>4. CASE register = 1 /\ ~DLAB(u)
  <2>1. Out(u, 1, value) = [u EXCEPT !.ier = value]
    BY <1>4, OutEnable
  <2>2. [u EXCEPT !.ier = value] \in UartType
    BY DEF UartType
  <2> QED  BY <1>4, <2>1, <2>2
<1>5. CASE register = 2
  BY <1>5, OutFifo
<1>6. CASE register = 3
  <2>1. Out(u, 3, value) = [u EXCEPT !.lcr = value]
    BY <1>6, OutControl
  <2>2. [u EXCEPT !.lcr = value] \in UartType
    BY DEF UartType
  <2> QED  BY <1>6, <2>1, <2>2
<1>7. CASE register = 4
  <2>1. Out(u, 4, value) = [u EXCEPT !.mcr = value]
    BY <1>7, OutControl
  <2>2. [u EXCEPT !.mcr = value] \in UartType
    BY DEF UartType
  <2> QED  BY <1>7, <2>1, <2>2
<1> QED  BY <1>1, <1>2, <1>3, <1>4, <1>5, <1>6, <1>7

\* A register that is written keeps the others.
LEMMA RegisterSet ==
  ASSUME NEW u \in UartType, NEW v, NEW value
  PROVE  /\ v = [u EXCEPT !.ier = value] =>
              /\ v.ier = value /\ v.fcr = u.fcr /\ v.lcr = u.lcr /\ v.mcr = u.mcr
              /\ v.divisor = u.divisor
         /\ v = [u EXCEPT !.lcr = value] =>
              /\ v.ier = u.ier /\ v.fcr = u.fcr /\ v.lcr = value /\ v.mcr = u.mcr
              /\ v.divisor = u.divisor
         /\ v = [u EXCEPT !.mcr = value] =>
              /\ v.ier = u.ier /\ v.fcr = u.fcr /\ v.lcr = u.lcr /\ v.mcr = value
              /\ v.divisor = u.divisor
<1>1. v = [u EXCEPT !.ier = value] =>
        /\ v.ier = value /\ v.fcr = u.fcr /\ v.lcr = u.lcr /\ v.mcr = u.mcr
        /\ v.divisor = u.divisor
  BY DEF UartType
<1>2. v = [u EXCEPT !.lcr = value] =>
        /\ v.ier = u.ier /\ v.fcr = u.fcr /\ v.lcr = value /\ v.mcr = u.mcr
        /\ v.divisor = u.divisor
  BY DEF UartType
<1>3. v = [u EXCEPT !.mcr = value] =>
        /\ v.ier = u.ier /\ v.fcr = u.fcr /\ v.lcr = u.lcr /\ v.mcr = value
        /\ v.divisor = u.divisor
  BY DEF UartType
<1> QED  BY <1>1, <1>2, <1>3

\* So does the divisor, one half of which is written.
LEMMA DivisorSet ==
  ASSUME NEW u \in UartType, NEW v, NEW half \in {"low", "high"}, NEW value,
         v = [u EXCEPT !.divisor[half] = value]
  PROVE  /\ v.ier = u.ier /\ v.fcr = u.fcr /\ v.lcr = u.lcr /\ v.mcr = u.mcr
         /\ v.divisor = [h \in {"low", "high"} |-> IF h = half THEN value ELSE u.divisor[h]]
<1>1. u.divisor \in [{"low", "high"} -> 0 .. 255]
  BY DEF UartType
<1>2. v.divisor = [u.divisor EXCEPT ![half] = value]
  BY DEF UartType
<1>3. v.ier = u.ier /\ v.fcr = u.fcr /\ v.lcr = u.lcr /\ v.mcr = u.mcr
  BY DEF UartType
<1> QED  BY <1>1, <1>2, <1>3

\* What the comments of serial_init say of the port
SetUp(u) ==
  /\ u.ier = 0 /\ u.divisor = [low |-> 3, high |-> 0]
  /\ u.lcr = 3 /\ u.fcr = 199 /\ u.mcr = 11

\* The io_outbs of serial_init set the port up, if it finds DLAB clear.
LEMMA OutsSetUp ==
  ASSUME NEW u0 \in UartType, ~DLAB(u0),
         NEW u1, u1 = Out(u0, 1, 0),
         NEW u2, u2 = Out(u1, 3, 128),
         NEW u3, u3 = Out(u2, 0, 3),
         NEW u4, u4 = Out(u3, 1, 0),
         NEW u5, u5 = Out(u4, 3, LineControl),
         NEW u6, u6 = Out(u5, 2, 199),
         NEW u7, u7 = Out(u6, 4, 11)
  PROVE  u7 \in UartType /\ SetUp(u7)
<1>1. u1 \in UartType /\ u1.ier = 0 /\ ~DLAB(u1)
  <2>1. u1 \in UartType
    BY OutTypes
  <2>2. u1 = [u0 EXCEPT !.ier = 0]
    BY OutEnable
  <2> QED  BY <2>1, <2>2, RegisterSet DEF DLAB
<1>2. u2 \in UartType /\ u2.ier = 0 /\ DLAB(u2)
  <2>1. u2 \in UartType
    BY <1>1, OutTypes
  <2>2. u2 = [u1 EXCEPT !.lcr = 128]
    BY <1>1, OutControl
  <2> QED  BY <1>1, <2>1, <2>2, RegisterSet DEF DLAB
<1>3. u3 \in UartType /\ u3.ier = 0 /\ DLAB(u3) /\ u3.divisor["low"] = 3
  <2>1. u3 \in UartType
    BY <1>2, OutTypes
  <2>2. u3 = [u2 EXCEPT !.divisor["low"] = 3]
    BY <1>2, OutLow
  <2>3. /\ u3.ier = u2.ier /\ u3.lcr = u2.lcr
        /\ u3.divisor = [h \in {"low", "high"} |-> IF h = "low" THEN 3 ELSE u2.divisor[h]]
    BY <1>2, <2>2, DivisorSet
  <2>4. u3.divisor["low"] = 3
    BY <2>3
  <2> QED  BY <1>2, <2>1, <2>3, <2>4 DEF DLAB
<1>4. u4 \in UartType /\ u4.ier = 0 /\ u4.divisor = [low |-> 3, high |-> 0]
  <2>1. u4 \in UartType
    BY <1>3, OutTypes
  <2>2. u4 = [u3 EXCEPT !.divisor["high"] = 0]
    BY <1>3, OutHigh
  <2>3. u4.ier = 0 /\ u4.divisor = [h \in {"low", "high"} |->
                                      IF h = "high" THEN 0 ELSE u3.divisor[h]]
    BY <1>3, <2>2, DivisorSet
  <2> QED  BY <1>3, <2>1, <2>3
<1>5. u5 \in UartType /\ u5.ier = 0 /\ u5.divisor = [low |-> 3, high |-> 0] /\ u5.lcr = 3
  <2>1. u5 \in UartType
    BY <1>4, OutTypes DEF LineControl
  <2>2. u5 = [u4 EXCEPT !.lcr = 3]
    BY <1>4, OutControl DEF LineControl
  <2> QED  BY <1>4, <2>1, <2>2, RegisterSet
<1>6. u6 \in UartType /\ u6.ier = 0 /\ u6.divisor = [low |-> 3, high |-> 0] /\ u6.lcr = 3 /\ u6.fcr = 199
  <2>1. u6 \in UartType
    BY <1>5, OutTypes
  <2>2. u6.ier = u5.ier /\ u6.divisor = u5.divisor /\ u6.lcr = u5.lcr /\ u6.fcr = 199
    BY <1>5, OutFifo
  <2> QED  BY <1>5, <2>1, <2>2
<1>7. u7 \in UartType /\ SetUp(u7)
  <2>1. u7 \in UartType
    BY <1>6, OutTypes
  <2>2. u7 = [u6 EXCEPT !.mcr = 11]
    BY <1>6, OutControl
  <2>3. /\ u7.ier = u6.ier /\ u7.divisor = u6.divisor /\ u7.lcr = u6.lcr /\ u7.fcr = u6.fcr
        /\ u7.mcr = 11
    BY <1>6, <2>2, RegisterSet
  <2> QED  BY <1>6, <2>1, <2>3 DEF SetUp
<1> QED  BY <1>7

\* serial_init sets the port up.
LEMMA SerialInitPrograms ==
  ASSUME uart \in UartType, ~DLAB(uart), SerialInit
  PROVE  uart' \in UartType /\ Programmed' /\ ~DLAB(uart)'
<1>1. PICK u1 : u1 = Out(uart, 1, 0)
  OBVIOUS
<1>2. PICK u2 : u2 = Out(u1, 3, 128)
  OBVIOUS
<1>3. PICK u3 : u3 = Out(u2, 0, 3)
  OBVIOUS
<1>4. PICK u4 : u4 = Out(u3, 1, 0)
  OBVIOUS
<1>5. PICK u5 : u5 = Out(u4, 3, LineControl)
  OBVIOUS
<1>6. PICK u6 : u6 = Out(u5, 2, 199)
  OBVIOUS
<1>7. PICK u7 : u7 = Out(u6, 4, 11)
  OBVIOUS
<1>8. u7 \in UartType /\ SetUp(u7)
  BY <1>1, <1>2, <1>3, <1>4, <1>5, <1>6, <1>7, OutsSetUp
<1>9. uart' = u7
  BY <1>1, <1>2, <1>3, <1>4, <1>5, <1>6, <1>7 DEF SerialInit
<1> QED
  BY <1>8, <1>9 DEF SetUp, Programmed, DLAB

\* The port between serial_init and the end of every write
SerialInv ==
  /\ uart \in UartType
  /\ ~DLAB(uart)
  /\ at \in {"memory_detect", "running", "serial_write_char"} => Programmed

\* A byte written to the port is queued behind those that wait.
LEMMA WriteQueues ==
  ASSUME SerialInv, NEW c \in Bytes, SerialWriteChar(c)
  PROVE  uart' = [uart EXCEPT !.fifo = Append(@, c)]
<1>1. uart.fifo = <<>>
  BY DEF SerialWriteChar, IsTransmitEmpty, TransmitterEmpty
<1>2. Len(uart.fifo) < Depth(uart)
  BY <1>1, SerialAssumption DEF Depth
<1>3. uart' = Queue(uart, c)
  BY OutData DEF SerialWriteChar, SerialInv
<1> QED  BY <1>2, <1>3 DEF Queue

\* No step breaks the invariant: the port is programmed once, and what is written
\* then enters the queue.
LEMMA SerialInvKept ==
  ASSUME SerialInv, [KernelNext]_kernelVars
  PROVE  SerialInv'
<1>1. CASE KmainSerialInit
  BY <1>1, SerialInitPrograms DEF KmainSerialInit, SerialInv
<1>2. CASE SerialReturn
  <2>1. PICK c \in Bytes : SerialWriteChar(c)
    BY <1>2 DEF SerialReturn
  <2>2. uart' = [uart EXCEPT !.fifo = Append(@, c)]
    BY <2>1, WriteQueues
  <2>3. Append(uart.fifo, c) \in Seq(Bytes)
    BY DEF SerialInv, UartType
  <2> QED  BY <1>2, <2>2, <2>3, ZenonT(30) DEF SerialReturn, SerialInv, UartType, DLAB, Programmed
<1>3. CASE Transmit /\ UNCHANGED at
  <2>1. uart' = [uart EXCEPT !.fifo = Tail(@)] /\ uart.fifo # <<>> /\ uart.fifo \in Seq(Bytes)
    BY <1>3 DEF Transmit, SerialInv, UartType
  <2>2. Tail(uart.fifo) \in Seq(Bytes)
    BY <2>1
  <2> QED  BY <1>3, <2>1, <2>2, ZenonT(30) DEF SerialInv, UartType, DLAB, Programmed
<1>4. CASE /\ UNCHANGED uart
           /\ at' \in {"memory_detect", "running", "serial_write_char"} =>
                at \in {"memory_detect", "running", "serial_write_char"}
  BY <1>4 DEF SerialInv, DLAB, Programmed
<1> QED
  BY <1>1, <1>2, <1>3, <1>4
  DEF KernelNext, KernelStep, KmainStep, PanicStep, kernelVars, Exception, Trap, Start,
      MapKernelLoop, EnablePaging, HigherHalfStart, InterruptsDisable, FpuInit, Finit,
      KmainScreenClear, MemoryInitGdt, GdtSet, InterruptsInit, IdtSet,
      ProtectedModeStart, MemoryDetect, ConsoleCall, SerialCall, PanicCalled,
      PanicReset, PanicPrint, PanicPrinted, PanicHalt

\* ... so it holds at every step.
LEMMA SerialInvHolds == KernelSpec => []SerialInv
<1>1. KernelInit => SerialInv
  <2> SUFFICES ASSUME KernelInit
               PROVE  SerialInv
    OBVIOUS
  <2>1. PICK b \in Bytes :
          uart = [ier |-> 15, fcr |-> 0, lcr |-> 7, mcr |-> 0,
                  divisor |-> [low |-> 12, high |-> 1], fifo |-> <<b>>]
    BY DEF KernelInit, UartInit
  <2>2. <<b>> \in Seq(Bytes) /\ [low |-> 12, high |-> 1] \in [{"low", "high"} -> 0 .. 255]
    OBVIOUS
  <2>3. uart \in UartType /\ ~DLAB(uart)
    BY <2>1, <2>2 DEF UartType, DLAB
  <2> QED  BY <2>3 DEF SerialInv, KernelInit
<1> QED  BY <1>1, SerialInvKept, PTL DEF KernelSpec

\* A byte goes to a port that serial_init has set up, and is neither dropped
\* for a full transmitter nor taken for a divisor.
THEOREM KernelSerialBytesArrive == KernelSpec => SerialBytesArrive
<1>1. SerialInv /\ [KernelNext]_kernelVars =>
        [SerialReturn => /\ Programmed
                         /\ \E c \in Bytes : uart'.fifo = Append(uart.fifo, c)]_kernelVars
  <2> SUFFICES ASSUME SerialInv, SerialReturn
               PROVE  Programmed /\ \E c \in Bytes : uart'.fifo = Append(uart.fifo, c)
    OBVIOUS
  <2>1. PICK c \in Bytes : SerialWriteChar(c)
    BY DEF SerialReturn
  <2>2. uart' = [uart EXCEPT !.fifo = Append(@, c)]
    BY <2>1, WriteQueues
  <2> QED  BY <2>2 DEF SerialReturn, SerialInv, UartType
<1> QED  BY <1>1, SerialInvHolds, PTL DEF KernelSpec, SerialBytesArrive


-----------------------------------------------------------------------------
(***************************************************************************)
(* What an exception's handler is given: the words on its stack, followed  *)
(* into the fields of struct registers.                                    *)
(***************************************************************************)

\* The words on a handler's stack
Words == {"eflags", "cs", "eip", "error_code", "zero", "vector", "eax", "ecx", "edx",
          "ebx", "esp", "ebp", "esi", "edi", "ds"}

\* Two sequences one after the other.
LEMMA Join ==
  ASSUME NEW S, NEW s \in Seq(S), NEW t \in Seq(S)
  PROVE  /\ s \o t \in Seq(S) /\ Len(s \o t) = Len(s) + Len(t)
         /\ \A i \in 1 .. Len(s) : (s \o t)[i] = s[i]
         /\ \A i \in 1 .. Len(t) : (s \o t)[Len(s) + i] = t[i]
<1>1. /\ s \o t \in Seq(S) /\ Len(s \o t) = Len(s) + Len(t)
      /\ \A i \in 1 .. Len(s) + Len(t) :
           (s \o t)[i] = IF i <= Len(s) THEN s[i] ELSE t[i - Len(s)]
  BY ConcatProperties
<1>2. Len(s) \in Nat /\ Len(t) \in Nat
  BY SMT
<1> QED  BY <1>1, <1>2, SMT

\* Short tuples are sequences over what they are made of.
LEMMA Tuple1 ==
  ASSUME NEW S, NEW a \in S
  PROVE  /\ <<a>> \in Seq(S) /\ Len(<<a>>) = 1 /\ <<a>>[1] = a
         /\ <<>> \in Seq(S) /\ Len(<<>>) = 0
OBVIOUS

\* The same of three words.
LEMMA Tuple3 ==
  ASSUME NEW S, NEW a \in S, NEW b \in S, NEW c \in S
  PROVE  <<a, b, c>> \in Seq(S) /\ Len(<<a, b, c>>) = 3
OBVIOUS

\* The same of eight.
LEMMA Tuple8 ==
  ASSUME NEW S, NEW a \in S, NEW b \in S, NEW c \in S, NEW d \in S,
         NEW e \in S, NEW f \in S, NEW g \in S, NEW h \in S
  PROVE  <<a, b, c, d, e, f, g, h>> \in Seq(S) /\ Len(<<a, b, c, d, e, f, g, h>>) = 8
OBVIOUS

\* What PUSHA pushes.
LEMMA PushAWords == PushA \in Seq(Words) /\ Len(PushA) = 8
BY Tuple8 DEF PushA, Words

\* The stack of an exception's handler.
LEMMA FramesAlike ==
  ASSUME NEW v \in (0 .. 31) \ {17}
  PROVE  LET e == IF v \in ErrorCodeVectors THEN "error_code" ELSE "zero"
             s == StackAt(v)
         IN  /\ s \in Seq(Words) /\ Len(s) = 14
             /\ s[1] = "eflags" /\ s[2] = "cs" /\ s[3] = "eip" /\ s[4] = e /\ s[5] = "vector"
             /\ \A i \in 1 .. 8 : s[i + 5] = PushA[i]
             /\ s[14] = "ds"
<1> DEFINE e == IF v \in ErrorCodeVectors THEN "error_code" ELSE "zero"
           A == <<"eflags", "cs", "eip">>
           C == IF v \in ErrorCodeVectors   THEN <<"error_code">> ELSE <<>>
           Z == IF v \in StubsWithErrorCode THEN <<>> ELSE <<"zero">>
           D == A \o C
           B == D \o Z
           F == B \o <<"vector">>
           G == F \o PushA
           H == G \o <<"ds">>
<1>1. StackAt(v) = H
  BY DEF StackAt
<1>2. v \in ErrorCodeVectors <=> v \in StubsWithErrorCode
  BY SMT DEF ErrorCodeVectors, StubsWithErrorCode
<1>3. A \in Seq(Words) /\ Len(A) = 3 /\ A[1] = "eflags" /\ A[2] = "cs" /\ A[3] = "eip"
  BY Tuple3 DEF Words
<1>4. C \in Seq(Words) /\ Z \in Seq(Words) /\ Len(C) + Len(Z) = 1 
      /\ Len(C) \in {0, 1} /\ (Len(C) = 1 => C[1] = e) /\ (Len(C) = 0 => Z[1] = e)
  <2>1. CASE v \in ErrorCodeVectors
    <3>1. C = <<"error_code">> /\ Z = <<>> /\ e = "error_code"
      BY <1>2, <2>1
    <3> HIDE DEF C, Z, e
    <3>2. {"error_code", "zero"} \subseteq Words
      BY DEF Words
    <3> QED  BY <3>1, <3>2, Tuple1, SMT
  <2>2. CASE v \notin ErrorCodeVectors
    <3>1. C = <<>> /\ Z = <<"zero">> /\ e = "zero"
      BY <1>2, <2>2
    <3> HIDE DEF C, Z, e
    <3>2. {"error_code", "zero"} \subseteq Words
      BY DEF Words
    <3> QED  BY <3>1, <3>2, Tuple1, SMT
  <2> QED  BY <2>1, <2>2
<1> HIDE DEF A, C, Z, e
<1>5. D \in Seq(Words) /\ Len(D) = 3 + Len(C) /\ (\A i \in 1 .. 3 : D[i] = A[i])
      /\ \A i \in 1 .. Len(C) : D[3 + i] = C[i]
  <2>1. /\ D \in Seq(Words) /\ Len(D) = Len(A) + Len(C)
        /\ \A i \in 1 .. Len(A) : D[i] = A[i]
        /\ \A i \in 1 .. Len(C) : D[Len(A) + i] = C[i]
    <3>1. A \in Seq(Words) /\ C \in Seq(Words)
      BY <1>3, <1>4
    <3> QED  BY <3>1, Join
  <2> HIDE DEF D
  <2> QED  BY <1>3, <2>1
<1> HIDE DEF D
<1>6. B \in Seq(Words) /\ Len(B) = Len(D) + Len(Z) /\ (\A i \in 1 .. Len(D) : B[i] = D[i])
      /\ \A i \in 1 .. Len(Z) : B[Len(D) + i] = Z[i]
  BY <1>4, <1>5, Join
<1> HIDE DEF B
<1>7. Len(B) = 4 /\ B[1] = "eflags" /\ B[2] = "cs" /\ B[3] = "eip" /\ B[4] = e
  <2>1. CASE Len(C) = 1
    <3>1. Len(Z) = 0 /\ Len(D) = 4
      BY <1>4, <1>5, <2>1, SMT
    <3>2. D[1] = A[1] /\ D[2] = A[2] /\ D[3] = A[3] /\ D[4] = C[1]
      BY <1>5, <2>1, SMT
    <3> QED  BY <1>3, <1>4, <1>6, <2>1, <3>1, <3>2, SMT
  <2>2. CASE Len(C) = 0
    <3>1. Len(Z) = 1 /\ Len(D) = 3
      BY <1>4, <1>5, <2>2, SMT
    <3>2. D[1] = A[1] /\ D[2] = A[2] /\ D[3] = A[3]
      BY <1>5, SMT
    <3>3. B[4] = Z[1]
      BY <1>6, <3>1, SMT
    <3> QED  BY <1>3, <1>4, <1>6, <2>2, <3>1, <3>2, <3>3, SMT
  <2> QED  BY <1>4, <2>1, <2>2
<1>8. <<"vector">> \in Seq(Words) /\ Len(<<"vector">>) = 1 /\ <<"vector">>[1] = "vector"
      /\ <<"ds">> \in Seq(Words) /\ Len(<<"ds">>) = 1 /\ <<"ds">>[1] = "ds"
  BY DEF Words
<1>9. F \in Seq(Words) /\ Len(F) = Len(B) + Len(<<"vector">>)
      /\ (\A i \in 1 .. Len(B) : F[i] = B[i])
      /\ \A i \in 1 .. Len(<<"vector">>) : F[Len(B) + i] = <<"vector">>[i]
  BY <1>6, <1>8, Join
<1> HIDE DEF F
<1>10. Len(F) = 5 /\ (\A i \in 1 .. 4 : F[i] = B[i]) /\ F[5] = "vector"
  BY <1>7, <1>8, <1>9, SMT
<1>11. G \in Seq(Words) /\ Len(G) = Len(F) + Len(PushA)
      /\ (\A i \in 1 .. Len(F) : G[i] = F[i])
      /\ \A i \in 1 .. Len(PushA) : G[Len(F) + i] = PushA[i]
  <2>1. F \in Seq(Words) /\ PushA \in Seq(Words)
    BY <1>9, PushAWords
  <2> QED  BY <2>1, Join
<1> HIDE DEF G
<1>12. Len(G) = 13 /\ (\A i \in 1 .. 5 : G[i] = F[i]) /\ \A i \in 1 .. 8 : G[i + 5] = PushA[i]
  BY <1>10, <1>11, PushAWords, SMT
<1>13. H \in Seq(Words) /\ Len(H) = Len(G) + Len(<<"ds">>)
      /\ (\A i \in 1 .. Len(G) : H[i] = G[i])
      /\ \A i \in 1 .. Len(<<"ds">>) : H[Len(G) + i] = <<"ds">>[i]
  BY <1>11, <1>8, Join
<1> HIDE DEF H
<1>14. Len(H) = 14 /\ (\A i \in 1 .. 13 : H[i] = G[i]) /\ H[14] = "ds"
  BY <1>12, <1>8, <1>13, SMT
<1> QED  BY <1>1, <1>7, <1>10, <1>12, <1>13, <1>14, SMT DEF e

\* Each name of struct registers is found at its place.
LEMMA FieldsDistinct ==
  ASSUME NEW i \in 1 .. 14
  PROVE  (CHOOSE j \in 1 .. Len(RegisterFields) : RegisterFields[j] = RegisterFields[i]) = i
<1>1. Len(RegisterFields) = 14
  BY DEF RegisterFields
<1>2. \A j \in 1 .. 14 : RegisterFields[j] = RegisterFields[i] => j = i
  BY SMT DEF RegisterFields
<1> HIDE DEF RegisterFields
<1> QED  BY <1>1, <1>2

\* A field of struct registers is the word pushed as many places before the
\* last one.
LEMMA RegsBackwards ==
  ASSUME NEW v \in (0 .. 31) \ {17}, NEW i \in 1 .. 14
  PROVE  /\ RegisterFields[i] \in ToSet(RegisterFields)
         /\ Regs(v)[RegisterFields[i]] = StackAt(v)[15 - i]
<1>1. Len(RegisterFields) = 14
  BY DEF RegisterFields
<1>2. RegisterFields[i] \in ToSet(RegisterFields)
  <2>1. i \in DOMAIN RegisterFields
    BY DEF RegisterFields
  <2> QED  BY <2>1 DEF ToSet
<1>3. Regs(v)[RegisterFields[i]] = Reverse(StackAt(v))[i]
  BY <1>2, FieldsDistinct DEF Regs
<1>4. Len(StackAt(v)) = 14
  BY FramesAlike
<1>5. Reverse(StackAt(v))[i] = StackAt(v)[15 - i]
  BY <1>4, SMT DEF Reverse
<1> QED  BY <1>2, <1>3, <1>5

\* isr<v> and asm_general_isr give every exception's handler the number, the
\* error code or 0, and the interrupted context, in the right fields.
LEMMA HandlerFindsContext ==
  ASSUME NEW v \in (0 .. 31) \ {17}
  PROVE  /\ Regs(v).interrupt_no = "vector"
         /\ Regs(v).error_code = IF v \in ErrorCodeVectors THEN "error_code" ELSE "zero"
         /\ \A f \in ToSet(RegisterFields) \ {"interrupt_no", "error_code"} : Regs(v)[f] = f
<1>1. /\ StackAt(v)[1] = "eflags" /\ StackAt(v)[2] = "cs" /\ StackAt(v)[3] = "eip"
      /\ StackAt(v)[4] = IF v \in ErrorCodeVectors THEN "error_code" ELSE "zero"
      /\ StackAt(v)[5] = "vector" /\ StackAt(v)[14] = "ds"
      /\ \A i \in 1 .. 8 : StackAt(v)[i + 5] = PushA[i]
  BY FramesAlike
<1>2. /\ StackAt(v)[6] = "eax" /\ StackAt(v)[7] = "ecx" /\ StackAt(v)[8] = "edx"
      /\ StackAt(v)[9] = "ebx" /\ StackAt(v)[10] = "esp" /\ StackAt(v)[11] = "ebp"
      /\ StackAt(v)[12] = "esi" /\ StackAt(v)[13] = "edi"
  BY <1>1, SMT DEF PushA
<1>3. \A i \in 1 .. 14 : Regs(v)[RegisterFields[i]] = StackAt(v)[15 - i]
  BY RegsBackwards
<1>4. RegisterFields[10] = "interrupt_no" /\ RegisterFields[11] = "error_code"
  BY DEF RegisterFields
<1>5. Regs(v).interrupt_no = StackAt(v)[5] /\ Regs(v).error_code = StackAt(v)[4]
  BY <1>3, <1>4, SMT
<1>6. ASSUME NEW i \in 1 .. 14, i \notin {10, 11}
      PROVE  StackAt(v)[15 - i] = RegisterFields[i]
  BY <1>1, <1>2, <1>6, SMT DEF RegisterFields
<1>7. ASSUME NEW f \in ToSet(RegisterFields) \ {"interrupt_no", "error_code"}
      PROVE  Regs(v)[f] = f
  <2>1. PICK i \in 1 .. 14 : RegisterFields[i] = f
    BY DEF ToSet, RegisterFields
  <2>2. i \notin {10, 11}
    BY <1>4, <1>7, <2>1
  <2> QED  BY <1>3, <1>6, <2>1, <2>2
<1> QED  BY <1>1, <1>5, <1>7

-----------------------------------------------------------------------------
(***************************************************************************)
(* The screen                                                              *)
(***************************************************************************)

\* panic's text is a line for the message and one for every line of the dump,
\* of one letter each.
LEMMA PanicTextIs ==
  /\ Len(PanicText) = 2 * DumpLines + 2
  /\ \A k \in 0 .. DumpLines :
       /\ PanicText[2 * k + 1] = IF k = 0 THEN PanicLetter ELSE DumpLetter
       /\ PanicText[2 * k + 2] = "newline"
<1> DEFINE L == Letters \union {"newline"}
           M == <<PanicLetter, "newline">>
           D == [i \in 1 .. 2 * DumpLines |-> IF i % 2 = 1 THEN DumpLetter ELSE "newline"]
<1>1. DumpLines \in Nat /\ PanicLetter \in L /\ DumpLetter \in L /\ "newline" \in L
  BY KernelAssumption
<1>2. D \in Seq(L) /\ Len(D) = 2 * DumpLines
  <2> HIDE DEF L
  <2> QED  BY <1>1, SMT
<1>3. M \in Seq(L) /\ Len(M) = 2 /\ M[1] = PanicLetter /\ M[2] = "newline"
  <2> HIDE DEF L
  <2> QED  BY <1>1, SMT
<1>4. \A k \in 1 .. DumpLines : D[2 * k - 1] = DumpLetter /\ D[2 * k] = "newline"
  <2> SUFFICES ASSUME NEW k \in 1 .. DumpLines
               PROVE  D[2 * k - 1] = DumpLetter /\ D[2 * k] = "newline"
    OBVIOUS
  <2>1. (2 * k - 1) % 2 = 1 /\ (2 * k) % 2 = 0
    BY <1>1, SMT
  <2>2. 2 * k - 1 \in 1 .. 2 * DumpLines /\ 2 * k \in 1 .. 2 * DumpLines
    BY <1>1, SMT
  <2> QED  BY <2>1, <2>2
<1>5. PanicText = M \o D
  BY DEF PanicText
<1> HIDE DEF D, L, M
<1>6. /\ Len(M \o D) = Len(M) + Len(D)
      /\ \A i \in 1 .. Len(M) : (M \o D)[i] = M[i]
      /\ \A i \in 1 .. Len(D) : (M \o D)[Len(M) + i] = D[i]
  <2>1. M \in Seq(L) /\ D \in Seq(L)
    BY <1>2, <1>3
  <2> QED  BY <2>1, Join
<1>7. /\ Len(PanicText) = 2 * DumpLines + 2
      /\ PanicText[1] = PanicLetter /\ PanicText[2] = "newline"
      /\ \A i \in 1 .. 2 * DumpLines : PanicText[2 + i] = D[i]
  BY <1>1, <1>2, <1>3, <1>5, <1>6, SMT
<1>8. ASSUME NEW k \in 0 .. DumpLines
      PROVE  /\ PanicText[2 * k + 1] = IF k = 0 THEN PanicLetter ELSE DumpLetter
             /\ PanicText[2 * k + 2] = "newline"
  <2>1. CASE k = 0
    BY <1>7, <2>1, SMT
  <2>2. CASE k # 0
    <3>1. 2 * k - 1 \in 1 .. 2 * DumpLines /\ 2 * k \in 1 .. 2 * DumpLines /\ k \in 1 .. DumpLines
      BY <1>1, <2>2, SMT
    <3>2. 2 * k + 1 = 2 + (2 * k - 1) /\ 2 * k + 2 = 2 + 2 * k
      BY SMT
    <3> QED  BY <1>4, <1>7, <2>2, <3>1, <3>2
  <2> QED  BY <2>1, <2>2
<1> QED  BY <1>7, <1>8

\* The screen when panic has printed n characters.
ShowsPanic(n) ==
  /\ n = 2 * row + column /\ column \in {0, 1}
  /\ \A x \in XS, y \in YS :
       vram[Offset(x, y)] =
         IF x = 0 /\ 2 * y < n THEN (IF y = 0 THEN PanicLetter ELSE DumpLetter) ELSE Blank

PanicAts == {"panic_print", "panic_halt", "halted"}

\* From console_reset on the screen is panic's alone, and all its text is on
\* it when panic has printed it.
ScreenInv ==
  at \in PanicAts =>
    /\ printed \in 0 .. Len(PanicText)
    /\ at # "panic_print" => printed = Len(PanicText)
    /\ ShowsPanic(printed)

\* The struct registers of the last exception is what its stack makes it.
TrapInv ==
  \/ trap = [raised |-> NoVector]
  \/ \E v \in (0 .. 31) \ {17} : trap = [raised |-> v, regs |-> Regs(v)]

\* Printing one more character shows it and nothing else.
LEMMA PanicPrintShows ==
  ASSUME ConsoleTypeOK, ShowsPanic(printed), printed \in 0 .. Len(PanicText), PanicPrint
  PROVE  printed' \in 0 .. Len(PanicText) /\ ShowsPanic(printed)'
<1>1. /\ DumpLines \in Nat /\ DumpLines + 2 <= ROWS /\ COLS \in Nat \ {0} /\ ROWS \in Nat
      /\ PanicLetter \in Letters /\ DumpLetter \in Letters
      /\ "newline" \notin Letters /\ "return" \notin Letters
  BY KernelAssumption, ScreenAssumption
<1>2. printed < 2 * DumpLines + 2 /\ printed' = printed + 1 /\ printed \in Nat
  BY PanicTextIs, <1>1, SMT DEF PanicPrint
<1>3. row \in YS /\ column \in {0, 1} /\ printed = 2 * row + column /\ vram \in Vram
  BY DEF ConsoleTypeOK, ShowsPanic, YS, Vram
<1>4. row \in Nat /\ row <= DumpLines /\ row + 1 < ROWS /\ row + 1 \in 0 .. ROWS /\ row \in 0 .. ROWS
      /\ row < ROWS
  BY <1>1, <1>2, <1>3, SMT DEF YS
<1>5. printed' \in 0 .. Len(PanicText)
  BY <1>1, <1>2, PanicTextIs, SMT
<1>6. ConsoleWriteChar(PanicText[printed + 1])
  BY DEF PanicPrint
<1>7. \A y \in YS : y \in Nat
  BY <1>1, SMT DEF YS
<1>8. CASE column = 0
  <2> DEFINE c == IF row = 0 THEN PanicLetter ELSE DumpLetter
             v == [vram EXCEPT ![Offset(0, row)] = c]
  <2>1. PanicText[printed + 1] = c
    BY <1>3, <1>4, <1>8, PanicTextIs, SMT
  <2>2. c \in Letters /\ c # "newline" /\ c # "return"
    BY <1>1
  <2>3. WriteLetter(c)
    BY <1>6, <2>1, <2>2 DEF ConsoleWriteChar
  <2>4. ~ Wraps /\ column + 1 = 1
    BY <1>1, <1>8, SMT DEF Wraps
  <2>5. MoveTo(v, 1, row)
    BY <1>8, <2>3, <2>4 DEF WriteLetter
  <2>6. 0 \in 0 .. COLS /\ 1 \in 0 .. COLS /\ 0 < COLS /\ 0 # COLS
    BY <1>1, SMT
  <2> HIDE DEF c
  <2>7. /\ v \in Vram
        /\ \A i \in Cells : i > ScreenSize => v[i] = vram[i]
        /\ \A a \in XS, b \in YS :
             v[Offset(a, b)] = IF a = 0 /\ b = row THEN c ELSE vram[Offset(a, b)]
    BY <1>3, <2>2, <2>6, WriteShows, SMTT(20)
  <2> HIDE DEF v
  <2>8. /\ column' = 1 /\ row' = row
        /\ \A a \in XS, b \in YS : vram'[Offset(a, b)] = v[Offset(a, b)]
    BY <1>4, <2>5, <2>6, <2>7, MoveToShows
  <2>9. printed' = 2 * row' + column' /\ column' \in {0, 1}
    BY <1>2, <1>3, <1>4, <1>8, <2>8, SMT
  <2>10. ASSUME NEW x \in XS, NEW y \in YS
         PROVE  vram'[Offset(x, y)] =
                  IF x = 0 /\ 2 * y < printed'
                  THEN (IF y = 0 THEN PanicLetter ELSE DumpLetter) ELSE Blank
    <3>1. vram'[Offset(x, y)] = IF x = 0 /\ y = row THEN c ELSE vram[Offset(x, y)]
      BY <2>7, <2>8
    <3>2. vram[Offset(x, y)] =
            IF x = 0 /\ 2 * y < printed
            THEN (IF y = 0 THEN PanicLetter ELSE DumpLetter) ELSE Blank
      BY DEF ShowsPanic
    <3>3. 2 * y < printed' <=> y = row \/ 2 * y < printed
      BY <1>2, <1>3, <1>4, <1>7, <1>8, SMT
    <3> QED  BY <3>1, <3>2, <3>3 DEF c
  <2> QED  BY <1>5, <2>9, <2>10 DEF ShowsPanic, Offset
<1>9. CASE column = 1
  <2>1. PanicText[printed + 1] = "newline"
    <3>1. printed + 1 = 2 * row + 2 /\ row \in 0 .. DumpLines
      BY <1>1, <1>3, <1>4, <1>9, SMT
    <3> QED  BY <3>1, PanicTextIs
  <2>2. MoveTo(vram, 0, row + 1)
    BY <1>1, <1>6, <2>1 DEF ConsoleWriteChar, WriteNewLine
  <2>3. 0 \in 0 .. COLS
    BY <1>1, SMT
  <2>4. row + 1 # ROWS
    BY <1>1, <1>4, SMT
  <2>5. /\ column' = 0 /\ row' = row + 1
        /\ \A a \in XS, b \in YS : vram'[Offset(a, b)] = vram[Offset(a, b)]
    BY <1>3, <1>4, <2>2, <2>3, <2>4, MoveToShows
  <2>6. printed' = 2 * row' + column' /\ column' \in {0, 1}
    BY <1>2, <1>3, <1>4, <1>9, <2>5, SMT
  <2>7. \A y \in YS : 2 * y < printed' <=> 2 * y < printed
    BY <1>2, <1>3, <1>4, <1>7, <1>9, SMT
  <2> QED  BY <1>5, <2>5, <2>6, <2>7 DEF ShowsPanic, Offset
<1> QED  BY <1>3, <1>8, <1>9

\* panic begins on a blank screen.
LEMMA PanicResetBlanks ==
  ASSUME ConsoleTypeOK, PanicReset
  PROVE  printed' \in 0 .. Len(PanicText) /\ ShowsPanic(printed)'
<1>1. vram' = Cleared /\ column' = 0 /\ row' = 0 /\ printed' = 0
  BY DEF PanicReset, ConsoleReset
<1>2. \A x \in XS, y \in YS : vram'[Offset(x, y)] = Blank
  BY <1>1, ClearBlanksRows DEF ConsoleTypeOK, Vram
<1>3. \A y \in YS : ~ (2 * y < 0)
  BY ScreenAssumption, SMT DEF YS
<1>4. 0 = 2 * 0 + 0 /\ 0 \in 0 .. Len(PanicText)
  BY PanicTextIs, KernelAssumption, SMT
<1> QED  BY <1>1, <1>2, <1>3, <1>4 DEF ShowsPanic, Offset

\* Who else runs than panic leaves its screen alone or is not in panic.
LEMMA OthersKeepPanicsScreen ==
  ASSUME [KernelNext]_kernelVars
  PROVE  PanicStep \/ at' \notin PanicAts \/ UNCHANGED <<at, printed, consoleVars>>
BY DEF KernelNext, KernelStep, KmainStep, kernelVars, panicVars, PanicAts, Exception, Trap, Start,
       MapKernelLoop, EnablePaging, HigherHalfStart, InterruptsDisable, FpuInit, Finit,
       KmainScreenClear, MemoryInitGdt, GdtSet, InterruptsInit, IdtSet,
       ProtectedModeStart, KmainSerialInit, MemoryDetect, ConsoleCall, SerialCall,
       SerialReturn, PanicCalled

\* Every step keeps the panic's screen.
LEMMA ScreenInvKept ==
  ASSUME ConsoleTypeOK, ScreenInv, [KernelNext]_kernelVars
  PROVE  ScreenInv'
<1>1. CASE UNCHANGED <<at, printed, consoleVars>>
  BY <1>1 DEF ScreenInv, ShowsPanic, consoleVars, Offset
<1>2. CASE at' \notin PanicAts
  BY <1>2 DEF ScreenInv
<1>3. CASE PanicReset
  BY <1>3, PanicResetBlanks DEF ScreenInv, PanicReset
<1>4. CASE PanicPrint
  <2>1. ShowsPanic(printed) /\ printed \in 0 .. Len(PanicText) /\ at' = "panic_print"
    BY <1>4 DEF ScreenInv, PanicPrint, PanicAts
  <2> QED  BY <1>4, <2>1, PanicPrintShows DEF ScreenInv
<1>5. CASE PanicPrinted \/ PanicHalt
  BY <1>5 DEF PanicPrinted, PanicHalt, InterruptsDisable, ScreenInv, PanicAts, ShowsPanic,
              consoleVars, panicVars, Offset
<1> QED  BY <1>1, <1>2, <1>3, <1>4, <1>5, OthersKeepPanicsScreen DEF PanicStep

\* Every exception fills in its own struct registers.
LEMMA TrapInvKept ==
  ASSUME TrapInv, [KernelNext]_kernelVars
  PROVE  TrapInv'
<1>1. ASSUME NEW v \in (0 .. 31) \ {17}, Trap(v)
      PROVE  TrapInv'
  BY <1>1 DEF Trap, TrapInv
<1>2. UNCHANGED trap \/ \E v \in (0 .. 31) \ {17} : Trap(v)
  <2>1. CASE \E v \in Vectors : Exception(v)
    BY <2>1, KernelAssumption DEF Exception
  <2>2. CASE HigherHalfStart \/ Finit \/ ProtectedModeStart
    <3>1. {PageFault, DeviceNotAvailable, GeneralProtection} \subseteq (0 .. 31) \ {17}
      BY SMT DEF PageFault, DeviceNotAvailable, GeneralProtection
    <3> QED  BY <2>2, <3>1 DEF HigherHalfStart, Finit, ProtectedModeStart, panicVars
  <2>3. CASE ~ (\E v \in Vectors : Exception(v)) /\ ~ HigherHalfStart /\ ~ Finit /\ ~ ProtectedModeStart
    BY <2>3
       DEF KernelNext, KernelStep, KmainStep, PanicStep, kernelVars, panicVars, Start,
           MapKernelLoop, EnablePaging, InterruptsDisable, FpuInit, KmainScreenClear,
           MemoryInitGdt, GdtSet, InterruptsInit, IdtSet, KmainSerialInit, MemoryDetect,
           ConsoleCall, SerialCall, SerialReturn, PanicCalled, PanicReset, PanicPrint,
           PanicPrinted, PanicHalt
  <2> QED  BY <2>1, <2>2, <2>3
<1> QED  BY <1>1, <1>2 DEF TrapInv

-----------------------------------------------------------------------------
\* A kernel that halted in panic shows panic's message and the whole dump,
\* and nothing else; the handler of the exception that led there was given
\* its number and the interrupted context.
THEOREM PanicReachesScreen == KernelSpec => []PanicIsShown
<1>1. KernelInit => ScreenInv /\ TrapInv
  BY DEF KernelInit, ScreenInv, TrapInv, PanicAts
<1>2. KernelSpec => []ConsoleTypeOK
  BY KernelUsesConsole, ConsoleTypeCorrect, PTL
<1>3. ConsoleTypeOK /\ ScreenInv /\ TrapInv /\ [KernelNext]_kernelVars => ScreenInv' /\ TrapInv'
  BY ScreenInvKept, TrapInvKept
<1>4. ScreenInv /\ TrapInv => PanicIsShown
  <2> SUFFICES ASSUME ScreenInv, TrapInv, at = "halted"
               PROVE  PanicIsShown
    BY DEF PanicIsShown
  <2>1. DumpLines \in Nat /\ DumpLines + 2 <= ROWS /\ COLS \in Nat \ {0} /\ ROWS \in Nat
    BY KernelAssumption, ScreenAssumption
  <2>2. printed = 2 * DumpLines + 2 /\ ShowsPanic(printed)
    BY PanicTextIs DEF ScreenInv, PanicAts
  <2>3. /\ 0 \in XS /\ 0 \in YS /\ 2 * 0 < printed
        /\ \A y \in 1 .. DumpLines : y \in YS /\ 2 * y < printed /\ y # 0
        /\ \A x \in 1 .. COLS - 1 : x \in XS /\ x # 0
    BY <2>1, <2>2, SMT DEF XS, YS
  <2>4. \A x \in XS, y \in YS : Shown[y][x] = vram[Offset(x, y)]
    BY DEF Shown, XS, YS
  <2>5. Shown[0][0] = PanicLetter
    BY <2>2, <2>3, <2>4 DEF ShowsPanic
  <2>6. \A y \in 1 .. DumpLines : Shown[y][0] = DumpLetter
    BY <2>2, <2>3, <2>4 DEF ShowsPanic
  <2>7. \A y \in 0 .. ROWS - 1, x \in 1 .. COLS - 1 : Shown[y][x] = Blank
    BY <2>2, <2>3, <2>4 DEF ShowsPanic, YS
  <2>8. ASSUME trap.raised # NoVector
        PROVE  /\ trap.regs.interrupt_no = "vector"
               /\ trap.regs.error_code =
                    IF trap.raised \in ErrorCodeVectors THEN "error_code" ELSE "zero"
               /\ \A f \in ToSet(RegisterFields) \ {"interrupt_no", "error_code"} :
                    trap.regs[f] = f
    <3>1. PICK v \in (0 .. 31) \ {17} : trap = [raised |-> v, regs |-> Regs(v)]
      BY <2>8 DEF TrapInv
    <3>2. trap.raised = v /\ trap.regs = Regs(v)
      BY <3>1
    <3> QED  BY <3>2, HandlerFindsContext
  <2> QED  BY <2>5, <2>6, <2>7, <2>8 DEF PanicIsShown
<1> QED  BY <1>1, <1>2, <1>3, <1>4, PTL DEF KernelSpec

-----------------------------------------------------------------------------
(***************************************************************************)
(* Types                                                                   *)
(***************************************************************************)

\* kmain and the boot stage run only as long as nothing has gone wrong.
BootSteps ==
  BeforeIdt \union {"protected_mode_start", "serial_init", "memory_detect"}

MachineTypes ==
  /\ kernel_page_table \in [0 .. NumEntries - 1 -> (0 .. NumEntries - 1) \union {Absent}]
  /\ cr0 \subseteq {"PE", "PG", "MP", "EM", "NE"}
  /\ nesting \in 0 .. MaxNesting
  /\ at \in BootSteps => nesting = 0
  /\ printed \in 0 .. Len(PanicText)

\* No step of kmain, of an exception or of panic breaks the types.
LEMMA MachineTypesKept ==
  ASSUME MachineTypes, [KernelNext]_kernelVars
  PROVE  MachineTypes'
<1>1. MaxNesting \in Nat \ {0} /\ NumEntries \in Nat /\ 0 \in 0 .. Len(PanicText)
  BY KernelAssumption, PanicTextIs
<1>2. ASSUME NEW v, Trap(v), nesting < MaxNesting, UNCHANGED <<kernel_page_table, cr0>>
      PROVE  MachineTypes'
  <2>1. nesting' \in 0 .. MaxNesting
    BY <1>1, <1>2 DEF Trap, MachineTypes
  <2> QED  BY <1>2, <2>1 DEF Trap, MachineTypes, BootSteps, BeforeIdt
<1>3. CASE Start
  BY <1>3 DEF Start, MachineTypes, panicVars, BootSteps, BeforeIdt
<1>4. CASE MapKernelLoop
  BY <1>4 DEF MapKernelLoop, MachineTypes, panicVars, BootSteps, BeforeIdt
<1>5. CASE EnablePaging
  BY <1>5 DEF EnablePaging, MachineTypes, panicVars, BootSteps, BeforeIdt
<1>6. CASE HigherHalfStart
  <2>1. nesting < MaxNesting
    BY <1>1, <1>6 DEF HigherHalfStart, MachineTypes, BootSteps, BeforeIdt
  <2> QED
    BY <1>2, <1>6, <2>1 DEF HigherHalfStart, MachineTypes, machine, panicVars, BootSteps, BeforeIdt
<1>7. CASE Finit
  <2>1. nesting < MaxNesting
    BY <1>1, <1>7 DEF Finit, MachineTypes, BootSteps, BeforeIdt
  <2> QED
    BY <1>2, <1>7, <2>1 DEF Finit, MachineTypes, machine, panicVars, BootSteps, BeforeIdt
<1>8. CASE ProtectedModeStart
  <2>1. nesting < MaxNesting
    BY <1>1, <1>8 DEF ProtectedModeStart, MachineTypes, BootSteps, BeforeIdt
  <2> QED
    BY <1>2, <1>8, <2>1 DEF ProtectedModeStart, MachineTypes, panicVars, BootSteps, BeforeIdt
<1>9. CASE FpuInit
  <2>1. cr0' \subseteq {"PE", "PG", "MP", "EM", "NE"}
    BY <1>9 DEF FpuInit, MachineTypes
  <2> QED  BY <1>9, <2>1 DEF FpuInit, MachineTypes, panicVars, BootSteps, BeforeIdt
<1>10. CASE MemoryDetect
  <2>1. kernel_page_table' \in [0 .. NumEntries - 1 -> (0 .. NumEntries - 1) \union {Absent}]
    BY <1>1, <1>10 DEF MemoryDetect, MachineTypes, FreeEntries
  <2> QED  BY <1>10, <2>1 DEF MemoryDetect, MachineTypes, panicVars, BootSteps, BeforeIdt
<1>11. ASSUME NEW v \in Vectors, Exception(v)
       PROVE  MachineTypes'
  BY <1>2, <1>11 DEF Exception, machine
<1>12. CASE /\ UNCHANGED <<kernel_page_table, cr0, nesting>>
            /\ at' \in BootSteps => at \in BootSteps
            /\ printed' \in 0 .. Len(PanicText)
  BY <1>12 DEF MachineTypes
<1>13. CASE PanicStep
  <2>1. UNCHANGED <<kernel_page_table, cr0, nesting>> /\ at' \notin BootSteps
    BY <1>13 DEF PanicStep, PanicReset, PanicPrint, PanicPrinted, PanicHalt, machine,
      InterruptsDisable, panicVars, BootSteps, BeforeIdt
  <2>2. printed' \in 0 .. Len(PanicText)
    <3>1. CASE PanicPrint
      BY <3>1, PanicTextIs, KernelAssumption DEF PanicPrint, MachineTypes
    <3>2. CASE PanicReset \/ PanicPrinted \/ PanicHalt
      BY <1>1, <3>2 DEF PanicReset, PanicPrinted, PanicHalt, InterruptsDisable, panicVars,
        MachineTypes
    <3> QED  BY <1>13, <3>1, <3>2 DEF PanicStep
  <2> QED  BY <1>12, <2>1, <2>2
<1>14. CASE \/ at = "interrupts_disable" /\ InterruptsDisable("fpu_init")
            \/ KmainScreenClear \/ MemoryInitGdt \/ GdtSet \/ InterruptsInit \/ IdtSet
            \/ KmainSerialInit \/ SerialReturn \/ ConsoleCall \/ SerialCall \/ PanicCalled
            \/ UNCHANGED <<at, machine, panicVars>>
  BY <1>14 DEF MachineTypes, InterruptsDisable, KmainScreenClear, MemoryInitGdt, GdtSet,
    InterruptsInit, IdtSet, KmainSerialInit, SerialReturn, ConsoleCall, SerialCall,
    PanicCalled, machine, panicVars, BootSteps, BeforeIdt
<1> QED
  BY <1>3, <1>4, <1>5, <1>6, <1>7, <1>8, <1>9, <1>10, <1>11, <1>13, <1>14
  DEF KernelNext, KernelStep, KmainStep, kernelVars

\* Registers, page table and console keep their types, and no exception
\* strikes during boot without ending it.
THEOREM KernelTypeCorrect == KernelSpec => []KernelTypeOK
<1>1. KernelInit => MachineTypes
  <2>1. 0 \in 0 .. Len(PanicText) /\ MaxNesting \in Nat
    BY PanicTextIs, KernelAssumption
  <2> QED  BY <2>1 DEF KernelInit, MachineTypes
<1>2. KernelSpec => []MachineTypes
  BY <1>1, MachineTypesKept, PTL DEF KernelSpec
<1>3. KernelSpec => []ConsoleTypeOK
  BY KernelUsesConsole, ConsoleTypeCorrect, PTL
<1>4. MachineTypes /\ ConsoleTypeOK /\ SerialInv => KernelTypeOK
  BY DEF MachineTypes, SerialInv, KernelTypeOK
<1> QED  BY <1>2, <1>3, <1>4, SerialInvHolds, PTL
=============================================================================
