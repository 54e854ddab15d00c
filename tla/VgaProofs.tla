------------------------------ MODULE VgaProofs ------------------------------
(***************************************************************************)
(* Proofs about the text console, for every size of the screen, every       *)
(* distance of the tab stops and however far tabs carry the column.          *)
(***************************************************************************)
EXTENDS Vga, TLAPS

\* How far the tabs since column 0 can have carried the column.
TabsReach == vga_col < VGA_COLS + TAB * tabs

\* The inductive invariant.
VgaInv == VgaTypeOK /\ BeyondTextBlank /\ TabsReach

\* Rows lie one behind the other in the text buffer.
LEMMA RowFacts ==
    /\ VGA_COLS \in Nat \ {0} /\ VGA_ROWS \in Nat \ {0} /\ COL_MAX \in Nat
    /\ Cells \in Nat
    /\ \A row \in 0 .. (VGA_ROWS - 1) :
          /\ row * VGA_COLS \in Nat /\ row * VGA_COLS + VGA_COLS <= Cells
          /\ (VGA_ROWS - row) * VGA_COLS = Cells - row * VGA_COLS
<1>1. VGA_COLS \in Nat \ {0} /\ VGA_ROWS \in Nat \ {0} /\ COL_MAX \in Nat
  BY VgaAssumption
<1>2. Cells \in Nat
  BY <1>1 DEF Cells
<1>3. ASSUME NEW row \in 0 .. (VGA_ROWS - 1)
      PROVE  /\ row * VGA_COLS \in Nat /\ row * VGA_COLS + VGA_COLS <= Cells
             /\ (VGA_ROWS - row) * VGA_COLS = Cells - row * VGA_COLS
  <2>1. \A a, b, c \in Nat : a < b => a * c \in Nat /\ a * c + c <= c * b
    OBVIOUS
  <2>2. \A a, b, c \in Int : (b - a) * c = c * b - a * c
    OBVIOUS
  <2>3. row \in Nat /\ row < VGA_ROWS
    BY <1>1
  <2> QED BY <1>1, <2>1, <2>2, <2>3 DEF Cells
<1> QED BY <1>1, <1>2, <1>3

\* The end of vga_putc: the row is on the screen again, and what has scrolled out of
\* sight leaves blank cells behind the text.
LEMMA FinishKeeps ==
    ASSUME NEW row \in 0 .. VGA_ROWS, NEW col \in 0 .. COL_MAX,
           NEW mem \in [Memory -> Glyph \cup {Blank}],
           NEW text \in 0 .. (Cells + COL_MAX + 1),
           tabs' \in 0 .. COL_MAX, col < VGA_COLS + TAB * tabs',
           \A i \in Memory : i >= text /\ i < Cells => mem[i] = Blank,
           Finish(row, col, mem, text)
    PROVE  VgaInv'
<1>1. /\ VGA_COLS \in Nat \ {0} /\ VGA_ROWS \in Nat \ {0} /\ COL_MAX \in Nat /\ Cells \in Nat
      /\ row \in Nat /\ col \in Nat /\ text \in Nat /\ VGA_COLS <= Cells
  <2>1. 0 \in 0 .. (VGA_ROWS - 1) /\ 0 * VGA_COLS = 0
    BY RowFacts
  <2> QED BY <2>1, RowFacts
<1>2. Memory = 0 .. (Cells + COL_MAX)
  BY DEF Memory
<1>3. vga_row' \in 0 .. (VGA_ROWS - 1)
  BY <1>1 DEF Finish, OffScreen
<1>4. cursor' \in Memory
  <2>1. cursor' = vga_row' * VGA_COLS + col
    BY DEF Finish
  <2>2. PICK b \in Nat : b = vga_row' * VGA_COLS /\ b + VGA_COLS <= Cells
    BY <1>3, RowFacts
  <2> QED BY <1>1, <1>2, <2>1, <2>2
<1>5. CASE ~OffScreen(row)
  <2>1. screen' = mem /\ furthest' = text /\ vga_col' = col
    BY <1>5 DEF Finish
  <2> QED BY <1>3, <1>4, <2>1 DEF VgaInv, VgaTypeOK, BeyondTextBlank, TabsReach
<1>6. CASE OffScreen(row)
  <2>1. /\ screen' = Scrolled(mem) /\ vga_col' = col
        /\ furthest' = IF text > VGA_COLS THEN text - VGA_COLS ELSE 0
    BY <1>1, <1>6 DEF Finish
  <2>2. \A i \in Memory :
           screen'[i] = IF i < Cells - VGA_COLS THEN mem[i + VGA_COLS]
                        ELSE IF i < Cells THEN Blank ELSE mem[i]
    BY <1>1, <1>2, <2>1 DEF Scrolled
  <2>3. \A i \in Memory : i < Cells - VGA_COLS => i + VGA_COLS \in Memory
    BY <1>1, <1>2
  <2>4. screen' \in [Memory -> Glyph \cup {Blank}]
    <3>1. \A i \in Memory : screen'[i] \in Glyph \cup {Blank}
      BY <2>2, <2>3
    <3>2. screen' = [i \in Memory |-> screen'[i]]
      <4> DEFINE cell(i) == CASE i < Cells - VGA_COLS -> mem[i + VGA_COLS]
                              [] i >= Cells - VGA_COLS /\ i < Cells -> Blank
                              [] i >= Cells -> mem[i]
      <4>1. screen' = [i \in Memory |-> cell(i)]
        BY <2>1, Zenon DEF Scrolled
      <4> HIDE DEF cell
      <4> QED BY <4>1, Zenon
    <3> QED BY <3>1, <3>2
  <2>5. furthest' \in 0 .. (Cells + COL_MAX + 1)
    BY <1>1, <2>1
  <2>6. ASSUME NEW i \in Memory, i >= furthest', i < Cells PROVE screen'[i] = Blank
    <3>1. CASE i < Cells - VGA_COLS
      <4>1. i + VGA_COLS \in Memory /\ i + VGA_COLS >= text /\ i + VGA_COLS < Cells
        BY <1>1, <1>2, <2>1, <2>6, <3>1
      <4> QED BY <2>2, <3>1, <4>1
    <3>2. CASE ~(i < Cells - VGA_COLS)
      BY <2>2, <2>6, <3>2
    <3> QED BY <3>1, <3>2
  <2> QED BY <1>3, <1>4, <2>1, <2>4, <2>5, <2>6 DEF VgaInv, VgaTypeOK, BeyondTextBlank, TabsReach
<1> QED BY <1>5, <1>6

\* A tab carries the column on by at most the width of a tab stop.
LEMMA TabStopNear ==
    ASSUME NEW col \in Nat
    PROVE  TabStop(col) \in Nat /\ TabStop(col) > 0 /\ TabStop(col) <= col + TAB
<1>1. TAB \in Nat \ {0}
  BY VgaAssumption
<1>2. \A x \in Nat, t \in Nat \ {0} : x >= t =>
        /\ x \div t \in Nat /\ x \div t > 0
        /\ (x \div t) * t \in Nat /\ (x \div t) * t > 0 /\ (x \div t) * t <= x
  OBVIOUS
<1> QED BY <1>1, <1>2 DEF TabStop

\* A tab, a return, a new line or a backspace stores nothing; only a tab moves the
\* column to the right.
LEMMA ControlKeeps ==
    ASSUME VgaInv, NEW k \in Controls, Control(k)
    PROVE  VgaInv'
<1>1. vga_row \in Nat /\ vga_row < VGA_ROWS /\ vga_col \in Nat
  BY RowFacts DEF VgaInv, VgaTypeOK
<1>2. ColumnAfter(k) \in 0 .. COL_MAX
  <2>1. TabStop(vga_col) \in Nat
    BY <1>1, TabStopNear
  <2>2. ColumnAfter(k) \in Nat
    BY <1>1, <2>1 DEF ColumnAfter
  <2> QED BY <2>2, RowFacts DEF Control
<1>3. PICK row \in 0 .. VGA_ROWS : row = IF k = "newline" THEN vga_row + 1 ELSE vga_row
  BY <1>1, RowFacts
<1>4. Finish(row, ColumnAfter(k), screen, furthest)
  BY <1>3 DEF Control
<1>5. /\ screen \in [Memory -> Glyph \cup {Blank}] /\ furthest \in 0 .. (Cells + COL_MAX + 1)
      /\ \A i \in Memory : i >= furthest /\ i < Cells => screen[i] = Blank
  BY DEF VgaInv, VgaTypeOK, BeyondTextBlank
<1>6. TAB \in Nat /\ TAB > 0 /\ tabs \in Nat /\ tabs <= COL_MAX /\ vga_col <= COL_MAX
  BY VgaAssumption, RowFacts DEF VgaInv, VgaTypeOK
<1>7. PICK carried \in Nat : carried = TAB * tabs /\ carried >= tabs
                           /\ TAB * (tabs + 1) = carried + TAB
  <2>1. \A t, n \in Nat : t > 0 => /\ t * n \in Nat /\ t * n >= n
                                   /\ t * (n + 1) = t * n + t
    OBVIOUS
  <2> QED BY <1>6, <2>1
<1>8. vga_col < VGA_COLS + carried
  BY <1>7 DEF VgaInv, TabsReach
<1>9. tabs' \in 0 .. COL_MAX /\ ColumnAfter(k) < VGA_COLS + TAB * tabs'
  <2>1. CASE ColumnAfter(k) = 0
    <3>1. tabs' = 0
      <4>1. k # "tab"
        BY <1>1, <2>1, TabStopNear DEF ColumnAfter
      <4> QED BY <2>1, <4>1 DEF Control
    <3> QED BY <1>6, <2>1, <3>1, RowFacts
  <2>2. CASE ColumnAfter(k) # 0 /\ k = "tab" /\ TAB * tabs < COL_MAX
    <3>1. tabs' = tabs + 1
      BY <2>2 DEF Control
    <3>2. ColumnAfter(k) <= vga_col + TAB
      BY <1>1, <2>2, TabStopNear DEF ColumnAfter
    <3> QED BY <1>1, <1>2, <1>6, <1>7, <1>8, <2>2, <3>1, <3>2, RowFacts
  <2>3. CASE ColumnAfter(k) # 0 /\ k = "tab" /\ ~(TAB * tabs < COL_MAX)
    <3>1. tabs' = tabs
      BY <2>3 DEF Control
    <3> QED BY <1>2, <1>6, <1>7, <2>3, <3>1, RowFacts
  <2>4. CASE ColumnAfter(k) # 0 /\ k # "tab"
    <3>1. tabs' = tabs /\ ColumnAfter(k) = vga_col - 1
      BY <2>4 DEF Control, ColumnAfter
    <3> QED BY <1>1, <1>6, <1>7, <1>8, <3>1, RowFacts
  <2> QED BY <2>1, <2>2, <2>3, <2>4
<1> QED BY <1>2, <1>4, <1>5, <1>9, FinishKeeps

\* A character goes where the row and the column say, inside the memory.
LEMMA StoreKeeps ==
    ASSUME VgaInv, NEW c \in Glyph, Store(c)
    PROVE  VgaInv'
<1> DEFINE p == vga_row * VGA_COLS + vga_col
           mem == [screen EXCEPT ![p] = c]
           text == IF p < furthest THEN furthest ELSE p + 1
<1>1. vga_row \in 0 .. (VGA_ROWS - 1) /\ vga_row \in Nat /\ vga_row < VGA_ROWS
      /\ vga_col \in Nat /\ vga_col <= COL_MAX
      /\ furthest \in Nat /\ furthest <= Cells + COL_MAX + 1
  BY RowFacts DEF VgaInv, VgaTypeOK
<1>2. p \in Memory /\ p \in Nat /\ p < Cells + COL_MAX
  <2>1. PICK b \in Nat : b = vga_row * VGA_COLS /\ b + VGA_COLS <= Cells
    BY <1>1, RowFacts
  <2> QED BY <1>1, <2>1, RowFacts DEF Memory
<1>3. PICK row \in 0 .. VGA_ROWS, col \in 0 .. COL_MAX :
         /\ Finish(row, col, mem, text)
         /\ tabs' \in 0 .. COL_MAX /\ col < VGA_COLS + TAB * tabs'
  <2>0. TAB \in Nat /\ tabs \in 0 .. COL_MAX /\ TAB * tabs \in Nat /\ TAB * 0 = 0
    BY VgaAssumption DEF VgaInv, VgaTypeOK
  <2>1. CASE vga_col + 1 >= VGA_COLS
    <3>1. tabs' = 0 /\ Finish(vga_row + 1, 0, mem, text)
      BY <2>1 DEF Store, LineFull
    <3>2. vga_row + 1 \in 0 .. VGA_ROWS /\ 0 \in 0 .. COL_MAX /\ 0 < VGA_COLS + TAB * tabs'
      BY <1>1, <2>0, <3>1, RowFacts
    <3> QED BY <3>1, <3>2
  <2>2. CASE ~(vga_col + 1 >= VGA_COLS)
    <3>1. tabs' = tabs /\ Finish(vga_row, vga_col + 1, mem, text)
      BY <2>2 DEF Store, LineFull
    <3>2. vga_row \in 0 .. VGA_ROWS /\ vga_col + 1 \in 0 .. COL_MAX
      BY <1>1, <2>2, RowFacts, VgaAssumption
    <3>3. vga_col + 1 < VGA_COLS + TAB * tabs'
      BY <1>1, <2>0, <2>2, <3>1, RowFacts
    <3> QED BY <2>0, <3>1, <3>2, <3>3
  <2> QED BY <2>1, <2>2
<1> HIDE DEF p
<1>4. mem \in [Memory -> Glyph \cup {Blank}] /\ mem[p] = c
      /\ \A i \in Memory : i # p => mem[i] = screen[i]
  BY <1>2 DEF VgaInv, VgaTypeOK
<1>5. text \in 0 .. (Cells + COL_MAX + 1) /\ p < text /\ furthest <= text /\ text \in Nat
  BY <1>1, <1>2, RowFacts
<1> HIDE DEF mem, text
<1>6. \A i \in Memory : i >= text /\ i < Cells => mem[i] = Blank
  <2> SUFFICES ASSUME NEW i \in Memory, i >= text, i < Cells PROVE mem[i] = Blank
    OBVIOUS
  <2>1. i # p /\ i >= furthest
    BY <1>1, <1>2, <1>5, RowFacts DEF Memory
  <2> QED BY <1>4, <2>1 DEF VgaInv, BeyondTextBlank
<1> QED BY <1>3, <1>4, <1>5, <1>6, FinishKeeps

-----------------------------------------------------------------------------
(* Theorems *)

\* Row, column and cursor stay where the code may use them, whatever is printed, the
\* screen is blank behind the text, and the column is within reach of the tabs.
THEOREM VgaInvariant == VgaSpec => []VgaInv
<1>1. VgaInit => VgaInv
  BY RowFacts, VgaAssumption DEF VgaInit, VgaInv, VgaTypeOK, BeyondTextBlank, TabsReach, Memory
<1>2. VgaInv /\ [VgaNext]_vgaVars => VgaInv'
  <2> SUFFICES ASSUME VgaInv, [VgaNext]_vgaVars PROVE VgaInv'
    OBVIOUS
  <2>1. CASE UNCHANGED vgaVars
    BY <2>1 DEF vgaVars, VgaInv, VgaTypeOK, BeyondTextBlank, TabsReach
  <2> QED BY <2>1, ControlKeeps, StoreKeeps DEF VgaNext
<1> QED BY <1>1, <1>2, PTL DEF VgaSpec

\* The row is always a row of the screen: vga_putc scrolls before it leaves it.
THEOREM VgaTypeCorrect == VgaSpec => []VgaTypeOK
<1>1. VgaInv => VgaTypeOK
  BY DEF VgaInv
<1> QED BY <1>1, VgaInvariant, PTL

\* vga_scroll leaves nothing of an older line behind the text.
THEOREM BlankBehindText == VgaSpec => []BeyondTextBlank
<1>1. VgaInv => BeyondTextBlank
  BY DEF VgaInv
<1> QED BY <1>1, VgaInvariant, PTL

\* Text crosses the ends of lines, and of the buffer, only as far as the tabs since
\* column 0 reach, for every screen, every tab width and any output.
THEOREM TabsAloneCross == VgaSpec => []TabsCrossLines
<1>1. VgaInv => TabsCrossLines
  <2> SUFFICES ASSUME VgaInv, NEW n \in 1 .. COL_MAX, vga_col >= n * VGA_COLS
               PROVE  TAB * tabs > (n - 1) * VGA_COLS
    BY DEF TabsCrossLines
  <2>1. /\ n \in Nat /\ VGA_COLS \in Nat /\ vga_col \in Nat
        /\ TAB * tabs \in Nat /\ vga_col < VGA_COLS + TAB * tabs
    BY RowFacts, VgaAssumption DEF VgaInv, VgaTypeOK, TabsReach
  <2>2. \A a, b \in Nat : (a - 1) * b = a * b - b /\ a * b \in Nat
    OBVIOUS
  <2>3. PICK b \in Nat : b = n * VGA_COLS /\ (n - 1) * VGA_COLS = b - VGA_COLS
    BY <2>1, <2>2
  <2> QED BY <2>1, <2>3
<1> QED BY <1>1, VgaInvariant, PTL
=============================================================================
