-------------------------------- MODULE Vga --------------------------------
(***************************************************************************)
(* The text console (kernel/arch/x86_64/vga.c): the screen memory, the      *)
(* software cursor and the hardware cursor.  kprintf and SYS_WRITE print    *)
(* one character after the other through vga_putc.                          *)
(***************************************************************************)
EXTENDS Integers

CONSTANTS VGA_COLS, VGA_ROWS,  \* 80 and 25
          TAB,                 \* distance of the tab stops: 8
          Glyph, Blank,        \* printable characters, and the space of vga_clear
          Controls,            \* control characters that are printed
          COL_MAX              \* bound: no tab goes beyond this column

ASSUME VgaAssumption == /\ VGA_COLS \in Nat \ {0} /\ VGA_ROWS \in Nat \ {0}
                        /\ TAB \in Nat \ {0} /\ VGA_COLS % TAB = 0
                        /\ Blank \notin Glyph
                        /\ Controls \subseteq {"newline", "return", "tab", "backspace"}
                        /\ COL_MAX \in Nat /\ COL_MAX >= VGA_COLS - 1

VARIABLES vga_row, vga_col,  \* where the next character goes
          screen,            \* the memory from 0xB8000 on
          cursor,            \* the position last sent to the CRT controller
          furthest,          \* history: no cell of the text lies at this place or behind it
          tabs               \* history: the tabs printed since the column was last 0, as
                             \* far as they matter below COL_MAX

vgaVars == <<vga_row, vga_col, screen, cursor, furthest, tabs>>

Cells == VGA_COLS * VGA_ROWS

\* The memory at 0xB8000 goes on after the last cell that is displayed.
Memory == 0 .. (Cells + COL_MAX)

\* vga_init, vga_clear
VgaInit ==
    /\ vga_row = 0 /\ vga_col = 0
    /\ screen = [i \in Memory |-> Blank]
    /\ cursor = 0 /\ furthest = 0 /\ tabs = 0

\* Mutant: the last line is not cleared.
ScrolledOver(mem) ==
    [i \in Memory |-> IF i < Cells - VGA_COLS THEN mem[i + VGA_COLS] ELSE mem[i]]

\* vga_scroll moves every line up and clears the last one.
Scrolled(mem) ==
    [i \in Memory |-> CASE i < Cells - VGA_COLS -> mem[i + VGA_COLS]
                        [] i >= Cells - VGA_COLS /\ i < Cells -> Blank
                        [] i >= Cells -> mem[i]]

\* Mutant: the screen scrolls one line too late.
OffScreenLate(row) == row > VGA_ROWS

OffScreen(row) == row >= VGA_ROWS

\* The end of vga_putc: scroll when the row has left the screen, and move the
\* hardware cursor.  text is where the text ends before the scrolling.
Finish(row, col, mem, text) ==
    LET full == OffScreen(row)
        last == IF full THEN VGA_ROWS - 1 ELSE row
    IN  /\ screen' = IF full THEN Scrolled(mem) ELSE mem
        /\ vga_row' = last
        /\ vga_col' = col
        /\ cursor' = last * VGA_COLS + col
        /\ furthest' = CASE ~full -> text
                          [] full /\ text > VGA_COLS -> text - VGA_COLS
                          [] full /\ text <= VGA_COLS -> 0

\* The tab stop after a column, (vga_col + 8) & ~7.  Nothing wraps it: it may be
\* VGA_COLS, and every further tab goes on from there.
TabStop(col) == ((col + TAB) \div TAB) * TAB

\* The column after a control character; a new line and a return go to column 0,
\* a backspace stops there.
ColumnAfter(k) == CASE k = "tab" -> TabStop(vga_col)
                    [] k = "backspace" /\ vga_col > 0 -> vga_col - 1
                    [] OTHER -> 0

Control(k) ==
    /\ ColumnAfter(k) <= COL_MAX
    /\ Finish(IF k = "newline" THEN vga_row + 1 ELSE vga_row, ColumnAfter(k), screen, furthest)
    /\ tabs' = CASE ColumnAfter(k) = 0 -> 0
                 [] k = "tab" /\ TAB * tabs < COL_MAX -> tabs + 1
                 [] OTHER -> tabs

\* Mutant: a line takes one character more than it has columns.
LineFullLate(col) == col > VGA_COLS

LineFull(col) == col >= VGA_COLS

\* A printable character is stored and the cursor moves on, to the next line
\* from the last column.
Store(c) ==
    LET i == vga_row * VGA_COLS + vga_col
        mem == [screen EXCEPT ![i] = c]
        text == IF i < furthest THEN furthest ELSE i + 1
    IN  IF LineFull(vga_col + 1) THEN tabs' = 0 /\ Finish(vga_row + 1, 0, mem, text)
                                 ELSE tabs' = tabs /\ Finish(vga_row, vga_col + 1, mem, text)

VgaNext == \/ \E k \in Controls : Control(k)
           \/ \E c \in Glyph : Store(c)

VgaSpec == VgaInit /\ [][VgaNext]_vgaVars

-----------------------------------------------------------------------------
\* Every variable holds a value the code can give it.
VgaTypeOK ==
    /\ vga_row \in 0 .. (VGA_ROWS - 1)
    /\ vga_col \in 0 .. COL_MAX
    /\ screen \in [Memory -> Glyph \cup {Blank}]
    /\ cursor \in Memory
    /\ furthest \in 0 .. (Cells + COL_MAX + 1)
    /\ tabs \in 0 .. COL_MAX

\* The screen is blank behind the text: whatever order of tabs, returns and new lines
\* the text came in, scrolling leaves nothing of an older line behind, and neither
\* does a line that a tab has carried over its end.
BeyondTextBlank == \A i \in Memory : i >= furthest /\ i < Cells => screen[i] = Blank

\* Text leaves its line by tabs alone, and only as far as they carry it: the next
\* character goes n lines below the row of the cursor (behind the 80 x 25 cells, when
\* the screen has no such line) only after tabs that are together wider than n - 1
\* lines.  Without a tab every line is wrapped at its end, whatever returns,
\* backspaces and scrolls came before; behind the buffer from row r takes more than
\* (VGA_ROWS - 1 - r) * VGA_COLS / TAB tabs since the column was last 0.
TabsCrossLines ==
    \A n \in 1 .. COL_MAX : vga_col >= n * VGA_COLS => TAB * tabs > (n - 1) * VGA_COLS
=============================================================================
