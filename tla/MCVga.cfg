SPECIFICATION VgaSpec
CONSTANTS
    VGA_COLS = 4
    VGA_ROWS = 3
    TAB = 2
    Glyph = {x}
    Blank = Blank
    COL_MAX = 8
    Controls <- MCControls
INVARIANTS
    VgaTypeOK
    BeyondTextBlank
    TabsCrossLines
