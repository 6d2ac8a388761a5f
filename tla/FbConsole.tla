------------------------------ MODULE FbConsole ------------------------------
(***************************************************************************)
(* The framebuffer console, fb_console.c: a grid of cells in which output  *)
(* goes where the cursor is, and beside it the screen itself, on which     *)
(* glyphs and the mark of the cursor are drawn.  Nothing redraws the       *)
(* screen from the cells as a whole: each function draws what it changes.  *)
(* Every one is an operator on the console's state.  Beside that state,    *)
(* smeared says of how many rows from the top it is not known what the     *)
(* screen shows, because a character has been drawn into another one.      *)
(*                                                                         *)
(* Grids are taken to fit g_cells (MAX_FB_COLS by MAX_FB_ROWS), as all     *)
(* screens up to 8192 by 8192 pixels do with the font of the Makefile, and *)
(* to have two rows at least.                                              *)
(***************************************************************************)
EXTENDS Terminal, SequencesExt

CONSTANTS FB_COLS, FB_ROWS      \* g_cols, g_rows

ASSUME GridAssumption == FB_COLS \in Nat \ {0} /\ FB_ROWS \in Nat \ {0, 1}

GridRow == 0 .. FB_ROWS - 1
GridCol == 0 .. FB_COLS - 1
Bottom  == FB_ROWS - 1

BlankRow  == [col \in GridCol |-> Space]
Glyph(c)  == [glyph |-> c, mark |-> FALSE]
BlackRow  == [col \in GridCol |-> Glyph(Space)]

InGrid(x, y)         == x \in GridCol /\ y \in GridRow
CellGet(f, x, y)     == IF InGrid(x, y) THEN f.cells[y][x] ELSE Space
CellSet(f, x, y, c)  == IF InGrid(x, y) THEN [f EXCEPT !.cells[y][x] = c] ELSE f
DrawCell(f, x, y, c) == IF InGrid(x, y) THEN [f EXCEPT !.shown[y][x] = Glyph(c)] ELSE f

DrawCursor(f)  == IF InGrid(f.x, f.y) THEN [f EXCEPT !.shown[f.y][f.x].mark = TRUE] ELSE f
EraseCursor(f) == DrawCell(f, f.x, f.y, CellGet(f, f.x, f.y))

\* fb_init with the fb_clear in it
FbInit ==
    DrawCursor([cells |-> [row \in GridRow |-> BlankRow],
                shown |-> [row \in GridRow |-> BlackRow],
                x |-> 0, y |-> 0, smeared |-> 0])

\* The pixels and the cells move up a row, each with a memmove of its own.
ScrollPixels(f) ==
    [f EXCEPT !.shown = [row \in GridRow |-> IF row = Bottom THEN BlackRow ELSE f.shown[row + 1]],
              !.smeared = IF @ > 0 THEN @ - 1 ELSE 0]
ScrollCells(f) ==
    [f EXCEPT !.cells = [row \in GridRow |-> IF row = Bottom THEN BlankRow ELSE f.cells[row + 1]]]
ScrollUp(f) == [ScrollCells(ScrollPixels(f)) EXCEPT !.y = Bottom]

FbNewline(f) ==
    IF f.y + 1 >= FB_ROWS THEN ScrollUp([f EXCEPT !.x = 0]) ELSE [f EXCEPT !.x = 0, !.y = @ + 1]

BackInRow(f) ==                         \* broken: stops at the start of a row
    IF f.x > 0 THEN [f EXCEPT !.x = @ - 1] ELSE f

\* One back, to the end of the row above if need be.
Back(f) ==
    IF f.x > 0 THEN [f EXCEPT !.x = @ - 1]
    ELSE IF f.y > 0 THEN [f EXCEPT !.x = FB_COLS - 1, !.y = @ - 1]
    ELSE f

PutCell(f, c) == CellSet(DrawCell(f, f.x, f.y, c), f.x, f.y, c)

Forward(f) ==
    IF f.x + 1 >= FB_COLS THEN FbNewline(f) ELSE [f EXCEPT !.x = @ + 1]

FbPutChar(f, c) ==
    LET g == EraseCursor(f)
    IN  DrawCursor(CASE c = CR -> [g EXCEPT !.x = 0]
                     [] c = LF -> FbNewline(g)
                     [] c = BS -> PutCell(Back(g), Space)
                     [] OTHER  -> Forward(PutCell(g, c)))

FbPrint(f, text) == FoldLeft(FbPutChar, f, text)
=============================================================================
