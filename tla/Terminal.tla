------------------------------ MODULE Terminal ------------------------------
(***************************************************************************)
(* The text terminal, terminal/terminal.c: output goes into a ring of      *)
(* lines addressed by absolute line numbers, of which the screen shows a   *)
(* window that can be scrolled.  Every function of its interface is an     *)
(* operator here that takes and returns the terminal's state; all of them  *)
(* render at the end, so the screen shows what Shown says.                 *)
(***************************************************************************)
EXTENDS Integers, Sequences

CONSTANTS TERM_WIDTH, TERM_OUTPUT_ROWS, TERM_SCROLLBACK_LINES

ASSUME TerminalAssumption ==
    /\ TERM_WIDTH \in Nat \ {0} /\ TERM_OUTPUT_ROWS \in Nat \ {0}
    /\ TERM_SCROLLBACK_LINES \in Nat /\ TERM_OUTPUT_ROWS <= TERM_SCROLLBACK_LINES

Space     == " "
LF == "LF"
CR == "CR"
BS == "BS"
BlankLine == [col \in 0 .. TERM_WIDTH - 1 |-> Space]
Slots     == 0 .. TERM_SCROLLBACK_LINES - 1

TerminalInit ==
    [lines |-> [s \in Slots |-> BlankLine],             \* g_lines
     total |-> 1, line |-> 0, col |-> 0,                \* g_total_lines, g_current_...
     offset |-> 0,                                      \* g_scroll_offset
     input |-> <<>>, cursor |-> 0]                      \* g_input, g_input_cursor

SlotOf(n) == n % TERM_SCROLLBACK_LINES

OneTooMany(t) ==                        \* broken: counts a line that is overwritten
    IF t.total > TERM_SCROLLBACK_LINES + 1 THEN t.total - TERM_SCROLLBACK_LINES - 1 ELSE 0

FirstLine(t) ==
    IF t.total > TERM_SCROLLBACK_LINES THEN t.total - TERM_SCROLLBACK_LINES ELSE 0

ClearLine(t, line) == [t EXCEPT !.lines[SlotOf(line)] = BlankLine]

Linefeed(t) ==
    ClearLine([t EXCEPT !.col = 0, !.line = @ + 1, !.total = t.line + 2, !.offset = 0], t.line + 1)

WriteCell(t, line, col, c) == [t EXCEPT !.lines[SlotOf(line)][col] = c]

\* At column 0 a character clears the line it starts, also after CR.
Advance(t, c) ==
    LET begun == IF t.col = 0 THEN ClearLine(t, t.line) ELSE t
        put   == [WriteCell(begun, t.line, t.col, c) EXCEPT !.col = t.col + 1]
    IN  IF put.col >= TERM_WIDTH THEN Linefeed(put) ELSE put

\* terminal_putc, and terminal_write for each of its characters
PutChar(t, c) ==
    CASE c = LF -> Linefeed(t)
      [] c = CR -> [t EXCEPT !.col = 0]
      [] c = BS -> IF t.col > 0 THEN [WriteCell(t, t.line, t.col - 1, Space) EXCEPT !.col = @ - 1]
                   ELSE t
      [] OTHER  -> Advance(t, c)

ClearScrollback(t) ==
    [TerminalInit EXCEPT !.input = t.input, !.cursor = t.cursor]

\* terminal_render, which also bounds the offset
Rendered(t) == [t EXCEPT !.offset = IF t.line < @ THEN t.line ELSE @]

InputCursor(t, cursor) == Rendered([t EXCEPT !.cursor = cursor])

SetInputLine(t, line, cursor) ==
    InputCursor([t EXCEPT !.input = line], IF cursor > Len(line) THEN Len(line) ELSE cursor)

ScrollLines(t, delta) ==
    LET max_off == t.line - FirstLine(t)
        moved   == t.offset + delta
        most    == IF moved > max_off THEN max_off ELSE moved
    IN  Rendered([t EXCEPT !.offset = IF most < 0 THEN 0 ELSE most])

\* terminal_render: the rows of output the screen shows
Shown(t) ==
    LET above == TERM_OUTPUT_ROWS - 1 + t.offset
        up    == IF t.line >= above THEN t.line - above ELSE 0
        top   == IF up < FirstLine(t) THEN FirstLine(t) ELSE up
    IN  [row \in 0 .. TERM_OUTPUT_ROWS - 1 |->
           IF top + row <= t.line THEN t.lines[SlotOf(top + row)] ELSE BlankLine]
=============================================================================
