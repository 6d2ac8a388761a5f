----------------------------- MODULE InputProps -----------------------------
(***************************************************************************)
(* What must hold between the keyboard and the screen, Input.tla.          *)
(***************************************************************************)
EXTENDS Input

Cells == Chars \cup {Space}
Rows  == [0 .. TERM_WIDTH - 1 -> Cells]
LinesOf(chars) == UNION {[1 .. n -> chars] : n \in 0 .. SHELL_LINE_MAX - 1}

\* The lines and the 0 behind each of them fit, and the indices fit the lines.
EditorOK ==
    /\ g_line \in LinesOf(Chars \cup {NUL}) /\ g_cursor \in 0 .. SHELL_LINE_MAX
    /\ g_cursor > Len(g_line) => main \in {"cursor", "lost"}
    /\ g_history \in Seq(LinesOf(Chars)) /\ Len(g_history) <= SHELL_HISTORY_MAX
    /\ g_hist_index \in -1 .. Len(g_history) - 1

FbSteps   == {"erase", "draw", "set", "right", "home", "down", "lift", "move", "bottom", "mark"}
TermSteps == {"clear", "write", "right", "home", "next", "total", "wipe", "latest"}

\* Where a cursor is just outside while a character is printed.
BootOK ==
    /\ main \in {"greet", "len", "cursor", "mode", "redraw", "store", "place", "prompt", "lost"}
    /\ IsSuffix(todo, IF main = "greet" THEN session.greeting ELSE PROMPT)
    /\ \/ putc = NoChar
       \/ /\ putc.step \in IF session.framebuffer THEN FbSteps ELSE TermSteps
          /\ putc.c \in Cells \cup {LF} \cup Range(PROMPT) /\ putc.hit \in BOOLEAN
    /\ args \in [len : 0 .. SHELL_LINE_MAX - 1, cursor : 0 .. SHELL_LINE_MAX - 1]
    /\ torn \in BOOLEAN /\ strayed \in BOOLEAN /\ early \in Nat

ConsolesOK ==
    /\ term \in [lines : [Slots -> Rows], total : Nat, line : Nat, col : 0 .. TERM_WIDTH,
                 offset : Nat, input : LinesOf(Chars \cup {NUL}), cursor : Nat]
    /\ term.col = TERM_WIDTH => ~session.framebuffer /\ putc.step = "home"
    /\ fb.x \in 0 .. FB_COLS /\ fb.y \in 0 .. FB_ROWS
    /\ fb.x = FB_COLS => session.framebuffer /\ putc.step = "home"
    /\ fb.y = FB_ROWS => session.framebuffer /\ putc.step \in {"lift", "move", "bottom"}
    /\ fb.cells \in [GridRow -> [GridCol -> Cells \cup Range(PROMPT)]]
    /\ fb.smeared \in 0 .. FB_ROWS

TypeOK ==
    /\ EditorOK /\ BootOK /\ ConsolesOK
    /\ session \in Sessions
    /\ wire \in BOOLEAN /\ g_e0 \in BOOLEAN /\ g_mods \subseteq Modifiers
    /\ g_simple_mode \in BOOLEAN /\ executing \in BOOLEAN

(***************************************************************************)
(* The history never has one line twice in a row, also after it has been   *)
(* full and its lines have moved down (history_store), nor an empty line.  *)
(* Only a key that came between the assignments of shell_init can bring an *)
(* empty line there, one that begins with the 0 of its first assignment.   *)
(***************************************************************************)
HistoryDistinct ==
    \A i \in DOMAIN g_history :
        /\ g_history[i] = <<>> => strayed
        /\ i > 1 => g_history[i] # g_history[i - 1]

(***************************************************************************)
(* Outside simple mode, what the input row is drawn from is the line being *)
(* edited, with its cursor, whenever the shell is waiting for a key: after *)
(* editing, browsing, scrolling and commands.  This is so before           *)
(* shell_init too, while kmain prints, and after it; a key that came while *)
(* shell_init was at work, which then stored an older state of the line    *)
(* over the newer one, spoils it until the next Enter at the latest.       *)
(***************************************************************************)
InputShown ==
    ~executing /\ ~g_simple_mode /\ ~torn /\ main \in {"greet", "prompt"}
        => term.input = g_line /\ term.cursor = g_cursor

(***************************************************************************)
(* On the framebuffer console, the screen shows the cells and one mark,    *)
(* at the cursor, although it is drawn piecemeal, whenever kmain is not in *)
(* the middle of a character.  What a key has printed into the middle of   *)
(* one of kmain's characters, which interrupts do not wait for, can leave  *)
(* stale glyphs and marks in the rows that are on the screen then, and     *)
(* nowhere else: they leave it with these rows.                            *)
(*                                                                         *)
(* While the shell waits for a key the text up to the mark ends with the   *)
(* prompt and the line being edited, as far as it has not left the screen, *)
(* through output, line wraps, scrolling, and erasing across the end of a  *)
(* row, and the cursor in the line is at its end, the only place where     *)
(* keys act.  A key while shell_init runs, whose edit it then forgets in   *)
(* part or which prints into the prompt, spoils that, until the next Enter *)
(* at the latest.                                                          *)
(***************************************************************************)
ScreenShowsCells ==
    putc = NoChar =>
        \A row \in fb.smeared .. Bottom, col \in GridCol :
            fb.shown[row][col] = [glyph |-> fb.cells[row][col], mark |-> row = fb.y /\ col = fb.x]

TextToMark ==
    [i \in 1 .. fb.y * FB_COLS + fb.x |-> fb.cells[(i - 1) \div FB_COLS][(i - 1) % FB_COLS]]

ScreenShown ==
    /\ ScreenShowsCells
    /\ ~executing /\ g_simple_mode /\ Waiting /\ ~torn =>
          /\ g_cursor = Len(g_line)
          /\ \/ IsSuffix(TextToMark, PROMPT \o g_line)
             \/ IsSuffix(PROMPT \o g_line, TextToMark)

(***************************************************************************)
(* The ring of lines and the offset implement a scrollback of the last     *)
(* TERM_SCROLLBACK_LINES lines: no line in the window or reachable by      *)
(* scrolling is one that has been overwritten, and none is missing.  A     *)
(* character that kmain is printing counts as printed when it has begun.   *)
(* Excepted is the rest of a character into which a key has printed, and   *)
(* when that has left the count of lines wrong, what follows up to the     *)
(* next line feed, which counts them anew.                                 *)
(***************************************************************************)
Wrapped(t) == IF t.col >= TERM_WIDTH THEN Linefeed(t) ELSE t
Rest(t, c, step) ==                     \* when the rest of a character is printed
    LET right(u) == Wrapped([u EXCEPT !.col = @ + 1])
        latest(u) == [u EXCEPT !.offset = 0]
    IN  CASE step = "clear"  -> Advance(t, c)
          [] step = "write"  -> right(WriteCell(t, t.line, t.col, c))
          [] step = "right"  -> right(t)
          [] step \in {"home", "next"} -> Linefeed(t)
          [] step = "total"  -> latest(ClearLine([t EXCEPT !.total = t.line + 1], t.line))
          [] step = "wipe"   -> latest(ClearLine(t, t.line))
          [] step = "latest" -> latest(t)

Settled == IF session.framebuffer \/ putc = NoChar THEN term ELSE Rest(term, putc.c, putc.step)

S == INSTANCE Scrollback WITH
        LINES  <- TERM_SCROLLBACK_LINES,
        ROWS   <- TERM_OUTPUT_ROWS,
        Texts  <- Rows,
        Empty  <- BlankLine,
        lines  <- [i \in 1 .. Settled.line - FirstLine(Settled) + 1 |->
                     Settled.lines[SlotOf(FirstLine(Settled) + i - 1)]],
        window <- Shown(Settled)

Spoilt == ~session.framebuffer /\ (IF putc = NoChar THEN term.total # term.line + 1 ELSE putc.hit)

ImplementsScrollback == S!Init /\ [][Spoilt \/ Spoilt' \/ S!Next]_(S!vars)
=============================================================================
