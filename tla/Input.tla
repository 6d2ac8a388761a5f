-------------------------------- MODULE Input --------------------------------
(***************************************************************************)
(* From the keyboard to the screen: the scan code decoder of               *)
(* input/keyboard.c, the line editor and history of shell/shell.c, and the *)
(* terminal or framebuffer console they draw on, which console.c chooses   *)
(* between.  A scan code is one interrupt and one step;                    *)
(* Enter runs a command inside that interrupt, whose output comes one      *)
(* character at a time while no other key is handled.                      *)
(*                                                                         *)
(* kmain enables interrupts before it prints its last lines and calls      *)
(* shell_init.  It is the only code a key can interrupt, and does so       *)
(* between any two of its steps: every assignment of shell_init and every  *)
(* piece of a character that it prints is a step of its own.  What such a  *)
(* piece takes from the cursor may have been read at the call or only now. *)
(***************************************************************************)
EXTENDS FbConsole, FiniteSetsExt

CONSTANTS
    SHELL_LINE_MAX, SHELL_HISTORY_MAX,
    SCROLL_STEP,        \* 8 lines
    PROMPT,             \* "ronin> "
    Chars,              \* the characters typed, among them Space
    Sessions,           \* what is typed and printed, and where, see InputAssumption
    MAX_LINES           \* bound: lines of output in a behaviour

NUL == "NUL"

\* Neither what is typed nor the prompt has control characters: Enter and
\* Backspace are keys of their own.
ASSUME InputAssumption ==
    /\ SHELL_LINE_MAX \in Nat \ {0} /\ SHELL_HISTORY_MAX \in Nat \ {0}
    /\ SCROLL_STEP \in Nat
    /\ PROMPT \in Seq(Range(PROMPT))
    /\ {NUL, LF, CR, BS} \cap (Chars \cup Range(PROMPT)) = {}
    /\ \A s \in Sessions :
          /\ s.framebuffer \in BOOLEAN
          /\ s.greeting \in Seq(Chars \cup {LF})   \* what kmain prints before shell_init
          /\ s.early \in Nat                       \* bound: keys and output while kmain runs

VARIABLES
    session,
    wire,               \* the keyboard has sent a prefix and will send its code
    g_mods, g_e0,       \* the modifiers held and "the next code is extended"
    g_line, g_cursor,
    g_history, g_hist_index,
    g_simple_mode,      \* set by shell_init when the framebuffer is the console
    main,               \* how far kmain is
    todo,               \* what it has yet to print
    putc,               \* the character it is printing
    args,               \* the arguments of its redraw_input
    torn,               \* a key came where kmain may spoil what it did
    strayed,            \* a key came where the line has no valid content
    early,              \* how many keys and characters came while kmain ran
    executing,          \* inside shell_execute_line
    term, fb

keyboard == <<wire, g_mods, g_e0>>
shell    == <<g_line, g_cursor, g_history, g_hist_index, executing>>
screens  == <<term, fb>>
booting  == <<g_simple_mode, main, todo, args>>
marks    == <<torn, strayed, early>>
vars     == <<session, keyboard, shell, booting, putc, marks, screens>>

Modifiers == {"shift", "ctrl"}
Navigation == {"up", "down", "home", "end", "pageup", "pagedown"}
ExtendedKeys == Navigation \cup {"left", "right", "delete"}     \* after a prefix
PlainKeys == Navigation \cup Chars \cup {"enter", "backspace"}  \* keypad keys need none

NoChar == [step |-> "none"]

\* kmain waits for interrupts and does nothing else.
Waiting == main = "prompt" /\ todo = <<>> /\ putc = NoChar

-----------------------------------------------------------------------------
(* console_putc and console_print: output goes to one of the two.          *)

ConsolePrint(text) ==
    IF session.framebuffer THEN fb' = FbPrint(fb, text) /\ UNCHANGED term
    ELSE term' = FoldLeft(PutChar, term, text) /\ UNCHANGED fb

\* What kmain has of a character to print is no longer up to date.
OutputOf(t) == [t EXCEPT !.input = <<>>, !.cursor = 0]
Disturb ==
    LET same == IF session.framebuffer THEN fb' = fb ELSE OutputOf(term') = OutputOf(term)
    IN  putc' = IF same \/ putc = NoChar THEN putc ELSE [putc EXCEPT !.hit = TRUE]

-----------------------------------------------------------------------------
(* The line editor.                                                        *)

Line(line, cursor) == g_line' = line /\ g_cursor' = cursor

\* Where Ctrl and an arrow take the cursor.
WordLeft ==
    LET last == Max({0} \cup {i \in 1 .. g_cursor : g_line[i] # Space})
    IN  Max({0} \cup {i \in 1 .. last : g_line[i] = Space})
WordRight ==
    LET end == Len(g_line) + 1
        gap == Min({end} \cup {i \in g_cursor + 1 .. Len(g_line) : g_line[i] = Space})
    IN  Min({end} \cup {i \in gap .. Len(g_line) : g_line[i] # Space}) - 1

\* A line up to its first 0, as strcmp and history_load see it.
CString(line) == SubSeq(line, 1, Min({Len(line)} \cup {i - 1 : i \in {j \in DOMAIN line : line[j] = NUL}}))

OverwriteLast(line) ==                  \* broken: a full history is not moved down
    IF line = <<>> \/ (g_history # <<>> /\ Last(g_history) = CString(line)) THEN g_history
    ELSE IF Len(g_history) < SHELL_HISTORY_MAX THEN Append(g_history, CString(line))
    ELSE Append(Front(g_history), CString(line))

HistoryStore(line) ==
    IF line = <<>> \/ (g_history # <<>> /\ Last(g_history) = CString(line)) THEN g_history
    ELSE IF Len(g_history) < SHELL_HISTORY_MAX THEN Append(g_history, CString(line))
    ELSE Append(Tail(g_history), CString(line))

KeepCursor(index) ==                    \* broken: the cursor stays where it was
    g_hist_index' = index /\ Line(g_history[index + 1], g_cursor)

HistoryLoad(index) ==
    g_hist_index' = index /\ Line(g_history[index + 1], Len(g_history[index + 1]))

NoRedraw == UNCHANGED screens           \* broken: the screen is not told

\* The framebuffer console has no input row: the line follows the prompt.
Redraw ==
    /\ term' = IF g_simple_mode' THEN term ELSE SetInputLine(term, g_line', g_cursor')
    /\ UNCHANGED fb

\* Characters are added and removed where the cursor is.
EditWithin(key) ==
    /\ g_cursor <= Len(g_line)
    /\ \/ /\ key \in Chars
          /\ IF Len(g_line) < SHELL_LINE_MAX - 1
             THEN Line(InsertAt(g_line, g_cursor + 1, key), g_cursor + 1)
             ELSE UNCHANGED <<g_line, g_cursor>>
       \/ /\ key = "backspace"
          /\ IF g_cursor > 0 THEN Line(RemoveAt(g_line, g_cursor), g_cursor - 1)
             ELSE UNCHANGED <<g_line, g_cursor>>
       \/ /\ key = "delete"
          /\ IF g_cursor < Len(g_line) THEN Line(RemoveAt(g_line, g_cursor + 1), g_cursor)
             ELSE UNCHANGED <<g_line, g_cursor>>
       \/ /\ key = "left"
          /\ Line(g_line, IF "ctrl" \in g_mods THEN WordLeft ELSE Max({0, g_cursor - 1}))
       \/ /\ key = "right"
          /\ Line(g_line, IF "ctrl" \in g_mods THEN WordRight ELSE Min({Len(g_line), g_cursor + 1}))

\* The cursor is behind the line when shell_init has set g_len but not yet
\* g_cursor: the character goes there, and the line gets what an older one
\* has left where it ends, a 0 as a rule.
EditBehind(key) ==
    /\ g_cursor > Len(g_line)
    /\ \/ /\ key \in Chars
          /\ IF Len(g_line) < SHELL_LINE_MAX - 1
             THEN \E left \in Chars \cup {NUL} : Line(Append(g_line, left), g_cursor + 1)
             ELSE UNCHANGED <<g_line, g_cursor>>
       \/ key = "backspace" /\ Line(Front(g_line), g_cursor - 1)
       \/ /\ key = "left" /\ UNCHANGED g_line
          /\ g_cursor' \in IF "ctrl" \in g_mods THEN 0 .. g_cursor ELSE {g_cursor - 1}
       \/ key \in {"right", "delete"} /\ UNCHANGED <<g_line, g_cursor>>

\* A key of the line editor, without Enter and outside simple mode.
Edit(key) ==
    /\ \/ (EditWithin(key) \/ EditBehind(key)) /\ UNCHANGED g_hist_index
       \/ key = "home" /\ Line(g_line, 0) /\ UNCHANGED g_hist_index
       \/ key = "end" /\ Line(g_line, Len(g_line)) /\ UNCHANGED g_hist_index
       \/ /\ key = "up" /\ g_history # <<>>
          /\ HistoryLoad(IF g_hist_index < 0 THEN Len(g_history) - 1 ELSE Max({0, g_hist_index - 1}))
       \/ /\ key = "down" /\ g_hist_index >= 0
          /\ IF g_hist_index + 1 >= Len(g_history) THEN Line(<<>>, 0) /\ g_hist_index' = -1
             ELSE HistoryLoad(g_hist_index + 1)
       \/ /\ \/ key = "up" /\ g_history = <<>>
             \/ key = "down" /\ g_hist_index < 0
          /\ UNCHANGED <<g_line, g_cursor, g_hist_index>>
    /\ Redraw
    /\ UNCHANGED <<g_history, executing>>

\* A key that writes behind g_line, or moves down all memory: g_len - 1 wraps.
Derails(key) ==
    /\ ~g_simple_mode /\ g_cursor > Len(g_line)
    /\ \/ key \in Chars /\ Len(g_line) < SHELL_LINE_MAX - 1 /\ g_cursor >= SHELL_LINE_MAX
       \/ key = "backspace" /\ g_line = <<>>

Erasing == <<BS, Space, BS>>

\* On the framebuffer console characters are only added and removed at the end.
EditSimple(key) ==
    /\ IF g_cursor # Len(g_line) THEN UNCHANGED <<g_line, g_cursor, screens>>
       ELSE IF key \in Chars /\ g_cursor < SHELL_LINE_MAX - 1
       THEN Line(Append(g_line, key), g_cursor + 1) /\ ConsolePrint(<<key>>)
       ELSE IF key = "backspace" /\ g_cursor > 0
       THEN Line(Front(g_line), g_cursor - 1) /\ ConsolePrint(Erasing)
       ELSE UNCHANGED <<g_line, g_cursor, screens>>
    /\ UNCHANGED <<g_history, g_hist_index, executing>>

\* shell_execute_line is called, and will return: Return.
Enter ==
    /\ IF g_simple_mode THEN ConsolePrint(<<LF>>) ELSE term' = PutChar(term, LF) /\ UNCHANGED fb
    /\ g_history' = HistoryStore(g_line)
    /\ executing' = TRUE
    /\ UNCHANGED <<g_line, g_cursor, g_hist_index>>

ScrollBy(key) ==
    IF key = "pageup" \/ (key = "up" /\ "shift" \in g_mods) THEN SCROLL_STEP
    ELSE IF key = "pagedown" \/ (key = "down" /\ "shift" \in g_mods) THEN -SCROLL_STEP
    ELSE 0

\* shell_handle_key
HandleKey(key) ==
    \/ key = "enter" /\ term.line < MAX_LINES /\ Enter
    \/ key # "enter" /\ g_simple_mode /\ EditSimple(key)
    \/ /\ key # "enter" /\ ~g_simple_mode /\ ScrollBy(key) # 0
       /\ term' = ScrollLines(term, ScrollBy(key))
       /\ UNCHANGED <<shell, fb>>
    \/ key # "enter" /\ ~g_simple_mode /\ ScrollBy(key) = 0 /\ Edit(key)

-----------------------------------------------------------------------------
(* keyboard_isr: the codes of a key.  Those behind a prefix are the ones   *)
(* of the extended keys, of the right Ctrl and of the keypad's Enter.      *)

Interruptible == ~executing /\ main # "lost"

Sends(key) ==
    /\ Interruptible
    /\ key \in session.keys
    /\ key \in IF wire THEN ExtendedKeys \cup {"ctrl", "enter"} ELSE PlainKeys \cup Modifiers
    /\ wire' = FALSE
    /\ UNCHANGED <<session, g_simple_mode, todo, args>>

Prefix ==
    /\ Interruptible /\ ~wire
    /\ wire' = TRUE /\ g_e0' = TRUE
    /\ UNCHANGED <<session, g_mods, shell, booting, putc, marks, screens>>

\* The prefix in front of a release or a modifier is not forgotten.
Release(key) ==
    /\ Sends(key)
    /\ g_mods' = g_mods \ {key}
    /\ UNCHANGED <<g_e0, shell, main, putc, marks, screens>>

PressModifier(key) ==
    /\ key \in Modifiers /\ Sends(key)
    /\ g_mods' = g_mods \cup {key}
    /\ UNCHANGED <<g_e0, shell, main, putc, marks, screens>>

\* Where kmain spoils what a key does: its stores may be half done, or it is printing.
Exposed ==
    \/ main \in {"cursor", "mode", "redraw", "store", "place"}
    \/ main = "prompt" /\ ~Waiting

Count == (Waiting \/ early < session.early) /\ early' = IF Waiting THEN 0 ELSE early + 1

\* on_key_press: behind a prefix, due or not, any other key is lost.
Press(key) ==
    /\ key \notin Modifiers /\ Sends(key)
    /\ g_e0' = FALSE
    /\ UNCHANGED g_mods
    /\ \/ g_e0 /\ key \notin ExtendedKeys /\ UNCHANGED <<shell, main, putc, marks, screens>>
       \/ /\ ~g_e0 \/ key \in ExtendedKeys
          /\ \/ Derails(key) /\ main' = "lost" /\ UNCHANGED <<shell, screens>>
             \/ ~Derails(key) /\ HandleKey(key) /\ UNCHANGED main
          /\ Disturb /\ Count
          /\ torn' = (torn \/ Exposed)
          /\ strayed' = (strayed \/ main \in {"len", "cursor"})

-----------------------------------------------------------------------------
(* The command that Enter runs.                                            *)

Output(c) ==
    /\ executing /\ c \in session.output
    /\ session.framebuffer \/ PutChar(term, c).line <= MAX_LINES
    /\ ConsolePrint(<<c>>)
    /\ Disturb /\ Count
    /\ UNCHANGED <<session, keyboard, shell, booting, torn, strayed>>

\* the builtin commands clear and clean, which know the terminal only
ClearCommand ==
    /\ executing /\ "clear" \in session.output
    /\ term' = ClearScrollback(term)
    /\ Disturb
    /\ UNCHANGED <<session, keyboard, shell, booting, marks, fb>>

\* shell_execute_line returns to shell_handle_key.
Return ==
    /\ executing /\ executing' = FALSE
    /\ UNCHANGED <<session, keyboard, g_history, booting, strayed, early>>
    /\ Line(<<>>, 0) /\ g_hist_index' = -1
    /\ IF g_simple_mode THEN ConsolePrint(PROMPT) ELSE Redraw
    /\ Disturb
    /\ torn' = Exposed

-----------------------------------------------------------------------------
(* kmain printing a character: of its own lines, and of the prompt that    *)
(* shell_init prints with simple_prompt.  Goto names the piece and the one *)
(* that comes next, for which At keeps the rest of what is in registers.   *)

Begun(c, first, x, y, under) ==
    [c |-> c, step |-> first, x |-> x, y |-> y, under |-> under, hit |-> FALSE]

BeginChar ==
    /\ ~executing /\ main # "lost" /\ putc = NoChar /\ todo # <<>>
    /\ putc' = IF session.framebuffer
               THEN Begun(Head(todo), "erase", fb.x, fb.y, CellGet(fb, fb.x, fb.y))
               ELSE Begun(Head(todo), IF Head(todo) = LF THEN "home" ELSE "clear",
                          term.col, term.line, Space)
    /\ todo' = Tail(todo)
    /\ UNCHANGED <<session, keyboard, shell, g_simple_mode, main, args, marks, screens>>

At(step) == [putc EXCEPT !.step = step]

Goto(step, next) ==
    /\ ~executing /\ main # "lost"
    /\ putc.step = step /\ putc' = next
    /\ UNCHANGED <<session, keyboard, shell, booting, marks>>

\* fb_putc of a character or a line feed, with fb_newline and scroll_up
FbPiece ==
    /\ session.framebuffer /\ putc # NoChar /\ UNCHANGED term
    /\ \E x \in {putc.x, fb.x}, y \in {putc.y, fb.y} :
          \/ /\ Goto("erase", At(IF putc.c = LF THEN "home" ELSE "draw"))
             /\ fb' = DrawCell(fb, putc.x, putc.y, putc.under)
          \/ Goto("draw", At("set")) /\ fb' = DrawCell(fb, x, y, putc.c)
          \/ Goto("set", At("right")) /\ fb' = CellSet(fb, x, y, putc.c)
          \/ /\ Goto("right", At(IF x + 1 >= FB_COLS THEN "home" ELSE "mark"))
             /\ fb' = [fb EXCEPT !.x = x + 1]
          \/ Goto("home", At("down")) /\ fb' = [fb EXCEPT !.x = 0]
          \/ /\ Goto("down", At(IF fb.y + 1 >= FB_ROWS THEN "lift" ELSE "mark"))
             /\ fb' = [fb EXCEPT !.y = @ + 1]
          \/ Goto("lift", At("move")) /\ fb' = ScrollPixels(fb)
          \/ Goto("move", At("bottom")) /\ fb' = ScrollCells(fb)
          \/ Goto("bottom", At("mark")) /\ fb' = [fb EXCEPT !.y = Bottom]
          \/ /\ Goto("mark", NoChar)
             /\ fb' = [DrawCursor(fb) EXCEPT !.smeared = IF putc.hit THEN FB_ROWS ELSE @]

\* put_output_char, with ensure_current_line_initialized and linefeed
TermPiece ==
    /\ ~session.framebuffer /\ putc # NoChar /\ UNCHANGED fb
    /\ \E col \in {putc.x, term.col}, line \in {putc.y, term.line} :
          \/ Goto("clear", At("write")) /\ term' = IF col = 0 THEN ClearLine(term, line) ELSE term
          \/ Goto("write", At("right")) /\ term' = WriteCell(term, line, col, putc.c)
          \/ /\ Goto("right", IF col + 1 >= TERM_WIDTH THEN At("home") ELSE NoChar)
             /\ term' = [term EXCEPT !.col = col + 1]
          \/ Goto("home", At("next")) /\ term' = [term EXCEPT !.col = 0]
          \/ Goto("next", [At("total") EXCEPT !.y = line + 1]) /\ term' = [term EXCEPT !.line = line + 1]
          \/ Goto("total", At("wipe")) /\ term' = [term EXCEPT !.total = line + 1]
          \/ Goto("wipe", At("latest")) /\ term' = ClearLine(term, line)
          \/ Goto("latest", NoChar) /\ term' = [term EXCEPT !.offset = 0]

-----------------------------------------------------------------------------
(* shell_init, one assignment after the other.                             *)

MainStep(at, next) ==
    /\ ~executing /\ main = at /\ main' = next
    /\ UNCHANGED <<session, keyboard, g_history, g_hist_index, executing, putc, marks, fb>>

EmptyLine ==                            \* g_line[0] = 0
    /\ todo = <<>> /\ putc = NoChar
    /\ MainStep("greet", "len")
    /\ g_line' = IF g_line = <<>> THEN <<>> ELSE <<NUL>> \o Tail(g_line)
    /\ UNCHANGED <<g_cursor, g_simple_mode, todo, args, term>>

ZeroLen ==
    /\ MainStep("len", "cursor")
    /\ g_line' = <<>>
    /\ UNCHANGED <<g_cursor, g_simple_mode, todo, args, term>>

ZeroCursor ==
    /\ MainStep("cursor", "mode")
    /\ g_cursor' = 0
    /\ UNCHANGED <<g_line, g_simple_mode, todo, args, term>>

\* In simple mode redraw_input returns at once and simple_prompt follows.
ChooseMode ==
    /\ MainStep("mode", IF session.framebuffer THEN "prompt" ELSE "redraw")
    /\ g_simple_mode' = session.framebuffer
    /\ todo' = IF session.framebuffer THEN PROMPT ELSE <<>>
    /\ UNCHANGED <<g_line, g_cursor, args, term>>

ReadArgs ==
    /\ MainStep("redraw", "store")
    /\ args' = [len |-> Len(g_line), cursor |-> g_cursor]
    /\ UNCHANGED <<g_line, g_cursor, g_simple_mode, todo, term>>

\* terminal_set_input_line, first the text and its length, then the cursor:
\* what is copied from behind a line that has become shorter can be anything.
StoreInput ==
    /\ MainStep("store", "place")
    /\ \E text \in [1 .. args.len -> Chars \cup {NUL}] :
          /\ \A i \in 1 .. Min({args.len, Len(g_line)}) : text[i] = g_line[i]
          /\ term' = [term EXCEPT !.input = text]
    /\ UNCHANGED <<g_line, g_cursor, g_simple_mode, todo, args>>

PlaceCursor ==
    /\ MainStep("place", "prompt")
    /\ term' = InputCursor(term, Min({args.cursor, args.len}))
    /\ args' = [len |-> 0, cursor |-> 0]
    /\ UNCHANGED <<g_line, g_cursor, g_simple_mode, todo>>

ShellInit ==
    \/ EmptyLine \/ ZeroLen \/ ZeroCursor \/ ChooseMode
    \/ ReadArgs \/ StoreInput \/ PlaceCursor

-----------------------------------------------------------------------------
Init ==
    /\ session \in Sessions
    /\ wire = FALSE /\ g_mods = {} /\ g_e0 = FALSE
    /\ g_line = <<>> /\ g_cursor = 0
    /\ g_history = <<>> /\ g_hist_index = -1
    /\ g_simple_mode = FALSE /\ executing = FALSE
    /\ main = "greet" /\ todo = session.greeting /\ putc = NoChar
    /\ args = [len |-> 0, cursor |-> 0]
    /\ torn = FALSE /\ strayed = FALSE /\ early = 0
    /\ term = TerminalInit /\ fb = FbInit

Next ==
    \/ Prefix \/ ClearCommand \/ Return
    \/ BeginChar \/ FbPiece \/ TermPiece \/ ShellInit
    \/ \E key \in PlainKeys \cup ExtendedKeys \cup Modifiers :
          Press(key) \/ Release(key) \/ PressModifier(key)
    \/ \E c \in Chars \cup {LF, CR, BS} : Output(c)

Spec == Init /\ [][Next]_vars
=============================================================================
