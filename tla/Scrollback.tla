----------------------------- MODULE Scrollback -----------------------------
(***************************************************************************)
(* What a terminal with scrollback promises, without rings and offsets:    *)
(* the last LINES lines of output are kept in order, the newest one can    *)
(* still be written, and the screen shows ROWS of them in a row.           *)
(***************************************************************************)
EXTENDS Integers, Sequences, SequencesExt

CONSTANTS LINES, ROWS,
          Texts,        \* what a line can be
          Empty         \* the empty one

VARIABLES lines,        \* the lines kept, oldest first
          window        \* the ones on the screen

vars == <<lines, window>>

\* The screen scrolled up by n lines, but not past the oldest one.
View(n) ==
    LET wanted == Len(lines) - (ROWS - 1) - n
        top    == IF wanted < 1 THEN 1 ELSE wanted
    IN  [row \in 0 .. ROWS - 1 |-> IF top + row <= Len(lines) THEN lines[top + row] ELSE Empty]

Newest(text) == Front(lines) \o <<text>>

Init == lines = <<Empty>> /\ window = View(0)

\* The screen stays scrolled as far as it is.
Write == \E text \in Texts, n \in 0 .. LINES :
    /\ window = View(n)
    /\ lines' = Newest(text)
    /\ window' = View(n)'

\* Writing the last column begins a line, too.  The screen goes to the newest line.
NewLine == \E text \in Texts :
    /\ LET all  == Append(Newest(text), Empty)
           drop == IF Len(all) > LINES THEN 1 ELSE 0
       IN  lines' = SubSeq(all, 1 + drop, Len(all))
    /\ window' = View(0)'

Clear == lines' = <<Empty>> /\ window' = View(0)'

Scroll == UNCHANGED lines /\ \E n \in 0 .. LINES : window' = View(n)

Next == Write \/ NewLine \/ Clear \/ Scroll

Spec == Init /\ [][Next]_vars
=============================================================================
