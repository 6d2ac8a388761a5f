------------------------------ MODULE MCInput ------------------------------
(* Input.tla with lines of two characters, two lines of history, and rows  *)
(* of two columns of which three are kept and two are shown.  The          *)
(* framebuffer console has two rows of three columns.                      *)
EXTENDS InputProps

MCPrompt == <<">", Space>>
MCChars == {"a", Space}

Keys == PlainKeys \cup ExtendedKeys \cup Modifiers

\* Some users edit, on either console, some scroll through what commands print,
\* and some are there before the shell is.
MCSessions ==
    {[keys |-> Keys \ {"shift", "pageup", "pagedown"}, output |-> {}, framebuffer |-> FALSE,
      greeting |-> <<"a">>, early |-> 0],
     [keys |-> {"a", "backspace", "left", "enter"}, output |-> {"a", LF, CR}, framebuffer |-> TRUE,
      greeting |-> <<LF>>, early |-> 0],
     [keys |-> {"shift", "up", "down", "pageup", "pagedown", "enter", "a"},
      output |-> {"a", LF, CR, BS, "clear"}, framebuffer |-> FALSE,
      greeting |-> <<LF>>, early |-> 0],
     [keys |-> {"a", "backspace", "left", "right", "pageup", "enter"}, output |-> {"a", LF},
      framebuffer |-> FALSE, greeting |-> <<"a", LF>>, early |-> 3],
     [keys |-> {"a", "backspace", "enter"}, output |-> {"a", LF}, framebuffer |-> TRUE,
      greeting |-> <<"a", "a", "a", LF>>, early |-> 2]}
=============================================================================
