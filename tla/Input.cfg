SPECIFICATION Spec
CONSTANTS
    TERM_WIDTH = 2
    TERM_OUTPUT_ROWS = 2
    TERM_SCROLLBACK_LINES = 3
    SHELL_LINE_MAX = 3
    SHELL_HISTORY_MAX = 2
    SCROLL_STEP = 1
    FB_COLS = 3
    FB_ROWS = 2
    PROMPT <- MCPrompt
    Chars <- MCChars
    Sessions <- MCSessions
    MAX_LINES = 4
INVARIANTS
    TypeOK
    HistoryDistinct
    InputShown
    ScreenShown
PROPERTIES
    ImplementsScrollback
CHECK_DEADLOCK FALSE
