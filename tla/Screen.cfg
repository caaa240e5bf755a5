CONSTANTS
    NUM_COLS = 2
    NUM_ROWS = 2
    PageCells = 5
    CursorByte = 2
    MAX_TERMINAL_NUMBER = 2
    EchoMoments <- SafeMoments
    Habits = {}
    MaxChars = 4
SPECIFICATION Spec
INVARIANTS ScreenShowsText CursorUpdated
PROPERTY StoresOnScreen
