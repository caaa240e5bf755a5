CONSTANTS
    Pid <- MCPid
    Term <- TwoTerminals
    Boot = 0
    KEYBOARD_BUFFER_SIZE = 6
    Lines <- MCLines
    Executables <- MCExecutables
    Behind <- NoText
    FrameText <- OldTexts
    BehindLiteral <- LiteralTails
    Requests = {0, 1, 2, 3}
    PageStart = 8
    PageSize = 8
    PointerSize = 4
    Addresses = {0, 4, 8, 12, 17}
    ExitValues = {0, 254}
    Habits <- NoHabits
    MaxExecs = 3
SPECIFICATION ProgramSpec
INVARIANTS
    ProgramTypeOK
    MapperKeepsScreen
    ScreenPageReclaimed
    PointerStoredInPage
    GetargsDelivers
    StatusTells
