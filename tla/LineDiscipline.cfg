CONSTANTS
    KEYBOARD_BUFFER_SIZE = 3
    MAX_TERMINAL_NUMBER = 2
    TabWidth = 2
    Letters = {"a"}
    BootContents <- MCBootContents
    Requests <- MCRequests
    Windows = {}
    MaxLines = 1
SPECIFICATION FairSpec
INVARIANTS NoOverrun EditedLineKept ReadReturnsTypedLine EnterRemembered
PROPERTY LineDelivered
