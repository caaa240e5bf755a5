CONSTANTS
    MAX_PCB = 3
    MAX_TERMINAL_NUMBER = 2
    StackFrames = 5
    Programs <- TwoPrograms
    Shell = "shell"
    MaxExecs = 2
    SwitchPoints <- SafePoints
    QuietBoot = TRUE
SPECIFICATION Spec
INVARIANTS
    TypeOK
    NoWildResume
    UserContext
    StartsOwnImage
    ArgumentsFromCaller
    CountsAgree
    AncestorsWait
PROPERTIES
    BackgroundIntact
    ImplementsTree
