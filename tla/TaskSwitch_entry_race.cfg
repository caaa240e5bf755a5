CONSTANTS
    MAX_PCB = 3
    MAX_TERMINAL_NUMBER = 2
    StackFrames = 5
    Programs <- TwoPrograms
    Shell = "shell"
    MaxExecs = 2
    SwitchPoints <- SafePoints
    QuietBoot = TRUE
SPECIFICATION Spec
INVARIANT
    EntersOwnProgram
CHECK_DEADLOCK FALSE
