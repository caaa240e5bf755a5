CONSTANTS
    MAX_PCB = 4
    MAX_TERMINAL_NUMBER = 3
    StackFrames = 4
    Programs <- OneProgram
    Shell = "shell"
    MaxExecs = 1
    SwitchPoints <- LivePoints
    QuietBoot = TRUE
SPECIFICATION BootSpec
PROPERTIES
    ShellRespawns
    BootCompletes
