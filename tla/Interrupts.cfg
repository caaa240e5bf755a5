CONSTANTS
    MAX_TERMINAL_NUMBER = 2
    MaxCalls = 4
    MaxDepth = 6
    MaxEarly = 1
    QuietBoot = TRUE
SPECIFICATION FairSpec
INVARIANTS TypeOK InServiceIsTop DriversReady
PROPERTY RequestsServed
