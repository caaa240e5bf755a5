CONSTANTS
    Term = {0, 1}
    Requests <- MCRequests
    RegA = 38
    RegB = 2
SPECIFICATION FairSpec
INVARIANT RegistersAsSet
PROPERTIES ReadSeesInterrupt ReadsReturn
