CONSTANTS
    DATA_BLOCK_SIZE = 2
    INODE_MAX_BLOCK = 3
    InodeCount = 5
    BlockCount = 4
    inode_array <- MCInodes
    data <- MCData
    Byte <- MCByte
    Requests <- MCRequests
SPECIFICATION Spec
INVARIANTS TypeOK PointerInBlock ReadsTheRange FailsForAReason
CHECK_DEADLOCK FALSE
