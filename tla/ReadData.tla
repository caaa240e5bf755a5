------------------------------ MODULE ReadData ------------------------------
(***************************************************************************)
(* fileSystem.c read_data: the loop that copies a range of a file out of   *)
(* its data blocks, with its two counters and its moving pointer.  One     *)
(* behaviour is one call; execute reads programs with it and fs_read the   *)
(* files of a process.                                                     *)
(***************************************************************************)
EXTENDS Integers

CONSTANTS
    DATA_BLOCK_SIZE,   \* 4096
    INODE_MAX_BLOCK,   \* 1023
    InodeCount,        \* boot_block.inode
    BlockCount,        \* boot_block.dataBlocks
    inode_array,       \* the inodes of the file system image
    data,              \* the bytes from data_begin_ptr on
    Byte,
    Requests           \* the arguments a caller may pass; null: no buffer

Untouched == -1
Start(b) == b * DATA_BLOCK_SIZE      \* the first byte of block b
LargestFile == Start(INODE_MAX_BLOCK)
Address == 0 .. Start(BlockCount) - 1
BlockIndex == 0 .. INODE_MAX_BLOCK   \* dataBlocks, and the word after it

(* Entries of dataBlocks may be anything: read_data checks those it uses.  *)
(* Lengths it does not check: the image must keep them to LargestFile.     *)
(* A process never asks from beyond the end of the largest file, because   *)
(* filePos grows by what was read.                                         *)
ASSUME ImageAssumption ==
    /\ DATA_BLOCK_SIZE \in Nat \ {0}
    /\ INODE_MAX_BLOCK \in Nat
    /\ InodeCount \in Nat
    /\ BlockCount \in Nat
    /\ inode_array \in [0 .. InodeCount - 1 ->
                           [length : 0 .. LargestFile,
                            dataBlocks : [BlockIndex -> Nat]]]
    /\ data \in [Address -> Byte]
ASSUME RequestAssumption ==
    Requests \subseteq [inode : Nat, offset : 0 .. LargestFile, length : Nat, null : BOOLEAN]
ASSUME ByteAssumption == Byte \subseteq Nat

VARIABLES
    request, pc,
    read_success, block_location_ptr, data_block,   \* the loop's counters
    read_buffer_ptr,                                \* as an offset into data
    buffer, ret

vars == <<request, pc, read_success, block_location_ptr, data_block, read_buffer_ptr, buffer, ret>>

Inode  == inode_array[request.inode]
Length == request.length
Offset == request.offset

Init ==
    /\ request \in Requests
    /\ pc = "entry"
    /\ read_success = 0
    /\ block_location_ptr = request.offset % DATA_BLOCK_SIZE
    /\ data_block = request.offset \div DATA_BLOCK_SIZE
    /\ read_buffer_ptr = 0
    /\ buffer = [i \in 0 .. request.length - 1 |-> Untouched]
    /\ ret = 0

Return(value) == pc' = "done" /\ ret' = value

\* Mutant: block 0 is taken for an unused entry.
BadOrZeroBlock(b) == Inode.dataBlocks[b] >= BlockCount \/ Inode.dataBlocks[b] = 0

BadBlock(b) == Inode.dataBlocks[b] >= BlockCount

(* The first test of the call: the inode, its first block, the buffer. *)
Refused == (request.inode < InodeCount => BadBlock(data_block)) \/ request.null

Reject ==
    /\ pc = "entry"
    /\ Refused
    /\ Return(-1)
    /\ UNCHANGED <<request, read_success, block_location_ptr, data_block, read_buffer_ptr, buffer>>

NothingToRead ==
    /\ pc = "entry"
    /\ ~Refused
    /\ Offset < Inode.length => Length = 0
    /\ Return(0)
    /\ UNCHANGED <<request, read_success, block_location_ptr, data_block, read_buffer_ptr, buffer>>

Enter ==
    /\ pc = "entry"
    /\ ~Refused
    /\ Offset < Inode.length /\ Length # 0
    /\ read_buffer_ptr' = Start(Inode.dataBlocks[data_block]) + block_location_ptr
    /\ pc' = "loop"
    /\ UNCHANGED <<request, read_success, block_location_ptr, data_block, buffer, ret>>

\* Mutant: one byte past the end of the file.
MoreThanFile == read_success < Length /\ read_success + Offset <= Inode.length

More == read_success < Length /\ read_success + Offset < Inode.length

\* Mutant: the block ends one byte late.
PastBlockLate == block_location_ptr > DATA_BLOCK_SIZE

PastBlock == block_location_ptr >= DATA_BLOCK_SIZE

CopyFrom(ptr, location) ==
    /\ buffer' = [buffer EXCEPT ![read_success] = data[ptr]]
    /\ read_success' = read_success + 1
    /\ block_location_ptr' = location + 1
    /\ read_buffer_ptr' = ptr + 1
    /\ UNCHANGED <<request, pc, ret>>

(* One iteration: within a block, into the next block, onto a bad one. *)
CopyByte ==
    /\ pc = "loop" /\ More /\ ~PastBlock
    /\ CopyFrom(read_buffer_ptr, block_location_ptr)
    /\ UNCHANGED data_block

NextBlock ==
    /\ pc = "loop" /\ More /\ PastBlock /\ ~BadBlock(data_block + 1)
    /\ data_block' = data_block + 1
    /\ CopyFrom(Start(Inode.dataBlocks[data_block + 1]), 0)

FailInLoop ==
    /\ pc = "loop" /\ More /\ PastBlock /\ BadBlock(data_block + 1)
    /\ Return(-1)
    /\ UNCHANGED <<request, read_success, block_location_ptr, data_block, read_buffer_ptr, buffer>>

EndOfLoop ==
    /\ pc = "loop" /\ ~More
    /\ Return(read_success)
    /\ UNCHANGED <<request, read_success, block_location_ptr, data_block, read_buffer_ptr, buffer>>

Next == Reject \/ NothingToRead \/ Enter \/ CopyByte \/ NextBlock \/ FailInLoop \/ EndOfLoop

Spec == Init /\ [][Next]_vars

-----------------------------------------------------------------------------
(* What the call promises, in terms of the file alone.                     *)

FileByte(k) == data[Start(Inode.dataBlocks[k \div DATA_BLOCK_SIZE]) + (k % DATA_BLOCK_SIZE)]

Wanted == IF Offset >= Inode.length THEN 0
          ELSE IF Length <= Inode.length - Offset THEN Length ELSE Inode.length - Offset

(* The block of the request's first byte, or of a byte the request wants. *)
NeededBlocks == {(Offset + i) \div DATA_BLOCK_SIZE : i \in {0} \cup 0 .. Wanted - 1}

TypeOK ==
    /\ request \in Requests
    /\ pc \in {"entry", "loop", "done"}
    /\ read_success \in Nat
    /\ block_location_ptr \in 0 .. DATA_BLOCK_SIZE
    /\ data_block \in BlockIndex
    /\ read_buffer_ptr \in Nat
    /\ buffer \in [0 .. request.length - 1 -> Byte \cup {Untouched}]
    /\ ret \in Int

(* The pointer the loop reads through stays in the data blocks of the      *)
(* image, and in the block the counters say.                               *)
PointerInBlock ==
    pc = "loop" /\ More =>
        LET block == IF PastBlock THEN data_block + 1 ELSE data_block
        IN  /\ block \in BlockIndex
            /\ ~PastBlock => /\ read_buffer_ptr \in Address
                             /\ read_buffer_ptr \div DATA_BLOCK_SIZE = Inode.dataBlocks[block]

(* "returns -1 on fail, bytes read on success" (fileSystem.c:147): a call  *)
(* that succeeds has read everything the file has of the range, the bytes  *)
(* are the file's, and the rest of the caller's buffer is as it was.       *)
ReadsTheRange ==
    pc = "done" /\ ret # -1 =>
        /\ request.inode < InodeCount /\ ~request.null
        /\ ret = Wanted
        /\ \A i \in 0 .. Length - 1 :
               buffer[i] = IF i < Wanted THEN FileByte(Offset + i) ELSE Untouched

(* A call fails only for an inode out of range, a bad block it needs or a  *)
(* buffer that is none.                                                    *)
FailsForAReason ==
    pc = "done" /\ ret = -1 =>
        \/ request.inode >= InodeCount \/ request.null
        \/ \E b \in NeededBlocks : Inode.dataBlocks[b] >= BlockCount
=============================================================================
