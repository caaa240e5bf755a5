----------------------------- MODULE MCReadData -----------------------------
(* An image of two-byte blocks: a file that ends inside a block, one of    *)
(* the largest size, an empty one, one that fills its last block with a    *)
(* bad entry behind it, and one with a bad block in the middle.            *)
EXTENDS ReadData

File(n, b0, b1, b2) == [length |-> n, dataBlocks |-> [b \in BlockIndex |->
                           CASE b = 0 -> b0 [] b = 1 -> b1 [] b = 2 -> b2 [] OTHER -> 0]]
MCInodes ==
    [i \in 0 .. InodeCount - 1 |->
        CASE i = 0 -> File(3, 2, 0, 0) [] i = 1 -> File(6, 3, 1, 0)
          [] i = 2 -> File(0, 0, 0, 0) [] i = 3 -> File(4, 1, 3, 9) [] OTHER -> File(5, 0, 9, 2)]
MCData == [a \in Address |-> a]
MCByte == Address
MCRequests == [inode : 0 .. InodeCount, offset : 0 .. 6, length : 0 .. 7, null : BOOLEAN]
=============================================================================
