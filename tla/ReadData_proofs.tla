-------------------------- MODULE ReadData_proofs ---------------------------
(***************************************************************************)
(* read_data is correct for every image, block size and request: what it   *)
(* returns and what it stores is the range of the file that was asked for. *)
(* The loop invariant ties the two counters and the pointer to the place   *)
(* in the file: Start(data_block) + block_location_ptr is       *)
(* always Offset + read_success, although the counters are only wrapped    *)
(* when the next byte is wanted.                                           *)
(***************************************************************************)
EXTENDS ReadData, TLAPS

(* Places in files and blocks. *)
LEMMA StartNat ==
    ASSUME NEW b \in Nat
    PROVE  Start(b) \in Nat /\ Start(b + 1) = Start(b) + DATA_BLOCK_SIZE
BY ImageAssumption DEF Start

\* Positions and the blocks they are in.
LEMMA DivMod ==
    ASSUME NEW d \in Nat, NEW l \in 0 .. DATA_BLOCK_SIZE - 1
    PROVE  /\ (Start(d) + l) \div DATA_BLOCK_SIZE = d
           /\ (Start(d) + l) % DATA_BLOCK_SIZE = l
<1>1. DATA_BLOCK_SIZE \in Nat \ {0}
  BY ImageAssumption
<1> QED
  BY <1>1 DEF Start

LEMMA ModRange ==
    ASSUME NEW k \in Nat
    PROVE  /\ k \div DATA_BLOCK_SIZE \in Nat
           /\ k % DATA_BLOCK_SIZE \in 0 .. DATA_BLOCK_SIZE - 1
           /\ Start(k \div DATA_BLOCK_SIZE) + (k % DATA_BLOCK_SIZE) = k
<1>1. DATA_BLOCK_SIZE \in Nat \ {0}
  BY ImageAssumption
<1> QED
  BY <1>1 DEF Start

LEMMA StartOrder ==
    ASSUME NEW a \in Nat, NEW b \in Nat, a < b
    PROVE  Start(a) + DATA_BLOCK_SIZE <= Start(b)
<1>1. DATA_BLOCK_SIZE \in Nat \ {0}
  BY ImageAssumption
<1>2. (a + 1) * DATA_BLOCK_SIZE <= b * DATA_BLOCK_SIZE
  BY <1>1
<1>3. (a + 1) * DATA_BLOCK_SIZE = a * DATA_BLOCK_SIZE + DATA_BLOCK_SIZE
  BY <1>1
<1> QED
  BY <1>2, <1>3 DEF Start

(* A block that starts no later than the end of the largest file has an    *)
(* index in dataBlocks or is the word after it.                            *)
LEMMA BlockBound ==
    ASSUME NEW d \in Nat, Start(d) <= LargestFile
    PROVE  d \in BlockIndex
<1>1. INODE_MAX_BLOCK \in Nat /\ DATA_BLOCK_SIZE \in Nat \ {0}
  BY ImageAssumption
<1>2. CASE INODE_MAX_BLOCK < d
  <2>1. Start(INODE_MAX_BLOCK) + DATA_BLOCK_SIZE <= Start(d)
    BY <1>1, <1>2, StartOrder
  <2> QED
    BY <1>1, <2>1, StartNat DEF LargestFile
<1> QED
  BY <1>1, <1>2 DEF BlockIndex

(* A stored block number in range addresses the data blocks. *)
LEMMA BlockAddress ==
    ASSUME NEW b \in Nat, b < BlockCount, NEW l \in 0 .. DATA_BLOCK_SIZE - 1
    PROVE  Start(b) + l \in Address /\ Start(b) + l \in Nat
<1>1. BlockCount \in Nat /\ DATA_BLOCK_SIZE \in Nat \ {0}
  BY ImageAssumption
<1>2. Start(b) \in Nat /\ Start(BlockCount) \in Nat
  BY <1>1, StartNat
<1>3. Start(b) + DATA_BLOCK_SIZE <= Start(BlockCount)
  BY <1>1, StartOrder
<1> QED
  BY <1>1, <1>2, <1>3 DEF Address

(* The loop invariant. *)
InLoop ==
    /\ request.inode < InodeCount /\ ~request.null
    /\ Offset < Inode.length
    /\ read_success <= Wanted
    /\ Start(data_block) + block_location_ptr = Offset + read_success
    /\ ~BadBlock(data_block)
    /\ read_buffer_ptr = Start(Inode.dataBlocks[data_block]) + block_location_ptr
    /\ \A i \in 0 .. Length - 1 :
           buffer[i] = IF i < read_success THEN FileByte(Offset + i) ELSE Untouched

AtEntry ==
    /\ read_success = 0
    /\ data_block = Offset \div DATA_BLOCK_SIZE
    /\ block_location_ptr = Offset % DATA_BLOCK_SIZE
    /\ \A i \in 0 .. Length - 1 : buffer[i] = Untouched

IInv ==
    /\ TypeOK
    /\ pc = "entry" => AtEntry
    /\ pc = "loop" => InLoop
    /\ ReadsTheRange
    /\ FailsForAReason

(* The request, and what the image says of the inode it names. *)
LEMMA Facts ==
    ASSUME request \in Requests
    PROVE  /\ Offset \in Nat /\ Offset <= LargestFile /\ LargestFile \in Nat
           /\ Length \in Nat /\ request.inode \in Nat
           /\ DATA_BLOCK_SIZE \in Nat \ {0}
           /\ request.inode < InodeCount =>
                  /\ Inode.length \in Nat
                  /\ Inode.length <= LargestFile
                  /\ Inode.dataBlocks \in [BlockIndex -> Nat]
<1>1. request \in [inode : Nat, offset : 0 .. LargestFile, length : Nat, null : BOOLEAN]
  BY RequestAssumption
<1>2. LargestFile \in Nat /\ DATA_BLOCK_SIZE \in Nat \ {0} /\ InodeCount \in Nat
  BY ImageAssumption, StartNat DEF LargestFile
<1>3. ASSUME request.inode < InodeCount
      PROVE  /\ Inode.length \in Nat /\ Inode.length <= LargestFile
             /\ Inode.dataBlocks \in [BlockIndex -> Nat]
  <2>1. request.inode \in 0 .. InodeCount - 1
    BY <1>1, <1>2, <1>3
  <2>2. Inode \in [length : 0 .. LargestFile, dataBlocks : [BlockIndex -> Nat]]
    BY <2>1, ImageAssumption DEF Inode
  <2> QED
    BY <2>2, <1>2
<1> QED
  BY <1>1, <1>2, <1>3 DEF Offset, Length

\* What a call asks for and what it finds.
LEMMA WantedFacts ==
    ASSUME request \in Requests, request.inode < InodeCount
    PROVE  /\ Wanted \in Nat /\ Wanted <= Length
           /\ Offset < Inode.length => /\ Wanted <= Inode.length - Offset
                                       /\ Wanted = Length \/ Wanted = Inode.length - Offset
BY Facts DEF Wanted

LEMMA Types ==
    ASSUME TypeOK
    PROVE  /\ request \in Requests
           /\ read_success \in Nat
           /\ block_location_ptr \in Nat /\ block_location_ptr <= DATA_BLOCK_SIZE
           /\ data_block \in BlockIndex /\ data_block \in Nat
           /\ Start(data_block) \in Nat
           /\ Start(data_block + 1) = Start(data_block) + DATA_BLOCK_SIZE
           /\ buffer \in [0 .. Length - 1 -> Byte \cup {Untouched}]
<1>1. INODE_MAX_BLOCK \in Nat /\ DATA_BLOCK_SIZE \in Nat
  BY ImageAssumption
<1>2. data_block \in BlockIndex /\ data_block \in Nat
  BY <1>1 DEF TypeOK, BlockIndex
<1> QED
  BY <1>1, <1>2, StartNat DEF TypeOK, Length

\* A call begins with nothing copied.
THEOREM InitInv == Init => IInv
<1> SUFFICES ASSUME Init PROVE IInv
  OBVIOUS
<1>1. request \in Requests
  BY DEF Init
<1>2. /\ data_block \in Nat
      /\ block_location_ptr \in 0 .. DATA_BLOCK_SIZE - 1
      /\ Start(data_block) + block_location_ptr = Offset
  BY <1>1, Facts, ModRange DEF Init, Offset
<1>3. data_block \in BlockIndex
  <2>1. Start(data_block) \in Nat
    BY <1>2, StartNat
  <2>2. Start(data_block) <= LargestFile
    BY <1>1, <1>2, <2>1, Facts
  <2> QED
    BY <1>2, <2>2, BlockBound
<1>4. TypeOK
  BY <1>1, <1>2, <1>3, Facts DEF Init, TypeOK
<1> QED
  BY <1>4 DEF Init, IInv, AtEntry, Offset, Length, ReadsTheRange, FailsForAReason

(* Copying one byte from the place the loop is at. *)
LEMMA CopyStep ==
    ASSUME IInv, pc = "loop", More,
           NEW d \in BlockIndex, NEW l \in 0 .. DATA_BLOCK_SIZE - 1,
           Start(d) + l = Offset + read_success, ~BadBlock(d),
           data_block' = d, CopyFrom(Start(Inode.dataBlocks[d]) + l, l)
    PROVE  IInv'
<1> DEFINE ptr == Start(Inode.dataBlocks[d]) + l
<1>1. /\ TypeOK /\ InLoop
      /\ request' = request /\ pc' = pc /\ ret' = ret
      /\ buffer' = [buffer EXCEPT ![read_success] = data[ptr]]
      /\ read_success' = read_success + 1
      /\ block_location_ptr' = l + 1
      /\ read_buffer_ptr' = ptr + 1
  BY DEF IInv, CopyFrom
<1>2. /\ request \in Requests /\ request.inode < InodeCount /\ Offset < Inode.length
      /\ ~request.null
      /\ read_success \in Nat /\ read_success < Length
      /\ read_success + Offset < Inode.length /\ read_success <= Wanted
  BY <1>1, Types DEF InLoop, More
<1>3. read_success < Wanted
  BY <1>2, Facts, WantedFacts
<1>4. d \in Nat /\ BlockCount \in Nat /\ DATA_BLOCK_SIZE \in Nat \ {0}
  BY ImageAssumption DEF BlockIndex
<1>5. Inode.dataBlocks[d] \in Nat /\ Inode.dataBlocks[d] < BlockCount
  BY <1>2, <1>4, Facts DEF BadBlock
<1>6. ptr \in Address /\ ptr \in Nat /\ Start(Inode.dataBlocks[d]) \in Nat /\ Start(d) \in Nat
  BY <1>4, <1>5, BlockAddress, StartNat
<1>7. data[ptr] \in Byte
  BY <1>6, ImageAssumption
<1>8. FileByte(Offset + read_success) = data[ptr]
  <2>1. /\ (Offset + read_success) \div DATA_BLOCK_SIZE = d
        /\ (Offset + read_success) % DATA_BLOCK_SIZE = l
    BY <1>4, DivMod
  <2> QED
    BY <2>1 DEF FileByte
<1>9. UNCHANGED <<Offset, Length, Inode, Wanted>>
  BY <1>1 DEF Offset, Length, Inode, Wanted
<1>10. TypeOK'
  <2>1. buffer' \in [0 .. request.length - 1 -> Byte \cup {Untouched}]
    BY <1>1, <1>7 DEF TypeOK
  <2>2. /\ read_success' \in Nat /\ block_location_ptr' \in 0 .. DATA_BLOCK_SIZE
        /\ data_block' \in BlockIndex /\ read_buffer_ptr' \in Nat
    BY <1>1, <1>2, <1>4, <1>6
  <2> QED
    BY <1>1, <2>1, <2>2 DEF TypeOK
<1>11. InLoop'
  <2>1. (request.inode < InodeCount /\ ~request.null)' /\ (Offset < Inode.length)' /\ (read_success <= Wanted)'
    BY <1>1, <1>2, <1>3, <1>9, Facts, WantedFacts
  <2>2. (Start(data_block) + block_location_ptr = Offset + read_success)'
    <3>1. Start(d) + (l + 1) = Offset + (read_success + 1)
      BY <1>2, <1>4, <1>6, Facts
    <3> QED
      BY <1>1, <1>9, <3>1 DEF Start
  <2>3. (~BadBlock(data_block))'
    BY <1>9 DEF BadBlock
  <2>4. (read_buffer_ptr = Start(Inode.dataBlocks[data_block]) + block_location_ptr)'
    <3>1. ptr + 1 = Start(Inode.dataBlocks[d]) + (l + 1)
      BY <1>4, <1>6
    <3> QED
      BY <1>1, <1>9, <3>1 DEF Start
  <2>5. ASSUME NEW i \in 0 .. Length - 1
        PROVE  buffer'[i] = IF i < read_success + 1 THEN FileByte(Offset + i) ELSE Untouched
    <3>1. buffer[i] = IF i < read_success THEN FileByte(Offset + i) ELSE Untouched
      BY <1>1 DEF InLoop
    <3>2. buffer \in [0 .. Length - 1 -> Byte \cup {Untouched}] /\ Length \in Nat
      BY <1>1, <1>2, Types, Facts
    <3>3. CASE i = read_success
      BY <1>1, <1>2, <1>8, <3>2, <3>3
    <3>4. CASE i # read_success
      <4>1. buffer'[i] = buffer[i]
        BY <1>1, <3>2, <3>4
      <4>2. (i < read_success + 1) <=> (i < read_success)
        BY <1>2, <3>2, <3>4
      <4> QED
        BY <3>1, <4>1, <4>2
    <3> QED
      BY <3>3, <3>4
  <2>6. \A k : FileByte(k)' = FileByte(k)
    BY <1>9 DEF FileByte, Start
  <2>7. (\A i \in 0 .. Length - 1 :
            buffer[i] = IF i < read_success THEN FileByte(Offset + i) ELSE Untouched)'
    BY <1>1, <1>9, <2>5, <2>6
  <2> QED
    BY <2>1, <2>2, <2>3, <2>4, <2>7 DEF InLoop
<1> QED
  BY <1>1, <1>10, <1>11 DEF IInv, ReadsTheRange, FailsForAReason

(* A step that ends the call changes no variable the results speak of.     *)
LEMMA DoneStep ==
    ASSUME TypeOK, pc' = "done", ret' \in Int,
           UNCHANGED <<request, read_success, block_location_ptr, data_block, read_buffer_ptr, buffer>>,
           ret' # -1 => /\ request.inode < InodeCount /\ ~request.null
                        /\ ret' = Wanted
                        /\ \A i \in 0 .. Length - 1 :
                               buffer[i] = IF i < Wanted THEN FileByte(Offset + i) ELSE Untouched,
           ret' = -1 => \/ request.inode >= InodeCount \/ request.null
                        \/ \E b \in NeededBlocks : Inode.dataBlocks[b] >= BlockCount
    PROVE  IInv'
<1>1. TypeOK'
  BY DEF TypeOK
<1>2. /\ UNCHANGED <<Offset, Length, Inode, Wanted, NeededBlocks>>
      /\ \A k : FileByte(k)' = FileByte(k)
  BY DEF Offset, Length, Inode, Wanted, NeededBlocks, FileByte
<1>3. ReadsTheRange'
  BY <1>2 DEF ReadsTheRange
<1>4. FailsForAReason'
  BY <1>2 DEF FailsForAReason
<1> QED
  BY <1>1, <1>3, <1>4 DEF IInv

\* The checks, the copy and the exits keep the invariant.
LEMMA StepInv == IInv /\ [Next]_vars => IInv'
<1> SUFFICES ASSUME IInv, [Next]_vars PROVE IInv'
  OBVIOUS
<1>t. /\ TypeOK
      /\ request \in Requests
      /\ read_success \in Nat /\ data_block \in Nat
  BY Types DEF IInv
<1>1. CASE Reject
  <2>1. request.inode < InodeCount /\ ~request.null =>
            data_block \in NeededBlocks /\ Inode.dataBlocks[data_block] >= BlockCount
    <3>1. data_block = (Offset + 0) \div DATA_BLOCK_SIZE
      BY <1>1, <1>t, Facts DEF Reject, IInv, AtEntry
    <3>2. data_block \in NeededBlocks
      BY <3>1 DEF NeededBlocks
    <3> QED
      BY <1>1, <3>2 DEF Reject, Refused, BadBlock
  <2>2. InodeCount \in Nat
    BY ImageAssumption
  <2> QED
    BY <1>1, <1>t, <2>1, <2>2, DoneStep, Facts DEF Reject, Return
<1>2. CASE NothingToRead
  <2>1. request.inode < InodeCount /\ ~request.null /\ (Offset < Inode.length => Length = 0)
    BY <1>2 DEF NothingToRead, Refused
  <2>2. Wanted = 0
    BY <1>t, <2>1, Facts DEF Wanted
  <2>3. \A i \in 0 .. Length - 1 : buffer[i] = Untouched
    BY <1>2 DEF NothingToRead, IInv, AtEntry
  <2>4. \A i \in 0 .. Length - 1 : ~(i < Wanted)
    BY <1>t, <2>2, Facts
  <2> QED
    BY <1>2, <1>t, <2>1, <2>2, <2>3, <2>4, DoneStep DEF NothingToRead, Return
<1>3. CASE Enter
  <2>1. /\ request' = request /\ read_success' = read_success
        /\ block_location_ptr' = block_location_ptr /\ data_block' = data_block
        /\ buffer' = buffer /\ ret' = ret
        /\ pc = "entry" /\ pc' = "loop"
        /\ read_buffer_ptr' = Start(Inode.dataBlocks[data_block]) + block_location_ptr
    BY <1>3 DEF Enter
  <2>2. request.inode < InodeCount /\ ~request.null /\ Offset < Inode.length /\ ~BadBlock(data_block)
    BY <1>3 DEF Enter, Refused
  <2>3. Start(Inode.dataBlocks[data_block]) \in Nat
    BY <1>t, <2>2, Types, Facts, StartNat
  <2>4. TypeOK'
    BY <1>t, <2>1, <2>3, Types DEF TypeOK
  <2>5. /\ read_success = 0
        /\ Start(data_block) + block_location_ptr = Offset
        /\ \A i \in 0 .. Length - 1 : buffer[i] = Untouched
    BY <1>t, <2>1, Facts, ModRange DEF IInv, AtEntry
  <2>6. /\ read_success <= Wanted
        /\ Start(data_block) + block_location_ptr = Offset + read_success
        /\ \A i \in 0 .. Length - 1 :
               buffer[i] = IF i < read_success THEN FileByte(Offset + i) ELSE Untouched
    <3>1. \A i \in 0 .. Length - 1 : ~(i < 0)
      BY <1>t, Facts
    <3> QED
      BY <1>t, <2>2, <2>5, <3>1, Facts, WantedFacts
  <2>7. /\ UNCHANGED <<Offset, Length, Inode, Wanted>>
        /\ \A k : FileByte(k)' = FileByte(k)
    BY <2>1 DEF Offset, Length, Inode, Wanted, FileByte
  <2>8. InLoop'
    BY <2>1, <2>2, <2>6, <2>7 DEF InLoop, BadBlock, Start
  <2> QED
    BY <2>1, <2>4, <2>8 DEF IInv, ReadsTheRange, FailsForAReason
<1>4. CASE CopyByte
  <2>1. /\ pc = "loop" /\ More /\ InLoop
        /\ data_block \in BlockIndex /\ block_location_ptr \in 0 .. DATA_BLOCK_SIZE - 1
    BY <1>4, <1>t, Types, Facts DEF CopyByte, IInv, PastBlock
  <2>2. CopyFrom(Start(Inode.dataBlocks[data_block]) + block_location_ptr, block_location_ptr)
    BY <1>4, <2>1 DEF CopyByte, InLoop
  <2> QED
    BY <1>4, <2>1, <2>2, CopyStep DEF CopyByte, InLoop
<1>5. CASE NextBlock
  <2>1. /\ pc = "loop" /\ More /\ InLoop /\ block_location_ptr = DATA_BLOCK_SIZE
        /\ ~BadBlock(data_block + 1)
    BY <1>5, <1>t, Types, Facts DEF NextBlock, IInv, PastBlock
  <2>2. Start(data_block + 1) + 0 = Offset + read_success
    BY <1>t, <2>1, Types, Facts DEF InLoop
  <2>3. data_block + 1 \in BlockIndex
    <3>1. Start(data_block + 1) <= LargestFile
      BY <1>t, <2>1, <2>2, Facts, Types DEF InLoop, More
    <3> QED
      BY <1>t, <3>1, BlockBound
  <2>4. CopyFrom(Start(Inode.dataBlocks[data_block + 1]) + 0, 0)
    <3>1. Start(Inode.dataBlocks[data_block + 1]) \in Nat
      BY <1>t, <2>1, <2>3, Facts, StartNat DEF InLoop
    <3> QED
      BY <1>5, <3>1 DEF NextBlock
  <2>5. 0 \in 0 .. DATA_BLOCK_SIZE - 1
    BY <1>t, Facts
  <2> QED
    BY <1>5, <2>1, <2>2, <2>3, <2>4, <2>5, CopyStep DEF NextBlock
<1>6. CASE FailInLoop
  <2>1. /\ InLoop /\ More /\ block_location_ptr = DATA_BLOCK_SIZE
        /\ Inode.dataBlocks[data_block + 1] >= BlockCount
    BY <1>6, <1>t, Types, Facts DEF FailInLoop, IInv, PastBlock, BadBlock
  <2>2. read_success \in 0 .. Wanted - 1
    BY <1>t, <2>1, Facts, WantedFacts DEF InLoop, More
  <2>3. Start(data_block + 1) + 0 = Offset + read_success
    BY <1>t, <2>1, Types, Facts DEF InLoop
  <2>4. (Offset + read_success) \div DATA_BLOCK_SIZE = data_block + 1
    <3>1. 0 \in 0 .. DATA_BLOCK_SIZE - 1
      BY <1>t, Facts
    <3>2. data_block + 1 \in Nat
      BY <1>t
    <3> QED
      BY <2>3, <3>1, <3>2, DivMod
  <2>5. data_block + 1 \in NeededBlocks
    BY <2>2, <2>4 DEF NeededBlocks
  <2> QED
    BY <1>6, <1>t, <2>1, <2>5, DoneStep DEF FailInLoop, Return
<1>7. CASE EndOfLoop
  <2>1. InLoop /\ ~More
    BY <1>7 DEF EndOfLoop, IInv
  <2>2. read_success = Wanted
    BY <1>t, <2>1, Facts, WantedFacts DEF InLoop, More
  <2>3. ret' = read_success /\ ret' \in Int /\ ret' # -1
    BY <1>7, <1>t DEF EndOfLoop, Return
  <2> QED
    BY <1>7, <1>t, <2>1, <2>2, <2>3, DoneStep DEF EndOfLoop, Return, InLoop
<1>8. CASE UNCHANGED vars
  BY <1>8 DEF vars, IInv, TypeOK, AtEntry, InLoop, ReadsTheRange, FailsForAReason, NeededBlocks,
              Offset, Length, Inode, Wanted, FileByte, BadBlock, More
<1> QED
  BY <1>1, <1>2, <1>3, <1>4, <1>5, <1>6, <1>7, <1>8 DEF Next

(* read_data, for every image and request: a call that succeeds returns    *)
(* the wanted part of the file and touches nothing else of the buffer.     *)
THEOREM ReadDataCorrect == Spec => []ReadsTheRange
<1>1. IInv => ReadsTheRange
  BY DEF IInv
<1> QED
  BY <1>1, InitInv, StepInv, PTL DEF Spec

(* read_data reads through its pointer only inside the data blocks of the  *)
(* image, in the block of the file it counts itself to be in.              *)
THEOREM PointerSafe == Spec => []PointerInBlock
<1>1. ASSUME IInv, pc = "loop", More
      PROVE  LET block == IF PastBlock THEN data_block + 1 ELSE data_block
             IN  /\ block \in BlockIndex
                 /\ ~PastBlock => /\ read_buffer_ptr \in Address
                                  /\ read_buffer_ptr \div DATA_BLOCK_SIZE = Inode.dataBlocks[block]
  <2>t. /\ InLoop /\ request \in Requests
        /\ read_success \in Nat /\ data_block \in Nat /\ data_block \in BlockIndex
        /\ block_location_ptr \in Nat /\ block_location_ptr <= DATA_BLOCK_SIZE
    BY <1>1, Types DEF IInv
  <2>1. CASE PastBlock
    <3>1. block_location_ptr = DATA_BLOCK_SIZE
      BY <2>t, <2>1, Facts DEF PastBlock
    <3>2. Start(data_block + 1) <= LargestFile
      BY <1>1, <2>t, <3>1, Facts, Types DEF IInv, InLoop, More
    <3> QED
      BY <2>t, <2>1, <3>2, BlockBound
  <2>2. CASE ~PastBlock
    <3>1. block_location_ptr \in 0 .. DATA_BLOCK_SIZE - 1
      BY <2>t, <2>2, Facts DEF PastBlock
    <3>2. Inode.dataBlocks[data_block] \in Nat /\ Inode.dataBlocks[data_block] < BlockCount
      BY <2>t, Facts, ImageAssumption DEF InLoop, BadBlock
    <3> QED
      BY <2>t, <2>2, <3>1, <3>2, BlockAddress, DivMod DEF InLoop
  <2> QED
    BY <2>1, <2>2
<1>2. IInv => PointerInBlock
  BY <1>1 DEF PointerInBlock
<1> QED
  BY <1>2, InitInv, StepInv, PTL DEF Spec

(* read_data never fails without an inode or a needed block out of range.  *)
THEOREM ReadDataFails == Spec => []FailsForAReason
<1>1. IInv => FailsForAReason
  BY DEF IInv
<1> QED
  BY <1>1, InitInv, StepInv, PTL DEF Spec

(* Types: the block counter stays an index of dataBlocks.                  *)
THEOREM TypeCorrect == Spec => []TypeOK
<1>1. IInv => TypeOK
  BY DEF IInv
<1> QED
  BY <1>1, InitInv, StepInv, PTL DEF Spec
=============================================================================
