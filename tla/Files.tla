-------------------------------- MODULE Files --------------------------------
(***************************************************************************)
(* File descriptors: open, close, read and write (systemCalls.c), what     *)
(* initPCB and halt do to a PCB's fdArray, the lookup of names and the     *)
(* file and directory reads behind a descriptor (fileSystem.c).            *)
(*                                                                         *)
(* Programs stand in one stack per terminal, as in ProcessTree, and the    *)
(* program in front of the displayed terminal makes the calls.  A call     *)
(* that fails changes nothing and is no step.  Files are read in units,    *)
(* which ReadData resolves into bytes.                                     *)
(***************************************************************************)
EXTENDS Integers, SequencesExt

CONSTANTS
    Pid, Term,
    MAX_FD,         \* pcb.h:13
    Directory,      \* the directory entries of the image, in order
    FileLength,     \* the length of each inode
    Names,          \* the names programs open
    Rates,          \* the frequencies rtcWrite accepts
    MaxOpen,        \* bound: descriptors in use beside stdin and stdout
    Habits          \* what careless programs do (AllHabits)

(* A program opens a file and runs another before it closes it; a listing  *)
(* of the directory is dropped half-way, or overlaps with another one.     *)
AllHabits == {"execute_with_open", "overlapping_listings"}

FILE_RTC == 0
FILE_DIR == 1
FILE_NORMAL == 2
Fd == 0 .. MAX_FD - 1
UserFd == 2 .. MAX_FD - 1
Entry == DOMAIN Directory

ASSUME FdAssumption == Pid \subseteq Nat /\ MAX_FD \in Nat /\ MAX_FD > 2 /\ {2, 1024} \subseteq Rates
ASSUME ImageAssumption ==
    /\ Len(Directory) \in Nat /\ Entry = 1 .. Len(Directory)
    /\ \A e \in Entry : /\ Directory[e].type \in {FILE_RTC, FILE_DIR, FILE_NORMAL}
                        /\ Directory[e].inode \in DOMAIN FileLength
    /\ \A i \in DOMAIN FileLength : FileLength[i] \in Nat
ASSUME HabitAssumption == Habits \subseteq AllHabits

VARIABLES
    tree,                   \* the stack of programs of each terminal
    currentTerminal,
    fdArray,                \* the descriptors of each PCB
    directory_read_count,   \* one position for all directory descriptors
    frequency,              \* of the RTC
    stream                  \* history: the entry each program opened at an fd,
                            \* what it read there since, and if it saw the end

vars == <<tree, currentTerminal, fdArray, directory_read_count, frequency, stream>>

Running == Last(tree[currentTerminal])
Live == UNION {ToSet(tree[t]) : t \in Term}

NoStream == [entry |-> 0, got |-> <<>>, ended |-> FALSE]

(* open writes every other field of a descriptor before any is read, so    *)
(* what a closed one still holds is left out.                              *)
Unused == [ops |-> "none", inode |-> 0, filePos |-> 0, inUse |-> FALSE]
StdStream(ops) == [Unused EXCEPT !.ops = ops, !.inUse = TRUE]

\* Mutant: the descriptors of an earlier process of the pid stay in use.
NewPCBKept(old) == [old EXCEPT ![0] = StdStream("stdin"), ![1] = StdStream("stdout")]

(* initPCB, on a PCB that held the descriptors old. *)
NewPCB(old) == [fd \in Fd |-> CASE fd = 0 -> StdStream("stdin") [] fd = 1 -> StdStream("stdout")
                               [] OTHER -> Unused]
AllUnused == [fd \in Fd |-> Unused]

Init ==
    /\ tree \in [Term -> {<<p>> : p \in Pid}]
    /\ \A t, u \in Term : t # u => tree[t] # tree[u]
    /\ currentTerminal \in Term
    /\ fdArray = [p \in Pid |-> IF p \in Live THEN NewPCB(AllUnused) ELSE AllUnused]
    /\ directory_read_count = 0
    /\ frequency = 1024
    /\ stream = [p \in Pid |-> [fd \in Fd |-> NoStream]]

-----------------------------------------------------------------------------
(* fileSystem.c *)

(* Same length and same characters but the last, which is not compared: a  *)
(* name is its stem, all its characters but the last, and that last one.   *)
Matches(e, name) == Directory[e].name.stem = name.stem

(* read_dentry_by_name finds e. *)
DentryByName(name, e) == Matches(e, name) /\ \A f \in 1 .. e - 1 : ~Matches(f, name)

\* Mutant: the position does not grow.
AdvanceNot(read, n) == 0

(* filePos += read *)
Advance(read, n) == read

(* fs_read of up to n units of the file at fd. *)
ReadFile(fd, n) ==
    LET p    == Running
        d    == fdArray[p][fd]
        s    == stream[p][fd]
        left == FileLength[d.inode] - d.filePos
        read == CASE left <= 0 -> 0 [] left < n -> left [] OTHER -> n
    IN  /\ fdArray' = [fdArray EXCEPT ![p][fd] = [d EXCEPT !.filePos = @ + Advance(read, n)]]
        /\ stream' = [stream EXCEPT
                        ![p][fd] = [s EXCEPT !.got = @ \o [k \in 1 .. read |-> d.filePos + k],
                                             !.ended = (read = 0)]]
        /\ UNCHANGED directory_read_count

\* Mutant: the last entry is never listed.
NoMoreEntriesEarly == directory_read_count >= Len(Directory) - 1

(* read_dentry_by_index fails. *)
NoMoreEntries == directory_read_count >= Len(Directory)

(* A listing between its first read and the read that returns 0. *)
Listing(p, fd) ==
    /\ fdArray[p][fd].ops = "dir" /\ fdArray[p][fd].inUse
    /\ stream[p][fd].got # <<>> /\ ~stream[p][fd].ended
MayList(p, fd) == \/ "overlapping_listings" \in Habits
                  \/ \A q \in Live, f \in UserFd : Listing(q, f) => q = p /\ f = fd
MayDrop(p, fd) == "overlapping_listings" \in Habits \/ ~Listing(p, fd)

(* fs_read_directory.  A listing that has ended starts again. *)
ReadDirectory(fd) ==
    LET p    == Running
        s    == stream[p][fd]
        past == IF s.ended THEN <<>> ELSE s.got
    IN  /\ MayList(p, fd)
        /\ directory_read_count' = IF NoMoreEntries THEN 0 ELSE directory_read_count + 1
        /\ stream' = [stream EXCEPT
                        ![p][fd] = [s EXCEPT !.got = IF NoMoreEntries THEN past
                                                     ELSE Append(past, directory_read_count + 1),
                                             !.ended = NoMoreEntries]]
        /\ UNCHANGED fdArray

-----------------------------------------------------------------------------
(* System calls on descriptors *)

FreeFd(p, fd) == ~fdArray[p][fd].inUse /\ \A f \in UserFd : f < fd => fdArray[p][f].inUse

OpsOf(type) == CASE type = FILE_RTC -> "rtc" [] type = FILE_DIR -> "dir" [] type = FILE_NORMAL -> "file"

(* The descriptor open fills for entry e. *)
Descriptor(e, pos) ==
    [ops     |-> OpsOf(Directory[e].type),
     inode   |-> IF Directory[e].type = FILE_NORMAL THEN Directory[e].inode ELSE 0,
     filePos |-> pos,
     inUse   |-> TRUE]

(* The entry a program means by a name: the one with that very name. *)
Meant(name) == {e \in Entry : Directory[e].name = name}

(* rtcOpen sets the clock to 2 Hz. *)
Open(name) ==
    LET p == Running IN
    \E e \in Entry, fd \in UserFd :
        /\ DentryByName(name, e)
        /\ FreeFd(p, fd)
        /\ Cardinality({d \in Pid \X UserFd : fdArray[d[1]][d[2]].inUse}) < MaxOpen
        /\ fdArray' = [fdArray EXCEPT ![p][fd] = Descriptor(e, 0)]
        /\ frequency' = IF Directory[e].type = FILE_RTC THEN 2 ELSE frequency
        /\ stream' = [stream EXCEPT ![p][fd] =
                        [NoStream EXCEPT !.entry = IF Meant(name) = {} THEN 0
                                                   ELSE CHOOSE f \in Meant(name) : TRUE]]
        /\ UNCHANGED <<tree, currentTerminal, directory_read_count>>

(* The close operations of all types only return 0. *)
Close(fd) ==
    LET p == Running IN
    /\ fdArray[p][fd].inUse /\ MayDrop(p, fd)
    /\ fdArray' = [fdArray EXCEPT ![p][fd] = Unused]
    /\ stream' = [stream EXCEPT ![p][fd] = NoStream]
    /\ UNCHANGED <<tree, currentTerminal, directory_read_count, frequency>>

(* The terminal and the RTC leave descriptors alone. *)
Read(fd, n) ==
    /\ fdArray[Running][fd].inUse
    /\ \/ fdArray[Running][fd].ops = "file" /\ ReadFile(fd, n)
       \/ fdArray[Running][fd].ops = "dir" /\ ReadDirectory(fd)
    /\ UNCHANGED <<tree, currentTerminal, frequency>>

(* Files and the directory refuse to be written. *)
Write(fd, rate) ==
    /\ fdArray[Running][fd].inUse /\ fdArray[Running][fd].ops = "rtc"
    /\ frequency' = rate
    /\ UNCHANGED <<tree, currentTerminal, fdArray, directory_read_count, stream>>

-----------------------------------------------------------------------------
(* Processes come and go *)

UnusedPid(p, used) == p \in Pid \ used /\ \A q \in Pid \ used : p <= q

\* execute: getUnusedProcessID, initPCB.
Execute ==
    /\ "execute_with_open" \in Habits \/ \A fd \in UserFd : ~fdArray[Running][fd].inUse
    /\ \E p \in Pid :
         /\ UnusedPid(p, Live)
         /\ tree' = [tree EXCEPT ![currentTerminal] = Append(@, p)]
         /\ fdArray' = [fdArray EXCEPT ![p] = NewPCB(@)]
    /\ UNCHANGED <<currentTerminal, directory_read_count, frequency, stream>>

(* close(fd) for each open descriptor of the child: by then the current    *)
(* process is the parent, and close acts on its descriptor.                *)
ClosedBy(parent, child) ==
    [fd \in Fd |-> IF fd \in UserFd /\ child[fd].inUse THEN Unused
                   ELSE parent[fd]]

HaltChild ==
    LET p == Running
        q == tree[currentTerminal][Len(tree[currentTerminal]) - 1]
    IN  /\ Len(tree[currentTerminal]) > 1
        /\ \A fd \in UserFd : MayDrop(p, fd)
        /\ tree' = [tree EXCEPT ![currentTerminal] = Front(@)]
        /\ fdArray' = [fdArray EXCEPT ![q] = ClosedBy(@, fdArray[p]), ![p] = AllUnused]
        /\ stream' = [stream EXCEPT ![p] = [fd \in Fd |-> NoStream]]
        /\ UNCHANGED <<currentTerminal, directory_read_count, frequency>>

(* The base shell gives up its pid and executes a new shell, which may     *)
(* take the same pid; nothing is closed.                                   *)
HaltBase ==
    LET p == Running IN
    /\ Len(tree[currentTerminal]) = 1
    /\ \A fd \in UserFd : MayDrop(p, fd)
    /\ \E q \in Pid :
         /\ UnusedPid(q, Live \ {p})
         /\ tree' = [tree EXCEPT ![currentTerminal] = <<q>>]
         /\ fdArray' = [fdArray EXCEPT ![q] = NewPCB(@)]
    /\ stream' = [stream EXCEPT ![p] = [fd \in Fd |-> NoStream]]
    /\ UNCHANGED <<currentTerminal, directory_read_count, frequency>>

(* F1-F3 and the switch of TaskSwitch. *)
SwitchTerminal(t) ==
    /\ currentTerminal' = t
    /\ UNCHANGED <<tree, fdArray, directory_read_count, frequency, stream>>

Next ==
    \/ \E name \in Names : Open(name)
    \/ \E fd \in UserFd : Close(fd) \/ (\E n \in 1 .. 2 : Read(fd, n)) \/ \E r \in Rates : Write(fd, r)
    \/ Execute \/ HaltChild \/ HaltBase
    \/ \E t \in Term : SwitchTerminal(t)

Spec == Init /\ [][Next]_vars

-----------------------------------------------------------------------------
MaxLength == Max({Len(Directory)} \cup Range(FileLength))

TypeOK ==
    /\ tree \in [Term -> Seq(Pid) \ {<<>>}]
    /\ currentTerminal \in Term
    /\ fdArray \in [Pid -> [Fd -> [ops : {"none", "stdin", "stdout", "rtc", "dir", "file"},
                                   inode : DOMAIN FileLength, filePos : 0 .. MaxLength,
                                   inUse : BOOLEAN]]]
    /\ directory_read_count \in 0 .. Len(Directory)
    /\ frequency \in Rates
    /\ stream \in [Pid -> [Fd -> [entry : Entry \cup {0}, got : Seq(1 .. MaxLength), ended : BOOLEAN]]]

(* The descriptors of every running program are those it opened itself and *)
(* did not close, each for the entry whose name it gave, and the terminal's *)
(* two, whatever other programs start, halt and do meanwhile.              *)
DescriptorsAsOpened ==
    \A p \in Live :
        /\ fdArray[p][0].inUse /\ fdArray[p][1].inUse
        /\ \A fd \in UserFd :
             LET e == stream[p][fd].entry IN
             /\ fdArray[p][fd].inUse <=> e # 0
             /\ e # 0 => fdArray[p][fd] = Descriptor(e, fdArray[p][fd].filePos)

(* The reads on a descriptor return a file from its first unit on, each    *)
(* unit once, though every program reads through descriptors of its own.   *)
ReadsInOrder ==
    \A p \in Live, fd \in UserFd :
        \A k \in 1 .. Len(stream[p][fd].got) : stream[p][fd].got[k] = k

(* A read returns 0 only when the file or the directory was read to its    *)
(* end: the loops of cat and ls stop with all of it.                       *)
EndMeansAll ==
    \A p \in Live, fd \in UserFd :
        LET s == stream[p][fd] IN
        s.ended => s.got = [k \in 1 .. IF Directory[s.entry].type = FILE_DIR THEN Len(Directory)
                                       ELSE FileLength[Directory[s.entry].inode] |-> k]
=============================================================================
