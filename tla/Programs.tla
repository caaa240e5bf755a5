------------------------------ MODULE Programs ------------------------------
(***************************************************************************)
(* What the kernel does for programs, above the process stacks of          *)
(* ProcessTree: the command line that execute takes apart and getargs      *)
(* hands out, the status that halt passes to the waiting execute, and the  *)
(* page through which vidmap shows the screen (systemCalls.c, paging.c).   *)
(* A system call is one step here: TaskSwitch takes execute and halt       *)
(* apart and implements ProcessTree.                                       *)
(***************************************************************************)
EXTENDS ProcessTree

CONSTANTS
    KEYBOARD_BUFFER_SIZE, \* systemCalls.h:88; how far execute searches
    Lines,                \* command lines that programs pass to execute
    Executables,          \* names in the directory with an ELF header
    Behind,               \* text found KEYBOARD_BUFFER_SIZE bytes into a command
    FrameText,            \* texts a new program's frame may hold at that address
    BehindLiteral,        \* text execute finds behind the kernel's own "shell"
    Requests,             \* nbytes that programs pass to getargs
    PageStart, PageSize, PointerSize,   \* 128MB, 4MB and 4 bytes, scaled down
    Addresses,            \* pointers that programs pass to vidmap
    ExitValues,           \* values that programs pass to halt
    Habits,               \* what programs and users also do, see below
    MaxExecs              \* bound: execute calls of programs in a behaviour

(* Habits: "switch_at_copy" - the user leaves the terminal and comes back  *)
(* while execute is about to copy the arguments; "two_mappers" - a program *)
(* calls vidmap while another that did lives.                              *)
ASSUME ProgramAssumption ==
    /\ Pid \subseteq Nat
    /\ KEYBOARD_BUFFER_SIZE \in Nat \ {0} /\ MaxExecs \in Nat
    /\ PageStart \in Nat \ {0} /\ PageSize \in Nat /\ PointerSize \in Nat \ {0}
    /\ Requests \subseteq Int /\ Addresses \subseteq Nat /\ ExitValues \subseteq Nat
    /\ Habits \subseteq {"switch_at_copy", "two_mappers"}

VARIABLES
    arguments, vidMap_flag,   \* fields of each PCB
    video_page,   \* page_directory[33] and video_table[0] are present
    result,       \* what the call that returned last gave to its program
    execs,
    typed,        \* history: the arguments each process was started with
    mapper_gone   \* history: a program that had mapped the screen has halted

pvars == <<arguments, vidMap_flag, video_page, result, execs, typed, mapper_gone>>
allvars == <<vars, pvars>>

NUL == "nul"
Char == (UNION {{line[i] : i \in 1 .. Len(line)} : line \in Lines}) \cup {NUL}
\* A typed line is text without a NUL, one shorter than the buffer at most
\* (terminalRead); the kernel's own command and old memory are text.
ASSUME TextAssumption ==
    /\ Lines \subseteq Seq(Char \ {NUL})
    /\ \A line \in Lines : Len(line) < KEYBOARD_BUFFER_SIZE
    /\ \A text \in BehindLiteral \cup FrameText : text \in Seq({text[k] : k \in 1 .. Len(text)})

NoCall == [call |-> "none"]

Front == tree[fg][Len(tree[fg])]
IsBase == Len(tree[fg]) = 1
\* A program runs on the screen, and every terminal has been opened.
Running == opened = Term /\ tree[fg] # <<>>

-----------------------------------------------------------------------------
(* execute's command line *)

Cells == 0 .. KEYBOARD_BUFFER_SIZE - 1

\* The first index of S from i on, or the end of the search.
FirstIn(S, i) ==
    IF \E j \in S : j >= i THEN CHOOSE j \in S : j >= i /\ \A k \in S : k >= i => j <= k
    ELSE KEYBOARD_BUFFER_SIZE

IsIn(b, chars) == {i \in Cells : b[i] \in chars}
Not(b, chars)  == Cells \ IsIn(b, chars)

\* terminalRead clears KEYBOARD_BUFFER_SIZE bytes before it copies the line, and
\* the shell puts a NUL for the newline.
Read(line) == [i \in Cells |-> IF i < Len(line) THEN line[i + 1] ELSE NUL]

\* strcpy from index i on.
Text(b, i) ==
    LET e == FirstIn(IsIn(b, {NUL}), i) IN
    [k \in 1 .. e - i |-> b[i + k - 1]] \o (IF e = KEYBOARD_BUFFER_SIZE THEN Behind ELSE <<>>)

fnIdx(b) == FirstIn(Not(b, {" "}), 0)
NameEnd(b) == FirstIn(IsIn(b, {" "}), fnIdx(b))

argIdx(b) == FirstIn(Not(b, {" "}), NameEnd(b))

\* read_dentry_by_name looks at the copy up to the first blank.
Name(b) ==
    LET e == FirstIn(IsIn(b, {" ", NUL}), fnIdx(b)) IN
    [k \in 1 .. e - fnIdx(b) |-> b[fnIdx(b) + k - 1]]

Acceptable(b) == IsIn(b, {NUL}) # {} /\ Name(b) \in Executables

\* The copy of the arguments reads user memory: the caller's, unless a switch
\* away and back has mapped the frame of the new program instead.
ArgumentsRead(b) ==
    {Text(b, argIdx(b))} \cup (IF "switch_at_copy" \in Habits THEN FrameText ELSE {})

\* What the user means by arguments: the rest after blanks, a word, blanks.
TypedArgs(line) ==
    CHOOSE a \in {SubSeq(line, m, Len(line)) : m \in 1 .. Len(line) + 1} :
        \E i, j \in 0 .. Len(line) :
            /\ i <= j /\ j + Len(a) <= Len(line)
            /\ \A k \in 1 .. i : line[k] = " "
            /\ \A k \in i + 1 .. j : line[k] # " "
            /\ \A k \in j + 1 .. Len(line) - Len(a) : line[k] = " "
            /\ i = j => a = <<>>
            /\ a # <<>> => a[1] # " " /\ j < Len(line) - Len(a)

-----------------------------------------------------------------------------
(* Starting programs *)

\* getUnusedProcessID returns p, which Spawn finds free: no lower one is.
UnusedProcessID(p) == \A q \in Pid : q < p => q \in Alive

\* Mutant: initPCB leaves the flag of the process that had the PCB before.
InitFlagKept(p) == vidMap_flag

InitFlag(p) == [vidMap_flag EXCEPT ![p] = 0]

\* execute from the PCB on.
StartProgram(p, args) ==
    /\ Spawn(p)
    /\ arguments' = [arguments EXCEPT ![p] = args]
    /\ vidMap_flag' = InitFlag(p)
    /\ result' = NoCall
    /\ UNCHANGED <<video_page, mapper_gone>>

\* execute("shell") of switchTerminal and of halt.
ShellStarts ==
    /\ fg \in opened /\ tree[fg] = <<>>
    /\ \E p \in Pid, args \in BehindLiteral :
          UnusedProcessID(p) /\ StartProgram(p, args) /\ typed' = [typed EXCEPT ![p] = args]
    /\ UNCHANGED execs

\* The program in front passes a line it has read to execute.
Commanded == Running /\ execs < MaxExecs /\ execs' = execs + 1

Execute(line) ==
    /\ Commanded
    /\ Acceptable(Read(line))
    /\ \E p \in Pid, args \in ArgumentsRead(Read(line)) :
          /\ UnusedProcessID(p)
          /\ StartProgram(p, args)
          /\ typed' = [typed EXCEPT ![p] = TypedArgs(line)]

ExecuteFails(line) ==
    /\ Commanded
    /\ ~Acceptable(Read(line)) \/ Pid \subseteq Alive
    /\ result' = [call |-> "execute", rv |-> -1, end |-> "not started", value |-> 0]
    /\ UNCHANGED <<vars, arguments, vidMap_flag, video_page, typed, mapper_gone>>

-----------------------------------------------------------------------------
(* Ending programs *)

EXCEPTION_STATUS == 256

\* Mutant: halt passes its argument on as it is.
StatusRaw(value) == value

\* status is a byte; 255 is what the exception handlers pass.
Status(value) == IF value % 256 = 255 THEN EXCEPTION_STATUS ELSE value % 256

\* Mutant: the page is never reclaimed.
ReclaimNever(p) == video_page

Reclaim(p) == IF vidMap_flag[p] = 1 THEN FALSE ELSE video_page

\* The parent's execute returns; a base shell is replaced (ShellStarts)
\* before anything is reclaimed.
Ends(value, end) ==
    /\ Running
    /\ Exit
    /\ IF IsBase
       THEN result' = NoCall /\ UNCHANGED <<video_page, mapper_gone>>
       ELSE /\ result' = [call |-> "execute", rv |-> Status(value), end |-> end, value |-> value]
            /\ video_page' = Reclaim(Front)
            /\ mapper_gone' = (mapper_gone \/ vidMap_flag[Front] = 1)
    /\ UNCHANGED <<arguments, vidMap_flag, execs, typed>>

Halt(value) == Ends(value, "halt")

\* Every exception handler calls halt(-1).
Exception == Ends(255, "exception")

-----------------------------------------------------------------------------
(* getargs and vidmap *)

\* Mutant: the bytes behind the text are cleared only inside the buffer.
StrNCpyShort(src, n) == [i \in 0 .. n - 1 |-> IF i < Len(src) THEN src[i + 1] ELSE NUL]

\* lib.c's strncpy stores n + 1 bytes.
StrNCpy(src, n) == [i \in 0 .. n |-> IF i < Len(src) THEN src[i + 1] ELSE NUL]

GetArgs(nbytes) ==
    LET args == arguments[Front] IN
    /\ Running /\ ~IsBase
    /\ result' =
         IF nbytes <= 0 \/ args = <<>> \/ Len(args) > nbytes
         THEN [call |-> "getargs", rv |-> -1, nbytes |-> nbytes, stored |-> <<>>]
         ELSE [call |-> "getargs", rv |-> 0, nbytes |-> nbytes, stored |-> StrNCpy(args, nbytes)]
    /\ UNCHANGED <<vars, arguments, vidMap_flag, video_page, execs, typed, mapper_gone>>

\* Mutant: the lower bound of the program's page is not checked.
BelowAllowed(a) == a # 0 /\ a <= PageStart + PageSize

\* NULL and addresses outside of the program's page are refused, its end is not.
InBounds(a) == a # 0 /\ a >= PageStart /\ a <= PageStart + PageSize

\* Mutant: vidMap_flag counts the calls.
MarkedCount(flag) == flag + 1

Marked(flag) == 1

VidMap(a) ==
    /\ Running /\ ~IsBase
    /\ "two_mappers" \notin Habits => \A q \in Alive \ {Front} : vidMap_flag[q] = 0
    /\ IF InBounds(a)
       THEN /\ vidMap_flag' = [vidMap_flag EXCEPT ![Front] = Marked(@)]
            /\ video_page' = TRUE
            /\ result' = [call |-> "vidmap", rv |-> PageStart + PageSize,
                          bytes |-> a .. a + PointerSize - 1]
       ELSE /\ result' = [call |-> "vidmap", rv |-> -1, bytes |-> {}]
            /\ UNCHANGED <<vidMap_flag, video_page>>
    /\ UNCHANGED <<vars, arguments, execs, typed, mapper_gone>>

-----------------------------------------------------------------------------
(* init_paging maps the page, so it is present until it is first reclaimed *)

ProgramInit ==
    /\ Init
    /\ arguments = [p \in Pid |-> <<>>]
    /\ vidMap_flag = [p \in Pid |-> 0]
    /\ video_page = TRUE
    /\ result = NoCall
    /\ execs = 0
    /\ typed = [p \in Pid |-> <<>>]
    /\ mapper_gone = FALSE

\* switchTerminal touches nothing of this.  It may leave a terminal without a
\* process (at power-on it does not: interrupts are off until the shell runs).
Show(t) ==
    /\ Open(t) \/ Focus(t)
    /\ result' = NoCall
    /\ UNCHANGED <<arguments, vidMap_flag, video_page, execs, typed, mapper_gone>>

ProgramNext ==
    \/ \E t \in Term : Show(t)
    \/ ShellStarts
    \/ \E line \in Lines : Execute(line) \/ ExecuteFails(line)
    \/ \E value \in ExitValues : Halt(value)
    \/ Exception
    \/ \E nbytes \in Requests : GetArgs(nbytes)
    \/ \E a \in Addresses : VidMap(a)

ProgramSpec == ProgramInit /\ [][ProgramNext]_allvars

-----------------------------------------------------------------------------
\* The screen page is a flag of the machine and of each PCB, every process has
\* arguments, and a result is that of one of the three calls.
ProgramTypeOK ==
    /\ TypeOK
    /\ DOMAIN arguments = Pid /\ DOMAIN typed = Pid
    /\ vidMap_flag \in [Pid -> {0, 1}]
    /\ video_page \in BOOLEAN /\ mapper_gone \in BOOLEAN
    /\ execs \in 0 .. MaxExecs
    /\ result.call \in {"none", "execute", "getargs", "vidmap"}

\* A program that mapped the screen finds its page there until it halts,
\* whatever other programs start and end meanwhile, on any terminal.
MapperKeepsScreen == \A p \in Alive : vidMap_flag[p] = 1 => video_page

\* Once a program that mapped the screen has halted, the page is there only
\* for a program that maps it now.
ScreenPageReclaimed == mapper_gone /\ video_page => \E p \in Alive : vidMap_flag[p] = 1

\* The pointer that vidmap stores lies in the program's page.
PointerStoredInPage ==
    result.call = "vidmap" => result.bytes \subseteq PageStart .. PageStart + PageSize - 1

\* getargs delivers what was typed when its program was started, whatever was
\* typed before and since, with the NUL its reader looks for, when it fits,
\* and fails otherwise.
GetargsDelivers ==
    result.call = "getargs" =>
        LET args == typed[Front] IN
        IF args # <<>> /\ Len(args) <= result.nbytes
        THEN /\ result.rv = 0
             /\ 0 .. Len(args) \subseteq DOMAIN result.stored
             /\ \A i \in 1 .. Len(args) : result.stored[i - 1] = args[i]
             /\ result.stored[Len(args)] = NUL
        ELSE result.rv = -1

\* What execute returns tells its caller apart: the command did not start,
\* it died of an exception, it ended well, it ended with a value of its own.
StatusTells ==
    result.call = "execute" =>
        /\ result.rv = -1 <=> result.end = "not started"
        /\ result.rv = EXCEPTION_STATUS <=> result.end = "exception"
        /\ result.end = "halt" => result.rv = result.value
=============================================================================
