--------------------------- MODULE LineDiscipline ---------------------------
(***************************************************************************)
(* The keyboard interrupt handler (keyboard.c), the line it edits in the   *)
(* one keyboard_buffer, the copies switchScreen keeps for the terminals    *)
(* that are not displayed, and terminalRead (terminal.c), which polls a    *)
(* flag and then takes the line with interrupts enabled.                   *)
(*                                                                         *)
(* Terminals are all open, as they are once the timer has booted them; the *)
(* process of the displayed terminal is the one that runs (TaskSwitch).  A *)
(* handler runs with interrupts off, so it is one action; terminalRead is  *)
(* one action for each access to what the handler shares with it.          *)
(***************************************************************************)
EXTENDS Integers, Sequences

CONSTANTS
    KEYBOARD_BUFFER_SIZE,   \* terminal.h:8
    MAX_TERMINAL_NUMBER,    \* terminal.h:44
    TabWidth,               \* spaces a Tab key adds (keyboard.c:44-46)
    Letters,                \* the printable characters but the space
    Requests,               \* nbytes that programs pass to read
    BootContents,           \* what the uninitialised buffers may hold at boot
    Windows,                \* the moments at which keys are pressed (AllWindows)
    MaxLines                \* bound: lines entered and not yet read, per terminal

(* A key pressed at a bad moment: a Tab near the end of the buffer; any key *)
(* from the Enter of a line to the return of the read that takes it; a     *)
(* terminal key in that time; a terminal key while the buffer holds no NUL *)
(* and no newline.  A calm user presses none of these.  And a program that *)
(* reads less than a whole buffer.                                         *)
AllWindows == {"tab", "typeahead", "switch", "unterminated", "short_read"}

NUL == "NUL"
NewLine == "newline"
Space == "space"
Chars == Letters \cup {Space}
Cell  == Chars \cup {NUL, NewLine}
Index == 0 .. KEYBOARD_BUFFER_SIZE - 1
Term  == 0 .. MAX_TERMINAL_NUMBER - 1
Buffer == [Index -> Cell]
Blank  == [i \in Index |-> NUL]
Terminated(buf) == \E i \in Index : buf[i] \in {NUL, NewLine}

ASSUME SizeAssumption ==
    /\ KEYBOARD_BUFFER_SIZE \in Nat \ {0, 1}
    /\ MAX_TERMINAL_NUMBER \in Nat \ {0}
    /\ TabWidth \in Nat \ {0}
    /\ MaxLines \in Nat \ {0}
    /\ Requests \subseteq Int
ASSUME CharAssumption == Letters \cap {NUL, NewLine, Space} = {}
ASSUME EnvironmentAssumption ==
    /\ Windows \subseteq AllWindows
    /\ BootContents \subseteq {buf \in Buffer : Terminated(buf)}
    /\ BootContents # {}

VARIABLES
    keyboard,                \* keyboard_buffer and keyboard_buffer_idx
    return_from_sys_write,   \* "a line is ready": one flag for all terminals
    available_terminals,     \* the saved keyboard buffer and index of each
    currentTerminal,
    overrun,                 \* a store went past the end of an array
    reader,                  \* terminalRead, as the process of each terminal runs it
    typed,                   \* history: the line being typed on each terminal
    entered                  \* history: the lines entered there and not yet read

kernel  == <<keyboard, return_from_sys_write, available_terminals, currentTerminal, overrun>>
history == <<typed, entered>>
vars == <<kernel, reader, history>>

TypeOK ==
    /\ keyboard \in [buf : Buffer, idx : Nat]
    /\ return_from_sys_write \in {0, 1}
    /\ available_terminals \in [Term -> [buf : Buffer, idx : Nat]]
    /\ currentTerminal \in Term
    /\ overrun \in BOOLEAN
    /\ reader \in [Term -> [pc  : {"run", "wait", "clear", "copy", "flag", "wipe", "reset", "done"},
                            i   : Index,
                            out : Buffer,
                            nbytes : Nat]]
    /\ typed \in [Term -> Seq(Chars)]
    /\ entered \in [Term -> Seq(Seq(Chars))]

\* out: the KEYBOARD_BUFFER_SIZE bytes from the caller's pointer on.
AtRest == [pc |-> "run", i |-> 0, out |-> Blank, nbytes |-> 0]

(* After boot: the saved buffers come from an uninitialised local of       *)
(* initTerminals, and the displayed one from the switch to the last shell. *)
Init ==
    /\ keyboard \in [buf : BootContents, idx : {0}]
    /\ return_from_sys_write = 0
    /\ available_terminals \in [Term -> [buf : BootContents, idx : {0}]]
    /\ currentTerminal = MAX_TERMINAL_NUMBER - 1
    /\ overrun = FALSE
    /\ reader = [t \in Term |-> AtRest]
    /\ typed = [t \in Term |-> <<>>]
    /\ entered = [t \in Term |-> <<>>]

-----------------------------------------------------------------------------
(* keyboardHandler.                                                        *)

\* Mutant: off by one.
FullOffByOne == keyboard.idx > KEYBOARD_BUFFER_SIZE

Full == keyboard.idx >= KEYBOARD_BUFFER_SIZE

(* A line is between its Enter key and the return of the read that takes it *)
LineInFlight ==
    \/ return_from_sys_write = 1
    \/ reader[currentTerminal].pc \notin {"run", "wait"}

MayType   == "typeahead" \in Windows \/ ~LineInFlight
MaySwitch == /\ "switch" \in Windows \/ ~LineInFlight
             /\ "unterminated" \in Windows \/ Terminated(keyboard.buf)
MayTab    == "tab" \in Windows \/ keyboard.idx + TabWidth <= KEYBOARD_BUFFER_SIZE

(* add_char_to_keyboard_buffer checks nothing: past the end of the array it *)
(* writes over whatever follows.                                           *)
Add(kb, c) == [buf |-> IF kb.idx \in Index THEN [kb.buf EXCEPT ![kb.idx] = c] ELSE kb.buf,
               idx |-> kb.idx + 1]

KeyChar(c) ==
    /\ MayType
    /\ ~Full
    /\ keyboard' = Add(keyboard, c)
    /\ typed' = [typed EXCEPT ![currentTerminal] = Append(@, c)]
    /\ UNCHANGED <<return_from_sys_write, available_terminals, currentTerminal, overrun,
                   reader, entered>>

(* The buffer is tested once for the four spaces. *)
KeyTab ==
    /\ MayType /\ MayTab
    /\ ~Full
    /\ keyboard' = [buf |-> [i \in Index |-> IF i \in keyboard.idx .. keyboard.idx + TabWidth - 1
                                             THEN Space ELSE keyboard.buf[i]],
                    idx |-> keyboard.idx + TabWidth]
    /\ overrun' = (overrun \/ keyboard'.idx > KEYBOARD_BUFFER_SIZE)
    /\ typed' = [typed EXCEPT ![currentTerminal] = @ \o [k \in 1 .. TabWidth |-> Space]]
    /\ UNCHANGED <<return_from_sys_write, available_terminals, currentTerminal, reader, entered>>

KeyBackspace ==
    /\ MayType
    /\ keyboard.idx > 0
    /\ keyboard' = [keyboard EXCEPT !.idx = @ - 1]
    /\ typed' = [typed EXCEPT ![currentTerminal] =
                    IF @ = <<>> THEN @ ELSE SubSeq(@, 1, Len(@) - 1)]
    /\ UNCHANGED <<return_from_sys_write, available_terminals, currentTerminal, overrun,
                   reader, entered>>

\* Mutant: only a stored newline signals.
SignalIfStored == IF Full THEN return_from_sys_write ELSE 1

Signal == 1

(* With a full buffer only the flag is set. *)
KeyEnter ==
    /\ MayType
    /\ Len(entered[currentTerminal]) < MaxLines
    /\ keyboard' = IF Full THEN keyboard ELSE Add(keyboard, NewLine)
    /\ return_from_sys_write' = Signal
    /\ entered' = [entered EXCEPT ![currentTerminal] = Append(@, typed[currentTerminal])]
    /\ typed' = [typed EXCEPT ![currentTerminal] = <<>>]
    /\ UNCHANGED <<available_terminals, currentTerminal, overrun, reader>>

(* lib.c strcpy: stops at a NUL or a newline, writes a NUL, knows no length *)
StrCpy(dest, src) ==
    [i \in Index |->
        IF \A k \in 0 .. i : src[k] \notin {NUL, NewLine} THEN src[i]
        ELSE IF \A k \in 0 .. i - 1 : src[k] \notin {NUL, NewLine} THEN NUL
        ELSE dest[i]]

\* Mutant: the buffer changes hands without its index.
RestoredBuffer(kb, from) == [buf |-> StrCpy(kb.buf, from.buf), idx |-> kb.idx]

Restored(kb, from) == [buf |-> StrCpy(kb.buf, from.buf), idx |-> from.idx]

(* F1-F3, switchTerminal on an open terminal: switchScreen saves the line  *)
(* of the displayed terminal and puts back the other's.  The two may be    *)
(* the same terminal.                                                      *)
KeyFunction(t) ==
    /\ MaySwitch
    /\ ~Full
    /\ LET saved == [available_terminals EXCEPT ![currentTerminal] =
                        [buf |-> StrCpy(@.buf, keyboard.buf), idx |-> keyboard.idx]]
       IN  /\ available_terminals' = saved
           /\ keyboard' = Restored(keyboard, saved[t])
           /\ overrun' = (overrun \/ ~Terminated(keyboard.buf) \/ ~Terminated(saved[t].buf))
    /\ currentTerminal' = t
    /\ UNCHANGED <<return_from_sys_write, reader, history>>

Key ==
    \/ \E c \in Chars : KeyChar(c)
    \/ KeyTab
    \/ KeyBackspace
    \/ KeyEnter
    \/ \E t \in Term : KeyFunction(t)

-----------------------------------------------------------------------------
(* terminalRead, called by the process of terminal t.                      *)

Goto(t, pc) == reader' = [reader EXCEPT ![t].pc = pc]
Runs(t, pc) == t = currentTerminal /\ reader[t].pc = pc

Asks(t, nbytes) ==
    /\ Runs(t, "run")
    /\ nbytes >= 0
    /\ "short_read" \in Windows \/ nbytes >= KEYBOARD_BUFFER_SIZE
    /\ reader' = [reader EXCEPT ![t].pc = "wait", ![t].nbytes = nbytes]

\* Mutant: a read starts from a clean flag.
ReadFromClean(t) ==
    /\ \E nbytes \in Requests : Asks(t, nbytes)
    /\ return_from_sys_write' = 0
    /\ UNCHANGED <<keyboard, available_terminals, currentTerminal, overrun, history>>

(* A negative nbytes, or no buffer, returns -1 before anything is touched. *)
Read(t) ==
    /\ \E nbytes \in Requests : Asks(t, nbytes)
    /\ UNCHANGED <<kernel, history>>

LineReady == return_from_sys_write = 1

(* while (return_from_sys_write == 0) {} *)
SeeEnter(t) ==
    /\ Runs(t, "wait")
    /\ LineReady
    /\ Goto(t, "clear")
    /\ UNCHANGED <<kernel, history>>

(* clear_buffer(CLR_TERMINAL_BUFFER) stores KEYBOARD_BUFFER_SIZE bytes,    *)
(* whatever nbytes is, and also resets the keyboard index.                 *)
ClearTerminalBuffer(t) ==
    /\ Runs(t, "clear")
    /\ keyboard' = [keyboard EXCEPT !.idx = 0]
    /\ reader' = [reader EXCEPT ![t].pc = "copy", ![t].i = 0, ![t].out = Blank]
    /\ overrun' = (overrun \/ reader[t].nbytes < KEYBOARD_BUFFER_SIZE)
    /\ UNCHANGED <<return_from_sys_write, available_terminals, currentTerminal, history>>

\* Mutant: the copy stops at a NUL.
StopsAtNUL(c) == c = NUL

CopyLimit == KEYBOARD_BUFFER_SIZE - 1
Stops(c) == c = NewLine

CopyChar(t) ==
    LET i == reader[t].i
    IN  /\ Runs(t, "copy")
        /\ i < CopyLimit
        /\ reader' = [reader EXCEPT
                         ![t] = [pc  |-> IF Stops(keyboard.buf[i]) THEN "flag" ELSE "copy",
                                 i   |-> IF Stops(keyboard.buf[i]) THEN i ELSE i + 1,
                                 out |-> [@.out EXCEPT ![i] = keyboard.buf[i]],
                                 nbytes |-> @.nbytes]]
        /\ UNCHANGED <<kernel, history>>

(* The loop ran out; its counter is KEYBOARD_BUFFER_SIZE - 1 here, so the  *)
(* test that would put a newline last is false.                            *)
CopyEnds(t) ==
    /\ Runs(t, "copy")
    /\ reader[t].i = CopyLimit
    /\ Goto(t, "flag")
    /\ UNCHANGED <<kernel, history>>

ClearFlag(t) ==
    /\ Runs(t, "flag")
    /\ return_from_sys_write' = 0
    /\ Goto(t, "wipe")
    /\ UNCHANGED <<keyboard, available_terminals, currentTerminal, overrun, history>>

(* clear_buffer(CLR_KEYBOARD_BUFFER): the cells, then the index.  The      *)
(* order of the stores to the cells is immaterial.                         *)
WipeBuffer(t) ==
    /\ Runs(t, "wipe")
    /\ keyboard' = [keyboard EXCEPT !.buf = Blank]
    /\ Goto(t, "reset")
    /\ UNCHANGED <<return_from_sys_write, available_terminals, currentTerminal, overrun, history>>

ResetIndex(t) ==
    /\ Runs(t, "reset")
    /\ keyboard' = [keyboard EXCEPT !.idx = 0]
    /\ Goto(t, "done")
    /\ UNCHANGED <<return_from_sys_write, available_terminals, currentTerminal, overrun, history>>

(* return i + 1, and the process goes on with the line. *)
Return(t) ==
    /\ Runs(t, "done")
    /\ reader' = [reader EXCEPT ![t] = AtRest]
    /\ entered' = [entered EXCEPT ![t] = IF @ = <<>> THEN @ ELSE Tail(@)]
    /\ UNCHANGED <<kernel, typed>>

TerminalRead(t) ==
    \/ Read(t) \/ SeeEnter(t) \/ ClearTerminalBuffer(t) \/ CopyChar(t) \/ CopyEnds(t)
    \/ ClearFlag(t) \/ WipeBuffer(t) \/ ResetIndex(t) \/ Return(t)

Next == Key \/ \E t \in Term : TerminalRead(t)

Spec == Init /\ [][Next]_vars

(* The process of the displayed terminal has the processor to itself and   *)
(* every shell reads again after a command; keys need never come.          *)
FairSpec == Spec /\ WF_vars(\E t \in Term : TerminalRead(t))

-----------------------------------------------------------------------------
(* No key and no terminal switch writes past the end of keyboard_buffer or *)
(* of a saved copy, no read past the nbytes its program offered            *)
(* (terminal.c:187), and the index never leaves the buffer: on the         *)
(* displayed terminal or in a saved copy (keyboard.c:40 and :96).          *)
NoOverrun ==
    /\ ~overrun
    /\ keyboard.idx <= KEYBOARD_BUFFER_SIZE
    /\ \A t \in Term : available_terminals[t].idx <= KEYBOARD_BUFFER_SIZE

Holds(kb, line) ==
    /\ kb.idx = Len(line)
    /\ \A k \in 1 .. Len(line) : kb.buf[k - 1] = line[k]

(* Editing, switching away and back, and the reads of other terminals'     *)
(* processes keep every terminal's half-typed line: the shared buffer      *)
(* holds the displayed terminal's, the saved copies hold the others'.      *)
EditedLineKept ==
    /\ ~LineInFlight => Holds(keyboard, typed[currentTerminal])
    /\ \A t \in Term \ {currentTerminal} : Holds(available_terminals[t], typed[t])

(* What a read returns is the oldest line entered on its own terminal,     *)
(* newline included; of a line of KEYBOARD_BUFFER_SIZE - 1 characters or   *)
(* more, its first KEYBOARD_BUFFER_SIZE - 1 and a count one larger.        *)
ReadReturnsTypedLine ==
    \A t \in Term : reader[t].pc = "done" =>
        /\ entered[t] # <<>>
        /\ LET line  == entered[t][1]
               count == reader[t].i + 1
               out   == reader[t].out
           IN  IF Len(line) < KEYBOARD_BUFFER_SIZE - 1
               THEN /\ count = Len(line) + 1
                    /\ out[Len(line)] = NewLine
                    /\ \A k \in 1 .. Len(line) : out[k - 1] = line[k]
               ELSE /\ count = KEYBOARD_BUFFER_SIZE
                    /\ \A k \in 1 .. KEYBOARD_BUFFER_SIZE - 1 : out[k - 1] = line[k]

(* An entered line has its signal (keyboard.c:133) or a read taking it:    *)
(* the flag a read resets is never the flag of a later line.               *)
EnterRemembered ==
    \A t \in Term : entered[t] # <<>> =>
        return_from_sys_write = 1 \/ reader[t].pc \notin {"run", "wait"}

(* Every line a user enters is read: a process that reads never polls for  *)
(* ever a line that is there.                                              *)
LineDelivered == \A t \in Term : entered[t] # <<>> ~> entered[t] = <<>>

(* Every line a read returns ends with a newline, a line that filled the   *)
(* buffer too (keyboard.c:101, terminal.c:199).                            *)
ReadEndsWithNewline ==
    \A t \in Term : reader[t].pc = "done" => reader[t].out[reader[t].i] = NewLine
=============================================================================
