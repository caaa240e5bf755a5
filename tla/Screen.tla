------------------------------- MODULE Screen -------------------------------
(***************************************************************************)
(* The screen (lib.c, setCursor and switchScreen of terminal.c): video     *)
(* memory, the coordinates screen_x and screen_y, and the hardware cursor. *)
(*                                                                         *)
(* A program's write runs with interrupts enabled, one statement of putc   *)
(* at a time; the keyboard's echo and the switch of terminals run inside   *)
(* an interrupt handler and are one action each.  Only the program of the  *)
(* displayed terminal runs (TaskSwitch).  The colour of a character is     *)
(* left out.                                                               *)
(***************************************************************************)
EXTENDS Integers, FiniteSets

CONSTANTS NUM_COLS, NUM_ROWS,
          PageCells,            \* _4KB / 2: the cells of a page, some not visible
          CursorByte,           \* 256: how much one cursor register holds
          MAX_TERMINAL_NUMBER,
          EchoMoments,          \* the points of putc where a key may be echoed
          Habits,               \* what programs and users do beyond the usual
          MaxChars              \* characters written or echoed

Cells == NUM_ROWS * NUM_COLS
ASSUME SizeAssumption ==
    /\ NUM_COLS \in Nat /\ NUM_COLS > 1 /\ NUM_ROWS \in Nat /\ NUM_ROWS > 1
    /\ PageCells \in Nat /\ Cells <= PageCells
    /\ CursorByte \in Nat /\ Cells <= CursorByte * CursorByte
    /\ MAX_TERMINAL_NUMBER \in Nat \ {0} /\ MaxChars \in Nat
ASSUME HabitAssumption == Habits \subseteq {"newline_left_of_row"}

Term == 0 .. MAX_TERMINAL_NUMBER - 1
Blank == " "
Letter == {"p", "k"}            \* written by a program, echoed by the keyboard
Char == Letter \union {"NL", "BS"}   \* newline (and return), backspace

(* One linear memory: the displayed page at VIDEO, then a page for each    *)
(* terminal off the screen.                                                *)
Address == 0 .. (MAX_TERMINAL_NUMBER + 1) * PageCells - 1
SavedPage(t) == (t + 1) * PageCells

VARIABLES
    screen,             \* video memory and screen_x, screen_y
    saved,              \* available_terminals[].x and .y
    currentTerminal,
    crt,                \* the cursor's index register and its two bytes
    writer,             \* putc's statement in each terminal's program
    chars,              \* counts towards MaxChars
    paper               \* history: what each terminal should show

vars == <<screen, saved, currentTerminal, crt, writer, chars, paper>>

-----------------------------------------------------------------------------
(* C's division rounds towards zero. *)
Div(a, b) == IF a < 0 THEN -((-a) \div b) ELSE a \div b
Mod(a, b) == a - b * Div(a, b)

Position(s) == NUM_COLS * s.y + s.x

(* The statements of putc and scrollDown, on video memory and coordinates. *)
Store(s, c) == [s EXCEPT !.video[Position(s)] = c]
XPlus(s, d) == [s EXCEPT !.x = @ + d]
YPlus(s, d) == [s EXCEPT !.y = @ + d]
CarryRow(s) == YPlus(s, Div(s.x, NUM_COLS))

ModColumn(s) == [s EXCEPT !.x = Mod(@, NUM_COLS)]

\* Mutant: the last row is not blanked.
ScrollCellKept(s, i) ==
    [s EXCEPT !.video[i] = IF i >= (NUM_ROWS - 1) * NUM_COLS THEN s.video[i]
                           ELSE s.video[i + NUM_COLS]]

ScrollCell(s, i) ==
    [s EXCEPT !.video[i] = IF i >= (NUM_ROWS - 1) * NUM_COLS THEN Blank
                           ELSE s.video[i + NUM_COLS]]

AtLastRow(s) == [s EXCEPT !.x = 0, !.y = NUM_ROWS - 1]

\* Mutant: the test for the end of the screen is one row late.
PastEndLate(s) == s.y > NUM_ROWS

PastEnd(s) == s.y >= NUM_ROWS

(* putc as a whole, as the keyboard handler executes it. *)
scrollDown(s) ==
    LET scrolled[i \in 0 .. Cells] == IF i = 0 THEN s ELSE ScrollCell(scrolled[i - 1], i - 1)
    IN  AtLastRow(scrolled[Cells])

Move(s, c) ==
    CASE c = "NL" -> [YPlus(s, 1) EXCEPT !.x = 0]
      [] c = "BS" -> IF s.x = 0 /\ s.y = 0 THEN s
                     ELSE Store(ModColumn(CarryRow(XPlus(s, -1))), Blank)
      [] OTHER -> ModColumn(CarryRow(XPlus(Store(s, c), 1)))

putc(s, c) ==
    LET moved == Move(s, c)
    IN  IF PastEnd(moved) THEN scrollDown(moved) ELSE moved

(* setCursor as a whole: the index register is left at the high byte. *)
setCursor(s) ==
    [index |-> "high", low |-> Position(s) % CursorByte,
     high |-> (Position(s) \div CursorByte) % CursorByte]

clear(s) ==
    [video |-> [a \in Address |-> IF a < Cells THEN Blank ELSE s.video[a]], x |-> 0, y |-> 0]

-----------------------------------------------------------------------------
(* History: a terminal is a sheet of NUM_ROWS lines with one position that *)
(* moves on by one per letter, to the next line's start, or one back.      *)

BlankPaper == [cells |-> [i \in 0 .. Cells - 1 |-> Blank], at |-> 0]

Rolled(p) ==
    IF p.at < Cells THEN p
    ELSE [cells |-> [i \in 0 .. Cells - 1 |-> IF i + NUM_COLS < Cells THEN p.cells[i + NUM_COLS]
                                              ELSE Blank],
          at |-> Cells - NUM_COLS]

Typed(p, c) ==
    CASE c = "NL" -> Rolled([p EXCEPT !.at = NUM_COLS * (@ \div NUM_COLS + 1)])
      [] c = "BS" -> IF p.at = 0 THEN p
                     ELSE [cells |-> [p.cells EXCEPT ![p.at - 1] = Blank], at |-> p.at - 1]
      [] OTHER -> Rolled([cells |-> [p.cells EXCEPT ![p.at] = c], at |-> p.at + 1])

(* A newline with the cursor left of its row's start (after backspaces     *)
(* over it) is one row lower than the cursor was seen.                     *)
Usual(c) == c = "NL" /\ screen.x < 0 => "newline_left_of_row" \in Habits

Record(c) ==
    /\ chars < MaxChars
    /\ Usual(c)
    /\ chars' = chars + 1
    /\ paper' = [paper EXCEPT ![currentTerminal] = Typed(@, c)]

-----------------------------------------------------------------------------
(* terminalWrite and putc in the program of the displayed terminal.        *)

pc == writer[currentTerminal].pc
Goto(label) == writer' = [writer EXCEPT ![currentTerminal].pc = label]
Quiet == UNCHANGED <<saved, currentTerminal, chars, paper>>

(* A step of putc on video memory and coordinates. *)
Statement(from, to, s) ==
    /\ pc = from
    /\ screen' = s
    /\ Goto(to)
    /\ Quiet /\ UNCHANGED crt

terminalWrite ==
    /\ pc = "idle"
    /\ Goto("next")
    /\ Quiet /\ UNCHANGED <<screen, crt>>

WriteReturns ==
    /\ pc = "next"
    /\ Goto("idle")
    /\ Quiet /\ UNCHANGED <<screen, crt>>

(* The switch of putc on the next character; a NUL is skipped. *)
PutcBegins(c) ==
    /\ pc = "next"
    /\ Record(c)
    /\ writer' = [writer EXCEPT ![currentTerminal] =
                    [@ EXCEPT !.c = c,
                              !.pc = CASE c = "NL" -> "nl_y"
                                       [] c = "BS" -> IF screen.x = 0 /\ screen.y = 0
                                                      THEN "test" ELSE "x"
                                       [] OTHER -> "store"]]
    /\ UNCHANGED <<screen, saved, currentTerminal, crt>>

Erasing == writer[currentTerminal].c = "BS"

PutcStore    == Statement("store", "x", Store(screen, writer[currentTerminal].c))
PutcX        == Statement("x", "y", XPlus(screen, IF Erasing THEN -1 ELSE 1))
PutcY        == Statement("y", "mod", CarryRow(screen))
PutcMod      == Statement("mod", IF Erasing THEN "blank" ELSE "test", ModColumn(screen))
PutcBlank    == Statement("blank", "test", Store(screen, Blank))
PutcNewlineY == Statement("nl_y", "nl_x", YPlus(screen, 1))
PutcNewlineX == Statement("nl_x", "test", [screen EXCEPT !.x = 0])

PutcTest ==
    /\ pc = "test"
    /\ writer' = [writer EXCEPT ![currentTerminal] =
                    [@ EXCEPT !.i = 0, !.pc = IF PastEnd(screen) THEN "scroll" ELSE "cursor"]]
    /\ Quiet /\ UNCHANGED <<screen, crt>>

(* scrollDown: one cell at a time, then the coordinates. *)
ScrollStep ==
    /\ pc = "scroll"
    /\ LET i == writer[currentTerminal].i
       IN  IF i < Cells
           THEN /\ screen' = ScrollCell(screen, i)
                /\ writer' = [writer EXCEPT ![currentTerminal].i = i + 1]
           ELSE /\ screen' = [screen EXCEPT !.x = 0]
                /\ Goto("scroll_y")
    /\ Quiet /\ UNCHANGED crt

ScrollEnds == Statement("scroll_y", "cursor", [screen EXCEPT !.y = NUM_ROWS - 1])

(* setCursor: the position is computed once, then four port accesses.      *)
CursorPosition ==
    /\ pc = "cursor"
    /\ writer' = [writer EXCEPT ![currentTerminal] =
                    [@ EXCEPT !.pc = "index_low", !.position = Position(screen)]]
    /\ Quiet /\ UNCHANGED <<screen, crt>>

(* A write to the data port reaches the register the index names. *)
Outb(from, to, registers) ==
    /\ pc = from
    /\ crt' = registers
    /\ Goto(to)
    /\ Quiet /\ UNCHANGED screen

Byte(n) == n % CursorByte
Data(byte) == IF crt.index = "low" THEN [crt EXCEPT !.low = byte] ELSE [crt EXCEPT !.high = byte]

CursorIndexLow  == Outb("index_low", "low", [crt EXCEPT !.index = "low"])
CursorLow       == Outb("low", "index_high", Data(Byte(writer[currentTerminal].position)))
CursorIndexHigh == Outb("index_high", "high", [crt EXCEPT !.index = "high"])
CursorHigh      == Outb("high", "next",
                        Data(Byte(writer[currentTerminal].position \div CursorByte)))

-----------------------------------------------------------------------------
(* The keyboard handler. *)

Echo(c) ==
    /\ pc \in EchoMoments
    /\ Record(c)
    /\ screen' = putc(screen, c)
    /\ crt' = setCursor(putc(screen, c))
    /\ UNCHANGED <<saved, currentTerminal, writer>>

(* Control and L. *)
ClearScreen ==
    /\ pc \in EchoMoments
    /\ screen' = clear(screen)
    /\ crt' = setCursor(clear(screen))
    /\ paper' = [paper EXCEPT ![currentTerminal] = BlankPaper]
    /\ UNCHANGED <<saved, currentTerminal, writer, chars>>

memcpy(video, to, from) ==
    [a \in Address |-> IF a \in to .. to + PageCells - 1 THEN video[a - to + from] ELSE video[a]]

\* Mutant: the cursor is set before the new terminal's coordinates are loaded.
SwitchCursorEarly(new) == setCursor(screen)

SwitchCursor(new) == setCursor([screen EXCEPT !.x = new.x, !.y = new.y])

(* switchScreen: coordinates and page are saved, then loaded; a switch to  *)
(* the displayed terminal loads what it has just saved.                    *)
SwitchTerminal(t) ==
    LET kept == [saved EXCEPT ![currentTerminal] = [x |-> screen.x, y |-> screen.y]]
        pages == memcpy(screen.video, SavedPage(currentTerminal), 0)
    IN  /\ saved' = kept
        /\ crt' = SwitchCursor(kept[t])
        /\ screen' = [video |-> memcpy(pages, 0, SavedPage(t)), x |-> kept[t].x, y |-> kept[t].y]
        /\ currentTerminal' = t
        /\ UNCHANGED <<writer, chars, paper>>

-----------------------------------------------------------------------------
(* initTerminals: a cleared screen, copied to every terminal's page. *)
Init ==
    /\ screen = [video |-> [a \in Address |-> Blank], x |-> 0, y |-> 0]
    /\ saved = [t \in Term |-> [x |-> 0, y |-> 0]]
    /\ currentTerminal = 0
    /\ crt = setCursor(screen)
    /\ writer = [t \in Term |-> [pc |-> "idle", c |-> "p", i |-> 0, position |-> 0]]
    /\ chars = 0
    /\ paper = [t \in Term |-> BlankPaper]

Putc ==
    \/ PutcStore \/ PutcX \/ PutcY \/ PutcMod \/ PutcBlank
    \/ PutcNewlineY \/ PutcNewlineX \/ PutcTest
    \/ ScrollStep \/ ScrollEnds
    \/ CursorPosition \/ CursorIndexLow \/ CursorLow \/ CursorIndexHigh \/ CursorHigh

Next ==
    \/ terminalWrite \/ WriteReturns
    \/ \E c \in Char \ {"k"} : PutcBegins(c)
    \/ Putc
    \/ \E c \in Char \ {"p"} : Echo(c)
    \/ ClearScreen
    \/ \E t \in Term : SwitchTerminal(t)

Spec == Init /\ [][Next]_vars

-----------------------------------------------------------------------------
Labels == {"idle", "next", "store", "x", "y", "mod", "blank", "nl_y", "nl_x", "test",
           "scroll", "scroll_y", "cursor", "index_low", "low", "index_high", "high"}

TypeOK ==
    /\ screen \in [video : [Address -> Letter \union {Blank}],
                   x : -NUM_COLS .. NUM_COLS, y : 0 .. NUM_ROWS]
    /\ saved \in [Term -> [x : -NUM_COLS .. NUM_COLS, y : 0 .. NUM_ROWS]]
    /\ currentTerminal \in Term
    /\ crt \in [index : {"low", "high"}, low : 0 .. CursorByte - 1, high : 0 .. CursorByte - 1]
    /\ writer \in [Term -> [pc : Labels, c : Char, i : 0 .. Cells, position : Nat]]
    /\ chars \in 0 .. MaxChars
    /\ paper \in [Term -> [cells : [0 .. Cells - 1 -> Letter \union {Blank}],
                           at : 0 .. Cells - 1]]

(* A terminal's page and coordinates, on the screen or saved. *)
PageStart(t) == IF t = currentTerminal THEN 0 ELSE SavedPage(t)
Shown(t) == [i \in 0 .. Cells - 1 |-> screen.video[PageStart(t) + i]]
Where(t) == IF t = currentTerminal THEN Position(screen) ELSE Position(saved[t])

(* Whatever programs write, users type and switch to, and wherever in putc *)
(* a switch comes, each terminal shows the characters written on it, each  *)
(* once and in its place, when no putc of it is under way (putc,           *)
(* scrollDown, switchScreen).                                              *)
ScreenShowsText ==
    \A t \in Term :
        writer[t].pc \in {"idle", "next", "cursor"} =>
            Shown(t) = paper[t].cells /\ Where(t) = paper[t].at

(* When putc is done the hardware cursor is where the next character goes, *)
(* even if a switch came between an index and its byte (setCursor).        *)
CursorUpdated ==
    pc \in {"idle", "next"} => CursorByte * crt.high + crt.low = paper[currentTerminal].at

(* Only a switch changes anything but the visible cells: no character goes *)
(* past the screen's end or into the page of a terminal off the screen.    *)
StoresOnScreen ==
    [][currentTerminal' = currentTerminal =>
         \A a \in Address :
            a >= Cells /\ a \notin SavedPage(currentTerminal) ..
                                   SavedPage(currentTerminal) + PageCells - 1
            => screen'.video[a] = screen.video[a]]_vars
=============================================================================
