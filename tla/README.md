# A verification of the student-distrib kernel

The kernel under `src/student-distrib` is a small x86 operating system: it boots
three terminals, each with a shell, runs up to six user programs, and switches
between the terminals from inside its interrupt handlers.  This directory holds
TLA+ modules of its parts, the TLC configurations that check them on small
instances, and proofs that the TLA+ proof system checks for all sizes.

## The system

| part | state | operations | interacts with |
|---|---|---|---|
| processes: `execute`, `halt` (`systemCalls/systemCalls.c`, `pcb.c`) | `activeProccess`, `currentProccess`, `processPerTerminal`, `pid_running_in_terminal`, one PCB and 8KB kernel stack per pid, the global `entry_pt` | execute, halt (also called by every exception handler), `initPCB`, `getUnusedProcessID` | writes `tss.esp0` and the page directory; runs with interrupts enabled |
| command line, arguments, status (`systemCalls.c`, the shell) | the line the shell has read, `arguments` of each PCB | the parsing in execute, `getargs`, the value of `halt` | read by the program and by its parent |
| terminals: `switchTerminal` (`devices/terminal.c`, `scheduling/scheduling.c`) | `currentTerminal`, `available_terminals[].in_use`, `pit_interrupt_count` | F1/F2/F3 in the keyboard interrupt, the first three PIT ticks | saves and loads kernel stack pointers in the PCBs, calls `execute` |
| line discipline: keyboard and `terminalRead` (`devices/keyboard.c`, `devices/terminal.c`) | `keyboard_buffer`, `keyboard_buffer_idx`, `return_from_sys_write`, one saved buffer per terminal | key interrupt, blocking read, buffer copy at a switch | shares the buffer between interrupt and system call |
| screen (`lib.c`, `terminal.c`) | `screen_x`, `screen_y`, video memory and a page per terminal, the cursor registers | `putc`, `clear`, `scrollDown`, `setCursor`, the exchange at a switch | called by programs (interrupts on) and by the keyboard echo |
| file descriptors (`systemCalls.c`) | `fdArray` of each PCB | open, close, read, write; halt closes all | picks a file system, RTC or terminal operation |
| file system (`fileSystem/fileSystem.c`) | the image (constant), `filePos` of a descriptor, the global `directory_read_count` | `read_dentry_by_name`, `read_dentry_by_index`, `read_data`, file and directory reads | called by execute and the descriptors |
| RTC (`devices/rtc.c`) | `rtc_interrupt_flag`, frequency | interrupt, open, read, write | shared by all programs |
| interrupt controller (`i8259.c`) and boot (`kernel.c`) | `master_mask`, `slave_mask`, request and in-service bits | `i8259_init`, enable, disable, end of interrupt | every device handler; the switch between an acknowledgement and a return |
| paging and `vidmap` (`paging/paging.c`) | the 128MB entry, the video page, `vidMap_flag` of each PCB | `create_page_dir_entry`, remap, reclaim | execute, halt, switch, vidmap |
| user programs (`syscalls/`, `fish/`), descriptor tables (`boot.S`, `x86_desc.S`), tests | | | what programs do is the environment of the models |

### What is hard here

* System calls run with interrupts enabled, and an interrupt may replace the
  running process: `switchTerminal` never returns to the process it interrupted
  before that process's terminal is shown again.
* The state a switch relies on (who runs, whose page is mapped, who is on top of
  which terminal, where `tss.esp0` points) lives in five places that `execute`
  and `halt` change one statement at a time.
* Stack pointers are saved and loaded by hand, across stacks that are reused.
* One buffer, one "line ready" flag, one directory position, one clock flag, one
  cursor, one video page and one entry point serve the programs of all terminals.
* Devices are reached through pairs of accesses (index, then data) that the
  interrupt handlers make as well.
* Interrupts are acknowledged before their handlers return, and the device lines
  are enabled one by one while boot goes on with interrupts on.

What makes each part correct:

| part | correct means |
|---|---|
| processes and switch | a loaded stack pointer is one that was saved and not overwritten; all records of "who runs" agree in user mode; a terminal off the screen is left alone; one pid is never two programs; every terminal gets its shell back |
| command line and status | the arguments are read from the caller's memory and are those typed for the program; its parent can tell how it ended |
| screen page | a program that mapped the screen keeps it until it halts, and the page goes with it; the pointer is stored in the program's own page |
| line discipline | no store past the kernel's buffers or the caller's; a half-typed line survives switches; a read returns the line entered on its own terminal; every line is delivered |
| screen | each terminal shows what was written and echoed on it, the hardware cursor stands where the next character goes, no store leaves the visible page |
| descriptors, directory | a program's descriptors are the ones it opened; reads are in order and end at the end |
| `read_data` | the bytes of the range, as many as the file has, and no access outside the image |
| RTC | the chip keeps the frequency set last; a read waits for an interrupt, and returns |
| interrupt controller | a line is in service exactly while its handler has it to acknowledge; shells start after the drivers are ready; every request of an enabled line is served |

## Modules

| module | what it models | checked by | proofs |
|---|---|---|---|
| `TaskSwitch` | `execute`, `halt`, exceptions, system call entry, `switchTerminal`, the PIT ticks that create the shells, kernel stacks, `tss.esp0`, the 128MB page, the image in each frame | `task_switch`, `shells_live`, `stack_leak`, `entry_race` | `TaskSwitch_proofs` |
| `TaskSwitchInvariant` | no code: the definitions of the invariant behind the safety of `TaskSwitch` | | used by `TaskSwitch_proofs` |
| `ProcessTree` | abstract: a stack of processes per terminal, changed only in front | as `ImplementsTree` of `TaskSwitch` | `TaskSwitch_proofs` (implemented), `Programs_proofs` (types) |
| `Programs` | over `ProcessTree`: the command line and arguments, the status of `halt`, `vidmap` and the video page | `programs` | `Programs_proofs` |
| `Interrupts` | both 8259s, `entry()` from its `sti` on, the PIT, keyboard and RTC handlers nesting on the kernel stacks | `interrupts` | `Interrupts_proofs` |
| `LineDiscipline` | `keyboardHandler`, the saved keyboard buffers, `terminalRead` | `line_discipline` | `LineDiscipline_proofs` |
| `Screen` | `putc`, `scrollDown`, `clear`, `setCursor`, the echo, the exchange of video pages and coordinates | `screen` | `Screen_proofs` |
| `Files` | `open`, `close`, `read`, `write`, `initPCB` and `halt` on `fdArray`, name lookup, `fs_read`, `fs_read_directory` | `files`, `halt_closes_parents_files` | `Files_proofs` |
| `ReadData` | `read_data` | `read_data` | `ReadData_proofs` |
| `Rtc` | `rtc.c` and the registers of the chip | `rtc` | `Rtc_proofs` |

`MC<module>.tla` gives the constants that a `.cfg` cannot write.

The modules meet at three places.  `TaskSwitch` shows that a terminal off the screen
is left alone and that only the process in front of the displayed terminal runs;
`LineDiscipline`, `Screen`, `Files`, `Rtc` and `Programs` take this as given.
`TaskSwitch` implements `ProcessTree`, whose actions `Programs` extends.  `Files` reads
in units that `ReadData` resolves into bytes.

### How state and actions correspond to the code

**TaskSwitch.** The variables carry the names of the C globals; `pcb` holds the
fields of `pcb_t` a switch uses.  A kernel stack is an array of activation frames
instead of bytes: a frame is what a handler, a system call or a call of `execute`
pushes, and its `pc` says where its code goes on.  `%esp` is a pair of a stack and
a depth.  Bytes below `%esp` belong to nobody, because the RTC may interrupt at any
time and write there; so a frame below `%esp` is `Dead`, and a jump to a dead frame,
or to one that is not what the code expects there, makes the processor `crashed`.
A push past the last frame is `overflow`: it would reach the PCB at the bottom of
the 8KB.  Each statement of `execute` and `halt` that changes shared state is an
action (`ExecuteMark` is `systemCalls.c:155`, `HaltPage` is line 41), with the pc of
the frame between them.  `FunctionKey` and `PitTick` interrupt user mode, or the
kernel where IF is set and the pc is in `SwitchPoints`.  The interrupt flag is kept
per frame because exceptions and interrupt handlers inherit it: the first shells are
created inside an interrupt handler, and `pushfl` gives them IF=0, until their first
system call.  The few instructions after the `sti` at the end of a handler are not
interrupted in the model (`Interrupts` does interrupt them).  `execs` counts `execute`
calls to bound the runs.

**ProcessTree.** `tree` is obtained from `TaskSwitch` by following `parentID` from
`pid_running_in_terminal` to the base shell (`treeOf`).  `Open` and `Focus` ask no more
than `switchTerminal` does: a key may leave a terminal whose shell is still being
created.  That a pid has one place in the stacks is in the guard of `Spawn`; that
`execute` keeps to it is what `ImplementsTree` checks.

**Programs.** A system call is one step.  `Read` is what `terminalRead` leaves in the
shell's buffer: it clears 128 bytes before it copies a line, so nothing of an older line
is left there.  `fnIdx`, `NameEnd` and `argIdx` are the three searches of `execute`, which
stop at byte 128 and not at the line's end.  `Behind` is the text from byte 128 of the
shell's buffer on, which no read writes or clears (`ece391shell.c:11` has 1024 bytes on
the stack), and `BehindLiteral` what follows the kernel's literal `"shell"`.
`ArgumentsRead` is the copy of line 196: with the habit `"switch_at_copy"` the caller's
address may show the frame of another program, with one of `FrameText` in it; that this
happens by a switch just before the copy, and then only, is `TaskSwitch`'s
`ArgumentsFromCaller`.  Addresses are scaled down: a page of 8, pointers of 4.  `strncpy`'s byte
past the end is kept, and a reader of the arguments relies on it when they fit exactly.

**Interrupts.** A context is a kernel stack with its activations; an activation has
the statement it is at and the interrupt flag it runs with.  `Take` is what the two
controllers and the processor do together: the highest unmasked request, unless a
line of the same or higher priority is in service.  `send_eoi` is one byte of the
code's function; for the RTC there are two.  `EoiAgain` is the acknowledgement behind
`switchTerminal`'s call, which runs when that stack is resumed, possibly much later.
Handlers end with `restore_flags` and `sti`: `EnableInterrupts` and `Iret` leave the
room for the next interrupt between them.

**LineDiscipline.** A key is one action, because the handler runs with interrupts
off.  `terminalRead` runs with interrupts on and is one action per access to what it
shares with the handler: the poll, the reset of the index, each copied character,
the reset of the flag, the wipe, the second reset.  `out` is the memory from the caller's
pointer on; `nbytes` says how much of it is the caller's, and since the code looks at
its sign only, a clear that stores more is an `overrun`.  A negative `nbytes` or no
buffer returns -1 and changes nothing.  `StrCpy` is `lib.c`'s: it stops at
a NUL or a newline and checks no length.  `typed` and `entered` are history.

**Screen.** A program's `putc` is one action per statement (store, `screen_x`, the
carry into `screen_y`, the modulus, the test, every cell that scrolls, and the four
port accesses of `setCursor`).  The echo and the exchange at a switch are one action,
inside their interrupt.  The coordinates are C's: the division rounds towards zero, so
`screen_x` is negative after a backspace at the start of a row until the next one.
Memory is linear, with the page of each terminal behind the displayed one, so that a
store off the screen lands somewhere.  `paper` is what the terminal should show.

**Files.** A call that fails changes nothing and is no step.  A call is one action:
what it shares with other terminals is `directory_read_count` and the clock's
frequency.  What a closed descriptor still holds is left out because `open` writes
every field before any is read.  A name is its stem and its last character because
`read_dentry_by_name` compares all but the last.  `stream` is history.
`file_open_bool` is read only at boot and left out.

**ReadData.** One behaviour is one call: the checks, the start of the copy, one
action per byte or block change, the three exits.  The buffer may be absent (`null`), and
an inode may name blocks out of range; its length is at most what its block table
covers (`LargestFile`), because the code reads whatever follows the table beyond that.

**Rtc.** `changeRtcFreq` is one action per access to index register and data port.
The chip raises its interrupt only when register C has been read since the last.

## Runs, what they show, and their bounds

| run | instance | shows |
|---|---|---|
| `task_switch` | 3 pids, 2 terminals, stacks of 5 frames, 2 programs, 2 `execute` calls; 1,742,871 states | no stale stack pointer is loaded, the tables agree with the processor in user mode, arguments are read through the caller's page, background terminals are left alone, and the whole implements `ProcessTree` |
| `shells_live` | 4 pids, 3 terminals, 1 call; 575,109 states | every shell comes up, and a base shell that exits is replaced |
| `programs` | 4 pids, 2 terminals, 3 commands, buffers of 6; 198,003 states | arguments are those typed, the screen page follows its mapper, statuses tell ends apart |
| `interrupts` | 2 terminals and the boot stack, up to 6 nested activations; 149 thousand states | a line is in service exactly while the top has it to acknowledge; drivers before shells; every request is served |
| `line_discipline` | buffer of 3, tabs of 2, 2 terminals, blank or stale buffers at boot, reads of -1 and of a whole buffer; 512,464 states | lines are kept, delivered and returned to the reader they were typed for |
| `screen` | 2 by 2 cells in a page of 5, 2 terminals, 4 characters; 2.3 million states | every terminal shows its own text, the cursor follows, no store leaves the visible page |
| `files` | 2 terminals, 3 pids, 2 free descriptors each, 3 open at a time; 421,384 states | every program keeps its own streams |
| `read_data` | all requests around block and file ends, with and without a buffer; 1,693 states | the range is read, and only failures with a reason |
| `rtc` | 2 programs, requests at the edges of the accepted ones; 18,076 states | chip and driver agree, reads wait and end |
| `stack_leak` | as `task_switch`, 1 program | violated: `halt` leaves `tss.esp0` in the middle of the parent's stack |
| `entry_race` | as `task_switch` | violated: the global entry point of another terminal's program |
| `halt_closes_parents_files` | as `files`, a program runs another while a file is open | violated: the child's `halt` closes the parent's descriptor |

The bounds suffice for the cases that matter.  Two terminals and three pids are the
least with one shell in the background, one in front with a child, and a full
process table; three terminals and four pids are a full boot with one command.  Five
frames are the deepest chain of two calls, a halt and a switch, with one to spare.
The code's 8KB stack holds more frames, so a leak takes more commands to exhaust it,
but `stack_leak` fails at the first misplaced `esp0`, which does not depend on the
depth.  Six activations are a call, the handlers of the three lines above it and one
that comes in the tail of another.  A buffer of three has a line that fits, one that
just fits, one that fills it and one that is refused, and a tab that fits and one that
does not.  Four cells and four characters scroll, wrap, and erase back over a wrap;
the fifth cell is the part of the 4KB page that is not shown.  A command buffer of six
holds a name alone and a name with an argument, with one blank and with more.  Two free descriptors show first-free search and a full array.

`CHECK_DEADLOCK FALSE` stands in `ReadData.cfg`, where a behaviour is one call, and in
`TaskSwitch_stack_leak.cfg` and `TaskSwitch_entry_race.cfg`, which end in a violation.

`Files`, `LineDiscipline`, `Rtc` and `Screen` define a `TypeOK` that no run lists: the
proofs contain it, for every instance.

### Moments the passing runs leave out

The code is not correct under every interleaving.  The passing runs name the moments
they leave out, so that they show what holds outside of them; each moment is a
constant of the module, and adding it to the configuration gives a counterexample:

| constant | moment | what breaks |
|---|---|---|
| `TaskSwitch!SwitchPoints` with `"e_mark"` | switch between `getUnusedProcessID` and the mark | `ImplementsTree`, `NoWildResume`: one pid for two programs |
| ... `"e_args"` | between `pid_running_in_terminal = pid` and the copy of the arguments | `ArgumentsFromCaller`: read from the new program's frame |
| ... `"e_top"` | between `currentProccess = pid` and `pid_running_in_terminal = pid` | `NoWildResume` |
| ... `"h_page"` ... `"h_jmp"` | in `halt` after its pid is free | `NoWildResume`, `UserContext` (`"h_cur"`), `BackgroundIntact` (`"h_page"`) |
| ... `"respawn"` | while a base shell is replaced | `NoWildResume`: resumes process -1 |
| `TaskSwitch!QuietBoot = FALSE` | a key or command before the three shells exist | `NoWildResume`: the create branch saves into the PCB whose pid is the terminal's number |
| `Interrupts!QuietBoot = FALSE` | a terminal key before `hlt` | `DriversReady`: a switch from the boot stack leaves the rest of boot behind |
| `LineDiscipline!Windows` with `"tab"` | a Tab near the end of the buffer | `NoOverrun` |
| ... `"unterminated"` | a switch while the buffer has neither NUL nor newline | `NoOverrun` |
| ... `"short_read"` | a read of less than a whole buffer | `NoOverrun`: the clear stores a whole buffer |
| ... `"typeahead"` | a key between an Enter and the return of its read | `EnterRemembered`, `ReadReturnsTypedLine` |
| ... `"switch"` | a terminal key in that time | `ReadReturnsTypedLine`, `EditedLineKept` |
| `Screen!EchoMoments` with a statement of `putc` | a key echoed inside a program's `putc` | `ScreenShowsText` (at a store), `StoresOnScreen` (at the wrap), `CursorUpdated` (inside `setCursor`) |
| `Screen!Habits` with `"newline_left_of_row"` | a newline after backspaces over the start of a row | `ScreenShowsText` |
| `Files!Habits` with `"execute_with_open"` | a program runs another with a file open | `DescriptorsAsOpened` |
| ... `"overlapping_listings"` | two listings at a time, or one dropped half-way | `ReadsInOrder`, `EndMeansAll` |
| `Files!Names` with a similar name | the name of a file but for its last character | `DescriptorsAsOpened` |
| `Programs!Habits` with `"switch_at_copy"` | a switch away and back before the copy of the arguments | `GetargsDelivers`: text of another frame |
| `Programs!Behind` with a text | memory behind the 128 bytes a read clears that is not NUL, and a command without a blank | `GetargsDelivers`: that text becomes its arguments |
| ... `"two_mappers"` | `vidmap` while another program that called it lives | `MapperKeepsScreen`: the first to halt takes the page away |
| `Programs!Addresses` with 13 or 16 | a pointer less than four bytes before the page's end, or at it | `PointerStoredInPage` |
| `Programs!ExitValues` with 255 or 256 | a program ends with this value | `StatusTells`: taken for an exception, or for 0 |

What is in `SwitchPoints` (`SafePoints` of `MCTaskSwitch`) is every other place: while
a command is searched, after `initPCB`, while the image is copied, before the `iret`,
in any other system call, in a waiting `execute`, at the start of `halt`.

`LineDiscipline` also defines `ReadEndsWithNewline`, which no run lists: a line of 127
or 128 characters is returned with a NUL where its newline should be, so as one more
invariant of `line_discipline` it fails.

### Fairness

* `TaskSwitch!BootSpec`: weak fairness of the kernel's own steps (the processor
  executes them), strong fairness of `PitTick` (the 8259 latches a tick that comes
  while IF is clear, so a tick is taken once IF is set again and again), weak fairness
  of a program's next system call other than `execute` and `halt` (the shell starts
  with a `write` and a `read`).  No key, command or exit needs ever happen.
* `Interrupts!FairSpec`: weak fairness of boot's statements and of the handlers', weak
  fairness of a first shell's system call while its IF is clear, strong fairness of
  `Take` for each device, which is what the latch of the controller gives.  No device
  need ever raise a request.  `MaxEarly` bounds the requests that come while a handler
  still runs: handlers take microseconds, the devices' periods are milliseconds, and
  without a bound a line of lower priority could wait for ever.
* `LineDiscipline!FairSpec`: weak fairness of the reader's steps: the process of the
  displayed terminal has the processor, and a shell reads again after each command.
* `Rtc!FairSpec`: the chip ticks, its request is taken when interrupts are enabled
  again and again, and a call in progress on the screen goes on.  `ReadsReturn` is
  about a program that stays on the screen; one that is switched away may wait.

## Proofs

Each proof module states its inductive invariant, proves that every action keeps it,
and derives the properties.  Where the code is correct only outside some moments, the
theorem assumes the constant that leaves them out, as the run does.

* `TaskSwitch_proofs`, for all numbers of pids, terminals, frames, programs and all
  switch points: `TypeCorrect` (`TypeOK`).  Types alone are not inductive: `halt` and
  `execute` index the process table with the pid their frame remembers, and `Return`
  leaves the kernel when a frame says so.  `StacksWellFormed` adds that a frame past
  its first statement holds a real pid (`currentProccess` may be -1), and that the
  bottom frame of a stack returns to user mode or is the idle loop, so `%esp` never
  leaves its stack.

  For all the same sizes, but under `QuietBoot` and `SwitchPoints \subseteq CalmPoints`
  (the rows of the table above; `CalmPoints` is what the runs use), `SafetyInvariant`,
  and from it `NoWildResume`, `UserContext`, `StartsOwnImage`, `ArgumentsFromCaller`, `BackgroundIntact`,
  `CountsAgree` and `AncestorsWait`.  None of these is inductive: whether a stack
  pointer may be loaded depends on what lies on that stack, whose frames they are, and
  on no other process having been given the stack meanwhile.  `Safe` says there are a
  depth `D` and a terminal `O` of every process and a deepest process `L` of every
  terminal, which the code keeps only as `parentID` links, such that
  - the processes of a terminal are a chain: one of each depth, each but the first
    standing on the frame of its parent's `execute`, which still waits where a `halt`
    will jump to (`Chain`, `Child`);
  - a terminal off the screen has its deepest process on top, and its saved stack
    pointer is a switch handler's frame that lies on a system call, an `execute` or the
    start of a `halt` of that process (`Parked`, `Resumable`);
  - the terminal on the screen is in one of nine situations, from a program that runs
    to a base shell that is being replaced, and each says which of the five records
    already name the new process (`Running`).

  A step of the terminal on the screen leaves the others parked because it writes only
  above their saved pointers (`OthersKept`); this is where a first shell, which is
  started on the stack of an interrupted program, needs care (`OnFreeStack`).

  `ImplementsTree` follows step by step: `treeOf` is the path down the `parentID` links,
  which is unique and stops at a base shell.  `ExecutePublish` adds a pid in front,
  `HaltTop` and `HaltBaseTop` take it away, a switch opens or shows a terminal, and all
  other statements leave the abstract stacks alone; a PCB is linked to its parent before
  its process is in any stack.
* `Programs_proofs`: `TypeOK` of `ProcessTree`; a step shows a terminal or replaces the
  stack of the one that is shown (`ShowsOrChanges`).  Under
  `"two_mappers" \notin Habits`, `MapperKeepsScreen` and `ScreenPageReclaimed`.  The
  page is one and the flags are many: the invariant is that one flag of a living
  process at most is set, never a base shell's (its halt reclaims nothing); since a
  process stands on one stack only, a halt takes away exactly one flag.  Under
  `ExitValues \subseteq 0 .. 254`, `StatusTells`.  Under `"switch_at_copy" \notin Habits`
  and nothing behind the bytes a read clears (`Behind = <<>>`),
  `GetargsDelivers`: a line splits in one way into blanks, a name, blanks and the rest,
  and the searches of `execute` find that split although they do not stop at the end of
  the line (`ArgumentsAsTyped`); `strncpy` and `getargs` then carry the rest and its NUL.  It uses
  that typed text has no NUL (`TextAssumption`).  `PointerStoredInPage`, if no pointer
  given to `vidmap` is within the last bytes of the page or at its end.
  `ProgramTypeOK`, without hypotheses.
* `Interrupts_proofs`: `TypeOK` and `InServiceIsTop`, for any number of terminals,
  nesting depth and boot, loud or quiet.  The property is not inductive, because `Iret`
  and a switch uncover another activation.  The invariant adds that an activation that
  is not on top of the running stack is past its acknowledgement; what is not runs
  with IF clear, so that nothing can be pushed on it.  As a corollary no line is in
  service while interrupts are enabled: no device is held off by another's handler.
  Under `QuietBoot`, `DriversReady`: the property looks at the masks once the first
  terminal is open; the invariant (`BootInv`) follows `entry()` and says at each of its steps
  which lines are unmasked, that its activation stays at the bottom of the boot stack,
  and that nothing leaves that stack before the line of the PIT is enabled, the last.
* `LineDiscipline_proofs`, for every buffer size, tab width and number of terminals.
  `NoOverrun`, with keys and switches at any time, also while a read takes a line, and
  only without the three moments at which the code does store past an end: a Tab near
  the end, a switch that meets a buffer without terminator, a read of less than a whole
  buffer.  Its invariant (`StoresInBounds`) is that indices and copies stay within their
  arrays, saved buffers end in a NUL or newline, and a reader was offered a whole buffer.
  Under `Windows = {}`, `EditedLineKept`, `ReadReturnsTypedLine` and
  `EnterRemembered`.  The invariant says where each line is: the one being typed is in
  the buffer in front or in its terminal's copy; an entered one is in the buffer until
  the flag is reset and in its reader's afterwards, as far as the copy has come.  That
  `strcpy` stops where it should is the least index of a NUL or newline, by
  well-foundedness of the naturals.
* `Screen_proofs`, for every size of screen, page and cursor byte, any number of
  terminals and switches anywhere in `putc`, under the two rows of the table above (echoes
  only between characters or before the cursor moves, no newline left of its row):
  `ScreenShowsText`, `CursorUpdated`, `StoresOnScreen` and types.  The first two
  properties speak of moments when no `putc` is under way.  The invariant says for each statement of
  `putc` what the visible cells and coordinates must be for the rest of it to end on the
  terminal's paper (`Doing`), for the displayed terminal and for the saved pages of the
  others, so that a switch, which exchanges disjoint pages and the coordinates, moves it
  unchanged; and at each port access which cursor byte is already right and which
  register is selected (`CursorOK`).  `scrollDown` run in one step by an echo and cell by
  cell by a program end on the same screen, by least number arguments.
* `Rtc_proofs`, for any requests and contents of the chip: `RegistersAsSet` and
  `ReadSeesInterrupt`.  The invariant says that a call between `cli` and
  `restore_flags` is the running one with IF clear, that nobody else moves the index
  register meanwhile, and that a waiting reader whose flag is gone has had an interrupt.
  `ValidIsACase` shows that `rtcWrite`'s check admits exactly numbers for which
  `changeRtcFreq` has a case, so that `rate` is never used uninitialised.
* `Files_proofs`, under `Habits = {}` and names that are those of one entry or similar to
  none (`CarefulNames`), for every image, descriptor table and number of terminals:
  `DescriptorsAsOpened`, `ReadsInOrder` and `EndMeansAll`.  The invariant ties every
  descriptor to what was read through it (`filePos` is the number of units returned),
  says that a program that waits for its child has nothing open, which is what makes
  the parent safe from its child's `halt`, and that the one directory position is the
  length of the one listing under way.
* `ReadData_proofs`: `ReadsTheRange`, `FailsForAReason`, `PointerInBlock` and `TypeOK` for
  every image, block size, offset and length.  The invariant ties the three counters to
  one position, `data_block * DATA_BLOCK_SIZE + block_location_ptr = offset +
  read_success`, says that the pointer is the address of that position in a block the
  code has checked, and that the buffer holds the file's bytes up to it.  The
  assumption is that an offset lies within the largest file, which holds since
  `filePos` only grows by what was read.

Every safety property of the passing runs has a theorem.  Only model-checked is
liveness, which is out of the prover's reach: `ShellRespawns` and `BootCompletes` of
`TaskSwitch`, `RequestsServed`, `LineDelivered` and `ReadsReturn`.

## What the models show about the code

Beside the three runs that end in a violation, and the moments above:

* The arguments of a program are copied (`systemCalls.c:196`) after `currentProccess`
  (171) and `pid_running_in_terminal` (184) name it, with interrupts on: a switch away
  and back in between maps the new program's page (`terminal.c:100, 108`), and
  `command` is read in the wrong frame.
* The arguments of a command without a blank are what lies at byte 128 of the shell's
  buffer, because the searches of `execute` do not stop at the end of the line
  (`systemCalls.c:119`).
* A read stores 128 bytes in the caller's buffer whatever `nbytes` is
  (`terminal.c:187`); the shell's buffer is larger, `syserr`'s just as large.
* `strncpy` stores one byte more than it is given; `getargs` relies on it to terminate
  an argument that fills the caller's buffer, one byte behind that buffer.
* `vidmap` looks at the first byte of its pointer only and accepts the page's end.
* A program that ends with 255 is reported as killed by an exception, and the status
  is cut to a byte.
* A full line is returned with a NUL in place of its newline.
* The keyboard echo may move the cursor between two statements of a program's `putc`.
* The keyboard's line is enabled before the terminals are initialised.

## Not modelled

* The choice of a character by shift, caps lock and control and the scan code tables:
  they only select the key that `LineDiscipline` takes as given.
* Colours, and `printf` and `itoa`, which format what the kernel prints.
* `memset`, `memset_word`, `memset_dword` and `memmove`: nothing calls them.
* Saved registers other than `%esp` and the flags, and the system call number check of
  the wrapper.
* Faults inside the kernel: the handler halts the current program in the middle of what
  the kernel did for it.
* `rtc_write` with no buffer: `rtc.c:104` reads through the pointer before line 106 tests
  it, which is a fault of the kernel.
* The descriptor tables and the kernel's own pages, which never change.
* The user programs other than the shell's loop; `ls` and `cat`, `fish` and `syserr` only
  give the environments of `Files` and `Programs`.  The libraries that run them on Linux
  and the kernel's test code are not part of the kernel.
