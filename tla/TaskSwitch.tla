----------------------------- MODULE TaskSwitch -----------------------------
(***************************************************************************)
(* Processes, terminals and the processor that moves between them: the     *)
(* system calls execute and halt (systemCalls.c), the terminal switch      *)
(* (terminal.c) taken inside the keyboard and PIT interrupt handlers, and  *)
(* the processor state they hand over by hand: kernel stacks, tss.esp0,    *)
(* the 128MB page directory entry.                                         *)
(*                                                                         *)
(* A kernel stack is a bounded array of activation frames.  A frame's "pc" *)
(* is the place its code continues from; the frame under %esp runs.  Bytes *)
(* below %esp belong to nobody (the next RTC interrupt overwrites them),   *)
(* so frames popped or abandoned become Dead.                              *)
(***************************************************************************)
EXTENDS Integers, Sequences

CONSTANTS
    MAX_PCB,              \* pcb.h:9
    MAX_TERMINAL_NUMBER,  \* terminal.h
    StackFrames,          \* frames that fit the 8KB kernel stack above a PCB
    Programs, Shell,      \* executables of the file system, and "shell"
    MaxExecs,             \* bound: execute system calls in a behaviour
    SwitchPoints,         \* kernel pcs at which a terminal switch is taken
    QuietBoot             \* no key is pressed before the three PIT shells exist

ASSUME TableAssumption ==
    /\ MAX_TERMINAL_NUMBER \in Nat \ {0}
    /\ MAX_PCB \in Nat
    /\ MAX_TERMINAL_NUMBER <= MAX_PCB
    /\ StackFrames \in Nat \ {0}
ASSUME ProgramAssumption == Shell \in Programs /\ QuietBoot \in BOOLEAN /\ MaxExecs \in Nat

VARIABLES
    activeProccess, currentProccess, processPerTerminal, pid_running_in_terminal,
    pcb,                  \* the task-switch fields of each pcb_t
    entry_pt,             \* the program whose entry point the global holds
    currentTerminal, in_use, pit_interrupt_count,
    page_directory,       \* the process whose 4MB frame is mapped at 128MB
    tss_esp0,
    image,                \* the program loaded in each process's 4MB frame
    arguments,            \* of each PCB: the process whose memory they were read from
    kstack, cpu,
    user_if,              \* eflags.IF of each process in user mode
    execs                 \* execute system calls so far

tables == <<activeProccess, currentProccess, processPerTerminal, pid_running_in_terminal, pcb>>
screen == <<currentTerminal, in_use, pit_interrupt_count>>
machine == <<page_directory, tss_esp0, image, arguments, user_if, entry_pt>>
vars == <<tables, screen, machine, kstack, cpu, execs>>

Pid  == 0 .. MAX_PCB - 1
Term == 0 .. MAX_TERMINAL_NUMBER - 1
NoPid == -1
NoProgram == "none"

Esp  == [stk : Pid, sp : 0 .. StackFrames]
NULL == [stk |-> 0, sp |-> 0]
StackTop(p) == [stk |-> p, sp |-> 0]      \* PCB_ADDR - PCB_8KB*p - 4

ExecutePcs == {"e_alloc", "e_mark", "e_init", "e_cur", "e_top", "e_args", "e_page",
               "e_load", "e_tss", "e_iret", "IRET_OUT"}
HaltPcs    == {"h_test", "b_top", "b_cnt", "h_free", "h_page", "h_cur", "h_top", "h_tss",
               "h_cnt", "h_jmp"}
PCs == ExecutePcs \cup HaltPcs \cup {"idle", "io", "switch", "dead"}

(* ret: the process whose user mode the frame returns to, NoPid when it    *)
(* returns to the frame below.  pid: execute's newPCB, halt's currentPCB.  *)
(* ifl: the interrupt flag while the frame runs.                           *)
Frame == [pc : PCs, pid : Pid \cup {NoPid}, prog : Programs, ret : Pid \cup {NoPid},
          ifl : BOOLEAN]
AFrame(pc, pid, prog, ret, ifl) ==
    [pc |-> pc, pid |-> pid, prog |-> prog, ret |-> ret, ifl |-> ifl]
Dead == AFrame("dead", NoPid, Shell, NoPid, FALSE)
Idle == AFrame("idle", NoPid, Shell, NoPid, TRUE)

-----------------------------------------------------------------------------
(* The processor *)

Quiet == QuietBoot => pit_interrupt_count = MAX_TERMINAL_NUMBER
InUser == cpu.mode = "user"
Top == kstack[cpu.esp.stk][cpu.esp.sp]
At(pc) == cpu.mode = "kernel" /\ Top.pc = pc

User(p)   == [mode |-> "user", proc |-> p, esp |-> NULL]
Kernel(e) == [mode |-> "kernel", proc |-> NoPid, esp |-> e]
Crashed   == [mode |-> "crashed", proc |-> NoPid, esp |-> NULL]
Overflow  == [mode |-> "overflow", proc |-> NoPid, esp |-> NULL]

\* Stack memory after frames fs are pushed at e; what lay beyond is dead.
Written(ks, e, fs) ==
    [ks EXCEPT ![e.stk] = [i \in 1 .. StackFrames |->
        IF i <= e.sp THEN @[i]
        ELSE IF i <= e.sp + Len(fs) THEN fs[i - e.sp] ELSE Dead]]

\* Push fs at e and run the last of them; a full stack runs into the PCB.
Enter(ks, e, fs) ==
    IF e.sp + Len(fs) <= StackFrames
    THEN /\ kstack' = Written(ks, e, fs)
         /\ cpu' = Kernel([e EXCEPT !.sp = @ + Len(fs)])
    ELSE kstack' = ks /\ cpu' = Overflow

\* Load e into %esp; code that expects a frame "pc" there continues.
Resume(ks, e, pc) ==
    IF e.sp > 0 /\ ks[e.stk][e.sp].pc = pc
    THEN kstack' = Written(ks, e, <<>>) /\ cpu' = Kernel(e)
    ELSE kstack' = ks /\ cpu' = Crashed

Return ==
    LET below == [cpu.esp EXCEPT !.sp = @ - 1] IN
    /\ kstack' = Written(kstack, below, <<>>)
    /\ cpu' = IF Top.ret # NoPid THEN User(Top.ret) ELSE Kernel(below)

Goto(pc) == kstack' = [kstack EXCEPT ![cpu.esp.stk][cpu.esp.sp].pc = pc] /\ UNCHANGED cpu
GotoWith(pc, pid) ==
    /\ kstack' = [kstack EXCEPT ![cpu.esp.stk][cpu.esp.sp].pc = pc,
                                ![cpu.esp.stk][cpu.esp.sp].pid = pid]
    /\ UNCHANGED cpu

\* One statement of execute or halt, on the process tables or on the machine.
Step(from, to) == At(from) /\ Goto(to) /\ UNCHANGED <<screen, execs>>
TableStep(from, to) == Step(from, to) /\ UNCHANGED machine
MachineStep(from, to) == Step(from, to) /\ UNCHANGED <<tables, user_if, entry_pt>>
\* The statement left out: only mutants use it.
Skip(from, to) == TableStep(from, to) /\ UNCHANGED tables

-----------------------------------------------------------------------------
(* User mode: every entry into the kernel starts at tss.esp0 *)

SysExecute(prog) ==
    /\ InUser /\ Quiet /\ execs < MaxExecs
    /\ execs' = execs + 1
    /\ Enter(kstack, tss_esp0, <<AFrame("e_alloc", NoPid, prog, cpu.proc, TRUE)>>)
    /\ UNCHANGED <<tables, screen, machine>>

SysHalt ==
    /\ InUser /\ Quiet
    /\ Enter(kstack, tss_esp0, <<AFrame("h_test", NoPid, Shell, cpu.proc, TRUE)>>)
    /\ UNCHANGED <<tables, screen, machine, execs>>

\* A trap gate leaves IF as it was; the handler calls halt(255).
Exception ==
    /\ InUser /\ Quiet
    /\ Enter(kstack, tss_esp0, <<AFrame("h_test", NoPid, Shell, cpu.proc, user_if[cpu.proc])>>)
    /\ UNCHANGED <<tables, screen, machine, execs>>

\* read, write, open and the others: they change nothing here, but a
\* switch may find the process inside them.
SysIO ==
    /\ InUser
    /\ Enter(kstack, tss_esp0, <<AFrame("io", NoPid, Shell, cpu.proc, TRUE)>>)
    /\ UNCHANGED <<tables, screen, machine, execs>>

IOReturns ==
    /\ At("io")
    /\ Return
    /\ UNCHANGED <<tables, screen, machine, execs>>

-----------------------------------------------------------------------------
(* execute *)

\* getUnusedProcessID() returns p.
UnusedProcessID(p) == ~activeProccess[p] /\ \A q \in Pid : q < p => activeProccess[q]

\* Entry point read into the global, then the search of the process table.
ExecuteAlloc ==
    /\ At("e_alloc")
    /\ entry_pt' = Top.prog
    /\ \/ \E p \in Pid : UnusedProcessID(p) /\ GotoWith("e_mark", p)
       \/ (\A p \in Pid : activeProccess[p]) /\ Return
    /\ UNCHANGED <<tables, screen, page_directory, tss_esp0, image, arguments, user_if, execs>>

\* Mutant: the pid is not marked as taken.
ExecuteMarkNot == Skip("e_mark", "e_init")

ExecuteMark ==
    /\ TableStep("e_mark", "e_init")
    /\ activeProccess' = [activeProccess EXCEPT ![Top.pid] = TRUE]
    /\ UNCHANGED <<currentProccess, processPerTerminal, pid_running_in_terminal, pcb>>

RecordedTerminal == currentTerminal

\* initPCB, and the asm that stores execute's own %esp in the new PCB.
ExecuteInitPCB ==
    /\ TableStep("e_init", "e_cur")
    /\ pcb' = [pcb EXCEPT ![Top.pid] =
                 [processESP |-> NULL, parentESP |-> cpu.esp, parentID |-> 0,
                  running_in_terminal_num |-> RecordedTerminal]]
    /\ processPerTerminal' = [processPerTerminal EXCEPT ![currentTerminal] = @ + 1]
    /\ UNCHANGED <<activeProccess, currentProccess, pid_running_in_terminal>>

ExecuteCurrent ==
    /\ TableStep("e_cur", "e_top")
    /\ currentProccess' = Top.pid
    /\ UNCHANGED <<activeProccess, processPerTerminal, pid_running_in_terminal, pcb>>

\* Mutant: a base process looks up a parent as well.
ParentOfNoBase(p) == pid_running_in_terminal[pcb[p].running_in_terminal_num]

\* Mutant: pid 0 is not taken for a parent.
ParentOfNotZero(p) ==
    IF ParentOfNoBase(p) > 0 THEN ParentOfNoBase(p) ELSE p

\* A base process is its own parent.
ParentOf(p) ==
    LET top == pid_running_in_terminal[pcb[p].running_in_terminal_num]
    IN  IF top > NoPid THEN top ELSE p

\* Mutant: only a child becomes its terminal's top process.
NewTopChild(p) == IF ParentOf(p) = p THEN NoPid ELSE p
NewTop(p) == p

ExecutePublish ==
    /\ TableStep("e_top", "e_args")
    /\ pcb' = [pcb EXCEPT ![Top.pid].parentID = ParentOf(Top.pid)]
    /\ pid_running_in_terminal' =
         [pid_running_in_terminal EXCEPT ![pcb[Top.pid].running_in_terminal_num] = NewTop(Top.pid)]
    /\ UNCHANGED <<activeProccess, currentProccess, processPerTerminal>>

\* Mutant: the frame is mapped before the arguments are copied.
ExecuteArgumentsLate ==
    /\ MachineStep("e_args", "e_page")
    /\ arguments' = [arguments EXCEPT ![Top.pid] = IF Top.ret = NoPid THEN NoPid ELSE Top.pid]
    /\ page_directory' = Top.pid
    /\ UNCHANGED <<tss_esp0, image>>

\* The copy reads the command through 128MB, whatever frame is mapped there;
\* the "shell" of halt and of the switch lies in the kernel.
ExecuteArguments ==
    /\ MachineStep("e_args", "e_page")
    /\ arguments' = [arguments EXCEPT ![Top.pid] = IF Top.ret = NoPid THEN NoPid ELSE page_directory]
    /\ UNCHANGED <<page_directory, tss_esp0, image>>

\* Mutant: the program is loaded before its frame is mapped.
ExecutePageKept == Skip("e_page", "e_load")

ExecutePage ==
    /\ MachineStep("e_page", "e_load")
    /\ page_directory' = Top.pid
    /\ UNCHANGED <<tss_esp0, image, arguments>>

\* The copy goes to 128MB, whatever frame is mapped there.
ExecuteLoad ==
    /\ MachineStep("e_load", "e_tss")
    /\ image' = [image EXCEPT ![page_directory] = Top.prog]
    /\ UNCHANGED <<page_directory, tss_esp0, arguments>>

ExecuteTss ==
    /\ MachineStep("e_tss", "e_iret")
    /\ tss_esp0' = StackTop(Top.pid)
    /\ UNCHANGED <<page_directory, image, arguments>>

\* pushfl hands the kernel's interrupt flag to the new process.
ExecuteIret ==
    /\ At("e_iret")
    /\ kstack' = [kstack EXCEPT ![cpu.esp.stk][cpu.esp.sp].pc = "IRET_OUT"]
    /\ cpu' = User(Top.pid)
    /\ user_if' = [user_if EXCEPT ![Top.pid] = Top.ifl]
    /\ UNCHANGED <<tables, screen, page_directory, tss_esp0, image, arguments, entry_pt, execs>>

\* IRET_OUT: leave; ret -- reached from the child's halt.
ExecuteReturns ==
    /\ At("IRET_OUT")
    /\ Return
    /\ UNCHANGED <<tables, screen, machine, execs>>

-----------------------------------------------------------------------------
(* halt *)

TerminalOf(p) == pcb[p].running_in_terminal_num

\* The last process of a terminal gives up its pid and starts a new shell.
HaltTest ==
    /\ At("h_test")
    /\ IF processPerTerminal[TerminalOf(currentProccess)] <= 1
       THEN /\ activeProccess' = [activeProccess EXCEPT ![currentProccess] = FALSE]
            /\ GotoWith("b_top", currentProccess)
       ELSE UNCHANGED activeProccess /\ GotoWith("h_free", currentProccess)
    /\ UNCHANGED <<currentProccess, processPerTerminal, pid_running_in_terminal, pcb,
                   screen, machine, execs>>

HaltBaseTop ==
    /\ TableStep("b_top", "b_cnt")
    /\ pid_running_in_terminal' =
         [pid_running_in_terminal EXCEPT ![TerminalOf(Top.pid)] = NoPid]
    /\ UNCHANGED <<activeProccess, currentProccess, processPerTerminal, pcb>>

\* processPerTerminal--, then execute("shell"), a plain call.
HaltBaseExecute ==
    /\ At("b_cnt")
    /\ processPerTerminal' = [processPerTerminal EXCEPT ![TerminalOf(Top.pid)] = @ - 1]
    /\ Enter([kstack EXCEPT ![cpu.esp.stk][cpu.esp.sp].pc = "h_free"], cpu.esp,
             <<AFrame("e_alloc", NoPid, Shell, NoPid, Top.ifl)>>)
    /\ UNCHANGED <<activeProccess, currentProccess, pid_running_in_terminal, pcb,
                   screen, machine, execs>>

HaltFree ==
    /\ TableStep("h_free", "h_page")
    /\ activeProccess' = [activeProccess EXCEPT ![currentProccess] = FALSE]
    /\ UNCHANGED <<currentProccess, processPerTerminal, pid_running_in_terminal, pcb>>

HaltPage ==
    /\ MachineStep("h_page", "h_cur")
    /\ page_directory' = pcb[Top.pid].parentID
    /\ UNCHANGED <<tss_esp0, image, arguments>>

HaltCurrent ==
    /\ TableStep("h_cur", "h_top")
    /\ currentProccess' = pcb[Top.pid].parentID
    /\ UNCHANGED <<activeProccess, processPerTerminal, pid_running_in_terminal, pcb>>

HaltTop ==
    /\ TableStep("h_top", "h_tss")
    /\ pid_running_in_terminal' =
         [pid_running_in_terminal EXCEPT ![TerminalOf(Top.pid)] = currentProccess]
    /\ UNCHANGED <<activeProccess, currentProccess, processPerTerminal, pcb>>

HaltTss ==
    /\ MachineStep("h_tss", "h_cnt")
    /\ tss_esp0' = pcb[Top.pid].parentESP
    /\ UNCHANGED <<page_directory, image, arguments>>

\* Mutant: the count is never lowered.
HaltCountKept == Skip("h_cnt", "h_jmp")

HaltCount ==
    /\ TableStep("h_cnt", "h_jmp")
    /\ processPerTerminal' = [processPerTerminal EXCEPT ![TerminalOf(Top.pid)] = @ - 1]
    /\ UNCHANGED <<activeProccess, currentProccess, pid_running_in_terminal, pcb>>

\* %esp := parentESP; jmp IRET_OUT
HaltJump ==
    /\ At("h_jmp")
    /\ Resume(kstack, pcb[Top.pid].parentESP, "IRET_OUT")
    /\ UNCHANGED <<tables, screen, machine, execs>>

-----------------------------------------------------------------------------
(* switchTerminal, inside the keyboard or PIT handler (IF clear throughout) *)

\* Where a terminal has no top process the kernel is inside halt's respawn.
Interruptible ==
    \/ InUser /\ user_if[cpu.proc]
    \/ /\ cpu.mode = "kernel" /\ Top.ifl /\ Top.pc \in SwitchPoints
       /\ pid_running_in_terminal[currentTerminal] = NoPid /\ in_use[currentTerminal]
            => "respawn" \in SwitchPoints

InterruptedEsp == IF InUser THEN tss_esp0 ELSE cpu.esp
SwitchFrame == AFrame("switch", NoPid, Shell, IF InUser THEN cpu.proc ELSE NoPid, FALSE)
SavedEsp == [InterruptedEsp EXCEPT !.sp = @ + 1]

\* Mutant: the terminal number is read after it was overwritten.
CreateSavesInNew(t) == t

CreateSavesIn(t) == currentTerminal       \* getPcbById(currentTerminal)

CreateTerminal(t) ==
    /\ ~in_use[t]
    /\ in_use' = [in_use EXCEPT ![t] = TRUE]
    /\ currentTerminal' = t
    /\ IF InterruptedEsp.sp + 2 <= StackFrames
       THEN pcb' = [pcb EXCEPT ![CreateSavesIn(t)].processESP = SavedEsp]
       ELSE UNCHANGED pcb
    /\ Enter(kstack, InterruptedEsp,
             <<SwitchFrame, AFrame("e_alloc", NoPid, Shell, NoPid, FALSE)>>)
    /\ UNCHANGED <<activeProccess, currentProccess, processPerTerminal,
                   pid_running_in_terminal, machine, execs>>

\* Mutants: tss.esp0 gets the parent's stack; the memory map is left alone.
SwitchTssParent(next) == StackTop(pcb[next].parentID)
SwitchTss(next) == StackTop(next)
SwitchPageKept(next) == page_directory
SwitchPage(next) == next

\* Processor state of the process resumed in terminal t.
LoadTask(t) ==
    LET next == pid_running_in_terminal[t] IN
    /\ tss_esp0' = SwitchTss(next)
    /\ page_directory' = SwitchPage(next)
    /\ Resume(Written(kstack, InterruptedEsp, <<SwitchFrame>>), pcb'[next].processESP, "switch")

\* getPcbById(-1) is unmapped memory.
FocusTerminal(t) ==
    /\ in_use[t]
    /\ IF InterruptedEsp.sp < StackFrames
       THEN /\ pcb' = [pcb EXCEPT ![currentProccess].processESP = SavedEsp]
            /\ currentTerminal' = t
            /\ currentProccess' = pid_running_in_terminal[t]
            /\ IF pid_running_in_terminal[t] # NoPid
               THEN LoadTask(t)
               ELSE cpu' = Crashed /\ UNCHANGED <<tss_esp0, page_directory, kstack>>
       ELSE /\ cpu' = Overflow
            /\ UNCHANGED <<pcb, currentTerminal, currentProccess, tss_esp0, page_directory, kstack>>
    /\ UNCHANGED <<activeProccess, processPerTerminal, pid_running_in_terminal, in_use,
                   image, arguments, user_if, entry_pt, execs>>

SwitchTerminal(t) == CreateTerminal(t) \/ FocusTerminal(t)

\* F1, F2, F3.
FunctionKey(t) ==
    /\ Interruptible /\ Quiet
    /\ SwitchTerminal(t)
    /\ UNCHANGED pit_interrupt_count

\* Mutant: one tick too few creates a terminal.
ShellsPendingFewer == pit_interrupt_count < MAX_TERMINAL_NUMBER - 1
ShellsPending == pit_interrupt_count < MAX_TERMINAL_NUMBER

\* pit_scheduling: the first ticks create the shells, the others do nothing.
PitTick ==
    /\ Interruptible
    /\ ShellsPending
    /\ pit_interrupt_count' = pit_interrupt_count + 1
    /\ SwitchTerminal(pit_interrupt_count)

SwitchReturns ==
    /\ At("switch")
    /\ Return
    /\ UNCHANGED <<tables, screen, machine, execs>>

-----------------------------------------------------------------------------
Init ==
    /\ activeProccess = [p \in Pid |-> FALSE]
    /\ currentProccess = 0
    /\ processPerTerminal = [t \in Term |-> 0]
    /\ pid_running_in_terminal = [t \in Term |-> NoPid]
    /\ pcb = [p \in Pid |-> [processESP |-> NULL, parentESP |-> NULL, parentID |-> 0,
                             running_in_terminal_num |-> 0]]
    /\ entry_pt = NoProgram
    /\ currentTerminal = 0
    /\ in_use = [t \in Term |-> FALSE]
    /\ pit_interrupt_count = 0
    /\ page_directory = NoPid
    /\ tss_esp0 = StackTop(0)
    /\ image = [p \in Pid |-> NoProgram]
    /\ arguments = [p \in Pid |-> NoPid]
    /\ kstack = [p \in Pid |-> [i \in 1 .. StackFrames |->
                                  IF p = 0 /\ i = 1 THEN Idle ELSE Dead]]
    /\ cpu = Kernel([stk |-> 0, sp |-> 1])
    /\ user_if = [p \in Pid |-> FALSE]
    /\ execs = 0

ExecuteStep ==
    \/ ExecuteAlloc \/ ExecuteMark \/ ExecuteInitPCB \/ ExecuteCurrent \/ ExecutePublish
    \/ ExecuteArguments \/ ExecutePage \/ ExecuteLoad \/ ExecuteTss \/ ExecuteIret \/ ExecuteReturns
HaltStep ==
    \/ HaltTest \/ HaltBaseTop \/ HaltBaseExecute \/ HaltFree \/ HaltPage \/ HaltCurrent
    \/ HaltTop \/ HaltTss \/ HaltCount \/ HaltJump
UserStep == (\E prog \in Programs : SysExecute(prog)) \/ SysHalt \/ Exception \/ SysIO
Interrupt == PitTick \/ \E t \in Term : FunctionKey(t)

Next == ExecuteStep \/ HaltStep \/ UserStep \/ IOReturns \/ SwitchReturns \/ Interrupt

\* The processor executes the kernel's instructions.  The 8259 latches a tick
\* that arrives while IF is clear and raises it when IF is set again.
Fairness == WF_vars(ExecuteStep \/ HaltStep) /\ SF_vars(PitTick)

Spec == Init /\ [][Next]_vars
FairSpec == Spec /\ Fairness
\* The shell's first instructions are a write and a read system call.
BootSpec == FairSpec /\ WF_vars(SysIO)

-----------------------------------------------------------------------------
(* Types *)

TypeOK ==
    /\ activeProccess \in [Pid -> BOOLEAN]
    /\ currentProccess \in Pid \cup {NoPid}
    /\ processPerTerminal \in [Term -> Int]
    /\ pid_running_in_terminal \in [Term -> Pid \cup {NoPid}]
    /\ pcb \in [Pid -> [processESP : Esp, parentESP : Esp, parentID : Pid,
                        running_in_terminal_num : Term]]
    /\ entry_pt \in Programs \cup {NoProgram}
    /\ currentTerminal \in Term
    /\ in_use \in [Term -> BOOLEAN]
    /\ pit_interrupt_count \in 0 .. MAX_TERMINAL_NUMBER
    /\ page_directory \in Pid \cup {NoPid}
    /\ tss_esp0 \in Esp
    /\ image \in [Pid -> Programs \cup {NoProgram}]
    /\ arguments \in [Pid -> Pid \cup {NoPid}]
    /\ kstack \in [Pid -> [1 .. StackFrames -> Frame]]
    /\ cpu \in [mode : {"user", "kernel", "crashed", "overflow"}, proc : Pid \cup {NoPid},
                esp : Esp]
    /\ user_if \in [Pid -> BOOLEAN]
    /\ execs \in 0 .. MaxExecs

-----------------------------------------------------------------------------
(* The tree of processes behind the tables *)

\* From the base shell of p's terminal down to p, by the parentID links.
lineage[n \in 0 .. MAX_PCB] ==
    [p \in Pid |-> IF n = 0 \/ pcb[p].parentID = p THEN <<p>>
                   ELSE Append(lineage[n - 1][pcb[p].parentID], p)]

treeOf == [t \in Term |-> LET top == pid_running_in_terminal[t]
                          IN  IF top = NoPid THEN <<>> ELSE lineage[MAX_PCB][top]]

Tree == INSTANCE ProcessTree WITH Boot <- 0, tree <- treeOf, fg <- currentTerminal,
                                  opened <- {t \in Term : in_use[t]}

-----------------------------------------------------------------------------
(* Properties *)

\* A saved %esp that is loaded again (terminal.c:111, systemCalls.c:74) still
\* points at the frame it was saved in.
NoWildResume == cpu.mode # "crashed"

\* The kernel stack of the running process is empty while it is in user mode:
\* tss.esp0 is what execute (systemCalls.c:214) and switchTerminal write.
TssIsStackTop == InUser => tss_esp0 = StackTop(cpu.proc)

\* In user mode every record of "who runs" names the process that does: the
\* table, the mapped frame, the terminal's top and the stack tss.esp0 is on.
UserContext ==
    InUser =>
        /\ currentProccess = cpu.proc
        /\ page_directory = cpu.proc
        /\ pid_running_in_terminal[currentTerminal] = cpu.proc
        /\ activeProccess[cpu.proc]
        /\ TerminalOf(cpu.proc) = currentTerminal
        /\ tss_esp0.stk = cpu.proc

\* A new process enters user mode with its own frame mapped and its own
\* command loaded there, whatever other terminals loaded meanwhile.
StartsOwnImage ==
    At("e_iret") => page_directory = Top.pid /\ image[Top.pid] = Top.prog

\* The arguments of a new process were read from the memory of the program that
\* called execute (systemCalls.c:196), whatever frames were mapped meanwhile.
ArgumentsFromCaller == At("e_iret") /\ Top.ret # NoPid => arguments[Top.pid] = Top.ret

\* A new process starts at the entry point of its own command, which execute
\* keeps in one global from the read of the file to the iret
\* (systemCalls.c:142-145, 236).
EntersOwnProgram == At("e_iret") => entry_pt = Top.prog

\* Once a program runs, processPerTerminal counts the processes of its
\* terminal, on which halt decides whether to start a new shell.
CountsAgree ==
    InUser => processPerTerminal[currentTerminal] = Len(treeOf[currentTerminal])

\* Every ancestor of the running program waits in its execute, at the %esp
\* its child's halt will load.
Waiting(p) ==
    LET e == pcb[p].parentESP IN
    /\ e.stk = pcb[p].parentID
    /\ e.sp > 0 /\ kstack[e.stk][e.sp].pc = "IRET_OUT"
AncestorsWait ==
    InUser => \A i \in 2 .. Len(treeOf[currentTerminal]) : Waiting(treeOf[currentTerminal][i])

\* What a terminal off the screen needs to be resumed is left alone: its top
\* process, that PCB's saved %esp and the frame it points at.
Suspended(t) ==
    LET top == pid_running_in_terminal[t]
        e   == pcb[top].processESP
    IN  IF top = NoPid \/ e.sp = 0 THEN <<>> ELSE <<top, e, kstack[e.stk][e.sp]>>
Background(t) == in_use[t] /\ t # currentTerminal
BackgroundIntact ==
    [][\A t \in Term : Background(t) /\ Background(t)' => Suspended(t)' = Suspended(t)]_vars

\* The terminal that lost its base shell gets another one.
ShellRespawns ==
    \A t \in Term : in_use[t] /\ pid_running_in_terminal[t] = NoPid
                       ~> pid_running_in_terminal[t] # NoPid

\* After power-on the shell of every terminal comes up.
BootCompletes == <>(\A t \in Term : pid_running_in_terminal[t] # NoPid)

\* The tables, the pcb links and the terminal state implement a set of
\* per-terminal process stacks.
ImplementsTree == Tree!Spec
=============================================================================
