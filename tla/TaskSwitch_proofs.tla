-------------------------- MODULE TaskSwitch_proofs --------------------------
(***************************************************************************)
(* Type correctness, safety and refinement of the process and terminal     *)
(* switch, for every table size and stack size.                            *)
(*                                                                         *)
(* TypeOK is not inductive: the code trusts its stacks (a halt or execute  *)
(* past its first statement knows its PCB, a frame at the bottom of a      *)
(* stack returns to user mode), and Inv adds those facts.                  *)
(*                                                                         *)
(* Safety needs the whole of TaskSwitchInvariant.  A step of the terminal  *)
(* on the screen shows its own part again and leaves the part of every     *)
(* other terminal alone (LocalStep); a switch hands the screen over        *)
(* (CreateSound, FocusSound).  The ghosts D, O and L are chosen anew in    *)
(* each state: a child deepens them (ChildGrows), a halt shortens them     *)
(* (ChildLeaves).                                                          *)
(*                                                                         *)
(* The refinement of ProcessTree reads the same tree off the parentID      *)
(* links: lineage computes the path from a base shell to a process         *)
(* (PathIsLineage), the ghosts say where that path leads (MemberPath), and *)
(* every statement keeps it or changes it as ProcessTree does.             *)
(***************************************************************************)
EXTENDS TaskSwitchInvariant, FiniteSetTheorems, WellFoundedInduction, TLAPS

HasPid == (ExecutePcs \ {"e_alloc"}) \cup (HaltPcs \ {"h_test"})

\* f may stand at position i of a kernel stack.
FrameOK(f, i) ==
    /\ f.pc \in HasPid => f.pid \in Pid
    /\ i = 1 /\ f.ret = NoPid => f.pc \in {"dead", "idle"}

Stacks == [Pid -> [1 .. StackFrames -> Frame]]
StacksOK(ks) ==
    ks \in Stacks /\ \A p \in Pid, i \in 1 .. StackFrames : FrameOK(ks[p][i], i)

CpuOK(c) ==
    /\ c \in [mode : {"user", "kernel", "crashed", "overflow"}, proc : Pid \cup {NoPid},
              esp : Esp]
    /\ c.mode = "user" => c.proc \in Pid
    /\ c.mode = "kernel" => c.esp.sp \in 1 .. StackFrames

Runs(c) == c.mode \in {"user", "kernel"}

Inv ==
    /\ TypeOK
    /\ StacksOK(kstack)
    /\ CpuOK(cpu)
    /\ Runs(cpu) => currentProccess \in Pid

-----------------------------------------------------------------------------
LEMMA Sizes ==
    /\ MAX_PCB \in Nat \ {0} /\ StackFrames \in Nat \ {0}
    /\ 0 \in Pid /\ 0 \in Term /\ NoPid \notin Pid /\ Term \subseteq Pid
    /\ 1 \in 1 .. StackFrames
BY TableAssumption DEF Pid, Term, NoPid

\* The stack pointers that exist before anything runs.
LEMMA NullEsp == NULL \in Esp /\ \A p \in Pid : StackTop(p) \in Esp
BY Sizes DEF NULL, StackTop, Esp

LEMMA DeadFrame == Dead \in Frame /\ \A i : FrameOK(Dead, i)
BY ProgramAssumption DEF Dead, AFrame, Frame, PCs, NoPid, FrameOK, HasPid, ExecutePcs, HaltPcs

\* What the kernel pushes are frames.
LEMMA FrameType ==
    ASSUME NEW pc \in PCs, NEW pid \in Pid \cup {NoPid}, NEW prog \in Programs,
           NEW ret \in Pid \cup {NoPid}, NEW ifl \in BOOLEAN
    PROVE  AFrame(pc, pid, prog, ret, ifl) \in Frame
BY DEF AFrame, Frame

LEMMA StopCpus == CpuOK(Crashed) /\ CpuOK(Overflow) /\ ~Runs(Crashed) /\ ~Runs(Overflow)
BY NullEsp DEF CpuOK, Crashed, Overflow, Runs, NoPid

LEMMA KernelCpu ==
    ASSUME NEW e \in Esp, e.sp > 0
    PROVE  CpuOK(Kernel(e))
BY Sizes DEF CpuOK, Kernel, Esp, NoPid

LEMMA UserCpu ==
    ASSUME NEW p \in Pid
    PROVE  CpuOK(User(p))
BY NullEsp DEF CpuOK, User

\* Writing good frames above a stack pointer leaves good stacks.
LEMMA WrittenOK ==
    ASSUME NEW ks, StacksOK(ks), NEW e \in Esp, NEW fs \in Seq(Frame),
           \A j \in 1 .. Len(fs) : FrameOK(fs[j], e.sp + j)
    PROVE  StacksOK(Written(ks, e, fs))
<1> DEFINE col == [i \in 1 .. StackFrames |->
                     IF i <= e.sp THEN ks[e.stk][i]
                     ELSE IF i <= e.sp + Len(fs) THEN fs[i - e.sp] ELSE Dead]
<1>1. e.stk \in Pid /\ e.sp \in 0 .. StackFrames /\ StackFrames \in Nat /\ Len(fs) \in Nat
  BY Sizes DEF Esp
<1>2. ks \in Stacks
  BY DEF StacksOK
<1>3. ASSUME NEW i \in 1 .. StackFrames
      PROVE  col[i] \in Frame /\ FrameOK(col[i], i)
  <2>1. CASE i <= e.sp
    BY <2>1, <1>1, <1>2 DEF StacksOK, Stacks
  <2>2. CASE ~(i <= e.sp) /\ i <= e.sp + Len(fs)
    <3>1. i - e.sp \in 1 .. Len(fs) /\ e.sp + (i - e.sp) = i
      BY <2>2, <1>1
    <3>2. fs[i - e.sp] \in Frame /\ FrameOK(fs[i - e.sp], i)
      BY <3>1
    <3>3. QED BY <2>2, <3>2
  <2>3. CASE ~(i <= e.sp) /\ ~(i <= e.sp + Len(fs))
    BY <2>3, DeadFrame
  <2>4. QED BY <2>1, <2>2, <2>3
<1>4. Written(ks, e, fs) = [ks EXCEPT ![e.stk] = col]
  BY DEF Written
<1>5. col \in [1 .. StackFrames -> Frame]
  BY <1>3
<1> HIDE DEF col
<1>6. QED BY <1>1, <1>2, <1>3, <1>4, <1>5 DEF StacksOK, Stacks

\* What happens to the stacks when frames are popped, pushed or one is jumped to.
LEMMA PoppedOK ==
    ASSUME NEW ks, StacksOK(ks), NEW e \in Esp
    PROVE  StacksOK(Written(ks, e, <<>>))
<1>1. <<>> \in Seq(Frame) /\ Len(<<>>) = 0
  OBVIOUS
<1>2. \A j \in 1 .. Len(<<>>) : FrameOK(<<>>[j], e.sp + j)
  BY <1>1
<1>3. QED BY <1>1, <1>2, WrittenOK

LEMMA EnterOK ==
    ASSUME NEW ks, StacksOK(ks), NEW e \in Esp, NEW fs \in Seq(Frame), Len(fs) > 0,
           \A j \in 1 .. Len(fs) : FrameOK(fs[j], e.sp + j),
           Enter(ks, e, fs)
    PROVE  StacksOK(kstack') /\ CpuOK(cpu')
<1>1. CASE e.sp + Len(fs) <= StackFrames
  <2>1. [e EXCEPT !.sp = @ + Len(fs)] \in Esp /\ [e EXCEPT !.sp = @ + Len(fs)].sp > 0
    BY <1>1, Sizes DEF Esp
  <2>2. QED BY <1>1, <2>1, KernelCpu, WrittenOK DEF Enter
<1>2. CASE ~(e.sp + Len(fs) <= StackFrames)
  BY <1>2, StopCpus DEF Enter
<1>3. QED BY <1>1, <1>2

LEMMA ResumeOK ==
    ASSUME NEW ks, StacksOK(ks), NEW e \in Esp, NEW pc, Resume(ks, e, pc)
    PROVE  StacksOK(kstack') /\ CpuOK(cpu')
BY PoppedOK, KernelCpu, StopCpus DEF Resume

\* The running frame.
LEMMA TopFrame ==
    ASSUME Inv, cpu.mode = "kernel"
    PROVE  /\ cpu.esp \in Esp /\ cpu.esp.stk \in Pid /\ cpu.esp.sp \in 1 .. StackFrames
           /\ Top \in Frame /\ FrameOK(Top, cpu.esp.sp)
           /\ kstack[cpu.esp.stk] \in [1 .. StackFrames -> Frame]
BY DEF Inv, CpuOK, StacksOK, Stacks, Esp, Top

\* A frame with a process to return to pops to its user mode, another one to
\* the frame below it.
LEMMA ReturnOK ==
    ASSUME Inv, cpu.mode = "kernel", Top.pc \notin {"dead", "idle"}, Return
    PROVE  StacksOK(kstack') /\ CpuOK(cpu')
<1> DEFINE below == [cpu.esp EXCEPT !.sp = @ - 1]
<1>1. below \in Esp /\ below.sp = cpu.esp.sp - 1
  BY TopFrame, Sizes DEF Esp
<1>2. StacksOK(kstack)
  BY DEF Inv
<1>3. StacksOK(kstack')
  BY <1>1, <1>2, PoppedOK DEF Return
<1>4. CASE Top.ret # NoPid
  BY <1>3, <1>4, TopFrame, UserCpu DEF Return, Frame
<1>5. CASE Top.ret = NoPid
  <2>1. cpu.esp.sp # 1
    BY <1>5, TopFrame DEF FrameOK
  <2>2. below.sp > 0
    BY <2>1, <1>1, TopFrame, Sizes
  <2>3. QED BY <1>1, <1>3, <1>5, <2>2, KernelCpu DEF Return
<1>6. QED BY <1>4, <1>5

\* The running frame moves to another statement.
LEMMA SetTopOK ==
    ASSUME Inv, cpu.mode = "kernel", NEW f \in Frame, FrameOK(f, cpu.esp.sp)
    PROVE  StacksOK([kstack EXCEPT ![cpu.esp.stk][cpu.esp.sp] = f])
BY TopFrame DEF Inv, StacksOK, Stacks

\* The statement of the frame on top moves on.
LEMMA GotoOK ==
    ASSUME Inv, cpu.mode = "kernel", NEW pc \in PCs, Top.pc \notin {"dead", "idle"},
           Top.pc \in HasPid \/ pc \notin HasPid
    PROVE  StacksOK([kstack EXCEPT ![cpu.esp.stk][cpu.esp.sp].pc = pc])
<1> DEFINE f == [Top EXCEPT !.pc = pc]
<1>1. f \in Frame /\ f.pc = pc /\ f.pid = Top.pid /\ f.ret = Top.ret
  BY TopFrame DEF Frame
<1>2. FrameOK(f, cpu.esp.sp)
  BY <1>1, TopFrame DEF FrameOK
<1>3. [kstack EXCEPT ![cpu.esp.stk][cpu.esp.sp].pc = pc]
        = [kstack EXCEPT ![cpu.esp.stk][cpu.esp.sp] = f]
  BY TopFrame DEF Top, Inv, StacksOK, Stacks
<1> HIDE DEF f
<1>4. QED BY <1>1, <1>2, <1>3, SetTopOK

LEMMA GotoWithOK ==
    ASSUME Inv, cpu.mode = "kernel", NEW pc \in PCs, NEW pid \in Pid,
           Top.pc \notin {"dead", "idle"}, GotoWith(pc, pid)
    PROVE  StacksOK(kstack') /\ CpuOK(cpu')
<1> DEFINE f == [Top EXCEPT !.pc = pc, !.pid = pid]
<1>1. f \in Frame /\ f.pc = pc /\ f.pid = pid /\ f.ret = Top.ret
  BY TopFrame DEF Frame
<1>2. FrameOK(f, cpu.esp.sp)
  BY <1>1, TopFrame DEF FrameOK
<1>3. [kstack EXCEPT ![cpu.esp.stk][cpu.esp.sp].pc = pc,
                     ![cpu.esp.stk][cpu.esp.sp].pid = pid]
        = [kstack EXCEPT ![cpu.esp.stk][cpu.esp.sp] = f]
  BY TopFrame DEF Top, Inv, StacksOK, Stacks
<1> HIDE DEF f
<1>4. QED BY <1>1, <1>2, <1>3, SetTopOK DEF GotoWith, Inv

-----------------------------------------------------------------------------
\* TypeOK without the stacks and the processor.
TablesOK ==
    /\ activeProccess \in [Pid -> BOOLEAN]
    /\ currentProccess \in Pid \cup {NoPid}
    /\ processPerTerminal \in [Term -> Int]
    /\ pid_running_in_terminal \in [Term -> Pid \cup {NoPid}]
    /\ pcb \in [Pid -> [processESP : Esp, parentESP : Esp, parentID : Pid,
                        running_in_terminal_num : Term]]
ScreenOK ==
    /\ currentTerminal \in Term
    /\ in_use \in [Term -> BOOLEAN]
    /\ pit_interrupt_count \in 0 .. MAX_TERMINAL_NUMBER
MachineOK ==
    /\ entry_pt \in Programs \cup {NoProgram}
    /\ page_directory \in Pid \cup {NoPid}
    /\ tss_esp0 \in Esp
    /\ image \in [Pid -> Programs \cup {NoProgram}]
    /\ arguments \in [Pid -> Pid \cup {NoPid}]
    /\ user_if \in [Pid -> BOOLEAN]
DataOK == TablesOK /\ ScreenOK /\ MachineOK /\ execs \in 0 .. MaxExecs
Processor == StacksOK(kstack) /\ CpuOK(cpu) /\ (Runs(cpu) => currentProccess \in Pid)

\* The invariant splits into the tables and the processor with its stacks.
LEMMA Parts == Inv <=> DataOK /\ Processor
BY DEF Inv, TypeOK, DataOK, TablesOK, ScreenOK, MachineOK, Processor, StacksOK, Stacks, CpuOK

LEMMA PartsNext == DataOK' /\ Processor' => Inv'
BY DEF Inv, TypeOK, DataOK, TablesOK, ScreenOK, MachineOK, Processor, StacksOK, Stacks, CpuOK

LEMMA Known ==
    ASSUME Inv
    PROVE  /\ DataOK /\ TablesOK /\ ScreenOK /\ MachineOK
           /\ Processor /\ StacksOK(kstack) /\ CpuOK(cpu)
           /\ Runs(cpu) => currentProccess \in Pid
BY Parts DEF DataOK, Processor

\* Each kind of step keeps the types.
LEMMA Base == Init => Inv
<1> SUFFICES ASSUME Init PROVE Inv
  OBVIOUS
<1>1. TablesOK
  BY Sizes, NullEsp DEF Init, TablesOK
<1>2. ScreenOK
  BY Sizes, TableAssumption DEF Init, ScreenOK
<1>3. MachineOK
  BY Sizes, NullEsp DEF Init, MachineOK
<1>4. execs \in 0 .. MaxExecs
  BY ProgramAssumption DEF Init
<1>5. Idle \in Frame /\ \A i : FrameOK(Idle, i)
  BY ProgramAssumption
     DEF Idle, AFrame, Frame, PCs, NoPid, FrameOK, HasPid, ExecutePcs, HaltPcs
<1>6. StacksOK(kstack)
  BY <1>5, DeadFrame DEF Init, StacksOK, Stacks
<1>7. CpuOK(cpu)
  <2>1. [stk |-> 0, sp |-> 1] \in Esp
    BY Sizes DEF Esp
  <2>2. QED BY <2>1, KernelCpu DEF Init
<1>8. currentProccess \in Pid
  BY Sizes DEF Init
<1>9. QED BY <1>1, <1>2, <1>3, <1>4, <1>6, <1>7, <1>8, Parts DEF DataOK, Processor

\* Steps that only push, pop or relabel frames.
LEMMA StackOnly ==
    ASSUME Inv, StacksOK(kstack'), CpuOK(cpu'), Runs(cpu),
           UNCHANGED <<tables, screen, machine>>, execs' \in 0 .. MaxExecs
    PROVE  Inv'
<1>1. DataOK'
  BY Known DEF DataOK, TablesOK, ScreenOK, MachineOK, tables, screen, machine
<1>2. Processor'
  BY Known DEF Processor, tables, Runs
<1>3. QED BY <1>1, <1>2, PartsNext

\* An entry from user mode leaves good stacks.
LEMMA UserEntry ==
    ASSUME Inv, InUser, NEW f \in Frame, f.ret = cpu.proc, f.pc \notin HasPid,
           Enter(kstack, tss_esp0, <<f>>)
    PROVE  StacksOK(kstack') /\ CpuOK(cpu') /\ Runs(cpu)
<1>1. cpu.proc \in Pid /\ Runs(cpu)
  BY Known DEF CpuOK, InUser, Runs
<1>2. tss_esp0 \in Esp
  BY Known DEF MachineOK
<1>3. \A j \in 1 .. Len(<<f>>) : FrameOK(<<f>>[j], tss_esp0.sp + j)
  BY <1>1, Sizes DEF FrameOK
<1>4. <<f>> \in Seq(Frame) /\ Len(<<f>>) > 0
  OBVIOUS
<1>5. QED BY <1>1, <1>2, <1>3, <1>4, Known, EnterOK

LEMMA UserStepOK ==
    ASSUME Inv, UserStep
    PROVE  Inv'
<1>0. execs \in 0 .. MaxExecs /\ MaxExecs \in Nat
  BY Known, ProgramAssumption DEF DataOK
<1>1. InUser /\ cpu.proc \in Pid /\ user_if[cpu.proc] \in BOOLEAN
  BY Known DEF UserStep, SysExecute, SysHalt, Exception, SysIO, CpuOK, InUser, MachineOK
<1>2. Shell \in Programs /\ NoPid \in Pid \cup {NoPid}
  BY ProgramAssumption
<1>3. {"e_alloc", "h_test", "io"} \subseteq PCs /\ {"e_alloc", "h_test", "io"} \cap HasPid = {}
  BY DEF PCs, HasPid, ExecutePcs, HaltPcs
<1>4. ASSUME NEW prog \in Programs, SysExecute(prog) PROVE Inv'
  <2> DEFINE f == AFrame("e_alloc", NoPid, prog, cpu.proc, TRUE)
  <2>1. f \in Frame /\ f.ret = cpu.proc /\ f.pc \notin HasPid
    BY <1>1, <1>2, <1>3 DEF Frame, AFrame
  <2>2. Enter(kstack, tss_esp0, <<f>>) /\ execs' \in 0 .. MaxExecs
    BY <1>0, <1>4 DEF SysExecute
  <2> HIDE DEF f
  <2>3. QED BY <1>1, <1>4, <2>1, <2>2, UserEntry, StackOnly DEF SysExecute
<1>5. CASE SysHalt
  <2> DEFINE f == AFrame("h_test", NoPid, Shell, cpu.proc, TRUE)
  <2>1. f \in Frame /\ f.ret = cpu.proc /\ f.pc \notin HasPid
    BY <1>1, <1>2, <1>3 DEF Frame, AFrame
  <2>2. Enter(kstack, tss_esp0, <<f>>) /\ execs' \in 0 .. MaxExecs
    BY <1>0, <1>5 DEF SysHalt
  <2> HIDE DEF f
  <2>3. QED BY <1>1, <1>5, <2>1, <2>2, UserEntry, StackOnly DEF SysHalt
<1>6. CASE Exception
  <2> DEFINE f == AFrame("h_test", NoPid, Shell, cpu.proc, user_if[cpu.proc])
  <2>1. f \in Frame /\ f.ret = cpu.proc /\ f.pc \notin HasPid
    BY <1>1, <1>2, <1>3 DEF Frame, AFrame
  <2>2. Enter(kstack, tss_esp0, <<f>>) /\ execs' \in 0 .. MaxExecs
    BY <1>0, <1>6 DEF Exception
  <2> HIDE DEF f
  <2>3. QED BY <1>1, <1>6, <2>1, <2>2, UserEntry, StackOnly DEF Exception
<1>7. CASE SysIO
  <2> DEFINE f == AFrame("io", NoPid, Shell, cpu.proc, TRUE)
  <2>1. f \in Frame /\ f.ret = cpu.proc /\ f.pc \notin HasPid
    BY <1>1, <1>2, <1>3 DEF Frame, AFrame
  <2>2. Enter(kstack, tss_esp0, <<f>>) /\ execs' \in 0 .. MaxExecs
    BY <1>0, <1>7 DEF SysIO
  <2> HIDE DEF f
  <2>3. QED BY <1>1, <1>7, <2>1, <2>2, UserEntry, StackOnly DEF SysIO
<1>8. QED BY <1>4, <1>5, <1>6, <1>7 DEF UserStep

\* IOReturns, SwitchReturns, ExecuteReturns.
LEMMA ReturnStepOK ==
    ASSUME Inv, IOReturns \/ SwitchReturns \/ ExecuteReturns
    PROVE  Inv'
<1>1. /\ cpu.mode = "kernel" /\ Top.pc \notin {"dead", "idle"} /\ Return
      /\ UNCHANGED <<tables, screen, machine>> /\ UNCHANGED execs
  BY DEF IOReturns, SwitchReturns, ExecuteReturns, At
<1>2. StacksOK(kstack') /\ CpuOK(cpu')
  BY <1>1, ReturnOK
<1>3. execs' \in 0 .. MaxExecs
  BY <1>1, Known DEF DataOK
<1>4. QED BY <1>1, <1>2, <1>3, StackOnly DEF Runs

-----------------------------------------------------------------------------
\* One statement of execute or halt: the frame stays good when the statement
\* it moves to may stand there; the rest is the statement's own data.
LEMMA StepOK ==
    ASSUME Inv, NEW from \in HasPid, NEW to \in PCs, At(from), Goto(to),
           DataOK', currentProccess' \in Pid
    PROVE  Inv'
<1>1. cpu.mode = "kernel" /\ Top.pc = from /\ from \notin {"dead", "idle"}
  BY DEF At, HasPid, ExecutePcs, HaltPcs
<1>2. StacksOK(kstack')
  BY <1>1, GotoOK DEF Goto
<1>3. CpuOK(cpu')
  BY Known DEF Goto
<1>4. QED BY <1>2, <1>3, PartsNext DEF Processor

\* What a step of execute or halt finds in its frame.
LEMMA KernelFacts ==
    ASSUME Inv, NEW from \in HasPid, At(from)
    PROVE  /\ Top.pid \in Pid /\ currentProccess \in Pid /\ Top.prog \in Programs
           /\ Top \in Frame /\ cpu.esp \in Esp
           /\ TerminalOf(Top.pid) \in Term /\ pcb[Top.pid].parentID \in Pid
           /\ pcb[Top.pid].parentESP \in Esp
BY TopFrame, Known DEF At, FrameOK, Frame, Runs, TablesOK, TerminalOf

LEMMA PcNames ==
    /\ HasPid \subseteq PCs
    /\ {"e_mark", "e_init", "e_cur", "e_top", "e_args", "e_page", "e_load", "e_tss", "e_iret",
        "IRET_OUT", "b_top", "b_cnt", "h_free", "h_page", "h_cur", "h_top", "h_tss",
        "h_cnt", "h_jmp"} = HasPid
    /\ {"dead", "idle"} \cap HasPid = {}
    /\ {"e_alloc", "h_test", "io", "switch"} \cap HasPid = {}
    /\ {"e_alloc", "h_test", "io", "switch"} \subseteq PCs
BY DEF PCs, HasPid, ExecutePcs, HaltPcs

LEMMA ExecuteStepOK ==
    ASSUME Inv, ExecuteStep
    PROVE  Inv'
<1>1. CASE ExecuteAlloc
  <2>1. cpu.mode = "kernel" /\ Top.pc = "e_alloc" /\ Top.pc \notin {"dead", "idle"}
    BY <1>1 DEF ExecuteAlloc, At
  <2>2. StacksOK(kstack') /\ CpuOK(cpu')
    <3>1. ASSUME NEW p \in Pid, GotoWith("e_mark", p) PROVE StacksOK(kstack') /\ CpuOK(cpu')
      BY <2>1, <3>1, PcNames, GotoWithOK
    <3>2. ASSUME Return PROVE StacksOK(kstack') /\ CpuOK(cpu')
      BY <2>1, <3>2, ReturnOK
    <3>3. QED BY <1>1, <3>1, <3>2 DEF ExecuteAlloc
  <2>3. Top.prog \in Programs /\ currentProccess \in Pid
    BY <2>1, TopFrame, Known DEF Frame, Runs
  <2>4. DataOK'
    BY <1>1, <2>3, Known DEF ExecuteAlloc, DataOK, TablesOK, ScreenOK, MachineOK, tables, screen
  <2>5. currentProccess' = currentProccess
    BY <1>1 DEF ExecuteAlloc, tables
  <2>6. QED BY <2>2, <2>3, <2>4, <2>5, PartsNext DEF Processor
<1>2. CASE ExecuteMark
  <2>1. At("e_mark") /\ Goto("e_init")
    BY <1>2 DEF ExecuteMark, TableStep, Step
  <2>2. DataOK' /\ currentProccess' \in Pid
    BY <1>2, <2>1, Known, KernelFacts, PcNames
       DEF ExecuteMark, TableStep, Step, DataOK, TablesOK, ScreenOK, MachineOK, screen, machine
  <2>3. QED BY <2>1, <2>2, PcNames, StepOK
<1>3. CASE ExecuteInitPCB
  <2>1. At("e_init") /\ Goto("e_cur")
    BY <1>3 DEF ExecuteInitPCB, TableStep, Step
  <2> DEFINE r == [processESP |-> NULL, parentESP |-> cpu.esp, parentID |-> 0,
                   running_in_terminal_num |-> RecordedTerminal]
  <2>2. r \in [processESP : Esp, parentESP : Esp, parentID : Pid,
               running_in_terminal_num : Term]
    BY <2>1, Known, KernelFacts, PcNames, Sizes, NullEsp DEF ScreenOK, RecordedTerminal
  <2> HIDE DEF r
  <2>3. TablesOK' /\ currentProccess' \in Pid
    <3>1. pcb' = [pcb EXCEPT ![Top.pid] = r]
      BY <1>3 DEF ExecuteInitPCB, r
    <3>2. currentTerminal \in Term /\ currentProccess \in Pid /\ TablesOK
      BY <2>1, Known, KernelFacts, PcNames DEF ScreenOK
    <3>3. processPerTerminal' \in [Term -> Int]
      BY <1>3, <3>2 DEF ExecuteInitPCB, TablesOK
    <3>4. pcb' \in [Pid -> [processESP : Esp, parentESP : Esp, parentID : Pid,
                            running_in_terminal_num : Term]]
      <4> DEFINE PCB == [processESP : Esp, parentESP : Esp, parentID : Pid,
                         running_in_terminal_num : Term]
      <4>1. pcb \in [Pid -> PCB] /\ r \in PCB
        BY <2>2, <3>2 DEF TablesOK
      <4> HIDE DEF PCB
      <4>2. pcb' \in [Pid -> PCB]
        BY <3>1, <4>1
      <4>3. QED BY <4>2 DEF PCB
    <3>5. QED BY <1>3, <3>2, <3>3, <3>4 DEF ExecuteInitPCB, TablesOK
  <2>4. DataOK'
    BY <1>3, <2>3, Known
       DEF ExecuteInitPCB, TableStep, Step, DataOK, ScreenOK, MachineOK, screen, machine
  <2>5. QED BY <2>1, <2>3, <2>4, PcNames, StepOK
<1>4. CASE ExecuteCurrent
  <2>1. At("e_cur") /\ Goto("e_top")
    BY <1>4 DEF ExecuteCurrent, TableStep, Step
  <2>2. DataOK' /\ currentProccess' \in Pid
    BY <1>4, <2>1, Known, KernelFacts, PcNames
       DEF ExecuteCurrent, TableStep, Step, DataOK, TablesOK, ScreenOK, MachineOK, screen, machine
  <2>3. QED BY <2>1, <2>2, PcNames, StepOK
<1>5. CASE ExecutePublish
  <2>1. At("e_top") /\ Goto("e_args")
    BY <1>5 DEF ExecutePublish, TableStep, Step
  <2>2. Top.pid \in Pid /\ ParentOf(Top.pid) \in Pid /\ NewTop(Top.pid) \in Pid
    BY <2>1, Known, KernelFacts, PcNames, Sizes DEF ParentOf, NewTop, TablesOK, TerminalOf, NoPid
  <2>3. TablesOK' /\ currentProccess' \in Pid
    BY <1>5, <2>1, <2>2, Known, KernelFacts, PcNames DEF ExecutePublish, TablesOK
  <2>4. DataOK'
    BY <1>5, <2>3, Known
       DEF ExecutePublish, TableStep, Step, DataOK, ScreenOK, MachineOK, screen, machine
  <2>5. QED BY <2>1, <2>3, <2>4, PcNames, StepOK
<1>6. CASE ExecutePage
  <2>1. At("e_page") /\ Goto("e_load")
    BY <1>6 DEF ExecutePage, MachineStep, Step
  <2>2. DataOK' /\ currentProccess' \in Pid
    BY <1>6, <2>1, Known, KernelFacts, PcNames
       DEF ExecutePage, MachineStep, Step, DataOK, TablesOK, ScreenOK, MachineOK, screen, tables
  <2>3. QED BY <2>1, <2>2, PcNames, StepOK
<1>7. CASE ExecuteLoad
  <2>1. At("e_load") /\ Goto("e_tss")
    BY <1>7 DEF ExecuteLoad, MachineStep, Step
  <2>2. DataOK' /\ currentProccess' \in Pid
    BY <1>7, <2>1, Known, KernelFacts, PcNames
       DEF ExecuteLoad, MachineStep, Step, DataOK, TablesOK, ScreenOK, MachineOK, screen, tables
  <2>3. QED BY <2>1, <2>2, PcNames, StepOK
<1>8. CASE ExecuteTss
  <2>1. At("e_tss") /\ Goto("e_iret")
    BY <1>8 DEF ExecuteTss, MachineStep, Step
  <2>2. DataOK' /\ currentProccess' \in Pid
    BY <1>8, <2>1, Known, KernelFacts, PcNames, NullEsp
       DEF ExecuteTss, MachineStep, Step, DataOK, TablesOK, ScreenOK, MachineOK, screen, tables
  <2>3. QED BY <2>1, <2>2, PcNames, StepOK
<1>9. CASE ExecuteIret
  <2>1. At("e_iret") /\ Top.pid \in Pid /\ Top.ifl \in BOOLEAN /\ currentProccess \in Pid
    BY <1>9, KernelFacts, PcNames DEF ExecuteIret, Frame
  <2>2. StacksOK(kstack')
    BY <1>9, <2>1, PcNames, GotoOK DEF ExecuteIret, At
  <2>3. CpuOK(cpu')
    BY <1>9, <2>1, UserCpu DEF ExecuteIret
  <2>4. DataOK'
    BY <1>9, <2>1, Known DEF ExecuteIret, DataOK, TablesOK, ScreenOK, MachineOK, screen, tables
  <2>5. QED BY <1>9, <2>1, <2>2, <2>3, <2>4, PartsNext DEF Processor, ExecuteIret, tables
<1>10. CASE ExecuteArguments
  <2>1. At("e_args") /\ Goto("e_page")
    BY <1>10 DEF ExecuteArguments, MachineStep, Step
  <2>2. DataOK' /\ currentProccess' \in Pid
    BY <1>10, <2>1, Known, KernelFacts, PcNames
       DEF ExecuteArguments, MachineStep, Step, DataOK, TablesOK, ScreenOK, MachineOK, screen, tables
  <2>3. QED BY <2>1, <2>2, PcNames, StepOK
<1>11. QED
  BY <1>1, <1>2, <1>3, <1>4, <1>5, <1>6, <1>7, <1>8, <1>9, <1>10, ReturnStepOK DEF ExecuteStep

LEMMA HaltStepOK ==
    ASSUME Inv, HaltStep
    PROVE  Inv'
<1>1. CASE HaltTest
  <2>1. /\ cpu.mode = "kernel" /\ Top.pc = "h_test" /\ Top.pc \notin {"dead", "idle"}
        /\ currentProccess \in Pid
    BY <1>1, Known DEF HaltTest, At, Runs
  <2>2. StacksOK(kstack') /\ CpuOK(cpu')
    BY <1>1, <2>1, PcNames, GotoWithOK DEF HaltTest
  <2>3. DataOK' /\ currentProccess' \in Pid
    BY <1>1, <2>1, Known
       DEF HaltTest, DataOK, TablesOK, ScreenOK, MachineOK, screen, machine
  <2>4. QED BY <2>2, <2>3, PartsNext DEF Processor
<1>2. CASE HaltBaseTop
  <2>1. At("b_top") /\ Goto("b_cnt")
    BY <1>2 DEF HaltBaseTop, TableStep, Step
  <2>2. DataOK' /\ currentProccess' \in Pid
    BY <1>2, <2>1, Known, KernelFacts, PcNames
       DEF HaltBaseTop, TableStep, Step, DataOK, TablesOK, ScreenOK, MachineOK, screen, machine
  <2>3. QED BY <2>1, <2>2, PcNames, StepOK
<1>3. CASE HaltBaseExecute
  <2> DEFINE ks == [kstack EXCEPT ![cpu.esp.stk][cpu.esp.sp].pc = "h_free"]
             f  == AFrame("e_alloc", NoPid, Shell, NoPid, Top.ifl)
  <2>1. /\ cpu.mode = "kernel" /\ At("b_cnt") /\ Top.pc = "b_cnt"
        /\ Top.ifl \in BOOLEAN /\ cpu.esp \in Esp /\ cpu.esp.sp \in 1 .. StackFrames
    BY <1>3, TopFrame DEF HaltBaseExecute, At, Frame
  <2>2. StacksOK(ks)
    BY <2>1, PcNames, GotoOK
  <2>3. f \in Frame /\ f.pc \notin HasPid
    BY <2>1, PcNames, ProgramAssumption DEF AFrame, Frame
  <2>4. FrameOK(f, cpu.esp.sp + 1)
    BY <2>1, <2>3, Sizes DEF FrameOK
  <2>5. Enter(ks, cpu.esp, <<f>>)
    BY <1>3 DEF HaltBaseExecute
  <2> HIDE DEF ks, f
  <2>6. <<f>> \in Seq(Frame) /\ Len(<<f>>) > 0 /\ \A j \in 1 .. Len(<<f>>) :
            FrameOK(<<f>>[j], cpu.esp.sp + j)
    BY <2>3, <2>4
  <2>7. StacksOK(kstack') /\ CpuOK(cpu')
    BY <2>1, <2>2, <2>5, <2>6, EnterOK
  <2>8. DataOK' /\ currentProccess' \in Pid
    BY <1>3, <2>1, Known, KernelFacts, PcNames
       DEF HaltBaseExecute, DataOK, TablesOK, ScreenOK, MachineOK, screen, machine
  <2>9. QED BY <2>7, <2>8, PartsNext DEF Processor
<1>4. CASE HaltFree
  <2>1. At("h_free") /\ Goto("h_page")
    BY <1>4 DEF HaltFree, TableStep, Step
  <2>2. DataOK' /\ currentProccess' \in Pid
    BY <1>4, <2>1, Known, KernelFacts, PcNames
       DEF HaltFree, TableStep, Step, DataOK, TablesOK, ScreenOK, MachineOK, screen, machine
  <2>3. QED BY <2>1, <2>2, PcNames, StepOK
<1>5. CASE HaltPage
  <2>1. At("h_page") /\ Goto("h_cur")
    BY <1>5 DEF HaltPage, MachineStep, Step
  <2>2. DataOK' /\ currentProccess' \in Pid
    BY <1>5, <2>1, Known, KernelFacts, PcNames
       DEF HaltPage, MachineStep, Step, DataOK, TablesOK, ScreenOK, MachineOK, screen, tables
  <2>3. QED BY <2>1, <2>2, PcNames, StepOK
<1>6. CASE HaltCurrent
  <2>1. At("h_cur") /\ Goto("h_top")
    BY <1>6 DEF HaltCurrent, TableStep, Step
  <2>2. DataOK' /\ currentProccess' \in Pid
    BY <1>6, <2>1, Known, KernelFacts, PcNames
       DEF HaltCurrent, TableStep, Step, DataOK, TablesOK, ScreenOK, MachineOK, screen, machine
  <2>3. QED BY <2>1, <2>2, PcNames, StepOK
<1>7. CASE HaltTop
  <2>1. At("h_top") /\ Goto("h_tss")
    BY <1>7 DEF HaltTop, TableStep, Step
  <2>2. DataOK' /\ currentProccess' \in Pid
    BY <1>7, <2>1, Known, KernelFacts, PcNames
       DEF HaltTop, TableStep, Step, DataOK, TablesOK, ScreenOK, MachineOK, screen, machine
  <2>3. QED BY <2>1, <2>2, PcNames, StepOK
<1>8. CASE HaltTss
  <2>1. At("h_tss") /\ Goto("h_cnt")
    BY <1>8 DEF HaltTss, MachineStep, Step
  <2>2. DataOK' /\ currentProccess' \in Pid
    BY <1>8, <2>1, Known, KernelFacts, PcNames
       DEF HaltTss, MachineStep, Step, DataOK, TablesOK, ScreenOK, MachineOK, screen, tables
  <2>3. QED BY <2>1, <2>2, PcNames, StepOK
<1>9. CASE HaltCount
  <2>1. At("h_cnt") /\ Goto("h_jmp")
    BY <1>9 DEF HaltCount, TableStep, Step
  <2>2. DataOK' /\ currentProccess' \in Pid
    BY <1>9, <2>1, Known, KernelFacts, PcNames
       DEF HaltCount, TableStep, Step, DataOK, TablesOK, ScreenOK, MachineOK, screen, machine
  <2>3. QED BY <2>1, <2>2, PcNames, StepOK
<1>10. CASE HaltJump
  <2>1. At("h_jmp") /\ Resume(kstack, pcb[Top.pid].parentESP, "IRET_OUT")
    BY <1>10 DEF HaltJump
  <2>2. pcb[Top.pid].parentESP \in Esp
    BY <2>1, KernelFacts, PcNames
  <2>3. StacksOK(kstack') /\ CpuOK(cpu')
    BY <2>1, <2>2, Known, ResumeOK
  <2>4. execs' \in 0 .. MaxExecs /\ Runs(cpu)
    BY <1>10, Known DEF HaltJump, DataOK, At, Runs
  <2>5. QED BY <1>10, <2>3, <2>4, StackOnly DEF HaltJump
<1>11. QED
  BY <1>1, <1>2, <1>3, <1>4, <1>5, <1>6, <1>7, <1>8, <1>9, <1>10 DEF HaltStep

-----------------------------------------------------------------------------
\* The context a switch interrupts, and the frame its handler pushes there.
LEMMA SwitchFacts ==
    ASSUME Inv, Interruptible
    PROVE  /\ InterruptedEsp \in Esp /\ SwitchFrame \in Frame /\ currentProccess \in Pid
           /\ FrameOK(SwitchFrame, InterruptedEsp.sp + 1)
           /\ SwitchFrame.pc = "switch"
<1>1. (InUser /\ cpu.proc \in Pid) \/ (cpu.mode = "kernel" /\ ~InUser)
  BY Known DEF Interruptible, InUser, CpuOK
<1>2. currentProccess \in Pid
  BY <1>1, Known DEF Runs, InUser
<1>3. InterruptedEsp \in Esp
  BY <1>1, TopFrame, Known DEF InterruptedEsp, MachineOK
<1>4. SwitchFrame \in Frame /\ SwitchFrame.pc = "switch"
  BY <1>1, ProgramAssumption, PcNames DEF SwitchFrame, AFrame, Frame
<1>5. FrameOK(SwitchFrame, InterruptedEsp.sp + 1)
  <2>1. CASE InUser
    BY <2>1, <1>1, <1>4, PcNames, Sizes DEF FrameOK, SwitchFrame, AFrame
  <2>2. CASE ~InUser
    <3>1. InterruptedEsp.sp + 1 # 1
      BY <2>2, <1>1, TopFrame, Sizes DEF InterruptedEsp
    <3>2. QED BY <3>1, <1>4, PcNames DEF FrameOK
  <2>3. QED BY <2>1, <2>2
<1>6. QED BY <1>2, <1>3, <1>4, <1>5

\* The data a switch leaves, given the new PCBs and pit_interrupt_count.
LEMMA CreateTerminalOK ==
    ASSUME Inv, Interruptible, NEW t \in Term, CreateTerminal(t),
           pit_interrupt_count' \in 0 .. MAX_TERMINAL_NUMBER
    PROVE  Inv'
<1> DEFINE f  == AFrame("e_alloc", NoPid, Shell, NoPid, FALSE)
           fs == <<SwitchFrame, f>>
<1>1. f \in Frame /\ f.pc \notin HasPid /\ f.pc \notin {"dead", "idle"}
  BY PcNames, ProgramAssumption DEF AFrame, Frame
<1>2. FrameOK(f, InterruptedEsp.sp + 2)
  <2>1. InterruptedEsp.sp \in Nat /\ InterruptedEsp.sp + 2 # 1
    BY SwitchFacts, Sizes DEF Esp
  <2> HIDE DEF f
  <2>2. QED BY <1>1, <2>1 DEF FrameOK
<1>3. Enter(kstack, InterruptedEsp, fs)
  BY DEF CreateTerminal
<1> HIDE DEF f
<1>4. /\ fs \in Seq(Frame) /\ Len(fs) = 2
      /\ \A j \in 1 .. Len(fs) : FrameOK(fs[j], InterruptedEsp.sp + j)
  <2>1. /\ fs \in Seq(Frame) /\ Len(fs) = 2 /\ fs[1] = SwitchFrame /\ fs[2] = f
    BY <1>1, SwitchFacts
  <2> HIDE DEF fs
  <2>2. \A j \in 1 .. 2 : j = 1 \/ j = 2
    OBVIOUS
  <2>3. QED BY <1>2, <2>1, <2>2, SwitchFacts
<1> HIDE DEF fs
<1>5. StacksOK(kstack') /\ CpuOK(cpu')
  <2>1. InterruptedEsp \in Esp /\ StacksOK(kstack) /\ Len(fs) > 0 /\ fs \in Seq(Frame)
    BY <1>4, SwitchFacts, Known
  <2>2. QED BY <1>3, <1>4, <2>1, EnterOK
<1>6. TablesOK'
  <2>1. CreateSavesIn(t) \in Pid
    BY Known, Sizes DEF ScreenOK, CreateSavesIn
  <2>2. InterruptedEsp.sp + 2 <= StackFrames => SavedEsp \in Esp
    BY SwitchFacts, Sizes DEF SavedEsp, Esp
  <2>3. pcb' \in [Pid -> [processESP : Esp, parentESP : Esp, parentID : Pid,
                          running_in_terminal_num : Term]]
    BY <2>1, <2>2, Known DEF CreateTerminal, TablesOK
  <2>4. QED BY <2>3, Known DEF CreateTerminal, TablesOK
<1>7. DataOK'
  BY <1>6, Known DEF CreateTerminal, DataOK, ScreenOK, MachineOK, machine
<1>8. currentProccess' \in Pid
  BY SwitchFacts DEF CreateTerminal
<1>9. QED BY <1>5, <1>7, <1>8, PartsNext DEF Processor

LEMMA FocusTerminalOK ==
    ASSUME Inv, Interruptible, NEW t \in Term, FocusTerminal(t),
           pit_interrupt_count' \in 0 .. MAX_TERMINAL_NUMBER
    PROVE  Inv'
<1> DEFINE next == pid_running_in_terminal[t]
<1>0. next \in Pid \cup {NoPid}
  BY Known DEF TablesOK
<1>1. CASE InterruptedEsp.sp < StackFrames
  <2>1. SavedEsp \in Esp
    BY <1>1, SwitchFacts, Sizes DEF SavedEsp, Esp
  <2>2. pcb' \in [Pid -> [processESP : Esp, parentESP : Esp, parentID : Pid,
                          running_in_terminal_num : Term]]
    BY <1>1, <2>1, SwitchFacts, Known DEF FocusTerminal, TablesOK
  <2>3. currentProccess' = next /\ currentTerminal' = t
    BY <1>1 DEF FocusTerminal
  <2>4. TablesOK' /\ ScreenOK'
    BY <1>0, <2>2, <2>3, Known DEF FocusTerminal, TablesOK, ScreenOK
  <2>5. CASE next = NoPid
    <3>1. kstack' = kstack /\ cpu' = Crashed /\ UNCHANGED <<tss_esp0, page_directory>>
      BY <1>1, <2>5 DEF FocusTerminal
    <3>2. DataOK'
      BY <2>4, <3>1, Known DEF FocusTerminal, DataOK, MachineOK
    <3>3. QED BY <3>1, <3>2, StopCpus, Known, PartsNext DEF Processor, Runs
  <2>6. CASE next # NoPid
    <3>1. LoadTask(t) /\ next \in Pid
      BY <1>0, <1>1, <2>6 DEF FocusTerminal
    <3>2. tss_esp0' \in Esp /\ page_directory' \in Pid
      BY <3>1, NullEsp DEF LoadTask, SwitchTss, SwitchPage
    <3>3. DataOK'
      BY <2>4, <3>2, Known DEF FocusTerminal, DataOK, MachineOK
    <3>4. StacksOK(Written(kstack, InterruptedEsp, <<SwitchFrame>>))
      <4>1. /\ <<SwitchFrame>> \in Seq(Frame)
            /\ \A j \in 1 .. Len(<<SwitchFrame>>) :
                  FrameOK(<<SwitchFrame>>[j], InterruptedEsp.sp + j)
        BY SwitchFacts
      <4>2. QED BY <4>1, SwitchFacts, Known, WrittenOK
    <3>5. pcb'[next].processESP \in Esp
      BY <2>2, <3>1
    <3>6. StacksOK(kstack') /\ CpuOK(cpu')
      BY <3>1, <3>4, <3>5, ResumeOK DEF LoadTask
    <3>7. QED BY <2>3, <3>1, <3>3, <3>6, PartsNext DEF Processor
  <2>7. QED BY <2>5, <2>6
<1>2. CASE ~(InterruptedEsp.sp < StackFrames)
  <2>1. /\ cpu' = Overflow
        /\ UNCHANGED <<pcb, currentTerminal, currentProccess, tss_esp0, page_directory, kstack>>
    BY <1>2 DEF FocusTerminal
  <2>2. DataOK'
    BY <2>1, Known DEF FocusTerminal, DataOK, TablesOK, ScreenOK, MachineOK
  <2>3. QED BY <2>1, <2>2, StopCpus, Known, PartsNext DEF Processor, Runs
<1>3. QED BY <1>1, <1>2

LEMMA InterruptOK ==
    ASSUME Inv, Interrupt
    PROVE  Inv'
<1>1. ASSUME NEW t \in Term, FunctionKey(t) PROVE Inv'
  <2>1. pit_interrupt_count' \in 0 .. MAX_TERMINAL_NUMBER
    BY <1>1, Known DEF FunctionKey, ScreenOK
  <2>2. QED BY <1>1, <2>1, CreateTerminalOK, FocusTerminalOK DEF FunctionKey, SwitchTerminal
<1>2. CASE PitTick
  <2>1. /\ pit_interrupt_count \in Term
        /\ pit_interrupt_count' \in 0 .. MAX_TERMINAL_NUMBER
    BY <1>2, Known, TableAssumption DEF PitTick, ShellsPending, ScreenOK, Term
  <2>2. QED
    BY <1>2, <2>1, CreateTerminalOK, FocusTerminalOK DEF PitTick, SwitchTerminal
<1>3. QED BY <1>1, <1>2 DEF Interrupt

-----------------------------------------------------------------------------
\* Every variable has its type and every stack is well formed in every
\* reachable state, whatever the table sizes and wherever switches are taken.
THEOREM StacksWellFormed == Spec => []Inv
<1>1. Inv /\ [Next]_vars => Inv'
  <2> SUFFICES ASSUME Inv, [Next]_vars PROVE Inv'
    OBVIOUS
  <2>1. CASE Next
    BY <2>1, ExecuteStepOK, HaltStepOK, UserStepOK, ReturnStepOK, InterruptOK DEF Next
  <2>2. CASE UNCHANGED vars
    BY <2>2, Parts, PartsNext
       DEF vars, tables, screen, machine, DataOK, TablesOK, ScreenOK, MachineOK, Processor
  <2>3. QED BY <2>1, <2>2
<1>2. QED BY Base, <1>1, PTL DEF Spec

\* The type invariant the model checker checks on small tables.
THEOREM TypeCorrect == Spec => []TypeOK
<1>1. Inv => TypeOK
  BY DEF Inv
<1>2. QED BY <1>1, StacksWellFormed, PTL

-----------------------------------------------------------------------------
(* What the stack operations leave *)

\* Only stack s changes, from position k on.
Only(s, k) ==
    \A q \in Pid, i \in 1 .. StackFrames : q # s \/ i < k => kstack'[q][i] = kstack[q][i]

\* Frame g is f but for its pc and its pid.
Alike(f, g) == g.prog = f.prog /\ g.ret = f.ret /\ g.ifl = f.ifl

\* What the next statement leaves alone: everything but the frame on top.
LEMMA GotoFacts ==
    ASSUME Inv, cpu.mode = "kernel", NEW pc, Goto(pc)
    PROVE  /\ cpu' = cpu /\ Only(cpu.esp.stk, cpu.esp.sp)
           /\ Top'.pc = pc /\ Top'.pid = Top.pid /\ Alike(Top, Top')
<1>1. /\ cpu.esp.stk \in Pid /\ cpu.esp.sp \in 1 .. StackFrames /\ Top \in Frame
      /\ kstack \in Stacks /\ cpu' = cpu /\ cpu' = cpu
  BY TopFrame DEF Inv, StacksOK, Goto
<1> DEFINE f == [Top EXCEPT !.pc = pc]
<1>2. kstack' = [kstack EXCEPT ![cpu.esp.stk] = [@ EXCEPT ![cpu.esp.sp] = f]]
  BY <1>1 DEF Goto, Top, Stacks
<1>3. kstack'[cpu.esp.stk][cpu.esp.sp] = f
  BY <1>1, <1>2 DEF Stacks
<1>4. f.pc = pc /\ f.pid = Top.pid /\ Alike(Top, f)
  BY <1>1 DEF Frame, Alike
<1> HIDE DEF f
<1>5. Only(cpu.esp.stk, cpu.esp.sp)
  BY <1>1, <1>2 DEF Only, Stacks
<1>6. Top' = f
  BY <1>1, <1>3 DEF Top
<1>7. QED BY <1>1, <1>4, <1>5, <1>6

LEMMA GotoWithFacts ==
    ASSUME Inv, cpu.mode = "kernel", NEW pc, NEW pid, GotoWith(pc, pid)
    PROVE  /\ cpu' = cpu /\ Only(cpu.esp.stk, cpu.esp.sp)
           /\ Top'.pc = pc /\ Top'.pid = pid /\ Alike(Top, Top')
<1>1. /\ cpu.esp.stk \in Pid /\ cpu.esp.sp \in 1 .. StackFrames /\ Top \in Frame
      /\ kstack \in Stacks /\ cpu' = cpu /\ cpu' = cpu
  BY TopFrame DEF Inv, StacksOK, GotoWith
<1> DEFINE f == [Top EXCEPT !.pc = pc, !.pid = pid]
<1>2. kstack' = [kstack EXCEPT ![cpu.esp.stk] = [@ EXCEPT ![cpu.esp.sp] = f]]
  BY <1>1 DEF GotoWith, Top, Stacks
<1>3. kstack'[cpu.esp.stk][cpu.esp.sp] = f
  BY <1>1, <1>2 DEF Stacks
<1>4. f.pc = pc /\ f.pid = pid /\ Alike(Top, f)
  BY <1>1 DEF Frame, Alike
<1> HIDE DEF f
<1>5. Only(cpu.esp.stk, cpu.esp.sp)
  BY <1>1, <1>2 DEF Only, Stacks
<1>6. Top' = f
  BY <1>1, <1>3 DEF Top
<1>7. QED BY <1>1, <1>4, <1>5, <1>6

\* Frames fs lie above e, what lay under them is as before.
LEMMA WrittenFacts ==
    ASSUME NEW ks \in Stacks, NEW e \in Esp, NEW fs \in Seq(Frame)
    PROVE  /\ \A q \in Pid, i \in 1 .. StackFrames :
                 q # e.stk \/ i <= e.sp => Written(ks, e, fs)[q][i] = ks[q][i]
           /\ \A j \in 1 .. Len(fs) :
                 e.sp + j <= StackFrames => Written(ks, e, fs)[e.stk][e.sp + j] = fs[j]
<1> DEFINE col == [i \in 1 .. StackFrames |->
                     IF i <= e.sp THEN ks[e.stk][i]
                     ELSE IF i <= e.sp + Len(fs) THEN fs[i - e.sp] ELSE Dead]
<1>1. e.stk \in Pid /\ e.sp \in 0 .. StackFrames /\ StackFrames \in Nat /\ Len(fs) \in Nat
  BY Sizes DEF Esp
<1>2. Written(ks, e, fs) = [ks EXCEPT ![e.stk] = col]
  BY DEF Written
<1>3. \A i \in 1 .. StackFrames : i <= e.sp => col[i] = ks[e.stk][i]
  OBVIOUS
<1>4. ASSUME NEW j \in 1 .. Len(fs), e.sp + j <= StackFrames
      PROVE  col[e.sp + j] = fs[j]
  <2>1. /\ e.sp + j \in 1 .. StackFrames /\ ~(e.sp + j <= e.sp) /\ e.sp + j <= e.sp + Len(fs)
        /\ (e.sp + j) - e.sp = j
    BY <1>1, <1>4
  <2>2. QED BY <2>1
<1> HIDE DEF col
<1>5. Written(ks, e, fs)[e.stk] = col /\ \A q \in Pid : q # e.stk => Written(ks, e, fs)[q] = ks[q]
  BY <1>1, <1>2 DEF Stacks
<1>6. QED BY <1>1, <1>3, <1>4, <1>5

\* One frame pushed at e: it runs, or the stack was full.
LEMMA PushFacts ==
    ASSUME NEW ks, StacksOK(ks), NEW e \in Esp, NEW f \in Frame, Enter(ks, e, <<f>>)
    PROVE  \/ cpu' = Overflow /\ kstack' = ks
           \/ /\ cpu' = Kernel([e EXCEPT !.sp = @ + 1])
              /\ cpu'.mode = "kernel" /\ cpu'.esp.stk = e.stk /\ cpu'.esp.sp = e.sp + 1
              /\ cpu'.esp = [e EXCEPT !.sp = @ + 1]
              /\ e.sp + 1 <= StackFrames
              /\ Top' = f
              /\ \A q \in Pid, i \in 1 .. StackFrames :
                    q # e.stk \/ i <= e.sp => kstack'[q][i] = ks[q][i]
<1>1. <<f>> \in Seq(Frame) /\ Len(<<f>>) = 1 /\ <<f>>[1] = f /\ ks \in Stacks
  BY DEF StacksOK
<1>2. e.stk \in Pid /\ e.sp \in 0 .. StackFrames /\ StackFrames \in Nat
  BY Sizes DEF Esp
<1>3. CASE e.sp + 1 <= StackFrames
  <2>1. kstack' = Written(ks, e, <<f>>) /\ cpu' = Kernel([e EXCEPT !.sp = @ + 1])
    BY <1>1, <1>3 DEF Enter
  <2>2. cpu'.mode = "kernel" /\ cpu'.esp.stk = e.stk /\ cpu'.esp.sp = e.sp + 1
        /\ cpu'.esp = [e EXCEPT !.sp = @ + 1]
    BY <2>1 DEF Kernel, Esp
  <2>3. kstack'[e.stk][e.sp + 1] = f
    <3>1. 1 \in 1 .. Len(<<f>>)
      BY <1>1
    <3>2. QED BY <1>1, <1>3, <2>1, <3>1, WrittenFacts
  <2>4. \A q \in Pid, i \in 1 .. StackFrames :
          q # e.stk \/ i <= e.sp => kstack'[q][i] = ks[q][i]
    BY <1>1, <2>1, WrittenFacts
  <2>5. QED BY <1>3, <2>1, <2>2, <2>3, <2>4 DEF Top
<1>4. CASE ~(e.sp + 1 <= StackFrames)
  BY <1>1, <1>4 DEF Enter
<1>5. QED BY <1>3, <1>4

\* What a return leaves alone: every frame that is not above its target.
LEMMA PopFacts ==
    ASSUME NEW ks \in Stacks, NEW e \in Esp
    PROVE  \A q \in Pid, i \in 1 .. StackFrames :
              q # e.stk \/ i <= e.sp => Written(ks, e, <<>>)[q][i] = ks[q][i]
<1> DEFINE fs == <<>>
<1>1. fs \in Seq(Frame)
  OBVIOUS
<1> HIDE DEF fs
<1>2. \A q \in Pid, i \in 1 .. StackFrames :
         q # e.stk \/ i <= e.sp => Written(ks, e, fs)[q][i] = ks[q][i]
  BY <1>1, WrittenFacts
<1>3. QED BY <1>2 DEF fs

LEMMA ReturnFacts ==
    ASSUME Inv, cpu.mode = "kernel", Top.pc \notin {"dead", "idle"}, Return
    PROVE  /\ Only(cpu.esp.stk, cpu.esp.sp)
           /\ Top.ret # NoPid => cpu' = User(Top.ret)
           /\ Top.ret = NoPid =>
                /\ cpu' = Kernel(Below(cpu.esp)) /\ cpu'.mode = "kernel"
                /\ cpu'.esp = Below(cpu.esp) /\ Below(cpu.esp) \in Esp
                /\ Below(cpu.esp).stk = cpu.esp.stk /\ Below(cpu.esp).sp = cpu.esp.sp - 1
                /\ cpu.esp.sp > 1
                /\ Top' = FrameAt(Below(cpu.esp))
<1> DEFINE below == [cpu.esp EXCEPT !.sp = @ - 1]
<1>1. cpu.esp \in Esp /\ cpu.esp.stk \in Pid /\ cpu.esp.sp \in 1 .. StackFrames /\ kstack \in Stacks
  BY TopFrame DEF Inv, StacksOK
<1>2. below \in Esp /\ below.stk = cpu.esp.stk /\ below.sp = cpu.esp.sp - 1
  BY <1>1, Sizes DEF Esp
<1>3. kstack' = Written(kstack, below, <<>>)
  BY DEF Return
<1> HIDE DEF below
<1>4. \A q \in Pid, i \in 1 .. StackFrames : q # below.stk \/ i <= below.sp => kstack'[q][i] = kstack[q][i]
  BY <1>1, <1>2, <1>3, PopFacts
<1>5. Only(cpu.esp.stk, cpu.esp.sp)
  BY <1>1, <1>2, <1>4, Sizes DEF Only
<1>6. Top.ret # NoPid => cpu' = User(Top.ret)
  BY DEF Return
<1>7. ASSUME Top.ret = NoPid
      PROVE  /\ cpu' = Kernel(below) /\ cpu'.mode = "kernel" /\ cpu'.esp = below /\ cpu.esp.sp > 1
             /\ kstack'[below.stk][below.sp] = kstack[below.stk][below.sp]
  <2>1. cpu.esp.sp # 1
    BY <1>7, TopFrame DEF FrameOK
  <2>2. below.sp \in 1 .. StackFrames
    BY <1>1, <1>2, <2>1, Sizes
  <2>3. cpu' = Kernel(below)
    BY <1>7 DEF Return, below
  <2>4. QED BY <1>1, <1>2, <1>4, <2>1, <2>2, <2>3 DEF Kernel
<1>8. QED BY <1>2, <1>5, <1>6, <1>7 DEF Below, below, FrameAt, Top

-----------------------------------------------------------------------------
(* A terminal nobody touches keeps its processes and its place *)

\* Process p keeps what the tree knows of it.
SamePcb(p) ==
    /\ pcb'[p].parentID = pcb[p].parentID /\ pcb'[p].parentESP = pcb[p].parentESP
    /\ pcb'[p].running_in_terminal_num = pcb[p].running_in_terminal_num

SameFrame(e) == kstack'[e.stk][e.sp] = kstack[e.stk][e.sp]

\* The processes of terminal u before and after.
SameMembers(D, O, L, D2, O2, L2, u) ==
    /\ \A p \in Pid : D[p] # 0 /\ O[p] = u =>
          D2[p] = D[p] /\ O2[p] = u /\ activeProccess'[p] /\ SamePcb(p)
    /\ \A p \in Pid : D2[p] # 0 /\ O2[p] = u => D[p] # 0 /\ O[p] = u
    /\ L2[u] = L[u] /\ in_use'[u] = in_use[u] /\ (Booted => Booted')

\* A step elsewhere keeps the processes of terminal u in order.
LEMMA ChainKept ==
    ASSUME NEW D \in Depths, NEW O \in Owners, NEW L \in Leaves,
           NEW D2 \in Depths, NEW O2 \in Owners, NEW L2 \in Leaves,
           NEW u \in Term, Chain(D, O, L, u),
           SameMembers(D, O, L, D2, O2, L2, u),
           Inv,
           \A p \in Pid \ Term : D[p] # 0 /\ O[p] = u =>
               LET e == pcb[p].parentESP IN
               \/ SameFrame(e)
               \/ /\ p = L[u] /\ kstack'[e.stk][e.sp].ret = FrameAt(e).ret
                  /\ kstack'[e.stk][e.sp].pc \in LoadPcs \cup {"IRET_OUT"}
    PROVE  Chain(D2, O2, L2, u)'
<1> SUFFICES ASSUME NEW p \in Pid, D2[p] # 0, O2[p] = u
             PROVE  Member(D2, O2, L2, u, p)'
  BY DEF Chain
<1>1. /\ D[p] # 0 /\ O[p] = u /\ D2[p] = D[p] /\ activeProccess'[p] /\ SamePcb(p)
      /\ Member(D, O, L, u, p) /\ L[u] \in Pid
  BY DEF SameMembers, Chain, Leaves
<1>2. D2[L2[u]] = D[L[u]] /\ D[L[u]] # 0 /\ O2[L2[u]] = u /\ L2[u] = L[u]
  BY <1>1 DEF SameMembers, Member
<1>3. \A r \in Pid : D2[r] = D2[p] /\ O2[r] = u => r = p
  <2>1. \A r \in Pid : D2[r] # 0 /\ O2[r] = u => D[r] = D2[r] /\ O[r] = u
    BY DEF SameMembers
  <2>2. QED BY <1>1, <2>1 DEF Member
<1>4. activeProccess'[p] /\ TerminalOf(p)' = u /\ in_use'[u] /\ D2[p] <= D2[L2[u]]
  BY <1>1, <1>2 DEF SameMembers, SamePcb, Member, TerminalOf
<1>5. p \in Term => p = u /\ D2[p] = 1 /\ pcb'[p].parentID = p
  BY <1>1 DEF Member, SamePcb
<1>6. ParentFrame(p)' = kstack'[pcb[p].parentESP.stk][pcb[p].parentESP.sp]
  BY <1>1 DEF ParentFrame, FrameAt, SamePcb
<1>7. p \notin Term => Child(D2, O2, p)'
  <2> SUFFICES ASSUME p \notin Term PROVE Child(D2, O2, p)'
    OBVIOUS
  <2> DEFINE q == pcb[p].parentID
  <2>1. Child(D, O, p)
    BY <1>1 DEF Member
  <2>2. q \in Pid
    BY DEF Inv, TypeOK
  <2>3. D[q] # 0 /\ O[q] = u /\ D[p] = D[q] + 1 /\ pcb'[p].parentID = q
    BY <1>1, <2>1 DEF Child, SamePcb
  <2>4. D2[q] # 0 /\ O2[q] = O2[p] /\ D2[p] = D2[q] + 1
    BY <1>1, <2>2, <2>3 DEF SameMembers
  <2>5. pcb'[p].parentESP.stk = q /\ pcb'[p].parentESP.sp > 0 /\ Booted'
    BY <1>1, <2>1 DEF Child, SamePcb, SameMembers
  <2>6. ParentFrame(p)'.ret = q /\ ParentFrame(p)'.pc \in LoadPcs \cup {"IRET_OUT"}
    BY <1>1, <1>6, <2>1 DEF Child, SameFrame, FrameAt, ParentFrame
  <2>7. QED BY <2>3, <2>4, <2>5, <2>6 DEF Child
<1>8. p # L2[u] => Started(p)'
  BY <1>1, <1>2, <1>6 DEF Member, Started, ParentFrame, SameFrame, FrameAt
<1>9. QED BY <1>2, <1>3, <1>4, <1>5, <1>7, <1>8 DEF Member

\* What terminal u would resume, before and after.
SameContext(D, O, D2, O2, u) ==
    /\ TopOf(u)' = TopOf(u) /\ processPerTerminal'[u] = processPerTerminal[u]
    /\ SavedAt(u)' = SavedAt(u) /\ image'[TopOf(u)] = image[TopOf(u)]
    /\ arguments'[TopOf(u)] = arguments[TopOf(u)]
    /\ SameFrame(SavedAt(u)) /\ (SavedAt(u).sp > 1 => SameFrame(Below(SavedAt(u))))
    /\ TopOf(u) \notin Term => SameFrame(pcb[TopOf(u)].parentESP)
    /\ \A p \in Pid : O[p] = u /\ activeProccess[p] =>
          D2[p] = D[p] /\ O2[p] = u /\ activeProccess'[p] /\ SamePcb(p)

\* A step that writes no frame at or below a saved stack pointer leaves the
\* terminal resumable.
LEMMA ParkedKept ==
    ASSUME NEW D \in Depths, NEW O \in Owners, NEW L \in Leaves,
           NEW D2 \in Depths, NEW O2 \in Owners, NEW L2 \in Leaves,
           NEW u \in Term, Parked(D, O, L, u), Inv,
           SameMembers(D, O, L, D2, O2, L2, u), SameContext(D, O, D2, O2, u)
    PROVE  Parked(D2, O2, L2, u)'
<1> DEFINE x == TopOf(u)
           e == SavedAt(u)
           b == Below(SavedAt(u))
<1>1. Topped(D, O, L, u) /\ Resumable(D, O, u, e)
  BY DEF Parked
<1>2. x \in Pid /\ D[x] # 0 /\ O[x] = u /\ u \in Pid /\ D[u] # 0 /\ O[u] = u /\ in_use[u] /\ L[u] = x
  BY <1>1, Sizes DEF Topped
<1>3. /\ x = TopOf(u)' /\ e = SavedAt(u)' /\ D2[x] = D[x] /\ O2[x] = u /\ D2[u] # 0 /\ O2[u] = u
      /\ in_use'[u] /\ L2[u] = x /\ SamePcb(x)
  BY <1>2 DEF SameMembers, SameContext
<1>4. Topped(D2, O2, L2, u)'
  BY <1>2, <1>3 DEF Topped
<1>5. e \in Esp /\ e.stk \in Pid /\ e.sp \in Nat
  BY <1>2, Sizes DEF Inv, TypeOK, SavedAt, TopOf, Esp
<1>6. b.stk = e.stk /\ b.sp = e.sp - 1
  BY <1>5 DEF Below, Esp
<1>7. kstack'[e.stk][e.sp] = FrameAt(e) /\ (e.sp > 1 => kstack'[b.stk][b.sp] = FrameAt(b))
  BY DEF SameContext, SameFrame, FrameAt
<1>8. e.sp > 0 /\ D2[e.stk] # 0 /\ O2[e.stk] = u /\ FrameAt(e).pc = "switch"
  BY <1>1, <1>5 DEF Resumable, SameMembers
<1>9. Started(x)' <=> Started(x)
  BY <1>2, <1>3 DEF Started, ParentFrame, FrameAt, SameContext, SameFrame, SamePcb
<1>10. processPerTerminal'[u] = processPerTerminal[u] /\ (Booted => Booted')
  BY DEF SameContext, SameMembers
<1> DEFINE Two == /\ FrameAt(e).ret = NoPid /\ e.sp > 1
                  /\ \/ Calling(D, u, b)
                     \/ Starting(D, O, u, b) /\ FrameAt(b).pc \in {"e_init", "e_cur"}
                     \/ Loading(D, u, b) /\ (FrameAt(b).pc = "e_args" => ~Undisturbed)
<1>11. CASE FrameAt(e).ret = x /\ e.stk = x /\ Started(x) /\ processPerTerminal[u] = D[x]
  <2>1. Resumable(D2, O2, u, SavedAt(u))'
    BY <1>3, <1>7, <1>8, <1>9, <1>10, <1>11 DEF Resumable, FrameAt
  <2>2. QED BY <1>4, <2>1 DEF Parked
<1>12. CASE Two
  <2> DEFINE f == FrameAt(b)
  <2>0. e.sp > 1 /\ FrameAt(e).ret = NoPid /\ f = kstack'[b.stk][b.sp] /\ b = Below(SavedAt(u))'
    BY <1>3, <1>7, <1>12
  <2>0a. FrameAt(Below(SavedAt(u)))' = f /\ FrameAt(SavedAt(u))' = FrameAt(e)
    BY <1>3, <1>7, <2>0 DEF FrameAt
  <2>1. ASSUME Calling(D, u, b) PROVE Calling(D2, u, Below(SavedAt(u)))'
    BY <1>2, <1>3, <1>9, <1>10, <2>0, <2>0a, <2>1 DEF Calling
  <2>2. ASSUME Starting(D, O, u, b), f.pc \in {"e_init", "e_cur"}
        PROVE  Starting(D2, O2, u, Below(SavedAt(u)))'
    <3> DEFINE p == f.pid
    <3>1. p \in Pid \ Term /\ O[p] = u /\ D[p] = 0 /\ activeProccess[p]
      BY <2>2 DEF Starting
    <3>2. D2[p] = 0 /\ O2[p] = u /\ activeProccess'[p] /\ SamePcb(p)
      BY <3>1 DEF SameContext
    <3>3. QED BY <1>2, <1>3, <1>9, <1>10, <2>0, <2>0a, <2>2, <3>1, <3>2
          DEF Starting, SamePcb, TerminalOf
  <2>3. ASSUME Loading(D, u, b) PROVE Loading(D2, u, Below(SavedAt(u)))'
    BY <1>2, <1>3, <1>10, <2>0, <2>0a, <2>3 DEF Loading, Copied, Undisturbed, SamePcb, SameContext
  <2>4. Resumable(D2, O2, u, SavedAt(u))'
    BY <1>3, <1>8, <1>12, <2>0, <2>0a, <2>1, <2>2, <2>3 DEF Resumable, Undisturbed
  <2>5. QED BY <1>4, <2>4 DEF Parked
<1>13. QED BY <1>1, <1>11, <1>12 DEF Resumable

-----------------------------------------------------------------------------
(* A step on the screen's terminal leaves the others alone *)

\* No frame of another terminal lies on stack s from position k on.
Private(D, O, s, k) ==
    /\ \A p \in Pid \ Term : D[p] # 0 /\ O[p] # Now => pcb[p].parentESP.stk # s
    /\ \A u \in Term : in_use[u] /\ u # Now /\ SavedAt(u).stk = s => SavedAt(u).sp < k

\* The kernel stack of a process of this terminal, or of none.
LEMMA OwnStack ==
    ASSUME NEW D \in Depths, NEW O \in Owners, NEW L \in Leaves, Inv, Consistent(D, O, L),
           NEW s \in Pid, D[s] = 0 \/ O[s] = Now, NEW k
    PROVE  Private(D, O, s, k)
<1>1. ASSUME NEW p \in Pid \ Term, D[p] # 0, O[p] # Now
      PROVE  pcb[p].parentESP.stk # s
  <2>1. O[p] \in Term /\ p \in Pid
    BY DEF Owners
  <2>2. Member(D, O, L, O[p], p)
    BY <1>1, <2>1 DEF Consistent, Chain
  <2>3. Child(D, O, p)
    BY <1>1, <2>2 DEF Member
  <2>4. QED BY <1>1, <2>3 DEF Child
<1>2. ASSUME NEW u \in Term, in_use[u], u # Now
      PROVE  SavedAt(u).stk # s
  <2>1. Parked(D, O, L, u)
    BY <1>2 DEF Consistent, Others
  <2>2. QED BY <1>2, <2>1 DEF Parked, Resumable
<1>3. QED BY <1>1, <1>2 DEF Private

LEMMA FreeIsPrivate ==
    ASSUME NEW D \in Depths, NEW O \in Owners, NEW s, NEW k, Free(D, s, k)
    PROVE  Private(D, O, s, k)
BY DEF Free, Private

\* What the step leaves of the other terminals' data.
Elsewhere(D, O, L, D2, O2, L2) ==
    /\ \A p \in Pid : O[p] # Now /\ activeProccess[p] =>
          /\ D2[p] = D[p] /\ O2[p] = O[p] /\ activeProccess'[p]
          /\ pcb'[p] = pcb[p] /\ image'[p] = image[p] /\ arguments'[p] = arguments[p]
    /\ \A p \in Pid : O2[p] # Now => D2[p] = D[p] /\ O2[p] = O[p]
    /\ \A u \in Term : u # Now =>
          /\ L2[u] = L[u] /\ TopOf(u)' = TopOf(u)
          /\ processPerTerminal'[u] = processPerTerminal[u]

\* What a terminal off the screen is resumed with.
Intact(u) ==
    /\ TopOf(u)' = TopOf(u) /\ SavedAt(u)' = SavedAt(u)
    /\ SavedAt(u).sp > 0 /\ SameFrame(SavedAt(u))

\* A step of the terminal on the screen leaves all others parked.
LEMMA OthersKept ==
    ASSUME NEW D \in Depths, NEW O \in Owners, NEW L \in Leaves, Inv, Consistent(D, O, L),
           NEW D2 \in Depths, NEW O2 \in Owners, NEW L2 \in Leaves,
           Elsewhere(D, O, L, D2, O2, L2),
           NEW s \in Pid, NEW k \in Nat, Only(s, k), Private(D, O, s, k),
           Booted => Booted',
           NEW u \in Term, u # Now, in_use'[u] = in_use[u]
    PROVE  /\ Chain(D2, O2, L2, u)'
           /\ in_use[u] => Parked(D2, O2, L2, u)' /\ Intact(u)
<1>1. Chain(D, O, L, u)
  BY DEF Consistent
<1>2. ASSUME NEW p \in Pid, D[p] # 0, O[p] = u
      PROVE  activeProccess[p] /\ (p \notin Term => Child(D, O, p))
  BY <1>1, <1>2 DEF Chain, Member
<1>3. \A p \in Pid : O[p] = u /\ activeProccess[p] =>
          D2[p] = D[p] /\ O2[p] = u /\ activeProccess'[p] /\ SamePcb(p) /\ pcb'[p] = pcb[p]
  BY DEF Elsewhere, SamePcb
<1>4. SameMembers(D, O, L, D2, O2, L2, u)
  <2>1. \A p \in Pid : D2[p] # 0 /\ O2[p] = u => D[p] # 0 /\ O[p] = u
    BY DEF Elsewhere
  <2>2. QED BY <1>2, <1>3, <2>1 DEF SameMembers, Elsewhere
<1>5. ASSUME NEW p \in Pid \ Term, D[p] # 0, O[p] = u
      PROVE  SameFrame(pcb[p].parentESP)
  <2> DEFINE e == pcb[p].parentESP
  <2>1. e \in Esp /\ e.sp > 0 /\ e.stk # s
    BY <1>2, <1>5 DEF Inv, TypeOK, Child, Private
  <2>2. e.stk \in Pid /\ e.sp \in 1 .. StackFrames
    BY <2>1, Sizes DEF Esp
  <2>3. QED BY <2>1, <2>2 DEF SameFrame, Only
<1>6. Chain(D2, O2, L2, u)'
  <2>1. \A p \in Pid \ Term : D[p] # 0 /\ O[p] = u =>
          LET e == pcb[p].parentESP IN
               \/ SameFrame(e)
               \/ /\ p = L[u] /\ kstack'[e.stk][e.sp].ret = FrameAt(e).ret
                  /\ kstack'[e.stk][e.sp].pc \in LoadPcs \cup {"IRET_OUT"}
    BY <1>5
  <2>2. QED BY <1>1, <1>4, <2>1, ChainKept
<1>7. ASSUME in_use[u] PROVE Parked(D2, O2, L2, u)' /\ Intact(u)
  <2>1. Parked(D, O, L, u)
    BY <1>7 DEF Consistent, Others
  <2> DEFINE x == TopOf(u)
             e == SavedAt(u)
  <2>2. x \in Pid /\ D[x] # 0 /\ O[x] = u /\ e.sp > 0
    BY <2>1 DEF Parked, Topped, Resumable
  <2>3. activeProccess[x]
    BY <1>2, <2>2
  <2>4. TopOf(u)' = x /\ pcb'[x] = pcb[x] /\ image'[x] = image[x] /\ arguments'[x] = arguments[x]
        /\ processPerTerminal'[u] = processPerTerminal[u]
    BY <2>2, <2>3 DEF Elsewhere
  <2>5. SavedAt(u)' = e /\ e \in Esp
    BY <2>2, <2>4 DEF SavedAt, Inv, TypeOK, TopOf
  <2>6. e.stk \in Pid /\ e.sp \in 1 .. StackFrames /\ (e.stk = s => e.sp < k)
    BY <1>7, <2>2, <2>5, Sizes DEF Esp, Private
  <2>7. SameFrame(e)
    BY <2>6 DEF SameFrame, Only
  <2>8. e.sp > 1 => SameFrame(Below(e))
    <3>1. Below(e).stk = e.stk /\ Below(e).sp = e.sp - 1
      BY <2>5 DEF Below, Esp
    <3>2. e.sp > 1 => e.sp - 1 \in 1 .. StackFrames /\ (e.sp < k => e.sp - 1 < k)
      BY <2>6, Sizes
    <3>3. QED BY <2>6, <3>1, <3>2 DEF SameFrame, Only
  <2>9. SameContext(D, O, D2, O2, u)
    <3>1. x \notin Term => SameFrame(pcb[x].parentESP)
      BY <1>5, <2>2
    <3>2. QED BY <1>3, <2>4, <2>5, <2>7, <2>8, <3>1 DEF SameContext
  <2>10. QED BY <1>4, <2>1, <2>2, <2>4, <2>5, <2>7, <2>9, ParkedKept DEF Intact
<1>8. QED BY <1>6, <1>7

-----------------------------------------------------------------------------
(* Steps of the terminal on the screen *)

\* The step ends in a consistent state and kept what the others resume with.
Sound ==
    /\ cpu'.mode # "crashed"
    /\ Runs(cpu') => \E D \in Depths, O \in Owners, L \in Leaves : Consistent(D, O, L)'
    /\ \A u \in Term : Background(u) /\ Background(u)' => Intact(u)

\* To prove a step sound it is enough to look at the terminal on the screen.
LEMMA LocalStep ==
    ASSUME NEW D \in Depths, NEW O \in Owners, NEW L \in Leaves, Inv, Consistent(D, O, L),
           NEW D2 \in Depths, NEW O2 \in Owners, NEW L2 \in Leaves,
           Elsewhere(D, O, L, D2, O2, L2),
           NEW s \in Pid, NEW k \in Nat, Only(s, k), Private(D, O, s, k),
           UNCHANGED screen, in_use[Now],
           \A p \in Pid : activeProccess'[p] => \/ activeProccess[p] \/ p = Now
                                                \/ p \notin Term /\ Booted,
           Chain(D2, O2, L2, Now)',
           cpu'.mode # "crashed", Runs(cpu') => Running(D2, O2, L2)'
    PROVE  Sound
<1>1. Now' = Now /\ Now \in Term /\ in_use' = in_use /\ (Booted' <=> Booted)
  BY DEF Now, screen, Booted, Inv, TypeOK
<1>2. ASSUME NEW u \in Term, u # Now
      PROVE  Chain(D2, O2, L2, u)' /\ (in_use[u] => Parked(D2, O2, L2, u)' /\ Intact(u))
  BY <1>1, <1>2, OthersKept
<1>3. Others(D2, O2, L2)'
  BY <1>1, <1>2 DEF Others
<1>4. ASSUME NEW u \in Term PROVE Counts(u)'
  <2>1. Counts(u) /\ u \in Pid
    BY Sizes DEF Consistent
  <2>2. CASE u = Now
    BY <1>1, <2>1, <2>2 DEF Counts, screen
  <2>3. CASE u # Now
    <3>1. TopOf(u)' = TopOf(u) /\ processPerTerminal'[u] = processPerTerminal[u]
      BY <2>3 DEF Elsewhere
    <3>2. ~activeProccess[u] => ~activeProccess'[u]
      BY <2>1, <2>3
    <3>3. QED BY <1>1, <2>1, <3>1, <3>2 DEF Counts, screen
  <2>4. QED BY <2>2, <2>3
<1>5. \A p \in Pid \ Term : activeProccess'[p] => Booted'
  BY <1>1 DEF Consistent
<1>6. Runs(cpu') => Consistent(D2, O2, L2)'
  BY <1>1, <1>2, <1>3, <1>4, <1>5 DEF Consistent
<1>7. \A u \in Term : Background(u) => Intact(u)
  BY <1>2 DEF Background, Now
<1>8. QED BY <1>6, <1>7 DEF Sound

\* The frames under the processes of this terminal stay, but for the running
\* execute of the deepest one.
ParentsKept(D, O, L) ==
    \A p \in Pid \ Term : D[p] # 0 /\ O[p] = Now =>
        LET e == pcb[p].parentESP IN
        \/ SameFrame(e)
        \/ /\ p = L[Now] /\ kstack'[e.stk][e.sp].ret = FrameAt(e).ret
           /\ kstack'[e.stk][e.sp].pc \in LoadPcs \cup {"IRET_OUT"}

\* A stack on which no parent waits may be written.
LEMMA NoParentOn ==
    ASSUME NEW D \in Depths, NEW O \in Owners, NEW L \in Leaves, Inv, Consistent(D, O, L),
           NEW s \in Pid, NEW k \in Nat, Only(s, k),
           \A p \in Pid \ Term : D[p] # 0 /\ O[p] = Now => pcb[p].parentESP.stk # s
    PROVE  ParentsKept(D, O, L)
<1> SUFFICES ASSUME NEW p \in Pid \ Term, D[p] # 0, O[p] = Now
             PROVE  SameFrame(pcb[p].parentESP)
  BY DEF ParentsKept
<1>1. Now \in Term
  BY DEF Now, Inv, TypeOK
<1>2. Child(D, O, p) /\ pcb[p].parentESP \in Esp
  BY <1>1 DEF Consistent, Chain, Member, Inv, TypeOK
<1>3. pcb[p].parentESP.stk \in Pid /\ pcb[p].parentESP.sp \in 1 .. StackFrames
  BY <1>2, Sizes DEF Esp, Child
<1>4. QED BY <1>3 DEF Only, SameFrame

\* No child stands on the deepest process, nor on one outside the tree.
LEMMA LeafStack ==
    ASSUME NEW D \in Depths, NEW O \in Owners, NEW L \in Leaves, Inv, Consistent(D, O, L),
           NEW s \in Pid, s = L[Now] \/ D[s] = 0
    PROVE  \A p \in Pid \ Term : D[p] # 0 /\ O[p] = Now => pcb[p].parentESP.stk # s
<1> SUFFICES ASSUME NEW p \in Pid \ Term, D[p] # 0, O[p] = Now
             PROVE  pcb[p].parentESP.stk # s
  OBVIOUS
<1>1. Now \in Term /\ L[Now] \in Pid
  BY DEF Now, Inv, TypeOK, Leaves
<1>2. Child(D, O, p) /\ D[p] <= D[L[Now]] /\ pcb[p].parentID \in Pid
  BY <1>1 DEF Consistent, Chain, Member, Inv, TypeOK
<1>3. D[pcb[p].parentID] \in Nat /\ D[p] \in Nat /\ D[L[Now]] \in Nat
  BY <1>1, <1>2 DEF Depths
<1>4. QED BY <1>2, <1>3 DEF Child

\* The tree stays as it is.
LEMMA KeepStep ==
    ASSUME NEW D \in Depths, NEW O \in Owners, NEW L \in Leaves, Inv, Consistent(D, O, L),
           NEW O2 \in Owners, SameMembers(D, O, L, D, O2, L, Now),
           Elsewhere(D, O, L, D, O2, L),
           NEW s \in Pid, NEW k \in Nat, Only(s, k), Private(D, O, s, k),
           UNCHANGED screen, in_use[Now],
           \A p \in Pid : activeProccess'[p] => \/ activeProccess[p] \/ p = Now
                                                \/ p \notin Term /\ Booted,
           ParentsKept(D, O, L),
           cpu'.mode # "crashed", Runs(cpu') => Running(D, O2, L)'
    PROVE  Sound
<1>1. Now \in Term /\ Chain(D, O, L, Now) /\ Now' = Now
  BY DEF Consistent, Now, screen, Inv, TypeOK
<1>2. \A u \in Term : u = Now => Chain(D, O2, L, u)'
  BY ChainKept DEF Consistent, ParentsKept
<1>3. Chain(D, O2, L, Now)'
  BY <1>1, <1>2
<1>4. QED BY <1>3, LocalStep

\* So do the tables.
LEMMA MachineStepSound ==
    ASSUME NEW D \in Depths, NEW O \in Owners, NEW L \in Leaves, Inv, Consistent(D, O, L),
           NEW s \in Pid, NEW k \in Nat, Only(s, k), Private(D, O, s, k),
           UNCHANGED <<tables, screen>>, in_use[Now],
           \A p \in Pid : O[p] # Now /\ activeProccess[p] =>
              image'[p] = image[p] /\ arguments'[p] = arguments[p],
           ParentsKept(D, O, L),
           cpu'.mode # "crashed", Runs(cpu') => Running(D, O, L)'
    PROVE  Sound
<1>1. Elsewhere(D, O, L, D, O, L)
  BY DEF Elsewhere, tables, TopOf
<1>2. Now \in Term
  BY DEF Now, Inv, TypeOK
<1>3. \A p \in Pid : D[p] # 0 /\ O[p] = Now => activeProccess[p]
  BY <1>2 DEF Consistent, Chain, Member
<1>4. SameMembers(D, O, L, D, O, L, Now)
  BY <1>3 DEF SameMembers, tables, screen, SamePcb, Booted
<1>5. \A p \in Pid : activeProccess'[p] => activeProccess[p]
  BY DEF tables
<1>6. QED BY <1>1, <1>4, <1>5, KeepStep
-----------------------------------------------------------------------------
LEMMA UserPlace ==
    ASSUME NEW D, NEW O, NEW L, Consistent(D, O, L), InUser
    PROVE  InProgram(D, O, L)
BY DEF Consistent, Running, InUser

\* Which statements the parts of the invariant stand at.
LEMMA Places ==
    ASSUME NEW D, NEW O, NEW L, Consistent(D, O, L), cpu.mode = "kernel"
    PROVE  /\ Top.pc = "io" => InCall(D, O, L)
           /\ Top.pc \in {"IRET_OUT", "h_test", "h_free"} => InCall(D, O, L)
           /\ Top.pc = "switch" => InSwitch(D, O, L)
           /\ Top.pc = "e_alloc" => InCall(D, O, L) \/ InBaseStart(D, O)
           /\ Top.pc \in {"e_mark", "e_init", "e_cur", "e_top"} =>
                 InStart(D, O, L) \/ InBaseStart(D, O)
           /\ Top.pc \in LoadPcs => InLoad(D, O, L)
           /\ Top.pc \in {"b_top", "b_cnt"} => InRespawn(D, O)
           /\ Top.pc \in {"h_page", "h_cur", "h_top", "h_tss", "h_cnt", "h_jmp"} => InHalt(D, O, L)
           /\ Top.pc = "idle" => InIdle(D)
           /\ Top.pc # "dead"
<1>1. InCall(D, O, L) => Top.pc \in {"io", "e_alloc", "IRET_OUT", "h_test", "h_free"}
  BY DEF InCall, Calling, FrameAt, Top
<1>2. InSwitch(D, O, L) => Top.pc = "switch"
  BY DEF InSwitch, Resumable, FrameAt, Top
<1>3. InStart(D, O, L) => Top.pc \in {"e_mark", "e_init", "e_cur", "e_top"}
  BY DEF InStart, Starting, FrameAt, Top
<1>4. InLoad(D, O, L) => Top.pc \in LoadPcs
  BY DEF InLoad, Loading, FrameAt, Top
<1>5. InBaseStart(D, O) => Top.pc \in {"e_alloc", "e_mark", "e_init", "e_cur", "e_top"}
  BY DEF InBaseStart
<1>6. InRespawn(D, O) => Top.pc \in {"b_top", "b_cnt"}
  BY DEF InRespawn
<1>7. InHalt(D, O, L) => Top.pc \in {"h_page", "h_cur", "h_top", "h_tss", "h_cnt", "h_jmp"}
  BY DEF InHalt
<1>8. InIdle(D) => Top.pc = "idle"
  BY DEF InIdle
<1>9. \/ InCall(D, O, L) \/ InSwitch(D, O, L) \/ InStart(D, O, L) \/ InLoad(D, O, L)
      \/ InBaseStart(D, O) \/ InRespawn(D, O) \/ InHalt(D, O, L) \/ InIdle(D)
  BY DEF Consistent, Running
<1>10. QED BY <1>1, <1>2, <1>3, <1>4, <1>5, <1>6, <1>7, <1>8, <1>9 DEF LoadPcs

-----------------------------------------------------------------------------
(* Entries from user mode, and the way back *)

LEMMA Values ==
    ASSUME Inv
    PROVE  /\ Now \in Term /\ Now \in Pid /\ tss_esp0 \in Esp /\ StackFrames \in Nat
           /\ kstack \in Stacks /\ StacksOK(kstack)
           /\ \A u \in Term : TopOf(u) \in Pid \cup {NoPid}
           /\ NoPid \notin Pid
BY Sizes DEF Inv, TypeOK, Now, TopOf, StacksOK

LEMMA EspValues ==
    ASSUME NEW e \in Esp
    PROVE  e.stk \in Pid /\ e.sp \in 0 .. StackFrames /\ e.sp \in Nat
BY Sizes DEF Esp

\* What happens on the stack of the process on top leaves its parent's frame.
LEMMA LeafFrameKept ==
    ASSUME NEW D \in Depths, NEW O \in Owners, NEW L \in Leaves, Inv, Consistent(D, O, L),
           Topped(D, O, L, Now), NEW k \in Nat, Only(Proc, k)
    PROVE  Proc \notin Term => SameFrame(pcb[Proc].parentESP)
<1> SUFFICES ASSUME Proc \notin Term PROVE SameFrame(pcb[Proc].parentESP)
  OBVIOUS
<1>1. Proc \in Pid /\ L[Now] = Proc /\ D[Proc] # 0 /\ O[Proc] = Now
  BY DEF Topped, Proc
<1>2. pcb[Proc].parentESP.stk # Proc
  BY <1>1, LeafStack
<1>3. Child(D, O, Proc) /\ pcb[Proc].parentESP \in Esp
  BY <1>1, Values DEF Consistent, Chain, Member, Inv, TypeOK
<1>4. pcb[Proc].parentESP.stk \in Pid /\ pcb[Proc].parentESP.sp \in 1 .. StackFrames
  BY <1>3, EspValues, Sizes DEF Child
<1>5. QED BY <1>2, <1>4 DEF Only, SameFrame

\* A system call by the program in front.
LEMMA CallSound ==
    ASSUME NEW D \in Depths, NEW O \in Owners, NEW L \in Leaves, Inv, Consistent(D, O, L),
           InUser, NEW f \in Frame, f.ret = cpu.proc, f.pc \in {"io", "e_alloc", "h_test"},
           f.pc # "io" => Booted, Enter(kstack, tss_esp0, <<f>>),
           UNCHANGED <<tables, screen, machine>>
    PROVE  Sound
<1>1. InProgram(D, O, L)
  BY UserPlace
<1>2. /\ Topped(D, O, L, Now) /\ tss_esp0.stk = Proc /\ Proc \in Pid /\ L[Now] = Proc /\ in_use[Now]
      /\ cpu.proc = Proc /\ D[Proc] # 0 /\ O[Proc] = Now
  BY <1>1 DEF InProgram, Settled, Topped, Proc
<1>3. /\ \/ cpu' = Overflow /\ kstack' = kstack
         \/ /\ cpu'.mode = "kernel" /\ cpu'.esp.stk = Proc /\ Top' = f
            /\ \A q \in Pid, i \in 1 .. StackFrames :
                  q # Proc \/ i <= tss_esp0.sp => kstack'[q][i] = kstack[q][i]
  <2>1. StacksOK(kstack) /\ tss_esp0 \in Esp
    BY Values
  <2>2. \/ cpu' = Overflow /\ kstack' = kstack
        \/ /\ cpu'.mode = "kernel" /\ cpu'.esp.stk = tss_esp0.stk /\ Top' = f
           /\ \A q \in Pid, i \in 1 .. StackFrames :
                 q # tss_esp0.stk \/ i <= tss_esp0.sp => kstack'[q][i] = kstack[q][i]
    BY <2>1, PushFacts
  <2>3. QED BY <1>2, <2>2
<1>4. tss_esp0.sp + 1 \in Nat
  BY Values, EspValues
<1>5. Only(Proc, tss_esp0.sp + 1)
  <2>1. \A i \in 1 .. StackFrames : i < tss_esp0.sp + 1 => i <= tss_esp0.sp
    BY Values, EspValues
  <2>2. QED BY <1>3, <2>1 DEF Only
<1>6. Private(D, O, Proc, tss_esp0.sp + 1)
  BY <1>2, OwnStack
<1>7. ParentsKept(D, O, L)
  BY <1>2, <1>4, <1>5, LeafStack, NoParentOn
<1>8. CASE cpu' = Overflow
  BY <1>2, <1>4, <1>5, <1>6, <1>7, <1>8, StopCpus, MachineStepSound DEF Overflow, machine
<1>9. CASE cpu'.mode = "kernel" /\ cpu'.esp.stk = Proc /\ Top' = f
  <2>1. Proc' = Proc /\ Now' = Now /\ Settled(D, O, L)'
    BY <1>1 DEF InProgram, Settled, Topped, Proc, TopOf, Now, tables, screen, machine
  <2>2. Started(Proc)'
    <3>1. Proc \notin Term => SameFrame(pcb[Proc].parentESP)
      BY <1>2, <1>4, <1>5, LeafFrameKept
    <3>2. QED
      BY <1>1, <2>1, <3>1 DEF InProgram, Started, ParentFrame, FrameAt, SameFrame, tables
  <2>3. Calling(D, Now, cpu.esp)'
    <3>1. FrameAt(cpu.esp)' = f
      BY <1>9 DEF Top, FrameAt
    <3>2. processPerTerminal'[Now'] = D[Proc'] /\ (Booted' <=> Booted)
      BY <1>1, <2>1 DEF InProgram, tables, screen, Booted
    <3>3. TopOf(Now)' = Proc
      BY <2>1 DEF Proc
    <3>4. QED BY <1>2, <1>9, <2>1, <2>2, <3>1, <3>2, <3>3 DEF Calling, Proc
  <2>4. Running(D, O, L)'
    BY <1>9, <2>1, <2>3 DEF Running, InCall
  <2>5. QED BY <1>2, <1>4, <1>5, <1>6, <1>7, <1>9, <2>4, MachineStepSound DEF machine
<1>10. QED BY <1>3, <1>8, <1>9

\* A system call or an exception begins.
LEMMA UserStepSound ==
    ASSUME NEW D \in Depths, NEW O \in Owners, NEW L \in Leaves, Inv, Consistent(D, O, L),
           QuietBoot, UserStep
    PROVE  Sound
<1>1. Shell \in Programs /\ NoPid \in Pid \cup {NoPid} /\ {"e_alloc", "h_test", "io"} \subseteq PCs
  BY ProgramAssumption, PcNames
<1>2. InUser /\ cpu.proc \in Pid /\ user_if[cpu.proc] \in BOOLEAN
  BY Known DEF UserStep, SysExecute, SysHalt, Exception, SysIO, CpuOK, InUser, MachineOK
<1>3. Quiet => Booted
  BY DEF Quiet, Booted
<1>4. ASSUME NEW pc \in {"io", "e_alloc", "h_test"}, NEW prog \in Programs, NEW b \in BOOLEAN,
             pc # "io" => Booted,
             Enter(kstack, tss_esp0, <<AFrame(pc, NoPid, prog, cpu.proc, b)>>),
             UNCHANGED <<tables, screen, machine>>
      PROVE  Sound
  <2> DEFINE f == AFrame(pc, NoPid, prog, cpu.proc, b)
  <2>1. f \in Frame /\ f.ret = cpu.proc /\ f.pc = pc
    BY <1>1, <1>2, FrameType DEF AFrame
  <2>2. Enter(kstack, tss_esp0, <<f>>)
    BY <1>4
  <2> HIDE DEF f
  <2>3. QED BY <1>2, <1>4, <2>1, <2>2, CallSound
<1>5. ASSUME NEW prog \in Programs, SysExecute(prog) PROVE Sound
  BY <1>3, <1>4, <1>5 DEF SysExecute
<1>6. CASE SysHalt
  BY <1>1, <1>3, <1>4, <1>6 DEF SysHalt
<1>7. CASE Exception
  BY <1>1, <1>2, <1>3, <1>4, <1>7 DEF Exception
<1>8. CASE SysIO
  BY <1>1, <1>4, <1>8 DEF SysIO
<1>9. QED BY <1>5, <1>6, <1>7, <1>8 DEF UserStep

\* The call returns to the program.
LEMMA CallReturnSound ==
    ASSUME NEW D \in Depths, NEW O \in Owners, NEW L \in Leaves, Inv, Consistent(D, O, L),
           cpu.mode = "kernel", InCall(D, O, L), Return,
           UNCHANGED <<tables, screen, page_directory, tss_esp0, image, arguments>>
    PROVE  Sound
<1>1. /\ Topped(D, O, L, Now) /\ Proc \in Pid /\ L[Now] = Proc /\ in_use[Now]
      /\ D[Proc] # 0 /\ O[Proc] = Now
  BY DEF InCall, Settled, Topped, Proc
<1>2. /\ cpu.esp.stk = Proc /\ Top.ret = Proc /\ Started(Proc)
      /\ Top.pc \notin {"dead", "idle"} /\ processPerTerminal[Now] = D[Proc]
  BY DEF InCall, Calling, Proc, Top, FrameAt
<1>3. Only(Proc, cpu.esp.sp) /\ cpu' = User(Proc) /\ cpu.esp.sp \in Nat
  BY <1>1, <1>2, Values, ReturnFacts, TopFrame
<1>4. Private(D, O, Proc, cpu.esp.sp)
  BY <1>1, OwnStack
<1>5. ParentsKept(D, O, L)
  BY <1>1, <1>3, LeafStack, NoParentOn
<1>6. Proc' = Proc /\ Now' = Now /\ Settled(D, O, L)'
  BY DEF InCall, Settled, Topped, Proc, TopOf, Now, tables, screen
<1>7. Started(Proc)'
  <2>1. Proc \notin Term => SameFrame(pcb[Proc].parentESP)
    BY <1>1, <1>3, LeafFrameKept
  <2>2. QED BY <1>2, <1>6, <2>1 DEF Started, ParentFrame, FrameAt, SameFrame, tables
<1>8. Running(D, O, L)' /\ cpu'.mode = "user"
  BY <1>2, <1>3, <1>6, <1>7 DEF Running, InProgram, User, tables
<1>9. QED BY <1>1, <1>3, <1>4, <1>5, <1>8, MachineStepSound

\* A system call that changed nothing ends.
LEMMA PlainReturnSound ==
    ASSUME NEW D \in Depths, NEW O \in Owners, NEW L \in Leaves, Inv, Consistent(D, O, L),
           IOReturns \/ ExecuteReturns
    PROVE  Sound
<1>1. /\ cpu.mode = "kernel" /\ Top.pc \in {"io", "IRET_OUT"} /\ Return
      /\ UNCHANGED <<tables, screen, page_directory, tss_esp0, image, arguments>>
  BY DEF IOReturns, ExecuteReturns, At, machine
<1>2. QED BY <1>1, Places, CallReturnSound

\* The switch handler returns to what it interrupted.
LEMMA SwitchReturnSound ==
    ASSUME NEW D \in Depths, NEW O \in Owners, NEW L \in Leaves, Inv, Consistent(D, O, L),
           SwitchReturns
    PROVE  Sound
<1> DEFINE b == Below(cpu.esp)
<1>1. /\ cpu.mode = "kernel" /\ Top.pc = "switch" /\ Return
      /\ UNCHANGED <<tables, screen, machine>>
  BY DEF SwitchReturns, At
<1>2. InSwitch(D, O, L) /\ Top.pc \notin {"dead", "idle"}
  BY <1>1, Places
<1>3. /\ Topped(D, O, L, Now) /\ Proc \in Pid /\ L[Now] = Proc /\ in_use[Now]
      /\ D[Proc] # 0 /\ O[Proc] = Now /\ D[Now] # 0 /\ O[Now] = Now /\ Now \in Pid
  BY <1>2, Values DEF InSwitch, Settled, Topped, Proc
<1>4. D[cpu.esp.stk] # 0 /\ O[cpu.esp.stk] = Now /\ cpu.esp.stk \in Pid /\ cpu.esp.sp \in Nat
  BY <1>1, <1>2, TopFrame DEF InSwitch, Resumable
<1>5. Only(cpu.esp.stk, cpu.esp.sp)
  BY <1>1, <1>2, ReturnFacts
<1>6. Private(D, O, cpu.esp.stk, cpu.esp.sp)
  BY <1>4, OwnStack
<1>7. Proc' = Proc /\ Now' = Now /\ Settled(D, O, L)'
  BY <1>1, <1>2 DEF InSwitch, Settled, Topped, Proc, TopOf, Now, tables, screen, machine
<1>8. CASE Top.ret = Proc /\ cpu.esp.stk = Proc /\ Started(Proc) /\ processPerTerminal[Now] = D[Proc]
  <2>1. ParentsKept(D, O, L)
    BY <1>3, <1>4, <1>5, <1>8, LeafStack, NoParentOn
  <2>2. cpu' = User(Proc)
    BY <1>1, <1>2, <1>3, <1>8, Values, ReturnFacts
  <2>3. Started(Proc)'
    <3>1. Proc \notin Term => SameFrame(pcb[Proc].parentESP)
      BY <1>3, <1>4, <1>5, <1>8, LeafFrameKept
    <3>2. QED BY <1>1, <1>7, <1>8, <3>1 DEF Started, ParentFrame, FrameAt, SameFrame, tables
  <2>4. Running(D, O, L)' /\ cpu'.mode = "user"
    BY <1>1, <1>7, <1>8, <2>2, <2>3 DEF Running, InProgram, User, tables
  <2>5. QED BY <1>1, <1>3, <1>4, <1>5, <1>6, <2>1, <2>4, MachineStepSound DEF machine
<1>9. CASE /\ Top.ret = NoPid
           /\ \/ Calling(D, Now, b)
              \/ Starting(D, O, Now, b) /\ FrameAt(b).pc \in {"e_init", "e_cur"}
              \/ Loading(D, Now, b) /\ (FrameAt(b).pc = "e_args" => ~Undisturbed)
  <2>1. /\ cpu'.mode = "kernel" /\ cpu'.esp = b /\ b \in Esp /\ Top' = FrameAt(b)
        /\ b.stk = cpu.esp.stk /\ b.sp = cpu.esp.sp - 1 /\ b.sp > 0 /\ b.sp \in Nat
    BY <1>1, <1>2, <1>4, <1>9, ReturnFacts
  <2>2. FrameAt(cpu.esp)' = FrameAt(b)
    BY <2>1 DEF Top, FrameAt
  <2>3. TopOf(Now)' = TopOf(Now) /\ TopOf(Now) = Proc /\ processPerTerminal' = processPerTerminal
        /\ (Booted' <=> Booted) /\ image' = image /\ arguments' = arguments /\ pcb' = pcb
        /\ activeProccess' = activeProccess /\ currentProccess' = currentProccess
    BY <1>1, <1>7 DEF tables, screen, machine, Proc, TopOf, Booted
  <2>4. CASE /\ b.stk = Proc /\ Started(Proc)
             /\ \/ Calling(D, Now, b)
                \/ Starting(D, O, Now, b) /\ FrameAt(b).pc \in {"e_init", "e_cur"}
    <3>1. ParentsKept(D, O, L)
      BY <1>3, <1>4, <1>5, <2>1, <2>4, LeafStack, NoParentOn
    <3>2. Started(Proc)'
      <4>1. Proc \notin Term => SameFrame(pcb[Proc].parentESP)
        BY <1>3, <1>4, <1>5, <2>1, <2>4, LeafFrameKept
      <4>2. QED BY <1>7, <2>3, <2>4, <4>1 DEF Started, ParentFrame, FrameAt, SameFrame
    <3>3. CASE Calling(D, Now, b)
      <4>1. Calling(D, Now, cpu.esp)'
        BY <1>7, <2>1, <2>2, <2>3, <3>2, <3>3 DEF Calling
      <4>2. Running(D, O, L)'
        BY <1>7, <2>1, <4>1 DEF Running, InCall
      <4>3. QED BY <1>1, <1>3, <1>4, <1>5, <1>6, <2>1, <3>1, <4>2, MachineStepSound DEF machine
    <3>4. CASE Starting(D, O, Now, b) /\ FrameAt(b).pc \in {"e_init", "e_cur"}
      <4>1. Starting(D, O, Now, cpu.esp)'
        BY <1>7, <2>1, <2>2, <2>3, <3>2, <3>4 DEF Starting, TerminalOf
      <4>2. Running(D, O, L)'
        BY <1>2, <1>7, <2>1, <2>3, <3>4, <4>1 DEF Running, InStart, InSwitch, Settled
      <4>3. QED BY <1>1, <1>3, <1>4, <1>5, <1>6, <2>1, <3>1, <4>2, MachineStepSound DEF machine
    <3>5. QED BY <2>4, <3>3, <3>4
  <2>5. CASE Loading(D, Now, b) /\ (FrameAt(b).pc = "e_args" => ~Undisturbed)
    <3>1. pcb[Proc].parentESP = b /\ FrameAt(b).pc \in LoadPcs /\ FrameAt(b).pid = Proc
      BY <2>3, <2>5 DEF Loading
    <3>2. Loading(D, Now, cpu.esp)'
      BY <1>7, <2>1, <2>2, <2>3, <2>5 DEF Loading, Copied, Undisturbed
    <3>3. ASSUME NEW p \in Pid \ Term, D[p] # 0, O[p] = Now
          PROVE  /\ p # Proc => pcb[p].parentESP.stk # b.stk
                 /\ SameFrame(pcb[p].parentESP)
                 /\ Proc \notin Term
      <4> DEFINE e == pcb[p].parentESP
                 q == pcb[p].parentID
      <4>1. Member(D, O, L, Now, p) /\ Member(D, O, L, Now, Proc) /\ Child(D, O, p)
        BY <1>3, <3>3, Values DEF Consistent, Chain, Member
      <4>2. /\ e.stk = q /\ e \in Esp /\ e.sp > 0 /\ D[p] = D[q] + 1 /\ D[q] # 0 /\ q \in Pid
            /\ D[p] \in Nat /\ D[q] \in Nat /\ D[Proc] \in Nat /\ D[p] <= D[Proc]
        BY <1>3, <4>1 DEF Child, Member, Inv, TypeOK, Depths
      <4>3. Proc \notin Term
        BY <4>1, <4>2 DEF Member
      <4>4. Child(D, O, Proc)
        BY <4>1, <4>3 DEF Member
      <4>5. p # Proc => e.stk # b.stk
        <5>1. b.stk = pcb[Proc].parentID /\ D[Proc] = D[b.stk] + 1
          BY <3>1, <4>4 DEF Child
        <5>2. ASSUME e.stk = b.stk PROVE p = Proc
          <6>1. D[p] = D[Proc]
            BY <4>2, <5>1, <5>2
          <6>2. QED BY <1>3, <3>3, <4>1, <6>1 DEF Member
        <5>3. QED BY <5>2
      <4>6. e.stk \in Pid /\ e.sp \in 1 .. StackFrames
        BY <4>2, EspValues
      <4>7. p = Proc => e = b
        BY <3>1
      <4>8. SameFrame(e)
        <5>1. e.stk # cpu.esp.stk \/ e.sp < cpu.esp.sp
          BY <1>4, <2>1, <4>5, <4>7
        <5>2. QED BY <1>5, <4>6, <5>1 DEF Only, SameFrame
      <4>9. QED BY <4>3, <4>5, <4>8
    <3>4. ParentsKept(D, O, L)
      BY <3>3 DEF ParentsKept
    <3>5. ASSUME Proc \in Term PROVE OnFreeStack(D, cpu.esp)'
      <4>1. \A p \in Pid \ Term : D[p] # 0 => pcb[p].parentESP.stk # b.stk
        <5>1. \A p \in Pid \ Term : D[p] # 0 => O[p] # Now
          BY <3>3, <3>5
        <5>2. QED BY <1>6, <2>1, <5>1 DEF Private
      <4>2. \A u \in Term : in_use[u] /\ u # Now => SavedAt(u).stk # b.stk
        <5>1. ASSUME NEW u \in Term, in_use[u], u # Now PROVE O[SavedAt(u).stk] = u
          BY <5>1 DEF Consistent, Others, Parked, Resumable
        <5>2. QED BY <1>4, <2>1, <5>1
      <4>3. SavedAt(Now)' = SavedAt(Now) /\ \A u \in Term : SavedAt(u)' = SavedAt(u)
        BY <1>1, <1>7 DEF SavedAt, TopOf, tables
      <4>4. Free(D, cpu.esp.stk, cpu.esp.sp)'
        BY <1>7, <1>1, <2>1, <2>3, <4>1, <4>2, <4>3 DEF Free, screen
      <4>5. b.stk = Now
        <5>1. Member(D, O, L, Now, Proc) /\ Member(D, O, L, Now, b.stk)
          BY <1>3, <1>4, <2>1, Values DEF Consistent, Chain
        <5>2. D[Proc] = 1 /\ Proc = Now /\ D[b.stk] <= D[Proc] /\ D[b.stk] # 0 /\ D[b.stk] \in Nat
          BY <1>3, <1>4, <2>1, <3>5, <5>1 DEF Member, Depths
        <5>3. D[b.stk] = D[Proc]
          BY <5>2
        <5>4. QED BY <1>4, <2>1, <5>1, <5>2, <5>3 DEF Member
      <4>6. QED BY <1>7, <2>1, <4>4, <4>5 DEF OnFreeStack
    <3>6. Running(D, O, L)'
      <4>1. InLoad(D, O, L)'
        BY <1>7, <2>1, <2>5, <3>2, <3>5 DEF InLoad, Settled, Undisturbed
      <4>2. QED BY <2>1, <4>1 DEF Running
    <3>7. QED BY <1>1, <1>3, <1>4, <1>5, <1>6, <2>1, <3>4, <3>6, MachineStepSound DEF machine
  <2>6. Calling(D, Now, b) => b.stk = Proc /\ Started(Proc)
    BY DEF Calling, Proc
  <2>7. Starting(D, O, Now, b) => b.stk = Proc /\ Started(Proc)
    BY DEF Starting, Proc
  <2>8. QED BY <1>9, <2>4, <2>5, <2>6, <2>7
<1>10. QED BY <1>2, <1>8, <1>9 DEF InSwitch, Resumable, FrameAt, Top, Proc

-----------------------------------------------------------------------------
(* On whose stack a step runs *)

\* On the kernel stack of the process on top.
LEMMA OnLeaf ==
    ASSUME NEW D \in Depths, NEW O \in Owners, NEW L \in Leaves, Inv, Consistent(D, O, L),
           NEW O2 \in Owners, SameMembers(D, O, L, D, O2, L, Now),
           Elsewhere(D, O, L, D, O2, L), Topped(D, O, L, Now),
           cpu.mode = "kernel", cpu.esp.stk = Proc, Only(cpu.esp.stk, cpu.esp.sp),
           UNCHANGED screen,
           \A p \in Pid : activeProccess'[p] => \/ activeProccess[p] \/ p = Now
                                                \/ p \notin Term /\ Booted,
           cpu'.mode # "crashed", Runs(cpu') => Running(D, O2, L)'
    PROVE  Sound
<1>1. Proc \in Pid /\ L[Now] = Proc /\ in_use[Now] /\ O[Proc] = Now /\ cpu.esp.sp \in Nat
  BY TopFrame DEF Topped, Proc
<1>2. ParentsKept(D, O, L)
  BY <1>1, LeafStack, NoParentOn
<1>3. Private(D, O, Proc, cpu.esp.sp)
  BY <1>1, OwnStack
<1>4. QED BY <1>1, <1>2, <1>3, KeepStep

\* On a stack that is free, in a terminal without processes.
LEMMA OnFree ==
    ASSUME NEW D \in Depths, NEW O \in Owners, NEW L \in Leaves, Inv, Consistent(D, O, L),
           NEW O2 \in Owners, \A p \in Pid : p # Now => O2[p] = O[p],
           Elsewhere(D, O, L, D, O2, L), Empty(D, O),
           NEW s \in Pid, NEW k \in Nat, Only(s, k), Private(D, O, s, k),
           UNCHANGED screen,
           \A p \in Pid : activeProccess'[p] => activeProccess[p] \/ p = Now,
           cpu'.mode # "crashed", Runs(cpu') => Running(D, O2, L)'
    PROVE  Sound
<1>1. in_use[Now] /\ D[Now] = 0 /\ \A p \in Pid : D[p] # 0 => O[p] # Now /\ O2[p] # Now
  BY DEF Empty
<1>2. SameMembers(D, O, L, D, O2, L, Now)
  BY <1>1 DEF SameMembers, screen, Booted
<1>3. ParentsKept(D, O, L)
  BY <1>1 DEF ParentsKept
<1>4. QED BY <1>1, <1>2, <1>3, KeepStep

\* A free stack stays free.
LEMMA FreeStackKept ==
    ASSUME NEW D \in Depths, NEW O \in Owners, NEW L \in Leaves, Inv, Consistent(D, O, L),
           NEW D2 \in Depths, NEW O2 \in Owners, NEW L2 \in Leaves,
           Elsewhere(D, O, L, D2, O2, L2), UNCHANGED screen, cpu' = cpu,
           OnFreeStack(D, cpu.esp), Top'.ifl = Top.ifl,
           \A p \in Pid \ Term : D2[p] # 0 =>
              D[p] # 0 /\ pcb'[p].parentESP = pcb[p].parentESP
    PROVE  OnFreeStack(D2, cpu.esp)'
<1>1. Now' = Now /\ in_use' = in_use
  BY DEF screen, Now
<1>2. ASSUME NEW u \in Term, in_use[u], u # Now
      PROVE  SavedAt(u)' = SavedAt(u)
  <2>1. TopOf(u) \in Pid /\ D[TopOf(u)] # 0 /\ O[TopOf(u)] = u
    BY <1>2 DEF Consistent, Others, Parked, Topped
  <2>2. activeProccess[TopOf(u)]
    BY <2>1 DEF Consistent, Chain, Member
  <2>3. pcb'[TopOf(u)] = pcb[TopOf(u)] /\ TopOf(u)' = TopOf(u)
    BY <1>2, <2>1, <2>2 DEF Elsewhere
  <2>4. QED BY <2>3 DEF SavedAt
<1>3. Free(D2, cpu.esp.stk, cpu.esp.sp)'
  BY <1>1, <1>2 DEF OnFreeStack, Free
<1>4. QED BY <1>1, <1>3 DEF OnFreeStack, FrameAt, Top

\* Processes in the tree hold their pid; so do the shells.
LEMMA InTree ==
    ASSUME NEW D \in Depths, NEW O \in Owners, NEW L \in Leaves, Consistent(D, O, L),
           NEW p \in Pid, D[p] # 0
    PROVE  activeProccess[p] /\ Member(D, O, L, O[p], p)
BY DEF Consistent, Chain, Member, Owners

\* The base shell of an open terminal lives, so its pid is not given away.
LEMMA ShellActive ==
    ASSUME NEW D \in Depths, NEW O \in Owners, NEW L \in Leaves, Consistent(D, O, L),
           NEW u \in Term, in_use[u], u # Now \/ Topped(D, O, L, Now)
    PROVE  activeProccess[u]
<1>1. Topped(D, O, L, u)
  BY DEF Consistent, Others, Parked
<1>2. u \in Pid /\ D[u] # 0
  BY <1>1, Sizes DEF Topped
<1>3. QED BY <1>2, InTree

-----------------------------------------------------------------------------
(* The choice of a pid *)

\* execute chooses a pid: for a child, and for a base shell.
LEMMA AllocChildSound ==
    ASSUME NEW D \in Depths, NEW O \in Owners, NEW L \in Leaves, Inv, Consistent(D, O, L),
           InCall(D, O, L), At("e_alloc"), NEW p \in Pid, UnusedProcessID(p),
           GotoWith("e_mark", p),
           UNCHANGED <<tables, screen, page_directory, tss_esp0, image, arguments>>
    PROVE  Sound
<1>1. /\ cpu.mode = "kernel" /\ Top.pc = "e_alloc" /\ Topped(D, O, L, Now)
      /\ Calling(D, Now, cpu.esp) /\ currentProccess = Proc /\ page_directory = Proc
  BY DEF At, InCall, Settled
<1>2. cpu.esp.stk = Proc /\ Booted /\ Top.ret = Proc /\ Started(Proc) /\ processPerTerminal[Now] = D[Proc]
  BY <1>1 DEF Calling, FrameAt, Top, Proc
<1>3. /\ cpu' = cpu /\ Only(cpu.esp.stk, cpu.esp.sp)
      /\ Top'.pc = "e_mark" /\ Top'.pid = p /\ Alike(Top, Top')
  BY <1>1, GotoWithFacts
<1>4. ~activeProccess[p] /\ D[p] = 0
  BY InTree DEF UnusedProcessID
<1>5. p \notin Term
  <2>1. ASSUME NEW u \in Term PROVE activeProccess[u]
    <3>1. u < MAX_TERMINAL_NUMBER /\ Counts(u)
      BY TableAssumption DEF Term, Consistent
    <3>2. in_use[u]
      BY <1>2, <3>1 DEF Counts, Booted
    <3>3. QED BY <1>1, <3>2, ShellActive
  <2>2. QED BY <1>4, <2>1
<1>6. PICK t \in Term : t = Now
  BY Values
<1> DEFINE O2 == [O EXCEPT ![p] = t]
<1>7. O2 \in Owners /\ O2[p] = Now /\ \A q \in Pid : q # p => O2[q] = O[q]
  BY <1>6 DEF Owners
<1> HIDE DEF O2
<1>8. SameMembers(D, O, L, D, O2, L, Now)
  BY <1>4, <1>7, InTree DEF SameMembers, SamePcb, tables, screen, Booted
<1>9. Elsewhere(D, O, L, D, O2, L)
  BY <1>4, <1>7 DEF Elsewhere, tables, TopOf
<1>10. Proc' = Proc /\ Now' = Now /\ TopOf(Now)' = Proc /\ (Booted' <=> Booted) /\ Proc \in Pid
  BY <1>1 DEF Proc, TopOf, Now, tables, screen, Booted, Topped
<1>11. Started(Proc)'
  <2>1. Proc \notin Term => SameFrame(pcb[Proc].parentESP)
    BY <1>1, <1>2, <1>3, TopFrame, LeafFrameKept
  <2>2. QED BY <1>2, <1>10, <2>1 DEF Started, ParentFrame, FrameAt, SameFrame, tables
<1>12. FrameAt(cpu.esp)' = Top'
  BY DEF FrameAt, Top
<1>13. Proc # p
  BY <1>1, <1>4 DEF Topped, Proc
<1>14. Topped(D, O2, L, Now)'
  BY <1>1, <1>7, <1>10, <1>5, <1>13, Values DEF Topped, screen, Proc
<1>15. Starting(D, O2, Now, cpu.esp)'
  BY <1>2, <1>3, <1>4, <1>5, <1>7, <1>10, <1>11, <1>12, <1>13
     DEF Starting, Alike, tables
<1>16. Running(D, O2, L)'
  BY <1>1, <1>3, <1>10, <1>14, <1>15 DEF Running, InStart, tables
<1>17. \A q \in Pid : activeProccess'[q] => activeProccess[q]
  BY DEF tables
<1>18. QED
  BY <1>1, <1>2, <1>3, <1>7, <1>8, <1>9, <1>16, <1>17, OnLeaf

LEMMA AllocBaseSound ==
    ASSUME NEW D \in Depths, NEW O \in Owners, NEW L \in Leaves, Inv, Consistent(D, O, L),
           InBaseStart(D, O), At("e_alloc"), NEW p \in Pid, UnusedProcessID(p),
           GotoWith("e_mark", p),
           UNCHANGED <<tables, screen, page_directory, tss_esp0, image, arguments>>
    PROVE  Sound
<1>1. /\ cpu.mode = "kernel" /\ Top.pc = "e_alloc" /\ Empty(D, O) /\ Proc = NoPid
      /\ OnFreeStack(D, cpu.esp) /\ ~activeProccess[Now] /\ processPerTerminal[Now] = 0
      /\ Top.ret = NoPid
  BY DEF At, InBaseStart
<1>2. /\ cpu' = cpu /\ Only(cpu.esp.stk, cpu.esp.sp)
      /\ Top'.pc = "e_mark" /\ Top'.pid = p /\ Alike(Top, Top')
  BY <1>1, GotoWithFacts
<1>3. p = Now
  <2>1. Now \in Pid /\ Now \in Nat /\ p \in Nat
    BY Values, Sizes DEF Pid
  <2>2. ~(Now < p)
    BY <1>1, <2>1 DEF UnusedProcessID
  <2>3. ASSUME p < Now PROVE FALSE
    <3>1. p \in Term /\ p # Now
      BY <2>1, <2>3, Values, TableAssumption DEF Term
    <3>2. in_use[Now] /\ Counts(Now) /\ Counts(p)
      BY <1>1, <3>1, Values DEF Empty, Consistent
    <3>3. in_use[p]
      BY <2>1, <2>3, <3>2 DEF Counts, Inv, TypeOK
    <3>4. activeProccess[p]
      BY <3>1, <3>3, ShellActive
    <3>5. QED BY <3>4 DEF UnusedProcessID
  <2>4. QED BY <2>1, <2>2, <2>3
<1>4. PICK t \in Term : t = Now
  BY Values
<1> DEFINE O2 == [O EXCEPT ![p] = t]
<1>5. O2 \in Owners /\ O2[Now] = Now /\ \A q \in Pid : q # Now => O2[q] = O[q]
  BY <1>3, <1>4 DEF Owners
<1> HIDE DEF O2
<1>6. Elsewhere(D, O, L, D, O2, L)
  BY <1>1, <1>5 DEF Elsewhere, tables, TopOf
<1>7. Proc' = Proc /\ Now' = Now
  BY DEF Proc, TopOf, Now, tables, screen
<1>8. OnFreeStack(D, cpu.esp)'
  <2>1. /\ Top'.ifl = Top.ifl
        /\ \A q \in Pid \ Term : D[q] # 0 =>
              D[q] # 0 /\ pcb'[q].parentESP = pcb[q].parentESP
    BY <1>2 DEF Alike, tables
  <2>2. UNCHANGED screen
    OBVIOUS
  <2>3. QED BY <1>1, <1>2, <1>5, <1>6, <2>1, <2>2, FreeStackKept
<1>9. Empty(D, O2)'
  BY <1>1, <1>5, <1>7 DEF Empty, screen
<1>10. InBaseStart(D, O2)'
  BY <1>1, <1>2, <1>3, <1>5, <1>7, <1>8, <1>9 DEF InBaseStart, Alike, tables
<1>11. Running(D, O2, L)'
  BY <1>1, <1>2, <1>10 DEF Running
<1>12. cpu.esp.stk \in Pid /\ cpu.esp.sp \in Nat /\ Private(D, O, cpu.esp.stk, cpu.esp.sp)
  BY <1>1, TopFrame, FreeIsPrivate DEF OnFreeStack
<1>13. \A q \in Pid : activeProccess'[q] => activeProccess[q]
  BY DEF tables
<1>14. QED BY <1>1, <1>2, <1>5, <1>6, <1>11, <1>12, <1>13, OnFree

LEMMA ExecuteAllocSound ==
    ASSUME NEW D \in Depths, NEW O \in Owners, NEW L \in Leaves, Inv, Consistent(D, O, L),
           ExecuteAlloc
    PROVE  Sound
<1>1. /\ cpu.mode = "kernel" /\ Top.pc = "e_alloc" /\ At("e_alloc")
      /\ UNCHANGED <<tables, screen, page_directory, tss_esp0, image, arguments>>
  BY DEF ExecuteAlloc, At
<1>2. InCall(D, O, L) \/ InBaseStart(D, O)
  BY <1>1, Places
<1>3. ASSUME NEW p \in Pid, UnusedProcessID(p), GotoWith("e_mark", p) PROVE Sound
  BY <1>1, <1>2, <1>3, AllocChildSound, AllocBaseSound
<1>4. ASSUME \A p \in Pid : activeProccess[p], Return PROVE Sound
  <2>1. ~InBaseStart(D, O)
    BY <1>1, <1>4, Values DEF InBaseStart
  <2>2. QED BY <1>1, <1>2, <1>4, <2>1, CallReturnSound
<1>5. QED BY <1>3, <1>4 DEF ExecuteAlloc

-----------------------------------------------------------------------------
(* execute, up to the moment the new process is on top *)

\* A statement of execute that changes only the new process p's entries.
OnlyNew(p) ==
    /\ \A q \in Pid : q # p => activeProccess'[q] = activeProccess[q] /\ pcb'[q] = pcb[q]
    /\ \A u \in Term : u # Now => processPerTerminal'[u] = processPerTerminal[u]
    /\ UNCHANGED <<pid_running_in_terminal, screen, machine>>

\* The statements of execute between the choice of the pid and its publication,
\* for a child and for a base shell.
LEMMA StartStep ==
    ASSUME NEW D \in Depths, NEW O \in Owners, NEW L \in Leaves, Inv, Consistent(D, O, L),
           InStart(D, O, L), cpu.mode = "kernel",
           NEW to \in {"e_init", "e_cur", "e_top"}, Goto(to),
           OnlyNew(Top.pid), activeProccess'[Top.pid],
           currentProccess' = IF to = "e_top" THEN Top.pid ELSE Proc,
           to = "e_init" => processPerTerminal'[Now] = D[Proc],
           to \in {"e_cur", "e_top"} =>
              /\ processPerTerminal'[Now] = D[Proc] + 1
              /\ pcb'[Top.pid].running_in_terminal_num = Now
              /\ pcb'[Top.pid].parentESP = cpu.esp
    PROVE  Sound
<1> DEFINE p == Top.pid
<1>1. /\ cpu' = cpu /\ Only(cpu.esp.stk, cpu.esp.sp)
      /\ Top'.pc = to /\ Top'.pid = p /\ Alike(Top, Top')
  BY GotoFacts
<1>2. /\ Topped(D, O, L, Now) /\ cpu.esp.stk = Proc /\ Top.ret = Proc /\ Started(Proc) /\ Booted
      /\ p \in Pid \ Term /\ D[p] = 0 /\ O[p] = Now
  BY DEF InStart, Starting, FrameAt, Top, Proc
<1>3. Proc \in Pid /\ D[Proc] # 0 /\ Proc # p
  BY <1>2 DEF Topped, Proc
<1>4. /\ Proc' = Proc /\ Now' = Now /\ TopOf(Now)' = Proc /\ (Booted' <=> Booted)
      /\ FrameAt(cpu.esp)' = Top'
  BY DEF OnlyNew, screen, Proc, TopOf, Now, Booted, FrameAt, Top
<1>5. SameMembers(D, O, L, D, O, L, Now)
  BY <1>2, InTree DEF SameMembers, SamePcb, OnlyNew, screen, Booted
<1>6. Elsewhere(D, O, L, D, O, L)
  BY <1>2 DEF Elsewhere, OnlyNew, TopOf, machine
<1>7. Started(Proc)'
  <2>1. Proc \notin Term => SameFrame(pcb[Proc].parentESP)
    BY <1>1, <1>2, TopFrame, LeafFrameKept
  <2>2. pcb'[Proc] = pcb[Proc]
    BY <1>3 DEF OnlyNew
  <2>3. QED BY <1>2, <1>4, <2>1, <2>2 DEF Started, ParentFrame, FrameAt, SameFrame
<1>8. Starting(D, O, Now, cpu.esp)'
  BY <1>1, <1>2, <1>4, <1>7 DEF Starting, Alike, TerminalOf
<1>9. Topped(D, O, L, Now)'
  BY <1>2, <1>4 DEF Topped, OnlyNew, screen, Proc
<1>10. Running(D, O, L)'
  <2>1. page_directory' = Proc'
    BY <1>4 DEF InStart, OnlyNew, machine
  <2>2. QED BY <1>1, <1>4, <1>8, <1>9, <2>1 DEF Running, InStart
<1>11. \A q \in Pid : activeProccess'[q] => activeProccess[q] \/ q = Now \/ (q \notin Term /\ Booted)
  BY <1>2 DEF OnlyNew
<1>12. UNCHANGED screen
  BY DEF OnlyNew
<1>13. QED BY <1>1, <1>2, <1>5, <1>6, <1>10, <1>11, <1>12, OnLeaf

LEMMA BaseStep ==
    ASSUME NEW D \in Depths, NEW O \in Owners, NEW L \in Leaves, Inv, Consistent(D, O, L),
           InBaseStart(D, O), cpu.mode = "kernel", Top.pid = Now, O[Now] = Now,
           NEW to \in {"e_init", "e_cur", "e_top"}, Goto(to),
           OnlyNew(Now), activeProccess'[Now],
           to = "e_top" => currentProccess' = Now,
           to = "e_init" => processPerTerminal'[Now] = 0,
           to \in {"e_cur", "e_top"} =>
              /\ processPerTerminal'[Now] = 1
              /\ pcb'[Now].running_in_terminal_num = Now
              /\ pcb'[Now].parentESP = cpu.esp
    PROVE  Sound
<1>1. /\ cpu' = cpu /\ Only(cpu.esp.stk, cpu.esp.sp)
      /\ Top'.pc = to /\ Top'.pid = Now /\ Alike(Top, Top')
  BY GotoFacts
<1>2. Empty(D, O) /\ Proc = NoPid /\ OnFreeStack(D, cpu.esp) /\ Top.ret = NoPid
  BY DEF InBaseStart
<1>3. Proc' = Proc /\ Now' = Now /\ in_use' = in_use
  BY DEF OnlyNew, screen, Proc, TopOf, Now
<1>4. Elsewhere(D, O, L, D, O, L)
  BY DEF Elsewhere, OnlyNew, TopOf, machine
<1>5. OnFreeStack(D, cpu.esp)'
  <2>1. /\ Top'.ifl = Top.ifl
        /\ \A q \in Pid \ Term : D[q] # 0 =>
              D[q] # 0 /\ pcb'[q].parentESP = pcb[q].parentESP
    BY <1>1, Values DEF Alike, OnlyNew
  <2>2. UNCHANGED screen
    BY DEF OnlyNew
  <2>3. QED BY <1>1, <1>2, <1>4, <2>1, <2>2, FreeStackKept
<1>6. Empty(D, O)'
  BY <1>2, <1>3 DEF Empty
<1>7. InBaseStart(D, O)'
  BY <1>1, <1>2, <1>3, <1>5, <1>6 DEF InBaseStart, Alike, TerminalOf
<1>8. Running(D, O, L)'
  BY <1>1, <1>7 DEF Running
<1>9. cpu.esp.stk \in Pid /\ cpu.esp.sp \in Nat /\ Private(D, O, cpu.esp.stk, cpu.esp.sp)
  BY <1>2, TopFrame, FreeIsPrivate DEF OnFreeStack
<1>10. (\A q \in Pid : activeProccess'[q] => activeProccess[q] \/ q = Now) /\ UNCHANGED screen
  BY DEF OnlyNew
<1>11. QED BY <1>1, <1>2, <1>4, <1>8, <1>9, <1>10, OnFree

\* The pid a frame of execute holds.
LEMMA StartPid ==
    ASSUME NEW D \in Depths, NEW O \in Owners, NEW L \in Leaves, Inv, Consistent(D, O, L),
           cpu.mode = "kernel", Top.pc \in {"e_mark", "e_init", "e_cur", "e_top"}
    PROVE  \/ InStart(D, O, L) /\ Top.pid \in Pid \ Term
           \/ InBaseStart(D, O) /\ Top.pid = Now /\ O[Now] = Now
<1>1. InStart(D, O, L) \/ InBaseStart(D, O)
  BY Places
<1>2. InStart(D, O, L) => Top.pid \in Pid \ Term
  BY DEF InStart, Starting, FrameAt, Top
<1>3. InBaseStart(D, O) => Top.pid = Now /\ O[Now] = Now
  BY DEF InBaseStart
<1>4. QED BY <1>1, <1>2, <1>3

LEMMA ExecuteMarkSound ==
    ASSUME NEW D \in Depths, NEW O \in Owners, NEW L \in Leaves, Inv, Consistent(D, O, L),
           ExecuteMark
    PROVE  Sound
<1>1. /\ cpu.mode = "kernel" /\ Top.pc = "e_mark" /\ Goto("e_init")
      /\ activeProccess' = [activeProccess EXCEPT ![Top.pid] = TRUE]
      /\ UNCHANGED <<currentProccess, processPerTerminal, pid_running_in_terminal, pcb,
                     screen, machine>>
  BY DEF ExecuteMark, TableStep, Step, At
<1>2. Top.pid \in Pid
  BY <1>1, StartPid, Values
<1>3. activeProccess'[Top.pid] /\ OnlyNew(Top.pid)
  BY <1>1, <1>2 DEF OnlyNew, Inv, TypeOK
<1>4. CASE InStart(D, O, L)
  <2>1. processPerTerminal[Now] = D[Proc] /\ currentProccess = Proc
    BY <1>1, <1>4 DEF InStart, Starting, FrameAt, Top, Proc
  <2>2. QED BY <1>1, <1>3, <1>4, <2>1, StartStep
<1>5. CASE InBaseStart(D, O) /\ Top.pid = Now /\ O[Now] = Now
  <2>1. processPerTerminal[Now] = 0
    BY <1>1, <1>5 DEF InBaseStart
  <2>2. QED BY <1>1, <1>3, <1>5, <2>1, BaseStep
<1>6. QED BY <1>1, <1>4, <1>5, StartPid

LEMMA ExecuteInitPCBSound ==
    ASSUME NEW D \in Depths, NEW O \in Owners, NEW L \in Leaves, Inv, Consistent(D, O, L),
           ExecuteInitPCB
    PROVE  Sound
<1>1. /\ cpu.mode = "kernel" /\ Top.pc = "e_init" /\ Goto("e_cur")
      /\ processPerTerminal' = [processPerTerminal EXCEPT ![Now] = @ + 1]
      /\ UNCHANGED <<activeProccess, currentProccess, pid_running_in_terminal, screen, machine>>
  BY DEF ExecuteInitPCB, TableStep, Step, At, Now
<1> DEFINE r == [processESP |-> NULL, parentESP |-> cpu.esp, parentID |-> 0,
                 running_in_terminal_num |-> RecordedTerminal]
<1>2. pcb' = [pcb EXCEPT ![Top.pid] = r]
  BY DEF ExecuteInitPCB
<1>3. r.parentESP = cpu.esp /\ r.running_in_terminal_num = Now
  BY DEF RecordedTerminal, Now
<1> HIDE DEF r
<1>4. Top.pid \in Pid
  BY <1>1, StartPid, Values
<1>5. /\ pcb'[Top.pid].parentESP = cpu.esp /\ pcb'[Top.pid].running_in_terminal_num = Now
      /\ processPerTerminal'[Now] = processPerTerminal[Now] + 1
      /\ OnlyNew(Top.pid)
  BY <1>1, <1>2, <1>3, <1>4, Values DEF OnlyNew, Inv, TypeOK
<1>6. CASE InStart(D, O, L)
  <2>1. /\ processPerTerminal[Now] = D[Proc] /\ currentProccess = Proc
        /\ activeProccess[Top.pid]
    BY <1>1, <1>6 DEF InStart, Starting, FrameAt, Top, Proc
  <2>2. QED BY <1>1, <1>5, <1>6, <2>1, StartStep
<1>7. CASE InBaseStart(D, O) /\ Top.pid = Now /\ O[Now] = Now
  <2>1. processPerTerminal[Now] = 0 /\ activeProccess[Now]
    BY <1>1, <1>7 DEF InBaseStart
  <2>2. processPerTerminal'[Now] = 1
    BY <1>5, <2>1
  <2>3. QED BY <1>1, <1>5, <1>7, <2>1, <2>2, BaseStep
<1>8. QED BY <1>1, <1>6, <1>7, StartPid

LEMMA ExecuteCurrentSound ==
    ASSUME NEW D \in Depths, NEW O \in Owners, NEW L \in Leaves, Inv, Consistent(D, O, L),
           ExecuteCurrent
    PROVE  Sound
<1>1. /\ cpu.mode = "kernel" /\ Top.pc = "e_cur" /\ Goto("e_top")
      /\ currentProccess' = Top.pid
      /\ UNCHANGED <<activeProccess, processPerTerminal, pid_running_in_terminal, pcb,
                     screen, machine>>
  BY DEF ExecuteCurrent, TableStep, Step, At
<1>2. \A p \in Pid : OnlyNew(p)
  BY <1>1 DEF OnlyNew
<1>3. Top.pid \in Pid
  BY <1>1, StartPid, Values
<1>4. CASE InStart(D, O, L)
  <2>1. /\ processPerTerminal[Now] = D[Proc] + 1 /\ activeProccess[Top.pid]
        /\ pcb[Top.pid].running_in_terminal_num = Now /\ pcb[Top.pid].parentESP = cpu.esp
    BY <1>1, <1>4 DEF InStart, Starting, FrameAt, Top, Proc, TerminalOf
  <2>2. QED BY <1>1, <1>2, <1>3, <1>4, <2>1, StartStep
<1>5. CASE InBaseStart(D, O) /\ Top.pid = Now /\ O[Now] = Now
  <2>1. /\ processPerTerminal[Now] = 1 /\ activeProccess[Now]
        /\ pcb[Now].running_in_terminal_num = Now /\ pcb[Now].parentESP = cpu.esp
    BY <1>1, <1>5 DEF InBaseStart, TerminalOf
  <2>2. QED BY <1>1, <1>2, <1>3, <1>5, <2>1, BaseStep
<1>6. QED BY <1>1, <1>4, <1>5, StartPid

-----------------------------------------------------------------------------
(* The new process comes on top *)

\* The frames under the processes of this terminal stay.
LEMMA FramesKept ==
    ASSUME NEW D \in Depths, NEW O \in Owners, NEW L \in Leaves, Inv, Consistent(D, O, L),
           NEW s \in Pid, NEW k \in Nat, Only(s, k), s = L[Now] \/ D[s] = 0
    PROVE  \A p \in Pid \ Term : D[p] # 0 /\ O[p] = Now => SameFrame(pcb[p].parentESP)
<1> SUFFICES ASSUME NEW p \in Pid \ Term, D[p] # 0, O[p] = Now
             PROVE  SameFrame(pcb[p].parentESP)
  OBVIOUS
<1>1. Child(D, O, p) /\ pcb[p].parentESP \in Esp
  BY Values DEF Consistent, Chain, Member, Inv, TypeOK
<1>1a. pcb[p].parentESP.stk # s
  BY LeafStack
<1>2. pcb[p].parentESP.stk \in Pid /\ pcb[p].parentESP.sp \in 1 .. StackFrames
  BY <1>1, EspValues DEF Child
<1>3. QED BY <1>1a, <1>2 DEF Only, SameFrame

\* The tree grows by the child p of the process on top.
LEMMA ChildGrows ==
    ASSUME NEW D \in Depths, NEW O \in Owners, NEW L \in Leaves, Inv, Consistent(D, O, L),
           Topped(D, O, L, Now), Started(Proc), Booted,
           cpu.mode = "kernel", cpu.esp.stk = Proc, Only(cpu.esp.stk, cpu.esp.sp),
           NEW p \in Pid \ Term, D[p] = 0, O[p] = Now, activeProccess[p],
           TerminalOf(p) = Now, pcb[p].parentESP = cpu.esp,
           \A q \in Pid : q # p => pcb'[q] = pcb[q],
           pcb' = [pcb EXCEPT ![p].parentID = Proc],
           UNCHANGED <<activeProccess, screen>>,
           kstack'[cpu.esp.stk][cpu.esp.sp].ret = Proc,
           kstack'[cpu.esp.stk][cpu.esp.sp].pc \in LoadPcs,
           NEW D2 \in Depths, D2[p] = D[Proc] + 1, \A q \in Pid : q # p => D2[q] = D[q],
           NEW L2 \in Leaves, L2[Now] = p
    PROVE  Chain(D2, O, L2, Now)'
<1>1. Proc \in Pid /\ L[Now] = Proc /\ D[Proc] # 0 /\ O[Proc] = Now /\ in_use[Now] /\ Proc # p
  BY DEF Topped, Proc
<1>2. /\ Now \in Term /\ Now' = Now /\ in_use' = in_use /\ Booted' /\ Chain(D, O, L, Now)
      /\ cpu.esp.sp \in 1 .. StackFrames /\ cpu.esp.sp \in Nat /\ NoPid \notin Pid
  BY Values, TopFrame DEF screen, Now, Booted, Consistent
<1>3. \A q \in Pid : D[q] \in Nat /\ D2[q] \in Nat
  BY DEF Depths
<1>4. \A q \in Pid \ Term : D[q] # 0 /\ O[q] = Now => SameFrame(pcb[q].parentESP)
  BY <1>1, <1>2, FramesKept
<1>5. \A q \in Pid : D[q] # 0 /\ O[q] = Now => Member(D, O, L, Now, q) /\ D[q] <= D[Proc]
  BY <1>1, <1>2 DEF Chain, Member
<1>6. pcb'[p].parentID = Proc /\ pcb'[p].parentESP = cpu.esp /\ TerminalOf(p)' = Now
  BY DEF TerminalOf, Inv, TypeOK
<1>7. Member(D2, O, L2, Now, p)'
  <2>1. \A r \in Pid : D2[r] = D2[p] /\ O[r] = Now => r = p
    BY <1>1, <1>3, <1>5
  <2>2. Child(D2, O, p)'
    BY <1>1, <1>2, <1>6 DEF Child, ParentFrame, FrameAt
  <2>3. D2[p] # 0 /\ D2[p] <= D2[L2[Now]]
    BY <1>1, <1>3
  <2>4. QED BY <1>1, <1>2, <1>6, <2>1, <2>2, <2>3 DEF Member
<1>8. ASSUME NEW r \in Pid, r # p, D[r] # 0, O[r] = Now
      PROVE  Member(D2, O, L2, Now, r)'
  <2>1. Member(D, O, L, Now, r) /\ D2[r] = D[r] /\ pcb'[r] = pcb[r]
    BY <1>5, <1>8
  <2>2. D2[r] <= D2[L2[Now]] /\ D2[L2[Now]] # 0
    BY <1>1, <1>3, <1>5, <1>8
  <2>3. \A x \in Pid : D2[x] = D2[r] /\ O[x] = Now => x = r
    BY <1>1, <1>3, <1>5, <1>8, <2>1 DEF Member
  <2>4. r \notin Term => ParentFrame(r)' = ParentFrame(r)
    BY <1>4, <1>8, <2>1 DEF ParentFrame, FrameAt, SameFrame
  <2>5. r \notin Term => Child(D2, O, r)'
    <3> SUFFICES ASSUME r \notin Term PROVE Child(D2, O, r)'
      OBVIOUS
    <3>1. Child(D, O, r) /\ pcb[r].parentID \in Pid
      BY <2>1 DEF Member, Inv, TypeOK
    <3>2. pcb[r].parentID # p /\ D2[pcb[r].parentID] = D[pcb[r].parentID]
      BY <3>1 DEF Child
    <3>3. QED BY <1>2, <2>1, <2>4, <3>1, <3>2 DEF Child
  <2>6. Started(r)
    BY <1>1, <2>1 DEF Member
  <2>7. Started(r)'
    BY <2>4, <2>6 DEF Started
  <2>8. QED BY <1>2, <2>1, <2>2, <2>3, <2>5, <2>7 DEF Member, TerminalOf
<1>9. QED BY <1>2, <1>7, <1>8 DEF Chain

\* execute puts the new process on top of its terminal.
LEMMA PublishChildSound ==
    ASSUME NEW D \in Depths, NEW O \in Owners, NEW L \in Leaves, Inv, Consistent(D, O, L),
           InStart(D, O, L), ExecutePublish
    PROVE  Sound
<1> DEFINE p == Top.pid
<1>1. /\ cpu.mode = "kernel" /\ Top.pc = "e_top" /\ Goto("e_args")
      /\ UNCHANGED <<activeProccess, currentProccess, processPerTerminal, screen, machine>>
  BY DEF ExecutePublish, TableStep, Step, At
<1>2. /\ Topped(D, O, L, Now) /\ cpu.esp.stk = Proc /\ Top.ret = Proc /\ Started(Proc) /\ Booted
      /\ p \in Pid \ Term /\ D[p] = 0 /\ O[p] = Now /\ activeProccess[p]
      /\ processPerTerminal[Now] = D[Proc] + 1 /\ currentProccess = p /\ page_directory = Proc
      /\ TerminalOf(p) = Now /\ pcb[p].parentESP = cpu.esp
  BY <1>1 DEF InStart, Starting, FrameAt, Top, Proc
<1>3. Proc \in Pid /\ L[Now] = Proc /\ D[Proc] # 0 /\ O[Proc] = Now /\ in_use[Now] /\ Proc # p
  BY <1>2 DEF Topped, Proc
<1>4. ParentOf(p) = Proc
  <2>1. Proc > NoPid
    BY <1>3 DEF Pid, NoPid
  <2>2. pid_running_in_terminal[pcb[p].running_in_terminal_num] = Proc
    BY <1>2 DEF TerminalOf, Proc, TopOf
  <2>3. QED BY <2>1, <2>2 DEF ParentOf
<1>5. /\ pcb' = [pcb EXCEPT ![p].parentID = Proc]
      /\ pid_running_in_terminal' = [pid_running_in_terminal EXCEPT ![Now] = p]
  BY <1>2, <1>4 DEF ExecutePublish, NewTop, TerminalOf
<1>6. /\ \A q \in Pid : q # p => pcb'[q] = pcb[q]
      /\ pcb'[p].parentESP = cpu.esp
      /\ Proc' = p /\ TopOf(Now)' = p /\ Now' = Now /\ Now \in Term /\ in_use' = in_use
      /\ \A u \in Term : u # Now => TopOf(u)' = TopOf(u)
  BY <1>1, <1>2, <1>5, Values DEF Proc, TopOf, Now, screen, Inv, TypeOK
<1>7. PICK d \in Nat : d = D[Proc] + 1
  BY <1>3 DEF Depths
<1>8. PICK x \in Pid \ Term : x = p
  BY <1>2
<1>9. PICK t \in Term : t = Now
  BY Values
<1> DEFINE D2 == [D EXCEPT ![x] = d]
           L2 == [L EXCEPT ![t] = x]
<1>10. /\ D2 \in Depths /\ D2[p] = D[Proc] + 1 /\ \A q \in Pid : q # p => D2[q] = D[q]
       /\ L2 \in Leaves /\ L2[Now] = p /\ \A u \in Term : u # Now => L2[u] = L[u]
  BY <1>2, <1>7, <1>8, <1>9 DEF Depths, Leaves
<1> HIDE DEF D2, L2
<1>11. /\ cpu' = cpu /\ Only(cpu.esp.stk, cpu.esp.sp)
       /\ Top'.pc = "e_args" /\ Top'.pid = p /\ Alike(Top, Top')
  BY <1>1, GotoFacts
<1>12. /\ Top' = kstack'[cpu.esp.stk][cpu.esp.sp] /\ FrameAt(cpu.esp)' = Top'
       /\ Top'.ret = Proc /\ Top'.pc \in LoadPcs
  BY <1>2, <1>11 DEF Top, Alike, LoadPcs, FrameAt
<1>13. Elsewhere(D, O, L, D2, O, L2)
  BY <1>1, <1>2, <1>6, <1>10 DEF Elsewhere, machine
<1>14. Chain(D2, O, L2, Now)'
  BY <1>1, <1>2, <1>5, <1>6, <1>10, <1>11, <1>12, ChildGrows
<1>15. Topped(D2, O, L2, Now)'
  <2>1. D[Now] # 0 /\ O[Now] = Now /\ Now \in Pid /\ Now # p
    BY <1>2, Values DEF Topped
  <2>2. D2[p] # 0 /\ D2[Now] # 0
    BY <1>3, <1>7, <1>10, <2>1 DEF Depths
  <2>3. QED BY <1>2, <1>3, <1>6, <1>10, <2>1, <2>2 DEF Topped
<1>16. Loading(D2, Now, cpu.esp)'
  BY <1>1, <1>2, <1>6, <1>10, <1>11, <1>12 DEF Loading, Copied
<1>17. Running(D2, O, L2)'
  <2>1. page_directory' = Top'.ret
    BY <1>1, <1>2, <1>12 DEF machine
  <2>2. QED BY <1>1, <1>2, <1>6, <1>11, <1>15, <1>16, <2>1 DEF Running, InLoad
<1>18. Private(D, O, Proc, cpu.esp.sp) /\ cpu.esp.sp \in Nat
  BY <1>1, <1>3, OwnStack, TopFrame
<1>19. UNCHANGED screen
  BY <1>1
<1>20. cpu'.mode # "crashed" /\ \A q \in Pid : activeProccess'[q] => activeProccess[q]
  BY <1>1, <1>11
<1>21. QED
  BY <1>2, <1>3, <1>10, <1>11, <1>13, <1>14, <1>17, <1>18, <1>19, <1>20, LocalStep

LEMMA PublishBaseSound ==
    ASSUME NEW D \in Depths, NEW O \in Owners, NEW L \in Leaves, Inv, Consistent(D, O, L),
           InBaseStart(D, O), ExecutePublish
    PROVE  Sound
<1>1. /\ cpu.mode = "kernel" /\ Top.pc = "e_top" /\ Goto("e_args")
      /\ UNCHANGED <<activeProccess, currentProccess, processPerTerminal, screen, machine>>
  BY DEF ExecutePublish, TableStep, Step, At
<1>2. /\ Empty(D, O) /\ Proc = NoPid /\ OnFreeStack(D, cpu.esp) /\ Top.pid = Now /\ O[Now] = Now
      /\ activeProccess[Now] /\ processPerTerminal[Now] = 1 /\ currentProccess = Now
      /\ TerminalOf(Now) = Now /\ pcb[Now].parentESP = cpu.esp /\ Top.ret = NoPid
  BY <1>1 DEF InBaseStart
<1>3. in_use[Now] /\ D[Now] = 0 /\ \A q \in Pid : D[q] # 0 => O[q] # Now
  BY <1>2 DEF Empty
<1>4. ParentOf(Now) = Now
  <2>1. pid_running_in_terminal[pcb[Now].running_in_terminal_num] = NoPid
    BY <1>2 DEF TerminalOf, Proc, TopOf
  <2>2. ~(NoPid > NoPid)
    BY DEF NoPid
  <2>3. QED BY <2>1, <2>2 DEF ParentOf
<1>5. /\ pcb' = [pcb EXCEPT ![Now].parentID = Now]
      /\ pid_running_in_terminal' = [pid_running_in_terminal EXCEPT ![Now] = Now]
  BY <1>2, <1>4 DEF ExecutePublish, NewTop, TerminalOf
<1>6. /\ \A q \in Pid : q # Now => pcb'[q] = pcb[q]
      /\ pcb'[Now].parentESP = cpu.esp /\ pcb'[Now].parentID = Now /\ TerminalOf(Now)' = Now
      /\ Proc' = Now /\ TopOf(Now)' = Now /\ Now' = Now /\ Now \in Term /\ Now \in Pid
      /\ in_use' = in_use
      /\ \A u \in Term : u # Now => TopOf(u)' = TopOf(u)
  BY <1>1, <1>2, <1>5, Values DEF Proc, TopOf, Now, screen, TerminalOf, Inv, TypeOK
<1>7. PICK t \in Term : t = Now /\ t \in Pid
  BY Values
<1> DEFINE D2 == [D EXCEPT ![t] = 1]
           L2 == [L EXCEPT ![t] = t]
<1>8. /\ D2 \in Depths /\ D2[Now] = 1 /\ \A q \in Pid : q # Now => D2[q] = D[q]
      /\ L2 \in Leaves /\ L2[Now] = Now /\ \A u \in Term : u # Now => L2[u] = L[u]
  BY <1>7 DEF Depths, Leaves
<1> HIDE DEF D2, L2
<1>9. /\ cpu' = cpu /\ Only(cpu.esp.stk, cpu.esp.sp)
      /\ Top'.pc = "e_args" /\ Top'.pid = Now /\ Alike(Top, Top')
  BY <1>1, <1>2, GotoFacts
<1>10. FrameAt(cpu.esp)' = Top'
  BY DEF Top, FrameAt
<1>11. Elsewhere(D, O, L, D2, O, L2)
  BY <1>1, <1>2, <1>6, <1>8 DEF Elsewhere, machine
<1>12. Chain(D2, O, L2, Now)'
  <2> SUFFICES ASSUME NEW q \in Pid, D2[q] # 0, O[q] = Now
               PROVE  Member(D2, O, L2, Now, q)'
    BY <1>6 DEF Chain
  <2>1. q = Now
    BY <1>3, <1>8
  <2>2. \A r \in Pid : D2[r] = D2[q] /\ O[r] = Now => r = q
    BY <1>3, <1>8, <2>1
  <2>3. QED BY <1>1, <1>2, <1>3, <1>6, <1>8, <2>1, <2>2 DEF Member
<1>13. OnFreeStack(D2, cpu.esp)'
  <2>1. Top'.ifl = Top.ifl
    BY <1>9 DEF Alike
  <2>2. \A q \in Pid \ Term : D2[q] # 0 => D[q] # 0 /\ pcb'[q].parentESP = pcb[q].parentESP
    BY <1>6, <1>8
  <2>3. UNCHANGED screen
    BY <1>1
  <2>4. QED BY <1>2, <1>8, <1>9, <1>11, <2>1, <2>2, <2>3, FreeStackKept
<1>14. Topped(D2, O, L2, Now)'
  BY <1>2, <1>3, <1>6, <1>8 DEF Topped
<1>15. Loading(D2, Now, cpu.esp)'
  BY <1>1, <1>2, <1>6, <1>8, <1>9, <1>10 DEF Loading, Copied, LoadPcs
<1>16. Running(D2, O, L2)'
  <2>1. Top'.ret = NoPid
    BY <1>2, <1>9 DEF Alike
  <2>2. QED BY <1>1, <1>2, <1>6, <1>9, <1>13, <1>14, <1>15, <2>1 DEF Running, InLoad
<1>17. cpu.esp.stk \in Pid /\ cpu.esp.sp \in Nat /\ Private(D, O, cpu.esp.stk, cpu.esp.sp)
  BY <1>1, <1>2, TopFrame, FreeIsPrivate DEF OnFreeStack
<1>18. UNCHANGED screen
  BY <1>1
<1>19. cpu'.mode # "crashed" /\ \A q \in Pid : activeProccess'[q] => activeProccess[q]
  BY <1>1, <1>9
<1>20. QED
  BY <1>3, <1>8, <1>9, <1>11, <1>12, <1>16, <1>17, <1>18, <1>19, LocalStep

LEMMA ExecutePublishSound ==
    ASSUME NEW D \in Depths, NEW O \in Owners, NEW L \in Leaves, Inv, Consistent(D, O, L),
           ExecutePublish
    PROVE  Sound
<1>1. cpu.mode = "kernel" /\ Top.pc = "e_top"
  BY DEF ExecutePublish, TableStep, Step, At
<1>2. QED BY <1>1, StartPid, PublishChildSound, PublishBaseSound

-----------------------------------------------------------------------------
(* execute, from the new process on top to its first instruction *)

\* The frame of the running execute may change, and nothing else does.
LEMMA OnLoad ==
    ASSUME NEW D \in Depths, NEW O \in Owners, NEW L \in Leaves, Inv, Consistent(D, O, L),
           InLoad(D, O, L), cpu.mode = "kernel", Only(cpu.esp.stk, cpu.esp.sp),
           kstack'[cpu.esp.stk][cpu.esp.sp].ret = Top.ret,
           kstack'[cpu.esp.stk][cpu.esp.sp].pc \in LoadPcs \cup {"IRET_OUT"}
    PROVE  ParentsKept(D, O, L) /\ Private(D, O, cpu.esp.stk, cpu.esp.sp)
<1>1. /\ Topped(D, O, L, Now) /\ Proc \in Pid /\ L[Now] = Proc /\ D[Proc] # 0 /\ O[Proc] = Now
      /\ pcb[Proc].parentESP = cpu.esp /\ Now \in Term
      /\ (Proc \in Term => OnFreeStack(D, cpu.esp))
  BY Values DEF InLoad, Topped, Loading, Proc
<1>2. Member(D, O, L, Now, Proc) /\ cpu.esp.stk \in Pid /\ cpu.esp.sp \in Nat
  BY <1>1, TopFrame DEF Consistent, Chain
<1>3. ASSUME Proc \notin Term
      PROVE  D[Proc] = D[cpu.esp.stk] + 1 /\ O[cpu.esp.stk] = Now
  BY <1>1, <1>2, <1>3 DEF Member, Child
<1>4. Private(D, O, cpu.esp.stk, cpu.esp.sp)
  <2>1. CASE Proc \in Term
    BY <1>1, <2>1, FreeIsPrivate DEF OnFreeStack
  <2>2. CASE Proc \notin Term
    BY <1>2, <1>3, <2>2, OwnStack
  <2>3. QED BY <2>1, <2>2
<1>5. ASSUME NEW p \in Pid \ Term, D[p] # 0, O[p] = Now, p # Proc
      PROVE  SameFrame(pcb[p].parentESP)
  <2> DEFINE e == pcb[p].parentESP
             q == pcb[p].parentID
  <2>1. Member(D, O, L, Now, p) /\ Child(D, O, p)
    BY <1>1, <1>5 DEF Consistent, Chain, Member
  <2>2. /\ e.stk = q /\ e \in Esp /\ e.sp > 0 /\ D[p] = D[q] + 1 /\ D[q] # 0 /\ q \in Pid
        /\ D[p] \in Nat /\ D[q] \in Nat /\ D[Proc] \in Nat /\ D[p] <= D[Proc]
    BY <1>1, <2>1 DEF Child, Member, Inv, TypeOK, Depths
  <2>3. Proc \notin Term
    BY <1>2, <2>2 DEF Member
  <2>4. ASSUME e.stk = cpu.esp.stk PROVE FALSE
    <3>1. D[p] = D[Proc]
      BY <1>3, <2>2, <2>3, <2>4
    <3>2. QED BY <1>1, <1>2, <1>5, <3>1 DEF Member
  <2>5. e.stk \in Pid /\ e.sp \in 1 .. StackFrames
    BY <2>2, EspValues
  <2>6. QED BY <2>4, <2>5 DEF Only, SameFrame
<1>6. ParentsKept(D, O, L)
  BY <1>1, <1>5 DEF ParentsKept, FrameAt, Top
<1>7. QED BY <1>4, <1>6

\* The statements of execute that follow: arguments, page, image, tss.esp0.
LEMMA LoadStep ==
    ASSUME NEW D \in Depths, NEW O \in Owners, NEW L \in Leaves, Inv, Consistent(D, O, L),
           InLoad(D, O, L), cpu.mode = "kernel",
           NEW to \in {"e_page", "e_load", "e_tss", "e_iret"}, Goto(to),
           UNCHANGED <<tables, screen>>, to # "e_page" => page_directory' = Proc,
           Undisturbed /\ Top.ret # NoPid => arguments'[Proc] = Top.ret,
           to = "e_iret" => tss_esp0'.stk = Proc,
           to \in {"e_tss", "e_iret"} => image'[Proc] = Top.prog,
           \A p \in Pid : p # Proc => image'[p] = image[p] /\ arguments'[p] = arguments[p]
    PROVE  Sound
<1>1. /\ cpu' = cpu /\ Only(cpu.esp.stk, cpu.esp.sp)
      /\ Top'.pc = to /\ Top'.pid = Top.pid /\ Alike(Top, Top')
  BY GotoFacts
<1>2. /\ Topped(D, O, L, Now) /\ Loading(D, Now, cpu.esp) /\ currentProccess = Proc
      /\ (Proc \in Term => OnFreeStack(D, cpu.esp)) /\ O[Proc] = Now /\ in_use[Now]
      /\ Top.pid = Proc
  BY DEF InLoad, Topped, Loading, Proc, FrameAt, Top
<1>3. Top' = kstack'[cpu.esp.stk][cpu.esp.sp] /\ FrameAt(cpu.esp)' = Top'
  BY <1>1 DEF Top, FrameAt
<1>4. ParentsKept(D, O, L) /\ Private(D, O, cpu.esp.stk, cpu.esp.sp)
  BY <1>1, <1>3, OnLoad DEF Alike, LoadPcs
<1>5. Proc' = Proc /\ Now' = Now /\ TopOf(Now)' = Proc /\ TopOf(Now) = Proc
  BY DEF Proc, TopOf, Now, tables, screen
<1>6. \A p \in Pid : O[p] # Now /\ activeProccess[p] =>
        image'[p] = image[p] /\ arguments'[p] = arguments[p]
  BY <1>2
<1>7. Elsewhere(D, O, L, D, O, L)
  BY <1>6 DEF Elsewhere, tables, TopOf
<1>8. ASSUME Proc \in Term PROVE OnFreeStack(D, cpu.esp)'
  <2>1. Top'.ifl = Top.ifl /\ UNCHANGED screen
    BY <1>1 DEF Alike
  <2>2. \A q \in Pid \ Term : D[q] # 0 => D[q] # 0 /\ pcb'[q].parentESP = pcb[q].parentESP
    BY DEF tables
  <2>3. QED BY <1>1, <1>2, <1>7, <1>8, <2>1, <2>2, FreeStackKept
<1>9. Loading(D, Now, cpu.esp)'
  <2>1. Copied(Now, cpu.esp)'
    BY <1>1, <1>3, <1>5 DEF Copied, Undisturbed, Alike
  <2>2. QED BY <1>1, <1>2, <1>3, <1>5, <2>1 DEF Loading, Alike, LoadPcs, tables
<1>10. Topped(D, O, L, Now)'
  BY <1>2, <1>5 DEF Topped, tables, screen
<1>11. Running(D, O, L)'
  BY <1>1, <1>2, <1>5, <1>8, <1>9, <1>10 DEF Running, InLoad, tables
<1>12. cpu.esp.stk \in Pid /\ cpu.esp.sp \in Nat
  BY TopFrame
<1>13. QED BY <1>1, <1>2, <1>4, <1>6, <1>11, <1>12, MachineStepSound

LEMMA LoadPlace ==
    ASSUME NEW D \in Depths, NEW O \in Owners, NEW L \in Leaves, Inv, Consistent(D, O, L),
           cpu.mode = "kernel", Top.pc \in LoadPcs
    PROVE  /\ InLoad(D, O, L) /\ Top.pid = Proc /\ Proc \in Pid
           /\ Top.pc \notin {"e_args", "e_page"} => page_directory = Proc
           /\ Undisturbed /\ Top.ret # NoPid =>
                 IF Top.pc = "e_args" THEN page_directory = Top.ret ELSE arguments[Proc] = Top.ret
           /\ Top.pc \in {"e_tss", "e_iret"} => image[Proc] = Top.prog
           /\ Top.pc = "e_iret" => tss_esp0.stk = Proc
<1>1. InLoad(D, O, L)
  BY Places
<1>2. QED BY <1>1 DEF InLoad, Loading, Copied, Topped, FrameAt, Top, Proc

LEMMA ExecuteArgumentsSound ==
    ASSUME NEW D \in Depths, NEW O \in Owners, NEW L \in Leaves, Inv, Consistent(D, O, L),
           ExecuteArguments
    PROVE  Sound
<1>1. /\ cpu.mode = "kernel" /\ Top.pc = "e_args" /\ Goto("e_page")
      /\ arguments' = [arguments EXCEPT ![Top.pid] =
                         IF Top.ret = NoPid THEN NoPid ELSE page_directory]
      /\ UNCHANGED <<tables, screen, page_directory, image>>
  BY DEF ExecuteArguments, MachineStep, Step, At
<1>2. /\ InLoad(D, O, L) /\ Top.pid = Proc /\ Proc \in Pid
      /\ Undisturbed /\ Top.ret # NoPid => page_directory = Top.ret
  BY <1>1, LoadPlace DEF LoadPcs
<1>3. /\ Undisturbed /\ Top.ret # NoPid => arguments'[Proc] = Top.ret
      /\ \A p \in Pid : p # Proc => arguments'[p] = arguments[p]
  BY <1>1, <1>2 DEF Inv, TypeOK
<1>4. QED BY <1>1, <1>2, <1>3, LoadStep

LEMMA ExecutePageSound ==
    ASSUME NEW D \in Depths, NEW O \in Owners, NEW L \in Leaves, Inv, Consistent(D, O, L),
           ExecutePage
    PROVE  Sound
<1>1. /\ cpu.mode = "kernel" /\ Top.pc = "e_page" /\ Goto("e_load") /\ page_directory' = Top.pid
      /\ UNCHANGED <<tables, screen, image, arguments>>
  BY DEF ExecutePage, MachineStep, Step, At
<1>2. /\ InLoad(D, O, L) /\ Top.pid = Proc
      /\ Undisturbed /\ Top.ret # NoPid => arguments[Proc] = Top.ret
  BY <1>1, LoadPlace DEF LoadPcs
<1>3. QED BY <1>1, <1>2, LoadStep

LEMMA ExecuteLoadSound ==
    ASSUME NEW D \in Depths, NEW O \in Owners, NEW L \in Leaves, Inv, Consistent(D, O, L),
           ExecuteLoad
    PROVE  Sound
<1>1. /\ cpu.mode = "kernel" /\ Top.pc = "e_load" /\ Goto("e_tss")
      /\ image' = [image EXCEPT ![page_directory] = Top.prog]
      /\ UNCHANGED <<tables, screen, page_directory, arguments>>
  BY DEF ExecuteLoad, MachineStep, Step, At
<1>2. /\ InLoad(D, O, L) /\ page_directory = Proc /\ Proc \in Pid
      /\ Undisturbed /\ Top.ret # NoPid => arguments[Proc] = Top.ret
  BY <1>1, LoadPlace DEF LoadPcs
<1>3. image'[Proc] = Top.prog /\ \A p \in Pid : p # Proc => image'[p] = image[p]
  BY <1>1, <1>2 DEF Inv, TypeOK
<1>4. QED BY <1>1, <1>2, <1>3, LoadStep

LEMMA ExecuteTssSound ==
    ASSUME NEW D \in Depths, NEW O \in Owners, NEW L \in Leaves, Inv, Consistent(D, O, L),
           ExecuteTss
    PROVE  Sound
<1>1. /\ cpu.mode = "kernel" /\ Top.pc = "e_tss" /\ Goto("e_iret")
      /\ tss_esp0' = StackTop(Top.pid)
      /\ UNCHANGED <<tables, screen, page_directory, image, arguments>>
  BY DEF ExecuteTss, MachineStep, Step, At
<1>2. /\ InLoad(D, O, L) /\ page_directory = Proc /\ Top.pid = Proc /\ image[Proc] = Top.prog
      /\ Undisturbed /\ Top.ret # NoPid => arguments[Proc] = Top.ret
  BY <1>1, LoadPlace DEF LoadPcs
<1>3. tss_esp0'.stk = Proc
  BY <1>1, <1>2 DEF StackTop
<1>4. QED BY <1>1, <1>2, <1>3, LoadStep

LEMMA ExecuteIretSound ==
    ASSUME NEW D \in Depths, NEW O \in Owners, NEW L \in Leaves, Inv, Consistent(D, O, L),
           ExecuteIret
    PROVE  Sound
<1>1. /\ cpu.mode = "kernel" /\ Top.pc = "e_iret" /\ cpu' = User(Top.pid)
      /\ kstack' = [kstack EXCEPT ![cpu.esp.stk][cpu.esp.sp].pc = "IRET_OUT"]
      /\ UNCHANGED <<tables, screen, page_directory, tss_esp0, image, arguments>>
  BY DEF ExecuteIret, At
<1>2. InLoad(D, O, L) /\ page_directory = Proc /\ Top.pid = Proc /\ tss_esp0.stk = Proc
  BY <1>1, LoadPlace DEF LoadPcs
<1>3. /\ Topped(D, O, L, Now) /\ currentProccess = Proc /\ O[Proc] = Now /\ in_use[Now]
      /\ pcb[Proc].parentESP = cpu.esp /\ processPerTerminal[Now] = D[Proc]
  BY <1>2 DEF InLoad, Topped, Loading, Proc
<1>4. /\ Only(cpu.esp.stk, cpu.esp.sp)
      /\ kstack'[cpu.esp.stk][cpu.esp.sp].pc = "IRET_OUT"
      /\ kstack'[cpu.esp.stk][cpu.esp.sp].ret = Top.ret
  <2>1. /\ cpu.esp.stk \in Pid /\ cpu.esp.sp \in 1 .. StackFrames /\ Top \in Frame
        /\ kstack \in Stacks
    BY <1>1, TopFrame, Values
  <2> DEFINE f == [Top EXCEPT !.pc = "IRET_OUT"]
  <2>2. kstack' = [kstack EXCEPT ![cpu.esp.stk] = [@ EXCEPT ![cpu.esp.sp] = f]]
    BY <1>1, <2>1 DEF Top, Stacks
  <2>3. kstack'[cpu.esp.stk][cpu.esp.sp] = f
    BY <2>1, <2>2 DEF Stacks
  <2>4. f.pc = "IRET_OUT" /\ f.ret = Top.ret
    BY <2>1 DEF Frame
  <2> HIDE DEF f
  <2>5. Only(cpu.esp.stk, cpu.esp.sp)
    BY <2>1, <2>2 DEF Only, Stacks
  <2>6. QED BY <2>3, <2>4, <2>5
<1>5. ParentsKept(D, O, L) /\ Private(D, O, cpu.esp.stk, cpu.esp.sp)
  BY <1>1, <1>2, <1>4, OnLoad
<1>6. Proc' = Proc /\ Now' = Now /\ Settled(D, O, L)'
  BY <1>1, <1>2, <1>3 DEF Settled, Topped, Proc, TopOf, Now, tables, screen
<1>7. Started(Proc)'
  BY <1>1, <1>3, <1>4, <1>6 DEF Started, ParentFrame, FrameAt, tables
<1>8. cpu'.mode = "user" /\ cpu'.proc = Proc
  BY <1>1, <1>2 DEF User
<1>9. Running(D, O, L)'
  BY <1>1, <1>3, <1>6, <1>7, <1>8 DEF Running, InProgram, tables
<1>10. cpu.esp.stk \in Pid /\ cpu.esp.sp \in Nat
  BY <1>1, TopFrame
<1>11. QED BY <1>1, <1>3, <1>4, <1>5, <1>8, <1>9, <1>10, MachineStepSound

-----------------------------------------------------------------------------
(* halt by the last process of a terminal *)

\* halt looks whether it ends a base shell.
LEMMA HaltTestSound ==
    ASSUME NEW D \in Depths, NEW O \in Owners, NEW L \in Leaves, Inv, Consistent(D, O, L),
           HaltTest
    PROVE  Sound
<1>1. /\ cpu.mode = "kernel" /\ Top.pc = "h_test"
      /\ UNCHANGED <<currentProccess, processPerTerminal, pid_running_in_terminal, pcb,
                     screen, machine>>
  BY DEF HaltTest, At
<1>2. InCall(D, O, L)
  BY <1>1, Places
<1>3. /\ Topped(D, O, L, Now) /\ currentProccess = Proc /\ Proc \in Pid /\ L[Now] = Proc
      /\ D[Proc] # 0 /\ O[Proc] = Now /\ D[Now] # 0 /\ O[Now] = Now /\ in_use[Now]
      /\ cpu.esp.stk = Proc /\ Top.ret = Proc /\ Started(Proc) /\ Booted
      /\ processPerTerminal[Now] = D[Proc] /\ Settled(D, O, L)
  BY <1>1, <1>2 DEF InCall, Calling, Settled, Topped, Proc, FrameAt, Top
<1>4. /\ Now \in Term /\ Now \in Pid /\ Member(D, O, L, Now, Proc) /\ Member(D, O, L, Now, Now)
      /\ TerminalOf(Proc) = Now /\ D[Proc] \in Nat /\ D[Now] = 1
      /\ (Proc \in Term => D[Proc] = 1)
  BY <1>3, Values DEF Consistent, Chain, Member, Depths
<1>5. Proc' = Proc /\ TopOf(Now)' = Proc /\ Now' = Now /\ in_use' = in_use /\ (Booted' <=> Booted)
  BY <1>1 DEF Proc, TopOf, Now, screen, Booted
<1>6. CASE processPerTerminal[TerminalOf(currentProccess)] <= 1
  <2>1. /\ activeProccess' = [activeProccess EXCEPT ![Proc] = FALSE]
        /\ GotoWith("b_top", Proc)
    BY <1>3, <1>6 DEF HaltTest
  <2>2. D[Proc] = 1 /\ Proc = Now
    <3>1. D[Proc] = 1
      BY <1>3, <1>4, <1>6
    <3>2. QED BY <1>3, <1>4, <3>1 DEF Member
  <2>3. /\ cpu' = cpu /\ Only(cpu.esp.stk, cpu.esp.sp)
        /\ Top'.pc = "b_top" /\ Top'.pid = Proc /\ cpu.esp.sp \in Nat
    BY <1>1, <2>1, GotoWithFacts, TopFrame
  <2>4. PICK t \in Term : t = Now
    BY <1>4
  <2> DEFINE D2 == [D EXCEPT ![t] = 0]
  <2>5. D2 \in Depths /\ D2[Now] = 0 /\ \A q \in Pid : q # Now => D2[q] = D[q]
    BY <1>4, <2>4 DEF Depths
  <2> HIDE DEF D2
  <2>6. ~activeProccess'[Now] /\ \A q \in Pid : q # Now => activeProccess'[q] = activeProccess[q]
    BY <1>3, <2>1, <2>2 DEF Inv, TypeOK
  <2>7. ASSUME NEW q \in Pid, D2[q] # 0 PROVE O[q] # Now
    <3>1. q # Now /\ D[q] # 0
      BY <2>5, <2>7
    <3>2. ASSUME O[q] = Now PROVE FALSE
      <4>1. Member(D, O, L, Now, q) /\ D[q] <= D[Proc] /\ D[q] \in Nat
        BY <1>3, <1>4, <3>1, <3>2 DEF Consistent, Chain, Member, Depths
      <4>2. D[q] = D[Now]
        BY <1>4, <2>2, <3>1, <4>1
      <4>3. QED BY <1>3, <1>4, <3>1, <4>1, <4>2 DEF Member
    <3>3. QED BY <3>2
  <2>8. Elsewhere(D, O, L, D2, O, L)
    BY <1>1, <1>3, <2>5, <2>6 DEF Elsewhere, TopOf, machine
  <2>9. InRespawn(D2, O)'
    <3>1. Empty(D2, O)'
      BY <1>3, <1>5, <2>5, <2>7 DEF Empty
    <3>2. TerminalOf(Now) = Now /\ pcb[Now].parentID = Now
      BY <1>4 DEF Member
    <3>3. QED
      BY <1>1, <1>3, <1>5, <2>2, <2>3, <2>6, <3>1, <3>2 DEF InRespawn, TerminalOf
  <2>10. Running(D2, O, L)'
    BY <1>1, <2>3, <2>9 DEF Running
  <2>11. Chain(D2, O, L, Now)'
    BY <1>5, <2>7 DEF Chain
  <2>12. Private(D, O, Proc, cpu.esp.sp)
    BY <1>3, OwnStack
  <2>13. UNCHANGED screen /\ Only(Proc, cpu.esp.sp)
    BY <1>1, <1>3, <2>3
  <2>14. cpu'.mode # "crashed" /\ \A q \in Pid : activeProccess'[q] => activeProccess[q]
    BY <1>1, <2>3, <2>6
  <2>15. QED
    BY <1>3, <2>3, <2>5, <2>8, <2>10, <2>11, <2>12, <2>13, <2>14, LocalStep
<1>7. CASE ~(processPerTerminal[TerminalOf(currentProccess)] <= 1)
  <2>1. GotoWith("h_free", Proc) /\ UNCHANGED <<tables, screen, machine>>
    BY <1>1, <1>3, <1>7 DEF HaltTest, tables
  <2>2. Proc \notin Term
    BY <1>3, <1>4, <1>7
  <2>3. /\ cpu' = cpu /\ Only(Proc, cpu.esp.sp)
        /\ Top'.pc = "h_free" /\ Top'.pid = Proc /\ Alike(Top, Top') /\ cpu.esp.sp \in Nat
    BY <1>1, <1>3, <2>1, GotoWithFacts, TopFrame
  <2>4. Private(D, O, Proc, cpu.esp.sp) /\ ParentsKept(D, O, L)
    BY <1>3, <2>3, OwnStack, LeafStack, NoParentOn
  <2>5. Started(Proc)'
    <3>1. SameFrame(pcb[Proc].parentESP)
      BY <1>3, <2>2, <2>3, LeafFrameKept
    <3>2. QED BY <1>3, <1>5, <2>1, <3>1 DEF Started, ParentFrame, FrameAt, SameFrame, tables
  <2>6. Calling(D, Now, cpu.esp)'
    <3>1. FrameAt(cpu.esp)' = Top'
      BY DEF FrameAt, Top
    <3>2. QED
      BY <1>3, <1>5, <2>1, <2>2, <2>3, <2>5, <3>1 DEF Calling, Alike, tables
  <2>7. Settled(D, O, L)'
    BY <1>3, <1>5, <2>1 DEF Settled, Topped, tables, screen, machine
  <2>8. Running(D, O, L)'
    BY <1>1, <2>3, <2>6, <2>7 DEF Running, InCall
  <2>9. \A p \in Pid : O[p] # Now /\ activeProccess[p] =>
          image'[p] = image[p] /\ arguments'[p] = arguments[p]
    BY <2>1 DEF machine
  <2>10. cpu'.mode # "crashed"
    BY <1>1, <2>3
  <2>11. QED BY <1>3, <2>1, <2>3, <2>4, <2>8, <2>9, <2>10, MachineStepSound
<1>8. QED BY <1>6, <1>7

\* halt of a base shell takes it off and calls execute again.
LEMMA HaltBaseTopSound ==
    ASSUME NEW D \in Depths, NEW O \in Owners, NEW L \in Leaves, Inv, Consistent(D, O, L),
           HaltBaseTop
    PROVE  Sound
<1>1. /\ cpu.mode = "kernel" /\ Top.pc = "b_top" /\ Goto("b_cnt")
      /\ pid_running_in_terminal' = [pid_running_in_terminal EXCEPT ![TerminalOf(Top.pid)] = NoPid]
      /\ UNCHANGED <<activeProccess, currentProccess, processPerTerminal, pcb, screen, machine>>
  BY DEF HaltBaseTop, TableStep, Step, At
<1>2. InRespawn(D, O)
  BY <1>1, Places
<1>3. /\ Top.pid = Now /\ cpu.esp.stk = Now /\ Empty(D, O) /\ ~activeProccess[Now]
      /\ TerminalOf(Now) = Now /\ processPerTerminal[Now] = 1 /\ pcb[Now].parentID = Now
      /\ D[Now] = 0 /\ Now \in Term /\ Now \in Pid
  BY <1>2, Values DEF InRespawn, Empty
<1>4. /\ Proc' = NoPid /\ Now' = Now /\ in_use' = in_use
      /\ \A u \in Term : u # Now => TopOf(u)' = TopOf(u)
  BY <1>1, <1>3 DEF Proc, TopOf, Now, screen, Inv, TypeOK
<1>5. /\ cpu' = cpu /\ Only(cpu.esp.stk, cpu.esp.sp)
      /\ Top'.pc = "b_cnt" /\ Top'.pid = Now /\ cpu.esp.sp \in Nat
  BY <1>1, <1>3, GotoFacts, TopFrame
<1>6. Elsewhere(D, O, L, D, O, L)
  BY <1>1, <1>4 DEF Elsewhere, machine
<1>7. InRespawn(D, O)'
  BY <1>1, <1>3, <1>4, <1>5 DEF InRespawn, Empty, TerminalOf
<1>8. Running(D, O, L)'
  BY <1>1, <1>5, <1>7 DEF Running
<1>9. Private(D, O, Now, cpu.esp.sp)
  BY <1>3, OwnStack
<1>10. UNCHANGED screen /\ Only(Now, cpu.esp.sp)
  BY <1>1, <1>3, <1>5
<1>11. cpu'.mode # "crashed" /\ \A p \in Pid : activeProccess'[p] => activeProccess[p]
  BY <1>1, <1>5
<1>12. QED BY <1>3, <1>5, <1>6, <1>8, <1>9, <1>10, <1>11, OnFree

LEMMA HaltBaseExecuteSound ==
    ASSUME NEW D \in Depths, NEW O \in Owners, NEW L \in Leaves, Inv, Consistent(D, O, L),
           HaltBaseExecute
    PROVE  Sound
<1> DEFINE ks == [kstack EXCEPT ![cpu.esp.stk][cpu.esp.sp].pc = "h_free"]
           f  == AFrame("e_alloc", NoPid, Shell, NoPid, Top.ifl)
<1>1. /\ cpu.mode = "kernel" /\ Top.pc = "b_cnt" /\ Enter(ks, cpu.esp, <<f>>)
      /\ processPerTerminal' = [processPerTerminal EXCEPT ![TerminalOf(Top.pid)] = @ - 1]
      /\ UNCHANGED <<activeProccess, currentProccess, pid_running_in_terminal, pcb, screen, machine>>
  BY DEF HaltBaseExecute, At
<1>2. InRespawn(D, O)
  BY <1>1, Places
<1>3. /\ Top.pid = Now /\ cpu.esp.stk = Now /\ Empty(D, O) /\ ~activeProccess[Now]
      /\ TerminalOf(Now) = Now /\ processPerTerminal[Now] = 1
      /\ D[Now] = 0 /\ Now \in Term /\ Now \in Pid /\ Proc = NoPid
  BY <1>1, <1>2, Values DEF InRespawn, Empty
<1>4. /\ Proc' = NoPid /\ Now' = Now /\ in_use' = in_use /\ processPerTerminal'[Now] = 0
      /\ \A u \in Term : u # Now => processPerTerminal'[u] = processPerTerminal[u]
  BY <1>1, <1>3 DEF Proc, TopOf, Now, screen, Inv, TypeOK
<1>5. /\ cpu.esp \in Esp /\ cpu.esp.sp \in 1 .. StackFrames /\ cpu.esp.sp \in Nat
      /\ Top.ifl \in BOOLEAN /\ StackFrames \in Nat
  BY <1>1, TopFrame, Values DEF Frame
<1>6. StacksOK(ks)
  BY <1>1, PcNames, GotoOK
<1>7. f \in Frame /\ f.pc = "e_alloc" /\ f.ret = NoPid /\ f.ifl = Top.ifl
  BY <1>5, PcNames, ProgramAssumption DEF AFrame, Frame
<1>8. \A q \in Pid, i \in 1 .. StackFrames : q # Now \/ i < cpu.esp.sp => ks[q][i] = kstack[q][i]
  BY <1>3, <1>5, Values DEF Stacks
<1> HIDE DEF ks, f
<1>9. \/ cpu' = Overflow /\ kstack' = ks
      \/ /\ cpu'.mode = "kernel" /\ cpu'.esp.stk = cpu.esp.stk /\ Top' = f
         /\ \A q \in Pid, i \in 1 .. StackFrames :
               q # cpu.esp.stk \/ i <= cpu.esp.sp => kstack'[q][i] = ks[q][i]
  BY <1>1, <1>5, <1>6, <1>7, PushFacts
<1>10. Only(Now, cpu.esp.sp)
  <2>1. \A i \in 1 .. StackFrames : i < cpu.esp.sp => i <= cpu.esp.sp
    BY <1>5
  <2>2. QED BY <1>3, <1>8, <1>9, <2>1 DEF Only
<1>11. Elsewhere(D, O, L, D, O, L)
  BY <1>1, <1>4 DEF Elsewhere, machine, TopOf
<1>12. \A k : Private(D, O, Now, k)
  BY <1>3, OwnStack
<1>13. ASSUME cpu'.mode = "kernel", cpu'.esp.stk = Now, Top' = f
       PROVE  Running(D, O, L)'
  <2>1. \A p \in Pid \ Term : D[p] # 0 => pcb[p].parentESP.stk # Now
    BY <1>3, <1>12, LeafStack DEF Private
  <2>2. PICK k : k = cpu'.esp.sp
    OBVIOUS
  <2>3. \A u \in Term : in_use[u] /\ u # Now /\ SavedAt(u).stk = Now => SavedAt(u).sp < k
    BY <1>12 DEF Private
  <2>4. \A u \in Term : SavedAt(u)' = SavedAt(u)
    BY <1>1 DEF SavedAt, TopOf
  <2>5. Free(D, cpu.esp.stk, cpu.esp.sp)'
    BY <1>1, <1>4, <1>13, <2>1, <2>2, <2>3, <2>4 DEF Free
  <2>6. OnFreeStack(D, cpu.esp)'
    BY <1>4, <1>13, <2>5 DEF OnFreeStack
  <2>7. InBaseStart(D, O)'
    BY <1>1, <1>3, <1>4, <1>7, <1>13, <2>6 DEF InBaseStart, Empty
  <2>8. QED BY <1>13, <2>7 DEF Running
<1>14. UNCHANGED screen
  BY <1>1
<1>15. \A p \in Pid : activeProccess'[p] => activeProccess[p]
  BY <1>1
<1>16. cpu'.mode # "crashed" /\ (Runs(cpu') => Running(D, O, L)')
  BY <1>3, <1>9, <1>13, StopCpus DEF Overflow
<1>17. QED BY <1>3, <1>5, <1>10, <1>11, <1>12, <1>14, <1>15, <1>16, OnFree

-----------------------------------------------------------------------------
(* halt by a child *)

\* The tree loses its deepest process c.
LEMMA ChildLeaves ==
    ASSUME NEW D \in Depths, NEW O \in Owners, NEW L \in Leaves, Inv, Consistent(D, O, L),
           Topped(D, O, L, Now), Proc \notin Term,
           NEW k \in Nat, Only(Proc, k),
           UNCHANGED <<pcb, screen>>,
           \A q \in Pid : q # Proc => activeProccess'[q] = activeProccess[q],
           NEW D2 \in Depths, D2[Proc] = 0, \A q \in Pid : q # Proc => D2[q] = D[q],
           NEW L2 \in Leaves, L2[Now] = pcb[Proc].parentID
    PROVE  Chain(D2, O, L2, Now)'
<1> DEFINE q == pcb[Proc].parentID
<1>1. /\ Proc \in Pid /\ L[Now] = Proc /\ D[Proc] # 0 /\ O[Proc] = Now /\ in_use[Now]
      /\ Now \in Term /\ Now' = Now /\ in_use' = in_use /\ (Booted' <=> Booted)
      /\ Chain(D, O, L, Now)
  BY Values DEF Topped, Proc, screen, Now, Booted, Consistent
<1>2. \A r \in Pid : D[r] \in Nat /\ D2[r] \in Nat
  BY DEF Depths
<1>3. /\ Child(D, O, Proc) /\ q \in Pid /\ D[q] # 0 /\ O[q] = Now /\ D[Proc] = D[q] + 1 /\ q # Proc
  <2>1. Child(D, O, Proc) /\ q \in Pid
    BY <1>1 DEF Chain, Member, Inv, TypeOK
  <2>2. QED BY <1>1, <1>2, <2>1 DEF Child
<1>4. \A r \in Pid \ Term : D[r] # 0 /\ O[r] = Now => SameFrame(pcb[r].parentESP)
  BY <1>1, FramesKept
<1> SUFFICES ASSUME NEW r \in Pid, D2[r] # 0, O[r] = Now
             PROVE  Member(D2, O, L2, Now, r)'
  BY <1>1 DEF Chain
<1>5. r # Proc /\ D[r] # 0 /\ D2[r] = D[r] /\ Member(D, O, L, Now, r)
  BY <1>1 DEF Chain
<1>6. D[r] <= D[q]
  <2>1. D[r] <= D[Proc] /\ D[r] # D[Proc]
    BY <1>1, <1>5 DEF Member
  <2>2. QED BY <1>2, <1>3, <2>1
<1>7. D2[L2[Now]] # 0 /\ O[L2[Now]] = Now /\ D2[r] <= D2[L2[Now]]
  BY <1>3, <1>5, <1>6
<1>8. \A x \in Pid : D2[x] = D2[r] /\ O[x] = Now => x = r
  <2>1. \A x \in Pid : D2[x] = D2[r] => D[x] = D[r]
    BY <1>5
  <2>2. QED BY <1>5, <2>1 DEF Member
<1>9. r \notin Term => ParentFrame(r)' = ParentFrame(r)
  BY <1>4, <1>5 DEF ParentFrame, FrameAt, SameFrame
<1>10. r \notin Term => Child(D2, O, r)'
  <2> SUFFICES ASSUME r \notin Term PROVE Child(D2, O, r)'
    OBVIOUS
  <2>1. Child(D, O, r) /\ pcb[r].parentID \in Pid
    BY <1>5 DEF Member, Inv, TypeOK
  <2>2. pcb[r].parentID # Proc
    BY <1>2, <1>3, <1>6, <2>1 DEF Child
  <2>3. QED BY <1>1, <1>5, <1>9, <2>1, <2>2 DEF Child
<1>11. Started(r)'
  BY <1>1, <1>5, <1>9 DEF Member, Started
<1>12. QED BY <1>1, <1>5, <1>7, <1>8, <1>10, <1>11 DEF Member, TerminalOf

\* halt gives the pid of a child free: from here on it has no depth.
LEMMA HaltFreeSound ==
    ASSUME NEW D \in Depths, NEW O \in Owners, NEW L \in Leaves, Inv, Consistent(D, O, L),
           HaltFree
    PROVE  Sound
<1> DEFINE q == pcb[Proc].parentID
<1>1. /\ cpu.mode = "kernel" /\ Top.pc = "h_free" /\ Goto("h_page")
      /\ activeProccess' = [activeProccess EXCEPT ![currentProccess] = FALSE]
      /\ UNCHANGED <<currentProccess, processPerTerminal, pid_running_in_terminal, pcb,
                     screen, machine>>
  BY DEF HaltFree, TableStep, Step, At
<1>2. InCall(D, O, L)
  BY <1>1, Places
<1>3. /\ Topped(D, O, L, Now) /\ currentProccess = Proc /\ Proc \in Pid /\ L[Now] = Proc
      /\ D[Proc] # 0 /\ O[Proc] = Now /\ D[Now] # 0 /\ O[Now] = Now /\ in_use[Now]
      /\ cpu.esp.stk = Proc /\ Top.pid = Proc /\ Proc \notin Term /\ Started(Proc) /\ Booted
      /\ processPerTerminal[Now] = D[Proc] /\ Now \in Term /\ Now \in Pid
  BY <1>1, <1>2, Values DEF InCall, Calling, Settled, Topped, Proc, FrameAt, Top
<1>4. /\ Proc' = Proc /\ Now' = Now /\ in_use' = in_use /\ (Booted' <=> Booted)
      /\ \A u \in Term : TopOf(u)' = TopOf(u)
  BY <1>1 DEF Proc, TopOf, Now, screen, Booted
<1>5. \A p \in Pid : p # Proc => activeProccess'[p] = activeProccess[p]
  BY <1>1, <1>3 DEF Inv, TypeOK
<1>6. /\ cpu' = cpu /\ Only(Proc, cpu.esp.sp)
      /\ Top'.pc = "h_page" /\ Top'.pid = Proc /\ cpu.esp.sp \in Nat
  BY <1>1, <1>3, GotoFacts, TopFrame
<1>7. /\ Member(D, O, L, Now, Proc) /\ Child(D, O, Proc) /\ q \in Pid
      /\ D[q] # 0 /\ O[q] = Now /\ D[Proc] = D[q] + 1 /\ D[q] \in Nat /\ q # Proc
  <2>1. Member(D, O, L, Now, Proc) /\ Child(D, O, Proc) /\ q \in Pid
    BY <1>3 DEF Consistent, Chain, Member, Inv, TypeOK
  <2>2. D[q] \in Nat
    BY <2>1 DEF Depths
  <2>3. QED BY <1>3, <2>1, <2>2 DEF Child
<1>8. PICK x \in Pid \ Term : x = Proc
  BY <1>3
<1>9. PICK t \in Term : t = Now
  BY <1>3
<1>10. PICK r \in Pid : r = q
  BY <1>7
<1> DEFINE D2 == [D EXCEPT ![x] = 0]
           L2 == [L EXCEPT ![t] = r]
<1>11. /\ D2 \in Depths /\ D2[Proc] = 0 /\ \A p \in Pid : p # Proc => D2[p] = D[p]
       /\ L2 \in Leaves /\ L2[Now] = q /\ \A u \in Term : u # Now => L2[u] = L[u]
  BY <1>8, <1>9, <1>10 DEF Depths, Leaves
<1> HIDE DEF D2, L2
<1>12. UNCHANGED <<pcb, screen>>
  BY <1>1
<1>13. Chain(D2, O, L2, Now)'
  BY <1>3, <1>5, <1>6, <1>11, <1>12, ChildLeaves
<1>14. Elsewhere(D, O, L, D2, O, L2)
  BY <1>1, <1>3, <1>4, <1>5, <1>11 DEF Elsewhere, machine
<1>15. \A p \in Pid \ Term : D[p] # 0 /\ O[p] = Now => SameFrame(pcb[p].parentESP)
  BY <1>3, <1>6, FramesKept
<1>16. ParentFrame(Proc)' = ParentFrame(Proc) /\ (q \notin Term => ParentFrame(q)' = ParentFrame(q))
  BY <1>1, <1>3, <1>4, <1>7, <1>15 DEF ParentFrame, FrameAt, SameFrame
<1>17. Started(q)
  BY <1>3, <1>7 DEF Consistent, Chain, Member
<1>18. Started(q)'
  BY <1>1, <1>4, <1>16, <1>17 DEF Started
<1>19. InHalt(D2, O, L2)'
  <2>1. TerminalOf(Proc)' = Now
    BY <1>1, <1>4, <1>7 DEF Member, TerminalOf
  <2>2. ParentFrame(Proc)'.ret = q /\ ParentFrame(Proc)'.pc = "IRET_OUT"
    BY <1>3, <1>7, <1>16 DEF Child, Started
  <2>3. pcb'[Proc].parentESP.stk = q /\ pcb'[Proc].parentESP.sp > 0 /\ pcb'[Proc].parentID = q
    BY <1>1, <1>7 DEF Child
  <2>4. D2[q] = D[q] /\ D2[Now] = D[Now]
    BY <1>3, <1>7, <1>11
  <2>5. Top'.pid = Proc /\ Top'.pc = "h_page"
    BY <1>6
  <2>6. processPerTerminal'[Now] = D2[q] + 1
    BY <1>1, <1>3, <1>7, <2>4
  <2>7. QED
    BY <1>3, <1>4, <1>6, <1>7, <1>11, <1>18, <2>1, <2>2, <2>3, <2>4, <2>5, <2>6 DEF InHalt
<1>20. Running(D2, O, L2)'
  BY <1>1, <1>6, <1>19 DEF Running
<1>21. Private(D, O, Proc, cpu.esp.sp)
  BY <1>3, OwnStack
<1>22. \A p \in Pid : activeProccess'[p] => activeProccess[p]
  BY <1>1, <1>3, <1>5 DEF Inv, TypeOK
<1>23. UNCHANGED screen /\ cpu'.mode # "crashed"
  BY <1>1, <1>6
<1>24. QED
  BY <1>3, <1>6, <1>11, <1>13, <1>14, <1>20, <1>21, <1>22, <1>23, LocalStep

\* The statements that hand the machine back to the parent.
LEMMA HandBackStep ==
    ASSUME NEW D \in Depths, NEW O \in Owners, NEW L \in Leaves, Inv, Consistent(D, O, L),
           InHalt(D, O, L), cpu.mode = "kernel",
           NEW to \in {"h_cur", "h_top", "h_tss", "h_cnt", "h_jmp"}, Goto(to),
           UNCHANGED <<activeProccess, pcb, image, arguments, screen>>,
           page_directory' = pcb[Top.pid].parentID,
           to # "h_cur" => currentProccess' = pcb[Top.pid].parentID,
           TopOf(Now)' = (IF to \in {"h_tss", "h_cnt", "h_jmp"} THEN pcb[Top.pid].parentID
                          ELSE Top.pid),
           to \in {"h_cnt", "h_jmp"} => tss_esp0'.stk = pcb[Top.pid].parentID,
           processPerTerminal'[Now] = (IF to = "h_jmp" THEN D[pcb[Top.pid].parentID]
                                       ELSE D[pcb[Top.pid].parentID] + 1),
           \A u \in Term : u # Now => TopOf(u)' = TopOf(u) /\ processPerTerminal'[u] = processPerTerminal[u]
    PROVE  Sound
<1> DEFINE c == Top.pid
           q == pcb[c].parentID
<1>1. /\ c \notin Term /\ D[c] = 0 /\ cpu.esp.stk = c /\ TerminalOf(c) = Now
      /\ in_use[Now] /\ L[Now] = q /\ D[q] # 0 /\ O[q] = Now /\ D[Now] # 0 /\ O[Now] = Now
      /\ Started(q) /\ Booted
      /\ pcb[c].parentESP.stk = q /\ pcb[c].parentESP.sp > 0
      /\ ParentFrame(c).ret = q /\ ParentFrame(c).pc = "IRET_OUT"
  BY DEF InHalt
<1>2. /\ cpu' = cpu /\ Only(c, cpu.esp.sp) /\ cpu.esp.sp \in Nat /\ c \in Pid /\ q \in Pid
      /\ Top'.pc = to /\ Top'.pid = c /\ Now \in Term
  BY <1>1, GotoFacts, TopFrame, Values DEF Inv, TypeOK
<1>3. Now' = Now /\ in_use' = in_use /\ (Booted' <=> Booted) /\ Proc' = TopOf(Now)'
  BY DEF Proc, TopOf, Now, screen, Booted
<1>4. Elsewhere(D, O, L, D, O, L)
  BY DEF Elsewhere
<1>5. \A p \in Pid : D[p] # 0 /\ O[p] = Now => activeProccess'[p]
  BY InTree
<1>6. SameMembers(D, O, L, D, O, L, Now)
  BY <1>3, <1>5 DEF SameMembers, SamePcb
<1>7. \A p \in Pid \ Term : D[p] # 0 /\ O[p] = Now => SameFrame(pcb[p].parentESP)
  BY <1>1, <1>2, FramesKept
<1>8. ParentsKept(D, O, L)
  BY <1>7 DEF ParentsKept
<1>9. SameFrame(pcb[c].parentESP)
  <2>1. q # c /\ pcb[c].parentESP \in Esp
    BY <1>1, <1>2 DEF Inv, TypeOK
  <2>2. pcb[c].parentESP.stk \in Pid /\ pcb[c].parentESP.sp \in 1 .. StackFrames
    BY <1>1, <2>1, EspValues
  <2>3. QED BY <1>1, <1>2, <2>1, <2>2 DEF Only, SameFrame
<1>10. ParentFrame(c)' = ParentFrame(c) /\ (q \notin Term => ParentFrame(q)' = ParentFrame(q))
  BY <1>1, <1>2, <1>7, <1>9 DEF ParentFrame, FrameAt, SameFrame
<1>11. Started(q)'
  BY <1>1, <1>2, <1>10 DEF Started
<1>12. InHalt(D, O, L)'
  <2>1. TerminalOf(c)' = Now /\ pcb'[c] = pcb[c]
    BY <1>1, <1>2 DEF TerminalOf
  <2>2. QED
    BY <1>1, <1>2, <1>3, <1>10, <1>11, <2>1 DEF InHalt
<1>13. Running(D, O, L)'
  BY <1>2, <1>12 DEF Running
<1>14. Private(D, O, c, cpu.esp.sp)
  BY <1>1, <1>2, OwnStack
<1>15. cpu'.mode # "crashed" /\ \A p \in Pid : activeProccess'[p] => activeProccess[p]
  BY <1>2
<1>16. UNCHANGED screen
  OBVIOUS
<1>17. QED
  BY <1>1, <1>2, <1>4, <1>6, <1>8, <1>13, <1>14, <1>15, <1>16, KeepStep

\* Where halt stands after each of its statements.
LEMMA HaltPlace ==
    ASSUME NEW D \in Depths, NEW O \in Owners, NEW L \in Leaves, Inv, Consistent(D, O, L),
           cpu.mode = "kernel", Top.pc \in {"h_page", "h_cur", "h_top", "h_tss", "h_cnt", "h_jmp"}
    PROVE  LET c == Top.pid
               q == pcb[c].parentID IN
           /\ InHalt(D, O, L) /\ c \in Pid /\ TerminalOf(c) = Now /\ Now \in Term
           /\ pcb[c].parentESP.stk = q
           /\ Top.pc # "h_page" => page_directory = q
           /\ Top.pc \notin {"h_page", "h_cur"} => currentProccess = q
           /\ TopOf(Now) = IF Top.pc \in {"h_tss", "h_cnt", "h_jmp"} THEN q ELSE c
           /\ Top.pc \in {"h_cnt", "h_jmp"} => tss_esp0.stk = q
           /\ processPerTerminal[Now] = IF Top.pc = "h_jmp" THEN D[q] ELSE D[q] + 1
<1>1. InHalt(D, O, L)
  BY Places
<1>2. Top.pid \in Pid /\ Now \in Term
  BY <1>1, TopFrame, Values DEF InHalt
<1>3. QED BY <1>1, <1>2 DEF InHalt, Proc

\* halt hands the machine back to the parent, statement by statement.
LEMMA HandBackSound ==
    ASSUME NEW D \in Depths, NEW O \in Owners, NEW L \in Leaves, Inv, Consistent(D, O, L),
           HaltPage \/ HaltCurrent \/ HaltTop \/ HaltTss \/ HaltCount
    PROVE  Sound
<1>1. CASE HaltPage
  <2>1. /\ cpu.mode = "kernel" /\ Top.pc = "h_page" /\ Goto("h_cur")
        /\ page_directory' = pcb[Top.pid].parentID
        /\ UNCHANGED <<tables, screen, image, arguments>>
    BY <1>1 DEF HaltPage, MachineStep, Step, At
  <2>2. UNCHANGED <<activeProccess, pcb, image, arguments, screen>> /\ \A u : TopOf(u)' = TopOf(u)
        /\ processPerTerminal' = processPerTerminal
    BY <2>1 DEF tables, TopOf
  <2>3. TopOf(Now)' = TopOf(Now)
    BY <2>1 DEF tables, screen, TopOf, Now
  <2>4. InHalt(D, O, L) /\ TopOf(Now) = Top.pid /\ processPerTerminal[Now] = D[pcb[Top.pid].parentID] + 1
    BY <2>1, HaltPlace
  <2>5. QED BY <2>1, <2>2, <2>3, <2>4, HandBackStep
<1>2. CASE HaltCurrent
  <2>1. /\ cpu.mode = "kernel" /\ Top.pc = "h_cur" /\ Goto("h_top")
        /\ currentProccess' = pcb[Top.pid].parentID
        /\ UNCHANGED <<activeProccess, processPerTerminal, pid_running_in_terminal, pcb,
                       screen, machine>>
    BY <1>2 DEF HaltCurrent, TableStep, Step, At
  <2>2. UNCHANGED <<activeProccess, pcb, image, arguments, screen>> /\ (\A u : TopOf(u)' = TopOf(u))
        /\ page_directory' = page_directory
    BY <2>1 DEF machine, TopOf
  <2>3. TopOf(Now)' = TopOf(Now)
    BY <2>1 DEF screen, TopOf, Now
  <2>4. /\ InHalt(D, O, L) /\ TopOf(Now) = Top.pid /\ page_directory = pcb[Top.pid].parentID
        /\ processPerTerminal[Now] = D[pcb[Top.pid].parentID] + 1
    BY <2>1, HaltPlace
  <2>5. QED BY <2>1, <2>2, <2>3, <2>4, HandBackStep
<1>3. CASE HaltTop
  <2>1. /\ cpu.mode = "kernel" /\ Top.pc = "h_top" /\ Goto("h_tss")
        /\ pid_running_in_terminal' =
             [pid_running_in_terminal EXCEPT ![TerminalOf(Top.pid)] = currentProccess]
        /\ UNCHANGED <<activeProccess, currentProccess, processPerTerminal, pcb, screen, machine>>
    BY <1>3 DEF HaltTop, TableStep, Step, At
  <2>2. /\ InHalt(D, O, L) /\ TerminalOf(Top.pid) = Now /\ Now \in Term
        /\ page_directory = pcb[Top.pid].parentID /\ currentProccess = pcb[Top.pid].parentID
        /\ processPerTerminal[Now] = D[pcb[Top.pid].parentID] + 1
    BY <2>1, HaltPlace
  <2>3. UNCHANGED <<activeProccess, pcb, image, arguments, screen>> /\ page_directory' = page_directory
        /\ Now' = Now
    BY <2>1 DEF machine, screen, Now
  <2>4. /\ TopOf(Now)' = pcb[Top.pid].parentID
        /\ \A u \in Term : u # Now => TopOf(u)' = TopOf(u)
    BY <2>1, <2>2, <2>3 DEF TopOf, Inv, TypeOK
  <2>5. QED BY <2>1, <2>2, <2>3, <2>4, HandBackStep
<1>4. CASE HaltTss
  <2>1. /\ cpu.mode = "kernel" /\ Top.pc = "h_tss" /\ Goto("h_cnt")
        /\ tss_esp0' = pcb[Top.pid].parentESP
        /\ UNCHANGED <<tables, screen, page_directory, image, arguments>>
    BY <1>4 DEF HaltTss, MachineStep, Step, At
  <2>2. UNCHANGED <<activeProccess, pcb, image, arguments, screen>> /\ (\A u : TopOf(u)' = TopOf(u))
        /\ processPerTerminal' = processPerTerminal /\ currentProccess' = currentProccess
    BY <2>1 DEF tables, TopOf
  <2>3. TopOf(Now)' = TopOf(Now)
    BY <2>1 DEF tables, screen, TopOf, Now
  <2>4. /\ InHalt(D, O, L) /\ TopOf(Now) = pcb[Top.pid].parentID
        /\ page_directory = pcb[Top.pid].parentID /\ currentProccess = pcb[Top.pid].parentID
        /\ pcb[Top.pid].parentESP.stk = pcb[Top.pid].parentID
        /\ processPerTerminal[Now] = D[pcb[Top.pid].parentID] + 1
    BY <2>1, HaltPlace
  <2>5. QED BY <2>1, <2>2, <2>3, <2>4, HandBackStep
<1>5. CASE HaltCount
  <2>1. /\ cpu.mode = "kernel" /\ Top.pc = "h_cnt" /\ Goto("h_jmp")
        /\ processPerTerminal' = [processPerTerminal EXCEPT ![TerminalOf(Top.pid)] = @ - 1]
        /\ UNCHANGED <<activeProccess, currentProccess, pid_running_in_terminal, pcb,
                       screen, machine>>
    BY <1>5 DEF HaltCount, TableStep, Step, At
  <2>2. /\ InHalt(D, O, L) /\ TerminalOf(Top.pid) = Now /\ Now \in Term
        /\ TopOf(Now) = pcb[Top.pid].parentID
        /\ page_directory = pcb[Top.pid].parentID /\ currentProccess = pcb[Top.pid].parentID
        /\ tss_esp0.stk = pcb[Top.pid].parentID
        /\ processPerTerminal[Now] = D[pcb[Top.pid].parentID] + 1
    BY <2>1, HaltPlace
  <2>3. UNCHANGED <<activeProccess, pcb, image, arguments, screen>> /\ (\A u : TopOf(u)' = TopOf(u))
        /\ page_directory' = page_directory /\ tss_esp0' = tss_esp0
    BY <2>1 DEF machine, TopOf
  <2>4. TopOf(Now)' = TopOf(Now)
    BY <2>1 DEF screen, TopOf, Now
  <2>5. D[pcb[Top.pid].parentID] \in Nat
    BY <2>1, <2>2, TopFrame, HaltPlace DEF Depths, Inv, TypeOK
  <2>6. /\ processPerTerminal'[Now] = D[pcb[Top.pid].parentID]
        /\ \A u \in Term : u # Now => processPerTerminal'[u] = processPerTerminal[u]
    BY <2>1, <2>2, <2>5 DEF Inv, TypeOK
  <2>7. QED BY <2>1, <2>2, <2>3, <2>4, <2>6, HandBackStep
<1>6. QED BY <1>1, <1>2, <1>3, <1>4, <1>5

\* The parent continues in its execute.
LEMMA HaltJumpSound ==
    ASSUME NEW D \in Depths, NEW O \in Owners, NEW L \in Leaves, Inv, Consistent(D, O, L),
           HaltJump
    PROVE  Sound
<1> DEFINE c == Top.pid
           q == pcb[c].parentID
           e == pcb[c].parentESP
<1>1. /\ cpu.mode = "kernel" /\ Top.pc = "h_jmp" /\ Resume(kstack, e, "IRET_OUT")
      /\ UNCHANGED <<tables, screen, machine>>
  BY DEF HaltJump, At
<1>2. InHalt(D, O, L) /\ c \in Pid
  BY <1>1, HaltPlace
<1>3. /\ in_use[Now] /\ L[Now] = q /\ D[q] # 0 /\ O[q] = Now /\ D[Now] # 0 /\ O[Now] = Now
      /\ Started(q) /\ Booted /\ e.stk = q /\ e.sp > 0 /\ FrameAt(e).ret = q
      /\ FrameAt(e).pc = "IRET_OUT" /\ page_directory = q /\ currentProccess = q
      /\ Proc = q /\ tss_esp0.stk = q /\ processPerTerminal[Now] = D[q]
  BY <1>1, <1>2 DEF InHalt, ParentFrame
<1>4. /\ e \in Esp /\ e.stk \in Pid /\ e.sp \in 1 .. StackFrames /\ e.sp \in Nat /\ q \in Pid
      /\ kstack \in Stacks /\ Now \in Term
  BY <1>2, <1>3, Values, EspValues DEF Inv, TypeOK
<1>5. kstack' = Written(kstack, e, <<>>) /\ cpu' = Kernel(e)
  BY <1>1, <1>3 DEF Resume, FrameAt
<1>6. /\ cpu'.mode = "kernel" /\ cpu'.esp = e
      /\ \A p \in Pid, i \in 1 .. StackFrames : p # q \/ i <= e.sp => kstack'[p][i] = kstack[p][i]
  BY <1>3, <1>4, <1>5, PopFacts DEF Kernel
<1>7. Only(q, e.sp) /\ Top' = FrameAt(e) /\ FrameAt(cpu.esp)' = FrameAt(e)
  <2>1. \A i \in 1 .. StackFrames : i < e.sp => i <= e.sp
    BY <1>4
  <2>2. e.sp <= e.sp
    BY <1>4
  <2>3. kstack'[e.stk][e.sp] = kstack[e.stk][e.sp]
    BY <1>4, <1>6, <2>2
  <2>4. QED BY <1>6, <2>1, <2>3 DEF Only, Top, FrameAt
<1>8. /\ Proc' = Proc /\ TopOf(Now)' = Proc /\ Now' = Now /\ (Booted' <=> Booted) /\ in_use' = in_use
  BY <1>1 DEF Proc, TopOf, Now, tables, screen, Booted
<1>9. ParentsKept(D, O, L) /\ Private(D, O, q, e.sp)
  BY <1>3, <1>4, <1>7, LeafStack, NoParentOn, OwnStack
<1>10. Topped(D, O, L, Now)
  BY <1>3, <1>4 DEF Topped, Proc
<1>11. Started(Proc)'
  <2>1. Proc \notin Term => SameFrame(pcb[Proc].parentESP)
    BY <1>3, <1>4, <1>7, <1>10, LeafFrameKept
  <2>2. QED BY <1>1, <1>3, <1>8, <2>1 DEF Started, ParentFrame, FrameAt, SameFrame, tables
<1>12. Settled(D, O, L)'
  BY <1>1, <1>3, <1>8, <1>10 DEF Settled, Topped, tables, screen, machine
<1>13. Calling(D, Now, cpu.esp)'
  BY <1>1, <1>3, <1>6, <1>7, <1>8, <1>11 DEF Calling, tables
<1>14. Running(D, O, L)'
  BY <1>6, <1>12, <1>13 DEF Running, InCall
<1>15. \A p \in Pid : O[p] # Now /\ activeProccess[p] =>
        image'[p] = image[p] /\ arguments'[p] = arguments[p]
  BY <1>1 DEF machine
<1>16. cpu'.mode # "crashed"
  BY <1>6
<1>17. UNCHANGED <<tables, screen>>
  BY <1>1
<1>18. QED BY <1>3, <1>4, <1>7, <1>9, <1>14, <1>15, <1>16, <1>17, MachineStepSound

-----------------------------------------------------------------------------
(* A terminal that is left, or resumed *)

\* What the handler of a switch at e returns to: the user mode of process
\* ret, or the frame below it.
Under(D, O, u, e, ret) ==
    /\ e.sp > 0 /\ D[e.stk] # 0 /\ O[e.stk] = u
    /\ \/ /\ ret = TopOf(u) /\ e.stk = TopOf(u) /\ Started(TopOf(u))
          /\ processPerTerminal[u] = D[TopOf(u)]
       \/ /\ ret = NoPid /\ e.sp > 1
          /\ \/ Calling(D, u, Below(e))
             \/ Starting(D, O, u, Below(e)) /\ FrameAt(Below(e)).pc \in {"e_init", "e_cur"}
             \/ Loading(D, u, Below(e)) /\ (FrameAt(Below(e)).pc = "e_args" => ~Undisturbed)

LEMMA ResumableIsUnder ==
    ASSUME NEW D, NEW O, NEW u, NEW e
    PROVE  Resumable(D, O, u, e) <=> FrameAt(e).pc = "switch" /\ Under(D, O, u, e, FrameAt(e).ret)
BY DEF Resumable, Under

\* The frames under the processes of terminal u are on stacks of its own.
LEMMA ParentsBelow ==
    ASSUME NEW D \in Depths, NEW O \in Owners, NEW L \in Leaves, Inv,
           NEW u \in Term, Chain(D, O, L, u), Topped(D, O, L, u),
           NEW p \in Pid \ Term, D[p] # 0, O[p] = u
    PROVE  LET e == pcb[p].parentESP
               x == TopOf(u) IN
           /\ e \in Esp /\ e.stk \in Pid /\ e.sp \in 1 .. StackFrames
           /\ D[e.stk] # 0 /\ O[e.stk] = u /\ e.stk # x /\ x \notin Term
           /\ e.stk = pcb[x].parentESP.stk => p = x
<1> DEFINE e == pcb[p].parentESP
           q == pcb[p].parentID
           x == TopOf(u)
<1>1. Member(D, O, L, u, p) /\ Child(D, O, p) /\ e \in Esp /\ q \in Pid
  BY DEF Chain, Member, Inv, TypeOK
<1>2. x \in Pid /\ D[x] # 0 /\ O[x] = u /\ L[u] = x /\ Member(D, O, L, u, x)
  BY DEF Topped, Chain
<1>3. /\ e.stk = q /\ e.sp > 0 /\ D[p] = D[q] + 1 /\ D[q] # 0 /\ O[q] = u
      /\ D[p] \in Nat /\ D[q] \in Nat /\ D[x] \in Nat /\ D[p] <= D[x]
  BY <1>1, <1>2 DEF Child, Member, Depths
<1>4. e.stk # x /\ x \notin Term
  BY <1>2, <1>3 DEF Member
<1>5. ASSUME e.stk = pcb[x].parentESP.stk PROVE p = x
  <2>1. Child(D, O, x)
    BY <1>2, <1>4 DEF Member
  <2>2. D[x] = D[q] + 1
    BY <1>3, <1>5, <2>1 DEF Child
  <2>3. QED BY <1>1, <1>2, <1>3, <2>2 DEF Member
<1>6. e.stk \in Pid /\ e.sp \in 1 .. StackFrames
  BY <1>1, <1>3, EspValues
<1>7. QED BY <1>1, <1>3, <1>4, <1>5, <1>6

\* A switch leaves the process tables alone.
Moved ==
    /\ UNCHANGED <<activeProccess, processPerTerminal, pid_running_in_terminal, image, arguments>>
    /\ \A p \in Pid : SamePcb(p)
    /\ Booted => Booted'
    /\ \A u \in Term : in_use[u] => in_use'[u]

\* The stacks of terminal u change only at e and above.
StacksOf(D, O, u, e) ==
    \A q \in Pid, i \in 1 .. StackFrames :
        D[q] # 0 /\ O[q] = u /\ (q # e.stk \/ i < e.sp) => kstack'[q][i] = kstack[q][i]

\* The switch handler's own frames do not disturb what they lie on.
LEMMA UnderKept ==
    ASSUME NEW D \in Depths, NEW O \in Owners, NEW L \in Leaves, Inv,
           NEW u \in Term, Chain(D, O, L, u), Topped(D, O, L, u),
           NEW e \in Esp, NEW ret, Under(D, O, u, e, ret),
           Moved, StacksOf(D, O, u, e)
    PROVE  Chain(D, O, L, u)' /\ Topped(D, O, L, u)' /\ Under(D, O, u, e, ret)'
<1> DEFINE x == TopOf(u)
           b == Below(e)
<1>1. /\ x \in Pid /\ D[x] # 0 /\ O[x] = u /\ L[u] = x /\ in_use[u] /\ in_use'[u]
      /\ TopOf(u)' = x /\ u \in Pid
  BY Sizes DEF Topped, Moved, TopOf
<1>2. /\ e.stk \in Pid /\ e.sp \in 1 .. StackFrames /\ e.sp \in Nat
      /\ b.stk = e.stk /\ b.sp = e.sp - 1 /\ D[e.stk] # 0 /\ O[e.stk] = u
  BY EspValues DEF Under, Below, Esp
<1>3. e.sp > 1 => b.sp \in 1 .. StackFrames /\ b.sp < e.sp
  BY <1>2, Values
<1>4. e.sp > 1 => kstack'[b.stk][b.sp] = kstack[b.stk][b.sp] /\ FrameAt(b)' = FrameAt(b)
  BY <1>2, <1>3 DEF StacksOf, FrameAt
<1>5. e.stk = x \/ (Loading(D, u, b) /\ pcb[x].parentESP = b /\ e.sp > 1)
  BY <1>2 DEF Under, Calling, Starting, Loading
<1>6. ASSUME NEW p \in Pid \ Term, D[p] # 0, O[p] = u
      PROVE  SameFrame(pcb[p].parentESP)
  <2> DEFINE f == pcb[p].parentESP
  <2>1. /\ f \in Esp /\ f.stk \in Pid /\ f.sp \in 1 .. StackFrames
        /\ D[f.stk] # 0 /\ O[f.stk] = u /\ f.stk # x
        /\ (f.stk = pcb[x].parentESP.stk => p = x)
    BY <1>6, ParentsBelow
  <2>2. f.stk # e.stk \/ f = b
    BY <1>2, <1>5, <2>1
  <2>3. CASE f.stk # e.stk
    BY <2>1, <2>3 DEF StacksOf, SameFrame
  <2>4. CASE f = b /\ f.stk = e.stk
    <3>1. e.sp > 1
      BY <1>5, <2>1, <2>4
    <3>2. QED BY <1>4, <2>4, <3>1 DEF SameFrame
  <2>5. QED BY <2>2, <2>3, <2>4
<1>7. \A p \in Pid : D[p] # 0 /\ O[p] = u => activeProccess[p] /\ activeProccess'[p]
  BY DEF Chain, Member, Moved
<1>8. SameMembers(D, O, L, D, O, L, u)
  BY <1>1, <1>7 DEF SameMembers, Moved
<1>9. Chain(D, O, L, u)'
  <2>1. \A p \in Pid \ Term : D[p] # 0 /\ O[p] = u =>
          LET f == pcb[p].parentESP IN
               \/ SameFrame(f)
               \/ /\ p = L[u] /\ kstack'[f.stk][f.sp].ret = FrameAt(f).ret
                  /\ kstack'[f.stk][f.sp].pc \in LoadPcs \cup {"IRET_OUT"}
    BY <1>6
  <2>2. QED BY <1>8, <2>1, ChainKept
<1>10. Topped(D, O, L, u)'
  BY <1>1 DEF Topped
<1>11. Started(x)' <=> Started(x)
  <2>1. x \notin Term => SameFrame(pcb[x].parentESP)
    BY <1>1, <1>6
  <2>2. SamePcb(x)
    BY <1>1 DEF Moved
  <2>3. QED BY <1>1, <2>1, <2>2 DEF Started, ParentFrame, FrameAt, SameFrame, SamePcb
<1>12. Calling(D, u, b) /\ e.sp > 1 => Calling(D, u, b)'
  BY <1>1, <1>4, <1>11 DEF Calling, Moved
<1>13. Starting(D, O, u, b) /\ e.sp > 1 => Starting(D, O, u, b)'
  <2> SUFFICES ASSUME Starting(D, O, u, b), e.sp > 1 PROVE Starting(D, O, u, b)'
    OBVIOUS
  <2>1. FrameAt(b)' = FrameAt(b) /\ FrameAt(b).pid \in Pid /\ SamePcb(FrameAt(b).pid)
    BY <1>4 DEF Starting, Moved
  <2>2. QED BY <1>1, <1>11, <2>1 DEF Starting, Moved, SamePcb, TerminalOf
<1>14. Loading(D, u, b) /\ e.sp > 1 => Loading(D, u, b)'
  BY <1>1, <1>4 DEF Loading, Copied, Undisturbed, Moved, SamePcb
<1>15. processPerTerminal' = processPerTerminal
  BY DEF Moved
<1>16. Under(D, O, u, e, ret)'
  BY <1>1, <1>2, <1>4, <1>11, <1>12, <1>13, <1>14, <1>15 DEF Under, Undisturbed
<1>17. QED BY <1>9, <1>10, <1>16

\* What a switch may interrupt.
LEMMA SwitchContext ==
    ASSUME NEW D \in Depths, NEW O \in Owners, NEW L \in Leaves, Inv, Consistent(D, O, L),
           Interruptible, SwitchPoints \subseteq CalmPoints
    PROVE  \/ InIdle(D) /\ cpu.mode = "kernel"
           \/ /\ Topped(D, O, L, Now) /\ currentProccess = Proc
              /\ InterruptedEsp.stk \in Pid /\ InterruptedEsp.sp \in Nat
              /\ D[InterruptedEsp.stk] # 0 /\ O[InterruptedEsp.stk] = Now
              /\ InterruptedEsp.sp + 1 <= StackFrames =>
                   SavedEsp \in Esp /\ Under(D, O, Now, SavedEsp, SwitchFrame.ret)
              /\ SavedEsp.stk = InterruptedEsp.stk /\ SavedEsp.sp = InterruptedEsp.sp + 1
<1> DEFINE e == InterruptedEsp
<1>0. e \in Esp /\ e.stk \in Pid /\ e.sp \in Nat /\ StackFrames \in Nat
  BY SwitchFacts, EspValues, Values
<1>1. /\ SavedEsp.stk = e.stk /\ SavedEsp.sp = e.sp + 1 /\ Below(SavedEsp) = e
      /\ (e.sp + 1 <= StackFrames => SavedEsp \in Esp)
  <2>1. e = [stk |-> e.stk, sp |-> e.sp]
    BY <1>0 DEF Esp
  <2>2. SavedEsp = [stk |-> e.stk, sp |-> e.sp + 1]
    BY <2>1 DEF SavedEsp
  <2>3. (e.sp + 1) - 1 = e.sp
    BY <1>0
  <2>4. Below(SavedEsp) = e
    BY <2>1, <2>2, <2>3 DEF Below
  <2>5. e.sp + 1 <= StackFrames => SavedEsp \in Esp
    BY <1>0, <2>2 DEF Esp
  <2>6. QED BY <2>2, <2>4, <2>5
<1>2. CASE InUser
  <2>1. InProgram(D, O, L)
    BY <1>2, UserPlace
  <2>2. e = tss_esp0 /\ SwitchFrame.ret = cpu.proc
    BY <1>2 DEF InterruptedEsp, SwitchFrame, AFrame
  <2>3. /\ Topped(D, O, L, Now) /\ currentProccess = Proc /\ e.stk = Proc /\ D[Proc] # 0 /\ O[Proc] = Now
        /\ SwitchFrame.ret = Proc /\ Started(Proc) /\ processPerTerminal[Now] = D[Proc]
    BY <2>1, <2>2 DEF InProgram, Settled, Topped, Proc
  <2>4. Under(D, O, Now, SavedEsp, SwitchFrame.ret)
    BY <1>0, <1>1, <2>3 DEF Under, Proc
  <2>5. QED BY <1>0, <1>1, <2>3, <2>4
<1>3. CASE ~InUser
  <2>1. /\ cpu.mode = "kernel" /\ Top.ifl /\ Top.pc \in CalmPoints
        /\ ~(Proc = NoPid /\ in_use[Now]) /\ (Top.pc = "e_args" => ~Undisturbed)
    BY <1>3 DEF Interruptible, CalmPoints, Undisturbed, Proc, TopOf, Now
  <2>2. /\ e = cpu.esp /\ SwitchFrame.ret = NoPid /\ e.sp > 0
    BY <1>3, <2>1, TopFrame DEF InterruptedEsp, SwitchFrame, AFrame
  <2>3. SavedEsp.sp > 1
    BY <1>0, <1>1, <2>2
  <2>4. ASSUME InCall(D, O, L)
        PROVE  /\ Topped(D, O, L, Now) /\ currentProccess = Proc
               /\ D[e.stk] # 0 /\ O[e.stk] = Now /\ Calling(D, Now, e)
    BY <2>2, <2>4 DEF InCall, Settled, Calling, Topped, Proc
  <2>5. ASSUME InStart(D, O, L)
        PROVE  /\ Topped(D, O, L, Now) /\ currentProccess = Proc
               /\ D[e.stk] # 0 /\ O[e.stk] = Now /\ Starting(D, O, Now, e)
               /\ FrameAt(e).pc \in {"e_init", "e_cur"}
    BY <2>1, <2>2, <2>5 DEF InStart, Starting, Topped, Proc, FrameAt, Top, CalmPoints
  <2>6. ASSUME InLoad(D, O, L)
        PROVE  /\ Topped(D, O, L, Now) /\ currentProccess = Proc
               /\ D[e.stk] # 0 /\ O[e.stk] = Now /\ Loading(D, Now, e)
               /\ (FrameAt(e).pc = "e_args" => ~Undisturbed)
    <3>0. FrameAt(e).pc = "e_args" => ~Undisturbed
      BY <2>1, <2>2 DEF FrameAt, Top
    <3>1. /\ Topped(D, O, L, Now) /\ currentProccess = Proc /\ Loading(D, Now, e)
          /\ pcb[Proc].parentESP = e /\ (Proc \in Term => e.stk = Now) /\ Proc \in Pid
          /\ D[Proc] # 0 /\ O[Proc] = Now /\ D[Now] # 0 /\ O[Now] = Now
      BY <2>1, <2>2, <2>6 DEF InLoad, Loading, Topped, Proc, OnFreeStack, FrameAt, Top
    <3>2. CASE Proc \in Term
      BY <3>0, <3>1, <3>2
    <3>3. CASE Proc \notin Term
      <4>1. pcb[Proc].parentESP.stk = e.stk /\ D[e.stk] # 0 /\ O[e.stk] = Now
        BY <3>1, <3>3, Values, ParentsBelow DEF Consistent
      <4>2. QED BY <3>0, <3>1, <4>1
    <3>4. QED BY <3>2, <3>3
  <2>7. ~InSwitch(D, O, L) /\ ~InBaseStart(D, O) /\ ~InRespawn(D, O) /\ ~InHalt(D, O, L)
    BY <2>1 DEF InSwitch, Resumable, FrameAt, Top, InBaseStart, Empty, InRespawn, InHalt, CalmPoints
  <2>8. InCall(D, O, L) \/ InStart(D, O, L) \/ InLoad(D, O, L) \/ InIdle(D)
    BY <2>1, <2>7 DEF Consistent, Running
  <2>9. ASSUME D[e.stk] # 0, O[e.stk] = Now,
               \/ Calling(D, Now, e)
               \/ Starting(D, O, Now, e) /\ FrameAt(e).pc \in {"e_init", "e_cur"}
               \/ Loading(D, Now, e) /\ (FrameAt(e).pc = "e_args" => ~Undisturbed)
        PROVE  Under(D, O, Now, SavedEsp, SwitchFrame.ret)
    BY <1>0, <1>1, <2>2, <2>3, <2>9 DEF Under
  <2>10. QED BY <1>0, <1>1, <2>1, <2>4, <2>5, <2>6, <2>8, <2>9
<1>4. QED BY <1>2, <1>3

-----------------------------------------------------------------------------
LEMMA ParkedAt ==
    ASSUME NEW D \in Depths, NEW O \in Owners, NEW L \in Leaves, Inv,
           NEW u \in Term, Chain(D, O, L, u), Topped(D, O, L, u),
           NEW e \in Esp, NEW ret, Under(D, O, u, e, ret),
           Moved, StacksOf(D, O, u, e), SavedAt(u)' = e,
           kstack'[e.stk][e.sp].pc = "switch", kstack'[e.stk][e.sp].ret = ret
    PROVE  Chain(D, O, L, u)' /\ Parked(D, O, L, u)'
<1>1. Chain(D, O, L, u)' /\ Topped(D, O, L, u)' /\ Under(D, O, u, e, ret)'
  BY UnderKept
<1>2. Resumable(D, O, u, e)'
  BY <1>1 DEF Under, Resumable, FrameAt
<1>3. QED BY <1>1, <1>2 DEF Parked

\* A terminal off the screen that stays there.
LEMMA ParkedStays ==
    ASSUME NEW D \in Depths, NEW O \in Owners, NEW L \in Leaves, Inv, Consistent(D, O, L),
           NEW u \in Term, u # Now, in_use[u], Moved,
           SavedAt(u)' = SavedAt(u),
           \A q \in Pid, i \in 1 .. StackFrames :
              D[q] # 0 /\ O[q] = u => kstack'[q][i] = kstack[q][i]
    PROVE  Chain(D, O, L, u)' /\ Parked(D, O, L, u)' /\ Intact(u)
<1> DEFINE e == SavedAt(u)
<1>1. Parked(D, O, L, u) /\ Chain(D, O, L, u)
  BY DEF Consistent, Others
<1>2. Topped(D, O, L, u) /\ Resumable(D, O, u, e)
  BY <1>1 DEF Parked
<1>3. Under(D, O, u, e, FrameAt(e).ret) /\ FrameAt(e).pc = "switch"
  BY <1>2, ResumableIsUnder
<1>4. e \in Esp /\ D[e.stk] # 0 /\ O[e.stk] = u /\ e.sp > 0
  BY <1>2, <1>3 DEF Topped, SavedAt, TopOf, Inv, TypeOK, Under
<1>5. e.stk \in Pid /\ e.sp \in 1 .. StackFrames
  BY <1>4, EspValues
<1>6. kstack'[e.stk][e.sp] = FrameAt(e)
  BY <1>4, <1>5 DEF FrameAt
<1>7. StacksOf(D, O, u, e)
  BY DEF StacksOf
<1> HIDE DEF e
<1>8. PICK f : f = e
  OBVIOUS
<1>9. PICK r : r = FrameAt(e).ret
  OBVIOUS
<1>10. Chain(D, O, L, u)' /\ Parked(D, O, L, u)'
  <2>1. f \in Esp /\ Under(D, O, u, f, r) /\ StacksOf(D, O, u, f) /\ SavedAt(u)' = f
    BY <1>3, <1>4, <1>7, <1>8, <1>9 DEF e
  <2>2. kstack'[f.stk][f.sp].pc = "switch" /\ kstack'[f.stk][f.sp].ret = r
    BY <1>3, <1>6, <1>8, <1>9
  <2>3. QED BY <1>1, <1>2, <2>1, <2>2, ParkedAt
<1>11. Intact(u)
  BY <1>4, <1>6 DEF Intact, SameFrame, FrameAt, Moved, TopOf, e
<1>12. QED BY <1>10, <1>11

\* Two frames are pushed, or they do not fit.
LEMMA TwoPushed ==
    ASSUME Inv, NEW e \in Esp, NEW g \in Frame, NEW f \in Frame, Enter(kstack, e, <<g, f>>)
    PROVE  \/ cpu' = Overflow /\ kstack' = kstack /\ ~(e.sp + 2 <= StackFrames)
           \/ /\ cpu'.mode = "kernel" /\ cpu'.esp.stk = e.stk /\ cpu'.esp.sp = e.sp + 2
              /\ e.sp + 2 <= StackFrames /\ Top' = f /\ kstack'[e.stk][e.sp + 1] = g
              /\ \A q \in Pid, i \in 1 .. StackFrames :
                    q # e.stk \/ i <= e.sp => kstack'[q][i] = kstack[q][i]
<1> DEFINE fs == <<g, f>>
<1>1. fs \in Seq(Frame) /\ Len(fs) = 2 /\ fs[1] = g /\ fs[2] = f /\ kstack \in Stacks
  BY Values
<1>2. e.stk \in Pid /\ e.sp \in 0 .. StackFrames /\ e.sp \in Nat /\ StackFrames \in Nat
  BY EspValues, Values
<1>3. Enter(kstack, e, fs)
  OBVIOUS
<1> HIDE DEF fs
<1>4. CASE e.sp + 2 <= StackFrames
  <2>1. kstack' = Written(kstack, e, fs) /\ cpu' = Kernel([e EXCEPT !.sp = @ + 2])
    BY <1>1, <1>3, <1>4 DEF Enter
  <2>2. cpu'.mode = "kernel" /\ cpu'.esp.stk = e.stk /\ cpu'.esp.sp = e.sp + 2
    BY <2>1 DEF Kernel, Esp
  <2>3. 1 \in 1 .. Len(fs) /\ 2 \in 1 .. Len(fs) /\ e.sp + 1 <= StackFrames
    BY <1>1, <1>2, <1>4
  <2>4. kstack'[e.stk][e.sp + 1] = g /\ kstack'[e.stk][e.sp + 2] = f
    BY <1>1, <1>4, <2>1, <2>3, WrittenFacts
  <2>5. \A q \in Pid, i \in 1 .. StackFrames :
          q # e.stk \/ i <= e.sp => kstack'[q][i] = kstack[q][i]
    BY <1>1, <2>1, WrittenFacts
  <2>6. QED BY <1>4, <2>2, <2>4, <2>5 DEF Top
<1>5. CASE ~(e.sp + 2 <= StackFrames)
  BY <1>1, <1>3, <1>5 DEF Enter
<1>6. QED BY <1>4, <1>5

\* The PIT tick that opens terminal t, and the key that shows it again.
LEMMA CreateSound ==
    ASSUME NEW D \in Depths, NEW O \in Owners, NEW L \in Leaves, Inv, Consistent(D, O, L),
           Interruptible, SwitchPoints \subseteq CalmPoints,
           NEW t \in Term, t = pit_interrupt_count, pit_interrupt_count' = t + 1,
           CreateTerminal(t)
    PROVE  Sound
<1> DEFINE e == InterruptedEsp
           f == AFrame("e_alloc", NoPid, Shell, NoPid, FALSE)
<1>1. /\ e \in Esp /\ e.stk \in Pid /\ e.sp \in Nat /\ SwitchFrame \in Frame
      /\ SwitchFrame.pc = "switch" /\ StackFrames \in Nat /\ t \in Pid /\ t \in Nat
      /\ MAX_TERMINAL_NUMBER \in Nat /\ t < MAX_TERMINAL_NUMBER
  BY SwitchFacts, EspValues, Values, Sizes, TableAssumption DEF Term
<1>2. /\ ~in_use[t] /\ in_use' = [in_use EXCEPT ![t] = TRUE] /\ Now' = t
      /\ Enter(kstack, e, <<SwitchFrame, f>>)
      /\ pcb' = IF e.sp + 2 <= StackFrames THEN [pcb EXCEPT ![Now].processESP = SavedEsp] ELSE pcb
      /\ UNCHANGED <<activeProccess, currentProccess, processPerTerminal,
                     pid_running_in_terminal, machine, execs>>
  BY DEF CreateTerminal, CreateSavesIn, Now
<1>3. f \in Frame /\ f.pc = "e_alloc" /\ f.ret = NoPid /\ f.ifl = FALSE
  BY PcNames, ProgramAssumption DEF AFrame, Frame
<1> HIDE DEF f
<1>4. \/ cpu' = Overflow /\ kstack' = kstack /\ ~(e.sp + 2 <= StackFrames)
      \/ /\ cpu'.mode = "kernel" /\ cpu'.esp.stk = e.stk /\ cpu'.esp.sp = e.sp + 2
         /\ e.sp + 2 <= StackFrames /\ Top' = f /\ kstack'[e.stk][e.sp + 1] = SwitchFrame
         /\ \A q \in Pid, i \in 1 .. StackFrames :
               q # e.stk \/ i <= e.sp => kstack'[q][i] = kstack[q][i]
  BY <1>1, <1>2, <1>3, TwoPushed
<1>5. ~Booted /\ \A p \in Pid : D[p] # 0 => p \in Term /\ O[p] = p /\ in_use[p] /\ D[p] = 1
  <2>1. ~Booted
    BY <1>1 DEF Booted
  <2>2. ASSUME NEW p \in Pid, D[p] # 0 PROVE p \in Term /\ O[p] = p /\ in_use[p] /\ D[p] = 1
    <3>1. Member(D, O, L, O[p], p)
      BY <2>2, InTree
    <3>2. p \in Term
      BY <2>1, <3>1 DEF Member, Child
    <3>3. QED BY <3>1, <3>2 DEF Member
  <2>3. QED BY <2>1, <2>2
<1>6. /\ \A u \in Term : Counts(u)
      /\ TopOf(t) = NoPid /\ ~activeProccess[t] /\ processPerTerminal[t] = 0
      /\ D[t] = 0 /\ \A p \in Pid : D[p] # 0 => O[p] # t
  BY <1>1, <1>2, <1>5 DEF Consistent, Counts
<1>7. /\ \A u \in Term : u # t => (in_use'[u] <=> in_use[u])
      /\ in_use'[t] /\ in_use' \in [Term -> BOOLEAN]
  BY <1>2 DEF Inv, TypeOK
<1>8. /\ \A q \in Pid : SamePcb(q) /\ (q # Now => pcb'[q] = pcb[q])
      /\ (e.sp + 2 <= StackFrames => pcb'[Now].processESP = SavedEsp)
  BY <1>2, Values DEF SamePcb, Inv, TypeOK
<1>9. Moved
  BY <1>2, <1>5, <1>7, <1>8 DEF Moved, machine
<1>10. \A u \in Term : Counts(u)'
  <2> SUFFICES ASSUME NEW u \in Term PROVE Counts(u)'
    OBVIOUS
  <2>1. Counts(u) /\ TopOf(u)' = TopOf(u) /\ u \in Nat
    BY <1>2, <1>6 DEF TopOf, Term
  <2>2. (u < t + 1) <=> (u < t \/ u = t)
    BY <1>1, <2>1
  <2>3. in_use'[u] <=> u < pit_interrupt_count'
    BY <1>7, <2>1, <2>2 DEF Counts
  <2>4. ~in_use'[u] => TopOf(u)' = NoPid /\ ~activeProccess'[u] /\ processPerTerminal'[u] = 0
    BY <1>2, <1>7, <2>1 DEF Counts
  <2>5. QED BY <2>3, <2>4 DEF Counts
<1>11. \A p \in Pid \ Term : activeProccess'[p] => Booted'
  BY <1>2, <1>5 DEF Consistent
<1>12. \/ pit_interrupt_count = 0 /\ \A p \in Pid : D[p] = 0
       \/ /\ Topped(D, O, L, Now) /\ Proc = Now /\ D[Now] # 0 /\ e.stk = Now /\ Now \in Pid
          /\ e.sp + 1 <= StackFrames =>
                 SavedEsp \in Esp /\ Under(D, O, Now, SavedEsp, SwitchFrame.ret)
          /\ SavedEsp.stk = e.stk /\ SavedEsp.sp = e.sp + 1
  <2>1. CASE InIdle(D)
    BY <2>1 DEF InIdle
  <2>2. CASE ~InIdle(D)
    <3>1. /\ Topped(D, O, L, Now) /\ D[e.stk] # 0 /\ O[e.stk] = Now
          /\ e.sp + 1 <= StackFrames =>
                 SavedEsp \in Esp /\ Under(D, O, Now, SavedEsp, SwitchFrame.ret)
          /\ SavedEsp.stk = e.stk /\ SavedEsp.sp = e.sp + 1
      BY <2>2, SwitchContext
    <3>2. D[Proc] # 0 /\ O[Proc] = Now /\ Proc \in Pid /\ D[Now] # 0
      BY <3>1 DEF Topped, Proc
    <3>3. QED BY <1>1, <1>5, <3>1, <3>2, Values
  <2>3. QED BY <2>1, <2>2
<1>13. ASSUME NEW u \in Term, in_use[u], u # Now, e.sp + 2 <= StackFrames
       PROVE  Chain(D, O, L, u)' /\ Parked(D, O, L, u)' /\ Intact(u) /\ SavedAt(u).stk = u
  <2>1. Parked(D, O, L, u)
    BY <1>13 DEF Consistent, Others
  <2>2. /\ TopOf(u) \in Pid /\ D[TopOf(u)] # 0 /\ O[TopOf(u)] = u
        /\ D[SavedAt(u).stk] # 0 /\ O[SavedAt(u).stk] = u /\ SavedAt(u).stk \in Pid
    <3>1. TopOf(u) \in Pid /\ D[TopOf(u)] # 0 /\ O[TopOf(u)] = u
      BY <2>1 DEF Parked, Topped
    <3>2. SavedAt(u) \in Esp
      BY <3>1 DEF SavedAt, TopOf, Inv, TypeOK
    <3>3. QED BY <2>1, <3>1, <3>2, EspValues DEF Parked, Resumable
  <2>3. TopOf(u) = u /\ SavedAt(u).stk = u
    BY <1>5, <2>2
  <2>4. SavedAt(u)' = SavedAt(u)
    BY <1>2, <1>8, <1>13, <2>2, <2>3 DEF SavedAt, TopOf
  <2>5. e.stk # u
    BY <1>12, <1>13, <2>2
  <2>6. \A q \in Pid, i \in 1 .. StackFrames :
          D[q] # 0 /\ O[q] = u => kstack'[q][i] = kstack[q][i]
    BY <1>4, <1>5, <1>13, <2>5
  <2>7. QED BY <1>9, <1>13, <2>3, <2>4, <2>6, ParkedStays
<1>14. ASSUME in_use[Now], e.sp + 2 <= StackFrames
       PROVE  \E u \in Term : u = Now /\ Chain(D, O, L, u)' /\ Parked(D, O, L, u)'
                              /\ SavedAt(u)' = SavedEsp /\ e.stk = u
  <2>1. /\ Topped(D, O, L, Now) /\ Proc = Now /\ D[Now] # 0 /\ e.stk = Now
        /\ SavedEsp.stk = e.stk /\ SavedEsp.sp = e.sp + 1
        /\ SavedEsp \in Esp /\ Under(D, O, Now, SavedEsp, SwitchFrame.ret)
    <3>1. ~(pit_interrupt_count = 0)
      BY <1>6, <1>14, Values DEF Counts, Term
    <3>2. e.sp + 1 <= StackFrames
      BY <1>1, <1>14
    <3>3. QED BY <1>12, <3>1, <3>2
  <2>2. PICK u \in Term : u = Now
    BY Values
  <2>3. PICK s \in Esp : s = SavedEsp
    BY <2>1
  <2>4. PICK r : r = SwitchFrame.ret
    OBVIOUS
  <2>5. SavedAt(u)' = s
    BY <1>2, <1>8, <1>14, <2>1, <2>2, <2>3 DEF SavedAt, TopOf, Proc
  <2>6. kstack'[s.stk][s.sp].pc = "switch" /\ kstack'[s.stk][s.sp].ret = r
    BY <1>1, <1>4, <1>14, <2>1, <2>3, <2>4
  <2>7. StacksOf(D, O, u, s)
    <3>1. \A i \in 1 .. StackFrames : i < e.sp + 1 => i <= e.sp
      BY <1>1
    <3>2. QED BY <1>4, <1>14, <2>1, <2>3, <3>1 DEF StacksOf
  <2>8. Chain(D, O, L, u) /\ Topped(D, O, L, u) /\ Under(D, O, u, s, r)
    BY <2>1, <2>2, <2>3, <2>4 DEF Consistent
  <2>9. Chain(D, O, L, u)' /\ Parked(D, O, L, u)'
    BY <1>9, <2>5, <2>6, <2>7, <2>8, ParkedAt
  <2>10. QED BY <2>1, <2>2, <2>3, <2>5, <2>9
<1>15. ASSUME e.sp + 2 <= StackFrames, NEW u \in Term
       PROVE  /\ Chain(D, O, L, u)'
              /\ in_use[u] => /\ Parked(D, O, L, u)' /\ SavedAt(u)'.stk = u
                              /\ e.stk = u => SavedAt(u)'.sp < e.sp + 2
  <2>1. CASE in_use[u] /\ u # Now
    <3>1. e.stk # u
      BY <1>6, <1>12, <2>1 DEF Counts, Term
    <3>2. Chain(D, O, L, u)' /\ Parked(D, O, L, u)' /\ Intact(u) /\ SavedAt(u).stk = u
      BY <1>13, <1>15, <2>1
    <3>3. QED BY <3>1, <3>2 DEF Intact
  <2>2. CASE in_use[u] /\ u = Now
    <3>1. PICK w \in Term : w = Now /\ Chain(D, O, L, w)' /\ Parked(D, O, L, w)'
                            /\ SavedAt(w)' = SavedEsp /\ e.stk = w
      BY <1>14, <1>15, <2>2
    <3>2. SavedEsp.stk = e.stk /\ SavedEsp.sp = e.sp + 1 /\ e.sp + 1 < e.sp + 2
      BY <1>1, <1>6, <1>12, <2>2 DEF Counts, Term
    <3>3. QED BY <2>2, <3>1, <3>2
  <2>3. CASE ~in_use[u]
    BY <1>5, <2>3 DEF Chain
  <2>4. QED BY <2>1, <2>2, <2>3
<1>16. CASE cpu' = Overflow /\ kstack' = kstack /\ ~(e.sp + 2 <= StackFrames)
  <2>1. pcb' = pcb
    BY <1>2, <1>16
  <2>2. ASSUME NEW u \in Term, Background(u) PROVE Intact(u)
    <3>1. SavedAt(u).sp > 0
      BY <2>2 DEF Background, Consistent, Others, Parked, Resumable, Now
    <3>2. QED BY <1>2, <1>16, <2>1, <3>1 DEF Intact, TopOf, SavedAt, SameFrame
  <2>3. QED BY <1>16, <2>2, StopCpus DEF Sound, Overflow
<1>17. CASE /\ cpu'.mode = "kernel" /\ cpu'.esp.stk = e.stk /\ cpu'.esp.sp = e.sp + 2
            /\ e.sp + 2 <= StackFrames /\ Top' = f
  <2>1. Others(D, O, L)'
    BY <1>2, <1>7, <1>15, <1>17 DEF Others
  <2>2. OnFreeStack(D, cpu.esp)'
    <3>1. \A p \in Pid \ Term : D[p] # 0 => pcb'[p].parentESP.stk # cpu'.esp.stk
      BY <1>5
    <3>2. \A u \in Term : in_use'[u] /\ u # t /\ SavedAt(u)'.stk = e.stk => SavedAt(u)'.sp < e.sp + 2
      BY <1>7, <1>15, <1>17
    <3>3. Free(D, cpu.esp.stk, cpu.esp.sp)'
      BY <1>2, <1>17, <3>1, <3>2 DEF Free
    <3>4. FrameAt(cpu.esp)'.ifl = FALSE
      BY <1>3, <1>17 DEF FrameAt, Top
    <3>5. QED BY <3>3, <3>4 DEF OnFreeStack
  <2>3. InBaseStart(D, O)'
    <3>1. Empty(D, O)'
      BY <1>2, <1>6, <1>7 DEF Empty
    <3>2. Proc' = NoPid
      BY <1>2, <1>6 DEF Proc, TopOf
    <3>3. QED BY <1>2, <1>3, <1>6, <1>17, <2>2, <3>1, <3>2 DEF InBaseStart
  <2>4. Running(D, O, L)'
    BY <1>17, <2>3 DEF Running
  <2>5. Consistent(D, O, L)'
    BY <1>10, <1>11, <1>15, <1>17, <2>1, <2>4 DEF Consistent
  <2>6. \A u \in Term : Background(u) => Intact(u)
    BY <1>13, <1>17 DEF Background, Now
  <2>7. QED BY <1>17, <2>5, <2>6 DEF Sound
<1>18. QED BY <1>4, <1>16, <1>17

-----------------------------------------------------------------------------
\* The frames after a switch from stack pointer e to saved stack pointer g.
LEMMA Switched ==
    ASSUME Inv, NEW e \in Esp, NEW h \in Frame, NEW g \in Esp, e.sp + 1 <= StackFrames,
           g.sp > 0, h.pc = "switch",
           \/ g.stk = e.stk /\ g.sp = e.sp + 1
           \/ g.stk # e.stk /\ FrameAt(g).pc = "switch",
           Resume(Written(kstack, e, <<h>>), g, "switch")
    PROVE  /\ cpu' = Kernel(g)
           /\ kstack'[e.stk][e.sp + 1] = h
           /\ \A q \in Pid, i \in 1 .. StackFrames :
                 (q # e.stk \/ i <= e.sp) /\ (q # g.stk \/ i <= g.sp) => kstack'[q][i] = kstack[q][i]
<1> DEFINE fs == <<h>>
           ks == Written(kstack, e, fs)
<1>1. fs \in Seq(Frame) /\ Len(fs) = 1 /\ fs[1] = h /\ kstack \in Stacks /\ 1 \in 1 .. Len(fs)
  BY Values
<1>2. /\ e.stk \in Pid /\ e.sp \in Nat /\ StackFrames \in Nat /\ e.sp + 1 \in 1 .. StackFrames
      /\ g.stk \in Pid /\ g.sp \in 1 .. StackFrames
  BY EspValues, Values
<1>3. Resume(ks, g, "switch")
  OBVIOUS
<1> HIDE DEF fs
<1>4. /\ ks[e.stk][e.sp + 1] = h
      /\ \A q \in Pid, i \in 1 .. StackFrames : q # e.stk \/ i <= e.sp => ks[q][i] = kstack[q][i]
  BY <1>1, WrittenFacts
<1>5. ks \in Stacks
  <2> DEFINE col == [i \in 1 .. StackFrames |->
                       IF i <= e.sp THEN kstack[e.stk][i]
                       ELSE IF i <= e.sp + Len(fs) THEN fs[i - e.sp] ELSE Dead]
  <2>1. ASSUME NEW i \in 1 .. StackFrames PROVE col[i] \in Frame
    <3>1. kstack[e.stk][i] \in Frame
      BY <1>1, <1>2 DEF Stacks
    <3>2. ~(i <= e.sp) /\ i <= e.sp + Len(fs) => i - e.sp = 1
      BY <1>1, <1>2
    <3>3. QED BY <1>1, <3>1, <3>2, DeadFrame
  <2>2. col \in [1 .. StackFrames -> Frame]
    BY <2>1
  <2>3. ks = [kstack EXCEPT ![e.stk] = col]
    BY DEF Written
  <2> HIDE DEF col
  <2>4. QED BY <1>1, <2>2, <2>3 DEF Stacks
<1> HIDE DEF ks
<1>6. ks[g.stk][g.sp].pc = "switch"
  <2>1. CASE g.stk = e.stk /\ g.sp = e.sp + 1
    BY <1>4, <2>1
  <2>2. CASE g.stk # e.stk /\ FrameAt(g).pc = "switch"
    BY <1>2, <1>4, <2>2 DEF FrameAt
  <2>3. QED BY <2>1, <2>2
<1>7. kstack' = Written(ks, g, <<>>) /\ cpu' = Kernel(g)
  BY <1>3, <1>6 DEF Resume
<1>8. \A q \in Pid, i \in 1 .. StackFrames : q # g.stk \/ i <= g.sp => kstack'[q][i] = ks[q][i]
  BY <1>5, <1>7, PopFacts
<1>9. kstack'[e.stk][e.sp + 1] = h
  BY <1>2, <1>4, <1>8
<1>10. QED BY <1>4, <1>7, <1>8, <1>9

LEMMA FocusSound ==
    ASSUME NEW D \in Depths, NEW O \in Owners, NEW L \in Leaves, Inv, Consistent(D, O, L),
           Interruptible, SwitchPoints \subseteq CalmPoints,
           NEW t \in Term, FocusTerminal(t), UNCHANGED pit_interrupt_count
    PROVE  Sound
<1> DEFINE e == InterruptedEsp
           g == IF t = Now THEN SavedEsp ELSE SavedAt(t)
           next == TopOf(t)
<1>1. /\ e \in Esp /\ e.stk \in Pid /\ e.sp \in Nat /\ SwitchFrame \in Frame
      /\ SwitchFrame.pc = "switch" /\ StackFrames \in Nat /\ t \in Pid /\ Now \in Term /\ Now \in Pid
  BY SwitchFacts, EspValues, Values, Sizes
<1>2. in_use[t] /\ UNCHANGED <<activeProccess, processPerTerminal, pid_running_in_terminal, in_use,
                               image, arguments, user_if, entry_pt, execs>>
  BY DEF FocusTerminal
<1>3. CASE ~(e.sp < StackFrames)
  <2>1. cpu' = Overflow /\ UNCHANGED <<pcb, currentTerminal, kstack>>
    BY <1>3 DEF FocusTerminal
  <2>2. ASSUME NEW u \in Term, Background(u) PROVE Intact(u)
    <3>1. SavedAt(u).sp > 0
      BY <2>2 DEF Background, Consistent, Others, Parked, Resumable, Now
    <3>2. QED BY <1>2, <2>1, <3>1 DEF Intact, TopOf, SavedAt, SameFrame
  <2>3. QED BY <2>1, <2>2, StopCpus DEF Sound, Overflow
<1>4. CASE e.sp < StackFrames
  <2>1. /\ pcb' = [pcb EXCEPT ![currentProccess].processESP = SavedEsp]
        /\ Now' = t /\ currentProccess' = next
    BY <1>4 DEF FocusTerminal, TopOf, Now
  <2>2. /\ Topped(D, O, L, Now) /\ currentProccess = Proc
        /\ D[e.stk] # 0 /\ O[e.stk] = Now
        /\ SavedEsp \in Esp /\ Under(D, O, Now, SavedEsp, SwitchFrame.ret)
        /\ SavedEsp.stk = e.stk /\ SavedEsp.sp = e.sp + 1
    <3>1. ~InIdle(D)
      <4>1. t < pit_interrupt_count /\ ~(t < 0)
        BY <1>2 DEF Consistent, Counts, Term
      <4>2. QED BY <4>1 DEF InIdle
    <3>2. e.sp + 1 <= StackFrames
      BY <1>1, <1>4
    <3>3. QED BY <3>1, <3>2, SwitchContext
  <2>3. Proc \in Pid /\ D[Proc] # 0 /\ O[Proc] = Now /\ in_use[Now]
    BY <2>2 DEF Topped, Proc
  <2>4. /\ \A q \in Pid : SamePcb(q) /\ (q # Proc => pcb'[q] = pcb[q])
        /\ pcb'[Proc].processESP = SavedEsp
    BY <2>1, <2>2, <2>3 DEF SamePcb, Inv, TypeOK
  <2>5. Moved /\ (Booted' <=> Booted) /\ \A u \in Term : TopOf(u)' = TopOf(u)
    BY <1>2, <2>4 DEF Moved, Booted, TopOf
  <2>6. ASSUME NEW u \in Term, in_use[u], u # Now
        PROVE  /\ Topped(D, O, L, u) /\ Resumable(D, O, u, SavedAt(u)) /\ TopOf(u) \in Pid
               /\ D[TopOf(u)] # 0 /\ O[TopOf(u)] = u /\ SavedAt(u) \in Esp
               /\ D[SavedAt(u).stk] # 0 /\ O[SavedAt(u).stk] = u /\ SavedAt(u).sp > 0
               /\ FrameAt(SavedAt(u)).pc = "switch" /\ SavedAt(u)' = SavedAt(u)
    <3>1. /\ Topped(D, O, L, u) /\ Resumable(D, O, u, SavedAt(u))
      BY <2>6 DEF Consistent, Others, Parked
    <3>2. TopOf(u) \in Pid /\ D[TopOf(u)] # 0 /\ O[TopOf(u)] = u
      BY <3>1 DEF Topped
    <3>3. SavedAt(u) \in Esp
      BY <3>2 DEF SavedAt, TopOf, Inv, TypeOK
    <3>4. SavedAt(u)' = SavedAt(u)
      BY <2>3, <2>4, <2>5, <2>6, <3>2 DEF SavedAt
    <3>5. QED BY <3>1, <3>2, <3>3, <3>4 DEF Resumable
  <2>7. next \in Pid /\ D[next] # 0 /\ O[next] = t /\ Topped(D, O, L, t)
    BY <1>2, <2>2, <2>3, <2>6 DEF Proc
  <2>8. /\ tss_esp0' = StackTop(next) /\ page_directory' = next
        /\ Resume(Written(kstack, e, <<SwitchFrame>>), pcb'[next].processESP, "switch")
    <3>1. LoadTask(t)
      BY <1>4, <2>7, Values DEF FocusTerminal, TopOf
    <3>2. QED BY <3>1 DEF LoadTask, SwitchTss, SwitchPage, TopOf
  <2>9. pcb'[next].processESP = g
    <3>1. CASE t = Now
      BY <2>4, <3>1 DEF Proc
    <3>2. CASE t # Now
      BY <2>3, <2>4, <2>7, <3>2 DEF SavedAt
    <3>3. QED BY <3>1, <3>2
  <2>10. /\ g \in Esp /\ g.sp > 0 /\ D[g.stk] # 0 /\ O[g.stk] = t
         /\ \/ t = Now /\ g = SavedEsp /\ g.stk = e.stk /\ g.sp = e.sp + 1
            \/ t # Now /\ g = SavedAt(t) /\ g.stk # e.stk /\ FrameAt(g).pc = "switch"
    BY <1>1, <1>2, <2>2, <2>6
  <2>11. PICK x \in Esp : x = g
    BY <2>10
  <2> HIDE DEF g
  <2>12. /\ cpu' = Kernel(x)
         /\ kstack'[e.stk][e.sp + 1] = SwitchFrame
         /\ \A q \in Pid, i \in 1 .. StackFrames :
               (q # e.stk \/ i <= e.sp) /\ (q # x.stk \/ i <= x.sp) => kstack'[q][i] = kstack[q][i]
    <3>1. e.sp + 1 <= StackFrames
      BY <1>1, <1>4
    <3>2. Resume(Written(kstack, e, <<SwitchFrame>>), x, "switch")
      BY <2>8, <2>9, <2>11
    <3>3. QED BY <1>1, <2>10, <2>11, <3>1, <3>2, Switched
  <2>13. cpu'.mode = "kernel" /\ cpu'.esp = x
    BY <2>12 DEF Kernel
  <2>14. /\ \A i \in 1 .. StackFrames : i < e.sp + 1 => i <= e.sp
         /\ \A i \in 1 .. StackFrames : i < x.sp => i <= x.sp
    BY <1>1, <2>11, EspValues
  <2>15. \E u \in Term : /\ u = Now /\ SavedAt(u)' = SavedEsp
                         /\ Chain(D, O, L, u)' /\ Parked(D, O, L, u)'
    <3>1. PICK u \in Term : u = Now
      BY <1>1
    <3>2. PICK s \in Esp : s = SavedEsp
      BY <2>2
    <3>3. PICK r : r = SwitchFrame.ret
      OBVIOUS
    <3>4. SavedAt(u)' = s
      BY <2>4, <2>5, <3>1, <3>2 DEF SavedAt, Proc
    <3>5. kstack'[s.stk][s.sp].pc = "switch" /\ kstack'[s.stk][s.sp].ret = r
      BY <1>1, <2>2, <2>12, <3>2, <3>3
    <3>6. StacksOf(D, O, u, s)
      <4>1. CASE t = Now
        <5>1. x.stk = e.stk /\ x.sp = e.sp + 1 /\ s.stk = e.stk /\ s.sp = e.sp + 1
          BY <2>2, <2>10, <2>11, <3>2, <4>1
        <5>2. QED BY <2>12, <2>14, <5>1 DEF StacksOf
      <4>2. CASE t # Now
        <5>1. O[x.stk] # u /\ s.stk = e.stk /\ s.sp = e.sp + 1
          BY <2>2, <2>10, <2>11, <3>1, <3>2, <4>2
        <5>2. QED BY <2>12, <2>14, <5>1 DEF StacksOf
      <4>3. QED BY <4>1, <4>2
    <3>7. Chain(D, O, L, u) /\ Topped(D, O, L, u) /\ Under(D, O, u, s, r)
      BY <2>2, <3>1, <3>2, <3>3 DEF Consistent
    <3>8. Chain(D, O, L, u)' /\ Parked(D, O, L, u)'
      BY <2>5, <3>4, <3>5, <3>6, <3>7, ParkedAt
    <3>9. QED BY <3>1, <3>2, <3>4, <3>8
  <2>16. ASSUME t # Now
         PROVE  Chain(D, O, L, t)' /\ Parked(D, O, L, t)' /\ SavedAt(t)' = x
    <3>1. /\ Topped(D, O, L, t) /\ Resumable(D, O, t, x) /\ SavedAt(t)' = x /\ FrameAt(x).pc = "switch"
      BY <1>2, <2>6, <2>10, <2>11, <2>16
    <3>2. PICK r : r = FrameAt(x).ret
      OBVIOUS
    <3>3. Under(D, O, t, x, r) /\ Chain(D, O, L, t)
      BY <3>1, <3>2, ResumableIsUnder DEF Consistent
    <3>4. x.stk \in Pid /\ x.sp \in 1 .. StackFrames /\ x.sp <= x.sp /\ x.stk # e.stk
      BY <2>10, <2>11, <2>16, EspValues
    <3>5. kstack'[x.stk][x.sp] = FrameAt(x)
      BY <2>12, <3>4 DEF FrameAt
    <3>6. StacksOf(D, O, t, x)
      BY <2>2, <2>12, <2>14, <2>16 DEF StacksOf
    <3>7. kstack'[x.stk][x.sp].pc = "switch" /\ kstack'[x.stk][x.sp].ret = r
      BY <3>1, <3>2, <3>5
    <3>8. QED BY <2>5, <3>1, <3>3, <3>6, <3>7, ParkedAt
  <2>17. ASSUME NEW u \in Term, in_use[u], u # Now, u # t
         PROVE  Chain(D, O, L, u)' /\ Parked(D, O, L, u)' /\ Intact(u)
    <3>1. SavedAt(u)' = SavedAt(u)
      BY <2>6, <2>17
    <3>2. \A q \in Pid, i \in 1 .. StackFrames :
            D[q] # 0 /\ O[q] = u => kstack'[q][i] = kstack[q][i]
      BY <2>2, <2>10, <2>11, <2>12, <2>17
    <3>3. QED BY <2>5, <2>17, <3>1, <3>2, ParkedStays
  <2>18. ASSUME NEW u \in Term
         PROVE  Chain(D, O, L, u)' /\ (in_use[u] => Parked(D, O, L, u)')
    <3>1. CASE ~in_use[u]
      <4>1. \A p \in Pid : ~(D[p] # 0 /\ O[p] = u)
        BY <3>1 DEF Consistent, Chain, Member
      <4>2. QED BY <3>1, <4>1 DEF Chain
    <3>2. CASE in_use[u] /\ u = Now
      BY <2>15, <3>2
    <3>3. CASE in_use[u] /\ u # Now
      BY <2>16, <2>17, <3>3
    <3>4. QED BY <3>1, <3>2, <3>3
  <2>19. Parked(D, O, L, t)' /\ SavedAt(t)' = x
    <3>1. t = Now => SavedAt(t)' = x
      BY <2>10, <2>11, <2>15
    <3>2. QED BY <1>2, <2>16, <2>18, <3>1
  <2>20. InSwitch(D, O, L)'
    <3>1. Topped(D, O, L, t)' /\ Resumable(D, O, t, x)'
      BY <2>19 DEF Parked
    <3>2. Proc' = next /\ tss_esp0'.stk = next
      BY <2>1, <2>5, <2>8 DEF Proc, TopOf, StackTop
    <3>3. Settled(D, O, L)'
      BY <2>1, <2>8, <3>1, <3>2 DEF Settled
    <3>4. QED BY <2>1, <2>13, <3>1, <3>3 DEF InSwitch
  <2>21. Running(D, O, L)'
    BY <2>13, <2>20 DEF Running
  <2>22. Others(D, O, L)'
    BY <1>2, <2>18 DEF Others
  <2>23. \A u \in Term : Counts(u)'
    BY <1>2, <2>5 DEF Counts, Consistent
  <2>24. \A p \in Pid \ Term : activeProccess'[p] => Booted'
    BY <1>2, <2>5 DEF Consistent
  <2>25. Consistent(D, O, L)'
    BY <2>18, <2>21, <2>22, <2>23, <2>24 DEF Consistent
  <2>26. \A u \in Term : Background(u) /\ Background(u)' => Intact(u)
    BY <2>1, <2>17 DEF Background, Now
  <2>27. QED BY <2>13, <2>25, <2>26 DEF Sound
<1>5. QED BY <1>3, <1>4

-----------------------------------------------------------------------------
(* Safety of the task switch *)

\* The inductive invariant: no saved stack pointer went astray, and while the
\* processor runs some tree of processes explains the tables and the stacks.
Safe ==
    /\ Inv
    /\ cpu.mode # "crashed"
    /\ Runs(cpu) => \E D \in Depths, O \in Owners, L \in Leaves : Consistent(D, O, L)

LEMMA InterruptSound ==
    ASSUME NEW D \in Depths, NEW O \in Owners, NEW L \in Leaves, Inv, Consistent(D, O, L),
           QuietBoot, SwitchPoints \subseteq CalmPoints, Interrupt
    PROVE  Sound
<1>1. \A u \in Term : in_use[u] <=> u < pit_interrupt_count
  BY DEF Consistent, Counts
<1>2. CASE PitTick
  <2>1. PICK t \in Term : t = pit_interrupt_count
    BY <1>2, TableAssumption DEF PitTick, ShellsPending, Term, Inv, TypeOK
  <2>2. ~in_use[t]
    BY <1>1, <2>1 DEF Term
  <2>3. Interruptible /\ CreateTerminal(t) /\ pit_interrupt_count' = t + 1
    BY <1>2, <2>1, <2>2 DEF PitTick, SwitchTerminal, FocusTerminal
  <2>4. QED BY <2>1, <2>3, CreateSound
<1>3. ASSUME NEW t \in Term, FunctionKey(t) PROVE Sound
  <2>1. pit_interrupt_count = MAX_TERMINAL_NUMBER
    BY <1>3 DEF FunctionKey, Quiet
  <2>2. in_use[t]
    BY <1>1, <2>1, TableAssumption DEF Term
  <2>3. Interruptible /\ FocusTerminal(t) /\ UNCHANGED pit_interrupt_count
    BY <1>3, <2>2 DEF FunctionKey, SwitchTerminal, CreateTerminal
  <2>4. QED BY <2>3, FocusSound
<1>4. QED BY <1>2, <1>3 DEF Interrupt

LEMMA ExecuteSound ==
    ASSUME NEW D \in Depths, NEW O \in Owners, NEW L \in Leaves, Inv, Consistent(D, O, L),
           ExecuteStep
    PROVE  Sound
BY ExecuteAllocSound, ExecuteMarkSound, ExecuteInitPCBSound, ExecuteCurrentSound,
   ExecutePublishSound, ExecuteArgumentsSound, ExecutePageSound, ExecuteLoadSound,
   ExecuteTssSound, ExecuteIretSound, PlainReturnSound DEF ExecuteStep

LEMMA HaltSound ==
    ASSUME NEW D \in Depths, NEW O \in Owners, NEW L \in Leaves, Inv, Consistent(D, O, L),
           HaltStep
    PROVE  Sound
BY HaltTestSound, HaltBaseTopSound, HaltBaseExecuteSound, HaltFreeSound, HandBackSound,
   HaltJumpSound DEF HaltStep

\* Only a running processor takes a step.
LEMMA StepRuns == Next => Runs(cpu)
BY DEF Next, ExecuteStep, HaltStep, UserStep, Interrupt, Runs, InUser, At,
       ExecuteAlloc, ExecuteMark, ExecuteInitPCB, ExecuteCurrent, ExecutePublish,
       ExecuteArguments, ExecutePage, ExecuteLoad, ExecuteTss, ExecuteIret, ExecuteReturns, HaltTest, HaltBaseTop,
       HaltBaseExecute, HaltFree, HaltPage, HaltCurrent, HaltTop, HaltTss, HaltCount, HaltJump,
       SysExecute, SysHalt, Exception, SysIO, IOReturns, SwitchReturns, PitTick, FunctionKey,
       Interruptible, TableStep, MachineStep, Step

\* Every step is sound.
LEMMA NextSound ==
    ASSUME Safe, Next, QuietBoot, SwitchPoints \subseteq CalmPoints
    PROVE  Sound
<1>1. Inv /\ Runs(cpu)
  BY StepRuns DEF Safe
<1>2. PICK D \in Depths, O \in Owners, L \in Leaves : Consistent(D, O, L)
  BY <1>1 DEF Safe
<1>3. QED
  BY <1>1, <1>2, ExecuteSound, HaltSound, UserStepSound, PlainReturnSound, SwitchReturnSound,
     InterruptSound DEF Next

\* After power-on no process exists.
LEMMA SafeAtStart == Init => Safe
<1> SUFFICES ASSUME Init PROVE Safe
  OBVIOUS
<1>1. Inv
  BY Base
<1>2. cpu.mode = "kernel" /\ cpu.esp = [stk |-> 0, sp |-> 1]
  BY DEF Init, Kernel
<1> DEFINE D == [p \in Pid |-> 0]
           O == [p \in Pid |-> 0]
           L == [u \in Term |-> 0]
<1>3. /\ D \in Depths /\ O \in Owners /\ L \in Leaves /\ \A p \in Pid : D[p] = 0
  BY Sizes DEF Depths, Owners, Leaves
<1> HIDE DEF D, O, L
<1>4. Top.pc = "idle"
  BY <1>2, Sizes DEF Init, Top, Idle, AFrame
<1>5. \A u \in Term : Chain(D, O, L, u) /\ Counts(u)
  BY <1>3, Sizes DEF Init, Chain, Counts, TopOf, Term
<1>6. \A p \in Pid : ~activeProccess[p]
  BY DEF Init
<1>7. Others(D, O, L)
  BY DEF Init, Others
<1>8. Running(D, O, L)
  BY <1>2, <1>3, <1>4 DEF Running, InIdle, Init
<1>9. Consistent(D, O, L)
  BY <1>5, <1>6, <1>7, <1>8 DEF Consistent
<1>10. QED BY <1>1, <1>2, <1>3, <1>9 DEF Safe

LEMMA ConsistentStutters ==
    ASSUME UNCHANGED vars, NEW D, NEW O, NEW L, Consistent(D, O, L)
    PROVE  Consistent(D, O, L)'
<1>1. /\ UNCHANGED <<activeProccess, currentProccess, processPerTerminal, pid_running_in_terminal, pcb>>
      /\ UNCHANGED <<currentTerminal, in_use, pit_interrupt_count>>
      /\ UNCHANGED <<page_directory, tss_esp0, image, arguments, kstack, cpu>>
  BY DEF vars, tables, screen, machine
<1>2. /\ Now' = Now /\ Proc' = Proc /\ Top' = Top /\ (Booted' <=> Booted)
      /\ \A u : TopOf(u)' = TopOf(u)
      /\ \A e : FrameAt(e)' = FrameAt(e)
      /\ \A p : ParentFrame(p)' = ParentFrame(p) /\ (Started(p)' <=> Started(p)) /\ TerminalOf(p)' = TerminalOf(p)
      /\ \A u : SavedAt(u)' = SavedAt(u)
  BY <1>1 DEF Now, Proc, Top, Booted, TopOf, FrameAt, ParentFrame, Started, SavedAt, TerminalOf
<1>3. \A u \in Term : Chain(D, O, L, u)' /\ Counts(u)'
  BY <1>1, <1>2 DEF Consistent, Chain, Counts, Member, Child
<1>4. \A u, e : /\ Calling(D, u, e) => Calling(D, u, e)'
                /\ Starting(D, O, u, e) => Starting(D, O, u, e)'
                /\ Loading(D, u, e) => Loading(D, u, e)'
  BY <1>1, <1>2 DEF Calling, Starting, Loading, Copied, Undisturbed
<1>5. \A u, e : Resumable(D, O, u, e) => Resumable(D, O, u, e)'
  BY <1>1, <1>2, <1>4 DEF Resumable, Undisturbed
<1>6. \A u : Topped(D, O, L, u) => Topped(D, O, L, u)'
  BY <1>1, <1>2 DEF Topped
<1>7. Others(D, O, L)'
  BY <1>1, <1>2, <1>5, <1>6 DEF Consistent, Others, Parked
<1>8. Settled(D, O, L) => Settled(D, O, L)'
  BY <1>1, <1>2, <1>6 DEF Settled
<1>9. OnFreeStack(D, cpu.esp) => OnFreeStack(D, cpu.esp)'
  BY <1>1, <1>2 DEF OnFreeStack, Free
<1>10. Empty(D, O) => Empty(D, O)'
  BY <1>1, <1>2 DEF Empty
<1>11. Running(D, O, L)'
  <2>1. InProgram(D, O, L) => InProgram(D, O, L)'
    BY <1>1, <1>2, <1>8 DEF InProgram
  <2>2. InCall(D, O, L) => InCall(D, O, L)'
    BY <1>1, <1>2, <1>4, <1>8 DEF InCall
  <2>3. InSwitch(D, O, L) => InSwitch(D, O, L)'
    BY <1>1, <1>2, <1>5, <1>8 DEF InSwitch
  <2>4. InStart(D, O, L) => InStart(D, O, L)'
    BY <1>1, <1>2, <1>4, <1>6 DEF InStart
  <2>5. InLoad(D, O, L) => InLoad(D, O, L)'
    BY <1>1, <1>2, <1>4, <1>6, <1>9 DEF InLoad, Undisturbed
  <2>6. InBaseStart(D, O) => InBaseStart(D, O)'
    BY <1>1, <1>2, <1>9, <1>10 DEF InBaseStart
  <2>7. InRespawn(D, O) => InRespawn(D, O)'
    BY <1>1, <1>2, <1>10 DEF InRespawn
  <2>8. InHalt(D, O, L) => InHalt(D, O, L)'
    BY <1>1, <1>2 DEF InHalt
  <2>9. InIdle(D) => InIdle(D)'
    BY <1>1, <1>2 DEF InIdle
  <2>10. QED
    BY <1>1, <2>1, <2>2, <2>3, <2>4, <2>5, <2>6, <2>7, <2>8, <2>9 DEF Consistent, Running
<1>12. QED BY <1>1, <1>2, <1>3, <1>7, <1>11 DEF Consistent

-----------------------------------------------------------------------------
\* In every reachable state no saved %esp has gone astray and some tree of
\* processes explains what execute, halt and switchTerminal left in the
\* tables, in the PCBs and on the kernel stacks - provided the three shells
\* exist before any key is pressed, and no switch falls into the windows of
\* execute and halt where the tables are half written.
THEOREM SafetyInvariant ==
    ASSUME QuietBoot, SwitchPoints \subseteq CalmPoints
    PROVE  Spec => []Safe
<1>1. Safe /\ [Next]_vars /\ Inv' => Safe'
  <2> SUFFICES ASSUME Safe, [Next]_vars, Inv' PROVE Safe'
    OBVIOUS
  <2>1. CASE Next
    BY <2>1, NextSound DEF Safe, Sound
  <2>2. CASE UNCHANGED vars
    <3>1. cpu' = cpu
      BY <2>2 DEF vars
    <3>2. Runs(cpu') => \E D \in Depths, O \in Owners, L \in Leaves : Consistent(D, O, L)'
      BY <2>2, <3>1, ConsistentStutters DEF Safe
    <3>3. QED BY <3>1, <3>2 DEF Safe
  <2>3. QED BY <2>1, <2>2
<1>2. QED BY <1>1, SafeAtStart, StacksWellFormed, PTL DEF Spec

\* The %esp that switchTerminal and halt load (terminal.c:111,
\* systemCalls.c:74) always points at the frame it was saved in.
THEOREM NeverResumesWild ==
    ASSUME QuietBoot, SwitchPoints \subseteq CalmPoints
    PROVE  Spec => []NoWildResume
<1>1. Safe => NoWildResume
  BY DEF Safe, NoWildResume
<1>2. QED BY <1>1, SafetyInvariant, PTL

\* Whenever a program runs, currentProccess, the 128MB page, the terminal's
\* top process, tss.esp0 and the PCB all name that program.
THEOREM UserContextHolds ==
    ASSUME QuietBoot, SwitchPoints \subseteq CalmPoints
    PROVE  Spec => []UserContext
<1>1. Safe => UserContext
  <2> SUFFICES ASSUME Safe, InUser PROVE UserContext
    BY DEF UserContext
  <2>1. Inv /\ Runs(cpu)
    BY DEF Safe, Runs, InUser
  <2>2. PICK D \in Depths, O \in Owners, L \in Leaves : Consistent(D, O, L)
    BY <2>1 DEF Safe
  <2>3. /\ cpu.proc = Proc /\ currentProccess = Proc /\ page_directory = Proc
        /\ tss_esp0.stk = Proc /\ Proc \in Pid /\ D[Proc] # 0 /\ O[Proc] = Now /\ Now \in Term
    BY <2>1, <2>2, UserPlace, Values DEF InProgram, Settled, Topped, Proc
  <2>4. Member(D, O, L, Now, Proc)
    BY <2>2, <2>3 DEF Consistent, Chain
  <2>5. activeProccess[Proc] /\ TerminalOf(Proc) = Now
    BY <2>4 DEF Member
  <2>6. QED BY <2>3, <2>5 DEF UserContext, Proc, TopOf, Now
<1>2. QED BY <1>1, SafetyInvariant, PTL

\* execute enters user mode with the new process's frame mapped and its own
\* command in it, whatever other terminals loaded between the copy and the iret.
THEOREM StartsOwnImageHolds ==
    ASSUME QuietBoot, SwitchPoints \subseteq CalmPoints
    PROVE  Spec => []StartsOwnImage
<1>1. Safe => StartsOwnImage
  <2> SUFFICES ASSUME Safe, At("e_iret") PROVE StartsOwnImage
    BY DEF StartsOwnImage
  <2>1. Inv /\ Runs(cpu) /\ cpu.mode = "kernel" /\ Top.pc = "e_iret" /\ Top.pc \in LoadPcs
    BY DEF Safe, Runs, At, LoadPcs
  <2>2. PICK D \in Depths, O \in Owners, L \in Leaves : Consistent(D, O, L)
    BY <2>1 DEF Safe
  <2>3. QED BY <2>1, <2>2, LoadPlace DEF StartsOwnImage
<1>2. QED BY <1>1, SafetyInvariant, PTL

\* Unless a switch comes between the child's appearance in the tables and the
\* copy (systemCalls.c:171-196), a new process gets its arguments out of the
\* memory of the program that called execute, wherever else switches happen.
THEOREM ArgumentsFromCallerHolds ==
    ASSUME QuietBoot, SwitchPoints \subseteq CalmPoints, "e_args" \notin SwitchPoints
    PROVE  Spec => []ArgumentsFromCaller
<1>1. Safe => ArgumentsFromCaller
  <2> SUFFICES ASSUME Safe, At("e_iret"), Top.ret # NoPid
               PROVE  arguments[Top.pid] = Top.ret
    BY DEF ArgumentsFromCaller
  <2>1. Inv /\ Runs(cpu) /\ cpu.mode = "kernel" /\ Top.pc = "e_iret" /\ Top.pc \in LoadPcs
    BY DEF Safe, Runs, At, LoadPcs
  <2>2. PICK D \in Depths, O \in Owners, L \in Leaves : Consistent(D, O, L)
    BY <2>1 DEF Safe
  <2>3. Undisturbed
    BY DEF Undisturbed
  <2>4. QED BY <2>1, <2>2, <2>3, LoadPlace
<1>2. QED BY <1>1, SafetyInvariant, PTL

\* No step of execute, halt or an interrupt disturbs what a terminal off the
\* screen is resumed with: its top process, the saved %esp and the frame there.
THEOREM BackgroundKept ==
    ASSUME QuietBoot, SwitchPoints \subseteq CalmPoints
    PROVE  Spec => BackgroundIntact
<1>1. Safe /\ [Next]_vars =>
        [\A t \in Term : Background(t) /\ Background(t)' => Suspended(t)' = Suspended(t)]_vars
  <2> SUFFICES ASSUME Safe, Next, NEW t \in Term, Background(t), Background(t)'
               PROVE  Suspended(t)' = Suspended(t)
    OBVIOUS
  <2>1. Intact(t)
    BY NextSound DEF Sound
  <2>2. TopOf(t)' = TopOf(t) /\ SavedAt(t)' = SavedAt(t) /\ FrameAt(SavedAt(t))' = FrameAt(SavedAt(t))
    BY <2>1 DEF Intact, SameFrame, FrameAt
  <2>3. QED BY <2>2 DEF Suspended, TopOf, SavedAt, FrameAt
<1>2. QED BY <1>1, SafetyInvariant, PTL DEF Spec, BackgroundIntact

-----------------------------------------------------------------------------
(* The tree of processes that the parentID links spell *)

\* A set of numbers has a least one: induction, for the recursion below.
LEMMA LeastNat ==
    ASSUME NEW T \in SUBSET Nat, T # {}
    PROVE  \E n \in T : \A m \in T : n <= m
<1>1. PICK k \in T : TRUE
  OBVIOUS
<1> DEFINE S == 0 .. k
           R == StrictSubsetOrdering(S)
           F == {0 .. n : n \in T \cap S}
<1>2. k \in Nat /\ S \in SUBSET Nat /\ k \in S
  OBVIOUS
<1>3. IsFiniteSet(S)
  <2>1. 0 \in Int /\ k \in Int
    BY <1>2
  <2>2. QED BY <2>1, FS_Interval
<1>4. IsWellFoundedOn(R, FiniteSubsetsOf(S)) /\ FiniteSubsetsOf(S) = SUBSET S
  BY <1>3, FS_StrictSubsetOrderingWellFounded, FS_FiniteSubsetsOfFinite
<1>5. F \subseteq SUBSET S /\ F # {}
  BY <1>2
<1>6. PICK x \in F : \A y \in F : ~(<<y, x>> \in R)
  <2> HIDE DEF R, F, S
  <2>1. QED BY <1>4, <1>5, WFMin
<1>7. PICK n \in T \cap S : x = 0 .. n
  BY <1>6
<1>8. ASSUME NEW m \in T, m < n PROVE FALSE
  <2>1. m \in S /\ (0 .. m) \in F
    BY <1>2, <1>7, <1>8
  <2>2. <<0 .. m, x>> \in R
    <3>1. 0 .. m \subseteq x /\ 0 .. m # x /\ 0 .. m \in SUBSET S /\ x \in SUBSET S
      <4>1. n \in 0 .. n /\ n \notin 0 .. m
        BY <1>7, <1>8
      <4>2. QED BY <1>5, <1>6, <1>7, <1>8, <2>1, <4>1
    <3> HIDE DEF S
    <3>2. QED BY <3>1 DEF StrictSubsetOrdering
  <2>3. QED BY <1>6, <2>1, <2>2
<1>9. \A m \in T : n <= m
  BY <1>7, <1>8
<1>10. QED BY <1>7, <1>9

\* A function is determined up to k by its first value and its next values.
LineageUpTo(k, g) ==
    g = [n \in 0 .. k |->
          [p \in Pid |-> IF n = 0 \/ pcb[p].parentID = p THEN <<p>>
                         ELSE Append(g[n - 1][pcb[p].parentID], p)]]

\* The recursive definition of the lineage has a solution on every prefix.
LEMMA LineageExists == \A k \in Nat : \E g : LineageUpTo(k, g)
<1> DEFINE T == {k \in Nat : ~ \E g : LineageUpTo(k, g)}
<1> SUFFICES ASSUME T # {} PROVE FALSE
  OBVIOUS
<1>1. PICK k \in T : \A m \in T : k <= m
  <2>1. T \in SUBSET Nat
    OBVIOUS
  <2> HIDE DEF T
  <2>2. QED BY <2>1, LeastNat
<1>2. CASE k = 0
  <2> DEFINE g == [n \in 0 .. 0 |-> [p \in Pid |-> <<p>>]]
  <2>1. LineageUpTo(0, g)
    <3>1. \A n \in 0 .. 0 : n = 0
      OBVIOUS
    <3>2. QED BY <3>1 DEF LineageUpTo
  <2>2. QED BY <1>1, <1>2, <2>1
<1>3. CASE k # 0
  <2>1. k \in Nat /\ k - 1 \in Nat /\ ~(k <= k - 1)
    BY <1>1, <1>3
  <2>2. k - 1 \notin T
    BY <1>1, <2>1
  <2>3. PICK g : LineageUpTo(k - 1, g)
    BY <2>1, <2>2
  <2> DEFINE h == [n \in 0 .. k |->
                    IF n = k THEN [p \in Pid |-> IF pcb[p].parentID = p THEN <<p>>
                                                 ELSE Append(g[k - 1][pcb[p].parentID], p)]
                    ELSE g[n]]
  <2>4. ASSUME NEW n \in 0 .. k
        PROVE  h[n] = [p \in Pid |-> IF n = 0 \/ pcb[p].parentID = p THEN <<p>>
                                     ELSE Append(h[n - 1][pcb[p].parentID], p)]
    <3>1. CASE n = k
      <4>1. k - 1 \in 0 .. k /\ k - 1 # k
        BY <2>1
      <4>2. h[k - 1] = g[k - 1]
        BY <4>1
      <4>3. h[n] = [p \in Pid |-> IF pcb[p].parentID = p THEN <<p>>
                                  ELSE Append(g[k - 1][pcb[p].parentID], p)]
        BY <3>1
      <4>4. QED BY <1>3, <3>1, <4>2, <4>3
    <3>2. CASE n # k
      <4>1. n \in 0 .. k - 1 /\ (n # 0 => n - 1 \in 0 .. k /\ n - 1 # k)
        BY <2>1, <3>2
      <4>2. h[n] = g[n] /\ (n # 0 => h[n - 1] = g[n - 1])
        BY <3>2, <4>1
      <4>3. g[n] = [p \in Pid |-> IF n = 0 \/ pcb[p].parentID = p THEN <<p>>
                                  ELSE Append(g[n - 1][pcb[p].parentID], p)]
        BY <2>3, <4>1 DEF LineageUpTo
      <4>4. QED BY <4>2, <4>3
    <3>3. QED BY <3>1, <3>2
  <2>5. LineageUpTo(k, h)
    <3>1. h = [n \in 0 .. k |-> h[n]]
      OBVIOUS
    <3> HIDE DEF h
    <3>2. QED BY <2>4, <3>1 DEF LineageUpTo
  <2>6. QED BY <1>1, <2>5
<1>4. QED BY <1>2, <1>3

\* The recursion that defines lineage has a solution.
LEMMA LineageEquation == LineageUpTo(MAX_PCB, lineage)
<1>1. \E g : LineageUpTo(MAX_PCB, g)
  BY LineageExists, TableAssumption
<1>2. QED BY <1>1 DEF LineageUpTo, lineage

\* s is the way from a base shell down to process p.
Path(s, p) ==
    /\ s \in Seq(Pid) /\ Len(s) > 0 /\ s[Len(s)] = p
    /\ pcb[s[1]].parentID = s[1]
    /\ \A i \in 2 .. Len(s) : pcb[s[i]].parentID = s[i - 1] /\ s[i] # s[i - 1]

\* One step up a path.
LEMMA PathUp ==
    ASSUME NEW p \in Pid, NEW s, Path(s, p), Len(s) # 1
    PROVE  LET r == SubSeq(s, 1, Len(s) - 1) IN
           /\ pcb[p].parentID = s[Len(s) - 1] /\ s[Len(s) - 1] \in Pid /\ s[Len(s) - 1] # p
           /\ Path(r, s[Len(s) - 1]) /\ Len(r) = Len(s) - 1 /\ s = Append(r, p)
<1> DEFINE k == Len(s)
           r == SubSeq(s, 1, k - 1)
<1>0. s \in Seq(Pid) /\ k > 0 /\ s[k] = p
  BY DEF Path
<1>1. s \in Seq(Pid) /\ k \in Nat /\ k > 1 /\ s[k] = p
  <2>1. k \in Nat
    BY <1>0
  <2>2. k # 1
    OBVIOUS
  <2> HIDE DEF k
  <2>3. QED BY <1>0, <2>1, <2>2
<1>2. /\ k - 1 \in 1 .. k /\ k \in 2 .. k /\ 1 \in 1 .. k - 1 /\ k - 1 \in Nat
  BY <1>1
<1>3. pcb[p].parentID = s[k - 1] /\ s[k - 1] # p /\ s[k - 1] \in Pid
  BY <1>1, <1>2 DEF Path
<1>4. r \in Seq(Pid) /\ Len(r) = k - 1 /\ \A i \in 1 .. k - 1 : r[i] = s[i]
  BY <1>1, <1>2
<1>5. Path(r, s[k - 1])
  <2>0. Len(r) \in 1 .. k - 1 /\ Len(r) > 0 /\ 1 \in 1 .. k - 1
    BY <1>1, <1>4
  <2>1. Len(r) > 0 /\ r[Len(r)] = s[k - 1] /\ pcb[r[1]].parentID = r[1]
    <3>1. r[Len(r)] = s[Len(r)] /\ r[1] = s[1] /\ pcb[s[1]].parentID = s[1]
      BY <2>0, <1>4 DEF Path
    <3>2. QED BY <1>4, <2>0, <3>1
  <2>2. ASSUME NEW i \in 2 .. Len(r) PROVE pcb[r[i]].parentID = r[i - 1] /\ r[i] # r[i - 1]
    <3>1. i \in 2 .. k /\ i \in 1 .. k - 1 /\ i - 1 \in 1 .. k - 1
      BY <1>1, <1>4
    <3>2. QED BY <1>4, <3>1 DEF Path
  <2>3. QED BY <1>4, <2>1, <2>2 DEF Path
<1>6. s = Append(r, p)
  <2>1. Append(r, p) \in Seq(Pid) /\ Len(Append(r, p)) = k
    BY <1>1, <1>4
  <2>2. ASSUME NEW i \in 1 .. k PROVE Append(r, p)[i] = s[i]
    BY <1>1, <1>4
  <2>3. QED BY <1>1, <2>1, <2>2
<1>7. QED BY <1>3, <1>4, <1>5, <1>6

\* lineage computes the path, if it is allowed enough steps.
PathsFollowed(n) ==
    \A p \in Pid : \A s : Path(s, p) /\ Len(s) <= n + 1 => lineage[n][p] = s

\* A path down the parent links is the lineage, by induction on its length.
LEMMA PathIsLineage == \A n \in 0 .. MAX_PCB : PathsFollowed(n)
<1> DEFINE T == {n \in 0 .. MAX_PCB : ~PathsFollowed(n)}
<1> SUFFICES ASSUME T # {} PROVE FALSE
  OBVIOUS
<1>1. PICK n \in T : \A m \in T : n <= m
  <2>1. T \in SUBSET Nat
    OBVIOUS
  <2> HIDE DEF T
  <2>2. QED BY <2>1, LeastNat
<1>2. n \in 0 .. MAX_PCB /\ n \in Nat /\ MAX_PCB \in Nat /\ n <= MAX_PCB
  BY <1>1, TableAssumption
<1>3. PICK p, s : p \in Pid /\ Path(s, p) /\ Len(s) <= n + 1 /\ lineage[n][p] # s
  BY <1>1 DEF PathsFollowed
<1>4. lineage[n][p] = IF n = 0 \/ pcb[p].parentID = p THEN <<p>>
                      ELSE Append(lineage[n - 1][pcb[p].parentID], p)
  <2>1. lineage = [m \in 0 .. MAX_PCB |->
                    [q \in Pid |-> IF m = 0 \/ pcb[q].parentID = q THEN <<q>>
                                   ELSE Append(lineage[m - 1][pcb[q].parentID], q)]]
    BY LineageEquation DEF LineageUpTo
  <2>2. lineage[n] = [q \in Pid |-> IF n = 0 \/ pcb[q].parentID = q THEN <<q>>
                                   ELSE Append(lineage[n - 1][pcb[q].parentID], q)]
    <3> HIDE DEF lineage
    <3>1. QED BY <1>2, <2>1, Zenon
  <2>3. QED BY <1>3, <2>2, Zenon
<1>5. s \in Seq(Pid) /\ Len(s) \in Nat /\ Len(s) > 0
  BY <1>3 DEF Path
<1>6. CASE Len(s) = 1
  <2>1. s[1] = p /\ pcb[p].parentID = p
    BY <1>3, <1>6 DEF Path
  <2>2. lineage[n][p] = <<p>>
    BY <1>4, <2>1
  <2>3. s = <<p>>
    BY <1>5, <1>6, <2>1
  <2>4. QED BY <1>3, <2>2, <2>3
<1>7. CASE Len(s) # 1
  <2> DEFINE r == SubSeq(s, 1, Len(s) - 1)
             q == s[Len(s) - 1]
  <2>1. pcb[p].parentID = q /\ q \in Pid /\ q # p /\ Path(r, q) /\ Len(r) = Len(s) - 1 /\ s = Append(r, p)
    BY <1>3, <1>7, PathUp
  <2>2. n # 0 /\ n - 1 \in 0 .. MAX_PCB /\ ~(n <= n - 1) /\ Len(r) <= (n - 1) + 1
    BY <1>2, <1>3, <1>5, <1>7, <2>1
  <2>3. PathsFollowed(n - 1)
    BY <1>1, <2>2
  <2>4. lineage[n - 1][q] = r
    BY <2>1, <2>2, <2>3 DEF PathsFollowed
  <2>5. lineage[n][p] = Append(r, p)
    BY <1>4, <2>1, <2>2, <2>4
  <2>6. QED BY <1>3, <2>1, <2>5
<1>8. QED BY <1>6, <1>7

\* The path to a terminal's top process is what the tree shows of it.
TreePaths ==
    \A t \in Term : \A s :
        /\ pid_running_in_terminal[t] \in Pid
        /\ Path(s, pid_running_in_terminal[t]) /\ Len(s) <= MAX_PCB + 1
        => treeOf[t] = s

LEMMA TreeIsPath == TreePaths
<1> SUFFICES ASSUME NEW t \in Term, NEW s, pid_running_in_terminal[t] \in Pid,
                    Path(s, pid_running_in_terminal[t]), Len(s) <= MAX_PCB + 1
             PROVE  treeOf[t] = s
  BY DEF TreePaths
<1>1. MAX_PCB \in 0 .. MAX_PCB
  BY TableAssumption
<1>2. lineage[MAX_PCB][pid_running_in_terminal[t]] = s
  BY <1>1, PathIsLineage DEF PathsFollowed
<1>3. pid_running_in_terminal[t] # NoPid
  BY DEF NoPid, Pid
<1>4. QED BY <1>2, <1>3 DEF treeOf

LEMMA TreeIsPathNext == TreePaths'
BY TreeIsPath, PTL

-----------------------------------------------------------------------------
\* Only the base shells are at depth 1; one step up is one less deep.
LEMMA OneUp ==
    ASSUME NEW D \in Depths, NEW O \in Owners, NEW L \in Leaves, Inv,
           \A u \in Term : Chain(D, O, L, u), NEW p \in Pid, D[p] # 0
    PROVE  LET q == pcb[p].parentID IN
           /\ D[p] \in Nat /\ (p \in Term <=> D[p] = 1)
           /\ p \in Term => q = p
           /\ p \notin Term => q \in Pid /\ D[q] = D[p] - 1 /\ D[q] # 0 /\ O[q] = O[p]
           /\ \A r \in Pid : D[r] = D[p] /\ O[r] = O[p] => r = p
<1> DEFINE q == pcb[p].parentID
<1>1. O[p] \in Term /\ D[p] \in Nat /\ q \in Pid
  BY DEF Owners, Depths, Inv, TypeOK
<1>2. D[q] \in Nat
  BY <1>1 DEF Depths
<1>3. Member(D, O, L, O[p], p)
  BY <1>1 DEF Chain
<1>4. p \notin Term => D[q] # 0 /\ O[q] = O[p] /\ D[p] = D[q] + 1
  BY <1>3 DEF Member, Child
<1>5. (p \in Term => D[p] = 1 /\ q = p) /\ \A r \in Pid : D[r] = D[p] /\ O[r] = O[p] => r = p
  BY <1>3 DEF Member
<1> HIDE DEF q
<1>6. p \notin Term => D[p] # 1 /\ D[q] = D[p] - 1
  BY <1>1, <1>2, <1>4
<1>7. QED BY <1>1, <1>4, <1>5, <1>6 DEF q

\* Above a process of the tree there is one at every depth.
LEMMA AncestorAt ==
    ASSUME NEW D \in Depths, NEW O \in Owners, NEW L \in Leaves, Inv,
           \A u \in Term : Chain(D, O, L, u), NEW p \in Pid, D[p] # 0
    PROVE  \A i \in 1 .. D[p] : \E r \in Pid : D[r] = i /\ O[r] = O[p]
<1> DEFINE A(i) == \E r \in Pid : D[r] = i /\ O[r] = O[p]
           T == {k \in 0 .. D[p] - 1 : ~A(D[p] - k)}
<1>1. D[p] \in Nat
  BY OneUp
<1>2. SUFFICES ASSUME T # {} PROVE FALSE
  <2>1. ASSUME NEW i \in 1 .. D[p], T = {} PROVE A(i)
    <3>1. D[p] - i \in 0 .. D[p] - 1 /\ D[p] - (D[p] - i) = i
      BY <1>1
    <3>2. A(D[p] - (D[p] - i))
      BY <2>1, <3>1
    <3> HIDE DEF A
    <3>3. QED BY <3>1, <3>2
  <2>2. QED BY <2>1
<1>3. PICK k \in T : \A m \in T : k <= m
  <2>1. T \in SUBSET Nat
    BY <1>1
  <2> HIDE DEF T
  <2>2. QED BY <1>2, <2>1, LeastNat
<1>4. k \in 0 .. D[p] - 1 /\ ~A(D[p] - k)
  BY <1>3
<1>5. k # 0
  <2>1. D[p] - 0 = D[p] /\ A(D[p])
    BY <1>1
  <2> HIDE DEF A
  <2>2. QED BY <1>4, <2>1
<1>6. k - 1 \in 0 .. D[p] - 1 /\ ~(k <= k - 1)
  BY <1>1, <1>4, <1>5
<1>7. A(D[p] - (k - 1))
  BY <1>3, <1>6
<1>8. PICK r \in Pid : D[r] = D[p] - (k - 1) /\ O[r] = O[p]
  BY <1>7
<1>9. D[r] # 0 /\ D[r] # 1 /\ D[r] - 1 = D[p] - k
  BY <1>1, <1>4, <1>5, <1>8
<1>10. pcb[r].parentID \in Pid /\ D[pcb[r].parentID] = D[r] - 1 /\ O[pcb[r].parentID] = O[p]
  BY <1>8, <1>9, OneUp
<1>11. QED BY <1>4, <1>9, <1>10

\* The processes above p, each at its depth, are the path to p.
LEMMA MemberPath ==
    ASSUME NEW D \in Depths, NEW O \in Owners, NEW L \in Leaves, Inv,
           \A u \in Term : Chain(D, O, L, u), NEW p \in Pid, D[p] # 0
    PROVE  \E s : /\ Path(s, p) /\ Len(s) = D[p] /\ D[p] <= MAX_PCB
                  /\ \A i \in 1 .. D[p] : s[i] \in Pid /\ D[s[i]] = i /\ O[s[i]] = O[p]
<1> DEFINE s == [i \in 1 .. D[p] |-> CHOOSE r \in Pid : D[r] = i /\ O[r] = O[p]]
<1>1. D[p] \in Nat \ {0} /\ D[p] \in 1 .. D[p] /\ 1 \in 1 .. D[p]
  BY OneUp
<1>2. \A i \in 1 .. D[p] : s[i] \in Pid /\ D[s[i]] = i /\ O[s[i]] = O[p]
  BY AncestorAt
<1>3. s \in Seq(Pid) /\ Len(s) = D[p]
  <2>1. s \in [1 .. D[p] -> Pid]
    BY <1>2
  <2> HIDE DEF s
  <2>2. QED BY <1>1, <2>1
<1> HIDE DEF s
<1>4. s[Len(s)] = p
  BY <1>1, <1>2, <1>3, OneUp
<1>5. pcb[s[1]].parentID = s[1]
  <2>1. s[1] \in Pid /\ D[s[1]] = 1 /\ D[s[1]] # 0
    BY <1>1, <1>2
  <2>2. QED BY <2>1, OneUp
<1>6. ASSUME NEW i \in 2 .. D[p]
      PROVE  pcb[s[i]].parentID = s[i - 1] /\ s[i] # s[i - 1]
  <2>1. i \in 1 .. D[p] /\ i - 1 \in 1 .. D[p] /\ i # 1 /\ i # 0 /\ i - 1 # i /\ i - 1 # 0
    BY <1>1
  <2>2. s[i] \in Pid /\ D[s[i]] = i /\ O[s[i]] = O[p]
    BY <1>2, <2>1
  <2>3. s[i - 1] \in Pid /\ D[s[i - 1]] = i - 1 /\ O[s[i - 1]] = O[p]
    BY <1>2, <2>1
  <2> DEFINE q == pcb[s[i]].parentID
  <2>4. q \in Pid /\ D[q] = i - 1 /\ O[q] = O[p]
    BY <2>1, <2>2, OneUp
  <2>5. q = s[i - 1]
    <3> HIDE DEF q
    <3>1. QED BY <2>1, <2>3, <2>4, OneUp
  <2>6. QED BY <2>1, <2>2, <2>3, <2>5
<1>7. D[p] <= MAX_PCB
  <2> SUFFICES ASSUME ~(D[p] <= MAX_PCB) PROVE FALSE
    OBVIOUS
  <2>1. MAX_PCB \in Nat /\ MAX_PCB - 1 \in Int /\ 0 \in Int /\ 1 \in Int /\ D[p] \in Int
    BY <1>1, TableAssumption
  <2>2. IsFiniteSet(Pid) /\ Cardinality(Pid) = MAX_PCB
    <3>1. IsFiniteSet(0 .. MAX_PCB - 1)
          /\ Cardinality(0 .. MAX_PCB - 1) = IF 0 > MAX_PCB - 1 THEN 0 ELSE (MAX_PCB - 1) - 0 + 1
      BY <2>1, FS_Interval
    <3>2. QED BY <2>1, <3>1 DEF Pid
  <2>3. IsFiniteSet(1 .. D[p]) /\ Cardinality(1 .. D[p]) = D[p]
    <3>1. IsFiniteSet(1 .. D[p])
          /\ Cardinality(1 .. D[p]) = IF 1 > D[p] THEN 0 ELSE D[p] - 1 + 1
      BY <2>1, FS_Interval
    <3>2. QED BY <1>1, <3>1
  <2>4. s \in [1 .. D[p] -> Pid]
    BY <1>3
  <2>5. Cardinality(Pid) < Cardinality(1 .. D[p])
    BY <1>1, <2>1, <2>2, <2>3
  <2>6. \E x, y \in 1 .. D[p] : x # y /\ s[x] = s[y]
    <3> DEFINE S == 1 .. D[p]
    <3>1. IsFiniteSet(S) /\ IsFiniteSet(Pid) /\ Cardinality(Pid) < Cardinality(S)
      BY <2>2, <2>3, <2>5
    <3>2. s \in [S -> Pid]
      BY <2>4
    <3> HIDE DEF S
    <3>3. \E x, y \in S : x # y /\ s[x] = s[y]
      BY <3>1, <3>2, FS_PigeonHole, Zenon
    <3>4. QED BY <3>3 DEF S
  <2>7. QED BY <1>2, <2>6
<1>8. Path(s, p)
  BY <1>1, <1>3, <1>4, <1>5, <1>6 DEF Path
<1>9. QED BY <1>2, <1>3, <1>7, <1>8

-----------------------------------------------------------------------------
\* The tree shows a terminal's processes by their depth.
LEMMA TreeOfTop ==
    ASSUME NEW D \in Depths, NEW O \in Owners, NEW L \in Leaves, Inv,
           \A u \in Term : Chain(D, O, L, u), NEW t \in Term,
           TopOf(t) \in Pid, D[TopOf(t)] # 0, O[TopOf(t)] = t
    PROVE  LET s == treeOf[t] IN
           /\ Path(s, TopOf(t)) /\ Len(s) = D[TopOf(t)] /\ Len(s) \in 1 .. MAX_PCB
           /\ \A i \in 1 .. Len(s) : s[i] \in Pid /\ D[s[i]] = i /\ O[s[i]] = t
<1>1. PICK s : /\ Path(s, TopOf(t)) /\ Len(s) = D[TopOf(t)] /\ D[TopOf(t)] <= MAX_PCB
               /\ \A i \in 1 .. D[TopOf(t)] : s[i] \in Pid /\ D[s[i]] = i /\ O[s[i]] = t
  BY MemberPath
<1>2. D[TopOf(t)] \in Nat \ {0} /\ MAX_PCB \in Nat
  BY OneUp, TableAssumption
<1>3. Len(s) <= MAX_PCB + 1 /\ Len(s) \in 1 .. MAX_PCB
  BY <1>1, <1>2
<1>4. treeOf[t] = s
  BY <1>1, <1>3, TreeIsPath DEF TreePaths, TopOf
<1>5. QED BY <1>1, <1>3, <1>4

\* While a program runs the tree of its terminal ends in it, and every
\* process above it started its child.
LEMMA UserTree ==
    ASSUME Safe, InUser
    PROVE  LET s == treeOf[Now] IN
           /\ processPerTerminal[Now] = Len(s)
           /\ \A i \in 2 .. Len(s) :
                 /\ pcb[s[i]].parentESP.stk = pcb[s[i]].parentID /\ pcb[s[i]].parentESP.sp > 0
                 /\ ParentFrame(s[i]).pc = "IRET_OUT"
<1>1. Inv /\ Runs(cpu)
  BY DEF Safe, Runs, InUser
<1>2. PICK D \in Depths, O \in Owners, L \in Leaves : Consistent(D, O, L)
  BY <1>1 DEF Safe
<1>3. InProgram(D, O, L)
  BY <1>2, UserPlace
<1>4. /\ Proc \in Pid /\ D[Proc] # 0 /\ O[Proc] = Now /\ Now \in Term /\ L[Now] = Proc
      /\ Started(Proc) /\ processPerTerminal[Now] = D[Proc] /\ TopOf(Now) = Proc
  BY <1>1, <1>3 DEF InProgram, Settled, Topped, Proc, Now, Inv, TypeOK
<1> DEFINE s == treeOf[Now]
<1>5. /\ Len(s) = D[Proc] /\ Len(s) \in Nat
      /\ \A i \in 1 .. Len(s) : s[i] \in Pid /\ D[s[i]] = i /\ O[s[i]] = Now
  BY <1>1, <1>2, <1>4, TreeOfTop DEF Consistent
<1> HIDE DEF s
<1>6. ASSUME NEW i \in 2 .. Len(s)
      PROVE  /\ pcb[s[i]].parentESP.stk = pcb[s[i]].parentID /\ pcb[s[i]].parentESP.sp > 0
             /\ ParentFrame(s[i]).pc = "IRET_OUT"
  <2>1. i \in 1 .. Len(s) /\ i # 1 /\ i # 0
    BY <1>5
  <2>2. s[i] \in Pid /\ D[s[i]] # 0 /\ D[s[i]] # 1 /\ O[s[i]] = Now
    BY <1>5, <2>1
  <2>3. Member(D, O, L, Now, s[i])
    BY <1>2, <1>4, <2>2 DEF Consistent, Chain
  <2>4. s[i] \notin Term /\ Started(s[i]) /\ Child(D, O, s[i])
    BY <1>4, <2>2, <2>3 DEF Member
  <2>5. QED BY <2>4 DEF Child, Started
<1>7. QED BY <1>4, <1>5, <1>6 DEF s

\* While a program runs, processPerTerminal, on which halt decides whether to
\* start a new shell, is the number of processes on the parentID links from
\* the program up to its base shell.
THEOREM CountsAgreeHolds ==
    ASSUME QuietBoot, SwitchPoints \subseteq CalmPoints
    PROVE  Spec => []CountsAgree
<1>1. Safe => CountsAgree
  BY UserTree DEF CountsAgree, Now
<1>2. QED BY <1>1, SafetyInvariant, PTL

\* While a program runs, every process under it stands in its execute, at the
\* %esp and on the statement that its child's halt will jump to.
THEOREM AncestorsWaitHolds ==
    ASSUME QuietBoot, SwitchPoints \subseteq CalmPoints
    PROVE  Spec => []AncestorsWait
<1>1. Safe => AncestorsWait
  BY UserTree DEF AncestorsWait, Waiting, Now, ParentFrame, FrameAt
<1>2. QED BY <1>1, SafetyInvariant, PTL

-----------------------------------------------------------------------------
(* Every step is a step of ProcessTree *)

\* A child lengthens the path of its parent, before and after a step.
PathsGrow ==
    \A p \in Pid, q \in Pid : \A r :
        Path(r, q) /\ pcb[p].parentID = q /\ p # q => Path(Append(r, p), p)

\* A child lengthens its parent's path.
LEMMA PathGrows == PathsGrow
<1> SUFFICES ASSUME NEW p \in Pid, NEW q \in Pid, NEW r,
                    Path(r, q), pcb[p].parentID = q, p # q
             PROVE  Path(Append(r, p), p)
  BY DEF PathsGrow
<1> DEFINE k == Len(r)
           s == Append(r, p)
<1>1. r \in Seq(Pid) /\ k \in Nat /\ k > 0 /\ r[k] = q
  BY DEF Path
<1>2. s \in Seq(Pid) /\ Len(s) = k + 1 /\ s[k + 1] = p /\ \A i \in 1 .. k : s[i] = r[i]
  BY <1>1
<1>3. 1 \in 1 .. k /\ pcb[s[1]].parentID = s[1]
  <2>1. pcb[r[1]].parentID = r[1]
    BY DEF Path
  <2> HIDE DEF k, s
  <2>2. QED BY <1>1, <1>2, <2>1
<1>4. ASSUME NEW i \in 2 .. Len(s) PROVE pcb[s[i]].parentID = s[i - 1] /\ s[i] # s[i - 1]
  <2>1. \A j \in 2 .. k : pcb[r[j]].parentID = r[j - 1] /\ r[j] # r[j - 1]
    BY DEF Path
  <2> HIDE DEF k, s
  <2>2. CASE i = k + 1
    <3>1. i - 1 = k /\ k \in 1 .. k
      BY <1>1, <2>2
    <3>2. s[i - 1] = q /\ s[i] = p
      BY <1>1, <1>2, <2>2, <3>1
    <3>3. QED BY <3>2
  <2>3. CASE i # k + 1
    <3>1. i \in 2 .. k /\ i \in 1 .. k /\ i - 1 \in 1 .. k
      BY <1>1, <1>2, <2>3
    <3>2. QED BY <1>2, <2>1, <3>1
  <2>4. QED BY <2>2, <2>3
<1> HIDE DEF k, s
<1>5. Len(s) > 0 /\ s[Len(s)] = p
  BY <1>1, <1>2
<1>6. Path(s, p)
  BY <1>2, <1>3, <1>4, <1>5 DEF Path
<1>7. QED BY <1>6 DEF s

LEMMA PathGrowsNext == PathsGrow'
BY PathGrows, PTL

\* A base shell alone.
LEMMA PathOfOne ==
    ASSUME NEW p \in Pid
    PROVE  /\ pcb[p].parentID = p => Path(<<p>>, p)
           /\ pcb'[p].parentID = p => Path(<<p>>, p)'
BY DEF Path

\* A path lasts while its processes keep their parents.
LEMMA PathKept ==
    ASSUME NEW p \in Pid, NEW s, Path(s, p),
           \A i \in 1 .. Len(s) : pcb'[s[i]].parentID = pcb[s[i]].parentID
    PROVE  Path(s, p)'
<1> DEFINE k == Len(s)
<1>1. s \in Seq(Pid) /\ k \in Nat /\ k > 0 /\ s[k] = p
  BY DEF Path
<1>2. /\ pcb[s[1]].parentID = s[1]
      /\ \A i \in 2 .. k : pcb[s[i]].parentID = s[i - 1] /\ s[i] # s[i - 1]
  BY DEF Path
<1>3. 1 \in 1 .. k /\ \A i \in 2 .. k : i \in 1 .. k
  <2> HIDE DEF k
  <2>1. QED BY <1>1
<1>4. /\ pcb'[s[1]].parentID = s[1]
      /\ \A i \in 2 .. k : pcb'[s[i]].parentID = s[i - 1] /\ s[i] # s[i - 1]
  BY <1>2, <1>3
<1>5. QED BY <1>1, <1>4 DEF Path

-----------------------------------------------------------------------------
\* The process on top of a terminal is its deepest one, a child about to
\* hand back in halt, or the base shell that halt is replacing.
HandingBack(D, O, p) ==
    LET q == pcb[p].parentID IN
    /\ cpu.mode = "kernel" /\ p = Top.pid /\ Top.pc \in {"h_page", "h_cur", "h_top"}
    /\ D[p] = 0 /\ q \in Pid /\ D[q] # 0 /\ O[q] = Now
Replaced(p) ==
    /\ cpu.mode = "kernel" /\ Top.pc = "b_top" /\ p = Now /\ pcb[p].parentID = p

\* What is on top of a terminal is a process of the tree, or on its way in or out.
LEMMA TopPlace ==
    ASSUME NEW D \in Depths, NEW O \in Owners, NEW L \in Leaves, Inv, Consistent(D, O, L),
           NEW t \in Term, TopOf(t) \in Pid
    PROVE  \/ D[TopOf(t)] # 0 /\ O[TopOf(t)] = t
           \/ t = Now /\ HandingBack(D, O, TopOf(t))
           \/ t = Now /\ Replaced(TopOf(t))
<1>1. NoPid \notin Pid
  BY Values
<1>2. CASE t # Now
  <2>1. in_use[t]
    BY <1>1 DEF Consistent, Counts
  <2>2. Topped(D, O, L, t)
    BY <1>2, <2>1 DEF Consistent, Others, Parked
  <2>3. QED BY <2>2 DEF Topped
<1>3. CASE t = Now
  <2>1. TopOf(t) = Proc /\ Proc \in Pid /\ Now \in Term
    BY <1>3 DEF Proc
  <2>2. CASE Topped(D, O, L, Now)
    BY <1>3, <2>2 DEF Topped
  <2>3. CASE cpu.mode = "kernel" /\ InBaseStart(D, O)
    BY <1>1, <2>1, <2>3 DEF InBaseStart
  <2>4. CASE cpu.mode = "kernel" /\ InRespawn(D, O)
    BY <1>1, <1>3, <2>1, <2>4 DEF InRespawn, Replaced
  <2>5. CASE cpu.mode = "kernel" /\ InHalt(D, O, L)
    <3>1. LET c == Top.pid
              q == pcb[c].parentID IN
          /\ D[c] = 0 /\ D[q] # 0 /\ O[q] = Now /\ c \in Pid /\ q \in Pid
          /\ Top.pc \in {"h_page", "h_cur", "h_top", "h_tss", "h_cnt", "h_jmp"}
          /\ Proc = IF Top.pc \in {"h_tss", "h_cnt", "h_jmp"} THEN q ELSE c
      <4>1. Top.pid \in Pid
        BY <2>5, HaltPlace DEF InHalt
      <4>2. pcb[Top.pid].parentID \in Pid
        BY <4>1 DEF Inv, TypeOK
      <4>3. QED BY <2>5, <4>1, <4>2 DEF InHalt
    <3>2. CASE Top.pc \in {"h_tss", "h_cnt", "h_jmp"}
      BY <1>3, <2>1, <3>1, <3>2
    <3>3. CASE Top.pc \notin {"h_tss", "h_cnt", "h_jmp"}
      BY <1>3, <2>1, <2>5, <3>1, <3>3 DEF HandingBack
    <3>4. QED BY <3>2, <3>3
  <2>6. CASE cpu.mode = "kernel" /\ InIdle(D)
    <3>1. ~in_use[t]
      BY <1>3, <2>6, Values DEF Consistent, Counts, InIdle, Term
    <3>2. QED BY <1>1, <3>1 DEF Consistent, Counts
  <2>7. QED
    BY <2>2, <2>3, <2>4, <2>5, <2>6
       DEF Consistent, Running, InProgram, InCall, InSwitch, InStart, InLoad, Settled
<1>4. QED BY <1>2, <1>3

\* The tree holds the processes of D and whatever is on top.
LEMMA TreeShape ==
    ASSUME NEW D \in Depths, NEW O \in Owners, NEW L \in Leaves, Inv, Consistent(D, O, L),
           NEW t \in Term, TopOf(t) \in Pid
    PROVE  LET s == treeOf[t] IN
           /\ Path(s, TopOf(t)) /\ Len(s) <= MAX_PCB + 1
           /\ \A i \in 1 .. Len(s) : s[i] \in Pid /\ (D[s[i]] # 0 \/ s[i] = TopOf(t))
<1> DEFINE p == TopOf(t)
<1>1. \A u \in Term : Chain(D, O, L, u)
  BY DEF Consistent
<1>2. CASE D[p] # 0 /\ O[p] = t
  <2>1. LET s == treeOf[t] IN
        /\ Path(s, TopOf(t)) /\ Len(s) \in 1 .. MAX_PCB
        /\ \A i \in 1 .. Len(s) : s[i] \in Pid /\ D[s[i]] = i
    BY <1>1, <1>2, TreeOfTop
  <2>2. MAX_PCB \in Nat
    BY TableAssumption
  <2> DEFINE s == treeOf[t]
  <2> HIDE DEF s
  <2>3. /\ Path(s, TopOf(t)) /\ Len(s) \in 1 .. MAX_PCB
        /\ \A i \in 1 .. Len(s) : s[i] \in Pid /\ D[s[i]] = i
    BY <2>1 DEF s
  <2>4. \A i \in 1 .. Len(s) : D[s[i]] # 0
    BY <2>3
  <2>5. QED BY <2>2, <2>3, <2>4 DEF s
<1>3. CASE HandingBack(D, O, p)
  <2> DEFINE q == pcb[p].parentID
  <2>1. q \in Pid /\ D[q] # 0 /\ p # q /\ p \in Pid
    BY <1>3 DEF HandingBack
  <2>2. PICK r : /\ Path(r, q) /\ Len(r) = D[q] /\ D[q] <= MAX_PCB
                 /\ \A i \in 1 .. D[q] : r[i] \in Pid /\ D[r[i]] = i
    BY <1>1, <2>1, MemberPath
  <2>3. Path(Append(r, p), p)
    BY <2>1, <2>2, PathGrows DEF PathsGrow
  <2>4. r \in Seq(Pid) /\ MAX_PCB \in Nat /\ D[q] \in Nat
    BY <2>1, <2>2, TableAssumption DEF Path, Depths
  <2> HIDE DEF p, q
  <2>5. /\ Len(Append(r, p)) = D[q] + 1
        /\ \A i \in 1 .. D[q] : Append(r, p)[i] = r[i]
        /\ Append(r, p)[D[q] + 1] = p
    BY <2>1, <2>2, <2>4
  <2>6. Len(Append(r, p)) <= MAX_PCB + 1
    BY <2>2, <2>4, <2>5
  <2>7. treeOf[t] = Append(r, p)
    BY <2>3, <2>6, TreeIsPath DEF TreePaths, TopOf, p
  <2>8. \A i \in 1 .. D[q] + 1 : i \in 1 .. D[q] \/ i = D[q] + 1
    BY <2>4
  <2>9. \A i \in 1 .. D[q] + 1 : Append(r, p)[i] \in Pid /\ (D[Append(r, p)[i]] # 0 \/ Append(r, p)[i] = p)
    BY <2>1, <2>2, <2>5, <2>8
  <2>10. QED BY <2>3, <2>5, <2>6, <2>7, <2>9 DEF p
<1>4. CASE Replaced(p)
  <2>1. Path(<<p>>, p) /\ Len(<<p>>) = 1 /\ Len(<<p>>) <= MAX_PCB + 1
    BY <1>4, PathOfOne, TableAssumption DEF Replaced
  <2>2. treeOf[t] = <<p>>
    BY <2>1, TreeIsPath DEF TreePaths, TopOf
  <2>3. QED BY <2>1, <2>2
<1>5. QED BY <1>2, <1>3, <1>4, TopPlace

\* A terminal without a process shows the empty stack.
LEMMA TreeDomain ==
    /\ treeOf = [t \in Term |-> treeOf[t]] /\ treeOf' = [t \in Term |-> treeOf'[t]]
    /\ \A t \in Term : /\ TopOf(t) = NoPid => treeOf[t] = <<>>
                       /\ TopOf(t)' = NoPid => treeOf'[t] = <<>>
BY DEF treeOf, TopOf

\* Terminal t keeps its stack while it keeps its top and these their parents.
LEMMA TreeKept ==
    ASSUME NEW D \in Depths, NEW O \in Owners, NEW L \in Leaves, Inv, Consistent(D, O, L),
           NEW t \in Term, TopOf(t)' = TopOf(t),
           \A p \in Pid : D[p] # 0 \/ p = TopOf(t) => pcb'[p].parentID = pcb[p].parentID
    PROVE  treeOf'[t] = treeOf[t]
<1>1. CASE TopOf(t) \in Pid
  <2> DEFINE s == treeOf[t]
  <2>1. /\ Path(s, TopOf(t)) /\ Len(s) <= MAX_PCB + 1
        /\ \A i \in 1 .. Len(s) : s[i] \in Pid /\ (D[s[i]] # 0 \/ s[i] = TopOf(t))
    BY <1>1, TreeShape
  <2> DEFINE p == TopOf(t)
  <2> HIDE DEF s
  <2>2. \A i \in 1 .. Len(s) : pcb'[s[i]].parentID = pcb[s[i]].parentID
    BY <2>1
  <2>3. PICK r, q : r = s /\ q = p
    OBVIOUS
  <2>4. q \in Pid /\ Path(r, q)
    BY <1>1, <2>1, <2>3
  <2>5. \A i \in 1 .. Len(r) : pcb'[r[i]].parentID = pcb[r[i]].parentID
    BY <2>2, <2>3
  <2>6. Path(r, q)'
    BY <2>4, <2>5, PathKept
  <2>7. q = pid_running_in_terminal'[t] /\ Len(r) <= MAX_PCB + 1
    BY <2>1, <2>3 DEF TopOf
  <2>8. treeOf'[t] = r
    BY <2>4, <2>6, <2>7, TreeIsPathNext DEF TreePaths
  <2>9. QED BY <2>3, <2>8 DEF s
<1>2. CASE TopOf(t) = NoPid
  BY <1>2, TreeDomain
<1>3. QED BY <1>1, <1>2, Values

-----------------------------------------------------------------------------
TreeStep == [Tree!Next]_(Tree!vars)

LEMMA TreeStutters ==
    ASSUME treeOf' = treeOf, in_use' = in_use, currentTerminal' = currentTerminal
    PROVE  TreeStep
BY DEF TreeStep, Tree!vars

\* Most statements of execute and halt touch neither the links nor the tops.
LEMMA QuietStep ==
    ASSUME NEW D \in Depths, NEW O \in Owners, NEW L \in Leaves, Inv, Consistent(D, O, L),
           UNCHANGED <<pid_running_in_terminal, currentTerminal, in_use>>,
           \A p \in Pid : D[p] # 0 \/ (\E t \in Term : p = TopOf(t)) =>
                pcb'[p].parentID = pcb[p].parentID
    PROVE  TreeStep
<1>1. ASSUME NEW t \in Term PROVE treeOf'[t] = treeOf[t]
  BY TreeKept DEF TopOf
<1>2. treeOf' = treeOf
  BY <1>1, TreeDomain
<1>3. QED BY <1>2, TreeStutters

\* The steps that leave the tree alone.
LEMMA QuietSteps ==
    ASSUME NEW D \in Depths, NEW O \in Owners, NEW L \in Leaves, Inv, Consistent(D, O, L),
           \/ ExecuteAlloc \/ ExecuteMark \/ ExecuteCurrent \/ ExecuteArguments
           \/ ExecutePage \/ ExecuteLoad \/ ExecuteTss \/ ExecuteIret \/ ExecuteReturns \/ HaltTest \/ HaltBaseExecute
           \/ HaltFree \/ HaltPage \/ HaltCurrent \/ HaltTss \/ HaltCount \/ HaltJump
           \/ UserStep \/ IOReturns \/ SwitchReturns
    PROVE  TreeStep
<1>1. UNCHANGED <<pid_running_in_terminal, pcb, screen>>
  BY DEF ExecuteAlloc, ExecuteMark, ExecuteCurrent, ExecuteArguments, ExecutePage,
         ExecuteLoad, ExecuteTss, ExecuteIret, ExecuteReturns, HaltTest, HaltBaseExecute, HaltFree, HaltPage,
         HaltCurrent, HaltTss, HaltCount, HaltJump, UserStep, SysExecute, SysHalt, Exception,
         SysIO, IOReturns, SwitchReturns, TableStep, MachineStep, Step, tables, screen
<1>2. QED BY <1>1, QuietStep DEF screen

\* The PCB that execute fills belongs to no process of the tree.
LEMMA NewPid ==
    ASSUME NEW D \in Depths, NEW O \in Owners, NEW L \in Leaves, Inv, Consistent(D, O, L),
           cpu.mode = "kernel", Top.pc \in {"e_mark", "e_init", "e_cur", "e_top"}
    PROVE  /\ Top.pid \in Pid /\ D[Top.pid] = 0 /\ in_use[Now]
           /\ Proc \in Pid => D[Proc] # 0
           /\ \A t \in Term : TopOf(t) \in Pid => D[TopOf(t)] # 0
<1>1. Top.pid \in Pid /\ D[Top.pid] = 0 /\ in_use[Now]
  <2>1. InStart(D, O, L) => Top.pid \in Pid /\ D[Top.pid] = 0 /\ in_use[Now]
    BY DEF InStart, Starting, FrameAt, Top, Topped
  <2>2. InBaseStart(D, O) /\ Top.pid = Now => Top.pid \in Pid /\ D[Top.pid] = 0 /\ in_use[Now]
    BY Values DEF InBaseStart, Empty
  <2>3. QED BY <2>1, <2>2, StartPid
<1>2. ASSUME NEW t \in Term, TopOf(t) \in Pid PROVE D[TopOf(t)] # 0
  BY <1>2, TopPlace DEF HandingBack, Replaced
<1>3. QED BY <1>1, <1>2, Values DEF Proc

\* A PCB is linked to its parent before its process is on top of a terminal.
LEMMA InitPCBStep ==
    ASSUME NEW D \in Depths, NEW O \in Owners, NEW L \in Leaves, Inv, Consistent(D, O, L),
           ExecuteInitPCB
    PROVE  TreeStep
<1>1. /\ cpu.mode = "kernel" /\ Top.pc = "e_init"
      /\ UNCHANGED <<pid_running_in_terminal, currentTerminal, in_use>>
      /\ \A p \in Pid : p # Top.pid => pcb'[p] = pcb[p]
  BY DEF ExecuteInitPCB, TableStep, Step, At, screen, Inv, TypeOK
<1>2. D[Top.pid] = 0 /\ \A t \in Term : TopOf(t) \in Pid => D[TopOf(t)] # 0
  BY <1>1, NewPid
<1>3. \A p \in Pid : D[p] # 0 \/ (\E t \in Term : p = TopOf(t)) => p # Top.pid
  BY <1>2
<1>4. QED BY <1>1, <1>3, QuietStep

\* The statement that puts the child on top spawns it.
LEMMA PublishStep ==
    ASSUME NEW D \in Depths, NEW O \in Owners, NEW L \in Leaves, Inv, Consistent(D, O, L),
           ExecutePublish
    PROVE  TreeStep
<1> DEFINE p == Top.pid
<1>1. /\ cpu.mode = "kernel" /\ Top.pc = "e_top"
      /\ pcb' = [pcb EXCEPT ![p].parentID = ParentOf(p)]
      /\ pid_running_in_terminal' = [pid_running_in_terminal EXCEPT ![TerminalOf(p)] = p]
      /\ UNCHANGED <<currentTerminal, in_use>>
  BY DEF ExecutePublish, TableStep, Step, At, screen, NewTop, TerminalOf
<1>2. p \in Pid /\ D[p] = 0 /\ in_use[Now] /\ \A t \in Term : TopOf(t) \in Pid => D[TopOf(t)] # 0
  BY <1>1, NewPid
<1>3. TerminalOf(p) = Now /\ Now \in Term /\ TopOf(Now) = Proc /\ (Proc \in Pid \/ Proc = NoPid)
  <2>1. InStart(D, O, L) => TerminalOf(p) = Now
    BY <1>1 DEF InStart, Starting, FrameAt, Top
  <2>2. InBaseStart(D, O) => TerminalOf(Now) = Now
    BY <1>1 DEF InBaseStart
  <2>3. QED BY <1>1, <2>1, <2>2, StartPid, Values DEF Proc
<1>4. ParentOf(p) = IF Proc = NoPid THEN p ELSE Proc
  <2>1. pid_running_in_terminal[pcb[p].running_in_terminal_num] = Proc
    BY <1>3 DEF TerminalOf, TopOf, Now, Proc
  <2>2. QED BY <1>3, <2>1 DEF ParentOf, Pid, NoPid
<1> HIDE DEF p
<1>5. /\ pcb'[p].parentID = ParentOf(p) /\ \A r \in Pid : r # p => pcb'[r] = pcb[r]
      /\ pid_running_in_terminal'[Now] = p
      /\ \A t \in Term : t # Now => pid_running_in_terminal'[t] = pid_running_in_terminal[t]
  BY <1>1, <1>2, <1>3 DEF Inv, TypeOK
<1>6. ASSUME NEW t \in Term, t # Now PROVE treeOf'[t] = treeOf[t]
  <2>1. \A r \in Pid : D[r] # 0 \/ r = TopOf(t) => pcb'[r].parentID = pcb[r].parentID
    BY <1>2, <1>5
  <2>2. TopOf(t)' = TopOf(t)
    BY <1>5, <1>6 DEF TopOf
  <2>3. QED BY <2>1, <2>2, TreeKept
<1>7. treeOf'[Now] = Append(treeOf[Now], p)
  <2>1. CASE Proc = NoPid
    <3>1. pcb'[p].parentID = p
      BY <1>4, <1>5, <2>1
    <3>2. PICK q \in Pid, t \in Term : q = p /\ t = Now
      BY <1>2, <1>3
    <3>3. Path(<<q>>, q)' /\ Len(<<q>>) = 1 /\ Len(<<q>>) <= MAX_PCB + 1
      BY <3>1, <3>2, PathOfOne, TableAssumption
    <3>4. pid_running_in_terminal'[t] = q
      BY <1>5, <3>2
    <3>5. treeOf'[t] = <<q>>
      BY <3>3, <3>4, TreeIsPathNext DEF TreePaths
    <3>6. treeOf[Now] = <<>>
      BY <1>3, <2>1, TreeDomain
    <3>7. Append(<<>>, p) = <<p>>
      OBVIOUS
    <3>8. QED BY <3>2, <3>5, <3>6, <3>7
  <2>2. CASE Proc \in Pid
    <3>1. /\ Path(treeOf[Now], Proc) /\ D[Proc] # 0
          /\ \A i \in 1 .. Len(treeOf[Now]) : treeOf[Now][i] \in Pid /\ D[treeOf[Now][i]] # 0
      BY <1>2, <1>3, <2>2, TreeShape
    <3>2. Len(treeOf[Now]) \in 1 .. MAX_PCB
      <4>1. O[Proc] = Now
        BY <1>1, <1>3, <2>2, <3>1, TopPlace DEF HandingBack, Replaced
      <4>2. QED BY <1>3, <2>2, <3>1, <4>1, TreeOfTop DEF Consistent
    <3>3a. PICK q \in Pid, a \in Pid, t \in Term : q = Proc /\ a = p /\ t = Now
      BY <1>2, <1>3, <2>2
    <3>3b. PICK r : r = treeOf[Now]
      OBVIOUS
    <3>3. r = treeOf[Now] /\ q = Proc /\ a = p /\ t = Now
      BY <3>3a, <3>3b
    <3>4. Path(r, q)'
      <4>1. \A i \in 1 .. Len(r) : pcb'[r[i]].parentID = pcb[r[i]].parentID
        BY <1>2, <1>5, <3>1, <3>3
      <4>2. Path(r, q)
        BY <3>1, <3>3
      <4>3. QED BY <4>1, <4>2, PathKept
    <3>5. pcb'[a].parentID = q /\ a # q
      BY <1>2, <1>3, <1>4, <1>5, <2>2, <3>1, <3>3, Values
    <3>6. Path(Append(r, a), a)'
      BY <3>4, <3>5, PathGrowsNext DEF PathsGrow
    <3>7. Len(Append(r, a)) <= MAX_PCB + 1
      <4>1. r \in Seq(Pid) /\ Len(r) \in 1 .. MAX_PCB /\ MAX_PCB \in Nat
        BY <3>1, <3>2, <3>3, TableAssumption DEF Path
      <4>2. QED BY <4>1
    <3>8. pid_running_in_terminal'[t] = a
      BY <1>5, <3>3
    <3>9. treeOf'[t] = Append(r, a)
      BY <3>6, <3>7, <3>8, TreeIsPathNext DEF TreePaths
    <3>10. QED BY <3>3, <3>9
  <2>3. QED BY <1>3, <2>1, <2>2
<1>8. treeOf' = [treeOf EXCEPT ![Now] = Append(@, p)]
  BY <1>3, <1>6, <1>7, TreeDomain
<1>9. p \notin Tree!Alive
  <2>1. ASSUME NEW t \in Term, NEW i \in 1 .. Len(treeOf[t]) PROVE treeOf[t][i] # p
    <3>1. CASE TopOf(t) \in Pid
      BY <1>2, <2>1, <3>1, TreeShape
    <3>2. CASE TopOf(t) = NoPid
      BY <2>1, <3>2, TreeDomain
    <3>3. QED BY <3>1, <3>2, Values
  <2>2. QED BY <2>1 DEF Tree!Alive, Tree!Pids
<1>10. Tree!Spawn(p)
  BY <1>1, <1>2, <1>3, <1>8, <1>9 DEF Tree!Spawn, Now
<1>11. QED BY <1>2, <1>10 DEF TreeStep, Tree!Next

-----------------------------------------------------------------------------
\* The program in front leaves: halt puts its parent on top.
LEMMA HaltTopStep ==
    ASSUME NEW D \in Depths, NEW O \in Owners, NEW L \in Leaves, Inv, Consistent(D, O, L),
           HaltTop
    PROVE  TreeStep
<1> DEFINE c == Top.pid
           s == treeOf[Now]
           r == SubSeq(s, 1, Len(s) - 1)
<1>1. /\ cpu.mode = "kernel" /\ Top.pc = "h_top"
      /\ pid_running_in_terminal' = [pid_running_in_terminal EXCEPT ![TerminalOf(c)] = currentProccess]
      /\ UNCHANGED <<pcb, currentTerminal, in_use>>
  BY DEF HaltTop, TableStep, Step, At, screen
<1>2. /\ InHalt(D, O, L) /\ c \in Pid /\ TerminalOf(c) = Now /\ Now \in Term
      /\ currentProccess = pcb[c].parentID /\ TopOf(Now) = c
  BY <1>1, HaltPlace
<1>3. D[c] = 0 /\ D[pcb[c].parentID] # 0 /\ pcb[c].parentID \in Pid /\ pcb[c].parentID # c
  BY <1>2 DEF InHalt, Inv, TypeOK
<1>4. /\ pid_running_in_terminal'[Now] = pcb[c].parentID
      /\ \A t \in Term : t # Now => pid_running_in_terminal'[t] = pid_running_in_terminal[t]
  BY <1>1, <1>2 DEF Inv, TypeOK
<1>5. Path(s, c) /\ Len(s) <= MAX_PCB + 1
  BY <1>2, TreeShape
<1> HIDE DEF c, s
<1>6. s \in Seq(Pid) /\ Len(s) \in Nat /\ Len(s) > 0
  BY <1>5 DEF Path
<1>7. Len(s) # 1
  BY <1>3, <1>5 DEF Path
<1>8. /\ pcb[c].parentID = s[Len(s) - 1] /\ Path(r, pcb[c].parentID) /\ Len(r) = Len(s) - 1
  BY <1>2, <1>5, <1>7, PathUp
<1>9. Len(r) <= MAX_PCB + 1
  BY <1>5, <1>6, <1>8, TableAssumption
<1> HIDE DEF r
<1>10. treeOf'[Now] = r
  <2>1. PICK q \in Pid, t \in Term : q = pcb[c].parentID /\ t = Now
    BY <1>2, <1>3
  <2>2. PICK x : x = r
    OBVIOUS
  <2>3. Path(x, q)
    BY <1>8, <2>1, <2>2
  <2>4. Path(x, q)'
    BY <1>1, <2>1, <2>3, PathKept
  <2>5. pid_running_in_terminal'[t] = q /\ Len(x) <= MAX_PCB + 1
    BY <1>4, <1>9, <2>1, <2>2
  <2>6. treeOf'[t] = x
    BY <2>4, <2>5, TreeIsPathNext DEF TreePaths
  <2>7. QED BY <2>1, <2>2, <2>6
<1>11. ASSUME NEW t \in Term, t # Now PROVE treeOf'[t] = treeOf[t]
  <2>1. TopOf(t)' = TopOf(t)
    BY <1>4, <1>11 DEF TopOf
  <2>2. QED BY <1>1, <2>1, TreeKept
<1>12. treeOf' = [treeOf EXCEPT ![Now] = SubSeq(@, 1, Len(@) - 1)]
  BY <1>2, <1>10, <1>11, TreeDomain DEF r, s
<1>13. Tree!Exit
  BY <1>1, <1>2, <1>6, <1>12 DEF Tree!Exit, Now, s
<1>14. QED BY <1>13 DEF TreeStep, Tree!Next

\* The base shell leaves: its terminal is empty until execute starts another.
LEMMA HaltBaseTopStep ==
    ASSUME NEW D \in Depths, NEW O \in Owners, NEW L \in Leaves, Inv, Consistent(D, O, L),
           HaltBaseTop
    PROVE  TreeStep
<1>1. /\ cpu.mode = "kernel" /\ Top.pc = "b_top"
      /\ pid_running_in_terminal' = [pid_running_in_terminal EXCEPT ![TerminalOf(Top.pid)] = NoPid]
      /\ UNCHANGED <<pcb, currentTerminal, in_use>>
  BY DEF HaltBaseTop, TableStep, Step, At, screen
<1>2. /\ TerminalOf(Top.pid) = Now /\ Proc = Now /\ pcb[Now].parentID = Now
      /\ Now \in Term /\ Now \in Pid
  BY <1>1, Places, Values DEF InRespawn
<1>3. treeOf[Now] = <<Now>>
  <2>1. PICK t \in Term, q \in Pid : t = Now /\ q = Now
    BY <1>2
  <2>2. Path(<<q>>, q) /\ Len(<<q>>) = 1 /\ Len(<<q>>) <= MAX_PCB + 1
    BY <1>2, <2>1, PathOfOne, TableAssumption
  <2>3. pid_running_in_terminal[t] = q
    BY <1>2, <2>1 DEF Proc, TopOf
  <2>4. treeOf[t] = <<q>>
    BY <2>2, <2>3, TreeIsPath DEF TreePaths
  <2>5. QED BY <2>1, <2>4
<1>4. /\ TopOf(Now)' = NoPid
      /\ \A t \in Term : t # Now => TopOf(t)' = TopOf(t)
  BY <1>1, <1>2 DEF TopOf, Now, Inv, TypeOK
<1>5. treeOf'[Now] = <<>>
  <2>1. PICK t \in Term : t = Now
    BY <1>2
  <2>2. Now' = Now
    BY <1>1 DEF Now
  <2>3. TopOf(t)' = NoPid
    BY <1>4, <2>1, <2>2
  <2>4. QED BY <2>1, <2>3, TreeDomain
<1>6. ASSUME NEW t \in Term, t # Now PROVE treeOf'[t] = treeOf[t]
  <2>1. TopOf(t)' = TopOf(t)
    BY <1>4, <1>6
  <2>2. QED BY <1>1, <2>1, TreeKept
<1>7. Len(treeOf[Now]) = 1 /\ SubSeq(treeOf[Now], 1, Len(treeOf[Now]) - 1) = <<>>
  <2>1. Len(<<Now>>) = 1 /\ SubSeq(<<Now>>, 1, 0) = <<>>
    OBVIOUS
  <2>2. QED BY <1>3, <2>1
<1>8. treeOf' = [treeOf EXCEPT ![Now] = SubSeq(@, 1, Len(@) - 1)]
  BY <1>2, <1>5, <1>6, <1>7, TreeDomain
<1>9. Tree!Exit
  BY <1>1, <1>2, <1>7, <1>8 DEF Tree!Exit, Now
<1>10. QED BY <1>9 DEF TreeStep, Tree!Next

-----------------------------------------------------------------------------
\* Saving a stack pointer changes no link.
LEMMA SaveKeepsTree ==
    ASSUME NEW D \in Depths, NEW O \in Owners, NEW L \in Leaves, Inv, Consistent(D, O, L),
           UNCHANGED pid_running_in_terminal,
           \A p \in Pid : pcb'[p].parentID = pcb[p].parentID
    PROVE  treeOf' = treeOf
<1>1. \A t \in Term : TopOf(t)' = TopOf(t)
  BY DEF TopOf
<1>2. \A t \in Term : treeOf'[t] = treeOf[t]
  BY <1>1, TreeKept
<1>3. QED BY <1>2, TreeDomain

\* A switch saves into a PCB and leaves its link to the parent.
LEMMA SavedLinks ==
    ASSUME Inv, NEW x, NEW e, pcb' = pcb \/ pcb' = [pcb EXCEPT ![x].processESP = e]
    PROVE  \A p \in Pid : pcb'[p].parentID = pcb[p].parentID
<1>1. pcb \in [Pid -> [processESP : Esp, parentESP : Esp, parentID : Pid,
                       running_in_terminal_num : Term]]
  BY DEF Inv, TypeOK
<1>2. QED BY <1>1

\* The tick that opens a terminal, and the key that shows it again.
LEMMA CreateStep ==
    ASSUME NEW D \in Depths, NEW O \in Owners, NEW L \in Leaves, Inv, Consistent(D, O, L),
           NEW t \in Term, CreateTerminal(t)
    PROVE  TreeStep
<1>1. /\ ~in_use[t] /\ in_use' = [in_use EXCEPT ![t] = TRUE] /\ currentTerminal' = t
      /\ UNCHANGED pid_running_in_terminal
      /\ pcb' = pcb \/ pcb' = [pcb EXCEPT ![CreateSavesIn(t)].processESP = SavedEsp]
  BY DEF CreateTerminal
<1>2. treeOf' = treeOf
  BY <1>1, SavedLinks, SaveKeepsTree
<1>3. {u \in Term : in_use'[u]} = {u \in Term : in_use[u]} \cup {t}
  BY <1>1 DEF Inv, TypeOK
<1>4. Tree!Open(t)
  BY <1>1, <1>2, <1>3 DEF Tree!Open
<1>5. QED BY <1>4 DEF TreeStep, Tree!Next

LEMMA FocusStep ==
    ASSUME NEW D \in Depths, NEW O \in Owners, NEW L \in Leaves, Inv, Consistent(D, O, L),
           NEW t \in Term, FocusTerminal(t), cpu'.mode # "crashed"
    PROVE  TreeStep
<1>1. /\ in_use[t] /\ UNCHANGED <<pid_running_in_terminal, in_use>>
      /\ pcb' = pcb \/ pcb' = [pcb EXCEPT ![currentProccess].processESP = SavedEsp]
  BY DEF FocusTerminal
<1>2. treeOf' = treeOf
  BY <1>1, SavedLinks, SaveKeepsTree
<1>3. CASE InterruptedEsp.sp < StackFrames
  <2>1. currentTerminal' = t /\ TopOf(t) # NoPid
    BY <1>3 DEF FocusTerminal, TopOf, Crashed
  <2>2. Path(treeOf[t], TopOf(t))
    BY <2>1, TreeShape, Values
  <2>3. treeOf[t] # <<>>
    <3>1. Len(treeOf[t]) > 0
      BY <2>2 DEF Path
    <3>2. QED BY <3>1
  <2>4. Tree!Focus(t)
    BY <1>1, <1>2, <2>1, <2>3 DEF Tree!Focus
  <2>5. QED BY <2>4 DEF TreeStep, Tree!Next
<1>4. CASE ~(InterruptedEsp.sp < StackFrames)
  BY <1>1, <1>2, <1>4, TreeStutters DEF FocusTerminal
<1>5. QED BY <1>3, <1>4

\* Every step is a step of ProcessTree or leaves the tree alone.
LEMMA StepImplementsTree ==
    ASSUME Safe, Next, cpu'.mode # "crashed"
    PROVE  TreeStep
<1>1. Inv /\ Runs(cpu)
  BY StepRuns DEF Safe
<1>2. PICK D \in Depths, O \in Owners, L \in Leaves : Consistent(D, O, L)
  BY <1>1 DEF Safe
<1>3. ASSUME NEW t \in Term, SwitchTerminal(t) PROVE TreeStep
  BY <1>1, <1>2, <1>3, CreateStep, FocusStep DEF SwitchTerminal
<1>4. ASSUME Interrupt PROVE TreeStep
  <2>1. ASSUME PitTick PROVE TreeStep
    <3>1. pit_interrupt_count \in Term /\ SwitchTerminal(pit_interrupt_count)
      BY <1>1, <2>1, TableAssumption DEF PitTick, ShellsPending, Inv, TypeOK, Term
    <3>2. QED BY <1>3, <3>1
  <2>2. ASSUME NEW t \in Term, FunctionKey(t) PROVE TreeStep
    BY <1>3, <2>2 DEF FunctionKey
  <2>3. QED BY <1>4, <2>1, <2>2 DEF Interrupt
<1>5. QED
  BY <1>1, <1>2, <1>4, QuietSteps, InitPCBStep, PublishStep, HaltTopStep, HaltBaseTopStep
     DEF Next, ExecuteStep, HaltStep

\* The tables and PCB links that execute, halt and switchTerminal keep by
\* hand are, step by step, one stack of processes per terminal, of which only
\* the terminal on the screen changes.
THEOREM TreeImplemented ==
    ASSUME QuietBoot, SwitchPoints \subseteq CalmPoints
    PROVE  Spec => ImplementsTree
<1>1. Init => Tree!Init
  <2> SUFFICES ASSUME Init PROVE Tree!Init
    OBVIOUS
  <2>1. treeOf = [t \in Term |-> <<>>]
    BY DEF Init, treeOf
  <2>2. {t \in Term : in_use[t]} = {} /\ currentTerminal = 0
    BY DEF Init
  <2>3. QED BY <2>1, <2>2 DEF Tree!Init
<1>2. Safe /\ Safe' /\ [Next]_vars => [Tree!Next]_(Tree!vars)
  <2> SUFFICES ASSUME Safe, Safe', [Next]_vars PROVE TreeStep
    BY DEF TreeStep
  <2>1. CASE Next
    BY <2>1, StepImplementsTree DEF Safe
  <2>2. CASE UNCHANGED vars
    <3>1. UNCHANGED <<pcb, pid_running_in_terminal, in_use, currentTerminal>>
      BY <2>2 DEF vars, tables, screen
    <3>2. treeOf' = treeOf
      BY <3>1 DEF treeOf, lineage
    <3>3. QED BY <3>1, <3>2, TreeStutters
  <2>3. QED BY <2>1, <2>2
<1>3. QED BY <1>1, <1>2, SafetyInvariant, PTL DEF Spec, ImplementsTree, Tree!Spec
=============================================================================
