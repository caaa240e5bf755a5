------------------------ MODULE TaskSwitchInvariant ------------------------
(***************************************************************************)
(* Why every saved stack pointer is good: the inductive invariant behind   *)
(* the safety of TaskSwitch.  It says, of each terminal off the screen,    *)
(* which process it would resume and at which statement, and of the one on *)
(* the screen how far the kernel has come in handing the machine over.     *)
(*                                                                         *)
(* Three ghosts describe the tree of processes, which the code keeps only  *)
(* as links: the depth D[p] of process p in its terminal, 0 while it is    *)
(* not one of its processes; its terminal O[p], from the choice of the pid *)
(* on; and L[u], the deepest process of terminal u.                        *)
(***************************************************************************)
EXTENDS TaskSwitch

\* The places where a switch leaves consistent tables behind.
CalmPoints == {"idle", "io", "e_alloc", "e_init", "e_cur", "e_args", "e_page", "e_load",
               "e_tss", "e_iret", "IRET_OUT", "h_test", "h_free"}
LoadPcs == {"e_args", "e_page", "e_load", "e_tss", "e_iret"}

Booted == pit_interrupt_count = MAX_TERMINAL_NUMBER
Now == currentTerminal
TopOf(u) == pid_running_in_terminal[u]
Proc == TopOf(Now)
SavedAt(u) == pcb[TopOf(u)].processESP
FrameAt(e) == kstack[e.stk][e.sp]
ParentFrame(p) == FrameAt(pcb[p].parentESP)
Below(e) == [e EXCEPT !.sp = @ - 1]

Depths == [Pid -> Nat]
Owners == [Pid -> Term]
Leaves == [Term -> Pid]

-----------------------------------------------------------------------------
(* The tree *)

\* The parent's execute stands where p's halt jumps to.
Started(p) == p \notin Term => ParentFrame(p).pc = "IRET_OUT"

\* Process p is no base shell: it lies on its parent.
Child(D, O, p) ==
    LET q == pcb[p].parentID IN
    /\ D[q] # 0 /\ O[q] = O[p] /\ D[p] = D[q] + 1
    /\ pcb[p].parentESP.stk = q /\ pcb[p].parentESP.sp > 0
    /\ ParentFrame(p).ret = q /\ ParentFrame(p).pc \in LoadPcs \cup {"IRET_OUT"}
    /\ Booted

\* Process p of terminal u; a base shell has the number of its terminal.
Member(D, O, L, u, p) ==
    /\ activeProccess[p] /\ TerminalOf(p) = u /\ in_use[u]
    /\ D[L[u]] # 0 /\ O[L[u]] = u /\ D[p] <= D[L[u]]
    /\ \A r \in Pid : D[r] = D[p] /\ O[r] = u => r = p
    /\ p \in Term => p = u /\ D[p] = 1 /\ pcb[p].parentID = p
    /\ p \notin Term => Child(D, O, p)
    /\ p # L[u] => Started(p)
Chain(D, O, L, u) == \A p \in Pid : D[p] # 0 /\ O[p] = u => Member(D, O, L, u, p)

\* Terminal u has its deepest process on top.
Topped(D, O, L, u) ==
    /\ in_use[u] /\ TopOf(u) \in Pid /\ L[u] = TopOf(u)
    /\ D[TopOf(u)] # 0 /\ O[TopOf(u)] = u
    /\ D[u] # 0 /\ O[u] = u

Counts(u) ==
    /\ in_use[u] <=> u < pit_interrupt_count
    /\ ~in_use[u] => TopOf(u) = NoPid /\ ~activeProccess[u] /\ processPerTerminal[u] = 0

-----------------------------------------------------------------------------
(* What terminal u does at frame e *)

\* A system call of its top process.
Calling(D, u, e) ==
    /\ e.stk = TopOf(u) /\ FrameAt(e).ret = TopOf(u) /\ Started(TopOf(u))
    /\ FrameAt(e).pc \in {"io", "e_alloc", "IRET_OUT", "h_test", "h_free"}
    /\ FrameAt(e).pc = "h_free" => FrameAt(e).pid = TopOf(u) /\ TopOf(u) \notin Term
    /\ FrameAt(e).pc # "io" => Booted
    /\ processPerTerminal[u] = D[TopOf(u)]

\* execute by its top process, before the child is on top.
Starting(D, O, u, e) ==
    LET p == FrameAt(e).pid IN
    /\ e.stk = TopOf(u) /\ FrameAt(e).ret = TopOf(u) /\ Started(TopOf(u)) /\ Booted
    /\ FrameAt(e).pc \in {"e_mark", "e_init", "e_cur", "e_top"}
    /\ p \in Pid \ Term /\ D[p] = 0 /\ O[p] = u
    /\ activeProccess[p] <=> FrameAt(e).pc # "e_mark"
    /\ FrameAt(e).pc \in {"e_mark", "e_init"} => processPerTerminal[u] = D[TopOf(u)]
    /\ FrameAt(e).pc \in {"e_cur", "e_top"} =>
         /\ processPerTerminal[u] = D[TopOf(u)] + 1
         /\ TerminalOf(p) = u /\ pcb[p].parentESP = e

\* Once they are copied, the arguments are those of the program that called
\* execute; a switch just before the copy is the one thing that spoils them.
Undisturbed == "e_args" \notin SwitchPoints
Copied(u, e) ==
    Undisturbed /\ FrameAt(e).pc # "e_args" /\ FrameAt(e).ret # NoPid
        => arguments[TopOf(u)] = FrameAt(e).ret

\* execute, once the new process is on top.
Loading(D, u, e) ==
    /\ FrameAt(e).pc \in LoadPcs /\ FrameAt(e).pid = TopOf(u) /\ pcb[TopOf(u)].parentESP = e
    /\ FrameAt(e).pc \in {"e_tss", "e_iret"} => image[TopOf(u)] = FrameAt(e).prog
    /\ Copied(u, e)
    /\ processPerTerminal[u] = D[TopOf(u)]

\* A switch handler that returns to the program or to one of the above.
Resumable(D, O, u, e) ==
    /\ e.sp > 0 /\ D[e.stk] # 0 /\ O[e.stk] = u /\ FrameAt(e).pc = "switch"
    /\ \/ /\ FrameAt(e).ret = TopOf(u) /\ e.stk = TopOf(u) /\ Started(TopOf(u))
          /\ processPerTerminal[u] = D[TopOf(u)]
       \/ /\ FrameAt(e).ret = NoPid /\ e.sp > 1
          /\ \/ Calling(D, u, Below(e))
             \/ Starting(D, O, u, Below(e)) /\ FrameAt(Below(e)).pc \in {"e_init", "e_cur"}
             \/ Loading(D, u, Below(e)) /\ (FrameAt(Below(e)).pc = "e_args" => ~Undisturbed)

\* A terminal off the screen.
Parked(D, O, L, u) == Topped(D, O, L, u) /\ Resumable(D, O, u, SavedAt(u))

-----------------------------------------------------------------------------
(* What the terminal on the screen does *)

\* All records of who runs agree.
Settled(D, O, L) ==
    /\ Topped(D, O, L, Now)
    /\ currentProccess = Proc /\ page_directory = Proc /\ tss_esp0.stk = Proc
InProgram(D, O, L) ==
    Settled(D, O, L) /\ cpu.proc = Proc /\ Started(Proc) /\ processPerTerminal[Now] = D[Proc]
InCall(D, O, L) == Settled(D, O, L) /\ Calling(D, Now, cpu.esp)
InSwitch(D, O, L) == Settled(D, O, L) /\ Resumable(D, O, Now, cpu.esp)
InStart(D, O, L) ==
    /\ Topped(D, O, L, Now) /\ Starting(D, O, Now, cpu.esp)
    /\ page_directory = Proc
    /\ currentProccess = IF Top.pc = "e_top" THEN Top.pid ELSE Proc

\* Nobody else's frames lie on stack s from position k on.
Free(D, s, k) ==
    /\ \A p \in Pid \ Term : D[p] # 0 => pcb[p].parentESP.stk # s
    /\ \A u \in Term : in_use[u] /\ u # Now /\ SavedAt(u).stk = s => SavedAt(u).sp < k
\* A base shell is started on the stack that was interrupted or, with
\* interrupts, on the one of the base shell before it.
OnFreeStack(D, e) == Free(D, e.stk, e.sp) /\ (FrameAt(e).ifl => e.stk = Now)

InLoad(D, O, L) ==
    /\ Topped(D, O, L, Now) /\ Loading(D, Now, cpu.esp) /\ currentProccess = Proc
    /\ Top.pc \notin {"e_args", "e_page"} => page_directory = Proc
    /\ Undisturbed /\ Top.pc = "e_args" /\ Top.ret # NoPid => page_directory = Top.ret
    /\ Top.pc = "e_iret" => tss_esp0.stk = Proc
    /\ Proc \in Term => OnFreeStack(D, cpu.esp)

\* The terminal has no process.
Empty(D, O) == in_use[Now] /\ D[Now] = 0 /\ \A p \in Pid : D[p] # 0 => O[p] # Now

InBaseStart(D, O) ==
    /\ Top.pc \in {"e_alloc", "e_mark", "e_init", "e_cur", "e_top"}
    /\ Empty(D, O) /\ Proc = NoPid /\ OnFreeStack(D, cpu.esp) /\ Top.ret = NoPid
    /\ Top.pc # "e_alloc" => Top.pid = Now /\ O[Now] = Now
    /\ activeProccess[Now] <=> Top.pc \in {"e_init", "e_cur", "e_top"}
    /\ processPerTerminal[Now] = IF Top.pc \in {"e_cur", "e_top"} THEN 1 ELSE 0
    /\ Top.pc \in {"e_cur", "e_top"} => TerminalOf(Now) = Now /\ pcb[Now].parentESP = cpu.esp
    /\ Top.pc = "e_top" => currentProccess = Now
InRespawn(D, O) ==
    /\ Top.pc \in {"b_top", "b_cnt"} /\ Top.pid = Now /\ cpu.esp.stk = Now
    /\ Empty(D, O) /\ ~activeProccess[Now]
    /\ TerminalOf(Now) = Now /\ processPerTerminal[Now] = 1
    /\ pcb[Now].parentID = Now
    /\ Proc = IF Top.pc = "b_top" THEN Now ELSE NoPid

\* halt by process c, which is no longer in the tree.
InHalt(D, O, L) ==
    LET c == Top.pid
        q == pcb[c].parentID IN
    /\ Top.pc \in {"h_page", "h_cur", "h_top", "h_tss", "h_cnt", "h_jmp"}
    /\ c \notin Term /\ D[c] = 0 /\ cpu.esp.stk = c /\ TerminalOf(c) = Now
    /\ in_use[Now] /\ L[Now] = q /\ D[q] # 0 /\ O[q] = Now /\ D[Now] # 0 /\ O[Now] = Now
    /\ Started(q) /\ Booted
    /\ pcb[c].parentESP.stk = q /\ pcb[c].parentESP.sp > 0
    /\ ParentFrame(c).ret = q /\ ParentFrame(c).pc = "IRET_OUT"
    /\ Top.pc # "h_page" => page_directory = q
    /\ Top.pc \notin {"h_page", "h_cur"} => currentProccess = q
    /\ Proc = IF Top.pc \in {"h_tss", "h_cnt", "h_jmp"} THEN q ELSE c
    /\ Top.pc \in {"h_cnt", "h_jmp"} => tss_esp0.stk = q
    /\ processPerTerminal[Now] = IF Top.pc = "h_jmp" THEN D[q] ELSE D[q] + 1

InIdle(D) == Top.pc = "idle" /\ pit_interrupt_count = 0 /\ \A p \in Pid : D[p] = 0

Running(D, O, L) ==
    \/ cpu.mode = "user" /\ InProgram(D, O, L)
    \/ /\ cpu.mode = "kernel"
       /\ \/ InCall(D, O, L) \/ InSwitch(D, O, L) \/ InStart(D, O, L) \/ InLoad(D, O, L)
          \/ InBaseStart(D, O) \/ InRespawn(D, O) \/ InHalt(D, O, L) \/ InIdle(D)

-----------------------------------------------------------------------------
Others(D, O, L) == \A u \in Term : in_use[u] /\ u # Now => Parked(D, O, L, u)

Consistent(D, O, L) ==
    /\ \A u \in Term : Chain(D, O, L, u) /\ Counts(u)
    /\ \A p \in Pid \ Term : activeProccess[p] => Booted
    /\ Others(D, O, L)
    /\ Running(D, O, L)
=============================================================================
