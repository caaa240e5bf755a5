----------------------------- MODULE Interrupts -----------------------------
(***************************************************************************)
(* The two 8259 controllers (i8259.c) and the handlers that acknowledge    *)
(* them: timer_handler / IRQ0 / pit_scheduling, keyboard_handler /         *)
(* keyboardHandler, rtc / rtcHandler, with switchTerminal between the      *)
(* acknowledgement and the return.                                         *)
(*                                                                         *)
(* A context is a kernel stack: one per terminal and the boot stack.  It   *)
(* holds activations, each with the interrupt flag its code runs with; an  *)
(* interrupt pushes one, iret pops it.  A context left by switchTerminal   *)
(* goes on at the statement after the call.  Where the stacks lie and      *)
(* which program owns them is TaskSwitch's matter.                         *)
(***************************************************************************)
EXTENDS Integers, Sequences, FiniteSets

CONSTANTS MAX_TERMINAL_NUMBER,
          MaxCalls,       \* activations of programs and their calls, per context
          MaxDepth,       \* activations per context, handlers included
          MaxEarly,       \* requests raised while a handler still runs
          QuietBoot       \* no terminal key before the three shells exist

ASSUME SizeAssumption ==
    /\ MAX_TERMINAL_NUMBER \in Nat \ {0} /\ MaxEarly \in Nat
    /\ MaxCalls \in Nat /\ MaxDepth \in Nat /\ 2 <= MaxCalls /\ MaxCalls < MaxDepth
    /\ QuietBoot \in BOOLEAN

NUM_OF_PORTS == 8
SLAVE_IRQ == 2
Line == 0 .. 15
Master == 0 .. NUM_OF_PORTS - 1
Slave == Line \ Master

Device == {"pit", "key", "rtc"}
Irq == [pit |-> 0, key |-> 1, rtc |-> 8]

Term == 0 .. MAX_TERMINAL_NUMBER - 1
Boot == MAX_TERMINAL_NUMBER             \* the stack entry() runs on
Context == Term \union {Boot}

Activation == [of : Device \union {"boot", "user", "call"},
               pc : {"pic", "rtc", "keyboard", "terminals", "pit", "hlt", "run",
                     "entry", "switch", "slave_eoi", "eoi_again", "sti", "popfl"},
               iflag : BOOLEAN]

VARIABLES
    master_mask, slave_mask,    \* the masked lines of the two controllers
    irr, isr,                   \* requested lines, lines in service
    stack,                      \* the activations of each context
    running,                    \* the context %esp lies in
    in_use,                     \* available_terminals[].in_use
    pit_interrupt_count,
    early                       \* counts towards MaxEarly

vars == <<master_mask, slave_mask, irr, isr, stack, running, in_use,
          pit_interrupt_count, early>>
masks == <<master_mask, slave_mask>>
tables == <<in_use, pit_interrupt_count>>

-----------------------------------------------------------------------------
(* The processor.                                                          *)

Act(of, pc, flag) == [of |-> of, pc |-> pc, iflag |-> flag]
Top == stack[running][Len(stack[running])]
At(of, pc) == Top.of = of /\ Top.pc = pc
Push(a) == [stack EXCEPT ![running] = Append(@, a)]
Pop == [stack EXCEPT ![running] = SubSeq(@, 1, Len(@) - 1)]
Goto(pc, flag) ==
    [stack EXCEPT ![running] = [@ EXCEPT ![Len(@)] = Act(Top.of, pc, flag)]]

-----------------------------------------------------------------------------
(* i8259.c on the masks; the statement in disable_irq sets every bit but   *)
(* the one of its line.                                                    *)

\* Mutant: the mask is cleared as a whole.
master_mask_all(n) == {}

master_mask_on(n) == IF n < NUM_OF_PORTS THEN master_mask \ {n} ELSE master_mask
slave_mask_on(n, mask) == IF n < NUM_OF_PORTS THEN mask ELSE mask \ {n}
slave_mask_off(n) == IF n < NUM_OF_PORTS THEN slave_mask ELSE slave_mask \union (Slave \ {n})

enable_irq(n) ==
    /\ master_mask' = master_mask_on(n)
    /\ slave_mask' = slave_mask_on(n, slave_mask)

\* Mutant: the byte goes out without the number of the line.
send_eoi_0(n) == isr \ {0}

(* One byte of send_eoi: the specific end of interrupt clears the bit of   *)
(* its line, whoever set it.                                               *)
send_eoi(n) == isr \ {n}

(* entry() of kernel.c, one action per driver it initialises.              *)
i8259_init ==
    /\ At("boot", "pic")
    /\ enable_irq(SLAVE_IRQ)
    /\ stack' = Goto("rtc", TRUE)
    /\ UNCHANGED <<irr, isr, running, tables, early>>

initRTC ==
    /\ At("boot", "rtc")
    /\ slave_mask' = slave_mask_on(Irq["rtc"], slave_mask_off(Irq["rtc"]))
    /\ stack' = Goto("keyboard", TRUE)
    /\ UNCHANGED <<master_mask, irr, isr, running, tables, early>>

initKeyboard ==
    /\ At("boot", "keyboard")
    /\ enable_irq(Irq["key"])
    /\ stack' = Goto("terminals", TRUE)
    /\ UNCHANGED <<irr, isr, running, tables, early>>

initTerminals ==
    /\ At("boot", "terminals")
    /\ in_use' = {}
    /\ stack' = Goto("pit", TRUE)
    /\ UNCHANGED <<masks, irr, isr, running, pit_interrupt_count, early>>

init_pit ==
    /\ At("boot", "pit")
    /\ pit_interrupt_count' = 0
    /\ enable_irq(Irq["pit"])
    /\ stack' = Goto("hlt", TRUE)
    /\ UNCHANGED <<irr, isr, running, in_use, early>>

-----------------------------------------------------------------------------
(* The controllers: a request is latched whatever the mask says; the       *)
(* highest unmasked one reaches the processor unless a line of the same or *)
(* a higher priority is in service.  The slave's line is the master's 2.   *)

InHandler == \E i \in 1 .. Len(stack[running]) : stack[running][i].of \in Device

(* Handlers are much shorter than the devices' periods: a request comes    *)
(* while one runs MaxEarly times.                                          *)
Raise(d) ==
    /\ Irq[d] \notin irr
    /\ InHandler => early < MaxEarly
    /\ early' = IF InHandler THEN early + 1 ELSE early
    /\ irr' = irr \union {Irq[d]}
    /\ UNCHANGED <<masks, isr, stack, running, tables>>

SlaveRequests == 8 \in (irr \ slave_mask) \ isr
Requested == ((irr \intersect {0, 1}) \union (IF SlaveRequests THEN {SLAVE_IRQ} ELSE {}))
                \ master_mask
Wins(n) == n \in Requested /\ \A m \in Requested : n <= m
LineAtMaster(d) == IF d = "rtc" THEN SLAVE_IRQ ELSE Irq[d]

(* The processor takes the interrupt; the slave answers for line 2 with    *)
(* its own vector, so the gate of IRQ2 is never used.                      *)
Take(d) ==
    /\ Top.iflag
    /\ Wins(LineAtMaster(d))
    /\ \A m \in isr \intersect Master : LineAtMaster(d) < m
    /\ Len(stack[running]) < MaxDepth
    /\ irr' = irr \ {Irq[d]}
    /\ isr' = isr \union {Irq[d], LineAtMaster(d)}
    /\ stack' = Push(Act(d, "entry", FALSE))
    /\ UNCHANGED <<masks, running, tables, early>>

-----------------------------------------------------------------------------
(* The handlers.                                                           *)

(* switchTerminal(t), called from the top activation, which goes on at its *)
(* own end of interrupt when its context runs again.  A new terminal's     *)
(* shell starts with the flags of the handler: IF clear in user mode.      *)
SwitchTerminal(t) ==
    /\ isr' = send_eoi(Irq["key"])
    /\ IF t \in in_use
       THEN stack' = Goto("eoi_again", FALSE)
       ELSE stack' = [Goto("eoi_again", FALSE) EXCEPT ![t] = <<Act("user", "run", FALSE)>>]
    /\ in_use' = in_use \union {t}
    /\ running' = t
    /\ UNCHANGED <<masks, irr, pit_interrupt_count, early>>

\* Mutant: pit_scheduling leaves the acknowledgement to IRQ0.
EarlyEoiNot == isr

(* pit_scheduling acknowledges before it calls switchTerminal, which does  *)
(* not come back for a new shell.                                          *)
EarlyEoi == send_eoi(Irq["pit"])

\* Mutant: one tick too many.
ShellsPendingMore == pit_interrupt_count <= MAX_TERMINAL_NUMBER

ShellsPending == pit_interrupt_count < MAX_TERMINAL_NUMBER

PitCounts ==
    /\ At("pit", "entry")
    /\ ShellsPending
    /\ pit_interrupt_count' = pit_interrupt_count + 1
    /\ isr' = EarlyEoi
    /\ stack' = Goto("switch", FALSE)
    /\ UNCHANGED <<masks, irr, running, in_use, early>>

PitSwitches == At("pit", "switch") /\ SwitchTerminal(pit_interrupt_count - 1)

(* IRQ0 once the shells exist: only the acknowledgement. *)
PitTicks ==
    /\ At("pit", "entry")
    /\ ~ShellsPending
    /\ isr' = send_eoi(Irq["pit"])
    /\ stack' = Goto("sti", FALSE)
    /\ UNCHANGED <<masks, irr, running, tables, early>>

(* keyboardHandler on a key that switches no terminal. *)
KeyTyped ==
    /\ At("key", "entry")
    /\ isr' = send_eoi(Irq["key"])
    /\ stack' = Goto("sti", FALSE)
    /\ UNCHANGED <<masks, irr, running, tables, early>>

FunctionKey(t) ==
    /\ At("key", "entry")
    /\ QuietBoot => pit_interrupt_count = MAX_TERMINAL_NUMBER
    /\ SwitchTerminal(t)

(* rtcHandler's send_eoi(8): the master's byte, then the slave's.          *)
RtcMasterEoi ==
    /\ At("rtc", "entry")
    /\ isr' = send_eoi(SLAVE_IRQ)
    /\ stack' = Goto("slave_eoi", FALSE)
    /\ UNCHANGED <<masks, irr, running, tables, early>>

RtcSlaveEoi ==
    /\ At("rtc", "slave_eoi")
    /\ isr' = send_eoi(Irq["rtc"])
    /\ stack' = Goto("sti", FALSE)
    /\ UNCHANGED <<masks, irr, running, tables, early>>

(* The end of IRQ0 and of keyboardHandler after switchTerminal returned to *)
(* them, which may be much later: the line was acknowledged before.        *)
EoiAgain ==
    /\ Top.pc = "eoi_again"
    /\ isr' = send_eoi(Irq[Top.of])
    /\ stack' = Goto("sti", FALSE)
    /\ UNCHANGED <<masks, irr, running, tables, early>>

(* restore_flags(flags) gives IF=0, sti sets it before the handler returns *)
(* to its wrapper: another interrupt may come on top.                      *)
EnableInterrupts ==
    /\ Top.pc = "sti"
    /\ stack' = Goto("popfl", TRUE)
    /\ UNCHANGED <<masks, irr, isr, running, tables, early>>

(* popfl, popal, iret of the wrapper. *)
Iret ==
    /\ Top.pc = "popfl"
    /\ stack' = Pop
    /\ UNCHANGED <<masks, irr, isr, running, tables, early>>

-----------------------------------------------------------------------------
(* Programs.  A system call runs with IF set and returns to the flags of   *)
(* its caller; a program started by a call inherits the call's flags.      *)

SysCall ==
    /\ Top.of = "user"
    /\ Len(stack[running]) < MaxCalls
    /\ stack' = Push(Act("call", "run", TRUE))
    /\ UNCHANGED <<masks, irr, isr, running, tables, early>>

SysReturn ==
    /\ Top.of = "call"
    /\ stack' = Pop
    /\ UNCHANGED <<masks, irr, isr, running, tables, early>>

SysExecute ==
    /\ Top.of = "call"
    /\ Len(stack[running]) + 1 < MaxCalls
    /\ stack' = Push(Act("user", "run", TRUE))
    /\ UNCHANGED <<masks, irr, isr, running, tables, early>>

(* halt, also reached through an exception: back into the parent's call of *)
(* execute; a base shell is executed again from inside halt.               *)
SysHalt ==
    /\ Top.of = "call"
    /\ stack' = IF Len(stack[running]) = 2
                THEN [stack EXCEPT ![running] = <<Act("user", "run", TRUE)>>]
                ELSE [stack EXCEPT ![running] = SubSeq(@, 1, Len(@) - 2)]
    /\ UNCHANGED <<masks, irr, isr, running, tables, early>>

-----------------------------------------------------------------------------
Init ==
    /\ master_mask = Master /\ slave_mask = Slave
    /\ irr = {} /\ isr = {}
    /\ stack = [c \in Context |-> IF c = Boot THEN <<Act("boot", "pic", FALSE)>> ELSE <<>>]
    /\ running = Boot
    /\ in_use = {}
    /\ pit_interrupt_count = 0
    /\ early = 0

BootStep == i8259_init \/ initRTC \/ initKeyboard \/ initTerminals \/ init_pit

Handler ==
    \/ PitCounts \/ PitSwitches \/ PitTicks
    \/ KeyTyped \/ \E t \in Term : FunctionKey(t)
    \/ RtcMasterEoi \/ RtcSlaveEoi
    \/ EoiAgain \/ EnableInterrupts \/ Iret

Program == SysCall \/ SysReturn \/ SysExecute \/ SysHalt

Next ==
    \/ BootStep \/ Handler \/ Program
    \/ \E d \in Device : Raise(d) \/ Take(d)

Spec == Init /\ [][Next]_vars

(* The processor executes the kernel; a program that runs with IF clear is *)
(* a first shell, which does its next system call; a request that can be   *)
(* taken again and again is taken.                                         *)
FairSpec ==
    /\ Spec
    /\ WF_vars(BootStep)
    /\ WF_vars(Handler)
    /\ WF_vars(SysCall /\ ~Top.iflag)
    /\ \A d \in Device : SF_vars(Take(d))

-----------------------------------------------------------------------------
TypeOK ==
    /\ master_mask \subseteq Master /\ slave_mask \subseteq Slave
    /\ irr \subseteq Line /\ isr \subseteq Line
    /\ stack \in [Context -> Seq(Activation)]
    /\ running \in Context /\ stack[running] # <<>>
    /\ in_use \subseteq Term
    /\ pit_interrupt_count \in 0 .. MAX_TERMINAL_NUMBER
    /\ early \in 0 .. MaxEarly

(* The lines an activation still has to acknowledge. *)
Unacknowledged(a) ==
    CASE a.pc = "entry" /\ a.of = "rtc" -> {SLAVE_IRQ, 8}
      [] a.pc = "entry" /\ a.of # "rtc" -> {Irq[a.of]}
      [] a.pc = "slave_eoi" -> {8}
      [] OTHER -> {}

(* A line is in service exactly while the handler on top of the running    *)
(* stack has it to acknowledge: no acknowledgement ends another handler's  *)
(* service, none is lost when switchTerminal leaves the stack, and nothing *)
(* but a handler before its acknowledgement keeps an interrupt out         *)
(* (send_eoi and its callers).                                             *)
InServiceIsTop == isr = Unacknowledged(Top)

(* The first terminal opens when entry() has initialised every driver, and *)
(* exactly their lines are unmasked: the boot stack is left for good by    *)
(* switchTerminal, and what it had not yet done would never be done.       *)
DriversReady ==
    in_use # {} =>
        /\ stack[Boot][1].pc = "hlt"
        /\ Line \ (master_mask \union slave_mask) = {0, 1, SLAVE_IRQ, 8}

(* Every request of an unmasked line is taken: the acknowledgements leave  *)
(* no line in service for ever, not even when a handler's stack is left.   *)
RequestsServed ==
    \A d \in Device :
        (Irq[d] \in irr \ (master_mask \union slave_mask)) ~> (Irq[d] \notin irr)
=============================================================================
