--------------------------------- MODULE Rtc ---------------------------------
(***************************************************************************)
(* The real-time clock and its driver (rtc.c).  The chip is reached        *)
(* through an index register and a data port: changeRtcFreq and the        *)
(* interrupt handler share the two, and keep each other out with cli.  A   *)
(* read of the clock waits for the handler to clear one flag that the      *)
(* programs of all terminals share.                                        *)
(*                                                                         *)
(* One program per terminal; only the displayed one runs (TaskSwitch).     *)
(* The handler is an interrupt gate, so it is one action.                  *)
(***************************************************************************)
EXTENDS Integers, FiniteSets

CONSTANTS Term,
          Requests,     \* the numbers programs write to the clock
          RegA, RegB    \* what the BIOS leaves in two of the chip's registers

Byte == 0 .. 255
PIE == 64               \* MASK_40, rtc.h: periodic interrupt enable
DEFAULT_2HZ == 2
MAX_FREQ == 1024

ASSUME RequestAssumption == Requests \subseteq Nat
ASSUME ChipAssumption == RegA \in Byte /\ RegB \in Byte /\ (RegB \div PIE) % 2 = 0

VARIABLES
    index,                  \* the register the data port reads and writes
    chip,                   \* registers A and B; C is the flag below
    interruptFlag,          \* register C: an interrupt happened and was not read
    irq8,                   \* the interrupt request, raised by a new flag in C
    cpu_if,                 \* eflags.IF
    rtc_interrupt_flag,     \* 1 while a reader waits
    oldVal,                 \* register A as changeRtcFreq read it
    program,                \* what each terminal's program does, and the rate it sets
    currentTerminal,
    asked,                  \* history: the frequency set last
    ticked                  \* history: an interrupt since the read began

vars == <<index, chip, interruptFlag, irq8, cpu_if, rtc_interrupt_flag, oldVal, program,
          currentTerminal, asked, ticked>>

(* The cases of changeRtcFreq; the chip divides 32768 Hz by 2^(rate - 1).  *)
Frequencies == {2, 4, 8, 16, 32, 64, 128, 256, 512, 1024}
Hz(rate) == 32768 \div 2^(rate - 1)
RatesOf(freq) == IF freq \in Frequencies THEN {r \in 6 .. 15 : Hz(r) = freq}
                 ELSE 0 .. 15      \* rate is not initialised

WithRate(reg, rate) == (reg \div 16) * 16 + rate

(* initRTC: the default rate, then bit 6 of register B. *)
Init ==
    /\ index = "B"
    /\ chip \in [A : {WithRate(RegA, r) : r \in RatesOf(MAX_FREQ)}, B : {RegB + PIE}]
    /\ interruptFlag = FALSE /\ irq8 = FALSE
    /\ cpu_if = TRUE
    /\ rtc_interrupt_flag = 0
    /\ oldVal = RegB
    /\ program = [t \in Term |-> [pc |-> "run", freq |-> MAX_FREQ]]
    /\ currentTerminal \in Term
    /\ asked = MAX_FREQ
    /\ ticked = [t \in Term |-> FALSE]

-----------------------------------------------------------------------------
(* The chip: no new interrupt until register C has been read *)

Tick ==
    /\ (chip.B \div PIE) % 2 = 1 /\ ~interruptFlag
    /\ interruptFlag' = TRUE
    /\ irq8' = TRUE
    /\ UNCHANGED <<index, chip, cpu_if, rtc_interrupt_flag, oldVal, program, currentTerminal,
                   asked, ticked>>

\* Mutant: register C is not read.
FlagKept == interruptFlag

\* inb(CMOS_PORT) with C selected
FlagRead == FALSE

rtcHandler ==
    /\ irq8 /\ cpu_if
    /\ irq8' = FALSE
    /\ index' = "C"
    /\ interruptFlag' = FlagRead
    /\ rtc_interrupt_flag' = 0
    /\ ticked' = [t \in Term |-> TRUE]
    /\ UNCHANGED <<chip, cpu_if, oldVal, program, currentTerminal, asked>>

-----------------------------------------------------------------------------
(* The program of the displayed terminal *)

At(pc) == program[currentTerminal].pc = pc
Goto(pc) == program' = [program EXCEPT ![currentTerminal].pc = pc]

Weights == <<1, 2, 4, 8, 16, 32, 64, 128, 256, 512, 1024>>
SetBits(n) == Cardinality({k \in 1 .. 11 : (n \div Weights[k]) % 2 = 1})     \* of n <= MAX_FREQ
Valid(freq) == freq \in DEFAULT_2HZ .. MAX_FREQ /\ SetBits(freq) = 1

(* A write of another number returns -1 and changes nothing. *)
StartChange(freq) ==
    /\ At("run")
    /\ program' = [program EXCEPT ![currentTerminal] = [pc |-> "cli", freq |-> freq]]
    /\ UNCHANGED <<index, chip, interruptFlag, irq8, cpu_if, rtc_interrupt_flag, oldVal,
                   currentTerminal, asked, ticked>>
rtcOpen == StartChange(DEFAULT_2HZ)
rtcWrite(freq) == Valid(freq) /\ StartChange(freq)

\* Mutant: the registers are set with interrupts enabled.
DisabledNot == TRUE
Disabled == FALSE

(* cli_and_save: the flags reach their variable after the cli. *)
Cli ==
    /\ At("cli") /\ Goto("select")
    /\ cpu_if' = Disabled
    /\ UNCHANGED <<index, chip, interruptFlag, irq8, rtc_interrupt_flag, oldVal,
                   currentTerminal, asked, ticked>>

(* outb(PORT_A, RTC_PORT), before the data port is read and again before   *)
(* it is written.                                                          *)
Select(from, to) ==
    /\ At(from) /\ Goto(to)
    /\ index' = "A"
    /\ UNCHANGED <<chip, interruptFlag, irq8, cpu_if, rtc_interrupt_flag, oldVal,
                   currentTerminal, asked, ticked>>

(* A stray read of C takes its flag, and reads nothing else of use. *)
GetOldVal ==
    /\ At("get") /\ Goto("reselect")
    /\ oldVal' = IF index = "C" THEN 0 ELSE chip[index]
    /\ interruptFlag' = (interruptFlag /\ index # "C")
    /\ UNCHANGED <<index, chip, irq8, cpu_if, rtc_interrupt_flag, currentTerminal, asked, ticked>>

(* A write to C is lost. *)
PutRate ==
    /\ At("put") /\ Goto("restore")
    /\ \E rate \in RatesOf(program[currentTerminal].freq) :
         chip' = IF index = "C" THEN chip ELSE [chip EXCEPT ![index] = WithRate(oldVal, rate)]
    /\ asked' = program[currentTerminal].freq
    /\ UNCHANGED <<index, interruptFlag, irq8, cpu_if, rtc_interrupt_flag, oldVal,
                   currentTerminal, ticked>>

(* restore_flags, sti *)
RestoreFlags ==
    /\ At("restore") /\ Goto("run")
    /\ cpu_if' = TRUE
    /\ UNCHANGED <<index, chip, interruptFlag, irq8, rtc_interrupt_flag, oldVal,
                   currentTerminal, asked, ticked>>

\* Mutant: the flag is left as it is.
WaitingNot == rtc_interrupt_flag
Waiting == 1

rtcRead ==
    /\ At("run") /\ Goto("wait")
    /\ rtc_interrupt_flag' = Waiting
    /\ ticked' = [ticked EXCEPT ![currentTerminal] = FALSE]
    /\ UNCHANGED <<index, chip, interruptFlag, irq8, cpu_if, oldVal, currentTerminal, asked>>

rtcReadReturns ==
    /\ At("wait") /\ rtc_interrupt_flag # 1
    /\ Goto("run")
    /\ UNCHANGED <<index, chip, interruptFlag, irq8, cpu_if, rtc_interrupt_flag, oldVal,
                   currentTerminal, asked, ticked>>

(* F1-F3, taken in an interrupt as well. *)
SwitchTerminal(t) ==
    /\ cpu_if
    /\ currentTerminal' = t
    /\ UNCHANGED <<index, chip, interruptFlag, irq8, cpu_if, rtc_interrupt_flag, oldVal,
                   program, asked, ticked>>

Change ==
    \/ Cli \/ Select("select", "get") \/ GetOldVal \/ Select("reselect", "put")
    \/ PutRate \/ RestoreFlags
Program ==
    \/ rtcOpen \/ (\E freq \in Requests : rtcWrite(freq)) \/ Change
    \/ rtcRead \/ rtcReadReturns

Next == Tick \/ rtcHandler \/ Program \/ \E t \in Term : SwitchTerminal(t)

Spec == Init /\ [][Next]_vars

(* The chip ticks, the request is taken as soon as interrupts are enabled, *)
(* and the program on the screen has the processor.                        *)
FairSpec == Spec /\ WF_vars(Tick) /\ SF_vars(rtcHandler) /\ WF_vars(Change) /\ WF_vars(rtcReadReturns)

-----------------------------------------------------------------------------
TypeOK ==
    /\ index \in {"A", "B", "C"}
    /\ chip \in [A : Byte, B : Byte]
    /\ interruptFlag \in BOOLEAN /\ irq8 \in BOOLEAN /\ cpu_if \in BOOLEAN
    /\ rtc_interrupt_flag \in {0, 1}
    /\ oldVal \in Byte
    /\ program \in [Term -> [pc : {"run", "cli", "select", "get", "reselect", "put", "restore", "wait"},
                             freq : Frequencies]]
    /\ currentTerminal \in Term
    /\ asked \in Frequencies
    /\ ticked \in [Term -> BOOLEAN]

(* The chip runs at the frequency set last, and its other bits are as the  *)
(* BIOS and initRTC left them: no interrupt or switch between the accesses *)
(* to index and data port sends one to a wrong register.                   *)
RegistersAsSet ==
    /\ Hz(chip.A % 16) = asked
    /\ chip.A \div 16 = RegA \div 16
    /\ chip.B = RegB + PIE

(* A read of the clock returns only after an interrupt that came after it  *)
(* began, although one flag serves the readers of all terminals.           *)
ReadSeesInterrupt == [][rtcReadReturns => ticked[currentTerminal]]_vars

(* A program that stays on the screen is not left waiting for the clock.   *)
ReadsReturn ==
    \A t \in Term : <>[](currentTerminal = t) => []<>(program[t].pc # "wait")
=============================================================================
