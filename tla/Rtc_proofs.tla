----------------------------- MODULE Rtc_proofs -----------------------------
(***************************************************************************)
(* Proofs about Rtc, for every number of terminals, set of requests and    *)
(* contents of the chip: the pairs of accesses to index register and data  *)
(* port stay together, and a read returns only after an interrupt.         *)
(***************************************************************************)
EXTENDS Rtc, FiniteSetTheorems, TLAPS

(* Between cli and restore_flags; there the index register stays at A from *)
(* its selection on, and oldVal is what register A holds.                  *)
Held == {"select", "get", "reselect", "put", "restore"}
Pcs == {"run", "cli", "wait"} \cup Held

AccessesTogether ==
    /\ \A t \in Term : program[t].pc \in Held => t = currentTerminal /\ ~cpu_if
    /\ At("get") \/ At("reselect") \/ At("put") => index = "A"
    /\ At("reselect") \/ At("put") => oldVal = chip.A

(* A reader whose flag is gone has had an interrupt.                       *)
WaitersTicked ==
    \A t \in Term : program[t].pc = "wait" /\ rtc_interrupt_flag # 1 => ticked[t]

IInv == TypeOK /\ RegistersAsSet /\ AccessesTogether /\ WaitersTicked

-----------------------------------------------------------------------------
(* A number in the accepted range with one bit set is one of the cases of  *)
(* changeRtcFreq, so no rate is left uninitialised.                        *)
LEMMA ValidIsACase ==
    ASSUME NEW n \in Nat, Valid(n)
    PROVE  n \in Frequencies
<1> DEFINE S == {k \in 1 .. 11 : (n \div Weights[k]) % 2 = 1}
<1>1. n \in 2 .. 1024 /\ Cardinality(S) = 1
  BY DEF Valid, SetBits, DEFAULT_2HZ, MAX_FREQ
<1>2. IsFiniteSet(S)
  <2>1. IsFiniteSet(1 .. 11)
    BY FS_Interval, 1 \in Int, 11 \in Int
  <2>2. S \subseteq 1 .. 11
    OBVIOUS
  <2> QED BY <2>1, <2>2, FS_Subset
<1>3. PICK k : S = {k}
  BY <1>1, <1>2, FS_Singleton
<1>4. k \in 1 .. 11 /\ \A j \in 1 .. 11 : (n \div Weights[j]) % 2 = IF j = k THEN 1 ELSE 0
  <2>1. k \in S
    BY <1>3
  <2>2. \A j \in 1 .. 11 : Weights[j] \in Nat \ {0}
    BY DEF Weights
  <2>3. \A j \in 1 .. 11 : (n \div Weights[j]) % 2 \in {0, 1}
    BY <2>2
  <2>4. \A j \in 1 .. 11 : (n \div Weights[j]) % 2 = 1 <=> j = k
    BY <1>3
  <2> QED BY <2>1, <2>3, <2>4
<1>5. /\ (n \div 1) % 2 = (IF 1 = k THEN 1 ELSE 0) /\ (n \div 2) % 2 = (IF 2 = k THEN 1 ELSE 0)
      /\ (n \div 4) % 2 = (IF 3 = k THEN 1 ELSE 0) /\ (n \div 8) % 2 = (IF 4 = k THEN 1 ELSE 0)
      /\ (n \div 16) % 2 = (IF 5 = k THEN 1 ELSE 0) /\ (n \div 32) % 2 = (IF 6 = k THEN 1 ELSE 0)
      /\ (n \div 64) % 2 = (IF 7 = k THEN 1 ELSE 0) /\ (n \div 128) % 2 = (IF 8 = k THEN 1 ELSE 0)
      /\ (n \div 256) % 2 = (IF 9 = k THEN 1 ELSE 0) /\ (n \div 512) % 2 = (IF 10 = k THEN 1 ELSE 0)
      /\ (n \div 1024) % 2 = (IF 11 = k THEN 1 ELSE 0)
  BY <1>4 DEF Weights
<1> QED BY <1>1, <1>4, <1>5, SMTT(60) DEF Frequencies

\* The rate is kept in four bits of register A.
LEMMA WithRateBits ==
    ASSUME NEW reg \in Byte, NEW rate \in 0 .. 15
    PROVE  /\ WithRate(reg, rate) \in Byte
           /\ WithRate(reg, rate) % 16 = rate
           /\ WithRate(reg, rate) \div 16 = reg \div 16
BY DEF WithRate, Byte

\* Every accepted frequency has a rate that gives it.
LEMMA Rates ==
    ASSUME NEW freq \in Frequencies, NEW rate \in RatesOf(freq)
    PROVE  rate \in 0 .. 15 /\ Hz(rate) = freq
BY DEF RatesOf

-----------------------------------------------------------------------------
LEMMA InitInv == Init => IInv
<1> SUFFICES ASSUME Init PROVE IInv
  OBVIOUS
<1>1. MAX_FREQ \in Frequencies
  BY DEF MAX_FREQ, Frequencies
<1>2. PICK r \in RatesOf(MAX_FREQ) : chip = [A |-> WithRate(RegA, r), B |-> RegB + PIE]
  BY DEF Init
<1>3. /\ chip.A \in Byte /\ chip.A \div 16 = RegA \div 16 /\ Hz(chip.A % 16) = MAX_FREQ
  BY <1>1, <1>2, Rates, WithRateBits, ChipAssumption
<1>4. RegB + PIE \in Byte
  BY ChipAssumption DEF Byte, PIE
<1>5. TypeOK
  BY <1>1, <1>2, <1>3, <1>4, ChipAssumption DEF Init, TypeOK
<1>6. RegistersAsSet
  BY <1>2, <1>3 DEF Init, RegistersAsSet
<1>7. \A t \in Term : program[t].pc = "run"
  BY DEF Init
<1>8. AccessesTogether /\ WaitersTicked
  BY <1>5, <1>7 DEF AccessesTogether, WaitersTicked, At, Held, TypeOK
<1> QED BY <1>5, <1>6, <1>8 DEF IInv

-----------------------------------------------------------------------------
(* The steps *)

LEMMA ProgramTypes ==
    ASSUME IInv
    PROVE  /\ currentTerminal \in Term
           /\ program[currentTerminal].pc \in Pcs /\ program[currentTerminal].freq \in Frequencies
           /\ chip.A \in Byte /\ chip.B \in Byte
BY DEF IInv, TypeOK, Pcs, Held

LEMMA TickKeeps == ASSUME IInv, Tick PROVE IInv'
BY DEF Tick, IInv, TypeOK, RegistersAsSet, AccessesTogether, WaitersTicked, At

(* The handler runs only where no pair of accesses is under way.           *)
LEMMA HandlerKeeps == ASSUME IInv, rtcHandler PROVE IInv'
<1>1. \A t \in Term : program[t].pc \notin Held
  BY DEF rtcHandler, IInv, AccessesTogether
<1>2. TypeOK'
  BY DEF rtcHandler, FlagRead, IInv, TypeOK
<1>3. AccessesTogether'
  <2>1. currentTerminal' \in Term /\ program' = program /\ currentTerminal' = currentTerminal
    BY ProgramTypes DEF rtcHandler
  <2> QED BY <1>1, <2>1 DEF AccessesTogether, At, Held
<1>4. RegistersAsSet' /\ WaitersTicked'
  BY DEF rtcHandler, IInv, RegistersAsSet, WaitersTicked
<1> QED BY <1>2, <1>3, <1>4 DEF IInv

LEMMA SwitchKeeps == ASSUME IInv, NEW t \in Term, SwitchTerminal(t) PROVE IInv'
<1>1. \A u \in Term : program[u].pc \notin Held
  BY DEF SwitchTerminal, IInv, AccessesTogether
<1>2. TypeOK'
  BY DEF SwitchTerminal, IInv, TypeOK
<1>3. AccessesTogether'
  <2>1. currentTerminal' \in Term /\ program' = program
    BY DEF SwitchTerminal
  <2> QED BY <1>1, <2>1 DEF AccessesTogether, At, Held
<1>4. RegistersAsSet' /\ WaitersTicked'
  BY DEF SwitchTerminal, IInv, RegistersAsSet, WaitersTicked
<1> QED BY <1>2, <1>3, <1>4 DEF IInv

(* The program in front moves to pc.                                       *)
LEMMA GotoTypes ==
    ASSUME IInv, NEW pc \in Pcs, Goto(pc)
    PROVE  /\ program' \in [Term -> [pc : Pcs, freq : Frequencies]]
           /\ program'[currentTerminal].pc = pc
           /\ \A t \in Term : /\ program'[t].freq = program[t].freq
                              /\ t # currentTerminal => program'[t] = program[t]
BY DEF IInv, TypeOK, Goto, Pcs, Held

LEMMA StartKeeps ==
    ASSUME IInv, NEW freq \in Frequencies, StartChange(freq)
    PROVE  IInv'
<1>1. /\ program' \in [Term -> [pc : Pcs, freq : Frequencies]]
      /\ program'[currentTerminal].pc = "cli"
      /\ \A t \in Term \ {currentTerminal} : program'[t] = program[t]
  BY DEF StartChange, IInv, TypeOK, Pcs, Held
<1>2. /\ currentTerminal' = currentTerminal /\ currentTerminal \in Term
      /\ UNCHANGED <<index, chip, interruptFlag, irq8, cpu_if, rtc_interrupt_flag, oldVal, asked,
                     ticked>>
  BY ProgramTypes DEF StartChange
<1>3. TypeOK'
  BY <1>1, <1>2 DEF IInv, TypeOK, Pcs, Held
<1>4. AccessesTogether' /\ WaitersTicked' /\ RegistersAsSet'
  BY <1>1, <1>2 DEF IInv, AccessesTogether, WaitersTicked, RegistersAsSet, At, Held
<1> QED BY <1>3, <1>4 DEF IInv

LEMMA CliKeeps == ASSUME IInv, Cli PROVE IInv'
<1>1. "select" \in Pcs /\ currentTerminal \in Term
  BY ProgramTypes DEF Pcs, Held
<1>2. /\ Goto("select") /\ cpu_if' = FALSE
      /\ UNCHANGED <<index, chip, interruptFlag, irq8, rtc_interrupt_flag, oldVal,
                     currentTerminal, asked, ticked>>
  BY DEF Cli, Disabled
<1>3. /\ program' \in [Term -> [pc : Pcs, freq : Frequencies]]
      /\ program'[currentTerminal].pc = "select"
      /\ \A t \in Term \ {currentTerminal} : program'[t] = program[t]
  BY <1>1, <1>2, GotoTypes
<1>4. TypeOK'
  BY <1>2, <1>3 DEF IInv, TypeOK, Pcs, Held
<1>5. AccessesTogether' /\ WaitersTicked' /\ RegistersAsSet'
  BY <1>1, <1>2, <1>3 DEF IInv, AccessesTogether, WaitersTicked, RegistersAsSet, At, Held
<1> QED BY <1>4, <1>5 DEF IInv

LEMMA SelectKeeps ==
    ASSUME IInv, Select("select", "get") \/ Select("reselect", "put")
    PROVE  IInv'
<1> DEFINE to == IF At("select") THEN "get" ELSE "put"
<1>1. to \in {"get", "put"} /\ currentTerminal \in Term
  BY ProgramTypes
<1>2. /\ Goto(to) /\ index' = "A" /\ (At("select") \/ At("reselect"))
      /\ to = "put" => At("reselect")
      /\ UNCHANGED <<chip, interruptFlag, irq8, cpu_if, rtc_interrupt_flag, oldVal,
                     currentTerminal, asked, ticked>>
  BY DEF Select, At
<1> HIDE DEF to
<1>3. to \in Pcs
  BY <1>1 DEF Pcs, Held
<1>4. /\ program' \in [Term -> [pc : Pcs, freq : Frequencies]]
      /\ program'[currentTerminal].pc = to
      /\ \A t \in Term \ {currentTerminal} : program'[t] = program[t]
  BY <1>1, <1>2, <1>3, GotoTypes
<1>5. ~cpu_if
  BY <1>1, <1>2 DEF IInv, AccessesTogether, At, Held
<1>6. TypeOK'
  BY <1>2, <1>4 DEF IInv, TypeOK, Pcs, Held
<1>7. AccessesTogether' /\ WaitersTicked' /\ RegistersAsSet'
  BY <1>1, <1>2, <1>4, <1>5
     DEF IInv, AccessesTogether, WaitersTicked, RegistersAsSet, At, Held
<1> QED BY <1>6, <1>7 DEF IInv

LEMMA GetKeeps == ASSUME IInv, GetOldVal PROVE IInv'
<1>1. "reselect" \in Pcs /\ currentTerminal \in Term /\ chip.A \in Byte
  BY ProgramTypes DEF Pcs, Held
<1>2. /\ Goto("reselect") /\ At("get") /\ index = "A" /\ oldVal' = chip.A
      /\ interruptFlag' = interruptFlag
      /\ UNCHANGED <<index, chip, irq8, cpu_if, rtc_interrupt_flag, currentTerminal, asked, ticked>>
  BY DEF GetOldVal, IInv, AccessesTogether, TypeOK
<1>3. /\ program' \in [Term -> [pc : Pcs, freq : Frequencies]]
      /\ program'[currentTerminal].pc = "reselect"
      /\ \A t \in Term \ {currentTerminal} : program'[t] = program[t]
  BY <1>1, <1>2, GotoTypes
<1>4. ~cpu_if
  BY <1>1, <1>2 DEF IInv, AccessesTogether, At, Held
<1>5. TypeOK'
  BY <1>1, <1>2, <1>3 DEF IInv, TypeOK, Pcs, Held
<1>6. AccessesTogether' /\ WaitersTicked' /\ RegistersAsSet'
  BY <1>1, <1>2, <1>3, <1>4
     DEF IInv, AccessesTogether, WaitersTicked, RegistersAsSet, At, Held
<1> QED BY <1>5, <1>6 DEF IInv

(* The rate goes to register A, with the other bits that were read there.  *)
LEMMA PutKeeps == ASSUME IInv, PutRate PROVE IInv'
<1>1. /\ "restore" \in Pcs /\ currentTerminal \in Term /\ chip.A \in Byte /\ chip.B \in Byte
      /\ program[currentTerminal].freq \in Frequencies
  BY ProgramTypes DEF Pcs, Held
<1>2. /\ Goto("restore") /\ At("put") /\ index = "A" /\ oldVal = chip.A
      /\ asked' = program[currentTerminal].freq
      /\ UNCHANGED <<index, interruptFlag, irq8, cpu_if, rtc_interrupt_flag, oldVal,
                     currentTerminal, ticked>>
  BY DEF PutRate, IInv, AccessesTogether
<1>3. PICK rate \in RatesOf(program[currentTerminal].freq) :
         chip' = [chip EXCEPT !["A"] = WithRate(oldVal, rate)]
  BY <1>2 DEF PutRate
<1>4. /\ chip' \in [A : Byte, B : Byte] /\ chip'.B = chip.B
      /\ chip'.A = WithRate(chip.A, rate)
      /\ Hz(chip'.A % 16) = asked' /\ chip'.A \div 16 = chip.A \div 16
  <2>1. rate \in 0 .. 15 /\ Hz(rate) = asked'
    BY <1>1, <1>2, Rates
  <2>2. chip \in [A : Byte, B : Byte] /\ WithRate(chip.A, rate) \in Byte
    BY <1>1, <2>1, WithRateBits DEF IInv, TypeOK
  <2>3. chip' \in [A : Byte, B : Byte] /\ chip'.B = chip.B /\ chip'.A = WithRate(chip.A, rate)
    BY <1>2, <1>3, <2>2
  <2> QED BY <1>1, <2>1, <2>3, WithRateBits
<1>5. /\ program' \in [Term -> [pc : Pcs, freq : Frequencies]]
      /\ program'[currentTerminal].pc = "restore"
      /\ \A t \in Term \ {currentTerminal} : program'[t] = program[t]
  BY <1>1, <1>2, GotoTypes
<1>6. ~cpu_if
  BY <1>1, <1>2 DEF IInv, AccessesTogether, At, Held
<1>7. TypeOK'
  BY <1>1, <1>2, <1>4, <1>5 DEF IInv, TypeOK, Pcs, Held
<1>8. RegistersAsSet'
  BY <1>2, <1>4 DEF IInv, RegistersAsSet
<1>9. AccessesTogether' /\ WaitersTicked'
  BY <1>1, <1>2, <1>5, <1>6 DEF IInv, AccessesTogether, WaitersTicked, At, Held
<1> QED BY <1>7, <1>8, <1>9 DEF IInv

LEMMA RestoreKeeps == ASSUME IInv, RestoreFlags PROVE IInv'
<1>1. "run" \in Pcs /\ currentTerminal \in Term
  BY ProgramTypes DEF Pcs
<1>2. /\ Goto("run") /\ cpu_if' = TRUE
      /\ UNCHANGED <<index, chip, interruptFlag, irq8, rtc_interrupt_flag, oldVal,
                     currentTerminal, asked, ticked>>
  BY DEF RestoreFlags
<1>3. /\ program' \in [Term -> [pc : Pcs, freq : Frequencies]]
      /\ program'[currentTerminal].pc = "run"
      /\ \A t \in Term \ {currentTerminal} : program'[t] = program[t]
  BY <1>1, <1>2, GotoTypes
<1>4. TypeOK'
  BY <1>2, <1>3 DEF IInv, TypeOK, Pcs, Held
<1>5. AccessesTogether' /\ WaitersTicked' /\ RegistersAsSet'
  BY <1>1, <1>2, <1>3 DEF IInv, AccessesTogether, WaitersTicked, RegistersAsSet, At, Held
<1> QED BY <1>4, <1>5 DEF IInv

LEMMA ReadKeeps == ASSUME IInv, rtcRead \/ rtcReadReturns PROVE IInv'
<1> DEFINE to == IF At("run") THEN "wait" ELSE "run"
<1>1. to \in {"run", "wait"} /\ currentTerminal \in Term
  BY ProgramTypes
<1>2. /\ Goto(to)
      /\ to = "wait" => rtc_interrupt_flag' = 1
      /\ to = "run" => UNCHANGED <<rtc_interrupt_flag, ticked>>
      /\ rtc_interrupt_flag' \in {0, 1} /\ ticked' \in [Term -> BOOLEAN]
      /\ UNCHANGED <<index, chip, interruptFlag, irq8, cpu_if, oldVal, currentTerminal, asked>>
  BY DEF rtcRead, rtcReadReturns, At, Waiting, IInv, TypeOK
<1> HIDE DEF to
<1>3. to \in Pcs
  BY <1>1 DEF Pcs
<1>4. /\ program' \in [Term -> [pc : Pcs, freq : Frequencies]]
      /\ program'[currentTerminal].pc = to
      /\ \A t \in Term \ {currentTerminal} : program'[t] = program[t]
  BY <1>1, <1>2, <1>3, GotoTypes
<1>5. TypeOK'
  BY <1>2, <1>4 DEF IInv, TypeOK, Pcs, Held
<1>6. AccessesTogether' /\ RegistersAsSet'
  BY <1>1, <1>2, <1>4 DEF IInv, AccessesTogether, RegistersAsSet, At, Held
<1>7. WaitersTicked'
  <2>1. CASE to = "wait"
    BY <1>2, <2>1 DEF WaitersTicked
  <2>2. CASE to = "run"
    BY <1>1, <1>2, <1>4, <2>2 DEF IInv, WaitersTicked
  <2> QED BY <1>1, <2>1, <2>2
<1> QED BY <1>5, <1>6, <1>7 DEF IInv

-----------------------------------------------------------------------------
(* Whatever the handler, the programs and the user do between two          *)
(* accesses, the index stays at register A through the pair, and a reader  *)
(* whose flag is gone has had its interrupt.                               *)
THEOREM Inductive == Spec => []IInv
<1>1. IInv /\ [Next]_vars => IInv'
  <2> SUFFICES ASSUME IInv, [Next]_vars PROVE IInv'
    OBVIOUS
  <2>1. CASE Tick
    BY <2>1, TickKeeps
  <2>2. CASE rtcHandler
    BY <2>2, HandlerKeeps
  <2>3. CASE rtcOpen
    <3>1. DEFAULT_2HZ \in Frequencies
      BY DEF DEFAULT_2HZ, Frequencies
    <3> QED BY <2>3, <3>1, StartKeeps DEF rtcOpen
  <2>4. ASSUME NEW freq \in Requests, rtcWrite(freq) PROVE IInv'
    <3>1. freq \in Frequencies
      BY <2>4, RequestAssumption, ValidIsACase DEF rtcWrite
    <3> QED BY <2>4, <3>1, StartKeeps DEF rtcWrite
  <2>5. CASE Change
    BY <2>5, CliKeeps, SelectKeeps, GetKeeps, PutKeeps, RestoreKeeps DEF Change
  <2>6. CASE rtcRead \/ rtcReadReturns
    BY <2>6, ReadKeeps
  <2>7. ASSUME NEW t \in Term, SwitchTerminal(t) PROVE IInv'
    BY <2>7, SwitchKeeps
  <2>8. CASE UNCHANGED vars
    BY <2>8 DEF vars, IInv, TypeOK, RegistersAsSet, AccessesTogether, WaitersTicked, At
  <2> QED BY <2>1, <2>2, <2>3, <2>4, <2>5, <2>6, <2>7, <2>8 DEF Next, Program
<1> QED BY <1>1, InitInv, PTL DEF Spec

(* The chip runs at the frequency set last, its other bits as initRTC left *)
(* them, for all contents the BIOS may leave in it.                        *)
THEOREM ChipAsSet == Spec => []RegistersAsSet
<1>1. IInv => RegistersAsSet
  BY DEF IInv
<1> QED BY <1>1, Inductive, PTL

(* rtcRead returns only after an interrupt that came after it began.       *)
THEOREM ReadsWait == Spec => ReadSeesInterrupt
<1>1. IInv => [rtcReadReturns => ticked[currentTerminal]]_vars
  BY ProgramTypes DEF IInv, WaitersTicked, rtcReadReturns, At
<1> QED BY <1>1, Inductive, PTL DEF ReadSeesInterrupt
=============================================================================
