-------------------------- MODULE Interrupts_proofs --------------------------
(***************************************************************************)
(* The lines in service are those of the handler on top, for every number  *)
(* of terminals and every nesting depth.                                   *)
(*                                                                         *)
(* InServiceIsTop alone is not inductive: iret and switchTerminal uncover  *)
(* another activation.  The invariant adds that an activation which is not *)
(* on top of the running stack is past its acknowledgement, because what   *)
(* is not yet acknowledged runs with the interrupt flag clear.             *)
(*                                                                         *)
(* For the boot, BootInv says which lines are unmasked at each step of     *)
(* entry(), and that nothing leaves its stack before the timer's line is.  *)
(***************************************************************************)
EXTENDS Interrupts, TLAPS, SequenceTheorems

Transient == {"entry", "switch", "slave_eoi"}
HandlerPc == Transient \union {"eoi_again", "sti", "popfl"}
BootPc == {"pic", "rtc", "keyboard", "terminals", "pit", "hlt"}

WellFormed(a) ==
    /\ a.of \in {"user", "call"} => a.pc = "run"
    /\ a.of = "boot" => a.pc \in BootPc
    /\ a.of \in Device => a.pc \in HandlerPc
    /\ a.pc = "slave_eoi" => a.of = "rtc"
    /\ a.pc = "switch" => a.of = "pit"
    /\ a.pc = "eoi_again" => a.of \in Device
    /\ a.pc \in Transient => ~a.iflag

StackOK(s) ==
    /\ s # <<>> => s[1].of \in {"boot", "user"}
    /\ \A i \in 1 .. Len(s) : WellFormed(s[i])
    /\ \A i \in 1 .. Len(s) : i # Len(s) => s[i].pc \notin Transient

Settled(s) == s # <<>> => s[Len(s)].pc \notin Transient

Stacks ==
    /\ stack \in [Context -> Seq(Activation)]
    /\ running \in Context /\ stack[running] # <<>>
    /\ \A c \in Context : StackOK(stack[c])
    /\ \A c \in Context : c # running => Settled(stack[c])
    /\ in_use \subseteq Term
    /\ \A t \in in_use : stack[t] # <<>>

Registers ==
    /\ master_mask \subseteq Master /\ slave_mask \subseteq Slave
    /\ irr \subseteq Line /\ isr \subseteq Line
    /\ pit_interrupt_count \in 0 .. MAX_TERMINAL_NUMBER
    /\ early \in 0 .. MaxEarly

IInv ==
    /\ Stacks
    /\ Registers
    /\ Top.pc = "switch" => pit_interrupt_count >= 1
    /\ isr = Unacknowledged(Top)

-----------------------------------------------------------------------------
(* What the three ways to change a stack do to it. *)

(* Replacing the top activation (Goto). *)
LEMMA ReplaceTop ==
    ASSUME NEW s \in Seq(Activation), s # <<>>, StackOK(s),
           NEW a \in Activation, WellFormed(a), Len(s) = 1 => a.of = s[1].of
    PROVE  LET r == [s EXCEPT ![Len(s)] = a]
           IN /\ r \in Seq(Activation) /\ Len(r) = Len(s) /\ r # <<>>
              /\ r[Len(r)] = a /\ StackOK(r)
<1> DEFINE r == [s EXCEPT ![Len(s)] = a]
<1>1. Len(s) \in Nat /\ Len(s) >= 1 /\ DOMAIN s = 1 .. Len(s)
  OBVIOUS
<1>2. r \in Seq(Activation) /\ Len(r) = Len(s) /\ DOMAIN r = 1 .. Len(s)
  BY <1>1
<1>3. r # <<>> /\ r[Len(r)] = a
  BY <1>1, <1>2
<1>4. \A i \in 1 .. Len(s) : i # Len(s) => r[i] = s[i]
  BY <1>1
<1>5. r[1].of \in {"boot", "user"}
  <2>1. s[1].of \in {"boot", "user"}
    BY DEF StackOK
  <2>2. CASE Len(s) = 1
    BY <2>1, <2>2, <1>2, <1>3
  <2>3. CASE Len(s) # 1
    <3>1. 1 \in 1 .. Len(s)
      BY <1>1
    <3>2. r[1] = s[1]
      BY <3>1, <2>3, <1>4
    <3> QED BY <3>2, <2>1
  <2> QED BY <2>2, <2>3
<1>6. \A i \in 1 .. Len(r) : WellFormed(r[i])
  <2> SUFFICES ASSUME NEW i \in 1 .. Len(r) PROVE WellFormed(r[i])
    OBVIOUS
  <2>1. CASE i = Len(s)
    BY <2>1, <1>2, <1>3
  <2>2. CASE i # Len(s)
    BY <2>2, <1>2, <1>4 DEF StackOK
  <2> QED BY <2>1, <2>2
<1>7. \A i \in 1 .. Len(r) : i # Len(r) => r[i].pc \notin Transient
  BY <1>2, <1>4 DEF StackOK
<1> QED BY <1>2, <1>3, <1>5, <1>6, <1>7 DEF StackOK

(* Pushing an activation on one that is past its acknowledgement. *)
LEMMA PushTop ==
    ASSUME NEW s \in Seq(Activation), s # <<>>, StackOK(s), Settled(s),
           NEW a \in Activation, WellFormed(a)
    PROVE  LET r == Append(s, a)
           IN /\ r \in Seq(Activation) /\ r # <<>>
              /\ r[Len(r)] = a /\ StackOK(r)
<1> DEFINE r == Append(s, a)
<1>1. Len(s) \in Nat /\ Len(s) >= 1
  OBVIOUS
<1>2. r \in Seq(Activation) /\ Len(r) = Len(s) + 1 /\ r # <<>> /\ r[Len(r)] = a
  OBVIOUS
<1>3. \A i \in 1 .. Len(s) : r[i] = s[i]
  OBVIOUS
<1>4. \A i \in 1 .. Len(r) : i \in 1 .. Len(s) \/ i = Len(r)
  BY <1>1, <1>2
<1>5. r[1].of \in {"boot", "user"}
  BY <1>1, <1>3 DEF StackOK
<1>6. \A i \in 1 .. Len(r) : WellFormed(r[i])
  BY <1>2, <1>3, <1>4 DEF StackOK
<1>7. \A i \in 1 .. Len(r) : i # Len(r) => r[i].pc \notin Transient
  BY <1>2, <1>3, <1>4 DEF StackOK, Settled
<1> QED BY <1>2, <1>5, <1>6, <1>7 DEF StackOK

(* Popping one or two activations. *)
LEMMA PopTop ==
    ASSUME NEW s \in Seq(Activation), StackOK(s),
           NEW n \in 1 .. Len(s) - 1
    PROVE  LET r == SubSeq(s, 1, n)
           IN /\ r \in Seq(Activation) /\ r # <<>>
              /\ Settled(r) /\ StackOK(r) /\ r[Len(r)].pc # "switch"
<1> DEFINE r == SubSeq(s, 1, n)
<1>1. Len(s) \in Nat /\ n \in Nat /\ 1 <= n /\ n < Len(s)
  OBVIOUS
<1>2. r \in Seq(Activation) /\ Len(r) = n /\ \A i \in 1 .. n : r[i] = s[i]
  BY <1>1
<1>3. r # <<>> /\ r[1].of \in {"boot", "user"}
  BY <1>1, <1>2 DEF StackOK
<1>4. \A i \in 1 .. n : WellFormed(r[i]) /\ r[i].pc \notin Transient
  BY <1>1, <1>2 DEF StackOK
<1> QED BY <1>1, <1>2, <1>3, <1>4 DEF StackOK, Settled, Transient

-----------------------------------------------------------------------------
LEMMA OneActivation ==
    ASSUME NEW a \in Activation
    PROVE  <<a>> \in Seq(Activation) /\ Len(<<a>>) = 1 /\ <<a>>[1] = a /\ <<a>> # <<>>
OBVIOUS

\* A context that begins: its first activation.
LEMMA BottomOK ==
    ASSUME NEW a \in Activation, WellFormed(a), a.of \in {"boot", "user"}
    PROVE  StackOK(<<a>>)
<1>1. \A i \in 1 .. Len(<<a>>) : i = 1
  BY OneActivation
<1> QED BY <1>1, OneActivation DEF StackOK

LEMMA NoActivation == <<>> \in Seq(Activation) /\ Len(<<>>) = 0
OBVIOUS

\* Each kind of step keeps the invariant.
LEMMA Initially == Init => IInv
<1> SUFFICES ASSUME Init PROVE IInv
  OBVIOUS
<1> USE SizeAssumption DEF Init
<1>1. Act("boot", "pic", FALSE) \in Activation
  BY DEF Act, Activation, Device
<1>2. Boot \in Context /\ Term \subseteq Nat /\ Boot \notin Term
  BY DEF Boot, Context, Term
<1>3. stack \in [Context -> Seq(Activation)] /\ stack[Boot] = <<Act("boot", "pic", FALSE)>>
  <2>1. <<Act("boot", "pic", FALSE)>> \in Seq(Activation) /\ <<>> \in Seq(Activation)
    BY <1>1, OneActivation, NoActivation, Zenon
  <2> QED BY <2>1, <1>2
<1>4. Top = Act("boot", "pic", FALSE)
  BY <1>3, <1>1, OneActivation DEF Top
<1>5. Registers
  BY DEF Registers, Line, Master, Slave, NUM_OF_PORTS
<1>6. \A c \in Context : StackOK(stack[c])
  <2>1. WellFormed(Act("boot", "pic", FALSE)) /\ Act("boot", "pic", FALSE).of = "boot"
    BY DEF WellFormed, Act, BootPc, Transient, Device
  <2>2. StackOK(<<Act("boot", "pic", FALSE)>>)
    BY <2>1, <1>1, BottomOK
  <2>3. StackOK(<<>>)
    BY NoActivation DEF StackOK
  <2> QED BY <2>2, <2>3
<1>7. \A c \in Context : c # running => Settled(stack[c])
  BY <1>3 DEF Settled
<1>8. stack[running] # <<>>
  BY <1>1, <1>3, OneActivation
<1>9. Top.pc # "switch" /\ isr = Unacknowledged(Top)
  BY <1>4 DEF Act, Unacknowledged
<1> QED BY <1>2, <1>3, <1>5, <1>6, <1>7, <1>8, <1>9 DEF IInv, Stacks

-----------------------------------------------------------------------------
(* The same for the running stack of the specification. *)

\* What may change of a stack: the statement on top, one more on it, some less.
LEMMA TopFacts ==
    ASSUME Stacks
    PROVE  /\ Top \in Activation /\ WellFormed(Top)
           /\ stack[running] \in Seq(Activation) /\ Len(stack[running]) \in Nat
           /\ Len(stack[running]) >= 1
           /\ Len(stack[running]) = 1 => Top.of \in {"boot", "user"}
<1>1. /\ stack[running] \in Seq(Activation) /\ stack[running] # <<>>
      /\ StackOK(stack[running])
  BY DEF Stacks
<1>2. Len(stack[running]) \in Nat /\ Len(stack[running]) >= 1
  BY <1>1
<1> QED BY <1>1, <1>2 DEF Top, StackOK

LEMMA GotoStep ==
    ASSUME Stacks, NEW pc, NEW flag, Act(Top.of, pc, flag) \in Activation,
           WellFormed(Act(Top.of, pc, flag)),
           stack' = Goto(pc, flag), running' = running, in_use' \subseteq in_use
    PROVE  Stacks' /\ Top' = Act(Top.of, pc, flag)
<1> DEFINE s == stack[running]
           a == Act(Top.of, pc, flag)
           r == [s EXCEPT ![Len(s)] = a]
<1>1. s \in Seq(Activation) /\ s # <<>> /\ StackOK(s) /\ Len(s) \in Nat /\ Len(s) >= 1
  BY TopFacts DEF Stacks
<1>2. Len(s) = 1 => a.of = s[1].of
  BY DEF Act, Top
<1>3. /\ r \in Seq(Activation) /\ r # <<>>
      /\ r[Len(r)] = a /\ StackOK(r)
  BY <1>1, <1>2, ReplaceTop
<1>4. stack' = [stack EXCEPT ![running] = r]
  BY DEF Goto
<1> QED BY <1>3, <1>4 DEF Stacks, Top

LEMMA PushStep ==
    ASSUME Stacks, Top.pc \notin Transient, NEW a \in Activation, WellFormed(a),
           stack' = Push(a), running' = running, in_use' = in_use
    PROVE  Stacks' /\ Top' = a
<1> DEFINE s == stack[running]
           r == Append(s, a)
<1>1. s \in Seq(Activation) /\ s # <<>> /\ StackOK(s) /\ Settled(s)
  BY DEF Stacks, Settled, Top
<1>2. r \in Seq(Activation) /\ r # <<>> /\ r[Len(r)] = a /\ StackOK(r)
  BY <1>1, PushTop
<1>3. stack' = [stack EXCEPT ![running] = r]
  BY DEF Push
<1> QED BY <1>2, <1>3 DEF Stacks, Top

LEMMA PopStep ==
    ASSUME Stacks, NEW n \in 1 .. Len(stack[running]) - 1,
           stack' = [stack EXCEPT ![running] = SubSeq(@, 1, n)],
           running' = running, in_use' = in_use
    PROVE  Stacks' /\ Top'.pc \notin Transient
<1> DEFINE s == stack[running]
           r == SubSeq(s, 1, n)
<1>1. s \in Seq(Activation) /\ StackOK(s)
  BY DEF Stacks
<1>2. r \in Seq(Activation) /\ r # <<>> /\ Settled(r) /\ StackOK(r)
  BY <1>1, PopTop
<1>3. stack' = [stack EXCEPT ![running] = r]
  OBVIOUS
<1> HIDE DEF r
<1>4. /\ stack' \in [Context -> Seq(Activation)]
      /\ stack'[running] = r
      /\ \A c \in Context : c # running => stack'[c] = stack[c]
  BY <1>2, <1>3 DEF Stacks
<1>5. Stacks'
  <2>1. \A c \in Context : StackOK(stack'[c])
    BY <1>2, <1>4 DEF Stacks
  <2>2. \A c \in Context : c # running' => Settled(stack'[c])
    BY <1>4 DEF Stacks
  <2>3. \A t \in in_use' : stack'[t] # <<>>
    BY <1>2, <1>4 DEF Stacks, Context
  <2> QED BY <1>2, <1>4, <2>1, <2>2, <2>3 DEF Stacks
<1>6. Top' = r[Len(r)]
  BY <1>4 DEF Stacks, Top
<1> QED BY <1>2, <1>5, <1>6 DEF Settled

(* What is past its acknowledgement leaves no line in service. *)
LEMMA NothingToAcknowledge ==
    ASSUME NEW a, a.pc \notin Transient
    PROVE  Unacknowledged(a) = {} /\ a.pc # "switch"
BY DEF Unacknowledged, Transient

(* switchTerminal, from a handler whose line has been acknowledged but for *)
(* the keyboard's.                                                         *)
LEMMA SwitchStep ==
    ASSUME Stacks, NEW t \in Term, Top.of \in {"pit", "key"}, SwitchTerminal(t)
    PROVE  Stacks' /\ Top'.pc \notin Transient
<1> DEFINE s == stack[running]
           a == Act(Top.of, "eoi_again", FALSE)
           r == [s EXCEPT ![Len(s)] = a]
           u == Act("user", "run", FALSE)
           q == <<u>>
<1>1. s \in Seq(Activation) /\ s # <<>> /\ StackOK(s) /\ Len(s) \in Nat /\ Len(s) >= 1
  BY TopFacts DEF Stacks
<1>2. a \in Activation /\ WellFormed(a) /\ u \in Activation /\ WellFormed(u)
  BY TopFacts DEF Act, Activation, WellFormed, Device, HandlerPc, BootPc, Transient
<1>3. a.of = Top.of /\ a.pc \notin Transient /\ u.of = "user" /\ u.pc \notin Transient
  BY DEF Act, Transient
<1>4. r \in Seq(Activation) /\ r # <<>> /\ StackOK(r) /\ Settled(r)
  <2>1. Len(s) = 1 => a.of = s[1].of
    BY <1>3 DEF Top
  <2>2. r \in Seq(Activation) /\ r # <<>> /\ r[Len(r)] = a /\ StackOK(r)
    BY <1>1, <1>2, <2>1, ReplaceTop
  <2> QED BY <2>2, <1>3 DEF Settled
<1>5. q \in Seq(Activation) /\ q # <<>> /\ StackOK(q) /\ Settled(q)
  BY <1>2, <1>3, OneActivation, BottomOK DEF Settled
<1>6. Goto("eoi_again", FALSE) = [stack EXCEPT ![running] = r]
  BY DEF Goto
<1>7. /\ stack' = IF t \in in_use THEN [stack EXCEPT ![running] = r]
                  ELSE [[stack EXCEPT ![running] = r] EXCEPT ![t] = q]
      /\ in_use' = in_use \union {t} /\ running' = t
  BY <1>6 DEF SwitchTerminal
<1> HIDE DEF r, q
<1>8. t \in Context
  BY DEF Context
<1>9. stack' \in [Context -> Seq(Activation)]
  BY <1>4, <1>5, <1>7 DEF Stacks
<1>10. \A c \in Context : \/ stack'[c] = q
                          \/ stack'[c] = r
                          \/ c # running /\ stack'[c] = stack[c]
  BY <1>7, <1>8 DEF Stacks
<1>11. \A c \in Context : StackOK(stack'[c]) /\ Settled(stack'[c])
  BY <1>4, <1>5, <1>10 DEF Stacks
<1>12. stack'[t] # <<>>
  BY <1>4, <1>5, <1>7, <1>8 DEF Stacks
<1>13. \A x \in in_use' : stack'[x] # <<>>
  <2> SUFFICES ASSUME NEW x \in in_use' PROVE stack'[x] # <<>>
    OBVIOUS
  <2>1. x \in Context
    BY <1>7, <1>8 DEF Stacks, Context
  <2>2. x = t \/ x \in in_use
    BY <1>7
  <2>3. stack'[x] = stack[x] \/ stack'[x] # <<>>
    BY <2>1, <1>4, <1>5, <1>10
  <2> QED BY <2>2, <2>3, <1>12 DEF Stacks
<1>14. in_use' \subseteq Term
  BY <1>7 DEF Stacks
<1>15. Stacks'
  BY <1>7, <1>8, <1>9, <1>11, <1>12, <1>13, <1>14 DEF Stacks
<1>16. Top'.pc \notin Transient
  BY <1>7, <1>8, <1>11, <1>12 DEF Top, Settled
<1> QED BY <1>15, <1>16

-----------------------------------------------------------------------------
(* Every step preserves the invariant. *)

LEMMA BootPreserves == IInv /\ BootStep => IInv'
<1> SUFFICES ASSUME IInv, BootStep PROVE IInv'
  OBVIOUS
<1>1. /\ Top.of = "boot" /\ Top.pc \notin Transient /\ isr' = isr
      /\ irr' = irr /\ early' = early /\ running' = running /\ in_use' \subseteq in_use
      /\ \E pc \in BootPc : stack' = Goto(pc, TRUE)
  BY DEF BootStep, i8259_init, initRTC, initKeyboard, initTerminals, init_pit, At,
         BootPc, Transient, tables
<1>2. PICK pc \in BootPc : stack' = Goto(pc, TRUE)
  BY <1>1
<1>3. Act(Top.of, pc, TRUE) \in Activation /\ WellFormed(Act(Top.of, pc, TRUE))
  BY <1>1 DEF Act, Activation, WellFormed, BootPc, Transient, Device
<1>4. Stacks' /\ Top' = Act(Top.of, pc, TRUE)
  BY <1>1, <1>2, <1>3, GotoStep DEF IInv
<1>5. Top'.pc \notin Transient
  BY <1>4 DEF Act, BootPc, Transient
<1>6. isr' = Unacknowledged(Top)' /\ Top'.pc # "switch"
  BY <1>1, <1>5, NothingToAcknowledge DEF IInv
<1>7. Registers'
  <2>1. master_mask' \subseteq Master /\ slave_mask' \subseteq Slave
    BY DEF IInv, Registers, BootStep, i8259_init, initRTC, initKeyboard, initTerminals,
       init_pit, enable_irq, master_mask_on, slave_mask_on, slave_mask_off, masks
  <2>2. pit_interrupt_count' = pit_interrupt_count \/ pit_interrupt_count' = 0
    BY DEF BootStep, i8259_init, initRTC, initKeyboard, initTerminals, init_pit, tables
  <2>3. 0 \in 0 .. MAX_TERMINAL_NUMBER
    BY SizeAssumption
  <2> QED BY <1>1, <2>1, <2>2, <2>3 DEF IInv, Registers
<1> QED BY <1>4, <1>6, <1>7 DEF IInv

LEMMA IrqIsLine == \A d \in Device : Irq[d] \in Line /\ LineAtMaster(d) \in Line
BY DEF Device, Irq, Line, LineAtMaster, SLAVE_IRQ

LEMMA RaisePreserves == IInv /\ (\E d \in Device : Raise(d)) => IInv'
<1> SUFFICES ASSUME IInv, NEW d \in Device, Raise(d) PROVE IInv'
  OBVIOUS
<1>1. Stacks' /\ Top' = Top
  BY DEF IInv, Raise, Stacks, Top, tables
<1>2. Registers'
  <2>1. Irq[d] \in Line
    BY IrqIsLine
  <2>2. early' \in 0 .. MaxEarly
    BY SizeAssumption DEF IInv, Raise, Registers
  <2> QED BY <2>1, <2>2 DEF IInv, Raise, Registers, masks, tables
<1> QED BY <1>1, <1>2 DEF IInv, Raise, tables

LEMMA TakePreserves == IInv /\ (\E d \in Device : Take(d)) => IInv'
<1> SUFFICES ASSUME IInv, NEW d \in Device, Take(d) PROVE IInv'
  OBVIOUS
<1> DEFINE a == Act(d, "entry", FALSE)
<1>1. Top.pc \notin Transient
  BY TopFacts DEF IInv, Take, WellFormed
<1>2. a \in Activation /\ WellFormed(a)
  BY DEF Act, Activation, WellFormed, HandlerPc, Transient, Device
<1>3. Stacks' /\ Top' = a
  BY <1>1, <1>2, PushStep DEF IInv, Take, tables
<1>4. isr = {}
  BY <1>1, NothingToAcknowledge DEF IInv
<1>5. isr' = Unacknowledged(a)
  BY <1>4 DEF Take, Unacknowledged, Act, LineAtMaster, Irq, Device, SLAVE_IRQ
<1>6. Registers'
  BY IrqIsLine DEF IInv, Take, Registers, masks, tables
<1>7. a.pc # "switch"
  BY DEF Act
<1> QED BY <1>3, <1>5, <1>6, <1>7 DEF IInv

LEMMA Between ==
    ASSUME NEW n \in Nat, n >= 1, n # 1
    PROVE  n > 1 /\ n - 1 \in 1 .. n - 1 /\ (n # 2 => n - 2 \in 1 .. n - 1)
OBVIOUS

LEMMA ProgramPreserves == IInv /\ Program => IInv'
<1> SUFFICES ASSUME IInv, Program PROVE IInv'
  OBVIOUS
<1>0. /\ Len(stack[running]) \in Nat /\ Len(stack[running]) >= 1
      /\ Top.of = "call" => Len(stack[running]) # 1
  BY TopFacts DEF IInv
<1>1. /\ Top.of \in {"user", "call"} /\ UNCHANGED <<masks, irr, isr, tables, early>>
      /\ running' = running /\ in_use' = in_use
  BY DEF Program, SysCall, SysReturn, SysExecute, SysHalt, tables
<1>2. Top.pc \notin Transient
  BY <1>1, TopFacts DEF IInv, WellFormed, Transient
<1>3. Stacks' /\ Top'.pc \notin Transient
  <2>1. CASE SysCall
    <3>1. /\ Act("call", "run", TRUE) \in Activation /\ WellFormed(Act("call", "run", TRUE))
          /\ Act("call", "run", TRUE).pc \notin Transient
      BY DEF Act, Activation, WellFormed, Transient, Device
    <3> QED BY <3>1, <2>1, <1>1, <1>2, PushStep DEF SysCall, IInv
  <2>2. CASE SysExecute
    <3>1. /\ Act("user", "run", TRUE) \in Activation /\ WellFormed(Act("user", "run", TRUE))
          /\ Act("user", "run", TRUE).pc \notin Transient
      BY DEF Act, Activation, WellFormed, Transient, Device
    <3> QED BY <3>1, <2>2, <1>1, <1>2, PushStep DEF SysExecute, IInv
  <2>3. CASE SysReturn
    <3>1. Len(stack[running]) # 1
      BY <1>0, <2>3 DEF SysReturn
    <3> DEFINE n == Len(stack[running]) - 1
    <3>2. n \in 1 .. Len(stack[running]) - 1
      BY <1>0, <3>1, Between, Zenon
    <3> QED BY <3>2, <2>3, <1>1, PopStep DEF SysReturn, Pop, IInv
  <2>4. CASE SysHalt
    <3>1. Len(stack[running]) # 1
      BY <1>0, <2>4 DEF SysHalt
    <3>2. CASE Len(stack[running]) # 2
      <4> DEFINE n == Len(stack[running]) - 2
      <4>1. n \in 1 .. Len(stack[running]) - 1
        BY <1>0, <3>1, <3>2, Between, Zenon
      <4> QED BY <4>1, <3>2, <2>4, <1>1, PopStep DEF SysHalt, IInv
    <3>3. CASE Len(stack[running]) = 2
      <4> DEFINE u == Act("user", "run", TRUE)
                 q == <<u>>
      <4>1. u \in Activation /\ WellFormed(u) /\ u.of = "user" /\ u.pc \notin Transient
        BY DEF Act, Activation, WellFormed, Transient, Device
      <4>2. /\ q \in Seq(Activation) /\ q # <<>> /\ StackOK(q)
            /\ q[Len(q)].pc \notin Transient
        BY <4>1, OneActivation, BottomOK
      <4>3. stack' = [stack EXCEPT ![running] = q]
        BY <3>3, <2>4 DEF SysHalt
      <4> HIDE DEF q
      <4>4. Stacks'
        BY <4>2, <4>3, <1>1 DEF IInv, Stacks
      <4>5. Top' = q[Len(q)]
        BY <4>3, <1>1 DEF IInv, Stacks, Top
      <4> QED BY <4>2, <4>4, <4>5
    <3> QED BY <3>2, <3>3
  <2> QED BY <2>1, <2>2, <2>3, <2>4 DEF Program
<1>4. isr' = Unacknowledged(Top)' /\ Top'.pc # "switch"
  BY <1>1, <1>2, <1>3, NothingToAcknowledge DEF IInv
<1>5. Registers'
  BY <1>1 DEF IInv, Registers, masks, tables
<1> QED BY <1>3, <1>4, <1>5 DEF IInv
(* A handler that stays on its stack: what it still has to acknowledge is  *)
(* what is left in service.                                                *)
LEMMA HandlerGoto ==
    ASSUME IInv, Top.of \in Device, NEW pc \in HandlerPc, NEW flag \in BOOLEAN,
           pc = "slave_eoi" => Top.of = "rtc",
           pc = "switch" => Top.of = "pit" /\ pit_interrupt_count' >= 1,
           pc \in Transient => ~flag,
           stack' = Goto(pc, flag), running' = running, in_use' = in_use,
           isr' = Unacknowledged(Act(Top.of, pc, flag)), Registers'
    PROVE  IInv'
<1>1. Act(Top.of, pc, flag) \in Activation /\ WellFormed(Act(Top.of, pc, flag))
  BY DEF Act, Activation, WellFormed, HandlerPc, BootPc, Transient, Device
<1>2. Stacks' /\ Top' = Act(Top.of, pc, flag)
  BY <1>1, GotoStep DEF IInv
<1>3. Act(Top.of, pc, flag).pc = pc
  BY DEF Act
<1> QED BY <1>2, <1>3 DEF IInv

LEMMA SwitchPreserves ==
    ASSUME IInv, NEW t \in Term, SwitchTerminal(t),
           At("pit", "switch") \/ At("key", "entry")
    PROVE  IInv'
<1>1. Stacks' /\ Top'.pc \notin Transient
  BY SwitchStep DEF IInv, At
<1>2. isr = {} \/ isr = {1}
  BY DEF IInv, At, Unacknowledged, Irq
<1>3. isr' = {}
  BY <1>2 DEF SwitchTerminal, send_eoi, Irq
<1>4. isr' = Unacknowledged(Top)' /\ Top'.pc # "switch"
  BY <1>1, <1>3, NothingToAcknowledge
<1>5. Registers'
  BY <1>3 DEF IInv, Registers, SwitchTerminal, masks
<1> QED BY <1>1, <1>4, <1>5 DEF IInv

LEMMA HandlerPreserves == IInv /\ Handler => IInv'
<1> SUFFICES ASSUME IInv, Handler PROVE IInv'
  OBVIOUS
<1> USE DEF At
<1>0. /\ Top \in Activation /\ WellFormed(Top) /\ Registers /\ isr = Unacknowledged(Top)
      /\ pit_interrupt_count \in Nat
  BY TopFacts, SizeAssumption DEF IInv, Registers
<1>1. CASE PitCounts
  <2>1. isr = {0}
    BY <1>0, <1>1 DEF PitCounts, Unacknowledged, Irq
  <2>2. isr' = {} /\ Unacknowledged(Act(Top.of, "switch", FALSE)) = {}
    BY <2>1, <1>1 DEF PitCounts, EarlyEoi, send_eoi, Irq, Unacknowledged, Act
  <2>3. pit_interrupt_count' \in 1 .. MAX_TERMINAL_NUMBER
    BY <1>0, <1>1, SizeAssumption DEF PitCounts, ShellsPending, Registers
  <2>4. Registers'
    BY <1>0, <1>1, <2>2, <2>3 DEF Registers, PitCounts, masks
  <2>5. /\ Top.of = "pit" /\ stack' = Goto("switch", FALSE)
        /\ running' = running /\ in_use' = in_use
    BY <1>1 DEF PitCounts
  <2>6. pit_interrupt_count' >= 1
    BY <2>3, SizeAssumption
  <2> QED BY <2>2, <2>4, <2>5, <2>6, HandlerGoto DEF HandlerPc, Transient, Device
<1>2. CASE PitSwitches
  <2>1. pit_interrupt_count - 1 \in Term
    BY <1>0, <1>2, SizeAssumption DEF PitSwitches, IInv, Registers, Term
  <2>2. SwitchTerminal(pit_interrupt_count - 1) /\ At("pit", "switch")
    BY <1>2 DEF PitSwitches
  <2> QED BY <2>1, <2>2, SwitchPreserves
<1>3. CASE \E t \in Term : FunctionKey(t)
  BY <1>3, SwitchPreserves DEF FunctionKey
<1>4. CASE PitTicks \/ KeyTyped
  <2>1. /\ Top.of \in {"pit", "key"} /\ Top.pc = "entry" /\ isr' = isr \ {Irq[Top.of]}
        /\ stack' = Goto("sti", FALSE)
        /\ UNCHANGED <<masks, irr, running, tables, early>>
    BY <1>4 DEF PitTicks, KeyTyped, send_eoi
  <2>2. isr' = {} /\ Unacknowledged(Act(Top.of, "sti", FALSE)) = {}
    BY <1>0, <2>1 DEF Unacknowledged, Act
  <2>3. Registers'
    BY <1>0, <2>1, <2>2 DEF Registers, masks, tables
  <2> QED BY <2>1, <2>2, <2>3, HandlerGoto DEF HandlerPc, Transient, Device, tables
<1>5. CASE RtcMasterEoi
  <2>1. isr' = {8} /\ Unacknowledged(Act(Top.of, "slave_eoi", FALSE)) = {8}
    BY <1>0, <1>5 DEF RtcMasterEoi, Unacknowledged, Act, send_eoi, SLAVE_IRQ
  <2>2. Registers'
    BY <1>0, <1>5, <2>1 DEF Registers, RtcMasterEoi, masks, tables, Line
  <2> QED BY <1>5, <2>1, <2>2, HandlerGoto
          DEF RtcMasterEoi, HandlerPc, Transient, Device, tables
<1>6. CASE RtcSlaveEoi
  <2>1. isr' = {} /\ Unacknowledged(Act(Top.of, "sti", FALSE)) = {}
    BY <1>0, <1>6 DEF RtcSlaveEoi, Unacknowledged, Act, send_eoi, Irq
  <2>2. Registers'
    BY <1>0, <1>6, <2>1 DEF Registers, RtcSlaveEoi, masks, tables
  <2> QED BY <1>6, <2>1, <2>2, HandlerGoto
          DEF RtcSlaveEoi, HandlerPc, Transient, Device, tables
<1>7. CASE EoiAgain
  <2>1. isr' = {} /\ Unacknowledged(Act(Top.of, "sti", FALSE)) = {}
    BY <1>0, <1>7 DEF EoiAgain, Unacknowledged, Act, send_eoi
  <2>2. Registers'
    BY <1>0, <1>7, <2>1 DEF Registers, EoiAgain, masks, tables
  <2>3. Top.of \in Device
    BY <1>0, <1>7 DEF EoiAgain, WellFormed
  <2> QED BY <1>7, <2>1, <2>2, <2>3, HandlerGoto
          DEF EoiAgain, HandlerPc, Transient, tables
<1>8. CASE EnableInterrupts
  <2>1. isr' = {} /\ Unacknowledged(Act(Top.of, "popfl", TRUE)) = {}
    BY <1>0, <1>8 DEF EnableInterrupts, Unacknowledged, Act
  <2>2. Registers'
    BY <1>0, <1>8 DEF Registers, EnableInterrupts, masks, tables
  <2>3. Top.of \in Device
    BY <1>0, <1>8 DEF EnableInterrupts, WellFormed, Activation, BootPc, Device
  <2> QED BY <1>8, <2>1, <2>2, <2>3, HandlerGoto
          DEF EnableInterrupts, HandlerPc, Transient, tables
<1>9. CASE Iret
  <2>1. /\ Len(stack[running]) \in Nat /\ Len(stack[running]) >= 1
        /\ Len(stack[running]) = 1 => Top.of \in {"boot", "user"}
    BY TopFacts DEF IInv
  <2>2. Top.of \notin {"boot", "user"}
    BY <1>0, <1>9 DEF Iret, WellFormed, BootPc
  <2> DEFINE n == Len(stack[running]) - 1
  <2>3. n \in 1 .. Len(stack[running]) - 1
    BY <2>1, <2>2, Between, Zenon
  <2>4. Stacks' /\ Top'.pc \notin Transient
    BY <1>9, <2>3, PopStep DEF Iret, Pop, IInv, tables
  <2>5. isr = {}
    BY <1>0, <1>9 DEF Iret, Unacknowledged
  <2>6. isr' = Unacknowledged(Top)' /\ Top'.pc # "switch"
    BY <1>9, <2>4, <2>5, NothingToAcknowledge DEF Iret
  <2>7. Registers'
    BY <1>0, <1>9 DEF Registers, Iret, masks, tables
  <2> QED BY <2>4, <2>6, <2>7 DEF IInv
<1> QED BY <1>1, <1>2, <1>3, <1>4, <1>5, <1>6, <1>7, <1>8, <1>9 DEF Handler

LEMMA StutterPreserves == IInv /\ UNCHANGED vars => IInv'
BY DEF IInv, vars, Stacks, Registers, Top, Unacknowledged

-----------------------------------------------------------------------------
(* In every reachable state the stacks are well formed and the lines in    *)
(* service are those the top activation has to acknowledge.                *)
THEOREM Inductive == Spec => []IInv
<1>1. IInv /\ [Next]_vars => IInv'
  BY BootPreserves, HandlerPreserves, ProgramPreserves, RaisePreserves, TakePreserves,
     StutterPreserves DEF Next
<1> QED BY <1>1, Initially, PTL DEF Spec

(* The type invariant of the controllers and the handlers. *)
THEOREM TypeCorrect == Spec => []TypeOK
<1>1. IInv => TypeOK
  BY DEF IInv, Stacks, Registers, TypeOK
<1> QED BY <1>1, Inductive, PTL

(* A line is in service exactly while the handler on top of the running    *)
(* stack has it to acknowledge (send_eoi, switchTerminal).                 *)
THEOREM AcknowledgementsMatch == Spec => []InServiceIsTop
<1>1. IInv => InServiceIsTop
  BY DEF IInv, InServiceIsTop
<1> QED BY <1>1, Inductive, PTL

(* Whatever may be interrupted has no line in service: after the sti of a  *)
(* handler every line can come on top of it.                               *)
THEOREM AcknowledgedBeforeEnabled == Spec => [](Top.iflag => isr = {})
<1>1. IInv => (Top.iflag => isr = {})
  BY TopFacts, NothingToAcknowledge DEF IInv, WellFormed
<1> QED BY <1>1, Inductive, PTL
-----------------------------------------------------------------------------
(* The boot: entry() unmasks the lines one driver at a time on its own     *)
(* stack, and switchTerminal, which leaves that stack for good, is called  *)
(* by the timer only, whose line is unmasked last.                         *)

\* The masks when entry() has come to pc.
MasksAt(pc) ==
    /\ master_mask = Master \ CASE pc = "pic" -> {}
                                [] pc \in {"rtc", "keyboard"} -> {SLAVE_IRQ}
                                [] pc \in {"terminals", "pit"} -> {1, SLAVE_IRQ}
                                [] pc = "hlt" -> {0, 1, SLAVE_IRQ}
    /\ slave_mask = IF pc \in {"pic", "rtc"} THEN Slave ELSE Slave \ {8}

\* entry() at the bottom, handlers on top of it.
BootStack(s) ==
    /\ Len(s) >= 1 /\ s[1].of = "boot" /\ s[1].pc \in BootPc
    /\ \A i \in 2 .. Len(s) : s[i].of \in Device

Without(of, s) == \A i \in 1 .. Len(s) : s[i].of # of

OnBoot == stack[Boot][1].pc

BootInv ==
    /\ BootStack(stack[Boot])
    /\ \A t \in Term : Without("boot", stack[t])
    /\ MasksAt(OnBoot)
    /\ OnBoot # "hlt" => /\ running = Boot /\ in_use = {} /\ pit_interrupt_count = 0
                         /\ Without("pit", stack[Boot])

\* What the ways to build a stack make of it.
LEMMA Single ==
    ASSUME NEW a
    PROVE  Len(<<a>>) = 1 /\ <<a>>[1] = a /\ (\A i \in 1 .. Len(<<a>>) : i = 1)
           /\ 2 .. Len(<<a>>) = {}
OBVIOUS

LEMMA AppendFacts ==
    ASSUME NEW s \in Seq(Activation), NEW a \in Activation
    PROVE  /\ Len(Append(s, a)) = Len(s) + 1 /\ Append(s, a)[Len(s) + 1] = a
           /\ \A i \in 1 .. Len(s) : Append(s, a)[i] = s[i]
OBVIOUS

LEMMA BottomReplaced ==
    ASSUME NEW s \in Seq(Activation), Len(s) = 1, NEW a
    PROVE  [s EXCEPT ![1] = a] = <<a>>
<1>1. DOMAIN s = {1}
  <2>1. DOMAIN s = 1 .. 1
    OBVIOUS
  <2>2. QED BY <2>1
<1>2. [s EXCEPT ![1] = a] = [i \in {1} |-> a]
  BY <1>1
<1>3. <<a>> = [i \in {1} |-> a]
  <2>1. DOMAIN <<a>> = {1} /\ <<a>>[1] = a
    OBVIOUS
  <2>2. <<a>> = [i \in DOMAIN <<a>> |-> <<a>>[i]]
    OBVIOUS
  <2>3. QED BY <2>1, <2>2
<1>4. QED BY <1>2, <1>3

LEMMA BootIsNoTerm == Boot \in Context /\ Boot \notin Term /\ Context = Term \cup {Boot}
BY SizeAssumption DEF Boot, Context, Term

\* What the activation on top tells of the stack under it.
LEMMA TopTells ==
    ASSUME Stacks, BootInv
    PROVE  /\ Top.of = "boot" => running = Boot /\ Len(stack[Boot]) = 1
           /\ Top.of \in {"user", "call"} => running # Boot
           /\ running = Boot /\ Top.of # "boot" => Len(stack[Boot]) # 1
           /\ Top.of = "pit" => OnBoot = "hlt"
<1> DEFINE s == stack[running]
           n == Len(s)
<1>1. n \in Nat /\ n >= 1 /\ Top = s[n] /\ running \in Context
  BY TopFacts DEF Stacks, Top
<1>2. n \in 1 .. n /\ (n # 1 => n \in 2 .. n)
  <2> HIDE DEF n
  <2>1. QED BY <1>1
<1>3. ASSUME Top.of = "boot" PROVE running = Boot /\ Len(stack[Boot]) = 1
  <2>1. running = Boot
    BY <1>1, <1>2, <1>3, BootIsNoTerm DEF BootInv, Without
  <2>2. ~(n # 1)
    BY <1>1, <1>2, <1>3, <2>1 DEF BootInv, BootStack, Device
  <2>3. QED BY <2>1, <2>2
<1>4. ASSUME Top.of \in {"user", "call"} PROVE running # Boot
  BY <1>1, <1>2, <1>4 DEF BootInv, BootStack, Device
<1>5. ASSUME running = Boot, Top.of # "boot" PROVE Len(stack[Boot]) # 1
  BY <1>1, <1>5 DEF BootInv, BootStack
<1>6. ASSUME Top.of = "pit", OnBoot # "hlt" PROVE FALSE
  BY <1>1, <1>2, <1>6 DEF BootInv, Without
<1>7. QED BY <1>3, <1>4, <1>5, <1>6

\* A step above the bottom of a stack.
Above(s, r) ==
    /\ BootStack(s) => BootStack(r) /\ r[1] = s[1]
    /\ Without("boot", s) => Without("boot", r)

\* The bottom of the boot stack stays when a handler above it moves, comes or goes.
LEMMA GotoAbove ==
    ASSUME NEW s \in Seq(Activation), s # <<>>, NEW a, a.of \in Device, a.of = s[Len(s)].of
    PROVE  LET r == [s EXCEPT ![Len(s)] = a] IN
           Above(s, r) /\ (Without("pit", s) => Without("pit", r))
<1> DEFINE n == Len(s)
           r == [s EXCEPT ![n] = a]
<1>1. n \in Nat /\ n >= 1 /\ n \in 1 .. n /\ DOMAIN s = 1 .. n
  BY DEF Activation
<1>2. Len(r) = n /\ \A i \in 1 .. n : r[i] = IF i = n THEN a ELSE s[i]
  <2>1. DOMAIN r = 1 .. n
    BY <1>1
  <2>2. Len(r) = n
    BY <1>1, <2>1
  <2>3. QED BY <1>1, <2>2
<1> HIDE DEF r, n
<1>3. \A x : x # a.of => (Without(x, s) => Without(x, r))
  BY <1>2 DEF Without, n
<1>4. Without("boot", s) => Without("boot", r)
  BY <1>3 DEF Device
<1>5. Without("pit", s) => Without("pit", r)
  <2>1. Without("pit", s) => a.of # "pit"
    BY <1>1 DEF Without, n
  <2>2. QED BY <1>3, <2>1
<1>6. ASSUME BootStack(s) PROVE BootStack(r) /\ r[1] = s[1]
  <2>1. n # 1
    BY <1>6 DEF BootStack, Device, n
  <2>2. 1 \in 1 .. n /\ \A i \in 2 .. n : i \in 1 .. n
    BY <1>1
  <2>3. r[1] = s[1]
    BY <1>2, <2>1, <2>2
  <2>4. \A i \in 2 .. n : r[i].of \in Device
    BY <1>2, <1>6, <2>2 DEF BootStack, n
  <2>5. QED BY <1>1, <1>2, <1>6, <2>3, <2>4 DEF BootStack
<1>7. QED BY <1>4, <1>5, <1>6 DEF Above, r, n

LEMMA PushAbove ==
    ASSUME NEW s \in Seq(Activation), s # <<>>, NEW a \in Activation, a.of \in Device
    PROVE  LET r == Append(s, a) IN
           Above(s, r) /\ (a.of # "pit" /\ Without("pit", s) => Without("pit", r))
<1> DEFINE n == Len(s)
           r == Append(s, a)
<1>1. n \in Nat /\ n >= 1
  OBVIOUS
<1>2. Len(r) = n + 1 /\ r[n + 1] = a /\ \A i \in 1 .. n : r[i] = s[i]
  OBVIOUS
<1>3. \A i \in 1 .. n + 1 : i \in 1 .. n \/ i = n + 1
  BY <1>1
<1>4. \A i \in 2 .. n + 1 : i \in 2 .. n \/ i = n + 1
  BY <1>1
<1>a. \A i \in 2 .. n : i \in 1 .. n
  BY <1>1
<1>b. 1 \in 1 .. n /\ n + 1 >= 1
  BY <1>1
<1> HIDE DEF r, n
<1>5. \A x : x # a.of => (Without(x, s) => Without(x, r))
  BY <1>2, <1>3 DEF Without, n
<1>6. a.of # "boot"
  BY DEF Device
<1>7. ASSUME BootStack(s) PROVE BootStack(r) /\ r[1] = s[1]
  <2>1. r[1] = s[1]
    BY <1>2, <1>b
  <2>2. \A i \in 2 .. n + 1 : r[i].of \in Device
    BY <1>2, <1>4, <1>7, <1>a DEF BootStack, n
  <2>3. QED BY <1>2, <1>7, <1>b, <2>1, <2>2 DEF BootStack
<1>8. QED BY <1>5, <1>6, <1>7 DEF Above, r

LEMMA PopAbove ==
    ASSUME NEW s \in Seq(Activation), NEW m \in 1 .. Len(s) - 1
    PROVE  LET r == SubSeq(s, 1, m) IN
           Above(s, r) /\ (Without("pit", s) => Without("pit", r))
<1> DEFINE n == Len(s)
           r == SubSeq(s, 1, m)
<1>1. n \in Nat /\ m \in Nat /\ 1 <= m /\ m < n
  OBVIOUS
<1>2. Len(r) = m /\ \A i \in 1 .. m : r[i] = s[i]
  BY <1>1
<1>3. /\ \A i \in 1 .. m : i \in 1 .. n
      /\ \A i \in 2 .. m : i \in 2 .. n /\ i \in 1 .. m
      /\ 1 \in 1 .. m
  BY <1>1
<1> HIDE DEF r, n
<1>4. \A x : Without(x, s) => Without(x, r)
  BY <1>2, <1>3 DEF Without, n
<1>5. ASSUME BootStack(s) PROVE BootStack(r) /\ r[1] = s[1]
  BY <1>1, <1>2, <1>3, <1>5 DEF BootStack, n
<1>6. QED BY <1>4, <1>5 DEF Above, r

\* Every step but those of entry() itself works above the bottom.
LEMMA AboveTheBottom ==
    ASSUME BootInv, UNCHANGED masks,
           \A c \in Context : \/ stack'[c] = stack[c]
                              \/ Above(stack[c], stack'[c])
                              \/ c \in Term /\ Without("boot", stack'[c]),
           \/ OnBoot = "hlt"
           \/ /\ UNCHANGED <<running, in_use, pit_interrupt_count>>
              /\ Without("pit", stack[Boot]) => Without("pit", stack'[Boot])
    PROVE  BootInv'
<1>1. BootStack(stack'[Boot]) /\ stack'[Boot][1] = stack[Boot][1]
  BY BootIsNoTerm DEF BootInv, Above
<1>2. OnBoot' = OnBoot
  BY <1>1 DEF OnBoot
<1>3. \A t \in Term : Without("boot", stack'[t])
  BY BootIsNoTerm DEF BootInv, Above
<1>4. MasksAt(OnBoot)'
  BY <1>2 DEF BootInv, MasksAt, masks
<1>5. QED BY <1>1, <1>2, <1>3, <1>4 DEF BootInv, BootStack, Without

-----------------------------------------------------------------------------
LEMMA BootStepKeeps ==
    ASSUME IInv, BootInv, BootStep
    PROVE  BootInv'
<1>1. Top.of = "boot"
  BY DEF BootStep, i8259_init, initRTC, initKeyboard, initTerminals, init_pit, At
<1>2. running = Boot /\ Len(stack[Boot]) = 1 /\ stack[Boot] \in Seq(Activation)
  BY <1>1, TopTells, BootIsNoTerm DEF IInv, Stacks
<1>3. Top = stack[Boot][1] /\ Top.pc = OnBoot
  BY <1>2 DEF Top, OnBoot
<1>4. ASSUME NEW pc \in BootPc, stack' = Goto(pc, TRUE)
      PROVE  /\ BootStack(stack'[Boot]) /\ OnBoot' = pc /\ Without("pit", stack'[Boot])
             /\ \A t \in Term : Without("boot", stack'[t])
  <2> DEFINE a == Act("boot", pc, TRUE)
             s == stack[Boot]
             r == [s EXCEPT ![1] = a]
  <2>1. stack' = [stack EXCEPT ![Boot] = r]
    BY <1>1, <1>2, <1>4 DEF Goto
  <2>2. r = <<a>>
    BY <1>2, BottomReplaced
  <2> HIDE DEF r
  <2>3. stack'[Boot] = r /\ \A t \in Term : stack'[t] = stack[t]
    BY <2>1, BootIsNoTerm DEF IInv, Stacks
  <2>4. a.of = "boot" /\ a.pc = pc
    BY DEF Act
  <2> HIDE DEF a
  <2>5. BootStack(r) /\ Without("pit", r)
    BY <2>2, <2>4, Single DEF BootStack, Without
  <2>6. OnBoot' = pc
    BY <2>2, <2>3, <2>4, Single DEF OnBoot
  <2>7. QED BY <2>3, <2>5, <2>6 DEF BootInv
<1>5. CASE i8259_init
  <2>1. OnBoot = "pic" /\ stack' = Goto("rtc", TRUE)
    BY <1>3, <1>5 DEF i8259_init, At
  <2>2. MasksAt(OnBoot)'
    BY <1>4, <1>5, <2>1 DEF i8259_init, enable_irq, master_mask_on, slave_mask_on, BootInv, MasksAt,
                      BootPc, Master, Slave, Line, NUM_OF_PORTS, SLAVE_IRQ
  <2>3. QED BY <1>4, <1>5, <2>1, <2>2 DEF i8259_init, BootInv, BootPc, tables
<1>6. CASE initRTC
  <2>1. OnBoot = "rtc" /\ stack' = Goto("keyboard", TRUE)
    BY <1>3, <1>6 DEF initRTC, At
  <2>2. MasksAt(OnBoot)'
    BY <1>4, <1>6, <2>1 DEF initRTC, slave_mask_on, slave_mask_off, BootInv, MasksAt, Irq,
                      BootPc, Master, Slave, Line, NUM_OF_PORTS, SLAVE_IRQ
  <2>3. QED BY <1>4, <1>6, <2>1, <2>2 DEF initRTC, BootInv, BootPc, tables
<1>7. CASE initKeyboard
  <2>1. OnBoot = "keyboard" /\ stack' = Goto("terminals", TRUE)
    BY <1>3, <1>7 DEF initKeyboard, At
  <2>2. MasksAt(OnBoot)'
    BY <1>4, <1>7, <2>1 DEF initKeyboard, enable_irq, master_mask_on, slave_mask_on, BootInv, MasksAt,
                      Irq, BootPc, Master, Slave, Line, NUM_OF_PORTS, SLAVE_IRQ
  <2>3. QED BY <1>4, <1>7, <2>1, <2>2 DEF initKeyboard, BootInv, BootPc, tables
<1>8. CASE initTerminals
  <2>1. OnBoot = "terminals" /\ stack' = Goto("pit", TRUE)
    BY <1>3, <1>8 DEF initTerminals, At
  <2>2. MasksAt(OnBoot)'
    BY <1>4, <1>8, <2>1 DEF initTerminals, BootInv, MasksAt, BootPc, masks
  <2>3. QED BY <1>4, <1>8, <2>1, <2>2 DEF initTerminals, BootInv, BootPc
<1>9. CASE init_pit
  <2>1. OnBoot = "pit" /\ stack' = Goto("hlt", TRUE)
    BY <1>3, <1>9 DEF init_pit, At
  <2>2. MasksAt(OnBoot)'
    BY <1>4, <1>9, <2>1 DEF init_pit, enable_irq, master_mask_on, slave_mask_on, BootInv, MasksAt, Irq,
                      BootPc, Master, Slave, Line, NUM_OF_PORTS, SLAVE_IRQ
  <2>3. QED BY <1>4, <1>9, <2>1, <2>2 DEF init_pit, BootInv, BootPc
<1>10. QED BY <1>5, <1>6, <1>7, <1>8, <1>9 DEF BootStep

\* No timer interrupt before init_pit has unmasked its line.
LEMMA TakeKeeps ==
    ASSUME IInv, BootInv, NEW d \in Device, Take(d)
    PROVE  BootInv'
<1> DEFINE a == Act(d, "entry", FALSE)
           s == stack[running]
<1>1. /\ s \in Seq(Activation) /\ s # <<>> /\ a \in Activation /\ a.of = d
      /\ running \in Context
  BY DEF IInv, Stacks, Act, Activation, Device
<1>2. stack' = [stack EXCEPT ![running] = Append(s, a)]
      /\ UNCHANGED <<masks, running, in_use, pit_interrupt_count>>
  BY DEF Take, Push, tables
<1>3. d = "pit" => OnBoot = "hlt"
  <2> SUFFICES ASSUME d = "pit" PROVE OnBoot = "hlt"
    OBVIOUS
  <2>1. 0 \in Requested
    BY DEF Take, Wins, LineAtMaster, Irq
  <2>2. 0 \notin master_mask
    BY <2>1 DEF Requested
  <2>3. QED BY <2>2 DEF BootInv, MasksAt, BootStack, OnBoot, BootPc, Master, SLAVE_IRQ, NUM_OF_PORTS
<1>4. Above(s, Append(s, a)) /\ (d # "pit" /\ Without("pit", s) => Without("pit", Append(s, a)))
  BY <1>1, PushAbove
<1>5. stack'[running] = Append(s, a) /\ \A c \in Context : c # running => stack'[c] = stack[c]
  BY <1>1, <1>2 DEF IInv, Stacks
<1> HIDE DEF a, s
<1>6. \A c \in Context : stack'[c] = stack[c] \/ Above(stack[c], stack'[c])
  BY <1>4, <1>5 DEF s
<1>7. OnBoot # "hlt" /\ Without("pit", stack[Boot]) => Without("pit", stack'[Boot])
  BY <1>3, <1>4, <1>5, BootIsNoTerm DEF s
<1>8. QED BY <1>2, <1>6, <1>7, AboveTheBottom

\* A handler that stays on its stack, or returns from it.
LEMMA HandlerKeeps ==
    ASSUME IInv, BootInv, Handler, ~PitSwitches, ~\E t \in Term : FunctionKey(t)
    PROVE  BootInv'
<1> DEFINE s == stack[running]
           n == Len(s)
<1>1. /\ s \in Seq(Activation) /\ s # <<>> /\ running \in Context /\ n \in Nat /\ n >= 1
      /\ Top \in Activation /\ WellFormed(Top)
      /\ n = 1 => Top.of \in {"boot", "user"}
  BY TopFacts DEF IInv, Stacks
<1>4. UNCHANGED <<masks, running, in_use>>
  BY DEF Handler, PitCounts, PitTicks, KeyTyped, RtcMasterEoi, RtcSlaveEoi, EoiAgain,
         EnableInterrupts, Iret, tables
<1>5. pit_interrupt_count' = pit_interrupt_count \/ OnBoot = "hlt"
  <2>1. PitCounts => OnBoot = "hlt"
    BY TopTells DEF IInv, PitCounts, At
  <2>2. QED BY <2>1 DEF Handler, PitTicks, KeyTyped, RtcMasterEoi, RtcSlaveEoi,
         EoiAgain, EnableInterrupts, Iret, tables
<1>6. PICK r : /\ stack' = [stack EXCEPT ![running] = r] /\ Above(s, r)
               /\ Without("pit", s) => Without("pit", r)
  <2>1. CASE Iret
    <3>1. n # 1
      BY <1>1, <2>1 DEF Iret, WellFormed, BootPc
    <3> DEFINE m == n - 1
    <3>2. m \in 1 .. n - 1
      BY <1>1, <3>1, Between, Zenon
    <3>3. Above(s, SubSeq(s, 1, m)) /\ (Without("pit", s) => Without("pit", SubSeq(s, 1, m)))
      BY <1>1, <3>2, PopAbove
    <3>4. stack' = [stack EXCEPT ![running] = SubSeq(s, 1, m)]
      BY <2>1 DEF Iret, Pop
    <3>5. QED BY <3>3, <3>4
  <2>2. CASE ~Iret
    <3>1. Top.of \in Device /\ \E pc, flag : stack' = Goto(pc, flag)
      BY <1>1, <2>2 DEF Handler, PitCounts, PitTicks, KeyTyped, RtcMasterEoi,
         RtcSlaveEoi, EoiAgain, EnableInterrupts, At, Device, WellFormed, Activation, BootPc
    <3>2. PICK pc, flag : stack' = Goto(pc, flag)
      BY <3>1
    <3> DEFINE a == Act(Top.of, pc, flag)
    <3>3. a.of \in Device /\ a.of = s[n].of
      BY <3>1 DEF Act, Top
    <3>4. Above(s, [s EXCEPT ![n] = a])
          /\ (Without("pit", s) => Without("pit", [s EXCEPT ![n] = a]))
      BY <1>1, <3>3, GotoAbove
    <3>5. stack' = [stack EXCEPT ![running] = [s EXCEPT ![n] = a]]
      BY <3>2 DEF Goto
    <3>6. QED BY <3>4, <3>5
  <2>3. QED BY <2>1, <2>2
<1>7. stack'[running] = r /\ \A c \in Context : c # running => stack'[c] = stack[c]
  BY <1>1, <1>6 DEF IInv, Stacks
<1> HIDE DEF s, n
<1>8. \A c \in Context : stack'[c] = stack[c] \/ Above(stack[c], stack'[c])
  BY <1>6, <1>7 DEF s
<1>9. Without("pit", stack[Boot]) => Without("pit", stack'[Boot])
  BY <1>6, <1>7, BootIsNoTerm DEF s
<1>10. QED BY <1>4, <1>5, <1>8, <1>9, AboveTheBottom

\* switchTerminal is called when every driver is ready.
LEMMA SwitchKeeps ==
    ASSUME IInv, BootInv, NEW t \in Term, SwitchTerminal(t), Top.of \in {"pit", "key"},
           OnBoot = "hlt"
    PROVE  BootInv'
<1> DEFINE s == stack[running]
           n == Len(s)
           a == Act(Top.of, "eoi_again", FALSE)
           r == [s EXCEPT ![n] = a]
           u == Act("user", "run", FALSE)
<1>1. s \in Seq(Activation) /\ s # <<>> /\ running \in Context
  BY DEF IInv, Stacks
<1>2. a.of \in Device /\ a.of = s[n].of
  BY DEF Act, Top, Device
<1>3. Above(s, r)
  BY <1>1, <1>2, GotoAbove
<1>4. Without("boot", <<u>>)
  <2>1. u.of # "boot"
    BY DEF Act
  <2> HIDE DEF u
  <2>2. QED BY <2>1, Single DEF Without
<1>5. Goto("eoi_again", FALSE) = [stack EXCEPT ![running] = r]
  BY DEF Goto
<1> HIDE DEF r
<1>6. /\ \A c \in Context : \/ stack'[c] = stack[c]
                            \/ c = running /\ stack'[c] = r
                            \/ c = t /\ stack'[c] = <<u>>
      /\ UNCHANGED masks
  BY <1>1, <1>5 DEF SwitchTerminal, IInv, Stacks
<1> HIDE DEF u, s
<1>7. \A c \in Context : \/ stack'[c] = stack[c] \/ Above(stack[c], stack'[c])
                         \/ c \in Term /\ Without("boot", stack'[c])
  BY <1>3, <1>4, <1>6 DEF s
<1>8. QED BY <1>6, <1>7, AboveTheBottom

\* Programs run on the terminals' stacks only.
LEMMA ProgramKeeps ==
    ASSUME IInv, BootInv, Program, IInv'
    PROVE  BootInv'
<1> DEFINE s == stack[running]
           n == Len(s)
<1>1. /\ UNCHANGED <<masks, running, in_use, pit_interrupt_count>>
      /\ Top.of \in {"user", "call"}
      /\ s \in Seq(Activation) /\ n \in Nat /\ n >= 1 /\ running \in Context /\ s # <<>>
      /\ Top.of = "call" => n # 1
  BY TopFacts DEF IInv, Stacks, Program, SysCall, SysReturn, SysExecute, SysHalt, tables
<1>2. running \in Term
  BY <1>1, TopTells, BootIsNoTerm DEF IInv
<1>3. Without("boot", s)
  BY <1>2 DEF BootInv
<1> DEFINE Result == \E r : stack' = [stack EXCEPT ![running] = r] /\ Without("boot", r)
<1>a. Result
  <2>1. ASSUME NEW of \in {"user", "call"}, stack' = Push(Act(of, "run", TRUE)) PROVE Result
    <3> DEFINE a == Act(of, "run", TRUE)
    <3>1. a \in Activation /\ a.of # "boot"
      BY DEF Act, Activation
    <3>2. stack' = [stack EXCEPT ![running] = Append(s, a)]
      BY <2>1 DEF Push
    <3>3. Len(Append(s, a)) = n + 1 /\ Append(s, a)[n + 1] = a
          /\ \A i \in 1 .. n : Append(s, a)[i] = s[i]
      BY <1>1, <3>1, AppendFacts
    <3>4. \A i \in 1 .. n + 1 : i \in 1 .. n \/ i = n + 1
      BY <1>1
    <3>5. Without("boot", Append(s, a))
      BY <1>3, <3>1, <3>3, <3>4 DEF Without
    <3>6. QED BY <3>2, <3>5
  <2>2. ASSUME NEW m \in 1 .. n - 1, stack' = [stack EXCEPT ![running] = SubSeq(s, 1, m)] PROVE Result
    <3>1. Above(s, SubSeq(s, 1, m))
      BY <1>1, PopAbove
    <3>2. QED BY <1>3, <2>2, <3>1 DEF Above
  <2>3. CASE SysCall
    BY <2>1, <2>3 DEF SysCall
  <2>4. CASE SysExecute
    BY <2>1, <2>4 DEF SysExecute
  <2>5. CASE SysReturn
    <3> DEFINE m == n - 1
    <3>1. m \in 1 .. n - 1
      <4>1. n # 1
        BY <1>1, <2>5 DEF SysReturn
      <4>2. QED BY <1>1, <4>1, Between, Zenon
    <3>2. stack' = [stack EXCEPT ![running] = SubSeq(s, 1, m)]
      BY <2>5 DEF SysReturn, Pop
    <3> HIDE DEF m
    <3>3. QED BY <2>2, <3>1, <3>2
  <2>6. CASE SysHalt /\ n # 2
    <3> DEFINE m == n - 2
    <3>1. m \in 1 .. n - 1
      <4>1. n # 1
        BY <1>1, <2>6 DEF SysHalt
      <4>2. QED BY <1>1, <2>6, <4>1, Between, Zenon
    <3>2. stack' = [stack EXCEPT ![running] = SubSeq(s, 1, m)]
      BY <2>6 DEF SysHalt
    <3> HIDE DEF m
    <3>3. QED BY <2>2, <3>1, <3>2
  <2>7. CASE SysHalt /\ n = 2
    <3> DEFINE u == Act("user", "run", TRUE)
    <3>1. u.of # "boot"
      BY DEF Act
    <3> HIDE DEF u
    <3>2. Without("boot", <<u>>)
      BY <3>1, Single DEF Without
    <3>3. stack' = [stack EXCEPT ![running] = <<u>>]
      BY <2>7 DEF SysHalt, u
    <3>4. QED BY <3>2, <3>3
  <2>8. QED BY <2>3, <2>4, <2>5, <2>6, <2>7 DEF Program
<1>4. PICK r : stack' = [stack EXCEPT ![running] = r] /\ Without("boot", r)
  BY <1>a
<1>5. stack'[running] = r /\ \A c \in Context : c # running => stack'[c] = stack[c]
  BY <1>1, <1>4 DEF IInv, Stacks
<1>6. \A c \in Context : stack'[c] = stack[c] \/ (c \in Term /\ Without("boot", stack'[c]))
  BY <1>2, <1>4, <1>5
<1>7. stack'[Boot] = stack[Boot]
  BY <1>2, <1>5, BootIsNoTerm
<1>8. QED BY <1>1, <1>6, <1>7, AboveTheBottom

\* The boot in every reachable state.
THEOREM BootInOrder ==
    ASSUME QuietBoot
    PROVE  Spec => []BootInv
<1>1. Init => BootInv
  <2> SUFFICES ASSUME Init PROVE BootInv
    OBVIOUS
  <2> DEFINE a == Act("boot", "pic", FALSE)
  <2>1. stack[Boot] = <<a>> /\ \A t \in Term : stack[t] = <<>>
    BY BootIsNoTerm DEF Init
  <2>2. a.of = "boot" /\ a.pc = "pic"
    BY DEF Act
  <2> HIDE DEF a
  <2>3. BootStack(<<a>>) /\ Without("pit", <<a>>)
    BY <2>2, Single DEF BootStack, Without, BootPc
  <2>a. Without("boot", <<>>)
    BY NoActivation DEF Without
  <2>4. OnBoot = "pic"
    BY <2>1, <2>2, Single DEF OnBoot
  <2>5. MasksAt("pic")
    BY DEF Init, MasksAt
  <2>6. QED BY <2>1, <2>3, <2>a, <2>4, <2>5 DEF BootInv, Init
<1>2. IInv /\ BootInv /\ IInv' /\ [Next]_vars => BootInv'
  <2> SUFFICES ASSUME IInv, BootInv, IInv', [Next]_vars PROVE BootInv'
    OBVIOUS
  <2>1. CASE BootStep
    BY <2>1, BootStepKeeps
  <2>2. CASE Handler
    <3>1. ASSUME NEW t \in Term, SwitchTerminal(t), At("pit", "switch") \/ FunctionKey(t)
          PROVE  BootInv'
      <4>1. Top.of \in {"pit", "key"}
        BY <3>1 DEF At, FunctionKey
      <4>2. OnBoot = "hlt"
        <5>1. At("pit", "switch") => OnBoot = "hlt"
          BY TopTells DEF IInv, At
        <5>2. FunctionKey(t) => OnBoot = "hlt"
          <6>1. FunctionKey(t) => pit_interrupt_count # 0
            BY SizeAssumption DEF FunctionKey
          <6>2. QED BY <6>1 DEF BootInv
        <5>3. QED BY <3>1, <5>1, <5>2
      <4>3. QED BY <3>1, <4>1, <4>2, SwitchKeeps
    <3>2. CASE PitSwitches
      <4>1. pit_interrupt_count - 1 \in Term
        BY <3>2, SizeAssumption DEF PitSwitches, At, IInv, Registers, Term
      <4>2. QED BY <3>1, <3>2, <4>1 DEF PitSwitches
    <3>3. CASE \E t \in Term : FunctionKey(t)
      BY <3>1, <3>3 DEF FunctionKey
    <3>4. CASE ~PitSwitches /\ ~\E t \in Term : FunctionKey(t)
      BY <2>2, <3>4, HandlerKeeps DEF Handler
    <3>5. QED BY <3>2, <3>3, <3>4
  <2>3. CASE Program
    BY <2>3, ProgramKeeps
  <2>4. ASSUME NEW d \in Device, Raise(d) PROVE BootInv'
    BY <2>4 DEF Raise, BootInv, OnBoot, MasksAt, masks, tables
  <2>5. ASSUME NEW d \in Device, Take(d) PROVE BootInv'
    BY <2>5, TakeKeeps
  <2>6. CASE UNCHANGED vars
    BY <2>6 DEF vars, BootInv, OnBoot, MasksAt
  <2>7. QED BY <2>1, <2>2, <2>3, <2>4, <2>5, <2>6 DEF Next
<1>3. QED BY <1>1, <1>2, Inductive, PTL DEF Spec

(* The first terminal opens when every driver is initialised and their     *)
(* lines, no others, are unmasked: the stack of entry() that               *)
(* switchTerminal leaves had nothing left to do.                           *)
THEOREM DriversInitialised ==
    ASSUME QuietBoot
    PROVE  Spec => []DriversReady
<1>1. BootInv => DriversReady
  <2> SUFFICES ASSUME BootInv, in_use # {}
               PROVE  OnBoot = "hlt" /\ Line \ (master_mask \union slave_mask) = {0, 1, SLAVE_IRQ, 8}
    BY DEF DriversReady, OnBoot
  <2>1. OnBoot = "hlt"
    BY DEF BootInv
  <2>2. master_mask = Master \ {0, 1, SLAVE_IRQ} /\ slave_mask = Slave \ {8}
    BY <2>1 DEF BootInv, MasksAt
  <2>3. QED BY <2>1, <2>2 DEF Line, Master, Slave, NUM_OF_PORTS, SLAVE_IRQ
<1>2. QED BY <1>1, BootInOrder, PTL
=============================================================================
