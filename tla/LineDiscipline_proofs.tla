----------------------- MODULE LineDiscipline_proofs -----------------------
(***************************************************************************)
(* Proofs about LineDiscipline, for every buffer size, number of terminals *)
(* and tab width: no buffer is overrun but by the three windows that do    *)
(* (a Tab near the end, a switch from an unterminated buffer, a read into  *)
(* a short one), and a calm user's lines (Windows = {}) are kept,          *)
(* signalled and read.                                                     *)
(***************************************************************************)
EXTENDS LineDiscipline, SequenceTheorems, WellFoundedInduction, TLAPS

At == reader[currentTerminal].pc
Line == entered[currentTerminal][1]
Keyboard == [buf : Buffer, idx : Nat]
Reader == [pc  : {"run", "wait", "clear", "copy", "flag", "wipe", "reset", "done"},
           i   : Index,
           out : Buffer,
           nbytes : Nat]

(* A line in the buffer, with its newline where there is room for one.     *)
Buffered(buf, line) ==
    /\ Len(line) <= KEYBOARD_BUFFER_SIZE
    /\ \A k \in 1 .. Len(line) : buf[k - 1] = line[k]
    /\ Len(line) < KEYBOARD_BUFFER_SIZE => buf[Len(line)] = NewLine

(* What a read has copied so far, and what it has when it is done.         *)
Copied(r, line) == r.i <= Len(line) /\ \A k \in 1 .. r.i : r.out[k - 1] = line[k]
Returned(r, line) ==
    IF Len(line) < KEYBOARD_BUFFER_SIZE - 1
    THEN /\ r.i + 1 = Len(line) + 1
         /\ r.out[Len(line)] = NewLine
         /\ \A k \in 1 .. Len(line) : r.out[k - 1] = line[k]
    ELSE /\ r.i + 1 = KEYBOARD_BUFFER_SIZE
         /\ \A k \in 1 .. KEYBOARD_BUFFER_SIZE - 1 : r.out[k - 1] = line[k]

(* The terminals off the screen wait, with their half-typed lines saved.   *)
Background ==
    \A t \in Term \ {currentTerminal} :
        /\ reader[t].pc \in {"run", "wait"}
        /\ entered[t] = <<>>
        /\ Holds(available_terminals[t], typed[t])
SavedTerminated == \A t \in Term : Terminated(available_terminals[t].buf)

(* A read that has yet to clear its caller's buffer was offered all of it. *)
Offered ==
    \A t \in Term : reader[t].pc \in {"wait", "clear"} => reader[t].nbytes >= KEYBOARD_BUFFER_SIZE

(* What keeps every store in its array, whatever is typed and whenever.    *)
Sane ==
    /\ keyboard \in Keyboard /\ available_terminals \in [Term -> Keyboard]
    /\ currentTerminal \in Term /\ reader \in [Term -> Reader]
    /\ NoOverrun /\ SavedTerminated /\ Offered

(* No line in flight: the buffer holds the one being typed.                *)
Editing ==
    ~LineInFlight => entered[currentTerminal] = <<>> /\ Holds(keyboard, typed[currentTerminal])

(* A line in flight: nothing is typed before its read returns; until the   *)
(* flag is reset it is in the buffer, after that in the reader's.          *)
Signalled == /\ At \in {"clear", "copy", "flag"} => return_from_sys_write = 1
             /\ At \in {"wipe", "reset", "done"} => return_from_sys_write = 0
Taking ==
    LineInFlight =>
        /\ typed[currentTerminal] = <<>> /\ Len(entered[currentTerminal]) = 1
        /\ Line \in Seq(Chars)
        /\ Signalled
        /\ return_from_sys_write = 1 => Buffered(keyboard.buf, Line)
        /\ At = "copy" => Copied(reader[currentTerminal], Line)
        /\ At \in {"flag", "wipe", "reset", "done"} => Returned(reader[currentTerminal], Line)
        /\ At = "done" => keyboard.idx = 0

IInv == TypeOK /\ NoOverrun /\ SavedTerminated /\ Background /\ Editing /\ Taking

-----------------------------------------------------------------------------
(* The first index that satisfies a condition, as StrCpy finds it.         *)
LEMMA LeastIndex ==
    ASSUME NEW S \in SUBSET Index, S # {}
    PROVE  \E i \in S : \A j \in S : i <= j
<1> DEFINE R == OpToRel(<, Nat)
<1>1. S \subseteq Nat
  BY SizeAssumption DEF Index
<1>2. \E i \in S : \A j \in S : ~(<<j, i>> \in R)
  <2> HIDE DEF R
  <2>1. IsWellFoundedOn(R, Nat)
    BY NatLessThanWellFounded DEF R
  <2> QED BY <1>1, <2>1, WFMin
<1>3. \A i, j \in Nat : ~(<<j, i>> \in R) => i <= j
  BY DEF OpToRel
<1> QED BY <1>1, <1>2, <1>3

(* strcpy of a terminated buffer gives a terminated buffer.                *)
LEMMA StrCpyTerminates ==
    ASSUME NEW dest \in Buffer, NEW src \in Buffer, Terminated(src)
    PROVE  StrCpy(dest, src) \in Buffer /\ Terminated(StrCpy(dest, src))
<1> DEFINE S == {i \in Index : src[i] \in {NUL, NewLine}}
           new == StrCpy(dest, src)
<1>1. new \in Buffer
  BY SizeAssumption DEF StrCpy, Buffer, Cell, Index
<1>2. PICK i \in S : \A j \in S : i <= j
  BY LeastIndex DEF Terminated
<1>3. new[i] = NUL
  BY <1>2, SizeAssumption DEF StrCpy, Index
<1> QED BY <1>1, <1>2, <1>3 DEF Terminated

(* strcpy moves a line: its characters are neither NUL nor newline.        *)
LEMMA StrCpyMoves ==
    ASSUME NEW dest \in Buffer, NEW src \in Buffer, NEW n \in Nat,
           NEW line \in Seq(Chars), n <= KEYBOARD_BUFFER_SIZE,
           Holds([buf |-> src, idx |-> n], line)
    PROVE  Holds([buf |-> StrCpy(dest, src), idx |-> n], line)
<1>1. n = Len(line) /\ \A k \in 1 .. n : src[k - 1] = line[k]
  BY DEF Holds
<1>2. \A k \in 1 .. n : src[k - 1] \notin {NUL, NewLine}
  <2>1. \A k \in 1 .. n : line[k] \in Chars
    BY <1>1, ElementOfSeq
  <2> QED BY <1>1, <2>1, CharAssumption DEF Chars, NUL, NewLine, Space
<1>3. \A k \in 1 .. n : k - 1 \in Index /\ StrCpy(dest, src)[k - 1] = src[k - 1]
  <2> TAKE k \in 1 .. n
  <2>1. k - 1 \in Index
    BY SizeAssumption DEF Index
  <2>2. \A m \in 0 .. k - 1 : m + 1 \in 1 .. n /\ (m + 1) - 1 = m
    OBVIOUS
  <2>3. \A m \in 0 .. k - 1 : src[m] \notin {NUL, NewLine}
    BY <1>2, <2>2
  <2> QED BY <2>1, <2>3 DEF StrCpy
<1> QED BY <1>1, <1>3 DEF Holds

(* The handler's edits of the buffer follow those of the line.             *)
LEMMA AddHolds ==
    ASSUME NEW kb \in Keyboard, NEW line \in Seq(Chars), NEW c \in Chars,
           Holds(kb, line), kb.idx < KEYBOARD_BUFFER_SIZE
    PROVE  /\ Add(kb, c) \in Keyboard /\ Append(line, c) \in Seq(Chars)
           /\ Add(kb, c).idx <= KEYBOARD_BUFFER_SIZE
           /\ Holds(Add(kb, c), Append(line, c))
<1>1. kb.idx \in Index /\ kb.idx = Len(line) /\ kb.buf \in Buffer
  BY SizeAssumption DEF Index, Holds, Keyboard
<1>2. c \in Cell
  BY DEF Cell
<1>3. Add(kb, c) \in Keyboard
  BY <1>1, <1>2 DEF Add, Keyboard, Buffer, Index
<1>4. /\ Append(line, c) \in Seq(Chars) /\ Len(Append(line, c)) = Len(line) + 1
      /\ \A k \in 1 .. Len(line) : Append(line, c)[k] = line[k]
      /\ Append(line, c)[Len(line) + 1] = c
  BY AppendProperties
<1>5. Add(kb, c).idx = Len(line) + 1 /\ Add(kb, c).buf = [kb.buf EXCEPT ![kb.idx] = c]
  BY <1>1 DEF Add
<1>6. ASSUME NEW k \in 1 .. Len(line) + 1 PROVE Add(kb, c).buf[k - 1] = Append(line, c)[k]
  <2>1. k - 1 \in Index
    BY <1>1, SizeAssumption DEF Index
  <2>2. CASE k = Len(line) + 1
    BY <1>1, <1>4, <1>5, <2>1, <2>2 DEF Buffer
  <2>3. CASE k # Len(line) + 1
    <3>1. k \in 1 .. Len(line) /\ k - 1 # kb.idx
      BY <1>1, <2>3
    <3> QED BY <1>1, <1>4, <1>5, <2>1, <3>1 DEF Holds, Buffer
  <2> QED BY <2>2, <2>3
<1> QED BY <1>1, <1>3, <1>4, <1>5, <1>6, SizeAssumption DEF Holds, Index

\* A key changes the typed line and the buffer alike.
LEMMA TabHolds ==
    ASSUME NEW kb \in Keyboard, NEW line \in Seq(Chars), NEW new, NEW spaces,
           Holds(kb, line), kb.idx + TabWidth <= KEYBOARD_BUFFER_SIZE,
           spaces = [k \in 1 .. TabWidth |-> Space],
           new = [buf |-> [i \in Index |-> IF i \in kb.idx .. kb.idx + TabWidth - 1
                                           THEN Space ELSE kb.buf[i]],
                  idx |-> kb.idx + TabWidth]
    PROVE  new \in Keyboard /\ line \o spaces \in Seq(Chars) /\ Holds(new, line \o spaces)
<1>1. kb.idx = Len(line) /\ kb.buf \in Buffer /\ Len(line) \in Nat /\ TabWidth \in Nat \ {0}
  BY SizeAssumption, LenProperties DEF Holds, Keyboard
<1>2. Space \in Cell /\ Space \in Chars
  BY DEF Cell, Chars
<1>3. new \in Keyboard
  BY <1>1, <1>2 DEF Keyboard, Buffer
<1>4. spaces \in Seq(Chars) /\ Len(spaces) = TabWidth
  BY <1>1, <1>2
<1>5. /\ line \o spaces \in Seq(Chars) /\ Len(line \o spaces) = Len(line) + TabWidth
      /\ \A k \in 1 .. Len(line) + TabWidth :
            (line \o spaces)[k] = IF k <= Len(line) THEN line[k] ELSE spaces[k - Len(line)]
  <2>1. \A u \in Seq(Chars) : /\ line \o u \in Seq(Chars) /\ Len(line \o u) = Len(line) + Len(u)
                             /\ \A k \in 1 .. Len(line) + Len(u) :
                                   (line \o u)[k] = IF k <= Len(line) THEN line[k]
                                                    ELSE u[k - Len(line)]
    BY ConcatProperties
  <2> QED BY <1>4, <2>1
<1>6. ASSUME NEW k \in 1 .. Len(line) + TabWidth PROVE new.buf[k - 1] = (line \o spaces)[k]
  <2>1. k - 1 \in Index
    BY <1>1, SizeAssumption DEF Index
  <2>2. CASE k <= Len(line)
    <3>1. k \in 1 .. Len(line) /\ k - 1 \notin kb.idx .. kb.idx + TabWidth - 1
      BY <1>1, <2>2
    <3> QED BY <1>5, <2>1, <2>2, <3>1 DEF Holds
  <2>3. CASE k > Len(line)
    <3>1. k - Len(line) \in 1 .. TabWidth /\ k - 1 \in kb.idx .. kb.idx + TabWidth - 1
      BY <1>1, <2>3
    <3> QED BY <1>1, <1>5, <2>1, <2>3, <3>1
  <2> QED BY <1>1, <2>2, <2>3
<1> QED BY <1>1, <1>3, <1>5, <1>6 DEF Holds

LEMMA BackspaceHolds ==
    ASSUME NEW kb \in Keyboard, NEW line \in Seq(Chars), Holds(kb, line), kb.idx > 0
    PROVE  /\ line # <<>> /\ SubSeq(line, 1, Len(line) - 1) \in Seq(Chars)
           /\ [kb EXCEPT !.idx = @ - 1] \in Keyboard
           /\ Holds([kb EXCEPT !.idx = @ - 1], SubSeq(line, 1, Len(line) - 1))
<1>1. kb.idx = Len(line) /\ kb.buf \in Buffer /\ Len(line) \in Nat /\ Len(line) > 0
  BY LenProperties DEF Holds, Keyboard
<1>2. \A k \in 1 .. Len(line) - 1 : line[k] \in Chars
  BY <1>1, ElementOfSeq
<1>3. /\ SubSeq(line, 1, Len(line) - 1) \in Seq(Chars)
      /\ Len(SubSeq(line, 1, Len(line) - 1)) = Len(line) - 1
      /\ \A k \in 1 .. Len(line) - 1 : SubSeq(line, 1, Len(line) - 1)[k] = line[k]
  <2> DEFINE n == Len(line) - 1
             short == SubSeq(line, 1, n)
  <2>1. n \in Int /\ n >= 0 /\ \A i \in 1 .. n : line[i] \in Chars
    BY <1>1, <1>2
  <2> HIDE DEF n
  <2>2. short \in Seq(Chars)
    BY <2>1, SubSeqProperties
  <2>3. Len(short) = IF 1 <= n THEN n - 1 + 1 ELSE 0
    BY <2>1, SubSeqProperties
  <2>4. \A i \in 1 .. n - 1 + 1 : short[i] = line[1 + i - 1]
    BY <2>1, SubSeqProperties
  <2>5. Len(short) = n /\ \A i \in 1 .. n : short[i] = line[i]
    BY <2>1, <2>3, <2>4
  <2> QED BY <2>2, <2>5 DEF n
<1>4. line # <<>>
  BY <1>1
<1> QED BY <1>1, <1>3, <1>4 DEF Holds, Keyboard

(* Enter puts the newline where the line ends.                             *)
LEMMA EnterBuffers ==
    ASSUME NEW kb \in Keyboard, NEW line \in Seq(Chars), Holds(kb, line),
           kb.idx <= KEYBOARD_BUFFER_SIZE, NEW new,
           new = IF kb.idx >= KEYBOARD_BUFFER_SIZE THEN kb ELSE Add(kb, NewLine)
    PROVE  /\ new \in Keyboard /\ new.idx <= KEYBOARD_BUFFER_SIZE
           /\ Buffered(new.buf, line)
<1>1. kb.idx = Len(line) /\ kb.buf \in Buffer /\ Len(line) \in Nat
  BY LenProperties DEF Holds, Keyboard
<1>2. CASE kb.idx >= KEYBOARD_BUFFER_SIZE
  BY <1>1, <1>2, SizeAssumption DEF Holds, Buffered, Keyboard
<1>3. CASE kb.idx < KEYBOARD_BUFFER_SIZE
  <2>1. kb.idx \in Index /\ NewLine \in Cell
    BY <1>1, <1>3, SizeAssumption DEF Index, Cell
  <2>2. new = [buf |-> [kb.buf EXCEPT ![kb.idx] = NewLine], idx |-> kb.idx + 1]
    BY <1>1, <1>3, <2>1, SizeAssumption DEF Add
  <2>3. \A k \in 1 .. Len(line) : new.buf[k - 1] = kb.buf[k - 1]
    <3> TAKE k \in 1 .. Len(line)
    <3>1. k - 1 \in Index /\ k - 1 # kb.idx
      BY <1>1, <1>3, SizeAssumption DEF Index
    <3> QED BY <1>1, <2>2, <3>1 DEF Buffer
  <2>4. new \in Keyboard /\ new.idx <= KEYBOARD_BUFFER_SIZE /\ new.buf[Len(line)] = NewLine
    BY <1>1, <1>3, <2>1, <2>2, SizeAssumption DEF Keyboard, Buffer
  <2> QED BY <1>1, <1>3, <2>3, <2>4 DEF Holds, Buffered
<1> QED BY <1>1, <1>2, <1>3, SizeAssumption

-----------------------------------------------------------------------------
(* The bounds, whoever types ahead of a read or switches under one.        *)

\* A character stored below the end.
LEMMA AddStays ==
    ASSUME NEW kb \in Keyboard, NEW c \in Cell, kb.idx < KEYBOARD_BUFFER_SIZE
    PROVE  Add(kb, c) \in Keyboard /\ Add(kb, c).idx <= KEYBOARD_BUFFER_SIZE
<1>1. kb.idx \in Index /\ kb.idx \in Nat /\ kb.buf \in Buffer
  BY SizeAssumption DEF Index, Keyboard
<1>2. Add(kb, c) = [buf |-> [kb.buf EXCEPT ![kb.idx] = c], idx |-> kb.idx + 1]
  BY <1>1 DEF Add
<1>3. [kb.buf EXCEPT ![kb.idx] = c] \in Buffer
  BY <1>1 DEF Buffer
<1>4. kb.idx + 1 \in Nat /\ kb.idx + 1 <= KEYBOARD_BUFFER_SIZE
  BY <1>1, SizeAssumption
<1> QED BY <1>2, <1>3, <1>4 DEF Keyboard

\* A step that leaves the readers and the saved copies alone.
LEMMA KeyboardStays ==
    ASSUME Sane, keyboard' \in Keyboard, keyboard'.idx <= KEYBOARD_BUFFER_SIZE, ~overrun',
           UNCHANGED <<available_terminals, currentTerminal, reader>>
    PROVE  Sane'
BY DEF Sane, NoOverrun, SavedTerminated, Offered

\* The keys, with the two windows excluded that store past an end.
LEMMA KeysStay ==
    ASSUME Windows \cap {"tab", "unterminated"} = {}, Sane, Key
    PROVE  Sane'
<1>1. /\ keyboard \in Keyboard /\ keyboard.idx \in Nat /\ keyboard.buf \in Buffer
      /\ keyboard.idx <= KEYBOARD_BUFFER_SIZE /\ ~overrun
  BY DEF Sane, NoOverrun, Keyboard
<1>2. ~Full => keyboard.idx < KEYBOARD_BUFFER_SIZE
  BY <1>1, SizeAssumption DEF Full
<1>3. ASSUME NEW c \in Chars, KeyChar(c) PROVE Sane'
  <2>1. c \in Cell
    BY DEF Cell
  <2>2. Add(keyboard, c) \in Keyboard /\ Add(keyboard, c).idx <= KEYBOARD_BUFFER_SIZE
    BY <1>1, <1>2, <1>3, <2>1, AddStays DEF KeyChar
  <2> QED BY <1>1, <1>3, <2>2, KeyboardStays DEF KeyChar
<1>4. CASE KeyTab
  <2>1. keyboard.idx + TabWidth <= KEYBOARD_BUFFER_SIZE /\ keyboard.idx + TabWidth \in Nat
    BY <1>1, <1>4, SizeAssumption DEF KeyTab, MayTab
  <2>2. keyboard' \in Keyboard /\ keyboard'.idx = keyboard.idx + TabWidth
    <3>1. Space \in Cell
      BY DEF Cell, Chars
    <3> QED BY <1>1, <1>4, <2>1, <3>1 DEF KeyTab, Keyboard, Buffer
  <2>3. ~overrun'
    <3>1. ~(keyboard'.idx > KEYBOARD_BUFFER_SIZE)
      BY <1>1, <2>1, <2>2, SizeAssumption
    <3>2. overrun' = (overrun \/ keyboard'.idx > KEYBOARD_BUFFER_SIZE)
      BY <1>4 DEF KeyTab
    <3> QED BY <1>1, <3>1, <3>2, Zenon
  <2> QED BY <1>4, <2>1, <2>2, <2>3, KeyboardStays DEF KeyTab
<1>5. CASE KeyBackspace
  <2>1. keyboard' \in Keyboard /\ keyboard'.idx <= KEYBOARD_BUFFER_SIZE
    <3>1. keyboard.idx - 1 \in Nat /\ keyboard.idx - 1 <= KEYBOARD_BUFFER_SIZE
      BY <1>1, <1>5, SizeAssumption DEF KeyBackspace
    <3> QED BY <1>1, <1>5, <3>1 DEF KeyBackspace, Keyboard
  <2> QED BY <1>1, <1>5, <2>1, KeyboardStays DEF KeyBackspace
<1>6. CASE KeyEnter
  <2>1. NewLine \in Cell
    BY DEF Cell
  <2>2. keyboard' \in Keyboard /\ keyboard'.idx <= KEYBOARD_BUFFER_SIZE
    BY <1>1, <1>2, <1>6, <2>1, AddStays DEF KeyEnter
  <2> QED BY <1>1, <1>6, <2>2, KeyboardStays DEF KeyEnter
<1>7. ASSUME NEW t \in Term, KeyFunction(t) PROVE Sane'
  <2> DEFINE cur == currentTerminal
             kept == [buf |-> StrCpy(available_terminals[cur].buf, keyboard.buf),
                      idx |-> keyboard.idx]
             saved == [available_terminals EXCEPT ![cur] = kept]
  <2>1. /\ cur \in Term /\ Terminated(keyboard.buf)
        /\ \A u \in Term : /\ available_terminals[u].buf \in Buffer
                           /\ available_terminals[u].idx \in Nat
                           /\ available_terminals[u].idx <= KEYBOARD_BUFFER_SIZE
                           /\ Terminated(available_terminals[u].buf)
    BY <1>7 DEF KeyFunction, MaySwitch, Sane, Keyboard, NoOverrun, SavedTerminated
  <2>2. kept \in Keyboard /\ Terminated(kept.buf) /\ kept.idx <= KEYBOARD_BUFFER_SIZE
    BY <1>1, <2>1, StrCpyTerminates DEF Keyboard
  <2>3. /\ available_terminals' = saved /\ currentTerminal' = t
        /\ keyboard' = [buf |-> StrCpy(keyboard.buf, saved[t].buf), idx |-> saved[t].idx]
        /\ overrun' = (overrun \/ ~Terminated(keyboard.buf) \/ ~Terminated(saved[t].buf))
        /\ reader' = reader
    BY <1>7 DEF KeyFunction, Restored
  <2> HIDE DEF kept
  <2>4. saved \in [Term -> Keyboard]
    BY <2>2 DEF Sane
  <2>5. \A u \in Term : Terminated(saved[u].buf) /\ saved[u].idx <= KEYBOARD_BUFFER_SIZE
    <3> TAKE u \in Term
    <3>1. CASE u = cur
      BY <2>1, <2>2, <3>1 DEF Sane
    <3>2. CASE u # cur
      BY <2>1, <3>2 DEF Sane
    <3> QED BY <3>1, <3>2
  <2> HIDE DEF saved
  <2>6. keyboard' \in Keyboard /\ keyboard'.idx <= KEYBOARD_BUFFER_SIZE
    <3>1. saved[t].buf \in Buffer /\ saved[t].idx \in Nat
      BY <2>4 DEF Keyboard
    <3> QED BY <1>1, <2>3, <2>5, <3>1, StrCpyTerminates DEF Keyboard
  <2>7. ~overrun'
    BY <1>1, <2>1, <2>3, <2>5
  <2> QED BY <2>3, <2>4, <2>5, <2>6, <2>7 DEF Sane, NoOverrun, SavedTerminated, Offered
<1> QED BY <1>3, <1>4, <1>5, <1>6, <1>7 DEF Key

\* A step of a reader that leaves the saved copies alone.
LEMMA ReaderStays ==
    ASSUME Sane, NEW t \in Term, NEW r \in Reader, reader' = [reader EXCEPT ![t] = r],
           r.pc \in {"wait", "clear"} => r.nbytes >= KEYBOARD_BUFFER_SIZE,
           keyboard' \in Keyboard, keyboard'.idx <= KEYBOARD_BUFFER_SIZE, ~overrun',
           UNCHANGED <<available_terminals, currentTerminal>>
    PROVE  Sane'
<1>1. reader' \in [Term -> Reader] /\ Offered'
  BY DEF Sane, Offered
<1> QED BY <1>1 DEF Sane, NoOverrun, SavedTerminated

\* What the steps of a read that has its line do to the reader.
LEMMA ReadsInto ==
    ASSUME reader \in [Term -> Reader], NEW t \in Term
    PROVE  /\ \A pc, nbytes : [reader EXCEPT ![t].pc = pc, ![t].nbytes = nbytes] =
                 [reader EXCEPT ![t] = [pc |-> pc, i |-> reader[t].i, out |-> reader[t].out,
                                        nbytes |-> nbytes]]
           /\ \A pc : [reader EXCEPT ![t].pc = pc] =
                 [reader EXCEPT ![t] = [pc |-> pc, i |-> reader[t].i, out |-> reader[t].out,
                                        nbytes |-> reader[t].nbytes]]
           /\ [reader EXCEPT ![t].pc = "copy", ![t].i = 0, ![t].out = Blank] =
                 [reader EXCEPT ![t] = [pc |-> "copy", i |-> 0, out |-> Blank,
                                        nbytes |-> reader[t].nbytes]]
           /\ reader[t].i \in Index /\ reader[t].out \in Buffer /\ reader[t].nbytes \in Nat
           /\ 0 \in Index /\ Blank \in Buffer
<1>1. /\ reader[t] = [pc |-> reader[t].pc, i |-> reader[t].i, out |-> reader[t].out,
                      nbytes |-> reader[t].nbytes]
      /\ reader[t].i \in Index /\ reader[t].out \in Buffer /\ reader[t].nbytes \in Nat
  BY DEF Reader
<1>2. 0 \in Index /\ Blank \in Buffer
  BY SizeAssumption DEF Index, Blank, Buffer, Cell
<1> DEFINE q == reader[t]
<1> HIDE DEF q
<1>a. q \in Reader
  BY DEF q
<1> DEFINE R(pc, i, out, nbytes) == [pc |-> pc, i |-> i, out |-> out, nbytes |-> nbytes]
<1>5. \A pc : [q EXCEPT !.pc = pc] = R(pc, q.i, q.out, q.nbytes)
  BY <1>a DEF Reader
<1>3. ASSUME NEW pc, NEW nbytes
      PROVE  [q EXCEPT !.pc = pc, !.nbytes = nbytes] = R(pc, q.i, q.out, nbytes)
  <2>1. [q EXCEPT !.pc = pc, !.nbytes = nbytes] = [[q EXCEPT !.pc = pc] EXCEPT !.nbytes = nbytes]
    BY <1>a DEF Reader
  <2>2. [R(pc, q.i, q.out, q.nbytes) EXCEPT !.nbytes = nbytes] = R(pc, q.i, q.out, nbytes)
    OBVIOUS
  <2> QED BY <1>5, <2>1, <2>2
<1>4. [q EXCEPT !.pc = "copy", !.i = 0, !.out = Blank] = R("copy", 0, Blank, q.nbytes)
  <2>1. [q EXCEPT !.pc = "copy", !.i = 0, !.out = Blank] =
            [[[q EXCEPT !.pc = "copy"] EXCEPT !.i = 0] EXCEPT !.out = Blank]
    BY <1>a DEF Reader
  <2>2. [R("copy", q.i, q.out, q.nbytes) EXCEPT !.i = 0] = R("copy", 0, q.out, q.nbytes)
    OBVIOUS
  <2>3. [R("copy", 0, q.out, q.nbytes) EXCEPT !.out = Blank] = R("copy", 0, Blank, q.nbytes)
    OBVIOUS
  <2> QED BY <1>5, <2>1, <2>2, <2>3
<1>6. \A pc, nbytes : [reader EXCEPT ![t].pc = pc, ![t].nbytes = nbytes] =
          [reader EXCEPT ![t] = [q EXCEPT !.pc = pc, !.nbytes = nbytes]]
  BY DEF q
<1>7. [reader EXCEPT ![t].pc = "copy", ![t].i = 0, ![t].out = Blank] =
          [reader EXCEPT ![t] = [q EXCEPT !.pc = "copy", !.i = 0, !.out = Blank]]
  BY DEF q
<1>8. \A pc : [reader EXCEPT ![t].pc = pc] = [reader EXCEPT ![t] = [q EXCEPT !.pc = pc]]
  BY DEF q
<1> QED BY <1>1, <1>2, <1>3, <1>4, <1>5, <1>6, <1>7, <1>8 DEF q

\* terminalRead, with callers that offer a whole buffer.
LEMMA ReadsStay ==
    ASSUME "short_read" \notin Windows, Sane, NEW t \in Term, TerminalRead(t)
    PROVE  Sane'
<1>1. /\ keyboard \in Keyboard /\ keyboard.idx \in Nat /\ keyboard.buf \in Buffer
      /\ keyboard.idx <= KEYBOARD_BUFFER_SIZE /\ ~overrun
      /\ reader \in [Term -> Reader]
      /\ reader[t].pc \in {"wait", "clear"} => reader[t].nbytes >= KEYBOARD_BUFFER_SIZE
  BY DEF Sane, NoOverrun, Keyboard, Offered
<1>2. /\ reader[t].i \in Index /\ reader[t].out \in Buffer /\ reader[t].nbytes \in Nat
      /\ 0 \in Index /\ Blank \in Buffer
  BY <1>1, ReadsInto
<1> DEFINE R(pc, i, out, nbytes) == [pc |-> pc, i |-> i, out |-> out, nbytes |-> nbytes]
<1>3. CASE Read(t)
  <2>1. PICK nbytes \in Requests : Asks(t, nbytes)
    BY <1>3 DEF Read
  <2>2. nbytes \in Nat /\ nbytes >= KEYBOARD_BUFFER_SIZE
    BY <2>1, SizeAssumption DEF Asks
  <2> DEFINE r == R("wait", reader[t].i, reader[t].out, nbytes)
  <2>3. reader' = [reader EXCEPT ![t] = r]
    <3>1. reader' = [reader EXCEPT ![t].pc = "wait", ![t].nbytes = nbytes]
      BY <2>1 DEF Asks
    <3>2. \A pc, n : [reader EXCEPT ![t].pc = pc, ![t].nbytes = n] =
              [reader EXCEPT ![t] = [pc |-> pc, i |-> reader[t].i, out |-> reader[t].out, nbytes |-> n]]
      BY <1>1, ReadsInto
    <3> QED BY <3>1, <3>2
  <2>4. r \in Reader /\ r.nbytes >= KEYBOARD_BUFFER_SIZE
    BY <1>2, <2>2 DEF Reader
  <2> HIDE DEF r
  <2> QED BY <1>1, <1>3, <2>3, <2>4, ReaderStays DEF Read, kernel
<1>4. CASE SeeEnter(t)
  <2> DEFINE r == R("clear", reader[t].i, reader[t].out, reader[t].nbytes)
  <2>1. reader' = [reader EXCEPT ![t] = r]
    BY <1>1, <1>4, ReadsInto DEF SeeEnter, Goto
  <2>2. r \in Reader /\ r.nbytes >= KEYBOARD_BUFFER_SIZE
    BY <1>1, <1>2, <1>4 DEF Reader, SeeEnter, Runs
  <2> HIDE DEF r
  <2> QED BY <1>1, <1>4, <2>1, <2>2, ReaderStays DEF SeeEnter, kernel
<1>5. CASE ClearTerminalBuffer(t)
  <2> DEFINE r == R("copy", 0, Blank, reader[t].nbytes)
  <2>1. reader' = [reader EXCEPT ![t] = r]
    BY <1>1, <1>5, ReadsInto DEF ClearTerminalBuffer
  <2>2. r \in Reader /\ r.pc = "copy"
    BY <1>2 DEF Reader
  <2>3. keyboard' \in Keyboard /\ keyboard'.idx <= KEYBOARD_BUFFER_SIZE
    BY <1>1, <1>5, SizeAssumption DEF ClearTerminalBuffer, Keyboard
  <2>4. ~overrun'
    <3>1. reader[t].nbytes >= KEYBOARD_BUFFER_SIZE
      BY <1>1, <1>5 DEF ClearTerminalBuffer, Runs
    <3>2. ~(reader[t].nbytes < KEYBOARD_BUFFER_SIZE)
      BY <1>2, <3>1, SizeAssumption
    <3>3. overrun' = (overrun \/ reader[t].nbytes < KEYBOARD_BUFFER_SIZE)
      BY <1>5 DEF ClearTerminalBuffer
    <3> QED BY <1>1, <3>2, <3>3, Zenon
  <2> HIDE DEF r
  <2> QED BY <1>5, <2>1, <2>2, <2>3, <2>4, ReaderStays DEF ClearTerminalBuffer
<1>6. CASE CopyChar(t)
  <2> DEFINE i == reader[t].i
             c == keyboard.buf[i]
             r == R(IF Stops(c) THEN "flag" ELSE "copy", IF Stops(c) THEN i ELSE i + 1,
                    [reader[t].out EXCEPT ![i] = c], reader[t].nbytes)
  <2>1. reader' = [reader EXCEPT ![t] = r]
    BY <1>6 DEF CopyChar
  <2>2. i + 1 \in Index /\ c \in Cell
    BY <1>1, <1>2, <1>6, SizeAssumption DEF CopyChar, CopyLimit, Index, Buffer
  <2>3. [reader[t].out EXCEPT ![i] = c] \in Buffer
    BY <1>2, <2>2 DEF Buffer
  <2>4. r \in Reader /\ r.pc \in {"flag", "copy"}
    BY <1>2, <2>2, <2>3 DEF Reader
  <2> HIDE DEF r
  <2> QED BY <1>1, <1>6, <2>1, <2>4, ReaderStays DEF CopyChar, kernel
<1>7. CASE CopyEnds(t) \/ ClearFlag(t) \/ WipeBuffer(t) \/ ResetIndex(t)
  <2>1. PICK pc \in {"flag", "wipe", "reset", "done"} : reader' = [reader EXCEPT ![t].pc = pc]
    BY <1>7 DEF CopyEnds, ClearFlag, WipeBuffer, ResetIndex, Goto
  <2> DEFINE r == R(pc, reader[t].i, reader[t].out, reader[t].nbytes)
  <2>2. reader' = [reader EXCEPT ![t] = r]
    BY <1>1, <2>1, ReadsInto
  <2>3. r \in Reader /\ r.pc \notin {"wait", "clear"}
    BY <1>2, <2>1 DEF Reader
  <2>4. keyboard' \in Keyboard /\ keyboard'.idx <= KEYBOARD_BUFFER_SIZE
    <3>1. \/ keyboard' = keyboard
          \/ keyboard' = [keyboard EXCEPT !.buf = Blank]
          \/ keyboard' = [keyboard EXCEPT !.idx = 0]
      BY <1>7 DEF CopyEnds, ClearFlag, WipeBuffer, ResetIndex, kernel
    <3> QED BY <1>1, <1>2, <3>1, SizeAssumption DEF Keyboard
  <2>5. UNCHANGED <<available_terminals, currentTerminal, overrun>>
    BY <1>7 DEF CopyEnds, ClearFlag, WipeBuffer, ResetIndex, kernel
  <2> HIDE DEF r
  <2> QED BY <1>1, <2>2, <2>3, <2>4, <2>5, ReaderStays
<1>8. CASE Return(t)
  <2>1. AtRest \in Reader /\ AtRest.pc = "run"
    BY <1>2 DEF AtRest, Reader
  <2> QED BY <1>1, <1>8, <2>1, ReaderStays DEF Return, kernel
<1> QED BY <1>3, <1>4, <1>5, <1>6, <1>7, <1>8 DEF TerminalRead

(* The stores stay in their arrays, with keys pressed and terminals        *)
(* switched at any moment of a read.                                       *)
THEOREM StoresInBounds ==
    ASSUME Windows \cap {"tab", "unterminated", "short_read"} = {}
    PROVE  Spec => []Sane
<1>1. Init => Sane
  <2> SUFFICES ASSUME Init PROVE Sane
    OBVIOUS
  <2>1. /\ 0 \in Index /\ 0 \in Nat /\ 0 <= KEYBOARD_BUFFER_SIZE /\ Blank \in Buffer
        /\ \A buf \in BootContents : buf \in Buffer /\ Terminated(buf)
    BY SizeAssumption, EnvironmentAssumption DEF Index, Blank, Buffer, Cell
  <2>2. currentTerminal \in Term /\ ~overrun
    BY SizeAssumption DEF Init, Term
  <2>3. keyboard \in Keyboard /\ available_terminals \in [Term -> Keyboard]
    <3>1. [buf : BootContents, idx : {0}] \subseteq Keyboard
      BY <2>1 DEF Keyboard
    <3> QED BY <3>1 DEF Init
  <2>4. reader \in [Term -> Reader] /\ Offered
    <3>1. AtRest \in Reader /\ AtRest.pc = "run"
      BY <2>1 DEF AtRest, Reader
    <3> QED BY <3>1 DEF Init, Offered
  <2>5. NoOverrun /\ SavedTerminated
    BY <2>1, <2>2 DEF Init, NoOverrun, SavedTerminated
  <2> QED BY <2>2, <2>3, <2>4, <2>5 DEF Sane
<1>2. Sane /\ [Next]_vars => Sane'
  <2>1. UNCHANGED vars => (Sane => Sane')
    BY DEF Sane, NoOverrun, SavedTerminated, Offered, vars, kernel
  <2> QED BY <2>1, KeysStay, ReadsStay DEF Next
<1> QED BY <1>1, <1>2, PTL DEF Spec

-----------------------------------------------------------------------------
(* The keys of a calm user *)

LEMMA Types ==
    ASSUME TypeOK
    PROVE  /\ keyboard \in Keyboard /\ available_terminals \in [Term -> Keyboard]
           /\ currentTerminal \in Term
           /\ typed[currentTerminal] \in Seq(Chars)
           /\ entered[currentTerminal] \in Seq(Seq(Chars))
BY DEF TypeOK, Keyboard

\* Each key keeps the invariant.
LEMMA CharKeeps ==
    ASSUME Windows = {}, IInv, NEW c \in Chars, KeyChar(c)
    PROVE  IInv'
<1>1. ~LineInFlight /\ ~LineInFlight' /\ keyboard.idx < KEYBOARD_BUFFER_SIZE
  BY SizeAssumption DEF KeyChar, MayType, LineInFlight, Full, IInv, TypeOK
<1>2. /\ keyboard' \in Keyboard /\ keyboard'.idx <= KEYBOARD_BUFFER_SIZE
      /\ Append(typed[currentTerminal], c) \in Seq(Chars)
      /\ Holds(keyboard', Append(typed[currentTerminal], c))
  BY <1>1, Types, AddHolds DEF IInv, Editing, KeyChar
<1>3. TypeOK'
  BY <1>2 DEF KeyChar, IInv, TypeOK, Keyboard
<1>4. Editing'
  BY <1>1, <1>2, Types DEF KeyChar, IInv, TypeOK, Editing
<1>5. Background'
  BY DEF KeyChar, IInv, TypeOK, Background
<1> QED BY <1>1, <1>2, <1>3, <1>4, <1>5 DEF KeyChar, IInv, NoOverrun, SavedTerminated, Taking

LEMMA TabKeeps ==
    ASSUME Windows = {}, IInv, KeyTab
    PROVE  IInv'
<1> DEFINE spaces == [k \in 1 .. TabWidth |-> Space]
<1>1. /\ ~LineInFlight /\ ~LineInFlight'
      /\ keyboard.idx + TabWidth <= KEYBOARD_BUFFER_SIZE
  BY SizeAssumption DEF KeyTab, MayType, MayTab, LineInFlight
<1>2. /\ keyboard' \in Keyboard /\ typed[currentTerminal] \o spaces \in Seq(Chars)
      /\ Holds(keyboard', typed[currentTerminal] \o spaces)
  BY <1>1, Types, TabHolds DEF IInv, Editing, KeyTab
<1>3. keyboard'.idx <= KEYBOARD_BUFFER_SIZE /\ ~(keyboard'.idx > KEYBOARD_BUFFER_SIZE)
  BY <1>1, Types, SizeAssumption DEF KeyTab, IInv, Keyboard
<1>4. typed' = [typed EXCEPT ![currentTerminal] = @ \o spaces]
  BY DEF KeyTab
<1> HIDE DEF spaces
<1>5. overrun' = FALSE
  BY <1>3 DEF KeyTab, IInv, NoOverrun, TypeOK
<1>6. TypeOK'
  <2>1. UNCHANGED <<return_from_sys_write, available_terminals, currentTerminal, reader, entered>>
    BY DEF KeyTab
  <2>2. typed' \in [Term -> Seq(Chars)]
    BY <1>2, <1>4, Types DEF IInv, TypeOK
  <2> QED BY <1>2, <1>5, <2>1, <2>2 DEF IInv, TypeOK, Keyboard
<1>7. Editing'
  BY <1>1, <1>2, <1>4, Types DEF KeyTab, IInv, TypeOK, Editing
<1>8. Background'
  BY <1>4 DEF KeyTab, IInv, TypeOK, Background
<1> QED BY <1>1, <1>3, <1>5, <1>6, <1>7, <1>8 DEF KeyTab, IInv, NoOverrun, SavedTerminated, Taking

LEMMA BackspaceKeeps ==
    ASSUME Windows = {}, IInv, KeyBackspace
    PROVE  IInv'
<1> DEFINE line == typed[currentTerminal]
           short == SubSeq(line, 1, Len(line) - 1)
<1>1. ~LineInFlight /\ ~LineInFlight'
  BY DEF KeyBackspace, MayType, LineInFlight
<1>2. line # <<>> /\ short \in Seq(Chars) /\ keyboard' \in Keyboard /\ Holds(keyboard', short)
  BY <1>1, Types, BackspaceHolds DEF IInv, Editing, KeyBackspace
<1>3. typed' = [typed EXCEPT ![currentTerminal] = short]
  BY <1>2, Types DEF KeyBackspace, IInv, TypeOK
<1>4. keyboard'.idx <= KEYBOARD_BUFFER_SIZE
  BY Types, SizeAssumption DEF KeyBackspace, IInv, NoOverrun, Keyboard
<1> HIDE DEF short
<1>5. TypeOK'
  BY <1>2, <1>3 DEF KeyBackspace, IInv, TypeOK, Keyboard
<1>6. Editing'
  BY <1>1, <1>2, <1>3, Types DEF KeyBackspace, IInv, TypeOK, Editing
<1>7. Background'
  BY <1>3 DEF KeyBackspace, IInv, TypeOK, Background
<1> QED
  BY <1>1, <1>4, <1>5, <1>6, <1>7 DEF KeyBackspace, IInv, NoOverrun, SavedTerminated, Taking

LEMMA EnterKeeps ==
    ASSUME Windows = {}, IInv, KeyEnter
    PROVE  IInv'
<1> DEFINE line == typed[currentTerminal]
<1>1. ~LineInFlight /\ LineInFlight' /\ return_from_sys_write' = 1
      /\ At \in {"run", "wait"} /\ At' = At /\ currentTerminal' = currentTerminal
  BY DEF KeyEnter, MayType, LineInFlight, Signal, At
<1>2. /\ keyboard' \in Keyboard /\ keyboard'.idx <= KEYBOARD_BUFFER_SIZE
      /\ Buffered(keyboard'.buf, line)
  <2>1. keyboard' = IF keyboard.idx >= KEYBOARD_BUFFER_SIZE THEN keyboard ELSE Add(keyboard, NewLine)
    BY DEF KeyEnter, Full
  <2> QED BY <1>1, <2>1, Types, EnterBuffers DEF IInv, Editing, NoOverrun
<1>3. entered' = [entered EXCEPT ![currentTerminal] = <<line>>]
  BY <1>1, Types DEF KeyEnter, IInv, TypeOK, Editing
<1>4. typed' = [typed EXCEPT ![currentTerminal] = <<>>]
  BY DEF KeyEnter
<1>5. line \in Seq(Chars) /\ <<line>> \in Seq(Seq(Chars)) /\ <<>> \in Seq(Chars)
  BY Types DEF IInv
<1> HIDE DEF line
<1>6. TypeOK'
  BY <1>1, <1>2, <1>3, <1>4, <1>5 DEF KeyEnter, IInv, TypeOK, Keyboard
<1>7. Background'
  BY <1>3, <1>4 DEF KeyEnter, IInv, TypeOK, Background
<1>8. Taking'
  <2>1. entered'[currentTerminal'] = <<line>> /\ typed'[currentTerminal'] = <<>>
    BY <1>1, <1>3, <1>4, Types DEF IInv, TypeOK
  <2>2. Line' = line /\ Len(entered'[currentTerminal']) = 1
    BY <2>1 DEF Line
  <2> QED BY <1>1, <1>2, <1>5, <2>1, <2>2 DEF Taking, Signalled
<1> QED
  BY <1>1, <1>2, <1>6, <1>7, <1>8 DEF KeyEnter, IInv, NoOverrun, SavedTerminated, Editing

(* A switch saves the line of the displayed terminal and restores the      *)
(* other's, both whole, since both buffers are terminated.                 *)
LEMMA SwitchKeeps ==
    ASSUME Windows = {}, IInv, NEW t \in Term, KeyFunction(t)
    PROVE  IInv'
<1> DEFINE cur == currentTerminal
           kept == [buf |-> StrCpy(available_terminals[cur].buf, keyboard.buf),
                    idx |-> keyboard.idx]
           saved == [available_terminals EXCEPT ![cur] = kept]
<1>1. ~LineInFlight /\ Terminated(keyboard.buf) /\ entered[cur] = <<>>
      /\ Holds(keyboard, typed[cur])
  BY DEF KeyFunction, MaySwitch, IInv, Editing
<1>2. /\ cur \in Term /\ keyboard.buf \in Buffer /\ keyboard.idx \in Nat
      /\ keyboard.idx <= KEYBOARD_BUFFER_SIZE
      /\ \A u \in Term : /\ available_terminals[u].buf \in Buffer
                         /\ available_terminals[u].idx \in Nat
                         /\ available_terminals[u].idx <= KEYBOARD_BUFFER_SIZE
                         /\ Terminated(available_terminals[u].buf)
                         /\ typed[u] \in Seq(Chars)
  BY DEF IInv, TypeOK, NoOverrun, SavedTerminated
<1>3. /\ kept \in Keyboard /\ Terminated(kept.buf) /\ kept.idx <= KEYBOARD_BUFFER_SIZE
      /\ Holds(kept, typed[cur])
  <2>1. Holds([buf |-> keyboard.buf, idx |-> keyboard.idx], typed[cur])
    BY <1>1 DEF Holds
  <2> QED BY <1>1, <1>2, <2>1, StrCpyTerminates, StrCpyMoves DEF Keyboard
<1> HIDE DEF kept
<1>4. \A u \in Term : /\ saved[u] \in Keyboard /\ Terminated(saved[u].buf)
                      /\ saved[u].idx <= KEYBOARD_BUFFER_SIZE
                      /\ Holds(saved[u], typed[u])
  <2> TAKE u \in Term
  <2>1. CASE u = cur
    BY <1>2, <1>3, <2>1 DEF IInv, TypeOK
  <2>2. CASE u # cur
    BY <1>2, <2>2 DEF IInv, TypeOK, Background, Keyboard
  <2> QED BY <2>1, <2>2
<1>5. saved \in [Term -> Keyboard]
  BY <1>3 DEF IInv, TypeOK, Keyboard
<1>6. /\ available_terminals' = saved /\ currentTerminal' = t
      /\ keyboard' = Restored(keyboard, saved[t])
      /\ overrun' = (overrun \/ ~Terminated(keyboard.buf) \/ ~Terminated(saved[t].buf))
      /\ UNCHANGED <<return_from_sys_write, reader, typed, entered>>
  BY DEF KeyFunction, kept, history
<1> HIDE DEF saved
<1>7. keyboard' = [buf |-> StrCpy(keyboard.buf, saved[t].buf), idx |-> saved[t].idx]
  BY <1>6 DEF Restored
<1>8. /\ keyboard' \in Keyboard /\ keyboard'.idx <= KEYBOARD_BUFFER_SIZE
      /\ Holds(keyboard', typed[t])
  <2>1. saved[t].buf \in Buffer /\ saved[t].idx \in Nat
    BY <1>4 DEF Keyboard
  <2>2. Holds([buf |-> saved[t].buf, idx |-> saved[t].idx], typed[t])
    BY <1>4 DEF Holds
  <2> QED BY <1>2, <1>4, <1>7, <2>1, <2>2, StrCpyTerminates, StrCpyMoves DEF Keyboard
<1>9. overrun' = FALSE
  BY <1>1, <1>4, <1>6 DEF IInv, NoOverrun, TypeOK
<1>10. \A u \in Term : entered[u] = <<>> /\ reader[u].pc \in {"run", "wait"}
  BY <1>1, <1>2 DEF IInv, Background, LineInFlight
<1>11. ~LineInFlight'
  BY <1>1, <1>6, <1>10 DEF LineInFlight
<1>12. TypeOK'
  BY <1>5, <1>6, <1>8, <1>9 DEF IInv, TypeOK, Keyboard
<1>13. NoOverrun' /\ SavedTerminated'
  BY <1>4, <1>6, <1>8, <1>9 DEF NoOverrun, SavedTerminated
<1>14. Background' /\ Editing'
  BY <1>4, <1>6, <1>8, <1>10 DEF Background, Editing
<1> QED BY <1>11, <1>12, <1>13, <1>14 DEF IInv, Taking

LEMMA KeyKeeps ==
    ASSUME Windows = {}, IInv, Key
    PROVE  IInv'
BY CharKeeps, TabKeeps, BackspaceKeeps, EnterKeeps, SwitchKeeps DEF Key

-----------------------------------------------------------------------------
(* The reader.  Only the displayed terminal's takes a step.                *)

LEMMA ReaderTypes ==
    ASSUME IInv, NEW t \in Term, t = currentTerminal
    PROVE  /\ reader[t].i \in Index /\ reader[t].out \in Buffer
           /\ reader[t].nbytes \in Nat /\ reader \in [Term -> Reader]
           /\ keyboard.buf \in Buffer /\ keyboard.idx \in Nat
           /\ 0 \in Index /\ Blank \in Buffer
BY SizeAssumption DEF IInv, TypeOK, Reader, Index, Blank, Buffer, Cell

(* A step that leaves keyboard index, saved copies and lines alone.        *)
LEMMA ReaderFrame ==
    ASSUME IInv, NEW r \in Reader,
           reader' = [reader EXCEPT ![currentTerminal] = r],
           keyboard' \in Keyboard, keyboard'.idx <= KEYBOARD_BUFFER_SIZE,
           return_from_sys_write' \in {0, 1},
           UNCHANGED <<available_terminals, currentTerminal, overrun, typed, entered>>,
           LineInFlight => Taking', LineInFlight' => LineInFlight,
           ~LineInFlight => Editing', LineInFlight => LineInFlight'
    PROVE  IInv'
<1>1. TypeOK'
  BY DEF IInv, TypeOK, Keyboard, Reader
<1>2. Background' /\ SavedTerminated' /\ NoOverrun'
  BY DEF IInv, Background, SavedTerminated, NoOverrun, TypeOK
<1>3. Taking' /\ Editing'
  BY DEF Taking, Editing
<1> QED BY <1>1, <1>2, <1>3 DEF IInv

\* Each step of terminalRead keeps the invariant.
LEMMA ReadKeeps ==
    ASSUME IInv, NEW t \in Term, Read(t) \/ SeeEnter(t)
    PROVE  IInv'
<1> DEFINE to == IF At = "run" THEN "wait" ELSE "clear"
<1>1. /\ t = currentTerminal /\ At \in {"run", "wait"}
      /\ At = "wait" => return_from_sys_write = 1
      /\ UNCHANGED <<kernel, history>>
  BY DEF Read, SeeEnter, Asks, Runs, At, LineReady
<1>2. PICK r \in Reader : r.pc = to /\ reader' = [reader EXCEPT ![t] = r]
  <2> DEFINE R(nbytes) == [pc |-> to, i |-> reader[t].i, out |-> reader[t].out, nbytes |-> nbytes]
  <2>1. reader[t].i \in Index /\ reader[t].out \in Buffer /\ reader[t].nbytes \in Nat
    BY <1>1, ReaderTypes
  <2>2. \A nbytes \in Nat : R(nbytes) \in Reader /\ R(nbytes).pc = to
    BY <2>1 DEF Reader
  <2>3. \E nbytes \in Nat : reader' = [reader EXCEPT ![t] = R(nbytes)]
    <3>1. CASE Read(t)
      <4>1. PICK nbytes \in Requests : Asks(t, nbytes)
        BY <3>1 DEF Read
      <4>2. nbytes \in Nat /\ to = "wait"
        BY <1>1, <4>1, SizeAssumption DEF Asks, Runs, At
      <4>3. reader' = [reader EXCEPT ![t].pc = "wait", ![t].nbytes = nbytes]
        BY <4>1 DEF Asks
      <4>4. \A pc, n : [reader EXCEPT ![t].pc = pc, ![t].nbytes = n] =
                [reader EXCEPT ![t] = [pc |-> pc, i |-> reader[t].i, out |-> reader[t].out, nbytes |-> n]]
        <5>1. reader \in [Term -> Reader]
          BY <1>1, ReaderTypes
        <5> QED BY <5>1, ReadsInto
      <4>5. reader' = [reader EXCEPT ![t] = R(nbytes)]
        BY <4>2, <4>3, <4>4
      <4> QED BY <4>2, <4>5
    <3>2. CASE SeeEnter(t)
      <4>1. to = "clear"
        BY <1>1, <3>2 DEF SeeEnter, Runs, At
      <4>2. reader' = [reader EXCEPT ![t].pc = "clear"]
        BY <3>2 DEF SeeEnter, Goto
      <4>3. reader' = [reader EXCEPT ![t] = R(reader[t].nbytes)]
        BY <1>1, <4>1, <4>2, ReaderTypes, ReadsInto
      <4> QED BY <2>1, <4>3
    <3> QED BY <3>1, <3>2
  <2> HIDE DEF R
  <2> QED BY <2>2, <2>3
<1>3. UNCHANGED <<keyboard, return_from_sys_write, available_terminals, currentTerminal, overrun,
                  typed, entered>>
  BY <1>1 DEF kernel, history
<1>4. At' = to
  BY <1>1, <1>2, <1>3 DEF At, IInv, TypeOK
<1>5. LineInFlight <=> LineInFlight'
  BY <1>1, <1>3, <1>4 DEF LineInFlight, At
<1>6. LineInFlight => Taking'
  <2> SUFFICES ASSUME LineInFlight PROVE Taking'
    OBVIOUS
  <2>1. return_from_sys_write = 1
    BY <1>1 DEF LineInFlight, At
  <2>2. Line' = Line
    BY <1>3 DEF Line
  <2>3. At' \in {"wait", "clear"}
    BY <1>4
  <2> QED BY <1>3, <2>1, <2>2, <2>3 DEF IInv, Taking, Signalled
<1>7. ~LineInFlight => Editing'
  BY <1>3, <1>5 DEF IInv, Editing
<1>8. keyboard' \in Keyboard /\ keyboard'.idx <= KEYBOARD_BUFFER_SIZE
  BY <1>3 DEF IInv, TypeOK, NoOverrun, Keyboard
<1> QED BY <1>1, <1>2, <1>3, <1>5, <1>6, <1>7, <1>8, ReaderFrame DEF IInv, TypeOK

LEMMA ClearKeeps ==
    ASSUME IInv, Offered, NEW t \in Term, ClearTerminalBuffer(t)
    PROVE  IInv'
<1> DEFINE r == [pc |-> "copy", i |-> 0, out |-> Blank, nbytes |-> reader[t].nbytes]
<1>a. t = currentTerminal /\ At = "clear" /\ reader[t].nbytes >= KEYBOARD_BUFFER_SIZE
  BY DEF ClearTerminalBuffer, Runs, At, Offered
<1>1. /\ t = currentTerminal /\ At = "clear" /\ reader' = [reader EXCEPT ![t] = r]
      /\ keyboard' = [keyboard EXCEPT !.idx = 0]
      /\ UNCHANGED <<return_from_sys_write, available_terminals, currentTerminal, overrun,
                     typed, entered>>
  <2>1. reader' = [reader EXCEPT ![t] = r]
    BY <1>a, ReaderTypes, ReadsInto DEF ClearTerminalBuffer
  <2>2. overrun' = overrun
    <3>1. ~(reader[t].nbytes < KEYBOARD_BUFFER_SIZE)
      BY <1>a, ReaderTypes, SizeAssumption
    <3>2. overrun' = (overrun \/ reader[t].nbytes < KEYBOARD_BUFFER_SIZE)
      BY DEF ClearTerminalBuffer
    <3> QED BY <3>1, <3>2, Zenon DEF IInv, TypeOK
  <2> QED BY <1>a, <2>1, <2>2 DEF ClearTerminalBuffer, history
<1>2. r \in Reader /\ r.pc = "copy" /\ r.i = 0
  BY <1>1, ReaderTypes DEF Reader
<1> HIDE DEF r
<1>3. At' = "copy" /\ reader'[currentTerminal'] = r
  BY <1>1, <1>2 DEF At, IInv, TypeOK
<1>4. LineInFlight /\ LineInFlight'
  BY <1>1, <1>3 DEF LineInFlight, At
<1>5. /\ keyboard' \in Keyboard /\ keyboard'.idx <= KEYBOARD_BUFFER_SIZE
      /\ keyboard'.buf = keyboard.buf
  <2>1. keyboard \in Keyboard
    BY Types DEF IInv
  <2> QED BY <1>1, <2>1, SizeAssumption DEF Keyboard
<1>6. Taking'
  <2>1. Line' = Line /\ Line \in Seq(Chars) /\ return_from_sys_write = 1
    BY <1>1, <1>4 DEF Line, IInv, Taking, Signalled
  <2>2. Copied(r, Line)
    BY <1>2, <2>1, LenProperties DEF Copied
  <2> QED BY <1>1, <1>3, <1>4, <1>5, <2>1, <2>2 DEF IInv, Taking, Signalled
<1> QED BY <1>1, <1>2, <1>4, <1>5, <1>6, ReaderFrame DEF IInv, TypeOK

(* One character more; a newline in the buffer is the end of the line.     *)
LEMMA CopyKeeps ==
    ASSUME IInv, NEW t \in Term, CopyChar(t)
    PROVE  IInv'
<1> DEFINE i == reader[t].i
           c == keyboard.buf[i]
           r == [pc |-> IF c = NewLine THEN "flag" ELSE "copy",
                 i |-> IF c = NewLine THEN i ELSE i + 1,
                 out |-> [reader[t].out EXCEPT ![i] = c],
                 nbytes |-> reader[t].nbytes]
<1>1. /\ t = currentTerminal /\ At = "copy" /\ i < KEYBOARD_BUFFER_SIZE - 1
      /\ UNCHANGED <<keyboard, return_from_sys_write, available_terminals, currentTerminal,
                     overrun, typed, entered>>
  BY DEF CopyChar, CopyLimit, Runs, At, kernel, history
<1>2. i \in Index /\ i + 1 \in Index /\ c \in Cell
  <2>1. i \in Index /\ keyboard.buf \in Buffer
    BY <1>1, ReaderTypes
  <2>2. c \in Cell
    BY <2>1 DEF Buffer
  <2>3. i + 1 \in Index
    BY <1>1, <2>1, SizeAssumption DEF Index
  <2> QED BY <2>1, <2>2, <2>3
<1>3. reader' = [reader EXCEPT ![t] = r]
  BY DEF CopyChar, Stops
<1>4. r.out \in Buffer /\ r.out[i] = c /\ \A j \in Index \ {i} : r.out[j] = reader[t].out[j]
  BY <1>1, <1>2, ReaderTypes DEF Buffer
<1>5. r \in Reader
  BY <1>1, <1>2, <1>4, ReaderTypes DEF Reader
<1>6. LineInFlight
  BY <1>1 DEF LineInFlight, At
<1>7. /\ Line \in Seq(Chars) /\ Len(Line) \in Nat /\ return_from_sys_write = 1
      /\ Buffered(keyboard.buf, Line) /\ i <= Len(Line)
      /\ \A k \in 1 .. i : reader[t].out[k - 1] = Line[k]
  BY <1>1, <1>6, LenProperties DEF IInv, Taking, Signalled, Copied
<1>8. \A k \in 1 .. i : r.out[k - 1] = Line[k]
  <2> TAKE k \in 1 .. i
  <2>1. k - 1 \in Index \ {i}
    BY <1>2, SizeAssumption DEF Index
  <2> QED BY <1>4, <1>7, <2>1
<1>9. c = NewLine => Returned(r, Line)
  <2> SUFFICES ASSUME c = NewLine PROVE Returned(r, Line)
    OBVIOUS
  <2>1. i = Len(Line)
    <3> SUFFICES ASSUME i # Len(Line) PROVE FALSE
      OBVIOUS
    <3>1. i + 1 \in 1 .. Len(Line) /\ (i + 1) - 1 = i
      BY <1>2, <1>7 DEF Index
    <3>2. c = Line[i + 1]
      BY <1>7, <3>1 DEF Buffered
    <3>3. Line[i + 1] \in Chars
      BY <1>7, <3>1, ElementOfSeq
    <3> QED BY <3>2, <3>3, CharAssumption DEF Chars, NewLine, Space
  <2>2. r.i = i
    OBVIOUS
  <2> HIDE DEF r
  <2> QED BY <1>1, <1>4, <1>8, <2>1, <2>2 DEF Returned
<1>10. c # NewLine => Copied(r, Line)
  <2> SUFFICES ASSUME c # NewLine PROVE Copied(r, Line)
    OBVIOUS
  <2>1. i < Len(Line)
    <3>1. i = Len(Line) => Len(Line) < KEYBOARD_BUFFER_SIZE
      BY <1>1, <1>7, SizeAssumption
    <3>2. i # Len(Line)
      BY <1>7, <3>1 DEF Buffered
    <3> QED BY <1>2, <1>7, <3>2, SizeAssumption DEF Index
  <2>2. r.i = i + 1 /\ (i + 1) - 1 = i
    BY <1>2 DEF Index
  <2>3. c = Line[i + 1]
    <3>1. i + 1 \in 1 .. Len(Line)
      BY <1>2, <1>7, <2>1 DEF Index
    <3> QED BY <1>7, <2>2, <3>1 DEF Buffered
  <2> HIDE DEF r
  <2>4. \A k \in 1 .. i + 1 : r.out[k - 1] = Line[k]
    <3> TAKE k \in 1 .. i + 1
    <3>1. CASE k = i + 1
      BY <1>4, <2>2, <2>3, <3>1
    <3>2. CASE k # i + 1
      BY <1>2, <1>8, <3>2 DEF Index
    <3> QED BY <3>1, <3>2
  <2> QED BY <1>2, <2>1, <2>2, <2>4 DEF Copied, Index
<1>11. r.pc = IF c = NewLine THEN "flag" ELSE "copy"
  OBVIOUS
<1> HIDE DEF r
<1>12. At' = r.pc /\ reader'[currentTerminal'] = r
  BY <1>1, <1>3 DEF At, IInv, TypeOK
<1>13. LineInFlight'
  BY <1>11, <1>12 DEF LineInFlight, At
<1>14. Taking'
  <2>1. Line' = Line
    BY <1>1 DEF Line
  <2>2. CASE c = NewLine
    BY <1>1, <1>6, <1>7, <1>9, <1>11, <1>12, <2>1, <2>2 DEF IInv, Taking, Signalled
  <2>3. CASE c # NewLine
    BY <1>1, <1>6, <1>7, <1>10, <1>11, <1>12, <2>1, <2>3 DEF IInv, Taking, Signalled
  <2> QED BY <2>2, <2>3
<1>15. keyboard' \in Keyboard /\ keyboard'.idx <= KEYBOARD_BUFFER_SIZE
  BY <1>1 DEF IInv, TypeOK, NoOverrun, Keyboard
<1> QED BY <1>1, <1>3, <1>5, <1>6, <1>13, <1>14, <1>15, ReaderFrame DEF IInv, TypeOK

(* The loop runs out only with a line that long.                           *)
LEMMA CopyEndsKeeps ==
    ASSUME IInv, NEW t \in Term, CopyEnds(t)
    PROVE  IInv'
<1> DEFINE r == [reader[t] EXCEPT !.pc = "flag"]
<1>1. /\ t = currentTerminal /\ At = "copy" /\ reader[t].i = KEYBOARD_BUFFER_SIZE - 1
      /\ reader' = [reader EXCEPT ![t] = r]
      /\ UNCHANGED <<keyboard, return_from_sys_write, available_terminals, currentTerminal,
                     overrun, typed, entered>>
  BY DEF CopyEnds, CopyLimit, Runs, Goto, At, kernel, history
<1>2. r \in Reader /\ r.pc = "flag" /\ r.i = reader[t].i /\ r.out = reader[t].out
  BY <1>1, ReaderTypes DEF Reader
<1> HIDE DEF r
<1>3. At' = "flag" /\ reader'[currentTerminal'] = r
  BY <1>1, <1>2 DEF At, IInv, TypeOK
<1>4. LineInFlight /\ LineInFlight'
  BY <1>1, <1>3 DEF LineInFlight, At
<1>5. Taking'
  <2>1. /\ Line' = Line /\ Line \in Seq(Chars) /\ return_from_sys_write = 1
        /\ Copied(reader[t], Line)
    BY <1>1, <1>4 DEF Line, IInv, Taking, Signalled
  <2>2. Returned(r, Line)
    BY <1>1, <1>2, <2>1, LenProperties, SizeAssumption DEF Copied, Returned
  <2> QED BY <1>1, <1>3, <1>4, <2>1, <2>2 DEF IInv, Taking, Signalled
<1>6. keyboard' \in Keyboard /\ keyboard'.idx <= KEYBOARD_BUFFER_SIZE
  BY <1>1 DEF IInv, TypeOK, NoOverrun, Keyboard
<1> QED BY <1>1, <1>2, <1>4, <1>5, <1>6, ReaderFrame DEF IInv, TypeOK

(* The flag, the cells and the index are reset once the reader has its line. *)
LEMMA ResetsKeep ==
    ASSUME IInv, NEW t \in Term, ClearFlag(t) \/ WipeBuffer(t) \/ ResetIndex(t)
    PROVE  IInv'
<1> DEFINE to == CASE At = "flag" -> "wipe" [] At = "wipe" -> "reset" [] At = "reset" -> "done"
           r == [reader[t] EXCEPT !.pc = to]
<1>1. /\ t = currentTerminal /\ At \in {"flag", "wipe", "reset"}
      /\ reader' = [reader EXCEPT ![t] = r]
      /\ UNCHANGED <<available_terminals, currentTerminal, overrun, typed, entered>>
  BY DEF ClearFlag, WipeBuffer, ResetIndex, Runs, Goto, At, history
<1>2. to \in {"wipe", "reset", "done"} /\ (to = "done" => At = "reset")
  BY <1>1
<1> HIDE DEF to
<1>3. r \in Reader /\ r.pc = to /\ r.i = reader[t].i /\ r.out = reader[t].out
  BY <1>1, <1>2, ReaderTypes DEF Reader
<1> HIDE DEF r
<1>4. At' = to /\ reader'[currentTerminal'] = r
  BY <1>1, <1>3 DEF At, IInv, TypeOK
<1>5. LineInFlight /\ LineInFlight'
  BY <1>1, <1>2, <1>4 DEF LineInFlight, At
<1>6. return_from_sys_write' = 0
  <2>1. CASE At = "flag"
    BY <2>1 DEF ClearFlag, WipeBuffer, ResetIndex, Runs, At
  <2>2. CASE At # "flag"
    <3>1. return_from_sys_write = 0
      BY <1>1, <1>5, <2>2 DEF IInv, Taking, Signalled
    <3> QED BY <1>1, <2>2, <3>1 DEF ClearFlag, WipeBuffer, ResetIndex, Runs, At
  <2> QED BY <2>1, <2>2
<1>7. /\ keyboard' \in Keyboard /\ keyboard'.idx <= KEYBOARD_BUFFER_SIZE
      /\ At = "reset" => keyboard'.idx = 0
  <2>1. keyboard \in Keyboard /\ keyboard.idx <= KEYBOARD_BUFFER_SIZE /\ Blank \in Buffer
    BY <1>1, Types, ReaderTypes DEF IInv, NoOverrun
  <2>2. CASE ClearFlag(t)
    BY <1>1, <2>1, <2>2 DEF ClearFlag, Runs, At
  <2>3. CASE WipeBuffer(t)
    BY <1>1, <2>1, <2>3 DEF WipeBuffer, Runs, At, Keyboard
  <2>4. CASE ResetIndex(t)
    BY <2>1, <2>4, SizeAssumption DEF ResetIndex, Keyboard
  <2> QED BY <2>2, <2>3, <2>4
<1>8. Taking'
  <2>1. /\ Line' = Line /\ Line \in Seq(Chars) /\ Returned(reader[t], Line)
        /\ typed[currentTerminal] = <<>> /\ Len(entered[currentTerminal]) = 1
    BY <1>1, <1>5 DEF Line, IInv, Taking
  <2>2. Returned(r, Line)
    BY <1>3, <2>1 DEF Returned
  <2> QED BY <1>1, <1>2, <1>4, <1>6, <1>7, <2>1, <2>2 DEF Taking, Signalled
<1> QED BY <1>1, <1>3, <1>5, <1>6, <1>7, <1>8, ReaderFrame DEF IInv, TypeOK

LEMMA ReturnKeeps ==
    ASSUME IInv, NEW t \in Term, Return(t)
    PROVE  IInv'
<1> DEFINE r == AtRest
<1>1. /\ t = currentTerminal /\ At = "done" /\ reader' = [reader EXCEPT ![t] = r]
      /\ UNCHANGED <<kernel, typed>>
  BY DEF Return, Runs, At
<1>2. /\ UNCHANGED <<keyboard, return_from_sys_write, available_terminals, currentTerminal,
                     overrun, typed>>
  BY <1>1 DEF kernel
<1>3. LineInFlight
  BY <1>1 DEF LineInFlight, At
<1>4. /\ typed[t] = <<>> /\ Len(entered[t]) = 1 /\ return_from_sys_write = 0
      /\ keyboard.idx = 0
  BY <1>1, <1>3 DEF IInv, Taking, Signalled
<1>5. entered[t] \in Seq(Seq(Chars)) /\ entered[t] # <<>> /\ Tail(entered[t]) = <<>>
  <2>1. entered[t] \in Seq(Seq(Chars)) /\ entered[t] # <<>>
    <3>1. entered[t] = <<>> => Len(entered[t]) = 0
      BY EmptySeq
    <3> QED BY <1>4, <3>1 DEF IInv, TypeOK
  <2>2. Tail(entered[t]) \in Seq(Seq(Chars)) /\ Len(Tail(entered[t])) = 0
    BY <1>4, <2>1, HeadTailProperties
  <2> QED BY <2>1, <2>2, EmptySeq
<1>6. entered' = [entered EXCEPT ![t] = <<>>]
  BY <1>5 DEF Return, IInv, TypeOK
<1>7. r \in Reader /\ r.pc = "run"
  BY <1>1, ReaderTypes DEF AtRest, Reader
<1> HIDE DEF r
<1>8. At' = "run"
  BY <1>1, <1>2, <1>7 DEF At, IInv, TypeOK
<1>9. ~LineInFlight'
  BY <1>2, <1>4, <1>8 DEF LineInFlight, At
<1>10. TypeOK'
  <2>1. entered' \in [Term -> Seq(Seq(Chars))]
    BY <1>6 DEF IInv, TypeOK
  <2>2. reader' \in [Term -> Reader]
    BY <1>1, <1>7, ReaderTypes
  <2> QED BY <1>2, <2>1, <2>2 DEF IInv, TypeOK, Reader
<1>11. Background' /\ SavedTerminated' /\ NoOverrun'
  BY <1>1, <1>2, <1>6 DEF IInv, Background, SavedTerminated, NoOverrun, TypeOK
<1>12. Editing'
  BY <1>1, <1>2, <1>4, <1>6 DEF IInv, TypeOK, Editing, Holds
<1> QED BY <1>9, <1>10, <1>11, <1>12 DEF IInv, Taking

-----------------------------------------------------------------------------
LEMMA InitInv == Init => IInv
<1> SUFFICES ASSUME Init PROVE IInv
  OBVIOUS
<1>1. /\ 0 \in Nat /\ 0 \in Index /\ currentTerminal \in Term /\ Blank \in Buffer
      /\ \A buf \in BootContents : buf \in Buffer /\ Terminated(buf)
  BY SizeAssumption, EnvironmentAssumption DEF Init, Index, Term, Blank, Buffer, Cell
<1>2. TypeOK
  <2>1. AtRest \in Reader
    BY <1>1 DEF AtRest, Reader
  <2>2. <<>> \in Seq(Chars) /\ <<>> \in Seq(Seq(Chars))
    OBVIOUS
  <2>3. /\ keyboard \in [buf : Buffer, idx : Nat]
        /\ available_terminals \in [Term -> [buf : Buffer, idx : Nat]]
    <3>1. [buf : BootContents, idx : {0}] \subseteq [buf : Buffer, idx : Nat]
      BY <1>1
    <3> QED BY <3>1 DEF Init
  <2> QED BY <1>1, <2>1, <2>2, <2>3 DEF Init, TypeOK, Reader
<1>3. NoOverrun /\ SavedTerminated
  BY <1>1, SizeAssumption DEF Init, NoOverrun, SavedTerminated
<1>4. ~LineInFlight
  BY <1>1 DEF Init, LineInFlight, AtRest
<1>5. Background /\ Editing
  BY <1>1 DEF Init, Background, Editing, Holds, AtRest
<1> QED BY <1>2, <1>3, <1>4, <1>5 DEF IInv, Taking

(* A calm user's lines: at every moment each terminal's line is whole in   *)
(* one place, the buffer, its saved copy or its reader's, with the flag    *)
(* set or the reader past it.                                              *)
THEOREM Inductive ==
    ASSUME Windows = {}
    PROVE  Spec => []IInv
<1>1. IInv /\ Offered /\ [Next]_vars => IInv'
  <2> SUFFICES ASSUME IInv, Offered, [Next]_vars PROVE IInv'
    OBVIOUS
  <2>1. CASE Key
    BY <2>1, KeyKeeps
  <2>2. ASSUME NEW t \in Term, TerminalRead(t) PROVE IInv'
    BY <2>2, ReadKeeps, ClearKeeps, CopyKeeps, CopyEndsKeeps, ResetsKeep, ReturnKeeps
       DEF TerminalRead
  <2>3. CASE UNCHANGED vars
    <3>1. UNCHANGED <<keyboard, return_from_sys_write, available_terminals, currentTerminal,
                      overrun, reader, typed, entered>>
      BY <2>3 DEF vars, kernel, history
    <3> QED BY <3>1 DEF IInv, TypeOK, NoOverrun, SavedTerminated, Background, Editing, Taking,
                        LineInFlight, Signalled, At, Line
  <2> QED BY <2>1, <2>2, <2>3 DEF Next
<1>2. Spec => []Sane
  BY StoresInBounds
<1>3. Sane => Offered
  BY DEF Sane
<1> QED BY <1>1, <1>2, <1>3, InitInv, PTL DEF Spec

(* No key or switch writes or counts past the end of a buffer of any size  *)
(* (keyboard.c:40, :96), whatever is typed ahead of a read or switched     *)
(* under it, unless it is a Tab near the end or a switch from a buffer     *)
(* without a terminator; and a read stores as many bytes as its caller     *)
(* offered when that is a whole KEYBOARD_BUFFER_SIZE (terminal.c:187).     *)
THEOREM BuffersNotOverrun ==
    ASSUME Windows \cap {"tab", "unterminated", "short_read"} = {}
    PROVE  Spec => []NoOverrun
<1>1. Sane => NoOverrun
  BY DEF Sane
<1> QED BY <1>1, StoresInBounds, PTL

(* Half-typed lines survive switches and other terminals' reads.           *)
THEOREM LinesKept ==
    ASSUME Windows = {}
    PROVE  Spec => []EditedLineKept
<1>1. IInv => EditedLineKept
  BY DEF IInv, Editing, Background, EditedLineKept
<1> QED BY <1>1, Inductive, PTL

(* A read returns the line entered on its own terminal.                    *)
THEOREM ReadsReturnTyped ==
    ASSUME Windows = {}
    PROVE  Spec => []ReadReturnsTypedLine
<1>1. IInv => ReadReturnsTypedLine
  <2> SUFFICES ASSUME IInv, NEW t \in Term, reader[t].pc = "done"
               PROVE  /\ entered[t] # <<>>
                      /\ Returned(reader[t], entered[t][1])
    BY DEF ReadReturnsTypedLine, Returned
  <2>1. t = currentTerminal
    BY DEF IInv, Background
  <2>2. LineInFlight /\ At = "done"
    BY <2>1 DEF LineInFlight, At
  <2>3. Len(entered[t]) = 1 /\ Returned(reader[t], entered[t][1])
    BY <2>1, <2>2 DEF IInv, Taking, Line
  <2>4. entered[t] # <<>>
    BY <2>3, EmptySeq
  <2> QED BY <2>3, <2>4
<1> QED BY <1>1, Inductive, PTL

(* The flag a read resets is never the flag of a later line.               *)
THEOREM EntersRemembered ==
    ASSUME Windows = {}
    PROVE  Spec => []EnterRemembered
<1>1. IInv => EnterRemembered
  BY DEF IInv, Background, Editing, LineInFlight, EnterRemembered, TypeOK
<1> QED BY <1>1, Inductive, PTL
=============================================================================
