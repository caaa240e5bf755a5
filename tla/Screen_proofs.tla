---------------------------- MODULE Screen_proofs ----------------------------
(***************************************************************************)
(* Proofs about the screen: every terminal shows what was written on it,   *)
(* the hardware cursor follows, and nothing is stored past the screen.     *)
(*                                                                         *)
(* Doing(...) is the invariant of one terminal: for each statement of putc *)
(* it says what the visible cells and the coordinates must be for the rest *)
(* of putc to end on the terminal's paper.  The program's statements keep  *)
(* it on the displayed terminal, a switch moves it from page to page.      *)
(***************************************************************************)
EXTENDS Screen, FiniteSetTheorems, WellFoundedInduction, TLAPS

-----------------------------------------------------------------------------
(* Rows and columns *)

LEMMA Sizes ==
    /\ NUM_COLS \in Nat /\ NUM_COLS > 1 /\ NUM_ROWS \in Nat /\ NUM_ROWS > 1
    /\ Cells \in Nat /\ NUM_COLS < Cells
    /\ (NUM_ROWS - 1) * NUM_COLS = Cells - NUM_COLS
<1>1. NUM_COLS \in Nat /\ NUM_COLS > 1 /\ NUM_ROWS \in Nat /\ NUM_ROWS > 1
  BY SizeAssumption
<1>2. Cells \in Nat /\ (NUM_ROWS - 1) * NUM_COLS = Cells - NUM_COLS
  BY <1>1 DEF Cells
<1>3. (NUM_ROWS - 2) * NUM_COLS >= 0 /\ Cells = (NUM_ROWS - 2) * NUM_COLS + 2 * NUM_COLS
  BY <1>1 DEF Cells
<1>4. NUM_COLS < Cells
  <2>1. (NUM_ROWS - 2) * NUM_COLS \in Nat
    BY <1>1, <1>3
  <2> DEFINE k == (NUM_ROWS - 2) * NUM_COLS
  <2>2. k \in Nat /\ Cells = k + 2 * NUM_COLS
    BY <2>1, <1>3
  <2> HIDE DEF k
  <2>3. QED BY <1>1, <1>2, <2>2
<1>5. QED BY <1>1, <1>2, <1>4

\* Where row y starts.
LEMMA RowStart ==
    ASSUME NEW y \in 0 .. NUM_ROWS
    PROVE  /\ NUM_COLS * y \in Nat
           /\ NUM_COLS * (y + 1) = NUM_COLS * y + NUM_COLS
           /\ NUM_COLS * (y - 1) = NUM_COLS * y - NUM_COLS
           /\ y < NUM_ROWS => NUM_COLS * y + NUM_COLS <= Cells
           /\ y + 1 < NUM_ROWS => NUM_COLS * y + NUM_COLS <= Cells - NUM_COLS
           /\ y = NUM_ROWS => NUM_COLS * y = Cells
           /\ y > 0 => NUM_COLS * y >= NUM_COLS
           /\ y = 0 => NUM_COLS * y = 0
<1>1. NUM_COLS \in Nat /\ NUM_COLS > 1 /\ NUM_ROWS \in Nat /\ NUM_ROWS > 1
  BY Sizes
<1>2. /\ NUM_COLS * y \in Nat
      /\ NUM_COLS * (y + 1) = NUM_COLS * y + NUM_COLS
      /\ NUM_COLS * (y - 1) = NUM_COLS * y - NUM_COLS
  BY <1>1
<1>3. Cells = NUM_COLS * y + NUM_COLS * (NUM_ROWS - y)
  BY <1>1 DEF Cells
<1>4. y < NUM_ROWS => NUM_COLS * (NUM_ROWS - y) >= NUM_COLS
  <2>1. SUFFICES ASSUME y < NUM_ROWS PROVE NUM_COLS * (NUM_ROWS - y) >= NUM_COLS
    OBVIOUS
  <2>2. NUM_COLS * (NUM_ROWS - y) = NUM_COLS * (NUM_ROWS - y - 1) + NUM_COLS
    BY <1>1
  <2>3. NUM_COLS * (NUM_ROWS - y - 1) \in Nat
    <3>1. NUM_ROWS - y - 1 \in Nat
      BY <1>1, <2>1
    <3>2. \A i, j \in Nat : i * j \in Nat
      OBVIOUS
    <3>3. QED BY <1>1, <3>1, <3>2
  <2> DEFINE k == NUM_COLS * (NUM_ROWS - y - 1)
             m == NUM_COLS * (NUM_ROWS - y)
  <2>4. k \in Nat /\ m = k + NUM_COLS
    BY <2>2, <2>3
  <2> HIDE DEF k, m
  <2>5. m >= NUM_COLS
    BY <1>1, <2>4
  <2>6. QED BY <2>5 DEF m
<1>5. y + 1 < NUM_ROWS => NUM_COLS * (NUM_ROWS - y) >= 2 * NUM_COLS
  <2>1. SUFFICES ASSUME y + 1 < NUM_ROWS PROVE NUM_COLS * (NUM_ROWS - y) >= 2 * NUM_COLS
    OBVIOUS
  <2>2. NUM_COLS * (NUM_ROWS - y) = NUM_COLS * (NUM_ROWS - y - 2) + 2 * NUM_COLS
    BY <1>1
  <2>3. NUM_COLS * (NUM_ROWS - y - 2) \in Nat
    <3>1. NUM_ROWS - y - 2 \in Nat
      BY <1>1, <2>1
    <3>2. \A i, j \in Nat : i * j \in Nat
      OBVIOUS
    <3>3. QED BY <1>1, <3>1, <3>2
  <2> DEFINE k == NUM_COLS * (NUM_ROWS - y - 2)
             m == NUM_COLS * (NUM_ROWS - y)
  <2>4. k \in Nat /\ m = k + 2 * NUM_COLS
    BY <2>2, <2>3
  <2> HIDE DEF k, m
  <2>5. m >= 2 * NUM_COLS
    BY <1>1, <2>4
  <2>6. QED BY <2>5 DEF m
<1>6. y > 0 => NUM_COLS * y >= NUM_COLS
  BY <1>1
<1>7. (y = 0 => NUM_COLS * y = 0) /\ (y = NUM_ROWS => NUM_COLS * y = Cells)
  BY <1>1 DEF Cells
<1>8. y < NUM_ROWS => NUM_COLS * y + NUM_COLS <= Cells
  <2> DEFINE k == NUM_COLS * y
             m == NUM_COLS * (NUM_ROWS - y)
  <2>1. k \in Nat /\ m \in Int /\ Cells = k + m /\ (y < NUM_ROWS => m >= NUM_COLS)
    BY <1>1, <1>2, <1>3, <1>4
  <2> HIDE DEF k, m
  <2>2. y < NUM_ROWS => k + NUM_COLS <= Cells
    BY <1>1, <2>1
  <2>3. QED BY <2>2 DEF k
<1>9. y + 1 < NUM_ROWS => NUM_COLS * y + NUM_COLS <= Cells - NUM_COLS
  <2> DEFINE k == NUM_COLS * y
             m == NUM_COLS * (NUM_ROWS - y)
  <2>1. k \in Nat /\ m \in Int /\ Cells = k + m /\ (y + 1 < NUM_ROWS => m >= 2 * NUM_COLS)
    BY <1>1, <1>2, <1>3, <1>5
  <2> HIDE DEF k, m
  <2>2. y + 1 < NUM_ROWS => k + NUM_COLS <= Cells - NUM_COLS
    BY <1>1, <2>1
  <2>3. QED BY <2>2 DEF k
<1>10. QED BY <1>2, <1>6, <1>7, <1>8, <1>9

\* C's division, one step past the columns on either side.
LEMMA Columns ==
    ASSUME NEW a \in -NUM_COLS .. NUM_COLS
    PROVE  /\ a = NUM_COLS => Div(a, NUM_COLS) = 1 /\ Mod(a, NUM_COLS) = 0
           /\ a = -NUM_COLS => Div(a, NUM_COLS) = -1 /\ Mod(a, NUM_COLS) = 0
           /\ a # NUM_COLS /\ a # -NUM_COLS => Div(a, NUM_COLS) = 0 /\ Mod(a, NUM_COLS) = a
<1>1. NUM_COLS \in Nat /\ NUM_COLS > 1
  BY Sizes
<1>2. NUM_COLS \div NUM_COLS = 1 /\ \A b \in 0 .. NUM_COLS - 1 : b \div NUM_COLS = 0
  BY <1>1
<1>3. a = NUM_COLS => Div(a, NUM_COLS) = 1
  BY <1>1, <1>2 DEF Div
<1>4. a = -NUM_COLS => Div(a, NUM_COLS) = -1
  <2>1. SUFFICES ASSUME a = -NUM_COLS PROVE Div(a, NUM_COLS) = -1
    OBVIOUS
  <2>2. a < 0 /\ -a = NUM_COLS
    BY <1>1, <2>1
  <2>3. Div(a, NUM_COLS) = -((-a) \div NUM_COLS)
    BY <2>2 DEF Div
  <2>4. QED BY <1>2, <2>2, <2>3
<1>5. a # NUM_COLS /\ a # -NUM_COLS => Div(a, NUM_COLS) = 0
  <2>1. SUFFICES ASSUME a # NUM_COLS, a # -NUM_COLS PROVE Div(a, NUM_COLS) = 0
    OBVIOUS
  <2>2. CASE a < 0
    <3>1. -a \in 0 .. NUM_COLS - 1
      BY <1>1, <2>1, <2>2
    <3>2. Div(a, NUM_COLS) = -((-a) \div NUM_COLS)
      BY <2>2 DEF Div
    <3>3. QED BY <1>2, <3>1, <3>2
  <2>3. CASE ~(a < 0)
    <3>1. a \in 0 .. NUM_COLS - 1
      BY <1>1, <2>1, <2>3
    <3>2. QED BY <1>2, <2>3, <3>1 DEF Div
  <2>4. QED BY <2>2, <2>3
<1>6. QED BY <1>1, <1>3, <1>4, <1>5 DEF Mod

-----------------------------------------------------------------------------
(* One terminal: its cells f, coordinates x and y, writer w and paper p *)

Ink == Letter \union {Blank}
Paper == [cells : [0 .. Cells - 1 -> Ink], at : 0 .. Cells - 1]
Column == -(NUM_COLS - 1) .. NUM_COLS - 1

\* The paper is what f shows from x and y on.
Rest(f, x, y, p) ==
    /\ f = p.cells
    /\ x \in Column /\ y \in 0 .. NUM_ROWS - 1
    /\ NUM_COLS * y + x = p.at

\* scrollDown is at cell i: the cells before it are as on the paper, the others a row lower.
Scrolling(f, i, p) ==
    /\ p.at = Cells - NUM_COLS
    /\ \A j \in 0 .. Cells - 1 :
          p.cells[j] = IF j < i THEN f[j]
                       ELSE IF j >= (NUM_ROWS - 1) * NUM_COLS THEN Blank
                       ELSE f[j + NUM_COLS]

\* Before the test for the end of the screen.
Tested(f, x, y, p) ==
    /\ x \in Column /\ y \in 0 .. NUM_ROWS
    /\ y < NUM_ROWS => Rest(f, x, y, p)
    /\ y = NUM_ROWS => Scrolling(f, 0, p)

\* Before the blank a backspace leaves.
Erased(f, x, y, p) ==
    /\ NUM_COLS * y + x \in 0 .. Cells - 1
    /\ Tested([f EXCEPT ![NUM_COLS * y + x] = Blank], x, y, p)

\* Before a letter is stored.
Lettered(f, x, y, c, p) ==
    /\ NUM_COLS * y + x \in 0 .. Cells - 1 /\ x \in Column /\ y \in 0 .. NUM_ROWS - 1
    /\ Tested([f EXCEPT ![NUM_COLS * y + x] = c], Mod(x + 1, NUM_COLS),
              y + Div(x + 1, NUM_COLS), p)

\* A position at rest is on the top row only right of its start.
LEMMA RestPlace ==
    ASSUME NEW f, NEW x, NEW y, NEW p \in Paper, Rest(f, x, y, p)
    PROVE  /\ x \in Int /\ y \in Nat /\ p.at \in Nat
           /\ p.at = 0 <=> x = 0 /\ y = 0
           /\ y = 0 => x >= 0
<1> DEFINE s == NUM_COLS * y
<1>1. NUM_COLS \in Nat /\ NUM_ROWS \in Nat /\ Cells \in Nat
  BY Sizes
<1>2. x \in Column /\ y \in 0 .. NUM_ROWS - 1 /\ y \in 0 .. NUM_ROWS /\ s + x = p.at
      /\ p.at \in 0 .. Cells - 1
  BY <1>1 DEF Rest, Paper
<1>3. s \in Nat /\ (y > 0 => s >= NUM_COLS) /\ (y = 0 => s = 0)
  BY <1>2, RowStart
<1> HIDE DEF s
<1>4. x \in Int /\ -NUM_COLS < x /\ y \in Nat /\ p.at \in Nat
  BY <1>1, <1>2 DEF Column
<1>5. QED BY <1>1, <1>2, <1>3, <1>4

\* At the next row's start, with the paper rolled if that row is past the end.
LEMMA RowDown ==
    ASSUME NEW g \in [0 .. Cells - 1 -> Ink], NEW y \in 0 .. NUM_ROWS - 1
    PROVE  LET p == Rolled([cells |-> g, at |-> NUM_COLS * (y + 1)]) IN
           p \in Paper /\ Tested(g, 0, y + 1, p)
<1> DEFINE n == NUM_COLS * (y + 1)
           r == [cells |-> g, at |-> n]
           p == Rolled(r)
           h == [i \in 0 .. Cells - 1 |-> IF i + NUM_COLS < Cells THEN g[i + NUM_COLS] ELSE Blank]
<1>1. NUM_COLS \in Nat /\ NUM_COLS > 1 /\ NUM_ROWS \in Nat /\ NUM_ROWS > 1 /\ Cells \in Nat
      /\ (NUM_ROWS - 1) * NUM_COLS = Cells - NUM_COLS /\ NUM_COLS < Cells
  BY Sizes
<1>2. y + 1 \in 0 .. NUM_ROWS /\ 0 \in Column
  BY <1>1 DEF Column
<1>3. n \in Nat /\ (y + 1 < NUM_ROWS => n + NUM_COLS <= Cells) /\ (y + 1 = NUM_ROWS => n = Cells)
  BY <1>2, RowStart
<1>4. p = IF n < Cells THEN r ELSE [cells |-> h, at |-> Cells - NUM_COLS]
  BY DEF Rolled
<1>5. r.cells = g /\ r.at = n /\ r \in [cells : [0 .. Cells - 1 -> Ink], at : {n}]
  OBVIOUS
<1>6. NUM_COLS * (y + 1) + 0 = n
  BY <1>3
<1>7. CASE y + 1 < NUM_ROWS
  <2> HIDE DEF n, r
  <2>1. n < Cells /\ n \in 0 .. Cells - 1 /\ y + 1 \in 0 .. NUM_ROWS - 1 /\ y + 1 # NUM_ROWS
    BY <1>1, <1>3, <1>7
  <2>2. p = r
    BY <1>4, <2>1
  <2>3. Rest(g, 0, y + 1, p) /\ p \in Paper
    BY <1>2, <1>5, <1>6, <2>1, <2>2 DEF Rest, Paper
  <2>4. QED BY <1>2, <2>1, <2>3 DEF Tested, r, n
<1>8. CASE ~(y + 1 < NUM_ROWS)
  <2> HIDE DEF n, r
  <2>1. y + 1 = NUM_ROWS /\ n = Cells /\ ~(n < Cells)
    BY <1>1, <1>2, <1>3, <1>8
  <2>2. p = [cells |-> h, at |-> Cells - NUM_COLS]
    BY <1>4, <2>1
  <2>3. ASSUME NEW j \in 0 .. Cells - 1
        PROVE  h[j] = IF j >= (NUM_ROWS - 1) * NUM_COLS THEN Blank ELSE g[j + NUM_COLS]
    <3>1. j + NUM_COLS < Cells <=> ~(j >= Cells - NUM_COLS)
      BY <1>1
    <3>2. QED BY <1>1, <3>1
  <2>4. \A j \in 0 .. Cells - 1 : ~(j < 0)
    BY <1>1
  <2>5. h \in [0 .. Cells - 1 -> Ink]
    <3>1. ASSUME NEW j \in 0 .. Cells - 1, j + NUM_COLS < Cells
          PROVE  j + NUM_COLS \in 0 .. Cells - 1
      BY <1>1, <3>1
    <3>2. QED BY <3>1 DEF Ink
  <2>6. Cells - NUM_COLS \in 0 .. Cells - 1
    BY <1>1
  <2> HIDE DEF h
  <2>7. p.cells = h /\ p.at = Cells - NUM_COLS /\ p \in Paper
    BY <2>2, <2>5, <2>6 DEF Paper
  <2>8. Scrolling(g, 0, p)
    BY <2>3, <2>4, <2>7 DEF Scrolling
  <2>9. QED BY <1>2, <1>8, <2>7, <2>8 DEF Tested, r, n
<1>9. QED BY <1>7, <1>8

\* What each kind of character leaves to do: a letter is stored first,
LEMMA LetterTyped ==
    ASSUME NEW f, NEW x, NEW y, NEW p \in Paper, Rest(f, x, y, p), NEW c \in Letter
    PROVE  Typed(p, c) \in Paper /\ Lettered(f, x, y, c, Typed(p, c))
<1> DEFINE s == NUM_COLS * y
<1>1. NUM_COLS \in Nat /\ NUM_COLS > 1 /\ NUM_ROWS \in Nat /\ NUM_ROWS > 1 /\ Cells \in Nat
      /\ (NUM_ROWS - 1) * NUM_COLS = Cells - NUM_COLS /\ NUM_COLS < Cells
  BY Sizes
<1>2. /\ x \in Column /\ y \in 0 .. NUM_ROWS - 1 /\ y \in 0 .. NUM_ROWS /\ s + x = p.at
      /\ p.at \in 0 .. Cells - 1 /\ f = p.cells /\ p.cells \in [0 .. Cells - 1 -> Ink]
  BY <1>1 DEF Rest, Paper
<1>3. /\ s \in Nat /\ NUM_COLS * (y + 1) = s + NUM_COLS
      /\ s + NUM_COLS <= Cells
      /\ y + 1 < NUM_ROWS => s + NUM_COLS <= Cells - NUM_COLS
      /\ y + 1 = NUM_ROWS => s + NUM_COLS = Cells
  <2>1. y \in 0 .. NUM_ROWS /\ y < NUM_ROWS /\ (y + 1 = NUM_ROWS => y + 1 \in 0 .. NUM_ROWS)
    BY <1>1, <1>2
  <2>2. s \in Nat /\ NUM_COLS * (y + 1) = s + NUM_COLS /\ s + NUM_COLS <= Cells
        /\ (y + 1 < NUM_ROWS => s + NUM_COLS <= Cells - NUM_COLS)
    BY <2>1, RowStart
  <2>3. y + 1 = NUM_ROWS => NUM_COLS * (y + 1) = Cells
    BY <2>1, RowStart
  <2>4. QED BY <2>2, <2>3
<1> HIDE DEF s
<1> DEFINE g == [p.cells EXCEPT ![p.at] = c]
           r == [cells |-> g, at |-> p.at + 1]
<1>4. Typed(p, c) = Rolled(r)
  BY DEF Typed, Letter
<1>5. g \in [0 .. Cells - 1 -> Ink] /\ r.cells = g /\ r.at = p.at + 1
  BY <1>2 DEF Ink
<1>6. [f EXCEPT ![NUM_COLS * y + x] = c] = g
  BY <1>2 DEF s
<1>7. NUM_COLS * y + x \in 0 .. Cells - 1
  BY <1>2 DEF s
<1>r. r = [cells |-> g, at |-> p.at + 1]
  OBVIOUS
<1> HIDE DEF g, r
<1>8. x + 1 \in -NUM_COLS .. NUM_COLS /\ x + 1 # -NUM_COLS
  BY <1>1, <1>2 DEF Column
<1>9. CASE x + 1 # NUM_COLS
  <2>1. Div(x + 1, NUM_COLS) = 0 /\ Mod(x + 1, NUM_COLS) = x + 1
    BY <1>8, <1>9, Columns
  <2>2. p.at + 1 < Cells /\ x + 1 \in Column /\ s + (x + 1) = p.at + 1 /\ p.at + 1 \in 0 .. Cells - 1
    <3> DEFINE n == NUM_COLS
               a == p.at
    <3>1. /\ n \in Nat /\ n > 1 /\ Cells \in Nat /\ s \in Nat /\ s + n <= Cells
          /\ a \in 0 .. Cells - 1 /\ x \in -(n - 1) .. n - 1 /\ s + x = a /\ x + 1 # n
      <4>1. x \in -(n - 1) .. n - 1
        BY <1>2 DEF Column
      <4>2. QED BY <1>1, <1>2, <1>3, <1>9, <4>1
    <3> HIDE DEF n, a
    <3>2. a + 1 < Cells /\ x + 1 \in -(n - 1) .. n - 1 /\ s + (x + 1) = a + 1
          /\ a + 1 \in 0 .. Cells - 1
      BY <3>1
    <3>3. QED BY <3>2 DEF n, a, Column
  <2>3. Typed(p, c) = r
    BY <1>4, <1>5, <2>2 DEF Rolled
  <2>4. Rest(g, x + 1, y, r) /\ r \in Paper
    BY <1>2, <1>5, <1>r, <2>2 DEF Rest, s, Paper
  <2>5. y + 0 = y /\ y < NUM_ROWS /\ y # NUM_ROWS
    BY <1>1, <1>2
  <2>6. Tested(g, x + 1, y, r)
    BY <1>2, <2>2, <2>4, <2>5 DEF Tested
  <2>7. QED BY <1>2, <1>6, <1>7, <2>1, <2>3, <2>4, <2>5, <2>6 DEF Lettered
<1>10. CASE x + 1 = NUM_COLS
  <2>1. Div(x + 1, NUM_COLS) = 1 /\ Mod(x + 1, NUM_COLS) = 0
    BY <1>8, <1>10, Columns
  <2>2. p.at + 1 = NUM_COLS * (y + 1)
    <3>1. x \in Int /\ y \in Nat
      BY <1>1, <1>2 DEF Column
    <3>2. p.at + 1 = s + NUM_COLS
      BY <1>1, <1>2, <1>3, <1>10, <3>1
    <3>3. QED BY <1>3, <3>2
  <2>3. Typed(p, c) \in Paper /\ Tested(g, 0, y + 1, Typed(p, c))
    BY <1>2, <1>4, <1>5, <1>r, <2>2, RowDown
  <2>4. QED BY <1>2, <1>6, <1>7, <2>1, <2>3 DEF Lettered
<1>11. QED BY <1>9, <1>10

\* a newline goes to the test of the last row,
LEMMA NewlineTyped ==
    ASSUME NEW f, NEW x, NEW y, NEW p \in Paper, Rest(f, x, y, p), x >= 0
    PROVE  Typed(p, "NL") \in Paper /\ Tested(f, 0, y + 1, Typed(p, "NL"))
<1>1. NUM_COLS \in Nat /\ NUM_COLS > 1 /\ NUM_ROWS \in Nat
  BY Sizes
<1>2. /\ x \in 0 .. NUM_COLS - 1 /\ y \in 0 .. NUM_ROWS - 1 /\ y \in Nat
      /\ NUM_COLS * y + x = p.at /\ f = p.cells /\ p.cells \in [0 .. Cells - 1 -> Ink]
  BY <1>1 DEF Rest, Paper, Column
<1>3. p.at \div NUM_COLS = y
  <2>1. (NUM_COLS * y + x) \div NUM_COLS = y
    BY <1>1, <1>2
  <2>2. QED BY <1>2, <2>1
<1>4. Typed(p, "NL") = Rolled([cells |-> p.cells, at |-> NUM_COLS * (y + 1)])
  <2>1. [p EXCEPT !.at = NUM_COLS * (@ \div NUM_COLS + 1)]
        = [cells |-> p.cells, at |-> NUM_COLS * (y + 1)]
    BY <1>3 DEF Paper
  <2>2. QED BY <2>1 DEF Typed
<1>5. QED BY <1>2, <1>4, RowDown

\* and a backspace erases the cell before, unless it is the first.
LEMMA BackspaceTyped ==
    ASSUME NEW f, NEW x, NEW y, NEW p \in Paper, Rest(f, x, y, p)
    PROVE  /\ Typed(p, "BS") \in Paper
           /\ x = 0 /\ y = 0 => Tested(f, x, y, Typed(p, "BS"))
           /\ ~(x = 0 /\ y = 0) => Erased(f, Mod(x - 1, NUM_COLS), y + Div(x - 1, NUM_COLS),
                                          Typed(p, "BS"))
<1> DEFINE s == NUM_COLS * y
           g == [p.cells EXCEPT ![p.at - 1] = Blank]
<1>1. NUM_COLS \in Nat /\ NUM_COLS > 1 /\ NUM_ROWS \in Nat /\ NUM_ROWS > 1 /\ Cells \in Nat
  BY Sizes
<1>2. /\ x \in Column /\ y \in 0 .. NUM_ROWS - 1 /\ y \in 0 .. NUM_ROWS /\ s + x = p.at
      /\ p.at \in 0 .. Cells - 1 /\ f = p.cells /\ p.cells \in [0 .. Cells - 1 -> Ink]
  BY <1>1 DEF Rest, Paper
<1>3. s \in Nat /\ NUM_COLS * (y - 1) = s - NUM_COLS /\ (y = 0 => s = 0)
  BY <1>2, RowStart
<1> HIDE DEF s
<1>4. x \in Int /\ x - 1 \in -NUM_COLS .. NUM_COLS /\ x - 1 # NUM_COLS /\ y \in Nat
  BY <1>1, <1>2 DEF Column
<1>5. CASE x = 0 /\ y = 0
  <2>1. p.at = 0
    BY <1>2, <1>3, <1>5
  <2>2. Typed(p, "BS") = p
    BY <2>1 DEF Typed
  <2>3. Tested(f, x, y, p)
    BY <1>1, <1>2, <1>5 DEF Tested
  <2>4. QED BY <1>5, <2>2, <2>3
<1>6. CASE ~(x = 0 /\ y = 0)
  <2>1. p.at # 0 /\ (y = 0 => x >= 0)
    BY <1>6, RestPlace
  <2>2. Typed(p, "BS") = [cells |-> g, at |-> p.at - 1]
    BY <2>1 DEF Typed
  <2>3. g \in [0 .. Cells - 1 -> Ink] /\ p.at - 1 \in 0 .. Cells - 1
    BY <1>1, <1>2, <2>1 DEF Ink
  <2>g. g = [f EXCEPT ![p.at - 1] = Blank]
    BY <1>2
  <2> HIDE DEF g
  <2>4. Typed(p, "BS").cells = g /\ Typed(p, "BS").at = p.at - 1 /\ Typed(p, "BS") \in Paper
    BY <2>2, <2>3 DEF Paper
  <2>5. CASE x - 1 # -NUM_COLS
    <3>1. Div(x - 1, NUM_COLS) = 0 /\ Mod(x - 1, NUM_COLS) = x - 1 /\ y + 0 = y
      BY <1>4, <2>5, Columns
    <3>2. x - 1 \in Column /\ s + (x - 1) = p.at - 1 /\ y < NUM_ROWS /\ y # NUM_ROWS
      BY <1>1, <1>2, <1>3, <1>4, <2>5 DEF Column
    <3>3. Rest(g, x - 1, y, Typed(p, "BS"))
      BY <1>2, <2>4, <3>2 DEF Rest, s
    <3>4. Tested(g, x - 1, y, Typed(p, "BS"))
      BY <1>2, <3>2, <3>3 DEF Tested
    <3>5. Erased(f, x - 1, y, Typed(p, "BS"))
      BY <2>3, <2>g, <3>2, <3>4 DEF Erased, s
    <3>6. QED BY <1>6, <2>4, <3>1, <3>5
  <2>6. CASE x - 1 = -NUM_COLS
    <3>1. Div(x - 1, NUM_COLS) = -1 /\ Mod(x - 1, NUM_COLS) = 0 /\ y + (-1) = y - 1
      BY <1>4, <2>6, Columns
    <3>2. y # 0 /\ y - 1 \in 0 .. NUM_ROWS - 1 /\ y - 1 \in 0 .. NUM_ROWS /\ y - 1 < NUM_ROWS
          /\ y - 1 # NUM_ROWS /\ 0 \in Column
      BY <1>1, <1>2, <1>4, <2>1, <2>6 DEF Column
    <3>3. (s - NUM_COLS) + 0 = p.at - 1
      BY <1>1, <1>2, <1>3, <1>4, <2>6
    <3>4. NUM_COLS * (y - 1) + 0 = p.at - 1
      BY <1>3, <3>3
    <3>5. Rest(g, 0, y - 1, Typed(p, "BS"))
      BY <2>4, <3>2, <3>4 DEF Rest
    <3>6. Tested(g, 0, y - 1, Typed(p, "BS"))
      BY <3>2, <3>5 DEF Tested
    <3>7. Erased(f, 0, y - 1, Typed(p, "BS"))
      BY <2>3, <2>g, <3>4, <3>6 DEF Erased
    <3>8. QED BY <1>6, <2>4, <3>1, <3>7
  <2>7. QED BY <2>5, <2>6
<1>7. QED BY <1>5, <1>6

-----------------------------------------------------------------------------
(* scrollDown and putc as a whole *)

Screens == [video : [Address -> Ink], x : Int, y : Int]
Face(v) == [i \in 0 .. Cells - 1 |-> v[i]]

At(v, x, y) == [video |-> v, x |-> x, y |-> y]

\* A screen is its memory and two coordinates.
LEMMA Coordinates ==
    ASSUME NEW v, NEW x, NEW y
    PROVE  /\ \A d : XPlus(At(v, x, y), d) = At(v, x + d, y)
           /\ \A d : YPlus(At(v, x, y), d) = At(v, x, y + d)
           /\ CarryRow(At(v, x, y)) = At(v, x, y + Div(x, NUM_COLS))
           /\ ModColumn(At(v, x, y)) = At(v, Mod(x, NUM_COLS), y)
           /\ AtLastRow(At(v, x, y)) = At(v, 0, NUM_ROWS - 1)
<1>1. \A d : XPlus(At(v, x, y), d) = At(v, x + d, y)
  BY DEF XPlus, At
<1>2. \A d : YPlus(At(v, x, y), d) = At(v, x, y + d)
  BY DEF YPlus, At
<1>3. CarryRow(At(v, x, y)) = At(v, x, y + Div(x, NUM_COLS))
  BY <1>2 DEF CarryRow, At
<1>4. ModColumn(At(v, x, y)) = At(v, Mod(x, NUM_COLS), y)
  BY DEF ModColumn, At
<1>5. AtLastRow(At(v, x, y)) = At(v, 0, NUM_ROWS - 1)
  <2>1. [At(v, x, y) EXCEPT !.x = 0] = At(v, 0, y)
    BY DEF At
  <2>2. [At(v, 0, y) EXCEPT !.y = NUM_ROWS - 1] = At(v, 0, NUM_ROWS - 1)
    BY DEF At
  <2>3. QED BY <2>1, <2>2 DEF AtLastRow
<1>6. QED BY <1>1, <1>2, <1>3, <1>4, <1>5

LEMMA ScreensAt ==
    ASSUME NEW s \in Screens
    PROVE  s = At(s.video, s.x, s.y) /\ s.video \in [Address -> Ink] /\ s.x \in Int /\ s.y \in Int
BY DEF Screens, At

LEMMA AtScreens ==
    ASSUME NEW v \in [Address -> Ink], NEW x \in Int, NEW y \in Int
    PROVE  LET s == At(v, x, y) IN s \in Screens /\ s.video = v /\ s.x = x /\ s.y = y
BY DEF Screens, At

\* The same of a screen.
LEMMA Moved ==
    ASSUME NEW s \in Screens
    PROVE  /\ \A d : XPlus(s, d) = At(s.video, s.x + d, s.y)
           /\ \A d : YPlus(s, d) = At(s.video, s.x, s.y + d)
           /\ CarryRow(s) = At(s.video, s.x, s.y + Div(s.x, NUM_COLS))
           /\ ModColumn(s) = At(s.video, Mod(s.x, NUM_COLS), s.y)
<1>1. \A d : XPlus(s, d) = At(s.video, s.x + d, s.y)
  BY DEF Screens, XPlus, At
<1>2. \A d : YPlus(s, d) = At(s.video, s.x, s.y + d)
  BY DEF Screens, YPlus, At
<1>3. CarryRow(s) = At(s.video, s.x, s.y + Div(s.x, NUM_COLS))
  BY <1>2 DEF CarryRow
<1>4. ModColumn(s) = At(s.video, Mod(s.x, NUM_COLS), s.y)
  BY DEF Screens, ModColumn, At
<1>5. QED BY <1>1, <1>2, <1>3, <1>4

\* Every visible cell, and every cell of a page, has an address.
LEMMA Addresses ==
    /\ PageCells \in Nat /\ MAX_TERMINAL_NUMBER \in Nat \ {0} /\ Cells <= PageCells
    /\ \A i \in 0 .. PageCells - 1 : i \in Address
    /\ \A i \in 0 .. Cells - 1 : i \in Address
    /\ \A a \in Address : a \in Nat
<1>1. PageCells \in Nat /\ MAX_TERMINAL_NUMBER \in Nat \ {0} /\ Cells <= PageCells /\ Cells \in Nat
  BY SizeAssumption, Sizes
<1>2. /\ MAX_TERMINAL_NUMBER * PageCells \in Nat
      /\ (MAX_TERMINAL_NUMBER + 1) * PageCells = MAX_TERMINAL_NUMBER * PageCells + PageCells
  <2>1. \A i, j \in Nat : i * j \in Nat
    OBVIOUS
  <2>2. QED BY <1>1, <2>1
<1> DEFINE m == MAX_TERMINAL_NUMBER * PageCells
           n == (MAX_TERMINAL_NUMBER + 1) * PageCells
<1>3. m \in Nat /\ n = m + PageCells /\ Address = 0 .. n - 1
  BY <1>2 DEF Address
<1> HIDE DEF m, n
<1>4. QED BY <1>1, <1>3

\* A store in the visible cells.
LEMMA FaceStored ==
    ASSUME NEW v \in [Address -> Ink], NEW k \in 0 .. Cells - 1, NEW c
    PROVE  /\ Face([v EXCEPT ![k] = c]) = [Face(v) EXCEPT ![k] = c]
           /\ c \in Ink => [v EXCEPT ![k] = c] \in [Address -> Ink]
           /\ \A a \in Address : a >= Cells => [v EXCEPT ![k] = c][a] = v[a]
<1>1. k \in Address /\ Cells \in Nat /\ \A i \in 0 .. Cells - 1 : i \in Address
  BY Addresses, Sizes
<1>2. Face([v EXCEPT ![k] = c]) = [Face(v) EXCEPT ![k] = c]
  BY <1>1 DEF Face
<1>3. \A a \in Address : a >= Cells => a # k
  BY <1>1
<1>4. QED BY <1>1, <1>2, <1>3

\* The video memory when the first i cells are scrolled.
Raised(v, i) ==
    [a \in Address |-> IF a < i THEN IF a >= (NUM_ROWS - 1) * NUM_COLS THEN Blank
                                     ELSE v[a + NUM_COLS]
                       ELSE v[a]]

\* scrollDown after i cells: one more cell, and the start.
LEMMA RaisedNext ==
    ASSUME NEW v \in [Address -> Ink], NEW i \in 0 .. Cells - 1
    PROVE  /\ Raised(v, i) \in [Address -> Ink]
           /\ Raised(v, i + 1) = [Raised(v, i) EXCEPT ![i] =
                                    IF i >= (NUM_ROWS - 1) * NUM_COLS THEN Blank
                                    ELSE Raised(v, i)[i + NUM_COLS]]
<1>1. NUM_COLS \in Nat /\ NUM_COLS > 1 /\ Cells \in Nat
      /\ (NUM_ROWS - 1) * NUM_COLS = Cells - NUM_COLS
  BY Sizes
<1>2. /\ i \in Address /\ \A a \in Address : a \in Nat
      /\ \A j \in 0 .. Cells - 1 : j \in Address
  BY Addresses
<1>3. ASSUME NEW a \in Address, a < i + 1, ~(a >= Cells - NUM_COLS)
      PROVE  a + NUM_COLS \in Address /\ ~(a + NUM_COLS < a)
  <2>1. a + NUM_COLS \in 0 .. Cells - 1
    BY <1>1, <1>2, <1>3
  <2>2. QED BY <1>1, <1>2, <2>1
<1>4. \A a \in Address : a < i => a < i + 1
  BY <1>1, <1>2
<1>5. Raised(v, i) \in [Address -> Ink]
  BY <1>1, <1>3, <1>4 DEF Raised, Ink
<1>6. ASSUME NEW a \in Address
      PROVE  Raised(v, i + 1)[a] = IF a = i THEN IF i >= Cells - NUM_COLS THEN Blank
                                                 ELSE Raised(v, i)[i + NUM_COLS]
                                   ELSE Raised(v, i)[a]
  <2>1. CASE a = i
    <3>1. a < i + 1 /\ i < i + 1
      BY <1>1, <2>1
    <3>2. Raised(v, i + 1)[a] = IF i >= Cells - NUM_COLS THEN Blank ELSE v[i + NUM_COLS]
      BY <1>1, <2>1, <3>1 DEF Raised
    <3>3. ~(i >= Cells - NUM_COLS) => Raised(v, i)[i + NUM_COLS] = v[i + NUM_COLS]
      <4>1. SUFFICES ASSUME ~(i >= Cells - NUM_COLS)
                     PROVE  Raised(v, i)[i + NUM_COLS] = v[i + NUM_COLS]
        OBVIOUS
      <4>2. i + NUM_COLS \in Address /\ ~(i + NUM_COLS < i)
        BY <1>2, <1>3, <3>1, <4>1
      <4>3. QED BY <4>2 DEF Raised
    <3>4. QED BY <2>1, <3>2, <3>3
  <2>2. CASE a # i
    <3>1. a < i + 1 <=> a < i
      BY <1>2, <2>2
    <3>2. QED BY <2>2, <3>1 DEF Raised
  <2>3. QED BY <2>1, <2>2
<1>7. Raised(v, i + 1) = [a \in Address |-> Raised(v, i + 1)[a]]
  BY DEF Raised
<1>8. Raised(v, i) = [a \in Address |-> Raised(v, i)[a]]
  BY DEF Raised
<1> DEFINE new == IF i >= Cells - NUM_COLS THEN Blank ELSE Raised(v, i)[i + NUM_COLS]
           q == [Raised(v, i) EXCEPT ![i] = new]
<1>9. q = [a \in Address |-> IF a = i THEN new ELSE Raised(v, i)[a]]
  BY <1>5
<1>10. \A a \in Address : Raised(v, i + 1)[a] = IF a = i THEN new ELSE Raised(v, i)[a]
  BY <1>6
<1> HIDE DEF new
<1>11. Raised(v, i + 1) = q
  BY <1>7, <1>9, <1>10
<1>12. QED BY <1>1, <1>5, <1>11 DEF new

ScrolledBy(s, g) ==
    g = [i \in 0 .. Cells |-> IF i = 0 THEN s ELSE ScrollCell(g[i - 1], i - 1)]

RaisedBy(s, i) == At(Raised(s.video, i), s.x, s.y)

LEMMA RaisedByNext ==
    ASSUME NEW s \in Screens, NEW i \in 0 .. Cells, i # 0
    PROVE  RaisedBy(s, i) = ScrollCell(RaisedBy(s, i - 1), i - 1)
<1> DEFINE k == i - 1
           v == s.video
<1>1. k \in 0 .. Cells - 1 /\ k + 1 = i /\ v \in [Address -> Ink]
  BY Sizes DEF Screens
<1> HIDE DEF k, v
<1>2. Raised(v, i) = [Raised(v, k) EXCEPT ![k] = IF k >= (NUM_ROWS - 1) * NUM_COLS THEN Blank
                                                 ELSE Raised(v, k)[k + NUM_COLS]]
  BY <1>1, RaisedNext
<1>3. RaisedBy(s, i) = ScrollCell(RaisedBy(s, k), k)
  BY <1>2 DEF RaisedBy, At, ScrollCell, v
<1>4. QED BY <1>3 DEF k

LEMMA RaisedByStart ==
    ASSUME NEW s \in Screens
    PROVE  RaisedBy(s, 0) = s
<1>1. \A a \in Address : ~(a < 0)
  BY Addresses
<1>2. Raised(s.video, 0) = s.video
  BY <1>1 DEF Raised, Screens
<1>3. QED BY <1>2, ScreensAt DEF RaisedBy

\* A non-empty set of naturals has a least element.
LEMMA LeastNat ==
    ASSUME NEW T \in SUBSET Nat, T # {}
    PROVE  \E n \in T : \A m \in T : n <= m
<1>1. PICK k \in T : TRUE
  OBVIOUS
<1> DEFINE S == 0 .. k
           R == StrictSubsetOrdering(S)
           F == {0 .. n : n \in T \cap S}
<1>2. k \in Nat /\ S \in SUBSET Nat /\ k \in S
  OBVIOUS
<1>3. IsFiniteSet(S)
  <2>1. 0 \in Int /\ k \in Int
    BY <1>2
  <2>2. QED BY <2>1, FS_Interval
<1>4. IsWellFoundedOn(R, FiniteSubsetsOf(S)) /\ FiniteSubsetsOf(S) = SUBSET S
  BY <1>3, FS_StrictSubsetOrderingWellFounded, FS_FiniteSubsetsOfFinite
<1>5. F \subseteq SUBSET S /\ F # {}
  BY <1>2
<1>6. PICK x \in F : \A y \in F : ~(<<y, x>> \in R)
  <2> HIDE DEF R, F, S
  <2>1. QED BY <1>4, <1>5, WFMin
<1>7. PICK n \in T \cap S : x = 0 .. n
  BY <1>6
<1>8. ASSUME NEW m \in T, m < n PROVE FALSE
  <2>1. m \in S /\ (0 .. m) \in F
    BY <1>2, <1>7, <1>8
  <2>2. <<0 .. m, x>> \in R
    <3>1. 0 .. m \subseteq x /\ 0 .. m # x /\ 0 .. m \in SUBSET S /\ x \in SUBSET S
      <4>1. n \in 0 .. n /\ n \notin 0 .. m
        BY <1>7, <1>8
      <4>2. QED BY <1>5, <1>6, <1>7, <1>8, <2>1, <4>1
    <3> HIDE DEF S
    <3>2. QED BY <3>1 DEF StrictSubsetOrdering
  <2>3. QED BY <1>6, <2>1, <2>2
<1>9. \A m \in T : n <= m
  BY <1>7, <1>8
<1>10. QED BY <1>7, <1>9

\* scrollDown's loop has one outcome: the rows a line up and the last one blank.
LEMMA Scrolled ==
    ASSUME NEW s \in Screens
    PROVE  scrollDown(s) = At(Raised(s.video, Cells), 0, NUM_ROWS - 1)
<1> DEFINE h == [i \in 0 .. Cells |-> RaisedBy(s, i)]
           c == CHOOSE g : ScrolledBy(s, g)
<1>1. Cells \in Nat
  BY Sizes
<1>2. ScrolledBy(s, h)
  <2>1. ASSUME NEW i \in 0 .. Cells
        PROVE  RaisedBy(s, i) = IF i = 0 THEN s ELSE ScrollCell(h[i - 1], i - 1)
    <3>1. CASE i = 0
      BY <3>1, RaisedByStart
    <3>2. CASE i # 0
      <4>1. i - 1 \in 0 .. Cells
        BY <1>1, <3>2
      <4>2. h[i - 1] = RaisedBy(s, i - 1)
        BY <4>1
      <4>3. QED BY <3>2, <4>2, RaisedByNext
    <3>3. QED BY <3>1, <3>2
  <2>2. QED BY <2>1 DEF ScrolledBy
<1>3. ScrolledBy(s, c)
  BY <1>2
<1>4. scrollDown(s) = AtLastRow(c[Cells])
  BY Zenon DEF scrollDown, ScrolledBy
<1> HIDE DEF c, h
<1>5. \A i \in 0 .. Cells : c[i] = RaisedBy(s, i)
  <2> DEFINE T == {i \in 0 .. Cells : c[i] # RaisedBy(s, i)}
  <2> SUFFICES ASSUME T # {} PROVE FALSE
    OBVIOUS
  <2>1. PICK n \in T : \A m \in T : n <= m
    <3>1. T \in SUBSET Nat
      BY <1>1
    <3> HIDE DEF T
    <3>2. QED BY <3>1, LeastNat
  <2>2. n \in 0 .. Cells /\ c[n] # RaisedBy(s, n)
    OBVIOUS
  <2>3. c[n] = IF n = 0 THEN s ELSE ScrollCell(c[n - 1], n - 1)
    BY <1>3, <2>2 DEF ScrolledBy
  <2>4. n # 0
    BY <2>2, <2>3, RaisedByStart
  <2>5. n - 1 \in 0 .. Cells /\ ~(n <= n - 1)
    BY <1>1, <2>2, <2>4
  <2>6. c[n - 1] = RaisedBy(s, n - 1)
    BY <2>1, <2>5
  <2>7. QED BY <2>2, <2>3, <2>4, <2>6, RaisedByNext
<1>6. c[Cells] = RaisedBy(s, Cells)
  BY <1>1, <1>5
<1>7. AtLastRow(RaisedBy(s, Cells)) = At(Raised(s.video, Cells), 0, NUM_ROWS - 1)
  BY Coordinates DEF RaisedBy
<1>8. QED BY <1>4, <1>6, <1>7

\* Stores and scrolling stay on the visible cells.
SameBeyond(v, w) == \A a \in Address : a >= Cells => w[a] = v[a]

\* scrollDown has one outcome, and it is the paper's.
LEMMA ScrollDown ==
    ASSUME NEW s \in Screens, NEW p \in Paper, Scrolling(Face(s.video), 0, p)
    PROVE  LET r == scrollDown(s) IN
           /\ r \in Screens /\ SameBeyond(s.video, r.video)
           /\ Rest(Face(r.video), r.x, r.y, p)
<1> DEFINE v == s.video
           w == Raised(v, Cells)
           r == scrollDown(s)
<1>1. NUM_COLS \in Nat /\ NUM_COLS > 1 /\ NUM_ROWS \in Nat /\ NUM_ROWS > 1 /\ Cells \in Nat
      /\ (NUM_ROWS - 1) * NUM_COLS = Cells - NUM_COLS /\ NUM_COLS < Cells
  BY Sizes
<1>2. r = At(w, 0, NUM_ROWS - 1)
  BY Scrolled
<1>3. \A i \in 0 .. Cells - 1 : i \in Address
  BY Addresses
<1>4. v \in [Address -> Ink]
  BY DEF Screens
<1>5. \A a \in Address : a \in Nat
  BY Addresses
<1>6. w \in [Address -> Ink]
  <2>1. ASSUME NEW a \in Address, a < Cells, ~(a >= Cells - NUM_COLS)
        PROVE  a + NUM_COLS \in Address
    <3>1. a + NUM_COLS \in 0 .. Cells - 1
      BY <1>1, <1>5, <2>1
    <3>2. QED BY <1>3, <3>1
  <2> HIDE DEF v
  <2>2. QED BY <1>1, <1>4, <2>1 DEF Raised, Ink
<1>7. SameBeyond(v, w)
  <2>1. \A a \in Address : a >= Cells => ~(a < Cells)
    BY <1>1, <1>5
  <2>2. QED BY <2>1 DEF SameBeyond, Raised
<1>8. Face(w) = p.cells
  <2>1. ASSUME NEW j \in 0 .. Cells - 1
        PROVE  w[j] = p.cells[j]
    <3>1. j \in Address /\ j < Cells /\ ~(j < 0)
      BY <1>1, <1>3
    <3>2. ~(j >= Cells - NUM_COLS) => j + NUM_COLS \in 0 .. Cells - 1
      BY <1>1
    <3>3. w[j] = IF j >= (NUM_ROWS - 1) * NUM_COLS THEN Blank ELSE v[j + NUM_COLS]
      BY <3>1 DEF Raised
    <3>4. p.cells[j] = IF j >= (NUM_ROWS - 1) * NUM_COLS THEN Blank
                       ELSE Face(v)[j + NUM_COLS]
      BY <3>1 DEF Scrolling
    <3>5. ~(j >= (NUM_ROWS - 1) * NUM_COLS) => Face(v)[j + NUM_COLS] = v[j + NUM_COLS]
      BY <1>1, <3>2 DEF Face
    <3>6. QED BY <3>3, <3>4, <3>5
  <2>2. p.cells = [j \in 0 .. Cells - 1 |-> p.cells[j]]
    BY DEF Paper
  <2> HIDE DEF w
  <2>3. QED BY <2>1, <2>2 DEF Face
<1>9. 0 \in Column /\ NUM_ROWS - 1 \in 0 .. NUM_ROWS - 1 /\ p.at = Cells - NUM_COLS
  BY <1>1 DEF Column, Scrolling
<1>10. NUM_COLS * (NUM_ROWS - 1) + 0 = p.at
  BY <1>1, <1>9
<1>11. r \in Screens /\ r.video = w /\ r.x = 0 /\ r.y = NUM_ROWS - 1
  <2>1. NUM_ROWS - 1 \in Int
    BY <1>1
  <2> HIDE DEF w, r
  <2>2. QED BY <1>2, <1>6, <2>1, AtScreens
<1>12. Rest(Face(w), 0, NUM_ROWS - 1, p)
  BY <1>8, <1>9, <1>10 DEF Rest
<1>13. QED BY <1>7, <1>11, <1>12

\* What the test makes of it, by scrolling or not.
LEMMA Ended ==
    ASSUME NEW s \in Screens, NEW p \in Paper, Tested(Face(s.video), s.x, s.y, p)
    PROVE  LET r == IF PastEnd(s) THEN scrollDown(s) ELSE s IN
           /\ r \in Screens /\ SameBeyond(s.video, r.video)
           /\ Rest(Face(r.video), r.x, r.y, p)
<1>1. s.y \in 0 .. NUM_ROWS /\ NUM_ROWS \in Nat
  BY Sizes DEF Tested
<1>2. CASE PastEnd(s)
  <2>1. s.y = NUM_ROWS
    BY <1>1, <1>2 DEF PastEnd
  <2>2. Scrolling(Face(s.video), 0, p)
    BY <2>1 DEF Tested
  <2>3. QED BY <1>2, <2>2, ScrollDown
<1>3. CASE ~PastEnd(s)
  <2>1. s.y < NUM_ROWS
    BY <1>1, <1>3 DEF PastEnd
  <2>2. Rest(Face(s.video), s.x, s.y, p)
    BY <2>1 DEF Tested
  <2>3. SameBeyond(s.video, s.video)
    BY DEF SameBeyond
  <2>4. QED BY <1>3, <2>2, <2>3
<1>4. QED BY <1>2, <1>3

LEMMA Stored ==
    ASSUME NEW s \in Screens, NEW c \in Ink, Position(s) \in 0 .. Cells - 1
    PROVE  LET r == Store(s, c) IN
           /\ r \in Screens /\ r.x = s.x /\ r.y = s.y /\ SameBeyond(s.video, r.video)
           /\ Face(r.video) = [Face(s.video) EXCEPT ![Position(s)] = c]
<1>1. s.video \in [Address -> Ink]
  BY DEF Screens
<1> DEFINE k == Position(s)
           w == [s.video EXCEPT ![k] = c]
<1>2. w \in [Address -> Ink] /\ Face(w) = [Face(s.video) EXCEPT ![k] = c] /\ SameBeyond(s.video, w)
  BY <1>1, FaceStored DEF SameBeyond
<1>3. Store(s, c) = At(w, s.x, s.y) /\ s.x \in Int /\ s.y \in Int
  BY DEF Store, Screens, At
<1> HIDE DEF w, k
<1>4. QED BY <1>2, <1>3, AtScreens DEF k

\* putc moves the coordinates as the paper does.
LEMMA MoveTyped ==
    ASSUME NEW s \in Screens, NEW p \in Paper, Rest(Face(s.video), s.x, s.y, p),
           NEW c \in Char, c = "NL" => s.x >= 0
    PROVE  LET m == Move(s, c) IN
           /\ m \in Screens /\ SameBeyond(s.video, m.video)
           /\ Typed(p, c) \in Paper /\ Tested(Face(m.video), m.x, m.y, Typed(p, c))
<1> DEFINE q == Typed(p, c)
           f == Face(s.video)
<1>1. s.x \in Int /\ s.y \in Int /\ SameBeyond(s.video, s.video)
      /\ s = At(s.video, s.x, s.y) /\ s.video \in [Address -> Ink]
  BY ScreensAt DEF SameBeyond
<1>2. CASE c = "NL"
  <2>1. YPlus(s, 1) = At(s.video, s.x, s.y + 1)
    BY Moved
  <2>2. Move(s, c) = At(s.video, 0, s.y + 1)
    BY <1>2, <2>1 DEF Move, At
  <2>3. q \in Paper /\ Tested(f, 0, s.y + 1, q)
    BY <1>2, NewlineTyped
  <2>4. s.y + 1 \in Int
    BY <1>1
  <2> DEFINE m == At(s.video, 0, s.y + 1)
  <2>5. m \in Screens /\ m.video = s.video /\ m.x = 0 /\ m.y = s.y + 1
    BY <1>1, <2>4, AtScreens
  <2> HIDE DEF m, q, f
  <2>6. QED BY <1>1, <2>2, <2>3, <2>5 DEF m, q, f
<1>3. CASE c = "BS"
  <2>1. q \in Paper
    BY <1>3, BackspaceTyped
  <2>2. CASE s.x = 0 /\ s.y = 0
    <3>1. Move(s, c) = s
      BY <1>3, <2>2 DEF Move
    <3>2. Tested(f, s.x, s.y, q)
      BY <1>3, <2>2, BackspaceTyped
    <3>3. QED BY <1>1, <2>1, <3>1, <3>2
  <2>3. CASE ~(s.x = 0 /\ s.y = 0)
    <3> DEFINE x == Mod(s.x - 1, NUM_COLS)
               y == s.y + Div(s.x - 1, NUM_COLS)
               m == At(s.video, x, y)
    <3>1. Erased(f, x, y, q)
      BY <1>3, <2>3, BackspaceTyped
    <3>2. s.x + (-1) = s.x - 1
      BY <1>1
    <3>3. ModColumn(CarryRow(XPlus(s, -1))) = m
      <4>1. XPlus(s, -1) = At(s.video, s.x - 1, s.y)
        BY <3>2, Moved
      <4>2. QED BY <4>1, Coordinates
    <3>4. Move(s, c) = Store(m, Blank)
      BY <1>3, <2>3, <3>3 DEF Move
    <3> HIDE DEF x, y
    <3>5. x \in Int /\ y \in Int
      BY <3>1, Sizes DEF Erased, Tested, Column
    <3>m. m \in Screens /\ m.video = s.video /\ m.x = x /\ m.y = y
      BY <1>1, <3>5, AtScreens
    <3>6. m \in Screens /\ m.video = s.video /\ m.x = x /\ m.y = y
          /\ Position(m) = NUM_COLS * y + x
      BY <3>m DEF Position
    <3>7. Position(m) \in 0 .. Cells - 1
          /\ Tested([f EXCEPT ![Position(m)] = Blank], x, y, q)
      BY <3>1, <3>6 DEF Erased
    <3> HIDE DEF m
    <3>8. Blank \in Ink
      BY DEF Ink
    <3>9. QED BY <2>1, <3>4, <3>6, <3>7, <3>8, Stored
  <2>4. QED BY <2>2, <2>3
<1>4. CASE c \notin {"NL", "BS"}
  <2>1. c \in Letter /\ c \in Ink
    BY <1>4 DEF Char, Ink
  <2>2. q \in Paper /\ Lettered(f, s.x, s.y, c, q)
    BY <2>1, LetterTyped
  <2> DEFINE k == Position(s)
             r == Store(s, c)
             x == Mod(s.x + 1, NUM_COLS)
             y == s.y + Div(s.x + 1, NUM_COLS)
  <2>3. k \in 0 .. Cells - 1 /\ Tested([f EXCEPT ![k] = c], x, y, q)
    BY <2>2 DEF Lettered, Position
  <2>4. r \in Screens /\ r.x = s.x /\ r.y = s.y /\ SameBeyond(s.video, r.video)
        /\ Face(r.video) = [f EXCEPT ![k] = c]
    BY <2>1, <2>3, Stored
  <2>5. x \in Int /\ y \in Int
    BY <2>3, Sizes DEF Tested, Column
  <2>6. Move(s, c) = ModColumn(CarryRow(XPlus(r, 1)))
    BY <1>4 DEF Move
  <2>7. ModColumn(CarryRow(XPlus(r, 1))) = At(r.video, x, y)
    <3> HIDE DEF r
    <3>1. XPlus(r, 1) = At(r.video, s.x + 1, s.y)
      BY <2>4, Moved
    <3>2. QED BY <3>1, Coordinates
  <2> HIDE DEF r, x, y
  <2> DEFINE m == At(r.video, x, y)
  <2>8. m \in Screens /\ m.video = r.video /\ m.x = x /\ m.y = y
    BY <2>4, <2>5, AtScreens DEF Screens
  <2>9. Move(s, c) = m
    BY <2>6, <2>7
  <2> HIDE DEF m
  <2>10. QED BY <2>2, <2>3, <2>4, <2>8, <2>9
<1>5. QED BY <1>2, <1>3, <1>4

\* putc in the keyboard handler types its character.
LEMMA PutcTyped ==
    ASSUME NEW s \in Screens, NEW p \in Paper, Rest(Face(s.video), s.x, s.y, p),
           NEW c \in Char, c = "NL" => s.x >= 0
    PROVE  LET r == putc(s, c) IN
           /\ r \in Screens /\ SameBeyond(s.video, r.video)
           /\ Typed(p, c) \in Paper /\ Rest(Face(r.video), r.x, r.y, Typed(p, c))
<1> DEFINE m == Move(s, c)
           r == IF PastEnd(m) THEN scrollDown(m) ELSE m
<1>1. m \in Screens /\ SameBeyond(s.video, m.video) /\ Typed(p, c) \in Paper
      /\ Tested(Face(m.video), m.x, m.y, Typed(p, c))
  BY MoveTyped
<1>2. putc(s, c) = r
  BY DEF putc
<1> HIDE DEF m
<1>3. r \in Screens /\ SameBeyond(m.video, r.video) /\ Rest(Face(r.video), r.x, r.y, Typed(p, c))
  BY <1>1, Ended
<1>4. SameBeyond(s.video, r.video)
  BY <1>1, <1>3 DEF SameBeyond
<1>5. QED BY <1>1, <1>2, <1>3, <1>4

-----------------------------------------------------------------------------
(* The invariant *)

X(t) == IF t = currentTerminal THEN screen.x ELSE saved[t].x
Y(t) == IF t = currentTerminal THEN screen.y ELSE saved[t].y

SettingCursor == {"index_low", "low", "index_high", "high"}
AtRest == {"idle", "next", "cursor"} \union SettingCursor

\* What a character leaves when the columns are right: a blank to store, or the test.
Landed(f, x, y, c, p) == IF c = "BS" THEN Erased(f, x, y, p) ELSE Tested(f, x, y, p)
Carried(f, x, y, c, p) == Landed(f, Mod(x, NUM_COLS), y + Div(x, NUM_COLS), c, p)

\* The rest of putc, from each statement on, ends on the paper.
Doing(f, x, y, w, p) ==
    /\ w.pc \in AtRest => Rest(f, x, y, p)
    /\ w.pc \in SettingCursor => w.position = p.at
    /\ w.pc = "store" => w.c \in Letter /\ Lettered(f, x, y, w.c, p)
    /\ w.pc = "x" => x \in Column /\ y \in 0 .. NUM_ROWS - 1
                     /\ Carried(f, x + (IF w.c = "BS" THEN -1 ELSE 1), y, w.c, p)
    /\ w.pc = "y" => Carried(f, x, y, w.c, p)
    /\ w.pc = "mod" => Landed(f, Mod(x, NUM_COLS), y, w.c, p)
    /\ w.pc = "blank" => Erased(f, x, y, p)
    /\ w.pc = "nl_y" => Tested(f, 0, y + 1, p)
    /\ w.pc = "nl_x" => Tested(f, 0, y, p)
    /\ w.pc = "test" => Tested(f, x, y, p)
    /\ w.pc = "scroll" => Scrolling(f, w.i, p)
    /\ w.pc = "scroll_y" => f = p.cells /\ x = 0 /\ p.at = Cells - NUM_COLS

\* The bytes of the cursor's position, and which of them are in its registers already.
LowByte(n) == n % CursorByte
HighByte(n) == (n \div CursorByte) % CursorByte

CursorOK(label, r, n) ==
    /\ label \in {"idle", "next"} => r.low = LowByte(n) /\ r.high = HighByte(n)
    /\ label = "low" => r.index = "low" \/ r.low = LowByte(n)
    /\ label = "index_high" => r.low = LowByte(n)
    /\ label = "high" => r.low = LowByte(n) /\ r.index = "high"

Inv ==
    /\ TypeOK
    /\ \A t \in Term : Doing(Shown(t), X(t), Y(t), writer[t], paper[t])
    /\ CursorOK(pc, crt, paper[currentTerminal].at)

-----------------------------------------------------------------------------
(* Steps of the displayed terminal *)

Crts == [index : {"low", "high"}, low : 0 .. CursorByte - 1, high : 0 .. CursorByte - 1]
Writers == [pc : Labels, c : Char, i : 0 .. Cells, position : Nat]
Near(s) == s.x \in -NUM_COLS .. NUM_COLS /\ s.y \in 0 .. NUM_ROWS

\* The two register bytes give the position back.
LEMMA Bytes ==
    ASSUME NEW n \in 0 .. Cells - 1
    PROVE  /\ LowByte(n) \in 0 .. CursorByte - 1 /\ HighByte(n) \in 0 .. CursorByte - 1
           /\ CursorByte * HighByte(n) + LowByte(n) = n
<1>1. CursorByte \in Nat /\ Cells \in Nat /\ Cells <= CursorByte * CursorByte
  BY SizeAssumption, Sizes
<1>2. CursorByte # 0 /\ n \in Nat /\ n < CursorByte * CursorByte
  BY <1>1
<1> DEFINE d == n \div CursorByte
           m == n % CursorByte
<1>3. d \in Nat /\ m \in 0 .. CursorByte - 1 /\ n = CursorByte * d + m
  BY <1>1, <1>2
<1>4. d < CursorByte
  <2>1. SUFFICES ASSUME ~(d < CursorByte) PROVE FALSE
    OBVIOUS
  <2> HIDE DEF d, m
  <2>2. CursorByte * d >= CursorByte * CursorByte
    BY <1>1, <1>3, <2>1
  <2>3. CursorByte * d \in Nat /\ CursorByte * CursorByte \in Nat
    BY <1>1, <1>3
  <2> DEFINE a == CursorByte * d
             b == CursorByte * CursorByte
  <2>4. a \in Nat /\ b \in Nat /\ a >= b /\ n < b /\ n = a + m
    BY <1>2, <1>3, <2>2, <2>3
  <2> HIDE DEF a, b
  <2>5. QED BY <1>1, <1>3, <2>4
<1> HIDE DEF d, m
<1>5. d % CursorByte = d
  BY <1>1, <1>3, <1>4
<1>6. LowByte(n) = m /\ HighByte(n) = d
  BY <1>5 DEF LowByte, HighByte, d, m
<1>7. QED BY <1>1, <1>3, <1>4, <1>6

\* setCursor puts the position in the registers.
LEMMA CursorSet ==
    ASSUME NEW s, NEW label, Position(s) \in 0 .. Cells - 1
    PROVE  setCursor(s) \in Crts /\ CursorOK(label, setCursor(s), Position(s))
<1> DEFINE n == Position(s)
<1>1. setCursor(s) = [index |-> "high", low |-> LowByte(n), high |-> HighByte(n)]
  BY DEF setCursor, LowByte, HighByte
<1>2. LowByte(n) \in 0 .. CursorByte - 1 /\ HighByte(n) \in 0 .. CursorByte - 1
  BY Bytes
<1> HIDE DEF n
<1>3. QED BY <1>1, <1>2 DEF Crts, CursorOK, n

\* The pages of the terminals off the screen, beyond the displayed one and apart.
LEMMA Pages ==
    ASSUME NEW t \in Term
    PROVE  /\ SavedPage(t) \in Nat /\ SavedPage(t) >= PageCells
           /\ \A i \in 0 .. PageCells - 1 : SavedPage(t) + i \in Address
           /\ \A u \in Term : u # t => \/ SavedPage(u) + PageCells <= SavedPage(t)
                                       \/ SavedPage(t) + PageCells <= SavedPage(u)
<1>1. PageCells \in Nat /\ MAX_TERMINAL_NUMBER \in Nat \ {0}
  BY SizeAssumption
<1>2. t \in Nat /\ t + 1 <= MAX_TERMINAL_NUMBER
  BY <1>1 DEF Term
<1>3. \A i, j \in Nat : i * j \in Nat
  OBVIOUS
<1>4. ASSUME NEW a \in Nat, NEW b \in Nat, a < b
      PROVE  a * PageCells + PageCells <= b * PageCells
             /\ a * PageCells \in Nat /\ b * PageCells \in Nat
  <2>1. b * PageCells = (b - a - 1) * PageCells + (a * PageCells + PageCells)
    BY <1>1
  <2>2. b - a - 1 \in Nat
    BY <1>4
  <2>3. (b - a - 1) * PageCells \in Nat /\ a * PageCells \in Nat /\ b * PageCells \in Nat
    BY <1>1, <1>3, <2>2
  <2> DEFINE i == (b - a - 1) * PageCells
             j == a * PageCells
             k == b * PageCells
  <2>4. i \in Nat /\ j \in Nat /\ k \in Nat /\ k = i + (j + PageCells)
    BY <2>1, <2>3
  <2> HIDE DEF i, j, k
  <2>5. j + PageCells <= k
    BY <1>1, <2>4
  <2>6. QED BY <2>3, <2>5 DEF i, j, k
<1>5. SavedPage(t) \in Nat /\ SavedPage(t) >= PageCells
  <2>1. 0 < t + 1 /\ t + 1 \in Nat
    BY <1>2
  <2>2. 0 * PageCells + PageCells <= SavedPage(t) /\ SavedPage(t) \in Nat
    BY <1>4, <2>1 DEF SavedPage
  <2>3. 0 * PageCells = 0
    BY <1>1
  <2>4. QED BY <1>1, <2>2, <2>3
<1>6. ASSUME NEW i \in 0 .. PageCells - 1 PROVE SavedPage(t) + i \in Address
  <2> DEFINE n == (MAX_TERMINAL_NUMBER + 1) * PageCells
  <2>1. t + 1 < MAX_TERMINAL_NUMBER + 1 /\ t + 1 \in Nat /\ MAX_TERMINAL_NUMBER + 1 \in Nat
    BY <1>1, <1>2
  <2>2. SavedPage(t) + PageCells <= n /\ n \in Nat
    BY <1>4, <2>1 DEF SavedPage
  <2>3. Address = 0 .. n - 1
    BY DEF Address
  <2> HIDE DEF n
  <2>4. QED BY <1>1, <1>5, <2>2, <2>3
<1>7. ASSUME NEW u \in Term, u # t
      PROVE  \/ SavedPage(u) + PageCells <= SavedPage(t)
             \/ SavedPage(t) + PageCells <= SavedPage(u)
  <2>1. u + 1 \in Nat /\ t + 1 \in Nat /\ (u + 1 < t + 1 \/ t + 1 < u + 1)
    BY <1>1, <1>2, <1>7 DEF Term
  <2>2. QED BY <1>4, <2>1 DEF SavedPage
<1>8. QED BY <1>5, <1>6, <1>7

\* A step of the displayed terminal: its program's statement or a handler on its screen.
\* No other terminal is touched.
LEMMA OnDisplay ==
    ASSUME Inv, saved' = saved, currentTerminal' = currentTerminal,
           screen' \in Screens, Near(screen'), SameBeyond(screen.video, screen'.video),
           NEW w \in Writers, writer' = [writer EXCEPT ![currentTerminal] = w],
           NEW p \in Paper, paper' = [paper EXCEPT ![currentTerminal] = p],
           crt' \in Crts, chars' \in 0 .. MaxChars,
           Doing(Face(screen'.video), screen'.x, screen'.y, w, p),
           CursorOK(w.pc, crt', p.at)
    PROVE  Inv'
<1>1. /\ currentTerminal \in Term
      /\ writer \in [Term -> Writers] /\ paper \in [Term -> Paper]
  BY DEF Inv, TypeOK, Writers, Paper, Ink
<1>2. /\ writer'[currentTerminal] = w /\ paper'[currentTerminal] = p
      /\ writer' \in [Term -> Writers] /\ paper' \in [Term -> Paper]
      /\ \A t \in Term : t # currentTerminal => writer'[t] = writer[t] /\ paper'[t] = paper[t]
  BY <1>1
<1>3. TypeOK'
  <2>1. screen' \in [video : [Address -> Letter \union {Blank}],
                     x : -NUM_COLS .. NUM_COLS, y : 0 .. NUM_ROWS]
    BY DEF Screens, Near, Ink
  <2>2. /\ saved' \in [Term -> [x : -NUM_COLS .. NUM_COLS, y : 0 .. NUM_ROWS]]
        /\ currentTerminal' \in Term
    BY DEF Inv, TypeOK
  <2>3. QED BY <1>2, <2>1, <2>2 DEF TypeOK, Crts, Writers, Paper, Ink
<1>4. ASSUME NEW t \in Term
      PROVE  Doing(Shown(t)', X(t)', Y(t)', writer'[t], paper'[t])
  <2>1. CASE t = currentTerminal
    <3>1. Shown(t)' = Face(screen'.video)
      BY <2>1, Sizes DEF Shown, PageStart, Face
    <3>2. X(t)' = screen'.x /\ Y(t)' = screen'.y
      BY <2>1 DEF X, Y
    <3>3. QED BY <1>2, <2>1, <3>1, <3>2
  <2>2. CASE t # currentTerminal
    <3>1. \A i \in 0 .. Cells - 1 : screen'.video[SavedPage(t) + i] = screen.video[SavedPage(t) + i]
      <4>1. Cells \in Nat /\ PageCells \in Nat /\ Cells <= PageCells
        BY Sizes, Addresses
      <4>2. SavedPage(t) \in Nat /\ SavedPage(t) >= PageCells
            /\ \A i \in 0 .. PageCells - 1 : SavedPage(t) + i \in Address
        BY Pages
      <4>3. ASSUME NEW i \in 0 .. Cells - 1
            PROVE  SavedPage(t) + i \in Address /\ SavedPage(t) + i >= Cells
        <5>1. i \in 0 .. PageCells - 1 /\ i \in Nat
          BY <4>1
        <5>2. QED BY <4>1, <4>2, <5>1
      <4>4. QED BY <4>3 DEF SameBeyond
    <3>2. Shown(t)' = Shown(t)
      BY <2>2, <3>1 DEF Shown, PageStart
    <3>3. X(t)' = X(t) /\ Y(t)' = Y(t)
      BY <2>2 DEF X, Y
    <3>4. Doing(Shown(t), X(t), Y(t), writer[t], paper[t])
      BY DEF Inv
    <3>5. QED BY <1>2, <2>2, <3>2, <3>3, <3>4
  <2>3. QED BY <2>1, <2>2
<1>5. CursorOK(pc', crt', paper'[currentTerminal].at)
  BY <1>2 DEF pc
<1>6. QED BY <1>3, <1>4, <1>5 DEF Inv

\* The invariant again, and nothing stored beyond the visible cells.
Kept == Inv' /\ SameBeyond(screen.video, screen'.video)

writing == writer[currentTerminal]
sheet == paper[currentTerminal]
face == Face(screen.video)

\* What the invariant says of the displayed terminal.
LEMMA Displayed ==
    ASSUME Inv
    PROVE  /\ screen \in Screens /\ Near(screen) /\ SameBeyond(screen.video, screen.video)
           /\ currentTerminal \in Term /\ writing \in Writers /\ sheet \in Paper
           /\ crt \in Crts /\ chars \in 0 .. MaxChars
           /\ Doing(face, screen.x, screen.y, writing, sheet)
           /\ CursorOK(pc, crt, sheet.at) /\ pc = writing.pc
<1>1. /\ screen \in Screens /\ Near(screen) /\ currentTerminal \in Term
      /\ writing \in Writers /\ sheet \in Paper /\ crt \in Crts /\ chars \in 0 .. MaxChars
  <2>1. screen.x \in -NUM_COLS .. NUM_COLS /\ screen.y \in 0 .. NUM_ROWS
        /\ screen.x \in Int /\ screen.y \in Int
    BY Sizes DEF Inv, TypeOK
  <2>2. screen \in Screens /\ Near(screen)
    BY <2>1 DEF Inv, TypeOK, Screens, Near, Ink
  <2>3. QED BY <2>2 DEF Inv, TypeOK, Writers, Paper, Ink, Crts, writing, sheet
<1>2. Shown(currentTerminal) = face
  BY Sizes DEF Shown, PageStart, Face, face
<1>3. X(currentTerminal) = screen.x /\ Y(currentTerminal) = screen.y
  BY DEF X, Y
<1>4. Doing(Shown(currentTerminal), X(currentTerminal), Y(currentTerminal), writing, sheet)
  BY <1>1 DEF Inv, writing, sheet
<1>5. CursorOK(pc, crt, sheet.at) /\ pc = writing.pc
  BY DEF Inv, sheet, writing, pc
<1>6. QED BY <1>1, <1>2, <1>3, <1>4, <1>5 DEF SameBeyond

\* The labels at which the cursor's registers may hold anything.
Unset == Labels \ {"idle", "next", "low", "index_high", "high"}

\* A statement of putc that leaves the cursor registers alone keeps the invariant
\* if the rest of putc still ends on the paper.
LEMMA StatementKept ==
    ASSUME Inv, NEW from, NEW to \in Unset, NEW s \in Screens, Statement(from, to, s), Near(s),
           SameBeyond(screen.video, s.video),
           Doing(Face(s.video), s.x, s.y, [writing EXCEPT !.pc = to], sheet)
    PROVE  Kept
<1> DEFINE w == [writing EXCEPT !.pc = to]
<1>1. /\ currentTerminal \in Term /\ writing \in Writers /\ sheet \in Paper
      /\ crt \in Crts /\ chars \in 0 .. MaxChars
  BY Displayed
<1>2. w \in Writers /\ w.pc = to
  BY <1>1 DEF Writers, Unset
<1>3. /\ screen' = s /\ saved' = saved /\ currentTerminal' = currentTerminal /\ crt' = crt
      /\ chars' = chars /\ paper' = paper
      /\ writer' = [writer EXCEPT ![currentTerminal].pc = to]
  BY DEF Statement, Quiet, Goto
<1>4. writer \in [Term -> Writers] /\ paper \in [Term -> Paper]
  BY DEF Inv, TypeOK, Writers, Paper, Ink
<1>5. writer' = [writer EXCEPT ![currentTerminal] = w]
  BY <1>3, <1>4 DEF writing
<1>6. paper' = [paper EXCEPT ![currentTerminal] = sheet]
  BY <1>3, <1>4 DEF sheet
<1>7. CursorOK(w.pc, crt, sheet.at)
  BY <1>2 DEF CursorOK, Unset
<1> HIDE DEF w
<1>8. Doing(Face(s.video), s.x, s.y, w, sheet)
  BY DEF w
<1>9. Inv'
  BY <1>1, <1>2, <1>3, <1>5, <1>6, <1>7, <1>8, OnDisplay
<1>10. QED BY <1>3, <1>9 DEF Kept

LEMMA LandedNear ==
    ASSUME NEW f, NEW x, NEW y, NEW c, NEW p, Landed(f, x, y, c, p)
    PROVE  x \in Column /\ y \in 0 .. NUM_ROWS /\ x \in -NUM_COLS .. NUM_COLS
           /\ x \in Int /\ y \in Int
<1>1. x \in Column /\ y \in 0 .. NUM_ROWS
  BY DEF Landed, Erased, Tested
<1>2. QED BY <1>1, Sizes DEF Column

\* The statement reached and no other condition applies.
LEMMA DoingAt ==
    ASSUME NEW f, NEW x, NEW y, NEW w \in Writers, NEW p
    PROVE  LET v(label) == [w EXCEPT !.pc = label] IN
           /\ x \in Column /\ y \in 0 .. NUM_ROWS - 1
              /\ Carried(f, x + (IF w.c = "BS" THEN -1 ELSE 1), y, w.c, p)
              => Doing(f, x, y, v("x"), p)
           /\ Carried(f, x, y, w.c, p) => Doing(f, x, y, v("y"), p)
           /\ Landed(f, Mod(x, NUM_COLS), y, w.c, p) => Doing(f, x, y, v("mod"), p)
           /\ Erased(f, x, y, p) => Doing(f, x, y, v("blank"), p)
           /\ Tested(f, 0, y, p) => Doing(f, x, y, v("nl_x"), p)
           /\ Tested(f, x, y, p) => Doing(f, x, y, v("test"), p)
           /\ f = p.cells /\ x = 0 /\ p.at = Cells - NUM_COLS => Doing(f, x, y, v("scroll_y"), p)
           /\ Rest(f, x, y, p) => Doing(f, x, y, v("cursor"), p)
<1> DEFINE v(label) == [w EXCEPT !.pc = label]
<1>1. \A label : v(label).pc = label /\ v(label).c = w.c
  BY DEF Writers
<1> HIDE DEF v
<1>2. /\ x \in Column /\ y \in 0 .. NUM_ROWS - 1
         /\ Carried(f, x + (IF w.c = "BS" THEN -1 ELSE 1), y, w.c, p)
         => Doing(f, x, y, v("x"), p)
      /\ Carried(f, x, y, w.c, p) => Doing(f, x, y, v("y"), p)
      /\ Landed(f, Mod(x, NUM_COLS), y, w.c, p) => Doing(f, x, y, v("mod"), p)
  BY <1>1 DEF Doing, AtRest, SettingCursor
<1>3. /\ Erased(f, x, y, p) => Doing(f, x, y, v("blank"), p)
      /\ Tested(f, 0, y, p) => Doing(f, x, y, v("nl_x"), p)
      /\ Tested(f, x, y, p) => Doing(f, x, y, v("test"), p)
  BY <1>1 DEF Doing, AtRest, SettingCursor
<1>4. /\ f = p.cells /\ x = 0 /\ p.at = Cells - NUM_COLS => Doing(f, x, y, v("scroll_y"), p)
      /\ Rest(f, x, y, p) => Doing(f, x, y, v("cursor"), p)
  BY <1>1 DEF Doing, AtRest, SettingCursor
<1>5. QED BY <1>2, <1>3, <1>4 DEF v

-----------------------------------------------------------------------------
(* The statements of putc *)

\* The statements of putc, one by one.
LEMMA PutcStoreKept ==
    ASSUME Inv, PutcStore
    PROVE  Kept
<1> DEFINE c == writing.c
           s == Store(screen, c)
<1>1. Statement("store", "x", s) /\ pc = "store"
  BY DEF PutcStore, Statement, writing
<1>2. /\ screen \in Screens /\ writing \in Writers /\ Near(screen)
      /\ c \in Letter /\ Lettered(face, screen.x, screen.y, c, sheet)
  BY <1>1, Displayed DEF Doing
<1>3. /\ Position(screen) \in 0 .. Cells - 1 /\ screen.x \in Column /\ screen.y \in 0 .. NUM_ROWS - 1
      /\ Tested([face EXCEPT ![Position(screen)] = c], Mod(screen.x + 1, NUM_COLS),
                screen.y + Div(screen.x + 1, NUM_COLS), sheet)
  BY <1>2 DEF Lettered, Position
<1>4. /\ s \in Screens /\ s.x = screen.x /\ s.y = screen.y /\ SameBeyond(screen.video, s.video)
      /\ Face(s.video) = [face EXCEPT ![Position(screen)] = c]
  BY <1>2, <1>3, Stored DEF Ink, face
<1>5. c # "BS"
  BY <1>2 DEF Letter
<1> HIDE DEF s
<1>6. Carried(Face(s.video), s.x + (IF c = "BS" THEN -1 ELSE 1), s.y, c, sheet)
  BY <1>3, <1>4, <1>5 DEF Carried, Landed
<1>7. Doing(Face(s.video), s.x, s.y, [writing EXCEPT !.pc = "x"], sheet)
  BY <1>2, <1>3, <1>4, <1>6, DoingAt
<1>8. "x" \in Unset /\ Near(s)
  BY <1>2, <1>4 DEF Unset, Labels, Near
<1>9. QED BY <1>1, <1>4, <1>7, <1>8, StatementKept

LEMMA PutcXKept ==
    ASSUME Inv, PutcX
    PROVE  Kept
<1> DEFINE d == IF writing.c = "BS" THEN -1 ELSE 1
           s == At(screen.video, screen.x + d, screen.y)
<1>1. /\ screen \in Screens /\ writing \in Writers /\ Near(screen)
      /\ SameBeyond(screen.video, screen.video)
      /\ pc = "x" => screen.x \in Column /\ Carried(face, screen.x + d, screen.y, writing.c, sheet)
  BY Displayed DEF Doing
<1>2. pc = "x" /\ Statement("x", "y", s)
  <2>1. XPlus(screen, d) = s
    BY <1>1, Moved
  <2>2. Statement("x", "y", XPlus(screen, d))
    BY DEF PutcX, Erasing, writing
  <2>3. QED BY <2>1, <2>2 DEF Statement
<1>3. screen.x + d \in -NUM_COLS .. NUM_COLS /\ screen.x + d \in Int /\ screen.y \in Int
  BY <1>1, <1>2, Sizes DEF Column, Screens
<1> HIDE DEF d
<1>4. s \in Screens /\ s.video = screen.video /\ s.x = screen.x + d /\ s.y = screen.y
  BY <1>1, <1>3, ScreensAt, AtScreens
<1> HIDE DEF s
<1>5. Near(s)
  BY <1>1, <1>3, <1>4 DEF Near
<1>6. Doing(Face(s.video), s.x, s.y, [writing EXCEPT !.pc = "y"], sheet)
  BY <1>1, <1>2, <1>4, DoingAt DEF face
<1>7. "y" \in Unset
  BY DEF Unset, Labels
<1>8. QED BY <1>1, <1>2, <1>4, <1>5, <1>6, <1>7, StatementKept

LEMMA PutcYKept ==
    ASSUME Inv, PutcY
    PROVE  Kept
<1> DEFINE y == screen.y + Div(screen.x, NUM_COLS)
           s == At(screen.video, screen.x, y)
<1>1. /\ screen \in Screens /\ writing \in Writers /\ Near(screen)
      /\ SameBeyond(screen.video, screen.video)
      /\ pc = "y" => Carried(face, screen.x, screen.y, writing.c, sheet)
  BY Displayed DEF Doing
<1>2. pc = "y" /\ Statement("y", "mod", s)
  BY <1>1, Moved DEF PutcY, Statement
<1>3. Landed(face, Mod(screen.x, NUM_COLS), y, writing.c, sheet)
  BY <1>1, <1>2 DEF Carried
<1> HIDE DEF y
<1>4. y \in 0 .. NUM_ROWS /\ y \in Int /\ screen.x \in Int
  BY <1>1, <1>3, LandedNear, ScreensAt
<1>5. s \in Screens /\ s.video = screen.video /\ s.x = screen.x /\ s.y = y
  BY <1>1, <1>4, ScreensAt, AtScreens
<1> HIDE DEF s
<1>6. Near(s)
  BY <1>1, <1>4, <1>5 DEF Near
<1>7. Doing(Face(s.video), s.x, s.y, [writing EXCEPT !.pc = "mod"], sheet)
  BY <1>1, <1>3, <1>5, DoingAt DEF face
<1>8. "mod" \in Unset
  BY DEF Unset, Labels
<1>9. QED BY <1>1, <1>2, <1>5, <1>6, <1>7, <1>8, StatementKept

LEMMA PutcModKept ==
    ASSUME Inv, PutcMod
    PROVE  Kept
<1> DEFINE x == Mod(screen.x, NUM_COLS)
           s == At(screen.video, x, screen.y)
           to == IF writing.c = "BS" THEN "blank" ELSE "test"
<1>1. /\ screen \in Screens /\ writing \in Writers /\ Near(screen)
      /\ SameBeyond(screen.video, screen.video)
      /\ pc = "mod" => Landed(face, x, screen.y, writing.c, sheet)
  BY Displayed DEF Doing
<1>2. pc = "mod" /\ Statement("mod", to, s)
  <2>1. ModColumn(screen) = s
    BY <1>1, Moved
  <2>2. Statement("mod", to, ModColumn(screen))
    BY DEF PutcMod, Erasing, writing
  <2>3. QED BY <2>1, <2>2 DEF Statement
<1>3. Landed(face, x, screen.y, writing.c, sheet)
  BY <1>1, <1>2
<1> HIDE DEF x
<1>4. x \in -NUM_COLS .. NUM_COLS /\ x \in Int /\ screen.y \in Int
  BY <1>1, <1>3, LandedNear, ScreensAt
<1>5. s \in Screens /\ s.video = screen.video /\ s.x = x /\ s.y = screen.y
  BY <1>1, <1>4, ScreensAt, AtScreens
<1> HIDE DEF s
<1>6. Near(s)
  BY <1>1, <1>4, <1>5 DEF Near
<1>7. Doing(Face(s.video), s.x, s.y, [writing EXCEPT !.pc = to], sheet)
  <2>1. CASE writing.c = "BS"
    BY <1>1, <1>3, <1>5, <2>1, DoingAt DEF face, Landed
  <2>2. CASE writing.c # "BS"
    BY <1>1, <1>3, <1>5, <2>2, DoingAt DEF face, Landed
  <2>3. QED BY <2>1, <2>2
<1>8. to \in Unset
  BY DEF Unset, Labels
<1>9. QED BY <1>1, <1>2, <1>5, <1>6, <1>7, <1>8, StatementKept

LEMMA PutcBlankKept ==
    ASSUME Inv, PutcBlank
    PROVE  Kept
<1> DEFINE s == Store(screen, Blank)
<1>1. /\ screen \in Screens /\ writing \in Writers /\ Near(screen)
      /\ pc = "blank" => Erased(face, screen.x, screen.y, sheet)
  BY Displayed DEF Doing
<1>2. pc = "blank" /\ Statement("blank", "test", s)
  BY DEF PutcBlank, Statement
<1>3. /\ Position(screen) \in 0 .. Cells - 1
      /\ Tested([face EXCEPT ![Position(screen)] = Blank], screen.x, screen.y, sheet)
  BY <1>1, <1>2 DEF Erased, Position
<1>4. /\ s \in Screens /\ s.x = screen.x /\ s.y = screen.y /\ SameBeyond(screen.video, s.video)
      /\ Face(s.video) = [face EXCEPT ![Position(screen)] = Blank]
  BY <1>1, <1>3, Stored DEF Ink, face
<1> HIDE DEF s
<1>5. Doing(Face(s.video), s.x, s.y, [writing EXCEPT !.pc = "test"], sheet)
  BY <1>1, <1>3, <1>4, DoingAt
<1>6. "test" \in Unset /\ Near(s)
  BY <1>1, <1>4 DEF Unset, Labels, Near
<1>7. QED BY <1>2, <1>4, <1>5, <1>6, StatementKept

LEMMA PutcNewlineYKept ==
    ASSUME Inv, PutcNewlineY
    PROVE  Kept
<1> DEFINE y == screen.y + 1
           s == At(screen.video, screen.x, y)
<1>1. /\ screen \in Screens /\ writing \in Writers /\ Near(screen)
      /\ SameBeyond(screen.video, screen.video)
      /\ pc = "nl_y" => Tested(face, 0, y, sheet)
  BY Displayed DEF Doing
<1>2. pc = "nl_y" /\ Statement("nl_y", "nl_x", s)
  BY <1>1, Moved DEF PutcNewlineY, Statement
<1>3. Tested(face, 0, y, sheet)
  BY <1>1, <1>2
<1> HIDE DEF y
<1>4. y \in 0 .. NUM_ROWS /\ y \in Int /\ screen.x \in Int
  BY <1>1, <1>3, Sizes, ScreensAt DEF Tested
<1>5. s \in Screens /\ s.video = screen.video /\ s.x = screen.x /\ s.y = y
  BY <1>1, <1>4, ScreensAt, AtScreens
<1> HIDE DEF s
<1>6. Near(s)
  BY <1>1, <1>4, <1>5 DEF Near
<1>7. Doing(Face(s.video), s.x, s.y, [writing EXCEPT !.pc = "nl_x"], sheet)
  BY <1>1, <1>3, <1>5, DoingAt DEF face
<1>8. "nl_x" \in Unset
  BY DEF Unset, Labels
<1>9. QED BY <1>1, <1>2, <1>5, <1>6, <1>7, <1>8, StatementKept

LEMMA PutcNewlineXKept ==
    ASSUME Inv, PutcNewlineX
    PROVE  Kept
<1> DEFINE s == At(screen.video, 0, screen.y)
<1>1. /\ screen \in Screens /\ writing \in Writers /\ Near(screen)
      /\ SameBeyond(screen.video, screen.video)
      /\ pc = "nl_x" => Tested(face, 0, screen.y, sheet)
  BY Displayed DEF Doing
<1>2. pc = "nl_x" /\ Statement("nl_x", "test", s)
  <2>1. [screen EXCEPT !.x = 0] = s
    BY <1>1 DEF Screens, At
  <2>2. QED BY <2>1 DEF PutcNewlineX, Statement
<1>3. s \in Screens /\ s.video = screen.video /\ s.x = 0 /\ s.y = screen.y
  <2>1. 0 \in Int /\ screen.video \in [Address -> Ink] /\ screen.y \in Int
    BY <1>1, ScreensAt
  <2>2. QED BY <2>1, AtScreens
<1> HIDE DEF s
<1>4. Near(s)
  BY <1>1, <1>3, Sizes DEF Near
<1>5. Doing(Face(s.video), s.x, s.y, [writing EXCEPT !.pc = "test"], sheet)
  BY <1>1, <1>2, <1>3, DoingAt DEF face
<1>6. "test" \in Unset
  BY DEF Unset, Labels
<1>7. QED BY <1>1, <1>2, <1>3, <1>4, <1>5, <1>6, StatementKept

LEMMA ScrollEndsKept ==
    ASSUME Inv, ScrollEnds
    PROVE  Kept
<1> DEFINE y == NUM_ROWS - 1
           s == At(screen.video, screen.x, y)
<1>1. /\ screen \in Screens /\ writing \in Writers /\ Near(screen)
      /\ SameBeyond(screen.video, screen.video)
      /\ pc = "scroll_y" => face = sheet.cells /\ screen.x = 0 /\ sheet.at = Cells - NUM_COLS
  BY Displayed DEF Doing
<1>2. pc = "scroll_y" /\ Statement("scroll_y", "cursor", s)
  <2>1. [screen EXCEPT !.y = NUM_ROWS - 1] = s
    BY <1>1 DEF Screens, At
  <2>2. QED BY <2>1 DEF ScrollEnds, Statement
<1>3. Rest(face, 0, y, sheet)
  <2>1. NUM_COLS \in Nat /\ NUM_COLS > 1 /\ NUM_ROWS \in Nat /\ NUM_ROWS > 1
        /\ (NUM_ROWS - 1) * NUM_COLS = Cells - NUM_COLS
    BY Sizes
  <2>2. NUM_COLS * (NUM_ROWS - 1) + 0 = (NUM_ROWS - 1) * NUM_COLS
    BY <2>1
  <2>3. 0 \in Column /\ y \in 0 .. NUM_ROWS - 1
    BY <2>1 DEF Column
  <2>4. QED BY <1>1, <1>2, <2>1, <2>2, <2>3 DEF Rest
<1>4. y \in Int /\ y \in 0 .. NUM_ROWS
  BY Sizes
<1> HIDE DEF y
<1>5. s \in Screens /\ s.video = screen.video /\ s.x = 0 /\ s.y = y
  BY <1>1, <1>2, <1>4, ScreensAt, AtScreens
<1> HIDE DEF s
<1>6. Near(s)
  BY <1>1, <1>4, <1>5, Sizes DEF Near
<1>7. Doing(Face(s.video), s.x, s.y, [writing EXCEPT !.pc = "cursor"], sheet)
  BY <1>1, <1>3, <1>5, DoingAt DEF face
<1>8. "cursor" \in Unset
  BY DEF Unset, Labels
<1>9. QED BY <1>1, <1>2, <1>5, <1>6, <1>7, <1>8, StatementKept

\* A step that leaves the screen as it is.
LEMMA ControlKept ==
    ASSUME Inv, screen' = screen, saved' = saved, currentTerminal' = currentTerminal,
           NEW w \in Writers, writer' = [writer EXCEPT ![currentTerminal] = w],
           NEW p \in Paper, paper' = [paper EXCEPT ![currentTerminal] = p],
           crt' \in Crts, chars' \in 0 .. MaxChars,
           Doing(face, screen.x, screen.y, w, p), CursorOK(w.pc, crt', p.at)
    PROVE  Kept
<1>1. screen \in Screens /\ Near(screen) /\ SameBeyond(screen.video, screen.video)
  BY Displayed
<1>2. screen' \in Screens /\ Near(screen') /\ SameBeyond(screen.video, screen'.video)
  BY <1>1
<1>3. Doing(Face(screen'.video), screen'.x, screen'.y, w, p)
  BY DEF face
<1>4. Inv'
  BY <1>2, <1>3, OnDisplay
<1>5. QED BY <1>2, <1>4 DEF Kept

\* A step of control with the paper and the registers as they are.
LEMMA WriterKept ==
    ASSUME Inv, screen' = screen, crt' = crt, Quiet,
           NEW w \in Writers, writer' = [writer EXCEPT ![currentTerminal] = w],
           Doing(face, screen.x, screen.y, w, sheet), CursorOK(w.pc, crt, sheet.at)
    PROVE  Kept
<1>1. sheet \in Paper /\ crt \in Crts /\ chars \in 0 .. MaxChars
  BY Displayed
<1>2. paper' = [paper EXCEPT ![currentTerminal] = sheet]
  BY DEF sheet, Inv, TypeOK, Quiet
<1>3. saved' = saved /\ currentTerminal' = currentTerminal /\ chars' = chars
  BY DEF Quiet
<1>4. QED BY <1>1, <1>2, <1>3, ControlKept

\* Where a label leads when the writer's other fields stay.
LEMMA GotoKept ==
    ASSUME Inv, screen' = screen, crt' \in Crts, Quiet,
           NEW to \in Labels, Goto(to),
           Doing(face, screen.x, screen.y, [writing EXCEPT !.pc = to], sheet),
           CursorOK(to, crt', sheet.at)
    PROVE  Kept
<1> DEFINE w == [writing EXCEPT !.pc = to]
<1>1. sheet \in Paper /\ chars \in 0 .. MaxChars /\ writing \in Writers /\ currentTerminal \in Term
  BY Displayed
<1>2. w \in Writers /\ w.pc = to
  BY <1>1 DEF Writers
<1>3. writer' = [writer EXCEPT ![currentTerminal] = w]
  BY <1>1 DEF Goto, writing, Inv, TypeOK
<1>4. paper' = [paper EXCEPT ![currentTerminal] = sheet]
  BY DEF sheet, Inv, TypeOK, Quiet
<1>5. saved' = saved /\ currentTerminal' = currentTerminal /\ chars' = chars
  BY DEF Quiet
<1>6. Doing(face, screen.x, screen.y, w, sheet) /\ CursorOK(w.pc, crt', sheet.at)
  BY <1>2
<1> HIDE DEF w
<1>7. QED BY <1>1, <1>2, <1>3, <1>4, <1>5, <1>6, ControlKept

\* A terminal at rest, and what its registers hold once they are being set.
LEMMA RestDoing ==
    ASSUME NEW f, NEW x, NEW y, NEW w \in Writers, NEW p, Rest(f, x, y, p),
           NEW label \in AtRest, label \in SettingCursor => w.position = p.at
    PROVE  Doing(f, x, y, [w EXCEPT !.pc = label], p)
<1> DEFINE v == [w EXCEPT !.pc = label]
<1>1. v.pc = label /\ v.position = w.position
  BY DEF Writers
<1> HIDE DEF v
<1>2. Doing(f, x, y, v, p)
  BY <1>1 DEF Doing, AtRest, SettingCursor
<1>3. QED BY <1>2 DEF v

\* terminalWrite between two characters.
LEMMA WriteKept ==
    ASSUME Inv, terminalWrite \/ WriteReturns
    PROVE  Kept
<1>1. /\ writing \in Writers /\ crt \in Crts /\ pc = writing.pc /\ CursorOK(pc, crt, sheet.at)
      /\ pc \in {"idle", "next"} => Rest(face, screen.x, screen.y, sheet)
  BY Displayed DEF Doing, AtRest
<1>2. /\ pc \in {"idle", "next"} /\ screen' = screen /\ crt' = crt /\ Quiet
      /\ \E to \in {"idle", "next"} : Goto(to)
  BY DEF terminalWrite, WriteReturns
<1>3. PICK to \in {"idle", "next"} : Goto(to)
  BY <1>2
<1>4. to \in Labels /\ to \in AtRest /\ to \notin SettingCursor
  BY DEF Labels, AtRest, SettingCursor
<1>5. CursorOK(to, crt, sheet.at)
  BY <1>1, <1>2 DEF CursorOK
<1>6. QED BY <1>1, <1>2, <1>3, <1>4, <1>5, RestDoing, GotoKept

LEMMA PutcTestKept ==
    ASSUME Inv, PutcTest
    PROVE  Kept
<1> DEFINE to == IF PastEnd(screen) THEN "scroll" ELSE "cursor"
           w == [writing EXCEPT !.i = 0, !.pc = to]
<1>1. /\ writing \in Writers /\ screen.x \in Int /\ currentTerminal \in Term /\ crt \in Crts
      /\ pc = "test" => Tested(face, screen.x, screen.y, sheet)
  BY Displayed, ScreensAt DEF Doing
<1>2. pc = "test" /\ screen' = screen /\ crt' = crt /\ Quiet
      /\ writer' = [writer EXCEPT ![currentTerminal] = w]
  BY DEF PutcTest, writing, Inv, TypeOK
<1>3. to \in Labels /\ 0 \in 0 .. Cells
  BY Sizes DEF Labels
<1>4. w \in Writers /\ w.pc = to /\ w.i = 0
  <2> DEFINE v == [writing EXCEPT !.i = 0]
  <2> HIDE DEF to
  <2>1. v \in Writers /\ v.i = 0
    BY <1>1, <1>3 DEF Writers
  <2>2. w = [v EXCEPT !.pc = to]
    OBVIOUS
  <2> HIDE DEF v
  <2>3. QED BY <1>3, <2>1, <2>2 DEF Writers
<1>5. Tested(face, screen.x, screen.y, sheet)
  BY <1>1, <1>2
<1>6. CursorOK(w.pc, crt, sheet.at)
  BY <1>4 DEF CursorOK
<1>7. Doing(face, screen.x, screen.y, w, sheet)
  <2> HIDE DEF w
  <2>1. screen.y \in 0 .. NUM_ROWS /\ NUM_ROWS \in Nat
    BY <1>5, Sizes DEF Tested
  <2>2. CASE PastEnd(screen)
    <3>1. screen.y = NUM_ROWS
      BY <2>1, <2>2 DEF PastEnd
    <3>2. Scrolling(face, 0, sheet)
      BY <1>5, <3>1 DEF Tested
    <3>3. w.pc = "scroll"
      BY <1>4, <2>2
    <3>4. QED BY <1>4, <3>2, <3>3 DEF Doing, AtRest, SettingCursor
  <2>3. CASE ~PastEnd(screen)
    <3>1. screen.y < NUM_ROWS
      BY <2>1, <2>3 DEF PastEnd
    <3>2. Rest(face, screen.x, screen.y, sheet)
      BY <1>5, <3>1 DEF Tested
    <3>3. w.pc = "cursor"
      BY <1>4, <2>3
    <3>4. QED BY <3>2, <3>3 DEF Doing, AtRest, SettingCursor
  <2>4. QED BY <2>2, <2>3
<1> HIDE DEF w
<1>8. QED BY <1>2, <1>4, <1>6, <1>7, WriterKept

\* scrollDown as a program runs it, cell by cell.
LEMMA ScrollingNext ==
    ASSUME NEW v, NEW p, NEW i \in 0 .. Cells - 1, Scrolling(Face(v), i, p)
    PROVE  LET c == IF i >= (NUM_ROWS - 1) * NUM_COLS THEN Blank ELSE v[i + NUM_COLS] IN
           c = p.cells[i] /\ Scrolling([Face(v) EXCEPT ![i] = c], i + 1, p)
<1> DEFINE f == Face(v)
           c == IF i >= (NUM_ROWS - 1) * NUM_COLS THEN Blank ELSE v[i + NUM_COLS]
           g == [f EXCEPT ![i] = c]
<1>1. NUM_COLS \in Nat /\ NUM_COLS > 1 /\ Cells \in Nat
      /\ (NUM_ROWS - 1) * NUM_COLS = Cells - NUM_COLS
  BY Sizes
<1>2. /\ p.at = Cells - NUM_COLS
      /\ \A j \in 0 .. Cells - 1 :
            p.cells[j] = IF j < i THEN f[j]
                         ELSE IF j >= Cells - NUM_COLS THEN Blank ELSE f[j + NUM_COLS]
  BY <1>1 DEF Scrolling
<1>3. \A j \in 0 .. Cells - 1 : ~(j >= Cells - NUM_COLS) => j + NUM_COLS \in 0 .. Cells - 1
  BY <1>1
<1>4. c = p.cells[i]
  <2>1. ~(i < i)
    BY <1>1
  <2>2. ~(i >= Cells - NUM_COLS) => f[i + NUM_COLS] = v[i + NUM_COLS]
    BY <1>3 DEF Face
  <2>3. QED BY <1>1, <1>2, <2>1, <2>2
<1>5. f = [j \in 0 .. Cells - 1 |-> f[j]]
  BY DEF Face
<1> HIDE DEF f, c
<1>6. \A j \in 0 .. Cells - 1 : g[j] = IF j = i THEN c ELSE f[j]
  BY <1>5
<1> HIDE DEF g
<1>7. ASSUME NEW j \in 0 .. Cells - 1
      PROVE  p.cells[j] = IF j < i + 1 THEN g[j]
                          ELSE IF j >= Cells - NUM_COLS THEN Blank ELSE g[j + NUM_COLS]
  <2>1. CASE j = i
    <3>1. j < i + 1
      BY <1>1, <2>1
    <3>2. QED BY <1>4, <1>6, <2>1, <3>1
  <2>2. CASE j # i
    <3>1. j < i + 1 <=> j < i
      BY <1>1, <2>2
    <3>2. ~(j < i) => j + NUM_COLS # i
      BY <1>1
    <3>3. ~(j < i) /\ ~(j >= Cells - NUM_COLS) => g[j + NUM_COLS] = f[j + NUM_COLS]
      BY <1>3, <1>6, <3>2
    <3>4. j < i => g[j] = f[j]
      BY <1>6, <2>2
    <3>5. QED BY <1>2, <3>1, <3>3, <3>4
  <2>3. QED BY <2>1, <2>2
<1>8. Scrolling(g, i + 1, p)
  BY <1>1, <1>2, <1>7 DEF Scrolling
<1>9. QED BY <1>4, <1>8 DEF g, f, c

LEMMA ScrollStepKept ==
    ASSUME Inv, ScrollStep
    PROVE  Kept
<1> DEFINE i == writing.i
           v == screen.video
<1>1. /\ screen \in Screens /\ writing \in Writers /\ Near(screen) /\ currentTerminal \in Term
      /\ sheet \in Paper /\ crt \in Crts /\ chars \in 0 .. MaxChars
      /\ SameBeyond(screen.video, screen.video)
      /\ pc = "scroll" => Scrolling(face, i, sheet)
      /\ pc = writing.pc
  BY Displayed DEF Doing
<1>2. pc = "scroll" /\ crt' = crt /\ Quiet
  BY DEF ScrollStep
<1>3. Scrolling(Face(v), i, sheet) /\ i \in 0 .. Cells /\ v \in [Address -> Ink] /\ Cells \in Nat
  BY <1>1, <1>2, Sizes DEF Writers, Screens, face
<1>4. /\ screen.x \in Int /\ screen.y \in Int
  BY <1>1, ScreensAt
<1>5. CASE i < Cells
  <2> DEFINE c == IF i >= (NUM_ROWS - 1) * NUM_COLS THEN Blank ELSE v[i + NUM_COLS]
             u == [v EXCEPT ![i] = c]
             s == At(u, screen.x, screen.y)
             w == [writing EXCEPT !.i = i + 1]
  <2>1. i \in 0 .. Cells - 1 /\ i + 1 \in 0 .. Cells
    BY <1>3, <1>5
  <2>2. screen' = s /\ writer' = [writer EXCEPT ![currentTerminal] = w]
    <3>1. screen' = ScrollCell(screen, i) /\ writer' = [writer EXCEPT ![currentTerminal].i = i + 1]
      BY <1>5 DEF ScrollStep, writing
    <3>2. ScrollCell(screen, i) = s
      BY <1>1 DEF ScrollCell, At, Screens
    <3>3. writer' = [writer EXCEPT ![currentTerminal] = w]
      BY <1>1, <3>1 DEF writing, Inv, TypeOK
    <3>4. QED BY <3>1, <3>2, <3>3
  <2>3. w \in Writers /\ w.pc = "scroll" /\ w.i = i + 1
    BY <1>1, <1>2, <2>1 DEF Writers
  <2> HIDE DEF w, i, v
  <2>4. c = sheet.cells[i] /\ Scrolling([Face(v) EXCEPT ![i] = c], i + 1, sheet)
    BY <1>3, <2>1, ScrollingNext
  <2> HIDE DEF c
  <2>5. c \in Ink
    BY <1>1, <2>1, <2>4 DEF Paper
  <2>6. u \in [Address -> Ink] /\ Face(u) = [Face(v) EXCEPT ![i] = c] /\ SameBeyond(v, u)
    <3>1. v \in [Address -> Ink]
      BY <1>3
    <3>2. /\ Face([v EXCEPT ![i] = c]) = [Face(v) EXCEPT ![i] = c]
          /\ [v EXCEPT ![i] = c] \in [Address -> Ink]
          /\ \A a \in Address : a >= Cells => [v EXCEPT ![i] = c][a] = v[a]
      BY <2>1, <2>5, <3>1, FaceStored
    <3>3. QED BY <3>2, Zenon DEF SameBeyond, u
  <2> HIDE DEF u
  <2>7. s \in Screens /\ s.video = u /\ s.x = screen.x /\ s.y = screen.y
    BY <1>4, <2>6, AtScreens
  <2> HIDE DEF s
  <2>8. Near(s)
    BY <1>1, <2>7 DEF Near
  <2>9. Doing(Face(s.video), s.x, s.y, w, sheet)
    BY <2>3, <2>4, <2>6, <2>7 DEF Doing, AtRest, SettingCursor
  <2>10. CursorOK(w.pc, crt, sheet.at)
    BY <2>3 DEF CursorOK
  <2>11. paper' = [paper EXCEPT ![currentTerminal] = sheet] /\ saved' = saved
         /\ currentTerminal' = currentTerminal /\ chars' = chars
    BY <1>2 DEF sheet, Inv, TypeOK, Quiet
  <2>12. SameBeyond(screen.video, screen'.video)
    BY <2>2, <2>6, <2>7 DEF v
  <2>13. Inv'
    BY <1>1, <1>2, <2>2, <2>3, <2>7, <2>8, <2>9, <2>10, <2>11, <2>12, OnDisplay
  <2>14. QED BY <2>12, <2>13 DEF Kept
<1>6. CASE ~(i < Cells)
  <2> DEFINE s == At(v, 0, screen.y)
  <2>1. i = Cells
    BY <1>3, <1>6
  <2>2. Statement("scroll", "scroll_y", s)
    <3>1. [screen EXCEPT !.x = 0] = s
      BY <1>1 DEF Screens, At
    <3>2. QED BY <1>2, <1>6, <3>1 DEF ScrollStep, Statement, writing
  <2>3. s \in Screens /\ s.video = v /\ s.x = 0 /\ s.y = screen.y
    <3>1. 0 \in Int
      OBVIOUS
    <3>2. QED BY <1>3, <1>4, <3>1, AtScreens
  <2> HIDE DEF s
  <2>4. Near(s)
    BY <1>1, <2>3, Sizes DEF Near
  <2>5. face = sheet.cells /\ sheet.at = Cells - NUM_COLS
    <3>1. \A j \in 0 .. Cells - 1 : j < Cells
      BY <1>3
    <3>2. \A j \in 0 .. Cells - 1 : sheet.cells[j] = Face(v)[j]
      BY <1>3, <2>1, <3>1 DEF Scrolling
    <3>3. sheet.cells = [j \in 0 .. Cells - 1 |-> sheet.cells[j]]
      BY <1>1 DEF Paper
    <3>4. Face(v) = sheet.cells
      BY <3>2, <3>3 DEF Face
    <3>5. QED BY <1>3, <3>4 DEF Scrolling, face
  <2>6. Doing(Face(s.video), s.x, s.y, [writing EXCEPT !.pc = "scroll_y"], sheet)
    BY <1>1, <2>3, <2>5, DoingAt DEF face
  <2>7. "scroll_y" \in Unset
    BY DEF Unset, Labels
  <2>8. SameBeyond(screen.video, s.video)
    BY <1>1, <2>3
  <2> HIDE DEF v, i
  <2>9. QED BY <2>2, <2>3, <2>4, <2>6, <2>7, <2>8, StatementKept
<1>7. QED BY <1>5, <1>6

-----------------------------------------------------------------------------
(* The hardware cursor *)

\* setCursor computes the position once, and a switch may come at every access.
LEMMA CursorPositionKept ==
    ASSUME Inv, CursorPosition
    PROVE  Kept
<1> DEFINE n == Position(screen)
           v == [writing EXCEPT !.position = n]
           w == [writing EXCEPT !.pc = "index_low", !.position = n]
<1>1. /\ writing \in Writers /\ sheet \in Paper /\ currentTerminal \in Term /\ crt \in Crts
      /\ pc = "cursor" => Rest(face, screen.x, screen.y, sheet)
      /\ pc = writing.pc
  BY Displayed DEF Doing, AtRest
<1>2. pc = "cursor" /\ screen' = screen /\ crt' = crt /\ Quiet
      /\ writer' = [writer EXCEPT ![currentTerminal] = w]
  BY DEF CursorPosition, writing, Inv, TypeOK
<1>3. n = sheet.at /\ n \in Nat
  BY <1>1, <1>2, Sizes DEF Rest, Paper, Position
<1> HIDE DEF n
<1>4. v \in Writers /\ v.position = n
  BY <1>1, <1>3 DEF Writers
<1>5. w = [v EXCEPT !.pc = "index_low"]
  <2>1. [writing EXCEPT !.pc = "index_low", !.position = n]
        = [[writing EXCEPT !.position = n] EXCEPT !.pc = "index_low"]
    BY <1>1 DEF Writers
  <2>2. QED BY <2>1
<1> HIDE DEF v
<1>6. w \in Writers /\ w.pc = "index_low"
  <2> HIDE DEF w
  <2>1. QED BY <1>4, <1>5 DEF Writers, Labels
<1>7. "index_low" \in AtRest
  BY DEF AtRest, SettingCursor
<1>8. Doing(face, screen.x, screen.y, w, sheet)
  <2> HIDE DEF w
  <2>1. QED BY <1>1, <1>2, <1>3, <1>4, <1>5, <1>7, RestDoing
<1>9. CursorOK(w.pc, crt, sheet.at)
  BY <1>6 DEF CursorOK
<1> HIDE DEF w
<1>10. QED BY <1>2, <1>6, <1>8, <1>9, WriterKept

\* A port access of setCursor, with what it leaves in the registers.
LEMMA OutbKept ==
    ASSUME Inv, NEW from \in SettingCursor, NEW to \in AtRest \ {"cursor"}, NEW r \in Crts,
           Outb(from, to, r), CursorOK(to, r, sheet.at)
    PROVE  Kept
<1>1. /\ writing \in Writers /\ pc = writing.pc
      /\ pc \in SettingCursor => Rest(face, screen.x, screen.y, sheet)
                                 /\ writing.position = sheet.at
  BY Displayed DEF Doing, AtRest
<1>2. pc = from /\ screen' = screen /\ crt' = r /\ Quiet /\ Goto(to)
  BY DEF Outb
<1>3. to \in Labels /\ to \in AtRest
  BY DEF AtRest, SettingCursor, Labels
<1>4. Doing(face, screen.x, screen.y, [writing EXCEPT !.pc = to], sheet)
  BY <1>1, <1>2, <1>3, RestDoing
<1>5. QED BY <1>2, <1>3, <1>4, GotoKept

LEMMA SetCursorKept ==
    ASSUME Inv, CursorIndexLow \/ CursorLow \/ CursorIndexHigh \/ CursorHigh
    PROVE  Kept
<1> DEFINE n == sheet.at
<1>1. /\ crt \in Crts /\ writing \in Writers /\ sheet \in Paper
      /\ CursorOK(pc, crt, n) /\ pc = writing.pc
      /\ pc \in SettingCursor => writing.position = n
  BY Displayed DEF Doing
<1>2. n \in 0 .. Cells - 1
  BY <1>1 DEF Paper
<1>3. LowByte(n) \in 0 .. CursorByte - 1 /\ HighByte(n) \in 0 .. CursorByte - 1
  BY <1>2, Bytes
<1> HIDE DEF n
<1>4. \A label \in SettingCursor \cup {"next"} : label \in AtRest \ {"cursor"}
  BY DEF AtRest, SettingCursor
<1>5. {"index_low", "low", "index_high", "high"} = SettingCursor
  BY DEF SettingCursor
<1>6. CASE CursorIndexLow
  <2> DEFINE r == [crt EXCEPT !.index = "low"]
  <2>1. r \in Crts /\ r.index = "low"
    BY <1>1 DEF Crts
  <2>2. CursorOK("low", r, n)
    BY <2>1 DEF CursorOK
  <2>3. Outb("index_low", "low", r)
    BY <1>6 DEF CursorIndexLow
  <2> HIDE DEF r
  <2>4. QED BY <1>4, <1>5, <2>1, <2>2, <2>3, OutbKept DEF n
<1>7. CASE CursorLow
  <2> DEFINE r == Data(LowByte(n))
  <2>1. pc = "low" /\ Outb("low", "index_high", Data(Byte(writing.position)))
    BY <1>7 DEF CursorLow, Outb, writing
  <2>2. writing.position = n /\ (crt.index = "low" \/ crt.low = LowByte(n))
    BY <1>1, <1>5, <2>1 DEF CursorOK
  <2>3. Outb("low", "index_high", r)
    BY <2>1, <2>2 DEF Byte, LowByte
  <2>4. r \in Crts
    BY <1>1, <1>3 DEF Data, Crts
  <2>5. r.low = LowByte(n)
    BY <1>1, <2>2 DEF Data, Crts
  <2>6. CursorOK("index_high", r, n)
    BY <2>5 DEF CursorOK
  <2> HIDE DEF r
  <2>7. QED BY <1>4, <1>5, <2>3, <2>4, <2>6, OutbKept DEF n
<1>8. CASE CursorIndexHigh
  <2> DEFINE r == [crt EXCEPT !.index = "high"]
  <2>1. pc = "index_high" /\ Outb("index_high", "high", r)
    BY <1>8 DEF CursorIndexHigh, Outb
  <2>2. crt.low = LowByte(n)
    BY <1>1, <2>1 DEF CursorOK
  <2>3. r \in Crts /\ r.index = "high" /\ r.low = LowByte(n)
    BY <1>1, <2>2 DEF Crts
  <2>4. CursorOK("high", r, n)
    BY <2>3 DEF CursorOK
  <2> HIDE DEF r
  <2>5. QED BY <1>4, <1>5, <2>1, <2>3, <2>4, OutbKept DEF n
<1>9. CASE CursorHigh
  <2> DEFINE r == Data(HighByte(n))
  <2>1. pc = "high" /\ Outb("high", "next", Data(Byte(writing.position \div CursorByte)))
    BY <1>9 DEF CursorHigh, Outb, writing
  <2>2. writing.position = n /\ crt.low = LowByte(n) /\ crt.index = "high"
    BY <1>1, <1>5, <2>1 DEF CursorOK
  <2>3. Outb("high", "next", r)
    BY <2>1, <2>2 DEF Byte, HighByte
  <2>4. r = [crt EXCEPT !.high = HighByte(n)]
    BY <2>2 DEF Data
  <2>5. r \in Crts /\ r.low = LowByte(n) /\ r.high = HighByte(n)
    BY <1>1, <1>3, <2>2, <2>4 DEF Crts
  <2>6. CursorOK("next", r, n)
    BY <2>5 DEF CursorOK
  <2> HIDE DEF r
  <2>7. QED BY <1>4, <1>5, <2>3, <2>5, <2>6, OutbKept DEF n
<1>10. QED BY <1>6, <1>7, <1>8, <1>9

-----------------------------------------------------------------------------
(* A character begins, by a program or by the keyboard *)

\* A character is recorded on the paper when its putc begins.
LEMMA Recorded ==
    ASSUME Inv, NEW c \in Char, Record(c), "newline_left_of_row" \notin Habits
    PROVE  /\ chars' \in 0 .. MaxChars /\ (c = "NL" => screen.x >= 0)
           /\ paper' = [paper EXCEPT ![currentTerminal] = Typed(sheet, c)]
<1>1. screen.x \in Int /\ chars \in 0 .. MaxChars /\ MaxChars \in Nat
  BY Displayed, ScreensAt, SizeAssumption
<1>2. chars' = chars + 1 /\ chars < MaxChars
      /\ paper' = [paper EXCEPT ![currentTerminal] = Typed(sheet, c)]
  BY DEF Record, sheet
<1>3. c = "NL" => ~(screen.x < 0)
  BY DEF Record, Usual
<1>4. QED BY <1>1, <1>2, <1>3

LEMMA PutcBeginsKept ==
    ASSUME Inv, NEW c \in Char, PutcBegins(c), "newline_left_of_row" \notin Habits
    PROVE  Kept
<1> DEFINE p == Typed(sheet, c)
           home == screen.x = 0 /\ screen.y = 0
           to == CASE c = "NL" -> "nl_y"
                   [] c = "BS" -> IF home THEN "test" ELSE "x"
                   [] OTHER -> "store"
           v == [writing EXCEPT !.c = c]
           w == [writing EXCEPT !.c = c, !.pc = to]
<1>1. /\ writing \in Writers /\ sheet \in Paper /\ crt \in Crts
      /\ pc = "next" => Rest(face, screen.x, screen.y, sheet)
      /\ pc = writing.pc /\ screen.x \in Int /\ screen.y \in Int
  BY Displayed, ScreensAt DEF Doing, AtRest
<1>2. /\ pc = "next" /\ Record(c)
      /\ screen' = screen /\ crt' = crt /\ saved' = saved /\ currentTerminal' = currentTerminal
  BY DEF PutcBegins
<1>3. writer' = [writer EXCEPT ![currentTerminal] = w]
  BY DEF PutcBegins, writing
<1>4. Rest(face, screen.x, screen.y, sheet)
  BY <1>1, <1>2
<1>5. to \in {"nl_y", "test", "x", "store"}
  OBVIOUS
<1>6. v \in Writers /\ v.c = c
  BY <1>1 DEF Writers
<1>7. w = [v EXCEPT !.pc = to]
  <2> HIDE DEF to
  <2>1. QED BY <1>1 DEF Writers
<1>8. w \in Writers /\ w.pc = to /\ w.c = c
  <2> HIDE DEF w, v, to
  <2>1. to \in Labels
    BY <1>5 DEF Labels
  <2>2. QED BY <1>6, <1>7, <2>1 DEF Writers
<1>9. CursorOK(w.pc, crt, p.at)
  <2> HIDE DEF w, to
  <2>1. QED BY <1>5, <1>8 DEF CursorOK
<1>10. p \in Paper /\ Doing(face, screen.x, screen.y, w, p)
  <2> HIDE DEF w, v
  <2>1. CASE c = "NL"
    <3>1. p \in Paper /\ Tested(face, 0, screen.y + 1, p)
      BY <1>2, <1>1, <1>4, <2>1, Recorded, NewlineTyped
    <3>2. w.pc = "nl_y"
      BY <1>8, <2>1
    <3>3. QED BY <3>1, <3>2 DEF Doing, AtRest, SettingCursor
  <2>2. CASE c = "BS"
    <3>1. p \in Paper
      BY <1>1, <1>4, <2>2, BackspaceTyped
    <3>2. CASE home
      <4>1. Tested(face, screen.x, screen.y, p)
        BY <1>1, <1>4, <2>2, <3>2, BackspaceTyped
      <4>2. w.pc = "test"
        BY <1>8, <2>2, <3>2
      <4>3. QED BY <3>1, <4>1, <4>2 DEF Doing, AtRest, SettingCursor
    <3>3. CASE ~home
      <4>1. Erased(face, Mod(screen.x - 1, NUM_COLS), screen.y + Div(screen.x - 1, NUM_COLS), p)
        BY <1>1, <1>4, <2>2, <3>3, BackspaceTyped
      <4>2. w.pc = "x"
        BY <1>8, <2>2, <3>3
      <4>3. screen.x + (-1) = screen.x - 1
        BY <1>1
      <4>4. Carried(face, screen.x + (IF c = "BS" THEN -1 ELSE 1), screen.y, c, p)
        BY <2>2, <4>1, <4>3 DEF Carried, Landed
      <4>5. screen.x \in Column /\ screen.y \in 0 .. NUM_ROWS - 1
        BY <1>4 DEF Rest
      <4> HIDE DEF p
      <4>6. Doing(face, screen.x, screen.y, w, p)
        BY <1>8, <4>2, <4>4, <4>5 DEF Doing, AtRest, SettingCursor
      <4>7. QED BY <3>1, <4>6 DEF p
    <3>4. QED BY <3>2, <3>3
  <2>3. CASE c \notin {"NL", "BS"}
    <3>1. c \in Letter
      BY <2>3 DEF Char
    <3>2. p \in Paper /\ Lettered(face, screen.x, screen.y, c, p)
      BY <1>1, <1>4, <3>1, LetterTyped
    <3>3. w.pc = "store"
      BY <1>8, <2>3
    <3> HIDE DEF p
    <3>4. Doing(face, screen.x, screen.y, w, p)
      BY <1>8, <3>1, <3>2, <3>3 DEF Doing, AtRest, SettingCursor
    <3>5. QED BY <3>2, <3>4 DEF p
  <2>4. QED BY <2>1, <2>2, <2>3
<1>11. chars' \in 0 .. MaxChars /\ paper' = [paper EXCEPT ![currentTerminal] = p]
  BY <1>2, Recorded
<1> HIDE DEF w, p
<1>12. QED BY <1>1, <1>2, <1>3, <1>8, <1>9, <1>10, <1>11, ControlKept

-----------------------------------------------------------------------------
(* The keyboard handler *)

\* The handler draws between two characters, or before setCursor of the last one.
CalmEchoes == EchoMoments \subseteq {"idle", "next", "cursor"}

\* A handler's drawing, with the cursor set at its end.
LEMMA DrawnKept ==
    ASSUME Inv, pc \in {"idle", "next", "cursor"},
           UNCHANGED <<saved, currentTerminal, writer>>,
           screen' \in Screens, SameBeyond(screen.video, screen'.video), crt' = setCursor(screen'),
           NEW p \in Paper, paper' = [paper EXCEPT ![currentTerminal] = p],
           chars' \in 0 .. MaxChars,
           Rest(Face(screen'.video), screen'.x, screen'.y, p)
    PROVE  Kept
<1>1. writing \in Writers /\ pc = writing.pc /\ currentTerminal \in Term
  BY Displayed
<1>2. writer' = [writer EXCEPT ![currentTerminal] = writing]
  BY DEF writing, Inv, TypeOK
<1>3. Position(screen') = p.at /\ p.at \in 0 .. Cells - 1
  BY DEF Rest, Position, Paper
<1>4. crt' \in Crts /\ CursorOK(writing.pc, crt', p.at)
  BY <1>3, CursorSet
<1>5. Near(screen')
  BY Sizes DEF Rest, Column, Near
<1>6. Doing(Face(screen'.video), screen'.x, screen'.y, writing, p)
  BY <1>1 DEF Doing, AtRest, SettingCursor
<1>7. Inv'
  BY <1>1, <1>2, <1>4, <1>5, <1>6, OnDisplay
<1>8. QED BY <1>7 DEF Kept

\* The echo runs a whole putc in the interrupt.
LEMMA EchoKept ==
    ASSUME Inv, CalmEchoes, "newline_left_of_row" \notin Habits, NEW c \in Char, Echo(c)
    PROVE  Kept
<1>1. pc \in {"idle", "next", "cursor"} /\ Record(c) /\ UNCHANGED <<saved, currentTerminal, writer>>
      /\ screen' = putc(screen, c) /\ crt' = setCursor(screen')
  BY DEF Echo, CalmEchoes
<1>2. screen \in Screens /\ sheet \in Paper /\ Rest(face, screen.x, screen.y, sheet)
  BY <1>1, Displayed DEF Doing, AtRest
<1>3. /\ chars' \in 0 .. MaxChars /\ (c = "NL" => screen.x >= 0)
      /\ paper' = [paper EXCEPT ![currentTerminal] = Typed(sheet, c)]
  BY <1>1, Recorded
<1>4. /\ screen' \in Screens /\ SameBeyond(screen.video, screen'.video)
      /\ Typed(sheet, c) \in Paper
      /\ Rest(Face(screen'.video), screen'.x, screen'.y, Typed(sheet, c))
  BY <1>1, <1>2, <1>3, PutcTyped DEF face
<1>5. QED BY <1>1, <1>3, <1>4, DrawnKept

LEMMA ClearKept ==
    ASSUME Inv, CalmEchoes, ClearScreen
    PROVE  Kept
<1> DEFINE v == [a \in Address |-> IF a < Cells THEN Blank ELSE screen.video[a]]
<1>1. pc \in {"idle", "next", "cursor"} /\ UNCHANGED <<saved, currentTerminal, writer>>
      /\ screen' = clear(screen) /\ crt' = setCursor(screen') /\ chars' = chars
      /\ paper' = [paper EXCEPT ![currentTerminal] = BlankPaper]
  BY DEF ClearScreen, CalmEchoes
<1>2. screen \in Screens /\ chars \in 0 .. MaxChars
  BY Displayed
<1>3. v \in [Address -> Ink]
  BY <1>2, ScreensAt DEF Ink
<1>4. screen' = At(v, 0, 0)
  BY <1>1 DEF clear, At
<1>5. SameBeyond(screen.video, v)
  BY Addresses, Sizes DEF SameBeyond
<1>6. Face(v) = BlankPaper.cells
  <2>1. \A i \in 0 .. Cells - 1 : i \in Address /\ i < Cells
    BY Addresses, Sizes
  <2>2. QED BY <2>1 DEF Face, BlankPaper
<1> HIDE DEF v
<1>7. screen' \in Screens /\ screen'.video = v /\ screen'.x = 0 /\ screen'.y = 0
  BY <1>3, <1>4, AtScreens
<1>8. BlankPaper \in Paper /\ BlankPaper.at = 0
  BY Sizes DEF BlankPaper, Paper, Ink
<1>9. Rest(Face(v), 0, 0, BlankPaper)
  <2>1. 0 \in Column /\ 0 \in 0 .. NUM_ROWS - 1 /\ NUM_COLS * 0 + 0 = 0
    BY Sizes DEF Column
  <2>2. QED BY <1>6, <1>8, <2>1 DEF Rest
<1>10. QED BY <1>1, <1>2, <1>5, <1>7, <1>8, <1>9, DrawnKept

-----------------------------------------------------------------------------
(* The switch of terminals *)

\* switchScreen moves whole pages: every terminal keeps its cells, and its coordinates.
LEMMA Switched ==
    ASSUME Inv, NEW t \in Term, SwitchTerminal(t), NEW u \in Term
    PROVE  Shown(u)' = Shown(u) /\ X(u)' = X(u) /\ Y(u)' = Y(u)
<1> DEFINE now == currentTerminal
           v == screen.video
           pages == memcpy(v, SavedPage(now), 0)
           kept == [saved EXCEPT ![now] = [x |-> screen.x, y |-> screen.y]]
           w == memcpy(pages, 0, SavedPage(t))
<1>1. now \in Term /\ saved \in [Term -> [x : -NUM_COLS .. NUM_COLS, y : 0 .. NUM_ROWS]]
  BY DEF Inv, TypeOK
<1>2. currentTerminal' = t /\ saved' = kept /\ screen' = At(w, kept[t].x, kept[t].y)
  BY DEF SwitchTerminal, At
<1>3. screen'.video = w /\ screen'.x = kept[t].x /\ screen'.y = kept[t].y
  BY <1>2 DEF At
<1>4. X(u)' = X(u) /\ Y(u)' = Y(u)
  <2>1. kept[now].x = screen.x /\ kept[now].y = screen.y
        /\ \A a \in Term : a # now => kept[a] = saved[a]
    BY <1>1
  <2> HIDE DEF kept
  <2>2. QED BY <1>2, <1>3, <2>1 DEF X, Y
<1>5. /\ PageCells \in Nat /\ Cells \in Nat /\ Cells <= PageCells
  BY Addresses, Sizes
<1>6. ASSUME NEW i \in 0 .. Cells - 1
      PROVE  w[PageStart(u)' + i] = v[PageStart(u) + i]
  <2>1. i \in 0 .. PageCells - 1 /\ i \in Nat /\ i < PageCells
    BY <1>5
  <2>2. /\ i \in Address
        /\ SavedPage(t) \in Nat /\ SavedPage(t) >= PageCells /\ SavedPage(t) + i \in Address
        /\ SavedPage(u) \in Nat /\ SavedPage(u) >= PageCells /\ SavedPage(u) + i \in Address
        /\ SavedPage(now) \in Nat /\ SavedPage(now) >= PageCells
    BY <1>1, <2>1, Addresses, Pages
  <2>3. ASSUME NEW a \in Term, a # now
        PROVE  SavedPage(a) + i \notin SavedPage(now) .. SavedPage(now) + PageCells - 1
    <3>1. /\ SavedPage(a) \in Nat
          /\ \/ SavedPage(a) + PageCells <= SavedPage(now)
             \/ SavedPage(now) + PageCells <= SavedPage(a)
      BY <1>1, <2>3, Pages
    <3>2. QED BY <1>5, <2>1, <2>2, <3>1
  <2>4. ASSUME NEW a \in Term, SavedPage(a) + i \in Address
        PROVE  pages[SavedPage(a) + i] = v[PageStart(a) + i]
    <3>1. SavedPage(a) \in Nat
      BY Pages
    <3>2. CASE a = now
      <4>1. SavedPage(a) + i \in SavedPage(now) .. SavedPage(now) + PageCells - 1
            /\ SavedPage(a) + i - SavedPage(now) + 0 = i /\ PageStart(a) = 0 /\ 0 + i = i
        BY <1>5, <2>1, <2>2, <3>1, <3>2 DEF PageStart
      <4> DEFINE k == SavedPage(a) + i
      <4>2. k \in Address /\ k \in SavedPage(now) .. SavedPage(now) + PageCells - 1
            /\ k - SavedPage(now) + 0 = i
        <5>1. k \in Address
          BY <2>4
        <5>2. k \in SavedPage(now) .. SavedPage(now) + PageCells - 1
          BY <4>1
        <5>3. k - SavedPage(now) + 0 = i
          <6>1. SavedPage(a) = SavedPage(now)
            BY <3>2
          <6>2. QED BY <2>1, <2>2, <6>1
        <5>4. QED BY <5>1, <5>2, <5>3
      <4> HIDE DEF k
      <4>3. pages[k] = v[k - SavedPage(now) + 0]
        BY <4>2 DEF memcpy
      <4>4. pages[k] = v[0 + i]
        BY <4>1, <4>2, <4>3
      <4>5. QED BY <4>1, <4>4 DEF k
    <3>3. CASE a # now
      <4>1. SavedPage(a) + i \notin SavedPage(now) .. SavedPage(now) + PageCells - 1
        BY <2>3, <3>3
      <4>2. QED BY <2>4, <3>3, <4>1 DEF memcpy, PageStart
    <3>4. QED BY <3>2, <3>3
  <2>5. CASE u = t
    <3>1. PageStart(u)' = 0 /\ 0 + i = i
      BY <1>2, <2>1, <2>5 DEF PageStart
    <3>2. i \in 0 .. 0 + PageCells - 1 /\ i - 0 + SavedPage(t) = SavedPage(t) + i
      BY <1>5, <2>1, <2>2
    <3> HIDE DEF pages
    <3>3. w[i] = pages[i - 0 + SavedPage(t)]
      BY <2>2, <3>2 DEF memcpy
    <3>4. QED BY <2>2, <2>4, <2>5, <3>1, <3>2, <3>3
  <2>6. CASE u # t
    <3>1. PageStart(u)' = SavedPage(u)
      BY <1>2, <2>6 DEF PageStart
    <3>2. SavedPage(u) + i \notin 0 .. 0 + PageCells - 1
      BY <1>5, <2>1, <2>2
    <3> HIDE DEF pages
    <3>3. w[SavedPage(u) + i] = pages[SavedPage(u) + i]
      BY <2>2, <3>2 DEF memcpy
    <3>4. QED BY <2>2, <2>4, <3>1, <3>3
  <2>7. QED BY <2>5, <2>6
<1>7. Shown(u)' = [i \in 0 .. Cells - 1 |-> w[PageStart(u)' + i]]
  BY <1>3 DEF Shown
<1> HIDE DEF w, v
<1>8. Shown(u)' = Shown(u)
  BY <1>6, <1>7 DEF Shown, v
<1>9. QED BY <1>4, <1>8

\* A switch exchanges the pages and coordinates of two terminals and sets the cursor.
LEMMA SwitchKept ==
    ASSUME Inv, NEW t \in Term, SwitchTerminal(t)
    PROVE  Inv'
<1> DEFINE kept == [saved EXCEPT ![currentTerminal] = [x |-> screen.x, y |-> screen.y]]
           v == screen.video
           w == memcpy(memcpy(v, SavedPage(currentTerminal), 0), 0, SavedPage(t))
<1>1. /\ currentTerminal \in Term /\ screen \in Screens /\ Near(screen)
      /\ v \in [Address -> Ink]
  BY Displayed, ScreensAt
<1>2. /\ currentTerminal' = t /\ saved' = kept /\ screen' = At(w, kept[t].x, kept[t].y)
      /\ crt' = SwitchCursor(kept[t])
      /\ UNCHANGED <<writer, chars, paper>>
  BY DEF SwitchTerminal, At
<1>3. kept \in [Term -> [x : -NUM_COLS .. NUM_COLS, y : 0 .. NUM_ROWS]]
  BY <1>1 DEF Near, Inv, TypeOK
<1>4. w \in [Address -> Ink]
  <2>1. ASSUME NEW f \in [Address -> Ink], NEW a, NEW b,
               \A c \in Address : c \in a .. a + PageCells - 1 => c - a + b \in Address
        PROVE  memcpy(f, a, b) \in [Address -> Ink]
    BY <2>1 DEF memcpy
  <2>2. PageCells \in Nat
    BY Addresses
  <2>3. ASSUME NEW a \in Term
        PROVE  SavedPage(a) \in Nat /\ \A i \in 0 .. PageCells - 1 : SavedPage(a) + i \in Address
    BY Pages
  <2>4. \A c \in Address : c \in SavedPage(currentTerminal) .. SavedPage(currentTerminal) + PageCells - 1
                           => c - SavedPage(currentTerminal) + 0 \in Address
    <3>1. SUFFICES ASSUME NEW c \in Address,
                          c \in SavedPage(currentTerminal) .. SavedPage(currentTerminal) + PageCells - 1
                   PROVE  c - SavedPage(currentTerminal) + 0 \in Address
      OBVIOUS
    <3>2. c - SavedPage(currentTerminal) + 0 \in 0 .. PageCells - 1
      BY <1>1, <2>2, <2>3, <3>1
    <3>3. QED BY <3>2, Addresses
  <2>5. \A c \in Address : c \in 0 .. 0 + PageCells - 1 => c - 0 + SavedPage(t) \in Address
    <3>1. SUFFICES ASSUME NEW c \in Address, c \in 0 .. 0 + PageCells - 1
                   PROVE  c - 0 + SavedPage(t) \in Address
      OBVIOUS
    <3>2. c \in 0 .. PageCells - 1 /\ c - 0 + SavedPage(t) = SavedPage(t) + c
      BY <2>2, <2>3, <3>1
    <3>3. QED BY <2>3, <3>2
  <2> HIDE DEF v
  <2>6. memcpy(v, SavedPage(currentTerminal), 0) \in [Address -> Ink]
    BY <1>1, <2>1, <2>4
  <2>7. QED BY <2>1, <2>5, <2>6
<1> HIDE DEF kept, w, v
<1>5. screen' \in [video : [Address -> Ink], x : -NUM_COLS .. NUM_COLS, y : 0 .. NUM_ROWS]
      /\ screen'.x = kept[t].x /\ screen'.y = kept[t].y
  BY <1>2, <1>3, <1>4 DEF At
<1>6. ASSUME NEW u \in Term
      PROVE  Doing(Shown(u)', X(u)', Y(u)', writer'[u], paper'[u])
  <2>1. Doing(Shown(u), X(u), Y(u), writer[u], paper[u])
    BY DEF Inv
  <2>2. writer' = writer /\ paper' = paper
    BY <1>2
  <2>3. QED BY <2>1, <2>2, Switched
<1>7. crt' = setCursor(screen')
  <2>1. Position([screen EXCEPT !.x = kept[t].x, !.y = kept[t].y]) = Position(screen')
    <3>1. [screen EXCEPT !.x = kept[t].x].x = kept[t].x
      BY <1>1 DEF Screens
    <3>2. [[screen EXCEPT !.x = kept[t].x] EXCEPT !.y = kept[t].y].x = kept[t].x
          /\ [[screen EXCEPT !.x = kept[t].x] EXCEPT !.y = kept[t].y].y = kept[t].y
      BY <1>1 DEF Screens
    <3>3. QED BY <1>5, <3>2 DEF Position
  <2>2. QED BY <1>2, <2>1 DEF SwitchCursor, setCursor
<1>8. crt' \in Crts /\ CursorOK(pc', crt', paper'[t].at)
  <2>1. paper'[t] \in Paper
    BY <1>2 DEF Inv, TypeOK, Paper, Ink
  <2>2. CASE pc' \in AtRest
    <3>1. Rest(Shown(t)', X(t)', Y(t)', paper'[t])
      BY <1>2, <1>6, <2>2 DEF Doing, pc
    <3>2. X(t)' = screen'.x /\ Y(t)' = screen'.y
      BY <1>2 DEF X, Y
    <3>3. Position(screen') = paper'[t].at /\ paper'[t].at \in 0 .. Cells - 1
      BY <2>1, <3>1, <3>2 DEF Rest, Position, Paper
    <3>4. QED BY <1>7, <3>3, CursorSet
  <2>3. CASE pc' \notin AtRest
    <3>1. CursorOK(pc', crt', paper'[t].at)
      BY <2>3 DEF CursorOK, AtRest, SettingCursor
    <3>2. crt' \in Crts
      <4> DEFINE n == Position(screen')
      <4>1. CursorByte \in Nat \ {0}
        BY SizeAssumption, Sizes
      <4>2. n \in Int
        BY <1>5, Sizes DEF Position
      <4>3. crt' = [index |-> "high", low |-> n % CursorByte,
                    high |-> (n \div CursorByte) % CursorByte]
        BY <1>7 DEF setCursor
      <4> HIDE DEF n
      <4>4. n % CursorByte \in 0 .. CursorByte - 1 /\ n \div CursorByte \in Int
        BY <4>1, <4>2
      <4>5. (n \div CursorByte) % CursorByte \in 0 .. CursorByte - 1
        BY <4>1, <4>4
      <4>6. QED BY <4>3, <4>4, <4>5 DEF Crts
    <3>3. QED BY <3>1, <3>2
  <2>4. QED BY <2>2, <2>3
<1>9. TypeOK'
  BY <1>2, <1>3, <1>5, <1>8 DEF Inv, TypeOK, Crts, Ink
<1>10. QED BY <1>2, <1>6, <1>8, <1>9 DEF Inv

-----------------------------------------------------------------------------
(* Every step *)

LEMMA InvInit == Init => Inv
<1> SUFFICES ASSUME Init PROVE Inv
  OBVIOUS
<1> USE DEF Init
<1>1. /\ NUM_COLS \in Nat /\ NUM_COLS > 1 /\ NUM_ROWS \in Nat /\ NUM_ROWS > 1
      /\ Cells \in Nat /\ NUM_COLS < Cells /\ MAX_TERMINAL_NUMBER \in Nat \ {0}
      /\ NUM_COLS * 0 + 0 = 0 /\ MaxChars \in Nat
  BY Sizes, SizeAssumption
<1>2. BlankPaper \in Paper /\ BlankPaper.at = 0
      /\ BlankPaper.cells = [i \in 0 .. Cells - 1 |-> Blank]
  BY <1>1 DEF BlankPaper, Paper, Ink
<1>3. currentTerminal \in Term
  BY <1>1 DEF Term
<1>4. Position(screen) = 0
  BY <1>1 DEF Position
<1>5. crt \in Crts /\ CursorOK("idle", crt, 0)
  <2>1. 0 \in 0 .. Cells - 1
    BY <1>1
  <2>2. QED BY <1>4, <2>1, CursorSet
<1>6. TypeOK
  <2>1. screen \in [video : [Address -> Letter \union {Blank}],
                    x : -NUM_COLS .. NUM_COLS, y : 0 .. NUM_ROWS]
    BY <1>1
  <2>2. saved \in [Term -> [x : -NUM_COLS .. NUM_COLS, y : 0 .. NUM_ROWS]]
    BY <1>1
  <2>3. writer \in [Term -> [pc : Labels, c : Char, i : 0 .. Cells, position : Nat]]
    BY <1>1 DEF Labels, Char, Letter
  <2>4. chars \in 0 .. MaxChars /\ paper \in [Term -> Paper]
    BY <1>1, <1>2
  <2>5. QED BY <1>3, <1>5, <2>1, <2>2, <2>3, <2>4 DEF TypeOK, Crts, Paper, Ink
<1>7. ASSUME NEW t \in Term
      PROVE  Doing(Shown(t), X(t), Y(t), writer[t], paper[t])
  <2>1. Shown(t) = BlankPaper.cells
    <3>1. \A i \in 0 .. Cells - 1 : PageStart(t) + i \in Address
      <4>1. ASSUME NEW i \in 0 .. Cells - 1 PROVE PageStart(t) + i \in Address
        <5>1. i \in 0 .. PageCells - 1 /\ 0 + i = i /\ i \in Address
          BY <1>1, Addresses
        <5>2. SavedPage(t) + i \in Address
          BY <5>1, Pages
        <5>3. QED BY <5>1, <5>2 DEF PageStart
      <4>2. QED BY <4>1
    <3>2. \A i \in 0 .. Cells - 1 : screen.video[PageStart(t) + i] = Blank
      BY <3>1
    <3>3. QED BY <1>2, <3>2 DEF Shown
  <2>2. X(t) = 0 /\ Y(t) = 0
    BY DEF X, Y
  <2>3. writer[t].pc = "idle" /\ paper[t] = BlankPaper
    OBVIOUS
  <2>4. Rest(Shown(t), 0, 0, BlankPaper)
    BY <1>1, <1>2, <2>1 DEF Rest, Column
  <2>5. QED BY <2>2, <2>3, <2>4 DEF Doing, AtRest, SettingCursor
<1>8. CursorOK(pc, crt, paper[currentTerminal].at)
  BY <1>2, <1>3, <1>5 DEF pc
<1>9. QED BY <1>6, <1>7, <1>8 DEF Inv

\* What a step leaves, with the switch the only one to touch more than the visible cells.
LEMMA StepKept ==
    ASSUME Inv, [Next]_vars, CalmEchoes, "newline_left_of_row" \notin Habits
    PROVE  /\ Inv'
           /\ SameBeyond(screen.video, screen'.video) \/ \E t \in Term : SwitchTerminal(t)
<1>1. CASE terminalWrite \/ WriteReturns
  BY <1>1, WriteKept DEF Kept
<1>2. ASSUME NEW c \in Char \ {"k"}, PutcBegins(c) PROVE Kept
  BY <1>2, PutcBeginsKept
<1>3. CASE Putc
  <2>1. Kept
    BY <1>3, PutcStoreKept, PutcXKept, PutcYKept, PutcModKept, PutcBlankKept, PutcNewlineYKept,
       PutcNewlineXKept, PutcTestKept, ScrollStepKept, ScrollEndsKept, CursorPositionKept,
       SetCursorKept DEF Putc
  <2>2. QED BY <2>1 DEF Kept
<1>4. ASSUME NEW c \in Char \ {"p"}, Echo(c) PROVE Kept
  BY <1>4, EchoKept
<1>5. CASE ClearScreen
  BY <1>5, ClearKept DEF Kept
<1>6. ASSUME NEW t \in Term, SwitchTerminal(t) PROVE Inv'
  BY <1>6, SwitchKept
<1>7. CASE UNCHANGED vars
  <2>1. UNCHANGED <<screen, saved, currentTerminal, crt, writer, chars, paper>>
    BY <1>7 DEF vars
  <2>2. TypeOK'
    BY <2>1 DEF Inv, TypeOK
  <2>3. \A t \in Term : /\ Shown(t)' = Shown(t) /\ X(t)' = X(t) /\ Y(t)' = Y(t)
                        /\ writer'[t] = writer[t] /\ paper'[t] = paper[t]
    BY <2>1 DEF Shown, PageStart, X, Y
  <2>4. CursorOK(pc', crt', paper'[currentTerminal'].at)
    BY <2>1 DEF Inv, pc
  <2>5. Inv'
    BY <2>2, <2>3, <2>4 DEF Inv
  <2>6. QED BY <2>1, <2>5 DEF SameBeyond
<1>8. QED BY <1>1, <1>2, <1>3, <1>4, <1>5, <1>6, <1>7 DEF Next, Kept

\* With calm echoes and no newline left of its row, the invariant holds in every reachable state.
THEOREM Invariance ==
    ASSUME CalmEchoes, "newline_left_of_row" \notin Habits
    PROVE  Spec => []Inv
<1>1. Inv /\ [Next]_vars => Inv'
  BY StepKept
<1>2. QED BY <1>1, InvInit, PTL DEF Spec

\* The coordinates stay within one step of the screen, in putc and when saved, and the
\* bytes of the cursor fit its registers.
THEOREM ScreenTypesCorrect ==
    ASSUME CalmEchoes, "newline_left_of_row" \notin Habits
    PROVE  Spec => []TypeOK
<1>1. Inv => TypeOK
  BY DEF Inv
<1>2. QED BY <1>1, Invariance, PTL

\* putc, scrollDown and switchScreen: each terminal shows what was written on it.
THEOREM TextShown ==
    ASSUME CalmEchoes, "newline_left_of_row" \notin Habits
    PROVE  Spec => []ScreenShowsText
<1>1. Inv => ScreenShowsText
  <2> SUFFICES ASSUME Inv, NEW t \in Term, writer[t].pc \in {"idle", "next", "cursor"}
               PROVE  Shown(t) = paper[t].cells /\ Where(t) = paper[t].at
    BY DEF ScreenShowsText
  <2>1. Rest(Shown(t), X(t), Y(t), paper[t])
    BY DEF Inv, Doing, AtRest
  <2>2. Where(t) = NUM_COLS * Y(t) + X(t)
    BY DEF Where, Position, X, Y
  <2>3. QED BY <2>1, <2>2 DEF Rest
<1>2. QED BY <1>1, Invariance, PTL

\* setCursor: when putc is done the hardware cursor is where the next character goes.
THEOREM CursorFollows ==
    ASSUME CalmEchoes, "newline_left_of_row" \notin Habits
    PROVE  Spec => []CursorUpdated
<1>1. Inv => CursorUpdated
  <2> SUFFICES ASSUME Inv, pc \in {"idle", "next"}
               PROVE  CursorByte * crt.high + crt.low = sheet.at
    BY DEF CursorUpdated, sheet
  <2>1. CursorOK(pc, crt, sheet.at) /\ sheet \in Paper
    BY Displayed
  <2>2. crt.low = LowByte(sheet.at) /\ crt.high = HighByte(sheet.at)
    BY <2>1 DEF CursorOK
  <2>3. QED BY <2>1, <2>2, Bytes DEF Paper
<1>2. QED BY <1>1, Invariance, PTL

\* putc, scrollDown and clear store on the visible cells, and a switch to the displayed
\* terminal only in the page it saves to.
THEOREM StoresStay ==
    ASSUME CalmEchoes, "newline_left_of_row" \notin Habits
    PROVE  Spec => StoresOnScreen
<1> DEFINE Beyond(a) == a >= Cells /\ a \notin SavedPage(currentTerminal) ..
                                               SavedPage(currentTerminal) + PageCells - 1
           Stays == currentTerminal' = currentTerminal =>
                      \A a \in Address : Beyond(a) => screen'.video[a] = screen.video[a]
<1>1. Inv /\ [Next]_vars => Stays
  <2> SUFFICES ASSUME Inv, [Next]_vars, currentTerminal' = currentTerminal,
                      NEW a \in Address, Beyond(a)
               PROVE  screen'.video[a] = screen.video[a]
    OBVIOUS
  <2>1. CASE SameBeyond(screen.video, screen'.video)
    BY <2>1 DEF SameBeyond
  <2>2. ASSUME NEW t \in Term, SwitchTerminal(t) PROVE screen'.video[a] = screen.video[a]
    <3> DEFINE v == screen.video
               n == SavedPage(t)
               pages == memcpy(v, n, 0)
    <3>1. t = currentTerminal /\ screen'.video = memcpy(pages, 0, n)
      BY <2>2 DEF SwitchTerminal
    <3>2. n \in Nat /\ PageCells \in Nat /\ n >= PageCells /\ a \in Nat
          /\ \A i \in 0 .. PageCells - 1 : n + i \in Address
      BY Pages, Addresses
    <3>3. a \notin n .. n + PageCells - 1
      BY <3>1
    <3> HIDE DEF n, v
    <3>4. pages[a] = v[a]
      BY <3>3 DEF memcpy
    <3>5. CASE a \in 0 .. PageCells - 1
      <4> DEFINE k == a - 0 + n
      <4>1. k \in Address /\ k \in n .. n + PageCells - 1 /\ k - n + 0 = a
        <5>1. k = n + a
          BY <3>2
        <5>2. QED BY <3>2, <3>5, <5>1
      <4>2. a \in 0 .. 0 + PageCells - 1
        BY <3>2, <3>5
      <4>3. memcpy(pages, 0, n)[a] = pages[k]
        <5> HIDE DEF pages
        <5>1. QED BY <4>2 DEF memcpy
      <4> HIDE DEF k
      <4>4. pages[k] = v[k - n + 0]
        BY <4>1 DEF memcpy
      <4>5. QED BY <3>1, <4>1, <4>3, <4>4 DEF v
    <3>6. CASE a \notin 0 .. PageCells - 1
      <4>1. a \notin 0 .. 0 + PageCells - 1
        BY <3>2, <3>6
      <4>2. memcpy(pages, 0, n)[a] = pages[a]
        <5> HIDE DEF pages
        <5>1. QED BY <4>1 DEF memcpy
      <4>3. QED BY <3>1, <3>4, <4>2 DEF v
    <3>7. QED BY <3>5, <3>6
  <2>3. QED BY <2>1, <2>2, StepKept
<1>2. Inv /\ [Next]_vars => [Stays]_vars
  BY <1>1
<1>3. QED BY <1>2, Invariance, PTL DEF Spec, StoresOnScreen
=============================================================================
