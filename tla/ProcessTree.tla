----------------------------- MODULE ProcessTree -----------------------------
(***************************************************************************)
(* What execute, halt and the terminal switch promise together: every      *)
(* terminal holds a stack of processes, base shell first, program in       *)
(* front last; only the terminal on the screen changes its stack.          *)
(***************************************************************************)
EXTENDS Integers, Sequences, FiniteSets

CONSTANTS Pid, Term, Boot       \* Boot: the terminal on the screen at power-on

ASSUME BootAssumption == Boot \in Term

VARIABLES tree,     \* the stack of pids of each terminal
          opened,   \* terminals whose first shell was requested
          fg        \* the terminal on the screen

vars == <<tree, opened, fg>>

Pids(s) == {s[i] : i \in 1 .. Len(s)}
Alive == UNION {Pids(tree[t]) : t \in Term}

Init ==
    /\ tree = [t \in Term |-> <<>>]
    /\ opened = {}
    /\ fg = Boot

\* A terminal shown for the first time; its shell is spawned next.
Open(t) ==
    /\ t \notin opened
    /\ opened' = opened \cup {t}
    /\ fg' = t
    /\ UNCHANGED tree

\* Show an existing terminal: it has a program to resume.
Focus(t) ==
    /\ t \in opened /\ tree[t] # <<>>
    /\ fg' = t
    /\ UNCHANGED <<tree, opened>>

\* execute never hands out a pid that is in use.
Spawn(p) ==
    /\ fg \in opened /\ p \notin Alive
    /\ tree' = [tree EXCEPT ![fg] = Append(@, p)]
    /\ UNCHANGED <<opened, fg>>

Exit ==
    /\ Len(tree[fg]) > 0
    /\ tree' = [tree EXCEPT ![fg] = SubSeq(@, 1, Len(@) - 1)]
    /\ UNCHANGED <<opened, fg>>

Next ==
    \/ \E t \in Term : Open(t) \/ Focus(t)
    \/ \E p \in Pid : Spawn(p)
    \/ Exit

Spec == Init /\ [][Next]_vars

-----------------------------------------------------------------------------
\* Terminals hold sequences of pids.
TypeOK ==
    /\ tree \in [Term -> Seq(Pid)]
    /\ opened \subseteq Term
    /\ fg \in Term
=============================================================================
