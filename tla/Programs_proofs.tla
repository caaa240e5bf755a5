--------------------------- MODULE Programs_proofs ---------------------------
(***************************************************************************)
(* The screen page follows the program that mapped it, and getargs hands   *)
(* out what was typed, for every number of pids and terminals.             *)
(*                                                                         *)
(* The page is one and the flags are many: the invariant says that at most *)
(* one flag of a living process is set, never that of a base shell (whose  *)
(* halt reclaims nothing), and that a process stands on one stack only, so *)
(* that a halt takes away exactly one flag.                                *)
(*                                                                         *)
(* The arguments: a line splits in one way into blanks, a name, blanks and *)
(* the rest, and the four searches of execute find exactly that split in   *)
(* the shell's buffer, which terminalRead cleared before it copied.        *)
(***************************************************************************)
EXTENDS Programs, SequenceTheorems, FiniteSetTheorems, WellFoundedInduction, TLAPS

-----------------------------------------------------------------------------
(* The abstract process stacks: types, and no pid in two places.           *)

\* A pid stands on one stack, once: a PCB is one program's own.
NoSharing ==
    \A t, u \in Term : \A i \in 1 .. Len(tree[t]), j \in 1 .. Len(tree[u]) :
        tree[t][i] = tree[u][j] => t = u /\ i = j

\* A step shows a terminal, or replaces the stack of the one that is shown.
Shows == /\ tree' = tree
         /\ fg' \in Term /\ opened' = opened \cup {fg'}
ChangesFront == /\ UNCHANGED <<opened, fg>>
                /\ \E s \in Seq(Pid) : tree' = [tree EXCEPT ![fg] = s]

LEMMA ShowsOrChanges ==
    ASSUME TypeOK, [Next]_vars
    PROVE  Shows \/ ChangesFront
<1>1. tree[fg] \in Seq(Pid) /\ tree = [tree EXCEPT ![fg] = tree[fg]]
  BY DEF TypeOK
<1>2. (\E t \in Term : Open(t) \/ Focus(t)) => Shows
  BY DEF Open, Focus, Shows
<1>3. ASSUME NEW p \in Pid, Spawn(p) PROVE ChangesFront
  <2>1. Append(tree[fg], p) \in Seq(Pid)
    BY <1>1
  <2>2. QED BY <1>3, <2>1 DEF Spawn, ChangesFront
<1>4. ASSUME Exit PROVE ChangesFront
  <2>1. SubSeq(tree[fg], 1, Len(tree[fg]) - 1) \in Seq(Pid)
    BY <1>1, <1>4 DEF Exit
  <2>2. QED BY <1>4, <2>1 DEF Exit, ChangesFront
<1>5. UNCHANGED vars => ChangesFront
  BY <1>1 DEF vars, ChangesFront
<1>6. QED BY <1>2, <1>3, <1>4, <1>5 DEF Next

\* The terminals hold sequences of pids in every reachable state.
THEOREM TreeTypeCorrect == Spec => []TypeOK
<1> USE DEF TypeOK
<1>1. Init => TypeOK
  BY BootAssumption DEF Init
<1>2. TypeOK /\ Shows => TypeOK'
  BY DEF Shows
<1>3. TypeOK /\ ChangesFront => TypeOK'
  BY DEF ChangesFront
<1>4. TypeOK /\ [Next]_vars => TypeOK'
  BY <1>2, <1>3, ShowsOrChanges
<1> QED BY <1>1, <1>4, PTL DEF Spec

\* execute, halt and the switch keep the pids of all terminals distinct.
LEMMA PidsDistinct == Spec => []NoSharing
<1>1. Init => NoSharing
  BY DEF Init, NoSharing
<1>2. TypeOK /\ NoSharing /\ [Next]_vars => NoSharing'
  <2> SUFFICES ASSUME TypeOK, NoSharing, [Next]_vars PROVE NoSharing'
    OBVIOUS
  <2>1. ASSUME NEW p \in Pid, Spawn(p) PROVE NoSharing'
    <3> DEFINE s == tree[fg]
    <3>1. /\ s \in Seq(Pid)
          /\ Len(Append(s, p)) = Len(s) + 1
          /\ \A i \in 1 .. Len(s) : Append(s, p)[i] = s[i]
          /\ Append(s, p)[Len(s) + 1] = p
      BY DEF TypeOK
    <3>2. \A t \in Term : \A i \in 1 .. Len(tree[t]) : tree[t][i] # p
      BY <2>1 DEF Spawn, Alive, Pids
    <3>3. /\ tree'[fg] = Append(s, p)
          /\ \A t \in Term : t # fg => tree'[t] = tree[t]
      BY <2>1 DEF Spawn, TypeOK
    <3>4. \A t \in Term : Len(tree[t]) \in Nat
      BY DEF TypeOK
    <3>5. SUFFICES ASSUME NEW t \in Term, NEW u \in Term,
                          NEW i \in 1 .. Len(tree'[t]), NEW j \in 1 .. Len(tree'[u]),
                          tree'[t][i] = tree'[u][j]
                   PROVE  t = u /\ i = j
      BY DEF NoSharing
    <3> HIDE DEF s
    <3>6. CASE t = fg /\ u = fg
      <4>1. i \in 1 .. Len(s) \/ i = Len(s) + 1
        BY <3>1, <3>3, <3>4, <3>6 DEF s
      <4>2. j \in 1 .. Len(s) \/ j = Len(s) + 1
        BY <3>1, <3>3, <3>4, <3>6 DEF s
      <4>3. CASE i \in 1 .. Len(s) /\ j \in 1 .. Len(s)
        BY <4>3, <3>1, <3>3, <3>5, <3>6 DEF NoSharing, s
      <4>4. CASE i = Len(s) + 1 /\ j \in 1 .. Len(s)
        BY <4>4, <3>1, <3>2, <3>3, <3>5, <3>6 DEF s
      <4>5. CASE i \in 1 .. Len(s) /\ j = Len(s) + 1
        BY <4>5, <3>1, <3>2, <3>3, <3>5, <3>6 DEF s
      <4>6. QED BY <4>1, <4>2, <4>3, <4>4, <4>5, <3>6
    <3>7. CASE t = fg /\ u # fg
      <4>1. i \in 1 .. Len(s) \/ i = Len(s) + 1
        BY <3>1, <3>3, <3>4, <3>7 DEF s
      <4>2. CASE i \in 1 .. Len(s)
        BY <4>2, <3>1, <3>3, <3>5, <3>7 DEF NoSharing, s
      <4>3. CASE i = Len(s) + 1
        BY <4>3, <3>1, <3>2, <3>3, <3>5, <3>7 DEF s
      <4>4. QED BY <4>1, <4>2, <4>3
    <3>8. CASE t # fg /\ u = fg
      <4>1. j \in 1 .. Len(s) \/ j = Len(s) + 1
        BY <3>1, <3>3, <3>4, <3>8 DEF s
      <4>2. CASE j \in 1 .. Len(s)
        BY <4>2, <3>1, <3>3, <3>5, <3>8 DEF NoSharing, s
      <4>3. CASE j = Len(s) + 1
        BY <4>3, <3>1, <3>2, <3>3, <3>5, <3>8 DEF s
      <4>4. QED BY <4>1, <4>2, <4>3
    <3>9. CASE t # fg /\ u # fg
      BY <3>9, <3>3, <3>5 DEF NoSharing
    <3>10. QED BY <3>6, <3>7, <3>8, <3>9
  <2>2. CASE Exit
    <3> DEFINE s == tree[fg]
    <3>1. /\ s \in Seq(Pid) /\ Len(s) > 0
          /\ Len(SubSeq(s, 1, Len(s) - 1)) = Len(s) - 1
          /\ \A i \in 1 .. Len(s) - 1 : SubSeq(s, 1, Len(s) - 1)[i] = s[i]
      <4>1. s \in Seq(Pid) /\ Len(s) \in Nat \ {0}
        BY <2>2 DEF Exit, TypeOK
      <4>2. \A i \in 1 .. Len(s) - 1 : s[i] \in Pid
        BY <4>1
      <4>3. 1 \in Int /\ Len(s) - 1 \in Int
        BY <4>1
      <4>4. /\ Len(SubSeq(s, 1, Len(s) - 1)) =
                  IF 1 <= Len(s) - 1 THEN (Len(s) - 1) - 1 + 1 ELSE 0
            /\ \A i \in 1 .. (Len(s) - 1) - 1 + 1 : SubSeq(s, 1, Len(s) - 1)[i] = s[1 + i - 1]
        BY <4>2, <4>3, SubSeqProperties
      <4>5. QED BY <4>1, <4>4
    <3>2. /\ tree'[fg] = SubSeq(s, 1, Len(s) - 1)
          /\ \A t \in Term : t # fg => tree'[t] = tree[t]
      BY <2>2 DEF Exit, TypeOK
    <3>3. \A t \in Term : /\ Len(tree'[t]) \in Nat /\ Len(tree'[t]) <= Len(tree[t])
                          /\ Len(tree[t]) \in Nat
      BY <3>1, <3>2 DEF TypeOK
    <3>4. \A t \in Term : \A i \in 1 .. Len(tree'[t]) :
             i \in 1 .. Len(tree[t]) /\ tree'[t][i] = tree[t][i]
      BY <3>1, <3>2, <3>3
    <3>5. QED BY <3>4 DEF NoSharing
  <2>3. CASE UNCHANGED tree
    BY <2>3 DEF NoSharing
  <2>4. QED BY <2>1, <2>2, <2>3 DEF Next, Open, Focus, vars
<1>3. QED BY <1>1, <1>2, TreeTypeCorrect, PTL DEF Spec

-----------------------------------------------------------------------------
(* The programs on them: the screen page and its flags *)

OneMapper == \A p, q \in Alive : vidMap_flag[p] = 1 /\ vidMap_flag[q] = 1 => p = q
BasesUnmapped == \A t \in Term : tree[t] # <<>> => vidMap_flag[tree[t][1]] = 0

ScreenInv ==
    /\ vidMap_flag \in [Pid -> {0, 1}]
    /\ video_page \in BOOLEAN /\ mapper_gone \in BOOLEAN
    /\ OneMapper /\ BasesUnmapped
    /\ MapperKeepsScreen /\ ScreenPageReclaimed

-----------------------------------------------------------------------------
(* Every system call is a step of the process stacks or leaves them alone. *)
LEMMA StepImplements == [ProgramNext]_allvars => [Next]_vars
<1> SUFFICES ASSUME [ProgramNext]_allvars PROVE [Next]_vars
  OBVIOUS
<1>1. ASSUME NEW t \in Term, Show(t) PROVE [Next]_vars
  BY <1>1 DEF Show, Next
<1>2. CASE ShellStarts
  BY <1>2 DEF ShellStarts, StartProgram, Next
<1>3. ASSUME NEW line \in Lines, Execute(line) PROVE [Next]_vars
  BY <1>3 DEF Execute, StartProgram, Next
<1>4. ASSUME NEW line \in Lines, ExecuteFails(line) PROVE [Next]_vars
  BY <1>4 DEF ExecuteFails
<1>5. ASSUME NEW value \in ExitValues, Halt(value) PROVE [Next]_vars
  BY <1>5 DEF Halt, Ends, Next
<1>6. CASE Exception
  BY <1>6 DEF Exception, Ends, Next
<1>7. ASSUME NEW nbytes \in Requests, GetArgs(nbytes) PROVE [Next]_vars
  BY <1>7 DEF GetArgs
<1>8. ASSUME NEW a \in Addresses, VidMap(a) PROVE [Next]_vars
  BY <1>8 DEF VidMap
<1>9. CASE UNCHANGED allvars
  BY <1>9 DEF allvars
<1>10. QED
  BY <1>1, <1>2, <1>3, <1>4, <1>5, <1>6, <1>7, <1>8, <1>9 DEF ProgramNext

\* Programs adds fields to the process stacks and does nothing else to them.
LEMMA ImplementsProcessTree == ProgramSpec => Spec
<1>1. ProgramInit => Init
  BY DEF ProgramInit
<1> QED BY <1>1, StepImplements, PTL DEF ProgramSpec, Spec

\* What the invariants below use of the stacks.
LEMMA ProcessesApart == ProgramSpec => [](TypeOK /\ NoSharing)
  BY ImplementsProcessTree, TreeTypeCorrect, PidsDistinct, PTL

-----------------------------------------------------------------------------
(* Who lives after a program starts or ends. *)

\* A program that starts was not alive and is then.
LEMMA AliveAfterSpawn ==
    ASSUME TypeOK, NEW p \in Pid, Spawn(p)
    PROVE  /\ p \notin Alive
           /\ Alive' = Alive \cup {p}
           /\ \A t \in Term : tree'[t] # <<>> =>
                 tree'[t][1] = IF tree[t] = <<>> THEN p ELSE tree[t][1]
<1> DEFINE s == tree[fg]
<1>1. /\ s \in Seq(Pid) /\ Len(s) \in Nat /\ fg \in Term
      /\ Len(Append(s, p)) = Len(s) + 1
      /\ \A i \in 1 .. Len(s) : Append(s, p)[i] = s[i]
      /\ Append(s, p)[Len(s) + 1] = p
      /\ s = <<>> <=> Len(s) = 0
  BY DEF TypeOK
<1>2. /\ tree'[fg] = Append(s, p)
      /\ \A t \in Term : t # fg => tree'[t] = tree[t]
  BY DEF Spawn, TypeOK
<1>3. p \notin Alive
  BY DEF Spawn
<1> HIDE DEF s
<1>4. Pids(Append(s, p)) = Pids(s) \cup {p}
  <2>1. 1 .. Len(s) + 1 = (1 .. Len(s)) \cup {Len(s) + 1}
    BY <1>1
  <2> QED BY <1>1, <2>1 DEF Pids
<1>5. Alive' = Alive \cup {p}
  <2>1. \A t \in Term : Pids(tree'[t]) = IF t = fg THEN Pids(tree[t]) \cup {p}
                                                   ELSE Pids(tree[t])
    BY <1>2, <1>4 DEF s
  <2>2. Alive' = UNION {Pids(tree'[t]) : t \in Term}
    BY DEF Alive, Pids
  <2>3. \A r : r \in Alive' <=> \E t \in Term : r \in Pids(tree'[t])
    BY <2>2
  <2>4. \A r : r \in Alive <=> \E t \in Term : r \in Pids(tree[t])
    BY DEF Alive
  <2>5. \A r : r \in Alive' <=> r \in Alive \/ r = p
    BY <1>1, <2>1, <2>3, <2>4
  <2> QED BY <2>5
<1>6. ASSUME NEW t \in Term, tree'[t] # <<>>
      PROVE  tree'[t][1] = IF tree[t] = <<>> THEN p ELSE tree[t][1]
  <2>1. CASE t # fg
    BY <2>1, <1>2, <1>6
  <2>2. CASE t = fg /\ s = <<>>
    BY <2>2, <1>1, <1>2 DEF s
  <2>3. CASE t = fg /\ s # <<>>
    BY <2>3, <1>1, <1>2 DEF s
  <2> QED BY <2>1, <2>2, <2>3 DEF s
<1> QED BY <1>3, <1>5, <1>6

\* The program that runs is alive.
LEMMA FrontFacts ==
    ASSUME TypeOK, NoSharing, tree[fg] # <<>>
    PROVE  /\ Front \in Pid /\ Front \in Alive
           /\ Len(tree[fg]) \in Nat \ {0}
           /\ \A t \in Term : \A i \in 1 .. Len(tree[t]) :
                 tree[t][i] = Front => t = fg /\ i = Len(tree[fg])
<1>1. tree[fg] \in Seq(Pid) /\ Len(tree[fg]) \in Nat \ {0} /\ fg \in Term
  BY DEF TypeOK
<1>2. Front \in Pid
  BY <1>1 DEF Front
<1>3. Front \in Alive
  BY <1>1 DEF Front, Alive, Pids
<1>4. \A t \in Term : \A i \in 1 .. Len(tree[t]) :
         tree[t][i] = Front => t = fg /\ i = Len(tree[fg])
  BY <1>1 DEF NoSharing, Front
<1> QED BY <1>1, <1>2, <1>3, <1>4

\* A program that ends is not alive any more, and nobody else dies.
LEMMA AliveAfterExit ==
    ASSUME TypeOK, NoSharing, Exit
    PROVE  /\ Alive' = Alive \ {Front}
           /\ \A t \in Term : tree'[t] # <<>> => tree[t] # <<>> /\ tree'[t][1] = tree[t][1]
<1> DEFINE s == tree[fg]
           r == SubSeq(s, 1, Len(s) - 1)
<1>1. s \in Seq(Pid) /\ Len(s) \in Nat \ {0} /\ fg \in Term /\ s # <<>>
  BY DEF Exit, TypeOK
<1>2. Len(r) = Len(s) - 1 /\ \A i \in 1 .. Len(s) - 1 : r[i] = s[i]
  <2>1. \A i \in 1 .. Len(s) - 1 : s[i] \in Pid
    BY <1>1
  <2>2. 1 \in Int /\ Len(s) - 1 \in Int
    BY <1>1
  <2>3. /\ Len(r) = IF 1 <= Len(s) - 1 THEN (Len(s) - 1) - 1 + 1 ELSE 0
        /\ \A i \in 1 .. (Len(s) - 1) - 1 + 1 : r[i] = s[1 + i - 1]
    BY <2>1, <2>2, SubSeqProperties
  <2> QED BY <1>1, <2>3
<1>3. tree'[fg] = r /\ \A t \in Term : t # fg => tree'[t] = tree[t]
  BY DEF Exit, TypeOK
<1>4. /\ Front = s[Len(s)]
      /\ \A t \in Term : \A i \in 1 .. Len(tree[t]) :
            tree[t][i] = Front => t = fg /\ i = Len(s)
  BY <1>1, FrontFacts DEF Front
<1>5. r \in Seq(Pid)
  BY <1>1
<1> HIDE DEF r, s
<1>6. Pids(r) = Pids(s) \ {Front}
  <2>1. \A i \in 1 .. Len(s) - 1 : s[i] # Front
    BY <1>1, <1>4 DEF s
  <2>2. 1 .. Len(s) = (1 .. Len(s) - 1) \cup {Len(s)}
    BY <1>1
  <2> QED BY <1>2, <1>4, <2>1, <2>2 DEF Pids
<1>7. \A t \in Term : t # fg => Front \notin Pids(tree[t])
  BY <1>4 DEF Pids
<1>8. \A t \in Term : Pids(tree'[t]) = Pids(tree[t]) \ {Front}
  BY <1>3, <1>6, <1>7 DEF s
<1>9. Alive' = UNION {Pids(tree'[t]) : t \in Term}
  BY DEF Alive, Pids
<1>10. Alive' = Alive \ {Front}
  BY <1>8, <1>9 DEF Alive
<1>11. ASSUME NEW t \in Term, tree'[t] # <<>>
       PROVE  tree[t] # <<>> /\ tree'[t][1] = tree[t][1]
  <2>1. CASE t # fg
    BY <2>1, <1>3, <1>11
  <2>2. CASE t = fg
    <3>1. r # <<>>
      BY <2>2, <1>3, <1>11
    <3>2. Len(r) \in Nat \ {0}
      BY <3>1, <1>5
    <3>3. 1 \in 1 .. Len(s) - 1
      BY <3>2, <1>1, <1>2
    <3> QED BY <2>2, <3>3, <1>1, <1>2, <1>3 DEF s
  <2> QED BY <2>1, <2>2
<1> QED BY <1>10, <1>11

-----------------------------------------------------------------------------
(* The page and the flags, one action at a time. *)

\* execute, halt and vidmap keep the screen invariant.
LEMMA StartKeepsScreen ==
    ASSUME TypeOK, NoSharing, ScreenInv, NEW p \in Pid, NEW args, StartProgram(p, args)
    PROVE  ScreenInv'
<1>1. Spawn(p) /\ vidMap_flag' = [vidMap_flag EXCEPT ![p] = 0]
      /\ video_page' = video_page /\ mapper_gone' = mapper_gone
  BY DEF StartProgram, InitFlag
<1>2. /\ p \notin Alive /\ Alive' = Alive \cup {p}
      /\ \A t \in Term : tree'[t] # <<>> =>
            tree'[t][1] = IF tree[t] = <<>> THEN p ELSE tree[t][1]
  BY <1>1, AliveAfterSpawn
<1>3. /\ vidMap_flag' \in [Pid -> {0, 1}] /\ vidMap_flag'[p] = 0
      /\ \A q \in Alive : vidMap_flag'[q] = vidMap_flag[q]
  <2>1. Alive \subseteq Pid
    BY DEF TypeOK, Alive, Pids
  <2> QED BY <1>1, <1>2, <2>1 DEF ScreenInv
<1>4. OneMapper' /\ MapperKeepsScreen' /\ ScreenPageReclaimed'
  BY <1>1, <1>2, <1>3 DEF ScreenInv, OneMapper, MapperKeepsScreen, ScreenPageReclaimed
<1>5. BasesUnmapped'
  <2> SUFFICES ASSUME NEW t \in Term, tree'[t] # <<>> PROVE vidMap_flag'[tree'[t][1]] = 0
    BY DEF BasesUnmapped
  <2>1. CASE tree[t] = <<>>
    BY <2>1, <1>2, <1>3
  <2>2. CASE tree[t] # <<>>
    <3>1. tree[t][1] \in Alive
      BY <2>2 DEF TypeOK, Alive, Pids
    <3> QED BY <2>2, <3>1, <1>2, <1>3 DEF ScreenInv, BasesUnmapped
  <2> QED BY <2>1, <2>2
<1> QED BY <1>1, <1>3, <1>4, <1>5 DEF ScreenInv

LEMMA EndKeepsScreen ==
    ASSUME TypeOK, NoSharing, ScreenInv, NEW value, NEW end, Ends(value, end)
    PROVE  ScreenInv'
<1>1. /\ Exit /\ vidMap_flag' = vidMap_flag /\ tree[fg] # <<>>
      /\ IF IsBase THEN UNCHANGED <<video_page, mapper_gone>>
         ELSE /\ video_page' = IF vidMap_flag[Front] = 1 THEN FALSE ELSE video_page
              /\ mapper_gone' = (mapper_gone \/ vidMap_flag[Front] = 1)
  BY DEF Ends, Running, Reclaim
<1>2. /\ Alive' = Alive \ {Front} /\ Front \in Alive
      /\ \A t \in Term : tree'[t] # <<>> => tree[t] # <<>> /\ tree'[t][1] = tree[t][1]
  BY <1>1, AliveAfterExit, FrontFacts
<1>3. BasesUnmapped' /\ OneMapper'
  BY <1>1, <1>2 DEF ScreenInv, BasesUnmapped, OneMapper
<1>4. CASE vidMap_flag[Front] = 1
  <2>1. ~IsBase
    BY <1>1, <1>4 DEF ScreenInv, BasesUnmapped, IsBase, Front, TypeOK
  <2>2. ~video_page' /\ mapper_gone' \in BOOLEAN
    BY <1>1, <1>4, <2>1 DEF ScreenInv
  <2>3. \A p \in Alive' : vidMap_flag[p] # 1
    BY <1>2, <1>4 DEF ScreenInv, OneMapper
  <2> QED
    BY <1>1, <1>3, <2>2, <2>3 DEF ScreenInv, MapperKeepsScreen, ScreenPageReclaimed
<1>5. CASE vidMap_flag[Front] # 1
  <2>1. video_page' = video_page /\ mapper_gone' = mapper_gone
    BY <1>1, <1>5 DEF ScreenInv
  <2> QED
    BY <1>1, <1>2, <1>3, <1>5, <2>1 DEF ScreenInv, MapperKeepsScreen, ScreenPageReclaimed
<1> QED BY <1>4, <1>5

LEMMA MapKeepsScreen ==
    ASSUME TypeOK, NoSharing, ScreenInv, "two_mappers" \notin Habits,
           NEW a \in Addresses, VidMap(a)
    PROVE  ScreenInv'
<1>1. /\ tree' = tree /\ mapper_gone' = mapper_gone /\ tree[fg] # <<>> /\ ~IsBase
      /\ \A q \in Alive \ {Front} : vidMap_flag[q] = 0
  BY DEF VidMap, Running, vars
<1>2. Alive' = Alive
  BY <1>1 DEF Alive, Pids
<1>3. CASE InBounds(a)
  <2>1. vidMap_flag' = [vidMap_flag EXCEPT ![Front] = 1] /\ video_page' = TRUE
    BY <1>3 DEF VidMap, Marked
  <2>2. /\ Front \in Pid /\ Front \in Alive
        /\ \A t \in Term : \A i \in 1 .. Len(tree[t]) :
              tree[t][i] = Front => t = fg /\ i = Len(tree[fg])
    BY <1>1, FrontFacts
  <2>3. /\ vidMap_flag' \in [Pid -> {0, 1}] /\ vidMap_flag'[Front] = 1
        /\ \A q \in Pid \ {Front} : vidMap_flag'[q] = vidMap_flag[q]
    BY <2>1, <2>2 DEF ScreenInv
  <2>4. BasesUnmapped'
    <3> SUFFICES ASSUME NEW t \in Term, tree[t] # <<>> PROVE vidMap_flag'[tree[t][1]] = 0
      BY <1>1 DEF BasesUnmapped
    <3>1. tree[t][1] \in Pid /\ 1 \in 1 .. Len(tree[t])
      BY DEF TypeOK
    <3>2. tree[t][1] # Front
      BY <1>1, <2>2, <3>1 DEF IsBase
    <3> QED BY <2>3, <3>1, <3>2 DEF ScreenInv, BasesUnmapped
  <2>5. OneMapper'
    <3>1. Alive \subseteq Pid
      BY DEF TypeOK, Alive, Pids
    <3>2. \A q \in Alive : vidMap_flag'[q] = 1 => q = Front
      BY <1>1, <2>3, <3>1
    <3> QED BY <1>2, <3>2 DEF OneMapper
  <2>6. MapperKeepsScreen' /\ ScreenPageReclaimed'
    BY <1>2, <2>1, <2>2, <2>3 DEF MapperKeepsScreen, ScreenPageReclaimed
  <2> QED BY <1>1, <2>1, <2>3, <2>4, <2>5, <2>6 DEF ScreenInv
<1>4. CASE ~InBounds(a)
  <2>1. vidMap_flag' = vidMap_flag /\ video_page' = video_page
    BY <1>4 DEF VidMap
  <2> QED BY <1>1, <1>2, <2>1
         DEF ScreenInv, OneMapper, BasesUnmapped, MapperKeepsScreen, ScreenPageReclaimed
<1> QED BY <1>3, <1>4

LEMMA UnchangedScreen ==
    ASSUME ScreenInv, UNCHANGED <<tree, vidMap_flag, video_page, mapper_gone>>
    PROVE  ScreenInv'
  BY DEF ScreenInv, OneMapper, BasesUnmapped, MapperKeepsScreen, ScreenPageReclaimed, Alive, Pids

(* As long as no program maps the screen while another has it: at most one *)
(* living program has its flag set, and the page is there for it.          *)
THEOREM ScreenFollowsMapper ==
    ASSUME "two_mappers" \notin Habits
    PROVE  ProgramSpec => []ScreenInv
<1>1. ProgramInit => ScreenInv
  <2> SUFFICES ASSUME ProgramInit PROVE ScreenInv
    OBVIOUS
  <2>1. \A t \in Term : tree[t] = <<>>
    BY DEF ProgramInit, Init
  <2>2. Alive = {}
    BY <2>1 DEF Alive, Pids
  <2> QED BY <2>1, <2>2
     DEF ProgramInit, ScreenInv, OneMapper, BasesUnmapped, MapperKeepsScreen, ScreenPageReclaimed
<1>2. TypeOK /\ NoSharing /\ ScreenInv /\ [ProgramNext]_allvars => ScreenInv'
  <2> SUFFICES ASSUME TypeOK, NoSharing, ScreenInv, [ProgramNext]_allvars PROVE ScreenInv'
    OBVIOUS
  <2>1. ASSUME NEW t \in Term, Show(t) PROVE ScreenInv'
    BY <2>1, UnchangedScreen DEF Show, Open, Focus
  <2>2. CASE ShellStarts
    BY <2>2, StartKeepsScreen DEF ShellStarts
  <2>3. ASSUME NEW line \in Lines, Execute(line) PROVE ScreenInv'
    BY <2>3, StartKeepsScreen DEF Execute
  <2>4. ASSUME NEW line \in Lines, ExecuteFails(line) PROVE ScreenInv'
    BY <2>4, UnchangedScreen DEF ExecuteFails, vars
  <2>5. ASSUME NEW value \in ExitValues, Halt(value) PROVE ScreenInv'
    BY <2>5, EndKeepsScreen DEF Halt
  <2>6. CASE Exception
    BY <2>6, EndKeepsScreen DEF Exception
  <2>7. ASSUME NEW nbytes \in Requests, GetArgs(nbytes) PROVE ScreenInv'
    BY <2>7, UnchangedScreen DEF GetArgs, vars
  <2>8. ASSUME NEW a \in Addresses, VidMap(a) PROVE ScreenInv'
    BY <2>8, MapKeepsScreen
  <2>9. CASE UNCHANGED allvars
    BY <2>9, UnchangedScreen DEF allvars, vars, pvars
  <2> QED BY <2>1, <2>2, <2>3, <2>4, <2>5, <2>6, <2>7, <2>8, <2>9 DEF ProgramNext
<1> QED BY <1>1, <1>2, ProcessesApart, PTL DEF ProgramSpec

(* A program that called vidmap keeps the page until it halts, whatever    *)
(* other programs start, fault and halt on any terminal.                   *)
THEOREM MapperKeeps ==
    ASSUME "two_mappers" \notin Habits
    PROVE  ProgramSpec => []MapperKeepsScreen
<1>1. ScreenInv => MapperKeepsScreen
  BY DEF ScreenInv
<1> QED BY <1>1, ScreenFollowsMapper, PTL

(* After the first mapper's halt the page is there only for a living one:  *)
(* reclaim_video_memory is missed by no halt that has to call it.          *)
THEOREM PageReclaimed ==
    ASSUME "two_mappers" \notin Habits
    PROVE  ProgramSpec => []ScreenPageReclaimed
<1>1. ScreenInv => ScreenPageReclaimed
  BY DEF ScreenInv
<1> QED BY <1>1, ScreenFollowsMapper, PTL

-----------------------------------------------------------------------------
(* The value execute returns tells a missing program, an exception and a   *)
(* value apart, as long as programs end with less than 255.                *)
THEOREM StatusTellsApart ==
    ASSUME ExitValues \subseteq 0 .. 254
    PROVE  ProgramSpec => []StatusTells
<1>1. ProgramInit => StatusTells
  <2> SUFFICES ASSUME ProgramInit PROVE StatusTells
    OBVIOUS
  <2>1. result.call = "none"
    BY DEF ProgramInit, NoCall
  <2> QED BY <2>1, "none" # "execute", Zenon DEF StatusTells
<1>2. StatusTells /\ [ProgramNext]_allvars => StatusTells'
  <2> SUFFICES ASSUME StatusTells, [ProgramNext]_allvars PROVE StatusTells'
    OBVIOUS
  <2>1. ASSUME result' = NoCall PROVE StatusTells'
    <3>1. result'.call = "none"
      BY <2>1 DEF NoCall
    <3> QED BY <3>1, "none" # "execute", Zenon DEF StatusTells
  <2>2. ASSUME NEW line \in Lines, ExecuteFails(line) PROVE StatusTells'
    <3>1. result'.rv = -1 /\ result'.end = "not started"
      BY <2>2 DEF ExecuteFails
    <3>2. result'.rv # EXCEPTION_STATUS
      <4>1. EXCEPTION_STATUS # -1
        BY DEF EXCEPTION_STATUS
      <4> QED BY <3>1, <4>1
    <3>3. "not started" # "exception" /\ "not started" # "halt"
      OBVIOUS
    <3> QED BY <3>1, <3>2, <3>3, Zenon DEF StatusTells
  <2>3. ASSUME NEW value \in ExitValues, Halt(value) PROVE StatusTells'
    <3>1. value % 256 = value /\ value # 255 /\ value # 256 /\ value # -1
      <4>1. value \in 0 .. 254
        OBVIOUS
      <4> QED BY <4>1
    <3>2. Status(value) = value
      BY <3>1 DEF Status
    <3>3. CASE ~IsBase
      <4>1. result'.rv = value /\ result'.end = "halt" /\ result'.value = value
        BY <2>3, <3>2, <3>3 DEF Halt, Ends
      <4> QED BY <3>1, <4>1 DEF StatusTells, EXCEPTION_STATUS
    <3> QED BY <2>1, <2>3, <3>3 DEF Halt, Ends
  <2>4. CASE Exception
    <3>1. Status(255) = 256
      BY DEF Status, EXCEPTION_STATUS
    <3>2. CASE ~IsBase
      <4>1. result'.rv = 256 /\ result'.end = "exception"
        BY <2>4, <3>1, <3>2 DEF Exception, Ends
      <4>2. result'.rv # -1
        BY <4>1
      <4>3. "exception" # "not started" /\ "exception" # "halt"
        OBVIOUS
      <4> QED BY <4>1, <4>2, <4>3, Zenon DEF StatusTells, EXCEPTION_STATUS
    <3> QED BY <2>1, <2>4, <3>2 DEF Exception, Ends
  <2>5. ASSUME NEW nbytes \in Requests, GetArgs(nbytes) PROVE StatusTells'
    <3>1. result'.call = "getargs"
      BY <2>5 DEF GetArgs
    <3> QED BY <3>1, "getargs" # "execute", Zenon DEF StatusTells
  <2>6. ASSUME NEW a \in Addresses, VidMap(a) PROVE StatusTells'
    <3>1. result'.call = "vidmap"
      BY <2>6 DEF VidMap
    <3> QED BY <3>1, "vidmap" # "execute", Zenon DEF StatusTells
  <2>7. ASSUME UNCHANGED result PROVE StatusTells'
    BY <2>7 DEF StatusTells
  <2> QED
    BY <2>1, <2>2, <2>3, <2>4, <2>5, <2>6, <2>7
       DEF ProgramNext, Show, ShellStarts, Execute, StartProgram, allvars, pvars
<1> QED BY <1>1, <1>2, PTL DEF ProgramSpec

-----------------------------------------------------------------------------
(* The command line: what execute cuts out is what was typed. *)

\* Every nonempty set of naturals has a least member.
LEMMA LeastNat ==
    ASSUME NEW T \in SUBSET Nat, T # {}
    PROVE  \E n \in T : \A m \in T : n <= m
<1>1. PICK k \in T : TRUE
  OBVIOUS
<1> DEFINE S == 0 .. k
           R == StrictSubsetOrdering(S)
           F == {0 .. n : n \in T \cap S}
<1>2. k \in Nat /\ S \in SUBSET Nat /\ k \in S
  OBVIOUS
<1>3. IsFiniteSet(S)
  <2>1. 0 \in Int /\ k \in Int
    BY <1>2
  <2>2. QED BY <2>1, FS_Interval
<1>4. IsWellFoundedOn(R, FiniteSubsetsOf(S)) /\ FiniteSubsetsOf(S) = SUBSET S
  BY <1>3, FS_StrictSubsetOrderingWellFounded, FS_FiniteSubsetsOfFinite
<1>5. F \subseteq SUBSET S /\ F # {}
  BY <1>2
<1>6. PICK x \in F : \A y \in F : ~(<<y, x>> \in R)
  <2> HIDE DEF R, F, S
  <2>1. QED BY <1>4, <1>5, WFMin
<1>7. PICK n \in T \cap S : x = 0 .. n
  BY <1>6
<1>8. ASSUME NEW m \in T, m < n PROVE FALSE
  <2>1. m \in S /\ (0 .. m) \in F
    BY <1>2, <1>7, <1>8
  <2>2. <<0 .. m, x>> \in R
    <3>1. 0 .. m \subseteq x /\ 0 .. m # x /\ 0 .. m \in SUBSET S /\ x \in SUBSET S
      <4>1. n \in 0 .. n /\ n \notin 0 .. m
        BY <1>7, <1>8
      <4>2. QED BY <1>5, <1>6, <1>7, <1>8, <2>1, <4>1
    <3> HIDE DEF S
    <3>2. QED BY <3>1 DEF StrictSubsetOrdering
  <2>3. QED BY <1>6, <2>1, <2>2
<1>9. \A m \in T : n <= m
  BY <1>7, <1>8
<1>10. QED BY <1>7, <1>9

\* The search of execute ends at the first hit or behind the buffer.
LEMMA FirstInFacts ==
    ASSUME NEW S \in SUBSET Cells, NEW i \in Nat
    PROVE  LET e == FirstIn(S, i) IN
           /\ (\E j \in S : j >= i) => e \in S /\ e >= i /\ \A k \in S : k >= i => e <= k
           /\ ~(\E j \in S : j >= i) => e = KEYBOARD_BUFFER_SIZE
<1>1. S \in SUBSET Nat
  BY DEF Cells
<1>2. ASSUME \E j \in S : j >= i
      PROVE  \E j \in S : j >= i /\ \A k \in S : k >= i => j <= k
  <2> DEFINE T == {j \in S : j >= i}
  <2>1. T \in SUBSET Nat /\ T # {}
    BY <1>1, <1>2
  <2>2. \E n \in T : \A m \in T : n <= m
    <3> HIDE DEF T
    <3>1. QED BY <2>1, LeastNat
  <2>3. QED BY <2>2
<1>3. QED BY <1>2 DEF FirstIn

\* A line of length n: i blanks, a word up to j, blanks up to h, and the rest, which starts
\* with another word; without a first word there is no rest.
Bounds(n, i, j, h) ==
    i \in 0 .. n /\ j \in 0 .. n /\ h \in 0 .. n /\ i <= j /\ j <= h

Splits(line, n, i, j, h) ==
    /\ Bounds(n, i, j, h)
    /\ \A k \in 1 .. i : line[k] = " "
    /\ \A k \in i + 1 .. j : line[k] # " "
    /\ \A k \in j + 1 .. h : line[k] = " "
    /\ i = j => h = n
    /\ h < n => line[h + 1] # " " /\ j < h

\* A line splits in one way only.
LEMMA OneSplit ==
    ASSUME NEW line, NEW n \in Nat, NEW i \in Nat, NEW j \in Nat, NEW h \in Nat,
           Splits(line, n, i, j, h),
           NEW i2 \in Nat, NEW j2 \in Nat, NEW h2 \in Nat, Splits(line, n, i2, j2, h2)
    PROVE  ~(h < h2)
<1> SUFFICES ASSUME h < h2 PROVE FALSE
  OBVIOUS
<1>1. /\ i <= n /\ j <= n /\ h <= n /\ i <= j /\ j <= h
      /\ i2 <= n /\ j2 <= n /\ h2 <= n /\ i2 <= j2 /\ j2 <= h2
  <2>1. Bounds(n, i, j, h) /\ Bounds(n, i2, j2, h2)
    BY DEF Splits
  <2>2. QED BY <2>1 DEF Bounds
<1>2. h < n /\ h # n
  BY <1>1
<1>3. j < h /\ i # j
  <2>1. j < h
    BY <1>2 DEF Splits
  <2>2. i # j
    BY <1>2 DEF Splits
  <2>3. QED BY <2>1, <2>2
<1>4. i < j
  BY <1>1, <1>3
<1>5. h + 1 \in 1 .. h2 /\ i + 1 \in i + 1 .. j /\ j + 1 \in j + 1 .. h
  BY <1>3, <1>4
<1>6. line[h + 1] # " " /\ line[i + 1] # " " /\ line[j + 1] = " "
  BY <1>2, <1>5 DEF Splits
<1>7. i2 < h + 1 /\ h + 1 <= j2
  <2>1. h + 1 \notin 1 .. i2 /\ h + 1 \notin j2 + 1 .. h2
    BY <1>6 DEF Splits
  <2>2. QED BY <1>5, <2>1
<1>8. i2 <= i
  <2>1. ASSUME i < i2 PROVE FALSE
    <3>1. i + 1 \in 1 .. i2
      BY <2>1
    <3>2. QED BY <1>6, <3>1 DEF Splits
  <2>2. QED BY <2>1
<1>9. j + 1 \in i2 + 1 .. j2
  BY <1>3, <1>4, <1>7, <1>8
<1>10. QED BY <1>6, <1>9 DEF Splits

\* So the arguments a user means are what lies behind the split.
LEMMA TypedArgsOf ==
    ASSUME NEW line \in Lines, NEW n, n = Len(line), NEW i, NEW j, NEW h,
           Splits(line, n, i, j, h)
    PROVE  TypedArgs(line) = SubSeq(line, h + 1, n)
<1> DEFINE A == {SubSeq(line, m, n) : m \in 1 .. n + 1}
           P(a) == \E i2, j2 \in 0 .. n :
            /\ i2 <= j2 /\ j2 + Len(a) <= n
            /\ \A k \in 1 .. i2 : line[k] = " "
            /\ \A k \in i2 + 1 .. j2 : line[k] # " "
            /\ \A k \in j2 + 1 .. n - Len(a) : line[k] = " "
            /\ i2 = j2 => a = <<>>
            /\ a # <<>> => a[1] # " " /\ j2 < n - Len(a)
           a0 == SubSeq(line, h + 1, n)
<1>1. line \in Seq(Char \ {NUL}) /\ n \in Nat
  BY TextAssumption
<1>2. ASSUME NEW m \in 1 .. n + 1
      PROVE  LET a == SubSeq(line, m, n) IN
             /\ Len(a) = n - m + 1 /\ m - 1 \in 0 .. n /\ n - Len(a) = m - 1
             /\ a = <<>> <=> m = n + 1
             /\ m # n + 1 => a[1] = line[m]
  <2> DEFINE a == SubSeq(line, m, n)
  <2>1. a \in Seq(Char \ {NUL}) /\ Len(a) = n - m + 1 /\ \A k \in 1 .. n - m + 1 : a[k] = line[m + k - 1]
    BY <1>1
  <2> HIDE DEF a
  <2>2. m \in Nat /\ m - 1 \in 0 .. n /\ n - (n - m + 1) = m - 1 /\ (m = n + 1 <=> n - m + 1 = 0)
    BY <1>1
  <2>3. a = <<>> <=> Len(a) = 0
    BY <2>1
  <2>4. m # n + 1 => 1 \in 1 .. n - m + 1 /\ m + 1 - 1 = m
    BY <1>1
  <2>5. QED BY <2>1, <2>2, <2>3, <2>4 DEF a
<1>3. h \in 0 .. n /\ h + 1 \in 1 .. n + 1 /\ (h + 1) - 1 = h
  <2>1. h \in 0 .. n
    BY DEF Splits, Bounds
  <2>2. QED BY <1>1, <2>1
<1>4. a0 \in A /\ P(a0)
  <2>1. a0 \in A
    BY <1>3
  <2>2. /\ Len(a0) = n - (h + 1) + 1 /\ n - Len(a0) = (h + 1) - 1
        /\ (a0 = <<>> <=> h + 1 = n + 1) /\ (h + 1 # n + 1 => a0[1] = line[h + 1])
    BY <1>2, <1>3
  <2> HIDE DEF a0
  <2>3. i \in 0 .. n /\ j \in 0 .. n /\ i <= j /\ j <= h
    BY DEF Splits, Bounds
  <2>7. h \in Nat /\ n - h \in Nat /\ n - (h + 1) + 1 = n - h /\ (h + 1 = n + 1 <=> h = n)
    BY <1>1, <1>3
  <2>8. Len(a0) = n - h /\ n - Len(a0) = h /\ (a0 = <<>> <=> h = n) /\ (h # n => a0[1] = line[h + 1])
    BY <1>3, <2>2, <2>7
  <2>4. j + Len(a0) <= n
    BY <1>1, <1>3, <2>8, <2>3
  <2>5. h # n => h < n
    BY <1>1, <1>3
  <2>6. QED BY <2>1, <2>8, <2>3, <2>4, <2>5 DEF Splits, Bounds
<1>5. ASSUME NEW a \in A, P(a) PROVE a = a0
  <2>1. PICK m \in 1 .. n + 1 : a = SubSeq(line, m, n)
    OBVIOUS
  <2> DEFINE g == m - 1
  <2>2. Len(a) = n - g /\ g \in 0 .. n /\ n - Len(a) = g /\ (a = <<>> <=> g = n) /\ (g # n => a[1] = line[g + 1]) /\ g + 1 = m
    BY <1>1, <1>2, <2>1
  <2>3. PICK i2, j2 \in 0 .. n :
            /\ i2 <= j2 /\ j2 + Len(a) <= n
            /\ \A k \in 1 .. i2 : line[k] = " "
            /\ \A k \in i2 + 1 .. j2 : line[k] # " "
            /\ \A k \in j2 + 1 .. n - Len(a) : line[k] = " "
            /\ i2 = j2 => a = <<>>
            /\ a # <<>> => a[1] # " " /\ j2 < n - Len(a)
    BY <1>5
  <2> HIDE DEF g
  <2>9. g \in Nat /\ g <= n /\ i2 \in Nat /\ j2 \in Nat /\ h \in Nat /\ i \in Nat /\ j \in Nat
    <3>1. i \in 0 .. n /\ j \in 0 .. n /\ h \in 0 .. n
      BY DEF Splits, Bounds
    <3>2. g \in 0 .. n
      BY <2>2
    <3>3. QED BY <1>1, <3>1, <3>2
  <2>4. j2 <= g
    <3>1. j2 + (n - g) <= n
      BY <2>2, <2>3
    <3>2. QED BY <1>1, <2>9, <3>1
  <2>5. Splits(line, n, i2, j2, g)
    <3>1. g < n => g # n
      BY <1>1, <2>2
    <3>2. QED BY <2>2, <2>3, <2>4, <3>1 DEF Splits, Bounds
  <2>6. ~(g < h) /\ ~(h < g)
    BY <1>1, <2>5, <2>9, OneSplit
  <2>7. g = h
    BY <1>1, <1>3, <2>2, <2>6
  <2>8. QED BY <2>1, <2>2, <2>7
<1>6. TypedArgs(line) = CHOOSE a \in A : P(a)
  BY DEF TypedArgs
<1> HIDE DEF A, P, a0
<1>7. QED BY <1>4, <1>5, <1>6 DEF a0

\* Between the stages of execute: a line in its buffer.
LEMMA ReadFacts ==
    ASSUME NEW line \in Lines, NEW b, b = Read(line)
    PROVE  /\ Len(line) \in Cells /\ line \in Seq(Char \ {NUL})
           /\ \A k \in Cells : k < Len(line) => b[k] = line[k + 1] /\ b[k] # NUL
           /\ \A k \in Cells : ~(k < Len(line)) => b[k] = NUL
<1> DEFINE n == Len(line)
<1>1. n \in Nat /\ n < KEYBOARD_BUFFER_SIZE /\ line \in Seq(Char \ {NUL})
  BY TextAssumption
<1>2. ASSUME NEW k \in Cells, k < n PROVE b[k] = line[k + 1] /\ b[k] # NUL
  <2>1. k + 1 \in 1 .. Len(line)
    BY <1>1, <1>2 DEF Cells
  <2>2. line[k + 1] \in Char \ {NUL}
    BY <1>1, <2>1
  <2>3. QED BY <1>2, <2>2 DEF Read
<1>3. ASSUME NEW k \in Cells, ~(k < n) PROVE b[k] = NUL
  BY <1>3 DEF Read
<1>4. n \in Cells
  BY <1>1, ProgramAssumption DEF Cells
<1>5. QED BY <1>1, <1>2, <1>3, <1>4

(* What the searches of execute cut out of the shell's buffer is what was  *)
(* typed behind the name: the buffer is cleared up to where they stop, and *)
(* a command without a blank is searched to its end, where nothing lies    *)
(* (the hypothesis on Behind).                                             *)
LEMMA ArgumentsAsTyped ==
    ASSUME NEW line \in Lines, NEW b, b = Read(line), Behind = <<>>
    PROVE  Text(b, argIdx(b)) = TypedArgs(line) /\ TypedArgs(line) \in Seq(Char)
<1> DEFINE n == Len(line)
           W == Not(b, {" "})
           B == IsIn(b, {" "})
           Z == IsIn(b, {NUL})
           f == fnIdx(b)
           e == NameEnd(b)
           g == argIdx(b)
<1>1. /\ n \in Cells /\ line \in Seq(Char \ {NUL})
      /\ \A k \in Cells : k < n => b[k] = line[k + 1] /\ b[k] # NUL
      /\ \A k \in Cells : ~(k < n) => b[k] = NUL
  <2>1. /\ Len(line) \in Cells /\ line \in Seq(Char \ {NUL})
        /\ \A k \in Cells : k < Len(line) => b[k] = line[k + 1] /\ b[k] # NUL
        /\ \A k \in Cells : ~(k < Len(line)) => b[k] = NUL
    <3> HIDE DEF n, W, B, Z, f, e, g
    <3>1. line \in Lines /\ b = Read(line)
      OBVIOUS
    <3>2. QED BY <3>1, ReadFacts, Zenon
  <2>2. QED BY <2>1
<1>a. n \in Nat /\ n \in Cells
  BY <1>1 DEF Cells
<1>b. b[n] = NUL
  <2>1. ~(n < n)
    BY <1>a
  <2>2. QED BY <1>1, <2>1
<1>2. /\ W \in SUBSET Cells /\ B \in SUBSET Cells /\ Z \in SUBSET Cells
      /\ \A k \in Cells : (k \in B <=> b[k] = " ") /\ (k \in W <=> k \notin B) /\ (k \in Z <=> b[k] = NUL)
  BY DEF Not, IsIn
<1>3. n \in W /\ n \in Z /\ n \notin B
  <2>1. NUL # " "
    BY DEF NUL
  <2>2. QED BY <1>2, <1>a, <1>b, <2>1
<1>4. \A k \in Nat : k < n => k \in Cells /\ k \notin Z /\ b[k] = line[k + 1]
                               /\ (k \in B <=> line[k + 1] = " ")
  <2>1. ASSUME NEW k \in Nat, k < n PROVE k \in Cells
    BY <1>a, <2>1, ProgramAssumption DEF Cells
  <2>2. ASSUME NEW k \in Nat, k < n PROVE b[k] = line[k + 1] /\ b[k] # NUL
    BY <1>1, <2>1, <2>2
  <2>3. QED BY <1>2, <2>1, <2>2
<1>5. \A k : k \in Cells <=> k \in Nat /\ k < KEYBOARD_BUFFER_SIZE
  BY ProgramAssumption DEF Cells
<1>6. KEYBOARD_BUFFER_SIZE \in Nat
  BY ProgramAssumption
<1>7. f = FirstIn(W, 0) /\ e = FirstIn(B, f) /\ g = FirstIn(W, e)
      /\ \A k \in B : k \in Nat /\ k < n
  <2>1. ASSUME NEW k \in B PROVE k \in Nat /\ k < n
    <3>1. k \in Cells /\ b[k] = " "
      BY <1>2
    <3>2. NUL # " "
      BY DEF NUL
    <3>3. k < n
      BY <1>1, <3>1, <3>2
    <3>4. QED BY <1>5, <3>1, <3>3
  <2>2. QED BY <2>1 DEF fnIdx, NameEnd, argIdx
<1> HIDE DEF n, W, B, Z, f, e, g
<1>8. f \in W /\ f \in Nat /\ f <= n /\ \A k \in Nat : k < f => k \notin W
  <2>1. n >= 0 /\ 0 \in Nat
    BY <1>a
  <2>2. f \in W /\ f >= 0 /\ \A k \in W : k >= 0 => f <= k
    BY <1>2, <1>3, <1>7, <2>1, FirstInFacts
  <2>3. f \in Nat
    BY <1>2, <1>5, <2>2
  <2>4. f <= n
    BY <1>3, <2>1, <2>2
  <2>5. ASSUME NEW k \in Nat, k < f, k \in W PROVE FALSE
    <3>1. f <= k
      BY <2>2, <2>5
    <3>2. QED BY <2>3, <2>5, <3>1
  <2>6. QED BY <2>2, <2>3, <2>4, <2>5
<1>9. \A k \in 1 .. f : line[k] = " "
  <2> SUFFICES ASSUME NEW k \in 1 .. f PROVE line[k] = " "
    OBVIOUS
  <2>1. k - 1 \in Nat /\ k - 1 < f /\ k - 1 < n /\ k - 1 + 1 = k
    BY <1>a, <1>8
  <2>2. k - 1 \in Cells /\ k - 1 \notin W
    BY <1>4, <1>8, <2>1
  <2>3. k - 1 \in B
    BY <1>2, <2>2
  <2> DEFINE m == k - 1
  <2>4. m \in Nat /\ m < n /\ m + 1 = k /\ m \in B
    BY <2>1, <2>3
  <2> HIDE DEF m
  <2>5. QED BY <1>4, <2>4
<1>10. CASE \E k \in B : k >= f
  <2>1. e \in B /\ e >= f /\ \A k \in B : k >= f => e <= k
    BY <1>2, <1>7, <1>8, <1>10, FirstInFacts
  <2>2. e \in Nat /\ e < n /\ f < e
    <3>1. e \in Nat /\ e < n
      BY <1>7, <2>1
    <3>2. e # f
      BY <1>2, <1>8, <2>1
    <3>3. QED BY <1>8, <2>1, <3>1, <3>2
  <2>3. \A k \in f + 1 .. e : line[k] # " "
    <3> SUFFICES ASSUME NEW k \in f + 1 .. e PROVE line[k] # " "
      OBVIOUS
    <3> DEFINE m == k - 1
    <3>1. m \in Nat /\ m >= f /\ m < n /\ m + 1 = k /\ ~(e <= m)
      BY <1>a, <1>8, <2>2
    <3> HIDE DEF m
    <3>2. m \notin B
      BY <2>1, <3>1
    <3>3. QED BY <1>4, <3>1, <3>2
  <2>4. g \in W /\ g >= e /\ \A k \in W : k >= e => g <= k
    <3>1. n >= e
      BY <1>a, <2>2
    <3>2. QED BY <1>2, <1>3, <1>7, <2>2, <3>1, FirstInFacts
  <2>5. g \in Nat /\ g <= n /\ e < g
    <3>1. g \in Nat
      BY <1>2, <1>5, <2>4
    <3>2. n >= e
      BY <1>a, <2>2
    <3>3. g <= n
      BY <1>3, <2>4, <3>2
    <3>4. g # e
      BY <1>2, <2>1, <2>4
    <3>5. QED BY <2>2, <2>4, <3>1, <3>3, <3>4
  <2>6. \A k \in e + 1 .. g : line[k] = " "
    <3> SUFFICES ASSUME NEW k \in e + 1 .. g PROVE line[k] = " "
      OBVIOUS
    <3> DEFINE m == k - 1
    <3>1. m \in Nat /\ m >= e /\ m < n /\ m + 1 = k /\ ~(g <= m)
      BY <1>a, <2>2, <2>5
    <3> HIDE DEF m
    <3>2. m \in Cells /\ m \notin W
      BY <1>4, <2>4, <3>1
    <3>3. m \in B
      BY <1>2, <3>2
    <3>4. QED BY <1>4, <3>1, <3>3
  <2>7. g < n => line[g + 1] # " "
    BY <1>2, <1>4, <2>4, <2>5
  <2>8. Splits(line, n, f, e, g)
    <3>1. Bounds(n, f, e, g) /\ f # e
      BY <1>a, <1>8, <2>2, <2>5 DEF Bounds
    <3>2. QED BY <1>9, <2>3, <2>5, <2>6, <2>7, <3>1 DEF Splits
  <2>9. TypedArgs(line) = SubSeq(line, g + 1, n)
    BY <2>8, TypedArgsOf DEF n
  <2>10. FirstIn(Z, g) = n
    <3> DEFINE z == FirstIn(Z, g)
    <3>1. n >= g
      BY <1>a, <2>5
    <3>2. z \in Z /\ z >= g /\ \A k \in Z : k >= g => z <= k
      BY <1>2, <1>3, <2>5, <3>1, FirstInFacts
    <3>3. z \in Nat
      BY <1>2, <1>5, <3>2
    <3> HIDE DEF z
    <3>4. z <= n
      BY <1>3, <3>1, <3>2
    <3>5. ~(z < n)
      BY <1>4, <3>2, <3>3
    <3>6. z = n
      BY <1>a, <3>3, <3>4, <3>5
    <3>7. QED BY <3>6 DEF z
  <2>11. n # KEYBOARD_BUFFER_SIZE
    BY <1>a, <1>5, <1>6
  <2>12. Text(b, g) = [k \in 1 .. n - g |-> b[g + k - 1]] \o <<>>
    BY <2>10, <2>11 DEF Text, Z
  <2>13. /\ SubSeq(line, g + 1, n) \in Seq(Char \ {NUL})
         /\ Len(SubSeq(line, g + 1, n)) = n - g
         /\ \A k \in 1 .. n - g : SubSeq(line, g + 1, n)[k] = line[(g + 1) + k - 1]
    <3>1. \A k \in g + 1 .. n : line[k] \in Char \ {NUL}
      <4>1. \A k \in g + 1 .. n : k \in 1 .. Len(line)
        BY <1>a, <2>5 DEF n
      <4>2. QED BY <1>1, <4>1
    <3>2. g + 1 \in Int /\ n \in Int /\ n - (g + 1) + 1 = n - g /\ (~(g + 1 <= n) => n - g = 0)
      BY <1>a, <2>5
    <3>3. QED BY <3>1, <3>2, SubSeqProperties
  <2>14. [k \in 1 .. n - g |-> b[g + k - 1]] = SubSeq(line, g + 1, n)
    <3> DEFINE s == SubSeq(line, g + 1, n)
    <3>1. ASSUME NEW k \in 1 .. n - g PROVE b[g + k - 1] = s[k]
      <4>1. g + k - 1 \in Nat /\ g + k - 1 < n /\ g + k - 1 + 1 = (g + 1) + k - 1
        BY <1>a, <2>5
      <4>2. QED BY <1>4, <2>13, <4>1
    <3>2. s = [k \in 1 .. n - g |-> s[k]]
      BY <2>13
    <3> HIDE DEF s
    <3>3. [k \in 1 .. n - g |-> b[g + k - 1]] = s
      BY <3>1, <3>2
    <3>4. QED BY <3>3 DEF s
  <2>15. Text(b, g) = SubSeq(line, g + 1, n)
    BY <2>12, <2>13, <2>14, ConcatEmptySeq
  <2>16. SubSeq(line, g + 1, n) \in Seq(Char)
    BY <2>13
  <2>17. QED BY <2>9, <2>15, <2>16 DEF g
<1>11. CASE ~\E k \in B : k >= f
  <2>1. e = KEYBOARD_BUFFER_SIZE
    BY <1>2, <1>7, <1>8, <1>11, FirstInFacts
  <2>2. \A k \in Cells : ~(k >= KEYBOARD_BUFFER_SIZE)
    BY <1>5, <1>6
  <2>3. g = KEYBOARD_BUFFER_SIZE
    <3>1. g = FirstIn(W, KEYBOARD_BUFFER_SIZE)
      BY <1>7, <2>1
    <3>2. QED BY <1>2, <1>6, <2>2, <3>1, FirstInFacts
  <2>4. FirstIn(Z, KEYBOARD_BUFFER_SIZE) = KEYBOARD_BUFFER_SIZE
    BY <1>2, <1>6, <2>2, FirstInFacts
  <2>5. Text(b, g) = <<>>
    <3> DEFINE none == [k \in 1 .. KEYBOARD_BUFFER_SIZE - KEYBOARD_BUFFER_SIZE
                           |-> b[KEYBOARD_BUFFER_SIZE + k - 1]]
    <3>1. Text(b, g) = none \o <<>>
      BY <2>3, <2>4 DEF Text, Z
    <3>2. KEYBOARD_BUFFER_SIZE - KEYBOARD_BUFFER_SIZE = 0
      BY <1>6
    <3>3. none = <<>>
      <4>1. 1 .. (KEYBOARD_BUFFER_SIZE - KEYBOARD_BUFFER_SIZE) = {}
        BY <3>2
      <4>2. none = [k \in {} |-> b[KEYBOARD_BUFFER_SIZE + k - 1]]
        BY <4>1
      <4>3. QED BY <4>2
    <3>4. <<>> \o <<>> = <<>>
      OBVIOUS
    <3>5. QED BY <3>1, <3>3, <3>4
  <2>6. \A k \in f + 1 .. n : line[k] # " "
    <3> SUFFICES ASSUME NEW k \in f + 1 .. n PROVE line[k] # " "
      OBVIOUS
    <3> DEFINE m == k - 1
    <3>1. m \in Nat /\ m >= f /\ m < n /\ m + 1 = k
      BY <1>a, <1>8
    <3> HIDE DEF m
    <3>2. m \notin B
      BY <1>11, <3>1
    <3>3. QED BY <1>4, <3>1, <3>2
  <2>7. Splits(line, n, f, n, n)
    <3>1. Bounds(n, f, n, n) /\ ~(n < n)
      BY <1>a, <1>8 DEF Bounds
    <3>2. \A k \in n + 1 .. n : line[k] = " "
      <4>1. n + 1 .. n = {}
        BY <1>a
      <4>2. QED BY <4>1
    <3>3. QED BY <1>9, <2>6, <3>1, <3>2 DEF Splits
  <2>8. TypedArgs(line) = SubSeq(line, n + 1, n)
    BY <2>7, TypedArgsOf DEF n
  <2>9. SubSeq(line, n + 1, n) = <<>>
    <3>1. n + 1 \in Int /\ n \in Int /\ ~(n + 1 <= n) /\ \A k \in n + 1 .. n : line[k] \in Char
      BY <1>a
    <3>2. SubSeq(line, n + 1, n) \in Seq(Char) /\ Len(SubSeq(line, n + 1, n)) = 0
      BY <3>1, SubSeqProperties
    <3>3. QED BY <3>2
  <2>10. <<>> \in Seq(Char)
    OBVIOUS
  <2>11. QED BY <2>5, <2>8, <2>9, <2>10 DEF g
<1>12. QED BY <1>10, <1>11

-----------------------------------------------------------------------------
(* getargs *)

AllText == Char \cup UNION {{text[k] : k \in 1 .. Len(text)} : text \in BehindLiteral}

ArgsInv ==
    /\ arguments = typed
    /\ typed \in [Pid -> Seq(AllText)]
    /\ GetargsDelivers

\* A step whose result is not that of getargs leaves nothing to show for it.
LEMMA OtherCall ==
    ASSUME result'.call \in {"none", "execute", "vidmap"}
    PROVE  GetargsDelivers'
<1>1. result'.call # "getargs"
  OBVIOUS
<1>2. QED BY <1>1, Zenon DEF GetargsDelivers

\* What every program is started with is what was typed for it.
LEMMA StartDelivers ==
    ASSUME ArgsInv, NEW p \in Pid, NEW args \in Seq(AllText), StartProgram(p, args),
           typed' = [typed EXCEPT ![p] = args]
    PROVE  ArgsInv'
<1>1. arguments' = [arguments EXCEPT ![p] = args] /\ result'.call = "none"
  BY DEF StartProgram, NoCall
<1>2. GetargsDelivers'
  BY <1>1, OtherCall
<1>3. arguments' = typed' /\ typed' \in [Pid -> Seq(AllText)]
  BY <1>1 DEF ArgsInv
<1>4. QED BY <1>2, <1>3 DEF ArgsInv

\* getargs itself: the copy and the byte behind it.
LEMMA GetArgsDelivers ==
    ASSUME TypeOK, NoSharing, ArgsInv, NEW nbytes \in Requests, GetArgs(nbytes)
    PROVE  GetargsDelivers'
<1> DEFINE args == typed[Front]
           stored == StrNCpy(args, nbytes)
<1>1. tree' = tree /\ fg' = fg /\ typed' = typed /\ tree[fg] # <<>>
  BY DEF GetArgs, Running, vars
<1>2. Front \in Pid
  BY <1>1, FrontFacts
<1>3. args \in Seq(AllText) /\ args = arguments[Front] /\ nbytes \in Int
  BY <1>2, ProgramAssumption DEF ArgsInv
<1>4. Len(args) \in Nat /\ (args # <<>> => Len(args) > 0)
  BY <1>3
<1>5. result'.call = "getargs" /\ result'.nbytes = nbytes
      /\ IF nbytes <= 0 \/ args = <<>> \/ Len(args) > nbytes
         THEN result'.rv = -1 ELSE result'.rv = 0 /\ result'.stored = stored
  BY <1>3 DEF GetArgs
<1>6. ASSUME args # <<>>, Len(args) <= nbytes
      PROVE  /\ ~(nbytes <= 0 \/ args = <<>> \/ Len(args) > nbytes)
             /\ 0 .. Len(args) \subseteq DOMAIN stored
             /\ \A i \in 1 .. Len(args) : stored[i - 1] = args[i]
             /\ stored[Len(args)] = NUL
  <2> DEFINE n == Len(args)
  <2>1. n \in Nat /\ n > 0 /\ n <= nbytes /\ nbytes \in Nat
    BY <1>3, <1>4, <1>6
  <2>2. stored = [k \in 0 .. nbytes |-> IF k < n THEN args[k + 1] ELSE NUL]
    BY DEF StrNCpy
  <2> HIDE DEF stored, args, n
  <2>3. 0 .. n \subseteq DOMAIN stored
    <3>1. 0 .. n \subseteq 0 .. nbytes
      BY <2>1
    <3>2. QED BY <2>2, <3>1
  <2>4. ASSUME NEW k \in 1 .. n PROVE stored[k - 1] = args[k]
    <3>1. k - 1 \in 0 .. nbytes /\ k - 1 < n /\ k - 1 + 1 = k
      BY <2>1
    <3>2. QED BY <2>2, <3>1
  <2>5. stored[n] = NUL
    <3>1. n \in 0 .. nbytes /\ ~(n < n)
      BY <2>1
    <3>2. QED BY <2>2, <3>1
  <2>6. ~(nbytes <= 0 \/ n > nbytes)
    BY <2>1
  <2>7. QED BY <1>6, <2>3, <2>4, <2>5, <2>6 DEF n
<1>7. ~(args # <<>> /\ Len(args) <= nbytes) => nbytes <= 0 \/ args = <<>> \/ Len(args) > nbytes
  <2> HIDE DEF args
  <2>1. QED BY <1>3, <1>4
<1>8. typed'[Front'] = args
  BY <1>1 DEF Front
<1> HIDE DEF args, stored
<1>9. QED BY <1>5, <1>6, <1>7, <1>8 DEF GetargsDelivers

(* getargs hands out what the user typed behind the name, and the NUL, for *)
(* every line, buffer length and order of calls, in the two cases that the *)
(* code leaves to luck: the user does not leave the terminal and come back *)
(* before execute has copied the arguments, and the byte behind the buffer *)
(* of the shell, which no read writes, is a NUL.                           *)
THEOREM GetargsDeliversTyped ==
    ASSUME "switch_at_copy" \notin Habits, Behind = <<>>
    PROVE  ProgramSpec => []GetargsDelivers
<1>1. ProgramInit => ArgsInv
  <2> SUFFICES ASSUME ProgramInit PROVE ArgsInv
    OBVIOUS
  <2>1. <<>> \in Seq(AllText)
    OBVIOUS
  <2>2. arguments = typed /\ typed \in [Pid -> Seq(AllText)]
    BY <2>1 DEF ProgramInit
  <2>3. result.call # "getargs"
    BY DEF ProgramInit, NoCall
  <2>4. GetargsDelivers
    BY <2>3, Zenon DEF GetargsDelivers
  <2>5. QED BY <2>2, <2>4 DEF ArgsInv
<1>2. TypeOK /\ NoSharing /\ ArgsInv /\ [ProgramNext]_allvars => ArgsInv'
  <2> SUFFICES ASSUME TypeOK, NoSharing, ArgsInv, [ProgramNext]_allvars PROVE ArgsInv'
    OBVIOUS
  <2>1. ASSUME result'.call \in {"none", "execute", "vidmap"}, UNCHANGED <<arguments, typed>>
        PROVE  ArgsInv'
    BY <2>1, OtherCall DEF ArgsInv
  <2>2. ASSUME NEW t \in Term, Show(t) PROVE ArgsInv'
    BY <2>1, <2>2 DEF Show, NoCall
  <2>3. CASE ShellStarts
    <3>1. PICK p \in Pid, args \in BehindLiteral :
              StartProgram(p, args) /\ typed' = [typed EXCEPT ![p] = args]
      BY <2>3 DEF ShellStarts
    <3>2. args \in Seq({args[k] : k \in 1 .. Len(args)})
      BY TextAssumption
    <3>3. args \in Seq(AllText)
      <4>1. \A k \in 1 .. Len(args) : args[k] \in AllText
        BY DEF AllText
      <4>2. QED BY <3>2, <4>1
    <3>4. QED BY <3>1, <3>3, StartDelivers
  <2>4. ASSUME NEW line \in Lines, Execute(line) PROVE ArgsInv'
    <3> DEFINE b == Read(line)
    <3>1. PICK p \in Pid, args \in ArgumentsRead(b) :
              StartProgram(p, args) /\ typed' = [typed EXCEPT ![p] = TypedArgs(line)]
      BY <2>4 DEF Execute
    <3>2. args = Text(b, argIdx(b))
      BY <3>1 DEF ArgumentsRead
    <3>3. Text(b, argIdx(b)) = TypedArgs(line) /\ TypedArgs(line) \in Seq(Char)
      BY ArgumentsAsTyped, Zenon
    <3> HIDE DEF b
    <3>4. TypedArgs(line) \in Seq(AllText)
      BY <3>3 DEF AllText
    <3>5. QED BY <3>1, <3>2, <3>3, <3>4, StartDelivers
  <2>5. ASSUME NEW line \in Lines, ExecuteFails(line) PROVE ArgsInv'
    BY <2>1, <2>5 DEF ExecuteFails
  <2>6. ASSUME NEW value, NEW end, Ends(value, end) PROVE ArgsInv'
    <3>1. result'.call \in {"none", "execute"}
      BY <2>6 DEF Ends, NoCall
    <3>2. QED BY <2>1, <2>6, <3>1 DEF Ends
  <2>7. ASSUME NEW nbytes \in Requests, GetArgs(nbytes) PROVE ArgsInv'
    <3>1. UNCHANGED <<arguments, typed>>
      BY <2>7 DEF GetArgs
    <3>2. QED BY <2>7, <3>1, GetArgsDelivers DEF ArgsInv
  <2>8. ASSUME NEW a \in Addresses, VidMap(a) PROVE ArgsInv'
    BY <2>1, <2>8 DEF VidMap
  <2>9. CASE UNCHANGED allvars
    BY <2>9 DEF ArgsInv, GetargsDelivers, Front, allvars, vars, pvars
  <2>10. QED
    BY <2>2, <2>3, <2>4, <2>5, <2>6, <2>7, <2>8, <2>9 DEF ProgramNext, Halt, Exception
<1>3. ArgsInv => GetargsDelivers
  BY DEF ArgsInv
<1>4. QED BY <1>1, <1>2, <1>3, ProcessesApart, PTL DEF ProgramSpec

-----------------------------------------------------------------------------
(* The fields of every PCB stay in their types: the flag of vidmap is a    *)
(* bit whatever programs call.                                             *)
THEOREM ProgramTypesCorrect == ProgramSpec => []ProgramTypeOK
<1> DEFINE I == /\ DOMAIN arguments = Pid /\ DOMAIN typed = Pid
                /\ vidMap_flag \in [Pid -> {0, 1}]
                /\ video_page \in BOOLEAN /\ mapper_gone \in BOOLEAN
                /\ execs \in 0 .. MaxExecs
                /\ result.call \in {"none", "execute", "getargs", "vidmap"}
<1>1. ProgramInit => I
  <2> SUFFICES ASSUME ProgramInit PROVE I
    OBVIOUS
  <2>1. /\ DOMAIN arguments = Pid /\ DOMAIN typed = Pid
        /\ vidMap_flag \in [Pid -> {0, 1}]
        /\ video_page \in BOOLEAN /\ mapper_gone \in BOOLEAN
    BY DEF ProgramInit
  <2>2. execs \in 0 .. MaxExecs
    BY ProgramAssumption DEF ProgramInit
  <2>3. result.call = "none"
    BY DEF ProgramInit, NoCall
  <2>4. QED BY <2>1, <2>2, <2>3
<1>2. TypeOK /\ NoSharing /\ I /\ [ProgramNext]_allvars => I'
  <2> SUFFICES ASSUME TypeOK, NoSharing, I, [ProgramNext]_allvars PROVE I'
    OBVIOUS
  <2>1. ASSUME NEW t \in Term, Show(t) PROVE I'
    BY <2>1 DEF Show, NoCall
  <2>2. ASSUME NEW p \in Pid, NEW args, StartProgram(p, args),
               execs' \in 0 .. MaxExecs, DOMAIN typed' = Pid
        PROVE  I'
    BY <2>2 DEF StartProgram, InitFlag, NoCall
  <2>3. CASE ShellStarts
    BY <2>2, <2>3 DEF ShellStarts
  <2>4. Commanded => execs' \in 0 .. MaxExecs
    BY ProgramAssumption DEF Commanded
  <2>5. ASSUME NEW line \in Lines, Execute(line) PROVE I'
    <3>1. execs' \in 0 .. MaxExecs
      BY <2>4, <2>5 DEF Execute
    <3>2. PICK p \in Pid, args \in ArgumentsRead(Read(line)) :
              StartProgram(p, args) /\ typed' = [typed EXCEPT ![p] = TypedArgs(line)]
      BY <2>5 DEF Execute
    <3>3. DOMAIN typed' = Pid
      BY <3>2
    <3>4. QED BY <2>2, <3>1, <3>2, <3>3
  <2>6. ASSUME NEW line \in Lines, ExecuteFails(line) PROVE I'
    <3>1. execs' \in 0 .. MaxExecs
      BY <2>4, <2>6 DEF ExecuteFails
    <3>2. result'.call = "execute"
          /\ UNCHANGED <<arguments, vidMap_flag, video_page, typed, mapper_gone>>
      BY <2>6 DEF ExecuteFails
    <3>3. QED BY <3>1, <3>2
  <2>7. ASSUME NEW value, NEW end, Ends(value, end) PROVE I'
    <3>1. result'.call \in {"none", "execute"}
          /\ UNCHANGED <<arguments, vidMap_flag, execs, typed>>
      BY <2>7 DEF Ends, NoCall
    <3>2. video_page' \in BOOLEAN /\ mapper_gone' \in BOOLEAN
      <4>1. CASE IsBase
        BY <2>7, <4>1 DEF Ends
      <4>2. CASE ~IsBase
        BY <2>7, <4>2 DEF Ends, Reclaim
      <4>3. QED BY <4>1, <4>2
    <3>3. QED BY <3>1, <3>2
  <2>8. ASSUME NEW nbytes \in Requests, GetArgs(nbytes) PROVE I'
    BY <2>8 DEF GetArgs
  <2>9. ASSUME NEW a \in Addresses, VidMap(a) PROVE I'
    <3>1. result'.call = "vidmap" /\ UNCHANGED <<arguments, execs, typed, mapper_gone>>
      BY <2>9 DEF VidMap
    <3>2. vidMap_flag' \in [Pid -> {0, 1}] /\ video_page' \in BOOLEAN
      BY <2>9 DEF VidMap, Marked
    <3>3. QED BY <3>1, <3>2
  <2>10. CASE UNCHANGED allvars
    BY <2>10 DEF allvars, pvars
  <2>11. QED
    BY <2>1, <2>3, <2>5, <2>6, <2>7, <2>8, <2>9, <2>10 DEF ProgramNext, Halt, Exception
<1>3. TypeOK /\ I => ProgramTypeOK
  BY DEF ProgramTypeOK
<1> HIDE DEF I
<1>4. QED BY <1>1, <1>2, <1>3, ProcessesApart, PTL DEF ProgramSpec

(* The bound that vidmap tests lets its pointer end where the page ends,   *)
(* so the four bytes stay inside for every program but one that passes a   *)
(* pointer into the last bytes of its page or the page's end.              *)
THEOREM PointersInPage ==
    ASSUME \A a \in Addresses : a <= PageStart + PageSize => a + PointerSize <= PageStart + PageSize
    PROVE  ProgramSpec => []PointerStoredInPage
<1>1. ProgramInit => PointerStoredInPage
  <2>1. "none" # "vidmap"
    OBVIOUS
  <2>2. QED BY <2>1 DEF ProgramInit, NoCall, PointerStoredInPage
<1>2. PointerStoredInPage /\ [ProgramNext]_allvars => PointerStoredInPage'
  <2> SUFFICES ASSUME PointerStoredInPage, [ProgramNext]_allvars PROVE PointerStoredInPage'
    OBVIOUS
  <2>1. ASSUME result'.call \in {"none", "execute", "getargs"} PROVE PointerStoredInPage'
    <3>1. result'.call # "vidmap"
      BY <2>1
    <3>2. QED BY <3>1, Zenon DEF PointerStoredInPage
  <2>2. ASSUME NEW a \in Addresses, VidMap(a) PROVE PointerStoredInPage'
    <3>1. CASE InBounds(a)
      <4>1. result'.bytes = a .. a + PointerSize - 1
        BY <2>2, <3>1 DEF VidMap
      <4>2. a \in Nat /\ PageStart \in Nat /\ PageSize \in Nat /\ PointerSize \in Nat
        BY ProgramAssumption
      <4>3. a >= PageStart /\ a + PointerSize <= PageStart + PageSize
        BY <3>1 DEF InBounds
      <4>4. a .. a + PointerSize - 1 \subseteq PageStart .. PageStart + PageSize - 1
        BY <4>2, <4>3
      <4>5. QED BY <4>1, <4>4 DEF PointerStoredInPage
    <3>2. CASE ~InBounds(a)
      <4>1. result'.bytes = {}
        BY <2>2, <3>2 DEF VidMap
      <4>2. QED BY <4>1 DEF PointerStoredInPage
    <3>3. QED BY <3>1, <3>2
  <2>3. ASSUME UNCHANGED result PROVE PointerStoredInPage'
    BY <2>3 DEF PointerStoredInPage
  <2>4. ASSUME NEW value, NEW end, Ends(value, end) PROVE PointerStoredInPage'
    <3>1. result'.call \in {"none", "execute"}
      BY <2>4 DEF Ends, NoCall
    <3>2. QED BY <2>1, <3>1
  <2>5. ASSUME NEW line \in Lines, ExecuteFails(line) PROVE PointerStoredInPage'
    BY <2>1, <2>5 DEF ExecuteFails
  <2>6. ASSUME NEW nbytes \in Requests, GetArgs(nbytes) PROVE PointerStoredInPage'
    BY <2>1, <2>6 DEF GetArgs
  <2>7. ASSUME result' = NoCall PROVE PointerStoredInPage'
    BY <2>1, <2>7 DEF NoCall
  <2>8. QED
    BY <2>2, <2>3, <2>4, <2>5, <2>6, <2>7
       DEF ProgramNext, Show, ShellStarts, Execute, StartProgram, Halt, Exception, allvars, pvars
<1>3. QED BY <1>1, <1>2, PTL DEF ProgramSpec
=============================================================================
