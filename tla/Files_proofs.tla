---------------------------- MODULE Files_proofs ----------------------------
(***************************************************************************)
(* Proofs about Files, for every image, table size and number of           *)
(* terminals: programs that close what they opened before they run another *)
(* program and list the directory one at a time keep their own streams.    *)
(***************************************************************************)
EXTENDS Files, SequenceTheorems, TLAPS

\* A name is that of one entry, to its last character, or similar to none.
CarefulNames == \A name \in Names, e \in Entry : Matches(e, name) => Meant(name) = {e}

DescType == [ops : {"none", "stdin", "stdout", "rtc", "dir", "file"},
             inode : DOMAIN FileLength \cup {0}, filePos : Nat, inUse : BOOLEAN]
StreamType == [entry : Entry \cup {0}, got : Seq(Nat), ended : BOOLEAN]

Types ==
    /\ tree \in [Term -> Seq(Pid) \ {<<>>}]
    /\ currentTerminal \in Term
    /\ fdArray \in [Pid -> [Fd -> DescType]]
    /\ directory_read_count \in 0 .. Len(Directory)
    /\ stream \in [Pid -> [Fd -> StreamType]]

Apart ==
    \A t, u \in Term : \A i \in 1 .. Len(tree[t]), j \in 1 .. Len(tree[u]) :
        tree[t][i] = tree[u][j] => t = u /\ i = j

(* A program that waits for its child has nothing open.                    *)
WaitersClosed ==
    \A t \in Term : \A i \in 1 .. Len(tree[t]) - 1, fd \in UserFd :
        ~fdArray[tree[t][i]][fd].inUse

(* A descriptor and what was read through it.                              *)
TypeOf(e) == Directory[e].type
Opened(d, e) ==
    /\ d.ops = OpsOf(TypeOf(e))
    /\ d.inode = IF TypeOf(e) = FILE_NORMAL THEN Directory[e].inode ELSE 0
ReadOf(d, s) ==
    /\ TypeOf(s.entry) = FILE_NORMAL =>
          LET length == FileLength[Directory[s.entry].inode] IN
          Len(s.got) = d.filePos /\ d.filePos <= length /\ (s.ended => d.filePos = length)
    /\ TypeOf(s.entry) = FILE_DIR /\ s.ended => Len(s.got) = Len(Directory)
    /\ TypeOf(s.entry) = FILE_RTC => s.got = <<>> /\ ~s.ended
Agree(d, s) ==
    /\ d.inUse <=> s.entry # 0
    /\ s.entry = 0 => s = NoStream
    /\ s.entry # 0 => Opened(d, s.entry) /\ ReadOf(d, s)
    /\ \A k \in 1 .. Len(s.got) : s.got[k] = k

Streams ==
    \A p \in Live :
        /\ fdArray[p][0].inUse /\ fdArray[p][1].inUse
        /\ \A fd \in UserFd : Agree(fdArray[p][fd], stream[p][fd])
Fresh == \A p \in Pid \ Live, fd \in Fd : stream[p][fd] = NoStream

(* The one directory position is that of the one listing under way.        *)
Position ==
    /\ \A p \in Live, fd \in UserFd :
          Listing(p, fd) => directory_read_count = Len(stream[p][fd].got)
    /\ (\A p \in Live, fd \in UserFd : ~Listing(p, fd)) => directory_read_count = 0

IInv == Types /\ Apart /\ WaitersClosed /\ Streams /\ Fresh /\ Position

-----------------------------------------------------------------------------
LEMMA FdFacts ==
    /\ UserFd \subseteq Fd /\ 0 \in Fd /\ 1 \in Fd /\ 0 \notin UserFd /\ 1 \notin UserFd
    /\ 0 \notin Entry
BY FdAssumption, ImageAssumption DEF Fd, UserFd

StandIn(f) == UNION {ToSet(f[t]) : t \in Term}

\* The programs that live are those on the stacks, the last of which runs.
LEMMA LiveIn ==
    ASSUME NEW f \in [Term -> Seq(Pid) \ {<<>>}]
    PROVE  /\ StandIn(f) \subseteq Pid
           /\ \A q : q \in StandIn(f) <=> \E t \in Term : \E i \in 1 .. Len(f[t]) : f[t][i] = q
<1>1. \A t \in Term : f[t] \in Seq(Pid) /\ DOMAIN f[t] = 1 .. Len(f[t])
  OBVIOUS
<1>2. \A q : q \in StandIn(f) <=> \E t \in Term : \E i \in 1 .. Len(f[t]) : f[t][i] = q
  <2>1. \A q : q \in StandIn(f) <=> \E t \in Term : q \in ToSet(f[t])
    BY DEF StandIn
  <2>2. \A q : \A t \in Term : q \in ToSet(f[t]) <=> \E i \in 1 .. Len(f[t]) : f[t][i] = q
    BY <1>1 DEF ToSet
  <2> QED BY <2>1, <2>2
<1>3. \A t \in Term : \A i \in 1 .. Len(f[t]) : f[t][i] \in Pid
  BY <1>1, ElementOfSeq
<1> QED BY <1>2, <1>3

LEMMA LiveDef ==
    ASSUME tree \in [Term -> Seq(Pid) \ {<<>>}]
    PROVE  /\ Live \subseteq Pid
           /\ \A q : q \in Live <=> \E t \in Term : \E i \in 1 .. Len(tree[t]) : tree[t][i] = q
BY LiveIn DEF Live, StandIn

LEMMA LiveDefNext ==
    ASSUME tree' \in [Term -> Seq(Pid) \ {<<>>}]
    PROVE  /\ Live' \subseteq Pid
           /\ \A q : q \in Live' <=> \E t \in Term : \E i \in 1 .. Len(tree'[t]) : tree'[t][i] = q
BY LiveIn DEF Live, StandIn

LEMMA RunningLives ==
    ASSUME Types
    PROVE  /\ Len(tree[currentTerminal]) \in Nat \ {0}
           /\ Running = tree[currentTerminal][Len(tree[currentTerminal])]
           /\ Running \in Live /\ Running \in Pid
<1>1. tree[currentTerminal] \in Seq(Pid) /\ tree[currentTerminal] # <<>>
  BY DEF Types
<1>2. Len(tree[currentTerminal]) \in Nat \ {0}
  BY <1>1, EmptySeq
<1>3. Running = tree[currentTerminal][Len(tree[currentTerminal])]
  BY DEF Running, Last
<1>4. Len(tree[currentTerminal]) \in 1 .. Len(tree[currentTerminal])
  BY <1>2
<1> QED BY <1>2, <1>3, <1>4, LiveDef DEF Types

\* A descriptor not in use agrees with having read nothing.
LEMMA UnusedAgrees ==
    ASSUME NEW d \in DescType, ~d.inUse
    PROVE  Agree(d, NoStream) /\ Unused \in DescType /\ NoStream \in StreamType
<1>1. NoStream \in StreamType /\ NoStream.entry = 0 /\ NoStream.got = <<>>
  BY DEF NoStream, StreamType
<1>2. Unused \in DescType
  BY DEF Unused, DescType
<1> QED BY <1>1, <1>2 DEF Agree

LEMMA UnusedFields ==
    /\ Unused.inUse = FALSE /\ Unused.ops = "none" /\ Unused \in DescType
    /\ NoStream \in StreamType /\ NoStream.got = <<>> /\ NoStream.entry = 0 /\ NoStream.ended = FALSE
BY DEF Unused, DescType, NoStream, StreamType

-----------------------------------------------------------------------------
(* Calls on one descriptor of the running program *)

(* Nobody else's descriptor is touched, and the running program does not   *)
(* wait for a child.                                                       *)
LEMMA OneDescriptor ==
    ASSUME IInv, NEW fd \in UserFd, NEW d \in DescType, NEW s \in StreamType,
           fdArray' = [fdArray EXCEPT ![Running][fd] = d],
           stream' = [stream EXCEPT ![Running][fd] = s],
           UNCHANGED <<tree, currentTerminal>>,
           directory_read_count' \in 0 .. Len(Directory),
           Agree(d, s), Position'
    PROVE  IInv'
<1>1. /\ Running \in Pid /\ Running \in Live /\ fd \in Fd /\ fd # 0 /\ fd # 1
      /\ Running = tree[currentTerminal][Len(tree[currentTerminal])]
      /\ Len(tree[currentTerminal]) \in Nat \ {0} /\ currentTerminal \in Term
  BY RunningLives, FdFacts DEF IInv, Types
<1>2. Types'
  BY <1>1 DEF IInv, Types
<1>3. Live' = Live
  BY DEF Live
<1>4. \A p \in Pid, f \in Fd :
         /\ p = Running /\ f = fd => fdArray'[p][f] = d /\ stream'[p][f] = s
         /\ ~(p = Running /\ f = fd) => /\ fdArray'[p][f] = fdArray[p][f]
                                        /\ stream'[p][f] = stream[p][f]
  BY <1>1 DEF IInv, Types
<1>5. Live \subseteq Pid /\ UserFd \subseteq Fd /\ 0 \in Fd /\ 1 \in Fd
  BY LiveDef, FdFacts DEF IInv, Types
<1>6. Streams'
  <2> SUFFICES ASSUME NEW p \in Live
               PROVE  /\ fdArray'[p][0].inUse /\ fdArray'[p][1].inUse
                      /\ \A f \in UserFd : Agree(fdArray'[p][f], stream'[p][f])
    BY <1>3 DEF Streams
  <2>1. p \in Pid
    BY <1>5
  <2>2. fdArray'[p][0].inUse /\ fdArray'[p][1].inUse
    BY <1>1, <1>4, <1>5, <2>1 DEF IInv, Streams
  <2>3. ASSUME NEW f \in UserFd PROVE Agree(fdArray'[p][f], stream'[p][f])
    <3>1. f \in Fd
      BY <1>5
    <3>2. CASE p = Running /\ f = fd
      BY <1>4, <2>1, <3>1, <3>2
    <3>3. CASE ~(p = Running /\ f = fd)
      BY <1>4, <2>1, <3>1, <3>3 DEF IInv, Streams
    <3> QED BY <3>2, <3>3
  <2> QED BY <2>2, <2>3
<1>7. Fresh'
  BY <1>1, <1>3, <1>4 DEF IInv, Fresh
<1>8. Apart'
  BY DEF IInv, Apart
<1>9. WaitersClosed'
  <2> SUFFICES ASSUME NEW t \in Term, NEW i \in 1 .. Len(tree[t]) - 1, NEW f \in UserFd
               PROVE  ~fdArray'[tree[t][i]][f].inUse
    BY DEF WaitersClosed
  <2>1. Len(tree[t]) \in Nat /\ i \in 1 .. Len(tree[t])
    BY DEF IInv, Types
  <2>2. tree[t][i] \in Pid
    BY <2>1, LiveDef DEF IInv, Types
  <2>3. tree[t][i] # Running
    <3> SUFFICES ASSUME tree[t][i] = tree[currentTerminal][Len(tree[currentTerminal])]
                 PROVE  FALSE
      BY <1>1
    <3>1. Len(tree[currentTerminal]) \in 1 .. Len(tree[currentTerminal])
      BY <1>1
    <3>2. t = currentTerminal /\ i = Len(tree[currentTerminal])
      BY <1>1, <2>1, <3>1 DEF IInv, Apart
    <3> QED BY <2>1, <3>2
  <2> QED BY <1>4, <1>5, <2>2, <2>3 DEF IInv, WaitersClosed
<1> QED BY <1>2, <1>6, <1>7, <1>8, <1>9 DEF IInv

(* A call on a descriptor that is no listing before or after it.           *)
LEMMA PositionKept ==
    ASSUME IInv, NEW fd \in UserFd, NEW d \in DescType, NEW s \in StreamType,
           fdArray' = [fdArray EXCEPT ![Running][fd] = d],
           stream' = [stream EXCEPT ![Running][fd] = s],
           UNCHANGED <<tree, directory_read_count>>,
           ~Listing(Running, fd),
           ~(d.ops = "dir" /\ d.inUse /\ s.got # <<>> /\ ~s.ended)
    PROVE  Position'
<1>1. Live' = Live /\ Live \subseteq Pid /\ Running \in Pid /\ UserFd \subseteq Fd
  BY LiveDef, RunningLives, FdFacts DEF Live, IInv, Types
<1>2. ASSUME NEW p \in Live, NEW f \in UserFd
      PROVE  /\ (fdArray'[p][f].ops = "dir" /\ fdArray'[p][f].inUse
                 /\ stream'[p][f].got # <<>> /\ ~stream'[p][f].ended) <=> Listing(p, f)
             /\ Listing(p, f) => stream'[p][f] = stream[p][f]
  <2>1. p \in Pid /\ f \in Fd /\ fd \in Fd
    BY <1>1
  <2>2. CASE p = Running /\ f = fd
    <3>1. fdArray'[p][f] = d /\ stream'[p][f] = s
      BY <1>1, <2>1, <2>2 DEF IInv, Types
    <3> QED BY <2>2, <3>1
  <2>3. CASE ~(p = Running /\ f = fd)
    <3>1. fdArray'[p][f] = fdArray[p][f] /\ stream'[p][f] = stream[p][f]
      BY <1>1, <2>1, <2>3 DEF IInv, Types
    <3> QED BY <3>1 DEF Listing
  <2> QED BY <2>2, <2>3
<1> QED BY <1>1, <1>2 DEF IInv, Position, Listing

\* Each call keeps the invariant.
LEMMA OpenKeeps ==
    ASSUME IInv, CarefulNames, NEW name \in Names, Open(name)
    PROVE  IInv'
<1>1. PICK e \in Entry, fd \in UserFd :
         /\ Matches(e, name)
         /\ ~fdArray[Running][fd].inUse
         /\ fdArray' = [fdArray EXCEPT ![Running][fd] = Descriptor(e, 0)]
         /\ stream' = [stream EXCEPT ![Running][fd] =
                         [NoStream EXCEPT !.entry = IF Meant(name) = {} THEN 0
                                                    ELSE CHOOSE f \in Meant(name) : TRUE]]
         /\ UNCHANGED <<tree, currentTerminal, directory_read_count>>
  BY DEF Open, DentryByName, FreeFd
<1>2. Meant(name) = {e}
  BY <1>1 DEF CarefulNames
<1>3. (IF Meant(name) = {} THEN 0 ELSE CHOOSE f \in Meant(name) : TRUE) = e
  BY <1>2
<1> DEFINE d == Descriptor(e, 0)
           s == [NoStream EXCEPT !.entry = e]
<1>4. stream' = [stream EXCEPT ![Running][fd] = s]
  BY <1>1, <1>3
<1>5. /\ TypeOf(e) \in {FILE_RTC, FILE_DIR, FILE_NORMAL}
      /\ Directory[e].inode \in DOMAIN FileLength /\ FileLength[Directory[e].inode] \in Nat
  BY ImageAssumption DEF TypeOf
<1>6. d \in DescType /\ Opened(d, e) /\ d.filePos = 0 /\ d.inUse = TRUE
  BY <1>5 DEF Descriptor, DescType, Opened, OpsOf, TypeOf, FILE_RTC, FILE_DIR, FILE_NORMAL
<1>7. s \in StreamType /\ s.entry = e /\ s.got = <<>> /\ s.ended = FALSE
  BY UnusedFields DEF StreamType
<1> HIDE DEF d, s
<1>8. ReadOf(d, s)
  BY <1>5, <1>6, <1>7 DEF ReadOf, FILE_RTC, FILE_DIR, FILE_NORMAL
<1>9. Agree(d, s)
  BY <1>6, <1>7, <1>8, FdFacts DEF Agree
<1>10. ~Listing(Running, fd)
  BY <1>1 DEF Listing
<1>11. Position'
  BY <1>1, <1>4, <1>6, <1>7, <1>10, PositionKept DEF d
<1> QED BY <1>1, <1>4, <1>6, <1>7, <1>9, <1>11, OneDescriptor DEF d, IInv, Types

LEMMA CloseKeeps ==
    ASSUME IInv, Habits = {}, NEW fd \in UserFd, Close(fd)
    PROVE  IInv'
<1>1. /\ fdArray' = [fdArray EXCEPT ![Running][fd] = Unused]
      /\ stream' = [stream EXCEPT ![Running][fd] = NoStream]
      /\ UNCHANGED <<tree, currentTerminal, directory_read_count>>
      /\ ~Listing(Running, fd)
  BY DEF Close, MayDrop
<1>2. Agree(Unused, NoStream)
  BY UnusedAgrees, UnusedFields
<1>3. Position'
  BY <1>1, UnusedFields, PositionKept
<1> QED BY <1>1, <1>2, <1>3, UnusedFields, OneDescriptor DEF IInv, Types

(* read more units of a file: in order, as far as the file goes.           *)
Units(d, read) == [k \in 1 .. read |-> d.filePos + k]
Moved(d, read) == [d EXCEPT !.filePos = @ + read]

\* A read moves filePos by as many units as it returns.
LEMMA UnitsAgree ==
    ASSUME NEW d \in DescType, NEW s \in StreamType, NEW read \in Nat,
           d.inUse, d.ops = "file", Agree(d, s),
           d.filePos + read <= FileLength[d.inode], read = 0 => d.filePos >= FileLength[d.inode]
    PROVE  /\ Moved(d, read) \in DescType /\ Moved(d, read).ops = "file"
           /\ [s EXCEPT !.got = @ \o Units(d, read), !.ended = (read = 0)] \in StreamType
           /\ Agree(Moved(d, read),
                    [s EXCEPT !.got = @ \o Units(d, read), !.ended = (read = 0)])
<1> DEFINE units == Units(d, read)
           d1 == Moved(d, read)
           s1 == [s EXCEPT !.got = @ \o units, !.ended = (read = 0)]
<1>1. s.entry # 0 /\ s.entry \in Entry /\ Opened(d, s.entry) /\ ReadOf(d, s)
  BY DEF Agree, StreamType
<1>2. TypeOf(s.entry) = FILE_NORMAL /\ d.inode = Directory[s.entry].inode /\ FileLength[d.inode] \in Nat
  <2>1. TypeOf(s.entry) \in {FILE_RTC, FILE_DIR, FILE_NORMAL}
    BY <1>1, ImageAssumption DEF TypeOf
  <2>2. OpsOf(TypeOf(s.entry)) = "file"
    BY <1>1 DEF Opened
  <2>3. TypeOf(s.entry) = FILE_NORMAL
    BY <2>1, <2>2 DEF OpsOf, FILE_RTC, FILE_DIR, FILE_NORMAL
  <2> QED BY <1>1, <2>3, ImageAssumption DEF Opened
<1>3. Len(s.got) = d.filePos /\ d.filePos \in Nat /\ s.got \in Seq(Nat) /\ s.ended \in BOOLEAN
  BY <1>1, <1>2 DEF ReadOf, DescType, StreamType
<1>4. units \in Seq(Nat) /\ Len(units) = read /\ \A k \in 1 .. read : units[k] = d.filePos + k
  BY <1>3 DEF Units
<1> HIDE DEF units
<1> DEFINE got == s.got \o units
<1>5. /\ got \in Seq(Nat) /\ Len(got) = d.filePos + read
      /\ \A k \in 1 .. d.filePos + read :
            got[k] = IF k <= d.filePos THEN s.got[k] ELSE units[k - d.filePos]
  <2>1. /\ s.got \o units \in Seq(Nat)
        /\ Len(s.got \o units) = Len(s.got) + Len(units)
        /\ \A k \in 1 .. Len(s.got) + Len(units) :
              (s.got \o units)[k] = IF k <= Len(s.got) THEN s.got[k] ELSE units[k - Len(s.got)]
    <3>1. units \in Seq(Nat) /\ s.got \in Seq(Nat)
      BY <1>3, <1>4
    <3> QED BY <3>1, ConcatProperties
  <2>2. Len(s.got) = d.filePos /\ Len(units) = read
    BY <1>3, <1>4
  <2> QED BY <2>1, <2>2 DEF got
<1> HIDE DEF got
<1>6. \A k \in 1 .. Len(got) : got[k] = k
  <2> SUFFICES ASSUME NEW k \in 1 .. d.filePos + read PROVE got[k] = k
    BY <1>5
  <2>1. CASE k <= d.filePos
    <3>1. k \in 1 .. Len(s.got)
      BY <1>3, <2>1
    <3> QED BY <1>5, <2>1, <3>1 DEF Agree
  <2>2. CASE k > d.filePos
    <3>1. k - d.filePos \in 1 .. read /\ d.filePos + (k - d.filePos) = k
      BY <1>3, <2>2
    <3>2. units[k - d.filePos] = k
      BY <1>4, <3>1
    <3>3. ~(k <= d.filePos)
      BY <1>3, <2>2
    <3> QED BY <1>5, <3>2, <3>3
  <2> QED BY <1>3, <2>1, <2>2
<1>7. /\ d1 \in DescType /\ d1.ops = d.ops /\ d1.inode = d.inode /\ d1.inUse = d.inUse
      /\ d1.filePos = d.filePos + read
  <2>1. d1 \in DescType
    BY <1>3 DEF DescType, Moved
  <2> QED BY <2>1, <1>3 DEF DescType, Moved
<1>8. s1 \in StreamType /\ s1.entry = s.entry /\ s1.got = got /\ (s1.ended <=> read = 0)
  BY <1>5 DEF StreamType, got
<1> HIDE DEF d1, s1
<1>9. Opened(d1, s.entry)
  BY <1>1, <1>7 DEF Opened
<1>10. Len(s1.got) = d1.filePos /\ d1.filePos <= FileLength[d.inode]
       /\ (s1.ended => d1.filePos = FileLength[d.inode])
  BY <1>2, <1>3, <1>5, <1>7, <1>8
<1>11. ReadOf(d1, s1)
  BY <1>2, <1>8, <1>10 DEF ReadOf, FILE_RTC, FILE_DIR, FILE_NORMAL
<1>12. Agree(d1, s1)
  BY <1>1, <1>6, <1>7, <1>8, <1>9, <1>11 DEF Agree
<1> QED BY <1>7, <1>8, <1>12 DEF d1, s1, units

LEMMA ReadFileKeeps ==
    ASSUME IInv, NEW fd \in UserFd, NEW n \in 1 .. 2,
           fdArray[Running][fd].inUse, fdArray[Running][fd].ops = "file", ReadFile(fd, n),
           UNCHANGED <<tree, currentTerminal>>
    PROVE  IInv'
<1> DEFINE d == fdArray[Running][fd]
           s == stream[Running][fd]
           left == FileLength[d.inode] - d.filePos
           read == CASE left <= 0 -> 0 [] left < n -> left [] OTHER -> n
           d1 == Moved(d, read)
           s1 == [s EXCEPT !.got = @ \o Units(d, read), !.ended = (read = 0)]
<1>1. fdArray' = [fdArray EXCEPT ![Running][fd] = d1]
  BY DEF ReadFile, Advance, Moved
<1>2. stream' = [stream EXCEPT ![Running][fd] = s1]
  BY DEF ReadFile, Units
<1>3. UNCHANGED <<tree, currentTerminal, directory_read_count>>
  BY DEF ReadFile
<1>4. Running \in Live /\ Running \in Pid /\ fd \in Fd /\ d \in DescType /\ s \in StreamType
  BY RunningLives, FdFacts DEF IInv, Types
<1>5. Agree(d, s)
  BY <1>4 DEF IInv, Streams
<1> HIDE DEF d, s
<1>6. d.inUse /\ d.ops = "file"
  BY DEF d
<1>7. d.filePos \in Nat /\ FileLength[d.inode] \in Nat /\ d.filePos <= FileLength[d.inode]
  <2>1. s.entry \in Entry /\ Opened(d, s.entry) /\ ReadOf(d, s)
    BY <1>4, <1>5, <1>6 DEF Agree, StreamType
  <2>2. TypeOf(s.entry) \in {FILE_RTC, FILE_DIR, FILE_NORMAL}
    BY <2>1, ImageAssumption DEF TypeOf
  <2>3. TypeOf(s.entry) = FILE_NORMAL
    BY <1>6, <2>1, <2>2 DEF Opened, OpsOf, FILE_RTC, FILE_DIR, FILE_NORMAL
  <2> QED BY <1>4, <2>1, <2>3, ImageAssumption DEF DescType, Opened, ReadOf
<1>8. read \in Nat /\ d.filePos + read <= FileLength[d.inode]
      /\ (read = 0 => d.filePos >= FileLength[d.inode])
  BY <1>7
<1> HIDE DEF read
<1>9. d1 \in DescType /\ s1 \in StreamType /\ d1.ops = "file" /\ Agree(d1, s1)
  BY <1>4, <1>5, <1>6, <1>8, UnitsAgree
<1>10. ~Listing(Running, fd)
  BY <1>6 DEF Listing, d
<1> HIDE DEF d1, s1
<1>11. Position'
  BY <1>1, <1>2, <1>3, <1>9, <1>10, PositionKept
<1> QED BY <1>1, <1>2, <1>3, <1>9, <1>11, OneDescriptor DEF IInv, Types

(* A read of the directory: the one listing under way, or the next.        *)
LEMMA ReadDirectoryKeeps ==
    ASSUME IInv, Habits = {}, NEW fd \in UserFd,
           fdArray[Running][fd].inUse, fdArray[Running][fd].ops = "dir", ReadDirectory(fd),
           UNCHANGED <<tree, currentTerminal>>
    PROVE  IInv'
<1> DEFINE d == fdArray[Running][fd]
           s == stream[Running][fd]
           c == directory_read_count
           past == IF s.ended THEN <<>> ELSE s.got
           got1 == IF NoMoreEntries THEN past ELSE Append(past, c + 1)
           s1 == [s EXCEPT !.got = got1, !.ended = NoMoreEntries]
<1>1. Running \in Live /\ Running \in Pid /\ fd \in Fd /\ d \in DescType /\ s \in StreamType
  BY RunningLives, FdFacts DEF IInv, Types
<1>2. stream' = [stream EXCEPT ![Running][fd] = s1]
  BY DEF ReadDirectory
<1>3. fdArray' = [fdArray EXCEPT ![Running][fd] = d]
  BY <1>1 DEF ReadDirectory, IInv, Types
<1>4. \A q \in Live, f \in UserFd : Listing(q, f) => q = Running /\ f = fd
  BY DEF ReadDirectory, MayList
<1>5. c' = IF NoMoreEntries THEN 0 ELSE c + 1
  BY DEF ReadDirectory
<1>6. Agree(d, s)
  BY <1>1 DEF IInv, Streams
<1>7. c \in 0 .. Len(Directory) /\ Len(Directory) \in Nat
  BY ImageAssumption DEF IInv, Types
<1>8. Listing(Running, fd) <=> s.got # <<>> /\ ~s.ended
  BY DEF Listing
<1>9. c = Len(past) /\ past \in Seq(Nat) /\ \A k \in 1 .. Len(past) : past[k] = k
  <2>1. CASE Listing(Running, fd)
    <3>1. c = Len(s.got)
      BY <1>1, <2>1 DEF IInv, Position
    <3>2. past = s.got
      BY <1>8, <2>1
    <3> HIDE DEF past
    <3> QED BY <1>1, <1>6, <3>1, <3>2 DEF Agree, StreamType
  <2>2. CASE ~Listing(Running, fd)
    <3>1. c = 0
      BY <1>4, <2>2 DEF IInv, Position
    <3>2. past = <<>>
      BY <1>8, <2>2
    <3> HIDE DEF past
    <3>3. past \in Seq(Nat) /\ Len(past) = 0
      BY <3>2
    <3> QED BY <3>1, <3>3
  <2> QED BY <2>1, <2>2
<1> HIDE DEF past
<1>10. d.inUse /\ d.ops = "dir"
  OBVIOUS
<1>11. s.entry # 0 /\ s.entry \in Entry /\ TypeOf(s.entry) = FILE_DIR /\ Opened(d, s.entry)
  <2>1. s.entry # 0 /\ s.entry \in Entry /\ Opened(d, s.entry)
    BY <1>1, <1>6, <1>10 DEF Agree, StreamType
  <2>2. TypeOf(s.entry) \in {FILE_RTC, FILE_DIR, FILE_NORMAL}
    BY <2>1, ImageAssumption DEF TypeOf
  <2>3. OpsOf(TypeOf(s.entry)) = "dir"
    BY <1>10, <2>1 DEF Opened
  <2>4. TypeOf(s.entry) = FILE_DIR
    BY <2>2, <2>3 DEF OpsOf, FILE_RTC, FILE_DIR, FILE_NORMAL
  <2> QED BY <2>1, <2>4
<1>12. got1 \in Seq(Nat) /\ \A k \in 1 .. Len(got1) : got1[k] = k
  <2>1. CASE NoMoreEntries
    BY <1>9, <2>1
  <2>2. CASE ~NoMoreEntries
    <3>1. got1 = Append(past, c + 1) /\ c + 1 \in Nat
      BY <1>7, <2>2
    <3> HIDE DEF got1
    <3>2. /\ got1 \in Seq(Nat) /\ Len(got1) = c + 1
          /\ \A k \in 1 .. Len(past) : got1[k] = past[k]
          /\ got1[c + 1] = c + 1
      BY <1>9, <3>1, AppendProperties
    <3> QED BY <1>7, <1>9, <3>2
  <2> QED BY <2>1, <2>2
<1>13. NoMoreEntries => Len(got1) = Len(Directory)
  BY <1>7, <1>9 DEF NoMoreEntries
<1>14. ~NoMoreEntries => Len(got1) = c + 1 /\ c + 1 <= Len(Directory) /\ c' = c + 1
  <2> SUFFICES ASSUME ~NoMoreEntries
               PROVE  Len(got1) = c + 1 /\ c + 1 <= Len(Directory) /\ c' = c + 1
    OBVIOUS
  <2>1. got1 = Append(past, c + 1)
    OBVIOUS
  <2>2. Len(Append(past, c + 1)) = c + 1
    BY <1>7, <1>9, AppendProperties
  <2>3. c + 1 <= Len(Directory) /\ c' = c + 1
    BY <1>5, <1>7 DEF NoMoreEntries
  <2> QED BY <2>1, <2>2, <2>3
<1> HIDE DEF got1, d
<1>15. /\ s1 \in StreamType /\ s1.entry = s.entry /\ s1.got = got1
       /\ (s1.ended <=> NoMoreEntries)
  <2>1. NoMoreEntries \in BOOLEAN
    BY DEF NoMoreEntries
  <2> HIDE DEF s
  <2> QED BY <1>1, <1>12, <2>1 DEF StreamType
<1> HIDE DEF s1, s
<1>16. Agree(d, s1)
  <2>1. ReadOf(d, s1)
    BY <1>11, <1>13, <1>15 DEF ReadOf, FILE_RTC, FILE_DIR, FILE_NORMAL
  <2> QED BY <1>10, <1>11, <1>12, <1>15, <2>1 DEF Agree
<1>17. directory_read_count' \in 0 .. Len(Directory)
  BY <1>5, <1>7, <1>14
<1>18. Position'
  <2>1. Live' = Live /\ Live \subseteq Pid /\ UserFd \subseteq Fd
    BY LiveDef, FdFacts DEF Live, IInv, Types
  <2>2. ASSUME NEW q \in Live, NEW f \in UserFd, ~(q = Running /\ f = fd)
        PROVE  ~(fdArray'[q][f].ops = "dir" /\ fdArray'[q][f].inUse
                 /\ stream'[q][f].got # <<>> /\ ~stream'[q][f].ended)
    <3>1. q \in Pid /\ f \in Fd
      BY <2>1
    <3>2. fdArray'[q][f] = fdArray[q][f] /\ stream'[q][f] = stream[q][f]
      BY <1>1, <1>2, <1>3, <2>2, <3>1 DEF IInv, Types
    <3> QED BY <1>4, <2>2, <3>2 DEF Listing
  <2>3. stream'[Running][fd] = s1 /\ fdArray'[Running][fd] = d
    BY <1>1, <1>2, <1>3 DEF IInv, Types
  <2>4. CASE NoMoreEntries
    <3>1. \A q \in Live, f \in UserFd :
             ~(fdArray'[q][f].ops = "dir" /\ fdArray'[q][f].inUse
               /\ stream'[q][f].got # <<>> /\ ~stream'[q][f].ended)
      BY <1>15, <2>2, <2>3, <2>4
    <3>2. directory_read_count' = 0
      BY <1>5, <2>4
    <3> QED BY <2>1, <3>1, <3>2 DEF Position, Listing
  <2>5. CASE ~NoMoreEntries
    <3>1. directory_read_count' = Len(got1) /\ Len(got1) # 0
      BY <1>7, <1>14, <2>5
    <3>2. got1 # <<>>
      BY <3>1
    <3>3. /\ fdArray'[Running][fd].ops = "dir" /\ fdArray'[Running][fd].inUse
          /\ stream'[Running][fd].got # <<>> /\ ~stream'[Running][fd].ended
      BY <1>10, <1>15, <2>3, <2>5, <3>2
    <3>4. \A q \in Live, f \in UserFd :
             /\ fdArray'[q][f].ops = "dir" /\ fdArray'[q][f].inUse
             /\ stream'[q][f].got # <<>> /\ ~stream'[q][f].ended
             => directory_read_count' = Len(stream'[q][f].got)
      BY <1>15, <2>2, <2>3, <3>1
    <3> QED BY <1>1, <2>1, <3>3, <3>4 DEF Position, Listing
  <2> QED BY <2>4, <2>5
<1> QED BY <1>1, <1>2, <1>3, <1>15, <1>16, <1>17, <1>18, OneDescriptor

(* Whatever is on the screen, and whatever the clock's frequency.          *)
LEMMA OthersKeep ==
    ASSUME IInv, UNCHANGED <<tree, fdArray, directory_read_count, stream>>,
           currentTerminal' \in Term
    PROVE  IInv'
<1>1. Live' = Live
  BY DEF Live
<1>2. Types'
  BY DEF IInv, Types
<1>3. Apart' /\ WaitersClosed'
  <2>1. Apart'
    BY DEF IInv, Apart
  <2>2. WaitersClosed'
    BY DEF IInv, WaitersClosed
  <2> QED BY <2>1, <2>2
<1>4. Streams'
  BY <1>1 DEF IInv, Streams
<1>5. Fresh'
  BY <1>1 DEF IInv, Fresh
<1>6. Position'
  <2>1. \A p, fd : Listing(p, fd)' <=> Listing(p, fd)
    BY DEF Listing
  <2> QED BY <1>1, <2>1 DEF IInv, Position
<1> QED BY <1>2, <1>3, <1>4, <1>5, <1>6 DEF IInv

LEMMA WriteKeeps ==
    ASSUME IInv, UNCHANGED <<tree, currentTerminal, fdArray, directory_read_count, stream>>
    PROVE  IInv'
BY OthersKeep DEF IInv, Types

LEMMA SwitchTerminalKeeps ==
    ASSUME IInv, NEW t \in Term, SwitchTerminal(t)
    PROVE  IInv'
BY OthersKeep DEF SwitchTerminal

-----------------------------------------------------------------------------
(* Processes come and go *)

(* Each program keeps its descriptors or has none open and read nothing;   *)
(* the listing under way keeps its own.                                    *)
LEMMA ProgramsKeep ==
    ASSUME IInv, Types', UNCHANGED directory_read_count,
           \A r \in Live' :
              \/ r \in Live /\ fdArray'[r] = fdArray[r] /\ stream'[r] = stream[r]
              \/ /\ fdArray'[r][0].inUse /\ fdArray'[r][1].inUse
                 /\ \A fd \in UserFd : ~fdArray'[r][fd].inUse /\ stream'[r][fd] = NoStream,
           \A r \in Live, fd \in UserFd : Listing(r, fd) =>
              r \in Live' /\ fdArray'[r] = fdArray[r] /\ stream'[r] = stream[r],
           Live' \subseteq Pid
    PROVE  Streams' /\ Position'
<1>1. Streams'
  <2> SUFFICES ASSUME NEW r \in Live'
               PROVE  /\ fdArray'[r][0].inUse /\ fdArray'[r][1].inUse
                      /\ \A fd \in UserFd : Agree(fdArray'[r][fd], stream'[r][fd])
    BY DEF Streams
  <2>1. CASE r \in Live /\ fdArray'[r] = fdArray[r] /\ stream'[r] = stream[r]
    BY <2>1 DEF IInv, Streams
  <2>2. CASE /\ fdArray'[r][0].inUse /\ fdArray'[r][1].inUse
             /\ \A fd \in UserFd : ~fdArray'[r][fd].inUse /\ stream'[r][fd] = NoStream
    <3>1. \A fd \in UserFd : fdArray'[r][fd] \in DescType
      BY FdFacts DEF Types
    <3> QED BY <2>2, <3>1, UnusedAgrees
  <2> QED BY <2>1, <2>2
<1>2. \A r \in Live', fd \in UserFd :
         /\ fdArray'[r][fd].ops = "dir" /\ fdArray'[r][fd].inUse
         /\ stream'[r][fd].got # <<>> /\ ~stream'[r][fd].ended
         => r \in Live /\ Listing(r, fd) /\ stream'[r][fd] = stream[r][fd]
  BY DEF Listing
<1>3. \A r \in Live, fd \in UserFd : Listing(r, fd) =>
         /\ r \in Live'
         /\ fdArray'[r][fd].ops = "dir" /\ fdArray'[r][fd].inUse
         /\ stream'[r][fd].got # <<>> /\ ~stream'[r][fd].ended
  BY DEF Listing
<1>4. Position'
  BY <1>2, <1>3 DEF IInv, Position, Listing
<1> QED BY <1>1, <1>4

\* initPCB and halt leave no descriptor but the terminal's two.
LEMMA NewPCBFields ==
    ASSUME NEW old
    PROVE  /\ NewPCB(old) \in [Fd -> DescType]
           /\ NewPCB(old)[0].inUse /\ NewPCB(old)[1].inUse
           /\ \A fd \in UserFd : NewPCB(old)[fd] = Unused
<1>1. \A ops \in {"stdin", "stdout"} : StdStream(ops) \in DescType /\ StdStream(ops).inUse
  BY DEF StdStream, Unused, DescType
<1>2. \A fd \in Fd : NewPCB(old)[fd] = CASE fd = 0 -> StdStream("stdin") [] fd = 1 -> StdStream("stdout")
                                        [] OTHER -> Unused
  BY DEF NewPCB
<1>3. NewPCB(old)[0] = StdStream("stdin") /\ NewPCB(old)[1] = StdStream("stdout")
  BY <1>2, FdFacts
<1>4. \A fd \in UserFd : NewPCB(old)[fd] = Unused
  BY <1>2, FdFacts
<1>5. \A fd \in Fd : NewPCB(old)[fd] \in DescType
  BY <1>1, <1>2, UnusedFields
<1>6. NewPCB(old) \in [Fd -> DescType]
  BY <1>5 DEF NewPCB
<1> QED BY <1>1, <1>3, <1>4, <1>6

LEMMA AllUnusedFields == AllUnused \in [Fd -> DescType] /\ \A fd \in Fd : AllUnused[fd] = Unused
BY UnusedFields DEF AllUnused

(* execute: a new program stands on top of the running one.                *)
LEMMA ExecuteKeeps ==
    ASSUME IInv, Habits = {}, Execute
    PROVE  IInv'
<1> DEFINE ct == currentTerminal
           n == Len(tree[ct])
<1>1. PICK p \in Pid :
         /\ p \notin Live
         /\ tree' = [tree EXCEPT ![ct] = Append(@, p)]
         /\ fdArray' = [fdArray EXCEPT ![p] = NewPCB(@)]
  BY DEF Execute, UnusedPid
<1>2. /\ UNCHANGED <<currentTerminal, directory_read_count, stream>>
      /\ \A fd \in UserFd : ~fdArray[Running][fd].inUse
  BY DEF Execute
<1>3. /\ n \in Nat \ {0} /\ Running = tree[ct][n] /\ Running \in Live /\ ct \in Term
      /\ tree[ct] \in Seq(Pid)
  BY RunningLives DEF IInv, Types
<1>4. /\ Append(tree[ct], p) \in Seq(Pid) \ {<<>>} /\ Len(Append(tree[ct], p)) = n + 1
      /\ \A i \in 1 .. n : Append(tree[ct], p)[i] = tree[ct][i]
      /\ Append(tree[ct], p)[n + 1] = p
  BY <1>3, AppendProperties
<1>5. tree' \in [Term -> Seq(Pid) \ {<<>>}]
  BY <1>1, <1>3, <1>4 DEF IInv, Types
<1>6. /\ tree'[ct] = Append(tree[ct], p)
      /\ \A t \in Term : t # ct => tree'[t] = tree[t]
  BY <1>1, <1>3 DEF IInv, Types
<1>7. \A t \in Term : Len(tree[t]) \in Nat \ {0}
  BY EmptySeq DEF IInv, Types
<1>8. /\ Live \subseteq Pid /\ Live' \subseteq Pid
      /\ \A q : q \in Live <=> \E t \in Term : \E i \in 1 .. Len(tree[t]) : tree[t][i] = q
      /\ \A q : q \in Live' <=> \E t \in Term : \E i \in 1 .. Len(tree'[t]) : tree'[t][i] = q
  BY <1>5, LiveDef, LiveDefNext DEF IInv, Types
<1>9. \A t \in Term : \A i \in 1 .. Len(tree'[t]) :
         \/ t = ct /\ i = n + 1 /\ tree'[t][i] = p
         \/ i \in 1 .. Len(tree[t]) /\ tree'[t][i] = tree[t][i] /\ tree[t][i] \in Live
  <2> SUFFICES ASSUME NEW t \in Term, NEW i \in 1 .. Len(tree'[t])
               PROVE  \/ t = ct /\ i = n + 1 /\ tree'[t][i] = p
                      \/ i \in 1 .. Len(tree[t]) /\ tree'[t][i] = tree[t][i] /\ tree[t][i] \in Live
    OBVIOUS
  <2>1. CASE t # ct
    BY <1>6, <1>8, <2>1
  <2>2. CASE t = ct
    <3>1. i = n + 1 \/ i \in 1 .. n
      BY <1>3, <1>4, <1>6, <2>2
    <3> QED BY <1>4, <1>6, <1>8, <2>2, <3>1
  <2> QED BY <2>1, <2>2
<1>10. \A q : q \in Live' <=> q \in Live \/ q = p
  <2>1. ASSUME NEW q, q \in Live' PROVE q \in Live \/ q = p
    BY <1>8, <1>9, <2>1
  <2>2. ASSUME NEW q, q \in Live PROVE q \in Live'
    <3>0. PICK t \in Term : \E i \in 1 .. Len(tree[t]) : tree[t][i] = q
      BY <1>8, <2>2
    <3>1. PICK i \in 1 .. Len(tree[t]) : tree[t][i] = q
      BY <3>0
    <3>2. i \in 1 .. Len(tree'[t]) /\ tree'[t][i] = q
      BY <1>3, <1>4, <1>6, <1>7, <3>1
    <3> QED BY <1>8, <3>2
  <2>3. p \in Live'
    <3>1. n + 1 \in 1 .. Len(tree'[ct]) /\ tree'[ct][n + 1] = p
      BY <1>3, <1>4, <1>6
    <3> QED BY <1>3, <1>8, <3>1
  <2> QED BY <2>1, <2>2, <2>3
<1>11. Apart'
  <2> SUFFICES ASSUME NEW t \in Term, NEW u \in Term, NEW i \in 1 .. Len(tree'[t]),
                      NEW j \in 1 .. Len(tree'[u]), tree'[t][i] = tree'[u][j]
               PROVE  t = u /\ i = j
    BY DEF Apart
  <2> QED BY <1>1, <1>9 DEF IInv, Apart
<1>12. /\ fdArray'[p] = NewPCB(fdArray[p])
       /\ \A q \in Pid : q # p => fdArray'[q] = fdArray[q]
  BY <1>1 DEF IInv, Types
<1>13. Types'
  BY <1>1, <1>2, <1>5, NewPCBFields DEF IInv, Types
<1>14. WaitersClosed'
  <2> SUFFICES ASSUME NEW t \in Term, NEW i \in 1 .. Len(tree'[t]) - 1, NEW fd \in UserFd
               PROVE  ~fdArray'[tree'[t][i]][fd].inUse
    BY DEF WaitersClosed
  <2>1. Len(tree'[t]) \in Nat /\ i \in 1 .. Len(tree'[t])
    BY <1>5
  <2>2. CASE t # ct
    <3>1. i \in 1 .. Len(tree[t]) - 1 /\ tree'[t][i] = tree[t][i]
      BY <1>6, <2>2
    <3>2. tree[t][i] \in Live
      BY <1>8, <1>7, <3>1
    <3>3. tree[t][i] \in Pid /\ tree[t][i] # p
      BY <1>1, <1>8, <3>2
    <3> QED BY <1>12, <3>1, <3>3 DEF IInv, WaitersClosed
  <2>3. CASE t = ct
    <3>1. i \in 1 .. n /\ tree'[t][i] = tree[ct][i]
      BY <1>3, <1>4, <1>6, <2>3
    <3>2. tree[ct][i] \in Live
      BY <1>3, <1>8, <3>1
    <3>3. fdArray'[tree[ct][i]] = fdArray[tree[ct][i]]
      BY <1>1, <1>8, <1>12, <3>2
    <3>4. ~fdArray[tree[ct][i]][fd].inUse
      <4>1. CASE i = n
        BY <1>2, <1>3, <4>1
      <4>2. CASE i # n
        <5>1. i \in 1 .. n - 1
          BY <1>3, <3>1, <4>2
        <5> QED BY <1>3, <5>1 DEF IInv, WaitersClosed
      <4> QED BY <4>1, <4>2
    <3> QED BY <3>1, <3>3, <3>4
  <2> QED BY <2>2, <2>3
<1>15. \A fd \in Fd : stream[p][fd] = NoStream
  BY <1>1 DEF IInv, Fresh
<1>16. ASSUME NEW r \in Live'
       PROVE  \/ r \in Live /\ fdArray'[r] = fdArray[r] /\ stream'[r] = stream[r]
              \/ /\ fdArray'[r][0].inUse /\ fdArray'[r][1].inUse
                 /\ \A fd \in UserFd : ~fdArray'[r][fd].inUse /\ stream'[r][fd] = NoStream
  <2>1. CASE r = p
    <3>1. /\ fdArray'[r][0].inUse /\ fdArray'[r][1].inUse
          /\ \A fd \in UserFd : fdArray'[r][fd] = Unused
      BY <1>12, <2>1, NewPCBFields
    <3> QED BY <1>2, <1>15, <2>1, <3>1, FdFacts, UnusedFields
  <2>2. CASE r # p
    BY <1>2, <1>8, <1>10, <1>12, <2>2
  <2> QED BY <2>1, <2>2
<1>17. \A r \in Live, fd \in UserFd : Listing(r, fd) =>
          r \in Live' /\ fdArray'[r] = fdArray[r] /\ stream'[r] = stream[r]
  BY <1>1, <1>2, <1>8, <1>10, <1>12
<1>18. Streams' /\ Position'
  BY <1>2, <1>8, <1>13, <1>16, <1>17, ProgramsKeep
<1>19. Fresh'
  BY <1>2, <1>10 DEF IInv, Fresh
<1> QED BY <1>11, <1>13, <1>14, <1>18, <1>19 DEF IInv

(* halt of a child: the parent, which had nothing open, goes on.           *)
LEMMA HaltChildKeeps ==
    ASSUME IInv, Habits = {}, HaltChild
    PROVE  IInv'
<1> DEFINE ct == currentTerminal
           n == Len(tree[ct])
           p == Running
           q == tree[ct][n - 1]
<1>1. /\ n > 1
      /\ \A fd \in UserFd : ~Listing(p, fd)
      /\ tree' = [tree EXCEPT ![ct] = Front(@)]
      /\ fdArray' = [fdArray EXCEPT ![q] = ClosedBy(@, fdArray[p]), ![p] = AllUnused]
      /\ stream' = [stream EXCEPT ![p] = [fd \in Fd |-> NoStream]]
      /\ UNCHANGED <<currentTerminal, directory_read_count>>
  BY DEF HaltChild, MayDrop
<1>2. /\ n \in Nat \ {0} /\ p = tree[ct][n] /\ p \in Live /\ p \in Pid /\ ct \in Term
      /\ tree[ct] \in Seq(Pid) /\ tree[ct] # <<>>
  BY RunningLives DEF IInv, Types
<1>3. /\ Front(tree[ct]) \in Seq(Pid) /\ Len(Front(tree[ct])) = n - 1
      /\ \A i \in 1 .. n - 1 : Front(tree[ct])[i] = tree[ct][i]
  <2>1. Front(tree[ct]) = SubSeq(tree[ct], 1, n - 1)
    BY DEF Front
  <2>2. \A i \in 1 .. n : tree[ct][i] \in Pid
    BY <1>2, ElementOfSeq
  <2> QED BY <1>1, <1>2, <2>1, <2>2, SubSeqProperties
<1>4. Front(tree[ct]) # <<>>
  BY <1>1, <1>2, <1>3
<1>5. tree' \in [Term -> Seq(Pid) \ {<<>>}]
  BY <1>1, <1>2, <1>3, <1>4 DEF IInv, Types
<1>6. /\ tree'[ct] = Front(tree[ct])
      /\ \A t \in Term : t # ct => tree'[t] = tree[t]
  BY <1>1, <1>2 DEF IInv, Types
<1>7. \A t \in Term : Len(tree[t]) \in Nat \ {0}
  BY EmptySeq DEF IInv, Types
<1>8. /\ Live \subseteq Pid /\ Live' \subseteq Pid
      /\ \A r : r \in Live <=> \E t \in Term : \E i \in 1 .. Len(tree[t]) : tree[t][i] = r
      /\ \A r : r \in Live' <=> \E t \in Term : \E i \in 1 .. Len(tree'[t]) : tree'[t][i] = r
  BY <1>5, LiveDef, LiveDefNext DEF IInv, Types
<1>9. \A t \in Term : \A i \in 1 .. Len(tree'[t]) :
         /\ i \in 1 .. Len(tree[t]) /\ tree'[t][i] = tree[t][i]
         /\ tree[t][i] \in Live /\ tree[t][i] # p
  <2> SUFFICES ASSUME NEW t \in Term, NEW i \in 1 .. Len(tree'[t])
               PROVE  /\ i \in 1 .. Len(tree[t]) /\ tree'[t][i] = tree[t][i]
                      /\ tree[t][i] \in Live /\ tree[t][i] # p
    OBVIOUS
  <2>1. i \in 1 .. Len(tree[t]) /\ tree'[t][i] = tree[t][i] /\ ~(t = ct /\ i = n)
    <3>1. CASE t # ct
      BY <1>6, <3>1
    <3>2. CASE t = ct
      BY <1>2, <1>3, <1>6, <3>2
    <3> QED BY <3>1, <3>2
  <2>2. n \in 1 .. Len(tree[ct])
    BY <1>2
  <2>3. tree[t][i] # p
    BY <1>2, <2>1, <2>2 DEF IInv, Apart
  <2> QED BY <1>8, <2>1, <2>3
<1>10. \A r : r \in Live' <=> r \in Live /\ r # p
  <2>1. ASSUME NEW r, r \in Live' PROVE r \in Live /\ r # p
    BY <1>8, <1>9, <2>1
  <2>2. ASSUME NEW r, r \in Live, r # p PROVE r \in Live'
    <3>0. PICK t \in Term : \E i \in 1 .. Len(tree[t]) : tree[t][i] = r
      BY <1>8, <2>2
    <3>1. PICK i \in 1 .. Len(tree[t]) : tree[t][i] = r
      BY <3>0
    <3>2. ~(t = ct /\ i = n)
      BY <1>2, <2>2, <3>1
    <3>3. i \in 1 .. Len(tree'[t]) /\ tree'[t][i] = r
      BY <1>2, <1>3, <1>6, <3>1, <3>2
    <3> QED BY <1>8, <3>3
  <2> QED BY <2>1, <2>2
<1>11. Apart'
  <2> SUFFICES ASSUME NEW t \in Term, NEW u \in Term, NEW i \in 1 .. Len(tree'[t]),
                      NEW j \in 1 .. Len(tree'[u]), tree'[t][i] = tree'[u][j]
               PROVE  t = u /\ i = j
    BY DEF Apart
  <2> QED BY <1>9 DEF IInv, Apart
<1>12. /\ n - 1 \in 1 .. n - 1 /\ n - 1 \in 1 .. Len(tree'[ct])
       /\ q \in Live /\ q \in Pid /\ q # p
  <2>1. n - 1 \in 1 .. n - 1 /\ n - 1 \in 1 .. Len(tree'[ct])
    BY <1>1, <1>2, <1>3, <1>6
  <2> QED BY <1>2, <1>8, <1>9, <2>1
<1>13. \A fd \in UserFd : ~fdArray[q][fd].inUse
  BY <1>2, <1>12 DEF IInv, WaitersClosed
<1> HIDE DEF p, q
<1>14. /\ fdArray'[q] = ClosedBy(fdArray[q], fdArray[p])
       /\ fdArray'[p] = AllUnused
       /\ \A r \in Pid : r # p /\ r # q => fdArray'[r] = fdArray[r]
  BY <1>1, <1>2, <1>12 DEF IInv, Types
<1>15. /\ ClosedBy(fdArray[q], fdArray[p]) \in [Fd -> DescType]
       /\ fdArray'[q][0].inUse /\ fdArray'[q][1].inUse
       /\ \A fd \in UserFd : ~fdArray'[q][fd].inUse
  <2>1. fdArray[q] \in [Fd -> DescType]
    BY <1>12 DEF IInv, Types
  <2>2. \A fd \in Fd : fdArray'[q][fd] = IF fd \in UserFd /\ fdArray[p][fd].inUse THEN Unused
                                         ELSE fdArray[q][fd]
    BY <1>14 DEF ClosedBy
  <2>3. ClosedBy(fdArray[q], fdArray[p]) \in [Fd -> DescType]
    BY <2>1, UnusedFields DEF ClosedBy
  <2>4. fdArray'[q][0] = fdArray[q][0] /\ fdArray'[q][1] = fdArray[q][1]
    BY <2>2, FdFacts
  <2>5. fdArray'[q][0].inUse /\ fdArray'[q][1].inUse
    BY <1>12, <2>4 DEF IInv, Streams
  <2>6. \A fd \in UserFd : ~fdArray'[q][fd].inUse
    BY <1>13, <2>2, FdFacts, UnusedFields
  <2> QED BY <2>3, <2>5, <2>6
<1>16. /\ stream'[p] = [fd \in Fd |-> NoStream]
       /\ \A r \in Pid : r # p => stream'[r] = stream[r]
  BY <1>1, <1>2 DEF IInv, Types
<1>17. Types'
  <2>1. fdArray' \in [Pid -> [Fd -> DescType]]
    BY <1>1, <1>15, AllUnusedFields DEF IInv, Types
  <2>2. stream' \in [Pid -> [Fd -> StreamType]]
    BY <1>1, UnusedFields DEF IInv, Types
  <2> QED BY <1>1, <1>5, <2>1, <2>2 DEF IInv, Types
<1>18. \A fd \in UserFd : stream[q][fd] = NoStream
  BY <1>12, <1>13, FdFacts DEF IInv, Streams, Agree
<1>19. WaitersClosed'
  <2> SUFFICES ASSUME NEW t \in Term, NEW i \in 1 .. Len(tree'[t]) - 1, NEW fd \in UserFd
               PROVE  ~fdArray'[tree'[t][i]][fd].inUse
    BY DEF WaitersClosed
  <2>1. Len(tree'[t]) \in Nat /\ i \in 1 .. Len(tree'[t])
    BY <1>5
  <2>2. /\ tree'[t][i] = tree[t][i] /\ tree[t][i] \in Pid /\ tree[t][i] # p
        /\ i \in 1 .. Len(tree[t]) - 1
    <3>1. CASE t # ct
      BY <1>6, <1>8, <1>9, <2>1, <3>1
    <3>2. CASE t = ct
      <4>1. i \in 1 .. n - 1
        BY <1>2, <1>3, <1>6, <3>2
      <4> QED BY <1>8, <1>9, <2>1, <3>2, <4>1
    <3> QED BY <3>1, <3>2
  <2>3. CASE tree[t][i] = q
    BY <1>15, <2>2, <2>3
  <2>4. CASE tree[t][i] # q
    BY <1>14, <2>2, <2>4 DEF IInv, WaitersClosed
  <2> QED BY <2>3, <2>4
<1>20. ASSUME NEW r \in Live'
       PROVE  \/ r \in Live /\ fdArray'[r] = fdArray[r] /\ stream'[r] = stream[r]
              \/ /\ fdArray'[r][0].inUse /\ fdArray'[r][1].inUse
                 /\ \A fd \in UserFd : ~fdArray'[r][fd].inUse /\ stream'[r][fd] = NoStream
  <2>1. r \in Live /\ r # p /\ r \in Pid
    BY <1>8, <1>10
  <2>2. CASE r = q
    BY <1>12, <1>15, <1>16, <1>18, <2>2
  <2>3. CASE r # q
    BY <1>14, <1>16, <2>1, <2>3
  <2> QED BY <2>2, <2>3
<1>21. ASSUME NEW r \in Live, NEW fd \in UserFd, Listing(r, fd)
       PROVE  r \in Live' /\ fdArray'[r] = fdArray[r] /\ stream'[r] = stream[r]
  <2>1. r # p
    BY <1>1, <1>21 DEF p
  <2>2. r # q
    BY <1>13, <1>21 DEF Listing
  <2> QED BY <1>8, <1>10, <1>14, <1>16, <2>1, <2>2
<1>22. Streams' /\ Position'
  BY <1>1, <1>8, <1>17, <1>20, <1>21, ProgramsKeep
<1>23. Fresh'
  <2> SUFFICES ASSUME NEW r \in Pid, r \notin Live', NEW fd \in Fd PROVE stream'[r][fd] = NoStream
    BY DEF Fresh
  <2>1. CASE r = p
    BY <1>16, <2>1
  <2>2. CASE r # p
    BY <1>10, <1>16, <2>2 DEF IInv, Fresh
  <2> QED BY <2>1, <2>2
<1> QED BY <1>11, <1>17, <1>19, <1>22, <1>23 DEF IInv

(* halt of a base shell: its pid, or another unused one, runs a new shell. *)
LEMMA HaltBaseKeeps ==
    ASSUME IInv, Habits = {}, HaltBase
    PROVE  IInv'
<1> DEFINE ct == currentTerminal
           p == Running
<1>1. PICK q \in Pid :
         /\ q \notin Live \ {p}
         /\ tree' = [tree EXCEPT ![ct] = <<q>>]
         /\ fdArray' = [fdArray EXCEPT ![q] = NewPCB(@)]
  BY DEF HaltBase, UnusedPid
<1>2. /\ Len(tree[ct]) = 1
      /\ \A fd \in UserFd : ~Listing(p, fd)
      /\ stream' = [stream EXCEPT ![p] = [fd \in Fd |-> NoStream]]
      /\ UNCHANGED <<currentTerminal, directory_read_count>>
  BY DEF HaltBase, MayDrop
<1>3. p = tree[ct][1] /\ p \in Live /\ p \in Pid /\ ct \in Term
  BY <1>2, RunningLives DEF IInv, Types
<1>4. tree' \in [Term -> Seq(Pid) \ {<<>>}]
  BY <1>1, <1>3 DEF IInv, Types
<1>5. /\ tree'[ct] = <<q>> /\ Len(tree'[ct]) = 1 /\ tree'[ct][1] = q
      /\ \A t \in Term : t # ct => tree'[t] = tree[t]
  BY <1>1, <1>3 DEF IInv, Types
<1>6. /\ Live \subseteq Pid /\ Live' \subseteq Pid
      /\ \A r : r \in Live <=> \E t \in Term : \E i \in 1 .. Len(tree[t]) : tree[t][i] = r
      /\ \A r : r \in Live' <=> \E t \in Term : \E i \in 1 .. Len(tree'[t]) : tree'[t][i] = r
  BY <1>4, LiveDef, LiveDefNext DEF IInv, Types
<1>7. \A t \in Term : t # ct => \A i \in 1 .. Len(tree[t]) :
         tree[t][i] \in Live \ {p} /\ tree[t][i] # q
  <2> SUFFICES ASSUME NEW t \in Term, t # ct, NEW i \in 1 .. Len(tree[t])
               PROVE  tree[t][i] \in Live /\ tree[t][i] # p
    BY <1>1
  <2>1. 1 \in 1 .. Len(tree[ct])
    BY <1>2
  <2> QED BY <1>3, <1>6, <2>1 DEF IInv, Apart
<1> HIDE DEF p
<1>8. \A r : r \in Live' <=> (r \in Live /\ r # p) \/ r = q
  <2>1. ASSUME NEW r, r \in Live' PROVE (r \in Live /\ r # p) \/ r = q
    <3>1. PICK t \in Term : \E i \in 1 .. Len(tree'[t]) : tree'[t][i] = r
      BY <1>6, <2>1
    <3>2. CASE t = ct
      BY <1>5, <3>1, <3>2
    <3>3. CASE t # ct
      BY <1>5, <1>7, <3>1, <3>3
    <3> QED BY <3>2, <3>3
  <2>2. ASSUME NEW r, r \in Live, r # p PROVE r \in Live'
    <3>1. PICK t \in Term : \E i \in 1 .. Len(tree[t]) : tree[t][i] = r
      BY <1>6, <2>2
    <3>2. t # ct
      BY <1>2, <1>3, <2>2, <3>1
    <3> QED BY <1>5, <1>6, <3>1, <3>2
  <2>3. q \in Live'
    <3>1. 1 \in 1 .. Len(tree'[ct])
      BY <1>5
    <3> QED BY <1>3, <1>5, <1>6, <3>1
  <2> QED BY <2>1, <2>2, <2>3
<1>9. Apart'
  <2> SUFFICES ASSUME NEW t \in Term, NEW u \in Term, NEW i \in 1 .. Len(tree'[t]),
                      NEW j \in 1 .. Len(tree'[u]), tree'[t][i] = tree'[u][j]
               PROVE  t = u /\ i = j
    BY DEF Apart
  <2>1. CASE t = ct /\ u = ct
    BY <1>5, <2>1
  <2>2. CASE t # ct /\ u # ct
    BY <1>5, <2>2 DEF IInv, Apart
  <2>3. CASE t = ct /\ u # ct
    BY <1>5, <1>7, <2>3
  <2>4. CASE t # ct /\ u = ct
    BY <1>5, <1>7, <2>4
  <2> QED BY <2>1, <2>2, <2>3, <2>4
<1>10. /\ fdArray'[q] = NewPCB(fdArray[q])
       /\ \A r \in Pid : r # q => fdArray'[r] = fdArray[r]
       /\ stream'[p] = [fd \in Fd |-> NoStream]
       /\ \A r \in Pid : r # p => stream'[r] = stream[r]
  BY <1>1, <1>2, <1>3 DEF IInv, Types
<1>11. Types'
  <2>1. stream' \in [Pid -> [Fd -> StreamType]]
    BY <1>2, UnusedFields DEF IInv, Types
  <2>2. fdArray' \in [Pid -> [Fd -> DescType]]
    BY <1>1, NewPCBFields DEF IInv, Types
  <2> QED BY <1>2, <1>4, <2>1, <2>2 DEF IInv, Types
<1>12. WaitersClosed'
  <2> SUFFICES ASSUME NEW t \in Term, NEW i \in 1 .. Len(tree'[t]) - 1, NEW fd \in UserFd
               PROVE  ~fdArray'[tree'[t][i]][fd].inUse
    BY DEF WaitersClosed
  <2>1. Len(tree'[t]) \in Nat
    BY <1>4
  <2>2. t # ct
    <3> SUFFICES ASSUME t = ct PROVE FALSE
      OBVIOUS
    <3>1. Len(tree'[t]) = 1
      BY <1>5
    <3> QED BY <3>1
  <2>3. i \in 1 .. Len(tree[t]) /\ i \in 1 .. Len(tree[t]) - 1 /\ tree'[t][i] = tree[t][i]
    BY <1>5, <2>1, <2>2
  <2>4. tree[t][i] \in Pid /\ tree[t][i] # q
    BY <1>6, <1>7, <2>2, <2>3
  <2> QED BY <1>10, <2>3, <2>4 DEF IInv, WaitersClosed
<1>13. \A fd \in Fd : stream'[q][fd] = NoStream
  <2>1. CASE q = p
    BY <1>10, <2>1
  <2>2. CASE q # p
    BY <1>1, <1>10, <2>2 DEF IInv, Fresh
  <2> QED BY <2>1, <2>2
<1>14. ASSUME NEW r \in Live'
       PROVE  \/ r \in Live /\ fdArray'[r] = fdArray[r] /\ stream'[r] = stream[r]
              \/ /\ fdArray'[r][0].inUse /\ fdArray'[r][1].inUse
                 /\ \A fd \in UserFd : ~fdArray'[r][fd].inUse /\ stream'[r][fd] = NoStream
  <2>1. CASE r = q
    <3>1. /\ fdArray'[r][0].inUse /\ fdArray'[r][1].inUse
          /\ \A fd \in UserFd : fdArray'[r][fd] = Unused
      BY <1>10, <2>1, NewPCBFields
    <3> QED BY <1>13, <2>1, <3>1, FdFacts, UnusedFields
  <2>2. CASE r # q
    BY <1>6, <1>8, <1>10, <2>2
  <2> QED BY <2>1, <2>2
<1>15. ASSUME NEW r \in Live, NEW fd \in UserFd, Listing(r, fd)
       PROVE  r \in Live' /\ fdArray'[r] = fdArray[r] /\ stream'[r] = stream[r]
  <2>1. r # p
    BY <1>2, <1>15 DEF p
  <2>2. r # q
    BY <1>1, <2>1
  <2> QED BY <1>6, <1>8, <1>10, <2>1, <2>2
<1>16. Streams' /\ Position'
  BY <1>2, <1>6, <1>11, <1>14, <1>15, ProgramsKeep
<1>17. Fresh'
  <2> SUFFICES ASSUME NEW r \in Pid, r \notin Live', NEW fd \in Fd PROVE stream'[r][fd] = NoStream
    BY DEF Fresh
  <2>1. CASE r = p
    BY <1>10, <2>1
  <2>2. CASE r # p
    BY <1>8, <1>10, <2>2 DEF IInv, Fresh
  <2> QED BY <2>1, <2>2
<1> QED BY <1>9, <1>11, <1>12, <1>16, <1>17 DEF IInv

-----------------------------------------------------------------------------
LEMMA InitInv == Init => IInv
<1> SUFFICES ASSUME Init PROVE IInv
  OBVIOUS
<1>1. tree \in [Term -> {<<p>> : p \in Pid}] /\ \A t, u \in Term : t # u => tree[t] # tree[u]
  BY DEF Init
<1>2. \A t \in Term : /\ tree[t] \in Seq(Pid) \ {<<>>} /\ Len(tree[t]) = 1
                      /\ tree[t] = <<tree[t][1]>>
  <2> SUFFICES ASSUME NEW t \in Term
               PROVE  /\ tree[t] \in Seq(Pid) \ {<<>>} /\ Len(tree[t]) = 1
                      /\ tree[t] = <<tree[t][1]>>
    OBVIOUS
  <2>1. PICK p \in Pid : tree[t] = <<p>>
    BY <1>1
  <2> QED BY <2>1
<1>3. tree \in [Term -> Seq(Pid) \ {<<>>}]
  BY <1>1, <1>2
<1>4. Live \subseteq Pid
  BY <1>3, LiveDef
<1>5. fdArray = [p \in Pid |-> IF p \in Live THEN NewPCB(AllUnused) ELSE AllUnused]
      /\ stream = [p \in Pid |-> [fd \in Fd |-> NoStream]]
      /\ directory_read_count = 0 /\ currentTerminal \in Term
  BY DEF Init
<1>6. Types
  BY <1>3, <1>5, NewPCBFields, AllUnusedFields, UnusedFields, ImageAssumption DEF Types
<1>7. Apart
  <2> SUFFICES ASSUME NEW t \in Term, NEW u \in Term, NEW i \in 1 .. Len(tree[t]),
                      NEW j \in 1 .. Len(tree[u]), tree[t][i] = tree[u][j]
               PROVE  t = u /\ i = j
    BY DEF Apart
  <2>1. i = 1 /\ j = 1
    BY <1>2
  <2> QED BY <1>1, <1>2, <2>1
<1>8. WaitersClosed
  <2> SUFFICES ASSUME NEW t \in Term, NEW i \in 1 .. Len(tree[t]) - 1 PROVE FALSE
    BY DEF WaitersClosed
  <2>1. Len(tree[t]) = 1
    BY <1>2
  <2> QED BY <2>1
<1>9. \A p \in Live, fd \in UserFd : fdArray[p][fd] = Unused /\ stream[p][fd] = NoStream
  BY <1>4, <1>5, NewPCBFields, FdFacts
<1>10. Streams
  <2>1. \A p \in Live : fdArray[p][0].inUse /\ fdArray[p][1].inUse
    BY <1>4, <1>5, NewPCBFields
  <2> QED BY <1>9, <2>1, UnusedAgrees, UnusedFields DEF Streams
<1>11. Fresh
  BY <1>5 DEF Fresh
<1>12. Position
  BY <1>5, <1>9, UnusedFields DEF Position, Listing
<1> QED BY <1>6, <1>7, <1>8, <1>10, <1>11, <1>12 DEF IInv

LEMMA NextKeeps ==
    ASSUME IInv, Habits = {}, CarefulNames, [Next]_vars
    PROVE  IInv'
<1>1. ASSUME NEW name \in Names, Open(name) PROVE IInv'
  BY <1>1, OpenKeeps
<1>2. ASSUME NEW fd \in UserFd, Close(fd) PROVE IInv'
  BY <1>2, CloseKeeps
<1>3. ASSUME NEW fd \in UserFd, NEW n \in 1 .. 2, Read(fd, n) PROVE IInv'
  <2>1. /\ fdArray[Running][fd].inUse /\ UNCHANGED <<tree, currentTerminal>>
        /\ \/ fdArray[Running][fd].ops = "file" /\ ReadFile(fd, n)
           \/ fdArray[Running][fd].ops = "dir" /\ ReadDirectory(fd)
    BY <1>3 DEF Read
  <2> QED BY <2>1, ReadFileKeeps, ReadDirectoryKeeps
<1>4. ASSUME NEW fd \in UserFd, NEW r \in Rates, Write(fd, r) PROVE IInv'
  BY <1>4, WriteKeeps DEF Write
<1>5. CASE Execute
  BY <1>5, ExecuteKeeps
<1>6. CASE HaltChild
  BY <1>6, HaltChildKeeps
<1>7. CASE HaltBase
  BY <1>7, HaltBaseKeeps
<1>8. ASSUME NEW t \in Term, SwitchTerminal(t) PROVE IInv'
  BY <1>8, SwitchTerminalKeeps
<1>9. CASE UNCHANGED vars
  BY <1>9, WriteKeeps DEF vars
<1> QED BY <1>1, <1>2, <1>3, <1>4, <1>5, <1>6, <1>7, <1>8, <1>9 DEF Next

(* Careful programs: each descriptor of a running program agrees with what *)
(* was read through it, and the directory position with the one listing    *)
(* under way, in every reachable state (systemCalls.c, fileSystem.c).      *)
THEOREM Inductive ==
    ASSUME Habits = {}, CarefulNames
    PROVE  Spec => []IInv
<1>1. IInv /\ [Next]_vars => IInv'
  BY NextKeeps
<1> QED BY <1>1, InitInv, PTL DEF Spec

\* What the invariant says of the properties.
LEMMA AgreeWithMapped ==
    ASSUME IInv
    PROVE  DescriptorsAsOpened /\ ReadsInOrder
<1> SUFFICES ASSUME NEW p \in Live, NEW fd \in UserFd
             PROVE  /\ fdArray[p][fd].inUse <=> stream[p][fd].entry # 0
                    /\ stream[p][fd].entry # 0 =>
                          fdArray[p][fd] = Descriptor(stream[p][fd].entry, fdArray[p][fd].filePos)
                    /\ \A k \in 1 .. Len(stream[p][fd].got) : stream[p][fd].got[k] = k
  BY DEF IInv, Streams, DescriptorsAsOpened, ReadsInOrder
<1>1. p \in Pid /\ fd \in Fd /\ fdArray[p][fd] \in DescType /\ stream[p][fd] \in StreamType
  BY LiveDef, FdFacts DEF IInv, Types
<1>2. Agree(fdArray[p][fd], stream[p][fd])
  BY DEF IInv, Streams
<1>3. ASSUME stream[p][fd].entry # 0
      PROVE  fdArray[p][fd] = Descriptor(stream[p][fd].entry, fdArray[p][fd].filePos)
  <2> DEFINE d == fdArray[p][fd]
             e == stream[p][fd].entry
  <2>1. Opened(d, e) /\ d.inUse = TRUE /\ d \in DescType
    BY <1>1, <1>2, <1>3 DEF Agree, DescType
  <2> HIDE DEF d, e
  <2>2. d = [ops |-> OpsOf(TypeOf(e)),
             inode |-> IF TypeOf(e) = FILE_NORMAL THEN Directory[e].inode ELSE 0,
             filePos |-> d.filePos, inUse |-> TRUE]
    BY <2>1 DEF Opened, DescType
  <2>3. d = Descriptor(e, d.filePos)
    BY <2>2 DEF Descriptor, TypeOf
  <2> QED BY <2>3 DEF d, e
<1> QED BY <1>2, <1>3 DEF Agree

LEMMA EndHasAll ==
    ASSUME IInv
    PROVE  EndMeansAll
<1> SUFFICES ASSUME NEW p \in Live, NEW fd \in UserFd, stream[p][fd].ended
             PROVE  stream[p][fd].got =
                      [k \in 1 .. IF Directory[stream[p][fd].entry].type = FILE_DIR THEN Len(Directory)
                                  ELSE FileLength[Directory[stream[p][fd].entry].inode] |-> k]
  BY DEF EndMeansAll
<1> DEFINE d == fdArray[p][fd]
           s == stream[p][fd]
<1>1. s \in StreamType /\ d \in DescType /\ Agree(d, s) /\ s.ended
  BY LiveDef, FdFacts DEF IInv, Types, Streams
<1> HIDE DEF d, s
<1>2. s.entry # 0
  BY <1>1, UnusedFields DEF Agree
<1>3. s.entry \in Entry /\ ReadOf(d, s) /\ (\A k \in 1 .. Len(s.got) : s.got[k] = k)
  BY <1>1, <1>2 DEF Agree, StreamType
<1>4. TypeOf(s.entry) \in {FILE_RTC, FILE_DIR, FILE_NORMAL}
  BY <1>3, ImageAssumption DEF TypeOf
<1>5. Len(s.got) = IF TypeOf(s.entry) = FILE_DIR THEN Len(Directory)
                   ELSE FileLength[Directory[s.entry].inode]
  BY <1>1, <1>3, <1>4 DEF ReadOf, FILE_RTC, FILE_DIR, FILE_NORMAL
<1>6. s.got = [k \in 1 .. Len(s.got) |-> s.got[k]]
  BY <1>1 DEF StreamType
<1>7. s.got = [k \in 1 .. Len(s.got) |-> k]
  BY <1>3, <1>6
<1> QED BY <1>5, <1>7 DEF s, TypeOf

(* The descriptors of running programs are those they opened themselves    *)
(* (open, close, initPCB and halt in systemCalls.c).                       *)
THEOREM Descriptors ==
    ASSUME Habits = {}, CarefulNames
    PROVE  Spec => []DescriptorsAsOpened
BY Inductive, AgreeWithMapped, PTL

(* Reads return a file or the directory in order, from its first unit on   *)
(* (fs_read and fs_read_directory in fileSystem.c).                        *)
THEOREM InOrder ==
    ASSUME Habits = {}, CarefulNames
    PROVE  Spec => []ReadsInOrder
BY Inductive, AgreeWithMapped, PTL

(* A read returns 0 only at the end (fs_read and fs_read_directory).       *)
THEOREM AllRead ==
    ASSUME Habits = {}, CarefulNames
    PROVE  Spec => []EndMeansAll
BY Inductive, EndHasAll, PTL
=============================================================================
