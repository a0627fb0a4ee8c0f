--------------------------- MODULE ProcessProofs ---------------------------
(***************************************************************************)
(* Theorems about the loader and the process around it, for every file,    *)
(* every path and every width.                                             *)
(***************************************************************************)
EXTENDS Process, Arithmetic, SequenceTheorems, FiniteSetTheorems,
        WellFoundedInduction, TLAPS

Early == {"main", "state", "open"}
Loaded == {"commands", "instructions", "release"} \cup Running
Late == {"catch", "report", "shutdown", "exited"}

\* How far the process is tells what it holds.
HoldInv ==
  /\ at \in Early => fd = "none" /\ mapping = "none"
  /\ at = "map" => fd = "open" /\ mapping = "none"
  /\ at \in Loaded => fd = "open" /\ mapping = "mapped"
  /\ at \in Late => mapping # "mapped" /\ (fd = "open" => ~file.stats)
  /\ at = "catch" => thrown # "none"
  /\ at \in {"branch", "advance", "refuse"} => treeLogger

\* Every name in the registry got there by a statement already passed.
NamesInv ==
  /\ at \in {"main", "state"} => names = StaticNames
  /\ "DecisionTree" \in names => treeLogger \/ path = "DecisionTree"
  /\ "cheeky::main" \in names =>
       path = "cheeky::main" \/ at \in {"report", "shutdown", "exited"}

\* What has been kept of the load commands, and what the loop starts from.
EntryInv ==
  /\ file \in Files
  /\ commands \in Seq(CommandType)
  /\ at \in Running =>
       /\ TextSegments # {} /\ Entries # {}
       /\ base = Base(TextOffset)
       /\ pcOff = PcOff(commands[Max(Entries)].entryoff, base)

Records == {"debug", "error", "caught"}

ProcessInv ==
  /\ TypeOK /\ queue \in Seq(Records)
  /\ HoldInv /\ NamesInv /\ EntryInv /\ TerminatedByNames

-----------------------------------------------------------------------------
\* A nonempty set of naturals has a smallest element.
LEMMA MinIs ==
  ASSUME NEW S \in SUBSET Nat, S # {}
  PROVE  Min(S) \in S
  <1>1. PICK m \in S : \A k \in S : ~(<<k, m>> \in OpToRel(<, Nat))
    BY NatLessThanWellFounded, WFMin
  <1>2. \A k \in S : m <= k
    <2> SUFFICES ASSUME NEW k \in S PROVE m <= k OBVIOUS
    <2>1. k \in Nat /\ m \in Nat /\ ~(<<k, m>> \in OpToRel(<, Nat)) BY <1>1
    <2>2. ~(k < m) BY <2>1 DEF OpToRel
    <2>3. k \in Nat /\ m \in Nat BY <1>1
    <2> QED BY <2>2, <2>3
  <1> QED BY <1>1, <1>2 DEF Min

\* A nonempty set of naturals below a bound has a largest element.
LEMMA MaxIs ==
  ASSUME NEW n \in Nat, NEW S \in SUBSET (0 .. n), S # {}
  PROVE  Max(S) \in S
  <1> DEFINE T == {k \in 0 .. n : n - k \in S}
  <1>1. T \subseteq Nat /\ T # {}
    <2>1. PICK s \in S : TRUE OBVIOUS
    <2>2. n - s \in 0 .. n /\ n - (n - s) = s BY <2>1
    <2>3. n - s \in T BY <2>1, <2>2
    <2> QED BY <2>3
  <1>2. PICK m \in T : \A k \in T : ~(<<k, m>> \in OpToRel(<, Nat))
    BY <1>1, NatLessThanWellFounded, WFMin
  <1>3. \A s \in S : n - m >= s
    <2> SUFFICES ASSUME NEW s \in S PROVE n - m >= s OBVIOUS
    <2>1. n - s \in 0 .. n /\ n - (n - s) = s OBVIOUS
    <2>2. n - s \in T BY <2>1
    <2>3. n - s \in Nat /\ m \in Nat /\ ~(<<n - s, m>> \in OpToRel(<, Nat))
      BY <1>1, <1>2, <2>2
    <2>4. ~(n - s < m) BY <2>3 DEF OpToRel
    <2>5. n - s \in Nat /\ m \in Nat BY <1>1, <2>2
    <2> QED BY <2>4, <2>5
  <1>4. n - m \in S BY <1>2
  <1> QED BY <1>3, <1>4 DEF Max

\* The last entry command and the first text section are there to be taken.
LEMMA TakenFrom ==
  ASSUME commands \in Seq(CommandType)
  PROVE  /\ Entries # {} => Max(Entries) \in Entries
         /\ TextSegments # {} =>
              \E k \in TextSegments :
                \E s \in DOMAIN commands[k].sections :
                  /\ commands[k].sections[s].text
                  /\ TextOffset = commands[k].sections[s].offset
  <1>1. Len(commands) \in Nat /\ DOMAIN commands = 1 .. Len(commands)
        /\ \A k \in DOMAIN commands : commands[k] \in CommandType
    BY LenProperties
  <1>2. ASSUME Entries # {} PROVE Max(Entries) \in Entries
    <2>1. Entries \in SUBSET (0 .. Len(commands)) BY <1>1 DEF Entries
    <2> QED BY <1>1, <1>2, <2>1, MaxIs
  <1>3. ASSUME TextSegments # {}
        PROVE  \E k \in TextSegments :
                 \E s \in DOMAIN commands[k].sections :
                   /\ commands[k].sections[s].text
                   /\ TextOffset = commands[k].sections[s].offset
    <2>1. TextSegments \in SUBSET (0 .. Len(commands)) BY <1>1 DEF TextSegments
    <2>2. Max(TextSegments) \in TextSegments BY <1>1, <1>3, <2>1, MaxIs
    <2> DEFINE ss == commands[Max(TextSegments)].sections
               F == {s \in DOMAIN ss : ss[s].text}
    <2>3. /\ ss \in Seq([text : BOOLEAN, offset : 0 .. U32 - 1])
          /\ F # {}
      <3>1. Max(TextSegments) \in DOMAIN commands /\ F # {} BY <2>2 DEF TextSegments
      <3>2. commands[Max(TextSegments)] \in CommandType BY <1>1, <3>1
      <3> QED BY <3>1, <3>2 DEF CommandType
    <2>4. TextOffset = ss[Min(F)].offset BY DEF TextOffset
    <2>5. F \in SUBSET Nat
      <3> HIDE DEF ss
      <3>1. DOMAIN ss = 1 .. Len(ss) /\ Len(ss) \in Nat BY <2>3, LenProperties
      <3> QED BY <3>1
    <2>6. Min(F) \in F BY <2>3, <2>5, MinIs
    <2> QED BY <2>2, <2>4, <2>6
  <1> QED BY <1>2, <1>3

\* What is taken has the type of an offset.
LEMMA Taken ==
  ASSUME commands \in Seq(CommandType)
  PROVE  /\ Entries # {} =>
              commands[Max(Entries)].entryoff \in 0 .. U64 - 1
         /\ TextSegments # {} => TextOffset \in 0 .. U32 - 1
  <1>1. \A k \in DOMAIN commands : commands[k] \in CommandType BY LenProperties
  <1>2. ASSUME Entries # {}
        PROVE  commands[Max(Entries)].entryoff \in 0 .. U64 - 1
    <2>1. Max(Entries) \in DOMAIN commands BY <1>2, TakenFrom DEF Entries
    <2> QED BY <1>1, <2>1 DEF CommandType
  <1>3. ASSUME TextSegments # {}
        PROVE  TextOffset \in 0 .. U32 - 1
    <2>1. PICK k \in TextSegments :
                \E s \in DOMAIN commands[k].sections :
                  /\ commands[k].sections[s].text
                  /\ TextOffset = commands[k].sections[s].offset
      BY <1>3, TakenFrom
    <2> DEFINE ss == commands[k].sections
    <2>2. ss \in Seq([text : BOOLEAN, offset : 0 .. U32 - 1])
      BY <1>1, <2>1 DEF TextSegments, CommandType
    <2>3. PICK s \in DOMAIN ss : TextOffset = ss[s].offset BY <2>1
    <2> HIDE DEF ss
    <2>4. ss[s] \in [text : BOOLEAN, offset : 0 .. U32 - 1]
      BY <2>2, <2>3, LenProperties
    <2> QED BY <2>3, <2>4
  <1> QED BY <1>2, <1>3

-----------------------------------------------------------------------------
(* The arithmetic of the loader.                                           *)

\* Adding back what was subtracted, with wrap around.
LEMMA ModBack ==
  ASSUME NEW n \in Nat \ {0}, NEW e \in 0 .. n - 1, NEW b \in Int
  PROVE  (b + ((e - b) % n)) % n = e
  <1> DEFINE q == (e - b) \div n
             m == (e - b) % n
  <1>1. q \in Int /\ m \in 0 .. n - 1 /\ e - b = n * q + m
    <2>1. e - b \in Int OBVIOUS
    <2> QED BY <2>1, DivMod
  <1> HIDE DEF q, m
  <1>2. b + m = e + n * (-q)
    <2>1. n * (-q) = -(n * q) BY <1>1
    <2> QED BY <1>1, <2>1
  <1>3. (e + n * (-q)) % n = e
    <2>1. -q \in Int BY <1>1
    <2> QED BY <2>1, ModTurns
  <1> QED BY <1>2, <1>3 DEF m

\* A multiple of four stays one when it wraps around at a multiple of four.
LEMMA FourMod ==
  ASSUME NEW x \in Int, x % 4 = 0, NEW n \in Nat \ {0}, n % 4 = 0
  PROVE  (x % n) % 4 = 0
  <1> DEFINE q == x \div n
             m == x % n
             j == n \div 4
             k == x \div 4
  <1>1. q \in Int /\ m \in Int /\ x = n * q + m BY DivMod
  <1>2. j \in Int /\ k \in Int /\ n = 4 * j /\ x = 4 * k OBVIOUS
  <1> HIDE DEF q, m, j, k
  <1>3. j * q \in Int /\ n * q = 4 * (j * q) BY <1>1, <1>2
  <1>4. m = 4 * (k - j * q) BY <1>1, <1>2, <1>3
  <1>5. m % 4 = 0 BY <1>1, <1>2, <1>3, <1>4
  <1> QED BY <1>5 DEF m

\* What divides a divisor.
LEMMA FourDivides ==
  ASSUME NEW n \in Nat \ {0}, n % 4 = 0, NEW w \in Nat, w % n = 0
  PROVE  w % 4 = 0
  <1> DEFINE q == w \div n
             j == n \div 4
  <1>1. q \in Int /\ w = n * q BY DivMod
  <1>2. j \in Int /\ n = 4 * j OBVIOUS
  <1> HIDE DEF q, j
  <1>3. j * q \in Int /\ w = 4 * (j * q) BY <1>1, <1>2
  <1> QED BY <1>3

LEMMA Sizes ==
  /\ PAGE \in Nat \ {0} /\ PAGE % 4 = 0
  /\ U32 \in Nat \ {0} /\ U32 % 4 = 0
  /\ U64 \in Nat \ {0} /\ U64 % 4 = 0
  <1>1. PAGE \in Nat \ {0} /\ U32 \in Nat \ {0} /\ U64 \in Nat \ {0}
    BY WidthAssumption
  <1>2. U32 % 4 = 0 BY <1>1, WidthAssumption, FourDivides
  <1>3. U64 % 4 = 0 BY <1>1, <1>2, WidthAssumption, FourDivides
  <1> QED BY <1>1, <1>2, <1>3, WidthAssumption

\* The base is a whole number of instructions from the mapping.
LEMMA BaseType ==
  ASSUME NEW offset \in 0 .. U32 - 1
  PROVE  /\ Base(offset) \in 0 .. U32 - 1
         /\ offset % 2 = 0 => Base(offset) % 4 = 0
  <1> DEFINE o == offset % PAGE
             q == offset \div PAGE
             x == offset - (PAGE - o)
  <1>1. /\ o \in 0 .. PAGE - 1 /\ q \in Int /\ offset = PAGE * q + o
        /\ offset \in Int
    BY Sizes, DivMod
  <1>2. x \in Int BY <1>1, Sizes
  <1>3. Base(offset) = x % U32 BY DEF Base
  <1>4. ASSUME offset % 2 = 0 PROVE x % 4 = 0
    <2> DEFINE p == PAGE \div 4
    <2>1. p \in Int /\ PAGE = 4 * p BY Sizes
    <2> HIDE DEF p, o, q, x
    <2>2. p * q \in Int /\ PAGE * q = 4 * (p * q) BY <1>1, <2>1
    <2>3. o % 2 = 0
      <3>1. o = offset - 4 * (p * q) BY <1>1, <2>2
      <3> QED BY <1>1, <1>4, <2>2, <3>1
    <2>4. x = 4 * (p * q) - 4 * p + 2 * o BY <1>1, <2>1, <2>2 DEF x
    <2> QED BY <1>1, <2>1, <2>2, <2>3, <2>4
  <1> HIDE DEF o, q, x
  <1>5. x % U32 \in 0 .. U32 - 1 BY <1>2, Sizes, DivMod
  <1> QED BY <1>2, <1>3, <1>4, <1>5, Sizes, FourMod

\* The pc counts instructions from the base to the entry.
LEMMA FetchesEntry ==
  ASSUME NEW offset \in 0 .. U32 - 1, offset % 2 = 0,
         NEW e \in 0 .. U64 - 1, e % 4 = 0
  PROVE  (4 * (Base(offset) \div 4) + 4 * PcOff(e, Base(offset))) % U64 = e
  <1> DEFINE b == Base(offset)
             d == e - b
             m == d % U64
  <1>1. b \in Int /\ b % 4 = 0 BY Sizes, BaseType
  <1>2. U64 \in Nat \ {0} /\ U64 % 4 = 0 /\ e \in 0 .. U64 - 1 BY Sizes
  <1>3. (b + m) % U64 = e
    <2> HIDE DEF b
    <2> QED BY <1>1, <1>2, ModBack
  <1> HIDE DEF b
  <1>4. d \in Int /\ d % 4 = 0 BY <1>1, <1>2
  <1> HIDE DEF d
  <1>5. m \in Int /\ m % 4 = 0 BY <1>2, <1>4, FourMod
  <1>6. PcOff(e, Base(offset)) = m \div 4 BY DEF PcOff, b, d
  <1> HIDE DEF m
  <1>7. 4 * (b \div 4) = b /\ 4 * (m \div 4) = m BY <1>1, <1>5
  <1> QED BY <1>3, <1>6, <1>7 DEF b

\* The initial pc.
LEMMA PcOffType ==
  ASSUME NEW e \in Int, NEW b \in Int
  PROVE  PcOff(e, b) \in 0 .. U64 \div 4
  <1> DEFINE m == (e - b) % U64
  <1>1. e - b \in Int /\ U64 \in Nat \ {0} BY Sizes
  <1>2. m \in 0 .. U64 - 1 BY <1>1, DivMod
  <1>3. PcOff(e, b) = m \div 4 BY DEF PcOff
  <1> HIDE DEF m
  <1> QED BY <1>1, <1>2, <1>3

-----------------------------------------------------------------------------
(* The steps.                                                              *)

\* What the loop starts from depends on the commands kept alone.
LEMMA EntryKeep ==
  ASSUME UNCHANGED commands
  PROVE  /\ TextSegments' = TextSegments /\ TextOffset' = TextOffset
         /\ Entries' = Entries
  <1>1. TextSegments' = TextSegments BY DEF TextSegments
  <1>2. Entries' = Entries BY DEF Entries
  <1> QED BY <1>1, <1>2 DEF TextOffset

\* The sizes and kinds of the command that is read next.
LEMMA CommandIs ==
  ASSUME EntryInv, NEW p
  PROVE  /\ CommandAt(p) \in CommandType
         /\ Len(CommandAt(p).sections) > MEMORY =>
              \E q \in DOMAIN file.cmds : Len(file.cmds[q].sections) > MEMORY
  <1>1. CASE p \in DOMAIN file.cmds
    BY <1>1, FilesAssumption DEF EntryInv, CommandAt
  <1>2. CASE p \notin DOMAIN file.cmds
    <2>1. CommandAt(p) = Zeros BY <1>2 DEF CommandAt
    <2>2. MEMORY \in Nat /\ U32 \in Nat \ {0} /\ U64 \in Nat \ {0}
      BY WidthAssumption
    <2>3. <<>> \in Seq([text : BOOLEAN, offset : 0 .. U32 - 1]) BY EmptySeq
    <2> QED BY <2>1, <2>2, <2>3 DEF Zeros, CommandType
  <1> QED BY <1>1, <1>2

LEMMA ProcessInit == Init => ProcessInv
  <1> SUFFICES ASSUME Init PROVE ProcessInv OBVIOUS
  <1> USE DEF Init, LoaderInit, LoggerInit
  <1>1. TypeOK
    <2>1. file.ncmds \in Nat /\ U32 \in Nat \ {0} /\ U64 \in Nat \ {0}
          /\ QUEUE \in Nat /\ Len(queue) = 0
      BY FilesAssumption, WidthAssumption, QueueAssumption, EmptySeq
    <2> QED BY <2>1 DEF TypeOK, HEADER, Statements
  <1>2. queue \in Seq(Records) /\ commands \in Seq(CommandType) BY EmptySeq
  <1>3. HoldInv BY DEF HoldInv, Early, Loaded, Late, Running
  <1>4. NamesInv BY NamesAssumption DEF NamesInv
  <1>5. EntryInv BY <1>2 DEF EntryInv, Running
  <1>6. TerminatedByNames BY DEF TerminatedByNames
  <1> QED BY <1>1, <1>2, <1>3, <1>4, <1>5, <1>6 DEF ProcessInv

\* The queue holds records, and no more than it can.
LEMMA LogTypes ==
  ASSUME ProcessInv, Next
  PROVE  queue' \in Seq(Records) /\ Len(queue') <= QUEUE
  <1>1. queue \in Seq(Records) /\ Len(queue) <= QUEUE BY DEF ProcessInv, TypeOK
  <1>2. CASE UNCHANGED queue BY <1>1, <1>2
  <1>3. ASSUME NEW record \in Records, Enqueue(record)
        PROVE  queue' \in Seq(Records) /\ Len(queue') <= QUEUE
    <2>1. /\ queue' = Append(queue, record) /\ Len(queue) < QUEUE
          /\ Len(queue) \in Nat
      BY <1>1, <1>3, LenProperties DEF Enqueue
    <2>2. queue' \in Seq(Records) /\ Len(queue') = Len(queue) + 1
      BY <1>1, <2>1, AppendProperties
    <2>3. Len(queue) \in Nat /\ Len(queue) < QUEUE BY <2>1
    <2> QED BY <2>2, <2>3, QueueAssumption
  <1>4. CASE Printer
    <2>1. queue # <<>> /\ queue' = Tail(queue) BY <1>4 DEF Printer, PrintNext
    <2>2. queue' \in Seq(Records) /\ Len(queue') = Len(queue) - 1
      BY <1>1, <2>1, HeadTailProperties
    <2>3. Len(queue) \in Nat BY <1>1, LenProperties
    <2> QED BY <1>1, <2>2, <2>3, QueueAssumption
  <1>5. \/ UNCHANGED queue \/ Enqueue("debug") \/ Enqueue("error")
        \/ Enqueue("caught") \/ Printer
    BY DEF Next, Thread, Main, MakeState, LoadFile, UpdatePc, FirstHandle, Handle,
           AdvancePc, LoopEnds, Refuse, LoggerLost, LeaveSession, Catch, Report,
           ShutDown, Ended, LogDebug, Register, logVars, vars
  <1>6. "debug" \in Records /\ "error" \in Records /\ "caught" \in Records
    BY DEF Records
  <1> QED BY <1>2, <1>3, <1>4, <1>5, <1>6

\* The loader's steps keep its own variables in their types.
LEMMA LoaderTypes ==
  ASSUME ProcessInv, Next
  PROVE  /\ file' \in Files /\ commands' \in Seq(CommandType)
         /\ read' \in 0 .. file'.ncmds /\ cursor' \in Nat
         /\ base' \in 0 .. U32 - 1 /\ pcOff' \in 0 .. U64 \div 4
         /\ UNCHANGED file
  <1>1. /\ file \in Files /\ commands \in Seq(CommandType)
        /\ read \in 0 .. file.ncmds /\ cursor \in Nat /\ file.ncmds \in Nat
        /\ base \in 0 .. U32 - 1 /\ pcOff \in 0 .. U64 \div 4
    BY FilesAssumption DEF ProcessInv, TypeOK, EntryInv
  <1>2. CASE UNCHANGED <<file, read, cursor, commands, base, pcOff>>
    BY <1>1, <1>2
  <1>3. CASE ReadCommand
    <2> DEFINE c == CommandAt(cursor)
    <2>1. c \in CommandType BY CommandIs DEF ProcessInv
    <2>2. c.cmdsize \in Nat /\ U32 \in Nat \ {0}
      BY <2>1, WidthAssumption DEF CommandType
    <2> HIDE DEF c
    <2>3. Append(commands, c) \in Seq(CommandType)
      BY <1>1, <2>1, AppendProperties
    <2>4. CASE UNCHANGED loaderVars BY <1>1, <1>3, <2>4 DEF ReadCommand, loaderVars
    <2>5. CASE ~UNCHANGED loaderVars
      <3>1. /\ read < file.ncmds /\ read' = read + 1 /\ cursor' = cursor + c.cmdsize
            /\ commands' = commands \/ commands' = Append(commands, c)
            /\ UNCHANGED <<file, base, pcOff>>
        BY <1>3, <2>5 DEF ReadCommand, Die, AddKept, c
      <3>2. read' \in 0 .. file.ncmds BY <1>1, <3>1
      <3>3. cursor' \in Nat BY <1>1, <2>2, <3>1
      <3>4. commands' \in Seq(CommandType) BY <1>1, <2>3, <3>1
      <3>5. UNCHANGED <<file, base, pcOff>> BY <3>1
      <3> QED BY <1>1, <3>2, <3>3, <3>4, <3>5
    <2> QED BY <2>4, <2>5
  <1>4. CASE LoadInstructions
    <2>1. /\ UNCHANGED <<file, read, cursor, commands>>
          /\ base' = base \/ (TextSegments # {} /\ base' = Base(TextOffset))
      BY <1>4 DEF LoadInstructions
    <2>2. base' \in 0 .. U32 - 1 BY <1>1, <2>1, Taken, BaseType
    <2>3. \/ pcOff' = pcOff
          \/ Entries # {} /\ pcOff' = PcOff(commands[Max(Entries)].entryoff, base')
      BY <1>4 DEF LoadInstructions
    <2>4. pcOff' \in 0 .. U64 \div 4
      <3>1. CASE pcOff' = pcOff BY <1>1, <3>1
      <3>2. CASE pcOff' # pcOff
        <4>1. commands[Max(Entries)].entryoff \in Int /\ base' \in Int
          BY <1>1, <2>2, <2>3, <3>2, Taken, Sizes
        <4> QED BY <2>3, <3>2, <4>1, PcOffType
      <3> QED BY <3>1, <3>2
    <2> QED BY <1>1, <2>1, <2>2, <2>4
  <1>5. \/ UNCHANGED <<file, read, cursor, commands, base, pcOff>>
        \/ ReadCommand \/ LoadInstructions
    BY DEF Next, Thread, Main, MakeState, LoadFile, Load, OpenFile, MapFile,
           CommandsRead, UpdatePc, FirstHandle, Handle, AdvancePc, LoopEnds, Refuse,
           LoggerLost, LeaveSession, Release, Catch, Report, ShutDown, Printer,
           Ended, Die, loaderVars, vars
  <1> QED BY <1>2, <1>3, <1>4, <1>5

\* The program is entered from load_instructions only.
LEMMA LoopEntered ==
  ASSUME ProcessInv, Next, at' \in Running
  PROVE  /\ TextSegments' # {} /\ Entries' # {}
         /\ base' = Base(TextOffset')
         /\ pcOff' = PcOff(commands'[Max(Entries')].entryoff, base')
  <1>1. CASE at \in Running /\ UNCHANGED <<commands, base, pcOff>>
    <2>1. /\ TextSegments # {} /\ Entries # {} /\ base = Base(TextOffset)
          /\ pcOff = PcOff(commands[Max(Entries)].entryoff, base)
      BY <1>1 DEF ProcessInv, EntryInv
    <2> QED BY <1>1, <2>1, EntryKeep
  <1>2. CASE LoadInstructions
    <2>1. /\ TextSegments # {} /\ Entries # {} /\ base' = Base(TextOffset)
          /\ pcOff' = PcOff(commands[Max(Entries)].entryoff, base')
          /\ UNCHANGED commands
      BY <1>2 DEF LoadInstructions, ThrowRuntimeError, Running
    <2> QED BY <2>1, EntryKeep
  <1>3. \/ at \in Running /\ UNCHANGED <<commands, base, pcOff>>
        \/ LoadInstructions
    <2> USE DEF Running, Dead, loaderVars
    <2>1. ReadCommand => at' \notin Running
      BY DEF ReadCommand, Die, Fault
    <2>2. LoadFile => LoadInstructions
      BY <2>1 DEF LoadFile, Load, OpenFile, MapFile, CommandsRead, Die,
                  ThrowRuntimeError
    <2>3. ~(Main \/ MakeState \/ LeaveSession \/ Catch \/ Report \/ ShutDown)
      BY DEF Main, MakeState, LeaveSession, Release, Catch, Report, ShutDown
    <2>4. ASSUME \/ UpdatePc \/ FirstHandle \/ Handle \/ AdvancePc \/ LoopEnds
                 \/ Refuse \/ LoggerLost \/ Printer \/ Ended
          PROVE  at \in Running /\ UNCHANGED <<commands, base, pcOff>>
      BY <2>4 DEF UpdatePc, FirstHandle, Handle, AdvancePc, LoopEnds, Refuse,
                  LoggerLost, Printer, Ended, ThrowRuntimeError, vars
    <2> QED BY <2>2, <2>3, <2>4 DEF Next, Thread
  <1> QED BY <1>1, <1>2, <1>3

\* What is held goes with the statement reached.
LEMMA HoldStep ==
  ASSUME ProcessInv, Next
  PROVE  HoldInv'
  <1> USE DEF ProcessInv, HoldInv, Early, Loaded, Late, Running, Dead, loaderVars,
              procVars
  <1>1. CASE Main BY <1>1 DEF Main
  <1>2. CASE MakeState BY <1>2 DEF MakeState
  <1>3. CASE LoadFile
    <2>1. CASE OpenFile
      <3>1. file.opens \in BOOLEAN /\ file.stats \in BOOLEAN
        BY FilesAssumption DEF EntryInv
      <3> QED BY <2>1, <3>1 DEF OpenFile, ThrowRuntimeError
    <2>2. CASE MapFile BY <2>2 DEF MapFile, Die
    <2>3. CASE ReadCommand BY <2>3 DEF ReadCommand, Die, Fault
    <2>4. CASE CommandsRead BY <2>4 DEF CommandsRead
    <2>5. CASE LoadInstructions BY <2>5 DEF LoadInstructions, ThrowRuntimeError
    <2> QED BY <1>3, <2>1, <2>2, <2>3, <2>4, <2>5 DEF LoadFile, Load
  <1>4. CASE FirstHandle BY <1>4 DEF FirstHandle
  <1>5. CASE UpdatePc \/ Handle \/ AdvancePc \/ Refuse \/ LoggerLost
    BY <1>5 DEF UpdatePc, Handle, AdvancePc, Refuse, LoggerLost
  <1>6. CASE LoopEnds BY <1>6 DEF LoopEnds, ThrowRuntimeError
  <1>7. CASE LeaveSession BY <1>7 DEF LeaveSession, Release
  <1>8. CASE Catch BY <1>8 DEF Catch
  <1>9. CASE Report BY <1>9 DEF Report
  <1>10. CASE ShutDown BY <1>10 DEF ShutDown
  <1>11. CASE Printer BY <1>11 DEF Printer
  <1>12. CASE Ended BY <1>12 DEF Ended, vars
  <1> QED
    BY <1>1, <1>2, <1>3, <1>4, <1>5, <1>6, <1>7, <1>8, <1>9, <1>10, <1>11, <1>12
       DEF Next, Thread

\* A name is registered by the statement that makes its logger.
LEMMA NamesStep ==
  ASSUME ProcessInv, Next
  PROVE  NamesInv'
  <1> USE DEF ProcessInv, NamesInv, Dead, logVars, procVars
  <1>1. CASE Main BY <1>1 DEF Main
  <1>2. CASE MakeState
    BY <1>2, NamesAssumption DEF MakeState, Register, Clash
  <1>3. CASE LoadFile
    BY <1>3 DEF LoadFile, Load, OpenFile, MapFile, ReadCommand, CommandsRead,
                LoadInstructions, ThrowRuntimeError, Die, Fault
  <1>4. CASE FirstHandle BY <1>4 DEF FirstHandle, Register
  <1>5. CASE UpdatePc \/ Handle \/ AdvancePc \/ Refuse \/ LoggerLost
    BY <1>5 DEF UpdatePc, Handle, AdvancePc, Refuse, LoggerLost, LogDebug, Enqueue
  <1>6. CASE LoopEnds BY <1>6 DEF LoopEnds, ThrowRuntimeError
  <1>7. CASE LeaveSession BY <1>7 DEF LeaveSession, Release
  <1>8. CASE Catch BY <1>8 DEF Catch, Register
  <1>9. CASE Report BY <1>9 DEF Report, Enqueue
  <1>10. CASE ShutDown BY <1>10 DEF ShutDown
  <1>11. CASE Printer BY <1>11 DEF Printer, PrintNext
  <1>12. CASE Ended BY <1>12 DEF Ended, vars
  <1> QED
    BY <1>1, <1>2, <1>3, <1>4, <1>5, <1>6, <1>7, <1>8, <1>9, <1>10, <1>11, <1>12
       DEF Next, Thread

\* std::terminate is called for a name or for want of memory.
LEMMA TerminateStep ==
  ASSUME ProcessInv, Next
  PROVE  TerminatedByNames'
  <1> SUFFICES ASSUME at' = "terminated" PROVE TerminatedByNames'
    BY DEF TerminatedByNames
  <1>1. CASE at = "terminated"
    <2>1. UNCHANGED vars
      BY <1>1 DEF Next, Thread, Main, MakeState, LoadFile, Load, OpenFile, MapFile,
                  ReadCommand, CommandsRead, LoadInstructions, UpdatePc, FirstHandle,
                  Handle, AdvancePc, LoopEnds, Refuse, LoggerLost, LeaveSession,
                  Release, Catch, Report, ShutDown, Printer, Ended, Dead
    <2> QED BY <1>1, <2>1
            DEF ProcessInv, TerminatedByNames, vars, procVars, loaderVars
  <1> USE DEF TerminatedByNames, procVars, loaderVars
  <1>2. CASE MakeState
    BY <1>2 DEF MakeState, Clash, ProcessInv, NamesInv
  <1>3. CASE MapFile /\ UNCHANGED procVars BY <1>3 DEF MapFile, Die
  <1>4. CASE ReadCommand /\ UNCHANGED procVars
    <2>1. UNCHANGED file /\ Len(CommandAt(cursor).sections) > MEMORY
      BY <1>4 DEF ReadCommand, Die, Fault
    <2> QED BY <2>1, CommandIs DEF ProcessInv
  <1>5. CASE FirstHandle
    BY <1>5 DEF FirstHandle, Clash, ProcessInv, NamesInv, HoldInv, Loaded, Running
  <1>6. CASE Catch
    BY <1>6 DEF Catch, Clash, ProcessInv, NamesInv, HoldInv
  <1>7. \/ at = "terminated" \/ MakeState \/ FirstHandle \/ Catch
        \/ MapFile /\ UNCHANGED procVars
        \/ ReadCommand /\ UNCHANGED procVars
    <2>1. LoadFile => \/ MapFile /\ UNCHANGED procVars
                      \/ ReadCommand /\ UNCHANGED procVars
      BY DEF LoadFile, Load, OpenFile, CommandsRead, LoadInstructions,
             ThrowRuntimeError
    <2>2. ~(Main \/ LoopEnds \/ LeaveSession \/ Report \/ ShutDown)
      BY DEF Main, LoopEnds, ThrowRuntimeError, LeaveSession, Release, Report, ShutDown
    <2>3. ~(UpdatePc \/ Handle \/ AdvancePc \/ Refuse \/ LoggerLost)
      BY DEF UpdatePc, Handle, AdvancePc, Refuse, LoggerLost
    <2>4. Printer \/ Ended => at = "terminated" BY DEF Printer, Ended, vars
    <2> QED BY <2>1, <2>2, <2>3, <2>4 DEF Next, Thread
  <1> QED BY <1>1, <1>2, <1>3, <1>4, <1>5, <1>6, <1>7

\* Every step keeps ProcessInv.
LEMMA ProcessStep == ProcessInv /\ [Next]_vars => ProcessInv'
  <1>1. ASSUME ProcessInv, UNCHANGED vars PROVE ProcessInv'
    <2> USE <1>1 DEF ProcessInv, vars, loaderVars, logVars, procVars
    <2>1. TypeOK' /\ queue' \in Seq(Records) BY DEF TypeOK
    <2>2. HoldInv' /\ NamesInv' /\ TerminatedByNames'
      BY DEF HoldInv, NamesInv, TerminatedByNames
    <2>3. EntryInv' BY EntryKeep DEF EntryInv
    <2> QED BY <2>1, <2>2, <2>3
  <1>2. ASSUME ProcessInv, Next PROVE ProcessInv'
    <2>1. HoldInv' /\ NamesInv' /\ TerminatedByNames'
      BY <1>2, HoldStep, NamesStep, TerminateStep
    <2>2. queue' \in Seq(Records) /\ Len(queue') <= QUEUE BY <1>2, LogTypes
    <2>3. /\ file' \in Files /\ commands' \in Seq(CommandType)
          /\ read' \in 0 .. file'.ncmds /\ cursor' \in Nat
          /\ base' \in 0 .. U32 - 1 /\ pcOff' \in 0 .. U64 \div 4
      BY <1>2, LoaderTypes
    <2>4. EntryInv'
      <3>1. at' \in Running =>
              /\ TextSegments' # {} /\ Entries' # {}
              /\ base' = Base(TextOffset')
              /\ pcOff' = PcOff(commands'[Max(Entries')].entryoff, base')
        BY <1>2, LoopEntered
      <3> QED BY <2>3, <3>1 DEF EntryInv, Base, PcOff
    <2>5. TypeOK'
      <3>1. /\ at' \in Statements \cup Dead
            /\ fd' \in {"none", "open", "closed"}
            /\ mapping' \in {"none", "mapped", "unmapped"}
        <4> USE DEF Statements, Running, Dead
        <4>1. ReadCommand => /\ at' \in {"commands", "crashed", "terminated", "aborted"}
                             /\ UNCHANGED <<fd, mapping>>
          BY DEF ReadCommand, Die, Fault, loaderVars
        <4> QED
          BY <1>2, <4>1
             DEF ProcessInv, TypeOK, Next, Thread, Main, MakeState, LoadFile, Load,
                 OpenFile, MapFile, CommandsRead, LoadInstructions, UpdatePc,
                 FirstHandle, Handle, AdvancePc, LoopEnds, Refuse, LoggerLost,
                 LeaveSession, Release, Catch, Report, ShutDown, Printer, Ended,
                 Die, ThrowRuntimeError, loaderVars, vars
      <3> QED BY <2>2, <2>3, <3>1 DEF TypeOK, Dead
    <2> QED BY <2>1, <2>2, <2>4, <2>5 DEF ProcessInv
  <1> QED BY <1>1, <1>2

THEOREM ProcessInvariant == Spec => []ProcessInv
  <1> QED BY ProcessInit, ProcessStep, PTL DEF Spec

(* Process.TypeOK, for every file: the offsets of the loader stay within   *)
(* their widths, whatever the load commands say.                           *)
THEOREM ProcessTypeCorrect == Spec => []TypeOK
  <1>1. ProcessInv => TypeOK BY DEF ProcessInv
  <1> QED BY <1>1, ProcessInvariant, PTL

(* Process.EntryIsFetched: an even text offset is enough for the first     *)
(* instruction to be the one at LC_MAIN, also where the base wraps below   *)
(* the file (mach_object.cpp:73-75, 89).                                   *)
THEOREM EntryFetched == Spec => []EntryIsFetched
  <1>1. ProcessInv => EntryIsFetched
    <2> SUFFICES ASSUME ProcessInv, at = "loop",
                        commands[Max(Entries)].entryoff % 4 = 0,
                        TextOffset % 2 = 0
                 PROVE  FetchedAt = commands[Max(Entries)].entryoff
      BY DEF EntryIsFetched
    <2>1. /\ TextSegments # {} /\ Entries # {} /\ commands \in Seq(CommandType)
          /\ base = Base(TextOffset)
          /\ pcOff = PcOff(commands[Max(Entries)].entryoff, base)
      BY DEF ProcessInv, EntryInv, Running
    <2>2. /\ commands[Max(Entries)].entryoff \in 0 .. U64 - 1
          /\ TextOffset \in 0 .. U32 - 1
      BY <2>1, Taken
    <2> QED BY <2>1, <2>2, FetchesEntry DEF FetchedAt
  <1> QED BY <1>1, ProcessInvariant, PTL

(* Process.ReleasedAtExit: a process that exits holds neither the mapping  *)
(* nor the descriptor, but for the fstat that fails.                       *)
THEOREM ReleasedWhenExited == Spec => []ReleasedAtExit
  <1>1. ProcessInv => ReleasedAtExit
    BY DEF ProcessInv, HoldInv, Late, ReleasedAtExit
  <1> QED BY <1>1, ProcessInvariant, PTL

(* Process.TerminatedByNames: std::terminate has no other cause than a     *)
(* clash of logger names or an allocation that fails.                      *)
THEOREM TerminatesByNamesOnly == Spec => []TerminatedByNames
  <1>1. ProcessInv => TerminatedByNames BY DEF ProcessInv
  <1> QED BY <1>1, ProcessInvariant, PTL

-----------------------------------------------------------------------------
(* Failures.                                                               *)

\* The record handed to the logger last.
LastRecordIs(record) ==
  IF queue # <<>> THEN queue[Len(queue)] = record
                  ELSE printed = record

\* What an exception goes through until its record is the last one printed.
ReportInv ==
  /\ at = "exited" => queue = <<>>
  /\ thrown # "none" /\ path # "cheeky::main" =>
       /\ at \in {"release"} \cup Late
       /\ at \in {"shutdown", "exited"} => LastRecordIs("caught")

LEMMA ReportInit == Init => ReportInv
  BY DEF Init, LoaderInit, LoggerInit, ReportInv

\* Printing a record leaves the last one the last.
LEMMA PrintKeepsLast ==
  ASSUME queue \in Seq(Records), PrintNext, LastRecordIs("caught")
  PROVE  LastRecordIs("caught")'
  <1>1. /\ queue # <<>> /\ printed' = Head(queue) /\ queue' = Tail(queue)
        /\ queue[Len(queue)] = "caught"
    BY DEF PrintNext, LastRecordIs
  <1>2. /\ Tail(queue) \in Seq(Records) /\ Len(Tail(queue)) = Len(queue) - 1
        /\ \A i \in 1 .. Len(Tail(queue)) : Tail(queue)[i] = queue[i + 1]
        /\ Head(queue) = queue[1] /\ Len(queue) \in Nat
    BY <1>1, HeadTailProperties, LenProperties
  <1>3. CASE Tail(queue) = <<>>
    <2>1. Len(queue) = 1
      <3>1. Len(queue) - 1 = 0 BY <1>2, <1>3, EmptySeq
      <3>2. Len(queue) \in Nat BY <1>2
      <3> QED BY <3>1, <3>2
    <2> QED BY <1>1, <1>2, <1>3, <2>1 DEF LastRecordIs
  <1>4. CASE Tail(queue) # <<>>
    <2>1. Len(Tail(queue)) \in Nat /\ Len(Tail(queue)) # 0
      BY <1>2, <1>4, LenProperties, EmptySeq
    <2>2. Tail(queue)[Len(Tail(queue))] = queue[Len(queue)] BY <1>2, <2>1
    <2> QED BY <1>1, <1>4, <2>2 DEF LastRecordIs
  <1> QED BY <1>3, <1>4

\* Every step keeps ReportInv.
LEMMA ReportStep ==
  ASSUME ProcessInv, ReportInv, Next
  PROVE  ReportInv'
  <1>1. queue \in Seq(Records) /\ (at = "exited" => queue = <<>>)
    BY DEF ProcessInv, ReportInv
  <1>2. ASSUME LoadFile \/ LoopEnds
        PROVE  /\ at \in {"open", "map", "commands", "instructions", "loop"}
               /\ at' \notin {"shutdown", "exited"}
               /\ UNCHANGED <<queue, printed, path>>
               /\ thrown' = thrown \/ at' \in {"release", "catch"}
    <2>1. CASE LoadFile
      BY <2>1 DEF LoadFile, Load, OpenFile, MapFile, ReadCommand, Fault, CommandsRead,
                  LoadInstructions, ThrowRuntimeError, Die, logVars, procVars,
                  loaderVars
    <2>2. CASE LoopEnds BY <2>2 DEF LoopEnds, ThrowRuntimeError, logVars, procVars
    <2> QED BY <1>2, <2>1, <2>2
  <1> USE DEF ReportInv, LastRecordIs, Late, logVars, procVars, loaderVars
  <1>3. CASE Main BY <1>1, <1>3 DEF Main
  <1>4. CASE MakeState BY <1>1, <1>4 DEF MakeState, Register
  <1>5. CASE LoadFile \/ LoopEnds BY <1>1, <1>2, <1>5
  <1>6. CASE FirstHandle BY <1>1, <1>6 DEF FirstHandle, Register
  <1>7. CASE UpdatePc \/ Handle \/ AdvancePc \/ Refuse \/ LoggerLost
    <2>1. /\ at \in {"update", "branch", "loop", "advance", "refuse"}
          /\ at' \notin {"shutdown", "exited"}
          /\ UNCHANGED <<thrown, path>>
      BY <1>7 DEF UpdatePc, Handle, AdvancePc, Refuse, LoggerLost
    <2> QED BY <1>1, <2>1
  <1>8. CASE LeaveSession BY <1>1, <1>8 DEF LeaveSession, Release
  <1>9. CASE Catch
    <2>1. "cheeky::main" \in names => path = "cheeky::main"
      BY <1>9 DEF Catch, ProcessInv, NamesInv
    <2> QED BY <1>1, <1>9, <2>1 DEF Catch, Register, Clash
  <1>10. CASE Report
    <2>1. queue' = Append(queue, "caught") /\ printed' = printed /\ at' = "shutdown"
      BY <1>10 DEF Report, Enqueue
    <2>2. "caught" \in Records BY DEF Records
    <2>3. queue' # <<>> /\ queue'[Len(queue')] = "caught"
      BY <1>1, <2>1, <2>2, AppendProperties
    <2> QED BY <1>1, <2>1, <2>3
  <1>11. CASE ShutDown BY <1>1, <1>11 DEF ShutDown, Drained
  <1>12. CASE Printer
    <2>1. /\ PrintNext /\ at # "exited"
          /\ UNCHANGED <<at, thrown, path>>
      BY <1>12 DEF Printer
    <2> HIDE DEF LastRecordIs
    <2>2. LastRecordIs("caught") => LastRecordIs("caught")'
      BY <1>1, <2>1, PrintKeepsLast
    <2> QED BY <2>1, <2>2
  <1>13. CASE Ended BY <1>1, <1>13 DEF Ended, vars
  <1> QED
    BY <1>3, <1>4, <1>5, <1>6, <1>7, <1>8, <1>9, <1>10, <1>11, <1>12, <1>13
       DEF Next, Thread

(* Process.FailureReported: no exception that the program or its file      *)
(* causes is lost: it does not kill the process, and its record is the     *)
(* last one printed when the process exits (main.cpp:18-25).               *)
THEOREM FailuresAreReported == Spec => []FailureReported
  <1>1. ReportInv /\ ProcessInv /\ [Next]_vars => ReportInv'
    <2> SUFFICES ASSUME ReportInv, ProcessInv, UNCHANGED vars PROVE ReportInv'
      BY ReportStep
    <2> QED BY DEF ReportInv, LastRecordIs, vars, logVars, procVars
  <1>2. ReportInv => FailureReported
    BY DEF ReportInv, FailureReported, LastRecordIs, Late, Dead
  <1> QED BY <1>1, <1>2, ReportInit, ProcessInvariant, PTL DEF Spec

-----------------------------------------------------------------------------
(* Well-formed files.                                                      *)

Positions == DOMAIN file.cmds
Before(c) == {p \in Positions : p < c}
Kept == Keeps(file, Positions)

\* The loop of load is in step with the commands of the file.
WholeInv ==
  /\ read = Cardinality(Before(cursor))
  /\ cursor \in Positions \/ Before(cursor) = Positions
  /\ Len(commands) = Cardinality(Keeps(file, Before(cursor)))
  /\ \A k \in DOMAIN commands : \E p \in Kept :
       /\ commands[k] = file.cmds[p]
       /\ k = Cardinality({q \in Kept : q <= p})
  /\ \A p \in Keeps(file, Before(cursor)) :
       \E k \in DOMAIN commands : commands[k] = file.cmds[p]
  /\ at \in {"instructions"} \cup Running => Before(cursor) = Positions

\* What a clash of names or a bad file would break.
OrdinaryFile ==
  /\ WellFormed(file) /\ args = 2
  /\ path \notin StaticNames \cup {"DecisionTree", "cheeky::main"}

GoodInv ==
  OrdinaryFile =>
    /\ WholeInv
    /\ at \in Dead => treeLogger
    /\ thrown \in {"none", "stack overflow"}

\* What a run is started with does not change.
LEMMA Unchanged ==
  ASSUME Next
  PROVE  UNCHANGED <<file, args, path>>
  BY DEF Next, Thread, Main, MakeState, LoadFile, Load, OpenFile, MapFile,
         ReadCommand, CommandsRead, LoadInstructions, UpdatePc, FirstHandle, Handle,
         AdvancePc, LoopEnds, Refuse, LoggerLost, LeaveSession, Release, Catch,
         Report, ShutDown, Printer, Ended, procVars, vars

\* The number of sections of a command.
LEMMA SectionsCount ==
  ASSUME NEW c \in CommandType
  PROVE  Len(c.sections) \in Nat
  <1> DEFINE ss == c.sections
  <1>1. ss \in Seq([text : BOOLEAN, offset : 0 .. U32 - 1]) BY DEF CommandType
  <1> HIDE DEF ss
  <1> QED BY <1>1, LenProperties DEF ss

\* The parts of WellFormed that concern a command and its successors.
LEMMA CommandFacts ==
  ASSUME EntryInv, WellFormed(file)
  PROVE  /\ Positions \subseteq Nat /\ IsFiniteSet(Positions)
         /\ file.len \in Nat /\ file.ncmds = Cardinality(Positions)
         /\ HEADER \in Positions
         /\ \A p \in Positions :
              /\ HEADER <= p /\ p + file.cmds[p].cmdsize <= file.len
              /\ file.cmds[p] \in CommandType
              /\ file.cmds[p].cmdsize \in Nat \ {0}
              /\ file.cmds[p].cmdsize >= Extent(file.cmds[p])
              /\ file.cmds[p].cmd = "segment" =>
                   /\ ~(Len(file.cmds[p].sections) > MEMORY)
                   /\ file.cmds[p].cmdsize = SectionsEnd(file.cmds[p])
              /\ \A q \in Positions :
                   q > p => q >= p + file.cmds[p].cmdsize
                            /\ p + file.cmds[p].cmdsize \in Positions
  <1>1. /\ file.len \in Nat /\ Positions \subseteq Nat
        /\ \A p \in Positions : file.cmds[p] \in CommandType
    BY FilesAssumption DEF EntryInv, Positions
  <1>2. \A p \in Positions : file.cmds[p].cmdsize \in Nat
    <2> SUFFICES ASSUME NEW p \in Positions PROVE file.cmds[p].cmdsize \in Nat
      OBVIOUS
    <2>1. file.cmds[p] \in CommandType /\ U32 \in Nat \ {0} BY <1>1, Sizes
    <2> QED BY <2>1 DEF CommandType
  <1>3. /\ file.ncmds = Cardinality(Positions) /\ HEADER \in Positions
        /\ \A p \in Positions :
             /\ HEADER <= p /\ p + file.cmds[p].cmdsize <= file.len
             /\ file.cmds[p].cmdsize >= Extent(file.cmds[p])
             /\ file.cmds[p].cmd = "segment" =>
                  /\ Len(file.cmds[p].sections) <= MEMORY
                  /\ file.cmds[p].cmdsize = SectionsEnd(file.cmds[p])
             /\ \A q \in Positions :
                  q > p => q >= p + file.cmds[p].cmdsize
                           /\ p + file.cmds[p].cmdsize \in Positions
    BY DEF WellFormed, Positions
  <1>4. \A p \in Positions :
          /\ file.cmds[p].cmdsize \in Nat \ {0}
          /\ file.cmds[p].cmd = "segment" => ~(Len(file.cmds[p].sections) > MEMORY)
    <2> SUFFICES ASSUME NEW p \in Positions
                 PROVE  /\ file.cmds[p].cmdsize \in Nat \ {0}
                        /\ file.cmds[p].cmd = "segment" =>
                             ~(Len(file.cmds[p].sections) > MEMORY)
      OBVIOUS
    <2>1. file.cmds[p].cmdsize >= Extent(file.cmds[p]) /\ file.cmds[p].cmdsize \in Nat
      BY <1>2, <1>3
    <2>2. Extent(file.cmds[p]) \in Nat \ {0} BY DEF Extent, SEGMENT, ENTRY, KIND
    <2>3. Len(file.cmds[p].sections) \in Nat BY <1>1, SectionsCount
    <2>4. file.cmds[p].cmd = "segment" => Len(file.cmds[p].sections) <= MEMORY
      BY <1>3
    <2> QED BY <2>1, <2>2, <2>3, <2>4, WidthAssumption
  <1>5. Positions \subseteq 0 .. file.len
    <2> SUFFICES ASSUME NEW p \in Positions PROVE p \in 0 .. file.len OBVIOUS
    <2>1. /\ p \in Nat /\ file.len \in Nat /\ file.cmds[p].cmdsize \in Nat
          /\ p + file.cmds[p].cmdsize <= file.len
      BY <1>1, <1>2, <1>3
    <2> QED BY <2>1
  <1>6. IsFiniteSet(Positions)
    <2>1. IsFiniteSet(0 .. file.len) BY <1>1, FS_Interval
    <2> QED BY <1>5, <2>1, FS_Subset
  <1> QED BY <1>1, <1>3, <1>4, <1>6

\* What lies before the end of the file is mapped.
LEMMA InFile ==
  ASSUME NEW p \in Nat, file.len \in Nat, p < file.len
  PROVE  Mapped(p)
  <1> DEFINE n == file.len + PAGE - 1
             q == n \div PAGE
             m == n % PAGE
  <1>1. n \in Int /\ PAGE \in Nat \ {0} BY Sizes
  <1> HIDE DEF n
  <1>2. q \in Int /\ m \in 0 .. PAGE - 1 /\ n = PAGE * q + m BY <1>1, DivMod
  <1> HIDE DEF q, m
  <1>3. q * PAGE = PAGE * q /\ PAGE * q \in Int BY <1>1, <1>2
  <1>4. q * PAGE = n - m BY <1>2, <1>3
  <1>5. file.len <= q * PAGE BY <1>1, <1>2, <1>4 DEF n
  <1> QED BY <1>1, <1>2, <1>3, <1>5 DEF Mapped, n, q

\* Each command of a well-formed file is read without a fault.
LEMMA NoFault ==
  ASSUME EntryInv, WellFormed(file), NEW p \in Positions
  PROVE  Fault(file.cmds[p], p) = "none"
  <1> DEFINE d == file.cmds[p]
             s == d.cmdsize
  <1>1. /\ p \in Nat /\ file.len \in Nat /\ p + s <= file.len
        /\ s \in Nat \ {0} /\ s >= Extent(d)
        /\ d.cmd = "segment" => ~(Len(d.sections) > MEMORY) /\ s = SectionsEnd(d)
    BY CommandFacts
  <1>2. Extent(d) \in Nat \ {0} BY DEF Extent, SEGMENT, ENTRY, KIND
  <1>3. \A n \in Nat \ {0} : n <= s => Mapped(p + n - 1)
    <2> HIDE DEF s
    <2> SUFFICES ASSUME NEW n \in Nat \ {0}, n <= s PROVE Mapped(p + n - 1) OBVIOUS
    <2>1. p + n - 1 \in Nat /\ p + n - 1 < file.len BY <1>1
    <2> QED BY <1>1, <2>1, InFile
  <1>4. Mapped(p + Extent(d) - 1)
    <2> HIDE DEF d, s
    <2> QED BY <1>1, <1>2, <1>3
  <1>5. d.cmd = "segment" => Mapped(p + SectionsEnd(d) - 1)
    <2> HIDE DEF d, s
    <2>1. s <= s BY <1>1
    <2> QED BY <1>1, <1>3, <2>1
  <1> HIDE DEF d
  <1> QED BY <1>1, <1>4, <1>5 DEF Fault, d

LEMMA GoodInit == Init => GoodInv
  <1> SUFFICES ASSUME Init, WellFormed(file) PROVE GoodInv BY DEF GoodInv, OrdinaryFile
  <1>1. /\ at = "main" /\ thrown = "none" /\ read = 0 /\ cursor = HEADER
        /\ commands = <<>>
    BY DEF Init, LoaderInit
  <1>2. EntryInv BY ProcessInit DEF ProcessInv
  <1>3. Before(HEADER) = {} /\ HEADER \in Positions
    <2>1. /\ Positions \subseteq Nat /\ HEADER \in Positions
          /\ \A p \in Positions : HEADER <= p
      BY <1>2, CommandFacts
    <2>2. \A p \in Positions : ~(p < HEADER)
      <3> SUFFICES ASSUME NEW p \in Positions PROVE ~(p < HEADER) OBVIOUS
      <3>1. p \in Nat /\ HEADER <= p BY <2>1
      <3> QED BY <3>1 DEF HEADER
    <2> QED BY <2>1, <2>2 DEF Before
  <1>4. Keeps(file, {}) = {} BY DEF Keeps
  <1>5. Cardinality({}) = 0 /\ Len(commands) = 0 /\ DOMAIN commands = {}
    BY <1>1, FS_EmptySet, EmptySeq
  <1> QED BY <1>1, <1>3, <1>4, <1>5 DEF GoodInv, WholeInv, Dead, Running

\* A round of the loop reads the next command of the file.
LEMMA RoundKeepsInStep ==
  ASSUME ProcessInv, WellFormed(file), WholeInv, ReadCommand, at = "commands"
  PROVE  /\ WholeInv' /\ UNCHANGED <<at, thrown>>
  <1> DEFINE P == Positions
             c == cursor
             d == file.cmds[c]
             B == Before(c)
             K == Keeps(file, B)
  <1>1. EntryInv BY DEF ProcessInv
  <1>2. /\ P \subseteq Nat /\ IsFiniteSet(P) /\ file.ncmds = Cardinality(P)
        /\ file.len \in Nat
        /\ \A p \in P :
             /\ file.cmds[p] \in CommandType
             /\ file.cmds[p].cmdsize \in Nat \ {0}
             /\ \A q \in P :
                  q > p => q >= p + file.cmds[p].cmdsize
                           /\ p + file.cmds[p].cmdsize \in P
    BY <1>1, CommandFacts
  <1>3. c \in P /\ c \in Nat
    <2>1. read < file.ncmds /\ read = Cardinality(B) BY DEF ReadCommand, WholeInv
    <2>2. B # P
      <3>1. Cardinality(P) \in Nat BY <1>2, FS_CardinalityType
      <3> QED BY <1>2, <2>1, <3>1
    <2> QED BY <1>2, <2>2 DEF WholeInv
  <1>4. /\ read' = read + 1 /\ cursor' = c + d.cmdsize
        /\ commands' = IF d.cmd \in Supported THEN Append(commands, d) ELSE commands
        /\ UNCHANGED <<file, at, thrown>>
    <2>1. CommandAt(c) = d BY <1>3 DEF CommandAt, Positions
    <2>2. Fault(d, c) = "none" BY <1>1, <1>3, NoFault
    <2> HIDE DEF c, d
    <2> QED BY <2>1, <2>2 DEF ReadCommand, AddKept, c
  <1>5. /\ Before(cursor') = B \cup {c}
        /\ cursor' \in P \/ Before(cursor') = P
    <2>1. d.cmdsize \in Nat \ {0}
          /\ \A q \in P : q > c => q >= c + d.cmdsize /\ c + d.cmdsize \in P
      BY <1>2, <1>3
    <2> HIDE DEF d, c
    <2>2. \A q \in P : q < c + d.cmdsize <=> q < c \/ q = c
      <3> SUFFICES ASSUME NEW q \in P
                   PROVE  q < c + d.cmdsize <=> (q < c \/ q = c)
        OBVIOUS
      <3>1. q \in Nat /\ c \in Nat /\ d.cmdsize \in Nat \ {0} BY <1>2, <1>3, <2>1
      <3>2. q > c => q >= c + d.cmdsize BY <2>1
      <3> QED BY <3>1, <3>2
    <2>3. Before(cursor') = B \cup {c} BY <1>3, <1>4, <2>2 DEF Before, c
    <2>4. cursor' \in P \/ (\A q \in P : ~(q > c)) BY <1>4, <2>1
    <2>5. (\A q \in P : ~(q > c)) => B \cup {c} = P
      <3> SUFFICES ASSUME \A q \in P : ~(q > c) PROVE B \cup {c} = P OBVIOUS
      <3>1. \A q \in P : q < c \/ q = c
        <4> SUFFICES ASSUME NEW q \in P PROVE q < c \/ q = c OBVIOUS
        <4>1. q \in Nat /\ c \in Nat /\ ~(q > c) BY <1>2, <1>3
        <4> QED BY <4>1
      <3> QED BY <1>3, <3>1 DEF Before
    <2> QED BY <2>3, <2>4, <2>5
  <1>6. B \subseteq P /\ c \notin B /\ IsFiniteSet(B) /\ K \subseteq B
    <2>1. B \subseteq P /\ c \notin B BY <1>3 DEF Before
    <2>2. IsFiniteSet(B) BY <1>2, <2>1, FS_Subset
    <2> QED BY <2>1, <2>2 DEF Keeps
  <1>7. /\ IsFiniteSet(K)
        /\ Cardinality(B \cup {c}) = Cardinality(B) + 1
        /\ Cardinality(K \cup {c}) = Cardinality(K) + 1
    BY <1>6, FS_Subset, FS_AddElement
  <1>8. Keeps(file, B \cup {c}) = IF d.cmd \in Supported THEN K \cup {c} ELSE K
    BY DEF Keeps
  <1>9. /\ commands \in Seq(CommandType) /\ DOMAIN commands = 1 .. Len(commands)
        /\ Len(commands) \in Nat /\ Len(commands) = Cardinality(K)
        /\ read = Cardinality(B)
    BY LenProperties DEF ProcessInv, EntryInv, WholeInv
  <1>10. /\ \A k \in DOMAIN commands : \E p \in Kept :
              /\ commands[k] = file.cmds[p]
              /\ k = Cardinality({q \in Kept : q <= p})
         /\ \A p \in K : \E k \in DOMAIN commands : commands[k] = file.cmds[p]
    BY DEF WholeInv
  <1>11. /\ Positions' = P /\ Kept' = Kept /\ Before(cursor)' = B \cup {c}
         /\ Keeps(file, Before(cursor))' = Keeps(file, B \cup {c})
    BY <1>4, <1>5 DEF Positions, Kept, Keeps, Before
  <1>12. CASE d.cmd \in Supported
    <2>1. {q \in Kept : q <= c} = K \cup {c} /\ c \in Kept
      <3>1. \A q \in P : q <= c <=> q < c \/ q = c
        <4> SUFFICES ASSUME NEW q \in P PROVE q <= c <=> (q < c \/ q = c) OBVIOUS
        <4>1. q \in Nat /\ c \in Nat BY <1>2, <1>3
        <4> QED BY <4>1
      <3> QED BY <1>3, <1>12, <3>1 DEF Kept, Keeps, Before
    <2>2. commands' = Append(commands, d) /\ d \in CommandType BY <1>2, <1>3, <1>4, <1>12
    <2>3. /\ Len(commands') = Len(commands) + 1
          /\ DOMAIN commands' = 1 .. Len(commands) + 1
          /\ \A k \in 1 .. Len(commands) : commands'[k] = commands[k]
          /\ commands'[Len(commands) + 1] = d
      <3> HIDE DEF d
      <3>1. commands' \in Seq(CommandType) BY <1>9, <2>2, AppendProperties
      <3> QED BY <1>9, <2>2, <3>1, AppendProperties, LenProperties
    <2>4. ASSUME NEW k \in DOMAIN commands'
          PROVE  \E p \in Kept : /\ commands'[k] = file.cmds[p]
                                 /\ k = Cardinality({q \in Kept : q <= p})
      <3>1. CASE k \in DOMAIN commands BY <1>9, <1>10, <2>3, <3>1
      <3>2. CASE k \notin DOMAIN commands
        <4>1. k = Len(commands) + 1 BY <1>9, <2>3, <2>4, <3>2
        <4> QED BY <1>7, <1>9, <2>1, <2>3, <4>1
      <3> QED BY <3>1, <3>2
    <2>5. ASSUME NEW p \in K \cup {c}
          PROVE  \E k \in DOMAIN commands' : commands'[k] = file.cmds[p]
      <3>1. DOMAIN commands \subseteq DOMAIN commands'
            /\ Len(commands) + 1 \in DOMAIN commands'
        BY <1>9, <2>3
      <3>2. CASE p \in K BY <1>9, <1>10, <2>3, <3>1, <3>2
      <3>3. CASE p = c BY <2>3, <3>1, <3>3
      <3> QED BY <3>2, <3>3
    <2> HIDE DEF B, K, P, c, d
    <2> QED BY <1>4, <1>5, <1>7, <1>8, <1>9, <1>11, <1>12, <2>3, <2>4, <2>5
            DEF WholeInv, Running
  <1>13. CASE d.cmd \notin Supported
    <2>1. commands' = commands BY <1>4, <1>13
    <2> HIDE DEF B, K, P, c, d
    <2> HIDE DEF Kept
    <2>2. read' = Cardinality(Before(cursor)') BY <1>4, <1>7, <1>9, <1>11
    <2>3. Keeps(file, Before(cursor))' = K BY <1>8, <1>11, <1>13
    <2>4. Len(commands') = Cardinality(K)
          /\ (at' \in {"instructions"} \cup Running => FALSE)
      BY <1>4, <1>9, <2>1 DEF Running
    <2>5. /\ \A k \in DOMAIN commands' : \E p \in Kept' :
               /\ commands'[k] = file'.cmds[p]
               /\ k = Cardinality({q \in Kept' : q <= p})
          /\ \A p \in K : \E k \in DOMAIN commands' : commands'[k] = file'.cmds[p]
      BY <1>4, <1>10, <1>11, <2>1
    <2> QED BY <1>4, <1>5, <1>11, <2>2, <2>3, <2>4, <2>5 DEF WholeInv
  <1> QED BY <1>4, <1>12, <1>13

\* Once all commands are read there are a text and an entry within the file.
LEMMA LoadedWhole ==
  ASSUME EntryInv, WellFormed(file), WholeInv, Before(cursor) = Positions
  PROVE  /\ TextSegments # {} /\ TextOffset % 2 = 0
         /\ Entries # {}
         /\ LET entryoff == commands[Max(Entries)].entryoff
            IN entryoff % 4 = 0 /\ entryoff < file.len /\ entryoff \in Nat
  <1>1. /\ commands \in Seq(CommandType)
        /\ \A k \in DOMAIN commands : \E p \in Positions : commands[k] = file.cmds[p]
        /\ \A p \in Positions :
             file.cmds[p].cmd \in Supported =>
               \E k \in DOMAIN commands : commands[k] = file.cmds[p]
    BY DEF EntryInv, WholeInv, Kept, Keeps
  <1>2. TextSegments # {} /\ Entries # {}
    <2>1. PICK p \in Positions :
            /\ file.cmds[p].cmd = "segment" /\ file.cmds[p].text
            /\ \E s \in DOMAIN file.cmds[p].sections : file.cmds[p].sections[s].text
      BY DEF WellFormed, Positions
    <2>2. PICK q \in Positions : file.cmds[q].cmd = "main" BY DEF WellFormed, Positions
    <2>3. PICK k \in DOMAIN commands : commands[k] = file.cmds[p]
      BY <1>1, <2>1 DEF Supported
    <2>4. PICK l \in DOMAIN commands : commands[l] = file.cmds[q]
      BY <1>1, <2>2 DEF Supported
    <2>5. k \in TextSegments BY <2>1, <2>3 DEF TextSegments
    <2>6. l \in Entries BY <2>2, <2>4 DEF Entries
    <2> QED BY <2>5, <2>6
  <1>3. TextOffset % 2 = 0
    <2>1. PICK k \in TextSegments :
                \E s \in DOMAIN commands[k].sections :
                  /\ commands[k].sections[s].text
                  /\ TextOffset = commands[k].sections[s].offset
      BY <1>1, <1>2, TakenFrom
    <2>2. PICK p \in Positions : commands[k] = file.cmds[p] BY <1>1, <2>1 DEF TextSegments
    <2>3. \A s \in DOMAIN file.cmds[p].sections :
            file.cmds[p].sections[s].text => file.cmds[p].sections[s].offset % 2 = 0
      BY DEF WellFormed, Positions
    <2> QED BY <2>1, <2>2, <2>3
  <1>4. /\ commands[Max(Entries)].entryoff % 4 = 0
        /\ commands[Max(Entries)].entryoff < file.len
    <2>1. Max(Entries) \in DOMAIN commands /\ commands[Max(Entries)].cmd = "main"
      BY <1>1, <1>2, TakenFrom DEF Entries
    <2>2. PICK p \in Positions : commands[Max(Entries)] = file.cmds[p] BY <1>1, <2>1
    <2>3. file.cmds[p].cmd = "main" =>
            file.cmds[p].entryoff % 4 = 0 /\ file.cmds[p].entryoff < file.len
      BY DEF WellFormed, Positions
    <2> QED BY <2>1, <2>2, <2>3
  <1>5. commands[Max(Entries)].entryoff \in Nat BY <1>1, <1>2, Taken, Sizes
  <1> QED BY <1>2, <1>3, <1>4, <1>5

\* The commands, once read, do not change.
LEMMA WholeKept ==
  ASSUME WholeInv, UNCHANGED <<file, read, cursor, commands>>,
         at' \in {"instructions"} \cup Running => Before(cursor) = Positions
  PROVE  WholeInv'
  <1>1. /\ Positions' = Positions /\ Before(cursor)' = Before(cursor) /\ Kept' = Kept
        /\ Keeps(file, Before(cursor))' = Keeps(file, Before(cursor))
    BY DEF Before, Positions, Kept, Keeps
  <1> QED BY <1>1 DEF WholeInv, Running

\* Of an ordinary file nothing but the program can end the process early.
LEMMA GoodStep ==
  ASSUME ProcessInv, GoodInv, Next
  PROVE  GoodInv'
  <1>1. UNCHANGED <<file, args, path>> BY Unchanged
  <1>2. OrdinaryFile' <=> OrdinaryFile BY <1>1 DEF OrdinaryFile, WellFormed
  <1> SUFFICES ASSUME OrdinaryFile
               PROVE  /\ WholeInv'
                      /\ at' \in Dead => treeLogger'
                      /\ thrown' \in {"none", "stack overflow"}
    BY <1>2 DEF GoodInv
  <1>3. /\ WholeInv /\ thrown \in {"none", "stack overflow"}
        /\ at \in Dead => treeLogger
        /\ WellFormed(file) /\ args = 2
        /\ path \notin StaticNames \cup {"DecisionTree", "cheeky::main"}
    BY DEF GoodInv, OrdinaryFile
  <1>4. /\ EntryInv /\ HoldInv /\ NamesInv BY DEF ProcessInv
  <1>5. CASE ReadCommand /\ UNCHANGED procVars
    <2>1. at = "commands" BY <1>5 DEF ReadCommand
    <2>2. WholeInv' /\ UNCHANGED <<at, thrown>> BY <1>3, <1>5, <2>1, RoundKeepsInStep
    <2> QED BY <1>3, <2>1, <2>2 DEF Dead
  <1> SUFFICES ASSUME ~(ReadCommand /\ UNCHANGED procVars)
               PROVE  /\ at' \in {"instructions"} \cup Running => Before(cursor) = Positions
                      /\ at' \in Dead => treeLogger'
                      /\ thrown' \in {"none", "stack overflow"}
    <2>1. LoadFile => \/ UNCHANGED <<file, read, cursor, commands>>
                      \/ ReadCommand /\ UNCHANGED procVars
      BY DEF LoadFile, Load, OpenFile, MapFile, CommandsRead, LoadInstructions, Die,
             loaderVars
    <2>2. Next => LoadFile \/ UNCHANGED <<file, read, cursor, commands>>
      BY DEF Next, Thread, Main, MakeState, UpdatePc, FirstHandle, Handle, AdvancePc,
             LoopEnds, Refuse, LoggerLost, LeaveSession, Release, Catch, Report,
             ShutDown, Printer, Ended, loaderVars, vars
    <2> QED BY <1>3, <1>5, <2>1, <2>2, WholeKept
  <1>6. at \in {"instructions"} \cup Running => Before(cursor) = Positions
    BY <1>3 DEF WholeInv
  <1> USE DEF Dead, Running, procVars
  <1>7. CASE Main BY <1>3, <1>7 DEF Main
  <1>8. CASE MakeState
    BY <1>3, <1>4, <1>8 DEF MakeState, Clash, Register, NamesInv
  <1>9. CASE OpenFile /\ UNCHANGED procVars
    <2>1. file.opens /\ file.stats BY <1>3 DEF WellFormed
    <2> QED BY <1>3, <1>9, <2>1 DEF OpenFile
  <1>10. CASE MapFile /\ UNCHANGED procVars
    <2>1. /\ file.maps /\ file.ncmds <= MEMORY
          /\ file.ncmds \in Nat /\ MEMORY \in Nat
      <3>1. file.maps /\ file.ncmds <= MEMORY BY <1>3 DEF WellFormed
      <3>2. file.ncmds \in 0 .. U32 - 1 BY <1>4, FilesAssumption DEF EntryInv
      <3> QED BY <3>1, <3>2, Sizes, WidthAssumption
    <2>2. ~(file.ncmds > MEMORY) BY <2>1
    <2> QED BY <1>3, <1>10, <2>1, <2>2 DEF MapFile
  <1>11. CASE CommandsRead /\ UNCHANGED procVars
    <2>1. Before(cursor) = Positions
      <3>1. Cardinality(Before(cursor)) = Cardinality(Positions)
            /\ IsFiniteSet(Positions) /\ Before(cursor) \subseteq Positions
        BY <1>3, <1>4, <1>11, CommandFacts DEF CommandsRead, WholeInv, Before
      <3> QED BY <3>1, FS_Subset
    <2> QED BY <1>3, <1>11, <2>1 DEF CommandsRead, loaderVars
  <1>12. CASE LoadInstructions /\ UNCHANGED procVars
    <2>1. Before(cursor) = Positions /\ at = "instructions"
      BY <1>6, <1>12 DEF LoadInstructions
    <2>2. TextSegments # {} /\ Entries # {} BY <1>3, <1>4, <2>1, LoadedWhole
    <2> QED BY <1>3, <1>12, <2>1, <2>2 DEF LoadInstructions
  <1>13. CASE FirstHandle
    <2>1. at = "loop" /\ ~treeLogger BY <1>13 DEF FirstHandle
    <2>2. /\ TextSegments # {} /\ Entries # {} /\ commands \in Seq(CommandType)
          /\ base = Base(TextOffset)
          /\ pcOff = PcOff(commands[Max(Entries)].entryoff, base)
      BY <1>4, <2>1 DEF EntryInv
    <2>3. /\ commands[Max(Entries)].entryoff \in 0 .. U64 - 1
          /\ TextOffset \in 0 .. U32 - 1
      BY <2>2, Taken
    <2> DEFINE e == commands[Max(Entries)].entryoff
    <2>4. /\ TextOffset % 2 = 0 /\ e % 4 = 0 /\ e < file.len
          /\ e \in Nat /\ file.len \in Nat
      BY <1>3, <1>4, <1>6, <2>1, LoadedWhole, FilesAssumption DEF EntryInv
    <2>5. FetchedAt = e BY <2>2, <2>3, <2>4, FetchesEntry DEF FetchedAt
    <2> HIDE DEF e
    <2>6. Mapped(FetchedAt) BY <2>4, <2>5, InFile
    <2>7. ~Clash("DecisionTree") BY <1>3, <1>4, <2>1 DEF NamesInv, Clash
    <2> QED BY <1>3, <1>6, <1>13, <2>6, <2>7 DEF FirstHandle
  <1>14. CASE UpdatePc \/ Handle \/ AdvancePc \/ Refuse \/ LoggerLost
    BY <1>3, <1>4, <1>6, <1>14
       DEF UpdatePc, Handle, AdvancePc, Refuse, LoggerLost, HoldInv
  <1>15. CASE LoopEnds BY <1>3, <1>6, <1>15 DEF LoopEnds, ThrowRuntimeError
  <1>16. CASE LeaveSession BY <1>3, <1>16 DEF LeaveSession, Release
  <1>17. CASE Catch BY <1>3, <1>4, <1>17 DEF Catch, Clash, NamesInv
  <1>18. CASE Report BY <1>3, <1>18 DEF Report
  <1>19. CASE ShutDown BY <1>3, <1>19 DEF ShutDown
  <1>20. CASE Printer BY <1>3, <1>6, <1>20 DEF Printer
  <1>21. CASE Ended BY <1>3, <1>21 DEF Ended, vars
  <1> QED
    BY <1>7, <1>8, <1>9, <1>10, <1>11, <1>12, <1>13, <1>14, <1>15, <1>16, <1>17,
       <1>18, <1>19, <1>20, <1>21
       DEF Next, Thread, LoadFile, Load

(* Process.GoodFileRuns: whatever else a well-formed file contains, in     *)
(* every layout of its commands, the loader keeps the supported ones and   *)
(* the loop starts (mach_object.cpp:25-53, 61-116).                        *)
THEOREM GoodFilesRun == Spec => []GoodFileRuns
  <1>1. GoodInv /\ ProcessInv /\ [Next]_vars => GoodInv'
    <2> SUFFICES ASSUME GoodInv, UNCHANGED vars PROVE GoodInv'
      BY GoodStep
    <2>1. UNCHANGED <<file, at, thrown, read, cursor, commands, args, path, treeLogger>>
      BY DEF vars, loaderVars, procVars
    <2>2. OrdinaryFile' <=> OrdinaryFile BY <2>1 DEF OrdinaryFile, WellFormed
    <2>3. WholeInv => WholeInv' BY <2>1, WholeKept DEF WholeInv
    <2> QED BY <2>1, <2>2, <2>3 DEF GoodInv
  <1>2. GoodInv /\ ProcessInv => GoodFileRuns
    <2> SUFFICES ASSUME GoodInv, ProcessInv, OrdinaryFile PROVE GoodFileRuns
      BY DEF GoodFileRuns, OrdinaryFile
    <2>1. WholeInv /\ (at \in Dead => treeLogger) /\ thrown \in {"none", "stack overflow"}
      BY DEF GoodInv
    <2>2. ASSUME at = "loop"
          PROVE  /\ Len(commands) = Cardinality(Kept)
                 /\ \A k \in DOMAIN commands : \E p \in Kept :
                      /\ commands[k] = file.cmds[p]
                      /\ k = Cardinality({q \in Kept : q <= p})
      BY <2>1, <2>2 DEF WholeInv, Kept, Running
    <2> QED BY <2>1, <2>2 DEF GoodFileRuns, Kept, Positions
  <1> QED BY <1>1, <1>2, GoodInit, ProcessInvariant, PTL DEF Spec
=============================================================================
