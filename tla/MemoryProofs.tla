---------------------------- MODULE MemoryProofs ----------------------------
(***************************************************************************)
(* What an instruction can do to the emulated memory, for every program    *)
(* and every scale of the machine: the last step changes nothing, and the  *)
(* logger behind the stack falls only to a store over the far end.         *)
(***************************************************************************)
EXTENDS SessionProofs, Arithmetic

\* The handlers that always return true.
LEMMA GoingOn ==
  ASSUME NEW i,
         \/ AddImm(i) \/ AddsImm(i) \/ SubImm(i) \/ SubsImm(i) \/ Movz(i)
         \/ Adrp(i) \/ Csinc(i) \/ B(i) \/ Bl(i) \/ Tbnz(i)
  PROVE  ctl' = "advance"
  BY DEF AddImm, AddsImm, SubImm, SubsImm, Movz, Adrp, Csinc, B, Bl, Tbnz,
         Result, Advance

\* The handlers that may stop, throw or abort change nothing when they do.
LEMMA GivingUp ==
  ASSUME NEW i,
         \/ OrrSh(i) \/ Ret(i) \/ StrImm(i) \/ LdrImm(i) \/ Stur(i) \/ Stp(i)
         \/ Ldp(i) \/ Unsupported
  PROVE  ctl' = "advance" \/ UNCHANGED coreVars
  <1>1. CASE OrrSh(i) BY <1>1 DEF OrrSh, Abort, Result, Advance
  <1>2. CASE Ret(i) BY <1>2 DEF Ret, Stop, Advance
  <1>3. CASE StrImm(i) BY <1>3 DEF StrImm, Stop, Throw, Advance
  <1>4. CASE LdrImm(i) BY <1>4 DEF LdrImm, Stop, Throw, Advance
  <1>5. CASE Stur(i) BY <1>5 DEF Stur, Stop, Throw, Advance
  <1>6. CASE Stp(i) BY <1>6 DEF Stp, Throw, Advance
  <1>7. CASE Ldp(i) BY <1>7 DEF Ldp, Throw, Advance
  <1>8. CASE Unsupported BY <1>8 DEF Unsupported, Stop
  <1> QED BY <1>1, <1>2, <1>3, <1>4, <1>5, <1>6, <1>7, <1>8

\* One step of the session that ends it.
LEMMA EndingStep ==
  ASSUME TypeOK, [Next]_vars, ctl' \in Final
  PROVE  /\ UNCHANGED <<pc, nzcv, mem>>
         /\ \/ UNCHANGED r
            \/ /\ Fetched("Bl") /\ ~LoggerIntact
               /\ \A k \in Regs \ {LR} : r'[k] = r[k]
  <1>1. CASE Execute
    <2>1. ctl' # "advance" BY DEF Final
    <2> QED BY <1>1, <2>1, GoingOn, GivingUp DEF Execute, coreVars
  <1>2. CASE AdvancePc BY <1>2 DEF AdvancePc, Final
  <1>3. CASE LoggerFault \/ WildFetch BY <1>3 DEF LoggerFault, WildFetch, coreVars
  <1>4. CASE BranchFault
    <2>1. UNCHANGED <<pc, nzcv, mem>> /\ ~LoggerIntact BY <1>4 DEF BranchFault
    <2>2. CASE Fetched("Bl")
      <3>1. r' = SetR(r, TRUE, LR, pc + 1) BY <1>4, <2>2 DEF BranchFault
      <3>2. \A k \in Regs \ {LR} : r'[k] = r[k]
        BY <3>1 DEF SetR, TypeOK, CoreTypeOK
      <3> QED BY <2>1, <2>2, <3>2
    <2>3. CASE ~Fetched("Bl") BY <1>4, <2>1, <2>3 DEF BranchFault
    <2> QED BY <2>2, <2>3
  <1>5. CASE Ended BY <1>5 DEF Ended
  <1>6. CASE UNCHANGED vars BY <1>6 DEF vars
  <1> QED BY <1>1, <1>2, <1>3, <1>4, <1>5, <1>6 DEF Next

(* The step with which a session ends (RET, an unsupported word, a bound   *)
(* check, an assert, a crash, a fetch outside the text) changes no         *)
(* register, no flag and no byte, for every program; only a BL that        *)
(* crashes on a lost logger has set the link.                              *)
THEOREM LastStepChangesNothing == Spec => FaultAtomic
  <1>1. TypeOK /\ [Next]_vars =>
          [ ctl' \in Final =>
              /\ UNCHANGED <<pc, nzcv, mem>>
              /\ \/ UNCHANGED r
                 \/ /\ Fetched("Bl") /\ ~LoggerIntact
                    /\ \A k \in Regs \ {LR} : r'[k] = r[k] ]_vars
    BY EndingStep
  <1> QED BY <1>1, TypeCorrect, PTL DEF Spec, FaultAtomic

-----------------------------------------------------------------------------
(* What is written, and where.                                             *)

\* Some store of the instruction passes the bound check and covers the byte.
Covers(i, a) ==
  \E off \in StoreOffsets(i) :
    InRange(off) /\ off <= a /\ a < off + Size(i.sf)

\* The handlers that only read the memory.
LEMMA ReadingOnly ==
  ASSUME NEW i,
         \/ AddImm(i) \/ AddsImm(i) \/ SubImm(i) \/ SubsImm(i) \/ OrrSh(i)
         \/ Movz(i) \/ Adrp(i) \/ Csinc(i) \/ B(i) \/ Bl(i) \/ Ret(i)
         \/ Tbnz(i) \/ LdrImm(i) \/ Ldp(i) \/ Unsupported
  PROVE  mem' = mem
  <1>1. CASE AddImm(i) \/ AddsImm(i) \/ SubImm(i) \/ SubsImm(i)
    BY <1>1 DEF AddImm, AddsImm, SubImm, SubsImm, Result
  <1>2. CASE OrrSh(i) \/ Movz(i) \/ Adrp(i) \/ Csinc(i)
    BY <1>2 DEF OrrSh, Movz, Adrp, Csinc, Result, Abort, coreVars
  <1>3. CASE B(i) \/ Bl(i) \/ Ret(i) \/ Tbnz(i)
    BY <1>3 DEF B, Bl, Ret, Tbnz, Stop, coreVars
  <1>4. CASE LdrImm(i) BY <1>4 DEF LdrImm, Stop, Throw, coreVars
  <1>5. CASE Ldp(i) BY <1>5 DEF Ldp, Throw, coreVars
  <1>6. CASE Unsupported BY <1>6 DEF Unsupported, Stop, coreVars
  <1> QED BY <1>1, <1>2, <1>3, <1>4, <1>5, <1>6

\* A byte that a store changes is one of those it covers.
LEMMA StoreChanges ==
  ASSUME NEW m, NEW sf, NEW off, NEW v, NEW a \in ObjectBytes,
         Store(m, sf, off, v)[a] # m[a]
  PROVE  off <= a /\ a < off + Size(sf)
  BY DEF Store

\* The three handlers that write the memory.
LEMMA WritingCovers ==
  ASSUME NEW i, NEW a \in ObjectBytes, mem'[a] # mem[a],
         \/ Handler(i.op) = "StrImm" /\ StrImm(i)
         \/ Handler(i.op) = "Stur" /\ Stur(i)
         \/ Handler(i.op) = "Stp" /\ Stp(i)
  PROVE  Covers(i, a)
  <1>1. CASE Handler(i.op) = "StrImm" /\ StrImm(i)
    <2> DEFINE off == Offset(i.sf, Rn(i) + (IF i.mode = "offset" THEN Scaled(i) ELSE i.imm))
    <2>1. InRange(off) /\ mem' = Store(mem, i.sf, off, OrZero(i, i.rd))
      BY <1>1 DEF StrImm, Stop, Throw, coreVars
    <2>2. off \in StoreOffsets(i) BY <1>1 DEF StoreOffsets
    <2> HIDE DEF off
    <2> QED BY <2>1, <2>2, StoreChanges DEF Covers
  <1>2. CASE Handler(i.op) = "Stur" /\ Stur(i)
    <2> DEFINE off == Offset(i.sf, Rn(i) + Signed(i.imm % IMM9, IMM9))
    <2>1. InRange(off) /\ mem' = Store(mem, i.sf, off, OrZero(i, i.rd))
      BY <1>2 DEF Stur, Stop, Throw, coreVars
    <2>2. off \in StoreOffsets(i) BY <1>2 DEF StoreOffsets
    <2> HIDE DEF off
    <2> QED BY <2>1, <2>2, StoreChanges DEF Covers
  <1>3. CASE Handler(i.op) = "Stp" /\ Stp(i)
    <2> DEFINE off1 == Offset(i.sf, Rn(i) + Scaled(i))
               off2 == Offset(i.sf, Rn(i) + Scaled(i) + Size(i.sf))
               first == Store(mem, i.sf, off1, OrZero(i, i.rd))
    <2>1. /\ InRange(off1) /\ InRange(off2)
          /\ mem' = Store(first, i.sf, off2, OrZero(i, i.rm))
      BY <1>3 DEF Stp, Throw, coreVars
    <2>2. off1 \in StoreOffsets(i) /\ off2 \in StoreOffsets(i)
      BY <1>3 DEF StoreOffsets
    <2> HIDE DEF off1, off2
    <2>3. CASE first[a] # mem[a] BY <2>1, <2>2, <2>3, StoreChanges DEF Covers
    <2>4. CASE first[a] = mem[a]
      <3> HIDE DEF first
      <3> QED BY <2>1, <2>2, <2>4, StoreChanges DEF Covers
    <2> QED BY <2>3, <2>4
  <1> QED BY <1>1, <1>2, <1>3

\* One step of the session that changes a byte.
LEMMA WritingStep ==
  ASSUME [Next]_vars, NEW a \in ObjectBytes, mem'[a] # mem[a]
  PROVE  ctl = "fetch" /\ pc \in DOMAIN text /\ Covers(text[pc], a)
  <1>1. CASE Execute
    <2>1. ctl = "fetch" /\ pc \in DOMAIN text BY <1>1 DEF Execute, Fetched
    <2>2. \/ Fetched("StrImm") /\ StrImm(text[pc])
          \/ Fetched("Stur") /\ Stur(text[pc])
          \/ Fetched("Stp") /\ Stp(text[pc])
      BY <1>1, ReadingOnly DEF Execute
    <2>3. Covers(text[pc], a) BY <2>2, WritingCovers DEF Fetched
    <2> QED BY <2>1, <2>3
  <1>2. CASE ~Execute
    BY <1>2 DEF Next, AdvancePc, LoggerFault, BranchFault, WildFetch, Ended, coreVars,
           vars
  <1> QED BY <1>1, <1>2

(* For every program: a byte of the memory only changes under a store that *)
(* passed the bound check and covers it; no load, write-back, branch or    *)
(* fault of any handler writes a byte, and no store one beside its own.    *)
THEOREM OnlyStoresWriteMemory == Spec => OnlyStoresWrite
  <1>1. [Next]_vars =>
          [ \A a \in ObjectBytes : mem'[a] # mem[a] =>
              /\ ctl = "fetch" /\ pc \in DOMAIN text
              /\ \E off \in StoreOffsets(text[pc]) :
                   InRange(off) /\ off <= a /\ a < off + Size(text[pc].sf) ]_vars
    BY WritingStep DEF Covers
  <1> QED BY <1>1, PTL DEF Spec, OnlyStoresWrite

-----------------------------------------------------------------------------
Behind == STACK_SIZE .. STACK_SIZE + 7

\* The logger's pointer is made of the bytes behind the stack.
LEMMA SamePointer ==
  ASSUME \A a \in Behind : mem'[a] = mem[a]
  PROVE  LoggerIntact' = LoggerIntact
  <1>1. \A k \in 0 .. 7 : STACK_SIZE + k \in Behind
    BY StackAssumption DEF Behind
  <1>2. \A k \in 0 .. 7 : mem'[STACK_SIZE + k] = mem[STACK_SIZE + k] BY <1>1
  <1>3. FromBytes4(mem', STACK_SIZE) = FromBytes4(mem, STACK_SIZE)
    BY <1>2, StackAssumption DEF FromBytes4
  <1>4. FromBytes4(mem', STACK_SIZE + 4) = FromBytes4(mem, STACK_SIZE + 4)
    BY <1>2, StackAssumption DEF FromBytes4
  <1> QED BY <1>3, <1>4 DEF LoggerIntact, FromBytes8

\* Where an instruction stores is an integer.
LEMMA StoreOffsetType ==
  ASSUME CoreTypeOK, NEW i \in Instr
  PROVE  StoreOffsets(i) \subseteq Int
  <1>1. i.sf \in BOOLEAN /\ i.imm \in Nat BY DEF Instr
  <1>2. CASE Handler(i.op) = "StrImm"
    <2> DEFINE step == IF i.mode = "offset" THEN Scaled(i) ELSE i.imm
    <2>1. Rn(i) + step \in Int BY <1>1, OperandType
    <2>2. StoreOffsets(i) = {Offset(i.sf, Rn(i) + step)} BY <1>2 DEF StoreOffsets
    <2> HIDE DEF step
    <2> QED BY <1>1, <2>1, <2>2, OffsetType
  <1>3. CASE Handler(i.op) = "Stur"
    <2> DEFINE simm == Signed(i.imm % IMM9, IMM9)
    <2>1. IMM9 \in Nat \ {0} BY FieldAssumption
    <2>2. Rn(i) + simm \in Int BY <1>1, <2>1, OperandType, SignedFieldType
    <2>3. StoreOffsets(i) = {Offset(i.sf, Rn(i) + simm)} BY <1>3 DEF StoreOffsets
    <2> HIDE DEF simm
    <2> QED BY <1>1, <2>2, <2>3, OffsetType
  <1>4. CASE Handler(i.op) = "Stp" BY <1>4, PairOffsetType DEF StoreOffsets
  <1>5. CASE Handler(i.op) \notin {"StrImm", "Stur", "Stp"} BY <1>5 DEF StoreOffsets
  <1> QED BY <1>2, <1>3, <1>4, <1>5

\* One step of the session that loses the logger.
LEMMA LosingStep ==
  ASSUME TypeOK, [Next]_vars, LoggerIntact, ~LoggerIntact'
  PROVE  /\ ctl = "fetch" /\ pc \in DOMAIN text
         /\ \E off \in StoreOffsets(text[pc]) :
              InRange(off) /\ off + Size(text[pc].sf) > STACK_SIZE
  <1>1. PICK a \in Behind : mem'[a] # mem[a] BY SamePointer
  <1>2. a \in ObjectBytes /\ a \in Int /\ a >= STACK_SIZE
    BY StackAssumption DEF Behind, ObjectBytes
  <1>3. ctl = "fetch" /\ pc \in DOMAIN text /\ Covers(text[pc], a)
    BY <1>1, <1>2, WritingStep
  <1>4. CoreTypeOK /\ text[pc] \in Instr BY <1>3, FetchedInstr DEF TypeOK
  <1>5. PICK off \in StoreOffsets(text[pc]) :
          InRange(off) /\ a < off + Size(text[pc].sf)
    BY <1>3 DEF Covers
  <1>6. off \in Int /\ Size(text[pc].sf) \in Int
    BY <1>4, StoreOffsetType DEF Size
  <1> QED BY <1>2, <1>3, <1>5, <1>6, StackAssumption

(* For every program: as long as no store is let through that ends beyond  *)
(* the stack (state.cpp:74, 81 compare its first byte only), the logger    *)
(* behind the stack stays what it was.                                     *)
THEOREM LoggerSafe == Spec => LoggerLostByOverrun
  <1>1. TypeOK /\ [Next]_vars =>
          [ LoggerIntact /\ ~LoggerIntact' =>
              /\ ctl = "fetch" /\ pc \in DOMAIN text
              /\ \E off \in StoreOffsets(text[pc]) :
                   InRange(off) /\ off + Size(text[pc].sf) > STACK_SIZE ]_vars
    BY LosingStep
  <1> QED BY <1>1, TypeCorrect, PTL DEF Spec, LoggerLostByOverrun

-----------------------------------------------------------------------------
(* Words and their bytes.                                                  *)

\* The weights of the bytes of a half word, and of the other half.
LEMMA PlaceIs ==
  /\ Place[1] = 1 /\ Place[2] = BYTE /\ Place[3] = BYTE * BYTE
  /\ Place[4] = (BYTE * BYTE) * BYTE /\ HALF = ((BYTE * BYTE) * BYTE) * BYTE
  /\ \A k \in 0 .. 3 : Place[(k + 4) + 1] = HALF * Place[k + 1]
  <1>1. BYTE \in Int /\ HALF \in Int BY Widths
  <1>2. /\ Place[1] = 1 /\ Place[2] = BYTE /\ Place[3] = BYTE * BYTE
        /\ Place[4] = (BYTE * BYTE) * BYTE
        /\ Place[5] = HALF /\ Place[6] = HALF * BYTE
        /\ Place[7] = (HALF * BYTE) * BYTE
        /\ Place[8] = ((HALF * BYTE) * BYTE) * BYTE
    BY DEF Place
  <1>3. HALF = ((BYTE * BYTE) * BYTE) * BYTE BY DEF HALF
  <1>4. (HALF * BYTE) * BYTE = HALF * (BYTE * BYTE) BY <1>1
  <1>5. ((HALF * BYTE) * BYTE) * BYTE = HALF * ((BYTE * BYTE) * BYTE)
    <2> DEFINE b2 == BYTE * BYTE
    <2>1. b2 \in Int BY <1>1
    <2> HIDE DEF b2
    <2>2. (HALF * b2) * BYTE = HALF * (b2 * BYTE) BY <1>1, <2>1
    <2> QED BY <1>4, <2>2 DEF b2
  <1>6. HALF * 1 = HALF BY <1>1
  <1>7. ASSUME NEW k \in 0 .. 3
        PROVE  Place[(k + 4) + 1] = HALF * Place[k + 1]
    <2>1. CASE k = 0 BY <2>1, <1>2, <1>6
    <2>2. CASE k = 1 BY <2>2, <1>2
    <2>3. CASE k = 2 BY <2>3, <1>2, <1>4
    <2>4. CASE k = 3 BY <2>4, <1>2, <1>5
    <2> QED BY <2>1, <2>2, <2>3, <2>4
  <1> QED BY <1>2, <1>3, <1>7

\* A low byte is a byte of the low half.
LEMMA LowBytes ==
  ASSUME NEW x \in Int, NEW k \in 0 .. 3
  PROVE  ByteOf(x % HALF, k) = ByteOf(x, k)
  <1>1. BYTE \in Nat \ {0} BY Widths
  <1>2. ASSUME NEW p \in Nat \ {0}, NEW s \in Nat \ {0}, HALF = p * (BYTE * s)
        PROVE  ((x % HALF) \div p) % BYTE = (x \div p) % BYTE
    <2> DEFINE t == BYTE * s
    <2>1. t \in Nat \ {0} BY <1>1, ProductPos
    <2>2. HALF = p * t BY <1>2
    <2> HIDE DEF t
    <2>3. (x % HALF) \div p = (x \div p) % t BY <2>1, <2>2, ModDiv
    <2>4. x \div p \in Int BY DivMod
    <2>5. ((x \div p) % (BYTE * s)) % BYTE = (x \div p) % BYTE
      BY <1>1, <2>4, ModMod
    <2> QED BY <2>3, <2>5 DEF t
  <1> DEFINE b2 == BYTE * BYTE
             b3 == b2 * BYTE
  <1>3. b2 \in Nat \ {0} BY <1>1, ProductPos
  <1> HIDE DEF b2
  <1>4. b3 \in Nat \ {0} BY <1>1, <1>3, ProductPos
  <1> HIDE DEF b3
  <1>5. HALF = b3 * BYTE BY PlaceIs DEF b2, b3
  <1>6. HALF = 1 * (BYTE * b3) /\ HALF = b3 * (BYTE * 1) BY <1>1, <1>4, <1>5
  <1>7. HALF = BYTE * (BYTE * b2)
    <2>1. b3 = b2 * BYTE BY DEF b3
    <2> QED BY <1>1, <1>3, <1>5, <2>1
  <1>8. HALF = b2 * (BYTE * BYTE)
    <2>1. b3 = b2 * BYTE BY DEF b3
    <2> QED BY <1>1, <1>3, <1>5, <2>1
  <1>9. CASE k = 0 BY <1>9, <1>2, <1>4, <1>6, PlaceIs DEF ByteOf
  <1>10. CASE k = 1
    <2>1. ((x % HALF) \div BYTE) % BYTE = (x \div BYTE) % BYTE
      BY <1>1, <1>2, <1>3, <1>7
    <2>2. Place[2] = BYTE BY PlaceIs
    <2> QED BY <1>10, <2>1, <2>2 DEF ByteOf
  <1>11. CASE k = 2
    <2>1. Place[3] = b2 BY PlaceIs DEF b2
    <2>2. ((x % HALF) \div b2) % BYTE = (x \div b2) % BYTE
      BY <1>1, <1>2, <1>3, <1>8
    <2> QED BY <1>11, <2>1, <2>2 DEF ByteOf
  <1>12. CASE k = 3
    <2>1. Place[4] = b3 BY PlaceIs DEF b2, b3
    <2>2. 1 \in Nat \ {0} OBVIOUS
    <2> QED BY <1>12, <1>2, <1>4, <1>6, <2>1, <2>2 DEF ByteOf
  <1> QED BY <1>9, <1>10, <1>11, <1>12

\* A high byte is a byte of the high half.
LEMMA HighBytes ==
  ASSUME NEW x \in Int, NEW k \in 0 .. 3
  PROVE  ByteOf(x, k + 4) = ByteOf(x \div HALF, k)
  <1> DEFINE p == Place[k + 1]
  <1>1. p \in Nat \ {0} BY PlaceType
  <1>2. Place[(k + 4) + 1] = HALF * p BY PlaceIs
  <1> HIDE DEF p
  <1>3. HALF \in Nat \ {0} BY Widths
  <1>4. (x \div HALF) \div p = x \div (HALF * p) BY <1>1, <1>3, DivDiv
  <1> QED BY <1>2, <1>4 DEF ByteOf, p

\* What a view sees decides its bytes.
LEMMA ViewBytes ==
  ASSUME NEW sf \in BOOLEAN, NEW x \in Int, NEW y \in Int,
         x % Span(sf) = y % Span(sf), NEW k \in 0 .. Size(sf) - 1
  PROVE  ByteOf(x, k) = ByteOf(y, k)
  <1>1. HALF \in Nat \ {0} BY Widths
  <1>2. x % HALF = y % HALF
    <2>1. CASE sf
      <3>1. x % (HALF * HALF) = y % (HALF * HALF) BY <2>1 DEF Span, WORD
      <3>2. (x % (HALF * HALF)) % HALF = x % HALF BY <1>1, ModMod
      <3>3. (y % (HALF * HALF)) % HALF = y % HALF BY <1>1, ModMod
      <3> QED BY <3>1, <3>2, <3>3
    <2>2. CASE ~sf BY <2>2 DEF Span
    <2> QED BY <2>1, <2>2
  <1>3. CASE k \in 0 .. 3
    <2>1. ByteOf(x % HALF, k) = ByteOf(x, k) BY <1>3, LowBytes
    <2>2. ByteOf(y % HALF, k) = ByteOf(y, k) BY <1>3, LowBytes
    <2> QED BY <1>2, <2>1, <2>2
  <1>4. CASE k \notin 0 .. 3
    <2>1. sf /\ k - 4 \in 0 .. 3 /\ (k - 4) + 4 = k BY <1>4 DEF Size
    <2> DEFINE j == k - 4
    <2>2. x % (HALF * HALF) = y % (HALF * HALF) BY <2>1 DEF Span, WORD
    <2>3. (x % (HALF * HALF)) \div HALF = (x \div HALF) % HALF
      BY <1>1, ModDiv
    <2>4. (y % (HALF * HALF)) \div HALF = (y \div HALF) % HALF
      BY <1>1, ModDiv
    <2>5. (x \div HALF) % HALF = (y \div HALF) % HALF BY <2>2, <2>3, <2>4
    <2>6. x \div HALF \in Int /\ y \div HALF \in Int BY <1>1, DivMod
    <2>7. j \in 0 .. 3 BY <2>1
    <2>8. ByteOf((x \div HALF) % HALF, j) = ByteOf(x \div HALF, j)
      BY <2>6, <2>7, LowBytes
    <2>9. ByteOf((y \div HALF) % HALF, j) = ByteOf(y \div HALF, j)
      BY <2>6, <2>7, LowBytes
    <2>10. ByteOf(x, j + 4) = ByteOf(x \div HALF, j) BY <2>7, HighBytes
    <2>11. ByteOf(y, j + 4) = ByteOf(y \div HALF, j) BY <2>7, HighBytes
    <2> QED BY <2>1, <2>5, <2>8, <2>9, <2>10, <2>11
  <1> QED BY <1>3, <1>4

\* A digit in front of a number.
LEMMA Digit ==
  ASSUME NEW n \in Nat \ {0}, NEW m \in Nat \ {0},
         NEW d \in 0 .. n - 1, NEW q \in 0 .. m - 1
  PROVE  /\ d + n * q \in 0 .. (m * n) - 1
         /\ (d + n * q) % n = d /\ (d + n * q) \div n = q
  <1>1. n * q \in Int /\ n * q >= 0 OBVIOUS
  <1>2. n * q <= n * (m - 1) OBVIOUS
  <1>3. n * (m - 1) = (m * n) - n OBVIOUS
  <1>4. d + n * q \in 0 .. (m * n) - 1 BY <1>1, <1>2, <1>3
  <1>5. d + n * q \in Int /\ d + n * q = n * q + d /\ q \in Int BY <1>1
  <1>6. (d + n * q) % n = d /\ (d + n * q) \div n = q BY <1>5, DivModUnique
  <1> QED BY <1>4, <1>6

\* The bytes of what four bytes were put together to.
LEMMA FourBytes ==
  ASSUME NEW b0 \in Bytes, NEW b1 \in Bytes, NEW b2 \in Bytes, NEW b3 \in Bytes,
         NEW x, x = b0 + BYTE * (b1 + BYTE * (b2 + BYTE * b3))
  PROVE  /\ x \in 0 .. HALF - 1
         /\ ByteOf(x, 0) = b0 /\ ByteOf(x, 1) = b1
         /\ ByteOf(x, 2) = b2 /\ ByteOf(x, 3) = b3
  <1> DEFINE y2 == b2 + BYTE * b3
             y1 == b1 + BYTE * y2
             p2 == BYTE * BYTE
             p3 == p2 * BYTE
  <1>1. BYTE \in Nat \ {0} BY Widths
  <1>2. /\ b0 \in 0 .. BYTE - 1 /\ b1 \in 0 .. BYTE - 1
        /\ b2 \in 0 .. BYTE - 1 /\ b3 \in 0 .. BYTE - 1
    BY DEF Bytes
  <1>3. p2 \in Nat \ {0} BY <1>1, ProductPos
  <1>4. y2 \in 0 .. p2 - 1 /\ y2 % BYTE = b2 /\ y2 \div BYTE = b3
    BY <1>1, <1>2, Digit
  <1>5. x = b0 + BYTE * y1 OBVIOUS
  <1> HIDE DEF p2, y2
  <1>6. p3 \in Nat \ {0} BY <1>1, <1>3, ProductPos
  <1>7. y1 \in 0 .. p3 - 1 /\ y1 % BYTE = b1 /\ y1 \div BYTE = y2
    BY <1>1, <1>2, <1>3, <1>4, Digit
  <1> HIDE DEF p3, y1
  <1>8. x \in 0 .. (p3 * BYTE) - 1 /\ x % BYTE = b0 /\ x \div BYTE = y1
    <2>1. /\ b0 + BYTE * y1 \in 0 .. (p3 * BYTE) - 1
          /\ (b0 + BYTE * y1) % BYTE = b0 /\ (b0 + BYTE * y1) \div BYTE = y1
      BY <1>1, <1>2, <1>6, <1>7, Digit
    <2> QED BY <1>5, <2>1
  <1>9. HALF = p3 * BYTE BY PlaceIs DEF p2, p3
  <1>10. x \in Int /\ p3 * BYTE \in Int BY <1>1, <1>6, <1>8
  <1>11. x \div p2 = y2
    <2>1. (x \div BYTE) \div BYTE = x \div (BYTE * BYTE) BY <1>1, <1>10, DivDiv
    <2> QED BY <1>7, <1>8, <2>1 DEF p2
  <1>12. x \div p3 = b3
    <2>1. (x \div p2) \div BYTE = x \div (p2 * BYTE) BY <1>1, <1>3, <1>10, DivDiv
    <2> QED BY <1>4, <1>11, <2>1 DEF p3
  <1>13. /\ Place[1] = 1 /\ Place[2] = BYTE /\ Place[3] = p2 /\ Place[4] = p3
    BY PlaceIs DEF p2, p3
  <1>14. x \div 1 = x BY <1>10
  <1>15. ByteOf(x, 0) = b0 BY <1>8, <1>13, <1>14 DEF ByteOf
  <1>16. ByteOf(x, 1) = b1 BY <1>7, <1>8, <1>13 DEF ByteOf
  <1>17. ByteOf(x, 2) = b2 BY <1>4, <1>11, <1>13 DEF ByteOf
  <1>18. ByteOf(x, 3) = b3
    <2>1. b3 % BYTE = b3 BY <1>1, <1>2, ModSmall
    <2> QED BY <1>12, <1>13, <2>1 DEF ByteOf
  <1> QED BY <1>8, <1>9, <1>15, <1>16, <1>17, <1>18

\* The bytes of a half word that is loaded are those of the memory.
LEMMA FourLoaded ==
  ASSUME NEW m, NEW b \in Int, \A k \in 0 .. 3 : m[b + k] \in Bytes
  PROVE  /\ FromBytes4(m, b) \in 0 .. HALF - 1
         /\ \A k \in 0 .. 3 : ByteOf(FromBytes4(m, b), k) = m[b + k]
  <1> DEFINE x == FromBytes4(m, b)
  <1>1. /\ m[b] \in Bytes /\ m[b + 1] \in Bytes /\ m[b + 2] \in Bytes
        /\ m[b + 3] \in Bytes /\ m[b + 0] = m[b]
    OBVIOUS
  <1>2. x = m[b] + BYTE * (m[b + 1] + BYTE * (m[b + 2] + BYTE * m[b + 3]))
    BY DEF FromBytes4
  <1> HIDE DEF x
  <1>3. /\ x \in 0 .. HALF - 1
        /\ ByteOf(x, 0) = m[b] /\ ByteOf(x, 1) = m[b + 1]
        /\ ByteOf(x, 2) = m[b + 2] /\ ByteOf(x, 3) = m[b + 3]
    BY <1>1, <1>2, FourBytes
  <1>4. \A k \in 0 .. 3 : k \in {0, 1, 2, 3} OBVIOUS
  <1> QED BY <1>1, <1>3, <1>4 DEF x

\* The bytes of what is loaded are those of the memory.
LEMMA LoadBytes ==
  ASSUME NEW m, NEW a \in Int, NEW sf \in BOOLEAN,
         \A k \in 0 .. Size(sf) - 1 : m[a + k] \in Bytes
  PROVE  /\ Load(m, sf, a) \in 0 .. Span(sf) - 1 /\ Load(m, sf, a) \in Int
         /\ \A k \in 0 .. Size(sf) - 1 : ByteOf(Load(m, sf, a), k) = m[a + k]
  <1>1. ASSUME NEW b \in Int, \A k \in 0 .. 3 : m[b + k] \in Bytes
        PROVE  /\ FromBytes4(m, b) \in 0 .. HALF - 1
               /\ \A k \in 0 .. 3 : ByteOf(FromBytes4(m, b), k) = m[b + k]
    BY <1>1, FourLoaded
  <1>2. HALF \in Nat \ {0} /\ WORD \in Nat \ {0} BY Widths
  <1>3. CASE ~sf
    <2>1. Load(m, sf, a) = FromBytes4(m, a) /\ Size(sf) = 4 /\ Span(sf) = HALF
      BY <1>3 DEF Load, Size, Span
    <2>2. \A k \in 0 .. 3 : m[a + k] \in Bytes BY <2>1
    <2>3. /\ FromBytes4(m, a) \in 0 .. HALF - 1
          /\ \A k \in 0 .. 3 : ByteOf(FromBytes4(m, a), k) = m[a + k]
      BY <1>1, <2>2
    <2> QED BY <1>2, <2>1, <2>3
  <1>4. CASE sf
    <2> DEFINE x == Load(m, sf, a)
               lo == FromBytes4(m, a)
               hi == FromBytes4(m, a + 4)
    <2>1. x = lo + HALF * hi /\ Size(sf) = 8 /\ Span(sf) = HALF * HALF
      BY <1>4 DEF Load, FromBytes8, Size, Span, WORD
    <2>2. /\ \A k \in 0 .. 3 : m[a + k] \in Bytes
          /\ \A k \in 0 .. 3 : m[(a + 4) + k] \in Bytes
      <3>1. \A k \in 0 .. 3 : k \in 0 .. 7 /\ k + 4 \in 0 .. 7
                              /\ (a + 4) + k = a + (k + 4)
        OBVIOUS
      <3> QED BY <2>1, <3>1
    <2>3. /\ lo \in 0 .. HALF - 1
          /\ \A k \in 0 .. 3 : ByteOf(lo, k) = m[a + k]
      BY <1>1, <2>2
    <2>4. /\ hi \in 0 .. HALF - 1
          /\ \A k \in 0 .. 3 : ByteOf(hi, k) = m[(a + 4) + k]
      <3>1. a + 4 \in Int OBVIOUS
      <3> QED BY <1>1, <2>2, <3>1
    <2> HIDE DEF x, lo, hi
    <2>5. x \in 0 .. (HALF * HALF) - 1 /\ x % HALF = lo /\ x \div HALF = hi
      BY <1>2, <2>1, <2>3, <2>4, Digit
    <2>6. x \in Int
      <3>1. HALF * HALF \in Int BY <1>2
      <3> QED BY <2>5, <3>1
    <2>7. ASSUME NEW k \in 0 .. 7 PROVE ByteOf(x, k) = m[a + k]
      <3>1. CASE k \in 0 .. 3 BY <3>1, <2>3, <2>5, <2>6, LowBytes
      <3>2. CASE k \notin 0 .. 3
        <4> DEFINE j == k - 4
        <4>1. j \in 0 .. 3 /\ j + 4 = k /\ (a + 4) + j = a + k BY <3>2
        <4> HIDE DEF j
        <4>2. ByteOf(x, j + 4) = ByteOf(hi, j) BY <2>5, <2>6, <4>1, HighBytes
        <4>3. ByteOf(hi, j) = m[(a + 4) + j] BY <2>4, <4>1
        <4> QED BY <4>1, <4>2, <4>3
      <3> QED BY <3>1, <3>2
    <2> QED BY <2>1, <2>5, <2>6, <2>7 DEF x
  <1> QED BY <1>3, <1>4

\* A number is put together of its four bytes and what is above them.
LEMMA FourDigits ==
  ASSUME NEW x \in Int, NEW b, NEW a \in Int,
         \A k \in 0 .. 3 : b[a + k] = ByteOf(x, k)
  PROVE  x = FromBytes4(b, a) + HALF * (x \div HALF)
  <1> DEFINE p2 == BYTE * BYTE
             p3 == p2 * BYTE
             q1 == x \div BYTE
             q2 == x \div p2
             q3 == x \div p3
             q4 == x \div HALF
  <1>1. BYTE \in Nat \ {0} BY Widths
  <1>2. p2 \in Nat \ {0} BY <1>1, ProductPos
  <1>3. p3 \in Nat \ {0}
    <2> HIDE DEF p2
    <2> QED BY <1>1, <1>2, ProductPos
  <1>4. HALF = p3 * BYTE BY PlaceIs
  <1>5. /\ q1 \in Int /\ q2 \in Int /\ q3 \in Int /\ q4 \in Int
    <2>1. HALF \in Nat \ {0} BY Widths
    <2> HIDE DEF p2, p3
    <2> QED BY <1>1, <1>2, <1>3, <2>1, DivMod
  <1>6. /\ b[a] = x % BYTE /\ b[a + 1] = q1 % BYTE
        /\ b[a + 2] = q2 % BYTE /\ b[a + 3] = q3 % BYTE
    <2>1. /\ b[a + 0] = ByteOf(x, 0) /\ b[a + 1] = ByteOf(x, 1)
          /\ b[a + 2] = ByteOf(x, 2) /\ b[a + 3] = ByteOf(x, 3)
      OBVIOUS
    <2>2. a + 0 = a /\ x \div 1 = x OBVIOUS
    <2> QED BY <2>1, <2>2, PlaceIs DEF ByteOf
  <1>7. q1 \div BYTE = q2 BY <1>1, DivDiv
  <1>8. q2 \div BYTE = q3
    <2> HIDE DEF p2
    <2> QED BY <1>1, <1>2, DivDiv
  <1>9. q3 \div BYTE = q4
    <2> HIDE DEF p3
    <2> QED BY <1>1, <1>3, <1>4, DivDiv
  <1>0. ASSUME NEW q \in Int
        PROVE  q = BYTE * (q \div BYTE) + (q % BYTE) /\ q % BYTE \in Int
    <2>1. q % BYTE \in 0 .. BYTE - 1 /\ q = BYTE * (q \div BYTE) + (q % BYTE)
      BY <1>1, DivMod
    <2>2. q % BYTE \in Int BY <1>1, <2>1
    <2> QED BY <2>1, <2>2
  <1>10. x = BYTE * q1 + b[a] BY <1>0, <1>6
  <1> HIDE DEF q1, q2, q3, q4, p2, p3
  <1>11. q1 = BYTE * q2 + b[a + 1] BY <1>0, <1>5, <1>6, <1>7
  <1>12. q2 = BYTE * q3 + b[a + 2] BY <1>0, <1>5, <1>6, <1>8
  <1>13. q3 = BYTE * q4 + b[a + 3] BY <1>0, <1>5, <1>6, <1>9
  <1>14. /\ b[a] \in Int /\ b[a + 1] \in Int /\ b[a + 2] \in Int
         /\ b[a + 3] \in Int /\ BYTE \in Int
    BY <1>0, <1>1, <1>5, <1>6
  <1>15. x = (b[a] + BYTE * (b[a + 1] + BYTE * (b[a + 2] + BYTE * b[a + 3])))
               + HALF * q4
    <2> DEFINE c0 == b[a]
               c1 == b[a + 1]
               c2 == b[a + 2]
               c3 == b[a + 3]
    <2>1. /\ c0 \in Int /\ c1 \in Int /\ c2 \in Int /\ c3 \in Int
          /\ x = BYTE * q1 + c0 /\ q1 = BYTE * q2 + c1
          /\ q2 = BYTE * q3 + c2 /\ q3 = BYTE * q4 + c3
      BY <1>10, <1>11, <1>12, <1>13, <1>14
    <2>2. p2 = BYTE * BYTE /\ HALF = (p2 * BYTE) * BYTE
      BY <1>4 DEF p2, p3
    <2> HIDE DEF c0, c1, c2, c3
    <2>3. BYTE * q3 = BYTE * c3 + p2 * q4 BY <1>1, <1>5, <2>1, <2>2
    <2>4. BYTE * q2 = BYTE * (c2 + BYTE * c3) + (p2 * BYTE) * q4
      BY <1>1, <1>2, <1>5, <2>1, <2>2, <2>3
    <2>5. BYTE * q1 = BYTE * (c1 + BYTE * (c2 + BYTE * c3))
                        + ((p2 * BYTE) * BYTE) * q4
      BY <1>1, <1>2, <1>5, <2>1, <2>2, <2>4
    <2> DEFINE e == BYTE * (c1 + BYTE * (c2 + BYTE * c3))
               g == HALF * q4
    <2>6. e \in Int /\ g \in Int
      <3>1. HALF \in Int BY Widths
      <3> QED BY <1>5, <1>14, <2>1, <3>1
    <2>7. BYTE * q1 = e + g BY <2>2, <2>5
    <2> HIDE DEF e, g
    <2>8. x = (c0 + e) + g BY <2>1, <2>6, <2>7
    <2> QED BY <2>8 DEF e, g, c0, c1, c2, c3
  <1> QED BY <1>15 DEF FromBytes4, q4

\* What bytes are loaded as, when they are those of a number.
LEMMA LoadStored ==
  ASSUME NEW m, NEW a \in Int, NEW sf \in BOOLEAN, NEW v \in Int,
         \A k \in 0 .. Size(sf) - 1 : m[a + k] = ByteOf(v, k)
  PROVE  Load(m, sf, a) = v % Span(sf)
  <1> DEFINE lo == FromBytes4(m, a)
             hi == FromBytes4(m, a + 4)
             q == v \div HALF
             t == q \div HALF
  <1>1. HALF \in Nat \ {0} /\ WORD \in Nat \ {0} /\ WORD = HALF * HALF
        /\ q \in Int /\ t \in Int
    BY Widths, DivMod DEF WORD
  <1>2. \A k \in 0 .. Size(sf) - 1 : m[a + k] \in Bytes
    BY ByteOfType DEF Size
  <1>3. Load(m, sf, a) \in 0 .. Span(sf) - 1 BY <1>2, LoadBytes
  <1>4. v = lo + HALF * q
    <2>1. \A k \in 0 .. 3 : m[a + k] = ByteOf(v, k) BY DEF Size
    <2> QED BY <2>1, FourDigits
  <1>5. CASE ~sf
    <2>1. Load(m, sf, a) = lo /\ Span(sf) = HALF BY <1>5 DEF Load, Span
    <2>2. lo \in 0 .. HALF - 1 BY <1>3, <2>1
    <2> HIDE DEF lo, q
    <2>3. (lo + HALF * q) % HALF = lo BY <1>1, <2>2, ModTurns
    <2> QED BY <1>4, <2>1, <2>3
  <1>6. CASE sf
    <2>1. Load(m, sf, a) = lo + HALF * hi /\ Span(sf) = WORD
      BY <1>6 DEF Load, FromBytes8, Span
    <2>2. ASSUME NEW k \in 0 .. 3 PROVE m[(a + 4) + k] = ByteOf(q, k)
      <3>1. (a + 4) + k = a + (k + 4) /\ k + 4 \in 0 .. Size(sf) - 1
        BY <1>6 DEF Size
      <3>2. ByteOf(v, k + 4) = ByteOf(q, k) BY HighBytes
      <3> QED BY <3>1, <3>2
    <2>3. q = hi + HALF * t
      <3>1. a + 4 \in Int OBVIOUS
      <3> HIDE DEF q
      <3> QED BY <1>1, <2>2, <3>1, FourDigits
    <2>4. lo \in Int /\ hi \in Int
      <3>1. \A k \in 0 .. 3 : m[a + k] \in Bytes BY <1>2 DEF Size
      <3>2. ASSUME NEW k \in 0 .. 3 PROVE m[(a + 4) + k] \in Bytes
        BY <1>1, <2>2, ByteOfType
      <3>3. lo \in 0 .. HALF - 1 BY <3>1, FourLoaded
      <3>4. hi \in 0 .. HALF - 1
        <4>1. a + 4 \in Int OBVIOUS
        <4> QED BY <3>2, <4>1, FourLoaded
      <3> QED BY <1>1, <3>3, <3>4
    <2> DEFINE x == lo + HALF * hi
    <2>5. x \in 0 .. WORD - 1 BY <1>3, <2>1
    <2>6. v = x + WORD * t
      <3> HIDE DEF lo, hi, q, t
      <3>1. HALF * q = HALF * hi + HALF * (HALF * t) BY <1>1, <2>3, <2>4
      <3>2. HALF * (HALF * t) = WORD * t BY <1>1
      <3>3. HALF * hi \in Int /\ WORD * t \in Int BY <1>1, <2>4
      <3> QED BY <1>4, <2>4, <3>1, <3>2, <3>3
    <2> HIDE DEF x, t
    <2>7. (x + WORD * t) % WORD = x BY <1>1, <2>5, ModTurns
    <2> QED BY <2>1, <2>6, <2>7 DEF x
  <1> QED BY <1>5, <1>6

\* The pointer the constructor stores is the one that is read back.
LEMMA LoggerStored == Init => LoggerIntact
  <1> SUFFICES ASSUME Init PROVE LoggerIntact OBVIOUS
  <1>1. PICK s \in UninitStack :
          mem = [a \in ObjectBytes |->
                   IF a < STACK_SIZE THEN s[a] ELSE ByteOf(LoggerPtr, a - STACK_SIZE)]
    BY DEF Init
  <1>2. STACK_SIZE \in Int /\ LoggerPtr \in 0 .. WORD - 1 /\ LoggerPtr \in Int
        /\ WORD \in Nat \ {0} /\ STACK_SIZE \in Nat
    BY StackAssumption, Widths DEF Words
  <1>3. ASSUME NEW k \in 0 .. 7 PROVE mem[STACK_SIZE + k] = ByteOf(LoggerPtr, k)
    <2>1. /\ STACK_SIZE + k \in ObjectBytes /\ ~(STACK_SIZE + k < STACK_SIZE)
          /\ (STACK_SIZE + k) - STACK_SIZE = k
      BY <1>2 DEF ObjectBytes
    <2> QED BY <1>1, <2>1
  <1>4. PICK sf \in BOOLEAN : sf OBVIOUS
  <1>5. Size(sf) = 8 /\ Span(sf) = WORD BY <1>4 DEF Size, Span
  <1>6. Load(mem, sf, STACK_SIZE) = LoggerPtr % Span(sf)
    <2>1. \A k \in 0 .. Size(sf) - 1 : mem[STACK_SIZE + k] = ByteOf(LoggerPtr, k)
      BY <1>3, <1>5
    <2>2. STACK_SIZE \in Int /\ LoggerPtr \in Int BY <1>2
    <2> QED BY <2>1, <2>2, LoadStored
  <1>7. LoggerPtr % WORD = LoggerPtr BY <1>2, ModSmall
  <1> QED BY <1>4, <1>5, <1>6, <1>7 DEF LoggerIntact, Load
=============================================================================
