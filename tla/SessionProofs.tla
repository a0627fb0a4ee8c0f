--------------------------- MODULE SessionProofs ---------------------------
(***************************************************************************)
(* Theorems about the session loop, for every program, every scale of the  *)
(* machine and every content of the uninitialised registers and stack, and *)
(* the lemmas they rest on: what an accessor of State returns and keeps,   *)
(* and that every handler keeps the State well-typed.                      *)
(***************************************************************************)
EXTENDS Session, TLAPS

(* The accessors of State.                                                 *)

\* A remainder is below its modulus.
LEMMA ModRange ==
  ASSUME NEW x \in Int, NEW n \in Nat \ {0}
  PROVE  x % n \in 0 .. n - 1 /\ x % n \in Nat
  OBVIOUS

\* A product of positive numbers is positive and not below its factors.
LEMMA ProductPos ==
  ASSUME NEW a \in Nat \ {0}, NEW b \in Nat \ {0}
  PROVE  a * b \in Nat \ {0} /\ a * b >= a /\ a * b >= b
  OBVIOUS

\* The numbers of values of a byte, a uint32_t and a uint64_t are positive.
LEMMA Widths ==
  /\ BYTE \in Nat \ {0}
  /\ HALF \in Nat \ {0}
  /\ WORD \in Nat \ {0}
  /\ HALF <= WORD
  <1>1. BYTE \in Nat \ {0} BY ByteAssumption
  <1>2. BYTE * BYTE \in Nat \ {0} BY <1>1, ProductPos
  <1>3. BYTE * BYTE * BYTE \in Nat \ {0} BY <1>1, <1>2, ProductPos
  <1>4. HALF \in Nat \ {0} BY <1>1, <1>3, ProductPos DEF HALF
  <1>5. HALF * HALF \in Nat \ {0} /\ HALF * HALF >= HALF BY <1>4, ProductPos
  <1> QED BY <1>1, <1>4, <1>5 DEF WORD

\* Replacing the low half of a word leaves a word.
LEMMA LowHalfWrite ==
  ASSUME NEW x \in Words, NEW v \in Int
  PROVE  (x - (x % HALF)) + (v % HALF) \in Words
  <1> DEFINE q == x \div HALF
             low == x % HALF
             new == v % HALF
  <1>1. HALF \in Nat \ {0} /\ WORD \in Nat \ {0} BY Widths
  <1>2. x \in Nat /\ x < HALF * HALF BY <1>1 DEF Words, WORD
  <1>3. q \in Int /\ x = HALF * q + low /\ low \in 0 .. HALF - 1
    BY <1>1, <1>2
  <1>4. new \in 0 .. HALF - 1 BY <1>1, ModRange
  <1> HIDE DEF q, low, new
  <1>5. q < HALF
    <2>1. SUFFICES ASSUME q >= HALF PROVE FALSE BY <1>1, <1>3
    <2>2. HALF * q >= HALF * HALF BY <1>1, <1>3, <2>1
    <2> QED BY <1>1, <1>2, <1>3, <2>2
  <1>6. q >= 0
    <2>1. SUFFICES ASSUME q <= -1 PROVE FALSE BY <1>3
    <2>2. HALF * q <= -HALF BY <1>1, <1>3, <2>1
    <2> QED BY <1>1, <1>2, <1>3, <2>2
  <1>7. HALF * q + HALF <= HALF * HALF /\ HALF * q >= 0
    <2>1. HALF * (q + 1) <= HALF * HALF BY <1>1, <1>3, <1>5
    <2> QED BY <1>1, <1>3, <1>6, <2>1
  <1>8. (x - low) + new \in Words
    BY <1>1, <1>3, <1>4, <1>7 DEF Words, WORD
  <1> QED BY <1>8 DEF low, new

\* A register write, at either width and of any integer, keeps the file.
LEMMA SetRType ==
  ASSUME NEW f \in [Regs -> Words], NEW sf \in BOOLEAN, NEW k \in Regs,
         NEW v \in Int
  PROVE  SetR(f, sf, k, v) \in [Regs -> Words]
  <1>1. v % WORD \in Words BY Widths, ModRange DEF Words
  <1>2. (f[k] - (f[k] % HALF)) + (v % HALF) \in Words BY LowHalfWrite
  <1> QED BY <1>1, <1>2 DEF SetR

\* Reading a register at either width.
LEMMA GetRType ==
  ASSUME NEW f \in [Regs -> Words], NEW sf \in BOOLEAN, NEW k \in Regs
  PROVE  GetR(f, sf, k) \in Nat /\ GetR(f, sf, k) < Span(sf)
  <1>1. f[k] \in Nat /\ f[k] < WORD BY Widths DEF Words
  <1>2. \A x \in Int : x % HALF \in 0 .. HALF - 1 BY Widths, ModRange
  <1>3. f[k] % HALF \in 0 .. HALF - 1 BY <1>1, <1>2
  <1> QED BY <1>1, <1>3, Widths DEF GetR, Span

\* The weight of each byte of a word is positive.
LEMMA PlaceType == \A k \in 0 .. 7 : Place[k + 1] \in Nat \ {0}
  <1>1. BYTE * BYTE \in Nat \ {0} BY Widths, ProductPos
  <1>2. BYTE * BYTE * BYTE \in Nat \ {0} BY <1>1, Widths, ProductPos
  <1>3. HALF * BYTE \in Nat \ {0} BY Widths, ProductPos
  <1>4. HALF * BYTE * BYTE \in Nat \ {0} BY <1>3, Widths, ProductPos
  <1>5. HALF * BYTE * BYTE * BYTE \in Nat \ {0} BY <1>4, Widths, ProductPos
  <1> QED BY <1>1, <1>2, <1>3, <1>4, <1>5, Widths DEF Place

\* A byte of an integer is a byte.
LEMMA ByteOfType ==
  ASSUME NEW x \in Int, NEW k \in 0 .. 7
  PROVE  ByteOf(x, k) \in Bytes
  <1> DEFINE p == Place[k + 1]
  <1>1. p \in Nat \ {0} BY PlaceType
  <1>2. x \div p \in Int BY <1>1
  <1> QED BY <1>2, Widths, ModRange DEF ByteOf, Bytes

\* A store, wherever it is, keeps the memory a memory.
LEMMA StoreType ==
  ASSUME NEW m \in [ObjectBytes -> Bytes], NEW sf \in BOOLEAN,
         NEW off \in Int, NEW v \in Int
  PROVE  Store(m, sf, off, v) \in [ObjectBytes -> Bytes]
  <1>1. ASSUME NEW a \in ObjectBytes, off <= a, a < off + Size(sf)
        PROVE  ByteOf(v, a - off) \in Bytes
    <2>1. a \in Int BY StackAssumption DEF ObjectBytes
    <2>2. a - off \in 0 .. 7 BY <1>1, <2>1 DEF Size
    <2> QED BY <2>2, ByteOfType
  <1> QED BY <1>1 DEF Store

\* A load that passed the bound check stays within the object.
LEMMA LoadType ==
  ASSUME NEW m \in [ObjectBytes -> Bytes], NEW sf \in BOOLEAN,
         NEW off \in Int, InRange(off)
  PROVE  Load(m, sf, off) \in Int
  <1>1. \A k \in 0 .. 7 : m[off + k] \in Int
    <2>1. \A k \in 0 .. 7 : off + k \in ObjectBytes
      BY StackAssumption DEF InRange, ObjectBytes
    <2> QED BY <2>1, Widths DEF Bytes
  <1>2. FromBytes4(m, off) \in Int BY <1>1, Widths DEF FromBytes4
  <1>3. FromBytes4(m, off + 4) \in Int
    <2>1. \A k \in 0 .. 3 : m[off + 4 + k] \in Int BY <1>1
    <2> QED BY <2>1, Widths DEF FromBytes4
  <1>4. FromBytes8(m, off) \in Int BY <1>2, <1>3, Widths DEF FromBytes8
  <1> QED BY <1>2, <1>4 DEF Load

\* The signed offset of an address is an integer.
LEMMA OffsetType ==
  ASSUME NEW sf \in BOOLEAN, NEW addr \in Int
  PROVE  Offset(sf, addr) \in Int
  BY Widths, ModRange DEF Offset, Signed, Neg, Span

-----------------------------------------------------------------------------
(* The handlers.                                                           *)

HandlerTypeOK == CoreTypeOK' /\ ctl' \in Ctls

\* A handler that changes nothing but ctl.
LEMMA QuietType ==
  ASSUME CoreTypeOK, Stop \/ Throw \/ Abort
  PROVE  HandlerTypeOK
  BY DEF Stop, Throw, Abort, coreVars, CoreTypeOK, HandlerTypeOK, Ctls

\* A handler that writes one integer result to rd.
LEMMA ResultType ==
  ASSUME CoreTypeOK, NEW i \in Instr, NEW v \in Int, Result(i, v)
  PROVE  HandlerTypeOK
  <1>1. i.sf \in BOOLEAN /\ i.rd \in Regs BY DEF Instr
  <1>2. r' \in [Regs -> Words] BY <1>1, SetRType DEF Result, CoreTypeOK
  <1> QED BY <1>2 DEF Result, Advance, CoreTypeOK, HandlerTypeOK, Ctls

\* The operands a handler reads: naturals, whatever the instruction.
LEMMA OperandType ==
  ASSUME CoreTypeOK, NEW i \in Instr
  PROVE  /\ Rn(i) \in Nat
         /\ Shifted(i) \in Nat
         /\ Scaled(i) \in Nat
         /\ Size(i.sf) \in {4, 8}
         /\ \A k \in Regs : OrZero(i, k) \in Nat
  <1>1. i.sf \in BOOLEAN /\ i.rn \in Regs /\ i.imm \in Nat BY DEF Instr
  <1>2. \A k \in Regs : GetR(r, i.sf, k) \in Nat BY <1>1, GetRType DEF CoreTypeOK
  <1>3. Shifted(i) \in Nat BY <1>1, FieldAssumption DEF Shifted
  <1>4. Size(i.sf) \in {4, 8} BY <1>1 DEF Size
  <1>5. Scaled(i) \in Nat BY <1>1, <1>4 DEF Scaled
  <1> QED BY <1>1, <1>2, <1>3, <1>4, <1>5 DEF Rn, OrZero

\* ADD keeps the State well-typed.
LEMMA AddImmType ==
  ASSUME CoreTypeOK, NEW i \in Instr, AddImm(i)
  PROVE  HandlerTypeOK
  BY OperandType, ResultType DEF AddImm

\* SUB keeps the State well-typed.
LEMMA SubImmType ==
  ASSUME CoreTypeOK, NEW i \in Instr, SubImm(i)
  PROVE  HandlerTypeOK
  BY OperandType, ResultType DEF SubImm

\* The four flags are Booleans, each a formula about the result.
LEMMA FlagsType ==
  ASSUME NEW n \in BOOLEAN, NEW z \in BOOLEAN, NEW c \in BOOLEAN,
         NEW v \in BOOLEAN
  PROVE  [n |-> n, z |-> z, c |-> c, v |-> v] \in Flags
  BY DEF Flags

\* The sign of a value is a Boolean.
LEMMA NegType ==
  ASSUME NEW x, NEW span
  PROVE  Neg(x, span) \in BOOLEAN
  BY DEF Neg

\* The flags ADDS computes are four Booleans.
LEMMA AddsFlagsType ==
  ASSUME NEW sf \in BOOLEAN, NEW x, NEW imm
  PROVE  AddsFlags(sf, x, imm) \in Flags
  <1> DEFINE span == Span(sf)
             res == (x + imm) % span
             z == res = 0
             c == span - 1 - imm < x
             v == IF sf THEN Neg(x, span) \/ Neg(res, span)
                  ELSE /\ Neg(x, span) = Neg(imm, span)
                       /\ Neg(res, span) # Neg(x, span)
  <1>1. z \in BOOLEAN /\ c \in BOOLEAN BY SMT
  <1>2. Neg(res, span) \in BOOLEAN /\ Neg(x, span) \in BOOLEAN BY NegType
  <1>3. v \in BOOLEAN BY <1>2, Zenon
  <1> HIDE DEF z, c, v
  <1>4. [n |-> Neg(res, span), z |-> z, c |-> c, v |-> v] \in Flags
    BY <1>1, <1>2, <1>3, FlagsType
  <1> QED BY <1>4 DEF AddsFlags, z, c, v

\* The flags SUBS computes are four Booleans.
LEMMA SubsFlagsType ==
  ASSUME NEW sf \in BOOLEAN, NEW x, NEW imm
  PROVE  SubsFlags(sf, x, imm) \in Flags
  <1> DEFINE span == Span(sf)
             res == (x - imm) % span
             z == res = 0
             c == imm <= x
             v == Neg(x, span) # Neg(imm, span) /\ Neg(res, span) # Neg(x, span)
  <1>1. z \in BOOLEAN /\ c \in BOOLEAN BY SMT
  <1>2. Neg(res, span) \in BOOLEAN BY NegType
  <1>3. v \in BOOLEAN BY Zenon
  <1> HIDE DEF z, c, v
  <1>4. [n |-> Neg(res, span), z |-> z, c |-> c, v |-> v] \in Flags
    BY <1>1, <1>2, <1>3, FlagsType
  <1> QED BY <1>4 DEF SubsFlags, z, c, v

\* ADDS keeps the State well-typed.
LEMMA AddsImmType ==
  ASSUME CoreTypeOK, NEW i \in Instr, AddsImm(i)
  PROVE  HandlerTypeOK
  <1>1. i.sf \in BOOLEAN /\ i.rd \in Regs BY DEF Instr
  <1>2. r' \in [Regs -> Words]
    BY <1>1, OperandType, SetRType DEF AddsImm, CoreTypeOK
  <1>3. nzcv' \in Flags BY <1>1, AddsFlagsType DEF AddsImm
  <1> QED BY <1>2, <1>3 DEF AddsImm, Advance, CoreTypeOK, HandlerTypeOK, Ctls

\* SUBS keeps the State well-typed.
LEMMA SubsImmType ==
  ASSUME CoreTypeOK, NEW i \in Instr, SubsImm(i)
  PROVE  HandlerTypeOK
  <1>1. i.sf \in BOOLEAN /\ i.rd \in Regs /\ i.imm \in Nat BY DEF Instr
  <1>2. r' \in [Regs -> Words]
    BY <1>1, OperandType, SetRType DEF SubsImm, CoreTypeOK
  <1>3. nzcv' \in Flags BY <1>1, SubsFlagsType DEF SubsImm
  <1> QED BY <1>2, <1>3 DEF SubsImm, Advance, CoreTypeOK, HandlerTypeOK, Ctls

\* CSINC and CSET keep the State well-typed.
LEMMA CsincType ==
  ASSUME CoreTypeOK, NEW i \in Instr, Csinc(i)
  PROVE  HandlerTypeOK
  <1>1. i.rn \in Regs /\ i.rm \in Regs BY DEF Instr
  <1>2. OrZero(i, i.rn) \in Int /\ OrZero(i, i.rm) + 1 \in Int
    BY <1>1, OperandType
  <1>3. PICK v \in Int : Result(i, v) BY <1>2 DEF Csinc
  <1> QED BY <1>3, ResultType

\* MOVZ keeps the State well-typed, whatever its undefined shift gives.
LEMMA MovzType ==
  ASSUME CoreTypeOK, NEW i \in Instr, Movz(i)
  PROVE  HandlerTypeOK
  <1>1. i.imm \in Nat /\ i.amt \in Nat BY ByteAssumption DEF Instr
  <1>2. MovzValues(i) \subseteq Int
    <2>1. CASE i.amt < 2
      <3>1. 2 * i.amt \in 0 .. 7 BY <1>1, <2>1
      <3>2. Place[2 * i.amt + 1] \in Nat BY <3>1, PlaceType
      <3> QED BY <1>1, <2>1, <3>2 DEF MovzValues
    <2>2. CASE i.amt >= 2
      <3>1. 2 * (i.amt % 2) \in 0 .. 7 BY <1>1
      <3>2. Place[2 * (i.amt % 2) + 1] \in Nat BY <3>1, PlaceType
      <3> QED BY <1>1, <2>2, <3>2 DEF MovzValues
    <2> QED BY <1>1, <2>1, <2>2
  <1>3. PICK v \in Int : Result(i, v) BY <1>2 DEF Movz
  <1> QED BY <1>3, ResultType

\* Every outcome of a shift within the width is a natural.
LEMMA ShiftType ==
  ASSUME NEW rule, NEW sf \in BOOLEAN, NEW x \in Nat,
         NEW amt \in 0 .. Bits(sf) - 1
  PROVE  ShiftValues(rule, sf, x, amt) \subseteq Int
  <1> DEFINE rest == 2 ^ (Bits(sf) - amt)
             p == 2 ^ amt
             t == 2 ^ (Bits(sf) - 1)
             u == 2 ^ (Bits(sf) - 1 - amt)
  <1>1. BYTE_BITS \in Nat \ {0} /\ Bits(sf) \in Nat \ {0} /\ Bits(sf) <= 8 * BYTE_BITS
    BY ByteAssumption DEF Bits, Size
  <1>2. \A n \in 0 .. 8 * BYTE_BITS : 2 ^ n \in Nat \ {0} BY ByteAssumption
  <1>3. rest \in Nat \ {0} /\ p \in Nat \ {0} /\ t \in Nat \ {0} /\ u \in Nat \ {0}
    <2>1. /\ Bits(sf) - amt \in 0 .. 8 * BYTE_BITS
          /\ amt \in 0 .. 8 * BYTE_BITS
          /\ Bits(sf) - 1 \in 0 .. 8 * BYTE_BITS
          /\ Bits(sf) - 1 - amt \in 0 .. 8 * BYTE_BITS
      BY <1>1
    <2> QED BY <1>2, <2>1
  <1>4. Span(sf) \in Nat \ {0} BY Widths DEF Span
  <1> HIDE DEF rest, p, t, u
  <1>5. /\ x % rest \in Nat /\ x % p \in Nat
        /\ x \div p \in Int /\ (x - t) \div p \in Int
    BY <1>3
  <1>6. /\ (x % rest) * p \in Int
        /\ (x % p) * rest + x \div p \in Int
        /\ (x - t) \div p + (Span(sf) - u) \in Int
    BY <1>3, <1>4, <1>5
  <1> QED BY <1>4, <1>5, <1>6 DEF ShiftValues, rest, p, t, u

\* The union of the bits of two words is an integer.
LEMMA BitOrType ==
  ASSUME NEW x \in Int, NEW y \in Int
  PROVE  BitOr(x, y) \in Int
  <1> DEFINE b == [k \in 0 .. 7 |-> OrByte[<<ByteOf(x, k), ByteOf(y, k)>>]]
  <1>1. ASSUME NEW k \in 0 .. 7
        PROVE  OrByte[<<ByteOf(x, k), ByteOf(y, k)>>] \in Int
    <2>1. ByteOf(x, k) \in Bytes /\ ByteOf(y, k) \in Bytes BY ByteOfType
    <2>2. OrByte[<<ByteOf(x, k), ByteOf(y, k)>>] \in Bytes
      BY <2>1, OrAssumption
    <2> QED BY <2>2, Widths DEF Bytes
  <1>2. \A k \in 0 .. 7 : b[k] \in Int BY <1>1
  <1> HIDE DEF b
  <1>3. FromBytes8(b, 0) \in Int
    BY <1>2, Widths DEF FromBytes8, FromBytes4
  <1> QED BY <1>3 DEF BitOr, b

\* ORR keeps the State well-typed.
LEMMA OrrShType ==
  ASSUME CoreTypeOK, NEW i \in Instr, OrrSh(i)
  PROVE  HandlerTypeOK
  <1>1. CASE Abort BY <1>1, QuietType
  <1>2. CASE /\ i.amt < Bits(i.sf)
             /\ \E v \in ShiftValues(i.rule, i.sf, GetR(r, i.sf, i.rm), i.amt) :
                  Result(i, IF i.rn = 31 THEN v ELSE BitOr(Rn(i), v))
    <2>1. i.sf \in BOOLEAN /\ i.rm \in Regs /\ i.amt \in Nat
      BY ByteAssumption DEF Instr
    <2>2. GetR(r, i.sf, i.rm) \in Nat BY <2>1, GetRType DEF CoreTypeOK
    <2>3. Bits(i.sf) \in Nat BY <2>1, ByteAssumption DEF Bits, Size
    <2>4. i.amt \in 0 .. Bits(i.sf) - 1 BY <1>2, <2>1, <2>3
    <2>5. PICK v \in Int : Result(i, IF i.rn = 31 THEN v ELSE BitOr(Rn(i), v))
      BY <1>2, <2>1, <2>2, <2>4, ShiftType
    <2>6. (IF i.rn = 31 THEN v ELSE BitOr(Rn(i), v)) \in Int
      BY OperandType, BitOrType
    <2> QED BY <2>5, <2>6, ResultType
  <1> QED BY <1>1, <1>2 DEF OrrSh

\* ADRP keeps the State well-typed.
LEMMA AdrpType ==
  ASSUME CoreTypeOK, NEW i \in Instr, Adrp(i)
  PROVE  HandlerTypeOK
  <1>1. i.rd \in Regs /\ PAGE \in Nat \ {0} /\ pc \in Int
    BY FieldAssumption, Widths DEF Instr, CoreTypeOK, Words
  <1>2. pc - (pc % PAGE) + (IF i.imm = 0 THEN 0 ELSE 1) * PAGE \in Int BY <1>1
  <1>3. r' \in [Regs -> Words] BY <1>1, <1>2, SetRType DEF Adrp, CoreTypeOK
  <1> QED BY <1>3 DEF Adrp, Advance, CoreTypeOK, HandlerTypeOK, Ctls

-----------------------------------------------------------------------------
\* A branch leaves pc within 64 bits.
LEMMA JumpType ==
  ASSUME NEW target \in Int, Jump(target)
  PROVE  pc' \in Words
  BY Widths, ModRange DEF Jump, Words

\* The signed reading of an immediate field.
LEMMA SignedFieldType ==
  ASSUME NEW imm \in Nat, NEW span \in Nat \ {0}
  PROVE  Signed(imm % span, span) \in Int
  BY ModRange DEF Signed, Neg

\* The target of B and BL is an integer.
LEMMA BranchTargetType ==
  ASSUME CoreTypeOK, NEW i \in Instr
  PROVE  pc + Signed(i.imm % IMM26, IMM26) \in Int
  <1>1. i.imm \in Nat /\ IMM26 \in Nat \ {0} BY FieldAssumption DEF Instr
  <1>2. pc \in Int BY Widths DEF CoreTypeOK, Words
  <1> QED BY <1>1, <1>2, SignedFieldType

\* B keeps the State well-typed.
LEMMA BType ==
  ASSUME CoreTypeOK, NEW i \in Instr, B(i)
  PROVE  HandlerTypeOK
  <1>1. pc' \in Words BY BranchTargetType, JumpType DEF B
  <1> QED BY <1>1 DEF B, Advance, CoreTypeOK, HandlerTypeOK, Ctls

\* BL keeps the State well-typed.
LEMMA BlType ==
  ASSUME CoreTypeOK, NEW i \in Instr, Bl(i)
  PROVE  HandlerTypeOK
  <1>1. pc' \in Words BY BranchTargetType, JumpType DEF Bl
  <1>2. pc + 1 \in Int /\ LR \in Regs
    BY Widths, RegsAssumption DEF CoreTypeOK, Words
  <1>3. r' \in [Regs -> Words] BY <1>2, SetRType DEF Bl, CoreTypeOK
  <1> QED BY <1>1, <1>3 DEF Bl, Advance, CoreTypeOK, HandlerTypeOK, Ctls

\* RET keeps the State well-typed.
LEMMA RetType ==
  ASSUME CoreTypeOK, NEW i \in Instr, Ret(i)
  PROVE  HandlerTypeOK
  <1>1. CASE Stop BY <1>1, QuietType
  <1>2. CASE /\ Jump(r[i.rn])
             /\ r' = SetR(r, TRUE, i.rn, 0)
             /\ Advance
             /\ UNCHANGED <<nzcv, mem>>
    <2>1. i.rn \in Regs BY DEF Instr
    <2>2. r[i.rn] \in Int BY <2>1, Widths DEF CoreTypeOK, Words
    <2>3. pc' \in Words BY <1>2, <2>2, JumpType
    <2>4. r \in [Regs -> Words] BY DEF CoreTypeOK
    <2>5. ASSUME NEW v \in Int PROVE SetR(r, TRUE, i.rn, v) \in [Regs -> Words]
      BY <2>1, <2>4, SetRType
    <2>6. 0 \in Int OBVIOUS
    <2>7. SetR(r, TRUE, i.rn, 0) \in [Regs -> Words] BY <2>5, <2>6, Zenon
    <2> QED BY <1>2, <2>3, <2>7 DEF Advance, CoreTypeOK, HandlerTypeOK, Ctls
  <1> QED BY <1>1, <1>2 DEF Ret

\* TBNZ keeps the State well-typed.
LEMMA TbnzType ==
  ASSUME CoreTypeOK, NEW i \in Instr, Tbnz(i)
  PROVE  HandlerTypeOK
  <1>1. i.imm \in Nat BY DEF Instr
  <1>2. pc + i.imm \in Int BY <1>1, Widths DEF CoreTypeOK, Words
  <1>3. pc' \in Words BY <1>2, JumpType DEF Tbnz, CoreTypeOK
  <1> QED BY <1>3 DEF Tbnz, Advance, CoreTypeOK, HandlerTypeOK, Ctls

-----------------------------------------------------------------------------
\* A handler that stores and may write a base register back.
LEMMA StoringType ==
  ASSUME CoreTypeOK, mem' \in [ObjectBytes -> Bytes], r' \in [Regs -> Words],
         Advance, UNCHANGED <<pc, nzcv>>
  PROVE  HandlerTypeOK
  BY DEF Advance, CoreTypeOK, HandlerTypeOK, Ctls

\* A handler that loads into registers.
LEMMA LoadingType ==
  ASSUME CoreTypeOK, r' \in [Regs -> Words],
         Advance, UNCHANGED <<pc, nzcv, mem>>
  PROVE  HandlerTypeOK
  BY DEF Advance, CoreTypeOK, HandlerTypeOK, Ctls

\* Incrementing a base keeps the register file well-typed.
LEMMA BumpType ==
  ASSUME NEW f \in [Regs -> Words], NEW i \in Instr, NEW step \in Nat
  PROVE  Bump(f, i, step) \in [Regs -> Words]
  <1>1. i.sf \in BOOLEAN /\ i.rn \in Regs BY DEF Instr
  <1>2. GetR(f, i.sf, i.rn) + step \in Int BY <1>1, GetRType
  <1> QED BY <1>1, <1>2, SetRType DEF Bump

\* STUR keeps the State well-typed.
LEMMA SturType ==
  ASSUME CoreTypeOK, NEW i \in Instr, Stur(i)
  PROVE  HandlerTypeOK
  <1> DEFINE addr == Rn(i) + Signed(i.imm % IMM9, IMM9)
  <1>1. i.sf \in BOOLEAN /\ i.rd \in Regs /\ i.imm \in Nat BY DEF Instr
  <1>2. IMM9 \in Nat \ {0} BY FieldAssumption
  <1>3. addr \in Int BY <1>1, <1>2, OperandType, SignedFieldType
  <1>4. Offset(i.sf, addr) \in Int BY <1>1, <1>3, OffsetType
  <1>5. Store(mem, i.sf, Offset(i.sf, addr), OrZero(i, i.rd))
          \in [ObjectBytes -> Bytes]
    BY <1>1, <1>4, OperandType, StoreType DEF CoreTypeOK
  <1>6. CASE Stop \/ Throw BY <1>6, QuietType
  <1>7. CASE /\ mem' = Store(mem, i.sf, Offset(i.sf, addr), OrZero(i, i.rd))
             /\ Advance
             /\ UNCHANGED <<r, pc, nzcv>>
    BY <1>5, <1>7, StoringType DEF CoreTypeOK
  <1> QED BY <1>6, <1>7 DEF Stur

\* STR keeps the State well-typed.
LEMMA StrImmType ==
  ASSUME CoreTypeOK, NEW i \in Instr, StrImm(i)
  PROVE  HandlerTypeOK
  <1> DEFINE step == IF i.mode = "offset" THEN Scaled(i) ELSE i.imm
             off == Offset(i.sf, Rn(i) + step)
  <1>1. /\ i.sf \in BOOLEAN /\ i.rd \in Regs /\ i.rn \in Regs
        /\ i.imm \in Nat
    BY DEF Instr
  <1>2. Rn(i) + step \in Int BY <1>1, OperandType
  <1>3. off \in Int BY <1>1, <1>2, OffsetType
  <1> HIDE DEF step, off
  <1>4. CASE Stop \/ Throw BY <1>4, QuietType
  <1>5. CASE /\ mem' = Store(mem, i.sf, off, OrZero(i, i.rd))
             /\ r' = IF i.mode = "pre" /\ ~i.sf
                     THEN SetR(r, FALSE, i.rn, Rn(i) + step) ELSE r
             /\ Advance
             /\ UNCHANGED <<pc, nzcv>>
    <2>1. mem' \in [ObjectBytes -> Bytes]
      BY <1>1, <1>3, <1>5, OperandType, StoreType DEF CoreTypeOK
    <2>2. SetR(r, FALSE, i.rn, Rn(i) + step) \in [Regs -> Words]
      BY <1>1, <1>2, SetRType DEF CoreTypeOK
    <2>3. r' \in [Regs -> Words] BY <1>5, <2>2 DEF CoreTypeOK
    <2> QED BY <1>5, <2>1, <2>3, StoringType
  <1> QED BY <1>4, <1>5 DEF StrImm, step, off

\* LDR keeps the State well-typed.
LEMMA LdrImmType ==
  ASSUME CoreTypeOK, NEW i \in Instr, LdrImm(i)
  PROVE  HandlerTypeOK
  <1> DEFINE step == IF i.mode = "offset" THEN Scaled(i) ELSE i.imm
             off == Offset(i.sf, Rn(i) + step)
             loaded == SetR(r, i.sf, i.rd, Load(mem, i.sf, off))
  <1>1. i.sf \in BOOLEAN /\ i.rd \in Regs /\ i.imm \in Nat BY DEF Instr
  <1>2. step \in Nat BY <1>1, OperandType
  <1>3. Rn(i) + step \in Int BY <1>2, OperandType
  <1>4. off \in Int BY <1>1, <1>3, OffsetType
  <1> HIDE DEF step, off
  <1>5. CASE Stop \/ Throw BY <1>5, QuietType
  <1>6. CASE /\ InRange(off)
             /\ r' = IF i.mode = "pre" THEN Bump(loaded, i, step) ELSE loaded
             /\ Advance
             /\ UNCHANGED <<pc, nzcv, mem>>
    <2>1. Load(mem, i.sf, off) \in Int
      BY <1>1, <1>4, <1>6, LoadType DEF CoreTypeOK
    <2>2. loaded \in [Regs -> Words] BY <1>1, <2>1, SetRType DEF CoreTypeOK
    <2> HIDE DEF loaded
    <2>3. Bump(loaded, i, step) \in [Regs -> Words] BY <1>2, <2>2, BumpType
    <2>4. r' \in [Regs -> Words] BY <1>6, <2>2, <2>3
    <2> QED BY <1>6, <2>4, LoadingType
  <1> QED BY <1>5, <1>6 DEF LdrImm, step, off

\* The two addresses of a pair.
LEMMA PairOffsetType ==
  ASSUME CoreTypeOK, NEW i \in Instr
  PROVE  /\ Offset(i.sf, Rn(i) + Scaled(i)) \in Int
         /\ Offset(i.sf, Rn(i) + Scaled(i) + Size(i.sf)) \in Int
  <1>1. i.sf \in BOOLEAN BY DEF Instr
  <1>2. /\ Rn(i) + Scaled(i) \in Int
        /\ Rn(i) + Scaled(i) + Size(i.sf) \in Int
    BY OperandType
  <1> QED BY <1>1, <1>2, OffsetType

\* STP keeps the State well-typed.
LEMMA StpType ==
  ASSUME CoreTypeOK, NEW i \in Instr, Stp(i)
  PROVE  HandlerTypeOK
  <1> DEFINE off1 == Offset(i.sf, Rn(i) + Scaled(i))
             off2 == Offset(i.sf, Rn(i) + Scaled(i) + Size(i.sf))
             first == Store(mem, i.sf, off1, OrZero(i, i.rd))
  <1>1. i.sf \in BOOLEAN /\ i.rd \in Regs /\ i.rm \in Regs BY DEF Instr
  <1>2. off1 \in Int /\ off2 \in Int BY PairOffsetType
  <1> HIDE DEF off1, off2
  <1>3. CASE Throw BY <1>3, QuietType
  <1>4. CASE /\ mem' = Store(first, i.sf, off2, OrZero(i, i.rm))
             /\ r' = IF i.mode = "offset" THEN r ELSE Bump(r, i, Scaled(i))
             /\ Advance
             /\ UNCHANGED <<pc, nzcv>>
    <2>0. /\ OrZero(i, i.rd) \in Int /\ OrZero(i, i.rm) \in Int
          /\ mem \in [ObjectBytes -> Bytes]
      BY <1>1, OperandType DEF CoreTypeOK
    <2>1. first \in [ObjectBytes -> Bytes] BY <1>1, <1>2, <2>0, StoreType
    <2> HIDE DEF first
    <2>2. mem' \in [ObjectBytes -> Bytes]
      BY <1>1, <1>2, <1>4, <2>0, <2>1, StoreType
    <2>3. Bump(r, i, Scaled(i)) \in [Regs -> Words]
      BY OperandType, BumpType DEF CoreTypeOK
    <2>4. r' \in [Regs -> Words] BY <1>4, <2>3 DEF CoreTypeOK
    <2> QED BY <1>4, <2>2, <2>4, StoringType
  <1> QED BY <1>3, <1>4 DEF Stp, off1, off2

\* LDP keeps the State well-typed, in whatever order it writes.
LEMMA LdpType ==
  ASSUME CoreTypeOK, NEW i \in Instr, Ldp(i)
  PROVE  HandlerTypeOK
  <1> DEFINE off1 == Offset(i.sf, Rn(i) + Scaled(i))
             off2 == Offset(i.sf, Rn(i) + Scaled(i) + Size(i.sf))
             v1 == Load(mem, i.sf, off1)
             v2 == Load(mem, i.sf, off2)
             Pair(f) == SetR(SetR(f, i.sf, i.rd, v1), i.sf, i.rm, v2)
  <1>1. /\ i.sf \in BOOLEAN /\ i.rd \in Regs /\ i.rm \in Regs
        /\ i.mode \in {"offset", "pre", "post"}
    BY DEF Instr
  <1>2. off1 \in Int /\ off2 \in Int BY PairOffsetType
  <1>3. CASE Throw BY <1>3, QuietType
  <1>4. CASE /\ InRange(off1) /\ InRange(off2)
             /\ r' = CASE i.mode = "offset" -> Pair(r)
                       [] i.mode = "pre" -> Pair(Bump(r, i, Scaled(i)))
                       [] i.mode = "post" -> Bump(Pair(r), i, Scaled(i))
             /\ Advance
             /\ UNCHANGED <<pc, nzcv, mem>>
    <2>1. v1 \in Int /\ v2 \in Int
      BY <1>1, <1>2, <1>4, LoadType DEF CoreTypeOK
    <2> HIDE DEF v1, v2
    <2>2. ASSUME NEW f \in [Regs -> Words]
          PROVE  Pair(f) \in [Regs -> Words]
      <3>1. SetR(f, i.sf, i.rd, v1) \in [Regs -> Words]
        BY <1>1, <2>1, SetRType
      <3> QED BY <1>1, <2>1, <3>1, SetRType
    <2>3. Scaled(i) \in Nat /\ r \in [Regs -> Words]
      BY OperandType DEF CoreTypeOK
    <2> HIDE DEF Pair
    <2>4. /\ Pair(r) \in [Regs -> Words]
          /\ Pair(Bump(r, i, Scaled(i))) \in [Regs -> Words]
          /\ Bump(Pair(r), i, Scaled(i)) \in [Regs -> Words]
      BY <2>2, <2>3, BumpType
    <2>5. r' \in [Regs -> Words] BY <1>1, <1>4, <2>4
    <2> QED BY <1>4, <2>5, LoadingType
  <1> QED BY <1>3, <1>4 DEF Ldp

-----------------------------------------------------------------------------
(* The loop.                                                               *)

\* What is fetched from the mapped text is an instruction.
LEMMA FetchedInstr ==
  ASSUME TypeOK, pc \in DOMAIN text
  PROVE  text[pc] \in Instr
  BY ProgramsAssumption DEF TypeOK, Texts

\* Whatever handler the decision tree reaches keeps the State well-typed.
LEMMA ExecuteType ==
  ASSUME TypeOK, Execute
  PROVE  HandlerTypeOK
  <1> USE DEF Fetched
  <1>0. CoreTypeOK /\ (pc \in DOMAIN text => text[pc] \in Instr)
    BY FetchedInstr DEF TypeOK
  <1>1. CASE Fetched("AddImm") /\ AddImm(text[pc]) BY <1>0, <1>1, AddImmType
  <1>2. CASE Fetched("AddsImm") /\ AddsImm(text[pc]) BY <1>0, <1>2, AddsImmType
  <1>3. CASE Fetched("SubImm") /\ SubImm(text[pc]) BY <1>0, <1>3, SubImmType
  <1>4. CASE Fetched("SubsImm") /\ SubsImm(text[pc]) BY <1>0, <1>4, SubsImmType
  <1>5. CASE Fetched("OrrSh") /\ OrrSh(text[pc]) BY <1>0, <1>5, OrrShType
  <1>6. CASE Fetched("Movz") /\ Movz(text[pc]) BY <1>0, <1>6, MovzType
  <1>7. CASE Fetched("Adrp") /\ Adrp(text[pc]) BY <1>0, <1>7, AdrpType
  <1>8. CASE Fetched("Csinc") /\ Csinc(text[pc]) BY <1>0, <1>8, CsincType
  <1>9. CASE Fetched("B") /\ B(text[pc]) BY <1>0, <1>9, BType
  <1>10. CASE Fetched("Bl") /\ Bl(text[pc]) BY <1>0, <1>10, BlType
  <1>11. CASE Fetched("Ret") /\ Ret(text[pc]) BY <1>0, <1>11, RetType
  <1>12. CASE Fetched("Tbnz") /\ Tbnz(text[pc]) BY <1>0, <1>12, TbnzType
  <1>13. CASE Fetched("StrImm") /\ StrImm(text[pc]) BY <1>0, <1>13, StrImmType
  <1>14. CASE Fetched("LdrImm") /\ LdrImm(text[pc]) BY <1>0, <1>14, LdrImmType
  <1>15. CASE Fetched("Stur") /\ Stur(text[pc]) BY <1>0, <1>15, SturType
  <1>16. CASE Fetched("Stp") /\ Stp(text[pc]) BY <1>0, <1>16, StpType
  <1>17. CASE Fetched("Ldp") /\ Ldp(text[pc]) BY <1>0, <1>17, LdpType
  <1>18. CASE Fetched("Other") /\ Unsupported
    BY <1>0, <1>18, QuietType DEF Unsupported
  <1> QED BY <1>1, <1>2, <1>3, <1>4, <1>5, <1>6, <1>7, <1>8, <1>9, <1>10,
             <1>11, <1>12, <1>13, <1>14, <1>15, <1>16, <1>17, <1>18 DEF Execute

\* The constructor of Session leaves a well-typed State.
LEMMA InitType == Init => TypeOK
  <1> SUFFICES ASSUME Init PROVE TypeOK OBVIOUS
  <1>1. PICK p \in Programs : text = p.text /\ pc = p.entry BY DEF Init
  <1>2. pc \in Words BY <1>1, ProgramsAssumption
  <1>3. PICK f \in UninitRegs : r = [f EXCEPT ![SP] = STACK_SIZE - 1]
    BY DEF Init
  <1>4. STACK_SIZE - 1 \in Words
    BY StackAssumption, Widths DEF Words
  <1>5. r \in [Regs -> Words]
    BY <1>3, <1>4, UninitAssumption, RegsAssumption
  <1>6. PICK s \in UninitStack :
          mem = [a \in ObjectBytes |->
                   IF a < STACK_SIZE THEN s[a]
                   ELSE ByteOf(LoggerPtr, a - STACK_SIZE)]
    BY DEF Init
  <1>7. LoggerPtr \in Int BY StackAssumption, Widths DEF Words
  <1>8. ASSUME NEW a \in ObjectBytes
        PROVE  (IF a < STACK_SIZE THEN s[a]
                ELSE ByteOf(LoggerPtr, a - STACK_SIZE)) \in Bytes
    <2>1. CASE a < STACK_SIZE
      <3>1. a \in 0 .. STACK_SIZE - 1
        BY <2>1, StackAssumption DEF ObjectBytes
      <3> QED BY <2>1, <3>1, UninitAssumption
    <2>2. CASE ~(a < STACK_SIZE)
      <3>1. a - STACK_SIZE \in 0 .. 7
        BY <2>2, StackAssumption DEF ObjectBytes
      <3>2. ByteOf(LoggerPtr, a - STACK_SIZE) \in Bytes
        BY <3>1, <1>7, ByteOfType
      <3> QED BY <2>2, <3>2
    <2> QED BY <2>1, <2>2
  <1>9. mem \in [ObjectBytes -> Bytes] BY <1>6, <1>8
  <1>10. nzcv \in Flags BY DEF Init, Flags
  <1> QED BY <1>1, <1>2, <1>5, <1>9, <1>10 DEF Init, TypeOK, Texts, CoreTypeOK, Ctls

\* Every step of the loop keeps TypeOK: it is inductive as it stands.
LEMMA StepType == TypeOK /\ [Next]_vars => TypeOK'
  <1> SUFFICES ASSUME TypeOK, [Next]_vars PROVE TypeOK' OBVIOUS
  <1>1. CASE Execute /\ UNCHANGED text
    BY <1>1, ExecuteType DEF TypeOK, HandlerTypeOK
  <1>2. CASE AdvancePc /\ UNCHANGED text
    <2>1. pc' \in Words
      BY <1>2, Widths, ModRange DEF AdvancePc, TypeOK, CoreTypeOK, Words
    <2> QED BY <1>2, <2>1 DEF AdvancePc, TypeOK, CoreTypeOK, Ctls
  <1>3. CASE LoggerFault /\ UNCHANGED text
    BY <1>3 DEF LoggerFault, coreVars, TypeOK, CoreTypeOK, Ctls
  <1>4. CASE WildFetch /\ UNCHANGED text
    BY <1>4 DEF WildFetch, coreVars, TypeOK, CoreTypeOK, Ctls
  <1>5. CASE Ended /\ UNCHANGED text
    BY <1>5 DEF Ended, TypeOK, CoreTypeOK
  <1>6. CASE UNCHANGED vars
    BY <1>6 DEF vars, TypeOK, CoreTypeOK
  <1>7. CASE BranchFault /\ UNCHANGED text
    <2>1. TypeOK /\ CoreTypeOK BY DEF TypeOK
    <2>2. pc + 1 \in Int /\ LR \in Regs
      BY <2>1, Widths, RegsAssumption DEF CoreTypeOK, Words
    <2>3. r' \in [Regs -> Words]
      BY <1>7, <2>1, <2>2, SetRType DEF BranchFault, CoreTypeOK
    <2> QED BY <1>7, <2>1, <2>3 DEF BranchFault, TypeOK, CoreTypeOK, Ctls
  <1> QED BY <1>1, <1>2, <1>3, <1>4, <1>5, <1>6, <1>7 DEF Next

(* Whatever the program does, registers and pc stay within 64 bits, the    *)
(* bytes of the stack within a byte, and the loop in one of its states.    *)
THEOREM TypeCorrect == Spec => []TypeOK
  <1>1. Init => TypeOK BY InitType
  <1>2. TypeOK /\ [Next]_vars => TypeOK' BY StepType
  <1> QED BY <1>1, <1>2, PTL DEF Spec
=============================================================================
