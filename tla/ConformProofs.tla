--------------------------- MODULE ConformProofs ---------------------------
(***************************************************************************)
(* The session implements Arm: every instruction outside Arm!Departs does  *)
(* what the architecture says, at every scale of the machine.              *)
(***************************************************************************)
EXTENDS Conform, MemoryProofs

-----------------------------------------------------------------------------
(* Arm's copies of the operators of Machine are those of the session.      *)

\* Widths.
LEMMA SameWidths ==
  /\ Architecture!HALF = HALF /\ Architecture!WORD = WORD
  /\ \A sf : /\ Architecture!Span(sf) = Span(sf)
             /\ Architecture!Size(sf) = Size(sf)
             /\ Architecture!Bits(sf) = Bits(sf)
  <1>1. Architecture!HALF = HALF BY DEF Architecture!HALF, HALF
  <1>2. Architecture!WORD = WORD BY <1>1 DEF Architecture!WORD, WORD
  <1>3. \A sf : Architecture!Span(sf) = Span(sf)
    BY <1>1, <1>2 DEF Architecture!Span, Span
  <1>4. \A sf : Architecture!Size(sf) = Size(sf) BY DEF Architecture!Size, Size
  <1>5. \A sf : Architecture!Bits(sf) = Bits(sf)
    BY <1>4 DEF Architecture!Bits, Bits
  <1> QED BY <1>1, <1>2, <1>3, <1>4, <1>5

\* Signs.
LEMMA SameSigns ==
  \A x, span : /\ Architecture!Neg(x, span) <=> Neg(x, span)
               /\ Architecture!Signed(x, span) = Signed(x, span)
  <1>1. \A x, span : Architecture!Neg(x, span) <=> Neg(x, span)
    BY DEF Architecture!Neg, Neg
  <1> QED BY <1>1 DEF Architecture!Signed, Signed

\* Bytes of a word.
LEMMA SameBytes ==
  /\ Architecture!Place = Place
  /\ \A x, k : Architecture!ByteOf(x, k) = ByteOf(x, k)
  <1>1. Architecture!Place = Place
    BY SameWidths DEF Architecture!Place, Place
  <1> QED BY <1>1 DEF Architecture!ByteOf, ByteOf

\* Values, and the addresses of the stack and what is behind it.
LEMMA SameSets ==
  /\ Architecture!Words = Words /\ Architecture!Bytes = Bytes
  /\ Architecture!ObjectBytes = ObjectBytes
  /\ Architecture!Instr = Instr
  /\ Architecture!SP = SP /\ Architecture!LR = LR
  <1>1. Architecture!Mnemonics = Mnemonics
    BY DEF Architecture!Mnemonics, Mnemonics
  <1>2. Architecture!Instr = Instr BY <1>1 DEF Architecture!Instr, Instr
  <1>3. Architecture!Words = Words
    BY SameWidths DEF Architecture!Words, Words
  <1> QED
    BY <1>2, <1>3
       DEF Architecture!Bytes, Bytes, Architecture!ObjectBytes, ObjectBytes,
           Architecture!SP, SP, Architecture!LR, LR

-----------------------------------------------------------------------------
(* What an instruction starts from, and how it ends.                       *)

\* The session is about to run an instruction that does not depart.
Ready(i) ==
  /\ CoreTypeOK /\ ctl = "fetch"
  /\ i \in Instr /\ Encodable(i) /\ ~Architecture!Departs(i)
  /\ pc \in DOMAIN text /\ text[pc] = i /\ text' = text
  /\ LoggerIntact

\* Its handler does not reach the logger either, as NoOverrun shows.
Stepping(i) == Ready(i) /\ LoggerIntact'

\* The two register views are Arm's.
LEMMA ArmReg ==
  ASSUME CoreTypeOK, NEW i \in Instr, NEW k \in Regs
  PROVE  /\ Architecture!Reg(i, k) = GetR(r, i.sf, k)
         /\ Architecture!ZReg(i, k) = OrZero(i, k)
         /\ GetR(r, i.sf, k) \in 0 .. Span(i.sf) - 1
         /\ OrZero(i, k) \in 0 .. Span(i.sf) - 1
         /\ GetR(r, i.sf, k) = r[k] % Span(i.sf)
  <1>1. r[k] \in 0 .. WORD - 1 BY DEF CoreTypeOK, Words
  <1>2. WORD \in Nat \ {0} /\ HALF \in Nat \ {0} /\ HALF <= WORD BY Widths
  <1>3. r[k] % WORD = r[k] BY <1>1, <1>2, ModSmall
  <1>4. r[k] % HALF \in 0 .. HALF - 1
    <2>1. r[k] \in Int BY <1>1
    <2> QED BY <1>2, <2>1, DivMod
  <1>5. Architecture!Reg(i, k) = r[k] % Span(i.sf)
    BY SameWidths DEF Architecture!Reg
  <1>6. GetR(r, i.sf, k) = r[k] % Span(i.sf) BY <1>3 DEF GetR, Span
  <1>7. GetR(r, i.sf, k) \in 0 .. Span(i.sf) - 1
    BY <1>1, <1>4 DEF GetR, Span
  <1>8. Architecture!ZReg(i, k) = OrZero(i, k)
    BY <1>5, <1>6 DEF Architecture!ZReg, OrZero
  <1>9. 0 \in 0 .. Span(i.sf) - 1 BY <1>2 DEF Span
  <1>10. OrZero(i, k) \in 0 .. Span(i.sf) - 1 BY <1>7, <1>9 DEF OrZero
  <1> QED BY <1>5, <1>6, <1>7, <1>8, <1>10

\* A handler that has returned true has arrived where advance_pc will be.
LEMMA Arrives ==
  ASSUME NEW i, Stepping(i), Advance, NEW target \in Int,
         (pc' + 1) % WORD = target % WORD
  PROVE  Architecture!GoesTo(target)
  <1>1. at' = target % WORD BY DEF at, Advance
  <1>2. status = "running" BY DEF Stepping, Ready, status
  <1>3. status' = "running" BY DEF Stepping, Ready, status, Advance
  <1> QED BY <1>1, <1>2, <1>3, SameWidths DEF Architecture!GoesTo

\* One that leaves the pc alone has arrived at the next instruction.
LEMMA ArrivesNext ==
  ASSUME NEW i, Stepping(i), Advance, UNCHANGED pc
  PROVE  Architecture!GoesOn
  <1>1. pc + 1 \in Int BY Widths DEF Stepping, Ready, CoreTypeOK, Words
  <1>2. at = pc BY DEF at, Stepping, Ready
  <1> QED BY <1>1, <1>2, Arrives DEF Architecture!GoesOn

\* One that has ended the session has failed, unless it is a RET.
LEMMA FailsThere ==
  ASSUME NEW i, Stepping(i), Stop \/ Throw, i.op # "Ret"
  PROVE  Architecture!Fails
  <1>1. ctl' \in {"stopped", "threw"} /\ UNCHANGED coreVars
    BY DEF Stop, Throw
  <1>2. at = pc /\ at' = pc BY <1>1 DEF at, Stepping, Ready, coreVars
  <1>3. text'[pc'].op # "Ret" BY <1>1 DEF Stepping, Ready, coreVars
  <1>4. status' = "failed" BY <1>1, <1>3 DEF Stepping, Ready, status
  <1> QED BY <1>1, <1>2, <1>4 DEF Architecture!Fails, Architecture!data, coreVars

-----------------------------------------------------------------------------
(* Results in registers.                                                   *)

\* A value written through a view is read through it again, and no other
\* register has changed.
LEMMA SetRGives ==
  ASSUME NEW f \in [Regs -> Words], NEW sf \in BOOLEAN, NEW k \in Regs,
         NEW v \in Int
  PROVE  /\ SetR(f, sf, k, v)[k] % Span(sf) = v % Span(sf)
         /\ \A j \in Regs \ {k} : SetR(f, sf, k, v)[j] = f[j]
  <1>1. WORD \in Nat \ {0} /\ HALF \in Nat \ {0} BY Widths
  <1>2. \A j \in Regs \ {k} : SetR(f, sf, k, v)[j] = f[j] BY DEF SetR
  <1>3. CASE sf
    <2>1. SetR(f, sf, k, v)[k] = v % WORD BY <1>3 DEF SetR
    <2>2. v % WORD \in 0 .. WORD - 1 BY <1>1, DivMod
    <2>3. (v % WORD) % WORD = v % WORD BY <1>1, <2>2, ModSmall
    <2> QED BY <1>2, <1>3, <2>1, <2>3 DEF Span
  <1>4. CASE ~sf
    <2> DEFINE x == f[k]
               q == x \div HALF
               m == v % HALF
    <2>1. SetR(f, sf, k, v)[k] = (x - (x % HALF)) + m BY <1>4 DEF SetR
    <2>2. m \in 0 .. HALF - 1 BY <1>1, DivMod
    <2>3. x \in Int BY Widths DEF Words
    <2>4. q \in Int /\ x % HALF \in Int /\ x = HALF * q + (x % HALF)
      <3> HIDE DEF x
      <3> QED BY <1>1, <2>3, DivMod
    <2> HIDE DEF q, x, m
    <2>5. (x - (x % HALF)) + m = m + HALF * q BY <1>1, <2>2, <2>4
    <2>6. (m + HALF * q) % HALF = m BY <1>1, <2>2, <2>4, ModTurns
    <2> QED BY <1>2, <1>4, <2>1, <2>5, <2>6 DEF Span, m
  <1> QED BY <1>3, <1>4

\* A register file with one register replaced.
Put(f, k, v) == [f EXCEPT ![k] = v]

\* A W write leaves the zeros of a high half, and so writes it as well.
LEMMA SetRIs ==
  ASSUME NEW f \in [Regs -> Words], NEW sf \in BOOLEAN, NEW k \in Regs,
         NEW v \in Int, f[k] < Span(sf)
  PROVE  SetR(f, sf, k, v) = Put(f, k, v % Span(sf))
  <1>1. CASE sf BY <1>1 DEF SetR, Span, Put
  <1>2. CASE ~sf
    <2>1. HALF \in Nat \ {0} /\ f[k] \in 0 .. HALF - 1
      BY <1>2, Widths DEF Words, Span
    <2>2. f[k] % HALF = f[k] BY <2>1, ModSmall
    <2>3. v % HALF \in Int BY <2>1, DivMod
    <2>4. (f[k] - (f[k] % HALF)) + (v % HALF) = v % HALF BY <2>1, <2>2, <2>3
    <2> QED BY <1>2, <2>4 DEF SetR, Span, Put
  <1> QED BY <1>1, <1>2

\* What Arm!Departs leaves of a W form.
LEMMA HighHalf ==
  ASSUME NEW i, Stepping(i),
         i.op \in {"AddImm", "AddsImm", "SubImm", "SubsImm", "Csinc", "Movz",
                   "OrrSh"}
  PROVE  r[i.rd] < Span(i.sf)
  <1>1. ~Architecture!StaleHalf(i)
    BY DEF Stepping, Ready, Architecture!Departs
  <1>2. r[i.rd] \in 0 .. WORD - 1 /\ HALF \in Int /\ WORD \in Int
    BY Widths DEF Stepping, Ready, CoreTypeOK, Words, Instr
  <1> QED BY <1>1, <1>2, SameWidths DEF Architecture!StaleHalf, Span

\* A write to rd is what Arm sets.
LEMMA ArmSets ==
  ASSUME NEW i, Stepping(i), NEW v \in Int, NEW w \in Int,
         v % Span(i.sf) = w % Span(i.sf),
         r' = SetR(r, i.sf, i.rd, v),
         i.op \in {"AddImm", "AddsImm", "SubImm", "SubsImm", "Csinc", "Movz"},
         i.rd # 31 \/ i.op \in {"AddImm", "SubImm"}
  PROVE  Architecture!Sets(i, w)
  <1>1. r \in [Regs -> Words] /\ i.sf \in BOOLEAN /\ i.rd \in Regs
    BY DEF Stepping, Ready, CoreTypeOK, Instr
  <1>2. r[i.rd] < Span(i.sf) BY HighHalf
  <1>3. r' = Put(r, i.rd, w % Span(i.sf)) BY <1>1, <1>2, SetRIs
  <1> QED BY <1>3, SameWidths DEF Architecture!Sets, Put

-----------------------------------------------------------------------------
(* ADD, SUB, ADDS, SUBS.                                                   *)

\* An immediate, shifted or not, is positive at either width.
LEMMA ImmediateSmall ==
  ASSUME NEW i \in Instr, Encodable(i),
         i.op \in {"AddImm", "AddsImm", "SubImm", "SubsImm"}
  PROVE  /\ Shifted(i) \in Nat
         /\ 2 * Shifted(i) < HALF /\ 2 * Shifted(i) < Span(i.sf)
  <1>1. i.imm \in Nat /\ i.imm < IMM12 /\ i.sh \in BOOLEAN
    BY DEF Encodable, Instr
  <1>2. IMM12 \in Nat \ {0} /\ 2 * IMM12 * IMM12 <= HALF BY FieldAssumption
  <1>3. i.imm * IMM12 \in Nat /\ i.imm * IMM12 < IMM12 * IMM12
    BY <1>1, <1>2
  <1>4. i.imm <= i.imm * IMM12 BY <1>1, <1>2
  <1>5. IMM12 * IMM12 \in Nat /\ 2 * IMM12 * IMM12 = 2 * (IMM12 * IMM12)
    BY <1>2
  <1>6. Shifted(i) \in Nat /\ Shifted(i) < IMM12 * IMM12
    BY <1>1, <1>3, <1>4, <1>5 DEF Shifted
  <1>7. HALF \in Nat /\ WORD \in Nat /\ HALF <= WORD BY Widths
  <1>8. 2 * Shifted(i) < HALF BY <1>2, <1>5, <1>6, <1>7
  <1> QED BY <1>6, <1>7, <1>8 DEF Span

\* A sum or a difference that leaves the range comes back in by one turn.
LEMMA OneTurn ==
  ASSUME NEW n \in Nat \ {0}, NEW x \in 0 .. n - 1, NEW y \in 0 .. n - 1
  PROVE  /\ (x + y) % n = IF x + y >= n THEN x + y - n ELSE x + y
         /\ (x - y) % n = IF x >= y THEN x - y ELSE x - y + n
  <1>1. (x + y) % n = IF x + y >= n THEN x + y - n ELSE x + y
    <2>1. CASE x + y >= n
      <3>1. x + y - n \in 0 .. n - 1 /\ x + y = (x + y - n) + n * 1 BY <2>1
      <3>2. ((x + y - n) + n * 1) % n = x + y - n BY <3>1, ModTurns
      <3> QED BY <2>1, <3>1, <3>2
    <2>2. CASE x + y < n
      <3>1. x + y \in 0 .. n - 1 BY <2>2
      <3> QED BY <2>2, <3>1, ModSmall
    <2> QED BY <2>1, <2>2
  <1>2. (x - y) % n = IF x >= y THEN x - y ELSE x - y + n
    <2>1. CASE x >= y
      <3>1. x - y \in 0 .. n - 1 BY <2>1
      <3> QED BY <2>1, <3>1, ModSmall
    <2>2. CASE x < y
      <3>1. x - y + n \in 0 .. n - 1 /\ x - y = (x - y + n) + n * (-1) BY <2>2
      <3>2. ((x - y + n) + n * (-1)) % n = x - y + n BY <3>1, ModTurns
      <3> QED BY <2>2, <3>1, <3>2
    <2> QED BY <2>1, <2>2
  <1> QED BY <1>1, <1>2

\* Carry and overflow of a sum: the carry is a comparison that does not
\* overflow itself, and with a positive operand only a positive one can.
LEMMA AddFlagsMean ==
  ASSUME NEW n \in Nat \ {0}, NEW x \in 0 .. n - 1, NEW y \in Nat, 2 * y < n
  PROVE  /\ (n - 1 - y < x) <=> (x + y >= n)
         /\ (Signed(x, n) + y # Signed((x + y) % n, n))
              <=> (~Neg(x, n) /\ Neg((x + y) % n, n))
  <1>1. (x + y) % n = IF x + y >= n THEN x + y - n ELSE x + y BY OneTurn
  <1> QED BY <1>1 DEF Signed, Neg

\* Overflow of a difference.
LEMMA SubFlagsMean ==
  ASSUME NEW n \in Nat \ {0}, NEW x \in 0 .. n - 1, NEW y \in Nat, 2 * y < n
  PROVE  (Signed(x, n) - y # Signed((x - y) % n, n))
            <=> (Neg(x, n) /\ ~Neg((x - y) % n, n))
  <1>1. (x - y) % n = IF x >= y THEN x - y ELSE x - y + n BY OneTurn
  <1> QED BY <1>1 DEF Signed, Neg

\* The flags of ADDS, but for the operands Arm!Departs lists.
LEMMA AddsFlagsConform ==
  ASSUME NEW sf \in BOOLEAN, NEW x \in 0 .. Span(sf) - 1, NEW y \in Nat,
         2 * y < Span(sf), ~(sf /\ Neg(x, WORD))
  PROVE  AddsFlags(sf, x, y) =
           [ n |-> Neg((x + y) % Span(sf), Span(sf)),
             z |-> (x + y) % Span(sf) = 0,
             c |-> x + y >= Span(sf),
             v |-> Signed(x, Span(sf)) + y # Signed((x + y) % Span(sf), Span(sf)) ]
  <1> DEFINE n == Span(sf)
             res == (x + y) % n
             c == n - 1 - y < x
             v == IF sf THEN Neg(x, n) \/ Neg(res, n)
                        ELSE Neg(x, n) = Neg(y, n) /\ Neg(res, n) # Neg(x, n)
  <1>1. n \in Nat \ {0} BY Widths DEF Span
  <1>2. AddsFlags(sf, x, y) = [n |-> Neg(res, n), z |-> res = 0, c |-> c, v |-> v]
    BY DEF AddsFlags
  <1>0. x \in 0 .. n - 1 /\ 2 * y < n OBVIOUS
  <1>3. c <=> x + y >= n
    <2> HIDE DEF n
    <2> QED BY <1>0, <1>1, AddFlagsMean
  <1>4. (Signed(x, n) + y # Signed(res, n)) <=> (~Neg(x, n) /\ Neg(res, n))
    <2> HIDE DEF n
    <2> QED BY <1>0, <1>1, AddFlagsMean
  <1>5. ~Neg(y, n) BY <1>1 DEF Neg
  <1>6. sf => n = WORD BY DEF Span
  <1>7. v <=> (~Neg(x, n) /\ Neg(res, n))
    <2> HIDE DEF n, res
    <2> QED BY <1>5, <1>6, NegType
  <1> HIDE DEF n, res, c, v
  <1>8. c = (x + y >= n) BY <1>3 DEF c
  <1>9. v = (Signed(x, n) + y # Signed(res, n)) BY <1>4, <1>7, NegType DEF v
  <1>10. [n |-> Neg(res, n), z |-> res = 0, c |-> c, v |-> v]
         = [n |-> Neg(res, n), z |-> res = 0, c |-> x + y >= n,
            v |-> Signed(x, n) + y # Signed(res, n)]
    BY <1>8, <1>9, Zenon
  <1> QED BY <1>2, <1>10 DEF n, res

\* The flags of SUBS.
LEMMA SubsFlagsConform ==
  ASSUME NEW sf \in BOOLEAN, NEW x \in 0 .. Span(sf) - 1, NEW y \in Nat,
         2 * y < Span(sf)
  PROVE  SubsFlags(sf, x, y) =
           [ n |-> Neg((x - y) % Span(sf), Span(sf)),
             z |-> (x - y) % Span(sf) = 0,
             c |-> x >= y,
             v |-> Signed(x, Span(sf)) - y # Signed((x - y) % Span(sf), Span(sf)) ]
  <1> DEFINE n == Span(sf)
             res == (x - y) % n
             c == y <= x
             v == Neg(x, n) # Neg(y, n) /\ Neg(res, n) # Neg(x, n)
  <1>1. n \in Nat \ {0} BY Widths DEF Span
  <1>2. SubsFlags(sf, x, y) = [n |-> Neg(res, n), z |-> res = 0, c |-> c, v |-> v]
    BY DEF SubsFlags
  <1>3. x \in 0 .. n - 1 /\ 2 * y < n OBVIOUS
  <1>4. (Signed(x, n) - y # Signed(res, n)) <=> (Neg(x, n) /\ ~Neg(res, n))
    <2> HIDE DEF n
    <2> QED BY <1>1, <1>3, SubFlagsMean
  <1>5. ~Neg(y, n) BY <1>1 DEF Neg
  <1>6. v <=> (Neg(x, n) /\ ~Neg(res, n))
    <2> HIDE DEF n, res
    <2> QED BY <1>5, NegType
  <1>7. c = (x >= y)
    <2>1. x \in Int BY <1>1, <1>3
    <2> QED BY <2>1
  <1> HIDE DEF n, res, c, v
  <1>8. v = (Signed(x, n) - y # Signed(res, n)) BY <1>4, <1>6, NegType DEF v
  <1>9. [n |-> Neg(res, n), z |-> res = 0, c |-> c, v |-> v]
        = [n |-> Neg(res, n), z |-> res = 0, c |-> x >= y,
           v |-> Signed(x, n) - y # Signed(res, n)]
    BY <1>7, <1>8, Zenon
  <1> QED BY <1>2, <1>9 DEF n, res

\* A result and what it is the remainder of are the same to a view.
LEMMA SameResult ==
  ASSUME NEW sf \in BOOLEAN, NEW v \in Int
  PROVE  v % Span(sf) \in Int /\ (v % Span(sf)) % Span(sf) = v % Span(sf)
  <1> DEFINE n == Span(sf)
  <1>1. n \in Nat \ {0} BY Widths DEF Span
  <1> HIDE DEF n
  <1>2. v % n \in 0 .. n - 1 BY <1>1, DivMod
  <1>3. (v % n) % n = v % n BY <1>1, <1>2, ModSmall
  <1> QED BY <1>2, <1>3 DEF n

\* The operands of the arithmetic of Arm are those of the handlers.
LEMMA ArithOperands ==
  ASSUME NEW i, Stepping(i),
         i.op \in {"AddImm", "AddsImm", "SubImm", "SubsImm"}
  PROVE  /\ i.sf \in BOOLEAN
         /\ Rn(i) \in 0 .. Span(i.sf) - 1 /\ Rn(i) \in Int
         /\ Architecture!Reg(i, i.rn) = Rn(i)
         /\ Shifted(i) \in Nat /\ 2 * Shifted(i) < Span(i.sf)
         /\ (IF i.sh THEN i.imm * IMM12 ELSE i.imm) = Shifted(i)
  <1>1. CoreTypeOK /\ i \in Instr /\ Encodable(i) BY DEF Stepping, Ready
  <1>2. i.sf \in BOOLEAN /\ i.rn \in Regs BY <1>1 DEF Instr
  <1>3. Rn(i) \in 0 .. Span(i.sf) - 1 BY <1>1, <1>2, ArmReg DEF Rn
  <1>4. Span(i.sf) \in Int BY Widths DEF Span
  <1>5. Architecture!Reg(i, i.rn) = Rn(i) BY <1>1, <1>2, ArmReg DEF Rn
  <1> QED BY <1>1, <1>2, <1>3, <1>4, <1>5, ImmediateSmall DEF Shifted

\* ADD.
LEMMA AddConforms ==
  ASSUME NEW i, Stepping(i), i.op = "AddImm", AddImm(i)
  PROVE  Architecture!Arith(i)
  <1> DEFINE v == Rn(i) + Shifted(i)
             w == v % Span(i.sf)
  <1>1. /\ r' = SetR(r, i.sf, i.rd, v) /\ Advance
        /\ UNCHANGED <<pc, nzcv, mem>>
    BY DEF AddImm, Result
  <1>2. v \in Int /\ i.sf \in BOOLEAN BY ArithOperands
  <1> HIDE DEF v
  <1>3. w \in Int /\ v % Span(i.sf) = w % Span(i.sf) BY <1>2, SameResult
  <1> HIDE DEF w
  <1>4. Architecture!Sets(i, w) BY <1>1, <1>2, <1>3, ArmSets
  <1>5. Architecture!GoesOn BY <1>1, ArrivesNext
  <1> QED
    BY <1>1, <1>4, <1>5, ArithOperands, SameWidths DEF Architecture!Arith, v, w

\* SUB.
LEMMA SubConforms ==
  ASSUME NEW i, Stepping(i), i.op = "SubImm", SubImm(i)
  PROVE  Architecture!Arith(i)
  <1> DEFINE v == Rn(i) - Shifted(i)
             w == v % Span(i.sf)
  <1>1. /\ r' = SetR(r, i.sf, i.rd, v) /\ Advance
        /\ UNCHANGED <<pc, nzcv, mem>>
    BY DEF SubImm, Result
  <1>2. v \in Int /\ i.sf \in BOOLEAN BY ArithOperands
  <1> HIDE DEF v
  <1>3. w \in Int /\ v % Span(i.sf) = w % Span(i.sf) BY <1>2, SameResult
  <1> HIDE DEF w
  <1>4. Architecture!Sets(i, w) BY <1>1, <1>2, <1>3, ArmSets
  <1>5. Architecture!GoesOn BY <1>1, ArrivesNext
  <1> QED
    BY <1>1, <1>4, <1>5, ArithOperands, SameWidths DEF Architecture!Arith, v, w

\* ADDS.
LEMMA AddsConforms ==
  ASSUME NEW i, Stepping(i), i.op = "AddsImm", AddsImm(i)
  PROVE  Architecture!Arith(i)
  <1> DEFINE v == Rn(i) + Shifted(i)
             w == v % Span(i.sf)
  <1>1. /\ r' = SetR(r, i.sf, i.rd, v) /\ Advance
        /\ nzcv' = AddsFlags(i.sf, Rn(i), Shifted(i))
        /\ UNCHANGED <<pc, mem>>
    BY DEF AddsImm
  <1>2. v \in Int /\ i.sf \in BOOLEAN BY ArithOperands
  <1>3. i.rd # 31 /\ ~(i.sf /\ Neg(Rn(i), WORD))
    BY ArithOperands, SameSigns, SameWidths
       DEF Stepping, Ready, Architecture!Departs, Architecture!Handler
  <1>4. nzcv' = [ n |-> Neg(w, Span(i.sf)), z |-> w = 0, c |-> v >= Span(i.sf),
                  v |-> Signed(Rn(i), Span(i.sf)) + Shifted(i)
                          # Signed(w, Span(i.sf)) ]
    BY <1>1, <1>3, ArithOperands, AddsFlagsConform
  <1>5. Architecture!Sets(i, w)
    <2> HIDE DEF v
    <2>1. w \in Int /\ v % Span(i.sf) = w % Span(i.sf) BY <1>2, SameResult
    <2> HIDE DEF w
    <2> QED BY <1>1, <1>2, <1>3, <2>1, ArmSets
  <1>6. Architecture!GoesOn BY <1>1, ArrivesNext
  <1> QED
    BY <1>1, <1>4, <1>5, <1>6, ArithOperands, SameWidths, SameSigns
       DEF Architecture!Arith

\* SUBS.
LEMMA SubsConforms ==
  ASSUME NEW i, Stepping(i), i.op = "SubsImm", SubsImm(i)
  PROVE  Architecture!Arith(i)
  <1> DEFINE v == Rn(i) - Shifted(i)
             w == v % Span(i.sf)
  <1>1. i.rd # 31 /\ ~(i.sh /\ i.imm # 0)
    BY DEF Stepping, Ready, Architecture!Departs, Architecture!Handler
  <1>2. Shifted(i) = i.imm
    <2>1. IMM12 \in Int /\ 0 * IMM12 = 0 BY FieldAssumption
    <2> QED BY <1>1, <2>1 DEF Shifted
  <1>3. /\ r' = SetR(r, i.sf, i.rd, v) /\ Advance
        /\ nzcv' = SubsFlags(i.sf, Rn(i), Shifted(i))
        /\ UNCHANGED <<pc, mem>>
    BY <1>2 DEF SubsImm
  <1>4. v \in Int /\ i.sf \in BOOLEAN BY ArithOperands
  <1>5. nzcv' = [ n |-> Neg(w, Span(i.sf)), z |-> w = 0, c |-> Rn(i) >= Shifted(i),
                  v |-> Signed(Rn(i), Span(i.sf)) - Shifted(i)
                          # Signed(w, Span(i.sf)) ]
    BY <1>3, ArithOperands, SubsFlagsConform
  <1>6. Architecture!Sets(i, w)
    <2> HIDE DEF v
    <2>1. w \in Int /\ v % Span(i.sf) = w % Span(i.sf) BY <1>4, SameResult
    <2> HIDE DEF w
    <2> QED BY <1>1, <1>3, <1>4, <2>1, ArmSets
  <1>7. Architecture!GoesOn BY <1>3, ArrivesNext
  <1> QED
    BY <1>3, <1>5, <1>6, <1>7, ArithOperands, SameWidths, SameSigns
       DEF Architecture!Arith

-----------------------------------------------------------------------------
(* CSINC and CSET.                                                         *)

\* Each pair of conditions is one test of the flags.
LEMMA TestIs ==
  ASSUME NEW cond \in 0 .. 15
  PROVE  /\ cond \in {0, 1} => Architecture!Test(cond) = nzcv.z
         /\ cond \in {2, 3} => Architecture!Test(cond) = nzcv.c
         /\ cond \in {4, 5} => Architecture!Test(cond) = nzcv.n
         /\ cond \in {6, 7} => Architecture!Test(cond) = nzcv.v
         /\ cond \in {8, 9} => Architecture!Test(cond) = (nzcv.c /\ ~nzcv.z)
         /\ cond \in {10, 11} => Architecture!Test(cond) = (nzcv.n = nzcv.v)
         /\ cond \in {12, 13} =>
              Architecture!Test(cond) = (nzcv.n = nzcv.v /\ ~nzcv.z)
  <1> DEFINE T == << nzcv.z, nzcv.c, nzcv.n, nzcv.v, nzcv.c /\ ~nzcv.z,
                     nzcv.n = nzcv.v, nzcv.n = nzcv.v /\ ~nzcv.z, TRUE >>
  <1>1. Architecture!Test(cond) = T[cond \div 2 + 1] BY DEF Architecture!Test
  <1>2. /\ T[1] = nzcv.z /\ T[2] = nzcv.c /\ T[3] = nzcv.n /\ T[4] = nzcv.v
        /\ T[5] = (nzcv.c /\ ~nzcv.z) /\ T[6] = (nzcv.n = nzcv.v)
        /\ T[7] = (nzcv.n = nzcv.v /\ ~nzcv.z)
    OBVIOUS
  <1> HIDE DEF T
  <1>3. /\ cond \in {0, 1} => cond \div 2 + 1 = 1
        /\ cond \in {2, 3} => cond \div 2 + 1 = 2
        /\ cond \in {4, 5} => cond \div 2 + 1 = 3
        /\ cond \in {6, 7} => cond \div 2 + 1 = 4
        /\ cond \in {8, 9} => cond \div 2 + 1 = 5
        /\ cond \in {10, 11} => cond \div 2 + 1 = 6
        /\ cond \in {12, 13} => cond \div 2 + 1 = 7
    OBVIOUS
  <1> QED BY <1>1, <1>2, <1>3

\* is_cond_true reads the flags as the architecture does, but for the three
\* conditions Arm!Departs lists; the lowest bit of a condition negates it.
LEMMA ConditionIs ==
  ASSUME nzcv \in Flags, NEW cond \in 0 .. 15
  PROVE  /\ cond < 14 => (Architecture!Condition(cond) <=>
                            ~Architecture!Condition(Inverted(cond)))
         /\ cond < 14 => Inverted(cond) \in 0 .. 13
         /\ /\ ~(cond = 9 /\ nzcv.c = nzcv.z)
            /\ ~(cond = 13 /\ nzcv.z = (nzcv.n = nzcv.v))
            /\ cond # 15
            => (CondTrue(nzcv, cond) <=> Architecture!Condition(cond))
  <1> DEFINE even == cond % 2 = 0
  <1>1. /\ nzcv.n \in BOOLEAN /\ nzcv.z \in BOOLEAN
        /\ nzcv.c \in BOOLEAN /\ nzcv.v \in BOOLEAN
    BY DEF Flags
  <1>2. /\ cond \in {0, 2, 4, 6, 8, 10, 12, 14} => even
        /\ cond \in {1, 3, 5, 7, 9, 11, 13, 15} => ~even
        /\ even \in BOOLEAN
    OBVIOUS
  <1>3. cond \in {0, 2, 4, 6, 8, 10, 12, 14} \cup {1, 3, 5, 7, 9, 11, 13, 15}
    OBVIOUS
  <1>4. Architecture!Condition(cond)
          <=> (cond \in {14, 15} \/ Architecture!Test(cond) = even)
    BY DEF Architecture!Condition
  <1>5. ASSUME /\ ~(cond = 9 /\ nzcv.c = nzcv.z)
               /\ ~(cond = 13 /\ nzcv.z = (nzcv.n = nzcv.v))
               /\ cond # 15
        PROVE  CondTrue(nzcv, cond) <=> Architecture!Condition(cond)
    <2> HIDE DEF even
    <2>1. CASE cond \in {0, 1} BY <2>1, <1>1, <1>2, <1>4, TestIs DEF CondTrue
    <2>2. CASE cond \in {2, 3} BY <2>2, <1>1, <1>2, <1>4, TestIs DEF CondTrue
    <2>3. CASE cond \in {4, 5} BY <2>3, <1>1, <1>2, <1>4, TestIs DEF CondTrue
    <2>4. CASE cond \in {6, 7} BY <2>4, <1>1, <1>2, <1>4, TestIs DEF CondTrue
    <2>5. CASE cond \in {8, 9}
      BY <2>5, <1>1, <1>2, <1>4, <1>5, TestIs DEF CondTrue
    <2>6. CASE cond \in {10, 11} BY <2>6, <1>1, <1>2, <1>4, TestIs DEF CondTrue
    <2>7. CASE cond \in {12, 13}
      BY <2>7, <1>1, <1>2, <1>4, <1>5, TestIs DEF CondTrue
    <2>8. CASE cond = 14 BY <2>8, <1>4 DEF CondTrue
    <2> QED BY <1>3, <1>5, <2>1, <2>2, <2>3, <2>4, <2>5, <2>6, <2>7, <2>8
  <1>6. ASSUME cond < 14
        PROVE  /\ Inverted(cond) \in 0 .. 13
               /\ Architecture!Test(Inverted(cond)) = Architecture!Test(cond)
               /\ (Inverted(cond) % 2 = 0) <=> ~even
    <2> DEFINE inv == Inverted(cond)
    <2>1. /\ cond \in {0, 2, 4, 6, 8, 10, 12} => inv = cond + 1
          /\ cond \in {1, 3, 5, 7, 9, 11, 13} => inv = cond - 1
      BY <1>2 DEF Inverted
    <2> HIDE DEF inv
    <2>2. inv \in 0 .. 13 /\ ((inv % 2 = 0) <=> ~even)
      BY <2>1, <1>2, <1>3, <1>6
    <2>3. cond \in {0, 1, 2, 3, 4, 5, 6, 7, 8, 9, 10, 11, 12, 13} BY <1>6
    <2> HIDE DEF even
    <2>4. Architecture!Test(inv) = Architecture!Test(cond)
      <3>1. inv \in 0 .. 15 BY <2>2
      <3>2. CASE cond \in {0, 1} BY <3>1, <3>2, <2>1, TestIs
      <3>3. CASE cond \in {2, 3} BY <3>1, <3>3, <2>1, TestIs
      <3>4. CASE cond \in {4, 5} BY <3>1, <3>4, <2>1, TestIs
      <3>5. CASE cond \in {6, 7} BY <3>1, <3>5, <2>1, TestIs
      <3>6. CASE cond \in {8, 9} BY <3>1, <3>6, <2>1, TestIs
      <3>7. CASE cond \in {10, 11} BY <3>1, <3>7, <2>1, TestIs
      <3>8. CASE cond \in {12, 13} BY <3>1, <3>8, <2>1, TestIs
      <3> QED BY <2>3, <3>2, <3>3, <3>4, <3>5, <3>6, <3>7, <3>8
    <2> QED BY <2>2, <2>4 DEF inv
  <1>7. ASSUME cond < 14
        PROVE  Architecture!Condition(cond) <=>
                 ~Architecture!Condition(Inverted(cond))
    <2> HIDE DEF even
    <2>1. Architecture!Condition(Inverted(cond))
            <=> (Architecture!Test(cond) = (Inverted(cond) % 2 = 0))
      BY <1>6, <1>7 DEF Architecture!Condition
    <2>2. Architecture!Condition(cond) <=> (Architecture!Test(cond) = even)
      BY <1>4, <1>7
    <2>3. Architecture!Test(cond) \in BOOLEAN
      <3>1. cond \in {0, 1} \cup {2, 3} \cup {4, 5} \cup {6, 7} \cup {8, 9}
                     \cup {10, 11} \cup {12, 13}
        BY <1>7
      <3> QED BY <3>1, <1>1, TestIs
    <2> QED BY <2>1, <2>2, <2>3, <1>2, <1>6, <1>7
  <1> QED BY <1>5, <1>6, <1>7

\* CSINC, and CSET whose word holds the inverse of what the handler tests.
LEMMA CsincConforms ==
  ASSUME NEW i, Stepping(i), i.op = "Csinc", Csinc(i)
  PROVE  Architecture!Select(i)
  <1> DEFINE w == IF Architecture!Condition(i.cond)
                    THEN OrZero(i, i.rn) ELSE OrZero(i, i.rm) + 1
  <1>1. /\ i \in Instr /\ CoreTypeOK /\ nzcv \in Flags
        /\ i.cond \in 0 .. 15 /\ i.rn \in Regs /\ i.rm \in Regs
        /\ i.sf \in BOOLEAN
    BY DEF Stepping, Ready, CoreTypeOK, Instr
  <1>2. /\ i.rd # 31
        /\ ~(Architecture!Tested(i) = 9 /\ nzcv.c = nzcv.z)
        /\ ~(Architecture!Tested(i) = 13 /\ nzcv.z = (nzcv.n = nzcv.v))
        /\ Architecture!Tested(i) # 15
    BY DEF Stepping, Ready, Architecture!Departs, Architecture!Handler
  <1>3. Architecture!Tested(i) =
          IF IsCset(i) THEN Inverted(i.cond) ELSE i.cond
    BY DEF Architecture!Tested, IsCset, Inverted
  <1>4. OrZero(i, i.rn) \in Int /\ OrZero(i, i.rm) \in Int
    <2>1. OrZero(i, i.rn) \in 0 .. Span(i.sf) - 1 BY <1>1, ArmReg
    <2>2. OrZero(i, i.rm) \in 0 .. Span(i.sf) - 1 BY <1>1, ArmReg
    <2>3. Span(i.sf) \in Int BY Widths DEF Span
    <2> QED BY <2>1, <2>2, <2>3
  <1>5. Result(i, w)
    <2>1. CASE IsCset(i)
      <3>1. i.cond < 14 /\ OrZero(i, i.rn) = 0 /\ OrZero(i, i.rm) = 0
        BY <2>1 DEF IsCset, OrZero
      <3>2. Inverted(i.cond) \in 0 .. 15 BY <1>1, <3>1, ConditionIs
      <3>3. CondTrue(nzcv, Inverted(i.cond))
              <=> Architecture!Condition(Inverted(i.cond))
        BY <1>1, <1>2, <1>3, <2>1, <3>2, ConditionIs
      <3>4. Architecture!Condition(Inverted(i.cond))
              <=> ~Architecture!Condition(i.cond)
        BY <1>1, <3>1, ConditionIs
      <3>5. Result(i, IF CondTrue(nzcv, Inverted(i.cond)) THEN 1 ELSE 0)
        BY <2>1 DEF Csinc
      <3>6. w = IF CondTrue(nzcv, Inverted(i.cond)) THEN 1 ELSE 0
        BY <3>1, <3>3, <3>4
      <3> QED BY <3>5, <3>6
    <2>2. CASE ~IsCset(i)
      <3>1. CondTrue(nzcv, i.cond) <=> Architecture!Condition(i.cond)
        BY <1>1, <1>2, <1>3, <2>2, ConditionIs
      <3>2. Result(i, IF CondTrue(nzcv, i.cond) THEN OrZero(i, i.rn)
                                                ELSE OrZero(i, i.rm) + 1)
        BY <2>2 DEF Csinc
      <3>3. w = IF CondTrue(nzcv, i.cond) THEN OrZero(i, i.rn)
                                          ELSE OrZero(i, i.rm) + 1
        BY <3>1
      <3> QED BY <3>2, <3>3
    <2> QED BY <2>1, <2>2
  <1>6. Architecture!Sets(i, w)
    <2>1. w \in Int BY <1>4
    <2> HIDE DEF w
    <2> QED BY <1>2, <1>5, <2>1, ArmSets DEF Result
  <1>7. Architecture!GoesOn BY <1>5, ArrivesNext DEF Result
  <1>8. /\ Architecture!ZReg(i, i.rn) = OrZero(i, i.rn)
        /\ Architecture!ZReg(i, i.rm) = OrZero(i, i.rm)
    BY <1>1, ArmReg
  <1> QED BY <1>5, <1>6, <1>7, <1>8 DEF Architecture!Select, Result

-----------------------------------------------------------------------------
(* MOVZ and ADRP.                                                          *)

\* MOVZ.  From hw = 2 on there is only zero to move.
LEMMA MovzConforms ==
  ASSUME NEW i, Stepping(i), i.op = "Movz", Movz(i)
  PROVE  Architecture!Move(i)
  <1> DEFINE w == i.imm * Place[2 * (i.amt % 4) + 1]
  <1>1. i.rd # 31 /\ (i.amt >= 2 => i.imm = 0)
    BY DEF Stepping, Ready, Architecture!Departs, Architecture!Handler
  <1>2. i.imm \in Nat /\ i.amt \in Nat
    BY ByteAssumption DEF Stepping, Ready, Instr
  <1>3. ASSUME NEW k \in 0 .. 3 PROVE Place[2 * k + 1] \in Int
    <2>1. 2 * k \in 0 .. 7 OBVIOUS
    <2> QED BY <2>1, PlaceType
  <1>4. i.amt % 4 \in 0 .. 3 /\ i.amt % 2 \in 0 .. 3 BY <1>2
  <1>5. Result(i, w)
    <2>1. PICK v \in MovzValues(i) : Result(i, v) BY DEF Movz
    <2>2. CASE i.amt < 2
      <3>1. i.amt % 4 = i.amt BY <1>2, <2>2
      <3> QED BY <2>1, <2>2, <3>1 DEF MovzValues
    <2>3. CASE i.amt >= 2
      <3> DEFINE p == Place[2 * (i.amt % 4) + 1]
                 q == Place[2 * (i.amt % 2) + 1]
      <3>1. p \in Int /\ q \in Int BY <1>3, <1>4
      <3>2. i.imm = 0 BY <1>1, <2>3
      <3>3. v \in {0, i.imm * q} BY <1>2, <2>3, <2>1 DEF MovzValues
      <3> HIDE DEF p, q
      <3>4. v = 0 /\ i.imm * p = 0 BY <3>1, <3>2, <3>3
      <3> QED BY <2>1, <3>4 DEF p
    <2> QED BY <1>2, <2>2, <2>3
  <1>6. w \in Int
    <2> DEFINE p == Place[2 * (i.amt % 4) + 1]
    <2>1. p \in Int BY <1>3, <1>4
    <2> HIDE DEF p
    <2>2. i.imm * p \in Int BY <1>2, <2>1
    <2> QED BY <2>2 DEF p
  <1> HIDE DEF w
  <1>7. Architecture!Sets(i, w) BY <1>1, <1>5, <1>6, ArmSets DEF Result
  <1>8. Architecture!GoesOn BY <1>5, ArrivesNext DEF Result
  <1> QED
    BY <1>5, <1>7, <1>8, SameBytes DEF Architecture!Move, Result, w

\* ADRP, for the two immediates whose logical OR is the immediate.
LEMMA AdrpConforms ==
  ASSUME NEW i, Stepping(i), i.op = "Adrp", Adrp(i)
  PROVE  Architecture!Page(i)
  <1> DEFINE w == pc - (pc % PAGE) + i.imm * PAGE
  <1>1. i.rd # 31 /\ i.imm \in {0, 1}
    BY DEF Stepping, Ready, Architecture!Departs, Architecture!Handler
  <1>2. PAGE \in Nat \ {0} BY FieldAssumption
  <1>3. (IF i.imm = 0 THEN 0 ELSE 1) * PAGE = i.imm * PAGE BY <1>1
  <1>4. r' = SetR(r, TRUE, i.rd, w) BY <1>3 DEF Adrp
  <1>5. w \in Int
    <2>1. pc \in Int BY Widths DEF Stepping, Ready, CoreTypeOK, Words
    <2>2. pc % PAGE \in Int BY <1>2, <2>1
    <2>3. i.imm * PAGE \in Int BY <1>1, <1>2
    <2> QED BY <2>1, <2>2, <2>3
  <1> HIDE DEF w
  <1>6. r' = [r EXCEPT ![i.rd] = w % WORD] BY <1>4 DEF SetR
  <1>7. Architecture!Sets([i EXCEPT !.sf = TRUE], w)
    <2> DEFINE j == [i EXCEPT !.sf = TRUE]
    <2>1. j.sf = TRUE /\ j.rd = i.rd BY DEF Stepping, Ready, Instr
    <2>2. Architecture!Span(TRUE) = WORD BY SameWidths DEF Span
    <2> HIDE DEF j
    <2> QED BY <1>1, <1>6, <2>1, <2>2 DEF Architecture!Sets, j
  <1>8. Architecture!GoesOn BY ArrivesNext DEF Adrp
  <1>9. at = pc BY DEF at, Stepping, Ready
  <1> QED BY <1>7, <1>8, <1>9 DEF Architecture!Page, Adrp, w

-----------------------------------------------------------------------------
(* Branches.                                                               *)

\* What update_pc takes off, advance_pc adds, also around zero.
LEMMA JumpArrives ==
  ASSUME NEW i, Stepping(i), Advance, NEW target \in Int, Jump(target)
  PROVE  Architecture!GoesTo(target)
  <1> DEFINE t == target - 1
  <1>1. WORD \in Nat \ {0} /\ t \in Int /\ 1 \in Int /\ t + 1 = target BY Widths
  <1> HIDE DEF t
  <1>2. ((t % WORD) + 1) % WORD = (t + 1) % WORD BY <1>1, ModPlus
  <1>3. (((target - 1) % WORD) + 1) % WORD = target % WORD BY <1>1, <1>2 DEF t
  <1>4. (pc' + 1) % WORD = target % WORD BY <1>3 DEF Jump
  <1> QED BY <1>4, Arrives

\* A signed field is an integer.
LEMMA SignedType ==
  ASSUME NEW x \in Int, NEW n \in Nat \ {0}
  PROVE  Signed(x % n, n) \in Int
  <1>1. x % n \in Int BY DivMod
  <1> QED BY <1>1 DEF Signed

\* Where a step is, in Arm and in the session.
LEMMA StepsFrom ==
  ASSUME NEW i, Stepping(i)
  PROVE  at = pc /\ pc \in Int /\ i \in Instr /\ i.imm \in Nat /\ CoreTypeOK
  BY Widths DEF at, Stepping, Ready, CoreTypeOK, Words, Instr

\* B and BL.
LEMMA BranchConforms ==
  ASSUME NEW i, Stepping(i),
         \/ i.op = "B" /\ B(i)
         \/ i.op = "Bl" /\ Bl(i)
  PROVE  Architecture!Branch(i)
  <1> DEFINE target == pc + Signed(i.imm % IMM26, IMM26)
  <1>1. target \in Int
    <2>1. IMM26 \in Nat \ {0} BY FieldAssumption
    <2> QED BY <2>1, StepsFrom, SignedType
  <1>2. Advance /\ Jump(target) /\ UNCHANGED <<nzcv, mem>> BY DEF B, Bl
  <1> HIDE DEF target
  <1>3. Architecture!GoesTo(target) BY <1>1, <1>2, JumpArrives
  <1>4. i.op = "Bl" => r' = [r EXCEPT ![LR] = (pc + 1) % WORD]
    BY DEF Bl, SetR
  <1>5. i.op = "B" => UNCHANGED r BY DEF B
  <1>6. i.op \in {"B", "Bl"} OBVIOUS
  <1> QED
    BY <1>2, <1>3, <1>4, <1>5, <1>6, StepsFrom, SameSigns, SameSets, SameWidths
       DEF Architecture!Branch, target

\* RET to zero, the program is done; any other clears its register.
LEMMA RetConforms ==
  ASSUME NEW i, Stepping(i), i.op = "Ret", Ret(i)
  PROVE  Architecture!Return(i)
  <1>1. r[i.rn] = 0
    BY DEF Stepping, Ready, Architecture!Departs, Architecture!Handler
  <1>2. ctl' = "stopped" /\ UNCHANGED coreVars BY <1>1 DEF Ret, Stop
  <1>3. at = pc /\ at' = pc BY <1>2 DEF at, Stepping, Ready, coreVars
  <1>4. text'[pc'].op = "Ret" BY <1>2 DEF Stepping, Ready, coreVars
  <1>5. status' = "done" BY <1>2, <1>4 DEF Stepping, Ready, status
  <1> QED
    BY <1>1, <1>2, <1>3, <1>5
       DEF Architecture!Return, Architecture!data, coreVars

\* The bits of the zero register.
LEMMA ZeroBit ==
  ASSUME NEW k \in 0 .. 8 * BYTE_BITS
  PROVE  ~BitSet(0, k)
  <1> DEFINE p == 2 ^ k
  <1>1. p \in Nat \ {0} BY ByteAssumption
  <1> HIDE DEF p
  <1>2. 0 \div p = 0 BY <1>1
  <1>3. (0 \div p) % 2 # 1 BY <1>2
  <1> QED BY <1>3 DEF BitSet, p

\* A field whose sign bit is clear is its own value.
LEMMA SignedSmall ==
  ASSUME NEW x \in Nat, NEW n \in Nat \ {0}, 2 * x < n
  PROVE  Signed(x % n, n) = x
  <1>1. x % n = x BY ModSmall
  <1> QED BY <1>1 DEF Signed, Neg

\* TBNZ.
LEMMA TbnzConforms ==
  ASSUME NEW i, Stepping(i), i.op = "Tbnz", Tbnz(i)
  PROVE  Architecture!BranchOnBit(i)
  <1> DEFINE x == GetR(r, i.sf, i.rd)
             z == OrZero(i, i.rd)
  <1>1. /\ i \in Instr /\ CoreTypeOK /\ i.rd \in Regs
        /\ i.amt \in 0 .. 8 * BYTE_BITS /\ i.imm \in Nat
    <2>1. i.amt \in 0 .. 8 * BYTE_BITS - 1 BY DEF Stepping, Ready, Instr
    <2>2. i.amt \in 0 .. 8 * BYTE_BITS BY <2>1, ByteAssumption
    <2> QED BY <2>2 DEF Stepping, Ready, Instr
  <1>2. \A y, n : Architecture!Bit(y, n) <=> BitSet(y, n)
    BY DEF Architecture!Bit, BitSet
  <1>3. /\ Architecture!Reg(i, i.rd) = x /\ Architecture!ZReg(i, i.rd) = z
    BY <1>1, ArmReg
  <1> HIDE DEF x
  <1>4. BitSet(x, i.amt) => i.rd # 31 /\ 2 * i.imm < IMM14
    <2>1. ~(Architecture!Bit(Architecture!Reg(i, i.rd), i.amt)
            /\ (i.rd = 31 \/ 2 * i.imm >= IMM14))
      BY DEF Stepping, Ready, Architecture!Departs, Architecture!Handler
    <2>2. IMM14 \in Nat BY FieldAssumption
    <2> QED BY <1>1, <1>2, <1>3, <2>1, <2>2
  <1>5. BitSet(z, i.amt) <=> BitSet(x, i.amt)
    <2>1. CASE i.rd = 31
      <3>1. z = 0 BY <2>1 DEF OrZero
      <3> QED BY <1>1, <1>4, <2>1, <3>1, ZeroBit
    <2>2. CASE i.rd # 31 BY <2>2 DEF OrZero, x
    <2> QED BY <2>1, <2>2
  <1>6. Advance /\ UNCHANGED <<r, nzcv, mem>> BY DEF Tbnz
  <1>7. ASSUME BitSet(x, i.amt)
        PROVE  Architecture!GoesTo(at + Signed(i.imm % IMM14, IMM14))
    <2>1. IMM14 \in Nat \ {0} BY FieldAssumption
    <2>2. Signed(i.imm % IMM14, IMM14) = i.imm
      BY <1>1, <1>4, <1>7, <2>1, SignedSmall
    <2>3. Jump(pc + i.imm) BY <1>7 DEF Tbnz, x
    <2>4. pc + i.imm \in Int /\ at = pc BY <1>1, StepsFrom
    <2>5. Architecture!GoesTo(pc + i.imm) BY <1>6, <2>3, <2>4, JumpArrives
    <2> QED BY <2>2, <2>4, <2>5
  <1>8. ASSUME ~BitSet(x, i.amt)
        PROVE  Architecture!GoesOn
    <2>1. UNCHANGED pc BY <1>8 DEF Tbnz, x
    <2> QED BY <1>6, <2>1, ArrivesNext
  <1> QED
    BY <1>2, <1>3, <1>5, <1>6, <1>7, <1>8, SameSigns
       DEF Architecture!BranchOnBit, Architecture!data

-----------------------------------------------------------------------------
(* Addresses and the bound check.                                          *)

\* The address a handler computes in the width of its view is the low part
\* of the 64-bit address.
LEMMA ViewAddress ==
  ASSUME NEW sf \in BOOLEAN, NEW f \in [Regs -> Words], NEW k \in Regs,
         NEW step \in Int
  PROVE  (GetR(f, sf, k) + step) % Span(sf) = ((f[k] + step) % WORD) % Span(sf)
  <1> DEFINE x == f[k]
             y == x + step
  <1>1. HALF \in Nat \ {0} /\ WORD \in Nat \ {0} /\ WORD = HALF * HALF
    BY Widths DEF WORD
  <1>2. x \in Int BY Widths DEF Words
  <1>3. GetR(f, sf, k) = IF sf THEN x ELSE x % HALF BY DEF GetR
  <1> HIDE DEF x
  <1>4. y \in Int BY <1>2
  <1>5. CASE sf
    <2>1. (y % WORD) % WORD = y % WORD
      <3>1. y % WORD \in 0 .. WORD - 1 BY <1>1, <1>4, DivMod
      <3> QED BY <1>1, <3>1, ModSmall
    <2> QED BY <1>3, <1>5, <2>1 DEF Span, x
  <1>6. CASE ~sf
    <2>1. ((x % HALF) + step) % HALF = y % HALF BY <1>1, <1>2, ModPlus
    <2> HIDE DEF y
    <2>2. (y % (HALF * HALF)) % HALF = y % HALF BY <1>1, <1>4, ModMod
    <2> QED BY <1>1, <1>3, <1>6, <2>1, <2>2 DEF Span, x, y
  <1> QED BY <1>5, <1>6

\* What passes the bound check, as an unsigned address.
LEMMA InRangeIs ==
  ASSUME NEW sf \in BOOLEAN, NEW m \in 0 .. Span(sf) - 1
  PROVE  /\ InRange(Signed(m, Span(sf))) <=> m <= STACK_SIZE
         /\ m <= STACK_SIZE => Signed(m, Span(sf)) = m
  <1> DEFINE n == Span(sf)
  <1>1. n \in Nat \ {0} /\ n >= HALF /\ HALF \in Nat BY Widths DEF Span
  <1>2. STACK_SIZE \in Nat \ {0} /\ 2 * (STACK_SIZE + 8) <= HALF
    BY StackAssumption
  <1>3. m \in 0 .. n - 1 OBVIOUS
  <1> HIDE DEF n
  <1>4. /\ InRange(Signed(m, n)) <=> m <= STACK_SIZE
        /\ m <= STACK_SIZE => Signed(m, n) = m
    BY <1>1, <1>2, <1>3 DEF InRange, Signed, Neg
  <1> QED BY <1>4 DEF n

\* The address part of Arm!AccessDeparts for an access of some bytes from
\* base, the last of its Size(sf) bytes from an address of its own.
Strays(sf, base, extent) ==
  \/ ~sf /\ base >= HALF /\ base % HALF <= STACK_SIZE
  \/ /\ (base + extent - Size(sf)) % Span(sf) <= STACK_SIZE
     /\ ((base + extent - Size(sf)) % Span(sf)) + Size(sf) > STACK_SIZE

\* An access that does not stray passes the bound check if it fits.
LEMMA OneFits ==
  ASSUME NEW sf \in BOOLEAN, NEW base \in Words,
         ~Strays(sf, base, Size(sf))
  PROVE  LET off == Signed(base % Span(sf), Span(sf))
         IN /\ InRange(off) <=> base + Size(sf) <= STACK_SIZE
            /\ InRange(off) => off = base
  <1> DEFINE n == Span(sf)
             s == Size(sf)
             m == base % n
  <1>1. /\ n \in Nat \ {0} /\ n >= HALF /\ HALF \in Nat
        /\ (sf => n = WORD) /\ (~sf => n = HALF)
    BY Widths DEF Span
  <1>2. STACK_SIZE \in Nat \ {0} /\ 2 * (STACK_SIZE + 8) <= HALF
    BY StackAssumption
  <1>3. s \in {4, 8} BY DEF Size
  <1>4. base \in 0 .. WORD - 1 /\ WORD \in Nat BY Widths DEF Words
  <1>5. base + s - s = base BY <1>3, <1>4
  <1>6. /\ ~(~sf /\ base >= HALF /\ m <= STACK_SIZE)
        /\ ~(m <= STACK_SIZE /\ m + s > STACK_SIZE)
    BY <1>1, <1>5 DEF Strays
  <1>7. /\ InRange(Signed(m, n)) <=> m <= STACK_SIZE
        /\ m <= STACK_SIZE => Signed(m, n) = m
    <2>1. m \in 0 .. Span(sf) - 1
      <3> HIDE DEF n
      <3>1. m \in 0 .. n - 1 BY <1>1, <1>4, DivMod
      <3> QED BY <3>1 DEF n
    <2> HIDE DEF m
    <2> QED BY <2>1, InRangeIs
  <1> HIDE DEF n, s
  <1>8. base < n => m = base BY <1>1, <1>4, ModSmall
  <1>9. m \in 0 .. n - 1 BY <1>1, <1>4, DivMod
  <1> HIDE DEF m
  <1>10. m <= STACK_SIZE <=> base + s <= STACK_SIZE
    BY <1>1, <1>2, <1>3, <1>4, <1>6, <1>8, <1>9
  <1>11. m <= STACK_SIZE => m = base BY <1>1, <1>4, <1>6, <1>8, <1>9
  <1> QED BY <1>7, <1>10, <1>11 DEF n, s, m

\* The same of a pair.
LEMMA PairFits ==
  ASSUME NEW sf \in BOOLEAN, NEW base \in Words,
         ~Strays(sf, base, 2 * Size(sf))
  PROVE  LET off1 == Signed(base % Span(sf), Span(sf))
             off2 == Signed((base + Size(sf)) % Span(sf), Span(sf))
         IN /\ InRange(off1) /\ InRange(off2)
                 <=> base + 2 * Size(sf) <= STACK_SIZE
            /\ InRange(off1) /\ InRange(off2) =>
                 off1 = base /\ off2 = base + Size(sf)
  <1> DEFINE n == Span(sf)
             s == Size(sf)
             next == base + s
             m1 == base % n
             m2 == next % n
  <1>1. /\ n \in Nat \ {0} /\ n >= HALF /\ HALF \in Nat
        /\ (sf => n = WORD) /\ (~sf => n = HALF)
    BY Widths DEF Span
  <1>2. STACK_SIZE \in Nat \ {0} /\ 2 * (STACK_SIZE + 8) <= HALF
    BY StackAssumption
  <1>3. s \in {4, 8} BY DEF Size
  <1>4. base \in 0 .. WORD - 1 /\ WORD \in Nat BY Widths DEF Words
  <1>5. base + 2 * s - s = next BY <1>3, <1>4
  <1>6. /\ ~(~sf /\ base >= HALF /\ m1 <= STACK_SIZE)
        /\ ~(m2 <= STACK_SIZE /\ m2 + s > STACK_SIZE)
    BY <1>1, <1>5 DEF Strays
  <1> HIDE DEF s
  <1>7. next \in Int BY <1>3, <1>4
  <1> HIDE DEF n, next
  <1>8. m1 \in 0 .. n - 1 BY <1>1, <1>4, DivMod
  <1>9. m2 \in 0 .. n - 1 BY <1>1, <1>7, DivMod
  <1>10. base < n => m1 = base BY <1>1, <1>4, ModSmall
  <1>11. next \in 0 .. n - 1 => m2 = next BY <1>1, ModSmall
  <1> HIDE DEF m1, m2
  <1>12. /\ InRange(Signed(m1, n)) <=> m1 <= STACK_SIZE
         /\ m1 <= STACK_SIZE => Signed(m1, n) = m1
         /\ InRange(Signed(m2, n)) <=> m2 <= STACK_SIZE
         /\ m2 <= STACK_SIZE => Signed(m2, n) = m2
    BY <1>8, <1>9, InRangeIs DEF n
  <1>13. m1 <= STACK_SIZE => m1 = base BY <1>1, <1>4, <1>6, <1>8, <1>10
  <1>14. m1 <= STACK_SIZE => m2 = next
    <2> SUFFICES ASSUME m1 <= STACK_SIZE PROVE m2 = next OBVIOUS
    <2>1. next = m1 + s BY <1>13 DEF next
    <2>2. next \in 0 .. n - 1 BY <1>1, <1>2, <1>3, <1>8, <2>1
    <2> QED BY <1>11, <2>2
  <1>15. next = base + s /\ base + 2 * s = next + s BY <1>3, <1>4 DEF next
  <1>16. m1 <= STACK_SIZE /\ m2 <= STACK_SIZE <=> base + 2 * s <= STACK_SIZE
    BY <1>1, <1>2, <1>3, <1>4, <1>6, <1>8, <1>9, <1>10, <1>13, <1>14, <1>15
  <1>17. /\ InRange(Signed(m1, n)) /\ InRange(Signed(m2, n))
              <=> base + 2 * s <= STACK_SIZE
         /\ InRange(Signed(m1, n)) /\ InRange(Signed(m2, n)) =>
              Signed(m1, n) = base /\ Signed(m2, n) = next
    BY <1>12, <1>13, <1>14, <1>16
  <1> QED BY <1>17 DEF n, s, m1, m2, next

-----------------------------------------------------------------------------
(* Loads and stores: the access.                                           *)

Accesses == {"StrImm", "LdrImm", "Stur", "Stp", "Ldp"}
Pairs == {"Stp", "Ldp"}

\* What a handler adds to the base.
Step(i) ==
  IF i.op = "Stur" THEN Signed(i.imm % IMM9, IMM9)
  ELSE IF i.op \in Pairs \/ i.mode = "offset" THEN Scaled(i) ELSE i.imm

\* The fields of an access, and what Arm!Departs leaves of them.
LEMMA AccessFields ==
  ASSUME NEW i, Ready(i), i.op \in Accesses, ~i.narrow
  PROVE  /\ i.op \in Pairs => /\ 2 * i.imm < IMM7
                              /\ i.mode = "post" => i.imm = 0
         /\ i.op \notin Pairs => i.mode # "post"
         /\ i.op \notin Pairs /\ i.mode = "pre" => 2 * i.imm < IMM9
         /\ i.op = "Stur" => i.mode = "offset"
         /\ i.op = "StrImm" /\ i.sf /\ i.mode = "pre" => i.imm = 0
         /\ ~Strays(i.sf, Architecture!Base(i), Architecture!Extent(i))
         /\ i.op \in {"LdrImm", "Ldp"} => i.rd # 31
         /\ i.op = "Ldp" => i.rm # 31 /\ i.rd # i.rm
         /\ Architecture!Written(i) /\ i.rn # 31 => i.rn # i.rd
         /\ Architecture!Written(i) /\ i.rn # 31 /\ i.op \in Pairs => i.rn # i.rm
         /\ ~i.sf /\ Architecture!Base(i) % HALF <= STACK_SIZE =>
              /\ Architecture!Written(i) => ~(r[i.rn] >= HALF)
              /\ i.op \in {"LdrImm", "Ldp"} => ~(r[i.rd] >= HALF)
              /\ i.op = "Ldp" => ~(r[i.rm] >= HALF)
  <1>1. ~Architecture!AccessDeparts(i)
    BY DEF Ready, Architecture!Departs, Architecture!Handler, Accesses
  <1>2. IMM7 \in Nat /\ IMM9 \in Nat BY FieldAssumption
  <1>3. i.imm \in Nat /\ i.mode \in {"offset", "pre", "post"}
    BY DEF Ready, Instr
  <1>4. Architecture!IsPair(i) <=> i.op \in Pairs
    BY DEF Architecture!IsPair, Pairs
  <1>5. i.mode # "offset" => i.op # "Stur"
    BY DEF Ready, Encodable
  <1>6. Architecture!Written(i) <=> i.mode # "offset" /\ i.op # "Stur"
    BY DEF Architecture!Written
  <1>7. ~Strays(i.sf, Architecture!Base(i), Architecture!Extent(i))
    BY <1>1, SameWidths DEF Architecture!AccessDeparts, Strays
  <1>8. /\ ~(i.op \in Pairs /\ (2 * i.imm >= IMM7 \/ (i.mode = "post" /\ i.imm # 0)))
        /\ ~(i.op \notin Pairs /\ Architecture!Written(i)
              /\ (2 * i.imm >= IMM9 \/ i.mode = "post"))
        /\ ~(i.op = "StrImm" /\ i.sf /\ i.mode = "pre" /\ i.imm # 0)
    BY <1>1, <1>4 DEF Architecture!AccessDeparts
  <1>9. /\ i.op \in {"LdrImm", "Ldp"} => i.rd # 31
        /\ i.op = "Ldp" => i.rm # 31 /\ i.rd # i.rm
        /\ Architecture!Written(i) /\ i.rn # 31 => i.rn # i.rd
        /\ Architecture!Written(i) /\ i.rn # 31 /\ i.op \in Pairs => i.rn # i.rm
    BY <1>1, <1>4 DEF Architecture!AccessDeparts
  <1>10. ASSUME ~i.sf, Architecture!Base(i) % HALF <= STACK_SIZE
         PROVE  /\ Architecture!Written(i) => ~(r[i.rn] >= HALF)
                /\ i.op \in {"LdrImm", "Ldp"} => ~(r[i.rd] >= HALF)
                /\ i.op = "Ldp" => ~(r[i.rm] >= HALF)
    BY <1>1, <1>10, SameWidths DEF Architecture!AccessDeparts
  <1> QED BY <1>2, <1>3, <1>5, <1>6, <1>7, <1>8, <1>9, <1>10

\* A handler computes Arm's address, in the width of its view.
LEMMA AccessAddress ==
  ASSUME NEW i, Ready(i), i.op \in Accesses, ~i.narrow
  PROVE  /\ Step(i) \in Int
         /\ Architecture!Base(i) \in Words
         /\ Architecture!Base(i) = (r[i.rn] + Step(i)) % WORD
         /\ Architecture!Address(i) = Architecture!Base(i)
         /\ (Rn(i) + Step(i)) % Span(i.sf) = Architecture!Base(i) % Span(i.sf)
  <1>1. /\ i.imm \in Nat /\ i.mode \in {"offset", "pre", "post"}
        /\ i.sf \in BOOLEAN /\ i.rn \in Regs /\ r \in [Regs -> Words]
    BY DEF Ready, CoreTypeOK, Instr
  <1>2. IMM7 \in Nat \ {0} /\ IMM9 \in Nat \ {0} BY FieldAssumption
  <1>3. Size(i.sf) \in Nat BY DEF Size
  <1>4. Scaled(i) \in Nat /\ Scaled(i) = i.imm * Size(i.sf)
    BY <1>1, <1>3 DEF Scaled
  <1>5. Signed(i.imm % IMM9, IMM9) \in Int BY <1>1, <1>2, SignedType
  <1>6. Step(i) \in Int BY <1>1, <1>4, <1>5 DEF Step
  <1>7. Architecture!Amount(i) = Step(i)
    <2>1. CASE i.op \in Pairs
      <3>1. Signed(i.imm % IMM7, IMM7) = i.imm
        BY <1>1, <1>2, <2>1, AccessFields, SignedSmall
      <3>2. Architecture!IsPair(i) BY <2>1 DEF Architecture!IsPair, Pairs
      <3>3. Architecture!Amount(i)
              = Signed(i.imm % IMM7, IMM7) * Size(i.sf)
        BY <3>2, SameSigns, SameWidths, Zenon DEF Architecture!Amount
      <3>4. Step(i) = Scaled(i) BY <2>1 DEF Step, Pairs
      <3> QED BY <1>4, <3>1, <3>3, <3>4
    <2>2. CASE i.op = "Stur"
      BY <2>2, SameSigns
         DEF Architecture!Amount, Architecture!IsPair, Step, Pairs
    <2>3. CASE i.op \in {"StrImm", "LdrImm"} /\ i.mode = "offset"
      BY <1>4, <2>3, SameWidths
         DEF Architecture!Amount, Architecture!IsPair, Architecture!Written,
             Step, Pairs
    <2>4. CASE i.op \in {"StrImm", "LdrImm"} /\ i.mode = "pre"
      <3>1. i.op \notin Pairs BY <2>4 DEF Pairs
      <3>2. Signed(i.imm % IMM9, IMM9) = i.imm
        BY <1>1, <1>2, <2>4, <3>1, AccessFields, SignedSmall
      <3> QED
        BY <2>4, <3>1, <3>2, SameSigns
           DEF Architecture!Amount, Architecture!IsPair, Architecture!Written,
               Step, Pairs
    <2>5. i.op \in {"StrImm", "LdrImm"} => i.mode # "post"
      BY AccessFields DEF Pairs
    <2> QED BY <1>1, <2>1, <2>2, <2>3, <2>4, <2>5 DEF Accesses, Pairs
  <1>8. Architecture!Base(i) = (r[i.rn] + Step(i)) % WORD
    BY <1>7, SameWidths DEF Architecture!Base
  <1>9. r[i.rn] \in 0 .. WORD - 1 /\ WORD \in Nat \ {0}
    BY <1>1, Widths DEF Words
  <1>10. Architecture!Base(i) \in Words
    <2>1. r[i.rn] + Step(i) \in Int BY <1>6, <1>9
    <2> DEFINE y == r[i.rn] + Step(i)
    <2> HIDE DEF y
    <2>2. y \in Int BY <2>1 DEF y
    <2>3. y % WORD \in 0 .. WORD - 1 BY <1>9, <2>2, DivMod
    <2> QED BY <1>8, <2>3 DEF Words, y
  <1>11. Architecture!Address(i) = Architecture!Base(i)
    <2>1. CASE i.mode = "post"
      <3>1. i.op \in Pairs /\ i.imm = 0 BY <2>1, AccessFields
      <3>2. 0 * Size(i.sf) = 0 BY <1>3
      <3>3. Step(i) = 0 BY <1>4, <3>1, <3>2 DEF Step, Pairs
      <3>4. r[i.rn] + 0 = r[i.rn] BY <1>9
      <3>5. r[i.rn] % WORD = r[i.rn] BY <1>9, ModSmall
      <3> QED BY <1>8, <2>1, <3>3, <3>4, <3>5 DEF Architecture!Address
    <2>2. CASE i.mode # "post" BY <2>2 DEF Architecture!Address
    <2> QED BY <2>1, <2>2
  <1>12. (Rn(i) + Step(i)) % Span(i.sf) = Architecture!Base(i) % Span(i.sf)
    BY <1>1, <1>6, <1>8, ViewAddress DEF Rn
  <1> QED BY <1>6, <1>8, <1>10, <1>11, <1>12

\* The one access of STR, LDR or STUR passes the bound check if it fits.
LEMMA SingleAccess ==
  ASSUME NEW i, Ready(i), i.op \in {"StrImm", "LdrImm", "Stur"}, ~i.narrow,
         NEW off, off = Offset(i.sf, Rn(i) + Step(i))
  PROVE  /\ InRange(off) <=> Architecture!Fits(i)
         /\ InRange(off) => off = Architecture!Address(i)
         /\ Architecture!Extent(i) = Size(i.sf)
  <1>1. i.op \in Accesses BY DEF Accesses
  <1>2. Architecture!Extent(i) = Size(i.sf)
    BY SameWidths DEF Architecture!Extent, Architecture!IsPair
  <1>3. i.sf \in BOOLEAN BY DEF Ready, Instr
  <1> DEFINE base == Architecture!Base(i)
  <1>4. off = Signed(base % Span(i.sf), Span(i.sf))
    BY <1>1, AccessAddress DEF Offset
  <1>5. base \in Words /\ base = Architecture!Address(i)
    BY <1>1, AccessAddress
  <1>6. ~Strays(i.sf, base, Size(i.sf)) BY <1>1, <1>2, AccessFields
  <1> HIDE DEF base
  <1>7. /\ InRange(off) <=> base + Size(i.sf) <= STACK_SIZE
        /\ InRange(off) => off = base
    BY <1>3, <1>4, <1>5, <1>6, OneFits
  <1>8. Architecture!Fits(i) <=> base + Size(i.sf) <= STACK_SIZE
    BY <1>2, <1>5 DEF Architecture!Fits
  <1> QED BY <1>2, <1>5, <1>7, <1>8

\* The two accesses of STP or LDP pass the bound check if both fit.
LEMMA PairAccess ==
  ASSUME NEW i, Ready(i), i.op \in Pairs,
         NEW off1, off1 = Offset(i.sf, Rn(i) + Scaled(i)),
         NEW off2, off2 = Offset(i.sf, Rn(i) + Scaled(i) + Size(i.sf))
  PROVE  /\ InRange(off1) /\ InRange(off2) <=> Architecture!Fits(i)
         /\ InRange(off1) /\ InRange(off2) =>
              /\ off1 = Architecture!Address(i)
              /\ off2 = Architecture!Address(i) + Size(i.sf)
         /\ Architecture!Extent(i) = 2 * Size(i.sf)
  <1>1. i.op \in Accesses /\ i.op # "Stur" BY DEF Accesses, Pairs
  <1>2. i.narrow = FALSE BY DEF Ready, Encodable, Instr, Pairs
  <1>3. Architecture!Extent(i) = 2 * Size(i.sf)
    BY SameWidths DEF Architecture!Extent, Architecture!IsPair, Pairs
  <1>4. i.sf \in BOOLEAN /\ i \in Instr /\ CoreTypeOK BY DEF Ready, Instr
  <1>5. Step(i) = Scaled(i) BY <1>1 DEF Step
  <1> DEFINE base == Architecture!Base(i)
             n == Span(i.sf)
             x == Rn(i) + Scaled(i)
             s == Size(i.sf)
  <1>6. base \in Words /\ base = Architecture!Address(i) /\ x % n = base % n
    BY <1>1, <1>2, <1>5, AccessAddress
  <1>7. ~Strays(i.sf, base, 2 * s) BY <1>1, <1>2, <1>3, AccessFields
  <1>8. x \in Int /\ s \in Int
    BY <1>4, OperandType DEF Size
  <1>9. n \in Nat \ {0} /\ base \in Int BY <1>6, Widths DEF Span, Words
  <1>10. off1 = Signed(x % n, n) /\ off2 = Signed((x + s) % n, n)
    BY DEF Offset
  <1> HIDE DEF base, n, x, s
  <1>11. (x + s) % n = (base + s) % n
    <2>1. ((x % n) + s) % n = (x + s) % n BY <1>8, <1>9, ModPlus
    <2>2. ((base % n) + s) % n = (base + s) % n BY <1>8, <1>9, ModPlus
    <2> QED BY <1>6, <2>1, <2>2
  <1>12. /\ InRange(off1) /\ InRange(off2) <=> base + 2 * s <= STACK_SIZE
         /\ InRange(off1) /\ InRange(off2) => off1 = base /\ off2 = base + s
    BY <1>4, <1>6, <1>7, <1>10, <1>11, PairFits DEF n, s
  <1>13. Architecture!Fits(i) <=> base + 2 * s <= STACK_SIZE
    BY <1>2, <1>3, <1>6 DEF Architecture!Fits, s
  <1> QED BY <1>3, <1>6, <1>12, <1>13 DEF s

\* An access that fits has a base that the W form holds as well, and every
\* register it writes has zeros in the high half of the W form.
LEMMA FitsNarrow ==
  ASSUME NEW i, Ready(i), i.op \in Accesses, ~i.narrow, Architecture!Fits(i)
  PROVE  /\ Architecture!Base(i) % Span(i.sf) = Architecture!Base(i)
         /\ Architecture!Written(i) => r[i.rn] < Span(i.sf)
         /\ i.op \in {"LdrImm", "Ldp"} => r[i.rd] < Span(i.sf)
         /\ i.op = "Ldp" => r[i.rm] < Span(i.sf)
  <1> DEFINE base == Architecture!Base(i)
  <1>1. /\ HALF \in Nat \ {0} /\ WORD \in Nat \ {0} /\ HALF <= WORD
        /\ STACK_SIZE \in Nat /\ 2 * (STACK_SIZE + 8) <= HALF
    BY Widths, StackAssumption
  <1>2. base \in 0 .. WORD - 1 /\ base = Architecture!Address(i)
    BY AccessAddress DEF Words
  <1>3. Architecture!Extent(i) \in {4, 8, 16}
    BY DEF Architecture!Extent, Architecture!Size
  <1>4. base <= STACK_SIZE
    <2>1. base + Architecture!Extent(i) <= STACK_SIZE
      BY <1>2 DEF Architecture!Fits
    <2> HIDE DEF base
    <2> QED BY <1>1, <1>2, <1>3, <2>1
  <1>5. \A k \in Regs : r[k] \in 0 .. WORD - 1
    BY Widths DEF Ready, CoreTypeOK, Words
  <1>6. i.rn \in Regs /\ i.rd \in Regs /\ i.rm \in Regs BY DEF Ready, Instr
  <1>7. base % HALF = base /\ base % Span(i.sf) = base
    <2> HIDE DEF base
    <2>1. base \in 0 .. HALF - 1 BY <1>1, <1>2, <1>4
    <2>2. base % HALF = base BY <1>1, <2>1, ModSmall
    <2>3. base % WORD = base BY <1>1, <1>2, ModSmall
    <2> QED BY <2>2, <2>3 DEF Span
  <1>8. ~i.sf => /\ Architecture!Written(i) => ~(r[i.rn] >= HALF)
                 /\ i.op \in {"LdrImm", "Ldp"} => ~(r[i.rd] >= HALF)
                 /\ i.op = "Ldp" => ~(r[i.rm] >= HALF)
    BY <1>4, <1>7, AccessFields
  <1> QED BY <1>1, <1>5, <1>6, <1>7, <1>8 DEF Span

-----------------------------------------------------------------------------
(* The logger.                                                             *)

\* What Arm makes of a store it does not leave open spares the logger: the
\* bound check lets an access pass only if it fits.
LEMMA NoOverrun ==
  ASSUME NEW i, Ready(i), TypeOK, Next, Execute, Handler(i.op) = i.op
  PROVE  LoggerIntact'
  <1> SUFFICES ASSUME NEW a \in Behind, mem'[a] # mem[a] PROVE FALSE
    BY SamePointer DEF Ready
  <1>1. a \in ObjectBytes /\ a \in Int /\ a >= STACK_SIZE
    BY StackAssumption DEF Behind, ObjectBytes
  <1>2. text[pc] = i /\ i \in Instr /\ Encodable(i) /\ CoreTypeOK BY DEF Ready
  <1>3. Covers(i, a) BY <1>1, <1>2, WritingStep
  <1>4. \/ i.op = "StrImm" /\ StrImm(i)
        \/ i.op = "Stur" /\ Stur(i)
        \/ i.op = "Stp" /\ Stp(i)
    <2>1. mem' # mem OBVIOUS
    <2>2. \/ Fetched("StrImm") /\ StrImm(text[pc])
          \/ Fetched("Stur") /\ Stur(text[pc])
          \/ Fetched("Stp") /\ Stp(text[pc])
      BY <2>1, ReadingOnly DEF Execute
    <2> QED BY <1>2, <2>2 DEF Fetched
  <1>5. STACK_SIZE \in Nat /\ Size(i.sf) \in {4, 8}
    BY StackAssumption DEF Size
  <1>6. \A off \in StoreOffsets(i) : off \in Int BY <1>2, StoreOffsetType
  <1>7. CASE i.op \in {"StrImm", "Stur"}
    <2> DEFINE off == Offset(i.sf, Rn(i) + Step(i))
    <2>1. ~i.narrow
      BY <1>4, <1>7 DEF StrImm, Stur, Stop, coreVars
    <2>2. StoreOffsets(i) = {off}
      BY <1>7 DEF StoreOffsets, Handler, Step, Pairs
    <2>3. InRange(off) /\ off <= a /\ a < off + Size(i.sf)
      BY <1>3, <2>2 DEF Covers
    <2>4. off = Architecture!Address(i) /\ Architecture!Fits(i)
          /\ Architecture!Extent(i) = Size(i.sf)
      BY <1>7, <2>1, <2>3, SingleAccess
    <2>5. off + Size(i.sf) <= STACK_SIZE BY <2>4 DEF Architecture!Fits
    <2>6. off \in Int BY <1>6, <2>2
    <2> HIDE DEF off
    <2> QED BY <1>1, <1>5, <2>3, <2>5, <2>6
  <1>8. CASE i.op = "Stp"
    <2> DEFINE off1 == Offset(i.sf, Rn(i) + Scaled(i))
               off2 == Offset(i.sf, Rn(i) + Scaled(i) + Size(i.sf))
    <2>1. InRange(off1) /\ InRange(off2)
      BY <1>4, <1>8 DEF Stp, Throw, coreVars
    <2>2. /\ off1 = Architecture!Address(i) /\ Architecture!Fits(i)
          /\ off2 = Architecture!Address(i) + Size(i.sf)
          /\ Architecture!Extent(i) = 2 * Size(i.sf)
      BY <1>8, <2>1, PairAccess DEF Pairs
    <2>3. StoreOffsets(i) = {off1, off2} BY <1>8 DEF StoreOffsets, Handler
    <2>4. off1 \in Int /\ off2 \in Int BY <1>6, <2>3
    <2>5. a < off1 + Size(i.sf) \/ a < off2 + Size(i.sf)
      BY <1>3, <2>3 DEF Covers
    <2>6. off1 + 2 * Size(i.sf) <= STACK_SIZE BY <2>2 DEF Architecture!Fits
    <2>7. off2 = off1 + Size(i.sf) BY <2>2
    <2> HIDE DEF off1, off2
    <2> QED BY <1>1, <1>5, <2>4, <2>5, <2>6, <2>7
  <1> QED BY <1>4, <1>7, <1>8

-----------------------------------------------------------------------------
(* Stores.                                                                 *)

\* Bytes written at an address are the bytes of the value.
LEMMA StoreAt ==
  ASSUME NEW m, NEW sf, NEW a \in Int, NEW v, NEW b \in ObjectBytes
  PROVE  Store(m, sf, a, v)[b] =
           IF b - a \in 0 .. Size(sf) - 1 THEN ByteOf(v, b - a) ELSE m[b]
  <1>1. b \in Int BY StackAssumption DEF ObjectBytes
  <1>2. Size(sf) \in Int BY DEF Size
  <1>3. (a <= b /\ b < a + Size(sf)) <=> b - a \in 0 .. Size(sf) - 1
    BY <1>1, <1>2
  <1> QED BY <1>3 DEF Store

\* A write-back of the base, beside writes to other registers.
LEMMA BaseWritten ==
  ASSUME NEW i, Stepping(i), i.op \in Accesses, ~i.narrow,
         Architecture!Written(i), Architecture!Fits(i), NEW ks,
         NEW f \in [Regs -> Words], f[i.rn] = r[i.rn],
         \A k \in Regs \ ks : f[k] = r[k],
         r' = SetR(f, i.sf, i.rn, GetR(f, i.sf, i.rn) + Step(i))
  PROVE  Architecture!WritesBack(i, ks)
  <1>1. i.sf \in BOOLEAN /\ i.rn \in Regs BY DEF Stepping, Ready, Instr
  <1>2. Step(i) \in Int /\ Rn(i) \in Int
    <2>1. i \in Instr /\ CoreTypeOK BY DEF Stepping, Ready
    <2>2. Ready(i) BY DEF Stepping
    <2> QED BY <2>1, <2>2, AccessAddress, OperandType
  <1>3. GetR(f, i.sf, i.rn) = Rn(i) BY DEF GetR, Rn
  <1> DEFINE v == Rn(i) + Step(i)
  <1>4. v \in Int /\ r' = SetR(f, i.sf, i.rn, v) BY <1>2, <1>3
  <1>5. /\ v % Span(i.sf) = Architecture!Base(i)
        /\ f[i.rn] < Span(i.sf)
    <2>1. Ready(i) BY DEF Stepping
    <2> QED BY <2>1, AccessAddress, FitsNarrow
  <1> HIDE DEF v
  <1>6. r' = Put(f, i.rn, v % Span(i.sf)) BY <1>1, <1>4, <1>5, SetRIs
  <1>7. /\ r'[i.rn] = Architecture!Base(i)
        /\ \A j \in Regs \ {i.rn} : r'[j] = f[j]
    BY <1>1, <1>5, <1>6 DEF Put
  <1>8. Architecture!KeepsBut(ks \cup {i.rn})
    BY <1>7 DEF Architecture!KeepsBut
  <1> QED BY <1>7, <1>8 DEF Architecture!WritesBack

-----------------------------------------------------------------------------
(* STR and STUR.                                                           *)

\* The bytes that Arm's stores leave.
Stored(i) ==
  \A a \in ObjectBytes :
    LET k == a - Architecture!Address(i)
    IN mem'[a] =
         CASE k \in 0 .. Size(i.sf) - 1 -> ByteOf(OrZero(i, i.rd), k)
           [] k \in Size(i.sf) .. Architecture!Extent(i) - 1 ->
                ByteOf(OrZero(i, i.rm), k - Size(i.sf))
           [] OTHER -> mem[a]

\* What is left to show of a store that fits.
LEMMA StoreDone ==
  ASSUME NEW i, Stepping(i), Architecture!Fits(i), Stored(i),
         Architecture!WritesBack(i, {}), Advance, UNCHANGED <<pc, nzcv>>
  PROVE  Architecture!Store(i)
  <1>1. i \in Instr /\ CoreTypeOK /\ i.rd \in Regs /\ i.rm \in Regs
    BY DEF Stepping, Ready, Instr
  <1>2. /\ Architecture!ZReg(i, i.rd) = OrZero(i, i.rd)
        /\ Architecture!ZReg(i, i.rm) = OrZero(i, i.rm)
    BY <1>1, ArmReg
  <1>3. Architecture!GoesOn BY ArrivesNext
  <1> QED
    BY <1>2, <1>3, SameSets, SameWidths, SameBytes
       DEF Architecture!Store, Stored

\* One value stored.
LEMMA StoredOne ==
  ASSUME NEW i, Stepping(i), i.op \in {"StrImm", "Stur"}, ~i.narrow,
         mem' = Store(mem, i.sf, Architecture!Address(i), OrZero(i, i.rd))
  PROVE  Stored(i)
  <1>1. i.op \in Accesses BY DEF Accesses
  <1>2. Architecture!Address(i) \in Int
    BY <1>1, AccessAddress, Widths DEF Words, Stepping
  <1>3. Architecture!Extent(i) = Size(i.sf)
    BY SameWidths DEF Architecture!Extent, Architecture!IsPair
  <1>4. \A k : k \notin Size(i.sf) .. Size(i.sf) - 1 BY DEF Size
  <1>5. ASSUME NEW a \in ObjectBytes
        PROVE  mem'[a] = IF a - Architecture!Address(i) \in 0 .. Size(i.sf) - 1
                           THEN ByteOf(OrZero(i, i.rd), a - Architecture!Address(i))
                           ELSE mem[a]
    BY <1>2, <1>5, StoreAt
  <1> QED BY <1>3, <1>4, <1>5 DEF Stored

\* STUR.
LEMMA SturConforms ==
  ASSUME NEW i, Stepping(i), i.op = "Stur", Stur(i)
  PROVE  Architecture!Store(i)
  <1> DEFINE off == Offset(i.sf, Rn(i) + Step(i))
  <1>1. Step(i) = Signed(i.imm % IMM9, IMM9) BY DEF Step
  <1>2. \/ i.narrow /\ Stop
        \/ ~i.narrow /\ ~InRange(off) /\ Throw
        \/ /\ ~i.narrow /\ InRange(off)
           /\ mem' = Store(mem, i.sf, off, OrZero(i, i.rd))
           /\ Advance
           /\ UNCHANGED <<r, pc, nzcv>>
    BY <1>1 DEF Stur
  <1>3. ~i.narrow => /\ InRange(off) <=> Architecture!Fits(i)
                     /\ InRange(off) => off = Architecture!Address(i)
    BY SingleAccess DEF Stepping
  <1> HIDE DEF off
  <1>4. CASE i.narrow /\ Stop
    BY <1>4, FailsThere DEF Architecture!Store, Architecture!Fits
  <1>5. CASE ~i.narrow /\ ~InRange(off) /\ Throw
    BY <1>3, <1>5, FailsThere DEF Architecture!Store
  <1>6. CASE /\ ~i.narrow /\ InRange(off)
             /\ mem' = Store(mem, i.sf, off, OrZero(i, i.rd))
             /\ Advance
             /\ UNCHANGED <<r, pc, nzcv>>
    <2>1. Stored(i) BY <1>3, <1>6, StoredOne
    <2>2. Architecture!WritesBack(i, {})
      BY <1>6 DEF Architecture!WritesBack, Architecture!Written,
                  Architecture!KeepsBut
    <2> QED BY <1>3, <1>6, <2>1, <2>2, StoreDone
  <1> QED BY <1>2, <1>4, <1>5, <1>6

\* STR with an immediate.
LEMMA StrImmConforms ==
  ASSUME NEW i, Stepping(i), i.op = "StrImm", StrImm(i)
  PROVE  Architecture!Store(i)
  <1> DEFINE off == Offset(i.sf, Rn(i) + Step(i))
             back == IF i.mode = "pre" /\ ~i.sf
                       THEN SetR(r, FALSE, i.rn, Rn(i) + Step(i)) ELSE r
  <1>1. Step(i) = IF i.mode = "offset" THEN Scaled(i) ELSE i.imm
    BY DEF Step, Pairs
  <1>2. \/ i.narrow /\ Stop
        \/ ~i.narrow /\ ~InRange(off) /\ Throw
        \/ ~i.narrow /\ InRange(off) /\ i.mode = "post" /\ Stop
        \/ /\ ~i.narrow /\ InRange(off) /\ i.mode # "post"
           /\ mem' = Store(mem, i.sf, off, OrZero(i, i.rd))
           /\ r' = back
           /\ Advance
           /\ UNCHANGED <<pc, nzcv>>
    BY <1>1 DEF StrImm
  <1>3. ~i.narrow => /\ InRange(off) <=> Architecture!Fits(i)
                     /\ InRange(off) => off = Architecture!Address(i)
    BY SingleAccess DEF Stepping
  <1>4. i.op \in Accesses /\ i.op \notin Pairs BY DEF Accesses, Pairs
  <1> HIDE DEF off
  <1>5. CASE i.narrow /\ Stop
    BY <1>5, FailsThere DEF Architecture!Store, Architecture!Fits
  <1>6. CASE ~i.narrow /\ ~InRange(off) /\ Throw
    BY <1>3, <1>6, FailsThere DEF Architecture!Store
  <1>7. ~(~i.narrow /\ i.mode = "post") BY <1>4, AccessFields DEF Stepping
  <1>8. CASE /\ ~i.narrow /\ InRange(off) /\ i.mode # "post"
             /\ mem' = Store(mem, i.sf, off, OrZero(i, i.rd))
             /\ r' = back
             /\ Advance
             /\ UNCHANGED <<pc, nzcv>>
    <2>1. Stored(i) BY <1>3, <1>8, StoredOne
    <2>2. /\ r \in [Regs -> Words] /\ i.rn \in Regs /\ i.sf \in BOOLEAN
          /\ i.mode \in {"offset", "pre", "post"}
      BY DEF Stepping, Ready, CoreTypeOK, Instr
    <2>3. Architecture!WritesBack(i, {})
      <3>1. CASE i.mode = "offset"
        BY <1>8, <3>1 DEF Architecture!WritesBack, Architecture!Written,
                    Architecture!KeepsBut
      <3>2. CASE i.mode = "pre" /\ ~i.sf
        <4>1. r' = SetR(r, i.sf, i.rn, GetR(r, i.sf, i.rn) + Step(i))
          BY <1>8, <2>2, <3>2 DEF Rn
        <4>2. Architecture!Written(i)
          BY <3>2 DEF Architecture!Written
        <4> QED BY <1>3, <1>4, <1>8, <2>2, <4>1, <4>2, BaseWritten
      \* The X form does not write its base back: only a zero step conforms.
      <3>3. CASE i.mode = "pre" /\ i.sf
        <4>1. Step(i) = 0 BY <1>1, <1>4, <1>8, <3>3, AccessFields DEF Stepping
        <4>2. r[i.rn] \in 0 .. WORD - 1 /\ WORD \in Nat \ {0}
          BY <2>2, Widths DEF Words
        <4>3. r[i.rn] + 0 = r[i.rn] /\ r[i.rn] % WORD = r[i.rn]
          BY <4>2, ModSmall
        <4>4. Architecture!Base(i) = r[i.rn]
          BY <1>4, <1>8, <4>1, <4>3, AccessAddress DEF Stepping
        <4>5. r' = r BY <1>8, <3>3
        <4> QED
          BY <4>4, <4>5 DEF Architecture!WritesBack, Architecture!KeepsBut
      <3> QED BY <1>8, <2>2, <3>1, <3>2, <3>3
    <2> QED BY <1>3, <1>8, <2>1, <2>3, StoreDone
  <1> QED BY <1>2, <1>5, <1>6, <1>7, <1>8

-----------------------------------------------------------------------------
(* STP.                                                                    *)

\* Two stores to adjacent addresses, both checked before the first.
LEMMA StpConforms ==
  ASSUME NEW i, Stepping(i), i.op = "Stp", Stp(i)
  PROVE  Architecture!Store(i)
  <1> DEFINE off1 == Offset(i.sf, Rn(i) + Scaled(i))
             off2 == Offset(i.sf, Rn(i) + Scaled(i) + Size(i.sf))
             once == Store(mem, i.sf, off1, OrZero(i, i.rd))
  <1>1. \/ ~(InRange(off1) /\ InRange(off2)) /\ Throw
        \/ /\ InRange(off1) /\ InRange(off2)
           /\ mem' = Store(once, i.sf, off2, OrZero(i, i.rm))
           /\ r' = IF i.mode = "offset" THEN r ELSE Bump(r, i, Scaled(i))
           /\ Advance
           /\ UNCHANGED <<pc, nzcv>>
    BY DEF Stp
  <1>2. i.op \in Accesses /\ i.op \in Pairs BY DEF Accesses, Pairs
  <1>3. /\ InRange(off1) /\ InRange(off2) <=> Architecture!Fits(i)
        /\ InRange(off1) /\ InRange(off2) =>
             /\ off1 = Architecture!Address(i)
             /\ off2 = Architecture!Address(i) + Size(i.sf)
        /\ Architecture!Extent(i) = 2 * Size(i.sf)
    BY <1>2, PairAccess DEF Stepping
  <1> HIDE DEF off1, off2
  <1>4. CASE ~(InRange(off1) /\ InRange(off2)) /\ Throw
    BY <1>3, <1>4, FailsThere DEF Architecture!Store
  <1>5. CASE /\ InRange(off1) /\ InRange(off2)
             /\ mem' = Store(once, i.sf, off2, OrZero(i, i.rm))
             /\ r' = IF i.mode = "offset" THEN r ELSE Bump(r, i, Scaled(i))
             /\ Advance
             /\ UNCHANGED <<pc, nzcv>>
    <2> DEFINE A == Architecture!Address(i)
               s == Size(i.sf)
    <2>1. ~i.narrow BY DEF Stepping, Ready, Encodable
    <2>2. A \in Int /\ s \in {4, 8} /\ off1 = A /\ off2 = A + s
      <3>1. A \in Int BY <1>2, <2>1, AccessAddress, Widths DEF Words, Stepping
      <3> QED BY <1>3, <1>5, <3>1 DEF Size
    <2>3. Stored(i)
      <3>1. ASSUME NEW a \in ObjectBytes
            PROVE  mem'[a] = IF a - off2 \in 0 .. s - 1
                               THEN ByteOf(OrZero(i, i.rm), a - off2)
                               ELSE once[a]
        <4>1. off2 \in Int BY <2>2
        <4>2. mem' = Store(once, i.sf, off2, OrZero(i, i.rm)) BY <1>5
        <4> HIDE DEF once
        <4>3. Store(once, i.sf, off2, OrZero(i, i.rm))[a]
                = IF a - off2 \in 0 .. s - 1
                    THEN ByteOf(OrZero(i, i.rm), a - off2) ELSE once[a]
          BY <4>1, StoreAt
        <4> QED BY <4>2, <4>3
      <3>2. ASSUME NEW a \in ObjectBytes
            PROVE  once[a] = IF a - off1 \in 0 .. s - 1
                               THEN ByteOf(OrZero(i, i.rd), a - off1)
                               ELSE mem[a]
        <4>1. off1 \in Int BY <2>2
        <4> QED BY <4>1, StoreAt
      <3> HIDE DEF A, s, once
      <3>3. ASSUME NEW a \in ObjectBytes
            PROVE  /\ a - off2 \in 0 .. s - 1 <=> a - A \in s .. 2 * s - 1
                   /\ a - off2 = (a - A) - s
                   /\ a - A \in 0 .. s - 1 => a - A \notin s .. 2 * s - 1
        <4>1. a \in Int BY StackAssumption DEF ObjectBytes
        <4> QED BY <2>2, <4>1
      <3>4. Architecture!Extent(i) = 2 * s BY <1>3 DEF s
      <3>5. ASSUME NEW a \in ObjectBytes
            PROVE  mem'[a] =
                     CASE a - A \in 0 .. s - 1 -> ByteOf(OrZero(i, i.rd), a - A)
                       [] a - A \in s .. Architecture!Extent(i) - 1 ->
                            ByteOf(OrZero(i, i.rm), (a - A) - s)
                       [] OTHER -> mem[a]
        BY <2>2, <3>1, <3>2, <3>3, <3>4
      <3> QED BY <3>5 DEF Stored, A, s
    <2>4. Architecture!WritesBack(i, {})
      <3>1. CASE i.mode = "offset"
        BY <1>5, <3>1 DEF Architecture!WritesBack, Architecture!Written,
                    Architecture!KeepsBut
      <3>2. CASE i.mode # "offset"
        <4>1. Step(i) = Scaled(i) BY <1>2 DEF Step, Pairs
        <4>2. r' = SetR(r, i.sf, i.rn, GetR(r, i.sf, i.rn) + Step(i))
          BY <1>5, <3>2, <4>1 DEF Bump
        <4>3. r \in [Regs -> Words] BY DEF Stepping, Ready, CoreTypeOK
        <4>4. Architecture!Written(i) BY <3>2 DEF Architecture!Written
        <4> QED BY <1>2, <1>3, <1>5, <2>1, <4>2, <4>3, <4>4, BaseWritten
      <3> QED BY <3>1, <3>2
    <2> QED BY <1>3, <1>5, <2>3, <2>4, StoreDone
  <1> QED BY <1>1, <1>4, <1>5

-----------------------------------------------------------------------------
(* LDR and LDP.                                                            *)

\* The bytes of the high half of a uint32_t.
LEMMA NoHighBytes ==
  ASSUME NEW x \in 0 .. HALF - 1, NEW b \in 4 .. 7
  PROVE  ByteOf(x, b) = 0
  <1> DEFINE k == b - 4
  <1>1. k \in 0 .. 3 /\ k + 4 = b OBVIOUS
  <1>2. HALF \in Nat \ {0} /\ BYTE \in Nat \ {0} /\ x \in Int BY Widths
  <1>3. x \div HALF = 0 BY <1>2, ModSmall
  <1> HIDE DEF k
  <1>4. ByteOf(x, k + 4) = ByteOf(0, k) BY <1>1, <1>2, <1>3, HighBytes
  <1> DEFINE p == Place[k + 1]
  <1>5. p \in Nat \ {0}
    <2>1. k \in 0 .. 7 BY <1>1
    <2> QED BY <2>1, PlaceType
  <1> HIDE DEF p
  <1>6. 0 \div p = 0 BY <1>5
  <1>7. 0 % BYTE = 0 BY <1>2
  <1>8. ByteOf(0, k) = 0 BY <1>6, <1>7 DEF ByteOf, p
  <1> QED BY <1>1, <1>4, <1>8

\* What a load leaves in one register.
Gets(i, k, from) ==
  \A b \in 0 .. 7 :
    ByteOf(r'[k], b) =
      IF b < Size(i.sf) THEN mem[Architecture!Address(i) + from + b] ELSE 0

\* A register that was given the bytes at an address, and nothing since.
LEMMA Loaded ==
  ASSUME CoreTypeOK, NEW sf \in BOOLEAN, NEW a \in Words,
         a + Size(sf) <= STACK_SIZE
  PROVE  /\ Load(mem, sf, a) \in Int
         /\ Load(mem, sf, a) % Span(sf) = Load(mem, sf, a)
         /\ \A b \in 0 .. 7 :
              ByteOf(Load(mem, sf, a), b) =
                IF b < Size(sf) THEN mem[a + b] ELSE 0
  <1>1. a \in Nat /\ Size(sf) \in {4, 8} /\ STACK_SIZE \in Nat
    BY Widths, StackAssumption DEF Words, Size
  <1>2. ASSUME NEW b \in 0 .. Size(sf) - 1 PROVE mem[a + b] \in Bytes
    <2>1. a + b \in 0 .. STACK_SIZE + 7 BY <1>1
    <2> QED BY <2>1 DEF CoreTypeOK, ObjectBytes
  <1> DEFINE v == Load(mem, sf, a)
  <1>3. /\ v \in Int /\ v \in 0 .. Span(sf) - 1
        /\ \A b \in 0 .. Size(sf) - 1 : ByteOf(v, b) = mem[a + b]
    <2>1. a \in Int BY <1>1
    <2> QED BY <1>2, <2>1, LoadBytes
  <1> HIDE DEF v
  <1>4. v % Span(sf) = v
    <2> DEFINE n == Span(sf)
    <2>1. n \in Nat \ {0} BY Widths DEF Span
    <2>2. v \in 0 .. n - 1 BY <1>3
    <2> HIDE DEF n
    <2>3. v % n = v BY <2>1, <2>2, ModSmall
    <2> QED BY <2>3 DEF n
  <1>5. ASSUME NEW b \in 0 .. 7
        PROVE  ByteOf(v, b) = IF b < Size(sf) THEN mem[a + b] ELSE 0
    <2>1. CASE b < Size(sf)
      <3>1. b \in 0 .. Size(sf) - 1 BY <1>1, <2>1
      <3> QED BY <1>3, <2>1, <3>1
    <2>2. CASE ~(b < Size(sf))
      <3>1. ~sf /\ b \in 4 .. 7 BY <1>1, <2>2 DEF Size
      <3>2. v \in 0 .. HALF - 1 BY <1>3, <3>1 DEF Span
      <3> QED BY <2>2, <3>1, <3>2, NoHighBytes
    <2> QED BY <2>1, <2>2
  <1> QED BY <1>3, <1>4, <1>5 DEF v

\* What is left to show of a load that fits.
LEMMA LoadDone ==
  ASSUME NEW i, Stepping(i), Architecture!Fits(i), i.op \in {"LdrImm", "Ldp"},
         i.rd # 31, Gets(i, i.rd, 0),
         i.op = "Ldp" => i.rm # 31 /\ Gets(i, i.rm, Size(i.sf)),
         Architecture!WritesBack(i,
           {i.rd} \cup (IF i.op = "Ldp" THEN {i.rm} ELSE {})),
         Advance, UNCHANGED <<pc, nzcv, mem>>
  PROVE  Architecture!Load(i)
  <1>1. Architecture!GoesOn BY ArrivesNext
  <1>2. Architecture!IsPair(i) <=> i.op = "Ldp" BY DEF Architecture!IsPair
  <1>3. ({i.rd} \cup (IF Architecture!IsPair(i) THEN {i.rm} ELSE {})) \ {31}
          = {i.rd} \cup (IF i.op = "Ldp" THEN {i.rm} ELSE {})
    BY <1>2
  <1> QED
    BY <1>1, <1>2, <1>3, SameWidths, SameBytes DEF Architecture!Load, Gets

\* LDR with an immediate.
LEMMA LdrImmConforms ==
  ASSUME NEW i, Stepping(i), i.op = "LdrImm", LdrImm(i)
  PROVE  Architecture!Load(i)
  <1> DEFINE off == Offset(i.sf, Rn(i) + Step(i))
             loaded == SetR(r, i.sf, i.rd, Load(mem, i.sf, off))
  <1>1. Step(i) = IF i.mode = "offset" THEN Scaled(i) ELSE i.imm
    BY DEF Step, Pairs
  <1>2. \/ i.narrow /\ Stop
        \/ ~i.narrow /\ ~InRange(off) /\ Throw
        \/ ~i.narrow /\ InRange(off) /\ i.mode = "post" /\ Stop
        \/ /\ ~i.narrow /\ InRange(off) /\ i.mode # "post"
           /\ r' = IF i.mode = "pre" THEN Bump(loaded, i, Step(i)) ELSE loaded
           /\ Advance
           /\ UNCHANGED <<pc, nzcv, mem>>
    BY <1>1 DEF LdrImm
  <1>3. ~i.narrow => /\ InRange(off) <=> Architecture!Fits(i)
                     /\ InRange(off) => off = Architecture!Address(i)
                     /\ Architecture!Extent(i) = Size(i.sf)
    BY SingleAccess DEF Stepping
  <1>4. i.op \in Accesses /\ i.op \notin Pairs BY DEF Accesses, Pairs
  <1> HIDE DEF off
  <1>5. CASE i.narrow /\ Stop
    BY <1>5, FailsThere DEF Architecture!Load, Architecture!Fits
  <1>6. CASE ~i.narrow /\ ~InRange(off) /\ Throw
    BY <1>3, <1>6, FailsThere DEF Architecture!Load
  <1>7. ~(~i.narrow /\ i.mode = "post") BY <1>4, AccessFields DEF Stepping
  <1>8. CASE /\ ~i.narrow /\ InRange(off) /\ i.mode # "post"
             /\ r' = IF i.mode = "pre" THEN Bump(loaded, i, Step(i)) ELSE loaded
             /\ Advance
             /\ UNCHANGED <<pc, nzcv, mem>>
    <2> DEFINE v == Load(mem, i.sf, off)
    <2>1. /\ CoreTypeOK /\ r \in [Regs -> Words] /\ i.rn \in Regs
          /\ i.rd \in Regs /\ i.sf \in BOOLEAN
          /\ i.mode \in {"offset", "pre", "post"}
      BY DEF Stepping, Ready, CoreTypeOK, Instr
    <2>2. i.rd # 31 /\ (i.mode = "pre" => i.rn # i.rd)
      BY <1>4, <1>8, AccessFields DEF Architecture!Written, Stepping
    <2>3. /\ off \in Words /\ off = Architecture!Address(i)
          /\ off + Size(i.sf) <= STACK_SIZE
      BY <1>3, <1>4, <1>8, AccessAddress DEF Architecture!Fits, Stepping
    <2>4. /\ v \in Int /\ v % Span(i.sf) = v
          /\ \A b \in 0 .. 7 :
               ByteOf(v, b) = IF b < Size(i.sf) THEN mem[off + b] ELSE 0
      BY <2>1, <2>3, Loaded
    <2>5. loaded = SetR(r, i.sf, i.rd, v) OBVIOUS
    <2> HIDE DEF v, loaded
    <2>6. loaded \in [Regs -> Words] BY <2>1, <2>4, <2>5, SetRType
    <2>7. loaded[i.rd] = v /\ \A j \in Regs \ {i.rd} : loaded[j] = r[j]
      <3>1. Ready(i) /\ Architecture!Fits(i) BY <1>3, <1>8 DEF Stepping
      <3>2. r[i.rd] < Span(i.sf) BY <1>4, <1>8, <3>1, FitsNarrow
      <3>3. loaded = Put(r, i.rd, v % Span(i.sf))
        BY <2>1, <2>4, <2>5, <3>2, SetRIs
      <3> QED BY <2>1, <2>4, <3>3 DEF Put
    <2>8. Architecture!WritesBack(i, {i.rd}) /\ r'[i.rd] = loaded[i.rd]
      <3>1. CASE i.mode = "offset"
        <4>1. r' = loaded BY <1>8, <3>1
        <4> QED
          BY <2>7, <3>1, <4>1
             DEF Architecture!WritesBack, Architecture!Written,
                 Architecture!KeepsBut
      <3>2. CASE i.mode = "pre"
        <4>1. r' = SetR(loaded, i.sf, i.rn, GetR(loaded, i.sf, i.rn) + Step(i))
          BY <1>8, <3>2 DEF Bump
        <4>2. Architecture!Written(i) BY <3>2 DEF Architecture!Written
        <4>3. loaded[i.rn] = r[i.rn] BY <2>1, <2>2, <2>7, <3>2
        <4>4. Architecture!WritesBack(i, {i.rd})
          BY <1>3, <1>4, <1>8, <2>6, <2>7, <4>1, <4>2, <4>3, BaseWritten
        <4>5. r'[i.rd] = loaded[i.rd] BY <2>1, <2>2, <2>6, <3>2, <4>1 DEF SetR
        <4> QED BY <4>4, <4>5
      <3> QED BY <1>8, <2>1, <3>1, <3>2
    <2>9. Gets(i, i.rd, 0)
      <3>1. r'[i.rd] = v BY <2>7, <2>8
      <3>2. Architecture!Address(i) + 0 = off BY <2>3, Widths DEF Words
      <3> QED BY <2>4, <3>1, <3>2 DEF Gets
    <2>10. {i.rd} \cup (IF i.op = "Ldp" THEN {i.rm} ELSE {}) = {i.rd} OBVIOUS
    <2> QED BY <1>3, <1>8, <2>2, <2>8, <2>9, <2>10, LoadDone
  <1> QED BY <1>2, <1>5, <1>6, <1>7, <1>8

\* Two registers of a file written, one after the other.
LEMMA PairGives ==
  ASSUME NEW f \in [Regs -> Words], NEW sf \in BOOLEAN, NEW k \in Regs,
         NEW l \in Regs, k # l, NEW v \in Int, NEW w \in Int, NEW g,
         g = SetR(SetR(f, sf, k, v), sf, l, w),
         f[k] < Span(sf), f[l] < Span(sf)
  PROVE  /\ g \in [Regs -> Words]
         /\ g[k] = v % Span(sf) /\ g[l] = w % Span(sf)
         /\ \A j \in Regs \ {k, l} : g[j] = f[j]
  <1> DEFINE h == SetR(f, sf, k, v)
  <1>1. h \in [Regs -> Words] BY SetRType
  <1>2. h = Put(f, k, v % Span(sf)) BY SetRIs
  <1>3. g = SetR(h, sf, l, w) OBVIOUS
  <1> HIDE DEF h
  <1>4. g = Put(h, l, w % Span(sf))
    <2>1. h[l] < Span(sf) BY <1>2 DEF Put
    <2> QED BY <1>1, <1>3, <2>1, SetRIs
  <1>5. g \in [Regs -> Words] BY <1>1, <1>3, SetRType
  <1> QED BY <1>1, <1>2, <1>4, <1>5 DEF Put

\* A base incremented.
LEMMA BumpGives ==
  ASSUME NEW f \in [Regs -> Words], NEW i \in Instr, NEW step \in Int,
         f[i.rn] < Span(i.sf)
  PROVE  /\ Bump(f, i, step) \in [Regs -> Words]
         /\ Bump(f, i, step)[i.rn] = (GetR(f, i.sf, i.rn) + step) % Span(i.sf)
         /\ \A j \in Regs \ {i.rn} : Bump(f, i, step)[j] = f[j]
  <1> DEFINE v == GetR(f, i.sf, i.rn) + step
  <1>1. i.sf \in BOOLEAN /\ i.rn \in Regs BY DEF Instr
  <1>2. v \in Int
    <2>1. GetR(f, i.sf, i.rn) \in Nat BY <1>1, GetRType
    <2> QED BY <2>1
  <1>3. Bump(f, i, step) = SetR(f, i.sf, i.rn, v) BY DEF Bump
  <1> HIDE DEF v
  <1>4. SetR(f, i.sf, i.rn, v) \in [Regs -> Words] BY <1>1, <1>2, SetRType
  <1>5. SetR(f, i.sf, i.rn, v) = Put(f, i.rn, v % Span(i.sf))
    BY <1>1, <1>2, SetRIs
  <1> QED BY <1>1, <1>3, <1>4, <1>5 DEF v, Put

\* LDP: the order of the three writes does not matter between registers
\* that differ.
LEMMA LdpWrites ==
  ASSUME NEW i, Stepping(i), i.op = "Ldp", ~i.narrow,
         Architecture!Fits(i),
         NEW v1 \in Int, NEW v2 \in Int,
         r' = LET Pair(f) == SetR(SetR(f, i.sf, i.rd, v1), i.sf, i.rm, v2)
              IN CASE i.mode = "offset" -> Pair(r)
                   [] i.mode = "pre" -> Pair(Bump(r, i, Scaled(i)))
                   [] i.mode = "post" -> Bump(Pair(r), i, Scaled(i))
  PROVE  /\ r' \in [Regs -> Words]
         /\ r'[i.rd] = v1 % Span(i.sf)
         /\ r'[i.rm] = v2 % Span(i.sf)
         /\ Architecture!WritesBack(i, {i.rd, i.rm})
  <1>1. /\ i \in Instr /\ r \in [Regs -> Words] /\ i.sf \in BOOLEAN
        /\ i.rd \in Regs /\ i.rm \in Regs /\ i.rn \in Regs
        /\ i.mode \in {"offset", "pre", "post"}
    BY DEF Stepping, Ready, CoreTypeOK, Instr
  <1>2. i.op \in Accesses /\ i.op \in Pairs BY DEF Accesses, Pairs
  <1>0. Ready(i) BY DEF Stepping
  <1>3. /\ i.rd # i.rm
        /\ i.mode # "offset" => /\ i.rn # i.rd /\ i.rn # i.rm
                                /\ r[i.rn] < Span(i.sf)
        /\ r[i.rd] < Span(i.sf)
        /\ r[i.rm] < Span(i.sf)
    BY <1>2, <1>0, AccessFields, FitsNarrow DEF Architecture!Written
  <1>4. Step(i) = Scaled(i) /\ Scaled(i) \in Int
    BY <1>2, <1>0, AccessAddress DEF Step, Pairs
  <1>5. (GetR(r, i.sf, i.rn) + Scaled(i)) % Span(i.sf)
          = Architecture!Base(i)
    BY <1>2, <1>4, <1>0, AccessAddress, FitsNarrow DEF Rn
  <1> DEFINE P(f) == SetR(SetR(f, i.sf, i.rd, v1), i.sf, i.rm, v2)
             bumped == Bump(r, i, Scaled(i))
             paired == P(r)
  <1>6. /\ paired \in [Regs -> Words]
        /\ paired[i.rd] = v1 % Span(i.sf)
        /\ paired[i.rm] = v2 % Span(i.sf)
        /\ \A j \in Regs \ {i.rd, i.rm} : paired[j] = r[j]
    BY <1>1, <1>3, PairGives
  <1>7. ASSUME i.mode # "offset"
        PROVE  /\ bumped \in [Regs -> Words]
               /\ bumped[i.rn] = Architecture!Base(i)
               /\ \A j \in Regs \ {i.rn} : bumped[j] = r[j]
    <2>1. r[i.rn] < Span(i.sf) BY <1>3, <1>7
    <2> QED BY <1>1, <1>4, <1>5, <2>1, BumpGives
  <1>8. CASE i.mode = "offset"
    <2>1. r' = paired BY <1>8
    <2> HIDE DEF paired
    <2> QED
      BY <1>6, <1>8, <2>1
         DEF Architecture!WritesBack, Architecture!Written,
             Architecture!KeepsBut
  <1>9. ASSUME i.mode # "offset",
               r'[i.rn] = Architecture!Base(i),
               \A j \in Regs \ {i.rd, i.rm, i.rn} : r'[j] = r[j]
        PROVE  Architecture!WritesBack(i, {i.rd, i.rm})
    BY <1>9, SameWidths
       DEF Architecture!WritesBack, Architecture!Written,
           Architecture!KeepsBut
  <1>10. CASE i.mode = "pre"
    <2>1. r' = P(bumped) BY <1>10
    <2> HIDE DEF bumped
    <2>2. /\ r' \in [Regs -> Words]
          /\ r'[i.rd] = v1 % Span(i.sf)
          /\ r'[i.rm] = v2 % Span(i.sf)
          /\ \A j \in Regs \ {i.rd, i.rm} : r'[j] = bumped[j]
      <3>1. /\ bumped \in [Regs -> Words]
            /\ bumped[i.rd] < Span(i.sf)
            /\ bumped[i.rm] < Span(i.sf)
        BY <1>1, <1>3, <1>7, <1>10
      <3> QED BY <1>1, <1>3, <2>1, <3>1, PairGives
    <2>3. r'[i.rn] = bumped[i.rn] BY <1>1, <1>3, <1>10, <2>2
    <2>4. \A j \in Regs \ {i.rd, i.rm, i.rn} : r'[j] = r[j] BY <1>7, <1>10, <2>2
    <2> QED BY <1>7, <1>9, <1>10, <2>2, <2>3, <2>4
  <1>11. CASE i.mode = "post"
    <2>1. r' = Bump(paired, i, Scaled(i)) BY <1>11
    <2> HIDE DEF paired
    <2>3. paired[i.rn] = r[i.rn] BY <1>1, <1>3, <1>6, <1>11
    <2>2. /\ r' \in [Regs -> Words]
          /\ r'[i.rn] = (GetR(paired, i.sf, i.rn) + Scaled(i)) % Span(i.sf)
          /\ \A j \in Regs \ {i.rn} : r'[j] = paired[j]
      BY <1>1, <1>3, <1>4, <1>6, <1>11, <2>1, <2>3, BumpGives
    <2>4. GetR(paired, i.sf, i.rn) = GetR(r, i.sf, i.rn) BY <2>3 DEF GetR
    <2>5. r'[i.rn] = Architecture!Base(i)
      BY <1>5, <2>2, <2>4
    <2>6. /\ r'[i.rd] = paired[i.rd] /\ r'[i.rm] = paired[i.rm]
          /\ \A j \in Regs \ {i.rd, i.rm, i.rn} : r'[j] = r[j]
      BY <1>1, <1>3, <1>6, <1>11, <2>2
    <2> QED BY <1>6, <1>9, <1>11, <2>2, <2>5, <2>6
  <1> QED BY <1>1, <1>8, <1>10, <1>11

\* Two loads from adjacent addresses, and the base written before or after.
LEMMA LdpConforms ==
  ASSUME NEW i, Stepping(i), i.op = "Ldp", Ldp(i)
  PROVE  Architecture!Load(i)
  <1> DEFINE off1 == Offset(i.sf, Rn(i) + Scaled(i))
             off2 == Offset(i.sf, Rn(i) + Scaled(i) + Size(i.sf))
             v1 == Load(mem, i.sf, off1)
             v2 == Load(mem, i.sf, off2)
             written == LET Pair(f) == SetR(SetR(f, i.sf, i.rd, v1), i.sf, i.rm, v2)
                        IN CASE i.mode = "offset" -> Pair(r)
                             [] i.mode = "pre" -> Pair(Bump(r, i, Scaled(i)))
                             [] i.mode = "post" -> Bump(Pair(r), i, Scaled(i))
  <1>1. \/ ~(InRange(off1) /\ InRange(off2)) /\ Throw
        \/ /\ InRange(off1) /\ InRange(off2)
           /\ r' = written
           /\ Advance
           /\ UNCHANGED <<pc, nzcv, mem>>
    BY DEF Ldp
  <1>2. i.op \in Accesses /\ i.op \in Pairs /\ ~i.narrow
    BY DEF Accesses, Pairs, Stepping, Ready, Encodable
  <1>3. /\ InRange(off1) /\ InRange(off2) <=> Architecture!Fits(i)
        /\ InRange(off1) /\ InRange(off2) =>
             /\ off1 = Architecture!Address(i)
             /\ off2 = Architecture!Address(i) + Size(i.sf)
        /\ Architecture!Extent(i) = 2 * Size(i.sf)
    BY <1>2, PairAccess DEF Stepping
  <1> HIDE DEF off1, off2
  <1>4. CASE ~(InRange(off1) /\ InRange(off2)) /\ Throw
    BY <1>3, <1>4, FailsThere DEF Architecture!Load
  <1>5. CASE /\ InRange(off1) /\ InRange(off2)
             /\ r' = written
             /\ Advance
             /\ UNCHANGED <<pc, nzcv, mem>>
    <2> DEFINE A == Architecture!Address(i)
               s == Size(i.sf)
    <2>1. /\ CoreTypeOK /\ i.sf \in BOOLEAN /\ i.rd \in Regs /\ i.rm \in Regs
      BY DEF Stepping, Ready, Instr
    <2>2. /\ off1 \in Words /\ off2 \in Words
          /\ off1 + s <= STACK_SIZE /\ off2 + s <= STACK_SIZE
          /\ off1 = A /\ off2 = A + s /\ A \in Int /\ s \in Int
      <3>1. A \in Words BY <1>2, AccessAddress DEF Stepping
      <3>2. A \in 0 .. WORD - 1 /\ WORD \in Nat /\ HALF <= WORD /\ HALF \in Nat
        BY <3>1, Widths DEF Words
      <3>3. STACK_SIZE \in Nat /\ 2 * (STACK_SIZE + 8) <= HALF
        BY StackAssumption
      <3>4. s \in {4, 8} BY DEF Size
      <3>5. A + 2 * s <= STACK_SIZE BY <1>3, <1>5 DEF Architecture!Fits
      <3>6. off1 = A /\ off2 = A + s BY <1>3, <1>5
      <3> HIDE DEF A, s
      <3>7. A \in Int /\ s \in Int /\ A + s <= STACK_SIZE
            /\ (A + s) + s <= STACK_SIZE /\ A + s \in 0 .. WORD - 1
        BY <3>2, <3>3, <3>4, <3>5
      <3> QED BY <3>1, <3>6, <3>7 DEF Words
    <2>3. /\ v1 \in Int /\ v1 % Span(i.sf) = v1
          /\ \A b \in 0 .. 7 :
               ByteOf(v1, b) = IF b < s THEN mem[off1 + b] ELSE 0
      BY <2>1, <2>2, Loaded
    <2>4. /\ v2 \in Int /\ v2 % Span(i.sf) = v2
          /\ \A b \in 0 .. 7 :
               ByteOf(v2, b) = IF b < s THEN mem[off2 + b] ELSE 0
      BY <2>1, <2>2, Loaded
    <2>5. /\ r'[i.rd] = v1 % Span(i.sf)
          /\ r'[i.rm] = v2 % Span(i.sf)
          /\ Architecture!WritesBack(i, {i.rd, i.rm})
      <3>1. r' = written BY <1>5
      <3> HIDE DEF v1, v2
      <3> QED BY <1>2, <1>3, <1>5, <2>3, <2>4, <3>1, LdpWrites
    <2> HIDE DEF v1, v2, written
    <2>6. r'[i.rd] = v1 /\ r'[i.rm] = v2 BY <2>3, <2>4, <2>5
    <2>7. Gets(i, i.rd, 0)
      <3>1. A + 0 = off1 BY <2>2
      <3> QED BY <2>3, <2>6, <3>1 DEF Gets
    <2>8. Gets(i, i.rm, s)
      BY <2>2, <2>4, <2>6 DEF Gets
    <2>9. i.rd # 31 /\ i.rm # 31 BY <1>2, AccessFields DEF Stepping
    <2>10. {i.rd} \cup (IF i.op = "Ldp" THEN {i.rm} ELSE {}) = {i.rd, i.rm}
      OBVIOUS
    <2> QED BY <1>3, <1>5, <2>5, <2>7, <2>8, <2>9, <2>10, LoadDone
  <1> QED BY <1>1, <1>4, <1>5

-----------------------------------------------------------------------------
(* Bits.                                                                   *)

\* The powers of two of a word, and what the widths are of them.
LEMMA Powers ==
  /\ \A k \in 0 .. 8 * BYTE_BITS : 2 ^ k \in Nat \ {0}
  /\ \A m, n \in 0 .. 8 * BYTE_BITS :
       m + n <= 8 * BYTE_BITS => 2 ^ (m + n) = 2 ^ m * 2 ^ n
  /\ 2 ^ 0 = 1 /\ 2 ^ 1 = 2 /\ BYTE_BITS \in Nat \ {0}
  BY ByteAssumption, PowerAssumption

\* Half a power of two is the one before.
LEMMA PowerHalves ==
  ASSUME NEW k \in 0 .. 8 * BYTE_BITS, k # 0
  PROVE  /\ k - 1 \in 0 .. 8 * BYTE_BITS
         /\ 2 ^ (k - 1) \in Nat \ {0} /\ 2 ^ k = 2 * 2 ^ (k - 1)
  <1>1. BYTE_BITS \in Nat \ {0} BY Powers
  <1>2. /\ 1 \in 0 .. 8 * BYTE_BITS /\ k - 1 \in 0 .. 8 * BYTE_BITS
        /\ 1 + (k - 1) = k /\ 1 + (k - 1) <= 8 * BYTE_BITS
    BY <1>1
  <1>3. 2 ^ (1 + (k - 1)) = 2 ^ 1 * 2 ^ (k - 1) BY <1>2, Powers
  <1> QED BY <1>2, <1>3, Powers

\* A power of two is not below an earlier one.
LEMMA PowerGrows ==
  ASSUME NEW m \in 0 .. 8 * BYTE_BITS, NEW n \in 0 .. 8 * BYTE_BITS, m <= n
  PROVE  /\ n - m \in 0 .. 8 * BYTE_BITS
         /\ 2 ^ n = 2 ^ m * 2 ^ (n - m) /\ 2 ^ m <= 2 ^ n
  <1>1. BYTE_BITS \in Nat \ {0} BY Powers
  <1>2. /\ n - m \in 0 .. 8 * BYTE_BITS /\ m + (n - m) = n
        /\ m + (n - m) <= 8 * BYTE_BITS
    BY <1>1
  <1>3. 2 ^ (m + (n - m)) = 2 ^ m * 2 ^ (n - m) BY <1>2, Powers
  <1>4. 2 ^ m \in Nat \ {0} /\ 2 ^ (n - m) \in Nat \ {0} BY <1>2, Powers
  <1> DEFINE a == 2 ^ m
             b == 2 ^ (n - m)
  <1> HIDE DEF a, b
  <1>5. a \in Nat \ {0} /\ b \in Nat \ {0} BY <1>4 DEF a, b
  <1>6. a <= a * b BY <1>5
  <1> QED BY <1>2, <1>3, <1>6 DEF a, b

\* The low bits of a number are those of what is left of it by a power of two.
LEMMA BitLow ==
  ASSUME NEW x \in Int, NEW n \in 0 .. 8 * BYTE_BITS, NEW k \in 0 .. n - 1
  PROVE  BitSet(x % 2 ^ n, k) <=> BitSet(x, k)
  <1>1. BYTE_BITS \in Nat \ {0} BY Powers
  <1>2. k \in 0 .. 8 * BYTE_BITS /\ k <= n /\ n - k # 0 BY <1>1
  <1>3. n - k \in 0 .. 8 * BYTE_BITS /\ 2 ^ n = 2 ^ k * 2 ^ (n - k)
    BY <1>2, PowerGrows
  <1> DEFINE p == 2 ^ k
             q == 2 ^ (n - k)
             h == 2 ^ (n - k - 1)
  <1>4. h \in Nat \ {0} /\ q = 2 * h BY <1>2, <1>3, PowerHalves
  <1>5. p \in Nat \ {0} /\ q \in Nat \ {0} BY <1>2, <1>3, Powers
  <1>6. 2 ^ n = p * q BY <1>3
  <1> HIDE DEF p, q, h
  <1>7. (x % (p * q)) \div p = (x \div p) % q BY <1>5, ModDiv
  <1>8. x \div p \in Int BY <1>5, DivMod
  <1>9. ((x \div p) % (2 * h)) % 2 = (x \div p) % 2
    <2>1. 2 \in Nat \ {0} OBVIOUS
    <2> QED BY <1>4, <1>8, <2>1, ModMod
  <1>10. ((x % 2 ^ n) \div p) % 2 = (x \div p) % 2
    BY <1>4, <1>6, <1>7, <1>9
  <1> QED BY <1>10 DEF BitSet, p

\* The high bits of a number are those of its quotient.
LEMMA BitHigh ==
  ASSUME NEW x \in Int, NEW n \in 0 .. 8 * BYTE_BITS, NEW k \in Nat,
         k + n <= 8 * BYTE_BITS
  PROVE  BitSet(x \div 2 ^ n, k) <=> BitSet(x, k + n)
  <1>1. BYTE_BITS \in Nat \ {0} BY Powers
  <1>2. k \in 0 .. 8 * BYTE_BITS /\ n + k = k + n BY <1>1
  <1>3. 2 ^ (n + k) = 2 ^ n * 2 ^ k BY <1>2, Powers
  <1> DEFINE p == 2 ^ n
             q == 2 ^ k
  <1>4. p \in Nat \ {0} /\ q \in Nat \ {0} BY <1>2, Powers
  <1>5. 2 ^ (k + n) = p * q BY <1>2, <1>3
  <1> HIDE DEF p, q
  <1>6. (x \div p) \div q = x \div (p * q) BY <1>4, DivDiv
  <1>7. (x \div p) \div q = x \div 2 ^ (k + n) BY <1>5, <1>6
  <1> QED BY <1>7 DEF BitSet, p, q

\* A number has no bits from the first power of two above it on.
LEMMA BitNone ==
  ASSUME NEW n \in 0 .. 8 * BYTE_BITS, NEW x \in 0 .. 2 ^ n - 1,
         NEW k \in 0 .. 8 * BYTE_BITS, n <= k
  PROVE  ~BitSet(x, k)
  <1> DEFINE p == 2 ^ k
             q == 2 ^ n
  <1>1. q <= p BY PowerGrows
  <1>2. p \in Nat \ {0} /\ q \in Nat \ {0} BY Powers
  <1>3. x \in 0 .. q - 1 OBVIOUS
  <1> HIDE DEF p, q
  <1>4. x \in 0 .. p - 1 BY <1>1, <1>2, <1>3
  <1>5. x \div p = 0 BY <1>2, <1>4, ModSmall
  <1>6. 0 % 2 # 1 OBVIOUS
  <1> QED BY <1>5, <1>6 DEF BitSet, p

\* The bits of two numbers put together.
LEMMA BitSplit ==
  ASSUME NEW m \in 0 .. 8 * BYTE_BITS, NEW lo \in 0 .. 2 ^ m - 1, NEW hi \in Int,
         NEW x, x = hi * 2 ^ m + lo, NEW k \in 0 .. 8 * BYTE_BITS
  PROVE  BitSet(x, k) <=> IF k < m THEN BitSet(lo, k) ELSE BitSet(hi, k - m)
  <1>1. BYTE_BITS \in Nat \ {0} BY Powers
  <1> DEFINE p == 2 ^ m
  <1>2. p \in Nat \ {0} BY Powers
  <1>3. lo \in 0 .. p - 1 /\ x = hi * p + lo OBVIOUS
  <1> HIDE DEF p
  <1>4. x \in Int /\ x = p * hi + lo BY <1>2, <1>3
  <1>5. x \div p = hi /\ x % p = lo BY <1>2, <1>3, <1>4, DivModUnique
  <1>6. CASE k < m
    <2>1. k \in 0 .. m - 1 BY <1>6
    <2>2. BitSet(x % 2 ^ m, k) <=> BitSet(x, k) BY <1>4, <2>1, BitLow
    <2> QED BY <1>5, <1>6, <2>2 DEF p
  <1>7. CASE ~(k < m)
    <2>1. k - m \in Nat /\ (k - m) + m = k /\ (k - m) + m <= 8 * BYTE_BITS
      BY <1>1, <1>7
    <2>2. BitSet(x \div 2 ^ m, k - m) <=> BitSet(x, (k - m) + m)
      BY <1>4, <2>1, BitHigh
    <2> QED BY <1>5, <1>7, <2>1, <2>2 DEF p
  <1> QED BY <1>6, <1>7

\* A power of two less one is all ones.
LEMMA BitOnes ==
  ASSUME NEW n \in 0 .. 8 * BYTE_BITS, NEW k \in 0 .. n - 1
  PROVE  BitSet(2 ^ n - 1, k)
  <1>1. BYTE_BITS \in Nat \ {0} BY Powers
  <1>2. k \in 0 .. 8 * BYTE_BITS /\ k <= n /\ n - k # 0 BY <1>1
  <1>3. n - k \in 0 .. 8 * BYTE_BITS /\ 2 ^ n = 2 ^ k * 2 ^ (n - k)
    BY <1>2, PowerGrows
  <1> DEFINE p == 2 ^ k
             q == 2 ^ (n - k)
             h == 2 ^ (n - k - 1)
  <1>4. h \in Nat \ {0} /\ q = 2 * h BY <1>2, <1>3, PowerHalves
  <1>5. p \in Nat \ {0} BY <1>2, Powers
  <1>6. 2 ^ n = p * q BY <1>3
  <1> HIDE DEF p, q, h
  <1>7. q - 1 \in Int /\ p - 1 \in 0 .. p - 1 BY <1>4, <1>5
  <1>8. p * q \in Int /\ p * q - 1 = p * (q - 1) + (p - 1) BY <1>4, <1>5
  <1>9. (p * q - 1) \div p = q - 1
    <2>1. p * q - 1 \in Int BY <1>8
    <2> QED BY <1>5, <1>7, <1>8, <2>1, DivModUnique
  <1>10. (q - 1) % 2 = 1 BY <1>4
  <1>11. ((2 ^ n - 1) \div p) % 2 = 1 BY <1>6, <1>9, <1>10
  <1> QED BY <1>11 DEF BitSet, p

\* The weight of a byte is a power of two, and so is the width of a view.
LEMMA PlacePower ==
  /\ \A q \in 0 .. 7 : /\ q * BYTE_BITS \in 0 .. 8 * BYTE_BITS
                       /\ Place[q + 1] = 2 ^ (q * BYTE_BITS)
  /\ \A sf : /\ Bits(sf) \in 0 .. 8 * BYTE_BITS /\ Bits(sf) >= 4
             /\ Span(sf) = 2 ^ Bits(sf)
  <1> DEFINE W == BYTE_BITS
  <1>1. W \in Nat \ {0} /\ 2 ^ W = BYTE BY ByteAssumption
  <1>2. BYTE \in Int /\ HALF \in Int BY Widths
  <1>3. ASSUME NEW q \in 0 .. 7
        PROVE  2 ^ (q * W + W) = 2 ^ (q * W) * BYTE
    <2>1. /\ q * W \in 0 .. 8 * W /\ W \in 0 .. 8 * W
          /\ q * W + W <= 8 * W
      BY <1>1
    <2>2. 2 ^ (q * W + W) = 2 ^ (q * W) * 2 ^ W BY <2>1, Powers
    <2> QED BY <1>1, <2>2
  <1>4. /\ 0 * W = 0 /\ 0 * W + W = 1 * W /\ 1 * W + W = 2 * W
        /\ 2 * W + W = 3 * W /\ 3 * W + W = 4 * W /\ 4 * W + W = 5 * W
        /\ 5 * W + W = 6 * W /\ 6 * W + W = 7 * W /\ 7 * W + W = 8 * W
    BY <1>1
  <1>5. 2 ^ (0 * W) = 1 BY <1>4, Powers
  <1>6. 2 ^ (1 * W) = 1 * BYTE
    <2>1. 2 ^ (0 * W + W) = 2 ^ (0 * W) * BYTE BY <1>3
    <2> QED BY <1>4, <1>5, <2>1
  <1>7. 2 ^ (2 * W) = 2 ^ (1 * W) * BYTE
    <2>1. 2 ^ (1 * W + W) = 2 ^ (1 * W) * BYTE BY <1>3
    <2> QED BY <1>4, <2>1
  <1>8. 2 ^ (3 * W) = 2 ^ (2 * W) * BYTE
    <2>1. 2 ^ (2 * W + W) = 2 ^ (2 * W) * BYTE BY <1>3
    <2> QED BY <1>4, <2>1
  <1>9. 2 ^ (4 * W) = 2 ^ (3 * W) * BYTE
    <2>1. 2 ^ (3 * W + W) = 2 ^ (3 * W) * BYTE BY <1>3
    <2> QED BY <1>4, <2>1
  <1>10. 2 ^ (5 * W) = 2 ^ (4 * W) * BYTE
    <2>1. 2 ^ (4 * W + W) = 2 ^ (4 * W) * BYTE BY <1>3
    <2> QED BY <1>4, <2>1
  <1>11. 2 ^ (6 * W) = 2 ^ (5 * W) * BYTE
    <2>1. 2 ^ (5 * W + W) = 2 ^ (5 * W) * BYTE BY <1>3
    <2> QED BY <1>4, <2>1
  <1>12. 2 ^ (7 * W) = 2 ^ (6 * W) * BYTE
    <2>1. 2 ^ (6 * W + W) = 2 ^ (6 * W) * BYTE BY <1>3
    <2> QED BY <1>4, <2>1
  <1>13. 1 * BYTE = BYTE BY <1>2
  <1>14. HALF = 2 ^ (4 * W) BY <1>6, <1>7, <1>8, <1>9, <1>13, PlaceIs
  <1>15. WORD = 2 ^ (8 * W)
    <2>1. 4 * W \in 0 .. 8 * W /\ 4 * W + 4 * W = 8 * W
          /\ 4 * W + 4 * W <= 8 * W
      BY <1>1
    <2>2. 2 ^ (4 * W + 4 * W) = 2 ^ (4 * W) * 2 ^ (4 * W) BY <2>1, Powers
    <2> QED BY <1>14, <2>1, <2>2 DEF WORD
  <1>16. /\ Place[1] = 1 /\ Place[2] = BYTE /\ Place[3] = BYTE * BYTE
         /\ Place[4] = (BYTE * BYTE) * BYTE /\ Place[5] = HALF
         /\ Place[6] = HALF * BYTE /\ Place[7] = (HALF * BYTE) * BYTE
         /\ Place[8] = ((HALF * BYTE) * BYTE) * BYTE
    BY DEF Place
  <1>17. ASSUME NEW q \in 0 .. 7
         PROVE  q * W \in 0 .. 8 * W /\ Place[q + 1] = 2 ^ (q * W)
    <2>1. q * W \in 0 .. 8 * W BY <1>1
    <2>2. q \in {0, 1, 2, 3, 4, 5, 6, 7} OBVIOUS
    <2>3. CASE q = 0 BY <2>1, <2>3, <1>5, <1>16
    <2>4. CASE q = 1 BY <2>1, <2>4, <1>6, <1>13, <1>16
    <2>5. CASE q = 2 BY <2>1, <2>5, <1>6, <1>7, <1>13, <1>16
    <2>6. CASE q = 3 BY <2>1, <2>6, <1>6, <1>7, <1>8, <1>13, <1>16
    <2>7. CASE q = 4 BY <2>1, <2>7, <1>14, <1>16
    <2>8. CASE q = 5 BY <2>1, <2>8, <1>10, <1>14, <1>16
    <2>9. CASE q = 6 BY <2>1, <2>9, <1>10, <1>11, <1>14, <1>16
    <2>10. CASE q = 7 BY <2>1, <2>10, <1>10, <1>11, <1>12, <1>14, <1>16
    <2> QED BY <2>2, <2>3, <2>4, <2>5, <2>6, <2>7, <2>8, <2>9, <2>10
  <1>18. ASSUME NEW sf
         PROVE  /\ Bits(sf) \in 0 .. 8 * W /\ Bits(sf) >= 4
                /\ Span(sf) = 2 ^ Bits(sf)
    <2>1. CASE sf
      <3>1. Bits(sf) = 8 * W /\ Span(sf) = WORD
        BY <2>1 DEF Bits, Size, Span
      <3> QED BY <1>1, <1>15, <3>1
    <2>2. CASE ~sf
      <3>1. Bits(sf) = 4 * W /\ Span(sf) = HALF
        BY <2>2 DEF Bits, Size, Span
      <3> QED BY <1>1, <1>14, <3>1
    <2> QED BY <2>1, <2>2
  <1> QED BY <1>17, <1>18

\* A bit of a byte is a bit of the word.
LEMMA BitOfByte ==
  ASSUME NEW x \in Int, NEW q \in 0 .. 7, NEW p \in 0 .. BYTE_BITS - 1
  PROVE  BitSet(ByteOf(x, q), p) <=> BitSet(x, p + q * BYTE_BITS)
  <1>1. BYTE_BITS \in Nat \ {0} /\ 2 ^ BYTE_BITS = BYTE BY ByteAssumption
  <1> DEFINE w == 2 ^ (q * BYTE_BITS)
             y == x \div w
  <1>2. q * BYTE_BITS \in 0 .. 8 * BYTE_BITS /\ Place[q + 1] = w
    BY PlacePower
  <1>3. p + q * BYTE_BITS <= 8 * BYTE_BITS /\ p \in Nat
    <2>1. q * BYTE_BITS <= 7 * BYTE_BITS BY <1>1
    <2> QED BY <1>1, <1>2, <2>1
  <1>4. w \in Nat \ {0} BY <1>2, Powers
  <1>5. BitSet(y, p) <=> BitSet(x, p + q * BYTE_BITS)
    BY <1>2, <1>3, BitHigh
  <1>6. y \in Int
    <2> HIDE DEF w
    <2> QED BY <1>4, DivMod
  <1>7. ByteOf(x, q) = y % BYTE BY <1>2 DEF ByteOf
  <1> HIDE DEF y, w
  <1>8. BYTE_BITS \in 0 .. 8 * BYTE_BITS BY <1>1
  <1>9. BitSet(y % 2 ^ BYTE_BITS, p) <=> BitSet(y, p) BY <1>6, <1>8, BitLow
  <1> QED BY <1>1, <1>5, <1>7, <1>9

\* The OR of bytes is the OR of bits.
LEMMA BitOrIs ==
  ASSUME NEW x \in Int, NEW y \in Int, NEW k \in 0 .. 8 * BYTE_BITS - 1
  PROVE  /\ BitOr(x, y) \in Int
         /\ BitSet(BitOr(x, y), k) <=> BitSet(x, k) \/ BitSet(y, k)
  <1> DEFINE f == [q \in 0 .. 7 |-> OrByte[<<ByteOf(x, q), ByteOf(y, q)>>]]
             z == BitOr(x, y)
  <1>1. ASSUME NEW q \in 0 .. 7
        PROVE  /\ ByteOf(x, q) \in Bytes /\ ByteOf(y, q) \in Bytes
               /\ f[q] \in Bytes
               /\ f[q] = OrByte[<<ByteOf(x, q), ByteOf(y, q)>>]
    BY ByteOfType, OrAssumption
  <1>2. z = Load(f, TRUE, 0) BY DEF BitOr, Load
  <1> HIDE DEF f, z
  <1>3. z \in Int /\ \A q \in 0 .. 7 : ByteOf(z, q) = f[q]
    <2>1. Size(TRUE) = 8 /\ 8 - 1 = 7 BY DEF Size
    <2>2. ASSUME NEW q \in 0 .. 7 PROVE 0 + q = q /\ f[0 + q] = f[q] OBVIOUS
    <2>3. \A q \in 0 .. Size(TRUE) - 1 : f[0 + q] \in Bytes
      <3>1. \A q \in 0 .. 7 : f[0 + q] \in Bytes BY <1>1, <2>2
      <3> QED BY <2>1, <3>1
    <2>4. 0 \in Int /\ TRUE \in BOOLEAN OBVIOUS
    <2>5. /\ Load(f, TRUE, 0) \in Int
          /\ \A q \in 0 .. Size(TRUE) - 1 :
               ByteOf(Load(f, TRUE, 0), q) = f[0 + q]
      BY <2>3, <2>4, LoadBytes
    <2>6. ASSUME NEW q \in 0 .. 7 PROVE ByteOf(z, q) = f[q]
      <3>1. ByteOf(Load(f, TRUE, 0), q) = f[0 + q] BY <2>1, <2>5
      <3> QED BY <1>2, <2>2, <3>1
    <2> QED BY <1>2, <2>5, <2>6
  <1> DEFINE q == k \div BYTE_BITS
             p == k % BYTE_BITS
  <1>4. BYTE_BITS \in Nat \ {0} BY Powers
  <1>5. p \in 0 .. BYTE_BITS - 1 /\ q \in Int /\ k = BYTE_BITS * q + p
    <2>1. k \in Int BY <1>4
    <2> QED BY <1>4, <2>1, DivMod
  <1> HIDE DEF q, p
  <1>6. q \in 0 .. 7 /\ p + q * BYTE_BITS = k
    <2>1. q >= 0
      <3> SUFFICES ASSUME q <= -1 PROVE FALSE BY <1>5
      <3>1. BYTE_BITS * q <= BYTE_BITS * (-1) BY <1>4, <1>5
      <3> QED BY <1>4, <1>5, <3>1
    <2>2. q <= 7
      <3> SUFFICES ASSUME q >= 8 PROVE FALSE BY <1>5
      <3>1. BYTE_BITS * q >= BYTE_BITS * 8 BY <1>4, <1>5
      <3> QED BY <1>4, <1>5, <3>1
    <2> QED BY <1>4, <1>5, <2>1, <2>2
  <1>7. BitSet(ByteOf(z, q), p)
          <=> BitSet(ByteOf(x, q), p) \/ BitSet(ByteOf(y, q), p)
    BY <1>1, <1>3, <1>5, <1>6, OrAssumption
  <1>8. /\ BitSet(ByteOf(x, q), p) <=> BitSet(x, k)
        /\ BitSet(ByteOf(y, q), p) <=> BitSet(y, k)
        /\ BitSet(ByteOf(z, q), p) <=> BitSet(z, k)
    BY <1>3, <1>5, <1>6, BitOfByte
  <1> QED BY <1>3, <1>7, <1>8 DEF z

-----------------------------------------------------------------------------
(* ORR: shift_by_rule bit by bit.                                          *)

\* What a shift by a of an n-bit number, and a bit of it, start from.
Shifting(n, a, x, k) ==
  /\ n \in 0 .. 8 * BYTE_BITS /\ a \in 1 .. n - 1
  /\ x \in 0 .. 2 ^ n - 1 /\ k \in 0 .. n - 1

\* The two parts of the number.
LEMMA ShiftParts ==
  ASSUME NEW n, NEW a, NEW x, NEW k, Shifting(n, a, x, k)
  PROVE  /\ a \in 0 .. 8 * BYTE_BITS /\ n - a \in 0 .. 8 * BYTE_BITS
         /\ k \in 0 .. 8 * BYTE_BITS /\ x \in Int /\ n \in 0 .. 8 * BYTE_BITS
         /\ x \div 2 ^ a \in 0 .. 2 ^ (n - a) - 1
         /\ x % 2 ^ a \in 0 .. 2 ^ a - 1
         /\ x % 2 ^ (n - a) \in 0 .. 2 ^ (n - a) - 1
         /\ 2 ^ n = 2 ^ a * 2 ^ (n - a)
  <1>1. BYTE_BITS \in Nat \ {0} /\ n \in 0 .. 8 * BYTE_BITS
    BY Powers DEF Shifting
  <1>2. /\ a \in 0 .. 8 * BYTE_BITS /\ n - a \in 0 .. 8 * BYTE_BITS
        /\ k \in 0 .. 8 * BYTE_BITS /\ a <= n
    BY <1>1 DEF Shifting
  <1> DEFINE p == 2 ^ a
             q == 2 ^ (n - a)
             m == 2 ^ n
  <1>3. p \in Nat \ {0} /\ q \in Nat \ {0} /\ m \in Nat \ {0}
    BY <1>1, <1>2, Powers
  <1>4. m = p * q BY <1>1, <1>2, PowerGrows
  <1>5. x \in 0 .. m - 1 BY DEF Shifting
  <1> HIDE DEF p, q, m
  <1>6. x \in Int /\ x >= 0 /\ x < p * q BY <1>3, <1>4, <1>5
  <1>7. /\ x \div p \in Int /\ x % p \in 0 .. p - 1 /\ x % q \in 0 .. q - 1
        /\ x = p * (x \div p) + (x % p)
    BY <1>3, <1>6, DivMod
  <1> DEFINE d == x \div p
             c == x % p
  <1>8. d \in 0 .. q - 1
    <2>1. d \in Int /\ c \in 0 .. p - 1 /\ x = p * d + c BY <1>7
    <2> HIDE DEF d, c
    <2>2. d >= 0
      <3> SUFFICES ASSUME d <= -1 PROVE FALSE BY <2>1
      <3>1. p * d <= p * (-1) BY <1>3, <2>1
      <3> QED BY <1>3, <1>6, <2>1, <3>1
    <2>3. d < q
      <3> SUFFICES ASSUME d >= q PROVE FALSE BY <1>3, <2>1
      <3>1. p * d >= p * q BY <1>3, <2>1
      <3>2. p * d \in Int /\ p * q \in Int BY <1>3, <2>1
      <3> QED BY <1>3, <1>6, <2>1, <3>1, <3>2
    <2> QED BY <1>3, <2>1, <2>2, <2>3
  <1> QED BY <1>1, <1>2, <1>4, <1>6, <1>7, <1>8 DEF p, q, m

\* A number whose sum has no low part.
LEMMA LslBits ==
  ASSUME NEW n, NEW a, NEW x, NEW k, Shifting(n, a, x, k)
  PROVE  BitSet((x % 2 ^ (n - a)) * 2 ^ a, k) <=> k >= a /\ BitSet(x, k - a)
  <1> DEFINE hi == x % 2 ^ (n - a)
             y == hi * 2 ^ a
  <1>1. /\ a \in 0 .. 8 * BYTE_BITS /\ n - a \in 0 .. 8 * BYTE_BITS
        /\ k \in 0 .. 8 * BYTE_BITS /\ x \in Int
        /\ hi \in 0 .. 2 ^ (n - a) - 1
    BY ShiftParts
  <1>2. 2 ^ a \in Nat \ {0} /\ 2 ^ (n - a) \in Nat \ {0} BY <1>1, Powers
  <1>3. a \in Int /\ k \in Int /\ n \in Int /\ k < n
    BY Powers DEF Shifting
  <1>4. hi \in Int BY <1>1, <1>2
  <1>5. ASSUME k >= a PROVE BitSet(hi, k - a) <=> BitSet(x, k - a)
    <2>1. k - a \in 0 .. (n - a) - 1 BY <1>3, <1>5
    <2> QED BY <1>1, <2>1, BitLow
  <1> HIDE DEF hi
  <1>6. y = hi * 2 ^ a + 0 /\ 0 \in 0 .. 2 ^ a - 1
    <2> DEFINE p == 2 ^ a
    <2>1. p \in Nat \ {0} BY <1>2
    <2> HIDE DEF p
    <2>2. hi * p = hi * p + 0 /\ 0 \in 0 .. p - 1 BY <1>4, <2>1
    <2> QED BY <2>2 DEF p
  <1> HIDE DEF y
  <1>7. BitSet(y, k) <=> IF k < a THEN BitSet(0, k) ELSE BitSet(hi, k - a)
    BY <1>1, <1>4, <1>6, BitSplit
  <1>8. ~BitSet(0, k) BY <1>1, ZeroBit
  <1> QED BY <1>3, <1>5, <1>7, <1>8 DEF y, hi

\* A number that lost its low bits.
LEMMA LsrBits ==
  ASSUME NEW n, NEW a, NEW x, NEW k, Shifting(n, a, x, k)
  PROVE  BitSet(x \div 2 ^ a, k) <=> k + a < n /\ BitSet(x, k + a)
  <1>1. /\ a \in 0 .. 8 * BYTE_BITS /\ n - a \in 0 .. 8 * BYTE_BITS
        /\ k \in 0 .. 8 * BYTE_BITS /\ x \in Int /\ n \in 0 .. 8 * BYTE_BITS
        /\ x \div 2 ^ a \in 0 .. 2 ^ (n - a) - 1
    BY ShiftParts
  <1>2. BYTE_BITS \in Nat \ {0} BY Powers
  <1>3. CASE k + a < n
    <2>1. k + a <= 8 * BYTE_BITS /\ k \in Nat BY <1>1, <1>2, <1>3
    <2>2. BitSet(x \div 2 ^ a, k) <=> BitSet(x, k + a) BY <1>1, <2>1, BitHigh
    <2> QED BY <1>3, <2>2
  <1>4. CASE ~(k + a < n)
    <2>1. n - a <= k BY <1>1, <1>2, <1>4
    <2>2. ~BitSet(x \div 2 ^ a, k) BY <1>1, <2>1, BitNone
    <2> QED BY <1>4, <2>2
  <1> QED BY <1>3, <1>4

\* A number whose two parts changed places.
LEMMA RorBits ==
  ASSUME NEW n, NEW a, NEW x, NEW k, Shifting(n, a, x, k)
  PROVE  BitSet((x % 2 ^ a) * 2 ^ (n - a) + x \div 2 ^ a, k)
           <=> BitSet(x, (k + a) % n)
  <1> DEFINE hi == x % 2 ^ a
             lo == x \div 2 ^ a
             y == hi * 2 ^ (n - a) + lo
  <1>1. /\ a \in 0 .. 8 * BYTE_BITS /\ n - a \in 0 .. 8 * BYTE_BITS
        /\ k \in 0 .. 8 * BYTE_BITS /\ x \in Int /\ n \in 0 .. 8 * BYTE_BITS
        /\ lo \in 0 .. 2 ^ (n - a) - 1 /\ hi \in 0 .. 2 ^ a - 1
    BY ShiftParts
  <1>2. BYTE_BITS \in Nat \ {0} BY Powers
  <1>3. a \in 1 .. n - 1 /\ k \in 0 .. n - 1 /\ n \in Int
    BY <1>1, <1>2 DEF Shifting
  <1>4. hi \in Int
    <2>1. 2 ^ a \in Nat \ {0} BY <1>1, Powers
    <2> QED BY <1>1, <2>1
  <1>5. BitSet(y, k) <=> IF k < n - a THEN BitSet(lo, k)
                                      ELSE BitSet(hi, k - (n - a))
    <2> HIDE DEF hi, lo
    <2>1. y = hi * 2 ^ (n - a) + lo OBVIOUS
    <2> HIDE DEF y
    <2> QED BY <1>1, <1>4, <2>1, BitSplit
  <1>6. CASE k < n - a
    <2>1. k + a < n /\ k + a \in 0 .. n - 1 /\ n \in Nat \ {0}
      BY <1>2, <1>3, <1>6
    <2>2. (k + a) % n = k + a
      <3> DEFINE j == k + a
      <3>1. j \in 0 .. n - 1 BY <2>1
      <3> HIDE DEF j
      <3>2. j % n = j BY <2>1, <3>1, ModSmall
      <3> QED BY <3>2 DEF j
    <2>3. BitSet(lo, k) <=> BitSet(x, k + a) BY <2>1, LsrBits
    <2> QED BY <1>5, <1>6, <2>2, <2>3
  <1>7. CASE ~(k < n - a)
    <2> DEFINE j == k - (n - a)
    <2>1. j \in 0 .. a - 1 /\ j \in 0 .. n - 1 /\ n \in Nat \ {0}
          /\ k + a = j + n * 1 /\ 1 \in Int
      BY <1>2, <1>3, <1>7
    <2>2. BitSet(hi, j) <=> BitSet(x, j) BY <1>1, <2>1, BitLow
    <2> HIDE DEF j
    <2>3. (j + n * 1) % n = j BY <2>1, ModTurns
    <2>4. BitSet(y, k) <=> BitSet(hi, j) BY <1>5, <1>7 DEF j
    <2> QED BY <2>1, <2>2, <2>3, <2>4
  <1> QED BY <1>6, <1>7

\* A negative number, its sign filling what it leaves.
LEMMA AsrBits ==
  ASSUME NEW n, NEW a, NEW x, NEW k, Shifting(n, a, x, k),
         a < n - 1, x >= 2 ^ (n - 1)
  PROVE  BitSet((x - 2 ^ (n - 1)) \div 2 ^ a + (2 ^ n - 2 ^ (n - 1 - a)), k)
           <=> BitSet(x, IF k + a < n THEN k + a ELSE n - 1)
  <1>1. BYTE_BITS \in Nat \ {0} BY Powers
  <1>2. n \in 0 .. 8 * BYTE_BITS /\ a \in 1 .. n - 1 /\ k \in 0 .. n - 1
    BY DEF Shifting
  <1> DEFINE top == n - 1
             m == top - a
             t == 2 ^ top
             y == x - t
             lo == y \div 2 ^ a
             hi == 2 ^ (a + 1) - 1
             z == lo + (2 ^ n - 2 ^ m)
  <1>3. /\ top \in 0 .. 8 * BYTE_BITS /\ a \in 1 .. top - 1 /\ n # 0
        /\ m \in 0 .. 8 * BYTE_BITS /\ a + 1 \in 0 .. 8 * BYTE_BITS
        /\ k \in 0 .. 8 * BYTE_BITS /\ m \in Int /\ k \in Int /\ a \in Int
        /\ m + (a + 1) = n /\ m + (a + 1) <= 8 * BYTE_BITS
    BY <1>1, <1>2
  <1>4. t \in Nat \ {0} /\ 2 ^ n = 2 * t
    BY <1>2, <1>3, PowerHalves
  <1>5. x \in Int /\ y \in 0 .. t - 1 /\ x = 1 * t + y
    <2>1. x \in 0 .. 2 ^ n - 1 BY DEF Shifting
    <2>2. x >= t OBVIOUS
    <2> HIDE DEF t
    <2> QED BY <1>4, <2>1, <2>2
  \* Below the sign, the shifted number; from there on, ones.
  <1>6. BitSet(z, k) <=> IF k < m THEN BitSet(lo, k) ELSE TRUE
    <2>1. lo \in 0 .. 2 ^ m - 1
      <3>1. 0 \in 0 .. top - 1 BY <1>1, <1>3
      <3>2. Shifting(top, a, y, 0) BY <1>3, <1>5, <3>1 DEF Shifting
      <3> HIDE DEF y, t
      <3> QED BY <3>2, ShiftParts
    <2>2. hi \in Int
      <3>1. 2 ^ (a + 1) \in Nat \ {0} BY <1>3, Powers
      <3> QED BY <3>1
    <2>3. z = hi * 2 ^ m + lo
      <3> DEFINE p == 2 ^ m
                 q == 2 ^ (a + 1)
      <3>1. p \in Nat \ {0} /\ q \in Nat \ {0} BY <1>3, Powers
      <3>2. 2 ^ (m + (a + 1)) = p * q BY <1>3, Powers
      <3>3. 2 ^ n = p * q BY <1>3, <3>2
      <3>4. lo \in Int BY <2>1, <3>1
      <3> HIDE DEF p, q, lo
      <3>5. lo + (p * q - p) = (q - 1) * p + lo BY <3>1, <3>4
      <3> QED BY <3>3, <3>5 DEF p, q
    <2>4. BitSet(z, k) <=> IF k < m THEN BitSet(lo, k) ELSE BitSet(hi, k - m)
      <3> HIDE DEF z, lo, hi, m
      <3> QED BY <1>3, <2>1, <2>2, <2>3, BitSplit
    <2>5. ASSUME ~(k < m) PROVE BitSet(hi, k - m)
      <3>1. k - m \in 0 .. (a + 1) - 1 BY <1>2, <1>3, <2>5
      <3> QED BY <1>3, <3>1, BitOnes
    <2> QED BY <2>4, <2>5
  <1>7. BitSet(x, top)
    <2>1. BitSet(x, top) <=> IF top < top THEN BitSet(y, top)
                                          ELSE BitSet(1, top - top)
      <3>1. 1 \in Int /\ x = 1 * 2 ^ top + y /\ y \in 0 .. 2 ^ top - 1
        BY <1>5
      <3> HIDE DEF y, t, top
      <3> QED BY <1>3, <3>1, BitSplit
    <2>2. top \in Int BY <1>1, <1>3
    <2>3. top - top = 0 /\ ~(top < top) BY <2>2
    <2>4. BitSet(1, 0)
      <3>1. 1 \div 1 = 1 /\ 1 % 2 = 1 OBVIOUS
      <3> QED BY <3>1, Powers DEF BitSet
    <2> QED BY <2>1, <2>3, <2>4
  <1>8. CASE k < m
    <2>1. /\ k + a < n /\ k + a < top /\ k \in Nat
          /\ k + a <= 8 * BYTE_BITS /\ k + a \in 0 .. top - 1
      BY <1>1, <1>2, <1>3, <1>8
    <2>2. y \in Int /\ a \in 0 .. 8 * BYTE_BITS BY <1>1, <1>3, <1>4, <1>5
    <2>3. BitSet(lo, k) <=> BitSet(y, k + a)
      <3> HIDE DEF y
      <3> QED BY <2>1, <2>2, BitHigh
    <2>4. BitSet(x, k + a) <=> BitSet(y, k + a)
      <3>1. x % 2 ^ top = y
        <4>1. y \in Int /\ x = t * 1 + y /\ 1 \in Int BY <1>4, <1>5
        <4> HIDE DEF t, y
        <4>2. x % t = y BY <1>4, <1>5, <4>1, DivModUnique
        <4> QED BY <4>2 DEF t
      <3> HIDE DEF y, top
      <3>2. BitSet(x % 2 ^ top, k + a) <=> BitSet(x, k + a)
        BY <1>3, <1>5, <2>1, BitLow
      <3> QED BY <3>1, <3>2
    <2> QED BY <1>6, <1>8, <2>1, <2>3, <2>4
  <1>9. CASE ~(k < m)
    <2>1. (IF k + a < n THEN k + a ELSE n - 1) = top
      BY <1>1, <1>2, <1>3, <1>9
    <2> QED BY <1>6, <1>7, <1>9, <2>1
  <1> QED BY <1>8, <1>9

\* Every bit of a shifted operand is the one Arm takes.
LEMMA ShiftIs ==
  ASSUME NEW i \in Instr, i.amt < Bits(i.sf),
         NEW x \in 0 .. Span(i.sf) - 1,
         ~(i.rule = "ASR" /\ i.amt = Bits(i.sf) - 1 /\ Neg(x, Span(i.sf))),
         NEW v \in ShiftValues(i.rule, i.sf, x, i.amt),
         NEW k \in 0 .. Bits(i.sf) - 1
  PROVE  BitSet(v, k) <=> Architecture!ShiftedBit(i, x, k)
  <1> DEFINE n == Bits(i.sf)
             a == i.amt
             t == 2 ^ (n - 1)
  <1>1. /\ n \in 0 .. 8 * BYTE_BITS /\ n >= 4 /\ Span(i.sf) = 2 ^ n
        /\ BYTE_BITS \in Nat \ {0}
    BY PlacePower, Powers
  <1>2. a \in 0 .. n - 1 /\ i.rule \in {"LSL", "LSR", "ASR", "ROR"}
    BY <1>1 DEF Instr
  <1>3. /\ x \in 0 .. 2 ^ n - 1 /\ k \in 0 .. n - 1 /\ a < n
        /\ ~(i.rule = "ASR" /\ a = n - 1 /\ Neg(x, 2 ^ n))
    BY <1>1
  <1>4. Neg(x, 2 ^ n) <=> x >= t
    <2>1. n # 0 BY <1>1
    <2>2. t \in Nat \ {0} /\ 2 ^ n = 2 * t BY <1>1, <2>1, PowerHalves
    <2> HIDE DEF t
    <2> QED BY <1>3, <2>2 DEF Neg
  <1>5. ShiftValues(i.rule, i.sf, x, a) =
          CASE a = 0 -> {x}
            [] a > 0 /\ i.rule = "LSL" -> {(x % 2 ^ (n - a)) * 2 ^ a}
            [] a > 0 /\ i.rule = "LSR" -> {x \div 2 ^ a}
            [] a > 0 /\ i.rule = "ROR" ->
                 {(x % 2 ^ a) * 2 ^ (n - a) + x \div 2 ^ a}
            [] a > 0 /\ i.rule = "ASR" /\ ~Neg(x, 2 ^ n) -> {x \div 2 ^ a}
            [] a > 0 /\ i.rule = "ASR" /\ Neg(x, 2 ^ n) /\ a < n - 1 ->
                 {(x - t) \div 2 ^ a + (2 ^ n - 2 ^ ((n - 1) - a))}
            [] OTHER -> {0, 2 ^ n - 1}
    BY <1>1 DEF ShiftValues
  <1>6. Architecture!ShiftedBit(i, x, k) <=>
          CASE i.rule = "LSL" -> k >= a /\ BitSet(x, k - a)
            [] i.rule = "LSR" -> k + a < n /\ BitSet(x, k + a)
            [] i.rule = "ASR" -> BitSet(x, IF k + a < n THEN k + a ELSE n - 1)
            [] i.rule = "ROR" -> BitSet(x, (k + a) % n)
    BY SameWidths DEF Architecture!ShiftedBit, Architecture!Bit, BitSet
  <1>7. v \in ShiftValues(i.rule, i.sf, x, a) OBVIOUS
  <1> HIDE DEF n, a, t
  <1>8. CASE a = 0
    <2>1. v = x BY <1>5, <1>7, <1>8
    <2>2. /\ k >= a /\ k - a = k /\ k + a = k /\ k + a < n /\ k % n = k
          /\ n \in Nat \ {0}
      <3>1. k \in Int /\ n \in Nat \ {0} BY <1>1, <1>3
      <3>2. k % n = k BY <1>3, <3>1, ModSmall
      <3> QED BY <1>3, <1>8, <3>1, <3>2
    <2> QED BY <1>2, <1>6, <2>1, <2>2
  <1>9. CASE a # 0
    <2>1. Shifting(n, a, x, k) /\ a > 0
      BY <1>1, <1>2, <1>3, <1>9 DEF Shifting
    <2>2. CASE i.rule = "LSL"
      <3>1. v = (x % 2 ^ (n - a)) * 2 ^ a BY <1>5, <1>7, <2>1, <1>9, <2>2
      <3> QED BY <1>6, <2>1, <2>2, <3>1, LslBits
    <2>3. CASE i.rule = "LSR"
      <3>1. v = x \div 2 ^ a BY <1>5, <1>7, <2>1, <1>9, <2>3
      <3> QED BY <1>6, <2>1, <2>3, <3>1, LsrBits
    <2>4. CASE i.rule = "ROR"
      <3>1. v = (x % 2 ^ a) * 2 ^ (n - a) + x \div 2 ^ a
        BY <1>5, <1>7, <2>1, <1>9, <2>4
      <3> QED BY <1>6, <2>1, <2>4, <3>1, RorBits
    <2>5. CASE i.rule = "ASR" /\ ~Neg(x, 2 ^ n)
      <3>1. v = x \div 2 ^ a BY <1>5, <1>7, <2>1, <1>9, <2>5
      <3>2. BitSet(v, k) <=> k + a < n /\ BitSet(x, k + a)
        BY <2>1, <3>1, LsrBits
      <3>3. ~BitSet(x, n - 1)
        <4>1. /\ n - 1 \in 0 .. 8 * BYTE_BITS
              /\ n # 0
          BY <1>1
        <4>2. t \in Nat \ {0} /\ t = 2 ^ (n - 1) BY <4>1, Powers DEF t
        <4>3. x \in 0 .. 2 ^ (n - 1) - 1
          <5>1. x \in Int /\ x >= 0 /\ ~(x >= t)
            <6>1. 2 ^ n \in Nat BY <1>1, Powers
            <6> QED BY <1>3, <1>4, <2>5, <6>1
          <5>2. x \in 0 .. t - 1 BY <4>2, <5>1
          <5> QED BY <4>2, <5>2
        <4> QED BY <4>1, <4>3, BitNone
      <3> QED BY <1>6, <2>5, <3>2, <3>3
    <2>6. CASE i.rule = "ASR" /\ Neg(x, 2 ^ n)
      <3>1. a < n - 1 /\ x >= 2 ^ (n - 1) BY <1>1, <1>2, <1>3, <1>4, <2>6 DEF t
      <3>2. v = (x - 2 ^ (n - 1)) \div 2 ^ a + (2 ^ n - 2 ^ (n - 1 - a))
        BY <1>5, <1>7, <2>1, <1>9, <2>6, <3>1 DEF t
      <3> QED BY <1>6, <2>1, <2>6, <3>1, <3>2, AsrBits
    <2> QED BY <1>2, <2>2, <2>3, <2>4, <2>5, <2>6
  <1> QED BY <1>8, <1>9

\* ORR with a shifted register, and its alias MOV.
LEMMA OrrShConforms ==
  ASSUME NEW i, Stepping(i), i.op = "OrrSh", OrrSh(i)
  PROVE  Architecture!Or(i)
  <1>1. /\ i \in Instr /\ CoreTypeOK /\ r \in [Regs -> Words]
        /\ i.rd \in Regs /\ i.rn \in Regs /\ i.rm \in Regs
        /\ i.sf \in BOOLEAN
    BY DEF Stepping, Ready, CoreTypeOK, Instr
  <1> DEFINE n == Bits(i.sf)
             x == GetR(r, i.sf, i.rm)
  <1>2. n \in 0 .. 8 * BYTE_BITS /\ Span(i.sf) = 2 ^ n BY PlacePower
  <1>3. ~(i.amt >= n)
    BY SameWidths DEF Stepping, Ready, Architecture!Departs, Architecture!Handler
  <1>4. CASE /\ i.amt < n
             /\ \E v \in ShiftValues(i.rule, i.sf, x, i.amt) :
                  Result(i, IF i.rn = 31 THEN v ELSE BitOr(Rn(i), v))
    <2>1. PICK v \in ShiftValues(i.rule, i.sf, x, i.amt) :
            Result(i, IF i.rn = 31 THEN v ELSE BitOr(Rn(i), v))
      BY <1>4
    <2>2. /\ i.rd # 31 /\ i.rm # 31
          /\ ~(i.rule = "ASR" /\ i.amt = n - 1
               /\ Neg(Architecture!Reg(i, i.rm), Span(i.sf)))
      BY <1>4, SameWidths, SameSigns
         DEF Stepping, Ready, Architecture!Departs, Architecture!Handler
    <2>3. /\ x \in 0 .. Span(i.sf) - 1 /\ x \in Nat
          /\ Architecture!Reg(i, i.rm) = x
          /\ Architecture!ZReg(i, i.rm) = x
          /\ Architecture!ZReg(i, i.rn) = OrZero(i, i.rn)
          /\ OrZero(i, i.rn) = IF i.rn = 31 THEN 0 ELSE Rn(i)
          /\ Rn(i) \in Int
      BY <1>1, <2>2, ArmReg, OperandType, GetRType DEF OrZero, Rn
    <2>4. v \in Int
      <3>1. i.amt \in 0 .. n - 1 BY <1>1, <1>2, <1>4, Powers DEF Instr
      <3> QED BY <1>1, <2>3, <3>1, ShiftType
    <2> DEFINE res == IF i.rn = 31 THEN v ELSE BitOr(Rn(i), v)
    <2>5. res \in Int BY <2>3, <2>4, BitOrType
    <2>6. ASSUME NEW k \in 0 .. n - 1
          PROVE  BitSet(res, k) <=> \/ BitSet(OrZero(i, i.rn), k)
                                    \/ Architecture!ShiftedBit(i, x, k)
      <3>1. BitSet(v, k) <=> Architecture!ShiftedBit(i, x, k)
        BY <1>1, <1>4, <2>2, <2>3, ShiftIs
      <3>2. k \in 0 .. 8 * BYTE_BITS - 1 /\ k \in 0 .. 8 * BYTE_BITS
        BY <1>2, Powers
      <3>3. CASE i.rn = 31
        <4>1. ~BitSet(0, k) BY <3>2, ZeroBit
        <4> QED BY <2>3, <3>1, <3>3, <4>1
      <3>4. CASE i.rn # 31
        <4>1. BitSet(BitOr(Rn(i), v), k) <=> BitSet(Rn(i), k) \/ BitSet(v, k)
          BY <2>3, <2>4, <3>2, BitOrIs
        <4> QED BY <2>3, <3>1, <3>4, <4>1
      <3> QED BY <3>3, <3>4
    <2>7. /\ r' = SetR(r, i.sf, i.rd, res) /\ Advance
          /\ UNCHANGED <<pc, nzcv, mem>>
      BY <2>1 DEF Result
    <2> HIDE DEF res, n
    <2>8. r' = Put(r, i.rd, res % Span(i.sf))
      BY <1>1, <2>5, <2>7, HighHalf, SetRIs
    <2>9. r'[i.rd] = res % Span(i.sf) /\ r'[i.rd] < Span(i.sf)
      <3> DEFINE m == Span(i.sf)
      <3>1. m \in Nat \ {0} BY Widths DEF Span
      <3> HIDE DEF m
      <3>2. res % m \in 0 .. m - 1 BY <2>5, <3>1, DivMod
      <3>3. res % m < m BY <3>1, <3>2
      <3> QED BY <1>1, <2>8, <3>3 DEF m, Put
    <2>10. ASSUME NEW k \in 0 .. n - 1
           PROVE  BitSet(r'[i.rd], k) <=> BitSet(res, k)
      <3>1. BitSet(res % 2 ^ n, k) <=> BitSet(res, k)
        BY <1>2, <2>5, BitLow
      <3> QED BY <1>2, <2>9, <3>1
    <2>11. ASSUME NEW k \in 0 .. Architecture!Bits(i.sf) - 1
           PROVE  Architecture!Bit(r'[i.rd], k) =
                    (Architecture!Bit(Architecture!ZReg(i, i.rn), k)
                     \/ Architecture!ShiftedBit(i, Architecture!ZReg(i, i.rm), k))
      <3>1. k \in 0 .. n - 1 BY <2>11, SameWidths DEF n
      <3>2. BitSet(r'[i.rd], k) <=> \/ BitSet(OrZero(i, i.rn), k)
                                    \/ Architecture!ShiftedBit(i, x, k)
        BY <2>6, <2>10, <3>1
      <3>3. \A y : Architecture!Bit(y, k) = BitSet(y, k)
        BY DEF Architecture!Bit, BitSet
      <3>4. BitSet(r'[i.rd], k) \in BOOLEAN BY DEF BitSet
      <3> QED BY <2>3, <3>2, <3>3, <3>4
    <2>12. Architecture!GoesOn BY <2>7, ArrivesNext
    <2>13. Architecture!KeepsBut({i.rd} \ {31})
      BY <2>2, <2>8 DEF Architecture!KeepsBut, Put
    <2>14. /\ i.amt < Architecture!Bits(i.sf)
           /\ r'[i.rd] < Architecture!Span(i.sf)
      BY <1>4, <2>9, SameWidths DEF n
    <2> QED BY <2>7, <2>11, <2>12, <2>13, <2>14 DEF Architecture!Or
  <1> QED BY <1>3, <1>4 DEF OrrSh

-----------------------------------------------------------------------------
(* One instruction.                                                        *)

\* A mnemonic that shares the handler of another departs.
LEMMA OwnHandler ==
  ASSUME NEW i, ~Architecture!Departs(i)
  PROVE  Handler(i.op) = i.op
  <1> SUFFICES ASSUME Handler(i.op) # i.op PROVE FALSE OBVIOUS
  <1>1. Architecture!Handler(i.op) = Handler(i.op)
    BY DEF Architecture!Handler, Handler
  <1>2. i.op \in { "Bcond", "Br", "Svc", "Tbz", "Cbz", "Cbnz", "Movn", "Movk",
                   "LogicalImm", "Orn", "Adr", "Csel", "Ldur" }
    BY DEF Handler
  <1> QED BY <1>1, <1>2 DEF Architecture!Departs

\* A handler that does not depart executes its instruction.
LEMMA ExecuteConforms ==
  ASSUME NEW i, Stepping(i), Execute
  PROVE  Architecture!Execute(i)
  <1>1. text[pc] = i /\ Handler(i.op) = i.op
    BY OwnHandler DEF Stepping, Ready
  <1> USE DEF Fetched
  <1>2. CASE Fetched("AddImm") /\ AddImm(text[pc])
    BY <1>1, <1>2, AddConforms DEF Architecture!Execute
  <1>3. CASE Fetched("AddsImm") /\ AddsImm(text[pc])
    BY <1>1, <1>3, AddsConforms DEF Architecture!Execute
  <1>4. CASE Fetched("SubImm") /\ SubImm(text[pc])
    BY <1>1, <1>4, SubConforms DEF Architecture!Execute
  <1>5. CASE Fetched("SubsImm") /\ SubsImm(text[pc])
    BY <1>1, <1>5, SubsConforms DEF Architecture!Execute
  <1>6. CASE Fetched("OrrSh") /\ OrrSh(text[pc])
    BY <1>1, <1>6, OrrShConforms DEF Architecture!Execute
  <1>7. CASE Fetched("Movz") /\ Movz(text[pc])
    BY <1>1, <1>7, MovzConforms DEF Architecture!Execute
  <1>8. CASE Fetched("Adrp") /\ Adrp(text[pc])
    BY <1>1, <1>8, AdrpConforms DEF Architecture!Execute
  <1>9. CASE Fetched("Csinc") /\ Csinc(text[pc])
    BY <1>1, <1>9, CsincConforms DEF Architecture!Execute
  <1>10. CASE Fetched("B") /\ B(text[pc])
    BY <1>1, <1>10, BranchConforms DEF Architecture!Execute
  <1>11. CASE Fetched("Bl") /\ Bl(text[pc])
    BY <1>1, <1>11, BranchConforms DEF Architecture!Execute
  <1>12. CASE Fetched("Ret") /\ Ret(text[pc])
    BY <1>1, <1>12, RetConforms DEF Architecture!Execute
  <1>13. CASE Fetched("Tbnz") /\ Tbnz(text[pc])
    BY <1>1, <1>13, TbnzConforms DEF Architecture!Execute
  <1>14. CASE Fetched("StrImm") /\ StrImm(text[pc])
    BY <1>1, <1>14, StrImmConforms DEF Architecture!Execute
  <1>15. CASE Fetched("LdrImm") /\ LdrImm(text[pc])
    BY <1>1, <1>15, LdrImmConforms DEF Architecture!Execute
  <1>16. CASE Fetched("Stur") /\ Stur(text[pc])
    BY <1>1, <1>16, SturConforms DEF Architecture!Execute
  <1>17. CASE Fetched("Stp") /\ Stp(text[pc])
    BY <1>1, <1>17, StpConforms DEF Architecture!Execute
  <1>18. CASE Fetched("Ldp") /\ Ldp(text[pc])
    BY <1>1, <1>18, LdpConforms DEF Architecture!Execute
  <1>19. CASE Fetched("Other") /\ Unsupported
    <2>1. i.op = "Other" BY <1>1, <1>19
    <2>2. Architecture!Fails BY <1>19, <2>1, FailsThere DEF Unsupported
    <2> QED BY <2>1, <2>2 DEF Architecture!Execute
  <1> QED
    BY <1>2, <1>3, <1>4, <1>5, <1>6, <1>7, <1>8, <1>9, <1>10, <1>11, <1>12,
       <1>13, <1>14, <1>15, <1>16, <1>17, <1>18, <1>19 DEF Execute

-----------------------------------------------------------------------------
(* The refinement.                                                         *)

\* The session starts where a program of the architecture does.
LEMMA InitConforms == Init => Architecture!Init
  <1> SUFFICES ASSUME Init PROVE Architecture!Init OBVIOUS
  <1>1. CoreTypeOK BY InitType DEF TypeOK
  <1>2. text \in [DOMAIN text -> Instr] BY ProgramsAssumption DEF Init
  <1>3. at = pc /\ status = "running" BY LoggerStored DEF Init, at, status
  <1>4. r[SP] = STACK_SIZE - 1
    <2>1. PICK f \in UninitRegs : r = [f EXCEPT ![SP] = STACK_SIZE - 1]
      BY DEF Init
    <2> QED BY <2>1, UninitAssumption, RegsAssumption
  <1>5. nzcv = [n |-> FALSE, z |-> FALSE, c |-> FALSE, v |-> FALSE] BY DEF Init
  <1> QED
    BY <1>1, <1>2, <1>3, <1>4, <1>5, SameSets
       DEF Architecture!Init, CoreTypeOK

\* The step of the session that is one of an instruction that conforms.
LEMMA IsStepping ==
  ASSUME TypeOK, LoggerIntact, Next, Execute,
         ~Architecture!Departs(text[pc])
  PROVE  Stepping(text[pc])
  <1>1. ctl = "fetch" /\ pc \in DOMAIN text BY DEF Execute, Fetched
  <1>2. text[pc] \in Instr /\ Encodable(text[pc]) /\ CoreTypeOK
    <2>1. PICK p \in Programs : text = p.text BY DEF TypeOK, Texts
    <2> QED BY <1>1, <2>1, ProgramsAssumption DEF TypeOK
  <1>3. text' = text BY DEF Next
  <1>4. Ready(text[pc]) BY <1>1, <1>2, <1>3 DEF Ready
  <1>5. LoggerIntact'
    <2> DEFINE i == text[pc]
    <2>1. Handler(i.op) = i.op BY OwnHandler
    <2>2. Ready(i) BY <1>4
    <2> HIDE DEF i
    <2> QED BY <2>1, <2>2, NoOverrun
  <1> QED BY <1>4, <1>5 DEF Stepping

\* Every step of the session is a step of the architecture, or none.
LEMMA StepConforms ==
  TypeOK /\ [Next]_vars => [Architecture!Next]_(Architecture!vars)
  <1> SUFFICES ASSUME TypeOK, [Next]_vars
               PROVE  [Architecture!Next]_(Architecture!vars)
    OBVIOUS
  <1> USE DEF Architecture!vars, Architecture!data
  <1>1. CASE UNCHANGED vars
    <2>1. LoggerIntact' = LoggerIntact BY <1>1, SamePointer DEF vars
    <2> QED BY <1>1, <2>1 DEF vars, at, status
  <1>2. CASE Next /\ ~LoggerIntact
    <2>1. status = "undefined" BY <1>2 DEF status
    <2>2. text' = text BY <1>2 DEF Next
    <2> QED BY <2>1, <2>2 DEF Architecture!Next, Architecture!Unpromised
  <1>3. CASE Next /\ LoggerIntact /\ Execute
    <2> DEFINE i == text[pc]
    <2>1. ctl = "fetch" /\ pc \in DOMAIN text /\ text' = text
      BY <1>3 DEF Execute, Fetched, Next
    <2>2. at = pc /\ status = "running" BY <1>3, <2>1 DEF at, status
    <2>3. CASE Architecture!Departs(i)
      BY <2>1, <2>2, <2>3 DEF Architecture!Next, Architecture!Step
    <2>4. CASE ~Architecture!Departs(i)
      <3>1. Stepping(i) BY <1>3, <2>4, IsStepping
      <3>2. Architecture!Execute(i) BY <1>3, <3>1, ExecuteConforms
      <3> QED BY <2>1, <2>2, <3>2 DEF Architecture!Next, Architecture!Step
    <2> QED BY <2>3, <2>4
  <1>4. CASE Next /\ LoggerIntact /\ ~Execute
    <2>1. AdvancePc \/ WildFetch \/ Ended
      BY <1>4 DEF Next, LoggerFault, BranchFault
    <2>2. UNCHANGED <<r, nzcv, mem, text>>
      BY <1>4, <2>1 DEF Next, AdvancePc, WildFetch, Ended, coreVars
    <2>3. LoggerIntact' BY <1>4, <2>2, SamePointer
    <2>4. CASE AdvancePc
      <3>1. ctl = "advance" /\ ctl' = "fetch" /\ pc' = (pc + 1) % WORD
        BY <2>4 DEF AdvancePc
      <3>2. at' = at /\ status' = status BY <1>4, <2>3, <3>1 DEF at, status
      <3> QED BY <2>2, <3>2
    <2>5. CASE WildFetch
      <3>1. ctl = "fetch" /\ pc \notin DOMAIN text /\ ctl' = "wild" /\ pc' = pc
        BY <2>5 DEF WildFetch, coreVars
      <3>2. at = pc /\ at' = pc BY <3>1 DEF at
      <3>3. status = "running" /\ status' = "failed"
        BY <1>4, <2>3, <3>1 DEF status
      <3> QED
        BY <2>2, <3>1, <3>2, <3>3
           DEF Architecture!Next, Architecture!Outside, Architecture!Fails
    <2>6. CASE Ended
      <3>1. pc' = pc /\ ctl' = ctl BY <2>6 DEF Ended
      <3>2. at' = at /\ status' = status
        BY <1>4, <2>2, <2>3, <3>1 DEF at, status
      <3> QED BY <2>2, <3>2
    <2> QED BY <2>1, <2>4, <2>5, <2>6
  <1> QED BY <1>1, <1>2, <1>3, <1>4

(* For every program and every scale of the machine: each instruction that *)
(* Arm!Departs does not list sets registers, flags, memory and the next    *)
(* instruction to what the ISA says, whatever ran before it, and with the  *)
(* advance_pc after it is one step; an error leaves everything as it was,  *)
(* and nothing else ends the program, but a RET to zero (session.h, every  *)
(* process() of ops/, state.cpp).  Only while the pointer of the logger is *)
(* overwritten, after a store over the end of the stack, nothing is said.  *)
THEOREM SessionImplementsArm == Spec => ImplementsArm
  <1>1. Init => Architecture!Init BY InitConforms
  <1>2. Init => TypeOK BY InitType
  <1>3. TypeOK /\ [Next]_vars => TypeOK' BY StepType
  <1>4. TypeOK /\ [Next]_vars => [Architecture!Next]_(Architecture!vars)
    BY StepConforms
  <1> QED
    BY <1>1, <1>2, <1>3, <1>4, PTL DEF Spec, ImplementsArm, Architecture!Spec
=============================================================================
