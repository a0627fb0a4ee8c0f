---------------------------- MODULE IdiomProofs ----------------------------
(***************************************************************************)
(* What compilers pair instructions for holds of every program, between    *)
(* instructions that the architecture excludes as well: the flags still    *)
(* are those of the comparison however long ago it was, and what a store   *)
(* left, at its base, is what the load behind it finds.                    *)
(***************************************************************************)
EXTENDS Idioms, ConformProofs

-----------------------------------------------------------------------------
(* Registers through a view.                                               *)

\* What a view shows.
LEMMA ViewRange ==
  ASSUME NEW f \in [Regs -> Words], NEW sf \in BOOLEAN, NEW k \in Regs
  PROVE  /\ GetR(f, sf, k) \in 0 .. Span(sf) - 1 /\ GetR(f, sf, k) \in Nat
         /\ Span(sf) \in Nat \ {0}
  <1>1. GetR(f, sf, k) \in Nat /\ GetR(f, sf, k) < Span(sf) BY GetRType
  <1>2. Span(sf) \in Nat \ {0} BY Widths DEF Span
  <1> QED BY <1>1, <1>2

\* A value written through a view is what the view shows, and no other
\* register has changed.
LEMMA ViewWritten ==
  ASSUME NEW f \in [Regs -> Words], NEW sf \in BOOLEAN, NEW k \in Regs,
         NEW v \in Int
  PROVE  /\ SetR(f, sf, k, v) \in [Regs -> Words]
         /\ GetR(SetR(f, sf, k, v), sf, k) = v % Span(sf)
         /\ \A j \in Regs \ {k} : SetR(f, sf, k, v)[j] = f[j]
  <1> DEFINE g == SetR(f, sf, k, v)
  <1>1. g \in [Regs -> Words] BY SetRType
  <1>2. g[k] % Span(sf) = v % Span(sf) /\ \A j \in Regs \ {k} : g[j] = f[j]
    BY SetRGives
  <1>3. HALF \in Nat \ {0} /\ WORD \in Nat \ {0} BY Widths
  <1>4. GetR(g, sf, k) = v % Span(sf)
    <2>1. g[k] \in 0 .. WORD - 1 BY <1>1 DEF Words
    <2> HIDE DEF g
    <2>2. g[k] % WORD = g[k] BY <1>3, <2>1, ModSmall
    <2> QED BY <1>2, <2>2 DEF GetR, Span
  <1> QED BY <1>1, <1>2, <1>4 DEF g

\* Writing back what is there changes nothing.
LEMMA NothingWritten ==
  ASSUME NEW f \in [Regs -> Words], NEW sf \in BOOLEAN, NEW k \in Regs
  PROVE  SetR(f, sf, k, GetR(f, sf, k) + 0) = f
  <1> DEFINE x == f[k]
             v == GetR(f, sf, k)
  <1>1. HALF \in Nat \ {0} /\ WORD \in Nat \ {0} /\ x \in 0 .. WORD - 1
    BY Widths DEF Words
  <1>2. v + 0 = v BY ViewRange
  <1>3. (IF sf THEN v % WORD ELSE (x - (x % HALF)) + (v % HALF)) = x
    <2> HIDE DEF x
    <2>1. x % WORD = x BY <1>1, ModSmall
    <2>2. x \in Int /\ x % HALF \in 0 .. HALF - 1 /\ x % HALF \in Int
      BY <1>1, DivMod
    <2>3. (x % HALF) % HALF = x % HALF BY <1>1, <2>2, ModSmall
    <2>4. (x - (x % HALF)) + (x % HALF) = x BY <2>2
    <2> QED BY <2>1, <2>3, <2>4 DEF GetR, x
  <1>4. SetR(f, sf, k, v) = [f EXCEPT ![k] = x] BY <1>3 DEF SetR
  <1>5. [f EXCEPT ![k] = x] = f OBVIOUS
  <1> QED BY <1>2, <1>4, <1>5

-----------------------------------------------------------------------------
(* Conditions.                                                             *)

\* Flags that say what a result is decide every condition that is read as it
\* is named; those that do not read V without what V says.
LEMMA FlagsDecide ==
  ASSUME NEW n \in Nat \ {0}, NEW u \in Int, NEW s \in Int,
         -n <= u, u < n, -n < s, s < n, u % n = s % n,
         NEW f \in Flags,
         f.n <=> Neg(u % n, n), f.z <=> u % n = 0, f.c <=> u >= 0,
         NEW cond \in (0 .. 15) \ Misread,
         cond \in ReadsV => (f.v <=> ~(-n <= 2 * s /\ 2 * s < n))
  PROVE  CondTrue(f, cond) <=> Means(cond, n, u, s)
  <1> DEFINE w == u % n
             tn == 2 * w >= n
             tv == ~(-n <= 2 * s /\ 2 * s < n)
  <1>1. /\ f.n \in BOOLEAN /\ f.z \in BOOLEAN /\ f.c \in BOOLEAN
        /\ f.v \in BOOLEAN
    BY DEF Flags
  <1>2. w = IF u >= 0 THEN u ELSE u + n
    <2>1. CASE u >= 0
      <3>1. u \in 0 .. n - 1 BY <2>1
      <3> QED BY <2>1, <3>1, ModSmall
    <2>2. CASE u < 0
      <3>1. u + n \in 0 .. n - 1 /\ u = (u + n) + n * (-1) BY <2>2
      <3>2. ((u + n) + n * (-1)) % n = u + n BY <3>1, ModTurns
      <3> QED BY <2>2, <3>1, <3>2
    <2> QED BY <2>1, <2>2
  <1>3. w = IF s >= 0 THEN s ELSE s + n
    <2>1. CASE s >= 0
      <3>1. s \in 0 .. n - 1 BY <2>1
      <3> QED BY <2>1, <3>1, ModSmall
    <2>2. CASE s < 0
      <3>1. s + n \in 0 .. n - 1 /\ s = (s + n) + n * (-1) BY <2>2
      <3>2. ((s + n) + n * (-1)) % n = s + n BY <3>1, ModTurns
      <3> QED BY <2>2, <3>1, <3>2
    <2> QED BY <2>1, <2>2
  <1>4. (f.n <=> tn) /\ (f.z <=> w = 0) /\ (f.c <=> u >= 0) BY DEF Neg
  <1>5. cond \in ReadsV => (f.v <=> tv) OBVIOUS
  <1> HIDE DEF w
  <1>6. (w = 0) <=> (s = 0) BY <1>3
  <1>7. (tn = tv) <=> (s >= 0)
    <2>1. (tn /\ tv) \/ (~tn /\ ~tv) <=> s >= 0 BY <1>3
    <2> QED BY <2>1
  <1>8. (u >= 0 /\ w # 0) <=> u > 0 BY <1>2
  <1>9. (w # 0 /\ s >= 0) <=> s > 0 BY <1>6
  <1> HIDE DEF tn, tv
  <1>10. cond \in {0, 1, 2, 3, 4, 5, 6, 7, 8, 10, 11, 12, 14, 15} BY DEF Misread
  <1>11. cond \in {6, 7, 10, 11, 12} => (f.v <=> tv) BY <1>5 DEF ReadsV
  <1>12. (u < 0 <=> ~(u >= 0)) /\ (s < 0 <=> ~(s >= 0)) OBVIOUS
  <1>13. CASE cond \in {0, 1, 2, 3, 4, 5}
    BY <1>4, <1>12, <1>13 DEF CondTrue, Means, w, tn, Neg
  <1>14. CASE cond \in {6, 7} BY <1>11, <1>14 DEF CondTrue, Means, tv
  <1>15. CASE cond = 8 BY <1>4, <1>8, <1>15 DEF CondTrue, Means
  <1>16. CASE cond \in {10, 11, 12}
    <2>1. (f.n = f.v) <=> (s >= 0)
      <3>1. f.v <=> tv BY <1>11, <1>16
      <3>2. (f.n = f.v) <=> (tn = tv)
        <4>1. tn \in BOOLEAN /\ tv \in BOOLEAN BY DEF tn, tv
        <4> QED BY <1>1, <1>4, <3>1, <4>1
      <3> QED BY <1>7, <3>2
    <2>2. CASE cond = 10 BY <2>1, <2>2 DEF CondTrue, Means
    <2>3. CASE cond = 11 BY <1>12, <2>1, <2>3 DEF CondTrue, Means
    <2>4. CASE cond = 12 BY <1>4, <1>9, <2>1, <2>4 DEF CondTrue, Means
    <2> QED BY <1>16, <2>2, <2>3, <2>4
  <1>17. CASE cond \in {14, 15} BY <1>17 DEF CondTrue, Means
  <1> QED BY <1>10, <1>13, <1>14, <1>15, <1>16, <1>17

-----------------------------------------------------------------------------
(* What the instruction executed last has left.                            *)

\* The value lies in memory at an offset that passed the bound check.
Lies(m, sf, off, v) ==
  /\ InRange(off)
  /\ \A k \in 0 .. Size(sf) - 1 : m[off + k] = ByteOf(v, k)

\* Where the instruction of p accesses the memory, a step from its base.
Reached(p, step) == Offset(p.i.sf, Operand(p) + step)

StepOf(i) == IF i.op = "Stp" \/ i.mode = "offset" THEN Scaled(i) ELSE i.imm

\* The flags of the last instruction that set any.
FlagsLeft(p, flags) ==
  flags = IF p.i.op = "SubsImm"
            THEN SubsFlags(p.i.sf, Operand(p), Shifted(p.i))
            ELSE AddsFlags(p.i.sf, Operand(p), Shifted(p.i))

\* A sum in its destination.
SumLeft(p, f) ==
  GetR(f, p.i.sf, p.i.rd) = (Operand(p) + Shifted(p.i)) % Span(p.i.sf)

\* What was stored, and the base.
StoreLeft(p, f, m) ==
  LET off == Reached(p, StepOf(p.i))
  IN /\ Lies(m, p.i.sf, off, Given(p, p.i.rd))
     /\ p.i.op = "Stp" => Lies(m, p.i.sf, off + Size(p.i.sf), Given(p, p.i.rm))
     /\ p.i.mode = "offset" => f = p.r
     /\ p.i.mode = "pre" /\ ~(p.i.op = "StrImm" /\ p.i.sf) =>
          Offset(p.i.sf, GetR(f, p.i.sf, p.i.rn)) = off

\* A well-formed instruction with the registers it found.
Seen(p) == p.i \in Instr /\ Encodable(p.i) /\ p.r \in [Regs -> Words]

SetterInv ==
  setter.i.op # "None" =>
    Seen(setter) /\ setter.i.op \in SetsFlags /\ FlagsLeft(setter, nzcv)

\* A session that has ended may have set the link (see BranchFault).
PrevInv ==
  ctl \notin Final /\ prev.i.op # "None" =>
    /\ Seen(prev)
    /\ prev.i.op = "AddImm" => SumLeft(prev, r)
    /\ prev.i.op \in {"StrImm", "Stp"} => StoreLeft(prev, r, mem)

IdiomsInv == TypeOK /\ SetterInv /\ PrevInv

\* What is read and stored are words of the view.
LEMMA SeenType ==
  ASSUME NEW p, Seen(p)
  PROVE  /\ p.i.sf \in BOOLEAN /\ p.i.rd \in Regs /\ p.i.rn \in Regs
         /\ p.i.rm \in Regs /\ p.i.imm \in Nat
         /\ Operand(p) \in 0 .. Span(p.i.sf) - 1 /\ Operand(p) \in Nat
         /\ \A k \in Regs : /\ Given(p, k) \in 0 .. Span(p.i.sf) - 1
                            /\ Given(p, k) \in Nat
         /\ Span(p.i.sf) \in Nat \ {0}
         /\ StepOf(p.i) \in Nat /\ Scaled(p.i) \in Nat
         /\ Size(p.i.sf) \in {4, 8}
  <1>1. /\ p.i.sf \in BOOLEAN /\ p.i.rd \in Regs /\ p.i.rn \in Regs
        /\ p.i.rm \in Regs /\ p.i.imm \in Nat /\ p.r \in [Regs -> Words]
    BY DEF Seen, Instr
  <1>2. \A k \in Regs : /\ GetR(p.r, p.i.sf, k) \in 0 .. Span(p.i.sf) - 1
                        /\ GetR(p.r, p.i.sf, k) \in Nat
                        /\ Span(p.i.sf) \in Nat \ {0}
    BY <1>1, ViewRange
  <1>3. Span(p.i.sf) \in Nat \ {0} BY <1>1, <1>2
  <1>4. Size(p.i.sf) \in {4, 8} BY DEF Size
  <1>5. Scaled(p.i) \in Nat BY <1>1, <1>4 DEF Scaled
  <1>6. StepOf(p.i) \in Nat BY <1>1, <1>5 DEF StepOf
  <1>7. 0 \in 0 .. Span(p.i.sf) - 1 BY <1>3
  <1> QED BY <1>1, <1>2, <1>3, <1>4, <1>5, <1>6, <1>7 DEF Operand, Given

\* What the step of an instruction that completes starts from.
LEMMA Completing ==
  ASSUME TypeOK, Next, Completes
  PROVE  /\ Execute /\ TypeOK' /\ UNCHANGED text
         /\ text[pc] \in Instr /\ Encodable(text[pc])
         /\ CoreTypeOK /\ r \in [Regs -> Words]
         /\ Seen([i |-> text[pc], r |-> r])
  <1>1. Execute
    BY DEF Completes, Next, AdvancePc, LoggerFault, BranchFault, WildFetch, Ended,
           Final
  <1>2. TypeOK' /\ UNCHANGED text BY StepType DEF Next
  <1>3. text[pc] \in Instr /\ Encodable(text[pc])
    <2>1. PICK p \in Programs : text = p.text BY DEF TypeOK, Texts
    <2> QED BY <2>1, ProgramsAssumption DEF Completes
  <1>4. CoreTypeOK /\ r \in [Regs -> Words] BY DEF TypeOK, CoreTypeOK
  <1> QED BY <1>1, <1>2, <1>3, <1>4 DEF Seen

\* The handler that ran is the one of the mnemonic.
LEMMA OfMnemonic ==
  ASSUME Execute
  PROVE  /\ text[pc].op = "AddImm" => AddImm(text[pc])
         /\ text[pc].op = "AddsImm" => AddsImm(text[pc])
         /\ text[pc].op = "SubImm" => SubImm(text[pc])
         /\ text[pc].op = "SubsImm" => SubsImm(text[pc])
         /\ text[pc].op = "Csinc" => Csinc(text[pc])
         /\ text[pc].op = "StrImm" => StrImm(text[pc])
         /\ text[pc].op = "Stp" => Stp(text[pc])
         /\ text[pc].op = "LdrImm" => LdrImm(text[pc])
         /\ text[pc].op = "Ldp" => Ldp(text[pc])
         /\ text[pc].op \notin SetsFlags => nzcv' = nzcv
  <1> DEFINE i == text[pc]
  <1>1. i.op \in {"AddImm", "AddsImm", "SubImm", "SubsImm", "StrImm", "Stp",
                  "LdrImm", "Ldp", "Csinc"} => Handler(i.op) = i.op
    BY DEF Handler
  <1>2. Handler(i.op) \in SetsFlags => Handler(i.op) = i.op
    BY DEF Handler, SetsFlags
  <1>3. i.op \notin SetsFlags => nzcv' = nzcv
    <2> SUFFICES ASSUME i.op \notin SetsFlags PROVE nzcv' = nzcv OBVIOUS
    <2>1. ~Fetched("AddsImm") /\ ~Fetched("SubsImm")
      BY <1>2 DEF Fetched, SetsFlags
    <2>2. ASSUME \/ AddImm(i) \/ SubImm(i) \/ Movz(i) \/ Csinc(i) \/ OrrSh(i)
          PROVE  nzcv' = nzcv
      BY <2>2 DEF AddImm, SubImm, Movz, Csinc, OrrSh, Result, Abort, coreVars
    <2>3. ASSUME \/ Adrp(i) \/ B(i) \/ Bl(i) \/ Ret(i) \/ Tbnz(i) \/ Unsupported
          PROVE  nzcv' = nzcv
      BY <2>3 DEF Adrp, B, Bl, Ret, Tbnz, Unsupported, Stop, coreVars
    <2>4. ASSUME \/ StrImm(i) \/ LdrImm(i) \/ Stur(i)
          PROVE  nzcv' = nzcv
      BY <2>4 DEF StrImm, LdrImm, Stur, Stop, Throw, coreVars
    <2>5. ASSUME \/ Stp(i) \/ Ldp(i)
          PROVE  nzcv' = nzcv
      BY <2>5 DEF Stp, Ldp, Throw, coreVars
    <2> QED BY <2>1, <2>2, <2>3, <2>4, <2>5 DEF Execute
  <1> QED BY <1>1, <1>3 DEF Execute, Fetched

\* What is not the completion of an instruction changes nothing it could
\* have left, unless it ends the session.
LEMMA NothingLeft ==
  ASSUME Next, ~Completes
  PROVE  /\ UNCHANGED <<nzcv, mem>>
         /\ ctl' \in Final \/ (UNCHANGED r /\ ctl \notin Final)
  <1>1. CASE Execute
    <2>1. ctl' # "advance" BY <1>1 DEF Completes, Execute, Fetched
    <2>2. UNCHANGED coreVars BY <1>1, <2>1, GoingOn, GivingUp DEF Execute
    <2>3. ctl = "fetch" BY <1>1 DEF Execute, Fetched
    <2> QED BY <2>2, <2>3 DEF coreVars, Final
  <1>2. CASE AdvancePc BY <1>2 DEF AdvancePc, Final
  <1>3. CASE LoggerFault \/ BranchFault \/ WildFetch
    BY <1>3 DEF LoggerFault, BranchFault, WildFetch, coreVars, Final
  <1>4. CASE Ended BY <1>4 DEF Ended
  <1> QED BY <1>1, <1>2, <1>3, <1>4 DEF Next

-----------------------------------------------------------------------------
(* Offsets and the values there.                                           *)

\* An offset is decided by what a view shows of the address.
LEMMA OffsetOfView ==
  ASSUME NEW sf \in BOOLEAN, NEW a \in Int
  PROVE  Offset(sf, a % Span(sf)) = Offset(sf, a)
  BY SameResult DEF Offset

\* What passes the bound check is its own offset.
LEMMA OffsetInRange ==
  ASSUME NEW sf \in BOOLEAN, NEW a \in Int, InRange(Offset(sf, a))
  PROVE  /\ Offset(sf, a) = a % Span(sf)
         /\ Offset(sf, a) \in 0 .. STACK_SIZE /\ STACK_SIZE \in Nat
         /\ 2 * (STACK_SIZE + 8) <= HALF /\ HALF \in Nat \ {0}
  <1> DEFINE n == Span(sf)
             m == a % n
  <1>1. n \in Nat \ {0} /\ HALF \in Nat \ {0} BY Widths DEF Span
  <1>2. m \in 0 .. n - 1
    <2> HIDE DEF n
    <2> QED BY <1>1, DivMod
  <1>3. Offset(sf, a) = Signed(m, n) BY DEF Offset
  <1> HIDE DEF m
  <1>4. m \in 0 .. Span(sf) - 1 BY <1>2
  <1>5. Signed(m, Span(sf)) = m /\ m <= STACK_SIZE BY <1>3, <1>4, InRangeIs
  <1>6. STACK_SIZE \in Nat /\ 2 * (STACK_SIZE + 8) <= HALF BY StackAssumption
  <1>7. m \in 0 .. STACK_SIZE
    <2> HIDE DEF n
    <2> QED BY <1>1, <1>2, <1>5, <1>6
  <1> QED BY <1>1, <1>3, <1>5, <1>6, <1>7 DEF m

\* The second access of a pair is behind the first.
LEMMA NextOffset ==
  ASSUME NEW sf \in BOOLEAN, NEW a \in Int,
         InRange(Offset(sf, a)), InRange(Offset(sf, a + Size(sf)))
  PROVE  Offset(sf, a + Size(sf)) = Offset(sf, a) + Size(sf)
  <1> DEFINE n == Span(sf)
             s == Size(sf)
             m == a % n
  <1>1. s \in {4, 8} /\ n \in Nat \ {0} /\ HALF <= n BY Widths DEF Size, Span
  <1>2. Offset(sf, a) = m /\ m \in 0 .. STACK_SIZE /\ STACK_SIZE \in Nat
        /\ 2 * (STACK_SIZE + 8) <= HALF /\ HALF \in Nat \ {0}
    BY OffsetInRange
  <1>3. Offset(sf, a + s) = (a + s) % n
    <2>1. a + s \in Int BY <1>1
    <2> QED BY <2>1, OffsetInRange
  <1> HIDE DEF s, n
  <1>4. (m + s) % n = (a + s) % n
    <2>1. s \in Int BY <1>1
    <2> QED BY <1>1, <2>1, ModPlus
  <1> HIDE DEF m
  <1>5. m + s \in 0 .. n - 1 BY <1>1, <1>2
  <1>6. (m + s) % n = m + s BY <1>1, <1>5, ModSmall
  <1> QED BY <1>2, <1>3, <1>4, <1>6 DEF s

\* An address that passes the check at the width of 64 bits is the same at 32.
LEMMA SameOffset ==
  ASSUME NEW f \in [Regs -> Words], NEW k \in Regs, NEW step \in Int,
         NEW x \in BOOLEAN, x, NEW w \in BOOLEAN, ~w,
         InRange(Offset(x, GetR(f, x, k) + step))
  PROVE  Offset(w, GetR(f, w, k) + step) = Offset(x, GetR(f, x, k) + step)
  <1> DEFINE b == f[k] + step
             m == b % WORD
             c == (f[k] % HALF) + step
  <1>1. /\ GetR(f, x, k) = f[k] /\ Span(x) = WORD
        /\ GetR(f, w, k) = f[k] % HALF /\ Span(w) = HALF
    BY DEF GetR, Span
  <1>2. /\ f[k] \in Int /\ b \in Int /\ HALF \in Nat \ {0} /\ WORD \in Nat \ {0}
        /\ WORD = HALF * HALF /\ f[k] % HALF \in Int /\ c \in Int
    <2>1. f[k] \in Int /\ HALF \in Nat \ {0} /\ WORD = HALF * HALF
          /\ WORD \in Nat \ {0}
      BY Widths DEF Words, WORD
    <2>2. f[k] % HALF \in 0 .. HALF - 1 BY <2>1, DivMod
    <2> QED BY <2>1, <2>2
  <1>3. /\ Offset(x, b) = m /\ m \in 0 .. STACK_SIZE
        /\ STACK_SIZE \in Nat /\ 2 * (STACK_SIZE + 8) <= HALF
    <2>1. InRange(Offset(x, b)) BY <1>1
    <2> HIDE DEF b
    <2> QED BY <1>1, <1>2, <2>1, OffsetInRange
  <1>4. c % HALF = m
    <2>1. c % HALF = b % HALF BY <1>2, ModPlus
    <2> HIDE DEF b
    <2>2. (b % (HALF * HALF)) % HALF = b % HALF BY <1>2, ModMod
    <2> HIDE DEF m, c
    <2>3. m \in 0 .. HALF - 1 BY <1>2, <1>3
    <2>4. m % HALF = m BY <1>2, <2>3, ModSmall
    <2> QED BY <1>2, <2>1, <2>2, <2>4 DEF m
  <1>5. Offset(w, c) = m
    <2> HIDE DEF m, c
    <2>1. m \in 0 .. Span(w) - 1 BY <1>1, <1>2, <1>3
    <2>2. Signed(m, Span(w)) = m BY <1>3, <2>1, InRangeIs
    <2> QED BY <1>1, <1>4, <2>2 DEF Offset
  <1> QED BY <1>1, <1>3, <1>5

\* What lies in memory is what is loaded.
LEMMA LoadLies ==
  ASSUME NEW m, NEW sf \in BOOLEAN, NEW off \in Int, NEW v \in 0 .. Span(sf) - 1,
         Lies(m, sf, off, v)
  PROVE  Load(m, sf, off) = v
  <1>1. Span(sf) \in Nat \ {0} BY Widths DEF Span
  <1>2. v \in Int /\ v % Span(sf) = v
    <2> DEFINE n == Span(sf)
    <2>1. v \in 0 .. n - 1 OBVIOUS
    <2> HIDE DEF n
    <2>2. v % n = v /\ v \in Int BY <1>1, <2>1, ModSmall DEF n
    <2> QED BY <2>2 DEF n
  <1>3. Load(m, sf, off) = v % Span(sf) BY <1>2, LoadStored DEF Lies
  <1> QED BY <1>2, <1>3

\* A value that has been stored lies there, and a pair lies side by side.
LEMMA StoredLies ==
  ASSUME NEW m, NEW sf \in BOOLEAN, NEW off \in Int, NEW v, InRange(off)
  PROVE  /\ Lies(Store(m, sf, off, v), sf, off, v)
         /\ \A w : Lies(Store(Store(m, sf, off, v), sf, off + Size(sf), w),
                        sf, off, v)
  <1>1. Size(sf) \in {4, 8} /\ STACK_SIZE \in Nat BY StackAssumption DEF Size
  <1>2. ASSUME NEW k \in 0 .. Size(sf) - 1
        PROVE  /\ off + k \in ObjectBytes /\ (off + k) - off = k
               /\ off <= off + k /\ off + k < off + Size(sf)
    BY <1>1 DEF InRange, ObjectBytes
  <1>3. ASSUME NEW k \in 0 .. Size(sf) - 1
        PROVE  Store(m, sf, off, v)[off + k] = ByteOf(v, k)
    BY <1>2 DEF Store
  <1>4. ASSUME NEW w, NEW k \in 0 .. Size(sf) - 1
        PROVE  Store(Store(m, sf, off, v), sf, off + Size(sf), w)[off + k]
                 = ByteOf(v, k)
    <2>1. ~(off + Size(sf) <= off + k) BY <1>1
    <2> DEFINE once == Store(m, sf, off, v)
    <2>2. once[off + k] = ByteOf(v, k) BY <1>3
    <2> HIDE DEF once
    <2>3. Store(once, sf, off + Size(sf), w)[off + k] = once[off + k]
      BY <1>2, <2>1 DEF Store
    <2> QED BY <2>2, <2>3 DEF once
  <1> QED BY <1>3, <1>4 DEF Lies

-----------------------------------------------------------------------------
(* The invariant.                                                          *)

\* ADD leaves its sum.
LEMMA AddLeaves ==
  ASSUME NEW p, Seen(p), r = p.r, AddImm(p.i)
  PROVE  SumLeft(p, r')
  <1> DEFINE v == Rn(p.i) + Shifted(p.i)
  <1>1. r' = SetR(r, p.i.sf, p.i.rd, v) BY DEF AddImm, Result
  <1>2. Operand(p) = Rn(p.i) BY DEF Operand, Rn
  <1>3. v \in Int
    <2>1. Shifted(p.i) \in Nat BY FieldAssumption DEF Shifted, Seen, Instr
    <2> QED BY <1>2, <2>1, SeenType
  <1> HIDE DEF v
  <1>4. GetR(r', p.i.sf, p.i.rd) = v % Span(p.i.sf)
    BY <1>1, <1>3, SeenType, ViewWritten DEF Seen
  <1> QED BY <1>2, <1>4 DEF SumLeft, v

\* A base that was moved by a step is where the access was.
LEMMA BaseLeft ==
  ASSUME NEW p, Seen(p), NEW step \in Int,
         NEW f, f = SetR(p.r, p.i.sf, p.i.rn, Operand(p) + step)
  PROVE  Offset(p.i.sf, GetR(f, p.i.sf, p.i.rn)) = Reached(p, step)
  <1> DEFINE v == Operand(p) + step
  <1>1. v \in Int BY SeenType
  <1> HIDE DEF v
  <1>2. f = SetR(p.r, p.i.sf, p.i.rn, v) BY DEF v
  <1>3. GetR(f, p.i.sf, p.i.rn) = v % Span(p.i.sf)
    BY <1>1, <1>2, SeenType, ViewWritten DEF Seen
  <1> QED BY <1>1, <1>3, SeenType, OffsetOfView DEF Reached, v

\* STR leaves what it stored and, in its W form, the base there.
LEMMA StrLeaves ==
  ASSUME NEW p, Seen(p), r = p.r, p.i.op = "StrImm", StrImm(p.i),
         ctl' = "advance"
  PROVE  StoreLeft(p, r', mem')
  <1> DEFINE i == p.i
             step == IF i.mode = "offset" THEN Scaled(i) ELSE i.imm
             off == Offset(i.sf, Rn(i) + step)
  <1>1. /\ InRange(off) /\ i.mode # "post"
        /\ mem' = Store(mem, i.sf, off, OrZero(i, i.rd))
        /\ r' = IF i.mode = "pre" /\ ~i.sf
                THEN SetR(r, FALSE, i.rn, Rn(i) + step) ELSE r
    BY DEF StrImm, Stop, Throw
  <1>2. Operand(p) = Rn(i) /\ Given(p, i.rd) = OrZero(i, i.rd)
    BY DEF Operand, Rn, Given, OrZero
  <1>3. step = StepOf(i) /\ step \in Int BY SeenType DEF StepOf
  <1>4. off = Reached(p, step) BY <1>2 DEF Reached
  <1>5. off \in Int
    <2>1. Rn(i) + step \in Int BY <1>2, <1>3, SeenType
    <2> QED BY <2>1, SeenType, OffsetType
  <1> HIDE DEF off, step
  <1>6. Lies(mem', i.sf, off, Given(p, i.rd))
    BY <1>1, <1>2, <1>5, SeenType, StoredLies
  <1>7. ASSUME i.mode = "pre", ~i.sf
        PROVE  Offset(i.sf, GetR(r', i.sf, i.rn)) = off
    <2>1. i.sf = FALSE BY <1>7, SeenType
    <2>2. r' = SetR(p.r, i.sf, i.rn, Operand(p) + step)
      BY <1>1, <1>2, <1>7, <2>1
    <2> QED BY <1>3, <1>4, <2>2, BaseLeft
  <1>8. i.mode = "offset" => r' = p.r BY <1>1
  <1> QED BY <1>3, <1>4, <1>6, <1>7, <1>8 DEF StoreLeft

\* STP leaves both values and the base at the first.
LEMMA StpLeaves ==
  ASSUME NEW p, Seen(p), r = p.r, p.i.op = "Stp", Stp(p.i), ctl' = "advance"
  PROVE  StoreLeft(p, r', mem')
  <1> DEFINE i == p.i
             step == Scaled(i)
             off1 == Offset(i.sf, Rn(i) + Scaled(i))
             off2 == Offset(i.sf, Rn(i) + Scaled(i) + Size(i.sf))
  <1>1. /\ InRange(off1) /\ InRange(off2)
        /\ mem' = Store(Store(mem, i.sf, off1, OrZero(i, i.rd)),
                        i.sf, off2, OrZero(i, i.rm))
        /\ r' = IF i.mode = "offset" THEN r ELSE Bump(r, i, Scaled(i))
    BY DEF Stp, Throw
  <1>2. /\ Operand(p) = Rn(i) /\ Given(p, i.rd) = OrZero(i, i.rd)
        /\ Given(p, i.rm) = OrZero(i, i.rm)
    BY DEF Operand, Rn, Given, OrZero
  <1>3. step = StepOf(i) /\ step \in Int /\ i.sf \in BOOLEAN
        /\ Rn(i) + Scaled(i) \in Int
    BY <1>2, SeenType DEF StepOf
  <1>4. off1 = Reached(p, step) BY <1>2 DEF Reached
  <1>5. off1 \in Int /\ off2 = off1 + Size(i.sf)
    BY <1>1, <1>3, NextOffset, OffsetType
  <1>6. r' = IF i.mode = "offset" THEN p.r
             ELSE SetR(p.r, i.sf, i.rn, Operand(p) + step)
    BY <1>1 DEF Bump, Operand
  <1> HIDE DEF off1, off2, step
  <1>7. Lies(mem', i.sf, off1, Given(p, i.rd))
    BY <1>1, <1>2, <1>3, <1>5, StoredLies
  <1>8. Lies(mem', i.sf, off1 + Size(i.sf), Given(p, i.rm))
    <2> DEFINE once == Store(mem, i.sf, off1, OrZero(i, i.rd))
               o == off1 + Size(i.sf)
    <2>1. o \in Int /\ InRange(o) /\ mem' = Store(once, i.sf, o, Given(p, i.rm))
      BY <1>1, <1>2, <1>5, SeenType
    <2> HIDE DEF once, o
    <2>2. Lies(mem', i.sf, o, Given(p, i.rm)) BY <1>3, <2>1, StoredLies
    <2> QED BY <2>2 DEF o
  <1>9. i.mode = "pre" => Offset(i.sf, GetR(r', i.sf, i.rn)) = off1
    <2>1. ASSUME i.mode = "pre"
          PROVE  r' = SetR(p.r, i.sf, i.rn, Operand(p) + step)
      BY <1>6, <2>1
    <2> QED BY <1>3, <1>4, <2>1, BaseLeft
  <1>10. i.mode = "offset" => r' = p.r BY <1>6
  <1> QED BY <1>3, <1>4, <1>7, <1>8, <1>9, <1>10 DEF StoreLeft

\* ADDS and SUBS leave their flags.
LEMMA FlagsAreLeft ==
  ASSUME NEW p, Seen(p), r = p.r, AddsImm(p.i) \/ SubsImm(p.i),
         p.i.op = "SubsImm" => SubsImm(p.i), p.i.op # "SubsImm" => AddsImm(p.i)
  PROVE  FlagsLeft(p, nzcv')
  BY DEF FlagsLeft, AddsImm, SubsImm, Operand, Rn

\* Nothing has been executed at the start.
LEMMA IdiomsStart == IdiomsInit => IdiomsInv
  BY InitType DEF IdiomsInit, IdiomsInv, SetterInv, PrevInv, Nothing

\* What the last instruction left stays until another one is executed.
LEMMA IdiomsStep == IdiomsInv /\ [IdiomsNext]_idiomVars => IdiomsInv'
  <1> SUFFICES ASSUME IdiomsInv, [IdiomsNext]_idiomVars PROVE IdiomsInv'
    OBVIOUS
  <1>1. ASSUME UNCHANGED <<nzcv, mem, prev, setter>>, TypeOK',
               \/ ctl' \in Final
               \/ (UNCHANGED r /\ (ctl \in Final => ctl' \in Final))
        PROVE  IdiomsInv'
    <2>1. /\ nzcv' = nzcv /\ mem' = mem /\ prev' = prev /\ setter' = setter
      BY <1>1
    <2>2. SetterInv' BY <2>1 DEF IdiomsInv, SetterInv
    <2>3. PrevInv' BY <1>1, <2>1 DEF IdiomsInv, PrevInv
    <2> QED BY <1>1, <2>2, <2>3 DEF IdiomsInv
  <1>2. CASE UNCHANGED idiomVars
    <2>1. TypeOK' BY <1>2 DEF IdiomsInv, TypeOK, CoreTypeOK, idiomVars, vars
    <2> QED BY <1>1, <1>2, <2>1 DEF idiomVars, vars
  <1>3. CASE IdiomsNext
    <2>1. Next /\ Remember /\ TypeOK
      BY <1>3 DEF IdiomsNext, IdiomsInv
    <2>2. TypeOK' BY <2>1, StepType
    <2>3. CASE ~Completes
      <3>1. /\ UNCHANGED <<nzcv, mem>>
            /\ ctl' \in Final \/ (UNCHANGED r /\ ctl \notin Final)
        BY <2>1, <2>3, NothingLeft
      <3>2. prev' = prev /\ setter' = setter BY <2>1, <2>3 DEF Remember
      <3> QED BY <1>1, <2>2, <3>1, <3>2
    <2>4. CASE Completes
      <3> DEFINE i == text[pc]
                 now == [i |-> i, r |-> r]
      <3>1. Execute /\ Seen(now) BY <2>1, <2>4, Completing
      <3>2. prev' = now /\ setter' = (IF i.op \in SetsFlags THEN now ELSE setter)
        BY <2>1, <2>4 DEF Remember
      <3>3. now.i = i /\ now.r = r /\ ctl' = "advance"
        BY <2>4 DEF Completes
      <3>4. /\ i.op = "AddImm" => AddImm(i)
            /\ i.op = "StrImm" => StrImm(i)
            /\ i.op = "Stp" => Stp(i)
            /\ i.op = "AddsImm" => AddsImm(i)
            /\ i.op = "SubsImm" => SubsImm(i)
            /\ i.op \notin SetsFlags => nzcv' = nzcv
        BY <3>1, OfMnemonic
      <3> HIDE DEF now, i
      <3>5. SetterInv'
        <4>1. CASE i.op \in SetsFlags
          <5>1. FlagsLeft(now, nzcv')
            BY <3>1, <3>3, <3>4, <4>1, FlagsAreLeft DEF SetsFlags
          <5> QED BY <3>1, <3>2, <3>3, <4>1, <5>1 DEF SetterInv
        <4>2. CASE i.op \notin SetsFlags
          <5>1. nzcv' = nzcv /\ setter' = setter BY <3>2, <3>4, <4>2
          <5> QED BY <5>1 DEF IdiomsInv, SetterInv
        <4> QED BY <4>1, <4>2
      <3>6. PrevInv'
        <4>1. i.op = "AddImm" => SumLeft(now, r')
          BY <3>1, <3>3, <3>4, AddLeaves
        <4>2. i.op \in {"StrImm", "Stp"} => StoreLeft(now, r', mem')
          BY <3>1, <3>3, <3>4, StrLeaves, StpLeaves
        <4> QED BY <3>1, <3>2, <3>3, <4>1, <4>2 DEF PrevInv
      <3> QED BY <2>2, <3>5, <3>6 DEF IdiomsInv
    <2> QED BY <2>3, <2>4
  <1> QED BY <1>2, <1>3

-----------------------------------------------------------------------------
(* Compare, or add, then select.                                           *)

\* A signed result that leaves the range is not the one in the register.
LEMMA OverflowIs ==
  ASSUME NEW n \in Nat \ {0}, NEW s \in Int, -n < s, s < n
  PROVE  (s # Signed(s % n, n)) <=> ~(-n <= 2 * s /\ 2 * s < n)
  <1>1. s % n = IF s >= 0 THEN s ELSE s + n
    <2>1. CASE s >= 0
      <3>1. s \in 0 .. n - 1 BY <2>1
      <3> QED BY <2>1, <3>1, ModSmall
    <2>2. CASE s < 0
      <3>1. s + n \in 0 .. n - 1 /\ s = (s + n) + n * (-1) BY <2>2
      <3>2. ((s + n) + n * (-1)) % n = s + n BY <3>1, ModTurns
      <3> QED BY <2>2, <3>1, <3>2
    <2> QED BY <2>1, <2>2
  <1> QED BY <1>1 DEF Signed, Neg

\* One turn less leaves the same remainder.
LEMMA OneTurnLess ==
  ASSUME NEW n \in Nat \ {0}, NEW z \in Int, NEW w \in Int, w = z - n
  PROVE  w % n = z % n
  <1> DEFINE q == -1
  <1>1. q \in Int /\ q = -1 OBVIOUS
  <1> HIDE DEF q
  <1>2. (z + n * q) % n = z % n BY <1>1, ModShift
  <1>3. z + n * q = w BY <1>1
  <1> QED BY <1>2, <1>3

\* The bounds of a signed operand, and that it is the operand to a view.
LEMMA SignedBounds ==
  ASSUME NEW n \in Nat \ {0}, NEW x \in 0 .. n - 1, NEW y \in Int
  PROVE  /\ Signed(x, n) \in Int /\ -n <= 2 * Signed(x, n)
         /\ 2 * Signed(x, n) < n
         /\ (Signed(x, n) + y) % n = (x + y) % n
  <1>1. Signed(x, n) \in Int /\ -n <= 2 * Signed(x, n) /\ 2 * Signed(x, n) < n
    BY DEF Signed, Neg
  <1>2. CASE Signed(x, n) = x BY <1>1, <1>2
  <1>3. CASE Signed(x, n) # x
    <2> DEFINE w == Signed(x, n) + y
               z == x + y
    <2>1. w = z - n /\ z \in Int /\ w \in Int BY <1>3 DEF Signed
    <2> HIDE DEF w, z
    <2>2. w % n = z % n BY <2>1, OneTurnLess
    <2> QED BY <1>1, <2>2 DEF w, z
  <1> QED BY <1>2, <1>3

\* The flags a SUBS left decide what the conditions say of its operands.
LEMMA SubsDecides ==
  ASSUME NEW p, Seen(p), p.i.op = "SubsImm", FlagsLeft(p, nzcv),
         nzcv \in Flags, NEW cond \in (0 .. 15) \ Misread
  PROVE  CondTrue(nzcv, cond) <=> Compared(p, cond)
  <1> DEFINE n == Span(p.i.sf)
             x == Operand(p)
             y == Shifted(p.i)
             u == x - y
             s == Signed(x, n) - y
  <1>1. /\ p.i.sf \in BOOLEAN /\ x \in 0 .. Span(p.i.sf) - 1
        /\ n \in Nat \ {0} /\ x \in Nat
    BY SeenType
  <1>2. y \in Nat /\ 2 * y < Span(p.i.sf) BY ImmediateSmall DEF Seen
  <1>3. nzcv = SubsFlags(p.i.sf, x, y) BY DEF FlagsLeft
  <1> HIDE DEF x, y
  <1>4. nzcv = [ n |-> Neg(u % n, n), z |-> u % n = 0, c |-> x >= y,
                 v |-> s # Signed(u % n, n) ]
    BY <1>1, <1>2, <1>3, SubsFlagsConform
  <1>5. x \in 0 .. n - 1 /\ 2 * y < n BY <1>1, <1>2
  <1> HIDE DEF n
  <1>6. /\ Signed(x, n) \in Int /\ -n <= 2 * Signed(x, n)
        /\ 2 * Signed(x, n) < n
        /\ (Signed(x, n) + (-y)) % n = (x + (-y)) % n
    <2>1. -y \in Int BY <1>2
    <2> QED BY <1>1, <1>5, <2>1, SignedBounds
  <1>7. /\ u \in Int /\ s \in Int /\ -n <= u /\ u < n /\ -n < s /\ s < n
        /\ Signed(x, n) + (-y) = s /\ x + (-y) = u
        /\ ((x >= y) <=> (u >= 0))
    BY <1>1, <1>2, <1>5, <1>6
  <1>8. u % n = s % n BY <1>6, <1>7
  <1> HIDE DEF u, s
  <1>9. (s # Signed(s % n, n)) <=> ~(-n <= 2 * s /\ 2 * s < n)
    BY <1>1, <1>7, OverflowIs
  <1>10. /\ nzcv.n <=> Neg(u % n, n)
         /\ nzcv.z <=> u % n = 0
         /\ nzcv.c <=> u >= 0
         /\ nzcv.v <=> ~(-n <= 2 * s /\ 2 * s < n)
    <2>1. /\ nzcv.n = Neg(u % n, n) /\ nzcv.z = (u % n = 0)
          /\ nzcv.c = (x >= y) /\ nzcv.v = (s # Signed(u % n, n))
      BY <1>4, Zenon
    <2> QED BY <1>7, <1>8, <1>9, <2>1
  <1>11. CondTrue(nzcv, cond) <=> Means(cond, n, u, s)
    BY <1>1, <1>7, <1>8, <1>10, FlagsDecide
  <1> QED BY <1>11 DEF Compared, n, x, y, u, s

\* The flags an ADDS left; V is right in the W form only.
LEMMA AddsDecides ==
  ASSUME NEW p, Seen(p), p.i.op = "AddsImm", FlagsLeft(p, nzcv),
         nzcv \in Flags, NEW cond \in (0 .. 15) \ Misread,
         p.i.sf => cond \notin ReadsV
  PROVE  CondTrue(nzcv, cond) <=> Summed(p, cond)
  <1> DEFINE n == Span(p.i.sf)
             x == Operand(p)
             y == Shifted(p.i)
             u == x + y - n
             s == Signed(x, n) + y
  <1>1. /\ p.i.sf \in BOOLEAN /\ x \in 0 .. Span(p.i.sf) - 1
        /\ n \in Nat \ {0} /\ x \in Nat
    BY SeenType
  <1>2. y \in Nat /\ 2 * y < Span(p.i.sf) BY ImmediateSmall DEF Seen
  <1>3. nzcv = AddsFlags(p.i.sf, x, y) BY DEF FlagsLeft
  <1> HIDE DEF x, y
  <1>4. x \in 0 .. n - 1 /\ 2 * y < n BY <1>1, <1>2
  <1>5. ~p.i.sf => nzcv.v = (s # Signed((x + y) % n, n))
    <2>1. ASSUME ~p.i.sf
          PROVE  nzcv.v = (s # Signed((x + y) % n, n))
      <3>1. nzcv = [ n |-> Neg((x + y) % n, n), z |-> (x + y) % n = 0,
                     c |-> x + y >= n, v |-> s # Signed((x + y) % n, n) ]
        BY <1>1, <1>2, <1>3, <2>1, AddsFlagsConform
      <3> QED BY <3>1, Zenon
    <2> QED BY <2>1, Zenon
  <1>6. /\ nzcv.n = Neg((x + y) % n, n) /\ nzcv.z = ((x + y) % n = 0)
        /\ nzcv.c = (n - 1 - y < x)
    BY <1>3, Zenon DEF AddsFlags
  <1> HIDE DEF n
  <1>7. /\ Signed(x, n) \in Int /\ -n <= 2 * Signed(x, n)
        /\ 2 * Signed(x, n) < n
        /\ (Signed(x, n) + y) % n = (x + y) % n
    <2>1. y \in Int BY <1>2
    <2> QED BY <1>1, <1>4, <2>1, SignedBounds
  <1>8. /\ u \in Int /\ s \in Int /\ -n <= u /\ u < n /\ -n < s /\ s < n
        /\ ((n - 1 - y < x) <=> (u >= 0)) /\ x + y \in Int
        /\ u = (x + y) - n
    BY <1>1, <1>2, <1>4, <1>7
  <1>9. u % n = (x + y) % n /\ u % n = s % n
    <2>1. u % n = (x + y) % n BY <1>1, <1>8, OneTurnLess
    <2> QED BY <1>7, <1>8, <2>1
  <1> HIDE DEF u, s
  <1>10. (s # Signed(s % n, n)) <=> ~(-n <= 2 * s /\ 2 * s < n)
    BY <1>1, <1>8, OverflowIs
  <1>11. /\ nzcv.n <=> Neg(u % n, n)
         /\ nzcv.z <=> u % n = 0
         /\ nzcv.c <=> u >= 0
         /\ cond \in ReadsV => (nzcv.v <=> ~(-n <= 2 * s /\ 2 * s < n))
    BY <1>5, <1>6, <1>8, <1>9, <1>10
  <1>12. CondTrue(nzcv, cond) <=> Means(cond, n, u, s)
    BY <1>1, <1>8, <1>9, <1>11, FlagsDecide
  <1> QED BY <1>12 DEF Summed, n, x, y, u, s

\* The condition of a word, as it is named.
LEMMA NamedType ==
  ASSUME nzcv \in Flags, NEW i \in Instr
  PROVE  Named(i) \in 0 .. 15
  <1>1. i.cond \in 0 .. 15 BY DEF Instr
  <1>2. i.cond < 14 => Inverted(i.cond) \in 0 .. 13 BY <1>1, ConditionIs
  <1> QED BY <1>1, <1>2 DEF Named, IsCset

\* CSINC and CSET choose by the condition that is named.
LEMMA Chooses ==
  ASSUME CoreTypeOK, NEW i \in Instr, Csinc(i), NEW b,
         CondTrue(nzcv, Named(i)) <=> b
  PROVE  GetR(r', i.sf, i.rd) = Chosen(i, b)
  <1> DEFINE n == Span(i.sf)
  <1>1. /\ i.sf \in BOOLEAN /\ i.rd \in Regs /\ i.rn \in Regs /\ i.rm \in Regs
        /\ r \in [Regs -> Words]
    BY DEF Instr, CoreTypeOK
  <1>2. n \in Nat \ {0} /\ n > 1
    <2>1. HALF \in Nat /\ WORD \in Nat /\ HALF <= WORD BY Widths
    <2>2. HALF > 1 BY <2>1, StackAssumption
    <2> QED BY <2>1, <2>2 DEF Span
  <1>3. ASSUME NEW v \in Int, Result(i, v)
        PROVE  GetR(r', i.sf, i.rd) = v % n
    BY <1>1, <1>3, ViewWritten DEF Result
  <1>4. \A k \in Regs : OrZero(i, k) \in 0 .. n - 1 BY ArmReg
  <1> HIDE DEF n
  <1>5. \A v \in 0 .. n - 1 : v \in Int /\ v % n = v BY <1>2, ModSmall
  <1>6. CASE IsCset(i)
    <2> DEFINE v == IF b THEN 1 ELSE 0
    <2>1. Result(i, v) BY <1>6 DEF Csinc, Named
    <2>2. v \in 0 .. n - 1 BY <1>2
    <2> HIDE DEF v
    <2>3. GetR(r', i.sf, i.rd) = v BY <1>3, <1>5, <2>1, <2>2
    <2> QED BY <1>6, <2>3 DEF Chosen, v
  <1>7. CASE ~IsCset(i)
    <2>1. Result(i, IF b THEN OrZero(i, i.rn) ELSE OrZero(i, i.rm) + 1)
      BY <1>7 DEF Csinc, Named
    <2>2. CASE b
      <3>1. OrZero(i, i.rn) \in 0 .. n - 1 BY <1>1, <1>4
      <3>2. Result(i, OrZero(i, i.rn)) BY <2>1, <2>2
      <3>3. GetR(r', i.sf, i.rd) = OrZero(i, i.rn)
        BY <1>3, <1>5, <3>1, <3>2
      <3> QED BY <1>7, <2>2, <3>3 DEF Chosen
    <2>3. CASE ~b
      <3>1. OrZero(i, i.rm) + 1 \in Int BY <1>1, <1>2, <1>4
      <3>2. Result(i, OrZero(i, i.rm) + 1) BY <2>1, <2>3
      <3>3. GetR(r', i.sf, i.rd) = (OrZero(i, i.rm) + 1) % n
        BY <1>3, <3>1, <3>2
      <3> QED BY <1>7, <2>3, <3>3 DEF Chosen, n
    <2> QED BY <2>2, <2>3
  <1> QED BY <1>6, <1>7

\* The instruction that selects.
LEMMA SelectStep ==
  ASSUME IdiomsInv, Next, Completes, text[pc].op = "Csinc",
         setter.i.op \in SetsFlags, Named(text[pc]) \notin Misread
  PROVE  /\ setter.i.op = "SubsImm" =>
              GetR(r', text[pc].sf, text[pc].rd)
                = Chosen(text[pc], Compared(setter, Named(text[pc])))
         /\ setter.i.op = "AddsImm"
              /\ (setter.i.sf => Named(text[pc]) \notin ReadsV) =>
              GetR(r', text[pc].sf, text[pc].rd)
                = Chosen(text[pc], Summed(setter, Named(text[pc])))
  <1> DEFINE i == text[pc]
             cond == Named(i)
  <1>1. /\ TypeOK /\ CoreTypeOK /\ nzcv \in Flags /\ i \in Instr
        /\ Csinc(i)
    BY Completing, OfMnemonic DEF IdiomsInv, CoreTypeOK
  <1>2. Seen(setter) /\ FlagsLeft(setter, nzcv)
    BY DEF IdiomsInv, SetterInv, SetsFlags
  <1>3. cond \in (0 .. 15) \ Misread BY <1>1, NamedType
  <1> HIDE DEF i
  <1>5. ASSUME setter.i.op = "SubsImm"
        PROVE  GetR(r', i.sf, i.rd) = Chosen(i, Compared(setter, cond))
    <2>1. CondTrue(nzcv, cond) <=> Compared(setter, cond)
      BY <1>1, <1>2, <1>3, <1>5, SubsDecides
    <2> QED BY <1>1, <2>1, Chooses DEF cond
  <1>6. ASSUME setter.i.op = "AddsImm", setter.i.sf => cond \notin ReadsV
        PROVE  GetR(r', i.sf, i.rd) = Chosen(i, Summed(setter, cond))
    <2>1. CondTrue(nzcv, cond) <=> Summed(setter, cond)
      BY <1>1, <1>2, <1>3, <1>6, AddsDecides
    <2> QED BY <1>1, <2>1, Chooses DEF cond
  <1> QED BY <1>5, <1>6 DEF i

-----------------------------------------------------------------------------
(* Add, then subtract.                                                     *)

\* SUB behind an ADD of the same immediate.
LEMMA UndoStep ==
  ASSUME IdiomsInv, Next, Completes, text[pc].op = "SubImm",
         prev.i.op = "AddImm", text[pc].rn = prev.i.rd, text[pc].sf = prev.i.sf,
         text[pc].sh = prev.i.sh, text[pc].imm = prev.i.imm
  PROVE  GetR(r', text[pc].sf, text[pc].rd) = Operand(prev)
  <1> DEFINE i == text[pc]
             n == Span(i.sf)
             x == Operand(prev)
             y == Shifted(i)
             m == (x + y) % n
  <1>1. /\ CoreTypeOK /\ i \in Instr /\ SubImm(i) /\ r \in [Regs -> Words]
        /\ i.rd \in Regs /\ i.sf \in BOOLEAN
    BY Completing, OfMnemonic DEF IdiomsInv, Instr
  <1>2. Seen(prev) /\ SumLeft(prev, r)
    BY DEF IdiomsInv, PrevInv, Completes, Final
  <1>3. x \in 0 .. n - 1 /\ n \in Nat \ {0} /\ x \in Nat BY <1>2, SeenType
  <1>4. y \in Nat BY <1>1, FieldAssumption DEF Shifted, Instr
  <1>5. Shifted(prev.i) = y BY DEF Shifted
  <1>6. Rn(i) = m BY <1>2, <1>5 DEF SumLeft, Rn
  <1>7. r' = SetR(r, i.sf, i.rd, m - y) BY <1>1, <1>6 DEF SubImm, Result
  <1> HIDE DEF i, y, x, n
  <1>9. (m - y) % n = x /\ m - y \in Int
    <2> DEFINE z == x + y
    <2>1. z \in Int /\ -y \in Int /\ z + (-y) = x BY <1>3, <1>4
    <2> HIDE DEF z
    <2>2. (z % n) + (-y) = (z % n) - y /\ z % n \in Int BY <1>3, <1>4, <2>1
    <2>3. ((z % n) + (-y)) % n = (z + (-y)) % n BY <1>3, <2>1, ModPlus
    <2>4. x % n = x BY <1>3, ModSmall
    <2>5. (z % n) - y \in Int BY <1>4, <2>2
    <2> QED BY <2>1, <2>2, <2>3, <2>4, <2>5 DEF z
  <1> DEFINE d == m - y
  <1>10. d \in Int /\ d % n = x /\ r' = SetR(r, i.sf, i.rd, d) BY <1>7, <1>9
  <1> HIDE DEF d
  <1>11. GetR(r', i.sf, i.rd) = d % Span(i.sf)
    BY <1>1, <1>10, ViewWritten
  <1> QED BY <1>10, <1>11 DEF i, n, x

-----------------------------------------------------------------------------
(* Store, then load.                                                       *)

\* What is loaded is a word of the view.
LEMMA LoadedWord ==
  ASSUME NEW m \in [ObjectBytes -> Bytes], NEW sf \in BOOLEAN, NEW off \in Int,
         InRange(off)
  PROVE  Load(m, sf, off) \in 0 .. Span(sf) - 1
  <1>1. Size(sf) \in {4, 8} /\ STACK_SIZE \in Nat BY StackAssumption DEF Size
  <1>2. \A k \in 0 .. Size(sf) - 1 : off + k \in ObjectBytes
    BY <1>1 DEF InRange, ObjectBytes
  <1>3. \A k \in 0 .. Size(sf) - 1 : m[off + k] \in Bytes BY <1>2
  <1> QED BY <1>3, LoadBytes

\* A word of a view is what the view shows of it.
LEMMA WordShown ==
  ASSUME NEW f \in [Regs -> Words], NEW sf \in BOOLEAN, NEW k \in Regs,
         NEW v \in 0 .. Span(sf) - 1
  PROVE  /\ SetR(f, sf, k, v) \in [Regs -> Words]
         /\ GetR(SetR(f, sf, k, v), sf, k) = v
         /\ \A j \in Regs \ {k} : GetR(SetR(f, sf, k, v), sf, j) = GetR(f, sf, j)
  <1> DEFINE n == Span(sf)
  <1>1. n \in Nat \ {0} BY ViewRange
  <1>2. v \in 0 .. n - 1 OBVIOUS
  <1> HIDE DEF n
  <1>3. v \in Int /\ v % n = v BY <1>1, <1>2, ModSmall
  <1>4. /\ SetR(f, sf, k, v) \in [Regs -> Words]
        /\ GetR(SetR(f, sf, k, v), sf, k) = v % Span(sf)
        /\ \A j \in Regs \ {k} : SetR(f, sf, k, v)[j] = f[j]
    BY <1>3, ViewWritten
  <1> QED BY <1>3, <1>4 DEF GetR, n

\* LDR from where its base points or its offset leads.
LEMMA LdrLoads ==
  ASSUME CoreTypeOK, NEW i \in Instr, LdrImm(i), ctl' = "advance",
         i.mode = "offset" \/ i.imm = 0,
         NEW off, off = Offset(i.sf, Rn(i) + Scaled(i))
  PROVE  /\ InRange(off) /\ off \in Int
         /\ GetR(r', i.sf, i.rd) = Load(mem, i.sf, off)
  <1> DEFINE step == IF i.mode = "offset" THEN Scaled(i) ELSE i.imm
             v == Load(mem, i.sf, off)
             loaded == SetR(r, i.sf, i.rd, v)
  <1>1. /\ i.sf \in BOOLEAN /\ i.rd \in Regs /\ i.rn \in Regs /\ i.imm \in Nat
        /\ r \in [Regs -> Words] /\ mem \in [ObjectBytes -> Bytes]
        /\ Size(i.sf) \in {4, 8}
    BY DEF Instr, CoreTypeOK, Size
  <1>2. step = Scaled(i) /\ Scaled(i) \in Int
    <2>1. i.imm = 0 => Scaled(i) = 0 BY <1>1 DEF Scaled
    <2> QED BY <1>1, <2>1 DEF Scaled
  <1>3. off \in Int
    <2>1. Rn(i) \in Int BY <1>1, OperandType
    <2>2. Rn(i) + Scaled(i) \in Int BY <1>2, <2>1
    <2> QED BY <1>1, <2>2, OffsetType
  <1>4. /\ InRange(Offset(i.sf, Rn(i) + step))
        /\ r' = LET l == SetR(r, i.sf, i.rd,
                              Load(mem, i.sf, Offset(i.sf, Rn(i) + step)))
                IN IF i.mode = "pre" THEN Bump(l, i, step) ELSE l
    BY DEF LdrImm, Stop, Throw
  <1>5. /\ InRange(off)
        /\ r' = IF i.mode = "pre" THEN Bump(loaded, i, step) ELSE loaded
    BY <1>2, <1>4
  <1>6. v \in 0 .. Span(i.sf) - 1 BY <1>1, <1>3, <1>5, LoadedWord
  <1> HIDE DEF v, step
  <1>7. loaded \in [Regs -> Words] /\ GetR(loaded, i.sf, i.rd) = v
    BY <1>1, <1>6, WordShown
  <1>8. r' = loaded
    <2> HIDE DEF loaded
    <2>1. CASE i.mode = "pre"
      <3>1. step = 0 BY <2>1 DEF step
      <3>2. Bump(loaded, i, 0) = loaded
        BY <1>1, <1>7, NothingWritten DEF Bump
      <3> QED BY <1>5, <2>1, <3>1, <3>2
    <2>2. CASE i.mode # "pre" BY <1>5, <2>2
    <2> QED BY <2>1, <2>2
  <1> QED BY <1>3, <1>5, <1>7, <1>8 DEF v

\* LDP from where its base points or its offset leads, into two registers.
LEMMA LdpLoads ==
  ASSUME CoreTypeOK, NEW i \in Instr, Ldp(i), ctl' = "advance",
         i.mode = "offset" \/ i.imm = 0, i.rd # i.rm,
         NEW off, off = Offset(i.sf, Rn(i) + Scaled(i))
  PROVE  /\ InRange(off) /\ InRange(off + Size(i.sf)) /\ off \in Int
         /\ GetR(r', i.sf, i.rd) = Load(mem, i.sf, off)
         /\ GetR(r', i.sf, i.rm) = Load(mem, i.sf, off + Size(i.sf))
  <1> DEFINE s == Scaled(i)
             a == Rn(i) + s
             v == Load(mem, i.sf, off)
             w == Load(mem, i.sf, off + Size(i.sf))
             one == SetR(r, i.sf, i.rd, v)
             two == SetR(one, i.sf, i.rm, w)
  <1>1. /\ i.sf \in BOOLEAN /\ i.rd \in Regs /\ i.rn \in Regs /\ i.imm \in Nat
        /\ i.rm \in Regs /\ r \in [Regs -> Words]
        /\ mem \in [ObjectBytes -> Bytes] /\ Size(i.sf) \in {4, 8}
        /\ i.mode \in {"offset", "pre", "post"}
    BY DEF Instr, CoreTypeOK, Size
  <1>2. s \in Int /\ (i.mode # "offset" => s = 0)
    <2>1. i.imm = 0 => Scaled(i) = 0 BY <1>1 DEF Scaled
    <2> QED BY <1>1, <2>1 DEF Scaled
  <1>3. a \in Int /\ off \in Int
    <2>1. Rn(i) \in Int BY <1>1, OperandType
    <2>2. a \in Int BY <1>2, <2>1
    <2> HIDE DEF a
    <2> QED BY <1>1, <2>2, OffsetType DEF a
  <1>4. InRange(off) /\ InRange(Offset(i.sf, a + Size(i.sf)))
    BY DEF Ldp, Throw
  <1>5. Offset(i.sf, a + Size(i.sf)) = off + Size(i.sf)
    <2>1. off = Offset(i.sf, a) OBVIOUS
    <2> HIDE DEF a
    <2> QED BY <1>1, <1>3, <1>4, <2>1, NextOffset
  <1>6. r' = CASE i.mode = "offset" -> two
               [] i.mode = "pre" ->
                    SetR(SetR(Bump(r, i, s), i.sf, i.rd, v), i.sf, i.rm, w)
               [] i.mode = "post" -> Bump(two, i, s)
    BY <1>5 DEF Ldp, Throw
  <1>7. /\ v \in 0 .. Span(i.sf) - 1 /\ w \in 0 .. Span(i.sf) - 1
        /\ off + Size(i.sf) \in Int
    <2>1. off + Size(i.sf) \in Int BY <1>1, <1>3
    <2> QED BY <1>1, <1>3, <1>4, <1>5, <2>1, LoadedWord
  <1> HIDE DEF v, w, s
  <1>8. /\ two \in [Regs -> Words]
        /\ GetR(two, i.sf, i.rd) = v /\ GetR(two, i.sf, i.rm) = w
    <2>1. one \in [Regs -> Words] /\ GetR(one, i.sf, i.rd) = v
      BY <1>1, <1>7, WordShown
    <2> HIDE DEF one
    <2> QED BY <1>1, <1>7, <2>1, WordShown
  <1>9. r' = two
    <2>1. CASE i.mode = "offset" BY <1>6, <2>1
    <2>2. CASE i.mode = "pre"
      <3>1. Bump(r, i, 0) = r BY <1>1, NothingWritten DEF Bump
      <3> QED BY <1>2, <1>6, <2>2, <3>1
    <2>3. CASE i.mode = "post"
      <3>1. Bump(two, i, 0) = two
        <4> HIDE DEF two
        <4> QED BY <1>1, <1>8, NothingWritten DEF Bump
      <3> QED BY <1>2, <1>6, <2>3, <3>1
    <2> QED BY <1>1, <2>1, <2>2, <2>3
  <1> QED BY <1>3, <1>4, <1>5, <1>8, <1>9 DEF v, w

\* What the store before left in the memory, seen from the next instruction.
LEMMA StoreBefore ==
  ASSUME IdiomsInv, ctl \notin Final, prev.i.op \in {"StrImm", "Stp"},
         NEW off, off = Reached(prev, StepOf(prev.i))
  PROVE  /\ Seen(prev) /\ StoreLeft(prev, r, mem) /\ off \in Int
         /\ Lies(mem, prev.i.sf, off, Given(prev, prev.i.rd))
         /\ prev.i.op = "Stp" =>
              Lies(mem, prev.i.sf, off + Size(prev.i.sf), Given(prev, prev.i.rm))
  <1>1. Seen(prev) /\ StoreLeft(prev, r, mem) BY DEF IdiomsInv, PrevInv
  <1>2. off \in Int
    <2>1. Operand(prev) + StepOf(prev.i) \in Int BY <1>1, SeenType
    <2> QED BY <1>1, <2>1, SeenType, OffsetType DEF Reached
  <1> QED BY <1>1, <1>2 DEF StoreLeft

\* A load without offset behind a store that moved its base.
LEMMA PopStep ==
  ASSUME IdiomsInv, Next, Completes, text[pc].op \in {"LdrImm", "Ldp"},
         text[pc].op = "Ldp" => text[pc].rd # text[pc].rm,
         prev.i.op \in {"StrImm", "Stp"}, ~(prev.i.op = "StrImm" /\ prev.i.sf),
         prev.i.mode = "pre", text[pc].imm = 0, text[pc].sf = prev.i.sf,
         text[pc].rn = prev.i.rn
  PROVE  /\ GetR(r', text[pc].sf, text[pc].rd) = Given(prev, prev.i.rd)
         /\ prev.i.op = "Stp" /\ text[pc].op = "Ldp" =>
              GetR(r', text[pc].sf, text[pc].rm) = Given(prev, prev.i.rm)
  <1> DEFINE i == text[pc]
             off == Reached(prev, StepOf(prev.i))
  <1>1. /\ CoreTypeOK /\ i \in Instr /\ ctl' = "advance"
        /\ i.op = "LdrImm" => LdrImm(i)
        /\ i.op = "Ldp" => Ldp(i)
        /\ i.sf \in BOOLEAN /\ i.rn \in Regs /\ r \in [Regs -> Words]
    BY Completing, OfMnemonic DEF IdiomsInv, Instr, Completes
  <1>2. /\ Seen(prev) /\ StoreLeft(prev, r, mem) /\ off \in Int
        /\ Lies(mem, i.sf, off, Given(prev, prev.i.rd))
        /\ prev.i.op = "Stp" =>
             Lies(mem, i.sf, off + Size(i.sf), Given(prev, prev.i.rm))
    BY StoreBefore DEF Completes, Final
  <1>3. off = Offset(i.sf, Rn(i) + Scaled(i))
    <2>1. off = Offset(i.sf, GetR(r, i.sf, i.rn)) BY <1>2 DEF StoreLeft
    <2>2. Scaled(i) = 0 BY DEF Scaled, Size
    <2>3. Rn(i) + 0 = Rn(i) BY <1>1, OperandType
    <2> QED BY <2>1, <2>2, <2>3 DEF Rn
  <1>4. /\ Given(prev, prev.i.rd) \in 0 .. Span(i.sf) - 1
        /\ Given(prev, prev.i.rm) \in 0 .. Span(i.sf) - 1
    BY <1>2, SeenType
  <1> HIDE DEF off, i
  <1>5. Load(mem, i.sf, off) = Given(prev, prev.i.rd)
    BY <1>1, <1>2, <1>4, LoadLies
  <1>6. CASE i.op = "LdrImm"
    <2>1. i.mode = "offset" \/ i.imm = 0 BY DEF i
    <2> QED BY <1>1, <1>3, <1>5, <1>6, <2>1, LdrLoads DEF i
  <1>7. CASE i.op = "Ldp"
    <2>1. /\ i.mode = "offset" \/ i.imm = 0
          /\ i.rd # i.rm
      BY <1>7 DEF i
    <2>2. /\ InRange(off) /\ InRange(off + Size(i.sf))
          /\ GetR(r', i.sf, i.rd) = Load(mem, i.sf, off)
          /\ GetR(r', i.sf, i.rm) = Load(mem, i.sf, off + Size(i.sf))
      BY <1>1, <1>3, <1>7, <2>1, LdpLoads
    <2>3. prev.i.op = "Stp" =>
            Load(mem, i.sf, off + Size(i.sf)) = Given(prev, prev.i.rm)
      <3> DEFINE next == off + Size(i.sf)
      <3>1. next \in Int BY <1>2 DEF Size
      <3>2. prev.i.op = "Stp" => Lies(mem, i.sf, next, Given(prev, prev.i.rm))
        BY <1>2
      <3> HIDE DEF next
      <3>3. prev.i.op = "Stp" =>
              Load(mem, i.sf, next) = Given(prev, prev.i.rm)
        BY <1>1, <1>4, <3>1, <3>2, LoadLies
      <3> QED BY <3>3 DEF next
    <2> QED BY <1>5, <2>2, <2>3 DEF i
  <1> QED BY <1>6, <1>7 DEF i

\* Two words side by side are one.
LEMMA Whole ==
  ASSUME NEW m, NEW x \in BOOLEAN, x, NEW w \in BOOLEAN, ~w, NEW off
  PROVE  Load(m, x, off) = Load(m, w, off) + HALF * Load(m, w, off + 4)
  BY DEF Load, FromBytes8

\* A load of the other width from where a store was.
LEMMA WidthStep ==
  ASSUME IdiomsInv, Next, Completes, prev.i.op \in {"StrImm", "Stp"},
         prev.i.mode = "offset", text[pc].mode = "offset",
         text[pc].rn = prev.i.rn, Scaled(text[pc]) = Scaled(prev.i)
  PROVE  /\ prev.i.op = "Stp" /\ ~prev.i.sf /\ text[pc].op = "LdrImm"
              /\ text[pc].sf =>
              r'[text[pc].rd]
                = Given(prev, prev.i.rd) + HALF * Given(prev, prev.i.rm)
         /\ prev.i.op = "StrImm" /\ prev.i.sf /\ text[pc].op = "Ldp"
              /\ ~text[pc].sf /\ text[pc].rd # text[pc].rm =>
              GetR(r', text[pc].sf, text[pc].rd)
                + HALF * GetR(r', text[pc].sf, text[pc].rm)
                = Given(prev, prev.i.rd)
  <1> DEFINE i == text[pc]
             p == prev.i
             stored == Reached(prev, StepOf(p))
             off == Offset(i.sf, Rn(i) + Scaled(i))
  <1>1. /\ CoreTypeOK /\ i \in Instr /\ ctl' = "advance"
        /\ i.op = "LdrImm" => LdrImm(i)
        /\ i.op = "Ldp" => Ldp(i)
        /\ i.sf \in BOOLEAN /\ i.rn \in Regs /\ r \in [Regs -> Words]
        /\ Scaled(i) \in Int
    BY Completing, OfMnemonic, OperandType DEF IdiomsInv, Instr, Completes
  <1>2. /\ Seen(prev) /\ StoreLeft(prev, r, mem) /\ stored \in Int
        /\ Lies(mem, p.sf, stored, Given(prev, p.rd))
        /\ p.op = "Stp" => Lies(mem, p.sf, stored + Size(p.sf), Given(prev, p.rm))
    BY StoreBefore DEF Completes, Final
  <1>3. p.sf \in BOOLEAN /\ InRange(stored) BY <1>2, SeenType DEF Lies
  <1>4. stored = Offset(p.sf, GetR(r, p.sf, i.rn) + Scaled(i))
    <2>1. r = prev.r BY <1>2 DEF StoreLeft
    <2> QED BY <2>1 DEF Reached, StepOf, Operand
  <1>5. off = Offset(i.sf, GetR(r, i.sf, i.rn) + Scaled(i)) BY DEF Rn
  <1>6. /\ Given(prev, p.rd) \in 0 .. Span(p.sf) - 1
        /\ Given(prev, p.rm) \in 0 .. Span(p.sf) - 1
    BY <1>2, SeenType
  <1>7. i.mode = "offset" OBVIOUS
  <1>8. off = Offset(i.sf, Rn(i) + Scaled(i)) OBVIOUS
  <1> HIDE DEF stored, off, i, p
  <1>9. ASSUME p.op = "Stp", ~p.sf, i.op = "LdrImm", i.sf
        PROVE  r'[i.rd] = Given(prev, p.rd) + HALF * Given(prev, p.rm)
    <2>1. /\ InRange(off) /\ off \in Int
          /\ GetR(r', i.sf, i.rd) = Load(mem, i.sf, off)
      BY <1>1, <1>7, <1>8, <1>9, LdrLoads
    <2>2. stored = off BY <1>1, <1>3, <1>4, <1>5, <1>9, <2>1, SameOffset
    <2>3. Load(mem, p.sf, off) = Given(prev, p.rd)
      BY <1>2, <1>3, <1>6, <2>2, LoadLies
    <2>4. Load(mem, p.sf, off + 4) = Given(prev, p.rm)
      <3> DEFINE next == off + 4
      <3>1. next \in Int /\ Lies(mem, p.sf, next, Given(prev, p.rm))
        BY <1>2, <1>9, <2>1, <2>2 DEF Size
      <3> HIDE DEF next
      <3>2. Load(mem, p.sf, next) = Given(prev, p.rm)
        BY <1>3, <1>6, <3>1, LoadLies
      <3> QED BY <3>2 DEF next
    <2>5. Load(mem, i.sf, off)
            = Load(mem, p.sf, off) + HALF * Load(mem, p.sf, off + 4)
      BY <1>1, <1>3, <1>9, Whole
    <2> QED BY <1>9, <2>1, <2>3, <2>4, <2>5 DEF GetR
  <1>10. ASSUME p.op = "StrImm", p.sf, i.op = "Ldp", ~i.sf, i.rd # i.rm
         PROVE  GetR(r', i.sf, i.rd) + HALF * GetR(r', i.sf, i.rm)
                  = Given(prev, p.rd)
    <2>1. off = stored BY <1>1, <1>3, <1>4, <1>5, <1>10, SameOffset
    <2>2. /\ GetR(r', i.sf, i.rd) = Load(mem, i.sf, off)
          /\ GetR(r', i.sf, i.rm) = Load(mem, i.sf, off + 4)
      <3>1. Size(i.sf) = 4 BY <1>10 DEF Size
      <3>2. /\ GetR(r', i.sf, i.rd) = Load(mem, i.sf, off)
            /\ GetR(r', i.sf, i.rm) = Load(mem, i.sf, off + Size(i.sf))
        BY <1>1, <1>7, <1>8, <1>10, LdpLoads
      <3> QED BY <3>1, <3>2
    <2>3. Load(mem, p.sf, off) = Given(prev, p.rd)
      BY <1>2, <1>3, <1>6, <2>1, LoadLies
    <2>4. Load(mem, p.sf, off)
            = Load(mem, i.sf, off) + HALF * Load(mem, i.sf, off + 4)
      BY <1>1, <1>3, <1>10, Whole
    <2> QED BY <2>2, <2>3, <2>4
  <1> QED BY <1>9, <1>10 DEF i, p

-----------------------------------------------------------------------------
(* The theorems.  Each is its step, for every step of every program.       *)

\* What the instructions left is true throughout.
LEMMA Left == IdiomsSpec => []IdiomsInv
  BY IdiomsStart, IdiomsStep, PTL DEF IdiomsSpec

(* For every program: whatever was executed since, CSINC and CSET behind a *)
(* SUBS choose by what the condition's name says of the operands that were *)
(* compared, at both widths, for every condition but LS and LE.            *)
THEOREM ComparedThenSelected == IdiomsSpec => CompareThenSelect
  <1>1. IdiomsInv /\ [IdiomsNext]_idiomVars =>
          [ LET i == text[pc]
            IN Completes /\ i.op = "Csinc" /\ setter.i.op = "SubsImm"
                 /\ Named(i) \notin Misread
               => GetR(r', i.sf, i.rd)
                    = Chosen(i, Compared(setter, Named(i))) ]_idiomVars
    BY SelectStep DEF IdiomsNext, SetsFlags
  <1> QED BY <1>1, Left, PTL DEF IdiomsSpec, CompareThenSelect

(* For every program: likewise behind an ADDS.  Its X form leaves a V that *)
(* says nothing, so for the conditions that do not read it.                *)
THEOREM AddedThenSelected == IdiomsSpec => AddThenSelect
  <1>1. IdiomsInv /\ [IdiomsNext]_idiomVars =>
          [ LET i == text[pc]
            IN Completes /\ i.op = "Csinc" /\ setter.i.op = "AddsImm"
                 /\ Named(i) \notin Misread
                 /\ (setter.i.sf => Named(i) \notin ReadsV)
               => GetR(r', i.sf, i.rd)
                    = Chosen(i, Summed(setter, Named(i))) ]_idiomVars
    BY SelectStep DEF IdiomsNext, SetsFlags
  <1> QED BY <1>1, Left, PTL DEF IdiomsSpec, AddThenSelect

(* For every program and every word length: SUB gives back what an ADD of  *)
(* the same immediate took, wrapped or not.                                *)
THEOREM SubUndoesAdd == IdiomsSpec => AddThenSub
  <1>1. IdiomsInv /\ [IdiomsNext]_idiomVars =>
          [ LET i == text[pc]
                a == prev.i
            IN Completes /\ i.op = "SubImm" /\ a.op = "AddImm" /\ i.rn = a.rd
                 /\ i.sf = a.sf /\ i.sh = a.sh /\ i.imm = a.imm
               => GetR(r', i.sf, i.rd) = Operand(prev) ]_idiomVars
    BY UndoStep DEF IdiomsNext
  <1> QED BY <1>1, Left, PTL DEF IdiomsSpec, AddThenSub

(* For every program: what a pre-indexed store pushed, a load without      *)
(* offset behind it finds at the base, one register or two.                *)
THEOREM PopFindsPush == IdiomsSpec => PushedAtBase
  <1>1. IdiomsInv /\ [IdiomsNext]_idiomVars =>
          [ LET l == text[pc]
                s == prev.i
            IN Completes /\ l.op \in {"LdrImm", "Ldp"}
                 /\ (l.op = "Ldp" => l.rd # l.rm)
                 /\ s.op \in {"StrImm", "Stp"} /\ ~(s.op = "StrImm" /\ s.sf)
                 /\ s.mode = "pre" /\ l.imm = 0 /\ l.sf = s.sf /\ l.rn = s.rn
               => /\ GetR(r', l.sf, l.rd) = Given(prev, s.rd)
                  /\ s.op = "Stp" /\ l.op = "Ldp" =>
                       GetR(r', l.sf, l.rm) = Given(prev, s.rm) ]_idiomVars
    BY PopStep DEF IdiomsNext
  <1> QED BY <1>1, Left, PTL DEF IdiomsSpec, PushedAtBase

(* For every program: a pair of W registers in memory is one X register  *)
(* and the reverse, low half first, wherever the two addresses lead.       *)
THEOREM WidthsAgree == IdiomsSpec => HalvesAndWholes
  <1>1. IdiomsInv /\ [IdiomsNext]_idiomVars =>
          [ LET l == text[pc]
                s == prev.i
            IN Completes /\ s.op \in {"StrImm", "Stp"} /\ s.mode = "offset"
                 /\ l.mode = "offset" /\ l.rn = s.rn /\ Scaled(l) = Scaled(s)
               => /\ s.op = "Stp" /\ ~s.sf /\ l.op = "LdrImm" /\ l.sf =>
                       r'[l.rd] = Given(prev, s.rd) + HALF * Given(prev, s.rm)
                  /\ s.op = "StrImm" /\ s.sf /\ l.op = "Ldp" /\ ~l.sf
                       /\ l.rd # l.rm =>
                       GetR(r', l.sf, l.rd) + HALF * GetR(r', l.sf, l.rm)
                         = Given(prev, s.rd) ]_idiomVars
    BY WidthStep DEF IdiomsNext
  <1> QED BY <1>1, Left, PTL DEF IdiomsSpec, HalvesAndWholes
=============================================================================
