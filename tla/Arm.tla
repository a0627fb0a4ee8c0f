-------------------------------- MODULE Arm --------------------------------
(***************************************************************************)
(* What an emulator of this machine promises to an ARM64 program: one      *)
(* atomic step per instruction, with the meaning its mnemonic has in the   *)
(* ISA (src/README.md:5-6: "Basic ARM64 operations emulation").            *)
(*                                                                         *)
(* It is written without the operators of the handlers: flags from the     *)
(* exact results, shifts bit by bit, memory byte by byte, whole registers. *)
(* Departs lists the instructions the handlers do not run that way: what   *)
(* one of them does is left open, what follows it is not.                  *)
(***************************************************************************)
EXTENDS Machine

VARIABLES
  program,  \* the instructions
  at,       \* the next one
  regs, flags, memory,
  status    \* "running"; "done", by RET; "failed", with an error; "died",
            \* without; "undefined", while the emulator itself is damaged

data == <<regs, flags, memory>>
vars == <<program, at, data, status>>

Init ==
  /\ program \in [DOMAIN program -> Instr]
  /\ at \in Words
  /\ regs \in [Regs -> Words] /\ regs[SP] = STACK_SIZE - 1
  /\ flags = [n |-> FALSE, z |-> FALSE, c |-> FALSE, v |-> FALSE]
  /\ memory \in [ObjectBytes -> Bytes]
  /\ status = "running"

-----------------------------------------------------------------------------
Reg(i, k) == regs[k] % Span(i.sf)                  \* with 31 the stack pointer
ZReg(i, k) == IF k = 31 THEN 0 ELSE Reg(i, k)      \* with 31 the zero register
Bit(x, n) == (x \div 2 ^ n) % 2 = 1

GoesTo(target) == at' = target % WORD /\ status' = status
GoesOn == GoesTo(at + 1)
Fails == status' = "failed" /\ UNCHANGED <<at, data>>

KeepsBut(ks) == \A k \in Regs \ ks : regs'[k] = regs[k]

\* Only ADD and SUB have sp for a destination, the others the zero register.
\* The result of a W form is extended with zeros.
Sets(i, v) ==
  regs' = IF i.rd = 31 /\ i.op \notin {"AddImm", "SubImm"}
            THEN regs ELSE [regs EXCEPT ![i.rd] = v % Span(i.sf)]

Arith(i) ==
  LET span == Span(i.sf)
      minus == i.op \in {"SubImm", "SubsImm"}
      x == Reg(i, i.rn)
      y == IF i.sh THEN i.imm * IMM12 ELSE i.imm
      Exact(a) == IF minus THEN a - y ELSE a + y
      res == Exact(x) % span
  IN /\ Sets(i, res)
     /\ flags' = IF i.op \in {"AddImm", "SubImm"} THEN flags
                 ELSE [ n |-> Neg(res, span), z |-> res = 0,
                        c |-> IF minus THEN x >= y ELSE x + y >= span,
                        v |-> Exact(Signed(x, span)) # Signed(res, span) ]
     /\ GoesOn /\ UNCHANGED memory

\* The upper bits of a condition name a test, the lowest one its negation.
Test(cond) ==
  << flags.z, flags.c, flags.n, flags.v, flags.c /\ ~flags.z,
     flags.n = flags.v, flags.n = flags.v /\ ~flags.z, TRUE >>[cond \div 2 + 1]
Condition(cond) == cond \in {14, 15} \/ Test(cond) = (cond % 2 = 0)

Select(i) ==
  /\ Sets(i, IF Condition(i.cond) THEN ZReg(i, i.rn) ELSE ZReg(i, i.rm) + 1)
  /\ GoesOn /\ UNCHANGED <<flags, memory>>

\* hw, of two bits, counts half words.
Move(i) ==
  /\ Sets(i, i.imm * Place[2 * (i.amt % 4) + 1])
  /\ GoesOn /\ UNCHANGED <<flags, memory>>

Page(i) ==
  /\ Sets([i EXCEPT !.sf = TRUE], at - (at % PAGE) + i.imm * PAGE)
  /\ GoesOn /\ UNCHANGED <<flags, memory>>

\* Bit k of operand x, shifted.
ShiftedBit(i, x, k) ==
  LET n == Bits(i.sf)
  IN CASE i.rule = "LSL" -> k >= i.amt /\ Bit(x, k - i.amt)
       [] i.rule = "LSR" -> k + i.amt < n /\ Bit(x, k + i.amt)
       [] i.rule = "ASR" -> Bit(x, IF k + i.amt < n THEN k + i.amt ELSE n - 1)
       [] i.rule = "ROR" -> Bit(x, (k + i.amt) % n)

\* There is no shift by more than the width.
Or(i) ==
  \/ i.amt >= Bits(i.sf) /\ Fails
  \/ /\ i.amt < Bits(i.sf)
     /\ i.rd # 31 =>
          /\ regs'[i.rd] < Span(i.sf)
          /\ \A k \in 0 .. Bits(i.sf) - 1 :
               Bit(regs'[i.rd], k) =
                 (Bit(ZReg(i, i.rn), k) \/ ShiftedBit(i, ZReg(i, i.rm), k))
     /\ KeepsBut({i.rd} \ {31})
     /\ GoesOn /\ UNCHANGED <<flags, memory>>

Branch(i) ==
  /\ CASE i.op = "B" -> UNCHANGED regs
       [] i.op = "Bl" -> regs' = [regs EXCEPT ![LR] = (at + 1) % WORD]
  /\ GoesTo(at + Signed(i.imm % IMM26, IMM26))
  /\ UNCHANGED <<flags, memory>>

\* The program returns to zero when it is done.
Return(i) ==
  LET target == IF i.rn = 31 THEN 0 ELSE regs[i.rn]
  IN \/ target = 0 /\ status' = "done" /\ UNCHANGED <<at, data>>
     \/ target # 0 /\ GoesTo(target) /\ UNCHANGED data

BranchOnBit(i) ==
  /\ IF Bit(ZReg(i, i.rd), i.amt)
       THEN GoesTo(at + Signed(i.imm % IMM14, IMM14)) ELSE GoesOn
  /\ UNCHANGED data

-----------------------------------------------------------------------------
(* Loads and stores.  An access that is not within the stack fails.        *)

IsPair(i) == i.op \in {"Stp", "Ldp"}
Written(i) == i.mode # "offset" /\ i.op # "Stur"     \* the base is

Amount(i) ==
  CASE IsPair(i) -> Signed(i.imm % IMM7, IMM7) * Size(i.sf)
    [] ~IsPair(i) /\ (i.op = "Stur" \/ Written(i)) -> Signed(i.imm % IMM9, IMM9)
    [] OTHER -> i.imm * Size(i.sf)

Base(i) == (regs[i.rn] + Amount(i)) % WORD
Address(i) == IF i.mode = "post" THEN regs[i.rn] ELSE Base(i)
Extent(i) == IF IsPair(i) THEN 2 * Size(i.sf) ELSE Size(i.sf)
Fits(i) == ~i.narrow /\ Address(i) + Extent(i) <= STACK_SIZE

\* What is written back, and to which registers beside the base.
WritesBack(i, ks) ==
  IF Written(i) THEN regs'[i.rn] = Base(i) /\ KeepsBut(ks \cup {i.rn})
                ELSE KeepsBut(ks)

Store(i) ==
  \/ ~Fits(i) /\ Fails
  \/ /\ Fits(i)
     /\ \A a \in ObjectBytes :
          LET k == a - Address(i)
          IN memory'[a] =
               CASE k \in 0 .. Size(i.sf) - 1 -> ByteOf(ZReg(i, i.rd), k)
                 [] k \in Size(i.sf) .. Extent(i) - 1 ->
                      ByteOf(ZReg(i, i.rm), k - Size(i.sf))
                 [] OTHER -> memory[a]
     /\ WritesBack(i, {})
     /\ GoesOn /\ UNCHANGED flags

Load(i) ==
  LET targets == {i.rd} \cup (IF IsPair(i) THEN {i.rm} ELSE {})
      Gets(k, from) ==
        k # 31 => \A b \in 0 .. 7 :
          ByteOf(regs'[k], b) =
            IF b < Size(i.sf) THEN memory[Address(i) + from + b] ELSE 0
  IN \/ ~Fits(i) /\ Fails
     \/ /\ Fits(i)
        /\ Gets(i.rd, 0)
        /\ IsPair(i) => Gets(i.rm, Size(i.sf))
        /\ WritesBack(i, targets \ {31})
        /\ GoesOn /\ UNCHANGED <<flags, memory>>

-----------------------------------------------------------------------------
(* Where the handlers do not run the instruction as the ISA means it.      *)

\* CSET's word holds the inverse of the condition the handler tests.
Tested(i) ==
  IF i.rm = 31 /\ i.rn = 31 /\ i.cond < 14
    THEN IF i.cond % 2 = 0 THEN i.cond + 1 ELSE i.cond - 1
    ELSE i.cond

AccessDeparts(i) ==
  LET last == (Base(i) + Extent(i) - Size(i.sf)) % Span(i.sf)
      targets == IF i.op \in {"LdrImm", "Ldp"}
                   THEN {i.rd} \cup (IF i.op = "Ldp" THEN {i.rm} ELSE {}) ELSE {}
      sources == {i.rd} \cup (IF IsPair(i) THEN {i.rm} ELSE {})
  IN /\ ~i.narrow
     /\ \/ IsPair(i) /\ (2 * i.imm >= IMM7 \/ (i.mode = "post" /\ i.imm # 0))
        \/ ~IsPair(i) /\ Written(i) /\ (2 * i.imm >= IMM9 \/ i.mode = "post")
        \/ i.op = "StrImm" /\ i.sf /\ i.mode = "pre" /\ i.imm # 0
        \* a 32-bit address, and the high half of what is written
        \/ /\ ~i.sf /\ Base(i) % HALF <= STACK_SIZE
           /\ \/ Base(i) >= HALF
              \/ Written(i) /\ regs[i.rn] >= HALF
              \/ \E k \in targets : regs[k] >= HALF
        \* an access that runs over the end of the stack
        \/ last <= STACK_SIZE /\ last + Size(i.sf) > STACK_SIZE
        \* the zero register is not loaded into; the architecture excludes the rest
        \/ 31 \in targets
        \/ Written(i) /\ i.rn # 31 /\ i.rn \in sources
        \/ i.op = "Ldp" /\ i.rd = i.rm

\* A W form leaves the high half of its destination as it was.
StaleHalf(i) ==
  /\ i.op \in {"AddImm", "AddsImm", "SubImm", "SubsImm", "Csinc", "Movz", "OrrSh"}
  /\ ~i.sf /\ regs[i.rd] >= HALF

Departs(i) ==
  LET x == Reg(i, i.rn)
      y == Reg(i, i.rm)
  IN \/ StaleHalf(i)
     \/ CASE Handler(i.op) # i.op -> TRUE
          [] i.op = "AddsImm" -> i.rd = 31 \/ (i.sf /\ Neg(x, WORD))
          [] i.op = "SubsImm" -> i.rd = 31 \/ (i.sh /\ i.imm # 0)
          [] i.op = "Csinc" ->
               \/ i.rd = 31
               \/ Tested(i) = 9 /\ flags.c = flags.z
               \/ Tested(i) = 13 /\ flags.z = (flags.n = flags.v)
               \/ Tested(i) = 15
          [] i.op = "Movz" -> i.rd = 31 \/ (i.amt >= 2 /\ i.imm # 0)
          [] i.op = "OrrSh" ->
               \/ i.amt >= Bits(i.sf)      \* dies in an assert
               \/ 31 \in {i.rd, i.rm}
               \/ i.rule = "ASR" /\ i.amt = Bits(i.sf) - 1 /\ Neg(y, Span(i.sf))
          [] i.op = "Adrp" -> i.rd = 31 \/ i.imm \notin {0, 1}
          [] i.op = "Ret" -> regs[i.rn] # 0      \* which it clears
          [] i.op = "Tbnz" ->
               Bit(Reg(i, i.rd), i.amt) /\ (i.rd = 31 \/ 2 * i.imm >= IMM14)
          [] i.op \in {"StrImm", "LdrImm", "Stur", "Stp", "Ldp"} -> AccessDeparts(i)
          [] OTHER -> FALSE

-----------------------------------------------------------------------------
Execute(i) ==
  \/ i.op \in {"AddImm", "AddsImm", "SubImm", "SubsImm"} /\ Arith(i)
  \/ i.op = "Csinc" /\ Select(i)
  \/ i.op = "Movz" /\ Move(i)
  \/ i.op = "Adrp" /\ Page(i)
  \/ i.op = "OrrSh" /\ Or(i)
  \/ i.op \in {"B", "Bl"} /\ Branch(i)
  \/ i.op = "Ret" /\ Return(i)
  \/ i.op = "Tbnz" /\ BranchOnBit(i)
  \/ i.op \in {"StrImm", "Stur", "Stp"} /\ Store(i)
  \/ i.op \in {"LdrImm", "Ldp"} /\ Load(i)
  \/ i.op = "Other" /\ Fails

Step ==
  /\ status = "running"
  /\ at \in DOMAIN program
  /\ Departs(program[at]) \/ Execute(program[at])

\* There is no instruction to execute.
Outside == status = "running" /\ at \notin DOMAIN program /\ Fails

Unpromised == status = "undefined"

Next == (Step \/ Outside \/ Unpromised) /\ UNCHANGED program

Spec == Init /\ [][Next]_vars
=============================================================================
