-------------------------------- MODULE Ops --------------------------------
(***************************************************************************)
(* ops/: the instruction handlers, one action per class <Op>::process.     *)
(*                                                                         *)
(* A handler decodes the fields of one instruction, reads and writes the   *)
(* State and returns TRUE (the session advances the pc) or FALSE (it       *)
(* stops); it can also throw (stack bounds) or abort (an assert).          *)
(***************************************************************************)
EXTENDS State

VARIABLE ctl   \* where the session loop stands after the handler

Ctls == {"fetch", "advance", "stopped", "threw", "aborted", "crashed", "wild"}

-----------------------------------------------------------------------------
(* The four ways a handler ends.                                           *)

Advance == ctl' = "advance"                                \* return true
Stop == ctl' = "stopped" /\ UNCHANGED coreVars             \* return false
\* Seeded fault: the bound check ends the program as a RET does.
ThrowSwallowed == Stop
Throw == ctl' = "threw" /\ UNCHANGED coreVars              \* runtime_error
Abort == ctl' = "aborted" /\ UNCHANGED coreVars            \* assert

\* A result written to the destination register and nothing else.
Result(i, v) ==
  /\ r' = SetR(r, i.sf, i.rd, v)
  /\ Advance
  /\ UNCHANGED <<pc, nzcv, mem>>

Rn(i) == GetR(r, i.sf, i.rn)
OrZero(i, k) == IF k = 31 THEN 0 ELSE GetR(r, i.sf, k)   \* wzr / xzr

-----------------------------------------------------------------------------
(* Arithmetic on an immediate.                                             *)

Shifted(i) == IF i.sh THEN i.imm * IMM12 ELSE i.imm

AddImm(i) == Result(i, Rn(i) + Shifted(i))
\* Seeded fault: sh is ignored.
SubImmUnshifted(i) == Result(i, Rn(i) - i.imm)
SubImm(i) == Result(i, Rn(i) - Shifted(i))

\* Seeded fault: no carry when the sum is just one too large.
AddsFlagsLateCarry(sf, x, imm) ==
  LET span == Span(sf)
      res == (x + imm) % span
  IN [ n |-> Neg(res, span), z |-> res = 0, c |-> span - imm < x,
       v |-> ~Neg(x, span) /\ Neg(res, span) ]

\* The X form of V is what its misplaced parenthesis computes: any negative
\* operand sets it.
AddsFlags(sf, x, imm) ==
  LET span == Span(sf)
      res == (x + imm) % span
  IN [ n |-> Neg(res, span),
       z |-> res = 0,
       c |-> span - 1 - imm < x,
       v |-> IF sf THEN Neg(x, span) \/ Neg(res, span)
             ELSE Neg(x, span) = Neg(imm, span) /\ Neg(res, span) # Neg(x, span) ]

AddsImm(i) ==
  /\ nzcv' = AddsFlags(i.sf, Rn(i), Shifted(i))
  /\ r' = SetR(r, i.sf, i.rd, Rn(i) + Shifted(i))
  /\ Advance
  /\ UNCHANGED <<pc, mem>>

\* Seeded fault: a borrow when the operands are equal.
SubsFlagsStrict(sf, x, imm) ==
  LET span == Span(sf)
      res == (x - imm) % span
  IN [ n |-> Neg(res, span), z |-> res = 0, c |-> imm < x,
       v |-> Neg(x, span) /\ ~Neg(res, span) ]

SubsFlags(sf, x, imm) ==
  LET span == Span(sf)
      res == (x - imm) % span
  IN [ n |-> Neg(res, span),
       z |-> res = 0,
       c |-> imm <= x,
       v |-> Neg(x, span) # Neg(imm, span) /\ Neg(res, span) # Neg(x, span) ]

\* The flags come from the shifted immediate, the result from the unshifted.
SubsImm(i) ==
  /\ nzcv' = SubsFlags(i.sf, Rn(i), Shifted(i))
  /\ r' = SetR(r, i.sf, i.rd, Rn(i) - i.imm)
  /\ Advance
  /\ UNCHANGED <<pc, mem>>

-----------------------------------------------------------------------------
(* Conditional select: CondCode, is_cond_true, CSINC and its alias CSET.   *)

CondTrue(f, cond) ==
  CASE cond = 0 -> f.z
    [] cond = 1 -> ~f.z
    [] cond = 2 -> f.c
    [] cond = 3 -> ~f.c
    [] cond = 4 -> f.n
    [] cond = 5 -> ~f.n
    [] cond = 6 -> f.v
    [] cond = 7 -> ~f.v
    [] cond = 8 -> f.c /\ ~f.z
    [] cond = 9 -> ~f.c /\ f.z
    [] cond = 10 -> f.n = f.v
    [] cond = 11 -> f.n # f.v
    [] cond = 12 -> ~f.z /\ f.n = f.v
    [] cond = 13 -> f.z /\ f.n # f.v
    [] cond = 14 -> TRUE
    [] OTHER -> FALSE

Inverted(cond) == IF cond % 2 = 0 THEN cond + 1 ELSE cond - 1
IsCset(i) == i.rm = 31 /\ i.rn = 31 /\ i.cond < 14

Csinc(i) ==
  \/ /\ IsCset(i)
     /\ Result(i, IF CondTrue(nzcv, Inverted(i.cond)) THEN 1 ELSE 0)
  \/ /\ ~IsCset(i)
     /\ Result(i, IF CondTrue(nzcv, i.cond) THEN OrZero(i, i.rn)
                                            ELSE OrZero(i, i.rm) + 1)

-----------------------------------------------------------------------------
(* Moves: MOVZ, ORR (shifted register), ADRP.                              *)

\* imm16 << hw * 16 is done in 32 bits: from hw = 2 on it is undefined, and
\* a build masks the count or folds to zero.
MovzValues(i) ==
  IF i.amt < 2 THEN {i.imm * Place[2 * i.amt + 1]}
               ELSE {0, i.imm * Place[2 * (i.amt % 2) + 1]}

Movz(i) == \E v \in MovzValues(i) : Result(i, v)

\* Seeded fault: every right shift is logical.
ShiftValuesLogical(rule, sf, x, amt) ==
  IF rule = "LSL" THEN {(x % 2 ^ (Bits(sf) - amt)) * 2 ^ amt}
                  ELSE {x \div 2 ^ amt}

\* shift_by_rule_32 / _64.  ASR of a negative value by all but one of its
\* bits shifts 1 by the whole width, which is undefined: no ones or all ones.
\* (One bit less overflows an int in the W form; every build wraps it.)
ShiftValues(rule, sf, x, amt) ==
  LET span == Span(sf)
      rest == 2 ^ (Bits(sf) - amt)
      top == Bits(sf) - 1
  IN CASE amt = 0 -> {x}
       [] amt > 0 /\ rule = "LSL" -> {(x % rest) * 2 ^ amt}
       [] amt > 0 /\ rule = "LSR" -> {x \div 2 ^ amt}
       [] amt > 0 /\ rule = "ROR" -> {(x % 2 ^ amt) * rest + x \div 2 ^ amt}
       [] amt > 0 /\ rule = "ASR" /\ ~Neg(x, span) -> {x \div 2 ^ amt}
       [] amt > 0 /\ rule = "ASR" /\ Neg(x, span) /\ amt < top ->
            {(x - 2 ^ top) \div 2 ^ amt + (span - 2 ^ (top - amt))}
       [] OTHER -> {0, span - 1}

\* Bitwise OR, byte by byte.
BitOr(x, y) ==
  FromBytes8([k \in 0 .. 7 |-> OrByte[<<ByteOf(x, k), ByteOf(y, k)>>]], 0)

OrrSh(i) ==
  \/ i.amt >= Bits(i.sf) /\ Abort
  \/ /\ i.amt < Bits(i.sf)
     /\ \E v \in ShiftValues(i.rule, i.sf, GetR(r, i.sf, i.rm), i.amt) :
          Result(i, IF i.rn = 31 THEN v ELSE BitOr(Rn(i), v))

\* imm holds immhi:immlo, which the code joins with a logical OR.
Adrp(i) ==
  /\ r' = SetR(r, TRUE, i.rd,
               pc - (pc % PAGE) + (IF i.imm = 0 THEN 0 ELSE 1) * PAGE)
  /\ Advance
  /\ UNCHANGED <<pc, nzcv, mem>>

-----------------------------------------------------------------------------
(* Branches: every target is stored minus one, for advance_pc to reach.    *)

Jump(target) == pc' = (target - 1) % WORD

\* Seeded fault: the target is not stored minus one.
BUnadjusted(i) ==
  /\ Jump(pc + Signed(i.imm % IMM26, IMM26) + 1)
  /\ Advance
  /\ UNCHANGED <<r, nzcv, mem>>

B(i) ==
  /\ Jump(pc + Signed(i.imm % IMM26, IMM26))
  /\ Advance
  /\ UNCHANGED <<r, nzcv, mem>>

\* Seeded fault: the link is the call itself.
BlLinksSelf(i) ==
  /\ r' = SetR(r, TRUE, LR, pc)
  /\ Jump(pc + Signed(i.imm % IMM26, IMM26))
  /\ Advance
  /\ UNCHANGED <<nzcv, mem>>

Bl(i) ==
  /\ r' = SetR(r, TRUE, LR, pc + 1)
  /\ Jump(pc + Signed(i.imm % IMM26, IMM26))
  /\ Advance
  /\ UNCHANGED <<nzcv, mem>>

\* Seeded fault: zero is a target like any other.
RetAlways(i) ==
  /\ Jump(r[i.rn])
  /\ r' = SetR(r, TRUE, i.rn, 0)
  /\ Advance
  /\ UNCHANGED <<nzcv, mem>>

\* A zero target ends the program; any other is consumed.
Ret(i) ==
  \/ r[i.rn] = 0 /\ Stop
  \/ /\ r[i.rn] # 0
     /\ Jump(r[i.rn])
     /\ r' = SetR(r, TRUE, i.rn, 0)
     /\ Advance
     /\ UNCHANGED <<nzcv, mem>>

\* imm14 is not sign-extended.
Tbnz(i) ==
  /\ IF BitSet(GetR(r, i.sf, i.rd), i.amt) THEN Jump(pc + i.imm)
                                           ELSE UNCHANGED pc
  /\ Advance
  /\ UNCHANGED <<r, nzcv, mem>>

-----------------------------------------------------------------------------
(* Loads and stores.                                                       *)

Scaled(i) == i.imm * Size(i.sf)

\* Seeded fault: imm9 is not sign-extended.
SturUnsigned(i) ==
  LET off == Offset(i.sf, Rn(i) + i.imm)
  IN \/ i.narrow /\ Stop
     \/ ~i.narrow /\ ~InRange(off) /\ Throw
     \/ /\ ~i.narrow /\ InRange(off)
        /\ mem' = Store(mem, i.sf, off, OrZero(i, i.rd))
        /\ Advance
        /\ UNCHANGED <<r, pc, nzcv>>

\* Signed imm9 from the base, no writeback.  Ldur::process is not reached.
Stur(i) ==
  LET off == Offset(i.sf, Rn(i) + Signed(i.imm % IMM9, IMM9))
  IN \/ i.narrow /\ Stop
     \/ ~i.narrow /\ ~InRange(off) /\ Throw
     \/ /\ ~i.narrow /\ InRange(off)
        /\ mem' = Store(mem, i.sf, off, OrZero(i, i.rd))
        /\ Advance
        /\ UNCHANGED <<r, pc, nzcv>>

\* imm9 is taken unsigned.  The post-index encoding is not recognised and
\* the pre-index one is run as "store, then add", which the W form writes
\* back and the X form, whose rn is a copy, does not.
StrImm(i) ==
  LET step == IF i.mode = "offset" THEN Scaled(i) ELSE i.imm
      off == Offset(i.sf, Rn(i) + step)
      known == ~i.narrow /\ InRange(off)
  IN \/ i.narrow /\ Stop
     \/ ~i.narrow /\ ~InRange(off) /\ Throw
     \/ known /\ i.mode = "post" /\ Stop
     \/ /\ known /\ i.mode # "post"
        /\ mem' = Store(mem, i.sf, off, OrZero(i, i.rd))
        /\ r' = IF i.mode = "pre" /\ ~i.sf
                THEN SetR(r, FALSE, i.rn, Rn(i) + step) ELSE r
        /\ Advance
        /\ UNCHANGED <<pc, nzcv>>

\* A register incremented in place, as rn += simm does through a reference.
Bump(f, i, step) == SetR(f, i.sf, i.rn, GetR(f, i.sf, i.rn) + step)

\* Seeded fault: the unsigned offset is not scaled.
LdrImmUnscaled(i) ==
  LET off == Offset(i.sf, Rn(i) + i.imm)
      known == ~i.narrow /\ InRange(off)
  IN \/ i.narrow /\ Stop
     \/ ~i.narrow /\ ~InRange(off) /\ Throw
     \/ known /\ i.mode = "post" /\ Stop
     \/ /\ known /\ i.mode # "post"
        /\ LET loaded == SetR(r, i.sf, i.rd, Load(mem, i.sf, off))
           IN r' = IF i.mode = "pre" THEN Bump(loaded, i, i.imm) ELSE loaded
        /\ Advance
        /\ UNCHANGED <<pc, nzcv, mem>>

LdrImm(i) ==
  LET step == IF i.mode = "offset" THEN Scaled(i) ELSE i.imm
      off == Offset(i.sf, Rn(i) + step)
      known == ~i.narrow /\ InRange(off)
  IN \/ i.narrow /\ Stop
     \/ ~i.narrow /\ ~InRange(off) /\ Throw
     \/ known /\ i.mode = "post" /\ Stop
     \/ /\ known /\ i.mode # "post"
        /\ LET loaded == SetR(r, i.sf, i.rd, Load(mem, i.sf, off))
           IN r' = IF i.mode = "pre" THEN Bump(loaded, i, step) ELSE loaded
        /\ Advance
        /\ UNCHANGED <<pc, nzcv, mem>>

\* Seeded fault: the second address is checked after the first write.
StpOneByOne(i) ==
  LET off1 == Offset(i.sf, Rn(i) + Scaled(i))
      off2 == Offset(i.sf, Rn(i) + Scaled(i) + Size(i.sf))
      once == Store(mem, i.sf, off1, OrZero(i, i.rd))
  IN \/ ~InRange(off1) /\ Throw
     \/ InRange(off1) /\ ~InRange(off2)
          /\ ctl' = "threw" /\ mem' = once /\ UNCHANGED <<r, pc, nzcv>>
     \/ /\ InRange(off1) /\ InRange(off2)
        /\ mem' = Store(once, i.sf, off2, OrZero(i, i.rm))
        /\ r' = IF i.mode = "offset" THEN r ELSE Bump(r, i, Scaled(i))
        /\ Advance
        /\ UNCHANGED <<pc, nzcv>>

\* Seeded fault: the base is not written back.
StpNoWriteback(i) ==
  LET off1 == Offset(i.sf, Rn(i) + Scaled(i))
      off2 == Offset(i.sf, Rn(i) + Scaled(i) + Size(i.sf))
  IN \/ ~(InRange(off1) /\ InRange(off2)) /\ Throw
     \/ /\ InRange(off1) /\ InRange(off2)
        /\ mem' = Store(Store(mem, i.sf, off1, OrZero(i, i.rd)),
                        i.sf, off2, OrZero(i, i.rm))
        /\ Advance
        /\ UNCHANGED <<r, pc, nzcv>>

\* Both addresses are checked before anything is written; imm7 is taken
\* unsigned and is part of the address in every mode.
Stp(i) ==
  LET off1 == Offset(i.sf, Rn(i) + Scaled(i))
      off2 == Offset(i.sf, Rn(i) + Scaled(i) + Size(i.sf))
  IN \/ ~(InRange(off1) /\ InRange(off2)) /\ Throw
     \/ /\ InRange(off1) /\ InRange(off2)
        /\ mem' = Store(Store(mem, i.sf, off1, OrZero(i, i.rd)),
                        i.sf, off2, OrZero(i, i.rm))
        /\ r' = IF i.mode = "offset" THEN r ELSE Bump(r, i, Scaled(i))
        /\ Advance
        /\ UNCHANGED <<pc, nzcv>>

\* The order of the register writes is the order of the statements: it
\* matters when two of rt, rt2 and rn are the same register.
Ldp(i) ==
  LET off1 == Offset(i.sf, Rn(i) + Scaled(i))
      off2 == Offset(i.sf, Rn(i) + Scaled(i) + Size(i.sf))
      Pair(f) == SetR(SetR(f, i.sf, i.rd, Load(mem, i.sf, off1)),
                      i.sf, i.rm, Load(mem, i.sf, off2))
  IN \/ ~(InRange(off1) /\ InRange(off2)) /\ Throw
     \/ /\ InRange(off1) /\ InRange(off2)
        /\ r' = CASE i.mode = "offset" -> Pair(r)
                  [] i.mode = "pre" -> Pair(Bump(r, i, Scaled(i)))
                  [] i.mode = "post" -> Bump(Pair(r), i, Scaled(i))
        /\ Advance
        /\ UNCHANGED <<pc, nzcv, mem>>

\* No leaf of the decision tree matches.
Unsupported == Stop
=============================================================================
