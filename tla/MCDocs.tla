------------------------------- MODULE MCDocs -------------------------------
(***************************************************************************)
(* What the comments, headers and tests of the repository say of single    *)
(* instructions, where the code does something else.  Each property comes  *)
(* with the program that shows it; a run of each ends in a counterexample. *)
(***************************************************************************)
EXTENDS Asm

MCRegs == {0, 1, 2, FP, LR, SP}
Base == 8
MCUninitRegs ==
  {[k \in MCRegs |-> CASE k = 0 -> x [] k = FP -> Base
                       [] OTHER -> 7] : x \in {1, WORD - 1}}
Negative == {f \in MCUninitRegs : f[0] = WORD - 1}
MCStacks == {Filled(1)}

\* The program ran to the Halt behind its instructions.
Done == ctl = "stopped" /\ text[pc] = Halt

-----------------------------------------------------------------------------
ConditionPrograms ==
  {Program(<<Imm("AddsImm", X, 2, 0, 1), Cset(X, 1, 6),
             Imm("SubsImm", X, 2, 2, 0), Cset(X, 2, 9), Cset(X, 0, 13), Halt>>, 0)}

(* adds.cpp:49: -1 + 1 gives +0 and is no overflow, in the 64-bit form     *)
(* (x1).  csinc.cpp:14, 18: LS is "C == 0 || Z == 1" and LE is             *)
(* "Z == 1 || N != V", both true of equal operands (x2, x0).               *)
ConditionsMean == Done => r[1] = 0 /\ r[2] = 1 /\ r[0] = 1

IndexedPrograms ==
  {Program(<<Mem(op, sf, m, 0, FP, 4), Halt>>, 0) :
     op \in {"StrImm", "LdrImm"}, sf \in {W, X}, m \in {"pre", "post"}}

(* str.h:4-30, ldr.h:4-30: the post-index and the pre-index forms, [<Xn>], *)
(* #<simm> and [<Xn>, #<simm>]!, are instructions like the others: the     *)
(* session goes on behind them and the base has moved by simm.             *)
IndexedWritesBack == ctl \in Final => Done /\ r[FP] = Base + 4

ImmediatePrograms ==
  {Program(<<Imm("Adrp", X, 1, 31, 2), Pair2("Stp", X, m, 0, 2, FP, IMM7 - 1),
             ImmSh("SubsImm", X, 2, 0, 1), MovImm(X, LR, 1, hw), Halt>>, 0) :
     m \in {"offset", "pre"}, hw \in {2, 3}}

(* Immediates are what the headers say: adrp.h:9-11, pages; stp.h:28, a    *)
(* signed offset, so that STP can push (-8 here, from base 8); subs.h:11,  *)
(* shifted before it is subtracted; movz.h:11, shifted left by 16 bits for *)
(* each of hw.                                                             *)
ImmediatesAsEncoded ==
  Done => /\ r[1] = 2 * PAGE
          /\ Load(mem, X, Base - 8) = r[0]
          /\ r[2] = (r[0] - IMM12) % WORD
          /\ r[LR] = Place[2 * text[3].amt + 1]

RegisterPrograms ==
  {Program(<<i, Call(3), Imm("AddImm", X, 2, LR, 0), Halt, Return>>, 0) :
     i \in {MovImm(W, 0, 0, 0), Orr(W, 0, 1, 1, "LSL", 0)}}

(* What one instruction leaves in a register is there for the others, as   *)
(* in the ISA (README.md:5-6).  ops_tests.cpp:109-114: what a W form       *)
(* writes is the whole register: read as X, x0 is zero behind MOVZ W0, #0. *)
(* ret.h:10-11: RET branches to the address in its register, and keeps it: *)
(* x2 is the link that a call returned by.                                 *)
RegistersKept == Done => r[0] < HALF /\ r[2] = 2

EdgePrograms ==
  {Program(<<Imm("AddImm", X, FP, SP, k), Mem("Stur", X, "offset", 0, FP, 0), Halt>>, 0) :
     k \in {0, 1, 2}}

(* state.cpp:80-84: a 64-bit access outside the stack is a stack overflow  *)
(* and throws: no store changes the bytes behind the stack.                *)
StackBound ==
  [][\A a \in STACK_SIZE .. STACK_SIZE + 7 : mem'[a] = mem[a]]_vars
=============================================================================
