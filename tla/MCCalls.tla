------------------------------ MODULE MCCalls ------------------------------
(***************************************************************************)
(* Programs with calls: the test program branching.cpp as a compiler       *)
(* without optimisation emits it, a loop, leaf and nested calls.           *)
(***************************************************************************)
EXTENDS Calls, Asm

\* int foo(int i) { if (i != n) return foo(i + 1); return i; }
\* int main() { return foo(1); }       (foo is at 0, main at 20)
Branching(n) ==
  Program(
  << Imm("SubImm", X, SP, SP, 32),
     Pair2("Stp", X, "offset", FP, LR, SP, 2),
     Imm("AddImm", X, FP, SP, 16),
     Mem("StrImm", W, "offset", 0, SP, 2),
     Mem("LdrImm", W, "offset", 8, SP, 2),
     Imm("SubsImm", W, 8, 8, n),
     Cset(W, 8, 0),
     TestBit(W, 8, 0, 7),
     Branch(1),
     Mem("LdrImm", W, "offset", 8, SP, 2),
     Imm("AddImm", W, 0, 8, 1),
     Call(-11),
     Mem("Stur", W, "offset", 0, FP, IMM9 - 4),
     Branch(3),
     Mem("LdrImm", W, "offset", 8, SP, 2),
     Mem("Stur", W, "offset", 8, FP, IMM9 - 4),
     Mem("Ldur", W, "offset", 0, FP, IMM9 - 4),
     Pair2("Ldp", X, "offset", FP, LR, SP, 2),
     Imm("AddImm", X, SP, SP, 32),
     Return,
     Imm("SubImm", X, SP, SP, 32),
     Pair2("Stp", X, "offset", FP, LR, SP, 2),
     Imm("AddImm", X, FP, SP, 16),
     Mem("Stur", W, "offset", 31, FP, IMM9 - 4),
     MovImm(W, 0, 1, 0),
     Call(-25),
     Pair2("Ldp", X, "offset", FP, LR, SP, 2),
     Imm("AddImm", X, SP, SP, 32),
     Return >>, 20)

\* for (w0 = n; w0 != 0; --w0);   the back edge is a B, as TBNZ only goes on
Loop(n) ==
  Program(
  << MovImm(X, 0, n, 0),
     Imm("SubsImm", W, 0, 0, 1),
     Cset(W, 8, 0),
     TestBit(W, 8, 0, 2),
     Branch(-3),
     Return >>, 0)

\* main calls two functions, the first of them a leaf without a frame.
TwoCalls(frame) ==
  Program(
  << Imm("SubImm", X, SP, SP, frame),
     Pair2("Stp", X, "offset", FP, LR, SP, 0),
     Imm("AddImm", X, FP, SP, 0),
     Call(5),
     Call(6),
     Pair2("Ldp", X, "offset", FP, LR, SP, 0),
     Imm("AddImm", X, SP, SP, frame),
     Return,
     \* leaf
     Imm("AddImm", X, 0, 0, 1),
     Return,
     \* a function that calls the leaf
     Imm("SubImm", X, SP, SP, frame),
     Pair2("Stp", X, "offset", FP, LR, SP, 0),
     Imm("AddImm", X, FP, SP, 0),
     Call(-5),
     Mem("StrImm", X, "offset", 0, SP, 2),
     Pair2("Ldp", X, "offset", FP, LR, SP, 0),
     Imm("AddImm", X, SP, SP, frame),
     Return >>, 0)

\* A program whose last call comes back to where the text has ended.
FallsOff ==
  Program(<< Branch(3), Imm("AddImm", X, 0, 31, 1), Return, Call(-2) >>, 0)

Never == IMM12 - 1   \* foo's argument does not reach it: the stack is short

MCPrograms ==
  {Branching(n) : n \in {1, 2, 3, Never}} \cup {Loop(n) : n \in {1, 3}}
  \cup {TwoCalls(f) : f \in {24, 32}} \cup {FallsOff}

MCRegs == {0, 8, FP, LR, SP}
LinkZero == {[k \in MCRegs |-> IF k = LR THEN 0 ELSE x] : x \in {0, WORD - 7}}
MCStacks == {Filled(0), Filled(BYTE - 2)}

-----------------------------------------------------------------------------
(* Properties of these programs.                                           *)

(* exec_tests.cpp:23: what branching.cpp returns is its bound, whatever    *)
(* the stack and the registers held before, when the recursion fits.       *)
ReturnsBound ==
  \A n \in {1, 2, 3} :
    text = Branching(n).text /\ ctl \in Final =>
      ctl = "stopped" /\ r[0] % HALF = n

(* A recursion without end is stopped by the bound check of state.cpp      *)
(* before it writes anything below the stack, and by nothing else.         *)
OverflowThrows ==
  text = Branching(Never).text /\ ctl \in Final => ctl = "threw"
=============================================================================
