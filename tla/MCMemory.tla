------------------------------ MODULE MCMemory ------------------------------
(***************************************************************************)
(* Every store followed by every load, from base addresses at and around   *)
(* both ends of the stack, and stores over its end before every branch.    *)
(***************************************************************************)
EXTENDS Asm, Idioms

MCRegs == {0, 1, 2, 4, 5, FP, LR, SP}

\* x0 and x1 are stored, x4 and x5 loaded; FP is the base, x2 a copy of it.
\* Once x4 has a high half for a W load to keep.
A == 27030
Z == 51963
Bases == {0, 1, 5, STACK_SIZE - 16, STACK_SIZE - 9, STACK_SIZE - 4,
          STACK_SIZE - 1, STACK_SIZE, STACK_SIZE + 1, WORD - 8, WORD - 1}
MCUninitRegs ==
  {[k \in MCRegs |-> CASE k = 0 -> A [] k = 1 -> Z [] k \in {2, FP} -> b
                       [] OTHER -> 7] : b \in Bases}
  \cup {[k \in MCRegs |-> CASE k \in {4, LR} -> WORD - 7 [] OTHER -> 8]}
Original(a) == (a * a + a \div 3) % BYTE
MCStacks == {[a \in 0 .. STACK_SIZE - 1 |-> Original(a)]}

Narrow(i) == [i EXCEPT !.narrow = TRUE]

Stores ==
  {Mem("StrImm", sf, m, 0, FP, k) :
     sf \in {W, X}, m \in {"offset", "pre", "post"}, k \in {0, 1}}
  \cup {Mem("Stur", sf, "offset", t, FP, k) :
     sf \in {W, X}, t \in {0, 31}, k \in {0, 4, IMM9 - 4}}
  \cup {Pair2("Stp", sf, m, 0, 1, FP, k) :
     sf \in {W, X}, m \in {"offset", "pre", "post"}, k \in {0, 1}}
  \cup {Pair2("Stp", W, "offset", 0, 1, FP, 2),
        Narrow(Mem("StrImm", W, "offset", 0, FP, 0)),
        Narrow(Mem("Stur", W, "offset", 0, FP, 0))}

Loads ==
  {Mem("LdrImm", sf, m, 4, FP, k) :
     sf \in {W, X}, m \in {"offset", "pre", "post"}, k \in {0, 1}}
  \cup {Pair2("Ldp", sf, m, t, 5, FP, k) :
     sf \in {W, X}, m \in {"offset", "pre", "post"}, k \in {0, 1}, t \in {4, FP}}
  \cup {Pair2("Ldp", W, "offset", 4, 5, FP, 2),
        Narrow(Mem("LdrImm", W, "offset", 4, FP, 0))}

\* Offsets and registers Arm!Departs excludes.
Singles ==
  {Pair2(op, X, "offset", 4, 5, FP, IMM7 - 1) : op \in {"Stp", "Ldp"}}
  \cup {Mem(op, W, "pre", 4, FP, IMM9 - 4) : op \in {"StrImm", "LdrImm"}}
  \cup {Mem("LdrImm", W, "offset", 31, FP, 0), Mem("Ldur", W, "offset", 4, FP, 0),
        Pair2("Ldp", X, "offset", 4, 4, FP, 0)}

\* Once with an overrun, from the bases at the end, once without.
Branching ==
  {Program(<<Mem("StrImm", X, "offset", 0, FP, 0), b, Halt, Halt>>, 0) :
     b \in {Branch(2), Call(2), Return, TestBit(X, 0, 1, 2), TestBit(X, 0, 0, 2)}}

MCPrograms ==
  {Program(<<s, l, Halt>>, 0) : s \in Stores, l \in Loads}
  \cup {Program(<<i, Halt>>, 0) : i \in Singles} \cup Branching

=============================================================================
