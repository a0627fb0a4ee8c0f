------------------------------- MODULE MCAlu -------------------------------
(***************************************************************************)
(* Arithmetic, flags and what reads them: short programs over operands at  *)
(* the boundaries of both widths, against what the operations mean.        *)
(***************************************************************************)
EXTENDS Asm, Idioms, FiniteSets

MCRegs == {0, 1, 2, 3, FP, LR, SP}

\* x0 is the operand, x3 a second one; results go to x1 and x2, with and
\* without a high half for a W form to keep.
Operands == {0, 1, 5, 10, 11, HALF \div 2 - 1, HALF \div 2, HALF \div 2 + 1,
             HALF - 1, HALF + 5, WORD \div 2 - 1, WORD \div 2, WORD \div 2 + 5,
             WORD - 10, WORD - 1}
MCUninitRegs ==
  {[k \in MCRegs |-> CASE k = 0 -> x [] k = 3 -> HALF - 1
                       [] OTHER -> h] : x \in Operands, h \in {3, WORD - 3}}
MCStacks == {Filled(0)}

Conds == 0 .. 13
Twice(i) == {i, [i EXCEPT !.sh = TRUE]}
Immediates == {0, 1, 5, IMM12 - 1}

Compares ==
  UNION {Twice(Imm(op, sf, 2, 0, k)) :
           op \in {"SubsImm", "AddsImm"}, sf \in {W, X}, k \in Immediates}
CompareOf(sf) == {i \in Compares : i.sf = sf}
ComparePrograms ==
  UNION {{Program(<<c, s, Halt>>, 0) :
            c \in CompareOf(sf),
            s \in {Cset(sf, 1, k) : k \in Conds}
                  \cup {Select(sf, 1, 0, 3, k) : k \in Conds \cup {14, 15}}} :
         sf \in {W, X}}

\* Nothing in between touches the flags: not even a sum that carries.
ApartPrograms ==
  UNION {{Program(<<c, Imm("AddImm", sf, 1, 0, 5), Orr(sf, 2, 1, 0, "LSL", 1),
                    s, Halt>>, 0) :
            c \in {Imm("SubsImm", sf, 2, 0, 5), Imm("AddsImm", sf, 2, 0, 5)},
            s \in {Cset(sf, 1, k) : k \in Conds}} :
         sf \in {W, X}}

ShiftPrograms ==
  {Program(<<Orr(sf, 1, n, 0, rule, amt), Halt>>, 0) :
     sf \in {W, X}, n \in {3, 31}, rule \in {"LSL", "LSR", "ASR", "ROR"},
     amt \in 0 .. Bits(X) - 1}

AddSubPrograms ==
  UNION {{Program(<<a, [a EXCEPT !.op = "SubImm", !.rd = 1, !.rn = 2], Halt>>, 0) :
            a \in Twice(Imm("AddImm", sf, 2, 0, k))} :
         sf \in {W, X}, k \in Immediates}

ConstantPrograms ==
  {Program(<<MovImm(sf, 1, k, hw), Halt>>, 0) :
     sf \in {W, X}, k \in {0, 1, BYTE * BYTE - 1}, hw \in 0 .. 3}
  \cup {Program(<<Halt, Halt, Halt, Halt, Halt, Halt, Imm("Adrp", X, 1, 31, k), Halt>>, 6) :
          k \in {0, 1}}

\* Branches one way and the other, through x0, and out of the text; and the
\* operands Arm!Departs excludes.
SinglePrograms ==
  {Program(<<Halt, Halt, i, Halt, Return>>, 2) :
     i \in {Branch(k) : k \in {-3, -2, 0, 2}} \cup {Call(k) : k \in {-1, 2}}
           \cup {[Return EXCEPT !.rn = k] : k \in {LR, 0, 31}}
           \cup {TestBit(sf, t, n, k) : sf \in {W, X}, t \in {0, 31},
                    n \in {0, Bits(W) - 1}, k \in {0, 2, IMM14 - 1}}
           \cup {TestBit(X, 0, Bits(X) - 1, 1)}
           \cup {[TestBit(X, 0, 0, 2) EXCEPT !.op = op] : op \in {"Tbz", "Bcond"}}
           \cup {Imm(op, X, 31, 0, 1) : op \in {"AddsImm", "SubsImm"}}
           \cup {Orr(X, 1, 0, 31, "LSL", 0), Orr(X, 31, 0, 3, "LSL", 0),
                 MovImm(X, 31, 1, 0), Select(X, 31, 0, 3, 0),
                 Imm("Adrp", X, 31, 31, 1), Imm("Adrp", X, 1, 31, 2)}}

MCPrograms ==
  ComparePrograms \cup ApartPrograms \cup ShiftPrograms \cup AddSubPrograms
  \cup ConstantPrograms \cup SinglePrograms

=============================================================================
