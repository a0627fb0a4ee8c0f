------------------------------ MODULE Machine ------------------------------
(***************************************************************************)
(* The emulated machine without its state: widths, registers, bytes and    *)
(* the decoded instruction.                                                *)
(*                                                                         *)
(* The machine is scaled: a byte has BYTE values (256 in the code), a      *)
(* uint32_t is four bytes, a uint64_t eight, and every result is reduced   *)
(* to its width as the C++ types do.                                       *)
(***************************************************************************)
EXTENDS Integers, Encodings

CONSTANTS
  BYTE_BITS,   \* bits of a byte: 8 in the code
  BYTE,        \* values of a byte: 256 in the code
  STACK_SIZE,  \* bytes of the emulated stack: 512 * 1024 in the code
  Regs,        \* the register indices in use, of 0 .. 31
  OrByte,      \* bitwise OR of two bytes, as a table
  LoggerPtr    \* the pointer kept in the eight bytes behind the stack

HALF == BYTE * BYTE * BYTE * BYTE    \* number of uint32_t values
WORD == HALF * HALF                  \* number of uint64_t values

FP == 29
LR == 30
SP == 31

Bytes == 0 .. BYTE - 1
Halves == 0 .. HALF - 1
Words == 0 .. WORD - 1

\* _stack and the eight bytes behind it in the object: the pointer of the
\* logger, held by the virtual base, which is laid out after the members.
ObjectBytes == 0 .. STACK_SIZE + 7

Flags == [n : BOOLEAN, z : BOOLEAN, c : BOOLEAN, v : BOOLEAN]

ASSUME ByteAssumption ==
  /\ BYTE_BITS \in Nat \ {0}
  /\ BYTE \in Nat /\ BYTE >= 2
  /\ BYTE = 2 ^ BYTE_BITS
  /\ \A n \in 0 .. 8 * BYTE_BITS : 2 ^ n \in Nat \ {0}

\* No fact about the machine: powers, for the provers, which know none.
ASSUME PowerAssumption ==
  /\ 2 ^ 0 = 1 /\ 2 ^ 1 = 2
  /\ \A m, n \in 0 .. 8 * BYTE_BITS :
       m + n <= 8 * BYTE_BITS => 2 ^ (m + n) = 2 ^ m * 2 ^ n

\* An offset that passes the bound check is a positive int32_t.
ASSUME StackAssumption ==
  /\ STACK_SIZE \in Nat \ {0}
  /\ 2 * (STACK_SIZE + 8) <= HALF
  /\ LoggerPtr \in Words

ASSUME RegsAssumption == Regs \subseteq 0 .. 31 /\ {FP, LR, SP} \subseteq Regs

CONSTANTS
  IMM7,    \* values of a 7-bit immediate field
  IMM9,    \* values of a 9-bit immediate field
  IMM12,   \* values of a 12-bit immediate field, and the factor of its shift
  IMM14,   \* values of a 14-bit immediate field
  IMM26,   \* values of a 26-bit immediate field
  PAGE     \* instructions of a page: 1024 in the code

ASSUME FieldAssumption ==
  /\ {IMM7, IMM9, IMM12, IMM14, IMM26, PAGE} \subseteq Nat \ {0}
  /\ 2 * IMM12 * IMM12 <= HALF

-----------------------------------------------------------------------------
(* Widths: sf is TRUE for the X form of an instruction, FALSE for the W.   *)

Span(sf) == IF sf THEN WORD ELSE HALF
Size(sf) == IF sf THEN 8 ELSE 4
Bits(sf) == Size(sf) * BYTE_BITS

Neg(x, span) == 2 * x >= span
Signed(x, span) == IF Neg(x, span) THEN x - span ELSE x

\* Little-endian bytes.
Place == << 1, BYTE, BYTE * BYTE, BYTE * BYTE * BYTE, HALF, HALF * BYTE,
            HALF * BYTE * BYTE, HALF * BYTE * BYTE * BYTE >>
ByteOf(x, k) == (x \div Place[k + 1]) % BYTE

BitSet(x, n) == (x \div 2 ^ n) % 2 = 1

ASSUME OrAssumption ==
  /\ OrByte \in [Bytes \X Bytes -> Bytes]
  /\ \A a, b \in Bytes : \A k \in 0 .. BYTE_BITS - 1 :
       BitSet(OrByte[<<a, b>>], k) <=> BitSet(a, k) \/ BitSet(b, k)

-----------------------------------------------------------------------------
(* The fields of an instruction word.  rd is also rt, rm also rt2; imm is  *)
(* the immediate as it stands in the word, never sign-extended or scaled;  *)
(* amt is imm6, hw, or the bit number b5:b40.                              *)
Instr ==
  [ op : Mnemonics, sf : BOOLEAN, narrow : BOOLEAN, sh : BOOLEAN,
    rd : Regs, rn : Regs, rm : Regs, imm : Nat,
    amt : 0 .. 8 * BYTE_BITS - 1, mode : {"offset", "pre", "post"},
    cond : 0 .. 15, rule : {"LSL", "LSR", "ASR", "ROR"} ]

(* What no word says: an immediate wider than its twelve bits, a narrow    *)
(* access or a write-back of an encoding that has neither.                 *)
Encodable(i) ==
  /\ i.op \in {"AddImm", "AddsImm", "SubImm", "SubsImm"} => i.imm < IMM12
  /\ i.narrow => i.op \in {"StrImm", "LdrImm", "Stur", "Ldur"}
  /\ i.mode # "offset" => i.op \in {"StrImm", "LdrImm", "Stp", "Ldp"}
=============================================================================
