------------------------------- MODULE State -------------------------------
(***************************************************************************)
(* core/: the state of the one emulated ARM64 core (class core::State).    *)
(*                                                                         *)
(* The register file, the program counter, the flags and the emulated      *)
(* stack, with the accessors every instruction handler goes through.       *)
(***************************************************************************)
EXTENDS Machine

VARIABLES
  r,     \* _r: the general-purpose registers, 31 being sp / zr
  pc,    \* _pc: index of an instruction, not a byte address
  nzcv,  \* _nzcv
  mem    \* _stack, byte by byte, and the eight bytes behind it

coreVars == <<r, pc, nzcv, mem>>

-----------------------------------------------------------------------------
FromBytes4(b, a) ==
  b[a] + BYTE * (b[a + 1] + BYTE * (b[a + 2] + BYTE * b[a + 3]))
\* Seeded fault: the two words in the wrong order.
FromBytes8Swapped(b, a) == FromBytes4(b, a + 4) + HALF * FromBytes4(b, a)
FromBytes8(b, a) == FromBytes4(b, a) + HALF * FromBytes4(b, a + 4)

-----------------------------------------------------------------------------
(* get_r_ref_32 / get_r_ref_64: the W view is the low half of the register *)
(* and a write through it leaves the high half as it was.                  *)

GetR(f, sf, k) == IF sf THEN f[k] ELSE f[k] % HALF

SetR(f, sf, k, v) ==
  [f EXCEPT ![k] = IF sf THEN v % WORD ELSE (@ - (@ % HALF)) + (v % HALF)]

(* get_vm_with_offset_32 / _64: the address becomes a signed offset of the *)
(* access width, is compared with both ends of the stack (the far end      *)
(* included), and the access covers the Size(sf) bytes from there.         *)

Offset(sf, addr) == Signed(addr % Span(sf), Span(sf))
InRange(off) == 0 <= off /\ off <= STACK_SIZE

Load(m, sf, off) == IF sf THEN FromBytes8(m, off) ELSE FromBytes4(m, off)

\* Seeded fault: a W store that writes eight bytes.
StoreWide(m, sf, off, v) ==
  [a \in ObjectBytes |->
     IF off <= a /\ a < off + 8 THEN ByteOf(v, a - off) ELSE m[a]]

Store(m, sf, off, v) ==
  [a \in ObjectBytes |->
     IF off <= a /\ a < off + Size(sf) THEN ByteOf(v, a - off) ELSE m[a]]

\* _logger can be used: its stored pointer still is the one that was stored.
LoggerIntact == FromBytes8(mem, STACK_SIZE) = LoggerPtr

CoreTypeOK ==
  /\ r \in [Regs -> Words]
  /\ pc \in Words
  /\ nzcv \in Flags
  /\ mem \in [ObjectBytes -> Bytes]
=============================================================================
