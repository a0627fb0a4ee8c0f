-------------------------------- MODULE Asm --------------------------------
(***************************************************************************)
(* What the model-checking modules share: instructions written the way an  *)
(* assembler listing reads, the OR table, and initial contents.            *)
(***************************************************************************)
EXTENDS Session, Sequences
LOCAL INSTANCE Bitwise

X == TRUE
W == FALSE

Blank == [ op |-> "Other", sf |-> W, narrow |-> FALSE, sh |-> FALSE, rd |-> 31,
           rn |-> 31, rm |-> 31, imm |-> 0, amt |-> 0, mode |-> "offset",
           cond |-> 0, rule |-> "LSL" ]

\* op rd, rn, #imm
Imm(op, sf, rd, rn, imm) ==
  [Blank EXCEPT !.op = op, !.sf = sf, !.rd = rd, !.rn = rn, !.imm = imm]
\* op rd, rn, #imm, LSL #12
ImmSh(op, sf, rd, rn, imm) == [Imm(op, sf, rd, rn, imm) EXCEPT !.sh = TRUE]
\* op rt, [rn, #imm]   (mode offset; the field of imm is scaled by the size)
Mem(op, sf, mode, rt, rn, imm) ==
  [Imm(op, sf, rt, rn, imm) EXCEPT !.mode = mode]
\* op rt, rt2, [rn, #imm]
Pair2(op, sf, mode, rt, rt2, rn, imm) ==
  [Mem(op, sf, mode, rt, rn, imm) EXCEPT !.rm = rt2]
\* op label, at imm instructions from here
Rel(op, span, imm) == [Blank EXCEPT !.op = op, !.imm = imm % span]
Branch(imm) == Rel("B", IMM26, imm)
Call(imm) == Rel("Bl", IMM26, imm)
Return == [Blank EXCEPT !.op = "Ret", !.rn = LR]
TestBit(sf, rt, bit, imm) ==
  [Blank EXCEPT !.op = "Tbnz", !.sf = sf, !.rd = rt, !.amt = bit, !.imm = imm]
\* cset rd, cond: CSINC rd, zr, zr, with the condition inverted in the word
Cset(sf, rd, cond) ==
  [Blank EXCEPT !.op = "Csinc", !.sf = sf, !.rd = rd, !.cond = Inverted(cond)]
\* csinc rd, rn, rm, cond
Select(sf, rd, rn, rm, cond) ==
  [Blank EXCEPT !.op = "Csinc", !.sf = sf, !.rd = rd, !.rn = rn, !.rm = rm,
                !.cond = cond]
\* mov rd, #imm, LSL #16 * hw
MovImm(sf, rd, imm, hw) == [Imm("Movz", sf, rd, 31, imm) EXCEPT !.amt = hw]
\* orr rd, rn, rm, rule #amt
Orr(sf, rd, rn, rm, rule, amt) ==
  [Imm("OrrSh", sf, rd, rn, 0) EXCEPT !.rm = rm, !.rule = rule, !.amt = amt]
Halt == Blank   \* a word no pattern matches: the session stops

\* A program from its listing; index 0 is the first instruction.
Program(listing, entry) ==
  [ text |-> [k \in 0 .. Len(listing) - 1 |-> listing[k + 1]], entry |-> entry ]

OrTable == [p \in Bytes \X Bytes |-> p[1] | p[2]]

\* _r and _stack as one run may find them.
Cleared == [k \in Regs |-> 0]
Filled(b) == [a \in 0 .. STACK_SIZE - 1 |-> b]
=============================================================================
