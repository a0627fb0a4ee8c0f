------------------------------- MODULE Idioms -------------------------------
(***************************************************************************)
(* What instructions mean to one another.  Compilers pair them: a compare  *)
(* and what selects by it, an addition and its undoing, a push and a pop,  *)
(* two halves and the whole.  The session with two more variables, which   *)
(* only observe: the instruction executed last and the one that set the    *)
(* flags last, each with the registers it found.                           *)
(***************************************************************************)
EXTENDS Conform

VARIABLES
  prev,    \* executed last: [i |-> instruction, r |-> registers before it]
  setter   \* the last of them that set the flags

idiomVars == <<vars, prev, setter>>

Nothing == [i |-> [op |-> "None"]]
SetsFlags == {"AddsImm", "SubsImm"}

\* The instruction behind pc is executed, rather than ending the session.
Completes == ctl = "fetch" /\ pc \in DOMAIN text /\ ctl' = "advance"

Remember ==
  LET now == [i |-> text[pc], r |-> r]
  IN /\ prev' = IF Completes THEN now ELSE prev
     /\ setter' = IF Completes /\ text[pc].op \in SetsFlags THEN now ELSE setter

IdiomsInit == Init /\ prev = Nothing /\ setter = Nothing
IdiomsNext == Next /\ Remember
IdiomsSpec == IdiomsInit /\ [][IdiomsNext]_idiomVars

-----------------------------------------------------------------------------
(* A compare, or a sum, and what selects by its flags.                     *)

\* What an instruction read from its first operand, and what it stored.
Operand(p) == GetR(p.r, p.i.sf, p.i.rn)
Given(p, k) == IF k = 31 THEN 0 ELSE GetR(p.r, p.i.sf, k)

(* The conditions in the words of CondCode's comments (csinc.cpp:5-21),    *)
(* for a result that is u when the operands are unsigned, below zero       *)
(* meaning a borrow or no carry, and s when they are signed.               *)
Means(cond, span, u, s) ==
  CASE cond = 0 -> u % span = 0
    [] cond = 1 -> u % span # 0
    [] cond = 2 -> u >= 0
    [] cond = 3 -> u < 0
    [] cond = 4 -> Neg(u % span, span)
    [] cond = 5 -> ~Neg(u % span, span)
    [] cond = 6 -> ~(-span <= 2 * s /\ 2 * s < span)
    [] cond = 7 -> -span <= 2 * s /\ 2 * s < span
    [] cond = 8 -> u > 0
    [] cond = 9 -> u <= 0
    [] cond = 10 -> s >= 0
    [] cond = 11 -> s < 0
    [] cond = 12 -> s > 0
    [] cond = 13 -> s <= 0
    [] cond = 14 -> TRUE
    [] OTHER -> FALSE

\* What the condition says of the operands of p: compared, or added.
Compared(p, cond) ==
  LET span == Span(p.i.sf)
      x == Operand(p)
  IN Means(cond, span, x - Shifted(p.i), Signed(x, span) - Shifted(p.i))

Summed(p, cond) ==
  LET span == Span(p.i.sf)
      x == Operand(p)
  IN Means(cond, span, x + Shifted(p.i) - span, Signed(x, span) + Shifted(p.i))

\* The condition the listing names: CSET's word holds the inverted one.
Named(i) == IF IsCset(i) THEN Inverted(i.cond) ELSE i.cond
Chosen(i, b) ==
  CASE IsCset(i) -> IF b THEN 1 ELSE 0
    [] ~IsCset(i) /\ b -> OrZero(i, i.rn)
    [] ~IsCset(i) /\ ~b -> (OrZero(i, i.rm) + 1) % Span(i.sf)

Misread == {9, 13}               \* LS and LE, see ConditionsMean of MCDocs
ReadsV == {6, 7, 10, 11, 12}

(* However many instructions lie between them, CSINC and CSET after a SUBS *)
(* decide what the condition's name says of its two operands, at both      *)
(* widths and for every condition but LS and LE: subs.cpp's flags fit      *)
(* csinc.cpp's reading of them and nothing else touches them.              *)
CompareThenSelect ==
  [][ LET i == text[pc]
      IN Completes /\ i.op = "Csinc" /\ setter.i.op = "SubsImm"
           /\ Named(i) \notin Misread
         => GetR(r', i.sf, i.rd) = Chosen(i, Compared(setter, Named(i))) ]_idiomVars

(* After an ADDS likewise; after its X form only for the conditions that   *)
(* do not read V (adds.cpp:54, see ConditionsMean of MCDocs).              *)
AddThenSelect ==
  [][ LET i == text[pc]
      IN Completes /\ i.op = "Csinc" /\ setter.i.op = "AddsImm"
           /\ Named(i) \notin Misread
           /\ (setter.i.sf => Named(i) \notin ReadsV)
         => GetR(r', i.sf, i.rd) = Chosen(i, Summed(setter, Named(i))) ]_idiomVars

(* SUB undoes an ADD of the same immediate, shifted or not, even where the *)
(* sum has left the width (add.cpp, sub.cpp, state.cpp:61-69).             *)
AddThenSub ==
  [][ LET i == text[pc]
          a == prev.i
      IN Completes /\ i.op = "SubImm" /\ a.op = "AddImm" /\ i.rn = a.rd
           /\ i.sf = a.sf /\ i.sh = a.sh /\ i.imm = a.imm
         => GetR(r', i.sf, i.rd) = Operand(prev) ]_idiomVars

-----------------------------------------------------------------------------
(* A store and the load behind it.                                         *)

(* The address a pre-indexed store leaves in its base is the address it    *)
(* stored at: a load without offset from there finds the values again,     *)
(* whichever of the registers are the same.  (STR of an X register is the  *)
(* exception, see IndexedWritesBack of MCDocs; str.cpp, stp.cpp, ldr.cpp,  *)
(* ldp.cpp.)                                                               *)
PushedAtBase ==
  [][ LET l == text[pc]
          s == prev.i
      IN Completes /\ l.op \in {"LdrImm", "Ldp"} /\ (l.op = "Ldp" => l.rd # l.rm)
           /\ s.op \in {"StrImm", "Stp"} /\ ~(s.op = "StrImm" /\ s.sf)
           /\ s.mode = "pre" /\ l.imm = 0 /\ l.sf = s.sf /\ l.rn = s.rn
         => /\ GetR(r', l.sf, l.rd) = Given(prev, s.rd)
            /\ s.op = "Stp" /\ l.op = "Ldp" =>
                 GetR(r', l.sf, l.rm) = Given(prev, s.rm) ]_idiomVars

(* A pair of W registers is one X register in memory, low half first, and  *)
(* an X register is a pair of W registers (str.cpp, stp.cpp, ldr.cpp,      *)
(* ldp.cpp and the two get_vm_with_offset agree on the byte order and, of  *)
(* one base, on the address).                                              *)
HalvesAndWholes ==
  [][ LET l == text[pc]
          s == prev.i
      IN Completes /\ s.op \in {"StrImm", "Stp"} /\ s.mode = "offset"
           /\ l.mode = "offset" /\ l.rn = s.rn /\ Scaled(l) = Scaled(s)
         => /\ s.op = "Stp" /\ ~s.sf /\ l.op = "LdrImm" /\ l.sf =>
                 r'[l.rd] = Given(prev, s.rd) + HALF * Given(prev, s.rm)
            /\ s.op = "StrImm" /\ s.sf /\ l.op = "Ldp" /\ ~l.sf /\ l.rd # l.rm =>
                 GetR(r', l.sf, l.rd) + HALF * GetR(r', l.sf, l.rm)
                   = Given(prev, s.rd) ]_idiomVars
=============================================================================
