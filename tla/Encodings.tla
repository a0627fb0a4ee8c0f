----------------------------- MODULE Encodings -----------------------------
(***************************************************************************)
(* Names shared by the execution and the decoding side: the classes of     *)
(* ARM64 encodings the models tell apart, the handler a session runs for   *)
(* each, and instruction words.                                            *)
(*                                                                         *)
(* A word is the set of its bits that are 1, so that "instruction & mask"  *)
(* is an intersection.                                                     *)
(***************************************************************************)
EXTENDS Naturals

Mnemonics ==
  { "AddImm", "AddsImm", "SubImm", "SubsImm", "OrrSh", "Orn", "Movz", "Movn",
    "Movk", "LogicalImm", "Adrp", "Adr", "Csinc", "Csel", "B", "Bl", "Bcond",
    "Br", "Svc", "Ret", "Tbnz", "Tbz", "Cbz", "Cbnz", "StrImm", "LdrImm",
    "Stur", "Ldur", "Stp", "Ldp", "Other" }

\* Seeded fault: LDUR has a leaf of its own.
HandlerOwnLdur(op) ==
  CASE op \in {"Ret", "Bcond", "Br", "Svc"} -> "Ret"
    [] op \in {"Tbnz", "Tbz", "Cbz", "Cbnz"} -> "Tbnz"
    [] op \in {"Movz", "Movn", "Movk", "LogicalImm"} -> "Movz"
    [] op \in {"OrrSh", "Orn"} -> "OrrSh"
    [] op \in {"Adrp", "Adr"} -> "Adrp"
    [] op \in {"Csinc", "Csel"} -> "Csinc"
    [] OTHER -> op

(* handle_instruction: the handler the decision tree reaches.  A leaf does *)
(* not look at the fixed bits its path skipped, so that encodings no       *)
(* pattern lists reach a handler too.  Dispatch checks this table against  *)
(* the walk of the tree, bit by bit.                                       *)
Handler(op) ==
  CASE op \in {"Ret", "Bcond", "Br", "Svc"} -> "Ret"
    [] op \in {"Tbnz", "Tbz", "Cbz", "Cbnz"} -> "Tbnz"
    [] op \in {"Movz", "Movn", "Movk", "LogicalImm"} -> "Movz"
    [] op \in {"OrrSh", "Orn"} -> "OrrSh"
    [] op \in {"Adrp", "Adr"} -> "Adrp"
    [] op \in {"Csinc", "Csel"} -> "Csinc"
    [] op \in {"Stur", "Ldur"} -> "Stur"
    [] OTHER -> op

-----------------------------------------------------------------------------
WordBits == 0 .. 31

\* The word whose halves are hi and lo.
BitsOf(hi, lo) ==
  {b \in WordBits : ((IF b < 16 THEN lo \div 2 ^ b ELSE hi \div 2 ^ (b - 16)) % 2) = 1}
=============================================================================
