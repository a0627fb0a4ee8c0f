------------------------------ MODULE Conform ------------------------------
(***************************************************************************)
(* The session against the architecture: the refinement mapping.           *)
(***************************************************************************)
EXTENDS Session

(* A handler that has returned has executed its instruction; advance_pc    *)
(* then only catches up with "at".                                         *)
at == IF ctl = "advance" THEN (pc + 1) % WORD ELSE pc

(* A RET that returns to zero ends the program, a throw, an unsupported    *)
(* word and a fetch outside the text fail; an assert kills the process.    *)
(* With the pointer of the logger overwritten any call may do anything.    *)
status ==
  CASE ~LoggerIntact -> "undefined"
    [] LoggerIntact /\ ctl \in {"fetch", "advance"} -> "running"
    [] LoggerIntact /\ ctl = "stopped" /\ text[pc].op = "Ret" -> "done"
    [] LoggerIntact /\ ctl = "stopped" /\ text[pc].op # "Ret" -> "failed"
    [] LoggerIntact /\ ctl \in {"threw", "wild"} -> "failed"
    [] OTHER -> "died"

Architecture == INSTANCE Arm
  WITH program <- text, regs <- r, flags <- nzcv, memory <- mem

(* The session implements Arm: as long as no store has run over the end of *)
(* the stack, every instruction outside Departs changes registers, flags,  *)
(* memory and the next instruction as the ISA says and nothing else,       *)
(* whatever ran before it; its two steps are one to the program; what it   *)
(* cannot execute ends the session with an error and nothing changed, and  *)
(* nothing dies (every process() of ops/, state.cpp, the loop of           *)
(* session.h).                                                             *)
ImplementsArm == Architecture!Spec
=============================================================================
