------------------------------- MODULE Calls -------------------------------
(***************************************************************************)
(* The session composed with a shadow of the calls in progress, which only *)
(* observes it: BL pushes, a RET that jumps pops.  The shadow is what the  *)
(* refinement of CallStack needs to know beside the machine's own state.   *)
(***************************************************************************)
EXTENDS Session, Sequences, SequencesExt

VARIABLE shadow

\* The stack pointer as a position: below the stack it has wrapped around.
sp == Signed(r[SP], WORD)

callVars == <<vars, shadow>>

\* A RET that jumps although no call is in progress.
Underflow == [ret |-> WORD, sp |-> WORD, fp |-> WORD]

Observe ==
  shadow' =
    CASE Fetched("Bl") /\ ctl' = "advance" ->
           Append(shadow, [ret |-> pc + 1, sp |-> sp, fp |-> r[FP]])
      [] Fetched("Ret") /\ ctl' = "advance" ->
           IF shadow = <<>> THEN <<Underflow>> ELSE Front(shadow)
      [] OTHER -> shadow

CallsInit == Init /\ shadow = <<>>
CallsNext == Next /\ Observe
CallsSpec == CallsInit /\ [][CallsNext]_callVars /\ WF_callVars(CallsNext)

(* The refinement mapping.  Between a handler and advance_pc the next      *)
(* instruction is the one behind pc; a RET to zero is the end.             *)
at == IF ctl = "advance" THEN (pc + 1) % WORD ELSE pc

status ==
  CASE ctl \in {"fetch", "advance"} -> "running"
    [] ctl = "stopped" /\ Handler(text[pc].op) = "Ret" -> "done"
    [] OTHER -> "failed"

Abstract == INSTANCE CallStack
  WITH StackTop <- STACK_SIZE - 1, fp <- r[FP],
       memory <- mem, frames <- shadow

-----------------------------------------------------------------------------
(* Properties.                                                             *)

(* The session implements CallStack: every BL is answered by a RET to the  *)
(* instruction behind it with sp and fp as they were, a callee neither     *)
(* releases nor writes its callers' part of the stack, the final RET       *)
(* happens with no call pending and an instruction that throws or stops    *)
(* has changed nothing (bl.cpp, ret.cpp, stp.cpp, ldp.cpp, the loop of     *)
(* session.h).                                                             *)
CallDiscipline == Abstract!Spec

(* The calling convention, which binds the program: an instruction leaves  *)
(* the stack pointer below the callers' part of the stack, stores nothing  *)
(* into it, and returns with what the call left in the link register and   *)
(* with sp and fp as they were; the outermost function returns to zero     *)
(* (tests/data/branching.cpp as compiled; ret.cpp:9-14).                   *)
Convention ==
  ctl = "fetch" /\ pc \in DOMAIN text =>
    LET i == text[pc]
        callers == Abstract!CallersFrom
    IN /\ sp' <= callers
       /\ \A off \in StoreOffsets(i) : InRange(off) => off + Size(i.sf) <= callers
       /\ Handler(i.op) = "Ret" =>
            /\ i.rn \notin {SP, FP}
            /\ IF shadow = <<>>
               THEN r[i.rn] = 0 /\ sp = STACK_SIZE - 1
               ELSE Last(shadow) = [ret |-> r[i.rn], sp |-> sp, fp |-> r[FP]]

(* The programs of a run keep to the calling convention: what their        *)
(* prologues store, across calls of any depth, is what their epilogues     *)
(* load and their RETs jump to (stp.cpp, ldp.cpp, sub.cpp, bl.cpp,         *)
(* ret.cpp).                                                               *)
ConventionKept == [][Convention]_callVars

(* Whatever the uninitialised registers and stack hold, the loop of        *)
(* session.h ends.  States the programs of a run must have this.           *)
Terminates == <>(ctl \in Final)
=============================================================================
