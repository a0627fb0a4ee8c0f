------------------------------ MODULE Session ------------------------------
(***************************************************************************)
(* session/: the constructor of Session, which prepares the State and runs *)
(*                                                                         *)
(*     while (handle_instruction(instrs[pc], state)) advance_pc();         *)
(*                                                                         *)
(* One instruction takes two steps, as in the code: its handler, then      *)
(* advance_pc.  A taken branch leaves pc one before its target in between. *)
(***************************************************************************)
EXTENDS Ops

CONSTANTS
  Programs,     \* loaded programs: [text |-> instructions, entry |-> first pc]
  UninitRegs,   \* register files the uninitialised _r may hold
  UninitStack   \* contents the uninitialised _stack may hold

ASSUME ProgramsAssumption ==
  \A p \in Programs :
    /\ p.entry \in Words
    /\ DOMAIN p.text \subseteq Words
    /\ p.text \in [DOMAIN p.text -> Instr]
    /\ \A k \in DOMAIN p.text : Encodable(p.text[k])

ASSUME UninitAssumption ==
  /\ UninitRegs \subseteq [Regs -> Words]
  /\ UninitStack \subseteq [0 .. STACK_SIZE - 1 -> Bytes]

VARIABLE text   \* the mapped instructions

vars == <<r, pc, nzcv, mem, ctl, text>>

(* Only sp and pc are given a value.                                       *)
Init ==
  /\ \E p \in Programs : text = p.text /\ pc = p.entry
  /\ \E f \in UninitRegs : r = [f EXCEPT ![SP] = STACK_SIZE - 1]
  /\ \E s \in UninitStack :
       mem = [a \in ObjectBytes |->
                IF a < STACK_SIZE THEN s[a] ELSE ByteOf(LoggerPtr, a - STACK_SIZE)]
  /\ nzcv = [n |-> FALSE, z |-> FALSE, c |-> FALSE, v |-> FALSE]
  /\ ctl = "fetch"

(* handle_instruction: the handler the decision tree reaches, of Encodings. *)
Fetched(h) ==
  ctl = "fetch" /\ pc \in DOMAIN text /\ Handler(text[pc].op) = h

Execute ==
  \/ Fetched("AddImm") /\ AddImm(text[pc])
  \/ Fetched("AddsImm") /\ AddsImm(text[pc])
  \/ Fetched("SubImm") /\ SubImm(text[pc])
  \/ Fetched("SubsImm") /\ SubsImm(text[pc])
  \/ Fetched("OrrSh") /\ OrrSh(text[pc])
  \/ Fetched("Movz") /\ Movz(text[pc])
  \/ Fetched("Adrp") /\ Adrp(text[pc])
  \/ Fetched("Csinc") /\ Csinc(text[pc])
  \/ Fetched("B") /\ B(text[pc])
  \/ Fetched("Bl") /\ Bl(text[pc])
  \/ Fetched("Ret") /\ Ret(text[pc])
  \/ Fetched("Tbnz") /\ Tbnz(text[pc])
  \/ Fetched("StrImm") /\ StrImm(text[pc])
  \/ Fetched("LdrImm") /\ LdrImm(text[pc])
  \/ Fetched("Stur") /\ Stur(text[pc])
  \/ Fetched("Stp") /\ Stp(text[pc])
  \/ Fetched("Ldp") /\ Ldp(text[pc])
  \/ Fetched("Other") /\ Unsupported

\* Seeded fault: the pc does not wrap.
AdvancePcUnbounded ==
  /\ ctl = "advance"
  /\ pc' = pc + 1
  /\ ctl' = "fetch"
  /\ UNCHANGED <<r, nzcv, mem>>

(* _pc++, after a debug record through _logger.                            *)
AdvancePc ==
  /\ ctl = "advance"
  /\ pc' = (pc + 1) % WORD
  /\ ctl' = "fetch"
  /\ UNCHANGED <<r, nzcv, mem>>

(* Once a store has replaced the pointer of _logger, a call through it may *)
(* crash, or appear to work: the one of advance_pc ...                     *)
LoggerFault ==
  /\ ctl = "advance"
  /\ ~LoggerIntact
  /\ ctl' = "crashed"
  /\ UNCHANGED coreVars

\* The handler of i calls update_pc.
UpdatesPc(i) ==
  \/ Handler(i.op) \in {"B", "Bl"}
  \/ Handler(i.op) = "Ret" /\ r[i.rn] # 0
  \/ Handler(i.op) = "Tbnz" /\ BitSet(GetR(r, i.sf, i.rd), i.amt)

(* ... and the one of update_pc inside a branch: BL has then set the link, *)
(* RET has not yet cleared its register.                                   *)
BranchFault ==
  /\ ctl = "fetch" /\ pc \in DOMAIN text
  /\ UpdatesPc(text[pc])
  /\ ~LoggerIntact
  /\ ctl' = "crashed"
  /\ r' = IF Fetched("Bl") THEN SetR(r, TRUE, LR, pc + 1) ELSE r
  /\ UNCHANGED <<pc, nzcv, mem>>

(* instrs[pc] is not checked: what lies outside the text is not modelled.  *)
WildFetch ==
  /\ ctl = "fetch"
  /\ pc \notin DOMAIN text
  /\ ctl' = "wild"
  /\ UNCHANGED coreVars

Final == {"stopped", "threw", "aborted", "crashed", "wild"}

Ended == ctl \in Final /\ UNCHANGED <<r, pc, nzcv, mem, ctl>>

Next ==
  /\ \/ Execute \/ AdvancePc
     \/ LoggerFault \/ BranchFault \/ WildFetch
     \/ Ended
  /\ UNCHANGED text

Spec == Init /\ [][Next]_vars
FairSpec == Spec /\ WF_vars(Next)

Texts == {p.text : p \in Programs}

-----------------------------------------------------------------------------
(* Properties.                                                             *)

(* Registers and pc stay within their 64 bits, the bytes of the stack      *)
(* within a byte, the loop of session.h in one of its states, and the      *)
(* mapped text is never written.                                           *)
TypeOK ==
  /\ CoreTypeOK
  /\ ctl \in Ctls
  /\ text \in Texts

(* The step that ends the session changes nothing: of the two addresses of *)
(* a pair both are checked before either is written (stp.cpp:45-46,        *)
(* 65-66), nothing is written back (str.cpp, ldr.cpp), no flag is set and  *)
(* no branch is half taken (ret.cpp:9-12).  The one exception is a BL that *)
(* crashes in update_pc once the logger is lost: its link is set already   *)
(* (bl.cpp:11-14).  Earlier steps, of a store over the end above all, are  *)
(* not undone.                                                             *)
FaultAtomic ==
  [][ ctl' \in Final =>
        /\ UNCHANGED <<pc, nzcv, mem>>
        /\ \/ UNCHANGED r
           \/ /\ Fetched("Bl") /\ ~LoggerIntact
              /\ \A k \in Regs \ {LR} : r'[k] = r[k] ]_vars

\* Where an instruction stores, if it does.
StoreOffsets(i) ==
  LET step == IF i.mode = "offset" THEN Scaled(i) ELSE i.imm
      simm == Signed(i.imm % IMM9, IMM9)
  IN CASE Handler(i.op) = "StrImm" -> {Offset(i.sf, Rn(i) + step)}
       [] Handler(i.op) = "Stur" -> {Offset(i.sf, Rn(i) + simm)}
       [] Handler(i.op) = "Stp" ->
            { Offset(i.sf, Rn(i) + Scaled(i)),
              Offset(i.sf, Rn(i) + Scaled(i) + Size(i.sf)) }
       [] OTHER -> {}

(* A byte of the stack, or behind it, changes only under a store that      *)
(* passed the bound check and covers it: loads, write-backs, branches and  *)
(* faults write no byte, stores none beside their own (str.cpp, stur.cpp,  *)
(* stp.cpp and the two get_vm_with_offset, state.cpp:69-85).               *)
OnlyStoresWrite ==
  [][ \A a \in ObjectBytes : mem'[a] # mem[a] =>
        /\ ctl = "fetch" /\ pc \in DOMAIN text
        /\ \E off \in StoreOffsets(text[pc]) :
             InRange(off) /\ off <= a /\ a < off + Size(text[pc].sf) ]_vars

(* The logger behind the stack is only lost to a store that passes the     *)
(* bound check of state.cpp:74, 81 although it ends beyond the stack.      *)
LoggerLostByOverrun ==
  [][ LoggerIntact /\ ~LoggerIntact' =>
        /\ ctl = "fetch" /\ pc \in DOMAIN text
        /\ \E off \in StoreOffsets(text[pc]) :
             InRange(off) /\ off + Size(text[pc].sf) > STACK_SIZE ]_vars
=============================================================================
