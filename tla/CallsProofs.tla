---------------------------- MODULE CallsProofs ----------------------------
(***************************************************************************)
(* The emulator's part of the call discipline, for every program: as long  *)
(* as the program keeps to the calling convention, the session implements  *)
(* CallStack.                                                              *)
(***************************************************************************)
EXTENDS Calls, MemoryProofs, SequenceTheorems

\* What a pending call has kept.
Frame == [ret : Nat \ {0}, sp : {x \in Int : x <= STACK_SIZE - 1}, fp : Words]

\* No caller's part of the stack reaches over its end, so the logger is safe.
CallsInv ==
  /\ TypeOK /\ LoggerIntact
  /\ sp <= STACK_SIZE - 1
  /\ shadow \in Seq(Frame)

\* The instances of the operators on sequences.
LEMMA SameEnds ==
  ASSUME NEW s
  PROVE  Abstract!Last(s) = Last(s) /\ Abstract!Front(s) = Front(s)
  BY DEF Abstract!Last, Last, Abstract!Front, Front

\* The stack pointer as a position is an integer.
LEMMA SpType ==
  ASSUME TypeOK
  PROVE  sp \in Int /\ r[SP] \in Words /\ r[FP] \in Words /\ pc \in Words
  <1>1. r[SP] \in Words /\ r[FP] \in Words /\ pc \in Words
    BY RegsAssumption DEF TypeOK, CoreTypeOK
  <1> QED BY <1>1, Widths DEF sp, Signed, Words

\* Where the callers' part of the stack begins.
LEMMA CallersType ==
  ASSUME CallsInv
  PROVE  /\ Abstract!CallersFrom \in Int /\ Abstract!CallersFrom <= STACK_SIZE - 1
         /\ shadow # <<>> => Last(shadow) \in Frame /\ Front(shadow) \in Seq(Frame)
  <1>1. ASSUME shadow # <<>>
        PROVE  Last(shadow) \in Frame /\ Front(shadow) \in Seq(Frame)
    <2>1. shadow \in Seq(Frame) /\ Len(shadow) \in Nat \ {0}
      BY <1>1, LenProperties, EmptySeq DEF CallsInv
    <2>2. Last(shadow) \in Frame BY <2>1, LenProperties DEF Last
    <2>3. SubSeq(shadow, 1, Len(shadow) - 1) \in Seq(Frame)
      BY <2>1, SubSeqProperties
    <2> QED BY <2>2, <2>3 DEF Front
  <1>2. CASE shadow = <<>> BY <1>2, StackAssumption DEF Abstract!CallersFrom
  <1>3. CASE shadow # <<>>
    <2>1. Last(shadow).sp \in Int /\ Last(shadow).sp <= STACK_SIZE - 1
      BY <1>1, <1>3 DEF Frame
    <2> QED BY <1>1, <1>3, <2>1, SameEnds DEF Abstract!CallersFrom
  <1> QED BY <1>1, <1>2, <1>3

\* The session starts where CallStack does.
LEMMA CallsStart == CallsInit => CallsInv /\ Abstract!Init
  <1> SUFFICES ASSUME CallsInit PROVE CallsInv /\ Abstract!Init OBVIOUS
  <1>1. /\ Init /\ shadow = <<>> /\ ctl = "fetch" BY DEF CallsInit, Init
  <1>2. TypeOK /\ LoggerIntact BY <1>1, InitType, LoggerStored
  <1>3. sp = STACK_SIZE - 1
    <2>1. PICK f \in UninitRegs : r = [f EXCEPT ![SP] = STACK_SIZE - 1]
      BY <1>1 DEF Init
    <2>2. r[SP] = STACK_SIZE - 1 BY <2>1, UninitAssumption, RegsAssumption
    <2>3. ~Neg(STACK_SIZE - 1, WORD) BY StackAssumption, Widths DEF Neg
    <2> QED BY <2>2, <2>3 DEF sp, Signed
  <1>4. shadow \in Seq(Frame) BY <1>1, EmptySeq
  <1>5. status = "running" BY <1>1 DEF status
  <1>6. sp <= STACK_SIZE - 1 BY <1>3, StackAssumption
  <1> QED BY <1>1, <1>2, <1>3, <1>4, <1>5, <1>6 DEF CallsInv, Abstract!Init

\* A handler ends in one of four ways; a RET stops for a zero only.
LEMMA HandlerEnds ==
  ASSUME Execute
  PROVE  /\ ctl' \in {"advance", "stopped", "threw", "aborted"}
         /\ ctl' # "advance" => UNCHANGED coreVars
         /\ Fetched("Ret") => Ret(text[pc])
         /\ Fetched("Bl") => Bl(text[pc])
  <1>1. ctl' # "advance" => UNCHANGED coreVars BY GoingOn, GivingUp DEF Execute
  <1>2. ctl' \in {"advance", "stopped", "threw", "aborted"}
    <2>1. ASSUME NEW i, \/ AddImm(i) \/ AddsImm(i) \/ SubImm(i) \/ SubsImm(i)
                        \/ Movz(i) \/ Adrp(i) \/ Csinc(i) \/ B(i) \/ Bl(i) \/ Tbnz(i)
          PROVE  ctl' = "advance"
      BY <2>1, GoingOn
    <2>2. ASSUME NEW i, \/ OrrSh(i) \/ Ret(i) \/ StrImm(i) \/ LdrImm(i) \/ Stur(i)
                        \/ Unsupported
          PROVE  ctl' \in {"advance", "stopped", "threw", "aborted"}
      BY <2>2 DEF OrrSh, Ret, StrImm, LdrImm, Stur, Unsupported, Abort, Stop, Throw,
                  Result, Advance
    <2>3. ASSUME NEW i, Stp(i) \/ Ldp(i)
          PROVE  ctl' \in {"advance", "stopped", "threw", "aborted"}
      BY <2>3 DEF Stp, Ldp, Throw, Advance
    <2> QED BY <2>1, <2>2, <2>3 DEF Execute
  <1>3. (Fetched("Ret") => Ret(text[pc])) /\ (Fetched("Bl") => Bl(text[pc]))
    BY DEF Execute, Fetched
  <1> QED BY <1>1, <1>2, <1>3

\* Neither the callers' part of the stack nor the logger is written.
LEMMA CallersKept ==
  ASSUME CallsInv, Next, Convention
  PROVE  /\ \A a \in DOMAIN mem : a >= Abstract!CallersFrom => mem'[a] = mem[a]
         /\ LoggerIntact'
  <1> DEFINE C == Abstract!CallersFrom
  <1>1. TypeOK /\ LoggerIntact /\ C \in Int /\ C <= STACK_SIZE - 1
    BY CallersType DEF CallsInv
  <1>2. \A off \in StoreOffsets(text[pc]) :
          ctl = "fetch" /\ pc \in DOMAIN text /\ InRange(off) =>
            off + Size(text[pc].sf) <= C
    BY DEF Convention
  <1> HIDE DEF C
  <1>3. ctl = "fetch" /\ pc \in DOMAIN text =>
          /\ StoreOffsets(text[pc]) \subseteq Int
          /\ Size(text[pc].sf) \in Int
    BY <1>1, FetchedInstr, StoreOffsetType DEF TypeOK, Size
  <1>4. ASSUME NEW a \in DOMAIN mem, a >= C, mem'[a] # mem[a] PROVE FALSE
    <2>1. a \in ObjectBytes BY <1>1 DEF TypeOK, CoreTypeOK
    <2>2. ctl = "fetch" /\ pc \in DOMAIN text /\ Covers(text[pc], a)
      BY <1>4, <2>1, WritingStep
    <2>3. PICK off \in StoreOffsets(text[pc]) :
            InRange(off) /\ a < off + Size(text[pc].sf)
      BY <2>2 DEF Covers
    <2>4. off + Size(text[pc].sf) <= C BY <1>2, <2>2, <2>3
    <2>5. a \in Int /\ off \in Int /\ Size(text[pc].sf) \in Int
      BY <1>3, <2>1, <2>2, StackAssumption DEF ObjectBytes
    <2> QED BY <1>1, <1>4, <2>3, <2>4, <2>5
  <1>5. ASSUME ~LoggerIntact' PROVE FALSE
    <2>1. /\ ctl = "fetch" /\ pc \in DOMAIN text
          /\ \E off \in StoreOffsets(text[pc]) :
               InRange(off) /\ off + Size(text[pc].sf) > STACK_SIZE
      BY <1>1, <1>5, LosingStep
    <2>2. PICK off \in StoreOffsets(text[pc]) :
            InRange(off) /\ off + Size(text[pc].sf) > STACK_SIZE
      BY <2>1
    <2>3. off + Size(text[pc].sf) <= C BY <1>2, <2>1, <2>2
    <2>4. off + Size(text[pc].sf) \in Int BY <1>3, <2>1, <2>2
    <2> QED BY <1>1, <2>2, <2>3, <2>4, StackAssumption
  <1> QED BY <1>4, <1>5 DEF C

\* What the shadow sees of a step.
LEMMA Observed ==
  ASSUME Observe
  PROVE  /\ Fetched("Bl") /\ ctl' = "advance" =>
              shadow' = Append(shadow, [ret |-> pc + 1, sp |-> sp, fp |-> r[FP]])
         /\ Fetched("Ret") /\ ctl' = "advance" /\ shadow # <<>> =>
              shadow' = Front(shadow)
         /\ ~(Fetched("Bl") /\ ctl' = "advance")
            /\ ~(Fetched("Ret") /\ ctl' = "advance") =>
              shadow' = shadow
  <1>1. ~(Fetched("Bl") /\ Fetched("Ret")) BY DEF Fetched
  <1> QED BY <1>1 DEF Observe

\* A write to another register keeps the stack and the frame pointer.
LEMMA PointersKept ==
  ASSUME TypeOK, NEW k, NEW v, k \notin {SP, FP}, r' = SetR(r, TRUE, k, v)
  PROVE  sp' = sp /\ r'[SP] = r[SP] /\ r'[FP] = r[FP]
  <1>1. r \in [Regs -> Words] /\ SP \in Regs /\ FP \in Regs
    BY RegsAssumption DEF TypeOK, CoreTypeOK
  <1>2. r'[SP] = r[SP] /\ r'[FP] = r[FP] BY <1>1 DEF SetR
  <1> QED BY <1>2 DEF sp

\* A BL is a call.
LEMMA BlCalls ==
  ASSUME CallsInv, Observe, UNCHANGED text, Fetched("Bl"), Bl(text[pc])
  PROVE  Abstract!CallFrom(at) /\ shadow' \in Seq(Frame)
  <1>1. TypeOK /\ shadow \in Seq(Frame) /\ sp <= STACK_SIZE - 1 BY DEF CallsInv
  <1>2. sp \in Int /\ pc \in Nat /\ r[FP] \in Words
    BY <1>1, SpType, Widths DEF Words
  <1>3. at = pc /\ status = "running" BY DEF Fetched, at, status
  <1>4. shadow' = Append(shadow, [ret |-> at + 1, sp |-> sp, fp |-> r[FP]])
    BY <1>3, Observed DEF Bl, Advance
  <1>5. [ret |-> at + 1, sp |-> sp, fp |-> r[FP]] \in Frame
    BY <1>1, <1>2, <1>3 DEF Frame
  <1>6. shadow' \in Seq(Frame) BY <1>1, <1>4, <1>5, AppendProperties
  <1>7. sp' = sp /\ r'[FP] = r[FP]
    <2>1. LR \notin {SP, FP} BY DEF LR, SP, FP
    <2> QED BY <1>1, <2>1, PointersKept DEF Bl
  <1>8. mem' = mem /\ status' = "running" BY DEF Bl, Advance, status
  <1> QED BY <1>3, <1>4, <1>6, <1>7, <1>8 DEF Abstract!CallFrom

\* A RET that jumps returns from the last call.
LEMMA RetReturns ==
  ASSUME CallsInv, Observe, Convention, UNCHANGED text,
         Fetched("Ret"), Ret(text[pc]), ctl' = "advance"
  PROVE  Abstract!Return /\ shadow' \in Seq(Frame)
  <1> DEFINE i == text[pc]
             t == r[i.rn]
  <1>1. TypeOK /\ i \in Instr /\ t \in Words
    <2>1. TypeOK /\ pc \in DOMAIN text BY DEF CallsInv, Fetched
    <2>2. i \in Instr BY <2>1, FetchedInstr
    <2> QED BY <2>1, <2>2 DEF Instr, TypeOK, CoreTypeOK
  <1>2. t # 0 /\ Jump(t) /\ r' = SetR(r, TRUE, i.rn, 0) /\ UNCHANGED <<nzcv, mem>>
    BY DEF Ret, Stop
  <1>3. /\ i.rn \notin {SP, FP}
        /\ shadow # <<>>
        /\ Last(shadow) = [ret |-> t, sp |-> sp, fp |-> r[FP]]
    BY <1>2 DEF Convention, Fetched
  <1>4. sp' = sp /\ r'[FP] = r[FP] BY <1>1, <1>2, <1>3, PointersKept
  <1>5. at' = t
    <2>1. pc' = (t - 1) % WORD /\ at' = (pc' + 1) % WORD
      BY <1>2 DEF Jump, at
    <2>2. WORD \in Nat \ {0} /\ t \in Int /\ t \in 0 .. WORD - 1
      BY <1>1, Widths DEF Words
    <2> HIDE DEF t
    <2>3. (((t - 1) % WORD) + 1) % WORD = ((t - 1) + 1) % WORD
      <3>1. t - 1 \in Int /\ 1 \in Int BY <2>2
      <3> QED BY <2>2, <3>1, ModPlus
    <2>4. (t - 1) + 1 = t /\ t % WORD = t BY <2>2, ModSmall
    <2> QED BY <2>1, <2>3, <2>4
  <1>6. shadow' = Front(shadow) BY <1>3, Observed
  <1>7. shadow' \in Seq(Frame) BY <1>3, <1>6, CallersType
  <1>8. status = "running" /\ status' = "running" BY DEF Fetched, status
  <1>9. /\ Last(shadow).sp = sp /\ Last(shadow).fp = r[FP] /\ Last(shadow).ret = t
    BY <1>3
  <1> QED BY <1>2, <1>3, <1>4, <1>5, <1>6, <1>7, <1>8, <1>9, SameEnds
          DEF Abstract!Return

\* Every step of a program that keeps to the convention is one of CallStack.
LEMMA CallStep ==
  ASSUME CallsInv, CallsNext, Convention
  PROVE  CallsInv' /\ [Abstract!Next]_(Abstract!vars)
  <1>1. Next /\ Observe /\ TypeOK /\ LoggerIntact /\ UNCHANGED text
    BY DEF CallsNext, CallsInv, Next
  <1>2. TypeOK' BY <1>1, StepType
  <1>3. LoggerIntact' BY <1>1, CallersKept
  <1>4. sp \in Int /\ sp' \in Int /\ Abstract!CallersFrom \in Int
        /\ Abstract!CallersFrom <= STACK_SIZE - 1 /\ STACK_SIZE \in Int
    <2>1. sp' \in Int
      <3>1. r'[SP] \in Words BY <1>2, RegsAssumption DEF TypeOK, CoreTypeOK
      <3> QED BY <3>1, Widths DEF sp, Signed, Words
    <2> QED BY <1>1, <2>1, SpType, CallersType, StackAssumption
  <1>5. ASSUME UNCHANGED coreVars, UNCHANGED shadow
        PROVE  CallsInv' /\ UNCHANGED <<sp, r[FP], mem, shadow>>
    <2>1. sp' = sp /\ r'[FP] = r[FP] /\ mem' = mem BY <1>5 DEF coreVars, sp
    <2> QED BY <1>2, <1>3, <1>5, <2>1 DEF CallsInv
  <1>6. CASE Execute
    <2>1. /\ ctl = "fetch" /\ pc \in DOMAIN text
      BY <1>6 DEF Execute, Fetched
    <2>2. at = pc /\ status = "running" BY <2>1 DEF at, status
    <2>3. ctl' \in {"advance", "stopped", "threw", "aborted"}
      BY <1>6, HandlerEnds
    <2>4. CASE ctl' # "advance"
      <3>1. UNCHANGED coreVars BY <1>6, <2>4, HandlerEnds
      <3>2. ~Fetched("Bl")
        <4>1. Bl(text[pc]) => ctl' = "advance" BY DEF Bl, Advance
        <4> QED BY <1>6, <2>4, <4>1, HandlerEnds
      <3>3. shadow' = shadow BY <1>1, <2>4, <3>2, Observed
      <3>4. CallsInv' /\ UNCHANGED <<sp, r[FP], mem, shadow>>
        BY <1>5, <3>1, <3>3
      <3>5. at' = at BY <2>2, <2>4, <3>1 DEF at, coreVars
      <3>6. CASE status' = "done"
        <4>1. Fetched("Ret") /\ ctl' = "stopped"
          <5>1. ctl' = "stopped" /\ Handler(text'[pc'].op) = "Ret"
            BY <3>6 DEF status
          <5>2. pc' = pc BY <3>1 DEF coreVars
          <5> QED BY <1>1, <2>1, <5>1, <5>2 DEF Fetched
        <4>2. r[text[pc].rn] = 0
          BY <1>6, <4>1, HandlerEnds DEF Ret, Advance
        <4>3. shadow = <<>> /\ sp = STACK_SIZE - 1
          <5>1. CASE shadow = <<>> BY <4>1, <4>2, <5>1 DEF Convention, Fetched
          <5>2. CASE shadow # <<>>
            <6>1. Last(shadow).ret = r[text[pc].rn]
              BY <4>1, <5>2 DEF Convention, Fetched
            <6>2. Last(shadow).ret \in Nat \ {0}
              BY <5>2, CallersType DEF Frame
            <6> QED BY <4>2, <6>1, <6>2
          <5> QED BY <5>1, <5>2
        <4> QED BY <2>2, <3>4, <3>5, <3>6, <4>3
                DEF Abstract!Next, Abstract!Finish
      <3>7. CASE status' # "done"
        <4>1. status' = "failed" BY <2>3, <2>4, <3>7 DEF status
        <4> QED BY <2>2, <3>4, <3>5, <4>1 DEF Abstract!Next, Abstract!Fail
      <3> QED BY <3>6, <3>7
    <2>5. CASE ctl' = "advance"
      <3>1. sp' <= Abstract!CallersFrom BY <2>1 DEF Convention
      <3>2. sp' <= STACK_SIZE - 1 BY <1>4, <3>1
      <3>3. ASSUME shadow' \in Seq(Frame) PROVE CallsInv'
        BY <1>2, <1>3, <3>2, <3>3 DEF CallsInv
      <3>4. CASE Fetched("Bl")
        <4>1. Abstract!CallFrom(at) /\ shadow' \in Seq(Frame)
          BY <1>1, <1>6, <3>4, BlCalls, HandlerEnds
        <4> QED BY <3>3, <4>1 DEF Abstract!Next
      <3>5. CASE Fetched("Ret")
        <4>1. Abstract!Return /\ shadow' \in Seq(Frame)
          BY <1>1, <1>6, <2>5, <3>5, RetReturns, HandlerEnds
        <4> QED BY <3>3, <4>1 DEF Abstract!Next
      <3>6. CASE ~Fetched("Bl") /\ ~Fetched("Ret")
        <4>1. shadow' = shadow BY <1>1, <3>6, Observed
        <4>2. status' = "running" BY <2>5 DEF status
        <4>3. \A a \in DOMAIN mem : a >= Abstract!CallersFrom => mem'[a] = mem[a]
          BY <1>1, CallersKept
        <4>4. Abstract!Local
          BY <2>2, <3>1, <4>1, <4>2, <4>3 DEF Abstract!Local
        <4>5. shadow' \in Seq(Frame) BY <4>1 DEF CallsInv
        <4> QED BY <3>3, <4>4, <4>5 DEF Abstract!Next
      <3> QED BY <3>4, <3>5, <3>6
    <2> QED BY <2>4, <2>5
  <1>7. CASE AdvancePc
    <2>1. /\ ctl = "advance" /\ ctl' = "fetch" /\ UNCHANGED <<r, nzcv, mem>>
          /\ pc' = (pc + 1) % WORD
      BY <1>7 DEF AdvancePc
    <2>2. shadow' = shadow BY <1>1, <2>1, Observed DEF Fetched
    <2>3. sp' = sp /\ r'[FP] = r[FP] /\ mem' = mem BY <2>1 DEF sp
    <2>4. at' = at /\ status' = status BY <2>1 DEF at, status
    <2>5. CallsInv' BY <1>2, <1>3, <2>2, <2>3 DEF CallsInv
    <2> QED BY <2>2, <2>3, <2>4, <2>5 DEF Abstract!vars
  <1>8. CASE LoggerFault \/ BranchFault BY <1>1, <1>8 DEF LoggerFault, BranchFault
  <1>9. CASE WildFetch
    <2>1. ctl = "fetch" /\ ctl' = "wild" /\ UNCHANGED coreVars
          /\ pc \notin DOMAIN text
      BY <1>9 DEF WildFetch
    <2>2. shadow' = shadow BY <1>1, <2>1, Observed DEF Fetched
    <2>3. CallsInv' /\ UNCHANGED <<sp, r[FP], mem, shadow>> BY <1>5, <2>1, <2>2
    <2>4. at' = at BY <2>1 DEF at, coreVars
    <2>5. status = "running" /\ status' = "failed" BY <2>1 DEF status
    <2> QED BY <2>3, <2>4, <2>5 DEF Abstract!Next, Abstract!Fail
  <1>10. CASE Ended
    <2>1. ctl \in Final /\ UNCHANGED <<r, pc, nzcv, mem, ctl>>
      BY <1>10 DEF Ended
    <2>2. UNCHANGED coreVars BY <2>1 DEF coreVars
    <2>3. shadow' = shadow BY <1>1, <2>1, Observed DEF Fetched, Final
    <2>4. CallsInv' /\ UNCHANGED <<sp, r[FP], mem, shadow>> BY <1>5, <2>2, <2>3
    <2>5. at' = at /\ status' = status BY <1>1, <2>1 DEF at, status
    <2> QED BY <2>4, <2>5 DEF Abstract!vars
  <1> QED BY <1>1, <1>6, <1>7, <1>8, <1>9, <1>10 DEF Next

(* A program that keeps to the calling convention can rely on CallStack:   *)
(* its calls come back to the instruction behind them with sp and fp as    *)
(* they were, nobody writes into its frame, and the logger behind the      *)
(* stack is safe (bl.cpp, ret.cpp, stp.cpp, str.cpp, the loop of           *)
(* session.h).                                                             *)
THEOREM CallsKeepTheirPromise ==
  CallsSpec /\ ConventionKept => CallDiscipline
  <1>1. CallsInit => CallsInv /\ Abstract!Init BY CallsStart
  <1>2. CallsInv /\ [CallsNext]_callVars /\ [Convention]_callVars =>
          CallsInv' /\ [Abstract!Next]_(Abstract!vars)
    <2> SUFFICES ASSUME CallsInv, [CallsNext]_callVars, [Convention]_callVars
                 PROVE  CallsInv' /\ [Abstract!Next]_(Abstract!vars)
      OBVIOUS
    <2>1. CASE UNCHANGED callVars
      <3>1. UNCHANGED vars /\ UNCHANGED shadow BY <2>1 DEF callVars
      <3>2. TypeOK' /\ LoggerIntact'
        BY <3>1 DEF CallsInv, vars, TypeOK, CoreTypeOK, LoggerIntact
      <3>3. sp' = sp /\ at' = at /\ status' = status BY <3>1 DEF vars, sp, at, status
      <3>4. CallsInv' BY <3>1, <3>2, <3>3 DEF CallsInv
      <3> QED BY <3>1, <3>3, <3>4 DEF Abstract!vars, vars
    <2>2. CASE CallsNext /\ Convention BY <2>2, CallStep
    <2> QED BY <2>1, <2>2
  <1> QED BY <1>1, <1>2, PTL DEF CallsSpec, ConventionKept, CallDiscipline, Abstract!Spec
=============================================================================
