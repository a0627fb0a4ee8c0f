----------------------------- MODULE CallStack -----------------------------
(***************************************************************************)
(* What the emulator promises a compiled program about its calls: a call   *)
(* comes back to the instruction behind it with the stack and the frame    *)
(* pointer it had, and in between nobody has touched the memory above its  *)
(* stack pointer.  A failure leaves everything as it was.                  *)
(***************************************************************************)
EXTENDS Integers, Sequences, SequencesExt

CONSTANT StackTop   \* the stack pointer the program starts with

VARIABLES
  at,      \* the instruction to run next
  sp, fp,  \* stack and frame pointer
  memory,  \* a function from addresses
  frames,  \* the calls that have not returned: [ret, sp, fp], oldest first
  status   \* "running", "done" or "failed"

vars == <<at, sp, fp, memory, frames, status>>

\* The lowest address that belongs to a caller.
CallersFrom == IF frames = <<>> THEN StackTop ELSE Last(frames).sp

Init ==
  /\ sp = StackTop
  /\ frames = <<>>
  /\ status = "running"

\* Anything the running function does within its own frame.
Local ==
  /\ status = "running"
  /\ sp' <= CallersFrom
  /\ \A a \in DOMAIN memory : a >= CallersFrom => memory'[a] = memory[a]
  /\ UNCHANGED <<frames, status>>

CallFrom(here) ==
  /\ status = "running"
  /\ frames' = Append(frames, [ret |-> here + 1, sp |-> sp, fp |-> fp])
  /\ UNCHANGED <<sp, fp, memory, status>>

Return ==
  /\ status = "running"
  /\ frames # <<>>
  /\ Last(frames).sp = sp /\ Last(frames).fp = fp
  /\ at' = Last(frames).ret
  /\ frames' = Front(frames)
  /\ UNCHANGED <<sp, fp, memory, status>>

\* The program ends where it began: no call is left to return from.
Finish ==
  /\ status = "running"
  /\ frames = <<>> /\ sp = StackTop
  /\ status' = "done"
  /\ UNCHANGED <<at, sp, fp, memory, frames>>

Fail ==
  /\ status = "running"
  /\ status' = "failed"
  /\ UNCHANGED <<at, sp, fp, memory, frames>>

Next == Local \/ CallFrom(at) \/ Return \/ Finish \/ Fail

Spec == Init /\ [][Next]_vars
=============================================================================
