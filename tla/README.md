# cheeky in TLA+

cheeky loads a Mach-O file and emulates its ARM64 text on one core: one thread,
one register file, one 512 KB stack. This directory holds TLA+ modules of the
whole program - loader, process, instruction handlers, decision tree and the
script that generates it - the TLC runs that check them and TLAPS proofs about
the emulated machine, its calls, the tree and the process.

## 1. Inventory

| component | state | operations | correct when |
|---|---|---|---|
| `core::State` (`core/`) | `_r[32]`, `_pc`, `_nzcv`, `_stack`, and the logger pointer that the virtual base puts behind them | register views of 32 and 64 bits, bound-checked stack views, `advance_pc`, `update_pc`, flags | no access leaves the stack; a W view is the low half of its X register |
| handlers (`ops/src/*.cpp`) | none of their own | one `process(bits, state)` per instruction: ADD, SUB, ADDS, SUBS, CSINC, MOVZ, ORR, ADRP, B, BL, RET, TBNZ, STR, LDR, STUR, STP, LDP | flags fit their readers, pairs are atomic, addressing forms agree with each other |
| decision tree (`base_op.cpp`, generated from `patterns.txt`) | none | `handle_instruction` | the handler reached is the one the patterns name |
| tree generator (`generate_tree.py`) | groups of patterns, the output file | `PatternGroup`, `generate_decision_tree` | it ends with a tree that decides the patterns, or fails and leaves the old one |
| `session::Session` | the State, the mapped text | constructor: prepare, load, loop | instructions mean what they mean on ARM64, the program's calls return, the loop ends |
| `loader::MachObject` | descriptor, mapping, load commands | `load`, `load_instructions`, destructor | the first instruction fetched is the entry; mapping and descriptor are released |
| `core::Logger` | spdlog's registry of names, its queue | construction, output | a name is registered once, a record is printed |
| `main` | none | one Session, catch of `runtime_error`, shutdown | every failure is reported before the process exits |

**Interactions.** `main` constructs a `Session`; its constructor prepares the
State, asks the loader for the text and the entry, and runs
`while (handle_instruction(instrs[pc], state)) advance_pc();`. The tree calls a
handler, which works on the State through references. A handler answers with
`true` (go on), `false` (stop), an exception out of `get_vm_with_offset_*`, or an
assert. The only other thread is spdlog's: every
`Logger` queues its records for it, the queue is bounded, and `main` shuts it down
before it exits. Nothing is persisted; `generate_tree.py` runs before the build and
leaves the tree as source code.

**What is hard here.** A single-threaded interpreter has long sequences of
small steps that depend on each other: the target a branch stores minus one and
the increment that follows; the link register that RET consumes; the prologue
that saves it; flags written by one instruction and read by another. It has
boundaries: two widths, signed and unsigned immediates, both ends of the stack.
And it has undefined behaviour: uninitialised registers and stack, shifts by the
width, a store that passes the bound check although it ends behind the stack,
where the logger's pointer is, which makes an unrelated later instruction crash.
Around it, the loader follows sizes and offsets of the file, exceptions of three
kinds meet a catch of one, loggers share one name space with the path of the
program, and the tree looks at those bits only that its patterns have in common.
`hazards` in PROJECT.json lists these at their lines.

## 2. Modules

    Encodings <- Machine <- State <- Ops <- Session <- Calls (refines CallStack)
                                            Session <- Conform (refines Arm) <- Idioms
    Encodings <- TreeGen <- BaseOp <- Dispatch
    Loader, Logger <- Process
    Session <- SessionProofs <- MemoryProofs <- ConformProofs <- IdiomProofs
                                MemoryProofs <- CallsProofs
    Dispatch <- TreeProofs;  Process <- ProcessProofs
    Arithmetic (div and mod) <- MemoryProofs, ProcessProofs
    Asm (listings) <- MCCalls, MCMemory, MCAlu, MCDocs;  Dispatch <- MCTree;  Process <- MCProcess

**Encodings** holds what execution and decoding share: the classes of encodings,
the table `Handler` (which handler a class reaches) and words as sets of bits.
**Machine** is the emulated machine without state: scale, widths, bytes, the decoded
instruction.

**State** models `core/`. `r`, `pc`, `nzcv` are `_r`, `_pc`, `_nzcv`; `mem` is
`_stack` byte by byte *and the eight bytes behind it*, where the pointer of the
logger lies. The machine is scaled (Machine): a byte has `BYTE` values, a `uint32_t` is
four bytes, a `uint64_t` eight, and all arithmetic is modulo the width. `GetR`
and `SetR` are the two register views; `Offset` and `InRange` the conversion and
the check of `get_vm_with_offset_32/64`; `Load` and `Store` the access through
the returned reference.

**Ops** has one action per `<Op>::process`. An instruction is a record of its
decoded fields, each field as it stands in the word: sign extension, scaling and
shifting are done by the action, as in the code. `ctl` says how a handler ended:
`advance`, `stopped`, `threw`, `aborted`. Undefined shifts are a choice among
what builds give (zero, or the count masked; zero or all ones). Asserts are
compiled in: no `CMakeLists.txt` defines `NDEBUG`.

**Session** models the constructor of `Session`. `Execute` is
`handle_instruction` (with `Handler` the leaf an encoding reaches, which is not
always its own: LDUR runs `Stur::process`, CBZ runs `Tbnz::process`, B.cond and
SVC run `Ret::process`), `AdvancePc` is `advance_pc`. Both `advance_pc` and the
`update_pc` of a taken branch log through the pointer behind the stack; once a store has
replaced it each may crash: `LoggerFault` is the crash of the first, `BranchFault` that of
the second, inside the handler, when BL has set its link already. `WildFetch` is a fetch
outside the text, `Ended` the end. The
handler and `advance_pc` are two steps, so that the state between them (`pc` one
short of a branch's target) is a state of the model. The loader enters as the
constant `Programs`; `UninitRegs` and `UninitStack` are what the uninitialised
arrays may hold.

**CallStack** is the abstract specification of what a compiled program needs: a
call comes back to the instruction behind it, with its sp, its fp and the memory
above its stack pointer unchanged; the program ends when no call is pending; a
failure changes nothing. **Calls** is Session with an observing shadow of the
calls in progress and the refinement mapping: `at` is the instruction to come
(`pc + 1` between handler and `advance_pc`), `status` is read off `ctl`. Its
`Convention` is the other side of the contract, what the program owes: it keeps its
stack pointer and its stores below its callers' part of the stack, and returns with the
link, sp and fp the call left.

**Arm** is the other abstract specification: one atomic step per instruction, with
the meaning its mnemonic has in the architecture. It shares no operator with the
handlers beyond Machine: flags come from the exact result, shifts are stated bit
by bit, memory byte by byte, immediates are signed and scaled, a W result is
extended with zeros, RET keeps its register, 31 is the zero register where the
architecture says so, post-index uses the old base. `Departs(i)` lists the instructions
(with the state they run in) that the handlers do not execute that way. What one of them does
is left open, what follows it is not: the next instruction must again do to the registers
and bytes it finds what the ISA says. Ending with an error (`failed`) is told from being
killed (`died`): nothing outside `Departs` dies. **Conform** is Session with the refinement
mapping; a handler step is the abstract step, `advance_pc` a stutter. While the
pointer of the logger is overwritten the mapping shows `undefined`, and Arm promises nothing: every
call through it may do anything.

**Idioms** is Conform with two observing variables: `prev`, the instruction
executed last, and `setter`, the last one that set the flags, each with the registers it
found. Its properties relate two instructions as compilers pair them (a compare and what
selects by it, an addition and its undoing, a push and a pop, two halves and
the whole), also where `Departs` excludes one of them.

**TreeGen** is `generate_tree.py`: a line per step, then one `PatternGroup`
constructor per step, depth first as Python runs it (`pending` holds the groups
still to construct, `path` the case values that lead to one), then the output.
It ends `done`, `malformed` (the RuntimeError of a bad line), `recursion`
(RecursionError; `DEPTH` stands for Python's limit) or `noTarget` (no argument). A
pattern is its mask and its fixed bits, a tree a function from paths to switches.
**BaseOp** holds patterns.txt line by line and the tree of base_op.cpp as checked in.
**Dispatch** runs the generator, then `handle_instruction` on whatever tree the output
file holds, one switch per step.

**Loader** models `MachObject`: `OpenFile`, `MapFile`, one `ReadCommand` per round of
`load`'s loop, `LoadInstructions`, `Release` (the destructor). A file is a record of
what the loader can tell apart; `cmds` gives the load command at a position, zeros
elsewhere up to the end of the last page. `sections` are those that `nsects` counts, which
the loader copies whatever `cmdsize` says. Offsets keep their widths (`U32`, `U64`).
Each step has the ways it can fail: runtime_error, bad_alloc, assert, a read outside
the mapping. `Fault` follows the reads of one command to their last byte (`Extent`,
`SectionsEnd`): its kind, the segment or LC_MAIN, the sections of a segment; a truncated file
crashes where the code does. **Logger** models the registry, the bounded queue and spdlog's thread (the
latter external: as the code uses it). **Process** is `main` over both: it constructs the State with its logger,
loads, runs the loop, unwinds, catches, reports, shuts
down. `thrown` is the exception under way. Of the loop it takes what the process can tell:
`UpdatePc` (session.h:47, and that of a taken branch) and `AdvancePc` queue a debug record
when LOGLEVEL lets it through (`debug`) and wait while the queue is full; `Handle` is a handler that
goes on, `LoopEnds` one that does not, `Refuse` the record of an unsupported word,
`LoggerLost` the crash of Session's two faults. Nothing bounds the number of rounds.

**Asm** writes programs as listings and defines the OR table. The definitions
marked "Seeded fault" are plausible mistakes, each of
which breaks a property; no specification uses them.

## 3. Runs

| run | what it executes | what it shows |
|---|---|---|
| `calls` | branching.cpp of the tests as an unoptimising compiler emits it, for bounds 1, 2, 3 and for one the stack cannot hold; a loop; leaf and nested calls with two frame sizes; a program that runs off its text | `CallDiscipline` (Session implements CallStack), `ConventionKept`, `ReturnsBound` (exec_tests.cpp:23), `OverflowThrows`, `Terminates`, `TypeOK` |
| `memory` | every store form followed by every load form, from bases at, inside and beyond both ends of the stack; then the operands `Arm!Departs` excludes; a store over the end, then every branch | `ImplementsArm`, `PushedAtBase`, `HalvesAndWholes`, `OnlyStoresWrite`, `FaultAtomic`, `LoggerLostByOverrun` |
| `alu` | SUBS and ADDS followed by every CSET and CSINC; every shift rule with every amount; ADD then SUB; MOVZ, ADRP; B, BL, RET, TBNZ both ways and out of the text; operands at 0, both sign boundaries, both maxima, both widths | `ImplementsArm`, `CompareThenSelect`, `AddThenSelect`, `AddThenSub` |
| `tree` | the generator on every list of two and every set of three patterns over three bits, on comments and bad lines, and on patterns.txt with and without a target; then dispatch of every short word, of words of every encoding class, and of every word one bit away from a pattern | `MatchedIsHandled`, `FailsIffUnsplittable`, `FailureKeepsFile`, `SplittableIsWritten` (liveness), `BaseOpIsGenerated`, `HandlerTable`, `TypeOK` |
| `process` | 33 well-formed files (text and entry at the alignments and distances that matter, first page included), 18 malformed or truncated ones, five names of the program of which four clash with loggers (spdlog's default logger, "", among them), debug records on and off, the logging thread interleaved | `EntryIsFetched`, `GoodFileRuns`, `ReleasedAtExit`, `TerminatedByNames`, `FailureReported`, `EndsOrRuns` (liveness), `TypeOK` |
| `docDispatch` … `docAlign` | a few small inputs each | a comment, header or test of the repository says one thing and the code does another; a run that names several gets all of them wrong in the one trace it ends with (section 6) |

`ImplementsArm` is as strong as `Departs` is short. Every disjunct of `Departs`
is needed: the two runs contain, for each of them, a program and a state in which
the handlers do depart, so that leaving the disjunct out makes a run fail.
`ConventionKept` is what the theorem about calls assumes of a program: the run shows that
what a compiler emits for branching.cpp satisfies it, before the stack overflows as well.
`CompareThenSelect` to `HalvesAndWholes` are action properties: of a step that completes an
instruction, given what an earlier one found.
`HandlerTable` ties the two halves together: the table Session dispatches by is
the result of walking base_op.cpp's switches with the words themselves.

**Bounds.** `BYTE` = 4 (memory, alu) or 8 (calls): words of 8 and 16, or 12 and
24 bits. Each width still has its own sign bit and carries between bytes and
halves, which is what the handlers distinguish; the number of bits occurs in no
condition of the code except as the width itself. `STACK_SIZE` = 24 (48 in `docImmediates`, where no access may leave the stack) holds an access
of every width clear of both ends as well as across each; 160 holds three frames of the
recursion and not the number the endless program needs. `IMM7` to `IMM26`
and `PAGE` are scaled with them; `IMM12` is also the factor of `LSL #12`. Only the
registers a run's programs name exist (`Regs`). Programs are finite and straight
but for the loops named above, so every state space is complete.
In `tree`, `DEPTH` = 6 exceeds the depth any list of three patterns or patterns.txt
needs (the tree has three levels), so `recursion` is reached by unsplittable lists only; short patterns range
over three bits, enough for two patterns to be disjoint, nested, overlapping or
equal and for three to be pairwise disjoint without a common fixed bit;
`FailsIffUnsplittable` looks at every subset of the patterns and does so for lists of up to
`ExhaustiveTo`. The words of patterns.txt and base_op.cpp have all 32 bits. In `process` the page has its real
size, `U32` and `U64` are scaled (2^16, 2^28) so that the subtraction wraps; `MEMORY` = 8
elements is what a vector can allocate, `QUEUE` = 1 makes every record, those of the loop
included, wait for the one before. The rounds of the loop come back to the same states, so that no bound on
them is needed.
In `calls` the link register of main is 0, which is what an untouched page gives
and what main's RET needs to end; x0, x8, x29 and the stack take two contents each.

**Fairness.** `CallsSpec` has weak fairness of its next-state action: the loop is
the only thread's only activity and waits for nothing, so an enabled step is
taken. Termination is a property of the programs of that run, not of the
emulator: it says the emulator executes their loops and returns to the end.

`Process` has weak fairness of the program's thread and of spdlog's, each for itself:
two threads the operating system schedules; the thread waits only on a full queue and
in `spdlog::shutdown`. `LoggerLost` has no fairness, as a lost logger need not crash. `EndsOrRuns` leaves
to the emulated program what is its own: a text of `b .` keeps the loop going for ever, and
the property says that nothing else does - not the loader, not a record that waits
for the queue, not the way out. `Dispatch` has weak fairness of its only activity, a script and
then a function without waiting. The properties of `memory` and `alu`, `ImplementsArm`
included, are safety properties and assume none.

**Deadlock** is checked everywhere; an ended session or process stutters by
`Ended`, a build without a tree by `NoTree`.

## 4. Proofs

### The machine (SessionProofs, MemoryProofs)

For every program, every scale of the machine and every uninitialised content,
from the assumptions on the constants only (`ByteAssumption`, `PowerAssumption`,
`StackAssumption`, `RegsAssumption`, `OrAssumption`, `FieldAssumption`,
`ProgramsAssumption`, `UninitAssumption`, all evaluated by the runs):

* `TypeCorrect == Spec => []TypeOK` (SessionProofs). TypeOK is inductive as it
  stands. First the arithmetic (a write to the low half keeps a word a
  word, a byte of an integer is a byte, a checked access stays inside the object:
  `LoadType` uses that the eight bytes behind the stack are part of it), then
  one lemma per handler, then the case split over the loop.
* `LastStepChangesNothing == Spec => FaultAtomic` (MemoryProofs): the step with which a
  session ends has changed nothing, but for the link of a BL that crashes on a lost
  logger. Needs no invariant: each handler either goes on or leaves the State alone, also where it
  makes two accesses. It speaks of the last step: a store over the end of the stack that then crashes
  in its own `advance_pc` has stored, in the step before.
* `OnlyStoresWriteMemory == Spec => OnlyStoresWrite` (MemoryProofs): a byte changes
  only under a store that passed the bound check and covers it. `Covers` says it of
  one access, `WritingCovers` of every handler (STP in two accesses, each checked),
  `WritingStep` of every step.
* `LoggerSafe == Spec => LoggerLostByOverrun` (MemoryProofs), derived from the one
  above: if a byte behind the stack has changed, the store that covers it ends
  behind the stack.

MemoryProofs ends with the lemmas on words and their bytes that the next three sections
share: `FourBytes`, `LoadBytes`, and `LoadStored` (what was stored is loaded, at either
width).

### Calls (CallsProofs)

`CallsKeepTheirPromise == CallsSpec /\ ConventionKept => CallDiscipline`: the emulator's
half of the contract, for every program, any depth of calls and all contents of
registers and stack. `ConventionKept` is a hypothesis because no emulator can enforce
it; it speaks of the program's own registers and addresses (`Convention`), and the `calls` run shows
that the compiled programs satisfy it. What is left for the emulator to get right is what
CallStack promises: BL and RET with their targets minus one and the `advance_pc` behind
them, stores that write what they cover and nothing else, write-back of sp, and that the
session does not go on after an error.

The invariant `CallsInv` is TypeOK, the logger intact, `sp` no higher than the top of the stack,
and pending calls whose links are not zero and whose stack pointers are in the stack. That
links are not zero is why a RET with a call pending jumps (ret.cpp takes zero for the end). The logger is
part of it for the same reason as below: a crash in `advance_pc` would be a
failure after an instruction has taken effect. It is kept because the convention bounds
stores by the callers' part of the stack, whose start is never behind its end.

### The refinement of Arm (ConformProofs, Arithmetic)

`SessionImplementsArm == Spec => ImplementsArm`: for every program and every
scale, the session is an ARM64 machine but for the instructions of `Arm!Departs`.
Initial states map to initial states (`InitConforms`), and a step of the session
is a step of Arm or a stutter (`StepConforms`): a handler is the instruction,
`advance_pc` stutters, a fetch outside the text is `Outside`, an instruction that
departs is a step of Arm's whatever it did. Registers are compared
whole: a W result is the zero-extended one (`ArmSets`), which is why a W write over a high
half that is not zero is in `Departs`.

The invariant is TypeOK alone. The logger is the one thing that could break a step from outside
the instruction: a crash in `advance_pc` after the instruction has been executed, or inside a branch, would be the
death of an instruction that succeeded. While the pointer is overwritten the mapping
is `undefined`, and that state is only entered by a store that ends behind the stack, which
`Departs` lists: `NoOverrun`, from `WritingCovers` of MemoryProofs, shows of every other
instruction that it leaves the pointer alone; initially it is intact because the eight
bytes are its digits (`LoggerStored`).

The lemmas come in layers, each citing only those before it:

1. Quotient and remainder (Arithmetic: `DivModUnique`, `ModMod`, `DivDiv`,
   `ModDiv`), which two widths, bytes, bits and file offsets all come down to.
2. Registers and flags: what a write through a view leaves (`SetRGives`), the carry and
   overflow expressions of adds.cpp and subs.cpp against the exact result
   (`AddFlagsMean`, `SubFlagsMean`), `is_cond_true` against the architecture's table
   (`ConditionIs`).
3. Memory: the bytes of a word (MemoryProofs), the addresses
   of a handler against Arm's (`AccessAddress`), and the bound check: where
   `Strays` excludes the ends, one signed comparison per access is the architecture's
   `Fits`, also for the two of a pair (`OneFits`, `PairFits`).
4. Bits: `BitSplit`, `BitOnes`, `BitOfByte`, `BitOrIs`, then every shift of
   `shift_by_rule_32/64` bit by bit (`LslBits`, `LsrBits`, `RorBits`, `AsrBits`, `ShiftIs`).
5. One lemma per handler (`AddConforms` ... `LdpConforms`), then `ExecuteConforms`.

Three assumptions are there for it. `PowerAssumption` states that exponents up to the
machine's width add up, which is true of every scale: `2 ^ n` is a recursive
function, of which the provers know nothing. `OrAssumption` says bit by bit what the
table that stands for `|` gives. `Encodable`, a conjunct of `ProgramsAssumption`, says of
decoded instructions what every instruction word satisfies: the immediate of an
addition fits its field, and only the encodings that have them set `narrow` and
`mode`. TLC evaluates the three on every run of the machine; nothing restricts the
operands, the addresses or the order of instructions.

### Pairs of instructions (IdiomProofs)

What SessionImplementsArm leaves open are the instructions in `Departs`, and what one instruction
leaves for another. For every program and every scale:

* `ComparedThenSelected`, `AddedThenSelected` (`CompareThenSelect`, `AddThenSelect`): CSET and
  CSINC choose by what the condition's name says of the operands of the last SUBS or ADDS,
  however many instructions lie between. `Misread` (LS and LE) and, for the X form of
  ADDS, `ReadsV` are the conditions left out, both of them findings (section 6).
* `SubUndoesAdd` (`AddThenSub`).
* `PopFindsPush`, `WidthsAgree` (`PushedAtBase`, `HalvesAndWholes`), with
  any of the registers the same, post-indexed pairs and bases at the ends included.

The invariant `IdiomsInv` says what the observed instructions have left: the flags are those that
`setter`'s operands give (`SetterInv`, which holds until the next ADDS or SUBS because no other
handler touches them), and until the next instruction completes (`PrevInv`) the
destination of an ADD holds its sum, the bytes of a store lie at the offset it was
checked at, and a base it moved leads there. Without the last part the pop could not be shown to read where the push
wrote. `FlagsDecide` is the lemma both selections come down to: flags that
describe one result, unsigned and signed, decide each condition as Means words it; `SubsDecides` and
`AddsDecides` show that the flags describe the difference and the sum. `SameOffset`
is the one behind the mixed widths: an address of 64 bits that passes the bound check is
the same computed in 32. An ad hoc TLC run of IdiomsInv on the programs of `memory` and
`alu` found no violation.

### The generator and the tree (TreeProofs)

For every file of patterns, with or without a target, every `DEPTH`, every earlier
tree and every word, from `InputsAssumption`, `DepthAssumption`,
`OldAssumption` (the tree of an earlier run is complete: each case of a switch
is a leaf or has a switch of its own) and `NameAssumption` (no handler is called as
the model's "not yet"). The invariant is `DispatchInv`, the conjunction of

* `ReadInv`: lines and patterns are what a line can be;
* `TreeInv`: every pending group holds exactly the patterns that agree with the
  case values on its path, the switches around it are in the tree, each switch
  in the tree is the one of the patterns its path lets through, and each of its cases
  that is no leaf has a switch or a pending group;
* `FailureKeepsFile`;
* `WalkInv`: a walk stands at a switch of the file, and no pattern that the word
  matches has been ruled out on the way there; `MatchedIsHandled`.

`MatchedIsHandled` alone is not inductive: that the case a word takes does not lose
its pattern follows from what the groups above it were given.

* `DispatchTypeCorrect`: TypeOK.
* `GeneratedTreeIsFaithful`: `MatchedIsHandled`.
* `FailedRunKeepsTree`: `FailureKeepsFile`.
* `RecursesIffUnsplittable`: a run that gets past its lines ends in RecursionError if,
  and only if, some two or more of the patterns cannot be told apart by their
  common fixed bits - for every list no longer than `DEPTH`, where the runs look at lists up to
  `ExhaustiveTo`; `SmallListFailsIffUnsplittable` is the property of the run,
  `FailsIffUnsplittable`, from it. The second invariant, `SplitInv`: while the script
  runs, every unsplittable set is within one pending group; when there is none,
  a group is smaller by one for every switch above it (`Shrinks`), so that the
  limit is out of reach.

### The process (ProcessProofs)

For every set of files, every name of the program and length of the queue, from
`WidthAssumption` and `FilesAssumption` (fields of load commands within their
widths), `QueueAssumption` and `NamesAssumption` (no handler's logger has the name of
main's or of the tree's). `ProcessInv` is TypeOK with

* `HoldInv`: which of descriptor and mapping is held at each point of `main`, of the
  loader and of unwinding, and that no instruction is under way before the tree has its
  logger;
* `NamesInv`: which statements a name in the registry needs to have been passed;
* `EntryInv`: the load commands kept are commands, and the loop starts from the
  base and the pc that the last of them give.

From it:

* `ProcessTypeCorrect`: TypeOK.
* `EntryFetched`: `EntryIsFetched`. The pc is a quotient by four of a difference modulo
  2^64, counted from a base which that wrapping may put below the file; the lemmas `DivMod`
  to `FetchesEntry` are that arithmetic.
* `ReleasedWhenExited`: `ReleasedAtExit`.
* `TerminatesByNamesOnly`: `TerminatedByNames`.

Two more invariants on top of it:

* `FailuresAreReported`: `FailureReported`, from `ReportInv`: when the process has exited the
  queue is empty, and from `shutdown` on the last record, printed or
  queued, is that of the exception caught. The logging thread may run at any moment; printing
  keeps the last record the last (`PrintKeepsLast`).
* `GoodFilesRun`: `GoodFileRuns`, from `GoodInv`: for a file `WellFormed` describes, with every
  command, and every section of a segment, whole within the file, under a name that clashes
  with no logger, the loop of `load` is in step with the file's commands (`WholeInv`: as many read as lie before the
  cursor, those of the supported kinds, and no others, kept in their order), so that no read leaves the mapping
  (`NoFault`), text and entry are found and nothing is thrown or dies before the first instruction.

### What stays with TLC

Liveness (`Terminates`, `SplittableIsWritten`, `EndsOrRuns`) is out of the
prover's reach. `ReturnsBound` and `OverflowThrows` say what the programs of their run compute, and
`ConventionKept` how they were compiled: properties of listings, which TLC executes. `HandlerTable` and
`BaseOpIsGenerated` evaluate two fixed files. In the process, that an *ill-formed* file fails
in the way its flaw calls for is seen in the run only; the theorems say what no file can bring about.

## 5. Not modelled

Not modelled: the text of log records and of the generated file; Mach and mmap beyond success and
failure; `prefetch_instructions` and `Ldur::process` (nothing calls them); `core/util.h`
(compile-time only); the tests and the build themselves; a build with LOGLEVEL=OFF, which has no
loggers; two sessions in one process, as the tests make them. What lies
behind the text in the mapping is not known to Session, so a fetch outside is an end.
A read behind the mapping is taken to crash, though it may hit another mapping. An
empty file, whose mapping fails unnoticed (mach_object.cpp:28), is a step that crashes and no more: no property
excludes it. The generator writes its file in one step, so an I/O error or an interruption between
open and close (generate_tree.py:66-74) is not covered by `FailureKeepsFile`.

Two things could be added. Session over the words of a mapped file, Dispatch and Session
composed: today they meet in the table `Handler`, which `HandlerTable` checks. And the
calling convention derived from the shape of prologues and epilogues,
which would turn `ConventionKept` from a hypothesis about executions into one about listings.

## 6. Where code and documents differ

Each has a run that ends in a counterexample:

* `docDispatch`: words with no handler run as another instruction: LDUR as STUR, CSEL as
  CSINC, B.cond, SVC and NOP as RET.
* `docConditions`: any negative operand sets the 64-bit V flag of ADDS; conditions LS and LE
  are conjunctions.
* `docIndexed`: post-indexed STR and LDR end the session; pre-indexed 64-bit STR does not write back.
* `docImmediates`: the shifted immediate of SUBS, the sign of pair offsets, the pages of
  ADRP, MOVZ by 32 and 48.
* `docRegisters`: a W write leaves the high half of its register stale; RET clears the
  register it returns by. The documents (README.md:5-6) promise ARM64 operations and state.
* `docEdge`: stores across the end of the stack.
* `docAlign`: the text pointer the loader returns is not aligned.

`Arm!Departs` is the complete list for the instructions, and no disjunct of it is idle (section 3).
Beside the above:

* a W form of ADD, ADDS, SUB, SUBS, CSINC, MOVZ or ORR over a high half that is not zero; W
  loads into such a register, 32-bit write-backs of such a base and W accesses through it, which take
  the low half of their base;
* a RET that is taken;
* ORR of a W register by 32 to 63, which dies in an assert (base_op.h:105), and ASR by all
  bits but one (undefined shift);
* CSINC with condition NV; a post-indexed pair, which uses the base plus the immediate;
* imm14 of TBNZ and imm9 of indexed STR and LDR, which are not sign-extended;
* register 31, which is sp where it should be the zero register (as a destination, as
  the second operand of ORR, in TBNZ and as the target of a load);
* accesses that start within the stack, or at its end, and reach over it;
* pairs and write-backs that name one register twice, which the architecture excludes too.

The tree's generator writes a `static const` logger that would not compile;
base_op.cpp:7 has dropped the `const`.
