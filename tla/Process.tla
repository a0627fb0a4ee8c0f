------------------------------ MODULE Process ------------------------------
(***************************************************************************)
(* main.cpp: one Session on the given path, built from the State with its  *)
(* logger, the loader and the loop; the catch of runtime_error; the end.   *)
(*                                                                         *)
(* The loop is the one of Session, of which only what the process can tell *)
(* is taken: each handler goes on, by itself or through update_pc, or ends *)
(* the loop in one of its ways.  Nothing bounds the number of rounds.      *)
(***************************************************************************)
EXTENDS Loader, Logger

CONSTANT Paths   \* arguments: they are also the names of loggers

VARIABLES
  args,        \* argc
  path,        \* argv[1]
  debug,       \* LOGLEVEL lets debug records through
  treeLogger   \* the static logger of handle_instruction is constructed

procVars == <<args, path, debug, treeLogger>>
vars == <<file, at, thrown, loaderVars, logVars, procVars>>

Init ==
  /\ LoaderInit
  /\ LoggerInit
  /\ at = "main"
  /\ args \in {1, 2}
  /\ path \in Paths
  /\ debug \in BOOLEAN
  /\ treeLogger = FALSE

Main ==
  /\ at = "main"
  /\ at' = IF args = 2 THEN "state" ELSE "aborted"
  /\ UNCHANGED <<file, thrown, loaderVars, logVars, procVars>>

\* State(filepath): BaseLogger registers the path.
MakeState ==
  /\ at = "state"
  /\ \/ Clash(path) /\ at' = "terminated" /\ UNCHANGED logVars
     \/ Register(path) /\ at' = "open"
  /\ UNCHANGED <<file, thrown, loaderVars, procVars>>

LoadFile == Load /\ UNCHANGED <<logVars, procVars>>

\* A debug record, which waits for room in the queue.
LogDebug == IF debug THEN Enqueue("debug") ELSE UNCHANGED logVars

(* update_pc with the loader's offset, or of a branch: advance_pc follows. *)
UpdatePc ==
  /\ \/ at = "update" /\ at' = "loop"
     \/ at = "branch" /\ at' = "advance"
  /\ LogDebug
  /\ UNCHANGED <<file, thrown, loaderVars, procVars>>

\* Seeded fault: the logger is not static.
HandleEachWithLogger ==
  /\ at = "loop"
  /\ \/ Clash("DecisionTree") /\ at' = "terminated" /\ UNCHANGED <<logVars, treeLogger>>
     \/ /\ Register("DecisionTree")
        /\ treeLogger' = TRUE
        /\ UNCHANGED at
  /\ UNCHANGED <<file, thrown, loaderVars, args, path, debug>>

(* instrs[pc] is read before the first handle_instruction constructs its   *)
(* static logger.                                                          *)
FirstHandle ==
  /\ at = "loop" /\ ~treeLogger
  /\ \/ ~Mapped(FetchedAt) /\ at' = "crashed" /\ UNCHANGED <<logVars, treeLogger>>
     \/ /\ Mapped(FetchedAt) /\ Clash("DecisionTree")
        /\ at' = "terminated" /\ UNCHANGED <<logVars, treeLogger>>
     \/ /\ Mapped(FetchedAt) /\ Register("DecisionTree")
        /\ treeLogger' = TRUE
        /\ UNCHANGED at
  /\ UNCHANGED <<file, thrown, loaderVars, args, path, debug>>

\* An instruction that advances, or is a taken branch.
Handle ==
  /\ at = "loop" /\ treeLogger
  /\ at' \in {"advance", "branch"}
  /\ UNCHANGED <<file, thrown, loaderVars, logVars, procVars>>

AdvancePc ==
  /\ at = "advance"
  /\ LogDebug
  /\ at' = "loop"
  /\ UNCHANGED <<file, thrown, loaderVars, procVars>>

(* The program ends, is not supported, leaves the stack, meets the assert  *)
(* of a shift or fetches from behind the mapping.                          *)
LoopEnds ==
  /\ at = "loop" /\ treeLogger
  /\ \/ at' \in {"release", "refuse", "aborted", "crashed"} /\ UNCHANGED thrown
     \/ ThrowRuntimeError("stack overflow", "release")
  /\ UNCHANGED <<file, loaderVars, logVars, procVars>>

\* What is not supported is reported by its handler, or by the tree.
Refuse ==
  /\ at = "refuse"
  /\ Enqueue("error")
  /\ at' = "release"
  /\ UNCHANGED <<file, thrown, loaderVars, procVars>>

\* The program has written over the pointer of State's logger.
LoggerLost ==
  /\ at \in {"branch", "advance"}
  /\ at' = "crashed"
  /\ UNCHANGED <<file, thrown, loaderVars, logVars, procVars>>

LeaveSession == Release /\ UNCHANGED <<logVars, procVars>>

\* The handler constructs a logger of its own, which may throw in its turn.
Catch ==
  /\ at = "catch"
  /\ \/ Clash("cheeky::main") /\ at' = "terminated" /\ UNCHANGED logVars
     \/ Register("cheeky::main") /\ at' = "report"
  /\ UNCHANGED <<file, thrown, loaderVars, procVars>>

Report ==
  /\ at = "report"
  /\ Enqueue("caught")
  /\ at' = "shutdown"
  /\ UNCHANGED <<file, thrown, loaderVars, procVars>>

\* Seeded fault: the process exits without spdlog::shutdown.
ExitAtOnce ==
  /\ at = "shutdown"
  /\ at' = "exited"
  /\ UNCHANGED <<file, thrown, loaderVars, logVars, procVars>>

ShutDown ==
  /\ at = "shutdown"
  /\ Drained
  /\ at' = "exited"
  /\ UNCHANGED <<file, thrown, loaderVars, logVars, procVars>>

Thread == Main \/ MakeState \/ LoadFile \/ UpdatePc \/ FirstHandle \/ Handle
          \/ AdvancePc \/ LoopEnds \/ Refuse \/ LeaveSession \/ Catch
          \/ Report \/ ShutDown

\* The logging thread lives and dies with the process.
Printer ==
  /\ at \notin Dead \cup {"exited"}
  /\ PrintNext
  /\ UNCHANGED <<file, at, thrown, loaderVars, procVars>>

Ended == at \in Dead \cup {"exited"} /\ UNCHANGED vars

Next == Thread \/ LoggerLost \/ Printer \/ Ended

(* Both threads are scheduled; a lost logger need not crash.               *)
Spec == Init /\ [][Next]_vars /\ WF_vars(Thread) /\ WF_vars(Printer)

-----------------------------------------------------------------------------
(* Properties.                                                             *)

\* From update_pc to the last instruction.
Running == {"update", "loop", "advance", "branch", "refuse"}
Statements == {"main", "state", "open", "map", "commands", "instructions"}
              \cup Running \cup {"release", "catch", "report", "shutdown", "exited"}

(* The thread is at one of main's statements, resources in one of their    *)
(* states, sizes and offsets within their widths.                          *)
TypeOK ==
  /\ at \in Statements \cup Dead
  /\ fd \in {"none", "open", "closed"}
  /\ mapping \in {"none", "mapped", "unmapped"}
  /\ read \in 0 .. file.ncmds /\ cursor \in Nat
  /\ base \in 0 .. U32 - 1 /\ pcOff \in 0 .. U64 \div 4
  /\ Len(queue) <= QUEUE

(* The first instruction executed is the one at the entry of LC_MAIN,      *)
(* whatever the alignment of the text and wherever the base has wrapped to *)
(* (mach_object.cpp:73-75, 89; session.h:47-48).                           *)
EntryIsFetched ==
  at = "loop" =>
    LET entryoff == commands[Max(Entries)].entryoff
    IN entryoff % 4 = 0 /\ TextOffset % 2 = 0 => FetchedAt = entryoff

(* A process that exits has given back the mapping and the descriptor on   *)
(* every path (mach_object.cpp:118-123, 38-52); all but one: an fstat that *)
(* fails leaves the descriptor open (mach_object.cpp:14-16).               *)
ReleasedAtExit ==
  at = "exited" =>
    /\ mapping # "mapped"
    /\ fd = "open" => ~file.stats

(* std::terminate is reached by a clash of names or for want of memory     *)
(* only: the path of the program decides, as State, the tree and main's    *)
(* handler register names of their own (state.h:24, base_op.cpp:7,         *)
(* main.cpp:20) and main catches runtime_error alone.                      *)
TerminatedByNames ==
  at = "terminated" =>
    \/ path \in StaticNames
    \/ path = "DecisionTree" /\ mapping = "mapped"
    \/ path = "cheeky::main" /\ thrown # "none"
    \/ file.ncmds > MEMORY
    \/ \E p \in DOMAIN file.cmds : Len(file.cmds[p].sections) > MEMORY

(* Once an exception is under way the process does not die of it, and      *)
(* when it exits the exception's record is the last one printed: shutting  *)
(* down waits for the logging thread (main.cpp:18-25).  With EndsOrRuns,   *)
(* every failure is reported.  A path named like main's logger is the      *)
(* exception.                                                              *)
FailureReported ==
  thrown # "none" /\ path # "cheeky::main" =>
    /\ at \notin Dead
    /\ at = "exited" => printed = "caught"

\* The load commands that the loader keeps, of those at some positions.
Keeps(f, positions) == {p \in positions : f.cmds[p].cmd \in Supported}

(* A file as the linker writes it: the commands lie one behind the other,  *)
(* as many as the header says, each in the file to its last byte, segments *)
(* with all their sections; there is a text and an entry within the file.  *)
WellFormed(f) ==
  LET D == DOMAIN f.cmds
  IN /\ f.opens /\ f.stats /\ f.maps
     /\ f.ncmds = Cardinality(D) /\ f.ncmds <= MEMORY
     /\ HEADER \in D
     /\ \A p \in D :
          LET c == f.cmds[p]
          IN /\ HEADER <= p /\ p + c.cmdsize <= f.len
             /\ c.cmdsize >= Extent(c)
             /\ \A q \in D : q > p => q >= p + c.cmdsize /\ p + c.cmdsize \in D
             /\ c.cmd = "segment" => /\ Len(c.sections) <= MEMORY
                                     /\ c.cmdsize = SectionsEnd(c)
             /\ \A s \in DOMAIN c.sections :
                  c.sections[s].text => c.sections[s].offset % 2 = 0
             /\ c.cmd = "main" => c.entryoff % 4 = 0 /\ c.entryoff < f.len
     /\ \E p \in D : f.cmds[p].cmd = "main"
     /\ \E p \in D : /\ f.cmds[p].cmd = "segment" /\ f.cmds[p].text
                     /\ \E s \in DOMAIN f.cmds[p].sections : f.cmds[p].sections[s].text

(* A well-formed file is loaded whole: every supported command is kept, in *)
(* the file's order, nothing else is, and the process dies or fails only   *)
(* by what the program does, unless its name is that of a logger           *)
(* (mach_object.cpp:25-53, 61-116; session.h:47-48).                       *)
GoodFileRuns ==
  /\ WellFormed(file) /\ args = 2
  /\ path \notin StaticNames \cup {"DecisionTree", "cheeky::main"}
  => /\ at = "loop" =>
          LET kept == Keeps(file, DOMAIN file.cmds)
          IN /\ Len(commands) = Cardinality(kept)
             /\ \A k \in DOMAIN commands : \E p \in kept :
                  /\ commands[k] = file.cmds[p]
                  /\ k = Cardinality({q \in kept : q <= p})
     /\ at \in Dead => treeLogger
     /\ thrown \in {"none", "stack overflow"}

(* The process ends, by itself or by dying, or the program it runs does    *)
(* not: with every file, also one whose commands have size zero, and with  *)
(* a queue that fills up at every record.  Neither the loader nor the      *)
(* logger nor the way out keeps it for ever (session.h:41-50,              *)
(* mach_object.cpp:39-50, main.cpp:14-25).                                 *)
EndsOrRuns ==
  \/ <>(at \in Dead \cup {"exited"})
  \/ []<>(at = "loop") /\ []<>(at = "advance")
=============================================================================
