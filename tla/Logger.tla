------------------------------- MODULE Logger -------------------------------
(***************************************************************************)
(* core/logger.h over spdlog: every Logger registers its name, for the     *)
(* rest of the process, and hands its records to one queue that a thread   *)
(* of spdlog prints.  A name that is registered already is an spdlog_ex,   *)
(* which is no runtime_error.                                              *)
(***************************************************************************)
EXTENDS Naturals, Sequences

CONSTANTS
  StaticNames,  \* loggers made before main: REGISTER_OPERATION's, spdlog's own
  QUEUE         \* records the queue holds: 8192 in spdlog

ASSUME QueueAssumption == QUEUE \in Nat \ {0}

\* No operation has the name of a logger made elsewhere.
ASSUME NamesAssumption == StaticNames \cap {"DecisionTree", "cheeky::main"} = {}

VARIABLES
  names,    \* spdlog's registry
  queue,    \* records not printed yet
  printed   \* the record printed last

logVars == <<names, queue, printed>>

LoggerInit ==
  /\ names = StaticNames
  /\ queue = <<>>
  /\ printed = "none"

Clash(name) == name \in names

Register(name) ==
  /\ ~Clash(name)
  /\ names' = names \cup {name}
  /\ UNCHANGED <<queue, printed>>

\* The caller waits while the queue is full.
Enqueue(record) ==
  /\ Len(queue) < QUEUE
  /\ queue' = Append(queue, record)
  /\ UNCHANGED <<names, printed>>

\* spdlog's thread.
PrintNext ==
  /\ queue # <<>>
  /\ printed' = Head(queue)
  /\ queue' = Tail(queue)
  /\ UNCHANGED names

\* spdlog::shutdown returns once its thread has printed what was queued.
Drained == queue = <<>>
=============================================================================
