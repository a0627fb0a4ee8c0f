------------------------------- MODULE Loader -------------------------------
(***************************************************************************)
(* loader/: MachObject::load maps the file and walks its load commands,    *)
(* load_instructions finds the text and the entry, the destructor gives    *)
(* mapping and descriptor back.                                            *)
(*                                                                         *)
(* A file is what the loader can tell apart: whether it can be opened,     *)
(* examined and mapped, its length, and the load command at each position  *)
(* that holds one; the rest of its bytes, up to the end of the last page,  *)
(* are zeros.  Positions and sizes are in bytes.                           *)
(***************************************************************************)
EXTENDS Integers, Sequences, FiniteSetsExt

CONSTANTS
  PAGE,    \* 4096
  U32,     \* number of uint32_t values
  U64,     \* number of uint64_t and pointer values
  MEMORY,  \* elements a vector can allocate before std::bad_alloc
  Files    \* files the emulator may be given

ASSUME WidthAssumption ==
  /\ {PAGE, U32, U64, MEMORY} \subseteq Nat \ {0}
  /\ PAGE % 4 = 0 /\ U32 % PAGE = 0 /\ U64 % U32 = 0

CommandType ==
  [ cmd : {"segment", "main", "other"}, cmdsize : 0 .. U32 - 1,
    sections : Seq([text : BOOLEAN, offset : 0 .. U32 - 1]),
    text : BOOLEAN, entryoff : 0 .. U64 - 1 ]

(* A segment has as many sections as its nsects says: what follows it in   *)
(* the file is taken for them, whatever it is and however far it reaches.  *)
(* mmap refuses a length of zero.                                          *)
ASSUME FilesAssumption ==
  \A f \in Files :
    /\ f.opens \in BOOLEAN /\ f.stats \in BOOLEAN /\ f.maps \in BOOLEAN
    /\ f.len \in Nat /\ f.ncmds \in 0 .. U32 - 1
    /\ f.maps => f.len > 0
    /\ DOMAIN f.cmds \subseteq Nat
    /\ \A p \in DOMAIN f.cmds : f.cmds[p] \in CommandType

HEADER == 32    \* sizeof(mach_header_64)
SEGMENT == 72   \* sizeof(segment_command_64)
SECTION == 80   \* sizeof(section_64)
ENTRY == 24     \* sizeof(entry_point_command)
KIND == 8       \* sizeof(load_command): cmd and cmdsize

VARIABLES
  file,      \* what the path leads to
  at,        \* the statement the thread has reached, or how the process ended
  thrown,    \* the runtime_error under way, "none" if there is none
  fd,        \* "none", "open" or "closed"
  mapping,   \* "none", "mapped" or "unmapped"
  read,      \* load commands read: the loop's i
  cursor,    \* data: where the next one is
  commands,  \* _load_commands
  base,      \* instrs, as an offset from the mapping
  pcOff      \* the initial pc

loaderVars == <<fd, mapping, read, cursor, commands, base, pcOff>>

Dead == {"aborted", "crashed", "terminated"}

LoaderInit ==
  /\ file \in Files
  /\ thrown = "none"
  /\ fd = "none" /\ mapping = "none"
  /\ read = 0 /\ cursor = HEADER /\ commands = <<>>
  /\ base = 0 /\ pcOff = 0

ThrowRuntimeError(what, next) ==
  /\ thrown' = what
  /\ at' = next

Die(how) == at' = how /\ UNCHANGED <<thrown, loaderVars>>

-----------------------------------------------------------------------------
(* get_fd_with_size: a failed open shows as the failed fstat of -1; a      *)
(* failed fstat of an open file leaves it open.                            *)
OpenFile ==
  /\ at = "open"
  /\ fd' = IF file.opens THEN "open" ELSE "none"
  /\ \/ /\ file.opens /\ file.stats
        /\ at' = "map"
        /\ UNCHANGED thrown
     \/ /\ ~(file.opens /\ file.stats)
        /\ ThrowRuntimeError("cannot get_fd_with_size", "catch")
  /\ UNCHANGED <<file, mapping, read, cursor, commands, base, pcOff>>

(* The result of mmap is used as it is: of an empty file or a directory it *)
(* is MAP_FAILED, and the header is read from there.                       *)
MapFile ==
  /\ at = "map"
  /\ \/ ~file.maps /\ Die("crashed")
     \/ file.maps /\ file.ncmds > MEMORY /\ Die("terminated")
     \/ /\ file.maps /\ file.ncmds <= MEMORY
        /\ mapping' = "mapped"
        /\ at' = "commands"
        /\ UNCHANGED <<thrown, fd, read, cursor, commands, base, pcOff>>
  /\ UNCHANGED file

Mapped(p) == p < ((file.len + PAGE - 1) \div PAGE) * PAGE

Zeros == [cmd |-> "other", cmdsize |-> 0, sections |-> <<>>,
          text |-> FALSE, entryoff |-> 0]
CommandAt(p) == IF p \in DOMAIN file.cmds THEN file.cmds[p] ELSE Zeros

Supported == {"segment", "main"}

(* What is read of a command: two words to tell it by, and more of those   *)
(* that are kept; a segment first, its sections once there is room.        *)
Extent(c) == CASE c.cmd = "segment" -> SEGMENT
               [] c.cmd = "main" -> ENTRY
               [] OTHER -> KIND

SectionsEnd(c) == SEGMENT + Len(c.sections) * SECTION

AddKept(list, c) == IF c.cmd \in Supported THEN Append(list, c) ELSE list

(* load_lc_from_address_unknown_type: how the command c at p ends, if it   *)
(* does not end well.  Memory behind the mapping cannot be read; the       *)
(* vector is resized before the sizes are compared.                        *)
Fault(c, p) ==
  IF ~Mapped(p + Extent(c) - 1) THEN "crashed"
  ELSE IF c.cmd # "segment" THEN "none"
  ELSE IF Len(c.sections) > MEMORY THEN "terminated"
  ELSE IF SectionsEnd(c) # c.cmdsize THEN "aborted"
  ELSE IF ~Mapped(p + SectionsEnd(c) - 1) THEN "crashed"
  ELSE "none"

\* Seeded fault: only the commands that are kept are stepped over.
ReadCommandStuck ==
  /\ at = "commands" /\ read < file.ncmds
  /\ LET c == CommandAt(cursor)
     IN \/ Fault(c, cursor) # "none" /\ Die(Fault(c, cursor))
        \/ /\ Fault(c, cursor) = "none"
           /\ read' = read + 1
           /\ cursor' = IF c.cmd \in Supported THEN cursor + c.cmdsize ELSE cursor
           /\ commands' = AddKept(commands, c)
           /\ UNCHANGED <<at, thrown, fd, mapping, base, pcOff>>
  /\ UNCHANGED file

\* Seeded fault: a command of an unknown kind is not counted.
ReadCommandUncounted ==
  /\ at = "commands" /\ read < file.ncmds
  /\ LET c == CommandAt(cursor)
     IN \/ Fault(c, cursor) # "none" /\ Die(Fault(c, cursor))
        \/ /\ Fault(c, cursor) = "none"
           /\ read' = IF c.cmd \in Supported THEN read + 1 ELSE read
           /\ cursor' = cursor + c.cmdsize
           /\ commands' = AddKept(commands, c)
           /\ UNCHANGED <<at, thrown, fd, mapping, base, pcOff>>
  /\ UNCHANGED file

\* One round of load's loop.
ReadCommand ==
  /\ at = "commands" /\ read < file.ncmds
  /\ LET c == CommandAt(cursor)
     IN \/ Fault(c, cursor) # "none" /\ Die(Fault(c, cursor))
        \/ /\ Fault(c, cursor) = "none"
           /\ read' = read + 1
           /\ cursor' = cursor + c.cmdsize
           /\ commands' = AddKept(commands, c)
           /\ UNCHANGED <<at, thrown, fd, mapping, base, pcOff>>
  /\ UNCHANGED file

CommandsRead ==
  /\ at = "commands" /\ read = file.ncmds
  /\ at' = "instructions"
  /\ UNCHANGED <<file, thrown, loaderVars>>

-----------------------------------------------------------------------------
(* load_instructions.  text says that a name begins with __TEXT or __text: *)
(* the last such segment counts, and in it the first such section.         *)

TextSegments ==
  {k \in DOMAIN commands :
     /\ commands[k].cmd = "segment" /\ commands[k].text
     /\ \E s \in DOMAIN commands[k].sections : commands[k].sections[s].text}

TextOffset ==
  LET sections == commands[Max(TextSegments)].sections
  IN sections[Min({s \in DOMAIN sections : sections[s].text})].offset

Entries == {k \in DOMAIN commands : commands[k].cmd = "main"}

\* Seeded fault: the subtraction does not wrap.
BaseUnwrapped(offset) == offset - (PAGE - (offset % PAGE))

\* uint32_t: an offset in the first half page wraps around.
Base(offset) == (offset - (PAGE - (offset % PAGE))) % U32

\* Seeded fault: the entry counts from the section, not from the base.
PcOffOfSection(entryoff, from) == ((entryoff - TextOffset) % U64) \div 4

PcOff(entryoff, from) == ((entryoff - from) % U64) \div 4

LoadInstructions ==
  /\ at = "instructions"
  /\ \/ /\ TextSegments = {}
        /\ ThrowRuntimeError("cannot find text segment, fatal error", "release")
        /\ UNCHANGED <<base, pcOff>>
     \/ /\ TextSegments # {}
        /\ base' = Base(TextOffset)
        /\ \/ /\ Entries = {}
              /\ ThrowRuntimeError("no entry point load command found", "release")
              /\ UNCHANGED pcOff
           \/ /\ Entries # {}
              /\ pcOff' = PcOff(commands[Max(Entries)].entryoff, base')
              /\ at' = "update"
              /\ UNCHANGED thrown
  /\ UNCHANGED <<file, fd, mapping, read, cursor, commands>>

\* Where instrs[pc] is read: pointers count instructions of four bytes.
FetchedAt == (4 * (base \div 4) + 4 * pcOff) % U64

-----------------------------------------------------------------------------
\* Seeded fault: nothing is given back when an exception passes.
ReleaseUnlessThrown ==
  /\ at = "release"
  /\ IF thrown = "none" THEN mapping' = "unmapped" /\ fd' = "closed"
                        ELSE UNCHANGED <<mapping, fd>>
  /\ at' = IF thrown = "none" THEN "shutdown" ELSE "catch"
  /\ UNCHANGED <<file, thrown, read, cursor, commands, base, pcOff>>

(* ~MachObject, at the end of Session's constructor or while an exception  *)
(* leaves it.                                                              *)
Release ==
  /\ at = "release"
  /\ mapping' = "unmapped"
  /\ fd' = "closed"
  /\ at' = IF thrown = "none" THEN "shutdown" ELSE "catch"
  /\ UNCHANGED <<file, thrown, read, cursor, commands, base, pcOff>>

Load == OpenFile \/ MapFile \/ ReadCommand \/ CommandsRead \/ LoadInstructions
=============================================================================
