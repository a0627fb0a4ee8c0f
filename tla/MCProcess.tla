----------------------------- MODULE MCProcess -----------------------------
(***************************************************************************)
(* The emulator started on well-formed files with the text and the entry   *)
(* at every alignment that matters, on files malformed in each of the ways *)
(* the loader meets, and under names that its own loggers use.             *)
(***************************************************************************)
EXTENDS Process, FiniteSets

Sect(text, offset) == [text |-> text, offset |-> offset]
Segment(text, sections) ==
  [cmd |-> "segment", cmdsize |-> SEGMENT + SECTION * Len(sections),
   sections |-> sections, text |-> text, entryoff |-> 0]
Entry(off) ==
  [Zeros EXCEPT !.cmd = "main", !.cmdsize = ENTRY, !.entryoff = off]
Other(size) == [Zeros EXCEPT !.cmdsize = size]

\* The commands one after the other behind the header.
StartOf(list, k) ==
  FoldSet(LAMBDA j, sum : sum + list[j].cmdsize, HEADER, 1 .. k - 1)
Image(list, len) ==
  [ opens |-> TRUE, stats |-> TRUE, maps |-> TRUE, len |-> len, ncmds |-> Len(list),
    cmds |-> [p \in {StartOf(list, k) : k \in DOMAIN list} |->
                list[CHOOSE k \in DOMAIN list : StartOf(list, k) = p]] ]

Text(off) == Segment(TRUE, <<Sect(FALSE, 0), Sect(TRUE, off), Sect(TRUE, off + 64)>>)
PageZero == Segment(FALSE, <<>>)
Data == Segment(FALSE, <<Sect(FALSE, 8192), Sect(TRUE, 8192)>>)
Length == 5 * PAGE

Offsets == {1024, 2044, 2048, 2052, 3952, 4096, 4100, 16240}
GoodFiles ==
  {Image(<<PageZero, Text(off), Other(56), Entry(entry), Data>>, Length) :
     off \in Offsets, entry \in {1024, 4096, 16240, 16248}}
  \cup {Image(<<Entry(16248), Text(16240)>>, Length)}

\* A file of one mapping, whose last command starts so far before its end.
Ending(command, before) ==
  Image(<<Text(16240), Other(Length - before - HEADER - Text(16240).cmdsize), command>>,
        Length)

Good == Image(<<Text(16240), Entry(16248)>>, Length)
BadFiles ==
  { [Good EXCEPT !.opens = FALSE], [Good EXCEPT !.stats = FALSE],
    [Good EXCEPT !.maps = FALSE, !.len = 0],            \* empty, or a directory
    [Good EXCEPT !.ncmds = MEMORY + 1],
    [Good EXCEPT !.ncmds = 4],                          \* reads on into zeros
    Image(<<>>, 16),                                    \* shorter than a header
    Image(<<Other(0), Text(16240), Entry(16248)>>, Length),
    Image(<<Text(16240)>>, Length), Image(<<Entry(16240)>>, Length),
    Image(<<Text(16240), Entry(3 * Length)>>, Length),  \* entry behind the file
    Image(<<Text(1026), Entry(1026)>>, Length),
    Image(<<Other(2 * Length), Text(16240)>>, Length),  \* command behind the file
    Ending(Entry(16248), ENTRY - 4), Ending(PageZero, SEGMENT - 4),
    Ending(Data, SEGMENT + SECTION), Ending(Other(56), 4),
    Image(<<[Text(16240) EXCEPT !.cmdsize = @ + SECTION], Entry(16248)>>, Length),
    Image(<<Segment(TRUE, [s \in 1 .. MEMORY + 1 |-> Sect(TRUE, 16240)]),
            Entry(16248)>>, Length) }

ASSUME GoodAndBadFiles ==
  /\ \A f \in GoodFiles : WellFormed(f)
  /\ \A f \in BadFiles : ~WellFormed(f)

MCFiles == GoodFiles \cup BadFiles
MCNames == {"", "AddImm", "Ret"}
MCPaths == {"a.out", "", "AddImm", "DecisionTree", "cheeky::main"}

OneFile == {Good}
OnePath == {"a.out"}

-----------------------------------------------------------------------------
(* Properties.                                                             *)

(* mach_object.cpp:55, 72: the instructions pointer is aligned to 4 KB, as *)
(* PC-relative calculations need it.                                       *)
BaseIsAligned == at = "loop" => base % PAGE = 0
=============================================================================
