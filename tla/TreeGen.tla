------------------------------ MODULE TreeGen ------------------------------
(***************************************************************************)
(* generate_tree.py: reads patterns.txt, groups the patterns by the bits   *)
(* they all fix until each is alone, and writes the nested switch          *)
(* statements of base_op.cpp.                                              *)
(*                                                                         *)
(* A pattern fixes the bits of its mask to those of fb.  A tree is a       *)
(* function from paths (the case values from the outermost switch inwards) *)
(* to switches.                                                            *)
(***************************************************************************)
EXTENDS Encodings, Sequences, FiniteSets, TLC

CONSTANTS
  Inputs,  \* what a run of the script may find: [lines, old, out]
  DEPTH    \* calls of PatternGroup that Python lets nest

ASSUME DepthAssumption == DEPTH \in Nat \ {0}

(* lines: patterns.txt, comments and blank lines included; old: the tree   *)
(* of the output file before the run; out: the script got a file name.     *)
ASSUME InputsAssumption ==
  \A in \in Inputs :
    /\ in.out \in BOOLEAN
    /\ in.lines \in Seq([kind : {"skip", "bad", "pattern"},
                         mask : SUBSET WordBits, fb : SUBSET WordBits, name : STRING])
    /\ \A k \in DOMAIN in.lines : in.lines[k].fb \subseteq in.lines[k].mask

VARIABLES
  input,     \* what this run found
  lines,     \* lines not yet read
  patterns,  \* the patterns read
  pending,   \* groups whose constructor has not run: [path, members]
  tree,      \* the groups constructed
  phase,     \* how far the script is, or how it failed
  file       \* the tree in the output file

genVars == <<input, lines, patterns, pending, tree, phase, file>>

Failures == {"malformed", "recursion", "noTarget"}

GenInit ==
  /\ input \in Inputs
  /\ lines = input.lines
  /\ patterns = <<>>
  /\ pending = {}
  /\ tree = <<>>
  /\ phase = "read"
  /\ file = input.old

-----------------------------------------------------------------------------
(* The module level loop: one line.                                        *)

ReadLine ==
  /\ phase = "read" /\ lines # <<>>
  /\ \/ /\ Head(lines).kind = "bad"
        /\ phase' = "malformed"
        /\ UNCHANGED <<lines, patterns>>
     \/ /\ Head(lines).kind = "skip"
        /\ lines' = Tail(lines)
        /\ UNCHANGED <<patterns, phase>>
     \/ /\ Head(lines).kind = "pattern"
        /\ lines' = Tail(lines)
        /\ patterns' = Append(patterns, Head(lines))
        /\ UNCHANGED phase
  /\ UNCHANGED <<input, pending, tree, file>>

\* Seeded fault: the output is opened, hence emptied, before the grouping.
StartGroupingOpens ==
  /\ phase = "read" /\ lines = <<>>
  /\ pending' = {[path |-> <<>>, members |-> DOMAIN patterns]}
  /\ phase' = "group"
  /\ file' = <<>>
  /\ UNCHANGED <<input, lines, patterns, tree>>

StartGrouping ==
  /\ phase = "read" /\ lines = <<>>
  /\ pending' = {[path |-> <<>>, members |-> DOMAIN patterns]}
  /\ phase' = "group"
  /\ UNCHANGED <<input, lines, patterns, tree, file>>

-----------------------------------------------------------------------------
(* PatternGroup.  The members of a group are indices into patterns: every  *)
(* list the constructor is given keeps the order of the file.              *)

\* Seeded fault: the bits any member fixes, not those all of them fix.
AnyMask(members) == UNION {patterns[k].mask : k \in members}

CommonMask(members) ==
  {b \in WordBits : \A k \in members : b \in patterns[k].mask}

Sharing(members, val) ==
  {k \in members : patterns[k].fb \cap CommonMask(members) = val}

CaseValues(members) == {patterns[k].fb \cap CommonMask(members) : k \in members}

\* Seeded fault: two patterns with one case value pass for a single one.
LeafValuesOfTwo(members) ==
  {val \in CaseValues(members) : Cardinality(Sharing(members, val)) <= 2}

\* Seeded fault: a single pattern is made a group as well (>= 1 in line 32).
LeafValuesNever(members) ==
  {val \in CaseValues(members) : Cardinality(Sharing(members, val)) < 1}

LeafValues(members) ==
  {val \in CaseValues(members) : Cardinality(Sharing(members, val)) = 1}

TheOne(S) == CHOOSE k \in S : TRUE

Switch(members) ==
  [ mask |-> CommonMask(members),
    leaf |-> [val \in LeafValues(members) |->
                patterns[TheOne(Sharing(members, val))].name],
    subs |-> CaseValues(members) \ LeafValues(members) ]

\* Seeded fault: the constructor hands its whole list down (line 33).
ChildrenOfAll(g) ==
  {[path |-> Append(g.path, val), members |-> g.members] :
     val \in CaseValues(g.members) \ LeafValues(g.members)}

\* The groups a constructor constructs.
Children(g) ==
  {[path |-> Append(g.path, val), members |-> Sharing(g.members, val)] :
     val \in CaseValues(g.members) \ LeafValues(g.members)}

\* Depth first, in the order of the file.
Foremost(g) ==
  \A h \in pending \ {g} :
    \/ Len(g.path) > Len(h.path)
    \/ /\ Len(g.path) = Len(h.path)
       /\ \E k \in g.members : \A j \in h.members : k <= j

Construct ==
  /\ phase = "group"
  /\ \E g \in pending :
       /\ Foremost(g)
       /\ \/ /\ Len(g.path) >= DEPTH                  \* RecursionError
             /\ phase' = "recursion"
             /\ UNCHANGED <<pending, tree>>
          \/ /\ Len(g.path) < DEPTH
             /\ tree' = [p \in DOMAIN tree \cup {g.path} |->
                          IF p = g.path THEN Switch(g.members) ELSE tree[p]]
             /\ pending' = (pending \ {g}) \cup Children(g)
             /\ UNCHANGED phase
  /\ UNCHANGED <<input, lines, patterns, file>>

\* Seeded fault: a group is written before its own groups are.
WriteEarly ==
  /\ phase = "group" /\ tree # <<>>
  /\ file' = tree
  /\ phase' = "done"
  /\ UNCHANGED <<input, lines, patterns, pending, tree>>

(* generate_decision_tree into the opened, emptied file: it only fails if  *)
(* there is no file name to open.                                          *)
Write ==
  /\ phase = "group" /\ pending = {}
  /\ \/ /\ input.out
        /\ file' = tree
        /\ phase' = "done"
     \/ /\ ~input.out
        /\ phase' = "noTarget"
        /\ UNCHANGED file
  /\ UNCHANGED <<input, lines, patterns, pending, tree>>

Generate == ReadLine \/ StartGrouping \/ Construct \/ Write
=============================================================================
