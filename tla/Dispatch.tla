------------------------------ MODULE Dispatch ------------------------------
(***************************************************************************)
(* The decision tree at work: the generator, then the switch statements of *)
(* handle_instruction (base_op.cpp) that it left in its output, one switch *)
(* per step, for one instruction word after the other.                     *)
(***************************************************************************)
EXTENDS BaseOp

CONSTANT Instructions(_)   \* words to dispatch after a run on this input

\* Every inner switch of a tree is there: no walk falls off it.
Complete(t) ==
  \A path \in DOMAIN t :
    /\ t[path].mask \subseteq WordBits
    /\ \A val \in t[path].subs : Append(path, val) \in DOMAIN t

\* What is found in the output file was written by an earlier run.
ASSUME OldAssumption == \A in \in Inputs : Complete(in.old)

VARIABLES
  word,     \* instruction
  node,     \* path of the switch being executed
  handler   \* where it ended: a handler's name, "unsupported", or not yet

dispatchVars == <<word, node, handler>>
vars == <<genVars, dispatchVars>>

\* No handler has the name of one of the other values of "handler".
ASSUME NameAssumption ==
  \A in \in Inputs : \A k \in DOMAIN in.lines :
    in.lines[k].name \notin {"none", "walking"}

Init ==
  /\ GenInit
  /\ word = {} /\ node = <<>> /\ handler = "none"

\* handle_instruction is called; there has to be a tree that was compiled.
Enter ==
  /\ phase \in Failures \cup {"done"}
  /\ <<>> \in DOMAIN file
  /\ handler = "none"
  /\ word' \in Instructions(input)
  /\ handler' = "walking"
  /\ UNCHANGED <<genVars, node>>

Case == word \cap file[node].mask

Decide ==
  /\ handler = "walking"
  /\ \/ /\ Case \in DOMAIN file[node].leaf
        /\ handler' = file[node].leaf[Case]
        /\ UNCHANGED node
     \/ /\ Case \in file[node].subs
        /\ node' = Append(node, Case)
        /\ UNCHANGED handler
     \/ /\ Case \notin DOMAIN file[node].leaf \cup file[node].subs
        /\ handler' = "unsupported"
        /\ UNCHANGED node
  /\ UNCHANGED <<genVars, word>>

Decided == handler \notin {"none", "walking"}

\* The call returns: nothing of it is left for the next one.
Return ==
  /\ Decided
  /\ word' = {} /\ node' = <<>> /\ handler' = "none"
  /\ UNCHANGED genVars

\* Nothing to compile: the output file never held a tree.
NoTree ==
  /\ phase \in Failures
  /\ <<>> \notin DOMAIN file
  /\ UNCHANGED vars

Next ==
  \/ Generate /\ UNCHANGED dispatchVars
  \/ Enter
  \/ Decide
  \/ Return
  \/ NoTree

Spec == Init /\ [][Next]_vars /\ WF_vars(Next)

Matches(w, p) == w \cap p.mask = p.fb

-----------------------------------------------------------------------------
(* Properties.                                                             *)

(* The script is in one of its phases, groups are lists of the patterns    *)
(* read, and the tree in the output file is complete.                      *)
TypeOK ==
  /\ phase \in {"read", "group", "done"} \cup Failures
  /\ \A g \in pending : g.members \subseteq DOMAIN patterns
  /\ Complete(file)
  /\ handler = "walking" => node \in DOMAIN file

(* A word that matches a line of patterns.txt reaches that line's handler  *)
(* through the tree generated from it, whatever the other lines are        *)
(* (generate_tree.py:17-35, base_op.cpp:8-171).                            *)
MatchedIsHandled ==
  phase = "done" /\ Decided =>
    \A k \in DOMAIN patterns :
      Matches(word, patterns[k]) => handler = patterns[k].name

(* A set of patterns no switch can take apart: they agree on every bit     *)
(* that all of them fix.                                                   *)
Unsplittable(S) ==
  Cardinality(S) > 1 /\ Cardinality(CaseValues(S)) = 1

(* The constructor recurses until Python stops it only when some of the   *)
(* patterns cannot be taken apart (generate_tree.py:31-33): two that       *)
(* overlap, and also three that are pairwise disjoint but fix no bit in    *)
(* common.  A tree is only written when all can.  (Every subset is looked  *)
(* at, which is done for lists of up to ExhaustiveTo patterns.)            *)
ExhaustiveTo == 4
FailsIffUnsplittable ==
  Len(patterns) <= ExhaustiveTo /\ phase \in {"recursion", "done"} =>
    (phase = "recursion" <=> \E S \in SUBSET DOMAIN patterns : Unsplittable(S))

(* A run that fails, at whatever point, leaves the output file as it was:  *)
(* it is opened after the grouping (generate_tree.py:64-66).               *)
FailureKeepsFile == phase # "done" => file = input.old

(* On a list whose lines are all legal and whose patterns differ in a bit  *)
(* that every one of them fixes, the script ends with a tree written       *)
(* (generate_tree.py:51-74): one level of switches takes them apart.       *)
Legal(in) == {k \in DOMAIN in.lines : in.lines[k].kind = "pattern"}
OneLevel(in) ==
  /\ in.out
  /\ \A k \in DOMAIN in.lines : in.lines[k].kind # "bad"
  /\ \A j, k \in Legal(in) : j # k =>
       \E b \in WordBits :
         /\ \A l \in Legal(in) : b \in in.lines[l].mask
         /\ (b \in in.lines[j].fb) # (b \in in.lines[k].fb)
SplittableIsWritten == OneLevel(input) ~> phase = "done"

(* The tree checked in as base_op.cpp is the one the generator makes of    *)
(* the patterns.txt checked in beside it: neither is stale.                *)
BaseOpIsGenerated ==
  phase = "done" /\ input.old = BaseOpTree => file = BaseOpTree
=============================================================================
