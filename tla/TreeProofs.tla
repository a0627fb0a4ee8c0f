----------------------------- MODULE TreeProofs -----------------------------
(***************************************************************************)
(* Theorems about the generator and the dispatch, for every list of        *)
(* patterns and every instruction word.                                    *)
(***************************************************************************)
EXTENDS Dispatch, SequenceTheorems, FiniteSetTheorems, TLAPS

Path == Seq(SUBSET WordBits)

SoundLine ==
  {l \in [kind : {"skip", "bad", "pattern"},
          mask : SUBSET WordBits, fb : SUBSET WordBits, name : STRING] :
     l.fb \subseteq l.mask /\ l.name \notin {"none", "walking"}}

\* The patterns that a walk along a path of the tree t has not ruled out.
Members(t, path) ==
  {k \in DOMAIN patterns :
     \A i \in 1 .. Len(path) :
       patterns[k].fb \cap t[SubSeq(path, 1, i - 1)].mask = path[i]}

\* The switches around the one at a path are there.
Above(t, path) == \A i \in 1 .. Len(path) : SubSeq(path, 1, i - 1) \in DOMAIN t

ReadInv == lines \in Seq(SoundLine) /\ patterns \in Seq(SoundLine)

\* What a group has been given is what the path to it lets through, and the
\* tree holds the switch of every group that is no longer pending.
TreeInv ==
  /\ phase = "read" => pending = {} /\ tree = <<>>
  /\ \A g \in pending :
       /\ g.path \in Path /\ Above(tree, g.path)
       /\ g.members = Members(tree, g.path)
  /\ \A p \in DOMAIN tree :
       /\ p \in Path /\ Above(tree, p)
       /\ tree[p] = Switch(Members(tree, p))
       /\ \A val \in tree[p].subs :
            \/ Append(p, val) \in DOMAIN tree
            \/ \E g \in pending : g.path = Append(p, val)
  /\ phase = "group" => \/ <<>> \in DOMAIN tree
                        \/ \E g \in pending : g.path = <<>>
  /\ phase = "done" => file = tree /\ pending = {}

-----------------------------------------------------------------------------
\* The prefixes of a path that is one longer.
LEMMA AppendPath ==
  ASSUME NEW p \in Path, NEW v \in SUBSET WordBits
  PROVE  /\ Append(p, v) \in Path
         /\ Len(Append(p, v)) = Len(p) + 1
         /\ Append(p, v)[Len(p) + 1] = v
         /\ SubSeq(Append(p, v), 1, Len(p)) = p
         /\ \A i \in 1 .. Len(p) :
              /\ Append(p, v)[i] = p[i]
              /\ SubSeq(Append(p, v), 1, i - 1) = SubSeq(p, 1, i - 1)
  <1>1. Append(p, v) \in Path /\ Len(Append(p, v)) = Len(p) + 1
    BY AppendProperties DEF Path
  <1>2. /\ Append(p, v)[Len(p) + 1] = v
        /\ \A i \in 1 .. Len(p) : Append(p, v)[i] = p[i]
    BY AppendProperties DEF Path
  <1>3. SubSeq(Append(p, v), 1, Len(p)) = p BY DEF Path
  <1>4. \A i \in 1 .. Len(p) :
          SubSeq(Append(p, v), 1, i - 1) = SubSeq(p, 1, i - 1)
    BY DEF Path
  <1> QED BY <1>1, <1>2, <1>3, <1>4

\* One switch further, the value of the case decides who is left.
LEMMA MembersAppend ==
  ASSUME NEW t, NEW p \in Path, NEW v \in SUBSET WordBits,
         Above(t, p), p \in DOMAIN t
  PROVE  /\ Above(t, Append(p, v))
         /\ Members(t, Append(p, v)) =
              {k \in Members(t, p) : patterns[k].fb \cap t[p].mask = v}
  <1> DEFINE q == Append(p, v)
  <1>0. Len(p) \in Nat /\ Len(q) = Len(p) + 1 BY AppendPath DEF Path
  <1>1. /\ q[Len(p) + 1] = v
        /\ SubSeq(q, 1, (Len(p) + 1) - 1) = p
    <2>1. (Len(p) + 1) - 1 = Len(p) BY <1>0
    <2> QED BY <2>1, AppendPath
  <1>2. \A i \in 1 .. Len(p) :
          q[i] = p[i] /\ SubSeq(q, 1, i - 1) = SubSeq(p, 1, i - 1)
    BY AppendPath
  <1> HIDE DEF q
  <1>3. \A i \in 1 .. Len(q) : i \in 1 .. Len(p) \/ i = Len(p) + 1 BY <1>0
  <1>4. Above(t, q)
    <2> SUFFICES ASSUME NEW i \in 1 .. Len(q)
                 PROVE  SubSeq(q, 1, i - 1) \in DOMAIN t
      BY DEF Above
    <2>1. CASE i \in 1 .. Len(p) BY <2>1, <1>2 DEF Above
    <2>2. CASE i = Len(p) + 1 BY <2>2, <1>1
    <2> QED BY <2>1, <2>2, <1>3
  <1>5. ASSUME NEW k \in DOMAIN patterns
        PROVE  k \in Members(t, q) <=>
                 k \in Members(t, p) /\ patterns[k].fb \cap t[p].mask = v
    <2>1. k \in Members(t, q) <=>
            \A i \in 1 .. Len(q) :
              patterns[k].fb \cap t[SubSeq(q, 1, i - 1)].mask = q[i]
      BY DEF Members
    <2>2. k \in Members(t, p) <=>
            \A i \in 1 .. Len(p) :
              patterns[k].fb \cap t[SubSeq(p, 1, i - 1)].mask = p[i]
      BY DEF Members
    <2>3. 1 .. Len(q) = (1 .. Len(p)) \cup {Len(p) + 1} BY <1>0
    <2> QED BY <2>1, <2>2, <2>3, <1>1, <1>2
  <1> QED BY <1>4, <1>5 DEF Members, q

\* Who is left depends on the switches around alone.
LEMMA MembersKeep ==
  ASSUME NEW t, NEW u, NEW p, Above(t, p),
         DOMAIN t \subseteq DOMAIN u, \A q \in DOMAIN t : u[q] = t[q]
  PROVE  Above(u, p) /\ Members(u, p) = Members(t, p)
  <1>1. \A i \in 1 .. Len(p) : /\ SubSeq(p, 1, i - 1) \in DOMAIN u
                              /\ u[SubSeq(p, 1, i - 1)] = t[SubSeq(p, 1, i - 1)]
    BY DEF Above
  <1> QED BY <1>1 DEF Above, Members

\* Nobody is ruled out before the first switch.
LEMMA MembersOfRoot ==
  ASSUME NEW t
  PROVE  <<>> \in Path /\ Above(t, <<>>) /\ Members(t, <<>>) = DOMAIN patterns
  <1>1. <<>> \in Path /\ Len(<<>>) = 0 BY EmptySeq DEF Path
  <1> QED BY <1>1 DEF Above, Members

-----------------------------------------------------------------------------
\* A switch depends on the members and the patterns alone.
LEMMA SwitchKeep ==
  ASSUME UNCHANGED patterns
  PROVE  \A M : Switch(M)' = Switch(M)
  <1> SUFFICES ASSUME NEW M PROVE Switch(M)' = Switch(M) OBVIOUS
  <1>1. CommonMask(M)' = CommonMask(M) BY DEF CommonMask
  <1>2. CaseValues(M)' = CaseValues(M) BY <1>1 DEF CaseValues
  <1>3. \A val : Sharing(M, val)' = Sharing(M, val) BY <1>1 DEF Sharing
  <1>4. LeafValues(M)' = LeafValues(M) BY <1>2, <1>3 DEF LeafValues
  <1> QED BY <1>1, <1>2, <1>3, <1>4 DEF Switch

\* A step that leaves patterns and tree alone leaves every group what it was.
LEMMA MembersStay ==
  ASSUME UNCHANGED <<patterns, tree>>
  PROVE  \A p : /\ Members(tree, p)' = Members(tree, p)
                /\ Above(tree, p)' = Above(tree, p)
                /\ Switch(Members(tree, p))' = Switch(Members(tree, p))
  <1>1. \A p : Members(tree, p)' = Members(tree, p) BY DEF Members
  <1>2. \A p : Above(tree, p)' = Above(tree, p) BY DEF Above
  <1> QED BY <1>1, <1>2, SwitchKeep

\* The values of a case are parts of words, and a switch has a case for each.
LEMMA CaseType ==
  ASSUME ReadInv, NEW M \in SUBSET DOMAIN patterns
  PROVE  /\ CommonMask(M) \subseteq WordBits
         /\ CaseValues(M) \subseteq SUBSET WordBits
         /\ \A val \in CaseValues(M) :
              Sharing(M, val) = {k \in M : patterns[k].fb \cap Switch(M).mask = val}
  BY DEF CommonMask, CaseValues, Sharing, Switch

\* The script starts with nothing grouped.
LEMMA InitTree == GenInit => ReadInv /\ TreeInv
  <1> SUFFICES ASSUME GenInit PROVE ReadInv /\ TreeInv OBVIOUS
  <1>1. lines \in Seq(SoundLine)
    <2> DEFINE T == [kind : {"skip", "bad", "pattern"},
                     mask : SUBSET WordBits, fb : SUBSET WordBits, name : STRING]
    <2>1. lines \in Seq(T) BY InputsAssumption DEF GenInit
    <2>2. lines \in [1 .. Len(lines) -> T] /\ Len(lines) \in Nat
          /\ DOMAIN lines = 1 .. Len(lines)
      BY <2>1, LenProperties
    <2> HIDE DEF T
    <2>3. \A k \in 1 .. Len(lines) : lines[k] \in SoundLine
      BY <2>2, InputsAssumption, NameAssumption DEF GenInit, SoundLine, T
    <2>4. lines \in [1 .. Len(lines) -> SoundLine] BY <2>2, <2>3
    <2> QED BY <2>2, <2>4, SeqDef
  <1>2. patterns \in Seq(SoundLine) BY EmptySeq DEF GenInit
  <1>3. TreeInv BY DEF GenInit, TreeInv
  <1> QED BY <1>1, <1>2, <1>3 DEF ReadInv

\* Every step of the script keeps the lines and patterns legal.
LEMMA StepRead ==
  ASSUME ReadInv, Generate
  PROVE  ReadInv'
  <1>1. CASE ReadLine
    <2>1. CASE UNCHANGED <<lines, patterns>> BY <2>1 DEF ReadInv
    <2>2. CASE ~UNCHANGED <<lines, patterns>>
      <3>1. lines # <<>> /\ lines' = Tail(lines)
            /\ (patterns' = patterns \/ patterns' = Append(patterns, Head(lines)))
        BY <1>1, <2>2 DEF ReadLine
      <3>2. Head(lines) \in SoundLine /\ Tail(lines) \in Seq(SoundLine)
        BY <3>1, HeadTailProperties DEF ReadInv
      <3>3. Append(patterns, Head(lines)) \in Seq(SoundLine)
        BY <3>2, AppendProperties DEF ReadInv
      <3> QED BY <3>1, <3>2, <3>3 DEF ReadInv
    <2> QED BY <2>1, <2>2
  <1>2. CASE ~ReadLine
    BY <1>2 DEF Generate, StartGrouping, Construct, Write, ReadInv
  <1> QED BY <1>1, <1>2

\* A group constructed: its switch is in the tree, its groups are pending.
LEMMA ConstructOne ==
  ASSUME ReadInv, TreeInv, phase = "group", NEW g \in pending,
         tree' = [p \in DOMAIN tree \cup {g.path} |->
                    IF p = g.path THEN Switch(g.members) ELSE tree[p]],
         pending' = (pending \ {g}) \cup Children(g),
         UNCHANGED <<patterns, phase>>
  PROVE  TreeInv'
  <1> DEFINE M == g.members
  <1>1. g.path \in Path /\ Above(tree, g.path) /\ M = Members(tree, g.path)
    BY DEF TreeInv
  <1>2. M \in SUBSET DOMAIN patterns BY <1>1 DEF Members
  <1>3. \A q \in DOMAIN tree : tree'[q] = tree[q]
    BY <1>1 DEF TreeInv
  <1>4. DOMAIN tree' = DOMAIN tree \cup {g.path} /\ tree'[g.path] = Switch(M)
    OBVIOUS
  <1>5. ASSUME NEW q, Above(tree, q)
        PROVE  Above(tree', q) /\ Members(tree', q) = Members(tree, q)
    <2>1. DOMAIN tree \subseteq DOMAIN tree' BY <1>4
    <2> QED BY <1>3, <1>5, <2>1, MembersKeep
  <1>6. ASSUME NEW val \in CaseValues(M)
        PROVE  /\ Append(g.path, val) \in Path
               /\ Above(tree', Append(g.path, val))
               /\ Members(tree', Append(g.path, val)) = Sharing(M, val)
    <2>1. val \in SUBSET WordBits BY <1>2, CaseType
    <2>2. Above(tree', g.path) /\ Members(tree', g.path) = M BY <1>1, <1>5
    <2>3. Sharing(M, val) = {k \in M : patterns[k].fb \cap tree'[g.path].mask = val}
      BY <1>2, <1>4, CaseType
    <2> QED BY <1>1, <1>4, <2>1, <2>2, <2>3, AppendPath, MembersAppend
  <1> HIDE DEF M
  <1>7. ASSUME NEW h \in pending'
        PROVE  /\ h.path \in Path /\ Above(tree', h.path)
               /\ h.members = Members(tree', h.path)
    <2>1. CASE h \in pending BY <2>1, <1>5 DEF TreeInv
    <2>2. CASE h \in Children(g)
      <3>1. PICK val \in CaseValues(M) :
              h = [path |-> Append(g.path, val), members |-> Sharing(M, val)]
        BY <2>2 DEF Children, M
      <3> QED BY <3>1, <1>6
    <2> QED BY <2>1, <2>2
  <1>8. ASSUME NEW p \in DOMAIN tree'
        PROVE  /\ p \in Path /\ Above(tree', p)
               /\ tree'[p] = Switch(Members(tree', p))
               /\ \A val \in tree'[p].subs :
                    \/ Append(p, val) \in DOMAIN tree'
                    \/ \E h \in pending' : h.path = Append(p, val)
    <2>1. CASE p = g.path
      <3>1. tree'[p] = Switch(Members(tree', p)) /\ p \in Path /\ Above(tree', p)
        BY <2>1, <1>1, <1>4, <1>5 DEF M
      <3>2. ASSUME NEW val \in tree'[p].subs
            PROVE  \E h \in pending' : h.path = Append(p, val)
        <4>1. val \in CaseValues(M) \ LeafValues(M)
          BY <2>1, <1>4 DEF Switch
        <4>2. [path |-> Append(g.path, val), members |-> Sharing(M, val)]
                \in Children(g)
          BY <4>1 DEF Children, M
        <4> QED BY <4>2, <2>1
      <3> QED BY <3>1, <3>2
    <2>2. CASE p # g.path
      <3>1. p \in DOMAIN tree /\ tree'[p] = tree[p] BY <2>2, <1>3, <1>4
      <3>2. p \in Path /\ Above(tree', p) /\ Members(tree', p) = Members(tree, p)
        BY <3>1, <1>5 DEF TreeInv
      <3>3. ASSUME NEW val \in tree[p].subs
            PROVE  \/ Append(p, val) \in DOMAIN tree'
                   \/ \E h \in pending' : h.path = Append(p, val)
        BY <3>1, <1>4 DEF TreeInv
      <3> QED BY <3>1, <3>2, <3>3 DEF TreeInv
    <2> QED BY <2>1, <2>2
  <1>9. \/ <<>> \in DOMAIN tree'
        \/ \E h \in pending' : h.path = <<>>
    BY <1>4 DEF TreeInv
  <1>10. \A p : /\ Members(tree, p)' = Members(tree', p)
                /\ Switch(Members(tree, p))' = Switch(Members(tree', p))
                /\ Above(tree, p)' = Above(tree', p)
    <2>1. \A p : Members(tree, p)' = Members(tree', p) BY DEF Members
    <2> QED BY <2>1, SwitchKeep DEF Above
  <1> QED BY <1>7, <1>8, <1>9, <1>10 DEF TreeInv

\* Every step of the script keeps TreeInv.
LEMMA StepTree ==
  ASSUME ReadInv, TreeInv, Generate
  PROVE  TreeInv'
  <1>1. CASE ReadLine
    BY <1>1 DEF ReadLine, TreeInv
  <1>2. CASE StartGrouping
    <2>1. /\ DOMAIN tree' = {} /\ phase' = "group"
          /\ pending' = {[path |-> <<>>, members |-> DOMAIN patterns]}
      BY <1>2 DEF StartGrouping, TreeInv
    <2>2. \A g \in pending' : /\ g.path \in Path /\ Above(tree', g.path)
                              /\ g.members = Members(tree', g.path)
      BY <2>1, MembersOfRoot
    <2> QED BY <1>2, <2>1, <2>2 DEF StartGrouping, TreeInv, Members
  <1>3. CASE Construct
    <2>1. CASE phase' = "recursion"
      <3>1. UNCHANGED <<patterns, tree, pending>> BY <1>3, <2>1 DEF Construct, TreeInv
      <3> QED BY <2>1, <3>1, MembersStay DEF TreeInv
    <2>2. CASE phase' # "recursion"
      BY <1>3, <2>2, ConstructOne DEF Construct
    <2> QED BY <2>1, <2>2
  <1>4. CASE Write
    <2>1. /\ UNCHANGED <<patterns, tree, pending>>
          /\ phase' \in {"done", "noTarget"}
          /\ phase' = "done" => file' = tree' /\ pending' = {}
      BY <1>4 DEF Write
    <2> QED BY <2>1, MembersStay DEF TreeInv
  <1> QED BY <1>1, <1>2, <1>3, <1>4 DEF Generate

-----------------------------------------------------------------------------
\* There are finitely many patterns.
LEMMA PatternsFinite ==
  ASSUME ReadInv, NEW S \in SUBSET DOMAIN patterns
  PROVE  IsFiniteSet(S)
  <1>1. Len(patterns) \in Nat /\ DOMAIN patterns = 1 .. Len(patterns)
    BY LenProperties DEF ReadInv
  <1>2. IsFiniteSet(DOMAIN patterns) BY <1>1, FS_Interval
  <1> QED BY <1>2, FS_Subset

\* One switch, for a word that matches a pattern not ruled out: the word
\* takes a case, a leaf is the pattern's own, a group still has it.
LEMMA OneSwitch ==
  ASSUME ReadInv, NEW M \in SUBSET DOMAIN patterns, NEW w, NEW k \in M,
         Matches(w, patterns[k]), NEW c, c = w \cap Switch(M).mask
  PROVE  /\ patterns[k].fb \cap Switch(M).mask = c
         /\ c \in SUBSET WordBits
         /\ c \in DOMAIN Switch(M).leaf \cup Switch(M).subs
         /\ ~(c \in DOMAIN Switch(M).leaf /\ c \in Switch(M).subs)
         /\ c \in DOMAIN Switch(M).leaf => Switch(M).leaf[c] = patterns[k].name
  <1>1. /\ Switch(M).mask = CommonMask(M)
        /\ DOMAIN Switch(M).leaf = LeafValues(M)
        /\ Switch(M).subs = CaseValues(M) \ LeafValues(M)
        /\ \A val \in LeafValues(M) :
             Switch(M).leaf[val] = patterns[TheOne(Sharing(M, val))].name
    BY DEF Switch
  <1>2. CommonMask(M) \subseteq patterns[k].mask BY DEF CommonMask
  <1>3. patterns[k].fb \cap CommonMask(M) = c
    BY <1>1, <1>2 DEF Matches
  <1>4. c \in CaseValues(M) /\ k \in Sharing(M, c)
    BY <1>3 DEF CaseValues, Sharing
  <1>5. ASSUME c \in LeafValues(M)
        PROVE  TheOne(Sharing(M, c)) = k
    <2>1. IsFiniteSet(Sharing(M, c)) BY PatternsFinite DEF Sharing
    <2>2. Cardinality(Sharing(M, c)) = 1 BY <1>5 DEF LeafValues
    <2>3. PICK x : Sharing(M, c) = {x} BY <2>1, <2>2, FS_Singleton
    <2> QED BY <1>4, <2>3 DEF TheOne
  <1>6. c \in SUBSET WordBits BY <1>3 DEF CommonMask
  <1> QED BY <1>1, <1>3, <1>4, <1>5, <1>6

-----------------------------------------------------------------------------
(* Where a walk through the generated tree stands, no pattern that the     *)
(* word matches has been ruled out; and where it ends is that pattern's    *)
(* handler.  (No walk begins before the script has ended.)                 *)
WalkInv ==
  /\ input \in Inputs
  /\ phase \in {"read", "group", "done"} \cup Failures
  /\ phase \in {"read", "group"} => handler = "none" /\ node = <<>>
  /\ phase = "done" /\ handler = "none" => node = <<>>
  /\ node = <<>> \/ node \in DOMAIN file
  /\ handler = "walking" => node \in DOMAIN file
  /\ phase = "done" /\ handler = "walking" =>
       \A k \in DOMAIN patterns :
         Matches(word, patterns[k]) => k \in Members(tree, node)
  /\ MatchedIsHandled

DispatchInv == ReadInv /\ TreeInv /\ FailureKeepsFile /\ WalkInv

LEMMA DispatchInit == Init => DispatchInv
  <1> SUFFICES ASSUME Init PROVE DispatchInv OBVIOUS
  <1>1. ReadInv /\ TreeInv BY InitTree DEF Init
  <1>2. WalkInv /\ FailureKeepsFile
    BY DEF Init, GenInit, WalkInv, FailureKeepsFile, MatchedIsHandled, Decided
  <1> QED BY <1>1, <1>2 DEF DispatchInv

\* A step of the script: nothing is being dispatched.
LEMMA GenerateStep ==
  ASSUME DispatchInv, Generate, UNCHANGED dispatchVars
  PROVE  DispatchInv'
  <1>1. ReadInv' /\ TreeInv' BY StepRead, StepTree DEF DispatchInv
  <1>2. /\ phase \in {"read", "group"} /\ UNCHANGED input
        /\ phase' \in {"read", "group", "done"} \cup Failures
        /\ phase' # "done" => UNCHANGED file
    BY DEF Generate, ReadLine, StartGrouping, Construct, Write, Failures
  <1>3. handler' = "none" /\ node' = <<>> /\ input' \in Inputs
    BY <1>2 DEF DispatchInv, WalkInv, dispatchVars
  <1>4. WalkInv' BY <1>2, <1>3 DEF WalkInv, MatchedIsHandled, Decided
  <1>5. FailureKeepsFile'
    BY <1>2 DEF DispatchInv, FailureKeepsFile
  <1> QED BY <1>1, <1>4, <1>5 DEF DispatchInv

\* A step that leaves the script's variables alone.
LEMMA GeneratorStays ==
  ASSUME DispatchInv, UNCHANGED genVars
  PROVE  ReadInv' /\ TreeInv' /\ FailureKeepsFile'
  BY MembersStay DEF DispatchInv, ReadInv, TreeInv, FailureKeepsFile, genVars

\* A walk begins at the outermost switch, where nothing is ruled out.
LEMMA EnterStep ==
  ASSUME DispatchInv, Enter
  PROVE  DispatchInv'
  <1>1. ReadInv' /\ TreeInv' /\ FailureKeepsFile' BY GeneratorStays DEF Enter
  <1>2. UNCHANGED <<input, patterns, tree, phase, file, node>> /\ handler' = "walking"
    BY DEF Enter, genVars
  <1>3. node' \in DOMAIN file' BY DEF Enter, genVars, DispatchInv, WalkInv
  <1>4. phase = "done" => Members(tree, node)' = DOMAIN patterns
    <2>1. phase = "done" => node = <<>> BY DEF Enter, DispatchInv, WalkInv
    <2>2. Members(tree, <<>>) = DOMAIN patterns BY MembersOfRoot
    <2> QED BY <1>2, <2>1, <2>2, MembersStay
  <1>5. WalkInv'
    BY <1>2, <1>3, <1>4
       DEF DispatchInv, Enter, WalkInv, MatchedIsHandled, Decided, Failures
  <1> QED BY <1>1, <1>5 DEF DispatchInv

\* The tree in the output file is complete, whoever wrote it.
LEMMA FileComplete ==
  ASSUME DispatchInv
  PROVE  Complete(file)
  <1>1. CASE phase = "done"
    <2>1. file = tree /\ pending = {} BY <1>1 DEF DispatchInv, TreeInv
    <2>2. ASSUME NEW p \in DOMAIN tree
          PROVE  /\ tree[p].mask \subseteq WordBits
                 /\ \A val \in tree[p].subs : Append(p, val) \in DOMAIN tree
      <3>1. tree[p] = Switch(Members(tree, p))
            /\ \A val \in tree[p].subs : Append(p, val) \in DOMAIN tree
        BY <2>1 DEF DispatchInv, TreeInv
      <3>2. tree[p].mask = CommonMask(Members(tree, p)) BY <3>1 DEF Switch
      <3> QED BY <3>1, <3>2 DEF CommonMask
    <2> QED BY <2>1, <2>2 DEF Complete
  <1>2. CASE phase # "done"
    BY <1>2, OldAssumption DEF DispatchInv, WalkInv, FailureKeepsFile
  <1> QED BY <1>1, <1>2

\* One switch on the way.
LEMMA DecideStep ==
  ASSUME DispatchInv, Decide
  PROVE  DispatchInv'
  <1>1. ReadInv' /\ TreeInv' /\ FailureKeepsFile' BY GeneratorStays DEF Decide
  <1>2. /\ UNCHANGED <<input, patterns, tree, phase, file, word>>
        /\ handler = "walking" /\ node \in DOMAIN file
        /\ phase \in {"done"} \cup Failures
    BY DEF Decide, genVars, DispatchInv, WalkInv
  <1> DEFINE sw == file[node]
             c == word \cap sw.mask
  <1>3. \/ c \in DOMAIN sw.leaf /\ handler' = sw.leaf[c] /\ UNCHANGED node
        \/ c \in sw.subs /\ node' = Append(node, c) /\ UNCHANGED handler
        \/ /\ c \notin DOMAIN sw.leaf \cup sw.subs
           /\ handler' = "unsupported" /\ UNCHANGED node
    BY DEF Decide, Case
  <1>4. \A val \in sw.subs : Append(node, val) \in DOMAIN file
    BY <1>2, FileComplete DEF Complete
  <1>5. node' \in DOMAIN file' BY <1>2, <1>3, <1>4
  <1>6. ASSUME phase = "done", NEW k \in DOMAIN patterns, Matches(word, patterns[k])
        PROVE  \/ handler' = "walking" /\ k \in Members(tree, node')
               \/ handler' = patterns[k].name
    <2> DEFINE M == Members(tree, node)
    <2>1. /\ file = tree /\ sw = Switch(M) /\ node \in Path /\ Above(tree, node)
          /\ node \in DOMAIN tree
      BY <1>2, <1>6 DEF DispatchInv, TreeInv
    <2>2. k \in M BY <1>2, <1>6 DEF DispatchInv, WalkInv
    <2>3. M \in SUBSET DOMAIN patterns BY DEF Members
    <2> HIDE DEF M, c
    <2>4. c = word \cap Switch(M).mask BY <2>1 DEF c
    <2> HIDE DEF sw
    <2>5. ReadInv BY DEF DispatchInv
    <2>6. /\ patterns[k].fb \cap Switch(M).mask = c
          /\ c \in SUBSET WordBits
          /\ c \in DOMAIN Switch(M).leaf \cup Switch(M).subs
          /\ ~(c \in DOMAIN Switch(M).leaf /\ c \in Switch(M).subs)
          /\ c \in DOMAIN Switch(M).leaf => Switch(M).leaf[c] = patterns[k].name
      BY <1>6, <2>2, <2>3, <2>4, <2>5, OneSwitch
    <2>7. /\ patterns[k].fb \cap sw.mask = c /\ c \in SUBSET WordBits
          /\ c \in DOMAIN sw.leaf \cup sw.subs
          /\ ~(c \in DOMAIN sw.leaf /\ c \in sw.subs)
          /\ c \in DOMAIN sw.leaf => sw.leaf[c] = patterns[k].name
      <3>1. /\ sw.mask = Switch(M).mask /\ sw.leaf = Switch(M).leaf
            /\ sw.subs = Switch(M).subs
        BY <2>1
      <3> QED BY <3>1, <2>6
    <2>8. CASE c \in DOMAIN sw.leaf BY <1>3, <2>7, <2>8
    <2>9. CASE c \in sw.subs
      <3>1. node' = Append(node, c) /\ handler' = "walking"
        BY <1>2, <1>3, <2>7, <2>9
      <3>2. Members(tree, Append(node, c)) =
              {j \in M : patterns[j].fb \cap tree[node].mask = c}
        BY <2>1, <2>7, MembersAppend DEF M
      <3>3. k \in Members(tree, Append(node, c))
        BY <2>1, <2>2, <2>7, <3>2 DEF sw
      <3> QED BY <3>1, <3>3
    <2> QED BY <2>7, <2>8, <2>9
  <1>7. ASSUME phase = "done" PROVE handler' # "none"
    <2> DEFINE M == Members(tree, node)
    <2>1. sw = Switch(M) /\ M \in SUBSET DOMAIN patterns
      BY <1>2, <1>7 DEF DispatchInv, TreeInv, Members
    <2> HIDE DEF M
    <2>2. CASE c \in DOMAIN sw.leaf
      <3>1. c \in LeafValues(M) /\ sw.leaf[c] = patterns[TheOne(Sharing(M, c))].name
        BY <2>1, <2>2 DEF Switch
      <3>2. PICK k \in Sharing(M, c) : TRUE
        BY <3>1 DEF LeafValues, CaseValues, Sharing
      <3>3. TheOne(Sharing(M, c)) \in DOMAIN patterns
        BY <3>2, <2>1 DEF TheOne, Sharing
      <3>4. patterns[TheOne(Sharing(M, c))] \in SoundLine
        BY <3>3 DEF DispatchInv, ReadInv
      <3>5. sw.leaf[c] # "none" BY <3>1, <3>4 DEF SoundLine
      <3>6. c \notin sw.subs BY <2>1, <3>1 DEF Switch
      <3> HIDE DEF c, sw
      <3> QED BY <1>3, <2>2, <3>5, <3>6
    <2>3. CASE c \notin DOMAIN sw.leaf BY <1>2, <1>3, <2>3
    <2> QED BY <2>2, <2>3
  <1>8. \A p : Members(tree, p)' = Members(tree, p)
    BY <1>2 DEF Members
  <1> HIDE DEF c, sw
  <1>9. \A k \in DOMAIN patterns :
          phase = "done" /\ Matches(word, patterns[k]) =>
            \/ handler' = "walking" /\ k \in Members(tree, node)'
            \/ handler' = patterns[k].name
    <2>1. Members(tree, node)' = Members(tree, node') BY <1>2 DEF Members
    <2> QED BY <1>6, <2>1
  <1>10. \A k \in DOMAIN patterns : Matches(word, patterns[k])' = Matches(word, patterns[k])
    BY <1>2 DEF Matches
  <1>11. WalkInv'
    <2>1. MatchedIsHandled' BY <1>2, <1>9, <1>10 DEF MatchedIsHandled, Decided
    <2>2. input' \in Inputs BY <1>2 DEF DispatchInv, WalkInv
    <2>3. phase' = "done" /\ handler' = "walking" =>
            \A k \in DOMAIN patterns' :
              Matches(word, patterns[k])' => k \in Members(tree, node)'
      <3>1. \A k \in DOMAIN patterns : patterns[k].name # "walking"
        BY DEF DispatchInv, ReadInv, SoundLine
      <3> QED BY <1>2, <1>9, <1>10, <3>1
    <2> QED BY <1>2, <1>5, <1>7, <2>1, <2>2, <2>3 DEF WalkInv, Failures
  <1> QED BY <1>1, <1>11 DEF DispatchInv

\* Every step keeps DispatchInv.
LEMMA DispatchStep == DispatchInv /\ [Next]_vars => DispatchInv'
  <1> SUFFICES ASSUME DispatchInv, [Next]_vars PROVE DispatchInv' OBVIOUS
  <1>1. CASE Generate /\ UNCHANGED dispatchVars BY <1>1, GenerateStep
  <1>2. CASE Enter BY <1>2, EnterStep
  <1>3. CASE Decide BY <1>3, DecideStep
  <1>4. CASE Return
    <2>1. ReadInv' /\ TreeInv' /\ FailureKeepsFile'
      BY <1>4, GeneratorStays DEF Return
    <2>2. WalkInv'
      BY <1>4 DEF DispatchInv, Return, WalkInv, MatchedIsHandled, Decided, genVars, Failures
    <2> QED BY <2>1, <2>2 DEF DispatchInv
  <1>5. CASE UNCHANGED vars
    <2>1. ReadInv' /\ TreeInv' /\ FailureKeepsFile'
      BY <1>5, GeneratorStays DEF vars
    <2>2. WalkInv'
      <3>1. /\ Members(tree, node)' = Members(tree, node)
            /\ UNCHANGED <<input, phase, handler, node, word, file, patterns>>
        BY <1>5 DEF vars, genVars, dispatchVars, Members
      <3>2. MatchedIsHandled'
        BY <3>1 DEF DispatchInv, WalkInv, MatchedIsHandled, Decided, Matches
      <3> QED BY <3>1, <3>2 DEF DispatchInv, WalkInv, Matches
    <2> QED BY <2>1, <2>2 DEF DispatchInv
  <1> QED BY <1>1, <1>2, <1>3, <1>4, <1>5 DEF Next, NoTree

THEOREM DispatchInvariant == Spec => []DispatchInv
  <1> QED BY DispatchInit, DispatchStep, PTL DEF Spec

(* Dispatch.TypeOK: the script is in one of its phases, groups are lists   *)
(* of the patterns read, and no walk through the output file's tree meets  *)
(* a switch that is not there (generate_tree.py:17-74, base_op.cpp).       *)
THEOREM DispatchTypeCorrect == Spec => []TypeOK
  <1>1. DispatchInv => TypeOK
    <2> SUFFICES ASSUME DispatchInv PROVE TypeOK OBVIOUS
    <2>1. Complete(file) BY FileComplete
    <2>2. \A g \in pending : g.members \subseteq DOMAIN patterns
      BY DEF DispatchInv, TreeInv, Members
    <2> QED BY <2>1, <2>2 DEF DispatchInv, WalkInv, TypeOK
  <1> QED BY <1>1, DispatchInvariant, PTL

(* Dispatch.MatchedIsHandled: a word that matches a line of patterns.txt   *)
(* reaches that line's handler, whatever the lines are.                    *)
THEOREM GeneratedTreeIsFaithful == Spec => []MatchedIsHandled
  <1>1. DispatchInv => MatchedIsHandled BY DEF DispatchInv, WalkInv
  <1> QED BY <1>1, DispatchInvariant, PTL

(* Dispatch.FailureKeepsFile: no failure of the script, whenever it comes, *)
(* costs the tree of the run before.                                       *)
THEOREM FailedRunKeepsTree == Spec => []FailureKeepsFile
  <1>1. DispatchInv => FailureKeepsFile BY DEF DispatchInv
  <1> QED BY <1>1, DispatchInvariant, PTL

-----------------------------------------------------------------------------
(* The recursion.  No switch separates what cannot be taken apart, so as   *)
(* long as there is such a set some pending group has all of it; and as    *)
(* every switch that separates anything leaves fewer patterns to a group,  *)
(* only such a set can be left when the calls have nested as deep as there *)
(* are patterns.                                                           *)

Stuck == \E S \in SUBSET DOMAIN patterns : Unsplittable(S)

Shrinks(g) ==
  /\ Len(g.path) + Cardinality(g.members) <= Len(patterns)
  /\ g.path # <<>> => Cardinality(g.members) >= 2

SplitInv ==
  /\ phase = "group" =>
       /\ \A S \in SUBSET DOMAIN patterns :
            Unsplittable(S) => \E g \in pending : S \subseteq g.members
       /\ ~Stuck => \A g \in pending : Shrinks(g)
  /\ phase = "done" => ~Stuck
  /\ phase = "recursion" /\ Len(patterns) <= DEPTH => Stuck

\* A set of patterns is unsplittable when its switch has a single case.
LEMMA OneCase ==
  ASSUME ReadInv, NEW S \in SUBSET DOMAIN patterns
  PROVE  Unsplittable(S) <=> Cardinality(S) > 1 /\ \E v : CaseValues(S) = {v}
  <1>1. IsFiniteSet(CaseValues(S))
    <2>1. IsFiniteSet(WordBits)
      <3>1. 0 \in Int /\ 31 \in Int OBVIOUS
      <3> QED BY <3>1, FS_Interval DEF WordBits
    <2>2. IsFiniteSet(SUBSET WordBits) BY <2>1, FS_SUBSET
    <2>3. CaseValues(S) \in SUBSET SUBSET WordBits BY CaseType
    <2> QED BY <2>2, <2>3, FS_Subset
  <1> QED BY <1>1, FS_Singleton DEF Unsplittable

\* What cannot be taken apart goes into one case, and that is not a leaf.
LEMMA StaysTogether ==
  ASSUME ReadInv, NEW M \in SUBSET DOMAIN patterns, NEW S \in SUBSET M,
         Unsplittable(S)
  PROVE  \E val \in CaseValues(M) \ LeafValues(M) : S \subseteq Sharing(M, val)
  <1>1. PICK v : CaseValues(S) = {v} BY OneCase
  <1>2. CommonMask(M) \subseteq CommonMask(S) BY DEF CommonMask
  <1> DEFINE val == v \cap CommonMask(M)
  <1>3. ASSUME NEW k \in S
        PROVE  patterns[k].fb \cap CommonMask(M) = val
    <2>1. patterns[k].fb \cap CommonMask(S) \in CaseValues(S) BY DEF CaseValues
    <2>2. patterns[k].fb \cap CommonMask(S) = v BY <1>1, <2>1
    <2> QED BY <1>2, <2>2
  <1> HIDE DEF val
  <1>4. IsFiniteSet(S) /\ Cardinality(S) \in Nat /\ Cardinality(S) > 1
    BY PatternsFinite, FS_CardinalityType DEF Unsplittable
  <1>5. PICK k \in S : TRUE BY <1>4, FS_EmptySet
  <1>6. val \in CaseValues(M) BY <1>3, <1>5 DEF CaseValues
  <1>7. S \subseteq Sharing(M, val) BY <1>3 DEF Sharing
  <1>8. Cardinality(Sharing(M, val)) # 1
    <2>1. IsFiniteSet(Sharing(M, val)) BY PatternsFinite DEF Sharing
    <2>2. /\ Cardinality(Sharing(M, val)) \in Nat
          /\ Cardinality(S) <= Cardinality(Sharing(M, val))
      BY <1>7, <2>1, FS_Subset, FS_CardinalityType
    <2> QED BY <1>4, <2>2
  <1> QED BY <1>6, <1>7, <1>8 DEF LeafValues

\* A switch that takes anything apart leaves fewer patterns to each group.
LEMMA CaseShrinks ==
  ASSUME ReadInv, ~Stuck, NEW M \in SUBSET DOMAIN patterns,
         NEW val \in CaseValues(M) \ LeafValues(M)
  PROVE  /\ Cardinality(M) \in Nat /\ Cardinality(Sharing(M, val)) \in Nat
         /\ Cardinality(Sharing(M, val)) >= 2
         /\ Cardinality(Sharing(M, val)) + 1 <= Cardinality(M)
  <1> DEFINE C == Sharing(M, val)
  <1>1. C \in SUBSET M BY DEF Sharing
  <1>2. IsFiniteSet(M) /\ IsFiniteSet(C)
    BY <1>1, PatternsFinite
  <1>3. /\ Cardinality(M) \in Nat /\ Cardinality(C) \in Nat
        /\ Cardinality(C) <= Cardinality(M)
        /\ Cardinality(M) = Cardinality(C) => M = C
    BY <1>1, <1>2, FS_CardinalityType, FS_Subset
  <1>4. Cardinality(C) # 1 BY DEF LeafValues
  <1>5. C # {} BY DEF CaseValues, Sharing
  <1>6. Cardinality(C) >= 2 BY <1>2, <1>3, <1>4, <1>5, FS_EmptySet
  <1>7. M # C
    <2> SUFFICES ASSUME M = C PROVE FALSE OBVIOUS
    <2>1. CaseValues(M) = {val} BY <1>5 DEF CaseValues, Sharing
    <2>2. Cardinality(M) > 1 BY <1>3, <1>6
    <2>3. Unsplittable(M) BY <2>1, <2>2, OneCase
    <2> QED BY <2>3 DEF Stuck
  <1> QED BY <1>3, <1>6, <1>7

\* Whether anything is stuck is a matter of the patterns alone.
LEMMA StuckKeep ==
  ASSUME UNCHANGED patterns
  PROVE  /\ Stuck' = Stuck
         /\ \A S : Unsplittable(S)' = Unsplittable(S)
  <1>1. \A S : CaseValues(S)' = CaseValues(S)
    <2>1. \A S : CommonMask(S)' = CommonMask(S) BY DEF CommonMask
    <2> QED BY <2>1 DEF CaseValues
  <1>2. \A S : Unsplittable(S)' = Unsplittable(S) BY <1>1 DEF Unsplittable
  <1> QED BY <1>2 DEF Stuck

\* The group constructed is replaced by its own groups.
LEMMA ConstructSplit ==
  ASSUME ReadInv, TreeInv, SplitInv, phase = "group", NEW g \in pending,
         pending' = (pending \ {g}) \cup Children(g),
         UNCHANGED <<patterns, phase>>
  PROVE  SplitInv'
  <1> DEFINE M == g.members
  <1>1. M \in SUBSET DOMAIN patterns /\ g.path \in Path
    BY DEF TreeInv, Members
  <1>2. ASSUME NEW S \in SUBSET DOMAIN patterns, Unsplittable(S)
        PROVE  \E h \in pending' : S \subseteq h.members
    <2>1. PICK h \in pending : S \subseteq h.members BY <1>2 DEF SplitInv
    <2>2. CASE h # g BY <2>1, <2>2
    <2>3. CASE h = g
      <3>1. PICK val \in CaseValues(M) \ LeafValues(M) : S \subseteq Sharing(M, val)
        BY <1>1, <1>2, <2>1, <2>3, StaysTogether
      <3>2. [path |-> Append(g.path, val), members |-> Sharing(M, val)] \in pending'
        BY <3>1 DEF Children
      <3> QED BY <3>1, <3>2
    <2> QED BY <2>2, <2>3
  <1>3. ASSUME ~Stuck, NEW h \in pending'
        PROVE  Shrinks(h)
    <2>1. CASE h \in pending BY <1>3, <2>1 DEF SplitInv
    <2>2. CASE h \in Children(g)
      <3>1. PICK val \in CaseValues(M) \ LeafValues(M) :
              h = [path |-> Append(g.path, val), members |-> Sharing(M, val)]
        BY <2>2 DEF Children
      <3>2. val \in SUBSET WordBits BY <1>1, CaseType
      <3>3. Len(h.path) = Len(g.path) + 1 /\ Len(g.path) \in Nat
        BY <1>1, <3>1, <3>2, AppendPath DEF Path
      <3>4. /\ Cardinality(M) \in Nat /\ Cardinality(h.members) \in Nat
            /\ Cardinality(h.members) >= 2
            /\ Cardinality(h.members) + 1 <= Cardinality(M)
        BY <1>1, <1>3, <3>1, CaseShrinks
      <3>5. Len(g.path) + Cardinality(M) <= Len(patterns)
        BY <1>3 DEF SplitInv, Shrinks
      <3>6. Len(patterns) \in Nat BY LenProperties DEF ReadInv
      <3> QED BY <3>3, <3>4, <3>5, <3>6 DEF Shrinks
    <2> QED BY <2>1, <2>2
  <1>4. Stuck' = Stuck /\ \A S : Unsplittable(S)' = Unsplittable(S) BY StuckKeep
  <1>5. \A h : Shrinks(h)' = Shrinks(h) BY DEF Shrinks
  <1> QED BY <1>2, <1>3, <1>4, <1>5 DEF SplitInv

LEMMA SplitStep ==
  ASSUME ReadInv, TreeInv, SplitInv, Generate,
         phase \in {"read", "group", "done"} \cup Failures
  PROVE  SplitInv'
  <1>0. Len(patterns) \in Nat /\ DOMAIN patterns = 1 .. Len(patterns)
    BY LenProperties DEF ReadInv
  <1>1. CASE ReadLine
    BY <1>1 DEF ReadLine, SplitInv
  <1>2. CASE StartGrouping
    <2>1. /\ phase' = "group" /\ UNCHANGED patterns
          /\ pending' = {[path |-> <<>>, members |-> DOMAIN patterns]}
      BY <1>2 DEF StartGrouping
    <2>2. Cardinality(DOMAIN patterns) = Len(patterns)
      <3> DEFINE n == Len(patterns)
      <3>1. 1 \in Int /\ n \in Int BY <1>0
      <3>2. Cardinality(1 .. n) = IF 1 > n THEN 0 ELSE n - 1 + 1
        BY <3>1, FS_Interval
      <3> QED BY <1>0, <3>2
    <2>3. \A g \in pending' : Shrinks(g)' BY <1>0, <2>1, <2>2, EmptySeq DEF Shrinks
    <2> QED BY <2>1, <2>3 DEF SplitInv
  <1>3. CASE Construct
    <2>1. PICK g \in pending :
            \/ /\ Len(g.path) >= DEPTH /\ phase' = "recursion"
               /\ UNCHANGED <<pending, tree>>
            \/ /\ pending' = (pending \ {g}) \cup Children(g)
               /\ UNCHANGED phase
      BY <1>3 DEF Construct
    <2>2. phase = "group" /\ UNCHANGED patterns BY <1>3 DEF Construct
    <2>3. CASE phase' = "recursion"
      <3>1. Len(g.path) >= DEPTH BY <2>1, <2>2, <2>3
      <3>2. ASSUME ~Stuck, Len(patterns) <= DEPTH PROVE FALSE
        <4>1. Shrinks(g) BY <2>2, <3>2 DEF SplitInv
        <4>2. g.path # <<>> /\ Len(g.path) \in Nat
          BY <3>1, DepthAssumption, EmptySeq DEF TreeInv, Path
        <4>3. Cardinality(g.members) \in Nat
          BY PatternsFinite, FS_CardinalityType DEF TreeInv, Members
        <4> QED BY <1>0, <3>1, <3>2, <4>1, <4>2, <4>3, DepthAssumption DEF Shrinks
      <3> QED BY <2>2, <2>3, <3>2, StuckKeep DEF SplitInv
    <2>4. CASE phase' # "recursion" BY <2>1, <2>2, <2>4, ConstructSplit
    <2> QED BY <2>3, <2>4
  <1>4. CASE Write
    <2>1. phase = "group" /\ pending = {} /\ UNCHANGED patterns
          /\ phase' \in {"done", "noTarget"}
      BY <1>4 DEF Write
    <2>2. ~Stuck BY <2>1 DEF SplitInv, Stuck
    <2> QED BY <2>1, <2>2, StuckKeep DEF SplitInv
  <1> QED BY <1>1, <1>2, <1>3, <1>4 DEF Generate

LEMMA SplitInvariant == Spec => []SplitInv
  <1>1. Init => SplitInv BY DEF Init, GenInit, SplitInv
  <1>2. DispatchInv /\ SplitInv /\ [Next]_vars => SplitInv'
    <2> SUFFICES ASSUME DispatchInv, SplitInv, [Next]_vars PROVE SplitInv' OBVIOUS
    <2>1. CASE Generate
      BY <2>1, SplitStep DEF DispatchInv, WalkInv
    <2>2. CASE UNCHANGED genVars
      <3>1. UNCHANGED <<pending, phase, patterns>> BY <2>2 DEF genVars
      <3>2. \A h : Shrinks(h)' = Shrinks(h) BY <3>1 DEF Shrinks
      <3> QED BY <3>1, <3>2, StuckKeep DEF SplitInv
    <2>3. Generate \/ UNCHANGED genVars
      BY DEF Next, Enter, Decide, Return, NoTree, vars
    <2> QED BY <2>1, <2>2, <2>3
  <1> QED BY <1>1, <1>2, DispatchInvariant, PTL DEF Spec

(* Dispatch.FailsIffUnsplittable for every number of patterns up to the    *)
(* depth of calls Python allows, over all subsets of them: a tree is only  *)
(* written when every set of patterns can be taken apart, and the          *)
(* constructor only nests too deep when one cannot                         *)
(* (generate_tree.py:27-35).                                               *)
THEOREM RecursesIffUnsplittable ==
  Spec => [](Len(patterns) <= DEPTH /\ phase \in {"recursion", "done"} =>
               (phase = "recursion" <=> \E S \in SUBSET DOMAIN patterns : Unsplittable(S)))
  <1>1. SplitInv =>
          (Len(patterns) <= DEPTH /\ phase \in {"recursion", "done"} =>
             (phase = "recursion" <=> \E S \in SUBSET DOMAIN patterns : Unsplittable(S)))
    BY DEF SplitInv, Stuck
  <1> QED BY <1>1, SplitInvariant, PTL

(* Dispatch.FailsIffUnsplittable as the runs check it.                     *)
THEOREM SmallListFailsIffUnsplittable ==
  ASSUME ExhaustiveTo <= DEPTH
  PROVE  Spec => []FailsIffUnsplittable
  <1>1. DispatchInv /\ SplitInv => FailsIffUnsplittable
    <2>1. ReadInv => Len(patterns) \in Nat BY LenProperties DEF ReadInv
    <2> QED
      BY <2>1, DepthAssumption
         DEF DispatchInv, SplitInv, Stuck, FailsIffUnsplittable, ExhaustiveTo
  <1> QED BY <1>1, DispatchInvariant, SplitInvariant, PTL

=============================================================================
