------------------------------- MODULE MCTree -------------------------------
(***************************************************************************)
(* The generator on every list of up to two patterns over three bits and   *)
(* every set of three, on lists with comments and malformed lines, and on  *)
(* patterns.txt itself; then the dispatch of words through what it left.   *)
(***************************************************************************)
EXTENDS Dispatch, SequencesExt

Few == {0, 1, 2}   \* the bits the short patterns fix or leave open
ShortPatterns ==
  UNION {{Pattern(mask, fb, "op") : fb \in SUBSET mask} : mask \in SUBSET Few}

\* Every line gets a name of its own.
Names == <<"op1", "op2", "op3">>
Named(list) == [k \in DOMAIN list |-> [list[k] EXCEPT !.name = Names[k]]]
Bad == [Skip EXCEPT !.kind = "bad"]

OfTwo == {Named(<<p, q>>) : p, q \in ShortPatterns}
OfThree == {Named(SetToSeq({p, q, s})) : p, q, s \in ShortPatterns}
Odd == {<<>>, <<Skip>>, <<Bad>>}
       \cup UNION {{<<p>>, <<Skip, p>>, <<p, Bad>>} : p \in ShortPatterns}

Run(list, old, out) == [lines |-> list, old |-> old, out |-> out]
ShortRuns == {Run(l, <<>>, TRUE) : l \in OfTwo \cup OfThree \cup Odd}
RealRuns == {Run(PatternsTxt, BaseOpTree, out) : out \in BOOLEAN}
            \cup {Run(<<Bad>>, BaseOpTree, TRUE)}
MCInputs == ShortRuns \cup RealRuns
BaseOpOnly == {Run(PatternsTxt, BaseOpTree, FALSE)}

-----------------------------------------------------------------------------
(* Words of each class of encodings, from the fixed fields of ARM64.       *)
Encoded ==
  [ AddImm |-> {BitsOf(\h1100, 0), BitsOf(\h9140, \h0400)},
    AddsImm |-> {BitsOf(\h3100, \h0421), BitsOf(\hb100, \h0421)},
    SubImm |-> {BitsOf(\h5100, \h0400), BitsOf(\hd100, \h83ff)},
    SubsImm |-> {BitsOf(\h7100, \h0508), BitsOf(\hf100, \h0400)},
    OrrSh |-> {BitsOf(\h2a00, \h03e0), BitsOf(\haa1f, \h03e0)},
    Orn |-> {BitsOf(\h2a20, \h03e0)},
    Movz |-> {BitsOf(\h5280, \h0020), BitsOf(\hd2e0, \h0020)},
    Movn |-> {BitsOf(\h1280, 0), BitsOf(\h9280, 0)},
    Movk |-> {BitsOf(\h7280, 0), BitsOf(\hf2a0, 0)},
    LogicalImm |-> {BitsOf(\h1200, 0), BitsOf(\h3200, 0), BitsOf(\h7200, 0)},
    Adrp |-> {BitsOf(\h9000, 0), BitsOf(\hf000, \h0001)},
    Adr |-> {BitsOf(\h1000, 0)},
    Csinc |-> {BitsOf(\h1a9f, \h17e0), BitsOf(\h9a80, \h0400)},
    Csel |-> {BitsOf(\h1a80, 0), BitsOf(\h5a80, 0), BitsOf(\h5a80, \h0400)},
    B |-> {BitsOf(\h1400, \h0001), BitsOf(\h17ff, \hfffd)},
    Bl |-> {BitsOf(\h9400, \h0001), BitsOf(\h97ff, \hfff5)},
    Bcond |-> {BitsOf(\h5400, 0)},
    Br |-> {BitsOf(\hd61f, 0), BitsOf(\hd63f, 0)},
    Svc |-> {BitsOf(\hd400, \h0001), BitsOf(\hd503, \h201f)},
    Ret |-> {BitsOf(\hd65f, \h03c0)},
    Tbnz |-> {BitsOf(\h3700, \h00e8), BitsOf(\hb700, 0)},
    Tbz |-> {BitsOf(\h3600, 0)},
    Cbz |-> {BitsOf(\h3400, 0), BitsOf(\hb400, 0)},
    Cbnz |-> {BitsOf(\h3500, 0)},
    StrImm |-> {BitsOf(\hb900, 0), BitsOf(\hf900, \h07e0), BitsOf(\hb800, \h0400),
                BitsOf(\hf800, \h0c00), BitsOf(\h3900, 0)},
    LdrImm |-> {BitsOf(\hb940, 0), BitsOf(\hf940, \h07e0), BitsOf(\hb840, \h0400),
                BitsOf(\hf840, \h0c00), BitsOf(\h3940, 0)},
    Stur |-> {BitsOf(\hb800, 0), BitsOf(\hf81f, \hc000)},
    Ldur |-> {BitsOf(\hb840, 0), BitsOf(\hf85f, \hc000)},
    Stp |-> {BitsOf(\ha900, \h7bfd), BitsOf(\h2980, 0), BitsOf(\ha8bf, 0)},
    Ldp |-> {BitsOf(\ha940, \h7bfd), BitsOf(\h29c0, 0), BitsOf(\ha8c1, 0)},
    \* AND, UDIV, LDR (literal), STNP, STTRB, STTR, 0, MADD, LDRSW, STR (register)
    Other |-> {BitsOf(\h0a00, 0), BitsOf(\h1ac0, \h0800), BitsOf(\h1800, 0),
               BitsOf(\h2800, 0), BitsOf(\h3800, \h0800), BitsOf(\hb800, \h0800),
               {}, BitsOf(\h9b00, 0), BitsOf(\hb980, 0), BitsOf(\hb820, \h6800)} ]

\* A matching word with the open bits all 0 or all 1, and each fixed bit flipped.
Flip(w, b) == (w \cup {b}) \ (w \cap {b})
Near(p) == {p.fb, p.fb \cup (WordBits \ p.mask)} \cup {Flip(p.fb, b) : b \in p.mask}

ShortWords == SUBSET Few
ClassWords == UNION {Encoded[m] : m \in Mnemonics}
NearWords ==
  UNION {Near(PatternsTxt[k]) : k \in {j \in DOMAIN PatternsTxt : PatternsTxt[j] # Skip}}

MCInstructions(in) ==
  CASE in.old = <<>> -> ShortWords
    [] in.old # <<>> /\ in.out -> ClassWords \cup NearWords
    [] OTHER -> ClassWords

-----------------------------------------------------------------------------
(* The table Session executes by, Handler, is what the walk of base_op.cpp *)
(* makes of the words themselves, of listed and of unlisted encodings.     *)
HandlerTable ==
  Decided /\ file = BaseOpTree =>
    \A m \in Mnemonics : word \in Encoded[m] =>
      handler = IF m = "Other" THEN "unsupported" ELSE Handler(m)

(* base_op.cpp:26, 162: "Instruction is not supported" is the answer to an *)
(* instruction that has no handler: none is run as another instruction.    *)
RunsItsOwn ==
  Decided /\ file = BaseOpTree =>
    \A m \in Mnemonics : word \in Encoded[m] => handler \in {m, "unsupported"}
=============================================================================
