------------------------------- MODULE BaseOp -------------------------------
(***************************************************************************)
(* The two files the decoding stands on: patterns.txt as the generator     *)
(* reads it, and the tree of base_op.cpp as it is checked in.              *)
(***************************************************************************)
EXTENDS TreeGen

Skip == [kind |-> "skip", mask |-> {}, fb |-> {}, name |-> ""]
Pattern(mask, fb, name) ==
  [kind |-> "pattern", mask |-> mask, fb |-> fb, name |-> name]

\* 32 characters of 0, 1 and . as the mask and the bits they stand for.
Line(maskHi, maskLo, hi, lo, name) ==
  Pattern(BitsOf(maskHi, maskLo), BitsOf(hi, lo), name)

PatternsTxt ==
  << Skip, Skip, Skip, Line(\h7f80, \h0000, \h1100, \h0000, "AddImm"),
     Line(\h7f80, \h0000, \h3100, \h0000, "AddsImm"),
     Line(\h7f80, \h0000, \h5100, \h0000, "SubImm"),
     Line(\h7f80, \h0000, \h7100, \h0000, "SubsImm"),
     Skip, Line(\hfc00, \h0000, \h1400, \h0000, "B"),
     Line(\hfc00, \h0000, \h9400, \h0000, "Bl"),
     Skip, Line(\h7fe0, \h0c00, \h1a80, \h0400, "Csinc"),
     Line(\h7f00, \h0000, \h3700, \h0000, "Tbnz"),
     Skip, Line(\h7f80, \h0000, \h5280, \h0000, "Movz"),
     Skip, Line(\h7f20, \h0000, \h2a00, \h0000, "OrrSh"),
     Skip, Line(\hffff, \hfc1f, \hd65f, \h0000, "Ret"),
     Skip, Line(\h7fc0, \h0000, \h2880, \h0000, "Stp"),
     Line(\h7fc0, \h0000, \h2980, \h0000, "Stp"),
     Line(\h7fc0, \h0000, \h2900, \h0000, "Stp"),
     Skip, Line(\h7fc0, \h0000, \h28c0, \h0000, "Ldp"),
     Line(\h7fc0, \h0000, \h29c0, \h0000, "Ldp"),
     Line(\h7fc0, \h0000, \h2940, \h0000, "Ldp"),
     Skip, Line(\hbfe0, \h0c00, \hb800, \h0400, "StrImm"),
     Line(\hbfe0, \h0c00, \hb800, \h0c00, "StrImm"),
     Line(\hbfc0, \h0000, \hb900, \h0000, "StrImm"),
     Skip, Line(\hbfe0, \h0c00, \hb840, \h0400, "LdrImm"),
     Line(\hbfe0, \h0c00, \hb840, \h0c00, "LdrImm"),
     Line(\hbfc0, \h0000, \hb940, \h0000, "LdrImm"),
     Skip, Line(\hbfe0, \h0c00, \hb800, \h0000, "Stur"),
     Line(\hbfe0, \h0c00, \hb840, \h0000, "Stur"),
     Skip, Line(\h9f00, \h0000, \h9000, \h0000, "Adrp") >>

-----------------------------------------------------------------------------
Hi(hi) == BitsOf(hi, 0)
Cases(mask, leaf, subs) == [mask |-> mask, leaf |-> leaf, subs |-> subs]

BaseOpTree ==
     <<>> :> Cases(Hi(\h1c00), <<>>,
       {Hi(\h1000), Hi(\h1400), Hi(\h1800), Hi(\h0800)})
  @@ <<Hi(\h1000)>> :> Cases(Hi(\h1f00),
       Hi(\h1200) :> "Movz" @@ Hi(\h1000) :> "Adrp", {Hi(\h1100)})
  @@ <<Hi(\h1000), Hi(\h1100)>> :> Cases(Hi(\h7f80),
       Hi(\h1100) :> "AddImm" @@ Hi(\h3100) :> "AddsImm" @@
       Hi(\h5100) :> "SubImm" @@ Hi(\h7100) :> "SubsImm", {})
  @@ <<Hi(\h1400)>> :> Cases(Hi(\h7c00),
       Hi(\h3400) :> "Tbnz" @@ Hi(\h5400) :> "Ret", {Hi(\h1400)})
  @@ <<Hi(\h1400), Hi(\h1400)>> :> Cases(Hi(\hfc00),
       Hi(\h1400) :> "B" @@ Hi(\h9400) :> "Bl", {})
  @@ <<Hi(\h1800)>> :> Cases(Hi(\h3fc0),
       Hi(\h1a80) :> "Csinc" @@ Hi(\h3900) :> "StrImm" @@ Hi(\h3940) :> "LdrImm",
       {Hi(\h3800), Hi(\h3840)})
  @@ <<Hi(\h1800), Hi(\h3800)>> :> Cases(BitsOf(\hbfe0, \h0c00),
       BitsOf(\hb800, \h0400) :> "StrImm" @@ BitsOf(\hb800, \h0c00) :> "StrImm" @@
       Hi(\hb800) :> "Stur", {})
  @@ <<Hi(\h1800), Hi(\h3840)>> :> Cases(BitsOf(\hbfe0, \h0c00),
       BitsOf(\hb840, \h0400) :> "LdrImm" @@ BitsOf(\hb840, \h0c00) :> "LdrImm" @@
       Hi(\hb840) :> "Stur", {})
  @@ <<Hi(\h0800)>> :> Cases(Hi(\h7f00),
       Hi(\h2a00) :> "OrrSh", {Hi(\h2800), Hi(\h2900)})
  @@ <<Hi(\h0800), Hi(\h2800)>> :> Cases(Hi(\h7fc0),
       Hi(\h2880) :> "Stp" @@ Hi(\h28c0) :> "Ldp", {})
  @@ <<Hi(\h0800), Hi(\h2900)>> :> Cases(Hi(\h7fc0),
       Hi(\h2980) :> "Stp" @@ Hi(\h2900) :> "Stp" @@
       Hi(\h29c0) :> "Ldp" @@ Hi(\h2940) :> "Ldp", {})
=============================================================================
