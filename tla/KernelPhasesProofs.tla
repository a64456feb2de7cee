-------------------------- MODULE KernelPhasesProofs --------------------------
(***************************************************************************)
(* What KernelPhases promises for every number of layers, rows, heads,     *)
(* tiles and slabs, every device capacity and every order of the CTAs.     *)
(*                                                                         *)
(* Of a table it uses what PhasesOk says: a phase reads what an earlier    *)
(* one made, no buffer is made twice, a maximum is cleared before it is    *)
(* accumulated.  Stage is what memory holds while a launch is in a phase   *)
(* and some of its CTAs have done their share; it is kept by every share,  *)
(* by the barrier to the next phase and from one call to the next, and at  *)
(* the end of a call it says that the output is complete.                  *)
(***************************************************************************)
EXTENDS KernelPhases, FiniteSetTheorems, TLAPS

-----------------------------------------------------------------------------
(* The tables.                                                             *)

\* The fields of the phases of a table of len phases.
Fields(t, len) ==
  \A p \in 1 .. len :
    /\ t[p].n \in Nat \ {0}
    /\ "x_in" \notin Outputs(t[p])
    /\ "out" \in Outputs(t[p]) <=> p = len
    /\ p = len => t[p].n = Tiles /\ "out" \in t[p].writes
    /\ t[p].writes \cap t[p].adds = {}
    /\ t[p].leads \cap (t[p].writes \cup t[p].adds) = {}

\* A phase reads what an earlier one made, and the input before the output is made.
ReadsMade(t, len) ==
  \A p \in 1 .. len : \A r \in t[p].reads :
    \/ r = "x_in" /\ p < len
    \/ \E q \in 1 .. p - 1 : r \in Made(t[q])

\* What it reads at one piece only was made in the same pieces.
OwnMade(t, len) ==
  \A p \in 1 .. len : \A r \in t[p].own :
    \/ r = "x_in" /\ p = len
    \/ \E q \in 1 .. p - 1 : r \in Made(t[q]) /\ t[q].n = t[p].n

MadeOnce(t, len) == \A p, q \in 1 .. len : Made(t[p]) \cap Made(t[q]) # {} => p = q

\* A maximum is cleared before it is accumulated, and only then.
Cleared(t, len) ==
  /\ \A p \in 1 .. len : \A r \in t[p].adds : \E q \in 1 .. p - 1 : r \in t[q].clears
  /\ \A p \in 1 .. len : \A r \in t[p].clears : \E q \in p + 1 .. len : r \in t[q].adds

\* A grid of g CTAs has one for each piece of a phase claimed by block.
ByBlockFits(t, len, g) == \A p \in 1 .. len : t[p].strided \/ t[p].n <= g

PhasesOk(t) ==
  /\ Len(t) \in Nat \ {0, 1}
  /\ Fields(t, Len(t)) /\ ReadsMade(t, Len(t)) /\ OwnMade(t, Len(t))
  /\ MadeOnce(t, Len(t)) /\ Cleared(t, Len(t))

\* One line of a table.
Row(ph, n, strided, reads, own, writes, adds, clears, leads) ==
  /\ ph.n = n /\ ph.strided = strided
  /\ ph.reads = reads /\ ph.own = own /\ ph.writes = writes
  /\ ph.adds = adds /\ ph.clears = clears /\ ph.leads = leads

\* What is used of the eight tables; the second part of each says how many CTAs its
\* phases claimed by block need.
LEMMA Tmt5FfnOk ==
  /\ PhasesOk(Tmt5Ffn.phases)
  /\ \A g \in Nat : ByBlockFits(Tmt5Ffn.phases, Len(Tmt5Ffn.phases), g)
<1> DEFINE t == Tmt5Ffn.phases
<1> USE DEF Tmt5Ffn, Phase
<1>0. Len(t) = 4
  OBVIOUS
<1>1. Row(t[1], Rows, ClaimStrided,
          {"x_in"}, {}, {"a8buf", "sa0buf"}, {}, {}, {})
  BY DEF Row
<1>2. Row(t[2], Tiles, ClaimStrided,
          {"a8buf", "sa0buf"}, {}, {"gbuf"}, {}, {}, {})
  BY DEF Row
<1>3. Row(t[3], Rows, ClaimStrided,
          {"gbuf"}, {}, {"a8gbuf", "sa1buf"}, {}, {}, {})
  BY DEF Row
<1>4. Row(t[4], Tiles, ClaimStrided,
          {"a8gbuf", "sa1buf"}, {"x_in"}, {"out"}, {}, {}, {})
  BY DEF Row
<1> HIDE DEF t, Tmt5Ffn
<1>5. \A p \in 1 .. 4 : p \in {1, 2, 3, 4}
  OBVIOUS
<1>6. Fields(t, 4)
  BY <1>1, <1>2, <1>3, <1>4, <1>5, KernelAssumption DEF Fields, Row, Made, Outputs
<1>7. ReadsMade(t, 4)
  BY <1>1, <1>2, <1>3, <1>4, <1>5 DEF ReadsMade, Row, Made
<1>8. OwnMade(t, 4)
  BY <1>1, <1>2, <1>3, <1>4, <1>5 DEF OwnMade, Row, Made
<1>9. MadeOnce(t, 4)
  BY <1>1, <1>2, <1>3, <1>4, <1>5 DEF MadeOnce, Row, Made
<1>10. Cleared(t, 4)
  BY <1>1, <1>2, <1>3, <1>4, <1>5 DEF Cleared, Row
<1>11. \A g \in Nat : ByBlockFits(t, 4, g)
  BY <1>1, <1>2, <1>3, <1>4, <1>5, KernelAssumption
  DEF ByBlockFits, Row, ClaimByBlock, ClaimStrided
<1> QED BY <1>0, <1>6, <1>7, <1>8, <1>9, <1>10, <1>11 DEF PhasesOk, t

LEMMA Tmt5AttnOk ==
  /\ PhasesOk(Tmt5Attn.phases)
  /\ \A g \in Nat : Heads <= g => ByBlockFits(Tmt5Attn.phases, Len(Tmt5Attn.phases), g)
<1> DEFINE t == Tmt5Attn.phases
<1> USE DEF Tmt5Attn, Phase
<1>0. Len(t) = 5
  OBVIOUS
<1>1. Row(t[1], Rows, ClaimStrided,
          {"x_in"}, {}, {"a8buf", "sa0buf"}, {}, {}, {})
  BY DEF Row
<1>2. Row(t[2], Tiles, ClaimStrided,
          {"a8buf", "sa0buf"}, {}, {"qkvbuf"}, {}, {}, {})
  BY DEF Row
<1>3. Row(t[3], Heads, ClaimByBlock,
          {"qkvbuf"}, {}, {"attnbuf"}, {}, {}, {})
  BY DEF Row
<1>4. Row(t[4], Rows, ClaimStrided,
          {"attnbuf"}, {}, {"a8obuf", "sa1buf"}, {}, {}, {})
  BY DEF Row
<1>5. Row(t[5], Tiles, ClaimStrided,
          {"a8obuf", "sa1buf"}, {"x_in"}, {"out"}, {}, {}, {})
  BY DEF Row
<1> HIDE DEF t, Tmt5Attn
<1>6. \A p \in 1 .. 5 : p \in {1, 2, 3, 4, 5}
  OBVIOUS
<1>7. Fields(t, 5)
  BY <1>1, <1>2, <1>3, <1>4, <1>5, <1>6, KernelAssumption DEF Fields, Row, Made, Outputs
<1>8. ReadsMade(t, 5)
  BY <1>1, <1>2, <1>3, <1>4, <1>5, <1>6 DEF ReadsMade, Row, Made
<1>9. OwnMade(t, 5)
  BY <1>1, <1>2, <1>3, <1>4, <1>5, <1>6 DEF OwnMade, Row, Made
<1>10. MadeOnce(t, 5)
  BY <1>1, <1>2, <1>3, <1>4, <1>5, <1>6 DEF MadeOnce, Row, Made
<1>11. Cleared(t, 5)
  BY <1>1, <1>2, <1>3, <1>4, <1>5, <1>6 DEF Cleared, Row
<1>12. \A g \in Nat : Heads <= g => ByBlockFits(t, 5, g)
  BY <1>1, <1>2, <1>3, <1>4, <1>5, <1>6, KernelAssumption
  DEF ByBlockFits, Row, ClaimByBlock, ClaimStrided
<1> QED BY <1>0, <1>7, <1>8, <1>9, <1>10, <1>11, <1>12 DEF PhasesOk, t

LEMMA AditSelfOk ==
  /\ PhasesOk(AditSelf.phases)
  /\ \A g \in Nat : Slabs <= g => ByBlockFits(AditSelf.phases, Len(AditSelf.phases), g)
<1> DEFINE t == AditSelf.phases
<1> USE DEF AditSelf, Phase
<1>0. Len(t) = 6
  OBVIOUS
<1>1. Row(t[1], ActionRows, ClaimByBlock,
          {"x_in"}, {}, {"a8x", "sa0x"}, {}, {}, {})
  BY DEF Row
<1>2. Row(t[2], Slabs, ClaimByBlock,
          {"a8x", "sa0x"}, {}, {"qkv"}, {}, {}, {})
  BY DEF Row
<1>3. Row(t[3], Heads, ClaimByBlock,
          {"qkv"}, {}, {"rstd_scratch"}, {}, {}, {})
  BY DEF Row
<1>4. Row(t[4], Heads, ClaimByBlock,
          {"qkv", "rstd_scratch"}, {}, {"attn"}, {}, {}, {})
  BY DEF Row
<1>5. Row(t[5], ActionRows, ClaimByBlock,
          {"attn"}, {}, {"a8a", "sa0a"}, {}, {}, {})
  BY DEF Row
<1>6. Row(t[6], Tiles, ClaimByBlock,
          {"a8a", "sa0a"}, {"x_in"}, {"out"}, {}, {}, {})
  BY DEF Row
<1> HIDE DEF t, AditSelf
<1>7. \A p \in 1 .. 6 : p \in {1, 2, 3, 4, 5, 6}
  OBVIOUS
<1>8. Fields(t, 6)
  BY <1>1, <1>2, <1>3, <1>4, <1>5, <1>6, <1>7, KernelAssumption DEF Fields, Row, Made, Outputs
<1>9. ReadsMade(t, 6)
  BY <1>1, <1>2, <1>3, <1>4, <1>5, <1>6, <1>7 DEF ReadsMade, Row, Made
<1>10. OwnMade(t, 6)
  BY <1>1, <1>2, <1>3, <1>4, <1>5, <1>6, <1>7 DEF OwnMade, Row, Made
<1>11. MadeOnce(t, 6)
  BY <1>1, <1>2, <1>3, <1>4, <1>5, <1>6, <1>7 DEF MadeOnce, Row, Made
<1>12. Cleared(t, 6)
  BY <1>1, <1>2, <1>3, <1>4, <1>5, <1>6, <1>7 DEF Cleared, Row
<1>13. \A g \in Nat : Slabs <= g => ByBlockFits(t, 6, g)
  BY <1>1, <1>2, <1>3, <1>4, <1>5, <1>6, <1>7, KernelAssumption
  DEF ByBlockFits, Row, ClaimByBlock, ClaimStrided
<1> QED BY <1>0, <1>8, <1>9, <1>10, <1>11, <1>12, <1>13 DEF PhasesOk, t

LEMMA AditCrossOk ==
  /\ PhasesOk(AditCross.phases)
  /\ \A g \in Nat : Slabs <= g => ByBlockFits(AditCross.phases, Len(AditCross.phases), g)
<1> DEFINE t == AditCross.phases
<1> USE DEF AditCross, Phase
<1>0. Len(t) = 6
  OBVIOUS
<1>1. Row(t[1], ActionRows, ClaimByBlock,
          {"x_in"}, {}, {"a8q", "sa0q"}, {}, {}, {})
  BY DEF Row
<1>2. Row(t[2], Slabs, ClaimByBlock,
          {"a8q", "sa0q"}, {}, {"qp"}, {}, {}, {})
  BY DEF Row
<1>3. Row(t[3], Heads, ClaimByBlock,
          {"qp"}, {}, {"rstd_scratch"}, {}, {}, {})
  BY DEF Row
<1>4. Row(t[4], Heads, ClaimByBlock,
          {"qp", "rstd_scratch"}, {}, {"attn"}, {}, {}, {})
  BY DEF Row
<1>5. Row(t[5], ActionRows, ClaimByBlock,
          {"attn"}, {}, {"a8o", "sa0o"}, {}, {}, {})
  BY DEF Row
<1>6. Row(t[6], Tiles, ClaimByBlock,
          {"a8o", "sa0o"}, {"x_in"}, {"out"}, {}, {}, {})
  BY DEF Row
<1> HIDE DEF t, AditCross
<1>7. \A p \in 1 .. 6 : p \in {1, 2, 3, 4, 5, 6}
  OBVIOUS
<1>8. Fields(t, 6)
  BY <1>1, <1>2, <1>3, <1>4, <1>5, <1>6, <1>7, KernelAssumption DEF Fields, Row, Made, Outputs
<1>9. ReadsMade(t, 6)
  BY <1>1, <1>2, <1>3, <1>4, <1>5, <1>6, <1>7 DEF ReadsMade, Row, Made
<1>10. OwnMade(t, 6)
  BY <1>1, <1>2, <1>3, <1>4, <1>5, <1>6, <1>7 DEF OwnMade, Row, Made
<1>11. MadeOnce(t, 6)
  BY <1>1, <1>2, <1>3, <1>4, <1>5, <1>6, <1>7 DEF MadeOnce, Row, Made
<1>12. Cleared(t, 6)
  BY <1>1, <1>2, <1>3, <1>4, <1>5, <1>6, <1>7 DEF Cleared, Row
<1>13. \A g \in Nat : Slabs <= g => ByBlockFits(t, 6, g)
  BY <1>1, <1>2, <1>3, <1>4, <1>5, <1>6, <1>7, KernelAssumption
  DEF ByBlockFits, Row, ClaimByBlock, ClaimStrided
<1> QED BY <1>0, <1>8, <1>9, <1>10, <1>11, <1>12, <1>13 DEF PhasesOk, t

LEMMA AditFfnOk ==
  /\ PhasesOk(AditFfn.phases)
  /\ \A g \in Nat : Slabs <= g => ByBlockFits(AditFfn.phases, Len(AditFfn.phases), g)
<1> DEFINE t == AditFfn.phases
<1> USE DEF AditFfn, Phase
<1>0. Len(t) = 4
  OBVIOUS
<1>1. Row(t[1], ActionRows, ClaimByBlock,
          {"x_in"}, {}, {"a8buf", "sa0buf"}, {}, {"raw1"}, {})
  BY DEF Row
<1>2. Row(t[2], Slabs, ClaimByBlock,
          {"a8buf", "sa0buf"}, {}, {"gbuf"}, {"raw1"}, {}, {})
  BY DEF Row
<1>3. Row(t[3], Slabs, ClaimByBlock,
          {"raw1"}, {"gbuf"}, {"a8gbuf"}, {}, {}, {})
  BY DEF Row
<1>4. Row(t[4], Tiles, ClaimByBlock,
          {"a8gbuf", "raw1"}, {"x_in"}, {"out"}, {}, {}, {})
  BY DEF Row
<1> HIDE DEF t, AditFfn
<1>5. \A p \in 1 .. 4 : p \in {1, 2, 3, 4}
  OBVIOUS
<1>6. Fields(t, 4)
  BY <1>1, <1>2, <1>3, <1>4, <1>5, KernelAssumption DEF Fields, Row, Made, Outputs
<1>7. ReadsMade(t, 4)
  BY <1>1, <1>2, <1>3, <1>4, <1>5 DEF ReadsMade, Row, Made
<1>8. OwnMade(t, 4)
  BY <1>1, <1>2, <1>3, <1>4, <1>5 DEF OwnMade, Row, Made
<1>9. MadeOnce(t, 4)
  BY <1>1, <1>2, <1>3, <1>4, <1>5 DEF MadeOnce, Row, Made
<1>10. Cleared(t, 4)
  BY <1>1, <1>2, <1>3, <1>4, <1>5 DEF Cleared, Row
<1>11. \A g \in Nat : Slabs <= g => ByBlockFits(t, 4, g)
  BY <1>1, <1>2, <1>3, <1>4, <1>5, KernelAssumption
  DEF ByBlockFits, Row, ClaimByBlock, ClaimStrided
<1> QED BY <1>0, <1>6, <1>7, <1>8, <1>9, <1>10, <1>11 DEF PhasesOk, t

LEMMA VditSelfOk ==
  /\ PhasesOk(VditSelf.phases)
  /\ \A g \in Nat : Rows <= g => ByBlockFits(VditSelf.phases, Len(VditSelf.phases), g)
<1> DEFINE t == VditSelf.phases
<1> USE DEF VditSelf, Phase
<1>0. Len(t) = 6
  OBVIOUS
<1>1. Row(t[1], Rows, ClaimByBlock,
          {"x_in"}, {}, {"a8x", "sa0x"}, {}, {}, {})
  BY DEF Row
<1>2. Row(t[2], Tiles, ClaimStrided,
          {"a8x", "sa0x"}, {}, {"qkv"}, {}, {}, {})
  BY DEF Row
<1>3. Row(t[3], Rows, ClaimByBlock,
          {"qkv"}, {}, {"qc", "kc", "vc"}, {}, {}, {})
  BY DEF Row
<1>4. Row(t[4], Heads, ClaimByBlock,
          {"qc", "kc", "vc"}, {}, {"attn"}, {}, {}, {})
  BY DEF Row
<1>5. Row(t[5], Rows, ClaimByBlock,
          {"attn"}, {}, {"a8a", "sa0a"}, {}, {}, {})
  BY DEF Row
<1>6. Row(t[6], Tiles, ClaimStrided,
          {"a8a", "sa0a"}, {"x_in"}, {"out"}, {}, {}, {})
  BY DEF Row
<1> HIDE DEF t, VditSelf
<1>7. \A p \in 1 .. 6 : p \in {1, 2, 3, 4, 5, 6}
  OBVIOUS
<1>8. Fields(t, 6)
  BY <1>1, <1>2, <1>3, <1>4, <1>5, <1>6, <1>7, KernelAssumption DEF Fields, Row, Made, Outputs
<1>9. ReadsMade(t, 6)
  BY <1>1, <1>2, <1>3, <1>4, <1>5, <1>6, <1>7 DEF ReadsMade, Row, Made
<1>10. OwnMade(t, 6)
  BY <1>1, <1>2, <1>3, <1>4, <1>5, <1>6, <1>7 DEF OwnMade, Row, Made
<1>11. MadeOnce(t, 6)
  BY <1>1, <1>2, <1>3, <1>4, <1>5, <1>6, <1>7 DEF MadeOnce, Row, Made
<1>12. Cleared(t, 6)
  BY <1>1, <1>2, <1>3, <1>4, <1>5, <1>6, <1>7 DEF Cleared, Row
<1>13. \A g \in Nat : Rows <= g => ByBlockFits(t, 6, g)
  BY <1>1, <1>2, <1>3, <1>4, <1>5, <1>6, <1>7, KernelAssumption
  DEF ByBlockFits, Row, ClaimByBlock, ClaimStrided
<1> QED BY <1>0, <1>8, <1>9, <1>10, <1>11, <1>12, <1>13 DEF PhasesOk, t

LEMMA VditCrossOk ==
  /\ PhasesOk(VditCross.phases)
  /\ \A g \in Nat : Rows <= g => ByBlockFits(VditCross.phases, Len(VditCross.phases), g)
<1> DEFINE t == VditCross.phases
<1> USE DEF VditCross, Phase
<1>0. Len(t) = 6
  OBVIOUS
<1>1. Row(t[1], Rows, ClaimStrided,
          {"x_in"}, {}, {"a8q", "sa0q", "a8c", "sa0c"}, {}, {}, {})
  BY DEF Row
<1>2. Row(t[2], Tiles, ClaimStrided,
          {"a8q", "sa0q", "a8c", "sa0c"}, {}, {"qp", "kvp"}, {}, {}, {})
  BY DEF Row
<1>3. Row(t[3], Rows, ClaimStrided,
          {"qp", "kvp"}, {}, {"qc", "kc", "vc"}, {}, {}, {})
  BY DEF Row
<1>4. Row(t[4], Heads, ClaimByBlock,
          {"qc", "kc", "vc"}, {}, {"attn"}, {}, {}, {})
  BY DEF Row
<1>5. Row(t[5], Rows, ClaimByBlock,
          {"attn"}, {}, {"a8o", "sa0o"}, {}, {}, {})
  BY DEF Row
<1>6. Row(t[6], Tiles, ClaimStrided,
          {"a8o", "sa0o"}, {"x_in"}, {"out"}, {}, {}, {})
  BY DEF Row
<1> HIDE DEF t, VditCross
<1>7. \A p \in 1 .. 6 : p \in {1, 2, 3, 4, 5, 6}
  OBVIOUS
<1>8. Fields(t, 6)
  BY <1>1, <1>2, <1>3, <1>4, <1>5, <1>6, <1>7, KernelAssumption DEF Fields, Row, Made, Outputs
<1>9. ReadsMade(t, 6)
  BY <1>1, <1>2, <1>3, <1>4, <1>5, <1>6, <1>7 DEF ReadsMade, Row, Made
<1>10. OwnMade(t, 6)
  BY <1>1, <1>2, <1>3, <1>4, <1>5, <1>6, <1>7 DEF OwnMade, Row, Made
<1>11. MadeOnce(t, 6)
  BY <1>1, <1>2, <1>3, <1>4, <1>5, <1>6, <1>7 DEF MadeOnce, Row, Made
<1>12. Cleared(t, 6)
  BY <1>1, <1>2, <1>3, <1>4, <1>5, <1>6, <1>7 DEF Cleared, Row
<1>13. \A g \in Nat : Rows <= g => ByBlockFits(t, 6, g)
  BY <1>1, <1>2, <1>3, <1>4, <1>5, <1>6, <1>7, KernelAssumption
  DEF ByBlockFits, Row, ClaimByBlock, ClaimStrided
<1> QED BY <1>0, <1>8, <1>9, <1>10, <1>11, <1>12, <1>13 DEF PhasesOk, t

LEMMA VditFfnOk ==
  /\ PhasesOk(VditFfn.phases)
  /\ \A g \in Nat : Rows <= g => ByBlockFits(VditFfn.phases, Len(VditFfn.phases), g)
<1> DEFINE t == VditFfn.phases
<1> USE DEF VditFfn, Phase
<1>0. Len(t) = 4
  OBVIOUS
<1>1. Row(t[1], Rows, ClaimByBlock,
          {"x_in"}, {}, {"a8buf", "sa0buf"}, {}, {"raw1"}, {})
  BY DEF Row
<1>2. Row(t[2], Tiles, ClaimStrided,
          {"a8buf", "sa0buf"}, {}, {"gbuf"}, {"raw1"}, {}, {})
  BY DEF Row
<1>3. Row(t[3], Rows, ClaimStrided,
          {"gbuf", "raw1"}, {}, {"a8gbuf"}, {}, {}, {"sa1buf"})
  BY DEF Row
<1>4. Row(t[4], Tiles, ClaimStrided,
          {"a8gbuf", "sa1buf"}, {"x_in"}, {"out"}, {}, {}, {})
  BY DEF Row
<1> HIDE DEF t, VditFfn
<1>5. \A p \in 1 .. 4 : p \in {1, 2, 3, 4}
  OBVIOUS
<1>6. Fields(t, 4)
  BY <1>1, <1>2, <1>3, <1>4, <1>5, KernelAssumption DEF Fields, Row, Made, Outputs
<1>7. ReadsMade(t, 4)
  BY <1>1, <1>2, <1>3, <1>4, <1>5 DEF ReadsMade, Row, Made
<1>8. OwnMade(t, 4)
  BY <1>1, <1>2, <1>3, <1>4, <1>5 DEF OwnMade, Row, Made
<1>9. MadeOnce(t, 4)
  BY <1>1, <1>2, <1>3, <1>4, <1>5 DEF MadeOnce, Row, Made
<1>10. Cleared(t, 4)
  BY <1>1, <1>2, <1>3, <1>4, <1>5 DEF Cleared, Row
<1>11. \A g \in Nat : Rows <= g => ByBlockFits(t, 4, g)
  BY <1>1, <1>2, <1>3, <1>4, <1>5, KernelAssumption
  DEF ByBlockFits, Row, ClaimByBlock, ClaimStrided
<1> QED BY <1>0, <1>6, <1>7, <1>8, <1>9, <1>10, <1>11 DEF PhasesOk, t

-----------------------------------------------------------------------------
(* One phase of one call: which memory it has, which pieces its CTAs take, *)
(* and what they do to it.                                                 *)

\* Only the input and the output of a call may be the same memory.
Separate(c) ==
  \A r, s \in Roles(c) : Phys(c, r) = Phys(c, s) => r = s \/ {r, s} = {"x_in", "out"}

Known(c) == PhasesOk(Kernel(c.kernel).phases) /\ Separate(c)

Typed(m)   == \A b \in DOMAIN m : m[b] \in [DOMAIN m[b] -> Int]
Fits(m, c) == \A r \in Roles(c) : Phys(c, r) \in DOMAIN m /\ DOMAIN m[Phys(c, r)] = Pieces(c, r)

MadeBefore(c, p, r) == \E q \in 1 .. p - 1 : r \in Made(PhaseOf(c, q))

\* What PhasesOk says of phase p of a call.
LEMMA PhaseFacts ==
  ASSUME NEW c, Known(c), NEW p \in 1 .. NumPhases(c)
  PROVE  LET ph == PhaseOf(c, p)
         IN  /\ NumPhases(c) \in Nat \ {0, 1} /\ p \in Nat /\ ph.n \in Nat \ {0}
             /\ "x_in" \notin Outputs(ph)
             /\ "out" \in Outputs(ph) <=> p = NumPhases(c)
             /\ p = NumPhases(c) => ph.n = Tiles /\ "out" \in ph.writes
             /\ ph.writes \cap ph.adds = {} /\ ph.leads \cap (ph.writes \cup ph.adds) = {}
             /\ \A r \in ph.reads : (r = "x_in" /\ p < NumPhases(c)) \/ MadeBefore(c, p, r)
             /\ \A r \in ph.own : \/ r = "x_in" /\ p = NumPhases(c)
                                  \/ \E q \in 1 .. p - 1 : /\ r \in Made(PhaseOf(c, q))
                                                           /\ PhaseOf(c, q).n = ph.n
             /\ \A r \in ph.adds : \E q \in 1 .. p - 1 : r \in PhaseOf(c, q).clears
             /\ \A r \in ph.clears : \E q \in p + 1 .. NumPhases(c) : r \in PhaseOf(c, q).adds
             /\ \A q \in 1 .. NumPhases(c) : \A r \in Made(ph) :
                  r \in Made(PhaseOf(c, q)) => q = p
<1> DEFINE t == Kernel(c.kernel).phases
<1>1. NumPhases(c) = Len(t) /\ \A q : PhaseOf(c, q) = t[q]
  BY DEF NumPhases, PhaseOf
<1>2. PhasesOk(t)
  BY DEF Known
<1> HIDE DEF t
<1>3. NumPhases(c) \in Nat \ {0, 1} /\ p \in Nat /\ p \in 1 .. Len(t)
  BY <1>1, <1>2 DEF PhasesOk
<1>4. /\ t[p].n \in Nat \ {0}
      /\ "x_in" \notin Outputs(t[p])
      /\ "out" \in Outputs(t[p]) <=> p = Len(t)
      /\ p = Len(t) => t[p].n = Tiles /\ "out" \in t[p].writes
      /\ t[p].writes \cap t[p].adds = {} /\ t[p].leads \cap (t[p].writes \cup t[p].adds) = {}
  BY <1>2, <1>3 DEF PhasesOk, Fields
<1>5. \A r \in t[p].reads : (r = "x_in" /\ p < Len(t)) \/ \E q \in 1 .. p - 1 : r \in Made(t[q])
  BY <1>2, <1>3 DEF PhasesOk, ReadsMade
<1>6. \A r \in t[p].own : \/ r = "x_in" /\ p = Len(t)
                          \/ \E q \in 1 .. p - 1 : r \in Made(t[q]) /\ t[q].n = t[p].n
  BY <1>2, <1>3 DEF PhasesOk, OwnMade
<1>7. /\ \A r \in t[p].adds : \E q \in 1 .. p - 1 : r \in t[q].clears
      /\ \A r \in t[p].clears : \E q \in p + 1 .. Len(t) : r \in t[q].adds
  BY <1>2, <1>3 DEF PhasesOk, Cleared
<1>8. \A q \in 1 .. Len(t) : \A r \in Made(t[p]) : r \in Made(t[q]) => q = p
  BY <1>2, <1>3 DEF PhasesOk, MadeOnce
<1> QED BY <1>1, <1>3, <1>4, <1>5, <1>6, <1>7, <1>8 DEF MadeBefore

LEMMA RolesOf ==
  ASSUME NEW c, NEW p \in 1 .. NumPhases(c), NEW r \in Touches(PhaseOf(c, p))
  PROVE  r \in Roles(c)
BY DEF Roles

\* The pieces of a buffer are those of the phase that makes it.
LEMMA PiecesOf ==
  ASSUME NEW c, Known(c), NEW p \in 1 .. NumPhases(c), NEW r \in Made(PhaseOf(c, p))
  PROVE  /\ r \in Roles(c) /\ r # "x_in"
         /\ Pieces(c, r) = 1 .. PhaseOf(c, p).n
<1>1. r \in Outputs(PhaseOf(c, p)) /\ r \in Roles(c)
  BY RolesOf DEF Outputs, Touches
<1>2. r # "x_in"
  BY <1>1, PhaseFacts
<1>3. CASE r = "out"
  BY <1>1, <1>3, PhaseFacts DEF Pieces
<1>4. CASE r # "out"
  <2>1. \A q \in 1 .. NumPhases(c) : r \in Made(PhaseOf(c, q)) <=> q = p
    BY PhaseFacts
  <2>2. {q \in 1 .. NumPhases(c) : r \in Made(PhaseOf(c, q))} = {p}
    BY <2>1
  <2>3. Pieces(c, r) = UNION {1 .. PhaseOf(c, q).n : q \in {p}}
    BY <1>2, <1>4, <2>2 DEF Pieces
  <2> QED BY <1>1, <1>2, <2>3
<1> QED BY <1>1, <1>2, <1>3, <1>4

LEMMA InputPieces == \A c : Pieces(c, "x_in") = 1 .. Tiles /\ Pieces(c, "out") = 1 .. Tiles
BY DEF Pieces

\* The CTAs of a grid share the pieces: none is taken twice ...
LEMMA Shares ==
  ASSUME NEW ph, ph.n \in Nat \ {0}, NEW g \in Nat \ {0},
         NEW B \in SUBSET (0 .. g - 1), NEW b \in (0 .. g - 1) \ B
  PROVE  /\ Share(ph, B \cup {b}, g) = Share(ph, B, g) \cup Share(ph, {b}, g)
         /\ Share(ph, B, g) \cap Share(ph, {b}, g) = {}
         /\ Share(ph, B, g) \subseteq 1 .. ph.n /\ Share(ph, {b}, g) \subseteq 1 .. ph.n
<1>1. \A S : Share(ph, S, g) = {u \in 1 .. ph.n : \E x \in S : u \in Claimed(ph, x, g)}
  BY DEF Share, Claimed
<1>2. ASSUME NEW x, NEW y, NEW u, u \in Claimed(ph, x, g), u \in Claimed(ph, y, g),
             x \in 0 .. g - 1, y \in 0 .. g - 1
      PROVE  x = y
  BY <1>2 DEF Claimed
<1>3. ASSUME NEW u \in Share(ph, B, g), u \in Share(ph, {b}, g)
      PROVE  FALSE
  <2>1. PICK x \in B : u \in Claimed(ph, x, g)
    BY <1>1, <1>3
  <2>2. u \in Claimed(ph, b, g)
    BY <1>1, <1>3
  <2> QED BY <1>2, <2>1, <2>2
<1> QED BY <1>1, <1>3

LEMMA NoShare == \A ph, g : Share(ph, {}, g) = {}
BY DEF Share

\* ... and none is left when there are as many CTAs as pieces or the pieces are strided
\* over them.
LEMMA AllShared ==
  ASSUME NEW ph, ph.n \in Nat \ {0}, NEW g \in Nat \ {0}, ph.strided \/ ph.n <= g
  PROVE  Share(ph, 0 .. g - 1, g) = 1 .. ph.n
<1>1. ASSUME NEW u \in 1 .. ph.n
      PROVE  \E b \in 0 .. g - 1 : u \in Claimed(ph, b, g)
  <2>1. CASE ph.strided
    <3>1. (u - 1) % g \in 0 .. g - 1
      OBVIOUS
    <3> QED BY <2>1, <3>1 DEF Claimed
  <2>2. CASE ~ph.strided
    <3>1. u - 1 \in 0 .. g - 1 /\ u = (u - 1) + 1
      BY <2>2
    <3> QED BY <2>2, <3>1 DEF Claimed
  <2> QED BY <2>1, <2>2
<1>2. \A b : Claimed(ph, b, g) \subseteq 1 .. ph.n
  BY DEF Claimed
<1> QED BY <1>1, <1>2 DEF Share

\* What becomes of a piece, by the way the phase writes it.
LEMMA AfterCases ==
  ASSUME NEW c, Known(c), NEW p \in 1 .. NumPhases(c), NEW m, NEW k, NEW B, NEW g, NEW r, NEW u
  PROVE  LET ph  == PhaseOf(c, p)
             old == m[Phys(c, r)][u]
             new == After(m, c, k, ph, B, g, r, u)
         IN  /\ r \in ph.leads =>
                  new = IF 0 \in B THEN (IF Ready(m, c, k, ph) THEN k ELSE Garbage) ELSE old
             /\ r \in ph.writes =>
                  new = IF u \in Share(ph, B, g)
                        THEN (IF Fed(m, c, k, ph, u) THEN k ELSE Garbage) ELSE old
             /\ r \in ph.adds =>
                  new = IF u \in Share(ph, B, g)
                        THEN (IF Fed(m, c, k, ph, u) /\ old \in {Zero, k} THEN k ELSE Garbage)
                        ELSE old
             /\ r \in ph.clears => new = IF 0 \in B THEN Zero ELSE old
<1> DEFINE ph == PhaseOf(c, p)
<1>1. r \in ph.clears => r \notin Made(ph)
  <2> SUFFICES ASSUME r \in ph.clears, r \in Made(ph) PROVE FALSE
    OBVIOUS
  <2>1. PICK q \in p + 1 .. NumPhases(c) : r \in PhaseOf(c, q).adds
    BY PhaseFacts
  <2>2. q \in 1 .. NumPhases(c) /\ q # p /\ r \in Made(PhaseOf(c, q))
    BY <2>1, PhaseFacts DEF Made
  <2> QED BY <2>2, PhaseFacts
<1>2. ph.writes \cap ph.adds = {} /\ ph.leads \cap (ph.writes \cup ph.adds) = {}
  BY PhaseFacts
<1>3. CASE r \in ph.leads
  BY <1>1, <1>2, <1>3 DEF After, Made
<1>4. CASE r \in ph.writes
  BY <1>1, <1>2, <1>4 DEF After, Made
<1>5. CASE r \in ph.adds
  BY <1>1, <1>2, <1>5 DEF After, Made
<1>6. CASE r \in ph.clears
  BY <1>1, <1>6 DEF After, Made
<1> QED BY <1>3, <1>4, <1>5, <1>6

\* A step of the device leaves the shape of the memory, and what the phase does not
\* write.
LEMMA EffectShape ==
  ASSUME NEW m, Typed(m), NEW c, NEW k \in Nat, NEW ph, NEW B, NEW g
  PROVE  LET e == Effect(m, c, k, ph, B, g)
         IN  /\ Typed(e) /\ DOMAIN e = DOMAIN m
             /\ \A b \in DOMAIN m : DOMAIN e[b] = DOMAIN m[b]
             /\ \A b \in DOMAIN m : (\A r \in Outputs(ph) : Phys(c, r) # b) => e[b] = m[b]
<1> DEFINE e == Effect(m, c, k, ph, B, g)
<1>1. DOMAIN e = DOMAIN m
  BY DEF Effect
<1>2. ASSUME NEW b \in DOMAIN m, \A r \in Outputs(ph) : Phys(c, r) # b
      PROVE  e[b] = m[b]
  BY <1>2 DEF Effect
<1>3. ASSUME NEW b \in DOMAIN m, NEW s \in Outputs(ph), Phys(c, s) = b
      PROVE  DOMAIN e[b] = DOMAIN m[b] /\ e[b] \in [DOMAIN m[b] -> Int]
  <2> DEFINE r == CHOOSE x \in Outputs(ph) : Phys(c, x) = b
  <2>1. Phys(c, r) = b
    BY <1>3
  <2>2. e[b] = [u \in DOMAIN m[b] |-> After(m, c, k, ph, B, g, r, u)]
    BY <1>3 DEF Effect
  <2> HIDE DEF r
  <2>3. ASSUME NEW u \in DOMAIN m[b]
        PROVE  After(m, c, k, ph, B, g, r, u) \in Int
    <3>1. m[Phys(c, r)][u] \in Int
      BY <2>1 DEF Typed
    <3>2. k \in Int /\ Zero \in Int /\ Garbage \in Int
      BY DEF Zero, Garbage
    <3> HIDE DEF e
    <3> QED BY <3>1, <3>2 DEF After
  <2> HIDE DEF e
  <2> QED BY <2>2, <2>3
<1>4. \A b \in DOMAIN m : DOMAIN e[b] = DOMAIN m[b] /\ e[b] \in [DOMAIN m[b] -> Int]
  <2> HIDE DEF e
  <2> QED BY <1>2, <1>3 DEF Typed
<1> HIDE DEF e
<1>5. Typed(e)
  BY <1>1, <1>4 DEF Typed
<1> QED BY <1>1, <1>2, <1>4, <1>5 DEF e

\* The piece u behind role r after a share.  The input is also what it was, although it
\* may be the memory of the output: until the last phase, and then at the pieces that
\* are not yet claimed.
LEMMA EffectAt ==
  ASSUME NEW c, Known(c), NEW p \in 1 .. NumPhases(c), NEW m, Fits(m, c),
         NEW k, NEW B, NEW g, NEW r \in Roles(c), NEW u \in Pieces(c, r)
  PROVE  LET ph == PhaseOf(c, p)
             e  == Effect(m, c, k, ph, B, g)
         IN  /\ r \in Outputs(ph) => e[Phys(c, r)][u] = After(m, c, k, ph, B, g, r, u)
             /\ r \notin Outputs(ph) /\ (r = "x_in" => p < NumPhases(c) \/ u \notin Share(ph, B, g))
                  => e[Phys(c, r)][u] = m[Phys(c, r)][u]
<1> DEFINE ph == PhaseOf(c, p)
           e  == Effect(m, c, k, ph, B, g)
           b  == Phys(c, r)
<1>0. /\ b \in DOMAIN m /\ u \in DOMAIN m[b] /\ Outputs(ph) \subseteq Roles(c)
      /\ "x_in" \notin Outputs(ph)
  BY RolesOf, PhaseFacts DEF Fits, Touches
<1>1. ASSUME NEW s \in Outputs(ph), Phys(c, s) = b
      PROVE  s = r \/ (r = "x_in" /\ s = "out")
  <2>1. s = r \/ {s, r} = {"x_in", "out"}
    BY <1>0, <1>1 DEF Known, Separate
  <2> QED BY <1>0, <2>1
<1>2. CASE r \in Outputs(ph)
  <2>1. (CHOOSE s \in Outputs(ph) : Phys(c, s) = b) = r
    BY <1>0, <1>1, <1>2
  <2> QED BY <1>0, <1>2, <2>1 DEF Effect
<1>3. CASE r \notin Outputs(ph) /\ \A s \in Outputs(ph) : Phys(c, s) # b
  BY <1>0, <1>3 DEF Effect
<1>4. ASSUME r \notin Outputs(ph), NEW s \in Outputs(ph), Phys(c, s) = b,
             r = "x_in" => p < NumPhases(c) \/ u \notin Share(ph, B, g)
      PROVE  e[b][u] = m[b][u]
  <2>1. r = "x_in" /\ s = "out"
    BY <1>1, <1>4
  <2>2. p = NumPhases(c) /\ "out" \in ph.writes /\ p \in Nat
    BY <1>4, <2>1, PhaseFacts
  <2>3. u \notin Share(ph, B, g)
    BY <1>4, <2>1, <2>2
  <2>4. (CHOOSE x \in Outputs(ph) : Phys(c, x) = b) = "out"
    BY <1>0, <1>1, <1>4, <2>1
  <2>5. e[b][u] = After(m, c, k, ph, B, g, "out", u)
    BY <1>0, <1>4, <2>4 DEF Effect
  <2>6. After(m, c, k, ph, B, g, "out", u) = m[Phys(c, "out")][u]
    BY <2>2, <2>3, AfterCases
  <2> QED BY <1>4, <2>1, <2>5, <2>6
<1> QED BY <1>2, <1>3, <1>4

-----------------------------------------------------------------------------
(* How far a call has come.  In phase p of the k-th call, when the CTAs B  *)
(* of a grid of g have done their share of it: what earlier phases and B   *)
(* made is there, a maximum that is still to be accumulated is zero, and   *)
(* the input is there until the last phase writes over it.                 *)

Covers(ph, B, g, r, u) == IF r \in ph.leads THEN 0 \in B ELSE u \in Share(ph, B, g)

Wiped(c, p, B, r) ==
  \E q \in p + 1 .. NumPhases(c) :
    /\ r \in PhaseOf(c, q).adds
    /\ \E w \in 1 .. p : r \in PhaseOf(c, w).clears /\ (w = p => 0 \in B)

Piece(m, c, k, p, B, g, r, u) ==
  LET ph == PhaseOf(c, p)
      v  == m[Phys(c, r)][u]
  IN  /\ MadeBefore(c, p, r) => v = k
      /\ r \in Made(ph) /\ Covers(ph, B, g, r, u) => v = k
      /\ r \in ph.adds /\ u \notin Share(ph, B, g) => v = Zero
      /\ Wiped(c, p, B, r) => v = Zero
      /\ r = "x_in" /\ (p < NumPhases(c) \/ u \notin Share(ph, B, g)) => v = k - 1

Stage(m, c, k, p, B, g) ==
  \A r \in Roles(c) : \A u \in Pieces(c, r) : Piece(m, c, k, p, B, g, r, u)

\* What a phase reads is there, whatever its other CTAs have done.
LEMMA StageReady ==
  ASSUME NEW c, Known(c), NEW p \in 1 .. NumPhases(c), NEW m, Fits(m, c), NEW k,
         NEW B, NEW g, Stage(m, c, k, p, B, g)
  PROVE  Ready(m, c, k, PhaseOf(c, p))
<1> DEFINE ph == PhaseOf(c, p)
<1> SUFFICES ASSUME NEW r \in ph.reads, NEW u \in DOMAIN m[Phys(c, r)]
             PROVE  m[Phys(c, r)][u] = Expect(k, r)
  BY DEF Ready
<1>1. r \in Roles(c) /\ u \in Pieces(c, r)
  <2>1. r \in Roles(c)
    BY RolesOf DEF Touches
  <2> QED BY <2>1 DEF Fits
<1>2. Piece(m, c, k, p, B, g, r, u)
  BY <1>1 DEF Stage
<1>3. CASE r = "x_in" /\ p < NumPhases(c)
  BY <1>2, <1>3 DEF Piece, Expect
<1>4. CASE MadeBefore(c, p, r)
  <2>1. PICK q \in 1 .. p - 1 : r \in Made(PhaseOf(c, q))
    BY <1>4 DEF MadeBefore
  <2>2. q \in 1 .. NumPhases(c)
    BY <2>1, PhaseFacts
  <2>3. r # "x_in"
    BY <2>1, <2>2, PiecesOf
  <2> QED BY <1>2, <1>4, <2>3 DEF Piece, Expect
<1> QED BY <1>3, <1>4, PhaseFacts

\* And what it reads at the piece it writes, until it has written it.
LEMMA StageFed ==
  ASSUME NEW c, Known(c), NEW p \in 1 .. NumPhases(c), NEW m, Fits(m, c), NEW k,
         NEW B, NEW g, Stage(m, c, k, p, B, g),
         NEW u \in 1 .. PhaseOf(c, p).n, u \notin Share(PhaseOf(c, p), B, g)
  PROVE  Fed(m, c, k, PhaseOf(c, p), u)
<1> DEFINE ph == PhaseOf(c, p)
<1> SUFFICES ASSUME NEW r \in ph.own
             PROVE  m[Phys(c, r)][u] = Expect(k, r)
  BY StageReady DEF Fed
<1>1. r \in Roles(c)
  BY RolesOf DEF Touches
<1>2. CASE r = "x_in" /\ p = NumPhases(c)
  <2>1. u \in Pieces(c, r)
    BY <1>2, InputPieces, PhaseFacts
  <2>2. Piece(m, c, k, p, B, g, r, u)
    BY <1>1, <2>1 DEF Stage
  <2> QED BY <1>2, <2>2 DEF Piece, Expect
<1>3. ASSUME NEW q \in 1 .. p - 1, r \in Made(PhaseOf(c, q)), PhaseOf(c, q).n = ph.n
      PROVE  m[Phys(c, r)][u] = Expect(k, r)
  <2>1. q \in 1 .. NumPhases(c)
    BY PhaseFacts
  <2>2. r # "x_in" /\ u \in Pieces(c, r)
    BY <1>3, <2>1, PiecesOf
  <2>3. Piece(m, c, k, p, B, g, r, u) /\ MadeBefore(c, p, r)
    BY <1>1, <1>3, <2>2 DEF Stage, MadeBefore
  <2> QED BY <2>2, <2>3 DEF Piece, Expect
<1> QED BY <1>2, <1>3, PhaseFacts

\* What a phase makes is made by no other, so nothing made it before and nothing is
\* still to be cleared or accumulated there.
LEMMA MadeNow ==
  ASSUME NEW c, Known(c), NEW p \in 1 .. NumPhases(c), NEW r \in Made(PhaseOf(c, p)), NEW B
  PROVE  ~MadeBefore(c, p, r) /\ ~Wiped(c, p, B, r) /\ r # "x_in" /\ r \notin PhaseOf(c, p).clears
<1>1. NumPhases(c) \in Nat /\ p \in Nat
  BY PhaseFacts
<1>2. ~MadeBefore(c, p, r)
  BY <1>1, PhaseFacts DEF MadeBefore
<1>3. ASSUME NEW q \in p + 1 .. NumPhases(c), r \in PhaseOf(c, q).adds
      PROVE  FALSE
  <2>1. q \in 1 .. NumPhases(c) /\ q # p /\ r \in Made(PhaseOf(c, q))
    BY <1>1, <1>3 DEF Made
  <2> QED BY <2>1, PhaseFacts
<1>4. ~Wiped(c, p, B, r)
  BY <1>3 DEF Wiped
<1>5. r \notin PhaseOf(c, p).clears
  BY <1>3, PhaseFacts
<1> QED BY <1>2, <1>4, <1>5, PiecesOf

\* One more CTA does its share.
LEMMA ShareDone ==
  ASSUME NEW c, Known(c), NEW p \in 1 .. NumPhases(c), NEW m, Fits(m, c), NEW k,
         NEW g \in Nat \ {0}, NEW B \in SUBSET (0 .. g - 1), NEW b \in (0 .. g - 1) \ B,
         Stage(m, c, k, p, B, g)
  PROVE  Stage(Effect(m, c, k, PhaseOf(c, p), {b}, g), c, k, p, B \cup {b}, g)
<1> DEFINE ph == PhaseOf(c, p)
           e  == Effect(m, c, k, ph, {b}, g)
           C  == B \cup {b}
<1> SUFFICES ASSUME NEW r \in Roles(c), NEW u \in Pieces(c, r)
             PROVE  Piece(e, c, k, p, C, g, r, u)
  BY DEF Stage
<1> DEFINE old == m[Phys(c, r)][u]
           new == e[Phys(c, r)][u]
<1>1. Piece(m, c, k, p, B, g, r, u)
  BY DEF Stage
<1>2. /\ Share(ph, C, g) = Share(ph, B, g) \cup Share(ph, {b}, g)
      /\ Share(ph, B, g) \cap Share(ph, {b}, g) = {}
      /\ Share(ph, {b}, g) \subseteq 1 .. ph.n
  <2>1. ph.n \in Nat \ {0}
    BY PhaseFacts
  <2> HIDE DEF ph
  <2> QED BY <2>1, Shares
<1>3. Ready(m, c, k, ph)
  BY StageReady
<1>4. u \in Share(ph, {b}, g) => Fed(m, c, k, ph, u) /\ u \notin Share(ph, B, g)
  BY <1>2, StageFed
<1>5. r \in Outputs(ph) => new = After(m, c, k, ph, {b}, g, r, u)
  BY EffectAt
<1>6. r \notin Outputs(ph) /\ (r = "x_in" => p < NumPhases(c) \/ u \notin Share(ph, {b}, g))
        => new = old
  BY EffectAt
<1>7. /\ 0 \in C <=> 0 \in B \/ b = 0
      /\ 0 \in {b} <=> b = 0
  OBVIOUS
<1> HIDE DEF e, ph, C
<1>8. CASE r \in Made(ph)
  <2>0. ~MadeBefore(c, p, r) /\ ~Wiped(c, p, C, r) /\ r # "x_in"
    BY <1>8, MadeNow DEF ph
  <2>1. new = After(m, c, k, ph, {b}, g, r, u)
    BY <1>5, <1>8 DEF Outputs
  <2>2. /\ r \in Made(ph) /\ Covers(ph, B, g, r, u) => old = k
        /\ r \in ph.adds /\ u \notin Share(ph, B, g) => old = Zero
    BY <1>1 DEF Piece, ph
  <2>3. ph.writes \cap ph.adds = {} /\ ph.leads \cap (ph.writes \cup ph.adds) = {}
    BY PhaseFacts DEF ph
  <2>4. CASE r \in ph.leads
    <3>1. new = IF b = 0 THEN k ELSE old
      BY <1>3, <1>7, <2>1, <2>4, AfterCases DEF ph
    <3>2. Covers(ph, C, g, r, u) => new = k
      BY <1>7, <1>8, <2>2, <2>4, <3>1 DEF Covers
    <3> QED BY <2>0, <2>3, <2>4, <3>2 DEF Piece, ph
  <2>5. CASE r \in ph.writes
    <3>1. new = IF u \in Share(ph, {b}, g) THEN k ELSE old
      BY <1>4, <2>1, <2>5, AfterCases DEF ph
    <3>2. Covers(ph, C, g, r, u) => new = k
      BY <1>2, <1>8, <2>2, <2>3, <2>5, <3>1 DEF Covers
    <3> QED BY <2>0, <2>3, <2>5, <3>2 DEF Piece, ph
  <2>6. CASE r \in ph.adds
    <3>1. u \in Share(ph, {b}, g) => old = Zero
      BY <1>4, <2>2, <2>6
    <3>2. new = IF u \in Share(ph, {b}, g) THEN k ELSE old
      BY <1>4, <2>1, <2>6, <3>1, AfterCases DEF ph
    <3>3. Covers(ph, C, g, r, u) => new = k
      BY <1>2, <1>8, <2>2, <2>3, <2>6, <3>2 DEF Covers
    <3>4. u \notin Share(ph, C, g) => new = Zero
      BY <1>2, <2>2, <2>6, <3>2
    <3> QED BY <2>0, <3>3, <3>4 DEF Piece, ph
  <2> QED BY <1>8, <2>4, <2>5, <2>6 DEF Made
<1>9. CASE r \notin Made(ph)
  <2>1. r \notin ph.adds
    BY <1>9 DEF Made
  <2>2. MadeBefore(c, p, r) => new = k
    <3>1. ASSUME MadeBefore(c, p, r) PROVE r \notin Outputs(ph) /\ r # "x_in"
      <4>1. PICK q \in 1 .. p - 1 : r \in Made(PhaseOf(c, q))
        BY <3>1 DEF MadeBefore
      <4>2. q \in 1 .. NumPhases(c) /\ q < p /\ p \in Nat
        BY <4>1, PhaseFacts
      <4>3. r # "x_in"
        BY <4>1, <4>2, PiecesOf
      <4>4. r \notin ph.clears
        <5> SUFFICES ASSUME r \in ph.clears PROVE FALSE
          OBVIOUS
        <5>1. PICK a \in p + 1 .. NumPhases(c) : r \in PhaseOf(c, a).adds
          BY PhaseFacts DEF ph
        <5>2. a \in 1 .. NumPhases(c) /\ a # q /\ r \in Made(PhaseOf(c, a))
          BY <4>2, <5>1, PhaseFacts DEF Made
        <5> QED BY <4>1, <4>2, <5>2, PhaseFacts
      <4> QED BY <1>9, <4>3, <4>4 DEF Outputs
    <3> QED BY <1>1, <1>6, <3>1 DEF Piece
  <2>3. Wiped(c, p, C, r) => new = Zero
    <3> SUFFICES ASSUME Wiped(c, p, C, r) PROVE new = Zero
      OBVIOUS
    <3>1. PICK q \in p + 1 .. NumPhases(c), w \in 1 .. p :
            r \in PhaseOf(c, q).adds /\ r \in PhaseOf(c, w).clears /\ (w = p => 0 \in C)
      BY DEF Wiped
    <3>2. q \in 1 .. NumPhases(c) /\ r \in Made(PhaseOf(c, q)) /\ r # "x_in"
      <4>1. q \in 1 .. NumPhases(c) /\ r \in Made(PhaseOf(c, q))
        BY <3>1, PhaseFacts DEF Made
      <4> QED BY <4>1, PiecesOf
    <3>3. CASE w = p /\ b = 0
      <4>1. r \in ph.clears /\ r \in Outputs(ph)
        BY <3>1, <3>3 DEF ph, Outputs
      <4> QED BY <1>5, <1>7, <3>3, <4>1, AfterCases DEF ph
    <3>4. CASE ~(w = p /\ b = 0)
      <4>1. w = p => 0 \in B
        BY <1>7, <3>1, <3>4
      <4>2. old = Zero
        BY <1>1, <3>1, <4>1 DEF Piece, Wiped
      <4>3. CASE r \in ph.clears
        <5>1. new = IF b = 0 THEN Zero ELSE old
          BY <1>5, <1>7, <4>3, AfterCases DEF ph, Outputs
        <5> QED BY <4>2, <5>1
      <4>4. CASE r \notin ph.clears
        BY <1>6, <1>9, <3>2, <4>2, <4>4 DEF Outputs
      <4> QED BY <4>3, <4>4
    <3> QED BY <3>3, <3>4
  <2>4. r = "x_in" /\ (p < NumPhases(c) \/ u \notin Share(ph, C, g)) => new = k - 1
    <3> SUFFICES ASSUME r = "x_in", p < NumPhases(c) \/ u \notin Share(ph, C, g)
                 PROVE  new = k - 1
      OBVIOUS
    <3>1. p < NumPhases(c) \/ (u \notin Share(ph, B, g) /\ u \notin Share(ph, {b}, g))
      BY <1>2
    <3>2. old = k - 1
      BY <1>1, <3>1 DEF Piece, ph
    <3>3. r \notin Outputs(ph)
      BY PhaseFacts DEF ph
    <3> QED BY <1>6, <3>1, <3>2, <3>3
  <2> QED BY <1>9, <2>1, <2>2, <2>3, <2>4 DEF Piece, ph
<1> QED BY <1>8, <1>9

\* When the whole grid has done a phase that it has enough CTAs for, all that the
\* phase makes is there.
LEMMA WholeGrid ==
  ASSUME NEW c, Known(c), NEW p \in 1 .. NumPhases(c), NEW m, NEW k, NEW g \in Nat \ {0},
         PhaseOf(c, p).strided \/ PhaseOf(c, p).n <= g,
         Stage(m, c, k, p, 0 .. g - 1, g),
         NEW r \in Roles(c), NEW u \in Pieces(c, r),
         MadeBefore(c, p, r) \/ r \in Made(PhaseOf(c, p))
  PROVE  m[Phys(c, r)][u] = k
<1> DEFINE ph == PhaseOf(c, p)
<1>1. Piece(m, c, k, p, 0 .. g - 1, g, r, u)
  BY DEF Stage
<1>2. CASE MadeBefore(c, p, r)
  BY <1>1, <1>2 DEF Piece
<1>3. CASE r \in Made(ph)
  <2>1. u \in 1 .. ph.n
    BY <1>3, PiecesOf
  <2>2. ph.n \in Nat \ {0}
    BY PhaseFacts
  <2>3. Share(ph, 0 .. g - 1, g) = 1 .. ph.n
    <3> HIDE DEF ph
    <3>1. ph.strided \/ ph.n <= g
      BY DEF ph
    <3> QED BY <2>2, <3>1, AllShared
  <2>4. Covers(ph, 0 .. g - 1, g, r, u)
    <3>1. 0 \in 0 .. g - 1
      OBVIOUS
    <3>2. u \in Share(ph, 0 .. g - 1, g)
      <4> HIDE DEF ph
      <4> QED BY <2>1, <2>3
    <3> QED BY <3>1, <3>2 DEF Covers
  <2> QED BY <1>1, <1>3, <2>4 DEF Piece
<1> QED BY <1>2, <1>3

\* The next phase begins when the whole grid has done this one.
LEMMA NextPhase ==
  ASSUME NEW c, Known(c), NEW p \in 1 .. NumPhases(c), p < NumPhases(c),
         NEW m, NEW k, NEW g \in Nat \ {0}, NEW h,
         PhaseOf(c, p).strided \/ PhaseOf(c, p).n <= g,
         Stage(m, c, k, p, 0 .. g - 1, g)
  PROVE  Stage(m, c, k, p + 1, {}, h)
<1> SUFFICES ASSUME NEW r \in Roles(c), NEW u \in Pieces(c, r)
             PROVE  Piece(m, c, k, p + 1, {}, h, r, u)
  BY DEF Stage
<1> DEFINE v == m[Phys(c, r)][u]
<1>1. /\ p \in Nat /\ NumPhases(c) \in Nat
      /\ p + 1 \in 1 .. NumPhases(c) /\ (p + 1) - 1 = p /\ p < p + 1
  BY PhaseFacts
<1>2. Piece(m, c, k, p, 0 .. g - 1, g, r, u) /\ 0 \in 0 .. g - 1
  BY DEF Stage
<1>3. Share(PhaseOf(c, p + 1), {}, h) = {}
  BY NoShare
<1>4. MadeBefore(c, p + 1, r) => v = k
  <2> SUFFICES ASSUME MadeBefore(c, p + 1, r) PROVE v = k
    OBVIOUS
  <2>1. PICK q \in 1 .. p : r \in Made(PhaseOf(c, q))
    BY <1>1 DEF MadeBefore
  <2>2. MadeBefore(c, p, r) \/ r \in Made(PhaseOf(c, p))
    <3>1. q = p \/ q \in 1 .. p - 1
      BY <1>1
    <3> QED BY <2>1, <3>1 DEF MadeBefore
  <2> QED BY <2>2, WholeGrid
<1>5. Wiped(c, p, 0 .. g - 1, r) => v = Zero
  BY <1>2 DEF Piece
<1>6. r \in PhaseOf(c, p + 1).adds => v = Zero
  <2> SUFFICES ASSUME r \in PhaseOf(c, p + 1).adds PROVE Wiped(c, p, 0 .. g - 1, r)
    BY <1>5
  <2>1. PICK w \in 1 .. p : r \in PhaseOf(c, w).clears
    BY <1>1, PhaseFacts
  <2>2. p + 1 \in p + 1 .. NumPhases(c)
    BY <1>1
  <2> QED BY <1>2, <2>1, <2>2 DEF Wiped
<1>7. Wiped(c, p + 1, {}, r) => v = Zero
  <2> SUFFICES ASSUME Wiped(c, p + 1, {}, r) PROVE Wiped(c, p, 0 .. g - 1, r)
    BY <1>5
  <2>1. PICK q \in (p + 1) + 1 .. NumPhases(c), w \in 1 .. p + 1 :
          r \in PhaseOf(c, q).adds /\ r \in PhaseOf(c, w).clears /\ w # p + 1
    BY DEF Wiped
  <2>2. q \in p + 1 .. NumPhases(c) /\ w \in 1 .. p
    BY <1>1, <2>1
  <2> QED BY <1>2, <2>1, <2>2 DEF Wiped
<1>8. r = "x_in" => v = k - 1
  BY <1>2 DEF Piece
<1>9. ~Covers(PhaseOf(c, p + 1), {}, h, r, u)
  BY <1>3 DEF Covers
<1> QED BY <1>4, <1>6, <1>7, <1>8, <1>9 DEF Piece

\* A call begins when its input is there.
LEMMA CallBegins ==
  ASSUME NEW c, Known(c), NEW m, NEW k, NEW g,
         "x_in" \in Roles(c) => \A u \in 1 .. Tiles : m[Phys(c, "x_in")][u] = k - 1
  PROVE  Stage(m, c, k, 1, {}, g)
<1> SUFFICES ASSUME NEW r \in Roles(c), NEW u \in Pieces(c, r)
             PROVE  Piece(m, c, k, 1, {}, g, r, u)
  BY DEF Stage
<1>1. NumPhases(c) \in Nat \ {0, 1} /\ 1 \in 1 .. NumPhases(c)
  BY DEF Known, PhasesOk, NumPhases
<1>2. r \notin PhaseOf(c, 1).adds
  BY <1>1, PhaseFacts
<1>3. ~MadeBefore(c, 1, r) /\ ~Wiped(c, 1, {}, r) /\ ~Covers(PhaseOf(c, 1), {}, g, r, u)
  BY NoShare DEF MadeBefore, Wiped, Covers
<1>4. r = "x_in" => m[Phys(c, r)][u] = k - 1
  BY InputPieces
<1> QED BY <1>2, <1>3, <1>4 DEF Piece

\* When the last phase is done, all of the call is.
LEMMA CallEnds ==
  ASSUME NEW c, Known(c), NEW m, Fits(m, c), NEW k, NEW g \in Nat \ {0},
         NEW n, n = NumPhases(c),
         PhaseOf(c, n).strided \/ PhaseOf(c, n).n <= g,
         Stage(m, c, k, n, 0 .. g - 1, g),
         NEW p \in 1 .. NumPhases(c), NEW r \in Made(PhaseOf(c, p)),
         NEW u \in DOMAIN m[Phys(c, r)]
  PROVE  m[Phys(c, r)][u] = k
<1>1. n \in 1 .. NumPhases(c) /\ p \in Nat /\ n \in Nat
  BY PhaseFacts
<1>2. r \in Roles(c) /\ u \in Pieces(c, r)
  BY PiecesOf DEF Fits
<1>3. MadeBefore(c, n, r) \/ r \in Made(PhaseOf(c, n))
  <2>1. p = n \/ p \in 1 .. n - 1
    BY <1>1
  <2> QED BY <2>1 DEF MadeBefore
<1> QED BY <1>1, <1>2, <1>3, WholeGrid

-----------------------------------------------------------------------------
(* The runners: the memory of the k-th call.                               *)

Names(f) == f \in {"text", "action", "video"}

\* The k-th call is the j-th of layer i.
LEMMA CallOfLayer ==
  ASSUME NEW f, Names(f), NEW k \in 1 .. NumCalls(f)
  PROVE  \E i \in 1 .. Layers : \E j \in 1 .. CallsPerLayer(f) :
           /\ k = CallsPerLayer(f) * (i - 1) + j
           /\ CallAt(f, k) = LayerCalls(f, i)[j]
<1>1. Layers \in Nat \ {0}
  BY KernelAssumption
<1>2. CASE f = "text"
  <2> DEFINE i == ((k - 1) \div 2) + 1
             j == ((k - 1) % 2) + 1
  <2>1. k \in 1 .. Layers * 2
    BY <1>1, <1>2 DEF NumCalls, CallsPerLayer
  <2>2. i \in 1 .. Layers /\ j \in 1 .. 2 /\ k = 2 * (i - 1) + j
    BY <1>1, <2>1
  <2>3. CallAt(f, k) = LayerCalls(f, i)[j] /\ CallsPerLayer(f) = 2
    BY <1>2 DEF CallAt, CallsPerLayer
  <2> QED BY <2>2, <2>3
<1>3. CASE f # "text"
  <2> DEFINE i == ((k - 1) \div 3) + 1
             j == ((k - 1) % 3) + 1
  <2>1. k \in 1 .. Layers * 3
    BY <1>1, <1>3 DEF NumCalls, CallsPerLayer
  <2>2. i \in 1 .. Layers /\ j \in 1 .. 3 /\ k = 3 * (i - 1) + j
    BY <1>1, <2>1
  <2>3. CallAt(f, k) = LayerCalls(f, i)[j] /\ CallsPerLayer(f) = 3
    BY <1>3 DEF CallAt, CallsPerLayer
  <2> QED BY <2>2, <2>3
<1> QED BY <1>2, <1>3

\* And the j-th of layer i is that call.
LEMMA CallNumber ==
  ASSUME NEW f, Names(f), NEW i \in 1 .. Layers, NEW j \in 1 .. CallsPerLayer(f)
  PROVE  LET k == CallsPerLayer(f) * (i - 1) + j
         IN  k \in 1 .. NumCalls(f) /\ CallAt(f, k) = LayerCalls(f, i)[j]
<1>1. Layers \in Nat \ {0}
  BY KernelAssumption
<1>2. CASE f = "text"
  <2> DEFINE k == 2 * (i - 1) + j
  <2>1. CallsPerLayer(f) = 2
    BY <1>2 DEF CallsPerLayer
  <2>2. k \in 1 .. Layers * 2 /\ ((k - 1) \div 2) + 1 = i /\ ((k - 1) % 2) + 1 = j
    BY <1>1, <2>1
  <2> QED BY <2>1, <2>2 DEF NumCalls, CallAt
<1>3. CASE f # "text"
  <2> DEFINE k == 3 * (i - 1) + j
  <2>1. CallsPerLayer(f) = 3
    BY <1>3 DEF CallsPerLayer
  <2>2. k \in 1 .. Layers * 3 /\ ((k - 1) \div 3) + 1 = i /\ ((k - 1) % 3) + 1 = j
    BY <1>1, <2>1
  <2> QED BY <2>1, <2>2 DEF NumCalls, CallAt
<1> QED BY <1>2, <1>3

Streams == {"tokens", "attn out", "ffn out", "buf"}

InStream(x) == \E s \in Streams : \E n \in Nat : x = <<s, n>>

\* Where a call finds its input and leaves its output, and the caches of the video
\* expert.
CallOk(f, i, j, c) ==
  /\ c.kernel \in FamilyKernels(f)
  /\ c.kernel = "vdit.attn_self" <=> f = "video" /\ j = 1
  /\ DOMAIN c.bind = {"x_in", "out"} \cup (IF f = "video" /\ j = 1 THEN {"kc", "vc"} ELSE {})
  /\ \A r \in {"x_in", "out"} : InStream(c.bind[r])
  /\ f = "video" /\ j = 1 => c.bind["kc"] = <<"kc", i>> /\ c.bind["vc"] = <<"vc", i>>
  /\ i = 1 /\ j = 1 => c.bind["x_in"] = <<"tokens", 0>>

LEMMA InOutBinds ==
  ASSUME NEW a, NEW b
  PROVE  /\ DOMAIN InOut(a, b) = {"x_in", "out"}
         /\ InOut(a, b)["x_in"] = a /\ InOut(a, b)["out"] = b
BY DEF InOut

LEMMA VideoBinds ==
  ASSUME NEW a, NEW b, NEW i
  PROVE  LET d == Join(InOut(a, b), Cache(i))
         IN  /\ DOMAIN d = {"x_in", "out", "kc", "vc"}
             /\ d["x_in"] = a /\ d["out"] = b /\ d["kc"] = <<"kc", i>> /\ d["vc"] = <<"vc", i>>
BY DEF Join, InOut, Cache

LEMMA CallFields == \A k, b : Call(k, b).kernel = k /\ Call(k, b).bind = b
BY DEF Call

\* A call that binds nothing but its input and its output.
LEMMA PlainCall ==
  ASSUME NEW f, NEW i, NEW j, NEW c, NEW a, NEW b,
         c.kernel \in FamilyKernels(f), c.kernel # "vdit.attn_self", ~(f = "video" /\ j = 1),
         c.bind = InOut(a, b), InStream(a), InStream(b), i = 1 /\ j = 1 => a = <<"tokens", 0>>
  PROVE  CallOk(f, i, j, c)
BY InOutBinds DEF CallOk, InStream

\* The calls of the three runners: each takes its input where the one before left its
\* output.
LEMMA TextCalls ==
  ASSUME NEW i \in 1 .. Layers, NEW j \in 1 .. 2
  PROVE  /\ CallOk("text", i, j, LayerCalls("text", i)[j])
         /\ LayerCalls("text", i)[2].bind["x_in"] = LayerCalls("text", i)[1].bind["out"]
         /\ i > 1 => LayerCalls("text", i)[1].bind["x_in"]
                       = LayerCalls("text", i - 1)[2].bind["out"]
<1>1. Layers \in Nat
  BY KernelAssumption
<1> DEFINE at(n) == <<"attn out", n % 2>>
           ff(n) == <<"ffn out", n % 2>>
           h(n)  == IF n = 1 THEN <<"tokens", 0>> ELSE <<"ffn out", (n - 1) % 2>>
<1>2. \A n : /\ LayerCalls("text", n)[1].kernel = "tmt5.attn"
             /\ LayerCalls("text", n)[2].kernel = "tmt5.ffn"
             /\ LayerCalls("text", n)[1].bind = InOut(h(n), at(n))
             /\ LayerCalls("text", n)[2].bind = InOut(at(n), ff(n))
  BY CallFields DEF LayerCalls, TextLayer
<1>3. InStream(at(i)) /\ InStream(ff(i)) /\ InStream(h(i))
  <2>1. i % 2 \in Nat /\ (i - 1) % 2 \in Nat
    BY <1>1
  <2> QED BY <2>1 DEF Streams, InStream
<1>4. i = 1 => h(i) = <<"tokens", 0>>
  OBVIOUS
<1>5. i > 1 => h(i) = ff(i - 1)
  <2>1. i > 1 => i # 1
    BY <1>1
  <2> QED BY <2>1
<1>6. FamilyKernels("text") = {"tmt5.ffn", "tmt5.attn"}
  BY DEF FamilyKernels
<1> HIDE DEF at, ff, h
<1>7. /\ CallOk("text", i, 1, LayerCalls("text", i)[1])
      /\ LayerCalls("text", i)[1].bind["x_in"] = h(i)
      /\ LayerCalls("text", i)[1].bind["out"] = at(i)
  <2>1. CallOk("text", i, 1, LayerCalls("text", i)[1])
    BY <1>2, <1>3, <1>4, <1>6, PlainCall
  <2> QED BY <1>2, <2>1, InOutBinds
<1>8. /\ CallOk("text", i, 2, LayerCalls("text", i)[2])
      /\ LayerCalls("text", i)[2].bind["x_in"] = at(i)
  <2>1. CallOk("text", i, 2, LayerCalls("text", i)[2])
    BY <1>2, <1>3, <1>6, PlainCall
  <2> QED BY <1>2, <2>1, InOutBinds
<1>9. LayerCalls("text", i - 1)[2].bind["out"] = ff(i - 1)
  BY <1>2, InOutBinds
<1>10. j \in {1, 2}
  OBVIOUS
<1> QED BY <1>5, <1>7, <1>8, <1>9, <1>10

LEMMA ActionCalls ==
  ASSUME NEW i \in 1 .. Layers, NEW j \in 1 .. 3
  PROVE  /\ CallOk("action", i, j, LayerCalls("action", i)[j])
         /\ LayerCalls("action", i)[2].bind["x_in"] = LayerCalls("action", i)[1].bind["out"]
         /\ LayerCalls("action", i)[3].bind["x_in"] = LayerCalls("action", i)[2].bind["out"]
         /\ i > 1 => LayerCalls("action", i)[1].bind["x_in"]
                       = LayerCalls("action", i - 1)[3].bind["out"]
<1>1. Layers \in Nat
  BY KernelAssumption
<1> DEFINE buf(n, a) == <<"buf", (n - 1 + a) % 3>>
<1>2. \A n : /\ LayerCalls("action", n)[1].kernel = "adit.attn_self"
             /\ LayerCalls("action", n)[2].kernel = "adit.attn_cross"
             /\ LayerCalls("action", n)[3].kernel = "adit.ffn"
             /\ LayerCalls("action", n)[1].bind =
                  InOut(IF n = 1 THEN <<"tokens", 0>> ELSE buf(n, 1), buf(n, 0))
             /\ LayerCalls("action", n)[2].bind = InOut(buf(n, 0), buf(n, 1))
             /\ LayerCalls("action", n)[3].bind = InOut(buf(n, 1), buf(n, 2))
  BY CallFields DEF LayerCalls, ActionLayer
<1> DEFINE c1 == LayerCalls("action", i)[1]
           c2 == LayerCalls("action", i)[2]
           c3 == LayerCalls("action", i)[3]
           c0 == LayerCalls("action", i - 1)[3]
           src == IF i = 1 THEN <<"tokens", 0>> ELSE buf(i, 1)
<1>3. /\ c1.kernel = "adit.attn_self" /\ c1.bind = InOut(src, buf(i, 0))
      /\ c2.kernel = "adit.attn_cross" /\ c2.bind = InOut(buf(i, 0), buf(i, 1))
      /\ c3.kernel = "adit.ffn" /\ c3.bind = InOut(buf(i, 1), buf(i, 2))
      /\ c0.bind = InOut(buf(i - 1, 1), buf(i - 1, 2))
  BY <1>2
<1>4. InStream(buf(i, 0)) /\ InStream(buf(i, 1)) /\ InStream(buf(i, 2))
  <2>1. \A a \in 0 .. 2 : (i - 1 + a) % 3 \in Nat
    BY <1>1
  <2> QED BY <2>1 DEF Streams, InStream
<1>5. InStream(src) /\ (i = 1 => src = <<"tokens", 0>>)
  <2>1. InStream(<<"tokens", 0>>)
    BY DEF Streams, InStream
  <2> QED BY <1>4, <2>1
<1>6. i > 1 => src = buf(i - 1, 2)
  <2>1. i > 1 => i # 1 /\ i - 1 + 1 = (i - 1) - 1 + 2
    BY <1>1
  <2> QED BY <2>1
<1>7. FamilyKernels("action") = {"adit.attn_self", "adit.attn_cross", "adit.ffn"}
  BY DEF FamilyKernels
<1>8. j \in {1, 2, 3}
  OBVIOUS
<1> HIDE DEF buf, c1, c2, c3, c0, src
<1>14. \A c \in {c1, c2, c3} : c.kernel \in FamilyKernels("action") /\ c.kernel # "vdit.attn_self"
  BY <1>3, <1>7
<1>9. CallOk("action", i, 1, c1) /\ c1.bind["x_in"] = src /\ c1.bind["out"] = buf(i, 0)
  <2>1. CallOk("action", i, 1, c1)
    BY <1>3, <1>4, <1>5, <1>14, PlainCall
  <2> QED BY <1>3, <2>1, InOutBinds
<1>10. CallOk("action", i, 2, c2) /\ c2.bind["x_in"] = buf(i, 0) /\ c2.bind["out"] = buf(i, 1)
  <2>1. CallOk("action", i, 2, c2)
    BY <1>3, <1>4, <1>14, PlainCall
  <2> QED BY <1>3, <2>1, InOutBinds
<1>11. CallOk("action", i, 3, c3) /\ c3.bind["x_in"] = buf(i, 1)
  <2>1. CallOk("action", i, 3, c3)
    BY <1>3, <1>4, <1>14, PlainCall
  <2> QED BY <1>3, <2>1, InOutBinds
<1>12. c0.bind["out"] = buf(i - 1, 2)
  BY <1>3, InOutBinds
<1>13. CallOk("action", i, j, LayerCalls("action", i)[j])
  BY <1>8, <1>9, <1>10, <1>11 DEF c1, c2, c3
<1> QED BY <1>6, <1>9, <1>10, <1>11, <1>12, <1>13 DEF c1, c2, c3, c0

LEMMA VideoCalls ==
  ASSUME NEW i \in 1 .. Layers, NEW j \in 1 .. 3
  PROVE  /\ CallOk("video", i, j, LayerCalls("video", i)[j])
         /\ LayerCalls("video", i)[2].bind["x_in"] = LayerCalls("video", i)[1].bind["out"]
         /\ LayerCalls("video", i)[3].bind["x_in"] = LayerCalls("video", i)[2].bind["out"]
         /\ i > 1 => LayerCalls("video", i)[1].bind["x_in"]
                       = LayerCalls("video", i - 1)[3].bind["out"]
<1>1. Layers \in Nat
  BY KernelAssumption
<1> DEFINE ob(n) == <<"attn out", n % 2>>
           h(n)  == IF n = 1 THEN <<"tokens", 0>> ELSE <<"ffn out", 0>>
<1>2. \A n : /\ LayerCalls("video", n)[1].kernel = "vdit.attn_self"
             /\ LayerCalls("video", n)[2].kernel = "vdit.attn_cross"
             /\ LayerCalls("video", n)[3].kernel = "vdit.ffn"
             /\ LayerCalls("video", n)[1].bind = Join(InOut(h(n), ob(n)), Cache(n))
             /\ LayerCalls("video", n)[2].bind = InOut(ob(n), ob(n))
             /\ LayerCalls("video", n)[3].bind = InOut(ob(n), <<"ffn out", 0>>)
  BY CallFields DEF LayerCalls, VideoLayer
<1> DEFINE c1 == LayerCalls("video", i)[1]
           c2 == LayerCalls("video", i)[2]
           c3 == LayerCalls("video", i)[3]
           c0 == LayerCalls("video", i - 1)[3]
           ff == <<"ffn out", 0>>
<1>3. /\ c1.kernel = "vdit.attn_self" /\ c1.bind = Join(InOut(h(i), ob(i)), Cache(i))
      /\ c2.kernel = "vdit.attn_cross" /\ c2.bind = InOut(ob(i), ob(i))
      /\ c3.kernel = "vdit.ffn" /\ c3.bind = InOut(ob(i), ff)
      /\ c0.bind = InOut(ob(i - 1), ff)
  BY <1>2
<1>4. InStream(ob(i)) /\ InStream(h(i)) /\ InStream(ff)
  <2>1. i % 2 \in Nat
    BY <1>1
  <2> QED BY <2>1 DEF Streams, InStream
<1>5. i = 1 => h(i) = <<"tokens", 0>>
  OBVIOUS
<1>6. i > 1 => h(i) = ff
  <2>1. i > 1 => i # 1
    BY <1>1
  <2> QED BY <2>1
<1>7. FamilyKernels("video") = {"vdit.attn_self", "vdit.attn_cross", "vdit.ffn"}
  BY DEF FamilyKernels
<1>8. j \in {1, 2, 3}
  OBVIOUS
<1> HIDE DEF ob, h, c1, c2, c3, c0, ff
<1>9. CallOk("video", i, 1, c1) /\ c1.bind["x_in"] = h(i) /\ c1.bind["out"] = ob(i)
  <2>1. /\ DOMAIN c1.bind = {"x_in", "out"} \cup {"kc", "vc"}
        /\ c1.bind["x_in"] = h(i) /\ c1.bind["out"] = ob(i)
        /\ c1.bind["kc"] = <<"kc", i>> /\ c1.bind["vc"] = <<"vc", i>>
    BY <1>3, VideoBinds
  <2> QED BY <1>3, <1>4, <1>5, <1>7, <2>1 DEF CallOk
<1>14. \A c \in {c2, c3} : c.kernel \in FamilyKernels("video") /\ c.kernel # "vdit.attn_self"
  BY <1>3, <1>7
<1>10. CallOk("video", i, 2, c2) /\ c2.bind["x_in"] = ob(i) /\ c2.bind["out"] = ob(i)
  <2>1. CallOk("video", i, 2, c2)
    BY <1>3, <1>4, <1>14, PlainCall
  <2> QED BY <1>3, <2>1, InOutBinds
<1>11. CallOk("video", i, 3, c3) /\ c3.bind["x_in"] = ob(i)
  <2>1. CallOk("video", i, 3, c3)
    BY <1>3, <1>4, <1>14, PlainCall
  <2> QED BY <1>3, <2>1, InOutBinds
<1>12. c0.bind["out"] = ff
  BY <1>3, InOutBinds
<1>13. CallOk("video", i, j, LayerCalls("video", i)[j])
  BY <1>8, <1>9, <1>10, <1>11 DEF c1, c2, c3
<1> QED BY <1>6, <1>9, <1>10, <1>11, <1>12, <1>13 DEF c1, c2, c3, c0

\* Every call of a forward pass is a call of some layer.
LEMMA CallAtOk ==
  ASSUME NEW f, Names(f), NEW k \in 1 .. NumCalls(f)
  PROVE  \E i \in 1 .. Layers : \E j \in 1 .. CallsPerLayer(f) :
           k = CallsPerLayer(f) * (i - 1) + j /\ CallOk(f, i, j, CallAt(f, k))
<1>1. PICK i \in 1 .. Layers, j \in 1 .. CallsPerLayer(f) :
        k = CallsPerLayer(f) * (i - 1) + j /\ CallAt(f, k) = LayerCalls(f, i)[j]
  BY CallOfLayer
<1>2. CallOk(f, i, j, LayerCalls(f, i)[j])
  <2>1. CASE f = "text"
    BY <2>1, TextCalls DEF CallsPerLayer
  <2>2. CASE f = "action"
    BY <2>2, ActionCalls DEF CallsPerLayer
  <2>3. CASE f = "video"
    BY <2>3, VideoCalls DEF CallsPerLayer
  <2> QED BY <2>1, <2>2, <2>3 DEF Names
<1> QED BY <1>1, <1>2

\* The input of a call is the output of the one before.
LEMMA Chained ==
  ASSUME NEW f, Names(f), NEW k \in 1 .. NumCalls(f)
  PROVE  CallAt(f, k).bind["x_in"] = IF k = 1 THEN <<"tokens", 0>>
                                     ELSE CallAt(f, k - 1).bind["out"]
<1> DEFINE n == CallsPerLayer(f)
<1>1. PICK i \in 1 .. Layers, j \in 1 .. n :
        k = n * (i - 1) + j /\ CallAt(f, k) = LayerCalls(f, i)[j]
  BY CallOfLayer
<1>2. Layers \in Nat /\ n \in {2, 3} /\ (f = "text" <=> n = 2)
  BY KernelAssumption DEF CallsPerLayer, Names
<1>3. CASE i = 1 /\ j = 1
  <2>1. k = 1
    BY <1>1, <1>2, <1>3
  <2>2. CallOk(f, i, j, LayerCalls(f, i)[j])
    BY <1>2, TextCalls, ActionCalls, VideoCalls DEF Names
  <2> QED BY <1>1, <1>3, <2>1, <2>2 DEF CallOk
<1>4. CASE j # 1
  <2>1. j - 1 \in 1 .. n /\ k - 1 = n * (i - 1) + (j - 1) /\ k # 1
    BY <1>1, <1>2, <1>4
  <2>2. CallAt(f, k - 1) = LayerCalls(f, i)[j - 1]
    BY <2>1, CallNumber
  <2>3. LayerCalls(f, i)[j].bind["x_in"] = LayerCalls(f, i)[j - 1].bind["out"]
    <3>1. CASE f = "text"
      <4>1. j = 2
        BY <1>2, <1>4, <3>1
      <4> QED BY <3>1, <4>1, TextCalls
    <3>2. CASE f = "action"
      <4>1. j = 2 \/ j = 3
        BY <1>2, <1>4, <3>2
      <4> QED BY <3>2, <4>1, ActionCalls
    <3>3. CASE f = "video"
      <4>1. j = 2 \/ j = 3
        BY <1>2, <1>4, <3>3
      <4> QED BY <3>3, <4>1, VideoCalls
    <3> QED BY <3>1, <3>2, <3>3 DEF Names
  <2> QED BY <1>1, <2>1, <2>2, <2>3
<1>5. CASE i # 1 /\ j = 1
  <2>1. i - 1 \in 1 .. Layers /\ n \in 1 .. n /\ k - 1 = n * ((i - 1) - 1) + n /\ k # 1 /\ i > 1
    BY <1>1, <1>2, <1>5
  <2>2. CallAt(f, k - 1) = LayerCalls(f, i - 1)[n]
    BY <2>1, CallNumber
  <2>3. LayerCalls(f, i)[1].bind["x_in"] = LayerCalls(f, i - 1)[n].bind["out"]
    <3>1. CASE f = "text"
      BY <1>2, <2>1, <3>1, TextCalls
    <3>2. CASE f = "action"
      <4>1. n = 3
        BY <1>2, <3>2
      <4> QED BY <2>1, <3>2, <4>1, ActionCalls
    <3>3. CASE f = "video"
      <4>1. n = 3
        BY <1>2, <3>3
      <4> QED BY <2>1, <3>3, <4>1, VideoCalls
    <3> QED BY <3>1, <3>2, <3>3 DEF Names
  <2> QED BY <1>1, <1>5, <2>1, <2>2, <2>3
<1> QED BY <1>3, <1>4, <1>5

Cached(f, j, r) == f = "video" /\ j = 1 /\ r \in {"kc", "vc"}

\* The memory behind a role: a stream of activations, the cache of the layer, or the
\* scratch of the kernel.
LEMMA Places ==
  ASSUME NEW f, NEW i, NEW j, NEW c, CallOk(f, i, j, c), NEW r
  PROVE  /\ r \in {"x_in", "out"} => Phys(c, r) = c.bind[r] /\ InStream(Phys(c, r))
         /\ Cached(f, j, r) => Phys(c, r) = <<r, i>>
         /\ r \notin {"x_in", "out"} /\ ~Cached(f, j, r) => Phys(c, r) = <<c.kernel, r>>
BY DEF CallOk, Phys, Cached

\* Two roles share memory only as inputs or outputs, or as one role of one kernel; a cache
\* is the memory of one layer only.
LEMMA SamePlace ==
  ASSUME NEW f, Names(f),
         NEW i1, NEW j1, NEW c1, CallOk(f, i1, j1, c1), NEW r1,
         NEW i2, NEW j2, NEW c2, CallOk(f, i2, j2, c2), NEW r2,
         Phys(c1, r1) = Phys(c2, r2)
  PROVE  \/ r1 \in {"x_in", "out"} /\ r2 \in {"x_in", "out"}
         \/ /\ r1 = r2 /\ c1.kernel = c2.kernel
            /\ Cached(f, j1, r1) <=> Cached(f, j2, r2)
            /\ Cached(f, j1, r1) => i1 = i2
<1> DEFINE K == FamilyKernels(f)
<1>1. \A s \in Streams \cup {"kc", "vc"} : s \notin K
  BY DEF Streams, FamilyKernels, Names
<1>2. c1.kernel \in K /\ c2.kernel \in K
  BY DEF CallOk
<1>3. \A s \in Streams : s # "kc" /\ s # "vc"
  BY DEF Streams
<1>4. \A a, b, x, y : <<a, b>> = <<x, y>> => a = x /\ b = y
  OBVIOUS
<1> HIDE DEF K
<1> DEFINE At1 == Phys(c1, r1)
           At2 == Phys(c2, r2)
<1>8. /\ r1 \in {"x_in", "out"} => InStream(At1)
      /\ Cached(f, j1, r1) => At1 = <<r1, i1>>
      /\ r1 \notin {"x_in", "out"} /\ ~Cached(f, j1, r1) => At1 = <<c1.kernel, r1>>
  BY Places
<1>9. /\ r2 \in {"x_in", "out"} => InStream(At2)
      /\ Cached(f, j2, r2) => At2 = <<r2, i2>>
      /\ r2 \notin {"x_in", "out"} /\ ~Cached(f, j2, r2) => At2 = <<c2.kernel, r2>>
  BY Places
<1>10. At1 = At2
  OBVIOUS
<1> HIDE DEF At1, At2
<1>5. CASE r1 \in {"x_in", "out"}
  <2>1. PICK s \in Streams, n \in Nat : At1 = <<s, n>>
    BY <1>5, <1>8, <1>9, <1>10 DEF InStream
  <2>2. ~Cached(f, j2, r2)
    BY <1>3, <1>4, <2>1, <1>8, <1>9, <1>10 DEF Cached
  <2>3. r2 \in {"x_in", "out"}
    <3> SUFFICES ASSUME r2 \notin {"x_in", "out"} PROVE FALSE
      OBVIOUS
    <3>1. <<s, n>> = <<c2.kernel, r2>>
      BY <2>1, <2>2, <1>8, <1>9, <1>10
    <3>2. s = c2.kernel
      BY <1>4, <3>1
    <3> QED BY <1>1, <1>2, <3>2
  <2> QED BY <1>5, <2>3
<1>6. CASE Cached(f, j1, r1)
  <2>1. At1 = <<r1, i1>> /\ r1 \in {"kc", "vc"}
    BY <1>6, <1>8, <1>9, <1>10 DEF Cached
  <2>2. r2 \notin {"x_in", "out"}
    <3> SUFFICES ASSUME r2 \in {"x_in", "out"} PROVE FALSE
      OBVIOUS
    <3>1. PICK s \in Streams, n \in Nat : At2 = <<s, n>>
      BY <1>8, <1>9, <1>10 DEF InStream
    <3>2. s = r1
      BY <1>4, <1>10, <2>1, <3>1
    <3> QED BY <1>3, <2>1, <3>2
  <2>3. Cached(f, j2, r2)
    <3> SUFFICES ASSUME ~Cached(f, j2, r2) PROVE FALSE
      OBVIOUS
    <3>1. <<r1, i1>> = <<c2.kernel, r2>>
      BY <2>1, <2>2, <1>8, <1>9, <1>10
    <3>2. r1 = c2.kernel
      BY <1>4, <3>1
    <3> QED BY <1>1, <1>2, <2>1, <3>2
  <2>4. <<r1, i1>> = <<r2, i2>>
    BY <2>1, <2>3, <1>8, <1>9, <1>10
  <2>5. r1 = r2 /\ i1 = i2
    BY <1>4, <2>4
  <2>6. c1.kernel = "vdit.attn_self" /\ c2.kernel = "vdit.attn_self"
    BY <1>6, <2>3 DEF CallOk, Cached
  <2> QED BY <1>6, <2>3, <2>5, <2>6
<1>7. CASE r1 \notin {"x_in", "out"} /\ ~Cached(f, j1, r1)
  <2>1. At1 = <<c1.kernel, r1>>
    BY <1>7, <1>8, <1>9, <1>10
  <2>2. r2 \notin {"x_in", "out"}
    <3> SUFFICES ASSUME r2 \in {"x_in", "out"} PROVE FALSE
      OBVIOUS
    <3>1. PICK s \in Streams, n \in Nat : At2 = <<s, n>>
      BY <1>8, <1>9, <1>10 DEF InStream
    <3>2. s = c1.kernel
      BY <1>4, <1>10, <2>1, <3>1
    <3> QED BY <1>1, <1>2, <3>2
  <2>3. ~Cached(f, j2, r2)
    <3> SUFFICES ASSUME Cached(f, j2, r2) PROVE FALSE
      OBVIOUS
    <3>1. <<r2, i2>> = <<c1.kernel, r1>> /\ r2 \in {"kc", "vc"}
      BY <2>1, <1>8, <1>9, <1>10 DEF Cached
    <3>2. r2 = c1.kernel
      BY <1>4, <3>1
    <3> QED BY <1>1, <1>2, <3>1, <3>2
  <2>4. <<c1.kernel, r1>> = <<c2.kernel, r2>>
    BY <2>1, <2>2, <2>3, <1>8, <1>9, <1>10
  <2>5. c1.kernel = c2.kernel /\ r1 = r2
    BY <1>4, <2>4
  <2> QED BY <1>7, <2>3, <2>5
<1> QED BY <1>5, <1>6, <1>7

\* The tables of a family, and the grids that have enough CTAs for them.
LEMMA KernelsOk ==
  ASSUME NEW f, Names(f), NEW k \in FamilyKernels(f)
  PROVE  /\ PhasesOk(Kernel(k).phases)
         /\ Kernel(k).min \in Nat \ {0}
         /\ \A g \in Nat : Kernel(k).min <= g /\ (f = "text" => Heads <= g)
              => ByBlockFits(Kernel(k).phases, Len(Kernel(k).phases), g)
<1>1. Rows \in Nat \ {0} /\ Slabs \in Nat \ {0} /\ Heads \in Nat
  BY KernelAssumption
<1>2. CASE f = "text"
  <2>1. k = "tmt5.ffn" \/ k = "tmt5.attn"
    BY <1>2 DEF FamilyKernels
  <2>2. CASE k = "tmt5.ffn"
    <3>1. Kernel(k) = Tmt5Ffn /\ Tmt5Ffn.min = 1
      BY <2>2 DEF Kernel, Tmt5Ffn
    <3> QED BY <3>1, Tmt5FfnOk
  <2>3. CASE k = "tmt5.attn"
    <3>1. Kernel(k) = Tmt5Attn /\ Tmt5Attn.min = 1
      BY <2>3 DEF Kernel, Tmt5Attn
    <3> QED BY <1>2, <3>1, Tmt5AttnOk
  <2> QED BY <2>1, <2>2, <2>3
<1>3. CASE f = "action"
  <2>1. k = "adit.attn_self" \/ k = "adit.attn_cross" \/ k = "adit.ffn"
    BY <1>3 DEF FamilyKernels
  <2>2. CASE k = "adit.attn_self"
    <3>1. Kernel(k) = AditSelf /\ AditSelf.min = Slabs
      BY <2>2 DEF Kernel, AditSelf
    <3> QED BY <1>1, <3>1, AditSelfOk
  <2>3. CASE k = "adit.attn_cross"
    <3>1. Kernel(k) = AditCross /\ AditCross.min = Slabs
      BY <2>3 DEF Kernel, AditCross
    <3> QED BY <1>1, <3>1, AditCrossOk
  <2>4. CASE k = "adit.ffn"
    <3>1. Kernel(k) = AditFfn /\ AditFfn.min = Slabs
      BY <2>4 DEF Kernel, AditFfn
    <3> QED BY <1>1, <3>1, AditFfnOk
  <2> QED BY <2>1, <2>2, <2>3, <2>4
<1>4. CASE f = "video"
  <2>1. k = "vdit.attn_self" \/ k = "vdit.attn_cross" \/ k = "vdit.ffn"
    BY <1>4 DEF FamilyKernels
  <2>2. CASE k = "vdit.attn_self"
    <3>1. Kernel(k) = VditSelf /\ VditSelf.min = Rows
      BY <2>2 DEF Kernel, VditSelf
    <3> QED BY <1>1, <3>1, VditSelfOk
  <2>3. CASE k = "vdit.attn_cross"
    <3>1. Kernel(k) = VditCross /\ VditCross.min = Rows
      BY <2>3 DEF Kernel, VditCross
    <3> QED BY <1>1, <3>1, VditCrossOk
  <2>4. CASE k = "vdit.ffn"
    <3>1. Kernel(k) = VditFfn /\ VditFfn.min = Rows
      BY <2>4 DEF Kernel, VditFfn
    <3> QED BY <1>1, <3>1, VditFfnOk
  <2> QED BY <2>1, <2>2, <2>3, <2>4
<1> QED BY <1>2, <1>3, <1>4 DEF Names

\* Every call satisfies what the lemmas about one call assume.
LEMMA CallKnown ==
  ASSUME NEW f, Names(f), NEW k \in 1 .. NumCalls(f)
  PROVE  Known(CallAt(f, k)) /\ CallAt(f, k).kernel \in FamilyKernels(f)
<1> DEFINE c == CallAt(f, k)
<1>1. PICK i \in 1 .. Layers, j \in 1 .. CallsPerLayer(f) : CallOk(f, i, j, c)
  BY CallAtOk
<1> HIDE DEF c
<1>2. c.kernel \in FamilyKernels(f)
  BY <1>1 DEF CallOk
<1>3. ASSUME NEW r, NEW s, Phys(c, r) = Phys(c, s)
      PROVE  r = s \/ {r, s} = {"x_in", "out"}
  <2>1. (r \in {"x_in", "out"} /\ s \in {"x_in", "out"}) \/ r = s
    BY <1>1, <1>3, SamePlace
  <2> QED BY <2>1
<1>4. Separate(c)
  BY <1>3 DEF Separate
<1>5. PhasesOk(Kernel(c.kernel).phases)
  BY <1>2, KernelsOk
<1> QED BY <1>2, <1>4, <1>5 DEF Known, c

\* Roles that share memory agree on its pieces.
LEMMA SamePieces ==
  ASSUME NEW f, Names(f), NEW k \in 1 .. NumCalls(f), NEW l \in 1 .. NumCalls(f),
         NEW r, NEW s, Phys(CallAt(f, k), r) = Phys(CallAt(f, l), s)
  PROVE  Pieces(CallAt(f, k), r) = Pieces(CallAt(f, l), s)
<1> DEFINE c == CallAt(f, k)
           d == CallAt(f, l)
<1>1. PICK i \in 1 .. Layers, j \in 1 .. CallsPerLayer(f) : CallOk(f, i, j, c)
  BY CallAtOk
<1>2. PICK i2 \in 1 .. Layers, j2 \in 1 .. CallsPerLayer(f) : CallOk(f, i2, j2, d)
  BY CallAtOk
<1> HIDE DEF c, d
<1>3. (r \in {"x_in", "out"} /\ s \in {"x_in", "out"}) \/ (r = s /\ c.kernel = d.kernel)
  <2>1. Phys(c, r) = Phys(d, s)
    BY DEF c, d
  <2>2. \/ r \in {"x_in", "out"} /\ s \in {"x_in", "out"}
        \/ /\ r = s /\ c.kernel = d.kernel
           /\ Cached(f, j, r) <=> Cached(f, j2, s)
           /\ Cached(f, j, r) => i = i2
    BY <1>1, <1>2, <2>1, SamePlace
  <2> QED BY <2>2
<1>4. Pieces(c, r) = Pieces(d, s)
  <2>1. CASE r \in {"x_in", "out"} /\ s \in {"x_in", "out"}
    BY <2>1 DEF Pieces
  <2>2. CASE r = s /\ c.kernel = d.kernel
    BY <2>2 DEF Pieces, PhaseOf, NumPhases
  <2> QED BY <1>3, <2>1, <2>2
<1> QED BY <1>4 DEF c, d

\* The memory before a forward pass: that of every call, and the tokens.
LEMMA FreshMemory ==
  ASSUME NEW f, Names(f)
  PROVE  /\ Typed(Fresh(f))
         /\ \A k \in 1 .. NumCalls(f) : Fits(Fresh(f), CallAt(f, k))
         /\ \A u \in DOMAIN Fresh(f)[<<"tokens", 0>>] :
              <<"tokens", 0>> \in DOMAIN Fresh(f) => Fresh(f)[<<"tokens", 0>>][u] = Zero
<1> DEFINE calls == {CallAt(f, k) : k \in 1 .. NumCalls(f)}
           slots == UNION {{[buf |-> Phys(c, r), n |-> Pieces(c, r)] : r \in Roles(c)}
                            : c \in calls}
           slot(b) == CHOOSE t \in slots : t.buf = b
           m == Fresh(f)
           val(b) == IF b = <<"tokens", 0>> THEN Zero ELSE Garbage
<1>1. m = [b \in {s.buf : s \in slots} |-> [u \in slot(b).n |-> val(b)]]
  BY DEF Fresh
<1>2. \A s : s \in slots <=> \E k \in 1 .. NumCalls(f) : \E r \in Roles(CallAt(f, k)) :
                               s = [buf |-> Phys(CallAt(f, k), r), n |-> Pieces(CallAt(f, k), r)]
  OBVIOUS
<1>3. \A b : val(b) \in Int
  BY DEF Zero, Garbage
<1>4. val(<<"tokens", 0>>) = Zero
  OBVIOUS
<1>5. ASSUME NEW b \in {s.buf : s \in slots}
      PROVE  slot(b) \in slots /\ slot(b).buf = b
  OBVIOUS
<1> HIDE DEF m, val, slot, slots
<1>6. DOMAIN m = {s.buf : s \in slots} /\ \A b \in DOMAIN m : m[b] = [u \in slot(b).n |-> val(b)]
  BY <1>1
<1>7. Typed(m)
  <2> SUFFICES ASSUME NEW b \in DOMAIN m PROVE m[b] \in [DOMAIN m[b] -> Int]
    BY DEF Typed
  <2> DEFINE S == slot(b).n
             v == val(b)
  <2>1. m[b] = [u \in S |-> v] /\ v \in Int
    BY <1>3, <1>6
  <2> HIDE DEF S, v
  <2> QED BY <2>1
<1>8. ASSUME NEW k \in 1 .. NumCalls(f)
      PROVE  Fits(m, CallAt(f, k))
  <2> DEFINE c == CallAt(f, k)
  <2> SUFFICES ASSUME NEW r \in Roles(c)
               PROVE  Phys(c, r) \in DOMAIN m /\ DOMAIN m[Phys(c, r)] = Pieces(c, r)
    BY DEF Fits
  <2> DEFINE t == [buf |-> Phys(c, r), n |-> Pieces(c, r)]
             b == Phys(c, r)
  <2>1. t \in slots /\ t.buf = b
    BY <1>2
  <2>2. b \in {s.buf : s \in slots}
    BY <2>1
  <2>3. slot(b) \in slots /\ slot(b).buf = b
    BY <1>5, <2>2
  <2>4. PICK l \in 1 .. NumCalls(f) : \E s \in Roles(CallAt(f, l)) :
          slot(b) = [buf |-> Phys(CallAt(f, l), s), n |-> Pieces(CallAt(f, l), s)]
    BY <1>2, <2>3
  <2>8. PICK s \in Roles(CallAt(f, l)) :
          slot(b) = [buf |-> Phys(CallAt(f, l), s), n |-> Pieces(CallAt(f, l), s)]
    BY <2>4
  <2>5. Phys(CallAt(f, l), s) = Phys(CallAt(f, k), r) /\ slot(b).n = Pieces(CallAt(f, l), s)
    BY <2>3, <2>8
  <2>6. slot(b).n = Pieces(c, r)
    BY <2>5, SamePieces
  <2>7. b \in DOMAIN m /\ m[b] = [u \in slot(b).n |-> val(b)]
    BY <1>6, <2>2
  <2> HIDE DEF b
  <2>9. DOMAIN m[b] = Pieces(c, r)
    BY <2>6, <2>7
  <2> QED BY <2>7, <2>9 DEF b
<1>9. ASSUME <<"tokens", 0>> \in DOMAIN m, NEW u \in DOMAIN m[<<"tokens", 0>>]
      PROVE  m[<<"tokens", 0>>][u] = Zero
  BY <1>4, <1>6, <1>9
<1> QED BY <1>7, <1>8, <1>9 DEF m

\* A cache is made by the one call of its layer, in the third phase, and is the memory
\* of no other call.
LEMMA CacheMade ==
  ASSUME NEW i \in 1 .. Layers, NEW r \in {"kc", "vc"}
  PROVE  LET k == 3 * (i - 1) + 1
             c == CallAt("video", k)
         IN  /\ k \in 1 .. NumCalls("video")
             /\ Phys(c, r) = Cache(i)[r]
             /\ 3 \in 1 .. NumPhases(c)
             /\ r \in Made(PhaseOf(c, 3))
<1> DEFINE k == 3 * (i - 1) + 1
           c == CallAt("video", k)
<1>1. k \in 1 .. NumCalls("video") /\ c = LayerCalls("video", i)[1]
  BY CallNumber DEF Names, CallsPerLayer
<1>2. CallOk("video", i, 1, c)
  BY <1>1, VideoCalls
<1>3. c.kernel = "vdit.attn_self"
  BY <1>2 DEF CallOk
<1>4. Phys(c, r) = <<r, i>>
  BY <1>2, Places DEF Cached
<1>5. Cache(i)[r] = <<r, i>>
  BY DEF Cache
<1>6. NumPhases(c) = 6 /\ PhaseOf(c, 3).writes = {"qc", "kc", "vc"}
  BY <1>3 DEF NumPhases, PhaseOf, Kernel, VditSelf, Phase
<1> HIDE DEF c, k
<1>7. 3 \in 1 .. NumPhases(c) /\ r \in Made(PhaseOf(c, 3))
  BY <1>6 DEF Made
<1> QED BY <1>1, <1>4, <1>5, <1>7 DEF c, k

\* No other call has the memory of a cache.
LEMMA CacheOfOneCall ==
  ASSUME NEW i \in 1 .. Layers, NEW r \in {"kc", "vc"}, NEW k \in 1 .. NumCalls("video"),
         NEW s, Phys(CallAt("video", k), s) = Cache(i)[r]
  PROVE  k = 3 * (i - 1) + 1
<1> DEFINE c == CallAt("video", k)
           l == 3 * (i - 1) + 1
           d == CallAt("video", l)
<1>1. PICK i1 \in 1 .. Layers, j1 \in 1 .. 3 : k = 3 * (i1 - 1) + j1 /\ CallOk("video", i1, j1, c)
  BY CallAtOk DEF Names, CallsPerLayer
<1>2. CallOk("video", i, 1, d)
  <2>1. d = LayerCalls("video", i)[1]
    BY CallNumber DEF Names, CallsPerLayer
  <2> QED BY <2>1, VideoCalls
<1>3. Phys(c, s) = Phys(d, r)
  BY CacheMade
<1>4. Cached("video", 1, r) /\ r \notin {"x_in", "out"}
  BY DEF Cached
<1> HIDE DEF c, d
<1>5. Cached("video", j1, s) /\ i1 = i
  BY <1>1, <1>2, <1>3, <1>4, SamePlace DEF Names
<1>6. j1 = 1
  BY <1>5 DEF Cached
<1> QED BY <1>1, <1>5, <1>6

-----------------------------------------------------------------------------
(* A phase is a function of the memory it begins in: the shares of its     *)
(* CTAs, taken one after the other, make what the whole grid makes at once.*)

\* The CTAs B of a grid of g, begun in e, have left m.
Follows(m, e, c, k, ph, B, g) ==
  \A r \in Roles(c) : m[Phys(c, r)] = Effect(e, c, k, ph, B, g)[Phys(c, r)]

LEMMA ReadsApart ==
  ASSUME NEW c, Known(c), NEW p \in 1 .. NumPhases(c)
  PROVE  /\ \A r \in PhaseOf(c, p).reads :
              /\ r \in Roles(c) /\ r \notin Outputs(PhaseOf(c, p))
              /\ r = "x_in" => p < NumPhases(c)
         /\ \A r \in PhaseOf(c, p).own :
              /\ r \in Roles(c) /\ r \notin Outputs(PhaseOf(c, p))
              /\ Pieces(c, r) = 1 .. PhaseOf(c, p).n
<1> DEFINE ph == PhaseOf(c, p)
<1>1. \A r \in ph.reads \cup ph.own : r \in Roles(c)
  BY RolesOf DEF Touches
<1>2. ASSUME NEW q \in 1 .. p - 1, NEW r \in Made(PhaseOf(c, q))
      PROVE  r \notin Outputs(ph) /\ r # "x_in" /\ Pieces(c, r) = 1 .. PhaseOf(c, q).n
  <2>1. q \in 1 .. NumPhases(c) /\ q # p /\ q < p /\ p \in Nat /\ q \in Nat
    BY PhaseFacts
  <2>2. r \notin Made(ph)
    BY <2>1, PhaseFacts
  <2>3. r \notin ph.clears
    <3> SUFFICES ASSUME r \in ph.clears PROVE FALSE
      OBVIOUS
    <3>1. PICK a \in p + 1 .. NumPhases(c) : r \in PhaseOf(c, a).adds
      BY PhaseFacts
    <3>2. a \in 1 .. NumPhases(c) /\ a # q /\ r \in Made(PhaseOf(c, a))
      BY <2>1, <3>1, PhaseFacts DEF Made
    <3> QED BY <2>1, <3>2, PhaseFacts
  <2>4. r # "x_in" /\ Pieces(c, r) = 1 .. PhaseOf(c, q).n
    BY <2>1, PiecesOf
  <2> QED BY <2>2, <2>3, <2>4 DEF Outputs
<1>3. "x_in" \notin Outputs(ph) /\ (p = NumPhases(c) => ph.n = Tiles)
  BY PhaseFacts
<1>4. ASSUME NEW r \in ph.reads
      PROVE  r \notin Outputs(ph) /\ (r = "x_in" => p < NumPhases(c))
  <2>1. (r = "x_in" /\ p < NumPhases(c)) \/ MadeBefore(c, p, r)
    BY PhaseFacts
  <2>2. CASE MadeBefore(c, p, r)
    BY <1>2, <2>2 DEF MadeBefore
  <2> QED BY <1>3, <2>1, <2>2
<1>5. ASSUME NEW r \in ph.own
      PROVE  r \notin Outputs(ph) /\ Pieces(c, r) = 1 .. ph.n
  <2>1. \/ r = "x_in" /\ p = NumPhases(c)
        \/ \E q \in 1 .. p - 1 : r \in Made(PhaseOf(c, q)) /\ PhaseOf(c, q).n = ph.n
    BY PhaseFacts
  <2>2. CASE r = "x_in" /\ p = NumPhases(c)
    BY <1>3, <2>2, InputPieces
  <2>3. ASSUME NEW q \in 1 .. p - 1, r \in Made(PhaseOf(c, q)), PhaseOf(c, q).n = ph.n
        PROVE  r \notin Outputs(ph) /\ Pieces(c, r) = 1 .. ph.n
    BY <1>2, <2>3
  <2> QED BY <2>1, <2>2, <2>3
<1> QED BY <1>1, <1>4, <1>5

\* What a CTA reads, no other has written.
LEMMA SameReads ==
  ASSUME NEW c, Known(c), NEW p \in 1 .. NumPhases(c), NEW k \in Nat, NEW g \in Nat \ {0},
         NEW e, Typed(e), Fits(e, c), NEW B, NEW m, Follows(m, e, c, k, PhaseOf(c, p), B, g)
  PROVE  /\ Ready(m, c, k, PhaseOf(c, p)) <=> Ready(e, c, k, PhaseOf(c, p))
         /\ \A u \in 1 .. PhaseOf(c, p).n : u \notin Share(PhaseOf(c, p), B, g) =>
              (Fed(m, c, k, PhaseOf(c, p), u) <=> Fed(e, c, k, PhaseOf(c, p), u))
<1> DEFINE ph == PhaseOf(c, p)
           f  == Effect(e, c, k, ph, B, g)
<1>1. \A r \in Roles(c) : m[Phys(c, r)] = f[Phys(c, r)] /\ DOMAIN f[Phys(c, r)] = Pieces(c, r)
  BY EffectShape DEF Follows, Fits
<1>2. \A r \in Roles(c) : \A u \in Pieces(c, r) :
        r \notin Outputs(ph) /\ (r = "x_in" => p < NumPhases(c) \/ u \notin Share(ph, B, g))
          => f[Phys(c, r)][u] = e[Phys(c, r)][u]
  BY EffectAt
<1>3. /\ \A r \in ph.reads :
           r \in Roles(c) /\ r \notin Outputs(ph) /\ (r = "x_in" => p < NumPhases(c))
      /\ \A r \in ph.own : r \in Roles(c) /\ r \notin Outputs(ph) /\ Pieces(c, r) = 1 .. ph.n
  BY ReadsApart
<1>4. \A r \in Roles(c) : DOMAIN e[Phys(c, r)] = Pieces(c, r)
  BY DEF Fits
<1> HIDE DEF f, ph
<1>5. ASSUME NEW r \in ph.reads
      PROVE  /\ DOMAIN m[Phys(c, r)] = DOMAIN e[Phys(c, r)]
             /\ \A u \in DOMAIN m[Phys(c, r)] : m[Phys(c, r)][u] = e[Phys(c, r)][u]
  BY <1>1, <1>2, <1>3, <1>4
<1>6. Ready(m, c, k, ph) <=> Ready(e, c, k, ph)
  BY <1>5 DEF Ready
<1>7. ASSUME NEW u \in 1 .. ph.n, u \notin Share(ph, B, g), NEW r \in ph.own
      PROVE  m[Phys(c, r)][u] = e[Phys(c, r)][u]
  BY <1>1, <1>2, <1>3, <1>7
<1>8. ASSUME NEW u \in 1 .. ph.n, u \notin Share(ph, B, g)
      PROVE  Fed(m, c, k, ph, u) <=> Fed(e, c, k, ph, u)
  BY <1>6, <1>7, <1>8 DEF Fed
<1> QED BY <1>6, <1>8 DEF ph

\* One more share on top of those of B makes what B and it make at once.
LEMMA AfterGrows ==
  ASSUME NEW c, Known(c), NEW p \in 1 .. NumPhases(c), NEW k \in Nat, NEW g \in Nat \ {0},
         NEW e, Typed(e), Fits(e, c), NEW B \in SUBSET (0 .. g - 1), NEW b \in (0 .. g - 1) \ B,
         NEW m, Follows(m, e, c, k, PhaseOf(c, p), B, g),
         NEW r \in Outputs(PhaseOf(c, p)), NEW u \in Pieces(c, r)
  PROVE  After(m, c, k, PhaseOf(c, p), {b}, g, r, u)
           = After(e, c, k, PhaseOf(c, p), B \cup {b}, g, r, u)
<1> DEFINE ph == PhaseOf(c, p)
           C  == B \cup {b}
           now == m[Phys(c, r)][u]
           old == e[Phys(c, r)][u]
           one == After(m, c, k, ph, {b}, g, r, u)
           all == After(e, c, k, ph, C, g, r, u)
<1>1. now = After(e, c, k, ph, B, g, r, u)
  <2>1. r \in Roles(c)
    BY RolesOf DEF Touches
  <2> QED BY <2>1, EffectAt DEF Follows
<1>2. /\ Share(ph, C, g) = Share(ph, B, g) \cup Share(ph, {b}, g)
      /\ Share(ph, B, g) \cap Share(ph, {b}, g) = {}
      /\ Share(ph, {b}, g) \subseteq 1 .. ph.n
  <2>1. ph.n \in Nat \ {0}
    BY PhaseFacts
  <2> HIDE DEF ph
  <2> QED BY <2>1, Shares
<1>3. /\ Ready(m, c, k, ph) <=> Ready(e, c, k, ph)
      /\ \A v \in 1 .. ph.n : v \notin Share(ph, B, g) =>
           (Fed(m, c, k, ph, v) <=> Fed(e, c, k, ph, v))
  BY SameReads
<1>4. u \in Share(ph, {b}, g) =>
        u \notin Share(ph, B, g) /\ (Fed(m, c, k, ph, u) <=> Fed(e, c, k, ph, u))
  BY <1>2, <1>3
<1>5. /\ 0 \in C <=> 0 \in B \/ b = 0
      /\ 0 \in {b} <=> b = 0
  OBVIOUS
<1> DEFINE made(ok) == IF ok THEN k ELSE Garbage
<1>6. CASE r \in ph.leads
  <2>1. now = IF 0 \in B THEN (IF Ready(e, c, k, ph) THEN k ELSE Garbage) ELSE old
    BY <1>1, <1>6, AfterCases
  <2>2. one = IF 0 \in {b} THEN (IF Ready(m, c, k, ph) THEN k ELSE Garbage) ELSE now
    BY <1>6, AfterCases
  <2>3. all = IF 0 \in C THEN (IF Ready(e, c, k, ph) THEN k ELSE Garbage) ELSE old
    BY <1>6, AfterCases
  <2> HIDE DEF one, all, now, old, C, ph
  <2>4. one = all
    BY <1>3, <1>5, <2>1, <2>2, <2>3
  <2> QED BY <2>4 DEF one, all, C, ph
<1>7. CASE r \in ph.writes
  <2>1. now = IF u \in Share(ph, B, g) THEN (IF Fed(e, c, k, ph, u) THEN k ELSE Garbage) ELSE old
    BY <1>1, <1>7, AfterCases
  <2>2. one = IF u \in Share(ph, {b}, g) THEN (IF Fed(m, c, k, ph, u) THEN k ELSE Garbage) ELSE now
    BY <1>7, AfterCases
  <2>3. all = IF u \in Share(ph, C, g) THEN (IF Fed(e, c, k, ph, u) THEN k ELSE Garbage) ELSE old
    BY <1>7, AfterCases
  <2> HIDE DEF one, all, now, old, C, ph
  <2>4. one = all
    BY <1>2, <1>4, <2>1, <2>2, <2>3
  <2> QED BY <2>4 DEF one, all, C, ph
<1>8. CASE r \in ph.adds
  <2>1. now = IF u \in Share(ph, B, g)
              THEN (IF Fed(e, c, k, ph, u) /\ old \in {Zero, k} THEN k ELSE Garbage) ELSE old
    BY <1>1, <1>8, AfterCases
  <2>2. one = IF u \in Share(ph, {b}, g)
              THEN (IF Fed(m, c, k, ph, u) /\ now \in {Zero, k} THEN k ELSE Garbage) ELSE now
    BY <1>8, AfterCases
  <2>3. all = IF u \in Share(ph, C, g)
              THEN (IF Fed(e, c, k, ph, u) /\ old \in {Zero, k} THEN k ELSE Garbage) ELSE old
    BY <1>8, AfterCases
  <2> HIDE DEF one, all, now, old, C, ph
  <2>4. one = all
    BY <1>2, <1>4, <2>1, <2>2, <2>3
  <2> QED BY <2>4 DEF one, all, C, ph
<1>9. CASE r \in ph.clears
  <2>1. now = IF 0 \in B THEN Zero ELSE old
    BY <1>1, <1>9, AfterCases
  <2>2. one = IF 0 \in {b} THEN Zero ELSE now
    BY <1>9, AfterCases
  <2>3. all = IF 0 \in C THEN Zero ELSE old
    BY <1>9, AfterCases
  <2> HIDE DEF one, all, now, old, C, ph
  <2>4. one = all
    BY <1>5, <2>1, <2>2, <2>3
  <2> QED BY <2>4 DEF one, all, C, ph
<1> QED BY <1>6, <1>7, <1>8, <1>9 DEF Outputs, Made

\* So the memory keeps following from the one the phase began in.
LEMMA EffectGrows ==
  ASSUME NEW c, Known(c), NEW p \in 1 .. NumPhases(c), NEW k \in Nat, NEW g \in Nat \ {0},
         NEW e, Typed(e), Fits(e, c), NEW B \in SUBSET (0 .. g - 1), NEW b \in (0 .. g - 1) \ B,
         NEW m, Typed(m), Fits(m, c), Follows(m, e, c, k, PhaseOf(c, p), B, g)
  PROVE  Follows(Effect(m, c, k, PhaseOf(c, p), {b}, g), e, c, k, PhaseOf(c, p), B \cup {b}, g)
<1> DEFINE ph == PhaseOf(c, p)
           one == Effect(m, c, k, ph, {b}, g)
           C == B \cup {b}
           all == Effect(e, c, k, ph, C, g)
           some == Effect(e, c, k, ph, B, g)
<1>1. /\ Typed(one) /\ DOMAIN one = DOMAIN m /\ \A x \in DOMAIN m : DOMAIN one[x] = DOMAIN m[x]
      /\ \A x \in DOMAIN m : (\A s \in Outputs(ph) : Phys(c, s) # x) => one[x] = m[x]
  BY EffectShape
<1>2. /\ Typed(all) /\ DOMAIN all = DOMAIN e /\ \A x \in DOMAIN e : DOMAIN all[x] = DOMAIN e[x]
      /\ \A x \in DOMAIN e : (\A s \in Outputs(ph) : Phys(c, s) # x) => all[x] = e[x]
  BY EffectShape
<1>3. \A x \in DOMAIN e : (\A s \in Outputs(ph) : Phys(c, s) # x) => some[x] = e[x]
  BY EffectShape
<1>4. \A r \in Roles(c) : m[Phys(c, r)] = some[Phys(c, r)]
  BY DEF Follows
<1>5. \A r \in Roles(c) : Phys(c, r) \in DOMAIN m /\ DOMAIN m[Phys(c, r)] = Pieces(c, r)
  BY DEF Fits
<1>6. \A r \in Roles(c) : Phys(c, r) \in DOMAIN e /\ DOMAIN e[Phys(c, r)] = Pieces(c, r)
  BY DEF Fits
<1>7. ASSUME NEW r \in Outputs(ph)
      PROVE  one[Phys(c, r)] = all[Phys(c, r)]
  <2> DEFINE x == Phys(c, r)
  <2>1. r \in Roles(c)
    BY RolesOf DEF Touches
  <2>2. \A u \in Pieces(c, r) : one[x][u] = After(m, c, k, ph, {b}, g, r, u)
    BY <2>1, EffectAt
  <2>3. \A u \in Pieces(c, r) : all[x][u] = After(e, c, k, ph, C, g, r, u)
    BY <2>1, EffectAt
  <2>4. \A u \in Pieces(c, r) : After(m, c, k, ph, {b}, g, r, u) = After(e, c, k, ph, C, g, r, u)
    BY AfterGrows
  <2>5. one[x] \in [Pieces(c, r) -> Int] /\ all[x] \in [Pieces(c, r) -> Int]
    <3> HIDE DEF one, all, ph
    <3> QED BY <1>1, <1>2, <1>5, <1>6, <2>1 DEF Typed
  <2> HIDE DEF one, all, ph, x, C
  <2>6. one[x] = all[x]
    <3>1. \A u \in Pieces(c, r) : one[x][u] = all[x][u]
      BY <2>2, <2>3, <2>4
    <3> QED BY <2>5, <3>1
  <2> QED BY <2>6 DEF x
<1>8. ASSUME NEW r \in Roles(c), \A s \in Outputs(ph) : Phys(c, s) # Phys(c, r)
      PROVE  one[Phys(c, r)] = all[Phys(c, r)]
  <2> DEFINE x == Phys(c, r)
  <2>1. x \in DOMAIN m /\ x \in DOMAIN e /\ m[x] = some[x] /\ \A s \in Outputs(ph) : Phys(c, s) # x
    BY <1>4, <1>5, <1>6, <1>8
  <2> HIDE DEF x, one, all, some, ph
  <2>2. one[x] = m[x] /\ all[x] = e[x] /\ some[x] = e[x]
    BY <1>1, <1>2, <1>3, <2>1
  <2> QED BY <2>1, <2>2 DEF x
<1>9. ASSUME NEW r \in Roles(c)
      PROVE  one[Phys(c, r)] = all[Phys(c, r)]
  BY <1>7, <1>8
<1> QED BY <1>9 DEF Follows

\* Before the first share nothing has changed.
LEMMA EffectNone ==
  ASSUME NEW c, Known(c), NEW p \in 1 .. NumPhases(c), NEW k \in Nat, NEW g,
         NEW m, Typed(m), Fits(m, c)
  PROVE  Follows(m, m, c, k, PhaseOf(c, p), {}, g)
<1> DEFINE ph == PhaseOf(c, p)
           e == Effect(m, c, k, ph, {}, g)
<1> SUFFICES ASSUME NEW r \in Roles(c) PROVE m[Phys(c, r)] = e[Phys(c, r)]
  BY DEF Follows
<1>1. Typed(e) /\ DOMAIN e = DOMAIN m /\ \A x \in DOMAIN m : DOMAIN e[x] = DOMAIN m[x]
  BY EffectShape
<1>2. \A u \in Pieces(c, r) : e[Phys(c, r)][u] = m[Phys(c, r)][u]
  <2> SUFFICES ASSUME NEW u \in Pieces(c, r) PROVE e[Phys(c, r)][u] = m[Phys(c, r)][u]
    OBVIOUS
  <2>1. Share(ph, {}, g) = {}
    BY NoShare
  <2>2. CASE r \in Outputs(ph)
    <3>1. e[Phys(c, r)][u] = After(m, c, k, ph, {}, g, r, u)
      BY <2>2, EffectAt
    <3>2. After(m, c, k, ph, {}, g, r, u) = m[Phys(c, r)][u]
      BY <2>1 DEF After
    <3> QED BY <3>1, <3>2
  <2>3. CASE r \notin Outputs(ph)
    BY <2>1, <2>3, EffectAt
  <2> QED BY <2>2, <2>3
<1>3. Phys(c, r) \in DOMAIN m /\ DOMAIN m[Phys(c, r)] = Pieces(c, r)
  BY DEF Fits
<1> DEFINE x == Phys(c, r)
<1> HIDE DEF e, x
<1>4. /\ m[x] \in [Pieces(c, r) -> Int] /\ e[x] \in [Pieces(c, r) -> Int]
      /\ \A u \in Pieces(c, r) : e[x][u] = m[x][u]
  BY <1>1, <1>2, <1>3 DEF Typed, x
<1>5. m[x] = e[x]
  BY <1>4
<1> QED BY <1>5 DEF x

-----------------------------------------------------------------------------
(* A launch: the CTAs are at most one phase apart.                         *)

\* Where the video expert and the action expert are launched, every phase claimed by
\* block has a CTA for each of its pieces; the text encoder needs a grid of as many CTAs
\* as it has heads, which its launcher does not ask for.
TextGrids  == Heads <= SmallestGrid /\ \A n \in Capacities : Heads <= n
Covered(f) == f = "text" => TextGrids

Through(d, p) == {b \in DOMAIN d : d[b] = p}
Last(s, ph, c) == IF s THEN ph ELSE NumPhases(c)

\* In phase p of a launch of the k-th call of family f: s the form, ph the phase of a
\* split launch, d what its CTAs have done, m the memory.
InPhase(f, k, s, ph, d, m, p) ==
  LET c == CallAt(f, k)
  IN  /\ p \in (IF s THEN ph ELSE 1) .. Last(s, ph, c)
      /\ \A b \in DOMAIN d : d[b] \in {p - 1, p}
      /\ Covered(f) => Stage(m, c, k, p, Through(d, p), Cardinality(DOMAIN d))

Grid(f, k, d) ==
  LET c == CallAt(f, k)
      g == Cardinality(DOMAIN d)
  IN  /\ g \in Nat \ {0} /\ DOMAIN d = 0 .. g - 1
      /\ Covered(f) => ByBlockFits(Kernel(c.kernel).phases, NumPhases(c), g)

Running(f, k, s, ph, d, m) ==
  Grid(f, k, d) /\ \E p \in Nat : InPhase(f, k, s, ph, d, m, p)

LEMMA GridSize ==
  ASSUME NEW g \in Nat \ {0}
  PROVE  Cardinality(0 .. g - 1) = g
<1>1. 0 \in Int /\ g - 1 \in Int /\ ~(0 > g - 1) /\ (g - 1) - 0 + 1 = g
  OBVIOUS
<1> QED BY <1>1, FS_Interval

\* The phase that a CTA is about to begin is the one the launch is in, or the next.
LEMMA PhaseBegun ==
  ASSUME NEW f, Names(f), NEW k \in 1 .. NumCalls(f), NEW s \in BOOLEAN,
         NEW ph \in 1 .. NumPhases(CallAt(f, k)), NEW d, NEW m, Fits(m, CallAt(f, k)),
         Running(f, k, s, ph, d, m), NEW b \in DOMAIN d,
         d[b] < Last(s, ph, CallAt(f, k)), \A x \in DOMAIN d : d[x] >= d[b]
  PROVE  \E p \in 1 .. NumPhases(CallAt(f, k)) : d[b] = p - 1 /\ InPhase(f, k, s, ph, d, m, p)
<1> DEFINE c == CallAt(f, k)
           g == Cardinality(DOMAIN d)
           N == NumPhases(c)
           last == Last(s, ph, c)
           begin == IF s THEN ph ELSE 1
<1>1. Known(c)
  BY CallKnown
<1>2. N \in Nat \ {0, 1} /\ ph \in Nat
  BY <1>1, PhaseFacts
<1>3. begin \in 1 .. N /\ last \in 1 .. N
  BY <1>2 DEF Last
<1>4. /\ g \in Nat \ {0} /\ DOMAIN d = 0 .. g - 1
      /\ Covered(f) => ByBlockFits(Kernel(c.kernel).phases, N, g)
  BY DEF Running, Grid
<1>5. PICK p \in Nat : InPhase(f, k, s, ph, d, m, p)
  BY DEF Running
<1>6. /\ p \in begin .. last
      /\ \A x \in DOMAIN d : d[x] \in {p - 1, p}
      /\ Covered(f) => Stage(m, c, k, p, Through(d, p), g)
  BY <1>5 DEF InPhase
<1>7. p \in 1 .. N
  <2> HIDE DEF begin, last, N
  <2> QED BY <1>2, <1>3, <1>6
<1>8. CASE d[b] = p - 1
  BY <1>5, <1>7, <1>8
<1>9. CASE d[b] = p
  <2>1. p < last /\ d[b] < last
    BY <1>9
  <2>2. p + 1 \in 1 .. N /\ p < N /\ p + 1 \in begin .. last /\ (p + 1) - 1 = p
    <3> HIDE DEF begin, last, N
    <3> QED BY <1>2, <1>3, <1>6, <2>1
  <2>3. \A x \in DOMAIN d : d[x] = p
    <3> SUFFICES ASSUME NEW x \in DOMAIN d PROVE d[x] = p
      OBVIOUS
    <3>1. d[x] \in {p - 1, p} /\ d[x] >= p
      BY <1>6, <1>9
    <3> QED BY <3>1
  <2>4. Through(d, p) = DOMAIN d /\ Through(d, p + 1) = {}
    <3>1. p # p + 1
      OBVIOUS
    <3> QED BY <2>3, <3>1 DEF Through
  <2>5. Covered(f) => Stage(m, c, k, p + 1, {}, g)
    <3> SUFFICES ASSUME Covered(f) PROVE Stage(m, c, k, p + 1, {}, g)
      OBVIOUS
    <3>1. Stage(m, c, k, p, 0 .. g - 1, g)
      BY <1>4, <1>6, <2>4
    <3>2. PhaseOf(c, p).strided \/ PhaseOf(c, p).n <= g
      BY <1>4, <1>7 DEF ByBlockFits, PhaseOf
    <3> HIDE DEF c, g, N
    <3>3. p \in 1 .. NumPhases(c) /\ p < NumPhases(c)
      BY <1>7, <2>2 DEF N
    <3> QED BY <1>1, <1>4, <3>1, <3>2, <3>3, NextPhase
  <2>6. \A x \in DOMAIN d : d[x] \in {(p + 1) - 1, p + 1}
    BY <2>2, <2>3
  <2>7. InPhase(f, k, s, ph, d, m, p + 1)
    BY <2>2, <2>4, <2>5, <2>6 DEF InPhase
  <2> QED BY <1>9, <2>2, <2>7
<1> QED BY <1>6, <1>8, <1>9

\* A share of a CTA keeps the launch within a phase.
LEMMA WorkRuns ==
  ASSUME NEW f, Names(f), NEW k \in 1 .. NumCalls(f), NEW s \in BOOLEAN,
         NEW ph \in 1 .. NumPhases(CallAt(f, k)), NEW d, NEW m, Fits(m, CallAt(f, k)),
         Running(f, k, s, ph, d, m), NEW b \in DOMAIN d,
         d[b] < Last(s, ph, CallAt(f, k)), \A x \in DOMAIN d : d[x] >= d[b]
  PROVE  Running(f, k, s, ph, [d EXCEPT ![b] = @ + 1],
                 Effect(m, CallAt(f, k), k, PhaseOf(CallAt(f, k), d[b] + 1), {b},
                        Cardinality(DOMAIN d)))
<1> DEFINE c == CallAt(f, k)
           g == Cardinality(DOMAIN d)
           N == NumPhases(c)
           d2 == [d EXCEPT ![b] = @ + 1]
           m2 == Effect(m, c, k, PhaseOf(c, d[b] + 1), {b}, g)
<1>1. PICK p \in 1 .. N : d[b] = p - 1 /\ InPhase(f, k, s, ph, d, m, p)
  BY PhaseBegun
<1>2. Known(c)
  BY CallKnown
<1>3. N \in Nat \ {0, 1} /\ p \in Nat /\ d[b] + 1 = p
  BY <1>1, <1>2, PhaseFacts
<1>4. Grid(f, k, d) /\ g \in Nat \ {0} /\ DOMAIN d = 0 .. g - 1
  BY DEF Running, Grid
<1>5. /\ p \in (IF s THEN ph ELSE 1) .. Last(s, ph, c)
      /\ \A x \in DOMAIN d : d[x] \in {p - 1, p}
      /\ Covered(f) => Stage(m, c, k, p, Through(d, p), g)
  BY <1>1 DEF InPhase
<1>6. DOMAIN d2 = DOMAIN d /\ d2[b] = p /\ \A x \in DOMAIN d : x # b => d2[x] = d[x]
  BY <1>3
<1>7. b \notin Through(d, p)
  BY <1>1, <1>3 DEF Through
<1>8. m2 = Effect(m, c, k, PhaseOf(c, p), {b}, g)
  BY <1>3
<1> HIDE DEF d2, m2
<1>9. Through(d2, p) = Through(d, p) \cup {b}
  BY <1>6 DEF Through
<1>10. Covered(f) => Stage(m2, c, k, p, Through(d2, p), g)
  <2> SUFFICES ASSUME Covered(f) PROVE Stage(m2, c, k, p, Through(d2, p), g)
    OBVIOUS
  <2> DEFINE B == Through(d, p)
  <2>1. B \in SUBSET (0 .. g - 1) /\ b \in (0 .. g - 1) \ B
    BY <1>4, <1>7 DEF Through
  <2>2. Stage(m, c, k, p, B, g)
    BY <1>5
  <2> HIDE DEF B, c, g
  <2>3. p \in 1 .. NumPhases(c) /\ Fits(m, c)
    BY DEF c
  <2>4. Stage(Effect(m, c, k, PhaseOf(c, p), {b}, g), c, k, p, B \cup {b}, g)
    BY <1>2, <1>4, <2>1, <2>2, <2>3, ShareDone
  <2> QED BY <1>8, <1>9, <2>4 DEF B
<1>11. \A x \in DOMAIN d2 : d2[x] \in {p - 1, p}
  BY <1>5, <1>6
<1>12. Cardinality(DOMAIN d2) = g /\ Grid(f, k, d2)
  BY <1>4, <1>6 DEF Grid
<1>13. InPhase(f, k, s, ph, d2, m2, p)
  BY <1>5, <1>10, <1>11, <1>12 DEF InPhase
<1>14. Running(f, k, s, ph, d2, m2)
  BY <1>3, <1>12, <1>13 DEF Running
<1> QED BY <1>14 DEF d2, m2

\* The end of a launch.
LEMMA GridEnds ==
  ASSUME NEW f, Names(f), Covered(f), NEW k \in 1 .. NumCalls(f), NEW s \in BOOLEAN,
         NEW ph \in 1 .. NumPhases(CallAt(f, k)), NEW d, NEW m, Fits(m, CallAt(f, k)),
         Running(f, k, s, ph, d, m), \A x \in DOMAIN d : d[x] = Last(s, ph, CallAt(f, k))
  PROVE  \E g \in Nat \ {0} :
           /\ Stage(m, CallAt(f, k), k, Last(s, ph, CallAt(f, k)), 0 .. g - 1, g)
           /\ ByBlockFits(Kernel(CallAt(f, k).kernel).phases, NumPhases(CallAt(f, k)), g)
<1> DEFINE c == CallAt(f, k)
           g == Cardinality(DOMAIN d)
           N == NumPhases(c)
           last == Last(s, ph, c)
<1>1. Known(c)
  BY CallKnown
<1>2. N \in Nat \ {0, 1} /\ ph \in Nat /\ last \in 1 .. N
  <2>1. N \in Nat \ {0, 1}
    BY <1>1, PhaseFacts
  <2> QED BY <2>1 DEF Last
<1>3. /\ g \in Nat \ {0} /\ DOMAIN d = 0 .. g - 1
      /\ ByBlockFits(Kernel(c.kernel).phases, N, g)
  BY DEF Running, Grid
<1>4. PICK p \in Nat : InPhase(f, k, s, ph, d, m, p)
  BY DEF Running
<1>5. /\ p \in (IF s THEN ph ELSE 1) .. last
      /\ \A x \in DOMAIN d : d[x] \in {p - 1, p}
      /\ Stage(m, c, k, p, Through(d, p), g)
  BY <1>4 DEF InPhase
<1>6. p = last
  <2>1. 0 \in DOMAIN d
    BY <1>3
  <2>2. d[0] = last /\ d[0] \in {p - 1, p}
    BY <1>5, <2>1
  <2>3. p <= last /\ last \in Nat
    BY <1>2, <1>5
  <2> HIDE DEF last
  <2> QED BY <2>2, <2>3
<1>7. Through(d, p) = DOMAIN d
  BY <1>6 DEF Through
<1> QED BY <1>3, <1>5, <1>6, <1>7

\* A recorded phase stays a function of the memory it began in.
LEMMA WorkFollows ==
  ASSUME NEW f, Names(f), NEW k \in 1 .. NumCalls(f),
         NEW ph \in 1 .. NumPhases(CallAt(f, k)), NEW d,
         NEW m, Typed(m), Fits(m, CallAt(f, k)), Running(f, k, TRUE, ph, d, m),
         NEW b \in DOMAIN d, d[b] < ph, \A x \in DOMAIN d : d[x] >= d[b],
         NEW e, Typed(e), Fits(e, CallAt(f, k)),
         Follows(m, e, CallAt(f, k), k, PhaseOf(CallAt(f, k), ph), Through(d, ph),
                 Cardinality(DOMAIN d))
  PROVE  Follows(Effect(m, CallAt(f, k), k, PhaseOf(CallAt(f, k), d[b] + 1), {b},
                        Cardinality(DOMAIN d)),
                 e, CallAt(f, k), k, PhaseOf(CallAt(f, k), ph),
                 Through([d EXCEPT ![b] = @ + 1], ph),
                 Cardinality(DOMAIN [d EXCEPT ![b] = @ + 1]))
<1> DEFINE c == CallAt(f, k)
           g == Cardinality(DOMAIN d)
           B == Through(d, ph)
           d2 == [d EXCEPT ![b] = @ + 1]
<1>1. Known(c)
  BY CallKnown
<1>2. NumPhases(c) \in Nat \ {0, 1} /\ ph \in Nat
  BY <1>1, PhaseFacts
<1>3. PICK p \in 1 .. NumPhases(c) : d[b] = p - 1 /\ InPhase(f, k, TRUE, ph, d, m, p)
  <2>1. d[b] < Last(TRUE, ph, c)
    BY DEF Last
  <2> QED BY <2>1, PhaseBegun
<1>4. p = ph /\ d[b] + 1 = ph
  <2>1. p \in ph .. ph
    BY <1>3 DEF InPhase, Last
  <2> QED BY <1>2, <1>3, <2>1
<1>5. g \in Nat \ {0} /\ DOMAIN d = 0 .. g - 1
  BY DEF Running, Grid
<1>6. B \in SUBSET (0 .. g - 1) /\ b \in (0 .. g - 1) \ B
  <2>1. b \notin B
    BY <1>2, <1>4 DEF Through
  <2> QED BY <1>5, <2>1 DEF Through
<1>7. k \in Nat
  OBVIOUS
<1>8. Through(d2, ph) = B \cup {b} /\ DOMAIN d2 = DOMAIN d
  BY <1>4 DEF Through
<1> HIDE DEF c, g, B, d2
<1>9. /\ ph \in 1 .. NumPhases(c) /\ Fits(m, c) /\ Fits(e, c)
      /\ Follows(m, e, c, k, PhaseOf(c, ph), B, g)
  BY DEF c, g, B
<1>10. Follows(Effect(m, c, k, PhaseOf(c, ph), {b}, g), e, c, k, PhaseOf(c, ph), B \cup {b}, g)
  BY <1>1, <1>5, <1>6, <1>7, <1>9, EffectGrows
<1> QED BY <1>4, <1>8, <1>10 DEF c, g, d2

\* A snapshot is all that a phase depends on.
LEMMA SnapshotFollows ==
  ASSUME NEW c, Known(c), NEW p \in 1 .. NumPhases(c), NEW k \in Nat, NEW g,
         NEW m, Typed(m), Fits(m, c), NEW ph
  PROVE  LET e == Snapshot(m, c, ph)
         IN  Typed(e) /\ Fits(e, c) /\ Follows(m, e, c, k, PhaseOf(c, p), {}, g)
<1> DEFINE e == Snapshot(m, c, ph)
<1>1. DOMAIN e = {Phys(c, r) : r \in Roles(c)} /\ \A b \in DOMAIN e : e[b] = m[b]
  BY DEF Snapshot
<1>2. \A r \in Roles(c) : Phys(c, r) \in DOMAIN e
  BY <1>1
<1>3. \A b \in DOMAIN e : b \in DOMAIN m
  BY <1>1 DEF Fits
<1> HIDE DEF e
<1>4. Typed(e)
  BY <1>1, <1>3 DEF Typed
<1>5. Fits(e, c)
  BY <1>1, <1>2 DEF Fits
<1>6. Follows(e, e, c, k, PhaseOf(c, p), {}, g)
  BY <1>4, <1>5, EffectNone
<1>7. Follows(m, e, c, k, PhaseOf(c, p), {}, g)
  BY <1>1, <1>2, <1>6 DEF Follows
<1> QED BY <1>4, <1>5, <1>7 DEF e

-----------------------------------------------------------------------------
(* The invariant.                                                          *)

TypeInv ==
  /\ Names(family)
  /\ capacity \in [FamilyKernels(family) -> Capacities]
  /\ split \in BOOLEAN
  /\ Typed(mem) /\ \A k \in 1 .. NumCalls(family) : Fits(mem, CallAt(family, k))
  /\ call \in 1 .. NumCalls(family) + 1
  /\ Ended => phase = 1 /\ launch = "none"
  /\ ~Ended => phase \in 1 .. NumPhases(Now)
  /\ ~split => phase = 1
  /\ launch \in {"none", "running", "raised"}

\* A runner that is not split was resolved with every kernel of its family available.
FormInv == ~split => \A k \in FamilyKernels(family) : CoopAvailable(k)

RunInv == launch = "running" => Running(family, call, split, phase, done, mem)

RestInv ==
  launch = "none" /\ ~Ended /\ Covered(family) => Stage(mem, Now, call, phase, {}, 1)

OutputInv == Covered(family) => OutputComplete

\* The caches of the layers whose self-attention has ended.
CacheInv ==
  family = "video" =>
    \A i \in 1 .. Layers : 3 * (i - 1) + 1 < call =>
      \A r \in {"kc", "vc"} : \A u \in DOMAIN mem[Cache(i)[r]] :
        mem[Cache(i)[r]][u] = 3 * (i - 1) + 1

Replays(e, x, f) ==
  LET c == CallAt(f, x.call)
      replayed == Effect(e, c, x.call, PhaseOf(c, x.phase), 0 .. x.grid - 1, x.grid)
  IN  \A b \in DOMAIN x.mem : replayed[b] = x.mem[b]

ReplayInv ==
  /\ entry = << >> => exits = << >>
  /\ entry # << >> /\ exits = << >> =>
       /\ split /\ launch = "running"
       /\ Typed(entry) /\ Fits(entry, Now)
       /\ Follows(mem, entry, Now, call, PhaseOf(Now, phase), Through(done, phase),
                  Cardinality(DOMAIN done))
  /\ exits # << >> => Replays(entry, exits, family)

IInv == TypeInv /\ FormInv /\ RunInv /\ RestInv /\ OutputInv /\ CacheInv /\ ReplayInv

LEMMA Counts ==
  ASSUME NEW f, Names(f)
  PROVE  CallsPerLayer(f) \in {2, 3} /\ NumCalls(f) \in Nat \ {0}
<1>1. Layers \in Nat \ {0}
  BY KernelAssumption
<1> QED BY <1>1 DEF CallsPerLayer, NumCalls

\* The input of a call is the memory of the output of the one before.
LEMMA InputPlace ==
  ASSUME NEW f, Names(f), NEW k \in 1 .. NumCalls(f)
  PROVE  Phys(CallAt(f, k), "x_in") = IF k = 1 THEN <<"tokens", 0>>
                                      ELSE Phys(CallAt(f, k - 1), "out")
<1>1. ASSUME NEW l \in 1 .. NumCalls(f)
      PROVE  /\ Phys(CallAt(f, l), "x_in") = CallAt(f, l).bind["x_in"]
             /\ Phys(CallAt(f, l), "out") = CallAt(f, l).bind["out"]
  <2>1. PICK i \in 1 .. Layers, j \in 1 .. CallsPerLayer(f) : CallOk(f, i, j, CallAt(f, l))
    BY CallAtOk
  <2> QED BY <2>1, Places
<1>2. CallAt(f, k).bind["x_in"] = IF k = 1 THEN <<"tokens", 0>> ELSE CallAt(f, k - 1).bind["out"]
  BY Chained
<1>3. k # 1 => k - 1 \in 1 .. NumCalls(f)
  BY Counts
<1> QED BY <1>1, <1>2, <1>3

\* The first call begins on the tokens.
LEMMA FirstCall ==
  ASSUME NEW f, Names(f), NEW g
  PROVE  Stage(Fresh(f), CallAt(f, 1), 1, 1, {}, g)
<1> DEFINE c == CallAt(f, 1)
           m == Fresh(f)
           b == <<"tokens", 0>>
<1>1. 1 \in 1 .. NumCalls(f)
  BY Counts
<1>2. Phys(c, "x_in") = b
  BY <1>1, InputPlace
<1>3. Fits(m, c) /\ (b \in DOMAIN m => \A u \in DOMAIN m[b] : m[b][u] = Zero)
  BY <1>1, FreshMemory
<1>4. Known(c)
  BY <1>1, CallKnown
<1> HIDE DEF c, m, b
<1>5. ASSUME "x_in" \in Roles(c), NEW u \in 1 .. Tiles
      PROVE  m[Phys(c, "x_in")][u] = 1 - 1
  <2>1. b \in DOMAIN m /\ DOMAIN m[b] = 1 .. Tiles
    BY <1>2, <1>3, <1>5, InputPieces DEF Fits
  <2>2. m[b][u] = Zero /\ Zero = 1 - 1
    BY <1>3, <2>1 DEF Zero
  <2> QED BY <1>2, <2>2
<1>6. Stage(m, c, 1, 1, {}, g)
  BY <1>4, <1>5, CallBegins
<1> QED BY <1>6 DEF c, m

\* A call begins where the one before has ended.
LEMMA NextCall ==
  ASSUME NEW f, Names(f), NEW k \in 1 .. NumCalls(f), k + 1 \in 1 .. NumCalls(f),
         NEW m, Fits(m, CallAt(f, k)), NEW g,
         \A p \in 1 .. NumPhases(CallAt(f, k)) : \A r \in Made(PhaseOf(CallAt(f, k), p)) :
           \A u \in DOMAIN m[Phys(CallAt(f, k), r)] : m[Phys(CallAt(f, k), r)][u] = k
  PROVE  Stage(m, CallAt(f, k + 1), k + 1, 1, {}, g)
<1> DEFINE c == CallAt(f, k)
           d == CallAt(f, k + 1)
           N == NumPhases(c)
<1>1. Known(c) /\ Known(d)
  BY CallKnown
<1>2. Phys(d, "x_in") = Phys(c, "out")
  <2>1. k + 1 # 1 /\ (k + 1) - 1 = k
    OBVIOUS
  <2> QED BY <2>1, InputPlace
<1>3. N \in 1 .. N /\ "out" \in PhaseOf(c, N).writes
  <2>1. N \in Nat \ {0, 1}
    BY <1>1 DEF Known, PhasesOk, NumPhases
  <2>2. N \in 1 .. N
    BY <2>1
  <2> QED BY <1>1, <2>2, PhaseFacts
<1>4. "out" \in Made(PhaseOf(c, N)) /\ "out" \in Roles(c)
  BY <1>1, <1>3, PiecesOf DEF Made
<1>5. DOMAIN m[Phys(c, "out")] = 1 .. Tiles
  BY <1>4, InputPieces DEF Fits
<1>6. \A u \in 1 .. Tiles : m[Phys(c, "out")][u] = k
  BY <1>3, <1>4, <1>5
<1>7. \A u \in 1 .. Tiles : m[Phys(d, "x_in")][u] = (k + 1) - 1
  <2>1. (k + 1) - 1 = k
    OBVIOUS
  <2> QED BY <1>2, <1>6, <2>1
<1> HIDE DEF d
<1>8. Stage(m, d, k + 1, 1, {}, g)
  BY <1>1, <1>7, CallBegins
<1> QED BY <1>8 DEF d

\* The grids the launchers choose.  Only the text family needs to be asked for CTAs.
LEMMA GridOk ==
  ASSUME TypeInv, FormInv, ~Ended, NEW g \in Grids(Now.kernel)
  PROVE  /\ g \in Nat \ {0}
         /\ Covered(family) => ByBlockFits(Kernel(Now.kernel).phases, NumPhases(Now), g)
<1> DEFINE k == Now.kernel
           min == Kernel(k).min
<1>1. Names(family) /\ call \in 1 .. NumCalls(family)
  <2>1. call \in 1 .. NumCalls(family) + 1 /\ ~(call > NumCalls(family)) /\ Names(family)
    BY DEF TypeInv, Ended
  <2> QED BY <2>1, Counts
<1>2. k \in FamilyKernels(family)
  BY <1>1, CallKnown DEF Now
<1>3. capacity[k] \in Capacities /\ capacity[k] \in Nat \ {0}
  BY <1>2, KernelAssumption DEF TypeInv
<1>4. /\ min \in Nat \ {0}
      /\ \A n \in Nat : min <= n /\ (family = "text" => Heads <= n)
           => ByBlockFits(Kernel(k).phases, Len(Kernel(k).phases), n)
  BY <1>1, <1>2, KernelsOk
<1>5. SmallestGrid \in Nat /\ Heads \in Nat
  BY KernelAssumption
<1>6. family = "text" => Kernel(k).policy # "problem"
  <2> SUFFICES ASSUME family = "text" PROVE Kernel(k).policy # "problem"
    OBVIOUS
  <2>1. k = "tmt5.ffn" \/ k = "tmt5.attn"
    BY <1>2 DEF FamilyKernels
  <2> QED BY <2>1 DEF Kernel, Tmt5Ffn, Tmt5Attn
<1> HIDE DEF k, min
<1>7. g \in Grids(k)
  BY DEF k
<1>8. g \in Nat \ {0} /\ min <= g /\ (TextGrids /\ family = "text" => Heads <= g)
  <2>1. CASE Kernel(k).policy = "problem"
    <3>1. g = min
      BY <1>7, <2>1 DEF Grids, min
    <3> QED BY <1>4, <1>6, <2>1, <3>1
  <2>2. CASE Kernel(k).policy # "problem" /\ split
    <3>1. g = Most(capacity[k], min)
      BY <1>7, <2>2 DEF Grids, min
    <3>2. g \in Nat \ {0} /\ min <= g /\ capacity[k] <= g
      BY <1>3, <1>4, <3>1 DEF Most
    <3>3. TextGrids => Heads <= capacity[k]
      BY <1>3 DEF TextGrids
    <3> QED BY <1>3, <1>5, <3>2, <3>3
  <2>3. CASE Kernel(k).policy # "problem" /\ ~split
    <3>1. g \in Most(min, SmallestGrid) .. capacity[k]
      BY <1>7, <2>3 DEF Grids, min
    <3>2. g \in Nat \ {0} /\ min <= g /\ SmallestGrid <= g
      BY <1>3, <1>4, <1>5, <3>1 DEF Most
    <3>3. TextGrids => Heads <= SmallestGrid
      BY DEF TextGrids
    <3> QED BY <1>5, <3>2, <3>3
  <2> QED BY <2>1, <2>2, <2>3
<1>9. Covered(family) => ByBlockFits(Kernel(k).phases, Len(Kernel(k).phases), g)
  BY <1>4, <1>8 DEF Covered
<1> QED BY <1>8, <1>9 DEF NumPhases, k

-----------------------------------------------------------------------------
(* The steps.                                                              *)

\* What the type invariant says of the call that is running.
LEMMA Running0 ==
  ASSUME TypeInv, ~Ended
  PROVE  /\ Names(family) /\ call \in 1 .. NumCalls(family) /\ call \in Nat
         /\ Known(Now) /\ Now.kernel \in FamilyKernels(family)
         /\ Fits(mem, Now) /\ Typed(mem) /\ split \in BOOLEAN
         /\ phase \in 1 .. NumPhases(Now) /\ NumPhases(Now) \in Nat \ {0, 1} /\ phase \in Nat
<1>1. Names(family) /\ call \in 1 .. NumCalls(family) /\ call \in Nat
  <2>1. call \in 1 .. NumCalls(family) + 1 /\ ~(call > NumCalls(family)) /\ Names(family)
    BY DEF TypeInv, Ended
  <2> QED BY <2>1, Counts
<1>2. Known(Now) /\ Now.kernel \in FamilyKernels(family)
  BY <1>1, CallKnown DEF Now
<1>3. Fits(mem, Now) /\ Typed(mem) /\ split \in BOOLEAN /\ phase \in 1 .. NumPhases(Now)
  BY <1>1 DEF TypeInv, Now
<1>4. NumPhases(Now) \in Nat \ {0, 1} /\ phase \in Nat
  BY <1>2, <1>3, PhaseFacts
<1> QED BY <1>1, <1>2, <1>3, <1>4

\* The invariant holds at the start, and each action keeps it.
LEMMA InitInv == Init => IInv
<1> SUFFICES ASSUME Init PROVE IInv
  OBVIOUS
<1>1. Names(family)
  BY KernelAssumption DEF Init, Names
<1>2. NumCalls(family) \in Nat \ {0} /\ 1 \in 1 .. NumCalls(family)
  BY <1>1, Counts
<1>3. /\ call = 1 /\ phase = 1 /\ launch \in {"none", "raised"} /\ mem = Fresh(family)
      /\ entry = << >> /\ exits = << >>
  BY DEF Init
<1>4. ~Ended /\ Now = CallAt(family, 1)
  BY <1>2, <1>3 DEF Ended, Now
<1>5. 1 \in 1 .. NumPhases(Now)
  <2>1. Known(Now)
    BY <1>1, <1>2, <1>4, CallKnown
  <2> QED BY <2>1 DEF Known, PhasesOk, NumPhases
<1>6. TypeInv
  <2>1. capacity \in [FamilyKernels(family) -> Capacities]
    BY DEF Init
  <2>2. split \in BOOLEAN
    BY DEF Init, ResolveSplit
  <2>3. Typed(mem) /\ \A k \in 1 .. NumCalls(family) : Fits(mem, CallAt(family, k))
    BY <1>1, <1>3, FreshMemory
  <2>4. call \in 1 .. NumCalls(family) + 1 /\ phase \in 1 .. NumPhases(Now)
    BY <1>2, <1>3, <1>5
  <2> QED BY <1>1, <1>3, <1>4, <2>1, <2>2, <2>3, <2>4 DEF TypeInv
<1>7. FormInv
  BY DEF Init, FormInv, ResolveSplit
<1>8. RunInv
  BY <1>3 DEF RunInv
<1>9. RestInv
  BY <1>1, <1>3, <1>4, FirstCall DEF RestInv
<1>10. OutputInv
  <2>1. \A k \in 1 .. NumCalls(family) : call # k + 1
    BY <1>3
  <2> QED BY <2>1 DEF OutputInv, OutputComplete
<1>11. CacheInv
  <2>1. \A i \in 1 .. Layers : ~(3 * (i - 1) + 1 < call)
    BY <1>3, KernelAssumption
  <2> QED BY <2>1 DEF CacheInv
<1>12. ReplayInv
  BY <1>3 DEF ReplayInv
<1> QED BY <1>6, <1>7, <1>8, <1>9, <1>10, <1>11, <1>12 DEF IInv

LEMMA LaunchInv == IInv /\ Launch => IInv'
<1> SUFFICES ASSUME IInv, Launch PROVE IInv'
  OBVIOUS
<1>1. TypeInv /\ FormInv /\ RestInv /\ OutputInv /\ CacheInv /\ ReplayInv
  BY DEF IInv
<1>2. launch = "none" /\ ~Ended
  BY DEF Launch
<1>3. /\ Names(family) /\ call \in 1 .. NumCalls(family) /\ call \in Nat
      /\ Known(Now) /\ Now.kernel \in FamilyKernels(family)
      /\ Fits(mem, Now) /\ Typed(mem) /\ split \in BOOLEAN
      /\ phase \in 1 .. NumPhases(Now) /\ NumPhases(Now) \in Nat \ {0, 1} /\ phase \in Nat
  BY <1>1, <1>2, Running0
<1>4. /\ UNCHANGED <<family, capacity, coop, want, split>>
      /\ mem' = mem /\ call' = call /\ phase' = phase /\ exits' = exits
  BY DEF Launch, config
<1>5. ~(~split /\ ~CoopAvailable(Now.kernel))
  BY <1>1, <1>3 DEF FormInv
<1>6. /\ launch' = "running"
      /\ \E g \in Grids(Now.kernel) :
           done' = [b \in 0 .. g - 1 |-> IF split THEN phase - 1 ELSE 0]
      /\ \/ entry' = entry
         \/ split /\ entry = << >> /\ entry' = Snapshot(mem, Now, PhaseOf(Now, phase))
  BY <1>5 DEF Launch
<1>7. PICK g \in Grids(Now.kernel) : done' = [b \in 0 .. g - 1 |-> IF split THEN phase - 1 ELSE 0]
  BY <1>6
<1>8. Now' = Now /\ (Ended' <=> Ended)
  BY <1>4 DEF Now, Ended
<1> DEFINE first == IF split THEN phase ELSE 1
<1>9. first \in 1 .. NumPhases(Now) /\ first \in Nat
  BY <1>3
<1>10. /\ g \in Nat \ {0} /\ DOMAIN done' = 0 .. g - 1 /\ Cardinality(DOMAIN done') = g
       /\ \A b \in DOMAIN done' : done'[b] = first - 1
       /\ Covered(family) => ByBlockFits(Kernel(Now.kernel).phases, NumPhases(Now), g)
  <2>1. /\ g \in Nat \ {0}
        /\ Covered(family) => ByBlockFits(Kernel(Now.kernel).phases, NumPhases(Now), g)
    BY <1>1, <1>2, GridOk
  <2>2. DOMAIN done' = 0 .. g - 1 /\ Cardinality(DOMAIN done') = g
    BY <1>7, <2>1, GridSize
  <2>3. \A b \in DOMAIN done' : done'[b] = first - 1
    BY <1>7
  <2> QED BY <2>1, <2>2, <2>3
<1>11. TypeInv'
  <2>1. (~split => phase = 1)' /\ (Ended => phase = 1 /\ launch = "none")'
    BY <1>1, <1>2, <1>4, <1>8 DEF TypeInv
  <2> QED BY <1>1, <1>2, <1>3, <1>4, <1>6, <1>8, <2>1 DEF TypeInv
<1>12. FormInv'
  BY <1>1, <1>4 DEF FormInv, CoopAvailable
<1>13. Through(done', first) = {}
  <2>1. first # first - 1
    BY <1>9
  <2> QED BY <1>10, <2>1 DEF Through
<1>14. Running(family, call, split, phase, done', mem)
  <2>1. Grid(family, call, done')
    BY <1>10 DEF Grid, Now
  <2>2. Covered(family) => Stage(mem, Now, call, first, {}, g)
    <3> SUFFICES ASSUME Covered(family) PROVE Stage(mem, Now, call, first, {}, g)
      OBVIOUS
    <3>1. Stage(mem, Now, call, phase, {}, 1)
      BY <1>1, <1>2 DEF RestInv
    <3>2. first = phase
      BY <1>1, <1>3 DEF TypeInv
    <3>3. Stage(mem, Now, call, phase, {}, g)
      BY <3>1, NoShare DEF Stage, Piece, Covers
    <3> QED BY <3>2, <3>3
  <2>3. first \in first .. Last(split, phase, Now)
    BY <1>3 DEF Last
  <2>4. InPhase(family, call, split, phase, done', mem, first)
    BY <1>10, <1>13, <2>2, <2>3 DEF InPhase, Now
  <2> QED BY <1>9, <2>1, <2>4 DEF Running
<1>15. RunInv'
  BY <1>4, <1>14 DEF RunInv
<1>16. RestInv'
  BY <1>6 DEF RestInv
<1>17. OutputInv'
  BY <1>6 DEF OutputInv, OutputComplete
<1>18. CacheInv'
  BY <1>1, <1>4 DEF CacheInv
<1>19. ReplayInv'
  <2>1. CASE entry' = entry
    <3>1. entry = << >> => exits = << >>
      BY <1>1 DEF ReplayInv
    <3>2. ~(entry # << >> /\ exits = << >>)
      BY <1>1, <1>2 DEF ReplayInv
    <3>3. exits # << >> => Replays(entry, exits, family)
      BY <1>1 DEF ReplayInv
    <3> QED BY <1>4, <2>1, <3>1, <3>2, <3>3 DEF ReplayInv
  <2>2. CASE split /\ entry = << >> /\ entry' = Snapshot(mem, Now, PhaseOf(Now, phase))
    <3> DEFINE e == Snapshot(mem, Now, PhaseOf(Now, phase))
    <3>1. exits = << >>
      BY <1>1, <2>2 DEF ReplayInv
    <3>2. Typed(e) /\ Fits(e, Now) /\ Follows(mem, e, Now, call, PhaseOf(Now, phase), {}, g)
      BY <1>3, SnapshotFollows
    <3>3. Through(done', phase) = {}
      BY <1>13, <2>2
    <3> HIDE DEF e
    <3>4. entry' = e
      BY <2>2 DEF e
    <3>5. Follows(mem, e, Now, call, PhaseOf(Now, phase), Through(done', phase),
                  Cardinality(DOMAIN done'))
      BY <1>10, <3>2, <3>3
    <3> QED BY <1>4, <1>6, <1>8, <2>2, <3>1, <3>2, <3>4, <3>5 DEF ReplayInv
  <2> QED BY <1>6, <2>1, <2>2
<1> QED BY <1>11, <1>12, <1>15, <1>16, <1>17, <1>18, <1>19 DEF IInv

LEMMA WorkInv ==
  ASSUME IInv, NEW b \in DOMAIN done, Work(b)
  PROVE  IInv'
<1> DEFINE c  == Now
           g  == Cardinality(DOMAIN done)
           ph == PhaseOf(c, done[b] + 1)
           m2 == Effect(mem, c, call, ph, {b}, g)
           d2 == [done EXCEPT ![b] = @ + 1]
<1>1. TypeInv /\ FormInv /\ RunInv /\ OutputInv /\ CacheInv /\ ReplayInv
  BY DEF IInv
<1>2. launch = "running" /\ done[b] < LastPhase /\ Barrier(b)
  BY DEF Work
<1>3. ~Ended
  BY <1>1, <1>2 DEF TypeInv
<1>4. /\ Names(family) /\ call \in 1 .. NumCalls(family) /\ call \in Nat
      /\ Known(Now) /\ Now.kernel \in FamilyKernels(family)
      /\ Fits(mem, Now) /\ Typed(mem) /\ split \in BOOLEAN
      /\ phase \in 1 .. NumPhases(Now) /\ NumPhases(Now) \in Nat \ {0, 1} /\ phase \in Nat
  BY <1>1, <1>3, Running0
<1>5. /\ UNCHANGED <<family, capacity, coop, want, split>>
      /\ call' = call /\ phase' = phase /\ launch' = launch /\ entry' = entry /\ exits' = exits
      /\ mem' = m2 /\ done' = d2
  BY DEF Work, config
<1>6. Now' = Now /\ (Ended' <=> Ended)
  BY <1>5 DEF Now, Ended
<1>7. done[b] < Last(split, phase, c) /\ \A x \in DOMAIN done : done[x] >= done[b]
  BY <1>2 DEF LastPhase, Last, Barrier
<1>8. /\ Typed(m2) /\ DOMAIN m2 = DOMAIN mem /\ \A x \in DOMAIN mem : DOMAIN m2[x] = DOMAIN mem[x]
      /\ \A x \in DOMAIN mem : (\A r \in Outputs(ph) : Phys(c, r) # x) => m2[x] = mem[x]
  <2> HIDE DEF c, ph, g
  <2>1. Typed(mem) /\ call \in Nat
    BY <1>4
  <2> QED BY <2>1, EffectShape
<1> HIDE DEF m2, d2
<1>9. TypeInv'
  <2>1. Typed(mem') /\ \A k \in 1 .. NumCalls(family) : Fits(mem', CallAt(family, k))
    <3>1. \A k \in 1 .. NumCalls(family) : Fits(mem, CallAt(family, k))
      BY <1>1 DEF TypeInv
    <3>2. ASSUME NEW k \in 1 .. NumCalls(family)
          PROVE  Fits(m2, CallAt(family, k))
      BY <1>8, <3>1 DEF Fits
    <3> QED BY <1>5, <1>8, <3>2
  <2>2. /\ capacity \in [FamilyKernels(family) -> Capacities]
        /\ call \in 1 .. NumCalls(family) + 1
        /\ ~split => phase = 1
    BY <1>1 DEF TypeInv
  <2> QED BY <1>2, <1>3, <1>4, <1>5, <1>6, <2>1, <2>2 DEF TypeInv
<1>10. FormInv'
  BY <1>1, <1>5 DEF FormInv, CoopAvailable
<1>11. Running(family, call, split, phase, done, mem)
  BY <1>1, <1>2 DEF RunInv
<1>12. RunInv'
  <2>1. Running(family, call, split, phase, d2, m2)
    BY <1>4, <1>7, <1>11, WorkRuns DEF Now, m2, d2
  <2> QED BY <1>5, <2>1 DEF RunInv
<1>13. RestInv'
  BY <1>2, <1>5 DEF RestInv
<1>14. OutputInv'
  BY <1>2, <1>5 DEF OutputInv, OutputComplete
<1>15. CacheInv'
  <2> SUFFICES ASSUME family = "video", NEW i \in 1 .. Layers, 3 * (i - 1) + 1 < call,
                      NEW r \in {"kc", "vc"}
               PROVE  \A u \in DOMAIN m2[Cache(i)[r]] : m2[Cache(i)[r]][u] = 3 * (i - 1) + 1
    BY <1>5 DEF CacheInv
  <2> DEFINE x == Cache(i)[r]
             l == 3 * (i - 1) + 1
  <2>1. \A u \in DOMAIN mem[x] : mem[x][u] = l
    BY <1>1 DEF CacheInv
  <2>2. x \in DOMAIN mem
    <3>1. /\ l \in 1 .. NumCalls("video") /\ Phys(CallAt("video", l), r) = x
          /\ 3 \in 1 .. NumPhases(CallAt("video", l))
          /\ r \in Made(PhaseOf(CallAt("video", l), 3))
      BY CacheMade
    <3>2. Known(CallAt("video", l))
      BY <3>1, CallKnown DEF Names
    <3> HIDE DEF l, x
    <3>3. r \in Roles(CallAt("video", l))
      BY <3>1, <3>2, PiecesOf
    <3>4. Fits(mem, CallAt("video", l))
      BY <1>1, <3>1 DEF TypeInv
    <3> QED BY <3>1, <3>3, <3>4 DEF Fits
  <2>3. \A s \in Outputs(ph) : Phys(c, s) # x
    <3> SUFFICES ASSUME NEW s \in Outputs(ph), Phys(c, s) = x PROVE FALSE
      OBVIOUS
    <3>1. Phys(CallAt("video", call), s) = Cache(i)[r] /\ call \in 1 .. NumCalls("video")
      BY <1>4 DEF Now
    <3>2. call = l
      BY <3>1, CacheOfOneCall
    <3> QED BY <1>4, <3>2
  <2>4. m2[x] = mem[x]
    BY <1>8, <2>2, <2>3
  <2> QED BY <2>1, <2>4
<1>16. ReplayInv'
  <2>1. CASE entry # << >> /\ exits = << >>
    <3>1. /\ split /\ Typed(entry) /\ Fits(entry, Now)
          /\ Follows(mem, entry, Now, call, PhaseOf(Now, phase), Through(done, phase), g)
      BY <1>1, <2>1 DEF ReplayInv
    <3>2. done[b] < phase /\ Running(family, call, TRUE, phase, done, mem)
      <4>1. split = TRUE
        BY <1>4, <3>1
      <4> QED BY <1>7, <1>11, <4>1 DEF Last
    <3>3. Follows(m2, entry, Now, call, PhaseOf(Now, phase), Through(d2, phase),
                  Cardinality(DOMAIN d2))
      BY <1>4, <1>7, <3>1, <3>2, WorkFollows DEF Now, m2, d2
    <3> QED BY <1>2, <1>5, <1>6, <2>1, <3>1, <3>3 DEF ReplayInv
  <2>2. CASE ~(entry # << >> /\ exits = << >>)
    <3>1. /\ entry = << >> => exits = << >>
          /\ exits # << >> => Replays(entry, exits, family)
      BY <1>1 DEF ReplayInv
    <3> QED BY <1>5, <2>2, <3>1 DEF ReplayInv
  <2> QED BY <2>1, <2>2
<1> QED BY <1>9, <1>10, <1>12, <1>13, <1>14, <1>15, <1>16 DEF IInv

\* What a call that ends has made.
LEMMA CallMade ==
  ASSUME TypeInv, RunInv, Finish, ~(split /\ phase < NumPhases(Now)), Covered(family)
  PROVE  \A p \in 1 .. NumPhases(Now) : \A r \in Made(PhaseOf(Now, p)) :
           \A u \in DOMAIN mem[Phys(Now, r)] : mem[Phys(Now, r)][u] = call
<1> DEFINE c == Now
           N == NumPhases(c)
           last == Last(split, phase, c)
<1>1. launch = "running" /\ \A b \in DOMAIN done : done[b] = last
  BY DEF Finish, LastPhase, Last
<1>2. ~Ended
  BY <1>1 DEF TypeInv
<1>3. /\ Names(family) /\ call \in 1 .. NumCalls(family) /\ call \in Nat
      /\ Known(c) /\ Fits(mem, c) /\ split \in BOOLEAN
      /\ phase \in 1 .. N /\ N \in Nat \ {0, 1} /\ phase \in Nat
  BY <1>2, Running0
<1>4. last = N
  BY <1>3 DEF Last
<1>5. Running(family, call, split, phase, done, mem)
  BY <1>1 DEF RunInv
<1>6. PICK g \in Nat \ {0} : /\ Stage(mem, c, call, last, 0 .. g - 1, g)
                             /\ ByBlockFits(Kernel(c.kernel).phases, N, g)
  BY <1>1, <1>3, <1>5, GridEnds DEF Now
<1>7. PhaseOf(c, N).strided \/ PhaseOf(c, N).n <= g
  BY <1>3, <1>6 DEF ByBlockFits, PhaseOf
<1>8. Stage(mem, c, call, N, 0 .. g - 1, g)
  BY <1>4, <1>6
<1> HIDE DEF c, last
<1>9. ASSUME NEW p \in 1 .. NumPhases(c), NEW r \in Made(PhaseOf(c, p)),
             NEW u \in DOMAIN mem[Phys(c, r)]
      PROVE  mem[Phys(c, r)][u] = call
  BY <1>3, <1>7, <1>8, CallEnds
<1> QED BY <1>9 DEF c

LEMMA FinishInv == IInv /\ Finish => IInv'
<1> SUFFICES ASSUME IInv, Finish PROVE IInv'
  OBVIOUS
<1> DEFINE c == Now
           g == Cardinality(DOMAIN done)
           N == NumPhases(c)
           more == split /\ phase < N
<1>1. TypeInv /\ FormInv /\ RunInv /\ OutputInv /\ CacheInv /\ ReplayInv
  BY DEF IInv
<1>2. launch = "running" /\ \A b \in DOMAIN done : done[b] = Last(split, phase, c)
  BY DEF Finish, LastPhase, Last
<1>3. ~Ended
  BY <1>1, <1>2 DEF TypeInv
<1>4. /\ Names(family) /\ call \in 1 .. NumCalls(family) /\ call \in Nat
      /\ Known(Now) /\ Now.kernel \in FamilyKernels(family)
      /\ Fits(mem, Now) /\ Typed(mem) /\ split \in BOOLEAN
      /\ phase \in 1 .. NumPhases(Now) /\ NumPhases(Now) \in Nat \ {0, 1} /\ phase \in Nat
  BY <1>1, <1>3, Running0
<1>5. /\ UNCHANGED <<family, capacity, coop, want, split>>
      /\ mem' = mem /\ entry' = entry /\ launch' = "none"
      /\ exits' = IF entry # << >> /\ exits = << >> THEN Exit ELSE exits
  BY DEF Finish, config
<1>6. /\ more => phase' = phase + 1 /\ call' = call
      /\ ~more => phase' = 1 /\ call' = call + 1
  BY DEF Finish
<1>7. NumCalls(family) \in Nat \ {0}
  BY <1>4, Counts
<1>8. Running(family, call, split, phase, done, mem)
  BY <1>1, <1>2 DEF RunInv
<1>9. call' \in Nat /\ (Ended' <=> call' > NumCalls(family)) /\ Now' = CallAt(family, call')
  BY <1>4, <1>5, <1>6 DEF Ended, Now
<1>10. more => ~Ended' /\ Now' = Now /\ phase' \in 1 .. N
  <2> SUFFICES ASSUME more PROVE ~Ended' /\ Now' = Now /\ phase' \in 1 .. N
    OBVIOUS
  <2>1. call' = call /\ phase' = phase + 1 /\ phase < N
    BY <1>6
  <2>2. Now' = Now
    BY <1>9, <2>1 DEF Now
  <2>3. ~Ended'
    BY <1>4, <1>7, <1>9, <2>1
  <2>4. phase + 1 \in 1 .. N
    BY <1>4, <2>1
  <2> QED BY <2>1, <2>2, <2>3, <2>4
<1>11. ~more /\ ~Ended' => call + 1 \in 1 .. NumCalls(family) /\ Now' = CallAt(family, call + 1)
  BY <1>4, <1>6, <1>7, <1>9
<1>12. TypeInv'
  <2>1. call' \in 1 .. NumCalls(family) + 1
    BY <1>4, <1>6, <1>7
  <2>2. (~split => phase = 1)'
    BY <1>5, <1>6
  <2>3. Ended' => phase' = 1
    BY <1>6, <1>10
  <2>4. ~Ended' => phase' \in 1 .. NumPhases(Now')
    <3>1. CASE more
      BY <1>10, <3>1
    <3>2. CASE ~more
      <4> SUFFICES ASSUME ~Ended' PROVE phase' \in 1 .. NumPhases(Now')
        OBVIOUS
      <4>1. Known(CallAt(family, call + 1))
        BY <1>4, <1>11, <3>2, CallKnown
      <4>2. 1 \in 1 .. NumPhases(CallAt(family, call + 1))
        BY <4>1 DEF Known, PhasesOk, NumPhases
      <4> QED BY <1>6, <1>11, <3>2, <4>2
    <3> QED BY <3>1, <3>2
  <2>5. /\ capacity \in [FamilyKernels(family) -> Capacities]
        /\ \A k \in 1 .. NumCalls(family) : Fits(mem, CallAt(family, k))
    BY <1>1 DEF TypeInv
  <2> QED BY <1>4, <1>5, <2>1, <2>2, <2>3, <2>4, <2>5 DEF TypeInv
<1>13. FormInv'
  BY <1>1, <1>5 DEF FormInv, CoopAvailable
<1>14. RunInv'
  BY <1>5 DEF RunInv
<1>15. ~more /\ Covered(family) =>
         \A p \in 1 .. NumPhases(c) : \A r \in Made(PhaseOf(c, p)) :
           \A u \in DOMAIN mem[Phys(c, r)] : mem[Phys(c, r)][u] = call
  BY <1>1, CallMade
<1>16. RestInv'
  <2> SUFFICES ASSUME ~Ended', Covered(family)
               PROVE  Stage(mem, Now', call', phase', {}, 1)
    BY <1>5 DEF RestInv
  <2>1. CASE more
    <3>1. PICK n \in Nat \ {0} : /\ Stage(mem, c, call, phase, 0 .. n - 1, n)
                                 /\ ByBlockFits(Kernel(c.kernel).phases, N, n)
      <4>1. Last(split, phase, c) = phase
        BY <2>1 DEF Last
      <4> QED BY <1>2, <1>4, <1>8, <4>1, GridEnds DEF Now
    <3>2. PhaseOf(c, phase).strided \/ PhaseOf(c, phase).n <= n
      BY <1>4, <3>1 DEF ByBlockFits, PhaseOf
    <3>3. phase < NumPhases(c)
      BY <2>1
    <3> HIDE DEF c
    <3>4. Known(c) /\ phase \in 1 .. NumPhases(c)
      BY <1>4 DEF c
    <3>5. Stage(mem, c, call, phase + 1, {}, 1)
      BY <3>1, <3>2, <3>3, <3>4, NextPhase
    <3> QED BY <1>6, <1>10, <2>1, <3>5 DEF c
  <2>2. CASE ~more
    <3>1. call + 1 \in 1 .. NumCalls(family) /\ Now' = CallAt(family, call + 1)
      BY <1>11, <2>2
    <3>2. Stage(mem, CallAt(family, call + 1), call + 1, 1, {}, 1)
      BY <1>4, <1>15, <2>2, <3>1, NextCall DEF Now
    <3> QED BY <1>6, <2>2, <3>1, <3>2
  <2> QED BY <2>1, <2>2
<1>17. OutputInv'
  <2> SUFFICES ASSUME Covered(family), NEW k \in 1 .. NumCalls(family), call' = k + 1, phase' = 1,
                      NEW p \in 1 .. NumPhases(CallAt(family, k)),
                      NEW r \in Made(PhaseOf(CallAt(family, k), p)),
                      NEW u \in DOMAIN mem[Phys(CallAt(family, k), r)]
               PROVE  mem[Phys(CallAt(family, k), r)][u] = k
    BY <1>5 DEF OutputInv, OutputComplete
  <2>1. ~more
    BY <1>4, <1>6
  <2>2. k = call /\ CallAt(family, k) = c
    BY <1>4, <1>6, <2>1 DEF Now
  <2> HIDE DEF c
  <2> QED BY <1>15, <2>1, <2>2
<1>18. CacheInv'
  <2> SUFFICES ASSUME family = "video", NEW i \in 1 .. Layers, 3 * (i - 1) + 1 < call',
                      NEW r \in {"kc", "vc"}, NEW u \in DOMAIN mem[Cache(i)[r]]
               PROVE  mem[Cache(i)[r]][u] = 3 * (i - 1) + 1
    BY <1>5 DEF CacheInv
  <2> DEFINE l == 3 * (i - 1) + 1
  <2>1. l \in Int
    BY KernelAssumption
  <2>2. CASE l < call
    BY <1>1, <2>2 DEF CacheInv
  <2>3. CASE ~(l < call)
    <3>1. ~more /\ l = call
      BY <1>4, <1>6, <2>1, <2>3
    <3>2. c = CallAt("video", l)
      BY <3>1 DEF Now
    <3>3. Phys(c, r) = Cache(i)[r] /\ 3 \in 1 .. NumPhases(c) /\ r \in Made(PhaseOf(c, 3))
      BY <3>2, CacheMade
    <3>4. Covered(family)
      BY DEF Covered
    <3> HIDE DEF c
    <3>5. mem[Phys(c, r)][u] = call
      BY <1>15, <3>1, <3>3, <3>4
    <3> QED BY <3>1, <3>3, <3>5
  <2> QED BY <2>2, <2>3
<1>19. ReplayInv'
  <2>1. CASE entry # << >> /\ exits = << >>
    <3>1. /\ split /\ Typed(entry) /\ Fits(entry, Now)
          /\ Follows(mem, entry, Now, call, PhaseOf(Now, phase), Through(done, phase), g)
      BY <1>1, <2>1 DEF ReplayInv
    <3>2. exits' = Exit
      BY <1>5, <2>1
    <3>3. Exit # << >>
      BY DEF Exit
    <3>4. g \in Nat \ {0} /\ DOMAIN done = 0 .. g - 1
      BY <1>8 DEF Running, Grid
    <3>5. Through(done, phase) = 0 .. g - 1
      BY <1>2, <3>1, <3>4 DEF Through, Last
    <3>6. /\ Exit.call = call /\ Exit.phase = phase /\ Exit.grid = g
          /\ DOMAIN Exit.mem = {Phys(Now, r) : r \in Outputs(PhaseOf(Now, phase))}
          /\ \A b \in DOMAIN Exit.mem : Exit.mem[b] = mem[b]
      BY DEF Exit
    <3>7. \A r \in Outputs(PhaseOf(Now, phase)) : r \in Roles(Now)
      BY <1>4, RolesOf DEF Touches
    <3>8. Replays(entry, Exit, family)
      <4> DEFINE all == Effect(entry, Now, call, PhaseOf(Now, phase), 0 .. g - 1, g)
                 x == Exit
      <4>1. \A r \in Roles(Now) : mem[Phys(Now, r)] = all[Phys(Now, r)]
        BY <3>1, <3>5 DEF Follows
      <4>2. \A b \in DOMAIN x.mem : all[b] = x.mem[b]
        <5> HIDE DEF all, x
        <5> QED BY <3>6, <3>7, <4>1 DEF x
      <4>3. all = Effect(entry, CallAt(family, x.call), x.call,
                         PhaseOf(CallAt(family, x.call), x.phase), 0 .. x.grid - 1, x.grid)
        <5> HIDE DEF x
        <5> QED BY <3>6 DEF Now, x
      <4> HIDE DEF all
      <4> QED BY <4>2, <4>3 DEF Replays
    <3> HIDE DEF g
    <3>9. exits' # << >> /\ entry' # << >> /\ Replays(entry', exits', family')
      BY <1>5, <2>1, <3>2, <3>3, <3>8
    <3> QED BY <3>9 DEF ReplayInv
  <2>2. CASE ~(entry # << >> /\ exits = << >>)
    <3>1. /\ entry = << >> => exits = << >>
          /\ exits # << >> => Replays(entry, exits, family)
      BY <1>1 DEF ReplayInv
    <3>2. exits' = exits
      BY <1>5, <2>2
    <3> QED BY <1>5, <2>2, <3>1, <3>2 DEF ReplayInv
  <2> QED BY <2>1, <2>2
<1> QED BY <1>12, <1>13, <1>14, <1>16, <1>17, <1>18, <1>19 DEF IInv

\* The invariant holds in every reachable state.
LEMMA Invariant == Spec => []IInv
<1>1. Init => IInv
  BY InitInv
<1>2. IInv /\ [Next]_vars => IInv'
  <2> SUFFICES ASSUME IInv, [Next]_vars PROVE IInv'
    OBVIOUS
  <2>1. CASE Launch
    BY <2>1, LaunchInv
  <2>2. ASSUME NEW b \in DOMAIN done, Work(b) PROVE IInv'
    BY <2>2, WorkInv
  <2>3. CASE Finish
    BY <2>3, FinishInv
  <2>4. CASE UNCHANGED vars
    <3>1. /\ UNCHANGED <<family, capacity, coop, want, split>>
          /\ UNCHANGED <<mem, call, phase, launch, done, entry, exits>>
      BY <2>4 DEF vars, config
    <3>2. (Now' = Now) /\ (Ended' <=> Ended)
      BY <3>1 DEF Now, Ended
    <3>3. TypeInv'
      BY <3>1, <3>2 DEF IInv, TypeInv
    <3>4. FormInv'
      BY <3>1 DEF IInv, FormInv, CoopAvailable
    <3>5. RunInv'
      BY <3>1 DEF IInv, RunInv
    <3>6. RestInv'
      BY <3>1, <3>2 DEF IInv, RestInv
    <3>7. OutputInv'
      BY <3>1 DEF IInv, OutputInv, OutputComplete
    <3>8. CacheInv'
      BY <3>1 DEF IInv, CacheInv
    <3>9. ReplayInv'
      BY <3>1, <3>2 DEF IInv, ReplayInv
    <3> QED BY <3>3, <3>4, <3>5, <3>6, <3>7, <3>8, <3>9 DEF IInv
  <2> QED BY <2>1, <2>2, <2>3, <2>4 DEF Next
<1> QED BY <1>1, <1>2, PTL DEF Spec

-----------------------------------------------------------------------------
(* The theorems.                                                           *)

\* When a call has ended, every piece of every buffer it writes was made by it from its
\* own inputs, in either form, for any number of CTAs the launchers allow and any order
\* in which they work.  For the kernels of the text encoder this needs a grid of a CTA
\* for each head: tmt5_attn.cu claims the heads by block, and its launcher asks for one
\* CTA only.  The other two families need no such hypothesis.
THEOREM OutputIsComplete ==
  ASSUME TextGrids \/ "text" \notin Families
  PROVE  Spec => []OutputComplete
<1> DEFINE Runs == family \in Families
<1>1. Spec => []Runs
  <2>1. Init => Runs
    BY DEF Init
  <2>2. Runs /\ [Next]_vars => Runs'
    BY DEF Next, Launch, Work, Finish, vars, config
  <2> QED BY <2>1, <2>2, PTL DEF Spec
<1>2. IInv /\ Runs => OutputComplete
  BY DEF IInv, OutputInv, Covered
<1> QED BY <1>1, <1>2, Invariant, PTL

\* After the prefill of the video expert, the cache of every layer holds the keys and the
\* values of that layer.
THEOREM CachesAreKept == Spec => []CachesKept
<1>1. IInv => CachesKept
  <2> SUFFICES ASSUME IInv, family = "video", Ended, NEW i \in 1 .. Layers
               PROVE  3 * (i - 1) + 1 < call
    BY DEF CachesKept, IInv, CacheInv
  <2>1. call > Layers * 3 /\ call \in Nat
    <3>1. NumCalls(family) \in Nat \ {0} /\ call \in 1 .. NumCalls(family) + 1
      BY Counts DEF IInv, TypeInv
    <3> QED BY <3>1 DEF Ended, NumCalls, CallsPerLayer
  <2> QED BY <2>1, KernelAssumption
<1> QED BY <1>1, Invariant, PTL

\* Replaying a recorded phase on its entry state gives what was recorded at its exit,
\* whatever the order of the CTAs was.
THEOREM ReplaysAgree == Spec => []ReplayAgrees
<1>1. IInv => ReplayAgrees
  BY DEF IInv, ReplayInv, Replays, ReplayAgrees
<1> QED BY <1>1, Invariant, PTL

\* No launch is refused in the middle of a forward pass: a runner that is not split was
\* resolved with all the kernels of its family available.
THEOREM LaunchesAreAccepted == Spec => []LaunchesAccepted
<1>1. IInv => LaunchesAccepted
  BY DEF IInv, TypeInv, LaunchesAccepted
<1> QED BY <1>1, Invariant, PTL
=============================================================================
