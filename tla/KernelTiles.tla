---------------------------- MODULE KernelTiles ----------------------------
(***************************************************************************)
(* The vocabulary of the Triton kernels of the three policies: the lanes a *)
(* tiled loop or a grid visits, masked loads and stores, the memory of a   *)
(* pipeline of launches, and the online softmax.                           *)
(*                                                                         *)
(* A block size is written as the source writes it and counted in units:   *)
(* RowUnit tokens or ColUnit matrix columns are one lane here, so that two *)
(* or three tiles are a handful of lanes.  A number is modelled by what it *)
(* is made of: a sum by the bag of its terms.                              *)
(***************************************************************************)
EXTENDS Integers, Sequences, FiniteSets, SequencesExt, FiniteSetsExt

CONSTANTS RowUnit, ColUnit

ASSUME UnitsAssumption == 16 % RowUnit = 0 /\ 32 % ColUnit = 0

R(block) == block \div RowUnit
C(block) == block \div ColUnit

Cdiv(n, b) == (n + b - 1) \div b

\* The starts of `range(lo, hi, b)`, and the lanes its tiles of width b cover:
\* the last tile runs past hi.  A grid of cdiv(n, b) programs is Sweep(0, n, b).
TileStarts(lo, hi, b) == [t \in 1..(IF hi > lo THEN Cdiv(hi - lo, b) ELSE 0) |-> lo + (t - 1) * b]
Sweep(lo, hi, b)      == UNION {s .. s + b - 1 : s \in ToSet(TileStarts(lo, hi, b))}

\* `mask=offs < n`.
Masked(n, lanes) == {i \in lanes : i < n}
Full(n)          == 0 .. n - 1

(***************************************************************************)
(* Memory: what the programs of a launch stored in each cell of each       *)
(* buffer.  One value means no two programs disagreed about the cell; a    *)
(* launch starts when the one before it has finished (one stream), so it   *)
(* finds the cells of earlier launches or, where none wrote, nothing.      *)
(***************************************************************************)
Put(buf, cell, val) == [buf |-> buf, cell |-> cell, val |-> val]

Stored(mem, stores) ==
    [b \in DOMAIN mem |->
        LET cells == {s.cell : s \in {x \in stores : x.buf = b}} IN
        [c \in cells \cup DOMAIN mem[b] |->
            IF c \in cells THEN {s.val : s \in {x \in stores : x.buf = b /\ x.cell = c}}
                           ELSE mem[b][c]]]

Written(mem, buf, cell) == cell \in DOMAIN mem[buf] /\ Cardinality(mem[buf][cell]) = 1
Load(mem, buf, cell)    == CHOOSE v \in mem[buf][cell] : TRUE

\* The name of a load: an input of the pipeline is what it is, a cell of a
\* buffer that no launch has written, or that two programs wrote differently,
\* is "lost".
From(mem, buf, m, k) == IF buf \notin DOMAIN mem \/ Written(mem, buf, <<m, k>>) THEN buf ELSE "lost"

(***************************************************************************)
(* The terms of a GEMM row with a fused norm: one product per visited      *)
(* column, one square (or pair of moments) per visited column.             *)
(***************************************************************************)
Dot(mem, a, m, w, n, ks)  == {<<"dot", From(mem, a, m, k), m, k, w, n>> : k \in ks}
Squares(mem, x, m, ks)    == {<<"sq", From(mem, x, m, k), m, k, "-", 0>> : k \in ks}
Plus(mem, x, m, n)        == {<<"add", From(mem, x, m, n), m, n, "-", 0>>}

(***************************************************************************)
(* The online softmax of one row.  A lane's score is -inf, the finite      *)
(* big_neg of a masked key, or real; `top` is the level of the running     *)
(* maximum, `keys` the bag of keys whose weight is not zero against it,    *)
(* `nan` that exp(-inf - -inf) or 0/0 was computed.                        *)
(***************************************************************************)
NegInf == 0
BigNeg == 1
Real   == 2

Lane(i, level, key) == [lane |-> i, level |-> level, key |-> key]
RowStart == [top |-> NegInf, keys |-> EmptyBag, nan |-> FALSE]

KeyBag(lanes) == [k \in {x.key : x \in lanes} |-> Cardinality({x \in lanes : x.key = k})]

\* One tile.  `guarded`: weights and rescaling of -inf are replaced by 0.
Online(row, tile, guarded) ==
    LET top == Max({row.top} \cup {x.level : x \in tile}) IN
    [top  |-> top,
     keys |-> (IF row.top = top THEN row.keys ELSE EmptyBag)
                (+) (IF top = NegInf THEN EmptyBag ELSE KeyBag({x \in tile : x.level = top})),
     nan  |-> row.nan \/ (top = NegInf /\ ~guarded)]

Flash(tiles, guarded) ==
    FoldLeft(LAMBDA row, tile : Online(row, tile, guarded), RowStart, tiles)

\* acc / l_i.
Finish(row) == [keys |-> row.keys, nan |-> row.nan \/ row.keys = EmptyBag]
=============================================================================
