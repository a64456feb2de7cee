-------------------------- MODULE AttentionKernels --------------------------
(***************************************************************************)
(* The flash-attention kernels of smolvla and pi05, each as the set of     *)
(* stores the programs of its grid make.  d holds the sizes of a call (in  *)
(* units), `pad` the prefix tokens that are real, `req` the inference.     *)
(***************************************************************************)
EXTENDS KernelTiles

\* The kv group of a query head; the group's heads share its keys.
Group(d, h) == h \div (d.H \div d.G)

Rows(d, lanes, V(_, _)) == {Put("out", <<h, m>>, V(h, m)) : h \in Full(d.H), m \in lanes}

\* make_att_2d_masks: token i sees token j when both are real and j's block
\* does not come after i's; `att` is the cumulative sum of the block starts.
Sees(d, i, j) == d.att[j] <= d.att[i] /\ i \in d.pad /\ j \in d.pad

PrefixTiles(d, g, buf) ==
    LET starts == TileStarts(0, d.P, R(64)) IN
    [t \in DOMAIN starts |->
        {Lane(a, IF a \in Masked(d.P, d.pad) THEN Real ELSE NegInf, <<buf, g, a, d.req>>)
            : a \in starts[t] .. starts[t] + R(64) - 1}]

(***************************************************************************)
(* smolvla, denoising self-attention: one program per query head, whose    *)
(* one tile of 64 rows is all the suffix; the suffix keys stay in the      *)
(* program, so the second tile of keys would be scored against the same    *)
(* rows again.  Nothing guards exp(-inf - -inf).                           *)
(***************************************************************************)
SuffixTiles(d, g, m) ==
    LET starts == TileStarts(0, d.S, R(64)) IN
    [t \in DOMAIN starts |->
        {Lane(a, IF a \in Masked(d.S, Full(m + 1)) THEN Real ELSE NegInf, <<"suf", g, a - starts[t], d.req>>)
            : a \in starts[t] .. starts[t] + R(64) - 1}]

SelfAttn(d) ==
    Rows(d, Masked(d.S, Full(R(64))),
         LAMBDA h, m : Finish(Flash(PrefixTiles(d, Group(d, h), "pre") \o SuffixTiles(d, Group(d, h), m), FALSE)))

\* Cross-attention: row tiles of 32, the expert's prefix keys only.
CrossAttn(d) ==
    Rows(d, Masked(d.S, Sweep(0, d.S, R(32))),
         LAMBDA h, m : Finish(Flash(PrefixTiles(d, Group(d, h), "expert"), FALSE)))

(***************************************************************************)
(* smolvla, prefill: the first launch projects; every head of a group      *)
(* writes the group's keys into the cache.  The second attends over it.    *)
(* A masked key, and a lane past the end, score big_neg: a row with no     *)
(* real key is spread over all of them instead of being NaN.               *)
(***************************************************************************)
PrefillQkv(d) ==
    LET ms == Masked(d.P, Sweep(0, d.P, R(64))) IN
    UNION {{Put("q", <<h, m>>, <<"q", h, m, d.req>>), Put("kv", <<Group(d, h), m>>, <<"kv", Group(d, h), m, d.req>>)}
            : h \in Full(d.H), m \in ms}

CacheKey(mem, g, a) == IF Written(mem, "kv", <<g, a>>) THEN Load(mem, "kv", <<g, a>>) ELSE <<"lost", g, a, 0>>

MaskedTile(mem, d, g, m, start, width) ==
    {Lane(a, IF a \in Full(d.P) /\ Sees(d, m, a) THEN Real ELSE BigNeg,
             IF a \in Full(d.P) THEN CacheKey(mem, g, a) ELSE <<"past", 0, 0, 0>>)
        : a \in start .. start + width - 1}

FlashPrefill(mem, d) ==
    LET starts == TileStarts(0, d.P, R(64)) IN
    Rows(d, Masked(d.P, Sweep(0, d.P, R(64))),
         LAMBDA h, m : Finish(Flash([t \in DOMAIN starts |-> MaskedTile(mem, d, Group(d, h), m, starts[t], R(64))],
                                    FALSE)))

\* pi05, prefill: the projections are cuBLAS's (they fill "kv" whole), tiles of
\* 16 rows and 32 keys, and a guarded rescaling.
ConcatQkv(d) ==
    {Put("kv", <<g, m>>, <<"kv", g, m, d.req>>) : g \in Full(d.G), m \in Full(d.P)}

PrefillAttn(mem, d) ==
    LET starts == TileStarts(0, d.P, R(32)) IN
    Rows(d, Masked(d.P, Sweep(0, d.P, R(16))),
         LAMBDA h, m : Finish(Flash([t \in DOMAIN starts |-> MaskedTile(mem, d, Group(d, h), m, starts[t], R(32))],
                                    TRUE)))

\* pi05, vision tower: no key is masked, so the wrapper asserts that the
\* sequence is a whole number of tiles.
VisionAttnTakes(d) == d.P % R(64) = 0

VisionAttn(d) ==
    LET starts == TileStarts(0, d.P, R(64)) IN
    Rows(d, Masked(d.P, Sweep(0, d.P, R(64))),
         LAMBDA h, m : Finish(Flash([t \in DOMAIN starts |->
             {Lane(a, Real, <<"kv", h, a, d.req>>) : a \in starts[t] .. starts[t] + R(64) - 1}], FALSE)))

(***************************************************************************)
(* pi05, the denoising layer's attention.  A head has HeadDim columns; the *)
(* q and k rows of the packed weight are interleaved, so that a RoPE pair  *)
(* is two neighbours, and the prefix keys must be laid out the same way.   *)
(***************************************************************************)
HeadDim == 4
PairsPerTile == 1         \* BLOCK_N // 2

\* _interleave_rows: row 2p <- p, row 2p + 1 <- p + D/2.
InterleavedDim(c) == IF c % 2 = 0 THEN c \div 2 ELSE c \div 2 + HeadDim \div 2

\* The columns of the input that the variance and the product run over: neither
\* loop is masked, the expert's width is a whole number of blocks.
InputColumns(d) == Sweep(0, d.K, C(64))

\* The epilogue of one q or k tile: column c of the head is rotated with its
\* neighbour by the table's column of the pair.
Rotated(d, tile, i) ==
    LET c    == tile * 2 * PairsPerTile + i
        mate == IF i % 2 = 0 THEN c + 1 ELSE c - 1
        pair == tile * PairsPerTile + i \div 2
    IN  [dim |-> InterleavedDim(c), with |-> InterleavedDim(mate), over |-> InputColumns(d),
         table |-> IF i % 2 = 0 THEN pair ELSE pair + HeadDim \div 2]

\* A program per 64 columns of the packed [q; k; v] weight: HeadTiles programs
\* for each query head, then those of k, then those of v.
HeadTiles == HeadDim \div (2 * PairsPerTile)

QkvRope(d) ==
    LET ms   == Masked(d.S, Full(R(64)))
        is   == 0 .. 2 * PairsPerTile - 1
        qs   == d.H * HeadTiles
        col(tile, i) == tile * 2 * PairsPerTile + i
    IN  UNION {CASE pid < qs -> {Put("qr", <<pid \div HeadTiles, m, col(pid % HeadTiles, i)>>, Rotated(d, pid % HeadTiles, i))
                                    : m \in ms, i \in is}
                 [] pid \in qs .. qs + HeadTiles - 1 -> {Put("kr", <<0, m, col(pid - qs, i)>>, Rotated(d, pid - qs, i))
                                    : m \in ms, i \in is}
                 [] OTHER -> {Put("vr", <<0, m, col(pid - qs - HeadTiles, i)>>,
                                      [dim |-> col(pid - qs - HeadTiles, i), over |-> InputColumns(d)])
                                    : m \in ms, i \in is}
            : pid \in Full((d.H + 2) * HeadTiles)}

\* _prefix_kT_interleaved: built again for every call from the prefix keys of
\* this inference, stacked along the last axis.
StackedDim(c) == IF c % 2 = 0 THEN c \div 2 ELSE c \div 2 + HeadDim \div 2

PrefixKT(mem, d) ==
    {Put("pkT", <<0, j, c>>, [dim |-> StackedDim(c), req |-> d.req]) : j \in Full(d.P), c \in Full(HeadDim)}

\* The columns a score multiplies: each is the pair of the dimensions the two
\* layouts hold there.
ScoreDims(mem, h, m, kbuf, j) ==
    {<<Load(mem, "qr", <<h, m, c>>).dim, Load(mem, kbuf, <<0, j, c>>).dim>> : c \in Full(HeadDim)}

\* The keys of split b: a ceiling share of the prefix, the last ones shorter or
\* empty.
\* Mutant: a floor share, which leaves the tail keys to no split.
ShareFloor(d, b) == d.P \div d.splits
Share(d, b) == Cdiv(d.P, d.splits)
SplitEnd(d, b) == Min({b * Share(d, b) + Share(d, b), d.P})

PrefixSplit(mem, d, h, m, b) ==
    LET starts == TileStarts(b * Share(d, b), SplitEnd(d, b), R(64)) IN
    [t \in DOMAIN starts |->
        {Lane(a, IF a < SplitEnd(d, b) /\ a \in d.pad THEN Real ELSE NegInf,
                 IF a < SplitEnd(d, b) THEN <<"pre", Load(mem, "pkT", <<0, a, 0>>).req, a, ScoreDims(mem, h, m, "pkT", a)>>
                                       ELSE <<"past", 0, 0, {}>>)
            : a \in starts[t] .. starts[t] + R(64) - 1}]

\* The last program of a row attends to all the suffix, not to its row tile.
SuffixSplit(mem, d, h, m) ==
    <<{Lane(a, Real, <<"suf", d.req, a, ScoreDims(mem, h, m, "kr", a)>>) : a \in Full(d.S)}>>

SplitFlash(mem, d) ==
    {Put("part", <<b, h, m>>, Flash(IF b < d.splits THEN PrefixSplit(mem, d, h, m, b)
                                                    ELSE SuffixSplit(mem, d, h, m), TRUE))
        : b \in Full(d.splits + 1), h \in Full(d.H), m \in Masked(d.S, Sweep(0, d.S, R(32)))}

\* Merging a partial row: both are rescaled to the larger maximum, a -inf one
\* by zero.
Merge(row, part) ==
    LET top == Max({row.top, part.top}) IN
    [top  |-> top,
     keys |-> (IF row.top = top THEN row.keys ELSE EmptyBag) (+) (IF part.top = top THEN part.keys ELSE EmptyBag),
     nan  |-> row.nan \/ part.nan]

MergeSplits(mem, d) ==
    Rows(d, Masked(d.S, Sweep(0, d.S, R(32))),
         LAMBDA h, m : Finish(FoldLeft(Merge, Load(mem, "part", <<0, h, m>>),
                                       [b \in 1..d.splits |-> Load(mem, "part", <<b, h, m>>)])))
=============================================================================
