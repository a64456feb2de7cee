----------------------------- MODULE GemmKernels -----------------------------
(***************************************************************************)
(* The GEMM kernels with fused norms, quantisation and epilogues of the    *)
(* three policies.  A kernel is a formula, the bag of terms of one output  *)
(* element over the columns ks its loop visits, and the tiles it is        *)
(* computed over.  d.M x d.K is the input, d.N the width of the output.    *)
(***************************************************************************)
EXTENDS KernelTiles

Tile(buf, ms, ns, V(_, _)) == {Put(buf, <<m, n>>, V(m, n)) : m \in ms, n \in ns}

\* A loop over the columns of the input: with a column mask, and without.
Swept(d, b)   == Masked(d.K, Sweep(0, d.K, b))
Unmasked(d, b) == Sweep(0, d.K, b)

(***************************************************************************)
(* The denoising MLP: norm, gate and up in one kernel.                     *)
(***************************************************************************)
GateUpTerms(mem, m, n, ks) ==
    SetToBag(Squares(mem, "x", m, ks) \cup Dot(mem, "x", m, "gate", n, ks) \cup Dot(mem, "x", m, "up", n, ks))

NormGateUp(mem, d) ==
    Tile("act", Masked(d.M, Sweep(0, d.M, R(32))), Masked(d.N, Sweep(0, d.N, C(64))),
         LAMBDA m, n : GateUpTerms(mem, m, n, Swept(d, C(64))))

\* pi05: the variance has its own pass, the normed input the modulation's
\* scale and shift of each column.
AdaTerms(mem, m, n, ks) ==
    SetToBag(Squares(mem, "x", m, ks) \cup {<<"mod", "mod", k, 0, "-", 0>> : k \in ks}
             \cup Dot(mem, "x", m, "gate", n, ks) \cup Dot(mem, "x", m, "up", n, ks))

AdaNormGateUp(mem, d) ==
    Tile("act", Masked(d.M, Sweep(0, d.M, R(32))), Masked(d.N, Sweep(0, d.N, C(64))),
         LAMBDA m, n : AdaTerms(mem, m, n, Swept(d, C(64))))

\* The gated residual: one row tile of 64, column tiles of 256; the product is
\* stored to scratch and loaded back by the program that stored it.
ResidualTakes(d) == d.K % C(256) = 0

GatedResidual(mem, d) ==
    LET ms == Masked(d.M, Full(R(64)))
        ks == Sweep(0, (d.K \div C(256)) * C(256), C(256))
    IN  Tile("prod", ms, ks, LAMBDA m, k : SetToBag(Plus(mem, "branch", m, k) \cup {<<"gate", "mod", k, 0, "-", 0>>}))
        \cup Tile("res", ms, ks, LAMBDA m, k : SetToBag(Plus(mem, "branch", m, k) \cup {<<"gate", "mod", k, 0, "-", 0>>}
                                                        \cup Plus(mem, "x", m, k)))

(***************************************************************************)
(* pi05, the fp8 MLP of a denoising step: neither the loop over K nor the  *)
(* columns are masked, the wrappers refuse what is not a whole number of   *)
(* tiles.  Each program leaves the maximum of each row over its tile; the  *)
(* quantisation reduces them to the row's scale.                           *)
(***************************************************************************)
GateUpFp8Takes(d) == d.N % C(64) = 0 /\ d.K % C(64) = 0
RowsPad(d)        == Cdiv(d.M, R(64)) * R(64)
QuantTakes(d)     == d.N % C(256) = 0 /\ Cdiv(d.N, C(64)) <= 64 /\ RowsPad(d) >= d.M
DownTakes(d)      == /\ d.N % d.splits = 0
                     /\ (d.N \div d.splits) % C(128) = 0
                     /\ d.W % C(64) = 0

Fp8Takes(d) == GateUpFp8Takes(d) /\ QuantTakes(d) /\ DownTakes(d)

\* The normed input is quantised in the kernel, with the maximum of its row: a
\* pass of its own over the columns, before the products.
InputMax(mem, m, ks) == {<<"max", From(mem, "x", m, k), m, k, "-", 0>> : k \in ks}

AdaFp8Terms(mem, m, n, ks) == AdaTerms(mem, m, n, ks) (+) SetToBag(InputMax(mem, m, ks))

NormGateUpFp8(mem, d) ==
    LET ms == Masked(d.M, Sweep(0, d.M, R(64))) IN
    Tile("act", ms, Sweep(0, d.N, C(64)), LAMBDA m, n : AdaFp8Terms(mem, m, n, Unmasked(d, C(64))))
    \cup Tile("tilemax", ms, Full(Cdiv(d.N, C(64))), LAMBDA m, t : t * C(64) .. (t + 1) * C(64) - 1)

\* The columns the row's scale is the maximum of, and the quantised element.
Quantised(mem, buf, m, k, over) == [of |-> <<From(mem, buf, m, k), m, k>>, max |-> over]

QuantActFp8(mem, d) ==
    LET ms   == Masked(d.M, Full(R(64)))
        over(m) == UNION {Load(mem, "tilemax", <<m, t>>) : t \in Full(Cdiv(d.N, C(64)))}
    IN  Tile("a8", ms, Sweep(0, d.N, C(256)), LAMBDA m, i : Quantised(mem, "act", m, i, over(m)))
        \cup Tile("sa", ms, {0}, LAMBDA m, i : over(m))

\* Split K: program (n tile, s) sums its share of the columns; rows past M are
\* stored as zero.
DownShare(d, s) == Sweep(s * (d.N \div d.splits), (s + 1) * (d.N \div d.splits), C(128))

DownSplitK(mem, d) ==
    {Put("wks", <<s, m, n>>, IF m < d.M THEN SetToBag(Dot(mem, "a8", m, "down", n, DownShare(d, s))) ELSE EmptyBag)
        : s \in Full(d.splits), m \in Full(R(64)), n \in Sweep(0, d.W, C(64))}

DownReduce(mem, d) ==
    Tile("down", Masked(d.M, Full(R(64))), Sweep(0, d.W, C(64)),
         LAMBDA m, n : FoldLeft(LAMBDA acc, s : acc (+) Load(mem, "wks", <<s, m, n>>), EmptyBag,
                                [s \in 1..d.splits |-> s - 1])
                       (+) SetToBag(Plus(mem, "sa", m, 0)))

(***************************************************************************)
(* pi05, the fp8 MLP of the prefill: every dimension is masked.            *)
(***************************************************************************)
QuantRows(mem, d, x, q, width) ==
    LET over == Masked(width, Sweep(0, width, C(256))) IN
    Tile(q, Masked(d.M, Sweep(0, d.M, R(32))), over, LAMBDA m, k : Quantised(mem, x, m, k, over))

W8a8(mem, d, x, width, w, out, wide) ==
    Tile(out, Masked(d.M, Sweep(0, d.M, R(128))), Masked(wide, Sweep(0, wide, C(128))),
         LAMBDA m, n : SetToBag(Dot(mem, x, m, w, n, Masked(width, Sweep(0, width, C(64))))))

\* make_fp8_mlp_forward: the product of gate and up is torch's.
Multiply(mem, d) ==
    Tile("act", Full(d.M), Full(d.N),
         LAMBDA m, n : SetToBag(Plus(mem, "gated", m, n) \cup Plus(mem, "upped", m, n)))

(***************************************************************************)
(* pi05, the vision tower: layer norms with two moments in the same loop,  *)
(* biases and the fp32 residual in the epilogues.                          *)
(***************************************************************************)
Bias(w, n) == {<<"bias", w, n, 0, "-", 0>>}

NormedTerms(mem, m, w, n, ks) ==
    SetToBag(Squares(mem, "x", m, ks) \cup {<<"ln", "ln", k, 0, "-", 0>> : k \in ks}
             \cup Dot(mem, "x", m, w, n, ks) \cup Bias(w, n))

VisionQkv(mem, d) ==
    Tile("qkv", Masked(d.M, Sweep(0, d.M, R(64))), Masked(3 * d.K, Sweep(0, 3 * d.K, C(128))),
         LAMBDA m, n : NormedTerms(mem, m, "wqkv", n, Swept(d, C(64))))

OutTerms(mem, m, n, ks) ==
    SetToBag(Dot(mem, "attn", m, "wout", n, ks) \cup Bias("wout", n) \cup Plus(mem, "x", m, n))

VisionOut(mem, d) ==
    Tile("mid", Masked(d.M, Sweep(0, d.M, R(32))), Masked(d.K, Sweep(0, d.K, C(64))),
         LAMBDA m, n : OutTerms(mem, m, n, Swept(d, C(128))))

VisionMlpUp(mem, d) ==
    Tile("act", Masked(d.M, Sweep(0, d.M, R(32))), Masked(d.N, Sweep(0, d.N, C(128))),
         LAMBDA m, n : NormedTerms(mem, m, "w1", n, Swept(d, C(128))))

DownTerms(mem, m, n, ks) ==
    SetToBag(Dot(mem, "act", m, "w2", n, ks) \cup Bias("w2", n) \cup Plus(mem, "x", m, n))

VisionMlpDown(mem, d) ==
    Tile("out", Masked(d.M, Sweep(0, d.M, R(32))), Masked(d.K, Sweep(0, d.K, C(64))),
         LAMBDA m, n : DownTerms(mem, m, n, Masked(d.N, Sweep(0, d.N, C(128)))))

VisionProjector(mem, d) ==
    Tile("proj", Masked(d.M, Sweep(0, d.M, R(32))), Masked(d.N, Sweep(0, d.N, C(64))),
         LAMBDA m, n : NormedTerms(mem, m, "wproj", n, Swept(d, C(128))))

\* smolvla's vision tower: out_proj over the heads' layout, HeadWidth columns a
\* head; the loop is over the heads.
HeadWidth == 2

HeadTerms(mem, m, n, ks) == SetToBag(Dot(mem, "att", m, "wout", n, ks) \cup Bias("wout", n))

OutProjHeads(mem, d) ==
    Tile("out", Masked(d.M, Sweep(0, d.M, R(64))), Masked(d.N, Sweep(0, d.N, C(64))),
         LAMBDA m, n : HeadTerms(mem, m, n, UNION {h * HeadWidth .. (h + 1) * HeadWidth - 1 : h \in Full(d.K \div HeadWidth)}))

(***************************************************************************)
(* fastwam, FP8Linear: the row maxima are gathered by all programs of a    *)
(* row with atomic_max into zeroed memory, the cast reads them in the next *)
(* launch, and the GEMM's loop masks no column: a tile of BLOCK_K columns  *)
(* that K does not fill would run into the next row.                       *)
(***************************************************************************)
\* Mutant: a store for the atomic maximum.
ActAmaxStored(d) ==
    LET tiles == TileStarts(0, d.K, C(512)) IN
    UNION {Tile("raw", Masked(d.M, Sweep(0, d.M, R(64))), {0},
                LAMBDA m, i : Masked(d.K, tiles[t] .. tiles[t] + C(512) - 1)) : t \in DOMAIN tiles}

ActAmax(d) ==
    LET tiles == TileStarts(0, d.K, C(512)) IN
    Tile("raw", Masked(d.M, Sweep(0, d.M, R(64))), {0},
         LAMBDA m, i : UNION {Masked(d.K, tiles[t] .. tiles[t] + C(512) - 1) : t \in DOMAIN tiles})

ActCast(mem, d) ==
    Tile("a8", Masked(d.M, Sweep(0, d.M, R(64))), Swept(d, C(512)),
         LAMBDA m, k : Quantised(mem, "x", m, k, Load(mem, "raw", <<m, 0>>)))
    \cup Tile("sa", Masked(d.M, Sweep(0, d.M, R(64))), {0}, LAMBDA m, i : Load(mem, "raw", <<m, 0>>))

\* The tile sizes by the shape of the product <<M, K, N>>; others take
\* 64, 64, 128.
GemmConfig ==
    (<<120, 3072, 14336>> :> <<128, 64, 128>>) @@ (<<120, 14336, 3072>> :> <<64, 64, 128>>) @@
    (<<120, 3072, 3072>> :> <<64, 64, 128>>)   @@ (<<120, 3072, 9216>> :> <<32, 128, 128>>) @@
    (<<129, 3072, 3072>> :> <<32, 128, 128>>)  @@ (<<129, 3072, 6144>> :> <<32, 128, 128>>) @@
    (<<129, 4096, 3072>> :> <<32, 128, 128>>)  @@ (<<120, 3072, 6144>> :> <<64, 64, 128>>)  @@
    (<<32, 1024, 3072>> :> <<64, 64, 64>>)     @@ (<<32, 1024, 9216>> :> <<32, 64, 128>>)   @@
    (<<32, 3072, 1024>> :> <<32, 64, 128>>)    @@ (<<32, 1024, 4096>> :> <<64, 64, 256>>)   @@
    (<<32, 4096, 1024>> :> <<32, 64, 128>>)    @@ (<<129, 1024, 3072>> :> <<32, 128, 128>>) @@
    (<<129, 1024, 6144>> :> <<32, 128, 128>>)  @@ (<<129, 4096, 1024>> :> <<64, 64, 128>>)

DefaultGemmConfig == <<64, 64, 128>>
PickGemmConfig(shape) == IF shape \in DOMAIN GemmConfig THEN GemmConfig[shape] ELSE DefaultGemmConfig

Fp8Terms(mem, m, n, ks) ==
    SetToBag(Dot(mem, "a8", m, "w8", n, ks) \cup Plus(mem, "sa", m, 0) \cup Bias("w8", n))

Fp8Gemm(mem, d, cfg) ==
    Tile("out", Masked(d.M, Sweep(0, d.M, R(cfg[1]))), Masked(d.N, Sweep(0, d.N, C(cfg[2]))),
         LAMBDA m, n : Fp8Terms(mem, m, n, Unmasked(d, C(cfg[3]))))
=============================================================================
