----------------------------- MODULE TiledKernels -----------------------------
(***************************************************************************)
(* The Triton pipelines behind the --tl flags (and fastwam's FP8Linear),   *)
(* run launch by launch on every small shape: the host functions that      *)
(* refuse a shape or launch the kernels in order, the buffers the launches *)
(* share, and a second inference over the buffers the first one left.      *)
(***************************************************************************)
EXTENDS AttentionKernels, GemmKernels

CONSTANTS MaxRows, MaxKeys, MaxCols

VARIABLES
    pipe,    \* the pipeline, the host function the model calls
    d,       \* the sizes of the call
    mem,     \* what the launches stored
    todo     \* the launches still to come

vars == <<pipe, d, mem, todo>>

\* The launches of each host function in order, and the buffers they write.
Program == [
    self       |-> <<"SelfAttn">>,
    cross      |-> <<"CrossAttn">>,
    prefill    |-> <<"PrefillQkv", "FlashPrefill">>,
    llm        |-> <<"ConcatQkv", "PrefillAttn">>,
    siglip     |-> <<"VisionAttn">>,
    expert     |-> <<"QkvRope", "PrefixKT", "SplitFlash", "MergeSplits">>,
    mlp        |-> <<"NormGateUp">>,
    heads      |-> <<"OutProjHeads">>,
    adamlp     |-> <<"AdaNormGateUp">>,
    residual   |-> <<"GatedResidual">>,
    fp8mlp     |-> <<"NormGateUpFp8", "QuantActFp8", "DownSplitK", "DownReduce">>,
    fp8prefill |-> <<"QuantInput", "GateGemm", "UpGemm", "Multiply", "QuantMiddle", "DownGemm">>,
    vision     |-> <<"VisionQkv", "VisionOut", "VisionMlpUp", "VisionMlpDown", "VisionProjector">>,
    fp8linear  |-> <<"ActAmax", "ActCast", "Fp8Gemm">>]

Buffers == [
    self |-> {"out"}, cross |-> {"out"}, prefill |-> {"q", "kv", "out"}, llm |-> {"kv", "out"},
    siglip |-> {"out"}, expert |-> {"qr", "kr", "vr", "pkT", "part", "out"},
    mlp |-> {"act"}, heads |-> {"out"}, adamlp |-> {"act"}, residual |-> {"prod", "res"},
    fp8mlp |-> {"act", "tilemax", "a8", "sa", "wks", "down"},
    fp8prefill |-> {"xq", "gated", "upped", "act", "aq", "down"},
    vision |-> {"qkv", "mid", "act", "out", "proj"}, fp8linear |-> {"raw", "a8", "sa", "out"}]

AttentionPipes == {"self", "cross", "prefill", "llm", "siglip", "expert"}

(***************************************************************************)
(* The shapes.  A prefix has a run of absent tokens, padding of the prompt *)
(* or a camera that is not there; smolvla's starts with a camera that is,  *)
(* and ends with the state, a block of its own.  The suffix, the actions   *)
(* of a chunk, is at most 64 tokens in every deployment.                   *)
(***************************************************************************)
Pads(n) == {Full(n)} \cup {Full(n) \ (a .. b) : a \in Full(n), b \in Full(n)}
CameraPads(n) == {pad \in Pads(n) : Masked(n, Full(R(64))) \subseteq pad}
Keys == 1 .. MaxKeys
ChunkRows == 1 .. R(64)
StateLast(n) == [i \in Full(n) |-> IF i = n - 1 THEN 1 ELSE 0]
OneBlock(n)  == [i \in Full(n) |-> 0]

Attention(H, G, Ps, Ss, PadsOf(_), AttOf(_)) ==
    UNION {[H : {H}, G : {G}, P : {P}, S : Ss, pad : PadsOf(P), att : {AttOf(P)}, splits : {4}, req : {1}] : P \in Ps}

Gemm(Ms, Ks, Ns) == [M : Ms, K : Ks, N : Ns]
SomeRows == 1 .. MaxRows
SomeCols == 1 .. MaxCols

Shapes == [
    self       |-> Attention(4, 2, Keys, ChunkRows, CameraPads, StateLast),
    cross      |-> Attention(4, 2, Keys, 1 .. MaxRows, CameraPads, StateLast),
    prefill    |-> Attention(4, 2, Keys, {1}, CameraPads, StateLast),
    llm        |-> Attention(2, 1, Keys, {1}, Pads, OneBlock),
    siglip     |-> Attention(2, 2, 1 .. 2 * R(64), {1}, LAMBDA P : {Full(P)}, OneBlock),
    expert     |-> {s @@ [K |-> width] : s \in Attention(2, 1, {1, 4, 5, 9, 2 * MaxKeys}, {1, 3, 4}, Pads, OneBlock),
                                         width \in {C(64), 3 * C(64)}},
    mlp        |-> Gemm(SomeRows, SomeCols, SomeCols),
    heads      |-> Gemm(SomeRows, {HeadWidth * h : h \in 1..3}, SomeCols),
    adamlp     |-> Gemm(SomeRows, SomeCols, SomeCols),
    residual   |-> Gemm(ChunkRows, {C(256), C(256) + 1, 2 * C(256)}, {1}),
    fp8mlp     |-> [M : ChunkRows, K : 1 .. 4, N : {8, 12, 16, 32}, W : {2, 3, 4}, splits : {1, 2, 4}],
    fp8prefill |-> Gemm(SomeRows, SomeCols, SomeCols),
    vision     |-> Gemm(SomeRows, SomeCols, SomeCols),
    fp8linear  |-> UNION {[M : SomeRows, K : {C(cfg[3]), 5 * C(cfg[3])}, N : SomeCols, cfg : {cfg}]
                          : cfg \in {PickGemmConfig(s) : s \in DOMAIN GemmConfig} \cup {DefaultGemmConfig}}]

\* FP8Linear asks nothing of K; every shape of the models fills its tiles.
ASSUME ShapesFillTiles == \A s \in DOMAIN GemmConfig : s[2] % PickGemmConfig(s)[3] = 0

\* The host functions that raise on a shape launch nothing.
Takes(p, s) ==
    CASE p = "siglip"   -> VisionAttnTakes(s)
      [] p = "residual" -> ResidualTakes(s)
      [] p = "fp8mlp"   -> Fp8Takes(s)
      [] OTHER          -> TRUE

Init ==
    /\ pipe \in DOMAIN Program
    /\ d \in Shapes[pipe]
    /\ mem = [b \in Buffers[pipe] |-> <<>>]
    /\ todo = IF Takes(pipe, d) THEN Program[pipe] ELSE <<>>

Launch(kernel, stores) ==
    /\ todo # <<>> /\ Head(todo) = kernel
    /\ mem' = Stored(mem, stores)
    /\ todo' = Tail(todo)
    /\ UNCHANGED <<pipe, d>>

\* The next inference: new activations, the same buffers.
NextInference ==
    /\ todo = <<>> /\ pipe \in AttentionPipes /\ Takes(pipe, d)
    /\ d.req = 1
    /\ d' = [d EXCEPT !.req = 2]
    /\ todo' = Program[pipe]
    /\ UNCHANGED <<pipe, mem>>

Finished == todo = <<>> /\ ~(pipe \in AttentionPipes /\ Takes(pipe, d) /\ d.req = 1) /\ UNCHANGED vars

Next ==
    \/ Launch("SelfAttn", SelfAttn(d))
    \/ Launch("CrossAttn", CrossAttn(d))
    \/ Launch("PrefillQkv", PrefillQkv(d))
    \/ Launch("FlashPrefill", FlashPrefill(mem, d))
    \/ Launch("ConcatQkv", ConcatQkv(d))
    \/ Launch("PrefillAttn", PrefillAttn(mem, d))
    \/ Launch("VisionAttn", VisionAttn(d))
    \/ Launch("QkvRope", QkvRope(d))
    \/ Launch("PrefixKT", PrefixKT(mem, d))
    \/ Launch("SplitFlash", SplitFlash(mem, d))
    \/ Launch("MergeSplits", MergeSplits(mem, d))
    \/ Launch("NormGateUp", NormGateUp(mem, d))
    \/ Launch("OutProjHeads", OutProjHeads(mem, d))
    \/ Launch("AdaNormGateUp", AdaNormGateUp(mem, d))
    \/ Launch("GatedResidual", GatedResidual(mem, d))
    \/ Launch("NormGateUpFp8", NormGateUpFp8(mem, d))
    \/ Launch("QuantActFp8", QuantActFp8(mem, d))
    \/ Launch("DownSplitK", DownSplitK(mem, d))
    \/ Launch("DownReduce", DownReduce(mem, d))
    \/ Launch("QuantInput", QuantRows(mem, d, "x", "xq", d.K))
    \/ Launch("GateGemm", W8a8(mem, d, "xq", d.K, "gate", "gated", d.N))
    \/ Launch("UpGemm", W8a8(mem, d, "xq", d.K, "up", "upped", d.N))
    \/ Launch("Multiply", Multiply(mem, d))
    \/ Launch("QuantMiddle", QuantRows(mem, d, "act", "aq", d.N))
    \/ Launch("DownGemm", W8a8(mem, d, "aq", d.N, "down", "down", d.K))
    \/ Launch("VisionQkv", VisionQkv(mem, d))
    \/ Launch("VisionOut", VisionOut(mem, d))
    \/ Launch("VisionMlpUp", VisionMlpUp(mem, d))
    \/ Launch("VisionMlpDown", VisionMlpDown(mem, d))
    \/ Launch("VisionProjector", VisionProjector(mem, d))
    \/ Launch("ActAmax", ActAmax(d))
    \/ Launch("ActCast", ActCast(mem, d))
    \/ Launch("Fp8Gemm", Fp8Gemm(mem, d, d.cfg))
    \/ NextInference
    \/ Finished

Spec == Init /\ [][Next]_vars

-----------------------------------------------------------------------------
(* What a pipeline that has finished must have left.                       *)

Complete == todo = <<>> /\ Takes(pipe, d)

\* A buffer that holds one value in every cell of a table and nothing outside.
Holds(buf, rows, cols, V(_, _)) ==
    /\ DOMAIN mem[buf] = rows \X cols
    /\ \A m \in rows, n \in cols : mem[buf][<<m, n>>] = {V(m, n)}

\* Each dimension multiplied with itself.
Straight == {<<c, c>> : c \in Full(HeadDim)}

\* The keys a row is meant to attend to.
Allowed(h, m) ==
    LET g == Group(d, h) IN
    CASE pipe = "self"   -> {<<"pre", g, j, d.req>> : j \in d.pad} \cup {<<"suf", g, j, d.req>> : j \in Full(m + 1)}
      [] pipe = "cross"  -> {<<"expert", g, j, d.req>> : j \in d.pad}
      [] pipe = "siglip" -> {<<"kv", h, j, d.req>> : j \in Full(d.P)}
      [] pipe = "expert" -> {<<"pre", d.req, j, Straight>> : j \in d.pad}
                             \cup {<<"suf", d.req, j, Straight>> : j \in Full(d.S)}
      [] OTHER           -> {<<"kv", g, j, d.req>> : j \in {x \in Full(d.P) : Sees(d, m, x)}}

RowsOf == IF pipe \in {"self", "cross", "expert"} THEN Full(d.S) ELSE Full(d.P)

\* No row is NaN, the rows of absent tokens included: their value is multiplied
\* by a zero weight in the next layer, and zero times NaN is NaN.
NeverNaN ==
    \A cell \in DOMAIN mem["out"] : \A row \in mem["out"][cell] : ~row.nan

\* The RoPE pair of every stored q and k column is the dimension half a head
\* away, at the table's columns of the two; q, k and v are projections of the
\* whole normed input and of nothing past it.
RopePairs ==
    pipe = "expert" =>
        /\ \A buf \in {"qr", "kr"} : \A cell \in DOMAIN mem[buf] : \A x \in mem[buf][cell] :
              x.with = (x.dim + HeadDim \div 2) % HeadDim /\ x.table = x.dim
        /\ \A buf \in {"qr", "kr", "vr"} : \A cell \in DOMAIN mem[buf] : \A x \in mem[buf][cell] :
              x.over = Full(d.K)

\* Every row of every head is the softmax over exactly the keys its token may
\* see, each once, in its own group's and this inference's keys, rotated by their
\* own pair and in one column order, whatever the tiles, the splits and the padding:
\* no tail key is dropped, no key is counted by two splits, no row is left to what
\* the buffer held, none is NaN.  Rows of absent tokens are unused.
AttendsExactly ==
    Complete /\ pipe \in AttentionPipes =>
        /\ NeverNaN
        /\ RopePairs
        /\ DOMAIN mem["out"] = Full(d.H) \X RowsOf
        /\ \A h \in Full(d.H), m \in RowsOf :
              (pipe \in {"prefill", "llm"} => m \in d.pad) =>
                  {row.keys : row \in mem["out"][<<h, m>>]} = {SetToBag(Allowed(h, m))}

\* Every output of the GEMMs is the sum of every term of its row and column,
\* each once: the masks, the grids and the split over K leave no element
\* unwritten and no term out, and let none in from outside the matrices.
SumsExact ==
    Complete =>
        CASE pipe = "mlp"      -> Holds("act", Full(d.M), Full(d.N), LAMBDA m, n : GateUpTerms(mem, m, n, Full(d.K)))
          [] pipe = "adamlp"   -> Holds("act", Full(d.M), Full(d.N), LAMBDA m, n : AdaTerms(mem, m, n, Full(d.K)))
          [] pipe = "heads"    -> Holds("out", Full(d.M), Full(d.N), LAMBDA m, n : HeadTerms(mem, m, n, Full(d.K)))
          [] pipe = "residual" -> Holds("res", Full(d.M), Full(d.K), LAMBDA m, n :
                                        SetToBag({<<"add", "branch", m, n, "-", 0>>, <<"add", "x", m, n, "-", 0>>,
                                                  <<"gate", "mod", n, 0, "-", 0>>}))
          [] pipe = "fp8mlp"   -> /\ Holds("act", Full(d.M), Full(d.N), LAMBDA m, n : AdaFp8Terms(mem, m, n, Full(d.K)))
                                  /\ Holds("down", Full(d.M), Full(d.W), LAMBDA m, n :
                                           SetToBag({<<"dot", "a8", m, k, "down", n>> : k \in Full(d.N)}
                                                    \cup {<<"add", "sa", m, 0, "-", 0>>}))
          [] pipe = "fp8prefill" -> /\ Holds("gated", Full(d.M), Full(d.N), LAMBDA m, n : SetToBag(Dot(mem, "xq", m, "gate", n, Full(d.K))))
                                    /\ Holds("upped", Full(d.M), Full(d.N), LAMBDA m, n : SetToBag(Dot(mem, "xq", m, "up", n, Full(d.K))))
                                    /\ Holds("down", Full(d.M), Full(d.K), LAMBDA m, n :
                                             SetToBag({<<"dot", "aq", m, k, "down", n>> : k \in Full(d.N)}))
          [] pipe = "vision"   -> /\ Holds("qkv", Full(d.M), Full(3 * d.K), LAMBDA m, n : NormedTerms(mem, m, "wqkv", n, Full(d.K)))
                                  /\ Holds("mid", Full(d.M), Full(d.K), LAMBDA m, n : OutTerms(mem, m, n, Full(d.K)))
                                  /\ Holds("act", Full(d.M), Full(d.N), LAMBDA m, n : NormedTerms(mem, m, "w1", n, Full(d.K)))
                                  /\ Holds("out", Full(d.M), Full(d.K), LAMBDA m, n : DownTerms(mem, m, n, Full(d.N)))
                                  /\ Holds("proj", Full(d.M), Full(d.N), LAMBDA m, n : NormedTerms(mem, m, "wproj", n, Full(d.K)))
          [] pipe = "fp8linear" -> Holds("out", Full(d.M), Full(d.N), LAMBDA m, n :
                                         SetToBag({<<"dot", "a8", m, k, "w8", n>> : k \in Full(d.K)}
                                                  \cup {<<"add", "sa", m, 0, "-", 0>>, <<"bias", "w8", n, 0, "-", 0>>}))
          [] OTHER -> TRUE

\* Every element is quantised with the maximum of its whole row, which is the
\* scale the next GEMM multiplies back: no tile's share is missing or foreign.
RowScales ==
    Complete =>
        CASE pipe = "fp8mlp"     -> /\ Holds("a8", Full(d.M), Full(d.N), LAMBDA m, n : [of |-> <<"act", m, n>>, max |-> Full(d.N)])
                                    /\ Holds("sa", Full(d.M), {0}, LAMBDA m, n : Full(d.N))
          [] pipe = "fp8prefill" -> /\ Holds("xq", Full(d.M), Full(d.K), LAMBDA m, n : [of |-> <<"x", m, n>>, max |-> Full(d.K)])
                                    /\ Holds("aq", Full(d.M), Full(d.N), LAMBDA m, n : [of |-> <<"act", m, n>>, max |-> Full(d.N)])
          [] pipe = "fp8linear"  -> /\ Holds("a8", Full(d.M), Full(d.K), LAMBDA m, n : [of |-> <<"x", m, n>>, max |-> Full(d.K)])
                                    /\ Holds("sa", Full(d.M), {0}, LAMBDA m, n : Full(d.K))
          [] OTHER -> TRUE

\* What the MLP and linear kernels leave is the product they stand for, in FP8 too.
GemmsExact == SumsExact /\ RowScales
=============================================================================
