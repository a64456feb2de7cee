---------------------------- MODULE KernelPhases ----------------------------
(***************************************************************************)
(* The fused kernels of fastwam: eight kernels of four to six phases each  *)
(* (policies/fastwam/kernels/phase_table.py and the .cu files), run layer  *)
(* by layer by the runners of models/fused_{text,action,video}.py.         *)
(*                                                                         *)
(* A kernel is launched in one of two forms.  Cooperative: one launch, all *)
(* its CTAs resident, a grid barrier between the phases.  Split: a launch  *)
(* for each phase, which the stream orders.  The CTAs of a phase run in    *)
(* any order, and each takes the pieces of work its block index claims.    *)
(*                                                                         *)
(* A buffer is cut into the pieces its writer works on; a piece holds the  *)
(* number of the call that made it from good inputs, or Garbage.  Weights, *)
(* modulation and caches that no kernel of the family writes are left out, *)
(* and the share of one CTA in one phase is a step.                        *)
(***************************************************************************)
EXTENDS Integers, Sequences, FiniteSets

CONSTANTS
  Families,    \* families to run, of {"text", "action", "video"}
  Layers,      \* transformer layers
  Rows,        \* token rows of text and video          (128, 120)
  ActionRows,  \* token rows of action                  (32)
  Heads,       \* heads, or heads times query tiles     (64, 24, 96)
  Tiles,       \* tiles of a GEMM; column tiles of the hidden state
  Slabs,       \* column slabs of an action GEMM        (96, 48, 64)
  Capacities,  \* CTAs of a kernel a device may hold at a time
  SmallestGrid \* bound: the smallest FASTWAM_COOP_GRID asked for

ASSUME KernelAssumption ==
  /\ Families \subseteq {"text", "action", "video"}
  /\ {Layers, Rows, ActionRows, Heads, Tiles, Slabs, SmallestGrid} \subseteq Nat \ {0}
  /\ Capacities \subseteq Nat \ {0}
  /\ Heads <= Rows /\ Tiles <= Rows
  /\ ActionRows <= Slabs /\ Heads <= Slabs /\ Tiles <= Slabs

Garbage == -1
Zero    == 0

Most(a, b) == IF a > b THEN a ELSE b

-----------------------------------------------------------------------------
(* The phase table.  A phase has n pieces of work; a piece needs every     *)
(* piece of the buffers it reads and writes one piece of each it writes.   *)

Phase(n, strided, reads, writes) ==
  [n |-> n, strided |-> strided, reads |-> reads, writes |-> writes,
   own    |-> {},   \* read only at the piece that is written: the residual
   adds   |-> {},   \* accumulated with atomicMax
   clears |-> {},   \* zeroed by CTA 0
   leads  |-> {}]   \* written whole by CTA 0

ClaimByBlock == FALSE  \* if (blockIdx.x < n)
ClaimStrided == TRUE   \* for (u = blockIdx.x; u < n; u += gridDim.x)

Tmt5Ffn ==
  [min |-> 1, policy |-> "capacity", phases |-> <<
    Phase(Rows,  ClaimStrided, {"x_in"}, {"a8buf", "sa0buf"}),
    Phase(Tiles, ClaimStrided, {"a8buf", "sa0buf"}, {"gbuf"}),
    Phase(Rows,  ClaimStrided, {"gbuf"}, {"a8gbuf", "sa1buf"}),
    [Phase(Tiles, ClaimStrided, {"a8gbuf", "sa1buf"}, {"out"}) EXCEPT !.own = {"x_in"}] >>]

Tmt5Attn ==
  [min |-> 1, policy |-> "capacity", phases |-> <<
    Phase(Rows,  ClaimStrided, {"x_in"}, {"a8buf", "sa0buf"}),
    Phase(Tiles, ClaimStrided, {"a8buf", "sa0buf"}, {"qkvbuf"}),
    Phase(Heads, ClaimByBlock, {"qkvbuf"}, {"attnbuf"}),
    Phase(Rows,  ClaimStrided, {"attnbuf"}, {"a8obuf", "sa1buf"}),
    [Phase(Tiles, ClaimStrided, {"a8obuf", "sa1buf"}, {"out"}) EXCEPT !.own = {"x_in"}] >>]

AditSelf ==
  [min |-> Slabs, policy |-> "problem", phases |-> <<
    Phase(ActionRows, ClaimByBlock, {"x_in"}, {"a8x", "sa0x"}),
    Phase(Slabs,      ClaimByBlock, {"a8x", "sa0x"}, {"qkv"}),
    Phase(Heads,      ClaimByBlock, {"qkv"}, {"rstd_scratch"}),
    Phase(Heads,      ClaimByBlock, {"qkv", "rstd_scratch"}, {"attn"}),
    Phase(ActionRows, ClaimByBlock, {"attn"}, {"a8a", "sa0a"}),
    [Phase(Tiles, ClaimByBlock, {"a8a", "sa0a"}, {"out"}) EXCEPT !.own = {"x_in"}] >>]

AditCross ==
  [min |-> Slabs, policy |-> "problem", phases |-> <<
    Phase(ActionRows, ClaimByBlock, {"x_in"}, {"a8q", "sa0q"}),
    Phase(Slabs,      ClaimByBlock, {"a8q", "sa0q"}, {"qp"}),
    Phase(Heads,      ClaimByBlock, {"qp"}, {"rstd_scratch"}),
    Phase(Heads,      ClaimByBlock, {"qp", "rstd_scratch"}, {"attn"}),
    Phase(ActionRows, ClaimByBlock, {"attn"}, {"a8o", "sa0o"}),
    [Phase(Tiles, ClaimByBlock, {"a8o", "sa0o"}, {"out"}) EXCEPT !.own = {"x_in"}] >>]

AditFfn ==
  [min |-> Slabs, policy |-> "problem", phases |-> <<
    [Phase(ActionRows, ClaimByBlock, {"x_in"}, {"a8buf", "sa0buf"}) EXCEPT !.clears = {"raw1"}],
    [Phase(Slabs, ClaimByBlock, {"a8buf", "sa0buf"}, {"gbuf"}) EXCEPT !.adds = {"raw1"}],
    [Phase(Slabs, ClaimByBlock, {"raw1"}, {"a8gbuf"}) EXCEPT !.own = {"gbuf"}],
    [Phase(Tiles, ClaimByBlock, {"a8gbuf", "raw1"}, {"out"}) EXCEPT !.own = {"x_in"}] >>]

VditSelf ==
  [min |-> Rows, policy |-> "capacity", phases |-> <<
    Phase(Rows,  ClaimByBlock, {"x_in"}, {"a8x", "sa0x"}),
    Phase(Tiles, ClaimStrided, {"a8x", "sa0x"}, {"qkv"}),
    Phase(Rows,  ClaimByBlock, {"qkv"}, {"qc", "kc", "vc"}),
    Phase(Heads, ClaimByBlock, {"qc", "kc", "vc"}, {"attn"}),
    Phase(Rows,  ClaimByBlock, {"attn"}, {"a8a", "sa0a"}),
    [Phase(Tiles, ClaimStrided, {"a8a", "sa0a"}, {"out"}) EXCEPT !.own = {"x_in"}] >>]

VditCross ==
  [min |-> Rows, policy |-> "capacity", phases |-> <<
    Phase(Rows,  ClaimStrided, {"x_in"}, {"a8q", "sa0q", "a8c", "sa0c"}),
    Phase(Tiles, ClaimStrided, {"a8q", "sa0q", "a8c", "sa0c"}, {"qp", "kvp"}),
    Phase(Rows,  ClaimStrided, {"qp", "kvp"}, {"qc", "kc", "vc"}),
    Phase(Heads, ClaimByBlock, {"qc", "kc", "vc"}, {"attn"}),
    Phase(Rows,  ClaimByBlock, {"attn"}, {"a8o", "sa0o"}),
    [Phase(Tiles, ClaimStrided, {"a8o", "sa0o"}, {"out"}) EXCEPT !.own = {"x_in"}] >>]

\* Mutant: raw1 is cleared in the launch of the phase that accumulates into it.
VditFfnLateClear ==
  [min |-> Rows, policy |-> "capacity", phases |-> <<
    Phase(Rows, ClaimByBlock, {"x_in"}, {"a8buf", "sa0buf"}),
    [Phase(Tiles, ClaimStrided, {"a8buf", "sa0buf"}, {"gbuf"})
       EXCEPT !.adds = {"raw1"}, !.clears = {"raw1"}],
    [Phase(Rows, ClaimStrided, {"gbuf", "raw1"}, {"a8gbuf"}) EXCEPT !.leads = {"sa1buf"}],
    [Phase(Tiles, ClaimStrided, {"a8gbuf", "sa1buf"}, {"out"}) EXCEPT !.own = {"x_in"}] >>]

VditFfn ==
  [min |-> Rows, policy |-> "capacity", phases |-> <<
    [Phase(Rows, ClaimByBlock, {"x_in"}, {"a8buf", "sa0buf"}) EXCEPT !.clears = {"raw1"}],
    [Phase(Tiles, ClaimStrided, {"a8buf", "sa0buf"}, {"gbuf"}) EXCEPT !.adds = {"raw1"}],
    [Phase(Rows, ClaimStrided, {"gbuf", "raw1"}, {"a8gbuf"}) EXCEPT !.leads = {"sa1buf"}],
    [Phase(Tiles, ClaimStrided, {"a8gbuf", "sa1buf"}, {"out"}) EXCEPT !.own = {"x_in"}] >>]

Kernel(k) ==
  CASE k = "tmt5.ffn"        -> Tmt5Ffn
    [] k = "tmt5.attn"       -> Tmt5Attn
    [] k = "adit.attn_self"  -> AditSelf
    [] k = "adit.attn_cross" -> AditCross
    [] k = "adit.ffn"        -> AditFfn
    [] k = "vdit.attn_self"  -> VditSelf
    [] k = "vdit.attn_cross" -> VditCross
    [] k = "vdit.ffn"        -> VditFfn

FamilyKernels(f) ==
  CASE f = "text"   -> {"tmt5.ffn", "tmt5.attn"}
    [] f = "action" -> {"adit.attn_self", "adit.attn_cross", "adit.ffn"}
    [] f = "video"  -> {"vdit.attn_self", "vdit.attn_cross", "vdit.ffn"}

-----------------------------------------------------------------------------
(* The runners: which memory each call of a kernel is given.  A scratch    *)
(* buffer is allocated once per runner and serves every layer.             *)

Call(k, bind) == [kernel |-> k, bind |-> bind]
Join(b1, b2)  == [r \in DOMAIN b1 \cup DOMAIN b2 |-> IF r \in DOMAIN b1 THEN b1[r] ELSE b2[r]]
InOut(in, out) == [r \in {"x_in", "out"} |-> IF r = "x_in" THEN in ELSE out]

\* FusedAttnRunner and FusedTextRunner, each with a pair of outputs and one toggle.
TextLayer(i) ==
  LET ob == i % 2
      h  == IF i = 1 THEN <<"tokens", 0>> ELSE <<"ffn out", (i - 1) % 2>>
  IN  << Call("tmt5.attn", InOut(h, <<"attn out", ob>>)),
         Call("tmt5.ffn",  InOut(<<"attn out", ob>>, <<"ffn out", ob>>)) >>

\* FusedActionRunner.step_layer: three buffers in rotation.
ActionLayer(i) ==
  LET buf(j) == <<"buf", (i - 1 + j) % 3>>
      src    == IF i = 1 THEN <<"tokens", 0>> ELSE buf(1)
  IN  << Call("adit.attn_self",  InOut(src, buf(0))),
         Call("adit.attn_cross", InOut(buf(0), buf(1))),
         Call("adit.ffn",        InOut(buf(1), buf(2))) >>

\* Mutant: one key and one value buffer for all layers.
SharedCache(i) == [r \in {"kc", "vc"} |-> <<r, 1>>]

\* Keys and values stay: the layer's cache for the denoise steps.
Cache(i) == [r \in {"kc", "vc"} |-> <<r, i>>]

\* FusedAttnRunner of the video expert: a pair of outputs and one toggle, the
\* cross-attention in place; its FFN runner toggles once per layer and request.
VideoLayer(i) ==
  LET ob == <<"attn out", i % 2>>
      h  == IF i = 1 THEN <<"tokens", 0>> ELSE <<"ffn out", 0>>
  IN  << Call("vdit.attn_self",  Join(InOut(h, ob), Cache(i))),
         Call("vdit.attn_cross", InOut(ob, ob)),
         Call("vdit.ffn",        InOut(ob, <<"ffn out", 0>>)) >>

LayerCalls(f, i) ==
  CASE f = "text"   -> TextLayer(i)
    [] f = "action" -> ActionLayer(i)
    [] f = "video"  -> VideoLayer(i)

CallsPerLayer(f) == IF f = "text" THEN 2 ELSE 3

\* The k-th kernel call of a forward pass.
CallAt(f, k) ==
  LET n == CallsPerLayer(f)
  IN  LayerCalls(f, ((k - 1) \div n) + 1)[((k - 1) % n) + 1]

NumCalls(f)   == Layers * CallsPerLayer(f)
NumPhases(c)  == Len(Kernel(c.kernel).phases)
PhaseOf(c, p) == Kernel(c.kernel).phases[p]
Phys(c, role) == IF role \in DOMAIN c.bind THEN c.bind[role] ELSE <<c.kernel, role>>

\* Pieces of the memory behind a role: those of the phases that write it.
Made(ph)      == ph.writes \cup ph.adds \cup ph.leads
Outputs(ph)   == Made(ph) \cup ph.clears
Touches(ph)   == ph.reads \cup ph.own \cup Outputs(ph)
Pieces(c, role) ==
  IF role \in {"x_in", "out"} THEN 1 .. Tiles
  ELSE UNION {1 .. PhaseOf(c, p).n : p \in {q \in 1 .. NumPhases(c) : role \in Made(PhaseOf(c, q))}}

Roles(c) == UNION {Touches(PhaseOf(c, p)) : p \in 1 .. NumPhases(c)}

\* All the memory of a forward pass, before it begins.
Fresh(f) ==
  LET calls == {CallAt(f, k) : k \in 1 .. NumCalls(f)}
      slots == UNION {{[buf |-> Phys(c, r), n |-> Pieces(c, r)] : r \in Roles(c)} : c \in calls}
  IN  [b \in {s.buf : s \in slots} |->
         LET s == CHOOSE t \in slots : t.buf = b
         IN  [u \in s.n |-> IF b = <<"tokens", 0>> THEN Zero ELSE Garbage]]

-----------------------------------------------------------------------------
(* What the CTAs B of a grid of g do to the memory m in phase ph of the    *)
(* k-th call c.                                                            *)

Claimed(ph, b, g) ==
  {u \in 1 .. ph.n : IF ph.strided THEN (u - 1) % g = b ELSE u = b + 1}

\* The number a buffer holds if it is what this call needs.
Expect(k, role) == IF role = "x_in" THEN k - 1 ELSE k

Share(ph, B, g) == UNION {Claimed(ph, b, g) : b \in B}

Ready(m, c, k, ph) ==
  \A r \in ph.reads : \A u \in DOMAIN m[Phys(c, r)] : m[Phys(c, r)][u] = Expect(k, r)

\* A piece is good if what it is computed from is.
Fed(m, c, k, ph, u) ==
  Ready(m, c, k, ph) /\ \A r \in ph.own : m[Phys(c, r)][u] = Expect(k, r)

\* Piece u of the output behind role r.
After(m, c, k, ph, B, g, r, u) ==
  LET old == IF r \in ph.clears /\ 0 \in B THEN Zero ELSE m[Phys(c, r)][u]
      made(ok) == IF ok THEN k ELSE Garbage
  IN  CASE r \in ph.leads /\ 0 \in B -> made(Ready(m, c, k, ph))
        [] r \in ph.writes /\ u \in Share(ph, B, g) -> made(Fed(m, c, k, ph, u))
        [] r \in ph.adds /\ u \in Share(ph, B, g) -> made(Fed(m, c, k, ph, u) /\ old \in {Zero, k})
        [] OTHER -> old

Effect(m, c, k, ph, B, g) ==
  [b \in DOMAIN m |->
     IF \E r \in Outputs(ph) : Phys(c, r) = b
     THEN LET r == CHOOSE s \in Outputs(ph) : Phys(c, s) = b
          IN  [u \in DOMAIN m[b] |-> After(m, c, k, ph, B, g, r, u)]
     ELSE m[b]]

-----------------------------------------------------------------------------
VARIABLES
  family,    \* what runs
  capacity,  \* kernel -> CTAs the device holds
  coop,      \* the device launches cooperative kernels
  want,      \* --cu-fused-*: "coop", or "split"
  require,   \* --require-fused
  split,     \* the form of the runner
  mem,       \* buffer -> piece -> number
  call,      \* current call
  phase,     \* split: its current phase
  launch,    \* "none", "running", "refused"; "raised": there is no engine
  done,      \* CTA -> phases of the launch it has finished; the grid is its domain
  entry,     \* Case.tensors, << >> before the recording
  exits      \* Case.exits

config == <<family, capacity, coop, want, require, split>>
vars   == <<config, mem, call, phase, launch, done, entry, exits>>

Now     == CallAt(family, call)
Ended   == call > NumCalls(family)

\* coop_available: the device launches cooperative kernels and holds min_grid CTAs.
CoopAvailable(k) == coop /\ capacity[k] >= Kernel(k).min

\* Mutant: the first kernel answers for its family.
ResolveByFirst(f, w) ==
  w = "split" \/ ~CoopAvailable(LayerCalls(f, 1)[1].kernel)

\* _resolve_split: one kernel without its cooperative form takes the family to split,
\* or, with --require-fused, ends the start of the engine.
ResolveSplit(f, w) == w = "split" \/ \E k \in FamilyKernels(f) : ~CoopAvailable(k)

\* coop_grid (FASTWAM_COOP_GRID may shrink it) and cached_split_grid.
Grids(k) ==
  LET min == Kernel(k).min
  IN  IF Kernel(k).policy = "problem" THEN {min}
      ELSE IF split THEN {Most(capacity[k], min)}
      ELSE Most(min, SmallestGrid) .. capacity[k]

Init ==
  /\ family \in Families
  /\ capacity \in [FamilyKernels(family) -> Capacities]
  /\ coop \in BOOLEAN
  /\ want \in {"coop", "split"}
  /\ require \in BOOLEAN
  /\ split = ResolveSplit(family, want)
  /\ mem = Fresh(family)
  /\ call = 1 /\ phase = 1
  /\ launch = IF require /\ split # (want = "split") THEN "raised" ELSE "none"
  /\ done = << >> /\ entry = << >> /\ exits = << >>

\* Mutant: only what the phase is declared to read is kept.
SnapshotReads(m, c, ph) ==
  [b \in {Phys(c, r) : r \in Roles(c)} |->
     IF \E r \in ph.reads \cup ph.own : Phys(c, r) = b THEN m[b]
     ELSE [u \in DOMAIN m[b] |-> Garbage]]

\* Recorder.enter: every tensor of the call, before the phase rewrites any of them.
Snapshot(m, c, ph) == [b \in {Phys(c, r) : r \in Roles(c)} |-> m[b]]

\* dispatch: the cooperative form is one launch, the split form a launch for each phase.
Launch ==
  /\ launch = "none" /\ ~Ended
  /\ IF ~split /\ ~CoopAvailable(Now.kernel)
     THEN launch' = "refused" /\ UNCHANGED <<done, entry>>
     ELSE /\ launch' = "running"
          /\ \E g \in Grids(Now.kernel) :
               done' = [b \in 0 .. g - 1 |-> IF split THEN phase - 1 ELSE 0]
          /\ \/ UNCHANGED entry
             \/ split /\ entry = << >> /\ entry' = Snapshot(mem, Now, PhaseOf(Now, phase))
  /\ UNCHANGED <<config, mem, call, phase, exits>>

LastPhase == IF split THEN phase ELSE NumPhases(Now)

\* The grid barrier: no CTA begins a phase before all have finished the one before.
Barrier(b) == \A c \in DOMAIN done : done[c] >= done[b]

\* CTA b does its share of its next phase.
Work(b) ==
  /\ launch = "running"
  /\ done[b] < LastPhase
  /\ Barrier(b)
  /\ mem' = Effect(mem, Now, call, PhaseOf(Now, done[b] + 1), {b}, Cardinality(DOMAIN done))
  /\ done' = [done EXCEPT ![b] = @ + 1]
  /\ UNCHANGED <<config, call, phase, launch, entry, exits>>

\* Recorder.exit: what the phase wrote.
Exit ==
  LET ph == PhaseOf(Now, phase)
  IN  [call |-> call, phase |-> phase, grid |-> Cardinality(DOMAIN done),
       mem |-> [b \in {Phys(Now, r) : r \in Outputs(ph)} |-> mem[b]]]

\* The grid has ended; the stream goes on with the next launch.
Finish ==
  /\ launch = "running"
  /\ \A b \in DOMAIN done : done[b] = LastPhase
  /\ launch' = "none"
  /\ IF split /\ phase < NumPhases(Now)
     THEN phase' = phase + 1 /\ UNCHANGED call
     ELSE phase' = 1 /\ call' = call + 1
  /\ exits' = IF entry # << >> /\ exits = << >> THEN Exit ELSE exits
  /\ done' = << >>
  /\ UNCHANGED <<config, mem, entry>>

Next ==
  \/ Launch
  \/ \E b \in DOMAIN done : Work(b)
  \/ Finish
  \/ (Ended \/ launch = "raised") /\ UNCHANGED vars

Spec == Init /\ [][Next]_vars

-----------------------------------------------------------------------------
\* A kernel computes all of its output from its own inputs: when a call has ended every
\* piece of every buffer it writes is the call's, whatever the form, the order of the
\* CTAs and the grid, as long as the text family has a CTA for each head (tmt5.attn on
\* a smaller one leaves heads undone: README, section 6).  Pieces dropped by a grid that
\* is too small, an amax cleared too late, a missing barrier, memory another layer left
\* there, would show (registry.py:116-230, vdit_ffn.cu:112-123, fused_action.py:268-272).
OutputComplete ==
  \A k \in 1 .. NumCalls(family) : call = k + 1 /\ launch = "none" /\ phase = 1 =>
    LET c == CallAt(family, k)
    IN  \A p \in 1 .. NumPhases(c) :
          LET ph == PhaseOf(c, p)
          IN  \A r \in Made(ph) :
                \A u \in DOMAIN mem[Phys(c, r)] : mem[Phys(c, r)][u] = k

\* After the prefill the cache of layer i holds the keys and values of layer i: the
\* denoise steps read them ten times (fused_video.py:244-248).
CachesKept ==
  (family = "video" /\ Ended) =>
    \A i \in 1 .. Layers : \A r \in {"kc", "vc"} :
      \A u \in DOMAIN mem[Cache(i)[r]] : mem[Cache(i)[r]][u] = 3 * (i - 1) + 1

\* Replaying a recorded phase on its entry state gives what was recorded at its exit, in
\* any order of the CTAs: a phase is a function of the state it was entered in
\* (phase_check.py:1-27, 143-163).
ReplayAgrees ==
  (Ended /\ exits # << >>) =>
    LET c  == CallAt(family, exits.call)
        replayed == Effect(entry, c, exits.call, PhaseOf(c, exits.phase),
                           0 .. exits.grid - 1, exits.grid)
    IN  \A b \in DOMAIN exits.mem : replayed[b] = exits.mem[b]

\* The form the engine resolves to is one that every kernel of the family launches in:
\* the capacity is asked for before the first launch, not found missing in the middle of
\* a forward pass (engine.py:704-721, registry.py:252-280).
LaunchesAccepted == launch # "refused"
=============================================================================
