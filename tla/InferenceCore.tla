---------------------------- MODULE InferenceCore ----------------------------
(***************************************************************************)
(* One inference on the device, for the three backends (models/fastwam.py  *)
(* and mot.py; pi05 and smolvla models/flow_matching.py).  A prefill of    *)
(* the image and language tokens leaves keys and values for every layer;   *)
(* the action expert then denoises in Steps steps.  With overlap the first *)
(* of those runs on a second stream, layer i as soon as prefill layer i    *)
(* has left its keys.  With a CUDA graph the inputs are copied on a third  *)
(* stream and the same work is replayed.                                   *)
(*                                                                         *)
(* The host issues operations to the streams and may fail between any two; *)
(* the streams run them, each in order, and wait for one another.  Device  *)
(* memory is recycled from request to request (the runners' buffers, the   *)
(* static buffers of a graph, the allocator's blocks), so a cell has one   *)
(* place for all requests.  A cell holds <<request, step, layer>>, or Bad  *)
(* if it was computed from anything but its own inputs.                    *)
(***************************************************************************)
EXTENDS Integers, Sequences

CONSTANTS
  Backends,        \* of "fastwam", "pi05", "smolvla"
  Layers,          \* transformer layers of both experts
  Steps,           \* denoise steps
  Prompts,         \* task prompts, numbers
  CaptureMayFail,  \* whether smolvla's captures may fail at startup
  MaxRequests,     \* bound: requests
  MaxFailures      \* bound: exceptions

ASSUME CoreAssumption ==
  /\ Backends \subseteq {"fastwam", "pi05", "smolvla"}
  /\ Layers \in Nat \ {0} /\ Steps \in Nat \ {0}
  /\ Prompts \subseteq Nat \ {0} /\ CaptureMayFail \in BOOLEAN
  /\ MaxRequests \in Nat /\ MaxFailures \in Nat

Streams == {"main", "side", "copy"}
Bad     == <<0, 0, 0>>
NoMemo  == <<0, 0>>

VARIABLES
  backend,
  graph,     \* a request replays a CUDA graph
  overlap,   \* the model's overlap
  static,    \* smolvla: use_static_cache
  cache,     \* fastwam: the prompt cache is on
  memo,      \* _prompt_cache: <<prompt, prompt whose embedding it holds>>
  host,      \* "idle", "issuing"
  request,   \* requests begun; the current one is the last
  prompt,    \* its prompt
  emb,       \* the prompt whose embedding it uses
  at,        \* the place of the last host call
  streams,   \* stream -> operations issued and not yet run
  event,     \* layer -> place its event was last recorded at
  mem,       \* cell -> tag
  failures,
  answers    \* request -> <<"ok", tag, prompt of the embedding>>, <<"error">>

config   == <<backend, graph, overlap, static, cache>>
hostVars == <<memo, host, request, prompt, emb, at>>
coreVars == <<config, hostVars, streams, event, mem, failures, answers>>

-----------------------------------------------------------------------------
(* Host calls.  The calls of a request are a set; each has its place       *)
(* <<request, stage, layer, call>>, and the host makes them in that order. *)
(* Stage 0 is the inputs, 1 the encoding and the prefill, 2 the projection *)
(* of the prefix for smolvla's expert, 3 + s denoise step s; the overlapped *)
(* step 0 is in stage 1.  Layer 0 is what comes before the layers, Layers  *)
(* + 1 what comes behind them.                                             *)

Before(a, b) ==
  \/ a[1] < b[1]
  \/ a[1] = b[1] /\ a[2] < b[2]
  \/ a[1] = b[1] /\ a[2] = b[2] /\ a[3] < b[3]
  \/ a[1] = b[1] /\ a[2] = b[2] /\ a[3] = b[3] /\ a[4] < b[4]

StepStage(s)  == IF overlap /\ s = 0 THEN 1 ELSE 3 + s
StepStream(s) == IF overlap /\ s = 0 THEN "side" ELSE "main"

Is(cell, tag) == [cell |-> cell, tag |-> tag]

\* An operation: it needs what it reads, and writes one cell.
Launch(place, st, reads, made) ==
  [at |-> place, do |-> "launch", st |-> st, reads |-> reads,
   cell |-> made.cell, tag |-> made.tag]
WaitStream(place, st, on) == [at |-> place, do |-> "wait_stream", st |-> st, on |-> on]
Record(place, i)          == [at |-> place, do |-> "record", layer |-> i]
WaitEvent(place, st, i)   == [at |-> place, do |-> "wait_event", st |-> st, layer |-> i]
Grow(place, st)           == [at |-> place, do |-> "grow", st |-> st]

Cell(name)       == <<name, 0>>
Prefix(r, i)     == Is(<<"prefix", i>>, <<r, 0, i>>)
Kv(buf, r, i)    == Is(<<buf, i>>, <<r, 0, i>>)
ExpertKv(r, i)   == Is(<<"expert_kv", i>>, <<r, 0, i>>)
Suffix(r, s, i)  == Is(<<"suffix", i>>, <<r, s, i>>)
Act(r, s, i)     == Is(<<"action", i>>, <<r, s, i>>)
Scratch(r, s, i) == Is(Cell("scratch"), <<r, s, i>>)
Latent(r, s)     == Is(Cell("latent"), <<r, s, 0>>)
Input(r)         == Is(Cell("input"), <<r, 0, 0>>)
Context(r)       == Is(Cell("action_ctx"), <<r, 0, 0>>)

\* A graph runner copies the inputs into its static buffers on the copy stream (copy_inputs,
\* wait_inputs); an eager request brings tensors of its own.
Inputs(r) ==
  LET fill(st) == {Launch(<<r, 0, 0, 2>>, st, {}, Input(r)),
                   Launch(<<r, 0, 0, 3>>, st, {}, Latent(r, 0))}
  IN  IF graph
      THEN {WaitStream(<<r, 0, 0, 1>>, "copy", "main"), WaitStream(<<r, 0, 0, 4>>, "main", "copy")}
           \cup fill("copy")
      ELSE fill("main")

Encode(r) == Launch(<<r, 1, 0, 5>>, "main", {Input(r)}, Prefix(r, 0))

\* A prefill layer: its keys and values, and the next layer's tokens.
PrefillLayer(r, i, buf) ==
  {Launch(<<r, 1, i, 9>>, "main", {Prefix(r, i - 1)}, Kv(buf, r, i)),
   Launch(<<r, 1, i, 10>>, "main", {Prefix(r, i - 1), Kv(buf, r, i)}, Prefix(r, i))}

\* With overlap: the side stream starts behind the suffix of step 0; its layer i waits for
\* the event behind prefill layer i; the head waits for the side stream.
Fork(r)    == WaitStream(<<r, 1, 0, 8>>, "side", "main")
Gate(r, i) == {Record(<<r, 1, i, 11>>, i), WaitEvent(<<r, 1, i, 12>>, "side", i)}
Gates(r)   == UNION {Gate(r, i) : i \in 1 .. Layers}
Join(r)    == WaitStream(<<r, 1, Layers + 1, 17>>, "main", "side")

\* The head and the Euler step.
StepEnd(r, s) ==
  Launch(<<r, StepStage(s), Layers + 1, 18>>, "main", {Act(r, s, Layers), Latent(r, s)},
         Latent(r, s + 1))

-----------------------------------------------------------------------------
(* fastwam.                                                                *)

ActionCtx(r) == Launch(<<r, 1, 0, 6>>, "main", {Input(r)}, Context(r))

ActionPre(r, s) ==
  Launch(<<r, StepStage(s), 0, 7>>, "main", {Latent(r, s), Context(r)}, Act(r, s, 0))

\* action_layer with the fused kernels: their scratch is one for all layers.
ActionLayer(r, s, i) ==
  {Launch(<<r, StepStage(s), i, 14>>, StepStream(s),
          {Act(r, s, i - 1), Kv("kv", r, i), Context(r)}, Scratch(r, s, i)),
   Launch(<<r, StepStage(s), i, 16>>, StepStream(s), {Scratch(r, s, i)}, Act(r, s, i))}

DenoiseStep(r, s) ==
  {ActionPre(r, s), StepEnd(r, s)} \cup (UNION {ActionLayer(r, s, i) : i \in 1 .. Layers})

\* Mutant: the head of step 0 does not wait for the side stream.
FastwamUnjoined(r) == {Fork(r)} \cup Gates(r) \cup DenoiseStep(r, 0)

FastwamOverlap(r) == {Fork(r), Join(r)} \cup Gates(r) \cup DenoiseStep(r, 0)

\* The VAE encode and _denoise_core.
FastwamCore(r) ==
  {Encode(r), ActionCtx(r)}
  \cup (UNION {PrefillLayer(r, i, "kv") : i \in 1 .. Layers})
  \cup (IF overlap THEN FastwamOverlap(r) ELSE DenoiseStep(r, 0))
  \cup (UNION {DenoiseStep(r, s) : s \in 1 .. Steps - 1})

-----------------------------------------------------------------------------
(* pi05.                                                                   *)

Pi05Layer(r, s, i) ==
  Launch(<<r, StepStage(s), i, 16>>, StepStream(s), {Act(r, s, i - 1), Kv("kv", r, i)},
         Act(r, s, i))

EmbedSuffix(r, s) == Launch(<<r, StepStage(s), 0, 7>>, "main", {Latent(r, s)}, Act(r, s, 0))

Pi05Step(r, s) ==
  {EmbedSuffix(r, s), StepEnd(r, s)} \cup {Pi05Layer(r, s, i) : i \in 1 .. Layers}

Pi05Overlap(r) == {Fork(r), Join(r)} \cup Gates(r) \cup Pi05Step(r, 0)

Pi05Core(r) ==
  {Encode(r)}
  \cup (UNION {PrefillLayer(r, i, "kv") : i \in 1 .. Layers})
  \cup (IF overlap THEN Pi05Overlap(r) ELSE Pi05Step(r, 0))
  \cup (UNION {Pi05Step(r, s) : s \in 1 .. Steps - 1})

-----------------------------------------------------------------------------
(* smolvla.  Its KVCache holds prefix and suffix in one buffer per layer.  *)
(* The static one has room for both; one made for a single inference has   *)
(* room for the prefix, and is replaced by a larger one at the first       *)
(* suffix, whatever the layers hold by then being copied.                  *)

SelfLayer(i) == i % 2 = 1   \* self_attn_every_n_layers = 2, from the first layer

\* Mutant: an entry is matched by prefix length alone.
MatchedByLength(r, fills) == r > 1

\* _cached_expert_prefix_kv of an entry the previous inference left: the fill count tells.
Matched(r, fills) == r > 1 /\ static /\ fills = (r - 1) * Layers

\* Where the prefill leaves the keys of a layer, and where the suffix finds them.
Roomy(i)  == IF overlap /\ ~static /\ i # 1 THEN "grown" ELSE "kv"
SuffixBuf == IF static THEN "kv" ELSE "grown"

\* write_suffix.
WriteSuffix(r, s, i) ==
  {Launch(<<r, StepStage(s), i, 15>>, StepStream(s), {Act(r, s, i - 1)}, Suffix(r, s, i))}
  \cup (IF ~static /\ s = 0 /\ i = 1
        THEN {Grow(<<r, StepStage(s), i, 13>>, StepStream(s))} ELSE {})

\* Step 0 of an overlapped inference looks for its projections while the prefill still fills.
Projected(r, s, i) == IF overlap /\ s = 0 THEN Matched(r, (r - 1) * Layers + i) ELSE TRUE

SmolvlaLayer(r, s, i) ==
  LET layer(reads) == Launch(<<r, StepStage(s), i, 16>>, StepStream(s), reads, Act(r, s, i))
  IN  IF SelfLayer(i)
      THEN WriteSuffix(r, s, i)
           \cup {layer({Act(r, s, i - 1), Kv(SuffixBuf, r, i), Suffix(r, s, i)})}
      ELSE {layer({Act(r, s, i - 1),
                   IF Projected(r, s, i) THEN ExpertKv(r, i) ELSE Kv(SuffixBuf, r, i)})}

\* _compute_expert_prefix_kv.
ProjectExpert(r, buf) ==
  {Launch(<<r, 2, i, 19>>, "main", {Kv(buf, r, i)}, ExpertKv(r, i))
     : i \in {j \in 1 .. Layers : ~SelfLayer(j)}}

SmolvlaStep(r, s) ==
  {EmbedSuffix(r, s), StepEnd(r, s)} \cup (UNION {SmolvlaLayer(r, s, i) : i \in 1 .. Layers})

SmolvlaOverlap(r) ==
  {Fork(r), Join(r)} \cup Gates(r) \cup SmolvlaStep(r, 0) \cup ProjectExpert(r, SuffixBuf)

SmolvlaCore(r) ==
  {Encode(r)}
  \cup (UNION {PrefillLayer(r, i, Roomy(i)) : i \in 1 .. Layers})
  \cup (IF overlap THEN SmolvlaOverlap(r) ELSE ProjectExpert(r, "kv") \cup SmolvlaStep(r, 0))
  \cup (UNION {SmolvlaStep(r, s) : s \in 1 .. Steps - 1})

-----------------------------------------------------------------------------

Calls(r) ==
  Inputs(r) \cup (CASE backend = "fastwam" -> FastwamCore(r)
                    [] backend = "pi05"    -> Pi05Core(r)
                    [] backend = "smolvla" -> SmolvlaCore(r))

-----------------------------------------------------------------------------
Cells ==
  {<<n, i>> : n \in {"prefix", "kv", "grown", "expert_kv", "suffix", "action"}, i \in 0 .. Layers}
  \cup {Cell(n) : n \in {"scratch", "latent", "input", "action_ctx"}}

\* smolvla overlaps with a graph only, on static caches.  When no capture succeeded it goes
\* on without them, and leaves the model's overlap as it was.
SmolvlaStartup ==
  /\ \/ graph /\ static
     \/ ~graph /\ ~static /\ ~overlap
     \/ ~graph /\ ~static /\ CaptureMayFail
  /\ ~cache

CoreInit ==
  /\ backend \in Backends
  /\ graph \in BOOLEAN /\ overlap \in BOOLEAN /\ static \in BOOLEAN /\ cache \in BOOLEAN
  /\ backend = "smolvla" => SmolvlaStartup
  /\ backend = "pi05" => ~cache /\ ~static
  /\ backend = "fastwam" => ~static
  /\ memo = NoMemo /\ host = "idle" /\ request = 0 /\ prompt = 0 /\ emb = 0
  /\ at = <<0, 0, 0, 0>>
  /\ streams = [st \in Streams |-> << >>]
  /\ event = [i \in 1 .. Layers |-> <<0, 0, 0, 0>>]
  /\ mem = [c \in Cells |-> Bad]
  /\ failures = 0
  /\ answers = << >>

\* Mutant: any memo is a hit.
HitAny(p) == cache /\ memo # NoMemo

Hit(p) == cache /\ memo[1] = p

\* A request; encode_prompt.  Only fastwam's prompts are told apart.
Begin ==
  /\ host = "idle" /\ request < MaxRequests
  /\ \E p \in Prompts :
       /\ backend # "fastwam" => \A q \in Prompts : p <= q
       /\ prompt' = p
       /\ emb' = IF Hit(p) THEN memo[2] ELSE p
       /\ memo' = IF cache /\ ~Hit(p) THEN <<p, p>> ELSE memo
  /\ request' = request + 1
  /\ at' = <<request + 1, 0, 0, 0>>
  /\ host' = "issuing"
  /\ UNCHANGED <<config, streams, event, mem, failures, answers>>

\* The calls of the request that are not yet made, and the first of them.
ToCome   == {c \in Calls(request) : Before(at, c.at)}
NextCall == LET left == ToCome IN {c \in left : \A other \in left : ~Before(other.at, c.at)}

Enqueue(st, op) == streams' = [streams EXCEPT ![st] = Append(@, op)]

\* A wait for what was issued on a stream before a place.
Wait(call, on, place) == [at |-> call.at, do |-> "wait", on |-> on, upto |-> place]

\* The next host call: what it appends to a stream is an operation, or a wait.
Issue ==
  /\ host = "issuing"
  /\ \E call \in NextCall :
       /\ at' = call.at
       /\ \/ /\ call.do \in {"launch", "grow"}
             /\ Enqueue(call.st, call)
             /\ UNCHANGED event
          \/ /\ call.do = "wait_stream"
             /\ Enqueue(call.st, Wait(call, call.on, call.at))
             /\ UNCHANGED event
          \/ /\ call.do = "wait_event"
             /\ Enqueue(call.st, Wait(call, "main", event[call.layer]))
             /\ UNCHANGED event
          \/ /\ call.do = "record"
             /\ event' = [event EXCEPT ![call.layer] = call.at]
             /\ UNCHANGED streams
  /\ UNCHANGED <<config, memo, host, request, prompt, emb, mem, failures, answers>>

\* An exception on the host: what is issued goes on running.  A replay is one call, which
\* fails before it or not at all.
Fail ==
  /\ host = "issuing" /\ failures < MaxFailures
  /\ graph => at[2] = 0
  /\ failures' = failures + 1
  /\ host' = "idle"
  /\ answers' = Append(answers, <<"error">>)
  /\ UNCHANGED <<config, memo, request, prompt, emb, at, streams, event, mem>>

\* .to("cpu") of the final latents blocks until main has run out.
Answer ==
  /\ host = "issuing" /\ ToCome = {}
  /\ streams["main"] = << >>
  /\ answers' = Append(answers, <<"ok", mem[Cell("latent")], emb>>)
  /\ host' = "idle"
  /\ UNCHANGED <<config, memo, request, prompt, emb, at, streams, event, mem, failures>>

-----------------------------------------------------------------------------
(* The device.                                                             *)

\* What was issued on a stream before a place has run.
RunOut(st, place) == \A k \in DOMAIN streams[st] : Before(place, streams[st][k].at)

\* The operation at the head of a stream.
Run(st) ==
  /\ streams[st] # << >>
  /\ LET op == Head(streams[st])
     IN  \/ /\ op.do = "wait" /\ RunOut(op.on, op.upto)
            /\ UNCHANGED mem
         \/ /\ op.do = "launch"
            /\ mem' = [mem EXCEPT ![op.cell] =
                         IF \A x \in op.reads : mem[x.cell] = x.tag THEN op.tag ELSE Bad]
         \/ /\ op.do = "grow"
            /\ mem' = [c \in Cells |-> IF c[1] = "grown" THEN mem[<<"kv", c[2]>>] ELSE mem[c]]
  /\ streams' = [streams EXCEPT ![st] = Tail(@)]
  /\ UNCHANGED <<config, hostVars, event, failures, answers>>

Done == host = "idle" /\ request = MaxRequests /\ \A st \in Streams : streams[st] = << >>

CoreNext ==
  \/ Begin \/ Issue \/ Fail \/ Answer
  \/ \E st \in Streams : Run(st)
  \/ Done /\ UNCHANGED coreVars

CoreSpec == CoreInit /\ [][CoreNext]_coreVars

-----------------------------------------------------------------------------
\* Every action chunk that is returned was computed from the latents, the inputs and the
\* keys of its own request at every step and layer, on one stream, on two, or replayed, and
\* also after a request that failed half way and left its side stream running
\* (fastwam.py:457-548, pi05 flow_matching.py:609-705, smolvla flow_matching.py:455-531).
AnswersOwn ==
  \A r \in DOMAIN answers :
    answers[r][1] = "ok" => answers[r][2] = <<r, Steps, 0>>

\* The embedding a request is served with is its prompt's (fastwam.py:150-184).
PromptOwn == request > 0 => emb = prompt

\* The scratch of fastwam's fused action kernels is used by one stream at a time, whatever
\* requests the streams are at: what a layer leaves there the same layer takes
\* (fused_action.py:104-123; fastwam.py:505-541).
ScratchExclusive ==
  LET next(st)     == Head(streams[st])
      launches(st) == streams[st] # << >> /\ next(st).do = "launch"
      inside(st)   == launches(st) /\ \E x \in next(st).reads : x.cell = Cell("scratch")
      entering(st) == launches(st) /\ next(st).cell = Cell("scratch")
  IN  \A st \in {"main", "side"}, other \in {"main", "side"} :
        inside(st) /\ other # st => ~entering(other) /\ ~inside(other)

=============================================================================
