---------------------------- MODULE SmolvlaEngine ----------------------------
(***************************************************************************)
(* The smolvla engine with CUDA graphs (tybok/policies/smolvla/engine.py)  *)
(* on the graph runner of tybok/graph.py, at the level of CUDA streams.    *)
(*                                                                         *)
(* The host issues operations to two streams and goes on; the GPU executes *)
(* each stream in order, the two concurrently, and an event makes a stream *)
(* wait for a position of the other.  Graphs, one for each camera count,   *)
(* read and write static buffers.  The denoising noise of a request is     *)
(* drawn on the copy stream, one request ahead.                            *)
(*                                                                         *)
(* Requests are sequential on the host (WorkerServer's engine lock), but a *)
(* request that fails after it issued its operations leaves them behind.   *)
(* A draw is named by its number: the generator reserves its numbers when  *)
(* the draw is issued.  A frame without any camera raises in both paths    *)
(* before anything is issued, and is left out, as are the numerics.        *)
(***************************************************************************)
EXTENDS Integers, Sequences, FiniteSets

CONSTANTS
  Keys,         \* camera counts, one graph each
  ActionSteps,  \* n_action_steps
  MaxRequests,  \* bound: requests in a behaviour
  MaxFaults     \* bound: captures and requests that fail

ASSUME SmolvlaAssumption ==
  /\ Keys # {} /\ IsFiniteSet(Keys)
  /\ ActionSteps \in Nat \ {0}
  /\ MaxRequests \in Nat
  /\ MaxFaults \in Nat

VARIABLES
  todo,        \* keys still to capture at startup
  graphs,      \* keys of GraphRunner._entries
  serving,     \* the startup is over
  pc,          \* host: "idle", "prepared" (batch issued), "sync" (waits for main)
  nreq,        \* requests begun; the current one is the last
  key,         \* its camera count
  given,       \* its noise came with it
  pops,        \* it is a select_action
  queue,       \* actions left in _action_queue
  status,      \* request -> "none", "ok", "error"
  draws,       \* draws issued to the noise generator
  noiseReady,  \* _noise_ready
  streams,     \* stream -> operations issued and not executed
  done,        \* stream -> operations executed
  batch,       \* requests whose batch is on the GPU
  statics,     \* key -> static buffers [inputs, noise, out]
  staging,     \* _noise_staging: number of the draw in it
  result,      \* request -> what its copy of the output holds
  turn,        \* request -> implicit inferences up to it, itself included
  faults

startVars == <<todo, graphs, serving>>
hostVars  == <<pc, nreq, key, given, pops, queue, status>>
rngVars   == <<draws, noiseReady, turn>>
gpuVars   == <<done, batch, statics, staging, result>>
vars == <<startVars, hostVars, rngVars, streams, gpuVars, faults>>

Requests == 1 .. MaxRequests
Streams  == {"main", "copy"}
Other(s) == IF s = "main" THEN "copy" ELSE "main"
Nothing  == [inputs |-> 0, noise |-> 0]
Blank    == [inputs |-> 0, noise |-> 0, out |-> Nothing]

\* Noise is named by its draw, and the noise of request r that came with it by -r.
Noise == -MaxRequests .. 2 * MaxRequests

\* An operation: its name, the buffers of key k it uses, and a number (the
\* request, the draw, or the position of the other stream to wait for).
Op(name, k, n) == [name |-> name, key |-> k, n |-> n]
NoKey == 0

Issued(s) == done[s] + Len(streams[s])

\* Requests that ran the model on noise of the engine's own, so far.
Implicit == Cardinality({r \in Requests : turn[r] # 0})

Init ==
  /\ todo \in SUBSET Keys
  /\ graphs = {}
  /\ serving = FALSE
  /\ pc = "idle"
  /\ nreq = 0
  /\ key = NoKey
  /\ given = FALSE
  /\ pops = FALSE
  /\ queue = 0
  /\ status = [r \in Requests |-> "none"]
  /\ draws = 0
  /\ noiseReady = FALSE
  /\ streams = [s \in Streams |-> << >>]
  /\ done = [s \in Streams |-> 0]
  /\ batch = {}
  /\ statics = [k \in Keys |-> Blank]
  /\ staging = 0
  /\ result = [r \in Requests |-> Nothing]
  /\ turn = [r \in Requests |-> 0]
  /\ faults = 0

-----------------------------------------------------------------------------
(* Startup: each count is captured, or fails and is skipped.  Without any  *)
(* graph the engine stays eager.                                           *)

Precapture ==
  /\ ~serving
  /\ \E k \in todo :
       /\ todo' = todo \ {k}
       /\ \/ graphs' = graphs \cup {k} /\ UNCHANGED faults
          \/ faults < MaxFaults /\ faults' = faults + 1 /\ UNCHANGED graphs
  /\ UNCHANGED <<serving, hostVars, rngVars, streams, gpuVars>>

StartServing ==
  /\ ~serving /\ todo = {}
  /\ serving' = TRUE
  /\ UNCHANGED <<todo, graphs, hostVars, rngVars, streams, gpuVars, faults>>

-----------------------------------------------------------------------------
(* Requests, on the host.                                                  *)

\* _batch_from_frame, prepare_images, prepare_state: issued to the main stream.
Begin(k, g, p) ==
  /\ serving /\ pc = "idle" /\ nreq < MaxRequests
  /\ nreq' = nreq + 1
  /\ key' = k /\ given' = g /\ pops' = p
  /\ streams' = [streams EXCEPT !["main"] = Append(@, Op("batch", NoKey, nreq + 1))]
  /\ pc' = "prepared"
  /\ UNCHANGED <<startVars, queue, status, rngVars, gpuVars, faults>>

\* select_action with actions left: no inference, but the copy to the host waits
\* for the main stream.
Pop ==
  /\ pc = "prepared" /\ pops /\ queue > 0
  /\ queue' = queue - 1
  /\ pc' = "sync"
  /\ UNCHANGED <<startVars, nreq, key, given, pops, status, rngVars, streams, gpuVars, faults>>

Inferring == pc = "prepared" /\ ~(pops /\ queue > 0)

\* GraphRunner.entry: a count without a graph is captured at its first request.
\* The session synchronises the device at the end.
LazyCapture ==
  /\ Inferring /\ graphs # {} /\ key \notin graphs
  /\ \A s \in Streams : streams[s] = << >>
  /\ graphs' = graphs \cup {key}
  /\ UNCHANGED <<todo, serving, hostVars, rngVars, streams, gpuVars, faults>>

\* A failed capture is not the ValueError for which the request falls back.
LazyCaptureFails ==
  /\ Inferring /\ graphs # {} /\ key \notin graphs
  /\ faults < MaxFaults
  /\ faults' = faults + 1
  /\ status' = [status EXCEPT ![nreq] = "error"]
  /\ pc' = "idle"
  /\ UNCHANGED <<startVars, nreq, key, given, pops, queue, rngVars, streams, gpuVars>>

\* Mutants: the copy stream does not wait for the main stream, or waits for the
\* replay as well.
ForkNever == << >>
ForkLate  == <<Op("wait", NoKey, Issued("main") + 2)>>

\* copy_inputs: copy_stream.wait_stream(main).
Fork == <<Op("wait", NoKey, Issued("main"))>>

\* The noise of this replay: staged by the request before, or drawn now.
NoiseOp ==
  IF given THEN Op("given", key, nreq)
  ELSE IF noiseReady THEN Op("staged", key, 0)
  ELSE Op("draw", key, draws + 1)

DrawnNow == IF given \/ noiseReady THEN 0 ELSE 1

Inputs == Fork \o <<Op("inputs", key, nreq), NoiseOp>>

\* Mutant: the noise of the next request is drawn after every request.
PrefetchAlways == <<Op("prefetch", NoKey, draws + DrawnNow + 1)>>

\* The noise of the next request, only after a request that used the engine's.
Prefetch == IF given THEN << >> ELSE <<Op("prefetch", NoKey, draws + DrawnNow + 1)>>

\* wait_inputs: the event recorded after the copies.
Join == Issued("copy") + Len(Inputs)

\* A request ends without an answer when the copy of the output cannot be
\* allocated; what it issued stays issued.
CloneAndSync ==
  \/ /\ streams' = [main |-> streams["main"] \o <<Op("wait", NoKey, Join), Op("replay", key, 0),
                                                  Op("clone", key, nreq)>>,
                    copy |-> streams["copy"] \o Inputs \o Prefetch]
     /\ pc' = "sync"
     /\ queue' = IF pops THEN ActionSteps - 1 ELSE queue
     /\ UNCHANGED <<status, faults>>
  \/ /\ faults < MaxFaults
     /\ faults' = faults + 1
     /\ streams' = [main |-> streams["main"] \o <<Op("wait", NoKey, Join), Op("replay", key, 0)>>,
                    copy |-> streams["copy"] \o Inputs \o Prefetch]
     /\ status' = [status EXCEPT ![nreq] = "error"]
     /\ pc' = "idle"
     /\ UNCHANGED queue

\* _run_graph.
RunGraph ==
  /\ Inferring /\ key \in graphs
  /\ CloneAndSync
  /\ draws' = draws + DrawnNow + Len(Prefetch)
  /\ noiseReady' = (noiseReady \/ ~given)
  /\ turn' = [turn EXCEPT ![nreq] = IF given THEN 0 ELSE Implicit + 1]
  /\ UNCHANGED <<startVars, nreq, key, given, pops, gpuVars>>

\* policy.predict_action_chunk: everything on the main stream.
RunEager ==
  /\ Inferring /\ graphs = {}
  /\ streams' = [streams EXCEPT !["main"] =
                   Append(@, Op("eager", nreq, IF given THEN -nreq ELSE draws + 1))]
  /\ draws' = IF given THEN draws ELSE draws + 1
  /\ turn' = [turn EXCEPT ![nreq] = IF given THEN 0 ELSE Implicit + 1]
  /\ queue' = IF pops THEN ActionSteps - 1 ELSE queue
  /\ pc' = "sync"
  /\ UNCHANGED <<startVars, nreq, key, given, pops, status, noiseReady, gpuVars, faults>>

\* .cpu() returns when the main stream has executed everything.
Return ==
  /\ pc = "sync" /\ streams["main"] = << >>
  /\ status' = [status EXCEPT ![nreq] = "ok"]
  /\ pc' = "idle"
  /\ UNCHANGED <<startVars, nreq, key, given, pops, queue, rngVars, streams, gpuVars, faults>>

-----------------------------------------------------------------------------
(* The GPU.                                                                *)

Effect(op) ==
  LET k == op.key
  IN  /\ batch' = IF op.name = "batch" THEN batch \cup {op.n} ELSE batch
      /\ staging' = IF op.name = "prefetch" THEN op.n ELSE staging
      /\ statics' = CASE op.name = "inputs" ->
                           [statics EXCEPT ![k].inputs = IF op.n \in batch THEN op.n ELSE 0]
                      [] op.name = "draw"   -> [statics EXCEPT ![k].noise = op.n]
                      [] op.name = "staged" -> [statics EXCEPT ![k].noise = staging]
                      [] op.name = "given"  -> [statics EXCEPT ![k].noise = -op.n]
                      [] op.name = "replay" ->
                           [statics EXCEPT ![k].out = [inputs |-> statics[k].inputs,
                                                       noise  |-> statics[k].noise]]
                      [] OTHER -> statics
      /\ result' = CASE op.name = "clone" -> [result EXCEPT ![op.n] = statics[k].out]
                     [] op.name = "eager" -> [result EXCEPT ![k] = [inputs |-> k, noise |-> op.n]]
                     [] OTHER -> result

Execute(s) ==
  /\ streams[s] # << >>
  /\ LET op == Head(streams[s])
     IN  /\ op.name = "wait" => done[Other(s)] >= op.n
         /\ Effect(op)
  /\ streams' = [streams EXCEPT ![s] = Tail(@)]
  /\ done' = [done EXCEPT ![s] = @ + 1]
  /\ UNCHANGED <<startVars, hostVars, rngVars, faults>>

-----------------------------------------------------------------------------
Host == Pop \/ LazyCapture \/ LazyCaptureFails \/ RunGraph \/ RunEager \/ Return

Next ==
  \/ Precapture
  \/ StartServing
  \/ \E k \in Keys, g, p \in BOOLEAN : Begin(k, g, p)
  \/ Host
  \/ \E s \in Streams : Execute(s)

Fairness == WF_vars(Host) /\ \A s \in Streams : WF_vars(Execute(s))

Spec == Init /\ [][Next]_vars /\ Fairness

-----------------------------------------------------------------------------
TypeOK ==
  /\ todo \subseteq Keys /\ graphs \subseteq Keys /\ serving \in BOOLEAN
  /\ pc \in {"idle", "prepared", "sync"}
  /\ nreq \in 0 .. MaxRequests
  /\ key \in Keys \cup {NoKey} /\ given \in BOOLEAN /\ pops \in BOOLEAN
  /\ queue \in 0 .. ActionSteps - 1
  /\ status \in [Requests -> {"none", "ok", "error"}]
  /\ draws \in 0 .. MaxRequests + 1 /\ noiseReady \in BOOLEAN
  /\ DOMAIN streams = Streams
  /\ done \in [Streams -> Nat]
  /\ batch \subseteq Requests
  /\ statics \in [Keys -> [inputs : 0 .. MaxRequests, noise : Noise,
                           out : [inputs : 0 .. MaxRequests, noise : Noise]]]
  /\ staging \in 0 .. MaxRequests + 1
  /\ result \in [Requests -> [inputs : 0 .. MaxRequests, noise : Noise]]
  /\ turn \in [Requests -> 0 .. MaxRequests]
  /\ faults \in 0 .. MaxFaults

-----------------------------------------------------------------------------
(* Safety *)

\* Ran the model: answered by an inference, not from the action queue.
Inferred(r) == status[r] = "ok" /\ result[r] # Nothing

\* The output handed out was computed from the request's own inputs: no static
\* buffer was rewritten between its copy, the replay and the copy of the output
\* (engine.py:492-549, graph.py:222-251), whatever failed requests left running.
OwnInputs == \A r \in Requests : Inferred(r) => result[r].inputs = r

\* "one generator draw per inference, keeping the RNG sequence identical to the
\* eager path" (engine.py:486-488): the n-th inference on the engine's own noise
\* uses the n-th draw, and one on given noise that noise, whatever came between.
SeedSequence ==
  \A r \in Requests : Inferred(r) =>
    result[r].noise = IF turn[r] = 0 THEN -r ELSE turn[r]

-----------------------------------------------------------------------------
(* Liveness *)

\* Every request returns: the streams never wait for each other in a circle.
EveryRequestReturns == pc # "idle" ~> pc = "idle"
=============================================================================
