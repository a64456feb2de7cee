# tybok in TLA+

tybok serves robot policies (smolvla, pi05, fastwam) to WebSocket clients.  A
*gateway* (Python, or the C++ one) terminates WebSocket connections and decodes
images; one *inference worker* process owns the GPU and runs the engine; the two
talk over a Unix socket with length-prefixed frames and a ring of shared memory
slots; a *supervisor* (`tybok serve`) starts and stops both.  This directory models
the parts of that system in which the order of steps matters, from the
supervisor's signals down to the CTAs of the fused kernels, checks them with TLC,
and proves the safety properties of eleven modules for every value of their constants.

    tlc -workers 2 -config MCWorkerIpc.cfg WorkerTransports   # any run of PROJECT.json
    tlapm WorkerIpcProofs.tla                                  # any *Proofs module

`PROJECT.json` names, for every definition, the source lines it stands for, for
every property a mutant of the code that breaks it, and every hazard of the code
with the properties that cover it.

## 1. Inventory

| Component | Source | State | Operations | What is hard |
|---|---|---|---|---|
| Worker client (Python gateway) | `gateway.py` 74-225 | one persistent socket, FIFO `asyncio.Lock`, ring counter and slots | `request`, `_roundtrip` (3 attempts), connect, close | requests interleave at every `await`; slots are taken before the lock; retries, cancellation in mid-frame, worker restarts |
| WebSocket handler (Python gateway) | `gateway.py` 372-485 | list of tasks per client, at most `--max-inflight` | read loop, `_handle_one`, reject, drain, cancel | bounded tasks, concurrent decodes, teardown with tasks in flight |
| Worker server | `worker.py` 318-420, 700-865 | listener, connections, a bounded queue and two threads per connection, engine lock, shutdown flag | accept, read, process, answer, shutdown | two threads per connection and the main thread; blocking `put`, `recv`, `accept` |
| Worker request handling | `worker.py` 60-317 | slots mapped, options of the request | `handle_frame` | reads memory another process may rewrite |
| C++ gateway | `gateway_cpp/src/main.cpp`, `worker.cpp`, `ws.cpp` | queue, condition variable, two-deep pipeline per connection; one mutex over the worker link | reader thread, processing loop, roundtrip | lost wakeups, lookahead, join on teardown |
| Wire protocol | `protocol.py` | none | frames, slot layout, tensor encoding | layout arithmetic |
| CUDA graph runner, smolvla engine | `graph.py`, `policies/smolvla/engine.py` | captures per shape, static buffers, copy and main stream, prefetched noise, action queue | precapture, capture, replay, eager fallback | asynchronous streams, state left by failed requests |
| pi05 engine | `policies/pi05/engine.py`, `models/flow_matching.py` | captures per (cameras, language bucket), flags of the shared model | precapture, capture, replay, guided eager requests | model state written by captures, read by eager requests |
| One inference on the device | `fastwam.py`, `mot.py`, both `flow_matching.py`, `vlm_with_expert.py`, `attention.py` | KV caches, latents, prompt cache, scratch | prefill, denoise steps, overlap on a side stream | two streams over memory recycled from request to request |
| fastwam engine | `policies/fastwam/engine.py`, `models/graph_runner.py` | captured graphs, tiers in effect | load, quantise, pack, resolve the tiers | degradations, direct loading |
| fastwam fused kernels | `policies/fastwam/kernels`, `models/fused_*.py` | buffers of a layer, caches, atomically updated maxima | phases in cooperative or split form, record and replay | a grid smaller than the work, missing clears and barriers |
| Triton kernels | `triton_*.py`, `fp8_linear.py` | buffers between launches | attention and GEMM pipelines | tile boundaries, masks, splits, scales |
| RTC action queue | `policies/rtc/action_queue.py`, `latency_tracker.py` | queue, its unprocessed twin, last index, latency window | get, merge, replace, append, clear | control loop against inference thread, stale index |
| RTC guidance | `policies/rtc/modeling_rtc.py` | none | prefix weights, guidance | boundaries of the weights |
| Supervisor and command line | `__main__.py` | two child processes, socket and shared-memory file | parse, forward options, start, wait, join, shut down | signals between any two steps, files left by a crash, every option listed four times |
| Registry, base classes | `registry.py`, `base.py` | none | lookup | - |
| Other models, helpers, kernel benchmarks | `wan_vae.py`, `layers.py`, `image_utils.py`, `json.cpp`, `sweep.py`, ... | weights | numerics, bytes | out of TLC's reach |

How they interact: a client's message becomes a task of the WebSocket handler; the
task decodes, writes its payload into a slot of the ring and queues at the lock of
the worker client; the holder of the lock sends a header naming the slot over the
persistent connection and reads one response.  In the worker, the reader thread of
that connection puts the frame into a bounded queue, the processing thread takes
it, reads the slot, runs the engine under the engine lock and answers.  The engine
replays a captured graph or runs eagerly, on two or three streams, and its layers
are the launches of the kernels.  Everything a client sees rests on four agreements:
an answer belongs to the request whose task receives it, the payload read belongs to
the request that names its slot, what the engine returns was computed from that
payload, and every message accepted is answered or its client disconnected.  With
RTC a fifth one joins on the client: the actions that run while a chunk is inferred
are those the chunk was guided by.

What makes each component correct:

* worker client: nobody gets another request's answer; the engine sees the payload
  of the request it answers; a retry repeats a request only for a failed attempt;
  the lock keeps the order of the ring; every request ends.
* WebSocket handler: exactly one answer per message, overtaking at most as far as the
  bound of tasks allows; a client that stays gets all of them; the handler of a client
  that left returns.
* worker server: one engine call at a time; each connection is a FIFO service that
  loses, repeats and reorders nothing; every frame read is settled; a shutdown ends
  the process.
* C++ gateway: the pipeline keeps every message once and in order; answers match
  although ids are not compared; the loop ends when its client leaves.
* engines: a replay computes what the eager path would have; a request is not
  affected by the shapes of earlier ones, by the stream that runs ahead, or by a
  request that failed with its operations in flight.
* kernels: an output cell is computed from exactly the cells the formula names,
  whatever the grid, the launch form and the order of the CTAs.
* RTC: no action is executed twice or skipped beyond the delay; the guidance holds a
  chunk to actions and never to padding.
* supervisor: what it starts it stops; what the operator asks for is in force.

## 2. Modules

`A -> B` reads "A extends or instantiates B".

| Module | Models | Run |
|---|---|---|
| `WorkerIpc` | `WorkerClient` of the Python gateway with the ring, the connection and a worker that may crash, for `--shm-ipc` and `--gpu-ipc` | `ring_claim`, through `WorkerTransports` |
| `WorkerStream` -> `WorkerIpc` | the same over the default transport: frames of megabytes, sends and reads cancelled halfway | through `WorkerTransports` |
| `WorkerTransports` -> `WorkerStream` | the worker client over the one transport or the other | `worker_ipc` |
| `WorkerIpcProofs` -> `WorkerTransports` | theorems about both | tlapm |
| `ConnService` | abstract: a connection is a FIFO service that may end | as the refinement target |
| `WorkerServer` -> `ConnService` | accept loop, reader and processing thread, engine lock, shutdown | `worker_server` |
| `WorkerServerProofs` -> `WorkerServer` | theorems | tlapm |
| `GatewayWs` | `handle_ws` and `_handle_one` | `gateway_ws` |
| `CppGateway` | reader thread, processing loop and worker mutex of the C++ gateway | `cpp_gateway` |
| `CppGatewayProofs` -> `CppGateway` | theorems | tlapm |
| `CommandLine` | the four lists of options in `__main__.py` | through `Serve` |
| `Serve` -> `CommandLine` | the supervisor, its children, signals and files | `serve` |
| `ServingProofs` -> `GatewayWs`, `Serve` | theorems | tlapm |
| `Pi05Engine` | captures, graph keys, language packing, guided and unguided requests of pi05 | `pi05_engine` |
| `SmolvlaEngine` | graph runner and smolvla engine on two CUDA streams | `smolvla_engine` |
| `SmolvlaEngineProofs` -> `SmolvlaEngine` | theorems | tlapm |
| `InferenceCore` | one inference of each backend, layer by layer on three streams | `inference_core` |
| `InferenceProofs` -> `Pi05Engine`, `InferenceCore` | theorems | tlapm |
| `KernelPhases` | the fused CUDA kernels of fastwam, phase by phase and CTA by CTA | `kernel_phases` |
| `KernelPhasesProofs` -> `KernelPhases` | theorems | tlapm |
| `KernelTiles` | tiles, masks, launches, online softmax | through `TiledKernels` |
| `AttentionKernels`, `GemmKernels` -> `KernelTiles` | the Triton kernels | through `TiledKernels` |
| `TiledKernels` -> both | their pipelines, run over every small shape | `tiled_kernels` |
| `RtcQueue` | action queue, latency tracker, prefix weights | `rtc_queue` |
| `RtcQueueProofs` -> `RtcQueue` | theorems | tlapm |

The two halves of the Python path meet at the connection: `WorkerIpc` treats the
worker's side of a connection as "take the oldest request, answer it", and
`WorkerServer` shows that the threads, the queue and the lock of the real worker
implement exactly that service (`ImplementsConnService`).  `GatewayWs` treats the
worker client as a FIFO lock whose holder eventually gets an answer or an error,
which is what `WorkerTransports` checks as `EveryRequestEnds` and `WorkerIpc` proves as
`ServedInTicketOrder`.  Over the default transport a cancel in mid-frame can take that
answer away from everybody (`WorkerStream`, section 6).
`WorkerServer`'s engine lock is what lets the engine modules treat requests as
sequential on the host.  `SmolvlaEngine` and `Pi05Engine` treat a request as one
operation of the main stream; `InferenceCore` opens that operation and shows that
its result is the request's own, also when the work is spread over two streams.
`InferenceCore` in turn treats a layer as one launch; `KernelPhases` and
`TiledKernels` open the launches.

### WorkerIpc

State: `counter` is `_shm_counter`; `region` is the shared memory, each slot named
by the request that wrote it; `waiters` is the lock (holder first); `sock` is
`_sock`, an index into the connections opened so far; `pending` and `replies` are
the two directions of each connection.  A task is one `_handle_one` coroutine.

Actions: `Request` is everything `request` does before its first `await` (take the
ticket, write the slot, queue at the lock); `Connect`, `Send`, `Recv` and
`AttemptFails` are the steps of one attempt of `_roundtrip`; `Cancel` is the
cancellation of the task by `handle_ws` at any of its awaits; `Execute` is the
worker's `handle_frame`; `BreakLink`, `Crash`, `Restart` are the environment.
A request is identified by its ticket (the code uses a uuid).  With the payload in the
ring a frame is a header of some hundred bytes, some thousand with the leftover of
`--rtc`: the first call of `sock_sendall` takes it whole, so that sending is one step.

### WorkerStream and WorkerTransports

Without `--shm-ipc` and `--gpu-ipc`, the default, the payload is in the frame, and
`sock_sendall` is suspended many times before the socket has taken some megabytes.  A send
is two steps, `SendPart` and `SendRest`, and `CancelSending` is a cancel between them:
nothing, a part or all of the frame has left, and the socket is kept.  `torn` says what the
worker's reader is in the middle of: the request that was cut off, or `Garbage`, a length
read from payload bytes, or `Oversize`, such a length above the limit, at which the reader
ends.  `Take` is what happens to the bytes of the next frame then: they are swallowed, or
they complete the frame in the middle and leave the reader anywhere.  `skewed` is the same
for the gateway's reader of replies: `CancelReading` gives a reply up halfway, and
`RecvSkewed` takes the rest for a prefix.  `ExecuteFrame` runs a frame with foreign bytes in
it, or answers it with an error that may carry the id of the frame that was cut.  The
contents of the bytes are not modelled: wherever they decide, every outcome is possible.
Nobody reads the ring here; connections, retries and faults are those of `WorkerIpc`.
`WorkerTransports` is the gateway as it was started: `transport` is chosen once, and the
steps are `WorkerIpc`'s or `WorkerStream`'s.

### WorkerServer and ConnService

State: one record of frames per connection, its queue of at most `QueueSize`, the
program counters of the main, reader and processing threads, the engine lock, the
shutdown flag.  The blocking calls are where the control is: `accept` returns only
when a peer connects, `put` only when the queue has room, and a `recv` under which
the other thread closed the socket goes on waiting for the peer, which does not see
the close before that `recv` returns (`PeerEof`).
`ConnService` is what a client may rely on: frames of a connection are answered in
order, each at most once, until the connection ends.

### GatewayWs

State: what each client sent, the tasks of its handler with their progress
(decoding, waiting at the lock, holding it), answers sent, the state of the
handler (reading, draining, cancelling, ended).  The FIFO lock is kept as `ahead`: for
each task the tasks in front of it, which leave only by finishing or by being
cancelled; it is served when that set is empty.  Decoding ends in any order.  The
worker's part is one step of the lock holder with an answer or an error.

### CppGateway

State: messages queued between the reader thread and the processing loop (at most
`Capacity`), `cur` and `nxt` of the loop, the mutex over the worker link with the
frames on it.  A message of a client has a kind: text; binary, which the reader thread
skips (`DropMessage`); or one that `read_message` refuses (too long, out of the sequence of
fragments, of an unknown opcode), at which the reading ends with the client still there
(`ReadEnds`).  Messages are numbered among the text messages that were read.  Sleeping on
the condition variable is explicit: a thread that sleeps
leaves only when notified or by a spurious wakeup, which may happen but is never
due.

### CommandLine and Serve

An option is left out, given, or given a value Python takes for false (`0`, `""`):
several of the lists test `if args.x`, so the difference decides what is passed on.
`CommandLine` is pure: which options each subcommand accepts, what `serve` puts on the
two command lines it builds (`_cmd_serve`), what the `worker` and `gateway` subcommands
pass to their modules, and what those read.  `Serve` runs it: `SpawnWorker` and
`ListWorker` are `Popen` and the `append` to `procs` (a signal fits between them),
`LookForSocket` and `PollWorker` are one turn of the readiness loop, `Join` the waits,
`Terminate`, `Kill` and `CleanUp` are `_shutdown`: both children are told to end, each is
waited for ten seconds, and whichever is still there is killed.  That may be the worker as
well as the gateway: a signal leaves the one `stopping`, in a call into the driver or
the teardown of its GPU context, and the other `draining` its connections, and neither owes
an end (`WorkerExits`, `GatewayDrained`).  The worker's life is what the supervisor sees
of it: it maps its shared memory, removes and binds the socket file,
listens, dies at any moment and leaves its files; `Sigterm` and `Interrupt` arrive
between any two steps, the second at all processes.

### Pi05Engine

State: the graphs captured so far with the constants each reads and keeps alive, and
the four facts of the model object that captures write and eager requests read:
`use_static`, the constants, the key its prefix mask was sized for, and (in
`captures`) which capture allocated them.  A key `[cams, lang]` also stands for the
length of a prefix, `256 * cams + lang` with `lang < 256`: equal lengths are equal
keys.  Captures happen at startup and at the first request of a shape, and may fail
before or after they replaced the constants; nothing is undone then.  The options
`--graph`, `--pad-free`, `--rtc` and `--graph-cameras` are chosen in `Init`.

### SmolvlaEngine

State: two streams as FIFO queues of operations the host has issued, how far each
has executed, the static buffers of each graph, the staged noise, and on the host
the action queue and the draws issued.  `Begin`, `Pop`, `LazyCapture`, `RunGraph`,
`RunEager` and `Return` are the host's steps; `Execute` runs the oldest operation of
a stream; an operation `wait` is enabled when the other stream has reached a
position.  A request may fail with its operations in flight, so the next one is
issued on top of them: that is what the waits are for.

### InferenceCore

A device buffer is a cell that holds `<<request, step, layer>>`, the computation it
belongs to, or `Bad` when that computation read a cell with anything but its own
inputs; so one invariant on what is returned (`AnswersOwn`) covers every buffer on the
way.  Memory is recycled: a cell has one place for all requests.  `Calls(r)` is the set
of host calls of request `r` (launches, waits, events, the growing of a cache), for each
backend, with and without overlap, replayed or eager.  A call carries its place
`<<request, stage, layer, call>>`, and the places are the order in which the source makes
the calls; so what is called, on which stream it goes and what it reads can be said, and
reasoned about, one call at a time.  `Issue` makes the next call, `Run` executes the
oldest operation of a stream, `Fail` is an exception between any two host calls, with
what was issued still in flight, `Answer` is the synchronising copy to the host.
`CaptureMayFail` is whether smolvla may lose its graphs at startup.  It is FALSE in the
run: with TRUE, `AnswersOwn` is violated, which is a finding (section 6);
that this is the only way is proved (`SizedAnswersOwn`).

### KernelPhases

`Kernel` is the phase table: per phase how many pieces of work there are, whether a CTA
claims one piece by its index or strides over them, what each piece reads and writes. A
buffer is a function from pieces to the number of the call that made them from good
inputs; anything else is `Garbage`.  `Share` says which pieces CTAs make in a phase,
`Fed` whether what a piece is computed from is good, `After` what the piece is when they
have done their share, `Effect` the whole memory then.  `ResolveSplit` is the choice of
the form at startup; with `--require-fused` a family that would be degraded raises, and
there is no engine.  `Launch` starts the next kernel
in cooperative or split form, `Work(b)` is the share of one CTA in one phase, enabled when
the barrier (or the stream) allows it; `Finish` ends a kernel.  The runners' bindings
(`TextLayer`, `ActionLayer`, `VideoLayer`) decide which roles share memory. `Snapshot` is
the recorder of `phase_check.py`, and `Effect` also its replay.

### KernelTiles, AttentionKernels, GemmKernels, TiledKernels

A number is the bag of terms it sums, so a lane visited twice, left out or masked
wrongly is a different number.  Each kernel is an operator from the sizes of a call and
the memory of earlier launches to the set of its stores, written with the loops, grids
and masks of the source; `Flash` is the online softmax over a sequence of tiles, with
NaN when a row has seen no key.  A state machine runs the launches of each host
function in order on every shape it takes (`Takes` is its early return) and then a
second inference over the same memory, whose leftovers a mask must exclude.  The
reference definitions are in the properties: `Allowed` is the set of keys a row may
attend to, `SumsExact` the terms of each product.

### RtcQueue

Each method of the queue is one action, as its lock makes it; what is between them is
not.  `Get` and `Clear` are the control loop, `ReadIndex`, `ReadLeftOver`, `Observe`,
`Measure` and `Merge` the inference thread: index and leftover are read under two locks,
and the delay is measured before the lock of the merge is taken.  The two loops are
those of the client, which the docstrings describe and the repository does not hold.
`ran`, `merged`, `slack`, `heldAt` and `disturbed` are history.  `PrefixWeights` is
`get_prefix_weights` with numerators over a common denominator; the exponential
schedule is represented by a square, which has the same ends and the same order.

## 3. Runs

Bounds are the CONSTANTS of each cfg.

| Run | Bounds | Shows |
|---|---|---|
| `worker_ipc` | both transports, 2 tasks, 2 slots, 3 requests, 3 attempts, 4 connections, at most 2 faults, 2 cancellations and 3 of both | `AnswerOwn`, `PayloadsKept`, `ExecBound`, `ServedInTicketOrder`, `EveryRequestEnds` |
| `ring_claim` | 3 tasks, 2 slots | violated: a slot is rewritten while its request waits for the lock |
| `worker_server` | 2 connections, queue of 1, 3 frames of kind infer, shutdown, oversize | `EngineExclusive`, `NoFrameLost`, `EveryFrameSettled`, `ShutdownCompletes`, refinement of `ConnService` |
| `gateway_ws` | 2 clients, 2 in flight, 4 messages each, 5 together | `OneAnswerEach`, `AnswerLead`, `EveryMessageSettled` |
| `cpp_gateway` | 2 clients, queue of 1, 3 messages of 3 kinds | `PipelineInOrder`, `AnswersMatch`, `ServedUnlessFull` |
| `serve` | every subcommand and set of options that matters, 2 signals, 1 fault | `OptionsArrive`, `CleanStop`, `Deploys`, `StopEnds` |
| `pi05_engine` | 2 cameras and 1 placeholder slot, 5 language tokens on a grid of 2, 5 captures | `ConstantsAlive`, `ShapesBounded`, `PackedAlike` |
| `smolvla_engine` | 2 camera counts, 4 requests, 2 faults | `OwnInputs`, `SeedSequence`, `EveryRequestReturns` |
| `inference_core` | 3 backends, 2 layers, 2 steps, 2 prompts, 2 requests, 1 failure | `AnswersOwn`, `PromptOwn`, `ScratchExclusive` |
| `kernel_phases` | 3 families, 2 layers, grids of 2 and 4 CTAs, 2 or 3 pieces per phase | `OutputComplete`, `CachesKept`, `ReplayAgrees`, `LaunchesAccepted` |
| `tiled_kernels` | lanes of 16 rows or 32 columns; up to 5 rows, 9 keys, 5 columns of them | `AttendsExactly`, `GemmsExact` |
| `rtc_queue` | chunks of 3, 5 ticks, 3 inferences, 1 clear, horizons 1 and 4 | `AppendedOnce`, `LateByTheRace`, `RaceReported`, `FrozenIsWhatRan`, `GuidedByActions` |

Why the bounds are enough.  `worker_ipc`: the ring wraps (3 requests, 2 slots), a request
can use up all its attempts, a fault can hit the first and the second attempt, the last
connection is opened after both, and a cancelled task can leave an answer behind for two
later ones.  Two tasks suffice to contend for the lock; what needs three (rewriting a slot
in a FIFO ring of two) is `ring_claim`, and `PayloadsKept` is proved for every number.
With frames, two requests can be cut off, in sends, in replies or one in each, and a third
one meets what they left; a fault is the one thing besides a refused length that mends the
framing.
`worker_server`: a queue of one is full with one frame queued and one executing, so a
third one blocks the reader; a second connection is needed for the engine lock and to wake
the accept loop. `gateway_ws`: the third message of a client waits for one of two tasks,
and a second client competes for the lock; five messages are one more than all tasks
together.  `cpp_gateway`: one message in `cur`, one in the queue and one for the blocked
reader; a binary or a refused message comes before, between or behind text ones.  `serve`: Ctrl-C during the shutdown that a first signal began, and a crash
before, between or after them; options are taken one family at a time, since no list lets
one option depend on another of a different family.

`pi05_engine`: the language lengths 2, 4 and the capped 5, frames on and off the
grid, three keys more than startup captures, and a failure at any of them; the model
remembers only the last capture, so further ones add nothing.  `smolvla_engine`:
two requests in flight on the streams after a failure, and a given noise between two
drawn ones.  `inference_core`: the side stream runs one layer behind the main stream and
then one step, so two layers and two steps have a first, a next and a last one of each
(and for smolvla a self- and a cross-attention layer); two requests, the first of which
may fail, have everything a request can find in flight.  `kernel_phases`: with 2 or 3
pieces a grid of 2 makes CTAs stride and a grid of 4 leaves some idle; three kernels a
layer and two layers reuse every buffer.  `tiled_kernels`: the blocks are 2 to 4 lanes
wide, so the sizes run from below one tile to beyond two, on and off the boundary.
`rtc_queue`: the chunk outlives one inference and not two, the horizons are below and
above every leftover, the delay is 0 to longer than the chunk; the properties of this
run are proved for every value.

`CHECK_DEADLOCK FALSE` in `worker_ipc`, `ring_claim`, `worker_server`, `gateway_ws`,
`cpp_gateway`, `smolvla_engine`, `rtc_queue` and `serve`: messages, requests and ticks are
used up, a client may leave, the worker may be shut down, the deployment ends.  That
nothing stops too early is what the liveness properties of the same runs say.  The
others check deadlock: pi05's engine always accepts a request, and `inference_core`,
`kernel_phases` and `tiled_kernels` stutter only in a state that is complete, so that a
stream waiting for a position that never comes, a barrier nobody reaches or a host
function that launches nothing would be reported.

`WorkerIpc` is not composed with `WorkerServer` in one run, and the state machines are
not symmetric in the connections of a liveness run, so no symmetry is used.

## 4. Fairness

* A thread or coroutine that can take a step does so eventually: weak fairness on
  the steps of each task, thread and loop.  The operating system and the event
  loop schedule them; `asyncio.Lock` is FIFO, so no strong fairness is needed there.
  `threading.Lock` and `std::mutex` promise no order: the models grant the lock to
  any contender and still assume weak fairness only, which is enough because a
  bounded number of messages bounds how often anyone can be overtaken.
* The engine returns, and a stream executes what was issued: `Execute` of `WorkerIpc`
  and of `SmolvlaEngine`.
* `Serve`: the supervisor runs, a worker that does not die goes on loading, the gateway
  asks every second (`Supervisor`, `WorkerSteps`, `Describe`).  A gateway that drains, a
  worker that was told to end, a signal, a timeout and a death owe nothing; `StopEnds` holds
  without them because `_shutdown` kills whatever does not end in time.
* Peers owe nothing.  No fairness on clients sending, closing or reading more, on
  `Cancel`, on faults, on `Restart`: a worker that stays down refuses connections,
  and three refusals end a request.
* `WorkerStream`: the same, of the steps of a roundtrip and of the worker's threads.  Fairness
  gives nothing to a reader in the middle of a frame: it goes on when bytes come.
* A spurious wakeup of a condition variable may happen and is never due.
* `Pi05Engine`, `InferenceCore`, `KernelPhases`, `TiledKernels` and `RtcQueue` have safety
  properties only and state no fairness.

## 5. Proofs

`WorkerIpcProofs` proves, for any set of tasks, any ring and any bounds:

* `TypeCorrect`: `Spec => []TypeOK`.
* `AnswersOwn`: `Spec => []AnswerOwn`.
* `PayloadsOwn`: `Spec => []PayloadOwn`, the ring is safe when no task is cancelled
  and there are no more tasks than slots.
* `ServedInOrder`: `Spec => ServedInTicketOrder`.
* `RunsArePaid`: `Spec => []ExecBound`.
* `PayloadsAreKept`: `IpcSpec => []PayloadsKept`, of `WorkerTransports`: `PayloadOwn` over a
  ring, and with the payload in the frame the same without a precondition.

The others are of `WorkerIpc` alone, which is what `WorkerTransports` does over the ring.

The argument.  `LockInv` is inductive alone: besides types it says that a task is queued
at the lock exactly when it is not idle, that it is queued once, and that only the holder
may be receiving.  `RingOrderInv` adds, over `LockInv`: tickets increase along the lock's
queue and are below `counter` (`OrderInv`); the slots hold the payloads of the `Slots`
youngest requests (`RingInv`); what is on a connection belongs to requests that were
issued, and a response carries the payload of its request unless `Slots` requests were
issued after it (`PendingInv`, `ReplyInv`).  `TicketInv` says that, without cancellation,
the lock holds the youngest requests, all of them, oldest first.  So the holder's request
is exactly as many requests old as there are tasks at the lock, a sequence without
repetition, hence at most `Cardinality(Tasks)` (`DistinctLen`, `HolderYoung`): with no
more tasks than slots its response is intact.  This is where the lock must be FIFO, and
why one cancellation is enough to lose the bound: the abandoned request leaves the lock
and its ticket stays used.  `ExecBound` needs a count instead (`PaidInv`): the runs of a
request so far and its copies still on some connection are at most the attempts its
roundtrip has begun (`Paid`); every task has a request of its own, which was issued
(`OwnRequest`), and one whose ticket is still to come has not run (`Fresh`).  A frame that
is dropped, taken or sent moves one unit between the terms (`DroppedFrames`, `TakenFrame`,
`SentFrame`).  In `WorkerStream` the ring falls away, and the hypotheses with it: a
frame that arrived whole is answered with its own data, and one that was cut off, like every
reply that comes of it, has the id of a request that is over (`Over`, `Sound`), because only a
cancelled task leaves one; the id check never lets it through.  The proofs assume `TasksAssumption` and `BoundsAssumption` only, which TLC
evaluates on every run of `WorkerIpc`.

`WorkerServerProofs` proves, for any connections, kinds of frames, queue size and number
of frames: `EngineIsExclusive` (`EngineExclusive`), `FramesAreKept` (`NoFrameLost`) and
`ServesInOrder` (`Spec => ImplementsConnService`, the safety half of the refinement;
`ConnService` has no fairness).  `TypeOK` is inductive alone.  `LockInv` says that whoever
is inside the engine holds the lock, `BacklogInv` that a connection is accepted once.
`ConnInv(c)` is local to a connection: `Control` says which thread holds what, and `Order`
says that the numbers of the frames go on without a gap from the answers through the
processing thread, the queue, the reader and the socket.  A step of one connection leaves
`ConnInv` of the others (`Untouched`); the refinement maps `SendFrame` to `Send`
(`SendIsSend`), `SendReply` to `Answer`, to `AnswerAndEnd` or, when the peer is gone, to
`End` (`SendReplyRefines`), and every other step to `End`, which may end no connection at
all (`QuietIsEnd`).

`ServingProofs` proves, of `GatewayWs` and for any clients and bounds, `GatewayAnswersOnce`
(`OneAnswerEach`) and `GatewayBoundsOvertaking` (`AnswerLead`).  Both are counts:
`ClientInv(c)` says that the messages read are the answers sent and the tasks that are not
over, that no message is in both, and that the tasks not over are in the handler's list,
whose length `--max-inflight` bounds.  An answer that overtook more messages than that would
leave more unfinished tasks than the list holds.

Of `Serve` it proves `OptionsAllArrive` (`OptionsArrive`) and `ShutdownIsClean`
(`CleanStop`), for any number of signals and faults.  The model, like its run, takes
options two at a time; `EveryCommandLine`, from which the first theorem follows, holds of
all of them at once.  `InForce` says in closed form what the worker
runs with, as a function of the command line; it is the same whether the options went
through one list or through both, because the first list does not change it
(`WorkerRunsWith`), and an option the operator gave is given in it (`AskedInForce`).
`CleanStop` is inductive by itself: only `CleanUp` ends a shutdown cleanly,
which waits until nothing in the list runs and removes the files; no step starts a process
or makes a file after it.

`CppGatewayProofs` proves, for any clients, queue capacity and number of messages,
`GatewayAnswersMatch` (`AnswersMatch`) and `GatewayPipelineInOrder` (`PipelineInOrder`).
`WireInv` says that the worker connection carries at most one frame, that of the loop
which has the mutex; so the response read is the own one, although no id is compared.
`LoopInv(c)` keeps that fact in hand until it is sent (`Own`), and its `Order` is the
chain of numbers from the answers through `cur`, `nxt` and the queue to the reader.

`InferenceProofs` proves all the properties of the `pi05_engine` run, for any number
of cameras, placeholder slots, language tokens, any bucket and any number of
captures, from `Pi05Assumption`: `Pi05TypeCorrect`, `ReplaysSafe`
(`ConstantsAlive`), `ShapesOnGrid` (`ShapesBounded`), `PathsAgree` (`PackedAlike`).
The inductive invariant `Pi05Inv` adds that an entry keeps the constants of its own
graph (`KeepInv`), that startup captures full lengths only (`GridInv`), that without
`--pad-free` there is one key and the model's mask has its length (`FullInv`), and
that an engine without graphs has a model out of static mode (`EagerInv`).
`FullInv` and `EagerInv` are the two reasons why an eager request meets a mask of its
own length; a guided request of `--pad-free` with graphs has neither, and fails.
`Packed` bounds the packing rule: `q * LangBucket` with `q <= live`.

It also proves all the properties of the `inference_core` run, for any number of layers,
denoise steps, prompts, requests and failures, from `CoreAssumption`: `SizedAnswersOwn` and
`CoreAnswersOwn` (`AnswersOwn`), `CorePromptOwn` (`PromptOwn`) and `CoreScratchExclusive`
(`ScratchExclusive`).  `SizedAnswersOwn` leaves out one configuration, smolvla overlapping
on caches without room for the suffix, where `AnswersOwn` is false (section 6);
`CoreAnswersOwn` says the same with `CaptureMayFail`.  The argument has three parts.

* Static, about `Calls(r)`.  `CallKinds` is the catalogue of all calls and `Made` and
  `ActionsMade` say that each is made.  `Ordered(x, y)` says that the waits of the program
  make `y` run behind `x`, also when `x` is of an earlier request: they are on one stream, or
  a fork, a join, an event or the wait for the copies is between them (`BehindFork`,
  `BehindJoin`, `BehindEvent`, `BehindCopy`).  `ReadsFed`: what a launch reads was written by
  an earlier launch of its request that it is ordered behind (`Fed`), and whoever of the
  request writes the cell next is ordered behind the launch (`Intact`).  `WritesOrdered`: two
  launches that write the same cell are ordered, whatever requests they belong to.
* Dynamic, the inductive `CoreInv`.  `EntryInv` and `SortedInv`: a stream holds operations of
  the requests so far, in the host's order.  `EventInv`: an event stands where the current
  request recorded it.  `CompleteInv`: a call that was made is still on its stream or has
  run.  `WaitInv`: when a wait has run, so has what it waits for.  From these, `OrderedRan`:
  when `y` is at the head of its stream, every `x` ordered before it has run.
* Memory.  `MemInv`: what an operation of the current request wrote is there until a later
  operation of the request overwrites it; `GrownInv` says it of the cache that smolvla
  replaces.  `ReadsFound` puts the parts together: an operation of the current request reads
  what it should.  Those of requests that failed may read anything; what they leave is
  overwritten before the current request reads it, because of the order of the writers.
  `LatentsLast` is the last step: when main has run out, the latents are the last ones.

For the scratch two operations at the heads of two streams would each have to be ordered
before the other (`OneAtScratch`); smolvla has no operation that touches it
(`NoScratchInv`), so this theorem needs no hypothesis.  `MemoInv` is all that the prompt
cache needs.

`SmolvlaEngineProofs` proves, for any camera counts, chunk length and number of requests
and faults, `ChunksAreOwn` (`OwnInputs`) and `SeedsInSequence` (`SeedSequence`), from
`SmolvlaAssumption`.  Requests that failed leave any number of operations in the streams,
so the invariant counts from the end: the operations of the request that waits are the
last ones of both streams.  `MainInv` says that only the last operation of the main
stream hands out a result.  `CopyInv` says what the copy stream has still to do for the
request (wait for its batch, copy its inputs, give it its noise) and that nothing behind
these operations writes the same buffers; `CloneInv` says the same of the main stream,
whose `wait` names the position of the copy stream behind those copies.  `StagedAt` says
which draw is in the staging buffer when the copy stream reaches an operation, and
`DrawInv` that at most one draw is ahead of the inferences.  This is where each of the
two waits is needed: without the first the inputs would be copied before the batch is
there, without the second the replay could run on the buffers of an older request.

`RtcQueueProofs` proves all the properties of the `rtc_queue` run, for any chunk size,
set of horizons and window and any number of ticks, inferences and clears, from
`RtcAssumption`: `RtcTypeCorrect`, `AppendsOnce` (`AppendedOnce`), `PlannedLate`
(`LateByTheRace`), `RacesReported` (`RaceReported`), `FrozenRan` (`FrozenIsWhatRan`),
`GuidedWithin` (`GuidedByActions`).  `BaseInv` is inductive alone: types, the order of the
clock's readings, and that the two queues are equal and empty until the first merge.
Over it each property has the invariant that is missing from it:

* `LateInv`: an action still queued, `j` places behind the index, is planned for `j`
  ticks from now less the slack of its chunk, because the control loop takes one a tick;
  the chunk that is being inferred has no action anywhere yet, so its slack may change.
* `TickInv`: between the reading of the index and the merge the index moves as far as
  the clock, unless the queue was cleared or ran empty; hence a delay measured too early
  differs from the difference of the indices.
* `HeldInv`: what was executed since the leftover was read is a prefix of the leftover.
* `AppendInv`: `merged` is what was executed and what is queued, index by index.
* `GuideInv`: with RTC the queue never exceeds a chunk, so neither does a leftover, and
  `PrefixFalls` gives the shape of the weights of every schedule.

`KernelPhasesProofs` proves all the properties of the `kernel_phases` run, for any number of
layers, rows, heads, tiles and slabs, any capacities and grids and any order in which the
CTAs work, from `KernelAssumption`: `OutputIsComplete` (`OutputComplete`), `CachesAreKept`
(`CachesKept`), `ReplaysAgree` (`ReplayAgrees`) and `LaunchesAreAccepted`
(`LaunchesAccepted`).  `OutputIsComplete` has a hypothesis for the text family only,
`TextGrids`: a grid has a CTA for each head.  Its launcher does not ask for that many, and
without it the property fails (section 6).  The argument goes from the tables to the run:

* `PhasesOk` is all that is used of a table: a phase reads what an earlier one made, a role
  is made in one phase, what is accumulated was cleared in an earlier one.  It is proved
  for each of the eight tables.  `SamePlace` says which roles of two calls share
  memory, from the runners' bindings.
* `Stage` and `Piece` say what every piece of memory holds in a phase when a set of CTAs has
  done its share.  A further share keeps it (`ShareDone`), so do the barrier (`NextPhase`),
  the end of a call (`CallEnds`) and the bindings of the next one (`NextCall`).
* `Running` ties this to the steps: CTAs are at most one phase apart, the ones ahead wait at
  the barrier.  `CacheInv` keeps the caches of the layers that are over, because a call
  writes the caches of its own layer only (`CacheOfOneCall`).
* For the replay, what a CTA reads in a phase no other CTA writes in it (`SameReads`);
  hence the effect of a set of CTAs grows share by share (`EffectGrows`), and memory
  `Follows` the snapshot as the recorder of `phase_check.py` says, in any order.
* `FormInv`: the cooperative form is chosen only when every kernel of the family is
  available in it.

Model-checked only:

* all liveness (out of the prover's reach), and with it the fairness of section 4;
* `AttentionKernels`, `GemmKernels` and `TiledKernels` (`AttendsExactly`, `GemmsExact`): a
  kernel folds over its tiles, and what a fold computes for every number of tiles needs an
  induction over data, whose library rules take an operator as a parameter that the
  installed provers cannot instantiate.  The kernels are run on every small shape instead.

The type invariants of the modules without a proof are definitions for the reader and
checked by no run; the properties of those runs would fail on an untyped state.

## 6. Where the code and its documents disagree

Each is a finding of `PROJECT.json`.  One has a run of its own:

1. `worker.py:65-66` says of the ring "the worker is bounded to ~3 in-flight frames, so a
   slot written for request N is never read again by the time N+8 is written".  The slot is
   written before the lock is waited for: three clients at the default `--max-inflight 4`
   have 12 requests in flight over 8 slots, most of them not yet frames of the worker
   (`ring_claim`).

Others are claims stated in the modules, which TLC refutes when they are put into a
cfg as its one property:

| Claim | How to see it | What the code does |
|---|---|---|
| `WorkerIpc.FailedRoundtripCloses` | `MCWorkerIpc.cfg` | after an id mismatch the socket stays open, one response behind |
| `GatewayWs.RepliesInMessageOrder` | 1 client, 2 messages | answers leave out of message order |
| `CppGateway.EveryMessageAnswered` | 1 client, `Kinds = {"text"}`, queue of 1, 3 messages | the reader sleeps on the full queue ("backpressure on the sender") and no pop wakes it: the connection is dead |
| `WorkerIpc.Termination` | `MCWorkerIpc.cfg` | a send cancelled halfway leaves half a frame on the kept socket: the next request is swallowed, and waits for ever with the lock |
| `CppGateway.LookaheadInHand` | 1 client, queue of 2, 4 messages | the lookahead is never refilled once it was empty |
| `Pi05Engine.SamePrefix` | `MCPi05Engine.cfg` | with `--graph --pad-free --rtc` guided requests fail once a shape other than theirs was captured last |
| `InferenceCore.AnswersOwn` | `CaptureMayFail = TRUE`, smolvla, no failure | no graph could be captured: the overlapped eager path outgrows its cache on the other stream |
| `KernelPhases.OutputComplete` | family text, 1 layer, `Capacities = {1, 2}`, `SmallestGrid = 1` | a grid of fewer CTAs than heads leaves heads uncomputed |
| `Serve.EveryOptionArrives` | `MCServe.cfg` | `--max-inflight` never reaches the gateway; `validate` ignores `--cu-fused-vdit` |
| `Serve.SocketMeansReady` | `MCServe.cfg` | a socket file left by a crash counts as a worker that is ready |

The rest are read off the code while modelling it: the fallback after a failed capture,
fully masked rows of the Triton attention, expert kernels with one row tile, messages of
fastwam's tier checks, binary messages that the C++ gateway drops unanswered and the Python
gateway answers with an error, `phase_check.py`, the RTC block of the protocol, the latency
window, `--worker-host`.

## 7. Not modelled, and the plan

Not modelled, and why:

* numerics of models, kernels and guidance: values and rounding are out of TLC's reach;
  the models say which inputs a number is computed from, not what it is.
* loading, quantising and packing of fastwam's weights and the degradation of its tiers:
  a long decision over files and devices without concurrency; the one decision that can
  fail in the middle of a forward pass is `LaunchesAccepted`.
* the C++ gateway below the message: pongs written on the descriptor the processing loop
  writes to, the double close after a failed handshake, the accept loop, the decode pool.
* which bytes of a payload a reader that lost the framing takes for a length: in
  `WorkerStream` any outcome is possible, none is likelier than another.
* slot layout and tensor encoding of `protocol.py`; image, JSON and hash helpers: pure
  functions on bytes, covered by unit tests.
* registry and base classes (no state), `sweep.py` and the other kernel benchmarks (no
  part of a deployment), logging, profiling.

Left of the plan, in this order:

1. `SubFrames`: pongs and answers of the C++ gateway on one descriptor, and the life of
   a descriptor from `accept` to the last `close`.
2. The tiers of fastwam as a pure decision, against the table of its README.
