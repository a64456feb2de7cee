------------------------------ MODULE RtcQueue ------------------------------
(***************************************************************************)
(* Real-time chunking on the client's side: the control loop takes one     *)
(* action a tick from an ActionQueue (policies/rtc/action_queue.py) while  *)
(* an inference thread produces the next chunk, guided by what is left of  *)
(* the last one (policies/rtc/modeling_rtc.py), and merges it.             *)
(*                                                                         *)
(* Each method of the queue holds its lock; between two calls the other    *)
(* thread may run.  The two loops are the client's, which the repository   *)
(* describes (the module's docstring) and does not hold: one inference at  *)
(* a time, the delay measured in ticks from the observation.               *)
(*                                                                         *)
(* An action is named by its chunk and the tick it was planned for.  The   *)
(* weights are numerators over a common denominator.                       *)
(***************************************************************************)
EXTENDS Integers, Sequences

CONSTANTS
  ChunkSize,   \* time steps of a chunk
  Horizons,    \* execution horizons a configuration or a request may ask for
  WindowSize,  \* maxlen of the latency tracker
  MaxTicks,    \* bound: ticks of the control loop
  MaxChunks,   \* bound: inferences
  MaxClears    \* bound: calls of clear

ASSUME RtcAssumption ==
  /\ ChunkSize \in Nat \ {0}
  /\ Horizons \subseteq Nat
  /\ WindowSize \in Nat \ {0}
  /\ MaxTicks \in Nat /\ MaxChunks \in Nat /\ MaxClears \in Nat

Schedules == {"ZEROS", "ONES", "LINEAR", "EXP"}

VARIABLES
  enabled,     \* cfg.enabled: chunks replace the queue, or else are appended
  schedule,    \* cfg.prefix_attention_schedule
  queue,       \* processed actions
  original,    \* unprocessed actions, for the guidance
  filled,      \* queue and original_queue are not None
  lastIndex,   \* last_index
  tick,        \* ticks of the control loop
  ran,         \* actions executed since the last clear, each with its tick
  clears,      \* calls of clear
  pc,          \* inference thread: "idle", "indexed", "held", "infer", "measured"
  index,       \* action_index_before_inference
  left,        \* prev_chunk_left_over
  guided,      \* left is not None and the queue is one of RTC
  seen,        \* tick of the observation
  delay,       \* real_delay
  chunks,      \* inferences begun; the current one is the last
  weights,     \* prefix weights of the last guided inference, [den, num]
  frozen,      \* its inference_delay
  horizon,     \* its execution_horizon
  window,      \* LatencyTracker._values
  maxLatency,  \* LatencyTracker.max_latency
  \* history, for the properties
  merged,      \* actions merged since the last clear
  slack,       \* chunk -> ticks between the measurement of its delay and its merge
  warned,      \* chunks whose merge logged a difference of the delays
  heldAt,      \* actions executed when the leftover was read
  disturbed    \* since the index was read the queue was cleared or ran empty

queueVars == <<queue, original, filled, lastIndex>>
loopVars  == <<tick, ran>>
inferVars == <<pc, index, left, guided, seen, delay, chunks, weights, frozen, horizon>>
trackVars == <<window, maxLatency>>
histVars  == <<merged, slack, warned, heldAt, disturbed>>
vars == <<enabled, schedule, queueVars, loopVars, clears, inferVars, trackVars, histVars>>

Least(a, b) == IF a < b THEN a ELSE b
Most(a, b)  == IF a > b THEN a ELSE b
From(s, n)  == SubSeq(s, n + 1, Len(s))

-----------------------------------------------------------------------------
(* Prefix weights.                                                         *)

Constant(n, w) == [i \in 1 .. n |-> w]

\* linspace(1, 0, n + 2)[1:-1], as numerators over n + 1.
LinWeights(n) == [i \in 1 .. n |-> n + 1 - i]

\* get_prefix_weights.  The exponential schedule keeps the ends and the order of the
\* linear one, and bends it down: squared here.
PrefixWeights(kind, start0, end, total) ==
  LET start == Least(start0, end)
      n     == Most(Least(end, total) - start, 0)
      shape(lin, den) ==
        [den |-> den,
         num |-> Constant(Least(start, total), den) \o lin \o Constant(Most(total - end, 0), 0)]
      step(k) == [den |-> 1, num |-> [i \in 1 .. total |-> IF i <= k THEN 1 ELSE 0]]
  IN  CASE kind = "ZEROS"  -> step(start)
        [] kind = "ONES"   -> step(end)
        [] kind = "LINEAR" -> shape(LinWeights(n), n + 1)
        [] OTHER -> shape([i \in 1 .. n |-> LinWeights(n)[i] * LinWeights(n)[i]],
                          (n + 1) * (n + 1))

\* Mutant: the horizon may exceed the leftover.
GuidanceUnclamped(kind, d, h) == PrefixWeights(kind, d, h, ChunkSize)

\* denoise_step: the horizon is clamped to the leftover, which is padded with zeros.
Guidance(kind, d, h) == PrefixWeights(kind, d, Least(h, Len(left)), ChunkSize)

-----------------------------------------------------------------------------
Init ==
  /\ enabled \in BOOLEAN
  /\ schedule \in Schedules
  /\ queue = << >> /\ original = << >> /\ filled = FALSE /\ lastIndex = 0
  /\ tick = 0 /\ ran = << >> /\ clears = 0
  /\ pc = "idle" /\ index = 0 /\ left = << >> /\ guided = FALSE
  /\ seen = 0 /\ delay = 0 /\ chunks = 0
  /\ weights = [den |-> 1, num |-> Constant(ChunkSize, 0)]
  /\ frozen = 0 /\ horizon = 0
  /\ window = << >> /\ maxLatency = 0
  /\ merged = << >>
  /\ slack = [n \in 1 .. MaxChunks |-> 0]
  /\ warned = {} /\ heldAt = 0 /\ disturbed = FALSE

-----------------------------------------------------------------------------
(* The control loop.                                                       *)

\* get, once a tick.
Get ==
  /\ tick < MaxTicks
  /\ tick' = tick + 1
  /\ IF lastIndex < Len(queue)
     THEN /\ lastIndex' = lastIndex + 1
          /\ ran' = Append(ran, [action |-> queue[lastIndex + 1], at |-> tick])
          /\ UNCHANGED disturbed
     ELSE /\ disturbed' = TRUE
          /\ UNCHANGED <<lastIndex, ran>>
  /\ UNCHANGED <<enabled, schedule, queue, original, filled, clears, inferVars, trackVars,
                 merged, slack, warned, heldAt>>

\* clear, at the end of an episode, whatever the inference thread is doing.
Clear ==
  /\ clears < MaxClears
  /\ clears' = clears + 1
  /\ queue' = << >> /\ original' = << >> /\ filled' = FALSE /\ lastIndex' = 0
  /\ ran' = << >> /\ merged' = << >> /\ heldAt' = 0
  /\ disturbed' = TRUE
  /\ UNCHANGED <<enabled, schedule, tick, inferVars, trackVars, slack, warned>>

-----------------------------------------------------------------------------
(* The inference thread.                                                   *)

\* get_action_index.
ReadIndex ==
  /\ pc = "idle" /\ chunks < MaxChunks
  /\ index' = lastIndex
  /\ disturbed' = FALSE
  /\ pc' = "indexed"
  /\ UNCHANGED <<enabled, schedule, queueVars, loopVars, clears, left, guided, seen, delay,
                 chunks, weights, frozen, horizon, trackVars, merged, slack, warned, heldAt>>

\* Mutant: executed actions included.
LeftWhole == original

LeftOver  == From(original, lastIndex)

\* get_left_over, in a lock of its own.
ReadLeftOver ==
  /\ pc = "indexed"
  /\ left' = LeftOver
  /\ guided' = (filled /\ enabled)
  /\ heldAt' = Len(ran)
  /\ pc' = "held"
  /\ UNCHANGED <<enabled, schedule, queueVars, loopVars, clears, index, seen, delay, chunks,
                 weights, frozen, horizon, trackVars, merged, slack, warned, disturbed>>

\* A quantile of the recent latencies, or the maximum.
Predictions == {maxLatency} \cup {window[i] : i \in 1 .. Len(window)}

\* The request is sent: the chunk is planned from the tick of its observation on.
Observe ==
  /\ pc = "held"
  /\ seen' = tick
  /\ chunks' = chunks + 1
  /\ IF guided
     THEN \E d \in Predictions, h \in Horizons :
            /\ frozen' = d /\ horizon' = h
            /\ weights' = Guidance(schedule, d, h)
     ELSE UNCHANGED <<frozen, horizon, weights>>
  /\ pc' = "infer"
  /\ UNCHANGED <<enabled, schedule, queueVars, loopVars, clears, index, left, guided, delay,
                 trackVars, histVars>>

\* LatencyTracker.add: the oldest sample leaves a full window, max_latency stays.
Record(latency) ==
  /\ window' = IF Len(window) < WindowSize THEN Append(window, latency)
               ELSE Append(Tail(window), latency)
  /\ maxLatency' = Most(maxLatency, latency)

\* The answer arrived: its delay is measured.
Measure ==
  /\ pc = "infer"
  /\ delay' = tick - seen
  /\ Record(tick - seen)
  /\ pc' = "measured"
  /\ UNCHANGED <<enabled, schedule, queueVars, loopVars, clears, index, left, guided, seen,
                 chunks, weights, frozen, horizon, histVars>>

Chunk == [i \in 1 .. ChunkSize |-> [chunk |-> chunks, for |-> seen + i - 1]]

\* Mutant: the chunk is taken from its start.
ReplaceWhole(actions) == queue' = actions /\ original' = actions /\ lastIndex' = 0

\* _replace_actions_queue: what the robot executed meanwhile is dropped.
Replace(actions) ==
  LET clamped == Least(delay, ChunkSize)
  IN  /\ queue' = From(actions, clamped)
      /\ original' = From(actions, clamped)
      /\ lastIndex' = 0

\* Mutant: the index outlives the actions it counted.
AppendKeepsIndex(actions) ==
  /\ queue' = From(queue \o actions, lastIndex)
  /\ original' = From(original \o actions, lastIndex)
  /\ UNCHANGED lastIndex

\* _append_actions_queue.
AppendChunk(actions) ==
  IF ~filled
  THEN queue' = actions /\ original' = actions /\ UNCHANGED lastIndex
  ELSE /\ queue' = From(queue \o actions, lastIndex)
       /\ original' = From(original \o actions, lastIndex)
       /\ lastIndex' = 0

\* Mutant: only a delay that was measured too long counts.
DelayTooLong == Most(0, lastIndex - index) < delay

\* _check_and_resolve_delays: a difference is logged, the measured delay is used.
DelaysDiffer == Most(0, lastIndex - index) # delay

\* merge.
Merge ==
  /\ pc = "measured"
  /\ warned' = IF DelaysDiffer THEN warned \cup {chunks} ELSE warned
  /\ IF enabled THEN Replace(Chunk) ELSE AppendChunk(Chunk)
  /\ filled' = TRUE
  /\ merged' = merged \o Chunk
  /\ slack' = [slack EXCEPT ![chunks] = tick - (seen + delay)]
  /\ pc' = "idle"
  /\ UNCHANGED <<enabled, schedule, loopVars, clears, index, left, guided, seen, delay, chunks,
                 weights, frozen, horizon, trackVars, heldAt, disturbed>>

Next ==
  \/ Get \/ Clear
  \/ ReadIndex \/ ReadLeftOver \/ Observe \/ Measure \/ Merge

Spec == Init /\ [][Next]_vars

-----------------------------------------------------------------------------
(* Safety *)

Action == [chunk : 1 .. MaxChunks, for : 0 .. MaxTicks + ChunkSize]
FlagsOK ==
  /\ enabled \in BOOLEAN /\ filled \in BOOLEAN /\ guided \in BOOLEAN /\ disturbed \in BOOLEAN
  /\ schedule \in Schedules

DataOK ==
  /\ queue \in Seq(Action) /\ original \in Seq(Action)
  /\ lastIndex \in 0 .. Len(queue)
  /\ tick \in 0 .. MaxTicks /\ clears \in 0 .. MaxClears
  /\ ran \in Seq([action : Action, at : 0 .. MaxTicks])
  /\ pc \in {"idle", "indexed", "held", "infer", "measured"}
  /\ index \in Nat /\ left \in Seq(Action)
  /\ seen \in 0 .. MaxTicks /\ delay \in 0 .. MaxTicks /\ chunks \in 0 .. MaxChunks
  /\ frozen \in 0 .. MaxTicks /\ horizon \in Horizons \cup {0}
  /\ window \in Seq(0 .. MaxTicks) /\ maxLatency \in 0 .. MaxTicks
  /\ merged \in Seq(Action) /\ slack \in [1 .. MaxChunks -> 0 .. MaxTicks]
  /\ warned \subseteq 1 .. MaxChunks /\ heldAt \in Nat

TypeOK == FlagsOK /\ DataOK

\* Without RTC chunks are appended "to maintain continuity" (action_queue.py:35):
\* whatever the order of gets, merges and clears, the actions executed since the last
\* clear followed by those still queued are the merged chunks, none lost, none twice.
AppendedOnce ==
  ~enabled => [i \in DOMAIN ran |-> ran[i].action] \o From(queue, lastIndex) = merged

\* With RTC an executed action was planned for an earlier tick only by as much as the
\* control loop took between the measurement of the delay and the merge, and never
\* for a later one (action_queue.py:128-142).
LateByTheRace ==
  enabled => \A i \in DOMAIN ran : ran[i].at - ran[i].action.for = slack[ran[i].action.chunk]

\* A merge that overlooked such a tick was at least reported, unless the queue was
\* cleared or ran empty meanwhile (action_queue.py:159-173).
RaceReported ==
  [][(enabled /\ pc = "measured" /\ pc' = "idle" /\ ~disturbed /\ slack'[chunks] > 0)
       => chunks \in warned']_vars

\* The guidance holds the new chunk to actions, never to the zeros a short leftover is
\* padded with: the weights cover the chunk, never rise, are one on the frozen
\* prefix and zero behind the horizon and the leftover (modeling_rtc.py:127-152, 194-243).
GuidedByActions ==
  (pc = "infer" /\ guided) =>
    LET last == Least(horizon, Len(left))
    IN  /\ Len(weights.num) = ChunkSize /\ Len(left) <= ChunkSize
        /\ \A i \in 1 .. ChunkSize :
             /\ i <= Least(frozen, last) => weights.num[i] = weights.den
             /\ i > last => weights.num[i] = 0
             /\ i < ChunkSize => weights.num[i + 1] <= weights.num[i]

\* What the robot executes while the chunk is inferred is the leftover the guidance
\* froze, in its order (action_queue.py:82-91).
FrozenIsWhatRan ==
  (guided /\ pc \in {"infer", "measured"} /\ ~disturbed) =>
    \A i \in 1 .. Len(ran) - heldAt : ran[heldAt + i].action = left[i]
=============================================================================
