--------------------------- MODULE RtcQueueProofs ---------------------------
(***************************************************************************)
(* What RtcQueue promises for every chunk size, window and set of horizons *)
(* and any number of ticks, inferences and clears.  BaseInv carries the    *)
(* types, the order of the clock's readings and that the two queues are    *)
(* cut in step; each property then has an invariant of its own over it:    *)
(* LateInv, TickInv, HeldInv, AppendInv, GuideInv.                         *)
(***************************************************************************)
EXTENDS RtcQueue, SequenceTheorems, TLAPS

-----------------------------------------------------------------------------
(* Sequences.                                                              *)

\* What is left of a sequence after its first n elements.
LEMMA FromProperties ==
  ASSUME NEW S, NEW s \in Seq(S), NEW n \in 0 .. Len(s)
  PROVE  /\ From(s, n) \in Seq(S)
         /\ Len(From(s, n)) = Len(s) - n
         /\ \A i \in 1 .. Len(s) - n : From(s, n)[i] = s[n + i]
<1>1. Len(s) \in Nat /\ \A i \in n + 1 .. Len(s) : s[i] \in S
  BY ElementOfSeq, LenProperties
<1>2. /\ From(s, n) \in Seq(S)
      /\ Len(From(s, n)) = IF n + 1 <= Len(s) THEN Len(s) - (n + 1) + 1 ELSE 0
      /\ \A i \in 1 .. Len(s) - (n + 1) + 1 : From(s, n)[i] = s[(n + 1) + i - 1]
  BY <1>1, SubSeqProperties DEF From
<1> QED BY <1>1, <1>2

\* A function on an initial segment of the naturals is a sequence.
LEMMA FunctionSeq ==
  ASSUME NEW S, NEW n \in Nat, NEW f \in [1 .. n -> S]
  PROVE  f \in Seq(S) /\ Len(f) = n
OBVIOUS

-----------------------------------------------------------------------------
(* Types and the clock.                                                    *)

ClockInv ==
  /\ seen <= tick
  /\ pc = "measured" => delay <= tick - seen
  /\ pc \in {"indexed", "held"} => chunks < MaxChunks
  /\ pc \in {"infer", "measured"} => chunks >= 1

Base == DataOK /\ ClockInv

\* The chunk that is merged: one action per time step from the observation on.
LEMMA ChunkProperties ==
  ASSUME Base, pc = "measured"
  PROVE  /\ Chunk \in Seq(Action)
         /\ Len(Chunk) = ChunkSize
         /\ \A i \in 1 .. ChunkSize : Chunk[i] = [chunk |-> chunks, for |-> seen + i - 1]
<1>1. ChunkSize \in Nat /\ seen \in 0 .. MaxTicks /\ chunks \in 1 .. MaxChunks /\ MaxTicks \in Nat
  BY RtcAssumption DEF Base, DataOK, ClockInv
<1>2. \A i \in 1 .. ChunkSize : [chunk |-> chunks, for |-> seen + i - 1] \in Action
  BY <1>1 DEF Action
<1>3. Chunk \in [1 .. ChunkSize -> Action]
  BY <1>2 DEF Chunk
<1> QED BY <1>1, <1>3 DEF Chunk

LEMMA BaseInit == Init => Base
<1> SUFFICES ASSUME Init PROVE Base
  OBVIOUS
<1> USE RtcAssumption DEF Init
<1>1. /\ queue \in Seq(Action) /\ original \in Seq(Action) /\ left \in Seq(Action)
      /\ merged \in Seq(Action) /\ ran \in Seq([action : Action, at : 0 .. MaxTicks])
      /\ window \in Seq(0 .. MaxTicks) /\ Len(queue) = 0
  BY EmptySeq
<1>2. slack \in [1 .. MaxChunks -> 0 .. MaxTicks]
  OBVIOUS
<1> QED BY <1>1, <1>2 DEF Base, DataOK, ClockInv

LEMMA GetTypes ==
  ASSUME Base, Get
  PROVE  Base'
<1> USE RtcAssumption
<1>1. lastIndex < Len(queue) => queue[lastIndex + 1] \in Action
  BY ElementOfSeq, LenProperties DEF Base, DataOK
<1>2. ran' \in Seq([action : Action, at : 0 .. MaxTicks])
  <2>1. CASE lastIndex < Len(queue)
    <3>1. [action |-> queue[lastIndex + 1], at |-> tick] \in [action : Action, at : 0 .. MaxTicks]
      BY <1>1, <2>1 DEF Base, DataOK
    <3>2. ran' = Append(ran, [action |-> queue[lastIndex + 1], at |-> tick])
      BY <2>1 DEF Get
    <3>3. ran \in Seq([action : Action, at : 0 .. MaxTicks])
      BY DEF Base, DataOK
    <3> QED BY <3>1, <3>2, <3>3, AppendProperties
  <2>2. CASE ~(lastIndex < Len(queue))
    BY <2>2 DEF Base, DataOK, Get
  <2> QED BY <2>1, <2>2
<1>3. Len(queue) \in Nat
  BY LenProperties DEF Base, DataOK
<1>4. /\ queue' = queue /\ lastIndex' \in 0 .. Len(queue)
      /\ tick' = tick + 1 /\ tick' \in 0 .. MaxTicks
  BY <1>3 DEF Base, DataOK, Get
<1>5. /\ UNCHANGED <<original, clears, merged, slack, warned, heldAt>>
      /\ UNCHANGED <<pc, index, left, seen, delay, chunks, frozen, horizon, window, maxLatency>>
  BY DEF Get, inferVars, trackVars
<1>6. DataOK'
  BY <1>2, <1>4, <1>5 DEF Base, DataOK
<1>7. ClockInv'
  BY <1>4, <1>5 DEF Base, DataOK, ClockInv
<1> QED BY <1>6, <1>7 DEF Base

LEMMA ClearTypes ==
  ASSUME Base, Clear
  PROVE  Base'
<1>1. /\ << >> \in Seq(Action) /\ << >> \in Seq([action : Action, at : 0 .. MaxTicks])
      /\ Len(<< >>) = 0
  BY EmptySeq
<1> QED BY <1>1, RtcAssumption DEF Base, DataOK, ClockInv, Clear, inferVars, trackVars

LEMMA ReadIndexTypes ==
  ASSUME Base, ReadIndex
  PROVE  Base'
<1>1. Len(queue) \in Nat
  BY LenProperties DEF Base, DataOK
<1> QED BY <1>1 DEF Base, DataOK, ClockInv, ReadIndex, queueVars, loopVars, trackVars

LEMMA ReadLeftOverTypes ==
  ASSUME Base, original = queue, ReadLeftOver
  PROVE  Base'
<1>1. From(original, lastIndex) \in Seq(Action)
  BY FromProperties DEF Base, DataOK
<1>2. Len(ran) \in Nat
  BY LenProperties DEF Base, DataOK
<1> QED BY <1>1, <1>2
     DEF Base, DataOK, ClockInv, ReadLeftOver, LeftOver, queueVars, loopVars, trackVars

LEMMA ObserveTypes ==
  ASSUME Base, Observe
  PROVE  Base'
<1>1. Predictions \subseteq 0 .. MaxTicks
  <2>1. \A i \in 1 .. Len(window) : window[i] \in 0 .. MaxTicks
    BY ElementOfSeq DEF Base, DataOK
  <2> QED BY <2>1 DEF Predictions, Base, DataOK
<1>2. frozen' \in 0 .. MaxTicks /\ horizon' \in Horizons \cup {0}
  BY <1>1 DEF Observe, Base, DataOK
<1>3. chunks < MaxChunks
  BY DEF Observe, Base, ClockInv
<1> QED BY <1>2, <1>3, RtcAssumption
     DEF Base, DataOK, ClockInv, Observe, queueVars, loopVars, trackVars, histVars

LEMMA MeasureTypes ==
  ASSUME Base, Measure
  PROVE  Base'
<1>1. tick - seen \in 0 .. MaxTicks
  BY RtcAssumption DEF Base, DataOK, ClockInv
<1>2. maxLatency' \in 0 .. MaxTicks
  BY <1>1, RtcAssumption DEF Measure, Record, Most, Base, DataOK
<1>3. window' \in Seq(0 .. MaxTicks)
  <2>1. window \in Seq(0 .. MaxTicks)
    BY DEF Base, DataOK
  <2>2. Append(window, tick - seen) \in Seq(0 .. MaxTicks)
    BY <1>1, <2>1, AppendProperties
  <2>3. CASE Len(window) < WindowSize
    BY <2>2, <2>3 DEF Measure, Record
  <2>4. CASE ~(Len(window) < WindowSize)
    <3>1. Len(window) # 0 /\ window # << >>
      BY <2>1, <2>4, LenProperties, RtcAssumption
    <3>2. Tail(window) \in Seq(0 .. MaxTicks)
      BY <2>1, <3>1, HeadTailProperties
    <3>3. Append(Tail(window), tick - seen) \in Seq(0 .. MaxTicks)
      BY <1>1, <3>2, AppendProperties
    <3> QED BY <2>4, <3>3 DEF Measure, Record
  <2> QED BY <2>3, <2>4
<1> QED BY <1>1, <1>2, <1>3
     DEF Base, DataOK, ClockInv, Measure, queueVars, loopVars, histVars

\* What a merge leaves in the queue: with RTC the chunk behind the measured delay, and
\* else the actions that were queued with the chunk behind them.
LEMMA MergedQueue ==
  ASSUME Base, original = queue, filled \/ queue = << >>, Merge
  PROVE  /\ queue' \in Seq(Action) /\ original' = queue' /\ filled' /\ lastIndex' = 0
         /\ enabled => /\ Len(queue') = ChunkSize - Least(delay, ChunkSize)
                       /\ \A i \in 1 .. Len(queue') :
                            queue'[i] = [chunk |-> chunks, for |-> seen + Least(delay, ChunkSize) + i - 1]
         /\ ~enabled =>
              /\ Len(queue') = Len(queue) - lastIndex + ChunkSize
              /\ \A i \in 1 .. Len(queue') :
                   queue'[i] = IF i <= Len(queue) - lastIndex THEN queue[lastIndex + i]
                               ELSE Chunk[i - (Len(queue) - lastIndex)]
<1>1. /\ Len(queue) \in Nat /\ lastIndex \in 0 .. Len(queue) /\ delay \in Nat /\ seen \in Nat
      /\ ChunkSize \in Nat /\ queue \in Seq(Action)
  BY LenProperties, RtcAssumption DEF Base, DataOK
<1>2. /\ Chunk \in Seq(Action) /\ Len(Chunk) = ChunkSize
      /\ \A i \in 1 .. ChunkSize : Chunk[i] = [chunk |-> chunks, for |-> seen + i - 1]
  BY ChunkProperties DEF Merge
<1> HIDE DEF Chunk
<1>3. CASE enabled
  <2> DEFINE clamped == Least(delay, ChunkSize)
  <2>1. clamped \in 0 .. Len(Chunk)
    BY <1>1, <1>2 DEF Least
  <2>2. queue' = From(Chunk, clamped) /\ original' = queue' /\ lastIndex' = 0 /\ filled'
    BY <1>3 DEF Merge, Replace
  <2> HIDE DEF clamped
  <2>3. /\ queue' \in Seq(Action) /\ Len(queue') = ChunkSize - clamped
        /\ \A i \in 1 .. ChunkSize - clamped : queue'[i] = Chunk[clamped + i]
    BY <1>2, <2>1, <2>2, FromProperties
  <2>4. \A i \in 1 .. ChunkSize - clamped :
          queue'[i] = [chunk |-> chunks, for |-> seen + clamped + i - 1]
    <3> SUFFICES ASSUME NEW i \in 1 .. ChunkSize - clamped
                 PROVE  queue'[i] = [chunk |-> chunks, for |-> seen + clamped + i - 1]
      OBVIOUS
    <3>1. clamped + i \in 1 .. ChunkSize /\ seen + (clamped + i) - 1 = seen + clamped + i - 1
      BY <1>1, <1>2, <2>1
    <3> QED BY <1>2, <2>3, <3>1
  <2> QED BY <1>3, <2>2, <2>3, <2>4 DEF clamped
<1>4. CASE ~enabled /\ ~filled
  <2>1. queue = << >> /\ Len(queue) = 0 /\ lastIndex = 0
    BY <1>1, <1>4
  <2>2. queue' = Chunk /\ original' = Chunk /\ lastIndex' = 0 /\ filled'
    BY <1>4, <2>1 DEF Merge, AppendChunk
  <2> QED BY <1>1, <1>2, <1>4, <2>1, <2>2
<1>5. CASE ~enabled /\ filled
  <2>1. /\ queue' = From(queue \o Chunk, lastIndex)
        /\ original' = queue' /\ lastIndex' = 0 /\ filled'
    BY <1>5 DEF Merge, AppendChunk
  <2>2. /\ queue \o Chunk \in Seq(Action) /\ Len(queue \o Chunk) = Len(queue) + ChunkSize
        /\ \A i \in 1 .. Len(queue) + ChunkSize :
             (queue \o Chunk)[i] = IF i <= Len(queue) THEN queue[i] ELSE Chunk[i - Len(queue)]
    <3>1. queue \in Seq(Action) /\ Chunk \in Seq(Action)
      BY <1>1, <1>2
    <3>2. /\ queue \o Chunk \in Seq(Action) /\ Len(queue \o Chunk) = Len(queue) + Len(Chunk)
          /\ \A i \in 1 .. Len(queue) + Len(Chunk) :
               (queue \o Chunk)[i] = IF i <= Len(queue) THEN queue[i] ELSE Chunk[i - Len(queue)]
      BY <3>1, ConcatProperties
    <3> QED BY <1>2, <3>2
  <2> DEFINE both == queue \o Chunk
  <2>3. both \in Seq(Action) /\ lastIndex \in 0 .. Len(both) /\ Len(both) = Len(queue) + ChunkSize
    BY <1>1, <2>2
  <2> HIDE DEF both
  <2>3a. /\ From(both, lastIndex) \in Seq(Action)
        /\ Len(From(both, lastIndex)) = Len(both) - lastIndex
        /\ \A i \in 1 .. Len(both) - lastIndex : From(both, lastIndex)[i] = both[lastIndex + i]
    BY <2>3, FromProperties
  <2>4. /\ queue' \in Seq(Action) /\ Len(queue') = Len(queue) + ChunkSize - lastIndex
        /\ \A i \in 1 .. Len(queue) + ChunkSize - lastIndex : queue'[i] = (queue \o Chunk)[lastIndex + i]
    BY <1>1, <2>1, <2>3, <2>3a DEF both
  <2>5. \A i \in 1 .. Len(queue) + ChunkSize - lastIndex :
          queue'[i] = IF i <= Len(queue) - lastIndex THEN queue[lastIndex + i]
                      ELSE Chunk[i - (Len(queue) - lastIndex)]
    <3> SUFFICES ASSUME NEW i \in 1 .. Len(queue) + ChunkSize - lastIndex
                 PROVE  queue'[i] = IF i <= Len(queue) - lastIndex THEN queue[lastIndex + i]
                                    ELSE Chunk[i - (Len(queue) - lastIndex)]
      OBVIOUS
    <3> DEFINE k == lastIndex + i
    <3>1. /\ k = lastIndex + i /\ k \in 1 .. Len(queue) + ChunkSize
          /\ (k <= Len(queue)) <=> (i <= Len(queue) - lastIndex)
          /\ k - Len(queue) = i - (Len(queue) - lastIndex)
      BY <1>1
    <3>2. queue'[i] = (queue \o Chunk)[k]
      BY <1>1, <2>4
    <3> HIDE DEF k
    <3>3. (queue \o Chunk)[k]
            = IF k <= Len(queue) THEN queue[k]
              ELSE Chunk[k - Len(queue)]
      BY <2>2, <3>1
    <3> QED BY <3>1, <3>2, <3>3
  <2>6. Len(queue') = Len(queue) - lastIndex + ChunkSize
    BY <1>1, <2>4
  <2>7. \A i \in 1 .. Len(queue') :
          queue'[i] = IF i <= Len(queue) - lastIndex THEN queue[lastIndex + i]
                      ELSE Chunk[i - (Len(queue) - lastIndex)]
    BY <2>4, <2>5
  <2>8. queue' \in Seq(Action)
    BY <2>4
  <2> QED BY <1>5, <2>1, <2>6, <2>7, <2>8
<1> QED BY <1>3, <1>4, <1>5

LEMMA MergeTypes ==
  ASSUME Base, original = queue, filled \/ queue = << >>, Merge
  PROVE  Base'
<1>1. queue' \in Seq(Action) /\ original' = queue' /\ lastIndex' = 0
  BY MergedQueue
<1>2. merged' \in Seq(Action)
  <2>1. merged \in Seq(Action) /\ Chunk \in Seq(Action)
    BY ChunkProperties DEF Base, DataOK, Merge
  <2>2. merged \o Chunk \in Seq(Action)
    BY <2>1, ConcatProperties
  <2> QED BY <2>2 DEF Merge
<1>3. /\ tick - (seen + delay) \in 0 .. MaxTicks /\ chunks \in 1 .. MaxChunks
  BY RtcAssumption DEF Base, DataOK, ClockInv, Merge
<1>4. slack' \in [1 .. MaxChunks -> 0 .. MaxTicks] /\ warned' \subseteq 1 .. MaxChunks
  <2>1. slack' = [slack EXCEPT ![chunks] = tick - (seen + delay)]
    BY DEF Merge
  <2>2. warned' \subseteq warned \cup {chunks}
    BY DEF Merge
  <2> QED BY <1>3, <2>1, <2>2 DEF Base, DataOK
<1>5. Len(queue') \in Nat
  BY <1>1, LenProperties
<1>6. /\ UNCHANGED <<tick, ran, clears, index, left, seen, delay, chunks, frozen, horizon>>
      /\ UNCHANGED <<window, maxLatency, heldAt>> /\ pc' = "idle"
  BY DEF Merge, loopVars, trackVars
<1>7. DataOK'
  BY <1>1, <1>2, <1>4, <1>5, <1>6 DEF Base, DataOK
<1>8. ClockInv'
  BY <1>6 DEF Base, DataOK, ClockInv
<1> QED BY <1>7, <1>8 DEF Base

-----------------------------------------------------------------------------
(* The two queues.                                                         *)

\* They are cut in step, so that what get_left_over hands to the guidance are the
\* originals of the actions still to be executed; and what was never filled is empty.
QueueInv ==
  /\ original = queue
  /\ filled \/ queue = << >>

BaseInv == Base /\ QueueInv

LEMMA BaseInvInit == Init => BaseInv
<1> SUFFICES ASSUME Init PROVE BaseInv
  OBVIOUS
<1>1. QueueInv
  BY DEF Init, QueueInv
<1> QED BY <1>1, BaseInit DEF BaseInv

LEMMA BaseInvStep ==
  ASSUME BaseInv, [Next]_vars
  PROVE  BaseInv'
<1>0. Base /\ original = queue /\ (filled \/ queue = << >>)
  BY DEF BaseInv, QueueInv
<1>1. CASE Get
  BY <1>0, <1>1, GetTypes DEF BaseInv, QueueInv, Get
<1>2. CASE Clear
  BY <1>0, <1>2, ClearTypes DEF BaseInv, QueueInv, Clear
<1>3. CASE ReadIndex
  BY <1>0, <1>3, ReadIndexTypes DEF BaseInv, QueueInv, ReadIndex, queueVars
<1>4. CASE ReadLeftOver
  BY <1>0, <1>4, ReadLeftOverTypes DEF BaseInv, QueueInv, ReadLeftOver, queueVars
<1>5. CASE Observe
  BY <1>0, <1>5, ObserveTypes DEF BaseInv, QueueInv, Observe, queueVars
<1>6. CASE Measure
  BY <1>0, <1>6, MeasureTypes DEF BaseInv, QueueInv, Measure, queueVars
<1>7. CASE Merge
  <2>1. original' = queue' /\ filled'
    BY <1>0, <1>7, MergedQueue
  <2> QED BY <1>0, <1>7, <2>1, MergeTypes DEF BaseInv, QueueInv
<1>8. CASE UNCHANGED vars
  <2>1. /\ UNCHANGED <<queue, original, filled, lastIndex, tick, ran, clears>>
        /\ UNCHANGED <<pc, index, left, seen, delay, chunks, frozen, horizon>>
        /\ UNCHANGED <<window, maxLatency, merged, slack, warned, heldAt>>
    BY <1>8 DEF vars, queueVars, loopVars, inferVars, trackVars, histVars
  <2>2. Base'
    BY <1>0, <2>1 DEF Base, DataOK, ClockInv
  <2> QED BY <1>0, <2>1, <2>2 DEF BaseInv, QueueInv
<1> QED BY <1>1, <1>2, <1>3, <1>4, <1>5, <1>6, <1>7, <1>8 DEF Next

LEMMA AlwaysBaseInv == Spec => []BaseInv
<1> QED BY BaseInvInit, BaseInvStep, PTL DEF Spec

\* Type correctness: the index never points behind the queue, the delay is never
\* negative (action_queue.py:64-80, 128-157).
THEOREM RtcTypeCorrect == Spec => []TypeOK
<1>1. Init => FlagsOK
  BY DEF Init, FlagsOK, Schedules
<1>2. FlagsOK /\ [Next]_vars => FlagsOK'
  <2> SUFFICES ASSUME FlagsOK, [Next]_vars PROVE FlagsOK'
    OBVIOUS
  <2> USE DEF FlagsOK, queueVars, loopVars, inferVars, trackVars, histVars
  <2>1. CASE Get
    BY <2>1, Zenon DEF Get
  <2>2. CASE Clear
    BY <2>2, Zenon DEF Clear
  <2>3. CASE ReadIndex
    BY <2>3, Zenon DEF ReadIndex
  <2>4. CASE ReadLeftOver
    BY <2>4, Zenon DEF ReadLeftOver
  <2>5. CASE Observe
    BY <2>5, Zenon DEF Observe
  <2>6. CASE Measure
    BY <2>6, Zenon DEF Measure
  <2>7. CASE Merge
    BY <2>7, Zenon DEF Merge
  <2>8. CASE UNCHANGED vars
    BY <2>8, Zenon DEF vars
  <2> QED BY <2>1, <2>2, <2>3, <2>4, <2>5, <2>6, <2>7, <2>8 DEF Next
<1>3. BaseInv => DataOK
  BY DEF BaseInv, Base
<1> QED BY <1>1, <1>2, <1>3, AlwaysBaseInv, PTL DEF Spec, TypeOK

-----------------------------------------------------------------------------
(* With RTC: how late an action is executed.                               *)

\* The chunk that is being inferred has no action anywhere yet.
Merged == IF pc \in {"infer", "measured"} THEN chunks - 1 ELSE chunks

\* An action that was executed, and one that is queued and will be executed with those
\* before it one a tick, is late by the slack of its chunk.
RanInv ==
  \A i \in 1 .. Len(ran) :
    /\ ran[i].action.chunk <= Merged
    /\ ran[i].at - ran[i].action.for = slack[ran[i].action.chunk]

PlannedInv ==
  \A i \in lastIndex + 1 .. Len(queue) :
    /\ queue[i].chunk <= Merged
    /\ queue[i].for = tick - slack[queue[i].chunk] + (i - lastIndex - 1)

LateInv == enabled => RanInv /\ PlannedInv

LEMMA LateGet ==
  ASSUME BaseInv, LateInv, Get
  PROVE  LateInv'
<1> SUFFICES ASSUME enabled' PROVE RanInv' /\ PlannedInv'
  BY DEF LateInv
<1>1. enabled /\ RanInv /\ PlannedInv
  BY DEF LateInv, Get
<1>2. /\ lastIndex \in 0 .. Len(queue) /\ Len(queue) \in Nat /\ Len(ran) \in Nat
      /\ tick \in Nat /\ queue \in Seq(Action) /\ ran \in Seq([action : Action, at : 0 .. MaxTicks])
      /\ slack \in [1 .. MaxChunks -> 0 .. MaxTicks] /\ MaxTicks \in Nat
  BY LenProperties, RtcAssumption DEF BaseInv, Base, DataOK
<1>3. /\ tick' = tick + 1 /\ queue' = queue /\ slack' = slack /\ Merged' = Merged
  BY DEF Get, Merged, inferVars
<1>4. CASE lastIndex < Len(queue)
  <2> DEFINE e == [action |-> queue[lastIndex + 1], at |-> tick]
  <2>1. lastIndex' = lastIndex + 1 /\ ran' = Append(ran, e)
    BY <1>4 DEF Get
  <2>2. queue[lastIndex + 1] \in Action
    BY <1>2, <1>4, ElementOfSeq
  <2>3. e \in [action : Action, at : 0 .. MaxTicks]
    BY <2>2 DEF BaseInv, Base, DataOK
  <2>4. /\ Len(ran') = Len(ran) + 1 /\ ran'[Len(ran) + 1] = e
        /\ \A i \in 1 .. Len(ran) : ran'[i] = ran[i]
    <3> HIDE DEF e
    <3> QED BY <1>2, <2>1, <2>3, AppendProperties
  <2>5. RanInv'
    <3> SUFFICES ASSUME NEW i \in 1 .. Len(ran')
                 PROVE  /\ ran'[i].action.chunk <= Merged
                        /\ ran'[i].at - ran'[i].action.for = slack[ran'[i].action.chunk]
      BY <1>3 DEF RanInv
    <3>1. CASE i \in 1 .. Len(ran)
      BY <1>1, <2>4, <3>1 DEF RanInv
    <3>2. CASE i = Len(ran) + 1
      <4>1. lastIndex + 1 \in lastIndex + 1 .. Len(queue)
        BY <1>2, <1>4
      <4>2. /\ queue[lastIndex + 1].chunk <= Merged
            /\ queue[lastIndex + 1].for
                 = tick - slack[queue[lastIndex + 1].chunk] + ((lastIndex + 1) - lastIndex - 1)
        BY <1>1, <4>1 DEF PlannedInv
      <4>3. slack[queue[lastIndex + 1].chunk] \in Nat
        BY <1>2, <2>2 DEF Action
      <4>4. tick - queue[lastIndex + 1].for = slack[queue[lastIndex + 1].chunk]
        BY <1>2, <4>2, <4>3
      <4> QED BY <2>4, <3>2, <4>2, <4>4
    <3> QED BY <1>2, <2>4, <3>1, <3>2
  <2>6. PlannedInv'
    <3> SUFFICES ASSUME NEW i \in lastIndex + 2 .. Len(queue)
                 PROVE  /\ queue[i].chunk <= Merged
                        /\ queue[i].for = (tick + 1) - slack[queue[i].chunk] + (i - (lastIndex + 1) - 1)
      BY <1>2, <1>3, <2>1 DEF PlannedInv
    <3>1. i \in lastIndex + 1 .. Len(queue) /\ i \in 1 .. Len(queue)
      BY <1>2
    <3>2. slack[queue[i].chunk] \in Nat /\ queue[i].for \in Nat
      <4>1. queue[i] \in Action
        BY <1>2, <3>1, ElementOfSeq
      <4>2. queue[i].chunk \in 1 .. MaxChunks /\ queue[i].for \in Nat
        BY <4>1, RtcAssumption DEF Action
      <4> QED BY <1>2, <4>2
    <3>3. /\ queue[i].chunk <= Merged
          /\ queue[i].for = tick - slack[queue[i].chunk] + (i - lastIndex - 1)
      BY <1>1, <3>1 DEF PlannedInv
    <3>4. /\ tick \in Nat /\ lastIndex \in Nat /\ i \in Nat
          /\ queue[i].for \in Nat /\ slack[queue[i].chunk] \in Nat
      BY <1>2, <3>1, <3>2
    <3>5. queue[i].for = (tick + 1) - slack[queue[i].chunk] + (i - (lastIndex + 1) - 1)
      BY <3>3, <3>4
    <3> QED BY <3>3, <3>5
  <2> QED BY <2>5, <2>6
<1>5. CASE ~(lastIndex < Len(queue))
  <2>1. lastIndex' = lastIndex /\ ran' = ran
    BY <1>5 DEF Get
  <2>2. lastIndex + 1 .. Len(queue) = {}
    BY <1>2, <1>5
  <2> QED BY <1>1, <1>3, <2>1, <2>2 DEF RanInv, PlannedInv
<1> QED BY <1>4, <1>5

LEMMA LateMerge ==
  ASSUME BaseInv, LateInv, Merge
  PROVE  LateInv'
<1> SUFFICES ASSUME enabled' PROVE RanInv' /\ PlannedInv'
  BY DEF LateInv
<1>1. enabled /\ RanInv /\ PlannedInv /\ pc = "measured" /\ pc' = "idle"
  BY DEF LateInv, Merge
<1>2. /\ Len(ran) \in Nat /\ ran \in Seq([action : Action, at : 0 .. MaxTicks])
      /\ slack \in [1 .. MaxChunks -> 0 .. MaxTicks] /\ MaxTicks \in Nat
      /\ tick \in Nat /\ seen \in Nat /\ delay \in Nat /\ chunks \in 1 .. MaxChunks
      /\ ChunkSize \in Nat
  BY <1>1, LenProperties, RtcAssumption DEF BaseInv, Base, DataOK, ClockInv
<1>3. /\ Merged = chunks - 1 /\ Merged' = chunks /\ UNCHANGED <<tick, ran, chunks>>
      /\ slack' = [slack EXCEPT ![chunks] = tick - (seen + delay)]
  BY <1>1 DEF Merge, Merged, loopVars
<1>4. \A c \in 1 .. MaxChunks : slack'[c] = IF c = chunks THEN tick - (seen + delay) ELSE slack[c]
  BY <1>2, <1>3
<1>5. RanInv'
  <2> SUFFICES ASSUME NEW i \in 1 .. Len(ran)
               PROVE  /\ ran[i].action.chunk <= chunks
                      /\ ran[i].at - ran[i].action.for = slack'[ran[i].action.chunk]
    BY <1>3 DEF RanInv
  <2>1. /\ ran[i].action.chunk <= chunks - 1
        /\ ran[i].at - ran[i].action.for = slack[ran[i].action.chunk]
    BY <1>1, <1>3 DEF RanInv
  <2>2. ran[i].action.chunk \in 1 .. MaxChunks
    <3>1. ran[i] \in [action : Action, at : 0 .. MaxTicks]
      BY <1>2, ElementOfSeq
    <3> QED BY <3>1 DEF Action
  <2> QED BY <1>2, <1>4, <2>1, <2>2
<1>6. PlannedInv'
  <2>1. /\ queue' \in Seq(Action) /\ lastIndex' = 0
        /\ Len(queue') = ChunkSize - Least(delay, ChunkSize)
        /\ \A i \in 1 .. Len(queue') :
             queue'[i] = [chunk |-> chunks, for |-> seen + Least(delay, ChunkSize) + i - 1]
    BY <1>1, MergedQueue DEF BaseInv, QueueInv
  <2> SUFFICES ASSUME NEW i \in 1 .. Len(queue')
               PROVE  /\ queue'[i].chunk <= chunks
                      /\ queue'[i].for = tick - slack'[queue'[i].chunk] + (i - 0 - 1)
    BY <1>3, <2>1 DEF PlannedInv
  <2>2. Least(delay, ChunkSize) = delay
    BY <1>2, <2>1 DEF Least
  <2>3. queue'[i].chunk = chunks /\ queue'[i].for = seen + delay + i - 1
    BY <2>1, <2>2
  <2> QED BY <1>2, <1>4, <2>3
<1> QED BY <1>5, <1>6

\* Every other step of the inference thread leaves the queue and the clock alone.
LEMMA LateKept ==
  ASSUME LateInv, UNCHANGED <<enabled, queue, lastIndex, ran, tick, slack>>, Merged' = Merged
  PROVE  LateInv'
BY DEF LateInv, RanInv, PlannedInv

LEMMA LateStep ==
  ASSUME BaseInv, LateInv, [Next]_vars
  PROVE  LateInv'
<1> USE DEF queueVars, loopVars, inferVars, trackVars, histVars
<1>1. CASE Clear
  <2>1. queue' = << >> /\ ran' = << >> /\ lastIndex' = 0 /\ Len(<< >>) = 0
    BY <1>1 DEF Clear
  <2> QED BY <2>1 DEF LateInv, RanInv, PlannedInv
<1>2. CASE ReadIndex
  BY <1>2, LateKept DEF ReadIndex, Merged
<1>3. CASE ReadLeftOver
  BY <1>3, LateKept DEF ReadLeftOver, Merged
<1>4. CASE Observe
  <2>1. Merged' = Merged
    BY <1>4 DEF Observe, Merged, BaseInv, Base, DataOK
  <2> QED BY <1>4, <2>1, LateKept DEF Observe
<1>5. CASE Measure
  BY <1>5, LateKept DEF Measure, Merged
<1>6. CASE UNCHANGED vars
  BY <1>6, LateKept DEF vars, Merged
<1> QED BY <1>1, <1>2, <1>3, <1>4, <1>5, <1>6, LateGet, LateMerge DEF Next

\* With RTC an action is executed later than planned by exactly what the control loop
\* took between the measurement of the delay and the merge of its chunk
\* (_replace_actions_queue drops the measured delay only).
THEOREM PlannedLate == Spec => []LateByTheRace
<1>1. Init => LateInv
  <2> SUFFICES ASSUME Init PROVE LateInv
    OBVIOUS
  <2>1. queue = << >> /\ ran = << >> /\ lastIndex = 0 /\ Len(<< >>) = 0
    BY DEF Init
  <2> QED BY <2>1 DEF LateInv, RanInv, PlannedInv
<1>2. BaseInv /\ LateInv => LateByTheRace
  BY LenProperties DEF BaseInv, Base, DataOK, LateInv, RanInv, LateByTheRace
<1>3. BaseInv /\ LateInv /\ [Next]_vars => LateInv'
  BY LateStep
<1> QED BY <1>1, <1>2, <1>3, AlwaysBaseInv, PTL DEF Spec

-----------------------------------------------------------------------------
(* The report of a race.                                                   *)

\* While the queue is neither cleared nor empty, the index goes up every tick.
TickInv ==
  ~disturbed =>
    /\ pc \in {"indexed", "held"} => index <= lastIndex
    /\ pc \in {"infer", "measured"} => tick - seen <= lastIndex - index

LEMMA TickStep ==
  ASSUME BaseInv, TickInv, [Next]_vars
  PROVE  TickInv'
<1> USE DEF queueVars, loopVars, inferVars, trackVars, histVars
<1>0. /\ lastIndex \in Nat /\ index \in Nat /\ tick \in Nat /\ seen \in Nat
  BY LenProperties, RtcAssumption DEF BaseInv, Base, DataOK
<1>1. CASE Get
  <2> SUFFICES ASSUME ~disturbed' PROVE TickInv'
    BY DEF TickInv
  <2>1. lastIndex < Len(queue)
    BY <1>1 DEF Get
  <2>2. ~disturbed /\ lastIndex' = lastIndex + 1 /\ tick' = tick + 1 /\ UNCHANGED <<pc, index, seen>>
    BY <1>1, <2>1 DEF Get
  <2> QED BY <1>0, <2>2 DEF TickInv
<1>2. CASE Clear
  BY <1>2 DEF Clear, TickInv
<1>3. CASE ReadIndex
  BY <1>0, <1>3 DEF ReadIndex, TickInv
<1>4. CASE ReadLeftOver
  BY <1>0, <1>4 DEF ReadLeftOver, TickInv
<1>5. CASE Observe
  <2>1. /\ pc = "held" /\ pc' = "infer" /\ seen' = tick
        /\ UNCHANGED <<tick, lastIndex, index, disturbed>>
    BY <1>5 DEF Observe
  <2> QED BY <1>0, <2>1 DEF TickInv
<1>6. CASE Measure
  BY <1>6 DEF Measure, TickInv
<1>7. CASE Merge
  BY <1>7 DEF Merge, TickInv
<1>8. CASE UNCHANGED vars
  BY <1>8 DEF vars, TickInv
<1> QED BY <1>1, <1>2, <1>3, <1>4, <1>5, <1>6, <1>7, <1>8 DEF Next

\* A merge that overlooked a tick reports that the delays differ, unless the queue was
\* cleared or ran empty since the index was read (_check_and_resolve_delays).
THEOREM RacesReported == Spec => RaceReported
<1> DEFINE Report ==
      (enabled /\ pc = "measured" /\ pc' = "idle" /\ ~disturbed /\ slack'[chunks] > 0)
        => chunks \in warned'
<1>1. Init => TickInv
  BY DEF Init, TickInv
<1>2. BaseInv /\ TickInv /\ [Next]_vars => [Report]_vars
  <2> SUFFICES ASSUME BaseInv, TickInv, Next, enabled, pc = "measured", pc' = "idle",
                      ~disturbed, slack'[chunks] > 0
               PROVE  chunks \in warned'
    BY Zenon DEF vars
  <2>1. Merge
    <3>1. ~Get /\ ~Clear
      BY DEF Get, Clear, inferVars
    <3>2. ~ReadIndex /\ ~ReadLeftOver /\ ~Observe /\ ~Measure
      BY DEF ReadIndex, ReadLeftOver, Observe, Measure
    <3> QED BY <3>1, <3>2 DEF Next
  <2>2. /\ tick \in Nat /\ seen \in Nat /\ delay \in Nat /\ lastIndex \in Nat /\ index \in Nat
        /\ chunks \in 1 .. MaxChunks /\ slack \in [1 .. MaxChunks -> 0 .. MaxTicks]
    BY LenProperties, RtcAssumption DEF BaseInv, Base, DataOK, ClockInv
  <2>3. tick - (seen + delay) > 0
    BY <2>1, <2>2 DEF Merge
  <2>4. tick - seen <= lastIndex - index
    BY DEF TickInv
  <2>5. DelaysDiffer
    BY <2>2, <2>3, <2>4 DEF DelaysDiffer, Most
  <2> QED BY <2>1, <2>5 DEF Merge
<1>3. BaseInv /\ TickInv /\ [Next]_vars => TickInv'
  BY TickStep
<1> QED BY <1>1, <1>2, <1>3, AlwaysBaseInv, PTL DEF Spec, RaceReported

-----------------------------------------------------------------------------
(* What runs while a chunk is inferred.                                    *)

\* Actions executed since the leftover was read, and the index at which they began.
Taken == Len(ran) - heldAt
Start == lastIndex - Taken

HeldInv ==
  (pc \in {"held", "infer", "measured"} /\ ~disturbed) =>
    /\ Taken >= 0 /\ Start >= 0
    /\ Len(left) = Len(queue) - Start
    /\ \A i \in 1 .. Len(left) : left[i] = queue[Start + i]
    /\ \A i \in 1 .. Taken : ran[heldAt + i].action = queue[Start + i]

LEMMA HeldGet ==
  ASSUME BaseInv, HeldInv, Get
  PROVE  HeldInv'
<1> SUFFICES ASSUME pc' \in {"held", "infer", "measured"}, ~disturbed' PROVE HeldInv'
  BY DEF HeldInv
<1>1. lastIndex < Len(queue)
  BY DEF Get
<1>2. /\ pc \in {"held", "infer", "measured"} /\ ~disturbed
      /\ UNCHANGED <<left, queue, heldAt>> /\ lastIndex' = lastIndex + 1
  BY <1>1 DEF Get, inferVars
<1>3. /\ Len(ran) \in Nat /\ Len(queue) \in Nat /\ lastIndex \in Nat /\ heldAt \in Nat
      /\ ran \in Seq([action : Action, at : 0 .. MaxTicks]) /\ queue \in Seq(Action)
  BY LenProperties DEF BaseInv, Base, DataOK
<1> DEFINE e == [action |-> queue[lastIndex + 1], at |-> tick]
<1>4. ran' = Append(ran, e)
  BY <1>1 DEF Get
<1>5. e \in [action : Action, at : 0 .. MaxTicks]
  <2>1. queue[lastIndex + 1] \in Action
    BY <1>1, <1>3, ElementOfSeq
  <2> QED BY <2>1 DEF BaseInv, Base, DataOK
<1>6. /\ Len(ran') = Len(ran) + 1 /\ ran'[Len(ran) + 1] = e
      /\ \A i \in 1 .. Len(ran) : ran'[i] = ran[i]
  <2> HIDE DEF e
  <2> QED BY <1>3, <1>4, <1>5, AppendProperties
<1>7. /\ Taken' = Taken + 1 /\ Start' = Start /\ Taken \in Nat /\ Start \in Nat
      /\ heldAt + Taken = Len(ran) /\ Start + Taken = lastIndex
  BY <1>2, <1>3, <1>6 DEF Taken, Start, HeldInv
<1>8. \A i \in 1 .. Taken + 1 : ran'[heldAt + i].action = queue[Start + i]
  <2> SUFFICES ASSUME NEW i \in 1 .. Taken + 1
               PROVE  ran'[heldAt + i].action = queue[Start + i]
    OBVIOUS
  <2>1. CASE i \in 1 .. Taken
    <3>1. heldAt + i \in 1 .. Len(ran)
      BY <1>3, <1>7, <2>1
    <3>2. ran'[heldAt + i] = ran[heldAt + i]
      BY <1>6, <3>1
    <3> QED BY <1>2, <2>1, <3>2 DEF HeldInv
  <2>2. CASE i = Taken + 1
    <3>1. heldAt + i = Len(ran) + 1 /\ Start + i = lastIndex + 1
      BY <1>3, <1>7, <2>2
    <3> QED BY <1>6, <3>1
  <2> QED BY <1>7, <2>1, <2>2
<1> QED BY <1>2, <1>7, <1>8 DEF HeldInv

LEMMA HeldStep ==
  ASSUME BaseInv, HeldInv, [Next]_vars
  PROVE  HeldInv'
<1> USE DEF queueVars, loopVars, inferVars, trackVars, histVars
<1>1. CASE Clear
  BY <1>1 DEF Clear, HeldInv
<1>2. CASE ReadIndex
  BY <1>2 DEF ReadIndex, HeldInv
<1>3. CASE ReadLeftOver
  <2>1. /\ lastIndex \in 0 .. Len(queue) /\ Len(queue) \in Nat /\ Len(ran) \in Nat
        /\ queue \in Seq(Action) /\ original = queue
    BY LenProperties DEF BaseInv, Base, DataOK, QueueInv
  <2>2. left' = From(queue, lastIndex) /\ heldAt' = Len(ran) /\ UNCHANGED <<queue, lastIndex, ran>>
    BY <1>3, <2>1 DEF ReadLeftOver, LeftOver
  <2>3. /\ Len(left') = Len(queue) - lastIndex
        /\ \A i \in 1 .. Len(queue) - lastIndex : left'[i] = queue[lastIndex + i]
    BY <2>1, <2>2, FromProperties
  <2>4. Taken' = 0 /\ Start' = lastIndex
    BY <2>1, <2>2 DEF Taken, Start
  <2> QED BY <2>1, <2>2, <2>3, <2>4 DEF HeldInv
<1>4. CASE Observe
  BY <1>4 DEF Observe, HeldInv, Taken, Start
<1>5. CASE Measure
  BY <1>5 DEF Measure, HeldInv, Taken, Start
<1>6. CASE Merge
  BY <1>6 DEF Merge, HeldInv
<1>7. CASE UNCHANGED vars
  BY <1>7 DEF vars, HeldInv, Taken, Start
<1> QED BY <1>1, <1>2, <1>3, <1>4, <1>5, <1>6, <1>7, HeldGet DEF Next

\* What the robot executes while a chunk is inferred is what the guidance froze, in
\* its order: get_left_over begins at the index the control loop goes on from.
THEOREM FrozenRan == Spec => []FrozenIsWhatRan
<1>1. Init => HeldInv
  BY DEF Init, HeldInv
<1>2. BaseInv /\ HeldInv => FrozenIsWhatRan
  <2> SUFFICES ASSUME BaseInv, HeldInv, pc \in {"infer", "measured"}, ~disturbed,
                      NEW i \in 1 .. Len(ran) - heldAt
               PROVE  ran[heldAt + i].action = left[i]
    BY DEF FrozenIsWhatRan
  <2>1. /\ Len(ran) \in Nat /\ Len(queue) \in Nat /\ lastIndex \in 0 .. Len(queue) /\ heldAt \in Nat
    BY LenProperties DEF BaseInv, Base, DataOK
  <2>2. i \in 1 .. Taken /\ Taken >= 0 /\ Start >= 0 /\ Len(left) = Len(queue) - Start
    BY DEF HeldInv, Taken
  <2>3. i \in 1 .. Len(left)
    BY <2>1, <2>2 DEF Taken, Start
  <2> QED BY <2>2, <2>3 DEF HeldInv
<1>3. BaseInv /\ HeldInv /\ [Next]_vars => HeldInv'
  BY HeldStep
<1> QED BY <1>1, <1>2, <1>3, AlwaysBaseInv, PTL DEF Spec

-----------------------------------------------------------------------------
(* Without RTC: nothing lost, nothing twice.                               *)

Rest == Len(queue) - lastIndex

AppendInv ==
  ~enabled =>
    /\ Len(merged) = Len(ran) + Rest
    /\ \A i \in 1 .. Len(ran) : merged[i] = ran[i].action
    /\ \A i \in 1 .. Rest : merged[Len(ran) + i] = queue[lastIndex + i]

LEMMA SeqFacts ==
  ASSUME BaseInv
  PROVE  /\ Len(ran) \in Nat /\ Len(queue) \in Nat /\ lastIndex \in 0 .. Len(queue)
         /\ Len(merged) \in Nat /\ Rest \in Nat
         /\ ran \in Seq([action : Action, at : 0 .. MaxTicks])
         /\ queue \in Seq(Action) /\ merged \in Seq(Action)
BY LenProperties DEF BaseInv, Base, DataOK, Rest

LEMMA AppendGet ==
  ASSUME BaseInv, AppendInv, Get
  PROVE  AppendInv'
<1> SUFFICES ASSUME ~enabled' PROVE AppendInv'
  BY DEF AppendInv
<1>1. ~enabled /\ UNCHANGED <<queue, merged>>
  BY DEF Get
<1>2. CASE lastIndex < Len(queue)
  <2> DEFINE e == [action |-> queue[lastIndex + 1], at |-> tick]
  <2>1. lastIndex' = lastIndex + 1 /\ ran' = Append(ran, e)
    BY <1>2 DEF Get
  <2>2. e \in [action : Action, at : 0 .. MaxTicks]
    <3>1. queue[lastIndex + 1] \in Action
      BY <1>2, SeqFacts, ElementOfSeq
    <3> QED BY <3>1 DEF BaseInv, Base, DataOK
  <2>3. /\ Len(ran') = Len(ran) + 1 /\ ran'[Len(ran) + 1] = e
        /\ \A i \in 1 .. Len(ran) : ran'[i] = ran[i]
    <3> HIDE DEF e
    <3> QED BY <2>1, <2>2, SeqFacts, AppendProperties
  <2>4. Rest' = Rest - 1 /\ Rest >= 1
    BY <1>1, <1>2, <2>1, SeqFacts DEF Rest
  <2>5. \A i \in 1 .. Len(ran) + 1 : merged[i] = ran'[i].action
    <3>1. merged[Len(ran) + 1] = queue[lastIndex + 1]
      BY <1>1, <2>4, SeqFacts DEF AppendInv
    <3>2. ran'[Len(ran) + 1].action = queue[lastIndex + 1]
      BY <2>3
    <3>3. \A i \in 1 .. Len(ran) : merged[i] = ran'[i].action
      BY <1>1, <2>3 DEF AppendInv
    <3> SUFFICES ASSUME NEW i \in 1 .. Len(ran) + 1 PROVE merged[i] = ran'[i].action
      OBVIOUS
    <3>4. i \in 1 .. Len(ran) \/ i = Len(ran) + 1
      BY SeqFacts
    <3> QED BY <3>1, <3>2, <3>3, <3>4
  <2>6. \A i \in 1 .. Rest - 1 : merged[Len(ran) + 1 + i] = queue[lastIndex + 1 + i]
    <3> SUFFICES ASSUME NEW i \in 1 .. Rest - 1
                 PROVE  merged[Len(ran) + 1 + i] = queue[lastIndex + 1 + i]
      OBVIOUS
    <3>1. i + 1 \in 1 .. Rest
      BY SeqFacts
    <3>2. merged[Len(ran) + (i + 1)] = queue[lastIndex + (i + 1)]
      BY <1>1, <3>1 DEF AppendInv
    <3>3. Len(ran) + (i + 1) = Len(ran) + 1 + i /\ lastIndex + (i + 1) = lastIndex + 1 + i
      BY SeqFacts
    <3> QED BY <3>2, <3>3
  <2>7. Len(merged) = Len(ran) + Rest
    BY <1>1 DEF AppendInv
  <2> QED BY <1>1, <2>1, <2>3, <2>4, <2>5, <2>6, <2>7, SeqFacts DEF AppendInv
<1>3. CASE ~(lastIndex < Len(queue))
  BY <1>1, <1>3 DEF Get, AppendInv, Rest
<1> QED BY <1>2, <1>3

LEMMA AppendMerge ==
  ASSUME BaseInv, AppendInv, Merge
  PROVE  AppendInv'
<1> SUFFICES ASSUME ~enabled' PROVE AppendInv'
  BY DEF AppendInv
<1>1. ~enabled /\ ran' = ran /\ merged' = merged \o Chunk
  BY DEF Merge, loopVars
<1>2. /\ Len(merged) = Len(ran) + Rest
      /\ \A i \in 1 .. Len(ran) : merged[i] = ran[i].action
      /\ \A i \in 1 .. Rest : merged[Len(ran) + i] = queue[lastIndex + i]
  BY <1>1 DEF AppendInv
<1>3. Chunk \in Seq(Action) /\ Len(Chunk) = ChunkSize /\ ChunkSize \in Nat
  BY ChunkProperties, RtcAssumption DEF Merge, BaseInv
<1>4. /\ Len(queue') = Rest + ChunkSize /\ lastIndex' = 0
      /\ \A i \in 1 .. Rest + ChunkSize :
           queue'[i] = IF i <= Rest THEN queue[lastIndex + i] ELSE Chunk[i - Rest]
  BY <1>1, MergedQueue DEF BaseInv, QueueInv, Rest
<1> HIDE DEF Chunk
<1>5. /\ Len(merged') = Len(merged) + ChunkSize
      /\ \A i \in 1 .. Len(merged) + ChunkSize :
           merged'[i] = IF i <= Len(merged) THEN merged[i] ELSE Chunk[i - Len(merged)]
  <2>1. merged \in Seq(Action)
    BY SeqFacts
  <2>2. /\ Len(merged \o Chunk) = Len(merged) + Len(Chunk)
        /\ \A i \in 1 .. Len(merged) + Len(Chunk) :
             (merged \o Chunk)[i] = IF i <= Len(merged) THEN merged[i] ELSE Chunk[i - Len(merged)]
    BY <1>3, <2>1, ConcatProperties
  <2> QED BY <1>1, <1>3, <2>2
<1>6. Rest' = Rest + ChunkSize
  BY <1>3, <1>4, SeqFacts DEF Rest
<1>7. \A i \in 1 .. Len(ran) : merged'[i] = ran[i].action
  BY <1>2, <1>3, <1>5, SeqFacts
<1>8. \A i \in 1 .. Rest + ChunkSize : merged'[Len(ran) + i] = queue'[i]
  <2> SUFFICES ASSUME NEW i \in 1 .. Rest + ChunkSize
               PROVE  merged'[Len(ran) + i] = queue'[i]
    OBVIOUS
  <2> DEFINE k == Len(ran) + i
  <2>1. /\ k \in 1 .. Len(merged) + ChunkSize /\ (k <= Len(merged) <=> i <= Rest)
        /\ k - Len(merged) = i - Rest
    BY <1>2, <1>3, SeqFacts
  <2>2. i <= Rest => merged[k] = queue[lastIndex + i]
    BY <1>2, SeqFacts
  <2> HIDE DEF k
  <2>3. merged'[k] = IF i <= Rest THEN merged[k] ELSE Chunk[i - Rest]
    BY <1>5, <2>1
  <2>4. queue'[i] = IF i <= Rest THEN queue[lastIndex + i] ELSE Chunk[i - Rest]
    BY <1>4
  <2>5. merged'[k] = queue'[i]
    BY <2>2, <2>3, <2>4
  <2> QED BY <2>5 DEF k
<1>9. Len(merged') = Len(ran) + (Rest + ChunkSize)
  BY <1>2, <1>3, <1>5, SeqFacts
<1>10. \A i \in 1 .. Rest + ChunkSize : merged'[Len(ran) + i] = queue'[0 + i]
  BY <1>8, SeqFacts
<1> QED BY <1>1, <1>4, <1>6, <1>7, <1>9, <1>10 DEF AppendInv

LEMMA AppendStep ==
  ASSUME BaseInv, AppendInv, [Next]_vars
  PROVE  AppendInv'
<1> USE DEF queueVars, loopVars, inferVars, trackVars, histVars
<1>1. CASE Clear
  <2>1. queue' = << >> /\ ran' = << >> /\ merged' = << >> /\ lastIndex' = 0 /\ Len(<< >>) = 0
    BY <1>1 DEF Clear
  <2>2. Rest' = 0
    BY <2>1 DEF Rest
  <2> QED BY <2>1, <2>2 DEF AppendInv
<1>2. CASE ReadIndex
  BY <1>2 DEF ReadIndex, AppendInv, Rest
<1>3. CASE ReadLeftOver
  BY <1>3 DEF ReadLeftOver, AppendInv, Rest
<1>4. CASE Observe
  BY <1>4 DEF Observe, AppendInv, Rest
<1>5. CASE Measure
  BY <1>5 DEF Measure, AppendInv, Rest
<1>6. CASE UNCHANGED vars
  BY <1>6 DEF vars, AppendInv, Rest
<1> QED BY <1>1, <1>2, <1>3, <1>4, <1>5, <1>6, AppendGet, AppendMerge DEF Next

\* Without RTC the actions executed and those still queued are the merged chunks
\* (_append_actions_queue cuts what was executed and resets the index).
THEOREM AppendsOnce == Spec => []AppendedOnce
<1>1. Init => AppendInv
  <2> SUFFICES ASSUME Init PROVE AppendInv
    OBVIOUS
  <2>1. queue = << >> /\ ran = << >> /\ merged = << >> /\ lastIndex = 0 /\ Len(<< >>) = 0
    BY DEF Init
  <2> QED BY <2>1 DEF AppendInv, Rest
<1>2. BaseInv /\ AppendInv => AppendedOnce
  <2> SUFFICES ASSUME BaseInv, AppendInv, ~enabled
               PROVE  [i \in DOMAIN ran |-> ran[i].action] \o From(queue, lastIndex) = merged
    BY DEF AppendedOnce
  <2> DEFINE done == [i \in DOMAIN ran |-> ran[i].action]
             todo == From(queue, lastIndex)
  <2>1. DOMAIN ran = 1 .. Len(ran) /\ \A i \in 1 .. Len(ran) : ran[i].action \in Action
    <3>1. \A i \in 1 .. Len(ran) : ran[i] \in [action : Action, at : 0 .. MaxTicks]
      BY SeqFacts, ElementOfSeq
    <3> QED BY <3>1, SeqFacts, LenProperties
  <2>2. done \in [1 .. Len(ran) -> Action] /\ \A i \in 1 .. Len(ran) : done[i] = ran[i].action
    BY <2>1
  <2> HIDE DEF done
  <2>3. done \in Seq(Action) /\ Len(done) = Len(ran)
    <3>1. Len(ran) \in Nat
      BY SeqFacts
    <3> QED BY <2>2, <3>1, FunctionSeq
  <2>4. /\ todo \in Seq(Action) /\ Len(todo) = Rest
        /\ \A i \in 1 .. Rest : todo[i] = queue[lastIndex + i]
    BY SeqFacts, FromProperties DEF Rest
  <2> HIDE DEF todo
  <2>5. /\ done \o todo \in Seq(Action) /\ Len(done \o todo) = Len(ran) + Rest
        /\ \A i \in 1 .. Len(ran) + Rest :
             (done \o todo)[i] = IF i <= Len(ran) THEN done[i] ELSE todo[i - Len(ran)]
    <3>1. done \in Seq(Action) /\ todo \in Seq(Action)
      BY <2>3, <2>4
    <3>2. /\ done \o todo \in Seq(Action) /\ Len(done \o todo) = Len(done) + Len(todo)
          /\ \A i \in 1 .. Len(done) + Len(todo) :
               (done \o todo)[i] = IF i <= Len(done) THEN done[i] ELSE todo[i - Len(done)]
      BY <3>1, ConcatProperties
    <3> QED BY <2>3, <2>4, <3>2
  <2>6. Len(merged) = Len(ran) + Rest
    BY DEF AppendInv
  <2> DEFINE both == done \o todo
  <2>7. \A i \in 1 .. Len(ran) + Rest : both[i] = merged[i]
    <3> SUFFICES ASSUME NEW i \in 1 .. Len(ran) + Rest PROVE both[i] = merged[i]
      OBVIOUS
    <3>1. CASE i <= Len(ran)
      <4>1. i \in 1 .. Len(ran)
        BY <3>1, SeqFacts
      <4>2. both[i] = done[i]
        BY <2>5, <3>1
      <4>3. merged[i] = ran[i].action
        BY <4>1 DEF AppendInv
      <4> QED BY <2>2, <4>1, <4>2, <4>3
    <3>2. CASE ~(i <= Len(ran))
      <4> DEFINE j == i - Len(ran)
      <4>1. j \in 1 .. Rest /\ Len(ran) + j = i
        BY <3>2, SeqFacts
      <4>2. merged[Len(ran) + j] = queue[lastIndex + j]
        BY <4>1 DEF AppendInv
      <4>3. todo[j] = queue[lastIndex + j]
        BY <2>4, <4>1
      <4>4. both[i] = todo[j]
        BY <2>5, <3>2
      <4> HIDE DEF both
      <4>5. merged[i] = merged[Len(ran) + j]
        BY <4>1
      <4> QED BY <4>2, <4>3, <4>4, <4>5
    <3> QED BY <3>1, <3>2
  <2>8. both \in Seq(Action) /\ Len(both) = Len(merged) /\ merged \in Seq(Action)
    BY <2>5, <2>6, SeqFacts
  <2>9. \A i \in 1 .. Len(both) : both[i] = merged[i]
    BY <2>7, <2>5
  <2> HIDE DEF both
  <2>10. both = merged
    BY <2>8, <2>9, SeqEqual
  <2> QED BY <2>10 DEF both, done, todo
<1>3. BaseInv /\ AppendInv /\ [Next]_vars => AppendInv'
  BY AppendStep
<1> QED BY <1>1, <1>2, <1>3, AlwaysBaseInv, PTL DEF Spec

-----------------------------------------------------------------------------
(* The prefix weights.                                                     *)

\* What the guidance needs of the weights of a chunk of total steps: one on the first
\* k, zero behind the first l, never rising.
Falls(w, k, l, total) ==
  /\ Len(w.num) = total
  /\ \A i \in 1 .. total :
       /\ i <= k => w.num[i] = w.den
       /\ i > l => w.num[i] = 0
       /\ i < total => w.num[i + 1] <= w.num[i]

\* Ones, a falling middle, zeros.
LEMMA ShapeFalls ==
  ASSUME NEW k \in Nat, NEW n \in Nat, NEW z \in Nat, NEW den \in Nat, NEW lin \in [1 .. n -> Nat],
         \A i \in 1 .. n : lin[i] <= den,
         \A i \in 1 .. n - 1 : lin[i + 1] <= lin[i]
  PROVE  Falls([den |-> den, num |-> Constant(k, den) \o lin \o Constant(z, 0)], k, k + n, k + n + z)
<1> DEFINE ones == Constant(k, den)
           zeros == Constant(z, 0)
<1>1. /\ ones \in Seq(Nat) /\ Len(ones) = k /\ \A i \in 1 .. k : ones[i] = den
      /\ zeros \in Seq(Nat) /\ Len(zeros) = z /\ \A i \in 1 .. z : zeros[i] = 0
      /\ lin \in Seq(Nat) /\ Len(lin) = n
  <2>1. ones \in [1 .. k -> Nat] /\ zeros \in [1 .. z -> Nat]
    BY DEF Constant
  <2>2. \A i \in 1 .. k : ones[i] = den
    BY DEF Constant
  <2>3. \A i \in 1 .. z : zeros[i] = 0
    BY DEF Constant
  <2> HIDE DEF ones, zeros
  <2> QED BY <2>1, <2>2, <2>3, FunctionSeq
<1> HIDE DEF ones, zeros
<1> DEFINE front == ones \o lin
<1>2. /\ front \in Seq(Nat) /\ Len(front) = k + n
      /\ \A i \in 1 .. k + n : front[i] = IF i <= k THEN ones[i] ELSE lin[i - k]
  BY <1>1, ConcatProperties
<1> HIDE DEF front
<1> DEFINE num == front \o zeros
<1>3. /\ num \in Seq(Nat) /\ Len(num) = k + n + z
      /\ \A i \in 1 .. k + n + z : num[i] = IF i <= k + n THEN front[i] ELSE zeros[i - (k + n)]
  <2>1. front \in Seq(Nat) /\ zeros \in Seq(Nat)
    BY <1>1, <1>2
  <2>2. /\ num \in Seq(Nat) /\ Len(num) = Len(front) + Len(zeros)
        /\ \A i \in 1 .. Len(front) + Len(zeros) :
             num[i] = IF i <= Len(front) THEN front[i] ELSE zeros[i - Len(front)]
    BY <2>1, ConcatProperties
  <2> HIDE DEF num
  <2> QED BY <1>1, <1>2, <2>2
<1> HIDE DEF num
<1>4. \A i \in 1 .. k + n + z :
        num[i] = IF i <= k THEN den ELSE IF i <= k + n THEN lin[i - k] ELSE 0
  <2> SUFFICES ASSUME NEW i \in 1 .. k + n + z
               PROVE  num[i] = IF i <= k THEN den ELSE IF i <= k + n THEN lin[i - k] ELSE 0
    OBVIOUS
  <2>1. CASE i <= k
    BY <1>1, <1>2, <1>3, <2>1
  <2>2. CASE i > k /\ i <= k + n
    BY <1>2, <1>3, <2>2
  <2>3. CASE i > k + n
    <3>1. i - (k + n) \in 1 .. z
      BY <2>3
    <3> QED BY <1>1, <1>3, <2>3, <3>1
  <2> QED BY <2>1, <2>2, <2>3
<1>5. ASSUME NEW i \in 1 .. k + n + z, i < k + n + z
      PROVE  num[i + 1] <= num[i]
  <2>1. i + 1 \in 1 .. k + n + z /\ i + 1 - k = (i - k) + 1
    BY <1>5
  <2>2. CASE i + 1 <= k
    BY <1>4, <2>1, <2>2
  <2>3. CASE i = k /\ n > 0
    BY <1>4, <2>1, <2>3
  <2>4. CASE i > k /\ i + 1 <= k + n
    <3>1. i - k \in 1 .. n - 1
      BY <2>4
    <3> QED BY <1>4, <2>1, <2>4, <3>1
  <2>5. CASE i + 1 > k + n
    <3>1. num[i + 1] = 0
      BY <1>4, <2>1, <2>5
    <3>2. num[i] \in Nat
      BY <1>3, ElementOfSeq
    <3> QED BY <3>1, <3>2
  <2> QED BY <2>2, <2>3, <2>4, <2>5
<1>6. Falls([den |-> den, num |-> num], k, k + n, k + n + z)
  BY <1>3, <1>4, <1>5 DEF Falls
<1> QED BY <1>6 DEF num, front, ones, zeros

\* Ones, then zeros.
LEMMA StepFalls ==
  ASSUME NEW total \in Nat, NEW k \in Nat, NEW l \in Nat, NEW m \in Nat, k <= m, m <= l
  PROVE  Falls([den |-> 1, num |-> [i \in 1 .. total |-> IF i <= m THEN 1 ELSE 0]], k, l, total)
<1> DEFINE num == [i \in 1 .. total |-> IF i <= m THEN 1 ELSE 0]
<1>1. num \in [1 .. total -> Nat] /\ \A i \in 1 .. total : num[i] = IF i <= m THEN 1 ELSE 0
  OBVIOUS
<1> HIDE DEF num
<1>2. Len(num) = total
  BY <1>1, FunctionSeq
<1>3. ASSUME NEW i \in 1 .. total
      PROVE  /\ i <= k => num[i] = 1
             /\ i > l => num[i] = 0
             /\ i < total => num[i + 1] <= num[i]
  BY <1>1
<1>4. Falls([den |-> 1, num |-> num], k, l, total)
  BY <1>2, <1>3 DEF Falls
<1> QED BY <1>4 DEF num

\* The weights of every schedule fall from the frozen prefix to the horizon.
LEMMA PrefixFalls ==
  ASSUME NEW total \in Nat, NEW start0 \in Nat, NEW end \in 0 .. total, NEW kind
  PROVE  Falls(PrefixWeights(kind, start0, end, total), Least(start0, end), end, total)
<1> DEFINE start == Least(start0, end)
           n == end - start
           lin == LinWeights(n)
           bent == [i \in 1 .. n |-> lin[i] * lin[i]]
<1>1. /\ start \in Nat /\ start <= end /\ n \in Nat /\ Most(Least(end, total) - start, 0) = n
      /\ Least(start, total) = start /\ Most(total - end, 0) = total - end
      /\ start + n = end /\ start + n + (total - end) = total /\ total - end \in Nat
  BY DEF Least, Most
<1>2. CASE kind = "ZEROS"
  <2>1. PrefixWeights(kind, start0, end, total)
          = [den |-> 1, num |-> [i \in 1 .. total |-> IF i <= start THEN 1 ELSE 0]]
    BY <1>2 DEF PrefixWeights
  <2> HIDE DEF start
  <2>2. Falls([den |-> 1, num |-> [i \in 1 .. total |-> IF i <= start THEN 1 ELSE 0]],
              start, end, total)
    <3>1. end \in Nat /\ start \in Nat /\ start <= start /\ start <= end
      BY <1>1
    <3> QED BY <3>1, StepFalls
  <2> QED BY <2>1, <2>2 DEF start
<1>3. CASE kind = "ONES"
  <2>1. PrefixWeights(kind, start0, end, total)
          = [den |-> 1, num |-> [i \in 1 .. total |-> IF i <= end THEN 1 ELSE 0]]
    BY <1>3 DEF PrefixWeights
  <2> HIDE DEF start
  <2>2. Falls([den |-> 1, num |-> [i \in 1 .. total |-> IF i <= end THEN 1 ELSE 0]],
              start, end, total)
    <3>1. end \in Nat /\ end <= end
      OBVIOUS
    <3> QED BY <1>1, <3>1, StepFalls
  <2> QED BY <2>1, <2>2 DEF start
<1>4. /\ lin \in [1 .. n -> Nat] /\ \A i \in 1 .. n : lin[i] = n + 1 - i
  <2> HIDE DEF n
  <2> QED BY <1>1 DEF LinWeights
<1>5. CASE kind = "LINEAR"
  <2>1. PrefixWeights(kind, start0, end, total)
          = [den |-> n + 1, num |-> Constant(start, n + 1) \o lin \o Constant(total - end, 0)]
    <3>1. PrefixWeights(kind, start0, end, total)
            = [den |-> Most(Least(end, total) - start, 0) + 1,
               num |-> Constant(Least(start, total), Most(Least(end, total) - start, 0) + 1)
                         \o LinWeights(Most(Least(end, total) - start, 0))
                         \o Constant(Most(total - end, 0), 0)]
      BY <1>5 DEF PrefixWeights
    <3> HIDE DEF start, n
    <3> QED BY <1>1, <3>1
  <2> HIDE DEF start, n, lin
  <2>2. Falls([den |-> n + 1, num |-> Constant(start, n + 1) \o lin \o Constant(total - end, 0)],
              start, start + n, start + n + (total - end))
    <3>1. \A i \in 1 .. n : lin[i] <= n + 1
      BY <1>1, <1>4
    <3>2. \A i \in 1 .. n - 1 : lin[i + 1] <= lin[i]
      BY <1>1, <1>4
    <3>3. n + 1 \in Nat
      BY <1>1
    <3> QED BY <1>1, <1>4, <3>1, <3>2, <3>3, ShapeFalls
  <2> QED BY <1>1, <2>1, <2>2 DEF start
<1>6. CASE kind \notin {"ZEROS", "ONES", "LINEAR"}
  <2>1. PrefixWeights(kind, start0, end, total)
          = [den |-> (n + 1) * (n + 1),
             num |-> Constant(start, (n + 1) * (n + 1)) \o bent \o Constant(total - end, 0)]
    <3>1. PrefixWeights(kind, start0, end, total)
            = LET m == Most(Least(end, total) - start, 0)
              IN  [den |-> (m + 1) * (m + 1),
                   num |-> Constant(Least(start, total), (m + 1) * (m + 1))
                             \o [i \in 1 .. m |-> LinWeights(m)[i] * LinWeights(m)[i]]
                             \o Constant(Most(total - end, 0), 0)]
      BY <1>6 DEF PrefixWeights
    <3> HIDE DEF start, n
    <3> QED BY <1>1, <3>1
  <2>2. bent \in [1 .. n -> Nat] /\ \A i \in 1 .. n : bent[i] = lin[i] * lin[i]
    <3> HIDE DEF n, lin
    <3> QED BY <1>4
  <2>3. ASSUME NEW a \in Nat, NEW b \in Nat, a <= b
        PROVE  a * a <= b * b
    BY <2>3
  <2> HIDE DEF start, n, lin, bent
  <2>4. \A i \in 1 .. n : bent[i] <= (n + 1) * (n + 1)
    BY <1>1, <1>4, <2>2, <2>3
  <2>5. \A i \in 1 .. n - 1 : bent[i + 1] <= bent[i]
    BY <1>1, <1>4, <2>2, <2>3
  <2>6. (n + 1) * (n + 1) \in Nat
    BY <1>1
  <2>7. Falls([den |-> (n + 1) * (n + 1),
               num |-> Constant(start, (n + 1) * (n + 1)) \o bent \o Constant(total - end, 0)],
              start, start + n, start + n + (total - end))
    BY <1>1, <2>2, <2>4, <2>5, <2>6, ShapeFalls
  <2> QED BY <1>1, <2>1, <2>7 DEF start
<1> QED BY <1>2, <1>3, <1>5, <1>6

\* The leftover is no longer than a chunk, and the weights of a guided inference are
\* those of its leftover.
GuideInv ==
  /\ enabled => Len(queue) <= ChunkSize
  /\ guided => enabled /\ Len(left) <= ChunkSize
  /\ (pc = "infer" /\ guided) =>
       Falls(weights, Least(frozen, Least(horizon, Len(left))), Least(horizon, Len(left)), ChunkSize)

LEMMA GuideStep ==
  ASSUME BaseInv, GuideInv, [Next]_vars
  PROVE  GuideInv'
<1> USE DEF queueVars, loopVars, inferVars, trackVars, histVars
<1>0. /\ Len(queue) \in Nat /\ lastIndex \in 0 .. Len(queue) /\ Len(left) \in Nat
      /\ queue \in Seq(Action) /\ original = queue /\ ChunkSize \in Nat
  BY LenProperties, RtcAssumption DEF BaseInv, Base, DataOK, QueueInv
<1>1. CASE Get
  BY <1>1 DEF Get, GuideInv
<1>2. CASE Clear
  <2>1. queue' = << >> /\ Len(<< >>) = 0
    BY <1>2 DEF Clear
  <2> QED BY <1>0, <1>2, <2>1 DEF Clear, GuideInv
<1>3. CASE ReadIndex
  BY <1>3 DEF ReadIndex, GuideInv
<1>4. CASE ReadLeftOver
  <2>1. left' = From(queue, lastIndex)
    BY <1>0, <1>4 DEF ReadLeftOver, LeftOver
  <2>2. Len(left') = Len(queue) - lastIndex
    BY <1>0, <2>1, FromProperties
  <2>3. /\ guided' => enabled /\ UNCHANGED <<enabled, queue>> /\ pc' = "held"
    BY <1>4 DEF ReadLeftOver
  <2>4. Len(left') <= Len(queue)
    BY <1>0, <2>2
  <2> QED BY <1>0, <1>4, <2>3, <2>4 DEF ReadLeftOver, GuideInv
<1>5. CASE Observe
  <2>1. UNCHANGED <<enabled, queue, left, guided>>
    BY <1>5 DEF Observe
  <2>2. CASE guided
    <3>1. PICK d \in Predictions, h \in Horizons :
            frozen' = d /\ horizon' = h /\ weights' = Guidance(schedule, d, h)
      BY <1>5, <2>2 DEF Observe
    <3>2. d \in Nat /\ h \in Nat
      <4>1. \A i \in 1 .. Len(window) : window[i] \in 0 .. MaxTicks
        BY ElementOfSeq DEF BaseInv, Base, DataOK
      <4> QED BY <4>1, RtcAssumption DEF Predictions, BaseInv, Base, DataOK
    <3> DEFINE last == Least(h, Len(left))
    <3>3. last \in 0 .. ChunkSize
      BY <1>0, <2>2, <3>2 DEF GuideInv, Least
    <3>4. weights' = PrefixWeights(schedule, d, last, ChunkSize)
      BY <3>1 DEF Guidance
    <3> HIDE DEF last
    <3>5. Falls(weights', Least(d, last), last, ChunkSize)
      BY <1>0, <3>2, <3>3, <3>4, PrefixFalls
    <3> QED BY <2>1, <3>1, <3>5 DEF GuideInv, last
  <2>3. CASE ~guided
    BY <2>1, <2>3 DEF GuideInv
  <2> QED BY <2>2, <2>3
<1>6. CASE Measure
  BY <1>6 DEF Measure, GuideInv
<1>7. CASE Merge
  <2>1. enabled => Len(queue') = ChunkSize - Least(delay, ChunkSize)
    BY <1>7, MergedQueue DEF BaseInv, QueueInv
  <2>2. delay \in Nat
    BY RtcAssumption DEF BaseInv, Base, DataOK
  <2>3. enabled => Len(queue') <= ChunkSize
    BY <1>0, <2>1, <2>2 DEF Least
  <2> QED BY <1>7, <2>3 DEF Merge, GuideInv
<1>8. CASE UNCHANGED vars
  BY <1>8 DEF vars, GuideInv
<1> QED BY <1>1, <1>2, <1>3, <1>4, <1>5, <1>6, <1>7, <1>8 DEF Next

\* The guidance holds a chunk to actions that are left, never to the padding, whatever
\* the schedule, the latency and the horizon (get_prefix_weights, denoise_step).
THEOREM GuidedWithin == Spec => []GuidedByActions
<1>1. Init => GuideInv
  <2> SUFFICES ASSUME Init PROVE GuideInv
    OBVIOUS
  <2>1. queue = << >> /\ Len(<< >>) = 0 /\ ~guided /\ ChunkSize \in Nat
    BY RtcAssumption DEF Init
  <2> QED BY <2>1 DEF GuideInv
<1>2. BaseInv /\ GuideInv => GuidedByActions
  BY DEF GuideInv, GuidedByActions, Falls
<1>3. BaseInv /\ GuideInv /\ [Next]_vars => GuideInv'
  BY GuideStep
<1> QED BY <1>1, <1>2, <1>3, AlwaysBaseInv, PTL DEF Spec
=============================================================================
