----------------------------- MODULE ServingProofs -----------------------------
(***************************************************************************)
(* Theorems of the two programs in front of the worker.                    *)
(*                                                                         *)
(* The gateway's handler (GatewayWs), for any clients, every bound on the  *)
(* tasks in flight and any number of messages.  The argument is a count:   *)
(* the messages of a client that were read are the answers that went out   *)
(* and the tasks that are not over, and those are among the tasks in       *)
(* flight.                                                                 *)
(*                                                                         *)
(* The supervisor (Serve), for any number of signals and faults, and every *)
(* command line: what the worker runs with is computed in one step         *)
(* (InForce), which the first of the two lists does not change.            *)
(***************************************************************************)
EXTENDS GatewayWs, Serve, FiniteSetTheorems, SequenceTheorems, TLAPS

-----------------------------------------------------------------------------
(* GatewayWs: types.                                                       *)

LEMMA MessageOf ==
  ASSUME NEW m \in Messages
  PROVE  m[1] \in Clients /\ m[2] \in 1 .. MaxMessages /\ m = <<m[1], m[2]>>
BY DEF Messages

LEMMA AnswerTyped ==
  ASSUME TypeOK, NEW m \in Messages, Answer(m)
  PROVE  out' \in [Clients -> Seq(1 .. MaxMessages)]
<1>1. m[1] \in Clients /\ m[2] \in 1 .. MaxMessages
  BY MessageOf
<1>2. out \in [Clients -> Seq(1 .. MaxMessages)] /\ out[m[1]] \in Seq(1 .. MaxMessages)
  BY <1>1 DEF TypeOK
<1>3. Append(out[m[1]], m[2]) \in Seq(1 .. MaxMessages)
  BY <1>1, <1>2, AppendProperties
<1> QED BY <1>2, <1>3 DEF Answer

LEMMA NextMessage ==
  ASSUME TypeOK, NEW c \in Clients, MoreMessages(c)
  PROVE  /\ nread[c] \in Nat /\ nread[c] + 1 \in 1 .. MaxMessages
         /\ <<c, nread[c] + 1>> \in Messages
<1>1. nread[c] \in 0 .. MaxMessages /\ nread[c] < MaxMessages
  BY DEF TypeOK, MoreMessages
<1>2. nread[c] + 1 \in 1 .. MaxMessages
  BY <1>1, BoundsAssumption
<1> QED BY <1>1, <1>2, BoundsAssumption DEF Messages

LEMMA TypesInit == Init => TypeOK
<1> SUFFICES ASSUME Init PROVE TypeOK
  OBVIOUS
<1>1. << >> \in Seq(1 .. MaxMessages) /\ 0 \in 0 .. MaxMessages
  BY EmptySeq, BoundsAssumption
<1>2. out \in [Clients -> Seq(1 .. MaxMessages)] /\ nread \in [Clients -> 0 .. MaxMessages]
  BY <1>1 DEF Init
<1> QED BY <1>2 DEF Init, TypeOK

LEMMA TypesRead ==
  ASSUME TypeOK, NEW c \in Clients, NEW first \in {"decode", "reject"},
         ReadMessage(c, first) \/ ReadInline(c)
  PROVE  TypeOK'
<1> DEFINE m == <<c, nread[c] + 1>>
<1>1. MoreMessages(c)
  BY DEF ReadMessage, ReadInline
<1>2. m \in Messages /\ nread[c] + 1 \in 0 .. MaxMessages
  BY <1>1, NextMessage
<1>3. nread' \in [Clients -> 0 .. MaxMessages]
  <2>1. nread' = [nread EXCEPT ![c] = nread[c] + 1]
    BY DEF ReadMessage, ReadInline
  <2> QED BY <1>2, <2>1 DEF TypeOK
<1>4. CASE ReadMessage(c, first)
  <2>1. task' = [task EXCEPT ![m] = first] /\ inflight' = [inflight EXCEPT ![c] = @ \cup {m}]
        /\ UNCHANGED <<client, ahead, out>>
    BY <1>4 DEF ReadMessage
  <2>2. loop' = [loop EXCEPT ![c] = WhereAfter(inflight'[c])]
    BY <1>4 DEF ReadMessage
  <2>3. loop' \in [Clients -> {"read", "full", "drain", "done", "aborted"}]
    BY <2>2 DEF TypeOK, WhereAfter
  <2>4. inflight' \in [Clients -> SUBSET Messages]
    BY <1>2, <2>1 DEF TypeOK
  <2>5. task' \in [Messages -> {"none", "decode", "reject", "queued", "done", "cancelled"}]
    BY <2>1 DEF TypeOK
  <2> HIDE DEF m
  <2> QED BY <1>3, <2>1, <2>3, <2>4, <2>5 DEF TypeOK
<1>5. CASE ReadInline(c)
  <2>1. out' \in [Clients -> Seq(1 .. MaxMessages)]
    BY <1>2, <1>5, AnswerTyped DEF ReadInline
  <2>2. UNCHANGED <<client, inflight>>
    BY <1>5 DEF ReadInline
  <2>3. task' \in [Messages -> {"none", "decode", "reject", "queued", "done", "cancelled"}]
    <3>1. CASE client[c] = "open"
      BY <1>5, <3>1 DEF ReadInline, TypeOK
    <3>2. CASE client[c] # "open"
      <4>1. \E gone \in SUBSET Messages :
              task' = [x \in Messages |-> IF x \in gone THEN "cancelled" ELSE task[x]]
        <5> DEFINE gone == {x \in Messages : x = m \/ (x \in inflight[c] /\ task[x] \notin Finished)}
        <5>1. task' = [x \in Messages |-> IF x \in gone THEN "cancelled" ELSE task[x]]
          BY <1>5, <3>2 DEF ReadInline
        <5> QED BY <5>1
      <4> QED BY <4>1 DEF TypeOK
    <3> QED BY <3>1, <3>2
  <2>4. loop' \in [Clients -> {"read", "full", "drain", "done", "aborted"}]
    BY <1>5 DEF ReadInline, TypeOK
  <2>5. ahead' \in [Messages -> SUBSET Messages]
    <3>1. \/ ahead' = ahead
          \/ \E lost : ahead' = [x \in Messages |-> IF x \in lost THEN {} ELSE ahead[x] \ lost]
      BY <1>5 DEF ReadInline
    <3>2. ahead \in [Messages -> SUBSET Messages]
      BY DEF TypeOK
    <3>3. ASSUME NEW lost
          PROVE  [x \in Messages |-> IF x \in lost THEN {} ELSE ahead[x] \ lost]
                   \in [Messages -> SUBSET Messages]
      <4>1. \A x \in Messages : ahead[x] \ lost \in SUBSET Messages
        BY <3>2
      <4> QED BY <4>1
    <3> QED BY <3>1, <3>2, <3>3
  <2> QED BY <1>3, <2>1, <2>2, <2>3, <2>4, <2>5 DEF TypeOK
<1> QED BY <1>4, <1>5

LEMMA TypesLoop ==
  ASSUME TypeOK, NEW c \in Clients, Leave(c) \/ ReadLoop(c)
  PROVE  TypeOK'
<1>1. CASE Leave(c)
  BY <1>1 DEF Leave, TypeOK
<1>2. CASE Prune(c)
  <2>1. /\ inflight' = [inflight EXCEPT ![c] = {m \in @ : task[m] \notin Finished}]
        /\ loop' = [loop EXCEPT ![c] = WhereAfter(inflight'[c])]
        /\ UNCHANGED <<client, nread, task, ahead, out>>
    BY <1>2 DEF Prune
  <2>2. loop' \in [Clients -> {"read", "full", "drain", "done", "aborted"}]
    BY <2>1 DEF TypeOK, WhereAfter
  <2>3. inflight' \in [Clients -> SUBSET Messages]
    BY <2>1 DEF TypeOK
  <2> QED BY <2>1, <2>2, <2>3 DEF TypeOK
<1>3. CASE EndOfStream(c)
  BY <1>3 DEF EndOfStream, TypeOK
<1>4. CASE Drained(c)
  BY <1>4 DEF Drained, TypeOK
<1> QED BY <1>1, <1>2, <1>3, <1>4 DEF ReadLoop

LEMMA TypesTask ==
  ASSUME TypeOK, NEW m \in Messages, Task(m) \/ Served(m)
  PROVE  TypeOK'
<1>1. CASE Decoded(m)
  BY <1>1 DEF Decoded, TypeOK
<1>2. CASE Reject(m) \/ Served(m)
  <2>1. out' \in [Clients -> Seq(1 .. MaxMessages)]
    BY <1>2, AnswerTyped DEF Reject, Served
  <2>2. UNCHANGED <<client, loop, nread, inflight>>
    BY <1>2 DEF Reject, Served
  <2>3. task' \in [Messages -> {"none", "decode", "reject", "queued", "done", "cancelled"}]
    BY <1>2 DEF Reject, Served, TypeOK
  <2>4. ahead' \in [Messages -> SUBSET Messages]
    BY <1>2 DEF Reject, Served, TypeOK
  <2> QED BY <2>1, <2>2, <2>3, <2>4 DEF TypeOK
<1> QED BY <1>1, <1>2 DEF Task

LEMMA GatewayTypeCorrect == Spec => []TypeOK
<1>1. TypeOK /\ [Next]_vars => TypeOK'
  <2> SUFFICES ASSUME TypeOK, [Next]_vars PROVE TypeOK'
    OBVIOUS
  <2>1. CASE UNCHANGED vars
    BY <2>1 DEF TypeOK, vars
  <2> QED BY <2>1, TypesRead, TypesLoop, TypesTask DEF Next
<1> QED BY <1>1, TypesInit, PTL DEF Spec

-----------------------------------------------------------------------------
(* The inductive invariant.                                                *)

Busy == {"decode", "reject", "queued"}

\* The messages that were read have a task, and one that is not over is in flight.
Tasks(c) ==
  \A n \in 1 .. MaxMessages :
    /\ task[<<c, n>>] = "none" <=> n > nread[c]
    /\ task[<<c, n>>] \in Busy => <<c, n>> \in inflight[c]

\* The list holds tasks of this connection, never more than its bound, and there
\* is room for one more when the loop reads.
InFlight(c) ==
  /\ IsFiniteSet(inflight[c])
  /\ \A m \in inflight[c] : m[1] = c /\ task[m] # "none"
  /\ Cardinality(inflight[c]) <= MaxInflight
  /\ loop[c] = "read" => Cardinality(inflight[c]) < MaxInflight

\* What has been answered is over; and while the client is there what is over has
\* been answered, so that what was read is answered or not over.
Answered(c) ==
  /\ \A i, j \in 1 .. Len(out[c]) : out[c][i] = out[c][j] => i = j
  /\ \A i \in 1 .. Len(out[c]) : task[<<c, out[c][i]>>] \in Finished
  /\ \A i \in 1 .. Len(out[c]) : out[c][i] <= i + MaxInflight - 1

OverIsAnswered(c) ==
  \A n \in 1 .. MaxMessages :
    task[<<c, n>>] \in Finished => \E i \in 1 .. Len(out[c]) : out[c][i] = n

Settled(c) ==
  /\ OverIsAnswered(c)
  /\ nread[c] = Len(out[c]) + Cardinality(Unfinished(c))

ClientInv(c) ==
  /\ Tasks(c) /\ InFlight(c) /\ Answered(c)
  /\ client[c] = "open" => Settled(c)

Inv == TypeOK /\ \A c \in Clients : ClientInv(c)

\* A task that is not over is in flight, so there are finitely many, and no more
\* than the list holds.
LEMMA UnfinishedInFlight ==
  ASSUME TypeOK, NEW c \in Clients, Tasks(c), InFlight(c)
  PROVE  /\ Unfinished(c) \subseteq inflight[c]
         /\ IsFiniteSet(Unfinished(c)) /\ Cardinality(Unfinished(c)) \in Nat
         /\ Cardinality(inflight[c]) \in Nat
         /\ Cardinality(Unfinished(c)) <= Cardinality(inflight[c])
<1>1. ASSUME NEW m \in Unfinished(c)
      PROVE  m \in inflight[c]
  <2>1. m \in Messages /\ m[1] = c /\ task[m] \in Busy
    BY DEF Unfinished, Busy
  <2>2. m[2] \in 1 .. MaxMessages /\ m = <<c, m[2]>>
    BY <2>1, MessageOf
  <2> QED BY <2>1, <2>2 DEF Tasks
<1>2. Unfinished(c) \in SUBSET inflight[c]
  BY <1>1
<1>3. IsFiniteSet(inflight[c])
  BY DEF InFlight
<1> QED BY <1>2, <1>3, FS_Subset, FS_CardinalityType

\* What a step leaves alone of a connection keeps its invariant.
LEMMA OthersUntouched ==
  ASSUME TypeOK, NEW c \in Clients, ClientInv(c),
         client'[c] = client[c], loop'[c] = loop[c], nread'[c] = nread[c],
         inflight'[c] = inflight[c], out'[c] = out[c],
         \A m \in Messages : m[1] = c => task'[m] = task[m]
  PROVE  ClientInv(c)'
<1>1. \A n \in 1 .. MaxMessages : <<c, n>> \in Messages /\ task'[<<c, n>>] = task[<<c, n>>]
  BY DEF Messages
<1>2. Tasks(c)'
  BY <1>1 DEF ClientInv, Tasks
<1>3. InFlight(c)'
  BY DEF ClientInv, InFlight, TypeOK
<1>4. \A i \in 1 .. Len(out[c]) : out[c][i] \in 1 .. MaxMessages
  BY ElementOfSeq DEF TypeOK
<1>5. Answered(c)'
  BY <1>1, <1>4 DEF ClientInv, Answered
<1>6. Unfinished(c)' = Unfinished(c)
  BY DEF Unfinished
<1>7. Settled(c) => Settled(c)'
  BY <1>1, <1>6 DEF Settled, OverIsAnswered
<1> QED BY <1>2, <1>3, <1>5, <1>7 DEF ClientInv

-----------------------------------------------------------------------------
(* An answer.                                                              *)

\* A message that was not over is answered: it is in no earlier place.
LEMMA AnswerKeeps ==
  ASSUME TypeOK, NEW c \in Clients, NEW n \in 1 .. MaxMessages, Answered(c), Answer(<<c, n>>),
         task[<<c, n>>] \notin Finished, task'[<<c, n>>] = "done",
         \A k \in 1 .. MaxMessages : k # n => task'[<<c, k>>] = task[<<c, k>>],
         client[c] = "open" => n <= Len(out[c]) + MaxInflight
  PROVE  /\ Answered(c)'
         /\ client[c] = "open" => /\ Len(out[c]) \in Nat /\ Len(out'[c]) = Len(out[c]) + 1
                                  /\ OverIsAnswered(c) => OverIsAnswered(c)'
<1>1. out[c] \in Seq(1 .. MaxMessages) /\ Len(out[c]) \in Nat
  BY LenProperties DEF TypeOK
<1>2. \A i \in 1 .. Len(out[c]) : out[c][i] \in 1 .. MaxMessages
  BY <1>1, ElementOfSeq
<1>3. \A i \in 1 .. Len(out[c]) :
        /\ out[c][i] # n
        /\ task'[<<c, out[c][i]>>] = task[<<c, out[c][i]>>]
        /\ task[<<c, out[c][i]>>] \in Finished
  BY <1>2 DEF Answered
<1>4. CASE client[c] # "open"
  <2>1. out'[c] = out[c]
    BY <1>4 DEF Answer
  <2>2. \A i \in 1 .. Len(out'[c]) : task'[<<c, out'[c][i]>>] \in Finished
    BY <1>3, <2>1
  <2> QED BY <1>4, <2>1, <2>2 DEF Answered
<1>5. CASE client[c] = "open"
  <2>1. out'[c] = Append(out[c], n)
    BY <1>5 DEF Answer, TypeOK
  <2>2. /\ Len(out'[c]) = Len(out[c]) + 1
        /\ \A i \in 1 .. Len(out[c]) : out'[c][i] = out[c][i]
        /\ out'[c][Len(out[c]) + 1] = n
    BY <1>1, <2>1, AppendProperties
  <2>3. \A i \in 1 .. Len(out'[c]) : i \in 1 .. Len(out[c]) \/ i = Len(out[c]) + 1
    BY <1>1, <2>2
  <2>4. ASSUME NEW i \in 1 .. Len(out'[c]), NEW j \in 1 .. Len(out'[c]),
               out'[c][i] = out'[c][j]
        PROVE  i = j
    <3>1. CASE i \in 1 .. Len(out[c]) /\ j \in 1 .. Len(out[c])
      BY <2>2, <2>4, <3>1 DEF Answered
    <3>2. CASE i \in 1 .. Len(out[c]) /\ j = Len(out[c]) + 1
      BY <1>3, <2>2, <2>4, <3>2
    <3>3. CASE i = Len(out[c]) + 1 /\ j \in 1 .. Len(out[c])
      BY <1>3, <2>2, <2>4, <3>3
    <3>4. CASE i = Len(out[c]) + 1 /\ j = Len(out[c]) + 1
      BY <3>4
    <3> QED BY <2>3, <3>1, <3>2, <3>3, <3>4
  <2>5. ASSUME NEW i \in 1 .. Len(out'[c])
        PROVE  task'[<<c, out'[c][i]>>] \in Finished
    <3>1. CASE i \in 1 .. Len(out[c])
      BY <1>3, <2>2, <3>1
    <3>2. CASE i = Len(out[c]) + 1
      BY <2>2, <3>2 DEF Finished
    <3> QED BY <2>3, <3>1, <3>2
  <2>6. ASSUME NEW i \in 1 .. Len(out'[c])
        PROVE  out'[c][i] <= i + MaxInflight - 1
    <3>1. CASE i \in 1 .. Len(out[c])
      BY <2>2, <3>1 DEF Answered
    <3>2. CASE i = Len(out[c]) + 1
      <4>1. out'[c][i] = n /\ n <= Len(out[c]) + MaxInflight
        BY <1>5, <2>2, <3>2
      <4> QED BY <1>1, <3>2, <4>1, BoundsAssumption
    <3> QED BY <2>3, <3>1, <3>2
  <2>7. Answered(c)'
    BY <2>4, <2>5, <2>6 DEF Answered
  <2>8. ASSUME OverIsAnswered(c), NEW k \in 1 .. MaxMessages, task'[<<c, k>>] \in Finished
        PROVE  \E i \in 1 .. Len(out'[c]) : out'[c][i] = k
    <3>1. CASE k = n
      <4>1. Len(out[c]) + 1 \in 1 .. Len(out'[c])
        BY <1>1, <2>2
      <4> QED BY <2>2, <3>1, <4>1
    <3>2. CASE k # n
      <4>1. PICK i \in 1 .. Len(out[c]) : out[c][i] = k
        BY <2>8, <3>2 DEF OverIsAnswered
      <4>2. i \in 1 .. Len(out'[c])
        BY <1>1, <2>2
      <4> QED BY <2>2, <4>1, <4>2
    <3> QED BY <3>1, <3>2
  <2> QED BY <1>1, <2>2, <2>7, <2>8 DEF OverIsAnswered
<1> QED BY <1>4, <1>5

-----------------------------------------------------------------------------
(* The client and handle_ws.                                               *)

LEMMA LeaveKeeps ==
  ASSUME TypeOK, NEW c \in Clients, ClientInv(c), Leave(c)
  PROVE  ClientInv(c)'
<1>1. client'[c] = "gone" /\ UNCHANGED <<loop, nread, inflight, task, out>>
  BY DEF Leave, TypeOK
<1>2. Tasks(c)' /\ InFlight(c)' /\ Answered(c)'
  BY <1>1 DEF ClientInv, Tasks, InFlight, Answered
<1> QED BY <1>1, <1>2 DEF ClientInv

LEMMA EndKeeps ==
  ASSUME TypeOK, NEW c \in Clients, ClientInv(c), EndOfStream(c) \/ Drained(c)
  PROVE  ClientInv(c)'
<1>1. loop'[c] # "read" /\ UNCHANGED <<client, nread, inflight, task, out>>
  BY DEF EndOfStream, Drained, TypeOK
<1>2. Tasks(c)' /\ Answered(c)'
  BY <1>1 DEF ClientInv, Tasks, Answered
<1>3. InFlight(c)'
  BY <1>1 DEF ClientInv, InFlight
<1>4. Settled(c) => Settled(c)'
  <2>1. Unfinished(c)' = Unfinished(c)
    BY <1>1 DEF Unfinished
  <2> QED BY <1>1, <2>1 DEF Settled, OverIsAnswered
<1> QED BY <1>1, <1>2, <1>3, <1>4 DEF ClientInv

\* The list only loses tasks that are over.
LEMMA PruneKeeps ==
  ASSUME TypeOK, NEW c \in Clients, ClientInv(c), Prune(c)
  PROVE  ClientInv(c)'
<1> DEFINE left == {m \in inflight[c] : task[m] \notin Finished}
<1>1. /\ inflight'[c] = left /\ loop'[c] = WhereAfter(inflight'[c])
      /\ UNCHANGED <<client, nread, task, out>>
  BY DEF Prune, TypeOK
<1>2. Tasks(c)'
  <2>1. \A n \in 1 .. MaxMessages :
          task[<<c, n>>] \in Busy => <<c, n>> \in left
    BY DEF ClientInv, Tasks, Busy, Finished
  <2> QED BY <1>1, <2>1 DEF ClientInv, Tasks
<1>3. InFlight(c)'
  <2>1. IsFiniteSet(inflight[c]) /\ left \in SUBSET inflight[c]
    BY DEF ClientInv, InFlight
  <2>2. IsFiniteSet(left) /\ Cardinality(left) <= Cardinality(inflight[c])
    BY <2>1, FS_Subset
  <2>3. Cardinality(inflight[c]) \in Nat /\ Cardinality(left) \in Nat
    BY <2>1, <2>2, FS_CardinalityType
  <2>4. Cardinality(inflight[c]) <= MaxInflight /\ \A m \in left : m[1] = c /\ task[m] # "none"
    BY DEF ClientInv, InFlight
  <2> HIDE DEF left
  <2>5. Cardinality(left) <= MaxInflight
    BY <2>2, <2>3, <2>4, BoundsAssumption
  <2>6. loop'[c] = "read" => Cardinality(left) < MaxInflight
    BY <1>1, <2>3, BoundsAssumption DEF WhereAfter
  <2> QED BY <1>1, <2>2, <2>4, <2>5, <2>6 DEF InFlight
<1>4. Answered(c)'
  BY <1>1 DEF ClientInv, Answered
<1>5. Settled(c) => Settled(c)'
  <2>1. Unfinished(c)' = Unfinished(c)
    BY <1>1 DEF Unfinished
  <2> QED BY <1>1, <2>1 DEF Settled, OverIsAnswered
<1> QED BY <1>1, <1>2, <1>3, <1>4, <1>5 DEF ClientInv

\* There is room for one more task when the loop reads.
LEMMA ReadKeeps ==
  ASSUME TypeOK, NEW c \in Clients, ClientInv(c), NEW first \in {"decode", "reject"},
         ReadMessage(c, first)
  PROVE  ClientInv(c)'
<1> DEFINE n == nread[c] + 1
           m == <<c, n>>
<1>1. n \in 1 .. MaxMessages /\ m \in Messages /\ nread[c] \in Nat
  BY NextMessage DEF ReadMessage
<1>2. /\ loop[c] = "read" /\ nread'[c] = n /\ inflight'[c] = inflight[c] \cup {m}
      /\ loop'[c] = WhereAfter(inflight'[c]) /\ UNCHANGED <<client, out>>
  BY DEF ReadMessage, TypeOK
<1>3. task'[m] = first /\ \A x \in Messages : x # m => task'[x] = task[x]
  BY <1>1 DEF ReadMessage, TypeOK
<1>4. task[m] = "none"
  BY <1>1 DEF ClientInv, Tasks
<1>5. \A k \in 1 .. MaxMessages : <<c, k>> \in Messages /\ (k # n => <<c, k>> # m)
  BY DEF Messages
<1>6. first \in Busy /\ first # "none" /\ first \notin Finished
  BY DEF Busy, Finished
<1>7. Tasks(c)'
  <2>1. ASSUME NEW k \in 1 .. MaxMessages
        PROVE  /\ task'[<<c, k>>] = "none" <=> k > n
               /\ task'[<<c, k>>] \in Busy => <<c, k>> \in inflight'[c]
    <3>1. CASE k = n
      BY <1>1, <1>2, <1>3, <1>6, <3>1
    <3>2. CASE k # n
      <4>1. task'[<<c, k>>] = task[<<c, k>>]
        BY <1>3, <1>5, <3>2
      <4>2. k > nread[c] <=> k > n
        BY <1>1, <3>2
      <4>3. task[<<c, k>>] = "none" <=> k > nread[c]
        BY DEF ClientInv, Tasks
      <4>4. task[<<c, k>>] \in Busy => <<c, k>> \in inflight[c]
        BY DEF ClientInv, Tasks
      <4> HIDE DEF n, m
      <4> QED BY <1>2, <4>1, <4>2, <4>3, <4>4
    <3> QED BY <3>1, <3>2
  <2> QED BY <1>2, <2>1 DEF Tasks
<1>8. InFlight(c)'
  <2>1. /\ IsFiniteSet(inflight[c]) /\ Cardinality(inflight[c]) < MaxInflight
        /\ \A x \in inflight[c] : x[1] = c /\ task[x] # "none"
    BY <1>2 DEF ClientInv, InFlight
  <2>2. Cardinality(inflight[c]) \in Nat
    BY <2>1, FS_CardinalityType
  <2>3. /\ IsFiniteSet(inflight'[c])
        /\ \/ Cardinality(inflight'[c]) = Cardinality(inflight[c])
           \/ Cardinality(inflight'[c]) = Cardinality(inflight[c]) + 1
    <3> HIDE DEF m
    <3>1. /\ IsFiniteSet(inflight[c] \cup {m})
          /\ Cardinality(inflight[c] \cup {m})
               = IF m \in inflight[c] THEN Cardinality(inflight[c]) ELSE Cardinality(inflight[c]) + 1
      BY <2>1, FS_AddElement
    <3>2. inflight'[c] = inflight[c] \cup {m}
      BY <1>2
    <3> QED BY <3>1, <3>2
  <2>4. Cardinality(inflight'[c]) \in Nat /\ Cardinality(inflight'[c]) <= MaxInflight
    BY <2>1, <2>2, <2>3, BoundsAssumption
  <2>5. loop'[c] = "read" => Cardinality(inflight'[c]) < MaxInflight
    BY <1>2, <2>4, BoundsAssumption DEF WhereAfter
  <2>6. ASSUME NEW x \in inflight'[c]
        PROVE  x[1] = c /\ task'[x] # "none"
    <3>1. CASE x = m
      BY <1>3, <1>6, <3>1
    <3>2. CASE x # m
      <4>1. x \in inflight[c] /\ x \in Messages
        BY <1>2, <3>2 DEF TypeOK
      <4> QED BY <1>3, <2>1, <3>2, <4>1
    <3> QED BY <3>1, <3>2
  <2> QED BY <2>3, <2>4, <2>5, <2>6 DEF InFlight
<1>9. \A k \in 1 .. MaxMessages : task[<<c, k>>] \in Finished => task'[<<c, k>>] = task[<<c, k>>]
  BY <1>3, <1>4, <1>5 DEF Finished
<1>10. Answered(c)'
  <2>1. \A i \in 1 .. Len(out[c]) : out[c][i] \in 1 .. MaxMessages
    BY ElementOfSeq DEF TypeOK
  <2> QED BY <1>2, <1>9, <2>1 DEF ClientInv, Answered
<1>11. ASSUME Settled(c)
       PROVE  Settled(c)'
  <2>1. Unfinished(c)' = Unfinished(c) \cup {m}
    BY <1>1, <1>3, <1>6 DEF Unfinished, Busy
  <2>2. m \notin Unfinished(c)
    BY <1>4 DEF Unfinished
  <2>3. IsFiniteSet(Unfinished(c)) /\ Cardinality(Unfinished(c)) \in Nat
    BY UnfinishedInFlight DEF ClientInv
  <2>4. Cardinality(Unfinished(c) \cup {m}) = Cardinality(Unfinished(c)) + 1
    BY <2>2, <2>3, FS_AddElement
  <2>5. nread[c] = Len(out[c]) + Cardinality(Unfinished(c)) /\ Len(out[c]) \in Nat
    BY <1>11, LenProperties DEF Settled, TypeOK
  <2>6. n = Len(out[c]) + Cardinality(Unfinished(c) \cup {m})
    BY <2>3, <2>4, <2>5
  <2>7. OverIsAnswered(c)'
    <3>1. \A k \in 1 .. MaxMessages : task'[<<c, k>>] \in Finished => task[<<c, k>>] \in Finished
      BY <1>3, <1>5, <1>6
    <3> QED BY <1>2, <1>11, <3>1 DEF Settled, OverIsAnswered
  <2> QED BY <1>2, <2>1, <2>6, <2>7 DEF Settled
<1> QED BY <1>2, <1>7, <1>8, <1>10, <1>11 DEF ClientInv

\* The loop answers itself: while the client is there that is an answer like any
\* other, afterwards the tasks of the connection are cancelled and no more.
LEMMA InlineKeeps ==
  ASSUME TypeOK, NEW c \in Clients, ClientInv(c), ReadInline(c)
  PROVE  ClientInv(c)'
<1> DEFINE n == nread[c] + 1
           m == <<c, n>>
<1>1. n \in 1 .. MaxMessages /\ m \in Messages /\ nread[c] \in Nat
  BY NextMessage DEF ReadInline
<1>2. /\ loop[c] = "read" /\ nread'[c] = n /\ Answer(m) /\ UNCHANGED <<client, inflight>>
  BY DEF ReadInline, TypeOK
<1>3. \A k \in 1 .. MaxMessages : <<c, k>> \in Messages /\ (k # n => <<c, k>> # m)
  BY DEF Messages
<1>4. task[m] = "none"
  BY <1>1 DEF ClientInv, Tasks
<1>5. \A k \in 1 .. MaxMessages : k # n => (k > nread[c] <=> k > n)
  BY <1>1
<1>6. CASE client[c] = "open"
  <2>1. UNCHANGED loop /\ task' = [task EXCEPT ![m] = "done"]
    BY <1>6 DEF ReadInline
  <2>2. task'[m] = "done" /\ \A x \in Messages : x # m => task'[x] = task[x]
    BY <1>1, <2>1 DEF TypeOK
  <2>3. \A k \in 1 .. MaxMessages : k # n => task'[<<c, k>>] = task[<<c, k>>]
    BY <1>3, <2>2
  <2>4. Tasks(c)'
    <3>1. ASSUME NEW k \in 1 .. MaxMessages
          PROVE  /\ task'[<<c, k>>] = "none" <=> k > n
                 /\ task'[<<c, k>>] \in Busy => <<c, k>> \in inflight[c]
      <4>1. CASE k = n
        BY <1>1, <2>2, <4>1 DEF Busy
      <4>2. CASE k # n
        BY <1>5, <2>3, <4>2 DEF ClientInv, Tasks
      <4> QED BY <4>1, <4>2
    <3> QED BY <1>2, <3>1 DEF Tasks
  <2>5. InFlight(c)'
    <3>1. \A x \in inflight[c] : x \in Messages /\ x # m
      BY <1>4 DEF ClientInv, InFlight, TypeOK
    <3> QED BY <1>2, <2>1, <2>2, <3>1 DEF ClientInv, InFlight
  <2>6. Settled(c) /\ Cardinality(inflight[c]) < MaxInflight
    BY <1>2, <1>6 DEF ClientInv, InFlight
  <2>7. Len(out[c]) \in Nat /\ Cardinality(Unfinished(c)) \in Nat
        /\ Cardinality(inflight[c]) \in Nat
        /\ Cardinality(Unfinished(c)) <= Cardinality(inflight[c])
        /\ nread[c] = Len(out[c]) + Cardinality(Unfinished(c))
    BY <2>6, UnfinishedInFlight, LenProperties DEF ClientInv, Settled, TypeOK
  <2>8. n <= Len(out[c]) + MaxInflight
    BY <2>6, <2>7, BoundsAssumption
  <2>9. task[m] \notin Finished
    BY <1>4 DEF Finished
  <2>10. /\ Answered(c)' /\ Len(out'[c]) = Len(out[c]) + 1
         /\ OverIsAnswered(c)'
    BY <1>1, <1>2, <1>6, <2>2, <2>3, <2>6, <2>8, <2>9, AnswerKeeps DEF ClientInv, Settled
  <2>11. Unfinished(c)' = Unfinished(c)
    BY <1>1, <1>4, <2>2 DEF Unfinished
  <2>12. n = Len(out'[c]) + Cardinality(Unfinished(c))
    BY <2>7, <2>10
  <2>13. Settled(c)'
    BY <1>2, <2>10, <2>11, <2>12 DEF Settled
  <2> QED BY <2>4, <2>5, <2>10, <2>13 DEF ClientInv
<1>7. CASE client[c] # "open"
  <2> DEFINE lost == {x \in inflight[c] : task[x] \notin Finished}
  <2>1. /\ loop'[c] = "aborted" /\ out'[c] = out[c]
        /\ \A x \in Messages : task'[x] = IF x = m \/ x \in lost THEN "cancelled" ELSE task[x]
    BY <1>2, <1>7 DEF ReadInline, Answer, TypeOK
  <2>2. task'[m] = "cancelled"
    BY <1>1, <2>1
  <2>3. \A x \in Messages : x # m => task'[x] = task[x] \/ (x \in inflight[c] /\ task'[x] = "cancelled")
    BY <2>1
  <2>4. \A x \in Messages : task[x] \in Finished => task'[x] \in Finished
    BY <2>1 DEF Finished
  <2> HIDE DEF lost
  <2>5. \A x \in inflight[c] : x \in Messages /\ task[x] # "none" /\ x[1] = c
    BY DEF ClientInv, InFlight, TypeOK
  <2>6. Tasks(c)'
    <3>1. ASSUME NEW k \in 1 .. MaxMessages
          PROVE  /\ task'[<<c, k>>] = "none" <=> k > n
                 /\ task'[<<c, k>>] \in Busy => <<c, k>> \in inflight[c]
      <4>1. CASE k = n
        BY <1>1, <2>2, <4>1 DEF Busy
      <4>2. CASE k # n
        <5>1. /\ task[<<c, k>>] = "none" <=> k > n
              /\ task[<<c, k>>] \in Busy => <<c, k>> \in inflight[c]
          BY <1>5, <4>2 DEF ClientInv, Tasks
        <5>2. \/ task'[<<c, k>>] = task[<<c, k>>]
              \/ <<c, k>> \in inflight[c] /\ task'[<<c, k>>] = "cancelled"
          BY <1>3, <2>3, <4>2
        <5> QED BY <2>5, <5>1, <5>2
      <4> QED BY <4>1, <4>2
    <3> QED BY <1>2, <3>1 DEF Tasks
  <2>7. InFlight(c)'
    <3>1. \A x \in inflight[c] : x[1] = c /\ task'[x] # "none"
      BY <1>4, <2>3, <2>5
    <3> QED BY <1>2, <2>1, <3>1 DEF ClientInv, InFlight
  <2>8. Answered(c)'
    <3>1. \A i \in 1 .. Len(out[c]) : <<c, out[c][i]>> \in Messages
      BY <1>3, ElementOfSeq DEF TypeOK
    <3> QED BY <2>1, <2>4, <3>1 DEF ClientInv, Answered
  <2> QED BY <1>2, <1>7, <2>6, <2>7, <2>8 DEF ClientInv
<1> QED BY <1>6, <1>7

-----------------------------------------------------------------------------
(* The tasks.                                                              *)

LEMMA DecodedKeeps ==
  ASSUME TypeOK, NEW m \in Messages, NEW c \in Clients, c = m[1], ClientInv(c), Decoded(m)
  PROVE  ClientInv(c)'
<1>1. /\ task[m] = "decode" /\ task'[m] = "queued"
      /\ \A x \in Messages : x # m => task'[x] = task[x]
      /\ UNCHANGED <<client, loop, nread, inflight, out>>
  BY DEF Decoded, TypeOK
<1>2. \A x \in Messages : /\ task'[x] \in Busy <=> task[x] \in Busy
                          /\ task'[x] = "none" <=> task[x] = "none"
                          /\ task'[x] \in Finished <=> task[x] \in Finished
  BY <1>1 DEF Busy, Finished
<1>3. \A k \in 1 .. MaxMessages : <<c, k>> \in Messages
  BY DEF Messages
<1>4. Tasks(c)'
  BY <1>1, <1>2, <1>3 DEF ClientInv, Tasks
<1>5. InFlight(c)'
  <2>1. \A x \in inflight[c] : x \in Messages
    BY DEF TypeOK
  <2> QED BY <1>1, <1>2, <2>1 DEF ClientInv, InFlight
<1>6. Answered(c)'
  <2>1. \A i \in 1 .. Len(out[c]) : <<c, out[c][i]>> \in Messages
    BY <1>3, ElementOfSeq DEF TypeOK
  <2> QED BY <1>1, <1>2, <2>1 DEF ClientInv, Answered
<1>7. Settled(c) => Settled(c)'
  <2>1. Unfinished(c)' = Unfinished(c)
    BY <1>2 DEF Unfinished, Busy
  <2> QED BY <1>1, <1>2, <1>3, <2>1 DEF Settled, OverIsAnswered
<1> QED BY <1>1, <1>4, <1>5, <1>6, <1>7 DEF ClientInv

\* A task that ends with its answer was not over, so its message is one of those
\* that are read and not answered, and they are no more than the list may hold.
LEMMA OverKeeps ==
  ASSUME TypeOK, NEW m \in Messages, NEW c \in Clients, c = m[1], ClientInv(c),
         Reject(m) \/ Served(m)
  PROVE  ClientInv(c)'
<1> DEFINE n == m[2]
<1>1. n \in 1 .. MaxMessages /\ m = <<c, n>>
  BY MessageOf
<1>2. /\ task[m] \in Busy /\ task'[m] = "done" /\ Answer(m)
      /\ \A x \in Messages : x # m => task'[x] = task[x]
      /\ UNCHANGED <<client, loop, nread, inflight>>
  BY DEF Reject, Served, TypeOK, Busy
<1>3. \A k \in 1 .. MaxMessages : <<c, k>> \in Messages /\ (k # n => <<c, k>> # m)
  BY <1>1 DEF Messages
<1>4. \A k \in 1 .. MaxMessages : k # n => task'[<<c, k>>] = task[<<c, k>>]
  BY <1>2, <1>3
<1>5. task[m] # "none" /\ task[m] \notin Finished
  BY <1>2 DEF Busy, Finished
<1>6. m \in Unfinished(c)
  BY <1>2 DEF Unfinished, Busy
<1> HIDE DEF n
<1>7. Tasks(c)'
  <2>1. ASSUME NEW k \in 1 .. MaxMessages
        PROVE  /\ task'[<<c, k>>] = "none" <=> k > nread[c]
               /\ task'[<<c, k>>] \in Busy => <<c, k>> \in inflight[c]
    <3>1. CASE k = n
      BY <1>1, <1>2, <1>5, <3>1 DEF ClientInv, Tasks, Busy
    <3>2. CASE k # n
      BY <1>4, <3>2 DEF ClientInv, Tasks
    <3> QED BY <3>1, <3>2
  <2> QED BY <1>2, <2>1 DEF Tasks
<1>8. InFlight(c)'
  <2>1. \A x \in inflight[c] : x \in Messages
    BY DEF TypeOK
  <2>2. \A x \in inflight[c] : task'[x] # "none"
    BY <1>2, <2>1 DEF ClientInv, InFlight
  <2> QED BY <1>2, <2>2 DEF ClientInv, InFlight
<1>9. /\ IsFiniteSet(Unfinished(c)) /\ Cardinality(Unfinished(c)) \in Nat
      /\ Cardinality(inflight[c]) \in Nat /\ Cardinality(inflight[c]) <= MaxInflight
      /\ Cardinality(Unfinished(c)) <= Cardinality(inflight[c])
  BY UnfinishedInFlight DEF ClientInv, InFlight
<1>10. client[c] = "open" => n <= Len(out[c]) + MaxInflight
  <2> SUFFICES ASSUME client[c] = "open" PROVE n <= Len(out[c]) + MaxInflight
    OBVIOUS
  <2>1. nread[c] = Len(out[c]) + Cardinality(Unfinished(c)) /\ Len(out[c]) \in Nat
    BY LenProperties DEF ClientInv, Settled, TypeOK
  <2>2. nread[c] \in Nat /\ ~(n > nread[c])
    BY <1>1, <1>5 DEF ClientInv, Tasks, TypeOK
  <2> QED BY <1>1, <1>9, <2>1, <2>2, BoundsAssumption
<1>11. Answered(c) /\ task[<<c, n>>] \notin Finished /\ task'[<<c, n>>] = "done" /\ Answer(<<c, n>>)
  BY <1>1, <1>2, <1>5 DEF ClientInv
<1>12. /\ Answered(c)'
       /\ client[c] = "open" => /\ Len(out[c]) \in Nat /\ Len(out'[c]) = Len(out[c]) + 1
                                /\ OverIsAnswered(c) => OverIsAnswered(c)'
  BY <1>1, <1>4, <1>10, <1>11, AnswerKeeps
<1>13. ASSUME client[c] = "open"
       PROVE  Settled(c)'
  <2>1. Unfinished(c)' = Unfinished(c) \ {m}
    BY <1>2 DEF Unfinished
  <2>2. Cardinality(Unfinished(c)) = Cardinality(Unfinished(c)') + 1
        /\ Cardinality(Unfinished(c)') \in Nat
    <3>1. IsFiniteSet(Unfinished(c) \ {m})
          /\ Cardinality(Unfinished(c) \ {m}) = Cardinality(Unfinished(c)) - 1
      BY <1>6, <1>9, FS_RemoveElement
    <3>2. Cardinality(Unfinished(c) \ {m}) \in Nat
      BY <3>1, FS_CardinalityType
    <3> QED BY <1>9, <2>1, <3>1, <3>2
  <2>3. nread[c] = Len(out[c]) + Cardinality(Unfinished(c)) /\ OverIsAnswered(c)
    BY <1>13 DEF ClientInv, Settled
  <2>4. nread[c] = Len(out'[c]) + Cardinality(Unfinished(c)')
    BY <1>12, <1>13, <2>2, <2>3
  <2> QED BY <1>2, <1>12, <1>13, <2>3, <2>4 DEF Settled
<1> QED BY <1>2, <1>7, <1>8, <1>12, <1>13 DEF ClientInv

-----------------------------------------------------------------------------
(* The invariant of the specification.                                     *)

LEMMA InvInit == Init => Inv
<1> SUFFICES ASSUME Init PROVE Inv
  OBVIOUS
<1>1. ASSUME NEW c \in Clients
      PROVE  ClientInv(c)
  <2>1. /\ nread[c] = 0 /\ inflight[c] = {} /\ out[c] = << >> /\ Len(out[c]) = 0
        /\ \A n \in 1 .. MaxMessages : task[<<c, n>>] = "none"
    BY DEF Init, Messages
  <2>2. Unfinished(c) = {}
    BY DEF Unfinished, Init
  <2>3. IsFiniteSet({}) /\ Cardinality({}) = 0
    BY FS_EmptySet
  <2>4. Tasks(c)
    BY <2>1 DEF Tasks, Busy
  <2>5. InFlight(c)
    BY <2>1, <2>3, BoundsAssumption DEF InFlight
  <2>6. Answered(c)
    BY <2>1 DEF Answered
  <2>7. OverIsAnswered(c)
    BY <2>1 DEF OverIsAnswered, Finished
  <2>8. Settled(c)
    BY <2>1, <2>2, <2>3, <2>7 DEF Settled
  <2> QED BY <2>4, <2>5, <2>6, <2>8 DEF ClientInv
<1> QED BY TypesInit, <1>1 DEF Inv

\* The other connections: a step of c, or of a task of c, writes nothing of theirs.
LEMMA Elsewhere ==
  ASSUME Inv, NEW c \in Clients, NEW d \in Clients, d # c,
         \/ Leave(c) \/ ReadLoop(c) \/ ReadInline(c)
         \/ \E first \in {"decode", "reject"} : ReadMessage(c, first)
         \/ \E m \in Messages : m[1] = c /\ (Task(m) \/ Served(m))
  PROVE  ClientInv(d)'
<1>1. TypeOK /\ ClientInv(d) /\ InFlight(c)
  BY DEF Inv, ClientInv
<1>2. /\ client'[d] = client[d] /\ loop'[d] = loop[d] /\ nread'[d] = nread[d]
      /\ inflight'[d] = inflight[d]
  BY <1>1 DEF TypeOK, Leave, ReadLoop, Prune, EndOfStream, Drained, ReadInline, ReadMessage,
              Task, Decoded, Reject, Served
<1>3. out'[d] = out[d]
  <2>1. ASSUME NEW m, m[1] = c, Answer(m)
        PROVE  out'[d] = out[d]
    BY <1>1, <2>1 DEF Answer, TypeOK
  <2>2. CASE ReadInline(c)
    BY <2>1, <2>2 DEF ReadInline
  <2>3. CASE \E m \in Messages : m[1] = c /\ (Task(m) \/ Served(m))
    BY <2>1, <2>3 DEF Task, Decoded, Reject, Served
  <2> QED BY <2>2, <2>3 DEF Leave, ReadLoop, Prune, EndOfStream, Drained, ReadMessage
<1>4. \A x \in Messages : x[1] = d => task'[x] = task[x]
  <2>1. CASE ReadInline(c)
    <3>1. \A x \in inflight[c] : x[1] = c
      BY <1>1 DEF InFlight
    <3> QED BY <1>1, <2>1, <3>1 DEF ReadInline, TypeOK
  <2>2. CASE \E m \in Messages : m[1] = c /\ (Task(m) \/ Served(m))
    BY <1>1, <2>2 DEF Task, Decoded, Reject, Served, TypeOK
  <2>3. CASE \E first \in {"decode", "reject"} : ReadMessage(c, first)
    BY <1>1, <2>3 DEF ReadMessage, TypeOK
  <2> QED BY <2>1, <2>2, <2>3 DEF Leave, ReadLoop, Prune, EndOfStream, Drained
<1> QED BY <1>1, <1>2, <1>3, <1>4, OthersUntouched

LEMMA InvNext == Inv /\ [Next]_vars => Inv'
<1> SUFFICES ASSUME Inv, [Next]_vars PROVE Inv'
  OBVIOUS
<1>1. TypeOK /\ \A c \in Clients : ClientInv(c)
  BY DEF Inv
<1>2. CASE UNCHANGED vars
  <2>1. TypeOK'
    BY <1>1, <1>2 DEF TypeOK, vars
  <2>2. UNCHANGED <<client, loop, nread, inflight, task, out>>
    BY <1>2 DEF vars
  <2> QED BY <1>1, <2>1, <2>2, OthersUntouched DEF Inv
<1>3. ASSUME NEW c \in Clients,
             \/ Leave(c) \/ ReadLoop(c) \/ ReadInline(c)
             \/ \E first \in {"decode", "reject"} : ReadMessage(c, first)
      PROVE  Inv'
  <2>1. TypeOK'
    BY <1>1, <1>3, TypesRead, TypesLoop
  <2>2. ClientInv(c)'
    BY <1>1, <1>3, LeaveKeeps, PruneKeeps, EndKeeps, ReadKeeps, InlineKeeps DEF ReadLoop
  <2>3. \A d \in Clients : d # c => ClientInv(d)'
    BY <1>3, Elsewhere
  <2> QED BY <2>1, <2>2, <2>3 DEF Inv
<1>4. ASSUME NEW m \in Messages, Task(m) \/ Served(m)
      PROVE  Inv'
  <2>1. TypeOK' /\ m[1] \in Clients
    BY <1>1, <1>4, TypesTask, MessageOf
  <2>2. ClientInv(m[1])'
    BY <1>1, <1>4, <2>1, DecodedKeeps, OverKeeps DEF Task
  <2>3. \A d \in Clients : d # m[1] => ClientInv(d)'
    BY <1>4, <2>1, Elsewhere
  <2> QED BY <2>1, <2>2, <2>3 DEF Inv
<1> QED BY <1>2, <1>3, <1>4 DEF Next

LEMMA Invariant == Spec => []Inv
BY InvInit, InvNext, PTL DEF Spec

\* For any clients and bounds: while a client is there each of its messages is
\* answered when its task is over and not before, and none is ever answered twice
\* (gateway.py:381-440, 456-482).
THEOREM GatewayAnswersOnce == Spec => []OneAnswerEach
<1>1. Inv => OneAnswerEach
  <2> SUFFICES ASSUME Inv, NEW c \in Clients
               PROVE  /\ \A i, j \in DOMAIN out[c] : out[c][i] = out[c][j] => i = j
                      /\ client[c] = "open" =>
                           \A n \in 1 .. nread[c] :
                             task[<<c, n>>] \in Finished <=> \E i \in DOMAIN out[c] : out[c][i] = n
    BY DEF OneAnswerEach
  <2>1. /\ DOMAIN out[c] = 1 .. Len(out[c]) /\ nread[c] \in 0 .. MaxMessages
        /\ ClientInv(c)
    BY LenProperties DEF Inv, TypeOK
  <2>2. \A i, j \in 1 .. Len(out[c]) : out[c][i] = out[c][j] => i = j
    BY <2>1 DEF ClientInv, Answered
  <2>3. ASSUME client[c] = "open", NEW n \in 1 .. nread[c]
        PROVE  task[<<c, n>>] \in Finished <=> \E i \in 1 .. Len(out[c]) : out[c][i] = n
    <3>1. n \in 1 .. MaxMessages
      BY <2>1, BoundsAssumption
    <3>2. task[<<c, n>>] \in Finished => \E i \in 1 .. Len(out[c]) : out[c][i] = n
      BY <2>1, <2>3, <3>1 DEF ClientInv, Settled, OverIsAnswered
    <3>3. \A i \in 1 .. Len(out[c]) : task[<<c, out[c][i]>>] \in Finished
      BY <2>1 DEF ClientInv, Answered
    <3> QED BY <3>2, <3>3
  <2> QED BY <2>1, <2>2, <2>3
<1> QED BY <1>1, Invariant, PTL

\* For any clients and bounds: an answer overtakes fewer messages than may be in
\* flight (gateway.py:467-473).
THEOREM GatewayBoundsOvertaking == Spec => []AnswerLead
<1>1. Inv => AnswerLead
  <2> SUFFICES ASSUME Inv, NEW c \in Clients, NEW i \in DOMAIN out[c]
               PROVE  out[c][i] <= i + MaxInflight - 1
    BY DEF AnswerLead
  <2>1. i \in 1 .. Len(out[c]) /\ Answered(c)
    BY LenProperties DEF Inv, TypeOK, ClientInv
  <2> QED BY <2>1 DEF Answered
<1> QED BY <1>1, Invariant, PTL

-----------------------------------------------------------------------------
(* Serve: options.                                                         *)

\* Any command line, the combinations no run enumerates included.
CommandLines == [Flags -> {"default", "given", "falsy"}]

Debugging == {"rtc_debug", "rtc_debug_maxlen"}

\* How the groups of options overlap.
LEMMA Kinds ==
  /\ WorkerFlags \subseteq Flags
  /\ FusedFamilies \subseteq WorkerFlags /\ RtcOptions \subseteq WorkerFlags
  /\ "rtc" \in WorkerFlags /\ "cooperative_kernel" \in WorkerFlags
  /\ "cooperative_kernel" \notin RtcOptions \cup Unconditional
  /\ FusedFamilies \cap (RtcOptions \cup Unconditional) = {}
  /\ "cooperative_kernel" \notin FusedFamilies
  /\ "rtc" \notin RtcOptions \cup Unconditional /\ "rtc" # "cooperative_kernel"
  /\ "rtc_debug" \in RtcOptions \ Unconditional
  /\ "rtc_debug_maxlen" \in RtcOptions \cap Unconditional
  /\ RtcOptions \cap Unconditional = {"rtc_debug_maxlen"}
  /\ WorkerFlags \cap {"gpu_slots"} = {}
BY DEF Flags, WorkerFlags, EngineFlags, FastwamFlags, FusedFamilies, RtcOptions, Unconditional,
       ModelFlags, TierFlags, SamplingFlags

\* What the worker runs with, in one step.
InForce(a, f) ==
  CASE f = "cooperative_kernel" -> With(a, FusedFamilies, a[f])
    [] f = "rtc_debug" -> With(a, {"rtc"}, IfTrue(a[f]))
    [] f \in RtcOptions \ {"rtc_debug"} -> With(a, {"rtc"}, a[f])
    [] f \in Unconditional \ RtcOptions -> a[f]
    [] OTHER -> IfTrue(a[f])

First(a)  == Hop(PassedToWorker, a, WorkerFlags)
Second(a) == Hop(ToWorkerModule, a, WorkerFlags)

\* The list of "serve" keeps what an option counts with.
LEMMA FirstHop ==
  ASSUME NEW a \in CommandLines
  PROVE  /\ First(a) \in CommandLines
         /\ \A f \in WorkerFlags : First(a)[f] = PassedToWorker(a, f)
         /\ \A g \in FusedFamilies \cup {"rtc"} : First(a)[g] = "given" <=> a[g] = "given"
<1>1. \A f \in Flags : First(a)[f] = IF f \in WorkerFlags THEN PassedToWorker(a, f) ELSE "default"
  BY DEF First, Hop
<1>2. \A f \in Flags : PassedToWorker(a, f) \in {"default", "given", "falsy"}
  BY DEF PassedToWorker, With, Always, IfTrue, CommandLines
<1>3. First(a) \in CommandLines
  <2>1. First(a) = [f \in Flags |-> First(a)[f]]
    BY DEF First, Hop
  <2>2. \A f \in Flags : First(a)[f] \in {"default", "given", "falsy"}
    BY <1>1, <1>2
  <2> QED BY <2>1, <2>2 DEF CommandLines
<1>4. ASSUME NEW g \in FusedFamilies \cup {"rtc"} PROVE First(a)[g] = "given" <=> a[g] = "given"
  <2>1. g \in WorkerFlags /\ g \in Flags
    BY Kinds
  <2>2. PassedToWorker(a, g) = IfTrue(a[g])
    BY Kinds DEF PassedToWorker
  <2> QED BY <1>1, <2>1, <2>2 DEF IfTrue
<1> QED BY <1>1, <1>3, <1>4, Kinds

LEMMA SecondHop ==
  ASSUME NEW a \in CommandLines
  PROVE  /\ \A f \in WorkerFlags : Second(a)[f] = ToWorkerModule(a, f)
         /\ Second(a)["rtc"] = "given" <=> a["rtc"] = "given"
<1>1. \A f \in Flags : Second(a)[f] = IF f \in WorkerFlags THEN ToWorkerModule(a, f) ELSE "default"
  BY DEF Second, Hop
<1>2. ToWorkerModule(a, "rtc") = IfTrue(a["rtc"])
  BY Kinds DEF ToWorkerModule
<1>3. Second(a)["rtc"] = IfTrue(a["rtc"])
  BY <1>1, <1>2, Kinds
<1> QED BY <1>1, <1>3, Kinds DEF IfTrue

\* An operator who runs "worker".
LEMMA Direct ==
  ASSUME NEW a \in CommandLines, NEW f \in WorkerFlags
  PROVE  WorkerReads(Second(a), f) = InForce(a, f)
<1>1. Second(a)[f] = ToWorkerModule(a, f)
  BY SecondHop
<1>2. Second(a)["rtc"] = "given" <=> a["rtc"] = "given"
  BY SecondHop
<1>3. CASE f = "cooperative_kernel"
  BY <1>1, <1>3, Kinds DEF WorkerReads, ToWorkerModule, InForce
<1>4. CASE f = "rtc_debug"
  BY <1>1, <1>2, <1>4, Kinds DEF WorkerReads, ToWorkerModule, InForce, With
<1>5. CASE f = "rtc_debug_maxlen"
  BY <1>1, <1>2, <1>5, Kinds DEF WorkerReads, ToWorkerModule, InForce, With, Always
<1>6. CASE f \in RtcOptions \ Debugging
  BY <1>1, <1>2, <1>6, Kinds DEF WorkerReads, ToWorkerModule, InForce, With, Debugging
<1>7. CASE f \in Unconditional \ RtcOptions
  BY <1>1, <1>7, Kinds DEF WorkerReads, ToWorkerModule, InForce, Always
<1>8. CASE f \notin Unconditional \cup RtcOptions \cup {"cooperative_kernel"}
  BY <1>1, <1>8, Kinds DEF WorkerReads, ToWorkerModule, InForce
<1> QED BY <1>3, <1>4, <1>5, <1>6, <1>7, <1>8 DEF Debugging

\* What is in force is in force after the first list.
LEMMA FirstKeeps ==
  ASSUME NEW a \in CommandLines, NEW f \in WorkerFlags
  PROVE  InForce(First(a), f) = InForce(a, f)
<1>1. First(a)[f] = PassedToWorker(a, f)
  BY FirstHop
<1>2. \A g \in FusedFamilies \cup {"rtc"} : First(a)[g] = "given" <=> a[g] = "given"
  BY FirstHop
<1>3. CASE f = "cooperative_kernel"
  <2>1. /\ PassedToWorker(a, f) = With(a, FusedFamilies, a[f])
        /\ InForce(a, f) = With(a, FusedFamilies, a[f])
        /\ InForce(First(a), f) = With(First(a), FusedFamilies, First(a)[f])
    BY <1>3, Kinds DEF PassedToWorker, InForce
  <2>2. (\E g \in FusedFamilies : First(a)[g] = "given") <=> \E g \in FusedFamilies : a[g] = "given"
    BY <1>2
  <2>3. First(a)[f] = With(a, FusedFamilies, a[f])
    BY <1>1, <2>1
  <2> HIDE DEF First
  <2>4. CASE \E g \in FusedFamilies : a[g] = "given"
    BY <2>1, <2>2, <2>3, <2>4 DEF With
  <2>5. CASE ~ \E g \in FusedFamilies : a[g] = "given"
    <3>1. With(a, FusedFamilies, a[f]) = "default"
      BY <2>5 DEF With
    <3>2. With(First(a), FusedFamilies, First(a)[f]) = "default"
      BY <2>2, <2>5 DEF With
    <3> QED BY <2>1, <3>1, <3>2
  <2> QED BY <2>4, <2>5
<1>4. CASE f = "rtc_debug"
  BY <1>1, <1>2, <1>4, Kinds DEF PassedToWorker, InForce, With, IfTrue
<1>6. CASE f \in RtcOptions \ {"rtc_debug"}
  BY <1>1, <1>2, <1>6, Kinds DEF PassedToWorker, InForce, With
<1>7. CASE f \in Unconditional \ RtcOptions
  BY <1>1, <1>7, Kinds DEF PassedToWorker, InForce, Always
<1>8. CASE f \notin Unconditional \cup RtcOptions \cup {"cooperative_kernel"}
  BY <1>1, <1>8, Kinds DEF PassedToWorker, InForce, IfTrue
<1> QED BY <1>3, <1>4, <1>6, <1>7, <1>8

\* Whatever the command line, and whichever of the two commands starts the worker.
LEMMA WorkerRunsWith ==
  ASSUME NEW a \in CommandLines
  PROVE  /\ \A c \in {"serve", "worker"} : \A f \in WorkerFlags : ReceivedByWorker(c, a)[f] = InForce(a, f)
         /\ ReceivedByWorker("serve", a) = ReceivedByWorker("worker", a)
<1>1. ReceivedByWorker("worker", a) = Hop(WorkerReads, Second(a), WorkerFlags)
  BY DEF ReceivedByWorker, Second
<1>2. ReceivedByWorker("serve", a) = Hop(WorkerReads, Second(First(a)), WorkerFlags)
  BY DEF ReceivedByWorker, Second, First
<1>3. First(a) \in CommandLines
  BY FirstHop
<1>4. \A f \in WorkerFlags : /\ WorkerReads(Second(a), f) = InForce(a, f)
                             /\ WorkerReads(Second(First(a)), f) = InForce(a, f)
  BY <1>3, Direct, FirstKeeps
<1>5. Hop(WorkerReads, Second(a), WorkerFlags)
        = [f \in Flags |-> IF f \in WorkerFlags THEN InForce(a, f) ELSE "default"]
  BY <1>4 DEF Hop
<1>6. Hop(WorkerReads, Second(First(a)), WorkerFlags)
        = [f \in Flags |-> IF f \in WorkerFlags THEN InForce(a, f) ELSE "default"]
  BY <1>4 DEF Hop
<1> QED BY <1>1, <1>2, <1>5, <1>6, Kinds

\* An option in force.
LEMMA AskedInForce ==
  ASSUME NEW a \in CommandLines, NEW f \in WorkerFlags, Asks(a, f)
  PROVE  InForce(a, f) = "given"
<1>1. a[f] = "given"
  BY DEF Asks
<1>2. f = "cooperative_kernel" => \E g \in FusedFamilies : a[g] = "given"
  <2>1. f = "cooperative_kernel" => Needs(f) = FusedFamilies
    BY Kinds DEF Needs
  <2> QED BY <2>1 DEF Asks
<1>3. f \in RtcOptions => a["rtc"] = "given"
  <2>1. f \in RtcOptions => Needs(f) = {"rtc"}
    BY Kinds DEF Needs
  <2> QED BY <2>1 DEF Asks
<1>4. CASE f = "cooperative_kernel"
  <2>1. InForce(a, f) = With(a, FusedFamilies, a[f])
    BY <1>4, Kinds DEF InForce
  <2> QED BY <1>1, <1>2, <1>4, <2>1 DEF With
<1>5. CASE f \in RtcOptions
  BY <1>1, <1>3, <1>5, Kinds DEF InForce, With, IfTrue
<1>6. CASE f \notin RtcOptions \cup {"cooperative_kernel"}
  BY <1>1, <1>6, Kinds DEF InForce, IfTrue
<1> QED BY <1>4, <1>5, <1>6

LEMMA EveryCommandLine ==
  ASSUME asked \in CommandLines
  PROVE  OptionsArrive
<1>1. SUFFICES ASSUME cmd \in {"serve", "worker"}
               PROVE /\ \A f \in WorkerFlags : Asks(asked, f) => ReceivedByWorker(cmd, asked)[f] = "given"
                     /\ ReceivedByWorker("serve", asked) = ReceivedByWorker("worker", asked)
  BY DEF OptionsArrive
<1> QED BY <1>1, WorkerRunsWith, AskedInForce

\* An option of the worker that was asked for is in force in it, and the same whether
\* "serve" or "worker" starts it (__main__.py:148-255, 1022-1098; worker.py:471-858).
THEOREM OptionsAllArrive == ServeSpec => []OptionsArrive
<1> DEFINE Asked == asked \in CommandLines
<1>1. ServeInit => Asked
  <2> SUFFICES ASSUME ServeInit PROVE Asked
    OBVIOUS
  <2>1. asked \in Invocations(cmd)
    BY DEF ServeInit
  <2>2. Untouched \in CommandLines
    BY DEF Untouched, CommandLines
  <2>3. \A x \in CommandLines : \A f \in Flags : \A v \in {"given", "falsy"} : [x EXCEPT ![f] = v] \in CommandLines
    BY DEF CommandLines
  <2>4. \A x \in CommandLines : \A f, g \in Flags :
          [x EXCEPT ![f] = "given", ![g] = "given"] \in CommandLines
    BY DEF CommandLines
  <2>5. Accepts(cmd) \subseteq Flags
    <3>1. EngineFlags \subseteq WorkerFlags
      BY DEF WorkerFlags
    <3>2. CASE cmd \in {"worker", "gateway", "validate"}
      BY <3>1, <3>2 DEF Accepts, Flags
    <3>3. CASE cmd \notin {"worker", "gateway", "validate"}
      BY <3>3 DEF Accepts, Flags
    <3> QED BY <3>2, <3>3
  <2>6. CASE asked = Untouched
    BY <2>2, <2>6
  <2>7. CASE \E f \in Accepts(cmd), v \in {"given", "falsy"} : asked = [Untouched EXCEPT ![f] = v]
    BY <2>2, <2>3, <2>5, <2>7
  <2>8. CASE \E f, g \in Accepts(cmd) : asked = [Untouched EXCEPT ![f] = "given", ![g] = "given"]
    BY <2>2, <2>4, <2>5, <2>8
  <2>9. \/ asked = Untouched
        \/ \E f \in Accepts(cmd), v \in {"given", "falsy"} : asked = [Untouched EXCEPT ![f] = v]
        \/ \E f, g \in Accepts(cmd) : asked = [Untouched EXCEPT ![f] = "given", ![g] = "given"]
    BY <2>1 DEF Invocations
  <2> QED BY <2>6, <2>7, <2>8, <2>9
<1>2. Asked /\ [ServeNext]_serveVars => Asked'
  <2> SUFFICES ASSUME Asked, [ServeNext]_serveVars PROVE asked' = asked
    OBVIOUS
  <2> QED BY DEF ServeNext, serveVars, startVars, Supervisor, SpawnWorker, ListWorker, LookForSocket, PollWorker,
     SpawnGateway, ListGateway, Join, Terminate, Kill, CleanUp, SpawnFails, Sigterm, Interrupt,
     WorkerSteps, WorkerMaps, WorkerBinds, WorkerListens, WorkerExits, WorkerDies, Describe,
     GiveUp, GatewayDrained, GatewayDies, Timeout
<1>3. Asked => OptionsArrive
  BY EveryCommandLine
<1> QED BY <1>1, <1>2, <1>3, PTL DEF ServeSpec

-----------------------------------------------------------------------------
(* Serve: processes and files.                                             *)

\* What _shutdown leaves, for any number of signals and of processes that die before,
\* while or after it runs (__main__.py:319-332).
THEOREM ShutdownIsClean == ServeSpec => []CleanStop
<1>1. ServeInit => CleanStop
  BY DEF ServeInit, CleanStop
<1>2. CleanStop /\ [ServeNext]_serveVars => CleanStop'
  <2> SUFFICES ASSUME CleanStop, [ServeNext]_serveVars PROVE CleanStop'
    OBVIOUS
  <2>1. CASE CleanUp
    BY <2>1 DEF CleanUp, Unlink, Ends, CleanStop
  <2>2. CASE \/ SpawnWorker \/ ListWorker \/ LookForSocket \/ PollWorker \/ SpawnGateway \/ ListGateway
             \/ Join \/ Terminate \/ Kill \/ SpawnFails \/ Timeout
    BY <2>2 DEF SpawnWorker, ListWorker, LookForSocket, PollWorker, SpawnGateway, ListGateway,
         Join, Terminate, Kill, SpawnFails, Timeout, Ends, CleanStop, supVars
  <2>3. CASE Sigterm \/ Interrupt
    BY <2>3 DEF Sigterm, Interrupt, Ends, CleanStop
  <2>4. CASE WorkerSteps \/ WorkerExits \/ WorkerDies
    BY <2>4 DEF WorkerSteps, WorkerMaps, WorkerBinds, WorkerListens, WorkerExits, WorkerDies,
         CleanStop, Running, SockAfter, supVars
  <2>5. CASE Describe \/ GiveUp \/ GatewayDrained \/ GatewayDies
    BY <2>5 DEF Describe, GiveUp, GatewayDrained, GatewayDies, CleanStop, Running, supVars, fileVars
  <2>6. CASE UNCHANGED serveVars
    BY <2>6 DEF serveVars, supVars, fileVars, CleanStop
  <2> QED BY <2>1, <2>2, <2>3, <2>4, <2>5, <2>6 DEF ServeNext, Supervisor
<1> QED BY <1>1, <1>2, PTL DEF ServeSpec

=============================================================================
