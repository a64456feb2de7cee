--------------------------- MODULE CppGatewayProofs ---------------------------
(***************************************************************************)
(* What CppGateway promises for any set of clients, every queue capacity   *)
(* and every number of messages.  Types is TypeOK and that a reader that   *)
(* holds something holds a message.  Over it, WireInv says that the worker *)
(* connection carries at most the request of the loop that has the mutex,  *)
(* Own(c) that the response in hand is the one to the message in hand, and *)
(* Order(c) that the numbers of the messages go on from the answers        *)
(* through hand, lookahead and queue to the reader.                        *)
(***************************************************************************)
EXTENDS CppGateway, SequenceTheorems, TLAPS

-----------------------------------------------------------------------------
(* Sequences.                                                              *)

\* The elements of s are the numbers after n.
Counts(n, s) == \A i \in 1 .. Len(s) : s[i] = n + i

LEMMA HeadCounts ==
  ASSUME NEW s \in Seq(Nat \ {0}), s # << >>, NEW n \in Nat, Counts(n, s)
  PROVE  /\ Head(s) = n + 1
         /\ Tail(s) \in Seq(Nat \ {0})
         /\ Len(Tail(s)) \in Nat /\ Len(s) = Len(Tail(s)) + 1
         /\ Counts(n + 1, Tail(s))
<1>1. Len(s) \in Nat \ {0}
  BY EmptySeq
<1>2. /\ Tail(s) \in Seq(Nat \ {0}) /\ Len(Tail(s)) = Len(s) - 1
      /\ \A i \in 1 .. Len(Tail(s)) : Tail(s)[i] = s[i + 1]
      /\ Head(s) = s[1]
  BY HeadTailProperties
<1>3. s[1] = n + 1
  BY <1>1 DEF Counts
<1>4. ASSUME NEW i \in 1 .. Len(Tail(s))
      PROVE  Tail(s)[i] = (n + 1) + i
  <2>1. i \in Nat /\ i + 1 \in 1 .. Len(s)
    BY <1>1, <1>2
  <2>2. s[i + 1] = n + (i + 1)
    BY <2>1 DEF Counts
  <2> QED BY <1>2, <2>1, <2>2
<1> QED BY <1>1, <1>2, <1>3, <1>4 DEF Counts

LEMMA AppendCounts ==
  ASSUME NEW s \in Seq(Nat \ {0}), NEW n \in Nat, NEW k \in Nat \ {0}
  PROVE  /\ Append(s, k) \in Seq(Nat \ {0})
         /\ Len(s) \in Nat /\ Len(Append(s, k)) = Len(s) + 1
         /\ Counts(n, s) /\ k = n + Len(s) + 1 => Counts(n, Append(s, k))
<1>1. /\ Append(s, k) \in Seq(Nat \ {0}) /\ Len(Append(s, k)) = Len(s) + 1
      /\ \A i \in 1 .. Len(s) : Append(s, k)[i] = s[i]
      /\ Append(s, k)[Len(s) + 1] = k
      /\ Len(s) \in Nat
  BY AppendProperties, LenProperties
<1>2. ASSUME Counts(n, s), k = n + Len(s) + 1, NEW i \in 1 .. Len(s) + 1
      PROVE  Append(s, k)[i] = n + i
  <2>1. CASE i \in 1 .. Len(s)
    BY <1>1, <1>2, <2>1 DEF Counts
  <2>2. CASE i = Len(s) + 1
    BY <1>1, <1>2, <2>2
  <2> QED BY <1>1, <2>1, <2>2
<1> QED BY <1>1, <1>2 DEF Counts

-----------------------------------------------------------------------------
(* Types.                                                                  *)

Types ==
  /\ TypeOK
  /\ \A c \in Clients : reader[c] \in {"put", "wait"} => got[c] # 0

LEMMA TypesInit == Init => Types
<1> SUFFICES ASSUME Init PROVE Types
  OBVIOUS
<1>1. /\ << >> \in Seq(Nat \ {0}) /\ << >> \in Seq(Results) /\ << >> \in Seq(Nat \X Results)
  BY EmptySeq
<1>2. /\ msgs \in [Clients -> Seq(Nat \ {0})] /\ out \in [Clients -> Seq(Nat \X Results)]
      /\ pending \in Seq(Results) /\ responses \in Seq(Results)
  BY <1>1 DEF Init
<1>3. \A c \in Clients : Len(msgs[c]) <= Capacity
  BY BoundsAssumption DEF Init
<1>4. result \in [Clients -> Results]
  BY DEF Init, Results
<1>5. wire \in [Clients -> Seq(Kinds)]
  BY EmptySeq DEF Init
<1> QED BY <1>2, <1>3, <1>4, <1>5 DEF Init, Types, TypeOK

LEMMA TypesPeer ==
  ASSUME Types, NEW c \in Clients, Peer(c)
  PROVE  Types'
<1>1. CASE SendMessage(c)
  <2>1. sent' \in [Clients -> Nat]
    BY <1>1 DEF Types, TypeOK, SendMessage
  <2>3. wire' \in [Clients -> Seq(Kinds)]
    <3>1. PICK kind \in Kinds : wire' = [wire EXCEPT ![c] = Append(@, kind)]
      BY <1>1 DEF SendMessage
    <3>2. Append(wire[c], kind) \in Seq(Kinds)
      BY AppendProperties DEF Types, TypeOK
    <3> QED BY <3>1, <3>2 DEF Types, TypeOK
  <2>2. UNCHANGED <<client, got, reader, msgs, proc, cur, nxt, result, mutex, link, pending,
                    responses, out>>
    BY <1>1 DEF SendMessage, readerVars, loopVars, workerVars
  <2> QED BY <2>1, <2>2, <2>3 DEF Types, TypeOK
<1>2. CASE Leave(c)
  BY <1>2 DEF Types, TypeOK, Leave, readerVars, loopVars, workerVars
<1> QED BY <1>1, <1>2 DEF Peer

LEMMA TypesWorker ==
  ASSUME Types, WorkerAnswers \/ WorkerGone
  PROVE  Types'
<1>1. pending' \in Seq(Results) /\ responses' \in Seq(Results) /\ link' \in {"open", "broken"}
  <2>1. CASE WorkerAnswers
    <3>1. pending \in Seq(Results) /\ responses \in Seq(Results) /\ pending # << >>
      BY <2>1 DEF Types, TypeOK, WorkerAnswers
    <3>2. /\ Head(pending) \in Results /\ Tail(pending) \in Seq(Results)
      BY <3>1, HeadTailProperties
    <3>3. Append(responses, Head(pending)) \in Seq(Results)
      BY <3>1, <3>2, AppendProperties
    <3> QED BY <2>1, <3>2, <3>3 DEF WorkerAnswers, Types, TypeOK
  <2>2. CASE WorkerGone
    <3>1. << >> \in Seq(Results)
      BY EmptySeq
    <3> QED BY <2>2, <3>1 DEF WorkerGone, Types, TypeOK
  <2> QED BY <2>1, <2>2
<1>2. UNCHANGED <<peerVars, readerVars, msgs, loopVars, mutex, out>>
  BY DEF WorkerAnswers, WorkerGone
<1> QED BY <1>1, <1>2 DEF Types, TypeOK, peerVars, readerVars, loopVars

\* What the reader takes off the stream.
LEMMA WireTypes ==
  ASSUME Types, NEW c \in Clients, wire[c] # << >>, wire' = [wire EXCEPT ![c] = Tail(@)]
  PROVE  wire' \in [Clients -> Seq(Kinds)]
<1>1. wire \in [Clients -> Seq(Kinds)]
  BY DEF Types, TypeOK
<1>2. Tail(wire[c]) \in Seq(Kinds)
  BY <1>1, HeadTailProperties
<1> QED BY <1>1, <1>2

LEMMA TypesReader ==
  ASSUME Types, NEW c \in Clients, Reader(c) \/ WakesSpuriously(c)
  PROVE  Types'
<1>1. CASE ReadMessage(c)
  <2>1. /\ got' \in [Clients -> Nat] /\ reader' \in [Clients -> {"recv", "put", "wait", "done"}]
        /\ \A d \in Clients : reader'[d] \in {"put", "wait"} => got'[d] # 0
    BY <1>1 DEF Types, TypeOK, ReadMessage
  <2>2. UNCHANGED <<client, sent, msgs, proc, cur, nxt, result, mutex, link, pending,
                    responses, out>>
    BY <1>1 DEF ReadMessage, loopVars, workerVars
  <2>3. wire' \in [Clients -> Seq(Kinds)]
    BY <1>1, WireTypes DEF ReadMessage, Arrived
  <2> QED BY <2>1, <2>2, <2>3 DEF Types, TypeOK
<1>4. CASE DropMessage(c)
  <2>1. wire' \in [Clients -> Seq(Kinds)]
    BY <1>4, WireTypes DEF DropMessage, Arrived
  <2> QED BY <1>4, <2>1 DEF DropMessage, Types, TypeOK, readerVars, loopVars, workerVars
<1>2. CASE ReadEnds(c)
  BY <1>2 DEF Types, TypeOK, ReadEnds, peerVars, loopVars, workerVars
<1>3. CASE Put(c) \/ WakesSpuriously(c)
  <2>1. reader[c] \in {"put", "wait"} /\ got' = got
    BY <1>3 DEF Put, WakesSpuriously
  <2>2. msgs[c] \in Seq(Nat \ {0}) /\ got[c] \in Nat \ {0} /\ Len(msgs[c]) \in Nat
    BY <2>1, LenProperties DEF Types, TypeOK
  <2>3. Append(msgs[c], got[c]) \in Seq(Nat \ {0}) /\ Len(Append(msgs[c], got[c])) = Len(msgs[c]) + 1
    BY <2>2, AppendProperties
  <2>4. UNCHANGED <<client, sent, wire, proc, cur, nxt, result, mutex, link, pending, responses, out>>
    BY <1>3 DEF Put, WakesSpuriously, peerVars, loopVars, workerVars
  <2>5. CASE Push(c) /\ Len(msgs[c]) < Capacity
    <3>1. Len(msgs[c]) + 1 <= Capacity
      BY <2>2, <2>5, BoundsAssumption
    <3>2. /\ msgs' \in [Clients -> Seq(Nat \ {0})]
          /\ \A d \in Clients : Len(msgs'[d]) <= Capacity
      BY <2>3, <2>5, <3>1 DEF Push, Types, TypeOK
    <3>3. /\ reader' \in [Clients -> {"recv", "put", "wait", "done"}]
          /\ \A d \in Clients : reader'[d] \in {"put", "wait"} => got'[d] # 0
      BY <2>1, <2>5 DEF Push, Types, TypeOK
    <3> QED BY <2>1, <2>4, <3>2, <3>3 DEF Types, TypeOK
  <2>6. CASE msgs' = msgs /\ reader' = [reader EXCEPT ![c] = "wait"]
    <3>1. /\ reader' \in [Clients -> {"recv", "put", "wait", "done"}]
          /\ \A d \in Clients : reader'[d] \in {"put", "wait"} => got'[d] # 0
      BY <2>1, <2>2, <2>6 DEF Types, TypeOK
    <3> QED BY <2>1, <2>4, <2>6, <3>1 DEF Types, TypeOK
  <2> QED BY <1>3, <2>5, <2>6 DEF Put, WakesSpuriously
<1> QED BY <1>1, <1>2, <1>3, <1>4 DEF Reader

\* What Pop and LookAhead take from the queue is a message.
LEMMA QueueTypes ==
  ASSUME Types, NEW c \in Clients, msgs[c] # << >>
  PROVE  /\ Head(msgs[c]) \in Nat \ {0}
         /\ Tail(msgs[c]) \in Seq(Nat \ {0})
         /\ Len(Tail(msgs[c])) <= Capacity
<1>1. msgs[c] \in Seq(Nat \ {0}) /\ Len(msgs[c]) <= Capacity
  BY DEF Types, TypeOK
<1>2. /\ Head(msgs[c]) \in Nat \ {0} /\ Tail(msgs[c]) \in Seq(Nat \ {0})
      /\ Len(Tail(msgs[c])) = Len(msgs[c]) - 1 /\ Len(msgs[c]) \in Nat
  BY <1>1, HeadTailProperties, LenProperties
<1> QED BY <1>1, <1>2, BoundsAssumption

\* What a step of a loop does to each variable it may write.
LEMMA LoopWrites ==
  ASSUME NEW c \in Clients, Loop(c)
  PROVE  /\ UNCHANGED <<client, sent, wire, got, reader, link>>
         /\ \/ msgs' = msgs
            \/ msgs[c] # << >> /\ msgs' = [msgs EXCEPT ![c] = Tail(msgs[c])]
         /\ \/ cur' = cur
            \/ msgs[c] # << >> /\ cur' = [cur EXCEPT ![c] = Head(msgs[c])]
            \/ cur' = [cur EXCEPT ![c] = nxt[c]]
         /\ \/ nxt' = nxt \/ nxt' = [nxt EXCEPT ![c] = 0]
            \/ msgs[c] # << >> /\ nxt' = [nxt EXCEPT ![c] = Head(msgs[c])]
         /\ \E p \in {"look", "process", "lock", "recv", "send", "advance", "join", "closed"} :
              proc' = [proc EXCEPT ![c] = p]
         /\ \/ result' = result \/ result' = [result EXCEPT ![c] = Failed]
            \/ responses # << >> /\ result' = [result EXCEPT ![c] = Head(responses)]
         /\ responses' = responses \/ (responses # << >> /\ responses' = Tail(responses))
         /\ pending' = pending \/ pending' = Append(pending, <<c, cur[c]>>)
         /\ mutex' = mutex \/ mutex' = {c} \/ mutex' = mutex \ {c}
         /\ out' = out \/ out' = [out EXCEPT ![c] = Append(@, <<cur[c], result[c]>>)]
<1>1. CASE First(c)
  BY <1>1 DEF First, Pop, peerVars, readerVars, workerVars
<1>2. CASE Look(c)
  BY <1>2 DEF Look, LookAhead, peerVars, readerVars, workerVars
<1>3. CASE Process(c)
  BY <1>3 DEF Process, peerVars, readerVars, workerVars
<1>4. CASE Request(c)
  BY <1>4 DEF Request, peerVars, readerVars
<1>5. CASE Receive(c)
  BY <1>5 DEF Receive, peerVars, readerVars
<1>6. CASE Respond(c)
  BY <1>6 DEF Respond, peerVars, readerVars, workerVars
<1>7. CASE Advance(c)
  BY <1>7 DEF Advance, Pop, LookAhead, peerVars, readerVars, workerVars
<1>8. CASE Close(c)
  BY <1>8 DEF Close, peerVars, readerVars, workerVars
<1> QED BY <1>1, <1>2, <1>3, <1>4, <1>5, <1>6, <1>7, <1>8 DEF Loop

LEMMA TypesLoop ==
  ASSUME Types, NEW c \in Clients, Loop(c)
  PROVE  Types'
<1>1. UNCHANGED <<client, sent, wire, got, reader, link>>
  BY LoopWrites
<1>2. msgs' \in [Clients -> Seq(Nat \ {0})] /\ \A d \in Clients : Len(msgs'[d]) <= Capacity
  <2>1. CASE msgs' = msgs
    BY <2>1 DEF Types, TypeOK
  <2>2. CASE msgs[c] # << >> /\ msgs' = [msgs EXCEPT ![c] = Tail(msgs[c])]
    BY <2>2, QueueTypes DEF Types, TypeOK
  <2> QED BY <2>1, <2>2, LoopWrites
<1>3. cur' \in [Clients -> Nat]
  <2>1. msgs[c] # << >> => Head(msgs[c]) \in Nat
    BY QueueTypes
  <2>2. cur \in [Clients -> Nat] /\ nxt[c] \in Nat
    BY DEF Types, TypeOK
  <2> QED BY <2>1, <2>2, LoopWrites
<1>4. nxt' \in [Clients -> Nat]
  <2>1. msgs[c] # << >> => Head(msgs[c]) \in Nat
    BY QueueTypes
  <2>2. nxt \in [Clients -> Nat]
    BY DEF Types, TypeOK
  <2> QED BY <2>1, <2>2, LoopWrites
<1>5. proc' \in [Clients -> {"first", "look", "process", "lock", "recv", "send", "advance",
                             "join", "closed"}]
  BY LoopWrites DEF Types, TypeOK
<1>6. result' \in [Clients -> Results] /\ responses' \in Seq(Results)
  <2>1. responses # << >> => Head(responses) \in Results /\ Tail(responses) \in Seq(Results)
    BY HeadTailProperties DEF Types, TypeOK
  <2>2. Failed \in Results
    BY DEF Results
  <2>3. result \in [Clients -> Results] /\ responses \in Seq(Results)
    BY DEF Types, TypeOK
  <2> QED BY <2>1, <2>2, <2>3, LoopWrites
<1>7. pending' \in Seq(Results)
  <2>1. <<c, cur[c]>> \in Results /\ pending \in Seq(Results)
    BY DEF Types, TypeOK, Results
  <2>2. Append(pending, <<c, cur[c]>>) \in Seq(Results)
    BY <2>1, AppendProperties
  <2> QED BY <2>1, <2>2, LoopWrites
<1>8. mutex' \in SUBSET Clients
  <2>1. mutex \in SUBSET Clients
    BY DEF Types, TypeOK
  <2>2. mutex' = mutex \/ mutex' = {c} \/ mutex' = mutex \ {c}
    BY LoopWrites
  <2> QED BY <2>1, <2>2
<1>9. out' \in [Clients -> Seq(Nat \X Results)]
  <2>1. <<cur[c], result[c]>> \in Nat \X Results /\ out[c] \in Seq(Nat \X Results)
    BY DEF Types, TypeOK
  <2>2. Append(out[c], <<cur[c], result[c]>>) \in Seq(Nat \X Results)
    BY <2>1, AppendProperties
  <2>3. out \in [Clients -> Seq(Nat \X Results)]
    BY DEF Types, TypeOK
  <2> QED BY <2>2, <2>3, LoopWrites
<1> QED BY <1>1, <1>2, <1>3, <1>4, <1>5, <1>6, <1>7, <1>8, <1>9 DEF Types, TypeOK

LEMMA TypeCorrect == Spec => []Types
<1>1. Types /\ [Next]_vars => Types'
  <2> SUFFICES ASSUME Types, [Next]_vars PROVE Types'
    OBVIOUS
  <2>1. CASE UNCHANGED vars
    BY <2>1 DEF Types, TypeOK, vars, peerVars, readerVars, loopVars, workerVars
  <2> QED BY <2>1, TypesPeer, TypesWorker, TypesReader, TypesLoop DEF Next
<1> QED BY <1>1, TypesInit, PTL DEF Spec

-----------------------------------------------------------------------------
(* The inductive invariant.                                                *)

Working == {"look", "process", "lock", "recv", "send"}

\* The lookahead is empty until the loop has looked.
Control(c) == proc[c] \in {"first", "look"} => nxt[c] = 0

\* Messages answered or in hand; with the one in lookahead; and held by the reader.
Turned(c) == Len(out[c]) + (IF proc[c] \in Working THEN 1 ELSE 0)
Ahead(c)  == Turned(c) + (IF nxt[c] = 0 THEN 0 ELSE 1)
Kept(c)   == IF reader[c] \in {"put", "wait"} THEN 1 ELSE 0

\* The numbers go on from each place to the next.
Order(c) ==
  /\ \A i \in 1 .. Len(out[c]) : out[c][i][1] = i
  /\ proc[c] \in Working => cur[c] = Turned(c)
  /\ nxt[c] # 0 => nxt[c] = Ahead(c)
  /\ Counts(Ahead(c), msgs[c])
  /\ got[c] = Ahead(c) + Len(msgs[c]) + Kept(c)

\* On the worker connection there is nothing, or the request of the loop that
\* holds the mutex, or the response to it.
OnWire(s) == s = << >> \/ \E c \in mutex : s = <<<<c, cur[c]>>>>

WireInv ==
  /\ \A c \in Clients : proc[c] = "recv" <=> c \in mutex
  /\ \A c, d \in mutex : c = d
  /\ OnWire(pending) /\ OnWire(responses)
  /\ pending = << >> \/ responses = << >>
  /\ link = "broken" => pending = << >>

Matches(c, n, r) == r = Failed \/ r = <<c, n>>

\* The response in hand, and each that went out, is the one to its message.
Own(c) ==
  /\ proc[c] = "send" => Matches(c, cur[c], result[c])
  /\ \A i \in 1 .. Len(out[c]) : Matches(c, out[c][i][1], out[c][i][2])

LoopInv(c) == Control(c) /\ Own(c) /\ (client[c] = "open" => Order(c))

LEMMA LocalTypes ==
  ASSUME Types, NEW c \in Clients
  PROVE  /\ msgs[c] \in Seq(Nat \ {0}) /\ Len(msgs[c]) \in Nat
         /\ out[c] \in Seq(Nat \X Results) /\ Len(out[c]) \in Nat
         /\ got[c] \in Nat /\ cur[c] \in Nat /\ nxt[c] \in Nat
         /\ Turned(c) \in Nat /\ Ahead(c) \in Nat
<1>1. /\ msgs[c] \in Seq(Nat \ {0}) /\ out[c] \in Seq(Nat \X Results)
      /\ got[c] \in Nat /\ cur[c] \in Nat /\ nxt[c] \in Nat
  BY DEF Types, TypeOK
<1>2. Len(msgs[c]) \in Nat /\ Len(out[c]) \in Nat
  BY <1>1, LenProperties
<1>3. Turned(c) \in Nat
  <2>1. CASE proc[c] \in Working
    BY <1>2, <2>1 DEF Turned
  <2>2. CASE proc[c] \notin Working
    BY <1>2, <2>2 DEF Turned
  <2> QED BY <2>1, <2>2
<1>4. Ahead(c) \in Nat
  BY <1>3 DEF Ahead
<1> QED BY <1>1, <1>2, <1>3, <1>4

\* The connection a step does not touch.
LEMMA Untouched ==
  ASSUME NEW d \in Clients, LoopInv(d),
         client'[d] = client[d], got'[d] = got[d], reader'[d] = reader[d], msgs'[d] = msgs[d],
         proc'[d] = proc[d], cur'[d] = cur[d], nxt'[d] = nxt[d], result'[d] = result[d],
         out'[d] = out[d]
  PROVE  LoopInv(d)'
<1>1. Control(d)'
  BY DEF LoopInv, Control
<1>2. Own(d)'
  BY DEF LoopInv, Own
<1>3. UNCHANGED <<Turned(d), Ahead(d), Kept(d)>>
  BY DEF Turned, Ahead, Kept
<1>4. Order(d) => Order(d)'
  BY <1>3 DEF Order
<1> QED BY <1>1, <1>2, <1>4 DEF LoopInv

-----------------------------------------------------------------------------
(* The client and the reader.                                              *)

LEMMA LeaveKeeps ==
  ASSUME Types, NEW c \in Clients, LoopInv(c), Leave(c)
  PROVE  LoopInv(c)'
<1>1. /\ client'[c] = "gone"
      /\ UNCHANGED <<got, reader, msgs, proc, cur, nxt, result, out>>
  BY DEF Types, TypeOK, Leave, readerVars, loopVars
<1>2. Own(c)'
  BY <1>1 DEF LoopInv, Own
<1> QED BY <1>1, <1>2 DEF LoopInv, Control

LEMMA ReadKeeps ==
  ASSUME Types, NEW c \in Clients, LoopInv(c), ReadMessage(c)
  PROVE  LoopInv(c)'
<1>1. /\ reader[c] = "recv" /\ reader'[c] = "put" /\ got'[c] = got[c] + 1
      /\ UNCHANGED <<client, msgs, proc, cur, nxt, result, out>>
  BY DEF Types, TypeOK, ReadMessage, loopVars
<1>2. Control(c)' /\ Own(c)'
  BY <1>1 DEF LoopInv, Control, Own
<1>3. UNCHANGED <<Turned(c), Ahead(c)>>
  BY <1>1 DEF Turned, Ahead
<1>4. ASSUME Order(c)
      PROVE  Order(c)'
  <2>1. Kept(c) = 0 /\ Kept(c)' = 1
    BY <1>1 DEF Kept
  <2>2. got[c] = Ahead(c) + Len(msgs[c]) + 0
    BY <1>4, <2>1 DEF Order
  <2>3. got'[c] = Ahead(c) + Len(msgs[c]) + 1
    BY <1>1, <2>2, LocalTypes
  <2> QED BY <1>1, <1>3, <1>4, <2>1, <2>3 DEF Order
<1> QED BY <1>1, <1>2, <1>4 DEF LoopInv

\* A step that leaves hand, lookahead and queue alone and what the reader holds.
LEMMA AsideKeeps ==
  ASSUME Types, NEW c \in Clients, LoopInv(c),
         proc'[c] \in Working <=> proc[c] \in Working,
         proc'[c] = "send" => proc[c] = "send",
         proc'[c] \in {"first", "look"} => proc[c] \in {"first", "look"},
         reader'[c] \in {"put", "wait"} <=> reader[c] \in {"put", "wait"},
         UNCHANGED <<client, got, msgs, cur, nxt, result, out>>
  PROVE  LoopInv(c)'
<1>1. Control(c)' /\ Own(c)'
  BY DEF LoopInv, Control, Own
<1>2. UNCHANGED <<Turned(c), Ahead(c), Kept(c)>>
  BY DEF Turned, Ahead, Kept
<1>3. Order(c) => Order(c)'
  BY <1>2 DEF Order
<1> QED BY <1>1, <1>3 DEF LoopInv

LEMMA ReadEndsKeeps ==
  ASSUME Types, NEW c \in Clients, LoopInv(c), ReadEnds(c)
  PROVE  LoopInv(c)'
<1>1. /\ reader[c] = "recv" /\ reader'[c] = "done"
      /\ UNCHANGED <<client, got, msgs, proc, cur, nxt, result, out>>
  BY DEF ReadEnds, peerVars, loopVars, Types, TypeOK
<1> QED BY <1>1, AsideKeeps

\* The reader puts what it holds behind the others, or goes to sleep with it.
LEMMA PutKeeps ==
  ASSUME Types, NEW c \in Clients, LoopInv(c), Put(c) \/ WakesSpuriously(c)
  PROVE  LoopInv(c)'
<1>1. /\ reader[c] \in {"put", "wait"} /\ got[c] # 0
      /\ UNCHANGED <<client, got, proc, cur, nxt, result, out>>
      /\ \/ reader'[c] = "wait" /\ msgs' = msgs
         \/ reader'[c] = "recv" /\ msgs'[c] = Append(msgs[c], got[c])
  BY DEF Types, TypeOK, Put, WakesSpuriously, Push, peerVars, loopVars
<1>2. Control(c)' /\ Own(c)'
  BY <1>1 DEF LoopInv, Control, Own
<1>3. UNCHANGED <<Turned(c), Ahead(c)>>
  BY <1>1 DEF Turned, Ahead
<1>4. ASSUME Order(c), reader'[c] = "wait", msgs' = msgs
      PROVE  Order(c)'
  <2>1. UNCHANGED Kept(c)
    BY <1>1, <1>4 DEF Kept
  <2> QED BY <1>1, <1>3, <1>4, <2>1 DEF Order
<1>5. ASSUME Order(c), reader'[c] = "recv", msgs'[c] = Append(msgs[c], got[c])
      PROVE  Order(c)'
  <2>0. Kept(c) = 1 /\ Kept(c)' = 0
    BY <1>1, <1>5 DEF Kept
  <2>1. got[c] = Ahead(c) + Len(msgs[c]) + 1 /\ Counts(Ahead(c), msgs[c])
    BY <1>5, <2>0 DEF Order
  <2>2. msgs[c] \in Seq(Nat \ {0}) /\ got[c] \in Nat \ {0} /\ Ahead(c) \in Nat
    BY <1>1, LocalTypes
  <2>3. /\ Len(msgs[c]) \in Nat /\ Len(msgs'[c]) = Len(msgs[c]) + 1
        /\ Counts(Ahead(c), msgs'[c])
    BY <1>5, <2>1, <2>2, AppendCounts
  <2>4. got[c] = Ahead(c) + Len(msgs'[c]) + 0
    BY <2>1, <2>2, <2>3
  <2>5. Counts(Ahead(c), msgs[c])'
    BY <1>3, <2>3 DEF Counts
  <2> QED BY <1>1, <1>3, <1>5, <2>0, <2>4, <2>5 DEF Order
<1> QED BY <1>1, <1>2, <1>4, <1>5 DEF LoopInv

-----------------------------------------------------------------------------
(* The loop.                                                               *)

\* With nothing in lookahead, the first queued message comes to hand.
LEMMA PopKeepsOrder ==
  ASSUME Types, NEW c \in Clients, Order(c),
         proc[c] \in {"first", "advance"}, nxt[c] = 0,
         msgs[c] # << >>, cur'[c] = Head(msgs[c]), msgs'[c] = Tail(msgs[c]),
         proc'[c] \in {"look", "process"},
         UNCHANGED <<got, reader, nxt, out>>
  PROVE  Order(c)'
<1>1. /\ msgs[c] \in Seq(Nat \ {0}) /\ Len(out[c]) \in Nat /\ Ahead(c) \in Nat
      /\ got[c] \in Nat /\ Kept(c) \in Nat
  BY LocalTypes DEF Kept
<1>2. Turned(c) = Len(out[c])
  <2>1. proc[c] \notin Working
    BY DEF Working
  <2> QED BY <1>1, <2>1 DEF Turned
<1>3. Ahead(c) = Len(out[c])
  BY <1>1, <1>2 DEF Ahead
<1>4. Counts(Len(out[c]), msgs[c]) /\ got[c] = Len(out[c]) + Len(msgs[c]) + Kept(c)
  BY <1>3 DEF Order
<1>5. /\ cur'[c] = Len(out[c]) + 1 /\ Len(msgs'[c]) \in Nat /\ Len(msgs[c]) = Len(msgs'[c]) + 1
      /\ Counts(Len(out[c]) + 1, msgs'[c])
  BY <1>1, <1>4, HeadCounts
<1>6. Turned(c)' = Len(out[c]) + 1
  BY DEF Turned, Working
<1>7. Ahead(c)' = Len(out[c]) + 1 /\ Kept(c)' = Kept(c)
  BY <1>1, <1>6 DEF Ahead, Kept
<1>8. got[c] = (Len(out[c]) + 1) + Len(msgs'[c]) + Kept(c)
  <2> DEFINE n == Len(out[c])  m == Len(msgs[c])  r == Len(msgs'[c])
  <2>1. n \in Nat /\ r \in Nat /\ m = r + 1 /\ Kept(c) \in Nat /\ got[c] = n + m + Kept(c)
    BY <1>1, <1>4, <1>5
  <2> HIDE DEF n, m, r
  <2>2. got[c] = (n + 1) + r + Kept(c)
    BY <2>1
  <2> QED BY <2>2 DEF n, r
<1>9. Counts(Ahead(c), msgs[c])'
  BY <1>5, <1>7 DEF Counts
<1>10. \A i \in 1 .. Len(out'[c]) : out'[c][i][1] = i
  BY DEF Order
<1> QED BY <1>5, <1>6, <1>7, <1>8, <1>9, <1>10 DEF Order

\* The lookahead is refilled from the queue; `base` messages are before it.
LEMMA LookAheadKeepsOrder ==
  ASSUME Types, NEW c \in Clients, NEW base \in Nat, LookAhead(c),
         Turned(c)' = base, Counts(base, msgs[c]),
         got[c] = base + Len(msgs[c]) + Kept(c),
         proc'[c] \in Working => cur'[c] = base,
         \A i \in 1 .. Len(out'[c]) : out'[c][i][1] = i,
         UNCHANGED <<got, reader>>
  PROVE  Order(c)'
<1>1. /\ msgs[c] \in Seq(Nat \ {0}) /\ Len(msgs[c]) \in Nat
      /\ got[c] \in Nat /\ Kept(c) \in Nat /\ Kept(c)' = Kept(c)
  BY LocalTypes DEF Kept
<1>2. CASE msgs[c] = << >>
  <2>1. nxt'[c] = 0 /\ msgs' = msgs
    BY <1>2 DEF LookAhead, Types, TypeOK
  <2>2. Ahead(c)' = base
    BY <2>1 DEF Ahead
  <2>3. Counts(Ahead(c), msgs[c])'
    BY <2>1, <2>2 DEF Counts
  <2> QED BY <1>1, <2>1, <2>2, <2>3 DEF Order
<1>3. CASE msgs[c] # << >>
  <2>1. nxt'[c] = Head(msgs[c]) /\ msgs'[c] = Tail(msgs[c])
    BY <1>3 DEF LookAhead, Types, TypeOK
  <2>2. /\ nxt'[c] = base + 1 /\ Len(msgs'[c]) \in Nat /\ Len(msgs[c]) = Len(msgs'[c]) + 1
        /\ Counts(base + 1, msgs'[c])
    BY <1>1, <1>3, <2>1, HeadCounts
  <2>3. Ahead(c)' = base + 1
    BY <2>2 DEF Ahead
  <2>4. Counts(Ahead(c), msgs[c])'
    BY <2>2, <2>3 DEF Counts
  <2>5. got[c] = (base + 1) + Len(msgs'[c]) + Kept(c)
    <3> DEFINE m == Len(msgs[c])  r == Len(msgs'[c])
    <3>1. r \in Nat /\ m = r + 1 /\ Kept(c) \in Nat /\ got[c] = base + m + Kept(c)
      BY <1>1, <2>2
    <3> HIDE DEF m, r
    <3>2. got[c] = (base + 1) + r + Kept(c)
      BY <3>1
    <3> QED BY <3>2 DEF r
  <2> QED BY <1>1, <2>2, <2>3, <2>4, <2>5 DEF Order
<1> QED BY <1>2, <1>3

LEMMA PopKeeps ==
  ASSUME Types, NEW c \in Clients, LoopInv(c),
         proc[c] \in {"first", "advance"}, nxt[c] = 0,
         NEW after \in {"look", "process"}, Pop(c, after),
         UNCHANGED <<client, got, reader, nxt, result, out>>
  PROVE  LoopInv(c)'
<1>1. Own(c)'
  <2>1. proc'[c] # "send"
    BY DEF Pop, Types, TypeOK
  <2> QED BY <2>1 DEF LoopInv, Own
<1>2. CASE msgs[c] # << >>
  <2>1. /\ cur'[c] = Head(msgs[c]) /\ msgs'[c] = Tail(msgs[c]) /\ proc'[c] = after
    BY <1>2 DEF Pop, Types, TypeOK
  <2>2. Control(c)'
    BY <2>1 DEF LoopInv, Control
  <2>3. Order(c) => Order(c)'
    BY <1>2, <2>1, PopKeepsOrder
  <2> QED BY <1>1, <2>2, <2>3 DEF LoopInv
<1>3. CASE msgs[c] = << >>
  <2>1. proc'[c] = "join" /\ UNCHANGED <<cur, msgs>>
    BY <1>3 DEF Pop, Types, TypeOK
  <2> QED BY <2>1, AsideKeeps DEF Working
<1> QED BY <1>2, <1>3

LEMMA FirstKeeps ==
  ASSUME Types, NEW c \in Clients, LoopInv(c), First(c)
  PROVE  LoopInv(c)'
<1>1. /\ proc[c] = "first" /\ nxt[c] = 0 /\ Pop(c, "look")
      /\ UNCHANGED <<client, got, reader, nxt, result, out>>
  BY DEF First, LoopInv, Control, peerVars, readerVars
<1> QED BY <1>1, PopKeeps

LEMMA LookKeeps ==
  ASSUME Types, NEW c \in Clients, LoopInv(c), Look(c)
  PROVE  LoopInv(c)'
<1>1. /\ proc[c] = "look" /\ proc'[c] = "process" /\ nxt[c] = 0 /\ LookAhead(c)
      /\ UNCHANGED <<client, got, reader, cur, result, out>>
  BY DEF Look, LoopInv, Control, peerVars, readerVars, Types, TypeOK
<1>2. Control(c)' /\ Own(c)'
  BY <1>1 DEF LoopInv, Control, Own
<1>3. ASSUME Order(c)
      PROVE  Order(c)'
  <2>1. Turned(c) \in Nat /\ Turned(c)' = Turned(c)
    BY <1>1, LocalTypes DEF Turned, Working
  <2>2. Ahead(c) = Turned(c)
    BY <1>1, <2>1 DEF Ahead
  <2>3. /\ Counts(Turned(c), msgs[c]) /\ cur[c] = Turned(c)
        /\ got[c] = Turned(c) + Len(msgs[c]) + Kept(c)
        /\ \A i \in 1 .. Len(out'[c]) : out'[c][i][1] = i
    BY <1>1, <1>3, <2>2 DEF Order, Working
  <2> QED BY <1>1, <2>1, <2>3, LookAheadKeepsOrder
<1> QED BY <1>1, <1>2, <1>3 DEF LoopInv

LEMMA AdvanceKeeps ==
  ASSUME Types, NEW c \in Clients, LoopInv(c), Advance(c)
  PROVE  LoopInv(c)'
<1>1. proc[c] = "advance" /\ UNCHANGED <<client, got, reader, result, out>>
  BY DEF Advance, peerVars, readerVars
<1>2. CASE nxt[c] = 0
  <2>1. Pop(c, "process") /\ UNCHANGED nxt
    BY <1>2 DEF Advance
  <2> QED BY <1>1, <1>2, <2>1, PopKeeps
<1>3. CASE nxt[c] # 0
  <2>1. cur'[c] = nxt[c] /\ LookAhead(c) /\ proc'[c] = "process"
    BY <1>3 DEF Advance, Types, TypeOK
  <2>2. Control(c)' /\ Own(c)'
    BY <1>1, <2>1 DEF LoopInv, Control, Own
  <2>3. ASSUME Order(c)
        PROVE  Order(c)'
    <3>1. Len(out[c]) \in Nat /\ Ahead(c) \in Nat
      BY LocalTypes
    <3>2. Ahead(c) = Len(out[c]) + 1
      BY <1>1, <1>3, <3>1 DEF Ahead, Turned, Working
    <3>3. Turned(c)' = Ahead(c)
      BY <1>1, <2>1, <3>2 DEF Turned, Working
    <3>4. /\ Counts(Ahead(c), msgs[c]) /\ cur'[c] = Ahead(c)
          /\ got[c] = Ahead(c) + Len(msgs[c]) + Kept(c)
          /\ \A i \in 1 .. Len(out'[c]) : out'[c][i][1] = i
      BY <1>1, <1>3, <2>1, <2>3 DEF Order
    <3> QED BY <1>1, <2>1, <3>1, <3>3, <3>4, LookAheadKeepsOrder
  <2> QED BY <1>1, <2>2, <2>3 DEF LoopInv
<1> QED BY <1>2, <1>3

\* While a message is in hand nothing else moves; what Process and Request give
\* as its result is an error, and what Receive takes is the response to it.
LEMMA InHandKeeps ==
  ASSUME Types, NEW c \in Clients, LoopInv(c),
         proc[c] \in {"process", "lock", "recv"}, proc'[c] \in {"lock", "recv", "send"},
         proc'[c] = "send" => Matches(c, cur[c], result'[c]),
         UNCHANGED <<client, got, reader, msgs, cur, nxt, out>>
  PROVE  LoopInv(c)'
<1>1. Control(c)' /\ Own(c)'
  BY DEF LoopInv, Control, Own
<1>2. UNCHANGED <<Turned(c), Ahead(c), Kept(c)>>
  BY DEF Turned, Ahead, Kept, Working
<1>3. Order(c) => Order(c)'
  BY <1>2 DEF Order, Working
<1> QED BY <1>1, <1>3 DEF LoopInv

LEMMA ProcessKeeps ==
  ASSUME Types, NEW c \in Clients, LoopInv(c), Process(c)
  PROVE  LoopInv(c)'
<1>1. /\ proc[c] = "process" /\ proc'[c] \in {"lock", "send"}
      /\ proc'[c] = "send" => result'[c] = Failed
      /\ UNCHANGED <<client, got, reader, msgs, cur, nxt, out>>
  BY DEF Process, Types, TypeOK, peerVars, readerVars
<1> QED BY <1>1, InHandKeeps DEF Matches

LEMMA RequestKeeps ==
  ASSUME Types, NEW c \in Clients, LoopInv(c), Request(c)
  PROVE  LoopInv(c)'
<1>1. /\ proc[c] = "lock" /\ proc'[c] \in {"recv", "send"}
      /\ proc'[c] = "send" => result'[c] = Failed
      /\ UNCHANGED <<client, got, reader, msgs, cur, nxt, out>>
  BY DEF Request, Types, TypeOK, peerVars, readerVars
<1> QED BY <1>1, InHandKeeps DEF Matches

LEMMA OneElement ==
  ASSUME NEW x
  PROVE  Head(<<x>>) = x /\ Tail(<<x>>) = << >> /\ Append(<< >>, x) = <<x>>
OBVIOUS

LEMMA ReceiveKeeps ==
  ASSUME Types, WireInv, NEW c \in Clients, LoopInv(c), Receive(c)
  PROVE  LoopInv(c)'
<1>1. /\ proc[c] = "recv" /\ proc'[c] = "send"
      /\ UNCHANGED <<client, got, reader, msgs, cur, nxt, out>>
  BY DEF Receive, Types, TypeOK, peerVars, readerVars
<1>2. Matches(c, cur[c], result'[c])
  <2>1. CASE responses = << >>
    BY <2>1 DEF Receive, Matches, Types, TypeOK
  <2>2. CASE responses # << >>
    <3>1. result'[c] \in {Head(responses), Failed}
      BY <2>2 DEF Receive, Types, TypeOK
    <3>2. responses = <<<<c, cur[c]>>>>
      BY <1>1, <2>2 DEF WireInv, OnWire
    <3>3. Head(responses) = <<c, cur[c]>>
      BY <3>2, OneElement
    <3> QED BY <3>1, <3>3 DEF Matches
  <2> QED BY <2>1, <2>2
<1> QED BY <1>1, <1>2, InHandKeeps

LEMMA RespondKeeps ==
  ASSUME Types, NEW c \in Clients, LoopInv(c), Respond(c)
  PROVE  LoopInv(c)'
<1>1. /\ proc[c] = "send" /\ proc'[c] \in {"advance", "join"}
      /\ UNCHANGED <<client, got, reader, msgs, cur, nxt, result>>
  BY DEF Respond, Types, TypeOK, peerVars, readerVars
<1>2. CASE client[c] # "open"
  <2>1. out' = out
    BY <1>2 DEF Respond
  <2> QED BY <1>1, <1>2, <2>1 DEF LoopInv, Control, Own
<1>3. CASE client[c] = "open"
  <2>1. proc'[c] = "advance" /\ out'[c] = Append(out[c], <<cur[c], result[c]>>)
    BY <1>3 DEF Respond, Types, TypeOK
  <2>2. /\ out[c] \in Seq(Nat \X Results) /\ Len(out[c]) \in Nat
        /\ <<cur[c], result[c]>> \in Nat \X Results
    BY LocalTypes DEF Types, TypeOK
  <2>3. /\ Len(out'[c]) = Len(out[c]) + 1
        /\ \A i \in 1 .. Len(out[c]) : out'[c][i] = out[c][i]
        /\ out'[c][Len(out[c]) + 1] = <<cur[c], result[c]>>
    BY <2>1, <2>2, AppendProperties
  <2>4. \A i \in 1 .. Len(out'[c]) : i \in 1 .. Len(out[c]) \/ i = Len(out[c]) + 1
    BY <2>2, <2>3
  <2>5. Control(c)'
    BY <1>1, <2>1 DEF LoopInv, Control
  <2>6. Own(c)'
    <3>1. ASSUME NEW i \in 1 .. Len(out'[c])
          PROVE  Matches(c, out'[c][i][1], out'[c][i][2])
      <4>1. CASE i \in 1 .. Len(out[c])
        BY <2>3, <4>1 DEF LoopInv, Own
      <4>2. CASE i = Len(out[c]) + 1
        <5>1. Matches(c, cur[c], result[c])
          BY <1>1 DEF LoopInv, Own
        <5>2. out'[c][i][1] = cur[c] /\ out'[c][i][2] = result[c]
          BY <2>3, <4>2
        <5> QED BY <5>1, <5>2
      <4> QED BY <2>4, <4>1, <4>2
    <3> QED BY <2>1, <3>1 DEF Own, Matches
  <2>7. ASSUME Order(c)
        PROVE  Order(c)'
    <3>1. cur[c] = Len(out[c]) + 1
      BY <1>1, <2>7 DEF Order, Turned, Working
    <3>2. \A i \in 1 .. Len(out'[c]) : out'[c][i][1] = i
      <4>1. \A i \in 1 .. Len(out[c]) : out[c][i][1] = i
        BY <2>7 DEF Order
      <4>2. out'[c][Len(out[c]) + 1][1] = Len(out[c]) + 1
        BY <2>3, <3>1
      <4> QED BY <2>3, <2>4, <4>1, <4>2
    <3>3. Turned(c)' = Turned(c)
      BY <1>1, <2>1, <2>2, <2>3 DEF Turned, Working
    <3>4. Ahead(c)' = Ahead(c) /\ Kept(c)' = Kept(c)
      BY <1>1, <3>3 DEF Ahead, Kept
    <3> QED BY <1>1, <2>1, <2>7, <3>2, <3>3, <3>4 DEF Order, Working
  <2> QED BY <1>1, <2>5, <2>6, <2>7 DEF LoopInv
<1> QED BY <1>2, <1>3

LEMMA CloseKeeps ==
  ASSUME Types, NEW c \in Clients, LoopInv(c), Close(c)
  PROVE  LoopInv(c)'
<1>1. /\ proc[c] = "join" /\ proc'[c] = "closed"
      /\ UNCHANGED <<client, got, reader, msgs, cur, nxt, result, out>>
  BY DEF Close, Types, TypeOK, peerVars, readerVars
<1> QED BY <1>1, AsideKeeps DEF Working

-----------------------------------------------------------------------------
(* The worker connection.                                                  *)

\* With the mutex, the message in hand and both directions left alone.
LEMMA WireStays ==
  ASSUME WireInv, UNCHANGED <<mutex, pending, responses, link>>,
         \A c \in Clients : proc'[c] = "recv" <=> proc[c] = "recv",
         \A c \in mutex : cur'[c] = cur[c]
  PROVE  WireInv'
<1>1. OnWire(pending)' /\ OnWire(responses)'
  BY DEF WireInv, OnWire
<1> QED BY <1>1 DEF WireInv

LEMMA WorkerKeepsWire ==
  ASSUME Types, WireInv, WorkerAnswers \/ WorkerGone
  PROVE  WireInv'
<1>1. UNCHANGED <<proc, mutex, cur>>
  BY DEF WorkerAnswers, WorkerGone, loopVars
<1>2. CASE WorkerAnswers
  <2>1. PICK c \in mutex : pending = <<<<c, cur[c]>>>>
    BY <1>2 DEF WorkerAnswers, WireInv, OnWire
  <2>2. responses = << >> /\ link = "open" /\ link' = link
    BY <1>2, <2>1 DEF WorkerAnswers, WireInv
  <2>3. Head(pending) = <<c, cur[c]>> /\ Tail(pending) = << >>
    BY <2>1, OneElement
  <2>4. Append(<< >>, <<c, cur[c]>>) = <<<<c, cur[c]>>>>
    BY OneElement
  <2>5. pending' = << >> /\ responses' = <<<<c, cur[c]>>>>
    BY <1>2, <2>2, <2>3, <2>4 DEF WorkerAnswers
  <2>6. OnWire(pending)' /\ OnWire(responses)'
    BY <1>1, <2>5 DEF OnWire
  <2> QED BY <1>1, <2>2, <2>5, <2>6 DEF WireInv
<1>3. CASE WorkerGone
  <2>1. pending' = << >> /\ responses' \in {responses, << >>}
    BY <1>3 DEF WorkerGone
  <2>2. OnWire(pending)' /\ OnWire(responses)'
    BY <1>1, <2>1 DEF OnWire, WireInv
  <2> QED BY <1>1, <2>1, <2>2 DEF WireInv
<1> QED BY <1>2, <1>3

LEMMA RequestKeepsWire ==
  ASSUME Types, WireInv, NEW c \in Clients, Request(c)
  PROVE  WireInv'
<1>1. /\ proc[c] = "lock" /\ mutex = {} /\ UNCHANGED <<cur, link, responses>>
      /\ pending = << >> /\ responses = << >>
  BY DEF Request, WireInv, OnWire
<1>2. CASE link = "open"
  <2>1. mutex' = {c} /\ pending' = Append(pending, <<c, cur[c]>>) /\ link' = "open"
    BY <1>1, <1>2 DEF Request
  <2>2. Append(<< >>, <<c, cur[c]>>) = <<<<c, cur[c]>>>>
    BY OneElement
  <2>3. pending' = <<<<c, cur[c]>>>> /\ responses' = << >>
    BY <1>1, <2>1, <2>2
  <2>4. OnWire(pending)' /\ OnWire(responses)'
    BY <1>1, <2>1, <2>3 DEF OnWire
  <2>5. \A d \in Clients : proc'[d] = "recv" <=> d \in mutex'
    BY <1>1, <1>2, <2>1 DEF Request, WireInv, Types, TypeOK
  <2> QED BY <2>1, <2>3, <2>4, <2>5 DEF WireInv
<1>3. CASE link # "open"
  <2>1. UNCHANGED <<mutex, pending>> /\ proc' = [proc EXCEPT ![c] = "send"]
    BY <1>3 DEF Request
  <2>2. \A d \in Clients : proc'[d] = "recv" <=> proc[d] = "recv"
    BY <1>1, <2>1 DEF Types, TypeOK
  <2> QED BY <1>1, <2>1, <2>2, WireStays
<1> QED BY <1>2, <1>3

LEMMA ReceiveKeepsWire ==
  ASSUME Types, WireInv, NEW c \in Clients, Receive(c)
  PROVE  WireInv'
<1>1. /\ proc[c] = "recv" /\ proc' = [proc EXCEPT ![c] = "send"]
      /\ mutex' = mutex \ {c} /\ UNCHANGED <<cur, pending, link>>
  BY DEF Receive
<1>2. mutex = {c} /\ mutex' = {}
  BY <1>1 DEF WireInv
<1>3. pending = << >>
  BY DEF Receive, WireInv
<1>4. responses' = << >>
  <2>1. CASE responses = << >>
    BY <2>1 DEF Receive
  <2>2. CASE responses # << >>
    <3>1. responses = <<<<c, cur[c]>>>>
      BY <1>2, <2>2 DEF WireInv, OnWire
    <3>2. Tail(responses) = << >>
      BY <3>1, OneElement
    <3> QED BY <2>2, <3>2 DEF Receive
  <2> QED BY <2>1, <2>2
<1>5. \A d \in Clients : proc'[d] # "recv"
  BY <1>1, <1>2 DEF WireInv, Types, TypeOK
<1>6. OnWire(pending)' /\ OnWire(responses)'
  BY <1>1, <1>3, <1>4 DEF OnWire
<1> QED BY <1>1, <1>2, <1>3, <1>4, <1>5, <1>6 DEF WireInv

LEMMA LoopKeepsWire ==
  ASSUME Types, WireInv, NEW c \in Clients, Loop(c)
  PROVE  WireInv'
<1>1. CASE Request(c) \/ Receive(c)
  BY <1>1, RequestKeepsWire, ReceiveKeepsWire
<1>2. CASE ~(Request(c) \/ Receive(c))
  <2>1. /\ UNCHANGED <<mutex, pending, responses, link>>
        /\ proc[c] # "recv" /\ proc'[c] # "recv"
        /\ \A d \in Clients : d # c => proc'[d] = proc[d] /\ cur'[d] = cur[d]
    <3>1. CASE First(c)
      BY <3>1 DEF First, Pop, workerVars, Types, TypeOK
    <3>2. CASE Look(c)
      BY <3>2 DEF Look, workerVars, Types, TypeOK
    <3>3. CASE Process(c)
      BY <3>3 DEF Process, workerVars, Types, TypeOK
    <3>4. CASE Respond(c)
      BY <3>4 DEF Respond, workerVars, Types, TypeOK
    <3>5. CASE Advance(c)
      BY <3>5 DEF Advance, Pop, workerVars, Types, TypeOK
    <3>6. CASE Close(c)
      BY <3>6 DEF Close, workerVars, Types, TypeOK
    <3> QED BY <1>2, <3>1, <3>2, <3>3, <3>4, <3>5, <3>6 DEF Loop
  <2>2. c \notin mutex /\ mutex \subseteq Clients
    BY <2>1 DEF WireInv, Types, TypeOK
  <2>3. \A d \in mutex : cur'[d] = cur[d]
    BY <2>1, <2>2
  <2> QED BY <2>1, <2>3, WireStays
<1> QED BY <1>1, <1>2

-----------------------------------------------------------------------------
(* The invariant of the specification.                                     *)

Inv == Types /\ WireInv /\ \A c \in Clients : LoopInv(c)

LEMMA InvInit == Init => Inv
<1> SUFFICES ASSUME Init PROVE Inv
  OBVIOUS
<1>1. WireInv
  BY DEF Init, WireInv, OnWire
<1>2. ASSUME NEW c \in Clients
      PROVE  LoopInv(c)
  <2>1. /\ client[c] = "open" /\ reader[c] = "recv" /\ proc[c] = "first" /\ nxt[c] = 0
        /\ got[c] = 0 /\ msgs[c] = << >> /\ out[c] = << >>
    BY DEF Init
  <2>2. Len(out[c]) = 0 /\ Len(msgs[c]) = 0
    BY <2>1
  <2>3. Turned(c) = 0 /\ Ahead(c) = 0 /\ Kept(c) = 0
    BY <2>1, <2>2 DEF Turned, Ahead, Kept, Working
  <2>4. Counts(Ahead(c), msgs[c])
    BY <2>2 DEF Counts
  <2>5. Order(c)
    BY <2>1, <2>2, <2>3, <2>4 DEF Order, Working
  <2>6. Control(c) /\ Own(c)
    BY <2>1, <2>2 DEF Control, Own
  <2> QED BY <2>5, <2>6 DEF LoopInv
<1> QED BY TypesInit, <1>1, <1>2 DEF Inv

LEMMA LoopElsewhere ==
  ASSUME Types, NEW c \in Clients, Loop(c), NEW d \in Clients, d # c
  PROVE  /\ client'[d] = client[d] /\ got'[d] = got[d] /\ reader'[d] = reader[d]
         /\ msgs'[d] = msgs[d] /\ proc'[d] = proc[d] /\ cur'[d] = cur[d]
         /\ nxt'[d] = nxt[d] /\ result'[d] = result[d] /\ out'[d] = out[d]
<1>1. UNCHANGED <<client, got, reader>>
  BY LoopWrites
<1>2. DOMAIN msgs = Clients /\ DOMAIN proc = Clients /\ DOMAIN cur = Clients
      /\ DOMAIN nxt = Clients /\ DOMAIN result = Clients /\ DOMAIN out = Clients
  BY DEF Types, TypeOK
<1>3. \E x : msgs' = msgs \/ msgs' = [msgs EXCEPT ![c] = x]
  BY LoopWrites
<1>4. \E x : cur' = cur \/ cur' = [cur EXCEPT ![c] = x]
  BY LoopWrites
<1>5. \E x : nxt' = nxt \/ nxt' = [nxt EXCEPT ![c] = x]
  BY LoopWrites
<1>6. \E x : proc' = [proc EXCEPT ![c] = x]
  BY LoopWrites
<1>7. \E x : result' = result \/ result' = [result EXCEPT ![c] = x]
  BY LoopWrites
<1>8. \E x : out' = out \/ out' = [out EXCEPT ![c] = x]
  BY LoopWrites
<1>9. msgs'[d] = msgs[d]
  BY <1>2, <1>3
<1>10. cur'[d] = cur[d] /\ nxt'[d] = nxt[d]
  BY <1>2, <1>4, <1>5
<1>11. proc'[d] = proc[d] /\ result'[d] = result[d] /\ out'[d] = out[d]
  BY <1>2, <1>6, <1>7, <1>8
<1> QED BY <1>1, <1>9, <1>10, <1>11

LEMMA InvNext == Inv /\ [Next]_vars => Inv'
<1> SUFFICES ASSUME Inv, [Next]_vars PROVE Inv'
  OBVIOUS
<1>1. Types /\ WireInv /\ \A c \in Clients : LoopInv(c)
  BY DEF Inv
<1>2. CASE UNCHANGED vars
  <2>1. UNCHANGED <<client, sent, wire, got, reader, msgs, proc, cur, nxt, result, mutex, link,
                    pending, responses, out>>
    BY <1>2 DEF vars, peerVars, readerVars, loopVars, workerVars
  <2>2. Types'
    BY <1>1, <2>1 DEF Types, TypeOK
  <2>3. WireInv'
    BY <1>1, <2>1, WireStays
  <2>4. \A c \in Clients : LoopInv(c)'
    BY <1>1, <2>1, Untouched
  <2> QED BY <2>2, <2>3, <2>4 DEF Inv
<1>3. ASSUME NEW c \in Clients, Peer(c) \/ Reader(c) \/ WakesSpuriously(c)
      PROVE  Inv'
  <2>1. Types'
    BY <1>1, <1>3, TypesPeer, TypesReader
  <2>2. UNCHANGED <<proc, cur, nxt, result, mutex, link, pending, responses, out>>
    BY <1>3 DEF Peer, SendMessage, Leave, Reader, ReadMessage, DropMessage, ReadEnds, Put,
                WakesSpuriously, loopVars, workerVars
  <2>3. WireInv'
    BY <1>1, <2>2, WireStays
  <2>4. LoopInv(c)'
    <3>1. CASE SendMessage(c)
      BY <1>1, <3>1, Untouched DEF SendMessage, readerVars, loopVars
    <3>2. CASE DropMessage(c)
      BY <1>1, <3>2, Untouched DEF DropMessage, readerVars, loopVars
    <3> QED BY <1>1, <1>3, <3>1, <3>2, LeaveKeeps, ReadKeeps, ReadEndsKeeps, PutKeeps DEF Peer, Reader
  <2>5. \A d \in Clients : d # c => LoopInv(d)'
    <3>1. \A d \in Clients : d # c => /\ client'[d] = client[d] /\ got'[d] = got[d]
                                     /\ reader'[d] = reader[d] /\ msgs'[d] = msgs[d]
      BY <1>1, <1>3 DEF Peer, SendMessage, Leave, Reader, ReadMessage, DropMessage, ReadEnds,
                        Put, WakesSpuriously, Push, readerVars, peerVars, Types, TypeOK
    <3> QED BY <1>1, <2>2, <3>1, Untouched
  <2> QED BY <2>1, <2>3, <2>4, <2>5 DEF Inv
<1>4. ASSUME NEW c \in Clients, Loop(c)
      PROVE  Inv'
  <2>1. Types' /\ WireInv'
    BY <1>1, <1>4, TypesLoop, LoopKeepsWire
  <2>2. LoopInv(c)'
    BY <1>1, <1>4, FirstKeeps, LookKeeps, ProcessKeeps, RequestKeeps, ReceiveKeeps, RespondKeeps,
       AdvanceKeeps, CloseKeeps DEF Loop
  <2>3. ASSUME NEW d \in Clients, d # c
        PROVE  LoopInv(d)'
    BY <1>1, <1>4, <2>3, LoopElsewhere, Untouched
  <2> QED BY <2>1, <2>2, <2>3 DEF Inv
<1>5. CASE WorkerAnswers \/ WorkerGone
  <2>1. Types' /\ WireInv'
    BY <1>1, <1>5, TypesWorker, WorkerKeepsWire
  <2>2. UNCHANGED <<client, got, reader, msgs, proc, cur, nxt, result, out>>
    BY <1>5 DEF WorkerAnswers, WorkerGone, peerVars, readerVars, loopVars
  <2> QED BY <1>1, <2>1, <2>2, Untouched DEF Inv
<1> QED BY <1>2, <1>3, <1>4, <1>5 DEF Next

LEMMA Invariant == Spec => []Inv
BY InvInit, InvNext, PTL DEF Spec

\* For any clients and any bounds: no client is answered with the response to
\* another request than its own, although worker.cpp:124-157 compares no id.
THEOREM GatewayAnswersMatch == Spec => []AnswersMatch
<1>1. Inv => AnswersMatch
  <2> SUFFICES ASSUME Inv, NEW c \in Clients, NEW i \in DOMAIN out[c]
               PROVE  out[c][i][2] \in {Failed, <<c, out[c][i][1]>>}
    BY DEF AnswersMatch
  <2>1. i \in 1 .. Len(out[c])
    BY LenProperties DEF Inv, Types, TypeOK
  <2> QED BY <2>1 DEF Inv, LoopInv, Own, Matches
<1> QED BY <1>1, Invariant, PTL

-----------------------------------------------------------------------------
(* The places of a connection one after the other hold 1 .. got[c].        *)

Upto(n) == [i \in 1 .. n |-> i]

LEMMA CountOn ==
  ASSUME NEW n \in Nat, NEW s \in Seq(Nat), Counts(n, s)
  PROVE  Upto(n) \o s = Upto(n + Len(s))
<1>1. Upto(n) \in Seq(Nat) /\ Len(Upto(n)) = n /\ Len(s) \in Nat
  BY LenProperties DEF Upto
<1>2. /\ Upto(n) \o s \in Seq(Nat)
      /\ Len(Upto(n) \o s) = n + Len(s)
      /\ \A i \in 1 .. n + Len(s) :
           (Upto(n) \o s)[i] = IF i <= n THEN Upto(n)[i] ELSE s[i - n]
  <2> DEFINE u == Upto(n)
  <2>1. u \in Seq(Nat) /\ Len(u) = n
    BY <1>1
  <2> HIDE DEF u
  <2>2. /\ u \o s \in Seq(Nat)
        /\ Len(u \o s) = Len(u) + Len(s)
        /\ \A i \in 1 .. Len(u) + Len(s) :
             (u \o s)[i] = IF i <= Len(u) THEN u[i] ELSE s[i - Len(u)]
    BY <2>1, ConcatProperties
  <2>3. /\ u \o s \in Seq(Nat)
        /\ Len(u \o s) = n + Len(s)
        /\ \A i \in 1 .. n + Len(s) : (u \o s)[i] = IF i <= n THEN u[i] ELSE s[i - n]
    BY <2>1, <2>2
  <2> QED BY <2>3 DEF u
<1>3. ASSUME NEW i \in 1 .. n + Len(s)
      PROVE  (Upto(n) \o s)[i] = i
  <2>1. CASE i <= n
    BY <1>1, <1>2, <2>1 DEF Upto
  <2>2. CASE ~(i <= n)
    <3>1. i - n \in 1 .. Len(s)
      BY <1>1, <2>2
    <3>2. s[i - n] = n + (i - n)
      BY <3>1 DEF Counts
    <3> QED BY <1>1, <1>2, <2>2, <3>2
  <2> QED BY <2>1, <2>2
<1>4. Upto(n) \o s \in [1 .. n + Len(s) -> Nat]
  BY <1>2, LenProperties
<1> DEFINE all == Upto(n) \o s
<1>5. all \in [1 .. n + Len(s) -> Nat] /\ \A i \in 1 .. n + Len(s) : all[i] = i
  BY <1>3, <1>4
<1> HIDE DEF all
<1>6. all = [i \in 1 .. n + Len(s) |-> i]
  BY <1>5
<1> QED BY <1>6 DEF all, Upto

LEMMA OneOn ==
  ASSUME NEW n \in Nat, NEW k \in Nat
  PROVE  /\ k = 0 => Upto(n) \o One(k) = Upto(n)
         /\ k = n + 1 => Upto(n) \o One(k) = Upto(n + 1)
<1>1. CASE k = 0
  <2>1. One(k) = << >> /\ << >> \in Seq(Nat) /\ Len(<< >>) = 0
    BY <1>1 DEF One
  <2>2. Counts(n, << >>) /\ n + Len(<< >>) = n
    BY <2>1 DEF Counts
  <2>3. Upto(n) \o << >> = Upto(n + Len(<< >>))
    BY <2>1, <2>2, CountOn
  <2>4. Upto(n) \o One(k) = Upto(n)
    BY <2>1, <2>2, <2>3, Zenon
  <2> QED BY <1>1, <2>4
<1>2. CASE k = n + 1
  <2>1. One(k) = <<k>> /\ <<k>> \in Seq(Nat) /\ Len(<<k>>) = 1
    BY <1>2 DEF One
  <2>2. Counts(n, <<k>>) /\ n + Len(<<k>>) = n + 1
    BY <1>2, <2>1 DEF Counts
  <2>3. Upto(n) \o <<k>> = Upto(n + Len(<<k>>))
    BY <2>1, <2>2, CountOn
  <2>4. Upto(n) \o One(k) = Upto(n + 1)
    BY <2>1, <2>2, <2>3, Zenon
  <2>5. k # 0
    BY <1>2
  <2> QED BY <2>4, <2>5
<1> QED BY <1>1, <1>2

LEMMA PlacesInOrder ==
  ASSUME Types, NEW c \in Clients, Order(c)
  PROVE  [i \in DOMAIN out[c] |-> out[c][i][1]] \o InHand(c) \o One(nxt[c]) \o msgs[c] \o Held(c)
           = Upto(got[c])
<1> DEFINE n == Len(out[c])  m == Len(msgs[c])
<1>1. n \in Nat /\ m \in Nat /\ Turned(c) \in Nat /\ Ahead(c) \in Nat
      /\ got[c] \in Nat /\ cur[c] \in Nat /\ nxt[c] \in Nat
      /\ msgs[c] \in Seq(Nat) /\ DOMAIN out[c] = 1 .. n
  BY LocalTypes, LenProperties
<1>2. [i \in DOMAIN out[c] |-> out[c][i][1]] = Upto(n)
  BY <1>1 DEF Upto, Order
<1>3. Upto(n) \o InHand(c) = Upto(Turned(c))
  <2>1. CASE proc[c] \in Working
    <3>1. Turned(c) = n + 1 /\ cur[c] = n + 1 /\ InHand(c) = One(cur[c])
      BY <2>1 DEF Turned, Order, InHand, Working
    <3> QED BY <1>1, <3>1, OneOn
  <2>2. CASE proc[c] \notin Working
    <3>1. Turned(c) = n
      BY <1>1, <2>2 DEF Turned
    <3>2. InHand(c) = One(0)
      BY <2>2 DEF InHand, Working, One
    <3> QED BY <1>1, <3>1, <3>2, OneOn
  <2> QED BY <2>1, <2>2
<1>4. Upto(Turned(c)) \o One(nxt[c]) = Upto(Ahead(c))
  <2>1. CASE nxt[c] = 0
    <3>1. Ahead(c) = Turned(c)
      BY <1>1, <2>1 DEF Ahead
    <3> QED BY <1>1, <2>1, <3>1, OneOn
  <2>2. CASE nxt[c] # 0
    <3>1. Ahead(c) = Turned(c) + 1
      BY <2>2 DEF Ahead
    <3>2. nxt[c] = Turned(c) + 1
      BY <2>2, <3>1 DEF Order
    <3> QED BY <1>1, <3>1, <3>2, OneOn
  <2> QED BY <2>1, <2>2
<1>5. Upto(Ahead(c)) \o msgs[c] = Upto(Ahead(c) + m)
  BY <1>1, CountOn DEF Order
<1>6. Upto(Ahead(c) + m) \o Held(c) = Upto(got[c])
  <2>1. got[c] = Ahead(c) + m + Kept(c)
    BY DEF Order
  <2>2. Ahead(c) + m \in Nat
    BY <1>1
  <2>3. CASE reader[c] \in {"put", "wait"}
    <3>1. got[c] = (Ahead(c) + m) + 1 /\ Held(c) = One(got[c])
      BY <2>1, <2>3 DEF Kept, Held
    <3> QED BY <1>1, <2>2, <3>1, OneOn
  <2>4. CASE reader[c] \notin {"put", "wait"}
    <3>1. Kept(c) = 0 /\ Held(c) = One(0)
      BY <2>4 DEF Kept, Held, One
    <3>2. got[c] = Ahead(c) + m
      BY <2>1, <2>2, <3>1
    <3>3. Upto(Ahead(c) + m) \o One(0) = Upto(Ahead(c) + m)
      BY <2>2, OneOn
    <3> QED BY <3>1, <3>2, <3>3
  <2> QED BY <2>3, <2>4
<1> HIDE DEF n, m
<1> QED BY <1>2, <1>3, <1>4, <1>5, <1>6

\* For any clients, queue depth and number of messages: the reader, the queue,
\* the lookahead and the loop of main.cpp:440-538 keep every message that was
\* read, once and in order, while the client is there.
THEOREM GatewayPipelineInOrder == Spec => []PipelineInOrder
<1>1. Inv => PipelineInOrder
  BY PlacesInOrder DEF Inv, LoopInv, PipelineInOrder, Upto
<1> QED BY <1>1, Invariant, PTL
=============================================================================
