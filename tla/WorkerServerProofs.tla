-------------------------- MODULE WorkerServerProofs --------------------------
(***************************************************************************)
(* What WorkerServer promises for any set of connections, any kinds of     *)
(* frames, every queue size and every number of frames.  TypeOK is         *)
(* inductive by itself.  Over it, LockInv says who is inside the engine,   *)
(* BacklogInv that a connection is accepted once, Control(c) which threads *)
(* of a connection hold what, and Order(c) that the numbers of its frames  *)
(* continue from the answers through both threads and the queue between    *)
(* them to the socket.                                                     *)
(***************************************************************************)
EXTENDS WorkerServer, FiniteSetTheorems, SequenceTheorems, TLAPS

\* The end marker is no frame: no peer sends a frame of kind "eof".
LEMMA EofIsNoFrame == Eof \notin Frame
BY KindsAssumption DEF Eof, Frame

-----------------------------------------------------------------------------
(* Types.                                                                  *)

LEMMA TypesInit == Init => TypeOK
<1> SUFFICES ASSUME Init PROVE TypeOK
  OBVIOUS
<1>1. /\ << >> \in Seq(Conns) /\ << >> \in Seq(Frame)
      /\ << >> \in Seq(Frame \cup {Eof}) /\ << >> \in Seq(Nat)
  BY EmptySeq
<1>2. /\ inbox \in [Conns -> Seq(Frame)]
      /\ frames \in [Conns -> Seq(Frame \cup {Eof})]
      /\ replies \in [Conns -> Seq(Nat)]
  BY <1>1 DEF Init
<1>3. \A c \in Conns : Len(frames[c]) <= QueueSize
  BY SizesAssumption DEF Init
<1>4. lock \in SUBSET Conns /\ backlog \in Seq(Conns)
  BY <1>1 DEF Init
<1>5. /\ held \in [Conns -> Frame \cup {Eof}] /\ current \in [Conns -> Frame \cup {Eof}]
  BY DEF Init
<1>6. sent \in [Conns -> Nat]
  BY DEF Init
<1> QED BY <1>2, <1>3, <1>4, <1>5, <1>6 DEF Init, TypeOK

LEMMA TypesPeer ==
  ASSUME TypeOK, NEW c \in Conns, Peer(c)
  PROVE  TypeOK'
<1>1. CASE Connect(c)
  <2>1. Append(backlog, c) \in Seq(Conns)
    BY AppendProperties DEF TypeOK
  <2> QED BY <1>1, <2>1 DEF TypeOK, Connect, readerVars, threadVars
<1>2. CASE Disconnect(c)
  BY <1>2 DEF TypeOK, Disconnect, mainVars, readerVars, threadVars
<1>3. ASSUME NEW kind \in Kinds, SendFrame(c, kind)
      PROVE  TypeOK'
  <2>1. sent[c] + 1 \in Nat /\ [n |-> sent[c] + 1, kind |-> kind] \in Frame
    BY DEF TypeOK, Frame
  <2>2. inbox[c] \in Seq(Frame)
    BY DEF TypeOK
  <2>3. Append(inbox[c], [n |-> sent[c] + 1, kind |-> kind]) \in Seq(Frame)
    BY <2>1, <2>2, AppendProperties
  <2> QED BY <1>3, <2>1, <2>3 DEF TypeOK, SendFrame, mainVars, readerVars, threadVars
<1> QED BY <1>1, <1>2, <1>3 DEF Peer

LEMMA TypesMain ==
  ASSUME TypeOK, Main
  PROVE  TypeOK'
<1>1. CASE Accept
  <2>1. Head(backlog) \in Conns /\ Tail(backlog) \in Seq(Conns)
    BY <1>1, HeadTailProperties DEF TypeOK, Accept
  <2> QED BY <1>1, <2>1 DEF TypeOK, Accept, peerVars
<1>2. CASE CheckShutdown
  BY <1>2 DEF TypeOK, CheckShutdown, peerVars, readerVars, threadVars
<1>3. CASE Exit
  BY <1>3 DEF TypeOK, Exit, peerVars, readerVars, threadVars
<1> QED BY <1>1, <1>2, <1>3 DEF Main

LEMMA TypesReader ==
  ASSUME TypeOK, NEW c \in Conns, Reader(c)
  PROVE  TypeOK'
<1>1. CASE ReaderCall(c)
  BY <1>1 DEF TypeOK, ReaderCall, mainVars, peerVars, threadVars
<1>2. CASE ReaderReceive(c)
  <2>1. inbox[c] # << >> => Head(inbox[c]) \in Frame /\ Tail(inbox[c]) \in Seq(Frame)
    BY HeadTailProperties DEF TypeOK
  <2>2. inbox' \in [Conns -> Seq(Frame)]
    BY <1>2, <2>1 DEF TypeOK, ReaderReceive
  <2>3. held' \in [Conns -> Frame \cup {Eof}]
    BY <1>2, <2>1 DEF TypeOK, ReaderReceive
  <2> QED BY <1>2, <2>2, <2>3 DEF TypeOK, ReaderReceive, mainVars, peerVars, threadVars
<1>3. CASE ReaderPut(c)
  <2>1. frames[c] \in Seq(Frame \cup {Eof}) /\ held[c] \in Frame \cup {Eof}
    BY DEF TypeOK
  <2>2. /\ Append(frames[c], held[c]) \in Seq(Frame \cup {Eof})
        /\ Len(Append(frames[c], held[c])) = Len(frames[c]) + 1
    BY <2>1, AppendProperties
  <2>3. Len(frames[c]) \in Nat /\ Len(frames[c]) + 1 <= QueueSize
    BY <1>3, <2>1, LenProperties, SizesAssumption DEF ReaderPut
  <2> QED BY <1>3, <2>2, <2>3 DEF TypeOK, ReaderPut, mainVars, peerVars, threadVars
<1> QED BY <1>1, <1>2, <1>3 DEF Reader

LEMMA TypesProcessing ==
  ASSUME TypeOK, NEW c \in Conns, Processing(c)
  PROVE  TypeOK'
<1>1. CASE Get(c)
  <2>1. frames[c] \in Seq(Frame \cup {Eof}) /\ frames[c] # << >>
    BY <1>1 DEF TypeOK, Get
  <2>2. /\ Head(frames[c]) \in Frame \cup {Eof}
        /\ Tail(frames[c]) \in Seq(Frame \cup {Eof})
        /\ Len(Tail(frames[c])) = Len(frames[c]) - 1
        /\ Len(frames[c]) \in Nat
    BY <2>1, HeadTailProperties, LenProperties
  <2>3. shutdown' \in BOOLEAN
    BY <1>1 DEF Get
  <2>4. thread' \in [Conns -> {"none", "get", "lock", "infer", "send", "exited"}]
    BY <1>1 DEF Get, TypeOK
  <2>5. frames' = [frames EXCEPT ![c] = Tail(frames[c])]
        /\ current' = [current EXCEPT ![c] = Head(frames[c])]
    BY <1>1 DEF Get
  <2>6. UNCHANGED <<main, lock, backlog, peer, sent, inbox, reader, held, replies>>
    BY <1>1 DEF Get, peerVars, readerVars
  <2>7. /\ frames' \in [Conns -> Seq(Frame \cup {Eof})]
        /\ \A d \in Conns : Len(frames'[d]) <= QueueSize
        /\ current' \in [Conns -> Frame \cup {Eof}]
    BY <2>2, <2>5, SizesAssumption DEF TypeOK
  <2> QED BY <2>3, <2>4, <2>6, <2>7 DEF TypeOK
<1>2. CASE AcquireLock(c)
  BY <1>2 DEF TypeOK, AcquireLock, peerVars, readerVars
<1>3. CASE Infer(c)
  BY <1>3 DEF TypeOK, Infer, peerVars, readerVars
<1>4. CASE SendReply(c)
  <2>1. replies[c] \in Seq(Nat) /\ current[c].n \in Nat
    BY DEF TypeOK, Frame, Eof
  <2>2. Append(replies[c], current[c].n) \in Seq(Nat)
    BY <2>1, AppendProperties
  <2>3. replies' \in [Conns -> Seq(Nat)]
    BY <1>4, <2>2 DEF SendReply, TypeOK
  <2>4. AfterSend \in {"get", "exited"}
    BY DEF AfterSend
  <2>5. thread' \in [Conns -> {"none", "get", "lock", "infer", "send", "exited"}]
    <3>1. \E s \in {"get", "exited"} : thread' = [thread EXCEPT ![c] = s]
      BY <1>4, <2>4 DEF SendReply
    <3>2. thread \in [Conns -> {"none", "get", "lock", "infer", "send", "exited"}]
      BY DEF TypeOK
    <3> QED BY <3>1, <3>2
  <2> QED BY <1>4, <2>3, <2>5 DEF TypeOK, SendReply, mainVars, peerVars, readerVars
<1> QED BY <1>1, <1>2, <1>3, <1>4 DEF Processing

\* Every variable keeps to its values; the queue between the two threads of a
\* connection never holds more than its maxsize (worker.py:407).
LEMMA TypeCorrect == Spec => []TypeOK
<1>1. TypeOK /\ [Next]_vars => TypeOK'
  <2> SUFFICES ASSUME TypeOK, [Next]_vars PROVE TypeOK'
    OBVIOUS
  <2>1. CASE UNCHANGED vars
    BY <2>1 DEF TypeOK, vars, mainVars, peerVars, readerVars, threadVars
  <2> QED BY <2>1, TypesMain, TypesPeer, TypesReader, TypesProcessing DEF Next
<1> QED BY <1>1, TypesInit, PTL DEF Spec

-----------------------------------------------------------------------------
(* The inductive invariant.                                                *)

\* Exactly the thread that runs the engine holds the lock.
LockInv ==
  /\ \A c \in Conns : thread[c] = "infer" <=> c \in lock
  /\ \A c, d \in lock : c = d

\* A connection waits in the backlog once, and has no threads while it does.
BacklogInv ==
  /\ \A i \in DOMAIN backlog : thread[backlog[i]] = "none" /\ peer[backlog[i]] # "none"
  /\ \A i, j \in DOMAIN backlog : backlog[i] = backlog[j] => i = j

\* What a thread that is somewhere holds.
Control(c) ==
  /\ thread[c] = "none" <=> reader[c] = "none"
  /\ thread[c] = "none" => frames[c] = << >> /\ replies[c] = << >>
  /\ peer[c] = "none" => sent[c] = 0 /\ inbox[c] = << >> /\ thread[c] = "none"
  /\ current[c] # Eof <=> thread[c] \in {"lock", "infer", "send"}
  /\ held[c] # Eof => reader[c] = "put"

Count(item) == IF item = Eof THEN 0 ELSE 1

\* Frames that left the queue, and frames that left the socket.
Taken(c) == Len(replies[c]) + Count(current[c])
Fed(c)   == Taken(c) + Len(frames[c]) + Count(held[c])

\* The reader has met the end of the stream.
Ending(c) == reader[c] = "done" \/ (reader[c] = "put" /\ held[c] = Eof)

\* The numbers go on from each place to the next.  Behind the end marker, which
\* is the last item of the queue, they are of no account.
Order(c) ==
  /\ \A i \in 1 .. Len(replies[c]) : replies[c][i] = i
  /\ current[c] # Eof => current[c].n = Len(replies[c]) + 1
  /\ \A i \in 1 .. Len(frames[c]) :
       IF frames[c][i] = Eof THEN i = Len(frames[c]) /\ reader[c] = "done"
                             ELSE frames[c][i].n = Taken(c) + i
  /\ held[c] # Eof => held[c].n = Fed(c)
  /\ reader[c] = "done" => frames[c] # << >> /\ frames[c][Len(frames[c])] = Eof
  /\ Ending(c) => Taken(c) + Len(frames[c]) <= sent[c] + (IF reader[c] = "done" THEN 1 ELSE 0)
  /\ ~Ending(c) => /\ Fed(c) + Len(inbox[c]) = sent[c]
                   /\ \A i \in 1 .. Len(inbox[c]) : inbox[c][i].n = Fed(c) + i

Serving(c) == peer[c] = "open" /\ thread[c] # "exited"

ConnInv(c) == Control(c) /\ (Serving(c) => Order(c))

Inv == TypeOK /\ LockInv /\ BacklogInv /\ \A c \in Conns : ConnInv(c)

-----------------------------------------------------------------------------
(* The connection a step does not touch, and the connection it does.       *)

LEMMA Untouched ==
  ASSUME NEW d \in Conns, ConnInv(d),
         peer'[d] = peer[d], sent'[d] = sent[d], inbox'[d] = inbox[d],
         reader'[d] = reader[d], held'[d] = held[d], frames'[d] = frames[d],
         thread'[d] = thread[d], current'[d] = current[d], replies'[d] = replies[d]
  PROVE  ConnInv(d)'
<1>1. Control(d)'
  BY DEF ConnInv, Control
<1>2. UNCHANGED <<Taken(d), Fed(d)>>
  BY DEF Fed, Taken, Count
<1>3. Ending(d)' <=> Ending(d)
  BY DEF Ending
<1>4. Serving(d)' => Serving(d)
  BY DEF Serving
<1>5. Order(d) => Order(d)'
  BY <1>2, <1>3 DEF Order
<1> QED BY <1>1, <1>4, <1>5 DEF ConnInv

LEMMA ConnTypes ==
  ASSUME TypeOK, NEW c \in Conns
  PROVE  /\ inbox[c] \in Seq(Frame) /\ Len(inbox[c]) \in Nat
         /\ frames[c] \in Seq(Frame \cup {Eof}) /\ Len(frames[c]) \in Nat
         /\ replies[c] \in Seq(Nat) /\ Len(replies[c]) \in Nat
         /\ sent[c] \in Nat /\ Count(current[c]) \in {0, 1} /\ Count(held[c]) \in {0, 1}
         /\ Taken(c) \in Nat /\ Fed(c) \in Nat
<1>1. /\ inbox[c] \in Seq(Frame) /\ frames[c] \in Seq(Frame \cup {Eof})
      /\ replies[c] \in Seq(Nat) /\ sent[c] \in Nat
  BY DEF TypeOK
<1>2. Len(inbox[c]) \in Nat /\ Len(frames[c]) \in Nat /\ Len(replies[c]) \in Nat
  BY <1>1, LenProperties
<1>3. Count(current[c]) \in {0, 1} /\ Count(held[c]) \in {0, 1}
  BY DEF Count
<1>4. Taken(c) \in Nat /\ Fed(c) \in Nat
  BY <1>2, <1>3 DEF Taken, Fed
<1> QED BY <1>1, <1>2, <1>3, <1>4

\* A connection that is made is empty, and has no threads yet.
LEMMA ConnectKeeps ==
  ASSUME TypeOK, NEW c \in Conns, ConnInv(c), Connect(c)
  PROVE  ConnInv(c)'
<1>1. /\ peer'[c] = "open" /\ peer[c] = "none"
      /\ UNCHANGED <<sent, inbox, reader, held, frames, thread, current, replies>>
  BY DEF TypeOK, Connect, readerVars, threadVars
<1>2. /\ thread[c] = "none" /\ reader[c] = "none" /\ sent[c] = 0
      /\ Len(inbox[c]) = 0 /\ Len(frames[c]) = 0 /\ Len(replies[c]) = 0
      /\ current[c] = Eof /\ held[c] = Eof
  BY <1>1 DEF ConnInv, Control
<1>3. Control(c)'
  BY <1>1 DEF ConnInv, Control
<1>4. Order(c)'
  BY <1>1, <1>2 DEF Order, Ending, Fed, Taken, Count
<1> QED BY <1>3, <1>4 DEF ConnInv

LEMMA DisconnectKeeps ==
  ASSUME TypeOK, NEW c \in Conns, ConnInv(c), Disconnect(c)
  PROVE  ConnInv(c)'
<1>1. /\ peer'[c] = "closed" /\ peer[c] = "open"
      /\ UNCHANGED <<sent, inbox, reader, held, frames, thread, current, replies>>
  BY DEF TypeOK, Disconnect, readerVars, threadVars
<1> QED BY <1>1 DEF ConnInv, Control, Serving

\* A frame sent goes behind all others.
LEMMA SendKeeps ==
  ASSUME TypeOK, NEW c \in Conns, ConnInv(c), NEW kind \in Kinds, SendFrame(c, kind)
  PROVE  ConnInv(c)'
<1> DEFINE f == [n |-> sent[c] + 1, kind |-> kind]
<1>1. /\ peer[c] = "open" /\ sent'[c] = sent[c] + 1 /\ inbox'[c] = Append(inbox[c], f)
      /\ UNCHANGED <<peer, reader, held, frames, thread, current, replies>>
  BY DEF TypeOK, SendFrame, readerVars, threadVars
<1>2. f \in Frame /\ f.n = sent[c] + 1
  BY DEF TypeOK, Frame
<1> HIDE DEF f
<1>3. /\ Len(inbox'[c]) = Len(inbox[c]) + 1
      /\ \A i \in 1 .. Len(inbox[c]) : inbox'[c][i] = inbox[c][i]
      /\ inbox'[c][Len(inbox[c]) + 1] = f
  BY <1>1, <1>2, ConnTypes, AppendProperties
<1>4. Control(c)'
  BY <1>1 DEF ConnInv, Control
<1>5. ASSUME Order(c)
      PROVE  Order(c)'
  <2>1. UNCHANGED <<Taken(c), Fed(c), Ending(c)>>
    BY <1>1 DEF Taken, Fed, Count, Ending
  <2>2. ~Ending(c) => /\ Fed(c) + Len(inbox'[c]) = sent'[c]
                      /\ \A i \in 1 .. Len(inbox'[c]) : inbox'[c][i].n = Fed(c) + i
    <3> SUFFICES ASSUME ~Ending(c)
                 PROVE  /\ Fed(c) + Len(inbox'[c]) = sent'[c]
                        /\ \A i \in 1 .. Len(inbox'[c]) : inbox'[c][i].n = Fed(c) + i
      OBVIOUS
    <3>1. /\ Fed(c) + Len(inbox[c]) = sent[c]
          /\ \A i \in 1 .. Len(inbox[c]) : inbox[c][i].n = Fed(c) + i
      BY <1>5 DEF Order
    <3>2. Len(inbox[c]) \in Nat /\ Fed(c) \in Nat /\ sent[c] \in Nat
      BY ConnTypes
    <3>3. \A i \in 1 .. Len(inbox'[c]) : i \in 1 .. Len(inbox[c]) \/ i = Len(inbox[c]) + 1
      BY <1>3, <3>2
    <3> QED BY <1>1, <1>2, <1>3, <3>1, <3>2, <3>3
  <2>3. Ending(c) =>
          Taken(c) + Len(frames[c]) <= sent'[c] + (IF reader[c] = "done" THEN 1 ELSE 0)
    BY <1>1, <1>5, ConnTypes DEF Order
  <2> QED BY <1>1, <1>5, <2>1, <2>2, <2>3 DEF Order
<1> QED BY <1>1, <1>4, <1>5 DEF ConnInv, Serving

\* A connection that is accepted gets its two threads, with nothing between them.
LEMMA AcceptKeeps ==
  ASSUME TypeOK, BacklogInv, NEW c \in Conns, ConnInv(c), Accept
  PROVE  ConnInv(c)'
<1>1. /\ UNCHANGED <<peer, sent, inbox, held, frames, current, replies>>
      /\ Head(backlog) \in Conns
      /\ thread'[c] = IF c = Head(backlog) THEN "get" ELSE thread[c]
      /\ reader'[c] = IF c = Head(backlog) THEN "loop" ELSE reader[c]
  <2>1. backlog \in Seq(Conns) /\ backlog # << >>
    BY DEF TypeOK, Accept
  <2>2. Head(backlog) \in Conns
    BY <2>1, HeadTailProperties
  <2> QED BY <2>2 DEF TypeOK, Accept, peerVars
<1>2. CASE c # Head(backlog)
  BY <1>1, <1>2, Untouched
<1>3. CASE c = Head(backlog)
  <2>1. 1 \in DOMAIN backlog /\ c = backlog[1]
    <3>1. backlog \in Seq(Conns) /\ backlog # << >>
      BY DEF TypeOK, Accept
    <3> QED BY <1>3, <3>1, EmptySeq, LenProperties
  <2>2. thread[c] = "none" /\ reader[c] = "none" /\ peer[c] # "none"
    BY <2>1 DEF BacklogInv, ConnInv, Control
  <2>3. frames[c] = << >> /\ replies[c] = << >> /\ held[c] = Eof /\ current[c] = Eof
    BY <2>2 DEF ConnInv, Control
  <2>4. Control(c)'
    BY <1>1, <1>3, <2>2, <2>3 DEF Control
  <2>5. UNCHANGED <<Taken(c), Fed(c)>> /\ ~Ending(c) /\ ~Ending(c)'
    BY <1>1, <1>3, <2>2 DEF Taken, Fed, Count, Ending
  <2>6. Serving(c)' => Serving(c)
    BY <1>1, <2>2 DEF Serving
  <2>7. Order(c) => Order(c)'
    BY <1>1, <1>3, <2>2, <2>5 DEF Order
  <2> QED BY <2>4, <2>6, <2>7 DEF ConnInv
<1> QED BY <1>2, <1>3

LEMMA ReaderCallKeeps ==
  ASSUME TypeOK, NEW c \in Conns, ConnInv(c), ReaderCall(c)
  PROVE  ConnInv(c)'
<1>1. /\ UNCHANGED <<peer, sent, inbox, frames, thread, current, replies>>
      /\ reader[c] = "loop" /\ held[c] = Eof
      /\ held'[c] = Eof
      /\ reader'[c] = IF thread[c] = "exited" THEN "put" ELSE "recv"
  BY DEF TypeOK, ReaderCall, peerVars, threadVars, ConnInv, Control
<1>2. Control(c)'
  BY <1>1 DEF ConnInv, Control
<1>3. ASSUME Serving(c)'
      PROVE  Order(c)'
  <2>1. Serving(c) /\ reader'[c] = "recv" /\ Order(c)
    BY <1>1, <1>3 DEF Serving, ConnInv
  <2>2. UNCHANGED <<Taken(c), Fed(c)>> /\ ~Ending(c) /\ ~Ending(c)'
    BY <1>1, <2>1 DEF Taken, Fed, Count, Ending
  <2> QED BY <1>1, <2>1, <2>2 DEF Order
<1> QED BY <1>2, <1>3 DEF ConnInv

\* What the reader takes from the socket is the next frame; from a frame that
\* raises on, the rest is of no account.
LEMMA ReaderReceiveKeeps ==
  ASSUME TypeOK, NEW c \in Conns, ConnInv(c), ReaderReceive(c)
  PROVE  ConnInv(c)'
<1>1. /\ UNCHANGED <<peer, sent, frames, thread, current, replies>>
      /\ reader[c] = "recv" /\ reader'[c] = "put" /\ held[c] = Eof
  BY DEF TypeOK, ReaderReceive, peerVars, threadVars, ConnInv, Control
<1>2. peer[c] # "none"
  BY <1>1 DEF ConnInv, Control
<1>3. Control(c)'
  BY <1>1, <1>2 DEF ConnInv, Control
<1>4. ASSUME Serving(c)'
      PROVE  Order(c)'
  <2>1. Serving(c) /\ Order(c) /\ ~Ending(c)
    BY <1>1, <1>4 DEF Serving, ConnInv, Ending
  <2>2. /\ inbox[c] # << >> /\ inbox'[c] = Tail(inbox[c])
        /\ held'[c] = IF Head(inbox[c]).kind = "oversize" THEN Eof ELSE Head(inbox[c])
    BY <2>1 DEF Serving, ReaderReceive, TypeOK
  <2>3. /\ Fed(c) + Len(inbox[c]) = sent[c]
        /\ \A i \in 1 .. Len(inbox[c]) : inbox[c][i].n = Fed(c) + i
    BY <2>1 DEF Order
  <2>4. UNCHANGED Taken(c)
    BY <1>1 DEF Taken, Count
  <2>5. inbox[c] \in Seq(Frame)
    BY ConnTypes
  <2>9. Len(inbox[c]) \in Nat /\ Len(frames[c]) \in Nat /\ Taken(c) \in Nat /\ Fed(c) \in Nat
        /\ sent[c] \in Nat
    BY ConnTypes
  <2>6. Head(inbox[c]) = inbox[c][1] /\ Head(inbox[c]) \in Frame
    BY <2>2, <2>5, HeadTailProperties, EmptySeq
  <2>10. Len(inbox'[c]) \in Nat /\ Len(inbox[c]) = Len(inbox'[c]) + 1
    <3>1. Len(inbox[c]) \in Nat \ {0} /\ Len(inbox'[c]) = Len(inbox[c]) - 1
      BY <2>2, <2>5, HeadTailProperties, EmptySeq
    <3> QED BY <3>1
  <2>11. \A i \in 1 .. Len(inbox'[c]) : inbox'[c][i] = inbox[c][i + 1]
    BY <2>2, <2>5, HeadTailProperties
  <2>7. CASE Head(inbox[c]).kind = "oversize"
    <3>1. held'[c] = Eof /\ Ending(c)'
      BY <1>1, <2>2, <2>7 DEF Ending
    <3>2. Taken(c) + Len(frames[c]) <= sent[c]
      <4>1. Fed(c) + Len(inbox[c]) = sent[c]
        BY <2>3
      <4>2. Fed(c) >= Taken(c) + Len(frames[c])
        <5>1. Count(held[c]) \in {0, 1}
          BY DEF Count
        <5> QED BY <2>9, <5>1 DEF Fed
      <4> QED BY <2>9, <4>1, <4>2
    <3>3. Taken(c) + Len(frames[c]) <= sent[c] + (IF reader'[c] = "done" THEN 1 ELSE 0)
      BY <1>1, <2>9, <3>2
    <3>4. \A i \in 1 .. Len(frames'[c]) :
            IF frames'[c][i] = Eof THEN i = Len(frames'[c]) /\ reader'[c] = "done"
                                   ELSE frames'[c][i].n = Taken(c)' + i
      <4>1. \A i \in 1 .. Len(frames[c]) : frames[c][i] # Eof /\ frames[c][i].n = Taken(c) + i
        BY <1>1, <2>1 DEF Order
      <4> QED BY <1>1, <2>4, <4>1
    <3>5. (Taken(c) + Len(frames[c]))' <= sent'[c] + (IF reader'[c] = "done" THEN 1 ELSE 0)
      BY <1>1, <2>4, <3>3
    <3> QED BY <1>1, <2>1, <3>1, <3>4, <3>5 DEF Order
  <2>8. CASE Head(inbox[c]).kind # "oversize"
    <3>1. held'[c] = Head(inbox[c]) /\ held'[c] # Eof /\ ~Ending(c)'
      BY <1>1, <2>2, <2>6, <2>8, EofIsNoFrame DEF Ending
    <3>2. Fed(c)' = Fed(c) + 1
      BY <1>1, <2>4, <2>9, <3>1 DEF Fed, Count
    <3>3. held'[c].n = Fed(c)'
      <4>1. 1 \in 1 .. Len(inbox[c])
        BY <2>9, <2>10
      <4>2. inbox[c][1].n = Fed(c) + 1
        BY <2>3, <4>1
      <4> QED BY <2>6, <3>1, <3>2, <4>2
    <3>4. /\ Fed(c)' + Len(inbox'[c]) = sent[c]
          /\ \A i \in 1 .. Len(inbox'[c]) : inbox'[c][i].n = Fed(c)' + i
      <4>1. Fed(c)' + Len(inbox'[c]) = sent[c]
        <5>1. Fed(c) + Len(inbox[c]) = sent[c]
          BY <2>3
        <5> QED BY <2>9, <2>10, <3>2, <5>1
      <4>2. ASSUME NEW i \in 1 .. Len(inbox'[c])
            PROVE  inbox'[c][i].n = Fed(c)' + i
        <5>1. i + 1 \in 1 .. Len(inbox[c]) /\ inbox'[c][i] = inbox[c][i + 1]
          BY <2>10, <2>11
        <5>2. inbox[c][i + 1].n = Fed(c) + (i + 1)
          BY <2>3, <5>1
        <5> QED BY <2>9, <3>2, <5>1, <5>2
      <4> QED BY <4>1, <4>2
    <3> QED BY <1>1, <2>1, <2>4, <3>1, <3>3, <3>4 DEF Order
  <2> QED BY <2>7, <2>8
<1> QED BY <1>3, <1>4 DEF ConnInv

\* The queue between the threads: the held item goes behind the others.
LEMMA ReaderPutKeeps ==
  ASSUME TypeOK, NEW c \in Conns, ConnInv(c), ReaderPut(c)
  PROVE  ConnInv(c)'
<1>1. /\ UNCHANGED <<peer, sent, inbox, thread, current, replies>>
      /\ reader[c] = "put" /\ held'[c] = Eof
      /\ reader'[c] = IF held[c] = Eof THEN "done" ELSE "loop"
      /\ frames'[c] = Append(frames[c], held[c])
  BY DEF TypeOK, ReaderPut, peerVars, threadVars
<1>2. Control(c)'
  BY <1>1 DEF ConnInv, Control
<1>3. ASSUME Serving(c)'
      PROVE  Order(c)'
  <2>1. Order(c) /\ UNCHANGED Taken(c)
    BY <1>1, <1>3 DEF Serving, ConnInv, Taken, Count
  <2>2. /\ Len(frames'[c]) = Len(frames[c]) + 1
        /\ \A i \in 1 .. Len(frames[c]) : frames'[c][i] = frames[c][i]
        /\ frames'[c][Len(frames[c]) + 1] = held[c]
    <3>1. frames[c] \in Seq(Frame \cup {Eof}) /\ held[c] \in Frame \cup {Eof}
      BY DEF TypeOK
    <3> QED BY <1>1, <3>1, AppendProperties
  <2>3. Len(frames[c]) \in Nat /\ Taken(c) \in Nat /\ sent[c] \in Nat /\ Len(inbox[c]) \in Nat
    BY ConnTypes
  <2>4. \A i \in 1 .. Len(frames[c]) : frames'[c][i] # Eof /\ frames'[c][i].n = Taken(c) + i
    BY <1>1, <2>1, <2>2 DEF Order
  <2>5. \A i \in 1 .. Len(frames'[c]) : i \in 1 .. Len(frames[c]) \/ i = Len(frames'[c])
    BY <2>2, <2>3
  <2>6. frames'[c] # << >> /\ frames'[c][Len(frames'[c])] = held[c]
    BY <2>2, <2>3
  <2>7. CASE held[c] = Eof
    <3>1. reader'[c] = "done" /\ Ending(c) /\ Ending(c)'
      BY <1>1, <2>7 DEF Ending
    <3>2. Taken(c) + Len(frames'[c]) <= sent[c] + 1
      BY <1>1, <2>1, <2>2, <2>3, <3>1 DEF Order
    <3>3. \A i \in 1 .. Len(frames'[c]) :
            IF frames'[c][i] = Eof THEN i = Len(frames'[c]) ELSE frames'[c][i].n = Taken(c) + i
      BY <2>4, <2>5, <2>6, <2>7
    <3> QED BY <1>1, <2>1, <2>6, <2>7, <3>1, <3>2, <3>3 DEF Order
  <2>8. CASE held[c] # Eof
    <3>1. reader'[c] = "loop" /\ ~Ending(c) /\ ~Ending(c)'
      BY <1>1, <2>8 DEF Ending
    <3>2. Fed(c) = Taken(c) + Len(frames[c]) + 1 /\ UNCHANGED Fed(c)
      BY <1>1, <2>1, <2>2, <2>3, <2>8 DEF Fed, Count
    <3>3. \A i \in 1 .. Len(frames'[c]) : frames'[c][i] # Eof /\ frames'[c][i].n = Taken(c) + i
      <4>1. held[c].n = Fed(c)
        BY <2>1, <2>8 DEF Order
      <4>2. Fed(c) = Taken(c) + Len(frames'[c])
        BY <2>2, <2>3, <3>2
      <4> QED BY <2>4, <2>5, <2>6, <2>8, <4>1, <4>2
    <3> QED BY <1>1, <2>1, <3>1, <3>2, <3>3 DEF Order
  <2> QED BY <2>7, <2>8
<1> QED BY <1>2, <1>3 DEF ConnInv

\* The frame the processing thread takes is the one after the last answer.
LEMMA GetKeeps ==
  ASSUME TypeOK, NEW c \in Conns, ConnInv(c), Get(c)
  PROVE  ConnInv(c)'
<1>1. /\ UNCHANGED <<peer, sent, inbox, reader, held, replies>>
      /\ thread[c] = "get" /\ current[c] = Eof
      /\ frames[c] # << >> /\ frames'[c] = Tail(frames[c])
      /\ current'[c] = Head(frames[c])
  BY DEF TypeOK, Get, peerVars, readerVars, ConnInv, Control
<1>2. /\ thread'[c] \in {"exited", "lock", "send"}
      /\ thread'[c] = "exited" <=> Head(frames[c]).kind = "eof"
  BY DEF TypeOK, Get
<1>3. frames[c] \in Seq(Frame \cup {Eof})
  BY ConnTypes
<1>4. Head(frames[c]) = frames[c][1] /\ Head(frames[c]) \in Frame \cup {Eof}
  BY <1>1, <1>3, HeadTailProperties, EmptySeq
<1>5. Len(frames'[c]) \in Nat /\ Len(frames[c]) = Len(frames'[c]) + 1
  <2>1. Len(frames[c]) \in Nat \ {0} /\ Len(frames'[c]) = Len(frames[c]) - 1
    BY <1>1, <1>3, HeadTailProperties, EmptySeq
  <2> QED BY <2>1
<1>6. Len(frames[c]) \in Nat /\ Taken(c) \in Nat /\ Len(replies[c]) \in Nat
  BY ConnTypes
<1>10. \A i \in 1 .. Len(frames'[c]) : frames'[c][i] = frames[c][i + 1]
  BY <1>1, <1>3, HeadTailProperties
<1>7. Head(frames[c]).kind = "eof" <=> Head(frames[c]) = Eof
  BY <1>4, KindsAssumption DEF Frame, Eof
<1>8. Control(c)'
  BY <1>1, <1>2, <1>4, <1>7 DEF ConnInv, Control
<1>9. ASSUME Serving(c)'
      PROVE  Order(c)'
  <2>1. Order(c) /\ current'[c] # Eof
    BY <1>1, <1>2, <1>7, <1>9 DEF Serving, ConnInv
  <2>2. Taken(c)' = Taken(c) + 1
    BY <1>1, <1>6, <2>1 DEF Taken, Count
  <2>3. UNCHANGED Fed(c)
    <3>1. held'[c] = held[c] /\ Count(held[c]) \in {0, 1}
      BY <1>1 DEF Count
    <3>2. Fed(c)' = Taken(c)' + Len(frames'[c]) + Count(held'[c])
      BY DEF Fed, Count
    <3>3. Fed(c)' = (Taken(c) + 1) + Len(frames'[c]) + Count(held[c])
      BY <2>2, <3>1, <3>2
    <3>4. Fed(c) = Taken(c) + Len(frames[c]) + Count(held[c])
      BY DEF Fed
    <3> QED BY <1>5, <1>6, <3>1, <3>3, <3>4
  <2>4. UNCHANGED Ending(c)
    BY <1>1 DEF Ending
  <2>5. current'[c].n = Len(replies[c]) + 1
    <3>1. 1 \in 1 .. Len(frames[c]) /\ frames[c][1] # Eof /\ current'[c] = frames[c][1]
      BY <1>1, <1>4, <1>5, <1>6, <2>1
    <3>2. frames[c][1].n = Taken(c) + 1
      BY <2>1, <3>1 DEF Order
    <3> QED BY <1>1, <1>6, <3>1, <3>2 DEF Taken, Count
  <2>6. \A i \in 1 .. Len(frames'[c]) :
          IF frames'[c][i] = Eof THEN i = Len(frames'[c]) /\ reader[c] = "done"
                                 ELSE frames'[c][i].n = Taken(c)' + i
    <3> SUFFICES ASSUME NEW i \in 1 .. Len(frames'[c])
                 PROVE  IF frames'[c][i] = Eof THEN i = Len(frames'[c]) /\ reader[c] = "done"
                                               ELSE frames'[c][i].n = Taken(c)' + i
      OBVIOUS
    <3>1. i + 1 \in 1 .. Len(frames[c]) /\ frames'[c][i] = frames[c][i + 1]
      BY <1>5, <1>6, <1>10
    <3>2. IF frames[c][i + 1] = Eof THEN i + 1 = Len(frames[c]) /\ reader[c] = "done"
                                    ELSE frames[c][i + 1].n = Taken(c) + (i + 1)
      BY <2>1, <3>1 DEF Order
    <3> QED BY <1>5, <1>6, <2>2, <3>1, <3>2
  <2>7. reader[c] = "done" => frames'[c] # << >> /\ frames'[c][Len(frames'[c])] = Eof
    <3> SUFFICES ASSUME reader[c] = "done"
                 PROVE  frames'[c] # << >> /\ frames'[c][Len(frames'[c])] = Eof
      OBVIOUS
    <3>1. frames[c][Len(frames[c])] = Eof
      BY <2>1 DEF Order
    <3>2. Len(frames[c]) # 1
      BY <1>1, <1>4, <2>1, <3>1
    <3>3. Len(frames'[c]) \in 1 .. Len(frames'[c])
      BY <1>5, <1>6, <3>2
    <3>4. frames'[c][Len(frames'[c])] = Eof
      BY <1>5, <1>10, <3>1, <3>3
    <3> QED BY <3>3, <3>4
  <2>8. Taken(c)' + Len(frames'[c]) = Taken(c) + Len(frames[c])
    BY <1>5, <1>6, <2>2
  <2> QED BY <1>1, <2>1, <2>2, <2>3, <2>4, <2>5, <2>6, <2>7, <2>8 DEF Order
<1> QED BY <1>8, <1>9 DEF ConnInv

LEMMA EngineKeeps ==
  ASSUME TypeOK, NEW c \in Conns, ConnInv(c), AcquireLock(c) \/ Infer(c)
  PROVE  ConnInv(c)'
<1>1. /\ UNCHANGED <<peer, sent, inbox, reader, held, frames, current, replies>>
      /\ thread[c] \in {"lock", "infer"} /\ thread'[c] \in {"infer", "send"}
  BY DEF TypeOK, AcquireLock, Infer, peerVars, readerVars
<1>2. Control(c)'
  BY <1>1 DEF ConnInv, Control
<1>3. UNCHANGED <<Taken(c), Fed(c), Ending(c)>> /\ (Serving(c)' => Serving(c))
  BY <1>1 DEF Fed, Taken, Count, Ending, Serving
<1>4. Order(c) => Order(c)'
  BY <1>1, <1>3 DEF Order
<1> QED BY <1>2, <1>3, <1>4 DEF ConnInv

\* The answer has the number after the last answer.
LEMMA SendReplyKeeps ==
  ASSUME TypeOK, NEW c \in Conns, ConnInv(c), SendReply(c)
  PROVE  ConnInv(c)'
<1>1. /\ UNCHANGED <<peer, sent, inbox, reader, held, frames>>
      /\ thread[c] = "send" /\ thread'[c] \in {"get", "exited"}
      /\ current[c] # Eof /\ current'[c] = Eof
      /\ peer[c] = "open" => replies'[c] = Append(replies[c], current[c].n)
  BY DEF TypeOK, SendReply, AfterSend, peerVars, readerVars, ConnInv, Control
<1>2. Control(c)'
  BY <1>1 DEF ConnInv, Control
<1>3. ASSUME Serving(c)'
      PROVE  Order(c)'
  <2>1. Order(c) /\ replies'[c] = Append(replies[c], current[c].n)
    BY <1>1, <1>3 DEF Serving, ConnInv
  <2>2. replies[c] \in Seq(Nat) /\ Len(replies[c]) \in Nat /\ current[c].n = Len(replies[c]) + 1
    BY <1>1, <2>1, ConnTypes DEF Order
  <2>3. /\ Len(replies'[c]) = Len(replies[c]) + 1
        /\ \A i \in 1 .. Len(replies'[c]) : replies'[c][i] = i
    <3>1. current[c].n \in Nat
      BY <2>2
    <3>2. /\ Len(replies'[c]) = Len(replies[c]) + 1
          /\ \A i \in 1 .. Len(replies[c]) : replies'[c][i] = replies[c][i]
          /\ replies'[c][Len(replies[c]) + 1] = current[c].n
      BY <2>1, <2>2, <3>1, AppendProperties
    <3> QED BY <2>1, <2>2, <3>2 DEF Order
  <2>4. UNCHANGED <<Taken(c), Fed(c), Ending(c)>>
    BY <1>1, <2>2, <2>3, ConnTypes DEF Fed, Taken, Count, Ending
  <2> QED BY <1>1, <2>1, <2>3, <2>4 DEF Order
<1> QED BY <1>2, <1>3 DEF ConnInv

-----------------------------------------------------------------------------
(* The lock, and the backlog.                                              *)

LEMMA BacklogSeq ==
  ASSUME TypeOK
  PROVE  /\ backlog \in Seq(Conns) /\ Len(backlog) \in Nat
         /\ DOMAIN backlog = 1 .. Len(backlog)
         /\ \A i \in 1 .. Len(backlog) : backlog[i] \in Conns
<1>1. backlog \in Seq(Conns)
  BY DEF TypeOK
<1> QED BY <1>1, LenProperties, ElementOfSeq

LEMMA HeadOfBacklog ==
  ASSUME TypeOK, BacklogInv, Accept
  PROVE  Head(backlog) \in Conns /\ thread[Head(backlog)] = "none"
<1>1. backlog \in Seq(Conns) /\ backlog # << >>
  BY DEF TypeOK, Accept
<1>2. Head(backlog) = backlog[1] /\ Head(backlog) \in Conns /\ 1 \in DOMAIN backlog
  BY <1>1, HeadTailProperties, EmptySeq, LenProperties
<1> QED BY <1>2 DEF BacklogInv

LEMMA BacklogConnect ==
  ASSUME TypeOK, BacklogInv, NEW c \in Conns, ConnInv(c), Connect(c)
  PROVE  BacklogInv'
<1>1. /\ backlog' = Append(backlog, c) /\ thread' = thread
      /\ peer[c] = "none" /\ thread[c] = "none"
      /\ \A d \in Conns : peer'[d] = IF d = c THEN "open" ELSE peer[d]
  BY DEF TypeOK, Connect, threadVars, ConnInv, Control
<1>2. backlog' \in Seq(Conns)
  BY <1>1, BacklogSeq, AppendProperties
<1>3. /\ \A i \in 1 .. Len(backlog) : backlog'[i] = backlog[i]
      /\ backlog'[Len(backlog) + 1] = c
      /\ Len(backlog') = Len(backlog) + 1
  BY <1>1, BacklogSeq, AppendProperties
<1>4. DOMAIN backlog' = 1 .. Len(backlog) + 1
  BY <1>2, <1>3, LenProperties
<1>5. \A i \in 1 .. Len(backlog) :
        backlog[i] \in Conns /\ thread[backlog[i]] = "none" /\ peer[backlog[i]] # "none"
  BY BacklogSeq DEF BacklogInv
<1>6. \A i \in DOMAIN backlog' : i \in 1 .. Len(backlog) \/ i = Len(backlog) + 1
  BY <1>4, BacklogSeq
<1>7. ASSUME NEW i \in DOMAIN backlog'
      PROVE  thread'[backlog'[i]] = "none" /\ peer'[backlog'[i]] # "none"
  <2>1. CASE i \in 1 .. Len(backlog)
    BY <1>1, <1>3, <1>5, <2>1
  <2>2. CASE i = Len(backlog) + 1
    BY <1>1, <1>3, <2>2
  <2> QED BY <1>6, <2>1, <2>2
<1>8. ASSUME NEW i \in DOMAIN backlog', NEW j \in DOMAIN backlog', backlog'[i] = backlog'[j]
      PROVE  i = j
  <2>1. CASE i \in 1 .. Len(backlog) /\ j \in 1 .. Len(backlog)
    <3>1. i \in DOMAIN backlog /\ j \in DOMAIN backlog /\ backlog[i] = backlog[j]
      BY <1>3, <1>8, <2>1, BacklogSeq
    <3> QED BY <3>1 DEF BacklogInv
  <2>2. CASE i \in 1 .. Len(backlog) /\ j = Len(backlog) + 1
    BY <1>1, <1>3, <1>5, <1>8, <2>2
  <2>3. CASE i = Len(backlog) + 1 /\ j \in 1 .. Len(backlog)
    BY <1>1, <1>3, <1>5, <1>8, <2>3
  <2> QED BY <1>6, <2>1, <2>2, <2>3
<1> QED BY <1>7, <1>8 DEF BacklogInv

LEMMA BacklogAccept ==
  ASSUME TypeOK, BacklogInv, Accept
  PROVE  BacklogInv'
<1>1. /\ backlog \in Seq(Conns) /\ backlog # << >> /\ backlog' = Tail(backlog)
      /\ Len(backlog) \in Nat /\ DOMAIN backlog = 1 .. Len(backlog)
  BY BacklogSeq DEF Accept
<1>2. /\ backlog' \in Seq(Conns) /\ Len(backlog') = Len(backlog) - 1
      /\ \A i \in 1 .. Len(backlog') : backlog'[i] = backlog[i + 1]
      /\ Head(backlog) = backlog[1]
  BY <1>1, HeadTailProperties
<1>3. DOMAIN backlog' = 1 .. Len(backlog')
  BY <1>2, LenProperties
<1>4. /\ peer' = peer
      /\ \A d \in Conns : d # Head(backlog) => thread'[d] = thread[d]
  BY DEF TypeOK, Accept, peerVars
<1>5. ASSUME NEW i \in DOMAIN backlog'
      PROVE  /\ i + 1 \in DOMAIN backlog /\ backlog'[i] = backlog[i + 1]
             /\ backlog[i + 1] \in Conns /\ backlog[i + 1] # Head(backlog)
  <2>1. i + 1 \in DOMAIN backlog /\ 1 \in DOMAIN backlog /\ backlog'[i] = backlog[i + 1]
        /\ i + 1 # 1
    BY <1>1, <1>2, <1>3
  <2> QED BY <1>1, <1>2, <2>1, ElementOfSeq DEF BacklogInv
<1>6. ASSUME NEW i \in DOMAIN backlog'
      PROVE  thread'[backlog'[i]] = "none" /\ peer'[backlog'[i]] # "none"
  BY <1>4, <1>5 DEF BacklogInv
<1>7. ASSUME NEW i \in DOMAIN backlog', NEW j \in DOMAIN backlog', backlog'[i] = backlog'[j]
      PROVE  i = j
  <2>1. i + 1 = j + 1
    BY <1>5, <1>7 DEF BacklogInv
  <2>2. i \in Int /\ j \in Int
    BY <1>3
  <2> QED BY <2>1, <2>2
<1> QED BY <1>6, <1>7 DEF BacklogInv

\* Steps of the threads: no connection in the backlog has one.
LEMMA BacklogThreads ==
  ASSUME TypeOK, BacklogInv, NEW c \in Conns,
         backlog' = backlog,
         peer' = peer \/ Disconnect(c),
         thread' = thread \/ thread[c] # "none",
         \A d \in Conns : d # c => thread'[d] = thread[d]
  PROVE  BacklogInv'
<1>1. \A i \in DOMAIN backlog : backlog[i] \in Conns
  BY BacklogSeq
<1>2. \A d \in Conns : peer[d] # "none" => peer'[d] # "none"
  BY DEF Disconnect, TypeOK
<1>3. \A d \in Conns : thread[d] = "none" => thread'[d] = "none"
  OBVIOUS
<1> QED BY <1>1, <1>2, <1>3 DEF BacklogInv

-----------------------------------------------------------------------------
(* The invariant of the specification.                                     *)

LEMMA InvInit == Init => Inv
<1> SUFFICES ASSUME Init PROVE Inv
  OBVIOUS
<1>1. TypeOK
  BY TypesInit
<1>2. LockInv
  BY DEF Init, LockInv
<1>3. BacklogInv
  BY <1>1, BacklogSeq DEF Init, BacklogInv
<1>4. ASSUME NEW c \in Conns
      PROVE  ConnInv(c)
  BY DEF Init, ConnInv, Control, Serving
<1> QED BY <1>1, <1>2, <1>3, <1>4 DEF Inv

LEMMA InvMain ==
  ASSUME Inv, Main
  PROVE  Inv'
<1>1. TypeOK'
  BY TypesMain DEF Inv
<1>2. CASE Accept
  <2>1. BacklogInv'
    BY <1>2, BacklogAccept DEF Inv
  <2>2. ASSUME NEW c \in Conns
        PROVE  ConnInv(c)'
    BY <1>2, AcceptKeeps DEF Inv
  <2>3. \A c \in Conns : thread'[c] = "infer" <=> thread[c] = "infer"
    BY <1>2, HeadOfBacklog DEF Inv, TypeOK, Accept
  <2>4. LockInv'
    BY <1>2, <2>3 DEF Inv, LockInv, Accept
  <2> QED BY <1>1, <2>1, <2>2, <2>4 DEF Inv
<1>3. CASE CheckShutdown \/ Exit
  <2>1. UNCHANGED <<lock, backlog, peer, sent, inbox, reader, held, frames, thread, current,
                    replies>>
    BY <1>3 DEF CheckShutdown, Exit, peerVars, readerVars, threadVars
  <2>2. ASSUME NEW c \in Conns
        PROVE  ConnInv(c)'
    BY <2>1, Untouched DEF Inv
  <2>3. BacklogInv' /\ LockInv'
    BY <2>1 DEF Inv, BacklogInv, LockInv
  <2> QED BY <1>1, <2>2, <2>3 DEF Inv
<1> QED BY <1>2, <1>3 DEF Main

LEMMA InvPeer ==
  ASSUME Inv, NEW c \in Conns, Peer(c)
  PROVE  Inv'
<1>1. TypeOK'
  BY TypesPeer DEF Inv
<1>2. /\ UNCHANGED <<lock, reader, held, frames, thread, current, replies>>
      /\ \A d \in Conns : d # c => /\ peer'[d] = peer[d] /\ sent'[d] = sent[d]
                                   /\ inbox'[d] = inbox[d]
  BY DEF Inv, TypeOK, Peer, Connect, Disconnect, SendFrame, mainVars, readerVars, threadVars
<1>3. LockInv'
  BY <1>2 DEF Inv, LockInv
<1>4. BacklogInv'
  <2>1. CASE Connect(c)
    BY <2>1, BacklogConnect DEF Inv
  <2>2. CASE ~Connect(c)
    <3>1. backlog' = backlog /\ (peer' = peer \/ Disconnect(c))
      BY <2>2 DEF Peer, Disconnect, SendFrame, mainVars
    <3> QED BY <1>2, <3>1, BacklogThreads DEF Inv
  <2> QED BY <2>1, <2>2
<1>5. ConnInv(c)'
  BY ConnectKeeps, DisconnectKeeps, SendKeeps DEF Inv, Peer
<1>6. ASSUME NEW d \in Conns, d # c
      PROVE  ConnInv(d)'
  BY <1>2, <1>6, Untouched DEF Inv
<1> QED BY <1>1, <1>3, <1>4, <1>5, <1>6 DEF Inv

LEMMA InvReader ==
  ASSUME Inv, NEW c \in Conns, Reader(c)
  PROVE  Inv'
<1>1. TypeOK'
  BY TypesReader DEF Inv
<1>2. /\ UNCHANGED <<lock, backlog, peer, sent, thread, current, replies>>
      /\ \A d \in Conns : d # c => /\ inbox'[d] = inbox[d] /\ frames'[d] = frames[d]
                                   /\ reader'[d] = reader[d] /\ held'[d] = held[d]
  BY DEF Inv, TypeOK, Reader, ReaderCall, ReaderReceive, ReaderPut, mainVars, peerVars, threadVars
<1>3. LockInv' /\ BacklogInv'
  BY <1>2 DEF Inv, LockInv, BacklogInv
<1>4. ConnInv(c)'
  BY ReaderCallKeeps, ReaderReceiveKeeps, ReaderPutKeeps DEF Inv, Reader
<1>5. ASSUME NEW d \in Conns, d # c
      PROVE  ConnInv(d)'
  BY <1>2, <1>5, Untouched DEF Inv
<1> QED BY <1>1, <1>3, <1>4, <1>5 DEF Inv

LEMMA InvProcessing ==
  ASSUME Inv, NEW c \in Conns, Processing(c)
  PROVE  Inv'
<1>1. TypeOK'
  BY TypesProcessing DEF Inv
<1>2. UNCHANGED <<backlog, peer, sent, inbox, reader, held>>
  BY DEF Processing, Get, AcquireLock, Infer, SendReply, mainVars, peerVars, readerVars
<1>3. thread[c] # "none" /\ \A d \in Conns : d # c => thread'[d] = thread[d]
  BY DEF Inv, TypeOK, Processing, Get, AcquireLock, Infer, SendReply
<1>4. \A d \in Conns : d # c => /\ frames'[d] = frames[d] /\ current'[d] = current[d]
                                /\ replies'[d] = replies[d]
  BY DEF Inv, TypeOK, Processing, Get, AcquireLock, Infer, SendReply
<1>5. BacklogInv'
  BY <1>2, <1>3, BacklogThreads DEF Inv
<1>6. LockInv'
  <2>1. CASE AcquireLock(c)
    BY <2>1 DEF Inv, TypeOK, LockInv, AcquireLock
  <2>2. CASE Infer(c)
    BY <2>2 DEF Inv, TypeOK, LockInv, Infer
  <2>3. CASE Get(c) \/ SendReply(c)
    <3>1. lock' = lock /\ thread[c] # "infer" /\ thread'[c] # "infer"
      BY <2>3 DEF Inv, TypeOK, Get, SendReply, AfterSend, mainVars
    <3> QED BY <1>3, <3>1 DEF Inv, LockInv
  <2> QED BY <2>1, <2>2, <2>3 DEF Processing
<1>7. ConnInv(c)'
  BY GetKeeps, EngineKeeps, SendReplyKeeps DEF Inv, Processing
<1>8. ASSUME NEW d \in Conns, d # c
      PROVE  ConnInv(d)'
  BY <1>2, <1>3, <1>4, <1>8, Untouched DEF Inv
<1> QED BY <1>1, <1>5, <1>6, <1>7, <1>8 DEF Inv

LEMMA InvNext == Inv /\ [Next]_vars => Inv'
<1> SUFFICES ASSUME Inv, [Next]_vars PROVE Inv'
  OBVIOUS
<1>1. CASE UNCHANGED vars
  <2>1. UNCHANGED <<main, shutdown, lock, backlog, peer, sent, inbox, reader, held, frames,
                    thread, current, replies>>
    BY <1>1 DEF vars, mainVars, peerVars, readerVars, threadVars
  <2>2. TypeOK' /\ LockInv' /\ BacklogInv'
    BY <2>1 DEF Inv, TypeOK, LockInv, BacklogInv
  <2>3. ASSUME NEW c \in Conns
        PROVE  ConnInv(c)'
    BY <2>1, Untouched DEF Inv
  <2> QED BY <2>2, <2>3 DEF Inv
<1> QED BY <1>1, InvMain, InvPeer, InvReader, InvProcessing DEF Next

LEMMA Invariant == Spec => []Inv
BY InvInit, InvNext, PTL DEF Spec

-----------------------------------------------------------------------------
(* The safety properties.                                                  *)

\* However many connections there are, at most one thread is inside the engine:
\* the one that holds InferenceWorker._lock (worker.py:329).
THEOREM EngineIsExclusive == Spec => []EngineExclusive
<1>1. Inv => EngineExclusive
  <2> SUFFICES ASSUME LockInv PROVE EngineExclusive
    BY DEF Inv
  <2>1. ASSUME lock = {}
        PROVE  Cardinality(lock) <= 1
    BY <2>1, FS_EmptySet
  <2>2. ASSUME lock # {}
        PROVE  Cardinality(lock) <= 1
    <3>1. PICK c \in lock : TRUE
      BY <2>2
    <3>2. lock = {c}
      BY <3>1 DEF LockInv
    <3>3. Cardinality({c}) = 1
      BY FS_Singleton
    <3> QED BY <3>2, <3>3
  <2>3. \A c \in Conns : thread[c] = "infer" <=> c \in lock
    BY DEF LockInv
  <2>4. Cardinality(lock) <= 1
    BY <2>1, <2>2
  <2> QED BY <2>3, <2>4 DEF EngineExclusive
<1> QED BY <1>1, Invariant, PTL

-----------------------------------------------------------------------------
(* No frame is lost: the places of a connection, one after the other, hold *)
(* the numbers from 1 on.                                                  *)

LEMMA CountingOn ==
  ASSUME NEW s \in Seq(Nat), NEW t \in Seq(Nat),
         \A i \in 1 .. Len(s) : s[i] = i,
         \A i \in 1 .. Len(t) : t[i] = Len(s) + i
  PROVE  /\ s \o t \in Seq(Nat)
         /\ Len(s \o t) = Len(s) + Len(t)
         /\ \A i \in 1 .. Len(s \o t) : (s \o t)[i] = i
<1>1. Len(s) \in Nat /\ Len(t) \in Nat
  BY LenProperties
<1>2. /\ s \o t \in Seq(Nat)
      /\ Len(s \o t) = Len(s) + Len(t)
      /\ \A i \in 1 .. Len(s) + Len(t) :
           (s \o t)[i] = IF i <= Len(s) THEN s[i] ELSE t[i - Len(s)]
  BY ConcatProperties
<1>3. ASSUME NEW i \in 1 .. Len(s) + Len(t)
      PROVE  (s \o t)[i] = i
  <2>1. CASE i <= Len(s)
    BY <1>1, <1>2, <2>1
  <2>2. CASE ~(i <= Len(s))
    <3>1. i - Len(s) \in 1 .. Len(t)
      BY <1>1, <2>2
    <3>2. t[i - Len(s)] = Len(s) + (i - Len(s))
      BY <3>1
    <3> QED BY <1>1, <1>2, <2>2, <3>2
  <2> QED BY <2>1, <2>2
<1> QED BY <1>2, <1>3

LEMMA NumbersSeq ==
  ASSUME NEW s \in Seq(Frame \cup {Eof})
  PROVE  /\ Numbers(s) \in Seq(Nat)
         /\ Len(Numbers(s)) = Len(s)
         /\ \A i \in 1 .. Len(s) : Numbers(s)[i] = s[i].n
<1>1. Len(s) \in Nat /\ DOMAIN s = 1 .. Len(s)
  BY LenProperties
<1>2. \A i \in 1 .. Len(s) : s[i].n \in Nat
  BY ElementOfSeq DEF Frame, Eof
<1>3. Numbers(s) \in [1 .. Len(s) -> Nat] /\ \A i \in 1 .. Len(s) : Numbers(s)[i] = s[i].n
  BY <1>1, <1>2 DEF Numbers
<1> QED BY <1>1, <1>3

LEMMA OneSeq ==
  ASSUME NEW item \in Frame \cup {Eof}
  PROVE  /\ One(item) \in Seq(Nat)
         /\ Len(One(item)) = Count(item)
         /\ \A i \in 1 .. Len(One(item)) : item # Eof /\ i = 1 /\ One(item)[i] = item.n
<1>1. item.n \in Nat
  BY DEF Frame, Eof
<1> QED BY <1>1 DEF One, Count

LEMMA PipelineCounts ==
  ASSUME Inv, NEW c \in Conns, Serving(c), ~Ending(c)
  PROVE  Pipeline(c) = [i \in 1 .. sent[c] |-> i]
<1> DEFINE R == replies[c]
           C == One(current[c])
           F == Numbers(frames[c])
           H == One(held[c])
           I == Numbers(inbox[c])
<1>1. Order(c)
  BY DEF Inv, ConnInv
<1>2. /\ current[c] \in Frame \cup {Eof} /\ held[c] \in Frame \cup {Eof}
      /\ frames[c] \in Seq(Frame \cup {Eof}) /\ R \in Seq(Nat) /\ sent[c] \in Nat
  BY DEF Inv, TypeOK
<1>3. inbox[c] \in Seq(Frame \cup {Eof})
  <2>1. inbox[c] \in Seq(Frame)
    BY DEF Inv, TypeOK
  <2> QED BY <2>1, SeqMonotonic
<1>4. /\ Len(R) \in Nat /\ Len(frames[c]) \in Nat /\ Len(inbox[c]) \in Nat
      /\ Taken(c) \in Nat /\ Fed(c) \in Nat
  BY ConnTypes DEF Inv
<1>5. /\ C \in Seq(Nat) /\ Len(C) = Count(current[c])
      /\ \A i \in 1 .. Len(C) : C[i] = Len(R) + i
  <2>1. /\ C \in Seq(Nat) /\ Len(C) = Count(current[c])
        /\ \A i \in 1 .. Len(C) : current[c] # Eof /\ i = 1 /\ C[i] = current[c].n
    BY <1>2, OneSeq
  <2>2. current[c] # Eof => current[c].n = Len(R) + 1
    BY <1>1 DEF Order
  <2> QED BY <2>1, <2>2
<1>6. /\ F \in Seq(Nat) /\ Len(F) = Len(frames[c])
      /\ \A i \in 1 .. Len(F) : F[i] = Taken(c) + i
  <2>1. \A i \in 1 .. Len(frames[c]) : frames[c][i].n = Taken(c) + i
    BY <1>1 DEF Order, Ending
  <2> QED BY <1>2, <2>1, NumbersSeq
<1>7. /\ H \in Seq(Nat) /\ Len(H) = Count(held[c])
      /\ \A i \in 1 .. Len(H) : H[i] = Taken(c) + Len(frames[c]) + i
  <2>1. /\ H \in Seq(Nat) /\ Len(H) = Count(held[c])
        /\ \A i \in 1 .. Len(H) : held[c] # Eof /\ i = 1 /\ H[i] = held[c].n
    BY <1>2, OneSeq
  <2>2. held[c] # Eof => held[c].n = Taken(c) + Len(frames[c]) + 1
    BY <1>1 DEF Order, Fed, Count
  <2> QED BY <2>1, <2>2
<1>8. /\ I \in Seq(Nat) /\ Len(I) = Len(inbox[c])
      /\ \A i \in 1 .. Len(I) : I[i] = Fed(c) + i
  <2>1. \A i \in 1 .. Len(inbox[c]) : inbox[c][i].n = Fed(c) + i
    BY <1>1 DEF Order
  <2> QED BY <1>3, <2>1, NumbersSeq
<1>9. \A i \in 1 .. Len(R) : R[i] = i
  BY <1>1 DEF Order
<1>10. Pipeline(c) = R \o C \o F \o H \o I
  BY DEF Pipeline
<1>11. Len(R) + Len(C) = Taken(c)
  BY <1>5 DEF Taken
<1>12. Taken(c) + Len(F) + Len(H) = Fed(c)
  BY <1>6, <1>7 DEF Fed
<1>13. Fed(c) + Len(I) = sent[c]
  BY <1>1, <1>8 DEF Order
<1> HIDE DEF R, C, F, H, I
<1>14. /\ R \o C \in Seq(Nat) /\ Len(R \o C) = Taken(c)
       /\ \A i \in 1 .. Len(R \o C) : (R \o C)[i] = i
  BY <1>2, <1>5, <1>9, <1>11, CountingOn
<1>15. /\ R \o C \o F \in Seq(Nat) /\ Len(R \o C \o F) = Taken(c) + Len(F)
       /\ \A i \in 1 .. Len(R \o C \o F) : (R \o C \o F)[i] = i
  BY <1>6, <1>14, CountingOn
<1>16. /\ R \o C \o F \o H \in Seq(Nat) /\ Len(R \o C \o F \o H) = Fed(c)
       /\ \A i \in 1 .. Len(R \o C \o F \o H) : (R \o C \o F \o H)[i] = i
  <2>1. \A i \in 1 .. Len(H) : H[i] = Len(R \o C \o F) + i
    BY <1>6, <1>7, <1>15
  <2>2. /\ (R \o C \o F) \o H \in Seq(Nat)
        /\ Len((R \o C \o F) \o H) = Len(R \o C \o F) + Len(H)
        /\ \A i \in 1 .. Len((R \o C \o F) \o H) : ((R \o C \o F) \o H)[i] = i
    BY <1>7, <1>15, <2>1, CountingOn
  <2>3. Len(R \o C \o F) = Taken(c) + Len(F)
    BY <1>15
  <2> QED BY <1>12, <2>2, <2>3
<1>17. /\ Pipeline(c) \in Seq(Nat) /\ Len(Pipeline(c)) = sent[c]
       /\ \A i \in 1 .. sent[c] : Pipeline(c)[i] = i
  <2>1. \A i \in 1 .. Len(I) : I[i] = Len(R \o C \o F \o H) + i
    BY <1>8, <1>16
  <2>2. /\ (R \o C \o F \o H) \o I \in Seq(Nat)
        /\ Len((R \o C \o F \o H) \o I) = Len(R \o C \o F \o H) + Len(I)
        /\ \A i \in 1 .. Len((R \o C \o F \o H) \o I) : ((R \o C \o F \o H) \o I)[i] = i
    BY <1>8, <1>16, <2>1, CountingOn
  <2>3. Len(R \o C \o F \o H) = Fed(c)
    BY <1>16
  <2>4. Len((R \o C \o F \o H) \o I) = sent[c]
    BY <1>13, <2>2, <2>3
  <2> QED BY <1>10, <2>2, <2>4
<1>18. Pipeline(c) \in [1 .. sent[c] -> Nat]
  BY <1>17, LenProperties
<1> QED BY <1>17, <1>18

\* For any number of frames and any queue size, while both ends of a connection
\* are there every frame sent on it is answered or on its way, once and in order
\* (worker.py:406-434).
THEOREM FramesAreKept == Spec => []NoFrameLost
<1>1. Inv => NoFrameLost
  <2> SUFFICES ASSUME Inv, NEW c \in Conns, peer[c] = "open", thread[c] # "exited",
                      reader[c] # "done", ~(reader[c] = "put" /\ held[c] = Eof)
               PROVE  Pipeline(c) = [i \in 1 .. sent[c] |-> i]
    BY DEF NoFrameLost
  <2>1. Serving(c) /\ ~Ending(c)
    BY DEF Serving, Ending
  <2> QED BY <2>1, PipelineCounts
<1> QED BY <1>1, Invariant, PTL

-----------------------------------------------------------------------------
(* The refinement: each step is a step of ConnService or leaves it alone.  *)

Ended(c) == ~Alive \/ thread[c] = "exited"

\* Sending is Send, and so far nothing else of the service changes.
LEMMA SendIsSend ==
  ASSUME NEW c \in Conns, NEW kind \in Kinds, SendFrame(c, kind)
  PROVE  Service!Send(c)
<1>1. UNCHANGED <<main, thread, replies>> /\ sent' = [sent EXCEPT ![c] = @ + 1]
  BY DEF SendFrame, mainVars, threadVars
<1>2. UNCHANGED [d \in Conns |-> ~Alive \/ thread[d] = "exited"]
  BY <1>1 DEF Alive
<1> QED BY <1>1, <1>2 DEF Service!Send

\* A step that answers nothing ends connections, or none.
LEMMA QuietIsEnd ==
  ASSUME UNCHANGED <<sent, replies>>,
         \A c \in Conns : Ended(c) => Ended(c)'
  PROVE  Service!End
<1> DEFINE S == {c \in Conns : Ended(c)'}
<1>1. S \in SUBSET Conns
  OBVIOUS
<1>2. \A c \in Conns : Ended(c)' <=> (Ended(c) \/ c \in S)
  OBVIOUS
<1>3. [c \in Conns |-> ~Alive \/ thread[c] = "exited"]'
        = [c \in Conns |-> [d \in Conns |-> ~Alive \/ thread[d] = "exited"][c] \/ c \in S]
  BY <1>2 DEF Ended
<1> QED BY <1>1, <1>3 DEF Service!End

LEMMA SendReplyRefines ==
  ASSUME Inv, NEW c \in Conns, SendReply(c)
  PROVE  Service!Answer(c) \/ Service!AnswerAndEnd(c) \/ Service!End
<1> DEFINE ended == [d \in Conns |-> ~Alive \/ thread[d] = "exited"]
<1>1. /\ Alive /\ Alive' /\ thread[c] = "send" /\ sent' = sent
      /\ thread'[c] \in {"get", "exited"}
      /\ \A d \in Conns : d # c => thread'[d] = thread[d]
  BY DEF SendReply, Alive, AfterSend, Inv, TypeOK, mainVars, peerVars
<1>2. CASE peer[c] # "open"
  <2>1. replies' = replies
    BY <1>2 DEF SendReply
  <2>2. \A d \in Conns : Ended(d) => Ended(d)'
    BY <1>1 DEF Ended
  <2> QED BY <1>1, <2>1, <2>2, QuietIsEnd
<1>3. CASE peer[c] = "open"
  <2>1. Order(c) /\ current[c] # Eof /\ replies' = [replies EXCEPT ![c] = Append(@, current[c].n)]
    BY <1>1, <1>3 DEF Inv, ConnInv, Control, Serving, SendReply
  <2>2. replies' = [replies EXCEPT ![c] = Append(@, Len(@) + 1)]
    BY <2>1 DEF Order
  <2>3. Len(replies[c]) < sent[c]
    <3>1. /\ Len(replies[c]) \in Nat /\ Len(frames[c]) \in Nat /\ Len(inbox[c]) \in Nat
          /\ sent[c] \in Nat /\ Taken(c) \in Nat /\ Fed(c) \in Nat
      BY ConnTypes DEF Inv
    <3>2. Taken(c) > Len(replies[c])
      BY <2>1, <3>1 DEF Taken, Count
    <3>3. Taken(c) <= sent[c]
      <4>1. CASE ~Ending(c)
        <5>1. Fed(c) + Len(inbox[c]) = sent[c]
          BY <2>1, <4>1 DEF Order
        <5>2. Count(held[c]) \in {0, 1}
          BY DEF Count
        <5>3. Fed(c) >= Taken(c)
          BY <3>1, <5>2 DEF Fed
        <5> QED BY <3>1, <5>1, <5>3
      <4>2. CASE Ending(c) /\ reader[c] # "done"
        <5>1. Taken(c) + Len(frames[c]) <= sent[c] + 0
          BY <2>1, <4>2 DEF Order
        <5> QED BY <3>1, <5>1
      <4>3. CASE Ending(c) /\ reader[c] = "done"
        <5>1. Taken(c) + Len(frames[c]) <= sent[c] + 1
          BY <2>1, <4>3 DEF Order
        <5>2. frames[c] # << >>
          BY <2>1, <4>3 DEF Order
        <5>3. Len(frames[c]) # 0
          <6>1. frames[c] \in Seq(Frame \cup {Eof})
            BY ConnTypes DEF Inv
          <6> QED BY <5>2, <6>1, EmptySeq
        <5> QED BY <3>1, <5>1, <5>3
      <4> QED BY <4>1, <4>2, <4>3
    <3> QED BY <3>1, <3>2, <3>3
  <2>4. ~ended[c]
    BY <1>1
  <2>5. CASE thread'[c] = "get"
    <3>1. ended' = ended
      BY <1>1, <2>5
    <3> QED BY <1>1, <2>2, <2>3, <2>4, <3>1 DEF Service!Answer
  <2>6. CASE thread'[c] = "exited"
    <3>1. ended' = [ended EXCEPT ![c] = TRUE]
      BY <1>1, <2>6
    <3> QED BY <1>1, <2>2, <2>3, <2>4, <3>1 DEF Service!AnswerAndEnd
  <2> QED BY <1>1, <2>5, <2>6
<1> QED BY <1>2, <1>3

LEMMA StepRefines ==
  ASSUME Inv, [Next]_vars
  PROVE  [Service!Next]_Service!vars
<1>1. ASSUME UNCHANGED <<sent, replies>>,
             main' = main \/ main # "exited",
             \A c \in Conns : thread[c] = "exited" => thread'[c] = "exited"
      PROVE  Service!Next
  <2>1. \A c \in Conns : Ended(c) => Ended(c)'
    BY <1>1 DEF Ended, Alive
  <2> QED BY <1>1, <2>1, QuietIsEnd DEF Service!Next
<1>2. CASE UNCHANGED vars
  BY <1>1, <1>2 DEF vars, mainVars, peerVars, threadVars
<1>3. CASE Main
  <2>1. UNCHANGED <<sent, replies>> /\ main # "exited"
    BY <1>3 DEF Main, Accept, CheckShutdown, Exit, peerVars, threadVars
  <2>2. \A c \in Conns : thread[c] = "exited" => thread'[c] = "exited"
    BY <1>3, HeadOfBacklog DEF Inv, TypeOK, Main, Accept, CheckShutdown, Exit, threadVars
  <2> QED BY <1>1, <2>1, <2>2
<1>4. ASSUME NEW c \in Conns, Peer(c)
      PROVE  Service!Next
  <2>1. ASSUME NEW kind \in Kinds, SendFrame(c, kind)
        PROVE  Service!Next
    BY <2>1, SendIsSend DEF Service!Next
  <2>2. CASE Connect(c) \/ Disconnect(c)
    <3>1. UNCHANGED <<sent, replies, main, thread>>
      BY <2>2 DEF Connect, Disconnect, mainVars, threadVars
    <3> QED BY <1>1, <3>1
  <2> QED BY <1>4, <2>1, <2>2 DEF Peer
<1>5. ASSUME NEW c \in Conns, Reader(c)
      PROVE  Service!Next
  <2>1. UNCHANGED <<sent, replies, main, thread>>
    BY <1>5 DEF Reader, ReaderCall, ReaderReceive, ReaderPut, mainVars, peerVars, threadVars
  <2> QED BY <1>1, <2>1
<1>6. ASSUME NEW c \in Conns, Processing(c)
      PROVE  Service!Next
  <2>1. CASE SendReply(c)
    BY <2>1, SendReplyRefines DEF Service!Next
  <2>2. CASE ~SendReply(c)
    <3>1. UNCHANGED <<sent, replies, main>>
      BY <1>6, <2>2 DEF Processing, Get, AcquireLock, Infer, peerVars
    <3>2. \A d \in Conns : thread[d] = "exited" => thread'[d] = "exited"
      BY <1>6, <2>2 DEF Inv, TypeOK, Processing, Get, AcquireLock, Infer
    <3> QED BY <1>1, <3>1, <3>2
  <2> QED BY <2>1, <2>2
<1> QED BY <1>2, <1>3, <1>4, <1>5, <1>6 DEF Next

\* To its peers the server is the FIFO of ConnService: frames are answered one by
\* one, in the order they were sent, none twice and none skipped, until the
\* connection ends (worker.py:437-470).
THEOREM ServesInOrder == Spec => ImplementsConnService
<1>1. Init => Service!Init
  <2> SUFFICES ASSUME Init PROVE Service!Init
    OBVIOUS
  <2>1. [c \in Conns |-> ~Alive \/ thread[c] = "exited"] = [c \in Conns |-> FALSE]
    BY DEF Init, Alive
  <2> QED BY <2>1 DEF Init, Service!Init
<1>2. Inv /\ [Next]_vars => [Service!Next]_Service!vars
  BY StepRefines
<1> QED BY <1>1, <1>2, Invariant, PTL DEF Spec, ImplementsConnService, Service!Spec
=============================================================================
