------------------------------ MODULE CppGateway ------------------------------
(***************************************************************************)
(* The C++ gateway (gateway_cpp/src/main.cpp, worker.cpp): per client      *)
(* connection a reader thread that moves messages into a bounded queue and *)
(* the thread of handle_connection that answers them with one message of   *)
(* lookahead; all connections share one WorkerClient, a mutex held across  *)
(* send and receive on one socket that is connected at startup only.       *)
(*                                                                         *)
(* The text messages of a connection are numbered as they are read; 0 is   *)
(* no message.  A binary message is read and dropped; a frame that is      *)
(* malformed, too large or a close frame ends the reading while the client *)
(* is still there.  A message is answered without the worker when no       *)
(* camera of it decodes.  The decode jobs of the pool end by themselves:   *)
(* what matters here is when they are dispatched, that is, which message   *)
(* is `nxt`.                                                               *)
(***************************************************************************)
EXTENDS Integers, Sequences, FiniteSets, FiniteSetsExt

CONSTANTS
  Clients,      \* client connections
  Kinds,        \* what a client may send: "text", "binary", "bad"
  Capacity,     \* depth of the message queue of a connection, 8 in the code
  MaxMessages   \* bound: messages sent in a behaviour, over all connections

ASSUME KindsAssumption == Kinds \subseteq {"text", "binary", "bad"}
ASSUME BoundsAssumption == Capacity \in Nat \ {0} /\ MaxMessages \in Nat

VARIABLES
  client,    \* client -> "open", or "gone": its end of the connection
  sent,      \* client -> the number of messages it has sent
  wire,      \* client -> the kinds of those that are not read yet
  got,       \* client -> text messages the reader thread has read
  reader,    \* client -> "recv", "put", "wait" (asleep on cv), "done"
  msgs,      \* client -> the queue between the two threads
  proc,      \* client -> "first", "look", "process", "lock", "recv",
             \*           "send", "advance", "join", "closed"
  cur, nxt,  \* client -> the message in hand, and the one whose decode runs
  result,    \* client -> the request that the response in hand belongs to
  mutex,     \* clients inside WorkerClient::request
  link,      \* the worker connection: "open", "broken"
  pending,   \* requests on the worker connection, <<client, message>>
  responses, \* responses on the worker connection, by the request they answer
  out        \* client -> the messages answered, with what they were answered

loopVars   == <<proc, cur, nxt, result>>
readerVars == <<got, reader>>
peerVars   == <<client, sent, wire>>
workerVars == <<mutex, link, pending, responses>>
vars == <<peerVars, readerVars, msgs, loopVars, workerVars, out>>

Failed    == <<"error", 0>>   \* answered with an error of the gateway itself
TotalSent == MapThenSumSet(LAMBDA c : sent[c], Clients)

Init ==
  /\ client = [c \in Clients |-> "open"]
  /\ sent = [c \in Clients |-> 0]
  /\ wire = [c \in Clients |-> << >>]
  /\ got = [c \in Clients |-> 0]
  /\ reader = [c \in Clients |-> "recv"]
  /\ msgs = [c \in Clients |-> << >>]
  /\ proc = [c \in Clients |-> "first"]
  /\ cur = [c \in Clients |-> 0]
  /\ nxt = [c \in Clients |-> 0]
  /\ result = [c \in Clients |-> Failed]
  /\ mutex = {}
  /\ link = "open"
  /\ pending = << >>
  /\ responses = << >>
  /\ out = [c \in Clients |-> << >>]

-----------------------------------------------------------------------------
(* The clients, and the worker at the other end of the socket.             *)

SendMessage(c) ==
  /\ client[c] = "open" /\ proc[c] # "closed"
  /\ TotalSent < MaxMessages
  /\ sent' = [sent EXCEPT ![c] = @ + 1]
  /\ \E kind \in Kinds : wire' = [wire EXCEPT ![c] = Append(@, kind)]
  /\ UNCHANGED <<client, readerVars, msgs, loopVars, workerVars, out>>

Leave(c) ==
  /\ client[c] = "open"
  /\ client' = [client EXCEPT ![c] = "gone"]
  /\ UNCHANGED <<sent, wire, readerVars, msgs, loopVars, workerVars, out>>

\* ConnService: the frames of a connection are answered in order.
WorkerAnswers ==
  /\ link = "open" /\ pending # << >>
  /\ pending' = Tail(pending)
  /\ responses' = Append(responses, Head(pending))
  /\ UNCHANGED <<peerVars, readerVars, msgs, loopVars, mutex, link, out>>

WorkerGone ==
  /\ link = "open"
  /\ link' = "broken"
  /\ pending' = << >>
  /\ responses' \in {responses, << >>}
  /\ UNCHANGED <<peerVars, readerVars, msgs, loopVars, mutex, out>>

-----------------------------------------------------------------------------
(* The reader thread.                                                      *)

Arrived(c, kind) == wire[c] # << >> /\ Head(wire[c]) = kind

ReadMessage(c) ==
  /\ reader[c] = "recv" /\ Arrived(c, "text")
  /\ wire' = [wire EXCEPT ![c] = Tail(@)]
  /\ got' = [got EXCEPT ![c] = @ + 1]
  /\ reader' = [reader EXCEPT ![c] = "put"]
  /\ UNCHANGED <<client, sent, msgs, loopVars, workerVars, out>>

\* `if (opcode != 1) continue;`: nobody is told.
DropMessage(c) ==
  /\ reader[c] = "recv" /\ Arrived(c, "binary")
  /\ wire' = [wire EXCEPT ![c] = Tail(@)]
  /\ UNCHANGED <<client, sent, readerVars, msgs, loopVars, workerVars, out>>

\* read_message returns false: at the end of the stream (a reset may discard what
\* was not read), or at a frame it refuses, whose sender is still there.
ReadEnds(c) ==
  /\ reader[c] = "recv" /\ (client[c] = "gone" \/ Arrived(c, "bad"))
  /\ reader' = [reader EXCEPT ![c] = "done"]
  /\ UNCHANGED <<peerVars, got, msgs, loopVars, workerVars, out>>

Push(c) ==
  /\ msgs' = [msgs EXCEPT ![c] = Append(@, got[c])]
  /\ reader' = [reader EXCEPT ![c] = "recv"]

Put(c) ==
  /\ reader[c] = "put"
  /\ IF Len(msgs[c]) < Capacity
     THEN Push(c)
     ELSE reader' = [reader EXCEPT ![c] = "wait"] /\ UNCHANGED msgs
  /\ UNCHANGED <<peerVars, got, loopVars, workerVars, out>>

\* Nothing notifies cv when a message is taken from the queue, so a reader that
\* sleeps on a full queue goes on only if wait() returns spuriously.
WakesSpuriously(c) ==
  /\ reader[c] = "wait" /\ Len(msgs[c]) < Capacity
  /\ Push(c)
  /\ UNCHANGED <<peerVars, got, loopVars, workerVars, out>>

-----------------------------------------------------------------------------
(* The loop of handle_connection.                                          *)

\* pop_msg: the reader notifies after each push and at its end.
Pop(c, after) ==
  \/ /\ msgs[c] # << >>
     /\ cur' = [cur EXCEPT ![c] = Head(msgs[c])]
     /\ msgs' = [msgs EXCEPT ![c] = Tail(@)]
     /\ proc' = [proc EXCEPT ![c] = after]
  \/ /\ msgs[c] = << >> /\ reader[c] = "done"
     /\ proc' = [proc EXCEPT ![c] = "join"]
     /\ UNCHANGED <<cur, msgs>>

\* try_pop_msg, and the dispatch of the decode jobs of what it took.
LookAhead(c) ==
  IF msgs[c] = << >>
  THEN nxt' = [nxt EXCEPT ![c] = 0] /\ UNCHANGED msgs
  ELSE nxt' = [nxt EXCEPT ![c] = Head(msgs[c])] /\ msgs' = [msgs EXCEPT ![c] = Tail(@)]

First(c) ==
  /\ proc[c] = "first"
  /\ Pop(c, "look")
  /\ UNCHANGED <<peerVars, readerVars, nxt, result, workerVars, out>>

\* Mutant: the lookahead waits for a message.
LookWaits(c) ==
  /\ proc[c] = "look" /\ (msgs[c] # << >> \/ reader[c] = "done")
  /\ LookAhead(c)
  /\ proc' = [proc EXCEPT ![c] = "process"]
  /\ UNCHANGED <<peerVars, readerVars, cur, result, workerVars, out>>

Look(c) ==
  /\ proc[c] = "look"
  /\ LookAhead(c)
  /\ proc' = [proc EXCEPT ![c] = "process"]
  /\ UNCHANGED <<peerVars, readerVars, cur, result, workerVars, out>>

\* gather: with no camera decoded the answer is an error of the gateway.
Process(c) ==
  /\ proc[c] = "process"
  /\ \/ proc' = [proc EXCEPT ![c] = "lock"] /\ UNCHANGED result
     \/ proc' = [proc EXCEPT ![c] = "send"] /\ result' = [result EXCEPT ![c] = Failed]
  /\ UNCHANGED <<peerVars, readerVars, msgs, cur, nxt, workerVars, out>>

\* Mutant: the mutex covers the send only.
RequestUnlocks(c) ==
  /\ proc[c] = "lock" /\ mutex = {}
  /\ IF link = "open"
     THEN /\ pending' = Append(pending, <<c, cur[c]>>)
          /\ proc' = [proc EXCEPT ![c] = "recv"]
          /\ UNCHANGED result
     ELSE /\ proc' = [proc EXCEPT ![c] = "send"]
          /\ result' = [result EXCEPT ![c] = Failed]
          /\ UNCHANGED pending
  /\ UNCHANGED <<peerVars, readerVars, msgs, cur, nxt, mutex, link, responses, out>>

\* WorkerClient::request: the mutex, then the frame.  A socket that broke stays.
Request(c) ==
  /\ proc[c] = "lock" /\ mutex = {}
  /\ IF link = "open"
     THEN /\ mutex' = {c}
          /\ pending' = Append(pending, <<c, cur[c]>>)
          /\ proc' = [proc EXCEPT ![c] = "recv"]
          /\ UNCHANGED result
     ELSE /\ proc' = [proc EXCEPT ![c] = "send"]
          /\ result' = [result EXCEPT ![c] = Failed]
          /\ UNCHANGED <<mutex, pending>>
  /\ UNCHANGED <<peerVars, readerVars, msgs, cur, nxt, link, responses, out>>

\* The response is taken as it comes: no id is compared.  One that does not
\* parse is consumed all the same.
Receive(c) ==
  /\ proc[c] = "recv"
  /\ \/ /\ responses # << >>
        /\ \E r \in {Head(responses), Failed} : result' = [result EXCEPT ![c] = r]
        /\ responses' = Tail(responses)
     \/ /\ responses = << >> /\ link = "broken"
        /\ result' = [result EXCEPT ![c] = Failed]
        /\ UNCHANGED responses
  /\ mutex' = mutex \ {c}
  /\ proc' = [proc EXCEPT ![c] = "send"]
  /\ UNCHANGED <<peerVars, readerVars, msgs, cur, nxt, link, pending, out>>

\* send_text to a client that has gone fails, or the bytes vanish.
Respond(c) ==
  /\ proc[c] = "send"
  /\ IF client[c] = "open"
     THEN /\ out' = [out EXCEPT ![c] = Append(@, <<cur[c], result[c]>>)]
          /\ proc' = [proc EXCEPT ![c] = "advance"]
     ELSE /\ \E after \in {"advance", "join"} : proc' = [proc EXCEPT ![c] = after]
          /\ UNCHANGED out
  /\ UNCHANGED <<peerVars, readerVars, msgs, cur, nxt, result, workerVars>>

\* Mutant: the queue is looked at before the message in lookahead.
AdvanceQueueFirst(c) ==
  /\ proc[c] = "advance"
  /\ IF nxt[c] # 0 /\ msgs[c] = << >>
     THEN /\ cur' = [cur EXCEPT ![c] = nxt[c]]
          /\ LookAhead(c)
          /\ proc' = [proc EXCEPT ![c] = "process"]
     ELSE Pop(c, "process") /\ UNCHANGED nxt
  /\ UNCHANGED <<peerVars, readerVars, result, workerVars, out>>

\* nxt becomes cur and the lookahead is refilled; without nxt the loop blocks
\* for a message, and does not look ahead.
Advance(c) ==
  /\ proc[c] = "advance"
  /\ IF nxt[c] # 0
     THEN /\ cur' = [cur EXCEPT ![c] = nxt[c]]
          /\ LookAhead(c)
          /\ proc' = [proc EXCEPT ![c] = "process"]
     ELSE Pop(c, "process") /\ UNCHANGED nxt
  /\ UNCHANGED <<peerVars, readerVars, result, workerVars, out>>

Close(c) ==
  /\ proc[c] = "join" /\ reader[c] = "done"
  /\ proc' = [proc EXCEPT ![c] = "closed"]
  /\ UNCHANGED <<peerVars, readerVars, msgs, cur, nxt, result, workerVars, out>>

-----------------------------------------------------------------------------
Reader(c)  == ReadMessage(c) \/ DropMessage(c) \/ ReadEnds(c) \/ Put(c)
Loop(c)    == \/ First(c) \/ Look(c) \/ Process(c) \/ Request(c)
              \/ Receive(c) \/ Respond(c) \/ Advance(c) \/ Close(c)
Peer(c)    == SendMessage(c) \/ Leave(c)

Next ==
  \/ \E c \in Clients : Peer(c) \/ Reader(c) \/ WakesSpuriously(c) \/ Loop(c)
  \/ WorkerAnswers
  \/ WorkerGone

\* Threads are scheduled and the worker answers.  A spurious wakeup is never due.
Fairness ==
  /\ \A c \in Clients : WF_vars(Reader(c)) /\ WF_vars(Loop(c))
  /\ WF_vars(WorkerAnswers)

Spec == Init /\ [][Next]_vars /\ Fairness

-----------------------------------------------------------------------------
Results == {Failed} \cup (Clients \X Nat)

TypeOK ==
  /\ client \in [Clients -> {"open", "gone"}]
  /\ sent \in [Clients -> Nat] /\ got \in [Clients -> Nat]
  /\ wire \in [Clients -> Seq(Kinds)]
  /\ reader \in [Clients -> {"recv", "put", "wait", "done"}]
  /\ msgs \in [Clients -> Seq(Nat \ {0})]
  /\ \A c \in Clients : Len(msgs[c]) <= Capacity
  /\ proc \in [Clients -> {"first", "look", "process", "lock", "recv", "send",
                           "advance", "join", "closed"}]
  /\ cur \in [Clients -> Nat] /\ nxt \in [Clients -> Nat]
  /\ result \in [Clients -> Results]
  /\ mutex \in SUBSET Clients
  /\ link \in {"open", "broken"}
  /\ pending \in Seq(Results) /\ responses \in Seq(Results)
  /\ out \in [Clients -> Seq(Nat \X Results)]

-----------------------------------------------------------------------------
(* Safety *)

One(n) == IF n = 0 THEN << >> ELSE <<n>>
InHand(c) == IF proc[c] \in {"look", "process", "lock", "recv", "send"} THEN One(cur[c]) ELSE << >>
Held(c)   == IF reader[c] \in {"put", "wait"} THEN One(got[c]) ELSE << >>

\* While the client is there, the text messages that were read are answered,
\* in hand, in lookahead, queued or held by the reader: each once, in the order
\* in which they came.  Neither the two-deep pipeline nor its two ways to
\* advance (main.cpp:509-538) lose, repeat or reorder one.
PipelineInOrder ==
  \A c \in Clients :
    client[c] = "open" =>
      [i \in DOMAIN out[c] |-> out[c][i][1]] \o InHand(c) \o One(nxt[c]) \o msgs[c] \o Held(c)
        = [i \in 1 .. got[c] |-> i]

\* What a message is answered with was computed for that message, although no
\* id is compared (worker.cpp:124-157): the mutex spans the roundtrip.
AnswersMatch ==
  \A c \in Clients : \A i \in DOMAIN out[c] :
    out[c][i][2] \in {Failed, <<c, out[c][i][1]>>}

-----------------------------------------------------------------------------
(* Liveness *)

\* Unless the reader went to sleep on a full queue: what a client sends is read, until
\* it sends a frame that ends the reading; every text message that was read is answered
\* or its client leaves, also those read before such a frame; and once the reading ends
\* the handler joins its reader and closes the socket.  The lookahead never holds the
\* last message of a burst hostage (main.cpp:461-465), and a broken worker connection
\* costs answers, not progress.
ServedUnlessFull ==
  \A c \in Clients :
    /\ wire[c] # << >> ~> wire[c] = << >> \/ reader[c] \in {"wait", "done"}
    /\ Len(out[c]) < got[c]
         ~> Len(out[c]) = got[c] \/ client[c] = "gone" \/ reader[c] = "wait"
    /\ client[c] = "gone" \/ reader[c] = "done"
         ~> proc[c] = "closed" \/ reader[c] = "wait"

\* "equivalent to the Python gateway" (gateway_cpp/README.md:5), which answers
\* every message it has read (GatewayWs); the bounded backlog is meant to slow the
\* sender down ("backpressure on the sender", main.cpp:428), not to stop it for good.
\* It does: nothing notifies cv when a message is taken.
EveryMessageAnswered ==
  \A c \in Clients :
    wire[c] # << >> \/ Len(out[c]) < got[c]
      ~> (wire[c] = << >> /\ Len(out[c]) = got[c])
         \/ client[c] = "gone" \/ reader[c] = "done"

-----------------------------------------------------------------------------
(* Action property *)

\* "`nxt` (+ jobs) is in hand when the client pipelines" (main.cpp:462-463):
\* whenever the loop turns to a message while another is queued, the decode of
\* that one is dispatched before the roundtrip.
LookaheadInHand ==
  [][\A c \in Clients :
       proc[c] = "advance" /\ proc'[c] = "process" /\ Len(One(nxt[c]) \o msgs[c]) >= 2
         => nxt'[c] # 0]_vars
=============================================================================
