------------------------------- MODULE GatewayWs -------------------------------
(***************************************************************************)
(* The WebSocket side of the Python gateway (tybok/gateway.py): handle_ws, *)
(* one read loop per client connection with a bounded list of message      *)
(* tasks, and _handle_one, the task of a message.                          *)
(*                                                                         *)
(* The worker client is its FIFO lock here: the tasks whose request waits  *)
(* or is served, each with those that asked before it (WorkerIpc has the   *)
(* rest).                                                                  *)
(* A message is <<client, n>>, the n-th of its connection.  It goes to the *)
(* worker, or its task rejects it (no images, RTC not enabled, a state that*)
(* is no array), or the read loop itself answers it (binary, not JSON).    *)
(***************************************************************************)
EXTENDS Integers, Sequences, FiniteSets, FiniteSetsExt

CONSTANTS
  Clients,      \* client connections
  MaxInflight,  \* Gateway._max_inflight, 4 unless --max-inflight says otherwise
  MaxMessages,  \* bound: messages of a connection
  MaxTotal      \* bound: messages of a behaviour, over all connections

ASSUME BoundsAssumption ==
  MaxInflight \in Nat \ {0} /\ MaxMessages \in Nat /\ MaxTotal \in Nat

VARIABLES
  client,    \* client -> "open", or "gone": its end of the connection
  loop,      \* client -> "read", "full" (asyncio.wait), "drain" (gather),
             \*           "done", "aborted": where handle_ws is
  nread,     \* client -> messages the loop has read
  inflight,  \* client -> the list of tasks handle_ws keeps
  task,      \* message -> "none", "decode", "reject", "queued", "done", "cancelled"
  ahead,     \* message -> the tasks that hold or wait for the worker client's
             \*            lock in front of this one
  out        \* client -> messages answered, in the order of the answers

vars == <<client, loop, nread, inflight, task, ahead, out>>

Messages == Clients \X (1 .. MaxMessages)
Finished == {"done", "cancelled"}

Init ==
  /\ client = [c \in Clients |-> "open"]
  /\ loop = [c \in Clients |-> "read"]
  /\ nread = [c \in Clients |-> 0]
  /\ inflight = [c \in Clients |-> {}]
  /\ task = [m \in Messages |-> "none"]
  /\ ahead = [m \in Messages |-> {}]
  /\ out = [c \in Clients |-> << >>]

\* Mutant: an answer repeated by the except branch.
AnswerTwice(m) ==
  out' = IF client[m[1]] = "open"
         THEN [out EXCEPT ![m[1]] = @ \o <<m[2], m[2]>>] ELSE out

\* ws.send_json for message m; on a connection that has gone it raises, which
\* a task swallows.
Answer(m) ==
  out' = IF client[m[1]] = "open" THEN [out EXCEPT ![m[1]] = Append(@, m[2])] ELSE out

-----------------------------------------------------------------------------
(* The client.                                                             *)

Leave(c) ==
  /\ client[c] = "open"
  /\ client' = [client EXCEPT ![c] = "gone"]
  /\ UNCHANGED <<loop, nread, inflight, task, ahead, out>>

-----------------------------------------------------------------------------
(* handle_ws.                                                              *)

MoreMessages(c) ==
  nread[c] < MaxMessages /\ MapThenSumSet(LAMBDA d : nread[d], Clients) < MaxTotal

\* Mutant: one task more than the bound.
WhereAfterLate(tasks) == IF Cardinality(tasks) > MaxInflight THEN "full" ELSE "read"

\* The list is checked after each append.
WhereAfter(tasks) == IF Cardinality(tasks) >= MaxInflight THEN "full" ELSE "read"

ReadMessage(c, first) ==
  LET m == <<c, nread[c] + 1>>
  IN  /\ loop[c] = "read"
      /\ MoreMessages(c)
      /\ nread' = [nread EXCEPT ![c] = @ + 1]
      /\ task' = [task EXCEPT ![m] = first]
      /\ inflight' = [inflight EXCEPT ![c] = @ \cup {m}]
      /\ loop' = [loop EXCEPT ![c] = WhereAfter(inflight'[c])]
      /\ UNCHANGED <<client, ahead, out>>

\* Answered by the loop; when that raises, handle_ws unwinds and its finally
\* cancels the tasks of this connection that are not done.
ReadInline(c) ==
  LET m == <<c, nread[c] + 1>>
      lost == {x \in inflight[c] : task[x] \notin Finished}
  IN  /\ loop[c] = "read"
      /\ MoreMessages(c)
      /\ nread' = [nread EXCEPT ![c] = @ + 1]
      /\ Answer(m)
      /\ IF client[c] = "open"
         THEN /\ task' = [task EXCEPT ![m] = "done"]
              /\ UNCHANGED <<loop, ahead>>
         ELSE /\ task' = [x \in Messages |-> IF x = m \/ x \in lost THEN "cancelled"
                                             ELSE task[x]]
              /\ ahead' = [x \in Messages |-> IF x \in lost THEN {} ELSE ahead[x] \ lost]
              /\ loop' = [loop EXCEPT ![c] = "aborted"]
      /\ UNCHANGED <<client, inflight>>

\* asyncio.wait returned: the finished tasks leave the list.
Prune(c) ==
  /\ loop[c] = "full"
  /\ \E m \in inflight[c] : task[m] \in Finished
  /\ inflight' = [inflight EXCEPT ![c] = {m \in @ : task[m] \notin Finished}]
  /\ loop' = [loop EXCEPT ![c] = WhereAfter(inflight'[c])]
  /\ UNCHANGED <<client, nread, task, ahead, out>>

EndOfStream(c) ==
  /\ loop[c] = "read" /\ client[c] = "gone"
  /\ loop' = [loop EXCEPT ![c] = "drain"]
  /\ UNCHANGED <<client, nread, inflight, task, ahead, out>>

Drained(c) ==
  /\ loop[c] = "drain"
  /\ \A m \in inflight[c] : task[m] \in Finished
  /\ loop' = [loop EXCEPT ![c] = "done"]
  /\ UNCHANGED <<client, nread, inflight, task, ahead, out>>

-----------------------------------------------------------------------------
(* _handle_one.                                                            *)

\* The images are decoded in threads, so the tasks come out in any order.
Decoded(m) ==
  /\ task[m] = "decode"
  /\ task' = [task EXCEPT ![m] = "queued"]
  /\ ahead' = [ahead EXCEPT ![m] = {x \in Messages : task[x] = "queued"}]
  /\ UNCHANGED <<client, loop, nread, inflight, out>>

\* Mutant: the early return for an RTC request forgets to answer.
RejectSilently(m) ==
  /\ task[m] = "reject"
  /\ task' = [task EXCEPT ![m] = "done"]
  /\ UNCHANGED <<client, loop, nread, inflight, ahead, out>>

Reject(m) ==
  /\ task[m] = "reject"
  /\ task' = [task EXCEPT ![m] = "done"]
  /\ Answer(m)
  /\ UNCHANGED <<client, loop, nread, inflight, ahead>>

\* The roundtrip of the lock's holder ended, with a chunk or an exception.  Its
\* task runs on to send_json without giving up the event loop.
Served(m) ==
  /\ task[m] = "queued" /\ ahead[m] = {}
  /\ task' = [task EXCEPT ![m] = "done"]
  /\ Answer(m)
  /\ ahead' = [x \in Messages |-> ahead[x] \ {m}]
  /\ UNCHANGED <<client, loop, nread, inflight>>

-----------------------------------------------------------------------------
ReadLoop(c) == Prune(c) \/ EndOfStream(c) \/ Drained(c)
Task(m)     == Decoded(m) \/ Reject(m)

Next ==
  \/ \E c \in Clients : \/ Leave(c) \/ ReadLoop(c) \/ ReadInline(c)
                        \/ \E first \in {"decode", "reject"} : ReadMessage(c, first)
  \/ \E m \in Messages : Task(m) \/ Served(m)

\* The event loop runs every ready task, decoding ends, and so does a roundtrip
\* (WorkerIpc's Termination).  Clients owe nothing.
Fairness ==
  /\ \A c \in Clients : WF_vars(ReadLoop(c))
  /\ \A m \in Messages : WF_vars(Task(m))
  /\ WF_vars(\E m \in Messages : Served(m))

Spec == Init /\ [][Next]_vars /\ Fairness

-----------------------------------------------------------------------------
TypeOK ==
  /\ client \in [Clients -> {"open", "gone"}]
  /\ loop \in [Clients -> {"read", "full", "drain", "done", "aborted"}]
  /\ nread \in [Clients -> 0 .. MaxMessages]
  /\ inflight \in [Clients -> SUBSET Messages]
  /\ task \in [Messages -> {"none", "decode", "reject", "queued", "done", "cancelled"}]
  /\ ahead \in [Messages -> SUBSET Messages]
  /\ out \in [Clients -> Seq(1 .. MaxMessages)]

-----------------------------------------------------------------------------
(* Safety *)

Unfinished(c) == {m \in Messages : m[1] = c /\ task[m] \in {"decode", "reject", "queued"}}

\* A client that is still there gets one answer to each message: never two, and
\* none is missing once its task is over.
OneAnswerEach ==
  \A c \in Clients :
    /\ \A i, j \in DOMAIN out[c] : out[c][i] = out[c][j] => i = j
    /\ client[c] = "open" =>
         \A n \in 1 .. nread[c] :
           task[<<c, n>>] \in Finished <=> \E i \in DOMAIN out[c] : out[c][i] = n

\* Answers overtake by less than max_inflight messages: the i-th answer is to
\* one of the first i + max_inflight - 1 messages.
AnswerLead ==
  \A c \in Clients : \A i \in DOMAIN out[c] : out[c][i] <= i + MaxInflight - 1

\* "responses leave in message order" (gateway.py:374-375, 451-453).
RepliesInMessageOrder ==
  \A c \in Clients : \A i, j \in DOMAIN out[c] : i < j => out[c][i] < out[c][j]

-----------------------------------------------------------------------------
(* Liveness *)

\* Every message that was read is answered or its client leaves; and the handler of a
\* client that left ends: its full list empties, the messages still buffered are read,
\* and the drain ends (gateway.py:456-482).
EveryMessageSettled ==
  \A c \in Clients :
    /\ Len(out[c]) < nread[c] ~> client[c] = "gone" \/ Len(out[c]) = nread[c]
    /\ client[c] = "gone" ~> loop[c] \in {"done", "aborted"}
=============================================================================
