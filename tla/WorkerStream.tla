---------------------------- MODULE WorkerStream ----------------------------
(***************************************************************************)
(* WorkerIpc over the default transport: without --shm-ipc and --gpu-ipc   *)
(* the frame carries the payload, some megabytes, and sock_sendall is      *)
(* suspended many times before the socket has taken it all.  The teardown  *)
(* of a client may cancel its task in there, or in the middle of a reply   *)
(* (one that comes in several segments, from a worker on another host):    *)
(* the socket is kept, and the rest of the frame is never sent or read.    *)
(*                                                                         *)
(* What is left of WorkerIpc: the lock, the attempts, the connections and  *)
(* the faults.  The ring is not read: a frame that arrives whole has its   *)
(* own payload.  The bytes of the stream are abstracted to where its two   *)
(* readers are: at the start of a frame, or in the middle of one.          *)
(***************************************************************************)
EXTENDS WorkerIpc

VARIABLES
  torn,    \* connection -> what the worker's reader is in the middle of, once a send
           \* was cut off: a request, Garbage or Oversize; NoRequest at a boundary
  skewed   \* connection -> the gateway is in the middle of a reply it gave up

streamVars == <<torn, skewed>>
allVars    == <<vars, streamVars>>

Garbage  == -2  \* a frame whose length was read from the bytes of a payload
Oversize == -3  \* such a length above MAX_FRAME_BYTES: the reader has ended

\* A frame on the stream: as it was built, or with bytes of others in it.
Whole(id) == [id |-> id, whole |-> TRUE]
Cut(id)   == [id |-> id, whole |-> FALSE]

StreamInit ==
  /\ Init
  /\ torn = [k \in Conns |-> NoRequest]
  /\ skewed = [k \in Conns |-> FALSE]

-----------------------------------------------------------------------------
(* WorkerClient._send_all.                                                 *)

SendPart(t) ==
  /\ Holds(t) /\ pc[t] = "wait"
  /\ sock # 0 /\ link[sock] = "open"
  /\ pc' = [pc EXCEPT ![t] = "sending"]
  /\ UNCHANGED <<ringVars, cur, attempts, outcome, answer, waiters, connVars, workerVars,
                 faults, cancels, streamVars>>

\* The worker takes the bytes of frame `id` from connection k.  In the middle of a frame
\* they belong to that one: it swallows them, or ends in them, and then the next four
\* bytes are a length, whatever they are.  A short garbage frame may end in them too.
Take(k, id) ==
  \/ /\ torn[k] = NoRequest
     /\ pending' = [pending EXCEPT ![k] = Append(@, Whole(id))]
     /\ UNCHANGED torn
  \/ /\ torn[k] # NoRequest
     /\ UNCHANGED <<pending, torn>>
  \/ /\ torn[k] \notin {NoRequest, Oversize}
     /\ \E more \in {<< >>, <<Cut(Garbage)>>} :
          pending' = [pending EXCEPT ![k] = Append(@, Cut(torn[k])) \o more]
     /\ \E next \in {NoRequest, Garbage, Oversize} : torn' = [torn EXCEPT ![k] = next]

SendRest(t) ==
  /\ Holds(t) /\ pc[t] = "sending"
  /\ link[sock] = "open"
  /\ Take(sock, cur[t])
  /\ pc' = [pc EXCEPT ![t] = "recv"]
  /\ UNCHANGED <<ringVars, cur, attempts, outcome, answer, waiters, sock, nconn, link,
                 replies, workerVars, faults, cancels, skewed>>

\* A cancel in mid-send: nothing, a part or all of the frame has left.
CancelSending(t) ==
  /\ pc[t] = "sending"
  /\ Withdraw(t)
  /\ \/ UNCHANGED <<pending, torn>>
     \/ link[sock] = "open" /\ Take(sock, cur[t])
     \/ /\ link[sock] = "open" /\ torn[sock] = NoRequest
        /\ torn' = [torn EXCEPT ![sock] = cur[t]]
        /\ UNCHANGED pending
  /\ UNCHANGED <<sock, nconn, link, replies, skewed>>

-----------------------------------------------------------------------------
(* WorkerClient._read_frame.                                               *)

\* A cancel in mid-reply: what was read of it is gone, the rest is still there.
CancelReading(t) ==
  /\ Holds(t) /\ pc[t] = "recv" /\ replies[sock] # << >>
  /\ Cancel(t)
  /\ skewed' = [skewed EXCEPT ![sock] = TRUE]
  /\ UNCHANGED torn

\* The next eight bytes are taken for a prefix.  They give a length that is too large
\* or a frame that does not decode, a ValueError that leaves the socket as it is; or a
\* length that what is there does not fill, and the task waits for more.
RecvSkewed(t) ==
  /\ Holds(t) /\ pc[t] = "recv"
  /\ skewed[sock] /\ replies[sock] # << >>
  /\ \/ /\ Leave(t, "error", NoAnswer)
        /\ \/ UNCHANGED <<replies, skewed>>
           \/ /\ replies' = [replies EXCEPT ![sock] = Tail(@)]
              /\ \E s \in BOOLEAN : skewed' = [skewed EXCEPT ![sock] = s]
     \/ /\ replies' = [replies EXCEPT ![sock] = Tail(@)]
        /\ UNCHANGED <<pc, outcome, answer, waiters, skewed>>
  /\ UNCHANGED <<ringVars, cur, attempts, sock, nconn, link, pending, workerVars, faults,
                 cancels, torn>>

RecvWhole(t) == Recv(t) /\ ~skewed[sock] /\ UNCHANGED streamVars

-----------------------------------------------------------------------------
(* The worker.                                                             *)

\* A frame with foreign bytes in its payload decodes and runs; with its header cut, the
\* answer is an error, with an id if one can be peeked.
ExecuteFrame(k) ==
  /\ workerUp
  /\ pending[k] # << >>
  /\ LET frame == Head(pending[k])
         id == frame.id
         runs == IF id \in Requests THEN [execs EXCEPT ![id] = @ + 1] ELSE execs
         responses == IF frame.whole
                      THEN {[id |-> id, data |-> id]}
                      ELSE [id : {NoRequest} \cup ({id} \cap Requests), data : {NoRequest}]
     IN  /\ execs' \in IF frame.whole THEN {runs} ELSE {runs, execs}
         /\ IF link[k] = "open"
            THEN /\ pending' = [pending EXCEPT ![k] = Tail(@)]
                 /\ \E r \in responses : replies' = [replies EXCEPT ![k] = Append(@, r)]
            ELSE /\ pending' = [pending EXCEPT ![k] = << >>]
                 /\ UNCHANGED replies
  /\ UNCHANGED <<ringVars, taskVars, sock, nconn, link, workerUp, faults, cancels, streamVars>>

\* Mutant: the thread of a connection whose reader ended does not close it.
ReaderEndsSilently(k) ==
  /\ workerUp
  /\ torn[k] = Oversize /\ pending[k] = << >> /\ link[k] = "open"
  /\ UNCHANGED allVars

\* The reader ended by ValueError: the frames before are answered, then the connection
\* is closed, and bytes nobody read may reset it.
ReaderEnded(k) ==
  /\ workerUp
  /\ torn[k] = Oversize /\ pending[k] = << >> /\ link[k] = "open"
  /\ link' = [link EXCEPT ![k] = "broken"]
  /\ \E r \in {replies[k], << >>} : replies' = [replies EXCEPT ![k] = r]
  /\ UNCHANGED <<ringVars, taskVars, sock, nconn, pending, workerVars, faults, cancels, streamVars>>

-----------------------------------------------------------------------------
StreamRoundtrip(t) ==
  \/ (Connect(t) \/ AttemptFails(t)) /\ UNCHANGED streamVars
  \/ SendPart(t) \/ SendRest(t) \/ RecvWhole(t) \/ RecvSkewed(t)

Serves(k) == ExecuteFrame(k) \/ ReaderEnded(k)

StreamNext ==
  \/ \E t \in Tasks : \/ (Request(t) \/ Cancel(t)) /\ UNCHANGED streamVars
                      \/ StreamRoundtrip(t) \/ CancelSending(t) \/ CancelReading(t)
  \/ \E k \in Conns : Serves(k) \/ (BreakLink(k) /\ UNCHANGED streamVars)
  \/ (Crash \/ Restart) /\ UNCHANGED streamVars

-----------------------------------------------------------------------------
Frames  == [id : Requests \cup {Garbage}, whole : BOOLEAN]
Answers == [id : Requests \cup {NoRequest}, data : Requests \cup {NoRequest}]

StreamTypeOK ==
  /\ pc \in [Tasks -> {"idle", "wait", "sending", "recv"}]
  /\ pending \in [Conns -> Seq(Frames)]
  /\ replies \in [Conns -> Seq(Answers)]
  /\ torn \in [Conns -> Requests \cup {NoRequest, Garbage, Oversize}]
  /\ skewed \in [Conns -> BOOLEAN]

\* Whatever was cut off, swallowed or run with the bytes of two requests in it, a
\* request that ended well was answered from its own frame, as it was built
\* (gateway.py:130; without the ring no precondition is left).
AnswerFromOwnFrame == AnswerOwn /\ AnswerIntact

-----------------------------------------------------------------------------
\* One of the two readers is in the middle of a frame that will not go on.
Desynchronised == sock # 0 /\ (torn[sock] \in Requests \cup {Garbage} \/ skewed[sock])
=============================================================================
