----------------------------- MODULE WorkerServer -----------------------------
(***************************************************************************)
(* The inference worker's socket server (tybok/worker.py): the accept loop *)
(* of serve_socket in the main thread and, per connection, the two threads *)
(* of _handle_conn.  A reader thread moves frames from the socket into a   *)
(* bounded queue; a processing thread takes them, runs the engine under    *)
(* the lock all connections share, and answers.                            *)
(*                                                                         *)
(* A frame is its position on its connection and its kind: "infer",        *)
(* "control" (ping, describe, or a frame whose handling raises and is      *)
(* answered with an error), "shutdown", or "oversize" (the reader raises   *)
(* ValueError).  The peer of a connection is the environment.              *)
(***************************************************************************)
EXTENDS Integers, Sequences, FiniteSets, FiniteSetsExt

CONSTANTS
  Conns,       \* connections peers may open
  Kinds,       \* kinds of frames peers may send
  QueueSize,   \* maxsize of the queue between the two threads, 2 in the code
  MaxFrames    \* bound: frames sent in a behaviour, over all connections

ASSUME KindsAssumption == Kinds \subseteq {"infer", "control", "shutdown", "oversize"}
ASSUME SizesAssumption == QueueSize \in Nat \ {0} /\ MaxFrames \in Nat

VARIABLES
  main,      \* main thread: "accept", "check", "closing", "exited"
  shutdown,  \* InferenceWorker._shutdown
  lock,      \* connections whose thread is inside `with self._lock`
  backlog,   \* connections made and not accepted yet
  peer,      \* connection -> "none", "open", "closed": the peer's end
  sent,      \* connection -> frames sent by the peer
  inbox,     \* connection -> frames the worker has not received
  reader,    \* connection -> "none", "loop", "recv", "put", "done"
  held,      \* connection -> the item the reader is putting into the queue
  frames,    \* connection -> the queue.Queue between the two threads
  thread,    \* connection -> "none", "get", "lock", "infer", "send", "exited"
  current,   \* connection -> the frame the processing thread works on
  replies    \* connection -> the frames answered, in the order of the answers

mainVars   == <<main, shutdown, lock, backlog>>
peerVars   == <<peer, sent>>
readerVars == <<reader, held>>
threadVars == <<thread, current, replies>>
vars == <<mainVars, peerVars, inbox, readerVars, frames, threadVars>>

Eof   == [n |-> 0, kind |-> "eof"]
Frame == [n : Nat, kind : Kinds]
TotalSent == MapThenSumSet(LAMBDA c : sent[c], Conns)

Init ==
  /\ main = "accept" /\ shutdown = FALSE /\ lock = {} /\ backlog = << >>
  /\ peer = [c \in Conns |-> "none"]
  /\ sent = [c \in Conns |-> 0]
  /\ inbox = [c \in Conns |-> << >>]
  /\ reader = [c \in Conns |-> "none"]
  /\ held = [c \in Conns |-> Eof]
  /\ frames = [c \in Conns |-> << >>]
  /\ thread = [c \in Conns |-> "none"]
  /\ current = [c \in Conns |-> Eof]
  /\ replies = [c \in Conns |-> << >>]

Alive == main # "exited"

-----------------------------------------------------------------------------
(* The peers.                                                              *)

\* What the peer can see of the end of its connection: closing the socket in
\* one thread does not reach the peer while another is blocked in recv on it.
PeerEof(c) == ~Alive \/ (thread[c] = "exited" /\ reader[c] # "recv")

Connect(c) ==
  /\ peer[c] = "none"
  /\ main \in {"accept", "check"}
  /\ peer' = [peer EXCEPT ![c] = "open"]
  /\ backlog' = Append(backlog, c)
  /\ UNCHANGED <<main, shutdown, lock, sent, inbox, readerVars, frames, threadVars>>

SendFrame(c, kind) ==
  /\ peer[c] = "open"
  /\ ~PeerEof(c)
  /\ TotalSent < MaxFrames
  /\ sent' = [sent EXCEPT ![c] = @ + 1]
  /\ inbox' = [inbox EXCEPT ![c] = Append(@, [n |-> sent[c] + 1, kind |-> kind])]
  /\ UNCHANGED <<mainVars, peer, readerVars, frames, threadVars>>

Disconnect(c) ==
  /\ peer[c] = "open"
  /\ peer' = [peer EXCEPT ![c] = "closed"]
  /\ UNCHANGED <<mainVars, sent, inbox, readerVars, frames, threadVars>>

-----------------------------------------------------------------------------
(* serve_socket: accept, start the threads of the connection, and only     *)
(* then look at the shutdown flag.  When the loop ends the process does,   *)
(* and its daemon threads with it.                                         *)

Accept ==
  /\ main = "accept"
  /\ backlog # << >>
  /\ LET c == Head(backlog)
     IN  /\ reader' = [reader EXCEPT ![c] = "loop"]
         /\ thread' = [thread EXCEPT ![c] = "get"]
  /\ backlog' = Tail(backlog)
  /\ main' = "check"
  /\ UNCHANGED <<shutdown, lock, peerVars, inbox, held, frames, current, replies>>

\* Mutant: the loop does not look at the flag.
CheckNothing ==
  /\ main = "check"
  /\ main' = "accept"
  /\ UNCHANGED <<shutdown, lock, backlog, peerVars, inbox, readerVars, frames, threadVars>>

CheckShutdown ==
  /\ main = "check"
  /\ main' = IF shutdown THEN "closing" ELSE "accept"
  /\ UNCHANGED <<shutdown, lock, backlog, peerVars, inbox, readerVars, frames, threadVars>>

Exit ==
  /\ main = "closing"
  /\ main' = "exited"
  /\ UNCHANGED <<shutdown, lock, backlog, peerVars, inbox, readerVars, frames, threadVars>>

-----------------------------------------------------------------------------
(* The reader thread of a connection.                                      *)

\* The next recv: on a socket the processing thread has closed it raises.
ReaderCall(c) ==
  /\ Alive /\ reader[c] = "loop"
  /\ IF thread[c] = "exited"
     THEN reader' = [reader EXCEPT ![c] = "put"] /\ held' = [held EXCEPT ![c] = Eof]
     ELSE reader' = [reader EXCEPT ![c] = "recv"] /\ UNCHANGED held
  /\ UNCHANGED <<mainVars, peerVars, inbox, frames, threadVars>>

\* Mutant: the reader ends on an exception without putting None.
ReaderReceiveSilent(c) ==
  /\ Alive /\ reader[c] = "recv"
  /\ \/ /\ inbox[c] # << >>
        /\ inbox' = [inbox EXCEPT ![c] = Tail(@)]
        /\ LET raises == thread[c] = "exited" \/ Head(inbox[c]).kind = "oversize"
           IN  /\ held' = [held EXCEPT ![c] = IF raises THEN Eof ELSE Head(inbox[c])]
               /\ reader' = [reader EXCEPT ![c] = IF raises THEN "done" ELSE "put"]
     \/ /\ inbox[c] = << >> /\ peer[c] = "closed"
        /\ held' = [held EXCEPT ![c] = Eof]
        /\ reader' = [reader EXCEPT ![c] = "put"]
        /\ UNCHANGED inbox
  /\ UNCHANGED <<mainVars, peerVars, frames, threadVars>>

\* recv returns with a frame, or with the end of the stream.  The rest of a
\* frame that begins after the close, like an oversize frame, raises: the
\* reader puts None for it and ends.
ReaderReceive(c) ==
  /\ Alive /\ reader[c] = "recv"
  /\ \/ /\ inbox[c] # << >>
        /\ inbox' = [inbox EXCEPT ![c] = Tail(@)]
        /\ held' = [held EXCEPT ![c] =
                      IF thread[c] = "exited" \/ Head(inbox[c]).kind = "oversize"
                      THEN Eof ELSE Head(inbox[c])]
     \/ /\ inbox[c] = << >> /\ peer[c] = "closed"
        /\ held' = [held EXCEPT ![c] = Eof]
        /\ UNCHANGED inbox
  /\ reader' = [reader EXCEPT ![c] = "put"]
  /\ UNCHANGED <<mainVars, peerVars, frames, threadVars>>

\* Mutant: a full queue drops the frame (put_nowait).
ReaderPutNoWait(c) ==
  /\ Alive /\ reader[c] = "put"
  /\ frames' = [frames EXCEPT ![c] = IF Len(@) < QueueSize THEN Append(@, held[c]) ELSE @]
  /\ reader' = [reader EXCEPT ![c] = IF held[c] = Eof THEN "done" ELSE "loop"]
  /\ held' = [held EXCEPT ![c] = Eof]
  /\ UNCHANGED <<mainVars, peerVars, inbox, threadVars>>

ReaderPut(c) ==
  /\ Alive /\ reader[c] = "put"
  /\ Len(frames[c]) < QueueSize
  /\ frames' = [frames EXCEPT ![c] = Append(@, held[c])]
  /\ reader' = [reader EXCEPT ![c] = IF held[c] = Eof THEN "done" ELSE "loop"]
  /\ held' = [held EXCEPT ![c] = Eof]
  /\ UNCHANGED <<mainVars, peerVars, inbox, threadVars>>

-----------------------------------------------------------------------------
(* The processing thread of a connection.                                  *)

\* The next frame, and _process_frame up to the engine: a control frame is done
\* with that, and so is a request whose decoding raises, which is answered too.
Get(c) ==
  /\ Alive /\ thread[c] = "get"
  /\ frames[c] # << >>
  /\ frames' = [frames EXCEPT ![c] = Tail(@)]
  /\ current' = [current EXCEPT ![c] = Head(frames[c])]
  /\ LET kind == Head(frames[c]).kind
     IN  /\ \/ kind = "eof" /\ thread' = [thread EXCEPT ![c] = "exited"]
            \/ kind = "infer" /\ thread' = [thread EXCEPT ![c] = "lock"]
            \/ kind # "eof" /\ thread' = [thread EXCEPT ![c] = "send"]
         /\ shutdown' = (shutdown \/ kind = "shutdown")
  /\ UNCHANGED <<main, lock, backlog, peerVars, inbox, readerVars, replies>>

\* Mutant: a lock per connection.
AcquireOwnLock(c) ==
  /\ Alive /\ thread[c] = "lock"
  /\ c \notin lock
  /\ lock' = lock \cup {c}
  /\ thread' = [thread EXCEPT ![c] = "infer"]
  /\ UNCHANGED <<main, shutdown, backlog, peerVars, inbox, readerVars, frames, current,
                 replies>>

AcquireLock(c) ==
  /\ Alive /\ thread[c] = "lock"
  /\ lock = {}
  /\ lock' = {c}
  /\ thread' = [thread EXCEPT ![c] = "infer"]
  /\ UNCHANGED <<main, shutdown, backlog, peerVars, inbox, readerVars, frames, current,
                 replies>>

\* The engine returns or raises; both release the lock and are answered.
Infer(c) ==
  /\ Alive /\ thread[c] = "infer"
  /\ lock' = lock \ {c}
  /\ thread' = [thread EXCEPT ![c] = "send"]
  /\ UNCHANGED <<main, shutdown, backlog, peerVars, inbox, readerVars, frames, current,
                 replies>>

AfterSend == IF shutdown THEN "exited" ELSE "get"

\* Mutant: the answer goes out again when the first sendall was slow.
SendReplyTwice(c) ==
  /\ Alive /\ thread[c] = "send"
  /\ peer[c] = "open"
  /\ replies' = [replies EXCEPT ![c] = @ \o <<current[c].n, current[c].n>>]
  /\ thread' = [thread EXCEPT ![c] = AfterSend]
  /\ current' = [current EXCEPT ![c] = Eof]
  /\ UNCHANGED <<mainVars, peerVars, inbox, readerVars, frames>>

\* sendall to a peer that has gone raises, or the bytes vanish.
SendReply(c) ==
  /\ Alive /\ thread[c] = "send"
  /\ IF peer[c] = "open"
     THEN /\ replies' = [replies EXCEPT ![c] = Append(@, current[c].n)]
          /\ thread' = [thread EXCEPT ![c] = AfterSend]
     ELSE /\ thread' \in {[thread EXCEPT ![c] = s] : s \in {AfterSend, "exited"}}
          /\ UNCHANGED replies
  /\ current' = [current EXCEPT ![c] = Eof]
  /\ UNCHANGED <<mainVars, peerVars, inbox, readerVars, frames>>

-----------------------------------------------------------------------------
Peer(c)       == Connect(c) \/ Disconnect(c) \/ \E kind \in Kinds : SendFrame(c, kind)
Reader(c)     == ReaderCall(c) \/ ReaderReceive(c) \/ ReaderPut(c)
Processing(c) == Get(c) \/ AcquireLock(c) \/ Infer(c) \/ SendReply(c)
Main          == Accept \/ CheckShutdown \/ Exit

Next == Main \/ \E c \in Conns : Peer(c) \/ Reader(c) \/ Processing(c)

\* The threads of the worker are scheduled and the engine returns; a peer owes
\* nothing.
Fairness ==
  /\ WF_vars(Main)
  /\ \A c \in Conns : WF_vars(Reader(c)) /\ WF_vars(Processing(c))

Spec == Init /\ [][Next]_vars /\ Fairness

-----------------------------------------------------------------------------
TypeOK ==
  /\ main \in {"accept", "check", "closing", "exited"}
  /\ shutdown \in BOOLEAN
  /\ lock \in SUBSET Conns
  /\ backlog \in Seq(Conns)
  /\ peer \in [Conns -> {"none", "open", "closed"}]
  /\ sent \in [Conns -> Nat]
  /\ inbox \in [Conns -> Seq(Frame)]
  /\ reader \in [Conns -> {"none", "loop", "recv", "put", "done"}]
  /\ held \in [Conns -> Frame \cup {Eof}]
  /\ frames \in [Conns -> Seq(Frame \cup {Eof})]
  /\ \A c \in Conns : Len(frames[c]) <= QueueSize
  /\ thread \in [Conns -> {"none", "get", "lock", "infer", "send", "exited"}]
  /\ current \in [Conns -> Frame \cup {Eof}]
  /\ replies \in [Conns -> Seq(Nat)]

-----------------------------------------------------------------------------
(* Safety *)

\* The engine is never entered by the threads of two connections: its static
\* buffers and its RNG have no protection of their own (worker.py:329).
EngineExclusive ==
  /\ \A c \in Conns : thread[c] = "infer" <=> c \in lock
  /\ Cardinality(lock) <= 1

Numbers(s) == [i \in DOMAIN s |-> s[i].n]
One(item)  == IF item = Eof THEN << >> ELSE <<item.n>>

\* Everything sent on a connection, from the oldest answer to the youngest
\* byte in the socket.
Pipeline(c) ==
  replies[c] \o One(current[c]) \o Numbers(frames[c]) \o One(held[c]) \o Numbers(inbox[c])

\* As long as both ends of a connection are there, every frame sent on it is
\* answered or somewhere between socket and engine, once, in order: neither the
\* bounded queue nor the hand-over between the two threads loses, repeats or
\* reorders a frame (worker.py:406-434).
NoFrameLost ==
  \A c \in Conns :
    /\ peer[c] = "open" /\ thread[c] # "exited"
    /\ reader[c] # "done" /\ ~(reader[c] = "put" /\ held[c] = Eof)
    => Pipeline(c) = [i \in 1 .. sent[c] |-> i]

-----------------------------------------------------------------------------
(* Liveness *)

\* A pipelined frame in the queue of a thread that a shutdown has ended.
Stranded(c) == thread[c] = "exited" /\ \E i \in DOMAIN frames[c] : frames[c][i] # Eof

\* A frame is answered unless its peer leaves; if it is not, the peer sees the
\* connection end, although the close in the processing thread alone does not
\* reach it.  The one exception are frames a peer sent ahead of the answer it
\* waits for when the worker is shut down.
EveryFrameSettled ==
  \A c \in Conns :
    Len(replies[c]) < sent[c]
      ~> \/ Len(replies[c]) = sent[c] \/ PeerEof(c) \/ peer[c] = "closed"
         \/ Stranded(c)

\* A requested shutdown takes effect when one more connection is made: the main
\* thread sits in accept and reads the flag only after it.
ShutdownCompletes == shutdown /\ backlog # << >> ~> main = "exited"

-----------------------------------------------------------------------------
(* Refinement: to its peers the server is a FIFO per connection. *)

Service == INSTANCE ConnService
             WITH ended <- [c \in Conns |-> ~Alive \/ thread[c] = "exited"]
ImplementsConnService == Service!Spec
=============================================================================
