------------------------------ MODULE WorkerIpc ------------------------------
(***************************************************************************)
(* The Python gateway's WorkerClient (tybok/gateway.py) talking to the     *)
(* inference worker (tybok/worker.py) over one persistent connection, with *)
(* the payload of a request in a slot of a shared ring: --shm-ipc or       *)
(* --gpu-ipc.  The default transport, with the payload in the frame, is    *)
(* WorkerStream.                                                           *)
(*                                                                         *)
(* A task is one _handle_one coroutine; Tasks is as large as the messages  *)
(* all client connections may have in flight together (connections x       *)
(* --max-inflight), and a task is reused for the next message.  A request  *)
(* is identified by the value of the ring counter when it took its slot:   *)
(* the uuid the code draws is unique too.  The payload written into a slot *)
(* is named by the request it belongs to.  The frame is a header alone     *)
(* (protocol.py:117-142, 195-241), some hundred bytes, with the leftover   *)
(* of --rtc some thousand: less than a socket buffer holds, so that the    *)
(* first call of sock_sendall takes it whole and sending it is one step.   *)
(* So is reading a reply that came in one piece, as over a Unix socket.    *)
(* What happens to frames that are cut off is in WorkerStream, too.  The   *)
(* worker's side of a connection is a FIFO server (WorkerServer refines    *)
(* that, see ConnService).                                                 *)
(*                                                                         *)
(* The ring stands for the shared memory slots and for the keep-alive ring *)
(* of --gpu-ipc: both take slot counter % slots before the lock and drop   *)
(* what the slot held.                                                     *)
(***************************************************************************)
EXTENDS Integers, Sequences, FiniteSets

CONSTANTS
  Tasks,        \* the request coroutines that may be alive together
  Slots,        \* depth of the ring
  MaxRequests,  \* bound: requests issued in a behaviour
  MaxAttempts,  \* attempts of one roundtrip, 3 in the code
  MaxConns,     \* bound: connections opened in a behaviour
  MaxFaults,    \* bound: crashes of the worker and losses of a connection
  MaxCancels    \* bound: tasks cancelled by the teardown of their client

ASSUME TasksAssumption == IsFiniteSet(Tasks)
ASSUME BoundsAssumption ==
  /\ Slots \in Nat \ {0}
  /\ MaxAttempts \in Nat \ {0}
  /\ MaxRequests \in Nat
  /\ MaxConns \in Nat
  /\ MaxFaults \in Nat
  /\ MaxCancels \in Nat

VARIABLES
  counter,    \* WorkerClient._shm_counter: requests that took a slot so far
  region,     \* slot -> the request whose payload was written there last
  pc,         \* task -> "idle", "wait" (lock asked for or held), "recv"
  cur,        \* task -> its current or last request
  attempts,   \* task -> failed attempts of its roundtrip
  outcome,    \* task -> how its last request ended
  answer,     \* task -> the response handed to it, if any
  waiters,    \* the FIFO asyncio.Lock: its holder, then who waits for it
  sock,       \* WorkerClient._sock: the connection in use, 0 for None
  nconn,      \* connections opened so far
  link,       \* connection -> "none", "open", "broken"
  pending,    \* connection -> requests sent and not executed, in order
  replies,    \* connection -> responses not yet read by the gateway
  workerUp,   \* the worker process accepts connections
  execs,      \* request -> how often the engine ran it
  faults, cancels

ringVars   == <<counter, region>>
taskVars   == <<pc, cur, attempts, outcome, answer, waiters>>
connVars   == <<sock, nconn, link, pending, replies>>
workerVars == <<workerUp, execs>>
vars == <<ringVars, taskVars, connVars, workerVars, faults, cancels>>

NoRequest == -1
NoAnswer  == [id |-> NoRequest, data |-> NoRequest]
Requests  == 0 .. MaxRequests - 1
Conns     == 1 .. MaxConns
Reply     == [id : Requests, data : Requests \cup {NoRequest}]

\* Mutant: a ring one slot short.
SlotOfShort(id) == id % (Slots - 1)

SlotOf(id) == id % Slots

Init ==
  /\ counter = 0
  /\ region = [s \in 0 .. Slots - 1 |-> NoRequest]
  /\ pc = [t \in Tasks |-> "idle"]
  /\ cur = [t \in Tasks |-> NoRequest]
  /\ attempts = [t \in Tasks |-> 0]
  /\ outcome = [t \in Tasks |-> "none"]
  /\ answer = [t \in Tasks |-> NoAnswer]
  /\ waiters = << >>
  /\ sock = 0
  /\ nconn = 0
  /\ link = [k \in Conns |-> "none"]
  /\ pending = [k \in Conns |-> << >>]
  /\ replies = [k \in Conns |-> << >>]
  /\ workerUp = TRUE
  /\ execs = [r \in Requests |-> 0]
  /\ faults = 0
  /\ cancels = 0

-----------------------------------------------------------------------------
(* WorkerClient.request: the slot is taken and written before the lock is  *)
(* asked for, with no await between the two.                               *)

\* Mutant: a new request is served before those that ask for the lock already.
RequestOvertakes(t) ==
  /\ pc[t] = "idle"
  /\ counter < MaxRequests
  /\ region' = [region EXCEPT ![SlotOf(counter)] = counter]
  /\ counter' = counter + 1
  /\ cur' = [cur EXCEPT ![t] = counter]
  /\ pc' = [pc EXCEPT ![t] = "wait"]
  /\ attempts' = [attempts EXCEPT ![t] = 0]
  /\ outcome' = [outcome EXCEPT ![t] = "none"]
  /\ answer' = [answer EXCEPT ![t] = NoAnswer]
  /\ waiters' = <<t>> \o waiters
  /\ UNCHANGED <<connVars, workerVars, faults, cancels>>

Request(t) ==
  /\ pc[t] = "idle"
  /\ counter < MaxRequests
  /\ region' = [region EXCEPT ![SlotOf(counter)] = counter]
  /\ counter' = counter + 1
  /\ cur' = [cur EXCEPT ![t] = counter]
  /\ pc' = [pc EXCEPT ![t] = "wait"]
  /\ attempts' = [attempts EXCEPT ![t] = 0]
  /\ outcome' = [outcome EXCEPT ![t] = "none"]
  /\ answer' = [answer EXCEPT ![t] = NoAnswer]
  /\ waiters' = Append(waiters, t)
  /\ UNCHANGED <<connVars, workerVars, faults, cancels>>

-----------------------------------------------------------------------------
(* WorkerClient._roundtrip, run by the task at the head of the lock.       *)

Holds(t) == waiters # << >> /\ Head(waiters) = t

Connect(t) ==
  /\ Holds(t) /\ pc[t] = "wait"
  /\ sock = 0 /\ workerUp /\ nconn < MaxConns
  /\ nconn' = nconn + 1
  /\ sock' = nconn + 1
  /\ link' = [link EXCEPT ![nconn + 1] = "open"]
  /\ UNCHANGED <<ringVars, taskVars, pending, replies, workerVars, faults, cancels>>

Send(t) ==
  /\ Holds(t) /\ pc[t] = "wait"
  /\ sock # 0 /\ link[sock] = "open"
  /\ pending' = [pending EXCEPT ![sock] = Append(@, cur[t])]
  /\ pc' = [pc EXCEPT ![t] = "recv"]
  /\ UNCHANGED <<ringVars, cur, attempts, outcome, answer, waiters, sock, nconn,
                 link, replies, workerVars, faults, cancels>>

\* Mutant: the lock is not released.
LeaveLocked(t, o, a) ==
  /\ waiters' = waiters
  /\ pc' = [pc EXCEPT ![t] = "idle"]
  /\ outcome' = [outcome EXCEPT ![t] = o]
  /\ answer' = [answer EXCEPT ![t] = a]

\* The task leaves the lock with outcome o and response a.
Leave(t, o, a) ==
  /\ waiters' = Tail(waiters)
  /\ pc' = [pc EXCEPT ![t] = "idle"]
  /\ outcome' = [outcome EXCEPT ![t] = o]
  /\ answer' = [answer EXCEPT ![t] = a]

\* Mutant: the id of the response is not compared.
RecvUnchecked(t) ==
  /\ Holds(t) /\ pc[t] = "recv"
  /\ replies[sock] # << >>
  /\ Leave(t, "ok", Head(replies[sock]))
  /\ replies' = [replies EXCEPT ![sock] = Tail(@)]
  /\ UNCHANGED <<ringVars, cur, attempts, sock, nconn, link, pending, workerVars,
                 faults, cancels>>

\* A response with another id is a RuntimeError, which the except clause of the
\* attempt does not catch: the socket stays.
Recv(t) ==
  /\ Holds(t) /\ pc[t] = "recv"
  /\ replies[sock] # << >>
  /\ LET reply == Head(replies[sock])
     IN  IF reply.id = cur[t] THEN Leave(t, "ok", reply)
                              ELSE Leave(t, "error", NoAnswer)
  /\ replies' = [replies EXCEPT ![sock] = Tail(@)]
  /\ UNCHANGED <<ringVars, cur, attempts, sock, nconn, link, pending, workerVars,
                 faults, cancels>>

\* What connect, send or read find: refused, reset, or end of file.
AttemptBroken(t) ==
  \/ sock = 0 /\ ~workerUp
  \/ sock # 0 /\ link[sock] = "broken" /\ (pc[t] # "recv" \/ replies[sock] = << >>)

\* Mutant: attempts not counted.

AttemptFailsUncounted(t) ==
  /\ Holds(t) /\ pc[t] # "idle"
  /\ AttemptBroken(t)
  /\ sock' = 0
  /\ pc' = [pc EXCEPT ![t] = "wait"]
  /\ UNCHANGED <<ringVars, cur, attempts, outcome, answer, waiters, nconn, link, pending,
                 replies, workerVars, faults, cancels>>

AttemptFails(t) ==
  /\ Holds(t) /\ pc[t] # "idle"
  /\ AttemptBroken(t)
  /\ sock' = 0
  /\ attempts' = [attempts EXCEPT ![t] = @ + 1]
  /\ IF attempts[t] + 1 = MaxAttempts
     THEN Leave(t, "error", NoAnswer)
     ELSE /\ pc' = [pc EXCEPT ![t] = "wait"]
          /\ UNCHANGED <<waiters, outcome, answer>>
  /\ UNCHANGED <<ringVars, cur, nconn, link, pending, replies, workerVars, faults, cancels>>

\* handle_ws cancels the tasks of a client it gives up on; CancelledError is
\* not an OSError, so the lock is released and the socket left as it is.
Withdraw(t) ==
  /\ cancels < MaxCancels
  /\ cancels' = cancels + 1
  /\ \E i \in 1 .. Len(waiters) :
       /\ waiters[i] = t
       /\ waiters' = SubSeq(waiters, 1, i - 1) \o SubSeq(waiters, i + 1, Len(waiters))
  /\ pc' = [pc EXCEPT ![t] = "idle"]
  /\ outcome' = [outcome EXCEPT ![t] = "cancelled"]
  /\ UNCHANGED <<ringVars, cur, attempts, answer, workerVars, faults>>

Cancel(t) ==
  /\ pc[t] \in {"wait", "recv"}
  /\ Withdraw(t)
  /\ UNCHANGED connVars

-----------------------------------------------------------------------------
(* The worker: handle_frame reads the slot the header names, runs the      *)
(* engine under its lock, and answers.  A reply to a connection that broke *)
(* ends its thread, and the frames it still had are dropped.               *)

Execute(k) ==
  /\ workerUp
  /\ pending[k] # << >>
  /\ LET id == Head(pending[k])
     IN  /\ execs' = [execs EXCEPT ![id] = @ + 1]
         /\ IF link[k] = "open"
            THEN /\ pending' = [pending EXCEPT ![k] = Tail(@)]
                 /\ replies' = [replies EXCEPT ![k] =
                                  Append(@, [id |-> id, data |-> region[SlotOf(id)]])]
            ELSE /\ pending' = [pending EXCEPT ![k] = << >>]
                 /\ UNCHANGED replies
  /\ UNCHANGED <<ringVars, taskVars, sock, nconn, link, workerUp, faults, cancels>>

-----------------------------------------------------------------------------
(* Faults.  What was in flight when a connection breaks may be lost.       *)

BreakLink(k) ==
  /\ faults < MaxFaults
  /\ link[k] = "open"
  /\ faults' = faults + 1
  /\ link' = [link EXCEPT ![k] = "broken"]
  /\ \E p \in {pending[k], << >>} : pending' = [pending EXCEPT ![k] = p]
  /\ \E r \in {replies[k], << >>} : replies' = [replies EXCEPT ![k] = r]
  /\ UNCHANGED <<ringVars, taskVars, sock, nconn, workerVars, cancels>>

Crash ==
  /\ faults < MaxFaults
  /\ workerUp
  /\ faults' = faults + 1
  /\ workerUp' = FALSE
  /\ link' = [k \in Conns |-> IF link[k] = "none" THEN "none" ELSE "broken"]
  /\ pending' = [k \in Conns |-> << >>]
  /\ replies' \in {replies, [k \in Conns |-> << >>]}
  /\ UNCHANGED <<ringVars, taskVars, sock, nconn, execs, cancels>>

Restart ==
  /\ ~workerUp
  /\ workerUp' = TRUE
  /\ UNCHANGED <<ringVars, taskVars, connVars, execs, faults, cancels>>

-----------------------------------------------------------------------------
Roundtrip(t) == Connect(t) \/ Send(t) \/ Recv(t) \/ AttemptFails(t)

Next ==
  \/ \E t \in Tasks : Request(t) \/ Roundtrip(t) \/ Cancel(t)
  \/ \E k \in Conns : Execute(k) \/ BreakLink(k)
  \/ Crash
  \/ Restart

Fairness ==
  /\ \A t \in Tasks : WF_vars(Roundtrip(t))
  /\ \A k \in Conns : WF_vars(Execute(k))

Spec == Init /\ [][Next]_vars /\ Fairness

-----------------------------------------------------------------------------
TypeOK ==
  /\ counter \in 0 .. MaxRequests
  /\ region \in [0 .. Slots - 1 -> Requests \cup {NoRequest}]
  /\ pc \in [Tasks -> {"idle", "wait", "recv"}]
  /\ cur \in [Tasks -> Requests \cup {NoRequest}]
  /\ attempts \in [Tasks -> 0 .. MaxAttempts]
  /\ outcome \in [Tasks -> {"none", "ok", "error", "cancelled"}]
  /\ answer \in [Tasks -> Reply \cup {NoAnswer}]
  /\ waiters \in Seq(Tasks)
  /\ sock \in 0 .. nconn
  /\ nconn \in 0 .. MaxConns
  /\ link \in [Conns -> {"none", "open", "broken"}]
  /\ pending \in [Conns -> Seq(Requests)]
  /\ replies \in [Conns -> Seq(Reply)]
  /\ workerUp \in BOOLEAN
  /\ execs \in [Requests -> Nat]
  /\ faults \in 0 .. MaxFaults
  /\ cancels \in 0 .. MaxCancels

-----------------------------------------------------------------------------
(* Safety *)

\* A request that ended well was handed the response to itself, although
\* abandoned and repeated requests leave responses of others on the connection
\* (gateway.py:130).
AnswerOwn == \A t \in Tasks : outcome[t] = "ok" => answer[t].id = cur[t]

\* The engine saw the payload of the request it answered: no slot was
\* rewritten between the write at gateway.py:192-203 and the read in
\* worker.py:276: "a slot written for request N is never read again by the time N+8 is
\* written" (worker.py:66).
AnswerIntact == \A t \in Tasks : outcome[t] = "ok" => answer[t].data = cur[t]

\* It holds while no task is cancelled and the tasks that may be in flight
\* together are no more than the slots: the lock is FIFO, so a slot taken after
\* mine belongs to a task still behind me.
PayloadOwn == cancels = 0 /\ Cardinality(Tasks) <= Slots => AnswerIntact

\* The engine runs a request again only for a failed attempt: retries are at
\* least once, and each repetition is paid by one of the at most three attempts.
ExecBound ==
  \A t \in Tasks : cur[t] # NoRequest =>
    /\ execs[cur[t]] <= attempts[t] + 1
    /\ execs[cur[t]] <= MaxAttempts

-----------------------------------------------------------------------------
(* Action properties *)

\* When a task is answered, every task still waiting took its slot later: the
\* lock keeps the order of the ring (gateway.py:374).
ServedInTicketOrder ==
  [][\A t \in Tasks : outcome'[t] = "ok" /\ outcome[t] # "ok" =>
       \A u \in Tasks \ {t} : pc[u] # "idle" => cur[t] < cur[u]]_vars

\* "a failed roundtrip closes and reconnects the socket" (gateway.py:76).
FailedRoundtripCloses ==
  [][\A t \in Tasks : pc[t] = "recv" /\ pc'[t] = "idle" /\ outcome'[t] = "error"
       => sock' = 0]_vars

-----------------------------------------------------------------------------
(* Liveness *)

\* Every request ends, with a response or an error, whatever the worker and the
\* connection do: a roundtrip waits only for a live worker, and gives up after three
\* attempts.  Restricted to frames that are sent in one step: with the payload in the
\* frame it is false (WorkerTransports, EveryRequestEnds).
Termination == \A t \in Tasks : pc[t] # "idle" ~> pc[t] = "idle"
=============================================================================
