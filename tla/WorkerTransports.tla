-------------------------- MODULE WorkerTransports --------------------------
(***************************************************************************)
(* The worker client over both transports.  The options of the gateway     *)
(* decide once: the payload goes through a ring (--shm-ipc, --gpu-ipc) and *)
(* the steps are those of WorkerIpc, or in the frame and they are those of *)
(* WorkerStream.                                                           *)
(***************************************************************************)
EXTENDS WorkerStream

CONSTANT MaxTroubles   \* bound: faults and cancellations together

ASSUME TroublesAssumption == MaxTroubles \in Nat

VARIABLE transport     \* "ring" or "frame"

ipcVars == <<allVars, transport>>

IpcInit == StreamInit /\ transport \in {"ring", "frame"}

OverRing(step)  == transport = "ring" /\ step /\ UNCHANGED streamVars
OverFrame(step) == transport = "frame" /\ step

IpcNext ==
  /\ OverRing(Next) \/ OverFrame(StreamNext)
  /\ faults' + cancels' <= MaxTroubles
  /\ UNCHANGED transport

IpcFairness ==
  /\ \A t \in Tasks : WF_ipcVars(/\ OverRing(Roundtrip(t)) \/ OverFrame(StreamRoundtrip(t))
                                 /\ UNCHANGED transport)
  /\ \A k \in Conns : WF_ipcVars(/\ OverRing(Execute(k)) \/ OverFrame(Serves(k))
                                 /\ UNCHANGED transport)

IpcSpec == IpcInit /\ [][IpcNext]_ipcVars /\ IpcFairness

-----------------------------------------------------------------------------
(* Safety *)

\* The answer handed out was computed from the request's own payload.  With a ring that
\* needs PayloadOwn's precondition; with the payload in the frame nothing, whatever was
\* cut off, swallowed or run with the bytes of two requests in it (gateway.py:130, 204-207).
PayloadsKept == transport = "frame" \/ (cancels = 0 /\ Cardinality(Tasks) <= Slots) => AnswerIntact

-----------------------------------------------------------------------------
(* Liveness *)

\* Every request ends, with a response or an error, whatever the worker and the connection
\* do: a roundtrip waits only for a live worker, and gives up after three attempts.  Over
\* the default transport the connection in use may instead stay desynchronised for ever,
\* and then the lock with it; the framing may also recover, by a length that is refused
\* or by a connection that breaks, and then nothing keeps the lock.
EveryRequestEnds ==
  \A t \in Tasks :
    pc[t] # "idle" ~> (pc[t] = "idle" \/ (transport = "frame" /\ []Desynchronised))
=============================================================================
