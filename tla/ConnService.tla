----------------------------- MODULE ConnService -----------------------------
(***************************************************************************)
(* What the inference worker promises to each connection: the frames that  *)
(* came in are answered one by one in the order they were sent, none       *)
(* twice and none skipped, until the connection ends; after that nothing   *)
(* is answered.  WorkerServer implements it; WorkerIpc models the worker's *)
(* side of a connection by this FIFO.                                      *)
(***************************************************************************)
EXTENDS Naturals, Sequences

CONSTANT Conns

VARIABLES
  sent,      \* connection -> frames the peer has sent on it
  replies,   \* connection -> the frames answered, in the order of the answers
  ended      \* connection -> the worker serves it no more

vars == <<sent, replies, ended>>

Init ==
  /\ sent = [c \in Conns |-> 0]
  /\ replies = [c \in Conns |-> << >>]
  /\ ended = [c \in Conns |-> FALSE]

Send(c) ==
  /\ sent' = [sent EXCEPT ![c] = @ + 1]
  /\ UNCHANGED <<replies, ended>>

Answer(c) ==
  /\ ~ended[c]
  /\ Len(replies[c]) < sent[c]
  /\ replies' = [replies EXCEPT ![c] = Append(@, Len(@) + 1)]
  /\ UNCHANGED <<sent, ended>>

\* The last answer of a connection may end it in the same step.
AnswerAndEnd(c) ==
  /\ ~ended[c]
  /\ Len(replies[c]) < sent[c]
  /\ replies' = [replies EXCEPT ![c] = Append(@, Len(@) + 1)]
  /\ ended' = [ended EXCEPT ![c] = TRUE]
  /\ UNCHANGED sent

\* One connection ends, or all of them with the process.
End ==
  /\ \E S \in SUBSET Conns :
       ended' = [c \in Conns |-> ended[c] \/ c \in S]
  /\ UNCHANGED <<sent, replies>>

Next == (\E c \in Conns : Send(c) \/ Answer(c) \/ AnswerAndEnd(c)) \/ End

Spec == Init /\ [][Next]_vars
=============================================================================
