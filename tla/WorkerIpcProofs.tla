--------------------------- MODULE WorkerIpcProofs ---------------------------
(***************************************************************************)
(* What WorkerIpc promises for every number of tasks, slots, requests,     *)
(* connections and faults.  LockInv (the lock) carries the types; RingInv, *)
(* PendingInv, ReplyInv and TicketInv relate the ring to the order of the  *)
(* lock, and together give PayloadOwn.  PaidInv counts what stands on the  *)
(* connections against the attempts of each roundtrip and gives ExecBound. *)
(* The last section is about WorkerStream: what a request that was cut off *)
(* leaves on the connection belongs to no task at work (Over, Sound).      *)
(***************************************************************************)
EXTENDS WorkerTransports, FiniteSetTheorems, SequenceTheorems, TLAPS

-----------------------------------------------------------------------------
(* Lemmas about sequences and remainders.                                  *)

\* A sequence without its i-th element.
LEMMA RemoveAt ==
  ASSUME NEW S, NEW s \in Seq(S), NEW i \in 1 .. Len(s)
  PROVE  LET r == SubSeq(s, 1, i - 1) \o SubSeq(s, i + 1, Len(s))
         IN  /\ r \in Seq(S)
             /\ Len(r) = Len(s) - 1
             /\ \A j \in 1 .. Len(r) : r[j] = IF j < i THEN s[j] ELSE s[j + 1]
<1> DEFINE a == SubSeq(s, 1, i - 1)
           b == SubSeq(s, i + 1, Len(s))
<1>1. Len(s) \in Nat /\ i \in Int /\ \A j \in 1 .. Len(s) : s[j] \in S
  BY ElementOfSeq, LenProperties
<1>2. /\ a \in Seq(S) /\ Len(a) = i - 1
      /\ \A j \in 1 .. i - 1 : a[j] = s[j]
  <2>1. \A j \in 1 .. i - 1 : s[j] \in S
    BY <1>1
  <2>2. /\ a \in Seq(S) /\ Len(a) = IF 1 <= i - 1 THEN i - 1 - 1 + 1 ELSE 0
        /\ \A j \in 1 .. (i - 1) - 1 + 1 : a[j] = s[1 + j - 1]
    BY <1>1, <2>1, SubSeqProperties
  <2> QED BY <1>1, <2>2
<1>3. /\ b \in Seq(S) /\ Len(b) = Len(s) - i
      /\ \A j \in 1 .. Len(s) - i : b[j] = s[i + j]
  <2>1. \A j \in i + 1 .. Len(s) : s[j] \in S
    BY <1>1
  <2>2. /\ b \in Seq(S) /\ Len(b) = IF i + 1 <= Len(s) THEN Len(s) - (i + 1) + 1 ELSE 0
        /\ \A j \in 1 .. Len(s) - (i + 1) + 1 : b[j] = s[(i + 1) + j - 1]
    BY <1>1, <2>1, SubSeqProperties
  <2> QED BY <1>1, <2>2
<1> HIDE DEF a, b
<1>4. /\ a \o b \in Seq(S) /\ Len(a \o b) = Len(a) + Len(b)
      /\ \A j \in 1 .. Len(a) + Len(b) :
           (a \o b)[j] = IF j <= Len(a) THEN a[j] ELSE b[j - Len(a)]
  BY <1>2, <1>3, ConcatProperties
<1>5. Len(a \o b) = Len(s) - 1
  BY <1>1, <1>2, <1>3, <1>4
<1>6. ASSUME NEW j \in 1 .. Len(s) - 1
      PROVE  (a \o b)[j] = IF j < i THEN s[j] ELSE s[j + 1]
  <2>1. (a \o b)[j] = IF j <= i - 1 THEN a[j] ELSE b[j - (i - 1)]
    BY <1>1, <1>2, <1>3, <1>4
  <2>2. CASE j < i
    BY <1>1, <1>2, <2>1, <2>2
  <2>3. CASE ~(j < i)
    <3>1. j - (i - 1) \in 1 .. Len(s) - i
      BY <1>1, <2>3
    <3> QED BY <1>1, <1>3, <2>1, <2>3, <3>1
  <2> QED BY <2>2, <2>3
<1> QED BY <1>4, <1>5, <1>6 DEF a, b

\* Appending an element.
LEMMA AppendLast ==
  ASSUME NEW S, NEW s \in Seq(S), NEW e \in S
  PROVE  /\ Append(s, e) \in Seq(S)
         /\ Len(Append(s, e)) = Len(s) + 1
         /\ \A j \in 1 .. Len(s) : Append(s, e)[j] = s[j]
         /\ Append(s, e)[Len(s) + 1] = e
OBVIOUS

\* Two requests less than n apart never share a slot of a ring of n.
LEMMA ModInjective ==
  ASSUME NEW n \in Nat \ {0}, NEW a \in Nat, NEW b \in Nat, a < b, b - a < n
  PROVE  a % n # b % n
<1>1. a = n * (a \div n) + (a % n) /\ b = n * (b \div n) + (b % n)
  OBVIOUS
<1>2. (a \div n) \in Int /\ (b \div n) \in Int /\ a % n \in Int /\ b % n \in Int
  OBVIOUS
<1>3. SUFFICES ASSUME a % n = b % n PROVE FALSE
  OBVIOUS
<1> DEFINE q == (b \div n) - (a \div n)
<1>4. b - a = n * q /\ q \in Int
  BY <1>1, <1>2, <1>3
<1> HIDE DEF q
<1>5. q >= 1
  BY <1>4
<1>6. n * q >= n
  BY <1>5, <1>4
<1> QED BY <1>4, <1>6

\* A sequence without repetition is no longer than the set it draws from.
LEMMA DistinctLen ==
  ASSUME NEW S, IsFiniteSet(S), NEW s \in Seq(S),
         \A i, j \in 1 .. Len(s) : s[i] = s[j] => i = j
  PROVE  Len(s) <= Cardinality(S)
<1>1. Len(s) \in Nat /\ s \in [1 .. Len(s) -> S]
  BY LenProperties
<1>2. s \in Injection(1 .. Len(s), S)
  BY <1>1 DEF Injection, IsInjective
<1>3. Cardinality(1 .. Len(s)) <= Cardinality(S)
  BY <1>2, FS_Injection
<1>4. Cardinality(1 .. Len(s)) = Len(s)
  BY <1>1, FS_Interval
<1> QED BY <1>3, <1>4
-----------------------------------------------------------------------------
(* The lock.                                                               *)

\* Nobody stands in the lock twice; exactly the tasks at work stand in it; a
\* task at work has a request and attempts left; only the holder waits for a
\* response, on a connection.
LockDistinct == \A i, j \in 1 .. Len(waiters) : waiters[i] = waiters[j] => i = j
LockBusy     == \A t \in Tasks : pc[t] # "idle" <=> \E i \in 1 .. Len(waiters) : waiters[i] = t
LockWork     == \A t \in Tasks : pc[t] # "idle" => attempts[t] < MaxAttempts /\ cur[t] \in Requests
LockRecv     == \A t \in Tasks : pc[t] = "recv" => waiters[1] = t /\ sock \in Conns

LockInv == TypeOK /\ LockDistinct /\ LockBusy /\ LockWork /\ LockRecv

\* The holder of the lock is at work, and is the first of the sequence.
LEMMA HolderFirst ==
  ASSUME LockInv, NEW t \in Tasks, Holds(t)
  PROVE  /\ waiters # << >> /\ waiters[1] = t /\ Len(waiters) >= 1
         /\ pc[t] # "idle"
         /\ attempts[t] < MaxAttempts /\ cur[t] \in Requests
<1>1. waiters \in Seq(Tasks) /\ waiters # << >> /\ Head(waiters) = t
  BY DEF LockInv, TypeOK, Holds
<1>2. Len(waiters) \in Nat /\ Len(waiters) >= 1 /\ waiters[1] = t
  BY <1>1
<1> QED BY <1>1, <1>2 DEF LockInv, LockBusy, LockWork

\* Taking the i-th task out of the lock and making it idle keeps the lock sound.
LEMMA LeaveLock ==
  ASSUME LockInv, NEW i \in 1 .. Len(waiters),
         waiters' \in Seq(Tasks),
         Len(waiters') = Len(waiters) - 1,
         \A j \in 1 .. Len(waiters') : waiters'[j] = IF j < i THEN waiters[j] ELSE waiters[j + 1],
         pc' = [pc EXCEPT ![waiters[i]] = "idle"],
         cur' = cur, sock' = sock \/ i = 1,
         \A u \in Tasks : u # waiters[i] => attempts'[u] = attempts[u]
  PROVE  LockDistinct' /\ LockBusy' /\ LockWork' /\ LockRecv'
<1> DEFINE t == waiters[i]
<1>1. Len(waiters) \in Nat /\ waiters \in Seq(Tasks) /\ t \in Tasks /\ pc \in [Tasks -> {"idle", "wait", "recv"}]
  BY ElementOfSeq DEF LockInv, TypeOK
<1>2. LockDistinct'
  <2> SUFFICES ASSUME NEW m \in 1 .. Len(waiters'), NEW n \in 1 .. Len(waiters'),
                      waiters'[m] = waiters'[n]
               PROVE  m = n
    BY DEF LockDistinct
  <2>1. /\ m \in 1 .. Len(waiters) /\ m + 1 \in 1 .. Len(waiters)
        /\ n \in 1 .. Len(waiters) /\ n + 1 \in 1 .. Len(waiters)
    BY <1>1
  <2>2. (IF m < i THEN waiters[m] ELSE waiters[m + 1])
          = IF n < i THEN waiters[n] ELSE waiters[n + 1]
    OBVIOUS
  <2> QED BY <1>1, <2>1, <2>2 DEF LockInv, LockDistinct
<1>3. ASSUME NEW u \in Tasks
      PROVE  (pc'[u] # "idle") <=> \E j \in 1 .. Len(waiters') : waiters'[j] = u
  <2>1. CASE u = t
    <3>1. pc'[u] = "idle"
      BY <1>1, <2>1
    <3>2. \A j \in 1 .. Len(waiters') : waiters'[j] # t
      BY <1>1 DEF LockInv, LockDistinct
    <3> QED BY <2>1, <3>1, <3>2
  <2>2. CASE u # t
    <3>1. pc'[u] = pc[u]
      BY <1>1, <2>2
    <3>2. ASSUME NEW j \in 1 .. Len(waiters), waiters[j] = u
          PROVE  \E m \in 1 .. Len(waiters') : waiters'[m] = u
      <4>1. j # i
        BY <2>2, <3>2
      <4>2. CASE j < i
        BY <1>1, <3>2, <4>2
      <4>3. CASE j > i
        <5>1. j - 1 \in 1 .. Len(waiters') /\ ~(j - 1 < i) /\ (j - 1) + 1 = j
          BY <1>1, <4>3
        <5> QED BY <3>2, <5>1
      <4> QED BY <4>1, <4>2, <4>3
    <3>3. ASSUME NEW m \in 1 .. Len(waiters'), waiters'[m] = u
          PROVE  \E j \in 1 .. Len(waiters) : waiters[j] = u
      <4>1. m \in 1 .. Len(waiters) /\ m + 1 \in 1 .. Len(waiters)
        BY <1>1
      <4> QED BY <3>3, <4>1
    <3>4. pc[u] # "idle" <=> \E j \in 1 .. Len(waiters) : waiters[j] = u
      BY DEF LockInv, LockBusy
    <3> QED BY <3>1, <3>2, <3>3, <3>4
  <2> QED BY <2>1, <2>2
<1>4. LockBusy'
  BY <1>3 DEF LockBusy
<1>5. LockWork'
  BY <1>1 DEF LockInv, LockWork
<1>6. LockRecv'
  <2>1. \A u \in Tasks : pc'[u] = "recv" => u # t /\ pc[u] = "recv" /\ waiters[1] = u
    BY <1>1 DEF LockInv, LockRecv
  <2>2. i # 1 => Len(waiters') >= 1 /\ waiters'[1] = waiters[1]
    BY <1>1
  <2> QED BY <2>1, <2>2 DEF LockInv, LockRecv
<1> QED BY <1>2, <1>4, <1>5, <1>6

\* The same for the holder, which leaves with an outcome.
LEMMA LeaveFirst ==
  ASSUME LockInv, NEW t \in Tasks, Holds(t), NEW o, NEW a, Leave(t, o, a),
         cur' = cur, \A u \in Tasks : u # t => attempts'[u] = attempts[u]
  PROVE  /\ waiters' \in Seq(Tasks)
         /\ Len(waiters') = Len(waiters) - 1
         /\ \A j \in 1 .. Len(waiters') : waiters'[j] = waiters[j + 1]
         /\ LockDistinct' /\ LockBusy' /\ LockWork' /\ LockRecv'
<1>1. waiters \in Seq(Tasks) /\ waiters # << >> /\ waiters[1] = t /\ 1 \in 1 .. Len(waiters)
  BY HolderFirst DEF LockInv, TypeOK
<1>2. waiters' = Tail(waiters) /\ pc' = [pc EXCEPT ![t] = "idle"]
  BY DEF Leave
<1>3. /\ waiters' \in Seq(Tasks) /\ Len(waiters') = Len(waiters) - 1
      /\ \A j \in 1 .. Len(waiters') : waiters'[j] = waiters[j + 1]
  BY <1>1, <1>2, HeadTailProperties
<1>4. Len(waiters') \in Nat
  BY <1>3
<1>5. \A j \in 1 .. Len(waiters') : waiters'[j] = IF j < 1 THEN waiters[j] ELSE waiters[j + 1]
  BY <1>3, <1>4
<1> QED BY <1>1, <1>2, <1>3, <1>5, LeaveLock

\* Every request has a slot of the ring.
LEMMA SlotType == \A id \in Nat : SlotOf(id) \in 0 .. Slots - 1
BY BoundsAssumption DEF SlotOf

\* The lock is free and every task idle at the start.
LEMMA LockInit == Init => LockInv
<1> SUFFICES ASSUME Init PROVE LockInv
  OBVIOUS
<1>1. TypeOK
  BY BoundsAssumption DEF Init, TypeOK, NoAnswer, NoRequest, Conns, Requests
<1>2. LockDistinct /\ LockBusy /\ LockWork /\ LockRecv
  BY DEF Init, LockDistinct, LockBusy, LockWork, LockRecv
<1> QED BY <1>1, <1>2 DEF LockInv

\* No step of a task, of the worker or of the environment breaks the lock.
LEMMA LockStep == LockInv /\ [Next]_vars => LockInv'
<1> SUFFICES ASSUME LockInv, [Next]_vars PROVE LockInv'
  OBVIOUS
<1> USE BoundsAssumption
<1>t. TypeOK /\ LockDistinct /\ LockBusy /\ LockWork /\ LockRecv
  BY DEF LockInv
<1>1. ASSUME NEW t \in Tasks, Request(t) PROVE LockInv'
  <2>0. /\ counter \in 0 .. MaxRequests /\ counter < MaxRequests
        /\ counter \in Requests /\ counter + 1 \in 0 .. MaxRequests
        /\ SlotOf(counter) \in 0 .. Slots - 1
    BY <1>1, <1>t, SlotType DEF Request, TypeOK, Requests
  <2>1. /\ waiters' \in Seq(Tasks) /\ Len(waiters') = Len(waiters) + 1
        /\ \A j \in 1 .. Len(waiters) : waiters'[j] = waiters[j]
        /\ waiters'[Len(waiters) + 1] = t
        /\ Len(waiters) \in Nat
    BY <1>1, <1>t, AppendLast DEF Request, TypeOK
  <2>2. TypeOK'
    BY <1>1, <1>t, <2>0, <2>1 DEF Request, TypeOK, connVars, workerVars
  <2>3. \A j \in 1 .. Len(waiters) : waiters[j] # t
    BY <1>1, <1>t DEF Request, LockBusy
  <2>4. LockDistinct'
    BY <1>t, <2>1, <2>3 DEF LockDistinct
  <2>5. LockBusy'
    <3>1. \A u \in Tasks : pc'[u] = IF u = t THEN "wait" ELSE pc[u]
      BY <1>1, <1>t DEF Request, TypeOK
    <3>2. \A u \in Tasks : (\E j \in 1 .. Len(waiters') : waiters'[j] = u)
                             <=> u = t \/ \E j \in 1 .. Len(waiters) : waiters[j] = u
      BY <2>1
    <3> QED BY <1>t, <3>1, <3>2 DEF LockBusy
  <2>6. LockWork'
    <3>1. \A u \in Tasks : u # t => /\ pc'[u] = pc[u] /\ cur'[u] = cur[u]
                                    /\ attempts'[u] = attempts[u]
      BY <1>1, <1>t DEF Request, TypeOK
    <3>2. cur'[t] \in Requests /\ attempts'[t] < MaxAttempts
      BY <1>1, <1>t, <2>0 DEF Request, TypeOK
    <3> QED BY <1>t, <3>1, <3>2 DEF LockWork
  <2>7. LockRecv'
    <3>1. \A u \in Tasks : pc'[u] = "recv" => pc[u] = "recv"
      BY <1>1, <1>t DEF Request, TypeOK
    <3>2. \A u \in Tasks : pc[u] = "recv" => Len(waiters) >= 1
      BY <1>t, <2>1 DEF LockBusy
    <3>3. sock' = sock
      BY <1>1 DEF Request, connVars
    <3> QED BY <1>t, <2>1, <3>1, <3>2, <3>3 DEF LockRecv
  <2> QED BY <2>2, <2>4, <2>5, <2>6, <2>7 DEF LockInv
<1>2. ASSUME NEW t \in Tasks, Connect(t) PROVE LockInv'
  <2>1. TypeOK'
    BY <1>2, <1>t DEF Connect, TypeOK, Conns, ringVars, taskVars, workerVars
  <2>2. UNCHANGED taskVars /\ sock' \in Conns
    BY <1>2, <1>t DEF Connect, TypeOK, Conns
  <2> QED BY <1>t, <2>1, <2>2
          DEF LockInv, LockDistinct, LockBusy, LockWork, LockRecv, taskVars
<1>3. ASSUME NEW t \in Tasks, Send(t) PROVE LockInv'
  <2>1. cur[t] \in Requests /\ sock \in Conns /\ waiters[1] = t
    BY <1>3, <1>t, HolderFirst DEF Send, TypeOK, Conns
  <2>2. TypeOK'
    BY <1>3, <1>t, <2>1 DEF Send, TypeOK, Conns, ringVars, workerVars
  <2>3. /\ pc[t] # "idle"
        /\ \A u \in Tasks : pc'[u] # "idle" <=> pc[u] # "idle"
        /\ \A u \in Tasks : pc'[u] = "recv" => u = t \/ pc[u] = "recv"
    BY <1>3, <1>t DEF Send, TypeOK
  <2>4. UNCHANGED <<waiters, attempts, cur, sock>>
    BY <1>3 DEF Send
  <2> QED BY <1>t, <2>1, <2>2, <2>3, <2>4
          DEF LockInv, LockDistinct, LockBusy, LockWork, LockRecv
<1>4. ASSUME NEW t \in Tasks, Recv(t) PROVE LockInv'
  <2> DEFINE reply == Head(replies[sock])
  <2>1. sock \in Conns
    BY <1>4, <1>t DEF Recv, LockRecv
  <2>2. /\ replies[sock] \in Seq(Reply) /\ reply \in Reply /\ Tail(replies[sock]) \in Seq(Reply)
    BY <1>4, <1>t, <2>1, HeadTailProperties DEF Recv, TypeOK
  <2>3. PICK o \in {"ok", "error"}, a \in {reply, NoAnswer} : Leave(t, o, a)
    BY <1>4 DEF Recv
  <2>4. UNCHANGED <<cur, attempts, sock>> /\ Holds(t)
    BY <1>4 DEF Recv
  <2>5. waiters' \in Seq(Tasks) /\ LockDistinct' /\ LockBusy' /\ LockWork' /\ LockRecv'
    BY <2>3, <2>4, LeaveFirst
  <2>6. TypeOK'
    BY <1>4, <1>t, <2>1, <2>2, <2>3, <2>5 DEF Recv, Leave, TypeOK, ringVars, workerVars
  <2> QED BY <2>5, <2>6 DEF LockInv
<1>5. ASSUME NEW t \in Tasks, AttemptFails(t) PROVE LockInv'
  <2>0. /\ Holds(t) /\ cur' = cur /\ sock' = 0 /\ attempts' = [attempts EXCEPT ![t] = @ + 1]
        /\ UNCHANGED <<ringVars, nconn, link, pending, replies, workerVars, faults, cancels>>
    BY <1>5 DEF AttemptFails
  <2>1. /\ attempts[t] + 1 \in 0 .. MaxAttempts /\ waiters[1] = t /\ pc[t] # "idle"
        /\ \A u \in Tasks : attempts'[u] = IF u = t THEN attempts[t] + 1 ELSE attempts[u]
    BY <1>t, <2>0, HolderFirst DEF TypeOK
  <2>2. CASE attempts[t] + 1 = MaxAttempts
    <3>1. Leave(t, "error", NoAnswer)
      BY <1>5, <2>2 DEF AttemptFails
    <3>2. waiters' \in Seq(Tasks) /\ LockDistinct' /\ LockBusy' /\ LockWork' /\ LockRecv'
      BY <2>0, <2>1, <3>1, LeaveFirst
    <3>3. TypeOK'
      BY <1>t, <2>0, <2>1, <3>1, <3>2 DEF Leave, TypeOK, ringVars, workerVars
    <3> QED BY <3>2, <3>3 DEF LockInv
  <2>3. CASE attempts[t] + 1 # MaxAttempts
    <3>1. pc' = [pc EXCEPT ![t] = "wait"] /\ UNCHANGED <<waiters, outcome, answer>>
      BY <1>5, <2>3 DEF AttemptFails
    <3>2. /\ \A u \in Tasks : pc'[u] # "idle" <=> pc[u] # "idle"
          /\ \A u \in Tasks : pc'[u] = "recv" => pc[u] = "recv" /\ u # t
      BY <1>t, <2>1, <3>1 DEF TypeOK
    <3>3. TypeOK'
      BY <1>t, <2>0, <2>1, <3>1 DEF TypeOK, ringVars, workerVars
    <3>4. LockDistinct' /\ LockBusy' /\ LockRecv'
      BY <1>t, <2>1, <3>1, <3>2 DEF LockDistinct, LockBusy, LockRecv
    <3>5. LockWork'
      BY <1>t, <2>0, <2>1, <2>3, <3>2 DEF LockWork, TypeOK
    <3> QED BY <3>3, <3>4, <3>5 DEF LockInv
  <2> QED BY <2>2, <2>3
<1>6. ASSUME NEW t \in Tasks, Cancel(t) PROVE LockInv'
  <2>1. PICK i \in 1 .. Len(waiters) :
          /\ waiters[i] = t
          /\ waiters' = SubSeq(waiters, 1, i - 1) \o SubSeq(waiters, i + 1, Len(waiters))
    BY <1>6 DEF Cancel, Withdraw
  <2>2. /\ pc' = [pc EXCEPT ![t] = "idle"] /\ outcome' = [outcome EXCEPT ![t] = "cancelled"]
        /\ cancels' \in 0 .. MaxCancels
        /\ UNCHANGED <<ringVars, cur, attempts, answer, connVars, workerVars, faults>>
    BY <1>6, <1>t DEF Cancel, Withdraw, TypeOK
  <2>3. /\ waiters' \in Seq(Tasks) /\ Len(waiters') = Len(waiters) - 1
        /\ \A j \in 1 .. Len(waiters') :
             waiters'[j] = IF j < i THEN waiters[j] ELSE waiters[j + 1]
    BY <1>t, <2>1, RemoveAt DEF TypeOK
  <2>4. LockDistinct' /\ LockBusy' /\ LockWork' /\ LockRecv'
    BY <2>1, <2>2, <2>3, LeaveLock DEF connVars
  <2>5. TypeOK'
    BY <1>t, <2>2, <2>3 DEF TypeOK, ringVars, connVars, workerVars
  <2> QED BY <2>4, <2>5 DEF LockInv
<1>7. ASSUME NEW k \in Conns, Execute(k) PROVE LockInv'
  <2>1. UNCHANGED <<taskVars, sock>>
    BY <1>7 DEF Execute
  <2>2. TypeOK'
    <3>1. /\ pending[k] \in Seq(Requests) /\ Head(pending[k]) \in Requests
          /\ Tail(pending[k]) \in Seq(Requests) /\ << >> \in Seq(Requests)
      BY <1>7, <1>t, HeadTailProperties DEF Execute, TypeOK
    <3> DEFINE r == [id |-> Head(pending[k]), data |-> region[SlotOf(Head(pending[k]))]]
    <3>2. r \in Reply
      <4>1. SlotOf(Head(pending[k])) \in 0 .. Slots - 1
        <5>1. Head(pending[k]) \in Nat
          BY <3>1 DEF Requests
        <5> QED BY <5>1, SlotType
      <4>2. region[SlotOf(Head(pending[k]))] \in Requests \cup {NoRequest}
        BY <1>t, <4>1 DEF TypeOK
      <4> QED BY <3>1, <4>2 DEF Reply
    <3>3. Append(replies[k], r) \in Seq(Reply)
      BY <1>t, <3>2, AppendLast DEF TypeOK
    <3>4. execs' \in [Requests -> Nat]
      BY <1>7, <1>t, <3>1 DEF Execute, TypeOK
    <3>5. pending' \in [Conns -> Seq(Requests)] /\ replies' \in [Conns -> Seq(Reply)]
      BY <1>7, <1>t, <3>1, <3>3 DEF Execute, TypeOK
    <3> QED BY <1>7, <1>t, <2>1, <3>4, <3>5 DEF Execute, TypeOK, taskVars, ringVars
  <2> QED BY <1>t, <2>1, <2>2
          DEF LockInv, LockDistinct, LockBusy, LockWork, LockRecv, taskVars
<1>8. ASSUME NEW k \in Conns, BreakLink(k) PROVE LockInv'
  <2>1. UNCHANGED <<taskVars, sock>>
    BY <1>8 DEF BreakLink
  <2>2. TypeOK'
    <3>1. << >> \in Seq(Requests) /\ << >> \in Seq(Reply)
      OBVIOUS
    <3>2. pending' \in [Conns -> Seq(Requests)] /\ replies' \in [Conns -> Seq(Reply)]
      <4>1. PICK p \in {pending[k], << >>} : pending' = [pending EXCEPT ![k] = p]
        BY <1>8 DEF BreakLink
      <4>2. PICK r \in {replies[k], << >>} : replies' = [replies EXCEPT ![k] = r]
        BY <1>8 DEF BreakLink
      <4>3. pending[k] \in Seq(Requests) /\ replies[k] \in Seq(Reply)
        BY <1>t DEF TypeOK
      <4>4. p \in Seq(Requests) /\ r \in Seq(Reply)
        BY <3>1, <4>3
      <4> QED BY <1>t, <4>1, <4>2, <4>4 DEF TypeOK
    <3>3. link' \in [Conns -> {"none", "open", "broken"}] /\ faults' \in 0 .. MaxFaults
      BY <1>8, <1>t DEF BreakLink, TypeOK
    <3> QED BY <1>8, <1>t, <3>2, <3>3 DEF BreakLink, TypeOK, ringVars, taskVars, workerVars
  <2> QED BY <1>t, <2>1, <2>2
          DEF LockInv, LockDistinct, LockBusy, LockWork, LockRecv, taskVars
<1>9. ASSUME Crash PROVE LockInv'
  <2>1. UNCHANGED <<taskVars, sock>>
    BY <1>9 DEF Crash
  <2>2. TypeOK'
    <3>1. << >> \in Seq(Requests) /\ << >> \in Seq(Reply)
      OBVIOUS
    <3>2. pending' \in [Conns -> Seq(Requests)] /\ replies' \in [Conns -> Seq(Reply)]
      BY <1>9, <1>t, <3>1 DEF Crash, TypeOK
    <3>3. faults' \in 0 .. MaxFaults /\ workerUp' \in BOOLEAN
      <4>1. faults \in 0 .. MaxFaults
        BY <1>t DEF TypeOK
      <4>2. faults' = faults + 1 /\ faults < MaxFaults /\ workerUp' = FALSE
        BY <1>9 DEF Crash
      <4>3. faults' \in 0 .. MaxFaults
        BY <4>1, <4>2
      <4> QED BY <4>2, <4>3
    <3>4. link' \in [Conns -> {"none", "open", "broken"}]
      BY <1>9 DEF Crash
    <3> QED BY <1>9, <1>t, <3>2, <3>3, <3>4 DEF Crash, TypeOK, ringVars, taskVars
  <2> QED BY <1>t, <2>1, <2>2
          DEF LockInv, LockDistinct, LockBusy, LockWork, LockRecv, taskVars
<1>10. ASSUME Restart PROVE LockInv'
  <2>1. UNCHANGED <<taskVars, sock>> /\ TypeOK'
    BY <1>10, <1>t DEF Restart, TypeOK, ringVars, taskVars, connVars
  <2> QED BY <1>t, <2>1
          DEF LockInv, LockDistinct, LockBusy, LockWork, LockRecv, taskVars
<1>11. ASSUME UNCHANGED vars PROVE LockInv'
  BY <1>11, <1>t DEF LockInv, TypeOK, LockDistinct, LockBusy, LockWork, LockRecv, vars,
     ringVars, taskVars, connVars, workerVars
<1> QED BY <1>1, <1>2, <1>3, <1>4, <1>5, <1>6, <1>7, <1>8, <1>9, <1>10, <1>11
        DEF Next, Roundtrip

\* TypeOK holds in every reachable state: in particular a request never fails
\* more than MaxAttempts attempts and no task reads a connection it does not have.
THEOREM TypeCorrect == Spec => []TypeOK
<1>1. LockInv => TypeOK
  BY DEF LockInv
<1> QED BY <1>1, LockInit, LockStep, PTL DEF Spec

-----------------------------------------------------------------------------
(* The ring.                                                               *)

\* The last Slots requests still own their slot.
RingInv == \A id \in Nat : id < counter /\ counter - id <= Slots => region[SlotOf(id)] = id

\* What is on a connection belongs to requests that took a slot.
PendingInv == \A k \in Conns : \A i \in 1 .. Len(pending[k]) : pending[k][i] < counter

\* A response carries the payload of its request, unless Slots requests were
\* issued after that one.
Intact(r) == r.id < counter /\ (r.data = r.id \/ counter - r.id > Slots)
ReplyInv  == \A k \in Conns : \A i \in 1 .. Len(replies[k]) : Intact(replies[k][i])

\* The lock is in the order of the ring.
OrderInv == /\ \A i \in 1 .. Len(waiters) : cur[waiters[i]] < counter
            /\ \A i, j \in 1 .. Len(waiters) : i < j => cur[waiters[i]] < cur[waiters[j]]

\* Without cancellation the lock holds the youngest requests, all of them.
TicketInv ==
  cancels = 0 => \A i \in 1 .. Len(waiters) : cur[waiters[i]] = counter - Len(waiters) + i - 1

RingOrderInv == LockInv /\ RingInv /\ PendingInv /\ ReplyInv /\ OrderInv /\ TicketInv

\* Nothing has been issued, so nothing is out of order.
LEMMA RingOrderInit == Init => RingOrderInv
<1> SUFFICES ASSUME Init PROVE RingOrderInv
  OBVIOUS
<1>1. LockInv
  BY LockInit
<1>2. counter = 0 /\ Len(waiters) = 0
  BY DEF Init
<1>3. \A k \in Conns : Len(pending[k]) = 0 /\ Len(replies[k]) = 0
  BY DEF Init
<1> QED BY <1>1, <1>2, <1>3 DEF RingOrderInv, RingInv, PendingInv, ReplyInv, OrderInv, TicketInv

\* The holder's request is Len(waiters) requests old, so at most as many as
\* there are tasks.
LEMMA HolderYoung ==
  ASSUME RingOrderInv, NEW t \in Tasks, Holds(t), cancels = 0, Cardinality(Tasks) <= Slots
  PROVE  counter - cur[t] <= Slots
<1>1. waiters \in Seq(Tasks) /\ waiters[1] = t /\ Len(waiters) >= 1 /\ Len(waiters) \in Nat
  BY HolderFirst DEF RingOrderInv, LockInv, TypeOK
<1>2. Len(waiters) <= Cardinality(Tasks)
  BY <1>1, DistinctLen, TasksAssumption DEF RingOrderInv, LockInv, LockDistinct
<1>3. cur[t] = counter - Len(waiters)
  BY <1>1 DEF RingOrderInv, TicketInv, LockInv, TypeOK
<1>4. Cardinality(Tasks) \in Nat /\ counter \in Int /\ Slots \in Int
  BY TasksAssumption, FS_CardinalityType, BoundsAssumption DEF RingOrderInv, LockInv, TypeOK
<1> QED BY <1>1, <1>2, <1>3, <1>4

\* The holder leaves: the others keep their order.
LEMMA FirstLeavesInOrder ==
  ASSUME RingOrderInv,
         Len(waiters') = Len(waiters) - 1,
         \A j \in 1 .. Len(waiters') : waiters'[j] = waiters[j + 1],
         UNCHANGED <<counter, cur, cancels>>
  PROVE  OrderInv' /\ TicketInv'
<1>1. Len(waiters) \in Nat /\ counter \in Int
  BY DEF RingOrderInv, LockInv, TypeOK
<1>2. \A j \in 1 .. Len(waiters') : j + 1 \in 1 .. Len(waiters)
  BY <1>1
<1>3. OrderInv'
  <2>1. \A i \in 1 .. Len(waiters') : cur'[waiters'[i]] < counter'
    BY <1>2 DEF RingOrderInv, OrderInv
  <2>2. ASSUME NEW i \in 1 .. Len(waiters'), NEW j \in 1 .. Len(waiters'), i < j
        PROVE  cur'[waiters'[i]] < cur'[waiters'[j]]
    <3>1. i + 1 \in 1 .. Len(waiters) /\ j + 1 \in 1 .. Len(waiters) /\ i + 1 < j + 1
      BY <1>1, <1>2, <2>2
    <3> QED BY <3>1 DEF RingOrderInv, OrderInv
  <2> QED BY <2>1, <2>2 DEF OrderInv
<1>4. TicketInv'
  BY <1>1, <1>2 DEF RingOrderInv, TicketInv
<1> QED BY <1>3, <1>4

\* Frames only leave a connection.
LEMMA FewerPending ==
  ASSUME RingOrderInv, counter' = counter,
         \A k \in Conns : pending'[k] \in {pending[k], << >>}
  PROVE  PendingInv'
<1> SUFFICES ASSUME NEW k \in Conns, NEW i \in 1 .. Len(pending'[k])
             PROVE  pending'[k][i] < counter
  BY DEF PendingInv
<1>1. pending'[k] = pending[k]
  OBVIOUS
<1> QED BY <1>1 DEF RingOrderInv, PendingInv

LEMMA FewerReplies ==
  ASSUME RingOrderInv, counter' = counter,
         \A k \in Conns : replies'[k] \in {replies[k], << >>}
  PROVE  ReplyInv'
<1> SUFFICES ASSUME NEW k \in Conns, NEW i \in 1 .. Len(replies'[k])
             PROVE  Intact(replies'[k][i])
  BY DEF ReplyInv, Intact
<1>1. replies'[k] = replies[k]
  OBVIOUS
<1> QED BY <1>1 DEF RingOrderInv, ReplyInv

\* No step rewrites a slot too early, mislabels a response or reorders the lock.
LEMMA RingOrderStep == RingOrderInv /\ [Next]_vars => RingOrderInv'
<1> SUFFICES ASSUME RingOrderInv, [Next]_vars PROVE RingOrderInv'
  OBVIOUS
<1> USE BoundsAssumption
<1>0. LockInv'
  BY LockStep DEF RingOrderInv
<1>i. LockInv /\ RingInv /\ PendingInv /\ ReplyInv /\ OrderInv /\ TicketInv
  BY DEF RingOrderInv
<1>t. TypeOK /\ TypeOK'
  BY <1>0, <1>i DEF LockInv
<1>c. counter \in Nat /\ counter' \in Nat /\ Len(waiters) \in Nat /\ cancels \in Nat
  BY <1>t DEF TypeOK
\* A step that neither takes a slot nor moves anything onto a connection.
<1>q. ASSUME UNCHANGED <<counter, region>>
      PROVE  RingInv'
  BY <1>i, <1>q DEF RingInv, SlotOf
<1>w. ASSUME UNCHANGED <<counter, cur, waiters, cancels>>
      PROVE  OrderInv' /\ TicketInv'
  BY <1>i, <1>w DEF OrderInv, TicketInv
<1>1. ASSUME NEW t \in Tasks, Request(t) PROVE RingOrderInv'
  <2>1. /\ counter' = counter + 1 /\ pc[t] = "idle"
        /\ region' = [region EXCEPT ![SlotOf(counter)] = counter]
        /\ cur' = [cur EXCEPT ![t] = counter]
        /\ waiters' = Append(waiters, t)
        /\ UNCHANGED <<pending, replies, cancels>>
    BY <1>1 DEF Request, connVars
  <2>2. RingInv'
    <3> SUFFICES ASSUME NEW id \in Nat, id < counter', counter' - id <= Slots
                 PROVE  region'[SlotOf(id)] = id
      BY DEF RingInv, SlotOf
    <3>1. SlotOf(id) \in 0 .. Slots - 1 /\ SlotOf(counter) \in 0 .. Slots - 1
      BY <1>c, SlotType
    <3>2. region \in [0 .. Slots - 1 -> Requests \cup {NoRequest}]
      BY <1>t DEF TypeOK
    <3>3. CASE id = counter
      BY <2>1, <3>1, <3>2, <3>3
    <3>4. CASE id # counter
      <4>1. id < counter /\ counter - id < Slots
        BY <1>c, <2>1, <3>4
      <4>2. SlotOf(id) # SlotOf(counter)
        BY <1>c, <4>1, ModInjective DEF SlotOf
      <4>3. region[SlotOf(id)] = id
        BY <1>c, <1>i, <4>1 DEF RingInv
      <4> QED BY <2>1, <3>1, <3>2, <4>2, <4>3
    <3> QED BY <3>3, <3>4
  <2>3. PendingInv'
    <3> SUFFICES ASSUME NEW k \in Conns, NEW i \in 1 .. Len(pending[k])
                 PROVE  pending[k][i] < counter + 1
      BY <2>1 DEF PendingInv
    <3>1. pending[k][i] \in Requests /\ pending[k][i] < counter
      BY <1>i, <1>t, ElementOfSeq DEF TypeOK, PendingInv
    <3> QED BY <1>c, <3>1 DEF Requests
  <2>4. ReplyInv'
    <3> SUFFICES ASSUME NEW k \in Conns, NEW i \in 1 .. Len(replies[k])
                 PROVE  Intact(replies[k][i])'
      BY <2>1 DEF ReplyInv
    <3>1. replies[k][i] \in Reply /\ Intact(replies[k][i])
      BY <1>i, <1>t, ElementOfSeq DEF TypeOK, ReplyInv
    <3> QED BY <1>c, <2>1, <3>1 DEF Intact, Reply, Requests
  <2>5. /\ Len(waiters') = Len(waiters) + 1
        /\ \A j \in 1 .. Len(waiters) : waiters'[j] = waiters[j]
        /\ waiters'[Len(waiters) + 1] = t
    BY <1>t, <2>1, AppendLast DEF TypeOK
  <2>6. ASSUME NEW j \in 1 .. Len(waiters)
        PROVE  cur'[waiters'[j]] = cur[waiters[j]] /\ cur[waiters[j]] \in Int
    <3>1. waiters[j] \in Tasks
      BY <1>t, ElementOfSeq DEF TypeOK
    <3>2. waiters[j] # t
      BY <1>i, <2>1 DEF LockInv, LockBusy
    <3>3. cur[waiters[j]] \in Requests \cup {NoRequest}
      BY <1>t, <3>1 DEF TypeOK
    <3>4. waiters'[j] = waiters[j]
      BY <2>5
    <3> QED BY <2>1, <3>1, <3>2, <3>3, <3>4 DEF Requests, NoRequest
  <2>7. cur'[waiters'[Len(waiters) + 1]] = counter
    BY <1>t, <2>1, <2>5 DEF TypeOK
  <2>8. OrderInv'
    <3>1. ASSUME NEW j \in 1 .. Len(waiters') PROVE cur'[waiters'[j]] < counter'
      BY <1>c, <1>i, <2>1, <2>5, <2>6, <2>7 DEF OrderInv
    <3>2. ASSUME NEW j \in 1 .. Len(waiters'), NEW m \in 1 .. Len(waiters'), j < m
          PROVE  cur'[waiters'[j]] < cur'[waiters'[m]]
      <4>1. j \in 1 .. Len(waiters)
        BY <1>c, <2>5, <3>2
      <4>2. CASE m = Len(waiters) + 1
        BY <1>i, <2>6, <2>7, <4>1, <4>2 DEF OrderInv
      <4>3. CASE m \in 1 .. Len(waiters)
        BY <1>i, <2>6, <3>2, <4>1, <4>3 DEF OrderInv
      <4> QED BY <1>c, <2>5, <4>2, <4>3
    <3> QED BY <3>1, <3>2 DEF OrderInv
  <2>9. TicketInv'
    BY <1>c, <1>i, <2>1, <2>5, <2>6, <2>7 DEF TicketInv
  <2> QED BY <1>0, <2>2, <2>3, <2>4, <2>8, <2>9 DEF RingOrderInv
<1>2. ASSUME NEW t \in Tasks, Connect(t) PROVE RingOrderInv'
  <2>1. UNCHANGED <<ringVars, taskVars, pending, replies, cancels>>
    BY <1>2 DEF Connect
  <2>2. PendingInv' /\ ReplyInv'
    BY <2>1, FewerPending, FewerReplies DEF ringVars
  <2> QED BY <1>0, <1>q, <1>w, <2>1, <2>2 DEF RingOrderInv, ringVars, taskVars
<1>3. ASSUME NEW t \in Tasks, Send(t) PROVE RingOrderInv'
  <2>1. /\ sock \in Conns /\ Holds(t)
        /\ pending' = [pending EXCEPT ![sock] = Append(@, cur[t])]
        /\ UNCHANGED <<counter, region, cur, waiters, replies, cancels>>
    BY <1>3, <1>t DEF Send, TypeOK, Conns, ringVars
  <2>2. cur[t] < counter /\ cur[t] \in Requests
    BY <1>i, <2>1, HolderFirst DEF OrderInv
  <2>3. PendingInv'
    <3> SUFFICES ASSUME NEW k \in Conns, NEW i \in 1 .. Len(pending'[k])
                 PROVE  pending'[k][i] < counter
      BY <2>1 DEF PendingInv
    <3>1. pending[k] \in Seq(Requests) /\ pending \in [Conns -> Seq(Requests)]
      BY <1>t DEF TypeOK
    <3>2. CASE k = sock
      <4>1. pending'[k] = Append(pending[k], cur[t])
        BY <2>1, <3>1, <3>2
      <4> QED BY <1>i, <2>2, <3>1, <4>1, AppendLast DEF PendingInv
    <3>3. CASE k # sock
      BY <1>i, <2>1, <3>1, <3>3 DEF PendingInv
    <3> QED BY <3>2, <3>3
  <2>4. ReplyInv'
    BY <2>1, FewerReplies
  <2> QED BY <1>0, <1>q, <1>w, <2>1, <2>3, <2>4 DEF RingOrderInv
<1>4. ASSUME NEW t \in Tasks, Recv(t) PROVE RingOrderInv'
  <2>1. /\ sock \in Conns /\ Holds(t) /\ replies[sock] # << >>
        /\ replies' = [replies EXCEPT ![sock] = Tail(@)]
        /\ UNCHANGED <<counter, region, cur, attempts, sock, pending, cancels>>
    BY <1>4, <1>i DEF Recv, LockInv, LockRecv, ringVars
  <2>2. \E o \in {"ok", "error"}, a \in {Head(replies[sock]), NoAnswer} : Leave(t, o, a)
    BY <1>4 DEF Recv
  <2>3. /\ Len(waiters') = Len(waiters) - 1
        /\ \A j \in 1 .. Len(waiters') : waiters'[j] = waiters[j + 1]
    BY <1>i, <2>1, <2>2, LeaveFirst
  <2>4. OrderInv' /\ TicketInv'
    BY <2>1, <2>3, FirstLeavesInOrder
  <2>5. PendingInv'
    BY <2>1, FewerPending
  <2>6. ReplyInv'
    <3> SUFFICES ASSUME NEW k \in Conns, NEW i \in 1 .. Len(replies'[k])
                 PROVE  Intact(replies'[k][i])
      BY <2>1 DEF ReplyInv, Intact
    <3>1. replies[k] \in Seq(Reply) /\ replies \in [Conns -> Seq(Reply)]
      BY <1>t DEF TypeOK
    <3>2. CASE k = sock
      <4>1. replies'[k] = Tail(replies[k])
        BY <2>1, <3>1, <3>2
      <4>2. /\ i + 1 \in 1 .. Len(replies[k]) /\ replies'[k][i] = replies[k][i + 1]
        BY <2>1, <3>1, <3>2, <4>1, HeadTailProperties, LenProperties
      <4> QED BY <1>i, <4>2 DEF ReplyInv
    <3>3. CASE k # sock
      BY <1>i, <2>1, <3>1, <3>3 DEF ReplyInv
    <3> QED BY <3>2, <3>3
  <2> QED BY <1>0, <1>q, <2>1, <2>4, <2>5, <2>6 DEF RingOrderInv
<1>5. ASSUME NEW t \in Tasks, AttemptFails(t) PROVE RingOrderInv'
  <2>1. /\ Holds(t) /\ sock' = 0 /\ attempts' = [attempts EXCEPT ![t] = @ + 1]
        /\ UNCHANGED <<counter, region, cur, pending, replies, cancels>>
    BY <1>5 DEF AttemptFails, ringVars
  <2>2. PendingInv' /\ ReplyInv'
    BY <2>1, FewerPending, FewerReplies
  <2>3. OrderInv' /\ TicketInv'
    <3>1. CASE waiters' = waiters
      BY <1>w, <2>1, <3>1
    <3>2. CASE waiters' # waiters
      <4>1. Leave(t, "error", NoAnswer)
        BY <1>5, <3>2 DEF AttemptFails
      <4>2. 1 \in 1 .. Len(waiters) /\ waiters[1] = t /\ waiters # << >>
        BY <1>i, <1>c, <2>1, HolderFirst
      <4>3. /\ Len(waiters') = Len(waiters) - 1
            /\ \A j \in 1 .. Len(waiters') : waiters'[j] = waiters[j + 1]
        BY <1>t, <4>1, <4>2, HeadTailProperties DEF Leave, TypeOK
      <4> QED BY <2>1, <4>3, FirstLeavesInOrder
    <3> QED BY <3>1, <3>2
  <2> QED BY <1>0, <1>q, <2>1, <2>2, <2>3 DEF RingOrderInv
<1>6. ASSUME NEW t \in Tasks, Cancel(t) PROVE RingOrderInv'
  <2>1. /\ cancels' = cancels + 1
        /\ UNCHANGED <<counter, region, cur, pending, replies>>
    BY <1>6 DEF Cancel, Withdraw, ringVars, connVars
  <2>2. PICK i \in 1 .. Len(waiters) :
          waiters' = SubSeq(waiters, 1, i - 1) \o SubSeq(waiters, i + 1, Len(waiters))
    BY <1>6 DEF Cancel, Withdraw
  <2>3. /\ Len(waiters') = Len(waiters) - 1
        /\ \A j \in 1 .. Len(waiters') :
             waiters'[j] = IF j < i THEN waiters[j] ELSE waiters[j + 1]
    <3>1. waiters \in Seq(Tasks)
      BY <1>t DEF TypeOK
    <3> QED BY <2>2, <3>1, RemoveAt
  <2>4. OrderInv'
    <3>1. ASSUME NEW j \in 1 .. Len(waiters')
          PROVE  \E m \in 1 .. Len(waiters) : waiters'[j] = waiters[m]
                                              /\ m = IF j < i THEN j ELSE j + 1
      <4>1. j \in 1 .. Len(waiters) /\ j + 1 \in 1 .. Len(waiters)
        BY <1>c, <2>3
      <4> QED BY <2>3, <4>1
    <3>2. \A j \in 1 .. Len(waiters') : cur[waiters'[j]] < counter
      BY <1>i, <3>1 DEF OrderInv
    <3>3. ASSUME NEW j \in 1 .. Len(waiters'), NEW n \in 1 .. Len(waiters'), j < n
          PROVE  cur[waiters'[j]] < cur[waiters'[n]]
      <4>1. PICK a \in 1 .. Len(waiters) : waiters'[j] = waiters[a]
                                           /\ a = IF j < i THEN j ELSE j + 1
        BY <3>1
      <4>2. PICK b \in 1 .. Len(waiters) : waiters'[n] = waiters[b]
                                           /\ b = IF n < i THEN n ELSE n + 1
        BY <3>1
      <4>3. a < b
        BY <1>c, <3>3, <4>1, <4>2
      <4> QED BY <1>i, <4>1, <4>2, <4>3 DEF OrderInv
    <3> QED BY <2>1, <3>2, <3>3 DEF OrderInv
  <2>5. TicketInv'
    BY <1>c, <2>1 DEF TicketInv
  <2>6. PendingInv' /\ ReplyInv'
    BY <2>1, FewerPending, FewerReplies
  <2> QED BY <1>0, <1>q, <2>1, <2>4, <2>5, <2>6 DEF RingOrderInv
<1>7. ASSUME NEW k \in Conns, Execute(k) PROVE RingOrderInv'
  <2> DEFINE id == Head(pending[k])
             r  == [id |-> id, data |-> region[SlotOf(id)]]
  <2>1. /\ pending[k] # << >>
        /\ UNCHANGED <<counter, region, cur, waiters, cancels>>
        /\ pending' \in {[pending EXCEPT ![k] = Tail(@)], [pending EXCEPT ![k] = << >>]}
        /\ replies' \in {replies, [replies EXCEPT ![k] = Append(@, r)]}
    BY <1>7 DEF Execute, ringVars, taskVars
  <2>2. /\ pending \in [Conns -> Seq(Requests)] /\ replies \in [Conns -> Seq(Reply)]
        /\ pending[k] \in Seq(Requests) /\ replies[k] \in Seq(Reply)
    BY <1>t DEF TypeOK
  <2>3. id = pending[k][1] /\ id \in Nat /\ id < counter
    <3>1. 1 \in 1 .. Len(pending[k]) /\ id = pending[k][1]
      BY <2>1, <2>2
    <3>2. id \in Requests
      BY <2>2, <3>1, ElementOfSeq
    <3> QED BY <1>i, <3>1, <3>2 DEF PendingInv, Requests
  <2>4. Intact(r)
    BY <1>c, <1>i, <2>3 DEF RingInv, Intact
  <2>5. PendingInv'
    <3> SUFFICES ASSUME NEW c \in Conns, NEW i \in 1 .. Len(pending'[c])
                 PROVE  pending'[c][i] < counter
      BY <2>1 DEF PendingInv
    <3>1. CASE pending'[c] \in {pending[c], << >>}
      BY <1>i, <3>1 DEF PendingInv
    <3>2. CASE pending'[c] \notin {pending[c], << >>}
      <4>1. c = k /\ pending'[c] = Tail(pending[k])
        BY <2>1, <2>2, <3>2
      <4>2. i + 1 \in 1 .. Len(pending[k]) /\ pending'[c][i] = pending[k][i + 1]
        BY <2>1, <2>2, <4>1, HeadTailProperties, LenProperties
      <4> QED BY <1>i, <4>2 DEF PendingInv
    <3> QED BY <3>1, <3>2
  <2>6. ReplyInv'
    <3> HIDE DEF r
    <3> SUFFICES ASSUME NEW c \in Conns, NEW i \in 1 .. Len(replies'[c])
                 PROVE  Intact(replies'[c][i])
      BY <2>1 DEF ReplyInv, Intact
    <3>1. CASE replies'[c] = replies[c]
      BY <1>i, <3>1 DEF ReplyInv
    <3>2. CASE replies'[c] # replies[c]
      <4>1. c = k /\ replies'[c] = Append(replies[k], r)
        BY <2>1, <2>2, <3>2
      <4>2. CASE i = Len(replies[k]) + 1
        BY <2>2, <2>4, <4>1, <4>2
      <4>3. CASE i # Len(replies[k]) + 1
        <5>1. i \in 1 .. Len(replies[k]) /\ replies'[c][i] = replies[k][i]
          BY <2>2, <4>1, <4>3
        <5> QED BY <1>i, <5>1 DEF ReplyInv
      <4> QED BY <4>2, <4>3
    <3> QED BY <3>1, <3>2
  <2> QED BY <1>0, <1>q, <1>w, <2>1, <2>5, <2>6 DEF RingOrderInv
<1>8. ASSUME NEW k \in Conns, BreakLink(k) PROVE RingOrderInv'
  <2>1. UNCHANGED <<ringVars, taskVars, cancels>>
    BY <1>8 DEF BreakLink
  <2>2. \A c \in Conns : pending'[c] \in {pending[c], << >>} /\ replies'[c] \in {replies[c], << >>}
    BY <1>8, <1>t DEF BreakLink, TypeOK
  <2>3. PendingInv' /\ ReplyInv'
    BY <2>1, <2>2, FewerPending, FewerReplies DEF ringVars
  <2> QED BY <1>0, <1>q, <1>w, <2>1, <2>3 DEF RingOrderInv, ringVars, taskVars
<1>9. ASSUME Crash PROVE RingOrderInv'
  <2>1. UNCHANGED <<ringVars, taskVars, cancels>>
    BY <1>9 DEF Crash
  <2>2. \A c \in Conns : pending'[c] \in {pending[c], << >>} /\ replies'[c] \in {replies[c], << >>}
    BY <1>9 DEF Crash
  <2>3. PendingInv' /\ ReplyInv'
    BY <2>1, <2>2, FewerPending, FewerReplies DEF ringVars
  <2> QED BY <1>0, <1>q, <1>w, <2>1, <2>3 DEF RingOrderInv, ringVars, taskVars
<1>10. ASSUME Restart \/ UNCHANGED vars PROVE RingOrderInv'
  <2>1. UNCHANGED <<counter, region, cur, waiters, pending, replies, cancels>>
    BY <1>10 DEF Restart, vars, ringVars, taskVars, connVars
  <2>2. PendingInv' /\ ReplyInv'
    BY <2>1, FewerPending, FewerReplies
  <2> QED BY <1>0, <1>q, <1>w, <2>1, <2>2 DEF RingOrderInv
<1> QED BY <1>1, <1>2, <1>3, <1>4, <1>5, <1>6, <1>7, <1>8, <1>9, <1>10 DEF Next, Roundtrip

-----------------------------------------------------------------------------
(* The properties.                                                         *)

\* What handing a response to its task means; the other actions hand out none.
LEMMA OkComesFromRecv ==
  ASSUME RingOrderInv, [Next]_vars, NEW t \in Tasks,
         outcome'[t] = "ok", ~(outcome[t] = "ok" /\ UNCHANGED <<outcome[t], answer[t], cur[t]>>)
  PROVE  /\ Recv(t) /\ pc[t] = "recv" /\ cur'[t] = cur[t]
         /\ answer'[t] = Head(replies[sock]) /\ answer'[t].id = cur[t]
<1>t. TypeOK
  BY DEF RingOrderInv, LockInv
<1>n. cur \in [Tasks -> Requests \cup {NoRequest}] /\ outcome \in [Tasks -> {"none", "ok", "error", "cancelled"}]
      /\ answer \in [Tasks -> Reply \cup {NoAnswer}]
  BY <1>t DEF TypeOK
<1>1. ASSUME NEW u \in Tasks, Request(u) PROVE FALSE
  BY <1>1, <1>n DEF Request
<1>2. ASSUME NEW u \in Tasks, Connect(u) \/ Send(u) PROVE FALSE
  BY <1>2, <1>n DEF Connect, Send, taskVars
<1>3. ASSUME NEW u \in Tasks, AttemptFails(u) PROVE FALSE
  BY <1>3, <1>n DEF AttemptFails, Leave
<1>4. ASSUME NEW u \in Tasks, Cancel(u) PROVE FALSE
  BY <1>4, <1>n DEF Cancel, Withdraw
<1>5. ASSUME NEW k \in Conns, Execute(k) \/ BreakLink(k) PROVE FALSE
  BY <1>5, <1>n DEF Execute, BreakLink, taskVars
<1>6. ASSUME Crash \/ Restart \/ UNCHANGED vars PROVE FALSE
  BY <1>6, <1>n DEF Crash, Restart, vars, taskVars
<1>7. ASSUME NEW u \in Tasks, Recv(u)
      PROVE  /\ u = t /\ pc[t] = "recv" /\ cur'[t] = cur[t]
             /\ answer'[t] = Head(replies[sock]) /\ answer'[t].id = cur[t]
  <2>1. cur' = cur /\ pc[u] = "recv"
    BY <1>7 DEF Recv
  <2>2. CASE Head(replies[sock]).id = cur[u]
    <3>1. Leave(u, "ok", Head(replies[sock]))
      BY <1>7, <2>2 DEF Recv
    <3> QED BY <1>n, <2>1, <2>2, <3>1 DEF Leave
  <2>3. CASE Head(replies[sock]).id # cur[u]
    <3>1. Leave(u, "error", NoAnswer)
      BY <1>7, <2>3 DEF Recv
    <3> QED BY <1>n, <2>1, <3>1 DEF Leave
  <2> QED BY <2>2, <2>3
<1> QED BY <1>1, <1>2, <1>3, <1>4, <1>5, <1>6, <1>7 DEF Next, Roundtrip

\* Whatever is retried, abandoned or lost, a request that ends well was handed
\* the response to itself.
THEOREM AnswersOwn == Spec => []AnswerOwn
<1>1. Init => AnswerOwn
  BY DEF Init, AnswerOwn
<1>2. RingOrderInv /\ AnswerOwn /\ [Next]_vars => AnswerOwn'
  BY OkComesFromRecv DEF AnswerOwn
<1> QED BY <1>1, <1>2, RingOrderInit, RingOrderStep, PTL DEF Spec

LEMMA PayloadStep == RingOrderInv /\ PayloadOwn /\ [Next]_vars => PayloadOwn'
<1> SUFFICES ASSUME RingOrderInv, PayloadOwn, [Next]_vars, cancels' = 0,
                    Cardinality(Tasks) <= Slots, NEW t \in Tasks, outcome'[t] = "ok"
             PROVE  answer'[t].data = cur'[t]
  BY DEF PayloadOwn, AnswerIntact
<1>1. cancels = 0
  <2>1. cancels \in Nat
    BY DEF RingOrderInv, LockInv, TypeOK
  <2>2. CASE cancels' = cancels
    BY <2>2
  <2>3. CASE cancels' # cancels
    <3>1. PICK u \in Tasks : Cancel(u)
      BY <2>3 DEF Next, Roundtrip, Request, Connect, Send, Recv, AttemptFails, Execute,
         BreakLink, Crash, Restart, vars
    <3> QED BY <2>1, <3>1 DEF Cancel, Withdraw
  <2> QED BY <2>2, <2>3
<1>2. CASE outcome[t] = "ok" /\ UNCHANGED <<outcome[t], answer[t], cur[t]>>
  BY <1>1, <1>2 DEF PayloadOwn, AnswerIntact
<1>3. CASE ~(outcome[t] = "ok" /\ UNCHANGED <<outcome[t], answer[t], cur[t]>>)
  <2>1. /\ Recv(t) /\ pc[t] = "recv" /\ cur'[t] = cur[t]
        /\ answer'[t] = Head(replies[sock]) /\ answer'[t].id = cur[t]
    BY <1>3, OkComesFromRecv
  <2>2. counter - cur[t] <= Slots
    BY <1>1, <2>1, HolderYoung DEF Recv
  <2>3. Intact(Head(replies[sock]))
    <3>1. sock \in Conns /\ replies[sock] # << >> /\ replies[sock] \in Seq(Reply)
      BY <2>1 DEF RingOrderInv, LockInv, LockRecv, TypeOK, Recv
    <3>2. 1 \in 1 .. Len(replies[sock]) /\ Head(replies[sock]) = replies[sock][1]
      BY <3>1
    <3> QED BY <3>1, <3>2 DEF RingOrderInv, ReplyInv
  <2>4. counter \in Int /\ Slots \in Int /\ cur[t] \in Int
    BY BoundsAssumption DEF RingOrderInv, LockInv, TypeOK, Requests, NoRequest
  <2> QED BY <2>1, <2>2, <2>3, <2>4 DEF Intact
<1> QED BY <1>2, <1>3

\* As long as no task is cancelled and no more tasks are in flight than the
\* ring has slots, every answer was computed from the payload of its request.
THEOREM PayloadsOwn == Spec => []PayloadOwn
<1>1. Init => PayloadOwn
  BY DEF Init, PayloadOwn, AnswerIntact
<1> QED BY <1>1, PayloadStep, RingOrderInit, RingOrderStep, PTL DEF Spec

\* The tasks are answered in the order in which they took their slots, also
\* when some of them are cancelled or fail.
THEOREM ServedInOrder == Spec => ServedInTicketOrder
<1> DEFINE A == \A t \in Tasks : outcome'[t] = "ok" /\ outcome[t] # "ok" =>
                  \A u \in Tasks \ {t} : pc[u] # "idle" => cur[t] < cur[u]
<1>1. RingOrderInv /\ [Next]_vars => A
  <2> SUFFICES ASSUME RingOrderInv, [Next]_vars,
                      NEW t \in Tasks, outcome'[t] = "ok", outcome[t] # "ok",
                      NEW u \in Tasks \ {t}, pc[u] # "idle"
               PROVE  cur[t] < cur[u]
    OBVIOUS
  <2>1. Recv(t)
    BY OkComesFromRecv
  <2>2. waiters[1] = t /\ 1 \in 1 .. Len(waiters) /\ Len(waiters) \in Nat
    BY <2>1, HolderFirst DEF Recv, RingOrderInv, LockInv, TypeOK
  <2>3. PICK j \in 1 .. Len(waiters) : waiters[j] = u
    BY DEF RingOrderInv, LockInv, LockBusy
  <2>4. 1 < j
    BY <2>2, <2>3
  <2> QED BY <2>2, <2>3, <2>4 DEF RingOrderInv, OrderInv
<1>2. RingOrderInv /\ [Next]_vars => [A]_vars
  BY <1>1
<1> QED BY <1>2, RingOrderInit, RingOrderStep, PTL DEF Spec, ServedInTicketOrder
-----------------------------------------------------------------------------
(* What the engine runs is paid for.                                       *)

\* Where request id still stands on a connection, and how often the engine has
\* run it or may still run it.
Places(id) == {x \in Conns \X Nat : x[2] \in 1 .. Len(pending[x[1]]) /\ pending[x[1]][x[2]] = id}
Owed(id)   == execs[id] + Cardinality(Places(id))

\* The attempts of t that may have sent its request: the failed ones, and the
\* running one once it has sent.
Budget(t) == IF pc[t] = "wait" \/ attempts[t] = MaxAttempts THEN attempts[t] ELSE attempts[t] + 1

\* Every task has a request of its own, which was issued; what was not issued
\* never ran; what ran or may run was paid by an attempt.
OwnRequest == \A t \in Tasks : cur[t] # NoRequest =>
                cur[t] < counter /\ \A u \in Tasks : cur[u] = cur[t] => u = t
Fresh      == \A id \in Requests : id >= counter => execs[id] = 0
Finite     == \A id \in Requests : IsFiniteSet(Places(id))
Paid       == \A t \in Tasks : cur[t] # NoRequest => Owed(cur[t]) <= Budget(t)

PaidInv == OwnRequest /\ Fresh /\ Finite /\ Paid

\* The numbers in play.
Numbers == /\ counter \in Nat /\ MaxAttempts \in Nat
           /\ \A id \in Requests : /\ id \in Nat /\ execs[id] \in Nat /\ Owed(id) \in Nat
                                   /\ Cardinality(Places(id)) \in Nat
           /\ \A t \in Tasks : /\ attempts[t] \in 0 .. MaxAttempts /\ Budget(t) \in Nat
                               /\ cur[t] # NoRequest => cur[t] \in Requests

LEMMA PaidNumbers == TypeOK /\ Finite => Numbers
<1> SUFFICES ASSUME TypeOK, Finite PROVE Numbers
  OBVIOUS
<1>1. /\ counter \in Nat /\ MaxAttempts \in Nat
      /\ \A t \in Tasks : attempts[t] \in 0 .. MaxAttempts /\ (cur[t] # NoRequest => cur[t] \in Requests)
  BY BoundsAssumption DEF TypeOK
<1>2. ASSUME NEW id \in Requests
      PROVE  id \in Nat /\ execs[id] \in Nat /\ Owed(id) \in Nat /\ Cardinality(Places(id)) \in Nat
  <2>1. id \in Nat /\ execs[id] \in Nat
    BY BoundsAssumption DEF TypeOK, Requests
  <2>2. Cardinality(Places(id)) \in Nat
    BY FS_CardinalityType DEF Finite
  <2> QED BY <2>1, <2>2 DEF Owed
<1>3. \A t \in Tasks : Budget(t) \in Nat
  BY <1>1 DEF Budget
<1> QED BY <1>1, <1>2, <1>3 DEF Numbers

LEMMA PaidNumbersNext == TypeOK' /\ Finite' => Numbers'
BY PaidNumbers, PTL

\* Nothing stands on a connection at the start.
LEMMA PaidInit == Init => PaidInv
<1> SUFFICES ASSUME Init PROVE PaidInv
  OBVIOUS
<1>1. OwnRequest /\ Fresh /\ Paid
  BY DEF Init, OwnRequest, Fresh, Paid
<1>2. ASSUME NEW id \in Requests PROVE Places(id) = {}
  <2>1. \A k \in Conns : Len(pending[k]) = 0
    BY DEF Init
  <2>2. \A x \in Conns \X Nat : Len(pending[x[1]]) = 0
    BY <2>1
  <2> QED BY <2>2 DEF Places
<1>3. Finite
  BY <1>2, FS_EmptySet DEF Finite
<1> QED BY <1>1, <1>3 DEF PaidInv

\* A step that owes nothing new and takes no budget away keeps the invariant.
LEMMA OwesNoMore ==
  ASSUME TypeOK, TypeOK', PaidInv, UNCHANGED <<counter, cur>>, Fresh', Finite',
         \A id \in Requests : Owed(id)' <= Owed(id),
         \A t \in Tasks : Budget(t) <= Budget(t)'
  PROVE  PaidInv'
<1>1. OwnRequest'
  BY DEF PaidInv, OwnRequest
<1>2. Paid'
  <2> SUFFICES ASSUME NEW t \in Tasks, cur[t] # NoRequest PROVE Owed(cur[t])' <= Budget(t)'
    BY DEF Paid
  <2>1. cur[t] \in Requests /\ Owed(cur[t]) <= Budget(t)
    BY PaidNumbers DEF PaidInv, Paid, Numbers
  <2>2. Owed(cur[t])' <= Owed(cur[t]) /\ Budget(t) <= Budget(t)'
    BY <2>1
  <2>3. Owed(cur[t])' \in Nat /\ Owed(cur[t]) \in Nat /\ Budget(t) \in Nat /\ Budget(t)' \in Nat
    BY <2>1, PaidNumbers, PaidNumbersNext DEF PaidInv, Numbers
  <2> QED BY <2>1, <2>2, <2>3
<1> QED BY <1>1, <1>2 DEF PaidInv

\* Frames that are dropped owe nothing any more.
LEMMA DroppedFrames ==
  ASSUME Finite, \A k \in Conns : pending'[k] \in {pending[k], << >>}
  PROVE  /\ Finite'
         /\ \A id \in Requests : /\ Places(id)' \subseteq Places(id)
                                 /\ Cardinality(Places(id)') <= Cardinality(Places(id))
<1>1. ASSUME NEW id \in Requests PROVE Places(id)' \subseteq Places(id)
  <2> SUFFICES ASSUME NEW x \in Conns \X Nat, x[2] \in 1 .. Len(pending'[x[1]]),
                      pending'[x[1]][x[2]] = id
               PROVE  x[2] \in 1 .. Len(pending[x[1]]) /\ pending[x[1]][x[2]] = id
    BY DEF Places
  <2>1. x[1] \in Conns
    OBVIOUS
  <2>2. pending'[x[1]] # << >>
    OBVIOUS
  <2>3. pending'[x[1]] = pending[x[1]]
    BY <2>1, <2>2
  <2> QED BY <2>3
<1>2. ASSUME NEW id \in Requests
      PROVE  IsFiniteSet(Places(id)') /\ Cardinality(Places(id)') <= Cardinality(Places(id))
  BY <1>1, FS_Subset DEF Finite
<1> QED BY <1>1, <1>2 DEF Finite

\* The worker takes the first frame of connection k, and drops the others or not.
LEMMA TakenFrame ==
  ASSUME TypeOK, Finite, NEW k \in Conns, pending[k] # << >>,
         pending' \in {[pending EXCEPT ![k] = Tail(@)], [pending EXCEPT ![k] = << >>]}
  PROVE  /\ Finite'
         /\ \A id \in Requests :
              Cardinality(Places(id)') <= Cardinality(Places(id) \ {<<k, 1>>})
<1>1. pending \in [Conns -> Seq(Requests)] /\ pending[k] \in Seq(Requests)
  BY DEF TypeOK
<1> SUFFICES ASSUME NEW id \in Requests
             PROVE  /\ IsFiniteSet(Places(id)')
                    /\ Cardinality(Places(id)') <= Cardinality(Places(id) \ {<<k, 1>>})
  BY DEF Finite
<1> DEFINE R == Places(id) \ {<<k, 1>>}
<1>2. IsFiniteSet(R)
  BY FS_RemoveElement DEF Finite
<1>3. CASE pending' = [pending EXCEPT ![k] = << >>]
  <2>1. Places(id)' \subseteq R
    <3> SUFFICES ASSUME NEW x \in Conns \X Nat, x[2] \in 1 .. Len(pending'[x[1]]),
                        pending'[x[1]][x[2]] = id
                 PROVE  /\ x[2] \in 1 .. Len(pending[x[1]]) /\ pending[x[1]][x[2]] = id
                        /\ x # <<k, 1>>
      BY DEF Places
    <3>1. x[1] \in Conns /\ x[1] # k
      BY <1>1, <1>3
    <3>2. pending'[x[1]] = pending[x[1]]
      BY <1>1, <1>3, <3>1
    <3> QED BY <3>1, <3>2
  <2> HIDE DEF R
  <2> QED BY <1>2, <2>1, FS_Subset DEF R
<1>4. CASE pending' = [pending EXCEPT ![k] = Tail(@)]
  <2> DEFINE P == Places(id)'
             f == [x \in P |-> IF x[1] = k THEN <<k, x[2] + 1>> ELSE x]
  <2>1. /\ pending'[k] = Tail(pending[k]) /\ Len(pending[k]) = Len(pending'[k]) + 1
        /\ Len(pending'[k]) \in Nat
        /\ \A i \in 1 .. Len(pending'[k]) : pending'[k][i] = pending[k][i + 1]
    <3>1. pending'[k] = Tail(pending[k])
      BY <1>1, <1>4
    <3>2. /\ Tail(pending[k]) \in Seq(Requests) /\ Len(Tail(pending[k])) = Len(pending[k]) - 1
          /\ \A i \in 1 .. Len(Tail(pending[k])) : Tail(pending[k])[i] = pending[k][i + 1]
      BY <1>1, HeadTailProperties
    <3>3. Len(pending[k]) \in Nat /\ Len(Tail(pending[k])) \in Nat
      BY <1>1, <3>2
    <3>4. Len(pending[k]) = Len(Tail(pending[k])) + 1
      BY <3>2, <3>3
    <3> QED BY <3>1, <3>2, <3>3, <3>4
  <2>2. ASSUME NEW x \in P
        PROVE  /\ x \in Conns \X Nat /\ x[2] \in 1 .. Len(pending'[x[1]])
               /\ pending'[x[1]][x[2]] = id
    BY <2>2 DEF Places
  <2>3. ASSUME NEW x \in P PROVE (IF x[1] = k THEN <<k, x[2] + 1>> ELSE x) \in R
    <3>1. CASE x[1] = k
      <4>1. x[2] + 1 \in 1 .. Len(pending[k]) /\ x[2] + 1 # 1 /\ x[2] + 1 \in Nat
        <5> DEFINE n == x[2]
                   l == Len(pending'[k])
        <5>1. n \in 1 .. l
          BY <2>2, <3>1
        <5>2. l \in Nat /\ Len(pending[k]) = l + 1
          BY <2>1
        <5> HIDE DEF n, l
        <5>3. n + 1 \in 1 .. l + 1 /\ n + 1 # 1 /\ n + 1 \in Nat
          BY <5>1, <5>2
        <5> QED BY <5>2, <5>3 DEF n
      <4>2. pending[k][x[2] + 1] = id
        BY <2>1, <2>2, <3>1
      <4>3. <<k, x[2] + 1>> \in Places(id)
        BY <4>1, <4>2 DEF Places
      <4> QED BY <3>1, <4>1, <4>3
    <3>2. CASE x[1] # k
      <4>1. pending'[x[1]] = pending[x[1]]
        BY <1>1, <1>4, <2>2, <3>2
      <4>2. x \in Places(id)
        BY <2>2, <4>1 DEF Places
      <4> QED BY <3>2, <4>2
    <3> QED BY <3>1, <3>2
  <2>4. f \in [P -> R]
    BY <2>3
  <2>5. ASSUME NEW x \in P, NEW y \in P, f[x] = f[y] PROVE x = y
    <3>1. /\ x = <<x[1], x[2]>> /\ y = <<y[1], y[2]>> /\ x[2] \in Nat /\ y[2] \in Nat
      BY <2>2
    <3>2. (IF x[1] = k THEN <<k, x[2] + 1>> ELSE x) = (IF y[1] = k THEN <<k, y[2] + 1>> ELSE y)
      BY <2>5
    <3>3. CASE x[1] = k /\ y[1] = k
      <4>1. x[2] + 1 = y[2] + 1
        BY <3>2, <3>3
      <4>2. x[2] = y[2]
        BY <3>1, <4>1
      <4> QED BY <3>1, <3>3, <4>2
    <3>4. CASE x[1] # k \/ y[1] # k
      BY <3>1, <3>2, <3>4
    <3> QED BY <3>3, <3>4
  <2>6. f \in Injection(P, R)
    BY <2>4, <2>5 DEF Injection, IsInjective
  <2> HIDE DEF P, R, f
  <2>7. IsFiniteSet(P) /\ Cardinality(P) <= Cardinality(R)
    BY <1>2, <2>6, FS_Injection
  <2> QED BY <2>7 DEF P, R
<1> QED BY <1>3, <1>4

\* Sending a request puts it in one more place.
LEMMA SentFrame ==
  ASSUME TypeOK, Finite, NEW k \in Conns, NEW r \in Requests,
         pending' = [pending EXCEPT ![k] = Append(@, r)]
  PROVE  /\ Finite'
         /\ Cardinality(Places(r)') <= Cardinality(Places(r)) + 1
         /\ \A id \in Requests \ {r} : Cardinality(Places(id)') <= Cardinality(Places(id))
<1>1. pending \in [Conns -> Seq(Requests)] /\ pending[k] \in Seq(Requests)
  BY DEF TypeOK
<1> DEFINE last == <<k, Len(pending[k]) + 1>>
<1>2. ASSUME NEW id \in Requests, NEW x \in Places(id)'
      PROVE  x \in Places(id) \/ (id = r /\ x = last)
  <2>1. x \in Conns \X Nat /\ x[2] \in 1 .. Len(pending'[x[1]]) /\ pending'[x[1]][x[2]] = id
    BY <1>2 DEF Places
  <2>2. CASE x[1] = k
    <3>1. pending'[k] = Append(pending[k], r)
      BY <1>1
    <3>2. x[2] \in 1 .. Len(pending[k]) \/ x[2] = Len(pending[k]) + 1
      BY <1>1, <2>1, <2>2, <3>1, AppendLast
    <3>3. CASE x[2] \in 1 .. Len(pending[k])
      <4>1. pending'[k][x[2]] = pending[k][x[2]]
        BY <1>1, <3>1, <3>3, AppendLast
      <4> QED BY <2>1, <2>2, <3>3, <4>1 DEF Places
    <3>4. CASE x[2] = Len(pending[k]) + 1
      <4>1. pending'[k][x[2]] = r
        BY <1>1, <3>1, <3>4, AppendLast
      <4>2. x = <<x[1], x[2]>>
        BY <2>1
      <4> QED BY <2>1, <2>2, <3>4, <4>1, <4>2
    <3> QED BY <3>2, <3>3, <3>4
  <2>3. CASE x[1] # k
    <3>1. pending'[x[1]] = pending[x[1]]
      BY <1>1, <2>1, <2>3
    <3> QED BY <2>1, <3>1 DEF Places
  <2> QED BY <2>2, <2>3
<1> HIDE DEF last
<1>3. ASSUME NEW id \in Requests \ {r}
      PROVE  IsFiniteSet(Places(id)') /\ Cardinality(Places(id)') <= Cardinality(Places(id))
  <2>1. Places(id)' \subseteq Places(id)
    BY <1>2
  <2> QED BY <2>1, FS_Subset DEF Finite
<1>4. IsFiniteSet(Places(r)') /\ Cardinality(Places(r)') <= Cardinality(Places(r)) + 1
  <2> DEFINE P == Places(r)
             Q == Places(r)'
  <2>1. IsFiniteSet(P) /\ Q \subseteq P \cup {last}
    BY <1>2 DEF Finite
  <2> HIDE DEF P, Q
  <2>2. /\ IsFiniteSet(P \cup {last})
        /\ Cardinality(P \cup {last}) = IF last \in P THEN Cardinality(P) ELSE Cardinality(P) + 1
    BY <2>1, FS_AddElement
  <2>3. IsFiniteSet(Q) /\ Cardinality(Q) <= Cardinality(P \cup {last})
    BY <2>1, <2>2, FS_Subset
  <2>4. Cardinality(P) \in Nat /\ Cardinality(Q) \in Nat
    BY <2>1, <2>3, FS_CardinalityType
  <2>5. Cardinality(Q) <= Cardinality(P) + 1
    BY <2>2, <2>3, <2>4
  <2> QED BY <2>3, <2>5 DEF P, Q
<1> QED BY <1>3, <1>4 DEF Finite

\* Each step of the protocol pays for what it adds.
LEMMA PaidStep == RingOrderInv /\ RingOrderInv' /\ PaidInv /\ [Next]_vars => PaidInv'
<1> SUFFICES ASSUME RingOrderInv, RingOrderInv', PaidInv, [Next]_vars PROVE PaidInv'
  OBVIOUS
<1>t. TypeOK /\ TypeOK' /\ LockInv /\ PendingInv
  BY DEF RingOrderInv, LockInv
<1>i. OwnRequest /\ Fresh /\ Finite /\ Paid
  BY DEF PaidInv
<1>n. Numbers
  BY <1>t, <1>i, PaidNumbers
<1>d. ASSUME UNCHANGED <<counter, cur, execs>>,
             \A k \in Conns : pending'[k] \in {pending[k], << >>},
             \A t \in Tasks : Budget(t) <= Budget(t)'
      PROVE  PaidInv'
  <2>1. Finite' /\ \A id \in Requests : Cardinality(Places(id)') <= Cardinality(Places(id))
    BY <1>i, <1>d, DroppedFrames
  <2>2. Numbers'
    BY <1>t, <2>1, PaidNumbersNext
  <2>3. \A id \in Requests : Owed(id)' <= Owed(id)
    <3> TAKE id \in Requests
    <3>1. /\ execs'[id] = execs[id] /\ execs[id] \in Nat
          /\ Cardinality(Places(id)) \in Nat /\ Cardinality(Places(id)') \in Nat
      BY <1>n, <1>d, <2>2 DEF Numbers
    <3>2. Cardinality(Places(id)') <= Cardinality(Places(id))
      BY <2>1
    <3> QED BY <3>1, <3>2 DEF Owed
  <2>4. Fresh'
    BY <1>i, <1>d DEF Fresh
  <2> QED BY <1>t, <1>d, <2>1, <2>3, <2>4, OwesNoMore
<1>s. ASSUME UNCHANGED <<pc, attempts>> PROVE \A t \in Tasks : Budget(t) <= Budget(t)'
  <2>1. \A t \in Tasks : Budget(t)' = Budget(t)
    BY <1>s DEF Budget
  <2> QED BY <1>n, <2>1 DEF Numbers
<1>1. ASSUME NEW t \in Tasks, Request(t) PROVE PaidInv'
  <2>1. /\ counter \in Requests /\ counter' = counter + 1
        /\ cur' = [cur EXCEPT ![t] = counter] /\ UNCHANGED <<pending, execs>>
        /\ attempts' = [attempts EXCEPT ![t] = 0] /\ pc' = [pc EXCEPT ![t] = "wait"]
    BY <1>1, <1>t, BoundsAssumption DEF Request, connVars, workerVars, TypeOK, Requests
  <2>2. /\ cur'[t] = counter /\ attempts'[t] = 0 /\ pc'[t] = "wait"
        /\ \A u \in Tasks \ {t} : /\ cur'[u] = cur[u] /\ attempts'[u] = attempts[u]
                                  /\ pc'[u] = pc[u]
    BY <1>t, <2>1 DEF TypeOK
  <2>3. Finite' /\ \A id \in Requests : Places(id)' = Places(id)
    <3>1. \A id \in Requests : Places(id)' = Places(id)
      BY <2>1 DEF Places
    <3> QED BY <1>i, <3>1 DEF Finite
  <2>4. Fresh'
    <3> SUFFICES ASSUME NEW id \in Requests, id >= counter' PROVE execs'[id] = 0
      BY DEF Fresh
    <3>1. id >= counter
      BY <1>n, <2>1 DEF Numbers
    <3> QED BY <1>i, <2>1, <3>1 DEF Fresh
  <2>5. OwnRequest'
    <3>1. \A u \in Tasks : cur[u] # NoRequest => cur[u] < counter /\ cur[u] \in Nat /\ cur[u] # counter
      BY <1>i, <1>n DEF OwnRequest, Numbers
    <3>2. counter # NoRequest /\ counter \in Nat
      BY <1>n DEF Numbers, NoRequest
    <3>3. \A u \in Tasks : cur'[u] # NoRequest => cur'[u] < counter'
      <4>1. counter < counter'
        BY <2>1, <3>2
      <4>2. \A u \in Tasks : cur[u] # NoRequest => cur[u] < counter'
        BY <2>1, <3>1, <3>2
      <4> QED BY <2>2, <4>1, <4>2
    <3>4. \A u, v \in Tasks : cur'[u] = cur'[v] /\ cur'[u] # NoRequest => v = u
      BY <1>i, <2>2, <3>1, <3>2 DEF OwnRequest
    <3> QED BY <3>3, <3>4 DEF OwnRequest
  <2>6. PICK c \in Requests : c = counter
    BY <2>1
  <2>7. Owed(c)' = 0
    <3>1. Places(c) = {}
      <4>1. \A x \in Conns \X Nat : x[2] \in 1 .. Len(pending[x[1]])
              => pending[x[1]][x[2]] < counter
        BY <1>t DEF PendingInv
      <4>2. ~(counter < counter)
        BY <1>n DEF Numbers
      <4>3. \A x \in Conns \X Nat : x[2] \in 1 .. Len(pending[x[1]])
              => pending[x[1]][x[2]] # counter
        BY <4>1, <4>2
      <4> QED BY <2>6, <4>3 DEF Places
    <3>2. execs'[c] = 0
      BY <1>i, <1>n, <2>1, <2>6 DEF Fresh, Numbers
    <3>3. Cardinality(Places(c)') = 0
      BY <2>3, <3>1, FS_EmptySet
    <3> QED BY <3>2, <3>3 DEF Owed
  <2>8. \A id \in Requests : Owed(id)' = Owed(id)
    BY <2>1, <2>3 DEF Owed
  <2>9. Paid'
    <3> SUFFICES ASSUME NEW u \in Tasks, cur'[u] # NoRequest PROVE Owed(cur[u])' <= Budget(u)'
      BY DEF Paid
    <3>1. PICK id \in Requests : id = cur'[u]
      BY <1>n, <2>1, <2>2 DEF Numbers
    <3>2. CASE u = t
      <4>1. Budget(u)' = 0
        BY <2>2, <3>2 DEF Budget
      <4>2. id = c
        BY <2>2, <2>6, <3>1, <3>2
      <4>3. Owed(id)' <= Budget(u)'
        BY <2>7, <4>1, <4>2
      <4> QED BY <3>1, <4>3
    <3>3. CASE u # t
      <4>1. Budget(u)' = Budget(u) /\ cur'[u] = cur[u]
        BY <2>2, <3>3 DEF Budget
      <4>2. Owed(id)' <= Budget(u)'
        BY <1>i, <2>8, <3>1, <4>1 DEF Paid
      <4> QED BY <3>1, <4>2
    <3> QED BY <3>2, <3>3
  <2> QED BY <2>3, <2>4, <2>5, <2>9 DEF PaidInv
<1>2. ASSUME NEW t \in Tasks, Connect(t) PROVE PaidInv'
  <2>1. UNCHANGED <<counter, cur, execs, pending, pc, attempts>>
    BY <1>2 DEF Connect, ringVars, taskVars, workerVars
  <2> QED BY <2>1, <1>d, <1>s
<1>3. ASSUME NEW t \in Tasks, Send(t) PROVE PaidInv'
  <2>1. /\ Holds(t) /\ pc[t] = "wait" /\ sock \in Conns
        /\ pending' = [pending EXCEPT ![sock] = Append(@, cur[t])]
        /\ pc' = [pc EXCEPT ![t] = "recv"]
        /\ UNCHANGED <<counter, cur, attempts, execs>>
    BY <1>3, <1>t DEF Send, TypeOK, Conns, ringVars, workerVars
  <2>2. PICK r \in Requests : r = cur[t]
    BY <1>t, <2>1, HolderFirst
  <2>3. PICK k \in Conns : k = sock
    BY <2>1
  <2>4. /\ Finite'
        /\ Cardinality(Places(r)') <= Cardinality(Places(r)) + 1
        /\ \A id \in Requests \ {r} : Cardinality(Places(id)') <= Cardinality(Places(id))
    <3>1. pending' = [pending EXCEPT ![k] = Append(@, r)]
      BY <2>1, <2>2, <2>3
    <3> QED BY <1>t, <1>i, <3>1, SentFrame
  <2>5. Numbers'
    BY <1>t, <2>4, PaidNumbersNext
  <2>6. Owed(r)' <= Owed(r) + 1
    <3>1. /\ execs'[r] = execs[r] /\ execs[r] \in Nat
          /\ Cardinality(Places(r)) \in Nat /\ Cardinality(Places(r)') \in Nat
      BY <1>n, <2>1, <2>5 DEF Numbers
    <3> QED BY <2>4, <3>1 DEF Owed
  <2>7. ASSUME NEW id \in Requests \ {r} PROVE Owed(id)' <= Owed(id)
    <3>1. /\ execs'[id] = execs[id] /\ execs[id] \in Nat
          /\ Cardinality(Places(id)) \in Nat /\ Cardinality(Places(id)') \in Nat
      BY <1>n, <2>1, <2>5 DEF Numbers
    <3>2. Cardinality(Places(id)') <= Cardinality(Places(id))
      BY <2>4
    <3> QED BY <3>1, <3>2 DEF Owed
  <2>8. Budget(t)' = Budget(t) + 1
    <3>1. /\ pc[t] = "wait" /\ pc'[t] = "recv" /\ attempts'[t] = attempts[t]
          /\ attempts[t] # MaxAttempts
      BY <1>t, <1>n, <2>1, HolderFirst DEF Numbers, TypeOK
    <3> QED BY <3>1 DEF Budget
  <2>9. Paid'
    <3> SUFFICES ASSUME NEW u \in Tasks, cur'[u] # NoRequest PROVE Owed(cur[u])' <= Budget(u)'
      BY DEF Paid
    <3>1. PICK id \in Requests : id = cur'[u]
      BY <1>n, <2>1 DEF Numbers
    <3>2. Owed(id) <= Budget(u)
      BY <1>i, <2>1, <3>1 DEF Paid
    <3>3. /\ Owed(id) \in Nat /\ Owed(id)' \in Nat /\ Budget(u) \in Nat /\ Budget(u)' \in Nat
      BY <1>n, <2>5 DEF Numbers
    <3>4. CASE u = t
      <4>1. id = r
        BY <2>1, <2>2, <3>1, <3>4
      <4>2. Owed(id)' <= Budget(u)'
        BY <2>6, <2>8, <3>2, <3>3, <3>4, <4>1
      <4> QED BY <3>1, <4>2
    <3>5. CASE u # t
      <4>1. id \in Requests \ {r}
        BY <1>i, <2>1, <2>2, <3>1, <3>5 DEF OwnRequest
      <4>2. Budget(u)' = Budget(u)
        BY <1>t, <2>1, <3>5 DEF Budget, TypeOK
      <4>3. Owed(id)' <= Budget(u)'
        BY <2>7, <3>2, <3>3, <4>1, <4>2
      <4> QED BY <3>1, <4>3
    <3> QED BY <3>4, <3>5
  <2>10. OwnRequest' /\ Fresh'
    BY <1>i, <2>1 DEF OwnRequest, Fresh
  <2> QED BY <2>4, <2>9, <2>10 DEF PaidInv
<1>a. ASSUME NEW t \in Tasks, pc[t] # "idle",
             \/ pc' = [pc EXCEPT ![t] = "idle"] /\ attempts' = attempts
             \/ /\ attempts' = [attempts EXCEPT ![t] = @ + 1]
                /\ pc'[t] = "wait" \/ attempts[t] + 1 = MaxAttempts
                /\ \A u \in Tasks \ {t} : pc'[u] = pc[u]
      PROVE  \A u \in Tasks : Budget(u) <= Budget(u)'
  <2>1. attempts[t] \in Nat /\ attempts[t] # MaxAttempts
    BY <1>a, <1>t, <1>n DEF LockInv, LockWork, Numbers
  <2>2. ASSUME NEW u \in Tasks \ {t} PROVE Budget(u)' = Budget(u)
    BY <1>a, <1>t DEF Budget, TypeOK
  <2>3. Budget(t) <= attempts[t] + 1
    BY <2>1 DEF Budget
  <2>4. Budget(t)' = attempts[t] + 1
    <3>1. CASE pc' = [pc EXCEPT ![t] = "idle"] /\ attempts' = attempts
      <4>1. pc'[t] = "idle" /\ attempts'[t] = attempts[t]
        BY <1>t, <3>1 DEF TypeOK
      <4> QED BY <2>1, <4>1 DEF Budget
    <3>2. CASE /\ attempts' = [attempts EXCEPT ![t] = @ + 1]
               /\ pc'[t] = "wait" \/ attempts[t] + 1 = MaxAttempts
      <4>1. attempts'[t] = attempts[t] + 1
        BY <1>t, <3>2 DEF TypeOK
      <4> QED BY <3>2, <4>1 DEF Budget
    <3> QED BY <1>a, <3>1, <3>2
  <2>5. \A u \in Tasks : Budget(u) \in Nat
    BY <1>n DEF Numbers
  <2> QED BY <2>1, <2>2, <2>3, <2>4, <2>5
<1>4. ASSUME NEW t \in Tasks, Recv(t) PROVE PaidInv'
  <2>1. /\ UNCHANGED <<counter, cur, execs, pending, attempts>>
        /\ pc' = [pc EXCEPT ![t] = "idle"] /\ pc[t] # "idle"
    BY <1>4 DEF Recv, Leave, ringVars, workerVars
  <2> QED BY <2>1, <1>a, <1>d
<1>5. ASSUME NEW t \in Tasks, AttemptFails(t) PROVE PaidInv'
  <2>1. /\ UNCHANGED <<counter, cur, execs, pending>> /\ Holds(t)
        /\ attempts' = [attempts EXCEPT ![t] = @ + 1]
    BY <1>5 DEF AttemptFails, ringVars, workerVars
  <2>2. /\ pc'[t] = "wait" \/ attempts[t] + 1 = MaxAttempts
        /\ \A u \in Tasks \ {t} : pc'[u] = pc[u]
    BY <1>5, <1>t DEF AttemptFails, Leave, TypeOK
  <2>3. pc[t] # "idle"
    BY <1>t, <2>1, HolderFirst
  <2> QED BY <2>1, <2>2, <2>3, <1>a, <1>d
<1>6. ASSUME NEW t \in Tasks, Cancel(t) PROVE PaidInv'
  <2>1. /\ UNCHANGED <<counter, cur, execs, pending, attempts>>
        /\ pc' = [pc EXCEPT ![t] = "idle"] /\ pc[t] # "idle"
    BY <1>6 DEF Cancel, Withdraw, ringVars, connVars, workerVars
  <2> QED BY <2>1, <1>a, <1>d
<1>7. ASSUME NEW k \in Conns, Execute(k) PROVE PaidInv'
  <2>1. /\ pending[k] # << >>
        /\ UNCHANGED <<counter, cur, pc, attempts>>
        /\ pending' \in {[pending EXCEPT ![k] = Tail(@)], [pending EXCEPT ![k] = << >>]}
        /\ execs' = [execs EXCEPT ![Head(pending[k])] = @ + 1]
    BY <1>7 DEF Execute, ringVars, taskVars
  <2>2. PICK r \in Requests : /\ r = Head(pending[k]) /\ r = pending[k][1] /\ r < counter
                              /\ 1 \in 1 .. Len(pending[k])
    <3>1. pending[k] \in Seq(Requests)
      BY <1>t DEF TypeOK
    <3>2. 1 \in 1 .. Len(pending[k]) /\ Head(pending[k]) = pending[k][1]
      BY <2>1, <3>1
    <3>3. pending[k][1] \in Requests
      BY <3>1, <3>2, ElementOfSeq
    <3> QED BY <1>t, <3>2, <3>3 DEF PendingInv
  <2>3. /\ Finite'
        /\ \A id \in Requests : Cardinality(Places(id)') <= Cardinality(Places(id) \ {<<k, 1>>})
    BY <1>t, <1>i, <2>1, TakenFrame
  <2>4. Numbers'
    BY <1>t, <2>3, PaidNumbersNext
  <2>5. \A id \in Requests : execs'[id] = IF id = r THEN execs[id] + 1 ELSE execs[id]
    BY <1>t, <2>1, <2>2 DEF TypeOK
  <2>6. ASSUME NEW id \in Requests PROVE Owed(id)' <= Owed(id)
    <3>1. <<k, 1>> \in Places(id) <=> id = r
      BY <2>2 DEF Places
    <3>2. Cardinality(Places(id) \ {<<k, 1>>})
            = IF id = r THEN Cardinality(Places(id)) - 1 ELSE Cardinality(Places(id))
      BY <1>i, <3>1, FS_RemoveElement DEF Finite
    <3>3. /\ execs[id] \in Nat /\ Cardinality(Places(id)) \in Nat
          /\ Cardinality(Places(id)') \in Nat
      BY <1>n, <2>4 DEF Numbers
    <3> DEFINE p == Cardinality(Places(id))
               q == Cardinality(Places(id)')
               m == execs[id]
               n == execs'[id]
    <3>4. /\ m \in Nat /\ p \in Nat /\ q \in Nat
          /\ q <= IF id = r THEN p - 1 ELSE p
          /\ n = IF id = r THEN m + 1 ELSE m
      BY <2>3, <2>5, <3>2, <3>3
    <3> HIDE DEF p, q, m, n
    <3>5. n + q <= m + p
      BY <3>4
    <3> QED BY <3>5 DEF Owed, p, q, m, n
  <2>7. Fresh'
    <3> SUFFICES ASSUME NEW id \in Requests, id >= counter' PROVE execs'[id] = 0
      BY DEF Fresh
    <3>1. id # r
      BY <1>n, <2>1, <2>2 DEF Numbers
    <3> QED BY <1>i, <2>1, <2>5, <3>1 DEF Fresh
  <2> QED BY <1>t, <2>1, <2>3, <2>6, <2>7, <1>s, OwesNoMore
<1>8. ASSUME NEW k \in Conns, BreakLink(k) PROVE PaidInv'
  <2>1. UNCHANGED <<counter, cur, execs, pc, attempts>>
    BY <1>8 DEF BreakLink, ringVars, taskVars, workerVars
  <2>2. \A c \in Conns : pending'[c] \in {pending[c], << >>}
    BY <1>8, <1>t DEF BreakLink, TypeOK
  <2> QED BY <2>1, <2>2, <1>d, <1>s
<1>9. ASSUME Crash PROVE PaidInv'
  <2>1. UNCHANGED <<counter, cur, execs, pc, attempts>>
    BY <1>9 DEF Crash, ringVars, taskVars
  <2>2. \A c \in Conns : pending'[c] \in {pending[c], << >>}
    BY <1>9 DEF Crash
  <2> QED BY <2>1, <2>2, <1>d, <1>s
<1>10. ASSUME Restart \/ UNCHANGED vars PROVE PaidInv'
  <2>1. UNCHANGED <<counter, cur, execs, pending, pc, attempts>>
    BY <1>10 DEF Restart, vars, ringVars, taskVars, connVars, workerVars
  <2> QED BY <2>1, <1>d, <1>s
<1> QED BY <1>1, <1>2, <1>3, <1>4, <1>5, <1>6, <1>7, <1>8, <1>9, <1>10 DEF Next, Roundtrip

\* However often the connection breaks or the worker restarts, the engine runs
\* a request at most once for every attempt of its roundtrip.
THEOREM RunsArePaid == Spec => []ExecBound
<1>1. RingOrderInv /\ PaidInv => ExecBound
  <2> SUFFICES ASSUME TypeOK, PaidInv, NEW t \in Tasks, cur[t] # NoRequest
               PROVE  execs[cur[t]] <= attempts[t] + 1 /\ execs[cur[t]] <= MaxAttempts
    BY DEF ExecBound, RingOrderInv, LockInv
  <2>1. Numbers
    BY PaidNumbers DEF PaidInv
  <2>2. cur[t] \in Requests /\ Owed(cur[t]) <= Budget(t)
    BY <2>1 DEF PaidInv, Paid, Numbers
  <2>3. execs[cur[t]] \in Nat /\ Cardinality(Places(cur[t])) \in Nat
    BY <2>1, <2>2 DEF Numbers
  <2>4. execs[cur[t]] <= Budget(t)
    <3>1. execs[cur[t]] + Cardinality(Places(cur[t])) <= Budget(t) /\ Budget(t) \in Nat
      BY <2>1, <2>2 DEF Owed, Numbers
    <3> QED BY <2>3, <3>1
  <2>5. /\ attempts[t] \in Nat /\ MaxAttempts \in Nat /\ attempts[t] <= MaxAttempts
    BY <2>1 DEF Numbers
  <2>6. Budget(t) <= attempts[t] + 1 /\ Budget(t) <= MaxAttempts /\ Budget(t) \in Nat
    BY <2>5 DEF Budget
  <2> QED BY <2>3, <2>4, <2>5, <2>6
<1>2. Init => RingOrderInv /\ PaidInv
  BY RingOrderInit, PaidInit
<1>3. RingOrderInv /\ PaidInv /\ [Next]_vars => (RingOrderInv /\ PaidInv)'
  BY RingOrderStep, PaidStep
<1> QED BY <1>1, <1>2, <1>3, PTL DEF Spec
-----------------------------------------------------------------------------
-----------------------------------------------------------------------------
(* WorkerStream: frames that are cut off.                                  *)

\* No task at work waits for request id.
Over(id) == id < counter /\ \A t \in Tasks : pc[t] # "idle" => cur[t] # id

\* A frame with foreign bytes in it belongs to a request that is over, or to none; so
\* does a reply that was not computed from the frame of its request.
SoundFrames  == {f \in Frames : IF f.whole THEN f.id \in Requests ELSE f.id = Garbage \/ Over(f.id)}
SoundReplies == {r \in Answers : r.id = NoRequest \/ r.data = r.id \/ Over(r.id)}
SoundCuts    == {NoRequest, Garbage, Oversize} \cup {id \in Requests : Over(id)}

StreamTypes ==
  /\ counter \in 0 .. MaxRequests /\ nconn \in 0 .. MaxConns /\ sock \in 0 .. nconn
  /\ pc \in [Tasks -> {"idle", "wait", "sending", "recv"}]
  /\ cur \in [Tasks -> Requests \cup {NoRequest}]
  /\ outcome \in [Tasks -> {"none", "ok", "error", "cancelled"}]
  /\ answer \in [Tasks -> Answers]
  /\ waiters \in Seq(Tasks)
  /\ skewed \in [Conns -> BOOLEAN]

\* The holder of the lock alone is at the socket.
AtSocket == \A t \in Tasks : pc[t] \in {"sending", "recv"} => Holds(t) /\ sock \in Conns

\* Tasks at work have requests of their own, already numbered.
OwnNumbers ==
  /\ \A t \in Tasks : pc[t] # "idle" => cur[t] \in Requests /\ cur[t] < counter
  /\ \A t, u \in Tasks : pc[t] # "idle" /\ pc[u] # "idle" /\ cur[t] = cur[u] => t = u

Sound ==
  /\ torn \in [Conns -> SoundCuts]
  /\ pending \in [Conns -> Seq(SoundFrames)]
  /\ replies \in [Conns -> Seq(SoundReplies)]

StreamInv == StreamTypes /\ AtSocket /\ OwnNumbers /\ Sound /\ AnswerFromOwnFrame

LEMMA StreamFirst == StreamInit => StreamInv
<1> SUFFICES ASSUME StreamInit PROVE StreamInv
  OBVIOUS
<1> USE DEF StreamInit, Init
<1>1. StreamTypes
  BY BoundsAssumption DEF StreamTypes, Answers, NoAnswer
<1>2. AtSocket /\ OwnNumbers
  BY DEF AtSocket, OwnNumbers
<1>3. Sound
  BY EmptySeq DEF Sound, SoundCuts
<1>4. AnswerFromOwnFrame
  BY DEF AnswerFromOwnFrame, AnswerOwn, AnswerIntact
<1> QED BY <1>1, <1>2, <1>3, <1>4 DEF StreamInv

\* A step numbers a new request, for a task that was idle, or leaves the tasks their
\* requests and sets none to work.
Numbering ==
  \/ \E t \in Tasks : Request(t)
  \/ UNCHANGED <<counter, cur>> /\ \A t \in Tasks : pc'[t] # "idle" => pc[t] # "idle"

LEMMA StreamNumbers ==
  ASSUME StreamInv, [StreamNext]_allVars
  PROVE  Numbering
<1> USE DEF StreamInv, StreamTypes
<1>1. CASE UNCHANGED allVars
  BY <1>1 DEF Numbering, allVars, vars, ringVars, taskVars
<1>2. ASSUME NEW t \in Tasks, Request(t) PROVE Numbering
  BY <1>2 DEF Numbering
<1>3. ASSUME NEW t \in Tasks, Connect(t) \/ AttemptFails(t) \/ SendPart(t) \/ SendRest(t)
                              \/ RecvWhole(t) \/ RecvSkewed(t)
      PROVE  Numbering
  <2>1. pc[t] # "idle" /\ UNCHANGED <<counter, cur>>
    BY <1>3 DEF Connect, AttemptFails, AttemptBroken, SendPart, SendRest, RecvWhole, Recv,
         RecvSkewed, ringVars, taskVars, Holds, StreamInv
  <2> QED BY <1>3, <2>1 DEF Numbering, Connect, AttemptFails, SendPart, SendRest, RecvWhole,
         Recv, RecvSkewed, Leave, taskVars
<1>4. ASSUME NEW t \in Tasks, Cancel(t) \/ CancelSending(t) \/ CancelReading(t) PROVE Numbering
  BY <1>4 DEF Numbering, Cancel, CancelSending, CancelReading, Withdraw, ringVars
<1>5. ASSUME NEW k \in Conns, Serves(k) \/ BreakLink(k) PROVE Numbering
  BY <1>5 DEF Numbering, Serves, ExecuteFrame, ReaderEnded, BreakLink, ringVars, taskVars
<1>6. CASE Crash \/ Restart
  BY <1>6 DEF Numbering, Crash, Restart, ringVars, taskVars
<1> QED BY <1>1, <1>2, <1>3, <1>4, <1>5, <1>6 DEF StreamNext, StreamRoundtrip

LEMMA OverStays ==
  ASSUME StreamInv, [StreamNext]_allVars, NEW id \in Int, Over(id)
  PROVE  Over(id)'
<1>1. CASE UNCHANGED <<counter, cur>> /\ \A t \in Tasks : pc'[t] # "idle" => pc[t] # "idle"
  BY <1>1 DEF Over
<1>2. ASSUME NEW t \in Tasks, Request(t) PROVE Over(id)'
  <2>1. counter \in Nat /\ counter' = counter + 1
    BY <1>2, BoundsAssumption DEF Request, StreamInv, StreamTypes
  <2>2. /\ cur' = [cur EXCEPT ![t] = counter] /\ pc' = [pc EXCEPT ![t] = "wait"]
        /\ cur \in [Tasks -> Requests \cup {NoRequest}]
        /\ pc \in [Tasks -> {"idle", "wait", "sending", "recv"}]
    BY <1>2 DEF Request, StreamInv, StreamTypes
  <2>3. id < counter'
    BY <2>1 DEF Over
  <2>4. ASSUME NEW u \in Tasks, pc'[u] # "idle" PROVE cur'[u] # id
    BY <2>1, <2>2, <2>4 DEF Over
  <2> QED BY <2>3, <2>4 DEF Over
<1> QED BY <1>1, <1>2, StreamNumbers DEF Numbering

\* What was sound stays so: only additions have to be looked at.
LEMMA SoundStays ==
  ASSUME StreamInv, [StreamNext]_allVars
  PROVE  /\ SoundFrames \subseteq SoundFrames'
         /\ SoundReplies \subseteq SoundReplies'
         /\ SoundCuts \subseteq SoundCuts'
<1>1. \A id \in Int : Over(id) => Over(id)'
  BY OverStays
<1>2. Requests \subseteq Int /\ Garbage \in Int
  BY DEF Requests, Garbage
<1>3. SoundFrames \subseteq SoundFrames'
  BY <1>1, <1>2 DEF SoundFrames, Frames
<1>4. SoundReplies \subseteq SoundReplies'
  <2>1. \A r \in Answers : r.id # NoRequest => r.id \in Int
    BY <1>2 DEF Answers
  <2> QED BY <1>1, <2>1 DEF SoundReplies
<1>5. SoundCuts \subseteq SoundCuts'
  BY <1>1, <1>2 DEF SoundCuts
<1> QED BY <1>3, <1>4, <1>5

\* What a send leaves on the stream, whole or cut off.
LEMMA TakeSound ==
  ASSUME StreamInv, SoundFrames \subseteq SoundFrames', SoundCuts \subseteq SoundCuts',
         NEW k, NEW id \in Requests, Take(k, id)
  PROVE  torn' \in [Conns -> SoundCuts'] /\ pending' \in [Conns -> Seq(SoundFrames')]
<1> USE DEF StreamInv, Sound
<1>1. torn \in [Conns -> SoundCuts'] /\ pending \in [Conns -> Seq(SoundFrames')]
  BY SeqMonotonic
<1>2. Whole(id) \in SoundFrames'
  <2>1. Whole(id) \in SoundFrames
    BY DEF Whole, SoundFrames, Frames
  <2> QED BY <2>1
<1>3. {NoRequest, Garbage, Oversize} \subseteq SoundCuts'
  BY DEF SoundCuts
<1>4. CASE torn[k] = NoRequest /\ torn' = torn /\ pending' = [pending EXCEPT ![k] = Append(@, Whole(id))]
  <2>1. \A x \in Conns : Append(pending[x], Whole(id)) \in Seq(SoundFrames')
    BY <1>1, <1>2, AppendProperties
  <2> QED BY <1>1, <1>4, <2>1
<1>5. CASE UNCHANGED <<pending, torn>>
  BY <1>1, <1>5
<1>6. ASSUME NEW more \in {<< >>, <<Cut(Garbage)>>}, NEW next \in {NoRequest, Garbage, Oversize},
             torn[k] \notin {NoRequest, Oversize},
             pending' = [pending EXCEPT ![k] = Append(@, Cut(torn[k])) \o more],
             torn' = [torn EXCEPT ![k] = next]
      PROVE  torn' \in [Conns -> SoundCuts'] /\ pending' \in [Conns -> Seq(SoundFrames')]
  <2>1. Cut(Garbage) \in SoundFrames
    BY DEF Cut, SoundFrames, Frames
  <2>2. more \in Seq(SoundFrames')
    <3>1. << >> \in Seq(SoundFrames') /\ Append(<< >>, Cut(Garbage)) \in Seq(SoundFrames')
      BY <2>1, EmptySeq, AppendProperties
    <3>2. Append(<< >>, Cut(Garbage)) = <<Cut(Garbage)>>
      OBVIOUS
    <3> QED BY <3>1, <3>2
  <2>3. ASSUME NEW x \in Conns, x = k
        PROVE  Append(pending[x], Cut(torn[k])) \o more \in Seq(SoundFrames')
    <3>1. torn[k] = Garbage \/ (torn[k] \in Requests /\ Over(torn[k]))
      BY <1>6, <2>3 DEF SoundCuts
    <3>2. Cut(torn[k]) \in SoundFrames
      BY <3>1 DEF Cut, SoundFrames, Frames
    <3>3. Append(pending[x], Cut(torn[k])) \in Seq(SoundFrames')
      BY <1>1, <3>2, AppendProperties
    <3> QED BY <2>2, <3>3, ConcatProperties
  <2>4. pending' \in [Conns -> Seq(SoundFrames')]
    <3>1. \A x \in Conns : pending'[x] = IF x = k THEN Append(pending[x], Cut(torn[k])) \o more ELSE pending[x]
      BY <1>1, <1>6
    <3>2. pending' = [x \in Conns |-> pending'[x]]
      BY <1>1, <1>6
    <3>3. \A x \in Conns : pending'[x] \in Seq(SoundFrames')
      BY <1>1, <2>3, <3>1
    <3> QED BY <3>2, <3>3
  <2> QED BY <1>1, <1>3, <1>6, <2>4
<1> QED BY <1>4, <1>5, <1>6 DEF Take

LEMMA SoundStep ==
  ASSUME StreamInv, [StreamNext]_allVars
  PROVE  Sound'
<1> USE DEF StreamInv, Sound
<1>1. /\ SoundFrames \subseteq SoundFrames' /\ SoundReplies \subseteq SoundReplies'
      /\ SoundCuts \subseteq SoundCuts'
  BY SoundStays
<1>2. /\ torn \in [Conns -> SoundCuts'] /\ pending \in [Conns -> Seq(SoundFrames')]
      /\ replies \in [Conns -> Seq(SoundReplies')]
  BY <1>1, SeqMonotonic
<1>3. CASE UNCHANGED <<torn, pending, replies>>
  BY <1>2, <1>3
<1>4. ASSUME NEW t \in Tasks, SendRest(t) \/ CancelSending(t) PROVE Sound'
  <2>1. cur[t] \in Requests /\ cur[t] < counter /\ replies' = replies
    BY <1>4 DEF SendRest, CancelSending, OwnNumbers
  <2>2. CASE Take(sock, cur[t])
    BY <1>1, <1>2, <2>1, <2>2, TakeSound
  <2>3. CASE UNCHANGED <<pending, torn>>
    BY <1>2, <2>1, <2>3
  <2>4. CASE CancelSending(t) /\ torn' = [torn EXCEPT ![sock] = cur[t]] /\ UNCHANGED pending
    <3>1. pc' = [pc EXCEPT ![t] = "idle"] /\ UNCHANGED <<counter, cur>> /\ pc[t] # "idle"
      BY <2>4 DEF CancelSending, Withdraw, ringVars
    <3>2. \A u \in Tasks : pc'[u] # "idle" => u # t /\ pc[u] # "idle"
      BY <3>1 DEF StreamTypes
    <3>3. Over(cur[t])'
      BY <2>1, <3>1, <3>2 DEF Over, OwnNumbers
    <3>4. cur[t] \in SoundCuts'
      BY <2>1, <3>1, <3>3 DEF SoundCuts
    <3> QED BY <1>2, <2>1, <2>4, <3>4
  <2> QED BY <1>4, <2>2, <2>3, <2>4 DEF SendRest, CancelSending
<1>5. ASSUME NEW t \in Tasks, CancelReading(t) \/ RecvSkewed(t) \/ RecvWhole(t) PROVE Sound'
  <2>1. UNCHANGED <<torn, pending>>
    BY <1>5 DEF CancelReading, RecvSkewed, RecvWhole, Recv, streamVars, Cancel, connVars
  <2>2. CASE replies' = replies
    BY <1>2, <2>1, <2>2
  <2>3. CASE replies[sock] # << >> /\ replies' = [replies EXCEPT ![sock] = Tail(@)]
    <3>1. \A x \in Conns : x = sock => Tail(replies[x]) \in Seq(SoundReplies')
      BY <1>2, <2>3, HeadTailProperties
    <3> QED BY <1>2, <2>1, <2>3, <3>1
  <2> QED BY <1>5, <2>2, <2>3 DEF CancelReading, RecvSkewed, RecvWhole, Recv, Cancel, connVars
<1>6. ASSUME NEW k \in Conns, ExecuteFrame(k) PROVE Sound'
  <2> DEFINE f == Head(pending[k])
             rs == IF f.whole THEN {[id |-> f.id, data |-> f.id]}
                   ELSE [id : {NoRequest} \cup ({f.id} \cap Requests), data : {NoRequest}]
  <2>1. pending[k] # << >> /\ torn' = torn
    BY <1>6 DEF ExecuteFrame, streamVars
  <2>2. f \in SoundFrames /\ Tail(pending[k]) \in Seq(SoundFrames')
    BY <1>2, <2>1, HeadTailProperties
  <2>3. rs \subseteq SoundReplies
    <3>1. CASE f.whole
      BY <2>2, <3>1 DEF SoundFrames, SoundReplies, Answers
    <3>2. CASE ~f.whole
      <4>1. f.id \in Requests => Over(f.id)
        BY <2>2, <3>2 DEF SoundFrames, Frames, Requests, Garbage
      <4> QED BY <3>2, <4>1 DEF SoundReplies, Answers
    <3> QED BY <3>1, <3>2
  <2>4. \/ /\ pending' = [pending EXCEPT ![k] = Tail(@)]
           /\ \E r \in rs : replies' = [replies EXCEPT ![k] = Append(@, r)]
        \/ pending' = [pending EXCEPT ![k] = << >>] /\ replies' = replies
    BY <1>6 DEF ExecuteFrame
  <2> HIDE DEF f, rs
  <2>5. pending' \in [Conns -> Seq(SoundFrames')]
    <3>1. << >> \in Seq(SoundFrames')
      BY EmptySeq
    <3> QED BY <1>2, <2>2, <2>4, <3>1
  <2>6. replies' \in [Conns -> Seq(SoundReplies')]
    <3>1. ASSUME NEW r \in rs PROVE Append(replies[k], r) \in Seq(SoundReplies')
      BY <1>1, <1>2, <2>3, AppendProperties
    <3> QED BY <1>2, <2>4, <3>1
  <2> QED BY <1>2, <2>1, <2>5, <2>6
<1>7. ASSUME NEW k \in Conns, ReaderEnded(k) \/ BreakLink(k), UNCHANGED torn PROVE Sound'
  <2>1. << >> \in Seq(SoundFrames') /\ << >> \in Seq(SoundReplies')
    BY EmptySeq
  <2>2. \E p \in {pending[k], << >>}, r \in {replies[k], << >>} :
          pending' \in {pending, [pending EXCEPT ![k] = p]} /\ replies' = [replies EXCEPT ![k] = r]
    BY <1>7 DEF ReaderEnded, BreakLink
  <2>3. pending' \in [Conns -> Seq(SoundFrames')] /\ replies' \in [Conns -> Seq(SoundReplies')]
    BY <1>2, <2>1, <2>2
  <2> QED BY <1>2, <1>7, <2>3
<1>8. CASE Crash /\ UNCHANGED torn
  <2>1. << >> \in Seq(SoundFrames') /\ << >> \in Seq(SoundReplies')
    BY EmptySeq
  <2>2. pending' = [k \in Conns |-> << >>] /\ replies' \in {replies, [k \in Conns |-> << >>]}
    BY <1>8 DEF Crash
  <2> QED BY <1>2, <1>8, <2>1, <2>2
<1>9. ASSUME NEW t \in Tasks,
             \/ (Request(t) \/ Cancel(t) \/ Connect(t) \/ AttemptFails(t)) /\ UNCHANGED streamVars
             \/ SendPart(t)
      PROVE  UNCHANGED <<torn, pending, replies>>
  BY <1>9 DEF Request, Cancel, Connect, AttemptFails, SendPart, streamVars, connVars
<1>10. CASE Restart /\ UNCHANGED streamVars
  BY <1>3, <1>10 DEF Restart, streamVars, connVars
<1>11. CASE UNCHANGED allVars
  BY <1>3, <1>11 DEF allVars, vars, streamVars, connVars
<1>12. ASSUME NEW k \in Conns, ReaderEnded(k) PROVE UNCHANGED torn
  BY <1>12 DEF ReaderEnded, streamVars
<1> QED
  BY <1>3, <1>4, <1>5, <1>6, <1>7, <1>8, <1>9, <1>10, <1>11, <1>12
     DEF StreamNext, StreamRoundtrip, Serves, streamVars

\* What a response that carries the id of a request at work was computed from.
LEMMA OwnReply ==
  ASSUME StreamInv, NEW t \in Tasks, pc[t] = "recv", replies[sock] # << >>
  PROVE  /\ Head(replies[sock]) \in Answers
         /\ Head(replies[sock]).id = cur[t] => Head(replies[sock]).data = cur[t]
<1> DEFINE r == Head(replies[sock])
<1>1. sock \in Conns /\ replies[sock] \in Seq(SoundReplies)
  BY DEF StreamInv, AtSocket, Sound
<1>2. r \in SoundReplies
  BY <1>1, HeadTailProperties
<1>3. ~Over(cur[t]) /\ cur[t] # NoRequest
  BY DEF Over, StreamInv, OwnNumbers, Requests, NoRequest
<1> QED BY <1>2, <1>3 DEF SoundReplies

LEMMA AnswersStep ==
  ASSUME StreamInv, [StreamNext]_allVars
  PROVE  /\ AnswerFromOwnFrame'
         /\ outcome' \in [Tasks -> {"none", "ok", "error", "cancelled"}]
         /\ answer' \in [Tasks -> Answers]
<1> USE DEF StreamInv, StreamTypes, AnswerFromOwnFrame, AnswerOwn, AnswerIntact
<1>1. NoAnswer \in Answers
  BY DEF NoAnswer, Answers
<1>2. CASE UNCHANGED <<outcome, answer, cur>>
  BY <1>2
<1>3. ASSUME NEW t \in Tasks, Request(t)
      PROVE  /\ outcome' = [outcome EXCEPT ![t] = "none"]
             /\ answer' = [answer EXCEPT ![t] = NoAnswer]
             /\ cur' = [cur EXCEPT ![t] = counter]
  BY <1>3 DEF Request
<1>4. ASSUME NEW t \in Tasks, Withdraw(t)
      PROVE  outcome' = [outcome EXCEPT ![t] = "cancelled"] /\ UNCHANGED <<answer, cur>>
  BY <1>4 DEF Withdraw
<1>5. ASSUME NEW t \in Tasks, RecvSkewed(t) \/ AttemptFails(t)
      PROVE  \/ UNCHANGED <<outcome, answer, cur>>
             \/ /\ outcome' = [outcome EXCEPT ![t] = "error"]
                /\ answer' = [answer EXCEPT ![t] = NoAnswer] /\ cur' = cur
  BY <1>5 DEF RecvSkewed, AttemptFails, Leave
<1>6. ASSUME NEW t \in Tasks, RecvWhole(t)
      PROVE  \/ /\ outcome' = [outcome EXCEPT ![t] = "error"]
                /\ answer' = [answer EXCEPT ![t] = NoAnswer] /\ cur' = cur
             \/ \E r \in Answers :
                  /\ r.id = cur[t] /\ r.data = cur[t]
                  /\ outcome' = [outcome EXCEPT ![t] = "ok"]
                  /\ answer' = [answer EXCEPT ![t] = r] /\ cur' = cur
  BY <1>6, OwnReply DEF RecvWhole, Recv, Leave
<1>7. \/ UNCHANGED <<outcome, answer, cur>>
      \/ \E t \in Tasks : Request(t) \/ Withdraw(t) \/ RecvSkewed(t) \/ AttemptFails(t) \/ RecvWhole(t)
  <2>1. ASSUME NEW t \in Tasks, Connect(t) \/ SendPart(t) \/ SendRest(t)
        PROVE  UNCHANGED <<outcome, answer, cur>>
    BY <2>1 DEF Connect, SendPart, SendRest, taskVars
  <2>2. ASSUME NEW k \in Conns, Serves(k) \/ BreakLink(k) PROVE UNCHANGED <<outcome, answer, cur>>
    BY <2>2 DEF Serves, ExecuteFrame, ReaderEnded, BreakLink, taskVars
  <2>3. CASE Crash \/ Restart \/ UNCHANGED allVars
    BY <2>3 DEF Crash, Restart, allVars, vars, taskVars
  <2> QED BY <2>1, <2>2, <2>3 DEF StreamNext, StreamRoundtrip, Cancel, CancelSending, CancelReading
<1>8. ASSUME NEW t \in Tasks, NEW a \in Answers, NEW o \in {"none", "error"},
             outcome' = [outcome EXCEPT ![t] = o], answer' = [answer EXCEPT ![t] = a],
             \A u \in Tasks : u # t => cur'[u] = cur[u]
      PROVE  /\ AnswerFromOwnFrame'
             /\ outcome' \in [Tasks -> {"none", "ok", "error", "cancelled"}]
             /\ answer' \in [Tasks -> Answers]
  BY <1>8
<1>9. ASSUME NEW t \in Tasks, Request(t) PROVE \A u \in Tasks : u # t => cur'[u] = cur[u]
  BY <1>3, <1>9
<1>10. ASSUME NEW t \in Tasks, Withdraw(t)
       PROVE  /\ AnswerFromOwnFrame'
              /\ outcome' \in [Tasks -> {"none", "ok", "error", "cancelled"}]
              /\ answer' \in [Tasks -> Answers]
  BY <1>4, <1>10
<1>11. ASSUME NEW t \in Tasks, NEW r \in Answers, r.id = cur[t], r.data = cur[t],
              outcome' = [outcome EXCEPT ![t] = "ok"], answer' = [answer EXCEPT ![t] = r], cur' = cur
       PROVE  /\ AnswerFromOwnFrame'
              /\ outcome' \in [Tasks -> {"none", "ok", "error", "cancelled"}]
              /\ answer' \in [Tasks -> Answers]
  BY <1>11
<1> HIDE DEF StreamInv, StreamTypes, AnswerFromOwnFrame, AnswerOwn, AnswerIntact
<1>12. ASSUME NEW t \in Tasks, Request(t) \/ RecvSkewed(t) \/ AttemptFails(t) \/ RecvWhole(t)
       PROVE  /\ AnswerFromOwnFrame'
              /\ outcome' \in [Tasks -> {"none", "ok", "error", "cancelled"}]
              /\ answer' \in [Tasks -> Answers]
  <2>1. CASE Request(t)
    BY <1>1, <1>3, <1>8, <1>9, <2>1
  <2>2. CASE RecvSkewed(t) \/ AttemptFails(t)
    BY <1>1, <1>2, <1>5, <1>8, <2>2
  <2>3. CASE RecvWhole(t)
    BY <1>1, <1>6, <1>8, <1>11, <2>3
  <2> QED BY <1>12, <2>1, <2>2, <2>3
<1> QED BY <1>2, <1>7, <1>10, <1>12

\* The lock: who is at the socket, and the numbers of the tasks at work.
LEMMA HeadStays ==
  ASSUME NEW s \in Seq(Tasks), NEW i \in 1 .. Len(s), NEW t \in Tasks,
         s # << >>, Head(s) = t, s[i] # t
  PROVE  LET r == SubSeq(s, 1, i - 1) \o SubSeq(s, i + 1, Len(s))
         IN  r \in Seq(Tasks) /\ r # << >> /\ Head(r) = t
<1> DEFINE r == SubSeq(s, 1, i - 1) \o SubSeq(s, i + 1, Len(s))
<1>1. /\ r \in Seq(Tasks) /\ Len(r) = Len(s) - 1
      /\ \A j \in 1 .. Len(r) : r[j] = IF j < i THEN s[j] ELSE s[j + 1]
  BY RemoveAt
<1>2. Head(s) = s[1] /\ Len(s) \in Nat /\ i # 1
  OBVIOUS
<1> HIDE DEF r
<1>3. Len(r) \in Nat /\ Len(r) >= 1 /\ r[1] = t
  BY <1>1, <1>2
<1>4. r \in Seq(Tasks) /\ r # << >> /\ Head(r) = t
  BY <1>1, <1>3
<1> QED BY <1>4 DEF r

LEMMA NumbersStep ==
  ASSUME StreamInv, [StreamNext]_allVars
  PROVE  /\ OwnNumbers'
         /\ counter' \in 0 .. MaxRequests /\ cur' \in [Tasks -> Requests \cup {NoRequest}]
<1> USE DEF StreamInv, StreamTypes
<1>1. CASE UNCHANGED <<counter, cur>> /\ \A t \in Tasks : pc'[t] # "idle" => pc[t] # "idle"
  BY <1>1 DEF OwnNumbers
<1>2. ASSUME NEW t \in Tasks, Request(t)
      PROVE  /\ OwnNumbers'
             /\ counter' \in 0 .. MaxRequests /\ cur' \in [Tasks -> Requests \cup {NoRequest}]
  <2>1. /\ counter \in Nat /\ MaxRequests \in Nat /\ counter < MaxRequests
        /\ counter' = counter + 1
        /\ cur' = [cur EXCEPT ![t] = counter] /\ pc' = [pc EXCEPT ![t] = "wait"]
    BY <1>2, BoundsAssumption DEF Request
  <2>2. counter \in Requests
    BY <2>1 DEF Requests
  <2>3. ASSUME NEW u \in Tasks, u # t, pc'[u] # "idle"
        PROVE  cur'[u] \in Requests /\ cur'[u] < counter /\ cur'[u] = cur[u] /\ pc[u] # "idle"
    BY <2>1, <2>3 DEF OwnNumbers
  <2>4. cur'[t] = counter
    BY <2>1
  <2>5. \A r \in Requests : r \in Int
    BY DEF Requests
  <2>6. ASSUME NEW u \in Tasks, pc'[u] # "idle"
        PROVE  cur'[u] \in Requests /\ cur'[u] < counter'
    <3>1. CASE u = t
      BY <2>1, <2>2, <2>4, <3>1
    <3>2. CASE u # t
      <4>1. cur'[u] \in Requests /\ cur'[u] \in Int /\ cur'[u] < counter
        BY <2>3, <2>5, <2>6, <3>2
      <4> QED BY <2>1, <4>1
    <3> QED BY <3>1, <3>2
  <2>7. ASSUME NEW u \in Tasks, NEW w \in Tasks, pc'[u] # "idle", pc'[w] # "idle", cur'[u] = cur'[w]
        PROVE  u = w
    <3>1. CASE u = t
      BY <2>1, <2>3, <2>4, <2>5, <2>7, <3>1
    <3>2. CASE w = t
      BY <2>1, <2>3, <2>4, <2>5, <2>7, <3>2
    <3>3. CASE u # t /\ w # t
      BY <2>3, <2>7, <3>3 DEF OwnNumbers
    <3> QED BY <3>1, <3>2, <3>3
  <2>8. OwnNumbers'
    BY <2>6, <2>7 DEF OwnNumbers
  <2> QED BY <2>1, <2>2, <2>8
<1> QED BY <1>1, <1>2, StreamNumbers DEF Numbering

LEMMA SocketStep ==
  ASSUME StreamInv, [StreamNext]_allVars
  PROVE  /\ AtSocket'
         /\ nconn' \in 0 .. MaxConns /\ sock' \in 0 .. nconn'
         /\ pc' \in [Tasks -> {"idle", "wait", "sending", "recv"}]
         /\ waiters' \in Seq(Tasks) /\ skewed' \in [Conns -> BOOLEAN]
<1> DEFINE Goal == /\ AtSocket'
                   /\ nconn' \in 0 .. MaxConns /\ sock' \in 0 .. nconn'
                   /\ pc' \in [Tasks -> {"idle", "wait", "sending", "recv"}]
                   /\ waiters' \in Seq(Tasks) /\ skewed' \in [Conns -> BOOLEAN]
<1>1. /\ nconn \in 0 .. MaxConns /\ sock \in 0 .. nconn /\ MaxConns \in Nat
      /\ pc \in [Tasks -> {"idle", "wait", "sending", "recv"}]
      /\ waiters \in Seq(Tasks) /\ skewed \in [Conns -> BOOLEAN]
      /\ \A t \in Tasks : pc[t] \in {"sending", "recv"} => Holds(t) /\ sock \in Conns
  BY BoundsAssumption DEF StreamInv, StreamTypes, AtSocket
<1>2. CASE UNCHANGED <<nconn, sock, pc, waiters, skewed>>
  BY <1>1, <1>2 DEF AtSocket, Holds
<1>3. ASSUME NEW t \in Tasks, Request(t), UNCHANGED streamVars PROVE Goal
  <2>1. /\ pc' = [pc EXCEPT ![t] = "wait"] /\ waiters' = Append(waiters, t)
        /\ UNCHANGED <<nconn, sock, skewed>>
    BY <1>3 DEF Request, connVars, streamVars
  <2>2. waiters' \in Seq(Tasks) /\ (waiters # << >> => waiters' # << >> /\ Head(waiters') = Head(waiters))
    BY <1>1, <2>1
  <2> QED BY <1>1, <2>1, <2>2 DEF AtSocket, Holds
<1>4. ASSUME NEW t \in Tasks, Connect(t), UNCHANGED streamVars PROVE Goal
  <2>1. /\ sock' = nconn + 1 /\ nconn' = nconn + 1 /\ nconn < MaxConns
        /\ UNCHANGED <<pc, waiters, skewed>>
    BY <1>4 DEF Connect, taskVars, streamVars
  <2>2. nconn' \in 0 .. MaxConns /\ sock' \in 0 .. nconn' /\ sock' \in Conns
    BY <1>1, <2>1 DEF Conns
  <2> QED BY <1>1, <2>1, <2>2 DEF AtSocket, Holds
<1>5. ASSUME NEW t \in Tasks, SendPart(t) \/ SendRest(t) PROVE Goal
  <2>1. /\ Holds(t) /\ sock \in Conns
        /\ pc' \in {[pc EXCEPT ![t] = "sending"], [pc EXCEPT ![t] = "recv"]}
        /\ UNCHANGED <<nconn, sock, waiters, skewed>>
    BY <1>1, <1>5 DEF SendPart, SendRest, connVars, streamVars, Conns
  <2> QED BY <1>1, <2>1 DEF AtSocket, Holds
<1>6. ASSUME NEW t \in Tasks, Holds(t), UNCHANGED nconn, sock' \in {0, sock},
             skewed' \in [Conns -> BOOLEAN],
             \/ waiters' = Tail(waiters) /\ pc' = [pc EXCEPT ![t] = "idle"]
             \/ waiters' = waiters /\ pc' = [pc EXCEPT ![t] = "wait"]
      PROVE  Goal
  <2>1. waiters' \in Seq(Tasks)
    BY <1>1, <1>6, HeadTailProperties DEF Holds
  <2>2. \A u \in Tasks : pc'[u] \notin {"sending", "recv"}
    BY <1>1, <1>6 DEF Holds
  <2> QED BY <1>1, <1>6, <2>1, <2>2 DEF AtSocket
<1>7. ASSUME NEW t \in Tasks, AttemptFails(t), UNCHANGED streamVars PROVE Goal
  BY <1>1, <1>6, <1>7 DEF AttemptFails, Leave, streamVars
<1>8. ASSUME NEW t \in Tasks, RecvWhole(t) PROVE Goal
  BY <1>1, <1>6, <1>8 DEF RecvWhole, Recv, Leave, streamVars
<1>9. ASSUME NEW t \in Tasks, RecvSkewed(t) PROVE Goal
  <2>1. Holds(t) /\ UNCHANGED <<nconn, sock>> /\ skewed' \in [Conns -> BOOLEAN]
    BY <1>1, <1>9 DEF RecvSkewed
  <2>2. CASE Leave(t, "error", NoAnswer)
    BY <1>6, <2>1, <2>2 DEF Leave
  <2>3. CASE UNCHANGED <<pc, waiters>>
    BY <1>1, <2>1, <2>3 DEF AtSocket, Holds
  <2> QED BY <1>9, <2>2, <2>3 DEF RecvSkewed
<1>10. ASSUME NEW t \in Tasks, Withdraw(t), UNCHANGED <<nconn, sock>>, skewed' \in [Conns -> BOOLEAN]
       PROVE  Goal
  <2>1. PICK i \in 1 .. Len(waiters) :
          /\ waiters[i] = t
          /\ waiters' = SubSeq(waiters, 1, i - 1) \o SubSeq(waiters, i + 1, Len(waiters))
    BY <1>10 DEF Withdraw
  <2>2. pc' = [pc EXCEPT ![t] = "idle"]
    BY <1>10 DEF Withdraw
  <2>3. waiters' \in Seq(Tasks)
    BY <1>1, <2>1, RemoveAt
  <2>4. ASSUME NEW u \in Tasks, pc'[u] \in {"sending", "recv"}
        PROVE  Holds(u)' /\ sock' \in Conns
    <3>1. u # t /\ Holds(u) /\ sock \in Conns
      BY <1>1, <2>2, <2>4
    <3>2. waiters' # << >> /\ Head(waiters') = u
      BY <1>1, <2>1, <3>1, HeadStays DEF Holds
    <3> QED BY <1>10, <3>1, <3>2 DEF Holds
  <2> QED BY <1>1, <1>10, <2>2, <2>3, <2>4 DEF AtSocket
<1>11. ASSUME NEW t \in Tasks, (Cancel(t) /\ UNCHANGED streamVars) \/ CancelSending(t) \/ CancelReading(t)
       PROVE  Goal
  <2>1. Withdraw(t) /\ UNCHANGED <<nconn, sock>> /\ skewed' \in [Conns -> BOOLEAN]
    BY <1>1, <1>11 DEF Cancel, CancelSending, CancelReading, connVars, streamVars
  <2> QED BY <1>10, <2>1
<1>12. ASSUME NEW k \in Conns, Serves(k) \/ (BreakLink(k) /\ UNCHANGED streamVars)
       PROVE  UNCHANGED <<nconn, sock, pc, waiters, skewed>>
  BY <1>12 DEF Serves, ExecuteFrame, ReaderEnded, BreakLink, taskVars, streamVars
<1>13. CASE ((Crash \/ Restart) /\ UNCHANGED streamVars) \/ UNCHANGED allVars
  BY <1>2, <1>13 DEF Crash, Restart, allVars, vars, taskVars, connVars, streamVars
<1> HIDE DEF Goal
<1>14. CASE StreamNext
  BY <1>14, <1>2, <1>3, <1>4, <1>5, <1>7, <1>8, <1>9, <1>11, <1>12, <1>13
     DEF StreamNext, StreamRoundtrip, Goal
<1> QED BY <1>13, <1>14

LEMMA StreamStep == StreamInv /\ [StreamNext]_allVars => StreamInv'
BY SoundStep, AnswersStep, NumbersStep, SocketStep DEF StreamInv, StreamTypes

\* Every answer was computed from the payload of its request: with a ring as long as no
\* task is cancelled and no more tasks are in flight than it has slots, with the payload in
\* the frame always, however many sends and replies were cut off.
THEOREM PayloadsAreKept == IpcSpec => []PayloadsKept
<1> DEFINE Inv == /\ transport = "ring" => RingOrderInv /\ PayloadOwn
                  /\ transport = "frame" => StreamInv
                  /\ transport \in {"ring", "frame"}
<1>1. IpcInit => Inv
  BY StreamFirst, RingOrderInit DEF IpcInit, StreamInit, Init, PayloadOwn, AnswerIntact
<1>2. Inv /\ [IpcNext]_ipcVars => Inv'
  <2> SUFFICES ASSUME Inv, [IpcNext]_ipcVars PROVE Inv'
    OBVIOUS
  <2>1. transport' = transport
    BY DEF IpcNext, ipcVars
  <2>2. CASE transport = "ring"
    <3>1. [Next]_vars
      BY <2>2 DEF IpcNext, OverRing, OverFrame, ipcVars, allVars
    <3> QED BY <2>1, <2>2, <3>1, RingOrderStep, PayloadStep
  <2>3. CASE transport = "frame"
    <3>1. [StreamNext]_allVars
      BY <2>3 DEF IpcNext, OverRing, OverFrame, ipcVars
    <3> QED BY <2>1, <2>3, <3>1, StreamStep
  <2> QED BY <2>2, <2>3
<1>3. Inv => PayloadsKept
  BY DEF PayloadsKept, PayloadOwn, StreamInv, AnswerFromOwnFrame
<1> QED BY <1>1, <1>2, <1>3, PTL DEF IpcSpec
=============================================================================
