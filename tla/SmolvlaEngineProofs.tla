------------------------- MODULE SmolvlaEngineProofs -------------------------
(***************************************************************************)
(* What SmolvlaEngine promises for every set of camera counts, every chunk *)
(* length and every number of requests and faults: a chunk that is handed  *)
(* out was computed from the request's own inputs, on the noise the eager  *)
(* path would have drawn.  Inv describes what the two streams have still   *)
(* to do for the request that waits: each of its operations finds the      *)
(* static buffers as the ones before it left them, whatever failed         *)
(* requests left in front of it.                                           *)
(***************************************************************************)
EXTENDS SmolvlaEngine, FiniteSetTheorems, SequenceTheorems, TLAPS

-----------------------------------------------------------------------------
(* The invariant.  The operations of the last request are at the end of    *)
(* the streams, so positions are counted from there.                       *)

main == streams["main"]
copy == streams["copy"]

MainOps == {"batch", "wait", "replay", "clone", "eager"}
CopyOps == {"wait", "inputs", "draw", "staged", "given", "prefetch"}
Ops(names) == [name : names, key : Keys \cup Int, n : Int]
Static  == [inputs : Int, noise : Int, out : [inputs : Int, noise : Int]]

\* An operation on static buffers names their key.
Keyed == {"inputs", "draw", "staged", "given", "replay", "clone"}
KeyInv(s) == \A i \in 1 .. Len(s) : s[i].name \in Keyed => s[i].key \in Keys

Types ==
  /\ pc \in {"idle", "prepared", "sync"}
  /\ nreq \in 0 .. MaxRequests
  /\ pc # "idle" => nreq \in Requests /\ key \in Keys
  /\ given \in BOOLEAN /\ noiseReady \in BOOLEAN
  /\ draws \in Nat /\ staging \in Int
  /\ DOMAIN streams = Streams /\ main \in Seq(Ops(MainOps)) /\ copy \in Seq(Ops(CopyOps))
  /\ KeyInv(main) /\ KeyInv(copy)
  /\ DOMAIN done = Streams /\ done["main"] \in Nat /\ done["copy"] \in Nat
  /\ statics \in [Keys -> Static]
  /\ turn \in [Requests -> Nat]
  /\ result \in [Requests -> [inputs : Int, noise : Int]]
  /\ DOMAIN status = Requests

\* The noise request r is to be served with.
NoiseOf(r) == IF turn[r] = 0 THEN -r ELSE turn[r]

\* A request that has not run the model has left no trace; a result is what the
\* request asked for.
Untouched == \A r \in Requests : r > nreq \/ (r = nreq /\ pc = "prepared") =>
               turn[r] = 0 /\ result[r] = Nothing
ResultInv == \A r \in Requests :
               result[r] \in {Nothing, [inputs |-> r, noise |-> NoiseOf(r)]}

\* Each inference on noise of its own has drawn once, and one draw is ahead.
DrawInv == /\ draws = Implicit + (IF noiseReady THEN 1 ELSE 0)
           /\ graphs = {} => ~noiseReady

\* Number v is in the staging buffer when the copy stream comes to its i-th operation.
StagedAt(i, v) ==
  \/ staging = v /\ \A j \in 1 .. i - 1 : copy[j].name # "prefetch"
  \/ \E j \in 1 .. i - 1 : /\ copy[j].name = "prefetch" /\ copy[j].n = v
                           /\ \A l \in j + 1 .. i - 1 : copy[l].name # "prefetch"

StageInv == noiseReady => StagedAt(Len(copy) + 1, draws)

\* Only the last operation of the main stream hands out a result, to the request
\* that waits for it; the batch of a request is on the GPU or at the end of the stream.
HandOut(op) == op.name \in {"clone", "eager"}
MainInv ==
  /\ \A i \in 1 .. Len(main) : HandOut(main[i]) => i = Len(main) /\ pc = "sync"
  /\ pc = "prepared" => nreq \in batch \/ (Len(main) > 0 /\ main[Len(main)] = Op("batch", NoKey, nreq))
  /\ Len(main) > 0 /\ main[Len(main)].name = "eager" => main[Len(main)] = Op("eager", nreq, NoiseOf(nreq))

Cloning == Len(main) > 0 /\ main[Len(main)].name = "clone"

\* Operations the request leaves behind its noise on the copy stream.
Ahead == IF given THEN 0 ELSE 1

\* The i-th operation of the copy stream gives the request its noise.
GivesNoise(i) ==
  \/ copy[i] = Op("given", key, nreq) /\ turn[nreq] = 0
  \/ copy[i] = Op("draw", key, turn[nreq]) /\ turn[nreq] # 0
  \/ copy[i].name = "staged" /\ copy[i].key = key /\ turn[nreq] # 0 /\ StagedAt(i, turn[nreq])

HasInputs == statics[key].inputs = nreq
HasNoise  == statics[key].noise = NoiseOf(nreq)

\* What the copy stream has still to do for the request: wait for its batch, which
\* is the fourth of the main stream from its end, copy its inputs, give it its noise.
CopyInv ==
  LET own == Len(copy) - Ahead
  IN  /\ Ahead = 1 /\ Len(copy) > 0 => copy[Len(copy)].name = "prefetch"
      /\ own >= 1 => GivesNoise(own)
      /\ own >= 2 => copy[own - 1] = Op("inputs", key, nreq)
      /\ own >= 3 => copy[own - 2] = Op("wait", NoKey, done["main"] + Len(main) - 3)
      /\ own = 2 => nreq \in batch
      /\ own <= 1 => HasInputs
      /\ own <= 0 => HasNoise

\* What the main stream has still to do: wait for the copies, replay, copy the output.
CloneInv ==
  Cloning =>
    /\ main[Len(main)] = Op("clone", key, nreq)
    /\ Len(main) >= 2 => main[Len(main) - 1] = Op("replay", key, 0)
    /\ Len(main) >= 3 => /\ main[Len(main) - 2] = Op("wait", NoKey, done["copy"] + Len(copy) - Ahead)
                      /\ CopyInv
    /\ Len(main) >= 4 => nreq \in batch \/ main[Len(main) - 3] = Op("batch", NoKey, nreq)
    /\ Len(main) = 3 => nreq \in batch
    /\ Len(main) = 2 => HasInputs /\ HasNoise /\ Len(copy) <= Ahead
                     /\ (Len(copy) > 0 => copy[Len(copy)].name = "prefetch")
    /\ Len(main) = 1 => statics[key].out = [inputs |-> nreq, noise |-> NoiseOf(nreq)]

Inv == /\ Types /\ Untouched /\ ResultInv /\ DrawInv /\ StageInv /\ MainInv /\ CloneInv

-----------------------------------------------------------------------------
(* Lemmas about sequences.                                                 *)

\* Taking the first element of a queue.
LEMMA FirstAndRest ==
  ASSUME NEW S, NEW s \in Seq(S), s # << >>
  PROVE  /\ Head(s) = s[1] /\ s[1] \in S
         /\ Tail(s) \in Seq(S) /\ Len(Tail(s)) \in Nat /\ Len(s) = Len(Tail(s)) + 1
         /\ \A i \in 1 .. Len(Tail(s)) : Tail(s)[i] = s[i + 1]
<1>1. Len(s) \in Nat /\ Len(s) >= 1 /\ Head(s) = s[1]
  OBVIOUS
<1>2. s[1] \in S
  BY <1>1, ElementOfSeq
<1>3. /\ Tail(s) \in Seq(S) /\ Len(Tail(s)) = Len(s) - 1
      /\ \A i \in 1 .. Len(Tail(s)) : Tail(s)[i] = s[i + 1]
  BY HeadTailProperties
<1> QED BY <1>1, <1>2, <1>3

\* Appending one operation to a queue.
LEMMA OneMore ==
  ASSUME NEW S, NEW s \in Seq(S), NEW e \in S
  PROVE  /\ Append(s, e) \in Seq(S) /\ Len(Append(s, e)) = Len(s) + 1 /\ Len(s) \in Nat
         /\ \A i \in 1 .. Len(s) : Append(s, e)[i] = s[i]
         /\ Append(s, e)[Len(s) + 1] = e
OBVIOUS

\* Appending two operations to a queue.
LEMMA TwoMore ==
  ASSUME NEW S, NEW s \in Seq(S), NEW x \in S, NEW y \in S,
         NEW r, r = s \o <<x, y>>
  PROVE  /\ r \in Seq(S) /\ Len(r) = Len(s) + 2 /\ Len(s) \in Nat
         /\ \A i \in 1 .. Len(s) : r[i] = s[i]
         /\ r[Len(s) + 1] = x /\ r[Len(s) + 2] = y
<1>1. r \in Seq(S)
  OBVIOUS
<1>2. Len(r) = Len(s) + 2 /\ Len(s) \in Nat
  OBVIOUS
<1>3. \A i \in 1 .. Len(s) : r[i] = s[i]
  OBVIOUS
<1>4. r[Len(s) + 1] = x /\ r[Len(s) + 2] = y
  OBVIOUS
<1> QED BY <1>1, <1>2, <1>3, <1>4

\* The same for three operations.
LEMMA ThreeMore ==
  ASSUME NEW S, NEW s \in Seq(S), NEW x \in S, NEW y \in S, NEW z \in S,
         NEW r, r = s \o <<x, y, z>>
  PROVE  /\ r \in Seq(S) /\ Len(r) = Len(s) + 3 /\ Len(s) \in Nat
         /\ \A i \in 1 .. Len(s) : r[i] = s[i]
         /\ r[Len(s) + 1] = x /\ r[Len(s) + 2] = y /\ r[Len(s) + 3] = z
<1>1. r \in Seq(S)
  OBVIOUS
<1>2. Len(r) = Len(s) + 3 /\ Len(s) \in Nat
  OBVIOUS
<1>3. \A i \in 1 .. Len(s) : r[i] = s[i]
  OBVIOUS
<1>4. r[Len(s) + 1] = x /\ r[Len(s) + 2] = y /\ r[Len(s) + 3] = z
  OBVIOUS
<1> QED BY <1>1, <1>2, <1>3, <1>4

\* The same for three operations and one more.
LEMMA FourMore ==
  ASSUME NEW S, NEW s \in Seq(S), NEW x \in S, NEW y \in S, NEW z \in S, NEW w \in S,
         NEW r, r = s \o <<x, y, z>> \o <<w>>
  PROVE  /\ r \in Seq(S) /\ Len(r) = Len(s) + 4 /\ Len(s) \in Nat
         /\ \A i \in 1 .. Len(s) : r[i] = s[i]
         /\ r[Len(s) + 1] = x /\ r[Len(s) + 2] = y /\ r[Len(s) + 3] = z
         /\ r[Len(s) + 4] = w
<1>1. r \in Seq(S)
  OBVIOUS
<1>2. Len(r) = Len(s) + 4 /\ Len(s) \in Nat
  OBVIOUS
<1>3. \A i \in 1 .. Len(s) : r[i] = s[i]
  OBVIOUS
<1>4. r[Len(s) + 1] = x /\ r[Len(s) + 2] = y /\ r[Len(s) + 3] = z
  OBVIOUS
<1>5. r[Len(s) + 4] = w
  OBVIOUS
<1> QED BY <1>1, <1>2, <1>3, <1>4, <1>5

\* One operation and two more are three.
LEMMA OneTwo ==
  ASSUME NEW S, NEW x \in S, NEW y \in S, NEW z \in S
  PROVE  <<x>> \o <<y, z>> = <<x, y, z>>
<1> DEFINE a == <<x>> \o <<y, z>>
           b == <<x, y, z>>
<1>1. a \in Seq(S) /\ b \in Seq(S) /\ Len(a) = 3 /\ Len(b) = 3
  OBVIOUS
<1>2. a[1] = x /\ a[2] = y /\ a[3] = z
  OBVIOUS
<1>3. b[1] = x /\ b[2] = y /\ b[3] = z
  OBVIOUS
<1> HIDE DEF a, b
<1>4. \A i \in 1 .. Len(a) : a[i] = b[i]
  BY <1>1, <1>2, <1>3
<1>5. a = b
  BY <1>1, <1>4, SeqEqual
<1> QED BY <1>5 DEF a, b

-----------------------------------------------------------------------------
(* The staging buffer.                                                     *)

\* Operations behind a position that stage nothing leave what is staged there.
LEMMA StagedOn ==
  ASSUME staging' = staging, NEW i \in Nat \ {0}, NEW k \in Nat, NEW v, StagedAt(i, v), i <= k,
         \A j \in 1 .. i - 1 : copy'[j] = copy[j],
         \A j \in i .. k - 1 : copy'[j].name # "prefetch"
  PROVE  StagedAt(k, v)'
<1>1. ASSUME staging = v, \A j \in 1 .. i - 1 : copy[j].name # "prefetch"
      PROVE  StagedAt(k, v)'
  <2>1. \A j \in 1 .. k - 1 : j \in 1 .. i - 1 \/ j \in i .. k - 1
    OBVIOUS
  <2>2. \A j \in 1 .. k - 1 : copy'[j].name # "prefetch"
    BY <1>1, <2>1
  <2> QED BY <1>1, <2>2 DEF StagedAt
<1>2. ASSUME NEW j \in 1 .. i - 1, copy[j].name = "prefetch", copy[j].n = v,
             \A l \in j + 1 .. i - 1 : copy[l].name # "prefetch"
      PROVE  StagedAt(k, v)'
  <2>1. j \in 1 .. k - 1
    OBVIOUS
  <2>2. \A l \in j + 1 .. k - 1 : (l \in j + 1 .. i - 1 /\ l \in 1 .. i - 1) \/ l \in i .. k - 1
    OBVIOUS
  <2>3. \A l \in j + 1 .. k - 1 : copy'[l].name # "prefetch"
    BY <1>2, <2>2
  <2>4. copy'[j] = copy[j]
    OBVIOUS
  <2> QED BY <1>2, <2>1, <2>3, <2>4 DEF StagedAt
<1> QED BY <1>1, <1>2 DEF StagedAt

\* The copy stream takes its first operation.
LEMMA StagedTail ==
  ASSUME copy \in Seq(Ops(CopyOps)), copy # << >>, copy' = Tail(copy),
         staging' = IF copy[1].name = "prefetch" THEN copy[1].n ELSE staging,
         NEW i \in Nat, NEW v, 2 <= i, i <= Len(copy) + 1, StagedAt(i, v)
  PROVE  StagedAt(i - 1, v)'
<1>1. /\ Len(copy') \in Nat /\ Len(copy) = Len(copy') + 1
      /\ \A j \in 1 .. Len(copy') : copy'[j] = copy[j + 1]
  BY FirstAndRest
<1>2. \A j \in 1 .. (i - 1) - 1 : copy'[j] = copy[j + 1] /\ j + 1 \in 1 .. i - 1
  BY <1>1
<1>3. ASSUME staging = v, \A j \in 1 .. i - 1 : copy[j].name # "prefetch"
      PROVE  StagedAt(i - 1, v)'
  <2>1. 1 \in 1 .. i - 1
    OBVIOUS
  <2>2. staging' = v
    BY <1>3, <2>1
  <2>3. \A j \in 1 .. (i - 1) - 1 : copy'[j].name # "prefetch"
    BY <1>2, <1>3
  <2> QED BY <2>2, <2>3 DEF StagedAt
<1>4. ASSUME NEW j \in 1 .. i - 1, copy[j].name = "prefetch", copy[j].n = v,
             \A l \in j + 1 .. i - 1 : copy[l].name # "prefetch"
      PROVE  StagedAt(i - 1, v)'
  <2>1. CASE j = 1
    <3>1. staging' = v
      BY <1>4, <2>1
    <3>2. \A l \in 1 .. (i - 1) - 1 : copy'[l].name # "prefetch"
      <4>1. \A l \in 1 .. (i - 1) - 1 : l + 1 \in j + 1 .. i - 1
        BY <2>1
      <4> QED BY <1>2, <1>4, <4>1
    <3> QED BY <3>1, <3>2 DEF StagedAt
  <2>2. CASE j # 1
    <3>1. j - 1 \in 1 .. (i - 1) - 1 /\ (j - 1) + 1 = j
      BY <2>2
    <3>2. copy'[j - 1] = copy[j]
      BY <1>2, <3>1
    <3>3. \A l \in (j - 1) + 1 .. (i - 1) - 1 : copy'[l].name # "prefetch"
      <4>1. \A l \in (j - 1) + 1 .. (i - 1) - 1 : l \in 1 .. (i - 1) - 1 /\ l + 1 \in j + 1 .. i - 1
        BY <3>1
      <4> QED BY <1>2, <1>4, <4>1
    <3> QED BY <1>4, <3>1, <3>2, <3>3 DEF StagedAt
  <2> QED BY <2>1, <2>2
<1> QED BY <1>3, <1>4 DEF StagedAt

-----------------------------------------------------------------------------
(* The host.                                                               *)

\* Nothing is issued and nothing asked for at the start.
LEMMA InvInit == Init => Inv
<1> SUFFICES ASSUME Init PROVE Inv
  OBVIOUS
<1>1. Types
  <2>1. /\ DOMAIN streams = Streams /\ main = << >> /\ copy = << >>
        /\ DOMAIN done = Streams /\ done["main"] = 0 /\ done["copy"] = 0
    BY DEF Init, main, copy, Streams
  <2>2. /\ main \in Seq(Ops(MainOps)) /\ copy \in Seq(Ops(CopyOps))
        /\ KeyInv(main) /\ KeyInv(copy)
    BY <2>1 DEF KeyInv, Keyed
  <2>3. statics \in [Keys -> Static]
    BY DEF Init, Static, Blank, Nothing
  <2>4. result \in [Requests -> [inputs : Int, noise : Int]] /\ turn \in [Requests -> Nat]
    BY DEF Init, Nothing
  <2>5. pc = "idle" /\ nreq = 0 /\ draws = 0 /\ staging = 0 /\ DOMAIN status = Requests
    BY DEF Init
  <2>6. given \in BOOLEAN /\ noiseReady \in BOOLEAN
    BY DEF Init
  <2>7. nreq \in 0 .. MaxRequests /\ draws \in Nat /\ staging \in Int
    BY <2>5, SmolvlaAssumption
  <2> QED BY <2>1, <2>2, <2>3, <2>4, <2>5, <2>6, <2>7 DEF Types
<1>2. main = << >> /\ copy = << >> /\ Len(main) = 0
  BY DEF Init, main, copy, Streams
<1>3. Untouched /\ ResultInv
  BY DEF Init, Untouched, ResultInv
<1>4. DrawInv
  <2>1. {r \in Requests : turn[r] # 0} = {}
    BY DEF Init
  <2>2. Implicit = 0
    BY <2>1, FS_EmptySet DEF Implicit
  <2> QED BY <2>2 DEF Init, DrawInv
<1>5. StageInv
  BY DEF Init, StageInv
<1>6. MainInv /\ CloneInv
  BY <1>2 DEF Init, MainInv, CloneInv, Cloning
<1> QED BY <1>1, <1>3, <1>4, <1>5, <1>6 DEF Inv

\* A step of the host that issues nothing.
LEMMA HostOnly ==
  ASSUME Inv,
         UNCHANGED <<nreq, key, given, rngVars, streams, gpuVars>>,
         graphs \subseteq graphs', DOMAIN status' = Requests,
         \/ pc' = pc
         \/ /\ pc # "idle" /\ pc' \in {"idle", "sync"}
            /\ \A i \in 1 .. Len(main) : ~HandOut(main[i])
  PROVE  Inv'
<1>u. /\ UNCHANGED <<nreq, key, given, draws, noiseReady, turn, streams, done, batch, statics,
                     staging, result>>
      /\ main' = main /\ copy' = copy
  BY DEF rngVars, gpuVars, main, copy
<1>i. Types /\ Untouched /\ ResultInv /\ DrawInv /\ StageInv /\ MainInv /\ CloneInv
  BY DEF Inv
<1>1. Types'
  BY <1>u, <1>i DEF Types
<1>2. Untouched' /\ ResultInv'
  BY <1>u, <1>i DEF Untouched, ResultInv, NoiseOf
<1>3. DrawInv'
  BY <1>u, <1>i DEF DrawInv, Implicit
<1>4. StageInv'
  BY <1>u, <1>i DEF StageInv, StagedAt
<1>5. MainInv'
  BY <1>u, <1>i DEF MainInv, HandOut, NoiseOf
<1>6. CloneInv'
  <2> SUFFICES ASSUME Cloning PROVE CloneInv'
    BY <1>u DEF Cloning, CloneInv
  <2>1. \A i : GivesNoise(i)' <=> GivesNoise(i)
    BY <1>u DEF GivesNoise, StagedAt
  <2>2. Ahead' = Ahead /\ (HasInputs' <=> HasInputs) /\ (HasNoise' <=> HasNoise)
    BY <1>u DEF Ahead, HasInputs, HasNoise, NoiseOf
  <2>3. CopyInv' <=> CopyInv
    BY <1>u, <2>1, <2>2 DEF CopyInv
  <2>4. NoiseOf(nreq)' = NoiseOf(nreq)
    BY <1>u DEF NoiseOf
  <2> QED BY <1>u, <1>i, <2>2, <2>3, <2>4 DEF CloneInv
<1> QED BY <1>1, <1>2, <1>3, <1>4, <1>5, <1>6 DEF Inv

\* While no request waits for a result, the main stream hands none out.
LEMMA NoHandOut ==
  ASSUME Inv, pc # "sync"
  PROVE  (\A i \in 1 .. Len(main) : ~HandOut(main[i])) /\ ~Cloning
<1>1. \A i \in 1 .. Len(main) : ~HandOut(main[i])
  BY DEF Inv, MainInv
<1>2. Len(main) \in Nat
  BY DEF Inv, Types
<1>3. Len(main) > 0 => Len(main) \in 1 .. Len(main)
  BY <1>2
<1> QED BY <1>1, <1>3 DEF HandOut, Cloning

\* A request begins: its batch is the last operation of the main stream.
LEMMA BeginStep ==
  ASSUME Inv, NEW k \in Keys, NEW g \in BOOLEAN, NEW p \in BOOLEAN, Begin(k, g, p)
  PROVE  Inv'
<1> DEFINE op == Op("batch", NoKey, nreq + 1)
<1>i. Types /\ Untouched /\ ResultInv /\ DrawInv /\ StageInv /\ MainInv /\ CloneInv
  BY DEF Inv
<1>1. /\ pc = "idle" /\ nreq < MaxRequests /\ nreq' = nreq + 1 /\ key' = k /\ given' = g
      /\ pc' = "prepared" /\ streams' = [streams EXCEPT !["main"] = Append(@, op)]
      /\ UNCHANGED <<startVars, status, rngVars, gpuVars>>
  BY DEF Begin
<1>2. main' = Append(main, op) /\ copy' = copy /\ DOMAIN streams' = Streams
  BY <1>1, <1>i DEF Types, main, copy, Streams
<1>3. op \in Ops(MainOps)
  BY <1>i, SmolvlaAssumption DEF Op, Ops, MainOps, NoKey, Types
<1>4. /\ main' \in Seq(Ops(MainOps)) /\ Len(main') = Len(main) + 1 /\ Len(main) \in Nat
      /\ \A i \in 1 .. Len(main) : main'[i] = main[i]
      /\ main'[Len(main) + 1] = op
  BY <1>2, <1>3, <1>i, OneMore DEF Types
<1>5. \A i \in 1 .. Len(main') : i \in 1 .. Len(main) \/ i = Len(main) + 1
  BY <1>4
<1>6. \A i \in 1 .. Len(main) : ~HandOut(main[i])
  BY <1>1, NoHandOut
<1>7. /\ op.name = "batch" /\ op = Op("batch", NoKey, nreq')
      /\ nreq' \in Requests /\ \A r \in Requests : r >= nreq' => r > nreq
  BY <1>1, <1>i, SmolvlaAssumption DEF Op, Types, Requests
<1> HIDE DEF op
<1>8. \A i \in 1 .. Len(main') : ~HandOut(main'[i])
  BY <1>4, <1>5, <1>6, <1>7 DEF HandOut
<1>9. Types'
  <2>1. KeyInv(main')
    <3>1. \A i \in 1 .. Len(main') : main'[i].name \in Keyed => main'[i].key \in Keys
      BY <1>i, <1>4, <1>5, <1>7 DEF Types, KeyInv, Keyed
    <3> QED BY <3>1 DEF KeyInv
  <2>2. nreq' \in 0 .. MaxRequests
    BY <1>7, SmolvlaAssumption DEF Requests
  <2>3. UNCHANGED <<draws, noiseReady, turn, done, statics, staging, result, status>>
    BY <1>1 DEF rngVars, gpuVars
  <2>4. given' \in BOOLEAN /\ noiseReady' \in BOOLEAN
    BY <1>1, <1>i, <2>3 DEF Types
  <2>5. pc' = "prepared" /\ nreq' \in Requests /\ key' \in Keys
    BY <1>1, <1>7
  <2> QED BY <1>2, <1>4, <1>i, <2>1, <2>2, <2>3, <2>4, <2>5 DEF Types
<1>10. Untouched' /\ ResultInv'
  <2>1. UNCHANGED <<turn, result>>
    BY <1>1 DEF rngVars, gpuVars
  <2>2. \A r \in Requests : r > nreq' \/ r = nreq' => r > nreq
    <3>1. nreq' \in Nat
      BY <1>7 DEF Requests
    <3>2. \A r \in Requests : r \in Nat
      BY DEF Requests
    <3> QED BY <1>7, <3>1, <3>2
  <2> QED BY <1>i, <2>1, <2>2 DEF Untouched, ResultInv, NoiseOf
<1>11. DrawInv' /\ StageInv'
  <2>1. UNCHANGED <<turn, draws, noiseReady, graphs, staging, copy>>
    BY <1>1, <1>2 DEF rngVars, gpuVars, startVars
  <2> QED BY <1>i, <2>1 DEF DrawInv, Implicit, StageInv, StagedAt
<1>12. MainInv'
  <2>1. Len(main') > 0 /\ Len(main') \in 1 .. Len(main') /\ main'[Len(main')] = Op("batch", NoKey, nreq')
    BY <1>4, <1>7
  <2> QED BY <1>8, <2>1 DEF MainInv, HandOut
<1>13. CloneInv'
  <2>1. Len(main') > 0 /\ Len(main') \in 1 .. Len(main')
    BY <1>4
  <2> QED BY <1>8, <2>1 DEF CloneInv, Cloning, HandOut
<1> QED BY <1>9, <1>10, <1>11, <1>12, <1>13 DEF Inv

\* A request on noise of the engine's own takes the next turn.
LEMMA NextTurn ==
  ASSUME Types, nreq \in Requests, turn[nreq] = 0,
         turn' = [turn EXCEPT ![nreq] = IF given THEN 0 ELSE Implicit + 1]
  PROVE  /\ Implicit \in Nat
         /\ Implicit' = IF given THEN Implicit ELSE Implicit + 1
         /\ turn' \in [Requests -> Nat]
         /\ turn'[nreq] = (IF given THEN 0 ELSE Implicit + 1)
         /\ \A r \in Requests : r # nreq => turn'[r] = turn[r]
<1> DEFINE S == {r \in Requests : turn[r] # 0}
           T == {r \in Requests : turn'[r] # 0}
<1>1. IsFiniteSet(Requests)
  BY SmolvlaAssumption, FS_Interval DEF Requests
<1>2. IsFiniteSet(S) /\ Cardinality(S) \in Nat
  <2>1. S \in SUBSET Requests
    OBVIOUS
  <2> HIDE DEF S
  <2> QED BY <1>1, <2>1, FS_Subset, FS_CardinalityType
<1>3. Implicit = Cardinality(S) /\ Implicit' = Cardinality(T)
  BY DEF Implicit
<1>4. /\ turn' \in [Requests -> Nat]
      /\ turn'[nreq] = (IF given THEN 0 ELSE Implicit + 1)
      /\ \A r \in Requests : r # nreq => turn'[r] = turn[r]
  <2>1. turn \in [Requests -> Nat] /\ (IF given THEN 0 ELSE Implicit + 1) \in Nat
    BY <1>2, <1>3 DEF Types
  <2> QED BY <2>1
<1>5. nreq \notin S
  OBVIOUS
<1>6. CASE given
  <2>1. T = S
    BY <1>4, <1>6
  <2> QED BY <1>2, <1>3, <1>4, <1>6, <2>1
<1>7. CASE ~given
  <2>1. T = S \cup {nreq}
    <3>1. turn'[nreq] # 0
      BY <1>2, <1>3, <1>4, <1>7
    <3> QED BY <1>4, <3>1
  <2> HIDE DEF S, T
  <2>2. Cardinality(S \cup {nreq}) = Cardinality(S) + 1
    BY <1>2, <1>5, FS_AddElement
  <2> QED BY <1>2, <1>3, <1>4, <1>7, <2>1, <2>2
<1> QED BY <1>6, <1>7

\* An eager request: its model runs on the main stream, on a draw of its own.
LEMMA EagerStep == Inv /\ RunEager => Inv'
<1> SUFFICES ASSUME Inv, RunEager PROVE Inv'
  OBVIOUS
<1>i. Types /\ Untouched /\ ResultInv /\ DrawInv /\ StageInv /\ MainInv /\ CloneInv
  BY DEF Inv
<1> DEFINE op == Op("eager", nreq, IF given THEN -nreq ELSE draws + 1)
<1>1. /\ pc = "prepared" /\ graphs = {} /\ pc' = "sync"
      /\ streams' = [streams EXCEPT !["main"] = Append(@, op)]
      /\ draws' = (IF given THEN draws ELSE draws + 1)
      /\ turn' = [turn EXCEPT ![nreq] = IF given THEN 0 ELSE Implicit + 1]
      /\ UNCHANGED <<startVars, nreq, key, given, pops, status, noiseReady, gpuVars, faults>>
  BY DEF RunEager, Inferring
<1>2. main' = Append(main, op) /\ copy' = copy /\ DOMAIN streams' = Streams
  BY <1>1, <1>i DEF Types, main, copy, Streams
<1>3. nreq \in Requests /\ nreq \in Nat /\ nreq >= 1 /\ key \in Keys
  BY <1>1, <1>i DEF Types, Requests
<1>4. op \in Ops(MainOps) /\ op.name = "eager"
  BY <1>i, <1>3 DEF Op, Ops, MainOps, Types
<1>0. turn[nreq] = 0 /\ result[nreq] = Nothing
  BY <1>1, <1>3, <1>i DEF Untouched
<1>6. /\ Implicit \in Nat /\ Implicit' = (IF given THEN Implicit ELSE Implicit + 1)
      /\ turn' \in [Requests -> Nat] /\ turn'[nreq] = (IF given THEN 0 ELSE Implicit + 1)
      /\ \A r \in Requests : r # nreq => turn'[r] = turn[r]
  BY <1>0, <1>1, <1>3, <1>i, NextTurn
<1>5. ~noiseReady /\ draws = Implicit
  <2>1. ~noiseReady
    BY <1>1, <1>i DEF DrawInv
  <2>2. draws = Implicit + 0
    BY <1>i, <2>1 DEF DrawInv
  <2> QED BY <1>6, <2>1, <2>2
<1>7. op = Op("eager", nreq', NoiseOf(nreq)')
  <2>1. NoiseOf(nreq)' = IF given THEN -nreq ELSE draws + 1
    <3>1. NoiseOf(nreq)' = IF turn'[nreq] = 0 THEN -nreq ELSE turn'[nreq]
      BY <1>1 DEF NoiseOf
    <3> QED BY <1>5, <1>6, <3>1
  <2> QED BY <1>1, <2>1
<1>8. /\ main' \in Seq(Ops(MainOps)) /\ Len(main') = Len(main) + 1 /\ Len(main) \in Nat
      /\ \A i \in 1 .. Len(main) : main'[i] = main[i]
      /\ main'[Len(main) + 1] = op
  BY <1>2, <1>4, <1>i, OneMore DEF Types
<1>9. \A i \in 1 .. Len(main') : i \in 1 .. Len(main) \/ i = Len(main) + 1
  BY <1>8
<1>10. \A i \in 1 .. Len(main) : ~HandOut(main[i])
  BY <1>1, NoHandOut
<1> HIDE DEF op
<1>u. UNCHANGED <<graphs, nreq, key, given, status, noiseReady, done, batch, statics, staging, result>>
  BY <1>1 DEF startVars, gpuVars
<1>11. Types'
  <2>1. KeyInv(main')
    <3>1. \A i \in 1 .. Len(main') : main'[i].name \in Keyed => main'[i].key \in Keys
      BY <1>i, <1>4, <1>8, <1>9 DEF Types, KeyInv, Keyed
    <3> QED BY <3>1 DEF KeyInv
  <2>2. draws' \in Nat
    BY <1>1, <1>i DEF Types
  <2> QED BY <1>1, <1>2, <1>3, <1>6, <1>8, <1>i, <1>u, <2>1, <2>2 DEF Types
<1>12. Untouched' /\ ResultInv'
  <2>1. Untouched'
    BY <1>1, <1>6, <1>i, <1>u, <1>3 DEF Untouched
  <2>2. ResultInv'
    BY <1>0, <1>6, <1>i, <1>u DEF ResultInv, NoiseOf
  <2> QED BY <2>1, <2>2
<1>13. DrawInv' /\ StageInv'
  <2>1. DrawInv'
    BY <1>1, <1>5, <1>6, <1>u DEF DrawInv
  <2>2. StageInv'
    BY <1>5, <1>u DEF StageInv
  <2> QED BY <2>1, <2>2
<1>14. Len(main') > 0 /\ Len(main') \in 1 .. Len(main') /\ main'[Len(main')] = op
  BY <1>8
<1>15. MainInv'
  <2>1. \A i \in 1 .. Len(main') : HandOut(main'[i]) => i = Len(main')
    BY <1>8, <1>9, <1>10
  <2>2. main'[Len(main')] = Op("eager", nreq', NoiseOf(nreq)')
    BY <1>7, <1>14
  <2> QED BY <1>1, <2>1, <2>2 DEF MainInv, HandOut
<1>16. CloneInv'
  BY <1>4, <1>14 DEF CloneInv, Cloning
<1> QED BY <1>11, <1>12, <1>13, <1>15, <1>16 DEF Inv

\* What a replayed request issues to the copy stream, and the numbers of its draws.
LEMMA CopiesIssued ==
  ASSUME Inv, pc = "prepared", key \in graphs, pc' \in {"idle", "sync"},
         copy' = copy \o Inputs \o Prefetch,
         draws' = draws + DrawnNow + Len(Prefetch),
         noiseReady' = (noiseReady \/ ~given),
         turn' = [turn EXCEPT ![nreq] = IF given THEN 0 ELSE Implicit + 1],
         UNCHANGED <<graphs, nreq, key, given, staging, result>>
  PROVE  /\ copy' \in Seq(Ops(CopyOps)) /\ KeyInv(copy')
         /\ Len(copy) \in Nat /\ Len(copy') = Len(copy) + 3 + Ahead
         /\ copy'[Len(copy) + 1] = Op("wait", NoKey, Issued("main"))
         /\ copy'[Len(copy) + 2] = Op("inputs", key, nreq)
         /\ Ahead = 1 => copy'[Len(copy) + 4].name = "prefetch"
         /\ \A p \in Nat : p = Len(copy) + 3 => GivesNoise(p)'
         /\ turn' \in [Requests -> Nat] /\ draws' \in Nat
         /\ Untouched' /\ ResultInv' /\ DrawInv' /\ StageInv'
<1>i. Types /\ Untouched /\ ResultInv /\ DrawInv /\ StageInv
  BY DEF Inv
<1>1. /\ nreq \in Requests /\ nreq \in Nat /\ nreq >= 1 /\ key \in Keys
      /\ draws \in Nat /\ Len(copy) \in Nat /\ copy \in Seq(Ops(CopyOps))
  BY <1>i DEF Types, Requests
<1>2. turn[nreq] = 0 /\ result[nreq] = Nothing
  BY <1>1, <1>i DEF Untouched
<1>3. /\ Implicit \in Nat /\ Implicit' = (IF given THEN Implicit ELSE Implicit + 1)
      /\ turn' \in [Requests -> Nat] /\ turn'[nreq] = (IF given THEN 0 ELSE Implicit + 1)
      /\ \A r \in Requests : r # nreq => turn'[r] = turn[r]
  BY <1>1, <1>2, <1>i, NextTurn
<1>4. draws = Implicit + (IF noiseReady THEN 1 ELSE 0)
  BY <1>i DEF DrawInv
<1>5. draws + DrawnNow + 1 \in Nat /\ DrawnNow \in Nat
  BY <1>1 DEF DrawnNow
<1>a. ASSUME given
      PROVE  DrawnNow = 0 /\ Prefetch = << >> /\ draws' = draws /\ (noiseReady' <=> noiseReady)
  <2>1. DrawnNow = 0 /\ Prefetch = << >> /\ Len(Prefetch) = 0
    BY <1>a DEF DrawnNow, Prefetch
  <2>2. draws' = draws + 0 + 0
    BY <2>1
  <2>3. noiseReady' <=> noiseReady
    BY <1>a
  <2> QED BY <1>1, <2>1, <2>2, <2>3
<1>b. ASSUME ~given
      PROVE  /\ Prefetch = <<Op("prefetch", NoKey, draws')>> /\ draws' = Implicit + 2
             /\ noiseReady' /\ DrawnNow = IF noiseReady THEN 0 ELSE 1
  <2>1. DrawnNow = IF noiseReady THEN 0 ELSE 1
    BY <1>b DEF DrawnNow
  <2>2. Prefetch = <<Op("prefetch", NoKey, draws + DrawnNow + 1)>> /\ Len(Prefetch) = 1
    BY <1>b DEF Prefetch
  <2>3. draws' = draws + DrawnNow + 1
    BY <2>2
  <2>4. draws + DrawnNow + 1 = Implicit + 2
    BY <1>3, <1>4, <2>1
  <2>5. noiseReady'
    BY <1>b
  <2> QED BY <2>1, <2>2, <2>3, <2>4, <2>5
<1>6. DrawInv'
  <2>1. graphs' # {}
    OBVIOUS
  <2>2. draws' = Implicit' + (IF noiseReady' THEN 1 ELSE 0)
    <3>1. CASE given
      BY <1>3, <1>4, <1>a, <3>1
    <3>2. CASE ~given
      BY <1>3, <1>b, <3>2
    <3> QED BY <3>1, <3>2
  <2> QED BY <2>1, <2>2 DEF DrawInv
<1>7. Untouched' /\ ResultInv'
  <2>1. Untouched'
    BY <1>1, <1>3, <1>i DEF Untouched
  <2>2. ResultInv'
    BY <1>2, <1>3, <1>i DEF ResultInv, NoiseOf
  <2> QED BY <2>1, <2>2
<1>8. /\ Op("wait", NoKey, Issued("main")) \in Ops(CopyOps)
      /\ Op("inputs", key, nreq) \in Ops(CopyOps)
      /\ NoiseOp \in Ops(CopyOps) /\ NoiseOp.key = key /\ NoiseOp.name \in {"given", "staged", "draw"}
      /\ Op("prefetch", NoKey, draws') \in Ops(CopyOps)
  <2>1. Issued("main") \in Int
    BY <1>i DEF Issued, Types, main
  <2>2. draws' \in Int
    BY <1>1, <1>3, <1>a, <1>b
  <2> QED BY <1>1, <2>1, <2>2 DEF Op, Ops, CopyOps, NoKey, NoiseOp
<1>14. /\ copy' \in Seq(Ops(CopyOps)) /\ Len(copy') = Len(copy) + 3 + Ahead
       /\ \A j \in 1 .. Len(copy) : copy'[j] = copy[j]
       /\ copy'[Len(copy) + 1] = Op("wait", NoKey, Issued("main"))
       /\ copy'[Len(copy) + 2] = Op("inputs", key, nreq)
       /\ copy'[Len(copy) + 3] = NoiseOp
       /\ ~given => copy'[Len(copy) + 4] = Op("prefetch", NoKey, draws')
  <2>1. PICK x \in Ops(CopyOps), y \in Ops(CopyOps), z \in Ops(CopyOps), w \in Ops(CopyOps) :
          /\ x = Op("wait", NoKey, Issued("main")) /\ y = Op("inputs", key, nreq)
          /\ z = NoiseOp /\ w = Op("prefetch", NoKey, draws')
    BY <1>8
  <2>2. Inputs = <<x, y, z>>
    <3>1. Inputs = <<x>> \o <<y, z>>
      BY <2>1 DEF Inputs, Fork
    <3> QED BY <3>1, OneTwo
  <2>3. CASE given
    <3>1. copy' = copy \o <<x, y, z>>
      <4>1. copy' = (copy \o <<x, y, z>>) \o << >>
        BY <1>a, <2>2, <2>3
      <4>2. copy \o <<x, y, z>> \in Seq(Ops(CopyOps))
        BY <1>1
      <4> QED BY <4>1, <4>2
    <3>2. Ahead = 0
      BY <2>3 DEF Ahead
    <3>3. PICK r : r = copy'
      OBVIOUS
    <3>4. /\ r \in Seq(Ops(CopyOps)) /\ Len(r) = Len(copy) + 3
          /\ \A j \in 1 .. Len(copy) : r[j] = copy[j]
          /\ r[Len(copy) + 1] = x /\ r[Len(copy) + 2] = y /\ r[Len(copy) + 3] = z
      BY <1>1, <3>1, <3>3, ThreeMore
    <3>5. Len(copy) + 3 = Len(copy) + 3 + Ahead
      BY <1>1, <3>2
    <3> QED BY <2>1, <2>3, <3>3, <3>4, <3>5
  <2>4. CASE ~given
    <3>1. copy' = copy \o <<x, y, z>> \o <<w>>
      BY <1>b, <2>1, <2>2, <2>4
    <3>2. Ahead = 1
      BY <2>4 DEF Ahead
    <3>3. PICK r : r = copy'
      OBVIOUS
    <3>4. /\ r \in Seq(Ops(CopyOps)) /\ Len(r) = Len(copy) + 4
          /\ \A j \in 1 .. Len(copy) : r[j] = copy[j]
          /\ r[Len(copy) + 1] = x /\ r[Len(copy) + 2] = y /\ r[Len(copy) + 3] = z
          /\ r[Len(copy) + 4] = w
      BY <1>1, <3>1, <3>3, FourMore
    <3>5. Len(copy) + 4 = Len(copy) + 3 + Ahead
      BY <1>1, <3>2
    <3> QED BY <2>1, <3>3, <3>4, <3>5
  <2> QED BY <2>3, <2>4
<1>17. \A j \in 1 .. Len(copy') : \/ j \in 1 .. Len(copy) \/ j = Len(copy) + 1 \/ j = Len(copy) + 2
                                 \/ j = Len(copy) + 3 \/ (~given /\ j = Len(copy) + 4)
  <2>1. Ahead = IF given THEN 0 ELSE 1
    BY DEF Ahead
  <2>2. PICK n \in Nat, l \in Nat : n = Len(copy) /\ l = Len(copy')
    BY <1>1, <1>14, <2>1
  <2>3. l = n + 3 + Ahead
    BY <1>14, <2>2
  <2>4. \A j \in 1 .. l : \/ j \in 1 .. n \/ j = n + 1 \/ j = n + 2
                          \/ j = n + 3 \/ (~given /\ j = n + 4)
    BY <2>1, <2>3
  <2> QED BY <2>2, <2>4
<1>18. KeyInv(copy')
  <2>1. \A i \in 1 .. Len(copy) : copy[i].name \in Keyed => copy[i].key \in Keys
    BY <1>i DEF Types, KeyInv, Keyed
  <2>2. ASSUME NEW i \in 1 .. Len(copy'),
               copy'[i].name \in Keyed
        PROVE  copy'[i].key \in Keys
    <3>1. CASE i \in 1 .. Len(copy)
      BY <1>14, <2>1, <2>2, <3>1
    <3>2. CASE i = Len(copy) + 1
      BY <1>14, <2>2, <3>2 DEF Op, Keyed
    <3>3. CASE i = Len(copy) + 2
      BY <1>1, <1>14, <3>3 DEF Op
    <3>4. CASE i = Len(copy) + 3
      BY <1>1, <1>8, <1>14, <3>4
    <3>5. CASE ~given /\ i = Len(copy) + 4
      <4>1. copy'[i].name = "prefetch"
        BY <1>14, <3>5 DEF Op
      <4> QED BY <2>2, <4>1 DEF Keyed
    <3> QED BY <1>17, <3>1, <3>2, <3>3, <3>4, <3>5
  <2> QED BY <2>2 DEF KeyInv
<1>19. ASSUME noiseReady, NEW p \in Nat, p = Len(copy) + 3 \/ (given /\ p = Len(copy) + 4),
              NEW v, v = draws
       PROVE  StagedAt(p, v)'
  <2>1. PICK i \in Nat \ {0} : i = Len(copy) + 1
    BY <1>1
  <2>2. StagedAt(i, v)
    BY <1>i, <1>19, <2>1 DEF StageInv
  <2>3. i <= p
    BY <1>1, <1>19, <2>1
  <2>5. \A j \in 1 .. i - 1 : copy'[j] = copy[j]
    <3>1. i - 1 = Len(copy)
      BY <1>1, <2>1
    <3> QED BY <1>14, <3>1
  <2>4. \A j \in i .. p - 1 : copy'[j].name # "prefetch"
    <3>1. \A j \in i .. p - 1 : j = Len(copy) + 1 \/ j = Len(copy) + 2 \/ j = Len(copy) + 3
      BY <1>1, <1>19, <2>1
    <3>2. /\ copy'[Len(copy) + 1].name # "prefetch" /\ copy'[Len(copy) + 2].name # "prefetch"
          /\ copy'[Len(copy) + 3].name # "prefetch"
      BY <1>8, <1>14 DEF Op
    <3> QED BY <3>1, <3>2
  <2> QED BY <2>2, <2>3, <2>4, <2>5, StagedOn
<1>20. ASSUME NEW p \in Nat, p = Len(copy) + 3 PROVE GivesNoise(p)'
  <2>1. copy'[p] = NoiseOp /\ UNCHANGED <<key, nreq>>
    BY <1>14, <1>20
  <2>2. CASE given
    BY <1>3, <2>1, <2>2 DEF GivesNoise, NoiseOp
  <2>3. CASE ~given /\ ~noiseReady
    <3>1. turn'[nreq] = draws + 1 /\ turn'[nreq] # 0
      BY <1>1, <1>3, <1>4, <2>3
    <3>2. copy'[p] = Op("draw", key', turn'[nreq'])
      BY <2>1, <2>3, <3>1 DEF NoiseOp
    <3> QED BY <2>1, <3>1, <3>2 DEF GivesNoise
  <2>4. CASE ~given /\ noiseReady
    <3>1. PICK v \in Nat : v = draws
      BY <1>1
    <3>2. turn'[nreq'] = v /\ turn'[nreq'] # 0
      BY <1>1, <1>3, <1>4, <2>4, <3>1
    <3>3. StagedAt(p, v)'
      BY <1>19, <1>20, <2>4, <3>1
    <3>4. copy'[p].name = "staged" /\ copy'[p].key = key'
      BY <2>1, <2>4 DEF NoiseOp, Op
    <3> QED BY <3>2, <3>3, <3>4 DEF GivesNoise
  <2> QED BY <2>2, <2>3, <2>4
<1>21. StageInv'
  <2> SUFFICES ASSUME noiseReady' PROVE StagedAt(Len(copy) + 1, draws)'
    BY DEF StageInv
  <2>1. PICK p \in Nat : p = Len(copy') + 1
    BY <1>1, <1>14 DEF Ahead
  <2>2. PICK v \in Nat : v = draws'
    BY <1>1, <1>3, <1>a, <1>b
  <2>3. StagedAt(p, v)'
    <3>1. CASE given
      <4>1. noiseReady /\ v = draws
        BY <1>a, <2>2, <3>1
      <4>2. p = Len(copy) + 4
        BY <1>1, <1>14, <2>1, <3>1 DEF Ahead
      <4> QED BY <1>19, <3>1, <4>1, <4>2
    <3>2. CASE ~given
      <4>1. PICK j \in Nat : j = Len(copy) + 4
        BY <1>1
      <4>2. j \in 1 .. p - 1 /\ j + 1 > p - 1
        BY <1>1, <1>14, <2>1, <3>2, <4>1 DEF Ahead
      <4>3. copy'[j].name = "prefetch" /\ copy'[j].n = v
        <5>1. copy'[j] = Op("prefetch", NoKey, v)
          BY <1>14, <2>2, <3>2, <4>1
        <5> QED BY <5>1 DEF Op
      <4>4. \A l \in j + 1 .. p - 1 : FALSE
        BY <4>2
      <4> QED BY <4>2, <4>3, <4>4 DEF StagedAt
    <3> QED BY <3>1, <3>2
  <2> QED BY <2>1, <2>2, <2>3
<1>22. draws' \in Nat
  BY <1>1, <1>3, <1>a, <1>b
<1>23. Ahead = 1 => copy'[Len(copy) + 4].name = "prefetch"
  BY <1>14 DEF Ahead, Op
<1> QED BY <1>1, <1>3, <1>6, <1>7, <1>14, <1>18, <1>20, <1>21, <1>22, <1>23

\* A request that is replayed, whether the copy of its output is issued or fails.
LEMMA GraphStep == Inv /\ RunGraph => Inv'
<1> SUFFICES ASSUME Inv, RunGraph PROVE Inv'
  OBVIOUS
<1>i. Types /\ Untouched /\ ResultInv /\ DrawInv /\ StageInv /\ MainInv /\ CloneInv
  BY DEF Inv
<1>1. /\ pc = "prepared" /\ key \in graphs
      /\ draws' = draws + DrawnNow + Len(Prefetch)
      /\ noiseReady' = (noiseReady \/ ~given)
      /\ turn' = [turn EXCEPT ![nreq] = IF given THEN 0 ELSE Implicit + 1]
      /\ UNCHANGED <<startVars, nreq, key, given, pops, gpuVars>>
  BY DEF RunGraph, Inferring
<1>u. UNCHANGED <<graphs, nreq, key, given, done, batch, statics, staging, result>>
  BY <1>1 DEF startVars, gpuVars
<1> DEFINE x == Op("wait", NoKey, Join)
           y == Op("replay", key, 0)
           z == Op("clone", key, nreq)
<1>2. /\ copy' = copy \o Inputs \o Prefetch /\ DOMAIN streams' = Streams
      /\ DOMAIN status' = Requests
      /\ \/ pc' = "sync" /\ main' = main \o <<x, y, z>>
         \/ pc' = "idle" /\ main' = main \o <<x, y>>
  <2>1. DOMAIN status = Requests
    BY <1>i DEF Types
  <2>2. CASE /\ streams' = [main |-> streams["main"] \o <<x, y, z>>,
                           copy |-> streams["copy"] \o Inputs \o Prefetch]
             /\ pc' = "sync" /\ UNCHANGED status
    BY <2>1, <2>2 DEF main, copy, Streams
  <2>3. CASE /\ streams' = [main |-> streams["main"] \o <<x, y>>,
                           copy |-> streams["copy"] \o Inputs \o Prefetch]
             /\ pc' = "idle" /\ status' = [status EXCEPT ![nreq] = "error"]
    BY <2>1, <2>3 DEF main, copy, Streams
  <2>4. CloneAndSync
    BY DEF RunGraph
  <2> QED BY <2>2, <2>3, <2>4 DEF CloneAndSync
<1>3. /\ nreq \in Requests /\ key \in Keys /\ main \in Seq(Ops(MainOps)) /\ Len(main) \in Nat
  BY <1>1, <1>i DEF Types
<1>4. /\ copy' \in Seq(Ops(CopyOps)) /\ KeyInv(copy')
      /\ Len(copy) \in Nat /\ Len(copy') = Len(copy) + 3 + Ahead
      /\ copy'[Len(copy) + 1] = Op("wait", NoKey, Issued("main"))
      /\ copy'[Len(copy) + 2] = Op("inputs", key, nreq)
      /\ Ahead = 1 => copy'[Len(copy) + 4].name = "prefetch"
      /\ \A p \in Nat : p = Len(copy) + 3 => GivesNoise(p)'
      /\ turn' \in [Requests -> Nat] /\ draws' \in Nat
      /\ Untouched' /\ ResultInv' /\ DrawInv' /\ StageInv'
  BY <1>1, <1>2, <1>u, CopiesIssued
<1>5. Join = Len(copy) + 3 + done["copy"] /\ Join \in Nat
  <2>1. Len(Inputs) = 3
    BY DEF Inputs, Fork
  <2>2. Issued("copy") = done["copy"] + Len(copy) /\ done["copy"] \in Nat
    BY <1>i DEF Issued, copy, Types
  <2>3. Len(copy) \in Nat
    BY <1>4
  <2>4. Join = done["copy"] + Len(copy) + 3
    BY <2>1, <2>2 DEF Join
  <2> QED BY <2>2, <2>3, <2>4
<1>6. /\ x \in Ops(MainOps) /\ y \in Ops(MainOps) /\ z \in Ops(MainOps)
      /\ x.name = "wait" /\ y.name = "replay" /\ z.name = "clone" /\ y.key = key /\ z.key = key
  BY <1>3, <1>5 DEF Op, Ops, MainOps, NoKey, Requests
<1>7. z = Op("clone", key', nreq') /\ y = Op("replay", key', 0)
      /\ x = Op("wait", NoKey, (Len(copy) + 3) + done'["copy"])
  BY <1>5, <1>u
<1> HIDE DEF x, y, z
<1>8. \A i \in 1 .. Len(main) : ~HandOut(main[i]) /\ (main[i].name = "replay" => main[i].key \in Keys)
  BY <1>1, <1>i, NoHandOut DEF Types, KeyInv, Keyed
<1>9. /\ main' \in Seq(Ops(MainOps)) /\ Len(main') \in Nat
      /\ \A i \in 1 .. Len(main) : main'[i] = main[i]
      /\ main'[Len(main) + 1] = x /\ main'[Len(main) + 2] = y
      /\ \/ pc' = "sync" /\ main'[Len(main) + 3] = z /\ Len(main') = Len(main) + 3
         \/ pc' = "idle" /\ Len(main') = Len(main) + 2
  <2>1. PICK r : r = main'
    OBVIOUS
  <2>2. CASE pc' = "sync" /\ main' = main \o <<x, y, z>>
    BY <1>3, <1>6, <2>1, <2>2, ThreeMore
  <2>3. CASE pc' = "idle" /\ main' = main \o <<x, y>>
    BY <1>3, <1>6, <2>1, <2>3, TwoMore
  <2> QED BY <1>2, <2>2, <2>3
<1>10. ASSUME NEW i \in 1 .. Len(main')
       PROVE  \/ i \in 1 .. Len(main) \/ i = Len(main) + 1 \/ i = Len(main) + 2
              \/ pc' = "sync" /\ i = Len(main) + 3 /\ i = Len(main')
  <2>1. CASE pc' = "sync" /\ Len(main') = Len(main) + 3
    BY <1>3, <2>1
  <2>2. CASE pc' = "idle" /\ Len(main') = Len(main) + 2
    BY <1>3, <2>2
  <2> QED BY <1>9, <2>1, <2>2
<1>11. KeyInv(main')
  <2>1. ASSUME NEW i \in 1 .. Len(main'),
               main'[i].name \in Keyed
        PROVE  main'[i].key \in Keys
    <3>1. CASE i \in 1 .. Len(main)
      BY <1>9, <1>i, <2>1, <3>1 DEF Types, KeyInv, Keyed
    <3>2. CASE i \notin 1 .. Len(main)
      BY <1>3, <1>6, <1>9, <1>10, <2>1, <3>2 DEF Keyed
    <3> QED BY <3>1, <3>2
  <2> QED BY <2>1 DEF KeyInv, Keyed
<1>12. Types'
  <2>1. pc' \in {"idle", "sync"}
    BY <1>2
  <2>2. given' \in BOOLEAN /\ noiseReady' \in BOOLEAN
    BY <1>i, <1>1, <1>u DEF Types
  <2>3. nreq' \in 0 .. MaxRequests /\ nreq' \in Requests /\ key' \in Keys
    BY <1>3, <1>i, <1>u DEF Types
  <2> QED BY <1>2, <1>4, <1>9, <1>11, <1>i, <1>u, <2>1, <2>2, <2>3 DEF Types
<1>13. MainInv'
  <2>1. ASSUME NEW i \in 1 .. Len(main'), HandOut(main'[i]) PROVE i = Len(main') /\ pc' = "sync"
    <3>1. CASE i \in 1 .. Len(main)
      BY <1>8, <1>9, <2>1, <3>1
    <3>2. CASE i \notin 1 .. Len(main)
      BY <1>6, <1>9, <1>10, <2>1, <3>2 DEF HandOut
    <3> QED BY <3>1, <3>2
  <2>2. pc' # "prepared"
    BY <1>2
  <2>3. main'[Len(main')].name # "eager"
    BY <1>6, <1>9
  <2> QED BY <2>1, <2>2, <2>3 DEF MainInv, HandOut
<1>14. CloneInv'
  <2>1. CASE pc' = "idle"
    <3>1. main'[Len(main')].name # "clone"
      BY <1>6, <1>9, <2>1
    <3> QED BY <3>1 DEF CloneInv, Cloning
  <2>2. CASE pc' = "sync"
    <3>1. PICK n \in Nat, l \in Nat : n = Len(main) /\ l = Len(copy)
      BY <1>3, <1>4
    <3>2. /\ Len(main') = n + 3 /\ main'[n + 3] = z /\ main'[n + 2] = y /\ main'[n + 1] = x
      BY <1>9, <2>2, <3>1
    <3>3. Ahead' = Ahead /\ Ahead \in {0, 1}
      BY <1>u DEF Ahead
    <3>4. /\ Len(copy') = l + 3 + Ahead /\ Len(copy') - Ahead = l + 3
          /\ (l + 3) - 1 = l + 2 /\ (l + 3) - 2 = l + 1
          /\ Len(copy') > 0
          /\ Ahead = 1 => Len(copy') = l + 4
      BY <1>4, <3>1, <3>3
    <3>5. done["main"] \in Nat /\ done["copy"] \in Nat
      BY <1>i DEF Types
    <3>6. CopyInv'
      <4>1. GivesNoise(l + 3)'
        BY <1>4, <3>1
      <4>2. copy'[l + 1] = Op("wait", NoKey, done'["main"] + Len(main') - 3)
        <5>1. Issued("main") = done["main"] + n
          BY <3>1 DEF Issued, main
        <5>2. done["main"] + n = done["main"] + Len(main') - 3
          BY <3>2, <3>5
        <5> QED BY <1>4, <1>u, <3>1, <5>1, <5>2
      <4>3. copy'[l + 2] = Op("inputs", key', nreq')
        BY <1>4, <1>u, <3>1
      <4>4. Ahead = 1 => copy'[Len(copy')].name = "prefetch"
        BY <1>4, <3>1, <3>4
      <4>5. ~(l + 3 = 2) /\ ~(l + 3 <= 1) /\ ~(l + 3 <= 0)
        OBVIOUS
      <4> QED BY <3>3, <3>4, <4>1, <4>2, <4>3, <4>4, <4>5 DEF CopyInv
    <3>7. main'[n + 1] = Op("wait", NoKey, done'["copy"] + Len(copy') - Ahead')
      <4>1. (Len(copy) + 3) + done'["copy"] = done'["copy"] + Len(copy') - Ahead'
        BY <1>4, <1>u, <3>1, <3>3, <3>4, <3>5
      <4> QED BY <1>7, <3>2, <4>1
    <3>8. n >= 1 => nreq' \in batch' \/ main'[n] = Op("batch", NoKey, nreq')
      <4>1. n >= 1 => main'[n] = main[n]
        BY <1>9, <3>1
      <4> QED BY <1>1, <1>i, <1>u, <3>1, <4>1 DEF MainInv
    <3>9. n = 0 => nreq' \in batch'
      BY <1>1, <1>i, <1>u, <3>1 DEF MainInv
    <3>10. /\ Len(main') - 1 = n + 2 /\ Len(main') - 2 = n + 1 /\ Len(main') - 3 = n
           /\ Len(main') # 1 /\ Len(main') # 2 /\ (Len(main') = 3 <=> n = 0)
           /\ (Len(main') >= 4 <=> n >= 1)
      BY <3>2
    <3> QED BY <1>7, <3>2, <3>6, <3>7, <3>8, <3>9, <3>10 DEF CloneInv
  <2> QED BY <1>2, <2>1, <2>2
<1> QED BY <1>4, <1>12, <1>13, <1>14 DEF Inv

-----------------------------------------------------------------------------
(* The GPU.                                                                *)

\* Rewriting one of the static buffers of a key.
LEMMA StaticType ==
  ASSUME NEW r \in Static, NEW v \in Int, NEW w \in Int, NEW q,
         \/ q = r
         \/ q = [r EXCEPT !.inputs = v]
         \/ q = [r EXCEPT !.noise = v]
         \/ q = [r EXCEPT !.out = [inputs |-> v, noise |-> w]]
  PROVE  q \in Static
BY DEF Static

\* What one operation of the main stream does to the buffers, by its name.
LEMMA MainEffect ==
  ASSUME Types, NEW op \in Ops(MainOps), op.name = "replay" => op.key \in Keys, Effect(op)
  PROVE  /\ staging' = staging /\ statics' \in [Keys -> Static]
         /\ \A k \in Keys : /\ statics'[k].inputs = statics[k].inputs
                            /\ statics'[k].noise = statics[k].noise
         /\ op.name = "replay" => statics'[op.key].out = [inputs |-> statics[op.key].inputs,
                                                         noise |-> statics[op.key].noise]
         /\ op.name # "replay" => statics' = statics
         /\ batch \subseteq batch' /\ (op.name = "batch" => op.n \in batch')
         /\ ~HandOut(op) => result' = result
         /\ op.name = "clone" => result' = [result EXCEPT ![op.n] = statics[op.key].out]
         /\ op.name = "eager" => result' = [result EXCEPT ![op.key] = [inputs |-> op.key, noise |-> op.n]]
<1>t. statics \in [Keys -> Static]
  BY DEF Types
<1>n. op.name \in MainOps
  BY DEF Ops
<1>1. staging' = staging /\ batch \subseteq batch' /\ (op.name = "batch" => op.n \in batch')
  BY <1>n DEF Effect, MainOps
<1>2. CASE op.name = "replay"
  <2>1. statics' = [statics EXCEPT ![op.key].out = [inputs |-> statics[op.key].inputs,
                                                    noise |-> statics[op.key].noise]]
        /\ result' = result
    BY <1>2 DEF Effect
  <2>2. \A k \in Keys : statics[k] \in Static
    BY <1>t
  <2>3. \A k \in Keys : statics'[k] = IF k = op.key
                          THEN [statics[k] EXCEPT !.out = [inputs |-> statics[k].inputs,
                                                           noise |-> statics[k].noise]]
                          ELSE statics[k]
    BY <1>t, <2>1
  <2>4. ASSUME NEW k \in Keys
        PROVE  /\ statics'[k] \in Static
               /\ statics'[k].inputs = statics[k].inputs /\ statics'[k].noise = statics[k].noise
               /\ k = op.key => statics'[k].out = [inputs |-> statics[k].inputs,
                                                   noise |-> statics[k].noise]
    <3>1. statics'[k] \in Static
      <4>1. PICK v \in Int, w \in Int : v = statics[k].inputs /\ w = statics[k].noise
        BY <2>2 DEF Static
      <4>2. \/ statics'[k] = statics[k]
            \/ statics'[k] = [statics[k] EXCEPT !.out = [inputs |-> v, noise |-> w]]
        BY <2>3, <4>1
      <4> QED BY <2>2, <4>2, StaticType
    <3>2. /\ statics'[k].inputs = statics[k].inputs /\ statics'[k].noise = statics[k].noise
          /\ k = op.key => statics'[k].out = [inputs |-> statics[k].inputs,
                                              noise |-> statics[k].noise]
      BY <2>2, <2>3 DEF Static
    <3> QED BY <3>1, <3>2
  <2>5. statics' \in [Keys -> Static]
    BY <1>t, <2>1, <2>4
  <2> QED BY <1>1, <1>2, <2>1, <2>4, <2>5
<1>3. CASE op.name # "replay"
  <2>1. statics' = statics
    BY <1>3, <1>n DEF Effect, MainOps
  <2>2. /\ op.name \notin {"clone", "eager"} => result' = result
        /\ op.name = "clone" => result' = [result EXCEPT ![op.n] = statics[op.key].out]
        /\ op.name = "eager" => result' = [result EXCEPT ![op.key] = [inputs |-> op.key, noise |-> op.n]]
    BY DEF Effect
  <2> QED BY <1>t, <1>1, <1>3, <2>1, <2>2 DEF HandOut
<1> QED BY <1>2, <1>3

\* What one operation of the copy stream does to them.
LEMMA CopyEffect ==
  ASSUME Types, NEW op \in Ops(CopyOps), Effect(op)
  PROVE  /\ staging' = IF op.name = "prefetch" THEN op.n ELSE staging
         /\ batch' = batch /\ result' = result /\ statics' \in [Keys -> Static]
         /\ \A k \in Keys :
              /\ statics'[k].out = statics[k].out
              /\ op.name \in {"wait", "prefetch"} => statics'[k] = statics[k]
              /\ op.name # "inputs" => statics'[k].inputs = statics[k].inputs
              /\ op.name = "inputs" /\ op.key = k /\ op.n \in batch => statics'[k].inputs = op.n
              /\ op.name = "draw" /\ op.key = k => statics'[k].noise = op.n
              /\ op.name = "staged" /\ op.key = k => statics'[k].noise = staging
              /\ op.name = "given" /\ op.key = k => statics'[k].noise = -op.n
<1>t. statics \in [Keys -> Static] /\ \A k \in Keys : statics[k] \in Static
  BY DEF Types
<1>n. op.name \in CopyOps /\ op.n \in Int /\ -op.n \in Int /\ staging \in Int
  BY DEF Ops, Types
<1>1. /\ staging' = IF op.name = "prefetch" THEN op.n ELSE staging
      /\ batch' = batch /\ result' = result
  BY <1>n DEF Effect, CopyOps
<1>2. CASE op.name \in {"wait", "prefetch"}
  <2>1. statics' = statics
    BY <1>2 DEF Effect
  <2> QED BY <1>t, <1>1, <1>2, <2>1
<1>3. CASE op.name = "inputs"
  <2>1. statics' = [statics EXCEPT ![op.key].inputs = IF op.n \in batch THEN op.n ELSE 0]
    BY <1>3 DEF Effect
  <2>2. \A k \in Keys : statics'[k] = IF k = op.key
            THEN [statics[k] EXCEPT !.inputs = IF op.n \in batch THEN op.n ELSE 0] ELSE statics[k]
    BY <1>t, <2>1
  <2>3. ASSUME NEW k \in Keys
        PROVE  statics'[k].out = statics[k].out /\
               (op.key = k /\ op.n \in batch => statics'[k].inputs = op.n)
    BY <1>t, <2>2 DEF Static
  <2>4. ASSUME NEW k \in Keys PROVE statics'[k] \in Static
    <3>1. PICK v \in Int : v = IF op.n \in batch THEN op.n ELSE 0
      BY <1>n
    <3>2. statics'[k] = statics[k] \/ statics'[k] = [statics[k] EXCEPT !.inputs = v]
      BY <2>2, <3>1
    <3> QED BY <1>t, <3>2, StaticType
  <2>5. statics' \in [Keys -> Static]
    BY <1>t, <2>1, <2>4
  <2> QED BY <1>1, <1>3, <2>3, <2>5
<1>4. ASSUME NEW v \in Int, op.name \in {"draw", "staged", "given"},
             statics' = [statics EXCEPT ![op.key].noise = v]
      PROVE  /\ statics' \in [Keys -> Static]
             /\ \A k \in Keys : /\ statics'[k].out = statics[k].out
                                /\ statics'[k].inputs = statics[k].inputs
                                /\ op.key = k => statics'[k].noise = v
  <2>1. \A k \in Keys : statics'[k] = IF k = op.key THEN [statics[k] EXCEPT !.noise = v]
                                                    ELSE statics[k]
    BY <1>t, <1>4
  <2>2. ASSUME NEW k \in Keys
        PROVE  /\ statics'[k].out = statics[k].out
               /\ statics'[k].inputs = statics[k].inputs
               /\ op.key = k => statics'[k].noise = v
    BY <1>t, <2>1 DEF Static
  <2>3. ASSUME NEW k \in Keys PROVE statics'[k] \in Static
    <3>1. statics'[k] = statics[k] \/ statics'[k] = [statics[k] EXCEPT !.noise = v]
      BY <2>1
    <3> QED BY <1>t, <3>1, StaticType
  <2>4. statics' \in [Keys -> Static]
    BY <1>t, <1>4, <2>3
  <2> QED BY <2>2, <2>4
<1>5. CASE op.name = "draw"
  <2>1. statics' = [statics EXCEPT ![op.key].noise = op.n]
    BY <1>5 DEF Effect
  <2>2. PICK v \in Int : v = op.n
    BY <1>n
  <2>3. /\ statics' \in [Keys -> Static]
        /\ \A k \in Keys : /\ statics'[k].out = statics[k].out
                           /\ statics'[k].inputs = statics[k].inputs
                           /\ op.key = k => statics'[k].noise = v
    BY <1>5, <1>4, <2>1, <2>2
  <2> QED BY <1>1, <1>5, <2>2, <2>3
<1>6. CASE op.name = "staged"
  <2>1. statics' = [statics EXCEPT ![op.key].noise = staging]
    BY <1>6 DEF Effect
  <2>2. PICK v \in Int : v = staging
    BY <1>n
  <2>3. /\ statics' \in [Keys -> Static]
        /\ \A k \in Keys : /\ statics'[k].out = statics[k].out
                           /\ statics'[k].inputs = statics[k].inputs
                           /\ op.key = k => statics'[k].noise = v
    BY <1>6, <1>4, <2>1, <2>2
  <2> QED BY <1>1, <1>6, <2>2, <2>3
<1>7. CASE op.name = "given"
  <2>1. statics' = [statics EXCEPT ![op.key].noise = -op.n]
    BY <1>7 DEF Effect
  <2>2. PICK v \in Int : v = -op.n
    BY <1>n
  <2>3. /\ statics' \in [Keys -> Static]
        /\ \A k \in Keys : /\ statics'[k].out = statics[k].out
                           /\ statics'[k].inputs = statics[k].inputs
                           /\ op.key = k => statics'[k].noise = v
    BY <1>7, <1>4, <2>1, <2>2
  <2> QED BY <1>1, <1>7, <2>2, <2>3
<1> QED BY <1>n, <1>2, <1>3, <1>5, <1>6, <1>7 DEF CopyOps

\* What the host knows does not change while the GPU works.
LEMMA Executing ==
  ASSUME Types, NEW s \in Streams, Execute(s)
  PROVE  /\ UNCHANGED <<graphs, pc, nreq, key, given, status, draws, noiseReady, turn>>
         /\ DOMAIN streams' = Streams /\ streams'[s] = Tail(streams[s]) /\ streams[s] # << >>
         /\ streams'[Other(s)] = streams[Other(s)]
         /\ DOMAIN done' = Streams /\ done'[s] = done[s] + 1 /\ done'[Other(s)] = done[Other(s)]
         /\ Head(streams[s]).name = "wait" => done[Other(s)] >= Head(streams[s]).n
         /\ Effect(Head(streams[s]))
<1>1. /\ streams[s] # << >> /\ streams' = [streams EXCEPT ![s] = Tail(@)]
      /\ done' = [done EXCEPT ![s] = @ + 1]
      /\ UNCHANGED <<startVars, hostVars, rngVars, faults>>
      /\ Head(streams[s]).name = "wait" => done[Other(s)] >= Head(streams[s]).n
      /\ Effect(Head(streams[s]))
  BY DEF Execute
<1>2. DOMAIN streams = Streams /\ DOMAIN done = Streams /\ Other(s) \in Streams /\ Other(s) # s
  BY DEF Types, Streams, Other
<1>3. UNCHANGED <<graphs, pc, nreq, key, given, status, draws, noiseReady, turn>>
  BY <1>1 DEF startVars, hostVars, rngVars
<1> QED BY <1>1, <1>2, <1>3

\* The main stream executes an operation.
LEMMA MainExecutes == Inv /\ Execute("main") => Inv'
<1> SUFFICES ASSUME Inv, Execute("main") PROVE Inv'
  OBVIOUS
<1>i. Types /\ Untouched /\ ResultInv /\ DrawInv /\ StageInv /\ MainInv /\ CloneInv
  BY DEF Inv
<1> DEFINE op == main[1]
<1>1. /\ UNCHANGED <<graphs, pc, nreq, key, given, status, draws, noiseReady, turn>>
      /\ DOMAIN streams' = Streams /\ main' = Tail(main) /\ copy' = copy /\ main # << >>
      /\ DOMAIN done' = Streams /\ done'["main"] = done["main"] + 1 /\ done'["copy"] = done["copy"]
      /\ Head(main).name = "wait" => done["copy"] >= Head(main).n
      /\ Effect(Head(main))
  BY <1>i, Executing DEF main, copy, Streams, Other
<1>2. /\ main \in Seq(Ops(MainOps)) /\ Head(main) = op /\ op \in Ops(MainOps)
      /\ main' \in Seq(Ops(MainOps)) /\ Len(main') \in Nat /\ Len(main) = Len(main') + 1
      /\ \A i \in 1 .. Len(main') : main'[i] = main[i + 1]
  BY <1>1, <1>i, FirstAndRest DEF Types
<1>3. /\ 1 \in 1 .. Len(main) /\ \A i \in 1 .. Len(main') : i + 1 \in 1 .. Len(main)
      /\ Len(main') > 0 => main'[Len(main')] = main[Len(main)]
      /\ Len(main') > 0 => ~HandOut(op)
  <2>1. PICK n \in Nat : n = Len(main')
    BY <1>2
  <2>2. Len(main) = n + 1
    BY <1>2, <2>1
  <2>3. 1 \in 1 .. n + 1 /\ (\A i \in 1 .. n : i + 1 \in 1 .. n + 1) /\ (n > 0 => n \in 1 .. n /\ n + 1 # 1)
    OBVIOUS
  <2>4. n > 0 => main'[n] = main[n + 1]
    BY <1>2, <2>1, <2>3
  <2>5. n > 0 => ~HandOut(op)
    BY <1>i, <2>2, <2>3 DEF MainInv
  <2> QED BY <2>1, <2>2, <2>3, <2>4, <2>5
<1>4. op.name \in MainOps /\ (op.name = "replay" => op.key \in Keys)
  BY <1>2, <1>3, <1>i DEF Ops, Types, KeyInv, Keyed
<1> HIDE DEF op
<1>5. /\ staging' = staging /\ statics' \in [Keys -> Static]
      /\ \A k \in Keys : /\ statics'[k].inputs = statics[k].inputs
                         /\ statics'[k].noise = statics[k].noise
      /\ op.name = "replay" => statics'[op.key].out = [inputs |-> statics[op.key].inputs,
                                                      noise |-> statics[op.key].noise]
      /\ op.name # "replay" => statics' = statics
      /\ batch \subseteq batch' /\ (op.name = "batch" => op.n \in batch')
      /\ ~HandOut(op) => result' = result
      /\ op.name = "clone" => result' = [result EXCEPT ![op.n] = statics[op.key].out]
      /\ op.name = "eager" => result' = [result EXCEPT ![op.key] = [inputs |-> op.key, noise |-> op.n]]
  BY <1>1, <1>2, <1>4, <1>i, MainEffect
<1>6. HandOut(op) =>
        /\ Len(main) = 1 /\ pc = "sync" /\ nreq \in Requests
        /\ result' = [result EXCEPT ![nreq] = [inputs |-> nreq, noise |-> NoiseOf(nreq)]]
  <2> SUFFICES ASSUME HandOut(op)
               PROVE  /\ Len(main) = 1 /\ pc = "sync" /\ nreq \in Requests
                      /\ result' = [result EXCEPT ![nreq] = [inputs |-> nreq, noise |-> NoiseOf(nreq)]]
    OBVIOUS
  <2>1. Len(main) = 1 /\ pc = "sync" /\ main[Len(main)] = op /\ Len(main) > 0
    BY <1>3, <1>i DEF MainInv, op
  <2>2. nreq \in Requests
    BY <1>i, <2>1 DEF Types
  <2>3. CASE op.name = "eager"
    <3>1. op = Op("eager", nreq, NoiseOf(nreq))
      BY <1>i, <2>1, <2>3 DEF MainInv
    <3>2. op.key = nreq /\ op.n = NoiseOf(nreq)
      BY <3>1 DEF Op
    <3> QED BY <1>5, <2>1, <2>2, <2>3, <3>2
  <2>4. CASE op.name = "clone"
    <3>1. Cloning
      BY <2>1, <2>4 DEF Cloning
    <3>2. op = Op("clone", key, nreq)
      BY <1>i, <2>1, <3>1 DEF CloneInv
    <3>3. statics[key].out = [inputs |-> nreq, noise |-> NoiseOf(nreq)]
      BY <1>i, <2>1, <3>1 DEF CloneInv
    <3>4. op.key = key /\ op.n = nreq
      BY <3>2 DEF Op
    <3> QED BY <1>5, <2>1, <2>2, <2>4, <3>3, <3>4
  <2> QED BY <2>3, <2>4 DEF HandOut
<1>7. NoiseOf(nreq)' = NoiseOf(nreq) /\ \A r \in Requests : NoiseOf(r)' = NoiseOf(r)
  BY <1>1 DEF NoiseOf
<1>8. /\ result' \in [Requests -> [inputs : Int, noise : Int]]
      /\ \A r \in Requests : \/ result'[r] = result[r]
                             \/ /\ r = nreq /\ pc = "sync"
                                /\ result'[r] = [inputs |-> r, noise |-> NoiseOf(r)]
  <2>1. result \in [Requests -> [inputs : Int, noise : Int]] /\ turn \in [Requests -> Nat]
    BY <1>i DEF Types
  <2>2. CASE ~HandOut(op)
    BY <1>5, <2>1, <2>2
  <2>3. CASE HandOut(op)
    <3>1. nreq \in Int /\ NoiseOf(nreq) \in Int
      BY <1>6, <2>1, <2>3 DEF NoiseOf, Requests
    <3> QED BY <1>6, <2>1, <2>3, <3>1
  <2> QED BY <2>2, <2>3
<1>9. Types'
  <2>1. KeyInv(main')
    <3>1. \A i \in 1 .. Len(main) : main[i].name \in Keyed => main[i].key \in Keys
      BY <1>i DEF Types, KeyInv, Keyed
    <3> QED BY <1>2, <1>3, <3>1 DEF KeyInv
  <2>2. done'["main"] \in Nat /\ done'["copy"] \in Nat
    BY <1>1, <1>i DEF Types
  <2>3. /\ pc' \in {"idle", "prepared", "sync"} /\ nreq' \in 0 .. MaxRequests
        /\ pc' # "idle" => nreq' \in Requests /\ key' \in Keys
        /\ draws' \in Nat /\ staging' \in Int /\ turn' \in [Requests -> Nat]
        /\ DOMAIN status' = Requests
    BY <1>1, <1>5, <1>i DEF Types
  <2>4. given' \in BOOLEAN /\ noiseReady' \in BOOLEAN
    BY <1>1, <1>i DEF Types
  <2>5. copy' \in Seq(Ops(CopyOps)) /\ KeyInv(copy')
    BY <1>1, <1>i DEF Types
  <2> QED BY <1>1, <1>2, <1>5, <1>8, <2>1, <2>2, <2>3, <2>4, <2>5 DEF Types
<1>10. Untouched' /\ ResultInv'
  <2>1. Untouched'
    <3> SUFFICES ASSUME NEW r \in Requests, r > nreq \/ (r = nreq /\ pc = "prepared")
                 PROVE  turn[r] = 0 /\ result'[r] = Nothing
      BY <1>1 DEF Untouched
    <3>1. turn[r] = 0 /\ result[r] = Nothing
      BY <1>i DEF Untouched
    <3>2. ~(r = nreq /\ pc = "sync")
      <4>1. r \in Nat /\ nreq \in Nat
        BY <1>i DEF Types, Requests
      <4> QED BY <4>1
    <3> QED BY <1>8, <3>1, <3>2
  <2>2. ResultInv'
    BY <1>7, <1>8, <1>i DEF ResultInv
  <2> QED BY <2>1, <2>2
<1>11. DrawInv' /\ StageInv'
  BY <1>1, <1>5, <1>i DEF DrawInv, Implicit, StageInv, StagedAt
<1>12. MainInv'
  <2>1. ASSUME NEW i \in 1 .. Len(main'), HandOut(main'[i]) PROVE i = Len(main') /\ pc' = "sync"
    <3>1. i + 1 = Len(main) /\ pc = "sync"
      BY <1>2, <1>3, <1>i, <2>1 DEF MainInv
    <3>2. PICK n \in Nat : n = Len(main')
      BY <1>2
    <3>3. Len(main) = n + 1 /\ i \in 1 .. n
      BY <1>2, <3>2
    <3>4. i = n
      BY <3>1, <3>3
    <3>5. pc' = "sync"
      BY <1>1, <3>1
    <3> QED BY <3>2, <3>4, <3>5
  <2>2. pc' = "prepared" => nreq' \in batch'
                            \/ (Len(main') > 0 /\ main'[Len(main')] = Op("batch", NoKey, nreq'))
    <3> SUFFICES ASSUME pc = "prepared", nreq \notin batch
                 PROVE  nreq \in batch'
                        \/ (Len(main') > 0 /\ main'[Len(main')] = Op("batch", NoKey, nreq))
      BY <1>1, <1>5
    <3>1. Len(main) > 0 /\ main[Len(main)] = Op("batch", NoKey, nreq)
      BY <1>i DEF MainInv
    <3>2. CASE Len(main') > 0
      BY <1>3, <3>1, <3>2
    <3>3. CASE Len(main') = 0
      <4>1. op = Op("batch", NoKey, nreq)
        BY <1>2, <3>1, <3>3 DEF op
      <4>2. op.name = "batch" /\ op.n = nreq
        BY <4>1 DEF Op
      <4> QED BY <1>5, <4>2
    <3> QED BY <1>2, <3>2, <3>3
  <2>3. Len(main') > 0 /\ main'[Len(main')].name = "eager"
          => main'[Len(main')] = Op("eager", nreq', NoiseOf(nreq)')
    <3> SUFFICES ASSUME Len(main') > 0, main'[Len(main')].name = "eager"
                 PROVE  main'[Len(main')] = Op("eager", nreq, NoiseOf(nreq))
      BY <1>1, <1>7
    <3>1. Len(main) > 0
      BY <1>2
    <3>2. main'[Len(main')] = main[Len(main)]
      BY <1>3
    <3> QED BY <1>i, <3>1, <3>2 DEF MainInv
  <2>4. \A i \in 1 .. Len(main') : HandOut(main'[i]) => i = Len(main') /\ pc' = "sync"
    BY <2>1
  <2> QED BY <2>2, <2>3, <2>4 DEF MainInv, HandOut
<1>13. CloneInv'
  <2> SUFFICES ASSUME Cloning' PROVE CloneInv'
    BY DEF CloneInv
  <2>1. PICK n \in Nat : n = Len(main')
    BY <1>2
  <2>2. /\ Len(main) = n + 1 /\ n > 0 /\ main'[n].name = "clone" /\ main'[n] = main[n + 1]
        /\ ~HandOut(op)
    BY <1>2, <1>3, <2>1 DEF Cloning
  <2>3. \A i \in 1 .. n : main'[i] = main[i + 1]
    BY <1>2, <2>1
  <2>4. Cloning
    BY <2>2 DEF Cloning
  <2>5. pc = "sync" /\ key \in Keys /\ nreq \in Requests
    <3>1. n + 1 \in 1 .. Len(main) /\ HandOut(main[n + 1])
      BY <2>2 DEF HandOut
    <3> QED BY <1>i, <3>1 DEF MainInv, Types
  <2>6. /\ main[n + 1] = Op("clone", key, nreq)
        /\ n >= 1 => main[n] = Op("replay", key, 0)
        /\ n >= 2 => /\ main[n - 1] = Op("wait", NoKey, done["copy"] + Len(copy) - Ahead)
                     /\ CopyInv
        /\ n >= 3 => nreq \in batch \/ main[n - 2] = Op("batch", NoKey, nreq)
        /\ n = 2 => nreq \in batch
    <3>1. /\ (n + 1) - 1 = n /\ (n + 1) - 2 = n - 1 /\ (n + 1) - 3 = n - 2
          /\ (n + 1 >= 2 <=> n >= 1) /\ (n + 1 >= 3 <=> n >= 2) /\ (n + 1 >= 4 <=> n >= 3)
          /\ (n + 1 = 3 <=> n = 2)
      OBVIOUS
    <3> QED BY <1>i, <2>2, <2>4, <3>1 DEF CloneInv
  <2>7. /\ Ahead' = Ahead /\ Ahead \in {0, 1}
        /\ (HasInputs' <=> HasInputs) /\ (HasNoise' <=> HasNoise)
    BY <1>1, <1>5, <1>7, <2>5 DEF Ahead, HasInputs, HasNoise
  <2>8. \A i : GivesNoise(i)' <=> GivesNoise(i)
    BY <1>1, <1>5 DEF GivesNoise, StagedAt
  <2>9. n >= 3 => CopyInv'
    <3> SUFFICES ASSUME n >= 3 PROVE CopyInv'
      OBVIOUS
    <3>1. done'["main"] + Len(main') - 3 = done["main"] + Len(main) - 3
      <4>1. done["main"] \in Nat
        BY <1>i DEF Types
      <4> QED BY <1>1, <2>1, <2>2, <4>1
    <3>2. CopyInv
      BY <2>6
    <3>3. nreq \in batch => nreq' \in batch'
      BY <1>1, <1>5
    <3> QED BY <1>1, <2>7, <2>8, <3>1, <3>2, <3>3 DEF CopyInv
  <2>10. main'[n] = Op("clone", key', nreq')
    BY <1>1, <2>2, <2>6
  <2>11. n >= 2 => main'[n - 1] = Op("replay", key', 0)
    <3>1. n >= 2 => n - 1 \in 1 .. n /\ (n - 1) + 1 = n
      OBVIOUS
    <3>2. n >= 2 => main'[n - 1] = main[n]
      BY <2>3, <3>1
    <3>3. n >= 1 => main[n] = Op("replay", key, 0)
      BY <2>6
    <3>4. n >= 2 => n >= 1
      OBVIOUS
    <3> QED BY <1>1, <3>2, <3>3, <3>4
  <2>12. n >= 3 => main'[n - 2] = Op("wait", NoKey, done'["copy"] + Len(copy') - Ahead')
    <3>1. n >= 3 => n - 2 \in 1 .. n /\ (n - 2) + 1 = n - 1
      OBVIOUS
    <3>2. n >= 3 => main'[n - 2] = main[n - 1]
      BY <2>3, <3>1
    <3>3. n >= 2 => main[n - 1] = Op("wait", NoKey, done["copy"] + Len(copy) - Ahead)
      BY <2>6
    <3>4. n >= 3 => n >= 2
      OBVIOUS
    <3> QED BY <1>1, <2>7, <3>2, <3>3, <3>4
  <2>13. n >= 4 => nreq' \in batch' \/ main'[n - 3] = Op("batch", NoKey, nreq')
    <3>1. n >= 4 => n - 3 \in 1 .. n /\ (n - 3) + 1 = n - 2
      OBVIOUS
    <3>2. n >= 4 => main'[n - 3] = main[n - 2]
      BY <2>3, <3>1
    <3>3. n >= 3 => nreq \in batch \/ main[n - 2] = Op("batch", NoKey, nreq)
      BY <2>6
    <3>4. n >= 4 => n >= 3
      OBVIOUS
    <3> QED BY <1>1, <1>5, <3>2, <3>3, <3>4
  <2>14. n = 3 => nreq' \in batch'
    <3> SUFFICES ASSUME n = 3, nreq \notin batch PROVE nreq \in batch'
      BY <1>1, <1>5
    <3>1. op = Op("batch", NoKey, nreq)
      BY <2>6 DEF op
    <3>2. op.name = "batch" /\ op.n = nreq
      BY <3>1 DEF Op
    <3> QED BY <1>5, <3>2
  <2>15. n = 2 => /\ HasInputs' /\ HasNoise' /\ Len(copy') <= Ahead'
                  /\ Len(copy') > 0 => copy'[Len(copy')].name = "prefetch"
    <3> SUFFICES ASSUME n = 2
                 PROVE  /\ HasInputs' /\ HasNoise' /\ Len(copy') <= Ahead'
                        /\ Len(copy') > 0 => copy'[Len(copy')].name = "prefetch"
      OBVIOUS
    <3>1. op = Op("wait", NoKey, done["copy"] + Len(copy) - Ahead)
      BY <2>6 DEF op
    <3>2. op.name = "wait" /\ op.n = done["copy"] + Len(copy) - Ahead
      BY <3>1 DEF Op
    <3>3. done["copy"] >= done["copy"] + Len(copy) - Ahead
      BY <1>1, <1>2, <3>2
    <3>4. done["copy"] \in Nat /\ Len(copy) \in Nat
      BY <1>i DEF Types
    <3>5. Len(copy) <= Ahead /\ Len(copy) - Ahead <= 0 /\ Len(copy) - Ahead <= 1
          /\ (Len(copy) > 0 => Ahead = 1)
      BY <2>7, <3>3, <3>4
    <3>6. HasInputs /\ HasNoise /\ (Len(copy) > 0 => copy[Len(copy)].name = "prefetch")
      BY <2>6, <3>5 DEF CopyInv
    <3> QED BY <1>1, <2>7, <3>5, <3>6
  <2>16. n = 1 => statics'[key'].out = [inputs |-> nreq', noise |-> NoiseOf(nreq)']
    <3> SUFFICES ASSUME n = 1
                 PROVE  statics'[key].out = [inputs |-> nreq, noise |-> NoiseOf(nreq)]
      BY <1>1, <1>7
    <3>1. op = Op("replay", key, 0)
      BY <2>6 DEF op
    <3>2. op.name = "replay" /\ op.key = key
      BY <3>1 DEF Op
    <3>3. HasInputs /\ HasNoise
      BY <1>i, <2>2, <2>4 DEF CloneInv
    <3> QED BY <1>5, <3>2, <3>3 DEF HasInputs, HasNoise
  <2> QED BY <2>1, <2>9, <2>10, <2>11, <2>12, <2>13, <2>14, <2>15, <2>16 DEF CloneInv
<1> QED BY <1>9, <1>10, <1>11, <1>12, <1>13 DEF Inv

\* The copy stream executes an operation.
LEMMA CopyExecutes == Inv /\ Execute("copy") => Inv'
<1> SUFFICES ASSUME Inv, Execute("copy") PROVE Inv'
  OBVIOUS
<1>i. Types /\ Untouched /\ ResultInv /\ DrawInv /\ StageInv /\ MainInv /\ CloneInv
  BY DEF Inv
<1> DEFINE op == copy[1]
<1>1. /\ UNCHANGED <<graphs, pc, nreq, key, given, status, draws, noiseReady, turn>>
      /\ DOMAIN streams' = Streams /\ copy' = Tail(copy) /\ main' = main /\ copy # << >>
      /\ DOMAIN done' = Streams /\ done'["copy"] = done["copy"] + 1 /\ done'["main"] = done["main"]
      /\ Head(copy).name = "wait" => done["main"] >= Head(copy).n
      /\ Effect(Head(copy))
  BY <1>i, Executing DEF main, copy, Streams, Other
<1>2. /\ copy \in Seq(Ops(CopyOps)) /\ Head(copy) = op /\ op \in Ops(CopyOps)
      /\ copy' \in Seq(Ops(CopyOps)) /\ Len(copy') \in Nat /\ Len(copy) = Len(copy') + 1
      /\ \A i \in 1 .. Len(copy') : copy'[i] = copy[i + 1]
  BY <1>1, <1>i, FirstAndRest DEF Types
<1>3. /\ staging' = IF op.name = "prefetch" THEN op.n ELSE staging
      /\ batch' = batch /\ result' = result /\ statics' \in [Keys -> Static]
      /\ \A k \in Keys :
           /\ statics'[k].out = statics[k].out
           /\ op.name \in {"wait", "prefetch"} => statics'[k] = statics[k]
           /\ op.name # "inputs" => statics'[k].inputs = statics[k].inputs
           /\ op.name = "inputs" /\ op.key = k /\ op.n \in batch => statics'[k].inputs = op.n
           /\ op.name = "draw" /\ op.key = k => statics'[k].noise = op.n
           /\ op.name = "staged" /\ op.key = k => statics'[k].noise = staging
           /\ op.name = "given" /\ op.key = k => statics'[k].noise = -op.n
  BY <1>1, <1>2, <1>i, CopyEffect
<1>4. op.n \in Int
  BY <1>2 DEF Ops
<1>5. PICK c \in Nat : c = Len(copy')
  BY <1>2
<1>6. Len(copy) = c + 1
  BY <1>2, <1>5
<1>7. \A i \in 1 .. c : copy'[i] = copy[i + 1]
  BY <1>2, <1>5
<1>8. ASSUME NEW i \in Nat, NEW v, 2 <= i, i <= c + 2, StagedAt(i, v)
      PROVE  StagedAt(i - 1, v)'
  <2>1. i <= Len(copy) + 1
    BY <1>6, <1>8
  <2> QED BY <1>1, <1>2, <1>3, <1>8, <2>1, StagedTail
<1> HIDE DEF op
<1>9. Types'
  <2>1. KeyInv(copy')
    <3>1. \A i \in 1 .. c + 1 : copy[i].name \in Keyed => copy[i].key \in Keys
      BY <1>i, <1>6 DEF Types, KeyInv, Keyed
    <3>2. \A i \in 1 .. c : i + 1 \in 1 .. c + 1
      OBVIOUS
    <3> QED BY <1>5, <1>7, <3>1, <3>2 DEF KeyInv
  <2>2. done'["main"] \in Nat /\ done'["copy"] \in Nat
    BY <1>1, <1>i DEF Types
  <2>3. /\ pc' \in {"idle", "prepared", "sync"} /\ nreq' \in 0 .. MaxRequests
        /\ pc' # "idle" => nreq' \in Requests /\ key' \in Keys
        /\ draws' \in Nat /\ turn' \in [Requests -> Nat]
        /\ DOMAIN status' = Requests
    BY <1>1, <1>i DEF Types
  <2>4. given' \in BOOLEAN /\ noiseReady' \in BOOLEAN
    BY <1>1, <1>i DEF Types
  <2>5. main' \in Seq(Ops(MainOps)) /\ KeyInv(main')
    BY <1>1, <1>i DEF Types
  <2>6. staging' \in Int /\ result' \in [Requests -> [inputs : Int, noise : Int]]
    BY <1>3, <1>4, <1>i DEF Types
  <2> QED BY <1>1, <1>2, <1>3, <2>1, <2>2, <2>3, <2>4, <2>5, <2>6 DEF Types
<1>10. Untouched' /\ ResultInv' /\ DrawInv'
  BY <1>1, <1>3, <1>i DEF Untouched, ResultInv, NoiseOf, DrawInv, Implicit
<1>11. StageInv'
  <2> SUFFICES ASSUME noiseReady PROVE StagedAt(Len(copy) + 1, draws)'
    BY <1>1 DEF StageInv
  <2>1. PICK i \in Nat, v \in Nat : i = c + 2 /\ v = draws
    BY <1>i DEF Types
  <2>2. 2 <= i /\ i <= c + 2 /\ i = Len(copy) + 1 /\ i - 1 = Len(copy') + 1
    BY <1>5, <1>6, <2>1
  <2>3. StagedAt(i, v)
    BY <1>i, <2>1, <2>2 DEF StageInv
  <2>4. StagedAt(i - 1, v)'
    BY <1>8, <2>2, <2>3
  <2>5. v = draws'
    BY <1>1, <2>1
  <2> QED BY <2>2, <2>4, <2>5
<1>12. MainInv'
  BY <1>1, <1>3, <1>i DEF MainInv, HandOut, NoiseOf
<1>13. CloneInv'
  <2> SUFFICES ASSUME Cloning PROVE CloneInv'
    BY <1>1 DEF CloneInv, Cloning
  <2>1. PICK n \in Nat : n = Len(main)
    BY <1>i DEF Types
  <2>2. /\ n > 0 /\ key \in Keys /\ nreq \in Requests
    <3>1. n > 0 /\ main[n].name = "clone"
      BY <2>1 DEF Cloning
    <3>2. n \in 1 .. Len(main) /\ HandOut(main[n])
      BY <2>1, <3>1 DEF HandOut
    <3> QED BY <1>i, <3>1, <3>2 DEF MainInv, Types
  <2>3. /\ Ahead' = Ahead /\ Ahead \in {0, 1} /\ NoiseOf(nreq)' = NoiseOf(nreq)
        /\ done["main"] \in Nat /\ done["copy"] \in Nat
    BY <1>1, <1>i DEF Ahead, NoiseOf, Types
  <2>4. \* The operation is the one drawn ahead.
        ASSUME Len(copy) <= Ahead, Len(copy) > 0 => copy[Len(copy)].name = "prefetch"
        PROVE  c = 0 /\ op.name = "prefetch" /\ statics'[key] = statics[key]
    <3>1. c = 0 /\ Len(copy) = 1
      BY <1>6, <2>3, <2>4
    <3>2. op.name = "prefetch"
      BY <2>4, <3>1 DEF op
    <3> QED BY <1>3, <2>2, <3>1, <3>2
  <2>5. n = 2 => /\ HasInputs' /\ HasNoise' /\ Len(copy') <= Ahead'
                 /\ Len(copy') > 0 => copy'[Len(copy')].name = "prefetch"
    <3> SUFFICES ASSUME n = 2
                 PROVE  HasInputs' /\ HasNoise' /\ c <= Ahead /\ ~(c > 0)
      BY <1>5, <2>3
    <3>1. /\ HasInputs /\ HasNoise /\ Len(copy) <= Ahead
          /\ Len(copy) > 0 => copy[Len(copy)].name = "prefetch"
      BY <1>i, <2>1 DEF CloneInv
    <3>2. c = 0 /\ statics'[key] = statics[key]
      BY <2>4, <3>1
    <3>3. c <= Ahead /\ ~(c > 0)
      BY <2>3, <3>2
    <3> QED BY <1>1, <2>3, <3>1, <3>2, <3>3 DEF HasInputs, HasNoise
  <2>6. n = 1 => statics'[key].out = [inputs |-> nreq, noise |-> NoiseOf(nreq)]
    BY <1>3, <1>i, <2>1, <2>2 DEF CloneInv
  <2>7. done'["copy"] + Len(copy') - Ahead' = done["copy"] + Len(copy) - Ahead
    BY <1>1, <1>5, <1>6, <2>3
  <2>8. ASSUME n >= 3, CopyInv PROVE CopyInv'
    <3>0. PICK own \in Int : own = c + 1 - Ahead
      BY <2>3
    <3>1. /\ own \in Int /\ Len(copy) - Ahead = own /\ Len(copy') - Ahead' = own - 1
          /\ own <= c + 1 /\ own >= c
      BY <1>5, <1>6, <2>3, <3>0
    <3>2. /\ own >= 1 => GivesNoise(own)
          /\ own >= 2 => copy[own - 1] = Op("inputs", key, nreq)
          /\ own >= 3 => copy[own - 2] = Op("wait", NoKey, done["main"] + Len(main) - 3)
          /\ own = 2 => nreq \in batch
          /\ own <= 1 => HasInputs
          /\ own <= 0 => HasNoise
          /\ Ahead = 1 => copy[Len(copy)].name = "prefetch"
      <4>1. Len(copy) > 0
        BY <1>6
      <4> QED BY <2>8, <3>1, <4>1 DEF CopyInv
    <3>3. own <= 0 => op.name = "prefetch" /\ statics'[key] = statics[key]
      <4> SUFFICES ASSUME own <= 0 PROVE op.name = "prefetch" /\ statics'[key] = statics[key]
        OBVIOUS
      <4>1. Len(copy) <= Ahead /\ Ahead = 1
        BY <1>6, <2>3, <3>0
      <4> QED BY <2>4, <3>2, <4>1
    <3>4. Ahead = 1 /\ c > 0 => copy'[c].name = "prefetch"
      <4>1. c > 0 => copy'[c] = copy[c + 1]
        BY <1>7
      <4> QED BY <1>6, <3>2, <4>1
    <3>5. ASSUME own - 1 >= 1 PROVE GivesNoise(own - 1)'
      <4>1. own \in Nat /\ own >= 2 /\ own - 1 \in 1 .. c /\ (own - 1) + 1 = own /\ own <= c + 2
        BY <3>1, <3>5
      <4>2. copy'[own - 1] = copy[own]
        BY <1>7, <4>1
      <4>3. PICK i \in Nat, v \in Nat : i = own /\ v = turn[nreq]
        BY <1>i, <2>2, <4>1 DEF Types
      <4>4. StagedAt(i, v) => StagedAt(i - 1, v)'
        BY <1>8, <4>1, <4>3
      <4>5. GivesNoise(i)
        BY <3>2, <4>1, <4>3
      <4>6. copy'[i - 1] = copy[i] /\ turn'[nreq'] = v /\ key' = key /\ nreq' = nreq
        BY <1>1, <4>2, <4>3
      <4>7. GivesNoise(i - 1)'
        <5>1. CASE copy[i] = Op("given", key, nreq) /\ v = 0
          <6>1. copy'[i - 1] = Op("given", key', nreq') /\ turn'[nreq'] = 0
            BY <4>6, <5>1
          <6> QED BY <6>1 DEF GivesNoise
        <5>2. CASE copy[i] = Op("draw", key, v) /\ v # 0
          <6>1. copy'[i - 1] = Op("draw", key', turn'[nreq']) /\ turn'[nreq'] # 0
            BY <4>6, <5>2
          <6> QED BY <6>1 DEF GivesNoise
        <5>3. CASE copy[i].name = "staged" /\ copy[i].key = key /\ v # 0 /\ StagedAt(i, v)
          <6>1. StagedAt(i - 1, v)' /\ turn'[nreq'] = v /\ turn'[nreq'] # 0
            BY <4>4, <4>6, <5>3
          <6>2. copy'[i - 1].name = "staged" /\ copy'[i - 1].key = key'
            BY <4>6, <5>3
          <6> QED BY <6>1, <6>2 DEF GivesNoise
        <5> QED BY <4>3, <4>5, <5>1, <5>2, <5>3 DEF GivesNoise
      <4> QED BY <4>3, <4>7
    <3>6. ASSUME own - 1 >= 2 PROVE copy'[(own - 1) - 1] = Op("inputs", key, nreq)
      <4>1. own >= 2 /\ (own - 1) - 1 \in 1 .. c /\ ((own - 1) - 1) + 1 = own - 1
        BY <3>1, <3>6
      <4> QED BY <1>7, <3>2, <4>1
    <3>7. ASSUME own - 1 >= 3
          PROVE  copy'[(own - 1) - 2] = Op("wait", NoKey, done["main"] + Len(main) - 3)
      <4>1. own >= 3 /\ (own - 1) - 2 \in 1 .. c /\ ((own - 1) - 2) + 1 = own - 2
        BY <3>1, <3>7
      <4> QED BY <1>7, <3>2, <4>1
    <3>8. ASSUME own - 1 = 2 PROVE nreq \in batch
      <4>1. own >= 3 /\ own - 2 = 1
        BY <3>1, <3>8
      <4>2. op = Op("wait", NoKey, done["main"] + Len(main) - 3)
        BY <3>2, <4>1 DEF op
      <4>3. op.name = "wait" /\ op.n = done["main"] + Len(main) - 3
        BY <4>2 DEF Op
      <4>4. done["main"] >= done["main"] + n - 3
        BY <1>1, <1>2, <2>1, <4>3
      <4>5. n = 3
        BY <2>3, <2>8, <4>4
      <4> QED BY <1>i, <2>1, <4>5 DEF CloneInv
    <3>9. ASSUME own - 1 <= 1 PROVE HasInputs'
      <4>1. own = 2 \/ own = 1 \/ own <= 0
        BY <3>1, <3>9
      <4>2. CASE own = 2
        <5>1. own >= 2 /\ own - 1 = 1
          BY <4>2
        <5>2. op = Op("inputs", key, nreq) /\ nreq \in batch
          BY <3>2, <4>2, <5>1 DEF op
        <5>3. op.name = "inputs" /\ op.key = key /\ op.n = nreq
          BY <5>2 DEF Op
        <5>4. statics'[key].inputs = nreq
          BY <1>3, <2>2, <5>2, <5>3
        <5> QED BY <1>1, <5>4 DEF HasInputs
      <4>3. CASE own = 1
        <5>1. HasInputs /\ GivesNoise(1)
          BY <3>2, <4>3
        <5>2. op.name \in {"given", "draw", "staged"}
          BY <5>1 DEF GivesNoise, Op, op
        <5>3. statics'[key].inputs = statics[key].inputs
          BY <1>3, <2>2, <5>2
        <5> QED BY <1>1, <5>1, <5>3 DEF HasInputs
      <4>4. CASE own <= 0
        <5>1. own <= 1
          BY <3>1, <4>4
        <5>2. HasInputs /\ statics'[key] = statics[key]
          BY <3>2, <3>3, <4>4, <5>1
        <5> QED BY <1>1, <5>2 DEF HasInputs
      <4> QED BY <4>1, <4>2, <4>3, <4>4
    <3>10. ASSUME own - 1 <= 0 PROVE HasNoise'
      <4>1. own = 1 \/ own <= 0
        BY <3>1, <3>10
      <4>2. CASE own = 1
        <5>1. GivesNoise(1)
          BY <3>2, <4>2
        <5>2. CASE op = Op("given", key, nreq) /\ turn[nreq] = 0
          <6>1. op.name = "given" /\ op.key = key /\ op.n = nreq
            BY <5>2 DEF Op
          <6>2. statics'[key].noise = -nreq
            BY <1>3, <2>2, <6>1
          <6>3. NoiseOf(nreq) = -nreq
            BY <5>2 DEF NoiseOf
          <6> QED BY <1>1, <2>3, <6>2, <6>3 DEF HasNoise
        <5>3. CASE op = Op("draw", key, turn[nreq]) /\ turn[nreq] # 0
          <6>1. op.name = "draw" /\ op.key = key /\ op.n = turn[nreq]
            BY <5>3 DEF Op
          <6>2. statics'[key].noise = turn[nreq]
            BY <1>3, <2>2, <6>1
          <6>3. NoiseOf(nreq) = turn[nreq]
            BY <5>3 DEF NoiseOf
          <6> QED BY <1>1, <2>3, <6>2, <6>3 DEF HasNoise
        <5>4. CASE op.name = "staged" /\ op.key = key /\ turn[nreq] # 0 /\ StagedAt(1, turn[nreq])
          <6>1. staging = turn[nreq]
            <7>1. 1 .. 1 - 1 = {}
              OBVIOUS
            <7> QED BY <5>4, <7>1 DEF StagedAt
          <6>2. statics'[key].noise = turn[nreq]
            BY <1>3, <2>2, <5>4, <6>1
          <6>3. NoiseOf(nreq) = turn[nreq]
            BY <5>4 DEF NoiseOf
          <6> QED BY <1>1, <2>3, <6>2, <6>3 DEF HasNoise
        <5> QED BY <5>1, <5>2, <5>3, <5>4 DEF GivesNoise, op
      <4>3. CASE own <= 0
        <5>1. HasNoise /\ statics'[key] = statics[key]
          BY <3>2, <3>3, <4>3
        <5> QED BY <1>1, <2>3, <5>1 DEF HasNoise
      <4> QED BY <4>1, <4>2, <4>3
    <3>11. done'["main"] + Len(main') - 3 = done["main"] + Len(main) - 3
      BY <1>1
    <3>12. PICK w \in Int : w = own - 1
      BY <3>1
    <3>13. /\ w >= 1 => GivesNoise(w)'
           /\ w >= 2 => copy'[w - 1] = Op("inputs", key', nreq')
           /\ w >= 3 => copy'[w - 2] = Op("wait", NoKey, done'["main"] + Len(main') - 3)
           /\ w = 2 => nreq' \in batch'
           /\ w <= 1 => HasInputs'
           /\ w <= 0 => HasNoise'
      BY <1>1, <1>3, <3>5, <3>6, <3>7, <3>8, <3>9, <3>10, <3>11, <3>12
    <3>14. Len(copy') - Ahead' = w /\ (Ahead' = 1 /\ Len(copy') > 0 => copy'[Len(copy')].name = "prefetch")
      BY <1>5, <2>3, <3>1, <3>4, <3>12
    <3> QED BY <3>13, <3>14 DEF CopyInv
  <2>9. n >= 3 => /\ main[n - 2] = Op("wait", NoKey, done["copy"] + Len(copy) - Ahead)
                  /\ CopyInv'
    BY <1>i, <2>1, <2>8 DEF CloneInv
  <2>10. /\ main[n] = Op("clone", key, nreq)
         /\ n >= 2 => main[n - 1] = Op("replay", key, 0)
         /\ n >= 4 => nreq \in batch \/ main[n - 3] = Op("batch", NoKey, nreq)
         /\ n = 3 => nreq \in batch
    BY <1>i, <2>1 DEF CloneInv
  <2> QED BY <1>1, <1>3, <2>1, <2>3, <2>5, <2>6, <2>7, <2>9, <2>10 DEF CloneInv
<1> QED BY <1>9, <1>10, <1>11, <1>12, <1>13 DEF Inv

-----------------------------------------------------------------------------
(* The theorems.                                                           *)

\* Every step of the engine keeps the invariant.
LEMMA InvStep == Inv /\ [Next]_vars => Inv'
<1> SUFFICES ASSUME Inv, [Next]_vars PROVE Inv'
  OBVIOUS
<1>1. DOMAIN status = Requests
  BY DEF Inv, Types
<1>2. CASE Precapture
  <2>1. UNCHANGED <<hostVars, rngVars, streams, gpuVars>> /\ graphs \subseteq graphs'
    BY <1>2 DEF Precapture
  <2> QED BY <1>1, <2>1, HostOnly DEF hostVars
<1>3. CASE StartServing
  <2>1. UNCHANGED <<graphs, hostVars, rngVars, streams, gpuVars>>
    BY <1>3 DEF StartServing
  <2> QED BY <1>1, <2>1, HostOnly DEF hostVars
<1>4. CASE \E k \in Keys, g, p \in BOOLEAN : Begin(k, g, p)
  BY <1>4, BeginStep
<1>5. CASE Pop
  <2>1. /\ pc = "prepared" /\ pc' = "sync"
        /\ UNCHANGED <<startVars, nreq, key, given, status, rngVars, streams, gpuVars>>
    BY <1>5 DEF Pop
  <2>2. \A i \in 1 .. Len(main) : ~HandOut(main[i])
    BY <2>1, NoHandOut
  <2> QED BY <1>1, <2>1, <2>2, HostOnly DEF startVars
<1>6. CASE LazyCapture
  <2>1. UNCHANGED <<hostVars, rngVars, streams, gpuVars>> /\ graphs \subseteq graphs'
    BY <1>6 DEF LazyCapture
  <2> QED BY <1>1, <2>1, HostOnly DEF hostVars
<1>7. CASE LazyCaptureFails
  <2>1. /\ pc = "prepared" /\ pc' = "idle" /\ status' = [status EXCEPT ![nreq] = "error"]
        /\ UNCHANGED <<startVars, nreq, key, given, rngVars, streams, gpuVars>>
    BY <1>7 DEF LazyCaptureFails, Inferring
  <2>2. \A i \in 1 .. Len(main) : ~HandOut(main[i])
    BY <2>1, NoHandOut
  <2> QED BY <1>1, <2>1, <2>2, HostOnly DEF startVars
<1>8. CASE Return
  <2>1. /\ pc = "sync" /\ pc' = "idle" /\ main = << >>
        /\ status' = [status EXCEPT ![nreq] = "ok"]
        /\ UNCHANGED <<startVars, nreq, key, given, rngVars, streams, gpuVars>>
    BY <1>8 DEF Return, main
  <2>2. \A i \in 1 .. Len(main) : ~HandOut(main[i])
    BY <2>1
  <2> QED BY <1>1, <2>1, <2>2, HostOnly DEF startVars
<1>9. CASE RunGraph
  BY <1>9, GraphStep
<1>10. CASE RunEager
  BY <1>10, EagerStep
<1>11. CASE \E s \in Streams : Execute(s)
  BY <1>11, MainExecutes, CopyExecutes DEF Streams
<1>12. CASE UNCHANGED vars
  <2>1. UNCHANGED <<startVars, hostVars, rngVars, streams, gpuVars>>
    BY <1>12 DEF vars
  <2> QED BY <1>1, <2>1, HostOnly DEF hostVars, startVars
<1> QED BY <1>2, <1>3, <1>4, <1>5, <1>6, <1>7, <1>8, <1>9, <1>10, <1>11, <1>12 DEF Next, Host

\* A chunk handed out by an inference was computed from the request's own
\* inputs: no static buffer is rewritten between the copies of a request, its
\* replay and the copy of its output (engine.py:492-549, graph.py:222-251).
THEOREM ChunksAreOwn == Spec => []OwnInputs
<1>1. Inv => OwnInputs
  BY DEF Inv, ResultInv, OwnInputs, Inferred
<1> QED BY <1>1, InvInit, InvStep, PTL DEF Spec

\* The n-th inference on the engine's own noise uses the n-th draw, an
\* inference on given noise uses that noise (engine.py:486-488).
THEOREM SeedsInSequence == Spec => []SeedSequence
<1>1. Inv => SeedSequence
  BY DEF Inv, ResultInv, SeedSequence, Inferred, NoiseOf
<1> QED BY <1>1, InvInit, InvStep, PTL DEF Spec
==============================================================================
