--------------------------- MODULE InferenceProofs ---------------------------
(***************************************************************************)
(* Theorems about Pi05Engine, for any number of cameras and placeholder    *)
(* slots, any language length and bucket, and any number of captures; and  *)
(* about InferenceCore, for any number of layers, denoise steps, prompts,  *)
(* requests and failures.                                                  *)
(***************************************************************************)
EXTENDS Pi05Engine, InferenceCore, SequenceTheorems, TLAPS

FullKey == [cams |-> RealCams + EmptyCams, lang |-> MaxLang]

-----------------------------------------------------------------------------
(* The packing rule. *)

\* A length of the grid is MaxLang or a multiple of the bucket by 1 .. MaxLang.
LEMMA Packed ==
  ASSUME NEW live \in 1 .. MaxLang
  PROVE  /\ PackedLangLen(live) \in 1 .. MaxLang
         /\ \/ PackedLangLen(live) = MaxLang
            \/ \E m \in 1 .. MaxLang : PackedLangLen(live) = m * LangBucket
<1> DEFINE q == (live + LangBucket - 1) \div LangBucket
<1>1. LangBucket \in Nat /\ LangBucket >= 1 /\ MaxLang \in Nat /\ live \in Nat
      /\ 1 <= live /\ live <= MaxLang
  BY Pi05Assumption
<1>2. q \in Int /\ q * LangBucket <= live + LangBucket - 1
      /\ live + LangBucket - 1 < (q + 1) * LangBucket
  BY <1>1
<1> HIDE DEF q
<1>3. q >= 1
  <2>1. SUFFICES ASSUME q <= 0 PROVE FALSE
    BY <1>2
  <2>2. (q + 1) * LangBucket <= LangBucket
    BY <1>1, <1>2, <2>1
  <2> QED BY <1>1, <1>2, <2>2
<1>4. q <= live
  <2>1. SUFFICES ASSUME q >= live + 1 PROVE FALSE
    BY <1>1, <1>2
  <2>2. q * LangBucket >= (live + 1) * LangBucket
    BY <1>1, <1>2, <2>1
  <2>3. (live + 1) * LangBucket = live * LangBucket + LangBucket
    BY <1>1
  <2>4. live * LangBucket >= live
    BY <1>1
  <2> QED BY <1>1, <1>2, <2>2, <2>3, <2>4
<1>5. q * LangBucket \in Nat /\ q * LangBucket >= 1
  BY <1>1, <1>2, <1>3
<1>6. PackedLangLen(live) = IF q * LangBucket <= MaxLang THEN q * LangBucket ELSE MaxLang
  BY DEF PackedLangLen, Min2, q
<1> QED BY <1>1, <1>2, <1>3, <1>4, <1>5, <1>6

\* A frame asks for a key, and for the full key without --pad-free.
LEMMA KeyOfFrame ==
  ASSUME padFree \in BOOLEAN, NEW frame \in Frames
  PROVE  /\ GraphKey(frame) \in Keys
         /\ ~padFree => GraphKey(frame) = FullKey
         /\ \/ GraphKey(frame).lang = MaxLang
            \/ \E m \in 1 .. MaxLang : GraphKey(frame).lang = m * LangBucket
<1>1. frame.cams \in 1 .. RealCams /\ frame.live \in 1 .. MaxLang
  BY DEF Frames
<1>2. /\ PackedLangLen(frame.live) \in 1 .. MaxLang
      /\ \/ PackedLangLen(frame.live) = MaxLang
         \/ \E m \in 1 .. MaxLang : PackedLangLen(frame.live) = m * LangBucket
  BY <1>1, Packed
<1>3. RealCams \in Nat \ {0} /\ EmptyCams \in Nat /\ MaxLang \in 1 .. 255
  BY Pi05Assumption
<1>4. SlotCount(frame) \in 1 .. RealCams + EmptyCams
  BY <1>1, <1>3 DEF SlotCount
<1>5. CASE padFree
  BY <1>2, <1>4, <1>5 DEF GraphKey, Keys
<1>6. CASE ~padFree
  BY <1>3, <1>4, <1>6 DEF GraphKey, Keys, FullKey, SlotCount
<1> QED BY <1>5, <1>6

\* So does the eager path, which meets the packing rule unless it finds the
\* model in static mode under --pad-free.
LEMMA PrefixOfFrame ==
  ASSUME padFree \in BOOLEAN, useStatic \in BOOLEAN, NEW frame \in Frames
  PROVE  /\ EagerPrefix(frame) \in Keys
         /\ ~padFree \/ ~useStatic => EagerPrefix(frame) = GraphKey(frame)
<1>1. frame.cams \in 1 .. RealCams /\ frame.live \in 1 .. MaxLang
  BY DEF Frames
<1>2. PackedLangLen(frame.live) \in 1 .. MaxLang
  BY <1>1, Packed
<1>3. RealCams \in Nat \ {0} /\ EmptyCams \in Nat /\ MaxLang \in 1 .. 255
  BY Pi05Assumption
<1>4. SlotCount(frame) \in 1 .. RealCams + EmptyCams
  BY <1>1, <1>3 DEF SlotCount
<1> QED BY <1>2, <1>3, <1>4 DEF EagerPrefix, GraphKey, Keys

-----------------------------------------------------------------------------
(* Captures.  What every capture keeps true, whether it ends well or not.  *)

\* An entry keeps the constants its own graph reads.
KeepInv == \A k \in DOMAIN graphs : graphs[k].reads \in graphs[k].keeps

\* Lengths are on the grid, and startup captures the full language length.
GridInv == ShapesBounded /\ \A k \in todo : k.lang = MaxLang

\* Without --pad-free there is one key.
FullInv ==
  ~padFree => /\ todo \subseteq {FullKey}
              /\ DOMAIN graphs \subseteq {FullKey}
              /\ maskKey \in {FullKey, NoKey}

\* An eager engine has an eager model; an engine that serves graphs has one.
EagerInv ==
  /\ ~graphEnabled => ~useStatic /\ todo = {}
  /\ serving /\ graphEnabled => DOMAIN graphs # {}
  /\ ~serving => last.outcome = "none"

GraphInv == KeepInv /\ GridInv /\ FullInv

Pi05Inv == TypeOK /\ GraphInv /\ EagerInv /\ PackedAlike

\* A capture of a key on the grid that succeeds.
LEMMA CaptureKeeps ==
  ASSUME TypeOK, GraphInv, NEW key \in Keys, Capture(key),
         ~padFree => key = FullKey,
         key.lang = MaxLang \/ \E m \in 1 .. MaxLang : key.lang = m * LangBucket,
         UNCHANGED padFree, todo' \subseteq todo
  PROVE  /\ GraphInv'
         /\ DOMAIN graphs' \subseteq Keys /\ DOMAIN graphs' # {}
         /\ \A k \in DOMAIN graphs' :
              graphs'[k] \in [reads : 1 .. captures', keeps : SUBSET (1 .. captures')]
         /\ useStatic' = TRUE /\ constants' \in 0 .. captures'
         /\ maskKey' \in Keys /\ captures' \in 0 .. MaxCaptures
<1>1. DOMAIN graphs' = DOMAIN graphs \cup {key}
  BY DEF Capture, NewEntry
<1>2. \A k \in DOMAIN graphs' :
        graphs'[k] = IF k = key THEN [reads |-> captures + 1, keeps |-> {captures + 1}]
                                ELSE graphs[k]
  BY DEF Capture, NewEntry
<1>3. /\ captures' = captures + 1 /\ captures < MaxCaptures /\ captures \in Nat
      /\ MaxCaptures \in Nat /\ useStatic' = TRUE /\ constants' = captures + 1 /\ maskKey' = key
  BY Pi05Assumption DEF Capture, TypeOK
<1>4. KeepInv'
  BY <1>1, <1>2 DEF GraphInv, KeepInv
<1>5. GridInv'
  BY <1>1 DEF GraphInv, GridInv, ShapesBounded
<1>6. FullInv'
  BY <1>1, <1>3 DEF GraphInv, FullInv
<1>7. ASSUME NEW k \in DOMAIN graphs'
      PROVE  graphs'[k] \in [reads : 1 .. captures', keeps : SUBSET (1 .. captures')]
  <2>1. CASE k = key
    BY <1>2, <1>3, <2>1
  <2>2. CASE k # key
    <3>1. graphs[k] \in [reads : 1 .. captures, keeps : SUBSET (1 .. captures)]
      BY <1>1, <2>2 DEF TypeOK
    <3>2. 1 .. captures \subseteq 1 .. captures'
      BY <1>3
    <3> QED BY <1>2, <2>2, <3>1, <3>2
  <2> QED BY <2>1, <2>2
<1> QED BY <1>1, <1>3, <1>4, <1>5, <1>6, <1>7 DEF GraphInv, TypeOK

\* A capture of such a key that fails.
LEMMA FailureKeeps ==
  ASSUME TypeOK, GraphInv, NEW key \in Keys, CaptureFails(key),
         ~padFree => key = FullKey,
         UNCHANGED padFree, todo' \subseteq todo
  PROVE  /\ GraphInv'
         /\ DOMAIN graphs' \subseteq Keys /\ graphs' = graphs
         /\ \A k \in DOMAIN graphs' :
              graphs'[k] \in [reads : 1 .. captures', keeps : SUBSET (1 .. captures')]
         /\ useStatic' = TRUE /\ constants' \in 0 .. captures'
         /\ maskKey' \in Keys \cup {NoKey} /\ captures' \in 0 .. MaxCaptures
<1>1. graphs' = graphs
  BY DEF CaptureFails
<1>2. /\ captures' = captures + 1 /\ captures < MaxCaptures /\ captures \in Nat
      /\ MaxCaptures \in Nat /\ useStatic' = TRUE
      /\ constants' \in {captures + 1, constants} /\ maskKey' \in {key, maskKey}
  BY Pi05Assumption DEF CaptureFails, TypeOK
<1>3. KeepInv' /\ GridInv'
  BY <1>1 DEF GraphInv, KeepInv, GridInv, ShapesBounded
<1>4. FullInv'
  BY <1>1, <1>2 DEF GraphInv, FullInv
<1>5. ASSUME NEW k \in DOMAIN graphs'
      PROVE  graphs'[k] \in [reads : 1 .. captures', keeps : SUBSET (1 .. captures')]
  <2>1. graphs[k] \in [reads : 1 .. captures, keeps : SUBSET (1 .. captures)]
    BY <1>1, <1>5 DEF TypeOK
  <2>2. 1 .. captures \subseteq 1 .. captures'
    BY <1>2
  <2> QED BY <1>1, <2>1, <2>2
<1> QED BY <1>1, <1>2, <1>3, <1>4, <1>5 DEF GraphInv, TypeOK

-----------------------------------------------------------------------------
(* The invariant. *)

LEMMA Pi05Init == Init => Pi05Inv
<1> SUFFICES ASSUME Init PROVE Pi05Inv
  OBVIOUS
<1>1. RealCams \in Nat \ {0} /\ EmptyCams \in Nat /\ MaxLang \in 1 .. 255
      /\ ActionSteps \in Nat \ {0} /\ MaxCaptures \in Nat
  BY Pi05Assumption
<1>2. DOMAIN graphs = {}
  BY DEF Init
<1>3. ASSUME NEW counts \in SUBSET (1 .. RealCams)
      PROVE  /\ StartupKeys(counts) \subseteq Keys
             /\ \A k \in StartupKeys(counts) : k.lang = MaxLang
             /\ ~padFree => StartupKeys(counts) \subseteq {FullKey}
  <2>1. 1 .. RealCams \subseteq 1 .. RealCams + EmptyCams
    BY <1>1
  <2>2. FullKey \in Keys /\ FullKey.lang = MaxLang
    BY <1>1 DEF FullKey, Keys
  <2>3. \A c \in counts : [cams |-> c, lang |-> MaxLang] \in Keys
    BY <1>1, <2>1 DEF Keys
  <2>4. CASE padFree
    BY <2>3, <2>4 DEF StartupKeys
  <2>5. CASE ~padFree
    BY <2>2, <2>5 DEF StartupKeys, FullKey
  <2> QED BY <2>4, <2>5
<1>4. todo \subseteq Keys /\ (\A k \in todo : k.lang = MaxLang) /\ (~padFree => todo \subseteq {FullKey})
  <2>1. CASE graphEnabled
    <3>1. PICK counts \in SUBSET (1 .. RealCams) : todo = StartupKeys(counts)
      BY <2>1 DEF Init
    <3> QED BY <1>3, <3>1
  <2>2. CASE ~graphEnabled
    BY <2>2 DEF Init
  <2> QED BY <2>1, <2>2
<1>5. TypeOK
  <2>1. last \in [frame : Frames \cup {NoLast.frame}, guided : BOOLEAN,
                  outcome : {"none", "ok", "capture", "mismatch"}, prefix : Keys \cup {NoKey}]
    BY DEF Init, NoLast
  <2>2. queue \in 0 .. ActionSteps - 1 /\ captures \in 0 .. MaxCaptures /\ constants \in 0 .. captures
    BY <1>1 DEF Init
  <2>3. padFree \in BOOLEAN /\ rtc \in BOOLEAN /\ graphEnabled \in BOOLEAN
        /\ serving \in BOOLEAN /\ useStatic \in BOOLEAN /\ maskKey \in Keys \cup {NoKey}
    BY DEF Init
  <2> QED BY <1>2, <1>4, <2>1, <2>2, <2>3 DEF TypeOK
<1>6. GraphInv
  BY <1>2, <1>4 DEF Init, GraphInv, KeepInv, GridInv, ShapesBounded, FullInv
<1>7. EagerInv /\ PackedAlike
  BY DEF Init, EagerInv, PackedAlike, NoLast
<1> QED BY <1>5, <1>6, <1>7 DEF Pi05Inv

\* Startup: captures of full-length keys, then the switch to serving.
LEMMA StartupStep ==
  ASSUME Pi05Inv, Precapture \/ StartServing
  PROVE  Pi05Inv'
<1>1. CASE Precapture
  <2>1. PICK key \in todo : /\ Capture(key) \/ CaptureFails(key)
                            /\ todo' = todo \ {key}
    BY <1>1 DEF Precapture
  <2>2. UNCHANGED <<padFree, rtc, graphEnabled, serving, queue, last>> /\ ~serving
    BY <1>1 DEF Precapture, options
  <2>3. key \in Keys /\ key.lang = MaxLang /\ (~padFree => key = FullKey)
    BY <2>1 DEF Pi05Inv, TypeOK, GraphInv, GridInv, FullInv
  <2>4. /\ GraphInv'
        /\ DOMAIN graphs' \subseteq Keys
        /\ \A k \in DOMAIN graphs' :
             graphs'[k] \in [reads : 1 .. captures', keeps : SUBSET (1 .. captures')]
        /\ useStatic' = TRUE /\ constants' \in 0 .. captures'
        /\ maskKey' \in Keys \cup {NoKey} /\ captures' \in 0 .. MaxCaptures
    <3>1. CASE Capture(key)
      BY <2>1, <2>2, <2>3, <3>1, CaptureKeeps DEF Pi05Inv
    <3>2. CASE CaptureFails(key)
      BY <2>1, <2>2, <2>3, <3>2, FailureKeeps DEF Pi05Inv
    <3> QED BY <2>1, <3>1, <3>2
  <2>5. TypeOK'
    BY <2>1, <2>2, <2>4 DEF Pi05Inv, TypeOK
  <2>6. EagerInv' /\ PackedAlike'
    BY <2>1, <2>2 DEF Pi05Inv, EagerInv, PackedAlike
  <2> QED BY <2>4, <2>5, <2>6 DEF Pi05Inv
<1>2. CASE StartServing
  <2>1. UNCHANGED <<padFree, rtc, constants, maskKey, captures, graphs, todo, queue, last>>
        /\ ~serving /\ serving' /\ serving' \in BOOLEAN /\ todo = {}
    BY <1>2 DEF StartServing, options
  <2>2. /\ graphEnabled' \in BOOLEAN /\ useStatic' \in BOOLEAN
        /\ ~graphEnabled' => ~useStatic'
        /\ graphEnabled' => DOMAIN graphs # {}
    BY <1>2 DEF StartServing, Pi05Inv, TypeOK, EagerInv
  <2>3. TypeOK'
    BY <2>1, <2>2 DEF Pi05Inv, TypeOK
  <2>4. GraphInv'
    BY <2>1 DEF Pi05Inv, GraphInv, KeepInv, GridInv, ShapesBounded, FullInv
  <2>5. EagerInv' /\ PackedAlike'
    BY <2>1, <2>2 DEF Pi05Inv, EagerInv, PackedAlike
  <2> QED BY <2>3, <2>4, <2>5 DEF Pi05Inv
<1> QED BY <1>1, <1>2

\* What an inference leaves, apart from the action queue.
InferPost(frame, guided) ==
  /\ GraphInv'
  /\ DOMAIN graphs' \subseteq Keys
  /\ DOMAIN graphs \subseteq DOMAIN graphs'
  /\ \A k \in DOMAIN graphs' :
       graphs'[k] \in [reads : 1 .. captures', keeps : SUBSET (1 .. captures')]
  /\ useStatic' \in BOOLEAN /\ (~graphEnabled => ~useStatic')
  /\ constants' \in 0 .. captures'
  /\ maskKey' \in Keys \cup {NoKey} /\ captures' \in 0 .. MaxCaptures
  /\ last' \in [frame : Frames, guided : BOOLEAN, outcome : {"ok", "capture", "mismatch"},
                prefix : Keys \cup {NoKey}]
  /\ PackedAlike'

\* An inference on the graph path runs at the length of its key.
LEMMA GraphPath ==
  ASSUME Pi05Inv, NEW frame \in Frames, RunGraph(frame), graphEnabled,
         UNCHANGED <<padFree, graphEnabled, todo>>
  PROVE  InferPost(frame, FALSE)
<1> DEFINE key == GraphKey(frame)
<1>1. padFree \in BOOLEAN
  BY DEF Pi05Inv, TypeOK
<1>2. /\ key \in Keys /\ (~padFree => key = FullKey)
      /\ key.lang = MaxLang \/ \E m \in 1 .. MaxLang : key.lang = m * LangBucket
  BY <1>1, KeyOfFrame
<1>3. GraphKey(frame)' = GraphKey(frame)
  BY DEF GraphKey, SlotCount
<1>4. CASE key \in DOMAIN graphs /\ Ends(frame, FALSE, "ok", key) /\ UNCHANGED <<modelVars, graphs>>
  <2>1. UNCHANGED <<useStatic, constants, maskKey, captures, graphs>>
    BY <1>4 DEF modelVars
  <2>2. GraphInv'
    BY <2>1 DEF Pi05Inv, GraphInv, KeepInv, GridInv, ShapesBounded, FullInv
  <2>3. last' = [frame |-> frame, guided |-> FALSE, outcome |-> "ok", prefix |-> key]
    BY <1>4 DEF Ends
  <2>4. PackedAlike'
    BY <1>3, <2>3 DEF PackedAlike, GraphKey, SlotCount
  <2> QED BY <1>2, <2>1, <2>2, <2>3, <2>4 DEF InferPost, Pi05Inv, TypeOK
<1>5. CASE Capture(key) /\ Ends(frame, FALSE, "ok", key)
  <2>1. last' = [frame |-> frame, guided |-> FALSE, outcome |-> "ok", prefix |-> key]
    BY <1>5 DEF Ends
  <2>2. PackedAlike'
    BY <1>3, <2>1 DEF PackedAlike, GraphKey, SlotCount
  <2>3. DOMAIN graphs \subseteq DOMAIN graphs'
    BY <1>5 DEF Capture, NewEntry
  <2> HIDE DEF key
  <2>4. /\ GraphInv'
        /\ DOMAIN graphs' \subseteq Keys
        /\ \A k \in DOMAIN graphs' :
             graphs'[k] \in [reads : 1 .. captures', keeps : SUBSET (1 .. captures')]
        /\ useStatic' = TRUE /\ constants' \in 0 .. captures'
        /\ maskKey' \in Keys /\ captures' \in 0 .. MaxCaptures
    BY <1>2, <1>5, CaptureKeeps DEF Pi05Inv
  <2> QED BY <1>2, <2>1, <2>2, <2>3, <2>4 DEF InferPost
<1>6. CASE CaptureFails(key) /\ Ends(frame, FALSE, "capture", NoKey)
  <2>1. last' = [frame |-> frame, guided |-> FALSE, outcome |-> "capture", prefix |-> NoKey]
    BY <1>6 DEF Ends
  <2>2. PackedAlike'
    BY <2>1 DEF PackedAlike
  <2> HIDE DEF key
  <2>3. /\ GraphInv'
        /\ DOMAIN graphs' \subseteq Keys /\ graphs' = graphs
        /\ \A k \in DOMAIN graphs' :
             graphs'[k] \in [reads : 1 .. captures', keeps : SUBSET (1 .. captures')]
        /\ useStatic' = TRUE /\ constants' \in 0 .. captures'
        /\ maskKey' \in Keys \cup {NoKey} /\ captures' \in 0 .. MaxCaptures
    BY <1>2, <1>6, FailureKeeps DEF Pi05Inv
  <2> QED BY <2>1, <2>2, <2>3 DEF InferPost
<1> QED BY <1>4, <1>5, <1>6 DEF RunGraph

\* An eager inference meets a mask of its own length: there is no static mask,
\* or there is one key, or it is the kind of request PackedAlike leaves out.
LEMMA EagerPath ==
  ASSUME Pi05Inv, NEW frame \in Frames, NEW guided \in BOOLEAN, RunEager(frame, guided),
         graphEnabled => guided,
         UNCHANGED <<padFree, graphEnabled, todo>>
  PROVE  InferPost(frame, guided)
<1> DEFINE prefix == EagerPrefix(frame)
           fits   == ~useStatic \/ maskKey = NoKey \/ maskKey = prefix
<1>1. padFree \in BOOLEAN /\ useStatic \in BOOLEAN /\ graphEnabled \in BOOLEAN
  BY DEF Pi05Inv, TypeOK
<1>2. prefix \in Keys /\ (~padFree \/ ~useStatic => prefix = GraphKey(frame))
  BY <1>1, PrefixOfFrame
<1>3. ~padFree => GraphKey(frame) = FullKey
  BY <1>1, KeyOfFrame
<1>4. UNCHANGED <<useStatic, constants, maskKey, captures, graphs>>
  BY DEF RunEager, modelVars
<1>5. last' = [frame |-> frame, guided |-> guided,
               outcome |-> IF fits THEN "ok" ELSE "mismatch", prefix |-> prefix]
  BY DEF RunEager, Ends
<1>6. GraphInv'
  BY <1>4 DEF Pi05Inv, GraphInv, KeepInv, GridInv, ShapesBounded, FullInv
<1>7. PackedAlike'
  <2>1. SUFFICES ASSUME ~(padFree /\ graphEnabled /\ guided)
                 PROVE  fits /\ prefix = GraphKey(frame)
    BY <1>5 DEF PackedAlike, GraphKey, SlotCount
  <2>2. CASE ~padFree
    BY <1>2, <1>3, <2>2 DEF Pi05Inv, GraphInv, FullInv
  <2>3. CASE ~graphEnabled
    BY <1>2, <2>3 DEF Pi05Inv, EagerInv
  <2> QED BY <1>1, <2>1, <2>2, <2>3
<1>8. last' \in [frame : Frames, guided : BOOLEAN, outcome : {"ok", "capture", "mismatch"},
                prefix : Keys \cup {NoKey}]
  BY <1>2, <1>5
<1> HIDE DEF prefix, fits
<1> QED BY <1>4, <1>6, <1>7, <1>8 DEF InferPost, Pi05Inv, TypeOK, EagerInv

\* Either path, as Infer chooses it while the engine serves.
LEMMA EitherPath ==
  ASSUME Pi05Inv, serving, NEW frame \in Frames, NEW guided \in BOOLEAN, Infer(frame, guided),
         UNCHANGED <<padFree, graphEnabled, todo>>
  PROVE  InferPost(frame, guided)
<1>1. CASE ~guided /\ graphEnabled /\ DOMAIN graphs # {}
  <2>1. RunGraph(frame) /\ guided = FALSE
    BY <1>1 DEF Infer
  <2> QED BY <1>1, <2>1, GraphPath
<1>2. CASE ~(~guided /\ graphEnabled /\ DOMAIN graphs # {})
  <2>1. RunEager(frame, guided)
    BY <1>2 DEF Infer
  <2>2. graphEnabled => guided
    BY <1>2 DEF Pi05Inv, EagerInv
  <2> QED BY <2>1, <2>2, EagerPath
<1> QED BY <1>1, <1>2

\* A request that infers, given what it does to the queue.
LEMMA InferKeeps ==
  ASSUME Pi05Inv, serving, NEW frame \in Frames, NEW guided \in BOOLEAN, Infer(frame, guided),
         UNCHANGED <<padFree, rtc, graphEnabled, todo, serving>>,
         queue' \in 0 .. ActionSteps - 1
  PROVE  Pi05Inv'
<1>1. InferPost(frame, guided)
  BY EitherPath
<1>2. TypeOK'
  BY <1>1 DEF InferPost, Pi05Inv, TypeOK
<1>3. EagerInv'
  BY <1>1 DEF InferPost, Pi05Inv, EagerInv
<1> QED BY <1>1, <1>2, <1>3 DEF InferPost, Pi05Inv

\* No step breaks the invariant.
LEMMA Pi05NextKeeps == Pi05Inv /\ [Next]_vars => Pi05Inv'
<1> SUFFICES ASSUME Pi05Inv, [Next]_vars PROVE Pi05Inv'
  OBVIOUS
<1>1. CASE Precapture \/ StartServing
  BY <1>1, StartupStep
<1>2. ASSUME NEW frame \in Frames, NEW guided \in BOOLEAN, PredictActionChunk(frame, guided)
      PROVE  Pi05Inv'
  <2>1. serving /\ Infer(frame, guided)
        /\ UNCHANGED <<padFree, rtc, graphEnabled, todo, serving, queue>>
    BY <1>2 DEF PredictActionChunk, options, engineVars
  <2>2. queue' \in 0 .. ActionSteps - 1
    BY <2>1 DEF Pi05Inv, TypeOK
  <2> QED BY <2>1, <2>2, InferKeeps
<1>3. ASSUME NEW frame \in Frames, SelectAction(frame)
      PROVE  Pi05Inv'
  <2>1. serving /\ UNCHANGED <<padFree, rtc, graphEnabled, todo, serving>>
    BY <1>3 DEF SelectAction, options
  <2>2. CASE queue > 0 /\ queue' = queue - 1 /\ UNCHANGED <<modelVars, graphs, last>>
    <3>1. UNCHANGED <<useStatic, constants, maskKey, captures, graphs, last>>
      BY <2>2 DEF modelVars
    <3>2. queue' \in 0 .. ActionSteps - 1
      BY <2>2, Pi05Assumption DEF Pi05Inv, TypeOK
    <3>3. TypeOK'
      BY <2>1, <3>1, <3>2 DEF Pi05Inv, TypeOK
    <3>4. GraphInv'
      BY <2>1, <3>1 DEF Pi05Inv, GraphInv, KeepInv, GridInv, ShapesBounded, FullInv
    <3>5. EagerInv'
      BY <2>1, <3>1 DEF Pi05Inv, EagerInv
    <3>6. PackedAlike'
      BY <2>1, <3>1 DEF Pi05Inv, PackedAlike, GraphKey, SlotCount
    <3> QED BY <3>3, <3>4, <3>5, <3>6 DEF Pi05Inv
  <2>3. CASE Infer(frame, FALSE) /\ queue' = IF last'.outcome = "ok" THEN ActionSteps - 1 ELSE 0
    <3>1. queue' \in 0 .. ActionSteps - 1
      BY <2>3, Pi05Assumption
    <3> QED BY <2>1, <2>3, <3>1, InferKeeps
  <2> QED BY <1>3, <2>2, <2>3 DEF SelectAction
<1>4. CASE UNCHANGED vars
  <2>1. UNCHANGED <<padFree, rtc, useStatic, constants, maskKey, captures, graphEnabled, todo,
                    serving, queue, graphs, last>>
    BY <1>4 DEF vars, options, modelVars, engineVars
  <2>2. TypeOK' /\ EagerInv'
    BY <2>1 DEF Pi05Inv, TypeOK, EagerInv
  <2>3. GraphInv'
    BY <2>1 DEF Pi05Inv, GraphInv, KeepInv, GridInv, ShapesBounded, FullInv
  <2>4. PackedAlike'
    BY <2>1 DEF Pi05Inv, PackedAlike, GraphKey, SlotCount
  <2> QED BY <2>2, <2>3, <2>4 DEF Pi05Inv
<1> QED BY <1>1, <1>2, <1>3, <1>4 DEF Next

-----------------------------------------------------------------------------
(* Theorems. *)

\* Every reachable state of the engine is typed.
THEOREM Pi05TypeCorrect == Spec => []TypeOK
<1>1. Pi05Inv => TypeOK
  BY DEF Pi05Inv
<1> QED BY Pi05Init, Pi05NextKeeps, <1>1, PTL DEF Spec

\* A replay reads constants that are still allocated: each entry keeps those of
\* its own graph (engine.py:572-575, 610).
THEOREM ReplaysSafe == Spec => []ConstantsAlive
<1>1. Pi05Inv => ConstantsAlive
  BY DEF Pi05Inv, GraphInv, KeepInv, ConstantsAlive
<1> QED BY Pi05Init, Pi05NextKeeps, <1>1, PTL DEF Spec

\* The captured language lengths stay on the grid, for any bucket
\* (flow_matching.py:729-736).
THEOREM ShapesOnGrid == Spec => []ShapesBounded
<1>1. Pi05Inv => ShapesBounded
  BY DEF Pi05Inv, GraphInv, GridInv
<1> QED BY Pi05Init, Pi05NextKeeps, <1>1, PTL DEF Spec

\* The graph path and the eager path use the same length for every request but
\* the guided ones of --pad-free with graphs (policy.py:116-118).
THEOREM PathsAgree == Spec => []PackedAlike
<1>1. Pi05Inv => PackedAlike
  BY DEF Pi05Inv
<1> QED BY Pi05Init, Pi05NextKeeps, <1>1, PTL DEF Spec

-----------------------------------------------------------------------------
(* InferenceCore.  The calls of a request, by what they do.                *)

Places == Nat \X Nat \X Nat \X Nat

\* The calls that go to a stream, and the operation each becomes there.
Enqueued(r) == {c \in Calls(r) : c.do # "record"}
Launches(r) == {c \in Calls(r) : c.do = "launch"}
Waits(r)    == {c \in Calls(r) : c.do \in {"wait_stream", "wait_event"}}
On(w)       == IF w.do = "wait_stream" THEN w.on ELSE "main"
Target(w)   == IF w.do = "wait_stream" THEN w.at ELSE <<w.at[1], 1, w.at[3], 11>>
Entry(c)    == IF c.do \in {"launch", "grow"} THEN c ELSE Wait(c, On(c), Target(c))

ConfigInv ==
  /\ backend \in {"fastwam", "pi05", "smolvla"}
  /\ graph \in BOOLEAN /\ overlap \in BOOLEAN /\ static \in BOOLEAN
  /\ backend = "smolvla" /\ overlap => static

InputStream == IF graph THEN "copy" ELSE "main"

IsInput(x, r) ==
  /\ x.at = <<r, 0, 0, 2>> /\ x.st = InputStream /\ x.reads = {}
  /\ x.cell = <<"input", 0>> /\ x.tag = <<r, 0, 0>>
IsNoise(x, r) ==
  /\ x.at = <<r, 0, 0, 3>> /\ x.st = InputStream /\ x.reads = {}
  /\ x.cell = <<"latent", 0>> /\ x.tag = <<r, 0, 0>>
IsEncode(x, r) ==
  /\ x.at = <<r, 1, 0, 5>> /\ x.st = "main" /\ x.reads = {Input(r)}
  /\ x.cell = <<"prefix", 0>> /\ x.tag = <<r, 0, 0>>
IsContext(x, r) ==
  /\ x.at = <<r, 1, 0, 6>> /\ x.st = "main" /\ x.reads = {Input(r)}
  /\ x.cell = <<"action_ctx", 0>> /\ x.tag = <<r, 0, 0>> /\ backend = "fastwam"
IsBegin(x, r, s) ==
  /\ x.at = <<r, StepStage(s), 0, 7>> /\ x.st = "main"
  /\ \/ x.reads = {Latent(r, s)}
     \/ x.reads = {Latent(r, s), Context(r)} /\ backend = "fastwam"
  /\ x.cell = <<"action", 0>> /\ x.tag = <<r, s, 0>>
IsKv(x, r, i) ==
  /\ x.at = <<r, 1, i, 9>> /\ x.st = "main" /\ x.reads = {Prefix(r, i - 1)}
  /\ x.cell = <<"kv", i>> /\ x.tag = <<r, 0, i>>
IsTokens(x, r, i) ==
  /\ x.at = <<r, 1, i, 10>> /\ x.st = "main"
  /\ x.reads = {Prefix(r, i - 1), Kv("kv", r, i)}
  /\ x.cell = <<"prefix", i>> /\ x.tag = <<r, 0, i>>
IsScratch(x, r, s, i) ==
  /\ x.at = <<r, StepStage(s), i, 14>> /\ x.st = StepStream(s) /\ backend = "fastwam"
  /\ x.reads = {Act(r, s, i - 1), Kv("kv", r, i), Context(r)}
  /\ x.cell = <<"scratch", 0>> /\ x.tag = <<r, s, i>>
IsSuffix(x, r, s, i) ==
  /\ x.at = <<r, StepStage(s), i, 15>> /\ x.st = StepStream(s)
  /\ backend = "smolvla" /\ SelfLayer(i)
  /\ x.reads = {Act(r, s, i - 1)}
  /\ x.cell = <<"suffix", i>> /\ x.tag = <<r, s, i>>
IsAction(x, r, s, i) ==
  /\ x.at = <<r, StepStage(s), i, 16>> /\ x.st = StepStream(s)
  /\ \/ backend = "fastwam" /\ x.reads = {Scratch(r, s, i)}
     \/ backend = "pi05" /\ x.reads = {Act(r, s, i - 1), Kv("kv", r, i)}
     \/ /\ backend = "smolvla" /\ SelfLayer(i)
        /\ x.reads = {Act(r, s, i - 1), Kv(SuffixBuf, r, i), Suffix(r, s, i)}
     \/ /\ backend = "smolvla" /\ ~SelfLayer(i)
        /\ x.reads = {Act(r, s, i - 1),
                      IF overlap /\ s = 0 THEN Kv("kv", r, i) ELSE ExpertKv(r, i)}
  /\ x.cell = <<"action", i>> /\ x.tag = <<r, s, i>>
IsEnd(x, r, s) ==
  /\ x.at = <<r, StepStage(s), Layers + 1, 18>> /\ x.st = "main"
  /\ x.reads = {Act(r, s, Layers), Latent(r, s)}
  /\ x.cell = <<"latent", 0>> /\ x.tag = <<r, s + 1, 0>>
IsProject(x, r, i) ==
  /\ x.at = <<r, 2, i, 19>> /\ x.st = "main" /\ backend = "smolvla" /\ ~SelfLayer(i)
  /\ x.reads = {Kv("kv", r, i)}
  /\ x.cell = <<"expert_kv", i>> /\ x.tag = <<r, 0, i>>

LaunchKind(x, r, s, i) ==
  \/ IsInput(x, r) \/ IsNoise(x, r) \/ IsEncode(x, r) \/ IsContext(x, r)
  \/ IsBegin(x, r, s) \/ IsKv(x, r, i) \/ IsTokens(x, r, i) \/ IsScratch(x, r, s, i)
  \/ IsSuffix(x, r, s, i) \/ IsAction(x, r, s, i) \/ IsEnd(x, r, s) \/ IsProject(x, r, i)

WaitKind(w, r) ==
  \/ graph /\ w = WaitStream(<<r, 0, 0, 1>>, "copy", "main")
  \/ graph /\ w = WaitStream(<<r, 0, 0, 4>>, "main", "copy")
  \/ overlap /\ w = Fork(r)
  \/ overlap /\ \E i \in 1 .. Layers : w = WaitEvent(<<r, 1, i, 12>>, "side", i)
  \/ overlap /\ w = Join(r)

IsGrow(g, r) ==
  /\ backend = "smolvla" /\ ~static /\ ~overlap
  /\ g = Grow(<<r, 3, 1, 13>>, "main")

IsRecord(c, r) == overlap /\ \E i \in 1 .. Layers : c = Record(<<r, 1, i, 11>>, i)

IsLaunch(x, r) ==
  x.do = "launch" /\ \E s \in 0 .. Steps - 1 : \E i \in 1 .. Layers : LaunchKind(x, r, s, i)

CallOK(c, r) == IsLaunch(c, r) \/ WaitKind(c, r) \/ IsGrow(c, r) \/ IsRecord(c, r)

USE CoreAssumption

-----------------------------------------------------------------------------
(* Every call of a request is one of these.                                *)

\* The calls that bring the inputs.
LEMMA InputCalls ==
  ASSUME ConfigInv, NEW r \in Nat, NEW c \in Inputs(r)
  PROVE  CallOK(c, r)
<1>1. 0 \in 0 .. Steps - 1 /\ 1 \in 1 .. Layers
  OBVIOUS
<1>2. CASE c = Launch(<<r, 0, 0, 2>>, InputStream, {}, Input(r))
  <2>1. c.do = "launch" /\ LaunchKind(c, r, 0, 1)
    BY <1>2 DEF LaunchKind, IsInput, IsNoise, Launch, Input, Is, Cell
  <2> QED BY <1>1, <2>1 DEF CallOK, IsLaunch
<1>3. CASE c = Launch(<<r, 0, 0, 3>>, InputStream, {}, Latent(r, 0))
  <2>1. c.do = "launch" /\ LaunchKind(c, r, 0, 1)
    BY <1>3 DEF LaunchKind, IsInput, IsNoise, Launch, Latent, Is, Cell
  <2> QED BY <1>1, <2>1 DEF CallOK, IsLaunch
<1> QED BY <1>2, <1>3 DEF ConfigInv, Inputs, InputStream, CallOK, WaitKind

\* The stage and the stream of a step.
LEMMA StepPlaces ==
  ASSUME ConfigInv, NEW s \in 0 .. Steps - 1
  PROVE  StepStage(s) \in Nat /\ StepStage(s) >= 1
         /\ (StepStage(s) = 1 <=> overlap /\ s = 0) /\ (StepStage(s) # 1 => StepStage(s) = 3 + s)
         /\ StepStream(s) = IF overlap /\ s = 0 THEN "side" ELSE "main"
BY DEF StepStage, StepStream, ConfigInv

\* A layer of the prefill.
LEMMA PrefillCalls ==
  ASSUME NEW r \in Nat, NEW i \in 1 .. Layers, NEW c \in PrefillLayer(r, i, "kv")
  PROVE  IsLaunch(c, r)
<1>1. 0 \in 0 .. Steps - 1
  OBVIOUS
<1>2. c.do = "launch" /\ LaunchKind(c, r, 0, i)
  BY DEF PrefillLayer, LaunchKind, IsKv, IsTokens, Launch, Kv, Prefix, Is
<1> QED BY <1>1, <1>2 DEF IsLaunch

\* The encoding, the head of a step, its start, and the layers of each backend.
LEMMA EncodeCall ==
  ASSUME NEW r \in Nat PROVE IsLaunch(Encode(r), r)
<1>1. 0 \in 0 .. Steps - 1 /\ 1 \in 1 .. Layers
  OBVIOUS
<1>2. Encode(r).do = "launch" /\ LaunchKind(Encode(r), r, 0, 1)
  BY DEF Encode, LaunchKind, IsEncode, Launch, Input, Prefix, Is, Cell
<1> QED BY <1>1, <1>2 DEF IsLaunch

\* The head of a step.
LEMMA EndCall ==
  ASSUME NEW r \in Nat, NEW s \in 0 .. Steps - 1 PROVE IsLaunch(StepEnd(r, s), r)
<1>1. 1 \in 1 .. Layers
  OBVIOUS
<1>2. StepEnd(r, s).do = "launch" /\ LaunchKind(StepEnd(r, s), r, s, 1)
  BY DEF StepEnd, LaunchKind, IsEnd, Launch, Latent, Is, Cell
<1> QED BY <1>1, <1>2 DEF IsLaunch

\* The start of a step.
LEMMA BeginCall ==
  ASSUME NEW r \in Nat, NEW s \in 0 .. Steps - 1
  PROVE  IsLaunch(EmbedSuffix(r, s), r) /\ (backend = "fastwam" => IsLaunch(ActionPre(r, s), r))
<1>1. 1 \in 1 .. Layers
  OBVIOUS
<1>2. EmbedSuffix(r, s).do = "launch" /\ LaunchKind(EmbedSuffix(r, s), r, s, 1)
  BY DEF EmbedSuffix, LaunchKind, IsBegin, Launch, Act, Is, Cell
<1>3. backend = "fastwam" => ActionPre(r, s).do = "launch" /\ LaunchKind(ActionPre(r, s), r, s, 1)
  BY DEF ActionPre, LaunchKind, IsBegin, Launch, Act, Is, Cell
<1> QED BY <1>1, <1>2, <1>3 DEF IsLaunch

\* A layer of a step of fastwam.
LEMMA FastwamLayerCalls ==
  ASSUME backend = "fastwam", NEW r \in Nat, NEW s \in 0 .. Steps - 1, NEW i \in 1 .. Layers,
         NEW c \in ActionLayer(r, s, i)
  PROVE  IsLaunch(c, r)
<1>1. c.do = "launch" /\ LaunchKind(c, r, s, i)
  BY DEF ActionLayer, LaunchKind, IsScratch, IsAction, Launch, Scratch, Act, Is, Cell
<1> QED BY <1>1 DEF IsLaunch

\* A layer of a step of pi05.
LEMMA Pi05LayerCall ==
  ASSUME backend = "pi05", NEW r \in Nat, NEW s \in 0 .. Steps - 1, NEW i \in 1 .. Layers
  PROVE  IsLaunch(Pi05Layer(r, s, i), r)
<1>1. Pi05Layer(r, s, i).do = "launch" /\ LaunchKind(Pi05Layer(r, s, i), r, s, i)
  BY DEF Pi05Layer, LaunchKind, IsAction, Launch, Act, Is
<1> QED BY <1>1 DEF IsLaunch

\* Step 0 of an overlapped inference finds no projections: the prefill has begun to fill.
LEMMA NeverMatched ==
  ASSUME NEW r \in Nat, NEW i \in 1 .. Layers PROVE ~Matched(r, (r - 1) * Layers + i)
<1>1. (r - 1) * Layers \in Int
  OBVIOUS
<1> QED BY <1>1 DEF Matched

\* A layer of a step of smolvla.
LEMMA SmolvlaLayerCalls ==
  ASSUME ConfigInv, backend = "smolvla",
         NEW r \in Nat, NEW s \in 0 .. Steps - 1, NEW i \in 1 .. Layers,
         NEW c \in SmolvlaLayer(r, s, i)
  PROVE  CallOK(c, r)
<1>1. CASE SelfLayer(i)
  <2>1. CASE c = Launch(<<r, StepStage(s), i, 15>>, StepStream(s), {Act(r, s, i - 1)}, Suffix(r, s, i))
    <3>1. c.do = "launch" /\ LaunchKind(c, r, s, i)
      BY <1>1, <2>1 DEF LaunchKind, IsSuffix, IsAction, Launch, Suffix, Is
    <3> QED BY <3>1 DEF IsLaunch, CallOK
  <2>2. CASE c = Launch(<<r, StepStage(s), i, 16>>, StepStream(s),
                        {Act(r, s, i - 1), Kv(SuffixBuf, r, i), Suffix(r, s, i)}, Act(r, s, i))
    <3>1. c.do = "launch" /\ LaunchKind(c, r, s, i)
      BY <1>1, <2>2 DEF LaunchKind, IsSuffix, IsAction, Launch, Act, Is
    <3> QED BY <3>1 DEF IsLaunch, CallOK
  <2>3. CASE ~static /\ s = 0 /\ i = 1 /\ c = Grow(<<r, StepStage(s), i, 13>>, StepStream(s))
    BY <2>3, StepPlaces DEF CallOK, IsGrow, ConfigInv
  <2> QED BY <1>1, <2>1, <2>2, <2>3 DEF SmolvlaLayer, WriteSuffix
<1>2. CASE ~SelfLayer(i)
  <2>1. Projected(r, s, i) <=> ~(overlap /\ s = 0)
    BY NeverMatched DEF Projected, ConfigInv
  <2>2. overlap /\ s = 0 => SuffixBuf = "kv"
    BY DEF ConfigInv, SuffixBuf
  <2>3. c = Launch(<<r, StepStage(s), i, 16>>, StepStream(s),
                   {Act(r, s, i - 1), IF Projected(r, s, i) THEN ExpertKv(r, i) ELSE Kv(SuffixBuf, r, i)},
                   Act(r, s, i))
    BY <1>2 DEF SmolvlaLayer
  <2>4. c = Launch(<<r, StepStage(s), i, 16>>, StepStream(s),
                   {Act(r, s, i - 1), IF overlap /\ s = 0 THEN Kv("kv", r, i) ELSE ExpertKv(r, i)},
                   Act(r, s, i))
    BY <2>1, <2>2, <2>3
  <2>5. c.do = "launch" /\ LaunchKind(c, r, s, i)
    BY <1>2, <2>4 DEF LaunchKind, IsSuffix, IsAction, Launch, Act, Is
  <2> QED BY <2>5 DEF IsLaunch, CallOK
<1> QED BY <1>1, <1>2

\* The projections of the prefix for smolvla's expert.
LEMMA ProjectCalls ==
  ASSUME backend = "smolvla", NEW r \in Nat, NEW c \in ProjectExpert(r, "kv")
  PROVE  IsLaunch(c, r)
<1>1. PICK i \in 1 .. Layers : ~SelfLayer(i) /\ c = Launch(<<r, 2, i, 19>>, "main", {Kv("kv", r, i)}, ExpertKv(r, i))
  BY DEF ProjectExpert
<1>2. 0 \in 0 .. Steps - 1
  OBVIOUS
<1>3. c.do = "launch" /\ LaunchKind(c, r, 0, i)
  BY <1>1 DEF LaunchKind, IsProject, Launch, ExpertKv, Is
<1> QED BY <1>2, <1>3 DEF IsLaunch

\* The waits and records between the streams.
LEMMA GateCalls ==
  ASSUME overlap, NEW r \in Nat, NEW c \in {Fork(r), Join(r)} \cup Gates(r)
  PROVE  CallOK(c, r)
BY DEF Gates, Gate, CallOK, WaitKind, IsRecord

\* A call of a request is one of the catalogue.
LEMMA CallKinds ==
  ASSUME ConfigInv, NEW r \in Nat, NEW c \in Calls(r)
  PROVE  CallOK(c, r)
<1>s. 0 \in 0 .. Steps - 1 /\ 1 .. Steps - 1 \subseteq 0 .. Steps - 1
  OBVIOUS
<1>1. CASE c \in Inputs(r)
  BY <1>1, InputCalls
<1>2. CASE backend = "fastwam" /\ c \in FastwamCore(r)
  <2>1. ASSUME NEW s \in 0 .. Steps - 1, c \in DenoiseStep(r, s) PROVE CallOK(c, r)
    BY <1>2, <2>1, BeginCall, EndCall, FastwamLayerCalls DEF DenoiseStep, CallOK
  <2>2. CASE c = ActionCtx(r)
    <3>1. 1 \in 1 .. Layers
      OBVIOUS
    <3>2. c.do = "launch" /\ LaunchKind(c, r, 0, 1)
      BY <1>2, <2>2 DEF ActionCtx, LaunchKind, IsContext, Launch, Context, Is, Cell
    <3> QED BY <1>s, <3>1, <3>2 DEF IsLaunch, CallOK
  <2>3. CASE \E i \in 1 .. Layers : c \in PrefillLayer(r, i, "kv")
    BY <2>3, PrefillCalls DEF CallOK
  <2>4. CASE c \in (IF overlap THEN FastwamOverlap(r) ELSE DenoiseStep(r, 0))
    BY <1>s, <2>1, <2>4, GateCalls DEF FastwamOverlap
  <2>5. CASE \E s \in 1 .. Steps - 1 : c \in DenoiseStep(r, s)
    BY <1>s, <2>1, <2>5
  <2>6. CASE c = Encode(r)
    BY <2>6, EncodeCall DEF CallOK
  <2> DEFINE prefill == UNION {PrefillLayer(r, i, "kv") : i \in 1 .. Layers}
             later   == UNION {DenoiseStep(r, s) : s \in 1 .. Steps - 1}
             first   == IF overlap THEN FastwamOverlap(r) ELSE DenoiseStep(r, 0)
  <2>7. FastwamCore(r) = {Encode(r), ActionCtx(r)} \cup prefill \cup first \cup later
    BY DEF FastwamCore
  <2>8. c \in prefill => CallOK(c, r)
    BY <2>3, Zenon
  <2>9. c \in later => CallOK(c, r)
    BY <2>5, Zenon
  <2>10. c \in first => CallOK(c, r)
    BY <2>4
  <2> HIDE DEF prefill, later, first
  <2> QED BY <1>2, <2>2, <2>6, <2>7, <2>8, <2>9, <2>10
<1>3. CASE backend = "pi05" /\ c \in Pi05Core(r)
  <2>1. ASSUME NEW s \in 0 .. Steps - 1, c \in Pi05Step(r, s) PROVE CallOK(c, r)
    BY <1>3, <2>1, BeginCall, EndCall, Pi05LayerCall DEF Pi05Step, CallOK
  <2>3. CASE \E i \in 1 .. Layers : c \in PrefillLayer(r, i, "kv")
    BY <2>3, PrefillCalls DEF CallOK
  <2>4. CASE c \in (IF overlap THEN Pi05Overlap(r) ELSE Pi05Step(r, 0))
    BY <1>s, <2>1, <2>4, GateCalls DEF Pi05Overlap
  <2>5. CASE \E s \in 1 .. Steps - 1 : c \in Pi05Step(r, s)
    BY <1>s, <2>1, <2>5
  <2>6. CASE c = Encode(r)
    BY <2>6, EncodeCall DEF CallOK
  <2> DEFINE prefill == UNION {PrefillLayer(r, i, "kv") : i \in 1 .. Layers}
             later   == UNION {Pi05Step(r, s) : s \in 1 .. Steps - 1}
             first   == IF overlap THEN Pi05Overlap(r) ELSE Pi05Step(r, 0)
  <2>7. Pi05Core(r) = {Encode(r)} \cup prefill \cup first \cup later
    BY DEF Pi05Core
  <2>8. c \in prefill => CallOK(c, r)
    BY <2>3, Zenon
  <2>9. c \in later => CallOK(c, r)
    BY <2>5, Zenon
  <2>10. c \in first => CallOK(c, r)
    BY <2>4
  <2> HIDE DEF prefill, later, first
  <2> QED BY <1>3, <2>6, <2>7, <2>8, <2>9, <2>10
<1>4. CASE backend = "smolvla" /\ c \in SmolvlaCore(r)
  <2>1. ASSUME NEW s \in 0 .. Steps - 1, c \in SmolvlaStep(r, s) PROVE CallOK(c, r)
    BY <1>4, <2>1, BeginCall, EndCall, SmolvlaLayerCalls DEF SmolvlaStep, CallOK
  <2>2. (overlap => SuffixBuf = "kv") /\ \A i : Roomy(i) = "kv"
    BY <1>4 DEF ConfigInv, SuffixBuf, Roomy
  <2>3. CASE \E i \in 1 .. Layers : c \in PrefillLayer(r, i, Roomy(i))
    BY <2>2, <2>3, PrefillCalls DEF CallOK
  <2>4. CASE c \in (IF overlap THEN SmolvlaOverlap(r) ELSE ProjectExpert(r, "kv") \cup SmolvlaStep(r, 0))
    <3>1. CASE c \in ProjectExpert(r, "kv")
      BY <1>4, <3>1, ProjectCalls DEF CallOK
    <3> QED BY <1>s, <2>1, <2>2, <2>4, <3>1, GateCalls DEF SmolvlaOverlap
  <2>5. CASE \E s \in 1 .. Steps - 1 : c \in SmolvlaStep(r, s)
    BY <1>s, <2>1, <2>5
  <2>6. CASE c = Encode(r)
    BY <2>6, EncodeCall DEF CallOK
  <2> DEFINE prefill == UNION {PrefillLayer(r, i, Roomy(i)) : i \in 1 .. Layers}
             later   == UNION {SmolvlaStep(r, s) : s \in 1 .. Steps - 1}
             first   == IF overlap THEN SmolvlaOverlap(r) ELSE ProjectExpert(r, "kv") \cup SmolvlaStep(r, 0)
  <2>7. SmolvlaCore(r) = {Encode(r)} \cup prefill \cup first \cup later
    BY DEF SmolvlaCore
  <2>8. c \in prefill => CallOK(c, r)
    BY <2>3, Zenon
  <2>9. c \in later => CallOK(c, r)
    BY <2>5, Zenon
  <2>10. c \in first => CallOK(c, r)
    BY <2>4
  <2> HIDE DEF prefill, later, first
  <2> QED BY <1>4, <2>6, <2>7, <2>8, <2>9, <2>10
<1> QED
  <2>1. CASE backend = "fastwam"
    <3>1. Calls(r) = Inputs(r) \cup FastwamCore(r)
      BY <2>1 DEF Calls
    <3> QED BY <1>1, <1>2, <2>1, <3>1
  <2>2. CASE backend = "pi05"
    <3>1. Calls(r) = Inputs(r) \cup Pi05Core(r)
      BY <2>2 DEF Calls
    <3> QED BY <1>1, <1>3, <2>2, <3>1
  <2>3. CASE backend = "smolvla"
    <3>1. Calls(r) = Inputs(r) \cup SmolvlaCore(r)
      BY <2>3 DEF Calls
    <3> QED BY <1>1, <1>4, <2>3, <3>1
  <2> QED BY <2>1, <2>2, <2>3 DEF ConfigInv

-----------------------------------------------------------------------------
(* Each of these is made.                                                  *)

\* Every call of the catalogue is made.
LEMMA InputsMade ==
  ASSUME ConfigInv, NEW r \in Nat
  PROVE  /\ \E x \in Launches(r) : IsInput(x, r)
         /\ \E x \in Launches(r) : IsNoise(x, r)
         /\ graph => /\ WaitStream(<<r, 0, 0, 1>>, "copy", "main") \in Waits(r)
                     /\ WaitStream(<<r, 0, 0, 4>>, "main", "copy") \in Waits(r)
<1> DEFINE a == Launch(<<r, 0, 0, 2>>, InputStream, {}, Input(r))
           b == Launch(<<r, 0, 0, 3>>, InputStream, {}, Latent(r, 0))
<1>1. Inputs(r) \subseteq Calls(r)
  BY DEF Calls
<1>2. a \in Inputs(r) /\ b \in Inputs(r)
  BY DEF Inputs, InputStream, ConfigInv
<1>3. IsInput(a, r) /\ a.do = "launch"
  BY DEF IsInput, Launch, Input, Is, Cell
<1>4. IsNoise(b, r) /\ b.do = "launch"
  BY DEF IsNoise, Launch, Latent, Is, Cell
<1>5. graph => /\ WaitStream(<<r, 0, 0, 1>>, "copy", "main") \in Inputs(r)
               /\ WaitStream(<<r, 0, 0, 4>>, "main", "copy") \in Inputs(r)
  BY DEF Inputs
<1>6. /\ WaitStream(<<r, 0, 0, 1>>, "copy", "main").do = "wait_stream"
      /\ WaitStream(<<r, 0, 0, 4>>, "main", "copy").do = "wait_stream"
  BY DEF WaitStream
<1> HIDE DEF a, b
<1> QED BY <1>1, <1>2, <1>3, <1>4, <1>5, <1>6 DEF Launches, Waits

\* The body of a backend, by what it is made of.
Begins(r, s) == IF backend = "fastwam" THEN ActionPre(r, s) ELSE EmbedSuffix(r, s)

\* What every backend calls.
LEMMA BodyMade ==
  ASSUME ConfigInv, NEW r \in Nat
  PROVE  /\ Encode(r) \in Calls(r)
         /\ \A i \in 1 .. Layers : PrefillLayer(r, i, "kv") \subseteq Calls(r)
         /\ \A s \in 0 .. Steps - 1 : Begins(r, s) \in Calls(r) /\ StepEnd(r, s) \in Calls(r)
         /\ overlap => Fork(r) \in Calls(r) /\ Join(r) \in Calls(r) /\ Gates(r) \subseteq Calls(r)
<1>s. \A s \in 0 .. Steps - 1 : s = 0 \/ s \in 1 .. Steps - 1
  OBVIOUS
<1>1. CASE backend = "fastwam"
  <2> DEFINE prefill == UNION {PrefillLayer(r, i, "kv") : i \in 1 .. Layers}
             later   == UNION {DenoiseStep(r, s) : s \in 1 .. Steps - 1}
             first   == IF overlap THEN FastwamOverlap(r) ELSE DenoiseStep(r, 0)
  <2>1. Calls(r) = Inputs(r) \cup FastwamCore(r)
    BY <1>1 DEF Calls
  <2>2. FastwamCore(r) = {Encode(r), ActionCtx(r)} \cup prefill \cup first \cup later
    BY DEF FastwamCore
  <2>3. \A i \in 1 .. Layers : PrefillLayer(r, i, "kv") \subseteq prefill
    BY Zenon
  <2>4. \A s \in 1 .. Steps - 1 : DenoiseStep(r, s) \subseteq later
    BY Zenon
  <2>5. DenoiseStep(r, 0) \subseteq first
    BY DEF FastwamOverlap
  <2>6. overlap => {Fork(r), Join(r)} \cup Gates(r) \subseteq first
    BY DEF FastwamOverlap
  <2>7. \A s : Begins(r, s) \in DenoiseStep(r, s) /\ StepEnd(r, s) \in DenoiseStep(r, s)
    BY <1>1 DEF DenoiseStep, Begins
  <2> HIDE DEF prefill, later, first
  <2> QED BY <1>s, <2>1, <2>2, <2>3, <2>4, <2>5, <2>6, <2>7
<1>2. CASE backend = "pi05"
  <2> DEFINE prefill == UNION {PrefillLayer(r, i, "kv") : i \in 1 .. Layers}
             later   == UNION {Pi05Step(r, s) : s \in 1 .. Steps - 1}
             first   == IF overlap THEN Pi05Overlap(r) ELSE Pi05Step(r, 0)
  <2>1. Calls(r) = Inputs(r) \cup Pi05Core(r)
    BY <1>2 DEF Calls
  <2>2. Pi05Core(r) = {Encode(r)} \cup prefill \cup first \cup later
    BY DEF Pi05Core
  <2>3. \A i \in 1 .. Layers : PrefillLayer(r, i, "kv") \subseteq prefill
    BY Zenon
  <2>4. \A s \in 1 .. Steps - 1 : Pi05Step(r, s) \subseteq later
    BY Zenon
  <2>5. Pi05Step(r, 0) \subseteq first
    BY DEF Pi05Overlap
  <2>6. overlap => {Fork(r), Join(r)} \cup Gates(r) \subseteq first
    BY DEF Pi05Overlap
  <2>7. \A s : Begins(r, s) \in Pi05Step(r, s) /\ StepEnd(r, s) \in Pi05Step(r, s)
    BY <1>2 DEF Pi05Step, Begins
  <2> HIDE DEF prefill, later, first
  <2> QED BY <1>s, <2>1, <2>2, <2>3, <2>4, <2>5, <2>6, <2>7
<1>3. CASE backend = "smolvla"
  <2> DEFINE prefill == UNION {PrefillLayer(r, i, Roomy(i)) : i \in 1 .. Layers}
             later   == UNION {SmolvlaStep(r, s) : s \in 1 .. Steps - 1}
             first   == IF overlap THEN SmolvlaOverlap(r)
                        ELSE ProjectExpert(r, "kv") \cup SmolvlaStep(r, 0)
  <2>1. Calls(r) = Inputs(r) \cup SmolvlaCore(r)
    BY <1>3 DEF Calls
  <2>2. SmolvlaCore(r) = {Encode(r)} \cup prefill \cup first \cup later
    BY DEF SmolvlaCore
  <2>r. \A i : Roomy(i) = "kv"
    BY <1>3 DEF Roomy, ConfigInv
  <2>3. \A i \in 1 .. Layers : PrefillLayer(r, i, Roomy(i)) \subseteq prefill
    BY Zenon
  <2>4. \A s \in 1 .. Steps - 1 : SmolvlaStep(r, s) \subseteq later
    BY Zenon
  <2>5. SmolvlaStep(r, 0) \subseteq first
    BY DEF SmolvlaOverlap
  <2>6. overlap => {Fork(r), Join(r)} \cup Gates(r) \subseteq first
    BY DEF SmolvlaOverlap
  <2>7. \A s : Begins(r, s) \in SmolvlaStep(r, s) /\ StepEnd(r, s) \in SmolvlaStep(r, s)
    BY <1>3 DEF SmolvlaStep, Begins
  <2> HIDE DEF prefill, later, first
  <2> QED BY <1>s, <2>1, <2>2, <2>r, <2>3, <2>4, <2>5, <2>6, <2>7
<1> QED BY <1>1, <1>2, <1>3 DEF ConfigInv

\* A backend's layers.
LEMMA LayersMade ==
  ASSUME ConfigInv, NEW r \in Nat, NEW s \in 0 .. Steps - 1, NEW i \in 1 .. Layers
  PROVE  /\ backend = "fastwam" => ActionLayer(r, s, i) \subseteq Calls(r) /\ ActionCtx(r) \in Calls(r)
         /\ backend = "pi05" => Pi05Layer(r, s, i) \in Calls(r)
         /\ backend = "smolvla" => SmolvlaLayer(r, s, i) \subseteq Calls(r)
<1>s. s = 0 \/ s \in 1 .. Steps - 1
  OBVIOUS
<1>1. CASE backend = "fastwam"
  <2> DEFINE prefill == UNION {PrefillLayer(r, k, "kv") : k \in 1 .. Layers}
             later   == UNION {DenoiseStep(r, t) : t \in 1 .. Steps - 1}
             first   == IF overlap THEN FastwamOverlap(r) ELSE DenoiseStep(r, 0)
             inside  == UNION {ActionLayer(r, s, k) : k \in 1 .. Layers}
  <2>1. Calls(r) = Inputs(r) \cup FastwamCore(r)
    BY <1>1 DEF Calls
  <2>2. FastwamCore(r) = {Encode(r), ActionCtx(r)} \cup prefill \cup first \cup later
    BY DEF FastwamCore
  <2>4. s \in 1 .. Steps - 1 => DenoiseStep(r, s) \subseteq later
    BY Zenon
  <2>5. DenoiseStep(r, 0) \subseteq first
    BY DEF FastwamOverlap
  <2>6. DenoiseStep(r, s) = {ActionPre(r, s), StepEnd(r, s)} \cup inside
    BY DEF DenoiseStep
  <2>7. ActionLayer(r, s, i) \subseteq inside
    BY Zenon
  <2> HIDE DEF prefill, later, first, inside
  <2> QED BY <1>1, <1>s, <2>1, <2>2, <2>4, <2>5, <2>6, <2>7
<1>2. CASE backend = "pi05"
  <2> DEFINE prefill == UNION {PrefillLayer(r, k, "kv") : k \in 1 .. Layers}
             later   == UNION {Pi05Step(r, t) : t \in 1 .. Steps - 1}
             first   == IF overlap THEN Pi05Overlap(r) ELSE Pi05Step(r, 0)
  <2>1. Calls(r) = Inputs(r) \cup Pi05Core(r)
    BY <1>2 DEF Calls
  <2>2. Pi05Core(r) = {Encode(r)} \cup prefill \cup first \cup later
    BY DEF Pi05Core
  <2>4. s \in 1 .. Steps - 1 => Pi05Step(r, s) \subseteq later
    BY Zenon
  <2>5. Pi05Step(r, 0) \subseteq first
    BY DEF Pi05Overlap
  <2>6. Pi05Layer(r, s, i) \in Pi05Step(r, s)
    BY DEF Pi05Step
  <2> HIDE DEF prefill, later, first
  <2> QED BY <1>2, <1>s, <2>1, <2>2, <2>4, <2>5, <2>6
<1>3. CASE backend = "smolvla"
  <2> DEFINE prefill == UNION {PrefillLayer(r, k, Roomy(k)) : k \in 1 .. Layers}
             later   == UNION {SmolvlaStep(r, t) : t \in 1 .. Steps - 1}
             first   == IF overlap THEN SmolvlaOverlap(r)
                        ELSE ProjectExpert(r, "kv") \cup SmolvlaStep(r, 0)
             inside  == UNION {SmolvlaLayer(r, s, k) : k \in 1 .. Layers}
  <2>1. Calls(r) = Inputs(r) \cup SmolvlaCore(r)
    BY <1>3 DEF Calls
  <2>2. SmolvlaCore(r) = {Encode(r)} \cup prefill \cup first \cup later
    BY DEF SmolvlaCore
  <2>4. s \in 1 .. Steps - 1 => SmolvlaStep(r, s) \subseteq later
    BY Zenon
  <2>5. SmolvlaStep(r, 0) \subseteq first
    BY DEF SmolvlaOverlap
  <2>6. SmolvlaStep(r, s) = {EmbedSuffix(r, s), StepEnd(r, s)} \cup inside
    BY DEF SmolvlaStep
  <2>7. SmolvlaLayer(r, s, i) \subseteq inside
    BY Zenon
  <2> HIDE DEF prefill, later, first, inside
  <2> QED BY <1>3, <1>s, <2>1, <2>2, <2>4, <2>5, <2>6, <2>7
<1> QED BY <1>1, <1>2, <1>3 DEF ConfigInv

\* smolvla's projections.
LEMMA ProjectionMade ==
  ASSUME ConfigInv, backend = "smolvla", NEW r \in Nat
  PROVE  ProjectExpert(r, "kv") \subseteq Calls(r)
<1> DEFINE prefill == UNION {PrefillLayer(r, k, Roomy(k)) : k \in 1 .. Layers}
           later   == UNION {SmolvlaStep(r, t) : t \in 1 .. Steps - 1}
           first   == IF overlap THEN SmolvlaOverlap(r)
                      ELSE ProjectExpert(r, "kv") \cup SmolvlaStep(r, 0)
<1>1. Calls(r) = Inputs(r) \cup SmolvlaCore(r)
  BY DEF Calls
<1>2. SmolvlaCore(r) = {Encode(r)} \cup prefill \cup first \cup later
  BY DEF SmolvlaCore
<1>3. overlap => SuffixBuf = "kv"
  BY DEF ConfigInv, SuffixBuf
<1>4. ProjectExpert(r, "kv") \subseteq first
  BY <1>3 DEF SmolvlaOverlap
<1> HIDE DEF prefill, later, first
<1> QED BY <1>1, <1>2, <1>4

\* The operations outside the layers of the steps.
LEMMA Made ==
  ASSUME ConfigInv, NEW r \in Nat
  PROVE  /\ \E x \in Launches(r) : IsEncode(x, r)
         /\ backend = "fastwam" => \E x \in Launches(r) : IsContext(x, r)
         /\ \A s \in 0 .. Steps - 1 :
              /\ \E x \in Launches(r) : IsBegin(x, r, s)
              /\ \E x \in Launches(r) : IsEnd(x, r, s)
         /\ \A i \in 1 .. Layers :
              /\ \E x \in Launches(r) : IsKv(x, r, i)
              /\ \E x \in Launches(r) : IsTokens(x, r, i)
              /\ backend = "smolvla" /\ ~SelfLayer(i) => \E x \in Launches(r) : IsProject(x, r, i)
<1>1. Encode(r) \in Launches(r) /\ IsEncode(Encode(r), r)
  BY BodyMade DEF Encode, IsEncode, Launch, Prefix, Input, Is, Cell, Launches
<1>2. ASSUME backend = "fastwam" PROVE ActionCtx(r) \in Launches(r) /\ IsContext(ActionCtx(r), r)
  <2>1. 0 \in 0 .. Steps - 1 /\ 1 \in 1 .. Layers
    OBVIOUS
  <2> QED BY <1>2, <2>1, LayersMade DEF ActionCtx, IsContext, Launch, Context, Input, Is, Cell, Launches
<1>3. ASSUME NEW s \in 0 .. Steps - 1
      PROVE  /\ Begins(r, s) \in Launches(r) /\ IsBegin(Begins(r, s), r, s)
             /\ StepEnd(r, s) \in Launches(r) /\ IsEnd(StepEnd(r, s), r, s)
  <2>1. Begins(r, s) \in Calls(r) /\ StepEnd(r, s) \in Calls(r)
    BY BodyMade
  <2>2. StepEnd(r, s).do = "launch" /\ IsEnd(StepEnd(r, s), r, s)
    BY DEF StepEnd, IsEnd, Launch, Latent, Is, Cell
  <2>3. Begins(r, s).do = "launch" /\ IsBegin(Begins(r, s), r, s)
    BY DEF Begins, ActionPre, EmbedSuffix, IsBegin, Launch, Act, Is
  <2> QED BY <2>1, <2>2, <2>3 DEF Launches
<1>4. ASSUME NEW i \in 1 .. Layers
      PROVE  /\ \E x \in Launches(r) : IsKv(x, r, i)
             /\ \E x \in Launches(r) : IsTokens(x, r, i)
  <2> DEFINE a == Launch(<<r, 1, i, 9>>, "main", {Prefix(r, i - 1)}, Kv("kv", r, i))
             b == Launch(<<r, 1, i, 10>>, "main", {Prefix(r, i - 1), Kv("kv", r, i)}, Prefix(r, i))
  <2>1. a \in PrefillLayer(r, i, "kv") /\ b \in PrefillLayer(r, i, "kv")
    BY DEF PrefillLayer
  <2>2. a.do = "launch" /\ IsKv(a, r, i)
    BY DEF IsKv, Launch, Kv, Is
  <2>3. b.do = "launch" /\ IsTokens(b, r, i)
    BY DEF IsTokens, Launch, Prefix, Is
  <2> HIDE DEF a, b
  <2>4. a \in Calls(r) /\ b \in Calls(r)
    BY <2>1, BodyMade
  <2> QED BY <2>2, <2>3, <2>4 DEF Launches
<1>5. ASSUME NEW i \in 1 .. Layers, backend = "smolvla", ~SelfLayer(i)
      PROVE  \E x \in Launches(r) : IsProject(x, r, i)
  <2> DEFINE a == Launch(<<r, 2, i, 19>>, "main", {Kv("kv", r, i)}, ExpertKv(r, i))
  <2>1. a \in ProjectExpert(r, "kv")
    BY <1>5 DEF ProjectExpert
  <2>2. a.do = "launch" /\ IsProject(a, r, i)
    BY <1>5 DEF IsProject, Launch, ExpertKv, Is
  <2> HIDE DEF a
  <2> QED BY <1>5, <2>1, <2>2, ProjectionMade DEF Launches
<1> QED BY <1>1, <1>2, <1>3, <1>4, <1>5

\* The operations of a layer of a step.
LEMMA ActionsMade ==
  ASSUME ConfigInv, NEW r \in Nat, NEW s \in 0 .. Steps - 1, NEW i \in 1 .. Layers
  PROVE  /\ \E x \in Launches(r) : IsAction(x, r, s, i)
         /\ backend = "fastwam" => \E x \in Launches(r) : IsScratch(x, r, s, i)
         /\ backend = "smolvla" /\ SelfLayer(i) => \E x \in Launches(r) : IsSuffix(x, r, s, i)
         /\ backend = "smolvla" /\ ~static => \E g \in Calls(r) : g.do = "grow"
<1>0. ASSUME backend = "smolvla", ~static PROVE \E g \in Calls(r) : g.do = "grow"
  <2> DEFINE g == Grow(<<r, StepStage(0), 1, 13>>, StepStream(0))
  <2>1. 0 \in 0 .. Steps - 1 /\ 1 \in 1 .. Layers /\ SelfLayer(1)
    BY DEF SelfLayer
  <2>2. g \in SmolvlaLayer(r, 0, 1)
    BY <1>0, <2>1 DEF SmolvlaLayer, WriteSuffix
  <2>3. g.do = "grow"
    BY DEF Grow
  <2> HIDE DEF g
  <2> QED BY <1>0, <2>1, <2>2, <2>3, LayersMade
<1>1. CASE backend = "fastwam"
  <2> DEFINE a == Launch(<<r, StepStage(s), i, 14>>, StepStream(s),
                         {Act(r, s, i - 1), Kv("kv", r, i), Context(r)}, Scratch(r, s, i))
             b == Launch(<<r, StepStage(s), i, 16>>, StepStream(s), {Scratch(r, s, i)}, Act(r, s, i))
  <2>1. a \in ActionLayer(r, s, i) /\ b \in ActionLayer(r, s, i)
    BY DEF ActionLayer
  <2>2. a.do = "launch" /\ IsScratch(a, r, s, i)
    BY <1>1 DEF IsScratch, Launch, Scratch, Is, Cell
  <2>3. b.do = "launch" /\ IsAction(b, r, s, i)
    BY <1>1 DEF IsAction, Launch, Act, Is
  <2> HIDE DEF a, b
  <2> QED BY <1>1, <2>1, <2>2, <2>3, LayersMade DEF Launches
<1>2. CASE backend = "pi05"
  <2>1. Pi05Layer(r, s, i).do = "launch" /\ IsAction(Pi05Layer(r, s, i), r, s, i)
    BY <1>2 DEF Pi05Layer, IsAction, Launch, Act, Is
  <2> QED BY <1>2, <2>1, LayersMade DEF Launches
<1>3. CASE backend = "smolvla"
  <2> DEFINE a == Launch(<<r, StepStage(s), i, 15>>, StepStream(s), {Act(r, s, i - 1)}, Suffix(r, s, i))
             b == Launch(<<r, StepStage(s), i, 16>>, StepStream(s),
                         {Act(r, s, i - 1), Kv(SuffixBuf, r, i), Suffix(r, s, i)}, Act(r, s, i))
             c == Launch(<<r, StepStage(s), i, 16>>, StepStream(s),
                   {Act(r, s, i - 1), IF overlap /\ s = 0 THEN Kv("kv", r, i) ELSE ExpertKv(r, i)},
                   Act(r, s, i))
  <2>1. CASE SelfLayer(i)
    <3>1. a \in SmolvlaLayer(r, s, i) /\ b \in SmolvlaLayer(r, s, i)
      BY <2>1 DEF SmolvlaLayer, WriteSuffix
    <3>2. a.do = "launch" /\ IsSuffix(a, r, s, i)
      BY <1>3, <2>1 DEF IsSuffix, Launch, Suffix, Is
    <3>3. b.do = "launch" /\ IsAction(b, r, s, i)
      BY <1>3, <2>1 DEF IsAction, Launch, Act, Is
    <3> HIDE DEF a, b
    <3> QED BY <1>0, <1>3, <2>1, <3>1, <3>2, <3>3, LayersMade DEF Launches
  <2>2. CASE ~SelfLayer(i)
    <3>1. Projected(r, s, i) <=> ~(overlap /\ s = 0)
      BY NeverMatched DEF Projected, ConfigInv
    <3>2. overlap /\ s = 0 => SuffixBuf = "kv"
      BY <1>3 DEF ConfigInv, SuffixBuf
    <3>3. c \in SmolvlaLayer(r, s, i)
      BY <2>2, <3>1, <3>2 DEF SmolvlaLayer
    <3>4. c.do = "launch" /\ IsAction(c, r, s, i)
      BY <1>3, <2>2 DEF IsAction, Launch, Act, Is
    <3> HIDE DEF c
    <3> QED BY <1>0, <1>3, <2>2, <3>3, <3>4, LayersMade DEF Launches
  <2> HIDE DEF a, b, c
  <2> QED BY <1>3, <2>1, <2>2
<1> QED BY <1>0, <1>1, <1>2, <1>3 DEF ConfigInv

\* The waits and records of an overlapped inference.
LEMMA SyncsMade ==
  ASSUME ConfigInv, overlap, NEW r \in Nat
  PROVE  /\ Fork(r) \in Waits(r) /\ Join(r) \in Waits(r)
         /\ \A i \in 1 .. Layers : WaitEvent(<<r, 1, i, 12>>, "side", i) \in Waits(r)
         /\ \A i \in 1 .. Layers : Record(<<r, 1, i, 11>>, i) \in Calls(r)
<1>1. Fork(r) \in Calls(r) /\ Join(r) \in Calls(r) /\ Gates(r) \subseteq Calls(r)
  BY BodyMade
<1>2. ASSUME NEW i \in 1 .. Layers
      PROVE  WaitEvent(<<r, 1, i, 12>>, "side", i) \in Gates(r) /\ Record(<<r, 1, i, 11>>, i) \in Gates(r)
  <2>1. Gate(r, i) \subseteq Gates(r)
    BY Zenon DEF Gates
  <2> QED BY <2>1 DEF Gate
<1>3. Fork(r).do = "wait_stream" /\ Join(r).do = "wait_stream"
  BY DEF Fork, Join, WaitStream
<1>4. \A i : WaitEvent(<<r, 1, i, 12>>, "side", i).do = "wait_event"
  BY DEF WaitEvent
<1> QED BY <1>1, <1>2, <1>3, <1>4 DEF Waits

-----------------------------------------------------------------------------
(* How the waits order the operations.                                     *)

\* y is behind x: on the same stream, or behind a wait for x's stream.
Ordered(x, y) ==
  \/ x.st = y.st
  \/ \E w \in Waits(y.at[1]) :
       /\ w.st = y.st /\ On(w) = x.st
       /\ Before(w.at, y.at) /\ ~Before(Target(w), x.at)

\* What main does after the head waited is behind what the side stream did before.
LEMMA BehindJoin ==
  ASSUME ConfigInv, overlap, NEW r \in Nat, NEW x, NEW y, x.st = "side", y.st = "main",
         y.at[1] = r, x.at \in Places, ~Before(<<r, 1, Layers + 1, 17>>, x.at),
         Before(<<r, 1, Layers + 1, 17>>, y.at)
  PROVE  Ordered(x, y)
<1>1. Join(r) \in Waits(r)
  BY SyncsMade
<1>2. /\ Join(r).st = "main" /\ On(Join(r)) = "side"
      /\ Join(r).at = <<r, 1, Layers + 1, 17>> /\ Target(Join(r)) = <<r, 1, Layers + 1, 17>>
  BY DEF Join, WaitStream, On, Target
<1> QED BY <1>1, <1>2 DEF Ordered

\* The side stream is behind what main did before the fork.
LEMMA BehindFork ==
  ASSUME ConfigInv, overlap, NEW r \in Nat, NEW x, NEW y, x.st = "main", y.st = "side",
         y.at[1] = r, ~Before(<<r, 1, 0, 8>>, x.at), Before(<<r, 1, 0, 8>>, y.at)
  PROVE  Ordered(x, y)
<1>1. Fork(r) \in Waits(r)
  BY SyncsMade
<1>2. /\ Fork(r).st = "side" /\ On(Fork(r)) = "main"
      /\ Fork(r).at = <<r, 1, 0, 8>> /\ Target(Fork(r)) = <<r, 1, 0, 8>>
  BY DEF Fork, WaitStream, On, Target
<1> QED BY <1>1, <1>2 DEF Ordered

\* The side stream at layer i is behind what main did before it recorded the event.
LEMMA BehindEvent ==
  ASSUME ConfigInv, overlap, NEW r \in Nat, NEW i \in 1 .. Layers, NEW x, NEW y,
         x.st = "main", y.st = "side",
         y.at[1] = r, ~Before(<<r, 1, i, 11>>, x.at), Before(<<r, 1, i, 12>>, y.at)
  PROVE  Ordered(x, y)
<1> DEFINE w == WaitEvent(<<r, 1, i, 12>>, "side", i)
<1>1. w \in Waits(r)
  BY SyncsMade
<1>2. /\ w.st = "side" /\ On(w) = "main"
      /\ w.at = <<r, 1, i, 12>> /\ Target(w) = <<r, 1, i, 11>>
  BY DEF WaitEvent, On, Target
<1> HIDE DEF w
<1> QED BY <1>1, <1>2 DEF Ordered

\* Main is behind the copies of the inputs.
LEMMA BehindCopy ==
  ASSUME ConfigInv, graph, NEW r \in Nat, NEW x, NEW y, x.st = "copy", y.st = "main",
         y.at[1] = r, ~Before(<<r, 0, 0, 4>>, x.at), Before(<<r, 0, 0, 4>>, y.at)
  PROVE  Ordered(x, y)
<1> DEFINE w == WaitStream(<<r, 0, 0, 4>>, "main", "copy")
<1>1. w \in Waits(r)
  BY InputsMade
<1>2. /\ w.st = "main" /\ On(w) = "copy"
      /\ w.at = <<r, 0, 0, 4>> /\ Target(w) = <<r, 0, 0, 4>>
  BY DEF WaitStream, On, Target
<1> HIDE DEF w
<1> QED BY <1>1, <1>2 DEF Ordered

\* The copies of the inputs are behind what main did before them.
LEMMA BehindMain ==
  ASSUME ConfigInv, graph, NEW r \in Nat, NEW x, NEW y, x.st = "main", y.st = "copy",
         y.at[1] = r, ~Before(<<r, 0, 0, 1>>, x.at), Before(<<r, 0, 0, 1>>, y.at)
  PROVE  Ordered(x, y)
<1> DEFINE w == WaitStream(<<r, 0, 0, 1>>, "copy", "main")
<1>1. w \in Waits(r)
  BY InputsMade
<1>2. /\ w.st = "copy" /\ On(w) = "main"
      /\ w.at = <<r, 0, 0, 1>> /\ Target(w) = <<r, 0, 0, 1>>
  BY DEF WaitStream, On, Target
<1> HIDE DEF w
<1> QED BY <1>1, <1>2 DEF Ordered

\* Two of the operations of the layers of the steps, the later in the host's order: x of a
\* request up to r, y of r.
LEMMA LayersOrdered ==
  ASSUME ConfigInv, NEW r \in Nat, NEW s \in 0 .. Steps - 1, NEW t \in 0 .. Steps - 1,
         NEW x, NEW y, x.at \in Places, y.at \in Places, Before(x.at, y.at),
         x.at[1] <= r, x.at[2] = StepStage(s), x.at[3] <= Layers, x.st = StepStream(s),
         y.at[1] = r, y.at[2] = StepStage(t), y.at[3] \in 1 .. Layers, y.st = StepStream(t)
  PROVE  Ordered(x, y)
<1>1. CASE StepStream(s) = StepStream(t)
  BY <1>1 DEF Ordered
<1>2. CASE overlap /\ s = 0 /\ t # 0
  <2>1. x.st = "side" /\ y.st = "main" /\ StepStage(s) = 1 /\ StepStage(t) = 3 + t
    BY <1>2, StepPlaces DEF StepStream, StepStage
  <2>3. ~Before(<<r, 1, Layers + 1, 17>>, x.at) /\ Before(<<r, 1, Layers + 1, 17>>, y.at)
    BY <2>1 DEF Before, Places
  <2> QED BY <1>2, <2>1, <2>3, BehindJoin
<1>3. CASE overlap /\ s # 0 /\ t = 0
  <2>1. x.st = "main" /\ y.st = "side" /\ StepStage(s) = 3 + s /\ StepStage(t) = 1
    BY <1>3, StepPlaces DEF StepStream, StepStage
  <2>2. x.at[1] < r
    BY <2>1 DEF Before, Places
  <2>3. ~Before(<<r, 1, 0, 8>>, x.at) /\ Before(<<r, 1, 0, 8>>, y.at)
    BY <2>1, <2>2 DEF Before, Places
  <2> QED BY <1>3, <2>1, <2>2, <2>3, BehindFork
<1> QED BY <1>1, <1>2, <1>3 DEF StepStream, ConfigInv

\* The operation of a launch.
LEMMA KindsOf ==
  ASSUME ConfigInv, NEW r \in Nat, NEW x \in Launches(r)
  PROVE  \E s \in 0 .. Steps - 1 : \E i \in 1 .. Layers : LaunchKind(x, r, s, i)
<1>1. x \in Calls(r) /\ x.do = "launch"
  BY DEF Launches
<1>2. CallOK(x, r)
  BY <1>1, CallKinds
<1>3. ~WaitKind(x, r) /\ ~IsGrow(x, r) /\ ~IsRecord(x, r)
  BY <1>1 DEF WaitKind, IsGrow, IsRecord, WaitStream, WaitEvent, Fork, Join, Grow, Record
<1> QED BY <1>2, <1>3 DEF CallOK, IsLaunch

\* The writers of each cell.
LEMMA WritersOf ==
  ASSUME ConfigInv, NEW r \in Nat, NEW x \in Launches(r)
  PROVE  /\ x.at \in Places /\ x.at[1] = r
         /\ x.cell = <<"input", 0>> => IsInput(x, r)
         /\ x.cell = <<"action_ctx", 0>> => IsContext(x, r)
         /\ x.cell = <<"prefix", 0>> => IsEncode(x, r)
         /\ x.cell = <<"action", 0>> => \E s \in 0 .. Steps - 1 : IsBegin(x, r, s)
         /\ x.cell = <<"latent", 0>> => IsNoise(x, r) \/ \E s \in 0 .. Steps - 1 : IsEnd(x, r, s)
         /\ x.cell = <<"scratch", 0>> =>
              \E s \in 0 .. Steps - 1 : \E i \in 1 .. Layers : IsScratch(x, r, s, i)
         /\ \A i \in 1 .. Layers :
              /\ x.cell = <<"kv", i>> => IsKv(x, r, i)
              /\ x.cell = <<"prefix", i>> => IsTokens(x, r, i)
              /\ x.cell = <<"expert_kv", i>> => IsProject(x, r, i)
              /\ x.cell = <<"suffix", i>> => \E s \in 0 .. Steps - 1 : IsSuffix(x, r, s, i)
              /\ x.cell = <<"action", i>> => \E s \in 0 .. Steps - 1 : IsAction(x, r, s, i)
              /\ x.cell # <<"grown", i>>
<1>1. PICK s \in 0 .. Steps - 1 : \E i \in 1 .. Layers : LaunchKind(x, r, s, i)
  BY KindsOf
<1>2. PICK i \in 1 .. Layers : LaunchKind(x, r, s, i)
  BY <1>1
<1>3. StepStage(s) \in Nat
  BY StepPlaces
<1>i. CASE IsInput(x, r)
  BY <1>i DEF IsInput, Places
<1>n. CASE IsNoise(x, r)
  BY <1>n DEF IsNoise, Places
<1>e. CASE IsEncode(x, r)
  BY <1>e DEF IsEncode, Places
<1>c. CASE IsContext(x, r)
  BY <1>c DEF IsContext, Places
<1>b. CASE IsBegin(x, r, s)
  <2>1. x.at \in Places /\ x.at[1] = r /\ x.cell = <<"action", 0>>
    BY <1>b, <1>3 DEF IsBegin, Places
  <2> QED BY <1>b, <2>1
<1>k. CASE IsKv(x, r, i)
  <2>1. x.at \in Places /\ x.at[1] = r /\ x.cell = <<"kv", i>>
    BY <1>k DEF IsKv, Places
  <2> QED BY <1>k, <2>1
<1>t. CASE IsTokens(x, r, i)
  <2>1. x.at \in Places /\ x.at[1] = r /\ x.cell = <<"prefix", i>>
    BY <1>t DEF IsTokens, Places
  <2> QED BY <1>t, <2>1
<1>s. CASE IsScratch(x, r, s, i)
  <2>1. x.at \in Places /\ x.at[1] = r /\ x.cell = <<"scratch", 0>>
    BY <1>s, <1>3 DEF IsScratch, Places
  <2> QED BY <1>s, <2>1
<1>u. CASE IsSuffix(x, r, s, i)
  <2>1. x.at \in Places /\ x.at[1] = r /\ x.cell = <<"suffix", i>>
    BY <1>u, <1>3 DEF IsSuffix, Places
  <2> QED BY <1>u, <2>1
<1>a. CASE IsAction(x, r, s, i)
  <2>1. x.at \in Places /\ x.at[1] = r /\ x.cell = <<"action", i>>
    BY <1>a, <1>3 DEF IsAction, Places
  <2> QED BY <1>a, <2>1
<1>z. CASE IsEnd(x, r, s)
  <2>1. x.at \in Places /\ x.at[1] = r /\ x.cell = <<"latent", 0>>
    BY <1>z, <1>3 DEF IsEnd, Places
  <2> QED BY <1>z, <2>1
<1>p. CASE IsProject(x, r, i)
  <2>1. x.at \in Places /\ x.at[1] = r /\ x.cell = <<"expert_kv", i>>
    BY <1>p DEF IsProject, Places
  <2> QED BY <1>p, <2>1
<1> QED BY <1>2, <1>i, <1>n, <1>e, <1>c, <1>b, <1>k, <1>t, <1>s, <1>u, <1>a, <1>z, <1>p DEF LaunchKind

\* Two writes of a cell, by requests up to r, run in the host's order.
LEMMA WritesOrdered ==
  ASSUME ConfigInv, NEW r \in Nat, NEW q \in 0 .. r, NEW x \in Launches(q), NEW y \in Launches(r),
         x.cell = y.cell, Before(x.at, y.at)
  PROVE  Ordered(x, y)
<1>q. q \in Nat
  OBVIOUS
<1>1. PICK s \in 0 .. Steps - 1 : \E i \in 1 .. Layers : LaunchKind(x, q, s, i)
  BY <1>q, KindsOf
<1>2. PICK i \in 1 .. Layers : LaunchKind(x, q, s, i)
  BY <1>1
<1>i. CASE IsInput(x, q)
  <2>1. x.cell = <<"input", 0>> /\ x.st = InputStream
    BY <1>i DEF IsInput
  <2>2. IsInput(y, r)
    BY <2>1, WritersOf
  <2>3. y.st = InputStream
    BY <2>2 DEF IsInput
  <2> QED BY <2>1, <2>3 DEF Ordered
<1>e. CASE IsEncode(x, q)
  <2>1. x.cell = <<"prefix", 0>> /\ x.st = "main"
    BY <1>e DEF IsEncode
  <2>2. IsEncode(y, r)
    BY <2>1, WritersOf
  <2>3. y.st = "main"
    BY <2>2 DEF IsEncode
  <2> QED BY <2>1, <2>3 DEF Ordered
<1>c. CASE IsContext(x, q)
  <2>1. x.cell = <<"action_ctx", 0>> /\ x.st = "main"
    BY <1>c DEF IsContext
  <2>2. IsContext(y, r)
    BY <2>1, WritersOf
  <2>3. y.st = "main"
    BY <2>2 DEF IsContext
  <2> QED BY <2>1, <2>3 DEF Ordered
<1>b. CASE IsBegin(x, q, s)
  <2>1. x.cell = <<"action", 0>> /\ x.st = "main"
    BY <1>b DEF IsBegin
  <2>2. \E t \in 0 .. Steps - 1 : IsBegin(y, r, t)
    BY <2>1, WritersOf
  <2>3. y.st = "main"
    BY <2>2 DEF IsBegin
  <2> QED BY <2>1, <2>3 DEF Ordered
<1>k. CASE IsKv(x, q, i)
  <2>1. x.cell = <<"kv", i>> /\ x.st = "main"
    BY <1>k DEF IsKv
  <2>2. IsKv(y, r, i)
    BY <2>1, WritersOf
  <2>3. y.st = "main"
    BY <2>2 DEF IsKv
  <2> QED BY <2>1, <2>3 DEF Ordered
<1>t. CASE IsTokens(x, q, i)
  <2>1. x.cell = <<"prefix", i>> /\ x.st = "main"
    BY <1>t DEF IsTokens
  <2>2. IsTokens(y, r, i)
    BY <2>1, WritersOf
  <2>3. y.st = "main"
    BY <2>2 DEF IsTokens
  <2> QED BY <2>1, <2>3 DEF Ordered
<1>p. CASE IsProject(x, q, i)
  <2>1. x.cell = <<"expert_kv", i>> /\ x.st = "main"
    BY <1>p DEF IsProject
  <2>2. IsProject(y, r, i)
    BY <2>1, WritersOf
  <2>3. y.st = "main"
    BY <2>2 DEF IsProject
  <2> QED BY <2>1, <2>3 DEF Ordered
<1>l. CASE x.cell = <<"latent", 0>>
  <2>1. IsNoise(x, q) \/ \E t \in 0 .. Steps - 1 : IsEnd(x, q, t)
    BY <1>l, <1>q, WritersOf
  <2>2. IsNoise(y, r) \/ \E t \in 0 .. Steps - 1 : IsEnd(y, r, t)
    BY <1>l, WritersOf
  <2>3. CASE IsNoise(x, q) /\ IsNoise(y, r)
    BY <2>3 DEF IsNoise, Ordered
  <2>4. ASSUME IsNoise(x, q), NEW t \in 0 .. Steps - 1, IsEnd(y, r, t) PROVE Ordered(x, y)
    <3>1. StepStage(t) \in Nat /\ StepStage(t) >= 1
      BY StepPlaces
    <3>2. ~Before(<<r, 0, 0, 4>>, x.at) /\ Before(<<r, 0, 0, 4>>, y.at) /\ y.at[1] = r
      BY <2>4, <3>1 DEF IsNoise, IsEnd, Before
    <3>3. y.st = "main" /\ x.st = InputStream
      BY <2>4 DEF IsNoise, IsEnd
    <3> QED BY <3>2, <3>3, BehindCopy DEF InputStream, Ordered, ConfigInv
  <2>5. ASSUME IsNoise(y, r), NEW t \in 0 .. Steps - 1, IsEnd(x, q, t) PROVE Ordered(x, y)
    <3>1. StepStage(t) \in Nat /\ StepStage(t) >= 1
      BY StepPlaces
    <3>2. q < r
      BY <2>5, <3>1 DEF IsNoise, IsEnd, Before
    <3>3. ~Before(<<r, 0, 0, 1>>, x.at) /\ Before(<<r, 0, 0, 1>>, y.at) /\ y.at[1] = r
      BY <2>5, <3>1, <3>2 DEF IsNoise, IsEnd, Before
    <3>4. x.st = "main" /\ y.st = InputStream
      BY <2>5 DEF IsNoise, IsEnd
    <3> QED BY <3>3, <3>4, BehindMain DEF InputStream, Ordered, ConfigInv
  <2>6. ASSUME NEW t \in 0 .. Steps - 1, IsEnd(x, q, t), NEW u \in 0 .. Steps - 1, IsEnd(y, r, u)
        PROVE  Ordered(x, y)
    BY <2>6 DEF IsEnd, Ordered
  <2> QED BY <2>1, <2>2, <2>3, <2>4, <2>5, <2>6
<1>s. CASE IsScratch(x, q, s, i)
  <2>1. PICK t \in 0 .. Steps - 1 : \E j \in 1 .. Layers : IsScratch(y, r, t, j)
    <3>1. y.cell = <<"scratch", 0>>
      BY <1>s DEF IsScratch
    <3> QED BY <3>1, WritersOf
  <2>2. PICK j \in 1 .. Layers : IsScratch(y, r, t, j)
    BY <2>1
  <2>3. x.at \in Places /\ y.at \in Places
    BY <1>q, WritersOf
  <2>4. x.at = <<q, StepStage(s), i, 14>> /\ x.st = StepStream(s)
        /\ y.at = <<r, StepStage(t), j, 14>> /\ y.st = StepStream(t)
    BY <1>s, <2>2 DEF IsScratch
  <2>5. /\ x.at[1] <= r /\ x.at[2] = StepStage(s) /\ x.at[3] <= Layers
        /\ y.at[1] = r /\ y.at[2] = StepStage(t) /\ y.at[3] \in 1 .. Layers
    BY <2>4
  <2> QED BY <2>3, <2>4, <2>5, LayersOrdered
<1>u. CASE IsSuffix(x, q, s, i)
  <2>2. PICK t \in 0 .. Steps - 1 : IsSuffix(y, r, t, i)
    <3>1. y.cell = <<"suffix", i>>
      BY <1>u DEF IsSuffix
    <3> QED BY <3>1, WritersOf
  <2>3. x.at \in Places /\ y.at \in Places
    BY <1>q, WritersOf
  <2>4. x.at = <<q, StepStage(s), i, 15>> /\ x.st = StepStream(s)
        /\ y.at = <<r, StepStage(t), i, 15>> /\ y.st = StepStream(t)
    BY <1>u, <2>2 DEF IsSuffix
  <2>5. /\ x.at[1] <= r /\ x.at[2] = StepStage(s) /\ x.at[3] <= Layers
        /\ y.at[1] = r /\ y.at[2] = StepStage(t) /\ y.at[3] \in 1 .. Layers
    BY <2>4
  <2> QED BY <2>3, <2>4, <2>5, LayersOrdered
<1>a. CASE IsAction(x, q, s, i)
  <2>2. PICK t \in 0 .. Steps - 1 : IsAction(y, r, t, i)
    <3>1. y.cell = <<"action", i>>
      BY <1>a DEF IsAction
    <3> QED BY <3>1, WritersOf
  <2>3. x.at \in Places /\ y.at \in Places
    BY <1>q, WritersOf
  <2>4. x.at = <<q, StepStage(s), i, 16>> /\ x.st = StepStream(s)
        /\ y.at = <<r, StepStage(t), i, 16>> /\ y.st = StepStream(t)
    BY <1>a, <2>2 DEF IsAction
  <2>5. /\ x.at[1] <= r /\ x.at[2] = StepStage(s) /\ x.at[3] <= Layers
        /\ y.at[1] = r /\ y.at[2] = StepStage(t) /\ y.at[3] \in 1 .. Layers
    BY <2>4
  <2> QED BY <2>3, <2>4, <2>5, LayersOrdered
<1> QED
  BY <1>2, <1>i, <1>e, <1>c, <1>b, <1>k, <1>t, <1>p, <1>l, <1>s, <1>u, <1>a
  DEF LaunchKind, IsNoise, IsEnd

-----------------------------------------------------------------------------
(* What an operation reads.                                                *)

\* What y reads in cell c was left there by an operation y is behind, and nobody of the
\* request writes it in between, or by the growing of the cache.
Fed(c, y, r) ==
  \/ \E x \in Launches(r) :
       /\ x.cell = c.cell /\ x.tag = c.tag /\ Before(x.at, y.at) /\ Ordered(x, y)
       /\ \A z \in Launches(r) :
            z.cell = c.cell /\ Before(x.at, z.at) => ~Before(z.at, y.at)
  \/ \E i \in 1 .. Layers :
       /\ c = Kv("grown", r, i)
       /\ \E g \in Calls(r) : g.do = "grow" /\ g.st = y.st /\ Before(g.at, y.at)

\* Who writes it next is behind y.
Intact(c, y, r) ==
  \A z \in Launches(r) : z.cell = c.cell /\ Before(y.at, z.at) => Ordered(y, z)

\* A cell one operation of a request writes.
LEMMA WrittenOnce ==
  ASSUME NEW r \in Nat, NEW x \in Launches(r), NEW y, NEW c, y.at \in Places, x.at \in Places,
         x.cell = c.cell, x.tag = c.tag, Before(x.at, y.at), Ordered(x, y),
         \A z \in Launches(r) : z.cell = c.cell => z.at = x.at
  PROVE  Fed(c, y, r) /\ Intact(c, y, r)
<1>1. ~Before(x.at, x.at) /\ ~Before(y.at, x.at)
  BY DEF Before, Places
<1> QED BY <1>1 DEF Fed, Intact

\* The inputs.
LEMMA InputRead ==
  ASSUME ConfigInv, NEW r \in Nat, NEW y, y.at \in Places, y.at[1] = r, y.at[2] = 1, y.st = "main"
  PROVE  Fed(Input(r), y, r) /\ Intact(Input(r), y, r)
<1>1. PICK x \in Launches(r) : IsInput(x, r)
  BY InputsMade
<1>2. Input(r).cell = <<"input", 0>> /\ Input(r).tag = <<r, 0, 0>>
  BY DEF Input, Is, Cell
<1>3. x.at = <<r, 0, 0, 2>> /\ x.st = InputStream /\ x.cell = <<"input", 0>> /\ x.tag = <<r, 0, 0>>
  BY <1>1 DEF IsInput
<1>4. \A z \in Launches(r) : z.cell = <<"input", 0>> => z.at = x.at
  <2> TAKE z \in Launches(r)
  <2> HAVE z.cell = <<"input", 0>>
  <2>1. IsInput(z, r)
    BY WritersOf
  <2> QED BY <1>3, <2>1 DEF IsInput
<1>5. x.at \in Places /\ Before(x.at, y.at)
  BY <1>3 DEF Places, Before
<1>6. Ordered(x, y)
  <2>1. CASE graph
    <3>1. ~Before(<<r, 0, 0, 4>>, x.at) /\ Before(<<r, 0, 0, 4>>, y.at)
      BY <1>3 DEF Places, Before
    <3> QED BY <1>3, <2>1, <3>1, BehindCopy DEF InputStream
  <2>2. CASE ~graph
    BY <1>3, <2>2 DEF InputStream, Ordered
  <2> QED BY <2>1, <2>2
<1> QED BY <1>2, <1>3, <1>4, <1>5, <1>6, WrittenOnce

\* The context of fastwam's action expert.
LEMMA ContextRead ==
  ASSUME ConfigInv, backend = "fastwam", NEW r \in Nat, NEW y, y.at \in Places, y.at[1] = r,
         \/ y.st = "main" /\ Before(<<r, 1, 0, 6>>, y.at)
         \/ y.st = "side" /\ overlap /\ Before(<<r, 1, 0, 8>>, y.at)
  PROVE  Fed(Context(r), y, r) /\ Intact(Context(r), y, r)
<1>1. PICK x \in Launches(r) : IsContext(x, r)
  BY Made
<1>2. Context(r).cell = <<"action_ctx", 0>> /\ Context(r).tag = <<r, 0, 0>>
  BY DEF Context, Is, Cell
<1>3. x.at = <<r, 1, 0, 6>> /\ x.st = "main" /\ x.cell = <<"action_ctx", 0>> /\ x.tag = <<r, 0, 0>>
  BY <1>1 DEF IsContext
<1>4. \A z \in Launches(r) : z.cell = <<"action_ctx", 0>> => z.at = x.at
  <2> TAKE z \in Launches(r)
  <2> HAVE z.cell = <<"action_ctx", 0>>
  <2>1. IsContext(z, r)
    BY WritersOf
  <2> QED BY <1>3, <2>1 DEF IsContext
<1>5. x.at \in Places /\ Before(x.at, y.at)
  BY <1>3 DEF Places, Before
<1>6. Ordered(x, y)
  <2>1. CASE y.st = "main"
    BY <1>3, <2>1 DEF Ordered
  <2>2. CASE y.st = "side"
    <3>1. ~Before(<<r, 1, 0, 8>>, x.at)
      BY <1>3 DEF Before
    <3> QED BY <1>3, <2>2, <3>1, BehindFork
  <2> QED BY <2>1, <2>2
<1> QED BY <1>2, <1>3, <1>4, <1>5, <1>6, WrittenOnce

\* The tokens of the prefill.
LEMMA PrefixRead ==
  ASSUME ConfigInv, NEW r \in Nat, NEW i \in 0 .. Layers, NEW y, y.at \in Places, y.at[1] = r,
         y.st = "main", y.at[2] = 1, y.at[3] = i + 1
  PROVE  Fed(Prefix(r, i), y, r) /\ Intact(Prefix(r, i), y, r)
<1>2. Prefix(r, i).cell = <<"prefix", i>> /\ Prefix(r, i).tag = <<r, 0, i>>
  BY DEF Prefix, Is
<1>1. PICK x \in Launches(r) :
        /\ x.cell = <<"prefix", i>> /\ x.tag = <<r, 0, i>> /\ x.st = "main"
        /\ x.at = IF i = 0 THEN <<r, 1, 0, 5>> ELSE <<r, 1, i, 10>>
  <2>1. CASE i = 0
    <3>1. PICK x \in Launches(r) : IsEncode(x, r)
      BY Made
    <3> QED BY <2>1, <3>1 DEF IsEncode
  <2>2. CASE i # 0
    <3>1. PICK x \in Launches(r) : IsTokens(x, r, i)
      BY <2>2, Made
    <3> QED BY <2>2, <3>1 DEF IsTokens
  <2> QED BY <2>1, <2>2
<1>4. \A z \in Launches(r) : z.cell = <<"prefix", i>> => z.at = x.at
  <2> TAKE z \in Launches(r)
  <2> HAVE z.cell = <<"prefix", i>>
  <2>1. IF i = 0 THEN IsEncode(z, r) ELSE IsTokens(z, r, i)
    BY WritersOf
  <2> QED BY <1>1, <2>1 DEF IsEncode, IsTokens
<1>5. x.at \in Places /\ Before(x.at, y.at)
  BY <1>1 DEF Places, Before
<1>6. Ordered(x, y)
  BY <1>1 DEF Ordered
<1> QED BY <1>1, <1>2, <1>4, <1>5, <1>6, WrittenOnce

\* The keys and values of a layer.
LEMMA KvRead ==
  ASSUME ConfigInv, NEW r \in Nat, NEW i \in 1 .. Layers, NEW y, y.at \in Places, y.at[1] = r,
         \/ y.st = "main" /\ Before(<<r, 1, i, 9>>, y.at)
         \/ y.st = "side" /\ overlap /\ Before(<<r, 1, i, 12>>, y.at)
  PROVE  Fed(Kv("kv", r, i), y, r) /\ Intact(Kv("kv", r, i), y, r)
<1>1. PICK x \in Launches(r) : IsKv(x, r, i)
  BY Made
<1>2. Kv("kv", r, i).cell = <<"kv", i>> /\ Kv("kv", r, i).tag = <<r, 0, i>>
  BY DEF Kv, Is
<1>3. x.at = <<r, 1, i, 9>> /\ x.st = "main" /\ x.cell = <<"kv", i>> /\ x.tag = <<r, 0, i>>
  BY <1>1 DEF IsKv
<1>4. \A z \in Launches(r) : z.cell = <<"kv", i>> => z.at = x.at
  <2> TAKE z \in Launches(r)
  <2> HAVE z.cell = <<"kv", i>>
  <2>1. IsKv(z, r, i)
    BY WritersOf
  <2> QED BY <1>3, <2>1 DEF IsKv
<1>5. x.at \in Places /\ Before(x.at, y.at)
  BY <1>3 DEF Places, Before
<1>6. Ordered(x, y)
  <2>1. CASE y.st = "main"
    BY <1>3, <2>1 DEF Ordered
  <2>2. CASE y.st = "side"
    <3>1. ~Before(<<r, 1, i, 11>>, x.at)
      BY <1>3 DEF Before
    <3> QED BY <1>3, <2>2, <3>1, BehindEvent
  <2> QED BY <2>1, <2>2
<1> QED BY <1>2, <1>3, <1>4, <1>5, <1>6, WrittenOnce

\* The projected keys of a layer.
LEMMA ExpertKvRead ==
  ASSUME ConfigInv, backend = "smolvla", NEW r \in Nat, NEW i \in 1 .. Layers, ~SelfLayer(i),
         NEW y, y.at \in Places, y.at[1] = r, y.st = "main", y.at[2] >= 3
  PROVE  Fed(ExpertKv(r, i), y, r) /\ Intact(ExpertKv(r, i), y, r)
<1>1. PICK x \in Launches(r) : IsProject(x, r, i)
  BY Made
<1>2. ExpertKv(r, i).cell = <<"expert_kv", i>> /\ ExpertKv(r, i).tag = <<r, 0, i>>
  BY DEF ExpertKv, Is
<1>3. x.at = <<r, 2, i, 19>> /\ x.st = "main" /\ x.cell = <<"expert_kv", i>> /\ x.tag = <<r, 0, i>>
  BY <1>1 DEF IsProject
<1>4. \A z \in Launches(r) : z.cell = <<"expert_kv", i>> => z.at = x.at
  <2> TAKE z \in Launches(r)
  <2> HAVE z.cell = <<"expert_kv", i>>
  <2>1. IsProject(z, r, i)
    BY WritersOf
  <2> QED BY <1>3, <2>1 DEF IsProject
<1>5. x.at \in Places /\ Before(x.at, y.at)
  BY <1>3 DEF Places, Before
<1>6. Ordered(x, y)
  BY <1>3 DEF Ordered
<1> QED BY <1>2, <1>3, <1>4, <1>5, <1>6, WrittenOnce

\* The latents.
LEMMA LatentRead ==
  ASSUME ConfigInv, NEW r \in Nat, NEW s \in 0 .. Steps - 1, NEW y, y.at \in Places, y.at[1] = r,
         y.st = "main", y.at[2] = StepStage(s),
         ~Before(<<r, StepStage(s), Layers + 1, 18>>, y.at)
  PROVE  Fed(Latent(r, s), y, r) /\ Intact(Latent(r, s), y, r)
<1>1. Latent(r, s).cell = <<"latent", 0>> /\ Latent(r, s).tag = <<r, s, 0>>
  BY DEF Latent, Is, Cell
<1>2. StepStage(s) \in Nat /\ StepStage(s) >= 1
  BY StepPlaces
<1>3. PICK x \in Launches(r) : IF s = 0 THEN IsNoise(x, r) ELSE IsEnd(x, r, s - 1)
  <2>1. CASE s = 0
    BY <2>1, InputsMade
  <2>2. CASE s # 0
    <3>1. s - 1 \in 0 .. Steps - 1
      BY <2>2
    <3>2. \E x \in Launches(r) : IsEnd(x, r, s - 1)
      BY <3>1, Made
    <3> QED BY <2>2, <3>2
  <2> QED BY <2>1, <2>2
<1>4. x.cell = <<"latent", 0>> /\ x.tag = <<r, s, 0>> /\ x.at \in Places
  <2>1. x.at \in Places
    BY WritersOf
  <2> QED BY <1>3, <2>1 DEF IsNoise, IsEnd
<1>5. Before(x.at, y.at) /\ Ordered(x, y)
  <2>1. CASE s = 0
    <3>1. x.at = <<r, 0, 0, 3>> /\ x.st = InputStream
      BY <1>3, <2>1 DEF IsNoise
    <3>2. ~Before(<<r, 0, 0, 4>>, x.at) /\ Before(<<r, 0, 0, 4>>, y.at) /\ Before(x.at, y.at)
      BY <1>2, <3>1 DEF Before, Places
    <3> QED BY <3>1, <3>2, BehindCopy DEF InputStream, Ordered, ConfigInv
  <2>2. CASE s # 0
    <3>1. x.at = <<r, StepStage(s - 1), Layers + 1, 18>> /\ x.st = "main"
      BY <1>3, <2>2 DEF IsEnd
    <3>2. s - 1 \in 0 .. Steps - 1
      BY <2>2
    <3>3. StepStage(s - 1) < StepStage(s) /\ StepStage(s - 1) \in Nat
      BY <2>2, <3>2, StepPlaces
    <3>4. Before(x.at, y.at)
      BY <3>1, <3>3 DEF Before, Places
    <3> QED BY <3>1, <3>4 DEF Ordered
  <2> QED BY <2>1, <2>2
<1>6. ASSUME NEW z \in Launches(r), z.cell = <<"latent", 0>>, Before(x.at, z.at)
      PROVE  z.st = "main" /\ ~Before(z.at, y.at)
  <2>1. CASE IsNoise(z, r)
    <3>1. z.at = <<r, 0, 0, 3>>
      BY <2>1 DEF IsNoise
    <3>2. CASE s = 0
      BY <1>3, <1>6, <3>1, <3>2 DEF IsNoise, Before
    <3>3. CASE s # 0
      <4>1. s - 1 \in 0 .. Steps - 1 /\ x.at = <<r, StepStage(s - 1), Layers + 1, 18>>
        BY <1>3, <3>3 DEF IsEnd
      <4> QED BY <1>6, <3>1, <4>1, StepPlaces DEF Before
    <3> QED BY <3>2, <3>3
  <2>2. ASSUME NEW u \in 0 .. Steps - 1, IsEnd(z, r, u) PROVE z.st = "main" /\ ~Before(z.at, y.at)
    <3>1. z.at = <<r, StepStage(u), Layers + 1, 18>> /\ z.st = "main"
      BY <2>2 DEF IsEnd
    <3>2. u >= s
      <4>1. SUFFICES ASSUME u < s PROVE FALSE
        OBVIOUS
      <4>2. s - 1 \in 0 .. Steps - 1 /\ x.at = <<r, StepStage(s - 1), Layers + 1, 18>>
        BY <1>3, <4>1 DEF IsEnd
      <4>3. StepStage(u) <= StepStage(s - 1) /\ StepStage(u) \in Nat /\ StepStage(s - 1) \in Nat
        BY <4>1, <4>2, StepPlaces
      <4> QED BY <1>6, <3>1, <4>2, <4>3 DEF Before
    <3>3. StepStage(u) >= StepStage(s) /\ StepStage(u) \in Nat
      BY <3>2, StepPlaces
    <3> QED BY <1>2, <3>1, <3>3 DEF Before, Places
  <2> QED BY <1>6, <2>1, <2>2, WritersOf
<1>7. \A z \in Launches(r) : z.cell = <<"latent", 0>> /\ Before(y.at, z.at) => Before(x.at, z.at)
  <2> TAKE z \in Launches(r)
  <2>1. z.at \in Places
    BY WritersOf
  <2> QED BY <1>4, <1>5, <2>1 DEF Before, Places
<1> QED BY <1>1, <1>4, <1>5, <1>6, <1>7 DEF Fed, Intact, Ordered

\* The tokens of the expert at layer i of step s, read by the next layer or by the head.
LEMMA ActRead ==
  ASSUME ConfigInv, NEW r \in Nat, NEW s \in 0 .. Steps - 1, NEW i \in 0 .. Layers,
         NEW y, y.at \in Places, y.at[1] = r, y.at[2] = StepStage(s), y.at[3] = i + 1,
         \/ i < Layers /\ y.st = StepStream(s)
         \/ i = Layers /\ y.st = "main" /\ y.at[4] = 18
  PROVE  Fed(Act(r, s, i), y, r) /\ Intact(Act(r, s, i), y, r)
<1>1. Act(r, s, i).cell = <<"action", i>> /\ Act(r, s, i).tag = <<r, s, i>>
  BY DEF Act, Is
<1>2. StepStage(s) \in Nat /\ StepStage(s) >= 1
  BY StepPlaces
<1>3. PICK x \in Launches(r) : IF i = 0 THEN IsBegin(x, r, s) ELSE IsAction(x, r, s, i)
  BY Made, ActionsMade
<1>4. /\ x.cell = <<"action", i>> /\ x.tag = <<r, s, i>> /\ x.at \in Places
      /\ x.at = <<r, StepStage(s), i, IF i = 0 THEN 7 ELSE 16>>
      /\ x.st = IF i = 0 THEN "main" ELSE StepStream(s)
  <2>1. x.at \in Places
    BY WritersOf
  <2> QED BY <1>3, <2>1 DEF IsBegin, IsAction
<1>5. Before(x.at, y.at)
  BY <1>2, <1>4 DEF Before, Places
<1>6. Ordered(x, y)
  <2>1. CASE x.st = y.st
    BY <2>1 DEF Ordered
  <2>2. CASE x.st # y.st /\ i = 0
    <3>1. overlap /\ s = 0 /\ y.st = "side" /\ StepStage(s) = 1
      BY <1>4, <2>2, StepPlaces
    <3>2. ~Before(<<r, 1, 0, 8>>, x.at) /\ Before(<<r, 1, 0, 8>>, y.at)
      BY <1>4, <2>2, <3>1 DEF Before, Places
    <3> QED BY <1>4, <2>2, <3>1, <3>2, BehindFork
  <2>3. CASE x.st # y.st /\ i # 0
    <3>1. overlap /\ s = 0 /\ x.st = "side" /\ y.st = "main" /\ StepStage(s) = 1 /\ i = Layers
      BY <1>4, <2>3, StepPlaces
    <3>2. ~Before(<<r, 1, Layers + 1, 17>>, x.at) /\ Before(<<r, 1, Layers + 1, 17>>, y.at)
      BY <1>4, <2>3, <3>1 DEF Before, Places
    <3> QED BY <1>4, <3>1, <3>2, BehindJoin
  <2> QED BY <2>1, <2>2, <2>3
<1>7. ASSUME NEW z \in Launches(r), z.cell = <<"action", i>>, Before(x.at, z.at)
      PROVE  /\ ~Before(z.at, y.at)
             /\ Before(y.at, z.at) => Ordered(y, z)
  <2>1. PICK u \in 0 .. Steps - 1 : IF i = 0 THEN IsBegin(z, r, u) ELSE IsAction(z, r, u, i)
    BY <1>7, WritersOf
  <2>2. /\ z.at = <<r, StepStage(u), i, IF i = 0 THEN 7 ELSE 16>> /\ z.at \in Places
        /\ z.st = IF i = 0 THEN "main" ELSE StepStream(u)
    <3>1. z.at \in Places
      BY WritersOf
    <3> QED BY <2>1, <3>1 DEF IsBegin, IsAction
  <2>3. u > s
    <3>1. SUFFICES ASSUME u <= s PROVE FALSE
      OBVIOUS
    <3>2. StepStage(u) <= StepStage(s) /\ StepStage(u) \in Nat
      BY <3>1, StepPlaces
    <3> QED BY <1>2, <1>4, <1>7, <2>2, <3>2 DEF Before
  <2>4. StepStage(u) = 3 + u /\ StepStage(u) > StepStage(s) /\ StepStream(u) = "main"
    BY <2>3, StepPlaces
  <2>5. ~Before(z.at, y.at)
    BY <1>2, <2>2, <2>4 DEF Before, Places
  <2>6. z.st = "main" /\ z.at[1] = r
    BY <2>2, <2>4
  <2>7. CASE y.st = "main"
    BY <2>5, <2>6, <2>7 DEF Ordered
  <2>8. CASE y.st # "main"
    <3>1. overlap /\ s = 0 /\ i < Layers /\ y.st = "side" /\ StepStage(s) = 1
      BY <2>8, StepPlaces
    <3>2. ~Before(<<r, 1, Layers + 1, 17>>, y.at) /\ Before(<<r, 1, Layers + 1, 17>>, z.at)
      BY <2>2, <2>4, <3>1 DEF Before, Places
    <3> QED BY <2>5, <2>6, <3>1, <3>2, BehindJoin
  <2> QED BY <2>7, <2>8
<1>8. \A z \in Launches(r) : Before(y.at, z.at) => Before(x.at, z.at)
  <2> TAKE z \in Launches(r)
  <2>1. z.at \in Places
    BY WritersOf
  <2> QED BY <1>4, <1>5, <2>1 DEF Before, Places
<1> QED BY <1>1, <1>4, <1>5, <1>6, <1>7, <1>8 DEF Fed, Intact

\* What one operation of a layer leaves for the next: the scratch, and the suffix.
LEMMA LayerRead ==
  ASSUME ConfigInv, NEW r \in Nat, NEW s \in 0 .. Steps - 1, NEW i \in 1 .. Layers,
         NEW y, y.at = <<r, StepStage(s), i, 16>>, y.st = StepStream(s), NEW c,
         NEW x \in Launches(r), x.cell = c.cell, x.tag = c.tag,
         x.at[1] = r, x.at[2] = StepStage(s), x.at[3] = i, x.at[4] \in 14 .. 15,
         x.st = StepStream(s),
         \A z \in Launches(r) : z.cell = c.cell =>
           \E u \in 0 .. Steps - 1 :
             /\ z.at[2] = StepStage(u) /\ z.at[3] \in 1 .. Layers /\ z.at[4] = x.at[4]
             /\ z.st = StepStream(u)
  PROVE  Fed(c, y, r) /\ Intact(c, y, r)
<1>1. x.at \in Places /\ y.at \in Places
  BY WritersOf, StepPlaces DEF Places
<1>2. Before(x.at, y.at) /\ Ordered(x, y)
  BY <1>1 DEF Before, Places, Ordered
<1>3. ASSUME NEW z \in Launches(r), z.cell = c.cell, Before(x.at, z.at) PROVE ~Before(z.at, y.at)
  <2>1. z.at \in Places /\ z.at[1] = r /\ z.at[4] = x.at[4]
    BY <1>3, WritersOf
  <2> QED BY <1>1, <1>3, <2>1 DEF Before, Places
<1>4. ASSUME NEW z \in Launches(r), z.cell = c.cell, Before(y.at, z.at) PROVE Ordered(y, z)
  <2>1. z.at \in Places /\ z.at[1] = r
    BY WritersOf
  <2>2. PICK u \in 0 .. Steps - 1 :
          z.at[2] = StepStage(u) /\ z.at[3] \in 1 .. Layers /\ z.st = StepStream(u)
    BY <1>4
  <2>3. y.at[1] <= r /\ y.at[2] = StepStage(s) /\ y.at[3] <= Layers
    OBVIOUS
  <2> QED BY <1>1, <1>4, <2>1, <2>2, <2>3, LayersOrdered
<1> QED BY <1>2, <1>3, <1>4 DEF Fed, Intact

\* The scratch of a layer.
LEMMA ScratchRead ==
  ASSUME ConfigInv, backend = "fastwam", NEW r \in Nat, NEW s \in 0 .. Steps - 1,
         NEW i \in 1 .. Layers, NEW y, y.at = <<r, StepStage(s), i, 16>>, y.st = StepStream(s)
  PROVE  Fed(Scratch(r, s, i), y, r) /\ Intact(Scratch(r, s, i), y, r)
<1>1. Scratch(r, s, i).cell = <<"scratch", 0>> /\ Scratch(r, s, i).tag = <<r, s, i>>
  BY DEF Scratch, Is, Cell
<1>2. PICK x \in Launches(r) : IsScratch(x, r, s, i)
  BY ActionsMade
<1>3. /\ x.cell = <<"scratch", 0>> /\ x.tag = <<r, s, i>> /\ x.st = StepStream(s)
      /\ x.at[1] = r /\ x.at[2] = StepStage(s) /\ x.at[3] = i /\ x.at[4] = 14
  BY <1>2 DEF IsScratch
<1>4. ASSUME NEW z \in Launches(r), z.cell = <<"scratch", 0>>
      PROVE  \E u \in 0 .. Steps - 1 :
             /\ z.at[2] = StepStage(u) /\ z.at[3] \in 1 .. Layers /\ z.at[4] = 14
             /\ z.st = StepStream(u)
  <2>1. PICK u \in 0 .. Steps - 1 : \E j \in 1 .. Layers : IsScratch(z, r, u, j)
    BY <1>4, WritersOf
  <2>2. PICK j \in 1 .. Layers : IsScratch(z, r, u, j)
    BY <2>1
  <2> QED BY <2>2 DEF IsScratch
<1> DEFINE c == Scratch(r, s, i)
<1>5. x.cell = c.cell /\ x.tag = c.tag /\ x.at[4] \in 14 .. 15
  BY <1>1, <1>3
<1>6. \A z \in Launches(r) : z.cell = c.cell =>
        \E u \in 0 .. Steps - 1 :
          /\ z.at[2] = StepStage(u) /\ z.at[3] \in 1 .. Layers /\ z.at[4] = x.at[4]
          /\ z.st = StepStream(u)
  BY <1>1, <1>3, <1>4
<1>7. x \in Launches(r) /\ x.at[1] = r /\ x.at[2] = StepStage(s) /\ x.at[3] = i
      /\ x.st = StepStream(s)
  BY <1>3
<1> HIDE DEF c
<1>8. Fed(c, y, r) /\ Intact(c, y, r)
  BY <1>5, <1>6, <1>7, LayerRead, ZenonT(60)
<1> QED BY <1>8 DEF c

\* The suffix in a cache of smolvla.
LEMMA SuffixRead ==
  ASSUME ConfigInv, backend = "smolvla", NEW r \in Nat, NEW s \in 0 .. Steps - 1,
         NEW i \in 1 .. Layers, SelfLayer(i),
         NEW y, y.at = <<r, StepStage(s), i, 16>>, y.st = StepStream(s)
  PROVE  Fed(Suffix(r, s, i), y, r) /\ Intact(Suffix(r, s, i), y, r)
<1>1. Suffix(r, s, i).cell = <<"suffix", i>> /\ Suffix(r, s, i).tag = <<r, s, i>>
  BY DEF Suffix, Is
<1>2. PICK x \in Launches(r) : IsSuffix(x, r, s, i)
  BY ActionsMade
<1>3. /\ x.cell = <<"suffix", i>> /\ x.tag = <<r, s, i>> /\ x.st = StepStream(s)
      /\ x.at[1] = r /\ x.at[2] = StepStage(s) /\ x.at[3] = i /\ x.at[4] = 15
  BY <1>2 DEF IsSuffix
<1>4. ASSUME NEW z \in Launches(r), z.cell = <<"suffix", i>>
      PROVE  \E u \in 0 .. Steps - 1 :
             /\ z.at[2] = StepStage(u) /\ z.at[3] \in 1 .. Layers /\ z.at[4] = 15
             /\ z.st = StepStream(u)
  <2>1. PICK u \in 0 .. Steps - 1 : IsSuffix(z, r, u, i)
    BY <1>4, WritersOf
  <2> QED BY <2>1 DEF IsSuffix
<1> DEFINE c == Suffix(r, s, i)
<1>5. x.cell = c.cell /\ x.tag = c.tag /\ x.at[4] \in 14 .. 15
  BY <1>1, <1>3
<1>6. \A z \in Launches(r) : z.cell = c.cell =>
        \E u \in 0 .. Steps - 1 :
          /\ z.at[2] = StepStage(u) /\ z.at[3] \in 1 .. Layers /\ z.at[4] = x.at[4]
          /\ z.st = StepStream(u)
  BY <1>1, <1>3, <1>4
<1>7. x \in Launches(r) /\ x.at[1] = r /\ x.at[2] = StepStage(s) /\ x.at[3] = i
      /\ x.st = StepStream(s)
  BY <1>3
<1> HIDE DEF c
<1>8. Fed(c, y, r) /\ Intact(c, y, r)
  BY <1>5, <1>6, <1>7, LayerRead, ZenonT(60)
<1> QED BY <1>8 DEF c

\* A growing of the cache is of an inference without static caches, on one stream.
LEMMA GrowIs ==
  ASSUME ConfigInv, NEW r \in Nat, NEW g \in Calls(r), g.do = "grow"
  PROVE  IsGrow(g, r)
<1>1. CallOK(g, r)
  BY CallKinds
<1>2. ~IsLaunch(g, r) /\ ~WaitKind(g, r) /\ ~IsRecord(g, r)
  BY DEF IsLaunch, WaitKind, IsRecord, WaitStream, WaitEvent, Fork, Join, Record
<1> QED BY <1>1, <1>2 DEF CallOK

\* The keys in a grown cache.
LEMMA GrownRead ==
  ASSUME ConfigInv, backend = "smolvla", ~static, NEW r \in Nat, NEW s \in 0 .. Steps - 1,
         NEW i \in 1 .. Layers, NEW y, y.at = <<r, StepStage(s), i, 16>>, y.st = StepStream(s)
  PROVE  Fed(Kv("grown", r, i), y, r) /\ Intact(Kv("grown", r, i), y, r)
<1>1. PICK g \in Calls(r) : g.do = "grow"
  BY ActionsMade
<1>2. IsGrow(g, r)
  BY <1>1, GrowIs
<1>3. g.at = <<r, 3, 1, 13>> /\ g.st = "main" /\ ~overlap
  BY <1>2 DEF IsGrow, Grow
<1>4. StepStage(s) = 3 + s /\ y.st = "main"
  BY <1>3, StepPlaces
<1>5. Before(g.at, y.at)
  BY <1>3, <1>4 DEF Before
<1>6. Kv("grown", r, i).cell = <<"grown", i>>
  BY DEF Kv, Is
<1>7. \A z \in Launches(r) : z.cell # <<"grown", i>>
  BY WritersOf
<1> QED BY <1>1, <1>3, <1>4, <1>5, <1>6, <1>7 DEF Fed, Intact

\* Everything an operation reads.
LEMMA ReadsFed ==
  ASSUME ConfigInv, NEW r \in Nat, NEW y \in Launches(r), NEW c \in y.reads
  PROVE  Fed(c, y, r) /\ Intact(c, y, r)
<1>p. y.at \in Places /\ y.at[1] = r
  BY WritersOf
<1>1. PICK s \in 0 .. Steps - 1 : \E i \in 1 .. Layers : LaunchKind(y, r, s, i)
  BY KindsOf
<1>2. PICK i \in 1 .. Layers : LaunchKind(y, r, s, i)
  BY <1>1
<1>s. StepStage(s) \in Nat /\ StepStage(s) >= 1
      /\ (StepStage(s) = 1 <=> overlap /\ s = 0) /\ (StepStage(s) # 1 => StepStage(s) = 3 + s)
      /\ StepStream(s) = IF overlap /\ s = 0 THEN "side" ELSE "main"
  BY StepPlaces
<1>j. i - 1 \in 0 .. Layers /\ i - 1 < Layers /\ (i - 1) + 1 = i
  OBVIOUS
\* What the operations of a layer find: the tokens, the keys, the context.
<1>l. ASSUME NEW k \in 14 .. 16, y.at = <<r, StepStage(s), i, k>>, y.st = StepStream(s)
      PROVE  /\ Fed(Act(r, s, i - 1), y, r) /\ Intact(Act(r, s, i - 1), y, r)
             /\ Fed(Kv("kv", r, i), y, r) /\ Intact(Kv("kv", r, i), y, r)
             /\ backend = "fastwam" => Fed(Context(r), y, r) /\ Intact(Context(r), y, r)
  <2>1. y.at[2] = StepStage(s) /\ y.at[3] = (i - 1) + 1
    BY <1>l
  <2>2. Fed(Act(r, s, i - 1), y, r) /\ Intact(Act(r, s, i - 1), y, r)
    BY <1>p, <1>j, <1>l, <2>1, ActRead
  <2>3. \/ y.st = "main" /\ Before(<<r, 1, i, 9>>, y.at)
        \/ y.st = "side" /\ overlap /\ Before(<<r, 1, i, 12>>, y.at)
    BY <1>s, <1>l DEF Before
  <2>4. \/ y.st = "main" /\ Before(<<r, 1, 0, 6>>, y.at)
        \/ y.st = "side" /\ overlap /\ Before(<<r, 1, 0, 8>>, y.at)
    BY <1>s, <1>l DEF Before
  <2> QED BY <1>p, <2>2, <2>3, <2>4, KvRead, ContextRead
<1>i. CASE IsInput(y, r) \/ IsNoise(y, r)
  BY <1>i DEF IsInput, IsNoise
<1>e. CASE IsEncode(y, r) \/ IsContext(y, r)
  <2>1. y.at[2] = 1 /\ y.st = "main" /\ c = Input(r)
    BY <1>e DEF IsEncode, IsContext
  <2> QED BY <1>p, <2>1, InputRead
<1>b. CASE IsBegin(y, r, s)
  <2>1. y.at = <<r, StepStage(s), 0, 7>> /\ y.st = "main"
        /\ (c = Latent(r, s) \/ (c = Context(r) /\ backend = "fastwam"))
    BY <1>b DEF IsBegin
  <2>2. y.at[2] = StepStage(s) /\ ~Before(<<r, StepStage(s), Layers + 1, 18>>, y.at)
        /\ Before(<<r, 1, 0, 6>>, y.at)
    BY <1>s, <2>1 DEF Before
  <2> QED BY <1>p, <2>1, <2>2, LatentRead, ContextRead
<1>k. CASE IsKv(y, r, i)
  <2>1. y.at = <<r, 1, i, 9>> /\ y.st = "main" /\ c = Prefix(r, i - 1)
    BY <1>k DEF IsKv
  <2>2. y.at[2] = 1 /\ y.at[3] = (i - 1) + 1
    BY <2>1
  <2> QED BY <1>p, <1>j, <2>1, <2>2, PrefixRead
<1>t. CASE IsTokens(y, r, i)
  <2>1. y.at = <<r, 1, i, 10>> /\ y.st = "main" /\ (c = Prefix(r, i - 1) \/ c = Kv("kv", r, i))
    BY <1>t DEF IsTokens
  <2>2. y.at[2] = 1 /\ y.at[3] = (i - 1) + 1 /\ Before(<<r, 1, i, 9>>, y.at)
    BY <2>1 DEF Before
  <2> QED BY <1>p, <1>j, <2>1, <2>2, PrefixRead, KvRead
<1>h. CASE IsScratch(y, r, s, i)
  <2>1. y.at = <<r, StepStage(s), i, 14>> /\ y.st = StepStream(s) /\ backend = "fastwam"
        /\ c \in {Act(r, s, i - 1), Kv("kv", r, i), Context(r)}
    BY <1>h DEF IsScratch
  <2> QED BY <2>1, <1>l
<1>u. CASE IsSuffix(y, r, s, i)
  <2>1. y.at = <<r, StepStage(s), i, 15>> /\ y.st = StepStream(s) /\ c = Act(r, s, i - 1)
    BY <1>u DEF IsSuffix
  <2> QED BY <2>1, <1>l
<1>a. CASE IsAction(y, r, s, i)
  <2>1. y.at = <<r, StepStage(s), i, 16>> /\ y.st = StepStream(s)
    BY <1>a DEF IsAction
  <2>2. CASE c = Act(r, s, i - 1) \/ c = Kv("kv", r, i)
    BY <2>1, <2>2, <1>l
  <2>3. CASE backend = "fastwam" /\ c = Scratch(r, s, i)
    BY <2>1, <2>3, ScratchRead
  <2>4. CASE backend = "smolvla" /\ SelfLayer(i) /\ c = Suffix(r, s, i)
    BY <2>1, <2>4, SuffixRead
  <2>5. CASE backend = "smolvla" /\ ~static /\ c = Kv("grown", r, i)
    BY <2>1, <2>5, GrownRead
  <2>6. CASE backend = "smolvla" /\ ~SelfLayer(i) /\ ~(overlap /\ s = 0) /\ c = ExpertKv(r, i)
    <3>1. y.at[2] >= 3 /\ y.st = "main"
      BY <1>s, <2>1, <2>6
    <3> QED BY <1>p, <2>6, <3>1, ExpertKvRead
  <2>7. \/ backend = "fastwam" /\ c = Scratch(r, s, i)
        \/ c = Act(r, s, i - 1) \/ c = Kv("kv", r, i)
        \/ backend = "smolvla" /\ SelfLayer(i) /\ (c = Kv(SuffixBuf, r, i) \/ c = Suffix(r, s, i))
        \/ backend = "smolvla" /\ ~SelfLayer(i) /\ ~(overlap /\ s = 0) /\ c = ExpertKv(r, i)
    <3>1. \/ backend = "fastwam" /\ y.reads = {Scratch(r, s, i)}
          \/ backend = "pi05" /\ y.reads = {Act(r, s, i - 1), Kv("kv", r, i)}
          \/ /\ backend = "smolvla" /\ SelfLayer(i)
             /\ y.reads = {Act(r, s, i - 1), Kv(SuffixBuf, r, i), Suffix(r, s, i)}
          \/ /\ backend = "smolvla" /\ ~SelfLayer(i)
             /\ y.reads = {Act(r, s, i - 1),
                           IF overlap /\ s = 0 THEN Kv("kv", r, i) ELSE ExpertKv(r, i)}
      BY <1>a DEF IsAction
    <3> QED BY <3>1
  <2>8. SuffixBuf = IF static THEN "kv" ELSE "grown"
    BY DEF SuffixBuf
  <2> QED BY <2>2, <2>3, <2>4, <2>5, <2>6, <2>7, <2>8 DEF ConfigInv
<1>z. CASE IsEnd(y, r, s)
  <2>1. y.at = <<r, StepStage(s), Layers + 1, 18>> /\ y.st = "main"
        /\ (c = Act(r, s, Layers) \/ c = Latent(r, s))
    BY <1>z DEF IsEnd
  <2>2. y.at[2] = StepStage(s) /\ y.at[3] = Layers + 1 /\ y.at[4] = 18 /\ Layers \in 0 .. Layers
        /\ ~Before(<<r, StepStage(s), Layers + 1, 18>>, y.at)
    BY <1>s, <2>1 DEF Before
  <2> QED BY <1>p, <2>1, <2>2, ActRead, LatentRead
<1>q. CASE IsProject(y, r, i)
  <2>1. y.at = <<r, 2, i, 19>> /\ y.st = "main" /\ c = Kv("kv", r, i)
    BY <1>q DEF IsProject
  <2>2. Before(<<r, 1, i, 9>>, y.at)
    BY <2>1 DEF Before
  <2> QED BY <1>p, <2>1, <2>2, KvRead
<1> QED BY <1>2, <1>i, <1>e, <1>b, <1>k, <1>t, <1>h, <1>u, <1>a, <1>z, <1>q DEF LaunchKind

-----------------------------------------------------------------------------
(* Calls by their places.                                                  *)

\* What a call is can be told from its place.
Shaped(c, r) ==
  /\ c.at \in Places /\ c.at[1] = r /\ c.at[4] \in 1 .. 19
  /\ c.at[4] \in {1, 4, 8, 17} => c.do = "wait_stream"
  /\ c.at[4] = 1 => c.st = "copy" /\ c.on = "main"
  /\ c.at[4] = 4 => c.st = "main" /\ c.on = "copy"
  /\ c.at[4] = 8 => c.st = "side" /\ c.on = "main"
  /\ c.at[4] = 17 => c.st = "main" /\ c.on = "side"
  /\ c.at[4] \in {11, 12} => c.at[2] = 1 /\ c.layer = c.at[3] /\ c.layer \in 1 .. Layers
  /\ c.at[4] = 11 => c.do = "record"
  /\ c.at[4] = 12 => c.do = "wait_event" /\ c.st = "side" /\ overlap
  /\ c.at[4] = 13 => c.do = "grow" /\ c.st = "main"
  /\ c.at[4] \notin {1, 4, 8, 11, 12, 13, 17} => c.do = "launch"
  /\ c.at[4] \in {2, 3} => c.st = InputStream
  /\ c.at[4] \in {5, 6, 7, 9, 10, 18, 19} => c.st = "main"
  /\ c.at[4] \in {14, 15, 16} => c.st = IF c.at[2] = 1 THEN "side" ELSE "main"

Tags == Nat \X Nat \X Nat

\* The cell and the tag of an operation.
Written(c, r) ==
  /\ c.cell[1] # "grown" /\ c.cell \in Cells /\ c.tag \in Tags
  /\ c.cell =
       IF c.at[4] = 2 THEN <<"input", 0>> ELSE
       IF c.at[4] \in {3, 18} THEN <<"latent", 0>> ELSE
       IF c.at[4] \in {5, 10} THEN <<"prefix", c.at[3]>> ELSE
       IF c.at[4] = 6 THEN <<"action_ctx", 0>> ELSE
       IF c.at[4] \in {7, 16} THEN <<"action", c.at[3]>> ELSE
       IF c.at[4] = 9 THEN <<"kv", c.at[3]>> ELSE
       IF c.at[4] = 14 THEN <<"scratch", 0>> ELSE
       IF c.at[4] = 15 THEN <<"suffix", c.at[3]>> ELSE <<"expert_kv", c.at[3]>>
  /\ c.at[4] \in {2, 3, 6} => c.tag = <<r, 0, 0>>
  /\ c.at[4] \in {5, 9, 10, 19} => c.tag = <<r, 0, c.at[3]>>
  /\ c.at[4] \in {7, 14, 15, 16} =>
       c.tag = <<r, IF c.at[2] = 1 THEN 0 ELSE c.at[2] - 3, c.at[3]>>
  /\ c.at[4] = 18 => c.tag = <<r, IF c.at[2] = 1 THEN 1 ELSE c.at[2] - 2, 0>>

\* The operations, by place.
LEMMA LaunchShape ==
  ASSUME ConfigInv, NEW r \in Nat, NEW c \in Launches(r)
  PROVE  Shaped(c, r) /\ Written(c, r)
<1>0. c.do = "launch" /\ c.at \in Places /\ c.at[1] = r
  BY WritersOf DEF Launches
<1>1. PICK s \in 0 .. Steps - 1 : \E i \in 1 .. Layers : LaunchKind(c, r, s, i)
  BY KindsOf
<1>2. PICK i \in 1 .. Layers : LaunchKind(c, r, s, i)
  BY <1>1
<1>n. i \in 0 .. Layers /\ 0 \in 0 .. Layers
  OBVIOUS
<1>t. \A n \in {"prefix", "kv", "grown", "expert_kv", "suffix", "action"} :
        <<n, i>> \in Cells /\ <<n, 0>> \in Cells
  BY <1>n DEF Cells
<1>u. \A n \in {"scratch", "latent", "input", "action_ctx"} : <<n, 0>> \in Cells
  BY DEF Cells, Cell
<1>s. StepStage(s) \in Nat /\ StepStage(s) >= 1
      /\ s = (IF StepStage(s) = 1 THEN 0 ELSE StepStage(s) - 3)
      /\ s + 1 = (IF StepStage(s) = 1 THEN 1 ELSE StepStage(s) - 2)
      /\ StepStream(s) = IF StepStage(s) = 1 THEN "side" ELSE "main"
  BY StepPlaces
<1>a. CASE IsInput(c, r)
  BY <1>a, <1>0, <1>u DEF IsInput, Shaped, Written, Tags
<1>b. CASE IsNoise(c, r)
  BY <1>b, <1>0, <1>u DEF IsNoise, Shaped, Written, Tags
<1>c. CASE IsEncode(c, r)
  BY <1>c, <1>0, <1>t DEF IsEncode, Shaped, Written, Tags
<1>d. CASE IsContext(c, r)
  BY <1>d, <1>0, <1>u DEF IsContext, Shaped, Written, Tags
<1>e. CASE IsBegin(c, r, s)
  BY <1>e, <1>0, <1>t, <1>s DEF IsBegin, Shaped, Written, Tags
<1>f. CASE IsKv(c, r, i)
  BY <1>f, <1>0, <1>t DEF IsKv, Shaped, Written, Tags
<1>g. CASE IsTokens(c, r, i)
  BY <1>g, <1>0, <1>t DEF IsTokens, Shaped, Written, Tags
<1>h. CASE IsScratch(c, r, s, i)
  BY <1>h, <1>0, <1>u, <1>s DEF IsScratch, Shaped, Written, Tags
<1>i. CASE IsSuffix(c, r, s, i)
  BY <1>i, <1>0, <1>t, <1>s DEF IsSuffix, Shaped, Written, Tags
<1>j. CASE IsAction(c, r, s, i)
  BY <1>j, <1>0, <1>t, <1>s DEF IsAction, Shaped, Written, Tags
<1>k. CASE IsEnd(c, r, s)
  BY <1>k, <1>0, <1>u, <1>s DEF IsEnd, Shaped, Written, Tags
<1>l. CASE IsProject(c, r, i)
  BY <1>l, <1>0, <1>t DEF IsProject, Shaped, Written, Tags
<1> QED
  BY <1>2, <1>a, <1>b, <1>c, <1>d, <1>e, <1>f, <1>g, <1>h, <1>i, <1>j, <1>k, <1>l DEF LaunchKind

\* All calls, by place.
LEMMA CallShape ==
  ASSUME ConfigInv, NEW r \in Nat, NEW c \in Calls(r)
  PROVE  /\ Shaped(c, r)
         /\ c.do = "launch" => Written(c, r)
         /\ c.do # "record" => c.st \in Streams
<1>1. CallOK(c, r)
  BY CallKinds
<1>2. CASE IsLaunch(c, r)
  <2>1. c \in Launches(r)
    BY <1>2 DEF IsLaunch, Launches
  <2>2. Shaped(c, r) /\ Written(c, r)
    BY <2>1, LaunchShape
  <2>3. c.st \in Streams
    BY <1>2, <2>2 DEF Shaped, InputStream, Streams, IsLaunch
  <2> QED BY <2>2, <2>3
<1>3. CASE WaitKind(c, r)
  <2>1. CASE c = WaitStream(<<r, 0, 0, 1>>, "copy", "main")
    BY <2>1 DEF WaitStream, Shaped, Places, Streams
  <2>2. CASE c = WaitStream(<<r, 0, 0, 4>>, "main", "copy")
    BY <2>2 DEF WaitStream, Shaped, Places, Streams
  <2>3. CASE c = Fork(r)
    BY <2>3 DEF Fork, WaitStream, Shaped, Places, Streams
  <2>4. ASSUME overlap, NEW i \in 1 .. Layers, c = WaitEvent(<<r, 1, i, 12>>, "side", i)
        PROVE  Shaped(c, r) /\ c.do = "wait_event" /\ c.st \in Streams
    BY <2>4 DEF WaitEvent, Shaped, Places, Streams
  <2>5. CASE c = Join(r)
    BY <2>5 DEF Join, WaitStream, Shaped, Places, Streams
  <2> QED BY <1>3, <2>1, <2>2, <2>3, <2>4, <2>5 DEF WaitKind
<1>4. CASE IsGrow(c, r)
  BY <1>4 DEF IsGrow, Grow, Shaped, Places, Streams
<1>5. CASE IsRecord(c, r)
  BY <1>5 DEF IsRecord, Record, Shaped, Places
<1> QED BY <1>1, <1>2, <1>3, <1>4, <1>5 DEF CallOK

\* Two calls at one place do the same.
LEMMA SamePlace ==
  ASSUME ConfigInv, NEW r \in Nat, NEW c \in Calls(r), NEW d \in Calls(r), c.at = d.at
  PROVE  /\ c.do = d.do
         /\ c.do # "record" => c.st = d.st
         /\ c.do = "launch" => c.cell = d.cell /\ c.tag = d.tag
         /\ c.do \in {"wait_stream", "wait_event"} => On(c) = On(d) /\ Target(c) = Target(d)
<1>1. Shaped(c, r) /\ Shaped(d, r)
  BY CallShape
<1>2. c.do = d.do
  BY <1>1 DEF Shaped
<1>3. c.do # "record" => c.st = d.st
  BY <1>1 DEF Shaped
<1>4. c.do = "launch" => c.cell = d.cell /\ c.tag = d.tag
  <2> SUFFICES ASSUME c.do = "launch" PROVE c.cell = d.cell /\ c.tag = d.tag
    OBVIOUS
  <2>1. Written(c, r) /\ Written(d, r)
    BY <1>2, CallShape
  <2>2. c.cell = d.cell
    BY <2>1 DEF Written
  <2>3. c.tag = d.tag
    BY <1>1, <2>1 DEF Written, Shaped
  <2> QED BY <2>2, <2>3
<1>5. c.do \in {"wait_stream", "wait_event"} => On(c) = On(d) /\ Target(c) = Target(d)
  BY <1>1, <1>2 DEF Shaped, On, Target
<1> QED BY <1>2, <1>3, <1>4, <1>5

\* A wait is for what was issued before it, on another stream.
LEMMA WaitShape ==
  ASSUME ConfigInv, NEW r \in Nat, NEW w \in Waits(r)
  PROVE  /\ w \in Enqueued(r) /\ On(w) \in Streams /\ On(w) # w.st
         /\ w.at \in Places /\ w.at[1] = r /\ w.at[4] # 0
         /\ Target(w) \in Places /\ Target(w)[1] = r /\ ~Before(w.at, Target(w))
<1>1. w \in Calls(r) /\ w.do \in {"wait_stream", "wait_event"} /\ Shaped(w, r)
  BY CallShape DEF Waits
<1>2. w \in Enqueued(r)
  BY <1>1 DEF Enqueued
<1>3. CASE w.do = "wait_stream"
  <2>1. w.at[4] \in {1, 4, 8, 17}
    BY <1>1, <1>3 DEF Shaped
  <2>2. On(w) \in Streams /\ On(w) # w.st
    BY <1>1, <1>3, <2>1 DEF Shaped, On, Streams
  <2>3. ~Before(w.at, w.at)
    BY <1>1 DEF Before, Shaped, Places
  <2> QED BY <1>1, <1>2, <1>3, <2>2, <2>3 DEF Target, Shaped
<1>4. CASE w.do = "wait_event"
  <2>1. w.at[4] = 12
    BY <1>1, <1>4 DEF Shaped
  <2>2. w.at = <<r, 1, w.at[3], 12>> /\ w.at[3] \in Nat /\ w.st = "side"
    BY <1>1, <2>1 DEF Shaped, Places
  <2>3. Target(w) = <<r, 1, w.at[3], 11>> /\ On(w) = "main"
    BY <1>1, <1>4 DEF Target, On, Shaped
  <2>4. ~Before(w.at, Target(w))
    BY <2>2, <2>3 DEF Before
  <2> QED BY <1>1, <1>2, <2>2, <2>3, <2>4 DEF Shaped, Streams, Places
<1> QED BY <1>1, <1>3, <1>4

\* The entry of a call.
LEMMA EntryShape ==
  ASSUME ConfigInv, NEW r \in Nat, NEW c \in Enqueued(r)
  PROVE  /\ Entry(c).at = c.at
         /\ c.do \in {"launch", "grow"} => Entry(c) = c
         /\ c \in Waits(r) => /\ Entry(c).do = "wait"
                              /\ Entry(c).on = On(c) /\ Entry(c).upto = Target(c)
         /\ c \in Launches(r) \/ c \in Waits(r) \/ c.do = "grow"
<1>1. c \in Calls(r) /\ c.do # "record" /\ Shaped(c, r)
  BY CallShape DEF Enqueued
<1>2. c.do \in {"launch", "wait_stream", "wait_event", "grow"}
  BY <1>1 DEF Shaped
<1> QED BY <1>1, <1>2 DEF Entry, Wait, Launches, Waits

\* What is recorded before a wait for an event.
LEMMA RecordOf ==
  ASSUME ConfigInv, NEW r \in Nat, NEW w \in Calls(r), w.do = "wait_event"
  PROVE  /\ w.layer \in 1 .. Layers /\ overlap
         /\ w.at = <<r, 1, w.layer, 12>> /\ Target(w) = <<r, 1, w.layer, 11>>
         /\ Record(<<r, 1, w.layer, 11>>, w.layer) \in Calls(r)
<1>1. Shaped(w, r)
  BY CallShape
<1>2. w.at[4] = 12 /\ w.at[2] = 1 /\ w.at[1] = r /\ w.at[3] = w.layer /\ w.at \in Places
      /\ w.layer \in 1 .. Layers /\ overlap
  BY <1>1 DEF Shaped
<1>3. w.at = <<r, 1, w.layer, 12>>
  BY <1>2 DEF Places
<1>4. Target(w) = <<r, 1, w.layer, 11>>
  BY <1>2 DEF Target
<1> QED BY <1>2, <1>3, <1>4, SyncsMade

\* The calls depend on the configuration alone.
LEMMA CallsKept ==
  ASSUME ConfigInv, UNCHANGED config
  PROVE  ConfigInv' /\ \A r : Calls(r)' = Calls(r)
<1>1. /\ backend' = backend /\ graph' = graph /\ overlap' = overlap
      /\ static' = static /\ cache' = cache
  BY DEF config
<1> QED BY <1>1 DEF ConfigInv, Calls, Inputs, FastwamCore, Pi05Core, SmolvlaCore,
  FastwamOverlap, Pi05Overlap, SmolvlaOverlap, DenoiseStep, Pi05Step, SmolvlaStep,
  ActionLayer, ActionPre, Pi05Layer, EmbedSuffix, SmolvlaLayer, WriteSuffix, ProjectExpert,
  SuffixBuf, Roomy, Projected, Matched, StepStage, StepStream, StepEnd

-----------------------------------------------------------------------------
(* The invariant.                                                          *)

Ops      == UNION {{Entry(c) : c \in Enqueued(r)} : r \in Nat}
Held(st) == {streams[st][k] : k \in DOMAIN streams[st]}

\* Made by the host, as far as what still waits on the streams can tell.
Issued(c) ==
  \/ c.at[1] = request /\ ~Before(at, c.at)
  \/ \E st \in Streams : \E e \in Held(st) : e.at[1] = c.at[1] /\ ~Before(e.at, c.at)
Pending(c) == \E e \in Held(c.st) : e.at = c.at
Ran(c)     == ~Before(at, c.at) /\ RunOut(c.st, c.at)

CoreType ==
  /\ request \in Nat /\ at \in Places /\ at[1] = request
  /\ streams \in [Streams -> Seq(Ops)]
  /\ DOMAIN event = 1 .. Layers
  /\ mem = [c \in Cells |-> mem[c]]

\* What is on a stream is calls of the requests so far, in the host's order.
EntryInv ==
  \A st \in Streams : \A e \in Held(st) :
    /\ e.at[1] \in 0 .. request /\ ~Before(at, e.at)
    /\ \E c \in Enqueued(e.at[1]) : e = Entry(c) /\ c.st = st
SortedInv ==
  \A st \in Streams : \A j, k \in DOMAIN streams[st] :
    j < k => Before(streams[st][j].at, streams[st][k].at)

\* An event recorded in the current request stands at its place there.
EventInv ==
  \A i \in 1 .. Layers :
    overlap /\ ~Before(at, <<request, 1, i, 11>>) => event[i] = <<request, 1, i, 11>>

\* A call that was made is on its stream, or it and everything before it has run.
CompleteInv ==
  \A r \in 0 .. request : \A c \in Enqueued(r) :
    Issued(c) => RunOut(c.st, c.at) \/ Pending(c)

\* Behind a wait that ran, what it waited for ran.
WaitInv ==
  \A r \in 0 .. request : \A w \in Waits(r) :
    Issued(w) /\ RunOut(w.st, w.at) => RunOut(On(w), Target(w))

\* What an operation of the current request left is there until the next one of the request
\* that writes the cell has run.
MemInv ==
  \A x \in Launches(request) : Ran(x) =>
    \/ mem[x.cell] = x.tag
    \/ \E y \in Launches(request) : y.cell = x.cell /\ Before(x.at, y.at) /\ Ran(y)
GrownInv ==
  \A g \in Calls(request) : g.do = "grow" /\ Ran(g) =>
    \A i \in 1 .. Layers : mem[<<"grown", i>>] = <<request, 0, i>>

StreamsInv == CoreType /\ EntryInv /\ SortedInv /\ CompleteInv /\ WaitInv
CoreInv    == ConfigInv /\ StreamsInv /\ EventInv /\ MemInv /\ GrownInv

-----------------------------------------------------------------------------

\* The order of the places.
LEMMA Order ==
  ASSUME NEW a \in Places, NEW b \in Places, NEW c \in Places
  PROVE  /\ ~Before(a, a)
         /\ Before(a, b) => ~Before(b, a)
         /\ Before(a, b) /\ Before(b, c) => Before(a, c)
         /\ Before(a, b) /\ ~Before(c, b) => Before(a, c)
         /\ ~Before(b, a) /\ Before(b, c) => Before(a, c)
         /\ ~Before(b, a) /\ ~Before(c, b) => ~Before(c, a)
         /\ ~Before(a, b) /\ ~Before(b, a) => a = b
         /\ a[1] < b[1] => Before(a, b)
<1>1. ~Before(a, b) /\ ~Before(b, a) => a = b
  BY DEF Before, Places
<1> QED BY <1>1 DEF Before, Places

\* What has run on a stream, by what it holds.
LEMMA HeldRunOut ==
  ASSUME NEW st \in Streams, NEW p
  PROVE  RunOut(st, p) <=> \A e \in Held(st) : Before(p, e.at)
BY DEF RunOut, Held

\* What a stream holds.
LEMMA HeldEntry ==
  ASSUME ConfigInv, EntryInv, request \in Nat, NEW st \in Streams, NEW e \in Held(st)
  PROVE  /\ e.at \in Places /\ e.at[1] \in 0 .. request /\ ~Before(at, e.at)
         /\ \E c \in Enqueued(e.at[1]) : e = Entry(c) /\ c.st = st /\ c.at = e.at
<1>1. e.at[1] \in 0 .. request /\ ~Before(at, e.at)
  BY DEF EntryInv
<1>2. PICK c \in Enqueued(e.at[1]) : e = Entry(c) /\ c.st = st
  BY DEF EntryInv
<1>3. c.at = e.at
  BY <1>1, <1>2, EntryShape
<1>4. c.at \in Places
  BY <1>1, CallShape DEF Enqueued, Shaped
<1> QED BY <1>1, <1>2, <1>3, <1>4

\* What stands in front of a held call of its request was made.
LEMMA HeldIssued ==
  ASSUME NEW c, NEW e, NEW st \in Streams, e \in Held(st), e.at[1] = c.at[1], ~Before(e.at, c.at)
  PROVE  Issued(c)
BY DEF Issued

\* A stream without its head.
LEMMA Popped ==
  ASSUME CoreType, SortedInv, NEW st \in Streams, streams[st] # << >>,
         streams' = [streams EXCEPT ![st] = Tail(@)]
  PROVE  /\ streams' \in [Streams -> Seq(Ops)] /\ SortedInv'
         /\ Head(streams[st]) \in Held(st)
         /\ \A t \in Streams : Held(t)' \subseteq Held(t)
         /\ \A t \in Streams : t # st => Held(t)' = Held(t)
         /\ \A e \in Held(st) : e = Head(streams[st]) \/ e \in Held(st)'
         /\ \A e \in Held(st)' : Before(Head(streams[st]).at, e.at)
<1> DEFINE s == streams[st]
<1>1. s \in Seq(Ops) /\ s # << >> /\ Len(s) \in Nat /\ Len(s) >= 1 /\ DOMAIN s = 1 .. Len(s)
  BY DEF CoreType
<1>2. /\ Tail(s) \in Seq(Ops) /\ Len(Tail(s)) = Len(s) - 1 /\ DOMAIN Tail(s) = 1 .. Len(s) - 1
      /\ \A k \in 1 .. Len(s) - 1 : Tail(s)[k] = s[k + 1]
      /\ Head(s) = s[1]
  BY <1>1
<1>3. \A t \in Streams : streams'[t] = IF t = st THEN Tail(s) ELSE streams[t]
  BY DEF CoreType
<1>4. streams' \in [Streams -> Seq(Ops)]
  BY <1>2 DEF CoreType
<1> HIDE DEF s
<1>5. SortedInv'
  <2> SUFFICES ASSUME NEW t \in Streams, NEW j \in DOMAIN streams'[t], NEW k \in DOMAIN streams'[t],
                      j < k
               PROVE  Before(streams'[t][j].at, streams'[t][k].at)
    BY DEF SortedInv
  <2>1. CASE t # st
    BY <1>3, <2>1 DEF SortedInv
  <2>2. CASE t = st
    <3>1. streams'[t] = Tail(s)
      BY <1>3, <2>2
    <3>2. j \in 1 .. Len(s) - 1 /\ k \in 1 .. Len(s) - 1
      BY <1>2, <3>1
    <3>3. Tail(s)[j] = s[j + 1] /\ Tail(s)[k] = s[k + 1]
      BY <1>2, <3>2
    <3>4. j + 1 \in DOMAIN s /\ k + 1 \in DOMAIN s /\ j + 1 < k + 1
      BY <1>1, <3>2
    <3> QED BY <3>1, <3>3, <3>4 DEF SortedInv, s
  <2> QED BY <2>1, <2>2
<1>6. Held(st) = {s[k] : k \in 1 .. Len(s)}
  BY <1>1 DEF Held, s
<1>7. Held(st)' = {s[k + 1] : k \in 1 .. Len(s) - 1}
  <2>1. streams'[st] = Tail(s)
    BY <1>3
  <2>2. Held(st)' = {Tail(s)[k] : k \in DOMAIN Tail(s)}
    BY <2>1 DEF Held
  <2>3. Held(st)' = {Tail(s)[k] : k \in 1 .. Len(s) - 1}
    BY <1>2, <2>2
  <2>4. \A k \in 1 .. Len(s) - 1 : Tail(s)[k] = s[k + 1]
    BY <1>2
  <2> QED BY ONLY <2>3, <2>4
<1>8. \A t \in Streams : t # st => Held(t)' = Held(t)
  BY <1>3 DEF Held
<1>9. Head(streams[st]) = s[1]
  BY <1>2 DEF s
<1>10. \A e \in Held(st) : e = s[1] \/ e \in Held(st)'
  <2> SUFFICES ASSUME NEW k \in 1 .. Len(s) PROVE s[k] = s[1] \/ s[k] \in Held(st)'
    BY <1>6
  <2>1. CASE k = 1
    BY <2>1
  <2>2. CASE k # 1
    <3>1. k - 1 \in 1 .. Len(s) - 1 /\ (k - 1) + 1 = k
      BY <1>1, <2>2
    <3> QED BY <1>7, <3>1
  <2> QED BY <2>1, <2>2
<1>11. \A e \in Held(st)' : Before(s[1].at, e.at)
  <2> SUFFICES ASSUME NEW k \in 1 .. Len(s) - 1 PROVE Before(s[1].at, s[k + 1].at)
    BY <1>7
  <2>1. 1 \in DOMAIN s /\ k + 1 \in DOMAIN s /\ 1 < k + 1
    BY <1>1
  <2> QED BY <2>1 DEF SortedInv, s
<1>12. Held(st)' \subseteq Held(st) /\ s[1] \in Held(st)
  BY <1>1, <1>6, <1>7
<1> QED BY <1>4, <1>5, <1>8, <1>9, <1>10, <1>11, <1>12

\* A stream with one more entry.
LEMMA Appended ==
  ASSUME CoreType, SortedInv, NEW st \in Streams, NEW e \in Ops,
         \A d \in Held(st) : Before(d.at, e.at),
         streams' = [streams EXCEPT ![st] = Append(@, e)]
  PROVE  /\ streams' \in [Streams -> Seq(Ops)] /\ SortedInv'
         /\ \A t \in Streams : t # st => Held(t)' = Held(t)
         /\ Held(st)' = Held(st) \cup {e}
<1> DEFINE s == streams[st]
<1>1. s \in Seq(Ops) /\ Len(s) \in Nat /\ DOMAIN s = 1 .. Len(s)
  BY DEF CoreType
<1>2. /\ Append(s, e) \in Seq(Ops) /\ DOMAIN Append(s, e) = 1 .. Len(s) + 1
      /\ \A k \in 1 .. Len(s) : Append(s, e)[k] = s[k]
      /\ Append(s, e)[Len(s) + 1] = e
  BY <1>1
<1>3. \A t \in Streams : streams'[t] = IF t = st THEN Append(s, e) ELSE streams[t]
  BY DEF CoreType
<1>4. streams' \in [Streams -> Seq(Ops)]
  BY <1>2 DEF CoreType
<1>6. Held(st) = {s[k] : k \in 1 .. Len(s)}
  BY <1>1 DEF Held
<1> HIDE DEF s
<1>5. SortedInv'
  <2> SUFFICES ASSUME NEW t \in Streams, NEW j \in DOMAIN streams'[t], NEW k \in DOMAIN streams'[t],
                      j < k
               PROVE  Before(streams'[t][j].at, streams'[t][k].at)
    BY DEF SortedInv
  <2>1. CASE t # st
    BY <1>3, <2>1 DEF SortedInv
  <2>2. CASE t = st
    <3>1. streams'[t] = Append(s, e)
      BY <1>3, <2>2
    <3>2. j \in 1 .. Len(s) /\ k \in 1 .. Len(s) + 1 /\ Append(s, e)[j] = s[j]
      BY <1>1, <1>2, <3>1
    <3>3. CASE k \in 1 .. Len(s)
      <4>1. Append(s, e)[k] = s[k] /\ j \in DOMAIN s /\ k \in DOMAIN s
        BY <1>1, <1>2, <3>2, <3>3
      <4> QED BY <3>1, <3>2, <4>1 DEF SortedInv, s
    <3>4. CASE k = Len(s) + 1
      <4>1. s[j] \in Held(st)
        BY <1>6, <3>2
      <4> QED BY <1>2, <3>1, <3>2, <3>4, <4>1
    <3> QED BY <1>1, <3>2, <3>3, <3>4
  <2> QED BY <2>1, <2>2
<1>7. Held(st)' = Held(st) \cup {e}
  <2>1. Held(st)' = {Append(s, e)[k] : k \in 1 .. Len(s) + 1}
    BY <1>2, <1>3 DEF Held
  <2>2. \A k \in 1 .. Len(s) + 1 : k \in 1 .. Len(s) \/ k = Len(s) + 1
    BY <1>1
  <2>3. 1 .. Len(s) \subseteq 1 .. Len(s) + 1 /\ Len(s) + 1 \in 1 .. Len(s) + 1
    BY <1>1
  <2> QED BY <1>2, <1>6, <2>1, <2>2, <2>3
<1>8. \A t \in Streams : t # st => Held(t)' = Held(t)
  BY <1>3 DEF Held
<1> QED BY <1>4, <1>5, <1>7, <1>8

-----------------------------------------------------------------------------
(* The streams while the device runs.                                      *)

\* The head of a stream comes before the rest of it.
LEMMA HeadFirst ==
  ASSUME ConfigInv, CoreType, EntryInv, SortedInv, NEW st \in Streams, streams[st] # << >>
  PROVE  /\ Head(streams[st]) \in Held(st)
         /\ \A e \in Held(st) : e = Head(streams[st]) \/ Before(Head(streams[st]).at, e.at)
         /\ \A p \in Places : Before(p, Head(streams[st]).at) => RunOut(st, p)
         /\ ~RunOut(st, Head(streams[st]).at)
<1> DEFINE s == streams[st]
<1>1. s \in Seq(Ops) /\ s # << >> /\ Len(s) >= 1 /\ DOMAIN s = 1 .. Len(s) /\ Head(s) = s[1]
  BY DEF CoreType
<1> HIDE DEF s
<1>2. Held(st) = {s[k] : k \in 1 .. Len(s)}
  BY <1>1 DEF Held, s
<1>3. \A e \in Held(st) : e = s[1] \/ Before(s[1].at, e.at)
  <2> SUFFICES ASSUME NEW k \in 1 .. Len(s), k # 1 PROVE Before(s[1].at, s[k].at)
    BY <1>2
  <2>1. 1 \in DOMAIN s /\ k \in DOMAIN s /\ 1 < k
    BY <1>1
  <2> QED BY <2>1 DEF SortedInv, s
<1>4. s[1] \in Held(st)
  BY <1>1, <1>2
<1>5. \A e \in Held(st) : e.at \in Places
  BY HeldEntry DEF CoreType
<1>6. \A p \in Places : Before(p, s[1].at) => RunOut(st, p)
  BY <1>3, <1>4, <1>5, HeldRunOut, Order
<1>7. ~RunOut(st, s[1].at)
  BY <1>4, <1>5, HeldRunOut, Order
<1>8. Head(streams[st]) = s[1]
  BY <1>1 DEF s
<1> QED BY <1>3, <1>4, <1>6, <1>7, <1>8

\* What is behind x has run only if x has.
LEMMA OrderedRan ==
  ASSUME ConfigInv, StreamsInv, NEW x, NEW y, x.at \in Places, y.at \in Places,
         y.at[1] \in 0 .. request, x.st \in Streams, y.st \in Streams,
         Before(x.at, y.at), Ordered(x, y), Issued(y),
         \A p \in Places : Before(p, y.at) => RunOut(y.st, p)
  PROVE  RunOut(x.st, x.at)
<1>1. CASE x.st = y.st
  BY <1>1
<1>2. CASE x.st # y.st
  <2>1. PICK w \in Waits(y.at[1]) :
          w.st = y.st /\ On(w) = x.st /\ Before(w.at, y.at) /\ ~Before(Target(w), x.at)
    BY <1>2 DEF Ordered
  <2>2. y.at[1] \in Nat
    BY DEF StreamsInv, CoreType
  <2>3. w.at \in Places /\ w.at[1] = y.at[1] /\ Target(w) \in Places
    BY <2>2, WaitShape
  <2>4. RunOut(w.st, w.at)
    BY <2>1, <2>3
  <2>5. Issued(w)
    <3>1. CASE y.at[1] = request /\ ~Before(at, y.at)
      <4>1. at \in Places
        BY DEF StreamsInv, CoreType
      <4>2. ~Before(at, w.at)
        BY <2>1, <2>3, <3>1, <4>1, Order
      <4> QED BY <2>3, <3>1, <4>2 DEF Issued
    <3>2. ASSUME NEW t \in Streams, NEW e \in Held(t), e.at[1] = y.at[1], ~Before(e.at, y.at)
          PROVE  Issued(w)
      <4>1. e.at \in Places
        BY HeldEntry DEF StreamsInv, CoreType
      <4>2. ~Before(e.at, w.at)
        BY <2>1, <2>3, <3>2, <4>1, Order
      <4> QED BY <2>3, <3>2, <4>2 DEF Issued
    <3> QED BY <3>1, <3>2 DEF Issued
  <2>6. RunOut(x.st, Target(w))
    BY <2>1, <2>4, <2>5 DEF StreamsInv, WaitInv
  <2>7. \A e \in Held(x.st) : Before(x.at, e.at)
    <3> TAKE e \in Held(x.st)
    <3>1. e.at \in Places
      BY HeldEntry DEF StreamsInv, CoreType
    <3>2. Before(Target(w), e.at)
      BY <2>6, HeldRunOut
    <3> QED BY <2>1, <2>3, <3>1, <3>2, Order
  <2> QED BY <2>7, HeldRunOut
<1> QED BY <1>1, <1>2

\* The call at the head of a stream.
LEMMA HeadCall ==
  ASSUME ConfigInv, StreamsInv, NEW st \in Streams, streams[st] # << >>
  PROVE  \E q \in 0 .. request : \E c \in Enqueued(q) :
           /\ Head(streams[st]) = Entry(c) /\ c.st = st /\ c.at = Head(streams[st]).at
           /\ c.at \in Places /\ c.at[1] = q /\ q \in Nat /\ Issued(c) /\ ~Before(at, c.at)
           /\ (\A p \in Places : Before(p, c.at) => RunOut(st, p)) /\ ~RunOut(st, c.at)
<1> DEFINE op == Head(streams[st])
<1>1. op \in Held(st) /\ (\A p \in Places : Before(p, op.at) => RunOut(st, p)) /\ ~RunOut(st, op.at)
  BY HeadFirst DEF StreamsInv
<1> HIDE DEF op
<1>2. /\ op.at \in Places /\ op.at[1] \in 0 .. request /\ ~Before(at, op.at)
      /\ \E c \in Enqueued(op.at[1]) : op = Entry(c) /\ c.st = st /\ c.at = op.at
  BY <1>1, HeldEntry DEF StreamsInv, CoreType
<1>3. PICK c \in Enqueued(op.at[1]) : op = Entry(c) /\ c.st = st /\ c.at = op.at
  BY <1>2
<1>4. ~Before(op.at, c.at)
  BY <1>2, <1>3, Order
<1>5. Issued(c)
  BY <1>1, <1>3, <1>4, HeldIssued
<1>6. op.at[1] \in Nat
  BY <1>2 DEF StreamsInv, CoreType
<1> QED BY <1>1, <1>2, <1>3, <1>5, <1>6 DEF op

\* What has run because the head of a stream was taken is the head.
LEMMA Retired ==
  ASSUME ConfigInv, StreamsInv, NEW st \in Streams, streams[st] # << >>,
         streams' = [streams EXCEPT ![st] = Tail(@)],
         NEW q \in 0 .. request, NEW c \in Enqueued(q), Issued(c),
         ~RunOut(c.st, c.at), RunOut(c.st, c.at)'
  PROVE  c.st = st /\ c.at = Head(streams[st]).at
<1>0. c \in Calls(q) /\ c.do # "record" /\ q \in Nat
  BY DEF Enqueued, StreamsInv, CoreType
<1>1. c.at \in Places /\ c.st \in Streams
  BY <1>0, CallShape DEF Shaped
<1>2. PICK e \in Held(c.st) : e.at = c.at
  BY DEF StreamsInv, CompleteInv, Pending
<1>3. e \notin Held(c.st)'
  <2>1. SUFFICES ASSUME e \in Held(c.st)' PROVE FALSE
    OBVIOUS
  <2>2. PICK k \in DOMAIN streams'[c.st] : e = streams'[c.st][k]
    BY <2>1 DEF Held
  <2>3. Before(c.at, e.at)
    BY <2>2 DEF RunOut
  <2> QED BY <1>1, <1>2, <2>3, Order
<1>4. c.st = st
  <2>1. SUFFICES ASSUME c.st # st PROVE FALSE
    OBVIOUS
  <2>2. Held(c.st)' = Held(c.st)
    BY <1>1, <2>1, Popped DEF StreamsInv
  <2> QED BY <1>2, <1>3, <2>2
<1>5. e = Head(streams[st])
  <2>1. \A d \in Held(st) : d = Head(streams[st]) \/ d \in Held(st)'
    BY Popped DEF StreamsInv
  <2> QED BY <1>2, <1>3, <1>4, <2>1
<1> QED BY <1>2, <1>4, <1>5

\* Running the head of a stream keeps the order of the streams.
LEMMA RunKeepsStreams ==
  ASSUME ConfigInv, StreamsInv, NEW st \in Streams, Run(st)
  PROVE  StreamsInv' /\ ConfigInv'
<1>1. /\ streams[st] # << >> /\ streams' = [streams EXCEPT ![st] = Tail(@)]
      /\ UNCHANGED config /\ request' = request /\ at' = at /\ event' = event
  BY DEF Run, hostVars
<1>2. ConfigInv' /\ \A r : Calls(r)' = Calls(r)
  BY <1>1, CallsKept
<1>3. \A r : Enqueued(r)' = Enqueued(r) /\ Waits(r)' = Waits(r)
  BY <1>2 DEF Enqueued, Waits
<1>4. /\ streams' \in [Streams -> Seq(Ops)] /\ SortedInv'
      /\ Head(streams[st]) \in Held(st)
      /\ \A t \in Streams : Held(t)' \subseteq Held(t)
      /\ \A t \in Streams : t # st => Held(t)' = Held(t)
      /\ \A e \in Held(st) : e = Head(streams[st]) \/ e \in Held(st)'
      /\ \A e \in Held(st)' : Before(Head(streams[st]).at, e.at)
  BY <1>1, Popped DEF StreamsInv
<1>5. CoreType'
  <2>1. Ops' = Ops
    BY <1>3 DEF Ops, Entry, Wait, On, Target
  <2>2. mem' = [c \in Cells |-> mem'[c]]
    BY DEF Run, StreamsInv, CoreType
  <2> QED BY <1>1, <1>4, <2>1, <2>2 DEF StreamsInv, CoreType, Cells, Cell
<1>6. EntryInv'
  BY <1>1, <1>3, <1>4 DEF StreamsInv, EntryInv, Entry, Wait, On, Target
<1>7. \A c : Issued(c)' => Issued(c)
  BY <1>1, <1>4 DEF Issued
<1>8. \A t \in Streams : \A p : RunOut(t, p) => RunOut(t, p)'
  <2> SUFFICES ASSUME NEW t \in Streams, NEW p, RunOut(t, p) PROVE RunOut(t, p)'
    OBVIOUS
  <2>1. \A e \in Held(t)' : Before(p, e.at)
    BY <1>4, HeldRunOut
  <2> QED BY <2>1 DEF RunOut, Held
<1>9. CompleteInv'
  <2> SUFFICES ASSUME NEW r \in 0 .. request, NEW c \in Enqueued(r), Issued(c)
               PROVE  RunOut(c.st, c.at)' \/ Pending(c)'
    BY <1>1, <1>3, <1>7 DEF CompleteInv
  <2>1. c.st \in Streams
    BY CallShape DEF Enqueued, StreamsInv, CoreType
  <2>2. CASE RunOut(c.st, c.at)
    BY <1>8, <2>1, <2>2
  <2>3. CASE Pending(c)
    <3>1. PICK e \in Held(c.st) : e.at = c.at
      BY <2>3 DEF Pending
    <3>2. CASE e \in Held(c.st)'
      BY <3>1, <3>2 DEF Pending
    <3>3. CASE e \notin Held(c.st)'
      <4>1. c.st = st /\ e = Head(streams[st])
        BY <1>4, <2>1, <3>1, <3>3
      <4>2. \A d \in Held(c.st)' : Before(c.at, d.at)
        BY <1>4, <3>1, <4>1
      <4> QED BY <4>2 DEF RunOut, Held
    <3> QED BY <3>2, <3>3
  <2> QED BY <2>2, <2>3 DEF StreamsInv, CompleteInv
<1>10. WaitInv'
  <2> SUFFICES ASSUME NEW r \in 0 .. request, NEW w \in Waits(r), Issued(w), RunOut(w.st, w.at)'
               PROVE  RunOut(On(w), Target(w))'
    BY <1>1, <1>3, <1>7 DEF WaitInv, On, Target
  <2>0. r \in Nat
    BY DEF StreamsInv, CoreType
  <2>1. w \in Enqueued(r) /\ On(w) \in Streams /\ w \in Calls(r)
    BY <2>0, WaitShape DEF Waits
  <2>2. RunOut(On(w), Target(w))
    <3>1. CASE RunOut(w.st, w.at)
      BY <3>1 DEF StreamsInv, WaitInv
    <3>2. CASE ~RunOut(w.st, w.at)
      <4>1. w.st = st /\ w.at = Head(streams[st]).at
        BY <1>1, <2>1, <3>2, Retired
      <4>2. PICK q \in 0 .. request : \E c \in Enqueued(q) :
              /\ Head(streams[st]) = Entry(c) /\ c.at = Head(streams[st]).at
              /\ c.at[1] = q /\ q \in Nat
        BY <1>1, HeadCall
      <4>3. PICK c \in Enqueued(q) :
              Head(streams[st]) = Entry(c) /\ c.at = w.at /\ c.at[1] = q
        BY <4>1, <4>2
      <4>4. q = r
        BY <2>0, <4>3, WaitShape
      <4>5. c \in Calls(r) /\ c.do = w.do /\ On(c) = On(w) /\ Target(c) = Target(w)
        <5>1. c \in Calls(r)
          BY <4>3, <4>4 DEF Enqueued
        <5>2. w.do \in {"wait_stream", "wait_event"}
          BY DEF Waits
        <5> QED BY <2>0, <2>1, <4>3, <5>1, <5>2, SamePlace
      <4>6. c \in Waits(r)
        BY <4>5 DEF Waits
      <4>7. Head(streams[st]).do = "wait" /\ Head(streams[st]).on = On(w)
            /\ Head(streams[st]).upto = Target(w)
        BY <2>0, <4>3, <4>4, <4>5, <4>6, EntryShape
      <4> QED BY <4>7 DEF Run
    <3> QED BY <3>1, <3>2
  <2> QED BY <1>8, <2>1, <2>2
<1> QED BY <1>2, <1>4, <1>5, <1>6, <1>9, <1>10 DEF StreamsInv

-----------------------------------------------------------------------------
(* The memory while the device runs.                                       *)

\* What Run(st) adds to what has run of the current request is the call at the head.
LEMMA NewlyRan ==
  ASSUME ConfigInv, StreamsInv, NEW st \in Streams, Run(st),
         NEW x \in Enqueued(request), Ran(x)', ~Ran(x)
  PROVE  LET op == Head(streams[st])
         IN  /\ x.st = st /\ x.at = op.at
             /\ op.do = IF x.do \in {"launch", "grow"} THEN x.do ELSE "wait"
             /\ x.do \in {"launch", "grow"} => op \in Enqueued(request)
             /\ x.do = "launch" => op.cell = x.cell /\ op.tag = x.tag
<1>1. /\ streams[st] # << >> /\ streams' = [streams EXCEPT ![st] = Tail(@)]
      /\ at' = at
  BY DEF Run, hostVars
<1>r. request \in Nat /\ request \in 0 .. request
  BY DEF StreamsInv, CoreType
<1>2. ~Before(at, x.at) /\ RunOut(x.st, x.at)' /\ ~RunOut(x.st, x.at)
  BY <1>1 DEF Ran
<1>3. x \in Calls(request) /\ x.do # "record" /\ x.at \in Places /\ x.at[1] = request
  BY <1>r, CallShape DEF Enqueued, Shaped
<1>4. Issued(x)
  BY <1>2, <1>3 DEF Issued
<1>5. x.st = st /\ x.at = Head(streams[st]).at
  BY <1>1, <1>2, <1>4, <1>r, Retired
<1>6. PICK q \in 0 .. request : \E c \in Enqueued(q) :
        Head(streams[st]) = Entry(c) /\ c.at = Head(streams[st]).at /\ c.at[1] = q
  BY <1>1, HeadCall
<1>7. PICK c \in Enqueued(q) : Head(streams[st]) = Entry(c) /\ c.at = x.at /\ c.at[1] = q
  BY <1>5, <1>6
<1>8. c \in Enqueued(request) /\ c \in Calls(request)
  BY <1>3, <1>7 DEF Enqueued
<1>9. c.do = x.do /\ (x.do = "launch" => c.cell = x.cell /\ c.tag = x.tag)
  BY <1>r, <1>3, <1>7, <1>8, SamePlace
<1>10. CASE x.do \in {"launch", "grow"}
  BY <1>r, <1>5, <1>7, <1>8, <1>9, <1>10, EntryShape
<1>11. CASE x.do \notin {"launch", "grow"}
  <2>1. c \in Waits(request)
    BY <1>r, <1>8, <1>9, <1>11, EntryShape DEF Launches
  <2> QED BY <1>r, <1>5, <1>7, <1>8, <2>1, <1>11, EntryShape
<1> QED BY <1>10, <1>11

\* What has run stays so.
LEMMA StillRan ==
  ASSUME StreamsInv, NEW st \in Streams, Run(st), NEW x, x.st \in Streams, Ran(x)
  PROVE  Ran(x)'
<1>1. /\ streams[st] # << >> /\ streams' = [streams EXCEPT ![st] = Tail(@)] /\ at' = at
  BY DEF Run, hostVars
<1>2. \A t \in Streams : Held(t)' \subseteq Held(t)
  BY <1>1, Popped DEF StreamsInv
<1>3. \A e \in Held(x.st)' : Before(x.at, e.at)
  BY <1>2, HeldRunOut DEF Ran
<1> QED BY <1>1, <1>3 DEF Ran, RunOut, Held

\* What has run stays behind nothing that waits.
LEMMA RanBehind ==
  ASSUME ConfigInv, StreamsInv, NEW y \in Launches(request), Ran(y)
  PROVE  /\ Issued(y) /\ RunOut(y.st, y.at)
         /\ \A p \in Places : Before(p, y.at) => RunOut(y.st, p)
<1>1. request \in Nat
  BY DEF StreamsInv, CoreType
<1>2. y.at \in Places /\ y.st \in Streams /\ y.at[1] = request /\ y \in Calls(request)
  BY <1>1, CallShape DEF Launches, Shaped
<1>3. Issued(y) /\ RunOut(y.st, y.at)
  BY <1>2 DEF Ran, Issued
<1>4. ASSUME NEW p \in Places, Before(p, y.at) PROVE RunOut(y.st, p)
  <2>1. ASSUME NEW e \in Held(y.st) PROVE Before(p, e.at)
    <3>1. e.at \in Places
      BY <1>1, <1>2, HeldEntry DEF StreamsInv
    <3>2. Before(y.at, e.at)
      BY <1>2, <1>3, HeldRunOut
    <3> QED BY <1>2, <1>4, <3>1, <3>2, Order
  <2> QED BY <1>2, <2>1, HeldRunOut
<1> QED BY <1>3, <1>4

\* The operation at a head finds what it reads.
LEMMA ReadsFound ==
  ASSUME CoreInv, NEW st \in Streams, streams[st] # << >>, NEW op, op = Head(streams[st]),
         op \in Launches(request), NEW c \in op.reads
  PROVE  mem[c.cell] = c.tag
<1>1. request \in Nat /\ request \in 0 .. request /\ at \in Places
  BY DEF CoreInv, StreamsInv, CoreType
<1>2. op \in Calls(request) /\ op.do = "launch" /\ op.at \in Places /\ op.at[1] = request
      /\ op.st \in Streams
  BY <1>1, CallShape DEF Launches, Shaped, CoreInv
<1>3. PICK q \in 0 .. request : \E d \in Enqueued(q) :
        /\ op = Entry(d) /\ d.st = st /\ d.at = op.at /\ d.at[1] = q
        /\ Issued(d) /\ ~Before(at, d.at)
        /\ (\A p \in Places : Before(p, d.at) => RunOut(st, p)) /\ ~RunOut(st, d.at)
  BY HeadCall DEF CoreInv
<1>4. PICK d \in Enqueued(q) :
        /\ op = Entry(d) /\ d.st = st /\ d.at = op.at /\ d.at[1] = q
        /\ Issued(d) /\ ~Before(at, d.at)
        /\ (\A p \in Places : Before(p, d.at) => RunOut(st, p)) /\ ~RunOut(st, d.at)
  BY <1>3
<1>5. op.st = st
  <2>1. d \in Calls(request) /\ d.do # "record"
    BY <1>2, <1>4 DEF Enqueued
  <2> QED BY <1>1, <1>2, <1>4, <2>1, SamePlace DEF CoreInv
<1>6. /\ ~Before(at, op.at) /\ Issued(op) /\ ~RunOut(op.st, op.at)
      /\ \A p \in Places : Before(p, op.at) => RunOut(op.st, p)
  BY <1>1, <1>2, <1>4, <1>5 DEF Issued
<1>7. Fed(c, op, request) /\ Intact(c, op, request)
  BY <1>1, ReadsFed DEF CoreInv
<1>8. ASSUME NEW x \in Launches(request), x.cell = c.cell, x.tag = c.tag, Before(x.at, op.at),
             Ordered(x, op),
             \A z \in Launches(request) : z.cell = c.cell /\ Before(x.at, z.at) => ~Before(z.at, op.at)
      PROVE  mem[c.cell] = c.tag
  <2>1. x.at \in Places /\ x.st \in Streams
    BY <1>1, CallShape DEF Launches, Shaped, CoreInv
  <2>2. RunOut(x.st, x.at)
    BY <1>1, <1>2, <1>6, <1>8, <2>1, OrderedRan DEF CoreInv
  <2>3. Ran(x)
    BY <1>1, <1>2, <1>6, <1>8, <2>1, <2>2, Order DEF Ran
  <2>4. ASSUME NEW y \in Launches(request), y.cell = x.cell, Before(x.at, y.at), Ran(y)
        PROVE  FALSE
    <3>1. y.at \in Places /\ y.st \in Streams /\ y.at[1] = request /\ y \in Calls(request)
      BY <1>1, CallShape DEF Launches, Shaped, CoreInv
    <3>2. ~Before(y.at, op.at)
      BY <1>8, <2>4
    <3>3. y.at # op.at
      <4>1. SUFFICES ASSUME y.at = op.at PROVE FALSE
        OBVIOUS
      <4>2. y.st = op.st
        BY <1>1, <1>2, <3>1, <4>1, SamePlace DEF CoreInv
      <4> QED BY <1>6, <2>4, <4>1, <4>2 DEF Ran
    <3>4. Before(op.at, y.at)
      BY <1>2, <3>1, <3>2, <3>3, Order
    <3>5. Ordered(op, y)
      BY <1>7, <1>8, <2>4, <3>4 DEF Intact
    <3>6. /\ Issued(y) /\ RunOut(y.st, y.at)
          /\ \A p \in Places : Before(p, y.at) => RunOut(y.st, p)
      BY <2>4, RanBehind DEF CoreInv
    <3>8. RunOut(op.st, op.at)
      BY <1>1, <1>2, <3>1, <3>4, <3>5, <3>6, OrderedRan DEF CoreInv
    <3> QED BY <1>6, <3>8
  <2> QED BY <1>8, <2>3, <2>4 DEF CoreInv, MemInv
<1>9. ASSUME NEW i \in 1 .. Layers, c = Kv("grown", request, i),
             NEW g \in Calls(request), g.do = "grow", g.st = op.st, Before(g.at, op.at)
      PROVE  mem[c.cell] = c.tag
  <2>1. g.at \in Places
    BY <1>1, CallShape DEF Shaped, CoreInv
  <2>2. Ran(g)
    BY <1>1, <1>2, <1>6, <1>9, <2>1, Order DEF Ran
  <2>3. c.cell = <<"grown", i>> /\ c.tag = <<request, 0, i>>
    BY <1>9 DEF Kv, Is
  <2> QED BY <1>9, <2>2, <2>3 DEF CoreInv, GrownInv
<1> QED BY <1>7, <1>8, <1>9 DEF Fed

\* What is at a head has not run, so nothing that is behind it has.
LEMMA NotBehindHead ==
  ASSUME CoreInv, NEW st \in Streams, streams[st] # << >>, NEW q \in 0 .. request,
         NEW op \in Launches(q), op = Head(streams[st]),
         NEW y \in Launches(request), y.cell = op.cell, Before(op.at, y.at)
  PROVE  op.st = st /\ ~Ran(y)
<1>1. request \in Nat /\ q \in Nat /\ at \in Places
  BY DEF CoreInv, StreamsInv, CoreType
<1>2. op \in Calls(q) /\ op.do = "launch" /\ op.at \in Places /\ op.at[1] = q /\ op.st \in Streams
  BY <1>1, CallShape DEF Launches, Shaped, CoreInv
<1>3. PICK k \in 0 .. request : \E d \in Enqueued(k) :
        op = Entry(d) /\ d.st = st /\ d.at = op.at /\ d.at[1] = k /\ ~RunOut(st, d.at)
  BY HeadCall DEF CoreInv
<1>4. PICK d \in Enqueued(q) : d.st = st /\ d.at = op.at /\ ~RunOut(st, d.at)
  BY <1>2, <1>3
<1>5. op.st = st
  <2>1. d \in Calls(q) /\ d.do # "record"
    BY <1>4 DEF Enqueued
  <2> QED BY <1>1, <1>2, <1>4, <2>1, SamePlace DEF CoreInv
<1>6. ASSUME Ran(y) PROVE FALSE
  <2>1. y.at \in Places /\ y.at[1] = request /\ y.st \in Streams /\ request \in 0 .. request
    BY <1>1, CallShape DEF Launches, Shaped, CoreInv
  <2>2. Ordered(op, y)
    BY <1>1, WritesOrdered DEF CoreInv
  <2>3. /\ Issued(y) /\ \A p \in Places : Before(p, y.at) => RunOut(y.st, p)
    BY <1>6, RanBehind DEF CoreInv
  <2>4. RunOut(op.st, op.at)
    BY <1>2, <2>1, <2>2, <2>3, OrderedRan DEF CoreInv
  <2> QED BY <1>4, <1>5, <2>4
<1> QED BY <1>5, <1>6

\* The memory after the operation at a head.
LEMMA RunKeepsMem ==
  ASSUME CoreInv, NEW st \in Streams, Run(st), NEW op, op = Head(streams[st])
  PROVE  MemInv' /\ GrownInv'
<1>1. /\ streams[st] # << >> /\ UNCHANGED config /\ request' = request
      /\ mem = [c \in Cells |-> mem[c]] /\ request \in Nat /\ request \in 0 .. request
      /\ ConfigInv /\ StreamsInv
  BY DEF Run, hostVars, CoreInv, StreamsInv, CoreType
<1>2. Launches(request)' = Launches(request) /\ Calls(request)' = Calls(request)
  BY <1>1, CallsKept DEF Launches
<1>3. \/ op.do = "wait" /\ mem' = mem
      \/ /\ op.do = "launch"
         /\ mem' = [mem EXCEPT ![op.cell] =
                      IF \A x \in op.reads : mem[x.cell] = x.tag THEN op.tag ELSE Bad]
      \/ /\ op.do = "grow"
         /\ mem' = [c \in Cells |-> IF c[1] = "grown" THEN mem[<<"kv", c[2]>>] ELSE mem[c]]
  BY DEF Run
<1>4. PICK q \in 0 .. request : \E d \in Enqueued(q) :
        /\ op = Entry(d) /\ d.st = st /\ d.at = op.at /\ d.at[1] = q /\ d.at \in Places
        /\ ~Before(at, d.at)
        /\ (\A p \in Places : Before(p, d.at) => RunOut(st, p)) /\ ~RunOut(st, d.at)
  BY <1>1, HeadCall
<1>5. PICK d \in Enqueued(q) :
        /\ op = Entry(d) /\ d.st = st /\ d.at = op.at /\ d.at[1] = q /\ d.at \in Places
        /\ ~Before(at, d.at)
        /\ (\A p \in Places : Before(p, d.at) => RunOut(st, p)) /\ ~RunOut(st, d.at)
  BY <1>4
<1>6. op.do \in {"launch", "grow"} => op = d /\ op \in Calls(q) /\ op.do # "record"
  <2>1. q \in Nat
    BY <1>1
  <2>2. d \in Waits(q) => op.do = "wait"
    BY <1>1, <1>5, <2>1, EntryShape
  <2>3. d \in Launches(q) \/ d.do = "grow" => op = d
    BY <1>1, <1>5, <2>1, EntryShape DEF Launches
  <2> QED BY <1>1, <1>5, <2>1, <2>2, <2>3, EntryShape DEF Enqueued
\* Of the operations of the request, only the head may be new.
<1>7. ASSUME NEW x \in Launches(request), Ran(x)', ~Ran(x)
      PROVE  /\ op \in Launches(request) /\ op.at = x.at /\ op.cell = x.cell /\ op.tag = x.tag
             /\ op.do = "launch"
  <2>1. x \in Enqueued(request) /\ x.do = "launch"
    BY DEF Launches, Enqueued
  <2> QED BY <1>1, <1>7, <2>1, NewlyRan DEF Launches, Enqueued
<1>8. \A x \in Launches(request) : Ran(x) => Ran(x)'
  <2> SUFFICES ASSUME NEW x \in Launches(request), Ran(x) PROVE Ran(x)'
    OBVIOUS
  <2>1. x.st \in Streams
    BY <1>1, CallShape DEF Launches
  <2> QED BY <1>1, <2>1, StillRan
<1>9. \A x \in Launches(request) : x.cell \in Cells /\ x.cell[1] # "grown"
  BY <1>1, CallShape DEF Launches, Written
<1>10. \A g \in Calls(request) : g.do = "grow" /\ Ran(g)' /\ ~Ran(g) =>
         op \in Calls(request) /\ op.do = "grow"
  <2> SUFFICES ASSUME NEW g \in Calls(request), g.do = "grow", Ran(g)', ~Ran(g)
               PROVE  op \in Calls(request) /\ op.do = "grow"
    OBVIOUS
  <2>1. g \in Enqueued(request)
    BY DEF Enqueued
  <2> QED BY <1>1, <2>1, NewlyRan DEF Enqueued
<1>w. CASE op.do = "wait"
  <2>1. mem' = mem
    BY <1>3, <1>w
  <2>2. MemInv'
    <3> SUFFICES ASSUME NEW x \in Launches(request), Ran(x)'
                 PROVE  \/ mem[x.cell] = x.tag
                        \/ \E y \in Launches(request) :
                             y.cell = x.cell /\ Before(x.at, y.at) /\ Ran(y)'
      BY <1>1, <1>2, <2>1 DEF MemInv
    <3>1. Ran(x)
      BY <1>7, <1>w
    <3> QED BY <1>8, <3>1 DEF CoreInv, MemInv
  <2>3. GrownInv'
    BY <1>1, <1>2, <1>10, <1>w, <2>1 DEF CoreInv, GrownInv
  <2> QED BY <2>2, <2>3
<1>l. CASE op.do = "launch"
  <2>1. op \in Launches(q) /\ q \in Nat
    BY <1>1, <1>6, <1>l DEF Launches
  <2>2. op.cell \in Cells /\ op.cell[1] # "grown" /\ op.at \in Places /\ op.at[1] = q
    BY <1>1, <2>1, CallShape DEF Launches, Written, Shaped
  <2>3. /\ mem'[op.cell] = IF \A x \in op.reads : mem[x.cell] = x.tag THEN op.tag ELSE Bad
        /\ \A c \in Cells : c # op.cell => mem'[c] = mem[c]
    BY <1>1, <1>3, <1>l, <2>2
  <2>4. MemInv'
    <3> SUFFICES ASSUME NEW x \in Launches(request), Ran(x)'
                 PROVE  \/ mem'[x.cell] = x.tag
                        \/ \E y \in Launches(request) :
                             y.cell = x.cell /\ Before(x.at, y.at) /\ Ran(y)'
      BY <1>1, <1>2 DEF MemInv
    <3>1. CASE ~Ran(x)
      <4>1. op \in Launches(request) /\ op.cell = x.cell /\ op.tag = x.tag
        BY <1>7, <3>1
      <4>2. \A c \in op.reads : mem[c.cell] = c.tag
        BY <1>1, <4>1, ReadsFound
      <4> QED BY <2>3, <4>1, <4>2
    <3>2. CASE Ran(x) /\ x.cell # op.cell
      BY <1>8, <1>9, <2>3, <3>2 DEF CoreInv, MemInv
    <3>3. CASE Ran(x) /\ x.cell = op.cell
      <4>1. x.at \in Places /\ x.at[1] = request /\ x \in Calls(request) /\ x.do = "launch"
        BY <1>1, CallShape DEF Launches, Shaped
      <4>2. ~Before(op.at, x.at)
        BY <1>1, <2>1, <3>3, NotBehindHead
      <4>3. q = request
        BY <1>1, <2>2, <4>1, <4>2, Order
      <4>4. op.st = st
        BY <1>5, <1>6, <1>l
      <4>5. op.at # x.at
        <5>1. SUFFICES ASSUME op.at = x.at PROVE FALSE
          OBVIOUS
        <5>2. x.st = op.st
          BY <1>1, <1>6, <1>l, <4>1, <4>3, <5>1, SamePlace
        <5> QED BY <1>5, <3>3, <4>4, <5>1, <5>2 DEF Ran
      <4>6. Before(x.at, op.at)
        BY <2>2, <4>1, <4>2, <4>5, Order
      <4>7. Ran(op)'
        <5>1. \A e \in Held(st)' : Before(op.at, e.at)
          BY <1>1, Popped DEF Run, StreamsInv
        <5>2. ~Before(at', op.at)
          BY <1>5 DEF Run, hostVars
        <5> QED BY <4>4, <5>1, <5>2 DEF Ran, RunOut, Held
      <4> QED BY <2>1, <3>3, <4>3, <4>6, <4>7
    <3> QED BY <3>1, <3>2, <3>3
  <2>5. GrownInv'
    <3> SUFFICES ASSUME NEW g \in Calls(request), g.do = "grow", Ran(g)', NEW i \in 1 .. Layers
                 PROVE  mem'[<<"grown", i>>] = <<request, 0, i>>
      BY <1>1, <1>2 DEF GrownInv
    <3>1. Ran(g)
      BY <1>10, <1>l
    <3>2. <<"grown", i>> \in Cells
      BY DEF Cells
    <3>3. <<"grown", i>> # op.cell
      BY <2>2
    <3> QED BY <2>3, <3>1, <3>2, <3>3 DEF CoreInv, GrownInv
  <2> QED BY <2>4, <2>5
<1>g. CASE op.do = "grow"
  <2>1. op \in Calls(q) /\ q \in Nat /\ op = d
    BY <1>1, <1>6, <1>g
  <2>2. IsGrow(op, q)
    BY <1>1, <1>g, <2>1, GrowIs
  <2>3. op.at = <<q, 3, 1, 13>> /\ op.st = "main" /\ st = "main"
    BY <1>5, <2>1, <2>2 DEF IsGrow, Grow
  <2>4. mem' = [c \in Cells |-> IF c[1] = "grown" THEN mem[<<"kv", c[2]>>] ELSE mem[c]]
    BY <1>3, <1>g
  <2>5. MemInv'
    <3> SUFFICES ASSUME NEW x \in Launches(request), Ran(x)'
                 PROVE  \/ mem'[x.cell] = x.tag
                        \/ \E y \in Launches(request) :
                             y.cell = x.cell /\ Before(x.at, y.at) /\ Ran(y)'
      BY <1>1, <1>2 DEF MemInv
    <3>1. Ran(x)
      BY <1>7, <1>g
    <3>2. mem'[x.cell] = mem[x.cell]
      BY <1>9, <2>4
    <3> QED BY <1>8, <3>1, <3>2 DEF CoreInv, MemInv
  <2>6. GrownInv'
    <3> SUFFICES ASSUME NEW g \in Calls(request), g.do = "grow", Ran(g)', NEW i \in 1 .. Layers
                 PROVE  mem'[<<"grown", i>>] = <<request, 0, i>>
      BY <1>1, <1>2 DEF GrownInv
    <3>1. IsGrow(g, request)
      BY <1>1, GrowIs
    <3>2. g.at = <<request, 3, 1, 13>> /\ g.st = "main"
      BY <3>1 DEF IsGrow, Grow
    <3>3. q = request
      <4>1. SUFFICES ASSUME q # request PROVE FALSE
        OBVIOUS
      <4>2. Ran(g)
        <5>1. SUFFICES ASSUME ~Ran(g) PROVE FALSE
          OBVIOUS
        <5>2. op \in Calls(request)
          BY <1>10, <5>1
        <5>3. op.at[1] = request
          BY <1>1, <5>2, CallShape DEF Shaped
        <5> QED BY <2>3, <4>1, <5>3
      <4>3. RunOut("main", g.at) /\ op \in Held("main")
        BY <1>1, <2>3, <3>2, <4>2, HeadFirst DEF Ran, StreamsInv
      <4>4. Before(g.at, op.at)
        BY <4>3, HeldRunOut DEF Streams
      <4> QED BY <1>1, <2>3, <3>2, <4>1, <4>4 DEF Before
    <3>4. PICK x \in Launches(request) : IsKv(x, request, i)
      BY <1>1, Made
    <3>5. x.at = <<request, 1, i, 9>> /\ x.st = "main" /\ x.cell = <<"kv", i>>
          /\ x.tag = <<request, 0, i>>
      BY <3>4 DEF IsKv
    <3>6. x.at \in Places /\ Before(x.at, op.at)
      BY <1>1, <2>3, <3>3, <3>5 DEF Before, Places
    <3>7. Ran(x)
      <4>1. at \in Places
        BY <1>1 DEF StreamsInv, CoreType
      <4>2. RunOut("main", x.at) /\ ~Before(at, x.at)
        BY <1>5, <2>3, <3>6, <4>1, Order
      <4> QED BY <3>5, <4>2 DEF Ran
    <3>8. ASSUME NEW y \in Launches(request), y.cell = x.cell, Before(x.at, y.at) PROVE FALSE
      <4>1. IsKv(y, request, i)
        BY <1>1, <3>5, <3>8, WritersOf
      <4>2. y.at = x.at
        BY <3>5, <4>1 DEF IsKv
      <4> QED BY <3>6, <3>8, <4>2, Order
    <3>9. mem[<<"kv", i>>] = <<request, 0, i>>
      BY <3>5, <3>7, <3>8 DEF CoreInv, MemInv
    <3>10. <<"grown", i>> \in Cells
      BY DEF Cells
    <3> QED BY <2>4, <3>9, <3>10
  <2> QED BY <2>5, <2>6
<1> QED BY <1>3, <1>w, <1>l, <1>g

-----------------------------------------------------------------------------
(* The steps of the host.                                                  *)

\* What a host call does to the streams and the events.
LEMMA IssueStreams ==
  ASSUME CoreInv, Issue
  PROVE  \E call \in Calls(request) :
           /\ at' = call.at /\ call.at \in Places /\ call.at[1] = request
           /\ \A c \in Calls(request) : Before(at, c.at) => ~Before(c.at, call.at)
           /\ \A p \in Places : ~Before(at, p) => Before(p, call.at)
           /\ Before(at, call.at)
           /\ streams' \in [Streams -> Seq(Ops)] /\ SortedInv'
           /\ \A t \in Streams : Held(t) \subseteq Held(t)'
           /\ \A t \in Streams : \A e \in Held(t)' :
                e \in Held(t) \/ (e = Entry(call) /\ t = call.st /\ call.do # "record")
           /\ call.do # "record" => Entry(call) \in Held(call.st)' /\ event' = event
           /\ call.do = "record" => event' = [event EXCEPT ![call.layer] = call.at]
<1>1. request \in Nat /\ at \in Places /\ ConfigInv /\ CoreType /\ SortedInv /\ EntryInv
  BY DEF CoreInv, StreamsInv, CoreType
<1>2. PICK call \in NextCall :
       /\ at' = call.at
       /\ \/ /\ call.do \in {"launch", "grow"}
             /\ Enqueue(call.st, call)
             /\ UNCHANGED event
          \/ /\ call.do = "wait_stream"
             /\ Enqueue(call.st, Wait(call, call.on, call.at))
             /\ UNCHANGED event
          \/ /\ call.do = "wait_event"
             /\ Enqueue(call.st, Wait(call, "main", event[call.layer]))
             /\ UNCHANGED event
          \/ /\ call.do = "record"
             /\ event' = [event EXCEPT ![call.layer] = call.at]
             /\ UNCHANGED streams
  BY DEF Issue
<1>3. /\ call \in Calls(request) /\ Before(at, call.at)
      /\ \A c \in Calls(request) : Before(at, c.at) => ~Before(c.at, call.at)
  BY DEF NextCall, ToCome
<1>4. call.at \in Places /\ call.at[1] = request
  BY <1>1, <1>3, CallShape DEF Shaped
<1>5. \A p \in Places : ~Before(at, p) => Before(p, call.at)
  BY <1>1, <1>3, <1>4, Order
<1>6. CASE call.do # "record"
  <2>1. call \in Enqueued(request) /\ call.st \in Streams
    BY <1>1, <1>3, <1>6, CallShape DEF Enqueued
  <2>2. streams' = [streams EXCEPT ![call.st] = Append(@, Entry(call))] /\ event' = event
    <3>1. CASE call.do \in {"launch", "grow"}
      BY <1>2, <3>1 DEF Entry, Enqueue
    <3>2. CASE call.do = "wait_stream"
      BY <1>2, <3>2 DEF Entry, Enqueue, On, Target
    <3>3. CASE call.do = "wait_event"
      <4>1. /\ call.layer \in 1 .. Layers /\ overlap
            /\ call.at = <<request, 1, call.layer, 12>> /\ Target(call) = <<request, 1, call.layer, 11>>
            /\ Record(<<request, 1, call.layer, 11>>, call.layer) \in Calls(request)
        BY <1>1, <1>3, <3>3, RecordOf
      <4>2. Before(<<request, 1, call.layer, 11>>, call.at)
        BY <1>1, <4>1 DEF Before
      <4>3. ~Before(at, <<request, 1, call.layer, 11>>)
        BY <1>3, <4>1, <4>2 DEF Record
      <4>4. event[call.layer] = Target(call)
        BY <4>1, <4>3 DEF CoreInv, EventInv
      <4>5. On(call) = "main"
        BY <3>3 DEF On
      <4> QED BY <1>2, <3>3, <4>4, <4>5 DEF Entry, Enqueue
    <3> QED BY <1>2, <1>6, <3>1, <3>2, <3>3
  <2>3. Entry(call) \in Ops /\ Entry(call).at = call.at
    BY <1>1, <2>1, EntryShape DEF Ops
  <2>4. \A d \in Held(call.st) : Before(d.at, Entry(call).at)
    BY <1>1, <1>5, <2>1, <2>3, HeldEntry
  <2>5. /\ streams' \in [Streams -> Seq(Ops)] /\ SortedInv'
        /\ \A t \in Streams : t # call.st => Held(t)' = Held(t)
        /\ Held(call.st)' = Held(call.st) \cup {Entry(call)}
    BY <1>1, <2>1, <2>2, <2>3, <2>4, Appended
  <2>6. \A t \in Streams : Held(t) \subseteq Held(t)'
    BY <2>5
  <2>7. \A t \in Streams : \A e \in Held(t)' :
          e \in Held(t) \/ (e = Entry(call) /\ t = call.st /\ call.do # "record")
    BY <1>6, <2>5
  <2>8. Entry(call) \in Held(call.st)'
    BY <2>5
  <2> QED BY <1>2, <1>3, <1>4, <1>5, <1>6, <2>2, <2>5, <2>6, <2>7, <2>8
<1>7. CASE call.do = "record"
  <2>1. streams' = streams /\ event' = [event EXCEPT ![call.layer] = call.at]
    BY <1>2, <1>7
  <2>2. streams' \in [Streams -> Seq(Ops)] /\ SortedInv'
    BY <1>1, <2>1 DEF CoreType, SortedInv
  <2>3. \A t \in Streams : Held(t)' = Held(t)
    BY <2>1 DEF Held
  <2> QED BY <1>2, <1>3, <1>4, <1>5, <1>7, <2>1, <2>2, <2>3
<1> QED BY <1>6, <1>7

\* A host call keeps the invariant.
LEMMA IssueKeeps ==
  ASSUME CoreInv, Issue
  PROVE  CoreInv'
<1>0. UNCHANGED config /\ request' = request /\ mem' = mem
  BY DEF Issue
<1>1. /\ request \in Nat /\ at \in Places /\ ConfigInv /\ CoreType /\ EntryInv /\ request \in 0 .. request
  BY DEF CoreInv, StreamsInv, CoreType
<1>2. PICK call \in Calls(request) :
           /\ at' = call.at /\ call.at \in Places /\ call.at[1] = request
           /\ \A c \in Calls(request) : Before(at, c.at) => ~Before(c.at, call.at)
           /\ \A p \in Places : ~Before(at, p) => Before(p, call.at)
           /\ Before(at, call.at)
           /\ streams' \in [Streams -> Seq(Ops)] /\ SortedInv'
           /\ \A t \in Streams : Held(t) \subseteq Held(t)'
           /\ \A t \in Streams : \A e \in Held(t)' :
                e \in Held(t) \/ (e = Entry(call) /\ t = call.st /\ call.do # "record")
           /\ call.do # "record" => Entry(call) \in Held(call.st)' /\ event' = event
           /\ call.do = "record" => event' = [event EXCEPT ![call.layer] = call.at]
  BY IssueStreams
<1>3. ConfigInv' /\ \A r : Calls(r)' = Calls(r)
  BY <1>0, <1>1, CallsKept
<1>4. \A r : Enqueued(r)' = Enqueued(r) /\ Waits(r)' = Waits(r) /\ Launches(r)' = Launches(r)
  BY <1>3 DEF Enqueued, Waits, Launches
<1>5. CoreType'
  <2>1. Ops' = Ops
    BY <1>4 DEF Ops, Entry, Wait, On, Target
  <2>2. DOMAIN event' = 1 .. Layers
    BY <1>1, <1>2 DEF CoreType
  <2> QED BY <1>0, <1>1, <1>2, <2>1, <2>2 DEF CoreType, Cells, Cell
<1>6. call.do # "record" =>
        call \in Enqueued(request) /\ Entry(call).at = call.at /\ call.st \in Streams
  <2> SUFFICES ASSUME call.do # "record"
               PROVE  call \in Enqueued(request) /\ Entry(call).at = call.at /\ call.st \in Streams
    OBVIOUS
  <2>1. call \in Enqueued(request)
    BY DEF Enqueued
  <2> QED BY <1>1, <2>1, EntryShape, CallShape
<1>7. EntryInv'
  <2> SUFFICES ASSUME NEW t \in Streams, NEW e \in Held(t)'
               PROVE  /\ e.at[1] \in 0 .. request /\ ~Before(at', e.at)
                      /\ \E c \in Enqueued(e.at[1]) : e = Entry(c) /\ c.st = t
    BY <1>0, <1>4 DEF EntryInv, Entry, Wait, On, Target
  <2>1. CASE e \in Held(t)
    <3>1. /\ e.at \in Places /\ e.at[1] \in 0 .. request /\ ~Before(at, e.at)
          /\ \E c \in Enqueued(e.at[1]) : e = Entry(c) /\ c.st = t
      BY <1>1, <2>1, HeldEntry
    <3> QED BY <1>1, <1>2, <3>1, Order
  <2>2. CASE e = Entry(call) /\ t = call.st /\ call.do # "record"
    BY <1>1, <1>2, <1>6, <2>2, Order
  <2> QED BY <1>2, <2>1, <2>2
\* The calls that count as made: those of before, and this one.
<1>8. ASSUME NEW r \in 0 .. request, NEW c \in Calls(r), Issued(c)'
      PROVE  (Issued(c) /\ Before(c.at, call.at)) \/ (c.at = call.at /\ r = request)
  <2>0. c.at \in Places /\ c.at[1] = r /\ r \in Nat
    BY <1>1, CallShape DEF Shaped
  <2>1. ASSUME r = request, Before(at, c.at), ~Before(call.at, c.at) PROVE c.at = call.at
    BY <1>2, <2>0, <2>1, Order
  <2>2. ASSUME NEW t \in Streams, NEW e \in Held(t), e.at[1] = c.at[1], ~Before(e.at, c.at)
        PROVE  Issued(c) /\ Before(c.at, call.at)
    <3>1. e.at \in Places /\ ~Before(at, e.at)
      BY <1>1, HeldEntry
    <3>2. ~Before(at, c.at)
      BY <1>1, <2>0, <2>2, <3>1, Order
    <3> QED BY <1>2, <2>0, <2>2, <3>2 DEF Issued
  <2>3. CASE r = request /\ ~Before(at', c.at)
    <3>1. CASE ~Before(at, c.at)
      BY <1>2, <2>0, <2>3, <3>1 DEF Issued
    <3>2. CASE Before(at, c.at)
      BY <1>2, <2>1, <2>3, <3>2
    <3> QED BY <3>1, <3>2
  <2>4. ASSUME NEW t \in Streams, NEW e \in Held(t)', e.at[1] = c.at[1], ~Before(e.at, c.at)
        PROVE  (Issued(c) /\ Before(c.at, call.at)) \/ (c.at = call.at /\ r = request)
    <3>1. CASE e \in Held(t)
      BY <2>2, <2>4, <3>1
    <3>2. CASE e = Entry(call) /\ call.do # "record"
      <4>1. r = request /\ ~Before(at', c.at)
        BY <1>2, <1>6, <2>0, <2>4, <3>2
      <4> QED BY <2>3, <4>1
    <3> QED BY <1>2, <2>4, <3>1, <3>2
  <2>5. \/ c.at[1] = request' /\ ~Before(at', c.at)
        \/ \E t \in Streams : \E e \in Held(t)' : e.at[1] = c.at[1] /\ ~Before(e.at, c.at)
    BY <1>8 DEF Issued
  <2>6. CASE c.at[1] = request' /\ ~Before(at', c.at)
    BY <1>0, <2>0, <2>3, <2>6
  <2> QED BY <2>4, <2>5, <2>6
\* What had run up to an earlier place still has.
<1>9. ASSUME NEW t \in Streams, NEW p \in Places, Before(p, call.at), RunOut(t, p)
      PROVE  RunOut(t, p)'
  <2>1. ASSUME NEW e \in Held(t)' PROVE Before(p, e.at)
    BY <1>2, <1>6, <1>9, HeldRunOut
  <2> QED BY <2>1 DEF RunOut, Held
<1>10. ASSUME NEW t \in Streams, NEW p, RunOut(t, p)' PROVE RunOut(t, p)
  <2>1. \A e \in Held(t)' : Before(p, e.at)
    BY <1>10 DEF RunOut, Held
  <2> QED BY <1>2, <2>1, HeldRunOut
<1>11. CompleteInv'
  <2> SUFFICES ASSUME NEW r \in 0 .. request, NEW c \in Enqueued(r), Issued(c)'
               PROVE  RunOut(c.st, c.at)' \/ Pending(c)'
    BY <1>0, <1>4 DEF CompleteInv
  <2>1. c \in Calls(r) /\ c.do # "record" /\ c.at \in Places /\ c.st \in Streams /\ r \in Nat
    BY <1>1, CallShape DEF Enqueued, Shaped
  <2>2. CASE Issued(c) /\ Before(c.at, call.at)
    <3>1. CASE RunOut(c.st, c.at)
      BY <1>9, <2>1, <2>2, <3>1
    <3>2. CASE Pending(c)
      BY <1>2, <2>1, <3>2 DEF Pending
    <3> QED BY <2>2, <3>1, <3>2 DEF CoreInv, StreamsInv, CompleteInv
  <2>3. CASE c.at = call.at /\ r = request
    <3>1. call.do = c.do /\ call.st = c.st
      BY <1>1, <2>1, <2>3, SamePlace
    <3> QED BY <1>2, <1>6, <2>1, <2>3, <3>1 DEF Pending
  <2> QED BY <1>8, <2>1, <2>2, <2>3
\* This call has not run.
<1>12. ASSUME NEW c \in Enqueued(request), c.at = call.at PROVE ~RunOut(c.st, c.at)'
  <2>1. c \in Calls(request) /\ c.do # "record"
    BY DEF Enqueued
  <2>2. call.do = c.do /\ call.st = c.st
    BY <1>1, <1>12, <2>1, SamePlace
  <2>3. Entry(call) \in Held(c.st)' /\ Entry(call).at = c.at
    BY <1>2, <1>6, <1>12, <2>1, <2>2
  <2>4. ~Before(c.at, Entry(call).at)
    BY <1>2, <1>12, <2>3, Order
  <2> QED BY <2>3, <2>4 DEF RunOut, Held
<1>13. WaitInv'
  <2> SUFFICES ASSUME NEW r \in 0 .. request, NEW w \in Waits(r), Issued(w)', RunOut(w.st, w.at)'
               PROVE  RunOut(On(w), Target(w))'
    BY <1>0, <1>4 DEF WaitInv, On, Target
  <2>0. r \in Nat
    BY <1>1
  <2>1. /\ w \in Enqueued(r) /\ w \in Calls(r) /\ On(w) \in Streams /\ w.at \in Places
        /\ Target(w) \in Places /\ ~Before(w.at, Target(w)) /\ w.st \in Streams
    BY <1>1, <2>0, WaitShape, CallShape DEF Waits, Enqueued
  <2>2. Issued(w) /\ Before(w.at, call.at)
    BY <1>8, <1>12, <2>1
  <2>3. RunOut(On(w), Target(w))
    BY <1>10, <2>1, <2>2 DEF CoreInv, StreamsInv, WaitInv
  <2>4. Before(Target(w), call.at)
    BY <1>2, <2>1, <2>2, Order
  <2> QED BY <1>9, <2>1, <2>3, <2>4
<1>14. \A c \in Enqueued(request) : Ran(c)' <=> Ran(c)
  <2> SUFFICES ASSUME NEW c \in Enqueued(request) PROVE Ran(c)' <=> Ran(c)
    OBVIOUS
  <2>1. c \in Calls(request) /\ c.do # "record" /\ c.at \in Places /\ c.st \in Streams
        /\ c.at[1] = request
    BY <1>1, CallShape DEF Enqueued, Shaped
  <2>2. ASSUME Ran(c) PROVE Ran(c)'
    <3>1. Before(c.at, call.at) /\ ~Before(at', c.at)
      BY <1>2, <2>1, <2>2, Order DEF Ran
    <3> QED BY <1>9, <2>1, <2>2, <3>1 DEF Ran
  <2>3. ASSUME Ran(c)' PROVE Ran(c)
    <3>1. ~Before(call.at, c.at) /\ RunOut(c.st, c.at)'
      BY <1>2, <2>3 DEF Ran
    <3>2. c.at # call.at
      BY <1>12, <3>1
    <3>3. ~Before(at, c.at)
      BY <1>2, <2>1, <3>1, <3>2, Order
    <3> QED BY <1>10, <2>1, <3>1, <3>3 DEF Ran
  <2> QED BY <2>2, <2>3
<1>15. MemInv'
  <2>1. Launches(request) \subseteq Enqueued(request)
    BY DEF Launches, Enqueued
  <2> QED BY <1>0, <1>4, <1>14, <2>1 DEF CoreInv, MemInv
<1>16. GrownInv'
  <2>1. \A g \in Calls(request) : g.do = "grow" => g \in Enqueued(request)
    BY DEF Enqueued
  <2> QED BY <1>0, <1>3, <1>14, <2>1 DEF CoreInv, GrownInv
<1>17. EventInv'
  <2> SUFFICES ASSUME NEW i \in 1 .. Layers, overlap, ~Before(call.at, <<request, 1, i, 11>>)
               PROVE  event'[i] = <<request, 1, i, 11>>
    BY <1>0, <1>2 DEF EventInv, config
  <2> DEFINE c == Record(<<request, 1, i, 11>>, i)
  <2>1. c \in Calls(request) /\ c.at = <<request, 1, i, 11>> /\ c.do = "record" /\ c.at \in Places
        /\ c.layer = i
    BY <1>1, SyncsMade DEF Record, Places
  <2> HIDE DEF c
  <2>2. CASE ~Before(at, c.at)
    <3>1. event[i] = <<request, 1, i, 11>>
      BY <2>1, <2>2 DEF CoreInv, EventInv
    <3>2. CASE call.do # "record"
      BY <1>2, <3>1, <3>2
    <3>3. CASE call.do = "record"
      <4>1. Shaped(call, request)
        BY <1>1, CallShape
      <4>2. call.at[4] = 11 /\ call.at[2] = 1 /\ call.layer = call.at[3]
        BY <3>3, <4>1 DEF Shaped
      <4>3. call.layer # i
        BY <1>2, <2>1, <2>2, <4>2 DEF Before
      <4> QED BY <1>1, <1>2, <3>1, <3>3, <4>3 DEF CoreType
    <3> QED BY <3>2, <3>3
  <2>3. CASE Before(at, c.at)
    <3>0. ~Before(call.at, c.at) /\ ~Before(c.at, call.at)
      BY <1>2, <2>1, <2>3
    <3>1. c.at = call.at
      BY <1>2, <2>1, <3>0, Order
    <3>2. call.do = "record"
      BY <1>1, <2>1, <3>1, SamePlace
    <3>3. call.layer = i
      <4>1. Shaped(call, request)
        BY <1>1, CallShape
      <4> QED BY <2>1, <3>1, <4>1 DEF Shaped
    <3> QED BY <1>1, <1>2, <2>1, <3>1, <3>2, <3>3 DEF CoreType
  <2> QED BY <2>2, <2>3
<1> QED BY <1>2, <1>3, <1>5, <1>7, <1>11, <1>13, <1>15, <1>16, <1>17 DEF CoreInv, StreamsInv

\* The invariant holds at startup.
LEMMA InitCore ==
  ASSUME CoreInit, ConfigInv
  PROVE  CoreInv
<1>1. /\ request = 0 /\ at = <<0, 0, 0, 0>> /\ streams = [st \in Streams |-> << >>]
      /\ event = [i \in 1 .. Layers |-> <<0, 0, 0, 0>>] /\ mem = [c \in Cells |-> Bad]
  BY DEF CoreInit
<1>2. CoreType
  <2>1. streams \in [Streams -> Seq(Ops)]
    BY <1>1
  <2> QED BY <1>1, <2>1 DEF CoreType, Places
<1>3. \A st \in Streams : Held(st) = {}
  BY <1>1 DEF Held
<1>4. EntryInv /\ SortedInv
  BY <1>1, <1>3 DEF EntryInv, SortedInv
<1>5. ASSUME NEW c \in Calls(0) PROVE Before(at, c.at)
  <2>1. c.at \in Places /\ c.at[1] = 0 /\ c.at[4] >= 1
    BY CallShape DEF Shaped
  <2> QED BY <1>1, <2>1 DEF Before, Places
<1>6. \A r \in 0 .. request : \A c \in Calls(r) : ~Issued(c)
  BY <1>1, <1>3, <1>5 DEF Issued
<1>7. CompleteInv
  BY <1>6 DEF CompleteInv, Enqueued
<1>8. WaitInv
  BY <1>6 DEF WaitInv, Waits
<1>9. MemInv /\ GrownInv
  BY <1>1, <1>5 DEF MemInv, GrownInv, Ran, Launches
<1>10. EventInv
  BY <1>1 DEF EventInv, Before
<1> QED BY <1>2, <1>4, <1>7, <1>8, <1>9, <1>10 DEF CoreInv, StreamsInv

\* A new request keeps the invariant.
LEMMA BeginKeeps ==
  ASSUME CoreInv, Begin
  PROVE  CoreInv'
<1>1. /\ UNCHANGED config /\ request' = request + 1 /\ at' = <<request + 1, 0, 0, 0>>
      /\ streams' = streams /\ event' = event /\ mem' = mem
  BY DEF Begin
<1>2. request \in Nat /\ at \in Places /\ at[1] = request /\ ConfigInv /\ CoreType /\ EntryInv
  BY DEF CoreInv, StreamsInv, CoreType
<1>3. ConfigInv' /\ \A r : Calls(r)' = Calls(r)
  BY <1>1, <1>2, CallsKept
<1>4. \A r : Enqueued(r)' = Enqueued(r) /\ Waits(r)' = Waits(r) /\ Launches(r)' = Launches(r)
  BY <1>3 DEF Enqueued, Waits, Launches
<1>5. \A st \in Streams : Held(st)' = Held(st)
  BY <1>1 DEF Held
<1>6. \A st \in Streams : \A p : RunOut(st, p)' <=> RunOut(st, p)
  BY <1>1 DEF RunOut
<1>7. CoreType' /\ SortedInv'
  <2>1. Ops' = Ops
    BY <1>4 DEF Ops, Entry, Wait, On, Target
  <2>2. at' \in Places /\ at'[1] = request'
    BY <1>1, <1>2 DEF Places
  <2>3. SortedInv'
    BY <1>1 DEF CoreInv, StreamsInv, SortedInv
  <2>4. CoreType'
    BY <1>1, <1>2, <2>1, <2>2 DEF CoreType, Cells, Cell
  <2> QED BY <2>3, <2>4
<1>8. EntryInv'
  <2> SUFFICES ASSUME NEW t \in Streams, NEW e \in Held(t)
               PROVE  /\ e.at[1] \in 0 .. request + 1 /\ ~Before(at', e.at)
                      /\ \E c \in Enqueued(e.at[1]) : e = Entry(c) /\ c.st = t
    BY <1>1, <1>4, <1>5 DEF EntryInv, Entry, Wait, On, Target
  <2>1. /\ e.at \in Places /\ e.at[1] \in 0 .. request
        /\ \E c \in Enqueued(e.at[1]) : e = Entry(c) /\ c.st = t
    BY <1>2, HeldEntry
  <2> QED BY <1>1, <1>2, <2>1 DEF Before
<1>9. ASSUME NEW c \in Calls(request + 1) PROVE Before(at', c.at)
  <2>1. c.at \in Places /\ c.at[1] = request + 1 /\ c.at[4] >= 1
    BY <1>2, CallShape DEF Shaped
  <2> QED BY <1>1, <1>2, <2>1 DEF Before, Places
<1>10. ASSUME NEW r \in 0 .. request + 1, NEW c \in Calls(r), Issued(c)'
       PROVE  r \in 0 .. request /\ Issued(c)
  <2>1. c.at[1] = r /\ r \in Nat
    BY <1>2, CallShape DEF Shaped
  <2>2. PICK t \in Streams : \E e \in Held(t)' : e.at[1] = c.at[1] /\ ~Before(e.at, c.at)
    BY <1>1, <1>9, <1>10, <2>1 DEF Issued
  <2>3. PICK e \in Held(t) : e.at[1] = c.at[1] /\ ~Before(e.at, c.at)
    BY <1>5, <2>2
  <2>4. e.at[1] \in 0 .. request
    BY <1>2, HeldEntry
  <2> QED BY <2>1, <2>3, <2>4 DEF Issued
<1>11. CompleteInv'
  <2> SUFFICES ASSUME NEW r \in 0 .. request + 1, NEW c \in Enqueued(r), Issued(c)'
               PROVE  RunOut(c.st, c.at)' \/ Pending(c)'
    BY <1>1, <1>4 DEF CompleteInv
  <2>1. c \in Calls(r) /\ r \in Nat /\ c.st \in Streams
    BY <1>2, CallShape DEF Enqueued
  <2>2. r \in 0 .. request /\ Issued(c)
    BY <1>10, <2>1
  <2>3. RunOut(c.st, c.at) \/ Pending(c)
    BY <2>2 DEF CoreInv, StreamsInv, CompleteInv
  <2> QED BY <1>5, <1>6, <2>1, <2>3 DEF Pending
<1>12. WaitInv'
  <2> SUFFICES ASSUME NEW r \in 0 .. request + 1, NEW w \in Waits(r), Issued(w)', RunOut(w.st, w.at)'
               PROVE  RunOut(On(w), Target(w))'
    BY <1>1, <1>4 DEF WaitInv, On, Target
  <2>0. r \in Nat
    BY <1>2
  <2>1. w \in Calls(r) /\ w \in Enqueued(r) /\ On(w) \in Streams
    BY <1>2, <2>0, WaitShape DEF Waits
  <2>2. w.st \in Streams
    BY <1>2, <2>0, <2>1, CallShape DEF Enqueued
  <2>3. r \in 0 .. request /\ Issued(w)
    BY <1>10, <2>1
  <2>4. RunOut(On(w), Target(w))
    BY <1>6, <2>2, <2>3 DEF CoreInv, StreamsInv, WaitInv
  <2> QED BY <1>6, <2>1, <2>4
<1>13. MemInv' /\ GrownInv'
  BY <1>1, <1>3, <1>4, <1>9 DEF MemInv, GrownInv, Ran, Launches
<1>14. EventInv'
  BY <1>1, <1>2 DEF EventInv, Before
<1> QED BY <1>3, <1>7, <1>8, <1>11, <1>12, <1>13, <1>14 DEF CoreInv, StreamsInv

\* A step that touches none of its variables keeps the invariant.
LEMMA StutterKeeps ==
  ASSUME CoreInv, UNCHANGED <<config, request, at, streams, event, mem>>
  PROVE  CoreInv'
<1>1. /\ UNCHANGED config /\ request' = request /\ at' = at
      /\ streams' = streams /\ event' = event /\ mem' = mem
  OBVIOUS
<1>2. ConfigInv' /\ \A r : Calls(r)' = Calls(r)
  BY <1>1, CallsKept DEF CoreInv
<1>3. \A r : Enqueued(r)' = Enqueued(r) /\ Waits(r)' = Waits(r) /\ Launches(r)' = Launches(r)
  BY <1>2 DEF Enqueued, Waits, Launches
<1>4. Ops' = Ops
  BY <1>3 DEF Ops, Entry, Wait, On, Target
<1>5. CoreType' /\ SortedInv'
  <2>1. SortedInv'
    BY <1>1 DEF CoreInv, StreamsInv, SortedInv
  <2>2. CoreType
    BY DEF CoreInv, StreamsInv
  <2>3. request' \in Nat /\ at' \in Places /\ at'[1] = request' /\ DOMAIN event' = 1 .. Layers
    BY <1>1, <2>2 DEF CoreType
  <2>4. streams' \in [Streams -> Seq(Ops')]
    BY <1>1, <1>4, <2>2 DEF CoreType
  <2>5. mem' = [c \in Cells |-> mem'[c]]
    BY <1>1, <2>2 DEF CoreType
  <2>6. CoreType'
    BY <2>3, <2>4, <2>5 DEF CoreType, Cells, Cell
  <2> QED BY <2>1, <2>6
<1>6. EntryInv'
  BY <1>1, <1>3 DEF CoreInv, StreamsInv, EntryInv, Held, Entry, Wait, On, Target
<1>7. CompleteInv'
  BY <1>1, <1>3 DEF CoreInv, StreamsInv, CompleteInv, Issued, Held, Pending, RunOut
<1>8. WaitInv'
  BY <1>1, <1>3 DEF CoreInv, StreamsInv, WaitInv, Issued, Held, RunOut, On, Target
<1>9. MemInv' /\ GrownInv'
  BY <1>1, <1>2, <1>3 DEF CoreInv, MemInv, GrownInv, Ran, RunOut
<1>10. EventInv'
  BY <1>1 DEF CoreInv, EventInv, config
<1> QED BY <1>2, <1>5, <1>6, <1>7, <1>8, <1>9, <1>10 DEF CoreInv, StreamsInv

\* No step breaks the invariant.
LEMMA NextCore ==
  ASSUME CoreInv, [CoreNext]_coreVars
  PROVE  CoreInv'
<1>1. CASE Begin
  BY <1>1, BeginKeeps
<1>2. CASE Issue
  BY <1>2, IssueKeeps
<1>3. CASE Fail \/ Answer
  BY <1>3, StutterKeeps DEF Fail, Answer
<1>4. ASSUME NEW st \in Streams, Run(st) PROVE CoreInv'
  <2>1. ConfigInv' /\ StreamsInv' /\ MemInv' /\ GrownInv'
    BY <1>4, RunKeepsStreams, RunKeepsMem DEF CoreInv
  <2>2. EventInv'
    BY <1>4 DEF Run, hostVars, config, CoreInv, EventInv
  <2> QED BY <2>1, <2>2 DEF CoreInv
<1>5. CASE UNCHANGED coreVars
  BY <1>5, StutterKeeps DEF coreVars, hostVars
<1> QED BY <1>1, <1>2, <1>3, <1>4, <1>5 DEF CoreNext

-----------------------------------------------------------------------------
(* The answers.                                                            *)

Replies == {<<"error">>} \cup {<<"ok", t, e>> : t \in Tags, e \in Nat}

\* The embedding kept is its prompt's, and so is the one the request uses.
MemoInv ==
  /\ memo \in Nat \X Nat /\ memo[1] = memo[2]
  /\ prompt \in Nat /\ emb = prompt

ReplyInv ==
  /\ mem \in [Cells -> Tags] /\ answers \in Seq(Replies)
  /\ host \in {"idle", "issuing"} /\ (host = "issuing" => request > 0)
  /\ Len(answers) = IF host = "idle" THEN request ELSE request - 1

\* The memo at startup.
LEMMA InitMemo == CoreInit => MemoInv
BY DEF CoreInit, MemoInv, NoMemo

\* Every step keeps the memo and the embedding.
LEMMA NextMemo ==
  ASSUME MemoInv, [CoreNext]_coreVars
  PROVE  MemoInv'
<1>1. CASE Begin
  <2>1. PICK p \in Prompts :
       /\ prompt' = p
       /\ emb' = IF Hit(p) THEN memo[2] ELSE p
       /\ memo' = IF cache /\ ~Hit(p) THEN <<p, p>> ELSE memo
    BY <1>1 DEF Begin
  <2>2. p \in Nat
    OBVIOUS
  <2>3. emb' = p
    BY <2>1 DEF MemoInv, Hit
  <2>4. memo' \in Nat \X Nat /\ memo'[1] = memo'[2]
    BY <2>1, <2>2 DEF MemoInv
  <2> QED BY <2>1, <2>2, <2>3, <2>4 DEF MemoInv
<1>2. CASE ~Begin
  <2>1. UNCHANGED <<memo, prompt, emb>>
    BY <1>2 DEF CoreNext, Issue, Fail, Answer, Run, hostVars, coreVars
  <2> QED BY <2>1 DEF MemoInv
<1> QED BY <1>1, <1>2

\* The latents when nothing of the current request is left to run.
LEMMA LatentsLast ==
  ASSUME CoreInv, ToCome = {}, streams["main"] = << >>
  PROVE  mem[Cell("latent")] = <<request, Steps, 0>>
<1>1. request \in Nat /\ ConfigInv /\ Steps - 1 \in 0 .. Steps - 1
  BY DEF CoreInv, StreamsInv, CoreType
<1>2. PICK x \in Launches(request) : IsEnd(x, request, Steps - 1)
  BY <1>1, Made
<1>3. /\ x.at = <<request, StepStage(Steps - 1), Layers + 1, 18>> /\ x.st = "main"
      /\ x.cell = <<"latent", 0>> /\ x.tag = <<request, Steps, 0>>
  BY <1>2 DEF IsEnd
<1>4. Ran(x)
  <2>1. ~Before(at, x.at)
    BY DEF ToCome, Launches
  <2>2. RunOut("main", x.at)
    BY DEF RunOut
  <2> QED BY <1>3, <2>1, <2>2 DEF Ran
<1>5. ASSUME NEW y \in Launches(request), y.cell = x.cell, Before(x.at, y.at) PROVE FALSE
  <2>0. StepStage(Steps - 1) \in Nat /\ StepStage(Steps - 1) >= 1
    BY <1>1, StepPlaces
  <2>1. IsNoise(y, request) \/ \E u \in 0 .. Steps - 1 : IsEnd(y, request, u)
    BY <1>1, <1>3, <1>5, WritersOf
  <2>2. CASE IsNoise(y, request)
    BY <1>1, <1>3, <1>5, <2>0, <2>2 DEF IsNoise, Before
  <2>3. ASSUME NEW u \in 0 .. Steps - 1, IsEnd(y, request, u) PROVE FALSE
    <3>1. StepStage(u) \in Nat /\ StepStage(u) <= StepStage(Steps - 1)
      BY <1>1, StepPlaces
    <3> QED BY <1>1, <1>3, <1>5, <2>0, <2>3, <3>1 DEF IsEnd, Before
  <2> QED BY <2>1, <2>2, <2>3
<1> QED BY <1>3, <1>4, <1>5 DEF CoreInv, MemInv, Cell

\* A grown cache has the cells of the first one.
LEMMA GrownCells ==
  ASSUME NEW c \in Cells, c[1] = "grown"
  PROVE  <<"kv", c[2]>> \in Cells
<1> DEFINE layered == {<<n, i>> : n \in {"prefix", "kv", "grown", "expert_kv", "suffix", "action"},
                                  i \in 0 .. Layers}
           single  == {Cell(n) : n \in {"scratch", "latent", "input", "action_ctx"}}
<1>1. Cells = layered \cup single
  BY DEF Cells
<1>2. c \notin single
  BY DEF Cell
<1>3. PICK n \in {"prefix", "kv", "grown", "expert_kv", "suffix", "action"} :
        \E i \in 0 .. Layers : c = <<n, i>>
  BY <1>1, <1>2
<1>4. c[2] \in 0 .. Layers
  BY <1>3
<1>5. <<"kv", c[2]>> \in layered
  BY <1>4
<1> QED BY <1>1, <1>5

\* Every step keeps the answers.
LEMMA NextReply ==
  ASSUME CoreInv, MemoInv, ReplyInv, AnswersOwn, [CoreNext]_coreVars
  PROVE  ReplyInv' /\ AnswersOwn'
<1>1. request \in Nat /\ ConfigInv /\ StreamsInv
  BY DEF CoreInv, StreamsInv, CoreType
<1>c. Cells' = Cells /\ Replies' = Replies
  BY DEF Cells, Cell, Replies, Tags
<1>2. CASE Begin
  <2>1. request' = request + 1 /\ host = "idle" /\ host' = "issuing" /\ mem' = mem /\ answers' = answers
    BY <1>2 DEF Begin
  <2> QED BY <1>1, <1>c, <2>1 DEF ReplyInv, AnswersOwn
<1>3. CASE Issue \/ UNCHANGED coreVars
  <2>1. request' = request /\ host' = host /\ mem' = mem /\ answers' = answers
    BY <1>3 DEF Issue, coreVars, hostVars
  <2> QED BY <1>c, <2>1 DEF ReplyInv, AnswersOwn
<1>a. ASSUME NEW reply \in Replies, answers' = Append(answers, reply), host = "issuing",
             host' = "idle", mem' = mem, request' = request,
             reply[1] = "ok" => reply[2] = <<request, Steps, 0>>
      PROVE  ReplyInv' /\ AnswersOwn'
  <2>1. answers \in Seq(Replies) /\ Len(answers) = request - 1 /\ request > 0
    BY <1>a DEF ReplyInv
  <2>2. /\ answers' \in Seq(Replies) /\ Len(answers') = request /\ DOMAIN answers' = 1 .. request
        /\ \A k \in 1 .. request - 1 : answers'[k] = answers[k] /\ k \in DOMAIN answers
        /\ answers'[request] = reply
    BY <1>1, <1>a, <2>1
  <2>3. AnswersOwn'
    <3> SUFFICES ASSUME NEW k \in 1 .. request, answers'[k][1] = "ok"
                 PROVE  answers'[k][2] = <<k, Steps, 0>>
      BY <2>2 DEF AnswersOwn
    <3>1. CASE k = request
      BY <1>a, <2>2, <3>1
    <3>2. CASE k # request
      <4>1. k \in 1 .. request - 1
        BY <1>1, <3>2
      <4> QED BY <2>2, <4>1 DEF AnswersOwn
    <3> QED BY <3>1, <3>2
  <2> QED BY <1>c, <1>a, <2>1, <2>2, <2>3 DEF ReplyInv
<1>4. CASE Fail
  <2>1. <<"error">> \in Replies
    BY DEF Replies
  <2>2. /\ answers' = Append(answers, <<"error">>) /\ host = "issuing" /\ host' = "idle"
        /\ mem' = mem /\ request' = request
    BY <1>4 DEF Fail
  <2> QED BY <1>a, <2>1, <2>2
<1>5. CASE Answer
  <2> DEFINE t == mem[Cell("latent")]
  <2>1. /\ answers' = Append(answers, <<"ok", t, emb>>) /\ host = "issuing" /\ host' = "idle"
        /\ mem' = mem /\ request' = request
    BY <1>5 DEF Answer
  <2>2. t = <<request, Steps, 0>>
    BY <1>5, LatentsLast DEF Answer
  <2>3. t \in Tags /\ emb \in Nat
    BY <1>1, <2>2 DEF Tags, MemoInv
  <2> HIDE DEF t
  <2>4. <<"ok", t, emb>> \in Replies
    BY <2>3 DEF Replies
  <2> QED BY <1>a, <2>1, <2>2, <2>4
<1>6. ASSUME NEW st \in Streams, Run(st) PROVE ReplyInv' /\ AnswersOwn'
  <2>1. streams[st] # << >> /\ host' = host /\ request' = request /\ answers' = answers
    BY <1>6 DEF Run, hostVars
  <2>2. mem' \in [Cells -> Tags]
    <3> DEFINE op == Head(streams[st])
    <3>1. \/ mem' = mem
          \/ /\ op.do = "launch"
             /\ mem' = [mem EXCEPT ![op.cell] =
                          IF \A x \in op.reads : mem[x.cell] = x.tag THEN op.tag ELSE Bad]
          \/ mem' = [c \in Cells |-> IF c[1] = "grown" THEN mem[<<"kv", c[2]>>] ELSE mem[c]]
      BY <1>6 DEF Run
    <3>2. PICK q \in 0 .. request : \E d \in Enqueued(q) : op = Entry(d)
      BY <1>1, <2>1, HeadCall
    <3>3. PICK d \in Enqueued(q) : op = Entry(d)
      BY <3>2
    <3> HIDE DEF op
    <3>4. CASE op.do = "launch"
      <4>1. q \in Nat
        BY <1>1
      <4>2. d \in Launches(q) /\ op = d
        <5>1. d \in Waits(q) => op.do = "wait"
          BY <1>1, <3>3, <4>1, EntryShape
        <5>2. d \in Launches(q) \/ d.do = "grow" => op = d
          BY <1>1, <3>3, <4>1, EntryShape DEF Launches
        <5> QED BY <1>1, <3>4, <4>1, <5>1, <5>2, EntryShape
      <4>3. op.tag \in Tags
        BY <1>1, <4>1, <4>2, CallShape DEF Launches, Written
      <4>4. Bad \in Tags
        BY DEF Bad, Tags
      <4>5. \A c \in Cells : c[1] = "grown" => <<"kv", c[2]>> \in Cells
        BY GrownCells
      <4> QED BY <3>1, <4>3, <4>4, <4>5 DEF ReplyInv
    <3>5. CASE op.do # "launch"
      <4>1. \A c \in Cells : c[1] = "grown" => <<"kv", c[2]>> \in Cells
        BY GrownCells
      <4> QED BY <3>1, <3>5, <4>1 DEF ReplyInv
    <3> QED BY <3>4, <3>5
  <2> QED BY <1>c, <2>1, <2>2 DEF ReplyInv, AnswersOwn
<1> QED BY <1>2, <1>3, <1>4, <1>5, <1>6 DEF CoreNext

\* There are no answers at startup.
LEMMA InitReply == CoreInit => ReplyInv /\ AnswersOwn
BY DEF CoreInit, ReplyInv, AnswersOwn, Bad, Tags

-----------------------------------------------------------------------------
(* The theorems.                                                           *)

\* smolvla overlaps on caches with room for the suffix only.
Sized == backend = "smolvla" /\ overlap => static

\* In every configuration but the one of the finding an answer is the request's own,
\* whether or not others are possible (fastwam.py:457-548, pi05 flow_matching.py:609-705,
\* smolvla flow_matching.py:455-531, engine.py:306-313).
THEOREM SizedAnswersOwn == CoreSpec /\ Sized => []AnswersOwn
<1> DEFINE Inv == CoreInv /\ MemoInv /\ ReplyInv /\ AnswersOwn
<1>1. CoreInit /\ Sized => Inv
  <2>1. CoreInit /\ Sized => ConfigInv
    BY DEF CoreInit, Sized, ConfigInv
  <2> QED BY <2>1, InitCore, InitMemo, InitReply
<1>2. Inv /\ [CoreNext]_coreVars => Inv'
  BY NextCore, NextMemo, NextReply
<1>3. Inv => AnswersOwn
  OBVIOUS
<1> QED BY <1>1, <1>2, <1>3, PTL DEF CoreSpec

\* Whatever the host and the streams do, an action chunk that is returned was computed from
\* its own request's inputs, keys and latents at every layer and step, for any number of
\* layers, steps, requests and failures (fastwam.py:457-548, pi05 flow_matching.py:609-705,
\* smolvla flow_matching.py:455-531).  The engines of smolvla whose captures all failed are
\* left out by Sized; a constant of the model says whether there are any.
THEOREM CoreAnswersOwn ==
  ASSUME ~CaptureMayFail \/ "smolvla" \notin Backends
  PROVE  CoreSpec => []AnswersOwn
<1>1. CoreInit => Sized
  BY DEF CoreInit, SmolvlaStartup, Sized
<1> QED BY <1>1, SizedAnswersOwn, PTL DEF CoreSpec

\* The embedding a request is served with is its prompt's, for any prompts
\* (fastwam.py:150-184).
THEOREM CorePromptOwn == CoreSpec => []PromptOwn
<1>1. MemoInv => PromptOwn
  BY DEF MemoInv, PromptOwn
<1> QED BY <1>1, InitMemo, NextMemo, PTL DEF CoreSpec

-----------------------------------------------------------------------------
(* The scratch.                                                            *)

\* Only the layers of a denoise step touch the scratch.
LEMMA TouchesScratch ==
  ASSUME ConfigInv, NEW r \in Nat, NEW x \in Launches(r),
         x.cell = Cell("scratch") \/ \E c \in x.reads : c.cell = Cell("scratch")
  PROVE  \E s \in 0 .. Steps - 1 :
           x.at[2] = StepStage(s) /\ x.at[3] \in 1 .. Layers /\ x.st = StepStream(s)
<1>1. PICK s \in 0 .. Steps - 1 : \E i \in 1 .. Layers : LaunchKind(x, r, s, i)
  BY KindsOf
<1>2. PICK i \in 1 .. Layers : LaunchKind(x, r, s, i)
  BY <1>1
<1>3. CASE IsScratch(x, r, s, i) \/ IsSuffix(x, r, s, i) \/ IsAction(x, r, s, i)
  BY <1>3 DEF IsScratch, IsSuffix, IsAction
<1>4. CASE IsInput(x, r) \/ IsNoise(x, r)
  BY <1>4 DEF IsInput, IsNoise, Cell
<1>5. CASE IsEncode(x, r) \/ IsContext(x, r)
  BY <1>5 DEF IsEncode, IsContext, Input, Is, Cell
<1>6. CASE IsBegin(x, r, s)
  BY <1>6 DEF IsBegin, Latent, Context, Is, Cell
<1>7. CASE IsKv(x, r, i) \/ IsTokens(x, r, i)
  BY <1>7 DEF IsKv, IsTokens, Prefix, Kv, Is, Cell
<1>8. CASE IsEnd(x, r, s)
  BY <1>8 DEF IsEnd, Act, Latent, Is, Cell
<1>9. CASE IsProject(x, r, i)
  BY <1>9 DEF IsProject, Kv, Is, Cell
<1> QED BY <1>2, <1>3, <1>4, <1>5, <1>6, <1>7, <1>8, <1>9 DEF LaunchKind

\* Of two operations at heads that touch the scratch, the later request's is not behind the
\* other's; but it is.
LEMMA OneAtScratch ==
  ASSUME CoreInv, NEW st \in Streams, NEW other \in Streams, st # other,
         streams[st] # << >>, streams[other] # << >>,
         NEW q \in 0 .. request, NEW x \in Launches(q), x = Head(streams[st]),
         NEW r \in 0 .. request, NEW y \in Launches(r), y = Head(streams[other]),
         x.cell = Cell("scratch") \/ \E c \in x.reads : c.cell = Cell("scratch"),
         y.cell = Cell("scratch") \/ \E c \in y.reads : c.cell = Cell("scratch")
  PROVE  ~Before(x.at, y.at)
<1>1. ConfigInv /\ StreamsInv /\ q \in Nat /\ r \in Nat
  BY DEF CoreInv, StreamsInv, CoreType
<1>2. /\ x \in Calls(q) /\ x.do = "launch" /\ x.at \in Places /\ x.at[1] = q /\ x.st \in Streams
      /\ y \in Calls(r) /\ y.do = "launch" /\ y.at \in Places /\ y.at[1] = r /\ y.st \in Streams
  BY <1>1, CallShape DEF Launches, Shaped
<1>3. PICK k \in 0 .. request : \E c \in Enqueued(k) :
           c.st = st /\ c.at = x.at /\ c.at[1] = k /\ ~RunOut(st, c.at)
  BY <1>1, HeadCall
<1>4. PICK c \in Enqueued(q) : c.st = st /\ c.at = x.at /\ ~RunOut(st, c.at)
  BY <1>2, <1>3
<1>5. x.st = st /\ ~RunOut(st, x.at)
  BY <1>1, <1>2, <1>4, SamePlace DEF Enqueued
<1>6. PICK l \in 0 .. request : \E d \in Enqueued(l) :
           /\ d.st = other /\ d.at = y.at /\ d.at[1] = l /\ Issued(d)
           /\ \A p \in Places : Before(p, d.at) => RunOut(other, p)
  BY <1>1, HeadCall
<1>7. PICK d \in Enqueued(r) :
           /\ d.st = other /\ d.at = y.at /\ Issued(d)
           /\ \A p \in Places : Before(p, d.at) => RunOut(other, p)
  BY <1>2, <1>6
<1>8. y.st = other
  BY <1>1, <1>2, <1>7, SamePlace DEF Enqueued
<1>9. Issued(y)
  BY <1>7 DEF Issued
<1>10. SUFFICES ASSUME Before(x.at, y.at) PROVE FALSE
  OBVIOUS
<1>11. PICK s \in 0 .. Steps - 1 :
         x.at[2] = StepStage(s) /\ x.at[3] \in 1 .. Layers /\ x.st = StepStream(s)
  BY <1>1, TouchesScratch
<1>12. PICK t \in 0 .. Steps - 1 :
         y.at[2] = StepStage(t) /\ y.at[3] \in 1 .. Layers /\ y.st = StepStream(t)
  BY <1>1, TouchesScratch
<1>13. x.at[1] <= r /\ x.at[3] <= Layers
  BY <1>1, <1>2, <1>10, <1>11 DEF Before
<1>14. Ordered(x, y)
  BY <1>1, <1>2, <1>10, <1>11, <1>12, <1>13, LayersOrdered
<1>15. RunOut(x.st, x.at)
  BY <1>1, <1>2, <1>7, <1>8, <1>9, <1>10, <1>14, OrderedRan
<1> QED BY <1>5, <1>15

\* An operation at a head.
LEMMA LaunchAtHead ==
  ASSUME CoreInv, NEW st \in Streams, streams[st] # << >>, Head(streams[st]).do = "launch"
  PROVE  \E q \in 0 .. request : Head(streams[st]) \in Launches(q)
<1> DEFINE op == Head(streams[st])
<1>1. PICK q \in 0 .. request : \E d \in Enqueued(q) : op = Entry(d)
  BY HeadCall DEF CoreInv
<1>2. PICK d \in Enqueued(q) : op = Entry(d)
  BY <1>1
<1> HIDE DEF op
<1>3. q \in Nat /\ ConfigInv
  BY DEF CoreInv, StreamsInv, CoreType
<1>4. d \in Waits(q) => op.do = "wait"
  BY <1>2, <1>3, EntryShape
<1>5. d \in Launches(q) \/ d.do = "grow" => op = d
  BY <1>2, <1>3, EntryShape DEF Launches
<1>6. op.do = "launch"
  BY DEF op
<1>7. op \in Launches(q)
  BY <1>2, <1>3, <1>4, <1>5, <1>6, EntryShape
<1> QED BY <1>7 DEF op

\* The streams are never both at the scratch.
LEMMA ScratchOfCore ==
  ASSUME CoreInv PROVE ScratchExclusive
<1> DEFINE launches(st) == streams[st] # << >> /\ Head(streams[st]).do = "launch"
           inside(st)   == launches(st) /\ \E x \in Head(streams[st]).reads : x.cell = Cell("scratch")
           entering(st) == launches(st) /\ Head(streams[st]).cell = Cell("scratch")
<1>1. ASSUME NEW st \in {"main", "side"}, NEW other \in {"main", "side"},
             inside(st), other # st, entering(other) \/ inside(other)
      PROVE  FALSE
  <2>1. st \in Streams /\ other \in Streams
    BY DEF Streams
  <2>2. PICK q \in 0 .. request : Head(streams[st]) \in Launches(q)
    BY <1>1, <2>1, LaunchAtHead
  <2>3. PICK r \in 0 .. request : Head(streams[other]) \in Launches(r)
    BY <1>1, <2>1, LaunchAtHead
  <2>4. PICK x \in Launches(q) : x = Head(streams[st])
    BY <2>2
  <2>5. PICK y \in Launches(r) : y = Head(streams[other])
    BY <2>3
  <2>6. /\ \E c \in x.reads : c.cell = Cell("scratch")
        /\ y.cell = Cell("scratch") \/ \E c \in y.reads : c.cell = Cell("scratch")
        /\ streams[st] # << >> /\ streams[other] # << >>
    BY <1>1, <2>4, <2>5
  <2> HIDE DEF launches, inside, entering
  <2>7. ~Before(x.at, y.at) /\ ~Before(y.at, x.at)
    BY <1>1, <2>1, <2>4, <2>5, <2>6, OneAtScratch
  <2>8. ConfigInv /\ StreamsInv /\ q \in Nat /\ r \in Nat
    BY DEF CoreInv, StreamsInv, CoreType
  <2>9. /\ x \in Calls(q) /\ x.do = "launch" /\ x.at \in Places /\ x.at[1] = q
        /\ y \in Calls(r) /\ y.do = "launch" /\ y.at \in Places /\ y.at[1] = r
    BY <2>8, CallShape DEF Launches, Shaped
  <2>10. x.at = y.at /\ q = r
    BY <2>7, <2>9, Order
  <2>11. PICK k \in 0 .. request : \E c \in Enqueued(k) : c.st = st /\ c.at = x.at /\ c.at[1] = k
    BY <2>1, <2>4, <2>6, <2>8, HeadCall
  <2>12. PICK l \in 0 .. request : \E d \in Enqueued(l) : d.st = other /\ d.at = y.at /\ d.at[1] = l
    BY <2>1, <2>5, <2>6, <2>8, HeadCall
  <2>13. PICK c \in Enqueued(q) : c.st = st /\ c.at = x.at
    BY <2>9, <2>11
  <2>14. PICK d \in Enqueued(q) : d.st = other /\ d.at = x.at
    BY <2>9, <2>10, <2>12
  <2> QED BY <1>1, <2>8, <2>13, <2>14, SamePlace DEF Enqueued
<1> QED BY <1>1 DEF ScratchExclusive

\* What smolvla's host may put on a stream, or into an event.
AllCalls == UNION {Calls(r) : r \in Nat}
AllAts   == {c.at : c \in AllCalls} \cup {<<0, 0, 0, 0>>}
AllOns   == {c.on : c \in AllCalls} \cup {"main"}
AllOps   == AllCalls \cup {Wait(c, on, place) : c \in AllCalls, on \in AllOns, place \in AllAts}

\* The scratch is not among the cells of an operation; what waits for an event has one.
Apart(op) ==
  /\ op.do = "launch" => op.cell # Cell("scratch") /\ \A x \in op.reads : x.cell # Cell("scratch")
  /\ op.do = "wait_event" => op.layer \in 1 .. Layers

\* smolvla has no such scratch, whatever became of its captures.
NoScratchInv ==
  /\ backend = "smolvla" /\ request \in Nat
  /\ event \in [1 .. Layers -> AllAts]
  /\ streams \in [Streams -> Seq(AllOps)]

\* A layer of a step of smolvla.
LEMMA SmolvlaLayerApart ==
  ASSUME NEW r, NEW s, NEW i, NEW c \in SmolvlaLayer(r, s, i)
  PROVE  Apart(c)
<1>1. CASE c \in WriteSuffix(r, s, i)
  BY <1>1 DEF WriteSuffix, Launch, Grow, Apart, Act, Suffix, Is, Cell
<1>2. ASSUME NEW buf, c = Launch(<<r, StepStage(s), i, 16>>, StepStream(s),
               {Act(r, s, i - 1), Kv(SuffixBuf, r, i), Suffix(r, s, i)}, Act(r, s, i))
      PROVE  Apart(c)
  BY <1>2 DEF Launch, Apart, Act, Kv, Suffix, SuffixBuf, Is, Cell
<1>3. ASSUME c = Launch(<<r, StepStage(s), i, 16>>, StepStream(s),
               {Act(r, s, i - 1), IF Projected(r, s, i) THEN ExpertKv(r, i) ELSE Kv(SuffixBuf, r, i)},
               Act(r, s, i))
      PROVE  Apart(c)
  BY <1>3 DEF Launch, Apart, Act, Kv, ExpertKv, SuffixBuf, Is, Cell
<1> QED BY <1>1, <1>2, <1>3 DEF SmolvlaLayer

\* A denoise step of smolvla.
LEMMA SmolvlaStepApart ==
  ASSUME NEW r, NEW s, NEW c \in SmolvlaStep(r, s)
  PROVE  Apart(c)
<1>1. CASE c = EmbedSuffix(r, s)
  BY <1>1 DEF EmbedSuffix, Launch, Apart, Act, Latent, Is, Cell
<1>2. CASE c = StepEnd(r, s)
  BY <1>2 DEF StepEnd, Launch, Apart, Act, Latent, Is, Cell
<1>3. CASE \E i \in 1 .. Layers : c \in SmolvlaLayer(r, s, i)
  BY <1>3, SmolvlaLayerApart
<1> QED BY <1>1, <1>2, <1>3 DEF SmolvlaStep

\* Every call of smolvla.
LEMMA SmolvlaApart ==
  ASSUME backend = "smolvla", NEW r, NEW c \in Calls(r)
  PROVE  Apart(c)
<1>1. CASE c \in Inputs(r)
  BY <1>1 DEF Inputs, WaitStream, Launch, Apart, Input, Latent, Is, Cell
<1>2. CASE c = Encode(r)
  BY <1>2 DEF Encode, Launch, Apart, Input, Prefix, Is, Cell
<1>3. ASSUME NEW i \in 1 .. Layers, c \in PrefillLayer(r, i, Roomy(i)) PROVE Apart(c)
  BY <1>3 DEF PrefillLayer, Roomy, Launch, Apart, Prefix, Kv, Is, Cell
<1>4. ASSUME NEW buf \in {"kv", "grown"}, c \in ProjectExpert(r, buf) PROVE Apart(c)
  BY <1>4 DEF ProjectExpert, Launch, Apart, ExpertKv, Kv, Is, Cell
<1>5. CASE c \in {Fork(r), Join(r)} \cup Gates(r)
  BY <1>5 DEF Fork, Join, Gates, Gate, WaitStream, WaitEvent, Record, Apart
<1>6. CASE c \in SmolvlaCore(r)
  <2>1. CASE c \in SmolvlaOverlap(r)
    <3>1. SuffixBuf \in {"kv", "grown"}
      BY DEF SuffixBuf
    <3> QED BY <1>4, <1>5, <2>1, <3>1, SmolvlaStepApart DEF SmolvlaOverlap
  <2>2. CASE c \in ProjectExpert(r, "kv") \cup SmolvlaStep(r, 0)
    BY <1>4, <2>2, SmolvlaStepApart
  <2>3. CASE \E s \in 1 .. Steps - 1 : c \in SmolvlaStep(r, s)
    BY <2>3, SmolvlaStepApart
  <2>4. CASE c = Encode(r) \/ \E i \in 1 .. Layers : c \in PrefillLayer(r, i, Roomy(i))
    BY <1>2, <1>3, <2>4
  <2> QED BY <1>6, <2>1, <2>2, <2>3, <2>4 DEF SmolvlaCore
<1> QED BY <1>1, <1>6 DEF Calls

\* Every operation of smolvla's.
LEMMA OpsApart ==
  ASSUME backend = "smolvla", NEW op \in AllOps
  PROVE  Apart(op)
<1>1. CASE op \in AllCalls
  BY <1>1, SmolvlaApart DEF AllCalls
<1>2. CASE op \notin AllCalls
  BY <1>2 DEF AllOps, Wait, Apart
<1> QED BY <1>1, <1>2

\* The operations depend on the configuration alone.
LEMMA OpsFixed ==
  ASSUME UNCHANGED config
  PROVE  AllAts' = AllAts /\ AllOps' = AllOps
<1>1. /\ backend' = backend /\ graph' = graph /\ overlap' = overlap
      /\ static' = static /\ cache' = cache
  BY DEF config
<1>2. \A r : Calls(r)' = Calls(r)
  BY <1>1 DEF Calls, Inputs, FastwamCore, Pi05Core, SmolvlaCore,
  FastwamOverlap, Pi05Overlap, SmolvlaOverlap, DenoiseStep, Pi05Step, SmolvlaStep,
  ActionLayer, ActionPre, Pi05Layer, EmbedSuffix, SmolvlaLayer, WriteSuffix, ProjectExpert,
  SuffixBuf, Roomy, Projected, Matched, StepStage, StepStream, StepEnd
<1>3. AllCalls' = AllCalls
  BY <1>2 DEF AllCalls
<1>4. AllAts' = AllAts /\ AllOns' = AllOns
  BY <1>3 DEF AllAts, AllOns
<1> QED BY <1>3, <1>4 DEF AllOps, Wait

\* What the host adds to a stream.
LEMMA IssueKeepsApart ==
  ASSUME NoScratchInv, Issue
  PROVE  streams' \in [Streams -> Seq(AllOps)] /\ event' \in [1 .. Layers -> AllAts]
<1>1. PICK c \in NextCall :
       \/ c.do \in {"launch", "grow"} /\ Enqueue(c.st, c) /\ UNCHANGED event
       \/ c.do = "wait_stream" /\ Enqueue(c.st, Wait(c, c.on, c.at)) /\ UNCHANGED event
       \/ c.do = "wait_event" /\ Enqueue(c.st, Wait(c, "main", event[c.layer])) /\ UNCHANGED event
       \/ c.do = "record" /\ event' = [event EXCEPT ![c.layer] = c.at] /\ UNCHANGED streams
  BY DEF Issue
<1>2. c \in AllCalls
  BY <1>1 DEF NextCall, ToCome, AllCalls, NoScratchInv
<1>3. c.at \in AllAts /\ c.on \in AllOns
  BY <1>2 DEF AllAts, AllOns
<1>4. ASSUME NEW st, NEW op \in AllOps, Enqueue(st, op)
      PROVE  streams' \in [Streams -> Seq(AllOps)]
  <2>1. streams \in [Streams -> Seq(AllOps)] /\ streams' = [streams EXCEPT ![st] = Append(@, op)]
    BY <1>4 DEF Enqueue, NoScratchInv
  <2>2. st \in Streams => streams[st] \in Seq(AllOps)
    BY <2>1
  <2>3. st \in Streams => Append(streams[st], op) \in Seq(AllOps)
    BY <1>4, <2>2
  <2> QED BY <2>1, <2>3
<1>5. CASE c.do \in {"launch", "grow"} /\ Enqueue(c.st, c) /\ UNCHANGED event
  BY <1>2, <1>4, <1>5 DEF AllOps, NoScratchInv
<1>6. CASE c.do = "wait_stream" /\ Enqueue(c.st, Wait(c, c.on, c.at)) /\ UNCHANGED event
  BY <1>2, <1>3, <1>4, <1>6 DEF AllOps, NoScratchInv
<1>8. CASE c.do = "wait_event" /\ Enqueue(c.st, Wait(c, "main", event[c.layer])) /\ UNCHANGED event
  <2>1. c.layer \in 1 .. Layers
    BY <1>1, <1>8, SmolvlaApart DEF NextCall, ToCome, NoScratchInv, Apart
  <2>2. event[c.layer] \in AllAts /\ "main" \in AllOns
    BY <2>1 DEF NoScratchInv, AllOns
  <2>3. Wait(c, "main", event[c.layer]) \in AllOps
    BY <1>2, <2>2 DEF AllOps
  <2> QED BY <1>4, <1>8, <2>3 DEF NoScratchInv
<1>7. CASE c.do = "record" /\ event' = [event EXCEPT ![c.layer] = c.at] /\ UNCHANGED streams
  BY <1>3, <1>7 DEF NoScratchInv
<1> QED BY <1>1, <1>5, <1>6, <1>7, <1>8

\* Every step keeps what the streams of smolvla hold.
LEMMA NextKeepsApart ==
  ASSUME NoScratchInv, [CoreNext]_coreVars
  PROVE  NoScratchInv'
<1>1. /\ UNCHANGED config /\ request' \in Nat
      /\ streams' \in [Streams -> Seq(AllOps)] /\ event' \in [1 .. Layers -> AllAts]
  <2>1. CASE Begin
    BY <2>1 DEF Begin, NoScratchInv
  <2>2. CASE Issue
    BY <2>2, IssueKeepsApart DEF Issue, NoScratchInv
  <2>3. CASE Fail \/ Answer
    BY <2>3 DEF Fail, Answer, NoScratchInv
  <2>4. CASE \E st \in Streams : Run(st)
    <3>1. PICK st \in Streams : Run(st)
      BY <2>4
    <3>2. streams[st] # << >> /\ streams' = [streams EXCEPT ![st] = Tail(@)]
      BY <3>1 DEF Run
    <3>3. streams' \in [Streams -> Seq(AllOps)]
      BY <3>2 DEF NoScratchInv
    <3>4. UNCHANGED <<config, request, event>>
      BY <3>1 DEF Run, hostVars
    <3> QED BY <3>3, <3>4 DEF NoScratchInv
  <2>5. CASE UNCHANGED coreVars
    BY <2>5 DEF coreVars, hostVars, NoScratchInv
  <2> QED BY <2>1, <2>2, <2>3, <2>4, <2>5 DEF CoreNext
<1>2. AllAts' = AllAts /\ AllOps' = AllOps /\ backend' = backend
  BY <1>1, OpsFixed DEF config
<1> QED BY <1>1, <1>2 DEF NoScratchInv

\* So smolvla never is at the scratch.
LEMMA ScratchOfSmolvla ==
  ASSUME NoScratchInv PROVE ScratchExclusive
<1>1. \A st \in Streams : streams[st] # << >> => Head(streams[st]) \in AllOps
  BY DEF NoScratchInv
<1>2. \A st \in Streams : streams[st] # << >> => Apart(Head(streams[st]))
  BY <1>1, OpsApart DEF NoScratchInv
<1>3. \A st \in {"main", "side"} : st \in Streams
  BY DEF Streams
<1> QED BY <1>2, <1>3 DEF ScratchExclusive, Apart

\* No two streams are at the scratch of fastwam's fused kernels at once, for any number of
\* layers, steps, requests and failures (fused_action.py:104-123; fastwam.py:505-541).
THEOREM CoreScratchExclusive == CoreSpec => []ScratchExclusive
<1> DEFINE Inv == CoreInv \/ NoScratchInv
<1>1. CoreInit => Inv
  <2>1. CASE CoreInit /\ backend = "smolvla"
    <3>1. request \in Nat /\ event \in [1 .. Layers -> AllAts] /\ streams \in [Streams -> Seq(AllOps)]
      BY <2>1 DEF CoreInit, AllAts
    <3> QED BY <2>1, <3>1 DEF NoScratchInv
  <2>2. CASE CoreInit /\ backend # "smolvla"
    <3>1. ConfigInv
      BY <2>2 DEF CoreInit, ConfigInv
    <3> QED BY <2>2, <3>1, InitCore
  <2> QED BY <2>1, <2>2
<1>2. Inv /\ [CoreNext]_coreVars => Inv'
  BY NextCore, NextKeepsApart
<1>3. Inv => ScratchExclusive
  BY ScratchOfCore, ScratchOfSmolvla
<1> QED BY <1>1, <1>2, <1>3, PTL DEF CoreSpec

=============================================================================
