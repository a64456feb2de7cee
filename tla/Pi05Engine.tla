----------------------------- MODULE Pi05Engine -----------------------------
(***************************************************************************)
(* The pi05 engine with CUDA graphs (tybok/policies/pi05/engine.py), its   *)
(* graph runner (tybok/graph.py) and the state of the one model object     *)
(* that captured graphs and eager requests share                           *)
(* (policies/pi05/models/flow_matching.py).                                *)
(*                                                                         *)
(* One graph is captured per key [cams, lang]: image slots and language    *)
(* length.  The prefix of a request has 256 tokens for each image slot and *)
(* lang < 256 language tokens, so its length tells both: two prefixes have *)
(* the same length exactly when their keys are equal, and a key stands for *)
(* the length.  A capture allocates the model's constants, the attention   *)
(* mask of the prefix among them, and replaces those of the capture before.*)
(*                                                                         *)
(* Requests are sequential (WorkerServer's engine lock).  The startup      *)
(* profile, the validation dumps and the numerics are left out.            *)
(***************************************************************************)
EXTENDS Integers

CONSTANTS
  RealCams,     \* cameras of the checkpoint a client may send
  EmptyCams,    \* placeholder image slots of the checkpoint
  MaxLang,      \* tokenizer_max_length
  LangBucket,   \* LANG_BUCKET
  ActionSteps,  \* n_action_steps
  MaxCaptures   \* bound: captures attempted in a behaviour

ASSUME Pi05Assumption ==
  /\ RealCams \in Nat \ {0}
  /\ EmptyCams \in Nat
  /\ MaxLang \in 1 .. 255
  /\ LangBucket \in Nat \ {0}
  /\ ActionSteps \in Nat \ {0}
  /\ MaxCaptures \in Nat

VARIABLES
  padFree, rtc,  \* --pad-free, --rtc: fixed at startup
  graphEnabled,  \* engine.graph_enabled
  todo,          \* keys still to capture at startup
  serving,       \* the startup is over
  graphs,        \* GraphRunner._entries: key -> constants read and kept alive
  useStatic,     \* model.use_static
  constants,     \* the constants the model holds: their capture, 0 for None
  maskKey,       \* key the model's _prefix_att_masks was sized for
  captures,      \* captures attempted so far
  queue,         \* actions left in _action_queue
  last           \* the last request and how it ended

options    == <<padFree, rtc>>
modelVars  == <<useStatic, constants, maskKey, captures>>
engineVars == <<graphEnabled, todo, serving, queue>>
vars == <<options, modelVars, engineVars, graphs, last>>

Min2(a, b) == IF a <= b THEN a ELSE b

Keys    == [cams : 1 .. RealCams + EmptyCams, lang : 1 .. MaxLang]
NoKey   == [cams |-> 0, lang |-> 0]
\* A frame: the cameras it carries and its language tokens that are not padding.
Frames  == [cams : 1 .. RealCams, live : 1 .. MaxLang]
NoLast  == [frame |-> [cams |-> 0, live |-> 0], guided |-> FALSE, outcome |-> "none",
            prefix |-> NoKey]

-----------------------------------------------------------------------------
(* The packing rule: packed_lang_len, live_camera_keys, _slot_count.       *)

\* Mutant: the length is not put on the grid.
ExactLangLen(live) == live

PackedLangLen(live) ==
  Min2(((live + LangBucket - 1) \div LangBucket) * LangBucket, MaxLang)

SlotCount(frame) == IF padFree THEN frame.cams ELSE RealCams + EmptyCams

\* What _run_graph asks the runner for.
GraphKey(frame) ==
  [cams |-> SlotCount(frame),
   lang |-> IF padFree THEN PackedLangLen(frame.live) ELSE MaxLang]

\* What _get_action_chunk and sample_actions build: packed unless use_static.
EagerPrefix(frame) ==
  [cams |-> SlotCount(frame),
   lang |-> IF padFree /\ ~useStatic THEN PackedLangLen(frame.live) ELSE MaxLang]

-----------------------------------------------------------------------------
(* Startup.                                                                *)

\* _graph_keys: counts is --graph-cameras after the clamp, in ascending order.
StartupKeys(counts) ==
  IF padFree THEN { [cams |-> c, lang |-> MaxLang] : c \in counts }
             ELSE { [cams |-> RealCams + EmptyCams, lang |-> MaxLang] }

Init ==
  /\ padFree \in BOOLEAN
  /\ rtc \in BOOLEAN
  /\ graphEnabled \in BOOLEAN
  /\ IF graphEnabled
     THEN \E counts \in (SUBSET (1 .. RealCams)) \ {{}} : todo = StartupKeys(counts)
     ELSE todo = {}
  /\ serving = FALSE
  /\ graphs = << >>
  /\ useStatic = FALSE
  /\ constants = 0
  /\ maskKey = NoKey
  /\ captures = 0
  /\ queue = 0
  /\ last = NoLast

\* Mutant: the entry does not keep the constants its graph reads.
NewEntryUnkept(key) == graphs' = [k \in DOMAIN graphs \cup {key} |->
  IF k = key THEN [reads |-> captures + 1, keeps |-> {}] ELSE graphs[k]]

\* GraphRunner.set of what _capture_graph returned.
NewEntry(key) == graphs' = [k \in DOMAIN graphs \cup {key} |->
  IF k = key THEN [reads |-> captures + 1, keeps |-> {captures + 1}] ELSE graphs[k]]

\* _capture_graph puts the model into static mode and replaces its constants.
Capture(key) ==
  /\ captures < MaxCaptures
  /\ captures' = captures + 1
  /\ useStatic' = TRUE
  /\ constants' = captures + 1
  /\ maskKey' = key
  /\ NewEntry(key)

\* It fails before or after the constants are replaced; nothing is undone.
CaptureFails(key) ==
  /\ captures < MaxCaptures
  /\ captures' = captures + 1
  /\ useStatic' = TRUE
  /\ \/ /\ constants' = captures + 1
        /\ maskKey' = key
     \/ UNCHANGED <<constants, maskKey>>
  /\ UNCHANGED graphs

\* GraphRunner.precapture, by ascending count: a key that fails is skipped.
Precapture ==
  /\ ~serving
  /\ \E key \in todo :
       /\ \A k \in todo : key.cams <= k.cams
       /\ Capture(key) \/ CaptureFails(key)
       /\ todo' = todo \ {key}
  /\ UNCHANGED <<options, graphEnabled, serving, queue, last>>

\* Mutant: the model stays in static mode.
StartServingStatic ==
  /\ ~serving /\ todo = {}
  /\ serving' = TRUE
  /\ graphEnabled' = (graphEnabled /\ DOMAIN graphs # {})
  /\ UNCHANGED <<options, modelVars, graphs, todo, queue, last>>

\* When every key failed the engine and the model go back to eager.
StartServing ==
  /\ ~serving /\ todo = {}
  /\ serving' = TRUE
  /\ IF graphEnabled /\ DOMAIN graphs = {}
     THEN graphEnabled' = FALSE /\ useStatic' = FALSE
     ELSE UNCHANGED <<graphEnabled, useStatic>>
  /\ UNCHANGED <<options, constants, maskKey, captures, graphs, todo, queue, last>>

-----------------------------------------------------------------------------
(* Requests.                                                               *)

Ends(frame, guided, outcome, prefix) ==
  last' = [frame |-> frame, guided |-> guided, outcome |-> outcome, prefix |-> prefix]

\* _run_graph: a key startup missed is captured now, and an exception of that
\* capture is the request's.
RunGraph(frame) ==
  LET key == GraphKey(frame)
  IN  \/ /\ key \in DOMAIN graphs
         /\ Ends(frame, FALSE, "ok", key)
         /\ UNCHANGED <<modelVars, graphs>>
      \/ /\ key \notin DOMAIN graphs
         /\ Capture(key)
         /\ Ends(frame, FALSE, "ok", key)
      \/ /\ key \notin DOMAIN graphs
         /\ CaptureFails(key)
         /\ Ends(frame, FALSE, "capture", NoKey)

\* policy.predict_action_chunk: under use_static embed_prefix takes the model's
\* mask, and a mask of another length is an error in make_att_2d_masks.
RunEager(frame, guided) ==
  LET prefix == EagerPrefix(frame)
      fits   == ~useStatic \/ maskKey = NoKey \/ maskKey = prefix
  IN  /\ Ends(frame, guided, IF fits THEN "ok" ELSE "mismatch", prefix)
      /\ UNCHANGED <<modelVars, graphs>>

Infer(frame, guided) ==
  IF ~guided /\ graphEnabled /\ DOMAIN graphs # {}
  THEN RunGraph(frame) ELSE RunEager(frame, guided)

\* A request is guided when RTC is on and it carries the rest of a chunk.
PredictActionChunk(frame, guided) ==
  /\ serving
  /\ guided => rtc
  /\ Infer(frame, guided)
  /\ UNCHANGED <<options, engineVars>>

\* select_action: an inference only when no action is left.
SelectAction(frame) ==
  /\ serving /\ ~rtc
  /\ \/ /\ queue > 0
        /\ queue' = queue - 1
        /\ UNCHANGED <<modelVars, graphs, last>>
     \/ /\ queue = 0
        /\ Infer(frame, FALSE)
        /\ queue' = IF last'.outcome = "ok" THEN ActionSteps - 1 ELSE 0
  /\ UNCHANGED <<options, graphEnabled, todo, serving>>

Next ==
  \/ Precapture
  \/ StartServing
  \/ \E frame \in Frames, guided \in BOOLEAN : PredictActionChunk(frame, guided)
  \/ \E frame \in Frames : SelectAction(frame)

Spec == Init /\ [][Next]_vars

-----------------------------------------------------------------------------
TypeOK ==
  /\ padFree \in BOOLEAN /\ rtc \in BOOLEAN /\ graphEnabled \in BOOLEAN
  /\ todo \subseteq Keys
  /\ serving \in BOOLEAN
  /\ DOMAIN graphs \subseteq Keys
  /\ \A k \in DOMAIN graphs :
       graphs[k] \in [reads : 1 .. captures, keeps : SUBSET (1 .. captures)]
  /\ useStatic \in BOOLEAN
  /\ constants \in 0 .. captures
  /\ maskKey \in Keys \cup {NoKey}
  /\ captures \in 0 .. MaxCaptures
  /\ queue \in 0 .. ActionSteps - 1
  /\ last \in [frame : Frames \cup {NoLast.frame}, guided : BOOLEAN,
               outcome : {"none", "ok", "capture", "mismatch"}, prefix : Keys \cup {NoKey}]

-----------------------------------------------------------------------------
(* Safety *)

\* A replay reads constants that are still allocated: those the model holds or
\* an entry keeps alive (engine.py:572-575), however many shapes were captured
\* since and whatever their captures came to.
ConstantsAlive ==
  \A k \in DOMAIN graphs :
    graphs[k].reads \in {constants} \cup UNION {graphs[j].keeps : j \in DOMAIN graphs}

\* "the number of distinct captured graph shapes stays bounded as the task
\* string changes" (flow_matching.py:731-732): whatever frames came, the
\* captured language lengths are on the grid.
ShapesBounded ==
  \A k \in DOMAIN graphs :
    k.lang = MaxLang \/ \E m \in 1 .. MaxLang : k.lang = m * LangBucket

\* Every request but one kind runs at the prefix length of the packing rule and
\* meets a mask of that length, on the graph path and on the eager path, also
\* after captures that failed.  The kind left out is the guided request of
\* --pad-free with graphs.
PackedAlike ==
  (last.outcome \in {"ok", "mismatch"} /\ ~(padFree /\ graphEnabled /\ last.guided))
    => last.outcome = "ok" /\ last.prefix = GraphKey(last.frame)

\* "the two paths must build the same prefix length" (policy.py:116-118,
\* config.py:107-113): no request meets the mask of another length.
SamePrefix == last.outcome # "mismatch"
=============================================================================
