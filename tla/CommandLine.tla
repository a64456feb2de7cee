---------------------------- MODULE CommandLine ----------------------------
(***************************************************************************)
(* The command line of tybok (tybok/__main__.py): what becomes of an       *)
(* option between the operator and the process that needs it.              *)
(*                                                                         *)
(* "serve" builds the command lines of a worker and a gateway, which are   *)
(* parsed by the same subcommands an operator may run; each of these       *)
(* builds a second command line, for the parser of its own module.         *)
(* "validate" calls the engine itself.  Every one of these four lists      *)
(* names every option again.                                               *)
(*                                                                         *)
(* An option is left at its default, given a value, or given one Python    *)
(* takes for false (0, an empty string).                                   *)
(***************************************************************************)

Commands == {"serve", "worker", "gateway", "validate"}

\* Options of the model and the machine.
ModelFlags == {"model", "model_type", "device", "compile", "graph"}

\* Fused and low-precision tiers of pi05 and smolvla (_FUSED_ARGS, _FP8_ARGS).
TierFlags == {"tl_fused_vit", "tl_llm_flash_attn", "tl_llm_fused_attn", "tl_vit_oproj",
              "tl_fused_expert", "vit_mlp_dtype", "pad_free", "tl_fp8_llm_mlp",
              "tl_fp8_expert_mlp", "skip_empty_cams"}

SamplingFlags == {"steps", "sampler", "no_expert_prefix_kv_cache", "overlap"}

\* _add_fastwam_args and the tokenizer.
FusedFamilies == {"cu_fused_adit", "cu_fused_vdit", "cu_fused_text_encoder"}
FastwamFlags == FusedFamilies \cup
  {"tokenizer_dir", "text_encoder_dir", "vae_dir", "text_encoder_device", "text_emb_cpu",
   "pack_qkv", "video_fp8", "action_fp8", "text_fp8", "cooperative_kernel", "require_fused",
   "no_prompt_cache", "no_action_context_cache", "action_pre_fused", "video_pre_fused"}

\* _add_rtc_args; those beyond the switch itself only count with it.
RtcOptions == {"rtc_schedule", "rtc_max_guidance_weight", "rtc_execution_horizon",
               "rtc_debug", "rtc_debug_maxlen"}

EngineFlags == ModelFlags \cup TierFlags \cup SamplingFlags \cup FastwamFlags \cup {"camera_alias"}
WorkerFlags == EngineFlags \cup RtcOptions \cup {"rtc", "seed", "graph_cameras", "profile", "shm_ipc", "socket"}
IpcFlags == {"ipc_uint8", "shm_ipc", "gpu_ipc", "gpu_slots", "max_inflight"}
GatewayFlags == IpcFlags \cup {"host", "port", "worker_socket", "worker_host", "worker_port",
                               "timing", "camera_alias"}

\* The options each subcommand accepts.
Accepts(cmd) ==
  CASE cmd = "worker"   -> WorkerFlags
    [] cmd = "gateway"  -> GatewayFlags
    [] cmd = "validate" -> EngineFlags
    [] OTHER -> (WorkerFlags \cup GatewayFlags) \
                  {"worker_socket", "worker_host", "worker_port", "timing"}

Flags == WorkerFlags \cup GatewayFlags

\* Options with a value that Python may take for false.
Valued == {"model_type", "device", "graph_cameras", "steps", "seed", "camera_alias",
           "tokenizer_dir", "text_encoder_dir", "vae_dir", "text_encoder_device",
           "rtc_max_guidance_weight", "rtc_execution_horizon", "rtc_debug_maxlen",
           "gpu_slots", "max_inflight", "port", "worker_port"}

Values(f) == {"default", "given"} \cup (IF f \in Valued THEN {"falsy"} ELSE {})
Untouched == [f \in Flags |-> "default"]

-----------------------------------------------------------------------------
(* The lists.  An option is passed on by one of four rules.                *)

IfTrue(v)  == IF v = "falsy" THEN "default" ELSE v
Always(v)  == v
Never(v)   == "default"
With(asked, groups, v) == IF \E g \in groups : asked[g] = "given" THEN v ELSE "default"

\* Passed on whatever the value: positional options, "is not None" and "!= default".
Unconditional == {"model", "socket", "device", "host", "port", "worker_host", "worker_port",
                  "seed", "sampler", "rtc_debug_maxlen"}

\* Mutants: the list forgets an option, or the group of one.
PassedToWorkerLess(asked, f) == IF f = "require_fused" THEN "default" ELSE asked[f]

\* _cmd_serve, the worker's half.
PassedToWorker(asked, f) ==
  CASE f = "cooperative_kernel" -> With(asked, FusedFamilies, asked[f])
    [] f \in RtcOptions -> With(asked, {"rtc"}, asked[f])
    [] f \in Unconditional \ RtcOptions -> Always(asked[f])
    [] OTHER -> IfTrue(asked[f])

\* _cmd_serve, the gateway's half: the worker's socket is the gateway's worker_socket.
PassedToGateway(asked, f) ==
  CASE f = "worker_socket" -> asked["socket"]
    [] f \in {"worker_host", "worker_port", "timing"} -> Never(asked[f])
    [] f = "gpu_slots" -> With(asked, {"gpu_ipc"}, asked[f])
    [] f \in Unconditional \ {"worker_host", "worker_port"} -> Always(asked[f])
    [] OTHER -> IfTrue(asked[f])

\* _import_worker.
ToWorkerModule(asked, f) ==
  CASE f = "cooperative_kernel" -> With(asked, FusedFamilies, asked[f])
    [] f \in RtcOptions \ {"rtc_debug", "rtc_debug_maxlen"} -> With(asked, {"rtc"}, asked[f])
    [] f \in Unconditional -> Always(asked[f])
    [] OTHER -> IfTrue(asked[f])

\* _import_gateway: no --max-inflight in this list.
ToGatewayModule(asked, f) ==
  CASE f = "max_inflight" -> Never(asked[f])
    [] f = "gpu_slots" -> With(asked, {"gpu_ipc"}, asked[f])
    [] f \in Unconditional \cup {"worker_socket"} -> Always(asked[f])
    [] OTHER -> IfTrue(asked[f])

\* _cmd_validate: the call of create_engine, without video_fused.
ToValidatedEngine(asked, f) ==
  CASE f = "cu_fused_vdit" -> Never(asked[f])
    [] f \in {"tokenizer_dir", "text_encoder_dir", "vae_dir", "text_encoder_device",
              "camera_alias"} -> IfTrue(asked[f])
    [] OTHER -> Always(asked[f])

\* worker.main: the RTC options are read with --rtc only.
WorkerReads(asked, f) == IF f \in RtcOptions THEN With(asked, {"rtc"}, asked[f]) ELSE asked[f]

\* gateway.main: a socket, of which tybok always passes one, makes the address unused.
GatewayReads(asked, f) == IF f \in {"worker_host", "worker_port"} THEN "default" ELSE asked[f]

Hop(rule(_, _), asked, accepted) ==
  [f \in Flags |-> IF f \in accepted THEN rule(asked, f) ELSE "default"]

\* What the worker, or the gateway, or the engine runs with.
ReceivedByWorker(cmd, asked) ==
  LET first == IF cmd = "serve" THEN Hop(PassedToWorker, asked, WorkerFlags) ELSE asked
  IN  Hop(WorkerReads, Hop(ToWorkerModule, first, WorkerFlags), WorkerFlags)

ReceivedByGateway(cmd, asked) ==
  LET first == IF cmd = "serve" THEN Hop(PassedToGateway, asked, GatewayFlags) ELSE asked
  IN  Hop(GatewayReads, Hop(ToGatewayModule, first, GatewayFlags), GatewayFlags)

ReceivedByEngine(asked) == Hop(ToValidatedEngine, asked, EngineFlags)

\* Options that by their help text count only with another one.
Needs(f) ==
  CASE f \in RtcOptions -> {"rtc"}
    [] f = "cooperative_kernel" -> FusedFamilies
    [] f = "gpu_slots" -> {"gpu_ipc"}
    [] OTHER -> {f}

\* f was asked for, and what it counts with.
Asks(asked, f) == asked[f] = "given" /\ \E g \in Needs(f) : asked[g] = "given"

\* A command refused before any process starts.
Refused(cmd, asked) == cmd = "serve" /\ asked["shm_ipc"] = "given" /\ asked["gpu_ipc"] = "given"
=============================================================================
