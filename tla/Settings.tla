------------------------------ MODULE Settings ------------------------------
(***************************************************************************)
(* The settings of a launch: the tables that say what each key may hold    *)
(* and who may set it (metralectl-core/src/settings/), the check of a      *)
(* value against its bound (metralectl-protocol/src/settings.rs), the      *)
(* layers a setting comes from (chain.rs), and the engine flags it is      *)
(* rendered to (flags/).                                                   *)
(*                                                                         *)
(* A value is a pair of its type and its content; a float is its content   *)
(* times 100, and "inf" is one that is not finite.  The tables are the     *)
(* program's own, without labels and help texts.                           *)
(***************************************************************************)
EXTENDS Integers, Sequences, FiniteSets, TLC, SequencesExt

-----------------------------------------------------------------------------
(***************************************************************************)
(* Bounds and values.                                                      *)
(***************************************************************************)
Int_(lo, hi)    == <<"Int", lo, hi>>
Float(lo, hi)   == <<"Float", lo, hi>>
IntOrAuto(lo, hi) == <<"IntOrAuto", lo, hi>>
Enum(variants)  == <<"Enum", variants>>
Toggle          == <<"Toggle">>

Bool(b) == <<"bool", b>>
Num(n)  == <<"int", n>>
Real(x) == <<"float", x>>
Str(s)  == <<"str", s>>
Inf     == <<"inf">>

Ok(x)  == <<"ok", x>>
Err(e) == <<"err", e>>

KV_DTYPES == {
    "bf16", "fp8", "nvfp4", "turbo4", "turbo3", "turbo2", "turbo8",
    "turbo4k_turbo3v", "turbo4k_turbo8v", "turbo3k_turbo8v",
    "bf16k_turbo4v", "bf16k_turbo3v", "fp8k_turbo4v", "fp8k_turbo3v",
    "bf16k_turbo2v", "fp8k_turbo2v"}
DTYPES           == {"bf16", "fp8", "nvfp4"}
LM_HEAD_DTYPES   == {"default", "bf16", "nvfp4", "fp8"}
SSM_H_DTYPES     == {"f32", "f16", "f16-pool"}
MTP_GATES        == {"auto", "force"}
TRISTATES        == {"auto", "on", "off"}
TELEMETRY_LEVELS == {"off", "basic", "kernel"}

(***************************************************************************)
(* What a page may set, and what it may not.                               *)
(***************************************************************************)
EXPOSED == {
    <<"port",                   Int_(1, 65535)>>,
    <<"tensor_parallel",        Int_(1, 8)>>,
    <<"ep_size",                Int_(1, 8)>>,
    <<"max_batch_size",         Int_(1, 256)>>,
    <<"max_num_seqs",           Int_(1, 256)>>,
    <<"max_prefill_tokens",     Int_(256, 262144)>>,
    <<"max_num_batched_tokens", Int_(256, 262144)>>,
    <<"scheduler",              Enum({"fifo", "slai"})>>,
    <<"scheduler_config",       Enum({"sync", "async"})>>,
    <<"tbt_deadline_ms",        Int_(1, 10000)>>,
    <<"enable_prefix_caching",  Toggle>>}

EXPOSED_MEMORY == {
    <<"gpu_memory_utilization",    Float(10, 95)>>,
    <<"max_model_len",             Int_(256, 262144)>>,
    <<"kv_cache_dtype",            Enum(KV_DTYPES)>>,
    <<"kv_high_precision_layers",  IntOrAuto(0, 256)>>,
    <<"block_size",                Enum({"8", "16", "32", "64"})>>,
    <<"oom_guard_mb",              Int_(0, 16384)>>,
    <<"fp8_kv_calibration_tokens", Int_(0, 65536)>>,
    <<"ssm_cache_slots",           Int_(0, 4096)>>,
    <<"ssm_checkpoint_interval",   Int_(1, 8192)>>}

EXPOSED_SPECULATIVE == {
    <<"speculative",         Toggle>>,
    <<"self_speculative",    Toggle>>,
    <<"ngram_speculative",   Toggle>>,
    <<"dflash",              Toggle>>,
    <<"num_drafts",          Int_(1, 8)>>,
    <<"mtp_quantization",    Enum(DTYPES)>>,
    <<"dflash_gamma",        Int_(1, 16)>>,
    <<"dflash_window_size",  Int_(1, 8192)>>,
    <<"tool_max_tokens",     Int_(64, 65536)>>,
    <<"tool_grammar",        Enum(TRISTATES)>>,
    <<"disable_thinking",    Toggle>>,
    <<"max_thinking_budget", Int_(0, 262144)>>}

EXPOSED_KERNELS == {
    <<"lm_head_dtype",         Enum(LM_HEAD_DTYPES)>>,
    <<"ssm_h_dtype",           Enum(SSM_H_DTYPES)>>,
    <<"gdn_fused_norm",        Toggle>>,
    <<"ssm_batched_recurrent", Enum(TRISTATES)>>,
    <<"no_ssm_tail_midchunk",  Toggle>>,
    <<"prefill_varlen_batch",  Toggle>>,
    <<"w4a4_downcast",         Toggle>>,
    <<"w4a4_downcast_wide",    Toggle>>,
    <<"mtp_gate",              Enum(MTP_GATES)>>,
    <<"telemetry",             Enum(TELEMETRY_LEVELS)>>,
    <<"request_timeout",       Int_(0, 86400)>>}

DENIED == {
    "host", "served_model_name", "mtp_vocab", "draft_model",
    "tool_call_parser", "model_from_path", "cache_dir", "gpu_ordinal",
    "api_key", "require_auth", "high_speed_swap", "high_speed_swap_dir",
    "high_speed_swap_gb", "high_speed_swap_resident_blocks",
    "high_speed_swap_rank", "high_speed_swap_qd",
    "high_speed_swap_cache_blocks_per_seq", "no_high_speed_swap_graph",
    "video_allow_ffmpeg"}

Exposed == EXPOSED \cup EXPOSED_MEMORY \cup EXPOSED_SPECULATIVE \cup EXPOSED_KERNELS

ExposedKeys == {row[1] : row \in Exposed}

BoundOf(key) == (CHOOSE row \in Exposed : row[1] = key)[2]

(***************************************************************************)
(* The engine's flags, in the order they are rendered, and the keys the    *)
(* engine has that no recipe may set.                                      *)
(***************************************************************************)
SERVE_FLAGS == <<
    <<"port",                      "--port",                      "Value">>,
    <<"host",                      "--host",                      "Value">>,
    <<"tensor_parallel",           "--tp-size",                   "Value">>,
    <<"gpu_memory_utilization",    "--gpu-memory-utilization",    "Value">>,
    <<"max_model_len",             "--max-seq-len",               "Value">>,
    <<"max_num_seqs",              "--max-num-seqs",              "Value">>,
    <<"max_num_batched_tokens",    "--max-prefill-tokens",        "Value">>,
    <<"served_model_name",         "--model-name",                "Value">>,
    <<"kv_cache_dtype",            "--kv-cache-dtype",            "Value">>,
    <<"ep_size",                   "--ep-size",                   "Value">>,
    <<"max_batch_size",            "--max-batch-size",            "Value">>,
    <<"block_size",                "--block-size",                "Value">>,
    <<"kv_high_precision_layers",  "--kv-high-precision-layers",  "Value">>,
    <<"tool_call_parser",          "--tool-call-parser",          "Value">>,
    <<"tool_max_tokens",           "--tool-max-tokens",           "Value">>,
    <<"tool_grammar",              "--tool-grammar",              "Value">>,
    <<"fp8_kv_calibration_tokens", "--fp8-kv-calibration-tokens", "Value">>,
    <<"scheduler",                 "--scheduler",                 "Value">>,
    <<"tbt_deadline_ms",           "--tbt-deadline-ms",           "Value">>,
    <<"max_prefill_tokens",        "--max-prefill-tokens",        "Value">>,
    <<"oom_guard_mb",              "--oom-guard-mb",              "Value">>,
    <<"ssm_cache_slots",           "--ssm-cache-slots",           "Value">>,
    <<"ssm_checkpoint_interval",   "--ssm-checkpoint-interval",   "Value">>>>

TUNING_FLAGS == <<
    <<"mtp_quantization",                     "--mtp-quantization",                     "Value">>,
    <<"mtp_vocab",                            "--mtp-vocab",                            "Value">>,
    <<"num_drafts",                           "--num-drafts",                           "Value">>,
    <<"draft_model",                          "--draft-model",                          "Value">>,
    <<"dflash_gamma",                         "--dflash-gamma",                         "Value">>,
    <<"dflash_window_size",                   "--dflash-window-size",                   "Value">>,
    <<"max_thinking_budget",                  "--max-thinking-budget",                  "Value">>,
    <<"model_from_path",                      "--model-from-path",                      "Value">>,
    <<"cache_dir",                            "--cache-dir",                            "Value">>,
    <<"gpu_ordinal",                          "--gpu-ordinal",                          "Value">>,
    <<"high_speed_swap_dir",                  "--high-speed-swap-dir",                  "Value">>,
    <<"high_speed_swap_gb",                   "--high-speed-swap-gb",                   "Value">>,
    <<"high_speed_swap_resident_blocks",      "--high-speed-swap-resident-blocks",      "Value">>,
    <<"high_speed_swap_rank",                 "--high-speed-swap-rank",                 "Value">>,
    <<"high_speed_swap_qd",                   "--high-speed-swap-qd",                   "Value">>,
    <<"high_speed_swap_cache_blocks_per_seq", "--high-speed-swap-cache-blocks-per-seq", "Value">>,
    <<"enable_prefix_caching",                "--enable-prefix-caching",                "BoolToggle">>,
    <<"speculative",                          "--speculative",                          "BoolToggle">>,
    <<"self_speculative",                     "--self-speculative",                     "BoolToggle">>,
    <<"ngram_speculative",                    "--ngram-speculative",                    "BoolToggle">>,
    <<"dflash",                               "--dflash",                               "BoolToggle">>,
    <<"disable_thinking",                     "--disable-thinking",                     "BoolToggle">>>>

KERNEL_FLAGS == <<
    <<"high_speed_swap",          "--high-speed-swap",          "BoolToggle">>,
    <<"require_auth",             "--require-auth",             "BoolToggle">>,
    <<"api_key",                  "--auth-token",               "Value">>,
    <<"lm_head_dtype",            "--lm-head-dtype",            "Value">>,
    <<"ssm_h_dtype",              "--ssm-h-dtype",              "Value">>,
    <<"gdn_fused_norm",           "--gdn-fused-norm",           "BoolToggle">>,
    <<"ssm_batched_recurrent",    "--ssm-batched-recurrent",    "Value">>,
    <<"no_ssm_tail_midchunk",     "--no-ssm-tail-midchunk",     "BoolToggle">>,
    <<"mtp_gate",                 "--mtp-gate",                 "Value">>,
    <<"prefill_varlen_batch",     "--prefill-varlen-batch",     "BoolToggle">>,
    <<"request_timeout",          "--request-timeout",          "Value">>,
    <<"video_allow_ffmpeg",       "--video-allow-ffmpeg",       "BoolToggle">>,
    <<"scheduler_config",         "--scheduler-config",         "Value">>,
    <<"telemetry",                "--telemetry",                "Value">>,
    <<"w4a4_downcast",            "--w4a4-downcast",            "BoolToggle">>,
    <<"w4a4_downcast_wide",       "--w4a4-downcast-wide",       "BoolToggle">>,
    <<"no_high_speed_swap_graph", "--no-high-speed-swap-graph", "BoolToggle">>>>

METRALE_FLAGS == SERVE_FLAGS \o TUNING_FLAGS \o KERNEL_FLAGS

EXCLUDED == {
    "rank", "world_size", "master_addr", "master_port", "kernel_target",
    "auth_tokens_file", "warmup_prompt", "video_ffmpeg_path",
    "lora_adapter", "lora_stageable", "lora_stageable_disk",
    "max_lora_rank", "max_loras", "vision_allow_remote_images",
    "vision_remote_image_max_mb", "vision_remote_image_timeout_s",
    "vision_remote_image_allow_private", "check_kernels", "dump",
    "profile", "no_tui", "dangerously_allow_unresolved_kernel_lookups",
    "auto_swap", "auto_compact", "default_top_n_sigma", "default_min_p",
    "adaptive_sampling", "default_chat_template_kwargs",
    "disable_template_overrides", "max_inter_tool_prose",
    "content_loop_watchdog", "content_loop_min_repeats", "src_lang",
    "tgt_lang", "ssm_rollback_mode", "exact_verify", "no_fast_load",
    "fast_load_prefetch_shards", "swap_space_gb", "fp8_kv_headroom",
    "vision_max_pixels", "video_fps", "video_max_frames",
    "video_decode_timeout_s", "ssm_decode_ring_slots",
    "marconi_min_tokens", "prefill_codispatch", "hermetic"}

FlagKeys == {METRALE_FLAGS[i][1] : i \in DOMAIN METRALE_FLAGS}

-----------------------------------------------------------------------------
(***************************************************************************)
(* Bound::check.  The value that is kept may differ from the one sent: a   *)
(* whole number sent for a float is kept as a float.                       *)
(***************************************************************************)
Within(n, bound) == bound[2] <= n /\ n <= bound[3]

CheckInt(bound, x) ==
    IF x[1] # "int" THEN Err("WrongType")
    ELSE IF Within(x[2], bound) THEN Ok(x) ELSE Err("OutOfRange")

CheckFloat(bound, x) ==
    LET n == IF x[1] = "int" THEN x[2] * 100 ELSE x[2] IN
    IF x[1] = "inf" THEN Err("OutOfRange")
    ELSE IF x[1] \notin {"int", "float"} THEN Err("WrongType")
    ELSE IF Within(n, bound) THEN Ok(Real(n)) ELSE Err("OutOfRange")

CheckEnum(bound, x) ==
    IF x[1] = "str" /\ x[2] \in bound[2] THEN Ok(x) ELSE Err("NotAVariant")

CheckToggle(x) == IF x[1] = "bool" THEN Ok(x) ELSE Err("WrongType")

CheckIntOrAuto(bound, x) ==
    IF x = Str("auto") THEN Ok(x)
    ELSE IF x[1] # "int" THEN Err("WrongType")
    ELSE IF Within(x[2], bound) THEN Ok(x) ELSE Err("OutOfRange")

Check(bound, x) ==
    CASE bound[1] = "Int"       -> CheckInt(bound, x)
      [] bound[1] = "Float"     -> CheckFloat(bound, x)
      [] bound[1] = "Enum"      -> CheckEnum(bound, x)
      [] bound[1] = "Toggle"    -> CheckToggle(x)
      [] bound[1] = "IntOrAuto" -> CheckIntOrAuto(bound, x)

SettingErrors == {"UnknownKey", "Denied", "OutOfRange", "WrongType", "NotAVariant"}

\* validate, for one key of a request that came from a page.
Verdict(key, x) ==
    IF key \in ExposedKeys THEN Check(BoundOf(key), x)
    ELSE IF key \in DENIED THEN Err("Denied")
    ELSE Err("UnknownKey")

\* validate: all or nothing.
Valid(requested) == \A k \in DOMAIN requested : Verdict(k, requested[k])[1] = "ok"
Validate(requested) ==
    [k \in {j \in DOMAIN requested : Verdict(j, requested[j])[1] = "ok"} |->
        Verdict(k, requested[k])[2]]

IsTruthy(x) ==
    CASE x[1] = "bool"             -> x[2]
      [] x[1] \in {"int", "float"} -> x[2] # 0
      [] x[1] = "inf"              -> TRUE
      [] x[1] = "str"              -> x[2] # ""

\* ScalarValue::render.
Rendered(x) == CASE x[1] = "str"  -> x[2]
                 [] x[1] = "bool" -> IF x[2] THEN "true" ELSE "false"
                 [] x[1] = "inf"  -> "inf"
                 [] OTHER         -> ToString(x[2])

\* check_override: what the operator's own command line may say.  A key that is
\* denied to pages, or unknown, passes.
CheckOverride(key, x) ==
    IF key \notin ExposedKeys THEN TRUE
    ELSE LET bound == BoundOf(key)
             sent  == CASE bound[1] = "Enum"   -> Str(Rendered(x))
                        [] bound[1] = "Toggle" -> Bool(IsTruthy(x))
                        [] OTHER               -> x
         IN  Check(bound, sent)[1] = "ok"

\* caution: a share of the memory that has frozen a machine of this kind.
Caution(key, x, accelerator) ==
    key = "gpu_memory_utilization" /\ accelerator = "gb10" /\ x[2] > 88

-----------------------------------------------------------------------------
(***************************************************************************)
(* ResolvedConfig::resolve: the command line beats the owner's own         *)
(* defaults, which beat the recipe's; then the alias of api_key is folded. *)
(***************************************************************************)
Normalize(cfg) ==
    IF "auth_token" \notin DOMAIN cfg THEN cfg
    ELSE LET folded == ("api_key" :> cfg["auth_token"]) IN
         LET all == cfg @@ folded IN
         [k \in DOMAIN all \ {"auth_token"} |-> all[k]]

Resolve(defaults, user, overrides) == Normalize(overrides @@ user @@ defaults)

\* validate_no_alias_conflict: two keys that are set render one flag.
AliasConflict(cfg) ==
    \E i, j \in DOMAIN METRALE_FLAGS :
        /\ i < j
        /\ METRALE_FLAGS[i][2] = METRALE_FLAGS[j][2]
        /\ {METRALE_FLAGS[i][1], METRALE_FLAGS[j][1]} \subseteq DOMAIN cfg

\* render: one flag for every key that is set, in the table's order; a toggle
\* is there or it is not.
Argument(row, cfg) ==
    IF row[3] = "Value" THEN <<row[2], Rendered(cfg[row[1]])>> ELSE <<row[2]>>

\* Mutant: a setting of zero is taken for one that is not set.
RenderSkipsZero(cfg, skip) ==
    LET used == SelectSeq(METRALE_FLAGS, LAMBDA row :
                    row[1] \in DOMAIN cfg \ skip /\ IsTruthy(cfg[row[1]]))
    IN  [i \in DOMAIN used |-> Argument(used[i], cfg)]

Render(cfg, skip) ==
    LET used == SelectSeq(METRALE_FLAGS, LAMBDA row :
                    /\ row[1] \in DOMAIN cfg \ skip
                    /\ row[3] = "BoolToggle" => IsTruthy(cfg[row[1]]))
    IN  [i \in DOMAIN used |-> Argument(used[i], cfg)]

Unmapped(cfg) == DOMAIN cfg \ FlagKeys
=============================================================================
