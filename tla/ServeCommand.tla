---------------------------- MODULE ServeCommand ----------------------------
(***************************************************************************)
(* From a recipe to the command that serves it: which registry a name is   *)
(* resolved in (metralectl-core/src/registry/), what a recipe file may say *)
(* (recipe/), what makes two recipes the same (recipe/fingerprint.rs), and *)
(* the docker command a recipe, the settings and a placement translate to  *)
(* (docker/translate.rs, docker/command.rs).                               *)
(*                                                                         *)
(* A recipe's text fields are "ok", "blank" or "dash" (it starts with a    *)
(* dash); a value of its environment is a literal or one variable of the   *)
(* host; a command line is a sequence of options, each with its argument.  *)
(***************************************************************************)
EXTENDS Settings

-----------------------------------------------------------------------------
(***************************************************************************)
(* Recipe::parse.                                                          *)
(***************************************************************************)
EXECUTABLE_KEYS == {"pre_exec", "post_exec", "post_commands", "stop_after_post",
                    "mods", "builder", "builder_config"}
ISOLATION_KEYS  == {"executor_config"}

RefusedKeys(raw) == raw.extra \cap (EXECUTABLE_KEYS \cup ISOLATION_KEYS)
UnknownKeys(raw) == raw.extra \ RefusedKeys(raw)

MaxOf(x, y) == IF x < y THEN y ELSE x

\* Topology::from_raw.  A maximum of 0 stands for none.
Topology(raw) ==
    LET asked == MaxOf(raw.min_nodes, 1)
        min   == IF raw.cluster_only THEN MaxOf(asked, 2) ELSE asked
        max   == IF raw.solo_only THEN 1 ELSE raw.max_nodes
    IN  [min_nodes |-> min,
         max_nodes |-> IF max # 0 /\ max < min THEN min ELSE max]

ParseError(raw) ==
    CASE raw.model = "blank"     -> "MissingModel"
      [] raw.model = "dash"      -> "FlagShaped"
      [] raw.container = "blank" -> "MissingContainer"
      [] raw.container = "dash"  -> "FlagShaped"
      [] OTHER                   -> "none"

Parse(raw) ==
    [name |-> raw.name, version |-> raw.version, model |-> raw.model,    container |-> raw.container,
     revision |-> raw.revision, runtime   |-> raw.runtime,
     topology |-> Topology(raw), defaults |-> raw.defaults, env |-> raw.env,
     unknown  |-> UnknownKeys(raw), refused |-> RefusedKeys(raw)]

NotLaunchable == {"ExecutableContent", "ForeignRuntime", "NoRuntimeDeclared"}

\* Recipe::launchable: nothing to execute but the engine, and the engine named.
Launchable(recipe) ==
    IF recipe.refused # {} THEN "ExecutableContent"
    ELSE IF recipe.runtime = "metrale" THEN "ok"
    ELSE IF recipe.runtime = "" THEN "NoRuntimeDeclared" ELSE "ForeignRuntime"

(***************************************************************************)
(* content_hash: what is fed to the digest.  Every field is a key and a    *)
(* value with their lengths, so the digest of two recipes is the same when *)
(* the sequences are.                                                      *)
(***************************************************************************)
Field(key, value) == <<<<key, value>>>>

ScalarTag(x) == <<x[1], Rendered(x)>>

\* The entries of a map in the order of their keys, which is that of Order.
Entries(tags, Order) ==
    LET keys == SelectSeq(Order, LAMBDA k : k \in DOMAIN tags) IN
    [i \in DOMAIN keys |-> <<keys[i], tags[keys[i]]>>]

\* A value of the environment is hashed as the recipe has it, not expanded.
EnvTag(v) == <<v[1], v[2]>>

RuntimeTag(runtime) == IF runtime = "metrale" THEN "metrale" ELSE <<"unsupported", runtime>>

Content(recipe, Order) ==
    Field("recipe_version", recipe.version) \o Field("model", recipe.model)
    \o Field("model_revision", recipe.revision)
    \o Field("runtime", RuntimeTag(recipe.runtime))
    \o Field("container", recipe.container)
    \o Field("topology", <<recipe.topology.min_nodes, recipe.topology.max_nodes>>)
    \o Field("defaults", "")
    \o Entries([k \in DOMAIN recipe.defaults |-> ScalarTag(recipe.defaults[k])], Order)
    \o Field("env", "")
    \o Entries([k \in DOMAIN recipe.env |-> EnvTag(recipe.env[k])], Order)

-----------------------------------------------------------------------------
(***************************************************************************)
(* The registries.  A remote has a name and the files of its recipe        *)
(* directory; a name that could leave that directory is never opened.      *)
(***************************************************************************)
BUILTIN  == "metrale"
RESERVED == {BUILTIN, "builtin"}

\* RemoteStore::add, on a list of remotes.
StoreAdd(remotes, remote) ==
    IF remote.name \in RESERVED \/ \E i \in DOMAIN remotes : remotes[i].name = remote.name
    THEN remotes
    ELSE Append(remotes, remote)

\* RemoteStore::remove.
StoreRemove(remotes, name) == SelectSeq(remotes, LAMBDA r : r.name # name)

\* RemoteRegistry::load: a file of that name, unless the name is not a plain one.
RemoteLoad(remote, name, Plain) == name \in Plain /\ name \in remote.files

Carriers(remotes, name) == SelectSeq(remotes, LAMBDA r : name \in r.files)

\* Mutant: the remotes are asked first.
ResolveRemotesFirst(remotes, builtins, name, Plain) ==
    LET found == Carriers(remotes, name) IN
    CASE Len(found) = 0 -> IF name \in builtins THEN Ok(BUILTIN) ELSE Err("NotFoundAnywhere")
      [] Len(found) = 1 -> IF RemoteLoad(found[1], name, Plain)
                           THEN Ok(found[1].name) ELSE Err("NotFound")
      [] OTHER          -> Err("Ambiguous")

ResolveErrors == {"NoSuchRegistry", "NotFound", "NotFoundAnywhere", "Ambiguous"}

\* RegistrySet::resolve: the registry the recipe is taken from, or an error.
ResolveBare(remotes, builtins, name, Plain) ==
    LET found == Carriers(remotes, name) IN
    IF name \in builtins THEN Ok(BUILTIN)
    ELSE CASE Len(found) = 0 -> Err("NotFoundAnywhere")
           [] Len(found) = 1 -> IF RemoteLoad(found[1], name, Plain)
                                THEN Ok(found[1].name) ELSE Err("NotFound")
           [] OTHER          -> Err("Ambiguous")

ResolveScoped(remotes, builtins, registry, name, Plain) ==
    LET named == SelectSeq(remotes, LAMBDA r : r.name = registry) IN
    IF registry = BUILTIN
    THEN IF name \in builtins THEN Ok(BUILTIN) ELSE Err("NotFound")
    ELSE IF named = <<>> THEN Err("NoSuchRegistry")
    ELSE IF RemoteLoad(named[1], name, Plain) THEN Ok(registry) ELSE Err("NotFound")

\* RecipeRef::parse and RegistrySet::resolve.  A text has what is before its
\* first slash when it starts with an @, what is after it, and may look like a
\* path; a path is looked up in no registry.
ResolveText(remotes, builtins, text, Plain) ==
    IF text.registry # "" /\ text.name # ""
    THEN ResolveScoped(remotes, builtins, text.registry, text.name, Plain)
    ELSE IF text.path THEN Err("NotFoundAnywhere")
    ELSE ResolveBare(remotes, builtins, text.name, Plain)

\* git_update_argv is preceded by guard_cache_path: no parent component, below
\* the cache as written, and below it once links are followed.
GuardCachePath(target) ==
    ~target.parent /\ target.below /\ (target.resolves => target.really_below)

-----------------------------------------------------------------------------
(***************************************************************************)
(* translate.                                                              *)
(***************************************************************************)
Solo == [rank |-> 0, world_size |-> 0, master |-> "none"]
IsRank(placement) == placement.world_size > 0

\* check_node_count.
Supplied(placement) == IF IsRank(placement) THEN placement.world_size ELSE 1

Skip(placement) == IF IsRank(placement) /\ placement.rank > 0 THEN {"port"} ELSE {}

\* What a rank is told beyond its settings; only rank 0 serves.
RankFlags(placement) ==
    IF ~IsRank(placement) THEN <<>>
    ELSE (IF placement.rank > 0 THEN <<<<"--port", "0">>>> ELSE <<>>)
         \o <<<<"--rank", ToString(placement.rank)>>,
              <<"--world-size", ToString(placement.world_size)>>,
              <<"--master-addr", placement.master>>, <<"--master-port", "29500">>>>

EGRESS_ENV      == {"HF_HUB_OFFLINE", "TRANSFORMERS_OFFLINE"}
PASSTHROUGH_ENV == {"HTTP_PROXY", "HTTPS_PROXY", "NO_PROXY",
                    "http_proxy", "https_proxy", "no_proxy"}

\* Mutant: any variable of the host may be told.
ExpandAnything(host, v) ==
    IF v[1] = "lit" THEN v[2]
    ELSE IF v[2] \in DOMAIN host THEN host[v[2]] ELSE ""

\* expand_allowed: a variable the host does not have, or may not tell, is "".
ExpandAllowed(host, v) ==
    IF v[1] = "lit" THEN v[2]
    ELSE IF v[2] \in PASSTHROUGH_ENV \cap DOMAIN host THEN host[v[2]] ELSE ""

\* NcclRoce::cluster_env; an empty value clears what the image says.
ClusterEnv == [
    NCCL_IB_GID_INDEX |-> "",        NCCL_CROSS_NIC |-> "",
    NCCL_DEBUG |-> "INFO",           NCCL_IB_DISABLE |-> "0",
    NCCL_IB_ROCE_VERSION_NUM |-> "2", NCCL_IB_ADDR_FAMILY |-> "AF_INET",
    NCCL_IB_TIMEOUT |-> "22",        NCCL_IB_RETRY_CNT |-> "7",
    NCCL_NET_GDR_LEVEL |-> "0",      NCCL_DMABUF_ENABLE |-> "0",
    NCCL_NVLS_ENABLE |-> "0",        NCCL_CUMEM_HOST_ENABLE |-> "0",
    NCCL_PROTO |-> "Simple",         NCCL_ALGO |-> "Ring",
    NCCL_BUFFSIZE |-> "33554432",    NCCL_MIN_NCHANNELS |-> "1",
    NCCL_MAX_NCHANNELS |-> "2"]

\* build_env: the recipe's own beats the fabric block.
BuildEnv(recipe, host, placement) ==
    [k \in DOMAIN recipe.env |-> ExpandAllowed(host, recipe.env[k])]
    @@ (IF IsRank(placement) THEN ClusterEnv ELSE [x \in {} |-> ""])
    @@ [HF_HUB_OFFLINE |-> "1", TRANSFORMERS_OFFLINE |-> "1", HF_HOME |-> "cache"]

\* container_name.
ContainerName(recipe, placement) ==
    IF IsRank(placement) THEN <<recipe.name, placement.rank>> ELSE <<recipe.name>>

TranslateErrors == NotLaunchable \cup {"EgressOverride", "AliasConflict",
                                      "NodeCountMismatch", "BadRendezvousAddress"}

TranslateError(recipe, cfg, placement) ==
    IF Launchable(recipe) # "ok" THEN Launchable(recipe)
    ELSE IF Supplied(placement) < recipe.topology.min_nodes THEN "NodeCountMismatch"
    ELSE IF AliasConflict(cfg) THEN "AliasConflict"
    ELSE IF IsRank(placement) /\ placement.master = "name" THEN "BadRendezvousAddress"
    ELSE IF DOMAIN recipe.env \cap EGRESS_ENV # {} THEN "EgressOverride"
    ELSE "none"

\* DeviceProfile::docker_flags, of the two vendors.
DeviceFlags(vendor) ==
    IF vendor = "nvidia" THEN <<<<"--gpus", "all">>>>
    ELSE <<<<"--device", "/dev/kfd">>, <<"--device", "/dev/dri">>, <<"--group-add", "video">>>>

\* ROOTLESS_V1: never --privileged.
Namespaces == <<<<"--ipc", "host">>, <<"--shm-size", "32gb">>, <<"--network", "host">>>>
Privileges == <<<<"--security-opt", "no-new-privileges">>, <<"--security-opt", "seccomp">>,
                <<"--cap-add", "IPC_LOCK">>, <<"--cap-add", "SYS_NICE">>,
                <<"--ulimit", "memlock">>, <<"--ulimit", "stack">>,
                <<"--device", "/dev/infiniband">>>>

\* DockerCommand::render: options, the image, then the engine's command.
DockerArgv(plan, vendor, user) ==
    <<<<"docker">>, <<"run">>, <<"-d">>, <<"--entrypoint", "">>>>
    \o DeviceFlags(vendor) \o Namespaces
    \o (IF user THEN <<<<"--user", "uid">>, <<"-v", "passwd">>, <<"-v", "group">>>> ELSE <<>>)
    \o Privileges
    \o <<<<"--label", "managed">>, <<"--label", "recipe">>, <<"--rm">>,
         <<"--name", plan.name>>>>
    \o [i \in 1 .. Cardinality(DOMAIN plan.env) |-> <<"-e", "variable">>]
    \o <<<<"-v", "cache">>, <<"image", plan.container>>,
         <<"met">>, <<"serve">>, <<"model", plan.model>>>>
    \o plan.argv

Translate(recipe, user_config, overrides, host, placement) ==
    LET cfg == Resolve(recipe.defaults, user_config, overrides)
        why == TranslateError(recipe, cfg, placement)
    IN  IF why # "none" THEN Err(why)
        ELSE Ok([argv      |-> Render(cfg, Skip(placement)) \o RankFlags(placement),
                 env       |-> BuildEnv(recipe, host, placement),
                 name      |-> ContainerName(recipe, placement),
                 container |-> recipe.container,
                 model     |-> recipe.model,
                 unmapped  |-> Unmapped(cfg),
                 unknown   |-> recipe.unknown])

-----------------------------------------------------------------------------
(***************************************************************************)
(* The command line of `run` (metralectl/src/validate.rs).  A text is      *)
(* named by the value it is the rendering of.                              *)
(***************************************************************************)
\* What YAML makes of a word that looks like something else.
Yaml == ("8" :> Num(8)) @@ ("16" :> Num(16)) @@ ("32" :> Num(32)) @@ ("64" :> Num(64))
        @@ ("true" :> Bool(TRUE)) @@ ("false" :> Bool(FALSE))

ParseOverride(x) == IF x[1] = "str" /\ x[2] \in DOMAIN Yaml THEN Yaml[x[2]] ELSE x

\* build_overrides: the options in order, and the --port of the command line,
\* which is 0 for none.
BuildOverrides(options, port) ==
    LET keys == [i \in DOMAIN options |-> options[i][1]]
        all  == [k \in Range(keys) |->
                    ParseOverride(options[CHOOSE i \in DOMAIN options : keys[i] = k][2])]
    IN  IF \E k \in DOMAIN all : ~CheckOverride(k, all[k]) THEN Err("OutOfBound")
        ELSE IF Cardinality(DOMAIN all) # Len(options) THEN Err("GivenTwice")
        ELSE IF port # 0 /\ "port" \in DOMAIN all THEN Err("PortTwice")
        ELSE Ok(IF port = 0 THEN all ELSE all @@ ("port" :> Num(port)))

\* build_placement: -1, 0 and "" stand for an option that is not given.
BuildPlacement(rank, world_size, master) ==
    CASE rank = -1 /\ world_size = 0 /\ master = "" -> Ok(Solo)
      [] rank # -1 /\ world_size # 0 /\ master # "" ->
            IF world_size < 2 THEN Err("WorldTooSmall")
            ELSE IF rank >= world_size THEN Err("RankOutOfRange")
            ELSE Ok([rank |-> rank, world_size |-> world_size, master |-> master])
      [] OTHER -> Err("GivenInPart")
=============================================================================
