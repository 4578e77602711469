---------------------------- MODULE MCFunctions ----------------------------
(***************************************************************************)
(* The pure functions of the program, each applied to every input of a     *)
(* small set: a behaviour picks one case and evaluates it.  The properties *)
(* compare what the functions answer with what they are for.               *)
(***************************************************************************)
EXTENDS ServeCommand, Release, Telemetry, Service, BenchClient

VARIABLE case      \* the input that was picked, and the outcome

Empty == [x \in {} |-> ""]

Init == case = [kind |-> "none"]

-----------------------------------------------------------------------------
(***************************************************************************)
(* Settings and the command that serves a recipe.                          *)
(***************************************************************************)
RawRecipe == [name |-> "m", version |-> "2", model |-> "ok", container |-> "ok", revision |-> "none",
              runtime |-> "metrale", extra |-> {}, min_nodes |-> 0, max_nodes |-> 0,
              cluster_only |-> FALSE, solo_only |-> FALSE,
              defaults |-> Empty, env |-> Empty]

Tuned == [max_num_batched_tokens |-> Num(512), port |-> Num(8888),
          speculative |-> Bool(TRUE), api_key |-> Str("k"), cache_dir |-> Str("/c")]

\* Values on both sides of every edge of a bound, and of other types.
Probes(bound) ==
    CASE bound[1] \in {"Int", "IntOrAuto"} ->
            {Num(bound[2] - 1), Num(bound[2]), Num(bound[3]), Num(bound[3] + 1),
             Str("auto"), Bool(TRUE), Inf}
      [] bound[1] = "Float" ->
            {Real(bound[2] - 1), Real(bound[2]), Real(bound[3]), Real(bound[3] + 1),
             Num(0), Num(1), Inf, Str("auto")}
      [] bound[1] = "Enum"   -> {Str(v) : v \in bound[2]} \cup {Str("other"), Num(8)}
      [] bound[1] = "Toggle" -> {Bool(TRUE), Bool(FALSE), Num(0), Str("false")}

ProbesOf(key) == IF key \in ExposedKeys THEN Probes(BoundOf(key)) ELSE {Str("x"), Num(1)}

Placements == {Solo, [rank |-> 0, world_size |-> 2, master |-> "addr"],
                     [rank |-> 1, world_size |-> 2, master |-> "addr"]}

HostEnv == [HF_TOKEN |-> "secret", HTTP_PROXY |-> "proxy"]

Planned(requested, defaults, p) ==
    IF ~Valid(requested) THEN Err("Refused")
    ELSE Translate(Parse([RawRecipe EXCEPT !.defaults = defaults]), Empty,
                   Validate(requested), HostEnv, p)

\* One setting of a page, alone or beside one that is good.
Page ==
    \E key \in FlagKeys \cup EXCLUDED \cup {"nosuchkey"} :
    \E x \in ProbesOf(key), p \in Placements,
       defaults \in {Empty, Tuned}, beside \in {Empty, "max_batch_size" :> Num(4)} :
        case' = [kind |-> "page", key |-> key, value |-> x, placement |-> p,
                 defaults |-> defaults,
                 plan |-> Planned((key :> x) @@ beside, defaults, p)]

\* The same setting, typed on the command line.
Typed ==
    \E key \in ExposedKeys : \E x \in ProbesOf(key) :
        /\ Verdict(key, x)[1] = "ok"
        /\ LET kept == Verdict(key, x)[2] IN
           case' = [kind |-> "typed", key |-> key, value |-> x,
                    page |-> Planned(key :> x, Empty, Solo),
                    cli |-> BuildOverrides(<<<<key, kept>>>>, 0)]

\* A recipe of someone else, placed on this machine.
EnvValues == {<<"lit", "0">>, <<"var", "HF_TOKEN">>, <<"var", "HTTP_PROXY">>, <<"var", "ABSENT">>}
Envs == {Empty} \cup {k :> v : k \in {"HF_HUB_OFFLINE", "NCCL_DEBUG", "X"}, v \in EnvValues}

Place ==
    \E env \in Envs, p \in Placements \cup {[rank |-> 1, world_size |-> 2, master |-> "name"]},
       runtime \in {"metrale", "", "vllm"}, extra \in {{}, {"mods"}, {"executor_config"}, {"other"}},
       cluster \in BOOLEAN, min \in 0 .. 3 :
        LET raw == [RawRecipe EXCEPT !.env = env, !.runtime = runtime, !.extra = extra,
                                     !.cluster_only = cluster, !.min_nodes = min]
        IN  case' = [kind |-> "place", raw |-> raw, placement |-> p,
                     plan |-> Translate(Parse(raw), Empty, Empty, HostEnv, p)]

\* A recipe whose fields are not what they should be.
Operand ==
    \E model, container \in {"ok", "blank", "dash"}, solo, cluster \in BOOLEAN,
       min, max \in 0 .. 3, vendor \in {"nvidia", "amd"}, user \in BOOLEAN :
        LET raw == [RawRecipe EXCEPT !.model = model, !.container = container,
                                     !.solo_only = solo, !.cluster_only = cluster,
                                     !.min_nodes = min, !.max_nodes = max]
            recipe == Parse(raw)
            p == [rank |-> 0, world_size |-> 3, master |-> "addr"]
        IN  case' = [kind |-> "operand", error |-> ParseError(raw), topology |-> recipe.topology,
                     argv |-> DockerArgv(Translate(recipe, Empty, Empty, HostEnv, p)[2],
                                        vendor, user)]

\* Every rank of one launch.
World ==
    \E n \in 2 .. 3, defaults \in {Empty, Tuned}, x \in {Empty, "port" :> Num(9000)} :
        case' = [kind |-> "world", size |-> n,
                 plans |-> [r \in 0 .. n - 1 |->
                     Planned(x, defaults, BuildPlacement(r, n, "addr")[2])]]

\* Two recipes, and what is fed to their digests.
Order == <<"a", "speculative", "num_drafts">>
Defaults == {Empty, "speculative" :> Bool(FALSE), "speculative" :> Str("false"),
             "num_drafts" :> Num(1), "num_drafts" :> Str("1"), "a" :> Str("1")}
Hashed == {[RawRecipe EXCEPT !.defaults = d, !.env = e, !.container = c, !.revision = v,
                             !.min_nodes = m, !.name = n] :
           d \in Defaults, e \in {Empty, "a" :> <<"lit", "1">>}, c \in {"ok", "blank"},
           v \in {"none", "main"}, m \in {0, 1, 2}, n \in {"m", "n"}}

Twins ==
    \E r1, r2 \in Hashed :
        /\ {ParseError(r1), ParseError(r2)} = {"none"}
        /\ Content(Parse(r1), Order) = Content(Parse(r2), Order)
        /\ case' = [kind |-> "twins",
                    plans |-> [i \in 1 .. 2 |->
                        Translate(Parse(IF i = 1 THEN r1 ELSE r2), Empty, Empty, HostEnv,
                                  [rank |-> 1, world_size |-> 2, master |-> "addr"])]]

\* Registries added in any order, and a name that is looked up.
Remotes  == {[name |-> n, files |-> f] : n \in {"metrale", "builtin", "acme", "corp"},
             f \in {{"shipped"}, {"own"}, {"../x"}, {"own", "shipped"}}}
Builtins == {"shipped"}
Plain    == {"shipped", "own"}

Lookup ==
    \E r1, r2 \in Remotes, name \in {"shipped", "own", "../x"}, scope \in {"", "metrale", "acme"},
       path \in BOOLEAN, drop \in {"", "acme"} :
        LET store == StoreRemove(StoreAdd(StoreAdd(<<>>, r1), r2), drop) IN
        case' = [kind |-> "lookup", store |-> store, name |-> name, scope |-> scope,
                 path |-> path,
                 found |-> ResolveText(store, Builtins,
                               [registry |-> scope, name |-> name, path |-> path], Plain)]

-----------------------------------------------------------------------------
(***************************************************************************)
(* Releases.                                                               *)
(***************************************************************************)
Keys(n)      == [ed25519 |-> <<"ed", n>>, ml_dsa_65 |-> <<"ml", n>>]
Principal(n) == [node_id |-> NodeIdOf(Keys(n)), signing |-> Keys(n)]
Trusted      == <<Principal(1), Principal(2)>>

\* A signature whose two halves may be of different keys, over some text.
Signature(kind, document, signer, ed, ml, over) ==
    [kind |-> kind, document |-> document, signer |-> NodeIdOf(Keys(signer)),
     ed25519 |-> Signs(Keys(ed).ed25519, over), ml_dsa_65 |-> Signs(Keys(ml).ml_dsa_65, over)]

SignedBy(n, kind, document) ==
    Signature(kind, document, n, n, n, SignedString(kind, document))

BaseRecipe == [version |-> 1, model |-> [source |-> [repository |-> "m", revision |-> "1"],
                                         weights |-> {"w"}],
               quantization |-> [weights |-> "nvfp4", activations |-> "adaptive", kv_cache |-> "fp8"],
               limits |-> [max_context_tokens |-> 1, max_concurrent_sequences |-> 1,
                           gpu_memory_permille |-> 1000],
               runtime |-> [engine |-> "metrale", image |-> "i", hardware_classes |-> {"gb10"},
                            min_nodes |-> 1],
               semantics |-> [input_modalities |-> {"text"}, output_modalities |-> {"text"}]]

ManifestFor(recipe, fingerprints, receipts) ==
    [version |-> 1, runtime |-> [image |-> recipe.runtime.image], recipe |-> recipe,
     model |-> [source |-> recipe.model.source, weights |-> recipe.model.weights],
     hardware |-> [hardware_class |-> "gb10", fingerprints |-> fingerprints],
     receipts |-> receipts]

Here == [accelerator |-> "gb10", fingerprint |-> "f1", model |-> "m"]

\* A release as it may arrive: altered after it was signed, signed by one who
\* is not trusted, by half, as another kind of document.
Gate ==
    \E fingerprints \in SUBSET {"f1", "f2"}, receipts \in SUBSET {"r1", "r2"},
       expected \in {"itself", "another"}, signer, ed, ml \in 1 .. 3,
       kind, over \in {"release_manifest", "revocation_list"},
       swapped \in {"none", "image", "weights", "class"}, revoked \in SUBSET {"r1", "r2"} :
        LET recipe   == CASE swapped = "image"   -> [BaseRecipe EXCEPT !.runtime.image = "j"]
                          [] swapped = "weights" -> [BaseRecipe EXCEPT !.model.weights = {"v"}]
                          [] swapped = "class"   -> [BaseRecipe EXCEPT !.runtime.hardware_classes = {"x"}]
                          [] OTHER               -> BaseRecipe
            manifest == ManifestFor(BaseRecipe, fingerprints, receipts)
            sig      == Signature(kind, manifest, signer, ed, ml, SignedString(over, manifest))
        IN  /\ ReadManifest(manifest) /\ ReadRecipe(recipe)
            /\ case' = [kind |-> "gate", manifest |-> manifest, recipe |-> recipe, sig |-> sig,
                        expected |-> expected, revoked |-> revoked,
                        out |-> Verify(manifest, recipe,
                                    IF expected = "itself" THEN manifest
                                    ELSE [manifest EXCEPT !.runtime.image = "j"],
                                    sig, Trusted, [NoneRevoked EXCEPT !.receipts = revoked], Here)]

\* Three lists that reach a host one after the other, each of any number, with
\* or without the release and the second signer, signed by anyone.
Release1 == ManifestFor(BaseRecipe, {"f1"}, {"r1"})
Subjects == {<<"release_manifest", Release1>>, <<"signer", NodeIdOf(Keys(2))>>}
Arrivals == [signer : 1 .. 3,
             list : {[version |-> 1, sequence |-> n, issued_at |-> n,
                      revoked |-> {<<"compatibility_receipt", "r0">>} \cup s] :
                        n \in 1 .. 2, s \in SUBSET Subjects}]

\* The host keeps what it accepted last, and the number it had.
MaxAge == 3

After(held, a, now) ==
    LET got == AcceptList(Trusted, a.list, SignedBy(a.signer, "revocation_list", a.list),
                          [held |-> held.sequence, now |-> now, max_age |-> MaxAge])
    IN  IF got[1] = "err" THEN held ELSE got[2]

Fresh == [revoked |-> NoneRevoked, sequence |-> 0]

Lists ==
    \E a1, a2, a3 \in Arrivals, now \in {2, 5} :
        /\ \A a \in {a1, a2, a3} : ReadList(a.list)
        /\ LET h1 == After(Fresh, a1, now)
               h2 == After(h1, a2, now)
               h3 == After(h2, a3, now)
           IN  case' = [kind |-> "lists", now |-> now, arrivals |-> <<a1, a2, a3>>,
                        held |-> <<h1, h2, h3>>,
                        gate |-> [i \in 1 .. 3 |->
                            Verify(Release1, BaseRecipe, Release1,
                                   SignedBy(1, "release_manifest", Release1), Trusted,
                                   (<<h1, h2, h3>>)[i].revoked, Here)]]

\* Names, of every shape up to four characters.
Letters == {"a", "A", "0", ".", "-", "/", ":", "_"}
Names   == UNION {[1 .. n -> Letters] : n \in 0 .. 4}

Name ==
    \E s \in Names :
        case' = [kind |-> "name", text |-> s,
                 as |-> {k \in {"recipe", "image", "model", "label", "flag", "env", "served"} :
                            CASE k = "recipe" -> RecipeId(s)
                              [] k = "image"  -> IsImageRepository(s)
                              [] k = "model"  -> IsModelRepository(s)
                              [] k = "label"  -> IsDnsLabel(s)
                              [] k = "flag"   -> FlagKey(s)
                              [] k = "env"    -> EnvKey(s)
                              [] k = "served" -> ModelName(s)}]

\* Documents, and the text that is hashed.
Leaves == {<<"null">>, <<"bool", TRUE>>, <<"num", 1>>, <<"num", 11>>}
          \cup {<<"str", s>> : s \in {<<>>, <<"a">>, <<"\"">>, <<"\\">>,
                                       <<"a", "\"", ",", "\"", "b">>}}
KeyText == {<<"a">>, <<"b">>, <<"a", "b">>}
KeyRank == (<<"a">> :> 1) @@ (<<"a", "b">> :> 2) @@ (<<"b">> :> 3)
Arrays  == {<<"arr", <<x>>>> : x \in Leaves} \cup {<<"arr", <<x, y>>>> : x, y \in Leaves}
Objects == {<<"obj", <<<<k[1], x>>, <<k[2], y>>>>>> :
            k \in {m \in KeyText \X KeyText : m[1] # m[2]}, x, y \in Leaves}
Documents == Arrays \cup Objects

TextOf == [d \in Documents |-> Canonical(d, KeyRank)]

\* What a document says, whatever the order it was built in.
Meaning(d) == IF d[1] = "obj" THEN <<"obj", Range(d[2])>> ELSE d

Document ==
    \E d \in Documents :
        case' = [kind |-> "document", doc |-> d, text |-> TextOf[d]]

-----------------------------------------------------------------------------
(***************************************************************************)
(* Measurements.                                                           *)
(***************************************************************************)
Line(name, suffix, le, value) ==
    [name |-> name, suffix |-> suffix, le |-> le, label |-> "accept", value |-> value,
     finite |-> TRUE]

Histogram ==
    \E c1, c2, c3 \in 0 .. 3, e2 \in {2, 10}, swapped \in BOOLEAN, startup \in {4, 5, 11, 12} :
        LET b1    == Line("ttft", "_bucket", 1, c1)
            b2    == Line("ttft", "_bucket", e2, c1 + c2)
            b3    == Line("ttft", "_bucket", Infinity, c1 + c2 + c3)
            other == <<Line("phase", "", NoEdge, startup), Line("requests_active", "", NoEdge, c1),
                       Line("verify", "", NoEdge, c2), [b1 EXCEPT !.le = 5, !.finite = FALSE]>>
            lines == (IF swapped THEN <<b3, b2, b1>> ELSE <<b1, b2, b3>>) \o other
        IN  case' = [kind |-> "histogram", edge |-> e2, counts |-> <<c1, c2, c3>>,
                     out |-> PointInTime(lines)]

\* Three scrapes of an engine that may start again in between.
Scrapes ==
    \E n1, n2, n3 \in {-1, 0, 1, 5}, t2, t3 \in {0, 1, 60, 61} :
        LET scrape(n) == IF n < 0 THEN <<>> ELSE <<Line("tokens", "", NoEdge, n)>>
            s1 == Sample(None, scrape(n1), 0)
            s2 == Sample(s1.slot, scrape(n2), t2)
            s3 == Sample(s2.slot, scrape(n3), t2 + t3)
        IN  case' = [kind |-> "scrapes", counts |-> <<n1, n2, n3>>, out |-> <<s1, s2, s3>>]

\* The devices of a machine, as the tool lists them.
Rows == [name : {Some("gb10"), Some("other"), None}, driver : {Some("v")}, cap : {Some(121), None},
         memory : {None, Some(8), Some(9)}]

Machine ==
    \E rows \in UNION {[1 .. n -> Rows] : n \in 0 .. 3}, host \in {None, Some(16)} :
        /\ \A i \in DOMAIN rows : i > 1 => rows[i].cap = Some(121)
        /\ LET c      == Capture(rows, host, Some("aarch64"))
               sample == IF rows = <<>> THEN None
                         ELSE Some([memory |-> rows[1].memory, used |-> Some(1), clock |-> Some(1400)])
               caps   == Caps(sample, IsSome(host))
           IN  case' = [kind |-> "machine", gpus |-> Len(rows), capture |-> c,
                        doc |-> Fingerprint(c),
                        stats |-> IF sample = None THEN None
                                  ELSE Some(DeviceStats(Value(sample), caps,
                                                        MemInfo(host, Some(20)), TRUE))]

-----------------------------------------------------------------------------
(***************************************************************************)
(* The service: MaxCommands commands and changes of the host, one after    *)
(* the other.  What a supervisor does beside a process that it no longer   *)
(* knows is not followed.                                                  *)
(***************************************************************************)
MaxCommands == 4

GoodDir == [exists |-> TRUE, is_dir |-> TRUE, own |-> TRUE, owner_writes |-> TRUE,
            parent_writes |-> TRUE, probe_lands |-> TRUE]

Hosts ==
    LET host == [dir |-> GoodDir, bench |-> "absent", token |-> "absent", key |-> "absent",
                 docker |-> TRUE, port_taken |-> FALSE, binary |-> "v1"]
    IN  {host, [host EXCEPT !.port_taken = TRUE, !.bench = "good"],
         [host EXCEPT !.dir.own = FALSE, !.port_taken = TRUE],
         [host EXCEPT !.dir.probe_lands = FALSE], [host EXCEPT !.token = "wide", !.key = "k"],
         [host EXCEPT !.bench = "bad"], [host EXCEPT !.key = "malformed", !.docker = FALSE]}

Asked(port, client, discovery, browser) ==
    [port |-> port, client |-> client, discovery |-> discovery, browser |-> browser]

AskedFor == {Asked("8", FALSE, TRUE, TRUE), Asked("9", TRUE, FALSE, TRUE), Asked("8", FALSE, TRUE, FALSE)}

Flags(asked) ==
    [port |-> asked.port, client |-> asked.client, no_discovery |-> ~asked.discovery,
     no_browser |-> ~asked.browser, config_dir |-> ""]

ConfigFile(asked) ==
    [version |-> 1, absolute |-> TRUE, port |-> asked.port,
     mode |-> IF asked.client THEN "client" ELSE "node", discovery |-> asked.discovery,
     browser |-> asked.browser, config_dir |-> "d"]

\* The same settings as flags, or as a file beside a --config-dir.
Installs(m, host, asked, fails) ==
    {Install(m, host, InvocationOfFlags(Flags(asked), host.binary, host.bench # "absent"), fails)}
    \cup {InstallFromFile(m, host, ConfigFile(asked), named, fails) : named \in {"", "d", "other"}}

Commands(kind) ==
    LET plan == Plan(kind) IN
    Range(plan.pre_activate) \cup Range(plan.activate) \cup Range(plan.best_effort)
        \cup Range(plan.deactivate) \cup {"write", "verify"}

Service(m, host, drift, did) == [kind |-> "service", m |-> m, host |-> host, drift |-> drift, did |-> did]

ServiceBegins ==
    \E kind \in ServiceKinds, host \in Hosts :
        case' = Service(NoMachine(kind), host, FALSE, [n |-> 0, what |-> "none"])

Forgotten(m) == m.proc # {} /\ m.loaded = {}

Fails(kind) == {{}} \cup {{c} : c \in Commands(kind)}

\* drift: the process may not be the one that the unit's last install started.
ServiceGoesOn ==
    /\ case.did.n < MaxCommands /\ ~Forgotten(case.m)
    /\ \/ \E asked \in AskedFor, fails \in Fails(case.m.kind) : 
          \E done \in Installs(case.m, case.host, asked, fails) :
            case' = Service(done.m, case.host, case.drift \/ fails # {},
                            [n |-> case.did.n + 1, what |-> "install", asked |-> asked,
                             faulty |-> fails # {}, out |-> done.out])
       \/ \E fails \in Fails(case.m.kind) :
            case' = Service(Uninstall(case.m, case.host, fails), case.host, case.drift,
                            [n |-> case.did.n + 1, what |-> "uninstall", faulty |-> fails # {}])
       \/ case' = Service(case.m, [case.host EXCEPT !.binary = IF @ = "v1" THEN "v2" ELSE "v1"],
                          case.drift, [n |-> case.did.n + 1, what |-> "replace"])
       \/ case' = Service(case.m, [case.host EXCEPT !.port_taken = ~@, !.dir = GoodDir],
                          case.drift, [n |-> case.did.n + 1, what |-> "host"])
       \/ LET read == [case.m EXCEPT !.loaded = IF case.m.kind = "ScheduledTask" THEN @ ELSE case.m.unit]
              on   == IF case.m.kind = "Launchd" THEN read.loaded # {} ELSE read.enabled
          IN  case' = Service([read EXCEPT !.proc = IF on THEN Started(read, case.host) ELSE {}],
                              case.host, TRUE, [n |-> case.did.n + 1, what |-> "reboot"])

-----------------------------------------------------------------------------
(***************************************************************************)
(* Words, secrets and containers.                                          *)
(***************************************************************************)
Words(n) == UNION {[1 .. k -> {"a", " ", "\"", "\\", "'", "%", "$"}] : k \in 0 .. n}

Quoting ==
    \/ \E a, b \in Words(2) :
            case' = [kind |-> "words", argv |-> <<a, b>>, shell |-> ShellWords(<<a, b>>),
                     windows |-> WindowsCommandLine(<<a, b>>)]
    \/ \E a \in Words(4) :
            case' = [kind |-> "words", argv |-> <<a, <<"a">>>>, shell |-> ShellWords(<<a, <<"a">>>>),
                     windows |-> WindowsCommandLine(<<a, <<"a">>>>)]

\* A crash anywhere in the write of a secret.
Writing ==
    \E target \in {{}} \cup {{[bytes |-> "old", mode |-> x]} : x \in {"own", "wide"}} :
        LET before == [target |-> target, tmp |-> {}]
            states == SecretWrite(before, "new")
        IN  \E i \in DOMAIN states :
                case' = [kind |-> "secret", before |-> before, after |-> states[i],
                         done |-> i = Len(states)]

ContainerSets ==
    LET all == {[name |-> n, recipe |-> IF n = "y" THEN "y" ELSE "x", running |-> r] :
                    n \in {"x", "x0", "x1", "y"}, r \in BOOLEAN}
    IN  {s \in SUBSET all : \A c, d \in s : c.name = d.name => c = d}

Stopping ==
    \E containers \in ContainerSets, docker \in {"answers", "refuses", "absent"},
       resolves \in BOOLEAN, what \in {"all", "recipe"} :
    \E wont \in SUBSET containers :
        case' = [kind |-> "stop", what |-> what, docker |-> docker, before |-> containers,
                 done |-> IF what = "all" THEN StopAll(containers, docker, wont)
                          ELSE StopRecipe(containers, "x", resolves, docker, wont)]

Reading ==
    \E containers \in ContainerSets :
        case' = [kind |-> "logs", containers |-> containers, out |-> Logs(containers, "x")]

-----------------------------------------------------------------------------
(***************************************************************************)
(* The bench commands.                                                     *)
(***************************************************************************)
Submission == [sha |-> "s", gate |-> "g", params |-> <<>>, checkpoint |-> "", job_key |-> "",
               hardware |-> ""]

Submissions == {Submission, [Submission EXCEPT !.params = <<<<"k", "1">>>>],
                [Submission EXCEPT !.params = <<<<"k", "1">>, <<"k", "2">>>>],
                [Submission EXCEPT !.params = <<<<"odd", "1">>>>],
                [Submission EXCEPT !.checkpoint = "c"], [Submission EXCEPT !.job_key = "mine"],
                [Submission EXCEPT !.hardware = "other"]}

IdleNode == [jobs |-> {}, recent |-> 0, per_minute |-> 3, depth |-> 2, disk |-> TRUE,
             hardware |-> "box", params |-> {"k"}]

BenchNodes == {IdleNode, [IdleNode EXCEPT !.depth = 1], [IdleNode EXCEPT !.disk = FALSE],
               [IdleNode EXCEPT !.recent = 2],
               [IdleNode EXCEPT !.jobs = {[key |-> <<"mine">>, queued |-> FALSE,
                   spec |-> SubmitRequest([Submission EXCEPT !.gate = "h"])[2].spec]}]}

\* A submission over one or two addresses of a node, and one more after it.
Submitting ==
    \E node \in BenchNodes, first \in Submissions, second \in Submissions :
    \E fates \in {<<f>> : f \in Fates} \cup (Fates \X Fates),
       again \in {<<"Answers">>, <<"Timeout", "Answers">>, <<"Silent", "Answers">>} :
        LET one == SubmitCommand(node, first, fates)
            two == SubmitCommand(one.node, second, again)
        IN  case' = [kind |-> "submit", node |-> node, first |-> first, second |-> second,
                     fates |-> fates, one |-> one, two |-> two]

\* A pairing's dials, one address after the other.
Walking ==
    \E n \in 0 .. 3 : \E dials \in [1 .. n -> Dials] :
        case' = [kind |-> "walk", dials |-> dials, walk |-> Walk(dials)]

Promised == {[path |-> p, plain |-> p # "../x", bytes |-> Len(d), sha256 |-> d] :
                p \in {"a", "b", "../x"}, d \in {<<>>, <<1>>, <<1, 2>>, <<1, 2, 1>>}}

Replies == {[lost |-> FALSE, skew |-> k, data |-> d, eof |-> e] :
                k \in {0, 1}, d \in {<<>>, <<1>>, <<2>>, <<1, 2>>}, e \in BOOLEAN}
           \cup {[lost |-> TRUE, skew |-> 0, data |-> <<>>, eof |-> FALSE]}

Plenty == 100    \* room on the disk for everything

Fetching ==
    \E one \in Promised, two \in Promised, files \in {{}, {<<"b", <<2>>>>}} :
    \E replies \in {<<>>} \cup {<<r>> : r \in Replies} \cup (Replies \X Replies),
       outcome \in {"pass", "fail", "cancelled"} :
    \E room \in {Plenty} \cup (IF Len(replies) < 2 /\ outcome = "pass" THEN 0 .. 3 ELSE {}) :
        LET answers == [meta \in {one, two} |->
                           IF meta = one /\ replies # <<>> THEN replies
                           ELSE HonestReplies(meta.sha256)]
            run     == RunCommand(IdleNode, Submission, <<"Answers">>, <<"ok", outcome>>,
                                  files, <<one, two>>, answers, room)
        IN  case' = [kind |-> "fetch", items |-> <<one, two>>, honest |-> replies = <<>>,
                     before |-> files, outcome |-> outcome, room |-> room, run |-> run,
                     again |-> FetchAll(run.files, <<one, two>>,
                                        [meta \in {one, two} |-> HonestReplies(meta.sha256)], Plenty)]

Next ==
    \/ /\ case.kind = "service"
       /\ ServiceGoesOn
    \/ /\ case.kind = "none"
       /\ \/ ServiceBegins \/ Quoting \/ Writing \/ Stopping \/ Reading
          \/ Gate \/ Lists \/ Name \/ Document \/ Histogram \/ Scrapes \/ Machine
          \/ Submitting \/ Walking \/ Fetching
          \/ Page \/ Typed \/ Place \/ Operand \/ World \/ Twins \/ Lookup

Spec == Init /\ [][Next]_case

-----------------------------------------------------------------------------
FlagOf(key) == METRALE_FLAGS[CHOOSE i \in DOMAIN METRALE_FLAGS : METRALE_FLAGS[i][1] = key]

Given(argv, flag) == SelectSeq(argv, LAMBDA a : a[1] = flag)

Refuses(answer, errors) == answer[1] = "err" => answer[2] \in errors

(***************************************************************************)
(* What the functions may answer, and a recipe's numbers of nodes: at      *)
(* least one, and a maximum that is no less.                               *)
(***************************************************************************)
TypeOK ==
    CASE case.kind = "page"    -> /\ Refuses(case.plan, {"Refused"} \cup TranslateErrors)
                                  /\ Refuses(Verdict(case.key, case.value), SettingErrors)
      [] case.kind = "place"   -> Refuses(case.plan, TranslateErrors)
      [] case.kind = "lookup"  -> Refuses(case.found, ResolveErrors)
      [] case.kind = "operand" -> /\ case.topology.min_nodes >= 1
                                  /\ case.topology.max_nodes = 0
                                     \/ case.topology.max_nodes >= case.topology.min_nodes
      [] OTHER                 -> TRUE

(***************************************************************************)
(* A setting that a page may set and that is within its bound reaches the  *)
(* engine: its flag is on the command line once, with the value that was   *)
(* sent, whatever the recipe says.  A toggle that is off has no flag, a    *)
(* rank that does not serve has port 0, and two settings that are one flag *)
(* are refused rather than one of them lost.  (validate, resolve, render.) *)
(***************************************************************************)
AcceptedReachesEngine ==
    (case.kind = "page" /\ case.key \in ExposedKeys /\ case.plan # Err("Refused")) =>
        LET row  == FlagOf(case.key)
            kept == Verdict(case.key, case.value)[2]
            both == \E k \in DOMAIN case.defaults \ {case.key} : FlagOf(k)[2] = row[2]
        IN  IF both THEN case.plan = Err("AliasConflict")
            ELSE /\ case.plan[1] = "ok"
                 /\ Given(case.plan[2].argv, row[2]) =
                        CASE row[3] = "BoolToggle" -> IF kept[2] THEN <<<<row[2]>>>> ELSE <<>>
                          [] row[1] = "port" /\ case.placement.rank > 0 -> <<<<row[2], "0">>>>
                          [] OTHER -> <<<<row[2], Rendered(kept)>>>>

(***************************************************************************)
(* A page never decides what it may not: when its request is planned, the  *)
(* flags of the keys that are denied to it are the recipe's own, and a     *)
(* request with one bad key changes nothing at all.  (validate.)           *)
(***************************************************************************)
DeniedNeverTravels ==
    case.kind = "page" =>
        /\ (case.key \notin ExposedKeys => case.plan = Err("Refused"))
        /\ case.plan[1] = "ok" =>
              \A k \in DENIED :
                  Given(case.plan[2].argv, FlagOf(k)[2]) =
                      IF k \in DOMAIN case.defaults
                      THEN <<<<FlagOf(k)[2], Rendered(case.defaults[k])>>>> ELSE <<>>

(***************************************************************************)
(* What a page may say can be said on the command line, and means the same *)
(* command: a variant that looks like a number, an edge of a range.        *)
(* (check_override, parse_override.)                                       *)
(***************************************************************************)
CliSaysTheSame ==
    case.kind = "typed" =>
        /\ case.cli[1] = "ok"
        /\ case.page[2].argv = Render(Resolve(Empty, Empty, case.cli[2]), {})

(***************************************************************************)
(* No recipe makes the engine talk to the hub: both switches are on in the *)
(* environment of every container that is planned.  (build_env.)           *)
(***************************************************************************)
OfflineStays ==
    (case.kind = "place" /\ case.plan[1] = "ok") =>
        \A k \in EGRESS_ENV : case.plan[2].env[k] = "1"

(***************************************************************************)
(* No value of the host's environment but the proxies' reaches a           *)
(* container, however a recipe asks for it.  (expand_allowed.)             *)
(***************************************************************************)
SecretsStay ==
    (case.kind = "place" /\ case.plan[1] = "ok") =>
        \A k \in DOMAIN case.plan[2].env : case.plan[2].env[k] # HostEnv.HF_TOKEN

(***************************************************************************)
(* No text of a recipe is read as an option: docker sees its options, the  *)
(* image, and after it nothing that is docker's; the engine sees the model *)
(* before its flags.  (Recipe::parse, DockerCommand::render.)              *)
(***************************************************************************)
OperandsStayOperands ==
    (case.kind = "operand" /\ case.error = "none") =>
        \E i \in DOMAIN case.argv :
            /\ case.argv[i] = <<"image", "ok">>
            /\ SubSeq(case.argv, i + 1, i + 3) = <<<<"met">>, <<"serve">>, <<"model", "ok">>>>

(***************************************************************************)
(* The ranks of a launch run one command: they differ in the rank and in   *)
(* the port, which only rank 0 serves on.  (translate.)                    *)
(***************************************************************************)
RanksAgree ==
    case.kind = "world" =>
        LET argv(r) == case.plans[r][2].argv
            own     == {"--rank", "--port"}
        IN  \A r \in 0 .. case.size - 1 :
                /\ SelectSeq(argv(r), LAMBDA a : a[1] \notin own)
                       = SelectSeq(argv(0), LAMBDA a : a[1] \notin own)
                /\ Given(argv(r), "--rank") = <<<<"--rank", ToString(r)>>>>
                /\ r > 0 => Given(argv(r), "--port") = <<<<"--port", "0">>>>

(***************************************************************************)
(* Recipes with one digest run one engine with one command, so a digest    *)
(* that two nodes agree on is enough to know that they launch the same.    *)
(* The container's name and label, and the hardware that the recipe        *)
(* requires, are outside the digest and outside this.  (content_hash.)     *)
(***************************************************************************)
HashCoversCommand ==
    (case.kind = "twins" /\ case.plans[1][1] = "ok" /\ case.plans[2][1] = "ok") =>
        LET what(i) == LET p == case.plans[i][2] IN <<p.argv, p.env, p.container, p.model>>
        IN  what(1) = what(2)

(***************************************************************************)
(* A registry cannot take the place of the recipes that ship with the      *)
(* program, in any order of additions: not by a name of its own, not by a  *)
(* file with a name of theirs; and no name leads out of its directory.     *)
(* (RemoteStore::add, RegistrySet::resolve, is_safe_recipe_name.)          *)
(***************************************************************************)
BuiltinNotShadowed ==
    case.kind = "lookup" =>
        /\ (case.name = "shipped" /\ case.scope \in {"", BUILTIN} /\ ~case.path) => case.found = Ok(BUILTIN)
        /\ case.found[1] = "ok" => case.name \in Plain
        /\ (case.found[1] = "ok" /\ case.scope # "") => case.found[2] = case.scope

(***************************************************************************)
(* What is launched is what the deployment names: it was signed, by both   *)
(* keys of one trusted principal, as a release and as this very document,  *)
(* it came with its own recipe, and some receipt of it still stands.       *)
(* (release::verify, RegistryPrincipals::verify.)                          *)
(***************************************************************************)
OnlyTheSignedRuns ==
    (case.kind = "gate" /\ case.out[1] = "ok") =>
        /\ case.expected = "itself"
        /\ \E n \in 1 .. 2 : case.sig = SignedBy(n, "release_manifest", case.manifest)
        /\ case.recipe = BaseRecipe
        /\ case.manifest.receipts \ case.revoked # {}

(***************************************************************************)
(* A release that is as it should be is not refused: what a reader accepts *)
(* has everything the gate looks at.  (non_empty, release::verify.)        *)
(***************************************************************************)
GoodReleaseRuns ==
    (/\ case.kind = "gate" /\ case.expected = "itself" /\ case.recipe = BaseRecipe
     /\ case.sig = SignedBy(1, "release_manifest", case.manifest)
     /\ case.revoked = {} /\ "f1" \in case.manifest.hardware.fingerprints) =>
        case.out[1] = "ok"

(***************************************************************************)
(* A release that a host holds to be revoked does not run, and does not    *)
(* run again until the host is sent a list that leaves it out, which is    *)
(* fresh, has a number no lower than the one that revoked it, and is       *)
(* signed by a trusted principal whom it does not itself revoke: no late,  *)
(* repeated, old or forged list brings it back.  The number may be the     *)
(* same, and the signer may be one whom the list before it had revoked:    *)
(* accept does not ask.  (revocations::accept.)                            *)
(***************************************************************************)
RevokedStaysRevoked ==
    case.kind = "lists" =>
        \A i \in 1 .. 3 : \A j \in i .. 3 :
            /\ case.held[i].sequence <= case.held[j].sequence
            /\ Release1 \in case.held[i].revoked.manifests =>
                  \/ case.gate[j] = Err("ManifestRevoked")
                  \/ \E k \in i + 1 .. j :
                        LET a == case.arrivals[k] IN
                        /\ <<"release_manifest", Release1>> \notin a.list.revoked
                        /\ a.list.sequence >= case.held[i].sequence
                        /\ case.now - a.list.issued_at <= MaxAge
                        /\ \E n \in 1 .. 2 : /\ a.signer = n
                                             /\ <<"signer", NodeIdOf(Keys(n))>> \notin a.list.revoked

(***************************************************************************)
(* A name that is accepted is no option and no way out of a directory.     *)
(* (word, recipe_segment, is_image_repository, is_model_repository.)       *)
(***************************************************************************)
NamesAreTame ==
    (case.kind = "name" /\ case.as # {}) =>
        /\ case.text # <<>> /\ case.text[1] \notin {"-", ".", "/"}
        /\ case.as \cap {"recipe", "image", "model"} # {} =>
              \A seg \in Range(Segments(case.text, {"/"})) :
                  seg # <<>> /\ seg[1] \notin {"-", "."}

(***************************************************************************)
(* Documents that say the same have one text, however they were built, and *)
(* documents that do not have two: a digest stands for the document.       *)
(* (canonical::write.)                                                     *)
(***************************************************************************)
DigestTellsApart ==
    case.kind = "document" =>
        \A d \in Documents :
            (TextOf[d] = case.text) <=> (Meaning(d) = Meaning(case.doc))

(***************************************************************************)
(* The median is no later than the ninetieth percentile, both are within   *)
(* the edges that were measured, and each is on the side of the first edge *)
(* that the counts put it on.  (metrics::quantile.)                        *)
(***************************************************************************)
QuantilesAreOrdered ==
    case.kind = "histogram" =>
        LET AtMost(x, y) == Value(x)[1] * Value(y)[2] <= Value(y)[1] * Value(x)[2]
            first == case.counts[1]
            total == first + case.counts[2] + case.counts[3]
            Placed(p, q) ==
                IsSome(p) => /\ AtMost(p, Some(<<case.edge, 1>>))
                             /\ (AtMost(p, Some(<<1, 1>>)) <=> (100 * first >= q * total))
            p50 == case.out.p50
            p90 == case.out.p90
        IN  /\ IsSome(p90) => IsSome(p50) /\ AtMost(p50, p90)
            /\ Placed(p50, 50) /\ Placed(p90, 90)

(***************************************************************************)
(* No rate is negative or over a window that is too long, and none is      *)
(* reported across a scrape that failed or a counter that went back.  An   *)
(* engine that starts again is known by that alone: one that has already   *)
(* counted past its old number is rated over the restart.                  *)
(* (LaunchSampler::sample, metrics::rate.)                                 *)
(***************************************************************************)
RatesSurviveRestart ==
    case.kind = "scrapes" =>
        \A i \in 1 .. 3 :
            LET r == case.out[i].decode IN
            IsSome(r) => /\ i > 1 /\ Value(r)[2] \in 1 .. MAX_WINDOW
                         /\ case.counts[i - 1] \in 0 .. case.counts[i]
                         /\ Value(r)[1] = case.counts[i] - case.counts[i - 1]

(***************************************************************************)
(* A fingerprint counts every device once, whatever order the tool lists   *)
(* them in, and one that cannot be taken says what is missing.             *)
(* (fingerprint::capture, Capture::fingerprint.)                           *)
(***************************************************************************)
EveryDeviceCounted ==
    case.kind = "machine" =>
        LET a == case.capture.accelerators IN
        /\ MapThenSumSet(LAMBDA i : a[i].count, DOMAIN a) = case.gpus
        /\ \A i, j \in DOMAIN a : a[i].kind = a[j].kind => i = j
        /\ case.doc[1] = "missing" => case.doc[2] # {}
        /\ case.gpus = 0 => case.doc[1] = "missing"

(***************************************************************************)
(* The fingerprint of a machine and its running readings tell one story    *)
(* about whose memory the device uses.  (memory_is_unified, device.)       *)
(***************************************************************************)
MemoryIsOneStory ==
    (case.kind = "machine" /\ case.gpus > 0) =>
        /\ Value(case.stats).unified = case.capture.unified
        /\ IsSome(case.capture.unified) =>
              Value(case.stats).total = case.capture.accelerators[1].kind.memory

(***************************************************************************)
(* What was asked for is what runs: after an install that says it started  *)
(* the agent, with flags or from a file, over whatever was there, the      *)
(* process has the settings that were asked for and the binary that is     *)
(* there.  An install that finds nothing to do says the truth as long as   *)
(* every earlier one went through and nothing else started the agent.      *)
(* (service::install, plan::plan, AgentInvocation::argv.)                  *)
(***************************************************************************)
InstallTakes ==
    (/\ case.kind = "service" /\ case.did.what = "install"
     /\ ~case.did.faulty /\ case.did.out[1] = "ok" /\ case.did.out[2].running
     /\ case.did.out[2].changed \/ ~case.drift) =>
        /\ case.m.proc # {}
        /\ \A p \in case.m.proc : RunArgs(p.argv) = case.did.asked /\ p.binary = case.host.binary

(***************************************************************************)
(* After an uninstall whose steps all worked nothing is left: no unit,     *)
(* nothing that would start again, and no process.  (service::uninstall.)  *)
(***************************************************************************)
UninstallLeavesNothing ==
    (case.kind = "service" /\ case.did.what = "uninstall" /\ ~case.did.faulty) =>
        case.m.unit = {} /\ case.m.loaded = {} /\ case.m.proc = {}

(***************************************************************************)
(* An agent that does not stay up is not said to be running, except on     *)
(* launchd, and what the installer then blames would really stop it.       *)
(* (ServicePlan.verify, startup_obstacle, ensure_usable.)                  *)
(***************************************************************************)
CrashLoopIsSeen ==
    (case.kind = "service" /\ case.did.what = "install" /\ case.did.out[1] = "ok") =>
        LET start    == AgentStart(case.m.kind, case.host, case.did.asked)
            obstacle == StartupObstacle(case.host)
        IN  IF case.did.out[2].running THEN case.m.kind = "Launchd" \/ Steady(case.m, case.host)
            ELSE /\ obstacle = "dir" => start = Err("dir")
                 /\ (obstacle = "port" /\ case.did.asked.browser) => start[1] = "err"

(***************************************************************************)
(* How systemd reads ExecStart: either quote groups up to the next of its  *)
(* kind, a backslash keeps what follows, and % and $ stand for something   *)
(* of systemd's wherever they are ("?").  A quote that is not closed makes *)
(* it refuse the line.                                                     *)
(***************************************************************************)
SystemdReads(line) ==
    LET Step(st, c) ==
            CASE st.kept                    -> [st EXCEPT !.word = Append(@, c), !.kept = FALSE]
              [] ~st.kept /\ c = "\\"       -> [st EXCEPT !.kept = TRUE, !.open = TRUE]
              [] ~st.kept /\ c = st.quote   -> [st EXCEPT !.quote = ""]
              [] ~st.kept /\ st.quote = "" /\ c \in {"\"", "'"} ->
                    [st EXCEPT !.quote = c, !.open = TRUE]
              [] ~st.kept /\ st.quote = "" /\ c = " " ->
                    [st EXCEPT !.words = IF st.open THEN Append(@, st.word) ELSE @,
                               !.word = <<>>, !.open = FALSE]
              [] OTHER -> [st EXCEPT !.word = Append(@, IF c \in {"%", "$"} THEN "?" ELSE c),
                                     !.open = TRUE]
        end == FoldLeft(Step, [words |-> <<>>, word |-> <<>>, quote |-> "", kept |-> FALSE,
                               open |-> FALSE], line)
    IN  IF end.quote # "" THEN <<>>
        ELSE IF end.open THEN Append(end.words, end.word) ELSE end.words

\* How CommandLineToArgvW reads one: backslashes count only before a quote.
WindowsReads(line) ==
    LET Flushed(st, n) == [st EXCEPT !.word = @ \o Repeat("\\", n), !.run = 0, !.open = TRUE]
        Step(st, c) ==
            CASE c = "\\" -> [st EXCEPT !.run = @ + 1, !.open = TRUE]
              [] c = "\"" -> LET half == Flushed(st, st.run \div 2) IN
                             IF st.run % 2 = 1 THEN [half EXCEPT !.word = Append(@, "\"")]
                             ELSE [half EXCEPT !.quoted = ~@]
              [] c = " " /\ ~st.quoted ->
                    LET all == Flushed(st, st.run) IN
                    [all EXCEPT !.words = IF st.open THEN Append(@, all.word) ELSE @,
                                !.word = <<>>, !.open = FALSE]
              [] OTHER -> [Flushed(st, st.run) EXCEPT !.word = Append(@, c)]
        end == FoldLeft(Step, [words |-> <<>>, word |-> <<>>, quoted |-> FALSE, run |-> 0,
                               open |-> FALSE], line)
    IN  IF end.open THEN Append(end.words, Flushed(end, end.run).word) ELSE end.words

(***************************************************************************)
(* An argument with spaces, double quotes and backslashes reaches the      *)
(* agent as it was: what the supervisor reads is what was written into the *)
(* unit.  On Windows every argument does.  For systemd shell_words escapes *)
(* neither % nor $, and leaves an apostrophe bare in an argument that has  *)
(* nothing else to quote: a path with one of these is another path, and    *)
(* the property is about the others.  (shell_words, windows_quote.)        *)
(***************************************************************************)
QuotedArgsComeBack ==
    case.kind = "words" =>
        LET Has(arg, letters) == Range(arg) \cap letters # {}
            plain == \A i \in DOMAIN case.argv :
                        LET arg == case.argv[i] IN
                        /\ ~Has(arg, {"%", "$"})
                        /\ Has(arg, {"'"}) => Has(arg, {" ", "\"", "\\"})
        IN  /\ WindowsReads(case.windows) = case.argv
            /\ plain => SystemdReads(case.shell) = case.argv

(***************************************************************************)
(* Wherever the machine stops, a secret is the old one or the new one and  *)
(* never a part, and it is not where others may read it unless its file    *)
(* was open to them before.  (secretfile::write.)                          *)
(***************************************************************************)
SecretIsOldOrNew ==
    case.kind = "secret" =>
        LET old == {f.bytes : f \in case.before.target}
            now == {f.bytes : f \in case.after.target}
        IN  /\ now \in (IF case.done THEN {{"new"}} ELSE {old, {"new"}})
            /\ SecretPrivate(case.before) => \A f \in case.after.tmp \cup case.after.target : f.mode = "own"

(***************************************************************************)
(* A stop that reports success has stopped what it names and nothing else; *)
(* docker that does not answer is not an idle machine.  (stop --all; for   *)
(* stop <recipe> this holds when docker answers.)                          *)
(***************************************************************************)
StoppedIsNotRunning ==
    (case.kind = "stop" /\ case.done.out[1] = "ok") =>
        LET named == {c \in case.before : case.what = "all" \/ c.recipe = "x"}
        IN  case.what = "all" \/ case.docker = "answers" =>
                /\ \A c \in case.done.containers : c.name \in {d.name : d \in named} => ~c.running
                /\ case.before \ named \subseteq case.done.containers

(***************************************************************************)
(* The logs that are shown are of the container that runs, whatever ranks  *)
(* have exited beside it, and two are never guessed between.  (logs_with.) *)
(***************************************************************************)
LogsPickTheLive ==
    case.kind = "logs" =>
        LET mine == {c \in case.containers : c.recipe = "x"}
            live == {c \in mine : c.running}
        IN  IF (\A c \in mine : c.name # "x") /\ Cardinality(live) = 1
            THEN case.out[1] = "ok" /\ case.out[2] \in live
            ELSE case.out[1] = "ok" => case.out[2] \in mine

(***************************************************************************)
(* A job that is submitted again, by the walk over a node's addresses      *)
(* after an answer was lost or by its user, is the job it was; and a job   *)
(* that is accepted is the one that was asked for, never an older one that *)
(* happens to have its key.  (derived_key, BenchHost::submit.)             *)
(***************************************************************************)
SubmittedOnce ==
    case.kind = "submit" =>
        /\ \A j, k \in case.two.node.jobs : j.key = k.key => j = k
        /\ \A s \in {<<case.one, case.first>>, <<case.two, case.second>>} :
              s[1].out[1] = "ok" =>
                  /\ s[1].out[2] \in s[1].node.jobs
                  /\ s[1].out[2].spec = SubmitRequest(s[2])[2].spec
        /\ case.first = case.second /\ case.one.out[1] = "ok" /\ case.two.out[1] = "ok"
              => case.two.out = case.one.out

(***************************************************************************)
(* A submission that failed for good has left nothing on the node: what    *)
(* may have been done is called retryable.  (from_link, refused; one       *)
(* address.  A walk that loses the answer of one address and is turned     *)
(* away at the next does not say so.)                                      *)
(***************************************************************************)
FinalFailureDidNothing ==
    (case.kind = "submit" /\ Len(case.fates) = 1 /\ case.one.out[1] = "err") =>
        case.one.out[2].retryable \/ case.one.node.jobs = case.node.jobs

(***************************************************************************)
(* A pairing code is heard by at most one address, the last that is tried; *)
(* nobody is said to have heard it only if nobody did, and no address is   *)
(* left untried because of one where the system found nobody.  One error   *)
(* is misread: a link that the system gives up in the middle of the        *)
(* ceremony ends as one that was never made, and the code may then be      *)
(* heard at the next address too.  (reach::never_reached, walk.)           *)
(***************************************************************************)
CodeIsHeardOnce ==
    case.kind = "walk" =>
        LET tried   == case.walk.tried
            misread == {i \in DOMAIN tried : tried[i] = <<"ceremony", "TimedOut">>}
            heard   == {i \in DOMAIN tried : Heard(tried[i])} \ misread
            nobody  == {"connect"} \X {"ConnectionRefused", "TimedOut", "HostUnreachable"}
        IN  /\ heard \subseteq {Len(tried)}
            /\ case.walk.out = <<"err", "NeverReached">> => heard = {} /\ tried = case.dials
            /\ tried # case.dials => tried[Len(tried)] \notin nobody
            /\ case.walk.out[1] = "ok" <=> \E i \in DOMAIN tried : tried[i][2] = "Paired"

(***************************************************************************)
(* Whatever a node sends, a file that was fetched is the one promised, no  *)
(* file that was there is changed, and nothing lands outside; a run that   *)
(* says it passed has passed and has everything; and what a node keeps as  *)
(* it promised is fetched.  A write that the disk cuts off leaves one part *)
(* of a file behind, the run says that it failed, and a fetch into the     *)
(* same directory is refused from then on, whatever the node sends.        *)
(* (fetch_all, download, BenchHost::chunk.)                                *)
(***************************************************************************)
FetchedIsPromised ==
    case.kind = "fetch" =>
        LET items == Range(case.items)
            got   == case.run.files \ case.before
            paths == {m.path : m \in items}
            whole == {f \in got : \E m \in items : m.plain /\ f = <<m.path, m.sha256>>}
        IN  /\ case.before \subseteq case.run.files
            /\ \A f \in got \ whole :
                  /\ got \ whole = {f}
                  /\ \E m \in items : m.plain /\ f[1] = m.path /\ IsPrefix(f[2], m.sha256)
                  /\ case.run.out[1] = "err" /\ case.room # Plenty
            /\ got # {} => case.again.out[1] = "err" /\ got \subseteq case.again.files
            /\ case.run.out[1] = "ok" =>
                  case.outcome = "pass" /\ \A m \in items : <<m.path, m.sha256>> \in case.run.files
            /\ (case.honest /\ case.room = Plenty /\ \A m \in items : m.plain) /\ Cardinality(paths) = 2
                /\ {f[1] : f \in case.before} \cap paths = {}
                  => paths = {f[1] : f \in got}

-----------------------------------------------------------------------------
(***************************************************************************)
(* The promises of the parts, as they are checked.                         *)
(***************************************************************************)

(***************************************************************************)
(* A setting means one thing, whoever sets it: what a page may set reaches *)
(* the engine as it was sent, what it may not set stays the recipe's, and  *)
(* the command line says the same. (settings/mod.rs, validate.rs.)         *)
(***************************************************************************)
PagesMeanOneThing ==
    /\ AcceptedReachesEngine
    /\ DeniedNeverTravels
    /\ CliSaysTheSame

(***************************************************************************)
(* A recipe of someone else becomes a command that runs the engine it      *)
(* names, without the hub and without the host's secrets, the same on      *)
(* every rank; or it is refused by name. (Recipe::parse, translate,        *)
(* DockerCommand::render.)                                                 *)
(***************************************************************************)
CommandIsTame ==
    /\ TypeOK
    /\ OperandsStayOperands
    /\ OfflineStays
    /\ SecretsStay
    /\ RanksAgree

(***************************************************************************)
(* What runs is what was meant: the command that serves a recipe has the   *)
(* settings that were sent and accepted, and nothing of the recipe's that  *)
(* is refused. (settings, recipe, docker/translate.rs, docker/command.rs.) *)
(***************************************************************************)
CommandsAreMeant == PagesMeanOneThing /\ CommandIsTame

(***************************************************************************)
(* A name or a digest stands for one thing: equal digests are equal        *)
(* commands and equal documents, and no registry answers for a name that   *)
(* is not its own. (content_hash, canonical, scalars.rs,                   *)
(* RegistrySet::resolve.)                                                  *)
(***************************************************************************)
NamesMeanOneThing ==
    /\ HashCoversCommand
    /\ DigestTellsApart
    /\ NamesAreTame
    /\ BuiltinNotShadowed

(***************************************************************************)
(* The gate before a launch lets through what was released and is not      *)
(* revoked, and that only. (release::verify, revocations::accept.)         *)
(***************************************************************************)
ReleaseGateHolds ==
    /\ OnlyTheSignedRuns
    /\ GoodReleaseRuns
    /\ RevokedStaysRevoked

(***************************************************************************)
(* A digest that is signed names one document, by names that mean one      *)
(* thing, and only the signed and unrevoked runs. (content_hash, scalars,  *)
(* release::verify, revocations::accept.)                                  *)
(***************************************************************************)
NamesAreTrusted == NamesMeanOneThing /\ ReleaseGateHolds


(***************************************************************************)
(* What the commands report of the service and of the containers is what   *)
(* the machine is like afterwards: install and uninstall on every          *)
(* supervisor and from every state it may be found in, with the secrets    *)
(* the agent needs whole; stop and logs among all the containers that are  *)
(* left of earlier launches. (commands/service.rs, service/plan.rs,        *)
(* secretfile::write, commands/lifecycle.rs.)                              *)
(***************************************************************************)
ServiceKeepsItsWord ==
    /\ InstallTakes
    /\ UninstallLeavesNothing
    /\ CrashLoopIsSeen
    /\ QuotedArgsComeBack
    /\ SecretIsOldOrNew
    /\ StoppedIsNotRunning
    /\ LogsPickTheLive

(***************************************************************************)
(* A command that loses an answer neither does twice what it did, nor says *)
(* it did nothing when it may have. (commands/bench, peer/reach.rs,        *)
(* BenchHost::submit.)                                                     *)
(***************************************************************************)
BenchCommandsAreSafe ==
    /\ SubmittedOnce
    /\ FinalFailureDidNothing
    /\ CodeIsHeardOnce
    /\ FetchedIsPromised
=============================================================================
