------------------------------ MODULE Service ------------------------------
(***************************************************************************)
(* The agent on its machine: the background service that keeps it running  *)
(* (metralectl/src/service.rs, service/plan.rs, commands/service.rs), its  *)
(* start (commands/agent.rs), the directory and the secret files it needs  *)
(* (configdir.rs, core/secretfile.rs, agent/token.rs), and the commands    *)
(* that stop and read the containers (commands/lifecycle.rs).              *)
(*                                                                         *)
(* A machine is a value: the unit on disk, the definition its supervisor   *)
(* has read, and the process the supervisor keeps running.  Each is a set  *)
(* of at most one element.  A command that fails has no effect.            *)
(***************************************************************************)
EXTENDS Integers, Sequences, FiniteSets, SequencesExt

LOCAL Ok(x)  == <<"ok", x>>
LOCAL Err(e) == <<"err", e>>

-----------------------------------------------------------------------------
(***************************************************************************)
(* What the supervisor is told to run.                                     *)
(***************************************************************************)
ServiceKinds == {"Systemd", "Launchd", "ScheduledTask"}

\* InstallConfig::parse.
ReadInstallConfig(c) == c.version = 1 /\ c.absolute

\* AgentInvocation of `agent install`.
InvocationOfFlags(args, binary, bench_node) ==
    [port |-> args.port, client |-> args.client, discovery |-> ~args.no_discovery,
     browser |-> ~args.no_browser, config_dir |-> args.config_dir, log_file |-> "",
     bench_node |-> bench_node, binary |-> binary]

\* InstallConfig::invocation.
InvocationOfFile(c, binary, bench_node) ==
    [port |-> c.port, client |-> c.mode = "client", discovery |-> c.discovery,
     browser |-> c.browser, config_dir |-> c.config_dir, log_file |-> "",
     bench_node |-> bench_node, binary |-> binary]

\* AgentInvocation::argv.
Argv(inv) ==
    LET When(b, words) == IF b THEN words ELSE <<>> IN
    <<"metralectl">>
    \o When(inv.config_dir # "", <<"--config-dir", inv.config_dir>>)
    \o <<"agent", "run", "--port", inv.port>>
    \o When(inv.client, <<"--client">>)
    \o When(~inv.discovery, <<"--no-discovery">>)
    \o When(~inv.browser, <<"--no-browser">>)
    \o When(inv.log_file # "", <<"--log-file", inv.log_file>>)

\* A task has no journal: the agent is told to write its own log.
TaskInvocation(inv) == [inv EXCEPT !.log_file = "log"]

\* The unit's body.
Unit(kind, inv) ==
    [argv    |-> Argv(IF kind = "ScheduledTask" THEN TaskInvocation(inv) ELSE inv),
     binary  |-> inv.binary,
     limited |-> kind = "Systemd" /\ ~inv.bench_node]

SystemdPlan ==
    [pre_activate |-> <<>>, activate |-> <<"reload", "enable_now", "restart">>,
     best_effort |-> <<"linger">>, verify |-> "up_twice", deactivate |-> <<"disable_now">>]

LaunchdPlan ==
    [pre_activate |-> <<"bootout">>, activate |-> <<"bootstrap">>,
     best_effort |-> <<>>, verify |-> "loaded", deactivate |-> <<"bootout">>]

\* scheduled_task.
TaskPlan ==
    [pre_activate |-> <<"stop_task">>, activate |-> <<"register", "start_task">>,
     best_effort |-> <<>>, verify |-> "up_twice", deactivate |-> <<"stop_task", "unregister">>]

Plan(kind) ==
    CASE kind = "Systemd" -> SystemdPlan
      [] kind = "Launchd" -> LaunchdPlan
      [] OTHER            -> TaskPlan

-----------------------------------------------------------------------------
(***************************************************************************)
(* Quoting.  An argument is a sequence of characters.                      *)
(***************************************************************************)
Repeat(c, n) == [i \in 1 .. n |-> c]

\* One argument of a systemd ExecStart line.
ShellWord(a) ==
    IF a = <<>> \/ \E c \in Range(a) : c \in {" ", "\"", "\\"}
    THEN <<"\"">> \o FlattenSeq([i \in DOMAIN a |->
            IF a[i] \in {"\"", "\\"} THEN <<"\\", a[i]>> ELSE <<a[i]>>]) \o <<"\"">>
    ELSE a

\* The run of backslashes that ends at position i.
RunBefore(a, i) == CHOOSE n \in 0 .. i :
    (\A j \in (i - n + 1) .. i : a[j] = "\\") /\ (n = i \/ a[i - n] # "\\")

\* windows_quote: a run of backslashes counts twice before a quote, and once elsewhere.
WindowsQuote(a) ==
    IF a # <<>> /\ \A c \in Range(a) : c \notin {" ", "\""} THEN a
    ELSE <<"\"">> \o FlattenSeq([i \in DOMAIN a |->
            IF a[i] = "\"" THEN Repeat("\\", RunBefore(a, i - 1) + 1) \o <<"\"">> ELSE <<a[i]>>])
         \o Repeat("\\", RunBefore(a, Len(a))) \o <<"\"">>

JoinWords(words) ==
    FlattenSeq([i \in DOMAIN words |-> IF i = 1 THEN words[i] ELSE <<" ">> \o words[i]])

\* shell_words, windows_command_line.
ShellWords(argv)         == JoinWords([i \in DOMAIN argv |-> ShellWord(argv[i])])
WindowsCommandLine(argv) == JoinWords([i \in DOMAIN argv |-> WindowsQuote(argv[i])])

\* xml_escape.
XmlEscape(s) ==
    FlattenSeq([i \in DOMAIN s |->
        CASE s[i] = "&" -> <<"&", "amp", ";">>
          [] s[i] = "<" -> <<"&", "lt", ";">>
          [] s[i] = ">" -> <<"&", "gt", ";">>
          [] OTHER      -> <<s[i]>>])

-----------------------------------------------------------------------------
(***************************************************************************)
(* The directory of the agent's state, and its secrets.                    *)
(***************************************************************************)
\* advice: why a directory with these facts will not do.
Advice(dir) ==
    IF ~dir.own THEN Err("owned by another")
    ELSE IF ~dir.owner_writes THEN Err("not writable")
    ELSE Ok("")

Diagnose(dir) ==
    IF ~dir.exists THEN Ok("")
    ELSE IF ~dir.is_dir THEN Err("not a directory")
    ELSE Advice(dir)

\* ensure_usable: the facts, then a file is really written.
EnsureUsable(dir) ==
    IF ~dir.exists THEN (IF dir.parent_writes THEN Ok("") ELSE Err("cannot create"))
    ELSE IF ~dir.is_dir THEN Err("not a directory")
    ELSE IF Advice(dir) # Ok("") THEN Advice(dir)
    ELSE IF dir.probe_lands THEN Ok("") ELSE Err("not writable")

(***************************************************************************)
(* secretfile::write, as the states the disk passes through: a crash       *)
(* leaves any of them.  The target is what a link leads to; the mode of a  *)
(* file that is replaced is carried over.                                  *)
(***************************************************************************)
SecretWrite(fs, bytes) ==
    LET created == [fs EXCEPT !.tmp = {[bytes |-> "", mode |-> "own"]}]
        written == [fs EXCEPT !.tmp = {[bytes |-> bytes, mode |-> "own"]}]
        carried == [fs EXCEPT !.tmp = {[bytes |-> bytes,
                        mode |-> IF fs.target = {} THEN "own"
                                 ELSE (CHOOSE f \in fs.target : TRUE).mode]}]
        renamed == [fs EXCEPT !.target = carried.tmp]
    IN  <<fs, created, written, carried, renamed>>

\* verify: nobody else may read it.
SecretPrivate(fs) == \A f \in fs.target : f.mode = "own"

\* token::load_or_create, on what the file holds.
LoadToken(file) ==
    CASE file = "absent"    -> Ok("fresh")
      [] file = "wide"      -> Err("token is readable by others")
      [] file = "malformed" -> Err("token is malformed")
      [] OTHER              -> Ok(file)

\* Identity::load_or_create.
LoadKey(file) ==
    CASE file = "absent"    -> Ok("fresh")
      [] file = "malformed" -> Err("key is malformed")
      [] OTHER              -> Ok(file)

\* BenchConfig::load; it validates what it reads.
LoadBench(kind, file) ==
    IF kind = "ScheduledTask" \/ file = "absent" THEN Ok("off")
    ELSE IF file = "good" THEN Ok("on") ELSE Err("bench.yaml")

\* probe_can_launch: a control-only agent does not ask.
CanLaunch(host, client) == ~client /\ host.docker

\* What an agent that has started serves.
Serving(host, args, bench, token) ==
    [browser |-> args.browser, token |-> IF args.browser THEN {token} ELSE {},
     can_launch |-> CanLaunch(host, args.client), discovery |-> args.discovery,
     bench |-> bench = "on"]

(***************************************************************************)
(* `agent run`: what stops it, in the order it is met, or the agent.       *)
(***************************************************************************)
AgentStart(kind, host, args) ==
    LET bench == LoadBench(kind, host.bench)
        token == LoadToken(host.token)
    IN  IF EnsureUsable(host.dir)[1] = "err"          THEN Err("dir")
        ELSE IF bench[1] = "err"                      THEN Err("bench")
        ELSE IF args.browser /\ token[1] = "err"      THEN Err("token")
        ELSE IF LoadKey(host.key)[1] = "err"          THEN Err("key")
        ELSE IF args.browser /\ host.port_taken       THEN Err("port")
        ELSE Ok(Serving(host, args, bench[2], token[2]))

\* AgentRunArgs, as the words of the command line say them.
RunArgs(argv) ==
    LET Has(word) == word \in Range(argv) IN
        [port |-> argv[(CHOOSE i \in DOMAIN argv : argv[i] = "--port") + 1],
         client |-> Has("--client"), discovery |-> ~Has("--no-discovery"),
         browser |-> ~Has("--no-browser")]

-----------------------------------------------------------------------------
(***************************************************************************)
(* The supervisors.  A process is what it was started with: the words of   *)
(* the definition, and the binary that was there then.                     *)
(***************************************************************************)
NoMachine(kind) == [kind |-> kind, unit |-> {}, loaded |-> {}, enabled |-> FALSE, proc |-> {}]

Steady(m, host) ==
    \A p \in m.proc : AgentStart(m.kind, host, RunArgs(p.argv))[1] = "ok"

Started(m, host) == {[argv |-> d.argv, binary |-> host.binary] : d \in m.loaded}

\* The command can do what it says; the scheduler ignores a second instance.
Possible(m, command) ==
    CASE command \in {"enable_now", "restart", "bootout", "start_task", "unregister",
                      "disable_now", "stop_task"} -> m.loaded # {}
      [] command = "bootstrap"                    -> m.loaded = {}
      [] OTHER                                    -> TRUE

Effect(m, host, command) ==
    CASE command = "reload"      -> [m EXCEPT !.loaded = m.unit]
      [] command = "enable_now"  -> [m EXCEPT !.enabled = TRUE,
                                              !.proc = IF @ = {} THEN Started(m, host) ELSE @]
      [] command = "restart"     -> [m EXCEPT !.proc = Started(m, host)]
      [] command = "disable_now" -> [m EXCEPT !.enabled = FALSE, !.proc = {}]
      [] command = "bootout"     -> [m EXCEPT !.loaded = {}, !.proc = {}]
      [] command = "bootstrap"   -> LET read == [m EXCEPT !.loaded = m.unit, !.enabled = TRUE] IN
                                    [read EXCEPT !.proc = Started(read, host)]
      [] command = "stop_task"   -> [m EXCEPT !.proc = {}]
      [] command = "register"    -> [m EXCEPT !.loaded = m.unit, !.enabled = TRUE]
      [] command = "start_task"  -> [m EXCEPT !.proc = IF @ # {} /\ Steady(m, host) THEN @
                                                       ELSE Started(m, host)]
      [] command = "unregister"  -> [m EXCEPT !.loaded = {}, !.enabled = FALSE]
      [] OTHER                   -> m

Succeeds(m, command, fails) == command \notin fails /\ Possible(m, command)

\* The verify step: is-active or the task's state, twice with a pause; launchctl print.
Answers(m, host, verify, fails) ==
    /\ "verify" \notin fails
    /\ IF verify = "loaded" THEN m.loaded # {} ELSE m.proc # {} /\ Steady(m, host)

-----------------------------------------------------------------------------
(***************************************************************************)
(* install and uninstall.                                                  *)
(***************************************************************************)
\* Each is run, whatever becomes of the others.
RunEach(m, host, commands, fails) ==
    FoldLeft(LAMBDA acc, c : IF Succeeds(acc, c, fails) THEN Effect(acc, host, c) ELSE acc,
             m, commands)

\* They are run up to the first that fails.
RunAll(m, host, commands, fails) ==
    FoldLeft(LAMBDA acc, c :
                IF acc.ok /\ Succeeds(acc.m, c, fails)
                THEN [acc EXCEPT !.m = Effect(acc.m, host, c)]
                ELSE [acc EXCEPT !.ok = FALSE],
             [m |-> m, ok |-> TRUE], commands)

\* The steps after the unit is written.
Activate(m, host, fails) ==
    LET plan  == Plan(m.kind)
        ready == RunEach(m, host, plan.pre_activate, fails)
        done  == RunAll(ready, host, plan.activate, fails)
    IN  IF ~done.ok THEN [m |-> done.m, out |-> Err("activation failed")]
        ELSE LET after == RunEach(done.m, host, plan.best_effort, fails) IN
             [m   |-> after,
              out |-> Ok([changed |-> TRUE,
                          running |-> Answers(after, host, plan.verify, fails),
                          skipped |-> Range(plan.best_effort) \cap fails])]

Install(m, host, inv, fails) ==
    LET unit == Unit(m.kind, inv) IN
    IF m.unit = {unit} /\ Answers(m, host, Plan(m.kind).verify, fails)
    THEN [m |-> m, out |-> Ok([changed |-> FALSE, running |-> TRUE, skipped |-> {}])]
    ELSE IF "write" \in fails THEN [m |-> m, out |-> Err("cannot write the unit")]
    ELSE Activate([m EXCEPT !.unit = {unit}], host, fails)

\* `agent install --config`: a directory named twice is named once or refused, and
\* an agent that does not run is a failure.
InstallFromFile(m, host, config, named, fails) ==
    IF ~ReadInstallConfig(config) \/ named \notin {"", config.config_dir}
    THEN [m |-> m, out |-> Err("refused")]
    ELSE LET done == Install(m, host, InvocationOfFile(config, host.binary, host.bench # "absent"), fails)
         IN  IF done.out[1] = "ok" /\ ~done.out[2].running
             THEN [done EXCEPT !.out = Err("not running")] ELSE done

\* Mutant: a task is removed and not stopped.
UninstallUnstopped(m, host, fails) ==
    LET down == RunEach(m, host, SelectSeq(Plan(m.kind).deactivate, LAMBDA c : c # "stop_task"), fails)
    IN  RunEach([down EXCEPT !.unit = {}], host,
                IF m.kind = "Systemd" THEN <<"reload">> ELSE <<>>, fails)

\* Deactivation may fail: the unit is removed all the same.
Uninstall(m, host, fails) ==
    LET down == RunEach(m, host, Plan(m.kind).deactivate, fails) IN
    RunEach([down EXCEPT !.unit = {}], host,
            IF m.kind = "Systemd" THEN <<"reload">> ELSE <<>>, fails)

\* startup_obstacle: what an installer says of an agent that is not running.
StartupObstacle(host) ==
    IF Diagnose(host.dir)[1] = "err" THEN "dir"
    ELSE IF host.port_taken THEN "port"
    ELSE "none"

-----------------------------------------------------------------------------
(***************************************************************************)
(* stop and logs.  A container has a name, the recipe of its label, and    *)
(* runs or has exited; docker may not answer.                              *)
(***************************************************************************)
\* containers_for_recipe: what docker refuses to say is not there.
ContainersFor(containers, recipe, include_exited, docker) ==
    IF docker = "absent" THEN Err("cannot run docker")
    ELSE Ok({c \in containers :
                docker = "answers" /\ c.recipe = recipe /\ (c.running \/ include_exited)})

\* Mutant: docker that does not answer has no containers.
ManagedUnchecked(containers, docker) ==
    IF docker = "absent" THEN Err("cannot run docker")
    ELSE Ok({c \in containers : docker = "answers" /\ c.running})

\* managed_containers.
ManagedContainers(containers, docker) ==
    CASE docker = "absent"  -> Err("cannot run docker")
      [] docker = "refuses" -> Err("docker ps failed")
      [] docker = "answers" -> Ok({c \in containers : c.running})

\* stop_each: a container that is gone is stopped, and one that will not stop is reported.
StopEach(containers, targets, wont) ==
    LET left == {IF c \in targets \ wont THEN [c EXCEPT !.running = FALSE] ELSE c : c \in containers}
    IN  [containers |-> left, out |-> IF targets \cap wont = {} THEN Ok("") ELSE Err("could not stop")]

StopAll(containers, docker, wont) ==
    LET targets == ManagedContainers(containers, docker) IN
    IF targets[1] = "err" THEN [containers |-> containers, out |-> targets]
    ELSE StopEach(containers, targets[2], wont)

\* stop <recipe>: a name no registry resolves is looked for as it was typed.
StopRecipe(containers, recipe, resolves, docker, wont) ==
    LET found == ContainersFor(containers, recipe, FALSE, docker) IN
    CASE found[1] = "err" -> [containers |-> containers, out |-> found]
      [] found = Ok({})   -> [containers |-> containers,
                              out |-> IF resolves THEN Ok("is not running") ELSE Err("no such recipe")]
      [] OTHER            -> StopEach(containers, found[2], wont)

TheOne(found) ==
    IF Cardinality(found) = 1 THEN Ok(CHOOSE c \in found : TRUE)
    ELSE Err(IF found = {} THEN "none" ELSE "several")

\* logs_with: the exact name, or else the one container that runs, or the one there is.
Logs(containers, recipe) ==
    LET exact   == {c \in containers : c.name = recipe}
        running == ContainersFor(containers, recipe, FALSE, "answers")[2]
        all     == ContainersFor(containers, recipe, TRUE, "answers")[2]
    IN  TheOne(CASE exact # {}                                   -> exact
                 [] exact = {} /\ Cardinality(running) = 1       -> running
                 [] OTHER -> IF running = {} \/ Cardinality(all) > Cardinality(running)
                             THEN all ELSE running)
=============================================================================
