------------------------------- MODULE Launch -------------------------------
(***************************************************************************)
(* Launching on one machine.  Every launch and stop of the agent goes      *)
(* through the control core (the admission check) into the docker          *)
(* launcher, which holds the recipe's gate from its first `docker ps` to   *)
(* its last command.  Three kinds of caller share it: a browser session, a *)
(* controller on another machine that retries lost sends (ControlRun), and *)
(* the reconciler, which converges a deployment on a generation one launch *)
(* or stop at a time.  Docker is the only record of what runs; the command *)
(* line (`metralectl run`) and the cluster ranks use it without the gate.  *)
(***************************************************************************)
EXTENDS Integers

CONSTANTS Recipes,
          Settings,       \* what a request's settings make of the command line
          Deployments,
          MaxGeneration,
          Slots,          \* requests the agent executes at the same time
          Host,           \* the reconciler, which runs one action at a time
          Budget,         \* RetryBudget.attempts
          MaxSteps,       \* converge's max_steps
          MaxIds,         \* bound: containers told apart at one time
          MaxCalls,       \* bound: requests, deployment actions and command-line runs
          Faults,         \* the failures and outside events that may happen
          MaxFaults       \* bound: how many of them do

ASSUME LaunchAssumption ==
  /\ Host \notin Slots /\ "free" \notin Slots \cup {Host}
  /\ "release" \notin Settings /\ "none" \notin Settings
  /\ "none" \notin Deployments \cup Slots
  /\ Budget \in Nat \ {0} /\ MaxSteps \in Nat \ {0}
  /\ {MaxGeneration, MaxIds, MaxCalls, MaxFaults} \subseteq Nat

VARIABLES
  box,        \* box[r]: the container with r's solo name
  rank,       \* rank[r]: the id of a running cluster rank of r, 0 for none
  gate,       \* gate[r]: who holds the recipe's gate
  admission,  \* AdmissionGate: "open", or "closed" (cordoned or draining)
  job,        \* job[p]: the control-core call p is executing
  host,       \* the reconciler's converge call
  client,     \* the controller's ControlRun
  cli,        \* `metralectl run`, between its `docker rm` and its `docker run`
  used        \* how much of each bound is spent

vars == <<box, rank, gate, admission, job, host, client, cli, used>>

Procs == Slots \cup {Host}
Free == "free"
Ids == 1 .. MaxIds
Generations == 1 .. MaxGeneration
NoOwner == [deployment |-> "none", generation |-> 0]
Owners == [deployment : Deployments, generation : Generations]

(* A container: its id, whether it runs, its labels and its command line,  *)
(* and who started it (a command-line container is run with --rm).         *)
Absent == [id |-> 0, state |-> "none", owner |-> NoOwner, how |-> "none", by |-> "none"]
Boxes ==
  [id : Ids, state : {"up", "exited"}, owner : Owners \cup {NoOwner},
   how : Settings \cup {"release"}, by : {"agent", "cli"}]

Idle ==
  [op |-> "none", recipe |-> "none", how |-> "none", owner |-> NoOwner,
   fit |-> TRUE, pc |-> "idle", ids |-> {}, res |-> "none"]

NoRun ==
  [pc |-> "idle", op |-> "none", recipe |-> "none", how |-> "none", fit |-> TRUE,
   sent |-> 0, probing |-> FALSE, slot |-> "none", outcome |-> "none"]

NoAction ==
  [pc |-> "idle", deployment |-> "none", generation |-> 0, intent |-> "none",
   recipe |-> "none", fit |-> "yes", acted |-> FALSE, launched |-> FALSE,
   steps |-> 0, outcome |-> "none"]

Init ==
  /\ box = [r \in Recipes |-> Absent]
  /\ rank = [r \in Recipes |-> 0]
  /\ gate = [r \in Recipes |-> Free]
  /\ admission = "open"
  /\ job = [p \in Procs |-> Idle]
  /\ host = NoAction
  /\ client = NoRun
  /\ cli = [pc |-> "idle", recipe |-> "none", how |-> "none"]
  /\ used = [calls |-> 0, faults |-> 0]

-----------------------------------------------------------------------------
(* Docker *)

Up(r) == box[r].state = "up"

\* Container ids docker has given out and somebody still knows.
KnownIds ==
  {box[r].id : r \in Recipes} \cup {rank[r] : r \in Recipes}
    \cup UNION {job[p].ids : p \in Procs}

\* A new container has an id nobody knows.
IsFresh(id) == id \in Ids \ KnownIds /\ \A i \in Ids \ KnownIds : id <= i

\* What is left of a container that stops running.
Stopped(b) == IF b.by = "cli" THEN Absent ELSE [b EXCEPT !.state = "exited"]

\* `docker stop ids`: each of them that runs stops running.
AfterStop(ids) ==
  [r \in Recipes |-> IF Up(r) /\ box[r].id \in ids THEN Stopped(box[r]) ELSE box[r]]
RanksAfterStop(ids) == [r \in Recipes |-> IF rank[r] \in ids THEN 0 ELSE rank[r]]

Fault(f) ==
  /\ f \in Faults /\ used.faults < MaxFaults
  /\ used' = [used EXCEPT !.faults = @ + 1]

-----------------------------------------------------------------------------
(* The control core and the docker launcher *)

\* A call that ends answers its caller and lets go of the gate it holds.
Finish(p, res) ==
  /\ job' = [job EXCEPT ![p].pc = "done", ![p].res = res, ![p].ids = {}]
  /\ gate' = [r \in Recipes |-> IF gate[r] = p THEN Free ELSE gate[r]]

GoTo(p, pc) == job' = [job EXCEPT ![p].pc = pc]

\* LocalControl::launch: the node admits launches and the recipe can be
\* launched here with these settings.
Admit(p) ==
  /\ job[p].pc = "asked"
  /\ IF admission = "open" /\ job[p].fit
       THEN GoTo(p, "gate") /\ UNCHANGED gate
       ELSE Finish(p, "not_launchable")
  /\ UNCHANGED <<box, rank, admission, host, client, cli, used>>

\* The model is not in this machine's cache.
NoWeights(p) ==
  /\ job[p].pc = "gate" /\ job[p].op = "launch"
  /\ Fault("weights")
  /\ Finish(p, "failed")
  /\ UNCHANGED <<box, rank, admission, host, client, cli>>

\* Mutant: the gate is looked up and not locked.
TakeGateUnlocked(p) ==
  /\ job[p].pc = "gate"
  /\ gate' = [gate EXCEPT ![job[p].recipe] = p]
  /\ GoTo(p, "ps")
  /\ UNCHANGED <<box, rank, admission, host, client, cli, used>>

TakeGate(p) ==
  /\ job[p].pc = "gate" /\ gate[job[p].recipe] = Free
  /\ gate' = [gate EXCEPT ![job[p].recipe] = p]
  /\ GoTo(p, "ps")
  /\ UNCHANGED <<box, rank, admission, host, client, cli, used>>

\* idempotent::running_as on the rows of `docker ps`.
LookLaunch(p) ==
  /\ job[p].pc = "ps" /\ job[p].op = "launch"
  /\ LET r == job[p].recipe
     IN IF Up(r) THEN job' = [job EXCEPT ![p].pc = "inspect", ![p].ids = {box[r].id}]
                 ELSE GoTo(p, "clear")
  /\ UNCHANGED <<box, rank, gate, admission, host, client, cli, used>>

\* Mutant: the first match instead of every match.
StopTargetsFirst(r) == IF rank[r] # 0 THEN {rank[r]} ELSE {box[q].id : q \in {q \in {r} : Up(q)}}

\* idempotent::stop_targets: every running container of the recipe, ranks included.
StopTargets(r) == {box[q].id : q \in {q \in {r} : Up(q)}} \cup ({rank[r]} \ {0})

LookStop(p) ==
  /\ job[p].pc = "ps" /\ job[p].op = "stop"
  /\ LET ids == StopTargets(job[p].recipe)
     IN IF ids = {} THEN Finish(p, "stopped")
        ELSE /\ job' = [job EXCEPT ![p].pc = "halt", ![p].ids = ids]
             /\ UNCHANGED gate
  /\ UNCHANGED <<box, rank, admission, host, client, cli, used>>

\* DockerLauncher::running, which takes no gate.
LookStatus(p) ==
  /\ job[p].pc = "ps" /\ job[p].op = "status"
  /\ Finish(p, IF Up(job[p].recipe) THEN "running" ELSE "not_running")
  /\ UNCHANGED <<box, rank, admission, host, client, cli, used>>

\* Mutant: an early return that leaves the gate locked.
LookFailsLocked(p) ==
  /\ job[p].pc = "ps"
  /\ Fault("ps")
  /\ job' = [job EXCEPT ![p].pc = "done", ![p].res = "unavailable", ![p].ids = {}]
  /\ UNCHANGED <<box, rank, gate, admission, host, client, cli>>

LookFails(p) ==
  /\ job[p].pc = "ps"
  /\ Fault("ps")
  /\ Finish(p, "unavailable")
  /\ UNCHANGED <<box, rank, admission, host, client, cli>>

\* is_same_launch, and is_owned_by for a launch that has an owner.
Adopts(j, b) == b.how = j.how /\ (j.owner # NoOwner => b.owner = j.owner)

\* `docker inspect` of the container that was running.
Inspect(p) ==
  /\ job[p].pc = "inspect"
  /\ LET b == box[job[p].recipe]
     IN Finish(p, IF b.id \notin job[p].ids THEN "failed"
                  ELSE IF Adopts(job[p], b) THEN "started" ELSE "already_running")
  /\ UNCHANGED <<box, rank, admission, host, client, cli, used>>

InspectFails(p) ==
  /\ job[p].pc = "inspect"
  /\ Fault("inspect")
  /\ Finish(p, "failed")
  /\ UNCHANGED <<box, rank, admission, host, client, cli>>

\* `docker rm -f name`; its failure is ignored.
Clear(p) ==
  /\ job[p].pc = "clear"
  /\ box' = [box EXCEPT ![job[p].recipe] = Absent]
  /\ GoTo(p, "run")
  /\ UNCHANGED <<rank, gate, admission, host, client, cli, used>>

ClearFails(p) ==
  /\ job[p].pc = "clear"
  /\ Fault("rm")
  /\ GoTo(p, "run")
  /\ UNCHANGED <<box, rank, gate, admission, host, client, cli>>

\* `docker run -d --name`: refused while the name is taken.
Run(p) ==
  /\ job[p].pc = "run"
  /\ LET r == job[p].recipe
     IN IF box[r].state = "none"
          THEN /\ \E id \in Ids :
                    /\ IsFresh(id)
                    /\ box' = [box EXCEPT ![r] =
                         [id |-> id, state |-> "up", owner |-> job[p].owner,
                          how |-> job[p].how, by |-> "agent"]]
               /\ Finish(p, "started")
          ELSE Finish(p, "failed") /\ UNCHANGED box
  /\ UNCHANGED <<rank, admission, host, client, cli, used>>

\* The image or the devices fail: a container that was created and did not
\* start may stay behind under the name.
RunFails(p) ==
  /\ job[p].pc = "run"
  /\ Fault("run")
  /\ LET r == job[p].recipe
     IN \/ UNCHANGED box
        \/ /\ box[r].state = "none"
           /\ \E id \in Ids :
                /\ IsFresh(id)
                /\ box' = [box EXCEPT ![r] =
                     [id |-> id, state |-> "exited", owner |-> job[p].owner,
                      how |-> job[p].how, by |-> "agent"]]
  /\ Finish(p, "failed")
  /\ UNCHANGED <<rank, admission, host, client, cli>>

\* `docker stop`: it complains of a container that is no longer there.
Halt(p) ==
  /\ job[p].pc = "halt"
  /\ LET r == job[p].recipe
         there == {box[r].id, rank[r]}
     IN /\ box' = AfterStop(job[p].ids)
        /\ rank' = RanksAfterStop(job[p].ids)
        /\ Finish(p, IF job[p].ids \subseteq there THEN "stopped" ELSE "failed")
  /\ UNCHANGED <<admission, host, client, cli, used>>

HaltFails(p) ==
  /\ job[p].pc = "halt"
  /\ Fault("stop")
  /\ \E ids \in SUBSET job[p].ids : box' = AfterStop(ids) /\ rank' = RanksAfterStop(ids)
  /\ Finish(p, "failed")
  /\ UNCHANGED <<admission, host, client, cli>>

Step(p) ==
  \/ Admit(p) \/ TakeGate(p) \/ LookLaunch(p) \/ LookStop(p) \/ LookStatus(p)
  \/ Inspect(p) \/ Clear(p) \/ Run(p) \/ Halt(p)
Fail(p) ==
  \/ NoWeights(p) \/ LookFails(p) \/ InspectFails(p) \/ ClearFails(p)
  \/ RunFails(p) \/ HaltFails(p)

\* What a caller hands to the control core.
Call(op, r, how, owner, fit) ==
  [op |-> op, recipe |-> r, how |-> how, owner |-> owner, fit |-> fit,
   pc |-> CASE op = "launch" -> "asked" [] op = "stop" -> "gate" [] op = "status" -> "ps",
   ids |-> {}, res |-> "none"]

\* A launch of a recipe with some settings, that this machine can (fit) or
\* cannot run; a stop of a recipe.
Requests ==
  [op : {"launch"}, recipe : Recipes, how : Settings, fit : BOOLEAN]
    \cup [op : {"stop"}, recipe : Recipes, how : {"none"}, fit : {TRUE}]

-----------------------------------------------------------------------------
(* A browser session on this machine *)

Request(s, q) ==
  /\ job[s].pc = "idle" /\ used.calls < MaxCalls
  /\ used' = [used EXCEPT !.calls = @ + 1]
  /\ job' = [job EXCEPT ![s] = Call(q.op, q.recipe, q.how, NoOwner, q.fit)]
  /\ UNCHANGED <<box, rank, gate, admission, host, client, cli>>

\* The answer reaches the session, or nobody waits for it any more.
Answer(s) ==
  /\ job[s].pc = "done" /\ client.slot # s
  /\ job' = [job EXCEPT ![s] = Idle]
  /\ UNCHANGED <<box, rank, gate, admission, host, client, cli, used>>

-----------------------------------------------------------------------------
(* The controller on another machine: ControlRun and drive *)

\* ControlRun::send: the send is counted when it is decided.
SendNext(c, probing) ==
  [c EXCEPT !.pc = "send", !.sent = @ + 1, !.probing = probing, !.slot = "none"]
Done(c, outcome) == [NoRun EXCEPT !.pc = "done", !.sent = c.sent, !.outcome = outcome]

\* Mutant: the budget compared with > instead of >=.
LostOnceMore(c) ==
  IF c.sent > Budget THEN Done(c, "exhausted") ELSE SendNext(c, c.op = "launch")

\* ControlRun::lost: retry within the budget, reading Status before a Launch.
Lost(c) ==
  IF c.sent >= Budget THEN Done(c, "exhausted") ELSE SendNext(c, c.op = "launch")

\* ControlRun::probed
Probed(c, res) ==
  IF res = "running" THEN Done(c, "already_running_there")
  ELSE IF c.sent >= Budget THEN Done(c, "exhausted") ELSE SendNext(c, FALSE)

\* ControlRun::record of an answer: only a probe's Status does not end the run.
Record(c, res) ==
  IF c.probing /\ res \in {"running", "not_running"} THEN Probed(c, res) ELSE Done(c, res)

ClientStart(q) ==
  /\ client.pc \in {"idle", "done"} /\ used.calls < MaxCalls
  /\ used' = [used EXCEPT !.calls = @ + 1]
  /\ client' = SendNext([NoRun EXCEPT !.op = q.op, !.recipe = q.recipe, !.how = q.how,
                                      !.fit = q.fit], FALSE)
  /\ UNCHANGED <<box, rank, gate, admission, job, host, cli>>

\* The request arrives and is executed; the controller waits for the answer.
ClientSend(s) ==
  /\ client.pc = "send" /\ job[s].pc = "idle"
  /\ job' = [job EXCEPT ![s] =
       Call(IF client.probing THEN "status" ELSE client.op, client.recipe, client.how,
            NoOwner, client.fit)]
  /\ client' = [client EXCEPT !.pc = "wait", !.slot = s]
  /\ UNCHANGED <<box, rank, gate, admission, host, cli, used>>

\* The send is lost before it arrives, or its answer is: the target goes on.
ClientLost ==
  /\ client.pc \in {"send", "wait"}
  /\ client' = Lost(client)
  /\ UNCHANGED <<box, rank, gate, admission, job, host, cli, used>>

\* There is no route, or the target does not take this controller's requests.
ClientRefused ==
  /\ client.pc = "send"
  /\ Fault("refuse")
  /\ client' = Done(client, "refused")
  /\ UNCHANGED <<box, rank, gate, admission, job, host, cli>>

ClientReply ==
  /\ client.pc = "wait" /\ job[client.slot].pc = "done"
  /\ client' = Record(client, job[client.slot].res)
  /\ job' = [job EXCEPT ![client.slot] = Idle]
  /\ UNCHANGED <<box, rank, gate, admission, host, cli, used>>

-----------------------------------------------------------------------------
(* The reconciler: decide, converge and Attempt::launch *)

IsOurs(r, d) == Up(r) /\ box[r].owner.deployment = d
Mine(d) == {r \in Recipes : IsOurs(r, d)}

\* A running workload of the recipe that is not deployment d's.
Foreign(r, d) == (Up(r) /\ ~IsOurs(r, d)) \/ rank[r] # 0

StopStep(r, d) ==
  IF Foreign(r, d) THEN [step |-> "refuse", recipe |-> r] ELSE [step |-> "stop", recipe |-> r]

\* launch_blocked: the recipe is not here, is another model's or other hardware's.
LaunchBlocked(h) == h.fit = "blocked" \/ Foreign(h.recipe, h.deployment)

\* Mutant: a newer generation that runs is not looked for.
DecideAnyGeneration(h) ==
  LET mine == Mine(h.deployment)
      current == {r \in mine : box[r].owner.generation = h.generation}
      older == mine \ current
      only(step) == {[step |-> step, recipe |-> h.recipe]}
  IN IF h.intent = "stopped"
       THEN IF mine = {} THEN only("converged") ELSE {StopStep(r, h.deployment) : r \in mine}
     ELSE IF \E r \in current : r # h.recipe THEN only("refuse")
     ELSE IF current = {} /\ LaunchBlocked(h) THEN only("refuse")
     ELSE IF older # {} THEN {StopStep(r, h.deployment) : r \in older}
     ELSE IF current = {} THEN only("launch") ELSE only("converged")

\* Mutant: the new generation is launched before the older one is stopped.
DecideLaunchFirst(h) ==
  LET mine == Mine(h.deployment)
      current == {r \in mine : box[r].owner.generation = h.generation}
      older == mine \ current
      only(step) == {[step |-> step, recipe |-> h.recipe]}
  IN IF \E r \in mine : box[r].owner.generation > h.generation THEN only("refuse")
     ELSE IF h.intent = "stopped"
       THEN IF mine = {} THEN only("converged") ELSE {StopStep(r, h.deployment) : r \in mine}
     ELSE IF \E r \in current : r # h.recipe THEN only("refuse")
     ELSE IF current = {} /\ LaunchBlocked(h) THEN only("refuse")
     ELSE IF current = {} THEN only("launch")
     ELSE IF older # {} THEN {StopStep(r, h.deployment) : r \in older} ELSE only("converged")

\* The next step toward the desired state (one for each workload that could
\* be the first of docker's list).
Decide(h) ==
  LET mine == Mine(h.deployment)
      current == {r \in mine : box[r].owner.generation = h.generation}
      older == mine \ current
      only(step) == {[step |-> step, recipe |-> h.recipe]}
  IN IF \E r \in mine : box[r].owner.generation > h.generation THEN only("refuse")
     ELSE IF h.intent = "stopped"
       THEN IF mine = {} THEN only("converged") ELSE {StopStep(r, h.deployment) : r \in mine}
     ELSE IF \E r \in current : r # h.recipe THEN only("refuse")
     ELSE IF current = {} /\ LaunchBlocked(h) THEN only("refuse")
     ELSE IF older # {} THEN {StopStep(r, h.deployment) : r \in older}
     ELSE IF current = {} THEN only("launch") ELSE only("converged")

\* The answer is known; after an attempt, docker is listed once more for it.
Outcome(o) == [NoAction EXCEPT !.acted = host.acted, !.steps = host.steps, !.outcome = o]
Answering(o) == [host EXCEPT !.pc = "answer", !.outcome = o]

\* desired_for an action of the plane: apply or stop.
HostAction(a) ==
  /\ host.pc = "idle" /\ used.calls < MaxCalls
  /\ used' = [used EXCEPT !.calls = @ + 1]
  /\ host' = a
  /\ UNCHANGED <<box, rank, gate, admission, job, client, cli>>

Begin(d, g, intent, r, fit) ==
  [pc |-> "observe", deployment |-> d, generation |-> g, intent |-> intent, recipe |-> r,
   fit |-> fit, acted |-> FALSE, launched |-> FALSE, steps |-> 0, outcome |-> "none"]

Apply(d, g, r, fit) == HostAction(Begin(d, g, "run", r, fit))
Stop(d, g) == HostAction(Begin(d, g, "stopped", "none", "yes"))

\* One round of converge's loop: `docker ps`, decide, and the start of the step.
\* A step that would launch, or stop to make room for a launch, is refused
\* while the node is closed.
HostDecide ==
  /\ host.pc = "observe"
  /\ \E s \in Decide(host) :
       \/ /\ s.step = "converged"
          /\ host' = Outcome(IF host.acted THEN "applied" ELSE "already_applied")
          /\ UNCHANGED job
       \/ /\ s.step = "refuse"
          /\ host' = Outcome("refused") /\ UNCHANGED job
       \/ /\ s.step = "launch"
          /\ host' = IF host.launched THEN Answering("failed")
                     ELSE IF admission = "closed" THEN Answering("refused")
                     ELSE [host EXCEPT !.pc = "fetch"]
          /\ UNCHANGED job
       \/ /\ s.step = "stop"
          /\ IF host.intent = "run" /\ admission = "closed"
               THEN host' = Outcome("refused") /\ UNCHANGED job
               ELSE /\ host' = [host EXCEPT !.pc = "acting"]
                    /\ job' = [job EXCEPT ![Host] =
                         Call("stop", s.recipe, "none", NoOwner, TRUE)]
  /\ UNCHANGED <<box, rank, gate, admission, client, cli, used>>

HostAnswer ==
  /\ host.pc = "answer"
  /\ host' = Outcome(host.outcome)
  /\ UNCHANGED <<box, rank, gate, admission, job, client, cli, used>>

HostLookFails ==
  /\ host.pc \in {"observe", "answer"}
  /\ Fault("ps")
  /\ host' = Outcome("error")
  /\ UNCHANGED <<box, rank, gate, admission, job, client, cli>>

\* fetch_image, then the launch for the deployment's generation.
HostFetch ==
  /\ host.pc = "fetch"
  /\ host' = [host EXCEPT !.pc = "acting"]
  /\ job' = [job EXCEPT ![Host] =
       Call("launch", host.recipe, "release",
            [deployment |-> host.deployment, generation |-> host.generation],
            host.fit # "unlaunchable")]
  /\ UNCHANGED <<box, rank, gate, admission, client, cli, used>>

HostFetchFails ==
  /\ host.pc = "fetch"
  /\ Fault("pull")
  /\ host' = Answering("failed")
  /\ UNCHANGED <<box, rank, gate, admission, job, client, cli>>

\* What the launch or the stop came to; converge gives up when the rounds
\* 0 ..= max_steps are over.  A launch the control core refused is
\* a refusal while the node is closed and an error otherwise.
HostActed ==
  /\ host.pc = "acting" /\ job[Host].pc = "done"
  /\ LET res == job[Host].res
         launch == job[Host].op = "launch"
     IN host' =
          IF res \in {"started", "stopped"}
            THEN IF host.steps < MaxSteps
                   THEN [host EXCEPT !.pc = "observe", !.acted = TRUE, !.steps = @ + 1,
                                     !.launched = @ \/ launch]
                   ELSE [Outcome("error") EXCEPT !.acted = TRUE, !.steps = @ + 1]
          ELSE IF launch /\ res \in {"failed", "unavailable"} THEN Answering("failed")
          ELSE IF res = "not_launchable" /\ admission = "closed" THEN Answering("refused")
          ELSE Outcome("error")
  /\ job' = [job EXCEPT ![Host] = Idle]
  /\ UNCHANGED <<box, rank, gate, admission, client, cli, used>>

-----------------------------------------------------------------------------
(* What happens around the agent *)

\* AdmissionGate::set, by whoever cordons or drains the node.
SetAdmission ==
  /\ Fault("cordon")
  /\ admission' = IF admission = "open" THEN "closed" ELSE "open"
  /\ UNCHANGED <<box, rank, gate, job, host, client, cli>>

\* `metralectl run`: `docker rm -f` and `docker run`, without the gate.
CliClear(r, how) ==
  /\ cli.pc = "idle" /\ used.calls < MaxCalls
  /\ used' = [used EXCEPT !.calls = @ + 1]
  /\ cli' = [pc |-> "run", recipe |-> r, how |-> how]
  /\ box' = [box EXCEPT ![r] = Absent]
  /\ UNCHANGED <<rank, gate, admission, job, host, client>>

CliRun ==
  /\ cli.pc = "run"
  /\ cli' = [pc |-> "idle", recipe |-> "none", how |-> "none"]
  /\ IF box[cli.recipe].state = "none"
       THEN \E id \in Ids :
              /\ IsFresh(id)
              /\ box' = [box EXCEPT ![cli.recipe] =
                   [id |-> id, state |-> "up", owner |-> NoOwner, how |-> cli.how, by |-> "cli"]]
       ELSE UNCHANGED box
  /\ UNCHANGED <<rank, gate, admission, job, host, client, used>>

\* A container exits, or is stopped by hand.
Exit(r) ==
  /\ Up(r)
  /\ Fault("exit")
  /\ box' = [box EXCEPT ![r] = Stopped(box[r])]
  /\ UNCHANGED <<rank, gate, admission, job, host, client, cli>>

\* The cluster driver starts a rank of the recipe here.
RankStarts(r) ==
  /\ rank[r] = 0
  /\ Fault("rank")
  /\ \E id \in Ids : IsFresh(id) /\ rank' = [rank EXCEPT ![r] = id]
  /\ UNCHANGED <<box, gate, admission, job, host, client, cli>>

\* The agent restarts: what it was executing is gone with its gates, the node
\* is open again, docker keeps what it runs.
Restart ==
  /\ Fault("restart")
  /\ job' = [p \in Procs |-> Idle]
  /\ gate' = [r \in Recipes |-> Free]
  /\ admission' = "open"
  /\ host' = IF host.pc = "idle" THEN host ELSE Outcome("error")
  /\ client' = IF client.pc = "wait" THEN Lost(client) ELSE client
  /\ UNCHANGED <<box, rank, cli>>

-----------------------------------------------------------------------------

Sessions ==
  \E s \in Slots :
    \/ \E q \in Requests : Request(s, q)
    \/ Answer(s)

Controller ==
  \/ \E q \in Requests : ClientStart(q)
  \/ \E s \in Slots : ClientSend(s)
  \/ ClientLost
  \/ ClientRefused
  \/ ClientReply

Reconciler ==
  \/ \E d \in Deployments, g \in Generations :
       \/ \E r \in Recipes, fit \in {"yes", "blocked", "unlaunchable"} : Apply(d, g, r, fit)
       \/ Stop(d, g)
  \/ HostDecide
  \/ HostLookFails
  \/ HostAnswer
  \/ HostFetch
  \/ HostFetchFails
  \/ HostActed

CommandLine ==
  \/ \E r \in Recipes, how \in Settings : CliClear(r, how)
  \/ CliRun

Environment ==
  \/ SetAdmission
  \/ \E r \in Recipes : Exit(r) \/ RankStarts(r)
  \/ Restart

Next ==
  \/ \E p \in Procs : Step(p) \/ Fail(p)
  \/ Sessions
  \/ Controller
  \/ Reconciler
  \/ CommandLine
  \/ Environment

\* The runtime runs every task, docker answers every command, and a wait for
\* an answer is bounded by a timer.
Fairness ==
  /\ \A p \in Procs : WF_vars(Step(p))
  /\ \A s \in Slots : WF_vars(Answer(s))
  /\ WF_vars(ClientReply) /\ WF_vars(ClientLost)
  /\ WF_vars(HostDecide) /\ WF_vars(HostAnswer) /\ WF_vars(HostFetch) /\ WF_vars(HostActed)

Spec == Init /\ [][Next]_vars /\ Fairness

-----------------------------------------------------------------------------
(* Properties *)

JobPcs == {"idle", "asked", "gate", "ps", "inspect", "clear", "run", "halt", "done"}
Results == {"none", "not_launchable", "failed", "unavailable", "started", "already_running",
            "stopped", "running", "not_running"}

Jobs ==
  [op : {"none", "launch", "stop", "status"}, recipe : Recipes \cup {"none"},
   how : Settings \cup {"release", "none"}, owner : Owners \cup {NoOwner}, fit : BOOLEAN,
   pc : JobPcs, ids : SUBSET Ids, res : Results]
Clients ==
  [pc : {"idle", "send", "wait", "done"}, op : {"none", "launch", "stop"},
   recipe : Recipes \cup {"none"}, how : Settings \cup {"none"}, fit : BOOLEAN,
   sent : 0 .. Budget, probing : BOOLEAN, slot : Slots \cup {"none"},
   outcome : Results \cup {"exhausted", "already_running_there", "refused"}]
Hosts ==
  [pc : {"idle", "observe", "fetch", "acting", "answer"},
   deployment : Deployments \cup {"none"}, generation : 0 .. MaxGeneration,
   intent : {"none", "run", "stopped"}, recipe : Recipes \cup {"none"},
   fit : {"yes", "blocked", "unlaunchable"}, acted : BOOLEAN, launched : BOOLEAN,
   steps : 0 .. MaxSteps + 1,
   outcome : {"none", "applied", "already_applied", "refused", "failed", "error"}]

(* The types of the state; among them, that a controller never sends more   *)
(* than its budget allows, the Status reads between two Launches included   *)
(* (RetryBudget.attempts), and that converge ends with its rounds.          *)
TypeOK ==
  /\ box \in [Recipes -> Boxes \cup {Absent}]
  /\ rank \in [Recipes -> 0 .. MaxIds]
  /\ gate \in [Recipes -> Procs \cup {Free}]
  /\ admission \in {"open", "closed"}
  /\ job \in [Procs -> Jobs]
  /\ host \in Hosts
  /\ client \in Clients
  /\ cli \in [pc : {"idle", "run"}, recipe : Recipes \cup {"none"}, how : Settings \cup {"none"}]
  /\ used \in [calls : 0 .. MaxCalls, faults : 0 .. MaxFaults]

(* A deployment never runs twice on this machine: the reconciler launches a *)
(* generation only when no other of the deployment is left, whatever fails, *)
(* exits, restarts or is launched by others between its rounds (decide).    *)
OneWorkload == \A d \in Deployments : \A r, q \in Mine(d) : r = q

(* A delayed or repeated action never rolls a deployment back: no stop of   *)
(* the reconciler takes down a newer generation than the one it applies     *)
(* (decide's StaleGeneration), although the stop lists docker anew.         *)
NoRollback ==
  [][\A r \in Recipes :
       (IsOurs(r, host.deployment) /\ ~Up(r)' /\ job[Host].pc = "halt" /\ job'[Host].pc = "done")
         => box[r].owner.generation <= host.generation]_vars

(* A launch never takes down a running launch of the agent: two requests    *)
(* for one recipe cannot both see "not running" and both `docker rm -f` and *)
(* `docker run` it (DockerLauncher's gates).                                *)
LaunchKeepsRunning ==
  [][\A p \in Procs :
       (job[p].pc = "clear" /\ job'[p].pc = "run")
         => ~(Up(job[p].recipe) /\ box[job[p].recipe].by = "agent")]_vars

(* A stop that answers Stopped leaves no launch of the agent running under  *)
(* the recipe, also one that was on its way when the stop arrived           *)
(* (DockerLauncher::stop waits at the same gate).                           *)
StoppedIsDown ==
  [][\A p \in Procs :
       (job'[p].res = "stopped" /\ job[p].res # "stopped")
         => ~(Up(job[p].recipe)' /\ box'[job[p].recipe].by = "agent")]_vars

(* Every call ends, whatever fails on its way, so no gate is held for ever; *)
(* every run of the controller and every action of the plane is answered.   *)
RequestsEnd ==
  /\ \A p \in Procs : job[p].pc # "idle" ~> job[p].pc = "idle"
  /\ client.pc \in {"send", "wait"} ~> client.pc = "done"
  /\ host.pc # "idle" ~> host.pc = "idle"

(* A refused action touched nothing: ActionOutcome::Refused is documented   *)
(* as "It was not attempted".                                               *)
RefusedTouchesNothing == host.outcome = "refused" => ~host.acted

(* converge takes at most max_steps launches and stops.                     *)
StepsWithinLimit == host.steps <= MaxSteps

-----------------------------------------------------------------------------
(* The inductive invariant behind the safety properties *)

Working == {"inspect", "clear", "run", "halt"}

\* What the control core was called with.
JobShape ==
  \A p \in Procs :
    /\ job[p].pc # "idle" => job[p].recipe \in Recipes /\ job[p].op # "none"
    /\ job[p].op = "launch" => job[p].how # "none"
    /\ job[p].pc \in {"asked", "inspect", "clear", "run"} => job[p].op = "launch"
    /\ job[p].pc = "halt" => job[p].op = "stop"
    /\ job[p].pc = "gate" => job[p].op # "status"

\* What a run of the controller, of the command line and of the plane asks for.
CallerShape ==
  /\ client.pc \in {"send", "wait"} =>
       client.recipe \in Recipes /\ client.op # "none"
         /\ (client.op = "launch" => client.how # "none")
  /\ client.pc = "wait" => client.slot \in Slots
  /\ cli.pc = "run" => cli.recipe \in Recipes /\ cli.how # "none"
  /\ host.pc # "idle" =>
       /\ host.deployment \in Deployments /\ host.generation \in Generations
       /\ host.intent # "none" /\ (host.intent = "run" => host.recipe \in Recipes)
       /\ host.steps <= MaxSteps
  /\ host.pc = "fetch" => host.intent = "run"

\* From its `docker ps` on a launch or a stop holds its recipe's gate, so what
\* it saw of the agent's own containers stays true.
Holds(p) == job[p].pc \in Working \/ (job[p].pc = "ps" /\ job[p].op # "status")
Launched(r) == box[r].state = "up" /\ box[r].by = "agent"
GateFor(p) ==
  /\ Holds(p) => gate[job[p].recipe] = p
  /\ job[p].pc = "clear" => ~Launched(job[p].recipe)
  /\ job[p].pc = "halt" =>
       (Launched(job[p].recipe) => box[job[p].recipe].id \in job[p].ids)
GateInv == \A p \in Procs : GateFor(p)

\* Only the reconciler launches for a deployment, and only when it saw that
\* the deployment runs nothing; what it acts on is not newer than its action.
OwnerInv ==
  /\ \A p \in Slots : job[p].owner = NoOwner
  /\ job[Host].pc # "idle" \/ job[Host].owner # NoOwner => host.pc = "acting"
  /\ job[Host].owner # NoOwner =>
       job[Host].owner = [deployment |-> host.deployment, generation |-> host.generation]
  /\ host.pc = "fetch" \/ (job[Host].op = "launch" /\ job[Host].pc \notin {"idle", "done"}) =>
       Mine(host.deployment) = {}
  /\ host.pc \in {"fetch", "acting"} =>
       \A r \in Mine(host.deployment) : box[r].owner.generation <= host.generation

IInv == TypeOK /\ JobShape /\ CallerShape /\ GateInv /\ OwnerInv /\ OneWorkload
=============================================================================
