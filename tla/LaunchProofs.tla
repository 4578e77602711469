---------------------------- MODULE LaunchProofs ----------------------------
(***************************************************************************)
(* For any number of recipes, deployments, concurrent requests, faults and *)
(* outside events: the launcher's gate keeps a launch from taking down a   *)
(* running launch and makes a stop final, and a deployment runs at most    *)
(* once and is never rolled back.  The invariant says what the holder of   *)
(* a gate may still rely on (GateInv) and what the reconciler may while    *)
(* others start and stop containers between its rounds (OwnerInv).         *)
(***************************************************************************)
EXTENDS Launch, TLAPS

\* A step starts no container of the agent (the command line may start one).
NothingLaunched ==
  \A r \in Recipes :
    box'[r].state = "up" => box'[r] = box[r] \/ (box'[r].by = "cli" /\ box'[r].owner = NoOwner)

-----------------------------------------------------------------------------
(* A fault is counted within the bound. *)
LEMMA FaultCounted ==
  ASSUME NEW f, TypeOK, Fault(f)
  PROVE  used' \in [calls : 0 .. MaxCalls, faults : 0 .. MaxFaults]
  BY LaunchAssumption DEF Fault, TypeOK

(* What the end of a call changes: its caller's answer and its own gate. *)
LEMMA FinishJob ==
  ASSUME TypeOK, NEW p \in Procs, NEW res \in Results, Finish(p, res)
  PROVE  /\ job' \in [Procs -> Jobs] /\ gate' \in [Recipes -> Procs \cup {Free}]
         /\ job'[p].pc = "done" /\ job'[p].res = res /\ job'[p].owner = job[p].owner
         /\ job'[p].recipe = job[p].recipe /\ job'[p].op = job[p].op /\ job'[p].how = job[p].how
         /\ \A q \in Procs \ {p} : job'[q] = job[q]
         /\ \A r \in Recipes : gate[r] # p => gate'[r] = gate[r]
  <1>1. job[p] \in Jobs /\ job \in [Procs -> Jobs] /\ gate \in [Recipes -> Procs \cup {Free}]
    BY DEF TypeOK
  <1>2. gate' \in [Recipes -> Procs \cup {Free}]
    BY <1>1 DEF Finish
  <1>3. [job[p] EXCEPT !.pc = "done", !.res = res, !.ids = {}] \in Jobs
    BY <1>1 DEF Jobs, JobPcs
  <1>4. job' = [job EXCEPT ![p] = [job[p] EXCEPT !.pc = "done", !.res = res, !.ids = {}]]
    BY DEF Finish
  <1>5. job' \in [Procs -> Jobs]
    BY <1>1, <1>3, <1>4
  <1>6. QED
    BY <1>1, <1>2, <1>4, <1>5 DEF Finish, Jobs

(* Moving on to the next docker command changes nothing but the position. *)
LEMMA GoToJob ==
  ASSUME TypeOK, NEW p \in Procs, NEW pc \in JobPcs, GoTo(p, pc)
  PROVE  /\ job' \in [Procs -> Jobs]
         /\ job'[p].pc = pc /\ job'[p].res = job[p].res /\ job'[p].owner = job[p].owner
         /\ job'[p].recipe = job[p].recipe /\ job'[p].op = job[p].op /\ job'[p].how = job[p].how
         /\ job'[p].ids = job[p].ids
         /\ \A q \in Procs \ {p} : job'[q] = job[q]
  BY SMTT(60) DEF GoTo, TypeOK, Jobs

(* A call that is handed to the control core is well formed. *)
LEMMA CallJob ==
  ASSUME TypeOK, NEW p \in Procs, NEW op \in {"launch", "stop", "status"}, NEW r \in Recipes,
         NEW how \in Settings \cup {"release", "none"}, NEW owner \in Owners \cup {NoOwner},
         NEW fit \in BOOLEAN, job' = [job EXCEPT ![p] = Call(op, r, how, owner, fit)]
  PROVE  /\ job' \in [Procs -> Jobs]
         /\ job'[p].op = op /\ job'[p].recipe = r /\ job'[p].how = how /\ job'[p].owner = owner
         /\ job'[p].pc \in {"asked", "gate", "ps"} /\ job'[p].res = "none"
         /\ job'[p].pc = "asked" => op = "launch"
         /\ job'[p].pc = "ps" => op = "status"
         /\ job'[p].pc = "gate" => op = "stop"
         /\ \A q \in Procs \ {p} : job'[q] = job[q]
  <1>1. Call(op, r, how, owner, fit) \in Jobs
    BY DEF Call, Jobs, JobPcs, Results
  <1>2. QED
    BY <1>1 DEF Call, TypeOK

LEMMA CallShape ==
  ASSUME TypeOK, JobShape, NEW p \in Procs, NEW op \in {"launch", "stop", "status"},
         NEW r \in Recipes, NEW how \in Settings \cup {"release", "none"},
         NEW owner \in Owners \cup {NoOwner}, NEW fit \in BOOLEAN,
         op = "launch" => how # "none",
         job' = [job EXCEPT ![p] = Call(op, r, how, owner, fit)]
  PROVE  JobShape'
  <1>1. /\ job'[p].op = op /\ job'[p].recipe = r /\ job'[p].how = how
        /\ job'[p].pc \in {"asked", "gate", "ps"}
        /\ job'[p].pc = "asked" => op = "launch"
        /\ job'[p].pc = "gate" => op = "stop"
    BY DEF Call, TypeOK
  <1>2. \A q \in Procs \ {p} : job'[q] = job[q]
    BY DEF TypeOK
  <1>3. QED
    BY <1>1, <1>2 DEF JobShape

(* A slot that is free again is well formed. *)
LEMMA IdleJob ==
  ASSUME TypeOK, NEW p \in Procs, job' = [job EXCEPT ![p] = Idle]
  PROVE  /\ job' \in [Procs -> Jobs]
         /\ job'[p] = Idle
         /\ \A q \in Procs \ {p} : job'[q] = job[q]
  BY DEF Idle, TypeOK, Jobs, JobPcs, Results

(* Stopping containers keeps the types and starts nothing. *)
LEMMA StopKeeps ==
  ASSUME TypeOK, NEW ids, box' = AfterStop(ids), rank' = RanksAfterStop(ids)
  PROVE  /\ box' \in [Recipes -> Boxes \cup {Absent}] /\ rank' \in [Recipes -> 0 .. MaxIds]
         /\ NothingLaunched
         /\ \A r \in Recipes : box'[r].state = "up" => box[r].id \notin ids
  <1>1. ASSUME NEW b \in Boxes PROVE Stopped(b) \in Boxes \cup {Absent} /\ Stopped(b).state # "up"
    BY <1>1 DEF Stopped, Boxes, Absent
  <1>2. ASSUME NEW r \in Recipes
        PROVE  /\ AfterStop(ids)[r] \in Boxes \cup {Absent}
               /\ AfterStop(ids)[r].state = "up" => AfterStop(ids)[r] = box[r] /\ box[r].id \notin ids
    BY <1>1 DEF AfterStop, Up, TypeOK, Absent
  <1>3. box' \in [Recipes -> Boxes \cup {Absent}]
    BY <1>2 DEF AfterStop
  <1>4. rank' \in [Recipes -> 0 .. MaxIds]
    BY LaunchAssumption DEF RanksAfterStop, TypeOK
  <1>5. QED
    BY <1>2, <1>3, <1>4 DEF NothingLaunched

(* A container that is started with an id nobody knows is well formed. *)
LEMMA StartedBox ==
  ASSUME TypeOK, NEW r \in Recipes, NEW id \in Ids, NEW state \in {"up", "exited"},
         NEW owner \in Owners \cup {NoOwner}, NEW how \in Settings \cup {"release"},
         NEW by \in {"agent", "cli"},
         box' = [box EXCEPT ![r] = [id |-> id, state |-> state, owner |-> owner,
                                    how |-> how, by |-> by]]
  PROVE  /\ box' \in [Recipes -> Boxes \cup {Absent}]
         /\ box'[r] = [id |-> id, state |-> state, owner |-> owner, how |-> how, by |-> by]
         /\ \A q \in Recipes \ {r} : box'[q] = box[q]
  BY DEF TypeOK, Boxes

LEMMA RemovedBox ==
  ASSUME TypeOK, NEW r \in Recipes, box' = [box EXCEPT ![r] = Absent]
  PROVE  box' \in [Recipes -> Boxes \cup {Absent}] /\ NothingLaunched
  BY DEF TypeOK, NothingLaunched, Absent

-----------------------------------------------------------------------------
(* The steps of a call keep the types *)

LEMMA StepTypes ==
  ASSUME IInv, NEW p \in Procs, Step(p) \/ Fail(p)
  PROVE  TypeOK' /\ JobShape' /\ CallerShape'
<1> USE DEF IInv, JobShape, CallerShape
<1>1. CASE Admit(p)
  <2>1. job' \in [Procs -> Jobs] /\ gate' \in [Recipes -> Procs \cup {Free}]
    BY <1>1, FinishJob, GoToJob DEF Admit, Results, JobPcs, TypeOK
  <2>2. TypeOK'
    BY <1>1, <2>1 DEF Admit, TypeOK
  <2>3. JobShape'
    BY <1>1, FinishJob, GoToJob DEF Admit, Results, JobPcs, TypeOK
  <2>4. CallerShape'
    BY <1>1 DEF Admit
  <2>5. QED
    BY <2>2, <2>3, <2>4
<1>2. CASE NoWeights(p)
  <2>1. job' \in [Procs -> Jobs] /\ gate' \in [Recipes -> Procs \cup {Free}]
    BY <1>2, FinishJob DEF NoWeights, Results, JobPcs, TypeOK
  <2>2. used' \in [calls : 0 .. MaxCalls, faults : 0 .. MaxFaults]
    BY <1>2, FaultCounted DEF NoWeights
  <2>3. TypeOK'
    BY <1>2, <2>1, <2>2 DEF NoWeights, TypeOK
  <2>4. JobShape'
    BY <1>2, FinishJob DEF NoWeights, Results, JobPcs, TypeOK
  <2>5. CallerShape'
    BY <1>2 DEF NoWeights
  <2>6. QED
    BY <2>3, <2>4, <2>5
<1>3. CASE TakeGate(p)
  <2>1. job' \in [Procs -> Jobs] /\ gate' \in [Recipes -> Procs \cup {Free}]
    BY <1>3, GoToJob DEF TakeGate, Results, JobPcs, TypeOK
  <2>2. TypeOK'
    BY <1>3, <2>1 DEF TakeGate, TypeOK
  <2>3. JobShape'
    BY <1>3, GoToJob DEF TakeGate, Results, JobPcs, TypeOK
  <2>4. CallerShape'
    BY <1>3 DEF TakeGate
  <2>5. QED
    BY <2>2, <2>3, <2>4
<1>4. CASE LookLaunch(p)
  <2>1. job' \in [Procs -> Jobs] /\ gate' \in [Recipes -> Procs \cup {Free}]
    BY <1>4 DEF LookLaunch, TypeOK, Jobs, JobPcs, GoTo, Up, Boxes, Absent
  <2>2. TypeOK'
    BY <1>4, <2>1 DEF LookLaunch, TypeOK
  <2>3. JobShape'
    BY <1>4 DEF LookLaunch, TypeOK, Jobs, GoTo, Up, Boxes, Absent
  <2>4. CallerShape'
    BY <1>4 DEF LookLaunch
  <2>5. QED
    BY <2>2, <2>3, <2>4
<1>5. CASE LookStop(p)
  <2>1. job' \in [Procs -> Jobs] /\ gate' \in [Recipes -> Procs \cup {Free}]
    BY SMTT(60), <1>5 DEF LookStop, TypeOK, Jobs, JobPcs, Finish, Results, StopTargets, Up, Boxes, Absent, Ids
  <2>2. TypeOK'
    BY <1>5, <2>1 DEF LookStop, TypeOK
  <2>3. JobShape'
    BY <1>5 DEF LookStop, TypeOK, Jobs, Finish, Results, StopTargets, Up, Boxes, Absent, Ids
  <2>4. CallerShape'
    BY <1>5 DEF LookStop
  <2>5. QED
    BY <2>2, <2>3, <2>4
<1>6. CASE LookStatus(p)
  <2>1. job' \in [Procs -> Jobs] /\ gate' \in [Recipes -> Procs \cup {Free}]
    BY <1>6, FinishJob DEF LookStatus, Results, JobPcs, TypeOK
  <2>2. TypeOK'
    BY <1>6, <2>1 DEF LookStatus, TypeOK
  <2>3. JobShape'
    BY <1>6, FinishJob DEF LookStatus, Results, JobPcs, TypeOK
  <2>4. CallerShape'
    BY <1>6 DEF LookStatus
  <2>5. QED
    BY <2>2, <2>3, <2>4
<1>7. CASE LookFails(p)
  <2>1. job' \in [Procs -> Jobs] /\ gate' \in [Recipes -> Procs \cup {Free}]
    BY <1>7, FinishJob DEF LookFails, Results, JobPcs, TypeOK
  <2>2. used' \in [calls : 0 .. MaxCalls, faults : 0 .. MaxFaults]
    BY <1>7, FaultCounted DEF LookFails
  <2>3. TypeOK'
    BY <1>7, <2>1, <2>2 DEF LookFails, TypeOK
  <2>4. JobShape'
    BY <1>7, FinishJob DEF LookFails, Results, JobPcs, TypeOK
  <2>5. CallerShape'
    BY <1>7 DEF LookFails
  <2>6. QED
    BY <2>3, <2>4, <2>5
<1>8. CASE Inspect(p)
  <2>1. job' \in [Procs -> Jobs] /\ gate' \in [Recipes -> Procs \cup {Free}]
    BY <1>8, FinishJob DEF Inspect, Results, JobPcs, TypeOK
  <2>2. TypeOK'
    BY <1>8, <2>1 DEF Inspect, TypeOK
  <2>3. JobShape'
    BY <1>8, FinishJob DEF Inspect, Results, JobPcs, TypeOK
  <2>4. CallerShape'
    BY <1>8 DEF Inspect
  <2>5. QED
    BY <2>2, <2>3, <2>4
<1>9. CASE InspectFails(p)
  <2>1. job' \in [Procs -> Jobs] /\ gate' \in [Recipes -> Procs \cup {Free}]
    BY <1>9, FinishJob DEF InspectFails, Results, JobPcs, TypeOK
  <2>2. used' \in [calls : 0 .. MaxCalls, faults : 0 .. MaxFaults]
    BY <1>9, FaultCounted DEF InspectFails
  <2>3. TypeOK'
    BY <1>9, <2>1, <2>2 DEF InspectFails, TypeOK
  <2>4. JobShape'
    BY <1>9, FinishJob DEF InspectFails, Results, JobPcs, TypeOK
  <2>5. CallerShape'
    BY <1>9 DEF InspectFails
  <2>6. QED
    BY <2>3, <2>4, <2>5
<1>10. CASE Clear(p)
  <2>1. job' \in [Procs -> Jobs] /\ gate' \in [Recipes -> Procs \cup {Free}]
    BY <1>10, GoToJob DEF Clear, Results, JobPcs, TypeOK
  <2>2. box' \in [Recipes -> Boxes \cup {Absent}] /\ rank' \in [Recipes -> 0 .. MaxIds]
    BY <1>10, RemovedBox DEF Clear, TypeOK
  <2>3. TypeOK'
    BY <1>10, <2>1, <2>2 DEF Clear, TypeOK
  <2>4. JobShape'
    BY <1>10, GoToJob DEF Clear, Results, JobPcs, TypeOK
  <2>5. CallerShape'
    BY <1>10 DEF Clear
  <2>6. QED
    BY <2>3, <2>4, <2>5
<1>11. CASE ClearFails(p)
  <2>1. job' \in [Procs -> Jobs] /\ gate' \in [Recipes -> Procs \cup {Free}]
    BY <1>11, GoToJob DEF ClearFails, Results, JobPcs, TypeOK
  <2>2. used' \in [calls : 0 .. MaxCalls, faults : 0 .. MaxFaults]
    BY <1>11, FaultCounted DEF ClearFails
  <2>3. TypeOK'
    BY <1>11, <2>1, <2>2 DEF ClearFails, TypeOK
  <2>4. JobShape'
    BY <1>11, GoToJob DEF ClearFails, Results, JobPcs, TypeOK
  <2>5. CallerShape'
    BY <1>11 DEF ClearFails
  <2>6. QED
    BY <2>3, <2>4, <2>5
<1>12. CASE Run(p)
  <2>1. job' \in [Procs -> Jobs] /\ gate' \in [Recipes -> Procs \cup {Free}]
    BY <1>12, FinishJob DEF Run, Results, JobPcs, TypeOK
  <2>2. box' \in [Recipes -> Boxes \cup {Absent}] /\ rank' \in [Recipes -> 0 .. MaxIds]
    <3>1. /\ job[p].recipe \in Recipes /\ job[p].owner \in Owners \cup {NoOwner}
          /\ job[p].how \in Settings \cup {"release"}
      BY <1>12 DEF Run, TypeOK, Jobs
    <3>2. CASE box[job[p].recipe].state = "none"
      <4>1. PICK id \in Ids :
              box' = [box EXCEPT ![job[p].recipe] =
                        [id |-> id, state |-> "up", owner |-> job[p].owner,
                         how |-> job[p].how, by |-> "agent"]]
        BY <1>12, <3>2 DEF Run
      <4>2. QED
        BY <1>12, <3>1, <4>1, StartedBox DEF Run, TypeOK
    <3>3. CASE box[job[p].recipe].state # "none"
      BY <1>12, <3>3 DEF Run, TypeOK
    <3>4. QED
      BY <3>2, <3>3
  <2>3. TypeOK'
    BY <1>12, <2>1, <2>2 DEF Run, TypeOK
  <2>4. JobShape'
    BY <1>12, FinishJob DEF Run, Results, JobPcs, TypeOK
  <2>5. CallerShape'
    BY <1>12 DEF Run
  <2>6. QED
    BY <2>3, <2>4, <2>5
<1>13. CASE RunFails(p)
  <2>1. job' \in [Procs -> Jobs] /\ gate' \in [Recipes -> Procs \cup {Free}]
    BY <1>13, FinishJob DEF RunFails, Results, JobPcs, TypeOK
  <2>2. box' \in [Recipes -> Boxes \cup {Absent}] /\ rank' \in [Recipes -> 0 .. MaxIds]
    <3>1. /\ job[p].recipe \in Recipes /\ job[p].owner \in Owners \cup {NoOwner}
          /\ job[p].how \in Settings \cup {"release"}
      BY <1>13 DEF RunFails, TypeOK, Jobs
    <3>2. CASE UNCHANGED box
      BY <1>13, <3>2 DEF RunFails, TypeOK
    <3>3. CASE ~UNCHANGED box
      <4>1. PICK id \in Ids :
              box' = [box EXCEPT ![job[p].recipe] =
                        [id |-> id, state |-> "exited", owner |-> job[p].owner,
                         how |-> job[p].how, by |-> "agent"]]
        BY <1>13, <3>3 DEF RunFails
      <4>2. QED
        BY <1>13, <3>1, <4>1, StartedBox DEF RunFails, TypeOK
    <3>4. QED
      BY <3>2, <3>3
  <2>3. used' \in [calls : 0 .. MaxCalls, faults : 0 .. MaxFaults]
    BY <1>13, FaultCounted DEF RunFails
  <2>4. TypeOK'
    BY <1>13, <2>1, <2>2, <2>3 DEF RunFails, TypeOK
  <2>5. JobShape'
    BY <1>13, FinishJob DEF RunFails, Results, JobPcs, TypeOK
  <2>6. CallerShape'
    BY <1>13 DEF RunFails
  <2>7. QED
    BY <2>4, <2>5, <2>6
<1>14. CASE Halt(p)
  <2>1. job' \in [Procs -> Jobs] /\ gate' \in [Recipes -> Procs \cup {Free}]
    BY <1>14, FinishJob DEF Halt, Results, JobPcs, TypeOK
  <2>2. box' \in [Recipes -> Boxes \cup {Absent}] /\ rank' \in [Recipes -> 0 .. MaxIds]
    BY <1>14, StopKeeps DEF Halt
  <2>3. TypeOK'
    BY <1>14, <2>1, <2>2 DEF Halt, TypeOK
  <2>4. JobShape'
    BY <1>14, FinishJob DEF Halt, Results, JobPcs, TypeOK
  <2>5. CallerShape'
    BY <1>14 DEF Halt
  <2>6. QED
    BY <2>3, <2>4, <2>5
<1>15. CASE HaltFails(p)
  <2>1. job' \in [Procs -> Jobs] /\ gate' \in [Recipes -> Procs \cup {Free}]
    BY <1>15, FinishJob DEF HaltFails, Results, JobPcs, TypeOK
  <2>2. box' \in [Recipes -> Boxes \cup {Absent}] /\ rank' \in [Recipes -> 0 .. MaxIds]
    BY <1>15, StopKeeps DEF HaltFails
  <2>3. used' \in [calls : 0 .. MaxCalls, faults : 0 .. MaxFaults]
    BY <1>15, FaultCounted DEF HaltFails
  <2>4. TypeOK'
    BY <1>15, <2>1, <2>2, <2>3 DEF HaltFails, TypeOK
  <2>5. JobShape'
    BY <1>15, FinishJob DEF HaltFails, Results, JobPcs, TypeOK
  <2>6. CallerShape'
    BY <1>15 DEF HaltFails
  <2>7. QED
    BY <2>4, <2>5, <2>6
<1>16. QED
  BY <1>1, <1>2, <1>3, <1>4, <1>5, <1>6, <1>7, <1>8, <1>9, <1>10, <1>11, <1>12, <1>13, <1>14, <1>15
     DEF Step, Fail

(* The steps of ControlRun keep a run well formed and its request the same. *)
LEMMA SentRun ==
  ASSUME NEW c \in Clients, NEW probing \in BOOLEAN, c.sent < Budget
  PROVE  /\ SendNext(c, probing) \in Clients
         /\ SendNext(c, probing).pc = "send" /\ SendNext(c, probing).recipe = c.recipe
         /\ SendNext(c, probing).op = c.op /\ SendNext(c, probing).how = c.how
  <1>1. c.sent + 1 \in 0 .. Budget
    BY LaunchAssumption DEF Clients
  <1>2. QED
    BY <1>1 DEF SendNext, Clients

LEMMA DoneRun ==
  ASSUME NEW c \in Clients, NEW o \in Results \cup {"exhausted", "already_running_there", "refused"}
  PROVE  Done(c, o) \in Clients /\ Done(c, o).pc = "done"
  BY ZenonT(60) DEF Done, NoRun, Clients

LEMMA LostRun ==
  ASSUME NEW c \in Clients
  PROVE  /\ Lost(c) \in Clients /\ Lost(c).pc \in {"send", "done"}
         /\ Lost(c).pc = "send" =>
              Lost(c).recipe = c.recipe /\ Lost(c).op = c.op /\ Lost(c).how = c.how
  <1>1. CASE c.sent >= Budget
    BY <1>1, DoneRun DEF Lost
  <1>2. CASE ~(c.sent >= Budget)
    <2>1. c.sent < Budget
      BY <1>2, LaunchAssumption DEF Clients
    <2>2. QED
      BY <2>1, <1>2, SentRun DEF Lost
  <1>3. QED
    BY <1>1, <1>2

LEMMA RecordedRun ==
  ASSUME NEW c \in Clients, NEW res \in Results
  PROVE  /\ Record(c, res) \in Clients /\ Record(c, res).pc \in {"send", "done"}
         /\ Record(c, res).pc = "send" =>
              /\ Record(c, res).recipe = c.recipe /\ Record(c, res).op = c.op
              /\ Record(c, res).how = c.how
  <1>1. CASE c.probing /\ res = "not_running" /\ ~(c.sent >= Budget)
    <2>1. c.sent < Budget
      BY <1>1, LaunchAssumption DEF Clients
    <2>2. Record(c, res) = SendNext(c, FALSE)
      BY <1>1 DEF Record, Probed
    <2>3. QED
      BY <2>1, <2>2, SentRun
  <1>2. CASE ~(c.probing /\ res = "not_running" /\ ~(c.sent >= Budget))
    <2>1. PICK o \in Results \cup {"exhausted", "already_running_there", "refused"} :
            Record(c, res) = Done(c, o)
      BY <1>2 DEF Record, Probed
    <2>2. QED
      BY <2>1, DoneRun
  <1>3. QED
    BY <1>1, <1>2

(* The answers of converge. *)
LEMMA OutcomeHost ==
  ASSUME TypeOK, NEW o \in {"none", "applied", "already_applied", "refused", "failed", "error"}
  PROVE  Outcome(o) \in Hosts /\ Outcome(o).pc = "idle"
  <1>1. NoAction \in Hosts
    BY LaunchAssumption DEF NoAction, Hosts
  <1>2. host.acted \in BOOLEAN /\ host.steps \in 0 .. MaxSteps + 1
    BY DEF TypeOK, Hosts
  <1>3. QED
    BY <1>1, <1>2 DEF Outcome, NoAction, Hosts

(* An action of the plane as converge begins it. *)
LEMMA NewAction ==
  ASSUME NEW d \in Deployments, NEW g \in Generations, NEW intent \in {"run", "stopped"},
         NEW r \in Recipes \cup {"none"}, NEW fit \in {"yes", "blocked", "unlaunchable"}, NEW h,
         h = Begin(d, g, intent, r, fit)
  PROVE  /\ h \in Hosts /\ h.pc = "observe" /\ h.deployment = d /\ h.generation = g
         /\ h.intent = intent /\ h.recipe = r /\ h.steps = 0
  BY LaunchAssumption DEF Begin, Hosts, Generations

LEMMA AnsweringHost ==
  ASSUME TypeOK, NEW o \in {"none", "applied", "already_applied", "refused", "failed", "error"}
  PROVE  /\ Answering(o) \in Hosts /\ Answering(o).pc = "answer"
         /\ Answering(o).deployment = host.deployment /\ Answering(o).generation = host.generation
         /\ Answering(o).intent = host.intent /\ Answering(o).recipe = host.recipe
         /\ Answering(o).steps = host.steps
  BY ZenonT(60) DEF Answering, Hosts, TypeOK

(* What decide's steps rest on: it launches when the deployment runs        *)
(* nothing, and launches or stops only what is not newer than the action.   *)
LEMMA DecideFacts ==
  ASSUME NEW h, NEW s \in Decide(h)
  PROVE  /\ s.step = "launch" => h.intent # "stopped" /\ Mine(h.deployment) = {}
         /\ s.step = "stop" => s.recipe \in Recipes
         /\ s.step \in {"launch", "stop"} =>
              ~ \E r \in Mine(h.deployment) : box[r].owner.generation > h.generation
  BY DEF Decide, StopStep, Mine

(* A new run of the controller. *)
LEMMA StartedRun ==
  ASSUME NEW q \in Requests, NEW c,
         c = [NoRun EXCEPT !.op = q.op, !.recipe = q.recipe, !.how = q.how, !.fit = q.fit]
  PROVE  /\ c \in Clients /\ c.sent < Budget
         /\ c.op = q.op /\ c.recipe = q.recipe /\ c.how = q.how
  <1>1. NoRun \in Clients /\ NoRun.sent = 0
    BY LaunchAssumption DEF NoRun, Clients, Results
  <1>2. q.op \in {"launch", "stop"} /\ q.recipe \in Recipes /\ q.fit \in BOOLEAN
        /\ q.how \in Settings \cup {"none"}
    BY DEF Requests
  <1>3. c \in Clients /\ c.sent = 0 /\ c.op = q.op /\ c.recipe = q.recipe /\ c.how = q.how
    BY <1>1, <1>2 DEF Clients
  <1>4. QED
    BY <1>3, LaunchAssumption

(* Sessions, controller, reconciler, command line and environment keep the  *)
(* types.                                                                   *)
LEMMA CallerTypes ==
  ASSUME IInv, Sessions \/ Controller
  PROVE  TypeOK' /\ JobShape' /\ CallerShape'
<1> USE LaunchAssumption DEF IInv, JobShape, CallerShape
<1>1. ASSUME NEW s \in Slots, NEW q \in Requests, Request(s, q)
      PROVE  TypeOK' /\ JobShape' /\ CallerShape'
  <2>1. s \in Procs /\ q.op \in {"launch", "stop"} /\ q.recipe \in Recipes /\ q.fit \in BOOLEAN
        /\ q.how \in Settings \cup {"none"} /\ (q.op = "launch" => q.how \in Settings)
    BY DEF Requests, Procs
  <2>2. job' = [job EXCEPT ![s] = Call(q.op, q.recipe, q.how, NoOwner, q.fit)]
    BY <1>1 DEF Request
  <2>3. job' \in [Procs -> Jobs] /\ JobShape'
    <3>1. /\ TypeOK /\ NoOwner \in Owners \cup {NoOwner}
          /\ q.how \in Settings \cup {"release", "none"} /\ q.op \in {"launch", "stop", "status"}
      BY <2>1
    <3>2. job' \in [Procs -> Jobs]
      BY <2>1, <2>2, <3>1, CallJob
    <3>3. q.op = "launch" => q.how # "none"
      BY <2>1
    <3>4. JobShape'
      BY <2>1, <2>2, <3>1, <3>3, CallShape
    <3>5. QED
      BY <3>2, <3>4
  <2>4. used' \in [calls : 0 .. MaxCalls, faults : 0 .. MaxFaults]
    BY <1>1 DEF Request, TypeOK
  <2>5. QED
    BY <1>1, <2>3, <2>4 DEF Request, TypeOK
<1>2. ASSUME NEW s \in Slots, Answer(s)
      PROVE  TypeOK' /\ JobShape' /\ CallerShape'
  <2>1. job' \in [Procs -> Jobs] /\ JobShape'
    BY <1>2, IdleJob DEF Answer, Procs, Idle
  <2>2. QED
    BY <1>2, <2>1 DEF Answer, TypeOK
<1>3. ASSUME NEW q \in Requests, ClientStart(q)
      PROVE  TypeOK' /\ JobShape' /\ CallerShape'
  <2>1. q.op \in {"launch", "stop"} /\ q.recipe \in Recipes /\ q.fit \in BOOLEAN
        /\ q.how \in Settings \cup {"none"} /\ (q.op = "launch" => q.how \in Settings)
    BY DEF Requests
  <2> DEFINE c == [NoRun EXCEPT !.op = q.op, !.recipe = q.recipe, !.how = q.how, !.fit = q.fit]
  <2>2. c = [NoRun EXCEPT !.op = q.op, !.recipe = q.recipe, !.how = q.how, !.fit = q.fit]
        /\ client' = SendNext(c, FALSE)
    BY <1>3 DEF ClientStart
  <2> HIDE DEF c
  <2>3. /\ c \in Clients /\ c.sent < Budget
        /\ c.op = q.op /\ c.recipe = q.recipe /\ c.how = q.how
    BY <2>2, StartedRun
  <2>4. client' \in Clients /\ client'.pc = "send" /\ client'.recipe = q.recipe
        /\ client'.op = q.op /\ client'.how = q.how
    BY SentRun, <2>2, <2>3
  <2>5. CallerShape'
    BY <1>3, <2>1, <2>4 DEF ClientStart
  <2>6. used' \in [calls : 0 .. MaxCalls, faults : 0 .. MaxFaults]
    BY <1>3 DEF ClientStart, TypeOK
  <2>7. QED
    BY <1>3, <2>4, <2>5, <2>6 DEF ClientStart, TypeOK
<1>4. ASSUME NEW s \in Slots, ClientSend(s)
      PROVE  TypeOK' /\ JobShape' /\ CallerShape'
  <2>1. s \in Procs /\ client \in Clients /\ client.op \in {"launch", "stop"}
        /\ client.recipe \in Recipes /\ client.fit \in BOOLEAN
        /\ client.how \in Settings \cup {"none"} /\ client.probing \in BOOLEAN
    BY <1>4 DEF ClientSend, TypeOK, Clients, Procs
  <2> DEFINE op == IF client.probing THEN "status" ELSE client.op
  <2>2. op \in {"launch", "stop", "status"} /\ (op = "launch" => client.how # "none")
    BY <1>4, <2>1 DEF ClientSend
  <2>3. job' = [job EXCEPT ![s] = Call(op, client.recipe, client.how, NoOwner, client.fit)]
    BY <1>4 DEF ClientSend
  <2> HIDE DEF op
  <2>4. job' \in [Procs -> Jobs] /\ JobShape'
    <3>1. /\ TypeOK /\ NoOwner \in Owners \cup {NoOwner}
          /\ client.how \in Settings \cup {"release", "none"}
      BY <2>1
    <3>2. job' \in [Procs -> Jobs]
      BY <2>1, <2>2, <2>3, <3>1, CallJob
    <3>3. JobShape'
      BY <2>1, <2>2, <2>3, <3>1, CallShape
    <3>4. QED
      BY <3>2, <3>3
  <2>5. client' \in Clients /\ CallerShape'
    BY <1>4, <2>1 DEF ClientSend, Clients
  <2>6. QED
    BY <1>4, <2>4, <2>5 DEF ClientSend, TypeOK
<1>5. CASE ClientLost
  <2>1. client' \in Clients /\ CallerShape'
    BY <1>5, LostRun DEF ClientLost, TypeOK
  <2>2. QED
    BY <1>5, <2>1 DEF ClientLost, TypeOK
<1>6. CASE ClientRefused
  <2>1. client' \in Clients /\ CallerShape'
    BY <1>6, DoneRun DEF ClientRefused, TypeOK
  <2>2. QED
    BY <1>6, <2>1, FaultCounted DEF ClientRefused, TypeOK
<1>7. CASE ClientReply
  <2>1. client.slot \in Slots /\ client.slot \in Procs /\ job[client.slot].res \in Results
    BY <1>7 DEF ClientReply, TypeOK, Procs, Jobs
  <2>2. client' \in Clients /\ CallerShape'
    BY <1>7, RecordedRun, <2>1 DEF ClientReply, TypeOK
  <2>3. job' \in [Procs -> Jobs] /\ JobShape'
    BY <1>7, <2>1, IdleJob DEF ClientReply, Idle
  <2>4. QED
    BY <1>7, <2>2, <2>3 DEF ClientReply, TypeOK
<1>8. QED
  BY <1>1, <1>2, <1>3, <1>4, <1>5, <1>6, <1>7 DEF Sessions, Controller

LEMMA ReconcilerTypes ==
  ASSUME IInv, Reconciler
  PROVE  TypeOK' /\ JobShape' /\ CallerShape'
<1> USE LaunchAssumption DEF IInv, CallerShape
<1>1. ASSUME NEW d \in Deployments, NEW g \in Generations, NEW r \in Recipes,
             NEW fit \in {"yes", "blocked", "unlaunchable"}, Apply(d, g, r, fit)
      PROVE  TypeOK' /\ JobShape' /\ CallerShape'
  <2>1. host' \in Hosts /\ CallerShape'
    <3>1. /\ host' \in Hosts /\ host'.deployment = d /\ host'.generation = g
          /\ host'.intent = "run" /\ host'.recipe = r /\ host'.pc = "observe" /\ host'.steps = 0
      BY <1>1, NewAction DEF Apply, HostAction
    <3>2. QED
      BY <1>1, <3>1 DEF Apply, HostAction
  <2>2. used' \in [calls : 0 .. MaxCalls, faults : 0 .. MaxFaults]
    BY <1>1 DEF Apply, HostAction, TypeOK
  <2>3. QED
    BY <1>1, <2>1, <2>2 DEF Apply, HostAction, TypeOK, JobShape
<1>2. ASSUME NEW d \in Deployments, NEW g \in Generations, Stop(d, g)
      PROVE  TypeOK' /\ JobShape' /\ CallerShape'
  <2>1. host' \in Hosts /\ CallerShape'
    <3>1. /\ host' \in Hosts /\ host'.deployment = d /\ host'.generation = g
          /\ host'.intent = "stopped" /\ host'.pc = "observe" /\ host'.steps = 0
      BY <1>2, NewAction DEF Stop, HostAction
    <3>2. QED
      BY <1>2, <3>1 DEF Stop, HostAction
  <2>2. used' \in [calls : 0 .. MaxCalls, faults : 0 .. MaxFaults]
    BY <1>2 DEF Stop, HostAction, TypeOK
  <2>3. QED
    BY <1>2, <2>1, <2>2 DEF Stop, HostAction, TypeOK, JobShape
<1>4. CASE HostDecide
  <2>1. PICK s \in Decide(host) :
          \/ /\ s.step = "converged"
             /\ host' = Outcome(IF host.acted THEN "applied" ELSE "already_applied")
             /\ UNCHANGED job
          \/ /\ s.step = "refuse" /\ host' = Outcome("refused") /\ UNCHANGED job
          \/ /\ s.step = "launch"
             /\ host' = IF host.launched THEN Answering("failed")
                        ELSE IF admission = "closed" THEN Answering("refused")
                        ELSE [host EXCEPT !.pc = "fetch"]
             /\ UNCHANGED job
          \/ /\ s.step = "stop"
             /\ IF host.intent = "run" /\ admission = "closed"
                  THEN host' = Outcome("refused") /\ UNCHANGED job
                  ELSE /\ host' = [host EXCEPT !.pc = "acting"]
                       /\ job' = [job EXCEPT ![Host] =
                            Call("stop", s.recipe, "none", NoOwner, TRUE)]
    BY <1>4 DEF HostDecide
  <2>2. TypeOK /\ JobShape /\ Host \in Procs /\ NoOwner \in Owners \cup {NoOwner}
    BY DEF Procs
  <2>3. job' \in [Procs -> Jobs] /\ JobShape'
    <3>1. CASE UNCHANGED job
      BY <3>1 DEF TypeOK, JobShape
    <3>2. CASE ~UNCHANGED job
      <4>1. s.recipe \in Recipes /\ job' = [job EXCEPT ![Host] =
                                          Call("stop", s.recipe, "none", NoOwner, TRUE)]
        BY <2>1, <3>2, DecideFacts
      <4>2. job' \in [Procs -> Jobs]
        BY <2>2, <4>1, CallJob
      <4>3. JobShape'
        BY <2>2, <4>1, CallShape
      <4>4. QED
        BY <4>2, <4>3
    <3>3. QED
      BY <3>1, <3>2
  <2>4. host' \in Hosts /\ CallerShape'
    <3>1. CASE host' = [host EXCEPT !.pc = "fetch"] /\ s.step = "launch"
      <4>1. host.intent = "run"
        BY <1>4, <3>1, DecideFacts DEF HostDecide, TypeOK, Hosts
      <4>2. QED
        BY <1>4, <3>1, <4>1 DEF HostDecide, TypeOK, Hosts
    <3>2. CASE host' = [host EXCEPT !.pc = "acting"]
      BY <1>4, <3>2 DEF HostDecide, TypeOK, Hosts
    <3>3. ASSUME NEW o \in {"applied", "already_applied", "refused", "failed"},
                 host' = Outcome(o) \/ host' = Answering(o)
          PROVE  host' \in Hosts /\ CallerShape'
      BY <1>4, <3>3, OutcomeHost, AnsweringHost DEF HostDecide
    <3>4. QED
      BY <2>1, <3>1, <3>2, <3>3
  <2>5. QED
    BY <1>4, <2>3, <2>4 DEF HostDecide, TypeOK
<1>5. CASE HostLookFails
  BY <1>5, OutcomeHost, FaultCounted DEF HostLookFails, TypeOK, JobShape
<1>6. CASE HostAnswer
  <2>1. host.outcome \in {"none", "applied", "already_applied", "refused", "failed", "error"}
    BY DEF TypeOK, Hosts
  <2>2. QED
    BY <1>6, <2>1, OutcomeHost DEF HostAnswer, TypeOK, JobShape
<1>7. CASE HostFetch
  <2>1. /\ Host \in Procs /\ host.recipe \in Recipes /\ TypeOK /\ JobShape
        /\ [deployment |-> host.deployment, generation |-> host.generation] \in Owners
        /\ (host.fit # "unlaunchable") \in BOOLEAN /\ "release" \in Settings \cup {"release", "none"}
    BY <1>7 DEF HostFetch, Procs, Owners
  <2>2. job' \in [Procs -> Jobs]
    BY <1>7, <2>1, CallJob DEF HostFetch
  <2>3. JobShape'
    <3> DEFINE owner == [deployment |-> host.deployment, generation |-> host.generation]
               fit == host.fit # "unlaunchable"
    <3>1. job' = [job EXCEPT ![Host] = Call("launch", host.recipe, "release", owner, fit)]
      BY <1>7 DEF HostFetch
    <3>2. owner \in Owners \cup {NoOwner} /\ fit \in BOOLEAN
      BY <2>1
    <3> HIDE DEF owner, fit
    <3>3. QED
      BY <2>1, <3>1, <3>2, CallShape
  <2>4. host' \in Hosts /\ CallerShape'
    BY <1>7 DEF HostFetch, TypeOK, Hosts
  <2>5. QED
    BY <1>7, <2>2, <2>3, <2>4 DEF HostFetch, TypeOK
<1>8. CASE HostFetchFails
  BY <1>8, AnsweringHost, FaultCounted DEF HostFetchFails, TypeOK, JobShape
<1>9. CASE HostActed
  <2>1. Host \in Procs
    BY DEF Procs
  <2>2. job' \in [Procs -> Jobs] /\ JobShape'
    BY <1>9, <2>1, IdleJob DEF HostActed, Idle, JobShape
  <2>3. host' \in Hosts /\ CallerShape'
    <3>1. ASSUME NEW o \in {"refused", "failed", "error"},
                 host' = Outcome(o) \/ host' = Answering(o)
          PROVE  host' \in Hosts /\ CallerShape'
      <4>1. host.pc = "acting" /\ UNCHANGED <<client, cli>>
        BY <1>9 DEF HostActed
      <4>2. CASE host' = Outcome(o)
        BY <4>1, <4>2, OutcomeHost
      <4>3. CASE host' = Answering(o)
        BY <4>1, <4>3, AnsweringHost
      <4>4. QED
        BY <3>1, <4>2, <4>3
    <3>2. CASE job[Host].res \in {"started", "stopped"} /\ host.steps < MaxSteps
      <4>1. host.steps + 1 \in 0 .. MaxSteps + 1 /\ host.steps + 1 <= MaxSteps
        BY <3>2 DEF TypeOK, Hosts
      <4>2. host' = [host EXCEPT !.pc = "observe", !.acted = TRUE, !.steps = @ + 1,
                                 !.launched = @ \/ job[Host].op = "launch"]
        BY <1>9, <3>2 DEF HostActed
      <4>3. /\ host' \in Hosts /\ host'.pc = "observe" /\ host'.steps = host.steps + 1
            /\ host'.deployment = host.deployment /\ host'.generation = host.generation
            /\ host'.intent = host.intent /\ host'.recipe = host.recipe
        BY ZenonT(60), <4>1, <4>2 DEF TypeOK, Hosts
      <4>4. QED
        BY <1>9, <4>1, <4>3 DEF HostActed
    <3>3. CASE job[Host].res \in {"started", "stopped"} /\ ~(host.steps < MaxSteps)
      <4>1. host.steps + 1 \in 0 .. MaxSteps + 1
        BY <1>9 DEF HostActed, TypeOK, Hosts
      <4>2. host' = [Outcome("error") EXCEPT !.acted = TRUE, !.steps = @ + 1]
        BY <1>9, <3>3 DEF HostActed
      <4>3. Outcome("error") \in Hosts /\ Outcome("error").pc = "idle"
            /\ Outcome("error").steps = host.steps
        BY OutcomeHost DEF Outcome, NoAction
      <4>4. host' \in Hosts /\ host'.pc = "idle"
        BY <4>1, <4>2, <4>3 DEF Hosts
      <4>5. QED
        BY <1>9, <4>4 DEF HostActed
    <3>4. QED
      BY <1>9, <3>1, <3>2, <3>3 DEF HostActed
  <2>4. QED
    BY <1>9, <2>2, <2>3 DEF HostActed, TypeOK
<1>10. QED
  BY <1>1, <1>2, <1>4, <1>5, <1>6, <1>7, <1>8, <1>9 DEF Reconciler

LEMMA EnvironmentTypes ==
  ASSUME IInv, CommandLine \/ Environment
  PROVE  TypeOK' /\ JobShape' /\ CallerShape'
<1> USE LaunchAssumption DEF IInv, CallerShape
<1>1. ASSUME NEW r \in Recipes, NEW how \in Settings, CliClear(r, how)
      PROVE  TypeOK' /\ JobShape' /\ CallerShape'
  <2>1. box' \in [Recipes -> Boxes \cup {Absent}]
    BY <1>1, RemovedBox DEF CliClear
  <2>2. used' \in [calls : 0 .. MaxCalls, faults : 0 .. MaxFaults]
    BY <1>1 DEF CliClear, TypeOK
  <2>3. QED
    BY <1>1, <2>1, <2>2 DEF CliClear, TypeOK, JobShape
<1>2. CASE CliRun
  <2>1. cli.recipe \in Recipes /\ cli.how \in Settings
    BY <1>2 DEF CliRun, TypeOK
  <2>2. box' \in [Recipes -> Boxes \cup {Absent}]
    <3>1. CASE box[cli.recipe].state = "none"
      <4>1. PICK id \in Ids :
              box' = [box EXCEPT ![cli.recipe] =
                 [id |-> id, state |-> "up", owner |-> NoOwner, how |-> cli.how, by |-> "cli"]]
        BY <1>2, <3>1 DEF CliRun
      <4>2. QED
        BY <2>1, <4>1, StartedBox
    <3>2. QED
      BY <1>2, <3>1 DEF CliRun, TypeOK
  <2>3. QED
    BY <1>2, <2>2 DEF CliRun, TypeOK, JobShape
<1>3. CASE SetAdmission
  BY <1>3, FaultCounted DEF SetAdmission, TypeOK, JobShape
<1>4. ASSUME NEW r \in Recipes, Exit(r)
      PROVE  TypeOK' /\ JobShape' /\ CallerShape'
  <2>1. box' \in [Recipes -> Boxes \cup {Absent}]
    BY <1>4 DEF Exit, Up, Stopped, TypeOK, Boxes, Absent
  <2>2. QED
    BY <1>4, <2>1, FaultCounted DEF Exit, TypeOK, JobShape
<1>5. ASSUME NEW r \in Recipes, RankStarts(r)
      PROVE  TypeOK' /\ JobShape' /\ CallerShape'
  <2>1. rank' \in [Recipes -> 0 .. MaxIds]
    BY <1>5 DEF RankStarts, Ids, TypeOK
  <2>2. QED
    BY <1>5, <2>1, FaultCounted DEF RankStarts, TypeOK, JobShape
<1>6. CASE Restart
  <2>1. job' \in [Procs -> Jobs] /\ JobShape'
    BY <1>6 DEF Restart, Idle, Jobs, JobPcs, Results, JobShape
  <2>2. host' \in Hosts /\ client' \in Clients /\ CallerShape'
    BY <1>6, OutcomeHost, LostRun DEF Restart, TypeOK
  <2>3. QED
    BY <1>6, <2>1, <2>2, FaultCounted DEF Restart, TypeOK
<1>7. QED
  BY <1>1, <1>2, <1>3, <1>4, <1>5, <1>6 DEF CommandLine, Environment

-----------------------------------------------------------------------------
(* Who holds a gate may rely on what it saw *)

(* A step of one call leaves what the others rely on, unless it starts a    *)
(* container of a recipe whose gate is not its own.                         *)
LEMMA GateOthers ==
  ASSUME TypeOK, JobShape, GateInv, NEW p \in Procs, NEW q \in Procs \ {p},
         job'[q] = job[q],
         \A r \in Recipes : gate[r] # p => gate'[r] = gate[r],
         \A r \in Recipes : gate[r] # p /\ Launched(r)' => box'[r] = box[r]
  PROVE  GateFor(q)'
  <1>1. GateFor(q) /\ (job[q].pc # "idle" => job[q].recipe \in Recipes)
    BY DEF GateInv, JobShape
  <1>2. Holds(q)' <=> Holds(q)
    BY DEF Holds
  <1>3. job[q].pc \in {"clear", "halt"} => Holds(q)
    BY DEF Holds, Working
  <1>4. Holds(q) => job[q].pc # "idle"
    BY DEF Holds, Working
  <1>5. QED
    BY <1>1, <1>2, <1>3, <1>4 DEF GateFor, Launched

LEMMA GateFinish ==
  ASSUME IInv, NEW p \in Procs, NEW res \in Results, Finish(p, res), NothingLaunched
  PROVE  GateInv'
  <1>1. \A q \in Procs \ {p} : GateFor(q)'
    BY FinishJob, GateOthers DEF IInv, NothingLaunched, Launched
  <1>2. GateFor(p)'
    BY FinishJob DEF IInv, GateFor, Holds, Working
  <1>3. QED
    BY <1>1, <1>2 DEF GateInv

LEMMA GateOther ==
  ASSUME IInv, NothingLaunched, UNCHANGED <<job, gate>>
  PROVE  GateInv'
  BY DEF IInv, GateInv, JobShape, GateFor, Holds, Working, NothingLaunched, Launched

(* A slot that is given a call or is freed again holds no gate. *)
LEMMA GateCall ==
  ASSUME IInv, UNCHANGED <<box, gate>>, NEW p \in Procs,
         \A q \in Procs \ {p} : job'[q] = job[q],
         job'[p].pc \in {"idle", "asked", "gate"} \/ (job'[p].pc = "ps" /\ job'[p].op = "status")
  PROVE  GateInv'
  <1>1. \A q \in Procs \ {p} : GateFor(q)'
    BY GateOthers DEF IInv
  <1>2. GateFor(p)'
    BY DEF GateFor, Holds, Working
  <1>3. QED
    BY <1>1, <1>2 DEF GateInv

(* A `docker run` that fails leaves at most a container that does not run. *)
LEMMA FailedRunStarts ==
  ASSUME IInv, NEW p \in Procs, RunFails(p)
  PROVE  NothingLaunched
<1>1. CASE UNCHANGED box
  BY <1>1 DEF NothingLaunched
<1>2. CASE ~UNCHANGED box
  <2>1. /\ job[p].recipe \in Recipes /\ job[p].owner \in Owners \cup {NoOwner}
        /\ job[p].how \in Settings \cup {"release"}
    BY DEF RunFails, IInv, TypeOK, Jobs, JobShape
  <2>2. PICK id \in Ids :
          box' = [box EXCEPT ![job[p].recipe] =
                    [id |-> id, state |-> "exited", owner |-> job[p].owner,
                     how |-> job[p].how, by |-> "agent"]]
    BY <1>2 DEF RunFails
  <2>3. /\ box'[job[p].recipe].state = "exited"
        /\ \A q \in Recipes \ {job[p].recipe} : box'[q] = box[q]
    BY <2>1, <2>2, StartedBox DEF IInv
  <2>4. QED
    BY <2>3 DEF NothingLaunched
<1>3. QED
  BY <1>1, <1>2

(* Only a `docker run` of the launcher starts a container of the agent. *)
LEMMA StepStarts ==
  ASSUME IInv, NEW p \in Procs, Step(p) \/ Fail(p)
  PROVE  NothingLaunched \/ (Run(p) /\ ~UNCHANGED box)
<1>1. UNCHANGED box => NothingLaunched
  BY DEF NothingLaunched
<1>2. CASE Clear(p)
  BY <1>2, RemovedBox DEF Clear, IInv, JobShape
<1>3. CASE Halt(p) \/ HaltFails(p)
  BY <1>3, StopKeeps DEF Halt, HaltFails, IInv
<1>4. CASE RunFails(p)
  BY <1>4, FailedRunStarts
<1>5. QED
  BY <1>1, <1>2, <1>3, <1>4
     DEF Step, Fail, Admit, NoWeights, TakeGate, LookLaunch, LookStop, LookStatus, LookFails,
         Inspect, InspectFails, ClearFails

LEMMA StepGate ==
  ASSUME IInv, NEW p \in Procs, Step(p) \/ Fail(p)
  PROVE  GateInv'
<1> USE DEF IInv
<1>1. UNCHANGED box => NothingLaunched
  BY DEF NothingLaunched
<1>2. CASE Admit(p)
  <2>1. CASE GoTo(p, "gate") /\ UNCHANGED gate
    BY <1>2, <2>1, GoToJob, GateCall DEF Admit, JobPcs
  <2>2. CASE Finish(p, "not_launchable")
    BY <1>1, <1>2, <2>2, GateFinish DEF Admit, Results
  <2>3. QED
    BY <1>2, <2>1, <2>2 DEF Admit
<1>3. CASE NoWeights(p) \/ LookFails(p) \/ InspectFails(p)
  BY <1>1, <1>3, GateFinish DEF NoWeights, LookFails, InspectFails, Results
<1>4. CASE TakeGate(p)
  <2>1. /\ job[p].recipe \in Recipes /\ gate' = [gate EXCEPT ![job[p].recipe] = p]
        /\ gate[job[p].recipe] = Free /\ UNCHANGED box
    BY <1>4 DEF TakeGate, JobShape
  <2>2. /\ job'[p].pc = "ps" /\ job'[p].recipe = job[p].recipe
        /\ \A q \in Procs \ {p} : job'[q] = job[q]
    BY <1>4, GoToJob DEF TakeGate, JobPcs
  <2>3. GateFor(p)'
    BY <2>1, <2>2 DEF GateFor, TypeOK
  <2>4. ASSUME NEW q \in Procs \ {p} PROVE GateFor(q)'
    <3>1. GateFor(q) /\ job'[q] = job[q] /\ (Holds(q) => job[q].recipe \in Recipes)
      BY <2>2 DEF GateInv, JobShape, Holds, Working
    <3>2. q # Free
      BY LaunchAssumption DEF Procs, Free
    <3>3. Holds(q) => gate'[job[q].recipe] = q
      BY <2>1, <3>1, <3>2 DEF GateFor, TypeOK
    <3>4. QED
      BY <2>1, <3>1, <3>3 DEF GateFor, Holds, Launched
  <2>5. QED
    BY <2>3, <2>4 DEF GateInv
<1>5. CASE LookLaunch(p)
  <2>1. /\ job'[p].recipe = job[p].recipe /\ job'[p].op = "launch" /\ UNCHANGED <<box, gate>>
        /\ \A q \in Procs \ {p} : job'[q] = job[q]
        /\ job'[p].pc \in {"inspect", "clear"}
        /\ job'[p].pc = "clear" => ~Up(job[p].recipe)
    BY <1>5 DEF LookLaunch, GoTo, TypeOK, Jobs
  <2>2. Holds(p)
    BY <1>5 DEF LookLaunch, Holds
  <2>3. GateFor(p)'
    BY <2>1, <2>2 DEF GateInv, GateFor, Up, Launched
  <2>4. \A q \in Procs \ {p} : GateFor(q)'
    BY <2>1, GateOthers
  <2>5. QED
    BY <2>3, <2>4 DEF GateInv
<1>6. CASE LookStop(p)
  <2> DEFINE ids == StopTargets(job[p].recipe)
  <2>1. CASE ids = {}
    BY <1>1, <1>6, <2>1, GateFinish DEF LookStop, Results
  <2>2. CASE ids # {}
    <3>1. /\ job'[p].recipe = job[p].recipe /\ job'[p].op = "stop" /\ UNCHANGED <<box, gate>>
          /\ \A q \in Procs \ {p} : job'[q] = job[q]
          /\ job'[p].pc = "halt" /\ job'[p].ids = ids
      BY <1>6, <2>2 DEF LookStop, TypeOK, Jobs
    <3>2. Holds(p)
      BY <1>6 DEF LookStop, Holds
    <3>3. Up(job[p].recipe) => box[job[p].recipe].id \in ids
      BY DEF StopTargets
    <3>4. GateFor(p)'
      BY <3>1, <3>2, <3>3 DEF GateInv, GateFor, Up, Launched
    <3>5. \A q \in Procs \ {p} : GateFor(q)'
      BY <3>1, GateOthers
    <3>6. QED
      BY <3>4, <3>5 DEF GateInv
  <2>3. QED
    BY <2>1, <2>2
<1>7. CASE LookStatus(p)
  BY <1>1, <1>7, GateFinish DEF LookStatus, Results
<1>8. CASE Inspect(p)
  BY <1>1, <1>8, GateFinish DEF Inspect, Results
<1>9. CASE Clear(p) \/ ClearFails(p)
  <2>1. /\ job'[p].recipe = job[p].recipe /\ job'[p].op = job[p].op /\ UNCHANGED gate
        /\ \A q \in Procs \ {p} : job'[q] = job[q]
        /\ job'[p].pc = "run" /\ job[p].pc = "clear" /\ job[p].recipe \in Recipes
    BY <1>9, GoToJob DEF Clear, ClearFails, JobPcs, JobShape
  <2>2. NothingLaunched
    BY <1>1, <1>9, <2>1, RemovedBox DEF Clear, ClearFails
  <2>3. Holds(p)
    BY <2>1 DEF Holds, Working
  <2>4. GateFor(p)'
    BY <2>1, <2>3 DEF GateInv, GateFor
  <2>5. \A q \in Procs \ {p} : GateFor(q)'
    BY <2>1, <2>2, GateOthers DEF NothingLaunched, Launched
  <2>6. QED
    BY <2>4, <2>5 DEF GateInv
<1>10. CASE Run(p)
  <2>1. CASE UNCHANGED box
    BY <1>1, <1>10, <2>1, GateFinish DEF Run, Results
  <2>2. CASE ~UNCHANGED box
    <3>1. /\ job[p].recipe \in Recipes /\ gate[job[p].recipe] = p
          /\ Finish(p, "started") /\ "started" \in Results
      BY <1>10, <2>2 DEF Run, JobShape, GateInv, GateFor, Holds, Working, Results
    <3>2. \A r \in Recipes \ {job[p].recipe} : box'[r] = box[r]
      BY <1>10, <2>2 DEF Run, TypeOK
    <3>3. \A q \in Procs \ {p} : GateFor(q)'
      BY <3>1, <3>2, FinishJob, GateOthers
    <3>4. GateFor(p)'
      BY <3>1, FinishJob DEF GateFor, Holds, Working
    <3>5. QED
      BY <3>3, <3>4 DEF GateInv
  <2>3. QED
    BY <2>1, <2>2
<1>11. CASE RunFails(p)
  <2>1. NothingLaunched
    BY <1>11, FailedRunStarts
  <2>2. QED
    BY <1>11, <2>1, GateFinish DEF RunFails, Results
<1>12. CASE Halt(p) \/ HaltFails(p)
  BY <1>12, StopKeeps, GateFinish DEF Halt, HaltFails, Results
<1>13. QED
  BY <1>2, <1>3, <1>4, <1>5, <1>6, <1>7, <1>8, <1>9, <1>10, <1>11, <1>12 DEF Step, Fail

(* The command line and the environment start no container of the agent.   *)
LEMMA OthersStart ==
  ASSUME IInv, CommandLine \/ Environment
  PROVE  NothingLaunched /\ (~Restart => UNCHANGED <<job, gate, host>>)
<1> USE DEF IInv
<1>1. UNCHANGED box => NothingLaunched
  BY DEF NothingLaunched
<1>2. ASSUME NEW r \in Recipes, NEW how \in Settings, CliClear(r, how)
      PROVE  NothingLaunched /\ UNCHANGED <<job, gate, host>>
  BY <1>2, RemovedBox DEF CliClear
<1>3. CASE CliRun
  <2>1. CASE UNCHANGED box
    BY <1>1, <1>3, <2>1 DEF CliRun
  <2>2. CASE ~UNCHANGED box
    <3>1. cli.recipe \in Recipes /\ cli.how \in Settings
      BY <1>3 DEF CliRun, CallerShape, TypeOK
    <3>2. PICK id \in Ids :
            box' = [box EXCEPT ![cli.recipe] =
               [id |-> id, state |-> "up", owner |-> NoOwner, how |-> cli.how, by |-> "cli"]]
      BY <1>3, <2>2 DEF CliRun
    <3>3. /\ box'[cli.recipe].by = "cli" /\ box'[cli.recipe].owner = NoOwner
          /\ \A q \in Recipes \ {cli.recipe} : box'[q] = box[q]
      BY <3>1, <3>2, StartedBox
    <3>4. QED
      BY <1>3, <3>3 DEF NothingLaunched, CliRun
  <2>3. QED
    BY <2>1, <2>2
<1>4. ASSUME NEW r \in Recipes, Exit(r)
      PROVE  NothingLaunched /\ UNCHANGED <<job, gate, host>>
  <2>1. Stopped(box[r]).state # "up"
    BY <1>4 DEF Exit, Up, Stopped, TypeOK, Boxes, Absent
  <2>2. QED
    BY <1>4, <2>1 DEF Exit, NothingLaunched, TypeOK
<1>5. QED
  BY <1>1, <1>2, <1>3, <1>4 DEF CommandLine, Environment, SetAdmission, RankStarts, Restart

LEMMA OtherGate ==
  ASSUME IInv, Sessions \/ Controller \/ Reconciler \/ CommandLine \/ Environment
  PROVE  GateInv'
<1> USE DEF IInv
<1>1. ASSUME UNCHANGED <<box, job, gate>> PROVE GateInv'
  BY <1>1, GateOther DEF NothingLaunched
<1>2. ASSUME NEW p \in Procs, UNCHANGED <<box, gate>>, job' = [job EXCEPT ![p] = Idle]
      PROVE  GateInv'
  BY <1>2, IdleJob, GateCall DEF Idle
<1>3. ASSUME NEW p \in Procs, NEW op \in {"launch", "stop", "status"}, NEW r \in Recipes,
             NEW how \in Settings \cup {"release", "none"}, NEW owner \in Owners \cup {NoOwner},
             NEW fit \in BOOLEAN, UNCHANGED <<box, gate>>,
             job' = [job EXCEPT ![p] = Call(op, r, how, owner, fit)]
      PROVE  GateInv'
  <2>1. /\ job'[p].pc \in {"asked", "gate", "ps"} /\ (job'[p].pc = "ps" => job'[p].op = "status")
        /\ \A q \in Procs \ {p} : job'[q] = job[q]
    BY ZenonT(60), <1>3, CallJob
  <2>2. QED
    BY <1>3, <2>1, GateCall
<1>4. NoOwner \in Owners \cup {NoOwner} /\ Host \in Procs /\ Slots \subseteq Procs
  BY DEF Procs
<1>5. CASE Sessions
  <2>1. ASSUME NEW s \in Slots, NEW q \in Requests, Request(s, q) PROVE GateInv'
    BY <1>3, <1>4, <2>1 DEF Request, Requests
  <2>2. ASSUME NEW s \in Slots, Answer(s) PROVE GateInv'
    BY <1>2, <1>4, <2>2 DEF Answer
  <2>3. QED
    BY <1>5, <2>1, <2>2 DEF Sessions
<1>6. CASE Controller
  <2>1. ASSUME NEW s \in Slots, ClientSend(s) PROVE GateInv'
    <3> DEFINE op == IF client.probing THEN "status" ELSE client.op
    <3>1. /\ client.op \in {"launch", "stop"} /\ client.recipe \in Recipes
          /\ client.how \in Settings \cup {"release", "none"} /\ client.fit \in BOOLEAN
      BY <2>1 DEF ClientSend, TypeOK, Clients, CallerShape
    <3>2. op \in {"launch", "stop", "status"} /\ UNCHANGED <<box, gate>>
          /\ job' = [job EXCEPT ![s] = Call(op, client.recipe, client.how, NoOwner, client.fit)]
      BY <2>1, <3>1 DEF ClientSend
    <3> HIDE DEF op
    <3>3. QED
      BY <1>3, <1>4, <3>1, <3>2
  <2>2. CASE ClientReply
    BY <1>2, <1>4, <2>2 DEF ClientReply, CallerShape
  <2>3. QED
    BY <1>1, <1>6, <2>1, <2>2 DEF Controller, ClientStart, ClientLost, ClientRefused
<1>7. CASE Reconciler
  <2>1. CASE HostDecide
    <3>1. CASE UNCHANGED job
      BY <1>1, <2>1, <3>1 DEF HostDecide
    <3>2. CASE ~UNCHANGED job
      <4>1. PICK s \in Decide(host) : s.step = "stop" /\ job' = [job EXCEPT ![Host] =
                                          Call("stop", s.recipe, "none", NoOwner, TRUE)]
        BY <2>1, <3>2 DEF HostDecide
      <4>2. s.recipe \in Recipes
        BY <4>1, DecideFacts
      <4>3. QED
        BY <1>3, <1>4, <2>1, <4>1, <4>2 DEF HostDecide
    <3>3. QED
      BY <3>1, <3>2
  <2>2. CASE HostFetch
    <3> DEFINE owner == [deployment |-> host.deployment, generation |-> host.generation]
               fit == host.fit # "unlaunchable"
    <3>1. owner \in Owners \cup {NoOwner} /\ fit \in BOOLEAN /\ host.recipe \in Recipes
      BY <2>2 DEF HostFetch, Owners, CallerShape
    <3>2. UNCHANGED <<box, gate>>
          /\ job' = [job EXCEPT ![Host] = Call("launch", host.recipe, "release", owner, fit)]
      BY <2>2 DEF HostFetch
    <3> HIDE DEF owner, fit
    <3>3. QED
      BY <1>3, <1>4, <3>1, <3>2
  <2>3. CASE HostActed
    BY <1>2, <1>4, <2>3 DEF HostActed
  <2>4. QED
    BY <1>1, <1>7, <2>1, <2>2, <2>3
       DEF Reconciler, Apply, Stop, HostAction, HostLookFails, HostAnswer, HostFetchFails
<1>8. CASE CommandLine \/ Environment
  <2>1. CASE Restart
    BY <2>1 DEF Restart, GateInv, GateFor, Holds, Working, Idle
  <2>2. CASE ~Restart
    BY <1>8, <2>2, OthersStart, GateOther
  <2>3. QED
    BY <2>1, <2>2
<1>9. QED
  BY <1>5, <1>6, <1>7, <1>8

-----------------------------------------------------------------------------
(* What the reconciler may rely on *)

\* A step starts no container for a deployment.
NothingOwned ==
  \A r \in Recipes : box'[r].state = "up" => box'[r] = box[r] \/ box'[r].owner = NoOwner

\* A step hands the reconciler no launch.
NoNewLaunch ==
  /\ \A p \in Slots : job'[p].owner = NoOwner
  /\ job'[Host].owner \in {job[Host].owner, NoOwner}
  /\ job'[Host].pc # "idle" => job[Host].pc # "idle"
  /\ job'[Host].op = "launch" /\ job'[Host].pc \notin {"idle", "done"} =>
       job[Host].op = "launch" /\ job[Host].pc \notin {"idle", "done"}

(* What a deployment runs after such a step it ran before it. *)
LEMMA MineShrinks ==
  ASSUME NothingOwned, NEW d \in Deployments
  PROVE  \A r \in Mine(d)' : r \in Mine(d) /\ box'[r] = box[r]
  BY LaunchAssumption DEF NothingOwned, Mine, IsOurs, Up, NoOwner

LEMMA OwnerStep ==
  ASSUME IInv, NothingOwned, NoNewLaunch, UNCHANGED host
  PROVE  OwnerInv' /\ OneWorkload'
<1> USE DEF IInv
<1>1. OneWorkload'
  BY MineShrinks DEF OneWorkload
<1>2. host.pc # "idle" => host.deployment \in Deployments
  BY DEF CallerShape
<1>3. host.pc \in {"fetch", "acting"} =>
        \A r \in Mine(host.deployment)' : r \in Mine(host.deployment) /\ box'[r] = box[r]
  BY <1>2, MineShrinks
<1>4. job'[Host].pc # "idle" \/ job'[Host].owner # NoOwner => host.pc = "acting"
  BY DEF NoNewLaunch, OwnerInv
<1>5. (host.pc = "fetch" \/ (job'[Host].op = "launch" /\ job'[Host].pc \notin {"idle", "done"})) =>
        Mine(host.deployment)' = {}
  <2>1. CASE host.pc = "fetch"
    BY <1>3, <2>1 DEF OwnerInv
  <2>2. CASE job'[Host].op = "launch" /\ job'[Host].pc \notin {"idle", "done"}
    BY <1>3, <2>2 DEF OwnerInv, NoNewLaunch
  <2>3. QED
    BY <2>1, <2>2
<1>6. host.pc \in {"fetch", "acting"} =>
        \A r \in Mine(host.deployment)' : box'[r].owner.generation <= host.generation
  BY <1>3 DEF OwnerInv
<1>7. job'[Host].owner # NoOwner =>
        job'[Host].owner = [deployment |-> host.deployment, generation |-> host.generation]
  BY DEF NoNewLaunch, OwnerInv
<1>8. OwnerInv'
  BY <1>4, <1>5, <1>6, <1>7 DEF OwnerInv, NoNewLaunch
<1>9. QED
  BY <1>1, <1>8

(* A call that goes on or ends is no new launch. *)
LEMMA SameCalls ==
  ASSUME IInv, NEW p \in Procs, job[p].pc \notin {"idle", "done"},
         job'[p].owner = job[p].owner, job'[p].op = job[p].op,
         \A q \in Procs \ {p} : job'[q] = job[q]
  PROVE  NoNewLaunch
  BY DEF IInv, OwnerInv, NoNewLaunch, Procs

(* A step of a call leaves the other calls alone, and whose call it is. *)
LEMMA StepJob ==
  ASSUME IInv, NEW p \in Procs, Step(p) \/ Fail(p)
  PROVE  /\ job[p].pc \notin {"idle", "done"} /\ UNCHANGED host
         /\ job'[p].owner = job[p].owner /\ job'[p].op = job[p].op
         /\ \A q \in Procs \ {p} : job'[q] = job[q]
<1> USE DEF IInv
<1>1. job \in [Procs -> Jobs] /\ job[p] \in Jobs
  BY DEF TypeOK
<1>2. job[p].pc \notin {"idle", "done"} /\ UNCHANGED host
  BY DEF Step, Fail, Admit, NoWeights, TakeGate, LookLaunch, LookStop, LookStatus, LookFails,
         Inspect, InspectFails, Clear, ClearFails, Run, RunFails, Halt, HaltFails
<1> DEFINE same == /\ job'[p].owner = job[p].owner /\ job'[p].op = job[p].op
                   /\ \A q \in Procs \ {p} : job'[q] = job[q]
<1>3. ASSUME NEW res \in Results, Finish(p, res) PROVE same
  BY <1>3, FinishJob
<1>4. ASSUME NEW pc \in JobPcs, GoTo(p, pc) PROVE same
  BY <1>4, GoToJob
<1>5. ASSUME LookLaunch(p) PROVE same
  BY <1>1, <1>5 DEF LookLaunch, GoTo, Jobs
<1>6. ASSUME LookStop(p) PROVE same
  BY <1>1, <1>6 DEF LookStop, Finish, Jobs
<1>7. ASSUME Admit(p) \/ TakeGate(p) \/ Clear(p) \/ ClearFails(p) PROVE same
  <2> HIDE DEF same
  <2>1. QED
    BY <1>3, <1>4, <1>7 DEF Admit, TakeGate, Clear, ClearFails, JobPcs, Results
<1>8. ASSUME Run(p) \/ RunFails(p) \/ Halt(p) \/ HaltFails(p) \/ NoWeights(p) PROVE same
  <2> HIDE DEF same
  <2>1. QED
    BY <1>3, <1>8 DEF Run, RunFails, Halt, HaltFails, NoWeights, Results
<1>9. ASSUME LookStatus(p) \/ LookFails(p) \/ Inspect(p) \/ InspectFails(p) PROVE same
  <2> HIDE DEF same
  <2>1. QED
    BY <1>3, <1>9 DEF LookStatus, LookFails, Inspect, InspectFails, Results
<1>10. QED
  BY <1>2, <1>5, <1>6, <1>7, <1>8, <1>9 DEF Step, Fail

LEMMA StepOwner ==
  ASSUME IInv, NEW p \in Procs, Step(p) \/ Fail(p)
  PROVE  OwnerInv' /\ OneWorkload'
<1> USE DEF IInv
<1>1. /\ job[p].pc \notin {"idle", "done"} /\ UNCHANGED host
      /\ job'[p].owner = job[p].owner /\ job'[p].op = job[p].op
      /\ \A q \in Procs \ {p} : job'[q] = job[q]
  BY StepJob
<1>2. NoNewLaunch
  BY <1>1, SameCalls
<1>3. CASE NothingOwned
  BY <1>1, <1>2, <1>3, OwnerStep
<1>4. CASE ~NothingOwned
  <2>1. Run(p) /\ ~UNCHANGED box
    BY <1>4, StepStarts DEF NothingOwned, NothingLaunched
  <2> DEFINE r == job[p].recipe
  <2>2. r \in Recipes /\ job[p].op = "launch" /\ job[p].pc = "run"
        /\ job[p].owner \in Owners \cup {NoOwner} /\ job[p].how \in Settings \cup {"release"}
    BY <2>1 DEF Run, JobShape, TypeOK, Jobs
  <2>3. PICK id \in Ids :
          box' = [box EXCEPT ![r] = [id |-> id, state |-> "up", owner |-> job[p].owner,
                                     how |-> job[p].how, by |-> "agent"]]
    BY <2>1 DEF Run
  <2>4. box'[r].owner = job[p].owner /\ \A q \in Recipes \ {r} : box'[q] = box[q]
    BY <2>2, <2>3, StartedBox
  <2>5. job[p].owner # NoOwner
    BY <1>4, <2>4 DEF NothingOwned
  <2>6. p = Host /\ job[Host].op = "launch" /\ job[Host].pc = "run"
    BY <2>2, <2>5 DEF OwnerInv, Procs
  <2>7. /\ host.pc = "acting" /\ host.deployment \in Deployments /\ host.generation \in Nat
        /\ job[Host].owner = [deployment |-> host.deployment, generation |-> host.generation]
        /\ Mine(host.deployment) = {}
    BY <2>5, <2>6, LaunchAssumption DEF OwnerInv, CallerShape, Generations
  <2>8. \A d \in Deployments : \A q \in Mine(d)' :
          (q = r /\ d = host.deployment) \/ q \in Mine(d)
    BY <2>4, <2>6, <2>7 DEF Mine, IsOurs, Up
  <2>9. OneWorkload'
    BY <2>7, <2>8 DEF OneWorkload
  <2>10. job'[p].pc = "done"
    BY <2>1, FinishJob DEF Run, Results
  <2>11. OwnerInv'
    <3>1. \A q \in Mine(host.deployment)' : q = r
      BY <1>1, <2>7, <2>8
    <3>2. box'[r].owner.generation <= host.generation
      BY <2>4, <2>6, <2>7
    <3>3. QED
      BY <1>1, <1>2, <2>6, <2>7, <2>10, <3>1, <3>2 DEF OwnerInv, NoNewLaunch
  <2>12. QED
    BY <2>9, <2>11
<1>5. QED
  BY <1>3, <1>4

LEMMA CallerOwner ==
  ASSUME IInv, Sessions \/ Controller \/ CommandLine \/ Environment
  PROVE  OwnerInv' /\ OneWorkload'
<1> USE DEF IInv
<1>1. /\ \A s \in Slots : s \in Procs /\ s # Host
      /\ Host \in Procs
  BY LaunchAssumption DEF Procs
<1>2. NothingOwned
  <2>1. UNCHANGED box => NothingOwned
    BY SMTT(60) DEF NothingOwned
  <2>2. CASE Sessions \/ Controller
    BY <2>1, <2>2 DEF Sessions, Controller, Request, Answer, ClientStart, ClientSend, ClientLost,
                      ClientRefused, ClientReply
  <2>3. CASE CommandLine \/ Environment
    BY <2>3, OthersStart DEF NothingOwned, NothingLaunched
  <2>4. QED
    BY <2>2, <2>3
<1>3. UNCHANGED job => NoNewLaunch
  BY DEF NoNewLaunch, OwnerInv
<1>4. ASSUME NEW s \in Slots, NEW j, j.owner = NoOwner, job' = [job EXCEPT ![s] = j]
      PROVE  NoNewLaunch
  <2>1. job'[Host] = job[Host] /\ \A q \in Slots : job'[q].owner = NoOwner
    BY <1>1, <1>4 DEF OwnerInv, TypeOK
  <2>2. QED
    BY <2>1 DEF NoNewLaunch
<1>5. CASE Sessions
  <2>1. UNCHANGED host /\ \E s \in Slots : \E j : j.owner = NoOwner /\ job' = [job EXCEPT ![s] = j]
    BY <1>5 DEF Sessions, Request, Answer, Call, Idle
  <2>2. QED
    BY <1>2, <1>4, <2>1, OwnerStep
<1>6. CASE Controller
  <2>1. UNCHANGED host
    BY <1>6 DEF Controller, ClientStart, ClientSend, ClientLost, ClientRefused, ClientReply
  <2>2. UNCHANGED job \/ \E s \in Slots : \E j : j.owner = NoOwner /\ job' = [job EXCEPT ![s] = j]
    <3>1. ASSUME NEW s \in Slots, ClientSend(s)
          PROVE  \E j : j.owner = NoOwner /\ job' = [job EXCEPT ![s] = j]
      <4> DEFINE j == Call(IF client.probing THEN "status" ELSE client.op, client.recipe,
                           client.how, NoOwner, client.fit)
      <4>1. j.owner = NoOwner
        BY DEF Call
      <4>2. job' = [job EXCEPT ![s] = j]
        BY <3>1 DEF ClientSend
      <4>3. QED
        BY <4>1, <4>2
    <3>2. CASE ClientReply
      BY <3>2 DEF ClientReply, CallerShape, Idle
    <3>3. QED
      BY <1>6, <3>1, <3>2 DEF Controller, ClientStart, ClientLost, ClientRefused
  <2>3. QED
    BY <1>2, <1>3, <1>4, <2>1, <2>2, OwnerStep
<1>7. CASE (CommandLine \/ Environment) /\ ~Restart
  BY <1>2, <1>3, <1>7, OthersStart, OwnerStep
<1>8. CASE Restart
  <2>1. OneWorkload'
    BY <1>2, MineShrinks DEF OneWorkload
  <2>2. \A p \in Procs : job'[p] = Idle
    BY <1>8 DEF Restart
  <2>3. host'.pc = "idle"
    BY <1>8, OutcomeHost DEF Restart
  <2>4. OwnerInv'
    BY <1>1, <2>2, <2>3 DEF OwnerInv, Idle
  <2>5. QED
    BY <2>1, <2>4
<1>9. QED
  BY <1>5, <1>6, <1>7, <1>8

LEMMA ReconcilerOwner ==
  ASSUME IInv, Reconciler
  PROVE  OwnerInv' /\ OneWorkload'
<1> USE DEF IInv
<1>1. UNCHANGED <<box, rank, gate>> /\ Host \in Procs /\ Host \notin Slots /\ Slots \subseteq Procs
  BY LaunchAssumption
     DEF Reconciler, Apply, Stop, HostAction, HostDecide, HostLookFails, HostAnswer, HostFetch,
         HostFetchFails, HostActed, Procs
<1>2. OneWorkload'
  BY <1>1 DEF OneWorkload, Mine, IsOurs, Up
<1>3. \A d : Mine(d)' = Mine(d)
  BY <1>1 DEF Mine, IsOurs, Up
<1>4. ASSUME UNCHANGED job, host'.pc \notin {"fetch", "acting"}, host.pc # "acting"
      PROVE  OwnerInv'
  BY <1>4 DEF OwnerInv
<1>5. CASE HostLookFails \/ HostAnswer \/ HostFetchFails
  <2>1. PICK o \in {"none", "applied", "already_applied", "refused", "failed", "error"} :
          host' = Outcome(o) \/ host' = Answering(o)
    BY <1>5 DEF HostLookFails, HostAnswer, HostFetchFails, TypeOK, Hosts
  <2>2. host'.pc \in {"idle", "answer"} /\ host.pc # "acting" /\ UNCHANGED job
    BY <1>5, <2>1, OutcomeHost, AnsweringHost DEF HostLookFails, HostAnswer, HostFetchFails
  <2>3. QED
    BY <1>2, <1>4, <2>2
<1>6. CASE HostDecide
  <2>1. PICK s \in Decide(host) :
          \/ /\ s.step = "converged"
             /\ host' = Outcome(IF host.acted THEN "applied" ELSE "already_applied")
             /\ UNCHANGED job
          \/ /\ s.step = "refuse" /\ host' = Outcome("refused") /\ UNCHANGED job
          \/ /\ s.step = "launch"
             /\ host' = IF host.launched THEN Answering("failed")
                        ELSE IF admission = "closed" THEN Answering("refused")
                        ELSE [host EXCEPT !.pc = "fetch"]
             /\ UNCHANGED job
          \/ /\ s.step = "stop"
             /\ IF host.intent = "run" /\ admission = "closed"
                  THEN host' = Outcome("refused") /\ UNCHANGED job
                  ELSE /\ host' = [host EXCEPT !.pc = "acting"]
                       /\ job' = [job EXCEPT ![Host] =
                            Call("stop", s.recipe, "none", NoOwner, TRUE)]
    BY <1>6 DEF HostDecide
  <2>2. host.pc = "observe" /\ host.deployment \in Deployments /\ host.generation \in Nat
    BY <1>6, LaunchAssumption DEF HostDecide, CallerShape, Generations
  <2>3. job[Host].pc = "idle" /\ job[Host].owner = NoOwner
    BY <2>2 DEF OwnerInv
  <2>4. s.step \in {"launch", "stop"} =>
          \A r \in Mine(host.deployment) : box[r].owner.generation <= host.generation
    <3>1. \A r \in Mine(host.deployment) : box[r].owner.generation \in Nat
      BY LaunchAssumption DEF Mine, IsOurs, Up, TypeOK, Boxes, Absent, Owners, NoOwner, Generations
    <3>2. QED
      BY <2>2, <3>1, DecideFacts
  <2>5. CASE s.step = "launch" /\ host' = [host EXCEPT !.pc = "fetch"] /\ UNCHANGED job
    <3>1. Mine(host.deployment) = {}
      BY <2>5, DecideFacts
    <3>2. host'.deployment = host.deployment /\ host'.generation = host.generation
          /\ host'.pc = "fetch"
      BY <2>5 DEF TypeOK, Hosts
    <3>3. Mine(host.deployment)' = {}
      BY <1>3, <3>1, <3>2
    <3>4. QED
      BY <1>2, <2>3, <2>5, <3>2, <3>3 DEF OwnerInv
  <2>6. CASE s.step = "stop" /\ host' = [host EXCEPT !.pc = "acting"]
             /\ job' = [job EXCEPT ![Host] = Call("stop", s.recipe, "none", NoOwner, TRUE)]
    <3>1. host'.deployment = host.deployment /\ host'.generation = host.generation
          /\ host'.pc = "acting"
      BY <2>6 DEF TypeOK, Hosts
    <3>2. job'[Host].op = "stop" /\ job'[Host].owner = NoOwner
      BY <1>1, <2>6 DEF Call, TypeOK
    <3>3. \A q \in Slots : job'[q] = job[q]
      BY <1>1, <2>6 DEF TypeOK
    <3>4. \A r \in Mine(host.deployment)' : box'[r].owner.generation <= host'.generation
      BY <1>1, <1>3, <2>4, <2>6, <3>1
    <3>5. QED
      BY <1>2, <3>1, <3>2, <3>3, <3>4 DEF OwnerInv
  <2>7. ASSUME NEW o \in {"applied", "already_applied", "refused", "failed"}, UNCHANGED job,
               host' = Outcome(o) \/ host' = Answering(o)
        PROVE  OwnerInv'
    BY <1>4, <2>2, <2>7, OutcomeHost, AnsweringHost
  <2>8. QED
    BY <1>2, <2>1, <2>5, <2>6, <2>7
<1>7. CASE HostFetch
  <2> DEFINE owner == [deployment |-> host.deployment, generation |-> host.generation]
             fit == host.fit # "unlaunchable"
  <2>1. host'.deployment = host.deployment /\ host'.generation = host.generation
        /\ host'.pc = "acting" /\ host.pc = "fetch"
    BY <1>7 DEF HostFetch, TypeOK, Hosts
  <2>2. job' = [job EXCEPT ![Host] = Call("launch", host.recipe, "release", owner, fit)]
    BY <1>7 DEF HostFetch
  <2> HIDE DEF owner, fit
  <2>3. job'[Host].owner = owner /\ \A q \in Slots : job'[q] = job[q]
    BY <1>1, <2>2 DEF Call, TypeOK
  <2>4. Mine(host.deployment)' = {}
    BY <1>3, <2>1 DEF OwnerInv
  <2>5. owner = [deployment |-> host'.deployment, generation |-> host'.generation]
    BY <2>1 DEF owner
  <2>6. QED
    BY <1>2, <2>1, <2>3, <2>4, <2>5 DEF OwnerInv
<1>8. CASE HostActed
  <2>1. job'[Host] = Idle /\ \A q \in Slots : job'[q] = job[q]
    BY <1>1, <1>8, IdleJob DEF HostActed
  <2>2. host'.pc \notin {"fetch", "acting"}
    BY <1>8 DEF HostActed, Outcome, Answering, NoAction, TypeOK, Hosts
  <2>3. QED
    BY <1>2, <2>1, <2>2 DEF OwnerInv, Idle
<1>9. ASSUME NEW d \in Deployments, NEW g \in Generations, NEW r \in Recipes,
              NEW fit \in {"yes", "blocked", "unlaunchable"}, Apply(d, g, r, fit)
       PROVE  OwnerInv'
  BY <1>4, <1>9 DEF Apply, HostAction, Begin
<1>10. ASSUME NEW d \in Deployments, NEW g \in Generations, Stop(d, g) PROVE OwnerInv'
  BY <1>4, <1>10 DEF Stop, HostAction, Begin
<1>11. QED
  BY <1>2, <1>5, <1>6, <1>7, <1>8, <1>9, <1>10 DEF Reconciler

-----------------------------------------------------------------------------
(* The invariant and the theorems *)

LEMMA InitInv == ASSUME Init PROVE IInv
<1> USE LaunchAssumption DEF Init
<1>1. TypeOK
  <2>1. Idle \in Jobs
    BY DEF Idle, Jobs, JobPcs, Results
  <2>2. NoAction \in Hosts
    BY DEF NoAction, Hosts
  <2>3. NoRun \in Clients
    BY DEF NoRun, Clients, Results
  <2>4. QED
    BY <2>1, <2>2, <2>3 DEF TypeOK
<1>2. JobShape /\ CallerShape
  BY DEF JobShape, CallerShape, Idle, NoAction, NoRun
<1>3. GateInv
  BY DEF GateInv, GateFor, Holds, Working, Idle
<1>4. OwnerInv /\ OneWorkload
  BY DEF OwnerInv, OneWorkload, Mine, IsOurs, Up, Absent, Idle, NoAction, Procs
<1>5. QED
  BY <1>1, <1>2, <1>3, <1>4 DEF IInv

LEMMA NextInv == ASSUME IInv, [Next]_vars PROVE IInv'
<1>1. CASE UNCHANGED vars
  BY <1>1 DEF vars, IInv, TypeOK, JobShape, CallerShape, GateInv, GateFor, Holds, Launched,
              OwnerInv, OneWorkload, Mine, IsOurs, Up
<1>2. ASSUME NEW p \in Procs, Step(p) \/ Fail(p) PROVE IInv'
  BY <1>2, StepTypes, StepGate, StepOwner DEF IInv
<1>3. CASE Sessions \/ Controller
  BY <1>3, CallerTypes, OtherGate, CallerOwner DEF IInv
<1>4. CASE Reconciler
  BY <1>4, ReconcilerTypes, OtherGate, ReconcilerOwner DEF IInv
<1>5. CASE CommandLine \/ Environment
  BY <1>5, EnvironmentTypes, OtherGate, CallerOwner DEF IInv
<1>6. QED
  BY <1>1, <1>2, <1>3, <1>4, <1>5 DEF Next

LEMMA Inductive == Spec => []IInv
  BY InitInv, NextInv, PTL DEF Spec

(* The state keeps its types: no run of the controller sends more often     *)
(* than RetryBudget allows, and converge ends with its rounds.              *)
THEOREM TypeCorrect == Spec => []TypeOK
<1>1. IInv => TypeOK
  BY DEF IInv
<1>2. QED
  BY <1>1, Inductive, PTL

(* decide and Attempt::launch keep a deployment from running twice on a     *)
(* machine, whatever fails and whoever else launches and stops there.       *)
THEOREM RunsOnce == Spec => []OneWorkload
<1>1. IInv => OneWorkload
  BY DEF IInv
<1>2. QED
  BY <1>1, Inductive, PTL

(* No stop of the reconciler takes down a newer generation (decide).        *)
THEOREM NeverRolledBack == Spec => NoRollback
<1> DEFINE Kept ==
      \A r \in Recipes :
        (IsOurs(r, host.deployment) /\ ~Up(r)' /\ job[Host].pc = "halt" /\ job'[Host].pc = "done")
          => box[r].owner.generation <= host.generation
<1>1. IInv => Kept
  BY DEF IInv, OwnerInv, Mine
<1>2. QED
  BY <1>1, Inductive, PTL DEF NoRollback

(* The launcher's gates keep a launch from taking down a running launch.    *)
THEOREM LaunchesKeepRunning == Spec => LaunchKeepsRunning
<1> DEFINE Kept ==
      \A p \in Procs :
        (job[p].pc = "clear" /\ job'[p].pc = "run")
          => ~(Up(job[p].recipe) /\ box[job[p].recipe].by = "agent")
<1>1. IInv => Kept
  BY DEF IInv, GateInv, GateFor, Launched, Up
<1>2. QED
  BY <1>1, Inductive, PTL DEF LaunchKeepsRunning

(* Only a stop that found nothing, or that stopped what it found, answers   *)
(* Stopped.                                                                 *)
LEMMA WhoStops ==
  ASSUME IInv, [Next]_vars, NEW p \in Procs, job'[p].res = "stopped", job[p].res # "stopped"
  PROVE  \/ LookStop(p) /\ StopTargets(job[p].recipe) = {} /\ Finish(p, "stopped")
         \/ Halt(p)
<1> USE DEF IInv
<1>1. CASE Step(p) \/ Fail(p)
  <2>1. ASSUME NEW res \in Results, Finish(p, res) PROVE res = "stopped"
    BY <2>1, FinishJob
  <2>2. ASSUME NEW pc \in JobPcs, GoTo(p, pc) PROVE FALSE
    BY <2>2, GoToJob
  <2>3. ~LookLaunch(p)
    BY <2>2 DEF LookLaunch, TypeOK, Jobs, JobPcs
  <2>4. LookStop(p) => StopTargets(job[p].recipe) = {} /\ Finish(p, "stopped")
    BY DEF LookStop, TypeOK, Jobs
  <2>5. ~(Admit(p) \/ TakeGate(p) \/ Clear(p) \/ ClearFails(p))
    BY <2>1, <2>2 DEF Admit, TakeGate, Clear, ClearFails, JobPcs, Results
  <2>6. ~(Run(p) \/ RunFails(p) \/ HaltFails(p) \/ NoWeights(p))
    BY <2>1 DEF Run, RunFails, HaltFails, NoWeights, Results
  <2>7. ~(LookStatus(p) \/ LookFails(p) \/ Inspect(p) \/ InspectFails(p))
    BY <2>1 DEF LookStatus, LookFails, Inspect, InspectFails, Results
  <2>8. QED
    BY <1>1, <2>3, <2>4, <2>5, <2>6, <2>7 DEF Step, Fail
<1>2. ASSUME NEW q \in Procs, q # p, Step(q) \/ Fail(q) PROVE FALSE
  BY <1>2, StepJob
<1>3. UNCHANGED job => FALSE
  OBVIOUS
<1>4. ASSUME NEW q \in Procs, NEW j, j.res = "none", job' = [job EXCEPT ![q] = j] PROVE FALSE
  BY <1>4 DEF TypeOK
<1>5. ASSUME NEW op, NEW r, NEW how, NEW owner, NEW fit
      PROVE  Call(op, r, how, owner, fit).res = "none"
  BY DEF Call
<1>6. Idle.res = "none" /\ Host \in Procs /\ Slots \subseteq Procs
  BY DEF Idle, Procs
<1>7. ~Sessions
  BY <1>4, <1>5, <1>6 DEF Sessions, Request, Answer
<1>8. ~Controller
  <2>1. ~ClientReply
    BY <1>4, <1>6 DEF ClientReply, CallerShape
  <2>2. ASSUME NEW s \in Slots, ClientSend(s) PROVE FALSE
    <3> DEFINE j == Call(IF client.probing THEN "status" ELSE client.op, client.recipe,
                         client.how, NoOwner, client.fit)
    <3>1. job' = [job EXCEPT ![s] = j]
      BY <2>2 DEF ClientSend
    <3>2. j.res = "none"
      BY DEF Call
    <3> HIDE DEF j
    <3>3. QED
      BY <1>4, <1>6, <3>1, <3>2
  <2>3. QED
    BY <1>3, <2>1, <2>2 DEF Controller, ClientStart, ClientLost, ClientRefused
<1>9. ~Reconciler
  <2>1. ASSUME HostDecide PROVE FALSE
    <3>1. PICK r : job' = [job EXCEPT ![Host] = Call("stop", r, "none", NoOwner, TRUE)]
      BY <1>3, <2>1 DEF HostDecide
    <3> DEFINE j == Call("stop", r, "none", NoOwner, TRUE)
    <3>2. j.res = "none"
      BY DEF Call
    <3> HIDE DEF j
    <3>3. job' = [job EXCEPT ![Host] = j]
      BY <3>1 DEF j
    <3>4. QED
      BY <1>4, <1>6, <3>2, <3>3
  <2>2. ~HostFetch
    <3> DEFINE j == Call("launch", host.recipe, "release",
                         [deployment |-> host.deployment, generation |-> host.generation],
                         host.fit # "unlaunchable")
    <3>1. HostFetch => job' = [job EXCEPT ![Host] = j]
      BY DEF HostFetch
    <3>2. j.res = "none"
      BY DEF Call
    <3> HIDE DEF j
    <3>3. QED
      BY <1>4, <1>6, <3>1, <3>2
  <2>3. ~HostActed
    BY <1>4, <1>6 DEF HostActed
  <2>4. QED
    BY <1>3, <2>1, <2>2, <2>3
       DEF Reconciler, Apply, Stop, HostAction, HostLookFails, HostAnswer, HostFetchFails
<1>10. ~(CommandLine \/ Environment)
  <2>1. ~Restart
    BY <1>6 DEF Restart
  <2>2. QED
    BY <1>3, <2>1, OthersStart
<1>11. QED
  BY <1>1, <1>2, <1>3, <1>7, <1>8, <1>9, <1>10 DEF Next, vars

LEMMA StopsAreFinal ==
  ASSUME IInv, [Next]_vars, NEW p \in Procs, job'[p].res = "stopped", job[p].res # "stopped"
  PROVE  ~(Up(job[p].recipe)' /\ box'[job[p].recipe].by = "agent")
<1> USE DEF IInv
<1>1. CASE LookStop(p) /\ StopTargets(job[p].recipe) = {} /\ Finish(p, "stopped")
  <2>1. ~Up(job[p].recipe)
    BY <1>1 DEF StopTargets
  <2>2. UNCHANGED box /\ job'[p].recipe = job[p].recipe
    BY <1>1, FinishJob DEF LookStop, Results
  <2>3. QED
    BY <2>1, <2>2 DEF Up
<1>2. CASE Halt(p)
  <2>1. job[p].recipe \in Recipes /\ job'[p].recipe = job[p].recipe
    BY <1>2, FinishJob DEF Halt, Results, JobShape
  <2>2. Launched(job[p].recipe) => box[job[p].recipe].id \in job[p].ids
    BY <1>2 DEF Halt, GateInv, GateFor
  <2>3. \A r \in Recipes : box'[r].state = "up" =>
          /\ box[r].id \notin job[p].ids
          /\ box'[r] = box[r] \/ box'[r].by = "cli"
    BY <1>2, StopKeeps DEF Halt, NothingLaunched
  <2>4. QED
    BY <2>1, <2>2, <2>3 DEF Up, Launched
<1>3. QED
  BY <1>1, <1>2, WhoStops

(* A stop that answered Stopped left no launch of the agent running, also   *)
(* none that was on its way when the stop arrived (DockerLauncher::stop).   *)
THEOREM StopIsFinal == Spec => StoppedIsDown
<1> DEFINE Down ==
      \A p \in Procs :
        (job'[p].res = "stopped" /\ job[p].res # "stopped")
          => ~(Up(job[p].recipe)' /\ box'[job[p].recipe].by = "agent")
<1>1. IInv /\ [Next]_vars => Down
  BY StopsAreFinal
<1>2. QED
  BY <1>1, Inductive, PTL DEF StoppedIsDown, Spec
=============================================================================
