----------------------------- MODULE BenchNode -----------------------------
(***************************************************************************)
(* The bench node of metralectl-agent: the job store, the single worker    *)
(* that takes jobs through Queued, Preparing, Building, Running,           *)
(* Collecting and Done, the recovery pass after a restart, the cancel      *)
(* handlers that run in connection tasks beside the worker, and the gate   *)
(* child, which is a process of its own and may outlive the agent.         *)
(*                                                                         *)
(* What is on disk (rec, dones, files) survives an agent crash; what the   *)
(* agent holds in memory (everything named w*, cancelFlag, running,        *)
(* handler) does not.  Every job runs the same gate at the same commit,    *)
(* the worst case for telling one job's records from another's: all share  *)
(* one worktree and so one record directory.                               *)
(***************************************************************************)
EXTENDS Integers, FiniteSets

CONSTANTS MaxJobs,      \* bound: submissions considered
          QueueDepth,   \* cfg.queue_depth
          RetainJobs,   \* cfg.retain_jobs
          Handlers,     \* connection tasks that may be serving a Cancel
          ServeReuse,   \* cfg.serve_reuse
          MaxRestarts,  \* bound: times the agent goes down
          MaxIoErrors,  \* bound: failed writes of the store or the journal
          MaxForeign    \* bound: arrivals of a tenant that is not ours

ASSUME ConstantsAssumption ==
  /\ MaxJobs \in Nat
  /\ QueueDepth \in Nat
  /\ RetainJobs \in Nat
  /\ ServeReuse \in BOOLEAN
  /\ MaxRestarts \in Nat
  /\ MaxIoErrors \in Nat
  /\ MaxForeign \in Nat

(* mint_id orders ids by the clock: a later submission has a larger id. *)
Jobs == 1..MaxJobs
NoJob == 0

VARIABLES
  agent,       \* "up", "crashed", or "stopped" (a clean shutdown)
  restarts,    \* how often the agent went down; also the agent's pid
  ioErrors,    \* how many writes have failed
  rec,         \* job.json of every job
  dones,       \* the ends that the Done events of every journal tell
  files,       \* the record directory: the jobs whose child wrote a record
  child,       \* the gate child of every job
  exitCode,    \* the exit code of every child that ended
  owner,       \* --serve-lease-owner given to every child
  server,      \* owner_pid of the leased server that is up, or NoServer
  foreign,     \* a met process, GPU app or memory user that is not ours
  foreigns,    \* how many of those have come
  wpc,         \* where the worker is
  wjob,        \* the job it works on
  wrec,        \* its in-memory JobRecord
  wend,        \* how StdPorts::wait ended, or will once the child is gone
  recovering,  \* is the worker still in recover()?
  todo,        \* the jobs recover() has yet to look at
  cancelFlag,  \* BenchHost::cancels
  running,     \* BenchHost::running
  handler      \* what every cancel handler is doing

diskVars == <<rec, dones, files>>
boxVars == <<child, exitCode, owner, server, foreign, foreigns>>
hostVars == <<cancelFlag, running>>
workVars == <<wpc, wjob, wrec, wend, recovering, todo>>
downVars == <<agent, restarts, ioErrors>>
vars == <<diskVars, boxVars, hostVars, workVars, downVars, handler>>

-----------------------------------------------------------------------------
(* Types *)

States == {"Queued", "Preparing", "Building", "Running", "Collecting", "Done"}
ExitCodes == {-1, 0, 1}
Kinds == {"None", "Completed", "Failed", "TimedOut", "Cancelled", "Orphaned"}

(* protocol Outcome, without the texts: a Failed's stage and reason and a  *)
(* Completed's verdict (BenchWait models how that is read).                *)
Outcomes == [kind : Kinds, code : ExitCodes, recs : SUBSET Jobs]

Outcome(kind) == [kind |-> kind, code |-> -1, recs |-> {}]
NoOutcome == Outcome("None")
Failed == Outcome("Failed")
Cancelled == Outcome("Cancelled")
TimedOut == Outcome("TimedOut")
Orphaned == Outcome("Orphaned")
Completed(code, recs) == [kind |-> "Completed", code |-> code, recs |-> recs]

(* JobRecord.  "Absent": never submitted.  "Removed": pruned by retain.    *)
(* "Torn": job.json does not parse, so load fails and list leaves it out.  *)
(* `child` stands for child_pid and child_start_ticks being Some.          *)
Records == [state : States \cup {"Absent", "Removed", "Torn"}, child : BOOLEAN,
            before : SUBSET Jobs, outcome : Outcomes]
NewRecord == [state |-> "Queued", child |-> FALSE, before |-> {},
              outcome |-> NoOutcome]
NoRecord == [NewRecord EXCEPT !.state = "Absent"]
Torn == [NewRecord EXCEPT !.state = "Torn"]
CancelledRecord == [NewRecord EXCEPT !.state = "Done", !.outcome = Cancelled]

NoServer == -1
NoCode == -1

(* Between a probe that found the box free and the spawn. *)
ClearedPcs == {"exec", "preparing", "building", "ready"}
(* Between the spawn and the end of StdPorts::wait. *)
ChildPcs == {"spawned", "wait"}
(* Inside machine::run, resume_running or orphan. *)
MachinePcs == ClearedPcs \cup ChildPcs \cup {"collect", "journalDone", "saveDone"}
Pcs == MachinePcs \cup {"down", "recover", "loop", "probe", "retain"}

TypeOK ==
  /\ agent \in {"up", "crashed", "stopped"}
  /\ restarts \in 0..MaxRestarts
  /\ ioErrors \in 0..MaxIoErrors
  /\ rec \in [Jobs -> Records]
  /\ dones \in [Jobs -> SUBSET Outcomes]
  /\ files \in SUBSET Jobs
  /\ child \in [Jobs -> {"none", "live", "dead"}]
  /\ exitCode \in [Jobs -> ExitCodes]
  /\ owner \in [Jobs -> 0..MaxRestarts]
  /\ server \in 0..MaxRestarts \cup {NoServer}
  /\ foreign \in BOOLEAN
  /\ foreigns \in 0..MaxForeign
  /\ wpc \in Pcs
  /\ wjob \in Jobs \cup {NoJob}
  /\ (wpc \in MachinePcs \cup {"probe"} => wjob \in Jobs)
  /\ wrec \in Records
  /\ wend \in Outcomes
  /\ recovering \in BOOLEAN
  /\ todo \in SUBSET Jobs
  /\ cancelFlag \in [Jobs -> {"none", "clear", "set"}]
  /\ running \in Jobs \cup {NoJob}
  /\ handler \in [Handlers -> [at : {"idle", "append", "save"},
                               job : Jobs \cup {NoJob}]]
  /\ \A h \in Handlers : handler[h].at # "idle" => handler[h].job \in Jobs

Idle == [at |-> "idle", job |-> NoJob]

Init ==
  /\ agent = "up"
  /\ restarts = 0
  /\ ioErrors = 0
  /\ rec = [j \in Jobs |-> NoRecord]
  /\ dones = [j \in Jobs |-> {}]
  /\ files = {}
  /\ child = [j \in Jobs |-> "none"]
  /\ exitCode = [j \in Jobs |-> NoCode]
  /\ owner = [j \in Jobs |-> 0]
  /\ server = NoServer
  /\ foreign = FALSE
  /\ foreigns = 0
  /\ wpc = "recover"
  /\ wjob = NoJob
  /\ wrec = NoRecord
  /\ wend = NoOutcome
  /\ recovering = TRUE
  /\ todo = {}
  /\ cancelFlag = [j \in Jobs |-> "none"]
  /\ running = NoJob
  /\ handler = [h \in Handlers |-> Idle]

-----------------------------------------------------------------------------
(* Helpers *)

JobsIn(states) == {j \in Jobs : rec[j].state \in states}
Live(j) == child[j] = "live"

(* BenchHost::submit's depth check. *)
QueueHasRoom == Cardinality(JobsIn({"Queued"})) < QueueDepth

(* host.queued() sorts oldest first and next_job takes the head. *)
IsNextJob(j) == /\ rec[j].state = "Queued"
                /\ \A k \in JobsIn({"Queued"}) : j <= k

(* Mutant of Busy: live met processes are not looked for. *)
BusyMissesGates == running # NoJob \/ foreign \/ server \notin {NoServer, restarts}

(* exclusive::probe and judge: a job marked running, a live met process    *)
(* (`pgrep -x met`: a gate child of ours, known or not), a foreign tenant, *)
(* or a leased server whose owner_pid is not this agent's pid.  A pgrep    *)
(* that cannot be run reads as no process: it is taken to run here.        *)
Busy == \/ running # NoJob
        \/ \E j \in Jobs : Live(j)
        \/ foreign
        \/ server \notin {NoServer, restarts}

(* Mutant of RecordState: no snapshot is taken before the child starts. *)
EmptySnapshot == {}

(* records::state, and records::collect: what is there that was not. *)
RecordState == files
NewRecords(before) == files \ before

(* store.save: write_atomic replaces the whole record, and fails without   *)
(* effect once the job's directory is gone.                                *)
Saved(j, r) == IF rec[j].state = "Removed" THEN rec
               ELSE [rec EXCEPT ![j] = r]

(* The temp file of write_atomic is named by the job and the agent's pid,  *)
(* so the worker and the cancel handlers write one and the same file.      *)
Saving(h, j) == handler[h].at = "save" /\ handler[h].job = j

(* What the worker's save of r leaves when its rename finds the file: r,   *)
(* or what no one can read, if a handler had the file open as well and     *)
(* writes on into the renamed one.  A mix of two records counts as         *)
(* unreadable.                                                             *)
Left(j, r) == {Saved(j, r)} \cup {Saved(j, Torn) : h \in {g \in Handlers : Saving(g, j)}}

(* journal.append of a Done event: which ends are told is what counts      *)
(* here, BenchJournal has the order of the lines.                          *)
DoneAppended(j, outcome) ==
  IF rec[j].state = "Removed" THEN dones
  ELSE [dones EXCEPT ![j] = @ \cup {outcome}]

(* machine::finish, entered with the outcome decided: the child is         *)
(* forgotten in memory, then the Done event, then the record.              *)
BeginFinish(r, outcome) ==
  /\ wrec' = [r EXCEPT !.child = FALSE, !.outcome = outcome]
  /\ wpc' = "journalDone"

(* machine::transition: the in-memory record moves and is saved. *)
Transition(r, state) ==
  /\ wrec' = [r EXCEPT !.state = state]
  /\ rec' \in Left(wjob, [r EXCEPT !.state = state])

(* Mutant of LeaveMachine: set_running(None) is forgotten. *)
LeaveMarkedRunning ==
  /\ UNCHANGED <<running, cancelFlag>>
  /\ wpc' = IF recovering THEN "recover" ELSE "retain"
  /\ wjob' = NoJob
  /\ wrec' = NoRecord
  /\ wend' = NoOutcome

(* What execute and recover do when the machine returns. *)
LeaveMachine ==
  /\ running' = NoJob
  /\ cancelFlag' = [cancelFlag EXCEPT ![wjob] = "none"]
  /\ wpc' = IF recovering THEN "recover" ELSE "retain"
  /\ wjob' = NoJob
  /\ wrec' = NoRecord
  /\ wend' = NoOutcome

-----------------------------------------------------------------------------
(* Requests: Submit, and Cancel in the three steps it takes on a queued    *)
(* job (load, journal, save).                                              *)

(* The checks of submit other than the depth refuse without effect. *)
Submit(j) ==
  /\ agent = "up"
  /\ rec[j].state = "Absent"
  /\ \A k \in Jobs : k < j => rec[k].state # "Absent"
  /\ QueueHasRoom
  /\ rec' = [rec EXCEPT ![j] = NewRecord]
  /\ UNCHANGED <<dones, files, boxVars, hostVars, workVars, downVars, handler>>

(* A queued job: the handler keeps the record it loaded. *)
CancelQueued(h, j) ==
  /\ agent = "up"
  /\ handler[h].at = "idle"
  /\ rec[j].state = "Queued"
  /\ handler' = [handler EXCEPT ![h] = [at |-> "append", job |-> j]]
  /\ UNCHANGED <<diskVars, boxVars, hostVars, workVars, downVars>>

CancelJournal(h) ==
  /\ handler[h].at = "append"
  /\ dones' = DoneAppended(handler[h].job, Cancelled)
  /\ handler' = [handler EXCEPT ![h].at = "save"]
  /\ UNCHANGED <<rec, files, boxVars, hostVars, workVars, downVars>>

(* The record saved is the one loaded, with Done and Cancelled put in.  If *)
(* another save has come between the handler's load and its rename, they   *)
(* may have had the temp file open together, and what is left may be a mix *)
(* of the two.                                                             *)
CancelSave(h) ==
  LET j == handler[h].job IN
  /\ handler[h].at = "save"
  /\ \/ rec' = Saved(j, CancelledRecord)
     \/ /\ rec[j].state # "Queued" \/ \E g \in Handlers \ {h} : Saving(g, j)
        /\ rec' = Saved(j, Torn)
  /\ handler' = [handler EXCEPT ![h] = Idle]
  /\ UNCHANGED <<dones, files, boxVars, hostVars, workVars, downVars>>

(* A started job: its flag is set if the worker has registered one. *)
CancelStarted(h, j) ==
  /\ agent = "up"
  /\ handler[h].at = "idle"
  /\ rec[j].state \in States \ {"Queued", "Done"}
  /\ cancelFlag[j] = "clear"
  /\ cancelFlag' = [cancelFlag EXCEPT ![j] = "set"]
  /\ UNCHANGED <<running, diskVars, boxVars, workVars, downVars, handler>>

-----------------------------------------------------------------------------
(* The worker: runner::run and execute *)

PickJob(j) ==
  /\ wpc = "loop"
  /\ IsNextJob(j)
  /\ wjob' = j
  /\ wrec' = rec[j]
  /\ wpc' = "probe"
  /\ UNCHANGED <<wend, recovering, todo, diskVars, boxVars, hostVars, downVars, handler>>

(* BUSY_RETRY, then the queue is read again. *)
ProbeBusy ==
  /\ wpc = "probe"
  /\ Busy
  /\ wpc' = "loop"
  /\ wjob' = NoJob
  /\ wrec' = NoRecord
  /\ UNCHANGED <<wend, recovering, todo, diskVars, boxVars, hostVars, downVars, handler>>

ProbeFree ==
  /\ wpc = "probe"
  /\ ~Busy
  /\ wpc' = "exec"
  /\ UNCHANGED <<wjob, wrec, wend, recovering, todo, diskVars, boxVars, hostVars,
                 downVars, handler>>

(* register_cancel, set_running, and the machine's first transition.  The  *)
(* record is the one next_job loaded, whatever is on disk by now.          *)
Start ==
  /\ wpc = "exec"
  /\ cancelFlag' = [cancelFlag EXCEPT ![wjob] = "clear"]
  /\ running' = wjob
  /\ Transition(wrec, "Preparing")
  /\ wpc' = "preparing"
  /\ UNCHANGED <<dones, files, wjob, wend, recovering, todo, boxVars, downVars, handler>>

(* The commit is absent or unpublished, or git fails. *)
PrepareFails ==
  /\ wpc = "preparing"
  /\ BeginFinish(wrec, Failed)
  /\ UNCHANGED <<wjob, wend, recovering, todo, diskVars, boxVars, hostVars, downVars,
                 handler>>

Prepared ==
  /\ wpc = "preparing"
  /\ \/ /\ cancelFlag[wjob] = "set"
        /\ BeginFinish(wrec, Cancelled)
        /\ UNCHANGED rec
     \/ /\ cancelFlag[wjob] # "set"
        /\ Transition(wrec, "Building")
        /\ wpc' = "building"
  /\ UNCHANGED <<dones, files, wjob, wend, recovering, todo, boxVars, hostVars,
                 downVars, handler>>

(* The cache cannot be read or ports.build fails; a build that fails while *)
(* the flag is set was stopped by it.                                      *)
BuildFails ==
  /\ wpc = "building"
  /\ \/ BeginFinish(wrec, Failed)
     \/ cancelFlag[wjob] = "set" /\ BeginFinish(wrec, Cancelled)
  /\ UNCHANGED <<wjob, wend, recovering, todo, diskVars, boxVars, hostVars, downVars,
                 handler>>

(* A cached or a fresh binary: the record is saved with its hash. *)
Built ==
  /\ wpc = "building"
  /\ rec' \in Left(wjob, wrec)
  /\ \/ /\ cancelFlag[wjob] = "set"
        /\ BeginFinish(wrec, Cancelled)
     \/ /\ cancelFlag[wjob] # "set"
        /\ wpc' = "ready"
        /\ UNCHANGED wrec
  /\ UNCHANGED <<dones, files, wjob, wend, recovering, todo, boxVars, hostVars,
                 downVars, handler>>

(* The binary refuses the gate or its params, the record directory cannot  *)
(* be read, or the child not be spawned.                                   *)
NotSpawned ==
  /\ wpc = "ready"
  /\ BeginFinish(wrec, Failed)
  /\ UNCHANGED <<wjob, wend, recovering, todo, diskVars, boxVars, hostVars, downVars,
                 handler>>

(* The snapshot of the record directory, then the child. *)
Spawn ==
  /\ wpc = "ready"
  /\ wrec' = [wrec EXCEPT !.before = RecordState, !.child = TRUE]
  /\ child' = [child EXCEPT ![wjob] = "live"]
  /\ owner' = IF ServeReuse THEN [owner EXCEPT ![wjob] = restarts] ELSE owner
  /\ wpc' = "spawned"
  /\ UNCHANGED <<exitCode, server, foreign, foreigns, wjob, wend, recovering, todo,
                 diskVars, hostVars, downVars, handler>>

MarkRunning ==
  /\ wpc = "spawned"
  /\ Transition(wrec, "Running")
  /\ wpc' = "wait"
  /\ UNCHANGED <<dones, files, wjob, wend, recovering, todo, boxVars, hostVars,
                 downVars, handler>>

(* StdPorts::wait.  A set flag is looked at before the two deadlines. *)
WaitTerm(end) ==
  /\ wpc = "wait"
  /\ wend = NoOutcome
  /\ Live(wjob)
  /\ \/ end = Cancelled /\ cancelFlag[wjob] = "set"
     \/ end = TimedOut /\ cancelFlag[wjob] # "set"
  /\ wend' = end
  /\ UNCHANGED <<wpc, wjob, wrec, recovering, todo, diskVars, boxVars, hostVars,
                 downVars, handler>>

(* cancel_grace has passed: SIGKILL cannot be refused. *)
WaitKill ==
  /\ wpc = "wait"
  /\ wend # NoOutcome
  /\ Live(wjob)
  /\ child' = [child EXCEPT ![wjob] = "dead"]
  /\ exitCode' = [exitCode EXCEPT ![wjob] = NoCode]
  /\ UNCHANGED <<owner, server, foreign, foreigns, workVars, diskVars, hostVars,
                 downVars, handler>>

(* Mutant of WaitKilled: the outcome is recorded once SIGTERM is sent. *)
WaitKilledAtOnce ==
  /\ wpc = "wait"
  /\ wend # NoOutcome
  /\ BeginFinish(wrec, wend)
  /\ UNCHANGED <<wjob, wend, recovering, todo, diskVars, boxVars, hostVars, downVars,
                 handler>>

WaitKilled ==
  /\ wpc = "wait"
  /\ wend # NoOutcome
  /\ ~Live(wjob)
  /\ BeginFinish(wrec, wend)
  /\ UNCHANGED <<wjob, wend, recovering, todo, diskVars, boxVars, hostVars, downVars,
                 handler>>

(* try_wait fails: the child stays, unwatched. *)
WaitFails ==
  /\ wpc = "wait"
  /\ ~recovering
  /\ BeginFinish(wrec, Failed)
  /\ UNCHANGED <<wjob, wend, recovering, todo, diskVars, boxVars, hostVars, downVars,
                 handler>>

(* The exit code is the child's own, or -1 when it is a recovered process  *)
(* that was not ours to wait for.                                          *)
WaitExited ==
  /\ wpc = "wait"
  /\ wend = NoOutcome
  /\ ~Live(wjob)
  /\ wend' = Completed(IF recovering THEN NoCode ELSE exitCode[wjob], {})
  /\ Transition(wrec, "Collecting")
  /\ wpc' = "collect"
  /\ UNCHANGED <<dones, files, wjob, recovering, todo, boxVars, hostVars,
                 downVars, handler>>

(* Only machine::run, not resume_running, refuses exit 0 with no record. *)
CollectOutcome(recs) ==
  IF /\ wend.code = 0
     /\ recs = {}
     /\ ~recovering
  THEN Failed
  ELSE [wend EXCEPT !.recs = recs]

Collect ==
  /\ wpc = "collect"
  /\ BeginFinish(wrec, CollectOutcome(NewRecords(wrec.before)))
  /\ UNCHANGED <<wjob, wend, recovering, todo, diskVars, boxVars, hostVars, downVars,
                 handler>>

CollectFails ==
  /\ wpc = "collect"
  /\ BeginFinish(wrec, Failed)
  /\ UNCHANGED <<wjob, wend, recovering, todo, diskVars, boxVars, hostVars, downVars,
                 handler>>

FinishJournal ==
  /\ wpc = "journalDone"
  /\ dones' = DoneAppended(wjob, wrec.outcome)
  /\ wpc' = "saveDone"
  /\ UNCHANGED <<rec, files, wjob, wrec, wend, recovering, todo, boxVars, hostVars,
                 downVars, handler>>

FinishSave ==
  /\ wpc = "saveDone"
  /\ rec' \in Left(wjob, [wrec EXCEPT !.state = "Done"])
  /\ LeaveMachine
  /\ UNCHANGED <<dones, files, recovering, todo, boxVars, downVars, handler>>

(* runner::retain: all but RetainJobs of the terminal jobs go, and any     *)
(* that is too old.                                                        *)
Retain(gone) ==
  /\ wpc = "retain"
  /\ gone \subseteq JobsIn({"Done"})
  /\ Cardinality(JobsIn({"Done"}) \ gone) <= RetainJobs
  /\ rec' = [j \in Jobs |-> IF j \in gone
                            THEN [NoRecord EXCEPT !.state = "Removed"]
                            ELSE rec[j]]
  /\ dones' = [j \in Jobs |-> IF j \in gone THEN {} ELSE dones[j]]
  /\ wpc' = "loop"
  /\ UNCHANGED <<files, wjob, wrec, wend, recovering, todo, boxVars, hostVars,
                 downVars, handler>>

(* serve_release_after_s with nothing queued. *)
ReleaseIdleLease ==
  /\ wpc = "loop"
  /\ JobsIn({"Queued"}) = {}
  /\ server = restarts
  /\ server' = NoServer
  /\ UNCHANGED <<child, exitCode, owner, foreign, foreigns, diskVars, hostVars, workVars,
                 downVars, handler>>

-----------------------------------------------------------------------------
(* recover().  A job that is Running in the store when the pass begins is  *)
(* written by nobody else before the pass reaches it, so the snapshot the  *)
(* code iterates over and the store agree on it.                           *)

(* A live child is waited for, or, if its worktree is not to be had, left  *)
(* to itself and its job orphaned.                                         *)
RecoverResume(j) ==
  /\ wpc = "recover"
  /\ j \in todo
  /\ rec[j].state = "Running"
  /\ rec[j].child
  /\ Live(j)
  /\ todo' = todo \ {j}
  /\ cancelFlag' = [cancelFlag EXCEPT ![j] = "clear"]
  /\ running' = j
  /\ wjob' = j
  /\ \/ wrec' = rec[j] /\ wpc' = "wait"
     \/ BeginFinish(rec[j], Orphaned)
  /\ UNCHANGED <<wend, recovering, diskVars, boxVars, downVars, handler>>

(* Mutant of RecoverOrphan: a job that cannot be resumed is tried again. *)
RecoverRequeue(j) ==
  /\ wpc = "recover"
  /\ j \in todo
  /\ ~(rec[j].state = "Running" /\ rec[j].child /\ Live(j))
  /\ todo' = todo \ {j}
  /\ rec' = [rec EXCEPT ![j] = NewRecord]
  /\ UNCHANGED <<dones, files, wpc, wjob, wrec, wend, recovering, boxVars, hostVars,
                 downVars, handler>>

RecoverOrphan(j) ==
  /\ wpc = "recover"
  /\ j \in todo
  /\ ~(rec[j].state = "Running" /\ rec[j].child /\ Live(j))
  /\ todo' = todo \ {j}
  /\ wjob' = j
  /\ BeginFinish(rec[j], Orphaned)
  /\ UNCHANGED <<wend, recovering, diskVars, boxVars, hostVars, downVars, handler>>

RecoverDone ==
  /\ wpc = "recover"
  /\ todo = {}
  /\ recovering' = FALSE
  /\ wpc' = "loop"
  /\ UNCHANGED <<wjob, wrec, wend, todo, diskVars, boxVars, hostVars, downVars, handler>>

-----------------------------------------------------------------------------
(* The store or the journal cannot be written, or the worker panics.       *)

CanFail == ioErrors < MaxIoErrors

(* machine::run or resume_running returns Err: execute (and the resume     *)
(* branch of recover) goes on as after an outcome.                         *)
MachineFails ==
  /\ CanFail
  /\ wpc \in MachinePcs
  /\ (wpc = "wait" /\ recovering) => ~Live(wjob)
  /\ running = wjob \/ wpc = "exec"
  /\ LeaveMachine
  /\ ioErrors' = ioErrors + 1
  /\ UNCHANGED <<recovering, todo, agent, restarts, diskVars, boxVars, handler>>

(* The state the worker's next save would give the record, where that save *)
(* is what the worker does next.                                           *)
NextState == [exec |-> "Preparing", preparing |-> "Building", building |-> "Building",
              spawned |-> "Running", wait |-> "Collecting", saveDone |-> "Done"]
AboutToSave == /\ wpc \in DOMAIN NextState
               /\ wpc = "preparing" => cancelFlag[wjob] # "set"
               /\ wpc = "wait" => wend = NoOutcome /\ ~Live(wjob)

(* A handler's rename takes the temp file the worker is writing: the       *)
(* record is the handler's, the worker's or a mix, the worker's own rename *)
(* finds no file, and machine::run returns that error, with no disk at     *)
(* fault.                                                                  *)
SaveTaken(h) ==
  /\ AboutToSave
  /\ Saving(h, wjob)
  /\ \E r \in {CancelledRecord, [wrec EXCEPT !.state = NextState[wpc]], Torn} :
       rec' = Saved(wjob, r)
  /\ handler' = [handler EXCEPT ![h] = Idle]
  /\ LeaveMachine
  /\ UNCHANGED <<recovering, todo, dones, files, boxVars, downVars>>

(* recover() gives up: an orphan could not be recorded, ...                *)
OrphanFails ==
  /\ CanFail
  /\ recovering
  /\ wpc \in {"journalDone", "saveDone"}
  /\ running = NoJob
  /\ wpc' = "loop"
  /\ wjob' = NoJob
  /\ wrec' = NoRecord
  /\ recovering' = FALSE
  /\ todo' = {}
  /\ ioErrors' = ioErrors + 1
  /\ UNCHANGED <<wend, agent, restarts, diskVars, boxVars, hostVars, handler>>

(* ... or the journal of a live job could not be opened, after the job was *)
(* marked running.                                                         *)
ResumeFails(j) ==
  /\ CanFail
  /\ wpc = "recover"
  /\ j \in todo
  /\ rec[j].state = "Running" /\ rec[j].child /\ Live(j)
  /\ cancelFlag' = [cancelFlag EXCEPT ![j] = "clear"]
  /\ running' = j
  /\ recovering' = FALSE
  /\ todo' = {}
  /\ wpc' = "loop"
  /\ ioErrors' = ioErrors + 1
  /\ UNCHANGED <<wjob, wrec, wend, agent, restarts, diskVars, boxVars, handler>>

(* In a cancel handler both errors are dropped, and the answer is the same. *)
CancelWriteFails(h) ==
  /\ CanFail
  /\ \/ /\ handler[h].at = "append"
        /\ handler' = [handler EXCEPT ![h].at = "save"]
     \/ /\ handler[h].at = "save"
        /\ handler' = [handler EXCEPT ![h] = Idle]
  /\ ioErrors' = ioErrors + 1
  /\ UNCHANGED <<agent, restarts, diskVars, boxVars, hostVars, workVars>>

-----------------------------------------------------------------------------
(* The agent goes down: a crash or a clean shutdown (nothing in the worker *)
(* runs at shutdown).  A service manager may take the children with it.    *)

GoDown(how, killsChildren) ==
  /\ agent = "up"
  /\ restarts < MaxRestarts
  /\ agent' = how
  /\ restarts' = restarts + 1
  /\ wpc' = "down"
  /\ wjob' = NoJob
  /\ wrec' = NoRecord
  /\ wend' = NoOutcome
  /\ recovering' = FALSE
  /\ todo' = {}
  /\ cancelFlag' = [j \in Jobs |-> "none"]
  /\ running' = NoJob
  /\ handler' = [h \in Handlers |-> Idle]
  /\ IF killsChildren
     THEN /\ child' = [j \in Jobs |-> IF Live(j) THEN "dead" ELSE child[j]]
          /\ server' = NoServer
     ELSE UNCHANGED <<child, server>>
  /\ UNCHANGED <<exitCode, owner, foreign, foreigns, ioErrors, diskVars>>

(* Restart: the worker's recovery pass lists the store. *)
Restart ==
  /\ agent # "up"
  /\ agent' = "up"
  /\ wpc' = "recover"
  /\ recovering' = TRUE
  /\ todo' = JobsIn(States \ {"Queued", "Done"})
  /\ UNCHANGED <<restarts, ioErrors, wjob, wrec, wend, diskVars, boxVars, hostVars,
                 handler>>

-----------------------------------------------------------------------------
(* The box *)

(* External: the gate (`met benchmark run`) ends, having written its       *)
(* record or not, and, with --serve-reuse, left a leased server or not.    *)
ChildExits(j, code, wrote, leased) ==
  /\ Live(j)
  /\ child' = [child EXCEPT ![j] = "dead"]
  /\ exitCode' = [exitCode EXCEPT ![j] = code]
  /\ files' = IF wrote THEN files \cup {j} ELSE files
  /\ leased => ServeReuse
  /\ server' = IF leased THEN owner[j] ELSE server
  /\ UNCHANGED <<rec, dones, owner, foreign, foreigns, hostVars, workVars, downVars, handler>>

(* External: someone else starts, and stops, using the box. *)
ForeignArrives ==
  /\ ~foreign
  /\ foreigns < MaxForeign
  /\ foreign' = TRUE
  /\ foreigns' = foreigns + 1
  /\ UNCHANGED <<child, exitCode, owner, server, diskVars, hostVars, workVars, downVars,
                 handler>>

ForeignLeaves ==
  /\ foreign
  /\ foreign' = FALSE
  /\ UNCHANGED <<child, exitCode, owner, server, foreigns, diskVars, hostVars, workVars,
                 downVars, handler>>

-----------------------------------------------------------------------------
Requests ==
  \/ \E j \in Jobs : Submit(j)
  \/ \E h \in Handlers : \/ \E j \in Jobs : CancelQueued(h, j) \/ CancelStarted(h, j)
                         \/ CancelJournal(h)
                         \/ CancelSave(h)

Machine ==
  \/ Start \/ PrepareFails \/ Prepared \/ BuildFails \/ Built
  \/ NotSpawned \/ Spawn \/ MarkRunning
  \/ \E end \in {Cancelled, TimedOut} : WaitTerm(end)
  \/ WaitKill \/ WaitKilled \/ WaitFails \/ WaitExited
  \/ Collect \/ CollectFails \/ FinishJournal \/ FinishSave

Worker ==
  \/ \E j \in Jobs : PickJob(j) \/ RecoverResume(j) \/ RecoverOrphan(j)
  \/ ProbeBusy \/ ProbeFree \/ RecoverDone
  \/ Machine
  \/ \E gone \in SUBSET Jobs : Retain(gone)
  \/ ReleaseIdleLease

Failures ==
  \/ MachineFails \/ OrphanFails
  \/ \E j \in Jobs : ResumeFails(j)
  \/ \E h \in Handlers : CancelWriteFails(h) \/ SaveTaken(h)
  \/ \E how \in {"crashed", "stopped"}, kills \in BOOLEAN : GoDown(how, kills)
  \/ Restart

ChildEnds ==
  \E j \in Jobs, code \in {0, 1}, wrote, leased \in BOOLEAN :
    ChildExits(j, code, wrote, leased)

Box == ChildEnds \/ ForeignArrives \/ ForeignLeaves

Next == Requests \/ Worker \/ Failures \/ Box

Spec == Init /\ [][Next]_vars

(* The worker thread keeps taking steps (its waits all have deadlines:     *)
(* max_run, cancel_grace, IDLE_POLL, BUSY_RETRY); a service manager starts *)
(* the agent again; the gate ends by itself even when nobody waits for it; *)
(* a foreign tenant goes away.                                             *)
Fairness == /\ WF_vars(Worker)
            /\ WF_vars(Restart)
            /\ WF_vars(ChildEnds)
            /\ WF_vars(ForeignLeaves)

FairSpec == Spec /\ Fairness

-----------------------------------------------------------------------------
(* Properties that hold *)

(* One gate per box (exclusive.rs): at no time do two gate children that   *)
(* this agent, or an earlier incarnation of it, spawned run together, even *)
(* when a crash or a failed write left a child that no record names.       *)
OneOwnGate == \A j, k \in Jobs : Live(j) /\ Live(k) => j = k

CreditIsOwn ==
  \A j \in Jobs : rec[j].outcome.kind = "Completed" => rec[j].outcome.recs \subseteq {j}

(* A job is credited only with records its own child wrote (records.rs),   *)
(* also when it was resumed by another agent process; the worker has a job *)
(* all the while it is in the machine.                                     *)
RecordsAreOwn == TypeOK /\ CreditIsOwn

(* A job that timed out or completed has no process left (machine.rs:      *)
(* the outcome is recorded after wait saw the child gone).                 *)
EndedMeansExited ==
  \A j \in Jobs : rec[j].outcome.kind \in {"Completed", "TimedOut"} => ~Live(j)

(* Whenever the worker looks at the queue, no job is left half-done: every *)
(* record is queued or terminal (runner::recover and execute).  A write    *)
(* that failed may leave one behind, and so may a Cancel that caught the   *)
(* job in the queue and saves while the worker does: but then the journal  *)
(* says that the job was cancelled.                                        *)
IdleMeansSettled ==
  wpc = "loop" /\ ioErrors = 0 =>
    \A j \in Jobs : \/ rec[j].state \in {"Absent", "Queued", "Done", "Removed"}
                   \/ Cancelled \in dones[j]

(* The end a terminal record names is one the journal told, so an attached *)
(* client ends on it (machine::finish and BenchHost::cancel journal        *)
(* first); the journal may have told another end before it, see            *)
(* JournalAndRecordAgree.                                                  *)
DoneIsJournaled ==
  ioErrors = 0 => \A j \in Jobs : rec[j].state = "Done" => rec[j].outcome \in dones[j]

(* An end on record is an end: the process is gone, the journal told it,   *)
(* and the worker has left no job half-done that was not cancelled under   *)
(* its hands (runner::execute, machine::finish and runner::recover, across *)
(* crashes between any two of their writes).                               *)
EndsAreSettled == EndedMeansExited /\ IdleMeansSettled /\ DoneIsJournaled

(* A job's gate is started at most once, whatever crashes, restarts,       *)
(* cancels and failed writes come between (runner::recover orphans rather  *)
(* than retries).                                                          *)
NeverRunTwice ==
  [][\A j \in Jobs : child[j] # "none" => (child'[j] = "live" => Live(j))]_vars

(* Every accepted job ends: a queued record becomes terminal, under the    *)
(* fairness above, unless a server that an earlier agent process leased    *)
(* keeps the box busy (exclusive.rs takes it for a foreign tenant, and     *)
(* nothing here ever stops it).  Stated where nobody cancels: a Cancel     *)
(* whose save clashes with the worker's may leave a record no one takes up *)
(* before the next restart, see IdleMeansSettled.                          *)
QueuedJobsEnd ==
  \A j \in Jobs : rec[j].state = "Queued" ~>
    rec[j].state \in {"Done", "Removed"} \/ server \notin {NoServer, restarts}

-----------------------------------------------------------------------------
(* What the documentation says and the code does not keep *)

(* docs/BENCH.md: "a job cancelled while queued is terminal at once"; a    *)
(* terminal record never becomes anything but removed.                     *)
TerminalIsFinal ==
  [][\A j \in Jobs : rec[j].state = "Done" =>
       rec'[j] = rec[j] \/ rec'[j].state = "Removed"]_vars

(* docs/BENCH.md: "exit 0 without a record is a collecting failure". *)
ExitZeroHasRecord ==
  \A j \in Jobs :
    rec[j].outcome.kind = "Completed" /\ exitCode[j] = 0 => rec[j].outcome.recs # {}

(* machine.rs: every step writes its record and its events "so a restart   *)
(* finds the truth on disk": the Done event a client reads names the       *)
(* outcome the record names.                                               *)
JournalAndRecordAgree ==
  \A j \in Jobs :
    rec[j].state = "Done" => dones[j] \subseteq {rec[j].outcome}

(* docs/BENCH.md: memory, GPU and foreign processes are "checked right     *)
(* before the child starts".                                               *)
StartsOnFreeBox ==
  [][\A j \in Jobs : child[j] = "none" /\ child'[j] = "live" => ~foreign]_vars

(* config.rs: the agent stops the leased server "after                     *)
(* serve_release_after_s idle, and at shutdown".                           *)
ShutdownReleasesLease ==
  agent = "stopped" => server \notin 0..(restarts - 1)
=============================================================================
