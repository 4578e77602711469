-------------------------- MODULE BenchNodeProofs --------------------------
(***************************************************************************)
(* Proofs about BenchNode for any number of jobs, handlers, restarts,      *)
(* failed writes and foreign tenants.                                      *)
(***************************************************************************)
EXTENDS BenchNode, TLAPS

-----------------------------------------------------------------------------
(* Facts about the operators *)

(* The named outcomes are outcomes. *)
LEMMA OutcomeTypes ==
  /\ NoOutcome \in Outcomes /\ Failed \in Outcomes /\ Cancelled \in Outcomes
  /\ TimedOut \in Outcomes /\ Orphaned \in Outcomes
  /\ \A c \in ExitCodes, S \in SUBSET Jobs : Completed(c, S) \in Outcomes
BY DEF NoOutcome, Failed, Cancelled, TimedOut, Orphaned, Completed, Outcome,
       Outcomes, Kinds, ExitCodes

(* The fixed records are records. *)
LEMMA RecordTypes ==
  /\ NewRecord \in Records /\ NoRecord \in Records
  /\ [NoRecord EXCEPT !.state = "Removed"] \in Records
  /\ CancelledRecord \in Records /\ Torn \in Records
BY OutcomeTypes DEF NewRecord, NoRecord, CancelledRecord, Torn, Records, States

(* What a cancel handler saves, and what a clash of two saves leaves. *)
LEMMA CancelledAndTorn ==
  /\ CancelledRecord.state = "Done" /\ CancelledRecord.outcome = Cancelled
  /\ Torn.state = "Torn" /\ Torn.outcome = NoOutcome
BY DEF NewRecord, CancelledRecord, Torn

(* A JobRecord stays one under the updates the machine makes to it. *)
LEMMA RecordUpdates ==
  ASSUME NEW r \in Records
  PROVE  /\ \A s \in States : [r EXCEPT !.state = s] \in Records
         /\ \A o \in Outcomes :
              [r EXCEPT !.child = FALSE, !.outcome = o] \in Records
         /\ \A S \in SUBSET Jobs :
              [r EXCEPT !.before = S, !.child = TRUE] \in Records
BY DEF Records, States

(* A transition changes the state field and no other. *)
LEMMA StateUpdate ==
  ASSUME NEW r \in Records, NEW s \in States
  PROVE  /\ [r EXCEPT !.state = s] \in Records
         /\ [r EXCEPT !.state = s].state = s
         /\ [r EXCEPT !.state = s].outcome = r.outcome
         /\ [r EXCEPT !.state = s].before = r.before
BY DEF Records, States

(* What store.save and the Done append leave behind is well-typed. *)
LEMMA DiskUpdates ==
  ASSUME rec \in [Jobs -> Records], dones \in [Jobs -> SUBSET Outcomes],
         NEW j \in Jobs, NEW r \in Records, NEW o \in Outcomes
  PROVE  /\ Saved(j, r) \in [Jobs -> Records]
         /\ Left(j, r) \subseteq [Jobs -> Records]
         /\ \A q \in Left(j, r) : q = Saved(j, r) \/ q = Saved(j, Torn)
         /\ DoneAppended(j, o) \in [Jobs -> SUBSET Outcomes]
<1>1. Saved(j, r) \in [Jobs -> Records] /\ Saved(j, Torn) \in [Jobs -> Records]
  BY RecordTypes DEF Saved
<1>4. \A q \in Left(j, r) : q = Saved(j, r) \/ q = Saved(j, Torn)
  BY DEF Left
<1>5. Left(j, r) \subseteq [Jobs -> Records]
  BY <1>1, <1>4
<1>3. DoneAppended(j, o) \in [Jobs -> SUBSET Outcomes]
  BY DEF DoneAppended
<1>. QED  BY <1>1, <1>3, <1>4, <1>5

(* What a cancel handler's save leaves of the store. *)
LEMMA CancelLeaves ==
  ASSUME NEW h \in Handlers, CancelSave(h)
  PROVE  \E r \in {CancelledRecord, Torn} : rec' = Saved(handler[h].job, r)
BY DEF CancelSave

(* Every cancel handler that is not idle has a job. *)
HandlerOK ==
  /\ handler \in [Handlers -> [at : {"idle", "append", "save"}, job : Jobs \cup {NoJob}]]
  /\ \A h \in Handlers : handler[h].at # "idle" => handler[h].job \in Jobs

(* A handler that moves on, or is through, still is one. *)
LEMMA HandlerMoves ==
  ASSUME HandlerOK, NEW h \in Handlers,
         \/ handler' = [handler EXCEPT ![h] = Idle]
         \/ handler' = [handler EXCEPT ![h].at = "save"] /\ handler[h].at # "idle"
  PROVE  HandlerOK'
<1>1. CASE handler' = [handler EXCEPT ![h] = Idle]
  BY <1>1, SMTT(60) DEF HandlerOK, Idle
<1>2. CASE handler' = [handler EXCEPT ![h].at = "save"] /\ handler[h].at # "idle"
  <2>1. handler[h].job \in Jobs
    BY <1>2 DEF HandlerOK
  <2>2. [handler[h] EXCEPT !.at = "save"] = [at |-> "save", job |-> handler[h].job]
    BY DEF HandlerOK
  <2>3. handler' = [handler EXCEPT ![h] = [at |-> "save", job |-> handler[h].job]]
    BY <1>2, <2>2
  <2>. QED  BY <2>1, <2>3, SMTT(60) DEF HandlerOK
<1>. QED  BY <1>1, <1>2

(* What is left when a handler's rename takes the worker's temp file: no   *)
(* end but the one journalled, and no Running but of a child just spawned. *)
LEMMA TakenLeaves ==
  ASSUME TypeOK, NEW h \in Handlers, SaveTaken(h)
  PROVE  /\ wjob \in Jobs
         /\ \E r \in Records :
              /\ rec' = Saved(wjob, r)
              /\ r.state \notin {"Queued", "Absent"}
              /\ r.outcome \in {Cancelled, NoOutcome, wrec.outcome}
              /\ r.state = "Running" => wpc = "spawned" /\ r.before = wrec.before
              /\ r.state = "Done" =>
                   r.outcome = Cancelled \/ (wpc = "saveDone" /\ r.outcome = wrec.outcome)
<1>. DEFINE s == NextState[wpc]
            w == [wrec EXCEPT !.state = s]
<1>1. /\ s \in States \ {"Queued"}
      /\ s = "Done" => wpc = "saveDone"
      /\ s = "Running" => wpc = "spawned"
  BY DEF SaveTaken, AboutToSave, NextState, States
<1>2. wrec \in Records /\ wjob \in Jobs
  BY DEF SaveTaken, Saving, TypeOK
<1>3. PICK r \in {CancelledRecord, w, Torn} : rec' = Saved(wjob, r)
  BY DEF SaveTaken
<1>. HIDE DEF s
<1>4. w \in Records /\ w.state = s /\ w.outcome = wrec.outcome /\ w.before = wrec.before
  BY <1>1, <1>2, StateUpdate
<1>. HIDE DEF w
<1>5. s \notin {"Queued", "Absent"}
  BY <1>1 DEF States
<1>6. CASE r = w
  BY <1>1, <1>2, <1>3, <1>4, <1>5, <1>6
<1>7. CASE r \in {CancelledRecord, Torn}
  BY <1>2, <1>3, <1>7, RecordTypes, CancelledAndTorn
<1>. QED  BY <1>3, <1>6, <1>7

-----------------------------------------------------------------------------
(* Type correctness *)

(* The agent starts well-typed. *)
LEMMA InitTypeOK == Init => TypeOK
<1>. SUFFICES ASSUME Init PROVE TypeOK
  OBVIOUS
<1>. USE ConstantsAssumption, OutcomeTypes, RecordTypes DEF Init
<1>1. /\ agent \in {"up", "crashed", "stopped"}
      /\ restarts \in 0..MaxRestarts /\ ioErrors \in 0..MaxIoErrors
      /\ server \in 0..MaxRestarts \cup {NoServer}
      /\ foreigns \in 0..MaxForeign
  OBVIOUS
<1>2. foreign \in BOOLEAN /\ recovering \in BOOLEAN
  OBVIOUS
<1>3. /\ rec \in [Jobs -> Records] /\ wrec \in Records /\ wend \in Outcomes
      /\ dones \in [Jobs -> SUBSET Outcomes]
  OBVIOUS
<1>4. /\ files \in SUBSET Jobs /\ todo \in SUBSET Jobs
      /\ child \in [Jobs -> {"none", "live", "dead"}]
      /\ cancelFlag \in [Jobs -> {"none", "clear", "set"}]
      /\ running \in Jobs \cup {NoJob}
  OBVIOUS
<1>5. exitCode \in [Jobs -> ExitCodes] /\ owner \in [Jobs -> 0..MaxRestarts]
  BY DEF NoCode, ExitCodes
<1>6. /\ wpc \in Pcs /\ wjob \in Jobs \cup {NoJob}
      /\ (wpc \in MachinePcs \cup {"probe"} => wjob \in Jobs)
  BY DEF Pcs, MachinePcs, ClearedPcs, ChildPcs
<1>7. /\ handler \in [Handlers -> [at : {"idle", "append", "save"},
                                  job : Jobs \cup {NoJob}]]
      /\ \A h \in Handlers : handler[h].at # "idle" => handler[h].job \in Jobs
  BY DEF Idle
<1>. QED  BY <1>1, <1>2, <1>3, <1>4, <1>5, <1>6, <1>7 DEF TypeOK

(* Every step of requests, worker, failures and box keeps the types. *)
LEMMA TypeOKStep == TypeOK /\ [Next]_vars => TypeOK'
<1>. SUFFICES ASSUME TypeOK, [Next]_vars
             PROVE  TypeOK'
  OBVIOUS
<1>. USE ConstantsAssumption, OutcomeTypes, RecordTypes
     DEF TypeOK, Pcs, MachinePcs, ClearedPcs, ChildPcs, diskVars, boxVars,
         hostVars, workVars, downVars
<1>1. ASSUME NEW j \in Jobs, Submit(j) PROVE TypeOK'
  BY SMTT(60), <1>1
     DEF Submit
<1>2. ASSUME NEW h \in Handlers, NEW j \in Jobs, CancelQueued(h, j) PROVE TypeOK'
  BY ZenonT(60), <1>2
     DEF CancelQueued
<1>3. ASSUME NEW h \in Handlers, NEW j \in Jobs, CancelStarted(h, j) PROVE TypeOK'
  BY SMTT(60), <1>3
     DEF CancelStarted
<1>4. ASSUME NEW h \in Handlers, CancelJournal(h) PROVE TypeOK'
  <2>1. dones' \in [Jobs -> SUBSET Outcomes]
    BY <1>4, DiskUpdates DEF CancelJournal
  <2>2. HandlerOK'
    BY <1>4, HandlerMoves DEF CancelJournal, HandlerOK
  <2>3. UNCHANGED <<rec, files, boxVars, hostVars, workVars, downVars>>
    BY <1>4 DEF CancelJournal
  <2>. QED  BY <2>1, <2>2, <2>3, SMTT(60) DEF HandlerOK
<1>5. ASSUME NEW h \in Handlers, CancelSave(h) PROVE TypeOK'
  <2>1. rec' \in [Jobs -> Records]
    <3>1. handler[h].job \in Jobs
      BY <1>5 DEF CancelSave
    <3>2. PICK r \in {CancelledRecord, Torn} : rec' = Saved(handler[h].job, r)
      BY <1>5, CancelLeaves
    <3>3. r \in Records
      BY RecordTypes
    <3>. QED  BY <3>1, <3>2, <3>3, DiskUpdates
  <2>2. HandlerOK'
    BY <1>5, HandlerMoves DEF CancelSave, HandlerOK
  <2>3. UNCHANGED <<dones, files, boxVars, hostVars, workVars, downVars>>
    BY <1>5 DEF CancelSave
  <2>. QED  BY <2>1, <2>2, <2>3, SMTT(60) DEF HandlerOK
<1>6. ASSUME NEW j \in Jobs, PickJob(j) PROVE TypeOK'
  BY <1>6
     DEF PickJob
<1>7. CASE ProbeBusy
  BY <1>7
     DEF ProbeBusy
<1>8. CASE ProbeFree
  BY <1>8
     DEF ProbeFree
<1>9. CASE Start
  BY <1>9, DiskUpdates, RecordUpdates
     DEF Start, Transition, States
<1>10. CASE PrepareFails
  BY <1>10, RecordUpdates
     DEF PrepareFails, BeginFinish
<1>11. CASE Prepared
  <2>. DEFINE r == [wrec EXCEPT !.state = "Building"]
  <2>1. r \in Records
    BY RecordUpdates DEF States
  <2>2. [wrec EXCEPT !.child = FALSE, !.outcome = Cancelled] \in Records
    BY RecordUpdates
  <2>3. Left(wjob, r) \subseteq [Jobs -> Records]
    BY <1>11, <2>1, DiskUpdates DEF Prepared
  <2>. HIDE DEF r
  <2>4. rec' \in [Jobs -> Records] /\ wrec' \in Records
    BY <1>11, <2>1, <2>2, <2>3 DEF Prepared, BeginFinish, Transition, r
  <2>5. wpc' \in {"journalDone", "building"}
    BY <1>11 DEF Prepared, BeginFinish
  <2>. QED
    BY <1>11, <2>4, <2>5 DEF Prepared
<1>12. CASE BuildFails
  <2>1. \A o \in {Failed, Cancelled} :
          [wrec EXCEPT !.child = FALSE, !.outcome = o] \in Records
    BY RecordUpdates
  <2>2. wrec' \in Records /\ wpc' = "journalDone"
    BY <1>12, <2>1 DEF BuildFails, BeginFinish
  <2>. QED
    BY <1>12, <2>2 DEF BuildFails
<1>13. CASE Built
  <2>1. rec' \in [Jobs -> Records]
    BY <1>13, DiskUpdates DEF Built
  <2>2. [wrec EXCEPT !.child = FALSE, !.outcome = Cancelled] \in Records
    BY RecordUpdates
  <2>3. wrec' \in Records
    BY <1>13, <2>2 DEF Built, BeginFinish
  <2>4. wpc' \in {"journalDone", "ready"}
    BY <1>13 DEF Built, BeginFinish
  <2>. QED
    BY <1>13, <2>1, <2>3, <2>4 DEF Built
<1>14. CASE NotSpawned
  BY <1>14, RecordUpdates
     DEF NotSpawned, BeginFinish
<1>15. CASE Spawn
  BY <1>15, RecordUpdates
     DEF Spawn, RecordState
<1>16. CASE MarkRunning
  BY <1>16, DiskUpdates, RecordUpdates
     DEF MarkRunning, Transition, States
<1>17. ASSUME NEW end \in {Cancelled, TimedOut}, WaitTerm(end) PROVE TypeOK'
  BY <1>17
     DEF WaitTerm
<1>18. CASE WaitKill
  BY <1>18
     DEF WaitKill, NoCode, ExitCodes
<1>19. CASE WaitKilled
  BY <1>19, RecordUpdates
     DEF WaitKilled, BeginFinish
<1>20. CASE WaitFails
  BY <1>20, RecordUpdates
     DEF WaitFails, BeginFinish
<1>21. CASE WaitExited
  BY <1>21, DiskUpdates, RecordUpdates
     DEF WaitExited, Transition, States, NoCode, ExitCodes
<1>22. CASE Collect
  BY <1>22, RecordUpdates
     DEF Collect, BeginFinish, CollectOutcome, NewRecords, Outcomes
<1>23. CASE CollectFails
  BY <1>23, RecordUpdates
     DEF CollectFails, BeginFinish
<1>24. CASE FinishJournal
  BY ZenonT(60), <1>24, DiskUpdates
     DEF FinishJournal, Records
<1>25. CASE FinishSave
  BY <1>25, DiskUpdates, RecordUpdates
     DEF FinishSave, LeaveMachine, States, NoJob
<1>26. ASSUME NEW gone \in SUBSET Jobs, Retain(gone) PROVE TypeOK'
  BY SMTT(60), <1>26
     DEF Retain
<1>27. CASE ReleaseIdleLease
  BY <1>27
     DEF ReleaseIdleLease
<1>28. ASSUME NEW j \in Jobs, RecoverResume(j) PROVE TypeOK'
  <2>1. rec[j] \in Records /\ [rec[j] EXCEPT !.child = FALSE, !.outcome = Orphaned] \in Records
    BY RecordUpdates
  <2>2. wrec' \in Records /\ wpc' \in {"wait", "journalDone"}
    BY <1>28, <2>1 DEF RecoverResume, BeginFinish
  <2>. QED
    BY <1>28, <2>2 DEF RecoverResume
<1>29. ASSUME NEW j \in Jobs, RecoverOrphan(j) PROVE TypeOK'
  BY <1>29, RecordUpdates
     DEF RecoverOrphan, BeginFinish
<1>30. CASE RecoverDone
  BY <1>30
     DEF RecoverDone
<1>31. CASE MachineFails
  BY SMTT(60), <1>31
     DEF MachineFails, CanFail, LeaveMachine, NoJob
<1>32. CASE OrphanFails
  <2>1. ioErrors' \in 0..MaxIoErrors
    BY <1>32 DEF OrphanFails, CanFail
  <2>2. recovering' \in BOOLEAN
    BY <1>32 DEF OrphanFails
  <2>. QED
    BY <1>32, <2>1, <2>2 DEF OrphanFails, NoJob
<1>33. ASSUME NEW j \in Jobs, ResumeFails(j) PROVE TypeOK'
  <2>1. ioErrors' \in 0..MaxIoErrors
    BY SMTT(60), <1>33 DEF ResumeFails, CanFail
  <2>2. recovering' \in BOOLEAN
    BY <1>33 DEF ResumeFails
  <2>. QED
    BY <1>33, <2>1, <2>2 DEF ResumeFails
<1>34. ASSUME NEW h \in Handlers, CancelWriteFails(h) PROVE TypeOK'
  <2>1. ioErrors' \in 0..MaxIoErrors
    BY SMTT(60), <1>34 DEF CancelWriteFails, CanFail
  <2>3. HandlerOK'
    BY <1>34, HandlerMoves DEF CancelWriteFails, HandlerOK
  <2>5. UNCHANGED <<agent, restarts, diskVars, boxVars, hostVars, workVars>>
    BY <1>34 DEF CancelWriteFails
  <2>. QED  BY <2>1, <2>3, <2>5, SMTT(60) DEF HandlerOK
<1>41. ASSUME NEW h \in Handlers, SaveTaken(h) PROVE TypeOK'
  <2>1. PICK r \in Records : rec' = Saved(wjob, r) /\ wjob \in Jobs
    BY <1>41, TakenLeaves
  <2>2. rec' \in [Jobs -> Records]
    BY <2>1, DiskUpdates
  <2>3. HandlerOK'
    BY <1>41, HandlerMoves DEF SaveTaken, HandlerOK
  <2>4. /\ UNCHANGED <<recovering, todo, dones, files, boxVars, downVars>>
        /\ running' = NoJob /\ wjob' = NoJob /\ wrec' = NoRecord /\ wend' = NoOutcome
        /\ cancelFlag' = [cancelFlag EXCEPT ![wjob] = "none"]
        /\ wpc' \in {"recover", "retain"}
    BY <1>41 DEF SaveTaken, LeaveMachine
  <2>5. /\ wjob' \in Jobs \cup {NoJob} /\ running' \in Jobs \cup {NoJob}
        /\ wrec' \in Records /\ wend' \in Outcomes /\ wpc' \in Pcs
        /\ wpc' \notin MachinePcs \cup {"probe"}
        /\ cancelFlag' \in [Jobs -> {"none", "clear", "set"}]
    BY <2>1, <2>4
  <2>. QED  BY <2>2, <2>3, <2>4, <2>5, ZenonT(60) DEF HandlerOK
<1>35. ASSUME NEW how \in {"crashed", "stopped"}, NEW kills \in BOOLEAN, GoDown(how, kills) PROVE TypeOK'
  <2>0. restarts' = restarts + 1 /\ restarts < MaxRestarts
    BY <1>35 DEF GoDown
  <2>1. restarts' \in 0..MaxRestarts
    BY SMTT(60), <2>0
  <2>2. server' \in {NoServer, server}
    BY <1>35 DEF GoDown
  <2>3. child' \in [Jobs -> {"none", "live", "dead"}]
    BY <1>35 DEF GoDown
  <2>4. recovering' \in BOOLEAN
    BY <1>35 DEF GoDown
  <2>5. /\ handler' \in [Handlers -> [at : {"idle", "append", "save"}, job : Jobs \cup {NoJob}]]
        /\ \A g \in Handlers : handler'[g].at # "idle" => handler'[g].job \in Jobs
    BY <1>35 DEF GoDown, Idle
  <2>. QED
    BY <1>35, <2>1, <2>2, <2>3, <2>4, <2>5 DEF GoDown, NoJob
<1>36. CASE Restart
  BY <1>36
     DEF Restart, JobsIn
<1>37. ASSUME NEW j \in Jobs, NEW code \in {0, 1}, NEW wrote \in BOOLEAN, NEW leased \in BOOLEAN, ChildExits(j, code, wrote, leased) PROVE TypeOK'
  <2>1. exitCode' \in [Jobs -> ExitCodes]
    BY <1>37 DEF ChildExits, ExitCodes
  <2>2. server' \in 0..MaxRestarts \cup {NoServer}
    BY <1>37 DEF ChildExits
  <2>3. files' \in SUBSET Jobs
    BY <1>37 DEF ChildExits
  <2>. QED
    BY ZenonT(60), <1>37, <2>1, <2>2, <2>3 DEF ChildExits
<1>38. CASE ForeignArrives
  <2>1. foreigns' \in 0..MaxForeign
    BY SMTT(60), <1>38 DEF ForeignArrives
  <2>2. foreign' \in BOOLEAN
    BY <1>38 DEF ForeignArrives
  <2>. QED
    BY ZenonT(60), <1>38, <2>1, <2>2 DEF ForeignArrives
<1>39. CASE ForeignLeaves
  BY ZenonT(60), <1>39
     DEF ForeignLeaves
<1>40. CASE UNCHANGED vars
  BY SMTT(60), <1>40 DEF vars
<1>. QED
  BY ZenonT(60), <1>1, <1>2, <1>3, <1>4, <1>5, <1>6, <1>7, <1>8, <1>9, <1>10, <1>11, <1>12,
     <1>13, <1>14, <1>15, <1>16, <1>17, <1>18, <1>19, <1>20, <1>21, <1>22, <1>23, <1>24,
     <1>25, <1>26, <1>27, <1>28, <1>29, <1>30, <1>31, <1>32, <1>33, <1>34, <1>35, <1>36,
     <1>37, <1>38, <1>39, <1>40, <1>41
  DEF Next, Requests, Worker, Machine, Failures, Box, ChildEnds

(* Every reachable state of the bench node is well-typed: in particular    *)
(* the worker always has a job while it is inside the machine.             *)
THEOREM TypeCorrect == Spec => []TypeOK
<1>1. Init => TypeOK  BY InitTypeOK
<1>2. TypeOK /\ [Next]_vars => TypeOK'  BY TypeOKStep
<1>. QED  BY <1>1, <1>2, PTL DEF Spec

-----------------------------------------------------------------------------
(* One gate per box *)

NoGate == \A j \in Jobs : ~Live(j)

(* OneOwnGate is not inductive: a spawn adds a child, so the probe's       *)
(* finding that no gate is live must still hold when the worker spawns.    *)
(* It does because only the worker spawns, and it is one thread: from a    *)
(* free probe to the spawn no gate is live, and from the spawn to the end  *)
(* of the wait only the worker's own job may have one.                     *)
GateInv ==
  /\ OneOwnGate
  /\ wpc \in ClearedPcs \cup {"collect"} => NoGate
  /\ wpc \in ChildPcs => \A j \in Jobs : Live(j) => j = wjob

(* Every record the worker is about to collect, or would collect after a   *)
(* restart, that the snapshot does not name was written by the job itself. *)
RecordInv ==
  /\ wpc \in ChildPcs \cup {"collect"} => files \ wrec.before \subseteq {wjob}
  /\ \A j \in Jobs : rec[j].state = "Running" /\ Live(j) =>
       files \ rec[j].before \subseteq {j}
  /\ wpc \in ClearedPcs \cup {"probe", "spawned"} => rec[wjob].state # "Running"
  /\ wpc = "building" => wrec.state = "Building"
  /\ wend.recs = {}
  /\ wrec.outcome.kind = "Completed" => wrec.outcome.recs \subseteq {wjob}
  /\ CreditIsOwn

(* Every step keeps at most one gate child live, and the worker cleared to *)
(* spawn only while there is none.                                         *)
LEMMA GateInvStep == TypeOK /\ GateInv /\ [Next]_vars => GateInv'
<1>. SUFFICES ASSUME TypeOK, GateInv, [Next]_vars
             PROVE  GateInv'
  OBVIOUS
<1>. USE DEF GateInv, OneOwnGate, NoGate, Live, ClearedPcs, ChildPcs
<1>1. CASE UNCHANGED <<child, wpc, wjob>>
  BY <1>1
<1>2. CASE UNCHANGED child /\ wpc' \notin ClearedPcs \cup ChildPcs \cup {"collect"}
  BY <1>2
<1>3. CASE Start \/ Prepared \/ Built
  BY <1>3 DEF Start, Prepared, Built, BeginFinish, boxVars
<1>4. CASE ProbeFree
  BY <1>4 DEF ProbeFree, Busy, boxVars
<1>5. CASE Spawn
  BY <1>5 DEF Spawn, TypeOK, MachinePcs
<1>6. CASE MarkRunning
  BY <1>6 DEF MarkRunning, boxVars
<1>7. CASE WaitKill
  BY <1>7 DEF WaitKill, workVars, TypeOK, MachinePcs
<1>8. CASE WaitExited
  BY <1>8 DEF WaitExited, boxVars
<1>9. ASSUME NEW j \in Jobs, RecoverResume(j) PROVE GateInv'
  BY <1>9 DEF RecoverResume, BeginFinish, boxVars
<1>10. ASSUME NEW how, NEW kills \in BOOLEAN, GoDown(how, kills) PROVE GateInv'
  <2>1. \A j \in Jobs : child'[j] = "live" => child[j] = "live"
    BY <1>10 DEF GoDown
  <2>2. wpc' = "down"
    BY <1>10 DEF GoDown
  <2>. QED  BY <2>1, <2>2
<1>11. ASSUME NEW j \in Jobs, NEW code, NEW wrote, NEW leased,
              ChildExits(j, code, wrote, leased)
       PROVE  GateInv'
  <2>1. \A k \in Jobs : child'[k] = "live" => child[k] = "live"
    BY <1>11 DEF ChildExits, TypeOK
  <2>2. UNCHANGED <<wpc, wjob>>
    BY <1>11 DEF ChildExits, workVars
  <2>. QED  BY <2>1, <2>2
<1>12. CASE Requests
  BY <1>1, <1>12
  DEF Requests, Submit, CancelQueued, CancelStarted, CancelJournal, CancelSave,
      boxVars, workVars
<1>13. CASE Machine
  <2>1. CASE \/ PrepareFails \/ BuildFails \/ NotSpawned \/ WaitKilled \/ WaitFails
             \/ Collect \/ CollectFails \/ FinishJournal \/ FinishSave
    BY <1>2, <2>1
    DEF PrepareFails, BuildFails, NotSpawned, WaitKilled, WaitFails, Collect,
        CollectFails, FinishJournal, FinishSave, LeaveMachine, BeginFinish, boxVars
  <2>2. CASE \E end \in {Cancelled, TimedOut} : WaitTerm(end)
    BY <1>1, <2>2 DEF WaitTerm, boxVars
  <2>. QED
    BY <1>3, <1>5, <1>6, <1>7, <1>8, <1>13, <2>1, <2>2 DEF Machine
<1>14. CASE Worker
  <2>1. CASE \E j \in Jobs : PickJob(j) \/ RecoverOrphan(j)
    BY <1>2, <2>1 DEF PickJob, RecoverOrphan, BeginFinish, boxVars
  <2>2. CASE ProbeBusy \/ RecoverDone \/ \E gone \in SUBSET Jobs : Retain(gone)
    BY <1>2, <2>2 DEF ProbeBusy, RecoverDone, Retain, boxVars
  <2>3. CASE ReleaseIdleLease
    BY <1>1, <2>3 DEF ReleaseIdleLease, workVars
  <2>. QED
    BY <1>4, <1>9, <1>13, <1>14, <2>1, <2>2, <2>3 DEF Worker
<1>15. CASE Failures
  <2>1. CASE \/ MachineFails \/ OrphanFails \/ \E j \in Jobs : ResumeFails(j)
             \/ \E h \in Handlers : SaveTaken(h)
    BY <1>2, <2>1
    DEF MachineFails, OrphanFails, ResumeFails, SaveTaken, LeaveMachine, boxVars
  <2>2. CASE \E h \in Handlers : CancelWriteFails(h)
    BY <1>1, <2>2 DEF CancelWriteFails, boxVars, workVars
  <2>3. CASE Restart
    BY <1>2, <2>3 DEF Restart, boxVars
  <2>. QED
    BY <1>10, <1>15, <2>1, <2>2, <2>3 DEF Failures
<1>16. CASE Box
  BY <1>1, <1>11, <1>16
  DEF Box, ChildEnds, ForeignArrives, ForeignLeaves, workVars
<1>17. CASE UNCHANGED vars
  BY <1>1, <1>17 DEF vars, boxVars, workVars
<1>. QED
  BY <1>12, <1>14, <1>15, <1>16, <1>17 DEF Next

(* At most one gate child of this agent's is ever live (exclusive.rs,      *)
(* runner.rs), for any number of jobs, crashes and failed writes.          *)
THEOREM OneGatePerBox == Spec => []OneOwnGate
<1>1. Init => GateInv
  BY DEF Init, GateInv, OneOwnGate, Live, ClearedPcs, ChildPcs
<1>2. TypeOK /\ GateInv /\ [Next]_vars => GateInv'
  BY GateInvStep
<1>3. GateInv => OneOwnGate
  BY DEF GateInv
<1>. QED  BY <1>1, <1>2, <1>3, TypeCorrect, PTL DEF Spec

-----------------------------------------------------------------------------
(* A job's records are its own *)

(* The step keeps what collection looks at for every job that is live. *)
LEMMA RecordInvStep == TypeOK /\ GateInv /\ RecordInv /\ [Next]_vars => RecordInv'
<1>. SUFFICES ASSUME TypeOK, GateInv, RecordInv, [Next]_vars
             PROVE  RecordInv'
  OBVIOUS
<1>. USE DEF RecordInv, CreditIsOwn, Live, ClearedPcs, ChildPcs
<1>t. /\ rec \in [Jobs -> Records] /\ wrec \in Records /\ files \in SUBSET Jobs
      /\ wpc \in MachinePcs \cup {"probe"} => wjob \in Jobs
      /\ child \in [Jobs -> {"none", "live", "dead"}] /\ wend \in Outcomes
  BY DEF TypeOK
<1>1. CASE UNCHANGED <<rec, files, child, wpc, wjob, wrec, wend>>
  BY <1>1
(* A request: a record becomes Queued or Done without a Completed outcome. *)
<1>2. ASSUME NEW j \in Jobs, NEW r \in Records,
             rec' = [rec EXCEPT ![j] = r] \/ rec' = rec,
             r.state # "Running", r.outcome.kind # "Completed",
             UNCHANGED <<files, child, wpc, wjob, wrec, wend>>
      PROVE  RecordInv'
  BY <1>2, <1>t DEF MachinePcs
(* finish() entered with an outcome that credits no other job's record. *)
<1>3. ASSUME NEW r \in Records, NEW o \in Outcomes, BeginFinish(r, o),
             o.kind = "Completed" => o.recs \subseteq {wjob'},
             UNCHANGED <<rec, files, child, wend>>
      PROVE  RecordInv'
  BY <1>3, <1>t DEF BeginFinish, Records
<1>4. /\ Failed.kind # "Completed" /\ Cancelled.kind # "Completed"
      /\ TimedOut.kind # "Completed" /\ Orphaned.kind # "Completed"
      /\ Cancelled.recs = {} /\ TimedOut.recs = {}
      /\ NoOutcome.recs = {} /\ NoOutcome.kind # "Completed"
  BY DEF Failed, Cancelled, TimedOut, Orphaned, NoOutcome, Outcome
<1>5. NoRecord.outcome.kind # "Completed" /\ NewRecord.outcome.kind # "Completed"
  BY <1>4 DEF NoRecord, NewRecord
(* The worker lets go of its job. *)
<1>6. ASSUME wpc' \in {"loop", "recover", "retain", "down"}, wrec' = NoRecord,
             wend' \in {wend, NoOutcome}, UNCHANGED <<rec, files>>,
             \A j \in Jobs : child'[j] = "live" => child[j] = "live"
      PROVE  RecordInv'
  BY <1>6, <1>4, <1>5, <1>t
<1>7. ASSUME NEW j \in Jobs, Submit(j) PROVE RecordInv'
  BY <1>2, <1>5, <1>7, RecordTypes
  DEF Submit, NewRecord, boxVars, workVars
<1>8. ASSUME NEW h \in Handlers, CancelSave(h) PROVE RecordInv'
  <2>2. handler[h].job \in Jobs
    BY <1>8 DEF TypeOK, CancelSave
  <2>3. PICK r \in {CancelledRecord, Torn} : rec' = Saved(handler[h].job, r)
    BY <1>8, CancelLeaves
  <2>1. /\ r \in Records /\ r.state # "Running" /\ r.outcome.kind # "Completed"
    BY <1>4, RecordTypes, CancelledAndTorn
  <2>4. rec' = [rec EXCEPT ![handler[h].job] = r] \/ rec' = rec
    BY <2>3 DEF Saved
  <2>5. UNCHANGED <<files, child, wpc, wjob, wrec, wend>>
    BY <1>8 DEF CancelSave, boxVars, workVars
  <2>. QED  BY <1>2, <2>1, <2>2, <2>4, <2>5
<1>9. ASSUME NEW j \in Jobs, PickJob(j) PROVE RecordInv'
  BY <1>9, <1>t DEF PickJob, IsNextJob, diskVars, boxVars
<1>10. CASE ProbeBusy
  BY <1>6, <1>10 DEF ProbeBusy, diskVars, boxVars
<1>11. CASE ProbeFree
  BY <1>11, <1>t DEF ProbeFree, diskVars, boxVars
(* The worker saves its record in a state other than Running. *)
<1>12. ASSUME NEW r \in Records, r.state # "Running", wjob \in Jobs,
              r.outcome.kind = "Completed" => r.outcome.recs \subseteq {wjob},
              rec' \in Left(wjob, r), wjob' = wjob, UNCHANGED <<files, child>>
       PROVE  /\ CreditIsOwn'
              /\ rec'[wjob].state # "Running" \/ rec' = rec
              /\ \A j \in Jobs : rec'[j].state = "Running" /\ child'[j] = "live" =>
                   files' \ rec'[j].before \subseteq {j}
  <2>1. PICK q \in {r, Torn} : rec' = Saved(wjob, q)
    BY <1>12 DEF Left
  <2>2. /\ q \in Records /\ q.state # "Running"
        /\ q.outcome.kind = "Completed" => q.outcome.recs \subseteq {wjob}
    BY <1>4, <1>12, RecordTypes, CancelledAndTorn
  <2>. QED  BY <1>12, <1>t, <2>1, <2>2 DEF Saved
<1>13. CASE Start
  <2>. DEFINE r == [wrec EXCEPT !.state = "Preparing"]
  <2>1. r \in Records /\ r.state = "Preparing" /\ r.outcome = wrec.outcome
    BY <1>t, StateUpdate DEF States
  <2>. HIDE DEF r
  <2>2. /\ wrec' = r /\ rec' \in Left(wjob, r) /\ wpc' = "preparing" /\ wjob \in Jobs
        /\ UNCHANGED <<files, child, wjob, wend>>
    BY <1>13, <1>t DEF Start, Transition, boxVars, r, MachinePcs
  <2>3. rec'[wjob].state # "Running"
    BY <1>13, <1>t, <2>1, <2>2, CancelledAndTorn DEF Start, Left, Saved
  <2>. QED  BY <1>12, <2>1, <2>2, <2>3
<1>14. CASE Prepared
  <2>1. CASE cancelFlag[wjob] = "set"
    BY <1>3, <1>4, <1>14, <1>t, <2>1, OutcomeTypes DEF Prepared, boxVars
  <2>2. CASE cancelFlag[wjob] # "set"
    <3>. DEFINE r == [wrec EXCEPT !.state = "Building"]
    <3>1. r \in Records /\ r.state = "Building" /\ r.outcome = wrec.outcome
      BY <1>t, StateUpdate DEF States
    <3>. HIDE DEF r
    <3>2. /\ wrec' = r /\ rec' \in Left(wjob, r) /\ wpc' = "building" /\ wjob \in Jobs
          /\ UNCHANGED <<files, child, wjob, wend>>
      BY <1>14, <1>t, <2>2 DEF Prepared, Transition, boxVars, r, MachinePcs
    <3>3. rec'[wjob].state # "Running"
      BY <1>14, <1>t, <3>1, <3>2, CancelledAndTorn DEF Prepared, Left, Saved
    <3>. QED  BY <1>12, <3>1, <3>2, <3>3
  <2>. QED  BY <2>1, <2>2
<1>15. CASE Built
  <2>1. /\ rec' \in Left(wjob, wrec) /\ wjob \in Jobs /\ wrec.state = "Building"
        /\ UNCHANGED <<files, child, wjob, wend>>
    BY <1>15, <1>t DEF Built, boxVars, MachinePcs
  <2>2. rec'[wjob].state # "Running"
    BY <1>15, <1>t, <2>1, CancelledAndTorn DEF Built, Left, Saved
  <2>3. \/ wpc' = "ready" /\ wrec' = wrec
        \/ wpc' = "journalDone" /\ wrec'.outcome = Cancelled
    BY <1>15, <1>t DEF Built, BeginFinish, Records
  <2>. QED  BY <1>4, <1>12, <1>t, <2>1, <2>2, <2>3
<1>16. CASE Spawn
  <2>1. /\ wjob \in Jobs /\ wpc' = "spawned" /\ UNCHANGED <<rec, files, wjob, wend>>
        /\ wrec'.before = files /\ wrec'.outcome = wrec.outcome
    BY <1>16, <1>t DEF Spawn, RecordState, diskVars, MachinePcs, Records
  <2>2. \A j \in Jobs : child'[j] = "live" => j = wjob
    BY <1>16, <1>t DEF Spawn, GateInv, NoGate
  <2>3. rec[wjob].state # "Running"
    BY <1>16 DEF Spawn
  <2>. QED  BY <1>t, <2>1, <2>2, <2>3
<1>17. CASE MarkRunning
  <2>. DEFINE r == [wrec EXCEPT !.state = "Running"]
  <2>1. r \in Records /\ r.outcome = wrec.outcome /\ r.before = wrec.before
    BY <1>t, StateUpdate DEF States
  <2>. HIDE DEF r
  <2>2. /\ wrec' = r /\ rec' \in Left(wjob, r) /\ wpc' = "wait" /\ wjob \in Jobs
        /\ UNCHANGED <<files, child, wjob, wend>> /\ files \ wrec.before \subseteq {wjob}
    BY <1>17, <1>t DEF MarkRunning, Transition, boxVars, r, MachinePcs
  <2>. QED  BY <1>4, <1>t, <2>1, <2>2, CancelledAndTorn DEF Left, Saved
<1>18. ASSUME NEW end \in {Cancelled, TimedOut}, WaitTerm(end) PROVE RecordInv'
  BY <1>4, <1>18, <1>t DEF WaitTerm, diskVars, boxVars
<1>19. CASE WaitKill
  <2>1. \A j \in Jobs : child'[j] = "live" => child[j] = "live"
    BY <1>19, <1>t DEF WaitKill, MachinePcs
  <2>. QED  BY <1>19, <1>t, <2>1 DEF WaitKill, diskVars, workVars
<1>20. CASE WaitExited
  <2>. DEFINE r == [wrec EXCEPT !.state = "Collecting"]
  <2>1. /\ r \in Records /\ r.state = "Collecting" /\ r.outcome = wrec.outcome
        /\ r.before = wrec.before
    BY <1>t, StateUpdate DEF States
  <2>. HIDE DEF r
  <2>2. /\ wrec' = r /\ rec' \in Left(wjob, r) /\ wpc' = "collect" /\ wjob \in Jobs
        /\ UNCHANGED <<files, child, wjob>> /\ files \ wrec.before \subseteq {wjob}
    BY <1>20, <1>t DEF WaitExited, Transition, boxVars, r, MachinePcs
  <2>3. wend'.recs = {}
    BY <1>20 DEF WaitExited, Completed
  <2>. QED  BY <1>12, <2>1, <2>2, <2>3
<1>21. CASE Collect
  <2>. DEFINE o == CollectOutcome(NewRecords(wrec.before))
  <2>1. o \in Outcomes /\ (o.kind = "Completed" => o.recs \subseteq {wjob})
    BY <1>4, <1>21, <1>t, OutcomeTypes DEF Collect, CollectOutcome, NewRecords, Outcomes
  <2>. HIDE DEF o
  <2>2. BeginFinish(wrec, o) /\ UNCHANGED <<rec, files, child, wend, wjob>>
    BY <1>21 DEF Collect, o, diskVars, boxVars
  <2>. QED  BY <1>3, <1>t, <2>1, <2>2
<1>22. CASE PrepareFails \/ BuildFails \/ NotSpawned \/ WaitFails \/ CollectFails
  <2>1. \E o \in {Failed, Cancelled} : BeginFinish(wrec, o)
    BY <1>22 DEF PrepareFails, BuildFails, NotSpawned, WaitFails, CollectFails
  <2>2. UNCHANGED <<rec, files, child, wend>>
    BY <1>22 DEF PrepareFails, BuildFails, NotSpawned, WaitFails, CollectFails,
                 diskVars, boxVars
  <2>. QED  BY <1>3, <1>4, <1>t, <2>1, <2>2, OutcomeTypes
<1>23. CASE WaitKilled
  BY <1>3, <1>23, <1>t DEF WaitKilled, diskVars, boxVars
<1>24. CASE FinishJournal
  BY <1>24 DEF FinishJournal, boxVars
<1>25. CASE FinishSave
  <2>. DEFINE r == [wrec EXCEPT !.state = "Done"]
  <2>1. r \in Records /\ r.state = "Done" /\ r.outcome = wrec.outcome
    BY <1>t, StateUpdate DEF States
  <2>. HIDE DEF r
  <2>2. /\ rec' \in Left(wjob, r) /\ wjob \in Jobs /\ wrec' = NoRecord /\ wend' = NoOutcome
        /\ wpc' \in {"recover", "retain"} /\ UNCHANGED <<files, child>>
    BY <1>25, <1>t DEF FinishSave, LeaveMachine, boxVars, r, MachinePcs
  <2>. QED  BY <1>4, <1>5, <1>t, <2>1, <2>2, CancelledAndTorn DEF Left, Saved
<1>26. ASSUME NEW gone \in SUBSET Jobs, Retain(gone) PROVE RecordInv'
  <2>1. \A j \in Jobs : \/ rec'[j] = rec[j]
                        \/ /\ rec'[j].state = "Removed"
                           /\ rec'[j].outcome.kind # "Completed"
    BY <1>4, <1>26 DEF Retain, NoRecord, NewRecord
  <2>2. wpc' = "loop" /\ UNCHANGED <<files, child, wjob, wrec, wend>>
    BY <1>26 DEF Retain, boxVars
  <2>. QED  BY <1>t, <2>1, <2>2
<1>27. CASE ReleaseIdleLease
  BY <1>1, <1>27 DEF ReleaseIdleLease, diskVars, workVars
<1>28. ASSUME NEW j \in Jobs, RecoverResume(j) PROVE RecordInv'
  <2>1. CASE wrec' = rec[j] /\ wpc' = "wait"
    BY <1>28, <2>1, <1>t DEF RecoverResume, diskVars, boxVars
  <2>2. CASE BeginFinish(rec[j], Orphaned)
    BY <1>3, <1>4, <1>28, <2>2, <1>t, OutcomeTypes DEF RecoverResume, diskVars, boxVars
  <2>. QED
    BY <1>28, <2>1, <2>2 DEF RecoverResume
<1>29. ASSUME NEW j \in Jobs, RecoverOrphan(j) PROVE RecordInv'
  BY <1>3, <1>4, <1>29, <1>t, OutcomeTypes DEF RecoverOrphan, diskVars, boxVars
<1>30. CASE RecoverDone
  BY <1>30 DEF RecoverDone, diskVars, boxVars
<1>31. CASE MachineFails \/ OrphanFails
  BY <1>6, <1>31 DEF MachineFails, OrphanFails, LeaveMachine, diskVars, boxVars
<1>32. ASSUME NEW j \in Jobs, ResumeFails(j) PROVE RecordInv'
  BY <1>32 DEF ResumeFails, diskVars, boxVars
<1>33. ASSUME NEW how, NEW kills \in BOOLEAN, GoDown(how, kills) PROVE RecordInv'
  <2>1. \A j \in Jobs : child'[j] = "live" => child[j] = "live"
    BY <1>33, <1>t DEF GoDown
  <2>2. /\ wpc' = "down" /\ wrec' = NoRecord /\ wend' = NoOutcome
        /\ UNCHANGED <<rec, files>>
    BY <1>33 DEF GoDown, diskVars
  <2>. QED  BY <1>6, <2>1, <2>2
<1>41. ASSUME NEW h \in Handlers, SaveTaken(h) PROVE RecordInv'
  <2>1. PICK r \in Records :
          /\ rec' = Saved(wjob, r) /\ wjob \in Jobs
          /\ r.outcome \in {Cancelled, NoOutcome, wrec.outcome}
          /\ r.state = "Running" => wpc = "spawned" /\ r.before = wrec.before
    BY <1>41, TakenLeaves
  <2>2. r.outcome.kind = "Completed" => r.outcome.recs \subseteq {wjob}
    BY <1>4, <2>1
  <2>3. /\ wrec' = NoRecord /\ wend' = NoOutcome
        /\ wpc' \in {"recover", "retain"} /\ UNCHANGED <<files, child>>
    BY <1>41 DEF SaveTaken, LeaveMachine, boxVars
  <2>. QED  BY <1>4, <1>5, <1>t, <2>1, <2>2, <2>3 DEF Saved
<1>34. CASE Restart
  BY <1>34 DEF Restart, diskVars, boxVars
<1>35. ASSUME NEW j \in Jobs, NEW code, NEW wrote, NEW leased,
              ChildExits(j, code, wrote, leased)
       PROVE  RecordInv'
  <2>1. \A k \in Jobs : child'[k] = "live" => child[k] = "live" /\ k # j
    BY <1>35, <1>t DEF ChildExits
  <2>2. files' \subseteq files \cup {j} /\ child[j] = "live"
    BY <1>35 DEF ChildExits
  <2>3. UNCHANGED <<rec, wpc, wjob, wrec, wend>>
    BY <1>35 DEF ChildExits, workVars
  <2>4. \A k \in Jobs : child'[k] # "live"
    BY <2>1, <2>2 DEF GateInv, OneOwnGate
  <2>5. wpc # "collect" /\ (wpc \in ChildPcs => j = wjob)
    BY <2>2 DEF GateInv, NoGate
  <2>. QED  BY <1>t, <2>2, <2>3, <2>4, <2>5
<1>36. CASE Requests
  BY <1>1, <1>7, <1>8, <1>36
  DEF Requests, CancelQueued, CancelStarted, CancelJournal, diskVars, boxVars, workVars
<1>37. CASE Worker
  BY <1>9, <1>10, <1>11, <1>13, <1>14, <1>15, <1>16, <1>17, <1>18, <1>19, <1>20, <1>21,
     <1>22, <1>23, <1>24, <1>25, <1>26, <1>27, <1>28, <1>29, <1>30, <1>37
  DEF Worker, Machine
<1>38. CASE Failures
  BY <1>1, <1>31, <1>32, <1>33, <1>34, <1>38, <1>41
  DEF Failures, CancelWriteFails, diskVars, boxVars, workVars
<1>39. CASE Box
  BY <1>1, <1>35, <1>39
  DEF Box, ChildEnds, ForeignArrives, ForeignLeaves, diskVars, workVars
<1>40. CASE UNCHANGED vars
  BY <1>1, <1>40 DEF vars, diskVars, boxVars, workVars
<1>. QED
  BY <1>36, <1>37, <1>38, <1>39, <1>40 DEF Next

(* A job is credited only with records its own child wrote (records.rs),   *)
(* whatever jobs ran before it in the same worktree, and across restarts.  *)
THEOREM RecordsBelongToTheirJob == Spec => []RecordsAreOwn
<1>1. Init => GateInv /\ RecordInv
  BY DEF Init, GateInv, OneOwnGate, RecordInv, CreditIsOwn, Live, ClearedPcs, ChildPcs,
         NoRecord, NewRecord, NoOutcome, Outcome
<1>2. TypeOK /\ GateInv /\ RecordInv /\ [Next]_vars => GateInv' /\ RecordInv'
  BY GateInvStep, RecordInvStep
<1>3. TypeOK /\ RecordInv => RecordsAreOwn
  BY DEF RecordInv, RecordsAreOwn
<1>. QED  BY <1>1, <1>2, <1>3, TypeCorrect, PTL DEF Spec

-----------------------------------------------------------------------------
(* A gate is started once, and an end that was told is an end *)

(* Neither property is inductive.  A job whose gate has been started must  *)
(* never be taken from the queue again, and what the worker holds after    *)
(* the queue must not have been started yet, although its record on disk   *)
(* may by then say Done (a cancel that was saved late) or be gone.  An     *)
(* outcome that promises an end names a child that was started and is      *)
(* dead, so that neither a late spawn nor a resumed wait can revive it.    *)
Waiting == {"Absent", "Queued"}
Ended == {"Completed", "TimedOut"}

RunInv ==
  /\ \A j \in Jobs : rec[j].state \in Waiting => child[j] = "none"
  /\ wpc \in ClearedPcs \cup {"probe"} => child[wjob] = "none" /\ rec[wjob].state # "Absent"
  /\ wpc \in MachinePcs \ {"exec"} => rec[wjob].state \notin Waiting
  /\ wpc \in ChildPcs \cup {"collect"} => child[wjob] # "none"
  /\ \A j \in todo : rec[j].state \notin Waiting
  /\ \A j \in Jobs : rec[j].outcome.kind \in Ended => child[j] = "dead"
  /\ wrec.outcome.kind \in Ended => wjob \in Jobs /\ child[wjob] = "dead"

(* A half-done record has somebody who will finish it: the worker, inside  *)
(* the machine, or the recovery pass, which has it on its list; or a       *)
(* Cancel clashed with the worker over it, and the journal says so, as it  *)
(* does for every record that no one can read.  And who is about to save a *)
(* Done has journalled it, unless the job is gone.                         *)
HalfDone == {"Preparing", "Building", "Running", "Collecting"}

SettledInv ==
  /\ ~recovering => todo = {}
  /\ wpc \in ClearedPcs \cup {"probe", "loop", "retain"} => ~recovering
  /\ ioErrors = 0 =>
       /\ \A j \in Jobs : rec[j].state \in HalfDone =>
            \/ wpc = "down" \/ j \in todo \/ (wpc \in MachinePcs /\ j = wjob)
            \/ Cancelled \in dones[j]
       /\ \A j \in Jobs : rec[j].state = "Torn" => Cancelled \in dones[j]
       /\ DoneIsJournaled
       /\ wpc = "saveDone" => wrec.outcome \in dones[wjob] \/ rec[wjob].state = "Removed"
       /\ \A h \in Handlers : handler[h].at = "save" =>
            Cancelled \in dones[handler[h].job] \/ rec[handler[h].job].state = "Removed"

LEMMA RunInvStep ==
  TypeOK /\ GateInv /\ RecordInv /\ RunInv /\ [Next]_vars => RunInv'
<1>. SUFFICES ASSUME TypeOK, GateInv, RecordInv, RunInv, [Next]_vars
             PROVE  RunInv'
  OBVIOUS
<1>. USE DEF RunInv, Live, ClearedPcs, ChildPcs, Waiting, Ended
<1>t. /\ rec \in [Jobs -> Records] /\ wrec \in Records /\ todo \in SUBSET Jobs
      /\ wpc \in MachinePcs \cup {"probe"} => wjob \in Jobs
      /\ child \in [Jobs -> {"none", "live", "dead"}]
  BY DEF TypeOK
<1>k. /\ \A o \in {Failed, Cancelled, Orphaned, NoOutcome} : o.kind \notin Ended
      /\ NoRecord.outcome.kind \notin Ended /\ NewRecord.outcome.kind \notin Ended
  BY DEF Failed, Cancelled, Orphaned, NoOutcome, Outcome, NoRecord, NewRecord
<1>1. CASE UNCHANGED <<rec, child, wpc, wjob, wrec, todo>>
  BY <1>1
(* A record on disk becomes one that says Done, and the worker sits still. *)
<1>2. ASSUME NEW j \in Jobs, NEW r \in Records,
             rec' = [rec EXCEPT ![j] = r] \/ rec' = rec,
             r.state \notin Waiting, r.outcome.kind \notin Ended,
             UNCHANGED <<child, wpc, wjob, wrec, todo>>
      PROVE  RunInv'
  BY <1>2, <1>t DEF MachinePcs
(* finish() entered: an outcome that promises an end names a dead child. *)
<1>3. ASSUME NEW r \in Records, NEW o \in Outcomes, BeginFinish(r, o),
             wjob' \in Jobs, rec[wjob'].state \notin Waiting,
             o.kind \in Ended => child[wjob'] = "dead",
             UNCHANGED <<rec, child>>, todo' \subseteq todo
      PROVE  RunInv'
  <2>1. wpc' = "journalDone" /\ wrec'.outcome = o
    BY <1>3 DEF BeginFinish, Records
  <2>. QED  BY <1>3, <1>t, <2>1 DEF MachinePcs
(* The worker lets go of its job. *)
<1>4. ASSUME wpc' \in {"loop", "recover", "retain", "down"}, wrec' = NoRecord,
             UNCHANGED rec, todo' \subseteq todo,
             \A j \in Jobs : child'[j] = child[j] \/ (Live(j) /\ child'[j] = "dead")
      PROVE  RunInv'
  BY <1>4, <1>k, <1>t DEF MachinePcs
(* The worker saves its record. *)
<1>5. ASSUME NEW r \in Records, rec' \in Left(wjob, r), wjob \in Jobs,
             r.state \notin Waiting, r.outcome = wrec.outcome,
             UNCHANGED <<child, todo>>
      PROVE  /\ \A j \in Jobs : rec'[j].state \in Waiting => child'[j] = "none"
             /\ rec'[wjob].state \notin Waiting
             /\ \A j \in todo' : rec'[j].state \notin Waiting
             /\ \A j \in Jobs : rec'[j].outcome.kind \in Ended => child'[j] = "dead"
  <2>1. PICK q \in {r, Torn} : rec' = Saved(wjob, q)
    BY <1>5 DEF Left
  <2>2. /\ q \in Records /\ q.state \notin Waiting
        /\ q.outcome.kind \in Ended => child[wjob] = "dead"
    BY <1>5, <1>k, RecordTypes, CancelledAndTorn
  <2>. QED  BY <1>5, <1>t, <2>1, <2>2 DEF Saved
<1>6. ASSUME NEW j \in Jobs, Submit(j) PROVE RunInv'
  <2>1. /\ rec[j].state = "Absent" /\ rec' = [rec EXCEPT ![j] = NewRecord]
        /\ UNCHANGED <<child, wpc, wjob, wrec, todo>>
    BY <1>6 DEF Submit, boxVars, workVars
  <2>2. j \notin todo /\ (wpc \in MachinePcs \cup {"probe"} => j # wjob)
    BY <2>1 DEF MachinePcs
  <2>. QED  BY <1>k, <1>t, <2>1, <2>2 DEF MachinePcs
<1>7. ASSUME NEW h \in Handlers, CancelSave(h) PROVE RunInv'
  <2>2. handler[h].job \in Jobs
    BY <1>7 DEF TypeOK, CancelSave
  <2>3. PICK r \in {CancelledRecord, Torn} : rec' = Saved(handler[h].job, r)
    BY <1>7, CancelLeaves
  <2>1. r \in Records /\ r.state \notin Waiting /\ r.outcome.kind \notin Ended
    BY <1>k, RecordTypes, CancelledAndTorn
  <2>4. rec' = [rec EXCEPT ![handler[h].job] = r] \/ rec' = rec
    BY <2>3 DEF Saved
  <2>5. UNCHANGED <<child, wpc, wjob, wrec, todo>>
    BY <1>7 DEF CancelSave, boxVars, workVars
  <2>. QED  BY <1>2, <2>1, <2>2, <2>4, <2>5
<1>8. ASSUME NEW j \in Jobs, PickJob(j) PROVE RunInv'
  BY <1>8, <1>t DEF PickJob, IsNextJob, diskVars, boxVars, MachinePcs
<1>9. CASE ProbeBusy
  BY <1>4, <1>9, <1>t DEF ProbeBusy, diskVars, boxVars
<1>10. CASE ProbeFree
  BY <1>10, <1>t DEF ProbeFree, diskVars, boxVars
<1>11. CASE Start
  <2>. DEFINE r == [wrec EXCEPT !.state = "Preparing"]
  <2>1. r \in Records /\ r.state = "Preparing" /\ r.outcome = wrec.outcome
    BY <1>t, StateUpdate DEF States
  <2>. HIDE DEF r
  <2>2. /\ wrec' = r /\ rec' \in Left(wjob, r) /\ wpc' = "preparing" /\ wjob \in Jobs
        /\ UNCHANGED <<child, wjob, todo>> /\ child[wjob] = "none"
    BY <1>11, <1>t DEF Start, Transition, boxVars, r, MachinePcs
  <2>3. rec'[wjob].state # "Absent"
    BY <1>5, <2>1, <2>2
  <2>. QED  BY <1>5, <2>1, <2>2, <2>3
<1>12. CASE Prepared
  <2>1. CASE cancelFlag[wjob] = "set"
    BY <1>3, <1>k, <1>12, <1>t, <2>1, OutcomeTypes DEF Prepared, boxVars, MachinePcs
  <2>2. CASE cancelFlag[wjob] # "set"
    <3>. DEFINE r == [wrec EXCEPT !.state = "Building"]
    <3>1. r \in Records /\ r.state = "Building" /\ r.outcome = wrec.outcome
      BY <1>t, StateUpdate DEF States
    <3>. HIDE DEF r
    <3>2. /\ wrec' = r /\ rec' \in Left(wjob, r) /\ wpc' = "building" /\ wjob \in Jobs
          /\ UNCHANGED <<child, wjob, todo>> /\ child[wjob] = "none"
      BY <1>12, <1>t, <2>2 DEF Prepared, Transition, boxVars, r, MachinePcs
    <3>. QED  BY <1>5, <3>1, <3>2
  <2>. QED  BY <2>1, <2>2
<1>13. CASE Built
  <2>1. /\ rec' \in Left(wjob, wrec) /\ wjob \in Jobs /\ wrec.state = "Building"
        /\ UNCHANGED <<child, wjob, todo>> /\ child[wjob] = "none"
    BY <1>13, <1>t DEF Built, boxVars, MachinePcs, RecordInv
  <2>2. \/ wpc' = "ready" /\ wrec' = wrec
        \/ wpc' = "journalDone" /\ wrec'.outcome = Cancelled
    BY <1>13, <1>t DEF Built, BeginFinish, Records
  <2>. QED  BY <1>5, <1>k, <1>t, <2>1, <2>2
<1>14. CASE Spawn
  <2>1. /\ wjob \in Jobs /\ wpc' = "spawned" /\ UNCHANGED <<rec, wjob, todo>>
        /\ child' = [child EXCEPT ![wjob] = "live"] /\ wrec'.outcome = wrec.outcome
        /\ child[wjob] = "none" /\ rec[wjob].state \notin Waiting
    BY <1>14, <1>t DEF Spawn, diskVars, MachinePcs, Records
  <2>. QED  BY <1>t, <2>1
<1>15. CASE MarkRunning
  <2>. DEFINE r == [wrec EXCEPT !.state = "Running"]
  <2>1. r \in Records /\ r.state = "Running" /\ r.outcome = wrec.outcome
    BY <1>t, StateUpdate DEF States
  <2>. HIDE DEF r
  <2>2. /\ wrec' = r /\ rec' \in Left(wjob, r) /\ wpc' = "wait" /\ wjob \in Jobs
        /\ UNCHANGED <<child, wjob, todo>> /\ child[wjob] # "none"
    BY <1>15, <1>t DEF MarkRunning, Transition, boxVars, r, MachinePcs
  <2>. QED  BY <1>5, <2>1, <2>2
<1>16. ASSUME NEW end \in {Cancelled, TimedOut}, WaitTerm(end) PROVE RunInv'
  BY <1>1, <1>16 DEF WaitTerm, diskVars, boxVars
<1>17. CASE WaitKill
  <2>1. /\ wjob \in Jobs /\ wpc = "wait" /\ Live(wjob)
        /\ child' = [child EXCEPT ![wjob] = "dead"]
        /\ UNCHANGED <<rec, wpc, wjob, wrec, todo>>
    BY <1>17, <1>t DEF WaitKill, diskVars, workVars, MachinePcs
  <2>. QED  BY <1>t, <2>1
<1>18. CASE WaitExited
  <2>. DEFINE r == [wrec EXCEPT !.state = "Collecting"]
  <2>1. r \in Records /\ r.state = "Collecting" /\ r.outcome = wrec.outcome
    BY <1>t, StateUpdate DEF States
  <2>. HIDE DEF r
  <2>2. /\ wrec' = r /\ rec' \in Left(wjob, r) /\ wpc' = "collect" /\ wjob \in Jobs
        /\ UNCHANGED <<child, wjob, todo>> /\ child[wjob] # "none"
    BY <1>18, <1>t DEF WaitExited, Transition, boxVars, r, MachinePcs
  <2>. QED  BY <1>5, <2>1, <2>2
<1>19. CASE Collect
  <2>. DEFINE o == CollectOutcome(NewRecords(wrec.before))
  <2>1. o \in Outcomes
    BY <1>19, <1>t, OutcomeTypes DEF Collect, CollectOutcome, NewRecords, Outcomes, TypeOK
  <2>2. wjob \in Jobs /\ child[wjob] = "dead" /\ rec[wjob].state \notin Waiting
    BY <1>19, <1>t DEF Collect, GateInv, NoGate, MachinePcs
  <2>. HIDE DEF o
  <2>3. BeginFinish(wrec, o) /\ UNCHANGED <<rec, child, wjob, todo>>
    BY <1>19 DEF Collect, o, diskVars, boxVars
  <2>. QED  BY <1>3, <1>t, <2>1, <2>2, <2>3
<1>20. CASE PrepareFails \/ BuildFails \/ NotSpawned \/ WaitFails \/ CollectFails
  <2>1. \E o \in {Failed, Cancelled} : BeginFinish(wrec, o)
    BY <1>20 DEF PrepareFails, BuildFails, NotSpawned, WaitFails, CollectFails
  <2>2. /\ UNCHANGED <<rec, child, wjob, todo>>
        /\ wjob \in Jobs /\ rec[wjob].state \notin Waiting
    BY <1>20, <1>t DEF PrepareFails, BuildFails, NotSpawned, WaitFails, CollectFails,
                       diskVars, boxVars, MachinePcs
  <2>. QED  BY <1>3, <1>k, <1>t, <2>1, <2>2, OutcomeTypes
<1>21. CASE WaitKilled
  <2>1. /\ UNCHANGED <<rec, child, wjob, todo>> /\ BeginFinish(wrec, wend)
        /\ wjob \in Jobs /\ rec[wjob].state \notin Waiting /\ child[wjob] = "dead"
    BY <1>21, <1>t DEF WaitKilled, diskVars, boxVars, MachinePcs
  <2>2. wend \in Outcomes
    BY DEF TypeOK
  <2>. QED  BY <1>3, <1>t, <2>1, <2>2
<1>22. CASE FinishJournal
  BY <1>22, <1>t DEF FinishJournal, boxVars, MachinePcs
<1>23. CASE FinishSave
  <2>. DEFINE r == [wrec EXCEPT !.state = "Done"]
  <2>1. r \in Records /\ r.state = "Done" /\ r.outcome = wrec.outcome
    BY <1>t, StateUpdate DEF States
  <2>. HIDE DEF r
  <2>2. /\ rec' \in Left(wjob, r) /\ wjob \in Jobs /\ wrec' = NoRecord
        /\ wpc' \in {"recover", "retain"} /\ UNCHANGED <<child, todo>>
    BY <1>23, <1>t DEF FinishSave, LeaveMachine, boxVars, r, MachinePcs
  <2>3. /\ \A j \in Jobs : rec'[j].state \in Waiting => child'[j] = "none"
        /\ \A j \in todo' : rec'[j].state \notin Waiting
        /\ \A j \in Jobs : rec'[j].outcome.kind \in Ended => child'[j] = "dead"
    BY <1>5, <2>1, <2>2
  <2>. QED  BY <1>k, <2>2, <2>3 DEF MachinePcs
<1>24. ASSUME NEW gone \in SUBSET Jobs, Retain(gone) PROVE RunInv'
  <2>1. \A j \in Jobs : \/ rec'[j] = rec[j]
                        \/ /\ rec'[j].state = "Removed"
                           /\ rec'[j].outcome.kind \notin Ended
    BY <1>k, <1>24 DEF Retain, NoRecord, NewRecord
  <2>2. wpc' = "loop" /\ UNCHANGED <<child, wjob, wrec, todo>>
    BY <1>24 DEF Retain, boxVars
  <2>. QED  BY <1>t, <2>1, <2>2 DEF MachinePcs
<1>25. CASE ReleaseIdleLease
  BY <1>1, <1>25 DEF ReleaseIdleLease, diskVars, workVars
<1>26. ASSUME NEW j \in Jobs, RecoverResume(j) PROVE RunInv'
  <2>1. /\ j \in todo /\ Live(j) /\ wjob' = j /\ todo' \subseteq todo
        /\ UNCHANGED <<rec, child>> /\ rec[j].state \notin Waiting
    BY <1>26 DEF RecoverResume, diskVars, boxVars
  <2>2. CASE wrec' = rec[j] /\ wpc' = "wait"
    BY <1>t, <2>1, <2>2 DEF MachinePcs
  <2>3. CASE BeginFinish(rec[j], Orphaned)
    BY <1>3, <1>k, <1>t, <2>1, <2>3, OutcomeTypes
  <2>. QED
    BY <1>26, <2>2, <2>3 DEF RecoverResume
<1>27. ASSUME NEW j \in Jobs, RecoverOrphan(j) PROVE RunInv'
  <2>1. /\ j \in todo /\ wjob' = j /\ todo' \subseteq todo /\ BeginFinish(rec[j], Orphaned)
        /\ UNCHANGED <<rec, child>> /\ rec[j].state \notin Waiting
    BY <1>27 DEF RecoverOrphan, diskVars, boxVars
  <2>. QED  BY <1>3, <1>k, <1>t, <2>1, OutcomeTypes
<1>28. CASE RecoverDone
  BY <1>28, <1>t DEF RecoverDone, diskVars, boxVars, MachinePcs
<1>29. CASE MachineFails \/ OrphanFails
  <2>1. /\ wpc' \in {"loop", "recover", "retain"} /\ wrec' = NoRecord
        /\ UNCHANGED <<rec, child>> /\ todo' \subseteq todo
    BY <1>29 DEF MachineFails, OrphanFails, LeaveMachine, diskVars, boxVars
  <2>. QED  BY <1>4, <2>1
<1>30. ASSUME NEW j \in Jobs, ResumeFails(j) PROVE RunInv'
  BY <1>30, <1>t DEF ResumeFails, diskVars, boxVars, MachinePcs
<1>31. ASSUME NEW how, NEW kills \in BOOLEAN, GoDown(how, kills) PROVE RunInv'
  <2>1. \A j \in Jobs : child'[j] = child[j] \/ (Live(j) /\ child'[j] = "dead")
    BY <1>31, <1>t DEF GoDown
  <2>2. wpc' = "down" /\ wrec' = NoRecord /\ UNCHANGED rec /\ todo' = {}
    BY <1>31 DEF GoDown, diskVars
  <2>. QED  BY <1>4, <2>1, <2>2
<1>39. ASSUME NEW h \in Handlers, SaveTaken(h) PROVE RunInv'
  <2>1. PICK r \in Records :
          /\ rec' = Saved(wjob, r) /\ wjob \in Jobs
          /\ r.state \notin {"Queued", "Absent"}
          /\ r.outcome \in {Cancelled, NoOutcome, wrec.outcome}
    BY <1>39, TakenLeaves
  <2>2. r.outcome.kind \in Ended => child[wjob] = "dead"
    BY <1>k, <2>1
  <2>3. /\ wrec' = NoRecord /\ wpc' \in {"recover", "retain"}
        /\ UNCHANGED <<child, todo>>
    BY <1>39 DEF SaveTaken, LeaveMachine, boxVars
  <2>4. /\ \A j \in Jobs : rec'[j].state \in Waiting => child'[j] = "none"
        /\ \A j \in todo' : rec'[j].state \notin Waiting
        /\ \A j \in Jobs : rec'[j].outcome.kind \in Ended => child'[j] = "dead"
    BY <1>t, <2>1, <2>2, <2>3 DEF Saved
  <2>. QED  BY <1>k, <2>3, <2>4 DEF MachinePcs
<1>32. CASE Restart
  <2>1. /\ wpc' = "recover" /\ UNCHANGED <<rec, child, wjob, wrec>>
        /\ todo' = JobsIn(States \ {"Queued", "Done"})
    BY <1>32 DEF Restart, diskVars, boxVars
  <2>2. \A j \in todo' : rec[j].state \notin Waiting
    BY <2>1 DEF JobsIn, States
  <2>. QED  BY <1>t, <2>1, <2>2 DEF MachinePcs
<1>33. ASSUME NEW j \in Jobs, NEW code, NEW wrote, NEW leased,
              ChildExits(j, code, wrote, leased)
       PROVE  RunInv'
  <2>1. Live(j) /\ child' = [child EXCEPT ![j] = "dead"]
    BY <1>33 DEF ChildExits
  <2>2. UNCHANGED <<rec, wpc, wjob, wrec, todo>>
    BY <1>33 DEF ChildExits, workVars
  <2>. QED  BY <1>t, <2>1, <2>2 DEF MachinePcs
<1>34. CASE Requests
  BY <1>1, <1>6, <1>7, <1>34
  DEF Requests, CancelQueued, CancelStarted, CancelJournal, diskVars, boxVars, workVars
<1>35. CASE Worker
  BY <1>8, <1>9, <1>10, <1>11, <1>12, <1>13, <1>14, <1>15, <1>16, <1>17, <1>18, <1>19,
     <1>20, <1>21, <1>22, <1>23, <1>24, <1>25, <1>26, <1>27, <1>28, <1>35
  DEF Worker, Machine
<1>36. CASE Failures
  BY <1>1, <1>29, <1>30, <1>31, <1>32, <1>36, <1>39
  DEF Failures, CancelWriteFails, diskVars, boxVars, workVars
<1>37. CASE Box
  BY <1>1, <1>33, <1>37
  DEF Box, ChildEnds, ForeignArrives, ForeignLeaves, diskVars, workVars
<1>38. CASE UNCHANGED vars
  BY <1>1, <1>38 DEF vars, diskVars, boxVars, workVars
<1>. QED
  BY <1>34, <1>35, <1>36, <1>37, <1>38 DEF Next

(* Journalling a Done forgets no end that was told, and tells the new one. *)
LEMMA JournalTells ==
  ASSUME dones \in [Jobs -> SUBSET Outcomes], NEW j \in Jobs, NEW o \in Outcomes,
         dones' = DoneAppended(j, o)
  PROVE  /\ \A k \in Jobs : dones[k] \subseteq dones'[k]
         /\ rec[j].state # "Removed" => o \in dones'[j]
BY DEF DoneAppended

(* What a started job's gate can do: stay, or end. *)
LEMMA SpawnOnce ==
  TypeOK /\ RunInv /\ [Next]_vars =>
    \A j \in Jobs : child[j] # "none" => (child'[j] = "live" => Live(j))
<1>. SUFFICES ASSUME TypeOK, RunInv, [Next]_vars, NEW j \in Jobs,
                     child[j] # "none", child'[j] = "live"
             PROVE  Live(j)
  OBVIOUS
<1>t. child \in [Jobs -> {"none", "live", "dead"}]
  BY DEF TypeOK
<1>1. CASE UNCHANGED child
  BY <1>1 DEF Live
<1>2. CASE Spawn
  BY <1>2, <1>t DEF Spawn, RunInv, ClearedPcs, Live
<1>3. CASE WaitKill
  BY <1>3, <1>t DEF WaitKill, Live
<1>4. ASSUME NEW how, NEW kills \in BOOLEAN, GoDown(how, kills) PROVE Live(j)
  BY <1>4, <1>t DEF GoDown, Live
<1>5. CASE ChildEnds
  BY <1>5, <1>t DEF ChildEnds, ChildExits, Live
<1>6. CASE Requests
  BY <1>1, <1>6
  DEF Requests, Submit, CancelQueued, CancelStarted, CancelJournal, CancelSave, boxVars
<1>7. CASE Machine
  BY <1>1, <1>2, <1>3, <1>7
  DEF Machine, Start, PrepareFails, Prepared, BuildFails, Built, NotSpawned, MarkRunning,
      WaitTerm, WaitKilled, WaitFails, WaitExited, Collect, CollectFails, FinishJournal,
      FinishSave, boxVars
<1>8. CASE Worker
  BY <1>1, <1>7, <1>8
  DEF Worker, PickJob, RecoverResume, RecoverOrphan, ProbeBusy, ProbeFree, RecoverDone,
      Retain, ReleaseIdleLease, boxVars
<1>9. CASE Failures
  BY <1>1, <1>4, <1>9
  DEF Failures, MachineFails, OrphanFails, ResumeFails, CancelWriteFails, SaveTaken, Restart,
      boxVars
<1>10. CASE Box
  BY <1>1, <1>5, <1>10 DEF Box, ForeignArrives, ForeignLeaves
<1>11. CASE UNCHANGED vars
  BY <1>1, <1>11 DEF vars, boxVars
<1>. QED
  BY <1>6, <1>8, <1>9, <1>10, <1>11 DEF Next

LEMMA SettledInvStep ==
  TypeOK /\ RecordInv /\ RunInv /\ SettledInv /\ [Next]_vars => SettledInv'
<1>. SUFFICES ASSUME TypeOK, RecordInv, RunInv, SettledInv, [Next]_vars
             PROVE  SettledInv'
  OBVIOUS
<1>. USE DEF SettledInv, DoneIsJournaled, HalfDone, ClearedPcs, ChildPcs
<1>t. /\ rec \in [Jobs -> Records] /\ wrec \in Records /\ todo \in SUBSET Jobs
      /\ wpc \in MachinePcs \cup {"probe"} => wjob \in Jobs
      /\ dones \in [Jobs -> SUBSET Outcomes] /\ ioErrors \in Nat
      /\ \A h \in Handlers : handler[h].at # "idle" => handler[h].job \in Jobs
  BY DEF TypeOK
<1>c. CancelledRecord.outcome = Cancelled /\ CancelledRecord.state = "Done"
  BY CancelledAndTorn
(* The worker stays where it is, and keeps its record while it ends a job. *)
<1>1. CASE /\ UNCHANGED <<rec, dones, recovering, todo, wpc, wjob, ioErrors, handler>>
           /\ wpc = "saveDone" => wrec' = wrec
  BY <1>1
(* A write fails: nothing is promised any more. *)
<1>2. ASSUME ioErrors' = ioErrors + 1, ~recovering' => todo' = {},
             wpc' \in ClearedPcs \cup {"probe", "loop", "retain"} => ~recovering'
      PROVE  SettledInv'
  BY <1>2, <1>t
(* The worker moves inside the machine and writes nothing. *)
<1>3. ASSUME wpc \in MachinePcs, wpc' \in MachinePcs \ {"saveDone"},
             wpc' \in ClearedPcs => ~recovering,
             UNCHANGED <<rec, dones, recovering, todo, wjob, ioErrors, handler>>
      PROVE  SettledInv'
  BY <1>3 DEF MachinePcs
(* It saves its record, in a state that is not Done. *)
<1>4. ASSUME wpc \in MachinePcs, wpc' \in MachinePcs \ {"saveDone"},
             wpc' \in ClearedPcs => ~recovering,
             NEW r \in Records, r.state \notin {"Done", "Torn"}, rec' \in Left(wjob, r),
             UNCHANGED <<dones, recovering, todo, wjob, ioErrors, handler>>
      PROVE  SettledInv'
  <2>0. PICK q \in {r, Torn} :
          /\ rec' = Saved(wjob, q)
          /\ q = Torn => rec' = Saved(wjob, r) \/ \E h \in Handlers : Saving(h, wjob)
    BY <1>4 DEF Left
  <2>9. q.state # "Done"
    BY <1>4, CancelledAndTorn
  <2>1. \A j \in Jobs : j # wjob => rec'[j] = rec[j]
    BY <1>t, <2>0 DEF Saved
  <2>2. rec'[wjob].state # "Done" \/ rec' = rec
    BY <1>4, <1>t, <2>0, <2>9 DEF Saved
  <2>3. \A j \in Jobs : rec[j].state = "Removed" => rec'[j].state = "Removed"
    BY <1>t, <2>0 DEF Saved
  <2>4. CASE ioErrors = 0
    <3>1. DoneIsJournaled'
      BY <1>4, <2>1, <2>2, <2>4
    <3>2. \A h \in Handlers : handler'[h].at = "save" =>
            Cancelled \in dones'[handler'[h].job] \/ rec'[handler'[h].job].state = "Removed"
      BY <1>4, <1>t, <2>3, <2>4
    <3>3. \A j \in Jobs : rec'[j].state \in HalfDone =>
            \/ j \in todo' \/ (wpc' \in MachinePcs /\ j = wjob')
            \/ Cancelled \in dones'[j]
      BY <1>4, <2>1, <2>4 DEF MachinePcs
    <3>4. \A j \in Jobs : rec'[j].state = "Torn" => Cancelled \in dones[j]
      <4>1. ASSUME NEW h \in Handlers, Saving(h, wjob)
            PROVE  Cancelled \in dones[wjob] \/ rec[wjob].state = "Removed"
        BY <2>4, <4>1 DEF Saving
      <4>2. rec[wjob].state = "Removed" => rec' = rec
        BY <2>0 DEF Saved
      <4>3. rec' = Saved(wjob, r) \/ Cancelled \in dones[wjob] \/ rec' = rec
        BY <2>0, <4>1, <4>2
      <4>. QED  BY <1>4, <1>t, <2>1, <2>4, <4>3 DEF Saved
    <3>. QED  BY <1>4, <3>1, <3>2, <3>3, <3>4 DEF MachinePcs
  <2>5. CASE ioErrors # 0
    BY <1>4, <2>5 DEF MachinePcs
  <2>. QED  BY <2>4, <2>5
(* The recovery pass takes a job off its list. *)
<1>5. ASSUME NEW j \in Jobs, todo' = todo \ {j}, wjob' = j, j \in todo,
             wpc' \in MachinePcs \ (ClearedPcs \cup {"saveDone"}), wpc = "recover",
             UNCHANGED <<rec, dones, recovering, ioErrors, handler>>
      PROVE  SettledInv'
  BY <1>5 DEF MachinePcs
(* The worker moves outside the machine and writes nothing. *)
<1>6. ASSUME wpc \in {"loop", "probe"}, wpc' \in {"loop", "probe", "exec"},
             UNCHANGED <<rec, dones, recovering, todo, ioErrors, handler>>
      PROVE  SettledInv'
  BY <1>6 DEF MachinePcs
<1>7. ASSUME NEW j \in Jobs, Submit(j) PROVE SettledInv'
  <2>1. /\ rec' = [rec EXCEPT ![j] = NewRecord] /\ NewRecord.state = "Queued"
        /\ rec[j].state = "Absent"
        /\ UNCHANGED <<dones, recovering, todo, wpc, wjob, wrec, ioErrors, handler>>
    BY <1>7 DEF Submit, boxVars, workVars, downVars, NewRecord
  <2>. QED  BY <1>t, <2>1 DEF MachinePcs
<1>8. ASSUME NEW h \in Handlers, NEW j \in Jobs, CancelQueued(h, j) PROVE SettledInv'
  <2>1. /\ handler' = [handler EXCEPT ![h] = [at |-> "append", job |-> j]]
        /\ UNCHANGED <<rec, dones, recovering, todo, wpc, wjob, wrec, ioErrors>>
    BY <1>8 DEF CancelQueued, diskVars, workVars, downVars
  <2>2. \A g \in Handlers : handler'[g].at = "save" => handler'[g] = handler[g]
    BY <2>1 DEF TypeOK
  <2>. QED  BY <2>1, <2>2
<1>9. ASSUME NEW h \in Handlers, CancelJournal(h) PROVE SettledInv'
  <2>. DEFINE i == handler[h].job
  <2>1. /\ i \in Jobs /\ dones' = DoneAppended(i, Cancelled)
        /\ handler' = [handler EXCEPT ![h].at = "save"]
        /\ UNCHANGED <<rec, recovering, todo, wpc, wjob, wrec, ioErrors>>
    BY <1>9, <1>t DEF CancelJournal, workVars, downVars
  <2>2. \A g \in Handlers : handler'[g].job = handler[g].job
    BY <2>1 DEF TypeOK
  <2>3. \A g \in Handlers : handler'[g].at = "save" => handler[g].at = "save" \/ g = h
    BY <2>1 DEF TypeOK
  <2>. HIDE DEF i
  <2>4. /\ \A j \in Jobs : dones[j] \subseteq dones'[j]
        /\ Cancelled \in dones'[i] \/ rec[i].state = "Removed"
    BY <1>t, <2>1, JournalTells, OutcomeTypes
  <2>6. CASE ioErrors = 0
    <3>1. \A g \in Handlers : handler'[g].at = "save" =>
            Cancelled \in dones'[handler'[g].job] \/ rec'[handler'[g].job].state = "Removed"
      BY <1>t, <2>1, <2>2, <2>3, <2>4, <2>6 DEF i
    <3>2. DoneIsJournaled'
      BY <2>1, <2>4, <2>6
    <3>. QED  BY <1>t, <2>1, <2>4, <2>6, <3>1, <3>2 DEF MachinePcs
  <2>7. CASE ioErrors # 0
    BY <2>1, <2>7
  <2>. QED  BY <2>6, <2>7
<1>10. ASSUME NEW h \in Handlers, CancelSave(h) PROVE SettledInv'
  <2>. DEFINE i == handler[h].job
  <2>1. PICK r \in {CancelledRecord, Torn} : rec' = Saved(i, r)
    BY <1>10, CancelLeaves
  <2>2. /\ i \in Jobs /\ handler[h].at = "save"
        /\ handler' = [handler EXCEPT ![h] = Idle]
        /\ UNCHANGED <<dones, recovering, todo, wpc, wjob, wrec, ioErrors>>
    BY <1>10, <1>t DEF CancelSave, workVars, downVars
  <2>3. \A g \in Handlers : handler'[g].at = "save" => handler'[g] = handler[g]
    BY <2>2 DEF TypeOK, Idle
  <2>4. ioErrors = 0 => Cancelled \in dones[i] \/ rec[i].state = "Removed"
    BY <2>2
  <2>9. r.state = "Done" => r.outcome = Cancelled
    BY CancelledAndTorn
  <2>. HIDE DEF i
  <2>5. \A j \in Jobs : rec'[j] = rec[j] \/ (j = i /\ rec'[j] = r)
    BY <1>t, <2>1, <2>2 DEF Saved
  <2>6. rec[i].state = "Removed" => rec' = rec
    BY <2>1 DEF Saved
  <2>7. CASE ioErrors = 0
    <3>1. DoneIsJournaled'
      BY <2>2, <2>4, <2>5, <2>6, <2>7, <2>9
    <3>2. \A g \in Handlers : handler'[g].at = "save" =>
            Cancelled \in dones'[handler'[g].job] \/ rec'[handler'[g].job].state = "Removed"
      BY <1>t, <2>2, <2>3, <2>4, <2>5, <2>6, <2>7
    <3>3. \A j \in Jobs : rec[j].state = "Removed" =>
            rec'[j].state = "Removed" \/ (j = i /\ Cancelled \in dones[i])
      BY <2>4, <2>5, <2>6, <2>7
    <3>4. wpc = "saveDone" => wrec.outcome \in dones[wjob] \/ rec'[wjob].state = "Removed"
      BY <1>t, <2>5, <2>6, <2>7 DEF MachinePcs
    <3>5. \A j \in Jobs : rec'[j].state \in HalfDone =>
            \/ wpc = "down" \/ j \in todo \/ (wpc \in MachinePcs /\ j = wjob)
            \/ Cancelled \in dones[j]
      BY <2>4, <2>5, <2>6, <2>7
    <3>6. \A j \in Jobs : rec'[j].state = "Torn" => Cancelled \in dones[j]
      BY <2>4, <2>5, <2>6, <2>7
    <3>. QED  BY <2>2, <2>7, <3>1, <3>2, <3>4, <3>5, <3>6
  <2>8. CASE ioErrors # 0
    BY <2>2, <2>8
  <2>. QED  BY <2>7, <2>8
<1>11. ASSUME NEW j \in Jobs, PickJob(j) PROVE SettledInv'
  BY <1>6, <1>11 DEF PickJob, diskVars, downVars
<1>12. CASE ProbeBusy \/ ProbeFree
  BY <1>6, <1>12 DEF ProbeBusy, ProbeFree, diskVars, downVars
<1>13. CASE \/ PrepareFails \/ BuildFails \/ NotSpawned \/ WaitKilled \/ WaitFails
            \/ Collect \/ CollectFails \/ Spawn
  <2>1. /\ wpc \in MachinePcs /\ wpc' \in {"journalDone", "spawned"}
        /\ UNCHANGED <<rec, dones, recovering, todo, wjob, ioErrors, handler>>
    BY <1>13
    DEF PrepareFails, BuildFails, NotSpawned, WaitKilled, WaitFails, Collect, CollectFails,
        Spawn, BeginFinish, diskVars, downVars, MachinePcs
  <2>. QED  BY <1>3, <2>1 DEF MachinePcs
<1>14. CASE (\E end \in {Cancelled, TimedOut} : WaitTerm(end)) \/ WaitKill
  BY <1>1, <1>14 DEF WaitTerm, WaitKill, diskVars, workVars, downVars
<1>15. CASE Start \/ Prepared \/ MarkRunning \/ WaitExited
  <2>1. \A s \in States \ {"Done"} :
          /\ [wrec EXCEPT !.state = s] \in Records
          /\ [wrec EXCEPT !.state = s].state \notin {"Done", "Torn"}
    BY <1>t, StateUpdate DEF States
  <2>2. /\ wpc \in MachinePcs /\ wpc' \in MachinePcs \ {"saveDone"}
        /\ wpc' \in ClearedPcs => ~recovering
        /\ UNCHANGED <<dones, recovering, todo, wjob, ioErrors, handler>>
    BY <1>15
    DEF Start, Prepared, MarkRunning, WaitExited, Transition, BeginFinish, boxVars, downVars,
        MachinePcs
  <2>3. \/ rec' = rec
        \/ \E s \in {"Preparing", "Building", "Running", "Collecting"} :
             rec' \in Left(wjob, [wrec EXCEPT !.state = s])
    BY <1>15 DEF Start, Prepared, MarkRunning, WaitExited, Transition
  <2>. QED  BY <1>3, <1>4, <2>1, <2>2, <2>3 DEF States
<1>16. CASE Built
  <2>1. /\ wpc \in MachinePcs /\ wpc' \in MachinePcs \ {"saveDone"}
        /\ wpc' \in ClearedPcs => ~recovering
        /\ rec' \in Left(wjob, wrec)
        /\ UNCHANGED <<dones, recovering, todo, wjob, ioErrors, handler>>
    BY <1>16 DEF Built, BeginFinish, boxVars, downVars, MachinePcs
  <2>2. wrec.state \notin {"Done", "Torn"}
    BY <1>16 DEF Built, RecordInv
  <2>. QED  BY <1>4, <1>t, <2>1, <2>2
<1>17. CASE FinishJournal
  <2>1. /\ wpc = "journalDone" /\ wpc' = "saveDone" /\ wjob \in Jobs
        /\ wrec.outcome \in Outcomes /\ dones' = DoneAppended(wjob, wrec.outcome)
        /\ UNCHANGED <<rec, recovering, todo, wjob, wrec, ioErrors, handler>>
    BY <1>17, <1>t DEF FinishJournal, downVars, MachinePcs, Records
  <2>2. /\ \A j \in Jobs : dones[j] \subseteq dones'[j]
        /\ wrec.outcome \in dones'[wjob] \/ rec[wjob].state = "Removed"
    BY <1>t, <2>1, JournalTells
  <2>3. ioErrors = 0 => DoneIsJournaled'
    BY <2>1, <2>2
  <2>. QED  BY <1>t, <2>1, <2>2, <2>3 DEF MachinePcs
<1>18. CASE FinishSave
  <2>. DEFINE r == [wrec EXCEPT !.state = "Done"]
  <2>1. r \in Records /\ r.state = "Done" /\ r.outcome = wrec.outcome
    BY <1>t, StateUpdate DEF States
  <2>. HIDE DEF r
  <2>2. /\ wpc = "saveDone" /\ wjob \in Jobs /\ rec' \in Left(wjob, r)
        /\ wpc' = IF recovering THEN "recover" ELSE "retain"
        /\ UNCHANGED <<dones, recovering, todo, ioErrors, handler>>
    BY <1>18, <1>t DEF FinishSave, LeaveMachine, downVars, r, MachinePcs
  <2>9. PICK q \in {r, Torn} :
          /\ rec' = Saved(wjob, q)
          /\ q = Torn => rec' = Saved(wjob, r) \/ \E h \in Handlers : Saving(h, wjob)
    BY <2>2 DEF Left
  <2>3. \A j \in Jobs : rec'[j] = rec[j] \/ (j = wjob /\ rec'[j] \in {r, Torn})
    BY <1>t, <2>2, <2>9 DEF Saved
  <2>4. rec[wjob].state = "Removed" => rec' = rec
    BY <2>9 DEF Saved
  <2>5. rec[wjob].state # "Removed" =>
          \/ rec'[wjob] = r
          \/ rec'[wjob] = Torn /\ \E h \in Handlers : Saving(h, wjob)
    BY <1>t, <2>2, <2>9 DEF Saved
  <2>6. CASE ioErrors = 0
    <3>0. Torn.state = "Torn"
      BY CancelledAndTorn
    <3>1. DoneIsJournaled'
      BY <2>1, <2>2, <2>3, <2>4, <2>6, <3>0
    <3>2. \A g \in Handlers : handler'[g].at = "save" =>
            Cancelled \in dones'[handler'[g].job] \/ rec'[handler'[g].job].state = "Removed"
      BY <1>t, <2>2, <2>3, <2>4, <2>6
    <3>3. \A j \in Jobs : rec'[j].state \in HalfDone => j \in todo \/ Cancelled \in dones[j]
      BY <2>1, <2>2, <2>3, <2>4, <2>5, <2>6 DEF MachinePcs, Saving
    <3>4. \A j \in Jobs : rec'[j].state = "Torn" => Cancelled \in dones[j]
      BY <2>1, <2>3, <2>4, <2>5, <2>6 DEF Saving
    <3>. QED  BY <2>2, <2>6, <3>1, <3>2, <3>3, <3>4
  <2>7. CASE ioErrors # 0
    BY <2>2, <2>7
  <2>. QED  BY <2>6, <2>7
<1>33. ASSUME NEW h \in Handlers, SaveTaken(h) PROVE SettledInv'
  <2>1. /\ wjob \in Jobs /\ handler[h].at = "save" /\ handler[h].job = wjob
        /\ handler' = [handler EXCEPT ![h] = Idle]
        /\ wpc \in MachinePcs /\ wpc' = (IF recovering THEN "recover" ELSE "retain")
        /\ UNCHANGED <<dones, recovering, todo, ioErrors>>
    BY <1>33, <1>t
    DEF SaveTaken, Saving, AboutToSave, NextState, LeaveMachine, downVars, MachinePcs
  <2>3. PICK r \in Records :
          /\ rec' = Saved(wjob, r)
          /\ r.state = "Done" =>
               r.outcome = Cancelled \/ (wpc = "saveDone" /\ r.outcome = wrec.outcome)
    BY <1>33, TakenLeaves
  <2>5. \A g \in Handlers : handler'[g].at = "save" => handler'[g] = handler[g]
    BY <2>1 DEF TypeOK, Idle
  <2>6. \A j \in Jobs : rec'[j] = rec[j] \/ (j = wjob /\ rec'[j] = r)
    BY <1>t, <2>1, <2>3 DEF Saved
  <2>7. rec[wjob].state = "Removed" => rec' = rec
    BY <2>3 DEF Saved
  <2>8. CASE ioErrors = 0
    <3>1. Cancelled \in dones[wjob] \/ rec[wjob].state = "Removed"
      BY <2>1, <2>8
    <3>2. DoneIsJournaled'
      BY <2>1, <2>3, <2>6, <2>7, <2>8, <3>1
    <3>3. \A g \in Handlers : handler'[g].at = "save" =>
            Cancelled \in dones'[handler'[g].job] \/ rec'[handler'[g].job].state = "Removed"
      BY <1>t, <2>1, <2>5, <2>6, <2>7, <2>8, <3>1
    <3>4. \A j \in Jobs : rec'[j].state \in HalfDone => j \in todo \/ Cancelled \in dones[j]
      BY <2>1, <2>6, <2>7, <2>8, <3>1 DEF MachinePcs
    <3>5. \A j \in Jobs : rec'[j].state = "Torn" => Cancelled \in dones[j]
      BY <2>1, <2>6, <2>7, <2>8, <3>1
    <3>. QED  BY <2>1, <2>8, <3>2, <3>3, <3>4, <3>5
  <2>9. CASE ioErrors # 0
    BY <2>1, <2>9
  <2>. QED  BY <2>8, <2>9
<1>19. ASSUME NEW gone \in SUBSET Jobs, Retain(gone) PROVE SettledInv'
  <2>1. \A j \in Jobs : \/ rec'[j] = rec[j] /\ dones'[j] = dones[j]
                        \/ rec'[j].state = "Removed"
    BY <1>19 DEF Retain, NoRecord, NewRecord
  <2>2. /\ wpc = "retain" /\ wpc' = "loop"
        /\ UNCHANGED <<recovering, todo, wjob, ioErrors, handler>>
    BY <1>19 DEF Retain, downVars
  <2>. QED  BY <1>t, <2>1, <2>2 DEF MachinePcs
<1>20. CASE ReleaseIdleLease
  BY <1>1, <1>20 DEF ReleaseIdleLease, diskVars, workVars, downVars
<1>21. ASSUME NEW j \in Jobs, RecoverResume(j) \/ RecoverOrphan(j) PROVE SettledInv'
  <2>1. /\ todo' = todo \ {j} /\ wjob' = j /\ j \in todo
        /\ wpc' \in {"wait", "journalDone"} /\ wpc = "recover"
        /\ UNCHANGED <<rec, dones, recovering, ioErrors, handler>>
    BY <1>21 DEF RecoverResume, RecoverOrphan, BeginFinish, diskVars, downVars
  <2>. QED  BY <1>5, <2>1 DEF MachinePcs
<1>22. CASE RecoverDone
  BY <1>22 DEF RecoverDone, diskVars, downVars, MachinePcs
<1>23. CASE MachineFails
  BY <1>2, <1>23 DEF MachineFails, LeaveMachine
<1>24. CASE OrphanFails \/ \E j \in Jobs : ResumeFails(j)
  BY <1>2, <1>24 DEF OrphanFails, ResumeFails
<1>25. ASSUME NEW h \in Handlers, CancelWriteFails(h) PROVE SettledInv'
  BY <1>2, <1>25 DEF CancelWriteFails, workVars
<1>26. ASSUME NEW how, NEW kills, GoDown(how, kills) PROVE SettledInv'
  <2>1. /\ wpc' = "down" /\ todo' = {} /\ ~recovering'
        /\ handler' = [h \in Handlers |-> Idle]
        /\ UNCHANGED <<rec, dones, ioErrors>>
    BY <1>26 DEF GoDown, diskVars
  <2>2. \A h \in Handlers : handler'[h].at # "save"
    BY <2>1 DEF Idle
  <2>. QED  BY <2>1, <2>2
<1>27. CASE Restart
  <2>1. /\ wpc' = "recover" /\ recovering' /\ todo' = JobsIn(States \ {"Queued", "Done"})
        /\ UNCHANGED <<rec, dones, ioErrors, handler>>
    BY <1>27 DEF Restart, diskVars
  <2>2. \A j \in Jobs : rec[j].state \in HalfDone => j \in todo'
    BY <2>1 DEF JobsIn, States
  <2>. QED  BY <2>1, <2>2
<1>28. CASE Requests
  BY <1>1, <1>7, <1>8, <1>9, <1>10, <1>28
  DEF Requests, CancelStarted, diskVars, workVars, downVars
<1>29. CASE Worker
  BY <1>11, <1>12, <1>13, <1>14, <1>15, <1>16, <1>17, <1>18, <1>19, <1>20, <1>21, <1>22,
     <1>29
  DEF Worker, Machine
<1>30. CASE Failures
  BY <1>23, <1>24, <1>25, <1>26, <1>27, <1>30, <1>33 DEF Failures
<1>31. CASE Box
  BY <1>1, <1>31
  DEF Box, ChildEnds, ChildExits, ForeignArrives, ForeignLeaves, diskVars, workVars, downVars
<1>32. CASE UNCHANGED vars
  BY <1>1, <1>32 DEF vars, diskVars, workVars, downVars
<1>. QED
  BY <1>28, <1>29, <1>30, <1>31, <1>32 DEF Next

(* Everything the worker holds, and everything on disk, at every step. *)
LEMMA BenchInvariant == Spec => [](TypeOK /\ GateInv /\ RecordInv /\ RunInv /\ SettledInv)
<1>1. Init => TypeOK /\ GateInv /\ RecordInv /\ RunInv /\ SettledInv
  <2>1. Init => TypeOK
    BY InitTypeOK
  <2>2. Init => GateInv /\ RecordInv
    BY DEF Init, GateInv, OneOwnGate, RecordInv, CreditIsOwn, Live, ClearedPcs, ChildPcs,
           NoRecord, NewRecord, NoOutcome, Outcome
  <2>3. Init => RunInv
    BY DEF Init, RunInv, ClearedPcs, ChildPcs, MachinePcs, Waiting, Ended, NoRecord,
           NewRecord, NoOutcome, Outcome
  <2>4. Init => SettledInv
    BY DEF Init, SettledInv, DoneIsJournaled, HalfDone, ClearedPcs, ChildPcs, NoRecord,
           NewRecord, Idle
  <2>. QED  BY <2>1, <2>2, <2>3, <2>4
<1>2. TypeOK /\ GateInv /\ RecordInv /\ RunInv /\ SettledInv /\ [Next]_vars =>
        (TypeOK /\ GateInv /\ RecordInv /\ RunInv /\ SettledInv)'
  BY TypeOKStep, GateInvStep, RecordInvStep, RunInvStep, SettledInvStep
<1>. QED  BY <1>1, <1>2, PTL DEF Spec

(* A gate is started at most once (runner::recover orphans rather than     *)
(* retries), for any number of jobs, crashes, cancels and failed writes.   *)
THEOREM GatesRunOnce == Spec => NeverRunTwice
<1>1. TypeOK /\ RunInv /\ [Next]_vars =>
        [\A j \in Jobs : child[j] # "none" => (child'[j] = "live" => Live(j))]_vars
  BY SpawnOnce
<1>. QED  BY <1>1, BenchInvariant, PTL DEF Spec, NeverRunTwice

(* A Completed or TimedOut job has no process, the end a Done record names *)
(* is one its journal told, and whenever the worker looks at the queue no  *)
(* job is half-done unless its journal says that it was cancelled          *)
(* (machine::finish, runner::execute, runner::recover, BenchHost::cancel), *)
(* wherever the agent is cut off between two writes, however often, and    *)
(* whichever saves clash over a record's temp file.                        *)
THEOREM EndsAreFinal == Spec => []EndsAreSettled
<1>1. TypeOK /\ RunInv /\ SettledInv => EndsAreSettled
  <2>. SUFFICES ASSUME TypeOK, RunInv, SettledInv PROVE EndsAreSettled
    OBVIOUS
  <2>1. EndedMeansExited
    BY DEF EndedMeansExited, RunInv, Ended, Live
  <2>2. IdleMeansSettled
    BY DEF IdleMeansSettled, SettledInv, HalfDone, MachinePcs, ClearedPcs, ChildPcs, TypeOK,
           Records, States
  <2>3. DoneIsJournaled
    BY DEF DoneIsJournaled, SettledInv
  <2>. QED  BY <2>1, <2>2, <2>3 DEF EndsAreSettled
<1>. QED  BY <1>1, BenchInvariant, PTL
=============================================================================
