------------------------------ MODULE Cluster ------------------------------
(***************************************************************************)
(* A launch that spans several machines (clusterdriver, RankService).  The *)
(* head asks every rank to prepare, then to commit, and undoes what it did *)
(* when one says no; browser sessions and the supervision tick run those   *)
(* ceremonies concurrently over one pending slot and one running record.   *)
(*                                                                         *)
(* Every ceremony of an instance is for the same recipe on the same        *)
(* machines, so a node's container always has the same name: a start       *)
(* replaces what the name holds, and stop and alive reach whatever holds   *)
(* it.  Calls to a rank that is not local can fail before or after the     *)
(* rank acts, or be acted on later.                                        *)
(***************************************************************************)
EXTENDS Integers, FiniteSets

CONSTANTS N,          \* ranks: nodes 1..N, asked in this order
          Local,      \* the ranks on the head's own machine
          Sessions,   \* browser sessions
          Supervisor, \* the supervision tick
          MaxEpochs,  \* bound: prepares
          Faults,     \* the kinds of fault that happen
          MaxFaults   \* bound: calls, stops and agents that fail

Nodes == 1..N
Epochs == 1..MaxEpochs
Procs == Sessions \cup {Supervisor}

FaultKinds == {"loss", "late", "start", "stop", "death", "rankRestart", "headRestart"}

ASSUME ClusterAssumption ==
  /\ N \in Nat \ {0}
  /\ MaxEpochs \in Nat
  /\ MaxFaults \in Nat
  /\ Local \subseteq Nodes
  /\ Supervisor \notin Sessions
  /\ Faults \subseteq FaultKinds

VARIABLES
  epoch,    \* epochs minted
  pending,  \* ClusterDriver.pending: the epoch that may be committed, or 0
  running,  \* ClusterDriver.running: its epoch, and the ranks recorded as up
  proc,     \* the ceremony each session and the supervisor is in
  reserved, \* LocalRankService.reserved of each rank
  vetting,  \* prepares a rank has let past its reservation check
  starting, \* reservations a rank has taken and is starting
  docker,   \* the epoch of the container each rank runs, or 0
  late,     \* calls the head gave up on that a rank may still act on
  faults,   \* history: how many calls, stops or agents failed so far
  said,     \* history: who answered Prepared to the head, per epoch
  begun,    \* history: who started a container, per epoch
  reported  \* history: epochs whose commit was answered as started

rankVars == <<reserved, vetting, starting, docker>>
history == <<said, begun, reported>>
vars == <<epoch, pending, running, proc, rankVars, late, faults, history>>

NoCluster == [epoch |-> 0, up |-> {}]
NoReservation == [epoch |-> 0, expired |-> FALSE]

Phases == {"idle", "preparing", "releasing", "committing", "unstarting", "settling",
           "tearing", "stopping", "checking", "ending"}

(* left: the ranks still to ask, in order; got: those that gave the answer *)
(* the phase collects; rest: those a failed commit must release at the end.*)
Ceremony(phase, e, left, got, rest) ==
  [phase |-> phase, e |-> e, left |-> left, got |-> got, rest |-> rest]
Idle == Ceremony("idle", 0, {}, {}, {})

Verb == [preparing |-> "prepare", releasing |-> "abort", committing |-> "commit",
         unstarting |-> "stop", settling |-> "alive", tearing |-> "stop",
         stopping |-> "stop", checking |-> "alive", ending |-> "stop"]

Ceremonies == [phase : Phases, e : 0..MaxEpochs, left : SUBSET Nodes,
               got : SUBSET Nodes, rest : SUBSET Nodes]
Calls == [verb : {"prepare", "commit", "abort", "stop"}, node : Nodes, e : Epochs]

(* A record names at least one rank, and only a reservation expires. *)
TypeOK ==
  /\ epoch \in 0..MaxEpochs
  /\ pending \in 0..MaxEpochs
  /\ running \in [epoch : 0..MaxEpochs, up : SUBSET Nodes]
  /\ proc \in [Procs -> Ceremonies]
  /\ reserved \in [Nodes -> [epoch : 0..MaxEpochs, expired : BOOLEAN]]
  /\ vetting \in [Nodes -> SUBSET Epochs]
  /\ starting \in [Nodes -> SUBSET Epochs]
  /\ docker \in [Nodes -> 0..MaxEpochs]
  /\ late \subseteq Calls
  /\ faults \in 0..MaxFaults
  /\ said \in [Epochs -> SUBSET Nodes]
  /\ begun \in [Epochs -> SUBSET Nodes]
  /\ reported \subseteq Epochs
  /\ running.epoch = 0 <=> running.up = {}
  /\ \A n \in Nodes : reserved[n].expired => reserved[n].epoch # 0

Init ==
  /\ epoch = 0
  /\ pending = 0
  /\ running = NoCluster
  /\ proc = [p \in Procs |-> Idle]
  /\ reserved = [n \in Nodes |-> NoReservation]
  /\ vetting = [n \in Nodes |-> {}]
  /\ starting = [n \in Nodes |-> {}]
  /\ docker = [n \in Nodes |-> 0]
  /\ late = {}
  /\ faults = 0
  /\ said = [e \in Epochs |-> {}]
  /\ begun = [e \in Epochs |-> {}]
  /\ reported = {}

(* Failed starts and deaths are not counted: each ends a start, and there *)
(* are only so many.                                                       *)
Fault(kind) ==
  /\ kind \in Faults
  /\ faults < MaxFaults
  /\ faults' = faults + 1

(* p's next question is to rank n. *)
Asks(p, n) == n \in proc[p].left /\ \A m \in proc[p].left : n <= m

(* n is behind p, with or without the answer the phase collects. *)
Behind(c, n) == [c EXCEPT !.left = @ \ {n}]
Counted(c, n) == [c EXCEPT !.left = @ \ {n}, !.got = @ \cup {n}]

-----------------------------------------------------------------------------
(* The rank: what each verb does there *)

CanReserve(n, e) == reserved[n].epoch \in {0, e} \/ reserved[n].expired

Reserve(n, e) == reserved' = [reserved EXCEPT ![n] = [epoch |-> e, expired |-> FALSE]]

(* A prepare that is refused releases an expired reservation all the same. *)
ReleaseExpired(n, e) ==
  reserved' = [reserved EXCEPT ![n] = IF @.expired /\ @.epoch # e THEN NoReservation ELSE @]

(* Mutant of Release: whatever is held is released. *)
ReleaseAny(n, e) == reserved' = [reserved EXCEPT ![n] = NoReservation]

Release(n, e) ==
  reserved' = [reserved EXCEPT ![n] = IF @.epoch = e THEN NoReservation ELSE @]

(* commit's first half: the reservation is spent. *)
Take(n, e) ==
  /\ reserved[n].epoch = e
  /\ reserved' = [reserved EXCEPT ![n] = NoReservation]
  /\ starting' = [starting EXCEPT ![n] = @ \cup {e}]

-----------------------------------------------------------------------------
(* Prepare *)

BeginPrepare(s) ==
  /\ proc[s] = Idle
  /\ running = NoCluster
  /\ epoch < MaxEpochs
  /\ epoch' = epoch + 1
  /\ proc' = [proc EXCEPT ![s] = Ceremony("preparing", epoch + 1, Nodes, {}, {})]
  /\ UNCHANGED <<pending, running, rankVars, late, faults, history>>

(* Does p wait for rank n to answer for epoch e? *)
Awaits(phase, p, n, e) == proc[p].phase = phase /\ proc[p].e = e /\ Asks(p, n)

(* The prepare is past the reservation check; the lock is let go. *)
Vet(n, e) ==
  /\ CanReserve(n, e)
  /\ ReleaseExpired(n, e)
  /\ vetting' = [vetting EXCEPT ![n] = @ \cup {e}]

RankVets(p, n) ==
  /\ proc[p].phase = "preparing" /\ Asks(p, n)
  /\ proc[p].e \notin vetting[n]
  /\ Vet(n, proc[p].e)
  /\ UNCHANGED <<epoch, pending, running, proc, starting, docker, late, faults, history>>

(* The machine cannot launch, or is held for another epoch. *)
RankDeclines(p, n) ==
  /\ proc[p].phase = "preparing" /\ Asks(p, n)
  /\ proc[p].e \notin vetting[n]
  /\ proc' = [proc EXCEPT ![p] = Behind(@, n)]
  /\ UNCHANGED <<epoch, pending, running, rankVars, late, faults, history>>

(* The slot is written whatever it holds by now. *)
RankPrepares(n, e) ==
  /\ e \in vetting[n]
  /\ vetting' = [vetting EXCEPT ![n] = @ \ {e}]
  /\ Reserve(n, e)
  /\ proc' = [p \in Procs |-> IF Awaits("preparing", p, n, e) THEN Counted(proc[p], n)
                              ELSE proc[p]]
  /\ said' = [said EXCEPT ![e] = IF \E p \in Procs : Awaits("preparing", p, n, e)
                                  THEN @ \cup {n} ELSE @]
  /\ UNCHANGED <<epoch, pending, running, starting, docker, late, faults, begun, reported>>

(* Docker down, the rendezvous out of reach, the command not renderable. *)
RankRefuses(n, e) ==
  /\ e \in vetting[n]
  /\ vetting' = [vetting EXCEPT ![n] = @ \ {e}]
  /\ proc' = [p \in Procs |-> IF Awaits("preparing", p, n, e) THEN Behind(proc[p], n)
                              ELSE proc[p]]
  /\ UNCHANGED <<epoch, pending, running, reserved, starting, docker, late, faults, history>>

(* Mutant of PrepareDone: the first yes is enough. *)
PrepareSome(p) ==
  LET c == proc[p] IN
  /\ c.phase = "preparing" /\ c.left = {}
  /\ IF c.got # {}
     THEN pending' = c.e /\ proc' = [proc EXCEPT ![p] = Idle]
     ELSE /\ proc' = [proc EXCEPT ![p] = Ceremony("releasing", c.e, c.got, {}, {})]
          /\ UNCHANGED pending
  /\ UNCHANGED <<epoch, running, rankVars, late, faults, history>>

(* may_commit: every rank said yes.  Otherwise those that did are released. *)
PrepareDone(p) ==
  LET c == proc[p] IN
  /\ c.phase = "preparing" /\ c.left = {}
  /\ IF c.got = Nodes
     THEN pending' = c.e /\ proc' = [proc EXCEPT ![p] = Idle]
     ELSE /\ proc' = [proc EXCEPT ![p] = Ceremony("releasing", c.e, c.got, {}, {})]
          /\ UNCHANGED pending
  /\ UNCHANGED <<epoch, running, rankVars, late, faults, history>>

-----------------------------------------------------------------------------
(* Abort, and every release of reservations *)

BeginAbort(s) ==
  /\ proc[s] = Idle
  /\ pending # 0
  /\ pending' = 0
  /\ proc' = [proc EXCEPT ![s] = Ceremony("releasing", pending, Nodes, {}, {})]
  /\ UNCHANGED <<epoch, running, rankVars, late, faults, history>>

RankReleases(p, n) ==
  /\ proc[p].phase = "releasing" /\ Asks(p, n)
  /\ Release(n, proc[p].e)
  /\ proc' = [proc EXCEPT ![p] = Behind(@, n)]
  /\ UNCHANGED <<epoch, pending, running, vetting, starting, docker, late, faults, history>>

ReleaseDone(p) ==
  /\ proc[p].phase = "releasing" /\ proc[p].left = {}
  /\ proc' = [proc EXCEPT ![p] = Idle]
  /\ UNCHANGED <<epoch, pending, running, rankVars, late, faults, history>>

-----------------------------------------------------------------------------
(* Commit *)

(* The prepare is consumed: a replayed commit finds none. *)
BeginCommit(s) ==
  /\ proc[s] = Idle
  /\ pending # 0
  /\ pending' = 0
  /\ proc' = [proc EXCEPT ![s] = Ceremony("committing", pending, Nodes, {}, {})]
  /\ UNCHANGED <<epoch, running, rankVars, late, faults, history>>

(* Mutant of Undo: what started is left running. *)
UndoReleasesOnly(c) == Ceremony("releasing", c.e, c.left, {}, {})

(* Mutant of Undo: the ranks that are left are asked all the same, so the  *)
(* commit goes on without the one that could not start.                    *)
PassOver(c) == Ceremony("committing", c.e, {n \in c.left : \E m \in c.left : m < n}, c.got, {})

(* A rank could not start: stop the started ones, then release the others. *)
Undo(c) == Ceremony("unstarting", c.e, c.got, {}, c.left)

RankTakes(p, n) ==
  /\ proc[p].phase = "committing" /\ Asks(p, n)
  /\ proc[p].e \notin starting[n]
  /\ Take(n, proc[p].e)
  /\ UNCHANGED <<epoch, pending, running, proc, vetting, docker, late, faults, history>>

(* No reservation for this epoch here. *)
RankHasNone(p, n) ==
  /\ proc[p].phase = "committing" /\ Asks(p, n)
  /\ proc[p].e \notin starting[n]
  /\ reserved[n].epoch # proc[p].e
  /\ proc' = [proc EXCEPT ![p] = Undo(@)]
  /\ UNCHANGED <<epoch, pending, running, rankVars, late, faults, history>>

(* docker rm -f of the name, then docker run. *)
RankStarts(n, e) ==
  /\ e \in starting[n]
  /\ starting' = [starting EXCEPT ![n] = @ \ {e}]
  /\ docker' = [docker EXCEPT ![n] = e]
  /\ begun' = [begun EXCEPT ![e] = @ \cup {n}]
  /\ proc' = [p \in Procs |-> IF Awaits("committing", p, n, e) THEN Counted(proc[p], n) ELSE proc[p]]
  /\ UNCHANGED <<epoch, pending, running, reserved, vetting, late, faults, said, reported>>

(* docker run fails; the old container is gone, unless removing it failed too. *)
RankStartFails(n, e) ==
  /\ "start" \in Faults
  /\ e \in starting[n]
  /\ starting' = [starting EXCEPT ![n] = @ \ {e}]
  /\ \E left \in {0, docker[n]} : docker' = [docker EXCEPT ![n] = left]
  /\ proc' = [p \in Procs |-> IF Awaits("committing", p, n, e) THEN Undo(proc[p]) ELSE proc[p]]
  /\ UNCHANGED <<epoch, pending, running, reserved, vetting, late, faults, history>>

(* After the settling window every rank is asked whether it is alive. *)
Settle(p) ==
  /\ proc[p].phase = "committing" /\ proc[p].left = {}
  /\ proc' = [proc EXCEPT ![p] = Ceremony("settling", @.e, Nodes, {}, {})]
  /\ UNCHANGED <<epoch, pending, running, rankVars, late, faults, history>>

RankIsAlive(p, n) ==
  /\ proc[p].phase \in {"settling", "checking"} /\ Asks(p, n)
  /\ proc' = [proc EXCEPT ![p] = IF docker[n] # 0 THEN Behind(@, n) ELSE Counted(@, n)]
  /\ UNCHANGED <<epoch, pending, running, rankVars, late, faults, history>>

SettleDone(p) ==
  LET c == proc[p] IN
  /\ c.phase = "settling" /\ c.left = {}
  /\ IF c.got = {}
     THEN /\ running' = [epoch |-> c.e, up |-> Nodes]
          /\ reported' = reported \cup {c.e}
          /\ proc' = [proc EXCEPT ![p] = Idle]
     ELSE /\ proc' = [proc EXCEPT ![p] = Ceremony("tearing", c.e, Nodes, {}, {})]
          /\ UNCHANGED <<running, reported>>
  /\ UNCHANGED <<epoch, pending, rankVars, late, faults, said, begun>>

UndoneOrTorn(p) ==
  LET c == proc[p] IN
  /\ c.phase \in {"unstarting", "tearing"} /\ c.left = {}
  /\ proc' = [proc EXCEPT ![p] = IF c.phase = "tearing" THEN Idle
                                 ELSE Ceremony("releasing", c.e, c.rest, {}, {})]
  /\ UNCHANGED <<epoch, pending, running, rankVars, late, faults, history>>

-----------------------------------------------------------------------------
(* Stop and supervision *)

StopPhases == {"unstarting", "tearing", "stopping", "ending"}

BeginStop(s) ==
  /\ proc[s] = Idle
  /\ running # NoCluster
  /\ proc' = [proc EXCEPT ![s] = Ceremony("stopping", running.epoch, running.up, {}, {})]
  /\ UNCHANGED <<epoch, pending, running, rankVars, late, faults, history>>

RankStops(p, n) ==
  /\ proc[p].phase \in StopPhases /\ Asks(p, n)
  /\ docker' = [docker EXCEPT ![n] = 0]
  /\ proc' = [proc EXCEPT ![p] = Behind(@, n)]
  /\ UNCHANGED <<epoch, pending, running, reserved, vetting, starting, late, faults, history>>

(* docker rm fails.  The head's own rank reports it; a peer answers        *)
(* RankStopped all the same.                                               *)
RankStopFails(p, n) ==
  /\ Fault("stop")
  /\ proc[p].phase \in StopPhases /\ Asks(p, n)
  /\ proc' = [proc EXCEPT ![p] = IF n \in Local THEN Counted(@, n) ELSE Behind(@, n)]
  /\ UNCHANGED <<epoch, pending, running, rankVars, late, history>>

(* Mutant of StopDone: the record is rewritten, never cleared. *)
StopKeepsRecord(p) ==
  LET c == proc[p] IN
  /\ c.phase = "stopping" /\ c.left = {}
  /\ running' = [epoch |-> c.e, up |-> c.got]
  /\ proc' = [proc EXCEPT ![p] = Idle]
  /\ UNCHANGED <<epoch, pending, rankVars, late, faults, history>>

(* The record keeps exactly the ranks whose stop failed. *)
StopDone(p) ==
  LET c == proc[p] IN
  /\ c.phase = "stopping" /\ c.left = {}
  /\ running' = IF c.got = {} THEN NoCluster ELSE [epoch |-> c.e, up |-> c.got]
  /\ proc' = [proc EXCEPT ![p] = Idle]
  /\ UNCHANGED <<epoch, pending, rankVars, late, faults, history>>

(* Mutant of BeginSupervise: only the first rank is asked. *)
SuperviseHeadOnly ==
  /\ proc[Supervisor] = Idle
  /\ running # NoCluster
  /\ proc' = [proc EXCEPT ![Supervisor] =
                Ceremony("checking", running.epoch, running.up \cap {1}, {}, {})]
  /\ UNCHANGED <<epoch, pending, running, rankVars, late, faults, history>>

BeginSupervise ==
  /\ proc[Supervisor] = Idle
  /\ running # NoCluster
  /\ proc' = [proc EXCEPT ![Supervisor] =
                Ceremony("checking", running.epoch, running.up, {}, {})]
  /\ UNCHANGED <<epoch, pending, running, rankVars, late, faults, history>>

(* A dead rank ends the cluster the record names now, if it names one. *)
CheckDone ==
  LET c == proc[Supervisor] IN
  /\ c.phase = "checking" /\ c.left = {}
  /\ proc' = [proc EXCEPT ![Supervisor] =
                IF c.got = {} THEN Idle ELSE Ceremony("ending", c.e, running.up, {}, {})]
  /\ UNCHANGED <<epoch, pending, running, rankVars, late, faults, history>>

(* The record is cleared even where a stop failed. *)
EndDone ==
  /\ proc[Supervisor].phase = "ending" /\ proc[Supervisor].left = {}
  /\ running' = NoCluster
  /\ proc' = [proc EXCEPT ![Supervisor] = Idle]
  /\ UNCHANGED <<epoch, pending, rankVars, late, faults, history>>

-----------------------------------------------------------------------------
(* The network *)

(* What the head makes of a call nobody answered. *)
Unanswered(c, n) ==
  IF c.phase = "committing" THEN Undo(c)
  ELSE IF c.phase \in {"settling", "checking", "stopping", "ending"} THEN Counted(c, n)
  ELSE Behind(c, n)

(* The call is lost, or the head stops waiting for it. *)
CallFails(p, n) ==
  /\ Fault("loss")
  /\ proc[p].phase # "idle" /\ Asks(p, n)
  /\ n \notin Local
  /\ proc' = [proc EXCEPT ![p] = Unanswered(@, n)]
  /\ \/ UNCHANGED late
     \/ /\ "late" \in Faults
        /\ Verb[proc[p].phase] # "alive"
        /\ ~(proc[p].phase = "preparing" /\ proc[p].e \in vetting[n])
        /\ ~(proc[p].phase = "committing" /\ proc[p].e \in starting[n])
        /\ late' = late \cup {[verb |-> Verb[proc[p].phase], node |-> n, e |-> proc[p].e]}
  /\ UNCHANGED <<epoch, pending, running, rankVars, history>>

(* The rank acts on a call the head has given up on. *)
LateArrives(m) ==
  /\ late' = late \ {m}
  /\ \/ /\ m.verb = "prepare"
        /\ \/ Vet(m.node, m.e)
           \/ ~CanReserve(m.node, m.e) /\ UNCHANGED <<reserved, vetting>>
        /\ UNCHANGED <<starting, docker>>
     \/ /\ m.verb = "commit"
        /\ \/ Take(m.node, m.e)
           \/ reserved[m.node].epoch # m.e /\ UNCHANGED <<reserved, starting>>
        /\ UNCHANGED <<vetting, docker>>
     \/ /\ m.verb = "abort"
        /\ Release(m.node, m.e)
        /\ UNCHANGED <<vetting, starting, docker>>
     \/ /\ m.verb = "stop"
        /\ docker' = [docker EXCEPT ![m.node] = 0]
        /\ UNCHANGED <<reserved, vetting, starting>>
  /\ UNCHANGED <<epoch, pending, running, proc, faults, history>>

-----------------------------------------------------------------------------
(* Time, deaths and restarts *)

(* RESERVATION_TTL passes. *)
Expire(n) ==
  /\ reserved[n].epoch # 0
  /\ ~reserved[n].expired
  /\ reserved' = [reserved EXCEPT ![n].expired = TRUE]
  /\ UNCHANGED <<epoch, pending, running, proc, vetting, starting, docker, late, faults, history>>

Dies(n) ==
  /\ "death" \in Faults
  /\ docker[n] # 0
  /\ docker' = [docker EXCEPT ![n] = 0]
  /\ UNCHANGED <<epoch, pending, running, proc, reserved, vetting, starting, late, faults, history>>

(* A rank's agent restarts: reservations are memory only, containers stay. *)
RankRestart(n) ==
  /\ Fault("rankRestart")
  /\ n \notin Local
  /\ reserved' = [reserved EXCEPT ![n] = NoReservation]
  /\ vetting' = [vetting EXCEPT ![n] = {}]
  /\ starting' = [starting EXCEPT ![n] = {}]
  /\ proc' = [p \in Procs |->
                IF \E e \in vetting[n] : Awaits("preparing", p, n, e) THEN Behind(proc[p], n)
                ELSE IF \E e \in starting[n] : Awaits("committing", p, n, e) THEN Undo(proc[p])
                ELSE proc[p]]
  /\ UNCHANGED <<epoch, pending, running, docker, late, history>>

(* The head's agent restarts, and with it the ranks on its machine. *)
HeadRestart ==
  /\ Fault("headRestart")
  /\ pending' = 0
  /\ running' = NoCluster
  /\ proc' = [p \in Procs |-> Idle]
  /\ reserved' = [n \in Nodes |-> IF n \in Local THEN NoReservation ELSE reserved[n]]
  /\ vetting' = [n \in Nodes |-> IF n \in Local THEN {} ELSE vetting[n]]
  /\ starting' = [n \in Nodes |-> IF n \in Local THEN {} ELSE starting[n]]
  /\ UNCHANGED <<epoch, docker, late, history>>

-----------------------------------------------------------------------------
Rank(p, n) ==
  \/ RankVets(p, n) \/ RankDeclines(p, n) \/ RankReleases(p, n) \/ RankTakes(p, n)
  \/ RankHasNone(p, n) \/ RankIsAlive(p, n) \/ RankStops(p, n)

Driver(p) ==
  \/ \E n \in Nodes : Rank(p, n)
  \/ PrepareDone(p) \/ ReleaseDone(p) \/ Settle(p) \/ SettleDone(p) \/ UndoneOrTorn(p)
  \/ StopDone(p)

Supervise == BeginSupervise \/ CheckDone \/ EndDone

Works(n, e) == RankPrepares(n, e) \/ RankRefuses(n, e) \/ RankStarts(n, e)

Ranks == \E n \in Nodes, e \in Epochs : Works(n, e)

Requests(s) == BeginPrepare(s) \/ BeginAbort(s) \/ BeginCommit(s) \/ BeginStop(s)

Environment ==
  \/ \E n \in Nodes, e \in Epochs : RankStartFails(n, e)
  \/ \E p \in Procs, n \in Nodes : RankStopFails(p, n) \/ CallFails(p, n)
  \/ \E m \in late : LateArrives(m)
  \/ \E n \in Nodes : Expire(n) \/ Dies(n) \/ RankRestart(n)
  \/ HeadRestart

Next ==
  \/ \E p \in Procs : Driver(p)
  \/ Supervise
  \/ Ranks
  \/ \E s \in Sessions : Requests(s)
  \/ Environment

Spec == Init /\ [][Next]_vars

(* The runtime keeps polling every ceremony, the tick comes again and      *)
(* again, and docker answers; no session is made to ask for anything.      *)
FairSpec ==
  /\ Spec
  /\ \A p \in Procs : WF_vars(Driver(p))
  /\ WF_vars(Supervise)
  /\ \A n \in Nodes, e \in Epochs : WF_vars(Works(n, e))

-----------------------------------------------------------------------------
(* Properties that hold *)

(* "Nothing starts until all of them have said yes" (clusterdriver.rs): a  *)
(* container runs, or is being started, only under an epoch every rank     *)
(* answered Prepared to the head, whatever is lost, late or restarted.     *)
StartedWithConsent ==
  \A n \in Nodes :
    /\ docker[n] # 0 => said[docker[n]] = Nodes
    /\ \A e \in starting[n] : said[e] = Nodes

(* clusterdriver.rs and ceremonies.rs, together: what the ceremonies,      *)
(* reservations and lost or late calls come to is an agreement.  A rank    *)
(* starts only what all of them agreed to, and a cluster is reported as    *)
(* started only when every rank has started it - although the check that   *)
(* follows a commit only asks whether something of that name is alive.     *)
Consent == INSTANCE Agreement
  WITH Ranks <- Nodes, Attempts <- Epochs, Nothing <- 0,
       agreed <- said, runs <- docker, begun <- begun, up <- reported

LaunchIsAgreed == Consent!Spec

(* "An abort for a stale epoch arriving late must not release a           *)
(* reservation made since" (rankservice): short of a restart, a rank lets  *)
(* go of a reservation that has not expired only to start it or because    *)
(* its own epoch is being aborted.                                         *)
StaleAbortReleasesNothing ==
  [][\A n \in Nodes : LET e == reserved[n].epoch IN
       e # 0 /\ ~reserved[n].expired /\ reserved'[n].epoch = 0 /\ faults' = faults
         => \/ e \in starting'[n]
            \/ \E p \in Procs : proc[p].phase = "releasing" /\ proc[p].e = e
            \/ [verb |-> "abort", node |-> n, e |-> e] \in late]_vars

(* "A failed commit stops every rank already started, including rank 0"    *)
(* (clusterdriver.rs), while no call is lost, no stop fails and nothing    *)
(* restarts: an epoch that is not being committed and was never reported   *)
(* as started has no container anywhere, whatever refusals, failed starts, *)
(* deaths and other ceremonies there were on the way.                      *)
FailedLeavesNothing ==
  faults = 0 => \A e \in Epochs \ reported :
    (\A p \in Procs : proc[p].e = e => proc[p].phase \in {"idle", "preparing", "releasing"})
      => \A n \in Nodes : docker[n] # e /\ e \notin starting[n]

(* ceremonies.rs clears the record even where a stop fails, for keeping it *)
(* "would wedge every future launch": again and again every rank on record *)
(* runs something, whatever died, failed to stop, was lost or restarted    *)
(* meanwhile.                                                              *)
BrokenIsDropped == []<>(\A n \in running.up : docker[n] # 0)

-----------------------------------------------------------------------------
(* What the documentation says and the code does not keep *)

(* rankservice: "a machine that has agreed to be rank 1 of one cluster     *)
(* must refuse to be rank 1 of another": a reservation that has not        *)
(* expired is not overwritten by another epoch's.                          *)
OneAgreement ==
  [][\A n \in Nodes : reserved[n].epoch # 0 /\ ~reserved[n].expired
       => reserved'[n].epoch \in {0, reserved[n].epoch}]_vars

(* clusterdriver.rs: "a cluster is either whole or absent, never partial", *)
(* with calls that can be lost: no rank runs alone once every ceremony is  *)
(* over and nothing is on record.                                          *)
NeverPartial ==
  (\A p \in Procs : proc[p] = Idle) /\ running = NoCluster /\ late = {}
    => \A n \in Nodes : docker[n] = 0 \/ \A m \in Nodes : docker[m] = docker[n]

(* ceremonies.rs: a second cluster is refused "before touching a single    *)
(* machine", because committing it would remove the live one's containers: *)
(* no start replaces a container of the cluster on record.                 *)
LiveIsNotReplaced ==
  [][\A n \in Nodes : docker[n] # 0 /\ docker[n] = running.epoch /\ docker'[n] # docker[n]
       => docker'[n] = 0]_vars

(* transport.rs: stop fails if the peer "cannot be reached, or refuses":   *)
(* when a Stop ends with nothing left on record, no rank of it runs.       *)
StoppedIsStopped ==
  [][\A p \in Procs : proc[p].phase = "stopping" /\ proc'[p].phase = "idle" /\ running' = NoCluster
       => \A n \in Nodes : docker'[n] # proc[p].e]_vars

(* types.rs keeps the record of a cluster that started "so it can be       *)
(* stopped again": supervision drops only the cluster it found broken.     *)
DropsWhatItChecked ==
  [][proc[Supervisor].phase = "ending" /\ proc'[Supervisor].phase = "idle" /\ running' # running
       => running.epoch = proc[Supervisor].e]_vars
=============================================================================
