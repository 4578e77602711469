--------------------------- MODULE ClusterProofs ---------------------------
(***************************************************************************)
(* The two-phase launch starts nothing without every rank's consent, for   *)
(* any number of ranks, sessions, epochs and faults of any kind.  The      *)
(* consent is followed from the answers to the head, through the pending   *)
(* slot, the committing ceremony, calls that arrive late and reservations  *)
(* a rank has taken, to the containers.                                    *)
(***************************************************************************)
EXTENDS Cluster, TLAPS

(* A ceremony is about an epoch that was minted. *)
EpochNamed == \A p \in Procs : proc[p].phase # "idle" => proc[p].e # 0

Consented(e) == said[e] = Nodes

(* What a preparing ceremony has counted, the ranks have said. *)
CountedIsSaid ==
  \A p \in Procs : proc[p].phase = "preparing" => proc[p].got \subseteq said[proc[p].e]

(* Everything a start can come from has every rank's consent. *)
PendingConsented == pending # 0 => Consented(pending)
CommittingConsented ==
  \A p \in Procs : proc[p].phase = "committing" => Consented(proc[p].e)
LateConsented == \A m \in late : m.verb = "commit" => Consented(m.e)

ConsentInv ==
  /\ EpochNamed
  /\ CountedIsSaid
  /\ PendingConsented
  /\ CommittingConsented
  /\ LateConsented
  /\ StartedWithConsent

-----------------------------------------------------------------------------
(* A fault is counted within the bound. *)
LEMMA FaultCounted ==
  ASSUME NEW kind, faults \in 0..MaxFaults, Fault(kind)
  PROVE  faults' \in 0..MaxFaults
  BY ClusterAssumption DEF Fault

(* What the changes of a ceremony keep. *)
LEMMA CeremonyChanges ==
  ASSUME NEW c \in Ceremonies, NEW n \in Nodes
  PROVE  /\ Behind(c, n) \in Ceremonies
         /\ Behind(c, n).phase = c.phase /\ Behind(c, n).e = c.e
         /\ Behind(c, n).got = c.got
         /\ Counted(c, n) \in Ceremonies
         /\ Counted(c, n).phase = c.phase /\ Counted(c, n).e = c.e
         /\ Counted(c, n).got = c.got \cup {n}
  BY DEF Ceremonies, Behind, Counted

(* A ceremony made from its parts is one, and has those parts. *)
LEMMA CeremonyMade ==
  ASSUME NEW phase \in Phases, NEW e \in 0..MaxEpochs, NEW left \in SUBSET Nodes,
         NEW got \in SUBSET Nodes, NEW rest \in SUBSET Nodes
  PROVE  /\ Ceremony(phase, e, left, got, rest) \in Ceremonies
         /\ Ceremony(phase, e, left, got, rest).phase = phase
         /\ Ceremony(phase, e, left, got, rest).e = e
         /\ Ceremony(phase, e, left, got, rest).got = got
  BY DEF Ceremonies, Ceremony

(* An idle process is in a ceremony of no epoch. *)
LEMMA IdleFacts ==
  Idle \in Ceremonies /\ Idle.phase = "idle" /\ Idle.e = 0 /\ Idle.got = {}
  <1>1. "idle" \in Phases /\ 0 \in 0..MaxEpochs
    BY ClusterAssumption DEF Phases
  <1> QED
    BY <1>1, CeremonyMade DEF Idle

(* A failed commit: the ceremony undoes its own epoch. *)
LEMMA UndoFacts ==
  ASSUME NEW c \in Ceremonies
  PROVE  Undo(c) \in Ceremonies /\ Undo(c).phase = "unstarting" /\ Undo(c).e = c.e
  <1>1. "unstarting" \in Phases /\ c.e \in 0..MaxEpochs /\ c.left \in SUBSET Nodes
        /\ c.got \in SUBSET Nodes /\ {} \in SUBSET Nodes
    BY DEF Phases, Ceremonies
  <1> QED
    BY <1>1, CeremonyMade DEF Undo

(* A call that was not answered neither counts as a yes nor starts a       *)
(* commit.                                                                 *)
LEMMA UnansweredFacts ==
  ASSUME NEW c \in Ceremonies, NEW n \in Nodes, c.phase # "idle"
  PROVE  /\ Unanswered(c, n) \in Ceremonies
         /\ Unanswered(c, n).e = c.e
         /\ Unanswered(c, n).phase \notin {"idle", "committing"}
         /\ Unanswered(c, n).phase = "preparing"
              => c.phase = "preparing" /\ Unanswered(c, n).got = c.got
  <1>1. CASE c.phase = "committing"
    BY <1>1, UndoFacts DEF Unanswered
  <1>2. CASE c.phase \in {"settling", "checking", "stopping", "ending"}
    BY <1>2, CeremonyChanges DEF Unanswered
  <1>3. CASE c.phase \notin {"committing", "settling", "checking", "stopping", "ending"}
    BY <1>3, CeremonyChanges DEF Unanswered
  <1> QED
    BY <1>1, <1>2, <1>3

(* One process moves on to a ceremony with a named epoch. *)
LEMMA OneProcMoves ==
  ASSUME proc \in [Procs -> Ceremonies], EpochNamed, NEW p \in Procs, NEW c \in Ceremonies,
         c.phase # "idle" => c.e # 0, proc' = [proc EXCEPT ![p] = c]
  PROVE  proc' \in [Procs -> Ceremonies] /\ EpochNamed'
  BY DEF EpochNamed

(* A rank answers whoever waits for it. *)
LEMMA AwaitingProcsMove ==
  ASSUME NEW f \in [Procs -> Ceremonies], proc' = f,
         \A p \in Procs : f[p].phase # "idle" => f[p].e # 0
  PROVE  proc' \in [Procs -> Ceremonies] /\ EpochNamed'
  BY DEF EpochNamed

ReservedOK ==
  /\ reserved \in [Nodes -> [epoch : 0..MaxEpochs, expired : BOOLEAN]]
  /\ \A n \in Nodes : reserved[n].expired => reserved[n].epoch # 0

(* The slot of a rank holds a reservation whatever is done to it. *)
LEMMA SlotChanges ==
  ASSUME ReservedOK, NEW n \in Nodes, NEW e \in Epochs,
         \/ Reserve(n, e) \/ ReleaseExpired(n, e) \/ Release(n, e)
         \/ reserved' = [reserved EXCEPT ![n] = NoReservation]
         \/ reserved' = reserved
  PROVE  ReservedOK'
<1>1. MaxEpochs \in Nat /\ e \in 0..MaxEpochs /\ e # 0
  BY ClusterAssumption DEF Epochs
<1>2. CASE Reserve(n, e)
  BY <1>1, <1>2 DEF ReservedOK, Reserve
<1>3. CASE ReleaseExpired(n, e)
  BY <1>1, <1>3 DEF ReservedOK, ReleaseExpired, NoReservation
<1>4. CASE Release(n, e)
  BY <1>1, <1>4 DEF ReservedOK, Release, NoReservation
<1>5. CASE reserved' = [reserved EXCEPT ![n] = NoReservation]
  BY <1>1, <1>5 DEF ReservedOK, NoReservation
<1>6. CASE reserved' = reserved
  BY <1>6 DEF ReservedOK
<1>. QED  BY <1>2, <1>3, <1>4, <1>5, <1>6

(* What the ceremonies are made of. *)
LEMMA SetFacts ==
  /\ {"idle", "preparing", "releasing", "committing", "unstarting", "settling", "tearing",
      "stopping", "checking", "ending"} \subseteq Phases
  /\ Nodes \in SUBSET Nodes /\ {} \in SUBSET Nodes
  /\ \A c \in Ceremonies : /\ c.e \in 0..MaxEpochs /\ c.left \in SUBSET Nodes
                           /\ c.got \in SUBSET Nodes /\ c.rest \in SUBSET Nodes
  BY DEF Phases, Ceremonies

-----------------------------------------------------------------------------
(* Type correctness *)

(* Every step keeps the types and names an epoch in every ceremony. *)
LEMMA TypeStep == TypeOK /\ EpochNamed /\ [Next]_vars => TypeOK' /\ EpochNamed'
<1>. SUFFICES ASSUME TypeOK, EpochNamed, [Next]_vars
             PROVE  TypeOK' /\ EpochNamed'
  OBVIOUS
<1>0. TypeOK /\ EpochNamed /\ proc \in [Procs -> Ceremonies]
      /\ \A p \in Procs : proc[p] \in Ceremonies
  BY DEF TypeOK
<1>r. /\ running.epoch \in 0..MaxEpochs /\ running.up \in SUBSET Nodes
      /\ pending \in 0..MaxEpochs /\ epoch \in 0..MaxEpochs /\ MaxEpochs \in Nat
      /\ running # NoCluster => running.epoch # 0
  BY ClusterAssumption DEF TypeOK, NoCluster
<1>p. Supervisor \in Procs /\ Sessions \subseteq Procs
  BY DEF Procs
<1>1. ASSUME NEW p \in Procs, NEW n \in Nodes, RankVets(p, n) PROVE TypeOK' /\ EpochNamed'
  <2>1. proc' \in [Procs -> Ceremonies] /\ EpochNamed'
    BY <1>1, <1>0 DEF RankVets, EpochNamed
  <2>e. proc[p].e \in Epochs /\ ReservedOK
    BY <1>1, <1>0, SetFacts, ClusterAssumption
       DEF RankVets, EpochNamed, Epochs, TypeOK, ReservedOK
  <2>f. ReservedOK'
    BY <1>1, <2>e, SlotChanges DEF RankVets, Vet
  <2>g. vetting' \in [Nodes -> SUBSET Epochs]
    BY <1>1, <1>0, <2>e DEF RankVets, TypeOK, Vet
  <2>2. TypeOK'
    BY SMTT(30), <1>1, <1>0, <2>1, <2>f, <2>g DEF RankVets, TypeOK, ReservedOK, history
  <2>. QED  BY <2>1, <2>2
<1>2. ASSUME NEW p \in Procs, NEW n \in Nodes, RankDeclines(p, n) PROVE TypeOK'
      /\ EpochNamed'
  <2> DEFINE c == Behind(proc[p], n)
  <2>a. proc' = [proc EXCEPT ![p] = c]
    BY <1>2 DEF RankDeclines
  <2>b. c \in Ceremonies /\ (c.phase # "idle" => c.e # 0)
    BY <1>2, <1>0, CeremonyChanges DEF RankDeclines, EpochNamed, Asks
  <2> HIDE DEF c
  <2>1. proc' \in [Procs -> Ceremonies] /\ EpochNamed'
    BY <1>0, <2>a, <2>b, OneProcMoves
  <2>2. TypeOK'
    BY SMTT(30), <1>2, <1>0, <2>1, ClusterAssumption
       DEF RankDeclines, TypeOK, Epochs, rankVars, history
  <2>. QED  BY <2>1, <2>2
<1>3. ASSUME NEW p \in Procs, NEW n \in Nodes, RankReleases(p, n) PROVE TypeOK'
      /\ EpochNamed'
  <2> DEFINE c == Behind(proc[p], n)
  <2>a. proc' = [proc EXCEPT ![p] = c]
    BY <1>3 DEF RankReleases
  <2>b. c \in Ceremonies /\ (c.phase # "idle" => c.e # 0)
    BY <1>3, <1>0, CeremonyChanges DEF RankReleases, EpochNamed, Asks
  <2> HIDE DEF c
  <2>1. proc' \in [Procs -> Ceremonies] /\ EpochNamed'
    BY <1>0, <2>a, <2>b, OneProcMoves
  <2>2. TypeOK'
    BY SMTT(30), <1>3, <1>0, <2>1, ClusterAssumption
       DEF RankReleases, TypeOK, Release, Epochs, NoReservation, rankVars, history
  <2>. QED  BY <2>1, <2>2
<1>4. ASSUME NEW p \in Procs, NEW n \in Nodes, RankTakes(p, n) PROVE TypeOK' /\ EpochNamed'
  <2>1. proc' \in [Procs -> Ceremonies] /\ EpochNamed'
    BY <1>4, <1>0 DEF RankTakes, EpochNamed
  <2>e. proc[p].e \in Epochs /\ ReservedOK
    BY <1>4, <1>0, SetFacts, ClusterAssumption
       DEF RankTakes, EpochNamed, Epochs, TypeOK, ReservedOK
  <2>f. ReservedOK'
    BY <1>4, <2>e, SlotChanges DEF RankTakes, Take
  <2>g. starting' \in [Nodes -> SUBSET Epochs]
    BY <1>4, <1>0, <2>e DEF RankTakes, TypeOK, Take
  <2>2. TypeOK'
    BY SMTT(30), <1>4, <1>0, <2>1, <2>f, <2>g DEF RankTakes, TypeOK, ReservedOK, history
  <2>. QED  BY <2>1, <2>2
<1>5. ASSUME NEW p \in Procs, NEW n \in Nodes, RankHasNone(p, n) PROVE TypeOK'
      /\ EpochNamed'
  <2> DEFINE c == Undo(proc[p])
  <2>a. proc' = [proc EXCEPT ![p] = c]
    BY <1>5 DEF RankHasNone
  <2>b. c \in Ceremonies /\ (c.phase # "idle" => c.e # 0)
    BY <1>5, <1>0, UndoFacts DEF RankHasNone, EpochNamed, Asks
  <2> HIDE DEF c
  <2>1. proc' \in [Procs -> Ceremonies] /\ EpochNamed'
    BY <1>0, <2>a, <2>b, OneProcMoves
  <2>2. TypeOK'
    BY SMTT(30), <1>5, <1>0, <2>1, ClusterAssumption
       DEF RankHasNone, TypeOK, Epochs, rankVars, history
  <2>. QED  BY <2>1, <2>2
<1>6. ASSUME NEW p \in Procs, NEW n \in Nodes, RankIsAlive(p, n) PROVE TypeOK'
      /\ EpochNamed'
  <2> DEFINE c == (IF docker[n] # 0 THEN Behind(proc[p], n) ELSE Counted(proc[p], n))
  <2>a. proc' = [proc EXCEPT ![p] = c]
    BY <1>6 DEF RankIsAlive
  <2>b. c \in Ceremonies /\ (c.phase # "idle" => c.e # 0)
    BY <1>6, <1>0, CeremonyChanges DEF RankIsAlive, EpochNamed, Asks
  <2> HIDE DEF c
  <2>1. proc' \in [Procs -> Ceremonies] /\ EpochNamed'
    BY <1>0, <2>a, <2>b, OneProcMoves
  <2>2. TypeOK'
    BY SMTT(30), <1>6, <1>0, <2>1, ClusterAssumption
       DEF RankIsAlive, TypeOK, Epochs, rankVars, history
  <2>. QED  BY <2>1, <2>2
<1>7. ASSUME NEW p \in Procs, NEW n \in Nodes, RankStops(p, n) PROVE TypeOK' /\ EpochNamed'
  <2> DEFINE c == Behind(proc[p], n)
  <2>a. proc' = [proc EXCEPT ![p] = c]
    BY <1>7 DEF RankStops
  <2>b. c \in Ceremonies /\ (c.phase # "idle" => c.e # 0)
    BY <1>7, <1>0, CeremonyChanges DEF RankStops, EpochNamed, StopPhases, Asks
  <2> HIDE DEF c
  <2>1. proc' \in [Procs -> Ceremonies] /\ EpochNamed'
    BY <1>0, <2>a, <2>b, OneProcMoves
  <2>2. TypeOK'
    BY SMTT(30), <1>7, <1>0, <2>1, ClusterAssumption DEF RankStops, TypeOK, Epochs, rankVars, history
  <2>. QED  BY <2>1, <2>2
<1>8. ASSUME NEW p \in Procs, PrepareDone(p) PROVE TypeOK' /\ EpochNamed'
  <2> DEFINE c == (IF proc[p].got = Nodes THEN Idle
                   ELSE Ceremony("releasing", proc[p].e, proc[p].got, {}, {}))
  <2>a. proc' = [proc EXCEPT ![p] = c]
    BY <1>8 DEF PrepareDone
  <2>b. c \in Ceremonies /\ (c.phase # "idle" => c.e # 0)
    BY <1>8, <1>0, CeremonyMade, SetFacts, IdleFacts DEF PrepareDone, EpochNamed
  <2> HIDE DEF c
  <2>1. proc' \in [Procs -> Ceremonies] /\ EpochNamed'
    BY <1>0, <2>a, <2>b, OneProcMoves
  <2>e. /\ proc[p].e \in Epochs /\ proc[p].got \in SUBSET Nodes
        /\ 1 \in Nodes /\ MaxEpochs \in Nat
    BY <1>8, <1>0, SetFacts, ClusterAssumption DEF PrepareDone, EpochNamed, Epochs, Nodes
  <2>2. TypeOK'
    BY SMTT(30), <1>8, <1>0, <2>1, <2>e DEF PrepareDone, TypeOK, Epochs, rankVars, history
  <2>. QED  BY <2>1, <2>2
<1>9. ASSUME NEW p \in Procs, ReleaseDone(p) PROVE TypeOK' /\ EpochNamed'
  <2> DEFINE c == Idle
  <2>a. proc' = [proc EXCEPT ![p] = c]
    BY <1>9 DEF ReleaseDone
  <2>b. c \in Ceremonies /\ (c.phase # "idle" => c.e # 0)
    BY <1>9, <1>0, IdleFacts DEF ReleaseDone, EpochNamed
  <2> HIDE DEF c
  <2>1. proc' \in [Procs -> Ceremonies] /\ EpochNamed'
    BY <1>0, <2>a, <2>b, OneProcMoves
  <2>2. TypeOK'
    BY SMTT(30), <1>9, <1>0, <2>1, ClusterAssumption
       DEF ReleaseDone, TypeOK, Epochs, rankVars, history
  <2>. QED  BY <2>1, <2>2
<1>10. ASSUME NEW p \in Procs, Settle(p) PROVE TypeOK' /\ EpochNamed'
  <2> DEFINE c == Ceremony("settling", proc[p].e, Nodes, {}, {})
  <2>a. proc' = [proc EXCEPT ![p] = c]
    BY <1>10 DEF Settle
  <2>b. c \in Ceremonies /\ (c.phase # "idle" => c.e # 0)
    BY <1>10, <1>0, CeremonyMade, SetFacts DEF Settle, EpochNamed
  <2> HIDE DEF c
  <2>1. proc' \in [Procs -> Ceremonies] /\ EpochNamed'
    BY <1>0, <2>a, <2>b, OneProcMoves
  <2>2. TypeOK'
    BY SMTT(30), <1>10, <1>0, <2>1, ClusterAssumption DEF Settle, TypeOK, Epochs, rankVars, history
  <2>. QED  BY <2>1, <2>2
<1>11. ASSUME NEW p \in Procs, SettleDone(p) PROVE TypeOK' /\ EpochNamed'
  <2> DEFINE c == (IF proc[p].got = {} THEN Idle
                   ELSE Ceremony("tearing", proc[p].e, Nodes, {}, {}))
  <2>a. proc' = [proc EXCEPT ![p] = c]
    BY <1>11 DEF SettleDone
  <2>b. c \in Ceremonies /\ (c.phase # "idle" => c.e # 0)
    BY <1>11, <1>0, CeremonyMade, SetFacts, IdleFacts DEF SettleDone, EpochNamed
  <2> HIDE DEF c
  <2>1. proc' \in [Procs -> Ceremonies] /\ EpochNamed'
    BY <1>0, <2>a, <2>b, OneProcMoves
  <2>e. /\ proc[p].e \in 0..MaxEpochs /\ proc[p].e \in Epochs /\ proc[p].e # 0
        /\ proc[p].got \in SUBSET Nodes /\ Nodes # {} /\ 0 \in 0..MaxEpochs
    <3>1. 1 \in Nodes
      BY ClusterAssumption DEF Nodes
    <3>. QED  BY <1>11, <1>0, <3>1, SetFacts, ClusterAssumption
       DEF SettleDone, EpochNamed, Epochs
  <2>f. /\ running' \in [epoch : 0..MaxEpochs, up : SUBSET Nodes]
        /\ running'.epoch = 0 <=> running'.up = {}
    BY <1>11, <1>0, <2>e DEF SettleDone, TypeOK
  <2>g. reported' \subseteq Epochs
    BY <1>11, <1>0, <2>e DEF SettleDone, TypeOK, history
  <2>2. TypeOK'
    BY SMTT(30), <1>11, <1>0, <2>1, <2>f, <2>g DEF SettleDone, TypeOK, rankVars, history
  <2>. QED  BY <2>1, <2>2
<1>12. ASSUME NEW p \in Procs, UndoneOrTorn(p) PROVE TypeOK' /\ EpochNamed'
  <2> DEFINE c == (IF proc[p].phase = "tearing" THEN Idle
                   ELSE Ceremony("releasing", proc[p].e, proc[p].rest, {}, {}))
  <2>a. proc' = [proc EXCEPT ![p] = c]
    BY <1>12 DEF UndoneOrTorn
  <2>b. c \in Ceremonies /\ (c.phase # "idle" => c.e # 0)
    BY <1>12, <1>0, CeremonyMade, SetFacts, IdleFacts DEF UndoneOrTorn, EpochNamed
  <2> HIDE DEF c
  <2>1. proc' \in [Procs -> Ceremonies] /\ EpochNamed'
    BY <1>0, <2>a, <2>b, OneProcMoves
  <2>2. TypeOK'
    BY SMTT(30), <1>12, <1>0, <2>1, ClusterAssumption
       DEF UndoneOrTorn, TypeOK, Epochs, rankVars, history
  <2>. QED  BY <2>1, <2>2
<1>13. ASSUME NEW p \in Procs, StopDone(p) PROVE TypeOK' /\ EpochNamed'
  <2> DEFINE c == Idle
  <2>a. proc' = [proc EXCEPT ![p] = c]
    BY <1>13 DEF StopDone
  <2>b. c \in Ceremonies /\ (c.phase # "idle" => c.e # 0)
    BY <1>13, <1>0, IdleFacts DEF StopDone, EpochNamed
  <2> HIDE DEF c
  <2>1. proc' \in [Procs -> Ceremonies] /\ EpochNamed'
    BY <1>0, <2>a, <2>b, OneProcMoves
  <2>e. /\ proc[p].e \in 0..MaxEpochs /\ proc[p].e \in Epochs /\ proc[p].e # 0
        /\ proc[p].got \in SUBSET Nodes /\ Nodes # {} /\ 0 \in 0..MaxEpochs
    <3>1. 1 \in Nodes
      BY ClusterAssumption DEF Nodes
    <3>. QED  BY <1>13, <1>0, <3>1, SetFacts, ClusterAssumption
       DEF StopDone, EpochNamed, Epochs
  <2>f. /\ running' \in [epoch : 0..MaxEpochs, up : SUBSET Nodes]
        /\ running'.epoch = 0 <=> running'.up = {}
    BY <1>13, <1>0, <2>e DEF StopDone, TypeOK, NoCluster
  <2>g. reported' \subseteq Epochs
    BY <1>13, <1>0, <2>e DEF StopDone, TypeOK, history
  <2>2. TypeOK'
    BY SMTT(30), <1>13, <1>0, <2>1, <2>f, <2>g DEF StopDone, TypeOK, rankVars, history
  <2>. QED  BY <2>1, <2>2
<1>14. CASE BeginSupervise
  <2> DEFINE c == Ceremony("checking", running.epoch, running.up, {}, {})
  <2>a. proc' = [proc EXCEPT ![Supervisor] = c]
    BY <1>14 DEF BeginSupervise
  <2>b. c \in Ceremonies /\ (c.phase # "idle" => c.e # 0)
    BY <1>14, <1>0, <1>p, <1>r, CeremonyMade, SetFacts DEF BeginSupervise, EpochNamed
  <2> HIDE DEF c
  <2>1. proc' \in [Procs -> Ceremonies] /\ EpochNamed'
    BY <1>0, <1>p, <1>r, <2>a, <2>b, OneProcMoves
  <2>2. TypeOK'
    BY SMTT(30), <1>14, <1>0, <2>1, ClusterAssumption
       DEF BeginSupervise, TypeOK, Epochs, NoCluster, rankVars, history
  <2>. QED  BY <2>1, <2>2
<1>15. CASE CheckDone
  <2> DEFINE c == (IF proc[Supervisor].got = {} THEN Idle
                   ELSE Ceremony("ending", proc[Supervisor].e, running.up, {}, {}))
  <2>a. proc' = [proc EXCEPT ![Supervisor] = c]
    BY <1>15 DEF CheckDone
  <2>b. c \in Ceremonies /\ (c.phase # "idle" => c.e # 0)
    BY <1>15, <1>0, <1>p, <1>r, CeremonyMade, SetFacts, IdleFacts DEF CheckDone, EpochNamed
  <2> HIDE DEF c
  <2>1. proc' \in [Procs -> Ceremonies] /\ EpochNamed'
    BY <1>0, <1>p, <1>r, <2>a, <2>b, OneProcMoves
  <2>2. TypeOK'
    BY SMTT(30), <1>15, <1>0, <2>1, ClusterAssumption DEF CheckDone, TypeOK, Epochs, rankVars, history
  <2>. QED  BY <2>1, <2>2
<1>16. CASE EndDone
  <2> DEFINE c == Idle
  <2>a. proc' = [proc EXCEPT ![Supervisor] = c]
    BY <1>16 DEF EndDone
  <2>b. c \in Ceremonies /\ (c.phase # "idle" => c.e # 0)
    BY <1>16, <1>0, <1>p, <1>r, IdleFacts DEF EndDone, EpochNamed
  <2> HIDE DEF c
  <2>1. proc' \in [Procs -> Ceremonies] /\ EpochNamed'
    BY <1>0, <1>p, <1>r, <2>a, <2>b, OneProcMoves
  <2>2. TypeOK'
    BY SMTT(30), <1>16, <1>0, <2>1, ClusterAssumption
       DEF EndDone, TypeOK, Epochs, NoCluster, rankVars, history
  <2>. QED  BY <2>1, <2>2
<1>17. ASSUME NEW n \in Nodes, NEW e \in Epochs, RankPrepares(n, e) PROVE TypeOK'
       /\ EpochNamed'
  <2> DEFINE f == [p \in Procs |-> IF Awaits("preparing", p, n, e) THEN Counted(proc[p], n)
                                   ELSE proc[p]]
  <2>a. proc' = f
    BY <1>17 DEF RankPrepares
  <2>b. f \in [Procs -> Ceremonies]
        /\ \A p \in Procs : f[p].phase # "idle" => f[p].e # 0
    BY <1>17, <1>0, CeremonyChanges DEF Awaits, EpochNamed
  <2> HIDE DEF f
  <2>1. proc' \in [Procs -> Ceremonies] /\ EpochNamed'
    BY <1>0, <2>a, <2>b, AwaitingProcsMove
  <2>2. TypeOK'
    BY SMTT(30), <1>17, <1>0, <2>1, ClusterAssumption
       DEF RankPrepares, TypeOK, Reserve, Epochs, rankVars, history
  <2>. QED  BY <2>1, <2>2
<1>18. ASSUME NEW n \in Nodes, NEW e \in Epochs, RankRefuses(n, e) PROVE TypeOK'
       /\ EpochNamed'
  <2> DEFINE f == [p \in Procs |-> IF Awaits("preparing", p, n, e) THEN Behind(proc[p], n)
                                   ELSE proc[p]]
  <2>a. proc' = f
    BY <1>18 DEF RankRefuses
  <2>b. f \in [Procs -> Ceremonies]
        /\ \A p \in Procs : f[p].phase # "idle" => f[p].e # 0
    BY <1>18, <1>0, CeremonyChanges DEF Awaits, EpochNamed
  <2> HIDE DEF f
  <2>1. proc' \in [Procs -> Ceremonies] /\ EpochNamed'
    BY <1>0, <2>a, <2>b, AwaitingProcsMove
  <2>2. TypeOK'
    BY SMTT(30), <1>18, <1>0, <2>1, ClusterAssumption
       DEF RankRefuses, TypeOK, Epochs, rankVars, history
  <2>. QED  BY <2>1, <2>2
<1>19. ASSUME NEW n \in Nodes, NEW e \in Epochs, RankStarts(n, e) PROVE TypeOK'
       /\ EpochNamed'
  <2> DEFINE f == [p \in Procs |-> IF Awaits("committing", p, n, e) THEN Counted(proc[p], n)
                                   ELSE proc[p]]
  <2>a. proc' = f
    BY <1>19 DEF RankStarts
  <2>b. f \in [Procs -> Ceremonies]
        /\ \A p \in Procs : f[p].phase # "idle" => f[p].e # 0
    BY <1>19, <1>0, CeremonyChanges DEF Awaits, EpochNamed
  <2> HIDE DEF f
  <2>1. proc' \in [Procs -> Ceremonies] /\ EpochNamed'
    BY <1>0, <2>a, <2>b, AwaitingProcsMove
  <2>2. TypeOK'
    BY SMTT(30), <1>19, <1>0, <2>1, ClusterAssumption
       DEF RankStarts, TypeOK, Epochs, rankVars, history
  <2>. QED  BY <2>1, <2>2
<1>20. ASSUME NEW s \in Sessions, BeginPrepare(s) PROVE TypeOK' /\ EpochNamed'
  <2> DEFINE c == Ceremony("preparing", epoch + 1, Nodes, {}, {})
  <2>a. proc' = [proc EXCEPT ![s] = c]
    BY <1>20 DEF BeginPrepare
  <2>b. c \in Ceremonies /\ (c.phase # "idle" => c.e # 0)
    BY <1>20, <1>0, <1>p, <1>r, CeremonyMade, SetFacts DEF BeginPrepare, EpochNamed
  <2> HIDE DEF c
  <2>1. proc' \in [Procs -> Ceremonies] /\ EpochNamed'
    BY <1>0, <1>p, <1>r, <2>a, <2>b, OneProcMoves
  <2>2. TypeOK'
    BY SMTT(30), <1>20, <1>0, <2>1, ClusterAssumption
       DEF BeginPrepare, TypeOK, Epochs, NoCluster, rankVars, history
  <2>. QED  BY <2>1, <2>2
<1>21. ASSUME NEW s \in Sessions, BeginAbort(s) PROVE TypeOK' /\ EpochNamed'
  <2> DEFINE c == Ceremony("releasing", pending, Nodes, {}, {})
  <2>a. proc' = [proc EXCEPT ![s] = c]
    BY <1>21 DEF BeginAbort
  <2>b. c \in Ceremonies /\ (c.phase # "idle" => c.e # 0)
    BY <1>21, <1>0, <1>p, <1>r, CeremonyMade, SetFacts DEF BeginAbort, EpochNamed
  <2> HIDE DEF c
  <2>1. proc' \in [Procs -> Ceremonies] /\ EpochNamed'
    BY <1>0, <1>p, <1>r, <2>a, <2>b, OneProcMoves
  <2>2. TypeOK'
    BY SMTT(30), <1>21, <1>0, <2>1, ClusterAssumption
       DEF BeginAbort, TypeOK, Epochs, rankVars, history
  <2>. QED  BY <2>1, <2>2
<1>22. ASSUME NEW s \in Sessions, BeginCommit(s) PROVE TypeOK' /\ EpochNamed'
  <2> DEFINE c == Ceremony("committing", pending, Nodes, {}, {})
  <2>a. proc' = [proc EXCEPT ![s] = c]
    BY <1>22 DEF BeginCommit
  <2>b. c \in Ceremonies /\ (c.phase # "idle" => c.e # 0)
    BY <1>22, <1>0, <1>p, <1>r, CeremonyMade, SetFacts DEF BeginCommit, EpochNamed
  <2> HIDE DEF c
  <2>1. proc' \in [Procs -> Ceremonies] /\ EpochNamed'
    BY <1>0, <1>p, <1>r, <2>a, <2>b, OneProcMoves
  <2>2. TypeOK'
    BY SMTT(30), <1>22, <1>0, <2>1, ClusterAssumption
       DEF BeginCommit, TypeOK, Epochs, rankVars, history
  <2>. QED  BY <2>1, <2>2
<1>23. ASSUME NEW s \in Sessions, BeginStop(s) PROVE TypeOK' /\ EpochNamed'
  <2> DEFINE c == Ceremony("stopping", running.epoch, running.up, {}, {})
  <2>a. proc' = [proc EXCEPT ![s] = c]
    BY <1>23 DEF BeginStop
  <2>b. c \in Ceremonies /\ (c.phase # "idle" => c.e # 0)
    BY <1>23, <1>0, <1>p, <1>r, CeremonyMade, SetFacts DEF BeginStop, EpochNamed
  <2> HIDE DEF c
  <2>1. proc' \in [Procs -> Ceremonies] /\ EpochNamed'
    BY <1>0, <1>p, <1>r, <2>a, <2>b, OneProcMoves
  <2>2. TypeOK'
    BY SMTT(30), <1>23, <1>0, <2>1, ClusterAssumption
       DEF BeginStop, TypeOK, Epochs, NoCluster, rankVars, history
  <2>. QED  BY <2>1, <2>2
<1>24. ASSUME NEW n \in Nodes, NEW e \in Epochs, RankStartFails(n, e) PROVE TypeOK'
       /\ EpochNamed'
  <2> DEFINE f == [p \in Procs |-> IF Awaits("committing", p, n, e) THEN Undo(proc[p])
                                   ELSE proc[p]]
  <2>a. proc' = f
    BY <1>24 DEF RankStartFails
  <2>b. f \in [Procs -> Ceremonies]
        /\ \A p \in Procs : f[p].phase # "idle" => f[p].e # 0
    BY <1>24, <1>0, UndoFacts DEF Awaits, EpochNamed
  <2> HIDE DEF f
  <2>1. proc' \in [Procs -> Ceremonies] /\ EpochNamed'
    BY <1>0, <2>a, <2>b, AwaitingProcsMove
  <2>2. TypeOK'
    BY SMTT(30), <1>24, <1>0, <2>1, ClusterAssumption
       DEF RankStartFails, TypeOK, Epochs, rankVars, history, Fault
  <2>. QED  BY <2>1, <2>2
<1>25. ASSUME NEW p \in Procs, NEW n \in Nodes, RankStopFails(p, n) PROVE TypeOK'
       /\ EpochNamed'
  <2> DEFINE c == (IF n \in Local THEN Counted(proc[p], n) ELSE Behind(proc[p], n))
  <2>a. proc' = [proc EXCEPT ![p] = c]
    BY <1>25 DEF RankStopFails
  <2>b. c \in Ceremonies /\ (c.phase # "idle" => c.e # 0)
    BY <1>25, <1>0, CeremonyChanges DEF RankStopFails, EpochNamed, StopPhases, Asks
  <2> HIDE DEF c
  <2>1. proc' \in [Procs -> Ceremonies] /\ EpochNamed'
    BY <1>0, <2>a, <2>b, OneProcMoves
  <2>2. TypeOK'
    BY SMTT(30), <1>25, <1>0, <2>1, ClusterAssumption
       DEF RankStopFails, TypeOK, Epochs, rankVars, history, Fault
  <2>. QED  BY <2>1, <2>2
<1>26. ASSUME NEW p \in Procs, NEW n \in Nodes, CallFails(p, n) PROVE TypeOK' /\ EpochNamed'
  <2> DEFINE c == Unanswered(proc[p], n)
  <2>a. proc' = [proc EXCEPT ![p] = c]
    BY <1>26 DEF CallFails
  <2>b. c \in Ceremonies /\ (c.phase # "idle" => c.e # 0)
    BY <1>26, <1>0, UnansweredFacts DEF CallFails, EpochNamed, Asks
  <2> HIDE DEF c
  <2>1. proc' \in [Procs -> Ceremonies] /\ EpochNamed'
    BY <1>0, <2>a, <2>b, OneProcMoves
  <2>e. proc[p].e \in Epochs /\ proc[p].phase \in Phases
    BY <1>26, <1>0, ClusterAssumption DEF CallFails, EpochNamed, Epochs, Ceremonies
  <2>f. late' \subseteq Calls
    BY <1>26, <1>0, <2>e DEF CallFails, TypeOK, Calls, Verb, Phases
  <2>2. TypeOK'
    BY SMTT(30), <1>26, <1>0, <2>1, <2>f, ClusterAssumption
       DEF CallFails, TypeOK, rankVars, history, Fault
  <2>. QED  BY <2>1, <2>2
<1>27. ASSUME NEW m \in late, LateArrives(m) PROVE TypeOK' /\ EpochNamed'
  <2>1. proc' \in [Procs -> Ceremonies] /\ EpochNamed'
    BY <1>27, <1>0 DEF LateArrives, EpochNamed
  <2>e. m.node \in Nodes /\ m.e \in Epochs /\ late' \subseteq Calls
    BY <1>27, <1>0 DEF LateArrives, TypeOK, Calls
  <2>f. /\ vetting' \in [Nodes -> SUBSET Epochs]
        /\ starting' \in [Nodes -> SUBSET Epochs]
        /\ docker' \in [Nodes -> 0..MaxEpochs]
    <3>1. vetting' \in [Nodes -> SUBSET Epochs]
      BY <1>27, <1>0, <2>e DEF LateArrives, TypeOK, Vet
    <3>2. starting' \in [Nodes -> SUBSET Epochs]
      BY <1>27, <1>0, <2>e DEF LateArrives, TypeOK, Take
    <3>3. docker' \in [Nodes -> 0..MaxEpochs]
      BY <1>27, <1>0, <2>e, ClusterAssumption DEF LateArrives, TypeOK
    <3>. QED  BY <3>1, <3>2, <3>3
  <2>g. ReservedOK'
    <3>1. ReservedOK
      BY <1>0 DEF TypeOK, ReservedOK
    <3>2. \/ ReleaseExpired(m.node, m.e) \/ Release(m.node, m.e) \/ reserved' = reserved
          \/ reserved' = [reserved EXCEPT ![m.node] = NoReservation]
      BY <1>27 DEF LateArrives, Vet, Take
    <3>. QED  BY <2>e, <3>1, <3>2, SlotChanges
  <2>2. TypeOK'
    BY SMTT(30), <1>27, <1>0, <2>1, <2>e, <2>f, <2>g DEF LateArrives, TypeOK, ReservedOK, history
  <2>. QED  BY <2>1, <2>2
<1>28. ASSUME NEW n \in Nodes, Expire(n) PROVE TypeOK' /\ EpochNamed'
  <2>1. proc' \in [Procs -> Ceremonies] /\ EpochNamed'
    BY <1>28, <1>0 DEF Expire, EpochNamed
  <2>a. ReservedOK
    BY <1>0 DEF TypeOK, ReservedOK
  <2>b. /\ reserved[n].epoch # 0
        /\ reserved' = [reserved EXCEPT ![n].expired = TRUE]
        /\ UNCHANGED <<epoch, pending, running, proc, vetting, starting, docker, late, faults,
                       history>>
    BY <1>28 DEF Expire
  <2>c. ReservedOK'
    BY <2>a, <2>b DEF ReservedOK
  <2>2. TypeOK'
    BY <1>0, <2>b, <2>c DEF TypeOK, ReservedOK, history
  <2>. QED  BY <2>1, <2>2
<1>29. ASSUME NEW n \in Nodes, Dies(n) PROVE TypeOK' /\ EpochNamed'
  <2>1. proc' \in [Procs -> Ceremonies] /\ EpochNamed'
    BY <1>29, <1>0 DEF Dies, EpochNamed
  <2>2. TypeOK'
    BY SMTT(30), <1>29, <1>0, <2>1, ClusterAssumption
       DEF Dies, TypeOK, Epochs, rankVars, history, Fault
  <2>. QED  BY <2>1, <2>2
<1>30. ASSUME NEW n \in Nodes, RankRestart(n) PROVE TypeOK' /\ EpochNamed'
  <2> DEFINE f == [p \in Procs |->
               IF \E e \in vetting[n] : Awaits("preparing", p, n, e) THEN Behind(proc[p], n)
               ELSE IF \E e \in starting[n] : Awaits("committing", p, n, e) THEN Undo(proc[p])
               ELSE proc[p]]
  <2>a. proc' = f
    BY <1>30 DEF RankRestart
  <2>b. f \in [Procs -> Ceremonies]
        /\ \A p \in Procs : f[p].phase # "idle" => f[p].e # 0
    BY <1>30, <1>0, CeremonyChanges, UndoFacts DEF Awaits, EpochNamed
  <2> HIDE DEF f
  <2>1. proc' \in [Procs -> Ceremonies] /\ EpochNamed'
    BY <1>0, <2>a, <2>b, AwaitingProcsMove
  <2>c. faults' \in 0..MaxFaults
    BY <1>30, <1>0, FaultCounted DEF RankRestart, TypeOK
  <2>d. /\ reserved' = [reserved EXCEPT ![n] = NoReservation]
        /\ vetting' = [vetting EXCEPT ![n] = {}]
        /\ starting' = [starting EXCEPT ![n] = {}]
        /\ UNCHANGED <<epoch, pending, running, docker, late, history>>
    BY <1>30 DEF RankRestart
  <2>2. TypeOK'
    BY SMTT(30), <1>0, <2>1, <2>c, <2>d, ClusterAssumption
       DEF TypeOK, Epochs, NoReservation, history
  <2>. QED  BY <2>1, <2>2
<1>31. CASE HeadRestart
  <2> DEFINE f == [p \in Procs |-> Idle]
  <2>a. proc' = f
    BY <1>31 DEF HeadRestart
  <2>b. f \in [Procs -> Ceremonies]
        /\ \A p \in Procs : f[p].phase # "idle" => f[p].e # 0
    BY <1>31, <1>0, IdleFacts DEF Awaits, EpochNamed
  <2> HIDE DEF f
  <2>1. proc' \in [Procs -> Ceremonies] /\ EpochNamed'
    BY <1>0, <2>a, <2>b, AwaitingProcsMove
  <2>2. TypeOK'
    BY SMTT(30), <1>31, <1>0, <2>1, ClusterAssumption
       DEF HeadRestart, TypeOK, Epochs, NoCluster, NoReservation, rankVars, history, Fault
  <2>. QED  BY <2>1, <2>2
<1>32. CASE UNCHANGED vars
  BY <1>32, <1>0 DEF vars, rankVars, history, TypeOK, EpochNamed
<1>. QED
  BY <1>1, <1>2, <1>3, <1>4, <1>5, <1>6, <1>7, <1>8, <1>9, <1>10, <1>11, <1>12, <1>13,
     <1>14, <1>15, <1>16, <1>17, <1>18, <1>19, <1>20, <1>21, <1>22, <1>23, <1>24, <1>25,
     <1>26, <1>27, <1>28, <1>29, <1>30, <1>31, <1>32
     DEF Next, Driver, Rank, Supervise, Ranks, Works, Requests, Environment

-----------------------------------------------------------------------------
(* Consent *)

(* One process moves on: what it has counted was said, and what it commits *)
(* was consented to.                                                       *)
LEMMA OneProcConsents ==
  ASSUME proc \in [Procs -> Ceremonies], CountedIsSaid, CommittingConsented,
         NEW p \in Procs, NEW c, proc' = [proc EXCEPT ![p] = c], said' = said,
         c.phase = "preparing" => c.got \subseteq said[c.e],
         c.phase = "committing" => said[c.e] = Nodes
  PROVE  CountedIsSaid' /\ CommittingConsented'
  BY DEF CountedIsSaid, CommittingConsented, Consented

(* A rank answers whoever waits for it, which keeps the chain of consent. *)
LEMMA AwaitingProcsConsent ==
  ASSUME NEW f \in [Procs -> Ceremonies], proc' = f, said' = said,
         \A p \in Procs : f[p].phase = "preparing" => f[p].got \subseteq said[f[p].e],
         \A p \in Procs : f[p].phase = "committing" => said[f[p].e] = Nodes
  PROVE  CountedIsSaid' /\ CommittingConsented'
  BY DEF CountedIsSaid, CommittingConsented, Consented

(* Nothing but the ceremonies changes, so far as consent goes. *)
LEMMA ConsentKept ==
  ASSUME said' = said, pending' = pending, late' = late, starting' = starting, docker' = docker,
         PendingConsented, LateConsented, StartedWithConsent
  PROVE  PendingConsented' /\ LateConsented' /\ StartedWithConsent'
  BY DEF PendingConsented, LateConsented, StartedWithConsent, Consented

(* Every step keeps the chain of consent. *)
LEMMA ConsentStep == TypeOK /\ ConsentInv /\ [Next]_vars => ConsentInv'
<1>. SUFFICES ASSUME TypeOK, ConsentInv, [Next]_vars
             PROVE  ConsentInv'
  OBVIOUS
<1>0. /\ TypeOK /\ EpochNamed /\ CountedIsSaid /\ PendingConsented /\ CommittingConsented
      /\ LateConsented /\ StartedWithConsent
      /\ proc \in [Procs -> Ceremonies] /\ \A p \in Procs : proc[p] \in Ceremonies
  BY DEF TypeOK, ConsentInv
<1>e. EpochNamed'
  BY <1>0, TypeStep
<1>r. /\ running.epoch \in 0..MaxEpochs /\ running.up \in SUBSET Nodes
      /\ pending \in 0..MaxEpochs /\ epoch \in 0..MaxEpochs /\ MaxEpochs \in Nat
  BY ClusterAssumption DEF TypeOK
<1>p. Supervisor \in Procs /\ Sessions \subseteq Procs
  BY DEF Procs
<1>1. ASSUME NEW p \in Procs, NEW n \in Nodes, RankVets(p, n) PROVE ConsentInv'
  <2>1. CountedIsSaid' /\ CommittingConsented'
    BY <1>1, <1>0 DEF RankVets, CountedIsSaid, CommittingConsented, Consented, history
  <2>2. PendingConsented' /\ LateConsented' /\ StartedWithConsent'
    BY <1>1, <1>0, ConsentKept DEF RankVets, rankVars, history
  <2>. QED  BY <1>e, <2>1, <2>2 DEF ConsentInv
<1>2. ASSUME NEW p \in Procs, NEW n \in Nodes, RankDeclines(p, n) PROVE ConsentInv'
  <2> DEFINE c == Behind(proc[p], n)
  <2>a. proc' = [proc EXCEPT ![p] = c] /\ said' = said
    BY <1>2 DEF RankDeclines, history
  <2>b. /\ c.phase = "preparing" => c.got \subseteq said[c.e]
        /\ c.phase = "committing" => said[c.e] = Nodes
    BY <1>2, <1>0, CeremonyChanges
       DEF RankDeclines, CountedIsSaid, CommittingConsented, Consented
  <2> HIDE DEF c
  <2>1. CountedIsSaid' /\ CommittingConsented'
    BY <1>0, <2>a, <2>b, OneProcConsents
  <2>2. PendingConsented' /\ LateConsented' /\ StartedWithConsent'
    BY <1>2, <1>0, ConsentKept DEF RankDeclines, rankVars, history
  <2>. QED  BY <1>e, <2>1, <2>2 DEF ConsentInv
<1>3. ASSUME NEW p \in Procs, NEW n \in Nodes, RankReleases(p, n) PROVE ConsentInv'
  <2> DEFINE c == Behind(proc[p], n)
  <2>a. proc' = [proc EXCEPT ![p] = c] /\ said' = said
    BY <1>3 DEF RankReleases, history
  <2>b. /\ c.phase = "preparing" => c.got \subseteq said[c.e]
        /\ c.phase = "committing" => said[c.e] = Nodes
    BY <1>3, <1>0, CeremonyChanges
       DEF RankReleases, CountedIsSaid, CommittingConsented, Consented
  <2> HIDE DEF c
  <2>1. CountedIsSaid' /\ CommittingConsented'
    BY <1>0, <2>a, <2>b, OneProcConsents
  <2>2. PendingConsented' /\ LateConsented' /\ StartedWithConsent'
    BY <1>3, <1>0, ConsentKept DEF RankReleases, rankVars, history
  <2>. QED  BY <1>e, <2>1, <2>2 DEF ConsentInv
<1>4. ASSUME NEW p \in Procs, NEW n \in Nodes, RankTakes(p, n) PROVE ConsentInv'
  <2>1. CountedIsSaid' /\ CommittingConsented'
    BY <1>4, <1>0 DEF RankTakes, CountedIsSaid, CommittingConsented, Consented, history
  <2>2. PendingConsented' /\ LateConsented' /\ StartedWithConsent'
    BY <1>4, <1>0, <1>r
       DEF RankTakes, PendingConsented, LateConsented, StartedWithConsent, Consented,
           rankVars, history, Take, TypeOK, CommittingConsented
  <2>. QED  BY <1>e, <2>1, <2>2 DEF ConsentInv
<1>5. ASSUME NEW p \in Procs, NEW n \in Nodes, RankHasNone(p, n) PROVE ConsentInv'
  <2> DEFINE c == Undo(proc[p])
  <2>a. proc' = [proc EXCEPT ![p] = c] /\ said' = said
    BY <1>5 DEF RankHasNone, history
  <2>b. /\ c.phase = "preparing" => c.got \subseteq said[c.e]
        /\ c.phase = "committing" => said[c.e] = Nodes
    BY <1>5, <1>0, UndoFacts DEF RankHasNone, CountedIsSaid, CommittingConsented, Consented
  <2> HIDE DEF c
  <2>1. CountedIsSaid' /\ CommittingConsented'
    BY <1>0, <2>a, <2>b, OneProcConsents
  <2>2. PendingConsented' /\ LateConsented' /\ StartedWithConsent'
    BY <1>5, <1>0, ConsentKept DEF RankHasNone, rankVars, history
  <2>. QED  BY <1>e, <2>1, <2>2 DEF ConsentInv
<1>6. ASSUME NEW p \in Procs, NEW n \in Nodes, RankIsAlive(p, n) PROVE ConsentInv'
  <2> DEFINE c == (IF docker[n] # 0 THEN Behind(proc[p], n) ELSE Counted(proc[p], n))
  <2>a. proc' = [proc EXCEPT ![p] = c] /\ said' = said
    BY <1>6 DEF RankIsAlive, history
  <2>b. /\ c.phase = "preparing" => c.got \subseteq said[c.e]
        /\ c.phase = "committing" => said[c.e] = Nodes
    BY <1>6, <1>0, CeremonyChanges
       DEF RankIsAlive, CountedIsSaid, CommittingConsented, Consented
  <2> HIDE DEF c
  <2>1. CountedIsSaid' /\ CommittingConsented'
    BY <1>0, <2>a, <2>b, OneProcConsents
  <2>2. PendingConsented' /\ LateConsented' /\ StartedWithConsent'
    BY <1>6, <1>0, ConsentKept DEF RankIsAlive, rankVars, history
  <2>. QED  BY <1>e, <2>1, <2>2 DEF ConsentInv
<1>7. ASSUME NEW p \in Procs, NEW n \in Nodes, RankStops(p, n) PROVE ConsentInv'
  <2> DEFINE c == Behind(proc[p], n)
  <2>a. proc' = [proc EXCEPT ![p] = c] /\ said' = said
    BY <1>7 DEF RankStops, history
  <2>b. /\ c.phase = "preparing" => c.got \subseteq said[c.e]
        /\ c.phase = "committing" => said[c.e] = Nodes
    BY <1>7, <1>0, CeremonyChanges
       DEF RankStops, CountedIsSaid, CommittingConsented, Consented, StopPhases
  <2> HIDE DEF c
  <2>1. CountedIsSaid' /\ CommittingConsented'
    BY <1>0, <2>a, <2>b, OneProcConsents
  <2>2. PendingConsented' /\ LateConsented' /\ StartedWithConsent'
    BY <1>7, <1>0
       DEF RankStops, PendingConsented, LateConsented, StartedWithConsent, Consented,
           rankVars, history, TypeOK
  <2>. QED  BY <1>e, <2>1, <2>2 DEF ConsentInv
<1>8. ASSUME NEW p \in Procs, PrepareDone(p) PROVE ConsentInv'
  <2> DEFINE c == (IF proc[p].got = Nodes THEN Idle
                   ELSE Ceremony("releasing", proc[p].e, proc[p].got, {}, {}))
  <2>a. proc' = [proc EXCEPT ![p] = c] /\ said' = said
    BY <1>8 DEF PrepareDone, history
  <2>b. /\ c.phase = "preparing" => c.got \subseteq said[c.e]
        /\ c.phase = "committing" => said[c.e] = Nodes
    BY <1>8, <1>0, CeremonyMade, SetFacts, IdleFacts
       DEF PrepareDone, CountedIsSaid, CommittingConsented, Consented
  <2> HIDE DEF c
  <2>1. CountedIsSaid' /\ CommittingConsented'
    BY <1>0, <2>a, <2>b, OneProcConsents
  <2>2. PendingConsented'
    <3>1. proc[p].got = Nodes => said[proc[p].e] = Nodes
      <4>1. proc[p].got \subseteq said[proc[p].e] /\ proc[p].e \in Epochs
        BY <1>8, <1>0, <1>r, SetFacts DEF PrepareDone, CountedIsSaid, EpochNamed, Epochs
      <4>2. said[proc[p].e] \subseteq Nodes
        BY <1>0, <4>1 DEF TypeOK
      <4>. QED  BY <4>1, <4>2
    <3>. QED  BY <1>8, <1>0, <3>1 DEF PrepareDone, PendingConsented, Consented, history
  <2>3. LateConsented' /\ StartedWithConsent'
    BY <1>8, <1>0
       DEF PrepareDone, PendingConsented, LateConsented, StartedWithConsent, Consented,
           rankVars, history
  <2>. QED  BY <1>e, <2>1, <2>2, <2>3 DEF ConsentInv
<1>9. ASSUME NEW p \in Procs, ReleaseDone(p) PROVE ConsentInv'
  <2> DEFINE c == Idle
  <2>a. proc' = [proc EXCEPT ![p] = c] /\ said' = said
    BY <1>9 DEF ReleaseDone, history
  <2>b. /\ c.phase = "preparing" => c.got \subseteq said[c.e]
        /\ c.phase = "committing" => said[c.e] = Nodes
    BY <1>9, <1>0, IdleFacts DEF ReleaseDone, CountedIsSaid, CommittingConsented, Consented
  <2> HIDE DEF c
  <2>1. CountedIsSaid' /\ CommittingConsented'
    BY <1>0, <2>a, <2>b, OneProcConsents
  <2>2. PendingConsented' /\ LateConsented' /\ StartedWithConsent'
    BY <1>9, <1>0, ConsentKept DEF ReleaseDone, rankVars, history
  <2>. QED  BY <1>e, <2>1, <2>2 DEF ConsentInv
<1>10. ASSUME NEW p \in Procs, Settle(p) PROVE ConsentInv'
  <2> DEFINE c == Ceremony("settling", proc[p].e, Nodes, {}, {})
  <2>a. proc' = [proc EXCEPT ![p] = c] /\ said' = said
    BY <1>10 DEF Settle, history
  <2>b. /\ c.phase = "preparing" => c.got \subseteq said[c.e]
        /\ c.phase = "committing" => said[c.e] = Nodes
    BY <1>10, <1>0, CeremonyMade, SetFacts
       DEF Settle, CountedIsSaid, CommittingConsented, Consented
  <2> HIDE DEF c
  <2>1. CountedIsSaid' /\ CommittingConsented'
    BY <1>0, <2>a, <2>b, OneProcConsents
  <2>2. PendingConsented' /\ LateConsented' /\ StartedWithConsent'
    BY <1>10, <1>0, ConsentKept DEF Settle, rankVars, history
  <2>. QED  BY <1>e, <2>1, <2>2 DEF ConsentInv
<1>11. ASSUME NEW p \in Procs, SettleDone(p) PROVE ConsentInv'
  <2> DEFINE c == (IF proc[p].got = {} THEN Idle
                   ELSE Ceremony("tearing", proc[p].e, Nodes, {}, {}))
  <2>a. proc' = [proc EXCEPT ![p] = c] /\ said' = said
    BY <1>11 DEF SettleDone, history
  <2>b. /\ c.phase = "preparing" => c.got \subseteq said[c.e]
        /\ c.phase = "committing" => said[c.e] = Nodes
    BY <1>11, <1>0, CeremonyMade, SetFacts, IdleFacts
       DEF SettleDone, CountedIsSaid, CommittingConsented, Consented
  <2> HIDE DEF c
  <2>1. CountedIsSaid' /\ CommittingConsented'
    BY <1>0, <2>a, <2>b, OneProcConsents
  <2>2. PendingConsented' /\ LateConsented' /\ StartedWithConsent'
    BY <1>11, <1>0, ConsentKept DEF SettleDone, rankVars, history
  <2>. QED  BY <1>e, <2>1, <2>2 DEF ConsentInv
<1>12. ASSUME NEW p \in Procs, UndoneOrTorn(p) PROVE ConsentInv'
  <2> DEFINE c == (IF proc[p].phase = "tearing" THEN Idle
                   ELSE Ceremony("releasing", proc[p].e, proc[p].rest, {}, {}))
  <2>a. proc' = [proc EXCEPT ![p] = c] /\ said' = said
    BY <1>12 DEF UndoneOrTorn, history
  <2>b. /\ c.phase = "preparing" => c.got \subseteq said[c.e]
        /\ c.phase = "committing" => said[c.e] = Nodes
    BY <1>12, <1>0, CeremonyMade, SetFacts, IdleFacts
       DEF UndoneOrTorn, CountedIsSaid, CommittingConsented, Consented
  <2> HIDE DEF c
  <2>1. CountedIsSaid' /\ CommittingConsented'
    BY <1>0, <2>a, <2>b, OneProcConsents
  <2>2. PendingConsented' /\ LateConsented' /\ StartedWithConsent'
    BY <1>12, <1>0, ConsentKept DEF UndoneOrTorn, rankVars, history
  <2>. QED  BY <1>e, <2>1, <2>2 DEF ConsentInv
<1>13. ASSUME NEW p \in Procs, StopDone(p) PROVE ConsentInv'
  <2> DEFINE c == Idle
  <2>a. proc' = [proc EXCEPT ![p] = c] /\ said' = said
    BY <1>13 DEF StopDone, history
  <2>b. /\ c.phase = "preparing" => c.got \subseteq said[c.e]
        /\ c.phase = "committing" => said[c.e] = Nodes
    BY <1>13, <1>0, IdleFacts DEF StopDone, CountedIsSaid, CommittingConsented, Consented
  <2> HIDE DEF c
  <2>1. CountedIsSaid' /\ CommittingConsented'
    BY <1>0, <2>a, <2>b, OneProcConsents
  <2>2. PendingConsented' /\ LateConsented' /\ StartedWithConsent'
    BY <1>13, <1>0, ConsentKept DEF StopDone, rankVars, history
  <2>. QED  BY <1>e, <2>1, <2>2 DEF ConsentInv
<1>14. CASE BeginSupervise
  <2> DEFINE c == Ceremony("checking", running.epoch, running.up, {}, {})
  <2>a. proc' = [proc EXCEPT ![Supervisor] = c] /\ said' = said
    BY <1>14 DEF BeginSupervise, history
  <2>b. /\ c.phase = "preparing" => c.got \subseteq said[c.e]
        /\ c.phase = "committing" => said[c.e] = Nodes
    BY <1>14, <1>0, <1>p, <1>r, CeremonyMade, SetFacts
       DEF BeginSupervise, CountedIsSaid, CommittingConsented, Consented
  <2> HIDE DEF c
  <2>1. CountedIsSaid' /\ CommittingConsented'
    BY <1>0, <1>p, <2>a, <2>b, OneProcConsents
  <2>2. PendingConsented' /\ LateConsented' /\ StartedWithConsent'
    BY <1>14, <1>0, ConsentKept DEF BeginSupervise, rankVars, history
  <2>. QED  BY <1>e, <2>1, <2>2 DEF ConsentInv
<1>15. CASE CheckDone
  <2> DEFINE c == (IF proc[Supervisor].got = {} THEN Idle
                   ELSE Ceremony("ending", proc[Supervisor].e, running.up, {}, {}))
  <2>a. proc' = [proc EXCEPT ![Supervisor] = c] /\ said' = said
    BY <1>15 DEF CheckDone, history
  <2>b. /\ c.phase = "preparing" => c.got \subseteq said[c.e]
        /\ c.phase = "committing" => said[c.e] = Nodes
    BY <1>15, <1>0, <1>p, <1>r, CeremonyMade, SetFacts, IdleFacts
       DEF CheckDone, CountedIsSaid, CommittingConsented, Consented
  <2> HIDE DEF c
  <2>1. CountedIsSaid' /\ CommittingConsented'
    BY <1>0, <1>p, <2>a, <2>b, OneProcConsents
  <2>2. PendingConsented' /\ LateConsented' /\ StartedWithConsent'
    BY <1>15, <1>0, ConsentKept DEF CheckDone, rankVars, history
  <2>. QED  BY <1>e, <2>1, <2>2 DEF ConsentInv
<1>16. CASE EndDone
  <2> DEFINE c == Idle
  <2>a. proc' = [proc EXCEPT ![Supervisor] = c] /\ said' = said
    BY <1>16 DEF EndDone, history
  <2>b. /\ c.phase = "preparing" => c.got \subseteq said[c.e]
        /\ c.phase = "committing" => said[c.e] = Nodes
    BY <1>16, <1>0, <1>p, <1>r, IdleFacts
       DEF EndDone, CountedIsSaid, CommittingConsented, Consented
  <2> HIDE DEF c
  <2>1. CountedIsSaid' /\ CommittingConsented'
    BY <1>0, <1>p, <2>a, <2>b, OneProcConsents
  <2>2. PendingConsented' /\ LateConsented' /\ StartedWithConsent'
    BY <1>16, <1>0, ConsentKept DEF EndDone, rankVars, history
  <2>. QED  BY <1>e, <2>1, <2>2 DEF ConsentInv
<1>17. ASSUME NEW n \in Nodes, NEW e \in Epochs, RankPrepares(n, e) PROVE ConsentInv'
  <2> DEFINE f == [p \in Procs |-> IF Awaits("preparing", p, n, e) THEN Counted(proc[p], n)
                                   ELSE proc[p]]
  <2>a. proc' = f /\ said' \in [Epochs -> SUBSET Nodes] /\ said[e] \subseteq said'[e]
        /\ \A d \in Epochs \ {e} : said'[d] = said[d]
    BY <1>17, <1>0 DEF RankPrepares, TypeOK
  <2>b. \A d \in Epochs : Consented(d) => said'[d] = Nodes
    <3>1. said \in [Epochs -> SUBSET Nodes]
      BY <1>0 DEF TypeOK
    <3>. QED  BY <2>a, <3>1 DEF Consented
  <2>c. CountedIsSaid'
    <3> SUFFICES ASSUME NEW p \in Procs, f[p].phase = "preparing"
                 PROVE  f[p].got \subseteq said'[f[p].e]
      BY <2>a DEF CountedIsSaid
    <3>1. CASE Awaits("preparing", p, n, e)
      <4>1. f[p].got = proc[p].got \cup {n} /\ f[p].e = e /\ proc[p].e = e
            /\ proc[p].phase = "preparing"
        BY <1>0, <3>1, CeremonyChanges DEF Awaits
      <4>2. n \in said'[e]
        BY <1>17, <1>0, <3>1 DEF RankPrepares, TypeOK
      <4>3. proc[p].got \subseteq said[e]
        BY <1>0, <4>1 DEF CountedIsSaid
      <4>. QED  BY <2>a, <4>1, <4>2, <4>3
    <3>2. CASE ~Awaits("preparing", p, n, e)
      <4>1. f[p] = proc[p]
        BY <3>2
      <4>2. proc[p].e \in Epochs
        BY <1>0, <1>r, <4>1, SetFacts DEF EpochNamed, Epochs
      <4>. QED  BY <1>0, <2>a, <4>1, <4>2 DEF CountedIsSaid
    <3>. QED  BY <3>1, <3>2
  <2>d. CommittingConsented'
    <3> SUFFICES ASSUME NEW p \in Procs, f[p].phase = "committing"
                 PROVE  said'[f[p].e] = Nodes
      BY <2>a DEF CommittingConsented, Consented
    <3>1. f[p].phase = proc[p].phase /\ f[p].e = proc[p].e
      BY <1>0, CeremonyChanges
    <3>2. proc[p].e \in Epochs
      BY <1>0, <1>r, <3>1, SetFacts DEF EpochNamed, Epochs
    <3>. QED  BY <1>0, <2>b, <3>1, <3>2 DEF CommittingConsented
  <2>e. PendingConsented'
    BY <1>17, <1>0, <1>r, <2>b DEF RankPrepares, PendingConsented, Consented, Epochs
  <2>f. LateConsented'
    BY <1>17, <1>0, <2>b DEF RankPrepares, LateConsented, Consented, TypeOK, Calls
  <2>g. StartedWithConsent'
    BY SMTT(30), <1>17, <1>0, <1>r, <2>b
       DEF RankPrepares, StartedWithConsent, Consented, TypeOK, Epochs
  <2>. QED  BY <1>e, <2>c, <2>d, <2>e, <2>f, <2>g DEF ConsentInv
<1>18. ASSUME NEW n \in Nodes, NEW e \in Epochs, RankRefuses(n, e) PROVE ConsentInv'
  <2> DEFINE f == [p \in Procs |-> IF Awaits("preparing", p, n, e) THEN Behind(proc[p], n)
                                   ELSE proc[p]]
  <2>a. proc' = f /\ said' = said
    BY <1>18 DEF RankRefuses, history
  <2>b. /\ f \in [Procs -> Ceremonies]
        /\ \A p \in Procs : f[p].phase = "preparing" => f[p].got \subseteq said[f[p].e]
        /\ \A p \in Procs : f[p].phase = "committing" => said[f[p].e] = Nodes
    BY <1>18, <1>0, CeremonyChanges
       DEF Awaits, CountedIsSaid, CommittingConsented, Consented
  <2> HIDE DEF f
  <2>1. CountedIsSaid' /\ CommittingConsented'
    BY <2>a, <2>b, AwaitingProcsConsent
  <2>2. PendingConsented' /\ LateConsented' /\ StartedWithConsent'
    BY <1>18, <1>0, ConsentKept DEF RankRefuses, rankVars, history
  <2>. QED  BY <1>e, <2>1, <2>2 DEF ConsentInv
<1>19. ASSUME NEW n \in Nodes, NEW e \in Epochs, RankStarts(n, e) PROVE ConsentInv'
  <2> DEFINE f == [p \in Procs |-> IF Awaits("committing", p, n, e) THEN Counted(proc[p], n)
                                   ELSE proc[p]]
  <2>a. proc' = f /\ said' = said
    BY <1>19 DEF RankStarts, history
  <2>b. /\ f \in [Procs -> Ceremonies]
        /\ \A p \in Procs : f[p].phase = "preparing" => f[p].got \subseteq said[f[p].e]
        /\ \A p \in Procs : f[p].phase = "committing" => said[f[p].e] = Nodes
    BY <1>19, <1>0, CeremonyChanges
       DEF Awaits, CountedIsSaid, CommittingConsented, Consented
  <2> HIDE DEF f
  <2>1. CountedIsSaid' /\ CommittingConsented'
    BY <2>a, <2>b, AwaitingProcsConsent
  <2>2. PendingConsented' /\ LateConsented' /\ StartedWithConsent'
    BY <1>19, <1>0, <1>r
       DEF RankStarts, PendingConsented, LateConsented, StartedWithConsent, Consented,
           rankVars, history, TypeOK
  <2>. QED  BY <1>e, <2>1, <2>2 DEF ConsentInv
<1>20. ASSUME NEW s \in Sessions, BeginPrepare(s) PROVE ConsentInv'
  <2> DEFINE c == Ceremony("preparing", epoch + 1, Nodes, {}, {})
  <2>a. proc' = [proc EXCEPT ![s] = c] /\ said' = said
    BY <1>20 DEF BeginPrepare, history
  <2>b. /\ c.phase = "preparing" => c.got \subseteq said[c.e]
        /\ c.phase = "committing" => said[c.e] = Nodes
    BY <1>20, <1>0, <1>p, <1>r, CeremonyMade, SetFacts
       DEF BeginPrepare, CountedIsSaid, CommittingConsented, Consented
  <2> HIDE DEF c
  <2>1. CountedIsSaid' /\ CommittingConsented'
    BY <1>0, <1>p, <2>a, <2>b, OneProcConsents
  <2>2. PendingConsented' /\ LateConsented' /\ StartedWithConsent'
    BY <1>20, <1>0, ConsentKept DEF BeginPrepare, rankVars, history
  <2>. QED  BY <1>e, <2>1, <2>2 DEF ConsentInv
<1>21. ASSUME NEW s \in Sessions, BeginAbort(s) PROVE ConsentInv'
  <2> DEFINE c == Ceremony("releasing", pending, Nodes, {}, {})
  <2>a. proc' = [proc EXCEPT ![s] = c] /\ said' = said
    BY <1>21 DEF BeginAbort, history
  <2>b. /\ c.phase = "preparing" => c.got \subseteq said[c.e]
        /\ c.phase = "committing" => said[c.e] = Nodes
    BY <1>21, <1>0, <1>p, <1>r, CeremonyMade, SetFacts
       DEF BeginAbort, CountedIsSaid, CommittingConsented, Consented
  <2> HIDE DEF c
  <2>1. CountedIsSaid' /\ CommittingConsented'
    BY <1>0, <1>p, <2>a, <2>b, OneProcConsents
  <2>2. PendingConsented' /\ LateConsented' /\ StartedWithConsent'
    BY <1>21, <1>0
       DEF BeginAbort, PendingConsented, LateConsented, StartedWithConsent, Consented,
           rankVars, history
  <2>. QED  BY <1>e, <2>1, <2>2 DEF ConsentInv
<1>22. ASSUME NEW s \in Sessions, BeginCommit(s) PROVE ConsentInv'
  <2> DEFINE c == Ceremony("committing", pending, Nodes, {}, {})
  <2>a. proc' = [proc EXCEPT ![s] = c] /\ said' = said
    BY <1>22 DEF BeginCommit, history
  <2>b. /\ c.phase = "preparing" => c.got \subseteq said[c.e]
        /\ c.phase = "committing" => said[c.e] = Nodes
    BY <1>22, <1>0, <1>p, <1>r, CeremonyMade, SetFacts
       DEF BeginCommit, CountedIsSaid, CommittingConsented, PendingConsented, Consented
  <2> HIDE DEF c
  <2>1. CountedIsSaid' /\ CommittingConsented'
    BY <1>0, <1>p, <2>a, <2>b, OneProcConsents
  <2>2. PendingConsented' /\ LateConsented' /\ StartedWithConsent'
    BY <1>22, <1>0
       DEF BeginCommit, PendingConsented, LateConsented, StartedWithConsent, Consented,
           rankVars, history
  <2>. QED  BY <1>e, <2>1, <2>2 DEF ConsentInv
<1>23. ASSUME NEW s \in Sessions, BeginStop(s) PROVE ConsentInv'
  <2> DEFINE c == Ceremony("stopping", running.epoch, running.up, {}, {})
  <2>a. proc' = [proc EXCEPT ![s] = c] /\ said' = said
    BY <1>23 DEF BeginStop, history
  <2>b. /\ c.phase = "preparing" => c.got \subseteq said[c.e]
        /\ c.phase = "committing" => said[c.e] = Nodes
    BY <1>23, <1>0, <1>p, <1>r, CeremonyMade, SetFacts
       DEF BeginStop, CountedIsSaid, CommittingConsented, Consented
  <2> HIDE DEF c
  <2>1. CountedIsSaid' /\ CommittingConsented'
    BY <1>0, <1>p, <2>a, <2>b, OneProcConsents
  <2>2. PendingConsented' /\ LateConsented' /\ StartedWithConsent'
    BY <1>23, <1>0, ConsentKept DEF BeginStop, rankVars, history
  <2>. QED  BY <1>e, <2>1, <2>2 DEF ConsentInv
<1>24. ASSUME NEW n \in Nodes, NEW e \in Epochs, RankStartFails(n, e) PROVE ConsentInv'
  <2> DEFINE f == [p \in Procs |-> IF Awaits("committing", p, n, e) THEN Undo(proc[p])
                                   ELSE proc[p]]
  <2>a. proc' = f /\ said' = said
    BY <1>24 DEF RankStartFails, history
  <2>b. /\ f \in [Procs -> Ceremonies]
        /\ \A p \in Procs : f[p].phase = "preparing" => f[p].got \subseteq said[f[p].e]
        /\ \A p \in Procs : f[p].phase = "committing" => said[f[p].e] = Nodes
    BY <1>24, <1>0, UndoFacts DEF Awaits, CountedIsSaid, CommittingConsented, Consented
  <2> HIDE DEF f
  <2>1. CountedIsSaid' /\ CommittingConsented'
    BY <2>a, <2>b, AwaitingProcsConsent
  <2>2. PendingConsented' /\ LateConsented' /\ StartedWithConsent'
    BY <1>24, <1>0
       DEF RankStartFails, PendingConsented, LateConsented, StartedWithConsent, Consented,
           rankVars, history, TypeOK
  <2>. QED  BY <1>e, <2>1, <2>2 DEF ConsentInv
<1>25. ASSUME NEW p \in Procs, NEW n \in Nodes, RankStopFails(p, n) PROVE ConsentInv'
  <2> DEFINE c == (IF n \in Local THEN Counted(proc[p], n) ELSE Behind(proc[p], n))
  <2>a. proc' = [proc EXCEPT ![p] = c] /\ said' = said
    BY <1>25 DEF RankStopFails, history
  <2>b. /\ c.phase = "preparing" => c.got \subseteq said[c.e]
        /\ c.phase = "committing" => said[c.e] = Nodes
    BY <1>25, <1>0, CeremonyChanges
       DEF RankStopFails, CountedIsSaid, CommittingConsented, Consented, StopPhases
  <2> HIDE DEF c
  <2>1. CountedIsSaid' /\ CommittingConsented'
    BY <1>0, <2>a, <2>b, OneProcConsents
  <2>2. PendingConsented' /\ LateConsented' /\ StartedWithConsent'
    BY <1>25, <1>0, ConsentKept DEF RankStopFails, rankVars, history
  <2>. QED  BY <1>e, <2>1, <2>2 DEF ConsentInv
<1>26. ASSUME NEW p \in Procs, NEW n \in Nodes, CallFails(p, n) PROVE ConsentInv'
  <2> DEFINE c == Unanswered(proc[p], n)
  <2>a. proc' = [proc EXCEPT ![p] = c] /\ said' = said
    BY <1>26 DEF CallFails, history
  <2>b. /\ c.phase = "preparing" => c.got \subseteq said[c.e]
        /\ c.phase = "committing" => said[c.e] = Nodes
    BY <1>26, <1>0, UnansweredFacts
       DEF CallFails, CountedIsSaid, CommittingConsented, Consented
  <2> HIDE DEF c
  <2>1. CountedIsSaid' /\ CommittingConsented'
    BY <1>0, <2>a, <2>b, OneProcConsents
  <2>v. Verb[proc[p].phase] = "commit" => Consented(proc[p].e)
    <3>1. proc[p].phase \in Phases /\ proc[p].phase # "idle"
      BY <1>26, <1>0 DEF CallFails, Ceremonies
    <3>2. Verb[proc[p].phase] = "commit" => proc[p].phase = "committing"
      BY <3>1 DEF Verb, Phases
    <3>. QED  BY <1>0, <3>2 DEF CommittingConsented
  <2>2. PendingConsented' /\ LateConsented' /\ StartedWithConsent'
    BY <1>26, <1>0, <2>v
       DEF CallFails, PendingConsented, LateConsented, StartedWithConsent, Consented,
           rankVars, history
  <2>. QED  BY <1>e, <2>1, <2>2 DEF ConsentInv
<1>27. ASSUME NEW m \in late, LateArrives(m) PROVE ConsentInv'
  <2>1. CountedIsSaid' /\ CommittingConsented'
    BY <1>27, <1>0 DEF LateArrives, CountedIsSaid, CommittingConsented, Consented, history
  <2>2. PendingConsented' /\ LateConsented' /\ StartedWithConsent'
    BY SMTT(30), <1>27, <1>0, <1>r
       DEF LateArrives, PendingConsented, LateConsented, StartedWithConsent, Consented,
           rankVars, history, Take, TypeOK, Calls
  <2>. QED  BY <1>e, <2>1, <2>2 DEF ConsentInv
<1>28. ASSUME NEW n \in Nodes, Expire(n) PROVE ConsentInv'
  <2>1. CountedIsSaid' /\ CommittingConsented'
    BY <1>28, <1>0 DEF Expire, CountedIsSaid, CommittingConsented, Consented, history
  <2>2. PendingConsented' /\ LateConsented' /\ StartedWithConsent'
    BY <1>28, <1>0, ConsentKept DEF Expire, rankVars, history
  <2>. QED  BY <1>e, <2>1, <2>2 DEF ConsentInv
<1>29. ASSUME NEW n \in Nodes, Dies(n) PROVE ConsentInv'
  <2>1. CountedIsSaid' /\ CommittingConsented'
    BY <1>29, <1>0 DEF Dies, CountedIsSaid, CommittingConsented, Consented, history
  <2>2. PendingConsented' /\ LateConsented' /\ StartedWithConsent'
    BY <1>29, <1>0
       DEF Dies, PendingConsented, LateConsented, StartedWithConsent, Consented, rankVars,
           history, TypeOK
  <2>. QED  BY <1>e, <2>1, <2>2 DEF ConsentInv
<1>30. ASSUME NEW n \in Nodes, RankRestart(n) PROVE ConsentInv'
  <2> DEFINE f == [p \in Procs |->
               IF \E e \in vetting[n] : Awaits("preparing", p, n, e) THEN Behind(proc[p], n)
               ELSE IF \E e \in starting[n] : Awaits("committing", p, n, e) THEN Undo(proc[p])
               ELSE proc[p]]
  <2>a. proc' = f /\ said' = said
    BY <1>30 DEF RankRestart, history
  <2>b. /\ f \in [Procs -> Ceremonies]
        /\ \A p \in Procs : f[p].phase = "preparing" => f[p].got \subseteq said[f[p].e]
        /\ \A p \in Procs : f[p].phase = "committing" => said[f[p].e] = Nodes
    BY <1>30, <1>0, CeremonyChanges, UndoFacts
       DEF Awaits, CountedIsSaid, CommittingConsented, Consented
  <2> HIDE DEF f
  <2>1. CountedIsSaid' /\ CommittingConsented'
    BY <2>a, <2>b, AwaitingProcsConsent
  <2>2. PendingConsented' /\ LateConsented' /\ StartedWithConsent'
    BY <1>30, <1>0
       DEF RankRestart, PendingConsented, LateConsented, StartedWithConsent, Consented,
           rankVars, history, TypeOK
  <2>. QED  BY <1>e, <2>1, <2>2 DEF ConsentInv
<1>31. CASE HeadRestart
  <2> DEFINE f == [p \in Procs |-> Idle]
  <2>a. proc' = f /\ said' = said
    BY <1>31 DEF HeadRestart, history
  <2>b. /\ f \in [Procs -> Ceremonies]
        /\ \A p \in Procs : f[p].phase = "preparing" => f[p].got \subseteq said[f[p].e]
        /\ \A p \in Procs : f[p].phase = "committing" => said[f[p].e] = Nodes
    BY <1>31, <1>0, IdleFacts DEF Awaits, CountedIsSaid, CommittingConsented, Consented
  <2> HIDE DEF f
  <2>1. CountedIsSaid' /\ CommittingConsented'
    BY <2>a, <2>b, AwaitingProcsConsent
  <2>2. PendingConsented' /\ LateConsented' /\ StartedWithConsent'
    BY <1>31, <1>0
       DEF HeadRestart, PendingConsented, LateConsented, StartedWithConsent, Consented,
           rankVars, history, TypeOK
  <2>. QED  BY <1>e, <2>1, <2>2 DEF ConsentInv
<1>32. CASE UNCHANGED vars
  <2>1. CountedIsSaid' /\ CommittingConsented'
    BY <1>32, <1>0 DEF vars, history, CountedIsSaid, CommittingConsented, Consented
  <2>2. PendingConsented' /\ LateConsented' /\ StartedWithConsent'
    BY <1>32, <1>0, ConsentKept DEF vars, rankVars, history
  <2>. QED  BY <1>e, <2>1, <2>2 DEF ConsentInv
<1>. QED
  BY <1>1, <1>2, <1>3, <1>4, <1>5, <1>6, <1>7, <1>8, <1>9, <1>10, <1>11, <1>12, <1>13,
     <1>14, <1>15, <1>16, <1>17, <1>18, <1>19, <1>20, <1>21, <1>22, <1>23, <1>24, <1>25,
     <1>26, <1>27, <1>28, <1>29, <1>30, <1>31, <1>32
     DEF Next, Driver, Rank, Supervise, Ranks, Works, Requests, Environment

-----------------------------------------------------------------------------
(* Nothing is pending, started or on its way at first. *)
LEMMA InitTypeAndConsent == Init => TypeOK /\ ConsentInv
<1>. SUFFICES ASSUME Init PROVE TypeOK /\ ConsentInv
  OBVIOUS
<1>1. TypeOK
  BY ClusterAssumption, IdleFacts DEF Init, TypeOK, NoCluster, NoReservation, Epochs
<1>2. \A p \in Procs : proc[p].phase = "idle"
  BY IdleFacts DEF Init
<1>3. ConsentInv
  BY <1>2
     DEF Init, ConsentInv, EpochNamed, CountedIsSaid, PendingConsented, CommittingConsented,
         LateConsented, StartedWithConsent
<1>. QED  BY <1>1, <1>3

(* The state of head, ranks and network stays well-formed: in particular a *)
(* cluster on record always names a rank, so that Stop has one to stop.    *)
THEOREM TypeCorrect == Spec => []TypeOK
<1>1. Init => TypeOK /\ EpochNamed
  BY InitTypeAndConsent DEF ConsentInv
<1>2. TypeOK /\ EpochNamed /\ [Next]_vars => TypeOK' /\ EpochNamed'
  BY TypeStep
<1>. QED  BY <1>1, <1>2, PTL DEF Spec

(* Nothing starts until every rank has said yes to the head under the same *)
(* epoch, with any number of ranks and sessions, over a network that loses *)
(* and delays calls, with ranks and the head restarting at any moment.     *)
THEOREM NothingStartsWithoutConsent == Spec => []StartedWithConsent
<1>1. Init => TypeOK /\ ConsentInv
  BY InitTypeAndConsent
<1>2. TypeOK /\ ConsentInv /\ [Next]_vars => TypeOK' /\ ConsentInv'
  BY TypeStep, ConsentStep DEF ConsentInv
<1>3. ConsentInv => StartedWithConsent
  BY DEF ConsentInv
<1>. QED  BY <1>1, <1>2, <1>3, PTL DEF Spec

-----------------------------------------------------------------------------
(* What fails leaves nothing *)

(* The ceremonies in which an epoch may have containers that are not yet   *)
(* reported, and which must still remove them; and preparing, which leads  *)
(* there.                                                                  *)
Owning == {"preparing", "committing", "unstarting", "settling", "tearing"}

(* Ceremony c has a container of its epoch at rank n on its list, to be    *)
(* reported as started or to be stopped.                                   *)
Answers(c, n) ==
  \/ c.phase = "committing" /\ n \in c.got
  \/ c.phase \in {"unstarting", "tearing"} /\ n \in c.left
  \/ c.phase = "settling"

Minted ==
  /\ pending <= epoch
  /\ \A p \in Procs : proc[p].phase \in Owning => proc[p].e <= epoch

(* An epoch is in the hands of one ceremony, or in the pending slot. *)
OneOwner ==
  \A p, q \in Procs :
    proc[p].phase \in Owning /\ proc[q].phase \in Owning /\ proc[p].e = proc[q].e => p = q
PendingUnowned ==
  pending # 0 => \A p \in Procs : proc[p].phase \in Owning => proc[p].e # pending

(* What runs or starts unreported is on the list of the ceremony that      *)
(* started it.                                                             *)
Owned ==
  \A n \in Nodes, e \in Epochs \ reported :
    /\ docker[n] = e => \E p \in Procs : proc[p].e = e /\ Answers(proc[p], n)
    /\ e \in starting[n] => \E p \in Procs : Awaits("committing", p, n, e)

FailInv == faults = 0 => late = {} /\ Minted /\ OneOwner /\ PendingUnowned /\ Owned

(* What the ceremonies made here hold. *)
LEMMA Parts ==
  /\ \A phase, e, left, got, rest :
       LET c == Ceremony(phase, e, left, got, rest)
       IN c.phase = phase /\ c.e = e /\ c.left = left /\ c.got = got /\ c.rest = rest
  /\ \A c \in Ceremonies, n \in Nodes :
       /\ Behind(c, n).left = c.left \ {n} /\ Counted(c, n).left = c.left \ {n}
       /\ Undo(c).left = c.got
  /\ Idle.phase = "idle" /\ Idle.left = {} /\ Idle.got = {}
  BY DEF Ceremony, Ceremonies, Behind, Counted, Undo, Idle

(* A rank is asked after those before it. *)
LEMMA OneIsAsked ==
  ASSUME NEW p, NEW n \in Nodes, NEW m \in Nodes, Asks(p, n), Asks(p, m) PROVE n = m
  BY DEF Asks, Nodes

(* One process moves on to ceremony c, and nothing starts. *)
LEMMA OneProcOwns ==
  ASSUME TypeOK, OneOwner, Owned, NEW p \in Procs, NEW c \in Ceremonies,
         proc' = [proc EXCEPT ![p] = c], starting' = starting, reported \subseteq reported',
         \A n \in Nodes : docker'[n] # docker[n] => docker'[n] = 0,
         c.phase \in Owning =>
           \A q \in Procs \ {p} : proc[q].phase \in Owning => proc[q].e # c.e,
         \A n \in Nodes : Answers(proc[p], n) /\ docker'[n] = proc[p].e /\ proc[p].e \in Epochs \ reported'
                            => c.e = proc[p].e /\ Answers(c, n),
         \A n \in Nodes : ~(Awaits("committing", p, n, proc[p].e) /\ proc[p].e \in starting[n])
  PROVE  OneOwner' /\ Owned'
  <1>1. /\ proc'[p] = c /\ \A q \in Procs \ {p} : proc'[q] = proc[q]
    BY DEF TypeOK
  <1>2. OneOwner'
    BY <1>1 DEF OneOwner
  <1>3. ASSUME NEW n \in Nodes, NEW e \in Epochs \ reported', docker'[n] = e
        PROVE  \E q \in Procs : proc'[q].e = e /\ Answers(proc'[q], n)
    <2>1. docker[n] = e /\ e \notin reported
      BY <1>3, ClusterAssumption DEF Epochs
    <2>2. PICK q \in Procs : proc[q].e = e /\ Answers(proc[q], n)
      BY <2>1 DEF Owned
    <2>3. QED
      BY <1>1, <1>3, <2>2
  <1>4. ASSUME NEW n \in Nodes, NEW e \in Epochs \ reported', e \in starting'[n]
        PROVE  \E q \in Procs : Awaits("committing", q, n, e)'
    <2>1. PICK q \in Procs : Awaits("committing", q, n, e)
      BY <1>4 DEF Owned
    <2>2. q # p
      BY <1>4, <2>1 DEF Awaits
    <2>3. QED
      BY <1>1, <2>1, <2>2 DEF Awaits, Asks
  <1>5. QED
    BY <1>2, <1>3, <1>4 DEF Owned

(* The same for a process that goes on with its epoch. *)
LEMMA OneProcGoesOn ==
  ASSUME TypeOK, OneOwner, Owned, Minted, PendingUnowned, NEW p \in Procs, NEW c \in Ceremonies,
         proc' = [proc EXCEPT ![p] = c], starting' = starting, reported \subseteq reported',
         pending' = pending, epoch' = epoch,
         \A n \in Nodes : docker'[n] # docker[n] => docker'[n] = 0,
         c.phase \in Owning => proc[p].phase \in Owning /\ c.e = proc[p].e,
         \A n \in Nodes : Answers(proc[p], n) /\ docker'[n] = proc[p].e /\ proc[p].e \in Epochs \ reported'
                            => c.e = proc[p].e /\ Answers(c, n),
         \A n \in Nodes : ~(Awaits("committing", p, n, proc[p].e) /\ proc[p].e \in starting[n])
  PROVE  OneOwner' /\ Owned' /\ Minted' /\ PendingUnowned'
  <1>1. /\ proc'[p] = c /\ \A q \in Procs \ {p} : proc'[q] = proc[q]
    BY DEF TypeOK
  <1>2. c.phase \in Owning => \A q \in Procs \ {p} : proc[q].phase \in Owning => proc[q].e # c.e
    BY DEF OneOwner
  <1>3. OneOwner' /\ Owned'
    BY <1>2, OneProcOwns
  <1>4. Minted' /\ PendingUnowned'
    BY <1>1 DEF Minted, PendingUnowned
  <1>5. QED
    BY <1>3, <1>4

(* Processes whose ceremonies keep epoch and phase, and list no less. *)
LEMMA AwaitingProcsGoOn ==
  ASSUME Minted, OneOwner, PendingUnowned, pending' = pending, epoch' = epoch,
         \A p \in Procs : \/ proc'[p].phase = proc[p].phase /\ proc'[p].e = proc[p].e
                          \/ /\ proc[p].phase \in Owning /\ proc'[p].phase \in Owning
                             /\ proc'[p].e = proc[p].e
  PROVE  Minted' /\ OneOwner' /\ PendingUnowned'
  BY DEF Minted, OneOwner, PendingUnowned

(* After a fault that counts nothing is said of the run. *)
LEMMA FaultLoss ==
  ASSUME NEW kind, faults \in 0..MaxFaults, Fault(kind) PROVE faults' # 0
  BY ClusterAssumption DEF Fault

(* Every step keeps what runs on the list of its ceremony. *)
LEMMA FailStep == TypeOK /\ FailInv /\ [Next]_vars => FailInv'
<1>. SUFFICES ASSUME TypeOK, FailInv, [Next]_vars, faults' = 0 PROVE FailInv'
  BY DEF FailInv
<1>0. /\ proc \in [Procs -> Ceremonies] /\ \A p \in Procs : proc[p] \in Ceremonies
      /\ running.epoch \in 0..MaxEpochs /\ running.up \in SUBSET Nodes
      /\ pending \in 0..MaxEpochs /\ epoch \in 0..MaxEpochs /\ MaxEpochs \in Nat
      /\ docker \in [Nodes -> 0..MaxEpochs] /\ starting \in [Nodes -> SUBSET Epochs]
      /\ 0 \notin Epochs
  BY ClusterAssumption DEF TypeOK, Epochs
<1>p. Supervisor \in Procs /\ Sessions \subseteq Procs
  BY DEF Procs
<1>q. ASSUME faults = 0 PROVE late = {} /\ Minted /\ OneOwner /\ PendingUnowned /\ Owned
  BY <1>q DEF FailInv
<1>1. ASSUME NEW p \in Procs, NEW m \in Nodes, RankDeclines(p, m) PROVE FailInv'
  <2> DEFINE c == Behind(proc[p], m)
  <2>a. /\ proc' = [proc EXCEPT ![p] = c] /\ UNCHANGED <<starting, pending, epoch, late, faults>>
        /\ reported \subseteq reported'
    BY <1>1 DEF RankDeclines, rankVars, history
  <2>b. late = {} /\ faults = 0 /\ Minted /\ OneOwner /\ PendingUnowned /\ Owned
    BY <1>q, <2>a
  <2>c. c \in Ceremonies /\ (c.phase \in Owning => proc[p].phase \in Owning /\ c.e = proc[p].e)
    BY <1>1, <1>0, <1>p, CeremonyChanges, Parts DEF RankDeclines, Owning
  <2>d. \A n \in Nodes : docker'[n] # docker[n] => docker'[n] = 0
    BY <1>1, <1>0 DEF RankDeclines, rankVars
  <2>e. \A n \in Nodes : Answers(proc[p], n) /\ docker'[n] = proc[p].e
                            /\ proc[p].e \in Epochs \ reported'
                              => c.e = proc[p].e /\ Answers(c, n)
    BY <1>1, <1>0, <1>p, CeremonyChanges, Parts DEF RankDeclines, Answers
  <2>f. \A n \in Nodes : ~(Awaits("committing", p, n, proc[p].e) /\ proc[p].e \in starting[n])
    BY <1>1, <1>0, OneIsAsked, Parts DEF RankDeclines, Awaits, Asks
  <2>g. OneOwner' /\ Owned' /\ Minted' /\ PendingUnowned'
    <3> HIDE DEF c
    <3>. QED  BY <1>p, <2>a, <2>b, <2>c, <2>d, <2>e, <2>f, OneProcGoesOn
  <2>. QED  BY <2>a, <2>b, <2>g DEF FailInv
<1>2. ASSUME NEW p \in Procs, NEW m \in Nodes, RankReleases(p, m) PROVE FailInv'
  <2> DEFINE c == Behind(proc[p], m)
  <2>a. /\ proc' = [proc EXCEPT ![p] = c] /\ UNCHANGED <<starting, pending, epoch, late, faults>>
        /\ reported \subseteq reported'
    BY <1>2 DEF RankReleases, rankVars, history
  <2>b. late = {} /\ faults = 0 /\ Minted /\ OneOwner /\ PendingUnowned /\ Owned
    BY <1>q, <2>a
  <2>c. c \in Ceremonies /\ (c.phase \in Owning => proc[p].phase \in Owning /\ c.e = proc[p].e)
    BY <1>2, <1>0, <1>p, CeremonyChanges, Parts DEF RankReleases, Owning
  <2>d. \A n \in Nodes : docker'[n] # docker[n] => docker'[n] = 0
    BY <1>2, <1>0 DEF RankReleases, rankVars
  <2>e. \A n \in Nodes : Answers(proc[p], n) /\ docker'[n] = proc[p].e
                            /\ proc[p].e \in Epochs \ reported'
                              => c.e = proc[p].e /\ Answers(c, n)
    BY <1>2, <1>0, <1>p, CeremonyChanges, Parts DEF RankReleases, Answers
  <2>f. \A n \in Nodes : ~(Awaits("committing", p, n, proc[p].e) /\ proc[p].e \in starting[n])
    BY <1>2, <1>0, OneIsAsked, Parts DEF RankReleases, Awaits, Asks
  <2>g. OneOwner' /\ Owned' /\ Minted' /\ PendingUnowned'
    <3> HIDE DEF c
    <3>. QED  BY <1>p, <2>a, <2>b, <2>c, <2>d, <2>e, <2>f, OneProcGoesOn
  <2>. QED  BY <2>a, <2>b, <2>g DEF FailInv
<1>3. ASSUME NEW p \in Procs, NEW m \in Nodes, RankHasNone(p, m) PROVE FailInv'
  <2> DEFINE c == Undo(proc[p])
  <2>a. /\ proc' = [proc EXCEPT ![p] = c] /\ UNCHANGED <<starting, pending, epoch, late, faults>>
        /\ reported \subseteq reported'
    BY <1>3 DEF RankHasNone, rankVars, history
  <2>b. late = {} /\ faults = 0 /\ Minted /\ OneOwner /\ PendingUnowned /\ Owned
    BY <1>q, <2>a
  <2>c. c \in Ceremonies /\ (c.phase \in Owning => proc[p].phase \in Owning /\ c.e = proc[p].e)
    BY <1>3, <1>0, <1>p, UndoFacts, Parts DEF RankHasNone, Owning
  <2>d. \A n \in Nodes : docker'[n] # docker[n] => docker'[n] = 0
    BY <1>3, <1>0 DEF RankHasNone, rankVars
  <2>e. \A n \in Nodes : Answers(proc[p], n) /\ docker'[n] = proc[p].e
                            /\ proc[p].e \in Epochs \ reported'
                              => c.e = proc[p].e /\ Answers(c, n)
    BY <1>3, <1>0, <1>p, UndoFacts, Parts DEF RankHasNone, Answers
  <2>f. \A n \in Nodes : ~(Awaits("committing", p, n, proc[p].e) /\ proc[p].e \in starting[n])
    BY <1>3, <1>0, OneIsAsked, Parts DEF RankHasNone, Awaits, Asks
  <2>g. OneOwner' /\ Owned' /\ Minted' /\ PendingUnowned'
    <3> HIDE DEF c
    <3>. QED  BY <1>p, <2>a, <2>b, <2>c, <2>d, <2>e, <2>f, OneProcGoesOn
  <2>. QED  BY <2>a, <2>b, <2>g DEF FailInv
<1>4. ASSUME NEW p \in Procs, NEW m \in Nodes, RankIsAlive(p, m) PROVE FailInv'
  <2> DEFINE c == IF docker[m] # 0 THEN Behind(proc[p], m) ELSE Counted(proc[p], m)
  <2>a. /\ proc' = [proc EXCEPT ![p] = c] /\ UNCHANGED <<starting, pending, epoch, late, faults>>
        /\ reported \subseteq reported'
    BY <1>4 DEF RankIsAlive, rankVars, history
  <2>b. late = {} /\ faults = 0 /\ Minted /\ OneOwner /\ PendingUnowned /\ Owned
    BY <1>q, <2>a
  <2>c. c \in Ceremonies /\ (c.phase \in Owning => proc[p].phase \in Owning /\ c.e = proc[p].e)
    BY <1>4, <1>0, <1>p, CeremonyChanges, Parts DEF RankIsAlive, Owning
  <2>d. \A n \in Nodes : docker'[n] # docker[n] => docker'[n] = 0
    BY <1>4, <1>0 DEF RankIsAlive, rankVars
  <2>e. \A n \in Nodes : Answers(proc[p], n) /\ docker'[n] = proc[p].e
                            /\ proc[p].e \in Epochs \ reported'
                              => c.e = proc[p].e /\ Answers(c, n)
    <3>1. c.phase = proc[p].phase /\ c.e = proc[p].e /\ proc[p].phase \in {"settling", "checking"}
      BY <1>4, <1>0, CeremonyChanges DEF RankIsAlive
    <3> HIDE DEF c
    <3>. QED  BY <3>1 DEF Answers
  <2>f. \A n \in Nodes : ~(Awaits("committing", p, n, proc[p].e) /\ proc[p].e \in starting[n])
    BY <1>4, <1>0, OneIsAsked, Parts DEF RankIsAlive, Awaits, Asks
  <2>g. OneOwner' /\ Owned' /\ Minted' /\ PendingUnowned'
    <3> HIDE DEF c
    <3>. QED  BY <1>p, <2>a, <2>b, <2>c, <2>d, <2>e, <2>f, OneProcGoesOn
  <2>. QED  BY <2>a, <2>b, <2>g DEF FailInv
<1>5. ASSUME NEW p \in Procs, NEW m \in Nodes, RankStops(p, m) PROVE FailInv'
  <2> DEFINE c == Behind(proc[p], m)
  <2>a. /\ proc' = [proc EXCEPT ![p] = c] /\ UNCHANGED <<starting, pending, epoch, late, faults>>
        /\ reported \subseteq reported'
    BY <1>5 DEF RankStops, rankVars, history
  <2>b. late = {} /\ faults = 0 /\ Minted /\ OneOwner /\ PendingUnowned /\ Owned
    BY <1>q, <2>a
  <2>c. c \in Ceremonies /\ (c.phase \in Owning => proc[p].phase \in Owning /\ c.e = proc[p].e)
    BY <1>5, <1>0, <1>p, CeremonyChanges, Parts DEF RankStops, Owning, StopPhases
  <2>d. \A n \in Nodes : docker'[n] # docker[n] => docker'[n] = 0
    BY <1>5, <1>0 DEF RankStops, rankVars
  <2>e. \A n \in Nodes : Answers(proc[p], n) /\ docker'[n] = proc[p].e
                            /\ proc[p].e \in Epochs \ reported'
                              => c.e = proc[p].e /\ Answers(c, n)
    <3>1. /\ c.phase = proc[p].phase /\ c.e = proc[p].e /\ c.left = proc[p].left \ {m}
          /\ proc[p].phase \in StopPhases
      BY <1>5, <1>0, CeremonyChanges, Parts DEF RankStops
    <3>2. docker'[m] \notin Epochs
      BY <1>5, <1>0 DEF RankStops
    <3> HIDE DEF c
    <3>. QED  BY <3>1, <3>2 DEF Answers, StopPhases
  <2>f. \A n \in Nodes : ~(Awaits("committing", p, n, proc[p].e) /\ proc[p].e \in starting[n])
    BY <1>5, <1>0, OneIsAsked, Parts DEF RankStops, Awaits, Asks, StopPhases
  <2>g. OneOwner' /\ Owned' /\ Minted' /\ PendingUnowned'
    <3> HIDE DEF c
    <3>. QED  BY <1>p, <2>a, <2>b, <2>c, <2>d, <2>e, <2>f, OneProcGoesOn
  <2>. QED  BY <2>a, <2>b, <2>g DEF FailInv
<1>6. ASSUME NEW p \in Procs, ReleaseDone(p) PROVE FailInv'
  <2> DEFINE c == Idle
  <2>a. /\ proc' = [proc EXCEPT ![p] = c] /\ UNCHANGED <<starting, pending, epoch, late, faults>>
        /\ reported \subseteq reported'
    BY <1>6 DEF ReleaseDone, rankVars, history
  <2>b. late = {} /\ faults = 0 /\ Minted /\ OneOwner /\ PendingUnowned /\ Owned
    BY <1>q, <2>a
  <2>c. c \in Ceremonies /\ (c.phase \in Owning => proc[p].phase \in Owning /\ c.e = proc[p].e)
    BY <1>6, <1>0, <1>p, CeremonyMade, SetFacts, IdleFacts, Parts DEF ReleaseDone, Owning
  <2>d. \A n \in Nodes : docker'[n] # docker[n] => docker'[n] = 0
    BY <1>6, <1>0 DEF ReleaseDone, rankVars
  <2>e. \A n \in Nodes : Answers(proc[p], n) /\ docker'[n] = proc[p].e
                            /\ proc[p].e \in Epochs \ reported'
                              => c.e = proc[p].e /\ Answers(c, n)
    BY <1>6, <1>0, <1>p, CeremonyMade, SetFacts, IdleFacts, Parts DEF ReleaseDone, Answers
  <2>f. \A n \in Nodes : ~(Awaits("committing", p, n, proc[p].e) /\ proc[p].e \in starting[n])
    BY <1>6, <1>0, OneIsAsked, Parts DEF ReleaseDone, Awaits, Asks
  <2>g. OneOwner' /\ Owned' /\ Minted' /\ PendingUnowned'
    <3> HIDE DEF c
    <3>. QED  BY <1>p, <2>a, <2>b, <2>c, <2>d, <2>e, <2>f, OneProcGoesOn
  <2>. QED  BY <2>a, <2>b, <2>g DEF FailInv
<1>7. ASSUME NEW p \in Procs, Settle(p) PROVE FailInv'
  <2> DEFINE c == Ceremony("settling", proc[p].e, Nodes, {}, {})
  <2>a. /\ proc' = [proc EXCEPT ![p] = c] /\ UNCHANGED <<starting, pending, epoch, late, faults>>
        /\ reported \subseteq reported'
    BY <1>7 DEF Settle, rankVars, history
  <2>b. late = {} /\ faults = 0 /\ Minted /\ OneOwner /\ PendingUnowned /\ Owned
    BY <1>q, <2>a
  <2>c. c \in Ceremonies /\ (c.phase \in Owning => proc[p].phase \in Owning /\ c.e = proc[p].e)
    BY <1>7, <1>0, <1>p, CeremonyMade, SetFacts, IdleFacts, Parts DEF Settle, Owning
  <2>d. \A n \in Nodes : docker'[n] # docker[n] => docker'[n] = 0
    BY <1>7, <1>0 DEF Settle, rankVars
  <2>e. \A n \in Nodes : Answers(proc[p], n) /\ docker'[n] = proc[p].e
                            /\ proc[p].e \in Epochs \ reported'
                              => c.e = proc[p].e /\ Answers(c, n)
    BY <1>7, <1>0, <1>p, CeremonyMade, SetFacts, IdleFacts, Parts DEF Settle, Answers
  <2>f. \A n \in Nodes : ~(Awaits("committing", p, n, proc[p].e) /\ proc[p].e \in starting[n])
    BY <1>7, <1>0, OneIsAsked, Parts DEF Settle, Awaits, Asks
  <2>g. OneOwner' /\ Owned' /\ Minted' /\ PendingUnowned'
    <3> HIDE DEF c
    <3>. QED  BY <1>p, <2>a, <2>b, <2>c, <2>d, <2>e, <2>f, OneProcGoesOn
  <2>. QED  BY <2>a, <2>b, <2>g DEF FailInv
<1>8. ASSUME NEW p \in Procs, SettleDone(p) PROVE FailInv'
  <2> DEFINE c == IF proc[p].got = {} THEN Idle ELSE Ceremony("tearing", proc[p].e, Nodes, {}, {})
  <2>a. /\ proc' = [proc EXCEPT ![p] = c] /\ UNCHANGED <<starting, pending, epoch, late, faults>>
        /\ reported \subseteq reported'
    BY <1>8 DEF SettleDone, rankVars, history
  <2>b. late = {} /\ faults = 0 /\ Minted /\ OneOwner /\ PendingUnowned /\ Owned
    BY <1>q, <2>a
  <2>c. c \in Ceremonies /\ (c.phase \in Owning => proc[p].phase \in Owning /\ c.e = proc[p].e)
    BY <1>8, <1>0, <1>p, CeremonyMade, SetFacts, IdleFacts, Parts DEF SettleDone, Owning
  <2>d. \A n \in Nodes : docker'[n] # docker[n] => docker'[n] = 0
    BY <1>8, <1>0 DEF SettleDone, rankVars
  <2>e. \A n \in Nodes : Answers(proc[p], n) /\ docker'[n] = proc[p].e
                            /\ proc[p].e \in Epochs \ reported'
                              => c.e = proc[p].e /\ Answers(c, n)
    BY <1>8, <1>0, <1>p, CeremonyMade, SetFacts, IdleFacts, Parts DEF SettleDone, Answers
  <2>f. \A n \in Nodes : ~(Awaits("committing", p, n, proc[p].e) /\ proc[p].e \in starting[n])
    BY <1>8, <1>0, OneIsAsked, Parts DEF SettleDone, Awaits, Asks
  <2>g. OneOwner' /\ Owned' /\ Minted' /\ PendingUnowned'
    <3> HIDE DEF c
    <3>. QED  BY <1>p, <2>a, <2>b, <2>c, <2>d, <2>e, <2>f, OneProcGoesOn
  <2>. QED  BY <2>a, <2>b, <2>g DEF FailInv
<1>9. ASSUME NEW p \in Procs, UndoneOrTorn(p) PROVE FailInv'
  <2> DEFINE c == IF proc[p].phase = "tearing" THEN Idle ELSE Ceremony("releasing", proc[p].e, proc[p].rest, {}, {})
  <2>a. /\ proc' = [proc EXCEPT ![p] = c] /\ UNCHANGED <<starting, pending, epoch, late, faults>>
        /\ reported \subseteq reported'
    BY <1>9 DEF UndoneOrTorn, rankVars, history
  <2>b. late = {} /\ faults = 0 /\ Minted /\ OneOwner /\ PendingUnowned /\ Owned
    BY <1>q, <2>a
  <2>c. c \in Ceremonies /\ (c.phase \in Owning => proc[p].phase \in Owning /\ c.e = proc[p].e)
    BY <1>9, <1>0, <1>p, CeremonyMade, SetFacts, IdleFacts, Parts DEF UndoneOrTorn, Owning
  <2>d. \A n \in Nodes : docker'[n] # docker[n] => docker'[n] = 0
    BY <1>9, <1>0 DEF UndoneOrTorn, rankVars
  <2>e. \A n \in Nodes : Answers(proc[p], n) /\ docker'[n] = proc[p].e
                            /\ proc[p].e \in Epochs \ reported'
                              => c.e = proc[p].e /\ Answers(c, n)
    BY <1>9, <1>0, <1>p, CeremonyMade, SetFacts, IdleFacts, Parts DEF UndoneOrTorn, Answers
  <2>f. \A n \in Nodes : ~(Awaits("committing", p, n, proc[p].e) /\ proc[p].e \in starting[n])
    BY <1>9, <1>0, OneIsAsked, Parts DEF UndoneOrTorn, Awaits, Asks
  <2>g. OneOwner' /\ Owned' /\ Minted' /\ PendingUnowned'
    <3> HIDE DEF c
    <3>. QED  BY <1>p, <2>a, <2>b, <2>c, <2>d, <2>e, <2>f, OneProcGoesOn
  <2>. QED  BY <2>a, <2>b, <2>g DEF FailInv
<1>10. ASSUME NEW p \in Procs, StopDone(p) PROVE FailInv'
  <2> DEFINE c == Idle
  <2>a. /\ proc' = [proc EXCEPT ![p] = c] /\ UNCHANGED <<starting, pending, epoch, late, faults>>
        /\ reported \subseteq reported'
    BY <1>10 DEF StopDone, rankVars, history
  <2>b. late = {} /\ faults = 0 /\ Minted /\ OneOwner /\ PendingUnowned /\ Owned
    BY <1>q, <2>a
  <2>c. c \in Ceremonies /\ (c.phase \in Owning => proc[p].phase \in Owning /\ c.e = proc[p].e)
    BY <1>10, <1>0, <1>p, CeremonyMade, SetFacts, IdleFacts, Parts DEF StopDone, Owning
  <2>d. \A n \in Nodes : docker'[n] # docker[n] => docker'[n] = 0
    BY <1>10, <1>0 DEF StopDone, rankVars
  <2>e. \A n \in Nodes : Answers(proc[p], n) /\ docker'[n] = proc[p].e
                            /\ proc[p].e \in Epochs \ reported'
                              => c.e = proc[p].e /\ Answers(c, n)
    BY <1>10, <1>0, <1>p, CeremonyMade, SetFacts, IdleFacts, Parts DEF StopDone, Answers
  <2>f. \A n \in Nodes : ~(Awaits("committing", p, n, proc[p].e) /\ proc[p].e \in starting[n])
    BY <1>10, <1>0, OneIsAsked, Parts DEF StopDone, Awaits, Asks
  <2>g. OneOwner' /\ Owned' /\ Minted' /\ PendingUnowned'
    <3> HIDE DEF c
    <3>. QED  BY <1>p, <2>a, <2>b, <2>c, <2>d, <2>e, <2>f, OneProcGoesOn
  <2>. QED  BY <2>a, <2>b, <2>g DEF FailInv
<1>11. ASSUME NEW p \in Sessions, BeginStop(p) PROVE FailInv'
  <2> DEFINE c == Ceremony("stopping", running.epoch, running.up, {}, {})
  <2>a. /\ proc' = [proc EXCEPT ![p] = c] /\ UNCHANGED <<starting, pending, epoch, late, faults>>
        /\ reported \subseteq reported'
    BY <1>11 DEF BeginStop, rankVars, history
  <2>b. late = {} /\ faults = 0 /\ Minted /\ OneOwner /\ PendingUnowned /\ Owned
    BY <1>q, <2>a
  <2>c. c \in Ceremonies /\ (c.phase \in Owning => proc[p].phase \in Owning /\ c.e = proc[p].e)
    BY <1>11, <1>0, <1>p, CeremonyMade, SetFacts, IdleFacts, Parts DEF BeginStop, Owning
  <2>d. \A n \in Nodes : docker'[n] # docker[n] => docker'[n] = 0
    BY <1>11, <1>0 DEF BeginStop, rankVars
  <2>e. \A n \in Nodes : Answers(proc[p], n) /\ docker'[n] = proc[p].e
                            /\ proc[p].e \in Epochs \ reported'
                              => c.e = proc[p].e /\ Answers(c, n)
    BY <1>11, <1>0, <1>p, CeremonyMade, SetFacts, IdleFacts, Parts DEF BeginStop, Answers
  <2>f. \A n \in Nodes : ~(Awaits("committing", p, n, proc[p].e) /\ proc[p].e \in starting[n])
    BY <1>11, <1>0, OneIsAsked, Parts DEF BeginStop, Awaits, Asks
  <2>g. OneOwner' /\ Owned' /\ Minted' /\ PendingUnowned'
    <3> HIDE DEF c
    <3>. QED  BY <1>p, <2>a, <2>b, <2>c, <2>d, <2>e, <2>f, OneProcGoesOn
  <2>. QED  BY <2>a, <2>b, <2>g DEF FailInv
<1>12. ASSUME BeginSupervise PROVE FailInv'
  <2> DEFINE c == Ceremony("checking", running.epoch, running.up, {}, {})
  <2>a. /\ proc' = [proc EXCEPT ![Supervisor] = c] /\ UNCHANGED <<starting, pending, epoch, late, faults>>
        /\ reported \subseteq reported'
    BY <1>12 DEF BeginSupervise, rankVars, history
  <2>b. late = {} /\ faults = 0 /\ Minted /\ OneOwner /\ PendingUnowned /\ Owned
    BY <1>q, <2>a
  <2>c. c \in Ceremonies /\ (c.phase \in Owning => proc[Supervisor].phase \in Owning /\ c.e = proc[Supervisor].e)
    BY <1>12, <1>0, <1>p, CeremonyMade, SetFacts, IdleFacts, Parts DEF BeginSupervise, Owning
  <2>d. \A n \in Nodes : docker'[n] # docker[n] => docker'[n] = 0
    BY <1>12, <1>0 DEF BeginSupervise, rankVars
  <2>e. \A n \in Nodes : Answers(proc[Supervisor], n) /\ docker'[n] = proc[Supervisor].e
                            /\ proc[Supervisor].e \in Epochs \ reported'
                              => c.e = proc[Supervisor].e /\ Answers(c, n)
    BY <1>12, <1>0, <1>p, CeremonyMade, SetFacts, IdleFacts, Parts DEF BeginSupervise, Answers
  <2>f. \A n \in Nodes : ~(Awaits("committing", Supervisor, n, proc[Supervisor].e) /\ proc[Supervisor].e \in starting[n])
    BY <1>12, <1>0, OneIsAsked, Parts DEF BeginSupervise, Awaits, Asks
  <2>g. OneOwner' /\ Owned' /\ Minted' /\ PendingUnowned'
    <3> HIDE DEF c
    <3>. QED  BY <1>p, <2>a, <2>b, <2>c, <2>d, <2>e, <2>f, OneProcGoesOn
  <2>. QED  BY <2>a, <2>b, <2>g DEF FailInv
<1>13. ASSUME CheckDone PROVE FailInv'
  <2> DEFINE c == IF proc[Supervisor].got = {} THEN Idle ELSE Ceremony("ending", proc[Supervisor].e, running.up, {}, {})
  <2>a. /\ proc' = [proc EXCEPT ![Supervisor] = c] /\ UNCHANGED <<starting, pending, epoch, late, faults>>
        /\ reported \subseteq reported'
    BY <1>13 DEF CheckDone, rankVars, history
  <2>b. late = {} /\ faults = 0 /\ Minted /\ OneOwner /\ PendingUnowned /\ Owned
    BY <1>q, <2>a
  <2>c. c \in Ceremonies /\ (c.phase \in Owning => proc[Supervisor].phase \in Owning /\ c.e = proc[Supervisor].e)
    BY <1>13, <1>0, <1>p, CeremonyMade, SetFacts, IdleFacts, Parts DEF CheckDone, Owning
  <2>d. \A n \in Nodes : docker'[n] # docker[n] => docker'[n] = 0
    BY <1>13, <1>0 DEF CheckDone, rankVars
  <2>e. \A n \in Nodes : Answers(proc[Supervisor], n) /\ docker'[n] = proc[Supervisor].e
                            /\ proc[Supervisor].e \in Epochs \ reported'
                              => c.e = proc[Supervisor].e /\ Answers(c, n)
    BY <1>13, <1>0, <1>p, CeremonyMade, SetFacts, IdleFacts, Parts DEF CheckDone, Answers
  <2>f. \A n \in Nodes : ~(Awaits("committing", Supervisor, n, proc[Supervisor].e) /\ proc[Supervisor].e \in starting[n])
    BY <1>13, <1>0, OneIsAsked, Parts DEF CheckDone, Awaits, Asks
  <2>g. OneOwner' /\ Owned' /\ Minted' /\ PendingUnowned'
    <3> HIDE DEF c
    <3>. QED  BY <1>p, <2>a, <2>b, <2>c, <2>d, <2>e, <2>f, OneProcGoesOn
  <2>. QED  BY <2>a, <2>b, <2>g DEF FailInv
<1>14. ASSUME EndDone PROVE FailInv'
  <2> DEFINE c == Idle
  <2>a. /\ proc' = [proc EXCEPT ![Supervisor] = c] /\ UNCHANGED <<starting, pending, epoch, late, faults>>
        /\ reported \subseteq reported'
    BY <1>14 DEF EndDone, rankVars, history
  <2>b. late = {} /\ faults = 0 /\ Minted /\ OneOwner /\ PendingUnowned /\ Owned
    BY <1>q, <2>a
  <2>c. c \in Ceremonies /\ (c.phase \in Owning => proc[Supervisor].phase \in Owning /\ c.e = proc[Supervisor].e)
    BY <1>14, <1>0, <1>p, CeremonyMade, SetFacts, IdleFacts, Parts DEF EndDone, Owning
  <2>d. \A n \in Nodes : docker'[n] # docker[n] => docker'[n] = 0
    BY <1>14, <1>0 DEF EndDone, rankVars
  <2>e. \A n \in Nodes : Answers(proc[Supervisor], n) /\ docker'[n] = proc[Supervisor].e
                            /\ proc[Supervisor].e \in Epochs \ reported'
                              => c.e = proc[Supervisor].e /\ Answers(c, n)
    BY <1>14, <1>0, <1>p, CeremonyMade, SetFacts, IdleFacts, Parts DEF EndDone, Answers
  <2>f. \A n \in Nodes : ~(Awaits("committing", Supervisor, n, proc[Supervisor].e) /\ proc[Supervisor].e \in starting[n])
    BY <1>14, <1>0, OneIsAsked, Parts DEF EndDone, Awaits, Asks
  <2>g. OneOwner' /\ Owned' /\ Minted' /\ PendingUnowned'
    <3> HIDE DEF c
    <3>. QED  BY <1>p, <2>a, <2>b, <2>c, <2>d, <2>e, <2>f, OneProcGoesOn
  <2>. QED  BY <2>a, <2>b, <2>g DEF FailInv
<1>15. ASSUME NEW p \in Procs, PrepareDone(p) PROVE FailInv'
  <2> DEFINE c == IF proc[p].got = Nodes THEN Idle ELSE Ceremony("releasing", proc[p].e, proc[p].got, {}, {})
  <2>a. /\ p \in Procs /\ proc' = [proc EXCEPT ![p] = c] /\ UNCHANGED <<starting, docker, late, faults, reported>>
    BY <1>15, <1>p DEF PrepareDone, rankVars, history
  <2>b. late = {} /\ faults = 0 /\ Minted /\ OneOwner /\ PendingUnowned /\ Owned
    BY <1>q, <2>a
  <2>c. c \in Ceremonies /\ (c.phase \in Owning =>
                                 \A q \in Procs \ {p} : proc[q].phase \in Owning => proc[q].e # c.e)
    BY <1>15, <1>0, <2>a, <2>b, CeremonyMade, SetFacts, IdleFacts, Parts DEF PrepareDone, Owning
  <2>d. \A n \in Nodes : ~Answers(proc[p], n) /\ ~Awaits("committing", p, n, proc[p].e)
    BY <1>15, Parts DEF PrepareDone, Answers, Awaits
  <2>e. proc'[p] = c /\ \A q \in Procs \ {p} : proc'[q] = proc[q]
    BY <1>0, <2>a
  <2>f. Minted' /\ PendingUnowned'
    <3>1. c.phase \notin Owning
      BY <1>0, CeremonyMade, SetFacts, IdleFacts, Parts DEF Owning
    <3>2. /\ proc[p].phase \in Owning /\ epoch' = epoch
          /\ pending' = pending \/ pending' = proc[p].e
      BY <1>15 DEF PrepareDone, Owning
    <3> HIDE DEF c
    <3>3. Minted'
      BY <2>b, <2>e, <3>1, <3>2 DEF Minted
    <3>4. PendingUnowned'
      BY <2>b, <2>e, <3>1, <3>2 DEF PendingUnowned, OneOwner
    <3>. QED  BY <3>3, <3>4
  <2>g. OneOwner' /\ Owned'
    <3> HIDE DEF c
    <3>. QED  BY <2>a, <2>b, <2>c, <2>d, OneProcOwns
  <2>. QED  BY <2>a, <2>b, <2>f, <2>g DEF FailInv
<1>16. ASSUME NEW p \in Sessions, BeginAbort(p) PROVE FailInv'
  <2> DEFINE c == Ceremony("releasing", pending, Nodes, {}, {})
  <2>a. /\ p \in Procs /\ proc' = [proc EXCEPT ![p] = c] /\ UNCHANGED <<starting, docker, late, faults, reported>>
    BY <1>16, <1>p DEF BeginAbort, rankVars, history
  <2>b. late = {} /\ faults = 0 /\ Minted /\ OneOwner /\ PendingUnowned /\ Owned
    BY <1>q, <2>a
  <2>c. c \in Ceremonies /\ (c.phase \in Owning =>
                                 \A q \in Procs \ {p} : proc[q].phase \in Owning => proc[q].e # c.e)
    BY <1>16, <1>0, <2>a, <2>b, CeremonyMade, SetFacts, IdleFacts, Parts DEF BeginAbort, Owning
  <2>d. \A n \in Nodes : ~Answers(proc[p], n) /\ ~Awaits("committing", p, n, proc[p].e)
    BY <1>16, Parts DEF BeginAbort, Answers, Awaits
  <2>e. proc'[p] = c /\ \A q \in Procs \ {p} : proc'[q] = proc[q]
    BY <1>0, <2>a
  <2>f. Minted' /\ PendingUnowned'
    BY <1>16, <1>0, <2>b, <2>c, <2>e, CeremonyMade, SetFacts, IdleFacts, Parts DEF BeginAbort, Minted, PendingUnowned, Owning
  <2>g. OneOwner' /\ Owned'
    <3> HIDE DEF c
    <3>. QED  BY <2>a, <2>b, <2>c, <2>d, OneProcOwns
  <2>. QED  BY <2>a, <2>b, <2>f, <2>g DEF FailInv
<1>17. ASSUME NEW p \in Sessions, BeginCommit(p) PROVE FailInv'
  <2> DEFINE c == Ceremony("committing", pending, Nodes, {}, {})
  <2>a. /\ p \in Procs /\ proc' = [proc EXCEPT ![p] = c] /\ UNCHANGED <<starting, docker, late, faults, reported>>
    BY <1>17, <1>p DEF BeginCommit, rankVars, history
  <2>b. late = {} /\ faults = 0 /\ Minted /\ OneOwner /\ PendingUnowned /\ Owned
    BY <1>q, <2>a
  <2>c. c \in Ceremonies /\ (c.phase \in Owning =>
                                 \A q \in Procs \ {p} : proc[q].phase \in Owning => proc[q].e # c.e)
    BY <1>17, <1>0, <2>a, <2>b, CeremonyMade, SetFacts, IdleFacts, Parts DEF BeginCommit, Owning, PendingUnowned
  <2>d. \A n \in Nodes : ~Answers(proc[p], n) /\ ~Awaits("committing", p, n, proc[p].e)
    BY <1>17, Parts DEF BeginCommit, Answers, Awaits
  <2>e. proc'[p] = c /\ \A q \in Procs \ {p} : proc'[q] = proc[q]
    BY <1>0, <2>a
  <2>f. Minted' /\ PendingUnowned'
    BY <1>17, <1>0, <2>b, <2>c, <2>e, CeremonyMade, SetFacts, IdleFacts, Parts DEF BeginCommit, Minted, PendingUnowned, Owning
  <2>g. OneOwner' /\ Owned'
    <3> HIDE DEF c
    <3>. QED  BY <2>a, <2>b, <2>c, <2>d, OneProcOwns
  <2>. QED  BY <2>a, <2>b, <2>f, <2>g DEF FailInv
<1>18. ASSUME NEW p \in Sessions, BeginPrepare(p) PROVE FailInv'
  <2> DEFINE c == Ceremony("preparing", epoch + 1, Nodes, {}, {})
  <2>a. /\ p \in Procs /\ proc' = [proc EXCEPT ![p] = c] /\ UNCHANGED <<starting, docker, late, faults, reported>>
    BY <1>18, <1>p DEF BeginPrepare, rankVars, history
  <2>b. late = {} /\ faults = 0 /\ Minted /\ OneOwner /\ PendingUnowned /\ Owned
    BY <1>q, <2>a
  <2>c. c \in Ceremonies /\ (c.phase \in Owning =>
                                 \A q \in Procs \ {p} : proc[q].phase \in Owning => proc[q].e # c.e)
    BY <1>18, <1>0, <2>a, <2>b, CeremonyMade, SetFacts, IdleFacts, Parts DEF BeginPrepare, Owning, Minted
  <2>d. \A n \in Nodes : ~Answers(proc[p], n) /\ ~Awaits("committing", p, n, proc[p].e)
    BY <1>18, Parts DEF BeginPrepare, Answers, Awaits
  <2>e. proc'[p] = c /\ \A q \in Procs \ {p} : proc'[q] = proc[q]
    BY <1>0, <2>a
  <2>f. Minted' /\ PendingUnowned'
    BY <1>18, <1>0, <2>b, <2>c, <2>e, CeremonyMade, SetFacts, IdleFacts, Parts DEF BeginPrepare, Minted, PendingUnowned, Owning
  <2>g. OneOwner' /\ Owned'
    <3> HIDE DEF c
    <3>. QED  BY <2>a, <2>b, <2>c, <2>d, OneProcOwns
  <2>. QED  BY <2>a, <2>b, <2>f, <2>g DEF FailInv
<1>19. ASSUME NEW p \in Procs, NEW m \in Nodes, RankVets(p, m) PROVE FailInv'
  <2>a. UNCHANGED <<proc, pending, epoch, late, faults, reported, docker, starting>>
    BY <1>19 DEF RankVets, history
  <2>. QED  BY <2>a DEF FailInv, Minted, OneOwner, PendingUnowned, Owned, Awaits, Asks
<1>20. ASSUME NEW m \in Nodes, Expire(m) PROVE FailInv'
  <2>a. UNCHANGED <<proc, pending, epoch, late, faults, reported, docker, starting>>
    BY <1>20 DEF Expire, history
  <2>. QED  BY <2>a DEF FailInv, Minted, OneOwner, PendingUnowned, Owned, Awaits, Asks
<1>21. ASSUME NEW p \in Procs, NEW m \in Nodes, RankTakes(p, m) PROVE FailInv'
  <2>a. /\ UNCHANGED <<proc, pending, epoch, late, faults, reported, docker>>
        /\ starting' = [starting EXCEPT ![m] = @ \cup {proc[p].e}]
        /\ Awaits("committing", p, m, proc[p].e)
    BY <1>21 DEF RankTakes, Take, history, Awaits
  <2>b. late = {} /\ faults = 0 /\ Minted /\ OneOwner /\ PendingUnowned /\ Owned
    BY <1>q, <2>a
  <2>c. Minted' /\ OneOwner' /\ PendingUnowned'
    BY <2>a, <2>b DEF Minted, OneOwner, PendingUnowned
  <2>d. ASSUME NEW n \in Nodes, NEW e \in Epochs \ reported, e \in starting'[n]
        PROVE  \E q \in Procs : Awaits("committing", q, n, e)
    <3>1. CASE e \in starting[n]
      BY <2>b, <3>1 DEF Owned
    <3>2. CASE e \notin starting[n]
      BY <1>0, <2>a, <2>d, <3>2
    <3>. QED  BY <3>1, <3>2
  <2>e. Owned'
    BY <2>a, <2>b, <2>d DEF Owned, Awaits, Asks
  <2>. QED  BY <2>a, <2>b, <2>c, <2>e DEF FailInv
<1>22. ASSUME NEW m \in Nodes, Dies(m) PROVE FailInv'
  <2>a. /\ UNCHANGED <<proc, pending, epoch, late, reported, starting>> /\ faults = 0
        /\ docker' = [docker EXCEPT ![m] = 0]
    BY <1>22 DEF Dies, history
  <2>b. late = {} /\ Minted /\ OneOwner /\ PendingUnowned /\ Owned
    BY <1>q, <2>a
  <2>c. \A n \in Nodes, e \in Epochs : docker'[n] = e => docker[n] = e
    BY <1>0, <2>a
  <2>. QED  BY <2>a, <2>b, <2>c DEF FailInv, Minted, OneOwner, PendingUnowned, Owned, Awaits, Asks
<1>23. ASSUME NEW m \in Nodes, NEW x \in Epochs, RankPrepares(m, x) PROVE FailInv'
  <2>a. /\ UNCHANGED <<pending, epoch, late, faults, reported, docker, starting>>
        /\ proc' = [p \in Procs |-> IF Awaits("preparing", p, m, x) THEN Counted(proc[p], m) ELSE proc[p]]
    BY <1>23 DEF RankPrepares, history
  <2>b. late = {} /\ faults = 0 /\ Minted /\ OneOwner /\ PendingUnowned /\ Owned
    BY <1>q, <2>a
  <2>c. ASSUME NEW p \in Procs
        PROVE  /\ proc'[p].phase = proc[p].phase /\ proc'[p].e = proc[p].e
               /\ proc[p].phase # "preparing" => proc'[p] = proc[p]
    BY <1>0, <2>a, CeremonyChanges DEF Awaits
  <2>d. Minted' /\ OneOwner' /\ PendingUnowned'
    BY <2>a, <2>b, <2>c, AwaitingProcsGoOn
  <2>e. Owned'
    <3>1. \A p \in Procs, n \in Nodes : Answers(proc[p], n) => Answers(proc[p], n)'
      BY <2>c DEF Answers
    <3>2. \A p \in Procs, n \in Nodes, e \in Epochs :
            Awaits("committing", p, n, e) => Awaits("committing", p, n, e)'
      BY <2>c DEF Awaits, Asks
    <3>. QED  BY <2>a, <2>b, <2>c, <3>1, <3>2 DEF Owned
  <2>. QED  BY <2>a, <2>b, <2>d, <2>e DEF FailInv
<1>24. ASSUME NEW m \in Nodes, NEW x \in Epochs, RankRefuses(m, x) PROVE FailInv'
  <2>a. /\ UNCHANGED <<pending, epoch, late, faults, reported, docker, starting>>
        /\ proc' = [p \in Procs |-> IF Awaits("preparing", p, m, x) THEN Behind(proc[p], m) ELSE proc[p]]
    BY <1>24 DEF RankRefuses, history
  <2>b. late = {} /\ faults = 0 /\ Minted /\ OneOwner /\ PendingUnowned /\ Owned
    BY <1>q, <2>a
  <2>c. ASSUME NEW p \in Procs
        PROVE  /\ proc'[p].phase = proc[p].phase /\ proc'[p].e = proc[p].e
               /\ proc[p].phase # "preparing" => proc'[p] = proc[p]
    BY <1>0, <2>a, CeremonyChanges DEF Awaits
  <2>d. Minted' /\ OneOwner' /\ PendingUnowned'
    BY <2>a, <2>b, <2>c, AwaitingProcsGoOn
  <2>e. Owned'
    <3>1. \A p \in Procs, n \in Nodes : Answers(proc[p], n) => Answers(proc[p], n)'
      BY <2>c DEF Answers
    <3>2. \A p \in Procs, n \in Nodes, e \in Epochs :
            Awaits("committing", p, n, e) => Awaits("committing", p, n, e)'
      BY <2>c DEF Awaits, Asks
    <3>. QED  BY <2>a, <2>b, <2>c, <3>1, <3>2 DEF Owned
  <2>. QED  BY <2>a, <2>b, <2>d, <2>e DEF FailInv
<1>25. ASSUME NEW m \in Nodes, NEW x \in Epochs, RankStarts(m, x) PROVE FailInv'
  <2>a. /\ UNCHANGED <<pending, epoch, late, reported>> /\ faults = 0 /\ x \in starting[m]
        /\ docker' = [docker EXCEPT ![m] = x] /\ starting' = [starting EXCEPT ![m] = @ \ {x}]
        /\ proc' = [p \in Procs |-> IF Awaits("committing", p, m, x) THEN Counted(proc[p], m) ELSE proc[p]]
    BY <1>25 DEF RankStarts, history
  <2>b. late = {} /\ Minted /\ OneOwner /\ PendingUnowned /\ Owned
    BY <1>q, <2>a
  <2>c. ASSUME NEW p \in Procs
        PROVE  /\ ~Awaits("committing", p, m, x) => proc'[p] = proc[p]
               /\ Awaits("committing", p, m, x) =>
                    proc[p].phase = "committing" /\ proc'[p] = Counted(proc[p], m) /\ proc'[p].e = x
    BY <1>0, <2>a, CeremonyChanges, UndoFacts DEF Awaits
  <2>d. Minted' /\ OneOwner' /\ PendingUnowned'
    <3>1. \A p \in Procs : \/ proc'[p].phase = proc[p].phase /\ proc'[p].e = proc[p].e
                           \/ /\ proc[p].phase \in Owning /\ proc'[p].phase \in Owning
                              /\ proc'[p].e = proc[p].e
      BY <1>0, <2>c, CeremonyChanges, UndoFacts DEF Awaits, Owning
    <3>. QED  BY <2>a, <2>b, <3>1, AwaitingProcsGoOn
  <2>e. ASSUME NEW p \in Procs, NEW n \in Nodes, Answers(proc[p], n)
        PROVE  Answers(proc'[p], n) /\ proc'[p].e = proc[p].e
    <3>1. CASE Awaits("committing", p, m, x)
      <4>1. proc[p].phase = "committing" /\ proc[p].e = x /\ n \in proc[p].got
        BY <2>e, <3>1 DEF Awaits, Answers
      <4>2. proc'[p] = Counted(proc[p], m) /\ proc'[p].e = x
        BY <2>c, <3>1
      <4>3. proc'[p].phase = "committing" /\ n \in proc'[p].got
        <5>1. proc[p] \in Ceremonies
          BY <1>0
        <5>2. Counted(proc[p], m).phase = "committing" /\ n \in Counted(proc[p], m).got
          BY <4>1, <5>1, CeremonyChanges
        <5>. QED  BY <4>2, <5>2
      <4>. QED  BY <4>1, <4>2, <4>3 DEF Answers
    <3>2. CASE ~Awaits("committing", p, m, x)
      BY <2>c, <2>e, <3>2
    <3>. QED  BY <3>1, <3>2
  <2>f. ASSUME NEW n \in Nodes, NEW e \in Epochs \ reported, docker'[n] = e
        PROVE  \E p \in Procs : proc'[p].e = e /\ Answers(proc'[p], n)
    <3>1. CASE n = m
      <4>1. e = x
        BY <1>0, <2>a, <2>f, <3>1
      <4>2. PICK p \in Procs : Awaits("committing", p, m, x)
        BY <2>a, <2>b, <2>f, <4>1 DEF Owned
      <4>3. proc'[p].e = x /\ proc'[p].phase = "committing" /\ m \in proc'[p].got
        <5>1. proc[p] \in Ceremonies
          BY <1>0
        <5>2. proc[p].phase = "committing" /\ proc'[p] = Counted(proc[p], m) /\ proc'[p].e = x
          BY <2>c, <4>2
        <5>3. /\ Counted(proc[p], m).phase = "committing"
              /\ m \in Counted(proc[p], m).got
          BY <5>1, <5>2, CeremonyChanges
        <5>. QED  BY <5>2, <5>3
      <4>. QED  BY <3>1, <4>1, <4>3 DEF Answers
    <3>2. CASE n # m
      BY <1>0, <2>a, <2>b, <2>e, <2>f, <3>2 DEF Owned
    <3>. QED  BY <3>1, <3>2
  <2>g. ASSUME NEW n \in Nodes, NEW e \in Epochs \ reported, e \in starting'[n]
        PROVE  \E p \in Procs : Awaits("committing", p, n, e)'
    <3>1. e \in starting[n] /\ (n # m \/ e # x)
      BY <1>0, <2>a, <2>g
    <3>2. PICK p \in Procs : Awaits("committing", p, n, e)
      BY <2>b, <3>1 DEF Owned
    <3>3. ~Awaits("committing", p, m, x)
      BY <3>1, <3>2, OneIsAsked DEF Awaits
    <3>. QED  BY <2>c, <3>2, <3>3 DEF Awaits, Asks
  <2>h. Owned'
    BY <2>a, <2>f, <2>g DEF Owned
  <2>. QED  BY <2>a, <2>b, <2>d, <2>h DEF FailInv
<1>26. ASSUME NEW m \in Nodes, NEW x \in Epochs, RankStartFails(m, x) PROVE FailInv'
  <2>a. /\ UNCHANGED <<pending, epoch, late, reported>> /\ faults = 0 /\ x \in starting[m]
        /\ starting' = [starting EXCEPT ![m] = @ \ {x}]
        /\ \A n \in Nodes : docker'[n] \in {0, docker[n]}
        /\ proc' = [p \in Procs |-> IF Awaits("committing", p, m, x) THEN Undo(proc[p]) ELSE proc[p]]
    BY <1>26, <1>0 DEF RankStartFails, history, TypeOK
  <2>b. late = {} /\ Minted /\ OneOwner /\ PendingUnowned /\ Owned
    BY <1>q, <2>a
  <2>c. ASSUME NEW p \in Procs
        PROVE  /\ ~Awaits("committing", p, m, x) => proc'[p] = proc[p]
               /\ Awaits("committing", p, m, x) =>
                    proc[p].phase = "committing" /\ proc'[p] = Undo(proc[p]) /\ proc'[p].e = x
    BY <1>0, <2>a, CeremonyChanges, UndoFacts DEF Awaits
  <2>d. Minted' /\ OneOwner' /\ PendingUnowned'
    <3>1. \A p \in Procs : \/ proc'[p].phase = proc[p].phase /\ proc'[p].e = proc[p].e
                           \/ /\ proc[p].phase \in Owning /\ proc'[p].phase \in Owning
                              /\ proc'[p].e = proc[p].e
      BY <1>0, <2>c, CeremonyChanges, UndoFacts DEF Awaits, Owning
    <3>. QED  BY <2>a, <2>b, <3>1, AwaitingProcsGoOn
  <2>e. ASSUME NEW p \in Procs, NEW n \in Nodes, Answers(proc[p], n)
        PROVE  Answers(proc'[p], n) /\ proc'[p].e = proc[p].e
    <3>1. CASE Awaits("committing", p, m, x)
      <4>1. proc[p].phase = "committing" /\ proc[p].e = x /\ n \in proc[p].got
        BY <2>e, <3>1 DEF Awaits, Answers
      <4>2. proc'[p] = Undo(proc[p]) /\ proc'[p].e = x
        BY <2>c, <3>1
      <4>3. proc'[p].phase = "unstarting" /\ n \in proc'[p].left
        <5>1. proc[p] \in Ceremonies
          BY <1>0
        <5>2. Undo(proc[p]).phase = "unstarting" /\ n \in Undo(proc[p]).left
          BY <4>1, <5>1, UndoFacts, Parts
        <5>. QED  BY <4>2, <5>2
      <4>. QED  BY <4>1, <4>2, <4>3 DEF Answers
    <3>2. CASE ~Awaits("committing", p, m, x)
      BY <2>c, <2>e, <3>2
    <3>. QED  BY <3>1, <3>2
  <2>f. ASSUME NEW n \in Nodes, NEW e \in Epochs \ reported, docker'[n] = e
        PROVE  \E p \in Procs : proc'[p].e = e /\ Answers(proc'[p], n)
    BY <1>0, <2>a, <2>b, <2>e, <2>f DEF Owned
  <2>g. ASSUME NEW n \in Nodes, NEW e \in Epochs \ reported, e \in starting'[n]
        PROVE  \E p \in Procs : Awaits("committing", p, n, e)'
    <3>1. e \in starting[n] /\ (n # m \/ e # x)
      BY <1>0, <2>a, <2>g
    <3>2. PICK p \in Procs : Awaits("committing", p, n, e)
      BY <2>b, <3>1 DEF Owned
    <3>3. ~Awaits("committing", p, m, x)
      BY <3>1, <3>2, OneIsAsked DEF Awaits
    <3>. QED  BY <2>c, <3>2, <3>3 DEF Awaits, Asks
  <2>h. Owned'
    BY <2>a, <2>f, <2>g DEF Owned
  <2>. QED  BY <2>a, <2>b, <2>d, <2>h DEF FailInv
<1>27. ASSUME NEW x \in late, LateArrives(x) PROVE FailInv'
  <2>1. faults' = faults
    BY <1>27 DEF LateArrives
  <2>. QED  BY <1>27, <1>q, <2>1
<1>28. ASSUME NEW p \in Procs, NEW m \in Nodes, RankStopFails(p, m) PROVE FailInv'
  BY <1>28, FaultLoss DEF RankStopFails, TypeOK
<1>29. ASSUME NEW p \in Procs, NEW m \in Nodes, CallFails(p, m) PROVE FailInv'
  BY <1>29, FaultLoss DEF CallFails, TypeOK
<1>30. ASSUME NEW m \in Nodes, RankRestart(m) PROVE FailInv'
  BY <1>30, FaultLoss DEF RankRestart, TypeOK
<1>31. ASSUME HeadRestart PROVE FailInv'
  BY <1>31, FaultLoss DEF HeadRestart, TypeOK
<1>32. CASE UNCHANGED vars
  BY <1>32 DEF FailInv, Minted, OneOwner, PendingUnowned, Owned, Awaits, Asks, vars, rankVars, history
<1>. QED
  BY <1>1, <1>2, <1>3, <1>4, <1>5, <1>6, <1>7, <1>8, <1>9, <1>10,
     <1>11, <1>12, <1>13, <1>14, <1>15, <1>16, <1>17, <1>18, <1>19, <1>20,
     <1>21, <1>22, <1>23, <1>24, <1>25, <1>26, <1>27, <1>28, <1>29, <1>30,
     <1>31, <1>32
     DEF Next, Driver, Rank, Supervise, Ranks, Works, Requests, Environment

(* While no call is lost, no stop fails and nothing restarts, an epoch     *)
(* that is not under way and was never reported has no container anywhere: *)
(* what a failed launch started is stopped again, with any number of ranks *)
(* and ceremonies, refusals, failed starts and deaths (ceremonies.rs,      *)
(* commit and its unwinding).                                              *)
THEOREM FailedLaunchesLeaveNothing == Spec => []FailedLeavesNothing
<1>1. Init => FailInv
  BY ClusterAssumption, IdleFacts
     DEF Init, FailInv, Minted, OneOwner, PendingUnowned, Owned, Owning, Epochs
<1>2. TypeOK /\ FailInv /\ [Next]_vars => FailInv'
  BY FailStep
<1>3. FailInv => FailedLeavesNothing
  BY DEF FailInv, FailedLeavesNothing, Owned, Answers, Awaits
<1>. QED  BY <1>1, <1>2, <1>3, TypeCorrect, PTL DEF Spec

-----------------------------------------------------------------------------
(* Aborts *)

(* A verb leaves a rank's reservation of epoch e alone, unless it is an    *)
(* abort of e, takes it, or it has expired.                                *)
LEMMA ReservationStays ==
  ASSUME reserved \in [Nodes -> [epoch : 0..MaxEpochs, expired : BOOLEAN]],
         NEW n \in Nodes, NEW m \in Nodes, NEW x \in Epochs, reserved[n].epoch # 0,
         ~reserved[n].expired, reserved'[n].epoch = 0
  PROVE  /\ ~Reserve(m, x) /\ ~ReleaseExpired(m, x) /\ reserved' # reserved
         /\ Release(m, x) => m = n /\ reserved[n].epoch = x
         /\ Take(m, x) => m = n /\ reserved[n].epoch = x
  <1>1. x # 0
    BY ClusterAssumption DEF Epochs
  <1>. QED
    BY <1>1 DEF Reserve, ReleaseExpired, Release, Take, NoReservation

(* What a step of the system may end a reservation by. *)
LEMMA AbortStep ==
  ASSUME TypeOK, EpochNamed, [Next]_vars, NEW n \in Nodes, reserved[n].epoch # 0,
         ~reserved[n].expired, reserved'[n].epoch = 0, faults' = faults
  PROVE  \/ reserved[n].epoch \in starting'[n]
         \/ \E p \in Procs : proc[p].phase = "releasing" /\ proc[p].e = reserved[n].epoch
         \/ [verb |-> "abort", node |-> n, e |-> reserved[n].epoch] \in late
<1> DEFINE Goal == \/ reserved[n].epoch \in starting'[n]
                   \/ \E p \in Procs : proc[p].phase = "releasing" /\ proc[p].e = reserved[n].epoch
                   \/ [verb |-> "abort", node |-> n, e |-> reserved[n].epoch] \in late
<1>0. /\ reserved \in [Nodes -> [epoch : 0..MaxEpochs, expired : BOOLEAN]]
      /\ starting \in [Nodes -> SUBSET Epochs] /\ late \subseteq Calls
      /\ \A p \in Procs : proc[p] \in Ceremonies
  BY DEF TypeOK
<1>1. ASSUME NEW p \in Procs, proc[p].phase # "idle" PROVE proc[p].e \in Epochs
  BY <1>0, <1>1, SetFacts, ClusterAssumption DEF EpochNamed, Epochs
<1>2. reserved' # reserved
  OBVIOUS
<1>f. \A kind : ~Fault(kind)
  <2>1. faults \in Int
    BY DEF TypeOK
  <2>. QED  BY <2>1 DEF Fault
<1>3. ASSUME NEW p \in Procs, Driver(p) PROVE Goal
  <2>1. ASSUME NEW m \in Nodes, RankReleases(p, m) PROVE Goal
    BY <1>0, <1>1, <2>1, ReservationStays DEF RankReleases
  <2>2. ASSUME NEW m \in Nodes, RankTakes(p, m) PROVE Goal
    <3>1. proc[p].e \in Epochs /\ Take(m, proc[p].e)
      BY <1>1, <2>2 DEF RankTakes
    <3>2. m = n /\ reserved[n].epoch = proc[p].e
      BY <1>0, <3>1, ReservationStays
    <3>. QED  BY <1>0, <3>1, <3>2 DEF Take
  <2>3. ASSUME NEW m \in Nodes, RankVets(p, m) PROVE FALSE
    BY <1>0, <1>1, <2>3, ReservationStays DEF RankVets, Vet
  <2>4. ASSUME NEW m \in Nodes, RankDeclines(p, m) \/ RankHasNone(p, m) \/ RankIsAlive(p, m)
                                \/ RankStops(p, m)
        PROVE  FALSE
    BY <1>2, <2>4 DEF RankDeclines, RankHasNone, RankIsAlive, RankStops, rankVars
  <2>5. ASSUME PrepareDone(p) \/ ReleaseDone(p) \/ Settle(p) \/ SettleDone(p) \/ UndoneOrTorn(p)
               \/ StopDone(p)
        PROVE  FALSE
    BY <1>2, <2>5 DEF PrepareDone, ReleaseDone, Settle, SettleDone, UndoneOrTorn, StopDone, rankVars
  <2>. QED  BY <1>3, <2>1, <2>2, <2>3, <2>4, <2>5 DEF Driver, Rank
<1>4. ASSUME Supervise PROVE FALSE
  BY <1>2, <1>4 DEF Supervise, BeginSupervise, CheckDone, EndDone, rankVars
<1>5. ASSUME NEW m \in Nodes, NEW x \in Epochs, Works(m, x) PROVE FALSE
  BY <1>0, <1>2, <1>5, ReservationStays DEF Works, RankPrepares, RankRefuses, RankStarts
<1>6. ASSUME NEW s \in Sessions, Requests(s) PROVE FALSE
  BY <1>2, <1>6 DEF Requests, BeginPrepare, BeginAbort, BeginCommit, BeginStop, rankVars
<1>7. ASSUME NEW x \in late, LateArrives(x) PROVE Goal
  <2>1. x \in Calls /\ x.node \in Nodes /\ x.e \in Epochs
    BY <1>0 DEF Calls
  <2>2. CASE x.verb = "prepare"
    BY <1>0, <1>2, <1>7, <2>1, <2>2, ReservationStays DEF LateArrives, Vet
  <2>3. CASE x.verb = "commit"
    <3>1. Take(x.node, x.e)
      BY <1>2, <1>7, <2>3 DEF LateArrives
    <3>2. x.node = n /\ reserved[n].epoch = x.e
      BY <1>0, <2>1, <3>1, ReservationStays
    <3>. QED  BY <1>0, <3>1, <3>2 DEF Take
  <2>4. CASE x.verb = "abort"
    <3>1. Release(x.node, x.e)
      BY <1>7, <2>4 DEF LateArrives
    <3>2. x.node = n /\ reserved[n].epoch = x.e
      BY <1>0, <2>1, <3>1, ReservationStays
    <3>3. x = [verb |-> "abort", node |-> n, e |-> reserved[n].epoch]
      BY <2>1, <2>4, <3>2 DEF Calls
    <3>. QED  BY <3>3
  <2>5. CASE x.verb = "stop"
    BY <1>2, <1>7, <2>5 DEF LateArrives
  <2>. QED  BY <2>1, <2>2, <2>3, <2>4, <2>5 DEF Calls
<1>8. ASSUME NEW m \in Nodes, Expire(m) PROVE FALSE
  BY <1>0, <1>8 DEF Expire
<1>9. ASSUME \/ \E m \in Nodes, x \in Epochs : RankStartFails(m, x)
             \/ \E p \in Procs, m \in Nodes : RankStopFails(p, m) \/ CallFails(p, m)
             \/ \E m \in Nodes : Dies(m) \/ RankRestart(m)
             \/ HeadRestart
      PROVE  FALSE
  BY <1>f, <1>9 DEF RankStartFails, RankStopFails, CallFails, Dies, RankRestart, HeadRestart
<1>10. ASSUME UNCHANGED vars PROVE FALSE
  BY <1>2, <1>10 DEF vars, rankVars
<1>11. Goal
  BY <1>3, <1>4, <1>5, <1>6, <1>7, <1>8, <1>9, <1>10 DEF Next, Ranks, Environment
<1>. QED  BY <1>11

(* An abort for a stale epoch, arriving late, releases no reservation made *)
(* since: short of a restart, only the taking of it or an abort of its own *)
(* epoch ends a reservation that has not expired (rankservice/mod.rs,      *)
(* abort and commit).                                                      *)
THEOREM StaleAbortsAreHarmless == Spec => StaleAbortReleasesNothing
<1>1. Init => TypeOK /\ EpochNamed
  BY InitTypeAndConsent DEF ConsentInv
<1>2. TypeOK /\ EpochNamed /\ [Next]_vars => TypeOK' /\ EpochNamed'
  BY TypeStep
<1>3. TypeOK /\ EpochNamed /\ [Next]_vars =>
        [\A n \in Nodes : LET e == reserved[n].epoch IN
           e # 0 /\ ~reserved[n].expired /\ reserved'[n].epoch = 0 /\ faults' = faults
             => \/ e \in starting'[n]
                \/ \E p \in Procs : proc[p].phase = "releasing" /\ proc[p].e = e
                \/ [verb |-> "abort", node |-> n, e |-> e] \in late]_vars
  BY AbortStep
<1>. QED  BY <1>1, <1>2, <1>3, PTL DEF Spec, StaleAbortReleasesNothing

-----------------------------------------------------------------------------
(* The launch implements the agreement *)

(* What a ceremony that commits has behind it has started, and when the    *)
(* ranks are asked whether they are alive all of them have.                *)
CommitOK(c, b) ==
  /\ c.phase = "committing" => Nodes \ c.left \subseteq b[c.e]
  /\ c.phase = "settling" => b[c.e] = Nodes

CommitInv == \A p \in Procs : CommitOK(proc[p], begun)

(* A ceremony that becomes d has nothing to show for it: d neither commits *)
(* nor settles, or it goes on settling what was begun.                     *)
Quiet(c, d) ==
  \/ d.phase \notin {"committing", "settling"}
  \/ c.phase = "settling" /\ d.phase = "settling" /\ d.e = c.e

QuietStep == \A p \in Procs : proc'[p] = proc[p] \/ Quiet(proc[p], proc'[p])

(* A ceremony that goes on quietly, or not at all, keeps what was begun.   *)
LEMMA QuietKeeps ==
  ASSUME CommitInv, QuietStep, begun' = begun
  PROVE  CommitInv'
<1>. SUFFICES ASSUME NEW p \in Procs
             PROVE  CommitOK(proc'[p], begun)
  BY DEF CommitInv
<1>1. CommitOK(proc[p], begun)
  BY DEF CommitInv
<1>2. CASE proc'[p] = proc[p]
  BY <1>1, <1>2
<1>3. CASE Quiet(proc[p], proc'[p])
  BY <1>1, <1>3 DEF Quiet, CommitOK
<1>. QED  BY <1>2, <1>3 DEF QuietStep

LEMMA OneProcQuiet ==
  ASSUME proc \in [Procs -> Ceremonies], NEW p \in Procs, NEW c,
         proc' = [proc EXCEPT ![p] = c], Quiet(proc[p], c)
  PROVE  QuietStep
  BY DEF QuietStep

LEMMA AwaitingProcsQuiet ==
  ASSUME NEW f, proc' = f, \A p \in Procs : f[p] = proc[p] \/ Quiet(proc[p], f[p])
  PROVE  QuietStep
  BY DEF QuietStep

(* A ceremony that gives up on a call settles only if it did before.       *)
LEMMA UnansweredQuiet ==
  ASSUME NEW c \in Ceremonies, NEW n \in Nodes, c.phase # "idle"
  PROVE  Quiet(c, Unanswered(c, n))
<1>1. CASE c.phase = "committing"
  BY <1>1, UndoFacts DEF Unanswered, Quiet
<1>2. CASE c.phase \in {"settling", "checking", "stopping", "ending"}
  BY <1>2, CeremonyChanges DEF Unanswered, Quiet
<1>3. CASE c.phase \notin {"committing", "settling", "checking", "stopping", "ending"}
  BY <1>3, CeremonyChanges DEF Unanswered, Quiet
<1>. QED  BY <1>1, <1>2, <1>3

(* Every step keeps what the commits and the settling windows rest on.     *)
LEMMA CommitStep == TypeOK /\ EpochNamed /\ CommitInv /\ [Next]_vars => CommitInv'
<1>. SUFFICES ASSUME TypeOK, EpochNamed, CommitInv, [Next]_vars PROVE CommitInv'
  OBVIOUS
<1>0. /\ proc \in [Procs -> Ceremonies] /\ \A p \in Procs : proc[p] \in Ceremonies
      /\ CommitInv
  BY DEF TypeOK
<1>p. Supervisor \in Procs /\ Sessions \subseteq Procs
  BY DEF Procs
<1>1. ASSUME NEW p \in Procs, NEW n \in Nodes, RankVets(p, n) PROVE CommitInv'
  <2>1. proc' = proc /\ begun' = begun
    BY <1>1 DEF RankVets, rankVars, history
  <2>. QED  BY <1>0, <2>1, QuietKeeps DEF QuietStep
<1>2. ASSUME NEW p \in Procs, NEW n \in Nodes, RankDeclines(p, n) PROVE CommitInv'
  <2> DEFINE c == (Behind(proc[p], n))
  <2>1. proc' = [proc EXCEPT ![p] = c] /\ begun' = begun
    BY <1>2 DEF RankDeclines, history
  <2>2. Quiet(proc[p], c)
    BY <1>2, <1>0, CeremonyChanges DEF RankDeclines, Quiet
  <2> HIDE DEF c
  <2>. QED  BY <1>0, <2>1, <2>2, OneProcQuiet, QuietKeeps
<1>3. ASSUME NEW p \in Procs, NEW n \in Nodes, RankReleases(p, n) PROVE CommitInv'
  <2> DEFINE c == (Behind(proc[p], n))
  <2>1. proc' = [proc EXCEPT ![p] = c] /\ begun' = begun
    BY <1>3 DEF RankReleases, history
  <2>2. Quiet(proc[p], c)
    BY <1>3, <1>0, CeremonyChanges DEF RankReleases, Quiet
  <2> HIDE DEF c
  <2>. QED  BY <1>0, <2>1, <2>2, OneProcQuiet, QuietKeeps
<1>4. ASSUME NEW p \in Procs, NEW n \in Nodes, RankTakes(p, n) PROVE CommitInv'
  <2>1. proc' = proc /\ begun' = begun
    BY <1>4 DEF RankTakes, rankVars, history
  <2>. QED  BY <1>0, <2>1, QuietKeeps DEF QuietStep
<1>5. ASSUME NEW p \in Procs, NEW n \in Nodes, RankHasNone(p, n) PROVE CommitInv'
  <2> DEFINE c == (Undo(proc[p]))
  <2>1. proc' = [proc EXCEPT ![p] = c] /\ begun' = begun
    BY <1>5 DEF RankHasNone, history
  <2>2. Quiet(proc[p], c)
    BY <1>5, <1>0, UndoFacts DEF RankHasNone, Quiet
  <2> HIDE DEF c
  <2>. QED  BY <1>0, <2>1, <2>2, OneProcQuiet, QuietKeeps
<1>6. ASSUME NEW p \in Procs, NEW n \in Nodes, RankIsAlive(p, n) PROVE CommitInv'
  <2> DEFINE c == (IF docker[n] # 0 THEN Behind(proc[p], n) ELSE Counted(proc[p], n))
  <2>1. proc' = [proc EXCEPT ![p] = c] /\ begun' = begun
    BY <1>6 DEF RankIsAlive, history
  <2>2. Quiet(proc[p], c)
    BY <1>6, <1>0, CeremonyChanges DEF RankIsAlive, Quiet
  <2> HIDE DEF c
  <2>. QED  BY <1>0, <2>1, <2>2, OneProcQuiet, QuietKeeps
<1>7. ASSUME NEW p \in Procs, NEW n \in Nodes, RankStops(p, n) PROVE CommitInv'
  <2> DEFINE c == (Behind(proc[p], n))
  <2>1. proc' = [proc EXCEPT ![p] = c] /\ begun' = begun
    BY <1>7 DEF RankStops, history
  <2>2. Quiet(proc[p], c)
    BY <1>7, <1>0, CeremonyChanges DEF RankStops, StopPhases, Quiet
  <2> HIDE DEF c
  <2>. QED  BY <1>0, <2>1, <2>2, OneProcQuiet, QuietKeeps
<1>8. ASSUME NEW p \in Procs, PrepareDone(p) PROVE CommitInv'
  <2> DEFINE c == (IF proc[p].got = Nodes THEN Idle
                   ELSE Ceremony("releasing", proc[p].e, proc[p].got, {}, {}))
  <2>1. proc' = [proc EXCEPT ![p] = c] /\ begun' = begun
    BY <1>8 DEF PrepareDone, history
  <2>2. Quiet(proc[p], c)
    BY <1>8, <1>0, IdleFacts DEF PrepareDone, Quiet, Ceremony
  <2> HIDE DEF c
  <2>. QED  BY <1>0, <2>1, <2>2, OneProcQuiet, QuietKeeps
<1>9. ASSUME NEW p \in Procs, ReleaseDone(p) PROVE CommitInv'
  <2> DEFINE c == (Idle)
  <2>1. proc' = [proc EXCEPT ![p] = c] /\ begun' = begun
    BY <1>9 DEF ReleaseDone, history
  <2>2. Quiet(proc[p], c)
    BY <1>9, <1>0, IdleFacts DEF ReleaseDone, Quiet
  <2> HIDE DEF c
  <2>. QED  BY <1>0, <2>1, <2>2, OneProcQuiet, QuietKeeps
<1>10. ASSUME NEW p \in Procs, Settle(p) PROVE CommitInv'
  <2> DEFINE c == Ceremony("settling", proc[p].e, Nodes, {}, {})
  <2>1. /\ proc' = [proc EXCEPT ![p] = c] /\ begun' = begun
        /\ proc[p].phase = "committing" /\ proc[p].left = {}
    BY <1>10 DEF Settle, history
  <2>2. proc[p].e \in Epochs
    BY <1>0, <2>1, SetFacts, ClusterAssumption DEF EpochNamed, Epochs
  <2>3. begun[proc[p].e] = Nodes
    <3>1. Nodes \subseteq begun[proc[p].e]
      BY <1>0, <2>1 DEF CommitInv, CommitOK
    <3>. QED  BY <2>2, <3>1 DEF TypeOK
  <2>4. CommitOK(c, begun)
    BY <2>3 DEF CommitOK, Ceremony
  <2> HIDE DEF c
  <2>. QED  BY <1>0, <2>1, <2>4 DEF CommitInv
<1>11. ASSUME NEW p \in Procs, SettleDone(p) PROVE CommitInv'
  <2> DEFINE c == (IF proc[p].got = {} THEN Idle
                   ELSE Ceremony("tearing", proc[p].e, Nodes, {}, {}))
  <2>1. proc' = [proc EXCEPT ![p] = c] /\ begun' = begun
    BY <1>11 DEF SettleDone, history
  <2>2. Quiet(proc[p], c)
    BY <1>11, <1>0, IdleFacts DEF SettleDone, Quiet, Ceremony
  <2> HIDE DEF c
  <2>. QED  BY <1>0, <2>1, <2>2, OneProcQuiet, QuietKeeps
<1>12. ASSUME NEW p \in Procs, UndoneOrTorn(p) PROVE CommitInv'
  <2> DEFINE c == (IF proc[p].phase = "tearing" THEN Idle
                   ELSE Ceremony("releasing", proc[p].e, proc[p].rest, {}, {}))
  <2>1. proc' = [proc EXCEPT ![p] = c] /\ begun' = begun
    BY <1>12 DEF UndoneOrTorn, history
  <2>2. Quiet(proc[p], c)
    BY <1>12, <1>0, IdleFacts DEF UndoneOrTorn, Quiet, Ceremony
  <2> HIDE DEF c
  <2>. QED  BY <1>0, <2>1, <2>2, OneProcQuiet, QuietKeeps
<1>13. ASSUME NEW p \in Procs, StopDone(p) PROVE CommitInv'
  <2> DEFINE c == (Idle)
  <2>1. proc' = [proc EXCEPT ![p] = c] /\ begun' = begun
    BY <1>13 DEF StopDone, history
  <2>2. Quiet(proc[p], c)
    BY <1>13, <1>0, IdleFacts DEF StopDone, Quiet
  <2> HIDE DEF c
  <2>. QED  BY <1>0, <2>1, <2>2, OneProcQuiet, QuietKeeps
<1>14. CASE BeginSupervise
  <2> DEFINE c == (Ceremony("checking", running.epoch, running.up, {}, {}))
  <2>1. proc' = [proc EXCEPT ![Supervisor] = c] /\ begun' = begun
    BY <1>14 DEF BeginSupervise, history
  <2>2. Quiet(proc[Supervisor], c)
    BY <1>14, <1>0, <1>p DEF BeginSupervise, Quiet, Ceremony
  <2> HIDE DEF c
  <2>. QED  BY <1>0, <1>p, <2>1, <2>2, OneProcQuiet, QuietKeeps
<1>15. CASE CheckDone
  <2> DEFINE c == (IF proc[Supervisor].got = {} THEN Idle
                   ELSE Ceremony("ending", proc[Supervisor].e, running.up, {}, {}))
  <2>1. proc' = [proc EXCEPT ![Supervisor] = c] /\ begun' = begun
    BY <1>15 DEF CheckDone, history
  <2>2. Quiet(proc[Supervisor], c)
    BY <1>15, <1>0, <1>p, IdleFacts DEF CheckDone, Quiet, Ceremony
  <2> HIDE DEF c
  <2>. QED  BY <1>0, <1>p, <2>1, <2>2, OneProcQuiet, QuietKeeps
<1>16. CASE EndDone
  <2> DEFINE c == (Idle)
  <2>1. proc' = [proc EXCEPT ![Supervisor] = c] /\ begun' = begun
    BY <1>16 DEF EndDone, history
  <2>2. Quiet(proc[Supervisor], c)
    BY <1>16, <1>0, <1>p, IdleFacts DEF EndDone, Quiet
  <2> HIDE DEF c
  <2>. QED  BY <1>0, <1>p, <2>1, <2>2, OneProcQuiet, QuietKeeps
<1>17. ASSUME NEW n \in Nodes, NEW e \in Epochs, RankPrepares(n, e) PROVE CommitInv'
  <2> DEFINE f == [p \in Procs |-> IF Awaits("preparing", p, n, e) THEN Counted(proc[p], n)
                                   ELSE proc[p]]
  <2>1. proc' = f /\ begun' = begun
    BY <1>17 DEF RankPrepares, history
  <2>2. \A p \in Procs : f[p] = proc[p] \/ Quiet(proc[p], f[p])
    BY <1>0, CeremonyChanges DEF Awaits, Quiet
  <2> HIDE DEF f
  <2>. QED  BY <1>0, <2>1, <2>2, AwaitingProcsQuiet, QuietKeeps
<1>18. ASSUME NEW n \in Nodes, NEW e \in Epochs, RankRefuses(n, e) PROVE CommitInv'
  <2> DEFINE f == [p \in Procs |-> IF Awaits("preparing", p, n, e) THEN Behind(proc[p], n)
                                   ELSE proc[p]]
  <2>1. proc' = f /\ begun' = begun
    BY <1>18 DEF RankRefuses, history
  <2>2. \A p \in Procs : f[p] = proc[p] \/ Quiet(proc[p], f[p])
    BY <1>0, CeremonyChanges DEF Awaits, Quiet
  <2> HIDE DEF f
  <2>. QED  BY <1>0, <2>1, <2>2, AwaitingProcsQuiet, QuietKeeps
<1>19. ASSUME NEW n \in Nodes, NEW e \in Epochs, RankStarts(n, e) PROVE CommitInv'
  <2> DEFINE f == [p \in Procs |-> IF Awaits("committing", p, n, e) THEN Counted(proc[p], n)
                                   ELSE proc[p]]
  <2>1. proc' = f /\ begun' = [begun EXCEPT ![e] = @ \cup {n}]
    BY <1>19 DEF RankStarts
  <2>2. /\ n \in begun'[e] /\ begun \in [Epochs -> SUBSET Nodes]
        /\ \A d \in Epochs : begun[d] \subseteq begun'[d] /\ begun'[d] \subseteq Nodes
    BY <2>1 DEF TypeOK
  <2>. SUFFICES ASSUME NEW p \in Procs PROVE CommitOK(f[p], begun')
    BY <2>1 DEF CommitInv
  <2>3. CommitOK(proc[p], begun) /\ proc[p] \in Ceremonies
    BY <1>0 DEF CommitInv
  <2>4. CASE Awaits("committing", p, n, e)
    <3>1. /\ f[p].phase = "committing" /\ f[p].e = e /\ f[p].left = proc[p].left \ {n}
          /\ proc[p].phase = "committing" /\ proc[p].e = e
      BY <2>3, <2>4 DEF Awaits, Counted, Ceremonies
    <3>. QED  BY <2>2, <2>3, <3>1 DEF CommitOK
  <2>5. CASE ~Awaits("committing", p, n, e)
    <3>1. f[p] = proc[p]
      BY <2>5
    <3>2. proc[p].phase \in {"committing", "settling"} => proc[p].e \in Epochs
      BY <1>0, <2>3, SetFacts, ClusterAssumption DEF EpochNamed, Epochs
    <3>. QED  BY ZenonT(60), <2>2, <2>3, <3>1, <3>2 DEF CommitOK
  <2>. QED  BY <2>4, <2>5
<1>20. ASSUME NEW s \in Sessions, BeginPrepare(s) PROVE CommitInv'
  <2> DEFINE c == (Ceremony("preparing", epoch + 1, Nodes, {}, {}))
  <2>1. proc' = [proc EXCEPT ![s] = c] /\ begun' = begun
    BY <1>20 DEF BeginPrepare, history
  <2>2. Quiet(proc[s], c)
    BY <1>20, <1>0, <1>p DEF BeginPrepare, Quiet, Ceremony
  <2> HIDE DEF c
  <2>. QED  BY <1>0, <1>p, <2>1, <2>2, OneProcQuiet, QuietKeeps
<1>21. ASSUME NEW s \in Sessions, BeginAbort(s) PROVE CommitInv'
  <2> DEFINE c == (Ceremony("releasing", pending, Nodes, {}, {}))
  <2>1. proc' = [proc EXCEPT ![s] = c] /\ begun' = begun
    BY <1>21 DEF BeginAbort, history
  <2>2. Quiet(proc[s], c)
    BY <1>21, <1>0, <1>p DEF BeginAbort, Quiet, Ceremony
  <2> HIDE DEF c
  <2>. QED  BY <1>0, <1>p, <2>1, <2>2, OneProcQuiet, QuietKeeps
<1>22. ASSUME NEW s \in Sessions, BeginCommit(s) PROVE CommitInv'
  <2> DEFINE c == Ceremony("committing", pending, Nodes, {}, {})
  <2>1. proc' = [proc EXCEPT ![s] = c] /\ begun' = begun
    BY <1>22 DEF BeginCommit, history
  <2>2. CommitOK(c, begun)
    BY DEF CommitOK, Ceremony
  <2> HIDE DEF c
  <2>. QED  BY <1>0, <1>p, <2>1, <2>2 DEF CommitInv
<1>23. ASSUME NEW s \in Sessions, BeginStop(s) PROVE CommitInv'
  <2> DEFINE c == (Ceremony("stopping", running.epoch, running.up, {}, {}))
  <2>1. proc' = [proc EXCEPT ![s] = c] /\ begun' = begun
    BY <1>23 DEF BeginStop, history
  <2>2. Quiet(proc[s], c)
    BY <1>23, <1>0, <1>p DEF BeginStop, Quiet, Ceremony
  <2> HIDE DEF c
  <2>. QED  BY <1>0, <1>p, <2>1, <2>2, OneProcQuiet, QuietKeeps
<1>24. ASSUME NEW n \in Nodes, NEW e \in Epochs, RankStartFails(n, e) PROVE CommitInv'
  <2> DEFINE f == [p \in Procs |-> IF Awaits("committing", p, n, e) THEN Undo(proc[p])
                                   ELSE proc[p]]
  <2>1. proc' = f /\ begun' = begun
    BY <1>24 DEF RankStartFails, history
  <2>2. \A p \in Procs : f[p] = proc[p] \/ Quiet(proc[p], f[p])
    BY <1>0, UndoFacts DEF Awaits, Quiet
  <2> HIDE DEF f
  <2>. QED  BY <1>0, <2>1, <2>2, AwaitingProcsQuiet, QuietKeeps
<1>25. ASSUME NEW p \in Procs, NEW n \in Nodes, RankStopFails(p, n) PROVE CommitInv'
  <2> DEFINE c == (IF n \in Local THEN Counted(proc[p], n) ELSE Behind(proc[p], n))
  <2>1. proc' = [proc EXCEPT ![p] = c] /\ begun' = begun
    BY <1>25 DEF RankStopFails, history
  <2>2. Quiet(proc[p], c)
    BY <1>25, <1>0, CeremonyChanges DEF RankStopFails, StopPhases, Quiet
  <2> HIDE DEF c
  <2>. QED  BY <1>0, <2>1, <2>2, OneProcQuiet, QuietKeeps
<1>26. ASSUME NEW p \in Procs, NEW n \in Nodes, CallFails(p, n) PROVE CommitInv'
  <2> DEFINE c == (Unanswered(proc[p], n))
  <2>1. proc' = [proc EXCEPT ![p] = c] /\ begun' = begun
    BY <1>26 DEF CallFails, history
  <2>2. Quiet(proc[p], c)
    BY <1>26, <1>0, UnansweredQuiet DEF CallFails, Quiet
  <2> HIDE DEF c
  <2>. QED  BY <1>0, <2>1, <2>2, OneProcQuiet, QuietKeeps
<1>27. ASSUME NEW m \in late, LateArrives(m) PROVE CommitInv'
  <2>1. proc' = proc /\ begun' = begun
    BY <1>27 DEF LateArrives, rankVars, history
  <2>. QED  BY <1>0, <2>1, QuietKeeps DEF QuietStep
<1>28. ASSUME NEW n \in Nodes, Expire(n) PROVE CommitInv'
  <2>1. proc' = proc /\ begun' = begun
    BY <1>28 DEF Expire, rankVars, history
  <2>. QED  BY <1>0, <2>1, QuietKeeps DEF QuietStep
<1>29. ASSUME NEW n \in Nodes, Dies(n) PROVE CommitInv'
  <2>1. proc' = proc /\ begun' = begun
    BY <1>29 DEF Dies, rankVars, history
  <2>. QED  BY <1>0, <2>1, QuietKeeps DEF QuietStep
<1>30. ASSUME NEW n \in Nodes, RankRestart(n) PROVE CommitInv'
  <2> DEFINE f == [p \in Procs |->
               IF \E e \in vetting[n] : Awaits("preparing", p, n, e) THEN Behind(proc[p], n)
               ELSE IF \E e \in starting[n] : Awaits("committing", p, n, e) THEN Undo(proc[p])
               ELSE proc[p]]
  <2>1. proc' = f /\ begun' = begun
    BY <1>30 DEF RankRestart, history
  <2>2. \A p \in Procs : f[p] = proc[p] \/ Quiet(proc[p], f[p])
    BY <1>0, CeremonyChanges, UndoFacts DEF Awaits, Quiet
  <2> HIDE DEF f
  <2>. QED  BY <1>0, <2>1, <2>2, AwaitingProcsQuiet, QuietKeeps
<1>31. CASE HeadRestart
  <2> DEFINE f == [p \in Procs |-> Idle]
  <2>1. proc' = f /\ begun' = begun
    BY <1>31 DEF HeadRestart, history
  <2>2. \A p \in Procs : f[p] = proc[p] \/ Quiet(proc[p], f[p])
    BY <1>0, IdleFacts DEF Awaits, Quiet
  <2> HIDE DEF f
  <2>. QED  BY <1>0, <2>1, <2>2, AwaitingProcsQuiet, QuietKeeps
<1>32. CASE UNCHANGED vars
  <2>1. proc' = proc /\ begun' = begun
    BY <1>32 DEF vars, history
  <2>. QED  BY <1>0, <2>1, QuietKeeps DEF QuietStep
<1>. QED
  BY <1>1, <1>2, <1>3, <1>4, <1>5, <1>6, <1>7, <1>8, <1>9, <1>10, <1>11, <1>12, <1>13,
     <1>14, <1>15, <1>16, <1>17, <1>18, <1>19, <1>20, <1>21, <1>22, <1>23, <1>24, <1>25,
     <1>26, <1>27, <1>28, <1>29, <1>30, <1>31, <1>32
     DEF Next, Driver, Rank, Supervise, Ranks, Works, Requests, Environment

(* Every step is a step of the agreement, or none: a rank says yes, starts *)
(* what it was told to, or loses what it ran, or the head reports.         *)
LEMMA AgreementStep ==
  TypeOK /\ ConsentInv /\ CommitInv /\ [Next]_vars => [Consent!Next]_(Consent!vars)
<1>. SUFFICES ASSUME TypeOK, ConsentInv, CommitInv, [Next]_vars
             PROVE  Consent!Next \/ UNCHANGED Consent!vars
  OBVIOUS
<1>0. /\ proc \in [Procs -> Ceremonies] /\ \A p \in Procs : proc[p] \in Ceremonies
      /\ EpochNamed /\ StartedWithConsent
  BY DEF TypeOK, ConsentInv
<1>n. ASSUME NEW n \in Nodes, docker' = [docker EXCEPT ![n] = 0],
             UNCHANGED <<said, begun, reported>>
      PROVE  Consent!Next
  BY <1>n DEF Consent!Next, Consent!End
<1>1. ASSUME NEW p \in Procs, NEW n \in Nodes, RankVets(p, n) PROVE Consent!Next \/ UNCHANGED Consent!vars
  BY <1>1 DEF RankVets, rankVars, history, Consent!vars
<1>2. ASSUME NEW p \in Procs, NEW n \in Nodes, RankDeclines(p, n) PROVE Consent!Next \/ UNCHANGED Consent!vars
  BY <1>2 DEF RankDeclines, rankVars, history, Consent!vars
<1>3. ASSUME NEW p \in Procs, NEW n \in Nodes, RankReleases(p, n) PROVE Consent!Next \/ UNCHANGED Consent!vars
  BY <1>3 DEF RankReleases, rankVars, history, Consent!vars
<1>4. ASSUME NEW p \in Procs, NEW n \in Nodes, RankTakes(p, n) PROVE Consent!Next \/ UNCHANGED Consent!vars
  BY <1>4 DEF RankTakes, rankVars, history, Consent!vars
<1>5. ASSUME NEW p \in Procs, NEW n \in Nodes, RankHasNone(p, n) PROVE Consent!Next \/ UNCHANGED Consent!vars
  BY <1>5 DEF RankHasNone, rankVars, history, Consent!vars
<1>6. ASSUME NEW p \in Procs, NEW n \in Nodes, RankIsAlive(p, n) PROVE Consent!Next \/ UNCHANGED Consent!vars
  BY <1>6 DEF RankIsAlive, rankVars, history, Consent!vars
<1>7. ASSUME NEW p \in Procs, NEW n \in Nodes, RankStops(p, n) PROVE Consent!Next \/ UNCHANGED Consent!vars
  <2>1. docker' = [docker EXCEPT ![n] = 0] /\ UNCHANGED <<said, begun, reported>>
    BY <1>7 DEF RankStops, history
  <2>. QED  BY <1>n, <2>1
<1>8. ASSUME NEW p \in Procs, PrepareDone(p) PROVE Consent!Next \/ UNCHANGED Consent!vars
  BY <1>8 DEF PrepareDone, rankVars, history, Consent!vars
<1>9. ASSUME NEW p \in Procs, ReleaseDone(p) PROVE Consent!Next \/ UNCHANGED Consent!vars
  BY <1>9 DEF ReleaseDone, rankVars, history, Consent!vars
<1>10. ASSUME NEW p \in Procs, Settle(p) PROVE Consent!Next \/ UNCHANGED Consent!vars
  BY <1>10 DEF Settle, rankVars, history, Consent!vars
<1>11. ASSUME NEW p \in Procs, SettleDone(p) PROVE Consent!Next \/ UNCHANGED Consent!vars
  <2>1. CASE proc[p].got = {}
    <3>1. /\ proc[p].phase = "settling" /\ reported' = reported \cup {proc[p].e}
          /\ UNCHANGED <<said, docker, begun>>
      BY <1>11, <2>1 DEF SettleDone, rankVars
    <3>2. proc[p].e \in Epochs
      BY <1>0, <3>1, SetFacts, ClusterAssumption DEF EpochNamed, Epochs
    <3>3. begun[proc[p].e] = Nodes
      BY <3>1 DEF CommitInv, CommitOK
    <3>. QED  BY <3>1, <3>2, <3>3 DEF Consent!Next, Consent!Report
  <2>2. CASE proc[p].got # {}
    BY <1>11, <2>2 DEF SettleDone, rankVars, Consent!vars
  <2>. QED  BY <2>1, <2>2
<1>12. ASSUME NEW p \in Procs, UndoneOrTorn(p) PROVE Consent!Next \/ UNCHANGED Consent!vars
  BY <1>12 DEF UndoneOrTorn, rankVars, history, Consent!vars
<1>13. ASSUME NEW p \in Procs, StopDone(p) PROVE Consent!Next \/ UNCHANGED Consent!vars
  BY <1>13 DEF StopDone, rankVars, history, Consent!vars
<1>14. CASE BeginSupervise
  BY <1>14 DEF BeginSupervise, rankVars, history, Consent!vars
<1>15. CASE CheckDone
  BY <1>15 DEF CheckDone, rankVars, history, Consent!vars
<1>16. CASE EndDone
  BY <1>16 DEF EndDone, rankVars, history, Consent!vars
<1>17. ASSUME NEW n \in Nodes, NEW e \in Epochs, RankPrepares(n, e) PROVE Consent!Next \/ UNCHANGED Consent!vars
  <2>1. CASE \E p \in Procs : Awaits("preparing", p, n, e)
    <3>1. said' = [said EXCEPT ![e] = @ \cup {n}] /\ UNCHANGED <<docker, begun, reported>>
      BY <1>17, <2>1 DEF RankPrepares
    <3>. QED  BY <3>1 DEF Consent!Next, Consent!Agree
  <2>2. CASE ~\E p \in Procs : Awaits("preparing", p, n, e)
    <3>1. said' = [said EXCEPT ![e] = @] /\ UNCHANGED <<docker, begun, reported>>
      BY <1>17, <2>2 DEF RankPrepares
    <3>2. said' = said
      BY <3>1 DEF TypeOK
    <3>. QED  BY <3>1, <3>2 DEF Consent!vars
  <2>. QED  BY <2>1, <2>2
<1>18. ASSUME NEW n \in Nodes, NEW e \in Epochs, RankRefuses(n, e) PROVE Consent!Next \/ UNCHANGED Consent!vars
  BY <1>18 DEF RankRefuses, rankVars, history, Consent!vars
<1>19. ASSUME NEW n \in Nodes, NEW e \in Epochs, RankStarts(n, e) PROVE Consent!Next \/ UNCHANGED Consent!vars
  <2>1. said[e] = Nodes
    BY <1>19, <1>0 DEF RankStarts, StartedWithConsent
  <2>2. /\ docker' = [docker EXCEPT ![n] = e] /\ begun' = [begun EXCEPT ![e] = @ \cup {n}]
        /\ UNCHANGED <<said, reported>>
    BY <1>19 DEF RankStarts
  <2>. QED  BY <2>1, <2>2 DEF Consent!Next, Consent!Start
<1>20. ASSUME NEW s \in Sessions, BeginPrepare(s) PROVE Consent!Next \/ UNCHANGED Consent!vars
  BY <1>20 DEF BeginPrepare, rankVars, history, Consent!vars
<1>21. ASSUME NEW s \in Sessions, BeginAbort(s) PROVE Consent!Next \/ UNCHANGED Consent!vars
  BY <1>21 DEF BeginAbort, rankVars, history, Consent!vars
<1>22. ASSUME NEW s \in Sessions, BeginCommit(s) PROVE Consent!Next \/ UNCHANGED Consent!vars
  BY <1>22 DEF BeginCommit, rankVars, history, Consent!vars
<1>23. ASSUME NEW s \in Sessions, BeginStop(s) PROVE Consent!Next \/ UNCHANGED Consent!vars
  BY <1>23 DEF BeginStop, rankVars, history, Consent!vars
<1>24. ASSUME NEW n \in Nodes, NEW e \in Epochs, RankStartFails(n, e) PROVE Consent!Next \/ UNCHANGED Consent!vars
  <2>0. docker \in [Nodes -> 0 .. MaxEpochs] /\ UNCHANGED <<said, begun, reported>>
    BY <1>24 DEF RankStartFails, history, TypeOK
  <2>1. PICK left \in {0, docker[n]} : docker' = [docker EXCEPT ![n] = left]
    BY <1>24 DEF RankStartFails
  <2>2. docker' = [docker EXCEPT ![n] = 0] \/ docker' = docker
    BY <2>0, <2>1
  <2>. QED  BY <1>n, <2>0, <2>2 DEF Consent!vars
<1>25. ASSUME NEW p \in Procs, NEW n \in Nodes, RankStopFails(p, n) PROVE Consent!Next \/ UNCHANGED Consent!vars
  BY <1>25 DEF RankStopFails, rankVars, history, Consent!vars
<1>26. ASSUME NEW p \in Procs, NEW n \in Nodes, CallFails(p, n) PROVE Consent!Next \/ UNCHANGED Consent!vars
  BY <1>26 DEF CallFails, rankVars, history, Consent!vars
<1>27. ASSUME NEW m \in late, LateArrives(m) PROVE Consent!Next \/ UNCHANGED Consent!vars
  <2>0. m.node \in Nodes /\ UNCHANGED <<said, begun, reported>>
    BY <1>27 DEF LateArrives, history, TypeOK, Calls
  <2>1. docker' = [docker EXCEPT ![m.node] = 0] \/ docker' = docker
    BY <1>27 DEF LateArrives
  <2>. QED  BY <1>n, <2>0, <2>1 DEF Consent!vars
<1>28. ASSUME NEW n \in Nodes, Expire(n) PROVE Consent!Next \/ UNCHANGED Consent!vars
  BY <1>28 DEF Expire, rankVars, history, Consent!vars
<1>29. ASSUME NEW n \in Nodes, Dies(n) PROVE Consent!Next \/ UNCHANGED Consent!vars
  <2>1. docker' = [docker EXCEPT ![n] = 0] /\ UNCHANGED <<said, begun, reported>>
    BY <1>29 DEF Dies, history
  <2>. QED  BY <1>n, <2>1
<1>30. ASSUME NEW n \in Nodes, RankRestart(n) PROVE Consent!Next \/ UNCHANGED Consent!vars
  BY <1>30 DEF RankRestart, rankVars, history, Consent!vars
<1>31. CASE HeadRestart
  BY <1>31 DEF HeadRestart, rankVars, history, Consent!vars
<1>32. CASE UNCHANGED vars
  BY <1>32 DEF vars, rankVars, history, Consent!vars
<1>. QED
  BY <1>1, <1>2, <1>3, <1>4, <1>5, <1>6, <1>7, <1>8, <1>9, <1>10, <1>11, <1>12, <1>13,
     <1>14, <1>15, <1>16, <1>17, <1>18, <1>19, <1>20, <1>21, <1>22, <1>23, <1>24, <1>25,
     <1>26, <1>27, <1>28, <1>29, <1>30, <1>31, <1>32
     DEF Next, Driver, Rank, Supervise, Ranks, Works, Requests, Environment

(* clusterdriver.rs and rankservice.rs: however calls are lost or late and *)
(* whoever restarts, the ceremonies of any number of sessions implement    *)
(* the agreement: a rank starts only what every rank agreed to, and a      *)
(* cluster is reported only when every rank has started it.                *)
THEOREM LaunchImplementsAgreement == Spec => LaunchIsAgreed
<1>1. Init => TypeOK /\ ConsentInv /\ CommitInv
  <2>1. ASSUME Init PROVE CommitInv
    BY <2>1, IdleFacts DEF Init, CommitInv, CommitOK
  <2>. QED  BY <2>1, InitTypeAndConsent
<1>2. TypeOK /\ ConsentInv /\ CommitInv /\ [Next]_vars
        => TypeOK' /\ ConsentInv' /\ CommitInv'
  BY TypeStep, ConsentStep, CommitStep DEF ConsentInv
<1>3. Init => Consent!Init
  BY DEF Init, Consent!Init
<1>4. TypeOK /\ ConsentInv /\ CommitInv /\ [Next]_vars => [Consent!Next]_(Consent!vars)
  BY AgreementStep
<1>. QED  BY <1>1, <1>2, <1>3, <1>4, PTL DEF Spec, Consent!Spec, LaunchIsAgreed
=============================================================================
