----------------------------- MODULE FleetProofs -----------------------------
(***************************************************************************)
(* For any number of machines, however they trust, hear and grant each     *)
(* other, and any number of edits, restarts and requests: a control        *)
(* request runs only where the machine before it on its path was let in,   *)
(* through at most one relay, an agent's tables do not outlive it, and no  *)
(* machine passes on what it was told of another.                          *)
(***************************************************************************)
EXTENDS Fleet, TLAPS

-----------------------------------------------------------------------------
(* The inductive invariant *)

(* Whoever may control a machine now was let in since the request was sent *)
(* or had been before.                                                     *)
GrantInv == \A n, m \in Nodes : GrantOf(n, m) => <<n, m>> \in granted

(* A request under way comes from the watcher, or from a relay that found  *)
(* the watcher granted and sent it on to its target.                       *)
AskInv ==
  ask = NoAsk \/
    /\ ask \in [pc : {"sent"}, to : Nodes, target : Nodes, path : Seq(Nodes)]
    /\ \/ Len(ask.path) = 1
       \/ /\ Len(ask.path) = 2 /\ ask.to = ask.target
          /\ <<ask.path[2], ask.path[1]>> \in granted

(* A poll is under way only while its agent runs: it cannot write into the *)
(* tables of an agent that has stopped.                                    *)
PollInv ==
  /\ poll = [n \in Nodes |-> poll[n]]
  /\ \A n \in Nodes :
       /\ poll[n].pc # "idle" => up[n] /\ poll[n].peer \in Nodes
       /\ poll[n].pc = "answered" => poll[n].digest \subseteq Digests

(* What an agent keeps in memory, gone when it stops. *)
TablesInv ==
  /\ seen \in [Nodes -> [Nodes -> Ages]]
  /\ reports \in [Nodes -> SUBSET Nodes]
  /\ claims \in [Nodes -> [Nodes -> [Nodes -> Claims]]]
  /\ \A n \in Nodes : ~up[n] => reports[n] = {} /\ claims[n] = Unclaimed

PinRecord == [pinned : BOOLEAN, control : BOOLEAN, addr : BOOLEAN]

PinsInv == pins \in [Nodes -> [Nodes -> PinRecord]]

UpInv == up \in [Nodes -> BOOLEAN] /\ session \in {"closed", "hello", "ready"}

FleetInv ==
  UpInv /\ PinsInv /\ TablesInv /\ PollInv /\ AskInv /\ GrantInv /\ RunsByGrant
-----------------------------------------------------------------------------
(* What the parts of the invariant survive *)

LEMMA PinsFrame ==
  ASSUME GrantInv, UNCHANGED pins, granted \subseteq granted' PROVE GrantInv'
  BY DEF GrantInv, GrantOf

LEMMA AskFrame ==
  ASSUME AskInv, UNCHANGED ask, granted \subseteq granted' PROVE AskInv'
  BY DEF AskInv

LEMMA RunFrame ==
  ASSUME RunsByGrant, UNCHANGED ran, granted \subseteq granted' PROVE RunsByGrant'
  BY DEF RunsByGrant

LEMMA TablesFrame ==
  ASSUME TablesInv, UNCHANGED <<up, tables>> PROVE TablesInv'
  BY DEF TablesInv, tables

LEMMA PollFrame ==
  ASSUME PollInv, UNCHANGED <<up, poll>> PROVE PollInv'
  BY DEF PollInv

(* One agent's poll moves on. *)
LEMMA PollStep ==
  ASSUME PollInv, NEW n \in Nodes, NEW x, poll' = [poll EXCEPT ![n] = x], UNCHANGED up,
         x.pc # "idle" => up[n] /\ x.peer \in Nodes,
         x.pc = "answered" => x.digest \subseteq Digests
  PROVE  PollInv'
  <1>1. \A k \in Nodes : poll'[k] = IF k = n THEN x ELSE poll[k]
    BY DEF PollInv
  <1>2. poll' = [k \in Nodes |-> poll'[k]]
    BY DEF PollInv
  <1>3. QED
    BY <1>1, <1>2 DEF PollInv

(* A step that touches neither pins nor requests. *)
LEMMA AsideStep ==
  ASSUME FleetInv, UNCHANGED <<pins, ask, ran, granted>>, UpInv', TablesInv', PollInv'
  PROVE  FleetInv'
  BY PinsFrame, AskFrame, RunFrame DEF FleetInv, PinsInv

-----------------------------------------------------------------------------
(* Discovery and pruning *)

LEMMA FoundKeeps ==
  ASSUME FleetInv, NEW n \in Nodes, NEW m \in Nodes, Found(n, m) PROVE FleetInv'
  <1>1. seen' \in [Nodes -> [Nodes -> Ages]]
    BY DEF Found, FleetInv, TablesInv, Ages
  <1>2. TablesInv'
    BY <1>1 DEF Found, FleetInv, TablesInv
  <1>3. QED
    BY <1>2, AsideStep, PollFrame DEF Found, FleetInv, UpInv, past

LEMMA AgesKeeps ==
  ASSUME FleetInv, NEW n \in Nodes, NEW m \in Nodes, SightingAges(n, m) PROVE FleetInv'
  <1>1. seen' \in [Nodes -> [Nodes -> Ages]]
    BY DEF SightingAges, FleetInv, TablesInv, Ages
  <1>2. TablesInv'
    BY <1>1 DEF SightingAges, FleetInv, TablesInv
  <1>3. QED
    BY <1>2, AsideStep, PollFrame DEF SightingAges, FleetInv, UpInv, past

LEMMA PruneKeeps ==
  ASSUME FleetInv, NEW n \in Nodes, NEW readable, NEW old, Prune(n, readable, old)
  PROVE  FleetInv'
  <1>1. PruneSightings(n) \in [Nodes -> Ages]
    BY DEF PruneSightings, FleetInv, TablesInv, Ages
  <1>2. seen' \in [Nodes -> [Nodes -> Ages]]
    BY <1>1 DEF Prune, FleetInv, TablesInv
  <1>3. PruneVouches(n, old) \in [Nodes -> [Nodes -> Claims]]
    BY DEF PruneVouches, FleetInv, TablesInv, Claims
  <1>4. claims' \in [Nodes -> [Nodes -> [Nodes -> Claims]]]
        /\ \A k \in Nodes \ {n} : claims'[k] = claims[k]
    BY <1>3 DEF Prune, FleetInv, TablesInv
  <1>5. TablesInv'
    BY <1>2, <1>4 DEF Prune, FleetInv, TablesInv
  <1>6. QED
    BY <1>5, AsideStep, PollFrame DEF Prune, FleetInv, UpInv, past

-----------------------------------------------------------------------------
(* The poll *)

LEMMA DigestType == ASSUME NEW n PROVE Digest(n) \in Digests
  BY DEF Digest, Digests, Claims

LEMMA PollStartKeeps ==
  ASSUME FleetInv, NEW n \in Nodes, NEW m \in Nodes, PollStart(n, m) PROVE FleetInv'
  <1>1. PollInv'
    BY PollStep DEF PollStart, FleetInv
  <1>2. QED
    BY <1>1, AsideStep, TablesFrame DEF PollStart, FleetInv, UpInv, past

LEMMA PollDialKeeps ==
  ASSUME FleetInv, NEW n \in Nodes, PollDial(n) PROVE FleetInv'
  <1> DEFINE m == poll[n].peer
             x == IF Handshake(n, m)
                  THEN [pc |-> "answered", peer |-> m, digest |-> Answer(m)]
                  ELSE [pc |-> "lost", peer |-> m]
  <1>1. up[n] /\ m \in Nodes
    BY DEF PollDial, FleetInv, PollInv
  <1>2. x.peer = m /\ (x.pc = "answered" => x.digest = Answer(m))
    OBVIOUS
  <1>3. Answer(m) \subseteq Digests
    BY DigestType DEF Answer
  <1>4. poll' = [poll EXCEPT ![n] = x]
    BY DEF PollDial
  <1>5. PollInv'
    <2> HIDE DEF x
    <2> QED
      BY <1>1, <1>2, <1>3, <1>4, PollStep DEF PollDial, FleetInv
  <1>6. QED
    BY <1>5, AsideStep, TablesFrame DEF PollDial, FleetInv, UpInv, past

LEMMA RecordType ==
  ASSUME FleetInv, NEW n \in Nodes, NEW v \in Nodes, NEW digest \in Digests
  PROVE  RecordVouches(n, v, digest) \in [Nodes -> [Nodes -> Claims]]
  <1>1. claims[n] \in [Nodes -> [Nodes -> Claims]] /\ "none" \in Claims
    BY DEF FleetInv, TablesInv, Claims
  <1>2. ASSUME NEW t \in Nodes
        PROVE  [claims[n][t] EXCEPT ![v] = IF t \in {n, v} \/ digest[t] = "none" THEN "none"
                                           ELSE digest[t]] \in [Nodes -> Claims]
    BY <1>1 DEF Digests
  <1>3. QED
    BY <1>1, <1>2 DEF RecordVouches

LEMMA PollRecordKeeps ==
  ASSUME FleetInv, NEW n \in Nodes, PollRecord(n) PROVE FleetInv'
  <1> DEFINE m == poll[n].peer
  <1>1. up[n] /\ m \in Nodes /\ poll[n].digest \subseteq Digests
    BY DEF PollRecord, FleetInv, PollInv
  <1>2. claims' \in [Nodes -> [Nodes -> [Nodes -> Claims]]]
        /\ \A k \in Nodes \ {n} : claims'[k] = claims[k]
    <2>1. CASE poll[n].digest = {}
      BY <2>1 DEF PollRecord, FleetInv, TablesInv
    <2>2. CASE poll[n].digest # {}
      <3> DEFINE d == CHOOSE x \in poll[n].digest : TRUE
      <3>1. d \in Digests
        BY <1>1, <2>2
      <3>2. claims' = [claims EXCEPT ![n] = RecordVouches(n, m, d)]
        BY <2>2 DEF PollRecord
      <3>3. RecordVouches(n, m, d) \in [Nodes -> [Nodes -> Claims]]
        BY <1>1, <3>1, RecordType
      <3>4. QED
        BY <3>2, <3>3 DEF FleetInv, TablesInv
    <2>3. QED
      BY <2>1, <2>2
  <1>3. reports' \in [Nodes -> SUBSET Nodes] /\ \A k \in Nodes \ {n} : reports'[k] = reports[k]
    BY <1>1 DEF PollRecord, FleetInv, TablesInv
  <1>4. TablesInv'
    BY <1>1, <1>2, <1>3 DEF PollRecord, FleetInv, TablesInv
  <1>5. PollInv'
    BY PollStep DEF PollRecord, FleetInv, NoPoll
  <1>6. PinsInv' /\ \A k, t \in Nodes : pins'[k][t].pinned = pins[k][t].pinned
                                       /\ pins'[k][t].control = pins[k][t].control
    <2>1. CASE Pinned(n, m)
      <3> DEFINE x == [pins[n][m] EXCEPT !.addr = TRUE]
      <3>1. pins[n][m] \in PinRecord
        BY <1>1 DEF FleetInv, PinsInv
      <3>2. x \in PinRecord /\ x.pinned = pins[n][m].pinned /\ x.control = pins[n][m].control
        BY <3>1 DEF PinRecord
      <3>3. pins' = [pins EXCEPT ![n][m] = x]
        BY <1>1, <2>1 DEF PollRecord, FleetInv, PinsInv
      <3>4. QED
        BY <1>1, <3>2, <3>3 DEF FleetInv, PinsInv
    <2>2. CASE ~Pinned(n, m)
      BY <2>2 DEF PollRecord, FleetInv, PinsInv
    <2>3. QED
      BY <2>1, <2>2
  <1>7. GrantInv'
    BY <1>6 DEF PollRecord, FleetInv, GrantInv, GrantOf, past
  <1>8. QED
    BY <1>4, <1>5, <1>6, <1>7, AskFrame, RunFrame DEF PollRecord, FleetInv, UpInv, past

LEMMA PollLostKeeps ==
  ASSUME FleetInv, NEW n \in Nodes, PollLost(n) PROVE FleetInv'
  <1>1. up[n]
    BY DEF PollLost, FleetInv, PollInv
  <1>2. reports' \in [Nodes -> SUBSET Nodes] /\ \A k \in Nodes \ {n} : reports'[k] = reports[k]
    BY DEF PollLost, FleetInv, TablesInv
  <1>3. TablesInv'
    BY <1>1, <1>2 DEF PollLost, FleetInv, TablesInv
  <1>4. PollInv'
    BY PollStep DEF PollLost, FleetInv, NoPoll
  <1>5. QED
    BY <1>3, <1>4, AsideStep DEF PollLost, FleetInv, UpInv, past

-----------------------------------------------------------------------------
(* Edits of the pin file *)

(* An edit lets nobody in without saying so. *)
LEMMA EditStep ==
  ASSUME FleetInv, PinsInv', GrantInv', granted \subseteq granted', TablesInv',
         UNCHANGED <<up, poll, session, ask, ran>>
  PROVE  FleetInv'
  BY AskFrame, RunFrame, PollFrame DEF FleetInv, UpInv

LEMMA PairKeeps ==
  ASSUME FleetInv, NEW n \in Nodes, NEW m \in Nodes, NEW control \in BOOLEAN, Pair(n, m, control)
  PROVE  FleetInv'
  <1>1. APin(control, TRUE) \in PinRecord /\ APin(FALSE, FALSE) \in PinRecord
    BY Zenon DEF APin, PinRecord
  <1>2. /\ pins' = [pins EXCEPT ![n][m] = APin(control, TRUE), ![m][n] = APin(FALSE, FALSE)]
        /\ granted' = IF control THEN granted \cup {<<n, m>>} ELSE granted
        /\ n # m /\ UNCHANGED <<up, tables, poll, session, ask, ran>>
    BY DEF Pair
  <1>3. PinsInv'
    BY <1>1, <1>2 DEF FleetInv, PinsInv
  <1>4. GrantInv'
    <2> SUFFICES ASSUME NEW k \in Nodes, NEW t \in Nodes, GrantOf(k, t)' PROVE <<k, t>> \in granted'
      BY DEF GrantInv
    <2>1. CASE k = n /\ t = m
      <3>1. pins'[n][m] = APin(control, TRUE)
        BY <1>2 DEF FleetInv, PinsInv
      <3>2. control
        BY <2>1, <3>1 DEF GrantOf, APin
      <3>3. QED
        BY <1>2, <2>1, <3>2
    <2>2. CASE k = m /\ t = n
      <3>1. pins'[m][n] = APin(FALSE, FALSE)
        BY <1>2 DEF FleetInv, PinsInv
      <3>2. QED
        BY <2>2, <3>1 DEF GrantOf, APin
    <2>3. CASE ~(k = n /\ t = m) /\ ~(k = m /\ t = n)
      <3>1. pins'[k][t] = pins[k][t]
        BY <1>2, <2>3 DEF FleetInv, PinsInv
      <3>2. QED
        BY <1>2, <3>1 DEF GrantOf, FleetInv, GrantInv
    <2>4. QED
      BY <2>1, <2>2, <2>3
  <1>5. QED
    BY <1>2, <1>3, <1>4, EditStep, TablesFrame DEF FleetInv

LEMMA UnpairKeeps ==
  ASSUME FleetInv, NEW n \in Nodes, NEW m \in Nodes, Unpair(n, m) PROVE FleetInv'
  <1>1. NoPin \in PinRecord
    BY Zenon DEF NoPin, PinRecord
  <1>2. PinsInv'
    BY <1>1 DEF Unpair, FleetInv, PinsInv
  <1>3. \A k, t \in Nodes : pins'[k][t] = IF k = n /\ t = m THEN NoPin ELSE pins[k][t]
    BY DEF Unpair, FleetInv, PinsInv
  <1>4. GrantInv'
    BY <1>3 DEF Unpair, FleetInv, GrantInv, GrantOf, NoPin, past
  <1>5. ClearVouches(n, m) \in [Nodes -> [Nodes -> Claims]]
    BY DEF ClearVouches, FleetInv, TablesInv, Claims
  <1>6. claims[n] = Unclaimed => ClearVouches(n, m) = Unclaimed
    BY DEF ClearVouches, Unclaimed
  <1>7. claims' \in [Nodes -> [Nodes -> [Nodes -> Claims]]]
        /\ claims'[n] = ClearVouches(n, m)
        /\ \A k \in Nodes \ {n} : claims'[k] = claims[k]
    BY <1>5 DEF Unpair, FleetInv, TablesInv
  <1>8. TablesInv'
    BY <1>6, <1>7 DEF Unpair, FleetInv, TablesInv
  <1>9. QED
    BY <1>2, <1>4, <1>8, EditStep DEF Unpair, past

LEMMA ControllerKeeps ==
  ASSUME FleetInv, NEW n \in Nodes, NEW m \in Nodes, NEW control \in BOOLEAN,
         SetController(n, m, control)
  PROVE  FleetInv'
  <1>1. PinsInv'
    <2> DEFINE x == [pins[n][m] EXCEPT !.control = control]
    <2>1. pins[n][m] \in PinRecord
      BY DEF FleetInv, PinsInv
    <2>2. x \in PinRecord
      BY <2>1 DEF PinRecord
    <2>3. pins' = [pins EXCEPT ![n][m] = x]
      BY DEF SetController, FleetInv, PinsInv
    <2>4. QED
      BY <2>2, <2>3 DEF FleetInv, PinsInv
  <1>2. \A k, t \in Nodes : ~(k = n /\ t = m) => pins'[k][t] = pins[k][t]
    BY DEF SetController, FleetInv, PinsInv
  <1>3. pins'[n][m].control = control
    BY DEF SetController, FleetInv, PinsInv
  <1>4. granted' = IF control THEN granted \cup {<<n, m>>} ELSE granted
    BY DEF SetController
  <1>5. GrantInv'
    BY <1>2, <1>3, <1>4 DEF FleetInv, GrantInv, GrantOf
  <1>6. QED
    BY <1>1, <1>4, <1>5, EditStep, TablesFrame DEF SetController, FleetInv
-----------------------------------------------------------------------------
(* Agents that stop and start, and the browser *)

LEMMA StopKeeps ==
  ASSUME FleetInv, NEW n \in Nodes, Stop(n) PROVE FleetInv'
  <1>1. Forgotten \in [Nodes -> Ages] /\ Unclaimed \in [Nodes -> [Nodes -> Claims]]
    BY DEF Forgotten, Unclaimed, Ages, Claims
  <1>2. /\ seen' \in [Nodes -> [Nodes -> Ages]]
        /\ reports' \in [Nodes -> SUBSET Nodes]
        /\ claims' \in [Nodes -> [Nodes -> [Nodes -> Claims]]]
    BY <1>1 DEF Stop, FleetInv, TablesInv
  <1>3. \A k \in Nodes : IF k = n THEN ~up'[k] /\ reports'[k] = {} /\ claims'[k] = Unclaimed
                                       /\ poll'[k] = NoPoll
                         ELSE /\ up'[k] = up[k] /\ reports'[k] = reports[k]
                              /\ claims'[k] = claims[k] /\ poll'[k] = poll[k]
    BY DEF Stop, FleetInv, UpInv, TablesInv, PollInv
  <1>4. TablesInv'
    BY <1>2, <1>3 DEF FleetInv, TablesInv
  <1>5. PollInv'
    <2>1. poll' = [k \in Nodes |-> poll'[k]]
      BY DEF Stop, FleetInv, PollInv
    <2>2. QED
      BY <1>3, <2>1 DEF FleetInv, PollInv, NoPoll
  <1>6. UpInv'
    <2>1. up' \in [Nodes -> BOOLEAN]
      <3>1. up' = [up EXCEPT ![n] = FALSE] /\ FALSE \in BOOLEAN
        BY Zenon DEF Stop
      <3>2. QED
        BY <3>1 DEF FleetInv, UpInv
    <2>2. QED
      BY <2>1 DEF Stop, FleetInv, UpInv
  <1>7. QED
    BY <1>4, <1>5, <1>6, AsideStep DEF Stop, past

LEMMA StartKeeps ==
  ASSUME FleetInv, NEW n \in Nodes, Start(n) PROVE FleetInv'
  <1>1. up' = [up EXCEPT ![n] = TRUE] /\ TRUE \in BOOLEAN
    BY Zenon DEF Start
  <1>2. up' \in [Nodes -> BOOLEAN] /\ \A k \in Nodes : up'[k] = up[k] \/ (k = n /\ up'[k])
    BY <1>1 DEF FleetInv, UpInv
  <1>3. TablesInv'
    BY <1>2 DEF Start, FleetInv, TablesInv, tables
  <1>4. PollInv'
    BY <1>2 DEF Start, FleetInv, PollInv
  <1>5. QED
    BY <1>2, <1>3, <1>4, AsideStep DEF Start, FleetInv, UpInv, past

LEMMA SessionKeeps ==
  ASSUME FleetInv, session' \in {"closed", "hello", "ready"},
         UNCHANGED <<up, pins, tables, poll, ask, past>>
  PROVE  FleetInv'
  BY AsideStep, TablesFrame, PollFrame DEF FleetInv, UpInv, past

-----------------------------------------------------------------------------
(* A control request *)

(* A step of the request in flight. *)
LEMMA AskStep ==
  ASSUME FleetInv, AskInv', GrantInv', RunsByGrant', UNCHANGED <<up, pins, tables, poll, session>>
  PROVE  FleetInv'
  BY TablesFrame, PollFrame DEF FleetInv, UpInv, PinsInv

LEMMA RouteType == ASSUME NEW t \in Nodes, NEW n PROVE Route(n, t) \subseteq Nodes
  BY DEF Route, ChooseVoucher, FirstOf, Reaching

LEMMA AskKeeps ==
  ASSUME FleetInv, NEW t \in Nodes, Ask(t) PROVE FleetInv'
  <1>1. PICK m \in Route(Watcher, t) :
          ask' = [pc |-> "sent", to |-> m, target |-> t, path |-> <<Watcher>>]
    BY DEF Ask
  <1>2. m \in Nodes
    BY <1>1, RouteType
  <1>3. <<Watcher>> \in Seq(Nodes) /\ Len(<<Watcher>>) = 1
    BY WatcherAssumption
  <1>4. AskInv'
    BY <1>1, <1>2, <1>3 DEF AskInv
  <1>5. GrantInv'
    <2>1. granted' = {g \in Nodes \X Nodes : GrantOf(g[1], g[2])} /\ pins' = pins
      BY DEF Ask
    <2>2. QED
      BY <2>1 DEF GrantInv, GrantOf
  <1>6. RunsByGrant'
    BY DEF Ask, RunsByGrant
  <1>7. QED
    BY <1>4, <1>5, <1>6, AskStep DEF Ask

LEMMA AskLostKeeps ==
  ASSUME FleetInv, AskLost PROVE FleetInv'
  <1>1. AskInv'
    BY DEF AskLost, AskInv
  <1>2. QED
    BY <1>1, AskStep, PinsFrame, RunFrame DEF AskLost, FleetInv, past

(* The machine that executes a request, and the relay before it, were      *)
(* asked by one they had let in.                                           *)
LEMMA TerminalKeeps ==
  ASSUME FleetInv, Terminal PROVE FleetInv'
  <1>1. /\ ask \in [pc : {"sent"}, to : Nodes, target : Nodes, path : Seq(Nodes)]
        /\ \/ Len(ask.path) = 1
           \/ Len(ask.path) = 2 /\ <<ask.path[2], ask.path[1]>> \in granted
    BY DEF Terminal, FleetInv, AskInv, NoAsk
  <1>2. AskInv'
    BY DEF Terminal, AskInv
  <1>3. GrantInv'
    BY PinsFrame DEF Terminal, FleetInv
  <1>4. RunsByGrant'
    <2>1. CASE ran' = ran
      BY <2>1, RunFrame DEF Terminal, FleetInv
    <2>2. CASE ran' # ran
      <3> DEFINE r == [at |-> ask.to, path |-> ask.path]
      <3>1. GrantOf(ask.to, Sender) /\ ran' = ran \cup {r} /\ granted' = granted
        BY <2>2 DEF Terminal
      <3>2. Sender \in Nodes /\ ask.to \in Nodes
        BY <1>1 DEF Sender
      <3>3. <<ask.to, ask.path[Len(ask.path)]>> \in granted
        BY <3>1, <3>2 DEF FleetInv, GrantInv, Sender
      <3>4. /\ Len(r.path) <= 2 /\ <<r.at, r.path[Len(r.path)]>> \in granted
            /\ Len(r.path) = 2 => <<r.path[2], r.path[1]>> \in granted
        BY <1>1, <3>3
      <3>5. \A x \in ran' : x \in ran \/ x = r
        BY <3>1
      <3>6. QED
        BY <3>1, <3>4, <3>5 DEF FleetInv, RunsByGrant
    <2>3. QED
      BY <2>1, <2>2
  <1>5. QED
    BY <1>2, <1>3, <1>4, AskStep DEF Terminal

(* A relay adds itself to the path of one that let in its sender, and      *)
(* sends it to the target, where it cannot be relayed again.               *)
LEMMA RelayKeeps ==
  ASSUME FleetInv, Relay PROVE FleetInv'
  <1>1. CASE ask' = NoAsk
    <2>1. AskInv'
      BY <1>1 DEF AskInv
    <2>2. QED
      BY <2>1, AskStep, PinsFrame, RunFrame DEF Relay, FleetInv, past
  <1>2. CASE ask' # NoAsk
    <2>1. /\ ask \in [pc : {"sent"}, to : Nodes, target : Nodes, path : Seq(Nodes)]
          /\ Len(ask.path) = 1
      BY DEF Relay, FleetInv, AskInv, NoAsk
    <2>2. /\ GrantOf(ask.to, Sender)
          /\ ask' = [ask EXCEPT !.to = ask.target, !.path = Append(ask.path, ask.to)]
      BY <1>2 DEF Relay, Forwards
    <2>3. ask.to \in Nodes /\ ask.target \in Nodes /\ Sender = ask.path[1] /\ Sender \in Nodes
      BY <2>1 DEF Sender
    <2>4. Append(ask.path, ask.to) \in Seq(Nodes) /\ Len(Append(ask.path, ask.to)) = 2
          /\ Append(ask.path, ask.to)[2] = ask.to /\ Append(ask.path, ask.to)[1] = ask.path[1]
      <3>1. ask.path \in Seq(Nodes) /\ Len(ask.path) = 1
        BY <2>1
      <3>2. ASSUME NEW q \in Seq(Nodes), Len(q) = 1, NEW x \in Nodes
            PROVE  Append(q, x) \in Seq(Nodes) /\ Len(Append(q, x)) = 2
                   /\ Append(q, x)[2] = x /\ Append(q, x)[1] = q[1]
        BY <3>2
      <3>3. QED
        BY <2>3, <3>1, <3>2
    <2>5. <<ask.to, Sender>> \in granted /\ granted' = granted
      BY <2>2, <2>3 DEF FleetInv, GrantInv, Relay, past
    <2>6. ask' \in [pc : {"sent"}, to : Nodes, target : Nodes, path : Seq(Nodes)]
          /\ ask'.path = Append(ask.path, ask.to) /\ ask'.to = ask'.target
      BY <2>1, <2>2, <2>3, <2>4
    <2>7. AskInv'
      BY <2>3, <2>4, <2>5, <2>6 DEF AskInv
    <2>8. QED
      BY <2>7, AskStep, PinsFrame, RunFrame DEF Relay, FleetInv, past
  <1>3. QED
    BY <1>1, <1>2

-----------------------------------------------------------------------------
(* The specification *)

LEMMA InitFleet == Init => FleetInv
  <1> SUFFICES ASSUME Init PROVE FleetInv
    OBVIOUS
  <1>1. UpInv
    <2>1. up = [n \in Nodes |-> TRUE] /\ TRUE \in BOOLEAN /\ session = "closed"
      BY Zenon DEF Init, InitOf
    <2>2. QED
      BY <2>1 DEF UpInv
  <1>2. \A n, m \in Nodes : APin(<<n, m>> \in Grants, <<n, m>> \in Addresses) \in PinRecord
                            /\ NoPin \in PinRecord
    <2>1. \A x, y \in BOOLEAN : APin(x, y) \in PinRecord /\ NoPin \in PinRecord
      BY Zenon DEF APin, NoPin, PinRecord
    <2>2. \A n, m \in Nodes : (<<n, m>> \in Grants) \in BOOLEAN /\ (<<n, m>> \in Addresses) \in BOOLEAN
      OBVIOUS
    <2>3. QED
      BY <2>1, <2>2
  <1>3. PinsInv
    BY <1>2 DEF Init, InitOf, PinsInv
  <1>4. GrantInv
    <2> SUFFICES ASSUME NEW n \in Nodes, NEW m \in Nodes, GrantOf(n, m) PROVE <<n, m>> \in Grants
      BY DEF GrantInv, Init, InitOf
    <2>1. pins[n][m] = IF <<n, m>> \in Trust
                       THEN APin(<<n, m>> \in Grants, <<n, m>> \in Addresses) ELSE NoPin
      BY DEF Init, InitOf
    <2>2. <<n, m>> \in Trust
      BY <2>1 DEF GrantOf, NoPin
    <2>3. pins[n][m].control = (<<n, m>> \in Grants)
      <3>1. \A x, y : APin(x, y).control = x
        BY Zenon DEF APin
      <3>2. pins[n][m] = APin(<<n, m>> \in Grants, <<n, m>> \in Addresses)
        BY <2>1, <2>2
      <3>3. QED
        BY <3>1, <3>2, Zenon
    <2>4. QED
      BY <2>3 DEF GrantOf
  <1>5. TablesInv
    BY DEF Init, InitOf, TablesInv, Forgotten, Unclaimed, Ages, Claims
  <1>6. PollInv /\ AskInv /\ RunsByGrant
    BY DEF Init, InitOf, PollInv, NoPoll, AskInv, RunsByGrant
  <1>7. QED
    BY <1>1, <1>3, <1>4, <1>5, <1>6 DEF FleetInv

LEMMA NextFleet == ASSUME FleetInv, Next PROVE FleetInv'
  <1>1. ASSUME NEW n \in Nodes, NEW m \in Nodes, Found(n, m) \/ SightingAges(n, m) PROVE FleetInv'
    BY <1>1, FoundKeeps, AgesKeeps
  <1>2. ASSUME NEW n \in Nodes, Polling(n) PROVE FleetInv'
    BY <1>2, PollStartKeeps, PollDialKeeps, PollRecordKeeps, PollLostKeeps DEF Polling
  <1>3. ASSUME NEW n \in Nodes, Pruning(n) PROVE FleetInv'
    BY <1>3, PruneKeeps DEF Pruning
  <1>4. ASSUME NEW n \in Nodes, Stop(n) \/ Start(n) PROVE FleetInv'
    BY <1>4, StopKeeps, StartKeeps
  <1>5. ASSUME NEW n \in Nodes, NEW m \in Nodes, NEW c \in BOOLEAN,
               Pair(n, m, c) \/ SetController(n, m, c)
        PROVE  FleetInv'
    BY <1>5, PairKeeps, ControllerKeeps
  <1>6. ASSUME NEW n \in Nodes, NEW m \in Nodes, Unpair(n, m) PROVE FleetInv'
    BY <1>6, UnpairKeeps
  <1>7. CASE Connect \/ Disconnect \/ \E right \in BOOLEAN : Hello(right)
    BY <1>7, SessionKeeps DEF Connect, Disconnect, Hello
  <1>8. ASSUME NEW t \in Nodes, Ask(t) PROVE FleetInv'
    BY <1>8, AskKeeps
  <1>9. QED
    BY <1>1, <1>2, <1>3, <1>4, <1>5, <1>6, <1>7, <1>8, AskLostKeeps, TerminalKeeps, RelayKeeps
    DEF Next

LEMMA StutterFleet == ASSUME FleetInv, UNCHANGED vars PROVE FleetInv'
  BY AsideStep, TablesFrame, PollFrame DEF FleetInv, UpInv, vars, tables

(* The invariant holds in every state of the fleet (fleet.rs, peer/link.rs *)
(* and the handlers of peer_serve.rs).                                     *)
THEOREM FleetInvariant == Spec => []FleetInv
  <1>1. FleetInv /\ [Next]_vars => FleetInv'
    BY NextFleet, StutterFleet
  <1>2. QED
    BY InitFleet, <1>1, PTL DEF Spec

(* A request is executed only by a machine that had let in the one before  *)
(* it on the path, through at most one relay, which had let in the watcher,*)
(* and no table of an agent outlives it (daemon/peer_serve.rs,             *)
(* terminal_control and relay_control; fleet.rs).                          *)
THEOREM RequestsAreGranted == Spec => []RequestsRunByGrant
  <1>1. FleetInv => RequestsRunByGrant
    BY DEF FleetInv, RequestsRunByGrant, TypeOK, UpInv, PinsInv, PinRecord, TablesInv, PollInv
  <1>2. QED
    BY FleetInvariant, <1>1, PTL
-----------------------------------------------------------------------------
(* What a machine is told of others *)

(* What an agent has filed as an answer, or is about to file, was given in *)
(* answer to a poll; and so was what the digest in it says is in reach.    *)
ReportsMet == \A n \in Nodes : \A m \in reports[n] : <<n, m>> \in met
PollMet ==
  \A n \in Nodes : poll[n].pc = "answered" =>
    /\ <<n, poll[n].peer>> \in met
    /\ \A d \in poll[n].digest : \A t \in Nodes : d[t] = "reach" => <<poll[n].peer, t>> \in met

FirstInv == ReportsMet /\ PollMet /\ WordIsFirstHand

(* What is only aged, withdrawn or forgotten stays first-hand, and so does *)
(* what nobody touches while others poll.                                  *)
LEMMA FirstFrame ==
  ASSUME FirstInv, met \subseteq met',
         \A n \in Nodes : reports'[n] \subseteq reports[n],
         \A n \in Nodes : poll'[n] = poll[n] \/ poll'[n].pc # "answered",
         \A n, t, v \in Nodes : claims'[n][t][v] = claims[n][t][v] \/ claims'[n][t][v] = "none"
  PROVE  FirstInv'
  <1>1. ReportsMet'
    BY DEF FirstInv, ReportsMet
  <1>2. PollMet'
    BY DEF FirstInv, PollMet
  <1>3. WordIsFirstHand'
    BY DEF FirstInv, WordIsFirstHand
  <1>4. QED
    BY <1>1, <1>2, <1>3 DEF FirstInv

(* A machine says it reaches only those whose answer it holds itself. *)
LEMMA DigestMet ==
  ASSUME ReportsMet, NEW n \in Nodes, NEW t \in Nodes, Digest(n)[t] = "reach"
  PROVE  <<n, t>> \in met
  BY DEF ReportsMet, Digest

LEMMA PollDialFirst ==
  ASSUME FleetInv, FirstInv, NEW n \in Nodes, PollDial(n) PROVE FirstInv'
  <1> DEFINE m == poll[n].peer
  <1>1. /\ m \in Nodes /\ met \subseteq met' /\ UNCHANGED <<reports, claims>>
        /\ \A k \in Nodes \ {n} : poll'[k] = poll[k]
    BY DEF PollDial, FleetInv, PollInv, tables
  <1>2. CASE Handshake(n, m)
    <2>1. /\ poll'[n] = [pc |-> "answered", peer |-> m, digest |-> Answer(m)]
          /\ <<n, m>> \in met'
      BY <1>2 DEF PollDial, FleetInv, PollInv
    <2>2. poll'[n].peer = m /\ poll'[n].digest = Answer(m)
      BY <2>1
    <2>3. \A d \in Answer(m) : \A t \in Nodes : d[t] = "reach" => <<m, t>> \in met
      BY <1>1, DigestMet DEF Answer, FirstInv
    <2>4. PollMet'
      BY <1>1, <2>1, <2>2, <2>3 DEF FirstInv, PollMet
    <2>5. ReportsMet' /\ WordIsFirstHand'
      BY <1>1 DEF FirstInv, ReportsMet, WordIsFirstHand
    <2>6. QED
      BY <2>4, <2>5 DEF FirstInv
  <1>3. CASE ~Handshake(n, m)
    <2>1. poll'[n].pc # "answered"
      BY <1>3 DEF PollDial, FleetInv, PollInv
    <2>2. QED
      BY <1>1, <2>1, FirstFrame
  <1>4. QED
    BY <1>2, <1>3

(* Filing a digest: what it says of the one that reads it and of the one   *)
(* that wrote it is left out, and the rest is that one's own word.         *)
LEMMA PollRecordFirst ==
  ASSUME FleetInv, FirstInv, NEW n \in Nodes, PollRecord(n) PROVE FirstInv'
  <1> DEFINE m == poll[n].peer
  <1>1. /\ m \in Nodes /\ met' = met /\ <<n, m>> \in met
        /\ \A d \in poll[n].digest : \A t \in Nodes : d[t] = "reach" => <<m, t>> \in met
        /\ poll[n].digest \subseteq Digests
    BY DEF PollRecord, FleetInv, PollInv, FirstInv, PollMet, past
  <1>2. ReportsMet'
    BY <1>1 DEF PollRecord, FleetInv, TablesInv, FirstInv, ReportsMet
  <1>3. PollMet'
    BY <1>1 DEF PollRecord, FleetInv, PollInv, NoPoll, FirstInv, PollMet
  <1>4. WordIsFirstHand'
    <2>1. CASE claims' = claims
      BY <1>1, <2>1 DEF FirstInv, WordIsFirstHand
    <2>2. CASE claims' # claims
      <3> DEFINE d == CHOOSE x \in poll[n].digest : TRUE
      <3>1. d \in poll[n].digest /\ claims' = [claims EXCEPT ![n] = RecordVouches(n, m, d)]
        BY <2>2 DEF PollRecord
      <3>2. \A t \in Nodes : d[t] = "reach" => <<m, t>> \in met
        BY <1>1, <3>1
      <3> HIDE DEF d
      <3>3. claims'[n] = RecordVouches(n, m, d) /\ \A k \in Nodes \ {n} : claims'[k] = claims[k]
        BY <3>1 DEF FleetInv, TablesInv
      <3>4. ASSUME NEW t \in Nodes, NEW v \in Nodes
            PROVE  \/ claims'[n][t][v] = claims[n][t][v]
                   \/ claims'[n][t][v] = "none"
                   \/ v = m /\ t \notin {n, m} /\ claims'[n][t][v] = d[t]
        BY <3>3 DEF RecordVouches, FleetInv, TablesInv
      <3>5. QED
        BY <1>1, <3>2, <3>3, <3>4 DEF FirstInv, WordIsFirstHand
    <2>3. QED
      BY <2>1, <2>2
  <1>5. QED
    BY <1>2, <1>3, <1>4 DEF FirstInv

LEMMA UnpairFirst ==
  ASSUME FleetInv, FirstInv, NEW n \in Nodes, NEW m \in Nodes, Unpair(n, m) PROVE FirstInv'
  <1>1. \A k, t, v \in Nodes : claims'[k][t][v] = claims[k][t][v] \/ claims'[k][t][v] = "none"
    BY DEF Unpair, ClearVouches, FleetInv, TablesInv
  <1>2. QED
    BY <1>1, FirstFrame DEF Unpair, past

LEMMA PruneFirst ==
  ASSUME FleetInv, FirstInv, NEW n \in Nodes, NEW readable, NEW old, Prune(n, readable, old)
  PROVE  FirstInv'
  <1>1. \A k, t, v \in Nodes : claims'[k][t][v] = claims[k][t][v] \/ claims'[k][t][v] = "none"
    BY DEF Prune, PruneVouches, FleetInv, TablesInv
  <1>2. QED
    BY <1>1, FirstFrame DEF Prune, past

LEMMA StopFirst ==
  ASSUME FleetInv, FirstInv, NEW n \in Nodes, Stop(n) PROVE FirstInv'
  <1>1. \A k \in Nodes : \/ reports'[k] = {} /\ claims'[k] = Unclaimed /\ poll'[k] = NoPoll
                         \/ UNCHANGED <<reports[k], claims[k], poll[k]>>
    BY DEF Stop, FleetInv, TablesInv, PollInv
  <1>2. \A k, t, v \in Nodes : claims'[k][t][v] = claims[k][t][v] \/ claims'[k][t][v] = "none"
    BY <1>1 DEF Unclaimed
  <1>3. QED
    BY <1>1, <1>2, FirstFrame DEF Stop, past, NoPoll

LEMMA PollStartFirst ==
  ASSUME FleetInv, FirstInv, NEW n \in Nodes, NEW m \in Nodes, PollStart(n, m) PROVE FirstInv'
  <1>1. \A k \in Nodes : poll'[k] = poll[k] \/ poll'[k].pc # "answered"
    BY DEF PollStart, FleetInv, PollInv
  <1>2. QED
    BY <1>1, FirstFrame DEF PollStart, tables, past

LEMMA PollLostFirst ==
  ASSUME FleetInv, FirstInv, NEW n \in Nodes, PollLost(n) PROVE FirstInv'
  <1>1. \A k \in Nodes : poll'[k] = poll[k] \/ poll'[k].pc # "answered"
    BY DEF PollLost, FleetInv, PollInv, NoPoll
  <1>2. \A k \in Nodes : reports'[k] \subseteq reports[k]
    BY DEF PollLost, FleetInv, TablesInv
  <1>3. QED
    BY <1>1, <1>2, FirstFrame DEF PollLost, past

LEMMA InitFirst == Init => FirstInv
  BY DEF Init, InitOf, FirstInv, ReportsMet, PollMet, WordIsFirstHand, NoPoll, Unclaimed

LEMMA NextFirst == ASSUME FleetInv, FirstInv, Next PROVE FirstInv'
  <1>1. ASSUME NEW n \in Nodes, Polling(n) PROVE FirstInv'
    BY <1>1, PollStartFirst, PollDialFirst, PollRecordFirst, PollLostFirst
    DEF Polling
  <1>2. ASSUME NEW n \in Nodes, Pruning(n) \/ Stop(n) PROVE FirstInv'
    BY <1>2, PruneFirst, StopFirst DEF Pruning
  <1>3. ASSUME NEW n \in Nodes, NEW m \in Nodes, Unpair(n, m) PROVE FirstInv'
    BY <1>3, UnpairFirst
  <1>4. CASE UNCHANGED <<reports, claims, poll, met>>
    BY <1>4, FirstFrame
  <1>5. ASSUME NEW n \in Nodes, Start(n) \/ \E m \in Nodes : Found(n, m) \/ SightingAges(n, m)
        PROVE  UNCHANGED <<reports, claims, poll, met>>
    BY <1>5 DEF Start, Found, SightingAges, tables, past
  <1>6. ASSUME NEW n \in Nodes, NEW m \in Nodes, NEW c \in BOOLEAN,
               Pair(n, m, c) \/ SetController(n, m, c)
        PROVE  UNCHANGED <<reports, claims, poll, met>>
    BY <1>6 DEF Pair, SetController, tables
  <1>7. ASSUME Connect \/ Disconnect \/ (\E right \in BOOLEAN : Hello(right))
               \/ (\E t \in Nodes : Ask(t)) \/ AskLost \/ Terminal \/ Relay
        PROVE  UNCHANGED <<reports, claims, poll, met>>
    BY <1>7 DEF Connect, Disconnect, Hello, Ask, AskLost, Terminal, Relay, tables, past
  <1>8. QED
    BY <1>1, <1>2, <1>3, <1>4, <1>5, <1>6, <1>7 DEF Next

(* No machine passes on what it was told: whoever is said to be in reach   *)
(* answered the one that says so, which answered the one that was told     *)
(* (fleet/vouched.rs, record_vouches; peer/link.rs, fleet_digest).         *)
THEOREM NothingIsHearsay == Spec => []WordIsFirstHand
  <1>1. FleetInv /\ FirstInv /\ [Next]_vars => FirstInv'
    <2>1. ASSUME FirstInv, UNCHANGED vars PROVE FirstInv'
      BY <2>1, FirstFrame DEF vars
    <2>2. QED
      BY <2>1, NextFirst
  <1>2. FirstInv => WordIsFirstHand
    BY DEF FirstInv
  <1>3. QED
    BY FleetInvariant, InitFirst, <1>1, <1>2, PTL DEF Spec
=============================================================================
