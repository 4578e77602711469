------------------------------- MODULE Fleet -------------------------------
(***************************************************************************)
(* What the machines of a fleet know of one another: the tables every      *)
(* agent keeps in memory (metralectl-agent/src/fleet.rs and fleet/), the   *)
(* poll that fills them (daemon.rs, peer/link.rs), the digests by which    *)
(* one machine vouches for another (fleet/vouched.rs), the route a control *)
(* request takes and the one machine that may relay it (fleet/routing.rs,  *)
(* peer/control.rs, daemon/peer_serve.rs), and the browser session that    *)
(* asks (session.rs, session/remote.rs, server.rs).                        *)
(*                                                                         *)
(* Every machine runs the same code.  Pins are written by the ceremonies   *)
(* of the Pairing module; here an edit of the pin file is one step.  A     *)
(* report, a claim and a sighting carry only what routing and the listing  *)
(* tell apart: whether they are there, whether they are older than         *)
(* UNREACHABLE_AFTER, and whether the voucher can reach the machine.       *)
(***************************************************************************)
EXTENDS Naturals, Sequences, FiniteSets

CONSTANTS
    Nodes,         \* machines
    Id,            \* Id[n]: the place of n's node id in their order
    Watcher,       \* the machine whose browser asks
    Pollers,       \* machines whose poll loop runs
    Hears,         \* <<n, m>>: announcements of m reach n
    Trust,         \* <<n, m>>: n pinned m before the behaviour starts
    Grants,        \* <<n, m>>: n then let m control it
    Addresses,     \* <<n, m>>: n then had an address of m in its pin
    Editors,       \* machines whose owner edits the pin file
    Old,           \* machines that speak peer protocol 1
    Rank,          \* Rank[n][m]: the rank of n's link to m
    MaxSightings,  \* MAX_SIGHTINGS
    MaxVouched,    \* MAX_VOUCHED
    MaxEvents,     \* bound: times an agent stops or an owner edits a pin file
    MaxAsks        \* bound: control requests the browser sends

ASSUME WatcherAssumption == Watcher \in Nodes
ASSUME TrustAssumption   ==
    Trust \subseteq Nodes \X Nodes /\ Grants \subseteq Trust /\ Addresses \subseteq Trust
ASSUME IdAssumption      ==
    Id \in [Nodes -> Nat] /\ \A n, m \in Nodes : Id[n] = Id[m] => n = m
ASSUME RankAssumption    == Rank \in [Nodes -> [Nodes -> Nat]]

VARIABLES
    up,       \* is the agent running?
    pins,     \* pins[n][m]: the pin file
    seen,     \* seen[n][m]: the sighting of an announcement, and its age
    reports,  \* reports[n]: machines whose answer n holds
    claims,   \* claims[n][t][v]: what v last told n about t, and its age
    poll,     \* the poll each agent has in progress
    session,  \* the browser session of the watcher
    ask,      \* the control request the session has in flight
    ran,      \* where the last request was executed, and by which path
    granted,  \* <<n, m>>: n has let m control it since that request was sent
    met,      \* <<n, m>>: m has answered a poll of n
    events, asks

tables == <<seen, reports, claims>>
bounds == <<events, asks>>
past   == <<ran, granted, met>>
vars   == <<up, pins, seen, reports, claims, poll, session, ask,
            ran, granted, met, events, asks>>

NoPin  == [pinned |-> FALSE, control |-> FALSE, addr |-> FALSE]
APin(control, addr) == [pinned |-> TRUE, control |-> control, addr |-> addr]

Ages    == {"none", "fresh", "stale"}
Claims  == {"none", "reach", "silent"}
Digests == [Nodes -> Claims]

NoPoll  == [pc |-> "idle"]
NoAsk   == [pc |-> "idle"]

Pinned(n, m) == pins[n][m].pinned

Forgotten == [m \in Nodes |-> "none"]
Unclaimed == [t \in Nodes |-> [v \in Nodes |-> "none"]]

InitOf(trust) ==
    /\ up = [n \in Nodes |-> TRUE]
    /\ pins = [n \in Nodes |-> [m \in Nodes |->
                 IF <<n, m>> \in trust THEN APin(<<n, m>> \in Grants, <<n, m>> \in Addresses)
                 ELSE NoPin]]
    /\ seen = [n \in Nodes |-> Forgotten]
    /\ reports = [n \in Nodes |-> {}]
    /\ claims = [n \in Nodes |-> Unclaimed]
    /\ poll = [n \in Nodes |-> NoPoll]
    /\ session = "closed"
    /\ ask = NoAsk
    /\ ran = {}
    /\ granted = Grants
    /\ met = {}
    /\ events = 0 /\ asks = 0

Init == InitOf(Trust)

-----------------------------------------------------------------------------
(***************************************************************************)
(* Vouching and routing.                                                   *)
(***************************************************************************)

\* The members of S with the k lowest ids: what a BTreeMap yields first.
FirstOf(S, k) == {x \in S : Cardinality({y \in S : Id[y] < Id[x]}) < k}

\* Mutant: every machine in the pin file is said to be within reach.
DigestOfPins(n) ==
    LET told == FirstOf({t \in Nodes : Pinned(n, t)}, MaxVouched) IN
    [t \in Nodes |-> IF t \in told THEN "reach" ELSE "none"]

\* What n says of its own peers when it is asked: never what it was told.
Digest(n) ==
    LET told == FirstOf({t \in Nodes : Pinned(n, t)}, MaxVouched) IN
    [t \in Nodes |-> IF t \notin told THEN "none"
                     ELSE IF t \in reports[n] THEN "reach" ELSE "silent"]

\* choose_voucher: of those that say they reach t and have answered n, the one
\* over the best link, and among equals the one with the lowest id.
Reaching(n, t) ==
    {v \in Nodes : claims[n][t][v] = "reach"
                   /\ v \in reports[n]}

ChooseVoucher(n, t) ==
    FirstOf({v \in Reaching(n, t) :
                \A w \in Reaching(n, t) : Rank[n][w] <= Rank[n][v]}, 1)

\* vouch_of: the voucher a row names, which need not be one that routes.
Vouchers(n, t) ==
    IF ChooseVoucher(n, t) # {} THEN ChooseVoucher(n, t)
    ELSE FirstOf({v \in Nodes : claims[n][t][v] # "none"}, 1)

\* control_address: reported, or remembered in the pin.
HasAddress(n, m) == m \in reports[n] \/ pins[n][m].addr

\* require_control_capable goes by the last answer, and lets silence pass.
Capable(n, m) == ~(m \in reports[n] /\ m \in Old)

\* plan_control_route: the machines n may send the request for t to.
Route(n, t) ==
    IF Pinned(n, t)
    THEN {m \in {t} : Capable(n, m) /\ HasAddress(n, m)}
    ELSE {m \in ChooseVoucher(n, t) : Capable(n, m) /\ HasAddress(n, m)}

(***************************************************************************)
(* The listing: one row per machine, on the rung the tables put it.        *)
(***************************************************************************)
Fresh(n, m) == m \in reports[n] \/ seen[n][m] = "fresh"

Rung(n, m) ==
    IF m = n THEN "local"
    ELSE IF Pinned(n, m)
         THEN IF Fresh(n, m) THEN "paired" ELSE "unreachable"
    ELSE IF seen[n][m] # "none" THEN "discovered"
    ELSE IF Vouchers(n, m) # {} THEN "vouched"
    ELSE "absent"

Listed(n) == {m \in Nodes : Rung(n, m) # "absent"}

\* reached_via of a vouched row.
ReachedVia(n, m) == IF Rung(n, m) = "vouched" THEN ChooseVoucher(n, m) ELSE {}

-----------------------------------------------------------------------------
(***************************************************************************)
(* Discovery: an announcement of m reaches n.                              *)
(***************************************************************************)
Sighted(n) == {x \in Nodes : seen[n][x] # "none"}

\* observe: itself, and a stranger when the table is full, are ignored.
Admits(n, m) ==
    /\ m # n
    /\ seen[n][m] = "none" /\ Cardinality(Sighted(n)) >= MaxSightings
           => Pinned(n, m)

Found(n, m) ==
    /\ up[n] /\ up[m] /\ <<n, m>> \in Hears
    /\ seen[n][m] # "fresh"
    /\ Admits(n, m)
    /\ seen' = [seen EXCEPT ![n][m] = "fresh"]
    /\ UNCHANGED <<up, pins, reports, claims, poll, session, ask, past, bounds>>

\* UNREACHABLE_AFTER passes since a sighting or a claim was refreshed.
SightingAges(n, m) ==
    /\ seen[n][m] = "fresh"
    /\ seen' = [seen EXCEPT ![n][m] = "stale"]
    /\ UNCHANGED <<up, pins, reports, claims, poll, session, ask, past, bounds>>

(***************************************************************************)
(* The prune tick.                                                         *)
(***************************************************************************)
PruneSightings(n) ==
    [m \in Nodes |->
        IF seen[n][m] = "stale" /\ ~Pinned(n, m) THEN "none" ELSE seen[n][m]]

\* Mutant: only sightings are pruned.
PruneVouchesNever(n, old) == claims[n]

\* The claims in old are those not repeated for UNREACHABLE_AFTER.
PruneVouches(n, old) ==
    [t \in Nodes |-> [v \in Nodes |->
        IF <<t, v>> \in old THEN "none" ELSE claims[n][t][v]]]

\* A pin file that cannot be read leaves the sightings alone.
Prune(n, readable, old) ==
    /\ up[n]
    /\ seen' = [seen EXCEPT ![n] = IF readable THEN PruneSightings(n) ELSE @]
    /\ claims' = [claims EXCEPT ![n] = PruneVouches(n, old)]
    /\ seen' # seen \/ old # {}
    /\ UNCHANGED <<up, pins, reports, poll, session, ask, past, bounds>>

-----------------------------------------------------------------------------
(***************************************************************************)
(* The poll.  A tick lists the machines that are pinned and have an        *)
(* address; each is then dialled, answers with its digest, and the answer  *)
(* is recorded, with waits between the three.                              *)
(***************************************************************************)
Dialable(n, m) == Pinned(n, m) /\ (seen[n][m] # "none" \/ pins[n][m].addr)

PollStart(n, m) ==
    /\ up[n] /\ n \in Pollers
    /\ poll[n].pc = "idle"
    /\ Dialable(n, m)
    /\ poll' = [poll EXCEPT ![n] = [pc |-> "dial", peer |-> m]]
    /\ UNCHANGED <<up, pins, tables, session, ask, past, bounds>>

\* Both verifiers read the pin file as the handshake runs.
Handshake(n, m) == up[m] /\ Pinned(n, m) /\ Pinned(m, n)

\* An agent of protocol 1 sends no digest, and its earlier claims stand.
Answer(m) == IF m \in Old THEN {} ELSE {Digest(m)}

PollDial(n) ==
    /\ poll[n].pc = "dial"
    /\ LET m == poll[n].peer IN
       /\ poll' = [poll EXCEPT ![n] =
                     IF Handshake(n, m)
                     THEN [pc |-> "answered", peer |-> m, digest |-> Answer(m)]
                     ELSE [pc |-> "lost", peer |-> m]]
       /\ met' = IF Handshake(n, m) THEN met \cup {<<n, m>>} ELSE met
    /\ UNCHANGED <<up, pins, tables, session, ask, ran, granted, bounds>>

\* Mutant: a claim is kept only for machines that are pinned here.
RecordVouchesOfPeers(n, v, digest) ==
    [t \in Nodes |-> [claims[n][t] EXCEPT ![v] =
        IF ~Pinned(n, t) THEN "none" ELSE digest[t]]]

\* record_vouches: the digest replaces all that v said before; an overlong one
\* is ignored, and so are entries about n and about v.
RecordVouches(n, v, digest) ==
    IF Cardinality({t \in Nodes : digest[t] # "none"}) > MaxVouched
    THEN claims[n]
    ELSE [t \in Nodes |-> [claims[n][t] EXCEPT ![v] =
            IF t \in {n, v} \/ digest[t] = "none" THEN "none"
            ELSE digest[t]]]

ClearVouches(n, v) == [t \in Nodes |-> [claims[n][t] EXCEPT ![v] = "none"]]

PollRecord(n) ==
    /\ poll[n].pc = "answered"
    /\ LET m == poll[n].peer IN
       /\ claims' = IF poll[n].digest = {} THEN claims
                    ELSE [claims EXCEPT ![n] =
                            RecordVouches(n, m, CHOOSE d \in poll[n].digest : TRUE)]
       /\ pins' = IF Pinned(n, m) THEN [pins EXCEPT ![n][m].addr = TRUE] ELSE pins
       /\ reports' = [reports EXCEPT ![n] = @ \cup {m}]
    /\ poll' = [poll EXCEPT ![n] = NoPoll]
    /\ UNCHANGED <<up, seen, session, ask, past, bounds>>

\* Mutant: a poll that fails leaves the last answer standing.
PollLostIgnored(n) ==
    /\ poll[n].pc = "lost"
    /\ poll' = [poll EXCEPT ![n] = NoPoll]
    /\ UNCHANGED <<up, pins, tables, session, ask, past, bounds>>

\* clear_report: what the machine said of itself, and not what it vouched.
PollLost(n) ==
    /\ poll[n].pc = "lost"
    /\ reports' = [reports EXCEPT ![n] = @ \ {poll[n].peer}]
    /\ poll' = [poll EXCEPT ![n] = NoPoll]
    /\ UNCHANGED <<up, pins, seen, claims, session, ask, past, bounds>>

-----------------------------------------------------------------------------
(***************************************************************************)
(* The owner's edits, and agents that stop and start again.                *)
(***************************************************************************)
Edit(n) ==
    /\ n \in Editors
    /\ events < MaxEvents
    /\ events' = events + 1

\* A ceremony that n ran with m, a stranger to m, ended and both recorded it:
\* n with the address it dialled, m with none.
Pair(n, m, control) ==
    /\ Edit(n)
    /\ n # m /\ ~Pinned(m, n) /\ up[n] /\ up[m]
    /\ pins' = [pins EXCEPT ![n][m] = APin(control, TRUE), ![m][n] = APin(FALSE, FALSE)]
    /\ granted' = IF control THEN granted \cup {<<n, m>>} ELSE granted
    /\ UNCHANGED <<up, tables, poll, session, ask, ran, met, asks>>

\* LocalFleet::unpair: the vouches first, then the pin.
Unpair(n, m) ==
    /\ Edit(n)
    /\ Pinned(n, m)
    /\ claims' = [claims EXCEPT ![n] = ClearVouches(n, m)]
    /\ pins' = [pins EXCEPT ![n][m] = NoPin]
    /\ UNCHANGED <<up, seen, reports, poll, session, ask, past, asks>>

SetController(n, m, control) ==
    /\ Edit(n)
    /\ Pinned(n, m) /\ pins[n][m].control # control
    /\ pins' = [pins EXCEPT ![n][m].control = control]
    /\ granted' = IF control THEN granted \cup {<<n, m>>} ELSE granted
    /\ UNCHANGED <<up, tables, poll, session, ask, ran, met, asks>>

\* The agent stops: the tables were in memory, and its tasks go with it.
Stop(n) ==
    /\ up[n]
    /\ events < MaxEvents
    /\ events' = events + 1
    /\ session' = IF n = Watcher THEN "closed" ELSE session
    /\ up' = [up EXCEPT ![n] = FALSE]
    /\ seen' = [seen EXCEPT ![n] = Forgotten]
    /\ reports' = [reports EXCEPT ![n] = {}]
    /\ claims' = [claims EXCEPT ![n] = Unclaimed]
    /\ poll' = [poll EXCEPT ![n] = NoPoll]
    /\ UNCHANGED <<pins, ask, past, asks>>

Start(n) ==
    /\ ~up[n]
    /\ up' = [up EXCEPT ![n] = TRUE]
    /\ UNCHANGED <<pins, tables, poll, session, ask, past, bounds>>

-----------------------------------------------------------------------------
(***************************************************************************)
(* The browser session: hello first, then requests, one at a time; what is *)
(* out of order or malformed closes it.                                    *)
(***************************************************************************)
Connect ==
    /\ up[Watcher]
    /\ session = "closed"
    /\ session' = "hello"
    /\ UNCHANGED <<up, pins, tables, poll, ask, past, bounds>>

\* The protocol version and the token are right, or the socket is closed.
Hello(right) ==
    /\ session = "hello"
    /\ session' = IF right THEN "ready" ELSE "closed"
    /\ UNCHANGED <<up, pins, tables, poll, ask, past, bounds>>

\* A frame that does not parse, or the socket going away: it is read only
\* between requests.
Disconnect ==
    /\ session # "closed"
    /\ ask.pc = "idle"
    /\ session' = "closed"
    /\ UNCHANGED <<up, pins, tables, poll, ask, past, bounds>>

(***************************************************************************)
(* A control request for machine t: planned here, sent to t or to the      *)
(* machine that vouches for t, which may forward it once.                  *)
(***************************************************************************)
\* grant_of: the pin of the machine the request came from, as it is now.
GrantOf(n, sender) == pins[n][sender].pinned /\ pins[n][sender].control

Ask(t) ==
    /\ session = "ready"
    /\ ask.pc = "idle"
    /\ t # Watcher
    /\ asks < MaxAsks
    /\ asks' = asks + 1
    /\ \E m \in Route(Watcher, t) :
           ask' = [pc |-> "sent", to |-> m, target |-> t, path |-> <<Watcher>>]
    /\ ran' = {}
    /\ granted' = {g \in Nodes \X Nodes : GrantOf(g[1], g[2])}
    /\ UNCHANGED <<up, pins, tables, poll, session, met, events>>

Sender == ask.path[Len(ask.path)]

\* The dial fails, or no answer comes in time.
AskLost ==
    /\ ask.pc = "sent"
    /\ ask' = NoAsk
    /\ UNCHANGED <<up, pins, tables, poll, session, past, bounds>>

\* terminal_control: a granted sender's request runs here.
Terminal ==
    /\ ask.pc = "sent" /\ ask.to = ask.target
    /\ Handshake(Sender, ask.to)
    /\ ask.to \notin Old
    /\ ran' = IF GrantOf(ask.to, Sender)
              THEN ran \cup {[at |-> ask.to, path |-> ask.path]} ELSE ran
    /\ ask' = NoAsk
    /\ UNCHANGED <<up, pins, tables, poll, session, granted, met, bounds>>

\* relay_control: for a granted sender, to a machine pinned here, once.
\* Mutant: the relay does not ask whether the sender may control it.
ForwardsForAnyone(r) == Pinned(r, ask.target) /\ HasAddress(r, ask.target)

Forwards(r) == GrantOf(r, Sender) /\ Pinned(r, ask.target) /\ HasAddress(r, ask.target)

Relay ==
    /\ ask.pc = "sent" /\ ask.to # ask.target
    /\ Handshake(Sender, ask.to)
    /\ ask.to \notin Old
    /\ ask' = IF Forwards(ask.to)
              THEN [ask EXCEPT !.to = ask.target, !.path = Append(@, ask.to)]
              ELSE NoAsk
    /\ UNCHANGED <<up, pins, tables, poll, session, past, bounds>>

-----------------------------------------------------------------------------
Polling(n) ==
    (\E m \in Nodes : PollStart(n, m)) \/ PollDial(n) \/ PollRecord(n) \/ PollLost(n)

Claimed(n) == {c \in Nodes \X Nodes : claims[n][c[1]][c[2]] # "none"}

Pruning(n) ==
    \E readable \in BOOLEAN, old \in SUBSET Claimed(n) : Prune(n, readable, old)

\* All that v said has one age: a digest replaces the one before.
Expiring(n, v) ==
    LET old == {c \in Claimed(n) : c[2] = v} IN old # {} /\ Prune(n, TRUE, old)

Next ==
    \/ \E n, m \in Nodes : Found(n, m) \/ SightingAges(n, m)
    \/ \E n \in Nodes : Polling(n) \/ Pruning(n) \/ Stop(n) \/ Start(n)
    \/ \E n, m \in Nodes, c \in BOOLEAN : Pair(n, m, c) \/ SetController(n, m, c)
    \/ \E n, m \in Nodes : Unpair(n, m)
    \/ Connect
    \/ \E right \in BOOLEAN : Hello(right)
    \/ Disconnect
    \/ \E t \in Nodes : Ask(t)
    \/ AskLost
    \/ Terminal
    \/ Relay

(***************************************************************************)
(* The poll loop visits every machine its tick listed, whatever became of  *)
(* the one before; the prune tick recurs; and time passes.                 *)
(***************************************************************************)
Fairness ==
    /\ \A n \in Pollers :
        /\ \A m \in Nodes \ {n} : SF_vars(PollStart(n, m))
        /\ WF_vars(PollDial(n) \/ PollRecord(n) \/ PollLost(n))
    /\ \A v \in Nodes \ {Watcher} : WF_vars(Expiring(Watcher, v))
    /\ \A h \in Hears : WF_vars(SightingAges(h[1], h[2]))

Spec == Init /\ [][Next]_vars

FairSpec == Spec /\ Fairness

-----------------------------------------------------------------------------
(***************************************************************************)
(* Properties.                                                             *)
(***************************************************************************)

\* Tables, polls and requests are well formed in every state.
TypeOK ==
    /\ up \in [Nodes -> BOOLEAN]
    /\ pins \in [Nodes -> [Nodes -> [pinned: BOOLEAN, control: BOOLEAN, addr: BOOLEAN]]]
    /\ seen \in [Nodes -> [Nodes -> Ages]]
    /\ reports \in [Nodes -> SUBSET Nodes]
    /\ claims \in [Nodes -> [Nodes -> [Nodes -> Claims]]]
    /\ \A n \in Nodes : poll[n].pc = "answered"
           => poll[n].digest \subseteq Digests
    /\ session \in {"closed", "hello", "ready"}
    /\ \A n \in Nodes : ~up[n] => reports[n] = {} /\ claims[n] = Unclaimed

\* daemon/peer_serve.rs: a request runs only on a machine that let the machine
\* before it on the path control it; a relay spends that permission only for
\* a machine it let control itself, and there is at most one relay, whatever
\* grants were given and withdrawn while the request was under way.
RunsByGrant ==
    \A r \in ran :
        /\ Len(r.path) <= 2
        /\ <<r.at, r.path[Len(r.path)]>> \in granted
        /\ Len(r.path) = 2 => <<r.path[2], r.path[1]>> \in granted

\* The same, of an agent whose tables never outlive it.
RequestsRunByGrant == TypeOK /\ RunsByGrant

\* fleet/vouched.rs: "a vouch can never be re-vouched".  A machine that n was told
\* to be within reach has answered the one that said so, which has answered n, each
\* found the other in its pins as it did, and neither n nor the voucher is told of
\* itself, however many polls, edits and restarts were under way in between.
WordIsFirstHand ==
    \A n, t, v \in Nodes : claims[n][t][v] # "none" =>
        /\ t \notin {n, v}
        /\ <<n, v>> \in met
        /\ claims[n][t][v] = "reach" => <<v, t>> \in met

\* fleet/listing.rs, dialable_peers: a pin without an address, of a machine that
\* was never heard announcing itself, is not dialled, and the answer recorded
\* before (clear_report is the poll's) stands.
Watched(t) == \A n \in Nodes : Pinned(n, t) => Dialable(n, t)

\* A machine that stays down, and can be dialled by those that trust it, is not
\* shown as answering for ever, and requests for it are not sent to a machine
\* that last said it could reach it.
DownIsNoticed ==
    \A t \in Nodes \ {Watcher} : <>[](~up[t] /\ up[Watcher] /\ Watched(t)) =>
        <>[](Rung(Watcher, t) # "paired" /\ ReachedVia(Watcher, t) = {})

\* The watcher and the machines it polls stay up, and v keeps trusting t both
\* ways: then the watcher finds a way to t through v again and again, although
\* claims age out between polls.
Mutual(n, m) == Pinned(n, m) /\ Pinned(m, n)

VouchedIsRouted ==
    \A v \in Nodes \ {Watcher} : \A t \in Nodes \ {Watcher, v} :
        <>[](/\ {Watcher, v, t} \subseteq {n \in Nodes : up[n]}
             /\ {Watcher, v} \subseteq Pollers /\ v \notin Old
             /\ pins[Watcher][v].addr /\ pins[v][t].addr
             /\ Mutual(Watcher, v) /\ Mutual(v, t) /\ ~Pinned(Watcher, t))
        => []<>(v \in Reaching(Watcher, t))

\* A machine the owner unpaired for good vouches for nothing in the end, even
\* if a poll of it was under way when the pin went.
UnpairedIsForgotten ==
    \A v \in Nodes \ {Watcher} :
        <>[](~Pinned(Watcher, v)) =>
            <>[](\A t \in Nodes : claims[Watcher][t][v] = "none")

\* fleet/listing.rs, unpair: "no route or listing row survives on the word of a
\* peer no longer trusted to say anything".
NoWordOfTheUnpaired ==
    \A n, t, v \in Nodes : claims[n][t][v] # "none" => Pinned(n, v)
=============================================================================
