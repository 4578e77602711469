------------------------------ MODULE Pairing ------------------------------
(***************************************************************************)
(* How one machine comes to trust another, and stops: the join window      *)
(* (metralectl-agent/src/joining.rs), the ceremony a stranger runs inside  *)
(* it (peer/pair.rs, daemon/join.rs), the browser's two-phase pairing      *)
(* (session/fleet.rs), `metralectl agent pair` and `metralectl peer`, and  *)
(* the pin file all of them rewrite (identity.rs).                         *)
(*                                                                         *)
(* The module describes ONE machine.  `Peers' are the machines it may come *)
(* to trust, `Conns' the tasks its peer listener spawns, one per accepted  *)
(* connection.  A code is the number of the invitation it was minted for:  *)
(* codes are drawn from 10^8, so no two invitations share one; 0 stands    *)
(* for any code this machine never minted.  The pin file is read and       *)
(* written whole, without a lock, by several tasks and several processes;  *)
(* a writer is one of them, and holds the copy it read until it saves.     *)
(***************************************************************************)
EXTENDS Naturals, FiniteSets, Sequences, TLC

CONSTANTS
    Peers,        \* the other machines
    Conns,        \* tasks serving an accepted connection
    MaxAttempts,  \* MAX_ATTEMPTS of pairing.rs
    MaxMints,     \* bound: invitations minted in one behaviour
    MaxCalls,     \* bound: connections accepted in one behaviour
    MaxEdits      \* bound: operations begun on the pin file by its owner

ASSUME AttemptsAssumption == MaxAttempts \in Nat \ {0}
ASSUME MintsAssumption    == MaxMints \in Nat
ASSUME ConnsAssumption    == Conns \cap {"session", "poll", "cli"} = {}

VARIABLES
    window,   \* the join window's slot: NoWindow or the pending invitation
    granted,  \* allow_control of every invitation minted, in order
    handed,   \* how often each invitation's code was handed to a ceremony
    spends,   \* the codes of the machines that consumed each invitation
    closed,   \* invitations replaced, revoked, expired or spent
    conn,     \* the connection each listener task serves
    pins,     \* the pin file
    rmw,      \* the read-modify-write each writer is in
    pending,  \* the browser session's exchange awaiting a human
    offer,    \* the `agent pair' command, which runs while no agent does
    proved,   \* machines that completed an unrelayed ceremony with the code
    calls,    \* connections accepted so far
    edits     \* operations the owner began on the pin file so far

vars == <<window, granted, handed, spends, closed, conn, pins, rmw, pending,
          offer, proved, calls, edits>>

Invs == 1 .. MaxMints

NoWindow  == [inv |-> 0]
NoPin     == [rights |-> {"none"}]
NoPending == [node |-> "none"]
NoOffer   == [pc |-> "none"]
NoConn    == [pc |-> "idle"]
NoRmw     == [pc |-> "idle"]

Writers == Conns \cup {"session", "poll", "cli"}

\* What a pin may grant: allow_control and allow_bench.
Rights == {"control", "bench"}

Pin == [rights: SUBSET Rights, addr: BOOLEAN]

PinFile == [Peers -> Pin \cup {NoPin}]

Pinned(p) == pins[p] # NoPin

\* An operation on the pin file that has not loaded it yet, and the operation
\* its author goes on with once this one is saved.
Op(op, p, arg, next) ==
    [pc |-> "load", op |-> op, node |-> p, arg |-> arg, next |-> next]

\* record_pairing: a whole new pin, which knows no bench grant.  A ceremony's
\* record also says which code it ran on.
Recording(p, allow, addr, next, code) ==
    [pc |-> "load", op |-> "record", node |-> p, next |-> next,
     arg |-> [rights |-> IF allow THEN {"control"} ELSE {},
              addr |-> addr],
     flag |-> allow, code |-> code]

(***************************************************************************)
(* A ceremony's cryptography.  SPAKE2 turns the code and the two           *)
(* identities into a key; the confirmation covers the key, this side's TLS *)
(* exporter and the direction.  A relay ends two TLS sessions, so the two  *)
(* sides hold different exporters.                                         *)
(***************************************************************************)
SharedKey(code, a, b) == [code |-> code, ids |-> {a, b}]

\* The TLS exporter of the session a side holds, as the other side names it.
Binding(link) == IF link = "direct" THEN "ours" ELSE "the relay's"

Mac(key, binding, from, to) == <<key, binding, from, to>>

\* Mutant: the confirmation is received and not compared.
VerifySkipped(expected, received) == TRUE

\* Key confirmation: the MAC received against the one expected.
Verify(expected, received) == expected = received

\* The confirmation a caller sends, and the one this side expects of it.
FarMac(c, guess, link) ==
    Mac(SharedKey(guess, "here", conn[c].peer), Binding(link), conn[c].peer,
        "here")

ExpectedMac(c) ==
    Mac(SharedKey(conn[c].code, "here", conn[c].peer), Binding("direct"),
        conn[c].peer, "here")

Init ==
    /\ window = NoWindow
    /\ granted = <<>>
    /\ handed = [i \in Invs |-> 0]
    /\ spends = [i \in Invs |-> <<>>]
    /\ closed = {}
    /\ conn = [c \in Conns |-> NoConn]
    /\ pins = [p \in Peers |-> NoPin]
    /\ rmw = [w \in Writers |-> NoRmw]
    /\ pending = NoPending
    /\ offer = NoOffer
    /\ proved = {}
    /\ calls = 0
    /\ edits = 0

-----------------------------------------------------------------------------
(***************************************************************************)
(* The join window.                                                        *)
(***************************************************************************)

\* An invitation outstanding until now is replaced or withdrawn.
Retire == IF window = NoWindow THEN {} ELSE {window.inv}

\* A fresh code in the slot, whatever was there.
Mint(allow) ==
    [inv |-> Len(granted) + 1, attempts |-> 0, allow |-> allow,
     expired |-> FALSE]

MintJoin(allow) ==
    /\ offer = NoOffer
    /\ Len(granted) < MaxMints
    /\ granted' = Append(granted, allow)
    /\ closed' = closed \cup Retire
    /\ window' = Mint(allow)
    /\ UNCHANGED <<handed, spends, conn, pins, rmw, pending, offer, proved,
                   calls, edits>>

RevokeJoin ==
    /\ offer = NoOffer
    /\ window # NoWindow
    /\ window' = NoWindow
    /\ closed' = closed \cup Retire
    /\ UNCHANGED <<granted, handed, spends, conn, pins, rmw, pending, offer,
                   proved, calls, edits>>

\* JOIN_TTL passes.  Nothing runs: the next reader finds the slot stale.
WindowExpires ==
    /\ window # NoWindow
    /\ ~window.expired
    /\ window' = [window EXCEPT !.expired = TRUE]
    /\ closed' = closed \cup {window.inv}
    /\ UNCHANGED <<granted, handed, spends, conn, pins, rmw, pending, offer,
                   proved, calls, edits>>

IsOpen == window # NoWindow /\ ~window.expired /\ window.attempts < MaxAttempts

(***************************************************************************)
(* An accepted connection.  The verifier admits anyone while the window is *)
(* open and a pinned peer always.                                          *)
(***************************************************************************)
Admits(p) == IsOpen \/ Pinned(p)

Accept(c, p) ==
    /\ conn[c] = NoConn
    /\ rmw[c] = NoRmw
    /\ offer = NoOffer
    /\ calls < MaxCalls
    /\ Admits(p)
    /\ calls' = calls + 1
    /\ conn' = [conn EXCEPT ![c] =
                  [pc |-> "accepted", peer |-> p, code |-> 0, proof |-> FALSE]]
    /\ UNCHANGED <<window, granted, handed, spends, closed, pins, rmw, pending,
                   offer, proved, edits>>

\* Mutant: a caller that finds the attempts spent clears the slot.
BeginAttemptEvicts ==
    IF window = NoWindow \/ window.expired THEN [code |-> 0, slot |-> NoWindow]
    ELSE IF window.attempts >= MaxAttempts THEN [code |-> 0, slot |-> NoWindow]
    ELSE [code |-> window.inv, slot |-> [window EXCEPT !.attempts = @ + 1]]

\* Mutant: only the verifier looks at the clock.
BeginAttemptStale ==
    IF window = NoWindow THEN [code |-> 0, slot |-> NoWindow]
    ELSE IF window.attempts >= MaxAttempts THEN [code |-> 0, slot |-> window]
    ELSE [code |-> window.inv, slot |-> [window EXCEPT !.attempts = @ + 1]]

\* begin_attempt: what it answers and what it leaves in the slot.
BeginAttempt ==
    IF window = NoWindow THEN [code |-> 0, slot |-> NoWindow]
    ELSE IF window.expired THEN [code |-> 0, slot |-> NoWindow]
    ELSE IF window.attempts >= MaxAttempts THEN [code |-> 0, slot |-> window]
    ELSE [code |-> window.inv, slot |-> [window EXCEPT !.attempts = @ + 1]]

\* The handshake is over: a pinned peer is served by the peer channel (the
\* Fleet module's business), a stranger reserves an attempt or is dropped.
ServeJoin(c) ==
    /\ conn[c].pc = "accepted"
    /\ IF Pinned(conn[c].peer)
       THEN /\ conn' = [conn EXCEPT ![c] = NoConn]
            /\ UNCHANGED <<window, handed>>
       ELSE LET a == BeginAttempt IN
            /\ window' = a.slot
            /\ IF a.code = 0
               THEN /\ conn' = [conn EXCEPT ![c] = NoConn]
                    /\ UNCHANGED handed
               ELSE /\ conn' = [conn EXCEPT ![c].pc = "hello",
                                            ![c].code = a.code]
                    /\ handed' = [handed EXCEPT ![a.code] = @ + 1]
    /\ UNCHANGED <<granted, spends, closed, pins, rmw, pending, offer, proved,
                   calls, edits>>

\* The caller's hello and SPAKE2 message have come; its confirmation is for
\* the code it dialled with, over the TLS session it holds.  A relay holds two,
\* and a machine that only polls us sends a hello and never gets here.
Confirm(c, guess, link) ==
    /\ conn[c].pc = "hello"
    /\ conn' = IF Verify(ExpectedMac(c), FarMac(c, guess, link))
               THEN [conn EXCEPT ![c].pc = "accept",
                                 ![c].proof = guess = conn[c].code
                                              /\ link = "direct"]
               ELSE [conn EXCEPT ![c] = NoConn]
    /\ UNCHANGED <<window, granted, handed, spends, closed, pins, rmw, pending,
                   offer, proved, calls, edits>>

\* The key offered for pinning must be the one the certificate carried.
KeyMatches(key) == key = "certificate"

AcceptKey(c, key) ==
    /\ conn[c].pc = "accept"
    /\ conn' = IF KeyMatches(key)
               THEN [conn EXCEPT ![c].pc = "agreed"]
               ELSE [conn EXCEPT ![c] = NoConn]
    /\ UNCHANGED <<window, granted, handed, spends, closed, pins, rmw, pending,
                   offer, proved, calls, edits>>

\* The connection drops, or JOIN_TIMEOUT cuts the ceremony off, at any await.
Hangup(c) ==
    /\ conn[c].pc \in {"accepted", "hello", "accept"}
    /\ conn' = [conn EXCEPT ![c] = NoConn]
    /\ UNCHANGED <<window, granted, handed, spends, closed, pins, rmw, pending,
                   offer, proved, calls, edits>>

\* Mutant: the invitation is read and left in the slot.
TakenNotEmptied == [found |-> window, slot |-> window]

\* consume: whatever invitation is in the slot, and an empty slot after it.
Taken == [found |-> window, slot |-> NoWindow]

\* The ceremony succeeded: the invitation in the slot is spent, be it the one
\* whose code the machine proved or one minted since, and the pin written with
\* the grant of the invitation taken.  An empty slot refuses the pairing.
Consume(c) ==
    /\ conn[c].pc = "agreed"
    /\ conn' = [conn EXCEPT ![c] = NoConn]
    /\ window' = Taken.slot
    /\ IF Taken.found = NoWindow
       THEN UNCHANGED <<spends, closed, rmw, proved>>
       ELSE /\ spends' = [spends EXCEPT ![window.inv] = Append(@, conn[c].code)]
            /\ closed' = closed \cup {window.inv}
            /\ rmw' = [rmw EXCEPT ![c] =
                 Recording(conn[c].peer, window.allow, FALSE, NoRmw, conn[c].code)]
            /\ proved' = IF conn[c].proof THEN proved \cup {conn[c].peer}
                         ELSE proved
    /\ UNCHANGED <<granted, handed, pins, pending, offer, calls, edits>>

-----------------------------------------------------------------------------
(***************************************************************************)
(* The pin file.  Every operation loads the whole file, changes its copy   *)
(* and saves the copy whole.                                               *)
(***************************************************************************)

\* What an operation makes of its machine's pin: add inserts a whole one.
Changed(op, pin) ==
    CASE op.op \in {"record", "address"} -> op.arg
      [] op.op = "remove"  -> NoPin
      [] op.op = "grant"   -> [pin EXCEPT !.rights = @ \cup {op.arg}]
      [] op.op = "revoke"  -> [pin EXCEPT !.rights = @ \ {op.arg}]

\* And so of the file it loaded.
Edited(op, file) == [file EXCEPT ![op.node] = Changed(op, file[op.node])]

\* Does the operation write at all, given what it loaded?  A right is never
\* created by granting it, and removing what is not there saves nothing.
Saves(op, file) ==
    \/ op.op \in {"record", "address"}
    \/ file[op.node] # NoPin

Load(w) ==
    /\ rmw[w].pc = "load"
    /\ rmw' = IF Saves(rmw[w], pins)
              THEN [rmw EXCEPT ![w] =
                      [pc |-> "save", op |-> @.op, node |-> @.node,
                       file |-> Edited(@, pins), next |-> @.next]]
              ELSE [rmw EXCEPT ![w] = NoRmw]
    /\ UNCHANGED <<window, granted, handed, spends, closed, conn, pins, pending,
                   offer, proved, calls, edits>>

\* secretfile::write replaces the file in one rename.
Save(w) ==
    /\ rmw[w].pc = "save"
    /\ pins' = rmw[w].file
    /\ rmw' = [rmw EXCEPT ![w] = @.next]
    /\ UNCHANGED <<window, granted, handed, spends, closed, conn, pending, offer,
                   proved, calls, edits>>

\* The write fails: the caller reports it and nothing is trusted or withdrawn.
SaveFails(w) ==
    /\ rmw[w].pc = "save"
    /\ rmw' = [rmw EXCEPT ![w] = NoRmw]
    /\ UNCHANGED <<window, granted, handed, spends, closed, conn, pins, pending,
                   offer, proved, calls, edits>>

Start(w, op) ==
    /\ rmw[w] = NoRmw
    /\ edits < MaxEdits
    /\ edits' = edits + 1
    /\ rmw' = [rmw EXCEPT ![w] = op]

\* remember_address after a poll: one load to find the pin without this
\* address, then PinStore::add, which loads again and inserts the copied pin.
RememberAddress(p) ==
    /\ Pinned(p)
    /\ ~pins[p].addr
    /\ Start("poll", Op("address", p, [pins[p] EXCEPT !.addr = TRUE], NoRmw))
    /\ UNCHANGED <<window, granted, handed, spends, closed, conn, pins, pending,
                   offer, proved, calls>>

\* `metralectl peer remove | grant-control | revoke-control | grant-bench |
\* revoke-bench': the name is resolved against one load, then the operation.
PeerCommand(p, op, right) ==
    /\ Pinned(p)
    /\ Start("cli", Op(op, p, right, NoRmw))
    /\ UNCHANGED <<window, granted, handed, spends, closed, conn, pins, pending,
                   offer, proved, calls>>

-----------------------------------------------------------------------------
(***************************************************************************)
(* The browser's pairing: an exchange with machine m, held for a human.    *)
(***************************************************************************)

\* pair_inner and pair_at_inner: the machine that answered is the outcome only
\* if it is the one selected ("any": the operator typed an address).
Outcome(wanted, met) == IF wanted \in {met, "any"} THEN met ELSE "none"

\* PairPeer and PairPeerAt; `met' is "none" when the dial or the ceremony fails.
PairPeer(wanted, met) ==
    /\ offer = NoOffer
    /\ edits < MaxEdits
    /\ edits' = edits + 1
    /\ pending' = [node |-> Outcome(wanted, met)]
    /\ proved' = proved \cup ({met} \ {"none"})
    /\ UNCHANGED <<window, granted, handed, spends, closed, conn, pins, rmw,
                   offer, calls>>

\* ConfirmPairing takes the exchange whatever it answers, and refuses one that
\* waited longer than a human reads (inTime).
ConfirmPairing(p, allow, inTime) ==
    /\ pending # NoPending
    /\ rmw["session"] = NoRmw
    /\ pending' = NoPending
    /\ rmw' = IF pending.node = p /\ inTime
              THEN [rmw EXCEPT !["session"] = Recording(p, allow, TRUE, NoRmw, 0)]
              ELSE rmw
    /\ UNCHANGED <<window, granted, handed, spends, closed, conn, pins, offer,
                   proved, calls, edits>>

\* RejectPairing, and the socket closing: the exchange is forgotten.
RejectPairing ==
    /\ pending # NoPending
    /\ pending' = NoPending
    /\ UNCHANGED <<window, granted, handed, spends, closed, conn, pins, rmw,
                   offer, proved, calls, edits>>

\* UnpairPeer.
Unpair(p) ==
    /\ offer = NoOffer
    /\ Start("session", Op("remove", p, "none", NoRmw))
    /\ UNCHANGED <<window, granted, handed, spends, closed, conn, pins, pending,
                   offer, proved, calls>>

-----------------------------------------------------------------------------
(***************************************************************************)
(* `metralectl agent pair': a code printed here, one caller at a time, and *)
(* a human who compares the words.  It binds the agent's port, so it runs  *)
(* only while the agent does not; `metralectl peer add' is its other side, *)
(* run on this machine against another one's `agent pair'.                 *)
(***************************************************************************)
AgentIdle ==
    /\ window = NoWindow
    /\ pending = NoPending
    /\ \A c \in Conns : conn[c] = NoConn
    /\ \A w \in Writers : rmw[w] = NoRmw

PairCommand ==
    /\ offer = NoOffer
    /\ AgentIdle
    /\ offer' = [pc |-> "waiting", spent |-> 0, peer |-> "none"]
    /\ UNCHANGED <<window, granted, handed, spends, closed, conn, pins, rmw,
                   pending, proved, calls, edits>>

\* A caller that pairs ends the wait; one that does not costs an attempt, and
\* the last one ends the command.
OfferAttempt(p, right) ==
    /\ offer.pc = "waiting"
    /\ offer' = IF right THEN [offer EXCEPT !.pc = "prompt", !.peer = p]
                ELSE IF offer.spent + 1 >= MaxAttempts THEN NoOffer
                ELSE [offer EXCEPT !.spent = @ + 1]
    /\ proved' = IF right THEN proved \cup {p} ELSE proved
    /\ UNCHANGED <<window, granted, handed, spends, closed, conn, pins, rmw,
                   pending, calls, edits>>

\* CODE_TTL_SECS pass, or the operator interrupts.
OfferEnds ==
    /\ offer.pc \in {"waiting", "prompt"}
    /\ offer' = NoOffer
    /\ UNCHANGED <<window, granted, handed, spends, closed, conn, pins, rmw,
                   pending, proved, calls, edits>>

OfferYes ==
    /\ offer.pc = "prompt"
    /\ Start("cli", Recording(offer.peer, FALSE, FALSE, NoRmw, 0))
    /\ offer' = NoOffer
    /\ UNCHANGED <<window, granted, handed, spends, closed, conn, pins, pending,
                   proved, calls>>

\* dial_and_pair run by a command: the machine that answered is recorded with
\* the address it was reached at.
DialAndPair(p, allow, next) ==
    /\ Start("cli", Recording(p, allow, TRUE, next, 0))
    /\ proved' = proved \cup {p}
    /\ UNCHANGED <<window, granted, handed, spends, closed, conn, pins, pending,
                   offer, calls>>

\* `metralectl peer add', once the human said the words match.
PeerAdd(p) == DialAndPair(p, FALSE, NoRmw)

\* `install --join': recorded without asking, and the bench grant, if any, is
\* a second operation on the file.
JoinFleet(p, allow, bench) ==
    DialAndPair(p, allow,
                IF bench THEN Op("grant", p, "bench", NoRmw) ELSE NoRmw)

-----------------------------------------------------------------------------
Ceremony(c) ==
    \/ ServeJoin(c)
    \/ \E guess \in 0 .. Len(granted), link \in {"direct", "relayed"} :
            Confirm(c, guess, link)
    \/ \E key \in {"certificate", "another"} : AcceptKey(c, key)
    \/ Consume(c)
    \/ Hangup(c)

PinWrite(w) == Load(w) \/ Save(w) \/ SaveFails(w)

Next ==
    \/ \E allow \in BOOLEAN : MintJoin(allow)
    \/ RevokeJoin
    \/ WindowExpires
    \/ \E c \in Conns, p \in Peers : Accept(c, p)
    \/ \E c \in Conns : Ceremony(c)
    \/ \E w \in Writers : PinWrite(w)
    \/ \E p \in Peers : RememberAddress(p)
    \/ \E p \in Peers, op \in {"grant", "revoke", "remove"}, r \in Rights :
            PeerCommand(p, op, r)
    \/ \E want \in Peers \cup {"any"}, met \in Peers \cup {"none"} :
            PairPeer(want, met)
    \/ \E p \in Peers, allow, inTime \in BOOLEAN : ConfirmPairing(p, allow, inTime)
    \/ RejectPairing
    \/ \E p \in Peers : Unpair(p)
    \/ PairCommand
    \/ \E p \in Peers, right \in BOOLEAN : OfferAttempt(p, right)
    \/ OfferEnds
    \/ OfferYes
    \/ \E p \in Peers : PeerAdd(p)
    \/ \E p \in Peers, allow \in BOOLEAN, bench \in BOOLEAN :
            JoinFleet(p, allow, bench)

Spec == Init /\ [][Next]_vars

-----------------------------------------------------------------------------
(***************************************************************************)
(* Properties.                                                             *)
(***************************************************************************)
Window ==
    {NoWindow} \cup [inv: Invs, attempts: 0 .. MaxAttempts, allow: BOOLEAN,
                    expired: BOOLEAN]

Connection ==
    {NoConn} \cup [pc: {"accepted", "hello", "accept", "agreed"}, peer: Peers,
                   code: 0 .. MaxMints, proof: BOOLEAN]

\* The state of the window, the connections, the pin file and the commands is
\* well formed: PinStore never writes a file it could not load.
TypeOK ==
    /\ window \in Window
    /\ granted \in Seq(BOOLEAN) /\ Len(granted) <= MaxMints
    /\ handed \in [Invs -> Nat]
    /\ spends \in [Invs -> Seq(Invs)]
    /\ closed \subseteq Invs
    /\ conn \in [Conns -> Connection]
    /\ pins \in PinFile
    /\ \A w \in Writers : rmw[w].pc = "save" => rmw[w].file \in PinFile
    /\ proved \subseteq Peers

\* joining.rs, begin_attempt: an invitation's code is handed to at most
\* MAX_ATTEMPTS ceremonies, however many connections race for it and however
\* they end, because the attempt is charged before the ceremony runs.
GuessBudget == \A i \in Invs : handed[i] <= MaxAttempts

\* joining.rs, consume: one invitation admits one machine.  Ceremonies that
\* overlap on one code all finish, and only the first finds it in the slot.
SpentOnce == \A i \in Invs : Len(spends[i]) <= 1

\* joining.rs, consume takes what is in the slot: the machine an invitation
\* admits proved its code, or that of an earlier one handed out before.
AdmittedByCode ==
    \A i \in Invs : \A n \in 1 .. Len(spends[i]) :
        spends[i][n] \in 1 .. i /\ handed[spends[i][n]] > 0

\* joining.rs: an invitation is worth a budget of guesses and one machine, for
\* every order of ceremonies, mints, revocations and expiries.  The machine
\* need not have proved the code of the invitation it spends.
CodesAreSpent == TypeOK /\ GuessBudget /\ SpentOnce /\ AdmittedByCode

Holding == {"hello", "accept", "agreed"}

\* joining.rs: "A ceremony holding the final reservation may still be running
\* and entitled to consume it".  While an invitation has not been replaced,
\* revoked, used or left to expire, a ceremony that reserved an attempt on it
\* finds it in the slot, whatever late callers do.
WinnerNotEvicted ==
    \A c \in Conns :
        conn[c].pc \in Holding /\ conn[c].code \notin closed
            => window # NoWindow /\ window.inv = conn[c].code

\* joining.rs, serve_join and the pin file together keep what `Invitations'
\* promises: a code that was replaced, revoked, used or has expired is handed
\* to no further ceremony, not even one whose handshake it let through; one
\* invitation admits one machine, which proved a code it was handed; only a
\* machine that proved a code is pinned.
Ledger ==
    INSTANCE Invitations
        WITH Machines <- Peers, Codes <- Invs, Budget <- MaxAttempts,
             minted <- Len(granted), out <- window.inv, tries <- handed,
             used <- spends, trusted <- {p \in Peers : Pinned(p)}

InvitationsAreKept == Ledger!Spec

\* identity.rs: "Only pairing [writes here], and only after key confirmation".
\* Whoever is in the pin file proved the code over one TLS session, with the
\* key its certificate carries, whatever order the file's writers save in.
TrustNeedsProof == \A p \in Peers : Pinned(p) => p \in proved

\* joining.rs, consume: "Some carries the grant the human chose at mint time,
\* so the pin write cannot read it from a slot another mint may since have
\* replaced."
GrantIsTheInvitations ==
    \A c \in Conns :
        rmw[c].pc = "load" => rmw[c].flag = granted[rmw[c].code]

\* identity.rs: "`metralectl peer remove` has to take effect immediately": a
\* machine that was removed is in the file again only because it was recorded.
RemovalSticks ==
    [][\A p \in Peers : ~Pinned(p) /\ pins'[p] # NoPin
           => \E w \in Writers : rmw[w].pc = "save" /\ rmw[w].op = "record"
                                 /\ rmw[w].node = p]_vars

\* joining.rs: "single use, so a code that worked cannot work twice".  A
\* machine that proved a code before another was minted spends the new one.
\* The documentation's claim, which the code does not keep: no run checks it.
CodeWorksOnce ==
    \A i, j \in Invs : i # j /\ spends[i] # <<>> /\ spends[j] # <<>>
        => Head(spends[i]) # Head(spends[j])

Symmetry == Permutations(Peers) \cup Permutations(Conns)
=============================================================================
