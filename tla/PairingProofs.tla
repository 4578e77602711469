---------------------------- MODULE PairingProofs ----------------------------
(***************************************************************************)
(* For any number of strangers, listener tasks, invitations and edits of   *)
(* the pin file: an invitation's code is worth its budget of guesses, an   *)
(* invitation admits one machine, a running ceremony keeps its invitation, *)
(* a closed one is handed to nobody, and only a machine that proved the    *)
(* code is trusted, in whatever order the pin file's unlocked writers load *)
(* and save it.                                                            *)
(***************************************************************************)
EXTENDS Pairing, TLAPS

-----------------------------------------------------------------------------
(* The inductive invariant *)

(* The slot holds the last invitation minted, which is the only one that   *)
(* can be open; it has been handed out once for every attempt charged.     *)
WindowInv ==
  /\ window # NoWindow =>
       /\ window.inv = Len(granted)
       /\ handed[window.inv] = window.attempts
       /\ spends[window.inv] = <<>>
       /\ window.expired <=> window.inv \in closed
  /\ closed \subseteq 1 .. Len(granted)
  /\ \A i \in Invs : i > Len(granted) => handed[i] = 0 /\ spends[i] = <<>>
  /\ \A i \in 1 .. Len(granted) : i \notin closed => window # NoWindow /\ window.inv = i

(* A ceremony under way holds the code of an invitation, which was handed  *)
(* out, and one past its confirmation has the proof.                       *)
ConnInv ==
  \A c \in Conns :
    /\ conn[c].pc \in Holding => conn[c].code \in 1 .. Len(granted) /\ handed[conn[c].code] > 0
    /\ conn[c].pc \in {"accept", "agreed"} => conn[c].proof

(* What a writer goes on with: nothing, or the bench grant of a join. *)
NextOK(n) == n = NoRmw \/ \E p \in Peers : n = Op("grant", p, "bench", NoRmw)

\* An operation that has not loaded the file, S being who proved the code.
LoadOK(o, S) ==
  /\ o.pc = "load" /\ o.node \in Peers /\ NextOK(o.next)
  /\ \/ o.op \in {"record", "address"} /\ o.arg \in Pin /\ o.node \in S
     \/ o.op \in {"grant", "revoke"} /\ o.arg \in Rights
     \/ o.op = "remove"

(* The copy of the file a writer is about to save. *)
SaveOK(o, S) ==
  /\ o.pc = "save" /\ o.file \in PinFile /\ NextOK(o.next)
  /\ \A p \in Peers : o.file[p] # NoPin => p \in S

RmwOK(o, S) == o = NoRmw \/ LoadOK(o, S) \/ SaveOK(o, S)

(* Every copy of the pin file, and every pin about to be put into one, is  *)
(* of a machine that proved the code: a save of a stale copy adds nobody.  *)
RmwInv == rmw = [w \in Writers |-> rmw[w]] /\ \A w \in Writers : RmwOK(rmw[w], proved)

(* What waits for a human has been proved before it is shown. *)
HumanInv ==
  /\ pending # NoPending => pending.node \in proved
  /\ offer \in {NoOffer} \cup [pc : {"waiting", "prompt"}, spent : Nat, peer : Peers \cup {"none"}]
  /\ offer.pc = "prompt" => offer.peer \in proved

PairInv ==
  TypeOK /\ WindowInv /\ GuessBudget /\ SpentOnce /\ AdmittedByCode /\ ConnInv /\ RmwInv /\ HumanInv
  /\ TrustNeedsProof
-----------------------------------------------------------------------------
(* The writers of the pin file *)

LEMMA RmwGrows ==
  ASSUME NEW o, NEW S, NEW T, S \subseteq T, RmwOK(o, S) PROVE RmwOK(o, T)
  BY DEF RmwOK, LoadOK, SaveOK

(* One writer begins, ends or goes on; who has proved the code only grows. *)
LEMMA RmwStep ==
  ASSUME RmwInv, NEW w \in Writers, NEW o, rmw' = [rmw EXCEPT ![w] = o],
         proved \subseteq proved', RmwOK(o, proved')
  PROVE  RmwInv'
  <1>1. rmw' = [v \in Writers |-> rmw'[v]]
    BY DEF RmwInv
  <1>2. ASSUME NEW v \in Writers PROVE RmwOK(rmw'[v], proved')
    <2>1. RmwOK(rmw[v], proved')
      BY RmwGrows DEF RmwInv
    <2>2. rmw'[v] = IF v = w THEN o ELSE rmw[v]
      BY DEF RmwInv
    <2>3. QED
      BY <2>1, <2>2
  <1>3. QED
    BY <1>1, <1>2 DEF RmwInv

LEMMA RmwKept ==
  ASSUME RmwInv, UNCHANGED rmw, proved \subseteq proved' PROVE RmwInv'
  BY RmwGrows DEF RmwInv

LEMMA NoRmwOK == ASSUME NEW S PROVE RmwOK(NoRmw, S)
  BY DEF RmwOK

(* record_pairing is only asked for a machine that proved the code. *)
LEMMA RecordingOK ==
  ASSUME NEW p \in Peers, NEW S, p \in S, NEW allow \in BOOLEAN, NEW addr \in BOOLEAN,
         NEW next, NextOK(next), NEW code
  PROVE  RmwOK(Recording(p, allow, addr, next, code), S)
  <1>1. [rights |-> IF allow THEN {"control"} ELSE {}, addr |-> addr] \in Pin
    BY DEF Pin, Rights
  <1>2. QED
    BY <1>1 DEF RmwOK, LoadOK, Recording

(* What is saved is a pin file, and has nobody in it who was not in the    *)
(* file loaded or is being recorded.                                       *)
LEMMA EditedOK ==
  ASSUME NEW o, NEW S, LoadOK(o, S), NEW file \in PinFile, Saves(o, file),
         \A p \in Peers : file[p] # NoPin => p \in S
  PROVE  /\ Edited(o, file) \in PinFile
         /\ \A p \in Peers : Edited(o, file)[p] # NoPin => p \in S
  <1> DEFINE e == Changed(o, file[o.node])
  <1>1. o.node \in Peers
    BY DEF LoadOK
  <1>2. e \in Pin \cup {NoPin} /\ (e # NoPin => o.node \in S)
    <2>1. CASE o.op \in {"record", "address"}
      BY <2>1 DEF Changed, LoadOK
    <2>2. CASE o.op = "remove"
      BY <2>2 DEF Changed
    <2>3. CASE o.op \in {"grant", "revoke"}
      <3>1. file[o.node] \in Pin /\ o.node \in S /\ o.arg \in Rights
        BY <1>1, <2>3 DEF Saves, PinFile, LoadOK
      <3>2. e = IF o.op = "grant"
                THEN [file[o.node] EXCEPT !.rights = @ \cup {o.arg}]
                ELSE [file[o.node] EXCEPT !.rights = @ \ {o.arg}]
        BY <2>3 DEF Changed
      <3>3. e \in Pin
        BY <3>1, <3>2 DEF Pin
      <3>4. QED
        BY <3>1, <3>3
    <2>4. QED
      BY <2>1, <2>2, <2>3 DEF LoadOK
  <1>3. QED
    BY <1>1, <1>2 DEF PinFile, Edited
-----------------------------------------------------------------------------
(* What the parts of the invariant survive *)

(* The part about codes is the window's business alone. *)
CodeInv == WindowInv /\ GuessBudget /\ SpentOnce /\ AdmittedByCode

LEMMA CodeFrame ==
  ASSUME CodeInv, UNCHANGED <<window, granted, handed, spends, closed>> PROVE CodeInv'
  BY DEF CodeInv, WindowInv, GuessBudget, SpentOnce, AdmittedByCode

LEMMA ConnFrame ==
  ASSUME ConnInv, UNCHANGED <<conn, granted, handed>> PROVE ConnInv'
  BY DEF ConnInv

LEMMA HumanFrame ==
  ASSUME HumanInv, UNCHANGED <<pending, offer>>, proved \subseteq proved' PROVE HumanInv'
  BY DEF HumanInv

LEMMA TrustFrame ==
  ASSUME TrustNeedsProof, UNCHANGED pins, proved \subseteq proved' PROVE TrustNeedsProof'
  BY DEF TrustNeedsProof, Pinned

(* The copies in the writers' hands are pin files whenever RmwInv says so. *)
LEMMA TypeStep ==
  ASSUME window' \in Window, granted' \in Seq(BOOLEAN), Len(granted') <= MaxMints,
         handed' \in [Invs -> Nat], spends' \in [Invs -> Seq(Invs)], closed' \subseteq Invs,
         conn' \in [Conns -> Connection], pins' \in PinFile, proved' \subseteq Peers, RmwInv'
  PROVE  TypeOK'
  BY DEF TypeOK, RmwInv, RmwOK, LoadOK, SaveOK, NoRmw

-----------------------------------------------------------------------------
(* The join window *)

LEMMA MintKeeps ==
  ASSUME PairInv, NEW allow \in BOOLEAN, MintJoin(allow) PROVE PairInv'
  <1> USE AttemptsAssumption, MintsAssumption DEF MintJoin
  <1>1. /\ Len(granted) \in Nat /\ granted' \in Seq(BOOLEAN) /\ Len(granted') = Len(granted) + 1
        /\ Len(granted') \in Invs
    BY DEF PairInv, TypeOK, Invs
  <1>2. /\ window' \in Window /\ window' # NoWindow /\ window'.inv = Len(granted')
        /\ window'.attempts = 0 /\ window'.expired = FALSE
    BY <1>1 DEF Mint, Window, NoWindow, Invs
  <1>3. closed' \subseteq 1 .. Len(granted) /\ closed' \subseteq Invs
        /\ \A i \in 1 .. Len(granted) : i \in closed'
    <2>1. CASE window = NoWindow
      BY <1>1, <2>1 DEF PairInv, TypeOK, WindowInv, Retire, Invs
    <2>2. CASE window # NoWindow
      <3>1. window.inv = Len(granted) /\ window.inv \in Invs
        BY <2>2 DEF PairInv, TypeOK, WindowInv, Window
      <3>2. closed' = closed \cup {Len(granted)}
        BY <2>2, <3>1 DEF Retire
      <3>3. closed \subseteq 1 .. Len(granted) /\ closed \subseteq Invs
        BY DEF PairInv, TypeOK, WindowInv
      <3>4. \A i \in 1 .. Len(granted) : i \notin closed => i = Len(granted)
        BY <3>1 DEF PairInv, WindowInv
      <3>5. Len(granted) \in 1 .. Len(granted)
        BY <3>1 DEF Invs
      <3>6. QED
        BY <3>1, <3>2, <3>3, <3>4, <3>5
    <2>3. QED
      BY <2>1, <2>2
  <1>4. CodeInv'
    <2>1. handed'[window'.inv] = 0 /\ spends'[window'.inv] = <<>>
      <3>1. Len(granted) + 1 \in Invs /\ Len(granted) + 1 > Len(granted)
        BY <1>1
      <3>2. QED
        BY <1>1, <1>2, <3>1 DEF PairInv, WindowInv
    <2>3. Len(granted') \notin closed'
      BY <1>1, <1>3
    <2>4. window' # NoWindow =>
            /\ window'.inv = Len(granted') /\ handed'[window'.inv] = window'.attempts
            /\ spends'[window'.inv] = <<>> /\ (window'.expired <=> window'.inv \in closed')
      BY <1>2, <2>1, <2>3
    <2>5. closed' \subseteq 1 .. Len(granted')
      BY <1>1, <1>3
    <2>6. \A i \in Invs : i > Len(granted') => handed'[i] = 0 /\ spends'[i] = <<>>
      <3>1. \A i \in Invs : i > Len(granted') => i > Len(granted)
        BY <1>1 DEF Invs
      <3>2. QED
        BY <3>1 DEF PairInv, WindowInv
    <2>7. \A i \in 1 .. Len(granted') : i \notin closed' => window' # NoWindow /\ window'.inv = i
      <3>1. \A i \in 1 .. Len(granted') : i \in 1 .. Len(granted) \/ i = Len(granted')
        BY <1>1
      <3>2. QED
        BY <1>2, <1>3, <3>1
    <2>8. WindowInv'
      BY <2>4, <2>5, <2>6, <2>7 DEF WindowInv
    <2>2. GuessBudget' /\ SpentOnce' /\ AdmittedByCode'
      BY DEF PairInv, GuessBudget, SpentOnce, AdmittedByCode
    <2>9. QED
      BY <2>2, <2>8 DEF CodeInv
  <1>5. ConnInv'
    BY <1>1 DEF PairInv, ConnInv
  <1>6. RmwInv' /\ HumanInv' /\ TrustNeedsProof'
    BY RmwKept, HumanFrame, TrustFrame DEF PairInv
  <1>7. TypeOK'
    BY SMTT(60), <1>1, <1>2, <1>3, <1>6, TypeStep DEF PairInv, TypeOK, Invs
  <1>8. QED
    BY <1>4, <1>5, <1>6, <1>7 DEF PairInv, CodeInv

LEMMA RevokeKeeps ==
  ASSUME PairInv, RevokeJoin PROVE PairInv'
  <1> USE AttemptsAssumption, MintsAssumption DEF RevokeJoin
  <1>1. window \in Window /\ window # NoWindow /\ window' = NoWindow
        /\ closed' = closed \cup {window.inv} /\ window.inv = Len(granted) /\ window.inv \in Invs
    BY DEF PairInv, WindowInv, TypeOK, Window, Retire
  <1>2. CodeInv'
    <2>1. \A i \in 1 .. Len(granted) : i \in closed'
      BY <1>1 DEF PairInv, WindowInv
    <2>2. closed' \subseteq 1 .. Len(granted)
      <3>1. Len(granted) \in 1 .. Len(granted)
        BY <1>1 DEF Invs
      <3>2. closed \subseteq 1 .. Len(granted)
        BY DEF PairInv, WindowInv
      <3>3. QED
        BY <1>1, <3>1, <3>2
    <2>3. WindowInv'
      BY <1>1, <2>1, <2>2 DEF PairInv, WindowInv
    <2>4. QED
      BY <2>3 DEF PairInv, CodeInv, GuessBudget, SpentOnce, AdmittedByCode
  <1>3. ConnInv' /\ RmwInv' /\ HumanInv' /\ TrustNeedsProof'
    BY ConnFrame, RmwKept, HumanFrame, TrustFrame DEF PairInv
  <1>4. TypeOK'
    BY <1>1, <1>3, TypeStep DEF PairInv, TypeOK, Window
  <1>5. QED
    BY <1>2, <1>3, <1>4 DEF PairInv, CodeInv

LEMMA ExpireKeeps ==
  ASSUME PairInv, WindowExpires PROVE PairInv'
  <1> USE AttemptsAssumption, MintsAssumption DEF WindowExpires
  <1>1. /\ window \in Window \ {NoWindow} /\ window' \in Window
        /\ window' # NoWindow /\ window'.inv = window.inv /\ window'.attempts = window.attempts
        /\ window'.expired = TRUE /\ window.inv \in Invs
    BY DEF PairInv, TypeOK, Window, NoWindow, Invs
  <1>2. CodeInv'
    <2>1. WindowInv'
      BY <1>1 DEF PairInv, WindowInv, TypeOK, Invs
    <2>2. QED
      BY <2>1 DEF PairInv, CodeInv, GuessBudget, SpentOnce, AdmittedByCode
  <1>3. ConnInv' /\ RmwInv' /\ HumanInv' /\ TrustNeedsProof'
    BY ConnFrame, RmwKept, HumanFrame, TrustFrame DEF PairInv
  <1>4. TypeOK'
    BY <1>1, <1>3, TypeStep DEF PairInv, TypeOK
  <1>5. QED
    BY <1>2, <1>3, <1>4 DEF PairInv, CodeInv
-----------------------------------------------------------------------------
(* Accepted connections *)

(* A step of one connection that touches nothing else. *)
LEMMA ConnStep ==
  ASSUME PairInv, NEW c \in Conns, conn' \in [Conns -> Connection],
         \A d \in Conns \ {c} : conn'[d] = conn[d],
         conn'[c].pc \in Holding =>
           conn'[c].code \in 1 .. Len(granted) /\ handed[conn'[c].code] > 0,
         conn'[c].pc \in {"accept", "agreed"} => conn'[c].proof,
         UNCHANGED <<window, granted, handed, spends, closed, pins, rmw, pending, offer, proved>>
  PROVE  PairInv'
  <1>1. ConnInv'
    BY DEF PairInv, ConnInv
  <1>2. CodeInv' /\ RmwInv' /\ HumanInv' /\ TrustNeedsProof'
    BY CodeFrame, RmwKept, HumanFrame, TrustFrame DEF PairInv, CodeInv
  <1>3. TypeOK'
    BY <1>2, TypeStep DEF PairInv, TypeOK
  <1>4. QED
    BY <1>1, <1>2, <1>3 DEF PairInv, CodeInv

LEMMA AcceptKeeps ==
  ASSUME PairInv, NEW c \in Conns, NEW p \in Peers, Accept(c, p) PROVE PairInv'
  <1> DEFINE x == [pc |-> "accepted", peer |-> p, code |-> 0, proof |-> FALSE]
  <1>1. x \in Connection
    <2>1. x.proof \in BOOLEAN
      BY Zenon
    <2>2. QED
      BY <2>1, MintsAssumption DEF Connection
  <1>2. conn' = [conn EXCEPT ![c] = x]
    BY DEF Accept
  <1>3. conn' \in [Conns -> Connection] /\ conn'[c].pc = "accepted"
        /\ \A d \in Conns \ {c} : conn'[d] = conn[d]
    BY <1>1, <1>2 DEF PairInv, TypeOK
  <1>4. QED
    BY <1>3, ConnStep DEF Accept, Holding

(* A ceremony that ends leaves its task idle. *)
LEMMA IdleConn ==
  ASSUME PairInv, NEW c \in Conns, conn' = [conn EXCEPT ![c] = NoConn],
         UNCHANGED <<window, granted, handed, spends, closed, pins, rmw, pending, offer, proved>>
  PROVE  PairInv'
  <1>1. conn' \in [Conns -> Connection] /\ conn'[c].pc = "idle"
        /\ \A d \in Conns \ {c} : conn'[d] = conn[d]
    BY DEF PairInv, TypeOK, NoConn, Connection
  <1>2. QED
    BY <1>1, ConnStep DEF Holding

LEMMA ConnType ==
  ASSUME PairInv, NEW c \in Conns, conn[c].pc # "idle"
  PROVE  conn[c] \in [pc : {"accepted", "hello", "accept", "agreed"}, peer : Peers,
                      code : 0 .. MaxMints, proof : BOOLEAN]
  BY DEF PairInv, TypeOK, Connection, NoConn

LEMMA ConfirmKeeps ==
  ASSUME PairInv, NEW c \in Conns, NEW guess \in 0 .. Len(granted),
         NEW link \in {"direct", "relayed"}, Confirm(c, guess, link)
  PROVE  PairInv'
  <1>1. CASE conn' = [conn EXCEPT ![c] = NoConn]
    BY <1>1, IdleConn DEF Confirm
  <1>2. CASE conn' # [conn EXCEPT ![c] = NoConn]
    <2> DEFINE x == [conn[c] EXCEPT !.pc = "accept",
                                    !.proof = guess = conn[c].code /\ link = "direct"]
    <2>1. Verify(ExpectedMac(c), FarMac(c, guess, link)) /\ conn' = [conn EXCEPT ![c] = x]
      BY <1>2 DEF Confirm, PairInv, TypeOK
    <2>2. SharedKey(guess, "here", conn[c].peer) = SharedKey(conn[c].code, "here", conn[c].peer)
          /\ Binding(link) = Binding("direct")
      BY <2>1 DEF Verify, ExpectedMac, FarMac, Mac
    <2>3. guess = conn[c].code
      BY <2>2 DEF SharedKey
    <2>4. link = "direct"
      BY <2>2 DEF Binding
    <2>5. conn[c].pc = "hello"
      BY DEF Confirm
    <2>6. conn[c] \in [pc : {"accepted", "hello", "accept", "agreed"}, peer : Peers,
                       code : 0 .. MaxMints, proof : BOOLEAN]
      BY <2>5, ConnType
    <2>7. x = [conn[c] EXCEPT !.pc = "accept", !.proof = TRUE]
      BY <2>3, <2>4
    <2>8. x \in Connection /\ x.pc = "accept" /\ x.proof = TRUE /\ x.code = conn[c].code
      BY <2>6, <2>7 DEF Connection
    <2>9. conn[c].code \in 1 .. Len(granted) /\ handed[conn[c].code] > 0
      BY <2>5 DEF PairInv, ConnInv, Holding
    <2>10. conn' \in [Conns -> Connection] /\ conn'[c] = x
           /\ \A d \in Conns \ {c} : conn'[d] = conn[d]
      BY <2>1, <2>8 DEF PairInv, TypeOK
    <2>11. QED
      BY <2>8, <2>9, <2>10, ConnStep DEF Confirm
  <1>3. QED
    BY <1>1, <1>2

LEMMA AcceptKeyKeeps ==
  ASSUME PairInv, NEW c \in Conns, NEW key, AcceptKey(c, key) PROVE PairInv'
  <1>1. CASE ~KeyMatches(key)
    BY <1>1, IdleConn DEF AcceptKey
  <1>2. CASE KeyMatches(key)
    <2> DEFINE x == [conn[c] EXCEPT !.pc = "agreed"]
    <2>1. conn[c].pc = "accept" /\ conn' = [conn EXCEPT ![c] = x]
      BY <1>2 DEF AcceptKey, PairInv, TypeOK
    <2>2. conn[c] \in [pc : {"accepted", "hello", "accept", "agreed"}, peer : Peers,
                       code : 0 .. MaxMints, proof : BOOLEAN]
      BY <2>1, ConnType
    <2>3. x \in Connection /\ x.pc = "agreed" /\ x.proof = conn[c].proof /\ x.code = conn[c].code
      BY <2>2 DEF Connection
    <2>4. conn[c].proof /\ conn[c].code \in 1 .. Len(granted) /\ handed[conn[c].code] > 0
      BY <2>1 DEF PairInv, ConnInv, Holding
    <2>5. conn' \in [Conns -> Connection] /\ conn'[c] = x
          /\ \A d \in Conns \ {c} : conn'[d] = conn[d]
      BY <2>1, <2>3 DEF PairInv, TypeOK
    <2>6. QED
      BY <2>3, <2>4, <2>5, ConnStep DEF AcceptKey
  <1>3. QED
    BY <1>1, <1>2
(* A caller that gets no attempt leaves the window as it is, or clears a   *)
(* slot whose invitation has expired.                                      *)
LEMMA NoAttempt ==
  ASSUME PairInv, BeginAttempt.code = 0
  PROVE  BeginAttempt.slot = window \/ (BeginAttempt.slot = NoWindow /\ window # NoWindow /\ window.expired)
  BY DEF BeginAttempt, PairInv, TypeOK, Window, Invs

(* One that does is charged for it before the ceremony runs. *)
LEMMA Attempt ==
  ASSUME PairInv, BeginAttempt.code # 0
  PROVE  /\ window # NoWindow /\ window \in Window /\ ~window.expired
         /\ window.attempts \in Nat /\ window.attempts < MaxAttempts
         /\ BeginAttempt.code = window.inv /\ BeginAttempt.slot = [window EXCEPT !.attempts = @ + 1]
  <1>1. window # NoWindow /\ window \in Window
    BY DEF BeginAttempt, PairInv, TypeOK
  <1>2. window.attempts \in 0 .. MaxAttempts
    BY <1>1 DEF Window
  <1>3. QED
    BY <1>1, <1>2, AttemptsAssumption DEF BeginAttempt

LEMMA ServeKeeps ==
  ASSUME PairInv, NEW c \in Conns, ServeJoin(c) PROVE PairInv'
  <1> USE AttemptsAssumption, MintsAssumption
  <1>1. CASE Pinned(conn[c].peer)
    BY <1>1, IdleConn DEF ServeJoin
  <1>2. CASE ~Pinned(conn[c].peer) /\ BeginAttempt.code = 0
    <2>1. /\ conn' = [conn EXCEPT ![c] = NoConn] /\ window' = BeginAttempt.slot
          /\ UNCHANGED <<handed, granted, spends, closed, pins, rmw, pending, offer, proved>>
      BY <1>2 DEF ServeJoin
    <2>2. CASE window' = window
      BY <2>1, <2>2, IdleConn
    <2>3. CASE window' = NoWindow /\ window # NoWindow /\ window.expired
      <3>1. CodeInv'
        BY <2>1, <2>3 DEF PairInv, CodeInv, WindowInv, GuessBudget, SpentOnce, AdmittedByCode
      <3>2. conn' \in [Conns -> Connection] /\ conn'[c].pc = "idle"
            /\ \A d \in Conns \ {c} : conn'[d] = conn[d]
        BY <2>1 DEF PairInv, TypeOK, NoConn, Connection
      <3>3. ConnInv'
        BY <2>1, <3>2 DEF PairInv, ConnInv, Holding
      <3>4. RmwInv' /\ HumanInv' /\ TrustNeedsProof'
        BY <2>1, RmwKept, HumanFrame, TrustFrame DEF PairInv
      <3>5. TypeOK'
        BY <2>1, <2>3, <3>2, <3>4, TypeStep DEF PairInv, TypeOK, Window
      <3>6. QED
        BY <3>1, <3>3, <3>4, <3>5 DEF PairInv, CodeInv
    <2>4. QED
      BY <1>2, <2>1, <2>2, <2>3, NoAttempt
  <1>3. CASE ~Pinned(conn[c].peer) /\ BeginAttempt.code # 0
    <2> DEFINE x == [conn[c] EXCEPT !.pc = "hello", !.code = window.inv]
               i == window.inv
    <2>1. /\ window # NoWindow /\ window \in Window /\ ~window.expired
          /\ window.attempts \in Nat /\ window.attempts < MaxAttempts
          /\ BeginAttempt.code = i /\ BeginAttempt.slot = [window EXCEPT !.attempts = @ + 1]
      BY <1>3, Attempt
    <2>2. /\ window' = [window EXCEPT !.attempts = @ + 1]
          /\ handed' = [handed EXCEPT ![i] = @ + 1]
          /\ UNCHANGED <<granted, spends, closed, pins, rmw, pending, offer, proved>>
          /\ conn[c].pc = "accepted"
      BY <1>3, <2>1 DEF ServeJoin
    <2>3. conn' = [conn EXCEPT ![c] = x]
      BY <1>3, <2>1 DEF ServeJoin, PairInv, TypeOK
    <2>4. i \in Invs /\ i \in 1 .. Len(granted) /\ i = Len(granted) /\ i \in 0 .. MaxMints
          /\ handed[i] = window.attempts /\ i \notin closed
      BY <2>1 DEF PairInv, WindowInv, TypeOK, Window, Invs
    <2>5. window' \in Window /\ window' # NoWindow /\ window'.inv = i /\ ~window'.expired
          /\ window'.attempts = window.attempts + 1
      BY <2>1, <2>2, <2>4 DEF Window, NoWindow, Invs
    <2>6. handed' \in [Invs -> Nat] /\ handed'[i] = handed[i] + 1
          /\ \A j \in Invs \ {i} : handed'[j] = handed[j]
      BY <2>2, <2>4 DEF PairInv, TypeOK
    <2>7. WindowInv'
      BY <2>2, <2>4, <2>5, <2>6 DEF PairInv, WindowInv
    <2>8. GuessBudget' /\ SpentOnce' /\ AdmittedByCode'
      <3>1. \A j \in Invs : handed[j] \in Nat /\ (handed[j] > 0 => handed'[j] > 0)
        <4>1. handed \in [Invs -> Nat]
          BY DEF PairInv, TypeOK
        <4>2. QED
          BY <2>4, <2>6, <4>1
      <3>2. AdmittedByCode'
        BY <2>2, <3>1 DEF PairInv, TypeOK, AdmittedByCode, Invs
      <3>3. QED
        BY <2>1, <2>2, <2>4, <2>6, <3>2 DEF PairInv, GuessBudget, SpentOnce
    <2>9. x \in Connection /\ x.pc = "hello" /\ x.code = i
      <3>1. conn[c] \in [pc : {"accepted", "hello", "accept", "agreed"}, peer : Peers,
                         code : 0 .. MaxMints, proof : BOOLEAN]
        BY <2>2, ConnType
      <3>2. QED
        BY <2>4, <3>1 DEF Connection
    <2>10. conn' \in [Conns -> Connection] /\ conn'[c] = x
           /\ \A d \in Conns \ {c} : conn'[d] = conn[d]
      BY <2>3, <2>9 DEF PairInv, TypeOK
    <2>11. ConnInv'
      <3>1. \A j \in 1 .. Len(granted) : handed[j] > 0 => handed'[j] > 0
        BY <2>2, <2>4, <2>6 DEF PairInv, TypeOK, Invs
      <3>2. handed'[i] > 0
        BY <2>1, <2>4, <2>6
      <3>3. QED
        BY ZenonT(60), <2>2, <2>4, <2>9, <2>10, <3>1, <3>2 DEF PairInv, ConnInv, Holding
    <2>12. RmwInv' /\ HumanInv' /\ TrustNeedsProof'
      BY <2>2, RmwKept, HumanFrame, TrustFrame DEF PairInv
    <2>13. TypeOK'
      BY <2>2, <2>5, <2>6, <2>10, <2>12, TypeStep DEF PairInv, TypeOK
    <2>14. QED
      BY <2>7, <2>8, <2>11, <2>12, <2>13 DEF PairInv, CodeInv
  <1>4. QED
    BY <1>1, <1>2, <1>3

LEMMA ConsumeKeeps ==
  ASSUME PairInv, NEW c \in Conns, Consume(c) PROVE PairInv'
  <1> USE AttemptsAssumption, MintsAssumption
  <1>1. CASE window = NoWindow
    BY <1>1, IdleConn DEF Consume, Taken
  <1>2. CASE window # NoWindow
    <2> DEFINE i == window.inv
    <2>1. /\ conn[c].pc = "agreed" /\ conn' = [conn EXCEPT ![c] = NoConn] /\ window' = NoWindow
          /\ spends' = [spends EXCEPT ![i] = Append(@, conn[c].code)] /\ closed' = closed \cup {i}
          /\ rmw' = [rmw EXCEPT ![c] =
                       Recording(conn[c].peer, window.allow, FALSE, NoRmw, conn[c].code)]
          /\ proved' = IF conn[c].proof THEN proved \cup {conn[c].peer} ELSE proved
          /\ UNCHANGED <<granted, handed, pins, pending, offer>>
      BY <1>2 DEF Consume, Taken
    <2>2. i \in Invs /\ i = Len(granted) /\ i \in 1 .. Len(granted) /\ spends[i] = <<>>
          /\ window.allow \in BOOLEAN
      BY <1>2 DEF PairInv, WindowInv, TypeOK, Window, Invs
    <2>3. conn[c].peer \in Peers /\ conn[c].proof
          /\ conn[c].code \in 1 .. i /\ handed[conn[c].code] > 0
      BY <2>1, <2>2, ConnType DEF PairInv, ConnInv, Holding
    <2>4. proved' = proved \cup {conn[c].peer}
      BY <2>1, <2>3
    <2>5. spends' \in [Invs -> Seq(Invs)] /\ spends'[i] = <<conn[c].code>>
          /\ \A j \in Invs \ {i} : spends'[j] = spends[j]
      <3>1. conn[c].code \in Invs
        BY <2>2, <2>3 DEF Invs
      <3>2. Append(spends[i], conn[c].code) = <<conn[c].code>>
        BY <2>2
      <3>3. <<conn[c].code>> \in Seq(Invs)
        BY <3>1
      <3>4. QED
        BY <2>1, <2>2, <3>2, <3>3 DEF PairInv, TypeOK
    <2>6. closed' \subseteq 1 .. Len(granted) /\ closed' \subseteq Invs
          /\ \A j \in 1 .. Len(granted) : j \in closed'
      BY <2>1, <2>2 DEF PairInv, WindowInv, TypeOK
    <2>7. WindowInv'
      BY <2>1, <2>2, <2>5, <2>6 DEF PairInv, WindowInv
    <2>8. GuessBudget' /\ SpentOnce' /\ AdmittedByCode'
      <3>1. Len(spends'[i]) = 1 /\ spends'[i][1] = conn[c].code
        BY <2>5
      <3>2. SpentOnce'
        <4>1. \A j \in Invs : j = i \/ j \in Invs \ {i}
          OBVIOUS
        <4>2. \A j \in Invs \ {i} : Len(spends'[j]) <= 1
          BY <2>5 DEF PairInv, SpentOnce
        <4>3. Len(spends'[i]) <= 1
          BY <3>1
        <4>4. QED
          BY <4>1, <4>2, <4>3 DEF SpentOnce
      <3>3. AdmittedByCode'
        BY <2>1, <2>3, <2>5, <3>1 DEF PairInv, AdmittedByCode
      <3>4. QED
        BY <2>1, <3>2, <3>3 DEF PairInv, GuessBudget
    <2>9. conn' \in [Conns -> Connection] /\ conn'[c].pc = "idle"
          /\ \A d \in Conns \ {c} : conn'[d] = conn[d]
      BY <2>1 DEF PairInv, TypeOK, NoConn, Connection
    <2>10. ConnInv'
      BY <2>1, <2>9 DEF PairInv, ConnInv, Holding
    <2>11. RmwInv'
      <3>1. RmwOK(Recording(conn[c].peer, window.allow, FALSE, NoRmw, conn[c].code), proved')
        BY <2>2, <2>3, <2>4, RecordingOK DEF NextOK
      <3>2. QED
        BY <2>1, <2>4, <3>1, RmwStep DEF PairInv, Writers
    <2>12. HumanInv' /\ TrustNeedsProof'
      BY <2>1, <2>4, HumanFrame, TrustFrame DEF PairInv
    <2>13. TypeOK'
      BY <2>1, <2>3, <2>4, <2>5, <2>6, <2>9, <2>11, TypeStep DEF PairInv, TypeOK, Window
    <2>14. QED
      BY <2>7, <2>8, <2>10, <2>11, <2>12, <2>13 DEF PairInv, CodeInv
  <1>3. QED
    BY <1>1, <1>2

-----------------------------------------------------------------------------
(* The pin file *)

LEMMA WriteKeeps ==
  ASSUME PairInv, NEW w \in Writers, PinWrite(w) PROVE PairInv'
  <1> DEFINE o == rmw[w]
  <1>1. RmwOK(o, proved)
    BY DEF PairInv, RmwInv
  <1>2. UNCHANGED <<window, granted, handed, spends, closed, conn, pending, offer, proved>>
    BY DEF PinWrite, Load, Save, SaveFails
  <1>3. CodeInv' /\ ConnInv' /\ HumanInv'
    BY <1>2, CodeFrame, ConnFrame, HumanFrame DEF PairInv, CodeInv
  <1>4. RmwInv' /\ pins' \in PinFile /\ TrustNeedsProof'
    <2>1. CASE rmw' = [rmw EXCEPT ![w] = NoRmw] /\ pins' = pins
      BY <1>2, <2>1, NoRmwOK, RmwStep, TrustFrame DEF PairInv, TypeOK
    <2>2. CASE Load(w) /\ Saves(o, pins)
      <3> DEFINE x == [pc |-> "save", op |-> o.op, node |-> o.node,
                       file |-> Edited(o, pins), next |-> o.next]
      <3>1. o.pc = "load" /\ rmw' = [rmw EXCEPT ![w] = x] /\ pins' = pins
        BY <2>2 DEF Load, PairInv, RmwInv
      <3>2. LoadOK(o, proved)
        BY <1>1, <3>1 DEF RmwOK, SaveOK, NoRmw
      <3>3. /\ Edited(o, pins) \in PinFile
            /\ \A p \in Peers : Edited(o, pins)[p] # NoPin => p \in proved
        BY <2>2, <3>2, EditedOK DEF PairInv, TypeOK, TrustNeedsProof, Pinned
      <3>4. RmwOK(x, proved')
        BY <1>2, <3>2, <3>3 DEF RmwOK, SaveOK, LoadOK
      <3>5. QED
        BY <1>2, <3>1, <3>4, RmwStep, TrustFrame DEF PairInv, TypeOK
    <2>3. CASE Save(w)
      <3>1. o.pc = "save" /\ rmw' = [rmw EXCEPT ![w] = o.next] /\ pins' = o.file
        BY <2>3 DEF Save, PairInv, RmwInv
      <3>2. SaveOK(o, proved)
        BY <1>1, <3>1 DEF RmwOK, LoadOK, NoRmw
      <3>3. RmwOK(o.next, proved')
        <4>1. CASE o.next = NoRmw
          BY <4>1, NoRmwOK
        <4>2. ASSUME NEW p \in Peers, o.next = Op("grant", p, "bench", NoRmw)
              PROVE  RmwOK(o.next, proved')
          <5>1. LoadOK(Op("grant", p, "bench", NoRmw), proved')
            BY DEF LoadOK, Op, Rights, NextOK
          <5>2. QED
            BY <4>2, <5>1 DEF RmwOK
        <4>3. QED
          BY <3>2, <4>1, <4>2 DEF SaveOK, NextOK
      <3>4. QED
        BY <1>2, <3>1, <3>2, <3>3, RmwStep DEF PairInv, SaveOK, TrustNeedsProof, Pinned
    <2>4. QED
      BY <2>1, <2>2, <2>3 DEF PinWrite, Load, SaveFails
  <1>5. TypeOK'
    BY <1>2, <1>4, TypeStep DEF PairInv, TypeOK
  <1>6. QED
    BY <1>3, <1>4, <1>5 DEF PairInv, CodeInv
(* The owner begins an operation on the file. *)
LEMMA StartKeeps ==
  ASSUME PairInv, NEW w \in Writers, NEW o, Start(w, o), RmwOK(o, proved'),
         proved \subseteq proved', proved' \subseteq Peers, HumanInv',
         UNCHANGED <<window, granted, handed, spends, closed, conn, pins>>
  PROVE  PairInv'
  <1>1. RmwInv'
    BY RmwStep DEF PairInv, Start
  <1>2. CodeInv' /\ ConnInv' /\ TrustNeedsProof'
    BY CodeFrame, ConnFrame, TrustFrame DEF PairInv, CodeInv
  <1>3. TypeOK'
    BY <1>1, TypeStep DEF PairInv, TypeOK
  <1>4. QED
    BY <1>1, <1>2, <1>3 DEF PairInv, CodeInv

LEMMA RememberKeeps ==
  ASSUME PairInv, NEW p \in Peers, RememberAddress(p) PROVE PairInv'
  <1> DEFINE o == Op("address", p, [pins[p] EXCEPT !.addr = TRUE], NoRmw)
  <1>1. pins[p] \in Pin /\ p \in proved
    BY DEF RememberAddress, PairInv, TypeOK, PinFile, Pinned, TrustNeedsProof
  <1>2. [pins[p] EXCEPT !.addr = TRUE] \in Pin
    BY <1>1 DEF Pin
  <1>3. RmwOK(o, proved)
    BY <1>1, <1>2 DEF Op, RmwOK, LoadOK, NextOK
  <1>4. HumanInv'
    BY HumanFrame DEF PairInv, RememberAddress
  <1>5. "poll" \in Writers
    BY DEF Writers
  <1>6. QED
    BY <1>3, <1>4, <1>5, StartKeeps DEF RememberAddress, PairInv, TypeOK

LEMMA CommandKeeps ==
  ASSUME PairInv, NEW p \in Peers, NEW op \in {"grant", "revoke", "remove"}, NEW r \in Rights,
         PeerCommand(p, op, r)
  PROVE  PairInv'
  <1>1. RmwOK(Op(op, p, r, NoRmw), proved)
    BY DEF Op, RmwOK, LoadOK, NextOK
  <1>2. HumanInv'
    BY HumanFrame DEF PairInv, PeerCommand
  <1>3. "cli" \in Writers
    BY DEF Writers
  <1>4. QED
    BY <1>1, <1>2, <1>3, StartKeeps DEF PeerCommand, PairInv, TypeOK

LEMMA UnpairKeeps ==
  ASSUME PairInv, NEW p \in Peers, Unpair(p) PROVE PairInv'
  <1>1. RmwOK(Op("remove", p, "none", NoRmw), proved)
    BY DEF Op, RmwOK, LoadOK, NextOK
  <1>2. HumanInv'
    BY HumanFrame DEF PairInv, Unpair
  <1>3. "session" \in Writers
    BY DEF Writers
  <1>4. QED
    BY <1>1, <1>2, <1>3, StartKeeps DEF Unpair, PairInv, TypeOK

LEMMA DialKeeps ==
  ASSUME PairInv, NEW p \in Peers, NEW allow \in BOOLEAN, NEW next, NextOK(next),
         DialAndPair(p, allow, next)
  PROVE  PairInv'
  <1>1. proved' = proved \cup {p} /\ proved' \subseteq Peers
    BY DEF DialAndPair, PairInv, TypeOK
  <1>2. RmwOK(Recording(p, allow, TRUE, next, 0), proved')
    BY <1>1, RecordingOK
  <1>3. HumanInv'
    BY <1>1, HumanFrame DEF PairInv, DialAndPair
  <1>4. "cli" \in Writers
    BY DEF Writers
  <1>5. QED
    BY <1>1, <1>2, <1>3, <1>4, StartKeeps DEF DialAndPair

-----------------------------------------------------------------------------
(* The browser and `agent pair' *)

(* A step of the two exchanges that wait for a human, and of nothing else. *)
LEMMA HumanStep ==
  ASSUME PairInv, HumanInv', proved \subseteq proved', proved' \subseteq Peers,
         UNCHANGED <<window, granted, handed, spends, closed, conn, pins, rmw>>
  PROVE  PairInv'
  <1>1. CodeInv' /\ ConnInv' /\ RmwInv' /\ TrustNeedsProof'
    BY CodeFrame, ConnFrame, RmwKept, TrustFrame DEF PairInv, CodeInv
  <1>2. TypeOK'
    BY <1>1, TypeStep DEF PairInv, TypeOK
  <1>3. QED
    BY <1>1, <1>2 DEF PairInv, CodeInv

(* Only the machine that answered is offered to the human. *)
LEMMA PairPeerKeeps ==
  ASSUME PairInv, NEW want \in Peers \cup {"any"}, NEW met \in Peers \cup {"none"},
         PairPeer(want, met)
  PROVE  PairInv'
  <1>1. proved' = proved \cup ({met} \ {"none"}) /\ proved' \subseteq Peers
    BY DEF PairPeer, PairInv, TypeOK
  <1>2. pending' # NoPending => pending'.node \in proved'
    BY <1>1 DEF PairPeer, Outcome, NoPending
  <1>3. HumanInv'
    BY <1>1, <1>2 DEF PairPeer, PairInv, HumanInv
  <1>4. QED
    BY <1>1, <1>3, HumanStep DEF PairPeer

LEMMA ConfirmPairingKeeps ==
  ASSUME PairInv, NEW p \in Peers, NEW allow \in BOOLEAN, NEW inTime \in BOOLEAN,
         ConfirmPairing(p, allow, inTime)
  PROVE  PairInv'
  <1>1. HumanInv'
    BY DEF ConfirmPairing, PairInv, HumanInv
  <1>2. CASE pending.node = p /\ inTime
    <2>1. p \in proved
      BY <1>2 DEF ConfirmPairing, PairInv, HumanInv
    <2>2. RmwOK(Recording(p, allow, TRUE, NoRmw, 0), proved)
      BY <2>1, RecordingOK DEF NextOK
    <2>3. "session" \in Writers
      BY DEF Writers
    <2>4. RmwInv'
      BY <1>2, <2>2, <2>3, RmwStep DEF ConfirmPairing, PairInv
    <2>5. CodeInv' /\ ConnInv' /\ TrustNeedsProof'
      BY CodeFrame, ConnFrame, TrustFrame DEF PairInv, CodeInv, ConfirmPairing
    <2>6. TypeOK'
      BY <2>4, TypeStep DEF PairInv, TypeOK, ConfirmPairing
    <2>7. QED
      BY <1>1, <2>4, <2>5, <2>6 DEF PairInv, CodeInv
  <1>3. CASE ~(pending.node = p /\ inTime)
    BY <1>1, <1>3, HumanStep DEF ConfirmPairing, PairInv, TypeOK
  <1>4. QED
    BY <1>2, <1>3

LEMMA RejectKeeps == ASSUME PairInv, RejectPairing PROVE PairInv'
  BY HumanStep DEF RejectPairing, PairInv, HumanInv, TypeOK

LEMMA PairCommandKeeps == ASSUME PairInv, PairCommand PROVE PairInv'
  BY HumanStep DEF PairCommand, PairInv, HumanInv, TypeOK

LEMMA OfferEndsKeeps == ASSUME PairInv, OfferEnds PROVE PairInv'
  BY HumanStep DEF OfferEnds, PairInv, HumanInv, TypeOK, NoOffer

LEMMA OfferAttemptKeeps ==
  ASSUME PairInv, NEW p \in Peers, NEW right \in BOOLEAN, OfferAttempt(p, right) PROVE PairInv'
  <1>1. offer \in [pc : {"waiting", "prompt"}, spent : Nat, peer : Peers \cup {"none"}]
        /\ offer.pc = "waiting"
    BY DEF OfferAttempt, PairInv, HumanInv, NoOffer
  <1>2. CASE right
    <2>1. proved' = proved \cup {p} /\ offer' = [offer EXCEPT !.pc = "prompt", !.peer = p]
          /\ pending' = pending
      BY <1>2 DEF OfferAttempt
    <2>2. HumanInv'
      BY <1>1, <2>1 DEF PairInv, HumanInv
    <2>3. QED
      BY <2>1, <2>2, HumanStep DEF PairInv, TypeOK, OfferAttempt
  <1>3. CASE ~right
    <2>1. HumanInv'
      BY <1>1, <1>3 DEF PairInv, HumanInv, OfferAttempt, NoOffer
    <2>2. QED
      BY <1>3, <2>1, HumanStep DEF PairInv, TypeOK, OfferAttempt
  <1>4. QED
    BY <1>2, <1>3

LEMMA OfferYesKeeps == ASSUME PairInv, OfferYes PROVE PairInv'
  <1>1. offer.peer \in proved /\ offer.peer \in Peers
    BY DEF OfferYes, PairInv, HumanInv, TypeOK
  <1>2. RmwOK(Recording(offer.peer, FALSE, FALSE, NoRmw, 0), proved)
    BY <1>1, RecordingOK DEF NextOK
  <1>3. HumanInv'
    BY DEF OfferYes, PairInv, HumanInv, NoOffer
  <1>4. "cli" \in Writers
    BY DEF Writers
  <1>5. QED
    BY <1>2, <1>3, <1>4, StartKeeps DEF OfferYes, PairInv, TypeOK
-----------------------------------------------------------------------------
(* The specification *)

LEMMA InitPair == Init => PairInv
  <1> USE AttemptsAssumption, MintsAssumption
  <1> SUFFICES ASSUME Init PROVE PairInv
    OBVIOUS
  <1>1. HumanInv /\ ConnInv /\ TrustNeedsProof
    BY DEF Init, HumanInv, ConnInv, TrustNeedsProof, Pinned, NoPending, NoOffer, NoConn, Holding
  <1>2. RmwInv
    BY NoRmwOK DEF Init, RmwInv
  <1>3. WindowInv /\ GuessBudget /\ SpentOnce /\ AdmittedByCode
    BY DEF Init, WindowInv, GuessBudget, SpentOnce, AdmittedByCode
  <1>4. TypeOK
    BY DEF Init, TypeOK, Window, Connection, PinFile, NoRmw
  <1>5. QED
    BY <1>1, <1>2, <1>3, <1>4 DEF PairInv

LEMMA CeremonyKeeps ==
  ASSUME PairInv, NEW c \in Conns, Ceremony(c) PROVE PairInv'
  <1>1. CASE ServeJoin(c) BY <1>1, ServeKeeps
  <1>2. ASSUME NEW guess \in 0 .. Len(granted), NEW link \in {"direct", "relayed"},
               Confirm(c, guess, link)
        PROVE  PairInv'
    BY <1>2, ConfirmKeeps
  <1>3. ASSUME NEW key, AcceptKey(c, key) PROVE PairInv'
    BY <1>3, AcceptKeyKeeps
  <1>4. CASE Consume(c) BY <1>4, ConsumeKeeps
  <1>5. CASE Hangup(c) BY <1>5, IdleConn DEF Hangup
  <1>6. QED
    BY <1>1, <1>2, <1>3, <1>4, <1>5 DEF Ceremony

LEMMA NextPair == ASSUME PairInv, Next PROVE PairInv'
  <1>1. ASSUME NEW allow \in BOOLEAN, MintJoin(allow) PROVE PairInv'
    BY <1>1, MintKeeps
  <1>2. CASE RevokeJoin BY <1>2, RevokeKeeps
  <1>3. CASE WindowExpires BY <1>3, ExpireKeeps
  <1>4. ASSUME NEW c \in Conns, NEW p \in Peers, Accept(c, p) PROVE PairInv'
    BY <1>4, AcceptKeeps
  <1>5. ASSUME NEW c \in Conns, Ceremony(c) PROVE PairInv'
    BY <1>5, CeremonyKeeps
  <1>6. ASSUME NEW w \in Writers, PinWrite(w) PROVE PairInv'
    BY <1>6, WriteKeeps
  <1>7. ASSUME NEW p \in Peers, RememberAddress(p) PROVE PairInv'
    BY <1>7, RememberKeeps
  <1>8. ASSUME NEW p \in Peers, NEW op \in {"grant", "revoke", "remove"}, NEW r \in Rights,
               PeerCommand(p, op, r)
        PROVE  PairInv'
    BY <1>8, CommandKeeps
  <1>9. ASSUME NEW want \in Peers \cup {"any"}, NEW met \in Peers \cup {"none"},
               PairPeer(want, met)
        PROVE  PairInv'
    BY <1>9, PairPeerKeeps
  <1>10. ASSUME NEW p \in Peers, NEW allow \in BOOLEAN, NEW inTime \in BOOLEAN,
                ConfirmPairing(p, allow, inTime)
         PROVE  PairInv'
    BY <1>10, ConfirmPairingKeeps
  <1>11. ASSUME NEW p \in Peers, Unpair(p) PROVE PairInv'
    BY <1>11, UnpairKeeps
  <1>12. ASSUME NEW p \in Peers, NEW right \in BOOLEAN, OfferAttempt(p, right) PROVE PairInv'
    BY <1>12, OfferAttemptKeeps
  <1>13. ASSUME NEW p \in Peers, PeerAdd(p) PROVE PairInv'
    BY <1>13, DialKeeps DEF PeerAdd, NextOK
  <1>14. ASSUME NEW p \in Peers, NEW allow \in BOOLEAN, NEW bench \in BOOLEAN,
                JoinFleet(p, allow, bench)
         PROVE  PairInv'
    <2>1. NextOK(IF bench THEN Op("grant", p, "bench", NoRmw) ELSE NoRmw)
      BY DEF NextOK
    <2>2. QED
      BY <1>14, <2>1, DialKeeps DEF JoinFleet
  <1>15. QED
    BY <1>1, <1>2, <1>3, <1>4, <1>5, <1>6, <1>7, <1>8, <1>9, <1>10, <1>11, <1>12, <1>13, <1>14,
       RejectKeeps, PairCommandKeeps, OfferEndsKeeps, OfferYesKeeps
    DEF Next

LEMMA StutterPair == ASSUME PairInv, UNCHANGED vars PROVE PairInv'
  <1>1. CodeInv' /\ ConnInv' /\ RmwInv' /\ HumanInv' /\ TrustNeedsProof'
    BY CodeFrame, ConnFrame, RmwKept, HumanFrame, TrustFrame DEF PairInv, CodeInv, vars
  <1>2. TypeOK'
    BY <1>1, TypeStep DEF PairInv, TypeOK, vars
  <1>3. QED
    BY <1>1, <1>2 DEF PairInv, CodeInv

(* The invariant holds in every state of one machine's pairing             *)
(* (joining.rs, daemon/join.rs, identity.rs and their callers).            *)
THEOREM PairInvariant == Spec => []PairInv
  <1>1. PairInv /\ [Next]_vars => PairInv'
    BY NextPair, StutterPair
  <1>2. QED
    BY InitPair, <1>1, PTL DEF Spec

(* An invitation's code is handed to at most MAX_ATTEMPTS ceremonies, and  *)
(* the invitation admits one machine, which proved its code or that of an  *)
(* earlier one, however many race for it (joining.rs, begin_attempt and    *)
(* consume).                                                               *)
THEOREM InvitationsAdmitOneMachine == Spec => []CodesAreSpent
  <1>1. PairInv => CodesAreSpent
    BY DEF PairInv, CodesAreSpent
  <1>2. QED
    BY PairInvariant, <1>1, PTL

(* A ceremony that reserved an attempt finds its invitation in the slot    *)
(* until somebody replaces, revokes or uses it or it expires: a late       *)
(* caller takes it from nobody (joining.rs, begin_attempt).                *)
THEOREM WinnersKeepTheirInvitation == Spec => []WinnerNotEvicted
  <1>1. PairInv => WinnerNotEvicted
    BY DEF PairInv, WinnerNotEvicted, WindowInv, ConnInv
  <1>2. QED
    BY PairInvariant, <1>1, PTL

(* Only a machine that proved the code is in the pin file, whatever copies *)
(* of it are saved over each other (identity.rs; fleet/pinning.rs).        *)
THEOREM OnlyTheProvedAreTrusted == Spec => []TrustNeedsProof
  <1>1. PairInv => TrustNeedsProof
    BY DEF PairInv
  <1>2. QED
    BY PairInvariant, <1>1, PTL

-----------------------------------------------------------------------------
(* The window and the pin file keep what an invitation promises *)

LEMMA LedgerQuiet ==
  ASSUME UNCHANGED <<window, granted, handed, spends, closed, pins, proved>>
  PROVE  UNCHANGED Ledger!vars
  BY DEF Ledger!vars, Pinned

LEMMA LedgerProves ==
  ASSUME NEW m \in Peers, proved' = proved \cup {m},
         UNCHANGED <<window, granted, handed, spends, closed, pins>>
  PROVE  Ledger!Next
  <1>1. Ledger!Prove(m)
    BY DEF Ledger!Prove, Pinned
  <1>2. QED
    BY <1>1 DEF Ledger!Next

(* The slot as the ledger sees it: a number, 0 when it is empty. *)
LEMMA SlotFacts ==
  ASSUME PairInv
  PROVE  /\ window = NoWindow => window.inv = 0
         /\ window # NoWindow =>
              /\ window.inv \in Invs /\ window.inv # 0
              /\ window.inv = Len(granted)
              /\ spends[window.inv] = <<>>
              /\ handed[window.inv] = window.attempts
              /\ window.expired <=> window.inv \in closed
         /\ Len(granted) \in Nat
  <1>1. window = NoWindow => window.inv = 0
    BY DEF NoWindow
  <1>2. window # NoWindow => window.inv \in Invs
    BY DEF PairInv, TypeOK, Window
  <1>3. \A i \in Invs : i # 0
    BY MintsAssumption DEF Invs
  <1>4. Len(granted) \in Nat
    BY DEF PairInv, TypeOK
  <1>5. QED
    BY <1>1, <1>2, <1>3, <1>4 DEF PairInv, WindowInv

LEMMA MintIsMint ==
  ASSUME PairInv, NEW allow \in BOOLEAN, MintJoin(allow) PROVE Ledger!Next
  <1>1. granted' = Append(granted, allow) /\ closed' = closed \cup Retire
        /\ window' = Mint(allow) /\ UNCHANGED <<handed, spends, pins, proved>>
        /\ Len(granted) < MaxMints
    BY DEF MintJoin
  <1>2. Len(granted') = Len(granted) + 1
    BY <1>1 DEF PairInv, TypeOK
  <1>3. Retire = {window.inv} \ {0}
    BY SlotFacts DEF Retire
  <1>4. Len(granted') \in Invs
    BY <1>1, <1>2, SlotFacts, MintsAssumption DEF Invs
  <1>5. window'.inv = Len(granted')
    BY <1>1, <1>2 DEF Mint
  <1>6. Ledger!Mint
    BY <1>1, <1>2, <1>3, <1>4, <1>5 DEF Ledger!Mint, Pinned
  <1>7. QED
    BY <1>6 DEF Ledger!Next

LEMMA RevokeIsClose == ASSUME PairInv, RevokeJoin PROVE Ledger!Next
  <1>1. window # NoWindow /\ window' = NoWindow /\ closed' = closed \cup {window.inv}
        /\ UNCHANGED <<granted, handed, spends, pins, proved>>
    BY DEF RevokeJoin, Retire
  <1>2. window'.inv = 0
    BY <1>1 DEF NoWindow
  <1>3. Ledger!Close
    BY <1>1, <1>2, SlotFacts DEF Ledger!Close, Pinned
  <1>4. QED
    BY <1>3 DEF Ledger!Next

LEMMA ExpiryIsClose == ASSUME PairInv, WindowExpires PROVE Ledger!Next
  <1>1. window # NoWindow /\ window' = [window EXCEPT !.expired = TRUE]
        /\ closed' = closed \cup {window.inv}
        /\ UNCHANGED <<granted, handed, spends, pins, proved>>
    BY DEF WindowExpires
  <1>2. window \in [inv: Invs, attempts: 0 .. MaxAttempts, allow: BOOLEAN, expired: BOOLEAN]
    BY <1>1 DEF PairInv, TypeOK, Window
  <1>3. window'.inv = window.inv
    BY <1>1, <1>2
  <1>4. Ledger!Close
    BY <1>1, <1>3, SlotFacts DEF Ledger!Close, Pinned
  <1>5. QED
    BY <1>4 DEF Ledger!Next

(* A caller reserves an attempt on an open invitation, finds the slot as   *)
(* it was, or clears it of one that has expired and so is closed already.  *)
LEMMA ServeIsHandOut ==
  ASSUME PairInv, NEW c \in Conns, ServeJoin(c)
  PROVE  Ledger!Next \/ UNCHANGED Ledger!vars
  <1>0. UNCHANGED <<granted, spends, closed, pins, proved>>
    BY DEF ServeJoin
  <1>1. CASE Pinned(conn[c].peer)
    BY <1>0, <1>1, LedgerQuiet DEF ServeJoin
  <1>2. CASE ~Pinned(conn[c].peer) /\ BeginAttempt.code = 0
    <2>1. window' = BeginAttempt.slot /\ UNCHANGED handed
      BY <1>2 DEF ServeJoin
    <2>2. CASE window' = window
      BY <1>0, <2>1, <2>2, LedgerQuiet
    <2>3. CASE window' = NoWindow /\ window # NoWindow /\ window.expired
      <3>1. window'.inv = 0 /\ closed = closed \cup {window.inv} /\ window.inv # 0
        BY <2>3, SlotFacts DEF NoWindow
      <3>2. Ledger!Close
        BY <1>0, <2>1, <3>1 DEF Ledger!Close, Pinned
      <3>3. QED
        BY <3>2 DEF Ledger!Next
    <2>4. QED
      BY <1>2, <2>1, <2>2, <2>3, NoAttempt
  <1>3. CASE ~Pinned(conn[c].peer) /\ BeginAttempt.code # 0
    <2>1. /\ window # NoWindow /\ window \in Window /\ ~window.expired
          /\ window.attempts \in Nat /\ window.attempts < MaxAttempts
          /\ BeginAttempt.code = window.inv
          /\ BeginAttempt.slot = [window EXCEPT !.attempts = @ + 1]
      BY <1>3, Attempt
    <2>2. /\ window' = [window EXCEPT !.attempts = @ + 1]
          /\ handed' = [handed EXCEPT ![window.inv] = @ + 1]
      BY <1>3, <2>1 DEF ServeJoin
    <2>3. window'.inv = window.inv
      BY <2>1, <2>2 DEF Window
    <2>4. Ledger!HandOut
      BY <1>0, <2>1, <2>2, <2>3, SlotFacts DEF Ledger!HandOut, Pinned
    <2>5. QED
      BY <2>4 DEF Ledger!Next
  <1>4. QED
    BY <1>1, <1>2, <1>3

LEMMA ConsumeIsAdmit ==
  ASSUME PairInv, NEW c \in Conns, Consume(c)
  PROVE  Ledger!Next \/ UNCHANGED Ledger!vars
  <1>1. CASE window = NoWindow
    BY <1>1, LedgerQuiet DEF Consume, Taken
  <1>2. CASE window # NoWindow
    <2>1. /\ conn[c].pc = "agreed" /\ window' = NoWindow
          /\ spends' = [spends EXCEPT ![window.inv] = Append(@, conn[c].code)]
          /\ closed' = closed \cup {window.inv}
          /\ proved' = IF conn[c].proof THEN proved \cup {conn[c].peer} ELSE proved
          /\ UNCHANGED <<granted, handed, pins>>
      BY <1>2 DEF Consume, Taken
    <2>2. conn[c].peer \in Peers /\ conn[c].proof
          /\ conn[c].code \in 1 .. window.inv /\ handed[conn[c].code] > 0
      BY <1>2, <2>1, SlotFacts, ConnType DEF PairInv, ConnInv, Holding
    <2>3. spends' = [spends EXCEPT ![window.inv] = <<conn[c].code>>]
      <3>1. spends[window.inv] = <<>>
        BY <1>2, SlotFacts
      <3>2. Append(spends[window.inv], conn[c].code) = <<conn[c].code>>
        BY <3>1
      <3>3. QED
        BY <2>1, <3>2
    <2>4. window'.inv = 0
      BY <2>1 DEF NoWindow
    <2>5. Ledger!Admit(conn[c].peer, conn[c].code)
      BY <1>2, <2>1, <2>2, <2>3, <2>4, SlotFacts DEF Ledger!Admit, Pinned
    <2>6. conn[c].code \in Invs
      <3>1. window.inv \in Invs
        BY <1>2, SlotFacts
      <3>2. QED
        BY <2>2, <3>1, MintsAssumption DEF Invs
    <2>7. QED
      BY <2>2, <2>5, <2>6 DEF Ledger!Next
  <1>3. QED
    BY <1>1, <1>2

(* A save writes a copy of the file in which every machine has proved the  *)
(* code, however old the copy is.                                          *)
LEMMA SaveIsTrust ==
  ASSUME PairInv, NEW w \in Writers, Save(w) PROVE Ledger!Next
  <1>1. rmw[w].pc = "save" /\ pins' = rmw[w].file
        /\ UNCHANGED <<window, granted, handed, spends, closed, proved>>
    BY DEF Save
  <1>2. SaveOK(rmw[w], proved)
    BY <1>1 DEF PairInv, RmwInv, RmwOK, NoRmw, LoadOK
  <1> DEFINE T == {p \in Peers : Pinned(p)}'
  <1>3. T \subseteq proved /\ T \in SUBSET Peers
    BY <1>1, <1>2 DEF SaveOK, Pinned
  <1>4. Ledger!Trust(T)
    BY <1>1, <1>3 DEF Ledger!Trust
  <1>5. QED
    BY <1>3, <1>4 DEF Ledger!Next

LEMMA NextIsLedger ==
  ASSUME PairInv, Next PROVE Ledger!Next \/ UNCHANGED Ledger!vars
  <1>1. ASSUME NEW allow \in BOOLEAN, MintJoin(allow) PROVE Ledger!Next
    BY <1>1, MintIsMint
  <1>2. ASSUME NEW c \in Conns, Ceremony(c) PROVE Ledger!Next \/ UNCHANGED Ledger!vars
    <2>1. CASE ServeJoin(c) BY <2>1, ServeIsHandOut
    <2>2. CASE Consume(c) BY <2>2, ConsumeIsAdmit
    <2>3. CASE ~ServeJoin(c) /\ ~Consume(c)
      BY <1>2, <2>3, LedgerQuiet DEF Ceremony, Confirm, AcceptKey, Hangup
    <2>4. QED BY <2>1, <2>2, <2>3
  <1>3. ASSUME NEW w \in Writers, PinWrite(w) PROVE Ledger!Next \/ UNCHANGED Ledger!vars
    <2>1. CASE Save(w) BY <2>1, SaveIsTrust
    <2>2. CASE Load(w) \/ SaveFails(w)
      BY <2>2, LedgerQuiet DEF Load, SaveFails
    <2>3. QED BY <1>3, <2>1, <2>2 DEF PinWrite
  <1>4. ASSUME NEW want \in Peers \cup {"any"}, NEW met \in Peers \cup {"none"},
               PairPeer(want, met)
        PROVE  Ledger!Next \/ UNCHANGED Ledger!vars
    <2>1. UNCHANGED <<window, granted, handed, spends, closed, pins>>
          /\ proved' = proved \cup ({met} \ {"none"})
      BY <1>4 DEF PairPeer
    <2>2. CASE met = "none"
      BY <2>1, <2>2, LedgerQuiet
    <2>3. CASE met # "none"
      BY <2>1, <2>3, LedgerProves
    <2>4. QED BY <2>2, <2>3
  <1>5. ASSUME NEW p \in Peers, NEW right \in BOOLEAN, OfferAttempt(p, right)
        PROVE  Ledger!Next \/ UNCHANGED Ledger!vars
    BY <1>5, LedgerQuiet, LedgerProves DEF OfferAttempt
  <1>6. ASSUME NEW p \in Peers, PeerAdd(p) PROVE Ledger!Next
    BY <1>6, LedgerProves DEF PeerAdd, DialAndPair
  <1>7. ASSUME NEW p \in Peers, NEW allow \in BOOLEAN, NEW bench \in BOOLEAN,
               JoinFleet(p, allow, bench)
        PROVE  Ledger!Next
    BY <1>7, LedgerProves DEF JoinFleet, DialAndPair
  <1>8. ASSUME NEW c \in Conns, NEW p \in Peers, Accept(c, p) PROVE UNCHANGED Ledger!vars
    BY <1>8, LedgerQuiet DEF Accept
  <1>9. ASSUME NEW p \in Peers, RememberAddress(p) \/ Unpair(p) PROVE UNCHANGED Ledger!vars
    BY <1>9, LedgerQuiet DEF RememberAddress, Unpair
  <1>10. ASSUME NEW p \in Peers, NEW op \in {"grant", "revoke", "remove"}, NEW r \in Rights,
                PeerCommand(p, op, r)
         PROVE  UNCHANGED Ledger!vars
    BY <1>10, LedgerQuiet DEF PeerCommand
  <1>11. ASSUME NEW p \in Peers, NEW allow \in BOOLEAN, NEW inTime \in BOOLEAN,
                ConfirmPairing(p, allow, inTime)
         PROVE  UNCHANGED Ledger!vars
    BY <1>11, LedgerQuiet DEF ConfirmPairing
  <1>12. CASE RejectPairing \/ PairCommand \/ OfferEnds \/ OfferYes
    BY <1>12, LedgerQuiet DEF RejectPairing, PairCommand, OfferEnds, OfferYes
  <1>13. QED
    BY <1>1, <1>2, <1>3, <1>4, <1>5, <1>6, <1>7, <1>8, <1>9, <1>10, <1>11, <1>12,
       RevokeIsClose, ExpiryIsClose
    DEF Next

(* The join window, the ceremonies and the pin file with its overtaking    *)
(* writers implement the ledger of invitations: a code is handed out only  *)
(* while it is open and within its budget, an invitation admits one        *)
(* machine, which proved its code or that of an earlier one, and only a    *)
(* machine that proved a code is pinned (joining.rs, daemon/join.rs,       *)
(* identity.rs).                                                           *)
THEOREM PairingKeepsTheLedger == Spec => InvitationsAreKept
  <1>1. Init => Ledger!Init
    BY DEF Init, Ledger!Init, NoWindow, Pinned
  <1>2. PairInv /\ [Next]_vars => [Ledger!Next]_(Ledger!vars)
    BY NextIsLedger, LedgerQuiet DEF vars
  <1>3. QED
    BY PairInvariant, <1>1, <1>2, PTL DEF Spec, Ledger!Spec, InvitationsAreKept
=============================================================================
