------------------------- MODULE BenchJournalProofs -------------------------
(***************************************************************************)
(* For any number of events, crashes, torn writes and dropped links: the   *)
(* journal keeps what was acknowledged, numbered without gaps, and up to   *)
(* the first torn write a follower reads it as a reliable log and stops    *)
(* only at the job's end.                                                  *)
(***************************************************************************)
EXTENDS BenchJournal, WellFoundedInduction, TLAPS

-----------------------------------------------------------------------------
(* What the loop of replay() returns *)

(* A set of naturals has a least element: the induction of this module. *)
LEMMA NatLeast ==
  ASSUME NEW T, T \subseteq Nat, T # {} PROVE \E x \in T : \A y \in T : x <= y
  <1>1. PICK x \in T : \A y \in T : ~(<<y, x>> \in OpToRel(<, Nat))
    BY NatLessThanWellFounded, WFMin, Zenon
  <1>2. \A y \in T : ~(y < x)
    BY <1>1 DEF OpToRel
  <1>3. QED
    BY <1>2

Line == Event \cup {Garbled}

(* What the loop holds after line i, given what it held before. *)
Kept(s, from, i, before) ==
  IF i = 0 THEN <<>> ELSE IF Wanted(s[i], from) THEN Append(before, s[i]) ELSE before

(* The loop runs for n lines. *)
Runs(s, from, n, G) ==
  /\ G \in [0 .. n -> Seq(Line)] /\ G[0] = <<>>
  /\ \A i \in 1 .. n : G[i] = Kept(s, from, i, G[i - 1])

LEMMA LoopRuns ==
  ASSUME NEW s \in Seq(Line), NEW from, NEW n \in 0 .. Len(s)
  PROVE  \E G : Runs(s, from, n, G)
  <1> DEFINE Bad == {k \in 0 .. Len(s) : ~\E G : Runs(s, from, k, G)}
  <1> SUFFICES ASSUME Bad # {} PROVE FALSE
    OBVIOUS
  <1>1. PICK k \in Bad : \A j \in Bad : k <= j
    <2>1. Bad \subseteq Nat
      OBVIOUS
    <2>2. QED
      BY <2>1, NatLeast
  <1>2. CASE k = 0
    <2>1. Runs(s, from, 0, [i \in 0 .. 0 |-> <<>>])
      BY DEF Runs
    <2>2. QED
      BY <1>1, <1>2, <2>1
  <1>3. CASE k # 0
    <2>1. k \in 1 .. Len(s) /\ k - 1 \in 0 .. Len(s) /\ k - 1 \notin Bad
      BY <1>1, <1>3
    <2>2. PICK G : Runs(s, from, k - 1, G)
      BY <2>1
    <2> DEFINE x == Kept(s, from, k, G[k - 1])
               H == [i \in 0 .. k |-> IF i = k THEN x ELSE G[i]]
    <2>3. s[k] \in Line /\ G[k - 1] \in Seq(Line)
      BY <2>1, <2>2 DEF Runs
    <2>4. x \in Seq(Line)
      BY <2>3 DEF Kept
    <2>5. H \in [0 .. k -> Seq(Line)] /\ H[0] = <<>> /\ H[k] = x
          /\ \A i \in 0 .. (k - 1) : H[i] = G[i]
      <3>1. G \in [0 .. (k - 1) -> Seq(Line)] /\ G[0] = <<>>
        BY <2>2 DEF Runs
      <3>2. \A i \in 0 .. k : H[i] \in Seq(Line)
        BY <2>1, <2>4, <3>1
      <3>3. QED
        BY <2>1, <3>1, <3>2
    <2>6. \A i \in 1 .. k : H[i] = Kept(s, from, i, H[i - 1])
      <3> SUFFICES ASSUME NEW i \in 1 .. k PROVE H[i] = Kept(s, from, i, H[i - 1])
        OBVIOUS
      <3> HIDE DEF H
      <3>1. H[i - 1] = G[i - 1]
        BY <2>1, <2>5
      <3>2. CASE i = k
        BY <2>5, <3>1, <3>2
      <3>3. CASE i # k
        BY <2>1, <2>2, <2>5, <3>1, <3>3 DEF Runs
      <3>4. QED
        BY <3>2, <3>3
    <2>7. Runs(s, from, k, H)
      BY <2>5, <2>6 DEF Runs
    <2>8. QED
      BY <1>1, <2>7
  <1>4. QED
    BY <1>2, <1>3

(* So the recursive definition in Selected is well founded. *)
LEMMA SelectedLoop ==
  ASSUME NEW s \in Seq(Line), NEW from
  PROVE  \E F : /\ F[0] = <<>> /\ Selected(s, from) = F[Len(s)]
                /\ \A i \in 1 .. Len(s) : F[i] = Kept(s, from, i, F[i - 1])
  <1> DEFINE Eq(F) == F = [i \in 0 .. Len(s) |->
                             IF i = 0 THEN <<>>
                             ELSE IF Wanted(s[i], from) THEN Append(F[i - 1], s[i])
                             ELSE F[i - 1]]
             K == CHOOSE F : Eq(F)
  <1>1. Len(s) \in Nat
    OBVIOUS
  <1>2. PICK G : Runs(s, from, Len(s), G)
    <2>1. Len(s) \in 0 .. Len(s)
      BY <1>1
    <2>2. QED
      BY <2>1, LoopRuns
  <1>3. Eq(G)
    <2>1. G = [i \in 0 .. Len(s) |-> G[i]]
      BY <1>2 DEF Runs
    <2>2. \A i \in 0 .. Len(s) :
            G[i] = IF i = 0 THEN <<>>
                   ELSE IF Wanted(s[i], from) THEN Append(G[i - 1], s[i])
                   ELSE G[i - 1]
      <3>1. G[0] = <<>> /\ \A i \in 1 .. Len(s) : G[i] = Kept(s, from, i, G[i - 1])
        BY <1>2 DEF Runs
      <3>2. ASSUME NEW i \in 0 .. Len(s), i # 0
            PROVE  G[i] = IF Wanted(s[i], from) THEN Append(G[i - 1], s[i]) ELSE G[i - 1]
        BY <1>1, <3>1, <3>2 DEF Kept
      <3>3. QED
        BY <3>1, <3>2
    <2>3. QED
      BY <2>1, <2>2
  <1>4. Eq(K)
    BY <1>3, Zenon
  <1>5. Selected(s, from) = K[Len(s)]
    BY ZenonT(60) DEF Selected
  <1>6. K[0] = <<>> /\ \A i \in 1 .. Len(s) : K[i] = Kept(s, from, i, K[i - 1])
    <2>1. ASSUME NEW F, Eq(F)
          PROVE  F[0] = <<>> /\ \A i \in 1 .. Len(s) : F[i] = Kept(s, from, i, F[i - 1])
      <3>1. \A i \in 0 .. Len(s) : F[i] = IF i = 0 THEN <<>>
                                          ELSE IF Wanted(s[i], from) THEN Append(F[i - 1], s[i])
                                          ELSE F[i - 1]
        BY <2>1
      <3>2. QED
        BY <1>1, <3>1 DEF Kept
    <2>2. QED
      BY <1>4, <2>1
  <1>7. QED
    BY <1>5, <1>6
(* Replay returns events, and only what was asked for. *)
LEMMA SelectedType ==
  ASSUME NEW s \in Seq(Line), NEW from, NEW S, \A i \in 1 .. Len(s) : Wanted(s[i], from) => s[i] \in S
  PROVE  Selected(s, from) \in Seq(S)
  <1>1. PICK F : /\ F[0] = <<>> /\ Selected(s, from) = F[Len(s)]
                 /\ \A i \in 1 .. Len(s) : F[i] = Kept(s, from, i, F[i - 1])
    BY SelectedLoop
  <1> DEFINE Bad == {k \in 0 .. Len(s) : F[k] \notin Seq(S)}
  <1>2. Bad = {}
    <2> SUFFICES ASSUME Bad # {} PROVE FALSE
      OBVIOUS
    <2>1. PICK k \in Bad : \A j \in Bad : k <= j
      <3>1. Bad \subseteq Nat
        OBVIOUS
      <3>2. QED
        BY <3>1, NatLeast
    <2>2. k # 0
      <3>1. F[0] \in Seq(S)
        BY <1>1
      <3>2. QED
        BY <2>1, <3>1
    <2>3. k \in 1 .. Len(s) /\ F[k - 1] \in Seq(S)
      BY <2>1, <2>2
    <2>4. F[k] = IF Wanted(s[k], from) THEN Append(F[k - 1], s[k]) ELSE F[k - 1]
      BY <1>1, <2>2, <2>3 DEF Kept
    <2>5. F[k] \in Seq(S)
      BY <2>3, <2>4
    <2>6. QED
      BY <2>1, <2>5
  <1>3. Len(s) \in 0 .. Len(s)
    OBVIOUS
  <1>4. QED
    BY <1>1, <1>2, <1>3

(* When what is asked for is one stretch of the file, that is what replay  *)
(* returns.                                                                *)
LEMMA SelectedStretch ==
  ASSUME NEW s \in Seq(Line), NEW from, NEW a \in Nat \ {0}, NEW b \in 0 .. Len(s),
         \A i \in 1 .. Len(s) : Wanted(s[i], from) <=> a <= i /\ i <= b
  PROVE  Selected(s, from) = SubSeq(s, a, b)
  <1>1. PICK F : /\ F[0] = <<>> /\ Selected(s, from) = F[Len(s)]
                 /\ \A i \in 1 .. Len(s) : F[i] = Kept(s, from, i, F[i - 1])
    BY SelectedLoop
  <1> DEFINE Upto(i) == SubSeq(s, a, IF i <= b THEN i ELSE b)
             Bad == {k \in 0 .. Len(s) : F[k] # Upto(k)}
  <1>2. Bad = {}
    <2> SUFFICES ASSUME Bad # {} PROVE FALSE
      OBVIOUS
    <2>1. PICK k \in Bad : \A j \in Bad : k <= j
      <3>1. Bad \subseteq Nat
        OBVIOUS
      <3>2. QED
        BY <3>1, NatLeast
    <2>2. k # 0
      <3>1. SubSeq(s, a, 0) = <<>>
        OBVIOUS
      <3>2. F[0] = Upto(0)
        BY <1>1, <3>1
      <3>3. QED
        BY <2>1, <3>2
    <2>3. k \in 1 .. Len(s) /\ F[k - 1] = Upto(k - 1)
      BY <2>1, <2>2
    <2>4. F[k] = IF Wanted(s[k], from) THEN Append(F[k - 1], s[k]) ELSE F[k - 1]
      BY <1>1, <2>2, <2>3 DEF Kept
    <2>5. F[k] = Upto(k)
      <3>1. CASE a <= k /\ k <= b
        <4>1. SubSeq(s, a, k) = Append(SubSeq(s, a, k - 1), s[k])
          BY <2>3, <3>1
        <4>2. QED
          BY <2>3, <2>4, <3>1, <4>1
      <3>2. CASE k < a
        <4>1. SubSeq(s, a, k) = <<>> /\ SubSeq(s, a, k - 1) = <<>> /\ (b < k => SubSeq(s, a, b) = <<>>)
          BY <2>3, <3>2
        <4>2. QED
          BY <2>3, <2>4, <3>2, <4>1
      <3>3. CASE b < k
        BY <2>3, <2>4, <3>3
      <3>4. QED
        BY <2>3, <3>1, <3>2, <3>3
    <2>6. QED
      BY <2>1, <2>5
  <1>3. Len(s) \in 0 .. Len(s)
    OBVIOUS
  <1>4. F[Len(s)] = Upto(Len(s))
    BY <1>2, <1>3
  <1>5. Upto(Len(s)) = SubSeq(s, a, b)
    OBVIOUS
  <1>6. QED
    BY <1>1, <1>4, <1>5

(* The file is its lines and what follows them. *)
LEMMA FileType ==
  ASSUME TypeOK
  PROVE  /\ FileLines \in Seq(Line) /\ Len(FileLines) = Len(lines) + Len(tail)
         /\ (Len(tail) = 0 \/ Len(tail) = 1)
         /\ \A i \in 1 .. Len(lines) : FileLines[i] = lines[i]
         /\ Len(tail) = 1 => FileLines[Len(lines) + 1] = tail[1]
         /\ Len(lines) \in Nat /\ Len(FileLines) \in Nat
  <1>1. lines \in Seq(Line) /\ tail \in Seq(Line) /\ (Len(tail) = 0 \/ Len(tail) = 1)
    <2>1. lines \in Seq(Line) /\ tail \in {NoTail} \cup {<<e>> : e \in Line}
      BY DEF TypeOK, Line
    <2>2. \A e \in Line : <<e>> \in Seq(Line) /\ Len(<<e>>) = 1
      OBVIOUS
    <2>3. CASE tail = <<>>
      BY <2>1, <2>3
    <2>4. CASE tail # <<>>
      <3>1. PICK e \in Line : tail = <<e>>
        BY <2>1, <2>4 DEF NoTail
      <3>2. QED
        BY <2>1, <2>2, <3>1
    <2>5. QED
      BY <2>3, <2>4
  <1>2. QED
    BY <1>1 DEF FileLines

LEMMA ReplayType ==
  ASSUME TypeOK, NEW from, NEW S, \A i \in 1 .. Len(FileLines) : Wanted(FileLines[i], from) => FileLines[i] \in S
  PROVE  Replay(from) \in Seq(S)
  BY FileType, SelectedType DEF Replay

LEMMA ReplayEvents ==
  ASSUME TypeOK, NEW from PROVE Replay(from) \in Seq(Event)
  BY FileType, ReplayType DEF Wanted, Line

(* A pass sends the beginning of what replay returned, and something of it *)
(* if there is anything.                                                   *)
LEMMA SendablePart ==
  ASSUME TypeOK, NEW from
  PROVE  \E k \in 0 .. Len(Replay(from)) : /\ Sendable(from) = SubSeq(Replay(from), 1, k)
                                           /\ Replay(from) # <<>> => k # 0
  <1> DEFINE events == Replay(from)
             dones == {i \in 1 .. Len(events) : events[i].done}
             first == CHOOSE i \in dones : \A k \in dones : i <= k
  <1>1. events \in Seq(Event)
    BY SMTT(60), ReplayEvents
  <1>2. CASE dones = {}
    <2>1. Sendable(from) = events
      BY <1>2 DEF Sendable
    <2>2. events = SubSeq(events, 1, Len(events)) /\ Len(events) \in 0 .. Len(events)
          /\ (events # <<>> => Len(events) # 0)
      BY <1>1
    <2>3. QED
      BY <2>1, <2>2
  <1>3. CASE dones # {}
    <2>1. Sendable(from) = SubSeq(events, 1, first)
      BY <1>3 DEF Sendable
    <2>2. dones \subseteq Nat
      OBVIOUS
    <2>3. first \in dones
      <3> HIDE DEF dones
      <3> QED
        BY <1>3, <2>2, NatLeast
    <2>4. first \in 0 .. Len(events) /\ first # 0
      <3>1. Len(events) \in Nat /\ dones \subseteq 1 .. Len(events)
        BY <1>1
      <3> HIDE DEF first, dones
      <3>2. QED
        BY <2>3, <3>1
    <2>5. QED
      BY <2>1, <2>4
  <1>4. QED
    BY <1>2, <1>3
-----------------------------------------------------------------------------
(* The inductive invariant *)

(* Of the file, whatever was torn: a seq is never larger than the number   *)
(* of appends attempted, and a file without corruption in it is what was   *)
(* acknowledged.                                                           *)
FileInv ==
  /\ seq # Closed => seq <= attempts
  /\ \A i \in 1 .. Len(lines) : lines[i].seq <= attempts
  /\ \A i \in 1 .. Len(tail) : tail[i].seq <= attempts
  /\ (\A i \in 1 .. Len(lines) : lines[i] # Garbled) => lines = acked

\* A Done event is in the log, at or before place n.
DoneBy(n) == \E i \in 1 .. Len(acked) : acked[i].done /\ i <= n

(* Of the record before any write was torn: it is saved terminal, by the   *)
(* worker or by a handler, after a Done event was journaled; and while it  *)
(* was never lost it can be read.                                          *)
RecordInv ==
  /\ tears = 0 /\ (record = "done" \/ worker = "finishing" \/ cancel = "journaled") =>
       DoneBy(Len(acked))
  /\ losses = 0 => readable

(* Of the file before any write was torn. *)
SoundInv ==
  tears = 0 =>
    /\ lines = acked /\ tail = NoTail
    /\ \A i \in 1 .. Len(acked) : acked[i].seq = i
    /\ up => seq # Closed
    /\ seq # Closed => seq = Len(acked)

(* A connection is served by an agent that runs, from an open journal. *)
ServeInv ==
  /\ ~up => conn = Hungup
  /\ conn.serving => conn.attached /\ seq # Closed

(* The follower has the stretch of the log from the place it asked for,    *)
(* without a Done event while it follows.                                  *)
ClientInv ==
  tears = 0 =>
    /\ client.last = client.from - 1 + Len(client.got)
    /\ \A j \in 1 .. Len(client.got) :
         /\ client.from - 1 + j <= Len(acked)
         /\ client.got[j] = acked[client.from - 1 + j]
    /\ client.state = "following" => \A j \in 1 .. Len(client.got) : ~client.got[j].done

\* It has ended at a Done event, or had asked to start past one.
EndInv == tears = 0 /\ losses = 0 /\ client.state = "ended" =>
            (client.got # <<>> /\ Last(client.got).done) \/ DoneBy(client.from - 1)

\* Events sent on the connection and not received yet.
InFlight == conn.next - 1 - client.last

(* The frames in flight: h frames that are no events, then the stretch of  *)
(* the log between what the client has and what was sent, then whatever    *)
(* ended the service.                                                      *)
Flight(h) ==
  /\ h + InFlight <= Len(conn.chan)
  /\ conn.serving => h + InFlight = Len(conn.chan)
  /\ \A i \in 1 .. Len(conn.chan) :
       IF h < i /\ i <= h + InFlight
       THEN conn.chan[i] = EventFrame(acked[client.last + (i - h)])
       ELSE conn.chan[i].type # "event"

\* A terminal heartbeat tells of a Done event at or before the seq it gives.
FinalHeartbeats ==
  losses = 0 =>
    \A i \in 1 .. Len(conn.chan) :
      conn.chan[i].type = "heartbeat" /\ conn.chan[i].terminal => DoneBy(conn.chan[i].high)

ChanInv ==
  tears = 0 /\ conn.attached =>
    /\ InFlight >= 0
    /\ InFlight > 0 => conn.next - 1 <= Len(acked)
    /\ \E h \in 0 .. Len(conn.chan) : Flight(h)
    /\ FinalHeartbeats

JInv == /\ TypeOK /\ FileInv /\ SoundInv /\ RecordInv
        /\ ServeInv /\ ClientInv /\ EndInv /\ ChanInv
-----------------------------------------------------------------------------
(* Replay under the invariant *)

LEMMA EventIsNoGarble ==
  ASSUME NEW e \in Event PROVE e # Garbled /\ e.seq \in 1 .. MaxEvents
  BY DEF Event, Garbled

(* The file is one line longer than its lines at most. *)
LEMMA OneMore ==
  ASSUME NEW n \in Nat, NEW t, t = 0 \/ t = 1, NEW m, m = n + t
  PROVE  /\ \A i \in 1 .. (m - 1) : i \in 1 .. n
         /\ \A i \in 1 .. m : i <= n \/ (t = 1 /\ i = n + 1)
  OBVIOUS

(* Without corruption the file reads, and reads as all of its lines and    *)
(* the tail if only its newline was lost.                                  *)
LEMMA CleanReplay ==
  ASSUME TypeOK, FileInv, \A i \in 1 .. Len(lines) : lines[i] # Garbled
  PROVE  ~ReplayFails /\ IsPrefix(acked, Replay(0))
  <1> DEFINE b == IF tail # NoTail /\ tail[1] # Garbled THEN Len(lines) + 1 ELSE Len(lines)
  <1>1. /\ FileLines \in Seq(Line) /\ Len(FileLines) = Len(lines) + Len(tail)
        /\ (Len(tail) = 0 \/ Len(tail) = 1) /\ Len(lines) \in Nat
        /\ \A i \in 1 .. Len(lines) : FileLines[i] = lines[i]
        /\ Len(tail) = 1 => FileLines[Len(lines) + 1] = tail[1]
    BY FileType DEF TypeOK
  <1>2. ~ReplayFails
    <2> SUFFICES ASSUME NEW i \in 1 .. (Len(FileLines) - 1), FileLines[i] = Garbled PROVE FALSE
      BY DEF ReplayFails, Malformed
    <2>1. i \in 1 .. Len(lines)
      <3>1. /\ Len(FileLines) = Len(lines) + Len(tail) /\ (Len(tail) = 0 \/ Len(tail) = 1)
            /\ Len(lines) \in Nat
        BY FileType
      <3>2. QED
        BY <3>1, OneMore
    <2>2. QED
      BY <1>1, <2>1
  <1>3. tail = NoTail <=> Len(tail) = 0
    BY DEF TypeOK, NoTail
  <1>4. b \in 0 .. Len(FileLines) /\ Len(lines) <= b
    BY <1>1, <1>3
  <1>5. ASSUME NEW i \in 1 .. Len(FileLines) PROVE Wanted(FileLines[i], 0) <=> 1 <= i /\ i <= b
    <2>1. FileLines[i] # Garbled => FileLines[i].seq >= 0
      BY <1>1, EventIsNoGarble DEF Line
    <2>2. CASE i <= Len(lines)
      BY <1>1, <1>4, <2>1, <2>2 DEF Wanted
    <2>3. CASE i = Len(lines) + 1
      BY <1>1, <1>3, <2>1, <2>3 DEF Wanted
    <2>4. i <= Len(lines) \/ i = Len(lines) + 1
      <3>1. /\ Len(FileLines) = Len(lines) + Len(tail) /\ (Len(tail) = 0 \/ Len(tail) = 1)
            /\ Len(lines) \in Nat
        BY FileType
      <3>2. QED
        BY <3>1, OneMore
    <2>5. QED
      BY <2>2, <2>3, <2>4
  <1>6. Replay(0) = SubSeq(FileLines, 1, b)
    <2> HIDE DEF b
    <2>1. 1 \in Nat \ {0}
      OBVIOUS
    <2>2. Selected(FileLines, 0) = SubSeq(FileLines, 1, b)
      BY <1>1, <1>4, <1>5, <2>1, SelectedStretch
    <2>3. QED
      BY <2>2 DEF Replay
  <1>7. acked = lines
    BY DEF FileInv
  <1>8. SubSeq(SubSeq(FileLines, 1, b), 1, Len(lines)) = SubSeq(lines, 1, Len(lines))
        /\ Len(SubSeq(FileLines, 1, b)) = b
    <2> HIDE DEF b
    <2> QED
      BY SMTT(60), <1>1, <1>4 DEF TypeOK
  <1>9. QED
    BY <1>2, <1>4, <1>6, <1>7, <1>8 DEF IsPrefix

(* Before any write was torn it reads as the log from the seq asked for.   *)
LEMMA SoundReplay ==
  ASSUME TypeOK, SoundInv, tears = 0, NEW from \in Nat, NEW a \in Nat,
         a = IF from = 0 THEN 1 ELSE from
  PROVE  Replay(from) = SubSeq(acked, a, Len(acked)) /\ ~ReplayFails
  <1>1. FileLines = acked /\ acked \in Seq(Event) /\ acked \in Seq(Line) /\ Len(acked) \in Nat
    BY DEF SoundInv, TypeOK, FileLines, NoTail, Line
  <1>2. \A i \in 1 .. Len(acked) : acked[i] # Garbled /\ acked[i].seq = i
    BY <1>1, EventIsNoGarble DEF SoundInv
  <1>3. \A i \in 1 .. Len(acked) : Wanted(acked[i], from) <=> a <= i /\ i <= Len(acked)
    BY <1>2 DEF Wanted
  <1>4. Len(acked) \in 0 .. Len(acked) /\ a \in Nat \ {0}
    BY <1>1
  <1>5. Selected(acked, from) = SubSeq(acked, a, Len(acked))
    BY <1>1, <1>3, <1>4, SelectedStretch
  <1>6. ~ReplayFails
    BY <1>1, <1>2 DEF ReplayFails, Malformed
  <1>7. QED
    BY <1>1, <1>5, <1>6 DEF Replay

(* The seq a reopened journal goes on from. *)
LEMMA ReopenedSeq ==
  ASSUME TypeOK, FileInv
  PROVE  LastSeq(Replay(0)) \in 0 .. MaxEvents /\ LastSeq(Replay(0)) <= attempts
  <1> DEFINE S == {e \in Event : e.seq <= attempts}
  <1>1. \A i \in 1 .. Len(FileLines) : Wanted(FileLines[i], 0) => FileLines[i] \in S
    <2> SUFFICES ASSUME NEW i \in 1 .. Len(FileLines), FileLines[i] # Garbled
                 PROVE  FileLines[i] \in S
      BY DEF Wanted
    <2>1. FileLines[i] \in Event
      BY FileType DEF Line
    <2>2. FileLines[i].seq <= attempts
      <3>1. /\ Len(FileLines) = Len(lines) + Len(tail) /\ (Len(tail) = 0 \/ Len(tail) = 1)
            /\ Len(lines) \in Nat
            /\ \A k \in 1 .. Len(lines) : FileLines[k] = lines[k]
            /\ Len(tail) = 1 => FileLines[Len(lines) + 1] = tail[1]
        BY FileType DEF TypeOK
      <3>2. CASE i <= Len(lines)
        BY <3>1, <3>2 DEF FileInv
      <3>3. CASE i > Len(lines)
        <4>1. ~(i <= Len(lines))
          BY <3>1, <3>3
        <4>2. Len(tail) = 1 /\ i = Len(lines) + 1
          BY ZenonT(60), <3>1, <4>1, OneMore
        <4>3. 1 \in 1 .. Len(tail)
          BY <4>2
        <4>4. QED
          BY <3>1, <4>2, <4>3 DEF FileInv
      <3>4. QED
        BY <3>2, <3>3
    <2>3. QED
      BY <2>1, <2>2
  <1>2. Replay(0) \in Seq(S)
    BY <1>1, ReplayType
  <1>3. CASE Replay(0) = <<>>
    BY <1>3, BoundsAssumption DEF LastSeq, TypeOK
  <1>4. CASE Replay(0) # <<>>
    <2>1. Last(Replay(0)) \in S
      <3> HIDE DEF S
      <3> QED
        BY <1>2, <1>4 DEF Last
    <2>2. QED
      BY <1>4, <2>1, EventIsNoGarble DEF LastSeq
  <1>5. QED
    BY <1>3, <1>4
-----------------------------------------------------------------------------
(* What the parts of the invariant survive *)

Conns == [attached : BOOLEAN, serving : BOOLEAN, next : 1 .. MaxEvents + 1, chan : Seq(Frame)]
Clients == [from : FromSeqs, last : 0 .. MaxEvents, got : Seq(Event),
            state : {"following", "ended", "refused", "lost"}]

LEMMA HungupType == Hungup \in Conns
  <1>1. Hungup.attached \in BOOLEAN /\ Hungup.serving \in BOOLEAN
    BY Zenon DEF Hungup
  <1>2. <<>> \in Seq(Frame)
    OBVIOUS
  <1>3. QED
    BY <1>1, <1>2, BoundsAssumption DEF Hungup, Conns

LEMMA HungupIdle == ~Hungup.attached /\ ~Hungup.serving
  BY DEF Hungup

LEMMA FileFrame ==
  ASSUME FileInv, UNCHANGED <<fileVars, seq, attempts, acked>> PROVE FileInv'
  BY DEF FileInv, fileVars

LEMMA SoundFrame ==
  ASSUME SoundInv, UNCHANGED <<up, fileVars, seq, acked>>, tears' = 0 => tears = 0
  PROVE  SoundInv'
  BY DEF SoundInv, fileVars

LEMMA RecordFrame ==
  ASSUME RecordInv, UNCHANGED <<acked, record, readable, losses, worker, cancel>>,
         tears' = 0 => tears = 0
  PROVE  RecordInv'
  BY DEF RecordInv, DoneBy

LEMMA ClientFrame ==
  ASSUME ClientInv, EndInv, UNCHANGED <<acked, client>>,
         tears' = 0 => tears = 0, losses' = 0 => losses = 0
  PROVE  ClientInv' /\ EndInv'
  BY DEF ClientInv, EndInv, DoneBy

LEMMA ChanFrame ==
  ASSUME ChanInv, UNCHANGED <<acked, client, conn>>,
         tears' = 0 => tears = 0, losses' = 0 => losses = 0
  PROVE  ChanInv'
  BY DEF ChanInv, InFlight, Flight, FinalHeartbeats, DoneBy

(* A follower asks for a seq that a log may have, or for the next one. *)
LEMMA StartPlace == ASSUME TypeOK PROVE client.from \in Nat \ {0}
  <1>1. client.from \in FromSeqs
    BY DEF TypeOK
  <1>2. client.from \in 1 .. (MaxEvents + 1)
    BY <1>1, BoundsAssumption
  <1>3. QED
    BY <1>2, BoundsAssumption

(* A connection that is gone carries nothing. *)
LEMMA HungupKeeps ==
  ASSUME conn' = Hungup PROVE ChanInv' /\ ServeInv'
  BY HungupIdle DEF ChanInv, ServeInv

(* A step of the connection alone. *)
LEMMA ConnStep ==
  ASSUME JInv, conn' \in Conns, ServeInv', ChanInv', drops' \in 0 .. MaxDrops,
         UNCHANGED <<up, fileVars, seq, jobVars, granted, client, crashes, tears>>
  PROVE  JInv'
  <1>1. FileInv' /\ SoundInv' /\ RecordInv' /\ ClientInv' /\ EndInv'
    BY FileFrame, SoundFrame, RecordFrame, ClientFrame DEF JInv, jobVars
  <1>2. TypeOK'
    BY DEF JInv, TypeOK, Conns, fileVars, jobVars
  <1>3. QED
    BY <1>1, <1>2 DEF JInv

-----------------------------------------------------------------------------
(* The job *)

WorkerStates == {"none", "picked", "run", "finishing"}
CancelStates == {"idle", "loaded", "journaled"}

(* A step of the record, the worker or the handler that journals nothing. *)
LEMMA JobStep ==
  ASSUME JInv, JobOnly, RecordInv',
         record' \in {"queued", "begun", "done"}, readable' \in BOOLEAN,
         worker' \in WorkerStates, cancel' \in CancelStates,
         losses' \in 0 .. MaxLosses, losses' = 0 => losses = 0
  PROVE  JInv'
  <1>1. UNCHANGED <<up, lines, tail, fileVars, seq, attempts, acked, granted, conn, client,
                    drops, crashes, tears>>
    BY DEF JobOnly, fileVars, boundVars
  <1>2. TypeOK'
    BY <1>1 DEF JInv, TypeOK, WorkerStates, CancelStates
  <1>3. FileInv' /\ SoundInv' /\ ClientInv' /\ EndInv' /\ ChanInv'
    BY <1>1, FileFrame, SoundFrame, ClientFrame, ChanFrame DEF JInv
  <1>4. ServeInv'
    BY <1>1 DEF JInv, ServeInv
  <1>5. QED
    BY <1>2, <1>3, <1>4 DEF JInv

(* What JobStep needs of the variables that a step leaves alone. *)
LEMMA JobTypes ==
  ASSUME JInv
  PROVE  /\ record \in {"queued", "begun", "done"} /\ readable \in BOOLEAN
         /\ worker \in WorkerStates /\ cancel \in CancelStates
         /\ losses \in 0 .. MaxLosses
  BY DEF JInv, TypeOK, WorkerStates, CancelStates

LEMMA WorkerKeeps ==
  ASSUME JInv, PickJob \/ Transition \/ WorkerLeaves \/ SaveDone PROVE JInv'
  <1>1. JobOnly /\ UNCHANGED <<losses, cancel, acked, tears>>
    BY DEF PickJob, Transition, WorkerLeaves, SaveDone, recordVars, JobOnly, boundVars
  <1>2. TRUE \in BOOLEAN
    BY Zenon
  <1>3. CASE PickJob \/ WorkerLeaves
    <2>1. worker' \in {"none", "picked"} /\ UNCHANGED <<record, readable>>
      BY <1>3 DEF PickJob, WorkerLeaves, recordVars
    <2>2. RecordInv'
      BY <1>1, <2>1 DEF JInv, RecordInv, DoneBy
    <2>3. QED
      BY <1>1, <2>1, <2>2, JobStep, JobTypes DEF WorkerStates
  <1>4. CASE Transition
    <2>1. worker' = "run" /\ record' = "begun" /\ readable' = TRUE
      BY <1>4 DEF Transition
    <2>2. RecordInv'
      BY <1>1, <2>1 DEF JInv, RecordInv, DoneBy
    <2>3. QED
      BY <1>1, <1>2, <2>1, <2>2, JobStep, JobTypes DEF WorkerStates
  <1>5. CASE SaveDone
    <2>1. worker = "finishing" /\ worker' = "none" /\ record' = "done" /\ readable' = TRUE
      BY <1>5 DEF SaveDone
    <2>2. RecordInv'
      BY <1>1, <2>1 DEF JInv, RecordInv, DoneBy
    <2>3. QED
      BY <1>1, <1>2, <2>1, <2>2, JobStep, JobTypes DEF WorkerStates
  <1>6. QED
    BY <1>3, <1>4, <1>5

LEMMA HandlerKeeps ==
  ASSUME JInv, CancelLoad \/ CancelSave PROVE JInv'
  <1>1. JobOnly /\ UNCHANGED <<losses, worker, acked, tears>>
    BY DEF CancelLoad, CancelSave, recordVars, JobOnly, boundVars
  <1>2. TRUE \in BOOLEAN
    BY Zenon
  <1>3. CASE CancelLoad
    <2>1. cancel' = "loaded" /\ UNCHANGED <<record, readable>>
      BY <1>3 DEF CancelLoad, recordVars
    <2>2. RecordInv'
      BY <1>1, <2>1 DEF JInv, RecordInv, DoneBy
    <2>3. QED
      BY <1>1, <2>1, <2>2, JobStep, JobTypes DEF CancelStates
  <1>4. CASE CancelSave
    <2>1. /\ cancel = "journaled" /\ cancel' = "idle"
          /\ \/ record' = "done" /\ readable' = TRUE
             \/ UNCHANGED <<record, readable>>
      BY <1>4 DEF CancelSave
    <2>2. RecordInv'
      BY <1>1, <2>1 DEF JInv, RecordInv, DoneBy
    <2>3. QED
      BY <1>1, <1>2, <2>1, <2>2, JobStep, JobTypes DEF CancelStates
  <1>5. QED
    BY <1>3, <1>4

LEMMA LossKeeps ==
  ASSUME JInv, RecordLost \/ RecordBack PROVE JInv'
  <1>1. /\ JobOnly /\ UNCHANGED <<record, worker, cancel, acked, tears>>
        /\ readable' = FALSE \/ readable' = TRUE
        /\ \/ losses < MaxLosses /\ losses' = losses + 1
           \/ losses' = losses /\ readable' = TRUE
    BY DEF RecordLost, RecordBack, JobOnly, boundVars
  <1>2. losses' \in 0 .. MaxLosses /\ (losses' = 0 => losses = 0 /\ readable' = TRUE)
    BY <1>1, BoundsAssumption DEF JInv, TypeOK
  <1>3. readable' \in BOOLEAN
    BY <1>1, Zenon
  <1>4. RecordInv'
    BY <1>1, <1>2 DEF JInv, RecordInv, DoneBy
  <1>5. QED
    BY <1>1, <1>2, <1>3, <1>4, JobStep, JobTypes

-----------------------------------------------------------------------------
(* The writer *)

(* Whoever appends: a Done event is journaled before anyone holds that it  *)
(* is.                                                                     *)
LEMMA JournalAppendKeeps ==
  ASSUME JInv, NEW done \in BOOLEAN, JournalAppend(done),
         worker' \in WorkerStates, cancel' \in CancelStates,
         ~done => worker' = worker /\ cancel' = cancel
  PROVE  JInv'
  <1> DEFINE e == NewEvent(done)
  <1> USE BoundsAssumption
  <1>1. /\ up /\ seq # Closed /\ attempts < MaxEvents
    BY DEF JournalAppend, MayAppend
  <1>2. /\ lines' = Append(lines, Landed(e)) /\ acked' = Append(acked, e) /\ tail' = NoTail
        /\ seq' = seq + 1 /\ attempts' = attempts + 1
        /\ UNCHANGED <<up, record, readable, losses, granted, conn, client, drops, crashes, tears>>
    BY DEF JournalAppend, recordVars, boundVars
  <1>3. seq \in 0 .. MaxEvents /\ seq <= attempts /\ attempts \in 0 .. MaxEvents
        /\ acked \in Seq(Event) /\ lines \in Seq(Line)
    BY <1>1 DEF JInv, TypeOK, FileInv, Line
  <1>4. e \in Event /\ e.seq = seq + 1 /\ e.done = done /\ e.seq <= attempts + 1
    BY <1>1, <1>3 DEF NewEvent, Event
  <1>5. Landed(e) \in Line /\ Landed(e).seq <= attempts + 1
    BY <1>3, <1>4 DEF Landed, Line, Garbled
  <1>6. /\ acked' \in Seq(Event) /\ Len(acked') = Len(acked) + 1 /\ Len(acked) \in Nat
        /\ acked'[Len(acked')] = e
        /\ \A i \in 1 .. Len(acked) : acked'[i] = acked[i]
    BY <1>2, <1>3, <1>4
  <1>7. /\ lines' \in Seq(Line) /\ Len(lines') = Len(lines) + 1 /\ Len(lines) \in Nat
        /\ lines'[Len(lines')] = Landed(e)
        /\ \A i \in 1 .. Len(lines) : lines'[i] = lines[i]
    BY <1>2, <1>3, <1>5
  <1>8. TypeOK'
    BY <1>1, <1>2, <1>3, <1>6, <1>7 DEF JInv, TypeOK, Line, NoTail, WorkerStates, CancelStates
  <1>9. FileInv'
    <2>1. \A i \in 1 .. Len(lines') : lines'[i].seq <= attempts'
      <3> SUFFICES ASSUME NEW i \in 1 .. Len(lines') PROVE lines'[i].seq <= attempts'
        OBVIOUS
      <3>1. CASE i = Len(lines')
        BY <1>2, <1>5, <1>7, <3>1
      <3>2. CASE i # Len(lines')
        <4>1. i \in 1 .. Len(lines) /\ lines'[i] = lines[i]
          BY <1>7, <3>2
        <4>2. lines[i].seq <= attempts /\ lines[i].seq \in Int
          <5>1. lines[i] \in Line
            BY <1>3, <4>1
          <5>2. QED
            BY <4>1, <5>1, EventIsNoGarble DEF JInv, FileInv, Line, Garbled
        <4>3. QED
          BY <1>2, <1>3, <4>1, <4>2
      <3>3. QED
        BY <3>1, <3>2
    <2>2. (\A i \in 1 .. Len(lines') : lines'[i] # Garbled) => lines' = acked'
      <3> SUFFICES ASSUME \A i \in 1 .. Len(lines') : lines'[i] # Garbled PROVE lines' = acked'
        OBVIOUS
      <3>1. Landed(e) = e
        BY <1>7 DEF Landed
      <3>2. lines = acked
        BY <1>7 DEF JInv, FileInv
      <3>3. QED
        BY <1>2, <3>1, <3>2
    <2>3. QED
      BY <1>2, <1>3, <2>1, <2>2 DEF FileInv, NoTail
  <1>10. SoundInv'
    <2> SUFFICES ASSUME tears = 0
                 PROVE  /\ lines' = acked' /\ \A i \in 1 .. Len(acked') : acked'[i].seq = i
                        /\ seq' = Len(acked')
      BY <1>1, <1>2, <1>3 DEF SoundInv, Closed
    <2>1. lines = acked /\ tail = NoTail /\ seq = Len(acked)
          /\ \A i \in 1 .. Len(acked) : acked[i].seq = i
      BY <1>1 DEF JInv, SoundInv
    <2>2. Landed(e) = e
      BY <2>1 DEF Landed
    <2>3. QED
      BY <1>2, <1>4, <1>6, <2>1, <2>2
  <1>11. ServeInv'
    BY <1>2, <1>3 DEF JInv, ServeInv, Closed
  <1>12. ClientInv'
    <2> SUFFICES ASSUME tears = 0 PROVE ClientInv'
      BY <1>2 DEF ClientInv
    <2>1. /\ client.last = client.from - 1 + Len(client.got)
          /\ \A j \in 1 .. Len(client.got) :
               /\ client.from - 1 + j <= Len(acked)
               /\ client.got[j] = acked[client.from - 1 + j]
          /\ client.state = "following" => \A j \in 1 .. Len(client.got) : ~client.got[j].done
      BY DEF JInv, ClientInv
    <2>2. client.from \in Nat \ {0}
      BY StartPlace DEF JInv
    <2>3. ASSUME NEW j \in 1 .. Len(client.got)
          PROVE  /\ client.from - 1 + j <= Len(acked')
                 /\ client.got[j] = acked'[client.from - 1 + j]
      <3>1. client.from - 1 + j \in 1 .. Len(acked)
        BY <1>6, <2>1, <2>2
      <3>2. QED
        BY <1>6, <2>1, <3>1
    <2>4. QED
      BY <1>2, <2>1, <2>3 DEF ClientInv
  <1>13. ASSUME NEW n, DoneBy(n) PROVE DoneBy(n)'
    BY <1>6, <1>13 DEF DoneBy
  <1>14. ChanInv'
    <2> SUFFICES ASSUME tears = 0, conn.attached PROVE ChanInv'
      BY <1>2 DEF ChanInv
    <2>1. InFlight' = InFlight /\ conn' = conn /\ client' = client
      BY <1>2 DEF InFlight
    <2>2. PICK h \in 0 .. Len(conn.chan) : Flight(h)
      BY DEF JInv, ChanInv
    <2>3. InFlight > 0 => conn.next - 1 <= Len(acked)
      BY DEF JInv, ChanInv
    <2>4. /\ conn.next \in Nat /\ client.last \in Nat /\ Len(conn.chan) \in Nat
      BY DEF JInv, TypeOK
    <2>5. ASSUME NEW i \in 1 .. Len(conn.chan), h < i, i <= h + InFlight
          PROVE  acked'[client.last + (i - h)] = acked[client.last + (i - h)]
      <3>1. client.last + (i - h) \in 1 .. Len(acked)
        BY SMTT(60), <1>6, <2>3, <2>4, <2>5 DEF InFlight
      <3>2. QED
        BY <1>6, <3>1
    <2>6. Flight(h)'
      BY <2>1, <2>2, <2>5 DEF Flight
    <2>7. FinalHeartbeats'
      BY <1>2, <1>13, <2>1 DEF JInv, ChanInv, FinalHeartbeats
    <2>8. QED
      BY <1>6, <2>1, <2>3, <2>4, <2>6, <2>7 DEF JInv, ChanInv
  <1>15. RecordInv' /\ EndInv'
    <2>1. CASE done
      <3>1. Len(acked') \in 1 .. Len(acked') /\ acked'[Len(acked')].done
        <4>1. e.done /\ acked'[Len(acked')] = e
          BY <1>4, <1>6, <2>1
        <4>2. Len(acked') \in 1 .. Len(acked')
          BY <1>6
        <4> HIDE DEF e
        <4>3. QED
          BY <4>1, <4>2
      <3>2. DoneBy(Len(acked))'
        BY <3>1 DEF DoneBy
      <3>3. QED
        BY <1>2, <1>13, <3>2 DEF JInv, RecordInv, EndInv
    <2>2. CASE ~done
      <3>1. DoneBy(Len(acked)) => DoneBy(Len(acked))'
        BY <1>6 DEF DoneBy
      <3>2. QED
        BY <1>2, <1>13, <2>2, <3>1 DEF JInv, RecordInv, EndInv
    <2>3. QED
      BY <2>1, <2>2
  <1>16. QED
    BY <1>8, <1>9, <1>10, <1>11, <1>12, <1>14, <1>15 DEF JInv

LEMMA AppendKeeps ==
  ASSUME JInv, NEW done \in BOOLEAN, AppendEvent(done) PROVE JInv'
  <1>1. /\ JournalAppend(done) /\ cancel' = cancel
        /\ worker' = (IF done THEN "finishing" ELSE worker)
    BY DEF AppendEvent
  <1>2. QED
    BY <1>1, JournalAppendKeeps, JobTypes DEF WorkerStates

LEMMA CancelAppendKeeps ==
  ASSUME JInv, CancelAppend PROVE JInv'
  <1>1. JournalAppend(TRUE) /\ cancel' = "journaled" /\ worker' = worker
    BY DEF CancelAppend
  <1>2. TRUE \in BOOLEAN
    BY Zenon
  <1>3. worker' \in WorkerStates /\ cancel' \in CancelStates
    BY <1>1, JobTypes DEF CancelStates
  <1>4. ASSUME NEW done \in BOOLEAN, done, JournalAppend(done) PROVE JInv'
    <2>1. ~done => worker' = worker /\ cancel' = cancel
      BY <1>4
    <2>2. QED
      BY <1>3, <1>4, <2>1, JournalAppendKeeps
  <1>5. QED
    BY <1>1, <1>2, <1>4

(* A write that is cut short ends what the model promises of the stream,   *)
(* and only what of the file does not depend on it remains.                *)
LEMMA TornKeeps ==
  ASSUME JInv, FailedAppend, worker' \in WorkerStates, cancel' \in CancelStates PROVE JInv'
  <1> USE BoundsAssumption
  <1>1. /\ attempts \in 0 .. MaxEvents /\ attempts < MaxEvents /\ tears \in 0 .. MaxTears
        /\ tears < MaxTears /\ attempts' = attempts + 1 /\ tears' = tears + 1
        /\ tail' \in {tail, <<Garbled>>}
        /\ UNCHANGED <<up, lines, seq, acked, record, readable, losses, granted, conn, client,
                       drops, crashes>>
    BY DEF FailedAppend, MayAppend, recordVars, JInv, TypeOK
  <1>2. tears' # 0
    BY <1>1
  <1>3. tail' = tail \/ (Len(tail') = 1 /\ tail'[1] = Garbled)
    BY <1>1
  <1>4. TypeOK'
    BY <1>1 DEF JInv, TypeOK, WorkerStates, CancelStates
  <1>5. FileInv'
    <2>1. \A i \in 1 .. Len(lines) : lines[i].seq <= attempts + 1
      <3> SUFFICES ASSUME NEW i \in 1 .. Len(lines) PROVE lines[i].seq <= attempts + 1
        OBVIOUS
      <3>1. lines[i] \in Line /\ lines[i].seq <= attempts
        BY DEF JInv, TypeOK, FileInv, Line
      <3>2. lines[i].seq \in Int
        BY <3>1, EventIsNoGarble DEF Line, Garbled
      <3>3. QED
        BY <1>1, <3>1, <3>2
    <2>2. seq # Closed => seq <= attempts + 1
      <3>1. seq # Closed => seq \in 0 .. MaxEvents /\ seq <= attempts
        BY DEF JInv, FileInv, TypeOK
      <3>2. QED
        BY <1>1, <3>1
    <2>3. \A i \in 1 .. Len(tail') : tail'[i].seq <= attempts'
      <3>1. CASE tail' = tail
        <4> SUFFICES ASSUME NEW i \in 1 .. Len(tail) PROVE tail[i].seq <= attempts + 1
          BY <1>1, <3>1
        <4>1. tail[i] \in Line /\ tail[i].seq <= attempts
          <5>1. tail \in {NoTail} \cup {<<e>> : e \in Line}
            BY DEF JInv, TypeOK, Line
          <5>2. tail[i] \in Line
            BY <5>1 DEF NoTail
          <5>3. QED
            BY <5>2 DEF JInv, FileInv
        <4>2. tail[i].seq \in Int
          BY <4>1, EventIsNoGarble DEF Line, Garbled
        <4>3. QED
          BY <1>1, <4>1, <4>2
      <3>2. CASE Len(tail') = 1 /\ tail'[1] = Garbled
        BY <1>1, <3>2 DEF Garbled
      <3>3. QED
        BY <1>3, <3>1, <3>2
    <2>4. QED
      BY <1>1, <2>1, <2>2, <2>3 DEF JInv, FileInv
  <1>6. ServeInv'
    BY <1>1 DEF JInv, ServeInv
  <1>7. SoundInv' /\ ClientInv' /\ EndInv' /\ ChanInv'
    BY <1>2 DEF SoundInv, ClientInv, EndInv, ChanInv
  <1>8. RecordInv'
    BY <1>1, <1>2 DEF JInv, RecordInv
  <1>9. QED
    BY <1>4, <1>5, <1>6, <1>7, <1>8 DEF JInv

LEMMA FailuresKeep ==
  ASSUME JInv, AppendFails \/ CancelAppendFails PROVE JInv'
  <1>1. CASE FailedAppend
    <2>1. worker' \in WorkerStates /\ cancel' \in CancelStates
      BY JobTypes DEF AppendFails, CancelAppendFails, WorkerStates, CancelStates
    <2>2. QED
      BY <1>1, <2>1, TornKeeps
  <1>2. CASE up /\ seq = Closed /\ UNCHANGED recordVars /\ JobOnly /\ CancelAppendFails
    <2>1. /\ cancel' = "journaled" /\ UNCHANGED <<record, readable, losses, worker, tears>>
      BY <1>2 DEF CancelAppendFails, recordVars, JobOnly, boundVars
    <2>2. RecordInv'
      <3>1. tears # 0
        BY <1>2 DEF JInv, SoundInv
      <3>2. QED
        BY <2>1, <3>1 DEF JInv, RecordInv
    <2>3. QED
      BY <1>2, <2>1, <2>2, JobStep, JobTypes DEF CancelStates
  <1>3. QED
    BY <1>1, <1>2 DEF AppendFails, CancelAppendFails

-----------------------------------------------------------------------------
(* Crashes *)

LEMMA CrashKeeps ==
  ASSUME JInv, Crash PROVE JInv'
  <1>1. /\ up' = FALSE /\ seq' = Closed /\ conn' = Hungup
        /\ worker' = "none" /\ cancel' = "idle"
        /\ crashes < MaxCrashes /\ crashes' = crashes + 1
        /\ UNCHANGED <<lines, tail, attempts, acked, record, readable, losses, granted, client,
                       drops, tears>>
    BY DEF Crash, Die, fileVars, recordVars
  <1>2. TypeOK'
    <2>1. up' \in BOOLEAN
      BY <1>1, Zenon
    <2>2. conn' \in Conns
      BY <1>1, HungupType
    <2>3. crashes' \in 0 .. MaxCrashes
      BY <1>1, BoundsAssumption DEF JInv, TypeOK
    <2>4. QED
      BY <1>1, <2>1, <2>2, <2>3 DEF JInv, TypeOK, Conns
  <1>3. FileInv' /\ SoundInv' /\ RecordInv'
    BY <1>1 DEF JInv, FileInv, SoundInv, RecordInv, DoneBy
  <1>4. ClientInv' /\ EndInv'
    BY <1>1, ClientFrame DEF JInv
  <1>5. ChanInv' /\ ServeInv'
    BY <1>1, HungupKeeps
  <1>6. QED
    BY <1>2, <1>3, <1>4, <1>5 DEF JInv

LEMMA CrashInWriteKeeps ==
  ASSUME JInv, NEW done \in BOOLEAN, NEW whole \in BOOLEAN, CrashInWrite(done, whole) PROVE JInv'
  <1> DEFINE x == IF whole THEN Landed(NewEvent(done)) ELSE Garbled
  <1> USE BoundsAssumption
  <1>1. /\ up' = FALSE /\ seq' = Closed /\ conn' = Hungup
        /\ worker' = "none" /\ cancel' = "idle"
        /\ crashes < MaxCrashes /\ crashes' = crashes + 1
        /\ tail' = <<x>> /\ attempts' = attempts + 1
        /\ attempts < MaxEvents /\ seq # Closed
        /\ tears < MaxTears /\ tears' = tears + 1
        /\ UNCHANGED <<lines, acked, record, readable, losses, granted, client, drops>>
    BY DEF CrashInWrite, MayAppend, Die, recordVars
  <1>2. /\ attempts \in 0 .. MaxEvents /\ tears \in 0 .. MaxTears /\ tears' # 0
        /\ seq \in 0 .. MaxEvents /\ seq <= attempts
    BY <1>1 DEF JInv, TypeOK, FileInv
  <1>3. x \in Line /\ x.seq <= attempts + 1
    <2>1. NewEvent(done) \in Event /\ NewEvent(done).seq = seq + 1
      BY <1>1, <1>2 DEF NewEvent, Event
    <2>2. QED
      BY <1>2, <2>1 DEF Landed, Line, Garbled
  <1>4. Len(tail') = 1 /\ tail'[1] = x
    BY <1>1
  <1>5. TypeOK'
    <2>1. up' \in BOOLEAN
      BY <1>1, Zenon
    <2>2. conn' \in Conns
      BY <1>1, HungupType
    <2>3. crashes' \in 0 .. MaxCrashes /\ tears' \in 0 .. MaxTears /\ attempts' \in 0 .. MaxEvents
      BY <1>1, <1>2 DEF JInv, TypeOK
    <2>4. QED
      BY <1>1, <1>3, <2>1, <2>2, <2>3 DEF JInv, TypeOK, Conns, Line
  <1>6. FileInv'
    <2>1. \A i \in 1 .. Len(lines) : lines[i].seq <= attempts + 1
      <3> SUFFICES ASSUME NEW i \in 1 .. Len(lines) PROVE lines[i].seq <= attempts + 1
        OBVIOUS
      <3>1. lines[i] \in Line /\ lines[i].seq <= attempts
        BY DEF JInv, TypeOK, FileInv, Line
      <3>2. lines[i].seq \in Int
        BY <3>1, EventIsNoGarble DEF Line, Garbled
      <3>3. QED
        BY <1>2, <3>1, <3>2
    <2>2. QED
      BY <1>1, <1>3, <1>4, <2>1 DEF JInv, FileInv
  <1>7. ChanInv' /\ ServeInv'
    BY <1>1, HungupKeeps
  <1>8. SoundInv' /\ RecordInv' /\ ClientInv' /\ EndInv'
    BY <1>1, <1>2 DEF JInv, SoundInv, RecordInv, ClientInv, EndInv
  <1>9. QED
    BY <1>5, <1>6, <1>7, <1>8 DEF JInv

(* Journal::open takes up the seq of the last event it can read. *)
LEMMA ReopenKeeps ==
  ASSUME JInv, Reopen PROVE JInv'
  <1>1. /\ ~up /\ up' = TRUE
        /\ seq' = IF ReplayFails THEN Closed ELSE LastSeq(Replay(0))
        /\ worker' \in {"run", "none"}
        /\ UNCHANGED <<fileVars, lines, tail, attempts, acked, record, readable, losses, cancel,
                       granted, conn, client, drops, crashes, tears>>
    BY DEF Reopen, fileVars, recordVars, boundVars
  <1>2. seq' \in 0 .. MaxEvents \cup {Closed} /\ (seq' # Closed => seq' <= attempts)
    BY <1>1, ReopenedSeq DEF JInv
  <1>3. TypeOK'
    <2>1. up' \in BOOLEAN
      BY <1>1, Zenon
    <2>2. QED
      BY <1>1, <1>2, <2>1 DEF JInv, TypeOK
  <1>4. FileInv'
    BY <1>1, <1>2 DEF JInv, FileInv
  <1>5. SoundInv'
    <2> SUFFICES ASSUME tears = 0 PROVE SoundInv'
      BY <1>1 DEF SoundInv
    <2>1. 0 \in Nat /\ 1 \in Nat
      OBVIOUS
    <2>2. Replay(0) = SubSeq(acked, 1, Len(acked))
      BY <2>1, SoundReplay DEF JInv
    <2>3. acked \in Seq(Event) /\ \A i \in 1 .. Len(acked) : acked[i].seq = i
      BY DEF JInv, TypeOK, SoundInv
    <2>4. Replay(0) = acked
      BY <2>2, <2>3
    <2>5. LastSeq(acked) = Len(acked)
      <3>1. CASE acked = <<>>
        BY <3>1 DEF LastSeq
      <3>2. CASE acked # <<>>
        <4>1. Len(acked) \in 1 .. Len(acked)
          BY <2>3, <3>2
        <4>2. QED
          BY <2>3, <3>2, <4>1 DEF LastSeq, Last
      <3>3. QED
        BY <3>1, <3>2
    <2>6. ~ReplayFails
      BY <2>1, SoundReplay DEF JInv
    <2>7. seq' = Len(acked) /\ seq' # Closed
      BY <1>1, <2>3, <2>4, <2>5, <2>6 DEF Closed
    <2>8. QED
      BY <1>1, <2>7 DEF JInv, SoundInv
  <1>6. ServeInv' /\ ChanInv'
    <2>1. conn' = Hungup
      BY <1>1 DEF JInv, ServeInv
    <2>2. QED
      BY <2>1, HungupKeeps
  <1>7. ClientInv' /\ EndInv'
    BY <1>1, ClientFrame DEF JInv
  <1>8. RecordInv'
    BY <1>1 DEF JInv, RecordInv, DoneBy
  <1>9. QED
    BY <1>3, <1>4, <1>5, <1>6, <1>7, <1>8 DEF JInv

-----------------------------------------------------------------------------
(* The connection *)

LEMMA FrameTypes ==
  /\ Refused \in Frame /\ Refused.type = "refused"
  /\ \A e \in Event : EventFrame(e) \in Frame /\ EventFrame(e).type = "event"
                      /\ EventFrame(e).event = e
  /\ \A t \in BOOLEAN, n \in 0 .. MaxEvents :
       /\ Heartbeat(t, n) \in Frame /\ Heartbeat(t, n).type = "heartbeat"
       /\ Heartbeat(t, n).terminal = t /\ Heartbeat(t, n).high = n
  <1> USE BoundsAssumption
  <1>1. FALSE \in BOOLEAN /\ 0 \in 0 .. MaxEvents
    <2>1. FALSE \in BOOLEAN
      BY Zenon
    <2>2. 0 \in 0 .. MaxEvents
      BY BoundsAssumption
    <2>3. QED
      BY <2>1, <2>2
  <1>2. Refused \in Frame /\ Refused.type = "refused"
    BY <1>1 DEF Refused, Frame
  <1>3. ASSUME NEW e \in Event
        PROVE  EventFrame(e) \in Frame /\ EventFrame(e).type = "event" /\ EventFrame(e).event = e
    BY <1>1 DEF EventFrame, Frame
  <1>4. ASSUME NEW t \in BOOLEAN, NEW n \in 0 .. MaxEvents
        PROVE  /\ Heartbeat(t, n) \in Frame /\ Heartbeat(t, n).type = "heartbeat"
               /\ Heartbeat(t, n).terminal = t /\ Heartbeat(t, n).high = n
    BY DEF Heartbeat, Frame
  <1>5. QED
    BY <1>2, <1>3, <1>4

(* A served connection has an agent behind it that runs. *)
LEMMA ServedIsUp ==
  ASSUME ServeInv, conn.serving PROVE up /\ conn.attached /\ seq # Closed
  BY HungupIdle DEF ServeInv

LEMMA AttachKeeps ==
  ASSUME JInv, Attach PROVE JInv'
  <1> DEFINE open == Servable
             c == IF open THEN <<>> ELSE <<Refused>>
  <1>1. /\ up /\ conn' = [attached |-> TRUE, serving |-> open, next |-> client.last + 1, chan |-> c]
        /\ UNCHANGED <<up, fileVars, seq, jobVars, granted, client, drops, crashes, tears>>
    BY DEF Attach, boundVars
  <1>2. TRUE \in BOOLEAN /\ open \in BOOLEAN
    BY Zenon DEF Servable
  <1>3. c \in Seq(Frame) /\ (c = <<>> \/ c = <<Refused>>) /\ (open <=> c = <<>>)
    BY FrameTypes
  <1> HIDE DEF c
  <1>4. client.last + 1 \in 1 .. MaxEvents + 1 /\ client.last \in Nat
    BY BoundsAssumption DEF JInv, TypeOK
  <1>5. conn' \in Conns
    BY <1>1, <1>2, <1>3, <1>4 DEF Conns
  <1>6. conn'.attached /\ (conn'.serving <=> open) /\ conn'.next = client.last + 1 /\ conn'.chan = c
    BY <1>1, <1>2, Zenon
  <1>7. ServeInv'
    BY <1>1, <1>6 DEF ServeInv, Servable
  <1>8. ChanInv'
    <2>1. InFlight' = 0
      BY <1>1, <1>4, <1>6 DEF InFlight
    <2>2. Len(c) \in Nat /\ \A i \in 1 .. Len(c) : c[i] = Refused
      BY <1>3
    <2>3. Flight(0)'
      BY <1>3, <1>6, <2>1, <2>2, FrameTypes DEF Flight
    <2>4. FinalHeartbeats'
      BY <1>6, <2>2, FrameTypes DEF FinalHeartbeats
    <2>5. 0 \in 0 .. Len(conn'.chan)
      BY <1>6, <2>2
    <2>6. QED
      BY <2>1, <2>3, <2>4, <2>5 DEF ChanInv
  <1>9. drops' \in 0 .. MaxDrops
    BY <1>1 DEF JInv, TypeOK
  <1>10. QED
    BY <1>1, <1>5, <1>7, <1>8, <1>9, ConnStep

LEMMA RevokeKeeps ==
  ASSUME JInv, Revoke PROVE JInv'
  <1>1. /\ granted' = FALSE
        /\ UNCHANGED <<up, fileVars, lines, tail, seq, attempts, acked, record, readable, losses,
                       worker, cancel, conn, client, drops, crashes, tears>>
    BY DEF Revoke, fileVars, jobVars, boundVars
  <1>2. granted' \in BOOLEAN
    BY <1>1, Zenon
  <1>3. TypeOK'
    BY <1>1, <1>2 DEF JInv, TypeOK
  <1>4. FileInv' /\ SoundInv' /\ RecordInv' /\ ClientInv' /\ EndInv' /\ ChanInv'
    BY <1>1, FileFrame, SoundFrame, RecordFrame, ClientFrame, ChanFrame DEF JInv
  <1>5. ServeInv'
    BY <1>1 DEF JInv, ServeInv
  <1>6. QED
    BY <1>3, <1>4, <1>5 DEF JInv

(* A frame that is no event ends the service. *)
LEMMA LastFrame ==
  ASSUME JInv, conn.serving, NEW f \in Frame, f.type # "event",
         tears = 0 /\ losses = 0 /\ f.type = "heartbeat" /\ f.terminal => DoneBy(f.high),
         conn' = [conn EXCEPT !.serving = FALSE, !.chan = Append(@, f)],
         UNCHANGED <<up, fileVars, seq, jobVars, granted, client, drops, crashes, tears>>
  PROVE  JInv'
  <1>1. conn \in Conns /\ conn.chan \in Seq(Frame)
    BY DEF JInv, TypeOK, Conns
  <1>2. FALSE \in BOOLEAN
    BY Zenon
  <1> DEFINE c == Append(conn.chan, f)
  <1>3. /\ c \in Seq(Frame) /\ Len(c) = Len(conn.chan) + 1 /\ Len(conn.chan) \in Nat
        /\ c[Len(c)] = f /\ \A i \in 1 .. Len(conn.chan) : c[i] = conn.chan[i]
    BY <1>1
  <1>4. /\ conn' \in Conns /\ ~conn'.serving /\ conn'.attached = conn.attached
        /\ conn'.next = conn.next /\ conn'.chan = c
    BY <1>1, <1>2, <1>3 DEF Conns
  <1> HIDE DEF c
  <1>5. up /\ conn.attached
    BY ServedIsUp DEF JInv
  <1>6. ServeInv'
    BY <1>4, <1>5 DEF ServeInv
  <1>7. ChanInv'
    <2> SUFFICES ASSUME tears = 0 PROVE ChanInv'
      BY DEF ChanInv
    <2>1. InFlight' = InFlight /\ InFlight \in Int
      BY <1>1, <1>4 DEF InFlight, JInv, TypeOK
    <2>2. PICK h \in 0 .. Len(conn.chan) : Flight(h)
      BY <1>5 DEF JInv, ChanInv
    <2>3. h \in 0 .. Len(c)
      BY <1>3
    <2>4. Flight(h)'
      <3>1. h + InFlight = Len(conn.chan)
        BY <2>2 DEF Flight
      <3>2. ASSUME NEW i \in 1 .. Len(c)
            PROVE  IF h < i /\ i <= h + InFlight
                   THEN c[i] = EventFrame(acked[client.last + (i - h)])
                   ELSE c[i].type # "event"
        <4>1. CASE i = Len(c)
          BY <1>3, <3>1, <4>1
        <4>2. CASE i # Len(c)
          <5>1. i \in 1 .. Len(conn.chan)
            BY <1>3, <4>2
          <5>2. QED
            BY <1>3, <2>2, <5>1 DEF Flight
        <4>3. QED
          BY <4>1, <4>2
      <3>3. QED
        BY <1>3, <1>4, <2>1, <3>1, <3>2 DEF Flight, jobVars
    <2>5. FinalHeartbeats'
      <3>1. ASSUME losses = 0, NEW i \in 1 .. Len(c), c[i].type = "heartbeat", c[i].terminal
            PROVE  DoneBy(c[i].high)
        <4>1. CASE i = Len(c)
          BY <1>3, <3>1, <4>1
        <4>2. CASE i # Len(c)
          <5>1. i \in 1 .. Len(conn.chan) /\ c[i] = conn.chan[i]
            BY <1>3, <4>2
          <5>2. FinalHeartbeats
            BY <1>5 DEF JInv, ChanInv
          <5>3. QED
            BY <3>1, <5>1, <5>2 DEF FinalHeartbeats
        <4>3. QED
          BY <4>1, <4>2
      <3>2. QED
        BY <1>4, <3>1 DEF FinalHeartbeats, DoneBy, jobVars
    <2>6. InFlight >= 0 /\ (InFlight > 0 => conn.next - 1 <= Len(acked))
      BY <1>5 DEF JInv, ChanInv
    <2>7. QED
      BY <1>4, <2>1, <2>3, <2>4, <2>5, <2>6 DEF ChanInv, jobVars
  <1>8. drops' \in 0 .. MaxDrops
    BY DEF JInv, TypeOK
  <1>9. QED
    BY <1>4, <1>6, <1>7, <1>8, ConnStep

LEMMA ServeRevokedKeeps ==
  ASSUME JInv, ServeRevoked PROVE JInv'
  BY LastFrame, FrameTypes DEF ServeRevoked, boundVars

LEMMA ServeCorruptKeeps ==
  ASSUME JInv, ServeCorrupt PROVE JInv'
  <1>1. conn.serving /\ ReplayFails /\ conn' = [conn EXCEPT !.serving = FALSE]
        /\ UNCHANGED <<up, fileVars, seq, jobVars, granted, client, drops, crashes, tears>>
    BY DEF ServeCorrupt, boundVars
  <1>2. conn \in Conns /\ FALSE \in BOOLEAN
    BY Zenon DEF JInv, TypeOK, Conns
  <1>3. /\ conn' \in Conns /\ ~conn'.serving /\ conn'.attached = conn.attached
    BY <1>1, <1>2 DEF Conns
  <1>4. tears # 0
    <2>1. 0 \in Nat /\ 1 \in Nat
      OBVIOUS
    <2>2. QED
      BY <1>1, <2>1, SoundReplay DEF JInv
  <1>5. up /\ conn.attached
    BY <1>1, ServedIsUp DEF JInv
  <1>6. ServeInv' /\ ChanInv'
    BY <1>1, <1>3, <1>4, <1>5 DEF ServeInv, ChanInv
  <1>7. drops' \in 0 .. MaxDrops
    BY <1>1 DEF JInv, TypeOK
  <1>8. QED
    BY <1>1, <1>3, <1>6, <1>7, ConnStep

(* The stream ends, or the link goes. *)
LEMMA HangupKeeps ==
  ASSUME JInv, StreamEnds \/ Drop PROVE JInv'
  <1>1. /\ conn' = Hungup /\ (drops' = drops \/ (drops < MaxDrops /\ drops' = drops + 1))
        /\ UNCHANGED <<up, fileVars, seq, jobVars, granted, client, crashes, tears>>
    BY DEF StreamEnds, Drop, boundVars
  <1>2. drops' \in 0 .. MaxDrops
    BY <1>1, BoundsAssumption DEF JInv, TypeOK
  <1>3. QED
    BY <1>1, <1>2, HungupType, HungupKeeps, ConnStep

(* A pass sends what the log holds from `next` on, or the beginning of it. *)
LEMMA PassType ==
  ASSUME TypeOK, NEW from, Sendable(from) # <<>>
  PROVE  /\ Sendable(from) \in Seq(Event) /\ Len(Sendable(from)) \in Nat \ {0}
         /\ Last(Sendable(from)) = Sendable(from)[Len(Sendable(from))]
         /\ Last(Sendable(from)) \in Event
  <1>1. Replay(from) \in Seq(Event)
    BY ReplayEvents
  <1>2. PICK k \in 0 .. Len(Replay(from)) : Sendable(from) = SubSeq(Replay(from), 1, k)
    BY SendablePart
  <1>3. Sendable(from) \in Seq(Event)
    BY <1>1, <1>2
  <1>4. Len(Sendable(from)) \in Nat \ {0}
    BY <1>3
  <1>5. QED
    BY <1>3, <1>4 DEF Last

LEMMA PassIsLog ==
  ASSUME TypeOK, SoundInv, tears = 0, NEW from \in Nat \ {0}, Sendable(from) # <<>>
  PROVE  /\ from - 1 + Len(Sendable(from)) <= Len(acked)
         /\ \A i \in 1 .. Len(Sendable(from)) : Sendable(from)[i] = acked[from - 1 + i]
  <1>1. Replay(from) = SubSeq(acked, from, Len(acked))
    BY SoundReplay
  <1>2. PICK k \in 0 .. Len(Replay(from)) : Sendable(from) = SubSeq(Replay(from), 1, k)
    BY SendablePart
  <1>3. acked \in Seq(Event) /\ Len(acked) \in Nat
    BY DEF TypeOK
  <1>4. CASE from > Len(acked)
    <2>1. Replay(from) = <<>>
      BY <1>1, <1>3, <1>4
    <2>2. Sendable(from) = <<>>
      BY <1>2, <2>1
    <2>3. QED
      BY <2>2
  <1>5. CASE from <= Len(acked)
    <2>1. Len(Replay(from)) = Len(acked) - from + 1 /\ Replay(from) \in Seq(Event)
          /\ \A i \in 1 .. (Len(acked) - from + 1) : Replay(from)[i] = acked[from - 1 + i]
      BY SMTT(60), <1>1, <1>3, <1>5
    <2>2. k \in 0 .. (Len(acked) - from + 1)
      BY <1>2, <2>1
    <2>3. Len(Sendable(from)) = k
      BY <1>2, <2>1
    <2>4. \A i \in 1 .. k : Sendable(from)[i] = Replay(from)[i]
      BY <1>2, <2>1
    <2>5. from - 1 + k <= Len(acked)
      BY <1>3, <2>2
    <2>6. \A i \in 1 .. k : i \in 1 .. (Len(acked) - from + 1)
      BY <1>3, <2>2
    <2>7. QED
      BY <2>1, <2>3, <2>4, <2>5, <2>6
  <1>6. QED
    BY <1>3, <1>4, <1>5

LEMMA GapOf ==
  ASSUME NEW x \in Int, NEW l \in Int, NEW f \in Int, NEW j \in Int, f = x - 1 - l
  PROVE  x - 1 + j = l + (f + j)
  OBVIOUS

LEMMA SumOf ==
  ASSUME NEW h \in Int, NEW f \in Int, NEW n \in Int, NEW m, m = h + f + n
  PROVE  h + f + n = m /\ h + (f + n) = m /\ h + (f + n) <= m
  OBVIOUS

LEMMA JoinFacts ==
  ASSUME NEW s \in Seq(Frame), NEW t \in Seq(Frame), NEW u, u = s \o t
  PROVE  /\ u \in Seq(Frame) /\ Len(u) = Len(s) + Len(t)
         /\ \A i \in 1 .. Len(s) : u[i] = s[i]
         /\ \A i \in 1 .. Len(t) : u[Len(s) + i] = t[i]
  <1>1. u \in Seq(Frame) /\ Len(u) = Len(s) + Len(t)
    OBVIOUS
  <1>2. ASSUME NEW i \in 1 .. Len(s) PROVE u[i] = s[i]
    OBVIOUS
  <1>3. ASSUME NEW i \in 1 .. Len(t) PROVE u[Len(s) + i] = t[i]
    OBVIOUS
  <1>4. QED
    BY <1>1, <1>2, <1>3

LEMMA ServeEventsKeeps ==
  ASSUME JInv, ServeEvents PROVE JInv'
  <1> DEFINE events == Sendable(conn.next)
             sent == [i \in DOMAIN events |-> EventFrame(events[i])]
             c == conn.chan \o sent
             n == Len(events)
  <1>1. /\ conn.serving /\ events # <<>>
        /\ conn' = [conn EXCEPT !.next = Last(events).seq + 1,
                                !.serving = ~Last(events).done, !.chan = @ \o sent]
        /\ UNCHANGED <<up, fileVars, seq, jobVars, granted, client, drops, crashes, tears>>
    BY DEF ServeEvents, boundVars
  <1>2. /\ events \in Seq(Event) /\ n \in Nat \ {0} /\ Last(events) = events[n]
        /\ Last(events) \in Event
    BY <1>1, PassType DEF JInv
  <1>3. conn \in Conns /\ conn.chan \in Seq(Frame) /\ Len(conn.chan) \in Nat
    BY DEF JInv, TypeOK, Conns
  <1>4. conn.next \in Nat \ {0} /\ client.last \in Nat
    <2>1. conn.next \in 1 .. (MaxEvents + 1) /\ client.last \in 0 .. MaxEvents
      BY DEF JInv, TypeOK
    <2>2. QED
      BY <2>1, BoundsAssumption
  <1>5. up /\ conn.attached /\ seq # Closed
    BY <1>1, ServedIsUp DEF JInv
  <1> HIDE DEF events
  <1>6. sent \in Seq(Frame) /\ Len(sent) = n /\ \A i \in 1 .. n : sent[i] = EventFrame(events[i])
    BY <1>2, FrameTypes
  <1> HIDE DEF sent
  <1>7. /\ c \in Seq(Frame) /\ Len(c) = Len(conn.chan) + n
        /\ \A i \in 1 .. Len(conn.chan) : c[i] = conn.chan[i]
        /\ \A i \in 1 .. n : c[Len(conn.chan) + i] = EventFrame(events[i])
    <2>1. /\ c \in Seq(Frame) /\ Len(c) = Len(conn.chan) + Len(sent)
          /\ \A i \in 1 .. Len(conn.chan) : c[i] = conn.chan[i]
          /\ \A i \in 1 .. Len(sent) : c[Len(conn.chan) + i] = sent[i]
      <3>1. conn.chan \in Seq(Frame) /\ sent \in Seq(Frame)
        BY <1>3, <1>6
      <3>2. c = conn.chan \o sent
        OBVIOUS
      <3> HIDE DEF c
      <3>3. QED
        BY <3>1, <3>2, JoinFacts
    <2>2. QED
      BY <1>6, <2>1
  <1> HIDE DEF c
  <1>8. Last(events).seq + 1 \in 1 .. MaxEvents + 1
    <2>1. Last(events).seq \in 1 .. MaxEvents
      BY <1>2, EventIsNoGarble
    <2>2. QED
      BY <2>1, BoundsAssumption
  <1>9. /\ conn' \in Conns /\ conn'.attached = conn.attached
        /\ conn'.next = Last(events).seq + 1 /\ conn'.chan = c
    <2>1. conn' = [conn EXCEPT !.next = Last(events).seq + 1, !.serving = ~Last(events).done, !.chan = c]
      BY <1>1 DEF c
    <2>2. (~Last(events).done) \in BOOLEAN
      BY Zenon
    <2>3. QED
      BY <1>3, <1>7, <1>8, <2>1, <2>2 DEF Conns
  <1>10. ServeInv'
    BY <1>1, <1>5, <1>9 DEF ServeInv
  <1>11. ChanInv'
    <2> SUFFICES ASSUME tears = 0 PROVE ChanInv'
      BY <1>1 DEF ChanInv
    <2>1. /\ conn.next - 1 + n <= Len(acked) /\ Len(acked) \in Nat
          /\ \A i \in 1 .. n : events[i] = acked[conn.next - 1 + i]
      BY <1>1, <1>4, PassIsLog DEF JInv, TypeOK, events
    <2>2. Last(events).seq = conn.next - 1 + n
      <3>1. conn.next - 1 + n \in 1 .. Len(acked)
        BY <1>2, <1>4, <2>1
      <3>2. n \in 1 .. n
        BY <1>2
      <3>3. acked[conn.next - 1 + n].seq = conn.next - 1 + n
        BY <3>1 DEF JInv, SoundInv
      <3>4. QED
        BY <1>2, <2>1, <3>2, <3>3
    <2>3. InFlight' = InFlight + n /\ InFlight \in Int
      BY SMTT(60), <1>1, <1>2, <1>4, <1>9, <2>2 DEF InFlight
    <2>4. InFlight >= 0 /\ FinalHeartbeats
      BY <1>5 DEF JInv, ChanInv
    <2>5. PICK h \in 0 .. Len(conn.chan) : Flight(h)
      BY <1>5 DEF JInv, ChanInv
    <2>6. h + InFlight = Len(conn.chan)
      BY <1>1, <2>5 DEF Flight
    <2>7. ASSUME NEW i \in 1 .. Len(c)
          PROVE  IF h < i /\ i <= h + InFlight + n
                 THEN c[i] = EventFrame(acked[client.last + (i - h)])
                 ELSE c[i].type # "event"
      <3>1. CASE i <= Len(conn.chan)
        <4>1. i \in 1 .. Len(conn.chan) /\ c[i] = conn.chan[i] /\ i <= h + InFlight
              /\ i <= h + InFlight + n
          BY <1>2, <1>3, <1>7, <2>3, <2>6, <3>1
        <4>2. QED
          BY <2>5, <4>1 DEF Flight
      <3>2. CASE i > Len(conn.chan)
        <4> DEFINE j == i - Len(conn.chan)
        <4>1. j \in 1 .. n /\ i = Len(conn.chan) + j
          BY <1>2, <1>3, <1>7, <3>2
        <4>2. c[i] = EventFrame(acked[conn.next - 1 + j])
          BY <1>7, <2>1, <4>1
        <4>3. conn.next - 1 + j = client.last + (i - h) /\ h < i /\ i <= h + InFlight + n
          <5>1. h \in Int /\ n \in Int /\ j \in Int /\ j >= 1 /\ j <= n /\ h <= Len(conn.chan)
                /\ Len(conn.chan) \in Int
            BY <1>2, <1>3, <4>1
          <5>2. InFlight = conn.next - 1 - client.last /\ InFlight >= 0 /\ InFlight \in Int
            BY <2>3, <2>4 DEF InFlight
          <5> HIDE DEF n, j
          <5>3. h < i /\ i <= h + InFlight + n
            BY <2>6, <4>1, <5>1, <5>2
          <5>4. i - h = InFlight + j
            BY SMTT(60), <2>6, <4>1, <5>1, <5>2
          <5>5. conn.next - 1 + j = client.last + (InFlight + j)
            <6>1. conn.next \in Int /\ client.last \in Int
              BY <1>4
            <6>2. QED
              BY SMTT(60), <5>1, <5>2, <6>1, GapOf
          <5>6. QED
            BY <5>3, <5>4, <5>5
        <4>4. QED
          BY <4>2, <4>3
      <3>3. QED
        BY <1>3, <3>1, <3>2
    <2>8. Flight(h)'
      <3>1. h + InFlight + n = Len(c) /\ h + (InFlight + n) = Len(c)
            /\ h + (InFlight + n) <= Len(c)
        <4>1. h \in Int /\ InFlight \in Int /\ n \in Int /\ Len(c) = h + InFlight + n
          <5>1. h \in Int /\ InFlight \in Int /\ n \in Int
            BY <1>2, <1>3, <2>3
          <5>2. Len(c) = Len(conn.chan) + n
            BY <1>7
          <5>3. QED
            BY <2>6, <5>1, <5>2
        <4> HIDE DEF n
        <4>2. QED
          BY <4>1, SumOf
      <3>2. h + (InFlight + n) = h + InFlight + n
        BY <1>2, <2>3
      <3>3. UNCHANGED <<acked, client>>
        BY <1>1 DEF jobVars
      <3>4. QED
        BY <1>9, <2>3, <2>7, <3>1, <3>2, <3>3 DEF Flight
    <2>9. FinalHeartbeats'
      <3>1. ASSUME losses = 0, NEW i \in 1 .. Len(c), c[i].type = "heartbeat", c[i].terminal
            PROVE  DoneBy(c[i].high)
        <4>1. CASE i <= Len(conn.chan)
          <5>1. i \in 1 .. Len(conn.chan) /\ c[i] = conn.chan[i]
            BY <1>3, <1>7, <4>1
          <5>2. QED
            BY <2>4, <3>1, <5>1 DEF FinalHeartbeats
        <4>2. CASE i > Len(conn.chan)
          <5> DEFINE j == i - Len(conn.chan)
          <5>1. j \in 1 .. n /\ i = Len(conn.chan) + j
            BY <1>2, <1>3, <1>7, <4>2
          <5> HIDE DEF j
          <5>2. c[i] = EventFrame(events[j])
            BY <1>7, <5>1
          <5>3. events[j] \in Event
            BY <1>2, <5>1
          <5>4. QED
            BY <3>1, <5>2, <5>3, FrameTypes
        <4>3. QED
          BY <1>3, <4>1, <4>2
      <3>2. UNCHANGED <<acked, losses>>
        BY <1>1 DEF jobVars
      <3>3. QED
        BY <1>9, <3>1, <3>2 DEF FinalHeartbeats, DoneBy
    <2>10. h \in 0 .. Len(c)
      BY <1>2, <1>3, <1>7
    <2>11. conn'.next - 1 <= Len(acked) /\ InFlight + n >= 0
      BY <1>2, <1>4, <1>9, <2>1, <2>2, <2>3, <2>4
    <2>12. QED
      BY <1>1, <1>9, <2>3, <2>8, <2>9, <2>10, <2>11 DEF ChanInv, jobVars
  <1>12. drops' \in 0 .. MaxDrops
    BY <1>1 DEF JInv, TypeOK
  <1>13. QED
    BY <1>1, <1>9, <1>10, <1>11, <1>12, ConnStep

(* A heartbeat follows only an empty channel, or ends the service. *)
LEMMA ServeHeartbeatKeeps ==
  ASSUME JInv, ServeHeartbeat PROVE JInv'
  <1>1. /\ conn.serving
        /\ UNCHANGED <<up, fileVars, seq, jobVars, granted, client, drops, crashes, tears>>
    BY DEF ServeHeartbeat, boundVars
  <1>2. up /\ conn.attached /\ seq # Closed
    BY <1>1, ServedIsUp DEF JInv
  <1>3. seq \in 0 .. MaxEvents /\ (tears = 0 => seq = Len(acked))
    BY <1>2 DEF JInv, TypeOK, SoundInv
  <1>4. TRUE \in BOOLEAN /\ Terminal \in BOOLEAN
    BY Zenon DEF Terminal
  <1>8. tears = 0 /\ losses = 0 /\ Terminal => DoneBy(seq)
    BY <1>3 DEF Terminal, JInv, RecordInv
  <1>5. CASE NothingLeft /\ conn' = [conn EXCEPT !.serving = FALSE,
                                                 !.chan = Append(@, Heartbeat(TRUE, seq))]
    <2> DEFINE f == Heartbeat(TRUE, seq)
    <2>1. f \in Frame /\ f.type = "heartbeat" /\ f.high = seq
      BY <1>3, <1>4, FrameTypes
    <2>2. tears = 0 /\ losses = 0 /\ f.type = "heartbeat" /\ f.terminal => DoneBy(f.high)
      BY <1>5, <1>8, <2>1 DEF NothingLeft
    <2> HIDE DEF f
    <2>3. conn' = [conn EXCEPT !.serving = FALSE, !.chan = Append(@, f)]
      BY <1>5 DEF f
    <2>4. QED
      BY <1>1, <2>1, <2>2, <2>3, LastFrame
  <1>6. CASE conn.chan = <<>> /\ conn' = [conn EXCEPT !.chan = <<Heartbeat(Terminal, seq)>>]
    <2> DEFINE f == Heartbeat(Terminal, seq)
    <2>1. f \in Frame /\ f.type = "heartbeat" /\ f.high = seq /\ (f.terminal <=> Terminal)
      BY <1>3, <1>4, FrameTypes
    <2> HIDE DEF f
    <2>2. conn' = [conn EXCEPT !.chan = <<f>>]
      BY <1>6 DEF f
    <2>3. <<f>> \in Seq(Frame) /\ Len(<<f>>) = 1 /\ <<f>>[1] = f
      BY <2>1
    <2>4. conn \in Conns
      BY DEF JInv, TypeOK, Conns
    <2>5. /\ conn' \in Conns /\ conn'.serving = conn.serving /\ conn'.attached = conn.attached
          /\ conn'.next = conn.next /\ conn'.chan = <<f>>
      BY <2>2, <2>3, <2>4 DEF Conns
    <2>6. ServeInv'
      BY <1>1, <1>2, <2>5 DEF ServeInv
    <2>7. ChanInv'
      <3> SUFFICES ASSUME tears = 0 PROVE ChanInv'
        BY <1>1 DEF ChanInv
      <3>1. PICK h \in 0 .. Len(conn.chan) : Flight(h)
        BY <1>2 DEF JInv, ChanInv
      <3>2. InFlight = 0
        <4>1. h + InFlight = Len(conn.chan) /\ Len(conn.chan) = 0 /\ InFlight \in Int
          BY <1>1, <1>6, <3>1 DEF Flight, InFlight, JInv, TypeOK
        <4>2. QED
          BY <4>1, <3>1
      <3>3. InFlight' = 0
        BY <1>1, <2>5, <3>2 DEF InFlight
      <3>4. Flight(1)'
        BY <2>1, <2>3, <2>5, <3>3 DEF Flight
      <3>5. FinalHeartbeats'
        BY <1>1, <1>8, <2>1, <2>3, <2>5 DEF FinalHeartbeats, DoneBy, jobVars
      <3>6. 1 \in 0 .. Len(conn'.chan)
        BY <2>3, <2>5
      <3>7. QED
        BY <3>3, <3>4, <3>5, <3>6 DEF ChanInv
    <2>8. drops' \in 0 .. MaxDrops
      BY <1>1 DEF JInv, TypeOK
    <2>9. QED
      BY <1>1, <2>5, <2>6, <2>7, <2>8, ConnStep
  <1>7. QED
    BY <1>5, <1>6 DEF ServeHeartbeat

-----------------------------------------------------------------------------
(* The follower *)

LEMMA HeadOfChan ==
  ASSUME TypeOK, conn.chan # <<>>
  PROVE  /\ Head(conn.chan) = conn.chan[1] /\ Head(conn.chan) \in Frame
         /\ Tail(conn.chan) \in Seq(Frame) /\ Len(conn.chan) \in Nat \ {0}
         /\ Len(Tail(conn.chan)) = Len(conn.chan) - 1
         /\ \A i \in 1 .. (Len(conn.chan) - 1) : Tail(conn.chan)[i] = conn.chan[i + 1]
  <1>1. conn.chan \in Seq(Frame)
    BY DEF TypeOK
  <1>2. QED
    BY <1>1

(* Places, one further on. *)
LEMMA OneFurther ==
  ASSUME NEW x \in Int, NEW l \in Int, NEW f \in Int, NEW i \in Int, f = x - 1 - l
  PROVE  x - 1 - (l + 1) = f - 1 /\ l + ((i + 1) - 0) = l + 1 + (i - 0)
  OBVIOUS

LEMMA OneLess ==
  ASSUME NEW h \in Int, NEW f \in Int, NEW n \in Int
  PROVE  /\ h + f <= n => (h - 1) + f <= n - 1
         /\ h + f = n => (h - 1) + f = n - 1
  OBVIOUS

LEMMA SamePlace ==
  ASSUME NEW h \in Int, NEW f \in Int, NEW i \in Int
  PROVE  /\ (h < i + 1 /\ i + 1 <= h + f) <=> (h - 1 < i /\ i <= (h - 1) + f)
         /\ (i + 1) - h = i - (h - 1)
  OBVIOUS

(* What the follower takes from any frame, torn journal or not. *)
LEMMA AfterType ==
  ASSUME TypeOK, NEW f \in Frame
  PROVE  /\ ClientAfter(f) \in Clients
         /\ ~Given(f) => ClientAfter(f) = client \/ ClientAfter(f) = [client EXCEPT !.state = "ended"]
                         \/ ClientAfter(f) = [client EXCEPT !.state = "refused"]
         /\ ~Given(f) /\ ClientAfter(f).state = "ended" /\ client.state # "ended" => Parting(f)
  <1>1. client \in Clients /\ client.last \in Nat /\ client.got \in Seq(Event)
    BY DEF TypeOK, Clients
  <1>2. CASE Given(f)
    <2>1. f.event \in Event \cup {Garbled} /\ f.event.seq > client.last
      <3>1. f.event \in Event \cup {Garbled}
        BY DEF Frame
      <3>2. f.event.seq \in Int
        BY <3>1, EventIsNoGarble DEF Garbled
      <3>3. QED
        BY <1>1, <1>2, <3>1, <3>2 DEF Given, Held
    <2>2. f.event \in Event /\ f.event.seq \in 0 .. MaxEvents
      <3>1. f.event # Garbled
        BY <1>1, <2>1 DEF Garbled
      <3>2. f.event \in Event
        BY <2>1, <3>1
      <3>3. QED
        BY <3>2, EventIsNoGarble
    <2>3. Append(client.got, f.event) \in Seq(Event)
      BY <1>1, <2>2
    <2>4. ClientAfter(f) = [client EXCEPT !.last = f.event.seq, !.got = Append(@, f.event),
                                          !.state = IF f.event.done THEN "ended" ELSE @]
      BY <1>2 DEF ClientAfter, Given, Parting
    <2>5. QED
      BY <1>1, <1>2, <2>2, <2>3, <2>4 DEF Clients
  <1>3. CASE ~Given(f)
    <2>1. ClientAfter(f) = IF Parting(f) THEN [client EXCEPT !.state = "ended"]
                           ELSE IF f.type = "refused" THEN [client EXCEPT !.state = "refused"]
                           ELSE client
      <3>1. CASE Parting(f)
        BY <1>3, <3>1 DEF ClientAfter, Parting
      <3>2. CASE ~Parting(f)
        BY <1>3, <3>2 DEF ClientAfter
      <3>3. QED
        BY <3>1, <3>2
    <2>2. QED
      BY <1>1, <1>3, <2>1 DEF Clients
  <1>4. QED
    BY <1>2, <1>3

(* Before any write was torn, an event that arrives is the next one. *)
LEMMA NextEvent ==
  ASSUME JInv, tears = 0, conn.attached, conn.chan # <<>>, Head(conn.chan).type = "event"
  PROVE  LET f == Head(conn.chan)
         IN /\ InFlight > 0 /\ Flight(0)
            /\ f.event = acked[client.last + 1] /\ f.event.seq = client.last + 1
            /\ client.last + 1 \in 1 .. Len(acked)
            /\ Given(f) /\ ~Gap(f.event)
  <1>1. PICK h \in 0 .. Len(conn.chan) : Flight(h)
    BY DEF JInv, ChanInv
  <1>2. /\ client.last \in Nat /\ conn.next \in Int /\ InFlight \in Int
        /\ InFlight = conn.next - 1 - client.last /\ Len(acked) \in Nat
    BY DEF JInv, TypeOK, InFlight
  <1>3. /\ Head(conn.chan) = conn.chan[1] /\ Len(conn.chan) \in Nat \ {0}
    BY HeadOfChan DEF JInv
  <1>4. 1 \in 1 .. Len(conn.chan)
    BY <1>3
  <1>5. h < 1 /\ 1 <= h + InFlight
    BY <1>1, <1>3, <1>4 DEF Flight
  <1>6. h = 0 /\ InFlight > 0
    BY <1>2, <1>3, <1>5
  <1>7. conn.chan[1] = EventFrame(acked[client.last + 1])
    <2>1. conn.chan[1] = EventFrame(acked[client.last + (1 - 0)])
      BY <1>1, <1>4, <1>5, <1>6 DEF Flight
    <2>2. QED
      BY <2>1
  <1>8. client.last + 1 \in 1 .. Len(acked)
    <2>1. conn.next - 1 <= Len(acked)
      BY <1>6 DEF JInv, ChanInv
    <2>2. QED
      BY <1>2, <1>6, <2>1
  <1>9. Head(conn.chan).event = acked[client.last + 1] /\ acked[client.last + 1].seq = client.last + 1
    BY <1>3, <1>7, <1>8 DEF EventFrame, JInv, SoundInv
  <1>10. ~Held(Head(conn.chan).event) /\ ~Gap(Head(conn.chan).event)
    BY <1>2, <1>9 DEF Held, Gap
  <1>11. QED
    BY <1>1, <1>6, <1>8, <1>9, <1>10 DEF Given

(* The frames in flight after the first one is received. *)
LEMMA TailFlight ==
  ASSUME JInv, tears = 0, conn.attached, conn.chan # <<>>,
         conn' = [conn EXCEPT !.chan = Tail(@)],
         \/ /\ Head(conn.chan).type = "event"
            /\ client'.last = client.last + 1
         \/ /\ Head(conn.chan).type # "event"
            /\ client'.last = client.last,
         UNCHANGED <<acked, losses>>
  PROVE  ChanInv'
  <1> DEFINE c == Tail(conn.chan)
  <1>1. /\ Head(conn.chan) = conn.chan[1] /\ Len(conn.chan) \in Nat \ {0}
        /\ c \in Seq(Frame) /\ Len(c) = Len(conn.chan) - 1
        /\ \A i \in 1 .. (Len(conn.chan) - 1) : c[i] = conn.chan[i + 1]
    BY HeadOfChan DEF JInv
  <1>2. /\ client.last \in Nat /\ conn.next \in Int /\ InFlight \in Int
        /\ InFlight = conn.next - 1 - client.last
    BY DEF JInv, TypeOK, InFlight
  <1>3. /\ conn'.chan = c /\ conn'.next = conn.next /\ conn'.serving = conn.serving
        /\ InFlight' = conn.next - 1 - client'.last
    BY DEF JInv, TypeOK, InFlight
  <1> HIDE DEF c
  <1>4. \A i \in 1 .. Len(c) : i + 1 \in 1 .. Len(conn.chan) /\ c[i] = conn.chan[i + 1]
    <2> SUFFICES ASSUME NEW i \in 1 .. Len(c)
                 PROVE  i + 1 \in 1 .. Len(conn.chan) /\ c[i] = conn.chan[i + 1]
      OBVIOUS
    <2>1. i \in 1 .. (Len(conn.chan) - 1) /\ i + 1 \in 1 .. Len(conn.chan)
      BY <1>1
    <2>2. QED
      BY <1>1, <2>1
  <1>5. FinalHeartbeats'
    BY <1>3, <1>4 DEF JInv, ChanInv, FinalHeartbeats, DoneBy
  <1>6. CASE Head(conn.chan).type = "event" /\ client'.last = client.last + 1
    <2>1. InFlight > 0 /\ Flight(0)
      BY <1>6, NextEvent
    <2>2. InFlight' = InFlight - 1
      <3>1. client.last \in Int /\ 0 \in Int
        BY <1>2
      <3>2. conn.next - 1 - (client.last + 1) = InFlight - 1
        BY <1>2, <3>1, OneFurther
      <3>3. QED
        BY <1>3, <1>6, <3>2
    <2>3. ASSUME NEW i \in 1 .. Len(c)
          PROVE  IF 0 < i /\ i <= 0 + (InFlight - 1)
                 THEN c[i] = EventFrame(acked[client.last + 1 + (i - 0)])
                 ELSE c[i].type # "event"
      <3>1. i \in Int /\ i + 1 \in 1 .. Len(conn.chan) /\ c[i] = conn.chan[i + 1]
        BY <1>4
      <3>2. IF 0 < i + 1 /\ i + 1 <= 0 + InFlight
            THEN conn.chan[i + 1] = EventFrame(acked[client.last + ((i + 1) - 0)])
            ELSE conn.chan[i + 1].type # "event"
        BY <2>1, <3>1 DEF Flight
      <3>3. client.last + ((i + 1) - 0) = client.last + 1 + (i - 0)
        <4>1. client.last \in Int
          BY <1>2
        <4>2. QED
          BY <1>2, <3>1, <4>1, OneFurther
      <3>4. (0 < i + 1 /\ i + 1 <= 0 + InFlight) <=> (0 < i /\ i <= 0 + (InFlight - 1))
        BY SMTT(60), <1>2, <3>1
      <3>5. QED
        BY <3>1, <3>2, <3>3, <3>4
    <2>4. /\ 0 + (InFlight - 1) <= Len(c)
          /\ conn.serving => 0 + (InFlight - 1) = Len(c)
      BY <1>1, <1>2, <2>1 DEF Flight
    <2>5. Flight(0)'
      BY <1>3, <1>6, <2>2, <2>3, <2>4 DEF Flight
    <2>6. 0 \in 0 .. Len(conn'.chan)
      BY <1>1, <1>3
    <2>7. InFlight > 0 => conn.next - 1 <= Len(acked)
      BY DEF JInv, ChanInv
    <2>8. InFlight - 1 >= 0
      BY <1>2, <2>1
    <2>9. QED
      BY <1>3, <1>5, <2>1, <2>2, <2>5, <2>6, <2>7, <2>8 DEF ChanInv
  <1>7. CASE Head(conn.chan).type # "event" /\ client'.last = client.last
    <2>1. PICK h \in 0 .. Len(conn.chan) : Flight(h)
      BY DEF JInv, ChanInv
    <2>2. InFlight' = InFlight /\ InFlight >= 0
          /\ (InFlight > 0 => conn.next - 1 <= Len(acked))
      BY <1>2, <1>3, <1>7 DEF JInv, ChanInv
    <2>3. h > 0 \/ InFlight = 0
      <3>1. 1 \in 1 .. Len(conn.chan)
        BY <1>1
      <3>2. ~(h < 1 /\ 1 <= h + InFlight)
        <4>1. ASSUME h < 1 /\ 1 <= h + InFlight PROVE FALSE
          <5>1. conn.chan[1] = EventFrame(acked[client.last + (1 - h)])
            BY <2>1, <3>1, <4>1 DEF Flight
          <5>2. QED
            BY <1>1, <1>7, <5>1 DEF EventFrame
        <4>2. QED
          BY <4>1
      <3>3. QED
        BY <1>1, <1>2, <2>2, <3>2
    <2> DEFINE k == IF h > 0 THEN h - 1 ELSE 0
    <2>4. /\ k \in 0 .. Len(c) /\ k + InFlight <= Len(c)
          /\ conn.serving => k + InFlight = Len(c)
      <3>1. /\ h + InFlight <= Len(conn.chan)
            /\ conn.serving => h + InFlight = Len(conn.chan)
            /\ h \in Nat /\ h <= Len(conn.chan) /\ Len(conn.chan) \in Nat \ {0}
            /\ Len(c) = Len(conn.chan) - 1
        BY <1>1, <2>1 DEF Flight
      <3>2. CASE h > 0
        <4>1. 0 \in Int /\ h \in Int /\ Len(conn.chan) \in Int
          BY <3>1
        <4>2. /\ (h - 1) + InFlight <= Len(conn.chan) - 1
              /\ conn.serving => (h - 1) + InFlight = Len(conn.chan) - 1
          BY <1>2, <3>1, <3>2, <4>1, OneLess
        <4>3. h - 1 \in 0 .. (Len(conn.chan) - 1)
          BY <3>1, <3>2
        <4>4. QED
          BY <3>1, <3>2, <4>2, <4>3
      <3>3. CASE h = 0
        <4>1. k = 0 /\ InFlight = 0
          BY <2>3, <3>3
        <4>2. ~conn.serving
          BY <3>1, <3>3, <4>1
        <4>3. Len(c) \in Nat
          BY <3>1
        <4>4. QED
          BY <4>1, <4>2, <4>3
      <3>4. QED
        BY <3>1, <3>2, <3>3
    <2>5. ASSUME NEW i \in 1 .. Len(c)
          PROVE  IF k < i /\ i <= k + InFlight
                 THEN c[i] = EventFrame(acked[client.last + (i - k)])
                 ELSE c[i].type # "event"
      <3>1. i \in Int /\ i + 1 \in 1 .. Len(conn.chan) /\ c[i] = conn.chan[i + 1] /\ h \in Int
        BY <1>1, <1>4
      <3>2. IF h < i + 1 /\ i + 1 <= h + InFlight
            THEN conn.chan[i + 1] = EventFrame(acked[client.last + ((i + 1) - h)])
            ELSE conn.chan[i + 1].type # "event"
        BY <2>1, <3>1 DEF Flight
      <3>3. CASE h > 0
        <4>1. /\ (h < i + 1 /\ i + 1 <= h + InFlight) <=> (k < i /\ i <= k + InFlight)
              /\ (i + 1) - h = i - k
          <5>1. k = h - 1 /\ 0 \in Int
            BY <3>3
          <5> HIDE DEF k
          <5>2. /\ (h < i + 1 /\ i + 1 <= h + InFlight) <=> (h - 1 < i /\ i <= (h - 1) + InFlight)
                /\ (i + 1) - h = i - (h - 1)
            BY <1>2, <3>1, SamePlace
          <5>3. QED
            BY <5>1, <5>2
        <4>2. QED
          BY <3>1, <3>2, <4>1
      <3>4. CASE ~(h > 0)
        <4>1. InFlight = 0 /\ h = 0 /\ k = 0
          BY <2>3, <3>4, <1>1
        <4>2. ~(h < i + 1 /\ i + 1 <= h + InFlight) /\ ~(k < i /\ i <= k + InFlight)
          BY <3>1, <4>1
        <4>3. QED
          BY <3>1, <3>2, <4>2
      <3>5. QED
        BY <3>3, <3>4
    <2> HIDE DEF k
    <2>6. Flight(k)'
      BY <1>3, <1>7, <2>2, <2>4, <2>5 DEF Flight
    <2>7. QED
      BY <1>3, <1>5, <2>2, <2>4, <2>6 DEF ChanInv
  <1>8. QED
    BY <1>6, <1>7

(* What one Receive does, torn journal or not. *)
LEMMA ReceiveStep ==
  ASSUME JInv, Receive
  PROVE  LET f == Head(conn.chan)
         IN /\ conn.attached /\ conn.chan # <<>> /\ client.state = "following" /\ f \in Frame
            /\ client' = ClientAfter(f) /\ client' \in Clients
            /\ \/ conn' = Hungup
               \/ conn' = [conn EXCEPT !.chan = Tail(@)] /\ client'.state = "following"
                  /\ ~(f.type = "event" /\ Gap(f.event))
            /\ UNCHANGED <<up, fileVars, seq, attempts, acked, record, readable, losses, worker,
                           cancel, granted, drops, crashes, tears>>
  <1>1. Head(conn.chan) \in Frame
    BY HeadOfChan DEF Receive, JInv
  <1>2. ClientAfter(Head(conn.chan)) \in Clients
    BY <1>1, AfterType DEF JInv
  <1>3. QED
    BY <1>1, <1>2 DEF Receive, jobVars, boundVars

(* Before any write was torn, the follower is given the next event of the  *)
(* log or none.                                                            *)
LEMMA GivenNext ==
  ASSUME JInv, Receive, tears = 0
  PROVE  \/ /\ Head(conn.chan).type = "event"
            /\ client.last + 1 \in 1 .. Len(acked)
            /\ client' = [client EXCEPT !.last = client.last + 1,
                                        !.got = Append(@, acked[client.last + 1]),
                                        !.state = IF acked[client.last + 1].done THEN "ended" ELSE @]
         \/ /\ Head(conn.chan).type # "event"
            /\ \/ client' = client
               \/ client' = [client EXCEPT !.state = "refused"]
               \/ /\ client' = [client EXCEPT !.state = "ended"]
                  /\ losses = 0 => DoneBy(client.last)
  <1> DEFINE f == Head(conn.chan)
  <1>1. conn.attached /\ conn.chan # <<>> /\ client' = ClientAfter(f) /\ f \in Frame
        /\ client.state = "following" /\ client \in Clients
    BY ReceiveStep DEF JInv, TypeOK, Clients
  <1>2. CASE f.type = "event"
    <2>1. /\ f.event = acked[client.last + 1] /\ f.event.seq = client.last + 1
          /\ client.last + 1 \in 1 .. Len(acked) /\ Given(f)
      BY <1>1, <1>2, NextEvent
    <2> HIDE DEF f
    <2>2. ClientAfter(f) = [client EXCEPT !.last = f.event.seq, !.got = Append(@, f.event),
                                          !.state = IF f.event.done THEN "ended" ELSE @]
      BY <2>1 DEF ClientAfter, Given, Parting
    <2>3. QED
      BY <1>1, <1>2, <2>1, <2>2 DEF f
  <1>3. CASE f.type # "event"
    <2>1. f = conn.chan[1] /\ 1 \in 1 .. Len(conn.chan)
      BY <1>1, HeadOfChan DEF JInv
    <2>2. Parting(f) => (losses = 0 => DoneBy(client.last))
      <3> SUFFICES ASSUME Parting(f), losses = 0 PROVE DoneBy(client.last)
        OBVIOUS
      <3>1. FinalHeartbeats
        BY <1>1 DEF JInv, ChanInv
      <3>2. DoneBy(f.high) /\ f.high <= client.last
        BY <2>1, <3>1 DEF FinalHeartbeats, Parting
      <3>3. client.last \in Int /\ Len(acked) \in Int /\ f.high \in Int
        BY <1>1 DEF JInv, TypeOK, Frame
      <3>4. QED
        BY <3>2, <3>3 DEF DoneBy
    <2> HIDE DEF f
    <2>3. ~Given(f)
      BY <1>3 DEF Given
    <2>4. \/ client' = client \/ client' = [client EXCEPT !.state = "refused"]
          \/ client' = [client EXCEPT !.state = "ended"] /\ Parting(f)
      BY <1>1, <2>3 DEF ClientAfter, Parting
    <2>5. QED
      BY <1>3, <2>2, <2>4 DEF f
  <1>4. QED
    BY <1>2, <1>3

LEMMA GotOne ==
  ASSUME NEW from \in Int, NEW n \in Int, NEW last, last = from - 1 + n, NEW m, m = n + 1
  PROVE  from - 1 + m = last + 1
  OBVIOUS

LEMMA ReceiveKeeps ==
  ASSUME JInv, Receive PROVE JInv'
  <1> DEFINE f == Head(conn.chan)
  <1>1. /\ conn.attached /\ conn.chan # <<>> /\ client.state = "following" /\ f \in Frame
        /\ client' = ClientAfter(f) /\ client' \in Clients
        /\ \/ conn' = Hungup
           \/ conn' = [conn EXCEPT !.chan = Tail(@)] /\ client'.state = "following"
        /\ UNCHANGED <<up, fileVars, lines, tail, seq, attempts, acked, record, readable, losses,
                       worker, cancel, granted, drops, crashes, tears>>
    BY ReceiveStep DEF fileVars
  <1>2. client.last \in Nat /\ client.got \in Seq(Event) /\ client \in Clients /\ conn \in Conns
        /\ acked \in Seq(Event)
    BY DEF JInv, TypeOK, Clients, Conns
  <1>3. conn' \in Conns
    <2>1. CASE conn' = Hungup
      BY <2>1, HungupType
    <2>2. CASE conn' = [conn EXCEPT !.chan = Tail(@)]
      <3>1. Tail(conn.chan) \in Seq(Frame)
        BY <1>1, HeadOfChan DEF JInv
      <3>2. QED
        BY <1>2, <2>2, <3>1 DEF Conns
    <2>3. QED
      BY <1>1, <2>1, <2>2
  <1>4. TypeOK'
    BY <1>1, <1>3 DEF JInv, TypeOK, Clients, Conns
  <1>5. FileInv' /\ SoundInv' /\ RecordInv'
    BY <1>1, FileFrame, SoundFrame, RecordFrame DEF JInv
  <1>6. ServeInv'
    <2>1. CASE conn' = Hungup
      BY <2>1, HungupKeeps
    <2>2. CASE conn' = [conn EXCEPT !.chan = Tail(@)]
      <3>1. conn'.serving = conn.serving /\ conn'.attached = conn.attached
        BY <1>2, <2>2 DEF Conns
      <3>2. up
        BY <1>1, HungupIdle DEF JInv, ServeInv
      <3>3. QED
        BY <1>1, <3>1, <3>2 DEF JInv, ServeInv
    <2>3. QED
      BY <1>1, <2>1, <2>2
  <1>7. ClientInv'
    <2> SUFFICES ASSUME tears = 0 PROVE ClientInv'
      BY <1>1 DEF ClientInv
    <2>1. /\ client.last = client.from - 1 + Len(client.got)
          /\ \A j \in 1 .. Len(client.got) :
               /\ client.from - 1 + j <= Len(acked)
               /\ client.got[j] = acked[client.from - 1 + j]
          /\ \A j \in 1 .. Len(client.got) : ~client.got[j].done
      BY <1>1 DEF JInv, ClientInv
    <2>2. CASE /\ f.type = "event" /\ client.last + 1 \in 1 .. Len(acked)
               /\ client' = [client EXCEPT !.last = client.last + 1,
                                           !.got = Append(@, acked[client.last + 1]),
                                           !.state = IF acked[client.last + 1].done THEN "ended" ELSE @]
      <3> DEFINE e == acked[client.last + 1]
                 g == Append(client.got, e)
      <3>1. e \in Event
        BY <1>2, <2>2
      <3>2. /\ client'.last = client.last + 1 /\ client'.got = g /\ client'.from = client.from
            /\ client'.state = IF e.done THEN "ended" ELSE "following"
        BY <1>1, <1>2, <2>2 DEF Clients
      <3>3. client.last + 1 <= Len(acked)
        BY <1>2, <2>2
      <3> HIDE DEF e
      <3>4. /\ g # <<>> /\ Len(g) = Len(client.got) + 1 /\ Len(client.got) \in Nat
            /\ \A j \in 1 .. Len(client.got) : g[j] = client.got[j]
            /\ g[Len(g)] = e /\ Last(g) = e
        BY <1>2, <3>1 DEF Last
      <3> HIDE DEF g
      <3>5. client.from \in Int
        BY StartPlace DEF JInv
      <3>6. client.from - 1 + Len(g) = client.last + 1
        <4>1. Len(client.got) \in Int /\ Len(g) = Len(client.got) + 1
          BY <3>4
        <4>2. client.last = client.from - 1 + Len(client.got)
          BY <2>1
        <4>3. QED
          BY <3>5, <4>1, <4>2, GotOne
      <3>7. ASSUME NEW j \in 1 .. Len(g)
            PROVE  /\ client.from - 1 + j <= Len(acked)
                   /\ g[j] = acked[client.from - 1 + j]
        <4>1. CASE j = Len(g)
          BY <3>3, <3>4, <3>6, <4>1 DEF e
        <4>2. CASE j # Len(g)
          <5>1. j \in 1 .. Len(client.got)
            BY <3>4, <4>2
          <5>2. QED
            BY <2>1, <3>4, <5>1
        <4>3. QED
          BY <4>1, <4>2
      <3>8. UNCHANGED acked
        BY <1>1
      <3>9. client'.last = client'.from - 1 + Len(client'.got)
        BY <3>2, <3>6
      <3>10. \A j \in 1 .. Len(client'.got) :
               /\ client'.from - 1 + j <= Len(acked')
               /\ client'.got[j] = acked'[client'.from - 1 + j]
        BY <3>2, <3>7, <3>8
      <3>11. client'.state = "following" => \A j \in 1 .. Len(client'.got) : ~client'.got[j].done
        <4> SUFFICES ASSUME ~e.done, NEW j \in 1 .. Len(g) PROVE ~g[j].done
          BY <3>2
        <4>1. CASE j = Len(g)
          BY <3>4, <4>1
        <4>2. CASE j # Len(g)
          <5>1. j \in 1 .. Len(client.got)
            BY <3>4, <4>2
          <5>2. QED
            BY <2>1, <3>4, <5>1
        <4>3. QED
          BY <4>1, <4>2
      <3>12. QED
        BY <3>9, <3>10, <3>11 DEF ClientInv
    <2>3. CASE f.type # "event"
      <3>1. /\ client'.last = client.last /\ client'.got = client.got /\ client'.from = client.from
        BY <1>1, <1>2, <2>3, GivenNext DEF Clients
      <3>2. QED
        BY <1>1, <2>1, <3>1 DEF ClientInv
    <2>4. QED
      BY <2>2, <2>3, GivenNext
  <1>8. ChanInv'
    <2>1. CASE conn' = Hungup
      BY <2>1, HungupKeeps
    <2>2. CASE conn' = [conn EXCEPT !.chan = Tail(@)] /\ tears = 0
      <3>1. \/ f.type = "event" /\ client'.last = client.last + 1
            \/ f.type # "event" /\ client'.last = client.last
        BY <1>2, <2>2, GivenNext DEF Clients
      <3>2. QED
        BY <1>1, <2>2, <3>1, TailFlight
    <2>3. CASE tears # 0
      BY <1>1, <2>3 DEF ChanInv
    <2>4. QED
      BY <1>1, <2>1, <2>2, <2>3
  <1>9. EndInv'
    <2> SUFFICES ASSUME tears = 0, losses = 0, client'.state = "ended" PROVE EndInv'
      BY <1>1 DEF EndInv
    <2>1. CASE /\ f.type = "event" /\ client.last + 1 \in 1 .. Len(acked)
               /\ client' = [client EXCEPT !.last = client.last + 1,
                                           !.got = Append(@, acked[client.last + 1]),
                                           !.state = IF acked[client.last + 1].done THEN "ended" ELSE @]
      <3> DEFINE e == acked[client.last + 1]
      <3>1. e \in Event
        BY <1>2, <2>1
      <3>2. client'.got = Append(client.got, e) /\ e.done
        BY <1>1, <1>2, <2>1 DEF Clients
      <3>3. client'.got # <<>> /\ Last(client'.got) = e
        BY <1>2, <3>1, <3>2 DEF Last
      <3>4. QED
        BY <3>2, <3>3 DEF EndInv
    <2>2. CASE f.type # "event"
      <3>1. client'.from = client.from /\ DoneBy(client.last)
        BY <1>1, <1>2, <2>2, GivenNext DEF Clients
      <3>2. PICK i \in 1 .. Len(acked) : acked[i].done /\ i <= client.last
        BY <3>1 DEF DoneBy
      <3>3. i <= client.from - 1
        <4> SUFFICES ASSUME i > client.from - 1 PROVE FALSE
          BY StartPlace DEF JInv
        <4> DEFINE j == i - (client.from - 1)
        <4>1. /\ client.last = client.from - 1 + Len(client.got)
              /\ \A k \in 1 .. Len(client.got) :
                   client.got[k] = acked[client.from - 1 + k] /\ ~client.got[k].done
          BY <1>1 DEF JInv, ClientInv
        <4>2. client.from \in Int /\ Len(client.got) \in Int /\ i \in Int
          BY <1>2, StartPlace DEF JInv
        <4>3. j \in 1 .. Len(client.got) /\ client.from - 1 + j = i
          BY <3>2, <4>1, <4>2
        <4> HIDE DEF j
        <4>4. QED
          BY <3>2, <4>1, <4>3
      <3>4. QED
        BY <1>1, <3>1, <3>2, <3>3 DEF EndInv, DoneBy
    <2>3. QED
      BY <2>1, <2>2, GivenNext
  <1>10. QED
    BY <1>4, <1>5, <1>6, <1>7, <1>8, <1>9 DEF JInv

LEMMA GiveUpKeeps ==
  ASSUME JInv, GiveUp PROVE JInv'
  <1>1. /\ ~up /\ client' = [client EXCEPT !.state = "lost"]
        /\ UNCHANGED <<up, fileVars, lines, tail, seq, attempts, acked, record, readable, losses,
                       worker, cancel, granted, conn, drops, crashes, tears>>
    BY DEF GiveUp, fileVars, jobVars, boundVars
  <1>2. client \in Clients
    BY DEF JInv, TypeOK, Clients
  <1>3. /\ client' \in Clients /\ client'.from = client.from /\ client'.last = client.last
        /\ client'.got = client.got /\ client'.state = "lost"
    BY <1>1, <1>2 DEF Clients
  <1>4. TypeOK'
    BY <1>1, <1>3 DEF JInv, TypeOK, Clients
  <1>5. FileInv' /\ SoundInv' /\ RecordInv'
    BY <1>1, FileFrame, SoundFrame, RecordFrame DEF JInv
  <1>6. ServeInv' /\ ChanInv'
    <2>1. conn' = Hungup
      BY <1>1 DEF JInv, ServeInv
    <2>2. QED
      BY <2>1, HungupKeeps
  <1>7. ClientInv' /\ EndInv'
    BY <1>1, <1>3 DEF JInv, ClientInv, EndInv
  <1>8. QED
    BY <1>4, <1>5, <1>6, <1>7 DEF JInv

-----------------------------------------------------------------------------
(* The invariant, and what follows from it *)

LEMMA InitHolds == Init => JInv
  <1> SUFFICES ASSUME Init PROVE JInv
    OBVIOUS
  <1>1. /\ up = TRUE /\ granted = TRUE /\ lines = <<>> /\ tail = <<>> /\ seq = 0 /\ attempts = 0
        /\ acked = <<>> /\ record = "queued" /\ readable = TRUE /\ worker = "none" /\ cancel = "idle"
        /\ conn = Hungup /\ drops = 0 /\ crashes = 0 /\ tears = 0 /\ losses = 0
    BY DEF Init, NoTail
  <1>2. PICK n \in FromSeqs :
          client = [from |-> n, last |-> n - 1, got |-> <<>>, state |-> "following"]
    BY DEF Init
  <1>3. n \in Int /\ n - 1 \in 0 .. MaxEvents
    <2>1. n \in 1 .. (MaxEvents + 1)
      BY BoundsAssumption
    <2>2. QED
      BY <2>1, BoundsAssumption
  <1>4. up \in BOOLEAN /\ granted \in BOOLEAN /\ readable \in BOOLEAN
    BY <1>1, Zenon
  <1>5. /\ 0 \in 0 .. MaxEvents /\ 0 \in 0 .. MaxDrops /\ 0 \in 0 .. MaxCrashes /\ 0 \in 0 .. MaxTears
        /\ 0 \in 0 .. MaxLosses
    BY BoundsAssumption
  <1>6. TypeOK
    <2>1. client \in Clients
      BY <1>2, <1>3 DEF Clients
    <2>2. lines \in Seq(Event \cup {Garbled}) /\ acked \in Seq(Event) /\ tail \in {NoTail}
      BY <1>1 DEF NoTail
    <2>3. QED
      BY <1>1, <1>4, <1>5, <2>1, <2>2, HungupType DEF TypeOK, Clients, Conns
  <1>7. FileInv /\ SoundInv /\ RecordInv
    BY <1>1 DEF FileInv, SoundInv, RecordInv, NoTail, Closed
  <1>8. ServeInv /\ ChanInv
    BY <1>1, HungupIdle DEF ServeInv, ChanInv
  <1>9. ClientInv /\ EndInv
    BY <1>2, <1>3 DEF ClientInv, EndInv
  <1>10. QED
    BY <1>6, <1>7, <1>8, <1>9 DEF JInv

LEMMA StutterKeeps ==
  ASSUME JInv, UNCHANGED vars PROVE JInv'
  <1>1. UNCHANGED <<up, fileVars, lines, tail, seq, attempts, acked, record, readable, losses,
                    worker, cancel, granted, conn, client, drops, crashes, tears>>
    BY DEF vars, fileVars, jobVars, boundVars
  <1>2. FileInv' /\ SoundInv' /\ RecordInv' /\ ClientInv' /\ EndInv' /\ ChanInv'
    BY <1>1, FileFrame, SoundFrame, RecordFrame, ClientFrame, ChanFrame DEF JInv
  <1>3. TypeOK' /\ ServeInv'
    BY <1>1 DEF JInv, TypeOK, ServeInv
  <1>4. QED
    BY <1>2, <1>3 DEF JInv

LEMMA StepKeeps == JInv /\ [Next]_vars => JInv'
  <1> SUFFICES ASSUME JInv, [Next]_vars PROVE JInv'
    OBVIOUS
  <1>1. CASE Write
    BY <1>1, AppendKeeps, CancelAppendKeeps, FailuresKeep DEF Write
  <1>7. CASE Job
    BY <1>7, WorkerKeeps, HandlerKeeps, LossKeeps DEF Job
  <1>2. CASE Outage
    BY <1>2, CrashKeeps, CrashInWriteKeeps, HangupKeeps, RevokeKeeps, GiveUpKeeps DEF Outage
  <1>3. CASE Reopen
    BY <1>3, ReopenKeeps
  <1>4. CASE Serve
    BY <1>4, ServeRevokedKeeps, ServeEventsKeeps, ServeCorruptKeeps, ServeHeartbeatKeeps DEF Serve
  <1>5. CASE Follow
    BY <1>5, AttachKeeps, ReceiveKeeps, HangupKeeps DEF Follow
  <1>6. CASE UNCHANGED vars
    BY <1>6, StutterKeeps
  <1>8. QED
    BY <1>1, <1>2, <1>3, <1>4, <1>5, <1>6, <1>7 DEF Next

(* The inductive invariant of the journal, its server and its follower.    *)
THEOREM JournalInvariant == Spec => []JInv
  BY InitHolds, StepKeeps, PTL DEF Spec

(* Whatever crashes, tears and drops there are: until one is torn, the     *)
(* events acknowledged are numbered 1, 2, 3 ... across restarts, and a     *)
(* journal whose lines all parse reads back everything acknowledged        *)
(* (journal.rs: append, open, replay).                                     *)
THEOREM JournalKeepsItsWord == Spec => []JournalIsSound
  <1>1. JInv => JournalIsSound
    <2> SUFFICES ASSUME JInv PROVE JournalIsSound
      OBVIOUS
    <2>1. TypeOK /\ SeqsAreDense
      BY DEF JInv, SoundInv, SeqsAreDense
    <2>2. TornTailTolerated
      BY CleanReplay DEF JInv, TornTailTolerated
    <2>3. QED
      BY <2>1, <2>2 DEF JournalIsSound
  <1>2. QED
    BY <1>1, JournalInvariant, PTL

(* A follower never takes a dropped link, a heartbeat, a restart or a      *)
(* cancel that races the worker for the end of the job: where it ends, a   *)
(* Done event was given to it or lies before the place it asked for        *)
(* (Attached::next, serve_attach).  While no append failed and the record  *)
(* could be read.                                                          *)
THEOREM FollowersEndAtTheEnd == Spec => []EndedSawDone
  <1>1. JInv => EndedSawDone
    <2> SUFFICES ASSUME JInv, client.state = "ended", tears = 0, losses = 0
                 PROVE  \/ client.got # <<>> /\ Last(client.got).done
                        \/ \E i \in 1 .. Len(acked) : acked[i].done /\ i < client.from
      BY DEF EndedSawDone
    <2>1. client.from \in Int
      BY StartPlace DEF JInv
    <2>2. QED
      BY <2>1 DEF JInv, EndInv, DoneBy
  <1>2. QED
    BY <1>1, JournalInvariant, PTL

-----------------------------------------------------------------------------
(* The stream implements a reliable log *)

(* Until a write is torn, every step writes the log, reads it or leaves it *)
(* alone.                                                                  *)
LEMMA LogStep == JInv /\ [Next]_vars => (tears' = 0 => [Log!Next]_(Log!vars))
  <1> SUFFICES ASSUME JInv, [Next]_vars, tears' = 0 PROVE [Log!Next]_(Log!vars)
    OBVIOUS
  <1> DEFINE same == UNCHANGED <<acked, client>>
  <1>1. ASSUME same PROVE UNCHANGED Log!vars
    BY <1>1 DEF Log!vars
  <1>2. ASSUME NEW done \in BOOLEAN, JournalAppend(done) PROVE \E e \in Event : Log!Write(e)
    <2> DEFINE e == NewEvent(done)
    <2>1. acked' = Append(acked, e) /\ client' = client
      BY <1>2 DEF JournalAppend
    <2>2. e \in Event
      <3>1. seq \in 0 .. MaxEvents /\ seq <= attempts /\ attempts \in 0 .. MaxEvents
            /\ attempts < MaxEvents
        BY <1>2 DEF JournalAppend, MayAppend, JInv, TypeOK, FileInv
      <3>2. QED
        BY <3>1, BoundsAssumption DEF NewEvent, Event
    <2>3. QED
      BY <2>1, <2>2 DEF Log!Write
  <1>3. ASSUME Receive PROVE [Log!Next]_(Log!vars)
    <2>1. tears = 0 /\ acked' = acked
      BY <1>3, ReceiveStep
    <2>2. client \in Clients
      BY DEF JInv, TypeOK, Clients
    <2>3. CASE Head(conn.chan).type # "event"
      <3>1. client'.from = client.from /\ client'.got = client.got
        BY <1>3, <2>1, <2>2, <2>3, GivenNext DEF Clients
      <3>2. QED
        BY <2>1, <3>1 DEF Log!vars
    <2>4. CASE Head(conn.chan).type = "event"
      <3>1. /\ client.last + 1 \in 1 .. Len(acked) /\ client'.from = client.from
            /\ client'.got = Append(client.got, acked[client.last + 1])
        BY <1>3, <2>1, <2>2, <2>4, GivenNext DEF Clients
      <3>2. client.from + Len(client.got) = client.last + 1
        <4>1. client.last = client.from - 1 + Len(client.got)
          BY <2>1 DEF JInv, ClientInv
        <4>2. client.from \in Int /\ Len(client.got) \in Int
          BY <2>2, StartPlace DEF JInv, Clients
        <4>3. QED
          BY <4>1, <4>2
      <3>3. client.last + 1 <= Len(acked)
        BY <3>1 DEF JInv, TypeOK
      <3>4. Log!Read
        BY <2>1, <3>1, <3>2, <3>3 DEF Log!Read
      <3>5. QED
        BY <3>4 DEF Log!Next
    <2>5. QED
      BY <2>3, <2>4
  <1>4. ASSUME GiveUp PROVE UNCHANGED Log!vars
    <2>1. client \in Clients
      BY DEF JInv, TypeOK, Clients
    <2>2. QED
      BY <1>4, <2>1 DEF GiveUp, Clients, jobVars, Log!vars
  <1>5. ASSUME AppendFails \/ CancelAppendFails \/ Job PROVE same
    BY <1>5 DEF AppendFails, CancelAppendFails, FailedAppend, Job, PickJob, Transition,
                WorkerLeaves, SaveDone, CancelLoad, CancelSave, RecordLost, RecordBack, JobOnly
  <1>6. ASSUME \/ Crash \/ Drop \/ Revoke \/ \E done, whole \in BOOLEAN : CrashInWrite(done, whole)
        PROVE  same
    BY <1>6 DEF Crash, Drop, Revoke, CrashInWrite, jobVars
  <1>7. ASSUME Reopen \/ Attach \/ StreamEnds PROVE same
    BY <1>7 DEF Reopen, Attach, StreamEnds, jobVars
  <1>8. ASSUME Serve PROVE same
    BY <1>8 DEF Serve, ServeRevoked, ServeEvents, ServeCorrupt, ServeHeartbeat, jobVars
  <1>9. ASSUME UNCHANGED vars PROVE same
    BY <1>9 DEF vars, jobVars
  <1>10. QED
    <2> HIDE DEF same
    <2>1. CASE CancelAppend \/ \E done \in BOOLEAN : AppendEvent(done)
      <3>1. TRUE \in BOOLEAN
        BY Zenon
      <3>2. QED
        BY <1>2, <2>1, <3>1 DEF AppendEvent, CancelAppend, Log!Next
    <2>2. CASE \/ AppendFails \/ CancelAppendFails \/ Job \/ Crash \/ Drop \/ Revoke \/ Reopen \/ Attach
               \/ StreamEnds \/ Serve \/ UNCHANGED vars
               \/ \E done, whole \in BOOLEAN : CrashInWrite(done, whole)
      BY <1>1, <1>5, <1>6, <1>7, <1>8, <1>9, <2>2
    <2>3. CASE Receive \/ GiveUp
      BY <1>3, <1>4, <2>3
    <2>4. QED
      BY <2>1, <2>2, <2>3 DEF Next, Write, Outage, Follow

(* docs/BENCH.md: a client that re-attaches "misses nothing, duplicates    *)
(* nothing": through crashes, restarts and dropped links, what append      *)
(* acknowledged and what the follower was given behave as a log and its    *)
(* reader, up to the first torn write.                                     *)
THEOREM StreamImplementsLog == Spec => StreamIsReliable
  <1>1. Init => Log!Init
    <2> SUFFICES ASSUME Init PROVE Log!Init
      OBVIOUS
    <2>1. client.from \in Nat \ {0}
      BY InitHolds, StartPlace DEF JInv
    <2>2. acked = <<>> /\ client.got = <<>>
      BY DEF Init
    <2>3. QED
      BY <2>1, <2>2 DEF Log!Init
  <1>2. QED
    BY <1>1, LogStep, JournalInvariant, PTL DEF Spec, StreamIsReliable
=============================================================================
