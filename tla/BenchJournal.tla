---------------------------- MODULE BenchJournal ----------------------------
(***************************************************************************)
(* One job's event journal, from the writers to the follower's terminal:   *)
(* Journal::append, open and replay over an NDJSON file that a crash or a  *)
(* full disk may tear, written by the worker and by a cancel handler that  *)
(* found the job queued; serve_attach, which replays and tails it over a   *)
(* connection and reads the job's record between two passes; and the       *)
(* client (Attached::next under follow) that re-attaches from last_seq + 1 *)
(* when the link drops.                                                    *)
(***************************************************************************)
EXTENDS Integers, Sequences, SequencesExt

CONSTANTS MaxEvents,   \* bound: appends attempted
          MaxDrops,    \* bound: link drops
          MaxCrashes,  \* bound: agent crashes
          MaxTears,    \* bound: writes of the journal that fail or are cut short
          MaxLosses,   \* bound: times the record becomes unreadable
          FromSeqs     \* --from-seq values a follower may start with

ASSUME BoundsAssumption ==
  /\ MaxEvents \in Nat /\ MaxDrops \in Nat /\ MaxCrashes \in Nat /\ MaxTears \in Nat
  /\ MaxLosses \in Nat
  /\ FromSeqs \subseteq 1..MaxEvents + 1

VARIABLES
  up,        \* is the agent running
  lines,     \* the complete lines of events.ndjson
  tail,      \* what follows the last newline
  seq,       \* Inner.seq of the open journal, or Closed
  attempts,  \* appends attempted; the number tells events apart
  acked,     \* events append() returned Ok for, in order
  record,    \* the state in job.json: "queued", "begun" or "done"
  readable,  \* does JobStore::load succeed
  worker,    \* the worker: "none", "picked", "run", or "finishing" after its Done
  cancel,    \* a cancel handler that loaded a queued job
  granted,   \* pin.bench of the client
  conn,      \* the attached connection
  client,    \* the follower
  drops, crashes, tears, losses

fileVars == <<lines, tail>>
recordVars == <<record, readable, losses>>
jobVars == <<attempts, acked, record, readable, losses, worker, cancel>>
boundVars == <<drops, crashes, tears>>
vars == <<up, fileVars, seq, jobVars, granted, conn, client, boundVars>>

Closed == -1

(* A journaled event: its seq, which append wrote it, and is it Done. *)
Event == [seq : 1..MaxEvents, id : 1..MaxEvents, done : BOOLEAN]
Garbled == [seq |-> 0, id |-> 0, done |-> FALSE]   \* a line that is not JSON
NoTail == <<>>

EventFrame(e) == [type |-> "event", event |-> e, terminal |-> FALSE, high |-> 0]
Heartbeat(terminal, high) ==
  [type |-> "heartbeat", event |-> Garbled, terminal |-> terminal, high |-> high]
Refused == [type |-> "refused", event |-> Garbled, terminal |-> FALSE, high |-> 0]
Frame == [type : {"event", "heartbeat", "refused"}, event : Event \cup {Garbled},
          terminal : BOOLEAN, high : 0..MaxEvents]

Hungup == [attached |-> FALSE, serving |-> FALSE, next |-> 1, chan |-> <<>>]

(* tail holds at most one element: a fragment of a line, or a whole event  *)
(* that only lacks its newline.                                            *)
TypeOK ==
  /\ up \in BOOLEAN /\ granted \in BOOLEAN
  /\ lines \in Seq(Event \cup {Garbled})
  /\ tail \in {NoTail} \cup {<<e>> : e \in Event \cup {Garbled}}
  /\ seq \in 0..MaxEvents \cup {Closed}
  /\ attempts \in 0..MaxEvents
  /\ acked \in Seq(Event)
  /\ record \in {"queued", "begun", "done"} /\ readable \in BOOLEAN
  /\ worker \in {"none", "picked", "run", "finishing"}
  /\ cancel \in {"idle", "loaded", "journaled"}
  /\ conn \in [attached : BOOLEAN, serving : BOOLEAN, next : 1..MaxEvents + 1,
               chan : Seq(Frame)]
  /\ client \in [from : FromSeqs, last : 0..MaxEvents, got : Seq(Event),
                 state : {"following", "ended", "refused", "lost"}]
  /\ drops \in 0..MaxDrops /\ crashes \in 0..MaxCrashes /\ tears \in 0..MaxTears
  /\ losses \in 0..MaxLosses

Init ==
  /\ up = TRUE /\ granted = TRUE
  /\ lines = <<>> /\ tail = NoTail
  /\ seq = 0 /\ attempts = 0 /\ acked = <<>>
  /\ record = "queued" /\ readable = TRUE /\ worker = "none" /\ cancel = "idle"
  /\ conn = Hungup
  /\ \E n \in FromSeqs :
       client = [from |-> n, last |-> n - 1, got |-> <<>>, state |-> "following"]
  /\ drops = 0 /\ crashes = 0 /\ tears = 0 /\ losses = 0

-----------------------------------------------------------------------------
(* The file *)

(* BufRead::lines yields the unterminated tail as a last line. *)
FileLines == lines \o tail

Malformed(i) == FileLines[i] = Garbled

(* Mutant of ReplayFails: a torn last line is corruption too. *)
ReplayIsStrict == \E i \in 1..Len(FileLines) : Malformed(i)

(* replay() gives up on a malformed line that is not the last one. *)
ReplayFails == \E i \in 1..(Len(FileLines) - 1) : Malformed(i)

Wanted(e, from) == e # Garbled /\ e.seq >= from

(* The loop of replay(): line by line, what is asked for is kept. *)
Selected(s, from) ==
  LET kept[i \in 0..Len(s)] ==
        IF i = 0 THEN <<>>
        ELSE IF Wanted(s[i], from) THEN Append(kept[i - 1], s[i])
        ELSE kept[i - 1]
  IN kept[Len(s)]

(* Mutant of Replay: the event asked for is left out. *)
ReplayAfter(from) == Selected(FileLines, from + 1)

Replay(from) == Selected(FileLines, from)

LastSeq(events) == IF events = <<>> THEN 0 ELSE Last(events).seq

(* The bytes of a line land after whatever the file ends with: behind a    *)
(* torn tail they only lengthen a line that no longer parses.              *)
Landed(e) == IF tail = NoTail THEN e ELSE Garbled

-----------------------------------------------------------------------------
(* The job: its record, the worker and a cancel handler.  Everything the   *)
(* model leaves out of them is in BenchNode.                               *)

JobOnly ==
  UNCHANGED <<up, fileVars, seq, attempts, acked, granted, conn, client, boundVars>>

(* next_job: the worker loads a queued job. *)
PickJob ==
  /\ up /\ worker = "none"
  /\ record = "queued" /\ readable
  /\ worker' = "picked"
  /\ UNCHANGED <<recordVars, cancel>> /\ JobOnly

(* transition() short of Done saves the worker's own copy, whatever the    *)
(* file says by now.                                                       *)
Transition ==
  /\ up /\ seq # Closed
  /\ worker \in {"picked", "run"}
  /\ worker' = "run"
  /\ record' = "begun" /\ readable' = TRUE
  /\ UNCHANGED <<losses, cancel>> /\ JobOnly

(* machine::run returns Err (a save or an append failed) or the executor   *)
(* leaves the job for later.                                               *)
WorkerLeaves ==
  /\ up /\ worker # "none"
  /\ worker' = "none"
  /\ UNCHANGED <<recordVars, cancel>> /\ JobOnly

(* cancel() on a job it finds queued. *)
CancelLoad ==
  /\ up /\ cancel = "idle"
  /\ record = "queued" /\ readable
  /\ cancel' = "loaded"
  /\ UNCHANGED <<recordVars, worker>> /\ JobOnly

(* The handler's save, whose failure it ignores. *)
CancelSave ==
  /\ up /\ cancel = "journaled"
  /\ cancel' = "idle"
  /\ \/ record' = "done" /\ readable' = TRUE
     \/ UNCHANGED <<record, readable>>
  /\ UNCHANGED <<losses, worker>> /\ JobOnly

(* Mutant of SaveDone: the record is saved before the Done event. *)
SaveDoneFirst ==
  /\ up
  /\ worker \in {"run", "finishing"}
  /\ worker' = "none"
  /\ record' = "done" /\ readable' = TRUE
  /\ UNCHANGED <<losses, cancel>> /\ JobOnly

(* finish() and orphan(): the record is saved terminal after the Done      *)
(* event.                                                                  *)
SaveDone ==
  /\ up
  /\ worker = "finishing"
  /\ worker' = "none"
  /\ record' = "done" /\ readable' = TRUE
  /\ UNCHANGED <<losses, cancel>> /\ JobOnly

(* load() fails: an I/O error, or a file that two savers tore. *)
RecordLost ==
  /\ readable
  /\ losses < MaxLosses
  /\ readable' = FALSE
  /\ losses' = losses + 1
  /\ UNCHANGED <<record, worker, cancel>> /\ JobOnly

(* An I/O error passes. *)
RecordBack ==
  /\ ~readable
  /\ readable' = TRUE
  /\ UNCHANGED <<record, losses, worker, cancel>> /\ JobOnly

-----------------------------------------------------------------------------
(* The writers: machine::emit and finish, and the cancel handler *)

NewEvent(done) == [seq |-> seq + 1, id |-> attempts + 1, done |-> done]

(* The journal is open, and open to anybody: nothing asks whether a Done   *)
(* has been journaled.                                                     *)
MayAppend == up /\ seq # Closed /\ attempts < MaxEvents

JournalAppend(done) ==
  /\ MayAppend
  /\ LET e == NewEvent(done)
     IN /\ lines' = Append(lines, Landed(e))
        /\ acked' = Append(acked, e)
  /\ tail' = NoTail
  /\ seq' = seq + 1
  /\ attempts' = attempts + 1
  /\ UNCHANGED <<up, recordVars, granted, conn, client, boundVars>>

AppendEvent(done) ==
  /\ worker = "run"
  /\ JournalAppend(done)
  /\ worker' = IF done THEN "finishing" ELSE worker
  /\ UNCHANGED cancel

(* The handler journals Done, whatever the worker has begun meanwhile. *)
CancelAppend ==
  /\ cancel = "loaded"
  /\ JournalAppend(TRUE)
  /\ cancel' = "journaled"
  /\ UNCHANGED worker

(* append() returns Err (the disk is full); what was written stays. *)
FailedAppend ==
  /\ MayAppend
  /\ tears < MaxTears
  /\ tail' \in {tail, <<Garbled>>}
  /\ attempts' = attempts + 1
  /\ tears' = tears + 1
  /\ UNCHANGED <<up, lines, seq, acked, recordVars, granted, conn, client, drops, crashes>>

(* The machine's wait ignores it, every other step of the machine leaves.  *)
AppendFails ==
  /\ worker = "run"
  /\ FailedAppend
  /\ worker' \in {"run", "none"}
  /\ UNCHANGED cancel

(* The handler ignores it, and a journal that does not open. *)
CancelAppendFails ==
  /\ cancel = "loaded"
  /\ \/ FailedAppend
     \/ up /\ seq = Closed /\ UNCHANGED recordVars /\ JobOnly
  /\ cancel' = "journaled"
  /\ UNCHANGED worker

(* The agent dies, and the worker and the handler with it. *)
Die ==
  /\ up
  /\ crashes < MaxCrashes
  /\ up' = FALSE
  /\ seq' = Closed
  /\ worker' = "none" /\ cancel' = "idle"
  /\ UNCHANGED recordVars
  /\ conn' = Hungup
  /\ crashes' = crashes + 1

Crash == Die /\ UNCHANGED <<fileVars, attempts, acked, granted, client, drops, tears>>

(* It dies inside write_all: a fragment, or all but the newline. *)
CrashInWrite(done, whole) ==
  /\ worker = "run" \/ (cancel = "loaded" /\ done)
  /\ MayAppend
  /\ tears < MaxTears
  /\ Die
  /\ tail' = <<IF whole THEN Landed(NewEvent(done)) ELSE Garbled>>
  /\ attempts' = attempts + 1
  /\ tears' = tears + 1
  /\ UNCHANGED <<lines, acked, granted, client, drops>>

(* Journal::open after the restart; a journal that replay refuses stays    *)
(* closed.  recover() takes a job up again that had begun, to wait for its *)
(* child or to journal that it is orphaned.                                *)
Reopen ==
  /\ ~up
  /\ up' = TRUE
  /\ seq' = IF ReplayFails THEN Closed ELSE LastSeq(Replay(0))
  /\ worker' = IF record = "begun" /\ readable /\ ~ReplayFails THEN "run" ELSE "none"
  /\ UNCHANGED <<fileVars, attempts, acked, recordVars, cancel, granted, conn, client, boundVars>>

-----------------------------------------------------------------------------
(* serve_attach and follow *)

(* Attach from last_seq + 1.  A record or a journal that does not open is  *)
(* answered UnknownJob.                                                    *)
Servable == granted /\ readable /\ seq # Closed

Attach ==
  /\ up /\ client.state = "following" /\ ~conn.attached
  /\ conn' = [attached |-> TRUE, serving |-> Servable, next |-> client.last + 1,
              chan |-> IF Servable THEN <<>> ELSE <<Refused>>]
  /\ UNCHANGED <<up, fileVars, seq, jobVars, granted, client, boundVars>>

Revoke ==
  /\ granted
  /\ granted' = FALSE
  /\ UNCHANGED <<up, fileVars, seq, jobVars, conn, client, boundVars>>

(* The grant is re-read every pass. *)
ServeRevoked ==
  /\ conn.serving /\ ~granted
  /\ conn' = [conn EXCEPT !.serving = FALSE, !.chan = Append(@, Refused)]
  /\ UNCHANGED <<up, fileVars, seq, jobVars, granted, client, boundVars>>

(* What one pass sends: everything from `next`, up to the first Done. *)
Sendable(from) ==
  LET events == Replay(from)
      dones == {i \in 1..Len(events) : events[i].done}
  IN IF dones = {} THEN events
     ELSE SubSeq(events, 1, CHOOSE i \in dones : \A k \in dones : i <= k)

(* Mutant of ServeEvents: the pass replays from the seq it last sent. *)
ServeSkipsOne ==
  /\ conn.serving /\ granted /\ ~ReplayFails
  /\ LET events == Sendable(conn.next + 1)
     IN /\ events # <<>>
        /\ conn' = [conn EXCEPT !.next = Last(events).seq + 1,
                                !.serving = ~Last(events).done,
                                !.chan = @ \o [i \in DOMAIN events |-> EventFrame(events[i])]]
  /\ UNCHANGED <<up, fileVars, seq, jobVars, granted, client, boundVars>>

ServeEvents ==
  /\ conn.serving /\ granted /\ ~ReplayFails
  /\ LET events == Sendable(conn.next)
     IN /\ events # <<>>
        /\ conn' = [conn EXCEPT !.next = Last(events).seq + 1,
                                !.serving = ~Last(events).done,
                                !.chan = @ \o [i \in DOMAIN events |-> EventFrame(events[i])]]
  /\ UNCHANGED <<up, fileVars, seq, jobVars, granted, client, boundVars>>

ServeCorrupt ==
  /\ conn.serving /\ granted /\ ReplayFails
  /\ conn' = [conn EXCEPT !.serving = FALSE]
  /\ UNCHANGED <<up, fileVars, seq, jobVars, granted, client, boundVars>>

(* load().map_or(Done, ..): a record that cannot be read counts as Done. *)
Terminal == record = "done" \/ ~readable

(* Terminal, and the journal holds nothing at or past `next`. *)
NothingLeft == Terminal /\ seq < conn.next

(* Nothing new: the parting heartbeat, or one every HEARTBEAT seconds.     *)
(* (One in flight at a time is enough: the client only discards them.)     *)
ServeHeartbeat ==
  /\ conn.serving /\ granted /\ ~ReplayFails
  /\ Sendable(conn.next) = <<>>
  /\ \/ NothingLeft /\ conn' = [conn EXCEPT !.serving = FALSE,
                                            !.chan = Append(@, Heartbeat(TRUE, seq))]
     \/ /\ ~NothingLeft
        /\ conn.chan = <<>>
        /\ conn' = [conn EXCEPT !.chan = <<Heartbeat(Terminal, seq)>>]
  /\ UNCHANGED <<up, fileVars, seq, jobVars, granted, client, boundVars>>

(* Attached::next on an event: one already held is skipped, a gap is an    *)
(* error, any other is given to the caller.                                *)
Held(e) == e.seq <= client.last
Gap(e) == client.last # 0 /\ e.seq > client.last + 1

Given(f) == f.type = "event" /\ ~Held(f.event) /\ ~Gap(f.event)

(* A terminal heartbeat with nothing past what the client holds. *)
Parting(f) == f.type = "heartbeat" /\ f.terminal /\ f.high <= client.last

ClientAfter(f) ==
  CASE Given(f) -> [client EXCEPT !.last = f.event.seq, !.got = Append(@, f.event),
                                  !.state = IF f.event.done THEN "ended" ELSE @]
    [] Parting(f) -> [client EXCEPT !.state = "ended"]
    [] f.type = "refused" -> [client EXCEPT !.state = "refused"]
    [] OTHER -> client

(* follow: after Done, a parting heartbeat, a refusal or a gap the client  *)
(* is through with this connection.                                        *)
Receive ==
  /\ conn.attached /\ conn.chan # <<>> /\ client.state = "following"
  /\ LET f == Head(conn.chan)
         gap == f.type = "event" /\ Gap(f.event)
     IN /\ client' = ClientAfter(f)
        /\ conn' = IF client'.state # "following" \/ gap THEN Hungup
                   ELSE [conn EXCEPT !.chan = Tail(@)]
  /\ UNCHANGED <<up, fileVars, seq, jobVars, granted, boundVars>>

(* The stream ended without the job's end: the client attaches again. *)
StreamEnds ==
  /\ conn.attached /\ ~conn.serving /\ conn.chan = <<>>
  /\ conn' = Hungup
  /\ UNCHANGED <<up, fileVars, seq, jobVars, granted, client, boundVars>>

(* The link goes, and what was in flight with it. *)
Drop ==
  /\ conn.attached
  /\ drops < MaxDrops
  /\ conn' = Hungup
  /\ drops' = drops + 1
  /\ UNCHANGED <<up, fileVars, seq, jobVars, granted, client, crashes, tears>>

(* retry_or: the outage outlasted the reconnect budget. *)
GiveUp ==
  /\ ~up /\ client.state = "following"
  /\ client' = [client EXCEPT !.state = "lost"]
  /\ UNCHANGED <<up, fileVars, seq, jobVars, granted, conn, boundVars>>

-----------------------------------------------------------------------------
Job == \/ PickJob \/ Transition \/ WorkerLeaves \/ SaveDone
       \/ CancelLoad \/ CancelSave \/ RecordLost \/ RecordBack

Write == \/ \E done \in BOOLEAN : AppendEvent(done)
         \/ AppendFails \/ CancelAppend \/ CancelAppendFails

Outage == \/ Crash
          \/ \E done, whole \in BOOLEAN : CrashInWrite(done, whole)
          \/ Drop \/ Revoke \/ GiveUp

Serve == ServeRevoked \/ ServeEvents \/ ServeCorrupt \/ ServeHeartbeat

Follow == Attach \/ Receive \/ StreamEnds

Next == Job \/ Write \/ Outage \/ Reopen \/ Serve \/ Follow

Spec == Init /\ [][Next]_vars

(* The serving loop's and the client's tasks are scheduled, and a service  *)
(* manager restarts the agent.                                             *)
FairSpec == /\ Spec
            /\ WF_vars(Reopen)
            /\ WF_vars(ServeEvents) /\ WF_vars(ServeRevoked) /\ WF_vars(ServeCorrupt)
            /\ WF_vars(ServeHeartbeat)
            /\ WF_vars(Attach) /\ WF_vars(Receive) /\ WF_vars(StreamEnds)

-----------------------------------------------------------------------------
(* Properties that hold *)

(* docs/BENCH.md: a client that re-attaches "misses nothing, duplicates    *)
(* nothing": acknowledged events and what the follower was given behave as *)
(* a reliable log, up to the first write that is torn.                     *)
Log == INSTANCE ReliableLog WITH Entry <- Event, log <- acked,
                                 start <- client.from, seen <- client.got
StreamIsReliable == Log!Init /\ [][tears' = 0 => [Log!Next]_(Log!vars)]_vars

(* A follower that stops as "ended" was given a Done event as its last, or *)
(* had asked to start past one, although record and journal are two files  *)
(* written by two tasks and the link may have dropped anywhere             *)
(* (serve_attach, Attached::next).  While no append failed and the record  *)
(* could be read: serve_attach takes a record it cannot load for Done, and *)
(* then ends the stream of a job that runs.                                *)
EndedSawDone ==
  client.state = "ended" /\ tears = 0 /\ losses = 0 =>
    \/ client.got # <<>> /\ Last(client.got).done
    \/ \E i \in 1..Len(acked) : acked[i].done /\ i < client.from

(* Seqs are 1-based, dense and never reused, also after crashes, which     *)
(* Journal::open recovers from the file (journal.rs), up to the first torn *)
(* write.                                                                  *)
SeqsAreDense == tears = 0 => \A i \in 1..Len(acked) : acked[i].seq = i

(* A torn tail by itself costs nothing: while no append has landed on one, *)
(* replay succeeds and returns every acknowledged event in order (replay,  *)
(* "tolerating a torn final line").                                        *)
TornTailTolerated ==
  (\A i \in 1..Len(lines) : lines[i] # Garbled) =>
    ~ReplayFails /\ IsPrefix(acked, Replay(0))

(* The journal is what was acknowledged, numbered without gaps, and no     *)
(* crash in the middle of a write takes an acknowledged event from it by   *)
(* itself (journal.rs: append, open, replay).                              *)
JournalIsSound == TypeOK /\ SeqsAreDense /\ TornTailTolerated

(* A follower of a job that is recorded Done for good ends too: by Done,   *)
(* by the parting heartbeat, by a refusal, or by giving up during an       *)
(* outage.  For a journal that is not torn: a Done event that landed       *)
(* behind a fragment is never served, and its follower never ends.         *)
FollowerEnds ==
  <>[](record = "done" /\ tears = 0) => <>(client.state # "following")

-----------------------------------------------------------------------------
(* What the documentation says and the code does not keep *)

(* journal.rs: at open, "a truncated last line is dropped rather than      *)
(* fatal": the journal never becomes unreadable.                           *)
JournalStaysReadable == ~ReplayFails
=============================================================================
