----------------------------- MODULE BenchSubmit -----------------------------
(***************************************************************************)
(* Submissions to a bench node, step by step: BenchHost::submit and the    *)
(* job store it works on (agent/src/bench/host.rs, job.rs).  Every         *)
(* connection of a peer is a task of its own, and nothing is locked        *)
(* between the look into the key index and the entry that is made there,   *)
(* with a probe of the machine in between.  BenchNode takes a submission   *)
(* as one step and says what becomes of the job.                           *)
(*                                                                         *)
(* A submission that is turned away for its rate, its parameters or its    *)
(* class never comes to the store.  An id is the second it was minted in,  *)
(* the key and the sender, as if its digest had no collisions; a temp file *)
(* is written whole.                                                       *)
(***************************************************************************)
EXTENDS Naturals, FiniteSets

CONSTANTS Stems, Exts,  \* a key is what comes before its last dot, and the rest
          Specs,        \* what a submission asks for
          Senders,      \* machines that submit
          Handlers,     \* the node's connection tasks
          QueueDepth,   \* BenchConfig::queue_depth
          MaxClock,     \* bound: seconds
          MaxSubmits,   \* bound: submissions
          MaxFaults,    \* bound: crashes and failed writes
          NoJob, NoSpec

ASSUME SubmitAssumption ==
  /\ QueueDepth \in Nat \ {0}
  /\ MaxClock \in Nat /\ MaxSubmits \in Nat /\ MaxFaults \in Nat
  /\ IsFiniteSet(Handlers) /\ Handlers # {}
  /\ NoSpec \notin Specs

Keys == [stem : Stems, ext : Exts]
Ids == [at : 0 .. MaxClock, key : Keys, sender : Senders]

ASSUME NoJobAssumption == NoJob \notin Ids

VARIABLES
  now,       \* the clock when it was last read, in seconds
  rec,       \* the job directories: nothing, empty, or a record in a state
  index,     \* by-key/<key>: the job a key names
  temp,      \* the temp file beside by-key/<key>, which lacks the extension
  handler,   \* the submission each task is in
  retiring,  \* the job whose key the worker has removed but not its directory
  submits,   \* history: submissions so far
  faults,    \* history: crashes and failures so far
  accepted,  \* history: the answers that name a job
  retired,   \* history: the jobs whose directory was removed
  disturbed  \* history: stems at which a submission or a retirement was cut
             \* short, or two of them overlapped

store == <<rec, index, temp>>
history == <<accepted, retired, disturbed>>
vars == <<now, store, handler, retiring, submits, faults, history>>

(* mkdir: the directory is known not to exist; save: it exists; temp: the  *)
(* record is saved; rename: the key's temp file is written.                *)
Places == {"idle", "load", "room", "mint", "exists", "mkdir", "save", "temp", "rename"}
Indexing == {"temp", "rename"}

Idle == [pc |-> "idle", key |-> NoJob, spec |-> NoSpec, sender |-> NoJob, job |-> NoJob]

Absent == [state |-> "absent", spec |-> NoSpec]
Saved == {"queued", "live", "done"}
Unfinished == {"queued", "live"}
Open == {j \in Ids : rec[j].state \in Unfinished}
Waiting == {j \in Ids : rec[j].state = "queued"}

Busy(h) == handler[h].pc # "idle"

Goto(h, pc) == handler' = [handler EXCEPT ![h].pc = pc]
Leave(h) == handler' = [handler EXCEPT ![h] = Idle]
Answer(h, j) ==
  accepted' = accepted \cup {[key |-> handler[h].key, spec |-> handler[h].spec, job |-> j]}

(* The stems at which a saved job is yet to be named, or one whose name is *)
(* gone is yet to be removed.                                              *)
HalfDone ==
  {v \in Stems : \/ \E h \in Handlers : handler[h].pc \in Indexing /\ handler[h].key.stem = v
                 \/ retiring # NoJob /\ retiring.key.stem = v}

Init ==
  /\ now = 0
  /\ rec = [j \in Ids |-> Absent]
  /\ index = [k \in Keys |-> NoJob]
  /\ temp = [s \in Stems |-> NoJob]
  /\ handler = [h \in Handlers |-> Idle]
  /\ retiring = NoJob
  /\ submits = 0 /\ faults = 0
  /\ accepted = {} /\ retired = {} /\ disturbed = {}

-----------------------------------------------------------------------------
(* BenchHost::submit *)

(* by_key: the entry of the key is read, and then the record it names. *)
Lookup(h, k, s, n) ==
  /\ ~Busy(h)
  /\ submits < MaxSubmits
  /\ submits' = submits + 1
  /\ handler' = [handler EXCEPT ![h] =
       [pc |-> IF index[k] = NoJob THEN "room" ELSE "load",
        key |-> k, spec |-> s, sender |-> n, job |-> index[k]]]
  /\ disturbed' = disturbed \cup
       {v \in {k.stem} : \E g \in Handlers : Busy(g) /\ handler[g].key.stem = v}
  /\ UNCHANGED <<now, store, retiring, faults, accepted, retired>>

(* The job the key names, if it is what is asked for; otherwise a conflict *)
(* of keys, or a store that cannot be read.                                *)
Load(h) ==
  /\ handler[h].pc = "load"
  /\ LET r == rec[handler[h].job] IN
     IF r.state \in Saved /\ r.spec = handler[h].spec
     THEN Answer(h, handler[h].job) ELSE UNCHANGED accepted
  /\ Leave(h)
  /\ UNCHANGED <<now, store, retiring, submits, faults, retired, disturbed>>

(* Mutant: the queue's limit includes the limit. *)
RoomForOneMore(h) ==
  /\ handler[h].pc = "room"
  /\ IF Cardinality(Waiting) > QueueDepth THEN Leave(h) ELSE Goto(h, "mint")
  /\ UNCHANGED <<now, store, retiring, submits, faults, history>>

Room(h) ==
  /\ handler[h].pc = "room"
  /\ IF Cardinality(Waiting) >= QueueDepth THEN Leave(h) ELSE Goto(h, "mint")
  /\ UNCHANGED <<now, store, retiring, submits, faults, history>>

(* The probe finds the disk too full, or the job gets its id. *)
Mint(h) ==
  /\ handler[h].pc = "mint"
  /\ \/ /\ Leave(h)
        /\ UNCHANGED now
     \/ /\ now' \in now .. MaxClock
        /\ handler' = [handler EXCEPT ![h].pc = "exists", ![h].job =
             [at |-> now', key |-> handler[h].key, sender |-> handler[h].sender]]
  /\ UNCHANGED <<store, retiring, submits, faults, history>>

(* JobStore::create. *)
Exists(h) ==
  /\ handler[h].pc = "exists"
  /\ IF rec[handler[h].job] # Absent THEN Leave(h) ELSE Goto(h, "mkdir")
  /\ UNCHANGED <<now, store, retiring, submits, faults, history>>

MakeDir(h) ==
  /\ handler[h].pc = "mkdir"
  /\ IF rec[handler[h].job] = Absent
     THEN rec' = [rec EXCEPT ![handler[h].job].state = "dir"] ELSE UNCHANGED rec
  /\ Goto(h, "save")
  /\ UNCHANGED <<now, index, temp, retiring, submits, faults, history>>

Save(h) ==
  /\ handler[h].pc = "save"
  /\ rec' = [rec EXCEPT ![handler[h].job] = [state |-> "queued", spec |-> handler[h].spec]]
  /\ Goto(h, "temp")
  /\ UNCHANGED <<now, index, temp, retiring, submits, faults, history>>

(* write_atomic: `with_extension' puts the temp file of v1.1 and of v1.2   *)
(* at the same path.                                                       *)
WriteTemp(h) ==
  /\ handler[h].pc = "temp"
  /\ temp' = [temp EXCEPT ![handler[h].key.stem] = handler[h].job]
  /\ Goto(h, "rename")
  /\ UNCHANGED <<now, rec, index, retiring, submits, faults, history>>

(* What the temp file holds becomes the entry; if it is gone, the rename   *)
(* fails, and so does the submission.                                      *)
Rename(h) ==
  /\ handler[h].pc = "rename"
  /\ LET k == handler[h].key IN
     IF temp[k.stem] # NoJob
     THEN /\ index' = [index EXCEPT ![k] = temp[k.stem]]
          /\ temp' = [temp EXCEPT ![k.stem] = NoJob]
          /\ Answer(h, handler[h].job)
     ELSE UNCHANGED <<index, temp, accepted>>
  /\ Leave(h)
  /\ UNCHANGED <<now, rec, retiring, submits, faults, retired, disturbed>>

(* A step of create fails; nothing of what it did before is undone. *)
WriteFails(h) ==
  /\ handler[h].pc \in {"mkdir", "save", "temp", "rename"}
  /\ faults < MaxFaults
  /\ faults' = faults + 1
  /\ disturbed' = disturbed \cup
       {v \in {handler[h].key.stem} : handler[h].pc \in Indexing}
  /\ Leave(h)
  /\ UNCHANGED <<now, store, retiring, submits, accepted, retired>>

-----------------------------------------------------------------------------
(* The rest of the node *)

(* The worker takes a job; it runs one at a time, and retires none then. *)
Run(j) ==
  /\ rec[j].state = "queued"
  /\ retiring = NoJob
  /\ \A i \in Ids : rec[i].state # "live"
  /\ rec' = [rec EXCEPT ![j].state = "live"]
  /\ UNCHANGED <<now, index, temp, handler, retiring, submits, faults, history>>

(* The job comes to an outcome, is orphaned, or is cancelled. *)
End(j) ==
  /\ rec[j].state \in Unfinished
  /\ rec' = [rec EXCEPT ![j].state = "done"]
  /\ UNCHANGED <<now, index, temp, handler, retiring, submits, faults, history>>

(* Mutant: the entry of the job's key is left. *)
RetireUnnamed(j) ==
  /\ rec[j].state = "done"
  /\ retiring = NoJob
  /\ \A i \in Ids : rec[i].state # "live"
  /\ retiring' = j
  /\ disturbed' = disturbed \cup
       {v \in {j.key.stem} : \E h \in Handlers : handler[h].pc \in Indexing /\ handler[h].job = j}
  /\ UNCHANGED <<now, store, handler, submits, faults, accepted, retired>>

(* retain, JobStore::remove: the entry of the job's key goes first. *)
RetireKey(j) ==
  /\ rec[j].state = "done"
  /\ retiring = NoJob
  /\ \A i \in Ids : rec[i].state # "live"
  /\ retiring' = j
  /\ index' = [index EXCEPT ![j.key] = NoJob]
  /\ disturbed' = disturbed \cup
       {v \in {j.key.stem} : \E h \in Handlers : handler[h].pc \in Indexing /\ handler[h].job = j}
  /\ UNCHANGED <<now, rec, temp, handler, submits, faults, accepted, retired>>

(* An entry that cannot be removed is passed over, and names nothing soon. *)
RetireKeyFails(j) ==
  /\ rec[j].state = "done"
  /\ retiring = NoJob
  /\ \A i \in Ids : rec[i].state # "live"
  /\ faults < MaxFaults
  /\ faults' = faults + 1
  /\ retiring' = j
  /\ disturbed' = disturbed \cup {j.key.stem}
  /\ UNCHANGED <<now, store, handler, submits, accepted, retired>>

RetireDir ==
  /\ retiring # NoJob
  /\ rec' = [rec EXCEPT ![retiring] = Absent]
  /\ retired' = retired \cup {retiring}
  /\ retiring' = NoJob
  /\ UNCHANGED <<now, index, temp, handler, submits, faults, accepted, disturbed>>

(* The directory stays, without its key; retain does not look at that. *)
RetireFails ==
  /\ retiring # NoJob
  /\ faults < MaxFaults
  /\ faults' = faults + 1
  /\ disturbed' = disturbed \cup {retiring.key.stem}
  /\ retiring' = NoJob
  /\ UNCHANGED <<now, store, handler, submits, accepted, retired>>

(* The agent goes down and comes back under another pid, which is in the   *)
(* name of its temp files.                                                 *)
Crash ==
  /\ faults < MaxFaults
  /\ faults' = faults + 1
  /\ handler' = [h \in Handlers |-> Idle]
  /\ temp' = [s \in Stems |-> NoJob]
  /\ retiring' = NoJob
  /\ disturbed' = disturbed \cup HalfDone
  /\ UNCHANGED <<now, rec, index, submits, accepted, retired>>

Create(h) == Exists(h) \/ MakeDir(h) \/ Save(h) \/ WriteTemp(h) \/ Rename(h) \/ WriteFails(h)

Submit(h) ==
  \/ \E k \in Keys, s \in Specs, n \in Senders : Lookup(h, k, s, n)
  \/ Load(h) \/ Room(h) \/ Mint(h) \/ Create(h)

Next ==
  \/ \E h \in Handlers : Submit(h)
  \/ \E j \in Ids : Run(j) \/ End(j) \/ RetireKey(j) \/ RetireKeyFails(j)
  \/ RetireDir \/ RetireFails \/ Crash

Spec == Init /\ [][Next]_vars

-----------------------------------------------------------------------------
(* Properties that hold *)

TypeOK ==
  /\ now \in 0 .. MaxClock
  /\ rec \in [Ids -> [state : Saved \cup {"absent", "dir"}, spec : Specs \cup {NoSpec}]]
  /\ index \in [Keys -> Ids \cup {NoJob}]
  /\ temp \in [Stems -> Ids \cup {NoJob}]
  /\ handler \in [Handlers -> [pc : Places, key : Keys \cup {NoJob}, spec : Specs \cup {NoSpec},
                               sender : Senders \cup {NoJob}, job : Ids \cup {NoJob}]]
  /\ \A h \in Handlers :
       /\ Busy(h) => /\ handler[h].key \in Keys /\ handler[h].spec \in Specs
                     /\ handler[h].sender \in Senders
       /\ handler[h].pc \in Places \ {"idle", "room", "mint"} => handler[h].job \in Ids
  /\ retiring \in Ids \cup {NoJob}
  /\ submits \in 0 .. MaxSubmits
  /\ faults \in 0 .. MaxFaults
  /\ accepted \subseteq [key : Keys, spec : Specs, job : Ids]
  /\ retired \subseteq Ids
  /\ disturbed \subseteq Stems

Calm(k) == k.stem \notin disturbed

(* BenchHost::submit and JobStore::create: while the submissions of a key  *)
(* come one after the other and none is cut short, whatever those of other *)
(* keys do, two jobs of the key are never both unfinished.                 *)
OneJobPerKey ==
  \A i, j \in Open : i.key = j.key /\ Calm(i.key) => i = j

(* JobStore::create, remove: a key names nothing but a job of its own that *)
(* has a record, and names every unfinished one, except that one that is   *)
(* being submitted is yet to be named.                                     *)
KeyFindsItsJob ==
  /\ \A k \in Keys : index[k] # NoJob /\ Calm(k) =>
       index[k].key = k /\ rec[index[k]].state \in Saved
  /\ \A j \in Open : Calm(j.key) =>
       \/ index[j.key] = j
       \/ \E h \in Handlers : handler[h].pc \in Indexing /\ handler[h].job = j

(* BenchRep::Accepted: the job a submitter is told of has its key and is   *)
(* there with what was asked for, until it is retired.                     *)
AnswersAreTrue ==
  \A a \in accepted : Calm(a.key) =>
    /\ a.job.key = a.key
    /\ a.job \in retired \/ (rec[a.job].state \in Saved /\ rec[a.job].spec = a.spec)

(* The bench node's idempotency index (job.rs), for submissions that other *)
(* keys' submissions, retirement, crashes and failed writes interleave     *)
(* with: one job for a key, found by it, and it is the job asked for.      *)
KeysAreKept == TypeOK /\ OneJobPerKey /\ KeyFindsItsJob /\ AnswersAreTrue

(* A submission that found room and is not queued yet. *)
Promised == {h \in Handlers : handler[h].pc \in {"mint", "exists", "mkdir", "save"}}

(* BenchConfig::queue_depth: the limit is read long before the job is      *)
(* queued, so submissions under way can pass it together, but by no more   *)
(* than there are of them.                                                 *)
QueueIsBounded ==
  Cardinality(Waiting) + Cardinality(Promised) < QueueDepth + Cardinality(Handlers)

-----------------------------------------------------------------------------
(* "The same key returns the same job" (docs/BENCH.md): two answers for a  *)
(* key name one job, unless one is retired or about to be.  Two            *)
(* submissions that overlap each find the key unused and make a job.       *)
SameKeySameJob ==
  \A a, b \in accepted :
    a.key = b.key => a.job = b.job \/ {a.job, b.job} \cap (retired \cup {retiring}) # {}
=============================================================================
