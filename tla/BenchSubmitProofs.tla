-------------------------- MODULE BenchSubmitProofs --------------------------
(***************************************************************************)
(* For any number of keys, machines, tasks, submissions, crashes and       *)
(* failed writes: a key whose submissions do not overlap and are not cut   *)
(* short keeps one job, which it finds and which is the job that was asked *)
(* for, whatever happens to other keys meanwhile; and submissions pass the *)
(* queue's limit by no more than there are tasks.                          *)
(***************************************************************************)
EXTENDS BenchSubmit, FiniteSetTheorems, TLAPS

(* From the minting of its job on, a task holds a job of its key. *)
Minted == {"exists", "mkdir", "save", "temp", "rename"}

MintInv == \A h \in Handlers : handler[h].pc \in Minted => handler[h].job.key = handler[h].key

(* From the lookup on that found its key unused. *)
Finding == Minted \cup {"room", "mint"}

-----------------------------------------------------------------------------
(* Types *)

(* The node starts with an empty store and nobody at work.                 *)
LEMMA InitType == Init => TypeOK /\ MintInv
<1>. SUFFICES ASSUME Init PROVE TypeOK /\ MintInv
  OBVIOUS
<1>. USE DEF Init
<1>1. rec \in [Ids -> [state : Saved \cup {"absent", "dir"}, spec : Specs \cup {NoSpec}]]
  BY DEF Absent, Saved
<1>2. handler \in [Handlers -> [pc : Places, key : Keys \cup {NoJob}, spec : Specs \cup {NoSpec},
                               sender : Senders \cup {NoJob}, job : Ids \cup {NoJob}]]
  BY DEF Idle, Places
<1>3. \A h \in Handlers : handler[h].pc = "idle"
  BY DEF Idle
<1>4. now \in 0 .. MaxClock /\ submits \in 0 .. MaxSubmits /\ faults \in 0 .. MaxFaults
  BY SubmitAssumption
<1>. QED  BY <1>1, <1>2, <1>3, <1>4 DEF TypeOK, MintInv, Minted, Busy

(* The values of a task's record. *)
Tasks == [pc : Places, key : Keys \cup {NoJob}, spec : Specs \cup {NoSpec},
          sender : Senders \cup {NoJob}, job : Ids \cup {NoJob}]

(* What TypeOK and MintInv say of one task. *)
TaskOK(t) ==
  /\ t \in Tasks
  /\ t.pc # "idle" => t.key \in Keys /\ t.spec \in Specs /\ t.sender \in Senders
  /\ t.pc \in Places \ {"idle", "room", "mint"} => t.job \in Ids
  /\ t.pc \in Minted => t.job.key = t.key

Rest ==
  /\ now \in 0 .. MaxClock
  /\ rec \in [Ids -> [state : Saved \cup {"absent", "dir"}, spec : Specs \cup {NoSpec}]]
  /\ index \in [Keys -> Ids \cup {NoJob}]
  /\ temp \in [Stems -> Ids \cup {NoJob}]
  /\ retiring \in Ids \cup {NoJob}
  /\ submits \in 0 .. MaxSubmits
  /\ faults \in 0 .. MaxFaults
  /\ accepted \subseteq [key : Keys, spec : Specs, job : Ids]
  /\ retired \subseteq Ids
  /\ disturbed \subseteq Stems

TasksOK == handler \in [Handlers -> Tasks] /\ \A h \in Handlers : TaskOK(handler[h])

(* The types, split into the tasks' records and the rest.                  *)
LEMMA TypeParts == TypeOK /\ MintInv <=> Rest /\ TasksOK
BY DEF TypeOK, MintInv, Rest, TasksOK, TaskOK, Tasks, Busy, Minted, Places

(* A step that gives one task another place keeps the types of them all. *)
LEMMA TaskStep ==
  ASSUME TasksOK, NEW h \in Handlers, NEW t, TaskOK(t), handler' = [handler EXCEPT ![h] = t]
  PROVE  TasksOK'
BY DEF TasksOK, TaskOK

(* A task that has left its submission.                                    *)
LEMMA IdleOK == TaskOK(Idle)
BY DEF TaskOK, Idle, Tasks, Places, Minted

(* Leaving keeps the tasks' records well formed ...                        *)
LEMMA LeaveStep ==
  ASSUME TasksOK, NEW h \in Handlers, Leave(h)
  PROVE  TasksOK'
BY IdleOK, TaskStep DEF Leave

(* ... and so does going on to a place that asks for no more than is there. *)
LEMMA GotoStep ==
  ASSUME TasksOK, NEW h \in Handlers, NEW pc, Goto(h, pc), Busy(h),
         pc \in Places \ {"idle", "load"},
         pc \in {"room", "mint"} \/ handler[h].pc \in Minted
  PROVE  TasksOK'
<1>. DEFINE t == [handler[h] EXCEPT !.pc = pc]
<1>1. handler' = [handler EXCEPT ![h] = t]
  BY DEF Goto
<1>2. handler[h] \in Tasks /\ TaskOK(handler[h])
  BY DEF TasksOK
<1>3. /\ t \in Tasks /\ t.pc = pc /\ t.key = handler[h].key /\ t.spec = handler[h].spec
      /\ t.sender = handler[h].sender /\ t.job = handler[h].job
  BY <1>2 DEF Tasks
<1>4. TaskOK(t)
  BY <1>2, <1>3 DEF TaskOK, Busy, Minted, Places
<1>. QED  BY <1>1, <1>4, TaskStep

(* An answer that names a job.                                             *)
LEMMA AnswerStep ==
  ASSUME Rest, TasksOK, NEW h \in Handlers, Busy(h), NEW j \in Ids, Answer(h, j)
  PROVE  accepted' \subseteq [key : Keys, spec : Specs, job : Ids]
<1>1. handler[h].key \in Keys /\ handler[h].spec \in Specs
  BY DEF TasksOK, TaskOK, Busy
<1>. QED  BY <1>1 DEF Answer, Rest

(* A submission begins (BenchHost::submit, by_key).                        *)
LEMMA LookupTypes ==
  ASSUME Rest, TasksOK, NEW h \in Handlers, NEW k \in Keys, NEW s \in Specs, NEW n \in Senders,
         Lookup(h, k, s, n)
  PROVE  Rest' /\ TasksOK'
<1>. USE DEF Lookup, store
<1>1. Rest'
  <2>1. k.stem \in Stems
    BY DEF Keys
  <2>2. submits' \in 0 .. MaxSubmits
    BY SubmitAssumption DEF Rest
  <2>3. disturbed' \subseteq Stems
    BY <2>1 DEF Rest
  <2>. QED  BY <2>2, <2>3 DEF Rest
<1>2. TasksOK'
  <2>. DEFINE t == [pc |-> IF index[k] = NoJob THEN "room" ELSE "load",
                    key |-> k, spec |-> s, sender |-> n, job |-> index[k]]
  <2>1. index[k] \in Ids \cup {NoJob}
    BY DEF Rest
  <2>2. t \in Tasks
    BY <2>1 DEF Tasks, Places
  <2>3. t.pc \in {"room", "load"} /\ (t.pc = "load" => t.job \in Ids)
    BY <2>1
  <2>4. TaskOK(t)
    BY <2>2, <2>3 DEF TaskOK, Minted
  <2>. QED  BY <2>4, TaskStep
<1>. QED  BY <1>1, <1>2

(* The record that the key names is read (JobStore::load).                 *)
LEMMA LoadTypes ==
  ASSUME Rest, TasksOK, NEW h \in Handlers, Load(h)
  PROVE  Rest' /\ TasksOK'
<1>1. TasksOK'
  BY LeaveStep DEF Load
<1>2. Busy(h) /\ handler[h].job \in Ids
  BY DEF Load, Busy, TasksOK, TaskOK, Places
<1>3. accepted' \subseteq [key : Keys, spec : Specs, job : Ids]
  BY <1>2, AnswerStep DEF Load, Rest
<1>. QED  BY <1>1, <1>3 DEF Load, store, Rest

(* The depth check (BenchHost::submit).                                    *)
LEMMA RoomTypes ==
  ASSUME Rest, TasksOK, NEW h \in Handlers, Room(h)
  PROVE  Rest' /\ TasksOK'
<1>1. Rest'
  BY DEF Room, Rest, store, history
<1>2. CASE Leave(h)
  BY <1>1, <1>2, LeaveStep
<1>3. CASE Goto(h, "mint")
  <2>1. Busy(h) /\ "mint" \in Places \ {"idle", "load"}
    BY DEF Room, Busy, Places
  <2>. QED  BY <1>1, <1>3, <2>1, GotoStep
<1>. QED  BY <1>2, <1>3 DEF Room

(* The probe and the id (JobStore::mint_id).                               *)
LEMMA MintTypes ==
  ASSUME Rest, TasksOK, NEW h \in Handlers, Mint(h)
  PROVE  Rest' /\ TasksOK'
<1>1. CASE Leave(h) /\ UNCHANGED now
  BY <1>1, LeaveStep DEF Mint, Rest, store, history
<1>2. CASE /\ now' \in now .. MaxClock
           /\ handler' = [handler EXCEPT ![h].pc = "exists", ![h].job =
                [at |-> now', key |-> handler[h].key, sender |-> handler[h].sender]]
  <2>1. now' \in 0 .. MaxClock
    BY <1>2, SubmitAssumption DEF Rest
  <2>2. Rest'
    BY <2>1 DEF Mint, Rest, store, history
  <2>. DEFINE j == [at |-> now', key |-> handler[h].key, sender |-> handler[h].sender]
              t == [handler[h] EXCEPT !.pc = "exists", !.job = j]
  <2>3. handler[h] \in Tasks /\ handler[h].key \in Keys /\ handler[h].spec \in Specs
        /\ handler[h].sender \in Senders
    BY DEF Mint, TasksOK, TaskOK
  <2>4. j \in Ids /\ j.key = handler[h].key
    BY <2>1, <2>3 DEF Ids
  <2>5. /\ t \in Tasks /\ t.pc = "exists" /\ t.job = j /\ t.key = handler[h].key
        /\ t.spec = handler[h].spec /\ t.sender = handler[h].sender
    BY <2>3, <2>4 DEF Tasks, Places
  <2>6. TaskOK(t)
    <3>. HIDE DEF t, j
    <3>. QED  BY <2>3, <2>4, <2>5 DEF TaskOK
  <2>7. handler' = [handler EXCEPT ![h] = t]
    BY <1>2 DEF TasksOK
  <2>. QED  BY <2>2, <2>6, <2>7, TaskStep
<1>. QED  BY <1>1, <1>2 DEF Mint

(* The steps of JobStore::create, failures included.                       *)
LEMMA CreateTypes ==
  ASSUME Rest, TasksOK, NEW h \in Handlers, Create(h)
  PROVE  Rest' /\ TasksOK'
<1>1. handler[h].pc \in {"exists", "mkdir", "save", "temp", "rename"}
  BY DEF Create, Exists, MakeDir, Save, WriteTemp, Rename, WriteFails
<1>2. /\ Busy(h) /\ handler[h].pc \in Minted /\ handler[h].job \in Ids /\ handler[h].key \in Keys
      /\ handler[h].spec \in Specs /\ handler[h].key.stem \in Stems
  BY <1>1 DEF Busy, TasksOK, TaskOK, Minted, Places, Keys
<1>3. ASSUME NEW pc, pc \in {"mkdir", "save", "temp", "rename"}, Goto(h, pc)
      PROVE  TasksOK'
  BY <1>2, <1>3, GotoStep DEF Places
<1>4. CASE Exists(h)
  BY <1>4, <1>3, LeaveStep DEF Exists, Rest, store, history
<1>5. CASE MakeDir(h)
  <2>1. TasksOK'
    BY <1>5, <1>3 DEF MakeDir
  <2>2. rec' \in [Ids -> [state : Saved \cup {"absent", "dir"}, spec : Specs \cup {NoSpec}]]
    BY <1>5 DEF MakeDir, Rest
  <2>. QED  BY <1>5, <2>1, <2>2 DEF MakeDir, Rest, history
<1>6. CASE Save(h)
  <2>1. TasksOK'
    BY <1>6, <1>3 DEF Save
  <2>2. rec' \in [Ids -> [state : Saved \cup {"absent", "dir"}, spec : Specs \cup {NoSpec}]]
    BY <1>6, <1>2 DEF Save, Rest, Saved
  <2>. QED  BY <1>6, <2>1, <2>2 DEF Save, Rest, history
<1>7. CASE WriteTemp(h)
  <2>1. TasksOK'
    BY <1>7, <1>3 DEF WriteTemp
  <2>2. temp' \in [Stems -> Ids \cup {NoJob}]
    BY <1>7, <1>2 DEF WriteTemp, Rest
  <2>. QED  BY <1>7, <2>1, <2>2 DEF WriteTemp, Rest, history
<1>8. CASE Rename(h)
  <2>1. TasksOK'
    BY <1>8, LeaveStep DEF Rename
  <2>2. accepted' \subseteq [key : Keys, spec : Specs, job : Ids]
    BY <1>8, <1>2, AnswerStep DEF Rename, Rest
  <2>3. index' \in [Keys -> Ids \cup {NoJob}] /\ temp' \in [Stems -> Ids \cup {NoJob}]
    BY <1>8, <1>2 DEF Rename, Rest
  <2>. QED  BY <1>8, <2>1, <2>2, <2>3 DEF Rename, Rest
<1>9. CASE WriteFails(h)
  <2>1. TasksOK'
    BY <1>9, LeaveStep DEF WriteFails
  <2>2. disturbed' \subseteq Stems
    BY <1>9, <1>2 DEF WriteFails, Rest
  <2>3. faults' \in 0 .. MaxFaults
    BY <1>9, SubmitAssumption DEF WriteFails, Rest
  <2>. QED  BY <1>9, <2>1, <2>2, <2>3 DEF WriteFails, Rest, store
<1>. QED  BY <1>4, <1>5, <1>6, <1>7, <1>8, <1>9 DEF Create

(* The worker, retention and a restart of the agent.                       *)
LEMMA NodeTypes ==
  ASSUME Rest, TasksOK,
         (\E j \in Ids : Run(j) \/ End(j) \/ RetireKey(j) \/ RetireKeyFails(j)) \/ RetireDir \/ RetireFails \/ Crash
  PROVE  Rest' /\ TasksOK'
<1>. DEFINE Records == [state : Saved \cup {"absent", "dir"}, spec : Specs \cup {NoSpec}]
<1>1. ASSUME NEW j \in Ids, Run(j) \/ End(j) PROVE Rest' /\ TasksOK'
  <2>1. rec' \in [Ids -> Records]
    BY <1>1 DEF Run, End, Rest, Saved
  <2>. QED  BY <1>1, <2>1 DEF Run, End, Rest, TasksOK, history
<1>2. ASSUME NEW j \in Ids, RetireKey(j) PROVE Rest' /\ TasksOK'
  <2>1. j.key \in Keys /\ j.key.stem \in Stems
    BY DEF Ids, Keys
  <2>2. index' \in [Keys -> Ids \cup {NoJob}] /\ disturbed' \subseteq Stems
    BY <1>2, <2>1 DEF RetireKey, Rest
  <2>. QED  BY <1>2, <2>2 DEF RetireKey, Rest, TasksOK
<1>6. ASSUME NEW j \in Ids, RetireKeyFails(j) PROVE Rest' /\ TasksOK'
  <2>1. j.key.stem \in Stems
    BY DEF Ids, Keys
  <2>2. disturbed' \subseteq Stems /\ faults' \in 0 .. MaxFaults
    BY <1>6, <2>1, SubmitAssumption DEF RetireKeyFails, Rest
  <2>. QED  BY <1>6, <2>2 DEF RetireKeyFails, Rest, TasksOK, store
<1>3. CASE RetireDir
  <2>1. rec' \in [Ids -> Records]
    BY <1>3 DEF RetireDir, Rest, Absent
  <2>. QED  BY <1>3, <2>1 DEF RetireDir, Rest, TasksOK
<1>4. CASE RetireFails
  <2>1. retiring.key.stem \in Stems
    BY <1>4 DEF RetireFails, Rest, Ids, Keys
  <2>2. faults' \in 0 .. MaxFaults
    BY <1>4, SubmitAssumption DEF RetireFails, Rest
  <2>. QED  BY <1>4, <2>1, <2>2 DEF RetireFails, Rest, TasksOK, store
<1>5. CASE Crash
  <2>1. TasksOK'
    BY <1>5, IdleOK DEF Crash, TasksOK, TaskOK
  <2>2. faults' \in 0 .. MaxFaults
    BY <1>5, SubmitAssumption DEF Crash, Rest
  <2>3. disturbed' \subseteq Stems
    BY <1>5 DEF Crash, Rest, HalfDone
  <2>. QED  BY <1>5, <2>1, <2>2, <2>3 DEF Crash, Rest
<1>. QED  BY <1>1, <1>2, <1>3, <1>4, <1>5, <1>6

(* Every step keeps the types and gives a task a job of its own key.       *)
LEMMA TypeStep == TypeOK /\ MintInv /\ [Next]_vars => TypeOK' /\ MintInv'
<1>. SUFFICES ASSUME Rest, TasksOK, [Next]_vars PROVE Rest' /\ TasksOK'
  <2>1. Rest' /\ TasksOK' => TypeOK' /\ MintInv'
    BY DEF TypeOK, MintInv, Rest, TasksOK, TaskOK, Tasks, Busy, Minted, Places
  <2>. QED  BY <2>1, TypeParts
<1>1. CASE UNCHANGED vars
  BY <1>1 DEF vars, store, history, Rest, TasksOK
<1>2. ASSUME NEW h \in Handlers, Submit(h) PROVE Rest' /\ TasksOK'
  BY <1>2, LookupTypes, LoadTypes, RoomTypes, MintTypes, CreateTypes DEF Submit
<1>. QED  BY <1>1, <1>2, NodeTypes DEF Next

-----------------------------------------------------------------------------
(* The inductive invariant *)

(* Two submissions under way are for keys with different temp files.       *)
AloneInv ==
  \A g, h \in Handlers :
    Busy(g) /\ Busy(h) /\ handler[g].key.stem = handler[h].key.stem /\ Calm(handler[h].key)
      => g = h

(* What a key names is its job, saved, and not about to go.                *)
NamedInv ==
  \A k \in Keys : index[k] # NoJob /\ Calm(k) =>
    index[k].key = k /\ rec[index[k]].state \in Saved /\ index[k] # retiring

(* A key found unused stays unused until the submission names its job.     *)
UnusedInv ==
  \A h \in Handlers : handler[h].pc \in Finding /\ Calm(handler[h].key) =>
    index[handler[h].key] = NoJob

(* A saved job is named by its key, is going, or is about to be named.     *)
ReachedInv ==
  \A j \in Ids : rec[j].state \in Saved /\ Calm(j.key) =>
    \/ index[j.key] = j
    \/ retiring = j
    \/ \E h \in Handlers : handler[h].pc \in Indexing /\ handler[h].job = j

(* What a submission has made so far is as it left it.                     *)
HeldInv ==
  \A h \in Handlers : Busy(h) /\ Calm(handler[h].key) =>
    LET t == handler[h] IN
    /\ t.pc = "load" => t.job.key = t.key
    /\ t.pc = "mkdir" => rec[t.job] = Absent
    /\ t.pc = "save" => rec[t.job].state = "dir"
    /\ t.pc \in Indexing => /\ rec[t.job].state \in Saved /\ rec[t.job].spec = t.spec
                            /\ retiring # t.job
    /\ t.pc = "rename" => temp[t.key.stem] = t.job

RetireInv == retiring # NoJob /\ Calm(retiring.key) => rec[retiring].state = "done"

CalmInv ==
  /\ AloneInv /\ NamedInv /\ UnusedInv /\ ReachedInv /\ HeldInv /\ RetireInv /\ AnswersAreTrue

SubmitInv == TypeOK /\ MintInv /\ CalmInv

(* At the start no key names a job and no job is saved.                    *)
LEMMA InitCalm == Init => CalmInv
<1>. SUFFICES ASSUME Init PROVE CalmInv
  OBVIOUS
<1>1. \A h \in Handlers : handler[h].pc = "idle"
  BY DEF Init, Idle
<1>2. \A j \in Ids : rec[j].state = "absent"
  BY DEF Init, Absent
<1>. QED
  BY <1>1, <1>2 DEF Init, CalmInv, AloneInv, NamedInv, UnusedInv, ReachedInv, HeldInv, RetireInv,
    AnswersAreTrue, Busy, Finding, Minted, Indexing, Saved

(* What TypeOK says of a task that is at work. *)
LEMMA BusyTask ==
  ASSUME TypeOK, NEW h \in Handlers, Busy(h)
  PROVE  /\ handler[h].key \in Keys /\ handler[h].key.stem \in Stems /\ handler[h].spec \in Specs
         /\ handler[h].pc \in Minted \cup {"load"} => handler[h].job \in Ids
BY DEF TypeOK, Keys, Busy, Minted, Places

(* A submission that begins beside another of its stem disturbs it.        *)
LEMMA LookupCalm ==
  ASSUME TypeOK, MintInv, CalmInv, NEW h \in Handlers, NEW k \in Keys, NEW s \in Specs,
         NEW n \in Senders, Lookup(h, k, s, n)
  PROVE  CalmInv'
<1>. DEFINE t == [pc |-> IF index[k] = NoJob THEN "room" ELSE "load",
                  key |-> k, spec |-> s, sender |-> n, job |-> index[k]]
<1>1. /\ handler[h].pc = "idle" /\ handler'[h] = t
      /\ \A g \in Handlers : g # h => handler'[g] = handler[g]
  BY DEF Lookup, TypeOK, Busy
<1>2. t.pc \in {"room", "load"} /\ (t.pc = "load" <=> index[k] # NoJob) /\ t.key = k /\ t.job = index[k]
  OBVIOUS
<1>. HIDE DEF t
<1>3. UNCHANGED <<rec, index, temp, retiring, accepted, retired>> /\ disturbed \subseteq disturbed'
  BY DEF Lookup, store
<1>4. \A g \in Handlers : Busy(g) /\ handler[g].key.stem = k.stem => k.stem \in disturbed'
  BY DEF Lookup
<1>5. \A i : Calm(i)' => Calm(i)
  BY <1>3 DEF Calm
<1>6. \A g \in Handlers : g # h => Busy(g)' = Busy(g)
  BY <1>1 DEF Busy
<1>7. AloneInv'
  BY <1>1, <1>2, <1>4, <1>5, <1>6 DEF CalmInv, AloneInv, Calm
<1>8. NamedInv'
  BY <1>3, <1>5 DEF CalmInv, NamedInv
<1>9. UnusedInv'
  BY <1>1, <1>2, <1>3, <1>5 DEF CalmInv, UnusedInv, Finding, Minted
<1>10. ReachedInv'
  BY <1>1, <1>3, <1>5 DEF CalmInv, ReachedInv, Indexing
<1>11. HeldInv'
  <2>1. index[k] # NoJob /\ Calm(k)' => index[k].key = k
    BY <1>5 DEF CalmInv, NamedInv
  <2>. QED  BY <1>1, <1>2, <1>3, <1>5, <1>6, <2>1 DEF CalmInv, HeldInv, Indexing
<1>12. RetireInv' /\ AnswersAreTrue'
  BY <1>3, <1>5 DEF CalmInv, RetireInv, AnswersAreTrue
<1>. QED  BY <1>7, <1>8, <1>9, <1>10, <1>11, <1>12 DEF CalmInv

(* Nothing but a task's place changes: it leaves before anything is saved, *)
(* or comes to a place that asks nothing more of the store.                *)
LEMMA MoveCalm ==
  ASSUME TypeOK, CalmInv, NEW h \in Handlers, Busy(h), NEW t,
         handler' = [handler EXCEPT ![h] = t],
         UNCHANGED <<rec, index, temp, retiring, accepted, retired, disturbed>>,
         handler[h].pc \notin Indexing,
         \/ t.pc = "idle"
         \/ /\ t.key = handler[h].key /\ t.pc \in Finding /\ handler[h].pc \in Finding
            /\ t.pc \notin {"save"} \cup Indexing
            /\ t.pc = "mkdir" => rec[t.job] = Absent
  PROVE  CalmInv'
<1>1. handler'[h] = t /\ \A g \in Handlers : g # h => handler'[g] = handler[g]
  BY DEF TypeOK
<1>2. \A g \in Handlers : g # h => Busy(g)' = Busy(g)
  BY <1>1 DEF Busy
<1>3. \A i : Calm(i)' = Calm(i)
  BY DEF Calm
<1>4. Busy(h)' => t.key = handler[h].key
  BY <1>1 DEF Busy
<1>5. AloneInv'
  BY <1>1, <1>2, <1>3, <1>4 DEF CalmInv, AloneInv
<1>6. NamedInv' /\ RetireInv' /\ AnswersAreTrue'
  BY <1>3 DEF CalmInv, NamedInv, RetireInv, AnswersAreTrue
<1>7. UnusedInv'
  BY <1>1, <1>3 DEF CalmInv, UnusedInv, Finding, Minted
<1>8. ReachedInv'
  BY <1>1, <1>3 DEF CalmInv, ReachedInv
<1>9. HeldInv'
  BY <1>1, <1>2, <1>3 DEF CalmInv, HeldInv, Busy, Finding, Minted, Indexing
<1>. QED  BY <1>5, <1>6, <1>7, <1>8, <1>9 DEF CalmInv

(* An answer from the record of the key is that key's job.                 *)
LEMMA LoadCalm ==
  ASSUME TypeOK, MintInv, CalmInv, NEW h \in Handlers, Load(h)
  PROVE  CalmInv'
<1>1. Busy(h) /\ handler[h].pc = "load"
  BY DEF Load, Busy
<1>2. handler'[h] = Idle /\ \A g \in Handlers : g # h => handler'[g] = handler[g]
  BY DEF Load, Leave, TypeOK
<1>3. UNCHANGED <<rec, index, temp, retiring, retired, disturbed>>
  BY DEF Load, store
<1>4. \A g \in Handlers : g # h => Busy(g)' = Busy(g)
  BY <1>2 DEF Busy
<1>5. ~Busy(h)' /\ \A i : Calm(i)' = Calm(i)
  BY <1>2, <1>3 DEF Busy, Calm, Idle
<1>6. AloneInv' /\ UnusedInv' /\ HeldInv'
  BY <1>2, <1>3, <1>4, <1>5 DEF CalmInv, AloneInv, UnusedInv, HeldInv, Busy, Finding, Minted
<1>7. NamedInv' /\ RetireInv'
  BY <1>3, <1>5 DEF CalmInv, NamedInv, RetireInv
<1>8. ReachedInv'
  BY <1>1, <1>2, <1>3, <1>5 DEF CalmInv, ReachedInv, Indexing
<1>9. AnswersAreTrue'
  <2>1. CASE accepted' = accepted
    BY <1>3, <1>5, <2>1 DEF CalmInv, AnswersAreTrue
  <2>2. CASE /\ rec[handler[h].job].state \in Saved /\ rec[handler[h].job].spec = handler[h].spec
             /\ Answer(h, handler[h].job)
    <3>1. Calm(handler[h].key) => handler[h].job.key = handler[h].key
      BY <1>1 DEF CalmInv, HeldInv
    <3>2. ASSUME NEW a \in accepted', a \notin accepted
          PROVE  a.key = handler[h].key /\ a.spec = handler[h].spec /\ a.job = handler[h].job
      BY <2>2, <3>2 DEF Answer
    <3>. QED  BY <1>3, <1>5, <2>2, <3>1, <3>2 DEF CalmInv, AnswersAreTrue
  <2>. QED  BY <2>1, <2>2 DEF Load
<1>. QED  BY <1>6, <1>7, <1>8, <1>9 DEF CalmInv

(* The depth check, the id and the look for its directory touch nothing.   *)
LEMMA RoomCalm ==
  ASSUME TypeOK, MintInv, CalmInv, NEW h \in Handlers, Room(h) \/ Mint(h) \/ Exists(h)
  PROVE  CalmInv'
<1>1. handler[h].pc \in {"room", "mint", "exists"}
  BY DEF Room, Mint, Exists
<1>2. UNCHANGED <<rec, index, temp, retiring, accepted, retired, disturbed>>
  BY DEF Room, Mint, Exists, store, history
<1>3. Busy(h) /\ handler[h].pc \notin Indexing /\ handler[h].pc \in Finding
  BY <1>1 DEF Busy, Indexing, Finding, Minted
<1>4. CASE Leave(h)
  BY <1>2, <1>3, <1>4, MoveCalm DEF Leave, Idle
<1>5. handler[h] \in [pc : Places, key : Keys \cup {NoJob}, spec : Specs \cup {NoSpec},
                     sender : Senders \cup {NoJob}, job : Ids \cup {NoJob}]
  BY DEF TypeOK
<1>6. CASE Goto(h, "mint")
  <2>. DEFINE t == [handler[h] EXCEPT !.pc = "mint"]
  <2>1. handler' = [handler EXCEPT ![h] = t]
    BY <1>6 DEF Goto
  <2>2. t.pc = "mint" /\ t.key = handler[h].key
    BY <1>5
  <2>. HIDE DEF t
  <2>. QED  BY <1>2, <1>3, <2>1, <2>2, MoveCalm DEF Finding, Minted, Indexing
<1>7. CASE Mint(h) /\ ~Leave(h)
  <2>. DEFINE j == [at |-> now', key |-> handler[h].key, sender |-> handler[h].sender]
              t == [handler[h] EXCEPT !.pc = "exists", !.job = j]
  <2>1. handler' = [handler EXCEPT ![h] = t]
    BY <1>7 DEF Mint, TypeOK
  <2>2. t.pc = "exists" /\ t.key = handler[h].key
    BY <1>5
  <2>. HIDE DEF t
  <2>. QED  BY <1>2, <1>3, <2>1, <2>2, MoveCalm DEF Finding, Minted, Indexing
<1>8. CASE Exists(h) /\ ~Leave(h)
  <2>. DEFINE t == [handler[h] EXCEPT !.pc = "mkdir"]
  <2>1. handler' = [handler EXCEPT ![h] = t] /\ rec[handler[h].job] = Absent
    BY <1>8 DEF Exists, Goto
  <2>2. t.pc = "mkdir" /\ t.key = handler[h].key /\ t.job = handler[h].job
    BY <1>5
  <2>. HIDE DEF t
  <2>. QED  BY <1>2, <1>3, <2>1, <2>2, MoveCalm DEF Finding, Minted, Indexing
<1>. QED  BY <1>4, <1>6, <1>7, <1>8 DEF Room

(* What a step of create starts from: the task holds a job of its key,     *)
(* which nobody else holds while the key is calm.                          *)
LEMMA CreateFacts ==
  ASSUME TypeOK, MintInv, CalmInv, NEW h \in Handlers, handler[h].pc \in Minted
  PROVE  /\ Busy(h) /\ handler[h].key \in Keys /\ handler[h].key.stem \in Stems
         /\ handler[h].spec \in Specs /\ handler[h].job \in Ids
         /\ handler[h].job.key = handler[h].key
         /\ \A g \in Handlers : /\ g # h /\ handler[g].pc \in Minted
                                /\ handler[g].job = handler[h].job
                                => ~Calm(handler[g].key) /\ ~Calm(handler[h].key)
<1>1. Busy(h) /\ handler[h].job.key = handler[h].key
  BY DEF Busy, MintInv, Minted
<1>2. ASSUME NEW g \in Handlers, g # h, handler[g].pc \in Minted, handler[g].job = handler[h].job
      PROVE  ~Calm(handler[g].key) /\ ~Calm(handler[h].key)
  <2>1. Busy(g) /\ handler[g].key = handler[h].key
    BY <1>1, <1>2 DEF Busy, MintInv, Minted
  <2>. QED  BY <1>1, <1>2, <2>1 DEF CalmInv, AloneInv
<1>. QED  BY <1>1, <1>2, BusyTask DEF Minted

(* The directory is new, so no saved job is lost (JobStore::create).       *)
LEMMA MakeDirCalm ==
  ASSUME TypeOK, MintInv, CalmInv, NEW h \in Handlers, MakeDir(h)
  PROVE  CalmInv'
<1>. DEFINE t == handler[h]
<1>1. t.pc = "mkdir" /\ t.pc \in Minted /\ t.pc \in Finding
  BY DEF MakeDir, Minted, Finding
<1>2. /\ handler'[h].pc = "save" /\ handler'[h].key = t.key /\ handler'[h].job = t.job
      /\ \A g \in Handlers : g # h => handler'[g] = handler[g]
  BY DEF MakeDir, Goto, TypeOK
<1>3. UNCHANGED <<index, temp, retiring, accepted, retired, disturbed>> /\ \A i : Calm(i)' = Calm(i)
  BY DEF MakeDir, history, Calm
<1>4. \A j \in Ids : rec'[j] # rec[j] => /\ j = t.job /\ rec[j] = Absent
                                         /\ rec'[j].state = "dir"
  BY DEF MakeDir, TypeOK
<1>5. rec[t.job] = Absent => rec'[t.job].state = "dir"
  BY CreateFacts, <1>1 DEF MakeDir, TypeOK
<1>6. \A g \in Handlers : Busy(g)' = Busy(g)
  BY <1>1, <1>2 DEF Busy
<1>7. \A j \in Ids : (rec'[j].state \in Saved <=> rec[j].state \in Saved)
                     /\ (rec[j].state \in Saved => rec'[j] = rec[j])
  BY <1>4 DEF Absent, Saved
<1>8. AloneInv'
  BY <1>2, <1>3, <1>6 DEF CalmInv, AloneInv
<1>9. NamedInv'
  BY <1>3, <1>7 DEF CalmInv, NamedInv, TypeOK
<1>10. UnusedInv'
  BY <1>1, <1>2, <1>3 DEF CalmInv, UnusedInv, Finding
<1>11. ReachedInv'
  BY <1>1, <1>2, <1>3, <1>7 DEF CalmInv, ReachedInv, Indexing
<1>12. HeldInv'
  <2>. SUFFICES ASSUME NEW g \in Handlers, Busy(g)', Calm(handler[g].key)'
                PROVE  /\ handler'[g].pc = "load" => handler'[g].job.key = handler'[g].key
                       /\ handler'[g].pc = "mkdir" => rec'[handler'[g].job] = Absent
                       /\ handler'[g].pc = "save" => rec'[handler'[g].job].state = "dir"
                       /\ handler'[g].pc \in Indexing =>
                            /\ rec'[handler'[g].job].state \in Saved
                            /\ rec'[handler'[g].job].spec = handler'[g].spec
                            /\ retiring' # handler'[g].job
                       /\ handler'[g].pc = "rename" => temp'[handler'[g].key.stem] = handler'[g].job
    BY DEF HeldInv
  <2>1. CASE g = h
    <3>1. rec[t.job] = Absent
      BY <1>1, <1>2, <1>3, <1>6, <2>1 DEF CalmInv, HeldInv
    <3>. QED  BY <1>2, <1>5, <2>1, <3>1 DEF Indexing
  <2>2. CASE g # h
    <3>1. handler'[g] = handler[g] /\ Busy(g) /\ Calm(handler[g].key)
      BY <1>2, <1>3, <1>6, <2>2
    <3>2. handler[g].pc \in Minted => handler[g].job \in Ids /\ rec'[handler[g].job] = rec[handler[g].job]
      BY <1>1, <1>4, <2>2, <3>1, CreateFacts
    <3>. QED  BY <1>3, <3>1, <3>2 DEF CalmInv, HeldInv, Minted, Indexing
  <2>. QED  BY <2>1, <2>2
<1>13. RetireInv'
  BY <1>3, <1>7 DEF CalmInv, RetireInv, TypeOK, Saved
<1>14. AnswersAreTrue'
  BY <1>3, <1>7 DEF CalmInv, AnswersAreTrue, TypeOK
<1>. QED  BY <1>8, <1>9, <1>10, <1>11, <1>12, <1>13, <1>14 DEF CalmInv

(* The record is saved before the key names it (JobStore::create).         *)
LEMMA SaveCalm ==
  ASSUME TypeOK, MintInv, CalmInv, NEW h \in Handlers, Save(h)
  PROVE  CalmInv'
<1>. DEFINE t == handler[h]
<1>1. t.pc = "save" /\ t.pc \in Minted /\ t.pc \in Finding /\ Busy(h)
  BY DEF Save, Minted, Finding, Busy
<1>2. /\ handler'[h].pc = "temp" /\ handler'[h].key = t.key /\ handler'[h].job = t.job
      /\ handler'[h].spec = t.spec
      /\ \A g \in Handlers : g # h => handler'[g] = handler[g]
  BY DEF Save, Goto, TypeOK
<1>3. UNCHANGED <<index, temp, retiring, accepted, retired, disturbed>> /\ \A i : Calm(i)' = Calm(i)
  BY DEF Save, history, Calm
<1>4. /\ \A j \in Ids : j # t.job => rec'[j] = rec[j]
      /\ rec'[t.job].state = "queued" /\ rec'[t.job].spec = t.spec
  BY CreateFacts, <1>1 DEF Save, TypeOK
<1>5. Calm(t.key) => rec[t.job].state = "dir"
  BY <1>1 DEF CalmInv, HeldInv
<1>6. \A g \in Handlers : Busy(g)' = Busy(g)
  BY <1>1, <1>2 DEF Busy
<1>7. t.job \in Ids /\ t.job.key = t.key
  BY <1>1, CreateFacts
<1>8. AloneInv'
  BY <1>2, <1>3, <1>6 DEF CalmInv, AloneInv
<1>9. NamedInv'
  BY <1>3, <1>4 DEF CalmInv, NamedInv, TypeOK, Saved
<1>10. UnusedInv'
  BY <1>1, <1>2, <1>3 DEF CalmInv, UnusedInv, Finding
<1>11. ReachedInv'
  <2>. SUFFICES ASSUME NEW j \in Ids, rec'[j].state \in Saved, Calm(j.key)'
                PROVE  \/ index'[j.key] = j
                       \/ retiring' = j
                       \/ \E g \in Handlers : handler'[g].pc \in Indexing /\ handler'[g].job = j
    BY DEF ReachedInv
  <2>1. CASE j = t.job
    BY <1>2, <2>1 DEF Indexing
  <2>2. CASE j # t.job
    BY <1>1, <1>2, <1>3, <1>4, <2>2 DEF CalmInv, ReachedInv, Indexing
  <2>. QED  BY <2>1, <2>2
<1>12. HeldInv'
  <2>. SUFFICES ASSUME NEW g \in Handlers, Busy(g)', Calm(handler[g].key)'
                PROVE  /\ handler'[g].pc = "load" => handler'[g].job.key = handler'[g].key
                       /\ handler'[g].pc = "mkdir" => rec'[handler'[g].job] = Absent
                       /\ handler'[g].pc = "save" => rec'[handler'[g].job].state = "dir"
                       /\ handler'[g].pc \in Indexing =>
                            /\ rec'[handler'[g].job].state \in Saved
                            /\ rec'[handler'[g].job].spec = handler'[g].spec
                            /\ retiring' # handler'[g].job
                       /\ handler'[g].pc = "rename" => temp'[handler'[g].key.stem] = handler'[g].job
    BY DEF HeldInv
  <2>1. CASE g = h
    <3>1. Calm(t.key)
      BY <1>2, <1>3, <2>1
    <3>2. retiring # t.job
      BY <1>5, <1>7, <3>1, NoJobAssumption DEF CalmInv, RetireInv
    <3>. QED  BY <1>2, <1>3, <1>4, <2>1, <3>2 DEF Indexing, Saved
  <2>2. CASE g # h
    <3>1. handler'[g] = handler[g] /\ Busy(g) /\ Calm(handler[g].key)
      BY <1>2, <1>3, <1>6, <2>2
    <3>2. handler[g].pc \in Minted => handler[g].job \in Ids /\ handler[g].job # t.job
      BY <1>1, <2>2, <3>1, CreateFacts
    <3>. QED  BY <1>3, <1>4, <3>1, <3>2 DEF CalmInv, HeldInv, Minted, Indexing
  <2>. QED  BY <2>1, <2>2
<1>13. RetireInv'
  <2>1. Calm(t.key) => retiring # t.job
    BY <1>5, <1>7, NoJobAssumption DEF CalmInv, RetireInv
  <2>. QED  BY <1>3, <1>4, <1>7, <2>1 DEF CalmInv, RetireInv, TypeOK
<1>14. AnswersAreTrue'
  <2>. SUFFICES ASSUME NEW a \in accepted, Calm(a.key)
                PROVE  /\ a.job.key = a.key
                       /\ a.job \in retired \/ (rec'[a.job].state \in Saved /\ rec'[a.job].spec = a.spec)
    BY <1>3 DEF AnswersAreTrue
  <2>1. a.job \in Ids /\ a.job.key = a.key
        /\ (a.job \in retired \/ (rec[a.job].state \in Saved /\ rec[a.job].spec = a.spec))
    BY DEF CalmInv, AnswersAreTrue, TypeOK
  <2>2. CASE a.job = t.job
    BY <1>5, <1>7, <2>1, <2>2 DEF Saved
  <2>. QED  BY <1>4, <2>1, <2>2
<1>. QED  BY <1>8, <1>9, <1>10, <1>11, <1>12, <1>13, <1>14 DEF CalmInv

(* The temp file of the stem belongs to the one submission there.          *)
LEMMA WriteTempCalm ==
  ASSUME TypeOK, MintInv, CalmInv, NEW h \in Handlers, WriteTemp(h)
  PROVE  CalmInv'
<1>. DEFINE t == handler[h]
<1>1. t.pc = "temp" /\ t.pc \in Minted /\ t.pc \in Finding /\ Busy(h)
  BY DEF WriteTemp, Minted, Finding, Busy
<1>2. /\ handler'[h].pc = "rename" /\ handler'[h].key = t.key /\ handler'[h].job = t.job
      /\ handler'[h].spec = t.spec
      /\ \A g \in Handlers : g # h => handler'[g] = handler[g]
  BY DEF WriteTemp, Goto, TypeOK
<1>3. /\ UNCHANGED <<rec, index, retiring, accepted, retired, disturbed>>
      /\ \A i : Calm(i)' = Calm(i)
  BY DEF WriteTemp, history, Calm
<1>4. temp'[t.key.stem] = t.job /\ \A v \in Stems : v # t.key.stem => temp'[v] = temp[v]
  BY CreateFacts, <1>1 DEF WriteTemp, TypeOK
<1>5. \A g \in Handlers : Busy(g)' = Busy(g)
  BY <1>1, <1>2 DEF Busy
<1>6. AloneInv'
  BY <1>2, <1>3, <1>5 DEF CalmInv, AloneInv
<1>7. NamedInv' /\ RetireInv' /\ AnswersAreTrue'
  BY <1>3 DEF CalmInv, NamedInv, RetireInv, AnswersAreTrue
<1>8. UnusedInv'
  BY <1>1, <1>2, <1>3 DEF CalmInv, UnusedInv, Finding
<1>9. ReachedInv'
  <2>1. \A g \in Handlers : handler[g].pc \in Indexing =>
          handler'[g].pc \in Indexing /\ handler'[g].job = handler[g].job
    BY <1>2 DEF Indexing
  <2>. QED  BY <1>3, <2>1 DEF CalmInv, ReachedInv
<1>10. HeldInv'
  <2>1. ASSUME NEW g \in Handlers, g # h, handler[g].pc = "rename", Calm(handler[g].key)
        PROVE  temp'[handler[g].key.stem] = temp[handler[g].key.stem]
    <3>1. Busy(g) /\ handler[g].key.stem \in Stems
      BY <2>1, BusyTask DEF Busy
    <3>. QED  BY <1>1, <1>4, <2>1, <3>1 DEF CalmInv, AloneInv, Calm
  <2>. QED  BY <1>1, <1>2, <1>3, <1>4, <1>5, <2>1 DEF CalmInv, HeldInv, Indexing
<1>. QED  BY <1>6, <1>7, <1>8, <1>9, <1>10 DEF CalmInv

(* The key comes to name the job that was saved for it.                    *)
LEMMA RenameCalm ==
  ASSUME TypeOK, MintInv, CalmInv, NEW h \in Handlers, Rename(h)
  PROVE  CalmInv'
<1>. DEFINE t == handler[h]
            v == t.key.stem
<1>1. t.pc = "rename" /\ t.pc \in Minted /\ t.pc \in Finding /\ t.pc \in Indexing /\ Busy(h)
  BY DEF Rename, Minted, Finding, Indexing, Busy
<1>2. handler'[h].pc = "idle" /\ \A g \in Handlers : g # h => handler'[g] = handler[g]
  BY DEF Rename, Leave, Idle, TypeOK
<1>3. UNCHANGED <<rec, retiring, retired, disturbed>> /\ \A i : Calm(i)' = Calm(i)
  BY DEF Rename, Calm
<1>4. t.key \in Keys /\ t.key.stem \in Stems /\ t.job \in Ids /\ t.job.key = t.key
  BY <1>1, CreateFacts
<1>5. /\ \A k \in Keys : k # t.key => index'[k] = index[k]
      /\ \A w \in Stems : w # v => temp'[w] = temp[w]
  BY <1>4 DEF Rename, TypeOK
<1>6. Calm(t.key) => /\ temp[v] = t.job /\ rec[t.job].state \in Saved /\ rec[t.job].spec = t.spec
                     /\ retiring # t.job
  BY <1>1 DEF CalmInv, HeldInv
<1>7. Calm(t.key) => index'[t.key] = t.job /\ index[t.key] = NoJob
  <2>1. Calm(t.key) => index[t.key] = NoJob
    BY <1>1 DEF CalmInv, UnusedInv
  <2>2. Calm(t.key) => temp[v] # NoJob
    BY <1>4, <1>6, NoJobAssumption
  <2>. QED  BY <1>4, <1>6, <2>1, <2>2 DEF Rename, TypeOK
<1>8. ~Busy(h)' /\ \A g \in Handlers : g # h => Busy(g)' = Busy(g)
  BY <1>2 DEF Busy
<1>9. \A g \in Handlers : g # h /\ Busy(g) /\ Calm(handler[g].key) => handler[g].key.stem # v
  BY <1>1 DEF CalmInv, AloneInv, Calm
<1>10. AloneInv'
  BY <1>2, <1>3, <1>8 DEF CalmInv, AloneInv
<1>11. NamedInv'
  BY <1>3, <1>4, <1>5, <1>6, <1>7 DEF CalmInv, NamedInv
<1>12. UnusedInv'
  <2>. SUFFICES ASSUME NEW g \in Handlers, handler'[g].pc \in Finding, Calm(handler[g].key)'
                PROVE  index'[handler'[g].key] = NoJob
    BY DEF UnusedInv
  <2>1. g # h /\ handler'[g] = handler[g] /\ Calm(handler[g].key)
    BY <1>2, <1>3 DEF Finding, Minted
  <2>2. Busy(g) /\ handler[g].key \in Keys
    BY <2>1, BusyTask DEF Busy, Finding, Minted
  <2>3. handler[g].key # t.key
    BY <1>9, <2>1, <2>2
  <2>. QED  BY <1>5, <2>1, <2>2, <2>3 DEF CalmInv, UnusedInv
<1>13. ReachedInv'
  <2>. SUFFICES ASSUME NEW j \in Ids, rec[j].state \in Saved, Calm(j.key)
                PROVE  \/ index'[j.key] = j
                       \/ retiring' = j
                       \/ \E g \in Handlers : handler'[g].pc \in Indexing /\ handler'[g].job = j
    BY <1>3 DEF ReachedInv
  <2>1. \/ index[j.key] = j
        \/ retiring = j
        \/ \E g \in Handlers : handler[g].pc \in Indexing /\ handler[g].job = j
    BY DEF CalmInv, ReachedInv
  <2>2. CASE index[j.key] = j
    <3>1. j.key \in Keys /\ j # NoJob
      BY NoJobAssumption DEF Ids
    <3>. QED  BY <1>5, <1>7, <2>2, <3>1
  <2>3. CASE \E g \in Handlers : handler[g].pc \in Indexing /\ handler[g].job = j
    BY <1>2, <1>4, <1>7, <2>3
  <2>. QED  BY <1>3, <2>1, <2>2, <2>3
<1>14. HeldInv'
  <2>1. \A g \in Handlers : g # h /\ handler[g].pc = "rename" /\ Calm(handler[g].key) =>
          temp'[handler[g].key.stem] = temp[handler[g].key.stem]
    BY <1>5, <1>9, BusyTask DEF Busy
  <2>. QED  BY <1>2, <1>3, <1>8, <2>1 DEF CalmInv, HeldInv
<1>15. RetireInv'
  BY <1>3 DEF CalmInv, RetireInv
<1>16. AnswersAreTrue'
  <2>1. \A a \in accepted' : a \in accepted \/ (a.key = t.key /\ a.spec = t.spec /\ a.job = t.job)
    BY DEF Rename, Answer
  <2>. QED  BY <1>3, <1>4, <1>6, <2>1 DEF CalmInv, AnswersAreTrue
<1>. QED  BY <1>10, <1>11, <1>12, <1>13, <1>14, <1>15, <1>16 DEF CalmInv

(* A failure before the record is saved leaves nothing that counts.        *)
LEMMA WriteFailsCalm ==
  ASSUME TypeOK, MintInv, CalmInv, NEW h \in Handlers, WriteFails(h)
  PROVE  CalmInv'
<1>1. handler[h].pc \in {"mkdir", "save", "temp", "rename"}
  BY DEF WriteFails
<1>2. handler'[h].pc = "idle" /\ \A g \in Handlers : g # h => handler'[g] = handler[g]
  BY DEF WriteFails, Leave, Idle, TypeOK
<1>3. UNCHANGED <<rec, index, temp, retiring, accepted, retired>> /\ \A i : Calm(i)' => Calm(i)
  BY DEF WriteFails, store, Calm
<1>4. handler[h].pc \in Indexing => handler[h].key.stem \in disturbed'
  BY <1>1 DEF WriteFails
<1>5. handler[h].job \in Ids /\ handler[h].job.key = handler[h].key
  BY <1>1, CreateFacts DEF Minted
<1>6. ~Busy(h)' /\ \A g \in Handlers : g # h => Busy(g)' = Busy(g)
  BY <1>2 DEF Busy
<1>7. AloneInv' /\ HeldInv'
  BY <1>2, <1>3, <1>6 DEF CalmInv, AloneInv, HeldInv
<1>8. NamedInv' /\ RetireInv' /\ AnswersAreTrue'
  BY <1>3 DEF CalmInv, NamedInv, RetireInv, AnswersAreTrue
<1>9. UnusedInv'
  BY <1>2, <1>3 DEF CalmInv, UnusedInv, Finding, Minted
<1>10. ReachedInv'
  <2>1. \A j \in Ids : Calm(j.key)' => ~(handler[h].pc \in Indexing /\ handler[h].job = j)
    BY <1>4, <1>5 DEF Calm
  <2>. QED  BY <1>2, <1>3, <2>1 DEF CalmInv, ReachedInv
<1>. QED  BY <1>7, <1>8, <1>9, <1>10 DEF CalmInv

(* A job that the worker takes or ends was saved and stays saved. *)
LEMMA WorkCalm ==
  ASSUME TypeOK, MintInv, CalmInv, NEW j \in Ids, Run(j) \/ End(j)
  PROVE  CalmInv'
<1>1. UNCHANGED <<index, temp, handler, retiring, accepted, retired, disturbed>>
      /\ (\A i : Calm(i)' = Calm(i)) /\ (\A h \in Handlers : Busy(h)' = Busy(h))
  BY DEF Run, End, history, Calm, Busy
<1>2. /\ \A i \in Ids : i # j => rec'[i] = rec[i]
      /\ rec[j].state \in Unfinished /\ rec'[j].state \in Saved /\ rec'[j].spec = rec[j].spec
      /\ retiring = j => rec'[j].state = "done"
  BY NoJobAssumption DEF Run, End, TypeOK, Unfinished, Saved
<1>3. \A i \in Ids : /\ (rec'[i].state \in Saved <=> rec[i].state \in Saved)
                     /\ rec'[i].spec = rec[i].spec
                     /\ rec[i].state \notin Saved => rec'[i] = rec[i]
  BY <1>2 DEF Unfinished, Saved
<1>4. AloneInv' /\ UnusedInv'
  BY <1>1 DEF CalmInv, AloneInv, UnusedInv
<1>5. NamedInv'
  BY <1>1, <1>3 DEF CalmInv, NamedInv, TypeOK
<1>6. ReachedInv'
  BY <1>1, <1>3 DEF CalmInv, ReachedInv
<1>7. HeldInv'
  <2>1. \A h \in Handlers : handler[h].pc \in Minted => handler[h].job \in Ids
    BY BusyTask DEF Busy, Minted
  <2>2. \A h \in Handlers : handler[h].pc \in Minted =>
          /\ rec[handler[h].job] = Absent => rec'[handler[h].job] = Absent
          /\ rec[handler[h].job].state = "dir" => rec'[handler[h].job].state = "dir"
    BY <1>3, <2>1 DEF Absent, Saved
  <2>. QED  BY <1>1, <1>3, <2>1, <2>2 DEF CalmInv, HeldInv, Minted, Indexing
<1>8. RetireInv'
  BY <1>1, <1>2 DEF CalmInv, RetireInv, TypeOK
<1>9. AnswersAreTrue'
  BY <1>1, <1>3 DEF CalmInv, AnswersAreTrue, TypeOK
<1>. QED  BY <1>4, <1>5, <1>6, <1>7, <1>8, <1>9 DEF CalmInv

(* Only a job that its key names is retired while its stem is calm.        *)
LEMMA RetireKeyCalm ==
  ASSUME TypeOK, MintInv, CalmInv, NEW j \in Ids, RetireKey(j)
  PROVE  CalmInv'
<1>1. /\ UNCHANGED <<rec, temp, handler, accepted, retired>> /\ retiring = NoJob /\ retiring' = j
      /\ (\A i : Calm(i)' => Calm(i)) /\ (\A h \in Handlers : Busy(h)' = Busy(h))
  BY DEF RetireKey, Calm, Busy
<1>2. rec[j].state = "done" /\ j.key \in Keys
  BY DEF RetireKey, Ids
<1>3. index'[j.key] = NoJob /\ \A k \in Keys : k # j.key => index'[k] = index[k]
  BY <1>2 DEF RetireKey, TypeOK
<1>4. \A h \in Handlers : handler[h].pc \in Indexing /\ handler[h].job = j => j.key.stem \in disturbed'
  BY DEF RetireKey
<1>5. AloneInv' /\ AnswersAreTrue'
  BY <1>1 DEF CalmInv, AloneInv, AnswersAreTrue
<1>6. NamedInv'
  BY <1>1, <1>3 DEF CalmInv, NamedInv
<1>7. UnusedInv'
  <2>1. \A h \in Handlers : handler[h].pc \in Finding => handler[h].key \in Keys
    BY BusyTask DEF Busy, Finding, Minted
  <2>. QED  BY <1>1, <1>3, <2>1 DEF CalmInv, UnusedInv
<1>8. ReachedInv'
  <2>. SUFFICES ASSUME NEW i \in Ids, rec[i].state \in Saved, i # j,
                       \A h \in Handlers : ~(handler[h].pc \in Indexing /\ handler[h].job = i),
                       i.key.stem \notin disturbed'
                PROVE  index'[i.key] = i
    BY <1>1 DEF ReachedInv, Calm
  <2>1. index[i.key] = i
    BY <1>1, NoJobAssumption DEF CalmInv, ReachedInv, Calm, RetireKey
  <2>2. i.key # j.key
    <3>. SUFFICES ASSUME i.key = j.key PROVE FALSE
      OBVIOUS
    <3>1. index[j.key] = j
      BY <1>1, <1>2, <1>4, NoJobAssumption DEF CalmInv, ReachedInv, Calm, RetireKey, Saved
    <3>. QED  BY <2>1, <3>1
  <2>. QED  BY <1>3, <2>1, <2>2 DEF Ids
<1>9. HeldInv'
  <2>1. \A h \in Handlers : handler[h].pc \in Indexing /\ handler[h].key.stem \notin disturbed' =>
          handler[h].job # j
    <3>1. \A h \in Handlers : handler[h].pc \in Indexing => handler[h].job.key = handler[h].key
      BY CreateFacts DEF Indexing, Minted
    <3>. QED  BY <1>4, <3>1
  <2>. QED  BY <1>1, <2>1 DEF CalmInv, HeldInv, Calm
<1>10. RetireInv'
  BY <1>1, <1>2 DEF RetireInv
<1>. QED  BY <1>5, <1>6, <1>7, <1>8, <1>9, <1>10 DEF CalmInv

(* A retired job whose entry stays disturbs its stem.                      *)
LEMMA RetireKeyFailsCalm ==
  ASSUME TypeOK, MintInv, CalmInv, NEW j \in Ids, RetireKeyFails(j)
  PROVE  CalmInv'
<1>1. /\ UNCHANGED <<rec, index, temp, handler, accepted, retired>>
      /\ retiring = NoJob /\ retiring' = j /\ j.key.stem \in disturbed'
      /\ (\A i : Calm(i)' => Calm(i)) /\ (\A h \in Handlers : Busy(h)' = Busy(h))
  BY DEF RetireKeyFails, store, Calm, Busy
<1>2. ~Calm(j.key)'
  BY <1>1 DEF Calm
<1>3. AloneInv' /\ UnusedInv' /\ AnswersAreTrue'
  BY <1>1 DEF CalmInv, AloneInv, UnusedInv, AnswersAreTrue
<1>4. NamedInv'
  <2>1. \A k \in Keys : index[k] # NoJob /\ Calm(k)' => index[k] # j
    BY <1>1, <1>2 DEF CalmInv, NamedInv
  <2>. QED  BY <1>1, <2>1 DEF CalmInv, NamedInv
<1>5. ReachedInv'
  BY <1>1, NoJobAssumption DEF CalmInv, ReachedInv
<1>6. HeldInv'
  <2>1. \A h \in Handlers : handler[h].pc \in Indexing => handler[h].job.key = handler[h].key
    BY CreateFacts DEF Indexing, Minted
  <2>2. \A h \in Handlers : handler[h].pc \in Indexing /\ handler[h].key.stem \notin disturbed' =>
          handler[h].job # j
    BY <1>1, <2>1
  <2>. QED  BY <1>1, <2>2 DEF CalmInv, HeldInv, Calm
<1>7. RetireInv'
  BY <1>1, <1>2 DEF RetireInv
<1>. QED  BY <1>3, <1>4, <1>5, <1>6, <1>7 DEF CalmInv

(* The directory goes after the key (JobStore::remove).                    *)
LEMMA RetireDirCalm ==
  ASSUME TypeOK, MintInv, CalmInv, RetireDir
  PROVE  CalmInv'
<1>. DEFINE j == retiring
<1>1. /\ UNCHANGED <<index, temp, handler, accepted, disturbed>> /\ retiring' = NoJob
      /\ retired' = retired \cup {j}
      /\ (\A i : Calm(i)' = Calm(i)) /\ (\A h \in Handlers : Busy(h)' = Busy(h))
  BY DEF RetireDir, Calm, Busy
<1>2. j \in Ids /\ j # NoJob
  BY DEF RetireDir, TypeOK
<1>3. rec'[j] = Absent /\ \A i \in Ids : i # j => rec'[i] = rec[i]
  BY <1>2 DEF RetireDir, TypeOK
<1>4. Calm(j.key) => rec[j].state = "done"
  BY <1>2 DEF CalmInv, RetireInv
<1>5. AloneInv' /\ UnusedInv'
  BY <1>1 DEF CalmInv, AloneInv, UnusedInv
<1>6. NamedInv'
  BY <1>1, <1>3, NoJobAssumption DEF CalmInv, NamedInv, TypeOK
<1>7. ReachedInv'
  BY <1>1, <1>3 DEF CalmInv, ReachedInv, Absent, Saved
<1>8. HeldInv'
  <2>1. \A h \in Handlers : handler[h].pc \in Minted => handler[h].job \in Ids /\ handler[h].job.key = handler[h].key
    BY CreateFacts
  <2>2. ASSUME NEW h \in Handlers, handler[h].pc \in Minted, Calm(handler[h].key)
        PROVE  /\ rec[handler[h].job] = Absent => rec'[handler[h].job] = Absent
               /\ rec[handler[h].job].state = "dir" => rec'[handler[h].job] = rec[handler[h].job]
               /\ retiring # handler[h].job => rec'[handler[h].job] = rec[handler[h].job]
    BY <1>3, <1>4, <2>1, <2>2
  <2>3. \A h \in Handlers : handler[h].pc \in Minted => handler[h].job # NoJob
    BY <2>1, NoJobAssumption
  <2>. QED  BY <1>1, <2>2, <2>3 DEF CalmInv, HeldInv, Minted, Indexing
<1>9. RetireInv'
  BY <1>1 DEF RetireInv
<1>10. AnswersAreTrue'
  BY <1>1, <1>3 DEF CalmInv, AnswersAreTrue, TypeOK
<1>. QED  BY <1>5, <1>6, <1>7, <1>8, <1>9, <1>10 DEF CalmInv

(* A job that stays without its key disturbs its stem.                     *)
LEMMA RetireFailsCalm ==
  ASSUME TypeOK, MintInv, CalmInv, RetireFails
  PROVE  CalmInv'
<1>1. /\ UNCHANGED <<rec, index, temp, handler, accepted, retired>> /\ retiring' = NoJob
      /\ retiring.key.stem \in disturbed'
      /\ (\A i : Calm(i)' => Calm(i)) /\ (\A h \in Handlers : Busy(h)' = Busy(h))
  BY DEF RetireFails, store, Calm, Busy
<1>2. AloneInv' /\ UnusedInv' /\ RetireInv' /\ AnswersAreTrue'
  BY <1>1 DEF CalmInv, AloneInv, UnusedInv, RetireInv, AnswersAreTrue
<1>3. NamedInv'
  BY <1>1 DEF CalmInv, NamedInv
<1>4. ReachedInv'
  BY <1>1 DEF CalmInv, ReachedInv, Calm
<1>5. HeldInv'
  <2>1. \A h \in Handlers : handler[h].pc \in Indexing => handler[h].job # NoJob
    BY CreateFacts, NoJobAssumption DEF Indexing, Minted
  <2>. QED  BY <1>1, <2>1 DEF CalmInv, HeldInv
<1>. QED  BY <1>2, <1>3, <1>4, <1>5 DEF CalmInv

(* A restart disturbs the stems at which something was half done.          *)
LEMMA CrashCalm ==
  ASSUME TypeOK, MintInv, CalmInv, Crash
  PROVE  CalmInv'
<1>1. /\ UNCHANGED <<rec, index, accepted, retired>> /\ retiring' = NoJob
      /\ \A i : Calm(i)' => Calm(i)
  BY DEF Crash, Calm
<1>2. \A h \in Handlers : handler'[h].pc = "idle"
  BY DEF Crash, Idle
<1>3. AloneInv' /\ UnusedInv' /\ HeldInv' /\ RetireInv' /\ AnswersAreTrue'
  BY <1>1, <1>2 DEF CalmInv, AloneInv, UnusedInv, HeldInv, RetireInv, AnswersAreTrue, Busy, Finding, Minted
<1>4. NamedInv'
  BY <1>1 DEF CalmInv, NamedInv
<1>5. ReachedInv'
  <2>. SUFFICES ASSUME NEW j \in Ids, rec[j].state \in Saved, j.key.stem \notin disturbed'
                PROVE  index[j.key] = j
    BY <1>1 DEF ReachedInv, Calm
  <2>1. j.key.stem \in Stems /\ j.key.stem \notin HalfDone /\ Calm(j.key)
    BY DEF Crash, Calm, Ids, Keys
  <2>2. retiring # j
    BY <2>1, NoJobAssumption DEF HalfDone
  <2>3. \A h \in Handlers : ~(handler[h].pc \in Indexing /\ handler[h].job = j)
    <3>1. \A h \in Handlers : handler[h].pc \in Indexing => handler[h].job.key = handler[h].key
      BY CreateFacts DEF Indexing, Minted
    <3>. QED  BY <2>1, <3>1 DEF HalfDone
  <2>. QED  BY <2>1, <2>2, <2>3 DEF CalmInv, ReachedInv
<1>. QED  BY <1>3, <1>4, <1>5 DEF CalmInv

(* Every step keeps the invariant.                                         *)
LEMMA CalmStep == TypeOK /\ MintInv /\ CalmInv /\ [Next]_vars => CalmInv'
<1>. SUFFICES ASSUME TypeOK, MintInv, CalmInv, [Next]_vars PROVE CalmInv'
  OBVIOUS
<1>1. CASE UNCHANGED vars
  BY <1>1 DEF vars, store, history, CalmInv, AloneInv, NamedInv, UnusedInv, ReachedInv, HeldInv,
    RetireInv, AnswersAreTrue, Busy, Calm
<1>2. ASSUME NEW h \in Handlers, Submit(h) PROVE CalmInv'
  BY <1>2, LookupCalm, LoadCalm, RoomCalm, MakeDirCalm, SaveCalm, WriteTempCalm, RenameCalm,
    WriteFailsCalm DEF Submit, Create
<1>3. ASSUME NEW j \in Ids, Run(j) \/ End(j) \/ RetireKey(j) \/ RetireKeyFails(j) PROVE CalmInv'
  BY <1>3, WorkCalm, RetireKeyCalm, RetireKeyFailsCalm
<1>4. CASE RetireDir \/ RetireFails \/ Crash
  BY <1>4, RetireDirCalm, RetireFailsCalm, CrashCalm
<1>. QED  BY <1>1, <1>2, <1>3, <1>4 DEF Next

(* What is said of a key's jobs follows.                                   *)
LEMMA CalmKeeps == TypeOK /\ MintInv /\ CalmInv => KeysAreKept
<1>. SUFFICES ASSUME TypeOK, MintInv, CalmInv PROVE KeysAreKept
  OBVIOUS
<1>1. \A j \in Open : j \in Ids /\ rec[j].state \in Saved /\ rec[j].state # "done"
  BY DEF Open, Unfinished, Saved
<1>2. \A j \in Open : Calm(j.key) =>
        \/ index[j.key] = j
        \/ \E h \in Handlers : handler[h].pc \in Indexing /\ handler[h].job = j
  BY <1>1, NoJobAssumption DEF CalmInv, ReachedInv, RetireInv
<1>3. ASSUME NEW h \in Handlers, handler[h].pc \in Indexing, Calm(handler[h].job.key)
      PROVE  /\ handler[h].job.key = handler[h].key /\ Busy(h)
             /\ index[handler[h].job.key] = NoJob
  <2>1. handler[h].job.key = handler[h].key /\ Busy(h) /\ handler[h].pc \in Finding
    BY <1>3, CreateFacts DEF Indexing, Minted, Finding
  <2>. QED  BY <1>3, <2>1 DEF CalmInv, UnusedInv
<1>4. OneJobPerKey
  <2>. SUFFICES ASSUME NEW i \in Open, NEW j \in Open, i.key = j.key, Calm(i.key) PROVE i = j
    BY DEF OneJobPerKey
  <2>1. i # NoJob /\ j # NoJob
    BY <1>1, NoJobAssumption
  <2>2. CASE index[i.key] = i \/ index[j.key] = j
    BY <1>2, <1>3, <2>1, <2>2
  <2>3. CASE ~(index[i.key] = i \/ index[j.key] = j)
    <3>1. PICK g \in Handlers : handler[g].pc \in Indexing /\ handler[g].job = i
      BY <1>2, <2>3
    <3>2. PICK h \in Handlers : handler[h].pc \in Indexing /\ handler[h].job = j
      BY <1>2, <2>3
    <3>3. Busy(g) /\ Busy(h) /\ handler[g].key = i.key /\ handler[h].key = i.key
      BY <1>3, <3>1, <3>2
    <3>4. g = h
      BY <3>3 DEF CalmInv, AloneInv
    <3>. QED  BY <3>1, <3>2, <3>4
  <2>. QED  BY <2>2, <2>3
<1>5. KeyFindsItsJob
  BY <1>2 DEF KeyFindsItsJob, CalmInv, NamedInv
<1>. QED  BY <1>4, <1>5 DEF KeysAreKept, CalmInv

(* A key whose submissions come one after the other has one job, finds it, *)
(* and is answered with what it asked for (BenchHost::submit, JobStore).   *)
THEOREM KeysNameTheirJob == Spec => []KeysAreKept
<1>1. Init => TypeOK /\ MintInv /\ CalmInv
  BY InitType, InitCalm
<1>2. TypeOK /\ MintInv /\ CalmInv /\ [Next]_vars => TypeOK' /\ MintInv' /\ CalmInv'
  BY TypeStep, CalmStep
<1>. QED  BY <1>1, <1>2, CalmKeeps, PTL DEF Spec

-----------------------------------------------------------------------------
(* The queue *)

QueueInv == IsFiniteSet(Waiting) /\ QueueIsBounded

(* There are no more promises than tasks.                                  *)
LEMMA PromisedFinite == IsFiniteSet(Promised) /\ Cardinality(Promised) <= Cardinality(Handlers)
BY SubmitAssumption, FS_Subset DEF Promised

(* Nothing new waits and nothing new is promised. *)
LEMMA QueueShrinks ==
  ASSUME QueueInv, Waiting' \subseteq Waiting, Promised' \subseteq Promised
  PROVE  QueueInv'
<1>1. IsFiniteSet(Waiting') /\ Cardinality(Waiting') <= Cardinality(Waiting)
  BY FS_Subset DEF QueueInv
<1>2. IsFiniteSet(Promised) /\ IsFiniteSet(Promised') /\ Cardinality(Promised') <= Cardinality(Promised)
  BY FS_Subset, PromisedFinite
<1>3. /\ Cardinality(Waiting) \in Nat /\ Cardinality(Waiting') \in Nat
      /\ Cardinality(Promised) \in Nat /\ Cardinality(Promised') \in Nat
      /\ Cardinality(Handlers) \in Nat /\ QueueDepth \in Nat
  BY <1>1, <1>2, FS_CardinalityType, SubmitAssumption DEF QueueInv
<1>. QED  BY <1>1, <1>2, <1>3 DEF QueueInv, QueueIsBounded

(* A submission that found room while the queue was below its limit. *)
LEMMA QueuePromises ==
  ASSUME QueueInv, Waiting' = Waiting, Cardinality(Waiting) < QueueDepth
  PROVE  QueueInv'
<1>1. IsFiniteSet(Promised') /\ Cardinality(Promised') <= Cardinality(Handlers)
  BY SubmitAssumption, FS_Subset DEF Promised
<1>2. /\ Cardinality(Waiting) \in Nat /\ Cardinality(Promised') \in Nat
      /\ Cardinality(Handlers) \in Nat /\ QueueDepth \in Nat
  BY <1>1, FS_CardinalityType, SubmitAssumption DEF QueueInv
<1>. QED  BY <1>1, <1>2 DEF QueueInv, QueueIsBounded

(* A promise is kept: one more waits and one less is promised. *)
LEMMA QueueKept ==
  ASSUME QueueInv, NEW j, NEW h \in Promised, Waiting' \subseteq Waiting \cup {j},
         Promised' = Promised \ {h}
  PROVE  QueueInv'
<1>0. IsFiniteSet(Waiting) /\ Cardinality(Waiting) \in Nat
  BY FS_CardinalityType DEF QueueInv
<1>1. /\ IsFiniteSet(Waiting \cup {j}) /\ Cardinality(Waiting \cup {j}) <= Cardinality(Waiting) + 1
      /\ Cardinality(Waiting) \in Nat /\ Cardinality(Waiting \cup {j}) \in Nat
  <2>. DEFINE n == Cardinality(Waiting)
  <2>1. /\ IsFiniteSet(Waiting \cup {j})
        /\ Cardinality(Waiting \cup {j}) = n \/ Cardinality(Waiting \cup {j}) = n + 1
    <3>1. CASE j \in Waiting
      <4>1. Waiting \cup {j} = Waiting
        BY <3>1
      <4>. QED  BY <1>0, <4>1
    <3>2. CASE j \notin Waiting
      BY <1>0, <3>2, FS_AddElement
    <3>. QED  BY <3>1, <3>2
  <2>. HIDE DEF n
  <2>2. n \in Nat
    BY <1>0 DEF n
  <2>3. Cardinality(Waiting \cup {j}) \in Nat /\ Cardinality(Waiting \cup {j}) <= n + 1
    BY <2>1, <2>2
  <2>. QED  BY <1>0, <2>1, <2>3 DEF n
<1>2. /\ IsFiniteSet(Waiting') /\ Cardinality(Waiting') <= Cardinality(Waiting \cup {j})
      /\ Cardinality(Waiting') \in Nat
  BY <1>1, FS_Subset, FS_CardinalityType
<1>3. /\ IsFiniteSet(Promised') /\ Cardinality(Promised') = Cardinality(Promised) - 1
      /\ Cardinality(Promised) \in Nat /\ Cardinality(Promised') \in Nat
  BY PromisedFinite, FS_RemoveElement, FS_CardinalityType
<1>4. Cardinality(Handlers) \in Nat /\ QueueDepth \in Nat
  BY SubmitAssumption, FS_CardinalityType
<1>. QED  BY <1>1, <1>2, <1>3, <1>4 DEF QueueInv, QueueIsBounded

(* An empty store has an empty queue.                                      *)
LEMMA InitQueue == Init => QueueInv
<1>. SUFFICES ASSUME Init PROVE QueueInv
  OBVIOUS
<1>1. Waiting = {}
  BY DEF Init, Waiting, Absent
<1>2. Promised = {}
  BY DEF Init, Promised, Idle
<1>3. Cardinality(Handlers) \in Nat /\ QueueDepth \in Nat \ {0}
  BY SubmitAssumption, FS_CardinalityType
<1>. QED  BY <1>1, <1>2, <1>3, FS_EmptySet DEF QueueInv, QueueIsBounded

(* Only `room' promises, only `save' queues. *)
LEMMA QueueStep == TypeOK /\ QueueInv /\ [Next]_vars => QueueInv'
<1>. SUFFICES ASSUME TypeOK, QueueInv, [Next]_vars PROVE QueueInv'
  OBVIOUS
<1>. USE DEF history, store
<1>0. handler \in [Handlers -> Tasks] /\ DOMAIN rec = Ids
  BY DEF TypeOK, Tasks
<1>1. ASSUME NEW h \in Handlers, NEW k \in Keys, NEW s \in Specs, NEW n \in Senders,
             Lookup(h, k, s, n)
      PROVE  QueueInv'
  <2>1. Waiting' = Waiting
    BY <1>1 DEF Lookup, Waiting
  <2>2. Promised' \subseteq Promised
    BY <1>0, <1>1 DEF Lookup, Promised
  <2>. QED  BY <2>1, <2>2, QueueShrinks
<1>2. ASSUME NEW h \in Handlers, Load(h) \/ Mint(h) \/ Exists(h) \/ WriteTemp(h)
                                 \/ Rename(h) \/ WriteFails(h)
      PROVE  QueueInv'
  <2>1. rec' = rec
    BY <1>2 DEF Load, Mint, Exists, WriteTemp, Rename, WriteFails
  <2>2. Promised' \subseteq Promised
    <3>1. CASE Load(h) \/ Rename(h) \/ WriteFails(h)
      <4>1. handler' = [handler EXCEPT ![h] = Idle]
        BY <3>1 DEF Load, Rename, WriteFails, Leave
      <4>. QED  BY <1>0, <4>1 DEF Idle, Promised
    <3>4. CASE WriteTemp(h)
      BY <1>0, <3>4 DEF WriteTemp, Goto, Promised, Tasks
    <3>2. CASE Mint(h)
      BY <1>0, <3>2 DEF Mint, Leave, Idle, Promised, Tasks
    <3>3. CASE Exists(h)
      BY <1>0, <3>3 DEF Exists, Goto, Leave, Idle, Promised, Tasks
    <3>. QED  BY <1>2, <3>1, <3>2, <3>3, <3>4
  <2>3. Waiting' = Waiting
    BY <2>1 DEF Waiting
  <2>. QED  BY <2>2, <2>3, QueueShrinks
<1>3. ASSUME NEW h \in Handlers, Room(h) PROVE QueueInv'
  <2>1. Waiting' = Waiting
    BY <1>3 DEF Room, Waiting
  <2>2. CASE Cardinality(Waiting) >= QueueDepth
    <3>1. Promised' \subseteq Promised
      BY <1>0, <1>3, <2>2 DEF Room, Leave, Idle, Promised
    <3>. QED  BY <2>1, <3>1, QueueShrinks
  <2>3. CASE ~(Cardinality(Waiting) >= QueueDepth)
    <3>1. Cardinality(Waiting) < QueueDepth
      BY <2>3, FS_CardinalityType, SubmitAssumption DEF QueueInv
    <3>. QED  BY <2>1, <3>1, QueuePromises
  <2>. QED  BY <2>2, <2>3
<1>4. ASSUME NEW h \in Handlers, MakeDir(h) PROVE QueueInv'
  <2>1. handler[h].job \in Ids
    BY <1>4 DEF MakeDir, TypeOK, Places
  <2>2. Waiting' \subseteq Waiting
    BY <1>0, <1>4, <2>1 DEF MakeDir, Waiting, Absent, TypeOK
  <2>3. Promised' \subseteq Promised
    BY <1>0, <1>4 DEF MakeDir, Goto, Promised, Tasks
  <2>. QED  BY <2>2, <2>3, QueueShrinks
<1>5. ASSUME NEW h \in Handlers, Save(h) PROVE QueueInv'
  <2>. DEFINE j == handler[h].job
  <2>1. h \in Promised
    BY <1>5 DEF Save, Promised
  <2>2. Waiting' \subseteq Waiting \cup {j}
    BY <1>0, <1>5 DEF Save, Waiting
  <2>3. Promised' = Promised \ {h}
    BY <1>0, <1>5 DEF Save, Goto, Promised, Tasks
  <2>. HIDE DEF j
  <2>. QED  BY <2>1, <2>2, <2>3, QueueKept
<1>6. ASSUME NEW j \in Ids, Run(j) \/ End(j) \/ RetireKey(j) \/ RetireKeyFails(j) PROVE QueueInv'
  <2>1. Promised' = Promised
    BY <1>6 DEF Run, End, RetireKey, RetireKeyFails, Promised
  <2>2. Waiting' \subseteq Waiting
    <3>1. CASE Run(j)
      BY <1>0, <3>1 DEF Run, Waiting, TypeOK
    <3>2. CASE End(j)
      BY <1>0, <3>2 DEF End, Waiting, TypeOK
    <3>3. CASE RetireKey(j)
      BY <3>3 DEF RetireKey, Waiting
    <3>4. CASE RetireKeyFails(j)
      BY <3>4 DEF RetireKeyFails, Waiting
    <3>. QED  BY <1>6, <3>1, <3>2, <3>3, <3>4
  <2>. QED  BY <2>1, <2>2, QueueShrinks
<1>7. CASE RetireDir \/ RetireFails
  <2>1. Promised' = Promised
    BY <1>7 DEF RetireDir, RetireFails, Promised
  <2>2. Waiting' \subseteq Waiting
    BY <1>0, <1>7 DEF RetireDir, RetireFails, Waiting, Absent
  <2>. QED  BY <2>1, <2>2, QueueShrinks
<1>8. CASE Crash
  <2>1. Promised' \subseteq Promised
    BY <1>8 DEF Crash, Promised, Idle
  <2>2. Waiting' = Waiting
    BY <1>8 DEF Crash, Waiting
  <2>. QED  BY <2>1, <2>2, QueueShrinks
<1>9. CASE UNCHANGED vars
  <2>1. Promised' = Promised /\ Waiting' = Waiting
    BY <1>9 DEF vars, Promised, Waiting
  <2>. QED  BY <2>1, QueueShrinks
<1>10. ASSUME NEW h \in Handlers, Submit(h) PROVE QueueInv'
  BY <1>1, <1>2, <1>3, <1>4, <1>5, <1>10 DEF Submit, Create
<1>. QED  BY <1>6, <1>7, <1>8, <1>9, <1>10 DEF Next

(* However many submissions pass the depth check together, the queue goes *)
(* over its limit by fewer than there are tasks (BenchHost::submit).      *)
THEOREM QueueOverrunIsBounded == Spec => []QueueIsBounded
<1>1. Init => TypeOK /\ MintInv /\ QueueInv
  BY InitType, InitQueue
<1>2. TypeOK /\ MintInv /\ QueueInv /\ [Next]_vars => TypeOK' /\ MintInv' /\ QueueInv'
  BY TypeStep, QueueStep
<1>3. QueueInv => QueueIsBounded
  BY DEF QueueInv
<1>. QED  BY <1>1, <1>2, <1>3, PTL DEF Spec
=============================================================================
