--------------------------- MODULE BenchWaitProofs ---------------------------
(***************************************************************************)
(* For every run ceiling, stall timeout and grace, any length of a tail,   *)
(* any number of lines and of agent restarts: a wait is bounded whatever   *)
(* the child does, and a child is killed for silence only when it finished *)
(* no line the tail could read.                                            *)
(***************************************************************************)
EXTENDS BenchWait, TLAPS

-----------------------------------------------------------------------------
(* The inductive invariant *)

(* The clock runs ahead of every time the loop has noted. *)
ClockInv ==
  /\ started <= now /\ lastOutput <= now /\ lastLine <= now
  /\ killing # "none" => started <= killedAt /\ killedAt <= now

(* Until it decides to kill, the loop is at most one sleep and one tail    *)
(* past the run ceiling, and it never goes to sleep past it undecided.     *)
CeilingInv ==
  /\ killing = "none" =>
       /\ now - started <= MaxRun + 1 + tail
       /\ pc = "sleep" => now - started <= MaxRun
  /\ killing # "none" => killedAt - started <= MaxRun + 1 + MaxTail

(* From the decision on, a child that still lives is within the grace, one *)
(* sleep and one tail; one more of each sees that it is dead.              *)
GraceInv ==
  killing # "none" =>
    /\ now - killedAt <= Grace + 2 + MaxTail + tail
    /\ pc \in {"decide", "sleep"} => now - killedAt <= Grace + 1 + MaxTail
    /\ child = "live" => now - killedAt <= Grace + 1 + tail
    /\ child = "live" /\ pc = "sleep" => now - killedAt <= Grace

(* The first line that is not UTF-8 is one that was written. *)
BadInv == badLine <= written

(* What the tail has read was written before it was read; what it could    *)
(* read and has not, between the tail of this pass and the next, was       *)
(* written in this pass.                                                   *)
OutputInv ==
  /\ offset <= Readable
  /\ offset = Readable => lastLine <= lastOutput
  /\ pc \in {"check", "decide", "sleep"} /\ offset < Readable => lastLine = now

WaitInv == TypeOK /\ ClockInv /\ CeilingInv /\ GraceInv /\ BadInv /\ OutputInv

-----------------------------------------------------------------------------
LEMMA InitWait == Init => WaitInv
  <1> SUFFICES ASSUME Init PROVE WaitInv
    OBVIOUS
  <1>1. verdict \in BOOLEAN /\ cancel \in BOOLEAN
    BY Zenon DEF Init
  <1>2. TypeOK
    BY <1>1, WaitAssumption DEF Init, TypeOK, Ends
  <1>3. ClockInv /\ CeilingInv /\ GraceInv /\ BadInv /\ OutputInv
    BY WaitAssumption
    DEF Init, ClockInv, CeilingInv, GraceInv, BadInv, OutputInv, Readable
  <1>4. QED
    BY <1>2, <1>3 DEF WaitInv

(* A decision to kill names one of its three reasons. *)
LEMMA ReasonType == Reason \in Ends \ {"exited", "failed"}
  BY DEF Reason, Ends

LEMMA NextType ==
  ASSUME TypeOK, Next PROVE TypeOK'
  <1> USE WaitAssumption
  <1>1. CASE TailLine
    <2>1. verdict' \in BOOLEAN
      BY <1>1, Zenon DEF TailLine, TypeOK
    <2>2. offset + 1 \in 0..MaxLines
      BY <1>1 DEF TailLine, TypeOK, Readable
    <2>3. QED
      BY <1>1, <2>1, <2>2 DEF TailLine, TypeOK, childVars, logVars
  <1>12. CASE TailTakesTime BY <1>12 DEF TailTakesTime, TypeOK, loopVars, childVars, logVars
  <1>13. CASE TailEnds BY <1>13 DEF TailEnds, TypeOK, loopVars, childVars, logVars
  <1>14. CASE CheckFails BY <1>14 DEF CheckFails, TypeOK, childVars, logVars, Ends
  <1>2. CASE CheckExit BY <1>2 DEF CheckExit, TypeOK, childVars, logVars, Ends
  <1>3. CASE SendTerm BY <1>3, ReasonType DEF SendTerm, TypeOK, childVars, logVars
  <1>4. CASE SendKill BY <1>4 DEF SendKill, TypeOK, loopVars, logVars
  <1>5. CASE KeepWaiting BY <1>5 DEF KeepWaiting, TypeOK, loopVars, childVars, logVars
  <1>6. CASE Sleep BY <1>6 DEF Sleep, TypeOK, loopVars, childVars, logVars
  <1>7. CASE SetCancel BY <1>7 DEF SetCancel, TypeOK, loopVars, childVars, logVars
  <1>8. ASSUME NEW k, ChildWrites(k) PROVE TypeOK'
    BY <1>8 DEF ChildWrites, TypeOK, loopVars, logVars
  <1>9. CASE ChildExits BY <1>9 DEF ChildExits, TypeOK, loopVars, logVars
  <1>10. CASE Restart
    <2>1. verdict' \in BOOLEAN /\ cancel' \in BOOLEAN
      BY <1>10, Zenon DEF Restart
    <2>2. QED
      BY <1>10, <2>1 DEF Restart, TypeOK, childVars, logVars, Ends
  <1>11. QED
    BY <1>1, <1>2, <1>3, <1>4, <1>5, <1>6, <1>7, <1>8, <1>9, <1>10,
       <1>12, <1>13, <1>14 DEF Next, Loop

(* Only Sleep moves the clock, and it starts from the bounds of a pass     *)
(* that has decided; SendTerm notes the time, SendKill leaves no child.    *)
LEMMA NextTimes ==
  ASSUME WaitInv, Next PROVE ClockInv' /\ CeilingInv' /\ GraceInv'
  <1> USE WaitAssumption DEF WaitInv, TypeOK, ClockInv, CeilingInv, GraceInv
  <1>1. CASE TailLine BY <1>1 DEF TailLine, childVars, logVars
  <1>12. CASE TailTakesTime BY <1>12 DEF TailTakesTime, loopVars, childVars, logVars
  <1>13. CASE TailEnds BY <1>13 DEF TailEnds, loopVars, childVars, logVars
  <1>14. CASE CheckFails BY <1>14 DEF CheckFails, childVars, logVars
  <1>2. CASE CheckExit BY <1>2 DEF CheckExit, childVars, logVars
  <1>3. CASE SendTerm BY <1>3 DEF SendTerm, childVars, logVars
  <1>4. CASE SendKill BY <1>4 DEF SendKill, GraceOver, loopVars, logVars
  <1>5. CASE KeepWaiting
    <2>1. killing = "none" => now - started <= MaxRun
      BY <1>5 DEF KeepWaiting, Reason
    <2>2. killing # "none" => now - killedAt <= Grace
      BY <1>5 DEF KeepWaiting, GraceOver
    <2>3. QED
      BY <1>5, <2>1, <2>2 DEF KeepWaiting, loopVars, childVars, logVars
  <1>6. CASE Sleep BY <1>6 DEF Sleep, loopVars, childVars, logVars
  <1>7. CASE SetCancel BY <1>7 DEF SetCancel, loopVars, childVars, logVars
  <1>8. ASSUME NEW k, ChildWrites(k) PROVE ClockInv' /\ CeilingInv' /\ GraceInv'
    BY <1>8 DEF ChildWrites, loopVars, logVars
  <1>9. CASE ChildExits BY <1>9 DEF ChildExits, loopVars, logVars
  <1>10. CASE Restart BY <1>10 DEF Restart, childVars, logVars
  <1>11. QED
    BY <1>1, <1>2, <1>3, <1>4, <1>5, <1>6, <1>7, <1>8, <1>9, <1>10,
       <1>12, <1>13, <1>14 DEF Next, Loop

LEMMA NextOutput ==
  ASSUME WaitInv, Next PROVE (BadInv /\ OutputInv)'
  <1> USE WaitAssumption DEF WaitInv, TypeOK, ClockInv, BadInv, OutputInv, Readable
  <1>1. CASE TailLine BY <1>1 DEF TailLine, childVars, logVars
  <1>12. CASE TailTakesTime BY <1>12 DEF TailTakesTime, loopVars, childVars, logVars
  <1>13. CASE TailEnds BY <1>13 DEF TailEnds, loopVars, childVars, logVars
  <1>14. CASE CheckFails BY <1>14 DEF CheckFails, childVars, logVars
  <1>2. CASE CheckExit BY <1>2 DEF CheckExit, childVars, logVars
  <1>3. CASE SendTerm BY <1>3 DEF SendTerm, childVars, logVars
  <1>4. CASE SendKill BY <1>4 DEF SendKill, loopVars, logVars
  <1>5. CASE KeepWaiting BY <1>5 DEF KeepWaiting, loopVars, childVars, logVars
  <1>6. CASE Sleep BY <1>6 DEF Sleep, loopVars, childVars, logVars
  <1>7. CASE SetCancel BY <1>7 DEF SetCancel, loopVars, childVars, logVars
  <1>8. ASSUME NEW k, ChildWrites(k) PROVE (BadInv /\ OutputInv)'
    BY <1>8 DEF ChildWrites, loopVars, logVars
  <1>9. CASE ChildExits BY <1>9 DEF ChildExits, loopVars, logVars
  <1>10. CASE Restart BY <1>10 DEF Restart, childVars, logVars
  <1>11. QED
    BY <1>1, <1>2, <1>3, <1>4, <1>5, <1>6, <1>7, <1>8, <1>9, <1>10,
       <1>12, <1>13, <1>14 DEF Next, Loop

LEMMA StutterWait ==
  ASSUME WaitInv, UNCHANGED vars PROVE WaitInv'
  BY DEF WaitInv, TypeOK, ClockInv, CeilingInv, GraceInv, BadInv, OutputInv, Readable,
      vars, loopVars, childVars, logVars

(* The invariant holds in every state of the wait (ports_std.rs, wait). *)
THEOREM WaitInvariant == Spec => []WaitInv
  <1>1. WaitInv /\ [Next]_vars => WaitInv'
    <2>1. ASSUME WaitInv, Next PROVE WaitInv'
      BY <2>1, NextType, NextTimes, NextOutput DEF WaitInv
    <2>2. QED
      BY <2>1, StutterWait
  <1>2. QED
    BY InitWait, <1>1, PTL DEF Spec

-----------------------------------------------------------------------------
(* Whatever the child does, every pass of a wait is within the run         *)
(* ceiling, the grace, three sleeps and three tails of its start, and      *)
(* nothing is read of the log that was not written, nor past a line that   *)
(* is not UTF-8 (ports_std.rs, wait).                                      *)
THEOREM WaitIsBounded == Spec => []WaitIsSound
  <1>1. WaitInv => WaitIsSound
    BY WaitAssumption
    DEF WaitInv, WaitIsSound, WaitBounded, TypeOK, ClockInv, CeilingInv, GraceInv,
        BadInv, OutputInv, Readable
  <1>2. QED
    BY WaitInvariant, <1>1, PTL

(* A child is signalled for a stall only if, for the stall timeout, it     *)
(* finished no line the tail can read, or did so after this pass had       *)
(* tailed its log (ports_std.rs, wait: last_output and stall_timeout).     *)
THEOREM StalledMeansSilent == Spec => []StallIsSilence
  <1>1. WaitInv => StallIsSilence
    BY WaitAssumption
    DEF WaitInv, StallIsSilence, Reason, TypeOK, ClockInv, BadInv, OutputInv, Readable
  <1>2. QED
    BY WaitInvariant, <1>1, PTL
=============================================================================
