------------------------------ MODULE BenchWait ------------------------------
(***************************************************************************)
(* StdPorts::wait: the loop that follows one gate child.  Each pass tails  *)
(* the child's log line by line to its end, looks whether the child is     *)
(* gone, decides whether to kill it (cancel, the run ceiling, a stall;     *)
(* SIGKILL after the grace), and sleeps.  Time is counted in sleeps, and   *)
(* passes while the log is tailed as well.  The child writes and exits     *)
(* between any two of those steps; an agent that restarts resumes the wait *)
(* of a child that is still there from the beginning of its log.           *)
(***************************************************************************)
EXTENDS Integers

CONSTANTS MaxRun,      \* plan.max_run
          Stall,       \* plan.stall_timeout
          Grace,       \* cancel_grace
          MaxTail,     \* how long one tail takes: the code sets no limit
          MaxLines,    \* bound: lines the child writes
          MaxRestarts  \* bound: agent restarts during the wait

ASSUME WaitAssumption ==
  /\ MaxRun \in Nat /\ Stall \in Nat /\ Grace \in Nat
  /\ MaxTail \in Nat /\ MaxLines \in Nat /\ MaxRestarts \in Nat

VARIABLES
  pc,          \* "tail", "check", "decide", "sleep", "returned", "orphaned"
  now,         \* time since the child was spawned, in sleeps
  tail,        \* how much of it this pass has spent in its tail
  started,     \* when this wait began
  lastOutput,  \* when a line was last tailed
  offset,      \* lines tailed: where the next tail starts
  verdict,     \* has the verdict line been tailed
  killing,     \* the decision, once SIGTERM was sent
  killedAt,    \* when
  end,         \* what wait returned
  cancel,      \* the job's cancel flag
  child,       \* "live" or "dead"
  written,     \* lines the child has finished
  verdictLine, \* which of them is the verdict (0: none)
  badLine,     \* the first that is not UTF-8 (0: none)
  lastLine,    \* when the last line before that was finished
  restarts

loopVars == <<started, lastOutput, offset, verdict, killing, killedAt, end>>
logVars == <<written, verdictLine, badLine, lastLine>>
childVars == <<child, logVars>>
vars == <<pc, now, tail, loopVars, cancel, childVars, restarts>>

Ends == {"none", "exited", "cancelled", "timedOut", "stalled", "failed"}

TypeOK ==
  /\ pc \in {"tail", "check", "decide", "sleep", "returned", "orphaned"}
  /\ now \in Nat /\ started \in Nat /\ lastOutput \in Nat /\ killedAt \in Nat
  /\ lastLine \in Nat
  /\ tail \in 0..MaxTail
  /\ offset \in 0..MaxLines /\ written \in 0..MaxLines
  /\ verdictLine \in 0..MaxLines /\ badLine \in 0..MaxLines
  /\ verdict \in BOOLEAN /\ cancel \in BOOLEAN
  /\ killing \in Ends \ {"exited", "failed"}
  /\ end \in Ends
  /\ child \in {"live", "dead"}
  /\ restarts \in 0..MaxRestarts

Init ==
  /\ pc = "tail"
  /\ now = 0 /\ started = 0 /\ lastOutput = 0 /\ killedAt = 0 /\ tail = 0
  /\ lastLine = 0
  /\ offset = 0 /\ written = 0 /\ verdictLine = 0 /\ badLine = 0
  /\ verdict = FALSE /\ cancel = FALSE
  /\ killing = "none" /\ end = "none"
  /\ child = "live"
  /\ restarts = 0

-----------------------------------------------------------------------------
(* The loop *)

(* The lines read_line can return: a line that is not UTF-8 is an error,   *)
(* and the offset stays before it in every later pass.                     *)
Readable == IF badLine = 0 THEN written ELSE badLine - 1

(* One turn of the tail: a finished line is read and ends the silence.     *)
(* Neither the cancel flag nor the ceiling is looked at between two lines. *)
TailLine ==
  /\ pc = "tail"
  /\ offset < Readable
  /\ offset' = offset + 1
  /\ lastOutput' = now
  /\ verdict' = (verdict \/ verdictLine = offset + 1)
  /\ UNCHANGED <<pc, now, tail, started, killing, killedAt, end, cancel, childVars, restarts>>

(* Reading a long log, and journaling what it says, takes time. *)
TailTakesTime ==
  /\ pc = "tail"
  /\ tail < MaxTail
  /\ tail' = tail + 1
  /\ now' = now + 1
  /\ UNCHANGED <<pc, loopVars, cancel, childVars, restarts>>

(* Mutant of TailEnds: the tail blocks until there was a line to read. *)
TailBlocks ==
  /\ pc = "tail"
  /\ offset = Readable /\ offset > 0
  /\ pc' = "check"
  /\ UNCHANGED <<now, tail, loopVars, cancel, childVars, restarts>>

(* The tail is over at the end of the log, at a line that has no newline   *)
(* yet, and at a line it cannot decode.                                    *)
TailEnds ==
  /\ pc = "tail"
  /\ offset = Readable
  /\ pc' = "check"
  /\ UNCHANGED <<now, tail, loopVars, cancel, childVars, restarts>>

(* try_wait, or /proc for a recovered child. *)
CheckExit ==
  /\ pc = "check"
  /\ IF child = "dead"
     THEN /\ end' = IF killing = "none" THEN "exited" ELSE killing
          /\ pc' = "returned"
     ELSE /\ pc' = "decide"
          /\ UNCHANGED end
  /\ UNCHANGED <<now, tail, started, lastOutput, offset, verdict, killing, killedAt, cancel,
                 childVars, restarts>>

(* try_wait()? of the agent's own child: the error ends the wait. *)
CheckFails ==
  /\ pc = "check"
  /\ restarts = 0
  /\ end' = "failed"
  /\ pc' = "returned"
  /\ UNCHANGED <<now, tail, started, lastOutput, offset, verdict, killing, killedAt, cancel,
                 childVars, restarts>>

(* Mutant of Reason: silence is measured from the start of the wait. *)
StallFromStart ==
  IF cancel THEN "cancelled"
  ELSE IF now - started > MaxRun THEN "timedOut"
  ELSE IF now - started > Stall THEN "stalled"
  ELSE "none"

(* Mutant of Reason: a line of output also resets the run ceiling. *)
CeilingFromOutput ==
  IF cancel THEN "cancelled"
  ELSE IF now - lastOutput > MaxRun THEN "timedOut"
  ELSE IF now - lastOutput > Stall THEN "stalled"
  ELSE "none"

(* Which of the three reasons to kill applies, in the order they are tried. *)
Reason ==
  IF cancel THEN "cancelled"
  ELSE IF now - started > MaxRun THEN "timedOut"
  ELSE IF now - lastOutput > Stall THEN "stalled"
  ELSE "none"

GraceOver == killing # "none" /\ now - killedAt > Grace

SendTerm ==
  /\ pc = "decide"
  /\ killing = "none"
  /\ Reason # "none"
  /\ killing' = Reason
  /\ killedAt' = now
  /\ pc' = "sleep"
  /\ UNCHANGED <<now, tail, started, lastOutput, offset, verdict, end, cancel, childVars, restarts>>

(* SIGKILL to the group: the child cannot outlive it. *)
SendKill ==
  /\ pc = "decide"
  /\ GraceOver
  /\ child' = "dead"
  /\ pc' = "sleep"
  /\ UNCHANGED <<now, tail, loopVars, cancel, logVars, restarts>>

KeepWaiting ==
  /\ pc = "decide"
  /\ ~GraceOver
  /\ killing = "none" => Reason = "none"
  /\ pc' = "sleep"
  /\ UNCHANGED <<now, tail, loopVars, cancel, childVars, restarts>>

Sleep ==
  /\ pc = "sleep"
  /\ now' = now + 1
  /\ tail' = 0
  /\ pc' = "tail"
  /\ UNCHANGED <<loopVars, cancel, childVars, restarts>>

-----------------------------------------------------------------------------
(* Around it *)

SetCancel ==
  /\ ~cancel
  /\ cancel' = TRUE
  /\ UNCHANGED <<pc, now, tail, loopVars, childVars, restarts>>

(* External: the child finishes a line: its verdict, at most once, bytes   *)
(* that are not UTF-8, or anything else.  A line it has not finished is    *)
(* not there for the tail.                                                 *)
ChildWrites(kind) ==
  /\ child = "live"
  /\ written < MaxLines
  /\ kind = "verdict" => verdictLine = 0
  /\ written' = written + 1
  /\ verdictLine' = IF kind = "verdict" THEN written + 1 ELSE verdictLine
  /\ badLine' = IF kind = "bytes" /\ badLine = 0 THEN written + 1 ELSE badLine
  /\ lastLine' = IF badLine' = 0 THEN now ELSE lastLine
  /\ UNCHANGED <<pc, now, tail, loopVars, cancel, child, restarts>>

(* External: it ends by itself, or obeys SIGTERM. *)
ChildExits ==
  /\ child = "live"
  /\ child' = "dead"
  /\ UNCHANGED <<pc, now, tail, loopVars, cancel, logVars, restarts>>

(* recover(): a live child is waited for afresh, the flag registered anew; *)
(* otherwise the job is orphaned.                                          *)
Restart ==
  /\ pc \notin {"returned", "orphaned"}
  /\ restarts < MaxRestarts
  /\ restarts' = restarts + 1
  /\ pc' = IF child = "live" THEN "tail" ELSE "orphaned"
  /\ tail' = 0
  /\ started' = now
  /\ lastOutput' = now
  /\ offset' = 0
  /\ verdict' = FALSE
  /\ killing' = "none"
  /\ cancel' = FALSE
  /\ UNCHANGED <<now, killedAt, end, childVars>>

Loop == TailLine \/ TailEnds \/ CheckExit \/ CheckFails
        \/ SendTerm \/ SendKill \/ KeepWaiting \/ Sleep

Next == \/ Loop
        \/ TailTakesTime
        \/ SetCancel
        \/ \E kind \in {"text", "verdict", "bytes"} : ChildWrites(kind)
        \/ ChildExits
        \/ Restart

Spec == Init /\ [][Next]_vars

(* The waiting thread is scheduled.  Of the child nothing is assumed but   *)
(* what the bounds say: its output is finite, and so is every tail.        *)
FairSpec == Spec /\ WF_vars(Loop)

-----------------------------------------------------------------------------
(* Properties that hold *)

(* Whatever the child does, a wait is over within the run ceiling, the     *)
(* grace, three sleeps and three tails: the ceiling and the grace are      *)
(* looked at after every tail, never in one (ports_std.rs, wait).          *)
WaitBounded == now - started <= MaxRun + Grace + 3 + 3 * MaxTail

(* So it is in every pass, and nothing is read that was not written, nor   *)
(* past a line that is not UTF-8.                                          *)
WaitIsSound == TypeOK /\ WaitBounded /\ offset <= Readable

(* A wait that ends as a stall had a child that, for the stall timeout     *)
(* before it was signalled, finished no line the tail can read, or only    *)
(* after this pass had tailed (ports_std.rs, last_output).                 *)
StallIsSilence ==
  pc = "decide" /\ killing = "none" /\ Reason = "stalled" =>
    \/ now - lastLine > Stall
    \/ lastLine = now /\ Readable > offset

(* wait() returns, though the child may ignore every signal but SIGKILL.   *)
WaitReturns == <>(pc \in {"returned", "orphaned"})

-----------------------------------------------------------------------------
(* What the documentation says and the code does not keep *)

(* ports_std.rs: of a recovered child "its verdict line still tells the    *)
(* truth": a verdict the child wrote before it exited is in what wait      *)
(* returns.                                                                *)
VerdictIsRead == end = "exited" /\ verdictLine # 0 => verdict
=============================================================================
