----------------------------- MODULE ReliableLog -----------------------------
(***************************************************************************)
(* What a job's event stream promises (docs/BENCH.md): a log that only     *)
(* grows, and a reader that gets every entry from the one it asked for on, *)
(* once, in order.                                                         *)
(***************************************************************************)
EXTENDS Naturals, Sequences

CONSTANT Entry

VARIABLES log,    \* the entries written so far
          start,  \* the place in the log the reader starts at
          seen    \* the entries the reader has been given

vars == <<log, start, seen>>

Init == log = <<>> /\ start \in Nat \ {0} /\ seen = <<>>

Write(e) == /\ log' = Append(log, e)
            /\ UNCHANGED <<start, seen>>

Read == /\ start + Len(seen) <= Len(log)
        /\ seen' = Append(seen, log[start + Len(seen)])
        /\ UNCHANGED <<log, start>>

Next == (\E e \in Entry : Write(e)) \/ Read

Spec == Init /\ [][Next]_vars
=============================================================================
