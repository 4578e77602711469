------------------------------ MODULE Agreement ------------------------------
(***************************************************************************)
(* What a launch over several machines promises, with nothing in it of the *)
(* ceremonies, the calls and the reservations that bring it about: who has *)
(* agreed to an attempt, what each machine runs, and which attempts are    *)
(* said to have started.  A machine starts an attempt only when all of     *)
(* them have agreed to it, and an attempt is said to have started only     *)
(* when all of them have started it; what runs may end at any moment.      *)
(***************************************************************************)
CONSTANTS Ranks,     \* the machines
          Attempts,  \* the launches
          Nothing    \* what a machine runs that runs nothing

VARIABLES
  agreed,  \* who agreed to each attempt
  runs,    \* the attempt each machine runs
  begun,   \* who ever started each attempt
  up       \* the attempts that are said to have started

vars == <<agreed, runs, begun, up>>

Init ==
  /\ agreed = [a \in Attempts |-> {}]
  /\ runs = [r \in Ranks |-> Nothing]
  /\ begun = [a \in Attempts |-> {}]
  /\ up = {}

Agree(r, a) ==
  /\ agreed' = [agreed EXCEPT ![a] = @ \cup {r}]
  /\ UNCHANGED <<runs, begun, up>>

(* Whatever the machine runs is replaced. *)
Start(r, a) ==
  /\ agreed[a] = Ranks
  /\ runs' = [runs EXCEPT ![r] = a]
  /\ begun' = [begun EXCEPT ![a] = @ \cup {r}]
  /\ UNCHANGED <<agreed, up>>

(* It is stopped, or ends on its own. *)
End(r) ==
  /\ runs' = [runs EXCEPT ![r] = Nothing]
  /\ UNCHANGED <<agreed, begun, up>>

Report(a) ==
  /\ begun[a] = Ranks
  /\ up' = up \cup {a}
  /\ UNCHANGED <<agreed, runs, begun>>

Next ==
  \/ \E r \in Ranks, a \in Attempts : Agree(r, a) \/ Start(r, a)
  \/ \E r \in Ranks : End(r)
  \/ \E a \in Attempts : Report(a)

Spec == Init /\ [][Next]_vars
=============================================================================
