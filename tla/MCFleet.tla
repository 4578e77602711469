------------------------------ MODULE MCFleet ------------------------------
(***************************************************************************)
(* Three machines in a line: a and b trust each other, and so do b and c.  *)
(* b lets a control it, and c lets b: a reaches c only through b.  a was   *)
(* joined to b and b to c, so each remembers the address of the next.      *)
(* Or a and b alone, with c a stranger to both, and more edits: enough for *)
(* one to drop the other, to let it join again from its side, and to stop, *)
(* while no browser asks for anything.                                     *)
(***************************************************************************)
EXTENDS Fleet

CONSTANTS a, b, c,
          LineEvents   \* bound: as MaxEvents, while the three are in a line

VARIABLE line

Line        == {<<a, b>>, <<b, a>>, <<b, c>>, <<c, b>>}
LineGrants  == {<<b, a>>, <<c, b>>}
Dialled     == {<<a, b>>, <<b, c>>}
Couple      == {<<a, b>>, <<b, a>>}
Announced   == {<<a, c>>}
Ids         == [n \in Nodes |-> CASE n = a -> 1 [] n = b -> 2 [] n = c -> 3]
Links       == [n \in Nodes |-> [m \in Nodes |-> 1]]

Stranger(m) == up[m] /\ \A n \in Nodes : ~Pinned(n, m) /\ ~Pinned(m, n) /\ seen[n][m] = "none"

MCInit == /\ line \in BOOLEAN
          /\ InitOf(IF line THEN Trust ELSE Couple)

MCNext == /\ Next
          /\ IF line THEN events' <= LineEvents ELSE Stranger(c)' /\ session' = "closed"
          /\ UNCHANGED line

MCSpec == MCInit /\ [][MCNext]_<<vars, line>> /\ Fairness
=============================================================================
