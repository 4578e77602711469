----------------------------- MODULE Invitations -----------------------------
(***************************************************************************)
(* What a join window promises, with nothing in it of connections, of      *)
(* ceremonies or of the file the pins are kept in.  At most one invitation *)
(* is on offer; its code is handed out a few times and only until it is    *)
(* closed; it admits at most one machine, which has proved its code or one *)
(* handed out before; and no machine is trusted that has not proved one.   *)
(***************************************************************************)
EXTENDS Naturals

CONSTANTS Machines,  \* the machines that may be trusted
          Codes,     \* the codes that may be minted
          Budget     \* how often one code is handed out

VARIABLES
  minted,   \* how many codes were minted, the last one the latest
  out,      \* the code on offer, 0 when there is none
  closed,   \* the codes that were replaced, withdrawn, spent or have expired
  tries,    \* how often each code was handed out
  used,     \* the codes proved by the machines each invitation admitted
  proved,   \* the machines that proved they know a code
  trusted   \* the machines that are trusted

vars == <<minted, out, closed, tries, used, proved, trusted>>

Init ==
  /\ minted = 0 /\ out = 0 /\ closed = {}
  /\ tries = [k \in Codes |-> 0]
  /\ used = [k \in Codes |-> <<>>]
  /\ proved = {} /\ trusted = {}

(* A new code takes the place of the one on offer. *)
Mint ==
  /\ minted' = minted + 1
  /\ minted' \in Codes
  /\ out' = minted'
  /\ closed' = closed \cup ({out} \ {0})
  /\ UNCHANGED <<tries, used, proved, trusted>>

(* An offer that ended may be taken down at once or be found stale later. *)
Close ==
  /\ out # 0
  /\ closed' = closed \cup {out}
  /\ out' \in {0, out}
  /\ UNCHANGED <<minted, tries, used, proved, trusted>>

HandOut ==
  /\ out # 0 /\ out \notin closed
  /\ tries[out] < Budget
  /\ tries' = [tries EXCEPT ![out] = @ + 1]
  /\ UNCHANGED <<minted, out, closed, used, proved, trusted>>

(* A machine that was handed code k in time may be admitted after that     *)
(* offer expired, and on the invitation that took its place.               *)
Admit(m, k) ==
  /\ out # 0
  /\ used[out] = <<>>
  /\ k \in 1 .. out
  /\ tries[k] > 0
  /\ used' = [used EXCEPT ![out] = <<k>>]
  /\ out' = 0
  /\ closed' = closed \cup {out}
  /\ proved' = proved \cup {m}
  /\ UNCHANGED <<minted, tries, trusted>>

(* The owner pairs by hand, with a code of the other machine. *)
Prove(m) ==
  /\ proved' = proved \cup {m}
  /\ UNCHANGED <<minted, out, closed, tries, used, trusted>>

(* Machines are taken up and dropped, several at a time when writers of    *)
(* the record overtake each other.                                         *)
Trust(T) ==
  /\ T \subseteq proved
  /\ trusted' = T
  /\ UNCHANGED <<minted, out, closed, tries, used, proved>>

Next ==
  \/ Mint \/ Close \/ HandOut
  \/ \E m \in Machines, k \in Codes : Admit(m, k)
  \/ \E m \in Machines : Prove(m)
  \/ \E T \in SUBSET Machines : Trust(T)

Spec == Init /\ [][Next]_vars
=============================================================================
