--------------------------- MODULE PolicyInForce ---------------------------
(***************************************************************************)
(* What a site promises about the policy it runs under, over its whole     *)
(* life, restarts included: each policy it adopts is newer than every one  *)
(* that came before, the only thing it ever falls back to is the floor,    *)
(* and what it may come back to from there is the newest policy alone.     *)
(***************************************************************************)
EXTENDS Integers

CONSTANTS Policies,  \* records with a sequence
          Floor      \* the degraded mode

VARIABLES inForce,   \* what governs the next decision
          newest     \* the highest sequence adopted so far

vars == <<inForce, newest>>

NoEpoch == -1

Init == inForce = Floor /\ newest = NoEpoch

\* A policy may lapse while it is being adopted: the site is then on the floor.
Adopt(b) ==
  /\ b.sequence > newest
  /\ newest' = b.sequence
  /\ inForce' \in {b, Floor}

\* The policy lapsed, or the process that held it is gone.
FallBack ==
  /\ inForce' = Floor
  /\ UNCHANGED newest

\* The policy had lapsed, and the clock was set back to before it did.
Return ==
  /\ inForce = Floor
  /\ inForce' \in {p \in Policies : p.sequence = newest}
  /\ UNCHANGED newest

Next == FallBack \/ Return \/ \E b \in Policies : Adopt(b)

Spec == Init /\ [][Next]_vars
=============================================================================
