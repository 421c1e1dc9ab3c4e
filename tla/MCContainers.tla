---------------------------- MODULE MCContainers ----------------------------
\* An instance of Containers for TLC.
EXTENDS Containers, TLC

\* No operator of the model tells one player or one direction from another.
Symmetry == Permutations(Players) \cup Permutations(Facings)

\* Bound: who else plays does nothing, and there is one move, while there is
\* a chest beyond the first two.
Idle(p) ==
  /\ p \notin DOMAIN windows /\ up[p] = << >> /\ ~waiting[p]
  /\ hand[p] = Air /\ holds[p] = Air

SmallEnough ==
  \/ \A pos \in Positions : pos > 2 => block[pos] = Air /\ pos \notin DOMAIN chests
  \/ moves <= 1 /\ \E p \in Players : \A q \in Players \ {p} : Idle(q)
=============================================================================
