--------------------------- MODULE MCPersistence ---------------------------
\* An instance of Persistence for TLC.
EXTENDS Persistence, TLC

\* No operator of the model tells one player or one position from another.
Symmetry == Permutations(Players) \cup Permutations(Positions)
=============================================================================
