------------------------------ MODULE MCRails ------------------------------
\* Rails under names that are nowhere else, for TLC, and for the module of
\* proofs that is also about another component.
EXTENDS Integers

CONSTANTS RailCells, RailGrounds

VARIABLES ground, rail, shown, broken

R == INSTANCE Rails WITH Cells <- RailCells, Grounds <- RailGrounds

ASSUME RailAssumption == R!ConstantsOK

RailsSpec == R!Spec

RailsTypeOK == R!TypeOK

\* The players have been told of every rail that was turned.
ShownAsLaid == R!ShownAsLaid

\* No track comes apart because of what is done beside it.
LinksAreKept == R!LinksAreKept

\* For TLC: a cross with two of its corners, level or with a step in it.
Cross == {<<1, 2>>, <<2, 2>>, <<3, 2>>, <<2, 1>>, <<2, 3>>}
MCCells == Cross \cup {<<1, 1>>, <<3, 3>>}

Level == [c \in MCCells |-> 0]
Stepped == [c \in MCCells |-> IF c[1] >= 2 THEN 1 ELSE 0]
MCGrounds == {Level, Stepped}
=============================================================================
