\* Two players who move an item between themselves and two chests, perhaps a
\* double one, both moves under way; or one of them, and a row of three.
SPECIFICATION Spec
CONSTANTS
  Players = {p1, p2}
  Items = {i1}
  Air = Air
  Length = 3
  Facings = {north, south}
  MaxMoves = 2
SYMMETRY Symmetry
CONSTRAINT SmallEnough
INVARIANTS
  TypeOK
  PairsMatch
  SoleViewersSeeTruth
PROPERTY ItemsKept
CHECK_DEADLOCK FALSE
