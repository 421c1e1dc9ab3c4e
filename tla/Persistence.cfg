\* Two blocks, a player, and one item that goes from one to the other and lies
\* about between.
SPECIFICATION Spec
CONSTANTS
  Players = {p1}
  Positions = {q1, q2}
  Items = {i1}
  None = None
  MaxActs = 3
SYMMETRY Symmetry
INVARIANTS
  ItemsSurvive
  CleanIsOnDisk
  HoppersHaveTiles
CHECK_DEADLOCK FALSE
