\* Two players, two carts, two worlds of two spots each.
SPECIFICATION Spec
CONSTANTS
  Players = {p1, p2}
  Carts = {c1, c2}
  Worlds = {world, nether}
  Spots = {home, away}
  Home = home
  Default = world
  None = None
  Stranger = Stranger
SYMMETRY Symmetry
INVARIANTS
  ShownAsTheyAre
  LinksMatch
  KnownAreHere
CHECK_DEADLOCK FALSE
