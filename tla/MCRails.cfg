SPECIFICATION RailsSpec
CONSTANTS
  RailCells <- MCCells
  RailGrounds <- MCGrounds
INVARIANTS
  RailsTypeOK
  ShownAsLaid
PROPERTIES
  LinksAreKept
