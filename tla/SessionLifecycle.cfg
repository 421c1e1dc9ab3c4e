\* Two clients that share a name; a session may be silent for one unit of time.
SPECIFICATION FairSpec
CONSTANTS
  Endpoints = {e1, e2}
  Names = {n1}
  NoName = NoName
  Timeout = 1
INVARIANTS
  PlayersHaveSessions
  ClosedOnce
  BannedAreOut
PROPERTIES
  SilentIsDropped
