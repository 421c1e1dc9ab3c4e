\* Parts that arrive in order and once, or that are lost, repeated and late.
\* Three parts are too many, two messages in parts are too many, and a split
\* id is used twice.
SPECIFICATION Spec
CONSTANTS
  MaxMessages = 4
  MaxParts = 3
  MaxRepeats = 1
  SplitIds = 3
  kMaxSplitSize = 3
  kMaxSplitCount = 1
INVARIANTS
  WholeMessages
  LongAreLost
PROPERTIES
  CloggedForGood
CHECK_DEADLOCK FALSE
