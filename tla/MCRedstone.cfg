\* A line of four cells, computed anew as a whole except after a repeater was
\* set; a current of two fades out on it.
SPECIFICATION RedstoneSpec
CONSTANTS
  LineLength = 4
  BoxRadius = 3
  NarrowBoxRadius = 2
  MaxPower = 2
  MaxDelay = 2
  MaxActs = 8
INVARIANTS
  RedstoneTypeOK
  CurrentIsTrue
  RepeatersCatchUp
CHECK_DEADLOCK FALSE
