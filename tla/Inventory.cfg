\* Three slots, one of them armor, three items of two types, stacks of two; two
\* of one type make one of the other.
SPECIFICATION Spec
CONSTANTS
  Types = {log, plank}
  Air = Air
  Slots = 3
  Storage = 2
  MaxStack = 2
  MaxPending = 3
  InType = log
  InCount = 2
  OutType = plank
  OutCount = 1
  Units = 3
  MaxActs = 3
INVARIANTS
  ViewsAgree
PROPERTIES
  Conserved
  Paid
CHECK_DEADLOCK FALSE
