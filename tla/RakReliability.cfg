\* Three messages, two losses or duplicates; the resend limit of one pass of
\* update(), the windows and the limits of ACK packets are small enough to be
\* hit.
SPECIFICATION Spec
CONSTANTS
  Data = {d1, d2}
  MaxMessages = 3
  MaxDatagrams = 3
  MaxFaults = 2
  MtuPackets = 2
  DrainLimit = 1
  kWindowSize = 1
  TriadMod = 3
  AckRange = 1
  AckTotal = 2
SYMMETRY Symmetry
INVARIANTS
  InOrderOnce
  NothingStaleWaits
  NoMessageStranded
PROPERTIES
  OutrunIsForGood
  ImplementsChannel
CHECK_DEADLOCK FALSE
