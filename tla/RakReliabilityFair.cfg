\* Delivery and recovery under fairness: two messages, two losses or duplicates,
\* room for every resend.
SPECIFICATION FairSpec
CONSTANTS
  Data = {d1}
  MaxMessages = 2
  MaxDatagrams = 14
  MaxFaults = 2
  MtuPackets = 1
  DrainLimit = 1
  kWindowSize = 16
  TriadMod = 32
  AckRange = 1
  AckTotal = 2
PROPERTIES
  ImplementsFairChannel
  RecoveryDrains
CHECK_DEADLOCK FALSE
