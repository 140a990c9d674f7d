SPECIFICATION FairSpec
CONSTANTS
  Modes = {"active", "passive", "split"}
  Fds = {0, 1, 2, 3}
  Interference = TRUE
INVARIANTS
  TypeOK
  QuietAfterStop
  NoLeak
  MembersNameOwnSockets
  OwnTraffic
PROPERTY StopReturnsOrStrays
