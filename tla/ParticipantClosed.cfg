SPECIFICATION FairSpec
CONSTANTS
  Modes = {"active", "passive", "split"}
  Fds = {0, 1, 2, 3}
  Interference = FALSE
INVARIANT ClosedAfterStop
