SPECIFICATION FairSpec
CONSTANTS
  w1 = w1
  w2 = w2
  p1 = p1
  p2 = p2
  p3 = p3
  Workers = {w1, w2}
  Parts = {p1, p2, p3}
  Clock = Clock
  Nobody = Nobody
  Room = 2
  SetupMayFail = TRUE
INVARIANTS
  TypeOK
  TickIsSafe
  TableAgrees
  MuteHitsNamed
PROPERTIES
  StillDuringTick
  RoomSpec
  Answered
