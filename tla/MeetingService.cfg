SPECIFICATION Spec
CONSTANTS
  w1 = w1
  w2 = w2
  w3 = w3
  m1 = m1
  m2 = m2
  p1 = p1
  p2 = p2
  Workers = {w1, w2, w3}
  Meetings = {m1, m2}
  Parts = {p1, p2}
  SetupMayFail = TRUE
  Slots = 1
  base = 5
  count = 2
  Width = 8
SYMMETRY Interchangeable
INVARIANTS
  TypeOK
  OnePortOneParticipant
  PoolExact
  NoOrphanListener
  NoBridgeNoMembers
