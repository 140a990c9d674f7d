SPECIFICATION Spec
CONSTANTS
  w1 = w1
  w2 = w2
  m1 = m1
  m2 = m2
  p1 = p1
  p2 = p2
  Workers = {w1, w2}
  Meetings = {m1, m2}
  Parts = {p1, p2}
SYMMETRY Interchangeable
INVARIANTS
  TypeOK
  Truthful
  ListedTrue
