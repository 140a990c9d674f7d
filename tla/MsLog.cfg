SPECIFICATION FairSpec
CONSTANTS
  t1 = t1
  t2 = t2
  Loggers = {t1, t2}
  MaxLogQueue = 0
  m_days = 2
  Month = 4
  LongDays = {1}
  ShortDays = {2}
  MaxLines = 3
  MaxDate = 4
  MaxMishaps = 1
INVARIANTS
  TypeOK
  InOrder
PROPERTIES
  Retained
  LateLinesWritten
