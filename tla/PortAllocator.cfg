SPECIFICATION MCSpec
CONSTANTS
  base = 12
  count = 4
  Width = 16
INVARIANTS
  PoolMatchesCallers
PROPERTIES
  Rotation
