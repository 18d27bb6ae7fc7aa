SPECIFICATION QuietSpec
CONSTANTS
  Threads = {t1}
  Cleaners = {c1, c2}
  KeyRange = 2
  Values = {1, 2}
  Capacity = 5
  MaxHead = 5
  MaxGen = 2
INVARIANTS
  TypeOK
  BuffersAlive
PROPERTIES
  ImplementsKV
  CleanReclaims
CHECK_DEADLOCK FALSE
