SPECIFICATION Spec
CONSTANTS
  Threads = {t1}
  Cleaners = {c1}
  KeyRange = 2
  Values = {1, 2}
  Capacity = 5
  MaxHead = 5
  MaxGen = 1
PROPERTY
  ImplementsKV
CHECK_DEADLOCK FALSE
