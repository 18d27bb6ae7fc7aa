SPECIFICATION Spec
CONSTANTS
  MaxArrivals = 3
  CountModulus = 8
INVARIANT LateEventsKept
CHECK_DEADLOCK FALSE
