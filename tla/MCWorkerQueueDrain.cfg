SPECIFICATION Spec
CONSTANTS
  Submitters = {s1, s2}
  Workers = {w1, w2}
  QMax = 2
  MaxJobs = 6
  MaxOutside = 4
  MaxHead = 7
  Nested = {1, 2}
INVARIANT DrainsExistingJobs
CHECK_DEADLOCK FALSE
