SPECIFICATION FairSpec
CONSTANTS
  Submitters = {s1, s2}
  Workers = {w1, w2}
  QMax = 2
  MaxJobs = 6
  MaxOutside = 4
  MaxHead = 7
  Nested = {1, 2}
INVARIANTS
  TypeOK
  PendingIntact
  NoLostWakeup
PROPERTIES
  NoSubmitAfterStop
  AcceptedJobsRun
CHECK_DEADLOCK FALSE
