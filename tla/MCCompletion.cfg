SPECIFICATION FairSpec
CONSTANTS
  Threads = {t1}
  NoThread = NoThread
  MaxGeneration = 1
PROPERTY TimeoutEnds
CHECK_DEADLOCK FALSE
