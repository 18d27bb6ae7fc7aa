SPECIFICATION FairSpec
CONSTANTS
  Users = {t1, t2}
  Servers = {t3, t4}
  Clients = {t1, t2, t3}
  Callbacks = {c1}
  Topics = {x, y}
  Commands = {k1, k2, k3, k4, k5, k6}
  NoThread = NoThread
  STAT_COUNT = 2
  MAX = 3
  Deltas = {1, 3}
  MaxAdds = 3
  MAX_SUBS = 3
  MaxEvents = 2
  Cap = 2
  Capacity = 2
  TP_CAP = 2
  MaxJobs = 4
INVARIANTS TypeOK SnapshotConsistent NoneMissed OnePlace PermitsMatchFree
PROPERTIES NoneUndercut EachIsServed
CHECK_DEADLOCK FALSE
