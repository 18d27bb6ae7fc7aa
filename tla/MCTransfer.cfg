SPECIFICATION FairSpec
CONSTANTS
  Threads = {t1, t2, t3}
  a = a
  b = b
  c = c
  Counters = {a, b, c}
  Id <- MCId
  Addr <- MCAddr
  MaxId = 1
  AddrSpace = 3
  Initial <- MCInitial
  Amounts = {2}
INVARIANTS TypeOK NoCircularWait Conserved
PROPERTY AllCallsReturn
