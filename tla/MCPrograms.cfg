SPECIFICATION FairSpec
CONSTANTS
  Readers = {r1, r2, r3}
  Writers = {w1, w2}
  Incrementers = {t1, t2, t3}
  Nobody = Nobody
  Values = {a, b}
INVARIANTS TypeOK NoUpdateLost Synchronised OneOwner InOrder NoneForgotten ReadsHold
PROPERTIES AllJoin ImplementsFifo AllArrive
CHECK_DEADLOCK FALSE
