\* Two producers and two consumers on a ring of two slots.
SPECIFICATION Spec
CONSTANTS
  Producers = {p1, p2}
  Consumers = {c1, c2}
  Values = {a, b}
  Capacity = 2
INVARIANTS
  TypeOK
  RingConsistent
  NoLostWakeup
PROPERTY
  ImplementsFifo
