\* Two producers and two consumers, stopped and started at any moment.
SPECIFICATION Spec
CONSTANTS
  Producers = {p1, p2}
  Consumers = {c1, c2}
  Controllers = {k1}
  Buffers = {b1, b2}
  m_size = 2
  NoBuffer = NoBuffer
  NoThread = NoThread
SYMMETRY Symmetry
INVARIANTS TypeOK NoLostWakeup AtMostOneMissesStop
PROPERTY ImplementsFifo
