SPECIFICATION Spec
CONSTANTS
  t1 = t1
  t2 = t2
  t3 = t3
  Threads = {t1, t2, t3}
  buf_cnt = 3
  Unmapped = {0}
  NoBuf = NoBuf
  FreesAnything = FALSE
SYMMETRY Symmetry
INVARIANTS
  EveryBufferOnce
  NoBufferVanishes
PROPERTIES
  ImplementsBufferPool
