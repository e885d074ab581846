SPECIFICATION FairSpec
CONSTANTS
  t1 = t1
  t2 = t2
  Threads = {t1, t2}
  buf_cnt = 2
  Unmapped = {}
  NoBuf = NoBuf
  FreesAnything = TRUE
INVARIANTS
  TypeOK
PROPERTIES
  CallsKeepReturning
