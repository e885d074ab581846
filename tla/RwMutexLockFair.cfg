SPECIFICATION FairSpec
CONSTANTS
  t1 = t1
  t2 = t2
  t3 = t3
  Threads = {t1, t2, t3}
  Readers = {t1, t2, t3}
  Writers = {t1, t2, t3}
  Owners = {t1}
  NoThread = NoThread
  Coordinated = TRUE
  WaitErrors = FALSE
INVARIANTS
  ReaderNotStranded
PROPERTIES
  EveryCallReturns
  ImplementsFairReadWriteLock
  WriterIsServed
  SomeWriterIsServed
