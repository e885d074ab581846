SPECIFICATION Spec
CONSTANTS
  t1 = t1
  t2 = t2
  t3 = t3
  t4 = t4
  Threads = {t1, t2, t3, t4}
  Readers = {t1, t2, t3, t4}
  Writers = {t1, t2, t3, t4}
  Owners = {t1, t2}
  NoThread = NoThread
  Coordinated = TRUE
  WaitErrors = TRUE
SYMMETRY Symmetry
INVARIANTS
  TypeOK
  MutualExclusion
  CountersAgree
  WriterNotStranded
  DelExcludesUsers
  NoUseAfterDestroy
PROPERTIES
  WritersGoFirst
  ImplementsReadWriteLock
