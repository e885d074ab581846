SPECIFICATION FairSpec
CONSTANTS
  t1 = t1
  t2 = t2
  t3 = t3
  Threads = {t1, t2, t3}
  Kinds = {"mutex", "rmutex", "cond", "sem", "rwlock"}
  b1 = b1
  b2 = b2
  Blocks = {b1, b2}
  MaxHeld = 2
  NULL = NULL
INVARIANTS
  TypeOK
  NoUseAfterFree
  OnlyFailedLocksLeak
PROPERTIES
  EveryCallReturns
