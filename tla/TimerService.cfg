SPECIFICATION Spec
CONSTANTS
  a1 = a1
  a2 = a2
  Apps = {a1, a2}
  Loop = Loop
  once = once
  every = every
  Timers = {once, every}
  First <- FirstMsecs
  Period <- PeriodMsecs
  NoThread = NoThread
  NoTimer = NoTimer
  WaitsForLoop = TRUE
  CallsFromCallback = TRUE
  MaxBlock = 3
  MaxLag = 3
SYMMETRY Symmetry
CHECK_DEADLOCK FALSE
INVARIANTS
  TypeOK
  LoopExclusive
  NoOversleep
PROPERTIES
  ImplementsTimerPromise
