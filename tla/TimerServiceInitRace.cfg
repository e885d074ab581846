SPECIFICATION Spec
CONSTANTS
  a1 = a1
  a2 = a2
  Apps = {a1, a2}
  Loop = Loop
  once = once
  every = every
  Timers = {once}
  First <- FirstMsecs
  Period <- PeriodMsecs
  NoThread = NoThread
  NoTimer = NoTimer
  WaitsForLoop = FALSE
  CallsFromCallback = FALSE
  MaxBlock = 3
  MaxLag = 3
INVARIANTS
  LoopExclusive
