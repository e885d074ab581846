SPECIFICATION FairSpec
CONSTANTS
  a1 = a1
  Apps = {a1}
  Loop = Loop
  once = once
  every = every
  Timers = {once}
  First <- FirstMsecs
  Period <- PeriodMsecs
  NoThread = NoThread
  NoTimer = NoTimer
  WaitsForLoop = TRUE
  CallsFromCallback = TRUE
  MaxBlock = 3
  MaxLag = 3
CHECK_DEADLOCK FALSE
PROPERTIES
  CallbacksReturn
