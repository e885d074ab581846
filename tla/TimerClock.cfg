SPECIFICATION FairClockSpec
CONSTANTS
  a1 = a1
  Apps = {a1}
  Loop = Loop
  once = once
  every = every
  Timers = {once, every}
  First <- FirstMsecs
  Period <- PeriodMsecs
  NoThread = NoThread
  NoTimer = NoTimer
  WaitsForLoop = TRUE
  CallsFromCallback = FALSE
  MaxBlock = 2
  MaxLag = 3
INVARIANTS
  EarlyByLessThanTheLag
PROPERTIES
  StartedTimerFires
  CallsReturn
