---------------------------- MODULE MCTimerClock ----------------------------
(* Instances of TimerClock for TLC. *)
EXTENDS TimerClock, TLC

CONSTANTS once, every

FirstMsecs  == [t \in Timers |-> IF t = once THEN 2 ELSE 1]
PeriodMsecs == [t \in Timers |-> IF t = once THEN 0 ELSE 1]
=============================================================================
