-------------------------- MODULE MCTimerService --------------------------
(* Instances of TimerService for TLC: one timer that fires once and one    *)
(* that repeats.                                                           *)
EXTENDS TimerService, TLC

CONSTANTS once, every

FirstMsecs  == [t \in Timers |-> IF t = once THEN 1 ELSE 2]
PeriodMsecs == [t \in Timers |-> IF t = once THEN 0 ELSE 1]

Symmetry == Permutations(Apps)
=============================================================================
