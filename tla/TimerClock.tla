----------------------------- MODULE TimerClock -----------------------------
(***************************************************************************)
(* TimerService with what a client could measure on its own clock: the     *)
(* time a timer still owes it.  bf_sys_timer_start promises the time the   *)
(* watcher holds, start_msecs on a new timer and what was left on one that *)
(* has been stopped, and the real clock counts it down, where libev counts *)
(* by its cached one.                                                      *)
(***************************************************************************)
EXTENDS TimerService

VARIABLES
  owed,    \* of the promised time, by the real clock
  stale    \* how old mn_now was when a timer that still owes was started

clockVars == <<vars, owed, stale>>

ClockInit ==
  /\ Init
  /\ owed = [t \in Timers |-> 0]
  /\ stale = [t \in Timers |-> 0]

Ticks   == lag' = lag + 1
Started == active' \ active

ClockNext ==
  /\ Next
  /\ owed' = [t \in Timers |->
                IF t \in Started THEN Larger(0, rem[t])
                ELSE IF Ticks THEN Larger(0, owed[t] - 1)
                ELSE owed[t]]
  /\ stale' = [t \in Timers |->
                IF owed'[t] = 0 THEN 0
                ELSE IF t \in Started THEN lag
                ELSE stale[t]]

ClockSpec == ClockInit /\ [][ClockNext]_clockVars

FairClockSpec == ClockSpec /\ Fairness

(* A callback is early by less than libev's clock was behind at the start, *)
(* and so not at all for a timer started when it was not: mn_now, which    *)
(* ev_timer_start adds the time to, is as old as the loop's last wakeup.   *)
EarlyByLessThanTheLag ==
  current # NoTimer => owed[current] = 0 \/ owed[current] < stale[current]
=============================================================================
