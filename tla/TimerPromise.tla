---------------------------- MODULE TimerPromise ----------------------------
(***************************************************************************)
(* What the timer service promises its clients, with no event loop and no  *)
(* clock: callbacks run one at a time and only for timers that are armed,  *)
(* a stop takes effect before it returns, and a timer that is deleted is   *)
(* neither armed nor being called back.  TimerService implements it.       *)
(***************************************************************************)
CONSTANTS
  Timers,
  Repeating    \* those with a period

VARIABLES
  exists,      \* between create and del
  armed,       \* started, and to call back yet
  running      \* the timer whose callback runs, at most one

vars == <<exists, armed, running>>

Init == exists = {} /\ armed = {} /\ running = {}

Create(t) ==
  /\ t \notin exists
  /\ exists' = exists \cup {t}
  /\ UNCHANGED <<armed, running>>

Start(t) ==
  /\ t \in exists
  /\ armed' = armed \cup {t}
  /\ UNCHANGED <<exists, running>>

(* ... returns when no callback is running. *)
Stop(t) ==
  /\ t \in exists
  /\ running = {}
  /\ armed' = armed \ {t}
  /\ UNCHANGED <<exists, running>>

Delete(t) ==
  /\ t \in exists \ (armed \cup running)
  /\ exists' = exists \ {t}
  /\ UNCHANGED <<armed, running>>

CallBack(t) ==
  /\ t \in armed /\ t \in exists
  /\ running = {}
  /\ running' = {t}
  /\ armed' = IF t \in Repeating THEN armed ELSE armed \ {t}
  /\ UNCHANGED exists

Return ==
  /\ running # {}
  /\ running' = {}
  /\ UNCHANGED <<exists, armed>>

Next ==
  \/ \E t \in Timers :
       Create(t) \/ Start(t) \/ Stop(t) \/ Delete(t) \/ CallBack(t)
  \/ Return

Spec == Init /\ [][Next]_vars
=============================================================================
