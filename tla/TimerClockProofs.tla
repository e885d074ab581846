-------------------------- MODULE TimerClockProofs --------------------------
(***************************************************************************)
(* How early a callback can be, for any number of threads and timers, any  *)
(* periods and any delays between two looks at the clock.  TimerService's  *)
(* own invariant holds of TimerClock too, which only measures; what is     *)
(* added relates the real clock's account of a timer to libev's.           *)
(***************************************************************************)
EXTENDS TimerClock, TimerServiceProofs

-----------------------------------------------------------------------------
(* The inductive invariant. *)

ClockTypeOK == owed \in [Timers -> Nat] /\ stale \in [Timers -> Nat]

(* What the clock still owes a timer in libev's heap is at most what libev *)
(* will wait for it, and the time that the cached clock was behind.        *)
OwedFits ==
  \A t \in active : owed[t] # 0 => owed[t] <= (rem[t] - lag) + stale[t]

(* A timer that has expired, and is still to be called back or is being    *)
(* called back, is early by less than that.                                *)
ExpiredFits ==
  \A t \in pending \cup ({current} \ {NoTimer}) : owed[t] = 0 \/ owed[t] < stale[t]

ClockInv == ClockTypeOK /\ OwedFits /\ ExpiredFits

-----------------------------------------------------------------------------
(* A step of the clock is a step of the service. *)
LEMMA ClockStepIsStep == [ClockNext]_clockVars => [Next]_vars
BY DEF ClockNext, clockVars

(* So its invariant holds. *)
LEMMA ServiceInvariance ==
  ASSUME WaitsForLoop
  PROVE  ClockSpec => []IInv
<1>1. ClockInit => IInv BY InvariantHoldsInitially DEF ClockInit
<1>2. IInv /\ [ClockNext]_clockVars => IInv'
  BY ClockStepIsStep, InvariantIsInductive
<1> QED BY <1>1, <1>2, PTL DEF ClockSpec

(* What becomes of a timer's account in a step. *)
LEMMA AccountChanges ==
  ASSUME IInv, ClockTypeOK, ClockNext, NEW t \in Timers
  PROVE  /\ owed'[t] \in Nat /\ stale'[t] \in Nat
         /\ t \in Started /\ owed'[t] # 0 => owed'[t] = rem[t] /\ stale'[t] = lag
         /\ t \notin Started => /\ owed'[t] <= owed[t]
                                /\ Ticks => owed'[t] = Larger(0, owed[t] - 1)
                                /\ owed'[t] # 0 => stale'[t] = stale[t]
<1>1. rem[t] \in Int /\ lag \in Nat BY TimerAssumption DEF IInv, TypeOK
<1>2. owed[t] \in Nat /\ stale[t] \in Nat BY DEF ClockTypeOK
<1>3. owed'[t] = IF t \in Started THEN Larger(0, rem[t])
                 ELSE IF Ticks THEN Larger(0, owed[t] - 1)
                 ELSE owed[t]
  BY DEF ClockNext
<1>4. stale'[t] = IF owed'[t] = 0 THEN 0 ELSE IF t \in Started THEN lag ELSE stale[t]
  BY DEF ClockNext
<1> QED BY <1>1, <1>2, <1>3, <1>4 DEF Larger

(* Application threads do what they do to timers while nothing is pending  *)
(* and no callback runs.                                                   *)
LEMMA BodiesAreAlone ==
  ASSUME IInv, NEW a \in Apps, StartBody(a) \/ StopBody(a) \/ DelBody(a)
  PROVE  pending = {} /\ current = NoTimer
<1>1. lock = a
  BY DEF StartBody, StopBody, DelBody, Goto, IInv, LockOwned, AppInside
<1>2. lp \notin LoopInside BY <1>1, TimerAssumption DEF IInv, LockOwned
<1> QED BY <1>2 DEF IInv, HeapFits, LoopInside

(* When libev looks at the clock, no timer loses time by the real one. *)
LEMMA UpdatedKeeps ==
  ASSUME IInv, NEW t \in active
  PROVE  /\ Updated[t] \in Int
         /\ rem[t] - lag <= Updated[t]
         /\ Updated[t] < 0 => rem[t] - lag < 0
<1>1. t \in Timers /\ rem[t] \in Int /\ lag \in Int /\ Period[t] \in Nat
  BY TimerAssumption DEF IInv, TypeOK
<1>2. Updated[t] = Larger(-(1 + Period[t]), rem[t] - lag) BY <1>1 DEF Updated
<1> QED BY <1>1, <1>2 DEF Larger

(* The types after a step that the accounts depend on. *)
LEMMA ClockTypes ==
  ASSUME WaitsForLoop, IInv, Next
  PROVE  active' \subseteq Timers /\ lag' \in Nat /\ \A t \in Timers : rem'[t] \in Int
BY InvariantIsInductive, TimerAssumption DEF IInv, TypeOK

-----------------------------------------------------------------------------
(* What each kind of step does to the timers that are active afterwards,   *)
(* and to those that are pending or called back.                           *)
LEMMA HeapChanges ==
  ASSUME IInv, Next
  PROVE  \/ Reify
         \/ /\ \A t \in active' \ Started :
                 /\ t \in active
                 /\ rem'[t] - lag' >= (rem[t] - lag) - (IF Ticks THEN 1 ELSE 0)
            /\ \A t \in Started : rem'[t] = rem[t] /\ lag' = lag
            /\ pending' \cup ({current'} \ {NoTimer}) \subseteq
                 (pending \cup ({current} \ {NoTimer})) \ Started
<1> USE DEF heap, clock, flags, pipe, apps
<1>1. /\ \A t \in Timers : rem[t] \in Int
      /\ lag \in Nat /\ active \subseteq Timers
  BY TimerAssumption DEF IInv, TypeOK
<1>2. ASSUME UNCHANGED <<active, pending, current, rem, lag>>
      PROVE  /\ \A t \in active' \ Started :
                  /\ t \in active
                  /\ rem'[t] - lag' >= (rem[t] - lag) - (IF Ticks THEN 1 ELSE 0)
             /\ Started = {}
             /\ pending' \cup ({current'} \ {NoTimer}) \subseteq
                  (pending \cup ({current} \ {NoTimer})) \ Started
  BY <1>1, <1>2 DEF Started, Ticks
<1>3. ASSUME NEW t \in Timers, Create(t)
      PROVE  /\ \A u \in active' \ Started :
                  /\ u \in active
                  /\ rem'[u] - lag' >= (rem[u] - lag) - (IF Ticks THEN 1 ELSE 0)
             /\ Started = {}
             /\ pending' \cup ({current'} \ {NoTimer}) \subseteq
                  (pending \cup ({current} \ {NoTimer})) \ Started
  <2>1. /\ UNCHANGED <<active, pending, current, lag>>
        /\ t \notin active /\ rem' = [rem EXCEPT ![t] = First[t]]
    BY <1>3 DEF Create, IInv, HeapFits
  <2>2. \A u \in active : rem'[u] = rem[u] BY <1>1, <2>1
  <2> QED BY <1>1, <2>1, <2>2 DEF Started, Ticks
<1>4. ASSUME NEW a \in Apps, StartBody(a) \/ StopBody(a) \/ DelBody(a)
      PROVE  /\ \A u \in active' \ Started :
                  /\ u \in active
                  /\ rem'[u] - lag' >= (rem[u] - lag) - (IF Ticks THEN 1 ELSE 0)
             /\ rem' = rem /\ lag' = lag
             /\ pending' \cup ({current'} \ {NoTimer}) = {}
  <2>1. rem' = rem /\ lag' = lag /\ current' = current /\ pending' \subseteq pending
    BY <1>4 DEF StartBody, StopBody, DelBody, EvTimerStart, EvTimerStop
  <2> QED BY <1>1, <1>4, <2>1, BodiesAreAlone DEF Started, Ticks
<1>5. CASE Prepare
  <2>1. rem' = Updated /\ lag' = 0 /\ UNCHANGED <<active, pending, current>>
    BY <1>5 DEF Prepare
  <2>2. \A t \in active : rem'[t] \in Int /\ rem'[t] - lag' >= rem[t] - lag
    BY <1>1, <2>1, UpdatedKeeps
  <2> QED BY <1>1, <2>1, <2>2 DEF Started, Ticks
<1>6. CASE Invoke
  <2>1. /\ UNCHANGED <<active, rem, lag>>
        /\ pending' \cup ({current'} \ {NoTimer}) \subseteq pending
    BY <1>6 DEF Invoke
  <2> QED BY <1>1, <2>1 DEF Started, Ticks
<1>7. CASE CallbackReturns
  <2>1. UNCHANGED <<active, rem, lag, pending>> /\ current' = NoTimer
    BY <1>7 DEF CallbackReturns
  <2> QED BY <1>1, <2>1 DEF Started, Ticks
<1>8. CASE Tick
  <2>1. UNCHANGED <<active, rem, pending, current>> /\ lag' = lag + 1
    BY <1>8 DEF Tick
  <2> QED BY <1>1, <2>1 DEF Started, Ticks
<1>9. CASE \/ \E a \in Apps : AppCall(a) \/ AppLock(a) \/ DelFree(a)
           \/ InitCall \/ LoopLock \/ InitMutex \/ PollReturns \/ InvokeEnds
           \/ PollInterrupted \/ CallbackCalls
  BY <1>2, <1>9 DEF AppCall, StartCall, StopCall, DelCall, Call, AppLock, DelFree, InitCall,
     LoopLock, InitMutex, PollReturns, PollEnds, InvokeEnds, PollInterrupted, CallbackCalls
<1> QED
  BY <1>3, <1>4, <1>5, <1>6, <1>7, <1>8, <1>9 DEF Next, AppBody, LoopBody

(* A timer that starts now owes nothing but what the clock is behind. *)
LEMMA OwedStep ==
  ASSUME WaitsForLoop, IInv, ClockInv, ClockNext
  PROVE  OwedFits'
<1> USE DEF ClockInv
<1>1. /\ \A t \in Timers : rem[t] \in Int /\ owed[t] \in Nat /\ stale[t] \in Nat
      /\ lag \in Nat /\ active \subseteq Timers
  BY TimerAssumption DEF IInv, TypeOK, ClockTypeOK
<1>2. Next BY DEF ClockNext
<1>3. active' \subseteq Timers /\ \A t \in Timers : rem'[t] \in Int
  BY <1>2, ClockTypes
<1>4. lag' \in Nat BY <1>2, ClockTypes
<1>5. CASE Reify
  <2>1. /\ active' \subseteq active /\ lag' = 0
        /\ rem' = [t \in Timers |-> IF t \in Expired /\ Period[t] > 0
                                      THEN Larger(0, Updated[t] + Period[t])
                                      ELSE Updated[t]]
    BY <1>5 DEF Reify, TimersReify
  <2>2. ~Ticks /\ Started = {} BY <1>1, <2>1 DEF Ticks, Started
  <2>3. ASSUME NEW t \in active', owed'[t] # 0
        PROVE  owed'[t] <= (rem'[t] - lag') + stale'[t]
    <3>1. t \in active /\ t \in Timers BY <1>3, <2>1
    <3>2. Period[t] \in Nat BY <3>1, TimerAssumption
    <3>3. Updated[t] \in Int /\ rem[t] - lag <= Updated[t] BY <3>1, UpdatedKeeps
    <3>4. Updated[t] <= rem'[t] BY <2>1, <3>1, <3>2, <3>3 DEF Larger
    <3>5. owed'[t] <= owed[t] /\ stale'[t] = stale[t] /\ owed'[t] \in Nat
      BY <2>2, <2>3, <3>1, AccountChanges
    <3>6. owed[t] <= (rem[t] - lag) + stale[t]
      BY <1>1, <2>3, <3>1, <3>5 DEF OwedFits
    <3> QED BY <1>1, <1>3, <2>1, <3>1, <3>3, <3>4, <3>5, <3>6
  <2> QED BY <2>3 DEF OwedFits
<1>6. CASE ~Reify
  <2>1. /\ \A t \in active' \ Started :
             /\ t \in active
             /\ rem'[t] - lag' >= (rem[t] - lag) - (IF Ticks THEN 1 ELSE 0)
        /\ \A t \in Started : rem'[t] = rem[t] /\ lag' = lag
    BY <1>2, <1>6, HeapChanges
  <2>2. ASSUME NEW t \in active', owed'[t] # 0
        PROVE  owed'[t] <= (rem'[t] - lag') + stale'[t]
    <3>1. t \in Timers BY <1>3
    <3>2. owed'[t] \in Nat /\ stale'[t] \in Nat BY <3>1, AccountChanges
    <3>3. CASE t \in Started
      <4>1. owed'[t] = rem[t] /\ stale'[t] = lag
        BY <2>2, <3>1, <3>3, AccountChanges
      <4> QED BY <1>1, <2>1, <3>1, <3>3, <4>1
    <3>4. CASE t \notin Started
      <4>1. t \in active /\ rem'[t] - lag' >= (rem[t] - lag) - (IF Ticks THEN 1 ELSE 0)
        BY <2>1, <3>4
      <4>2. /\ owed'[t] <= owed[t] /\ stale'[t] = stale[t]
            /\ Ticks => owed'[t] = Larger(0, owed[t] - 1)
        BY <2>2, <3>1, <3>4, AccountChanges
      <4>3. owed'[t] <= owed[t] - (IF Ticks THEN 1 ELSE 0)
        BY <1>1, <2>2, <3>1, <4>2 DEF Larger
      <4>4. owed[t] <= (rem[t] - lag) + stale[t]
        BY <1>1, <2>2, <3>1, <3>2, <4>1, <4>2 DEF OwedFits
      <4> QED BY <1>1, <1>3, <1>4, <3>1, <3>2, <4>1, <4>2, <4>3, <4>4
    <3> QED BY <3>3, <3>4
  <2> QED BY <2>2 DEF OwedFits
<1> QED BY <1>5, <1>6

(* Time only makes an expired timer less early, and what expires now is    *)
(* late by libev's own account.                                            *)
LEMMA ExpiredStep ==
  ASSUME WaitsForLoop, IInv, ClockInv, ClockNext
  PROVE  ExpiredFits'
<1> USE DEF ClockInv
<1> DEFINE fired == pending \cup ({current} \ {NoTimer})
<1>1. /\ \A t \in Timers : rem[t] \in Int /\ owed[t] \in Nat /\ stale[t] \in Nat
      /\ lag \in Nat /\ active \subseteq Timers /\ fired \subseteq Timers
  BY TimerAssumption DEF IInv, TypeOK, ClockTypeOK
<1>2. Next BY DEF ClockNext
<1>3. ASSUME NEW t \in Timers, t \notin Started, owed[t] = 0 \/ owed[t] < stale[t]
      PROVE  owed'[t] = 0 \/ owed'[t] < stale'[t]
  BY <1>1, <1>3, AccountChanges
<1>4. CASE Reify
  <2>1. /\ pending' = pending \cup Expired /\ current' = current
        /\ active' \subseteq active
    BY <1>4 DEF Reify, TimersReify
  <2>2. Started = {} BY <2>1 DEF Started
  <2>3. ASSUME NEW t \in Expired PROVE owed[t] = 0 \/ owed[t] < stale[t]
    <3>1. t \in active /\ t \in Timers /\ Updated[t] < 0 BY <1>1 DEF Expired
    <3>2. rem[t] - lag < 0 BY <3>1, UpdatedKeeps
    <3> QED BY <1>1, <3>1, <3>2 DEF OwedFits
  <2>4. Expired \subseteq Timers BY <1>1 DEF Expired
  <2> QED BY <1>1, <1>3, <2>1, <2>2, <2>3, <2>4 DEF ExpiredFits
<1>5. CASE ~Reify
  <2>1. pending' \cup ({current'} \ {NoTimer}) \subseteq fired \ Started
    BY <1>2, <1>5, HeapChanges
  <2> QED BY <1>1, <1>3, <2>1 DEF ExpiredFits
<1> QED BY <1>4, <1>5

(* ClockInv holds in every reachable state. *)
LEMMA ClockInvariance ==
  ASSUME WaitsForLoop
  PROVE  ClockSpec => []ClockInv
<1>1. ClockInit => ClockInv
  BY DEF ClockInit, Init, ClockInv, ClockTypeOK, OwedFits, ExpiredFits
<1>2. IInv /\ ClockInv /\ [ClockNext]_clockVars => ClockInv'
  <2> SUFFICES ASSUME IInv, ClockInv, [ClockNext]_clockVars PROVE ClockInv'
    OBVIOUS
  <2>1. CASE ClockNext
    <3>1. ClockTypeOK'
      <4>1. \A t \in Timers : owed'[t] \in Nat /\ stale'[t] \in Nat
        BY <2>1, AccountChanges DEF ClockInv
      <4>2. owed' = [t \in Timers |-> owed'[t]] /\ stale' = [t \in Timers |-> stale'[t]]
        BY <2>1 DEF ClockNext
      <4> QED BY <4>1, <4>2 DEF ClockTypeOK
    <3> QED BY <2>1, <3>1, OwedStep, ExpiredStep DEF ClockInv
  <2>2. CASE UNCHANGED clockVars
    BY <2>2 DEF clockVars, vars, heap, clock, ClockInv, ClockTypeOK, OwedFits, ExpiredFits
  <2> QED BY <2>1, <2>2
<1> QED BY <1>1, <1>2, ServiceInvariance, PTL DEF ClockSpec

-----------------------------------------------------------------------------
(* A callback is early by less than libev's cached clock was behind when   *)
(* the timer was started: bf_sys_timer_start does not bring it up to date. *)
THEOREM HowEarlyACallbackIs ==
  ASSUME WaitsForLoop
  PROVE  ClockSpec => []EarlyByLessThanTheLag
<1>1. ClockInv => EarlyByLessThanTheLag
  BY DEF ClockInv, ExpiredFits, EarlyByLessThanTheLag
<1> QED BY <1>1, ClockInvariance, PTL
=============================================================================
