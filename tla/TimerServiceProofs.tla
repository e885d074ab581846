------------------------- MODULE TimerServiceProofs -------------------------
(***************************************************************************)
(* What is proved of TimerService for any number of threads and timers and *)
(* any configuration of them: that libev's state is never shared, that the *)
(* loop does not oversleep, and that the service keeps TimerPromise.       *)
(***************************************************************************)
EXTENDS TimerService, TLAPS

-----------------------------------------------------------------------------
(* The inductive invariant. *)

AppInside  == {"start_body", "stop_body", "del_body"}
LoopInside == {"prepare", "reify", "invoke", "callback", "callback_lock"}
DelPCs     == {"del_lock", "del_body", "del_free"}

(* u.lock has the owner that the program counters tell. *)
LockOwned ==
  /\ \A a \in Apps : lock = a <=> pc[a] \in AppInside
  /\ lock = Loop <=> lp \in LoopInside

(* Calls are on timers that exist, and a deletion is alone with its timer. *)
CallsFit ==
  /\ \A a \in Apps : pc[a] # "idle" => arg[a] \in alloc
  /\ \A a, b \in Apps :
       pc[a] \in DelPCs /\ pc[b] # "idle" /\ arg[a] = arg[b] => a = b

(* Nobody waits for the mutex before it is initialized. *)
InitFits ==
  /\ inited = 0 <=> lp = "off"
  /\ lp \in {"off", "init_mutex"} => \A a \in Apps : pc[a] \in {"idle", "del_free"}

(* libev refers only to timers that exist and are not about to be freed,   *)
(* and timers are pending only while callbacks are being called.           *)
HeapFits ==
  /\ active \cup pending \subseteq alloc
  /\ lp = "off" => active = {}
  /\ pending # {} => lp \in {"invoke", "callback", "callback_lock"}
  /\ current # NoTimer <=> lp \in {"callback", "callback_lock"}
  /\ \A t \in pending : t \in active <=> Period[t] > 0
  /\ \A a \in Apps :
       pc[a] = "del_free" => arg[a] \notin active \cup pending \cup {current}

(* A wakeup that async_pending promises is in the eventfd, or noted as     *)
(* skipped, in which case the loop does not sleep.                         *)
PipeFits ==
  /\ lp = "poll" => pipe_write_wanted = 1
  /\ async_pending = 1 => evpipe \/ pipe_write_skipped = 1
  /\ lp = "poll" /\ pipe_write_skipped = 1 => dl = 0

IInv ==
  TypeOK /\ LockOwned /\ CallsFit /\ InitFits /\ HeapFits /\ PipeFits /\ NoOversleep

-----------------------------------------------------------------------------
(* Where u.lock leads. *)
LEMMA AfterLockLeads ==
  /\ DOMAIN AfterLock = {"start_lock", "stop_lock", "del_lock"}
  /\ AfterLock["start_lock"] = "start_body"
  /\ AfterLock["stop_lock"] = "stop_body"
  /\ AfterLock["del_lock"] = "del_body"
  BY DEF AfterLock

(* time_update gives every timer a time. *)
LEMMA UpdatedType ==
  ASSUME TypeOK
  PROVE  Updated \in [Timers -> Int]
  BY TimerAssumption DEF TypeOK, Updated, Larger

(* The poll time is within MAX_BLOCKTIME and no later than any timer.      *)
LEMMA WaitTimesBound ==
  ASSUME TypeOK, NEW d \in WaitTimes
  PROVE  /\ d \in 0 .. MaxBlock
         /\ \A t \in active : d <= Larger(1, Updated[t])
<1> DEFINE limits == {MaxBlock} \cup {Updated[t] : t \in active}
<1>1. PICK m \in limits : d = Larger(1, m) /\ \A k \in limits : m <= k
  BY DEF WaitTimes
<1>2. limits \subseteq Int /\ MaxBlock \in limits
  BY UpdatedType, TimerAssumption DEF TypeOK
<1>3. m \in Int /\ m <= MaxBlock
  BY <1>1, <1>2
<1>4. d \in 0 .. MaxBlock
  BY <1>1, <1>3, TimerAssumption DEF Larger
<1>5. ASSUME NEW t \in active PROVE d <= Larger(1, Updated[t])
  <2>1. Updated[t] \in limits
    OBVIOUS
  <2>2. m <= Updated[t] /\ Updated[t] \in Int
    BY <1>1, <1>2, <2>1
  <2> QED
    BY <1>1, <1>3, <2>2 DEF Larger
<1> QED
  BY <1>4, <1>5

(* Before bf_sys_timer_init is called no timer can have been started.      *)
LEMMA InvariantHoldsInitially == Init => IInv
<1> SUFFICES ASSUME Init PROVE IInv
  OBVIOUS
<1>1. TypeOK
  <2>1. rem \in [Timers -> Int] /\ pc \in [Apps -> AppPCs]
        /\ arg \in [Apps -> Timers \cup {NoTimer}]
    BY DEF Init, AppPCs
  <2>2. /\ lag \in 0 .. MaxLag /\ dl \in 0 .. MaxBlock
        /\ inited \in {0, 1} /\ async_pending \in {0, 1}
        /\ pipe_write_skipped \in {0, 1} /\ pipe_write_wanted \in {0, 1}
    BY TimerAssumption DEF Init
  <2>3. evpipe \in BOOLEAN /\ sawPipe \in BOOLEAN
    BY Zenon DEF Init
  <2> QED
    BY <2>1, <2>2, <2>3 DEF Init, TypeOK, LoopPCs
<1>2. LockOwned /\ InitFits
  BY TimerAssumption DEF Init, LockOwned, InitFits, AppInside, LoopInside
<1>3. CallsFit
  BY DEF Init, CallsFit, DelPCs
<1>4. HeapFits
  BY DEF Init, HeapFits
<1>5. PipeFits /\ NoOversleep
  BY DEF Init, PipeFits, NoOversleep
<1> QED
  BY <1>1, <1>2, <1>3, <1>4, <1>5 DEF IInv

(* Every step keeps the invariant, when clients wait for the mutex to be   *)
(* initialized.                                                            *)
LEMMA InvariantIsInductive ==
  ASSUME WaitsForLoop, IInv, [Next]_vars
  PROVE  IInv'
<1> USE TimerAssumption DEF IInv, heap, clock, flags, pipe, apps
<1>1. ASSUME NEW t \in Timers, Create(t) PROVE IInv'
  <2>1. TypeOK'
    BY <1>1 DEF Create, InCall, TypeOK, AppPCs, LoopPCs, CallsFit, HeapFits
  <2>2. LockOwned'
    BY <1>1 DEF Create, InCall, LockOwned, InitFits, TypeOK, AppInside, LoopInside
  <2>3. CallsFit'
    BY <1>1 DEF Create, InCall, CallsFit, TypeOK, DelPCs, InitFits
  <2>4. InitFits'
    BY <1>1 DEF Create, InCall, InitFits, TypeOK, LockOwned, AppInside
  <2>5. HeapFits'
    BY <1>1 DEF Create, InCall, HeapFits, CallsFit, LockOwned, InitFits, TypeOK, DelPCs,
        AppInside, LoopInside
  <2>6. PipeFits'
    BY <1>1 DEF Create, InCall, PipeFits, TypeOK, LockOwned, LoopInside
  <2>7. NoOversleep'
    BY <1>1 DEF Create, InCall, NoOversleep, PipeFits, HeapFits, TypeOK, Larger,
        LockOwned, LoopInside, AppInside
  <2> QED
    BY <2>1, <2>2, <2>3, <2>4, <2>5, <2>6, <2>7
<1>2. ASSUME NEW a \in Apps, NEW t \in Timers, StartCall(a, t) PROVE IInv'
  <2>1. TypeOK'
    BY <1>2 DEF StartCall, Call, Goto, MayCall, BeingFreed, TypeOK, AppPCs, LoopPCs,
        CallsFit, HeapFits
  <2>2. LockOwned'
    BY <1>2 DEF StartCall, Call, Goto, MayCall, BeingFreed, LockOwned, InitFits, TypeOK,
        AppInside, LoopInside
  <2>3. CallsFit'
    BY <1>2 DEF StartCall, Call, Goto, MayCall, BeingFreed, CallsFit, TypeOK, DelPCs,
        InitFits
  <2>4. InitFits'
    BY <1>2 DEF StartCall, Call, Goto, MayCall, BeingFreed, InitFits, TypeOK, LockOwned,
        AppInside
  <2>5. HeapFits'
    BY <1>2 DEF StartCall, Call, Goto, MayCall, BeingFreed, HeapFits, CallsFit,
        LockOwned, InitFits, TypeOK, DelPCs, AppInside, LoopInside
  <2>6. PipeFits'
    BY <1>2 DEF StartCall, Call, Goto, MayCall, BeingFreed, PipeFits, TypeOK, LockOwned,
        LoopInside
  <2>7. NoOversleep'
    BY <1>2 DEF StartCall, Call, Goto, MayCall, BeingFreed, NoOversleep, PipeFits,
        HeapFits, TypeOK, Larger, LockOwned, LoopInside, AppInside
  <2> QED
    BY <2>1, <2>2, <2>3, <2>4, <2>5, <2>6, <2>7
<1>3. ASSUME NEW a \in Apps, NEW t \in Timers, StopCall(a, t) PROVE IInv'
  <2>1. TypeOK'
    BY <1>3 DEF StopCall, Call, Goto, MayCall, BeingFreed, TypeOK, AppPCs, LoopPCs,
        CallsFit, HeapFits
  <2>2. LockOwned'
    BY <1>3 DEF StopCall, Call, Goto, MayCall, BeingFreed, LockOwned, InitFits, TypeOK,
        AppInside, LoopInside
  <2>3. CallsFit'
    BY <1>3 DEF StopCall, Call, Goto, MayCall, BeingFreed, CallsFit, TypeOK, DelPCs,
        InitFits
  <2>4. InitFits'
    BY <1>3 DEF StopCall, Call, Goto, MayCall, BeingFreed, InitFits, TypeOK, LockOwned,
        AppInside
  <2>5. HeapFits'
    BY <1>3 DEF StopCall, Call, Goto, MayCall, BeingFreed, HeapFits, CallsFit,
        LockOwned, InitFits, TypeOK, DelPCs, AppInside, LoopInside
  <2>6. PipeFits'
    BY <1>3 DEF StopCall, Call, Goto, MayCall, BeingFreed, PipeFits, TypeOK, LockOwned,
        LoopInside
  <2>7. NoOversleep'
    BY <1>3 DEF StopCall, Call, Goto, MayCall, BeingFreed, NoOversleep, PipeFits,
        HeapFits, TypeOK, Larger, LockOwned, LoopInside, AppInside
  <2> QED
    BY <2>1, <2>2, <2>3, <2>4, <2>5, <2>6, <2>7
<1>4. ASSUME NEW a \in Apps, NEW t \in Timers, DelCall(a, t) PROVE IInv'
  <2>1. TypeOK'
    BY <1>4 DEF DelCall, Call, Goto, MayCall, InCall, TypeOK, AppPCs, LoopPCs, CallsFit,
        HeapFits
  <2>2. LockOwned'
    BY <1>4 DEF DelCall, Call, Goto, MayCall, InCall, LockOwned, InitFits, TypeOK,
        AppInside, LoopInside
  <2>3. CallsFit'
    BY <1>4 DEF DelCall, Call, Goto, MayCall, InCall, CallsFit, TypeOK, DelPCs, InitFits
  <2>4. InitFits'
    BY <1>4 DEF DelCall, Call, Goto, MayCall, InCall, InitFits, TypeOK, LockOwned,
        AppInside
  <2>5. HeapFits'
    BY <1>4 DEF DelCall, Call, Goto, MayCall, InCall, HeapFits, CallsFit, LockOwned,
        InitFits, TypeOK, DelPCs, AppInside, LoopInside
  <2>6. PipeFits'
    BY <1>4 DEF DelCall, Call, Goto, MayCall, InCall, PipeFits, TypeOK, LockOwned,
        LoopInside
  <2>7. NoOversleep'
    BY <1>4 DEF DelCall, Call, Goto, MayCall, InCall, NoOversleep, PipeFits, HeapFits,
        TypeOK, Larger, LockOwned, LoopInside, AppInside
  <2> QED
    BY <2>1, <2>2, <2>3, <2>4, <2>5, <2>6, <2>7
<1>5. ASSUME NEW a \in Apps, AppLock(a) PROVE IInv'
  <2>1. TypeOK'
    BY <1>5, AfterLockLeads DEF AppLock, TypeOK, AppPCs, LoopPCs, CallsFit, HeapFits
  <2>2. LockOwned'
    BY <1>5, AfterLockLeads DEF AppLock, LockOwned, InitFits, TypeOK, AppInside,
        LoopInside
  <2>3. CallsFit'
    BY <1>5, AfterLockLeads DEF AppLock, CallsFit, TypeOK, DelPCs, InitFits
  <2>4. InitFits'
    BY <1>5, AfterLockLeads DEF AppLock, InitFits, TypeOK, LockOwned, AppInside
  <2>5. HeapFits'
    BY <1>5, AfterLockLeads DEF AppLock, HeapFits, CallsFit, LockOwned, InitFits,
        TypeOK, DelPCs, AppInside, LoopInside
  <2>6. PipeFits'
    BY <1>5, AfterLockLeads DEF AppLock, PipeFits, TypeOK, LockOwned, LoopInside
  <2>7. NoOversleep'
    BY <1>5, AfterLockLeads DEF AppLock, NoOversleep, PipeFits, HeapFits, TypeOK,
        Larger, LockOwned, LoopInside, AppInside
  <2> QED
    BY <2>1, <2>2, <2>3, <2>4, <2>5, <2>6, <2>7
<1>6. ASSUME NEW a \in Apps, StartBody(a) PROVE IInv'
  <2>1. TypeOK'
    BY <1>6 DEF StartBody, EvTimerStart, EvAsyncSend, Unlock, Goto, TypeOK, AppPCs,
        LoopPCs, CallsFit, HeapFits
  <2>2. LockOwned'
    BY <1>6 DEF StartBody, EvTimerStart, EvAsyncSend, Unlock, Goto, LockOwned, InitFits,
        TypeOK, AppInside, LoopInside
  <2>3. CallsFit'
    BY <1>6 DEF StartBody, EvTimerStart, EvAsyncSend, Unlock, Goto, CallsFit, TypeOK,
        DelPCs, InitFits
  <2>4. InitFits'
    BY <1>6 DEF StartBody, EvTimerStart, EvAsyncSend, Unlock, Goto, InitFits, TypeOK,
        LockOwned, AppInside
  <2>5. HeapFits'
    BY <1>6 DEF StartBody, EvTimerStart, EvAsyncSend, Unlock, Goto, HeapFits, CallsFit,
        LockOwned, InitFits, TypeOK, DelPCs, AppInside, LoopInside
  <2>6. PipeFits'
    BY <1>6 DEF StartBody, EvTimerStart, EvAsyncSend, Unlock, Goto, PipeFits, TypeOK,
        LockOwned, LoopInside
  <2>7. NoOversleep'
    <3> SUFFICES ASSUME lp' = "poll", ~evpipe', NEW t \in active'
                 PROVE  dl' <= Larger(1, rem'[t])
      BY DEF NoOversleep
    <3>1. lp = "poll" /\ pipe_write_wanted = 1 /\ dl' = dl
      BY <1>6 DEF StartBody, PipeFits
    <3>2. async_pending = 1 /\ evpipe' = evpipe
      BY <1>6, <3>1, Zenon DEF StartBody, EvAsyncSend, TypeOK
    <3>3. dl = 0
      BY <3>1, <3>2 DEF PipeFits
    <3>4. rem'[t] \in Int
      BY <1>6 DEF StartBody, EvTimerStart, TypeOK, CallsFit, Goto
    <3> QED
      BY <3>1, <3>3, <3>4 DEF Larger
  <2> QED
    BY <2>1, <2>2, <2>3, <2>4, <2>5, <2>6, <2>7
<1>7. ASSUME NEW a \in Apps, StopBody(a) PROVE IInv'
  <2>1. TypeOK'
    BY <1>7 DEF StopBody, EvTimerStop, EvAsyncSend, Unlock, Goto, TypeOK, AppPCs,
        LoopPCs, CallsFit, HeapFits
  <2>2. LockOwned'
    BY <1>7 DEF StopBody, EvTimerStop, EvAsyncSend, Unlock, Goto, LockOwned, InitFits,
        TypeOK, AppInside, LoopInside
  <2>3. CallsFit'
    BY <1>7 DEF StopBody, EvTimerStop, EvAsyncSend, Unlock, Goto, CallsFit, TypeOK,
        DelPCs, InitFits
  <2>4. InitFits'
    BY <1>7 DEF StopBody, EvTimerStop, EvAsyncSend, Unlock, Goto, InitFits, TypeOK,
        LockOwned, AppInside
  <2>5. HeapFits'
    BY <1>7 DEF StopBody, EvTimerStop, EvAsyncSend, Unlock, Goto, HeapFits, CallsFit,
        LockOwned, InitFits, TypeOK, DelPCs, AppInside, LoopInside
  <2>6. PipeFits'
    BY <1>7 DEF StopBody, EvTimerStop, EvAsyncSend, Unlock, Goto, PipeFits, TypeOK,
        LockOwned, LoopInside
  <2>7. NoOversleep'
    BY <1>7 DEF StopBody, EvTimerStop, EvAsyncSend, Unlock, Goto, NoOversleep, PipeFits,
        HeapFits, TypeOK, Larger, LockOwned, LoopInside, AppInside
  <2> QED
    BY <2>1, <2>2, <2>3, <2>4, <2>5, <2>6, <2>7
<1>8. ASSUME NEW a \in Apps, DelBody(a) PROVE IInv'
  <2>1. TypeOK'
    BY <1>8 DEF DelBody, EvTimerStop, EvAsyncSend, Unlock, Goto, TypeOK, AppPCs,
        LoopPCs, CallsFit, HeapFits
  <2>2. LockOwned'
    BY <1>8 DEF DelBody, EvTimerStop, EvAsyncSend, Unlock, Goto, LockOwned, InitFits,
        TypeOK, AppInside, LoopInside
  <2>3. CallsFit'
    BY <1>8 DEF DelBody, EvTimerStop, EvAsyncSend, Unlock, Goto, CallsFit, TypeOK,
        DelPCs, InitFits
  <2>4. InitFits'
    BY <1>8 DEF DelBody, EvTimerStop, EvAsyncSend, Unlock, Goto, InitFits, TypeOK,
        LockOwned, AppInside
  <2>5. HeapFits'
    BY <1>8 DEF DelBody, EvTimerStop, EvAsyncSend, Unlock, Goto, HeapFits, CallsFit,
        LockOwned, InitFits, TypeOK, DelPCs, AppInside, LoopInside
  <2>6. PipeFits'
    BY <1>8 DEF DelBody, EvTimerStop, EvAsyncSend, Unlock, Goto, PipeFits, TypeOK,
        LockOwned, LoopInside
  <2>7. NoOversleep'
    BY <1>8 DEF DelBody, EvTimerStop, EvAsyncSend, Unlock, Goto, NoOversleep, PipeFits,
        HeapFits, TypeOK, Larger, LockOwned, LoopInside, AppInside
  <2> QED
    BY <2>1, <2>2, <2>3, <2>4, <2>5, <2>6, <2>7
<1>9. ASSUME NEW a \in Apps, DelFree(a) PROVE IInv'
  <2>1. TypeOK'
    BY <1>9 DEF DelFree, Goto, TypeOK, AppPCs, LoopPCs, CallsFit, HeapFits
  <2>2. LockOwned'
    BY <1>9 DEF DelFree, Goto, LockOwned, InitFits, TypeOK, AppInside, LoopInside
  <2>3. CallsFit'
    BY <1>9 DEF DelFree, Goto, CallsFit, TypeOK, DelPCs, InitFits
  <2>4. InitFits'
    BY <1>9 DEF DelFree, Goto, InitFits, TypeOK, LockOwned, AppInside
  <2>5. HeapFits'
    BY <1>9 DEF DelFree, Goto, HeapFits, CallsFit, LockOwned, InitFits, TypeOK, DelPCs,
        AppInside, LoopInside
  <2>6. PipeFits'
    BY <1>9 DEF DelFree, Goto, PipeFits, TypeOK, LockOwned, LoopInside
  <2>7. NoOversleep'
    BY <1>9 DEF DelFree, Goto, NoOversleep, PipeFits, HeapFits, TypeOK, Larger,
        LockOwned, LoopInside, AppInside
  <2> QED
    BY <2>1, <2>2, <2>3, <2>4, <2>5, <2>6, <2>7
<1>10. ASSUME InitCall PROVE IInv'
  <2>1. TypeOK'
    BY <1>10 DEF InitCall, LoopGoto, TypeOK, AppPCs, LoopPCs, CallsFit, HeapFits
  <2>2. LockOwned'
    BY <1>10 DEF InitCall, LoopGoto, LockOwned, InitFits, TypeOK, AppInside, LoopInside
  <2>3. CallsFit'
    BY <1>10 DEF InitCall, LoopGoto, CallsFit, TypeOK, DelPCs, InitFits
  <2>4. InitFits'
    BY <1>10 DEF InitCall, LoopGoto, InitFits, TypeOK, LockOwned, AppInside
  <2>5. HeapFits'
    BY <1>10 DEF InitCall, LoopGoto, HeapFits, CallsFit, LockOwned, InitFits, TypeOK,
        DelPCs, AppInside, LoopInside
  <2>6. PipeFits'
    BY <1>10 DEF InitCall, LoopGoto, PipeFits, TypeOK, LockOwned, LoopInside
  <2>7. NoOversleep'
    BY <1>10 DEF InitCall, LoopGoto, NoOversleep, PipeFits, HeapFits, TypeOK, Larger,
        LockOwned, LoopInside, AppInside
  <2> QED
    BY <2>1, <2>2, <2>3, <2>4, <2>5, <2>6, <2>7
<1>11. ASSUME InitMutex PROVE IInv'
  <2>1. TypeOK'
    BY <1>11 DEF InitMutex, LoopGoto, TypeOK, AppPCs, LoopPCs, CallsFit, HeapFits
  <2>2. LockOwned'
    BY <1>11 DEF InitMutex, LoopGoto, LockOwned, InitFits, TypeOK, AppInside, LoopInside
  <2>3. CallsFit'
    BY <1>11 DEF InitMutex, LoopGoto, CallsFit, TypeOK, DelPCs, InitFits
  <2>4. InitFits'
    BY <1>11 DEF InitMutex, LoopGoto, InitFits, TypeOK, LockOwned, AppInside
  <2>5. HeapFits'
    BY <1>11 DEF InitMutex, LoopGoto, HeapFits, CallsFit, LockOwned, InitFits, TypeOK,
        DelPCs, AppInside, LoopInside
  <2>6. PipeFits'
    BY <1>11 DEF InitMutex, LoopGoto, PipeFits, TypeOK, LockOwned, LoopInside
  <2>7. NoOversleep'
    BY <1>11 DEF InitMutex, LoopGoto, NoOversleep, PipeFits, HeapFits, TypeOK, Larger,
        LockOwned, LoopInside, AppInside
  <2> QED
    BY <2>1, <2>2, <2>3, <2>4, <2>5, <2>6, <2>7
<1>12. ASSUME LoopLock PROVE IInv'
  <2>1. TypeOK'
    BY <1>12 DEF LoopLock, LoopGoto, TypeOK, AppPCs, LoopPCs, CallsFit, HeapFits
  <2>2. LockOwned'
    BY <1>12 DEF LoopLock, LoopGoto, LockOwned, InitFits, TypeOK, AppInside, LoopInside
  <2>3. CallsFit'
    BY <1>12 DEF LoopLock, LoopGoto, CallsFit, TypeOK, DelPCs, InitFits
  <2>4. InitFits'
    BY <1>12 DEF LoopLock, LoopGoto, InitFits, TypeOK, LockOwned, AppInside
  <2>5. HeapFits'
    BY <1>12 DEF LoopLock, LoopGoto, HeapFits, CallsFit, LockOwned, InitFits, TypeOK,
        DelPCs, AppInside, LoopInside
  <2>6. PipeFits'
    BY <1>12 DEF LoopLock, LoopGoto, PipeFits, TypeOK, LockOwned, LoopInside
  <2>7. NoOversleep'
    BY <1>12 DEF LoopLock, LoopGoto, NoOversleep, PipeFits, HeapFits, TypeOK, Larger,
        LockOwned, LoopInside, AppInside
  <2> QED
    BY <2>1, <2>2, <2>3, <2>4, <2>5, <2>6, <2>7
<1>13. ASSUME Prepare PROVE IInv'
  <2>1. TypeOK'
    BY <1>13, UpdatedType, WaitTimesBound DEF Prepare, Unlock, LoopGoto, TypeOK, AppPCs,
        LoopPCs, CallsFit, HeapFits
  <2>2. LockOwned'
    BY <1>13, UpdatedType, WaitTimesBound DEF Prepare, Unlock, LoopGoto, LockOwned,
        InitFits, TypeOK, AppInside, LoopInside
  <2>3. CallsFit'
    BY <1>13, UpdatedType, WaitTimesBound DEF Prepare, Unlock, LoopGoto, CallsFit,
        TypeOK, DelPCs, InitFits
  <2>4. InitFits'
    BY <1>13, UpdatedType, WaitTimesBound DEF Prepare, Unlock, LoopGoto, InitFits,
        TypeOK, LockOwned, AppInside
  <2>5. HeapFits'
    BY <1>13, UpdatedType, WaitTimesBound DEF Prepare, Unlock, LoopGoto, HeapFits,
        CallsFit, LockOwned, InitFits, TypeOK, DelPCs, AppInside, LoopInside
  <2>6. PipeFits'
    BY <1>13, UpdatedType, WaitTimesBound DEF Prepare, Unlock, LoopGoto, PipeFits,
        TypeOK, LockOwned, LoopInside
  <2>7. NoOversleep'
    BY <1>13, UpdatedType, WaitTimesBound DEF Prepare, Unlock, LoopGoto, NoOversleep,
        PipeFits, HeapFits, TypeOK, Larger, LockOwned, LoopInside, AppInside
  <2> QED
    BY <2>1, <2>2, <2>3, <2>4, <2>5, <2>6, <2>7
<1>14. ASSUME PollEnds PROVE IInv'
  <2>1. TypeOK'
    BY <1>14 DEF PollEnds, LoopGoto, TypeOK, AppPCs, LoopPCs, CallsFit, HeapFits
  <2>2. LockOwned'
    BY <1>14 DEF PollEnds, LoopGoto, LockOwned, InitFits, TypeOK, AppInside, LoopInside
  <2>3. CallsFit'
    BY <1>14 DEF PollEnds, LoopGoto, CallsFit, TypeOK, DelPCs, InitFits
  <2>4. InitFits'
    BY <1>14 DEF PollEnds, LoopGoto, InitFits, TypeOK, LockOwned, AppInside
  <2>5. HeapFits'
    BY <1>14 DEF PollEnds, LoopGoto, HeapFits, CallsFit, LockOwned, InitFits, TypeOK,
        DelPCs, AppInside, LoopInside
  <2>6. PipeFits'
    BY <1>14 DEF PollEnds, LoopGoto, PipeFits, TypeOK, LockOwned, LoopInside
  <2>7. NoOversleep'
    BY <1>14 DEF PollEnds, LoopGoto, NoOversleep, PipeFits, HeapFits, TypeOK, Larger,
        LockOwned, LoopInside, AppInside
  <2> QED
    BY <2>1, <2>2, <2>3, <2>4, <2>5, <2>6, <2>7
<1>15. ASSUME Reify PROVE IInv'
  <2>1. TypeOK'
    <3>1. rem' \in [Timers -> Int]
      <4>1. \A t \in Timers : Updated[t] \in Int /\ Larger(0, Updated[t] + Period[t]) \in Int
        BY UpdatedType DEF Larger
      <4> QED
        BY <4>1, <1>15 DEF Reify, TimersReify
    <3>2. active' \subseteq Timers /\ pending' \subseteq Timers
      BY <1>15 DEF Reify, TimersReify, Expired, TypeOK
    <3>3. /\ evpipe' \in BOOLEAN /\ sawPipe' \in BOOLEAN
          /\ async_pending' \in {0, 1} /\ pipe_write_skipped' \in {0, 1}
      BY <1>15, Zenon DEF Reify, PipeCb, TypeOK
    <3> QED
      BY <1>15, <3>1, <3>2, <3>3 DEF Reify, LoopGoto, TypeOK, LoopPCs
  <2>2. LockOwned'
    BY <1>15, UpdatedType DEF Reify, PipeCb, TimersReify, Expired, LoopGoto, LockOwned,
        InitFits, TypeOK, AppInside, LoopInside
  <2>3. CallsFit'
    BY <1>15, UpdatedType DEF Reify, PipeCb, TimersReify, Expired, LoopGoto, CallsFit,
        TypeOK, DelPCs, InitFits
  <2>4. InitFits'
    BY <1>15, UpdatedType DEF Reify, PipeCb, TimersReify, Expired, LoopGoto, InitFits,
        TypeOK, LockOwned, AppInside
  <2>5. HeapFits'
    BY <1>15, UpdatedType DEF Reify, PipeCb, TimersReify, Expired, LoopGoto, HeapFits,
        CallsFit, LockOwned, InitFits, TypeOK, DelPCs, AppInside, LoopInside
  <2>6. PipeFits'
    BY <1>15, UpdatedType DEF Reify, PipeCb, TimersReify, Expired, LoopGoto, PipeFits,
        TypeOK, LockOwned, LoopInside
  <2>7. NoOversleep'
    BY <1>15, UpdatedType DEF Reify, PipeCb, TimersReify, Expired, LoopGoto,
        NoOversleep, PipeFits, HeapFits, TypeOK, Larger, LockOwned, LoopInside,
        AppInside
  <2> QED
    BY <2>1, <2>2, <2>3, <2>4, <2>5, <2>6, <2>7
<1>16. ASSUME Invoke PROVE IInv'
  <2>1. TypeOK'
    BY <1>16 DEF Invoke, LoopGoto, TypeOK, AppPCs, LoopPCs, CallsFit, HeapFits
  <2>2. LockOwned'
    BY <1>16 DEF Invoke, LoopGoto, LockOwned, InitFits, TypeOK, AppInside, LoopInside
  <2>3. CallsFit'
    BY <1>16 DEF Invoke, LoopGoto, CallsFit, TypeOK, DelPCs, InitFits
  <2>4. InitFits'
    BY <1>16 DEF Invoke, LoopGoto, InitFits, TypeOK, LockOwned, AppInside
  <2>5. HeapFits'
    BY <1>16 DEF Invoke, LoopGoto, HeapFits, CallsFit, LockOwned, InitFits, TypeOK,
        DelPCs, AppInside, LoopInside
  <2>6. PipeFits'
    BY <1>16 DEF Invoke, LoopGoto, PipeFits, TypeOK, LockOwned, LoopInside
  <2>7. NoOversleep'
    BY <1>16 DEF Invoke, LoopGoto, NoOversleep, PipeFits, HeapFits, TypeOK, Larger,
        LockOwned, LoopInside, AppInside
  <2> QED
    BY <2>1, <2>2, <2>3, <2>4, <2>5, <2>6, <2>7
<1>17. ASSUME CallbackReturns PROVE IInv'
  <2>1. TypeOK'
    BY <1>17 DEF CallbackReturns, LoopGoto, TypeOK, AppPCs, LoopPCs, CallsFit, HeapFits
  <2>2. LockOwned'
    BY <1>17 DEF CallbackReturns, LoopGoto, LockOwned, InitFits, TypeOK, AppInside,
        LoopInside
  <2>3. CallsFit'
    BY <1>17 DEF CallbackReturns, LoopGoto, CallsFit, TypeOK, DelPCs, InitFits
  <2>4. InitFits'
    BY <1>17 DEF CallbackReturns, LoopGoto, InitFits, TypeOK, LockOwned, AppInside
  <2>5. HeapFits'
    BY <1>17 DEF CallbackReturns, LoopGoto, HeapFits, CallsFit, LockOwned, InitFits,
        TypeOK, DelPCs, AppInside, LoopInside
  <2>6. PipeFits'
    BY <1>17 DEF CallbackReturns, LoopGoto, PipeFits, TypeOK, LockOwned, LoopInside
  <2>7. NoOversleep'
    BY <1>17 DEF CallbackReturns, LoopGoto, NoOversleep, PipeFits, HeapFits, TypeOK,
        Larger, LockOwned, LoopInside, AppInside
  <2> QED
    BY <2>1, <2>2, <2>3, <2>4, <2>5, <2>6, <2>7
<1>18. ASSUME CallbackCalls PROVE IInv'
  <2>1. TypeOK'
    BY <1>18 DEF CallbackCalls, LoopGoto, TypeOK, AppPCs, LoopPCs, CallsFit, HeapFits
  <2>2. LockOwned'
    BY <1>18 DEF CallbackCalls, LoopGoto, LockOwned, InitFits, TypeOK, AppInside,
        LoopInside
  <2>3. CallsFit'
    BY <1>18 DEF CallbackCalls, LoopGoto, CallsFit, TypeOK, DelPCs, InitFits
  <2>4. InitFits'
    BY <1>18 DEF CallbackCalls, LoopGoto, InitFits, TypeOK, LockOwned, AppInside
  <2>5. HeapFits'
    BY <1>18 DEF CallbackCalls, LoopGoto, HeapFits, CallsFit, LockOwned, InitFits,
        TypeOK, DelPCs, AppInside, LoopInside
  <2>6. PipeFits'
    BY <1>18 DEF CallbackCalls, LoopGoto, PipeFits, TypeOK, LockOwned, LoopInside
  <2>7. NoOversleep'
    BY <1>18 DEF CallbackCalls, LoopGoto, NoOversleep, PipeFits, HeapFits, TypeOK,
        Larger, LockOwned, LoopInside, AppInside
  <2> QED
    BY <2>1, <2>2, <2>3, <2>4, <2>5, <2>6, <2>7
<1>19. ASSUME InvokeEnds PROVE IInv'
  <2>1. TypeOK'
    BY <1>19 DEF InvokeEnds, LoopGoto, TypeOK, AppPCs, LoopPCs, CallsFit, HeapFits
  <2>2. LockOwned'
    BY <1>19 DEF InvokeEnds, LoopGoto, LockOwned, InitFits, TypeOK, AppInside,
        LoopInside
  <2>3. CallsFit'
    BY <1>19 DEF InvokeEnds, LoopGoto, CallsFit, TypeOK, DelPCs, InitFits
  <2>4. InitFits'
    BY <1>19 DEF InvokeEnds, LoopGoto, InitFits, TypeOK, LockOwned, AppInside
  <2>5. HeapFits'
    BY <1>19 DEF InvokeEnds, LoopGoto, HeapFits, CallsFit, LockOwned, InitFits, TypeOK,
        DelPCs, AppInside, LoopInside
  <2>6. PipeFits'
    BY <1>19 DEF InvokeEnds, LoopGoto, PipeFits, TypeOK, LockOwned, LoopInside
  <2>7. NoOversleep'
    BY <1>19 DEF InvokeEnds, LoopGoto, NoOversleep, PipeFits, HeapFits, TypeOK, Larger,
        LockOwned, LoopInside, AppInside
  <2> QED
    BY <2>1, <2>2, <2>3, <2>4, <2>5, <2>6, <2>7
<1>20. ASSUME Tick PROVE IInv'
  <2>1. TypeOK'
    BY <1>20 DEF Tick, TypeOK, AppPCs, LoopPCs, CallsFit, HeapFits
  <2>2. LockOwned'
    BY <1>20 DEF Tick, LockOwned, InitFits, TypeOK, AppInside, LoopInside
  <2>3. CallsFit'
    BY <1>20 DEF Tick, CallsFit, TypeOK, DelPCs, InitFits
  <2>4. InitFits'
    BY <1>20 DEF Tick, InitFits, TypeOK, LockOwned, AppInside
  <2>5. HeapFits'
    BY <1>20 DEF Tick, HeapFits, CallsFit, LockOwned, InitFits, TypeOK, DelPCs,
        AppInside, LoopInside
  <2>6. PipeFits'
    BY <1>20 DEF Tick, PipeFits, TypeOK, LockOwned, LoopInside
  <2>7. NoOversleep'
    BY <1>20 DEF Tick, NoOversleep, PipeFits, HeapFits, TypeOK, Larger, LockOwned,
        LoopInside, AppInside
  <2> QED
    BY <2>1, <2>2, <2>3, <2>4, <2>5, <2>6, <2>7
<1>21. CASE UNCHANGED vars
  BY <1>21
  DEF vars, TypeOK, LockOwned, CallsFit, InitFits, HeapFits, PipeFits, NoOversleep
<1> QED
  BY  <1>1, <1>2, <1>3, <1>4, <1>5, <1>6, <1>7, <1>8, <1>9, <1>10, <1>11, <1>12, <1>13,
      <1>14, <1>15, <1>16, <1>17, <1>18, <1>19, <1>20, <1>21
  DEF Next, AppCall, AppBody, LoopBody, PollReturns, PollInterrupted

-----------------------------------------------------------------------------
(* The invariant holds of every behaviour in which clients wait for the    *)
(* mutex to be initialized.                                                *)
THEOREM Invariance ==
  ASSUME WaitsForLoop
  PROVE  Spec => []IInv
  BY InvariantHoldsInitially, InvariantIsInductive, PTL DEF Spec

(* Every variable of the service keeps its type. *)
THEOREM TypeCorrectness ==
  ASSUME WaitsForLoop
  PROVE  Spec => []TypeOK
<1>1. IInv => TypeOK
  BY DEF IInv
<1> QED
  BY <1>1, Invariance, PTL

(* libev's heap and queues are never in the hands of two threads.          *)
THEOREM LoopIsExclusive ==
  ASSUME WaitsForLoop
  PROVE  Spec => []LoopExclusive
<1>1. IInv => LoopExclusive
  <2> SUFFICES ASSUME IInv, NEW a \in Inside, NEW b \in Inside
               PROVE  a = b
    BY DEF LoopExclusive
  <2>1. \A c \in Inside : lock = c
    BY DEF IInv, Inside, LockOwned, AppInside, LoopInside
  <2> QED
    BY <2>1
<1> QED
  BY <1>1, Invariance, PTL

(* While the loop sleeps, with no wakeup on its way, it wakes in time for  *)
(* every timer, those included that were started after it went to sleep.   *)
THEOREM NeverOversleeps ==
  ASSUME WaitsForLoop
  PROVE  Spec => []NoOversleep
<1>1. IInv => NoOversleep
  BY DEF IInv
<1> QED
  BY <1>1, Invariance, PTL

-----------------------------------------------------------------------------
(* The steps that clients do not see: those that move only a program       *)
(* counter, the lock, the clock or the wakeup, and leave active, pending,  *)
(* current and alloc alone.                                                *)
Unseen == UNCHANGED <<alloc, active, pending, current>>

LEMMA QuietSteps ==
  ASSUME [Next]_vars
  PROVE  \/ Unseen
         \/ Reify \/ Invoke \/ CallbackReturns
         \/ \E t \in Timers : Create(t)
         \/ \E a \in Apps : AppBody(a)
<1> USE DEF Unseen, heap, clock, flags, pipe, apps
<1>1. CASE UNCHANGED vars
  BY <1>1 DEF vars
<1>2. CASE InitCall \/ InitMutex \/ LoopLock \/ CallbackCalls \/ InvokeEnds \/ Tick
  BY <1>2 DEF InitCall, InitMutex, LoopLock, CallbackCalls, InvokeEnds, Tick
<1>3. CASE Prepare \/ PollEnds
  BY <1>3 DEF Prepare, PollEnds
<1>4. ASSUME NEW a \in Apps, AppCall(a) \/ AppLock(a) PROVE Unseen
  BY <1>4 DEF AppCall, StartCall, StopCall, DelCall, Call, AppLock
<1> QED
  BY <1>1, <1>2, <1>3, <1>4 DEF Next, LoopBody, PollReturns, PollInterrupted

(* An unseen step is a stutter of the abstract service. *)
LEMMA UnseenStutters == Unseen => UNCHANGED Abstract!vars
  BY DEF Unseen, Abstract!vars

(* What an application thread does to a timer under the lock, and freeing  *)
(* it, are the abstract start, stop and delete.                            *)
LEMMA BodySimulation ==
  ASSUME IInv, NEW a \in Apps, AppBody(a)
  PROVE  [Abstract!Next]_(Abstract!vars)
<1> USE DEF heap, clock, flags, pipe, apps
<1> DEFINE t == arg[a]
<1>1. pc[a] # "idle"
  BY DEF AppBody, StartBody, StopBody, DelBody, DelFree, Goto
<1>2. t \in Timers /\ t \in alloc
  BY <1>1 DEF IInv, TypeOK, CallsFit
<1>3. CASE StartBody(a)
  <2>1. Abstract!Start(t)
    BY <1>2, <1>3 DEF StartBody, EvTimerStart, Abstract!Start
  <2> QED
    BY <1>2, <2>1 DEF Abstract!Next
<1>4. CASE StopBody(a) \/ DelBody(a)
  <2>1. current = NoTimer
    BY <1>4, TimerAssumption
    DEF StopBody, DelBody, Goto, IInv, LockOwned, HeapFits, AppInside, LoopInside
  <2>2. Abstract!Stop(t)
    BY <1>2, <1>4, <2>1 DEF StopBody, DelBody, EvTimerStop, Abstract!Stop
  <2> QED
    BY <1>2, <2>2 DEF Abstract!Next
<1>5. CASE DelFree(a)
  <2>1. t \notin active \cup pending \cup {current}
    BY <1>5 DEF DelFree, Goto, IInv, HeapFits
  <2>2. Abstract!Delete(t)
    BY <1>2, <1>5, <2>1 DEF DelFree, Abstract!Delete
  <2> QED
    BY <1>2, <2>2 DEF Abstract!Next
<1> QED
  BY <1>3, <1>4, <1>5 DEF AppBody

(* Expiry moves a timer from one queue to another: it stays armed.         *)
LEMMA ReifyKeepsArmed ==
  ASSUME IInv, Reify
  PROVE  active' \cup pending' = active \cup pending
<1>1. Expired \subseteq active
  BY DEF Expired
<1>2. /\ pending' = pending \cup Expired
      /\ active' = active \ {t \in Expired : Period[t] = 0}
  BY DEF Reify, TimersReify
<1> QED
  BY <1>1, <1>2

(* Calling back is the abstract callback: a repeating timer stays in the   *)
(* heap, and any other left it when it expired.                            *)
LEMMA InvokeSimulation ==
  ASSUME IInv, Invoke
  PROVE  [Abstract!Next]_(Abstract!vars)
<1>1. PICK t \in pending : current' = t /\ pending' = pending \ {t}
  BY DEF Invoke
<1>2. t \in Timers /\ t \in alloc /\ t # NoTimer
  BY TimerAssumption DEF IInv, TypeOK, HeapFits
<1>3. current = NoTimer /\ alloc' = alloc /\ active' = active
  BY DEF Invoke, LoopGoto, IInv, HeapFits
<1>4. t \in active <=> Period[t] > 0
  BY DEF IInv, HeapFits
<1>5. active' \cup pending' =
        IF Period[t] > 0 THEN active \cup pending ELSE (active \cup pending) \ {t}
  BY <1>1, <1>3, <1>4
<1>6. Abstract!CallBack(t)
  BY <1>1, <1>2, <1>3, <1>5 DEF Abstract!CallBack
<1> QED
  BY <1>2, <1>6 DEF Abstract!Next

(* Seen from its clients, the service does what TimerPromise allows: a     *)
(* callback runs only for a timer that is started and neither stopped nor  *)
(* deleted since, and none is running when stop or del returns.            *)
THEOREM Refinement ==
  ASSUME WaitsForLoop
  PROVE  Spec => ImplementsTimerPromise
<1>1. Init => Abstract!Init
  BY DEF Init, Abstract!Init
<1>2. IInv /\ [Next]_vars => [Abstract!Next]_(Abstract!vars)
  <2> SUFFICES ASSUME IInv, [Next]_vars
               PROVE  [Abstract!Next]_(Abstract!vars)
    OBVIOUS
  <2>1. CASE Unseen
    BY <2>1, UnseenStutters
  <2>2. CASE Reify
    BY <2>2, ReifyKeepsArmed DEF Reify, Abstract!vars
  <2>3. CASE Invoke
    BY <2>3, InvokeSimulation
  <2>4. CASE CallbackReturns
    <3>1. current # NoTimer
      BY <2>4 DEF CallbackReturns, LoopGoto, IInv, HeapFits
    <3>2. Abstract!Return
      BY <2>4, <3>1 DEF CallbackReturns, Abstract!Return, heap
    <3> QED
      BY <3>2 DEF Abstract!Next
  <2>5. ASSUME NEW t \in Timers, Create(t)
        PROVE  Abstract!Create(t)
    BY <2>5 DEF Create, Abstract!Create
  <2>6. ASSUME NEW a \in Apps, AppBody(a)
        PROVE  [Abstract!Next]_(Abstract!vars)
    BY <2>6, BodySimulation
  <2> QED
    BY <2>1, <2>2, <2>3, <2>4, <2>5, <2>6, QuietSteps DEF Abstract!Next
<1> QED
  BY <1>1, <1>2, Invariance, PTL DEF Spec, ImplementsTimerPromise, Abstract!Spec
=============================================================================
