---------------------------- MODULE TimerService ----------------------------
(***************************************************************************)
(* The timer service: bf_sys_timer.c and the part of libev's event loop it *)
(* runs on.  One thread never returns from bf_sys_timer_init and runs the  *)
(* loop; other threads create, start, stop and delete timers.  All of      *)
(* libev's state is under u.lock, which the loop gives up only while it is *)
(* inside epoll_wait; a step here is what a thread does while it owns the  *)
(* lock, split where the loop calls back into the application.             *)
(*                                                                         *)
(* Time is in milliseconds, the resolution of epoll_wait, and relative to  *)
(* mn_now, the loop's cached clock: `lag' is how far the real clock is     *)
(* ahead of mn_now, and rem[t] is ev_at(w) - mn_now of an active timer.    *)
(* For an inactive timer libev itself keeps the remaining time in ev_at(w),*)
(* so that starting and stopping leave rem[t] as it is.                    *)
(***************************************************************************)
EXTENDS Integers, FiniteSets

CONSTANTS
  Apps,               \* the threads that use timers
  Loop,               \* the thread in bf_sys_timer_init
  Timers,             \* the bf_sys_timer_t of the application
  First, Period,      \* start_msecs and period_msecs of each timer
  NoThread, NoTimer,
  WaitsForLoop,       \* clients call nothing between inited = 1 and mutex_init
  CallsFromCallback,  \* callbacks call bf_sys_timer_start, _stop or _del
  MaxBlock,           \* MAX_BLOCKTIME
  MaxLag              \* the bound on the time between two looks at the clock

ASSUME TimerAssumption ==
  /\ Loop \notin Apps
  /\ NoThread \notin Apps \cup {Loop}
  /\ NoTimer \notin Timers
  /\ IsFiniteSet(Timers)
  /\ First \in [Timers -> Nat]
  /\ Period \in [Timers -> Nat]
  /\ MaxBlock \in Nat /\ MaxLag \in Nat
  /\ 1 <= MaxBlock /\ MaxBlock <= MaxLag
  /\ WaitsForLoop \in BOOLEAN /\ CallsFromCallback \in BOOLEAN

VARIABLES
  inited, lock,       \* u.inited, and the owner of u.lock
  alloc,              \* the timers with t->timer # NULL
  active, rem,        \* the timers in libev's heap; see above
  pending, current,   \* expired timers still to be called back; the one called
  lag, dl,            \* see above; when epoll_wait is to time out
  async_pending, pipe_write_skipped, pipe_write_wanted,
  evpipe, sawPipe,    \* the eventfd is readable; epoll_wait has reported it
  pc, arg,            \* where each application thread is, and with which timer
  lp                  \* where the loop thread is

heap   == <<active, rem, pending>>
clock  == <<lag, dl>>
flags  == <<async_pending, pipe_write_skipped, pipe_write_wanted>>
pipe   == <<evpipe, sawPipe>>
apps   == <<pc, arg>>
vars   == <<inited, lock, alloc, heap, current, clock, flags, pipe, apps, lp>>

AppPCs  == {"idle", "start_lock", "start_body", "stop_lock", "stop_body",
            "del_lock", "del_body", "del_free"}
LoopPCs == {"off", "init_mutex", "init_lock", "prepare", "poll", "poll_lock",
            "reify", "invoke", "callback", "callback_lock"}

TypeOK ==
  /\ inited \in {0, 1}
  /\ lock \in Apps \cup {Loop, NoThread}
  /\ alloc \subseteq Timers /\ active \subseteq Timers /\ pending \subseteq Timers
  /\ rem \in [Timers -> Int]
  /\ current \in Timers \cup {NoTimer}
  /\ lag \in 0 .. MaxLag /\ dl \in 0 .. MaxBlock
  /\ async_pending \in {0, 1}
  /\ pipe_write_skipped \in {0, 1} /\ pipe_write_wanted \in {0, 1}
  /\ evpipe \in BOOLEAN /\ sawPipe \in BOOLEAN
  /\ pc \in [Apps -> AppPCs]
  /\ arg \in [Apps -> Timers \cup {NoTimer}]
  /\ lp \in LoopPCs

Init ==
  /\ inited = 0 /\ lock = NoThread
  /\ alloc = {} /\ active = {} /\ pending = {}
  /\ rem = [t \in Timers |-> 0]
  /\ current = NoTimer
  /\ lag = 0 /\ dl = 0
  /\ async_pending = 0 /\ pipe_write_skipped = 0 /\ pipe_write_wanted = 0
  /\ evpipe = FALSE /\ sawPipe = FALSE
  /\ pc = [a \in Apps |-> "idle"]
  /\ arg = [a \in Apps |-> NoTimer]
  /\ lp = "off"

Larger(m, n) == IF m >= n THEN m ELSE n

Goto(a, from, to) ==
  /\ pc[a] = from
  /\ pc' = [pc EXCEPT ![a] = to]

LoopGoto(from, to) == lp = from /\ lp' = to

-----------------------------------------------------------------------------
(* libev, on behalf of an application thread that owns the lock *)

EvTimerStart(t) == active' = active \cup {t} /\ UNCHANGED <<rem, pending>>

EvTimerStop(t) ==
  /\ active' = active \ {t}
  /\ pending' = pending \ {t}
  /\ UNCHANGED rem

(* Writes to the eventfd if the loop wants it, and notes it otherwise.  A  *)
(* wakeup that is still on its way is not sent twice.                      *)
EvAsyncSend ==
  /\ async_pending' = 1
  /\ \/ async_pending = 1 /\ UNCHANGED <<evpipe, pipe_write_skipped>>
     \/ /\ async_pending = 0 /\ pipe_write_wanted = 1
        /\ evpipe' = TRUE
        /\ pipe_write_skipped' = 0
     \/ /\ async_pending = 0 /\ pipe_write_wanted = 0
        /\ pipe_write_skipped' = 1
        /\ UNCHANGED evpipe
  /\ UNCHANGED <<sawPipe, pipe_write_wanted>>

-----------------------------------------------------------------------------
(* The application.  A timer may be used by any thread, but it is created  *)
(* and deleted only when no other thread is in a call on it.               *)

InCall(t)    == \E a \in Apps : arg[a] = t /\ pc[a] # "idle"
BeingFreed(t) == \E a \in Apps : arg[a] = t /\ pc[a] \in {"del_lock", "del_body", "del_free"}

MayCall == WaitsForLoop => lp # "init_mutex"

Create(t) ==
  /\ t \notin alloc /\ ~InCall(t)
  /\ alloc' = alloc \cup {t}
  /\ rem' = [rem EXCEPT ![t] = First[t]]
  /\ UNCHANGED <<inited, lock, active, pending, current, clock, flags, pipe, apps, lp>>

(* A call on a timer that gets past the checks of t->timer and u.inited.   *)
Call(a, t, label) ==
  /\ MayCall
  /\ t \in alloc
  /\ Goto(a, "idle", label)
  /\ arg' = [arg EXCEPT ![a] = t]
  /\ UNCHANGED <<inited, lock, alloc, heap, current, clock, flags, pipe, lp>>

StartCall(a, t) == inited = 1 /\ ~BeingFreed(t) /\ Call(a, t, "start_lock")
StopCall(a, t)  == inited = 1 /\ ~BeingFreed(t) /\ Call(a, t, "stop_lock")

(* bf_sys_timer_del ignores that bf_sys_timer_stop is NOT_INITED.          *)
DelCall(a, t) ==
  /\ ~InCall(t)
  /\ Call(a, t, IF inited = 1 THEN "del_lock" ELSE "del_free")

AfterLock == [start_lock |-> "start_body", stop_lock |-> "stop_body", del_lock |-> "del_body"]

(* A mutant: the loop is modified without u.lock. *)
AppLock_Barges(a) ==
  /\ pc[a] \in DOMAIN AfterLock
  /\ lock' = a
  /\ pc' = [pc EXCEPT ![a] = AfterLock[pc[a]]]
  /\ UNCHANGED <<inited, alloc, heap, current, clock, flags, pipe, arg, lp>>

AppLock(a) ==
  /\ pc[a] \in DOMAIN AfterLock
  /\ lock = NoThread
  /\ lock' = a
  /\ pc' = [pc EXCEPT ![a] = AfterLock[pc[a]]]
  /\ UNCHANGED <<inited, alloc, heap, current, clock, flags, pipe, arg, lp>>

Unlock == lock' = NoThread

StartBody(a) ==
  /\ Goto(a, "start_body", "idle")
  /\ EvTimerStart(arg[a])
  /\ EvAsyncSend
  /\ Unlock
  /\ UNCHANGED <<inited, alloc, current, clock, arg, lp>>

StopBody(a) ==
  /\ Goto(a, "stop_body", "idle")
  /\ EvTimerStop(arg[a])
  /\ EvAsyncSend
  /\ Unlock
  /\ UNCHANGED <<inited, alloc, current, clock, arg, lp>>

(* A mutant: the timer is freed without being stopped. *)
DelBody_NoStop(a) ==
  /\ Goto(a, "del_body", "del_free")
  /\ EvAsyncSend
  /\ Unlock
  /\ UNCHANGED <<inited, alloc, heap, current, clock, arg, lp>>

DelBody(a) ==
  /\ Goto(a, "del_body", "del_free")
  /\ EvTimerStop(arg[a])
  /\ EvAsyncSend
  /\ Unlock
  /\ UNCHANGED <<inited, alloc, current, clock, arg, lp>>

DelFree(a) ==
  /\ Goto(a, "del_free", "idle")
  /\ alloc' = alloc \ {arg[a]}
  /\ UNCHANGED <<inited, lock, heap, current, clock, flags, pipe, arg, lp>>

-----------------------------------------------------------------------------
(* bf_sys_timer_init: u.inited is set first, the mutex initialized next.   *)
(* u is a global, and a mutex of zeros is a free one, so it can be locked  *)
(* before; pthread_mutex_init then makes it free whoever holds it.         *)

InitCall ==
  /\ LoopGoto("off", "init_mutex")
  /\ inited' = 1
  /\ UNCHANGED <<lock, alloc, heap, current, clock, flags, pipe, apps>>

InitMutex ==
  /\ LoopGoto("init_mutex", "init_lock")
  /\ lock' = NoThread
  /\ UNCHANGED <<inited, alloc, heap, current, clock, flags, pipe, apps>>

(* l_acquire, before ev_loop and after every epoll_wait. *)
LoopLock ==
  /\ LoopGoto("init_lock", "prepare") \/ LoopGoto("poll_lock", "reify")
  /\ lock = NoThread
  /\ lock' = Loop
  /\ UNCHANGED <<inited, alloc, heap, current, clock, flags, pipe, apps>>

-----------------------------------------------------------------------------
(* ev_run *)

(* time_update: mn_now catches up with the clock.  Once a timer is later   *)
(* than its period, by how much makes no difference any more.              *)
Updated ==
  [t \in Timers |->
     IF t \in active THEN Larger(-(1 + Period[t]), rem[t] - lag) ELSE rem[t]]

(* A mutant: no minimum. *)
WaitTimes_NoMinimum ==
  LET limits == {MaxBlock} \cup {Updated[t] : t \in active}
  IN  {n \in limits : \A k \in limits : n <= k}

(* The poll time: up to the first timer, but at least one millisecond and  *)
(* at most MAX_BLOCKTIME.                                                  *)
WaitTimes ==
  LET limits == {MaxBlock} \cup {Updated[t] : t \in active}
  IN  {Larger(1, m) : m \in {n \in limits : \A k \in limits : n <= k}}

(* From the top of the loop to epoll_wait, which gives the lock up. *)
Prepare ==
  /\ LoopGoto("prepare", "poll")
  /\ rem' = Updated /\ lag' = 0
  /\ pipe_write_wanted' = 1
  /\ dl' \in IF pipe_write_skipped = 1 THEN {0} ELSE WaitTimes
  /\ Unlock
  /\ UNCHANGED <<inited, alloc, active, pending, current, async_pending,
                 pipe_write_skipped, pipe, apps>>

PollEnds ==
  /\ LoopGoto("poll", "poll_lock")
  /\ sawPipe' = evpipe
  /\ UNCHANGED <<inited, lock, alloc, heap, current, clock, flags, evpipe, apps>>

PollReturns == (evpipe \/ lag >= dl) /\ PollEnds

(* EINTR, or a timeout that epoll_wait has rounded down. *)
PollInterrupted == ~evpipe /\ lag < dl /\ PollEnds

(* A mutant: a timer fires when its time is reached, not passed. *)
Expired_OnTime == {t \in active : Updated[t] <= 0}

Expired == {t \in active : Updated[t] < 0}

(* A mutant: a timer is queued before it is stopped, which unqueues it. *)
TimersReify_StopsLast ==
  /\ pending' = pending \cup {t \in Expired : Period[t] > 0}
  /\ active' = active \ {t \in Expired : Period[t] = 0}
  /\ rem' = [t \in Timers |->
               IF t \in Expired /\ Period[t] > 0
                 THEN Larger(0, Updated[t] + Period[t])
                 ELSE Updated[t]]

(* timers_reify: a repeating timer is set to its next time, or to now if   *)
(* that has passed too; the others leave the heap.                         *)
TimersReify ==
  /\ pending' = pending \cup Expired
  /\ active' = active \ {t \in Expired : Period[t] = 0}
  /\ rem' = [t \in Timers |->
               IF t \in Expired /\ Period[t] > 0
                 THEN Larger(0, Updated[t] + Period[t])
                 ELSE Updated[t]]

(* A mutant: async_pending stays set. *)
PipeCb_KeepsPending ==
  /\ IF sawPipe \/ pipe_write_skipped = 1
       THEN /\ evpipe' = (evpipe /\ ~sawPipe)
            /\ pipe_write_skipped' = 0
            /\ UNCHANGED async_pending
       ELSE UNCHANGED <<evpipe, pipe_write_skipped, async_pending>>
  /\ sawPipe' = FALSE

(* pipecb runs if epoll_wait saw the eventfd, or a write to it was skipped. *)
PipeCb ==
  /\ IF sawPipe \/ pipe_write_skipped = 1
       THEN /\ evpipe' = (evpipe /\ ~sawPipe)
            /\ pipe_write_skipped' = 0
            /\ async_pending' = 0
       ELSE UNCHANGED <<evpipe, pipe_write_skipped, async_pending>>
  /\ sawPipe' = FALSE

(* From epoll_wait to the first callback.  pipecb, which has the highest   *)
(* priority, runs before any of the application's.                         *)
Reify ==
  /\ LoopGoto("reify", "invoke")
  /\ pipe_write_wanted' = 0
  /\ PipeCb
  /\ TimersReify
  /\ lag' = 0
  /\ UNCHANGED <<inited, lock, alloc, current, dl, apps>>

(* A mutant: a timer stays pending when it is called back. *)
Invoke_KeepsPending ==
  /\ LoopGoto("invoke", "callback")
  /\ \E t \in pending : current' = t
  /\ UNCHANGED <<inited, lock, alloc, heap, clock, flags, pipe, apps>>

(* ev_invoke_pending and timeout_cb.  The lock is kept throughout.         *)
Invoke ==
  /\ LoopGoto("invoke", "callback")
  /\ \E t \in pending : current' = t /\ pending' = pending \ {t}
  /\ UNCHANGED <<inited, lock, alloc, active, rem, clock, flags, pipe, apps>>

CallbackReturns ==
  /\ LoopGoto("callback", "invoke")
  /\ current' = NoTimer
  /\ UNCHANGED <<inited, lock, alloc, heap, clock, flags, pipe, apps>>

(* A call from a callback waits for u.lock, a mutex of the default kind    *)
(* that its own thread owns.  No step leaves callback_lock.                *)
CallbackCalls ==
  /\ CallsFromCallback
  /\ LoopGoto("callback", "callback_lock")
  /\ UNCHANGED <<inited, lock, alloc, heap, current, clock, flags, pipe, apps>>

InvokeEnds ==
  /\ LoopGoto("invoke", "prepare")
  /\ pending = {}
  /\ UNCHANGED <<inited, lock, alloc, heap, current, clock, flags, pipe, apps>>

-----------------------------------------------------------------------------
Tick ==
  /\ lag < MaxLag
  /\ lag' = lag + 1
  /\ UNCHANGED <<inited, lock, alloc, heap, current, dl, flags, pipe, apps, lp>>

AppCall(a) == \E t \in Timers : StartCall(a, t) \/ StopCall(a, t) \/ DelCall(a, t)
AppBody(a) == StartBody(a) \/ StopBody(a) \/ DelBody(a) \/ DelFree(a)

LoopBody ==
  \/ InitMutex \/ Prepare \/ PollReturns \/ Reify
  \/ Invoke \/ InvokeEnds \/ CallbackReturns

Next ==
  \/ \E t \in Timers : Create(t)
  \/ \E a \in Apps : AppCall(a) \/ AppLock(a) \/ AppBody(a)
  \/ InitCall \/ LoopLock \/ LoopBody
  \/ PollInterrupted \/ CallbackCalls
  \/ Tick

Spec == Init /\ [][Next]_vars

(* Threads keep running, the clock too, and a thread that keeps finding    *)
(* u.lock free gets it in the end.  No call has to be made.                *)
Fairness ==
  /\ WF_vars(LoopBody) /\ SF_vars(LoopLock)
  /\ \A a \in Apps : WF_vars(AppBody(a)) /\ SF_vars(AppLock(a))
  /\ WF_vars(Tick)

FairSpec == Spec /\ Fairness

-----------------------------------------------------------------------------
(* Safety *)

(* The threads that are between their lock and their unlock of u.lock.     *)
Inside ==
  {a \in Apps : pc[a] \in {"start_body", "stop_body", "del_body"}}
    \cup (IF lp \in {"prepare", "reify", "invoke", "callback", "callback_lock"}
            THEN {Loop} ELSE {})

(* libev's state is never in the hands of two threads: whoever starts,     *)
(* stops or deletes a timer has the event loop to himself.                 *)
LoopExclusive == \A a, b \in Inside : a = b

(* The loop does not oversleep.  While it is in epoll_wait, with no wakeup *)
(* on its way, it returns in time for every timer, those included that     *)
(* were started after it computed its timeout.                             *)
NoOversleep ==
  lp = "poll" /\ ~evpipe
    => \A t \in active : dl <= Larger(1, rem[t])

-----------------------------------------------------------------------------
(* The service seen from its clients: a timer is armed until its last      *)
(* callback begins or it is stopped.                                       *)
Abstract == INSTANCE TimerPromise WITH
  Repeating <- {t \in Timers : Period[t] > 0},
  exists    <- alloc,
  armed     <- active \cup pending,
  running   <- IF current = NoTimer THEN {} ELSE {current}

(* A callback runs only for a timer that is started and neither stopped    *)
(* nor deleted since; none is running when stop or del returns.            *)
ImplementsTimerPromise == Abstract!Spec

-----------------------------------------------------------------------------
(* Whatever is started calls back, unless it is stopped or deleted.        *)
StartedTimerFires ==
  \A t \in Timers :
    t \in active ~> \/ current = t
                    \/ \E a \in Apps : arg[a] = t /\ pc[a] \in {"stop_body", "del_body"}

(* Every start, stop and del returns, however busy the loop is.            *)
CallsReturn == \A a \in Apps : []<>(pc[a] = "idle")

(* Every callback returns. *)
CallbacksReturn == []<>(current = NoTimer)
=============================================================================
