---------------------------- MODULE RwMutexLock ----------------------------
(***************************************************************************)
(* The readers-writer lock of bf_sys_sem.c: bf_sys_rw_mutex_lock_init,     *)
(* _del, _rdlock, _wrlock, _rdunlock and _wrunlock, built from one pthread *)
(* mutex and two condition variables.                                      *)
(*                                                                         *)
(* A step is one pthread call, or the code a thread runs between two of    *)
(* them while it owns the mutex.  `valid' is the one field the code reads  *)
(* without the mutex, so that read is a step of its own.  The mutex and    *)
(* the condition variables are modelled by what POSIX promises: a wait     *)
(* releases the mutex and blocks in one step, a wakeup may be spurious,    *)
(* and a woken thread has to win the mutex again before it returns.        *)
(***************************************************************************)
EXTENDS Integers, FiniteSets

CONSTANTS
  Threads,      \* the threads of the process
  Readers,      \* those that call rdlock/rdunlock
  Writers,      \* those that call wrlock/wrunlock
  Owners,       \* those that call init/del
  NoThread,     \* the owner of a free mutex
  Coordinated,  \* clients keep del and init apart from the entry to a lock call
  WaitErrors    \* pthread_cond_wait may return an error

ASSUME ThreadsAssumption ==
  /\ IsFiniteSet(Threads)
  /\ Readers \subseteq Threads
  /\ Writers \subseteq Threads
  /\ Owners \subseteq Threads
  /\ NoThread \notin Threads

ASSUME ClientAssumption ==
  /\ Coordinated \in BOOLEAN
  /\ WaitErrors \in BOOLEAN

VARIABLES
  r_active, w_active, r_wait, w_wait, valid,  \* fields of bf_sys_rw_mutex_lock_t
  live,              \* which of the three pthread objects exist
  mutex,             \* the thread that owns rwlock->mutex
  readCV, writeCV,   \* the threads blocked on rwlock->read and rwlock->write
  pc,                \* where each thread is
  held               \* what each thread has been granted and not yet given back

counters == <<r_active, w_active, r_wait, w_wait>>
conds    == <<readCV, writeCV>>
vars     == <<counters, valid, live, mutex, conds, pc, held>>

-----------------------------------------------------------------------------
(* Where a thread can be.  "xx_lock" is inside pthread_mutex_lock, having  *)
(* passed the check of `valid'.                                            *)

InitPCs == {"init_mutex", "init_read", "init_write"}
DelPCs  == {"del_lock", "del_test", "del_unlock", "del_destroy"}
PCs     == {"idle", "unlock",
            "rd_lock", "rd_test", "rd_wait", "rd_loop", "ru_lock", "ru_body",
            "wr_lock", "wr_test", "wr_wait", "wr_loop", "wu_lock", "wu_body"}
           \cup InitPCs \cup DelPCs

(* Where pthread_mutex_lock, or the end of pthread_cond_wait, leads. *)
AfterLock ==
  [rd_lock |-> "rd_test", rd_wait |-> "rd_loop", ru_lock |-> "ru_body",
   wr_lock |-> "wr_test", wr_wait |-> "wr_loop", wu_lock |-> "wu_body",
   del_lock |-> "del_test"]

(* Where pthread_mutex_unlock leads: out of the call, or on to the         *)
(* destruction of the three objects.                                       *)
AfterUnlock == [unlock |-> "idle", del_unlock |-> "del_destroy"]

Objects == {"mutex", "read", "write"}

TypeOK ==
  /\ r_active \in Nat /\ w_active \in Nat /\ r_wait \in Nat /\ w_wait \in Nat
  /\ valid \in {0, 1}
  /\ live \subseteq Objects
  /\ mutex \in Threads \cup {NoThread}
  /\ readCV \subseteq Threads /\ writeCV \subseteq Threads
  /\ pc \in [Threads -> PCs]
  /\ held \in [Threads -> {"none", "read", "write"}]

Init ==
  /\ r_active = 0 /\ w_active = 0 /\ r_wait = 0 /\ w_wait = 0
  /\ valid = 0
  /\ live = {}
  /\ mutex = NoThread
  /\ readCV = {} /\ writeCV = {}
  /\ pc = [t \in Threads |-> "idle"]
  /\ held = [t \in Threads |-> "none"]

Goto(t, label)    == pc' = [pc EXCEPT ![t] = label]
Grant(t, mode)    == held' = [held EXCEPT ![t] = mode]

-----------------------------------------------------------------------------
(* pthread primitives *)

(* pthread_mutex_lock returns, or a woken thread leaves pthread_cond_wait. *)
Lock(t) ==
  /\ pc[t] \in DOMAIN AfterLock
  /\ t \notin readCV \cup writeCV
  /\ mutex = NoThread
  /\ mutex' = t
  /\ Goto(t, AfterLock[pc[t]])
  /\ UNCHANGED <<counters, valid, live, conds, held>>

Unlock(t) ==
  /\ pc[t] \in DOMAIN AfterUnlock
  /\ mutex' = NoThread
  /\ Goto(t, AfterUnlock[pc[t]])
  /\ UNCHANGED <<counters, valid, live, conds, held>>

(* POSIX lets pthread_cond_wait return with nobody having signalled. *)
SpuriousWakeup(t) ==
  /\ t \in readCV \cup writeCV
  /\ readCV' = readCV \ {t}
  /\ writeCV' = writeCV \ {t}
  /\ UNCHANGED <<counters, valid, live, mutex, pc, held>>

SignalWrite ==
  IF writeCV = {} THEN UNCHANGED writeCV
                  ELSE \E t \in writeCV : writeCV' = writeCV \ {t}

BroadcastRead == readCV' = {}

-----------------------------------------------------------------------------
(* What clients owe the lock.  init and del look at `valid' and, in the    *)
(* end, at the three objects without any lock, so a client must keep them  *)
(* apart from each other and from a thread that is entering rdlock or      *)
(* wrlock.  Nothing is asked of threads that hold the lock, wait for it or *)
(* give it back: del is to return EBUSY while there are any.               *)

Busy(t, labels) == \E u \in Threads \ {t} : pc[u] \in labels

MayEnter(t)   == Coordinated => ~Busy(t, InitPCs \cup DelPCs)
MayManage(t)  == Coordinated => ~Busy(t, InitPCs \cup DelPCs \cup {"rd_lock", "wr_lock"})

Call(t, threads, label) ==
  /\ t \in threads
  /\ pc[t] = "idle"
  /\ Goto(t, label)
  /\ UNCHANGED <<valid, live, mutex, conds, held>>

-----------------------------------------------------------------------------
(* bf_sys_rw_mutex_lock_init *)

InitCall(t) ==
  /\ MayManage(t)
  /\ valid # 1                                     \* else EBUSY
  /\ Call(t, Owners, "init_mutex")
  /\ r_active' = 0 /\ w_active' = 0 /\ r_wait' = 0 /\ w_wait' = 0

(* malloc or the pthread init of object o fails: what exists is destroyed. *)
InitFails(t) ==
  /\ live' = {}
  /\ Goto(t, "idle")
  /\ UNCHANGED <<counters, valid, mutex, conds, held>>

InitMutex(t) ==
  /\ pc[t] = "init_mutex"
  /\ \/ /\ live' = live \cup {"mutex"}
        /\ Goto(t, "init_read")
        /\ UNCHANGED <<counters, valid, mutex, conds, held>>
     \/ InitFails(t)

InitRead(t) ==
  /\ pc[t] = "init_read"
  /\ \/ /\ live' = live \cup {"read"}
        /\ Goto(t, "init_write")
        /\ UNCHANGED <<counters, valid, mutex, conds, held>>
     \/ InitFails(t)

InitWrite(t) ==
  /\ pc[t] = "init_write"
  /\ \/ /\ live' = live \cup {"write"}
        /\ valid' = 1
        /\ Goto(t, "idle")
        /\ UNCHANGED <<counters, mutex, conds, held>>
     \/ InitFails(t)

-----------------------------------------------------------------------------
(* bf_sys_rw_mutex_lock_del *)

DelCall(t) ==
  /\ MayManage(t)
  /\ valid = 1                                     \* else EINVAL
  /\ Call(t, Owners, "del_lock")
  /\ UNCHANGED counters

(* A mutant: the check for waiting threads is missing. *)
LockInUse_ActiveOnly == r_active > 0 \/ w_active > 0

LockInUse ==
  \/ r_active > 0 \/ w_active > 0
  \/ r_wait > 0 \/ w_wait > 0

(* A mutant: valid stays 1. *)
DelTest_StaysValid(t) ==
  /\ pc[t] = "del_test"
  /\ IF LockInUse THEN Goto(t, "unlock") ELSE Goto(t, "del_unlock")
  /\ UNCHANGED <<counters, valid, live, mutex, conds, held>>

DelTest(t) ==
  /\ pc[t] = "del_test"
  /\ IF LockInUse
       THEN Goto(t, "unlock") /\ UNCHANGED valid   \* EBUSY
       ELSE Goto(t, "del_unlock") /\ valid' = 0
  /\ UNCHANGED <<counters, live, mutex, conds, held>>

DelDestroy(t) ==
  /\ pc[t] = "del_destroy"
  /\ live' = {}
  /\ Goto(t, "idle")
  /\ UNCHANGED <<counters, valid, mutex, conds, held>>

-----------------------------------------------------------------------------
(* bf_sys_rw_mutex_lock_rdlock *)

RdlockCall(t) ==
  /\ MayEnter(t)
  /\ held[t] = "none"
  /\ valid = 1
  /\ Call(t, Readers, "rd_lock")
  /\ UNCHANGED counters

(* A mutant: readers are let past waiting writers. *)
WritersPresent_ActiveOnly == w_active > 0

WritersPresent == w_active > 0 \/ w_wait > 0

(* pthread_cond_wait: gives the mutex up and blocks. *)
WaitRead(t) ==
  /\ readCV' = readCV \cup {t}
  /\ mutex' = NoThread
  /\ Goto(t, "rd_wait")
  /\ UNCHANGED <<w_active, w_wait, r_active, valid, live, writeCV, held>>

GrantRead(t) ==
  /\ r_active' = r_active + 1
  /\ Grant(t, "read")
  /\ Goto(t, "unlock")
  /\ UNCHANGED <<w_active, w_wait, valid, live, mutex, conds>>

RdlockTest(t) ==
  /\ pc[t] = "rd_test"
  /\ IF WritersPresent
       THEN WaitRead(t) /\ r_wait' = r_wait + 1
       ELSE GrantRead(t) /\ UNCHANGED r_wait

(* Mutants: r_wait-- inside the loop; `if' for `while'. *)
RdlockLoop_CountsEachTurn(t) ==
  /\ pc[t] = "rd_loop"
  /\ r_wait' = r_wait - 1
  /\ IF WritersPresent THEN WaitRead(t) ELSE GrantRead(t)

RdlockLoop_NoRetest(t) ==
  /\ pc[t] = "rd_loop"
  /\ r_wait' = r_wait - 1
  /\ GrantRead(t)

RdlockLoop(t) ==
  /\ pc[t] = "rd_loop"
  /\ IF WritersPresent
       THEN WaitRead(t) /\ UNCHANGED r_wait
       ELSE GrantRead(t) /\ r_wait' = r_wait - 1

(* The wait itself fails: status # 0, the thread leaves without the lock.  *)
(* On the first turn of the loop r_wait goes up and down again.            *)
RdlockWaitFails(t) ==
  /\ WaitErrors
  /\ pc[t] \in {"rd_test", "rd_loop"}
  /\ WritersPresent
  /\ r_wait' = IF pc[t] = "rd_loop" THEN r_wait - 1 ELSE r_wait
  /\ Goto(t, "unlock")
  /\ UNCHANGED <<r_active, w_active, w_wait, valid, live, mutex, conds, held>>

-----------------------------------------------------------------------------
(* bf_sys_rw_mutex_lock_wrlock *)

WrlockCall(t) ==
  /\ MayEnter(t)
  /\ held[t] = "none"
  /\ valid = 1
  /\ Call(t, Writers, "wr_lock")
  /\ UNCHANGED counters

(* A mutant: an active writer is overlooked. *)
AnyoneActive_ReadersOnly == r_active > 0

AnyoneActive == w_active > 0 \/ r_active > 0

WaitWrite(t) ==
  /\ writeCV' = writeCV \cup {t}
  /\ mutex' = NoThread
  /\ Goto(t, "wr_wait")
  /\ UNCHANGED <<r_active, r_wait, w_active, valid, live, readCV, held>>

GrantWrite(t) ==
  /\ w_active' = w_active + 1
  /\ Grant(t, "write")
  /\ Goto(t, "unlock")
  /\ UNCHANGED <<r_active, r_wait, valid, live, mutex, conds>>

WrlockTest(t) ==
  /\ pc[t] = "wr_test"
  /\ IF AnyoneActive
       THEN WaitWrite(t) /\ w_wait' = w_wait + 1
       ELSE GrantWrite(t) /\ UNCHANGED w_wait

(* A mutant: w_wait-- forgotten on the way out of the loop. *)
WrlockLoop_KeepsWaiting(t) ==
  /\ pc[t] = "wr_loop"
  /\ IF AnyoneActive THEN WaitWrite(t) ELSE GrantWrite(t)
  /\ UNCHANGED w_wait

WrlockLoop(t) ==
  /\ pc[t] = "wr_loop"
  /\ IF AnyoneActive
       THEN WaitWrite(t) /\ UNCHANGED w_wait
       ELSE GrantWrite(t) /\ w_wait' = w_wait - 1

WrlockWaitFails(t) ==
  /\ WaitErrors
  /\ pc[t] \in {"wr_test", "wr_loop"}
  /\ AnyoneActive
  /\ w_wait' = IF pc[t] = "wr_loop" THEN w_wait - 1 ELSE w_wait
  /\ Goto(t, "unlock")
  /\ UNCHANGED <<r_active, w_active, r_wait, valid, live, mutex, conds, held>>

-----------------------------------------------------------------------------
(* bf_sys_rw_mutex_lock_rdunlock *)

RdunlockCall(t) ==
  /\ held[t] = "read"
  /\ valid = 1
  /\ Call(t, Readers, "ru_lock")
  /\ UNCHANGED counters

(* A mutant: the writers are never woken by the last reader. *)
RdunlockBody_NoSignal(t) ==
  /\ pc[t] = "ru_body"
  /\ r_active' = r_active - 1
  /\ Grant(t, "none")
  /\ Goto(t, "unlock")
  /\ UNCHANGED <<w_active, r_wait, w_wait, valid, live, mutex, conds>>

RdunlockBody(t) ==
  /\ pc[t] = "ru_body"
  /\ r_active' = r_active - 1
  /\ Grant(t, "none")
  /\ IF r_active' = 0 /\ w_wait > 0 THEN SignalWrite ELSE UNCHANGED writeCV
  /\ Goto(t, "unlock")
  /\ UNCHANGED <<w_active, r_wait, w_wait, valid, live, mutex, readCV>>

-----------------------------------------------------------------------------
(* bf_sys_rw_mutex_lock_wrunlock *)

WrunlockCall(t) ==
  /\ held[t] = "write"
  /\ valid = 1
  /\ Call(t, Writers, "wu_lock")
  /\ UNCHANGED counters

(* A mutant: one reader is signalled where all are to be woken. *)
WrunlockWake_OneReader ==
  \/ w_wait > 0 /\ SignalWrite /\ UNCHANGED readCV
  \/ /\ w_wait = 0 /\ r_wait > 0 /\ UNCHANGED writeCV
     /\ IF readCV = {} THEN UNCHANGED readCV
                       ELSE \E t \in readCV : readCV' = readCV \ {t}
  \/ w_wait = 0 /\ r_wait = 0 /\ UNCHANGED conds

WrunlockWake ==
  \/ w_wait > 0 /\ SignalWrite /\ UNCHANGED readCV
  \/ w_wait = 0 /\ r_wait > 0 /\ BroadcastRead /\ UNCHANGED writeCV
  \/ w_wait = 0 /\ r_wait = 0 /\ UNCHANGED conds

WrunlockBody(t) ==
  /\ pc[t] = "wu_body"
  /\ w_active' = 0
  /\ Grant(t, "none")
  /\ WrunlockWake
  /\ Goto(t, "unlock")
  /\ UNCHANGED <<r_active, r_wait, w_wait, valid, live, mutex>>

-----------------------------------------------------------------------------
LockCall(t)   == RdlockCall(t) \/ WrlockCall(t)
UnlockCall(t) == RdunlockCall(t) \/ WrunlockCall(t)

(* The steps a thread takes on its own, once it has made a call. *)
Body(t) ==
  \/ RdlockTest(t) \/ RdlockLoop(t) \/ RdunlockBody(t)
  \/ WrlockTest(t) \/ WrlockLoop(t) \/ WrunlockBody(t)
  \/ DelTest(t) \/ DelDestroy(t) \/ Unlock(t)
  \/ InitMutex(t) \/ InitRead(t) \/ InitWrite(t)

WaitFails(t) == RdlockWaitFails(t) \/ WrlockWaitFails(t)

Step(t) ==
  \/ InitCall(t) \/ DelCall(t) \/ LockCall(t) \/ UnlockCall(t)
  \/ Lock(t) \/ Body(t) \/ WaitFails(t) \/ SpuriousWakeup(t)

Next == \E t \in Threads : Step(t)

Spec == Init /\ [][Next]_vars

(***************************************************************************)
(* A thread inside a call keeps running; a client that holds the lock      *)
(* gives it back; and the mutex is not withheld for ever from a thread     *)
(* that keeps finding it free.  Nobody has to make a new call, and no      *)
(* wakeup has to be spurious.                                              *)
(***************************************************************************)
Fairness ==
  \A t \in Threads :
    WF_vars(Body(t)) /\ SF_vars(UnlockCall(t)) /\ SF_vars(Lock(t))

FairSpec == Spec /\ Fairness

-----------------------------------------------------------------------------
(* Safety *)

Holders(mode) == {t \in Threads : held[t] = mode}
WaitingReaders == {t \in Threads : pc[t] \in {"rd_wait", "rd_loop"}}
WaitingWriters == {t \in Threads : pc[t] \in {"wr_wait", "wr_loop"}}

(* While rdlock/wrlock grants are outstanding, a writer is alone: neither  *)
(* a second writer nor a reader has been let in.                           *)
MutualExclusion ==
  \A t, u \in Threads :
    held[t] = "write" /\ u # t => held[u] = "none"

(* The four counters, which every decision of the code is taken from, say  *)
(* how many threads hold the lock and how many are in the wait loops of    *)
(* rdlock and wrlock.                                                      *)
CountersAgree ==
  /\ r_active = Cardinality(Holders("read"))
  /\ w_active = Cardinality(Holders("write"))
  /\ r_wait = Cardinality(WaitingReaders)
  /\ w_wait = Cardinality(WaitingWriters)

(* No lost wakeup of a writer: as long as one is blocked in wrlock, either *)
(* the lock is taken, so that an unlock is still to come, or another       *)
(* waiting writer is already awake and will look at the lock again.        *)
WriterNotStranded ==
  writeCV # {} =>
    \/ Holders("read") \cup Holders("write") # {}
    \/ WaitingWriters \ writeCV # {}

(* No lost wakeup of a reader: one is blocked in rdlock only as long as a  *)
(* writer has the lock or waits for it.                                    *)
ReaderNotStranded ==
  readCV # {} => Holders("write") # {} \/ WaitingWriters # {}

(* del takes the lock away only when it is idle: once its busy checks have *)
(* passed, no other thread is anywhere inside rdlock, wrlock or an unlock, *)
(* and none holds the lock.                                                *)
DelExcludesUsers ==
  \A t \in Threads :
    pc[t] \in {"del_unlock", "del_destroy"} =>
      \A u \in Threads \ {t} : held[u] = "none" /\ pc[u] = "idle"

(* No thread is about to use the mutex or a condition variable after del   *)
(* has destroyed it, or before init has made all three.                    *)
NoUseAfterDestroy ==
  \A t \in Threads :
    pc[t] \in PCs \ (InitPCs \cup {"idle"}) => live = Objects

(* A reader is let in only while no writer is in its wait loop, so a       *)
(* stream of readers cannot overtake a writer that has started to wait.    *)
WritersGoFirst ==
  [][\A t \in Threads :
       (held[t] = "none" /\ held'[t] = "read") => WaitingWriters = {}]_vars

-----------------------------------------------------------------------------
(* Liveness *)

(* If clients stop asking, everyone who waits is served: no thread stays   *)
(* in rdlock or wrlock with nobody left to wake it.                        *)
EveryCallReturns ==
  <>[][\A t \in Threads : ~LockCall(t) /\ ~InitCall(t) /\ ~DelCall(t)]_vars
    => \A t \in Threads : []<>(pc[t] = "idle")

(* While writers ask or wait, one of them gets the lock, whatever writers  *)
(* come anew and take it before the one that was signalled wakes up.       *)
SomeWriterIsServed ==
  (\E t \in Writers : pc[t] \in {"wr_lock", "wr_wait", "wr_loop"})
    ~> (\E t \in Writers : held[t] = "write")

(* Readers that keep coming do not starve a writer: once no other writer   *)
(* asks, one that has called wrlock gets the lock.                         *)
WriterIsServed ==
  \A t \in Writers :
    <>[][\A u \in Writers \ {t} : ~WrlockCall(u)]_vars
      => (pc[t] = "wr_lock" ~> held[t] = "write")

-----------------------------------------------------------------------------
(* The lock seen from its clients: it is open while `valid' is 1, and a    *)
(* thread waits from the step that counts it in r_wait or w_wait to the    *)
(* one that grants it the lock.                                            *)
Abstract == INSTANCE ReadWriteLock WITH
  open      <- (valid = 1),
  waitRead  <- WaitingReaders,
  waitWrite <- WaitingWriters

(* Every behaviour of the lock is one the abstract lock allows.            *)
ImplementsReadWriteLock == Abstract!Spec

(* ... and the lock is as fair to those who wait as the abstract one.      *)
ImplementsFairReadWriteLock == Abstract!FairSpec
=============================================================================
