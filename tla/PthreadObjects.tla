--------------------------- MODULE PthreadObjects ---------------------------
(***************************************************************************)
(* The wrappers of pthread objects in bf_sys_sem.c: a handle that points   *)
(* to an object on the heap, which init allocates and del frees, and the   *)
(* calls in between, handed on to pthread.  One handle is followed, of any *)
(* of the five kinds.  With kind "cond" it is the condition variable of a  *)
(* monitor whose mutex exists throughout.                                  *)
(***************************************************************************)
EXTENDS Integers, FiniteSets

CONSTANTS
  Threads,
  Kinds,      \* the kinds of handle that are followed
  Blocks,     \* the places on the heap
  MaxHeld,    \* how often a thread takes a lock it has, and how far a semaphore counts
  NULL

ASSUME ObjectAssumption ==
  /\ Kinds \subseteq {"mutex", "rmutex", "cond", "sem", "rwlock"}
  /\ NULL \notin Blocks
  /\ MaxHeld \in Nat \ {0}

VARIABLES
  kind,
  ptr,      \* the handle
  heap,     \* each place: "free", "raw" (allocated) or "live" (an initialized object)
  usable,   \* clients: init has returned 0, and del has not
  op,       \* per thread, the call it is in: <<mode, patience>>
  held,     \* how often it has the lock
  excl,     \* whether who has the lock keeps all others out
  value,    \* of the semaphore
  waiting   \* the threads blocked on the condition variable

object == <<kind, ptr, heap, usable>>
locks  == <<held, excl, value, waiting>>
vars   == <<object, op, locks>>

None == <<"none", "none">>

Exclusive == {<<"lock", p>> : p \in {"forever", "try", "timed"}}
Shared    == {<<"rdlock", p>> : p \in {"forever", "try", "timed"}}

(* The functions there are for each kind. *)
Ops ==
  [mutex  |-> Exclusive,
   rmutex |-> Exclusive \ {<<"lock", "timed">>},
   rwlock |-> Exclusive \cup Shared,
   sem    |-> {<<"wait", "forever">>, <<"wait", "try">>},
   cond   |-> {<<"lock", "forever">>, <<"cond_wait", "forever">>}]

TypeOK ==
  /\ kind \in Kinds
  /\ ptr \in Blocks \cup {NULL}
  /\ heap \in [Blocks -> {"free", "raw", "live"}]
  /\ usable \in BOOLEAN
  /\ op \in [Threads -> Ops[kind] \cup {None}]
  /\ held \in [Threads -> 0 .. MaxHeld]
  /\ excl \in BOOLEAN /\ value \in 0 .. MaxHeld
  /\ waiting \subseteq Threads

Init ==
  /\ kind \in Kinds
  /\ ptr = NULL /\ heap = [b \in Blocks |-> "free"] /\ usable = FALSE
  /\ op = [t \in Threads |-> None]
  /\ held = [t \in Threads |-> 0]
  /\ excl = FALSE /\ value = 0 /\ waiting = {}

Holders == {t \in Threads : held[t] > 0}

-----------------------------------------------------------------------------
(* init and del.  Clients call init on a handle that is not in use, and    *)
(* del when no thread is in a call on it: one that waits for a mutex is    *)
(* not seen by pthread_mutex_destroy once the owner has given it back.     *)

InitNoMemory ==
  /\ ~usable
  /\ ptr' = IF kind \in {"mutex", "rwlock"} THEN NULL ELSE ptr
  /\ UNCHANGED <<kind, heap, usable, op, locks>>

InitOk ==
  /\ ~usable
  /\ \E b \in Blocks :
       /\ heap[b] = "free"
       /\ heap' = [heap EXCEPT ![b] = "live"]
       /\ ptr' = b
  /\ value' \in IF kind = "sem" THEN 0 .. MaxHeld ELSE {0}
  /\ usable' = TRUE
  /\ UNCHANGED <<kind, op, held, excl, waiting>>

(* A mutant: the memory stays. *)
SemInitFails_KeepsMemory(b) == kind = "sem" /\ ptr' = NULL /\ heap' = [heap EXCEPT ![b] = "raw"]

SemInitFails(b) == kind = "sem" /\ ptr' = NULL /\ UNCHANGED heap

CondInitFails == kind = "cond" /\ UNCHANGED <<heap, ptr>>

(* The locks leave the handle pointing to memory that is no object, on     *)
(* which del could not be called.                                          *)
LockInitFails(b) ==
  /\ kind \in {"mutex", "rmutex", "rwlock"}
  /\ heap' = [heap EXCEPT ![b] = "raw"]
  /\ ptr' = b

(* The pthread function fails. *)
InitFails ==
  /\ ~usable
  /\ \E b \in Blocks : heap[b] = "free" /\ (LockInitFails(b) \/ CondInitFails \/ SemInitFails(b))
  /\ UNCHANGED <<kind, usable, op, locks>>

(* Holders of a mutex need not be waited for, those of a rwlock do. *)
MayDelete ==
  /\ usable
  /\ \A t \in Threads : op[t] = None
  /\ kind = "rwlock" => Holders = {}

(* A mutant: the error of pthread_mutex_destroy is ignored. *)
Busy_Ignored == FALSE

(* EBUSY of pthread_mutex_destroy. *)
Busy == kind \in {"mutex", "rmutex"} /\ Holders # {}

(* A del that is refused changes nothing. *)
Delete ==
  /\ MayDelete /\ ~Busy
  /\ heap' = [heap EXCEPT ![ptr] = "free"]
  /\ usable' = FALSE
  /\ UNCHANGED <<kind, op, locks>>

Del == kind # "rwlock" /\ Delete /\ ptr' = NULL

RwlockDel == kind = "rwlock" /\ Delete /\ UNCHANGED ptr

-----------------------------------------------------------------------------
(* Locking, waiting, posting.  Clients wait on the condition variable with *)
(* the mutex locked, and do not ask for the write lock while they read.    *)

Enter(t, o) ==
  /\ usable
  /\ op[t] = None /\ held[t] < MaxHeld
  /\ o[1] = "cond_wait" => held[t] > 0
  /\ kind = "cond" /\ o[1] = "lock" => held[t] = 0
  /\ kind = "rwlock" /\ o[1] = "lock" /\ held[t] > 0 => excl
  /\ op' = [op EXCEPT ![t] = o]
  /\ UNCHANGED <<object, locks>>

Return(t) == op' = [op EXCEPT ![t] = None]

(* Whether pthread can give t what it asks for. *)
Admits(t) ==
  \/ op[t][1] = "wait" /\ value > 0
  \/ op[t][1] = "rdlock" /\ (Holders = {} \/ ~excl)
  \/ op[t][1] = "lock" /\ (Holders = {} \/ (kind = "rmutex" /\ Holders = {t}))

(* A mutant: the lock is taken twice. *)
Granted_Twice(t) ==
  /\ Admits(t)
  /\ IF kind = "sem" THEN value' = value - 1 /\ UNCHANGED <<held, excl>>
     ELSE /\ held' = [held EXCEPT ![t] = @ + 2]
          /\ excl' = (op[t][1] = "lock")
          /\ UNCHANGED value
  /\ Return(t)
  /\ UNCHANGED <<object, waiting>>

Granted(t) ==
  /\ Admits(t)
  /\ IF kind = "sem" THEN value' = value - 1 /\ UNCHANGED <<held, excl>>
     ELSE /\ held' = [held EXCEPT ![t] = @ + 1]
          /\ excl' = (op[t][1] = "lock")
          /\ UNCHANGED value
  /\ Return(t)
  /\ UNCHANGED <<object, waiting>>

(* A mutant: a mutex of the default kind, whose owner waits for himself. *)
Deadlk_DefaultKind(t) == kind = "rwlock" /\ excl /\ held[t] > 0

(* Who asks for a PTHREAD_MUTEX_ERRORCHECK mutex or a write lock he has.   *)
Deadlk(t) == kind \in {"mutex", "rwlock"} /\ excl /\ held[t] > 0

(* EDEADLK; EBUSY or EAGAIN of the try functions; ETIMEDOUT; EINTR of sem_wait. *)
Refused(t) ==
  /\ op[t] # None /\ op[t][1] # "cond_wait" /\ t \notin waiting
  /\ Deadlk(t) \/ kind = "sem" \/ (op[t][2] # "forever" /\ ~Admits(t))
  /\ op[t] = <<"wait", "try">> => ~Admits(t)
  /\ Return(t)
  /\ UNCHANGED <<object, locks>>

(* pthread_cond_wait gives the mutex up and blocks in one step; woken, it  *)
(* asks for the mutex again.                                               *)
CondWait(t) ==
  /\ op[t][1] = "cond_wait" /\ t \notin waiting
  /\ held' = [held EXCEPT ![t] = 0]
  /\ waiting' = waiting \cup {t}
  /\ UNCHANGED <<object, op, excl, value>>

(* bf_sys_cond_wake and bf_sys_cond_broadcast, and a wakeup for no reason. *)
Wake ==
  /\ \E woken \in {{t} : t \in waiting} \cup ({waiting} \ {{}}) :
       /\ waiting' = waiting \ woken
       /\ op' = [t \in Threads |-> IF t \in woken THEN <<"lock", "forever">> ELSE op[t]]
  /\ UNCHANGED <<object, held, excl, value>>

(* By its owner: anybody else is refused (EPERM) by the mutexes. *)
Unlock(t) ==
  /\ op[t] = None /\ held[t] > 0
  /\ held' = [held EXCEPT ![t] = @ - 1]
  /\ UNCHANGED <<object, op, excl, value, waiting>>

Post ==
  /\ usable /\ kind = "sem" /\ value < MaxHeld
  /\ value' = value + 1
  /\ UNCHANGED <<object, op, held, excl, waiting>>

Next ==
  \/ InitNoMemory \/ InitOk \/ InitFails \/ Del \/ RwlockDel
  \/ \E t \in Threads : \/ \E o \in Ops[kind] : Enter(t, o)
                        \/ Granted(t) \/ Refused(t) \/ CondWait(t) \/ Unlock(t)
  \/ Wake \/ Post

Spec == Init /\ [][Next]_vars

(* Threads keep running and give back what they hold, somebody posts and   *)
(* wakes, and who can be admitted again and again is so in the end.        *)
Fairness ==
  /\ \A t \in Threads : /\ SF_vars(Granted(t)) /\ WF_vars(Refused(t) /\ kind # "sem")
                        /\ WF_vars(CondWait(t)) /\ WF_vars(Unlock(t))
  /\ WF_vars(Wake) /\ WF_vars(Post)

FairSpec == Spec /\ Fairness

-----------------------------------------------------------------------------
(* A lock is not destroyed under the threads that have it or are in a call *)
(* on it, though clients call bf_sys_mutex_del while it may be locked.     *)
NoUseAfterFree ==
  \A t \in Threads :
    op[t] # None \/ (held[t] > 0 /\ kind # "cond") => usable /\ ptr # NULL /\ heap[ptr] = "live"

(* What is on the heap is the object of a handle in use, but for the       *)
(* memory of locks whose pthread init has failed, which nobody frees.      *)
OnlyFailedLocksLeak ==
  \A b \in Blocks : heap[b] # "free" =>
    \/ usable /\ ptr = b /\ heap[b] = "live"
    \/ heap[b] = "raw" /\ kind \in {"mutex", "rmutex", "rwlock"}

(* Nobody waits for ever, not even for himself: when clients stop calling, *)
(* each call returns.                                                      *)
EveryCallReturns ==
  <>[][\A t \in Threads : \A o \in Ops[kind] : ~Enter(t, o)]_vars
    => \A t \in Threads : []<>(op[t] = None)
=============================================================================
