------------------------ MODULE PthreadObjectsProofs ------------------------
(***************************************************************************)
(* Proofs about PthreadObjects, for any number of threads and places on    *)
(* the heap.  The properties are no invariants by themselves: that a lock  *)
(* is not destroyed under its owner rests on what pthread_mutex_destroy    *)
(* refuses and on what clients wait for, so IInv adds who can be in which  *)
(* call of which kind, and that what is live is the object of the handle.  *)
(***************************************************************************)
EXTENDS PthreadObjects, TLAPS

(* What threads are doing fits the kind of the object. *)
CallsFit ==
  /\ waiting # {} => kind = "cond"
  /\ \A t \in waiting : op[t] = <<"cond_wait", "forever">>
  /\ \A t \in Threads : op[t] # None => held[t] < MaxHeld
  /\ kind = "sem" => \A t \in Threads : held[t] = 0

(* The handle in use has the only live object, and nobody uses another.    *)
ObjectInUse ==
  /\ usable => ptr # NULL /\ heap[ptr] = "live"
  /\ ~usable => \A t \in Threads : op[t] = None /\ (kind # "cond" => held[t] = 0)
  /\ \A b \in Blocks : heap[b] = "live" => usable /\ ptr = b
  /\ \A b \in Blocks : heap[b] = "raw" => kind \in {"mutex", "rmutex", "rwlock"}

IInv == TypeOK /\ CallsFit /\ ObjectInUse

-----------------------------------------------------------------------------
(* Which calls there are for which kind. *)
LEMMA CallsByKind ==
  ASSUME NEW k \in {"mutex", "rmutex", "cond", "sem", "rwlock"}, NEW o \in Ops[k]
  PROVE  /\ o # None
         /\ o[1] = "wait" <=> k = "sem"
         /\ o[1] = "cond_wait" => k = "cond" /\ o = <<"cond_wait", "forever">>
<1>1. CASE k = "mutex"  BY <1>1 DEF Ops, Exclusive, None
<1>2. CASE k = "rmutex" BY <1>2 DEF Ops, Exclusive, None
<1>3. CASE k = "cond"   BY <1>3 DEF Ops, None
<1>4. CASE k = "sem"    BY <1>4 DEF Ops, None
<1>5. CASE k = "rwlock" BY <1>5 DEF Ops, Exclusive, Shared, None
<1> QED BY <1>1, <1>2, <1>3, <1>4, <1>5

(* A thread woken from the condition variable asks for the mutex. *)
LEMMA WokenAskForMutex == <<"lock", "forever">> \in Ops["cond"]
BY DEF Ops

(* The calls threads are in are calls of this kind of object. *)
LEMMA CallsAreOfKind ==
  ASSUME TypeOK, NEW t \in Threads, op[t] # None
  PROVE  /\ op[t] \in Ops[kind]
         /\ op[t][1] = "wait" <=> kind = "sem"
         /\ op[t][1] = "cond_wait" => kind = "cond" /\ op[t] = <<"cond_wait", "forever">>
<1>1. op[t] \in Ops[kind] BY DEF TypeOK
<1>2. kind \in {"mutex", "rmutex", "cond", "sem", "rwlock"}
  BY ObjectAssumption DEF TypeOK
<1> QED BY <1>1, <1>2, CallsByKind

-----------------------------------------------------------------------------
(* A handle that has never been initialized: no object, and no calls. *)
LEMMA InvariantHoldsInitially == Init => IInv
<1> SUFFICES ASSUME Init PROVE IInv OBVIOUS
<1>1. TypeOK
  <2>1. op \in [Threads -> Ops[kind] \cup {None}] BY DEF Init
  <2>2. heap \in [Blocks -> {"free", "raw", "live"}] BY DEF Init
  <2>3. held \in [Threads -> 0 .. MaxHeld] BY ObjectAssumption DEF Init
  <2>4. value \in 0 .. MaxHeld BY ObjectAssumption DEF Init
  <2> QED BY <2>1, <2>2, <2>3, <2>4, Zenon DEF Init, TypeOK
<1>2. CallsFit BY DEF Init, CallsFit
<1>3. ObjectInUse BY DEF Init, ObjectInUse
<1> QED BY <1>1, <1>2, <1>3 DEF IInv

(* The steps that change the object keep the invariant: init, which makes  *)
(* one only when there is none in use, and del, which frees it when nobody *)
(* has it or is in a call on it.                                           *)
LEMMA ObjectStep ==
  ASSUME IInv, InitNoMemory \/ InitOk \/ InitFails \/ Del \/ RwlockDel
  PROVE  IInv'
<1> USE ObjectAssumption DEF IInv, object, locks
<1>1. CASE InitNoMemory
  BY <1>1 DEF InitNoMemory, TypeOK, CallsFit, ObjectInUse
<1>2. CASE InitOk
  <2>1. PICK b \in Blocks : /\ heap[b] = "free"
                            /\ heap' = [heap EXCEPT ![b] = "live"]
                            /\ ptr' = b
    BY <1>2 DEF InitOk
  <2>2. /\ ~usable /\ usable' = TRUE /\ value' \in 0 .. MaxHeld
        /\ UNCHANGED <<kind, op, held, excl, waiting>>
    BY <1>2 DEF InitOk
  <2>3. TypeOK' BY <2>1, <2>2 DEF TypeOK
  <2>4. CallsFit' BY <2>2 DEF CallsFit
  <2>5. ObjectInUse'
    BY <2>1, <2>2 DEF TypeOK, ObjectInUse
  <2> QED BY <2>3, <2>4, <2>5
<1>3. CASE InitFails
  <2>1. PICK b \in Blocks :
          heap[b] = "free" /\ (LockInitFails(b) \/ CondInitFails \/ SemInitFails(b))
    BY <1>3 DEF InitFails
  <2>2. ~usable /\ UNCHANGED <<kind, usable, op, locks>> BY <1>3 DEF InitFails
  <2>3. CASE LockInitFails(b)
    BY <2>1, <2>2, <2>3 DEF LockInitFails, TypeOK, CallsFit, ObjectInUse
  <2>4. CASE CondInitFails
    BY <2>2, <2>4 DEF CondInitFails, TypeOK, CallsFit, ObjectInUse
  <2>5. CASE SemInitFails(b)
    BY <2>2, <2>5 DEF SemInitFails, TypeOK, CallsFit, ObjectInUse
  <2> QED BY <2>1, <2>3, <2>4, <2>5
<1>4. ASSUME Delete, ptr' = NULL \/ (kind = "rwlock" /\ UNCHANGED ptr)
      PROVE  IInv'
  <2>1. /\ usable /\ usable' = FALSE /\ heap' = [heap EXCEPT ![ptr] = "free"]
        /\ UNCHANGED <<kind, op, locks>>
    BY <1>4 DEF Delete, MayDelete
  <2>2. \A t \in Threads : op[t] = None BY <1>4 DEF Delete, MayDelete
  <2>3. kind # "cond" => \A t \in Threads : held[t] = 0
    <3>1. kind \in {"mutex", "rmutex", "rwlock"} => Holders = {}
      BY <1>4 DEF Delete, MayDelete, Busy
    <3>2. kind \in {"mutex", "rmutex", "cond", "sem", "rwlock"} BY DEF TypeOK
    <3> QED BY <3>1, <3>2 DEF Holders, CallsFit, TypeOK
  <2>4. ptr \in Blocks BY <2>1 DEF TypeOK, ObjectInUse
  <2>5. TypeOK' BY <1>4, <2>1 DEF TypeOK
  <2>6. CallsFit' BY <2>1 DEF CallsFit
  <2>7. ObjectInUse' BY <2>1, <2>2, <2>3, <2>4 DEF TypeOK, ObjectInUse
  <2> QED BY <2>5, <2>6, <2>7
<1>5. CASE Del BY <1>4, <1>5 DEF Del
<1>6. CASE RwlockDel BY <1>4, <1>6 DEF RwlockDel
<1> QED BY <1>1, <1>2, <1>3, <1>5, <1>6

(* So do the calls, which leave the object alone. *)
LEMMA CallStep ==
  ASSUME IInv, NEW t \in Threads,
         \/ \E o \in Ops[kind] : Enter(t, o)
         \/ Granted(t) \/ Refused(t) \/ CondWait(t) \/ Unlock(t)
  PROVE  IInv'
<1> USE ObjectAssumption DEF IInv, object, locks, Return
<1>1. kind \in {"mutex", "rmutex", "cond", "sem", "rwlock"} BY DEF TypeOK
<1>2. ASSUME NEW o \in Ops[kind], Enter(t, o) PROVE IInv'
  <2>1. o # None BY <1>1, CallsByKind
  <2>2. TypeOK' BY <1>2 DEF Enter, TypeOK
  <2>3. CallsFit' BY <1>2, <2>1 DEF Enter, CallsFit, TypeOK, None
  <2>4. ObjectInUse' BY <1>2 DEF Enter, ObjectInUse
  <2> QED BY <2>2, <2>3, <2>4
<1>3. CASE Granted(t)
  <2>1. op[t] # None BY <1>3 DEF Granted, Admits, None
  <2>2. /\ op[t][1] = "wait" <=> kind = "sem"
        /\ op[t][1] # "cond_wait"
    BY <2>1, <1>3, CallsAreOfKind DEF Granted, Admits
  <2>3. usable /\ UNCHANGED <<object, waiting>> BY <1>3, <2>1 DEF Granted, ObjectInUse
  <2>4. t \notin waiting BY <2>2 DEF CallsFit
  <2>5. TypeOK'
    <3>1. value' \in 0 .. MaxHeld BY <1>3, <2>2 DEF Granted, Admits, TypeOK
    <3>2. held' \in [Threads -> 0 .. MaxHeld]
      BY <1>3, <2>1 DEF Granted, TypeOK, CallsFit
    <3>4. excl' \in BOOLEAN
      BY <1>3, Zenon DEF Granted, TypeOK
    <3>3. op' \in [Threads -> Ops[kind] \cup {None}] BY <1>3 DEF Granted, TypeOK
    <3> QED BY <2>3, <3>1, <3>2, <3>3, <3>4 DEF TypeOK
  <2>6. CallsFit' BY <1>3, <2>3, <2>4 DEF Granted, CallsFit, TypeOK
  <2>7. ObjectInUse' BY <2>3 DEF ObjectInUse
  <2> QED BY <2>5, <2>6, <2>7
<1>4. CASE Refused(t)
  BY <1>4 DEF Refused, TypeOK, CallsFit, ObjectInUse
<1>5. CASE CondWait(t)
  <2>1. op[t] # None BY <1>5 DEF CondWait, None
  <2>2. kind = "cond" /\ op[t] = <<"cond_wait", "forever">>
    BY <1>5, <2>1, CallsAreOfKind DEF CondWait
  <2> QED BY <1>5, <2>2 DEF CondWait, TypeOK, CallsFit, ObjectInUse
<1>6. CASE Unlock(t)
  BY <1>6 DEF Unlock, TypeOK, CallsFit, ObjectInUse
<1> QED BY <1>2, <1>3, <1>4, <1>5, <1>6

(* And waking and posting. *)
LEMMA SignalStep ==
  ASSUME IInv, Wake \/ Post
  PROVE  IInv'
<1> USE ObjectAssumption DEF IInv, object, locks
<1>1. CASE Wake
  <2>1. PICK woken \in {{t} : t \in waiting} \cup ({waiting} \ {{}}) :
          /\ waiting' = waiting \ woken
          /\ op' = [t \in Threads |-> IF t \in woken THEN <<"lock", "forever">> ELSE op[t]]
    BY <1>1 DEF Wake
  <2>2. UNCHANGED <<object, held, excl, value>> BY <1>1 DEF Wake
  <2>3. woken \subseteq waiting /\ waiting # {} OBVIOUS
  <2>4. kind = "cond" BY <2>3 DEF CallsFit
  <2>5. TypeOK' BY <2>1, <2>2, <2>4, WokenAskForMutex DEF TypeOK
  <2>6. CallsFit'
    BY <2>1, <2>2, <2>3, <2>4 DEF CallsFit, TypeOK, None
  <2>7. usable BY <2>3 DEF CallsFit, ObjectInUse, TypeOK, None
  <2>8. ObjectInUse'
    BY <2>2, <2>7 DEF ObjectInUse
  <2> QED BY <2>5, <2>6, <2>8
<1>2. CASE Post
  BY <1>2 DEF Post, TypeOK, CallsFit, ObjectInUse
<1> QED BY <1>1, <1>2

(* IInv holds in every reachable state, for any number of threads. *)
THEOREM Invariance == Spec => []IInv
<1>1. Init => IInv BY InvariantHoldsInitially
<1>2. IInv /\ [Next]_vars => IInv'
  <2> SUFFICES ASSUME IInv, [Next]_vars PROVE IInv' OBVIOUS
  <2>1. CASE Next BY <2>1, ObjectStep, CallStep, SignalStep DEF Next
  <2>2. CASE UNCHANGED vars
    BY <2>2 DEF vars, object, locks, IInv, TypeOK, CallsFit, ObjectInUse
  <2> QED BY <2>1, <2>2
<1> QED BY <1>1, <1>2, PTL DEF Spec

-----------------------------------------------------------------------------
(* The types: no thread takes a lock more often than it may, a semaphore   *)
(* does not go below zero, and threads are only in calls of the kind.      *)
THEOREM TypeCorrectness == Spec => []TypeOK
<1>1. IInv => TypeOK BY DEF IInv
<1> QED BY <1>1, Invariance, PTL

(* No thread is in a call on an object, or has a lock, that is freed,      *)
(* though bf_sys_mutex_del is called without asking who has the mutex.     *)
THEOREM NothingIsUsedAfterFree == Spec => []NoUseAfterFree
<1>1. IInv => NoUseAfterFree
  BY DEF IInv, NoUseAfterFree, ObjectInUse, TypeOK
<1> QED BY <1>1, Invariance, PTL

(* Nothing leaks but the memory of locks that pthread could not initialize. *)
THEOREM OnlyFailuresLeak == Spec => []OnlyFailedLocksLeak
<1>1. IInv => OnlyFailedLocksLeak
  BY DEF IInv, OnlyFailedLocksLeak, ObjectInUse, TypeOK
<1> QED BY <1>1, Invariance, PTL
=============================================================================
