------------------------- MODULE RwMutexLockProofs -------------------------
(***************************************************************************)
(* What is proved of RwMutexLock for any number of threads: type           *)
(* correctness, mutual exclusion, the agreement of the counters with the   *)
(* threads they count, the absence of lost wakeups, the safety of del, and *)
(* the refinement of ReadWriteLock.  The clients are Coordinated.          *)
(***************************************************************************)
EXTENDS RwMutexLock, FiniteSetTheorems, TLAPS

(* The labels at which a thread owns the mutex. *)
OwnerPCs == {"unlock", "rd_test", "rd_loop", "ru_body",
             "wr_test", "wr_loop", "wu_body", "del_test", "del_unlock"}

EntryPCs == {"rd_lock", "wr_lock"}
AskPCs   == {"rd_lock", "rd_test", "rd_wait", "rd_loop",
             "wr_lock", "wr_test", "wr_wait", "wr_loop"}

MutexOwned ==
  \A t \in Threads : mutex = t <=> pc[t] \in OwnerPCs

HeldFitsPC ==
  \A t \in Threads :
    /\ pc[t] \in AskPCs => held[t] = "none"
    /\ pc[t] = "ru_lock" \/ pc[t] = "ru_body" => held[t] = "read"
    /\ pc[t] = "wu_lock" \/ pc[t] = "wu_body" => held[t] = "write"

BlockedFitsPC ==
  /\ \A t \in readCV : pc[t] = "rd_wait"
  /\ \A t \in writeCV : pc[t] = "wr_wait"

(* What Coordinated clients see to. *)
ManagerAlone ==
  \A t, u \in Threads :
    t # u /\ pc[t] \in InitPCs \cup DelPCs
      => pc[u] \notin InitPCs \cup DelPCs \cup EntryPCs

(* While `valid' is not 1, nobody uses the lock but whoever builds it or   *)
(* takes it down; while it is 1, nobody does that.                         *)
ValidFitsPC ==
  \A t \in Threads :
    IF valid = 1
      THEN pc[t] \notin InitPCs \cup {"del_unlock", "del_destroy"}
      ELSE /\ held[t] = "none"
           /\ pc[t] \in InitPCs \cup {"idle", "del_unlock", "del_destroy"}

ObjectsFitPC ==
  /\ valid = 1 => live = Objects
  /\ \A t \in Threads :
       /\ pc[t] \in DelPCs => live = Objects
       /\ pc[t] = "init_mutex" => live = {}
       /\ pc[t] = "init_read"  => live = {"mutex"}
       /\ pc[t] = "init_write" => live = {"mutex", "read"}
  /\ valid = 0 /\ (\A t \in Threads : pc[t] = "idle") => live = {}

Shape ==
  /\ MutexOwned /\ HeldFitsPC /\ BlockedFitsPC
  /\ ManagerAlone /\ ValidFitsPC /\ ObjectsFitPC

IInv ==
  /\ TypeOK /\ Shape
  /\ CountersAgree /\ MutualExclusion /\ WriterNotStranded

-----------------------------------------------------------------------------
(* How a step changes the sets that the counters count. *)

(* A finite set with one element more or less.                             *)
LEMMA CardinalityOfOneMore ==
  ASSUME NEW S, IsFiniteSet(S), NEW x
  PROVE  /\ Cardinality(S) \in Nat
         /\ x \notin S => Cardinality(S \cup {x}) = Cardinality(S) + 1
         /\ x \in S => Cardinality(S \ {x}) = Cardinality(S) - 1
         /\ x \in S => Cardinality(S) > 0
         /\ Cardinality(S) = 0 => S = {}
         /\ S = {} => Cardinality(S) = 0
<1>1. Cardinality(S) \in Nat
  BY FS_CardinalityType
<1>2. x \notin S => Cardinality(S \cup {x}) = Cardinality(S) + 1
  BY FS_AddElement
<1>3. x \in S => Cardinality(S \ {x}) = Cardinality(S) - 1
  BY FS_RemoveElement
<1>4. Cardinality(S) = 0 <=> S = {}
  BY FS_EmptySet
<1> QED
  BY <1>1, <1>2, <1>3, <1>4

(* The sets that the counters count are finite.                            *)
LEMMA SetsAreFinite ==
  /\ \A mode : IsFiniteSet(Holders(mode))
  /\ IsFiniteSet(WaitingReaders) /\ IsFiniteSet(WaitingWriters)
<1> USE ThreadsAssumption
<1>1. \A mode : Holders(mode) \subseteq Threads
  BY DEF Holders
<1>2. WaitingReaders \subseteq Threads /\ WaitingWriters \subseteq Threads
  BY DEF WaitingReaders, WaitingWriters
<1> QED
  BY <1>1, <1>2, FS_Subset

(* Moving one thread's control changes the wait loops by at most that      *)
(* thread.                                                                 *)
LEMMA GotoMoves ==
  ASSUME TypeOK, NEW t \in Threads, NEW label, Goto(t, label)
  PROVE  /\ WaitingReaders' = IF label \in {"rd_wait", "rd_loop"}
                              THEN WaitingReaders \cup {t}
                              ELSE WaitingReaders \ {t}
         /\ WaitingWriters' = IF label \in {"wr_wait", "wr_loop"}
                              THEN WaitingWriters \cup {t}
                              ELSE WaitingWriters \ {t}
  BY DEF TypeOK, Goto, WaitingReaders, WaitingWriters

(* Granting or taking back the lock changes the holders by at most that    *)
(* thread.                                                                 *)
LEMMA GrantMoves ==
  ASSUME TypeOK, NEW t \in Threads, NEW mode, Grant(t, mode)
  PROVE  \A m \in {"read", "write"} :
           Holders(m)' = IF m = mode THEN Holders(m) \cup {t} ELSE Holders(m) \ {t}
  BY DEF TypeOK, Grant, Holders

(* The tests the code makes on its counters are tests on the threads.      *)
LEMMA TestsAreRight ==
  ASSUME CountersAgree
  PROVE  /\ WritersPresent <=> Holders("write") \cup WaitingWriters # {}
         /\ AnyoneActive <=> Holders("read") \cup Holders("write") # {}
         /\ LockInUse <=> \/ Holders("read") \cup Holders("write") # {}
                          \/ WaitingReaders \cup WaitingWriters # {}
<1>1. \A S \in {Holders("read"), Holders("write"), WaitingReaders, WaitingWriters} :
        Cardinality(S) \in Nat /\ (Cardinality(S) = 0 <=> S = {})
  BY SetsAreFinite, CardinalityOfOneMore
<1> QED
  BY <1>1 DEF CountersAgree, WritersPresent, AnyoneActive, LockInUse

-----------------------------------------------------------------------------
(* The control state keeps its types whatever the counters do. *)

CountingAction(t) ==
  \/ InitCall(t)
  \/ RdlockTest(t) \/ RdlockLoop(t) \/ RdlockWaitFails(t) \/ RdunlockBody(t)
  \/ WrlockTest(t) \/ WrlockLoop(t) \/ WrlockWaitFails(t) \/ WrunlockBody(t)

QuietAction(t) ==
  \/ Lock(t) \/ Unlock(t) \/ SpuriousWakeup(t)
  \/ InitMutex(t) \/ InitRead(t) \/ InitWrite(t)
  \/ DelCall(t) \/ DelTest(t) \/ DelDestroy(t)
  \/ LockCall(t) \/ UnlockCall(t)

(* A step is one of those that touch no counter and no holder, or one of   *)
(* those that do.                                                          *)
LEMMA StepsAreQuietOrCounting ==
  ASSUME NEW t \in Threads, Step(t)
  PROVE  QuietAction(t) \/ CountingAction(t)
  BY DEF Step, Body, WaitFails, QuietAction, CountingAction

ControlTypes ==
  /\ valid \in {0, 1}
  /\ live \subseteq Objects
  /\ mutex \in Threads \cup {NoThread}
  /\ readCV \subseteq Threads /\ writeCV \subseteq Threads
  /\ pc \in [Threads -> PCs]
  /\ held \in [Threads -> {"none", "read", "write"}]

(* Every step keeps the types of all variables but the counters, whose     *)
(* types follow from what they count.                                      *)
LEMMA TypesAreKept ==
  ASSUME TypeOK, NEW t \in Threads, Step(t)
  PROVE  ControlTypes'
<1> USE DEF TypeOK, ControlTypes, Objects, PCs, InitPCs, DelPCs, Goto, Grant, conds
<1>1. CASE QuietAction(t)
  <2>1. CASE Lock(t)
    BY <2>1 DEF Lock, AfterLock
  <2>5. CASE Unlock(t)
    BY <2>5 DEF Unlock, AfterUnlock
  <2>6. CASE SpuriousWakeup(t)
    BY <2>6 DEF SpuriousWakeup
  <2>2. CASE InitMutex(t) \/ InitRead(t) \/ InitWrite(t)
    BY <2>2 DEF InitMutex, InitRead, InitWrite, InitFails
  <2>3. CASE DelCall(t) \/ DelTest(t) \/ DelDestroy(t)
    BY <2>3 DEF DelCall, DelTest, DelDestroy, Call
  <2>4. CASE LockCall(t) \/ UnlockCall(t)
    BY <2>4 DEF LockCall, UnlockCall, RdlockCall, WrlockCall,
                RdunlockCall, WrunlockCall, Call
  <2> QED
    BY <1>1, <2>1, <2>2, <2>3, <2>4, <2>5, <2>6 DEF QuietAction
<1>2. CASE CountingAction(t)
  <2>1. CASE InitCall(t)
    BY <2>1 DEF InitCall, Call
  <2>2. CASE RdlockTest(t) \/ RdlockLoop(t) \/ RdlockWaitFails(t)
    BY <2>2 DEF RdlockTest, RdlockLoop, RdlockWaitFails, WaitRead, GrantRead
  <2>3. CASE WrlockTest(t) \/ WrlockLoop(t) \/ WrlockWaitFails(t)
    BY <2>3 DEF WrlockTest, WrlockLoop, WrlockWaitFails, WaitWrite, GrantWrite
  <2>4. CASE RdunlockBody(t)
    BY <2>4 DEF RdunlockBody, SignalWrite
  <2>5. CASE WrunlockBody(t)
    BY <2>5 DEF WrunlockBody, WrunlockWake, SignalWrite, BroadcastRead
  <2> QED
    BY <1>2, <2>1, <2>2, <2>3, <2>4, <2>5 DEF CountingAction
<1> QED
  BY <1>1, <1>2, StepsAreQuietOrCounting

-----------------------------------------------------------------------------
(* The invariant is inductive: first the steps that neither take nor give  *)
(* back the lock and that start or end no wait.                            *)

(* The quiet steps neither enter nor leave a wait loop and grant nothing.  *)
LEMMA QuietStepsCountNobody ==
  ASSUME TypeOK, NEW t \in Threads, QuietAction(t)
  PROVE  /\ UNCHANGED <<r_active, w_active, r_wait, w_wait, held>>
         /\ UNCHANGED <<WaitingReaders, WaitingWriters>>
         /\ writeCV' \subseteq writeCV
<1> USE DEF TypeOK, counters, conds
<1>1. CASE Lock(t)
  BY <1>1, GotoMoves DEF Lock, AfterLock, WaitingReaders, WaitingWriters
<1>2. CASE Unlock(t)
  BY <1>2, GotoMoves DEF Unlock, AfterUnlock, WaitingReaders, WaitingWriters
<1>3. CASE SpuriousWakeup(t)
  BY <1>3 DEF SpuriousWakeup, WaitingReaders, WaitingWriters
<1>4. CASE InitMutex(t) \/ InitRead(t) \/ InitWrite(t)
  BY <1>4, GotoMoves
  DEF InitMutex, InitRead, InitWrite, InitFails, WaitingReaders, WaitingWriters
<1>5. CASE DelCall(t) \/ DelTest(t) \/ DelDestroy(t)
  BY <1>5, GotoMoves
  DEF DelCall, DelTest, DelDestroy, Call, WaitingReaders, WaitingWriters
<1>6. CASE LockCall(t) \/ UnlockCall(t)
  BY <1>6, GotoMoves
  DEF LockCall, UnlockCall, RdlockCall, WrlockCall, RdunlockCall, WrunlockCall,
      Call, WaitingReaders, WaitingWriters
<1> QED
  BY <1>1, <1>2, <1>3, <1>4, <1>5, <1>6 DEF QuietAction

Counting == CountersAgree /\ MutualExclusion /\ WriterNotStranded

(* So they keep the counters, exclusion and the wakeups of writers.        *)
LEMMA QuietStepsKeepCounting ==
  ASSUME IInv, NEW t \in Threads, QuietAction(t)
  PROVE  Counting'
<1>1. /\ UNCHANGED <<r_active, w_active, r_wait, w_wait, held>>
      /\ UNCHANGED <<WaitingReaders, WaitingWriters>>
      /\ writeCV' \subseteq writeCV
  BY QuietStepsCountNobody DEF IInv
<1>2. Holders("read")' = Holders("read") /\ Holders("write")' = Holders("write")
  BY <1>1 DEF Holders
<1> QED
  BY <1>1, <1>2
  DEF IInv, Counting, CountersAgree, MutualExclusion, WriterNotStranded

-----------------------------------------------------------------------------
(* Then the steps that move a thread in or out of one of the four sets.    *)

(* The steps that change a counter change the set it counts in the same    *)
(* way, and keep exclusion and the wakeups of writers.                     *)
LEMMA CountingStep ==
  ASSUME IInv, NEW t \in Threads, Step(t), CountingAction(t)
  PROVE  Counting'
<1> USE DEF IInv, Shape, Counting
<1>c. \A S \in {Holders("read"), Holders("write"), WaitingReaders, WaitingWriters} :
        /\ Cardinality(S) \in Nat
        /\ t \notin S => Cardinality(S \cup {t}) = Cardinality(S) + 1
        /\ t \in S => Cardinality(S \ {t}) = Cardinality(S) - 1
        /\ t \notin S => S \ {t} = S
        /\ t \in S => S \cup {t} = S
        /\ S = {} <=> Cardinality(S) = 0
  BY SetsAreFinite, CardinalityOfOneMore
<1>t. /\ WritersPresent <=> Holders("write") \cup WaitingWriters # {}
      /\ AnyoneActive <=> Holders("read") \cup Holders("write") # {}
  BY TestsAreRight
<1>h. /\ \A mode : t \in Holders(mode) <=> held[t] = mode
      /\ t \in WaitingReaders <=> pc[t] \in {"rd_wait", "rd_loop"}
      /\ t \in WaitingWriters <=> pc[t] \in {"wr_wait", "wr_loop"}
  BY DEF Holders, WaitingReaders, WaitingWriters
<1>s. held' = held => Holders("read")' = Holders("read") /\ Holders("write")' = Holders("write")
  BY DEF Holders
<1>e. (* exclusion, in terms of the sets *)
      /\ MutualExclusion <=> /\ \A u, v \in Holders("write") : u = v
                             /\ Holders("write") # {} => Holders("read") = {}
      /\ MutualExclusion' <=> /\ \A u, v \in Holders("write")' : u = v
                              /\ Holders("write")' # {} => Holders("read")' = {}
  <2>1. /\ \A u \in Threads : held[u] \in {"none", "read", "write"}
        /\ \A u \in Threads : held'[u] \in {"none", "read", "write"}
    BY TypesAreKept DEF TypeOK, ControlTypes
  <2>2. MutualExclusion <=> /\ \A u, v \in Holders("write") : u = v
                            /\ Holders("write") # {} => Holders("read") = {}
    BY <2>1 DEF MutualExclusion, Holders
  <2>3. MutualExclusion' <=> /\ \A u, v \in Holders("write")' : u = v
                             /\ Holders("write")' # {} => Holders("read")' = {}
    BY <2>1 DEF MutualExclusion, Holders
  <2> QED
    BY <2>2, <2>3
<1>b. writeCV \subseteq WaitingWriters
  BY DEF BlockedFitsPC, TypeOK, WaitingWriters


<1>1. CASE InitCall(t)
  <2>1. \A u \in Threads : held[u] = "none" /\ pc[u] \notin {"rd_wait", "rd_loop", "wr_wait", "wr_loop"}
    BY <1>1 DEF InitCall, ValidFitsPC, InitPCs
  <2>2. Holders("read")' = {} /\ Holders("write")' = {}
    BY <1>1, <2>1 DEF InitCall, Call, Holders
  <2>3. WaitingReaders' = {} /\ WaitingWriters' = {}
    BY <1>1, <2>1 DEF InitCall, Call, Goto, TypeOK, WaitingReaders, WaitingWriters
  <2>4. writeCV' = {}
    BY <1>1, <2>1 DEF InitCall, Call, conds, BlockedFitsPC, TypeOK
  <2> QED
    BY <1>1, <1>e, <2>2, <2>3, <2>4, FS_EmptySet
    DEF InitCall, CountersAgree, WriterNotStranded
<1>2. CASE RdlockTest(t)
  <2>1. pc[t] = "rd_test" /\ held[t] = "none"
    BY <1>2 DEF RdlockTest, HeldFitsPC, AskPCs
  <2>2. CASE WritersPresent
    <3>1. WaitRead(t) /\ r_wait' = r_wait + 1
      BY <1>2, <2>2 DEF RdlockTest
    <3>2. /\ WaitingReaders' = WaitingReaders \cup {t}
          /\ WaitingWriters' = WaitingWriters
      BY <1>c, <1>h, <2>1, <3>1, GotoMoves DEF WaitRead
    <3> QED
      BY <1>c, <1>h, <1>e, <1>s, <2>1, <3>1, <3>2
      DEF WaitRead, CountersAgree, WriterNotStranded
  <2>3. CASE ~WritersPresent
    <3>1. GrantRead(t) /\ r_wait' = r_wait
      BY <1>2, <2>3 DEF RdlockTest
    <3>2. /\ WaitingReaders' = WaitingReaders
          /\ WaitingWriters' = WaitingWriters
      BY <1>c, <1>h, <2>1, <3>1, GotoMoves DEF GrantRead
    <3>3. /\ Holders("read")' = Holders("read") \cup {t}
          /\ Holders("write")' = Holders("write")
      BY <1>c, <1>h, <2>1, <3>1, GrantMoves DEF GrantRead
    <3> QED
      BY <1>c, <1>h, <1>e, <1>t, <2>1, <2>3, <3>1, <3>2, <3>3
      DEF GrantRead, CountersAgree, WriterNotStranded, conds
  <2> QED
    BY <2>2, <2>3
<1>3. CASE RdlockLoop(t)
  <2>1. pc[t] = "rd_loop" /\ held[t] = "none"
    BY <1>3 DEF RdlockLoop, HeldFitsPC, AskPCs
  <2>2. CASE WritersPresent
    <3>1. WaitRead(t) /\ r_wait' = r_wait
      BY <1>3, <2>2 DEF RdlockLoop
    <3>2. /\ WaitingReaders' = WaitingReaders
          /\ WaitingWriters' = WaitingWriters
      BY <1>c, <1>h, <2>1, <3>1, GotoMoves DEF WaitRead
    <3> QED
      BY <1>c, <1>h, <1>e, <1>s, <2>1, <3>1, <3>2
      DEF WaitRead, CountersAgree, WriterNotStranded
  <2>3. CASE ~WritersPresent
    <3>1. GrantRead(t) /\ r_wait' = r_wait - 1
      BY <1>3, <2>3 DEF RdlockLoop
    <3>2. /\ WaitingReaders' = WaitingReaders \ {t}
          /\ WaitingWriters' = WaitingWriters
      BY <1>c, <1>h, <2>1, <3>1, GotoMoves DEF GrantRead
    <3>3. /\ Holders("read")' = Holders("read") \cup {t}
          /\ Holders("write")' = Holders("write")
      BY <1>c, <1>h, <2>1, <3>1, GrantMoves DEF GrantRead
    <3> QED
      BY <1>c, <1>h, <1>e, <1>t, <2>1, <2>3, <3>1, <3>2, <3>3
      DEF GrantRead, CountersAgree, WriterNotStranded, conds
  <2> QED
    BY <2>2, <2>3
<1>4. CASE RdlockWaitFails(t)
  <2>1. WaitingWriters' = WaitingWriters
    BY <1>4, <1>c, <1>h, GotoMoves DEF RdlockWaitFails
  <2>2. WaitingReaders' = WaitingReaders \ {t}
    BY <1>4, GotoMoves DEF RdlockWaitFails
  <2>3. r_wait' = Cardinality(WaitingReaders')
    BY <1>4, <1>c, <1>h, <2>2 DEF RdlockWaitFails, CountersAgree
  <2> QED
    BY <1>4, <1>e, <1>s, <2>1, <2>3
    DEF RdlockWaitFails, CountersAgree, WriterNotStranded, conds
<1>5. CASE RdunlockBody(t)
  <2>1. pc[t] = "ru_body" /\ held[t] = "read"
    BY <1>5 DEF RdunlockBody, HeldFitsPC
  <2>2. /\ WaitingReaders' = WaitingReaders
        /\ WaitingWriters' = WaitingWriters
    BY <1>5, <1>c, <1>h, <2>1, GotoMoves DEF RdunlockBody
  <2>3. /\ Holders("read")' = Holders("read") \ {t}
        /\ Holders("write")' = Holders("write")
    <3>1. t \notin Holders("write")
      BY <1>h, <2>1
    <3>2. /\ Holders("read")' = Holders("read") \ {t}
          /\ Holders("write")' = Holders("write") \ {t}
      BY <1>5, GrantMoves DEF RdunlockBody
    <3> QED
      BY <3>1, <3>2
  <2>4. CountersAgree'
    BY <1>5, <1>c, <1>h, <2>1, <2>2, <2>3 DEF RdunlockBody, CountersAgree
  <2>5. MutualExclusion'
    BY <1>e, <2>3
  <2>6. WriterNotStranded'
    <3>1. CASE r_active' = 0 /\ w_wait > 0
      BY <1>5, <1>b, <2>2, <3>1 DEF RdunlockBody, SignalWrite, WriterNotStranded
    <3>2. CASE r_active' # 0
      <4>1. Holders("read")' # {}
        BY <2>4, <3>2, FS_EmptySet DEF CountersAgree
      <4> QED
        BY <4>1 DEF WriterNotStranded
    <3>3. CASE ~ (w_wait > 0)
      <4>1. WaitingWriters = {}
        BY <1>c, <3>3 DEF CountersAgree
      <4> QED
        BY <1>5, <1>b, <3>3, <4>1 DEF RdunlockBody, WriterNotStranded
    <3> QED
      BY <3>1, <3>2, <3>3
  <2> QED
    BY <2>4, <2>5, <2>6
<1>6. CASE WrlockTest(t)
  <2>1. pc[t] = "wr_test" /\ held[t] = "none"
    BY <1>6 DEF WrlockTest, HeldFitsPC, AskPCs
  <2>2. CASE AnyoneActive
    <3>1. WaitWrite(t) /\ w_wait' = w_wait + 1
      BY <1>6, <2>2 DEF WrlockTest
    <3>2. /\ WaitingReaders' = WaitingReaders
          /\ WaitingWriters' = WaitingWriters \cup {t}
      BY <1>c, <1>h, <2>1, <3>1, GotoMoves DEF WaitWrite
    <3> QED
      BY <1>c, <1>h, <1>e, <1>s, <1>t, <2>1, <2>2, <3>1, <3>2
      DEF WaitWrite, CountersAgree, WriterNotStranded
  <2>3. CASE ~AnyoneActive
    <3>1. GrantWrite(t) /\ w_wait' = w_wait
      BY <1>6, <2>3 DEF WrlockTest
    <3>2. /\ WaitingReaders' = WaitingReaders
          /\ WaitingWriters' = WaitingWriters
      BY <1>c, <1>h, <2>1, <3>1, GotoMoves DEF GrantWrite
    <3>3. /\ Holders("read")' = Holders("read")
          /\ Holders("write")' = Holders("write") \cup {t}
      BY <1>c, <1>h, <2>1, <3>1, GrantMoves DEF GrantWrite
    <3> QED
      BY <1>c, <1>h, <1>e, <1>t, <2>1, <2>3, <3>1, <3>2, <3>3
      DEF GrantWrite, CountersAgree, WriterNotStranded, conds
  <2> QED
    BY <2>2, <2>3
<1>7. CASE WrlockLoop(t)
  <2>1. pc[t] = "wr_loop" /\ held[t] = "none"
    BY <1>7 DEF WrlockLoop, HeldFitsPC, AskPCs
  <2>2. CASE AnyoneActive
    <3>1. WaitWrite(t) /\ w_wait' = w_wait
      BY <1>7, <2>2 DEF WrlockLoop
    <3>2. /\ WaitingReaders' = WaitingReaders
          /\ WaitingWriters' = WaitingWriters
      BY <1>c, <1>h, <2>1, <3>1, GotoMoves DEF WaitWrite
    <3> QED
      BY <1>c, <1>h, <1>e, <1>s, <1>t, <2>1, <2>2, <3>1, <3>2
      DEF WaitWrite, CountersAgree, WriterNotStranded
  <2>3. CASE ~AnyoneActive
    <3>1. GrantWrite(t) /\ w_wait' = w_wait - 1
      BY <1>7, <2>3 DEF WrlockLoop
    <3>2. /\ WaitingReaders' = WaitingReaders
          /\ WaitingWriters' = WaitingWriters \ {t}
      <4>1. t \notin WaitingReaders
        BY <1>h, <2>1
      <4>2. /\ WaitingReaders' = WaitingReaders \ {t}
            /\ WaitingWriters' = WaitingWriters \ {t}
        BY <3>1, GotoMoves DEF GrantWrite
      <4> QED
        BY <4>1, <4>2
    <3>3. /\ Holders("read")' = Holders("read")
          /\ Holders("write")' = Holders("write") \cup {t}
      BY <1>c, <1>h, <2>1, <3>1, GrantMoves DEF GrantWrite
    <3> QED
      BY <1>c, <1>h, <1>e, <1>t, <2>1, <2>3, <3>1, <3>2, <3>3
      DEF GrantWrite, CountersAgree, WriterNotStranded, conds
  <2> QED
    BY <2>2, <2>3
<1>8. CASE WrlockWaitFails(t)
  <2>1. WaitingReaders' = WaitingReaders
    <3>1. t \notin WaitingReaders
      BY <1>8, <1>h DEF WrlockWaitFails
    <3>2. WaitingReaders' = WaitingReaders \ {t}
      BY <1>8, GotoMoves DEF WrlockWaitFails
    <3> QED
      BY <3>1, <3>2
  <2>2. WaitingWriters' = WaitingWriters \ {t}
    BY <1>8, GotoMoves DEF WrlockWaitFails
  <2>3. w_wait' = Cardinality(WaitingWriters')
    BY <1>8, <1>c, <1>h, <2>2 DEF WrlockWaitFails, CountersAgree
  <2> QED
    BY <1>8, <1>e, <1>s, <1>t, <2>1, <2>3
    DEF WrlockWaitFails, CountersAgree, WriterNotStranded, conds
<1>9. CASE WrunlockBody(t)
  <2>1. pc[t] = "wu_body" /\ held[t] = "write"
    BY <1>9 DEF WrunlockBody, HeldFitsPC
  <2>2. /\ WaitingReaders' = WaitingReaders
        /\ WaitingWriters' = WaitingWriters
    BY <1>9, <1>c, <1>h, <2>1, GotoMoves DEF WrunlockBody
  <2>3. Holders("read")' = {} /\ Holders("write")' = {}
    BY <1>9, <1>c, <1>h, <1>e, <2>1, GrantMoves DEF WrunlockBody
  <2>4. CountersAgree'
    BY <1>9, <1>e, <1>h, <2>1, <2>2, <2>3, FS_EmptySet DEF WrunlockBody, CountersAgree
  <2>5. MutualExclusion'
    BY <1>e, <2>3
  <2>6. WriterNotStranded'
    BY <1>9, <1>b, <1>c, <2>2
    DEF WrunlockBody, WrunlockWake, SignalWrite, conds, CountersAgree, WriterNotStranded
  <2> QED
    BY <2>4, <2>5, <2>6
<1> QED
  BY <1>1, <1>2, <1>3, <1>4, <1>5, <1>6, <1>7, <1>8, <1>9 DEF CountingAction

-----------------------------------------------------------------------------
(* The shape of the control state, one step per action. *)

(* Every step keeps the facts that tie the mutex, valid and the objects to *)
(* where the threads are.  Here the clients' coordination is used.         *)
LEMMA ShapeStep ==
  ASSUME IInv, Coordinated, NEW t \in Threads, Step(t)
  PROVE  Shape'
<1> USE ThreadsAssumption
    DEF IInv, TypeOK, Shape, MutexOwned, HeldFitsPC, BlockedFitsPC, ManagerAlone,
        ValidFitsPC, ObjectsFitPC, OwnerPCs, EntryPCs, AskPCs, InitPCs, DelPCs, PCs,
        Objects, counters, conds, Goto
<1>1. CASE Lock(t)
  BY <1>1 DEF Lock, AfterLock
<1>2. CASE Unlock(t)
  BY <1>2 DEF Unlock, AfterUnlock
<1>3. CASE SpuriousWakeup(t)
  BY <1>3 DEF SpuriousWakeup
<1>4. CASE InitCall(t)
  BY <1>4 DEF InitCall, Call, MayManage, Busy
<1>5. CASE InitMutex(t)
  <2>1. CASE InitFails(t)
    BY <1>5, <2>1 DEF InitMutex, InitFails
  <2>2. CASE ~InitFails(t)
    <3>1. /\ live' = {"mutex"} /\ pc[t] = "init_mutex" /\ pc' = [pc EXCEPT ![t] = "init_read"]
          /\ UNCHANGED <<counters, valid, mutex, conds, held>>
      BY <1>5, <2>2 DEF InitMutex
    <3>2. ObjectsFitPC'
      BY <3>1
    <3> QED
      BY <3>1, <3>2
  <2> QED
    BY <2>1, <2>2
<1>6. CASE InitRead(t)
  BY <1>6 DEF InitRead, InitFails
<1>7. CASE InitWrite(t)
  BY <1>7 DEF InitWrite, InitFails
<1>8. CASE DelCall(t)
  BY <1>8 DEF DelCall, Call, MayManage, Busy
<1>9. CASE DelTest(t)
  <2>1. CASE LockInUse
    BY <1>9, <2>1 DEF DelTest
  <2>2. CASE ~LockInUse
    <3>1. \A u \in Threads :
            /\ held[u] = "none"
            /\ pc[u] \notin {"rd_wait", "rd_loop", "wr_wait", "wr_loop"}
      BY <2>2, TestsAreRight DEF Holders, WaitingReaders, WaitingWriters
    <3>2. \A u \in Threads : u # t => pc[u] = "idle"
      BY <1>9, <3>1 DEF DelTest
    <3> QED
      BY <1>9, <2>2, <3>1, <3>2 DEF DelTest
  <2> QED
    BY <2>1, <2>2
<1>10. CASE DelDestroy(t)
  BY <1>10 DEF DelDestroy
<1>11. CASE RdlockCall(t)
  BY <1>11 DEF RdlockCall, Call, MayEnter, Busy
<1>12. CASE WrlockCall(t)
  BY <1>12 DEF WrlockCall, Call, MayEnter, Busy
<1>13. CASE RdunlockCall(t)
  BY <1>13 DEF RdunlockCall, Call
<1>14. CASE WrunlockCall(t)
  BY <1>14 DEF WrunlockCall, Call
<1>15. CASE RdlockTest(t)
  BY <1>15 DEF RdlockTest, WaitRead, GrantRead, Grant
<1>16. CASE RdlockLoop(t)
  BY <1>16 DEF RdlockLoop, WaitRead, GrantRead, Grant
<1>17. CASE RdlockWaitFails(t)
  BY <1>17 DEF RdlockWaitFails
<1>18. CASE WrlockTest(t)
  BY <1>18 DEF WrlockTest, WaitWrite, GrantWrite, Grant
<1>19. CASE WrlockLoop(t)
  BY <1>19 DEF WrlockLoop, WaitWrite, GrantWrite, Grant
<1>20. CASE WrlockWaitFails(t)
  BY <1>20 DEF WrlockWaitFails
<1>21. CASE RdunlockBody(t)
  BY <1>21 DEF RdunlockBody, Grant, SignalWrite
<1>22. CASE WrunlockBody(t)
  BY <1>22 DEF WrunlockBody, Grant, WrunlockWake, SignalWrite, BroadcastRead
<1> QED
  BY <1>1, <1>2, <1>3, <1>4, <1>5, <1>6, <1>7, <1>8, <1>9, <1>10, <1>11, <1>12,
     <1>13, <1>14, <1>15, <1>16, <1>17, <1>18, <1>19, <1>20, <1>21, <1>22
  DEF Step, Body, WaitFails, LockCall, UnlockCall

(* IInv is inductive: every step of the lock keeps it.                     *)
THEOREM InvariantIsInductive ==
  ASSUME Coordinated
  PROVE  IInv /\ [Next]_vars => IInv'
<1> SUFFICES ASSUME IInv, [Next]_vars PROVE IInv'
  OBVIOUS
<1>1. CASE UNCHANGED vars
  BY <1>1
  DEF vars, counters, conds, IInv, TypeOK, Shape, MutexOwned, HeldFitsPC, BlockedFitsPC,
      ManagerAlone, ValidFitsPC, ObjectsFitPC, CountersAgree, MutualExclusion,
      WriterNotStranded, Holders, WaitingReaders, WaitingWriters
<1>2. ASSUME NEW t \in Threads, Step(t) PROVE IInv'
  <2>1. Counting'
    BY <1>2, QuietStepsKeepCounting, CountingStep, StepsAreQuietOrCounting
  <2>2. Shape'
    BY <1>2, ShapeStep
  <2>3. TypeOK'
    <3>1. \A S : IsFiniteSet(S) => Cardinality(S) \in Nat
      BY FS_CardinalityType
    <3>2. /\ IsFiniteSet(Holders("read")') /\ IsFiniteSet(Holders("write")')
          /\ IsFiniteSet(WaitingReaders') /\ IsFiniteSet(WaitingWriters')
      <4>1. /\ Holders("read")' \in SUBSET Threads /\ Holders("write")' \in SUBSET Threads
            /\ WaitingReaders' \in SUBSET Threads /\ WaitingWriters' \in SUBSET Threads
        BY DEF Holders, WaitingReaders, WaitingWriters
      <4> QED
        BY <4>1, FS_Subset, ThreadsAssumption
    <3> QED
      BY <1>2, <2>1, <3>1, <3>2, TypesAreKept
      DEF IInv, Counting, CountersAgree, TypeOK, ControlTypes
  <2> QED
    BY <2>1, <2>2, <2>3 DEF IInv, Counting
<1> QED
  BY <1>1, <1>2 DEF Next

(* A lock that has never been initialized: nobody holds it, nobody waits.  *)
LEMMA InvariantHoldsInitially == Init => IInv
<1> SUFFICES ASSUME Init PROVE IInv
  OBVIOUS
<1>1. /\ Holders("read") = {} /\ Holders("write") = {}
      /\ WaitingReaders = {} /\ WaitingWriters = {}
  BY DEF Init, Holders, WaitingReaders, WaitingWriters
<1>2. CountersAgree
  BY <1>1, FS_EmptySet DEF Init, CountersAgree
<1>3. TypeOK /\ Shape
  BY ThreadsAssumption
  DEF Init, TypeOK, Shape, MutexOwned, HeldFitsPC, BlockedFitsPC, ManagerAlone,
      ValidFitsPC, ObjectsFitPC, OwnerPCs, EntryPCs, AskPCs, InitPCs, DelPCs, PCs, Objects
<1> QED
  BY <1>2, <1>3 DEF Init, IInv, MutualExclusion, WriterNotStranded

(* IInv holds in every reachable state, for any number of threads.         *)
THEOREM Invariance ==
  ASSUME Coordinated
  PROVE  Spec => []IInv
  BY InvariantHoldsInitially, InvariantIsInductive, PTL DEF Spec

-----------------------------------------------------------------------------
(* What the invariant gives the clients. *)

(* Type correctness: in particular no counter is ever negative.            *)
THEOREM TypeCorrectness ==
  ASSUME Coordinated
  PROVE  Spec => []TypeOK
<1>1. IInv => TypeOK
  BY DEF IInv
<1> QED
  BY <1>1, Invariance, PTL

(* A writer is alone, for any number of threads, whether or not waits fail *)
(* and whatever wakeups are spurious.                                      *)
THEOREM Exclusion ==
  ASSUME Coordinated
  PROVE  Spec => []MutualExclusion
<1>1. IInv => MutualExclusion
  BY DEF IInv
<1> QED
  BY <1>1, Invariance, PTL

(* The counters the code decides by count exactly the threads that hold    *)
(* the lock and those in the wait loops.                                   *)
THEOREM CountersAreRight ==
  ASSUME Coordinated
  PROVE  Spec => []CountersAgree
<1>1. IInv => CountersAgree
  BY DEF IInv
<1> QED
  BY <1>1, Invariance, PTL

(* The wakeup of a waiting writer is never lost.                           *)
THEOREM NoLostWakeupOfWriters ==
  ASSUME Coordinated
  PROVE  Spec => []WriterNotStranded
<1>1. IInv => WriterNotStranded
  BY DEF IInv
<1> QED
  BY <1>1, Invariance, PTL

(* del takes down only an idle lock.                                       *)
THEOREM DelIsExclusive ==
  ASSUME Coordinated
  PROVE  Spec => []DelExcludesUsers
<1>1. ASSUME IInv PROVE DelExcludesUsers
  <2> SUFFICES ASSUME NEW t \in Threads, pc[t] \in {"del_unlock", "del_destroy"},
                      NEW u \in Threads \ {t}
               PROVE  held[u] = "none" /\ pc[u] = "idle"
    BY DEF DelExcludesUsers
  <2>1. held[u] = "none" /\ pc[u] \in InitPCs \cup {"idle", "del_unlock", "del_destroy"}
    BY <1>1 DEF IInv, Shape, ValidFitsPC
  <2>2. pc[u] \notin InitPCs \cup DelPCs
    BY <1>1 DEF IInv, Shape, ManagerAlone, DelPCs
  <2> QED
    BY <2>1, <2>2 DEF DelPCs
<1> QED
  BY <1>1, Invariance, PTL

(* The mutex and the condition variables exist whenever they are used.     *)
THEOREM ObjectsExistWhenUsed ==
  ASSUME Coordinated
  PROVE  Spec => []NoUseAfterDestroy
<1>1. ASSUME IInv PROVE NoUseAfterDestroy
  <2> SUFFICES ASSUME NEW t \in Threads, pc[t] \in PCs \ (InitPCs \cup {"idle"})
               PROVE  live = Objects
    BY DEF NoUseAfterDestroy
  <2>1. CASE valid = 1
    BY <1>1, <2>1 DEF IInv, Shape, ObjectsFitPC
  <2>2. CASE valid # 1
    BY <1>1, <2>2 DEF IInv, Shape, ValidFitsPC, ObjectsFitPC, DelPCs
  <2> QED
    BY <2>1, <2>2
<1> QED
  BY <1>1, Invariance, PTL

(* Readers do not overtake a waiting writer.                               *)
THEOREM WritersBeforeReaders ==
  ASSUME Coordinated
  PROVE  Spec => WritersGoFirst
<1> DEFINE Overtakes == \E t \in Threads :
                          /\ held[t] = "none" /\ held'[t] = "read"
                          /\ WaitingWriters # {}
<1>1. ASSUME IInv, NEW t \in Threads, Step(t) PROVE ~Overtakes
  <2>1. CASE RdlockTest(t) \/ RdlockLoop(t)
    BY <1>1, <2>1, TestsAreRight
    DEF IInv, TypeOK, RdlockTest, RdlockLoop, WaitRead, GrantRead, Grant
  <2>2. CASE QuietAction(t) \/ InitCall(t) \/ RdlockWaitFails(t) \/ WrlockWaitFails(t)
    BY <1>1, <2>2, QuietStepsCountNobody
    DEF IInv, InitCall, Call, RdlockWaitFails, WrlockWaitFails
  <2>3. CASE WrlockTest(t) \/ WrlockLoop(t) \/ RdunlockBody(t) \/ WrunlockBody(t)
    BY <1>1, <2>3
    DEF IInv, TypeOK, WrlockTest, WrlockLoop, WaitWrite, GrantWrite,
        RdunlockBody, WrunlockBody, Grant
  <2> QED
    BY <1>1, <2>1, <2>2, <2>3, StepsAreQuietOrCounting DEF CountingAction
<1>2. IInv /\ [Next]_vars =>
        [\A t \in Threads : (held[t] = "none" /\ held'[t] = "read") => WaitingWriters = {}]_vars
  BY <1>1 DEF Next
<1> QED
  BY <1>2, Invariance, PTL DEF Spec, WritersGoFirst

-----------------------------------------------------------------------------
(* Readers are stranded only by a wait that fails, so this one is about    *)
(* locks whose waits do not.                                               *)

(* Every step keeps a blocked reader blocked by a writer only.             *)
LEMMA ReadersStayServable ==
  ASSUME IInv, ReaderNotStranded, ~WaitErrors, NEW t \in Threads, Step(t)
  PROVE  ReaderNotStranded'
<1> USE DEF IInv, TypeOK, ReaderNotStranded
<1>t. /\ WritersPresent <=> Holders("write") \cup WaitingWriters # {}
      /\ WritersPresent' <=> w_active' > 0 \/ w_wait' > 0
  BY TestsAreRight DEF WritersPresent
<1>h. /\ \A u \in Threads : u \in Holders("write")' <=> held'[u] = "write"
      /\ held' = held => Holders("write")' = Holders("write")
  BY DEF Holders
<1>1. CASE QuietAction(t)
  <2>1. UNCHANGED <<held, WaitingWriters>>
    BY <1>1, QuietStepsCountNobody
  <2>2. readCV' \subseteq readCV
    BY <1>1
    DEF QuietAction, Lock, Unlock, SpuriousWakeup, InitMutex, InitRead, InitWrite,
        InitFails, DelCall, DelTest, DelDestroy, LockCall, UnlockCall, RdlockCall,
        WrlockCall, RdunlockCall, WrunlockCall, Call, conds
  <2> QED
    BY <1>h, <2>1, <2>2
<1>2. CASE InitCall(t)
  <2>1. readCV = {}
    BY <1>2 DEF InitCall, Shape, ValidFitsPC, BlockedFitsPC, InitPCs
  <2> QED
    BY <1>2, <2>1 DEF InitCall, Call, conds
<1>3. CASE RdlockTest(t) \/ RdlockLoop(t)
  <2>1. CASE WritersPresent
    <3>1. WaitRead(t)
      BY <1>3, <2>1 DEF RdlockTest, RdlockLoop
    <3>2. WaitingWriters' = WaitingWriters
      <4>1. t \notin WaitingWriters
        BY <1>3 DEF RdlockTest, RdlockLoop, WaitingWriters
      <4>2. WaitingWriters' = WaitingWriters \ {t}
        BY <3>1, GotoMoves DEF WaitRead
      <4> QED
        BY <4>1, <4>2
    <3> QED
      BY <1>t, <1>h, <2>1, <3>1, <3>2 DEF WaitRead
  <2>2. CASE ~WritersPresent
    <3>1. GrantRead(t)
      BY <1>3, <2>2 DEF RdlockTest, RdlockLoop
    <3> QED
      BY <1>t, <2>2, <3>1 DEF GrantRead, conds
  <2> QED
    BY <2>1, <2>2
<1>4. CASE WrlockTest(t) \/ WrlockLoop(t)
  <2>1. CASE AnyoneActive
    <3>1. WaitWrite(t)
      BY <1>4, <2>1 DEF WrlockTest, WrlockLoop
    <3>2. t \in WaitingWriters'
      BY <3>1, GotoMoves DEF WaitWrite
    <3> QED
      BY <3>2
  <2>2. CASE ~AnyoneActive
    <3>1. GrantWrite(t)
      BY <1>4, <2>2 DEF WrlockTest, WrlockLoop
    <3>2. t \in Holders("write")'
      BY <3>1, GrantMoves DEF GrantWrite
    <3> QED
      BY <3>2
  <2> QED
    BY <2>1, <2>2
<1>5. CASE RdunlockBody(t)
  <2>1. /\ t \notin WaitingWriters /\ WaitingWriters' = WaitingWriters \ {t}
        /\ t \notin Holders("write") /\ Holders("write")' = Holders("write") \ {t}
    BY <1>5, GotoMoves, GrantMoves
    DEF RdunlockBody, WaitingWriters, Holders, Shape, HeldFitsPC
  <2> QED
    BY <1>5, <2>1 DEF RdunlockBody
<1>6. CASE WrunlockBody(t)
  <2>1. t \notin WaitingWriters /\ WaitingWriters' = WaitingWriters \ {t}
    BY <1>6, GotoMoves DEF WrunlockBody, WaitingWriters
  <2>2. CASE w_wait > 0
    <3>1. WaitingWriters # {}
      BY <2>2, FS_EmptySet DEF CountersAgree
    <3> QED
      BY <2>1, <3>1
  <2>3. CASE w_wait = 0 /\ r_wait = 0
    <3>1. WaitingReaders = {}
      BY <2>3, SetsAreFinite, FS_EmptySet DEF CountersAgree
    <3>2. readCV = {}
      BY <3>1 DEF Shape, BlockedFitsPC, WaitingReaders
    <3> QED
      BY <1>6, <2>3, <3>2 DEF WrunlockBody, WrunlockWake, conds
  <2>4. CASE w_wait = 0 /\ r_wait > 0
    BY <1>6, <2>4 DEF WrunlockBody, WrunlockWake, BroadcastRead
  <2> QED
    BY <2>2, <2>3, <2>4
<1> QED
  BY <1>1, <1>2, <1>3, <1>4, <1>5, <1>6, StepsAreQuietOrCounting
  DEF CountingAction, RdlockWaitFails, WrlockWaitFails

(* As long as waits do not fail, the wakeup of a waiting reader is never   *)
(* lost either.                                                            *)
THEOREM NoLostWakeupOfReaders ==
  ASSUME Coordinated, ~WaitErrors
  PROVE  Spec => []ReaderNotStranded
<1>1. Init => ReaderNotStranded
  BY DEF Init, ReaderNotStranded
<1>2. IInv /\ ReaderNotStranded /\ [Next]_vars => ReaderNotStranded'
  <2> SUFFICES ASSUME IInv, ReaderNotStranded, [Next]_vars PROVE ReaderNotStranded'
    OBVIOUS
  <2>1. CASE UNCHANGED vars
    BY <2>1 DEF vars, conds, ReaderNotStranded, Holders, WaitingWriters
  <2>2. CASE Next
    BY <2>2, ReadersStayServable DEF Next
  <2> QED
    BY <2>1, <2>2
<1> QED
  BY <1>1, <1>2, Invariance, PTL DEF Spec

-----------------------------------------------------------------------------
(* The lock implements the abstract one. *)

(* Every step of the lock is a step of the abstract lock, or leaves it as  *)
(* it is.                                                                  *)
LEMMA StepSimulation ==
  ASSUME IInv, NEW t \in Threads, Step(t)
  PROVE  Abstract!Next \/ UNCHANGED Abstract!vars
<1> USE DEF IInv, TypeOK
<1>a. \A S : t \notin S => S \ {t} = S
  OBVIOUS
<1>t. /\ WritersPresent <=> Holders("write") \cup WaitingWriters # {}
      /\ AnyoneActive <=> Holders("read") \cup Holders("write") # {}
      /\ LockInUse <=> \/ Holders("read") \cup Holders("write") # {}
                       \/ WaitingReaders \cup WaitingWriters # {}
  BY TestsAreRight
<1>m. \A mode : Abstract!Holders(mode) = Holders(mode)
  BY DEF Abstract!Holders, Holders
<1>w. /\ t \in WaitingReaders <=> pc[t] \in {"rd_wait", "rd_loop"}
      /\ t \in WaitingWriters <=> pc[t] \in {"wr_wait", "wr_loop"}
  BY DEF WaitingReaders, WaitingWriters
<1>o. pc[t] \in AskPCs \cup {"ru_body", "wu_body", "del_test"} => valid = 1
  BY DEF Shape, ValidFitsPC, AskPCs, InitPCs
<1>1. CASE QuietAction(t)
  <2>1. UNCHANGED <<held, WaitingReaders, WaitingWriters>>
    BY <1>1, QuietStepsCountNobody
  <2>2. CASE valid' = valid
    BY <2>1, <2>2 DEF Abstract!vars
  <2>3. CASE valid' # valid
    <3>1. CASE DelTest(t)
      <4>1. Abstract!Close
        BY <1>t, <1>m, <1>o, <2>1, <2>3, <3>1
        DEF DelTest, Abstract!Close, Abstract!InUse
      <4> QED
        BY <4>1 DEF Abstract!Next
    <3>2. CASE InitWrite(t)
      <4>1. Abstract!Open
        BY <2>1, <2>3, <3>2 DEF InitWrite, InitFails, Abstract!Open
      <4> QED
        BY <4>1 DEF Abstract!Next
    <3> QED
      BY <1>1, <2>3, <3>1, <3>2
      DEF QuietAction, Lock, Unlock, SpuriousWakeup, InitMutex, InitRead, InitFails,
          DelCall, DelDestroy, LockCall, UnlockCall, RdlockCall, WrlockCall,
          RdunlockCall, WrunlockCall, Call
  <2> QED
    BY <2>2, <2>3
<1>2. CASE InitCall(t)
  BY <1>2, <1>a, <1>w, GotoMoves DEF InitCall, Call, Abstract!vars
<1>3. CASE RdlockTest(t) \/ RdlockLoop(t)
  <2>1. /\ valid = 1 /\ held[t] = "none" /\ t \notin WaitingWriters
        /\ RdlockTest(t) <=> t \notin WaitingReaders
    BY <1>3, <1>o, <1>w DEF RdlockTest, RdlockLoop, AskPCs, Shape, HeldFitsPC
  <2>2. CASE WritersPresent
    <3>1. WaitRead(t)
      BY <1>3, <2>2 DEF RdlockTest, RdlockLoop
    <3>2. /\ WaitingReaders' = WaitingReaders \cup {t}
          /\ WaitingWriters' = WaitingWriters
      BY <1>a, <2>1, <3>1, GotoMoves DEF WaitRead
    <3>3. CASE t \in WaitingReaders
      BY <3>1, <3>2, <3>3 DEF WaitRead, Abstract!vars
    <3>4. CASE t \notin WaitingReaders
      <4>1. Abstract!WaitToRead(t)
        BY <1>t, <1>m, <2>1, <2>2, <3>1, <3>2, <3>4
        DEF WaitRead, Abstract!WaitToRead, Abstract!Outside
      <4> QED
        BY <4>1 DEF Abstract!Next
    <3> QED
      BY <3>3, <3>4
  <2>3. CASE ~WritersPresent
    <3>1. GrantRead(t)
      BY <1>3, <2>3 DEF RdlockTest, RdlockLoop
    <3>2. /\ WaitingReaders' = WaitingReaders \ {t}
          /\ WaitingWriters' = WaitingWriters
      BY <1>a, <2>1, <3>1, GotoMoves DEF GrantRead
    <3>3. Abstract!AcquireRead(t)
      BY <1>t, <1>m, <2>1, <2>3, <3>1, <3>2 DEF GrantRead, Grant, Abstract!AcquireRead
    <3> QED
      BY <3>3 DEF Abstract!Next
  <2> QED
    BY <2>2, <2>3
<1>4. CASE WrlockTest(t) \/ WrlockLoop(t)
  <2>1. /\ valid = 1 /\ held[t] = "none" /\ t \notin WaitingReaders
        /\ WrlockTest(t) <=> t \notin WaitingWriters
    BY <1>4, <1>o, <1>w DEF WrlockTest, WrlockLoop, AskPCs, Shape, HeldFitsPC
  <2>2. CASE AnyoneActive
    <3>1. WaitWrite(t)
      BY <1>4, <2>2 DEF WrlockTest, WrlockLoop
    <3>2. /\ WaitingWriters' = WaitingWriters \cup {t}
          /\ WaitingReaders' = WaitingReaders
      BY <1>a, <2>1, <3>1, GotoMoves DEF WaitWrite
    <3>3. CASE t \in WaitingWriters
      BY <3>1, <3>2, <3>3 DEF WaitWrite, Abstract!vars
    <3>4. CASE t \notin WaitingWriters
      <4>1. Abstract!WaitToWrite(t)
        BY <1>t, <1>m, <2>1, <2>2, <3>1, <3>2, <3>4
        DEF WaitWrite, Abstract!WaitToWrite, Abstract!Outside, Abstract!InUse
      <4> QED
        BY <4>1 DEF Abstract!Next
    <3> QED
      BY <3>3, <3>4
  <2>3. CASE ~AnyoneActive
    <3>1. GrantWrite(t)
      BY <1>4, <2>3 DEF WrlockTest, WrlockLoop
    <3>2. /\ WaitingWriters' = WaitingWriters \ {t}
          /\ WaitingReaders' = WaitingReaders
      BY <1>a, <2>1, <3>1, GotoMoves DEF GrantWrite
    <3>3. Abstract!AcquireWrite(t)
      BY <1>t, <1>m, <2>1, <2>3, <3>1, <3>2
      DEF GrantWrite, Grant, Abstract!AcquireWrite, Abstract!InUse
    <3> QED
      BY <3>3 DEF Abstract!Next
  <2> QED
    BY <2>2, <2>3
<1>5. CASE RdlockWaitFails(t) \/ WrlockWaitFails(t)
  <2>1. /\ WaitErrors /\ UNCHANGED <<valid, held>>
        /\ WaitingReaders' = WaitingReaders \ {t}
        /\ WaitingWriters' = WaitingWriters \ {t}
    BY <1>5, GotoMoves DEF RdlockWaitFails, WrlockWaitFails
  <2>2. CASE t \in WaitingReaders \cup WaitingWriters
    <3>1. Abstract!GiveUp(t)
      BY <2>1, <2>2 DEF Abstract!GiveUp
    <3> QED
      BY <3>1 DEF Abstract!Next
  <2>3. CASE t \notin WaitingReaders \cup WaitingWriters
    BY <1>a, <2>1, <2>3 DEF Abstract!vars
  <2> QED
    BY <2>2, <2>3
<1>6. CASE RdunlockBody(t) \/ WrunlockBody(t)
  <2>1. /\ valid = 1 /\ held[t] # "none"
        /\ t \notin WaitingReaders /\ t \notin WaitingWriters
    BY <1>6, <1>o, <1>w DEF RdunlockBody, WrunlockBody, Shape, HeldFitsPC
  <2>2. /\ WaitingReaders' = WaitingReaders
        /\ WaitingWriters' = WaitingWriters
    BY <1>6, <1>a, <2>1, GotoMoves DEF RdunlockBody, WrunlockBody
  <2>3. Abstract!Release(t)
    BY <1>6, <2>1, <2>2 DEF RdunlockBody, WrunlockBody, Grant, Abstract!Release
  <2> QED
    BY <2>3 DEF Abstract!Next
<1> QED
  BY <1>1, <1>2, <1>3, <1>4, <1>5, <1>6, StepsAreQuietOrCounting DEF CountingAction

(* Mutex, counters and condition variables together behave like the        *)
(* abstract readers-writer lock.                                           *)
THEOREM Refinement ==
  ASSUME Coordinated
  PROVE  Spec => ImplementsReadWriteLock
<1>1. Init => Abstract!Init
  BY DEF Init, Abstract!Init, WaitingReaders, WaitingWriters
<1>2. IInv /\ [Next]_vars => [Abstract!Next]_(Abstract!vars)
  <2> SUFFICES ASSUME IInv, [Next]_vars
               PROVE  Abstract!Next \/ UNCHANGED Abstract!vars
    OBVIOUS
  <2>1. CASE UNCHANGED vars
    BY <2>1 DEF vars, Abstract!vars, WaitingReaders, WaitingWriters
  <2>2. CASE Next
    BY <2>2, StepSimulation DEF Next
  <2> QED
    BY <2>1, <2>2
<1> QED
  BY <1>1, <1>2, Invariance, PTL DEF Spec, ImplementsReadWriteLock, Abstract!Spec
=============================================================================
