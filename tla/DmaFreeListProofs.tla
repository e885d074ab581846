------------------------- MODULE DmaFreeListProofs -------------------------
(***************************************************************************)
(* What is proved of DmaFreeList for any number of threads and buffers:    *)
(* the offset stays within the queue whatever clients free; and, for       *)
(* clients that free only what they have, no buffer is in two places or in *)
(* none, and the list implements BufferPool.                               *)
(***************************************************************************)
EXTENDS DmaFreeList, FiniteSetTheorems, TLAPS

-----------------------------------------------------------------------------
(* The control state, which no client can disturb. *)

GateExcludes ==
  /\ \A t \in Threads : pc[t] \in GatedPCs => pool_gate = 1
  /\ \A t, u \in Threads : pc[t] \in GatedPCs /\ pc[u] \in GatedPCs => t = u

OffsetFitsPC ==
  \A t \in Threads :
    /\ pc[t] \in {"pop_read", "pop_take", "push_store"} => pool_buf_offset < buf_cnt
    /\ pc[t] \in {"push_read", "push_dec"} => pool_buf_offset > 0
    /\ pc[t] \in {"pop_take", "push_dec"} => off[t] = pool_buf_offset

CarryingPCs == {"pop_open", "pop_phys", "push_gate", "push_test", "push_read",
                "push_dec", "push_store", "push_refuse"}

ArgFitsPC ==
  \A t \in Threads : pc[t] \in CarryingPCs <=> arg[t] # NoBuf

Control == TypeOK /\ GateExcludes /\ OffsetFitsPC /\ ArgFitsPC

(* A pool that bf_sys_dma_pool_create has just returned: the gate is open, *)
(* no thread is inside a call.                                             *)
LEMMA ControlInit == Init => Control
  BY PoolAssumption
  DEF Init, Control, TypeOK, GateExcludes, OffsetFitsPC, ArgFitsPC, Bufs, PCs,
      GatedPCs, CarryingPCs

(* Every step keeps the gate exclusive and each local copy of the offset   *)
(* fresh.  Needs nothing of the clients.                                   *)
LEMMA ControlStep ==
  ASSUME Control, [Next]_vars
  PROVE  Control'
<1> USE PoolAssumption DEF Control, Goto, fields, locals
<1>1. ASSUME NEW t \in Threads, PopCall(t) PROVE Control'
  <2>1. TypeOK'
    BY <1>1 DEF PopCall, TypeOK, OffsetFitsPC, PCs, GatedPCs, Bufs
  <2>2. GateExcludes'
    BY <1>1 DEF PopCall, GateExcludes, GatedPCs, TypeOK
  <2>3. OffsetFitsPC'
    BY <1>1 DEF PopCall, OffsetFitsPC, GateExcludes, GatedPCs, TypeOK
  <2>4. ArgFitsPC'
    BY <1>1 DEF PopCall, ArgFitsPC, CarryingPCs, TypeOK, OffsetFitsPC, Bufs
  <2> QED
    BY <2>1, <2>2, <2>3, <2>4
<1>2. ASSUME NEW t \in Threads, PushCall(t) PROVE Control'
  <2>1. TypeOK'
    BY <1>2 DEF PushCall, TypeOK, OffsetFitsPC, PCs, GatedPCs, Bufs
  <2>2. GateExcludes'
    BY <1>2 DEF PushCall, GateExcludes, GatedPCs, TypeOK
  <2>3. OffsetFitsPC'
    BY <1>2 DEF PushCall, OffsetFitsPC, GateExcludes, GatedPCs, TypeOK
  <2>4. ArgFitsPC'
    BY <1>2 DEF PushCall, ArgFitsPC, CarryingPCs, TypeOK, OffsetFitsPC, Bufs
  <2> QED
    BY <2>1, <2>2, <2>3, <2>4
<1>3. ASSUME NEW t \in Threads, PopClose(t) PROVE Control'
  <2>1. TypeOK'
    BY <1>3 DEF PopClose, CloseGate, TypeOK, OffsetFitsPC, PCs, GatedPCs, Bufs
  <2>2. GateExcludes'
    BY <1>3 DEF PopClose, CloseGate, GateExcludes, GatedPCs, TypeOK
  <2>3. OffsetFitsPC'
    BY <1>3 DEF PopClose, CloseGate, OffsetFitsPC, GateExcludes, GatedPCs, TypeOK
  <2>4. ArgFitsPC'
    BY <1>3 DEF PopClose, CloseGate, ArgFitsPC, CarryingPCs, TypeOK, OffsetFitsPC, Bufs
  <2> QED
    BY <2>1, <2>2, <2>3, <2>4
<1>4. ASSUME NEW t \in Threads, PushClose(t) PROVE Control'
  <2>1. TypeOK'
    BY <1>4 DEF PushClose, CloseGate, TypeOK, OffsetFitsPC, PCs, GatedPCs, Bufs
  <2>2. GateExcludes'
    BY <1>4 DEF PushClose, CloseGate, GateExcludes, GatedPCs, TypeOK
  <2>3. OffsetFitsPC'
    BY <1>4 DEF PushClose, CloseGate, OffsetFitsPC, GateExcludes, GatedPCs, TypeOK
  <2>4. ArgFitsPC'
    BY <1>4 DEF PushClose, CloseGate, ArgFitsPC, CarryingPCs, TypeOK, OffsetFitsPC, Bufs
  <2> QED
    BY <2>1, <2>2, <2>3, <2>4
<1>5. ASSUME NEW t \in Threads, PopTest(t) PROVE Control'
  <2>1. TypeOK'
    BY <1>5 DEF PopTest, TypeOK, OffsetFitsPC, PCs, GatedPCs, Bufs
  <2>2. GateExcludes'
    BY <1>5 DEF PopTest, GateExcludes, GatedPCs, TypeOK
  <2>3. OffsetFitsPC'
    BY <1>5 DEF PopTest, OffsetFitsPC, GateExcludes, GatedPCs, TypeOK
  <2>4. ArgFitsPC'
    BY <1>5 DEF PopTest, ArgFitsPC, CarryingPCs, TypeOK, OffsetFitsPC, Bufs
  <2> QED
    BY <2>1, <2>2, <2>3, <2>4
<1>6. ASSUME NEW t \in Threads, PopRead(t) PROVE Control'
  <2>1. TypeOK'
    BY <1>6 DEF PopRead, ReadOffset, TypeOK, OffsetFitsPC, PCs, GatedPCs, Bufs
  <2>2. GateExcludes'
    BY <1>6 DEF PopRead, ReadOffset, GateExcludes, GatedPCs, TypeOK
  <2>3. OffsetFitsPC'
    BY <1>6 DEF PopRead, ReadOffset, OffsetFitsPC, GateExcludes, GatedPCs, TypeOK
  <2>4. ArgFitsPC'
    BY <1>6 DEF PopRead, ReadOffset, ArgFitsPC, CarryingPCs, TypeOK, OffsetFitsPC, Bufs
  <2> QED
    BY <2>1, <2>2, <2>3, <2>4
<1>7. ASSUME NEW t \in Threads, PopTake(t) PROVE Control'
  <2>1. TypeOK'
    <3>1. off[t] \in Bufs /\ pool_buf_ptr[off[t]] \in Bufs /\ off[t] + 1 \in 0 .. buf_cnt
      BY <1>7 DEF PopTake, TypeOK, OffsetFitsPC, Bufs
    <3> QED
      BY <1>7, <3>1 DEF PopTake, TypeOK, PCs, GatedPCs
  <2>2. GateExcludes'
    BY <1>7 DEF PopTake, GateExcludes, GatedPCs, TypeOK
  <2>3. OffsetFitsPC'
    BY <1>7 DEF PopTake, OffsetFitsPC, GateExcludes, GatedPCs, TypeOK
  <2>4. ArgFitsPC'
    BY <1>7 DEF PopTake, ArgFitsPC, CarryingPCs, TypeOK, OffsetFitsPC, Bufs
  <2> QED
    BY <2>1, <2>2, <2>3, <2>4
<1>8. ASSUME NEW t \in Threads, PopOpen(t) PROVE Control'
  <2>1. TypeOK'
    BY <1>8 DEF PopOpen, OpenGate, TypeOK, OffsetFitsPC, PCs, GatedPCs, Bufs
  <2>2. GateExcludes'
    BY <1>8 DEF PopOpen, OpenGate, GateExcludes, GatedPCs, TypeOK
  <2>3. OffsetFitsPC'
    BY <1>8 DEF PopOpen, OpenGate, OffsetFitsPC, GateExcludes, GatedPCs, TypeOK
  <2>4. ArgFitsPC'
    BY <1>8 DEF PopOpen, OpenGate, ArgFitsPC, CarryingPCs, TypeOK, OffsetFitsPC, Bufs
  <2> QED
    BY <2>1, <2>2, <2>3, <2>4
<1>9. ASSUME NEW t \in Threads, PopRefuse(t) PROVE Control'
  <2>1. TypeOK'
    BY <1>9 DEF PopRefuse, OpenGate, TypeOK, OffsetFitsPC, PCs, GatedPCs, Bufs
  <2>2. GateExcludes'
    BY <1>9 DEF PopRefuse, OpenGate, GateExcludes, GatedPCs, TypeOK
  <2>3. OffsetFitsPC'
    BY <1>9 DEF PopRefuse, OpenGate, OffsetFitsPC, GateExcludes, GatedPCs, TypeOK
  <2>4. ArgFitsPC'
    BY <1>9 DEF PopRefuse, OpenGate, ArgFitsPC, CarryingPCs, TypeOK, OffsetFitsPC, Bufs
  <2> QED
    BY <2>1, <2>2, <2>3, <2>4
<1>10. ASSUME NEW t \in Threads, PopFail(t) PROVE Control'
  <2>1. TypeOK'
    BY <1>10 DEF PopFail, TypeOK, OffsetFitsPC, PCs, GatedPCs, Bufs
  <2>2. GateExcludes'
    BY <1>10 DEF PopFail, GateExcludes, GatedPCs, TypeOK
  <2>3. OffsetFitsPC'
    BY <1>10 DEF PopFail, OffsetFitsPC, GateExcludes, GatedPCs, TypeOK
  <2>4. ArgFitsPC'
    BY <1>10 DEF PopFail, ArgFitsPC, CarryingPCs, TypeOK, OffsetFitsPC, Bufs
  <2> QED
    BY <2>1, <2>2, <2>3, <2>4
<1>11. ASSUME NEW t \in Threads, PopPhys(t) PROVE Control'
  <2>1. TypeOK'
    <3>1. arg[t] \in Bufs
      BY <1>11 DEF PopPhys, TypeOK, ArgFitsPC, CarryingPCs
    <3> QED
      BY <1>11, <3>1 DEF PopPhys, TypeOK, PCs
  <2>2. GateExcludes'
    BY <1>11 DEF PopPhys, GateExcludes, GatedPCs, TypeOK
  <2>3. OffsetFitsPC'
    BY <1>11 DEF PopPhys, OffsetFitsPC, GateExcludes, GatedPCs, TypeOK
  <2>4. ArgFitsPC'
    BY <1>11 DEF PopPhys, ArgFitsPC, CarryingPCs, TypeOK, OffsetFitsPC, Bufs
  <2> QED
    BY <2>1, <2>2, <2>3, <2>4
<1>12. ASSUME NEW t \in Threads, PushTest(t) PROVE Control'
  <2>1. TypeOK'
    BY <1>12 DEF PushTest, TypeOK, OffsetFitsPC, PCs, GatedPCs, Bufs
  <2>2. GateExcludes'
    BY <1>12 DEF PushTest, GateExcludes, GatedPCs, TypeOK
  <2>3. OffsetFitsPC'
    BY <1>12 DEF PushTest, OffsetFitsPC, GateExcludes, GatedPCs, TypeOK
  <2>4. ArgFitsPC'
    BY <1>12 DEF PushTest, ArgFitsPC, CarryingPCs, TypeOK, OffsetFitsPC, Bufs
  <2> QED
    BY <2>1, <2>2, <2>3, <2>4
<1>13. ASSUME NEW t \in Threads, PushRead(t) PROVE Control'
  <2>1. TypeOK'
    BY <1>13 DEF PushRead, ReadOffset, TypeOK, OffsetFitsPC, PCs, GatedPCs, Bufs
  <2>2. GateExcludes'
    BY <1>13 DEF PushRead, ReadOffset, GateExcludes, GatedPCs, TypeOK
  <2>3. OffsetFitsPC'
    BY <1>13 DEF PushRead, ReadOffset, OffsetFitsPC, GateExcludes, GatedPCs, TypeOK
  <2>4. ArgFitsPC'
    BY <1>13 DEF PushRead, ReadOffset, ArgFitsPC, CarryingPCs, TypeOK, OffsetFitsPC, Bufs
  <2> QED
    BY <2>1, <2>2, <2>3, <2>4
<1>14. ASSUME NEW t \in Threads, PushDec(t) PROVE Control'
  <2>1. TypeOK'
    <3>1. off[t] - 1 \in 0 .. buf_cnt
      BY <1>14 DEF PushDec, TypeOK, OffsetFitsPC
    <3> QED
      BY <1>14, <3>1 DEF PushDec, TypeOK, PCs, GatedPCs
  <2>2. GateExcludes'
    BY <1>14 DEF PushDec, GateExcludes, GatedPCs, TypeOK
  <2>3. OffsetFitsPC'
    BY <1>14 DEF PushDec, OffsetFitsPC, GateExcludes, GatedPCs, TypeOK
  <2>4. ArgFitsPC'
    BY <1>14 DEF PushDec, ArgFitsPC, CarryingPCs, TypeOK, OffsetFitsPC, Bufs
  <2> QED
    BY <2>1, <2>2, <2>3, <2>4
<1>15. ASSUME NEW t \in Threads, PushStore(t) PROVE Control'
  <2>1. TypeOK'
    <3>1. arg[t] \in Bufs /\ pool_buf_offset \in Bufs
      BY <1>15 DEF PushStore, TypeOK, OffsetFitsPC, ArgFitsPC, CarryingPCs, Bufs
    <3> QED
      BY <1>15, <3>1 DEF PushStore, TypeOK, PCs, GatedPCs
  <2>2. GateExcludes'
    BY <1>15 DEF PushStore, GateExcludes, GatedPCs, TypeOK
  <2>3. OffsetFitsPC'
    BY <1>15 DEF PushStore, OffsetFitsPC, GateExcludes, GatedPCs, TypeOK
  <2>4. ArgFitsPC'
    BY <1>15 DEF PushStore, ArgFitsPC, CarryingPCs, TypeOK, OffsetFitsPC, Bufs
  <2> QED
    BY <2>1, <2>2, <2>3, <2>4
<1>16. ASSUME NEW t \in Threads, PushOpen(t) PROVE Control'
  <2>1. TypeOK'
    BY <1>16 DEF PushOpen, OpenGate, TypeOK, OffsetFitsPC, PCs, GatedPCs, Bufs
  <2>2. GateExcludes'
    BY <1>16 DEF PushOpen, OpenGate, GateExcludes, GatedPCs, TypeOK
  <2>3. OffsetFitsPC'
    BY <1>16 DEF PushOpen, OpenGate, OffsetFitsPC, GateExcludes, GatedPCs, TypeOK
  <2>4. ArgFitsPC'
    BY <1>16 DEF PushOpen, OpenGate, ArgFitsPC, CarryingPCs, TypeOK, OffsetFitsPC, Bufs
  <2> QED
    BY <2>1, <2>2, <2>3, <2>4
<1>17. ASSUME NEW t \in Threads, PushRefuse(t) PROVE Control'
  <2>1. TypeOK'
    <3>1. arg[t] \in Bufs
      BY <1>17 DEF PushRefuse, TypeOK, ArgFitsPC, CarryingPCs
    <3> QED
      BY <1>17, <3>1 DEF PushRefuse, TypeOK, PCs
  <2>2. GateExcludes'
    BY <1>17 DEF PushRefuse, GateExcludes, GatedPCs, TypeOK
  <2>3. OffsetFitsPC'
    BY <1>17 DEF PushRefuse, OffsetFitsPC, GateExcludes, GatedPCs, TypeOK
  <2>4. ArgFitsPC'
    BY <1>17 DEF PushRefuse, ArgFitsPC, CarryingPCs, TypeOK, OffsetFitsPC, Bufs
  <2> QED
    BY <2>1, <2>2, <2>3, <2>4
<1>18. CASE UNCHANGED vars
  BY <1>18 DEF vars, TypeOK, GateExcludes, OffsetFitsPC, ArgFitsPC
<1> QED
  BY <1>1, <1>2, <1>3, <1>4, <1>5, <1>6, <1>7, <1>8, <1>9, <1>10, <1>11, <1>12,
     <1>13, <1>14, <1>15, <1>16, <1>17, <1>18 DEF Next, Body

(* The offset and every index taken from it stay within the queue, even    *)
(* for clients that free a buffer twice or one they never had.             *)
THEOREM TypeCorrectness == Spec => []TypeOK
<1>1. Control => TypeOK
  BY DEF Control
<1> QED
  BY <1>1, ControlInit, ControlStep, PTL DEF Spec

-----------------------------------------------------------------------------
(* Where the buffers are.  First, what the steps do to the sets of them.   *)

NoRefusal == \A t \in Threads : pc[t] # "push_refuse"

Ownership == EveryBufferOnce /\ NoBufferVanishes /\ NoRefusal

(* The steps that move no buffer. *)
QuietAction(t) ==
  \/ PopCall(t) \/ PopClose(t) \/ PopTest(t) \/ PopRead(t)
  \/ PopOpen(t) \/ PopRefuse(t) \/ PopFail(t)
  \/ PushClose(t) \/ PushTest(t) \/ PushRead(t) \/ PushDec(t) \/ PushOpen(t)

(* The steps that move no buffer leave every owner alone.                  *)
LEMMA QuietEffect ==
  ASSUME Control, NEW t \in Threads, QuietAction(t)
  PROVE  /\ UNCHANGED <<pool_buf_ptr, allocated, lost, arg, FreeSlots, Taken, Given>>
         /\ pc[t] # "push_test" => pc'[t] # "push_refuse"
<1> USE PoolAssumption DEF Control, TypeOK, Goto, fields, locals
<1>1. /\ UNCHANGED <<pool_buf_ptr, allocated, lost, arg>>
      /\ pc[t] # "push_test" => pc'[t] # "push_refuse"
      /\ \A u \in Threads : u # t => pc'[u] = pc[u]
      /\ arg[t] # NoBuf => (pc[t] \in TakingPCs <=> pc'[t] \in TakingPCs)
  BY DEF QuietAction, PopCall, PopClose, PopTest, PopRead, PopOpen, PopRefuse, PopFail,
         PushClose, PushTest, PushRead, PushDec, PushOpen, CloseGate, OpenGate,
         TakingPCs, ArgFitsPC, CarryingPCs
<1>2. Taken' = Taken /\ Given' = Given
  BY <1>1 DEF Taken, Given, Bufs
<1>3. FreeSlots' = FreeSlots
  <2>1. CASE PushDec(t)
    <3>1. \A u \in Threads : pc[u] # "push_store"
      BY <2>1 DEF PushDec, GateExcludes, GatedPCs
    <3>2. pc'[t] = "push_store" /\ pool_buf_offset' = pool_buf_offset - 1
      BY <2>1 DEF PushDec, OffsetFitsPC
    <3>3. FreeSlots = {i \in Bufs : i >= pool_buf_offset}
      BY <3>1 DEF FreeSlots
    <3>4. FreeSlots' = {i \in Bufs : i >= pool_buf_offset - 1 /\ i # pool_buf_offset - 1}
      BY <3>2 DEF FreeSlots
    <3> QED
      BY <3>3, <3>4 DEF Bufs
  <2>2. CASE ~PushDec(t)
    <3>1. UNCHANGED pool_buf_offset /\ pc[t] # "push_store" /\ pc'[t] # "push_store"
      BY <2>2
      DEF QuietAction, PopCall, PopClose, PopTest, PopRead, PopOpen, PopRefuse,
          PopFail, PushClose, PushTest, PushRead, PushOpen, CloseGate, OpenGate
    <3> QED
      BY <1>1, <3>1 DEF FreeSlots
  <2> QED
    BY <2>1, <2>2
<1> QED
  BY <1>1, <1>2, <1>3

(* The free buffers depend only on the slots and on what they hold.        *)
LEMMA QuietBufs ==
  ASSUME UNCHANGED <<pool_buf_ptr, FreeSlots>>
  PROVE  FreeBufs' = FreeBufs
  BY DEF FreeBufs

(* A thread starts to carry buffer b, or ends. *)
LEMMA StartsCarrying ==
  ASSUME Control, NEW t \in Threads, NEW b \in Bufs, NEW label \in PCs,
         arg[t] = NoBuf,
         arg' = [arg EXCEPT ![t] = b], pc' = [pc EXCEPT ![t] = label]
  PROVE  /\ Taken' = IF label \in TakingPCs THEN Taken \cup {b} ELSE Taken
         /\ Given' = IF label \in TakingPCs THEN Given ELSE Given \cup {b}
         /\ InFlight' = InFlight \cup {b}
  BY PoolAssumption DEF Control, TypeOK, Taken, Given, InFlight, Bufs

(* A thread lets go of the buffer it carries.                              *)
LEMMA EndsCarrying ==
  ASSUME Control, EveryBufferOnce, NEW t \in Threads, NEW label \in PCs,
         arg[t] \in Bufs,
         arg' = [arg EXCEPT ![t] = NoBuf], pc' = [pc EXCEPT ![t] = label]
  PROVE  /\ Taken' = IF pc[t] \in TakingPCs THEN Taken \ {arg[t]} ELSE Taken
         /\ Given' = IF pc[t] \in TakingPCs THEN Given ELSE Given \ {arg[t]}
         /\ InFlight' = InFlight \ {arg[t]}
  BY PoolAssumption DEF Control, TypeOK, Taken, Given, InFlight, Bufs, EveryBufferOnce

(* pool_buf_offset++ takes exactly one buffer off the free list.           *)
LEMMA PopTakeEffect ==
  ASSUME Control, EveryBufferOnce, NEW t \in Threads, PopTake(t)
  PROVE  LET b == pool_buf_ptr[pool_buf_offset]
         IN  /\ b \in FreeBufs /\ b \in Bufs
             /\ FreeSlots' = FreeSlots \ {pool_buf_offset}
             /\ FreeBufs' = FreeBufs \ {b}
             /\ arg[t] = NoBuf /\ arg' = [arg EXCEPT ![t] = b]
             /\ Taken' = Taken \cup {b} /\ Given' = Given
             /\ InFlight' = InFlight \cup {b}
<1> DEFINE b == pool_buf_ptr[pool_buf_offset]
<1> USE PoolAssumption DEF Control
<1>1. \A u \in Threads : pc[u] # "push_store"
  BY DEF PopTake, Goto, GateExcludes, GatedPCs
<1>2. pool_buf_offset \in Bufs /\ off[t] = pool_buf_offset /\ b \in Bufs
  BY DEF PopTake, Goto, OffsetFitsPC, TypeOK, Bufs
<1>3. pool_buf_offset \in FreeSlots
  BY <1>1, <1>2 DEF FreeSlots, TypeOK, Bufs
<1>4. FreeSlots' = FreeSlots \ {pool_buf_offset}
  <2>1. \A u \in Threads : pc'[u] # "push_store"
    BY <1>1 DEF PopTake, Goto, TypeOK
  <2>2. pool_buf_offset' = pool_buf_offset + 1
    BY <1>2 DEF PopTake
  <2> QED
    BY <1>1, <2>1, <2>2 DEF FreeSlots, TypeOK, Bufs
<1>5. FreeBufs' = FreeBufs \ {b}
  BY <1>3, <1>4 DEF PopTake, FreeBufs, EveryBufferOnce
<1>6. arg[t] = NoBuf /\ arg' = [arg EXCEPT ![t] = b]
  BY <1>2 DEF PopTake, Goto, ArgFitsPC, CarryingPCs
<1>7. pc' = [pc EXCEPT ![t] = "pop_open"]
  BY DEF PopTake, Goto
<1>8. /\ Taken' = Taken \cup {b} /\ Given' = Given
      /\ InFlight' = InFlight \cup {b}
  BY <1>2, <1>6, <1>7, StartsCarrying DEF TakingPCs, PCs, GatedPCs
<1> QED
  BY <1>2, <1>3, <1>4, <1>5, <1>6, <1>8 DEF FreeBufs

(* The store of a push puts exactly its buffer on the free list.           *)
LEMMA PushStoreEffect ==
  ASSUME Control, EveryBufferOnce, NEW t \in Threads, PushStore(t)
  PROVE  /\ arg[t] \in Bufs /\ arg[t] \in Given
         /\ pool_buf_offset \notin FreeSlots
         /\ FreeSlots' = FreeSlots \cup {pool_buf_offset}
         /\ pool_buf_ptr' = [pool_buf_ptr EXCEPT ![pool_buf_offset] = arg[t]]
         /\ pool_buf_offset \in Bufs
         /\ FreeBufs' = FreeBufs \cup {arg[t]}
         /\ arg' = [arg EXCEPT ![t] = NoBuf]
         /\ Given' = Given \ {arg[t]} /\ Taken' = Taken
         /\ InFlight' = InFlight \ {arg[t]}
<1> USE PoolAssumption DEF Control
<1>1. pc[t] = "push_store" /\ pc' = [pc EXCEPT ![t] = "push_open"]
  BY DEF PushStore, Goto
<1>2. pool_buf_offset \in Bufs /\ arg[t] \in Bufs
  BY <1>1 DEF OffsetFitsPC, ArgFitsPC, CarryingPCs, TypeOK, Bufs
<1>3. pool_buf_offset \notin FreeSlots
  BY <1>1 DEF FreeSlots
<1>4. FreeSlots' = FreeSlots \cup {pool_buf_offset}
  <2>1. \A u \in Threads : pc'[u] # "push_store"
    BY <1>1 DEF GateExcludes, GatedPCs, TypeOK
  <2> QED
    BY <1>2, <2>1 DEF PushStore, FreeSlots, TypeOK, Bufs
<1>5. FreeBufs' = FreeBufs \cup {arg[t]}
  <2>1. pool_buf_ptr'[pool_buf_offset] = arg[t]
    BY <1>2 DEF PushStore, TypeOK
  <2>2. \A i \in FreeSlots : pool_buf_ptr'[i] = pool_buf_ptr[i]
    BY <1>3 DEF PushStore, TypeOK, FreeSlots
  <2> QED
    BY <1>4, <2>1, <2>2 DEF FreeBufs
<1>6. /\ Given' = Given \ {arg[t]} /\ Taken' = Taken
      /\ InFlight' = InFlight \ {arg[t]}
  BY <1>1, <1>2, EndsCarrying DEF PushStore, TakingPCs, PCs, GatedPCs
<1> QED
  BY <1>1, <1>2, <1>3, <1>4, <1>5, <1>6 DEF PushStore, Given, TakingPCs

(* The end of bf_sys_dma_alloc hands its buffer over, or loses it when it  *)
(* has no address.                                                         *)
LEMMA PopPhysEffect ==
  ASSUME Control, EveryBufferOnce, NEW t \in Threads, PopPhys(t)
  PROVE  /\ arg[t] \in Taken
         /\ Taken' = Taken \ {arg[t]} /\ Given' = Given
         /\ InFlight' = InFlight \ {arg[t]}
         /\ arg' = [arg EXCEPT ![t] = NoBuf]
         /\ UNCHANGED <<pool_buf_ptr, FreeSlots>>
<1> USE PoolAssumption DEF Control
<1>1. pc[t] = "pop_phys" /\ pc' = [pc EXCEPT ![t] = "idle"]
  BY DEF PopPhys, Goto
<1>2. arg[t] \in Bufs
  BY <1>1 DEF ArgFitsPC, CarryingPCs, TypeOK
<1>3. UNCHANGED <<pool_buf_ptr, FreeSlots>>
  BY <1>1 DEF PopPhys, FreeSlots, fields, TypeOK
<1> QED
  BY <1>1, <1>2, <1>3, EndsCarrying DEF PopPhys, Taken, TakingPCs, PCs

(* bf_sys_dma_free takes the buffer from the application.                  *)
LEMMA PushCallEffect ==
  ASSUME Control, ~FreesAnything, NEW t \in Threads, PushCall(t)
  PROVE  \E b \in allocated :
           /\ allocated' = allocated \ {b}
           /\ Given' = Given \cup {b} /\ Taken' = Taken
           /\ InFlight' = InFlight \cup {b}
           /\ arg[t] = NoBuf /\ arg' = [arg EXCEPT ![t] = b]
           /\ UNCHANGED <<pool_buf_ptr, FreeSlots, lost>>
<1> USE PoolAssumption DEF Control
<1>1. pc[t] = "idle" /\ pc' = [pc EXCEPT ![t] = "push_gate"] /\ arg[t] = NoBuf
  BY DEF PushCall, Goto, ArgFitsPC, CarryingPCs
<1>2. PICK b \in allocated : /\ arg' = [arg EXCEPT ![t] = b]
                             /\ allocated' = allocated \ {b}
  BY DEF PushCall
<1>3. Given' = Given \cup {b} /\ Taken' = Taken /\ InFlight' = InFlight \cup {b}
  <2>1. b \in Bufs /\ "push_gate" \in PCs /\ "push_gate" \notin TakingPCs
    BY DEF TypeOK, TakingPCs, PCs
  <2> QED
    BY <1>1, <1>2, <2>1, StartsCarrying
<1>4. UNCHANGED <<pool_buf_ptr, FreeSlots, lost>>
  BY <1>1 DEF PushCall, FreeSlots, fields, TypeOK
<1> QED
  BY <1>1, <1>2, <1>3, <1>4

-----------------------------------------------------------------------------
(* Ownership is inductive. *)

(* A thread that gives a buffer back finds room for it.                    *)
LEMMA PushFindsRoom ==
  ASSUME Control, EveryBufferOnce, NEW t \in Threads, pc[t] = "push_test"
  PROVE  pool_buf_offset # 0
<1> SUFFICES ASSUME pool_buf_offset = 0 PROVE FALSE
  OBVIOUS
<1> USE PoolAssumption DEF Control
<1>1. FreeSlots = Bufs
  BY DEF FreeSlots, Bufs, TypeOK, GateExcludes, GatedPCs
<1>2. arg[t] \in Bufs /\ arg[t] \in InFlight
  BY DEF ArgFitsPC, CarryingPCs, TypeOK, InFlight
<1>3. \A i \in Bufs : pool_buf_ptr[i] \in Bufs \ {arg[t]}
  BY <1>1, <1>2 DEF EveryBufferOnce, FreeBufs, TypeOK
<1>4. pool_buf_ptr \in [Bufs -> Bufs \ {arg[t]}]
  BY <1>3 DEF TypeOK
<1>5. IsFiniteSet(Bufs) /\ Cardinality(Bufs) \in Nat
  BY FS_Interval, FS_CardinalityType DEF Bufs
<1>6. /\ IsFiniteSet(Bufs \ {arg[t]})
      /\ Cardinality(Bufs \ {arg[t]}) < Cardinality(Bufs)
  BY <1>2, <1>5, FS_RemoveElement
<1>7. \E i, j \in Bufs : i # j /\ pool_buf_ptr[i] = pool_buf_ptr[j]
  BY <1>4, <1>5, <1>6, FS_PigeonHole
<1> QED
  BY <1>1, <1>7 DEF EveryBufferOnce

(* At first every buffer is on the free list, once.                        *)
LEMMA OwnershipInit == Init => Ownership
<1> SUFFICES ASSUME Init PROVE Ownership
  OBVIOUS
<1>1. FreeSlots = Bufs /\ FreeBufs = Bufs /\ InFlight = {}
  BY PoolAssumption DEF Init, FreeSlots, FreeBufs, InFlight, Bufs
<1> QED
  BY <1>1 DEF Init, Ownership, EveryBufferOnce, NoBufferVanishes, NoRefusal

(* Every step keeps each buffer in exactly one place, for clients that     *)
(* free what they have.                                                    *)
LEMMA OwnershipStep ==
  ASSUME Control, Ownership, ~FreesAnything, [Next]_vars
  PROVE  Ownership'
<1> USE DEF Ownership
<1>1. ASSUME NEW t \in Threads, QuietAction(t) PROVE Ownership'
  <2>1. UNCHANGED <<pool_buf_ptr, allocated, lost, arg, FreeSlots, FreeBufs, InFlight>>
    BY <1>1, QuietEffect, QuietBufs DEF InFlight
  <2>2. EveryBufferOnce' /\ NoBufferVanishes'
    BY <2>1 DEF EveryBufferOnce, NoBufferVanishes
  <2>3. pc'[t] # "push_refuse"
    <3>1. CASE pc[t] = "push_test"
      <4>1. PushTest(t)
        BY <1>1, <3>1
        DEF QuietAction, PopCall, PopClose, PopTest, PopRead, PopOpen, PopRefuse,
            PopFail, PushClose, PushRead, PushDec, PushOpen, CloseGate, OpenGate, Goto
      <4>2. pool_buf_offset # 0 /\ ~(pool_buf_offset > buf_cnt)
        BY <3>1, PushFindsRoom, PoolAssumption DEF Control, TypeOK
      <4> QED
        BY <3>1, <4>1, <4>2 DEF PushTest, Goto, Control, TypeOK
    <3>2. CASE pc[t] # "push_test"
      BY <1>1, <3>2, QuietEffect
    <3> QED
      BY <3>1, <3>2
  <2>4. \A u \in Threads : u # t => pc'[u] = pc[u]
    BY <1>1
    DEF QuietAction, PopCall, PopClose, PopTest, PopRead, PopOpen, PopRefuse, PopFail,
        PushClose, PushTest, PushRead, PushDec, PushOpen, CloseGate, OpenGate, Goto,
        Control, TypeOK
  <2> QED
    BY <2>2, <2>3, <2>4 DEF NoRefusal
<1>2. ASSUME NEW t \in Threads, PopTake(t) PROVE Ownership'
  <2> DEFINE b == pool_buf_ptr[pool_buf_offset]
  <2>1. /\ b \in FreeBufs
        /\ FreeSlots' = FreeSlots \ {pool_buf_offset}
        /\ FreeBufs' = FreeBufs \ {b}
        /\ arg[t] = NoBuf /\ arg' = [arg EXCEPT ![t] = b]
        /\ InFlight' = InFlight \cup {b}
    BY <1>2, PopTakeEffect
  <2>2. UNCHANGED <<pool_buf_ptr, allocated, lost>>
    BY <1>2 DEF PopTake
  <2>3. \A u \in Threads : arg[u] # b
    BY <2>1 DEF EveryBufferOnce, InFlight, NoBufferVanishes
  <2>4. EveryBufferOnce'
    BY <2>1, <2>2, <2>3 DEF EveryBufferOnce, Control, TypeOK
  <2>5. NoBufferVanishes'
    BY <2>1, <2>2 DEF NoBufferVanishes
  <2> QED
    BY <1>2, <2>4, <2>5 DEF NoRefusal, PopTake, Goto, Control, TypeOK
<1>3. ASSUME NEW t \in Threads, PopPhys(t) PROVE Ownership'
  <2>1. /\ arg[t] \in Taken
        /\ InFlight' = InFlight \ {arg[t]}
        /\ arg' = [arg EXCEPT ![t] = NoBuf]
        /\ UNCHANGED <<pool_buf_ptr, FreeSlots>>
    BY <1>3, PopPhysEffect
  <2>2. FreeBufs' = FreeBufs
    BY <2>1, QuietBufs
  <2>3. arg[t] \in InFlight
    BY <2>1 DEF Taken, InFlight
  <2>4. EveryBufferOnce'
    BY <1>3, <2>1, <2>2, <2>3 DEF EveryBufferOnce, PopPhys, Control, TypeOK
  <2>5. NoBufferVanishes'
    BY <1>3, <2>1, <2>2, <2>3 DEF NoBufferVanishes, PopPhys
  <2> QED
    BY <1>3, <2>4, <2>5 DEF NoRefusal, PopPhys, Goto, Control, TypeOK
<1>4. ASSUME NEW t \in Threads, PushCall(t) PROVE Ownership'
  <2>1. PICK b \in allocated :
          /\ allocated' = allocated \ {b}
          /\ InFlight' = InFlight \cup {b}
          /\ arg[t] = NoBuf /\ arg' = [arg EXCEPT ![t] = b]
          /\ UNCHANGED <<pool_buf_ptr, FreeSlots, lost>>
    BY <1>4, PushCallEffect
  <2>2. FreeBufs' = FreeBufs
    BY <2>1, QuietBufs
  <2>3. \A u \in Threads : arg[u] # b
    BY <2>1 DEF EveryBufferOnce, InFlight, Control, TypeOK
  <2>4. EveryBufferOnce'
    BY <2>1, <2>2, <2>3 DEF EveryBufferOnce, Control, TypeOK
  <2>5. NoBufferVanishes'
    BY <2>1, <2>2 DEF NoBufferVanishes
  <2> QED
    BY <1>4, <2>4, <2>5 DEF NoRefusal, PushCall, Goto, Control, TypeOK
<1>5. ASSUME NEW t \in Threads, PushStore(t) PROVE Ownership'
  <2>1. /\ arg[t] \in Bufs /\ arg[t] \in Given
        /\ pool_buf_offset \notin FreeSlots /\ pool_buf_offset \in Bufs
        /\ FreeSlots' = FreeSlots \cup {pool_buf_offset}
        /\ pool_buf_ptr' = [pool_buf_ptr EXCEPT ![pool_buf_offset] = arg[t]]
        /\ FreeBufs' = FreeBufs \cup {arg[t]}
        /\ arg' = [arg EXCEPT ![t] = NoBuf]
        /\ InFlight' = InFlight \ {arg[t]}
    BY <1>5, PushStoreEffect
  <2>2. UNCHANGED <<allocated, lost>>
    BY <1>5 DEF PushStore
  <2>3. arg[t] \in InFlight /\ arg[t] \notin FreeBufs
    BY <2>1 DEF Given, InFlight, EveryBufferOnce
  <2>4. EveryBufferOnce'
    <3>1. \A i, j \in FreeSlots' : pool_buf_ptr'[i] = pool_buf_ptr'[j] => i = j
      BY <2>1, <2>3 DEF EveryBufferOnce, Control, TypeOK, FreeBufs, FreeSlots
    <3>2. \A u, v \in Threads : arg'[u] = arg'[v] /\ arg'[u] # NoBuf => u = v
      BY <2>1 DEF EveryBufferOnce, Control, TypeOK
    <3> QED
      BY <2>1, <2>2, <2>3, <3>1, <3>2 DEF EveryBufferOnce
  <2>5. NoBufferVanishes'
    BY <2>1, <2>2, <2>3 DEF NoBufferVanishes
  <2> QED
    BY <1>5, <2>4, <2>5 DEF NoRefusal, PushStore, Goto, Control, TypeOK
<1>6. ASSUME NEW t \in Threads, PushRefuse(t) PROVE Ownership'
  BY <1>6 DEF NoRefusal, PushRefuse, Goto
<1>7. CASE UNCHANGED vars
  BY <1>7
  DEF vars, fields, locals, EveryBufferOnce, NoBufferVanishes, NoRefusal,
      FreeSlots, FreeBufs, InFlight
<1> QED
  BY <1>1, <1>2, <1>3, <1>4, <1>5, <1>6, <1>7 DEF Next, Body, QuietAction

(* The inductive invariant: control, which any client keeps, and           *)
(* ownership, which clients that free only what they have keep.            *)
THEOREM Invariance ==
  ASSUME ~FreesAnything
  PROVE  Spec => [](Control /\ Ownership)
  BY ControlInit, ControlStep, OwnershipInit, OwnershipStep, PTL DEF Spec

(* No buffer is ever handed out twice or freed while it is free.           *)
THEOREM NoAliasing ==
  ASSUME ~FreesAnything
  PROVE  Spec => []EveryBufferOnce
<1>1. Ownership => EveryBufferOnce
  BY DEF Ownership
<1> QED
  BY <1>1, Invariance, PTL

(* No buffer is dropped but by an allocation that finds no address for it. *)
THEOREM Conservation ==
  ASSUME ~FreesAnything
  PROVE  Spec => []NoBufferVanishes
<1>1. Ownership => NoBufferVanishes
  BY DEF Ownership
<1> QED
  BY <1>1, Invariance, PTL

-----------------------------------------------------------------------------
(* The list implements the abstract pool. *)

(* Of the steps that move no buffer, only the test of the offset refuses   *)
(* an allocation, and then the list is empty.                              *)
LEMMA QuietRefusals ==
  ASSUME Control, NEW t \in Threads, QuietAction(t)
  PROVE  LET refused == {u \in Threads : pc[u] \in {"pop_refuse", "pop_fail"}}
         IN  \/ refused' = refused
             \/ refused' = refused \ {t}
             \/ refused' = refused \cup {t} /\ FreeBufs = {}
<1> DEFINE refused == {u \in Threads : pc[u] \in {"pop_refuse", "pop_fail"}}
<1> USE DEF Control, TypeOK, Goto
<1>1. CASE PopTest(t)
  <2>1. CASE pool_buf_offset >= buf_cnt
    <3>1. FreeBufs = {}
      BY <2>1, PoolAssumption DEF FreeBufs, FreeSlots, Bufs
    <3>2. pc' = [pc EXCEPT ![t] = "pop_refuse"]
      BY <1>1, <2>1, PoolAssumption DEF PopTest
    <3>3. refused' = refused \cup {t}
      BY <3>2
    <3> QED
      BY <3>1, <3>3
  <2>2. CASE ~(pool_buf_offset >= buf_cnt)
    <3>1. pc[t] = "pop_test" /\ pc' = [pc EXCEPT ![t] = "pop_read"]
      BY <1>1, <2>2, PoolAssumption DEF PopTest
    <3>2. refused' = refused
      BY <3>1
    <3> QED
      BY <3>2
  <2> QED
    BY <2>1, <2>2
<1>2. CASE PopFail(t)
  BY <1>2 DEF PopFail
<1>3. CASE QuietAction(t) /\ ~PopTest(t) /\ ~PopFail(t)
  BY <1>3
  DEF QuietAction, PopCall, PopClose, PopRead, PopOpen, PopRefuse,
      PushClose, PushTest, PushRead, PushDec, PushOpen, CloseGate, OpenGate
<1> QED
  BY <1>1, <1>2, <1>3

(* Every step of the list is a step of the abstract pool, or leaves it as  *)
(* it is.                                                                  *)
LEMMA StepSimulation ==
  ASSUME Control, Ownership, ~FreesAnything, [Next]_vars
  PROVE  [Abstract!Next]_(Abstract!vars)
<1> USE DEF Ownership, Abstract!vars
<1> DEFINE refused == {u \in Threads : pc[u] \in {"pop_refuse", "pop_fail"}}
<1>1. ASSUME NEW t \in Threads, QuietAction(t) PROVE [Abstract!Next]_(Abstract!vars)
  <2>1. UNCHANGED <<FreeBufs, Taken, allocated, Given, lost>>
    BY <1>1, QuietEffect, QuietBufs
  <2>2. \/ refused' = refused
        \/ refused' = refused \ {t}
        \/ refused' = refused \cup {t} /\ FreeBufs = {}
    BY <1>1, QuietRefusals
  <2>3. Abstract!Refuse(t) \/ Abstract!Answer(t) \/ UNCHANGED Abstract!vars
    BY <2>1, <2>2 DEF Abstract!Refuse, Abstract!Answer
  <2> QED
    BY <2>3 DEF Abstract!Next
<1>2. ASSUME NEW t \in Threads, PopTake(t) PROVE Abstract!Next
  <2> DEFINE b == pool_buf_ptr[pool_buf_offset]
  <2>1. /\ b \in FreeBufs /\ b \in Bufs
        /\ FreeBufs' = FreeBufs \ {b}
        /\ Taken' = Taken \cup {b} /\ Given' = Given
    BY <1>2, PopTakeEffect
  <2>2. UNCHANGED <<allocated, lost, refused>>
    BY <1>2 DEF PopTake, Goto, Control, TypeOK
  <2>3. Abstract!Take(b)
    BY <2>1, <2>2 DEF Abstract!Take
  <2> QED
    BY <2>1, <2>3 DEF Abstract!Next
<1>3. ASSUME NEW t \in Threads, PopPhys(t) PROVE Abstract!Next
  <2>1. /\ arg[t] \in Taken /\ Taken' = Taken \ {arg[t]} /\ Given' = Given
        /\ FreeBufs' = FreeBufs
    BY <1>3, PopPhysEffect, QuietBufs
  <2>2. UNCHANGED refused
    BY <1>3 DEF PopPhys, Goto, Control, TypeOK
  <2>3. Abstract!Deliver(arg[t]) \/ Abstract!Lose(arg[t])
    BY <1>3, <2>1, <2>2 DEF PopPhys, Abstract!Deliver, Abstract!Lose
  <2>4. arg[t] \in Bufs
    BY <2>1 DEF Taken
  <2> QED
    BY <2>3, <2>4 DEF Abstract!Next
<1>4. ASSUME NEW t \in Threads, PushCall(t) PROVE Abstract!Next
  <2>1. PICK b \in allocated :
          /\ allocated' = allocated \ {b}
          /\ Given' = Given \cup {b} /\ Taken' = Taken
          /\ UNCHANGED <<pool_buf_ptr, FreeSlots, lost>>
    BY <1>4, PushCallEffect
  <2>2. UNCHANGED <<FreeBufs, refused>>
    BY <1>4, <2>1, QuietBufs DEF PushCall, Goto, Control, TypeOK
  <2>3. Abstract!GiveBack(b)
    BY <2>1, <2>2 DEF Abstract!GiveBack
  <2> QED
    BY <2>3 DEF Abstract!Next, Control, TypeOK
<1>5. ASSUME NEW t \in Threads, PushStore(t) PROVE Abstract!Next
  <2>1. /\ arg[t] \in Bufs /\ arg[t] \in Given
        /\ FreeBufs' = FreeBufs \cup {arg[t]}
        /\ Given' = Given \ {arg[t]} /\ Taken' = Taken
    BY <1>5, PushStoreEffect
  <2>2. UNCHANGED <<allocated, lost, refused>>
    BY <1>5 DEF PushStore, Goto, Control, TypeOK
  <2>3. Abstract!PutBack(arg[t])
    BY <2>1, <2>2 DEF Abstract!PutBack
  <2> QED
    BY <2>1, <2>3 DEF Abstract!Next
<1>6. ASSUME NEW t \in Threads, PushRefuse(t) PROVE FALSE
  BY <1>6 DEF NoRefusal, PushRefuse, Goto
<1>7. CASE UNCHANGED vars
  BY <1>7 DEF vars, fields, locals, FreeSlots, FreeBufs, Taken, Given
<1> QED
  BY <1>1, <1>2, <1>3, <1>4, <1>5, <1>6, <1>7 DEF Next, Body, QuietAction

(* The gate turns every pop and push into one atomic step of the pool.     *)
THEOREM Refinement ==
  ASSUME ~FreesAnything
  PROVE  Spec => ImplementsBufferPool
<1>1. Init => Abstract!Init
  BY PoolAssumption
  DEF Init, Abstract!Init, FreeSlots, FreeBufs, Taken, Given, Bufs
<1>2. Control /\ Ownership /\ [Next]_vars => [Abstract!Next]_(Abstract!vars)
  BY StepSimulation
<1> QED
  BY <1>1, <1>2, Invariance, PTL DEF Spec, ImplementsBufferPool, Abstract!Spec
=============================================================================
