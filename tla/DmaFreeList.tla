---------------------------- MODULE DmaFreeList ----------------------------
(***************************************************************************)
(* The LIFO of free buffers of a DMA memory pool (bf_sys_dma_hugepages.c)  *)
(* under concurrent bf_sys_dma_alloc and bf_sys_dma_free.  pool_gate is a  *)
(* spin lock made of a compare-and-swap; between closing and opening it a  *)
(* thread makes several accesses to pool_buf_offset and pool_buf_ptr, each *)
(* a step of its own here.                                                 *)
(*                                                                         *)
(* The pool is one that bf_sys_dma_pool_create has returned and that       *)
(* nobody destroys.  A buffer is named by its index in the pool.           *)
(***************************************************************************)
EXTENDS Integers

CONSTANTS
  Threads,   \* the threads that allocate and free
  buf_cnt,   \* the number of buffers of the pool
  Unmapped,  \* the buffers whose address computes to BF_INVALID_PHY_ADDR
  NoBuf,     \* not a buffer
  FreesAnything  \* clients also free buffers they do not have

Bufs == 0 .. buf_cnt - 1

ASSUME PoolAssumption ==
  /\ buf_cnt \in Nat
  /\ Unmapped \subseteq Bufs
  /\ NoBuf \notin Bufs
  /\ FreesAnything \in BOOLEAN

VARIABLES
  pool_gate, pool_buf_offset, pool_buf_ptr,   \* fields of bf_huge_pool_t
  allocated,   \* the buffers the application has
  lost,        \* the buffers neither the pool nor the application has
  pc,          \* where each thread is
  off,         \* the value each thread has read from pool_buf_offset
  arg          \* the buffer each thread is taking or giving back

fields == <<pool_gate, pool_buf_offset, pool_buf_ptr>>
locals == <<off, arg>>
vars   == <<fields, allocated, lost, pc, locals>>

(* From the successful compare-and-swap to the one that opens the gate.    *)
GatedPCs == {"pop_test", "pop_read", "pop_take", "pop_open", "pop_refuse",
             "push_test", "push_read", "push_dec", "push_store", "push_open",
             "push_refuse"}
PCs      == {"idle", "pop_gate", "pop_fail", "pop_phys", "push_gate"} \cup GatedPCs

TypeOK ==
  /\ pool_gate \in {0, 1}
  /\ pool_buf_offset \in 0 .. buf_cnt
  /\ pool_buf_ptr \in [Bufs -> Bufs]
  /\ allocated \subseteq Bufs
  /\ lost \subseteq Bufs
  /\ pc \in [Threads -> PCs]
  /\ off \in [Threads -> 0 .. buf_cnt]
  /\ arg \in [Threads -> Bufs \cup {NoBuf}]

Init ==
  /\ pool_gate = 0
  /\ pool_buf_offset = 0
  /\ pool_buf_ptr = [i \in Bufs |-> i]
  /\ allocated = {}
  /\ lost = {}
  /\ pc = [t \in Threads |-> "idle"]
  /\ off = [t \in Threads |-> 0]
  /\ arg = [t \in Threads |-> NoBuf]

Goto(t, from, to) ==
  /\ pc[t] = from
  /\ pc' = [pc EXCEPT ![t] = to]

ReadOffset(t) == off' = [off EXCEPT ![t] = pool_buf_offset]

-----------------------------------------------------------------------------
(* The gate *)

(* A mutant: the loop ends without looking at the old value. *)
CloseGate_Barges(t, from, to) ==
  /\ Goto(t, from, to)
  /\ pool_gate' = 1
  /\ UNCHANGED <<pool_buf_offset, pool_buf_ptr, allocated, lost, locals>>

CloseGate(t, from, to) ==
  /\ pool_gate = 0
  /\ Goto(t, from, to)
  /\ pool_gate' = 1
  /\ UNCHANGED <<pool_buf_offset, pool_buf_ptr, allocated, lost, locals>>

OpenGate(t, from, to) ==
  /\ Goto(t, from, to)
  /\ pool_gate' = 0
  /\ UNCHANGED <<pool_buf_offset, pool_buf_ptr, allocated, lost, locals>>

-----------------------------------------------------------------------------
(* bf_sys_dma_alloc and bf_pop_free_buf *)

PopCall(t) ==
  /\ Goto(t, "idle", "pop_gate")
  /\ UNCHANGED <<fields, allocated, lost, locals>>

PopClose(t) == CloseGate(t, "pop_gate", "pop_test")

(* A mutant: the last buffer is never given out. *)
PopTest_KeepsOne(t) ==
  /\ \/ pool_buf_offset >= buf_cnt - 1 /\ Goto(t, "pop_test", "pop_refuse")
     \/ pool_buf_offset < buf_cnt - 1 /\ Goto(t, "pop_test", "pop_read")
  /\ UNCHANGED <<fields, allocated, lost, locals>>

PopTest(t) ==
  /\ \/ pool_buf_offset >= buf_cnt /\ Goto(t, "pop_test", "pop_refuse")
     \/ pool_buf_offset < buf_cnt /\ Goto(t, "pop_test", "pop_read")
  /\ UNCHANGED <<fields, allocated, lost, locals>>

PopRead(t) ==
  /\ Goto(t, "pop_read", "pop_take")
  /\ ReadOffset(t)
  /\ UNCHANGED <<fields, allocated, lost, arg>>

PopTake(t) ==
  /\ Goto(t, "pop_take", "pop_open")
  /\ arg' = [arg EXCEPT ![t] = pool_buf_ptr[off[t]]]
  /\ pool_buf_offset' = off[t] + 1
  /\ UNCHANGED <<pool_gate, pool_buf_ptr, allocated, lost, off>>

PopOpen(t) == OpenGate(t, "pop_open", "pop_phys")

(* A mutant: an early return leaves the gate closed. *)
PopRefuse_KeepsGate(t) ==
  /\ Goto(t, "pop_refuse", "pop_fail")
  /\ UNCHANGED <<fields, allocated, lost, locals>>

PopRefuse(t) == OpenGate(t, "pop_refuse", "pop_fail")

(* No buffer: bf_sys_dma_alloc sets *v_addr to NULL and returns -1. *)
PopFail(t) ==
  /\ Goto(t, "pop_fail", "idle")
  /\ UNCHANGED <<fields, allocated, lost, locals>>

(* The address lookup: 0 with a buffer, or -1 with the buffer popped. *)
PopPhys(t) ==
  /\ Goto(t, "pop_phys", "idle")
  /\ IF arg[t] \in Unmapped
       THEN lost' = lost \cup {arg[t]} /\ UNCHANGED allocated
       ELSE allocated' = allocated \cup {arg[t]} /\ UNCHANGED lost
  /\ arg' = [arg EXCEPT ![t] = NoBuf]
  /\ UNCHANGED <<fields, off>>

-----------------------------------------------------------------------------
(* bf_sys_dma_free and bf_push_free_buf.  Any thread may give back a       *)
(* buffer of the application's, whichever thread allocated it.             *)

PushCall(t) ==
  /\ Goto(t, "idle", "push_gate")
  /\ \E b \in IF FreesAnything THEN Bufs ELSE allocated :
       /\ arg' = [arg EXCEPT ![t] = b]
       /\ allocated' = allocated \ {b}
  /\ UNCHANGED <<fields, lost, off>>

PushClose(t) == CloseGate(t, "push_gate", "push_test")

(* A mutant: the check of the offset is missing. *)
PushTest_Unguarded(t) ==
  /\ Goto(t, "push_test", "push_read")
  /\ UNCHANGED <<fields, allocated, lost, locals>>

PushTest(t) ==
  /\ \/ /\ pool_buf_offset = 0 \/ pool_buf_offset > buf_cnt
        /\ Goto(t, "push_test", "push_refuse")
     \/ /\ pool_buf_offset # 0 /\ pool_buf_offset <= buf_cnt
        /\ Goto(t, "push_test", "push_read")
  /\ UNCHANGED <<fields, allocated, lost, locals>>

PushRead(t) ==
  /\ Goto(t, "push_read", "push_dec")
  /\ ReadOffset(t)
  /\ UNCHANGED <<fields, allocated, lost, arg>>

PushDec(t) ==
  /\ Goto(t, "push_dec", "push_store")
  /\ pool_buf_offset' = off[t] - 1
  /\ UNCHANGED <<pool_gate, pool_buf_ptr, allocated, lost, locals>>

(* A mutant: the store before the decrement, one slot too far up. *)
PushStore_OffByOne(t) ==
  /\ Goto(t, "push_store", "push_open")
  /\ pool_buf_ptr' = [pool_buf_ptr EXCEPT ![off[t] % buf_cnt] = arg[t]]
  /\ arg' = [arg EXCEPT ![t] = NoBuf]
  /\ UNCHANGED <<pool_gate, pool_buf_offset, allocated, lost, off>>

PushStore(t) ==
  /\ Goto(t, "push_store", "push_open")
  /\ pool_buf_ptr' = [pool_buf_ptr EXCEPT ![pool_buf_offset] = arg[t]]
  /\ arg' = [arg EXCEPT ![t] = NoBuf]
  /\ UNCHANGED <<pool_gate, pool_buf_offset, allocated, lost, off>>

PushOpen(t) == OpenGate(t, "push_open", "idle")

(* The error of bf_push_free_buf: bf_sys_dma_free drops it, and the buffer. *)
PushRefuse(t) ==
  /\ Goto(t, "push_refuse", "idle")
  /\ pool_gate' = 0
  /\ lost' = lost \cup {arg[t]}
  /\ arg' = [arg EXCEPT ![t] = NoBuf]
  /\ UNCHANGED <<pool_buf_offset, pool_buf_ptr, allocated, off>>

-----------------------------------------------------------------------------
Body(t) ==
  \/ PopClose(t) \/ PopTest(t) \/ PopRead(t) \/ PopTake(t)
  \/ PopOpen(t) \/ PopRefuse(t) \/ PopFail(t) \/ PopPhys(t)
  \/ PushClose(t) \/ PushTest(t) \/ PushRead(t) \/ PushDec(t)
  \/ PushStore(t) \/ PushOpen(t) \/ PushRefuse(t)

Next == \E t \in Threads : PopCall(t) \/ PushCall(t) \/ Body(t)

Spec == Init /\ [][Next]_vars

(* A thread inside a call keeps running.  Nothing makes the gate fair to a *)
(* thread that spins on it.                                                *)
FairSpec == Spec /\ \A t \in Threads : WF_vars(Body(t))

-----------------------------------------------------------------------------
(* Safety *)

(* The slots of the queue that hold free buffers.  Between the decrement   *)
(* and the store of a push, the head slot still holds an old pointer.      *)
FreeSlots ==
  {i \in Bufs :
     /\ i >= pool_buf_offset
     /\ i = pool_buf_offset => \A t \in Threads : pc[t] # "push_store"}

FreeBufs == {pool_buf_ptr[i] : i \in FreeSlots}
InFlight == {b \in Bufs : \E t \in Threads : arg[t] = b}

(* No buffer is in two places: it is never handed out twice, never on the  *)
(* free list while a client may still write to it, never given back by two *)
(* threads.                                                                *)
EveryBufferOnce ==
  /\ \A i, j \in FreeSlots : pool_buf_ptr[i] = pool_buf_ptr[j] => i = j
  /\ \A t, u \in Threads : arg[t] = arg[u] /\ arg[t] # NoBuf => t = u
  /\ FreeBufs \cap (allocated \cup InFlight \cup lost) = {}
  /\ allocated \cap (InFlight \cup lost) = {}
  /\ InFlight \cap lost = {}

(* No buffer is in no place, except those popped by an allocation that     *)
(* then found no address for them.  In particular the error that           *)
(* bf_sys_dma_free ignores never occurs.                                   *)
NoBufferVanishes ==
  /\ Bufs = FreeBufs \cup allocated \cup InFlight \cup lost
  /\ lost \subseteq Unmapped

-----------------------------------------------------------------------------
(* The pool seen from its clients.  A pop owns its buffer from the step    *)
(* that moves the offset, a push until the step that stores the pointer.   *)
TakingPCs == {"pop_open", "pop_phys"}

Taken == {b \in Bufs : \E t \in Threads : arg[t] = b /\ pc[t] \in TakingPCs}
Given == {b \in Bufs : \E t \in Threads : arg[t] = b /\ pc[t] \notin TakingPCs}

Abstract == INSTANCE BufferPool WITH
  pool    <- FreeBufs,
  taken   <- Taken,
  app     <- allocated,
  given   <- Given,
  refused <- {t \in Threads : pc[t] \in {"pop_refuse", "pop_fail"}}

(* The gate makes the accesses of a pop or a push one atomic step, and an  *)
(* allocation fails only if at some moment of the call no buffer was free. *)
ImplementsBufferPool == Abstract!Spec

-----------------------------------------------------------------------------
(* Liveness *)

Finish(t) == pc[t] # "idle" /\ pc'[t] = "idle"

(* The spinning never stops everybody: as long as some thread is inside a  *)
(* call, calls keep returning.                                             *)
CallsKeepReturning ==
  \/ <>[](\A t \in Threads : pc[t] = "idle")
  \/ []<><<\E t \in Threads : Finish(t)>>_vars
=============================================================================
