---------------------------- MODULE BufferPool ----------------------------
(***************************************************************************)
(* What a DMA memory pool promises about its buffers: each moves only      *)
(* along the way pool - taken - application - given back - pool, and an    *)
(* allocation is refused only at a moment when the pool is empty.          *)
(* DmaFreeList implements it.                                              *)
(***************************************************************************)
CONSTANTS
  Threads,
  Bufs,
  Unmapped   \* the buffers whose bus address is not known

VARIABLES
  pool,      \* the free buffers
  taken,     \* on their way from the pool to the application
  app,       \* the application's
  given,     \* on their way back to the pool
  lost,      \* nobody's any more
  refused    \* the threads that have been told there is no buffer

vars == <<pool, taken, app, given, lost, refused>>

Init ==
  /\ pool = Bufs
  /\ taken = {} /\ app = {} /\ given = {} /\ lost = {}
  /\ refused = {}

Take(b) ==
  /\ b \in pool
  /\ pool' = pool \ {b}
  /\ taken' = taken \cup {b}
  /\ UNCHANGED <<app, given, lost, refused>>

Deliver(b) ==
  /\ b \in taken \ Unmapped
  /\ taken' = taken \ {b}
  /\ app' = app \cup {b}
  /\ UNCHANGED <<pool, given, lost, refused>>

Lose(b) ==
  /\ b \in taken \cap Unmapped
  /\ taken' = taken \ {b}
  /\ lost' = lost \cup {b}
  /\ UNCHANGED <<pool, app, given, refused>>

GiveBack(b) ==
  /\ b \in app
  /\ app' = app \ {b}
  /\ given' = given \cup {b}
  /\ UNCHANGED <<pool, taken, lost, refused>>

PutBack(b) ==
  /\ b \in given
  /\ given' = given \ {b}
  /\ pool' = pool \cup {b}
  /\ UNCHANGED <<taken, app, lost, refused>>

Refuse(t) ==
  /\ pool = {}
  /\ refused' = refused \cup {t}
  /\ UNCHANGED <<pool, taken, app, given, lost>>

Answer(t) ==
  /\ refused' = refused \ {t}
  /\ UNCHANGED <<pool, taken, app, given, lost>>

Next ==
  \/ \E b \in Bufs : Take(b) \/ Deliver(b) \/ Lose(b) \/ GiveBack(b) \/ PutBack(b)
  \/ \E t \in Threads : Refuse(t) \/ Answer(t)

Spec == Init /\ [][Next]_vars
=============================================================================
