--------------------------- MODULE ReadWriteLock ---------------------------
(***************************************************************************)
(* What rw_mutex_lock promises its clients, with no mutex, no counters and *)
(* no condition variables: many readers or one writer, a waiting writer    *)
(* keeps new readers out, and the lock is closed only when nobody uses it. *)
(* RwMutexLock implements it.                                              *)
(***************************************************************************)
CONSTANTS
  Threads,      \* the threads of the process
  WaitErrors    \* a wait may be broken off by an error

VARIABLES
  open,         \* between a successful init and a successful del
  held,         \* what each thread holds: "none", "read" or "write"
  waitRead,     \* the threads waiting to read
  waitWrite     \* the threads waiting to write

vars == <<open, held, waitRead, waitWrite>>

Holders(mode) == {t \in Threads : held[t] = mode}
InUse         == Holders("read") \cup Holders("write") # {}
Outside(t)    == held[t] = "none" /\ t \notin waitRead \cup waitWrite

Init ==
  /\ open = FALSE
  /\ held = [t \in Threads |-> "none"]
  /\ waitRead = {} /\ waitWrite = {}

Open ==
  /\ ~open
  /\ open' = TRUE
  /\ UNCHANGED <<held, waitRead, waitWrite>>

Close ==
  /\ open
  /\ ~InUse /\ waitRead = {} /\ waitWrite = {}
  /\ open' = FALSE
  /\ UNCHANGED <<held, waitRead, waitWrite>>

WaitToRead(t) ==
  /\ open /\ Outside(t)
  /\ Holders("write") \cup waitWrite # {}
  /\ waitRead' = waitRead \cup {t}
  /\ UNCHANGED <<open, held, waitWrite>>

WaitToWrite(t) ==
  /\ open /\ Outside(t)
  /\ InUse
  /\ waitWrite' = waitWrite \cup {t}
  /\ UNCHANGED <<open, held, waitRead>>

AcquireRead(t) ==
  /\ open /\ held[t] = "none" /\ t \notin waitWrite
  /\ Holders("write") = {} /\ waitWrite = {}
  /\ held' = [held EXCEPT ![t] = "read"]
  /\ waitRead' = waitRead \ {t}
  /\ UNCHANGED <<open, waitWrite>>

AcquireWrite(t) ==
  /\ open /\ held[t] = "none" /\ t \notin waitRead
  /\ ~InUse
  /\ held' = [held EXCEPT ![t] = "write"]
  /\ waitWrite' = waitWrite \ {t}
  /\ UNCHANGED <<open, waitRead>>

GiveUp(t) ==
  /\ WaitErrors
  /\ t \in waitRead \cup waitWrite
  /\ waitRead' = waitRead \ {t}
  /\ waitWrite' = waitWrite \ {t}
  /\ UNCHANGED <<open, held>>

Release(t) ==
  /\ open /\ held[t] # "none"
  /\ held' = [held EXCEPT ![t] = "none"]
  /\ UNCHANGED <<open, waitRead, waitWrite>>

Next ==
  \/ Open \/ Close
  \/ \E t \in Threads :
       \/ WaitToRead(t) \/ WaitToWrite(t)
       \/ AcquireRead(t) \/ AcquireWrite(t)
       \/ GiveUp(t) \/ Release(t)

Spec == Init /\ [][Next]_vars

(* A reader that nothing stands in the way of is admitted, and a free lock *)
(* that writers wait for goes to one of them.                              *)
Fairness ==
  /\ \A t \in Threads : WF_vars(t \in waitRead /\ AcquireRead(t))
  /\ WF_vars(\E t \in Threads : t \in waitWrite /\ AcquireWrite(t))
  /\ \A t \in Threads : WF_vars(Release(t))

FairSpec == Spec /\ Fairness
=============================================================================
