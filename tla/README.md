# A verification of target-syslibs

target-syslibs is the system abstraction layer of a switch driver: locks, threads,
timers, DMA buffer pools and logging behind a `bf_sys_` interface, for Linux user
space. This directory holds TLA+ models of the parts of it that keep state and are
used by several threads at once, the TLC runs that check them on small instances,
and proofs, checked by TLAPS, of the properties that matter most for any number of
threads, timers and buffers.

All the code that is modelled is in `src/src/bf_sal/linux_usr`, but for the timers,
which run on the libev that is vendored in `src/third-party/libev`. File names below
are relative to the first; `ev.c` is libev's.

## 1. Inventory

### The components

| component | source | keeps | operations |
|---|---|---|---|
| readers-writer lock | bf_sys_sem.c 303-505 | four counters, `valid`, a mutex, two condition variables | init, del, rdlock, wrlock, rdunlock, wrunlock |
| DMA pools | bf_sys_dma_hugepages.c | per pool: a LIFO of free buffers with its spin lock, the layout of the buffers in huge pages, the physical or bus address of each page; globally: the bus mapping functions | pool_create, pool_destroy, alloc, free, address lookups both ways, buffer_index, map_fn_register |
| timer service | bf_sys_timer.c | `u`: inited, the libev loop, its mutex, an async watcher; per timer: a libev watcher, the callback | timer_create, start, stop, del, init, and the event loop that init becomes |
| libev loop | ev.c | a heap of timers, pending events, a cached clock, an eventfd with its flags | ev_run, ev_timer_start/stop, ev_async_send |
| log configuration | bf_sys_log.c | two files, zlog's rules and categories, a trace level per module | init, close, level_set, syslog_level_set, trace_level_set, log, is_log_enabled |
| pthread wrappers | bf_sys_sem.c 34-302 | the pthread object they allocate | init/del/lock/unlock/wait/post of mutex, recursive mutex, condition, semaphore, rwlock |
| thread wrappers | bf_sys_thread.c | nothing | create, join, exit, attributes |
| sleep, clock, memory, string, version, compare-and-swap | bf_sys_timer.c, bf_sys_mem.c, bf_sys_str.c, bf_sys_sal.c, bf_sys_sem.c | nothing | one system or library call each |

### How they interact

- The components do not call each other, except that all of them take memory from
  bf_sys_mem.c and that errors are logged. What composes them is the application.
- The lock is shared state of its clients: six functions, one mutex, signals between
  them.
- A pool is shared by the threads that allocate and free; the DMA engine sees the
  addresses that alloc returns. create and destroy call two functions the application
  has registered, once per huge page.
- bf_sys_timer_init never returns: its thread is the event loop. Other threads change
  libev's state under `u.lock`, which the loop gives up only inside epoll_wait
  (callbacks l_release and l_acquire), and wake it through an eventfd. Callbacks of
  the application run in the loop's thread with `u.lock` held.

### What is hard in it, and what makes it correct

- **The lock.** Wakeups are sent only by the thread that brings a counter to zero or
  clears w_active; one that is sent to a thread that has since lost the race for the
  mutex, or never sent, leaves somebody blocked for ever. Counters are kept by hand
  along every path, wait failures included. `valid` is read without the mutex, and del
  destroys what others may be about to use. Correct: writers are alone, the counters
  are right, nobody is left blocked with nobody to wake him, readers do not pass a
  waiting writer, del takes only an idle lock down.
- **The free list.** pop and push are several accesses to two fields under a
  compare-and-swap; a free that is one too many, an allocation that fails after its
  pop. Correct: every buffer is in exactly one place, an allocation is refused only
  when there was no buffer, the gate never stays closed.
- **The pool.** Creation may fail at every resource it takes, each time with a cleanup of its own; page
  counts computed in three places; sizes that are no divisor of a page. Correct:
  nothing stays behind, no buffer overlaps another or the metadata, the address that
  is given to the DMA engine leads back to the byte it stands for.
- **Timers.** A timer is started while the loop sleeps with a timeout that was computed
  without it; a stop or del meets a timer that has expired and is queued; time is
  counted from a cached clock; callbacks run under the lock. Correct: only one thread
  is in libev, the loop does not sleep through a timer, no callback runs for a timer
  that is stopped or deleted, every started timer calls back.
- **Log configuration.** level_set edits a file with grep, sed and echo and has zlog load
  it again, with no lock; names of modules begin other names; the file outlives the
  process, and is copied from the user's only once. Correct: what is loaded is what the
  next process will load, no rule of the user's goes, a call does what it says and
  nothing else.
- **pthread wrappers.** An object on the heap behind a handle: five ways to initialise it,
  each with its own way to fail, and to delete it. Correct: nothing is freed while in
  use, nothing leaks, every call returns.

PROJECT.json lists these hazards one by one, at the line where each bites, with the
properties that cover it or the reason why none does.

## 2. The modules

| module | what it is |
|---|---|
| `RwMutexLock` | the lock, one step per pthread call |
| `ReadWriteLock` | what the lock promises its clients: the abstract specification, with its fairness |
| `RwMutexLockProofs` | theorems about `RwMutexLock` |
| `DmaFreeList` | the free list of a pool, one step per access to shared memory |
| `BufferPool` | what a pool promises about its buffers |
| `DmaFreeListProofs` | theorems about `DmaFreeList` |
| `DmaLayout` | the address arithmetic of a pool: pure operators |
| `DmaPool` | the life of pools with every failure of creation, over `DmaLayout` |
| `DmaLayoutProofs`, `DmaPoolProofs` | lemmas about the arithmetic, theorems about `DmaPool` |
| `TimerService` | the timer service and libev's loop |
| `TimerPromise` | what the service promises its clients |
| `TimerServiceProofs` | theorems about `TimerService` |
| `TimerClock` | `TimerService` with what clients measure on their own clock |
| `TimerClockProofs` | the theorem about `TimerClock` |
| `LogConfig` | the log levels, their file, and the commands that edit it |
| `LogConfigProofs` | theorems about `LogConfig` |
| `PthreadObjects` | the life and the use of a wrapped pthread object |
| `PthreadObjectsProofs` | theorems about `PthreadObjects` |
| `MC...` | instances for TLC |

Variables and actions have the names of the fields and functions of the code where
TLA+ allows it; PROJECT.json maps each definition to its lines. A definition whose
name has an underscore in the middle, as `PushTest_Unguarded`, is a mutant: a form of
the definition it stands beside that a plausible bug would give it. No specification
uses it; put in place of the original it violates the property that is meant to notice.

### RwMutexLock

A step is one pthread call, or the code between two of them that a thread runs while it
owns the mutex; nothing else can see or change the fields in between. `valid` alone is
read without the mutex, so a call begins with a step of its own that reads it
(`RdlockCall`, `WrlockCall`, `DelCall`...), after which the thread is in
pthread_mutex_lock (`rd_lock`...). pthread is modelled by what POSIX promises:
pthread_cond_wait releases the mutex and blocks in one step, a wakeup may be spurious,
a signal wakes some one waiter, a woken thread has to win the mutex against whoever
wants it (`Lock`). With `WaitErrors` a wait may also fail. `live` is the set of pthread
objects that exist, so that using one before init or after del can be stated. `held` is
a ghost: what the clients have been granted.

Clients give back what they hold, and do not ask for more while they hold something.
With `Coordinated`, which all runs have, they also keep init and del apart from each
other and from threads that *enter* rdlock or wrlock. The code needs that. Its busy
checks (383-392) count the threads that hold the lock or wait in the loops. A thread
that has passed the check of `valid` (415, 444) and waits in pthread_mutex_lock (418,
447) is counted nowhere: del finds the lock idle and destroys the mutex under it.
Nothing in the code could prevent that, and no document of the repository promises
otherwise, so it is an assumption here and not a finding. Nothing is assumed of threads
that hold the lock, wait for it or give it back.

Left out: NULL arguments, and errors of pthread_mutex_lock, unlock and signal, which the
code hands on without changing state.

### DmaFreeList

bf_pop_free_buf and bf_push_free_buf close `pool_gate` with a compare-and-swap, which is
one step; after it each read and write of `pool_buf_offset` and `pool_buf_ptr` is one
more, with the value read in a local (`off`), so that the model would show an
interleaving if the gate let one in. bf_sys_dma_alloc then looks the address up
(`PopPhys`); when that is BF_INVALID_PHY_ADDR it returns -1 and the buffer it has popped
belongs to nobody any more (`lost`). Each buffer is a number, its place in the pool.
`Unmapped` says for which of them the lookup fails. `FreesAnything` lets clients free
what they do not have.

### DmaLayout and DmaPool

`DmaLayout` is the arithmetic: rounding to an alignment, the offset of the first buffer,
the number of huge pages, address to page and back. Addresses within a pool are offsets
from its mapping. `DmaPool` goes through bf_sys_dma_pool_create resource by resource,
each of which may fail, with the cleanup the code has at that place; then allocates and
frees from a *set* of buffers, which is what `DmaFreeList` is proved to implement, and
destroys. Pools share nothing but `registered`, and clients register the mapping
functions while there are no pools, so one handle that is created and destroyed again
and again meets everything.

What the model keeps of the code although it looks odd:

- When the page table of the pool cannot be allocated (426), or its base address not be
  found (455), the huge pages, which came from mmap, are given to bf_sys_free. That is
  undefined behaviour of the allocator: here the process aborts or goes on, and the
  pages and their bus mappings stay, in spite of the comment at 429-430. Pages left that
  way are not there for a later creation of the same handle.
- A page whose physical address is not found is recorded as BF_INVALID_PHY_ADDR (277). The
  check of bf_sys_dma_alloc (553) compares the address *of the buffer* with it, which
  is equal only at offset 0 of the page. `AddressesLeadBack` leaves such pages out.
- An alignment of 0 passes the check for a power of two. The comment at 338 makes that the
  caller's affair, and the model's callers comply.

### TimerService

Time is in milliseconds and relative to libev's cached clock: `lag` is how far the real
one is ahead, `rem[t]` how long timer t has to go on the cached one. `Tick` lets a
millisecond pass; it may happen between any two steps, and up to `MaxLag` of them
between two looks of the loop at the clock. An iteration of ev_run is split where other
threads can act or see something: `Prepare` (time_update, pipe_write_wanted, the
timeout) up to l_release; `PollReturns` or `PollInterrupted`; `LoopLock` (l_acquire);
`Reify` (pipecb, time_update, timers_reify); then `Invoke` and `CallbackReturns` for each
pending timer, in any order; `InvokeEnds`. Clients: `Create`; `StartCall`, `StopCall`,
`DelCall` up to pthread_mutex_lock; `AppLock`; the body under the lock; `DelFree`.
`EvAsyncSend` keeps the three flags of evpipe_write apart, since whether a wakeup is
lost depends on their order.

stop leaves the remaining time in the watcher (ev.c 3786), and start does not set it
again: a timer that is stopped and started waits for what was left, not for
start_msecs (bf_sys_timer.h:74). The model does the same.

What clients are assumed to do: a timer is created and deleted only while no other call
on it is going on (nothing in the code would notice), and, with `WaitsForLoop`, nobody
calls the service between `inited = 1` and pthread_mutex_init. Without the second
assumption the run `timer_init_race` shows what happens.

`TimerClock` adds, for each timer, the part that has not passed on the real clock of the
time the watcher held when it was started. It constrains nothing: clients start, stop and
start again as they like.

### LogConfig

The state is what survives the process, the user's file and its copy `zlog-cfg-cur`
(`disk`), and what does not: the rules zlog has loaded (`conf`), the trace levels, the name
of the file in use. A file is the set of its rules: zlog gives a message to every rule that
matches it, so neither order nor repetition matters. A rule is a module or `*`, an
output and a level; what else a line holds (formats, names of log files) no property
needs. `Longer` says which names of modules go on after which others, since sed and grep
look for a name with anything after it.

bf_sys_log_init is split where the process may die or another file operation matters:
the look for the copy (`InitCall`), cp (`Copy`, `CopyFails`), zlog_init (`ZlogInit`), with
both strdups and the malloc allowed to fail. A level_set call is the commands of its shell
line: `Grep`, `Sed` (which reads the file and writes a new one), `Rename` (which puts that
in its place), `Append` (echo), and `Reload`. Calls of any number of threads interleave
between these. `Crash` may come at any time; in the middle of cp it leaves any part of the
file, perhaps ending in half a line (`Garbage`), with which zlog refuses to load it.

What the model keeps of the code although it looks odd:

- A copy that was cut short is never repeated, since only the existence of zlog-cfg-cur is
  looked at (123). `torn` marks that case, and `UserRulesSurvive` excepts it.
- A second bf_sys_log_init without a close fails in zlog_init, yet sets all trace levels
  (196-197).
- level_set to a file creates no rule, and syslog_level_set for a file whose name makes the
  command longer than 99 characters (364) adds none either. `SoloCallTakesEffect` names both
  cases.
- A rule for all modules is left alone by a call for one of them (308-326), so what the user
  sends somewhere for all modules still goes there, whatever level the module is given.
  `SoloCallTakesEffect` counts such a rule in (`ForAll`).
- A failing sed has the stdout form of level_set go on to echo, since it stands in
  `grep && sed || echo` (309).

What clients are assumed to do: bf_sys_log_init and bf_sys_log_close meet no other call,
and levels are set only while the log is open. Without that level_set uses a NULL name
(303) and logging uses categories that zlog_fini has freed (172). A command that has been
started when the process dies does not go on.

Left out: argument checks; the level NONE, which zlog does not know, so that what comes of
it is up to zlog; names of the user's file beyond 46 characters, which would cut the syslog
command within a quotation, and beyond 234, where a cp that fails goes unnoticed (136
compares its exit status with the length of the command); bf_sys_trace_get and
bf_sys_trace_reset, which are stubs.

### PthreadObjects

One handle and the places on the heap it may point to. `kind`, chosen once, says which of
the five wrappers it is. init may fail for want of memory (`InitNoMemory`) or in pthread
(`InitFails`), each kind in its own way: the three locks keep the memory and the pointer
(49, 112, 249), the condition variable and the semaphore give the memory back. del frees
only what pthread lets go (`Busy`), and only bf_sys_rwlock_del leaves the pointer
(`RwlockDel`). A call is two steps, `Enter` and its outcome: `Granted`, `Refused` (EBUSY,
ETIMEDOUT, EINTR, and EDEADLK for a thread that asks the error-checking mutex or the write
lock for what it has), or `CondWait`. A handle of kind `cond` is a monitor: the condition
variable with the mutex that goes with it. `MaxHeld` bounds how often a recursive lock is
taken and how far a semaphore counts.

What clients are assumed to do: init on a handle that is not in use; del when no thread is
in a call on it, though perhaps while one *has* the mutex; unlock by the owner; a wait on
the condition variable with the mutex locked; no write lock asked for by a reader.

## 3. The runs

| run | instance | states | what it shows |
|---|---|---|---|
| `rw_safety` | 4 threads read and write, 2 of them also init and del, waits fail and wake at will | 23,000 (symmetry) | exclusion, counters, no lost wakeup of a writer, del and init, writers first, `ReadWriteLock` implemented |
| `rw_fair` | 3 threads, 1 of them init and del, no wait fails | 3,000 | no reader left blocked; everybody served when clients stop asking; some writer served whatever others do, and a given one when other writers stop; fairness of `ReadWriteLock` |
| `dma_safety` | 3 threads, 3 buffers, 1 without address | 28,000 (symmetry) | every buffer in one place; `BufferPool` implemented |
| `dma_misuse` | 2 threads, 2 buffers, any buffer freed at any time | 83,000 | the offset stays in the queue; the gate never stops everybody |
| `timer_safety` | 2 threads, a one-shot and a repeating timer, callbacks that call the service | 566,000 (symmetry) | one thread in libev; no oversleeping; `TimerPromise` implemented |
| `timer_clock` | 1 thread, both timers | 417,000 | how early a callback may be; started timers call back; calls return |
| `pool` | 1 handle, every size up to a page of 16 units, alignments 1, 2, 4, up to 5 buffers, every failure | 34,000 | cleanup, layout, addresses |
| `log` | 2 threads, BF_PI and BF_PIPE, a user's file with a rule for all modules and one for BF_PI, 3 settings and syslog | 1,800,000 (symmetry) | loaded levels and the file agree; the user's rules survive; a call alone takes effect |
| `pthread` | 3 threads, each of the 5 kinds, 2 places on the heap | 15,000 | no use after free, no leak but the known ones; calls return |
| `timer_init_race`, `timer_callback`, `log_prefix` | | | violated: see the findings |

Why the bounds are enough to be interesting:

- Four threads on the lock are two writers and two readers that hold or wait at once,
  with signals that meet a woken thread, a barging one, or nobody. Threads that call
  init and del are not interchanged with the others, so the symmetry is only between
  those that do not; runs with liveness properties have no symmetry.
- Three threads and three buffers empty the pool, refuse an allocation, and have a pop, a
  push and a refusal under way at once. Two of each are enough for misuse, where what
  matters is the offset at 0 and at buf_cnt.
- `MaxBlock` stands for MAX_BLOCKTIME (59.743 seconds) and is larger than the times of the
  timers in `timer_safety`, so that the timeout is sometimes the one and sometimes the
  other. `MaxLag` bounds how late the loop may be; a repeating timer has then missed one
  whole period or more, after which how many makes no difference to timers_reify.
- Two calls are enough to lose an edit to the log's file, to append beside a rename, and to
  reload between the two steps of the other. The settings make BF_PI's calls meet BF_PIPE's
  rules, both outputs, a level that is lowered and one that is raised. The user's file
  sends all modules to stdout and BF_PI to a file, so a module's rule stands beside the
  one for all modules, and a call for either output finds a rule or none; BF_PIPE's rule
  comes from its own call. A name of 40 characters is too long for
  syslog_level_set, that of the copy is not, so both cases are met.
- Two places on the heap show a place that leaks beside one in use; three threads are one
  that has a lock, one that waits and one that wakes, posts or deletes.
- A page of 16 units with a header of 4 has sizes that divide it, that do not, that just
  fit with the header and just do not, one page and several. `Frames` makes pages that
  follow each other in virtual memory fall and leave gaps in physical memory.

Deadlock is checked, except in `timer_safety` and `timer_callback`, where a callback that
calls the service stops the loop for good, and `pool`, where an aborted process has no
steps.

### Findings

Three runs contradict what the repository says of itself.

- `timer_init_race`: `inited` is set before the mutex is initialised (bf_sys_timer.c 173,
  175). A start in between locks a mutex of zeros, which works, and then loses it to
  pthread_mutex_init: it is in libev together with the loop.
- `timer_callback`: the test's own callback (src/tests/test_bf_sal.c:46) calls
  bf_sys_timer_stop, which waits for a mutex of the default kind that its thread owns.
- `log_prefix`: bf_sys_log_level_set for BF_PI finds BF_PIPE's line with grep and has sed
  make it a line of BF_PI (bf_sys_log.c 308), where the comment says that a line that does
  not exist is added (299).

Two more show in what the passing properties have to except. A timer's delay counts from
libev's cached clock, which is as old as the loop's last wakeup, so a callback may come
before start_msecs have passed: `EarlyByLessThanTheLag` says by how much at most. And the
offset that is to keep buffers from spilling over a huge page (bf_sys_dma_hugepages.c
391-398) does so only for sizes that divide one: `NoSpillIfSizeDivides`.

### Fairness

- *Lock.* A thread inside a call keeps running (weak fairness of `Body`); a client that
  holds the lock gives it back; a thread that finds the mutex free again and again gets
  it in the end (strong fairness of `Lock`: POSIX does not promise it, and without it
  nothing built on a mutex makes progress). No call has to be made, no wakeup has to be
  spurious. `SomeWriterIsServed` needs no more, whoever else
  comes; `WriterIsServed`, for a given writer, supposes that other writers stop asking: a
  writer that comes anew may take the lock before the one that was signalled wakes up
  (452), and readers wait as long as there are writers. The code promises no more.
- *Lost wakeups when a wait fails.* A writer whose pthread_cond_wait fails decrements
  w_wait and returns the error without waking the readers that waited because of it
  (456-459), and there may be nobody left to do it. `ReaderNotStranded` and the liveness
  properties are therefore stated for waits that do not fail, which with a valid mutex
  and condition variable they do not.
- *Free list.* A thread inside a call keeps running. The spin lock is fair to nobody, so a
  single thread may spin for ever: what is claimed is that *some* call returns.
- *Timers.* The loop and the clients keep running, the clock ticks, the mutex as above.
  Callbacks return (part of `LoopBody`), unless they call the service.
- *pthread objects.* What a thread has it gives back, a thread that could be admitted again
  and again is so in the end, somebody posts and wakes. `EveryCallReturns` is about clients
  that stop calling at some point.
- *Log configuration.* Nothing blocks there, so there is no liveness to claim.

## 4. The proofs

Each `...Proofs` module first states an inductive invariant, then proves that the initial
states have it and that every action keeps it, then draws the theorems from it. TLC has
checked the invariants on the instances above.

**RwMutexLock** (assumes `ThreadsAssumption`, `ClientAssumption` and `Coordinated`).
`IInv` is TypeOK, `Shape`, CountersAgree, MutualExclusion and WriterNotStranded. The
properties are not inductive by themselves: that w_active = 0 does not underflow needs
the counters to be cardinalities; that a step changes only one of the sets counted needs
`Shape`, which ties the owner of the mutex, what is held, who is blocked on what, and
which pthread objects exist to the program counters. Actions are split into *quiet* ones,
which leave the sets counted alone, and *counting* ones, so that the arithmetic is done
once per kind. Theorems: TypeCorrectness, Exclusion, CountersAreRight,
NoLostWakeupOfWriters, DelIsExclusive, ObjectsExistWhenUsed, WritersBeforeReaders (an
action property), NoLostWakeupOfReaders (for waits that do not fail), and Refinement:
the lock implements `ReadWriteLock`.

**DmaFreeList** (assumes `PoolAssumption`). `Control` (types, one thread behind the gate,
the local copy of the offset fresh while it is used, who carries a buffer) is inductive
whatever clients free, which gives TypeCorrectness even for misuse. `Ownership`, the
conjunction of EveryBufferOnce, NoBufferVanishes and that no free is refused, is
inductive on top of it for clients that free only what they have; the step that needs an
argument is that a push finds room, since otherwise more buffers than there are would be
in the queue. Theorems:
TypeCorrectness, NoAliasing, Conservation, Refinement: the list implements `BufferPool`.

**TimerService** (assumes `TimerAssumption` and `WaitsForLoop`). `IInv` is TypeOK,
`LockOwned` (u.lock belongs to whom the program counters say), `CallsFit` (calls are on
timers that exist, a deletion is alone with its timer), `InitFits` (nobody waits for the
mutex before it is initialised), `HeapFits` (libev refers only to timers that exist and
are not about to be freed), `PipeFits` (a wakeup that async_pending promises is in the
eventfd or noted as skipped, in which case the loop does not sleep) and NoOversleep.
Theorems: TypeCorrectness, LoopIsExclusive, NeverOversleeps, Refinement: the service
implements implements `TimerPromise`. They hold whether or not callbacks call the service: a loop
that hangs is safe.

**TimerClock** (same assumptions). Its steps are steps of the service, which gives it `IInv`
for nothing. `EarlyByLessThanTheLag` speaks of the moment of a callback, and is not
inductive: what has to be known is where a timer stands before it expires. `OwedFits` says
that what the real clock still owes a timer in the heap is at most what libev will wait for
it, counted from now (`rem - lag`), and the age `stale` that the cached clock had when the
timer was started; `ExpiredFits`, that a timer which is pending or being called back is owed
less than that age. Expiry leads from the one to the other: libev has a timer expire
only when `rem` is negative. The steps that need an argument are Reify, which looks at the clock
and may catch up for periods that were missed, and Tick, where clock and lag move together.
Theorem: HowEarlyACallbackIs, for any threads, timers, periods and delays of the loop.

**LogConfig** (assumes `LogAssumption`). `IInv` is TypeOK; `InitAlone` (who opens the log is
alone, and knows whether there is a copy); `FileInUse` (while levels are set the file in use
is whole, and is the one the next process would read); `Settled` (where zlog is behind that
file, some call is about to append or reload); `RulesKept` (every place rules may be loaded
from, the files, what is loaded, and what any sed is about to put in place, keeps the
user's). `NextStartLoadsTheSame` is not inductive by itself since between the rename of one
call and its reload it is false, and another call may return in between; `Settled` holds
throughout. The lemma that carries the rest is `EditedKeeps`: sed keeps the module and
output of every rule whose name does not go on after another's. Theorems: TypeCorrectness,
LevelsOutliveTheProcess, TheUsersRulesSurvive.

What a single call does rests on a second invariant, `SoloFits`: while `solo` still has the
file as the call found it, that call is the only one there is, and at each of its commands the file
is what the commands so far make of `solo` (`HasCome`): unchanged up to grep and sed, what
sed has read and written before the rename, the result before the reload. A crash, a
failure, or a second call ends the claim, as it does in the model (`solo` becomes none).
`Result` is the file after all commands; that it has the level that was asked for and leaves
the other rules alone are the lemmas `ResultGivesLevel` and `ResultLeavesOthers`. They need that no
module is named `*`. Theorems: ACallAloneTakesEffect; and OnlyLongerNamesAreTouched, which
says that where no module's name begins another's, a call changes only its own module's
rules. The property of `log_prefix` is thus violated for that one reason.

**PthreadObjects** (assumes `ObjectAssumption`). `IInv` is TypeOK, `CallsFit` (which calls
threads can be in, given the kind) and `ObjectInUse` (what is live is the object of the handle
in use, and nobody has or calls on any other). The step that needs an
argument is del: that nobody has the lock comes from pthread_mutex_destroy for the mutexes,
from the clients for the rwlock, and from there being nothing to have for the semaphore.
Theorems: TypeCorrectness, NothingIsUsedAfterFree, OnlyFailuresLeak.

**DmaPool** (assumes `LayoutAssumption`, `PoolAssumption` and `AddressAssumption`). What holds
of a pool that is ready, or gone, holds because of what each step of its creation took, so
`IInv` says step by step what a pool has: `HeapFits` its parts from malloc; `PagesFit` its
huge pages, the addresses recorded so far (`RecordFits`: the first n pages, all of them when
the loop is over) and its bus mappings (`BusFits`: those of the recorded pages while the pool
is made or ready, and none where there are no huge pages, which is what lets a creation start
clean after one that left its pages behind); `FieldsFit` its arguments, aligned, and no
buffers before it is ready. `Shaped` and TypeOK are the shape and types. The arithmetic is in
`DmaLayoutProofs`, from quotients and remainders up to `BufferLies`, which says where a buffer
is for any sizes; it needs that an alignment divides the header, as the comment at 366 has it.
Theorems: TypeCorrectness, NothingFromMallocIsLeft, EveryPageIsMapped, BuffersLieApart,
DestructionIsComplete. They hold for any number of pools whose creations interleave, where
the run has one pool.

NoSpill, that buffers whose size divides a huge page do not spill over its end, needs
`PowersAssumption`: of such a size and the size of the header one divides the other, which is so since
a huge page (BF_HUGE_PAGE_SIZE) and the header (POOL_HDR_SIZE, 42) are powers of two. Then the first buffer
lies at a multiple of the size, and so do all (`BufferInOnePage`).

AddressesAreReversible states `AddressesLeadBack`: the address the DMA engine has for a
byte leads back to that byte and that buffer. It needs `AddressAssumption`, that the pages of
one pool lie apart in physical memory and on the bus and none of them is at the end of the address space, and an
invariant of its own, `AddressesFit`: each recorded address of a page is its frame's or its
bus address (`Recorded`), or not known; each buffer that is out has the address that the
arithmetic gives it; and a buffer that is neither free nor out is one whose address is
BF_INVALID_PHY_ADDR. It is kept apart from `IInv` since only these theorems need it. Two
more follow for which there is no run, having been checked on the instance of `pool`:
BuffersShareNoByte, that no bus address is a byte of two buffers that are out; and
BuffersAreKept, that the only buffers a pool ever loses start a page whose address was not
found, and none are lost with mapping functions registered. The last is what `Unmapped`
stands for in `DmaFreeList`.

Only model-checked: what holds under fairness, since liveness is out of the prover's
reach: `EveryCallReturns` of the lock and of the pthread objects, `WriterIsServed`,
`SomeWriterIsServed`, `CallsKeepReturning`, `StartedTimerFires`, `CallsReturn`, and of
`ImplementsFairReadWriteLock` the fairness (Refinement has the rest). Every invariant and action
property of a passing run is a theorem.

## 5. Not modelled

- The thread wrappers, one pthread call each whose result they return. They keep no state,
  and a model of them would be one of pthread.
- The wrappers of system calls that keep no state; the compare-and-swap helper is a
  builtin, which is a step of `DmaFreeList`.
- libev's other watchers, backends, signals and fork support, which bf_sys_timer.c does
  not use. zlog and gperftools are submodules whose source is not in the repository.
- Memory order. A compare-and-swap and a mutex order what is between them; the plain reads
  of `valid`, `inited` and t->timer are single steps that see the latest value.
- Integers of the pools are unbounded but for bus addresses: `size * cnt` of 2^31 bytes and
  more would overflow the int that counts pages (403), and a negative count is not
  refused.

## 6. Plan

Done: the lock, the free list, the timer service and its clock, the log configuration, the
wrapped pthread objects and the pools, each with its proofs; every safety property that a
passing run checks is a theorem. What is left:

1. A composition of `DmaPool` with `DmaFreeList`: that each pool's buffers, with `Unmapped`
   the buffers at the start of pages that were not found, are an abstract pool as
   `DmaFreeList` implements it. An allocation is one step of `DmaPool` where it is two of
   `BufferPool` (taken, then handed out), so what has to be shown is that a client sees no
   difference. BuffersAreKept is the part of it that is proved.
