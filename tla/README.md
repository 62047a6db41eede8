# A TLA+ verification project for the C-OS kernel

C-OS is a 64-bit multiprocessor operating system with a monolithic kernel in C
(`src/src/kernel`), its own user library (`src/userland/lib`) and a Linux system
call personality. This directory holds TLA+ specifications of the part everything
else rests on: the kernel lock, the scheduler, the blocking primitives of the
kernel, the futex, the synchronisation library on top of it, and the life of
processes and threads; and of four services above it whose errors are hard to
provoke: copy-on-write memory, mailboxes and shared memory, the work of the other
processors (drawing tiles, ring-3 compute jobs), and TCP. TLC checks the
specifications on small instances; for the lock, the mutex, the futex, the library, the
life of processes, IPC and copy-on-write, TLAPS proves the safety properties for every
number of CPUs, threads, processes and frames.

`PROJECT.json` maps every definition to the source lines it models and lists the
runs, the hazards and the theorems.

    tlc -workers 2 -config MCMutex.cfg MCMutex      # a run
    tlapm MutexProofs.tla                           # the proofs of a module

## 1. Inventory

File names without a directory are in `src/src/kernel`.

| Component | State it keeps | Operations | What makes it correct |
|---|---|---|---|
| Kernel lock (`sync.c`, `scheduler.c`, `boot/context_switch.asm`) | lock, owner and depth words; per CPU the current thread and the one being left; per thread `on_cpu` and the saved depth | `sync_irq_save`, `sync_irq_restore`, release and reacquire around a context switch, interrupt capture | one CPU inside; the depth is the nesting of the running thread; no thread on two CPUs, also while it is half saved |
| Scheduler (`scheduler.c`, the AP part of `smp.c`) | 40 run queues, sleep list, wait queues, thread states, priorities, slices; kick and work counters per AP | tick, AP tick, kick, yield, sleep, block, unblock, wake, rebalance, start | lists are not torn; no thread is lost; RUNNING means on a CPU; ready threads run, sleepers wake, AP work is reached |
| Kernel mutex and semaphore (`sync.c`) | flag, owner, wait queue; count, wait queue | lock, trylock, unlock; wait, trywait, post | exclusion; no waiter is left behind a free mutex |
| Futex (`cos_futex.c`) | 64 hashed wait queues; address, deadline and reason per thread | wait, wake, timeout callback, end of a process | no wakeup missed or misdirected; a wake is not reported as a timeout; timed waits end |
| User synchronisation (`src/userland/lib/cos_sync.c`) | one or two words per object | mutex, condition variable, reader/writer lock, semaphore, once | exclusion; no lost wakeup with the fast paths that skip the kernel |
| Task lifecycle (`task.c`, `syscall.c`, `cos_linux.c`) | process and thread tables, zombie list, reaper's hint | create, clone, exit, kill, waitpid, reap | nothing freed in use; statuses kept for the parent; waiters not missed; exited means over |
| System call entry, interrupts, timer (`idt.c`, `irq.c`, `timer.c`) | none of its own | take the lock, dispatch, end of interrupt | the lock is held for a whole call |
| SMP (`smp.c`) | CPU states, one work ring per AP, tile sets, background jobs, the shootdown request | bring-up, IPIs, enqueue, take, steal, draw a frame in tiles, shootdown | each tile is drawn once, with a context that still exists; the caller gets back whatever the APs do; every CPU drops a stale mapping |
| Ring-3 compute jobs (`smp_user.c`) | a table of job slots, the set of claimed APs, per AP whether it is in ring 3 | start, stop, poll, free, end with the process | a job is in one place and keeps its slot; nothing of a process runs after its end |
| IPC (`ipc.c`) | per process a mailbox with a queue, a semaphore and references; shared memory regions and who attached them | send, receive (blocking, with a timeout), create, attach, end of a process | messages once, in order and to the process they are for; no receiver asleep beside a token; nothing freed in use |
| Memory (`mm/paging.c`, `cos_linux.c`, `memory*.c`) | page tables, share counts of frames, free frames, the cache of file pages, heap | fault, fork, mmap, mprotect, munmap, execve, exit; heap allocation | frames are freed after their last user; each process has a memory of its own |
| Files (`cos_fd.c`, `src/src/fs`) | descriptor tables, caches over FatFs | open, read, write, dup, close | descriptors counted |
| Network (`drivers/tcp.c`, `udp.c`, `cos_socket.c`, ...) | TCP connections: state, sequence numbers, two buffers, a block behind a gap, timers | connect, accept, send, receive, shut down, close, abandon, input, retransmit | the stream arrives whole and in order; the end is behind the last byte; no connection waits without a timer |
| Windows, desktop (`cos_app_window.c`, `kernel.c`, `src/src/gui`) | windows, event queues | draw, route events, end hung programs | events reach the right program |
| Drivers, power, audio, HTTP/TLS, loader, kernel modules, permissions, settings | device state, files, tables | register access, parsing, codecs | outside this project |

How they interact. Every system call takes the kernel lock at its entry
(`_isr_handler`) and gives it up when it returns or when the scheduler switches
the calling thread out. Mutex, semaphore, futex and waitpid block by
`scheduler_block` on a wait queue and are released by `wait_queue_wake_one`,
`wait_queue_wake_all` or `wait_queue_remove` with `scheduler_unblock`. The boot
CPU's timer interrupt counts sleepers down, ends time slices and calls the
futex's timeout callback; each AP has a timer of its own and is woken early by a
kick. The reaper runs in the boot CPU's idle thread. The user library calls the
futex only when its fast path on a word in user memory does not succeed.

The hard behaviours are the interleavings of CPUs on state that one word or one
flag protects (lock words read without a lock, user words changed while the kernel
compares them, claim words advanced by whoever comes first), the hand-over of a
lock inside a context switch, wakeups that race with timeouts, kills and other
wakers, frames whose owners change while other CPUs still have translations to
them, segments that are lost, doubled and reordered, code that resumes on another CPU much
later with values it read before, and the ends of processes that other CPUs are
still executing. `PROJECT.json` lists them under "hazards", each at its line.

## 2. Plan

Modules, in the order in which later ones rest on earlier ones:

1. `KernelLock`: one store at a time. It justifies that a section under the lock
   is one step in the modules below. *Done, proved.*
2. `Scheduler`: queues, ticks, switches, APs. It justifies the fairness
   of the modules below (`NobodyStarves`). *Done; its invariants proved.*
3. `Mutex`. *Done, proved.*
4. `Futex`. *Done, proved.*
5. `UserMutex`, `UserRwlock`, `UserSem`: compose the user code with the futex.
   *Done, proved.*
6. `TaskLifecycle`. *Done, proved.* Left: `process_exit()` split where it may block (the
   file and IPC helpers) and the window manager's kill.
7. `Tcp`: one connection over an unreliable network. *Done, proved.*
8. `Cow` and the abstract `PrivateMemory` it implements. *Done, proved, the refinement
   too.*
9. `Ipc`: mailboxes over the kernel semaphore, shared memory, ends of processes.
   *Done, proved.*
10. `ApWork`: rings, tiles, compute jobs. *Done, proved.*
11. `TlbShootdown`: the request, the acknowledgements and the giving up. *Left.*

## 3. The modules

| Module | Models | Used by |
|---|---|---|
| `KernelLock` | `sync.c`, the switch in `scheduler.c` and `context_switch.asm` | |
| `Scheduler` | `scheduler.c`, the AP tick, kick, idle loop and stealing in `smp.c` | |
| `SchedulerProofs` | the proofs about the two above | |
| `Queues`, `QueueProofs` | wait queues of `scheduler.c` | `Scheduler`, `Mutex`, `Futex`, `Ipc`; the lemmas also by `TaskLifecycleProofs` |
| `Mutex`, `MutexProofs` | `mutex_t` of `sync.c` | |
| `Futex` | `cos_futex.c` | `UserThread` |
| `UserThread` | the threads that run `cos_sync.c` on the futex | `UserMutex`, `UserRwlock`, `UserSem` |
| `UserMutex` | mutex and condition variable of `cos_sync.c` | |
| `UserRwlock`, `UserSem` | reader/writer lock; semaphore and once of `cos_sync.c` | `MCUserLocks` |
| `UserSyncProofs` | the proofs about `Futex` and the three above | |
| `TaskLifecycle`, `TaskLifecycleProofs` | `task.c`, the calls in `syscall.c` and `cos_linux.c` that reach it | |
| `Tcp` | `drivers/tcp.c` | |
| `Cow`, `CowProofs` | `mm/paging.c` (shared frames), the memory calls of `cos_linux.c` | |
| `PrivateMemory` | nothing: what `Cow` promises | `Cow` (refinement) |
| `Ipc` | `ipc.c`, `sem_t` of `sync.c` | |
| `CommunicationProofs` | the proofs about `Tcp` and `Ipc` | |
| `ApWork`, `ApWorkProofs` | the rings, background jobs and tiles of `smp.c`; `smp_user.c` | |

An `MC...` module with its `.cfg` files instantiates each of them. Operators
marked "Bug:" are wrong versions of the definition below them; putting one in its
place must break the property that is there for it ("mutants" in `PROJECT.json`).

### KernelLock

`lock`, `owner`, `depth` are the three words; each load that decides and each
store is a step. `pc[c]` says where a CPU is: in ordinary code, spinning
(`TestAndSet`), storing owner and depth (`SetOwner`, `SetDepth`), clearing them
(`ClearOwner`, `Unlock`), or between the halves of a switch (`SwitchFinish`,
`Resume`). `nest` counts the sections open on a thread's stack, `saved` is the local
in which `scheduler_do_context_switch()` keeps the depth. `IrqEnter` and `IrqEnd`
are a timer interrupt: it captures the thread from its frame, so that a switch in
the handler carries the depth of the interrupted code. Loads and stores are
sequentially consistent: x86 keeps the order of stores, and the test-and-set is a
locked instruction. The lock profile, which only measures, is left out.

### Scheduler

`queues` is a record of the run queues, the sleep list and the wait queues as
sequences of threads; only the run queues that some priority in use selects are
there. `current`, `kick`, `work` are the fields of `cpu_local_t` and the work
counter. `waking` is the thread in the hands of a kernel thread between the two
sections of `scheduler_wake_thread()` (`WakeDetach`, `WakeEnqueue`). A tick that
switches threads ends there, since the outgoing thread was captured from its
interrupt frame (`ctx_precaptured`) and resumes in its own code; the sleepers are
counted down and the rebalance happens only on the other ticks. `Tick` takes the
watchdog's choice of APs as an input, because it depends on hardware ticks that
may be missing. Threads stay linked in their run queue while they run, as in the
code. Enqueueing work and the kick that follows it are one step here; the kick
alone changes nothing the properties see except to make the tick come early.
A killed thread does not occur in this module (see `TaskLifecycle`).
Taking a thread off a list and joining the run queues are the recursive functions
`Without` and `Concatenation` of `Queues`; the sleepers that are due (`Due`) and the share of them
that joins a run queue (`ThreadsOf`) are defined with `Without`, the order in which a rebalance comes to
the threads (`Swept`) with `Concatenation`. Their lemmas are in `QueueProofs` and `SchedulerProofs`.

### Mutex

`pc` says where a thread is with respect to the mutex. `Lock` and `Retry` are
passes through the loop of `mutex_lock()`: take it or block at the tail.
`Unlock` clears the flag and wakes the head. `StrayUnlock` is a call by a thread
that is not the owner: the code ignores it while another thread owns the mutex and
performs it when nobody does. `Kill` is `process_exit()` of the thread's process by
another thread: the thread leaves the queue, the mutex stays as it is.

### Futex

`mem` are the words of every process. `FutexWait` compares and parks in one step,
`Return` is the rest of the call once the thread runs again; `FutexWake` walks
the bucket; `Tick` and `ExpireTimeouts` are the clock and the timer callback;
`ExitProcess` takes a process's threads out; `Store` is any user instruction. The
deadline is kept as the time left until it, so the clock needs no bound.

### UserThread, UserMutex, UserRwlock, UserSem

`UserThread` extends `Futex` with a program counter per thread and what the three
libraries share: a load or store of the thread's own word, the end of a futex call.
Each of the others extends it and makes every atomic
instruction of `cos_sync.c` that matters to another thread a step. The kernel's
half of a wait or a wake is `Futex`'s own action. A load followed by a
compare-and-swap is one step when the swap succeeds and none when it fails (the
code loads again). `UserMutex` has the uncontended path, the spin, the exchange
loop, trylock and timedlock, and the condition variable with its sequence number
and waiter count; `UserRwlock` the word with reader count, writer bit and
waiting bit, its bits placed above the number of threads; `UserSem` the counting
semaphore with both waits and `cos_once()`.

### TaskLifecycle

`proc` and `thr` are the tables; a process has its state, parent, whether its
status can be collected, whether its page tables exist, and how often it was pushed
on the zombie list. `cpu` is each CPU's current thread. A system call is one
step, as the lock is held for all of it. The reaper takes its steps
(`ReapStart`, `ReapDeadThreads`, `ReapZombies`, `ReapEnd`) with anything in between.
The hint counters are kept as two comparisons, `pending` and `fresh`, so that they
need no bound. With `LateCalls` a thread that waited for the lock at its system call's
entry while its process was ended goes on with its call, as the code allows.
`owed` is a history variable: the exits a live parent has yet to collect.

### Tcp

`sock` is one record per host, with the fields of `tcp_socket_t`: state, the
sequence numbers, the send queue and how much of it is out, the receive buffer
with the one block it can keep behind a gap, and whether the retransmission timer
runs. Everything `tcp.c` does with a socket is inside `tcp_registry_lock`, so a
segment that arrives (`Deliver`), a call of the application (`Connect`, `SocketSend`,
`Recv`, `ShutdownWr`, `Close`, `Abandon`, `Accept`) or a timer (`Retransmit`,
`TimeWaitEnds`) is one step; the blocking connect and close have a step per
section. `Input` dispatches on the state as `tcp_input_impl()` does; its operators are
named for the branches (`InputSynSent`, `ProcessAck`, `TakeData`, `OutOfOrder`,
`Join`). A byte of data is its position in the stream, so that a shifted or doubled
byte shows. Sequence numbers are taken modulo `SeqMod` and compared by the sign of
their difference. An armed timer may fire at any time, which covers every round-trip
estimate. The congestion window is a choice, at every
step, between one segment and a window that does not bind. `Adverse` lets the
deadlines of the blocking calls pass while segments are under way, and lets
`ip_send()` fail.

### Cow and PrivateMemory

`map` and `rw` are a process's page table, `count` the share counts (`g_cow`, where 0
means one user), `free` the allocator, `cache` the pages of read-only files that
processes share, `content` what a frame holds. `tlb` is a writable translation that some
CPU still has after the page table changed: `fork` makes the parent's pages read-only one
by one and flushes once, and meanwhile the parent's other threads write through it
(`Write`). A fault or a call is one step; a file mapping that has to read the disk
(`MmapMiss`, `MmapOver`, `MmapFilled`) and a fork (`ForkTable`, `ForkCopy`,
`ForkShares`, `ForkCopies`, `VmFlush`, `ForkEnds`, `ForkFails`) take several.

`PrivateMemory` says what all this is for. Its state is what each process reads in each
page, and its steps change one process's pages, or start a child with what the
parent's pages held while the fork copied. `ImplementsPrivateMemory` is the refinement:
`view` is computed from page table and frames (`Views`), `forker` is `fork.by`, and
`snap`, the values that the parent's pages have had since the copy began, is a
history variable of `Cow`, because the abstract step "the child starts" chooses among them.

### Ipc

A call is one step up to the point where it blocks in `sem_wait()` or sleeps in the
poll of a receive with a timeout. `box` is a mailbox with its queue, the semaphore
(`items`, `waiters`), the reference count and the mark that it is retired; `table` is
where senders find it; `inside` is the mailbox a thread holds a reference to, which need
not be the one in the table when the thread comes back. Slots of the process table are
used again, pids are not. `ProcessExit` retires the mailbox, posts `RetirePosts` tokens
and leaves the regions; a thread on another CPU may linger in user mode until `OffCpu`.
`due` is a history variable: what was accepted for the process and not yet received.

### ApWork

None of this code is under the kernel lock, so a step is one atomic access or one section
of a ring's spin lock. A tile set's `claim` word is a pair of generation and next
tile; a helper loads it, tries to advance it, runs the tile and counts it done (`TileLoad`,
`TileTry`, `TileRun`, `TileDone`), and so does the caller between posting helpers and
retiring the set. Helpers that were posted and not reached are cancelled, and helpers
of an earlier call may run later on a set that another call has taken. A
compute job goes from `Start` through a pinned ring entry to the AP (`JobCheck`, `JobEnter`,
`JobLeaves`, `JobOut`); `Stop`, `FreeJob` and the process's end (`ExitBegins`, `KillPass`,
`KillRequest`, `Reap`) come at any point of it. `s_enqueue_pinned` is the global it is in the
code: an enqueue by another CPU in that window is pinned too. `Mixes` bounds the calls and
the jobs together, so that their combinations are small and not their product.

## 4. The runs

Twelve runs, all of which pass. Times are for two workers.

| Run | Instance | Distinct states | Time |
|---|---|---|---|
| `kernel_lock` | 2 CPUs, 3 threads, nesting up to 3 | 9,240 | 2 s |
| `scheduler` | 3 CPUs, 2 user threads, 1 kernel thread, 1 wait queue, rebalancing | 143,819 | 100 s |
| `scheduler_liveness` | 2 CPUs, 2 user threads, 1 kernel thread, equal priorities | 9,076 | 60 s |
| `mutex` | 5 threads, two of them mortal, one that unlocks astray | 2,253 | 1 s |
| `futex` | 3 threads of 2 processes, 2 words each, 2 buckets, word values 0 and 1 | 124,288 | 35 s |
| `user_mutex` | 3 threads, mutex and condition in one bucket, 2 signals | 2,946,939 | 90 s |
| `user_locks` | 4 threads on a reader/writer lock, or on a semaphore and a once, settled at the start | 949,048 | 70 s |
| `task_lifecycle` | 2 CPUs, 3 process slots, 3 thread slots, 3 pids | 1,104,242 | 45 s |
| `tcp` | 3 bytes, sequence numbers modulo 16, 2 segments in flight, 1 fault | 1,355,364 | 110 s |
| `cow` | 3 processes, a stack and a page each, 2 frames, 1 file page | 573,934 | 120 s |
| `ipc` | 3 processes in 2 slots, 3 threads, 2 mailboxes, 1 region | 972,155 | 70 s |
| `ap_work` | 2 APs, 1 caller with up to 2 calls, 1 process with up to 3 jobs | 810,288 | 150 s |

What the properties say:

* `kernel_lock`. `MutualExclusion`: one CPU is inside a section, although a CPU
  recognises its own recursion by two unprotected loads. `DepthIsNesting`: the
  depth word is the nesting of the thread that runs inside, after any number of
  switches. `OneCpuPerThread`: no CPU takes a thread whose stack another one has
  not left.
* `scheduler`. `LinkedOnce`: no thread is in two lists, which share one pair of
  pointers. `NoThreadLost`: the one that has to make a thread run can find it.
  `RunningIsCurrent`: the state and the CPUs agree, each thread is on one CPU at most
  and kernel threads are on CPU 0.
* `scheduler_liveness`. `NobodyStarves`, `WorkGetsItsCpu`, with threads that may
  compute for ever. They need equal priorities: a higher priority starves a
  lower one by design. For sleepers this is not obvious, as a tick that
  switches threads does not count them down: with a time slice of a single tick
  they can sleep for ever.
* `mutex`. `MutualExclusion`, `NoStrandedWaiter` and `WaitersProgress`, the last two
  until a thread is killed (section 7).
* `futex`. `WakeReachesItsWaiters`: a wake releases as many of the caller's own waiters
  as it may. `WakeIsNotTimeout`: a wait that was woken does not report a timeout, though
  its deadline passes before it runs. `TimedWaitEnds`.
* `user_mutex`. `UserMutualExclusion`; `NoLostWakeup`: a parked thread has a holder
  or a waker that will reach it, also when timed waiters give up; `SignalNotLost`:
  a signal or broadcast sent after a waiter has read the sequence number releases it.
* `user_locks`. `ReadersAndWriter`: the word counts the readers inside and a
  writer is alone, in spite of the plain store of 0. `ParkedWillWake`.
  `NoIdleToken`: no token lies idle while a waiter sleeps with nobody to wake it.
  `OnceIsOnce`: the initialiser runs once, nobody returns before it has ended, and
  nobody sleeps after.
* `task_lifecycle`. `NoFreeUnderFoot`: page tables that a CPU uses exist.
  `ExitStatusKept`, `WaiterNotMissed`, `ExitedIsOver`: a thread of an exited process is
  neither queued nor picked. `ReapHintCovers`: what is left to reap is announced.
* `tcp`. `StreamIntegrity`: the receive buffer holds the peer's bytes in their order and the
  block behind the gap lies where it belongs. `AckedIsTaken`: what the sender forgets, the
  receiver has. `EofIsEnd`: no FIN before the last byte. `TimerArmed`: a connection that
  waits for the peer has its timer running, so that no loss leaves it waiting for ever.
* `cow`. `MappedIsHeld`: no page table, translation or cache entry leads to a free frame.
  `WritableIsPrivate`: what can be written through one page is seen through no other.
  `ImplementsPrivateMemory`: the refinement of section 3.
* `ipc`. `DeliveryInOrder`, also across the reuse of a slot; `NoStrandedReceiver`: no receiver
  sleeps beside a token nobody will take; `InsideIsHeld`: a mailbox is not freed or replaced
  under a receiver; `MappedIsAttached`: a living process keeps the regions it mapped.
* `ap_work`. `CallIsWhole`: when `smp_parallel_tiles()` returns, every tile was run once, and
  no tile runs with the context of a call that has returned. `CallReturns`: it returns
  although no AP need ever take a helper. `JobSlotHeld`: a job is in one place, on the CPU
  claimed for it, keeps its slot until it has left, and is gone when its process's end goes on.

Bounds. Three CPUs are two APs, the least for kicks that choose among APs and for
stealing; two user threads and a kernel thread leave a CPU idle or contended as
they come and go. A slice of one and of two ticks gives ticks that end it and
ticks that do not. Three threads on a user mutex are a holder, a parked thread and
one that barges or gives up; the fourth on the reader/writer lock adds a second
reader beside a writer and a waiting writer. Timeouts of one tick suffice, as the
order of events around the deadline is what counts. Sequence numbers and counts
stop at 2 (`MaxSeq`, `MaxCount`) and pids at `MaxPid`; these bounds are in the
guards. Three process slots and three thread slots are filled, exhausted and
reused. Two processes in `futex` use each bucket for words at two addresses.

In `tcp` the client writes three bytes and a segment holds two, so that retransmissions are cut
differently from the first transmissions; both buffers hold three, so that the window shuts
and the queue fills; the client's sequence numbers wrap during the handshake and the data.
Two segments in the network and one fault are enough for a gap, a reordering and a stale ACK
together; one retry leads to the end of the retries. In `cow` three processes are a parent, a
child and a grandchild that share a frame; two frames are too few for three copies; a count
of three is at its limit when all three share. In `ipc` one token is posted at retirement and
two threads of a process may wait, so that there are more receivers than tokens; three pids in
two slots make a slot's second use. In `ap_work` a ring of one entry is full at once, and one set
that two calls use after each other lets helpers of the first meet the second.

Deadlock is not checked where the system may really stop: threads whose holder was
killed (`mutex`), processes that have ended (`futex`, `task_lifecycle`, `cow`, `ipc`), programs
in which everybody waits (`user_mutex`, `user_locks`), connections that are closed or
given up (`tcp`), an AP that jobs occupy for good (`ap_work`).

Symmetry is used only in runs whose temporal properties are none or the refinement of
`cow`, which is a safety property, and only over threads, CPUs, processes and frames
that no definition tells apart.

## 5. Fairness

* `Scheduler!FairSpec`: weak fairness of the boot CPU's tick and of each AP's
  timer interrupt (the timers are programmed periodic and interrupts are enabled in
  user mode and in idle), of the boot steps and of an idle AP's polling of its work;
  strong fairness of the second half of `scheduler_wake_thread()`, because the
  thread in the middle of it is preempted and gets the CPU again and again. None
  for what threads ask for: a program may compute for ever.
* `Mutex!FairSpec`: weak fairness of a woken thread's pass and of the holder's
  unlock: ready threads run (`NobodyStarves`), and kernel code holding a mutex ends.
* `Futex!FairSpec`: weak fairness of the clock, of the timeout callback and of a
  released thread's return, for the same reasons.
* `ApWork!FairSpec`: weak fairness of a caller's own steps and of an AP inside a tile, which
  runs with interrupts off. No AP has to take work and no job has to end: `CallReturns`
  holds because the caller draws what nobody else takes.

## 6. What is proved

TLAPS checks every leaf of the proofs. Nothing is taken on trust but the `ASSUME`s on the
constants, which TLC evaluates too: NULL is no thread, sizes are numbers, the sets of threads,
slots, pages, frames and CPUs are finite, tables are indexed by numbers, the bits of the
reader/writer word lie above the number of threads; every CPU has an idle thread of its own,
priorities are within 1 to 99 and closed under what the rebalance subtracts; the two directions of a
connection are shorter than half the sequence space, less a window. Everything else is for every value of the
constants. Each theorem's invariant was first checked by TLC on the instance of its run.

| Module | Theorems | Inductive invariant |
|---|---|---|
| `SchedulerProofs` | `KernelLockTypeCorrect`, `KernelLockMutualExclusion`, `KernelLockDepthIsNesting`, `KernelLockOneCpuPerThread`, `KernelLockSavedIsNesting` | `IInv` |
| | `SchedulerInductive`, `SchedulerTypeCorrect`, `ThreadsAreLinkedOnce`, `ThreadsAreFound`, `CpusRunTheirThreads` | `SchedulerInv` |
| `MutexProofs` | `MutexExclusion`, `MutexNoStrandedWaiter` | `ExclusionInv`, `QueueInv` |
| `UserSyncProofs` | `FutexQueues`, `FutexWakeIsNotTimeout`, `FutexWakeReachesItsWaiters` | `FutexInv` |
| | `UserMutexExcludes`, `UserMutexLosesNoWakeup`, `CondSignalNotLost`, `OnceRunsOnce`, `SemLosesNoToken`, `RwlockExcludes`, `RwlockParkedWillWake` | `MutexInv`, `CondInv`, `OnceInv`, `TokenInv`, `RwInv` |
| `TaskLifecycleProofs` | `ExitIsFinal`, `NothingFreedUnderFoot`, `ExitStatusIsKept`, `WaitpidMissesNoExit`, `ReapHintIsNotLost` | `TaskInv`, `HintInv` |
| `CommunicationProofs` | `MailIsDeliveredInOrder`, `ReceiverIsNotStranded`, `MailboxIsHeld`, `SharedMemoryIsAttached` | `IpcInv` |
| | `TcpInductive`, `TcpTypeCorrect`, `StreamIsIntact`, `AckedBytesAreTaken`, `EofIsTheEnd`, `TimerIsArmed` | `TcpInv` |
| `CowProofs` | `FramesAreHeld`, `WritesArePrivate`, `CowImplementsPrivateMemory` | `CowInv`, `ViewInv` |
| `ApWorkProofs` | `ApWorkInvariant`, `TilesRunOnce`, `JobsStayInPlace` | `ApInv` (`JobInv`, `TileInv`), `Ended` |

`QueueProofs` has the lemmas about thread queues that these share: which threads `Append` and
`Without` leave in a sequence, that nobody comes to stand in it twice (`Once`), and that the
order is kept. What `Without`, a recursive function, computes is proved with the least
position at which it would be wrong.

**The kernel lock.** None of the five is inductive alone. `IInv` has these parts:

* `ExclusionInv`: at most one CPU is between its test-and-set and its final store,
  and the lock word is 1 meanwhile;
* `OwnerInv`: the owner word names a CPU exactly between its two stores of it.
  This is why a CPU's unprotected look at the owner word can be trusted: nobody else
  writes that CPU's number;
* `PlacementInv`: who is current, who is being left and which threads are marked
  `on_cpu` agree;
* `NestingInv`: at every place of the code, the depth word, the wanted depth or
  the saved depth, whichever is in force, is the nesting of the thread.

Exclusion needs `OwnerInv` (a wrong match would enter without the test-and-set),
which needs `NestingInv` (the owner is cleared at depth 0 only), which needs
`PlacementInv` (a thread on two CPUs would have two depths).

**The scheduler.** `SchedulerInv` is the types, `RunningIsCurrent`, and `Placed`, which says for every
list whom it holds: a run queue has threads that can run, of the priorities that select
it (`RunOK`); the sleep list has the sleeping ones (`SleepOK`) and a wait queue those that are blocked on
it (`WaitOK`), exactly and once; a READY thread is in its run queue or in the hands of
one waker between the two sections of `scheduler_wake_thread()` (`ReadyOK`, `WakingOK`); nobody is dead and an
idle thread never blocks (`AliveOK`). `LinkedOnce` and `NoThreadLost` follow, and are not inductive without
each other: a thread that was in two lists would be lost from one when it is taken
off the other, and a list that held a thread of another state would give it away twice.

`Placed` has the queues, states and priorities as parameters, because an operation goes
through values that no step ends with. A call that gives the CPU up
first leaves the state in which only the outgoing thread is out of place (`Leaving`), and one
lemma (`SwitchPlaced`) takes every pick from there to the end of the switch; the others are wake-ups
and sleepers that are due, which join run queues while CPUs go on running, and the
rebalance, which changes priorities and queues of many threads at once. For that one the lemmas say
which threads are in a concatenation of queues and that each is there once. A queue is searched with the
priority of the moment, so the proof has to show that the rebalance moves
every READY thread whose priority it changes and that the RUNNING ones, which it takes off without putting
them back, are not needed in a queue until they stop running.

**The mutex.** `QueueInv` says that the queue holds the blocked threads once each and, while
nobody was killed, that a held mutex has a thread inside (`HeldInside`) and queued threads have
a thread inside or a woken one (`Unstranded`). Threads may be killed at any time; what stops
being true then is said in section 7.

**The futex.** `ParkedIsQueued`: a parked thread is in the bucket of its word, once, and nobody
else is in a queue. With it a wake is known to take the first candidates of its
bucket in the order of their arrival (`WokenAreFirst`). The walk compares addresses and not
processes (section 7), so the theorems about wakeups have the hypothesis `DistinctBuckets`:
no two processes' words at one address hash to one bucket. `FutexQueues`,
`FutexWakeIsNotTimeout` and the exclusion theorems do not need it.

**The user library.** `KernelInv`, the part of the futex's invariant that the
library's steps keep, is common to all; each invariant adds where the threads that
are parked on a word go on. `MutexInv`: whoever is inside holds, the word is not 0 while somebody
holds, and one does. `NoLostWakeup` is then inductive relative to `MutexInv`. `CondInv`: the count
of waiters is right, although it is read outside of the mutex, and the sleepers are queued in the
order of the sequence numbers they saw (`QueueInOrder`), so that those a signaller owes a wakeup
stand ahead of everybody who came after the signal. `OnceInv`: the word is 1 exactly while one
thread initialises. `TokenInv`: while somebody sleeps, the tokens are no more than the threads
that will look at the count. `RwInv`: the word is the number of readers, or the writer's bit,
with the waiting bit (`Shape`), a writer is alone (`Alone`), and the waiting bit is alone in the
word exactly while one last reader is about to reset it (`Resets`), which is what makes its plain
store of 0 safe.

**Processes and threads.** The theorems have the hypothesis `LateCalls = FALSE`, which
section 7 explains: with `TRUE` TLC refutes `ExitedIsOver`. `TaskInv` is about the tables: used slots
have distinct pids, a thread on a CPU belongs to a process that has page tables,
nothing that a blocked parent waits for is there, and owed statuses are still in the table.
`HintInv` relates what is left to reap to the hint and to how far the reaper has come; its
cases are the places between the reaper's locked sections.

**IPC.** `IpcInv` has three parts. `ProcsOK`: living processes have distinct pids below the
next one. `Mail`: a mailbox that is not retired counts the threads inside, its queue has those who are
blocked, it has no more tokens than woken receivers while somebody is blocked, a living thread
is inside its own process's mailbox and one that has ended inside a retired one, and what is due
to a living process is what its mailbox has. `RegionsOK`: a living process is attached to
what it maps. A call makes, visits, leaves or frees mailboxes one after the other, so the
proof goes through the stages of the call, with a lemma for each.

**TCP.** `TcpInv` is the types, `HostOK` for both hosts and `SegmentOK` for every segment in the
network, however old. The code has sequence numbers and the properties are about positions
in a stream; the invariant says which is which: the number of position `n` of host `h`
is `Plus(Iss[h], n)`. For what a host sends (`SendOK`): the queue holds the last bytes that were
written, its first one has the number `snd_una`, and a FIN is out only when nothing more
can be written. For what it receives (`RecvOK`): the buffer holds the bytes behind the ones that
were read, `rcv_nxt` is the number of the byte after them, or one more once the FIN
was taken, and the block behind the gap lies at its place. For a segment: its data are the bytes of its
sender at the position its number says, its FIN stands behind the last byte, and its ACK
covers no more than its sender has taken. `TimerOK` is `TimerArmed` for a socket and its application's state.

The proof has three layers. Arithmetic: two positions less than half the
sequence space apart are compared rightly by the sign of the difference of their
numbers, which is where the assumption `2 * (StreamLen + 2 + RxMax) <= SeqMod` enters. Each branch of the input
and output code then takes a socket that is right to one that is right and to segments that are
right (`ResultOK`), and a step of the system takes a result of one host to the invariant of both
(`StepOK`), since a host's step may only enlarge what the other's invariant and the segments in
flight rely on. The assumption bounds a direction of a connection to about 2 GiB with the code's 2^32
numbers. It is needed as the network of the model may keep a segment for ever and the code has no
timestamps: a segment that is delivered after half the sequence space was used would be taken for a new one.
It is not a bound on the values of `Iss`, so numbers wrap within a connection.

Two things the proof required of the model: a socket that is shut while there are bytes to read keeps
its sequence numbers and what it had sent, because `tcp_socket_recv()` still acknowledges what it hands over from a
CLOSED socket (`tcp.c:630`); and the alternatives of `Input` exclude each other in their guards,
as the order of the tests in `tcp_input_impl()` makes them do.

**Copy-on-write.** The heart of `CowInv` is a `Balance` for every frame: the page-table entries
that lead to it, the entries a fork has collected and not mapped yet, and the hold of
the file cache are together no more than the count says (a count below 2 standing for
1), and a free frame has none. It is an inequality because a fork that runs out of memory
leaves counts too high. Around it: a writable page's frame has a count below 2
(`WritesOK`); a stale translation belongs to the process being copied and leads
where its page table leads (`TlbOK`); a page being filled is mapped read-only
(`FillOK`); what a fork has collected or has still to copy is not in the child yet (`ForkOK`).
Each way to change a frame's users has one lemma (`FreshFrame`, `MovedFrame`,
`CachedFrame`, `PutFrame`, `DroppedFrames`, `PendedFrame`, ...), and the actions cite them.
`FramesAreHeld` and `WritesArePrivate` hold with `Scarce` too.

The refinement `CowImplementsPrivateMemory` needs to know what is in the frames, which `ViewInv` says,
invariant relative to `CowInv`: the frame a file is read into is its page's alone
(`FillAlone`); a frame written through a stale translation is seen by one page of the living
(`TlbAlone`); and whatever the child of a fork has, or will have when the collected pages are mapped,
holds something that the parent's page has held since the fork began, and is written by the parent
through that very page or by nobody (`FromParent` in `CopyOK`). Each action is then a step of
`PrivateMemory`: the calls and faults of a process change its own pages (`OwnStep`), the two halves of a
file write and the steps of the copy are seen by nobody (`HiddenStep`), and the first and the last step
of a fork and the end of a process are the abstract ones. The theorem has the hypothesis
`Scarce = FALSE`, without which it is false (section 7); memory may still run out everywhere
else.

**The work of the APs.** Tiles and compute jobs share the rings and the CPUs, so `ApInv` joins two
invariants whose steps need each other's types.

`TileInv` is about generations. Whatever a helper was given, in a ring or on a CPU, is a generation that
is over, or that of a call which has its set open (`GenOK`); a worker that has claimed a tile has it with
the generation that is current (`TileOK`), and no two workers have the same tile; the tiles below the claim word
at which no worker is are as many as `done` says, and a tile has been run once
exactly when it is below the claim word and nobody is about to run it (`CallRuns`). So when a
caller sees `done >= ntiles`, a count of the finished tiles shows that nobody is at any
(`AllFinished`): the context may leave the stack. A new generation can be published because the
helper of an old one, wherever it is held up, has a number below it. Generations are numbers here and 32 bits
in the code: a helper would have to sleep through 2^31 calls.

`JobInv` is about places. A job is in the ring or on the CPU it has claimed, once, and its
slot says so (`Placed`); its entry is pinned, which is why no thief can take it; and whoever is
starting one has the slot alone until then (`Starting`). Helpers that are posted while the pin flag is
on are pinned too, which is harmless. `Ended` adds that the slots which `smp_user_kill_owner()` has been
through hold no job of the process. Only `Ended` needs the hypothesis `Concurrent = FALSE` of
`JobsStayInPlace` (section 7); `ApWorkInvariant` and `TilesRunOnce` do without it.

Only model-checked:

* `WaitersProgress`, `TimedWaitEnds`, `NobodyStarves`, `WorkGetsItsCpu`, `CallReturns`: liveness under
  fairness is out of the prover's reach. The fairness of section 5 rests on `NobodyStarves`, which is
  therefore known for the instance of `scheduler_liveness` only.

## 7. Where the code does not do what it says, or needs an assumption

Each item is true of the code as modelled. Where a constant or a small change of an instance shows
it, that is said; the passing runs stay clear of these cases only where this is said.

Lock, scheduler and synchronisation:

* `cos_futex_wake()` compares a waiter's address but not its process (`cos_futex.c:191`), so
  that when two processes' words share a bucket and an address, a wake can be spent on the
  other process's waiter. The comment at 68-70 says that waiters are matched on (pid, address).
  `MCHash` separates the two; with one bucket for both `WakeReachesItsWaiters` fails.
* The boot CPU's idle thread is put into a run queue when its slice is used up
  (`scheduler.c:611`), though the comment at 336 says it never is. The scheduler's
  properties hold regardless.
* `scheduler_rebalance()` lowers the priorities it is meant to boost
  (`scheduler.c:1012` against 999 and 1010): it subtracts 5, and smaller is lower.
* A woken mutex waiter that finds the mutex taken queues at the tail (`sync.c:287`),
  so it can be overtaken for ever; the comment at 325-329 calls the race fair.
* A thread that is killed after `mutex_unlock()` woke it takes the wakeup along
  (`task.c:487`); the others stay queued on a free mutex until the next unlock. Hence
  `AllAlive` in `NoStrandedWaiter` and `WaitersProgress`.
* The last reader's store of 0 clears the waiting bit (`cos_sync.c:307`), so a
  returning reader can overtake the writer each time; the comment at 235 says that
  the bit stops writer starvation.

Processes:

* A thread that waits for the lock at its system call's entry while its process is
  ended goes on with the call (`idt.c:341`) and can be queued again; the comments at
  `task.c:496` and 500 exclude that. `ExitedIsOver` is checked with `LateCalls = FALSE`
  and fails with `TRUE`. In the same way two threads of a process that exit at the same time
  push the zombie on its list twice: `process_exit()` returns early only for unused slots
  (`task.c:404`).
* A collected child that is not recycled yet still counts as a child (`task.c:606`), so a
  second waitpid blocks instead of returning -1, as the comment at 587-589 has it.

TCP:

* A peer in CLOSE_WAIT does not acknowledge again what is sent to it again (`tcp.c:845` leaves
  CLOSE_WAIT out of the states that take data), so that when the ACK of a FIN is lost the sender
  uses up its retries although the comment at 649 describes a half-close that goes on.

Memory:

* A write to a file drops the cached page before the disk has changed (`cos_linux.c:1538-1540`), and a
  mapping that comes in between caches the old page for good. `PrivateMemory` says nothing of
  what a file page holds, so the refinement is not affected.
* `execve` ignores that `paging_cow_break()` may find no frame (`cos_linux.c:1125-1126`) and writes to
  a stack it shares. The run has `Scarce = FALSE`; with `TRUE` the refinement fails.
* Frames that a fork has collected for its child when the memory runs out are not given back.

IPC:

* The frames of shared memory are given back at `process_exit()` (`task.c:533`, `ipc.c:158-166`) while a
  thread of the process may still run in user mode on another CPU, for which the page tables are kept
  (the comment near `task.c:500`). `MappedIsAttached` is about living processes.
* When the receivers that were blocked in a mailbox die with their process, nobody drops their
  references and the retired mailbox is never freed; the comment at `ipc.c:193-194` expects the
  woken receivers to do it. `InsideIsHeld` is about living receivers.
* A message is taken from the queue before its buffer in user memory is looked at
  (`syscall.c`, SYS_IPC_RECV); when the buffer is not valid any more the message is lost. In
  the model a receive ends with its message.

Compute jobs:

* `apu_job_fn()` reads `job->claim` after it has published that the slot is done
  (`smp_user.c:245`). When the slot is freed and given to another job in between, it clears the other
  job's claim and leaves its own CPU claimed for good.
* The kill IPI has a handler only while a job is in ring 3; one that arrives after the job
  has left finds an empty gate. The model has this as `StrayKill` and `crashed`.
* With `Concurrent = TRUE`, a thread in SYS_PAR_START while another CPU ends its process starts a
  job after `smp_user_kill_owner()` has looked (`src/src/include/smp_user.h:53` promises that none runs on); the
  last part of `JobSlotHeld` fails.
* A stop between the job's look at `kill_req` and RUNNING is lost (`smp_user.c:297`): the
  job runs until it ends itself or its process does.
* `smp_user_kill_owner()` gives up after 50 million spins; the model waits.

Other assumptions: a program leaves a range alone until its `mmap` has returned, and is not killed
while it forks; the 900 s after which the gate for forks opens by itself do not pass; TLB
shootdowns are complete when they return, although they skip CPUs in compute jobs
(`smp.c:545`) and give up after a number of spins; what a free frame holds does not matter.

## 8. What is not modelled

The map covers a small share of the repository's lines. Most of the repository is data
(fonts, character tables, sample films), vendored libraries and ports, drawing code, applications and
device drivers; what is modelled is where its own concurrent and stateful logic is.

* TLB shootdown (`Cow` takes it as part of a step), the flag stack of `cos_spin_lock()`, the
  window manager's kill of a hung program, the blocking helpers inside `process_exit()`.
* The kernel heap and the layout of page tables; shared mappings.
* Signals, epoll, pipes and files of the Linux personality; descriptor tables; FatFs (vendored).
* Network protocols other than TCP, which are request/response codecs; HTTP and TLS.
* Round-trip estimation, checksums, several connections of a listener.
* Permission checks of IPC, which only refuse calls.
* Drivers, power, audio, drawing, loader formats, kernel modules, settings: I/O against
  hardware, parsing, or vendored libraries.
* FPU and TLS state in a context switch, statistics, debug output and the
  diagnostics on a mutex's owner: they decide nothing in the modelled code.
* Weaker memory orders than x86's: the kernel runs on x86-64 only.
