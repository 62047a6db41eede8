------------------------------- MODULE Scheduler -------------------------------
(***************************************************************************)
(* The scheduler of C-OS (src/src/kernel/scheduler.c): forty run queues,   *)
(* a sleep list and wait queues shared by all CPUs.  CPU 0, the boot CPU,  *)
(* owns the timer tick that counts sleepers down; the application          *)
(* processors (APs) take user threads from the same run queues and are     *)
(* driven by their own Local APIC timer and by kick IPIs (smp.c).          *)
(*                                                                         *)
(* Every operation below runs under the kernel lock from its first to its  *)
(* last access of this state, so it is one step; KernelLock proves that    *)
(* such sections exclude each other, across context switches too.  The one *)
(* operation with two sections, scheduler_wake_thread(), takes two steps.  *)
(*                                                                         *)
(* A tick that switches threads ends there: the thread that leaves was     *)
(* captured from its interrupt frame and resumes in its own code, so the   *)
(* rest of scheduler_tick() is not executed for that tick.                 *)
(*                                                                         *)
(* Intermediate values of a long action are bound by \E x \in {value},     *)
(* which TLC evaluates once, also inside ENABLED.                          *)
(***************************************************************************)
EXTENDS Queues, FiniteSets, SequencesExt

CONSTANTS NumCpus,        \* CPUs 0 .. NumCpus-1; CPU 0 is the boot CPU
          UserThreads,    \* threads with smp_ok: they may run on any CPU
          KernelThreads,  \* threads of the boot CPU
          Idle,           \* the idle thread of each CPU
          WaitQueues,     \* wait_queue_t objects
          NoThread, NoQueue,  \* NULL
          Priorities,     \* the priorities in use, closed under the rebalance
          InitPriority,   \* the priority each thread is created with
          TIMESLICE_REALTIME, TIMESLICE_HIGH, TIMESLICE_DEFAULT, TIMESLICE_LOW,
          BoostEnabled,   \* config.enable_priority_boost
          MaxSleep,       \* bound on the ticks of one sleep
          MaxWork         \* bound on the work items queued for one AP

CPUs    == 0 .. NumCpus - 1
Aps     == CPUs \ {0}
Threads == UserThreads \cup KernelThreads \cup {Idle[c] : c \in CPUs}
Workers == UserThreads \cup KernelThreads

NUM_QUEUES  == 40
PRIO_MIN    == 1
PRIO_MAX    == 99
PRIO_LOW    == 10
PRIO_HIGH   == 40
PRIO_REALTIME == 80

\* priority_to_queue(): the run queue of a priority, 0 for the highest.
PriorityToQueue(priority) ==
    LET p == IF priority < PRIO_MIN THEN PRIO_MIN
             ELSE IF priority > PRIO_MAX THEN PRIO_MAX ELSE priority
        queue == NUM_QUEUES - 1 - ((p - 1) * NUM_QUEUES) \div 99
    IN  IF queue < 0 THEN 0 ELSE queue

\* scheduler_reset_timeslice()
Timeslice(p) ==
    CASE p >= PRIO_REALTIME -> TIMESLICE_REALTIME
      [] p >= PRIO_HIGH /\ p < PRIO_REALTIME -> TIMESLICE_HIGH
      [] p <= PRIO_LOW -> TIMESLICE_LOW
      [] OTHER -> TIMESLICE_DEFAULT

\* The run queues some priority in use selects; the others stay empty.
QueueIdx == {PriorityToQueue(p) : p \in Priorities}

ASSUME SchedulerAssumption ==
    /\ NumCpus \in Nat \ {0}
    /\ Idle \in [CPUs -> Threads]
    /\ \A c, d \in CPUs : Idle[c] = Idle[d] => c = d
    /\ \A c \in CPUs : Idle[c] \notin Workers
    /\ UserThreads \cap KernelThreads = {}
    /\ NoThread \notin Threads
    /\ NoQueue \notin WaitQueues
    /\ Priorities \subseteq PRIO_MIN .. PRIO_MAX
    /\ InitPriority \in [Threads -> Priorities]
    /\ \A p \in Priorities : p > PRIO_LOW => p - 5 \in Priorities
    /\ IsFiniteSet(Workers)
    /\ {TIMESLICE_REALTIME, TIMESLICE_HIGH, TIMESLICE_DEFAULT, TIMESLICE_LOW} \subseteq Nat
    /\ BoostEnabled \in BOOLEAN
    /\ MaxSleep \in Nat
    /\ MaxWork \in Nat

VARIABLES
    tstate,      \* thread_t.state
    priority,    \* thread_t.priority
    time_slice,  \* thread_t.time_slice; the countdown of a sleeper
    blocked_on,  \* thread_t.blocked_on
    queues,      \* run_queues, sleep_list and the wait queues
    current,     \* cpu_local_t.current
    kick,        \* cpu_local_t.kick of each AP: 0, 1 reschedule, 2 only a tick
    work,        \* s_work_count of each AP (smp.c)
    waking       \* the thread a kernel thread is waking, between the two
                 \* sections of scheduler_wake_thread()

schedulerVars == <<tstate, priority, time_slice, blocked_on, queues, current, kick, work, waking>>

TaskStates == {"READY", "RUNNING", "BLOCKED", "SLEEPING", "ZOMBIE", "UNUSED"}

\* The threads of ts that belong in run queue i, the priorities being pr, in their
\* order: where scheduler_add_task() of each of ts in turn puts them.
ThreadsOf(ts, i, pr) == Without(ts, {t \in Threads : PriorityToQueue(pr[t]) # i})

\* The machine at the end of boot: the threads created so far are in their run
\* queues in some order, no thread runs yet, the APs have not joined.
SchedulerInit ==
    /\ tstate = [t \in Threads |-> "READY"]
    /\ priority = InitPriority
    /\ \E line \in SetToSeqs(Workers) :
          queues = [run |-> [i \in QueueIdx |-> ThreadsOf(line, i, InitPriority)],
                    sleep |-> <<>>,
                    wait |-> [w \in WaitQueues |-> <<>>]]
    /\ time_slice = [t \in Threads |-> Timeslice(InitPriority[t])]
    /\ blocked_on = [t \in Threads |-> NoQueue]
    /\ current = [c \in CPUs |-> NoThread]
    /\ kick = [c \in Aps |-> 0]
    /\ work = [c \in Aps |-> 0]
    /\ waking = [k \in KernelThreads |-> NoThread]

-----------------------------------------------------------------------------
(* The queues.                                                             *)

\* scheduler_remove_task(): a thread is looked for in the wait queue it says
\* it is in, then in the sleep list, then in the run queue of its priority.
RemoveTask(q, t) ==
    IF blocked_on[t] # NoQueue /\ Contains(q.wait[blocked_on[t]], t)
    THEN [q EXCEPT !.wait[blocked_on[t]] = Without(@, {t})]
    ELSE IF Contains(q.sleep, t)
    THEN [q EXCEPT !.sleep = Without(@, {t})]
    ELSE [q EXCEPT !.run[PriorityToQueue(priority[t])] = Without(@, {t})]

\* Bug: a thread joins its queue at the head.
EnqueueAtHead(q, t) ==
    [q EXCEPT !.run[PriorityToQueue(priority[t])] = <<t>> \o @]

\* The insertion of scheduler_add_task(), at the tail.
Enqueue(q, t) ==
    [q EXCEPT !.run[PriorityToQueue(priority[t])] = Append(@, t)]

\* A thread goes to the end of its queue: remove, then add.
Requeue(q, t) == Enqueue(RemoveTask(q, t), t)

OnCpu(t) == \E c \in CPUs : current[c] = t

\* The threads pick_next_task() does not skip on CPU c: its own current one,
\* and the ones no CPU runs; an AP takes only user threads.
MayRun(c, t) ==
    \/ t = current[c]
    \/ ~OnCpu(t) /\ (c = 0 \/ t \in UserThreads)

\* Bug: queued kernel work does not bring the idle thread in.
WorkCallsIdleNever(c) == FALSE

\* An AP with queued work lets its idle thread run it.
WorkCallsIdle(c) == c # 0 /\ work[c] > 0

\* pick_next_task() on CPU c: the first thread it may run, scanning the run
\* queues from the highest priority; its idle thread if there is none.
PickNext(c, q) ==
    LET places(i) == {n \in DOMAIN q.run[i] : MayRun(c, q.run[i][n])}
        ready == {i \in QueueIdx : places(i) # {}}
    IN  IF WorkCallsIdle(c) \/ ready = {}
        THEN Idle[c]
        ELSE q.run[Min(ready)][Min(places(Min(ready)))]

\* scheduler_add_task() of n user threads, called on CPU c: each one kicks the
\* lowest idle AP that has no kick pending.
Kicks(c, n, k) ==
    LET idle == {d \in Aps \ {c} : current[d] = Idle[d] /\ k[d] = 0}
    IN  [d \in Aps |-> IF d \in idle /\ Cardinality({e \in idle : e < d}) < n
                       THEN 1 ELSE k[d]]

\* The number of user threads among the threads T.
UserCount(T) == Cardinality(T \cap UserThreads)

-----------------------------------------------------------------------------
(* Switching.                                                              *)

Dead(s) == s \in {"ZOMBIE", "UNUSED"}

\* scheduler_do_context_switch() really switches CPU c to next.
Switches(c, next, st) == next # current[c] /\ ~Dead(st[next])

\* Bug: the thread that leaves becomes READY whatever it was.
SwitchStateAlwaysReady(c, next, st) ==
    [t \in Threads |-> IF t = next THEN "RUNNING"
                       ELSE IF t = current[c] THEN "READY" ELSE st[t]]

\* The thread states after scheduler_do_context_switch().
SwitchState(c, next, st) ==
    [t \in Threads |-> IF t = next THEN "RUNNING"
                       ELSE IF t = current[c] /\ st[t] = "RUNNING" THEN "READY"
                       ELSE st[t]]

\* Bug: a thread that stays after it was put back keeps the state READY.
StayStateReady(c, next, st) == st

\* The thread states when scheduler_schedule() returns without a switch: the
\* thread it was asked to replace is RUNNING again, or next is dead and is
\* refused.
StayState(c, next, st) ==
    IF next = current[c] /\ st[next] = "READY"
    THEN [st EXCEPT ![next] = "RUNNING"] ELSE st

\* scheduler_schedule() on CPU c, on the queues q and the thread states st.
Schedule(c, q, st) ==
    \E next \in {PickNext(c, q)} :
        IF Switches(c, next, st)
        THEN /\ current' = [current EXCEPT ![c] = next]
             /\ tstate' = SwitchState(c, next, st)
        ELSE /\ tstate' = StayState(c, next, st)
             /\ UNCHANGED current

\* The first switch, by scheduler_start() or by the first tick that finds a
\* thread in a run queue.
Start ==
    /\ current[0] = NoThread
    /\ Schedule(0, queues, tstate)
    /\ UNCHANGED <<priority, time_slice, blocked_on, queues, kick, work, waking>>

\* scheduler_cpu_enter(): an AP joins, on its idle thread.
CpuEnter(c) ==
    /\ current[c] = NoThread
    /\ current[0] # NoThread
    /\ current' = [current EXCEPT ![c] = Idle[c]]
    /\ tstate' = [tstate EXCEPT ![Idle[c]] = "RUNNING"]
    /\ UNCHANGED <<priority, time_slice, blocked_on, queues, kick, work, waking>>

-----------------------------------------------------------------------------
(* What the running thread asks for.  A kernel thread between the two      *)
(* sections of scheduler_wake_thread() finishes that first.                *)

MayCall(c) ==
    /\ current[c] \in Workers
    /\ current[c] \in KernelThreads => waking[current[c]] = NoThread

\* scheduler_yield()
Yield(c) ==
    LET t == current[c]  q == Requeue(queues, t) IN
    /\ MayCall(c)
    /\ queues' = q
    /\ time_slice' = [time_slice EXCEPT ![t] = Timeslice(priority[t])]
    /\ blocked_on' = [blocked_on EXCEPT ![t] = NoQueue]
    /\ kick' = Kicks(c, UserCount({t}), kick)
    /\ Schedule(c, q, [tstate EXCEPT ![t] = "READY"])
    /\ UNCHANGED <<priority, work, waking>>

\* scheduler_sleep(): the sleep list grows at its head.
Sleep(c, ticks) ==
    LET t == current[c]
        q == [RemoveTask(queues, t) EXCEPT !.sleep = <<t>> \o @] IN
    /\ MayCall(c)
    /\ queues' = q
    /\ time_slice' = [time_slice EXCEPT ![t] = ticks]
    /\ blocked_on' = [blocked_on EXCEPT ![t] = NoQueue]
    /\ Schedule(c, q, [tstate EXCEPT ![t] = "SLEEPING"])
    /\ UNCHANGED <<priority, kick, work, waking>>

\* wait_queue_add(): at the tail.
WaitQueueAdd(q, w, t) == [q EXCEPT !.wait[w] = Append(@, t)]

\* scheduler_block(): remove, then wait_queue_add().
Block(c, w) ==
    LET t == current[c]
        q == WaitQueueAdd(RemoveTask(queues, t), w, t) IN
    /\ MayCall(c)
    /\ queues' = q
    /\ blocked_on' = [blocked_on EXCEPT ![t] = w]
    /\ Schedule(c, q, [tstate EXCEPT ![t] = "BLOCKED"])
    /\ UNCHANGED <<priority, time_slice, kick, work, waking>>

\* The threads of the sequence ts leave wait queue w, in that order, and are
\* added to their run queues.
WakeThreads(c, w, ts) ==
    /\ queues' = [queues EXCEPT
                    !.wait[w] = Without(@, ToSet(ts)),
                    !.run = [i \in QueueIdx |-> @[i] \o ThreadsOf(ts, i, priority)]]
    /\ tstate' = [t \in Threads |-> IF Contains(ts, t) THEN "READY" ELSE tstate[t]]
    /\ blocked_on' = [t \in Threads |-> IF Contains(ts, t) THEN NoQueue ELSE blocked_on[t]]
    /\ time_slice' = [t \in Threads |-> IF Contains(ts, t) THEN Timeslice(priority[t])
                                        ELSE time_slice[t]]
    /\ kick' = Kicks(c, UserCount(ToSet(ts)), kick)
    /\ UNCHANGED <<priority, current, work, waking>>

\* wait_queue_wake_one(), called under the lock by mutex_unlock() and
\* sem_post().
WakeOne(c, w) ==
    /\ MayCall(c)
    /\ queues.wait[w] # <<>>
    /\ WakeThreads(c, w, <<Head(queues.wait[w])>>)

\* wait_queue_wake_all()
WakeAll(c, w) ==
    /\ MayCall(c)
    /\ queues.wait[w] # <<>>
    /\ WakeThreads(c, w, queues.wait[w])

\* wait_queue_remove() and scheduler_unblock() of one waiter, wherever it
\* stands (cos_futex_wake()).
Unblock(c, w, t) ==
    /\ MayCall(c)
    /\ tstate[t] = "BLOCKED"
    /\ blocked_on[t] = w
    /\ WakeThreads(c, w, <<t>>)

\* scheduler_wake_thread(), first section: a kernel thread (input delivery in
\* cos_app_window.c) takes a sleeper off the sleep list and drops the lock.
WakeDetach(c, t) ==
    LET k == current[c] IN
    /\ MayCall(c)
    /\ k \in KernelThreads
    /\ tstate[t] = "SLEEPING"
    /\ Contains(queues.sleep, t)
    /\ queues' = [queues EXCEPT !.sleep = Without(@, {t})]
    /\ tstate' = [tstate EXCEPT ![t] = "READY"]
    /\ waking' = [waking EXCEPT ![k] = t]
    /\ UNCHANGED <<priority, time_slice, blocked_on, current, kick, work>>

\* scheduler_wake_thread(), second section: scheduler_add_task().
WakeEnqueue(c) ==
    LET k == current[c]  t == waking[k] IN
    /\ k \in KernelThreads
    /\ t # NoThread
    /\ queues' = Enqueue(queues, t)
    /\ time_slice' = [time_slice EXCEPT ![t] = Timeslice(priority[t])]
    /\ blocked_on' = [blocked_on EXCEPT ![t] = NoQueue]
    /\ kick' = Kicks(c, UserCount({t}), kick)
    /\ waking' = [waking EXCEPT ![k] = NoThread]
    /\ UNCHANGED <<tstate, priority, current, work>>

-----------------------------------------------------------------------------
(* The boot CPU's tick.                                                    *)

\* Bug: a sleeper that has come due is queued but stays on the sleep list.
StillAsleepAll(q, sl) == q.sleep

\* The sleepers that stay on the list: the ones with more than one tick left.
StillAsleep(q, sl) == Without(q.sleep, {t \in Threads : sl[t] <= 1})

\* The sleepers that come due, in the order of the list.
Due(q, sl) == Without(q.sleep, {t \in Threads : sl[t] > 1})

\* scheduler_rebalance() looks at the run queues from 39 down to BoostFloor and
\* takes 5 from the priority of every thread above PRIO_LOW.
BoostFloor == 5

Boosted(q) ==
    {t \in Threads : priority[t] > PRIO_LOW
                     /\ \E i \in QueueIdx : i >= BoostFloor /\ Contains(q.run[i], t)}

BoostedPriority(t) == priority[t] - 5

\* The threads in the order in which scheduler_rebalance() comes to them.
Swept(q) ==
    Concatenation([n \in 1 .. NUM_QUEUES - BoostFloor |->
                     IF NUM_QUEUES - n \in QueueIdx THEN q.run[NUM_QUEUES - n] ELSE <<>>],
                  NUM_QUEUES - BoostFloor)

\* The queues after scheduler_rebalance(): the boosted threads leave their
\* queue; those that are READY join the one of their new priority.
Rebalanced(q, st) ==
    LET moved == Boosted(q)
        line == Swept(q)
        stays(i) == {t \in Threads : \/ t \notin moved \/ st[t] # "READY"
                                     \/ PriorityToQueue(BoostedPriority(t)) # i}
    IN  [q EXCEPT !.run = [i \in QueueIdx |-> Without(@[i], moved) \o Without(line, stays(i))]]

\* scheduler_tick() after the time slice: the sleepers are counted down, the
\* ones that are due are added to their run queues, and every so often the
\* priorities are rebalanced.  boost says whether this tick is such a one.
TickRest(q, st, sl, k, boost) ==
    \E due \in {Due(q, sl)} :
    \E q1  \in {[q EXCEPT !.sleep = StillAsleep(q, sl),
                         !.run = [i \in QueueIdx |-> @[i] \o ThreadsOf(due, i, priority)]]},
       st1 \in {[t \in Threads |-> IF Contains(due, t) THEN "READY" ELSE st[t]]} :
    \E moved \in {IF boost THEN Boosted(q1) ELSE {}} :
    LET ready == {t \in moved : st1[t] = "READY"}
        newPriority(t) == IF t \in moved THEN BoostedPriority(t) ELSE priority[t]
    IN  /\ queues' = IF boost THEN Rebalanced(q1, st1) ELSE q1
        /\ tstate' = st1
        /\ priority' = [t \in Threads |-> newPriority(t)]
        /\ time_slice' = [t \in Threads |->
                            IF Contains(due, t) \/ t \in ready THEN Timeslice(newPriority(t))
                            ELSE IF Contains(q.sleep, t) THEN sl[t] - 1 ELSE sl[t]]
        /\ kick' = Kicks(0, UserCount(ready), Kicks(0, UserCount(ToSet(due)), k))

\* scheduler_tick(), called by the boot CPU's timer interrupt.  W are the APs
\* the watchdog sends a tick because theirs seem to be missing.
Tick(W, boost) ==
    LET cur  == current[0]
        runs == tstate[cur] = "RUNNING"
        left == IF time_slice[cur] > 0 THEN time_slice[cur] - 1 ELSE 0
        over == runs /\ left = 0
        asks == over \/ (tstate[cur] = "ZOMBIE" /\ cur # Idle[0])
    IN  /\ cur # NoThread
        /\ \E q  \in {IF over THEN Requeue(queues, cur) ELSE queues},
              st \in {IF over THEN [tstate EXCEPT ![cur] = "READY"] ELSE tstate},
              sl \in {[time_slice EXCEPT ![cur] = IF over THEN Timeslice(priority[cur])
                                                 ELSE IF runs THEN left ELSE @]},
              kw \in {[c \in Aps |-> IF c \in W THEN 2 ELSE kick[c]]} :
           \E next \in {PickNext(0, q)},
              k \in {IF over THEN Kicks(0, UserCount({cur}), kw) ELSE kw} :
              \/ /\ ~asks
                 /\ TickRest(q, st, sl, k, boost)
                 /\ UNCHANGED current
              \/ /\ asks
                 /\ Switches(0, next, st)
                 /\ current' = [current EXCEPT ![0] = next]
                 /\ tstate' = SwitchState(0, next, st)
                 /\ queues' = q
                 /\ time_slice' = sl
                 /\ kick' = k
                 /\ UNCHANGED priority
              \/ /\ asks
                 /\ ~Switches(0, next, st)
                 /\ TickRest(q, StayState(0, next, st), sl, k, boost)
                 /\ UNCHANGED current
        /\ UNCHANGED <<blocked_on, work, waking>>

-----------------------------------------------------------------------------
(* The application processors.                                             *)

\* sched_ready_hint(): a look at the run queues without the lock.
ReadyHint(c) ==
    \E i \in QueueIdx, t \in UserThreads : Contains(queues.run[i], t) /\ ~OnCpu(t)

\* scheduler_cpu_tick() on AP c; k are the kicks still pending.
CpuTick(c, kicked, k) ==
    LET cur  == current[c]
        runs == cur # Idle[c] /\ tstate[cur] = "RUNNING"
        left == IF time_slice[cur] > 0 THEN time_slice[cur] - 1 ELSE 0
        over == runs /\ (left = 0 \/ kicked)
        rest == cur = Idle[c] /\ ~kicked /\ work[c] = 0 /\ ~ReadyHint(c)
    IN  /\ cur # NoThread
        /\ \E q  \in {IF over THEN Requeue(queues, cur) ELSE queues},
              st \in {IF over THEN [tstate EXCEPT ![cur] = "READY"] ELSE tstate} :
              /\ queues' = q
              /\ IF rest \/ (runs /\ ~over) THEN UNCHANGED <<current, tstate>>
                                            ELSE Schedule(c, q, st)
        /\ time_slice' = [time_slice EXCEPT ![cur] =
                            IF over THEN Timeslice(priority[cur]) ELSE IF runs THEN left ELSE @]
        /\ kick' = IF over THEN Kicks(c, UserCount({cur}), k) ELSE k
        /\ UNCHANGED <<priority, blocked_on, work, waking>>

\* smp_timer_irq()
TimerIrq(c) == CpuTick(c, FALSE, kick)

\* smp_kick_irq(): mode 2, the watchdog's, is only a tick.
KickIrq(c) ==
    /\ kick[c] # 0
    /\ CpuTick(c, kick[c] # 2, [kick EXCEPT ![c] = 0])

\* smp_enqueue_work_to_cpu(): kernel work for AP c, and a kick.
SubmitWork(c) ==
    /\ current[c] # NoThread
    /\ work[c] < MaxWork
    /\ work' = [work EXCEPT ![c] = @ + 1]
    /\ kick' = [kick EXCEPT ![c] = 1]
    /\ UNCHANGED <<tstate, priority, time_slice, blocked_on, queues, current, waking>>

\* The idle thread of AP c takes one item and executes it.
RunWork(c) ==
    /\ current[c] = Idle[c]
    /\ work[c] > 0
    /\ work' = [work EXCEPT ![c] = @ - 1]
    /\ UNCHANGED <<tstate, priority, time_slice, blocked_on, queues, current, kick, waking>>

\* With no work of its own it takes an item of the AP that has most
\* (smp_steal_work()); which items may be stolen is left open.
StealWork(c, d) ==
    /\ current[c] = Idle[c]
    /\ work[c] = 0
    /\ d # c
    /\ work[d] > 0
    /\ \A e \in Aps \ {c} : work[e] < work[d] \/ (work[e] = work[d] /\ e >= d)
    /\ work' = [work EXCEPT ![d] = @ - 1]
    /\ UNCHANGED <<tstate, priority, time_slice, blocked_on, queues, current, kick, waking>>

-----------------------------------------------------------------------------

BootTick == \E W \in SUBSET {c \in Aps : current[c] # NoThread},
               boost \in (IF BoostEnabled THEN BOOLEAN ELSE {FALSE}) : Tick(W, boost)

ThreadCall(c) ==
    \/ Yield(c)
    \/ \E ticks \in 1 .. MaxSleep : Sleep(c, ticks)
    \/ \E w \in WaitQueues : Block(c, w) \/ WakeOne(c, w) \/ WakeAll(c, w)
    \/ \E w \in WaitQueues, t \in Workers : Unblock(c, w, t)
    \/ \E t \in Workers : WakeDetach(c, t)

ApStep(c) ==
    \/ CpuEnter(c) \/ TimerIrq(c) \/ KickIrq(c) \/ SubmitWork(c) \/ RunWork(c)
    \/ \E d \in Aps : StealWork(c, d)

SchedulerNext ==
    \/ Start
    \/ BootTick
    \/ \E c \in CPUs : ThreadCall(c) \/ WakeEnqueue(c)
    \/ \E c \in Aps : ApStep(c)

SchedulerSpec == SchedulerInit /\ [][SchedulerNext]_schedulerVars

\* The boot code gets to its end, timer interrupts keep arriving on every CPU,
\* an idle AP polls its work queue, and a kernel thread that is given the CPU
\* again and again executes its next instruction.  Threads need not do
\* anything: a program may compute forever.
Fairness ==
    /\ WF_schedulerVars(Start)
    /\ WF_schedulerVars(BootTick)
    /\ \A c \in Aps : WF_schedulerVars(CpuEnter(c)) /\ WF_schedulerVars(TimerIrq(c)) /\ WF_schedulerVars(RunWork(c))
    /\ SF_schedulerVars(WakeEnqueue(0))

FairSpec == SchedulerSpec /\ Fairness

-----------------------------------------------------------------------------
(* Correctness.                                                            *)

\* The scheduler's fields keep their types: after any number of rebalances
\* (scheduler_rebalance()) every priority still selects one of the run queues,
\* and a countdown never wraps below 0.
SchedulerTypeOK ==
    /\ tstate \in [Threads -> TaskStates]
    /\ priority \in [Threads -> Priorities]
    /\ time_slice \in [Threads -> Nat]
    /\ blocked_on \in [Threads -> WaitQueues \cup {NoQueue}]
    /\ queues.run \in [QueueIdx -> Seq(Threads)]
    /\ queues.sleep \in Seq(Threads)
    /\ queues.wait \in [WaitQueues -> Seq(Threads)]
    /\ current \in [CPUs -> Threads \cup {NoThread}]
    /\ kick \in [Aps -> 0 .. 2]
    /\ work \in [Aps -> 0 .. MaxWork]
    /\ waking \in [KernelThreads -> Threads \cup {NoThread}]

\* Every queue of the scheduler, the sleep list included.
AllQueues ==
    {<<"run", i>> : i \in QueueIdx} \cup {<<"wait", w>> : w \in WaitQueues}
        \cup {<<"sleep", 0>>}
QueueOf(id) ==
    CASE id[1] = "run" -> queues.run[id[2]]
      [] id[1] = "wait" -> queues.wait[id[2]]
      [] id[1] = "sleep" -> queues.sleep

\* thread_t has one next and one prev pointer, shared by every list: a thread
\* that were inserted a second time, in the same list or another, would tear
\* the first one.  So each thread stands at one place of one list at most.
LinkedOnce ==
    \A a, b \in AllQueues : \A m \in DOMAIN QueueOf(a), n \in DOMAIN QueueOf(b) :
        QueueOf(a)[m] = QueueOf(b)[n] => a = b /\ m = n

\* A thread that is not running can be found by whoever has to make it run: a
\* READY one by pick_next_task() in the queue of its present priority (or it
\* is in the hands of a waker), a sleeper by the tick, a blocked one by the
\* waker of the queue it names.
NoThreadLost ==
    \A t \in Workers :
        /\ tstate[t] = "READY" => \/ Contains(queues.run[PriorityToQueue(priority[t])], t)
                                  \/ \E k \in KernelThreads : waking[k] = t
        /\ tstate[t] = "SLEEPING" <=> Contains(queues.sleep, t)
        /\ tstate[t] = "BLOCKED" <=> blocked_on[t] # NoQueue
        /\ \A w \in WaitQueues : blocked_on[t] = w <=> Contains(queues.wait[w], t)

\* A thread is RUNNING exactly while a CPU runs it, and one CPU does: the
\* ticks count down the slice of RUNNING threads only, so one left READY would
\* keep its CPU for good (the freeze described in scheduler_schedule()), and two
\* CPUs that pick from the same queues must not take the same thread, nor one of
\* them the idle thread of the other.
RunningIsCurrent ==
    /\ \A t \in Threads : tstate[t] = "RUNNING" <=> OnCpu(t)
    /\ \A c, d \in CPUs :
          /\ current[c] = current[d] /\ current[c] # NoThread => c = d
          /\ current[c] = Idle[d] => c = d

\* With equal priorities no thread starves: one that is ready gets a CPU,
\* whatever the others do, and so does one that sleeps, although the ticks that
\* switch threads skip the countdown of the sleepers.
NobodyStarves == \A t \in Workers : tstate[t] \in {"READY", "SLEEPING"} ~> tstate[t] = "RUNNING"

\* Kernel work queued for an AP gets that AP's idle thread, even if programs
\* that never leave user mode occupy every CPU, unless an idle AP steals it.
WorkGetsItsCpu == \A c \in Aps : work[c] > 0 ~> (current[c] = Idle[c] \/ work[c] = 0)
=============================================================================
