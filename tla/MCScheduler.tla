------------------------------ MODULE MCScheduler ------------------------------
(* Small instances of Scheduler.                                           *)
EXTENDS Scheduler

CONSTANTS i0, i1, i2

\* One idle thread per CPU, up to three CPUs.
MCIdle == <<i0, i1, i2>>
MCIdleOf == [c \in 0 .. NumCpus - 1 |-> MCIdle[c + 1]]

\* Programs above SCHED_PRIO_LOW, the kernel thread at it, idle threads at
\* SCHED_PRIO_IDLE: two run queues compete, and a rebalance moves programs from
\* one to the other.
MCInitPriority == [t \in Threads |-> IF t \in UserThreads THEN 15
                                     ELSE IF t \in KernelThreads THEN 10 ELSE 1]

\* All threads but the idle ones at one priority.
MCEqualPriority == [t \in Threads |-> IF t \in Workers THEN 15 ELSE 1]

MCPriorities == {1, 10, 15}

\* SchedulerInit takes the run queues in every order, so user threads can be renamed.
MCSymmetry == Permutations(UserThreads)
=============================================================================
