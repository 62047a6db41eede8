----------------------------- MODULE TaskLifecycle -----------------------------
(***************************************************************************)
(* Processes and threads from creation to recycling: process_create(),     *)
(* process_exit(), thread_exit(), waitpid and the reaper of                *)
(* src/src/kernel/task.c, with the system calls that reach them.           *)
(*                                                                         *)
(* _isr_handler() holds the kernel lock for the whole of a system call,    *)
(* and a switch gives it up only when the outgoing thread is off its CPU   *)
(* (module KernelLock), so a system call is one step and a thread's        *)
(* on_cpu flag is "it is the current thread of some CPU".  The reaper runs *)
(* in the boot CPU's idle thread without the lock, in two locked sections: *)
(* it is interrupted between them.                                         *)
(*                                                                         *)
(* Which ready thread a CPU takes, and when idle runs, is left open here;  *)
(* module Scheduler is about that.  TASK_CREATED, READY and RUNNING        *)
(* processes are all "live".                                               *)
(***************************************************************************)
EXTENDS Integers, FiniteSets, FiniteSetsExt

CONSTANTS Cpus,         \* the boot CPU is 0
          ProcSlots,    \* slots of process_table, numbers
          ThreadSlots,  \* slots of thread_table, numbers
          MaxPid,       \* bound: the number of processes ever created
          LateCalls     \* a thread whose process was ended from another CPU may
                        \* still be waiting for the lock at a system call's entry

ASSUME TaskAssumption ==
    /\ 0 \in Cpus
    /\ ProcSlots \subseteq Nat /\ ProcSlots # {} /\ IsFiniteSet(ProcSlots)
    /\ ThreadSlots \subseteq Nat /\ ThreadSlots # {} /\ IsFiniteSet(ThreadSlots)
    /\ MaxPid \in Nat \ {0}
    /\ LateCalls \in BOOLEAN

VARIABLES proc,        \* process_table
          thr,         \* thread_table
          cpu,         \* the current thread of each CPU, or Idle
          nextPid,     \* next_pid
          rpc,         \* where the reaper is
          pending,     \* g_reap_hint # g_reap_done
          fresh,       \* g_reap_hint # seen, the reaper's copy of the hint
          incomplete,  \* g_reap_incomplete
          owed         \* history: exits that a live parent has yet to collect

vars == <<proc, thr, cpu, nextPid, rpc, pending, fresh, incomplete, owed>>

Boot == 0
Idle == -1
NoCall == -1     \* the thread is not inside waitpid
AnyChild == 0    \* waitpid's pid argument for any child

Pids == 1..MaxPid

\* A slot that is TASK_UNUSED.  "dir" is page_dir # NULL, "links" how often the
\* process has been pushed on zombie_list.
FreeProc == [state |-> "unused", pid |-> 0, parent |-> 0, valid |-> FALSE,
             dir |-> FALSE, links |-> 0]

\* "listed" says that the thread is on its process's thread_list, "want" what a
\* thread inside waitpid waits for.
FreeThread == [state |-> "unused", pid |-> 0, listed |-> FALSE, want |-> NoCall]

NewProc(pid, parent) ==
    [FreeProc EXCEPT !.state = "live", !.pid = pid, !.parent = parent, !.dir = TRUE]

NewThread(pid) == [FreeThread EXCEPT !.state = "ready", !.pid = pid, !.listed = TRUE]

\* One program, pid 1, runs on the boot CPU.
Init ==
    /\ proc = [s \in ProcSlots |-> IF s = Min(ProcSlots) THEN NewProc(1, 0) ELSE FreeProc]
    /\ thr = [t \in ThreadSlots |-> IF t = Min(ThreadSlots)
                                    THEN [NewThread(1) EXCEPT !.state = "running"]
                                    ELSE FreeThread]
    /\ cpu = [c \in Cpus |-> IF c = Boot THEN Min(ThreadSlots) ELSE Idle]
    /\ nextPid = 2
    /\ rpc = "off"
    /\ pending = FALSE
    /\ fresh = FALSE
    /\ incomplete = FALSE
    /\ owed = {}

-----------------------------------------------------------------------------
(* Lookups. *)

OnCpu == {t \in ThreadSlots : \E c \in Cpus : cpu[c] = t}

\* process_get_by_pid(thread->pid)
SlotOf(pid) == CHOOSE s \in ProcSlots : proc[s].state # "unused" /\ proc[s].pid = pid

PidOf(c) == thr[cpu[c]].pid

FreeProcs == {s \in ProcSlots : proc[s].state = "unused"}
FreeThreads(T) == {t \in ThreadSlots : T[t].state = "unused"}

IsLive(P, pid) == \E s \in ProcSlots : P[s].state = "live" /\ P[s].pid = pid

\* The current thread of c can make a system call.
Calling(c) ==
    /\ cpu[c] # Idle
    /\ thr[cpu[c]].state = "running" \/ LateCalls
    /\ thr[cpu[c]].want = NoCall

LeaveCpu(c) == cpu' = [cpu EXCEPT ![c] = Idle]

\* task_reap_note()
Note == pending' = TRUE /\ fresh' = TRUE

UnchangedReaper == UNCHANGED <<rpc, pending, fresh, incomplete>>

-----------------------------------------------------------------------------
(* process_exit(). *)

\* Bug: wait_queue_wake_one() instead of wake_all().
WakeWaitersOne(T, pid) ==
    LET W == {t \in ThreadSlots : T[t].pid = pid /\ T[t].state = "waiting"}
    IN  IF W = {} THEN T ELSE [T EXCEPT ![Min(W)].state = "ready"]

\* wait_queue_wake_all(&parent->child_wait_queue)
WakeWaiters(T, pid) ==
    [t \in ThreadSlots |-> IF T[t].pid = pid /\ T[t].state = "waiting"
                           THEN [T[t] EXCEPT !.state = "ready"]
                           ELSE T[t]]

\* Bug: only the threads that are not blocked are ended.
EndThreadsRunnable(T, pid) ==
    [t \in ThreadSlots |-> IF T[t].pid = pid /\ T[t].listed /\ T[t].state # "waiting"
                           THEN [T[t] EXCEPT !.state = "zombie"]
                           ELSE T[t]]

\* Every thread on thread_list becomes TASK_ZOMBIE and leaves the run and wait
\* queues.
EndThreads(T, pid) ==
    [t \in ThreadSlots |-> IF T[t].pid = pid /\ T[t].listed
                           THEN [T[t] EXCEPT !.state = "zombie"]
                           ELSE T[t]]

\* Bug: only the caller's own thread counts.
DirInUseBySelf(pid, self) == thr[self].pid = pid

\* exiting_self \/ running_elsewhere
DirInUse(pid, self) ==
    \/ thr[self].listed /\ thr[self].pid = pid
    \/ \E t \in OnCpu \ {self} : thr[t].listed /\ thr[t].pid = pid

\* The exit of process s by thread self, in the tables P and T.
ExitedProcs(P, s, self) ==
    [P EXCEPT ![s] = [@ EXCEPT !.state = "zombie",
                               !.valid = TRUE,
                               !.dir = P[s].dir /\ DirInUse(P[s].pid, self),
                               !.links = Min({P[s].links + 1, 2})]]

ExitedThreads(P, T, s) == EndThreads(WakeWaiters(T, P[s].parent), P[s].pid)

\* What parents are owed afterwards: this exit when the parent lives, and
\* nothing any more on account of this process's own children.
OwedAfter(P, s) ==
    {k \in owed : \A q \in ProcSlots : P[q].pid = k => P[q].parent # P[s].pid}
        \cup (IF IsLive(P, P[s].parent) THEN {P[s].pid} ELSE {})

ProcessExit(s, self) ==
    /\ proc' = ExitedProcs(proc, s, self)
    /\ thr' = ExitedThreads(proc, thr, s)
    /\ owed' = OwedAfter(proc, s)
    /\ Note
    /\ UNCHANGED <<nextPid, rpc, incomplete>>

\* SYS_EXIT, exit_group, a fatal exception or signal: the caller's process
\* ends and the caller is switched away before the lock is free.
Exit(c) ==
    /\ Calling(c)
    /\ ProcessExit(SlotOf(PidOf(c)), cpu[c])
    /\ LeaveCpu(c)

\* do_kill() of another process; it refuses one that has already exited.
Kill(c, s) ==
    /\ Calling(c)
    /\ proc[s].state = "live"
    /\ proc[s].pid # PidOf(c)
    /\ ProcessExit(s, cpu[c])
    /\ UNCHANGED cpu

\* process_has_live_threads_except()
HasLiveThreadsExcept(pid, self) ==
    \E t \in ThreadSlots \ {self} :
        thr[t].pid = pid /\ thr[t].state \notin {"unused", "zombie"}

\* thread_exit() of the caller: the last live thread takes the process along.
ThreadExit(c) ==
    /\ Calling(c)
    /\ LeaveCpu(c)
    /\ IF HasLiveThreadsExcept(PidOf(c), cpu[c])
       THEN /\ thr' = [thr EXCEPT ![cpu[c]] = [@ EXCEPT !.state = "zombie", !.listed = FALSE]]
            /\ Note
            /\ UNCHANGED <<proc, nextPid, rpc, incomplete, owed>>
       ELSE ProcessExit(SlotOf(PidOf(c)), cpu[c])

-----------------------------------------------------------------------------
(* The reaper. *)

\* task_reap_dead_threads(): ended threads of processes that live on.
DeadThreads(P, T) ==
    {t \in ThreadSlots \ OnCpu : T[t].state = "zombie" /\ IsLive(P, T[t].pid)}

ReapedThreads(P, T) ==
    [t \in ThreadSlots |-> IF t \in DeadThreads(P, T) THEN FreeThread ELSE T[t]]

DeadOnCpu(T) == \E t \in OnCpu : T[t].state = "zombie"

\* reap_defer: a thread of the process is still on a CPU.
Deferred(P, T, s) == \E t \in OnCpu : T[t].state # "unused" /\ T[t].pid = P[s].pid

OnZombieList(P) == {s \in ProcSlots : P[s].links > 0}

\* Bug: a status that nobody has collected does not keep the slot.
RetainedNever(P, s) == FALSE

\* The status is uncollected and the parent is there to collect it.
Retained(P, s) == P[s].valid /\ IsLive(P, P[s].parent)

\* The first pass of task_reap_zombies(): threads and page tables are freed.
ZombieThreadsFreed(P, T) ==
    [t \in ThreadSlots |->
        IF \E s \in OnZombieList(P) : T[t].pid = P[s].pid /\ ~Deferred(P, T, s)
        THEN FreeThread
        ELSE T[t]]

\* Both passes, for the process table: what is not retained is recycled.
ZombiesReaped(P, T) ==
    [s \in ProcSlots |->
        IF s \notin OnZombieList(P) \/ Deferred(P, T, s) THEN P[s]
        ELSE IF Retained(P, s) THEN [P[s] EXCEPT !.dir = FALSE]
        ELSE FreeProc]

\* A process that was pushed on zombie_list twice makes the list a cycle, and
\* the pass over it never ends.
ListIsFinite(P) == \A s \in ProcSlots : P[s].links <= 1

\* task_reap_idle(): the hint is read and the reaper starts.
ReapStart ==
    /\ cpu[Boot] = Idle
    /\ rpc = "off"
    /\ pending
    /\ rpc' = "threads"
    /\ fresh' = FALSE
    /\ incomplete' = FALSE
    /\ UNCHANGED <<proc, thr, cpu, nextPid, pending, owed>>

ReapDeadThreads ==
    /\ cpu[Boot] = Idle
    /\ rpc = "threads"
    /\ rpc' = "zombies"
    /\ thr' = ReapedThreads(proc, thr)
    /\ incomplete' = (incomplete \/ DeadOnCpu(thr))
    /\ UNCHANGED <<proc, cpu, nextPid, pending, fresh, owed>>

ReapZombies ==
    /\ cpu[Boot] = Idle
    /\ rpc = "zombies"
    /\ ListIsFinite(proc)
    /\ rpc' = "end"
    /\ proc' = ZombiesReaped(proc, thr)
    /\ thr' = ZombieThreadsFreed(proc, thr)
    /\ incomplete' = (incomplete \/ \E s \in OnZombieList(proc) : Deferred(proc, thr, s))
    /\ UNCHANGED <<cpu, nextPid, pending, fresh, owed>>

\* Bug: g_reap_done takes the hint's value of now, not the one first seen.
ReapEndNow ==
    /\ cpu[Boot] = Idle
    /\ rpc = "end"
    /\ rpc' = "off"
    /\ pending' = incomplete
    /\ UNCHANGED <<proc, thr, cpu, nextPid, fresh, incomplete, owed>>

\* The pass left nothing behind: g_reap_done = seen.
ReapEnd ==
    /\ cpu[Boot] = Idle
    /\ rpc = "end"
    /\ rpc' = "off"
    /\ pending' = (incomplete \/ fresh)
    /\ UNCHANGED <<proc, thr, cpu, nextPid, fresh, incomplete, owed>>

-----------------------------------------------------------------------------
(* Creation. *)

\* thread_create() in the table T; with no slot it fails and changes nothing.
CreateIn(c, T) ==
    /\ FreeThreads(T) # {}
    /\ thr' = [T EXCEPT ![Min(FreeThreads(T))] = NewThread(PidOf(c))]
    /\ UNCHANGED <<proc, cpu, nextPid, owed>>

\* SYS_THREAD_CREATE
ThreadCreate(c) ==
    /\ Calling(c)
    /\ CreateIn(c, thr)
    /\ UnchangedReaper

\* clone(CLONE_THREAD): ended threads give their slots back first.
CloneThread(c) ==
    /\ Calling(c)
    /\ CreateIn(c, ReapedThreads(proc, thr))
    /\ incomplete' = (incomplete \/ DeadOnCpu(thr))
    /\ UNCHANGED <<rpc, pending, fresh>>

\* A program is started as a child of the caller's process.
Spawn(c) ==
    /\ Calling(c)
    /\ FreeProcs # {} /\ nextPid <= MaxPid
    /\ FreeThreads(thr) # {}
    /\ proc' = [proc EXCEPT ![Min(FreeProcs)] = NewProc(nextPid, PidOf(c))]
    /\ thr' = [thr EXCEPT ![Min(FreeThreads(thr))] = NewThread(nextPid)]
    /\ nextPid' = nextPid + 1
    /\ UNCHANGED <<cpu, owed>>
    /\ UnchangedReaper

\* The same with the thread table full or an image the loader rejects:
\* process_destroy() ends the process that was just created and runs the
\* reaper's two sections in the caller.
SpawnFails(c) ==
    /\ Calling(c)
    /\ FreeProcs # {} /\ nextPid <= MaxPid
    /\ LET s == Min(FreeProcs)
           made == [proc EXCEPT ![s] = NewProc(nextPid, PidOf(c))]
           P == ExitedProcs(made, s, cpu[c])
           T == ReapedThreads(P, ExitedThreads(made, thr, s))
       IN  /\ ListIsFinite(P)
           /\ proc' = ZombiesReaped(P, T)
           /\ thr' = ZombieThreadsFreed(P, T)
           /\ owed' = OwedAfter(made, s)
           /\ incomplete' = (incomplete \/ DeadOnCpu(T)
                             \/ \E q \in OnZombieList(P) : Deferred(P, T, q))
    /\ nextPid' = nextPid + 1
    /\ Note
    /\ UNCHANGED <<cpu, rpc>>

-----------------------------------------------------------------------------
(* waitpid. *)

Children(pid, w) ==
    {s \in ProcSlots : /\ proc[s].state # "unused"
                       /\ proc[s].parent = pid
                       /\ w # AnyChild => proc[s].pid = w}

Collectable(pid, w) == {s \in Children(pid, w) : proc[s].state = "zombie" /\ proc[s].valid}

\* One pass of the loop in SYS_WAITPID: collect a status, block, or find that
\* there is no such child.
WaitPass(c, w) ==
    LET t == cpu[c]
        found == Collectable(PidOf(c), w)
    IN  /\ UNCHANGED <<nextPid, rpc, incomplete>>
        /\ IF found # {}
           THEN /\ proc' = [proc EXCEPT ![Min(found)].valid = FALSE]
                /\ owed' = owed \ {proc[Min(found)].pid}
                /\ thr' = [thr EXCEPT ![t].want = NoCall]
                /\ Note
                /\ UNCHANGED cpu
           ELSE /\ UNCHANGED <<proc, owed, pending, fresh>>
                /\ IF Children(PidOf(c), w) # {}
                   THEN /\ thr' = [thr EXCEPT ![t] = [@ EXCEPT !.state = "waiting", !.want = w]]
                        /\ LeaveCpu(c)
                   ELSE /\ thr' = [thr EXCEPT ![t].want = NoCall]
                        /\ UNCHANGED cpu

WaitPid(c, w) ==
    /\ Calling(c)
    /\ WaitPass(c, w)

\* The waiter was woken and dispatched again: it looks once more.
WaitAgain(c) ==
    /\ cpu[c] # Idle
    /\ thr[cpu[c]].state = "running" \/ LateCalls
    /\ thr[cpu[c]].want # NoCall
    /\ WaitPass(c, thr[cpu[c]].want)

-----------------------------------------------------------------------------
(* The CPU changes hands. *)

\* scheduler_yield() in a system call: it does not look at the caller's state.
Yield(c) ==
    /\ Calling(c)
    /\ thr' = [thr EXCEPT ![cpu[c]].state = "ready"]
    /\ LeaveCpu(c)
    /\ UNCHANGED <<proc, nextPid, owed>>
    /\ UnchangedReaper

\* A tick or a kick: a running thread is queued again, an ended one leaves.
Tick(c) ==
    /\ cpu[c] # Idle
    /\ thr' = [thr EXCEPT ![cpu[c]].state = IF @ = "running" THEN "ready" ELSE @]
    /\ LeaveCpu(c)
    /\ UNCHANGED <<proc, nextPid, owed>>
    /\ UnchangedReaper

\* scheduler_do_context_switch() to a ready thread, whose process it marks
\* TASK_RUNNING whatever its state was.
Dispatch(c, t) ==
    /\ cpu[c] = Idle
    /\ thr[t].state = "ready"
    /\ t \notin OnCpu
    /\ thr' = [thr EXCEPT ![t].state = "running"]
    /\ proc' = [proc EXCEPT ![SlotOf(thr[t].pid)].state = "live"]
    /\ cpu' = [cpu EXCEPT ![c] = t]
    /\ UNCHANGED <<nextPid, owed>>
    /\ UnchangedReaper

Next ==
    \/ \E c \in Cpus :
        \/ Exit(c) \/ ThreadExit(c) \/ ThreadCreate(c) \/ CloneThread(c)
        \/ Spawn(c) \/ SpawnFails(c) \/ WaitAgain(c) \/ Yield(c) \/ Tick(c)
        \/ \E s \in ProcSlots : Kill(c, s)
        \/ \E w \in Pids \cup {AnyChild} : WaitPid(c, w)
        \/ \E t \in ThreadSlots : Dispatch(c, t)
    \/ ReapStart \/ ReapDeadThreads \/ ReapZombies \/ ReapEnd

Spec == Init /\ [][Next]_vars

-----------------------------------------------------------------------------
ProcStates == {"unused", "live", "zombie"}
ThreadStates == {"unused", "ready", "running", "waiting", "zombie"}

\* The tables keep their types, and a thread is TASK_RUNNING only as the current
\* thread of a CPU: process_exit() and the reaper rely on it.
TypeOK ==
    /\ proc \in [ProcSlots -> [state : ProcStates, pid : 0..MaxPid, parent : 0..MaxPid,
                               valid : BOOLEAN, dir : BOOLEAN, links : 0..2]]
    /\ thr \in [ThreadSlots -> [state : ThreadStates, pid : 0..MaxPid,
                                listed : BOOLEAN, want : NoCall..MaxPid]]
    /\ cpu \in [Cpus -> ThreadSlots \cup {Idle}]
    /\ \A t \in ThreadSlots : thr[t].state = "running" => t \in OnCpu
    /\ nextPid \in 2..(MaxPid + 1)
    /\ rpc \in {"off", "threads", "zombies", "end"}
    /\ {pending, fresh, incomplete} \subseteq BOOLEAN
    /\ owed \subseteq Pids

\* Nothing is freed under a thread that runs or may run again: whatever is on a
\* CPU, ready or blocked has its thread slot and its process's page tables.
\* process_exit() and the reaper, in two places and on different evidence,
\* decide that nobody is inside the address space they free.
NoFreeUnderFoot ==
    \A t \in ThreadSlots :
        t \in OnCpu \/ thr[t].state \in {"ready", "running", "waiting"} =>
            /\ thr[t].state # "unused"
            /\ \E s \in ProcSlots : /\ proc[s].state # "unused"
                                    /\ proc[s].pid = thr[t].pid
                                    /\ proc[s].dir

\* An exit that a live parent has not collected is still there to be collected:
\* the reaper never recycles the slot first, so waitpid reports "no such child"
\* only to a caller that has none left.
ExitStatusKept ==
    \A k \in owed : \E s \in ProcSlots :
        proc[s].pid = k /\ proc[s].state = "zombie" /\ proc[s].valid

\* A thread blocked in waitpid has not missed an exit that it waits for.
WaiterNotMissed ==
    \A t \in ThreadSlots :
        thr[t].state = "waiting" => Collectable(thr[t].pid, thr[t].want) = {}

\* process_exit() is the end: no thread of an exited process is ever ready,
\* running or blocked again, until the slots are reused.
ExitedIsOver ==
    \A s \in OnZombieList(proc) :
        /\ proc[s].state = "zombie"
        /\ \A t \in ThreadSlots : thr[t].pid = proc[s].pid => thr[t].state = "zombie"

\* What the reaper would still free: an ended thread of a live process, or a
\* process on the zombie list that it has no reason to keep.
Reapable ==
    \/ DeadThreads(proc, thr) # {}
    \/ \E s \in OnZombieList(proc) : ~Retained(proc, s)

\* The hint is never lost: while the reaper sleeps with nothing pending there is
\* nothing to reap, whatever ended or was collected during its last pass.
ReapHintCovers == rpc = "off" /\ ~pending => ~Reapable

================================================================================
