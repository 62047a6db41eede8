--------------------------------- MODULE Mutex ---------------------------------
(***************************************************************************)
(* mutex_t of src/src/kernel/sync.c: a flag, an owner and a FIFO wait      *)
(* queue.  Each pass through mutex_lock()'s loop and each of the other     *)
(* calls is one section under the kernel lock, hence one step;             *)
(* scheduler_block() ends a pass by switching away, and the thread starts  *)
(* the next pass when it has been woken and dispatched again.              *)
(*                                                                         *)
(* mutex_unlock() does not hand the mutex over.  It clears the flag, wakes *)
(* the first waiter and lets it compete with every other caller.           *)
(***************************************************************************)
EXTENDS Queues

CONSTANTS Threads,
          Mortal,     \* threads of processes that process_exit() may end
          Stray,      \* threads that may unlock a mutex they do not hold
          NoThread    \* NULL

ASSUME MutexAssumption ==
    /\ Mortal \subseteq Threads
    /\ Stray \subseteq Threads
    /\ NoThread \notin Threads

VARIABLES locked,    \* mutex_t.locked
          owner,     \* mutex_t.owner
          waiters,   \* mutex_t.waiters, the wait queue
          pc         \* where a thread is with respect to this mutex:
                     \* "out", "blocked" in the queue, "woken" on its way back
                     \* to the top of the loop, "in", "dead"

vars == <<locked, owner, waiters, pc>>

\* mutex_init()
Init ==
    /\ locked = FALSE
    /\ owner = NoThread
    /\ waiters = <<>>
    /\ pc = [t \in Threads |-> "out"]

\* The flag is clear: the caller takes the mutex and leaves the loop.
Take(t) ==
    /\ locked' = TRUE
    /\ owner' = t
    /\ pc' = [pc EXCEPT ![t] = "in"]
    /\ UNCHANGED waiters

\* scheduler_block(self, waiters): the caller queues at the tail.
Block(t) ==
    /\ waiters' = Append(waiters, t)
    /\ pc' = [pc EXCEPT ![t] = "blocked"]
    /\ UNCHANGED <<locked, owner>>

\* Bug: a woken thread assumes that the mutex was handed to it.
RetryTakes(t) ==
    /\ pc[t] = "woken"
    /\ Take(t)

\* One pass through the loop of mutex_lock().
Pass(t) == IF locked THEN Block(t) ELSE Take(t)

Lock(t) ==
    /\ pc[t] = "out"
    /\ Pass(t)

\* Bug: a woken thread takes the mutex only when nobody else is queued.
RetryWhenAlone(t) ==
    /\ pc[t] = "woken"
    /\ IF ~locked /\ waiters # <<>> THEN UNCHANGED vars ELSE Pass(t)

Retry(t) ==
    /\ pc[t] = "woken"
    /\ Pass(t)

\* mutex_trylock(); when the mutex is held it changes nothing.
TryLock(t) ==
    /\ pc[t] = "out"
    /\ ~locked
    /\ Take(t)

\* Bug: the flag is cleared and no waiter is woken.
WakeNobody(p) ==
    /\ waiters' = waiters
    /\ pc' = p

\* wait_queue_wake_one(waiters), after the caller's own state is p.
WakeOne(p) ==
    IF waiters = <<>>
    THEN /\ waiters' = waiters
         /\ pc' = p
    ELSE /\ waiters' = Tail(waiters)
         /\ pc' = [p EXCEPT ![Head(waiters)] = "woken"]

\* mutex_unlock() by the thread that holds the mutex.
Unlock(t) ==
    /\ pc[t] = "in"
    /\ locked' = FALSE
    /\ owner' = NoThread
    /\ WakeOne([pc EXCEPT ![t] = "out"])

\* mutex_unlock() by a thread that does not hold the mutex.  It is ignored
\* while another thread is the owner, and wakes a waiter when nobody is.
StrayUnlock(t) ==
    /\ t \in Stray
    /\ pc[t] = "out"
    /\ ~locked
    /\ locked' = FALSE
    /\ owner' = NoThread
    /\ WakeOne(pc)

\* process_exit() on the thread's process, called by another thread: the
\* thread leaves the queues (scheduler_remove_task) and never runs again; the
\* mutex itself is not touched.
Kill(t) ==
    /\ t \in Mortal
    /\ pc[t] # "dead"
    /\ pc' = [pc EXCEPT ![t] = "dead"]
    /\ waiters' = Without(waiters, {t})
    /\ UNCHANGED <<locked, owner>>

Next == \E t \in Threads :
    Lock(t) \/ Retry(t) \/ TryLock(t) \/ Unlock(t) \/ StrayUnlock(t) \/ Kill(t)

Spec == Init /\ [][Next]_vars

\* The scheduler runs every ready thread again and again (Scheduler!NobodyStarves),
\* so a woken thread makes its pass and a holder finishes and unlocks.
FairSpec == Spec /\ \A t \in Threads : WF_vars(Retry(t)) /\ WF_vars(Unlock(t))

-----------------------------------------------------------------------------
States == {"out", "blocked", "woken", "in", "dead"}

\* The fields of mutex_t keep their types, and mutex_t.owner is set exactly
\* while the flag is: the test of mutex_unlock() reads both.
TypeOK ==
    /\ locked \in BOOLEAN
    /\ owner \in IF locked THEN Threads ELSE {NoThread}
    /\ waiters \in Seq(Threads)
    /\ pc \in [Threads -> States]

\* At most one thread is between mutex_lock() and mutex_unlock(), and the mutex
\* is marked held, in that thread's name, all the while: neither a barging
\* caller, a thread woken too early nor a stray unlock lets a second one in.
MutualExclusion ==
    \A t \in Threads : pc[t] = "in" => locked /\ owner = t

\* The wait queue holds the blocked threads, each of them once: no thread is
\* queued twice by its repeated passes through the loop, and none is blocked
\* without being where mutex_unlock() looks for it.
QueueIsBlocked ==
    /\ \A i, j \in DOMAIN waiters : waiters[i] = waiters[j] => i = j
    /\ \A t \in Threads : pc[t] = "blocked" <=> \E i \in DOMAIN waiters : waiters[i] = t

\* No thread has been killed in the middle of a call.
AllAlive == \A t \in Threads : pc[t] # "dead"

\* No wakeup is lost: while threads are queued, either a thread is inside,
\* whose unlock will wake one of them, or a thread that was woken is on its
\* way to take the mutex.  A killed holder or a killed woken thread takes its
\* wakeup along, so this is claimed until a thread is killed.
NoStrandedWaiter ==
    AllAlive /\ waiters # <<>> => \E t \in Threads : pc[t] \in {"in", "woken"}

\* A free mutex with waiters is taken by someone, unless a thread is killed: the
\* waiter that mutex_unlock() woke makes its pass.
WaitersProgress ==
    (AllAlive /\ waiters # <<>> /\ ~locked) ~> (locked \/ ~AllAlive)
================================================================================
