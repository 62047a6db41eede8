------------------------------- MODULE UserMutex -------------------------------
(***************************************************************************)
(* The mutex and the condition variable of src/userland/lib/cos_sync.c,    *)
(* run by threads of user processes on the kernel futex (module Futex).    *)
(*                                                                         *)
(* Every atomic instruction on a shared word and every futex call is one   *)
(* step.  A process has one cos_mutex_t, whose state is the word at M, and *)
(* one cos_cond_t, whose sequence number is the word at C.                 *)
(*                                                                         *)
(* pc is the next step of a thread; a thread that is in a futex call       *)
(* (at # "user") takes it when the call has returned.                      *)
(***************************************************************************)
EXTENDS UserThread

CONSTANTS M, C,       \* the addresses of the two words
          MaxSeq,     \* bound on the sequence number of the condition variable
          TimedCalls  \* whether cos_mutex_timedlock() and timed waits are used

ASSUME UserMutexAssumption ==
    /\ {M, C} \subseteq Addrs /\ M # C
    /\ MaxSeq \in Nat
    /\ 0 .. 2 \subseteq Words /\ 0 .. MaxSeq \subseteq Words
    /\ TimedCalls \in BOOLEAN

VARIABLES held,       \* the thread is between taking and releasing the mutex
          seen,       \* cos_cond_timedwait()'s local seen
          waiters,    \* cos_cond_t.waiters of each process
          owe         \* history: the threads that were waiting when the thread
                      \* last signalled and have not left that wait, the new
                      \* sequence number, and whether it was a broadcast

syncVars == <<vars, pc, held, seen, waiters, owe>>

NoDebt == [to |-> {}, seq |-> 0, all |-> FALSE]

SyncInit ==
    /\ mem = [p \in Pids |-> [a \in Addrs |-> 0]]
    /\ ThreadsInit
    /\ held = [t \in Threads |-> FALSE]
    /\ seen = [t \in Threads |-> 0]
    /\ waiters = [p \in Pids |-> 0]
    /\ owe = [t \in Threads |-> NoDebt]

-----------------------------------------------------------------------------
\* The thread has the mutex: it goes on in its critical section.
Acquired(t) ==
    /\ Goto(t, "critical")
    /\ held' = [held EXCEPT ![t] = TRUE]

\* Where a call of cos_cond_signal() or cos_cond_broadcast() returns to.
Back(t) == IF held[t] THEN "critical" ELSE "idle"

-----------------------------------------------------------------------------
(* cos_mutex_lock(), cos_mutex_trylock(), cos_mutex_timedlock().           *)

\* Bug: a load and a store instead of the first compare-and-swap: the thread
\* found the word free some time ago.
LockFastStale(t) ==
    /\ At(t, "idle") \/ At(t, "lock")
    /\ \/ SetWord(t, M, 1) /\ Acquired(t)
       \/ Word(t, M) # 0 /\ Goto(t, "spin") /\ UNCHANGED <<mem, held>>
    /\ UNCHANGED <<kernelVars, seen, waiters, owe>>

\* The first compare-and-swap of cos_mutex_lock().
LockFast(t) ==
    /\ At(t, "idle") \/ At(t, "lock")
    /\ IF Word(t, M) = 0
       THEN SetWord(t, M, 1) /\ Acquired(t)
       ELSE Goto(t, "spin") /\ UNCHANGED <<mem, held>>
    /\ UNCHANGED <<kernelVars, seen, waiters, owe>>

\* The spin loop: some iteration finds the word free and takes it ...
Spin(t) ==
    /\ At(t, "spin")
    /\ Word(t, M) = 0
    /\ SetWord(t, M, 1)
    /\ Acquired(t)
    /\ UNCHANGED <<kernelVars, seen, waiters, owe>>

\* ... or the loop runs out.
SpinEnds(t) ==
    /\ At(t, "spin")
    /\ Goto(t, "exchange")
    /\ UNCHANGED <<vars, held, seen, waiters, owe>>

\* cos_mutex_trylock(); a failure changes nothing.
TryLock(t) ==
    /\ At(t, "idle")
    /\ Word(t, M) = 0
    /\ SetWord(t, M, 1)
    /\ Acquired(t)
    /\ UNCHANGED <<kernelVars, seen, waiters, owe>>

\* The trylock that cos_mutex_timedlock() starts with fails.
TimedLock(t) ==
    /\ TimedCalls
    /\ At(t, "idle")
    /\ Word(t, M) # 0
    /\ Goto(t, "timed exchange")
    /\ UNCHANGED <<vars, held, seen, waiters, owe>>

\* Bug: the slow path claims the mutex with 1 and forgets the other waiters.
ExchangeForgets(t) ==
    /\ At(t, "exchange") \/ At(t, "timed exchange")
    /\ IF Word(t, M) = 0
       THEN SetWord(t, M, 1) /\ Acquired(t)
       ELSE /\ SetWord(t, M, 2)
            /\ Goto(t, IF pc[t] = "exchange" THEN "wait" ELSE "timed wait")
            /\ UNCHANGED held
    /\ Discard(t)
    /\ UNCHANGED <<parkVars, seen, waiters, owe>>

\* The exchange of the slow path, ATOMIC_XCHG(&m->state, 2).
Exchange(t) ==
    /\ At(t, "exchange") \/ At(t, "timed exchange")
    /\ SetWord(t, M, 2)
    /\ IF Word(t, M) = 0
       THEN Acquired(t)
       ELSE /\ Goto(t, IF pc[t] = "exchange" THEN "wait" ELSE "timed wait")
            /\ UNCHANGED held
    /\ Discard(t)
    /\ UNCHANGED <<parkVars, seen, waiters, owe>>

\* cos_futex_wait(&m->state, 2, 0), then around the loop.
MutexWait(t) ==
    /\ At(t, "wait")
    /\ FutexWait(t, M, 2, Forever)
    /\ Goto(t, "exchange")
    /\ UNCHANGED <<held, seen, waiters, owe>>

\* In cos_mutex_timedlock() the deadline has passed before the wait ...
TimedLockFails(t) ==
    /\ At(t, "timed wait")
    /\ Goto(t, "idle")
    /\ UNCHANGED <<vars, held, seen, waiters, owe>>

\* ... or the thread waits for the time that is left of it.
TimedMutexWait(t) ==
    /\ At(t, "timed wait")
    /\ \E timeout \in Timeouts \ {Forever} : FutexWait(t, M, 2, timeout)
    /\ Goto(t, "timed exchange")
    /\ UNCHANGED <<held, seen, waiters, owe>>

-----------------------------------------------------------------------------
(* cos_mutex_unlock().                                                     *)

\* Word value 2: a waiter may be parked.
NeedsWake(w) == w = 2

\* The exchange with 0, from the critical section or inside a condition wait.
Unlock(t) ==
    /\ At(t, "critical") \/ At(t, "cond unlock")
    /\ SetWord(t, M, 0)
    /\ held' = [held EXCEPT ![t] = FALSE]
    /\ Goto(t, IF pc[t] = "critical"
               THEN IF NeedsWake(Word(t, M)) THEN "wake" ELSE "idle"
               ELSE IF NeedsWake(Word(t, M)) THEN "cond wake" ELSE "cond wait")
    /\ UNCHANGED <<kernelVars, seen, waiters, owe>>

\* cos_futex_wake(&m->state, 1)
UnlockWake(t) ==
    /\ At(t, "wake") \/ At(t, "cond wake")
    /\ FutexWake(t, M, 1)
    /\ Goto(t, IF pc[t] = "wake" THEN "idle" ELSE "cond wait")
    /\ UNCHANGED <<held, seen, waiters, owe>>

-----------------------------------------------------------------------------
(* The condition variable.                                                 *)

\* cos_cond_timedwait(), called with the mutex held: the sequence number is
\* read first ...
CondSeen(t) ==
    /\ At(t, "critical")
    /\ seen' = [seen EXCEPT ![t] = Word(t, C)]
    /\ Goto(t, "cond add")
    /\ UNCHANGED <<vars, held, waiters, owe>>

\* ... the thread counts itself, and releases the mutex (Unlock).
CondAdd(t) ==
    /\ At(t, "cond add")
    /\ waiters' = [waiters EXCEPT ![PidOf[t]] = @ + 1]
    /\ Goto(t, "cond unlock")
    /\ UNCHANGED <<vars, held, seen, owe>>

\* Bug: the wait expects the number it finds, not the one it saw.
CondExpectedNow(t) == Word(t, C)

CondExpected(t) == seen[t]

\* cos_futex_wait(&c->seq, seen, timeout_ms)
CondWait(t) ==
    /\ At(t, "cond wait")
    /\ \E timeout \in (IF TimedCalls THEN Timeouts ELSE {Forever}) :
          FutexWait(t, C, CondExpected(t), timeout)
    /\ Goto(t, "cond sub")
    /\ UNCHANGED <<held, seen, waiters, owe>>

\* What is owed after t has left its wait: a signal was for one thread, a
\* broadcast for the others too.
Settled(debt, t) ==
    IF t \notin debt.to THEN debt
    ELSE IF debt.all /\ debt.to # {t} THEN [debt EXCEPT !.to = @ \ {t}] ELSE NoDebt

\* The thread counts itself out and takes the mutex again.
CondSub(t) ==
    /\ At(t, "cond sub")
    /\ waiters' = [waiters EXCEPT ![PidOf[t]] = @ - 1]
    /\ owe' = [u \in Threads |-> Settled(owe[u], t)]
    /\ Goto(t, "lock")
    /\ Discard(t)
    /\ UNCHANGED <<mem, parkVars, held, seen>>

\* The threads of t's process that have begun to wait on the condition.
CondWaiters(t) ==
    {u \in Threads : /\ PidOf[u] = PidOf[t]
                     /\ \/ pc[u] \in {"cond add", "cond unlock", "cond wake", "cond wait"}
                        \/ pc[u] = "cond sub" /\ at[u] = "parked"}

\* cos_cond_signal() and cos_cond_broadcast(), with or without the mutex: the
\* sequence number is advanced ...
SignalAdd(t) ==
    /\ At(t, "critical") \/ At(t, "idle")
    /\ Word(t, C) < MaxSeq
    /\ SetWord(t, C, Word(t, C) + 1)
    /\ \E all \in BOOLEAN :
          /\ owe' = [owe EXCEPT ![t] = [to |-> CondWaiters(t), seq |-> Word(t, C) + 1, all |-> all]]
          /\ Goto(t, IF all THEN "broadcast check" ELSE "signal check")
    /\ UNCHANGED <<kernelVars, held, seen, waiters>>

\* ... the count of waiters is read ...
SignalCheck(t) ==
    /\ At(t, "signal check") \/ At(t, "broadcast check")
    /\ Goto(t, IF waiters[PidOf[t]] = 0 THEN Back(t)
               ELSE IF pc[t] = "signal check" THEN "signal" ELSE "broadcast")
    /\ UNCHANGED <<vars, held, seen, waiters, owe>>

\* ... and if there are any, one or all of them are woken.
SignalWake(t) ==
    /\ At(t, "signal") \/ At(t, "broadcast")
    /\ FutexWake(t, C, IF pc[t] = "signal" THEN 1 ELSE Cardinality(Threads))
    /\ Goto(t, Back(t))
    /\ UNCHANGED <<held, seen, waiters, owe>>

-----------------------------------------------------------------------------
SyncNext ==
    \/ \E t \in Threads :
          \/ LockFast(t) \/ Spin(t) \/ SpinEnds(t) \/ TryLock(t) \/ TimedLock(t)
          \/ Exchange(t) \/ MutexWait(t) \/ TimedLockFails(t) \/ TimedMutexWait(t)
          \/ Unlock(t) \/ UnlockWake(t)
          \/ CondSeen(t) \/ CondAdd(t) \/ CondWait(t) \/ CondSub(t)
          \/ SignalAdd(t) \/ SignalCheck(t) \/ SignalWake(t)
    \/ KernelSteps /\ UNCHANGED <<held, seen, waiters, owe>>

SyncSpec == SyncInit /\ [][SyncNext]_syncVars

-----------------------------------------------------------------------------
\* cos_mutex_lock() and its variants let one thread of a process in at a time,
\* and the word says so: it is 0 only when nobody holds the mutex.
UserMutualExclusion ==
    \A t \in Threads : held[t] =>
        /\ Word(t, M) # 0
        /\ \A u \in Threads \ {t} : PidOf[u] = PidOf[t] => ~held[u]

\* A thread that will look at the mutex again, or wake a waiter, without being
\* woken itself.
InFlight(t) ==
    \/ pc[t] \in {"wake", "cond wake"}
    \/ pc[t] \in {"exchange", "timed exchange"} /\ at[t] # "parked"

\* No wakeup of the mutex is lost: while a thread is parked on the word, the
\* word says 2, so that the holder's unlock wakes a waiter, or some thread of
\* the process is on its way to wake one or to set the word to 2.  This is what
\* the third state of the word must guarantee when unlock skips the system call.
NoLostWakeup ==
    \A t \in Threads : (at[t] = "parked" /\ futex_addr[t] = M) =>
        \/ Word(t, M) = 2 /\ \E u \in Threads : PidOf[u] = PidOf[t] /\ held[u]
        \/ \E u \in Threads : PidOf[u] = PidOf[t] /\ InFlight(u)

\* A thread asleep in the wait it began before the number became seq.
StillAsleep(t, seq) == at[t] = "parked" /\ futex_addr[t] = C /\ seen[t] < seq

\* The thread's last call of cos_cond_signal() or cos_cond_broadcast() is over.
Signalled(t) ==
    pc[t] \notin {"signal check", "signal", "broadcast check", "broadcast"} /\ owe[t].to # {}

\* No signal is lost: once cos_cond_signal() has returned, at least one of the
\* threads that were in cos_cond_wait() when it advanced the sequence number
\* does not sleep in that wait, however far it had got: before it counted
\* itself, between its unlock and its park, or parked behind other threads.  And
\* cos_cond_broadcast() leaves none of them asleep.
SignalNotLost ==
    \A t \in Threads : Signalled(t) =>
        /\ \E u \in owe[t].to : ~StillAsleep(u, owe[t].seq)
        /\ owe[t].all => \A u \in owe[t].to : ~StillAsleep(u, owe[t].seq)
================================================================================
