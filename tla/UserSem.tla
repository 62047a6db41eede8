-------------------------------- MODULE UserSem --------------------------------
(***************************************************************************)
(* The semaphore and the one-time initialisation of                        *)
(* src/userland/lib/cos_sync.c on the kernel futex.  A process has one     *)
(* cos_sem_t, the word at S, and one cos_once_t, the word at O.            *)
(*                                                                         *)
(* Every atomic instruction and every futex call is one step.  A failed    *)
(* compare-and-swap leads to another look at the word and is no step.      *)
(***************************************************************************)
EXTENDS UserThread

CONSTANTS S, O,          \* the addresses of the two words
          InitialCount,  \* cos_sem_init()
          MaxCount       \* bound on the semaphore's count

ASSUME UserSemAssumption ==
    /\ {S, O} \subseteq Addrs /\ S # O
    /\ InitialCount \in 0 .. MaxCount
    /\ 0 .. MaxCount \subseteq Words /\ 0 .. 2 \subseteq Words

VARIABLE runs     \* history: how often each process has finished its
                  \* initialiser

semVars == <<vars, pc, runs>>

SemInit ==
    /\ mem = [p \in Pids |-> [a \in Addrs |-> IF a = S THEN InitialCount ELSE 0]]
    /\ ThreadsInit
    /\ runs = [p \in Pids |-> 0]

-----------------------------------------------------------------------------
(* The semaphore.                                                          *)

HasToken(w) == w > 0

\* cos_sem_trywait() succeeds: on its own, or as a pass of cos_sem_wait() or
\* cos_sem_timedwait().
TakeToken(t) ==
    /\ At(t, "idle") \/ At(t, "try") \/ At(t, "timed try")
    /\ HasToken(Word(t, S))
    /\ SetWord(t, S, Word(t, S) - 1)
    /\ Goto(t, "idle")
    /\ Discard(t)
    /\ UNCHANGED <<parkVars, runs>>

\* It fails: cos_sem_wait() goes on to wait, cos_sem_timedwait() first looks
\* at the clock.
NoToken(t) ==
    /\ ~HasToken(Word(t, S))
    /\ \/ /\ At(t, "idle") \/ At(t, "try")
          /\ Goto(t, "wait")
       \/ /\ At(t, "idle") \/ At(t, "timed try")
          /\ Goto(t, "timed wait")
    /\ Discard(t)
    /\ UNCHANGED <<mem, parkVars, runs>>

\* Bug: the waiter passes the count it finds, so a post in the window is missed.
SemExpectedNow(t) == Word(t, S)

\* The value cos_sem_wait() expects to find when it parks.
SemExpected(t) == 0

SemWait(t) ==
    /\ At(t, "wait")
    /\ FutexWait(t, S, SemExpected(t), Forever)
    /\ Goto(t, "try")
    /\ UNCHANGED runs

SemTimedWait(t) ==
    /\ At(t, "timed wait")
    /\ \E timeout \in Timeouts \ {Forever} : FutexWait(t, S, SemExpected(t), timeout)
    /\ Goto(t, "timed try")
    /\ UNCHANGED runs

\* The deadline of cos_sem_timedwait() has passed.
SemGivesUp(t) ==
    /\ At(t, "timed wait")
    /\ Goto(t, "idle")
    /\ UNCHANGED <<vars, runs>>

\* cos_sem_post(): the count first, then the wake.
SemPost(t) ==
    /\ At(t, "idle")
    /\ Word(t, S) < MaxCount
    /\ SetWord(t, S, Word(t, S) + 1)
    /\ Goto(t, "post wake")
    /\ UNCHANGED <<kernelVars, runs>>

SemPostWake(t) ==
    /\ At(t, "post wake")
    /\ FutexWake(t, S, 1)
    /\ Goto(t, "idle")
    /\ UNCHANGED runs

-----------------------------------------------------------------------------
(* cos_once(): 0 not started, 1 in progress, 2 done.                       *)

\* Bug: a thread that finds the initialiser in progress goes on.
OnceDoneEarly(w) == w # 0

OnceDone(w) == w = 2

\* The compare-and-swap that elects the initialiser.
OnceBegin(t) ==
    /\ At(t, "idle")
    /\ Word(t, O) = 0
    /\ SetWord(t, O, 1)
    /\ Goto(t, "once init")
    /\ UNCHANGED <<kernelVars, runs>>

\* Any other thread waits until the word is 2; it finds it so at once ...
OnceReturns(t) ==
    /\ At(t, "idle") \/ At(t, "once look")
    /\ OnceDone(Word(t, O))
    /\ Goto(t, "once done")
    /\ Discard(t)
    /\ UNCHANGED <<mem, parkVars, runs>>

\* ... or parks while it is 1.
OnceLooks(t) ==
    /\ At(t, "idle") \/ At(t, "once look")
    /\ Word(t, O) = 1
    /\ Goto(t, "once wait")
    /\ Discard(t)
    /\ UNCHANGED <<mem, parkVars, runs>>

OnceWait(t) ==
    /\ At(t, "once wait")
    /\ FutexWait(t, O, 1, Forever)
    /\ Goto(t, "once look")
    /\ UNCHANGED runs

\* fn() has run; the word becomes 2 ...
OnceFinish(t) ==
    /\ At(t, "once init")
    /\ runs' = [runs EXCEPT ![PidOf[t]] = @ + 1]
    /\ SetWord(t, O, 2)
    /\ Goto(t, "once wake")
    /\ UNCHANGED kernelVars

\* The count of the initialiser's wake, 0x7fffffff in the code.
OnceWakeCount == Cardinality(Threads)

\* ... and every waiter is woken.
OnceWake(t) ==
    /\ At(t, "once wake")
    /\ FutexWake(t, O, OnceWakeCount)
    /\ Goto(t, "once done")
    /\ UNCHANGED runs

\* The caller of cos_once() goes on with other work.
OnceLeaves(t) ==
    /\ At(t, "once done")
    /\ Goto(t, "idle")
    /\ UNCHANGED <<vars, runs>>

-----------------------------------------------------------------------------
SemNext ==
    \/ \E t \in Threads :
          \/ TakeToken(t) \/ NoToken(t) \/ SemWait(t) \/ SemTimedWait(t) \/ SemGivesUp(t)
          \/ SemPost(t) \/ SemPostWake(t)
          \/ OnceBegin(t) \/ OnceReturns(t) \/ OnceLooks(t) \/ OnceWait(t)
          \/ OnceFinish(t) \/ OnceWake(t) \/ OnceLeaves(t)
    \/ KernelSteps /\ UNCHANGED runs

SemSpec == SemInit /\ [][SemNext]_semVars

-----------------------------------------------------------------------------
\* The threads of t's process parked on a word.
Parked(t, a) == {u \in Threads : PidOf[u] = PidOf[t] /\ at[u] = "parked" /\ futex_addr[u] = a}

\* The threads of t's process that will look at the count, or wake a waiter
\* that will, without being woken first.
WillLook(t) ==
    {u \in Threads : PidOf[u] = PidOf[t] /\
        \/ pc[u] = "post wake"
        \/ pc[u] \in {"try", "timed try"} /\ at[u] # "parked"}

\* No token is left lying while a thread sleeps for one: as long as a thread is
\* parked on the semaphore, there is for every token a thread on its way to it,
\* so a post that lands between a failed try and the park is not lost, and a
\* timed waiter that gives up takes no wakeup with it.
NoIdleToken ==
    \A t \in Threads : Parked(t, S) # {} => Word(t, S) <= Cardinality(WillLook(t))

\* cos_once() runs the initialiser once: nobody returns before it has finished,
\* and nobody sleeps through its end.
OnceIsOnce ==
    \A t \in Threads :
        /\ pc[t] = "once done" => runs[PidOf[t]] = 1
        /\ Parked(t, O) # {} =>
               \E u \in Threads : PidOf[u] = PidOf[t] /\ pc[u] \in {"once init", "once wake"}
================================================================================
