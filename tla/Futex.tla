--------------------------------- MODULE Futex ---------------------------------
(***************************************************************************)
(* The kernel futex of src/src/kernel/cos_futex.c: a fixed table of wait   *)
(* queues, chosen by a hash of (pid, address), on which threads park while *)
(* a word of their own memory holds an expected value.                     *)
(*                                                                         *)
(* cos_futex_wait() compares the word and parks in one section under the   *)
(* kernel lock; what it does after it has been woken is a later step of    *)
(* the thread.  User threads write the words with plain atomic             *)
(* instructions at any time, without the lock.                             *)
(*                                                                         *)
(* A deadline is kept as the time left until it (deadline - now), so that  *)
(* time itself needs no bound.                                             *)
(***************************************************************************)
EXTENDS Integers, Sequences, FiniteSets, Queues

CONSTANTS Pids,         \* processes
          Threads,
          PidOf,        \* thread_t.pid
          Addrs,        \* addresses of futex words, the same in every process
          BadAddrs,     \* misaligned, out of range or not mapped writable
          Buckets,      \* 0 .. COS_FUTEX_BUCKETS - 1
          FutexHash,    \* futex_hash(pid, uaddr)
          Words,        \* the values a futex word takes
          MaxTimeout,   \* bound on timeout_ms
          NoAddr, Forever

ASSUME FutexAssumption ==
    /\ IsFiniteSet(Threads)
    /\ PidOf \in [Threads -> Pids]
    /\ Addrs \cap BadAddrs = {}
    /\ NoAddr \notin Addrs \cup BadAddrs
    /\ FutexHash \in [Pids \X Addrs -> Buckets]
    /\ MaxTimeout \in Nat \ {0}
    /\ Forever \notin 0 .. MaxTimeout
    /\ Words \subseteq Nat

VARIABLES mem,          \* the futex words of every process
          queue,        \* futex_bucket_t.queue
          futex_addr,   \* thread_t.futex_addr
          futex_woken,  \* thread_t.futex_woken
          left,         \* time to futex_deadline; Forever when that is 0
          at,           \* "user" outside the call, "parked" in a queue,
                        \* "ready" unblocked but not yet running, "dead"
          ret           \* what the thread's last cos_futex_wait() returned

parkVars   == <<queue, futex_addr, futex_woken, left, at>>
kernelVars == <<parkVars, ret>>
vars == <<mem, kernelVars>>

Results  == {"none", "OK", "EAGAIN", "EFAULT", "ETIMEDOUT"}
Timeouts == {Forever} \cup 1 .. MaxTimeout

KernelInit ==
    /\ queue = [b \in Buckets |-> <<>>]
    /\ futex_addr = [t \in Threads |-> NoAddr]
    /\ futex_woken = [t \in Threads |-> FALSE]
    /\ left = [t \in Threads |-> Forever]
    /\ at = [t \in Threads |-> "user"]
    /\ ret = [t \in Threads |-> "none"]

Init ==
    /\ mem \in [Pids -> [Addrs -> Words]]
    /\ KernelInit

\* bucket_for()
BucketFor(pid, uaddr) == FutexHash[<<pid, uaddr>>]

-----------------------------------------------------------------------------
(* cos_futex_wait().                                                       *)

\* An early return: the thread stays in user mode.
WaitReturns(t, result) ==
    /\ ret' = [ret EXCEPT ![t] = result]
    /\ UNCHANGED <<queue, futex_addr, futex_woken, left, at>>

\* The fields are recorded and scheduler_block() queues the thread.
Park(t, uaddr, timeout) ==
    /\ futex_addr' = [futex_addr EXCEPT ![t] = uaddr]
    /\ futex_woken' = [futex_woken EXCEPT ![t] = FALSE]
    /\ left' = [left EXCEPT ![t] = timeout]
    /\ queue' = [queue EXCEPT ![BucketFor(PidOf[t], uaddr)] = Append(@, t)]
    /\ at' = [at EXCEPT ![t] = "parked"]
    /\ ret' = [ret EXCEPT ![t] = "none"]

FutexWait(t, uaddr, expected, timeout) ==
    /\ at[t] = "user"
    /\ IF uaddr \in BadAddrs
       THEN WaitReturns(t, "EFAULT")
       ELSE IF mem[PidOf[t]][uaddr] # expected
            THEN WaitReturns(t, "EAGAIN")
            ELSE Park(t, uaddr, timeout)
    /\ UNCHANGED mem

\* Bug: the deadline alone decides, so a wake that comes late is reported as a
\* timeout.
TimedOutByClock(t) == left[t] = 0

\* Which of the two released the thread.
TimedOut(t) == ~futex_woken[t] /\ left[t] = 0

\* The rest of the call, once the thread has been unblocked and runs again.
\* Nothing reads futex_woken and the deadline between two calls; the model
\* clears them here.
Return(t) ==
    /\ at[t] = "ready"
    /\ at' = [at EXCEPT ![t] = "user"]
    /\ ret' = [ret EXCEPT ![t] = IF TimedOut(t) THEN "ETIMEDOUT" ELSE "OK"]
    /\ futex_addr' = [futex_addr EXCEPT ![t] = NoAddr]
    /\ futex_woken' = [futex_woken EXCEPT ![t] = FALSE]
    /\ left' = [left EXCEPT ![t] = Forever]
    /\ UNCHANGED <<mem, queue>>

-----------------------------------------------------------------------------
(* Releasing waiters.                                                      *)

\* wait_queue_remove() and scheduler_unblock() on every thread of S, after the
\* reason has been recorded in futex_woken.
Release(S, reason) ==
    /\ queue' = [b \in Buckets |-> Without(queue[b], S)]
    /\ futex_woken' = [t \in Threads |-> IF t \in S THEN reason ELSE futex_woken[t]]
    /\ at' = [t \in Threads |-> IF t \in S THEN "ready" ELSE at[t]]

\* Bug: the walk looks at the head of the queue only.
WokenAtHead(pid, uaddr, count) ==
    LET q == queue[BucketFor(pid, uaddr)]
    IN  IF q # <<>> /\ count > 0 /\ futex_addr[Head(q)] = uaddr THEN {Head(q)} ELSE {}

\* The walk of cos_futex_wake(): the first count threads of the bucket whose
\* futex_addr is the address.
Woken(pid, uaddr, count) ==
    LET match == Without(queue[BucketFor(pid, uaddr)], {t \in Threads : futex_addr[t] # uaddr})
    IN  {match[i] : i \in {i \in DOMAIN match : i <= count}}

\* cos_futex_wake() called by thread t.
FutexWake(t, uaddr, count) ==
    /\ at[t] = "user"
    /\ Release(Woken(PidOf[t], uaddr, count), TRUE)
    /\ UNCHANGED <<mem, futex_addr, left, ret>>

\* Bug: the callback finds no thread to release.
ExpiredNever == {}

\* The parked threads whose deadline has passed.
Expired == {t \in Threads : at[t] = "parked" /\ left[t] = 0}

\* cos_futex_expire_timeouts(), the timer callback.
ExpireTimeouts ==
    /\ Expired # {}
    /\ Release(Expired, FALSE)
    /\ UNCHANGED <<mem, futex_addr, left, ret>>

\* A millisecond passes.
Tick ==
    /\ \E t \in Threads : left[t] # Forever /\ left[t] > 0
    /\ left' = [t \in Threads |->
                  IF left[t] # Forever /\ left[t] > 0 THEN left[t] - 1 ELSE left[t]]
    /\ UNCHANGED <<mem, queue, futex_addr, futex_woken, at, ret>>

\* process_exit() on a process, later completed by process_destroy():
\* every thread leaves its wait queue (scheduler_remove_task), so that
\* cos_futex_release_pid() finds none of them.
ExitProcess(pid) ==
    /\ \E t \in Threads : PidOf[t] = pid /\ at[t] # "dead"
    /\ queue' = [b \in Buckets |-> Without(queue[b], {t \in Threads : PidOf[t] = pid})]
    /\ at' = [t \in Threads |-> IF PidOf[t] = pid THEN "dead" ELSE at[t]]
    /\ left' = [t \in Threads |-> IF PidOf[t] = pid THEN Forever ELSE left[t]]
    /\ UNCHANGED <<mem, futex_addr, futex_woken, ret>>

\* A thread stores to a word of its process.
Store(t, uaddr, w) ==
    /\ at[t] = "user"
    /\ mem' = [mem EXCEPT ![PidOf[t]][uaddr] = w]
    /\ UNCHANGED kernelVars

-----------------------------------------------------------------------------
Counts == 1 .. Cardinality(Threads)

Next ==
    \/ \E t \in Threads :
          \/ \E a \in Addrs \cup BadAddrs, w \in Words, timeout \in Timeouts :
                FutexWait(t, a, w, timeout)
          \/ \E a \in Addrs, n \in Counts : FutexWake(t, a, n)
          \/ \E a \in Addrs, w \in Words : Store(t, a, w)
          \/ Return(t)
    \/ Tick
    \/ ExpireTimeouts
    \/ \E pid \in Pids : ExitProcess(pid)

Spec == Init /\ [][Next]_vars

\* The timer interrupt keeps coming and the scheduler runs every ready thread.
FairSpec ==
    /\ Spec
    /\ WF_vars(Tick)
    /\ WF_vars(ExpireTimeouts)
    /\ \A t \in Threads : WF_vars(Return(t))

-----------------------------------------------------------------------------
\* The table, the threads' futex fields and the results keep their types; a
\* deadline that has passed is not counted further.
KernelTypeOK ==
    /\ queue \in [Buckets -> Seq(Threads)]
    /\ futex_addr \in [Threads -> Addrs \cup {NoAddr}]
    /\ futex_woken \in [Threads -> BOOLEAN]
    /\ left \in [Threads -> (0 .. MaxTimeout) \cup {Forever}]
    /\ at \in [Threads -> {"user", "parked", "ready", "dead"}]
    /\ ret \in [Threads -> Results]

TypeOK ==
    /\ mem \in [Pids -> [Addrs -> Words]]
    /\ KernelTypeOK

\* The threads of process pid that are parked on its word at uaddr.
Waiting(pid, uaddr) ==
    {t \in Threads : PidOf[t] = pid /\ at[t] = "parked" /\ futex_addr[t] = uaddr}

\* A wake reaches the waiters it is for: in every state, cos_futex_wake(uaddr,
\* count) would release as many of the caller's own waiters on uaddr as count
\* allows, whatever other waiters share the bucket and whatever their order.
WakeReachesItsWaiters ==
    \A t \in Threads, a \in Addrs, n \in Counts :
        at[t] = "user" =>
            LET own == Waiting(PidOf[t], a)
            IN  Cardinality(Woken(PidOf[t], a, n) \cap own)
                   = IF n < Cardinality(own) THEN n ELSE Cardinality(own)

\* A wakeup is never reported as a timeout: a thread that a wake released
\* returns 0, even when its deadline passes before it runs again.
WakeIsNotTimeout ==
    [][\A t \in Threads :
         (at[t] = "ready" /\ futex_woken[t] /\ at'[t] = "user") => ret'[t] = "OK"]_vars

\* A timed wait ends: cos_mutex_timedlock() returns with no contender around.
TimedWaitEnds ==
    \A t \in Threads : (at[t] = "parked" /\ left[t] # Forever) ~> (at[t] \in {"user", "dead"})
================================================================================
