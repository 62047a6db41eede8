---------------------------- MODULE UserSyncProofs -----------------------------
(***************************************************************************)
(* Proofs about the kernel futex and about the user-space synchronisation  *)
(* library on top of it.  The lemmas about the futex are about single      *)
(* calls and timer steps, so that the proofs about the user-space locks,   *)
(* which make those calls in other orders (module UserThread), can use     *)
(* them too.  They are followed by mutual exclusion of the mutex and that  *)
(* its unlock and its condition variable lose no wakeup; then the          *)
(* semaphore, the one-time initialisation and the reader/writer lock.      *)
(***************************************************************************)
EXTENDS UserMutex, UserRwlock, UserSem, QueueProofs

-----------------------------------------------------------------------------
(* The futex.                                                              *)

\* The threads parked on a word are in the queue of its bucket, each once, and
\* the queues hold nobody else.
ParkedIsQueued ==
    /\ \A t \in Threads : at[t] = "parked" => futex_addr[t] \in Addrs
    /\ \A b \in Buckets :
          /\ Once(queue[b])
          /\ \A t \in Threads :
                t \in Members(queue[b]) <=>
                    at[t] = "parked" /\ b = BucketFor(PidOf[t], futex_addr[t])

KernelInv == KernelTypeOK /\ ParkedIsQueued

-----------------------------------------------------------------------------
(* Every step keeps KernelInv.                                             *)

LEMMA KernelInvAtStart == KernelInit => KernelInv
<1> SUFFICES ASSUME KernelInit PROVE KernelInv
  OBVIOUS
<1>1. KernelTypeOK
  BY FutexAssumption DEF KernelInit, KernelTypeOK, Results
<1>2. ParkedIsQueued
  BY DEF KernelInit, ParkedIsQueued, Once, Members
<1> QED BY <1>1, <1>2 DEF KernelInv

\* cos_futex_wait() up to the park, whatever the word and the arguments.
LEMMA WaitKeeps ==
    ASSUME KernelInv, NEW t \in Threads, NEW uaddr \in Addrs \cup BadAddrs,
           NEW expected, NEW timeout \in Timeouts, FutexWait(t, uaddr, expected, timeout)
    PROVE  KernelInv'
<1> USE FutexAssumption DEF KernelInv
<1>1. CASE WaitReturns(t, "EFAULT") \/ WaitReturns(t, "EAGAIN")
  <2>1. KernelTypeOK'
    BY <1>1 DEF KernelTypeOK, WaitReturns, Results
  <2>2. ParkedIsQueued'
    BY <1>1 DEF ParkedIsQueued, WaitReturns, BucketFor
  <2> QED BY <2>1, <2>2
<1>2. CASE uaddr \in Addrs /\ at[t] = "user" /\ Park(t, uaddr, timeout)
  <2> DEFINE d == BucketFor(PidOf[t], uaddr)
  <2>1. d \in Buckets /\ queue[d] \in Seq(Threads) /\ t \notin Members(queue[d])
    BY <1>2, ZenonT(30) DEF BucketFor, KernelTypeOK, ParkedIsQueued
  <2>2. /\ Append(queue[d], t) \in Seq(Threads)
        /\ Members(Append(queue[d], t)) = Members(queue[d]) \cup {t}
        /\ Once(Append(queue[d], t))
    BY <2>1, AppendMembers DEF ParkedIsQueued
  <2>3. queue' = [queue EXCEPT ![d] = Append(queue[d], t)]
    BY <1>2 DEF Park
  <2> HIDE DEF d
  <2>4. KernelTypeOK'
    BY <1>2, <2>1, <2>2, <2>3, SMTT(30) DEF KernelTypeOK, Park, Results, Timeouts
  <2>5. ASSUME NEW b \in Buckets
        PROVE  /\ Once(queue'[b])
               /\ \A u \in Threads : u \in Members(queue'[b]) <=>
                    at'[u] = "parked" /\ b = BucketFor(PidOf[u], futex_addr'[u])
    <3>1. CASE b = d
      <4>1. queue'[b] = Append(queue[d], t)
        BY <2>1, <2>3, <3>1 DEF KernelTypeOK
      <4> QED BY <1>2, <2>1, <2>2, <3>1, <4>1 DEF ParkedIsQueued, KernelTypeOK, Park, d
    <3>2. CASE b # d
      <4>1. queue'[b] = queue[b]
        BY <2>1, <2>3, <3>2 DEF KernelTypeOK
      <4>2. t \notin Members(queue[b])
        BY <1>2 DEF ParkedIsQueued
      <4> QED BY <1>2, <3>2, <4>1, <4>2 DEF ParkedIsQueued, KernelTypeOK, Park, d
    <3> QED BY <3>1, <3>2
  <2>6. ParkedIsQueued'
    BY <1>2, <2>5 DEF ParkedIsQueued, KernelTypeOK, Park, BucketFor
  <2> QED BY <2>4, <2>6
<1> QED BY <1>1, <1>2 DEF FutexWait

\* What a caller of cos_futex_wait() knows when it is parked, and that the other
\* threads stay where they are.
LEMMA WaitParks ==
    ASSUME KernelInv, NEW t \in Threads, NEW uaddr, NEW expected, NEW timeout,
           FutexWait(t, uaddr, expected, timeout)
    PROVE  /\ mem' = mem /\ at[t] = "user"
           /\ at'[t] \in {"user", "parked"}
           /\ at'[t] = "parked" => futex_addr'[t] = uaddr /\ mem[PidOf[t]][uaddr] = expected
           /\ \A u \in Threads \ {t} :
                 at'[u] = at[u] /\ futex_addr'[u] = futex_addr[u] /\ ret'[u] = ret[u]
<1> USE DEF KernelInv, KernelTypeOK
<1>1. CASE WaitReturns(t, "EFAULT") \/ WaitReturns(t, "EAGAIN")
  BY <1>1 DEF FutexWait, WaitReturns
<1>2. CASE mem[PidOf[t]][uaddr] = expected /\ Park(t, uaddr, timeout)
  BY <1>2 DEF FutexWait, Park
<1> QED BY <1>1, <1>2 DEF FutexWait

\* wait_queue_remove() and scheduler_unblock() on any set of threads.
LEMMA ReleaseKeeps ==
    ASSUME KernelInv, NEW W \in SUBSET Threads, NEW reason \in BOOLEAN,
           Release(W, reason), UNCHANGED <<futex_addr, left, ret>>
    PROVE  KernelInv'
<1> USE DEF KernelInv
<1>1. \A b \in Buckets :
        /\ queue[b] \in Seq(Threads) /\ queue'[b] = Without(queue[b], W)
        /\ queue'[b] \in Seq(Threads) /\ Members(queue'[b]) = Members(queue[b]) \ W
        /\ Once(queue[b]) => Once(queue'[b])
  BY WithoutMembers DEF Release, KernelTypeOK
<1>2. queue' = [b \in Buckets |-> queue'[b]]
  BY DEF Release
<1>3. KernelTypeOK'
  BY <1>1, <1>2 DEF KernelTypeOK, Release
<1>4. ParkedIsQueued'
  BY <1>1 DEF ParkedIsQueued, KernelTypeOK, Release, BucketFor
<1> QED BY <1>3, <1>4

\* The threads cos_futex_wake() picks.
LEMMA WokenAreThreads ==
    ASSUME KernelInv, NEW pid \in Pids, NEW uaddr \in Addrs, NEW count
    PROVE  Woken(pid, uaddr, count) \subseteq Threads
<1> DEFINE match == Without(queue[BucketFor(pid, uaddr)], {t \in Threads : futex_addr[t] # uaddr})
<1>1. match \in Seq(Threads)
  BY WithoutMembers, FutexAssumption DEF KernelInv, KernelTypeOK, BucketFor
<1> HIDE DEF match
<1>2. \A i \in DOMAIN match : match[i] \in Threads
  BY <1>1
<1> QED BY <1>2 DEF Woken, match

LEMMA WakeKeeps ==
    ASSUME KernelInv, NEW t \in Threads, NEW uaddr \in Addrs, NEW count,
           FutexWake(t, uaddr, count)
    PROVE  KernelInv'
<1>1. Woken(PidOf[t], uaddr, count) \in SUBSET Threads
  BY WokenAreThreads, FutexAssumption
<1> QED BY <1>1, ReleaseKeeps DEF FutexWake

LEMMA ExpireKeeps ==
    ASSUME KernelInv, ExpireTimeouts PROVE KernelInv'
<1>1. Expired \in SUBSET Threads
  BY DEF Expired
<1> QED BY <1>1, ReleaseKeeps DEF ExpireTimeouts

LEMMA ReturnKeeps ==
    ASSUME KernelInv, NEW t \in Threads, Return(t) PROVE KernelInv'
<1> USE DEF KernelInv
<1>1. KernelTypeOK'
  BY DEF KernelTypeOK, Return, Results
<1>2. ParkedIsQueued'
  BY ZenonT(30) DEF ParkedIsQueued, KernelTypeOK, Return, BucketFor
<1> QED BY <1>1, <1>2

LEMMA TickKeeps ==
    ASSUME KernelInv, Tick PROVE KernelInv'
<1> USE DEF KernelInv
<1>1. \A t \in Threads : left'[t] \in (0 .. MaxTimeout) \cup {Forever}
  BY FutexAssumption DEF KernelTypeOK, Tick
<1>2. KernelTypeOK'
  BY <1>1 DEF KernelTypeOK, Tick
<1>3. ParkedIsQueued'
  BY DEF ParkedIsQueued, KernelTypeOK, Tick, BucketFor
<1> QED BY <1>2, <1>3

LEMMA ExitKeeps ==
    ASSUME KernelInv, NEW pid \in Pids, ExitProcess(pid) PROVE KernelInv'
<1> USE DEF KernelInv
<1> DEFINE W == {t \in Threads : PidOf[t] = pid}
<1>1. \A b \in Buckets :
        /\ queue[b] \in Seq(Threads) /\ queue'[b] = Without(queue[b], W)
        /\ queue'[b] \in Seq(Threads) /\ Members(queue'[b]) = Members(queue[b]) \ W
        /\ Once(queue[b]) => Once(queue'[b])
  BY WithoutMembers DEF ExitProcess, KernelTypeOK
<1>2. queue' = [b \in Buckets |-> queue'[b]]
  BY DEF ExitProcess
<1>3. KernelTypeOK'
  BY <1>1, <1>2 DEF KernelTypeOK, ExitProcess
<1>4. ParkedIsQueued'
  BY <1>1 DEF ParkedIsQueued, KernelTypeOK, ExitProcess, BucketFor
<1> QED BY <1>3, <1>4

\* A step of the library or of the kernel that leaves the futex alone.
LEMMA UntouchedKeeps ==
    ASSUME KernelInv, UNCHANGED parkVars, ret' \in [Threads -> Results]
    PROVE  KernelInv'
BY DEF KernelInv, KernelTypeOK, ParkedIsQueued, parkVars, BucketFor

LEMMA KernelStepsKeep ==
    ASSUME KernelInv, KernelSteps
    PROVE  /\ KernelInv' /\ UNCHANGED <<mem, pc>>
           /\ \A t \in Threads : at'[t] = "parked" => at[t] = "parked" /\ futex_addr'[t] = futex_addr[t]
           /\ \A t \in Threads : at[t] # "parked" => at'[t] # "parked"
<1>1. CASE ExpireTimeouts
  BY <1>1, ExpireKeeps DEF KernelSteps, ExpireTimeouts, Release
<1>2. CASE Tick
  BY <1>2, TickKeeps DEF KernelSteps, Tick
<1>3. ASSUME NEW t \in Threads, Return(t)
      PROVE  /\ KernelInv' /\ UNCHANGED mem
             /\ \A u \in Threads : at'[u] = "parked" => at[u] = "parked" /\ futex_addr'[u] = futex_addr[u]
             /\ \A u \in Threads : at[u] # "parked" => at'[u] # "parked"
  BY <1>3, ReturnKeeps DEF Return, KernelInv, KernelTypeOK
<1> QED BY <1>1, <1>2, <1>3 DEF KernelSteps

\* An atomic store to a word of the thread's process.
LEMMA WordIsSet ==
    ASSUME mem \in [Pids -> [Addrs -> Nat]],
           NEW t \in Threads, NEW a \in Addrs, NEW w \in Nat, SetWord(t, a, w)
    PROVE  /\ mem' \in [Pids -> [Addrs -> Nat]]
           /\ \A p \in Pids, b \in Addrs :
                 mem'[p][b] = IF p = PidOf[t] /\ b = a THEN w ELSE mem[p][b]
<1>1. PidOf[t] \in Pids
  BY FutexAssumption
<1>2. mem' = [mem EXCEPT ![PidOf[t]] = [mem[PidOf[t]] EXCEPT ![a] = w]]
  BY DEF SetWord
<1>3. [mem[PidOf[t]] EXCEPT ![a] = w] \in [Addrs -> Nat]
  BY <1>1
<1> QED BY <1>1, <1>2, <1>3

-----------------------------------------------------------------------------
(* Theorems of Spec.                                                       *)

FutexInv == TypeOK /\ ParkedIsQueued

LEMMA FutexInvKept == ASSUME FutexInv, [Next]_vars PROVE FutexInv'
<1> USE DEF FutexInv, TypeOK
<1>0. KernelInv /\ ret \in [Threads -> Results]
  BY DEF KernelInv, KernelTypeOK
<1>1. ASSUME NEW t \in Threads, NEW a \in Addrs \cup BadAddrs, NEW w \in Words,
             NEW timeout \in Timeouts, FutexWait(t, a, w, timeout)
      PROVE  FutexInv'
  <2>1. mem' = mem
    BY <1>1 DEF FutexWait
  <2> QED BY <1>0, <1>1, <2>1, WaitKeeps DEF KernelInv
<1>2. ASSUME NEW t \in Threads, NEW a \in Addrs, NEW n \in Counts, FutexWake(t, a, n)
      PROVE  FutexInv'
  <2>1. mem' = mem
    BY <1>2 DEF FutexWake
  <2> QED BY <1>0, <1>2, <2>1, WakeKeeps DEF KernelInv
<1>3. ASSUME NEW t \in Threads, NEW a \in Addrs, NEW w \in Words, Store(t, a, w)
      PROVE  FutexInv'
  <2>1. mem' \in [Pids -> [Addrs -> Words]]
    BY <1>3, FutexAssumption DEF Store
  <2>2. UNCHANGED parkVars /\ ret' = ret
    BY <1>3 DEF Store, kernelVars
  <2> QED BY <1>0, <2>1, <2>2, UntouchedKeeps DEF KernelInv
<1>4. ASSUME NEW t \in Threads, Return(t) PROVE FutexInv'
  <2>1. mem' = mem
    BY <1>4 DEF Return
  <2> QED BY <1>0, <1>4, <2>1, ReturnKeeps DEF KernelInv
<1>5. CASE Tick
  <2>1. mem' = mem
    BY <1>5 DEF Tick
  <2> QED BY <1>0, <1>5, <2>1, TickKeeps DEF KernelInv
<1>6. CASE ExpireTimeouts
  <2>1. mem' = mem
    BY <1>6 DEF ExpireTimeouts
  <2> QED BY <1>0, <1>6, <2>1, ExpireKeeps DEF KernelInv
<1>7. ASSUME NEW pid \in Pids, ExitProcess(pid) PROVE FutexInv'
  <2>1. mem' = mem
    BY <1>7 DEF ExitProcess
  <2> QED BY <1>0, <1>7, <2>1, ExitKeeps DEF KernelInv
<1>8. CASE UNCHANGED vars
  <2>1. UNCHANGED parkVars /\ ret' = ret /\ mem' = mem
    BY <1>8 DEF vars, kernelVars
  <2> QED BY <1>0, <2>1, UntouchedKeeps DEF KernelInv
<1> QED BY <1>1, <1>2, <1>3, <1>4, <1>5, <1>6, <1>7, <1>8 DEF Next

\* The futex table, the threads' futex fields and the results keep their types,
\* and a thread is in the bucket queue of the word it waits for, once, exactly
\* while it is parked: cos_futex_wait(), cos_futex_wake(), the timer callback
\* and the exit of a process agree on who is queued.
THEOREM FutexQueues == Spec => [](TypeOK /\ ParkedIsQueued)
<1>1. Init => FutexInv
  BY KernelInvAtStart DEF Init, FutexInv, TypeOK, KernelInv
<1>2. FutexInv /\ [Next]_vars => FutexInv'
  BY FutexInvKept
<1> QED BY <1>1, <1>2, PTL DEF Spec, FutexInv

\* A thread that cos_futex_wake() released returns 0, even when its deadline
\* passes before it runs again.
THEOREM FutexWakeIsNotTimeout == Spec => WakeIsNotTimeout
<1> DEFINE A == \A t \in Threads :
         (at[t] = "ready" /\ futex_woken[t] /\ at'[t] = "user") => ret'[t] = "OK"
<1>1. ASSUME FutexInv, [Next]_vars, NEW t \in Threads,
             at[t] = "ready", futex_woken[t], at'[t] = "user"
      PROVE  ret'[t] = "OK"
  <2> USE DEF FutexInv, TypeOK, KernelTypeOK
  <2>1. ASSUME NEW u \in Threads, Return(u) PROVE ret'[t] = "OK"
    BY <1>1, <2>1 DEF Return, TimedOut
  <2>2. ASSUME NEW u \in Threads, NEW a \in Addrs \cup BadAddrs, NEW w \in Words,
               NEW timeout \in Timeouts, FutexWait(u, a, w, timeout)
        PROVE  FALSE
    BY <1>1, <2>2 DEF FutexWait, WaitReturns, Park
  <2>3. ASSUME NEW u \in Threads, NEW a \in Addrs, NEW n \in Counts, FutexWake(u, a, n)
        PROVE  FALSE
    BY <1>1, <2>3 DEF FutexWake, Release
  <2>4. CASE \/ \E u \in Threads, a \in Addrs, w \in Words : Store(u, a, w)
             \/ Tick \/ ExpireTimeouts \/ \E pid \in Pids : ExitProcess(pid)
             \/ UNCHANGED vars
    BY <1>1, <2>4 DEF Store, Tick, ExpireTimeouts, Release, ExitProcess, vars, kernelVars, parkVars
  <2> QED BY <1>1, <2>1, <2>2, <2>3, <2>4 DEF Next
<1>2. FutexInv /\ [Next]_vars => [A]_vars
  BY <1>1
<1>3. Spec => []FutexInv
  BY FutexQueues DEF FutexInv
<1> QED BY <1>2, <1>3, PTL DEF Spec, WakeIsNotTimeout

-----------------------------------------------------------------------------
(* Whom a wake reaches.                                                    *)

\* The parked threads that cos_futex_wake() takes for waiters on the word: the
\* walk of the bucket compares the address and not the process.
Candidates(pid, uaddr) ==
    {t \in Threads : /\ at[t] = "parked" /\ futex_addr[t] = uaddr
                     /\ BucketFor(PidOf[t], uaddr) = BucketFor(pid, uaddr)}

\* No two processes' words at one address are in one bucket.
DistinctBuckets ==
    \A p, q \in Pids, a \in Addrs : BucketFor(p, a) = BucketFor(q, a) => p = q

\* The candidates in the order of their arrival: a wake takes the first of them.
LEMMA WokenAreFirst ==
    ASSUME KernelInv, NEW pid \in Pids, NEW uaddr \in Addrs, NEW count \in Nat
    PROVE  \E m \in Seq(Threads) :
              /\ Once(m) /\ Members(m) = Candidates(pid, uaddr)
              /\ Woken(pid, uaddr, count) =
                    {m[i] : i \in 1 .. (IF count < Len(m) THEN count ELSE Len(m))}
<1> DEFINE b == BucketFor(pid, uaddr)
           other == {t \in Threads : futex_addr[t] # uaddr}
           m == Without(queue[b], other)
<1>1. b \in Buckets /\ queue[b] \in Seq(Threads) /\ Once(queue[b])
  BY FutexAssumption DEF KernelInv, KernelTypeOK, ParkedIsQueued, BucketFor
<1>2. m \in Seq(Threads) /\ Once(m) /\ Members(m) = Members(queue[b]) \ other
  BY <1>1, WithoutMembers
<1>3. Members(queue[b]) \subseteq Threads
  BY <1>1 DEF Members
<1>4. Members(m) = Candidates(pid, uaddr)
  BY <1>1, <1>2, <1>3 DEF Candidates, KernelInv, ParkedIsQueued
<1> DEFINE k == IF count < Len(m) THEN count ELSE Len(m)
<1>5. Woken(pid, uaddr, count) = {m[i] : i \in {i \in DOMAIN m : i <= count}}
  BY DEF Woken
<1> HIDE DEF m
<1>6. {i \in DOMAIN m : i <= count} = 1 .. k
  BY <1>2
<1> QED BY <1>2, <1>4, <1>5, <1>6

\* A wake of one thread finds somebody when there is a candidate, and only
\* candidates.
LEMMA WakeFindsOne ==
    ASSUME KernelInv, NEW pid \in Pids, NEW uaddr \in Addrs, NEW count \in Nat \ {0}
    PROVE  /\ Woken(pid, uaddr, count) \subseteq Candidates(pid, uaddr)
           /\ Candidates(pid, uaddr) # {} => Woken(pid, uaddr, count) # {}
<1>1. PICK m \in Seq(Threads) :
              /\ Once(m) /\ Members(m) = Candidates(pid, uaddr)
              /\ Woken(pid, uaddr, count) =
                    {m[i] : i \in 1 .. (IF count < Len(m) THEN count ELSE Len(m))}
  BY WokenAreFirst
<1>2. Len(m) \in Nat
  OBVIOUS
<1>3. Woken(pid, uaddr, count) \subseteq Members(m)
  BY <1>1, <1>2 DEF Members
<1>4. ASSUME Members(m) # {} PROVE Woken(pid, uaddr, count) # {}
  <2>1. Len(m) > 0
    BY <1>2, <1>4 DEF Members
  <2>2. 1 \in 1 .. (IF count < Len(m) THEN count ELSE Len(m))
    BY <1>2, <2>1
  <2> QED BY <1>1, <2>2
<1> QED BY <1>1, <1>3, <1>4

\* A wake of one thread takes the candidate that came first.
LEMMA WakeTakesFirst ==
    ASSUME KernelInv, NEW pid \in Pids, NEW uaddr \in Addrs,
           NEW x \in Woken(pid, uaddr, 1), NEW u \in Candidates(pid, uaddr), u # x
    PROVE  \E k, l \in 1 .. Len(queue[BucketFor(pid, uaddr)]) :
              /\ k < l
              /\ queue[BucketFor(pid, uaddr)][k] = x /\ queue[BucketFor(pid, uaddr)][l] = u
<1> DEFINE b == BucketFor(pid, uaddr)
           other == {t \in Threads : futex_addr[t] # uaddr}
           m == Without(queue[b], other)
<1>1. b \in Buckets /\ queue[b] \in Seq(Threads)
  BY FutexAssumption DEF KernelInv, KernelTypeOK, BucketFor
<1>2. m \in Seq(Threads) /\ Members(m) = Members(queue[b]) \ other
  BY <1>1, WithoutMembers
<1>3. Woken(pid, uaddr, 1) = {m[i] : i \in {i \in DOMAIN m : i <= 1}}
  BY DEF Woken
<1>4. u \in Members(m)
  BY <1>1, <1>2 DEF Candidates, KernelInv, ParkedIsQueued
<1>5. KeepsOrder(m, queue[b])
  BY <1>1, WithoutOrder
<1> HIDE DEF m
<1>6. PICK i \in DOMAIN m : i <= 1 /\ x = m[i]
  BY <1>3
<1>7. PICK j \in 1 .. Len(m) : u = m[j]
  BY <1>4 DEF Members
<1>8. i \in 1 .. Len(m) /\ i < j
  BY <1>2, <1>6, <1>7
<1> QED BY <1>5, <1>6, <1>7, <1>8 DEF KeepsOrder

\* A wake of as many threads as there are finds every candidate.
LEMMA WakeFindsAll ==
    ASSUME KernelInv, NEW pid \in Pids, NEW uaddr \in Addrs
    PROVE  Woken(pid, uaddr, Cardinality(Threads)) = Candidates(pid, uaddr)
<1>0. Cardinality(Threads) \in Nat
  BY FutexAssumption, FS_CardinalityType
<1>1. PICK m \in Seq(Threads) :
              /\ Once(m) /\ Members(m) = Candidates(pid, uaddr)
              /\ Woken(pid, uaddr, Cardinality(Threads)) =
                    {m[i] : i \in 1 .. (IF Cardinality(Threads) < Len(m)
                                        THEN Cardinality(Threads) ELSE Len(m))}
  BY <1>0, WokenAreFirst
<1>2. Len(m) \in Nat /\ Len(m) \in 0 .. Len(m)
  OBVIOUS
<1>3. Cardinality(Members(m)) = Len(m)
  BY <1>1, <1>2, FirstThreads DEF Members
<1>4. Members(m) \in SUBSET Threads
  BY DEF Members
<1>5. Len(m) <= Cardinality(Threads)
  BY <1>3, <1>4, FutexAssumption, FS_Subset
<1>6. (IF Cardinality(Threads) < Len(m) THEN Cardinality(Threads) ELSE Len(m)) = Len(m)
  BY <1>0, <1>2, <1>5
<1> QED BY <1>1, <1>6 DEF Members

\* cos_futex_wake(uaddr, count) releases as many of the caller's own waiters as
\* count allows, whatever waiters on other words share the bucket, as long as no
\* other process's word at the same address does.
THEOREM FutexWakeReachesItsWaiters ==
    ASSUME DistinctBuckets
    PROVE  Spec => []WakeReachesItsWaiters
<1>1. ASSUME FutexInv PROVE WakeReachesItsWaiters
  <2>1. KernelInv
    BY <1>1 DEF FutexInv, TypeOK, KernelInv
  <2> SUFFICES ASSUME NEW t \in Threads, NEW a \in Addrs, NEW n \in Counts
               PROVE  Cardinality(Woken(PidOf[t], a, n) \cap Waiting(PidOf[t], a))
                        = IF n < Cardinality(Waiting(PidOf[t], a))
                          THEN n ELSE Cardinality(Waiting(PidOf[t], a))
    BY DEF WakeReachesItsWaiters
  <2>2. PidOf[t] \in Pids /\ n \in Nat
    BY FutexAssumption, FS_CardinalityType DEF Counts
  <2>3. Waiting(PidOf[t], a) = Candidates(PidOf[t], a)
    BY <2>2, FutexAssumption DEF Waiting, Candidates, DistinctBuckets
  <2>4. PICK m \in Seq(Threads) :
              /\ Once(m) /\ Members(m) = Candidates(PidOf[t], a)
              /\ Woken(PidOf[t], a, n) =
                    {m[i] : i \in 1 .. (IF n < Len(m) THEN n ELSE Len(m))}
    BY <2>1, <2>2, WokenAreFirst
  <2> DEFINE k == IF n < Len(m) THEN n ELSE Len(m)
  <2>5. Len(m) \in 0 .. Len(m) /\ k \in 0 .. Len(m)
    BY <2>2
  <2>6. Cardinality(Members(m)) = Len(m)
    BY <2>4, <2>5, FirstThreads DEF Members
  <2>7. Cardinality({m[i] : i \in 1 .. k}) = k
    <3> HIDE DEF k
    <3> QED BY <2>4, <2>5, FirstThreads, ZenonT(30)
  <2>8. Woken(PidOf[t], a, n) \subseteq Members(m)
    BY <2>4, <2>5 DEF Members
  <2>9. Woken(PidOf[t], a, n) \cap Waiting(PidOf[t], a) = {m[i] : i \in 1 .. k}
    BY <2>3, <2>4, <2>8
  <2> QED BY <2>3, <2>4, <2>6, <2>7, <2>9
<1>2. Spec => []FutexInv
  BY FutexQueues DEF FutexInv
<1> QED BY <1>1, <1>2, PTL

-----------------------------------------------------------------------------
(* Threads that use the mutex and the condition variable.                  *)

Steps ==
    {"idle", "lock", "spin", "exchange", "timed exchange", "wait", "timed wait",
     "critical", "wake", "cond add", "cond unlock", "cond wake", "cond wait",
     "cond sub", "signal check", "signal", "broadcast check", "broadcast"}

\* The words, the counters and the places of the threads keep their types; the
\* mutex word has its three values.
SyncTypeOK ==
    /\ mem \in [Pids -> [Addrs -> Nat]]
    /\ \A p \in Pids : mem[p][M] \in {0, 1, 2}
    /\ pc \in [Threads -> Steps]
    /\ held \in [Threads -> BOOLEAN]
    /\ seen \in [Threads -> Nat]
    /\ waiters \in [Pids -> Int]

\* A thread in its critical section, or on its way to the unlock inside a
\* condition wait, holds the mutex.
InsideHolds ==
    \A t \in Threads : pc[t] \in {"critical", "cond add", "cond unlock"} => held[t]

\* A word that is not 0 has a holder.
WordHasHolder ==
    \A p \in Pids : mem[p][M] # 0 => \E t \in Threads : PidOf[t] = p /\ held[t]

\* Where the threads parked on the two words go on.
ParkedGoesOn ==
    \A t \in Threads : at[t] = "parked" =>
        \/ futex_addr[t] = M /\ pc[t] \in {"exchange", "timed exchange"}
        \/ futex_addr[t] = C /\ pc[t] = "cond sub"

MutexInv ==
    /\ KernelInv /\ SyncTypeOK
    /\ InsideHolds /\ UserMutualExclusion /\ WordHasHolder /\ ParkedGoesOn

-----------------------------------------------------------------------------
(* The kinds of step.                                                      *)

\* A thread takes the free mutex.
Takes(t) ==
    /\ at[t] = "user"
    /\ Word(t, M) = 0
    /\ \/ SetWord(t, M, 2)
       \/ SetWord(t, M, 1) /\ pc[t] \notin {"exchange", "timed exchange", "wake", "cond wake"}
    /\ Acquired(t)
    /\ UNCHANGED <<parkVars, seen, waiters, owe>>
    /\ ret' \in [Threads -> Results]

\* A thread goes on to another step; the mutex and the queues stay as they are.
Moves(t, s) ==
    /\ at[t] = "user"
    /\ Goto(t, s)
    /\ s \in {"critical", "cond add", "cond unlock"} => held[t]
    /\ pc[t] \notin {"exchange", "timed exchange", "wake", "cond wake"}
    /\ mem' \in [Pids -> [Addrs -> Nat]] /\ \A p \in Pids : mem'[p][M] = mem[p][M]
    /\ seen' \in [Threads -> Nat] /\ waiters' \in [Pids -> Int]
    /\ UNCHANGED <<parkVars, held>>
    /\ ret' \in [Threads -> Results]

\* A thread finds the mutex taken and marks it contended.
Contends(t) ==
    /\ At(t, "exchange") \/ At(t, "timed exchange")
    /\ Word(t, M) # 0
    /\ SetWord(t, M, 2)
    /\ Goto(t, IF pc[t] = "exchange" THEN "wait" ELSE "timed wait")
    /\ UNCHANGED <<parkVars, held, seen, waiters, owe>>
    /\ ret' \in [Threads -> Results]

\* A thread waits for the word at a to change.
Sleeps(t) ==
    \/ /\ pc[t] \in {"wait", "timed wait"}
       /\ \E timeout \in Timeouts : FutexWait(t, M, 2, timeout)
       /\ Goto(t, IF pc[t] = "wait" THEN "exchange" ELSE "timed exchange")
       /\ UNCHANGED <<held, seen, waiters, owe>>
    \/ /\ pc[t] = "cond wait"
       /\ \E timeout \in Timeouts : FutexWait(t, C, seen[t], timeout)
       /\ Goto(t, "cond sub")
       /\ UNCHANGED <<held, seen, waiters, owe>>

\* Every step of a thread is of one of the kinds.
LEMMA StepKinds ==
    ASSUME MutexInv, SyncNext
    PROVE  \/ \E t \in Threads :
                 \/ Takes(t) \/ Contends(t) \/ Sleeps(t) \/ Unlock(t) \/ UnlockWake(t)
                 \/ SignalWake(t)
                 \/ \E s \in Steps : Moves(t, s)
           \/ KernelSteps /\ UNCHANGED <<held, seen, waiters, owe>>
<1>0. /\ PidOf \in [Threads -> Pids]
      /\ mem \in [Pids -> [Addrs -> Nat]] /\ \A p \in Pids : mem[p][M] \in {0, 1, 2}
      /\ seen \in [Threads -> Nat] /\ waiters \in [Pids -> Int]
      /\ held \in [Threads -> BOOLEAN] /\ ret \in [Threads -> Results]
      /\ M \in Addrs /\ C \in Addrs /\ M # C
  BY FutexAssumption, UserMutexAssumption DEF MutexInv, SyncTypeOK, KernelInv, KernelTypeOK
<1>1. ASSUME NEW t \in Threads, Word(t, M) = 0, LockFast(t) \/ Spin(t) \/ TryLock(t)
      PROVE  Takes(t)
  <2>1. /\ SetWord(t, M, 1) /\ Acquired(t) /\ at[t] = "user"
        /\ pc[t] \notin {"exchange", "timed exchange", "wake", "cond wake"}
    BY <1>1 DEF LockFast, Spin, TryLock, At
  <2>2. UNCHANGED <<parkVars, seen, waiters, owe>> /\ ret' = ret
    BY <1>1 DEF LockFast, Spin, TryLock, kernelVars
  <2> QED BY <1>0, <1>1, <2>1, <2>2 DEF Takes
<1>2. ASSUME NEW t \in Threads, Word(t, M) = 0, Exchange(t) PROVE Takes(t)
  <2>1. SetWord(t, M, 2) /\ Acquired(t) /\ at[t] = "user"
    BY <1>2 DEF Exchange, At
  <2>2. UNCHANGED <<parkVars, seen, waiters, owe>> /\ ret' \in [Threads -> Results]
    BY <1>0, <1>2 DEF Exchange, Discard, Results
  <2> QED BY <1>2, <2>1, <2>2 DEF Takes
<1>3. ASSUME NEW t \in Threads, Word(t, M) # 0, Exchange(t) PROVE Contends(t)
  BY <1>0, <1>3 DEF Exchange, Contends, Discard, Results
<1>4. ASSUME NEW t \in Threads, MutexWait(t) \/ TimedMutexWait(t) \/ CondWait(t)
      PROVE  Sleeps(t)
  <2>1. Forever \in Timeouts
    BY DEF Timeouts
  <2>2. CASE MutexWait(t)
    BY <2>1, <2>2 DEF MutexWait, Sleeps, At
  <2>3. CASE TimedMutexWait(t)
    BY <2>3 DEF TimedMutexWait, Sleeps, At
  <2>4. CASE CondWait(t)
    BY <2>1, <2>4 DEF CondWait, Sleeps, At, CondExpected
  <2> QED BY <1>4, <2>2, <2>3, <2>4
<1>5. ASSUME NEW t \in Threads, (Word(t, M) # 0 /\ LockFast(t))
                \/ SpinEnds(t) \/ TimedLock(t) \/ TimedLockFails(t)
      PROVE  \E s \in Steps : Moves(t, s)
  <2>1. PICK s \in {"spin", "exchange", "timed exchange", "idle"} : Goto(t, s)
    BY <1>5 DEF LockFast, SpinEnds, TimedLock, TimedLockFails
  <2>2. /\ at[t] = "user"
        /\ pc[t] \notin {"exchange", "timed exchange", "wake", "cond wake"}
        /\ UNCHANGED <<mem, seen, waiters, parkVars, held, ret>>
    BY <1>5 DEF LockFast, SpinEnds, TimedLock, TimedLockFails, At, vars, kernelVars
  <2> QED BY <1>0, <2>1, <2>2 DEF Moves, Steps
<1>6. ASSUME NEW t \in Threads, CondSeen(t) PROVE \E s \in Steps : Moves(t, s)
  <2>1. at[t] = "user" /\ pc[t] = "critical" /\ held[t]
    BY <1>6 DEF CondSeen, At, MutexInv, InsideHolds
  <2>2. seen' \in [Threads -> Nat]
    BY <1>0, <1>6 DEF CondSeen, Word
  <2> QED BY <1>0, <1>6, <2>1, <2>2 DEF CondSeen, Moves, Steps, vars, kernelVars
<1>7. ASSUME NEW t \in Threads, CondAdd(t) PROVE \E s \in Steps : Moves(t, s)
  <2>1. at[t] = "user" /\ pc[t] = "cond add" /\ held[t]
    BY <1>7 DEF CondAdd, At, MutexInv, InsideHolds
  <2>2. waiters' \in [Pids -> Int]
    <3>1. PidOf[t] \in Pids /\ waiters[PidOf[t]] + 1 \in Int
      BY <1>0
    <3> QED BY <1>0, <1>7, <3>1 DEF CondAdd
  <2> QED BY <1>0, <1>7, <2>1, <2>2 DEF CondAdd, Moves, Steps, vars, kernelVars
<1>8. ASSUME NEW t \in Threads, CondSub(t) PROVE \E s \in Steps : Moves(t, s)
  <2>1. at[t] = "user" /\ pc[t] = "cond sub"
    BY <1>8 DEF CondSub, At
  <2>2. waiters' \in [Pids -> Int]
    <3>1. PidOf[t] \in Pids /\ waiters[PidOf[t]] - 1 \in Int
      BY <1>0
    <3> QED BY <1>0, <1>8, <3>1 DEF CondSub
  <2>3. ret' \in [Threads -> Results]
    BY <1>0, <1>8 DEF CondSub, Discard, Results
  <2> QED BY <1>0, <1>8, <2>1, <2>2, <2>3 DEF CondSub, Moves, Steps
<1>9. ASSUME NEW t \in Threads, SignalAdd(t) PROVE \E s \in Steps : Moves(t, s)
  <2>1. /\ at[t] = "user" /\ pc[t] \in {"critical", "idle"}
        /\ UNCHANGED <<parkVars, held, seen, waiters>> /\ ret' = ret
    BY <1>9 DEF SignalAdd, At, kernelVars
  <2>2. /\ mem' \in [Pids -> [Addrs -> Nat]]
        /\ \A p \in Pids : mem'[p][M] = mem[p][M]
    <3>1. PidOf[t] \in Pids /\ Word(t, C) + 1 \in Nat
      BY <1>0 DEF Word
    <3>2. SetWord(t, C, Word(t, C) + 1)
      BY <1>9 DEF SignalAdd
    <3> QED BY <1>0, <3>1, <3>2, WordIsSet
  <2>3. PICK s \in {"broadcast check", "signal check"} : Goto(t, s)
    BY <1>9 DEF SignalAdd
  <2> QED BY <1>0, <2>1, <2>2, <2>3 DEF Moves, Steps
<1>10. ASSUME NEW t \in Threads, SignalCheck(t) PROVE \E s \in Steps : Moves(t, s)
  <2>1. PICK s \in {"critical", "idle", "signal", "broadcast"} :
           Goto(t, s) /\ (s = "critical" => held[t])
    BY <1>10 DEF SignalCheck, Back
  <2>2. /\ at[t] = "user" /\ pc[t] \in {"signal check", "broadcast check"}
        /\ UNCHANGED <<mem, parkVars, held, seen, waiters, ret>>
    BY <1>10 DEF SignalCheck, At, vars, kernelVars
  <2> QED BY <1>0, <2>1, <2>2 DEF Moves, Steps
<1>11. \A t \in Threads : Spin(t) \/ TryLock(t) => Word(t, M) = 0
  BY DEF Spin, TryLock
<1> QED BY <1>1, <1>2, <1>3, <1>4, <1>5, <1>6, <1>7, <1>8, <1>9, <1>10, <1>11 DEF SyncNext

-----------------------------------------------------------------------------
(* Mutual exclusion.                                                       *)

LEMMA TakeKeeps == ASSUME MutexInv, NEW t \in Threads, Takes(t) PROVE MutexInv'
<1> USE DEF MutexInv
<1>1. /\ PidOf \in [Threads -> Pids] /\ PidOf[t] \in Pids /\ M \in Addrs
      /\ pc' = [pc EXCEPT ![t] = "critical"] /\ held' = [held EXCEPT ![t] = TRUE]
      /\ UNCHANGED <<parkVars, seen, waiters>>
  BY FutexAssumption, UserMutexAssumption DEF Takes, Acquired, Goto
<1>2. mem \in [Pids -> [Addrs -> Nat]] /\ (SetWord(t, M, 2) \/ SetWord(t, M, 1))
  BY DEF Takes, SyncTypeOK
<1>3. /\ mem' \in [Pids -> [Addrs -> Nat]] /\ mem'[PidOf[t]][M] \in {1, 2}
      /\ \A p \in Pids : p # PidOf[t] => mem'[p][M] = mem[p][M]
  BY <1>1, <1>2 DEF SetWord
<1>4. KernelInv'
  BY UntouchedKeeps DEF Takes
<1>5. SyncTypeOK'
  <2>1. \A p \in Pids : mem'[p][M] \in {0, 1, 2}
    BY <1>3 DEF SyncTypeOK
  <2> QED BY <1>1, <1>3, <2>1 DEF SyncTypeOK, Steps
<1>6. InsideHolds'
  BY <1>1 DEF InsideHolds, SyncTypeOK
<1>7. \A u \in Threads : PidOf[u] = PidOf[t] => ~held[u]
  BY <1>1 DEF UserMutualExclusion, Word, Takes
<1>8. UserMutualExclusion'
  BY <1>1, <1>3, <1>7 DEF UserMutualExclusion, SyncTypeOK, Word
<1>9. WordHasHolder'
  BY <1>1, <1>3 DEF WordHasHolder, SyncTypeOK
<1>10. ParkedGoesOn'
  BY <1>1 DEF ParkedGoesOn, SyncTypeOK, parkVars, Takes
<1> QED BY <1>4, <1>5, <1>6, <1>8, <1>9, <1>10

LEMMA MoveKeeps ==
    ASSUME MutexInv, NEW t \in Threads, NEW s \in Steps, Moves(t, s) PROVE MutexInv'
<1> USE DEF MutexInv
<1>1. /\ PidOf \in [Threads -> Pids] /\ pc' = [pc EXCEPT ![t] = s]
      /\ held' = held /\ \A p \in Pids : mem'[p][M] = mem[p][M]
  BY FutexAssumption DEF Moves, Goto
<1>2. KernelInv'
  BY UntouchedKeeps DEF Moves
<1>3. SyncTypeOK'
  BY <1>1 DEF SyncTypeOK, Moves
<1>4. InsideHolds'
  BY <1>1 DEF InsideHolds, SyncTypeOK, Moves
<1>5. UserMutualExclusion' /\ WordHasHolder'
  BY <1>1 DEF UserMutualExclusion, WordHasHolder, Word
<1>6. ParkedGoesOn'
  BY <1>1 DEF ParkedGoesOn, SyncTypeOK, parkVars, Moves
<1> QED BY <1>2, <1>3, <1>4, <1>5, <1>6

LEMMA ContendKeeps == ASSUME MutexInv, NEW t \in Threads, Contends(t) PROVE MutexInv'
<1> USE DEF MutexInv
<1> DEFINE s == IF pc[t] = "exchange" THEN "wait" ELSE "timed wait"
<1>1. /\ PidOf \in [Threads -> Pids] /\ PidOf[t] \in Pids /\ M \in Addrs
      /\ pc' = [pc EXCEPT ![t] = s] /\ held' = held
      /\ UNCHANGED <<parkVars, seen, waiters>> /\ at[t] = "user" /\ mem[PidOf[t]][M] # 0
  BY FutexAssumption, UserMutexAssumption DEF Contends, Goto, At, Word
<1>2. /\ mem' \in [Pids -> [Addrs -> Nat]]
      /\ \A p \in Pids : mem'[p][M] = IF p = PidOf[t] THEN 2 ELSE mem[p][M]
  <2>1. mem \in [Pids -> [Addrs -> Nat]] /\ 2 \in Nat
    BY DEF SyncTypeOK
  <2>2. SetWord(t, M, 2)
    BY DEF Contends
  <2>3. /\ mem' \in [Pids -> [Addrs -> Nat]]
        /\ \A p \in Pids, b \in Addrs :
              mem'[p][b] = IF p = PidOf[t] /\ b = M THEN 2 ELSE mem[p][b]
    BY <1>1, <2>1, <2>2 DEF SetWord
  <2> QED BY <1>1, <2>3
<1>3. KernelInv'
  BY UntouchedKeeps DEF Contends
<1>4. SyncTypeOK'
  <2>1. \A p \in Pids : mem'[p][M] \in {0, 1, 2}
    BY <1>2 DEF SyncTypeOK
  <2>2. s \in Steps
    BY DEF Steps
  <2> QED BY <1>1, <1>2, <2>1, <2>2 DEF SyncTypeOK
<1>5. InsideHolds'
  BY <1>1 DEF InsideHolds, SyncTypeOK
<1>6. UserMutualExclusion'
  <2>1. \A p \in Pids : mem[p][M] # 0 => mem'[p][M] # 0
    BY <1>2
  <2> QED BY <1>1, <2>1 DEF UserMutualExclusion, Word
<1>7. WordHasHolder'
  BY <1>1, <1>2 DEF WordHasHolder
<1>8. ParkedGoesOn'
  BY <1>1 DEF ParkedGoesOn, SyncTypeOK, parkVars
<1> QED BY <1>3, <1>4, <1>5, <1>6, <1>7, <1>8

\* What a step keeps that changes only the place of one thread and the kernel.
LEMMA KernelCallKeeps ==
    ASSUME MutexInv, KernelInv', NEW t \in Threads, NEW s \in Steps, Goto(t, s),
           UNCHANGED <<mem, held, seen, waiters>>,
           s \in {"critical", "cond add", "cond unlock"} => held[t],
           ParkedGoesOn'
    PROVE  MutexInv'
<1> USE DEF MutexInv, Goto
<1>1. SyncTypeOK'
  BY DEF SyncTypeOK
<1>2. InsideHolds'
  BY DEF InsideHolds, SyncTypeOK
<1>3. UserMutualExclusion' /\ WordHasHolder'
  BY DEF UserMutualExclusion, WordHasHolder, Word
<1> QED BY <1>1, <1>2, <1>3

LEMMA SleepKeeps == ASSUME MutexInv, NEW t \in Threads, Sleeps(t) PROVE MutexInv'
<1>1. M \in Addrs /\ C \in Addrs
  BY UserMutexAssumption
<1>2. ASSUME NEW a \in {M, C}, NEW expected, NEW timeout \in Timeouts,
             FutexWait(t, a, expected, timeout), NEW s \in Steps, Goto(t, s),
             UNCHANGED <<held, seen, waiters>>,
             \/ a = M /\ s \in {"exchange", "timed exchange"}
             \/ a = C /\ s = "cond sub"
      PROVE  MutexInv'
  <2>1. KernelInv' /\ mem' = mem /\ at[t] = "user"
    BY <1>1, <1>2, WaitKeeps DEF MutexInv, FutexWait
  <2>2. /\ \A u \in Threads \ {t} : at'[u] = at[u] /\ futex_addr'[u] = futex_addr[u]
        /\ at'[t] = "parked" => futex_addr'[t] = a
    BY <1>2, WaitParks DEF MutexInv
  <2>3. ParkedGoesOn'
    BY <1>2, <2>2 DEF ParkedGoesOn, MutexInv, SyncTypeOK, Goto
  <2> QED BY <1>2, <2>1, <2>3, KernelCallKeeps
<1> QED BY <1>2 DEF Sleeps, Steps

\* A wake by a thread, on either word.
LEMMA FutexWakeKeeps ==
    ASSUME MutexInv, NEW t \in Threads, NEW a \in Addrs, NEW count, FutexWake(t, a, count),
           NEW s \in Steps, Goto(t, s), UNCHANGED <<held, seen, waiters>>,
           s = "critical" => held[t], s \notin {"cond add", "cond unlock"}
    PROVE  MutexInv'
<1>1. KernelInv' /\ mem' = mem /\ at[t] = "user"
  BY WakeKeeps DEF MutexInv, FutexWake
<1>2. \A u \in Threads : at'[u] = "parked" => at[u] = "parked" /\ futex_addr'[u] = futex_addr[u]
  BY DEF FutexWake, Release, MutexInv, KernelInv, KernelTypeOK
<1>3. ParkedGoesOn'
  BY <1>1, <1>2 DEF ParkedGoesOn, MutexInv, SyncTypeOK, Goto
<1> QED BY <1>1, <1>3, KernelCallKeeps

LEMMA UnlockKeeps == ASSUME MutexInv, NEW t \in Threads, Unlock(t) PROVE MutexInv'
<1> USE DEF MutexInv
<1>1. PICK s \in {"wake", "idle", "cond wake", "cond wait"} : pc' = [pc EXCEPT ![t] = s]
  BY DEF Unlock, Goto
<1>2. /\ PidOf \in [Threads -> Pids] /\ PidOf[t] \in Pids /\ M \in Addrs
      /\ held' = [held EXCEPT ![t] = FALSE]
      /\ UNCHANGED <<parkVars, seen, waiters, ret>> /\ at[t] = "user" /\ held[t]
  BY FutexAssumption, UserMutexAssumption DEF Unlock, At, kernelVars, InsideHolds
<1>3. /\ mem' \in [Pids -> [Addrs -> Nat]]
      /\ \A p \in Pids : mem'[p][M] = IF p = PidOf[t] THEN 0 ELSE mem[p][M]
  <2>1. mem \in [Pids -> [Addrs -> Nat]] /\ 0 \in Nat
    BY DEF SyncTypeOK
  <2>2. SetWord(t, M, 0)
    BY DEF Unlock
  <2>3. /\ mem' \in [Pids -> [Addrs -> Nat]]
        /\ \A p \in Pids, b \in Addrs :
              mem'[p][b] = IF p = PidOf[t] /\ b = M THEN 0 ELSE mem[p][b]
    BY <1>2, <2>1, <2>2 DEF SetWord
  <2> QED BY <1>2, <2>3
<1>4. KernelInv'
  BY <1>2, UntouchedKeeps DEF KernelInv, KernelTypeOK
<1>5. SyncTypeOK'
  <2>1. \A p \in Pids : mem'[p][M] \in {0, 1, 2}
    BY <1>2, <1>3 DEF SyncTypeOK
  <2> QED BY <1>1, <1>2, <1>3, <2>1 DEF SyncTypeOK, Steps
<1>6. InsideHolds'
  BY <1>1, <1>2 DEF InsideHolds, SyncTypeOK
<1>7. UserMutualExclusion'
  BY <1>2, <1>3 DEF UserMutualExclusion, SyncTypeOK, Word
<1>8. WordHasHolder'
  <2>1. ASSUME NEW p \in Pids, mem'[p][M] # 0
        PROVE  \E u \in Threads : PidOf[u] = p /\ held'[u]
    <3>1. p # PidOf[t] /\ mem[p][M] # 0
      BY <1>3, <2>1
    <3>2. PICK u \in Threads : PidOf[u] = p /\ held[u]
      BY <3>1 DEF WordHasHolder
    <3>3. held'[u]
      BY <1>2, <3>1, <3>2 DEF SyncTypeOK
    <3> QED BY <3>2, <3>3
  <2> QED BY <2>1 DEF WordHasHolder
<1>9. ParkedGoesOn'
  BY <1>1, <1>2 DEF ParkedGoesOn, SyncTypeOK, parkVars
<1> QED BY <1>4, <1>5, <1>6, <1>7, <1>8, <1>9

LEMMA MutexInvKept == ASSUME MutexInv, [SyncNext]_syncVars PROVE MutexInv'
<1>0. M \in Addrs /\ C \in Addrs
  BY UserMutexAssumption
<1>1. ASSUME NEW t \in Threads, UnlockWake(t) PROVE MutexInv'
  <2>1. PICK s \in {"idle", "cond wait"} : Goto(t, s)
    BY <1>1 DEF UnlockWake
  <2> QED BY <1>0, <1>1, <2>1, FutexWakeKeeps DEF UnlockWake, Steps
<1>2. ASSUME NEW t \in Threads, SignalWake(t) PROVE MutexInv'
  <2>1. PICK s \in {"idle", "critical"} : Goto(t, s) /\ (s = "critical" => held[t])
    BY <1>2 DEF SignalWake, Back
  <2> QED BY <1>0, <1>2, <2>1, FutexWakeKeeps DEF SignalWake, Steps
<1>3. CASE KernelSteps /\ UNCHANGED <<held, seen, waiters, owe>>
  <2>1. /\ KernelInv' /\ UNCHANGED <<mem, pc, held, seen, waiters>>
        /\ \A t \in Threads : at'[t] = "parked" => at[t] = "parked" /\ futex_addr'[t] = futex_addr[t]
    BY <1>3, KernelStepsKeep DEF MutexInv
  <2>2. ParkedGoesOn'
    BY <2>1 DEF ParkedGoesOn, MutexInv
  <2> QED BY <2>1, <2>2
        DEF MutexInv, SyncTypeOK, InsideHolds, UserMutualExclusion, WordHasHolder, Word
<1>4. CASE UNCHANGED syncVars
  <2>1. UNCHANGED <<parkVars, ret, mem, pc, held, seen, waiters>>
    BY <1>4 DEF syncVars, vars, kernelVars
  <2>2. KernelInv'
    BY <2>1, UntouchedKeeps DEF MutexInv, KernelInv, KernelTypeOK
  <2>3. ParkedGoesOn'
    BY <2>1 DEF ParkedGoesOn, MutexInv, parkVars
  <2> QED BY <2>1, <2>2, <2>3
        DEF MutexInv, SyncTypeOK, InsideHolds, UserMutualExclusion, WordHasHolder, Word
<1>5. CASE SyncNext
  BY <1>1, <1>2, <1>3, <1>5, StepKinds, TakeKeeps, ContendKeeps, SleepKeeps, UnlockKeeps, MoveKeeps
<1> QED BY <1>4, <1>5

LEMMA MutexInvAtStart == SyncInit => MutexInv
<1> SUFFICES ASSUME SyncInit PROVE MutexInv
  OBVIOUS
<1>1. KernelInv
  BY KernelInvAtStart DEF SyncInit, ThreadsInit
<1>2. PidOf \in [Threads -> Pids] /\ M \in Addrs
  BY FutexAssumption, UserMutexAssumption
<1> QED BY <1>1, <1>2
      DEF SyncInit, ThreadsInit, KernelInit, MutexInv, SyncTypeOK, Steps, InsideHolds,
          UserMutualExclusion, WordHasHolder, ParkedGoesOn, Word

\* cos_mutex_lock(), cos_mutex_trylock() and cos_mutex_timedlock() let one
\* thread of a process in at a time, for any number of processes and threads and
\* any hash: the word is not 0 while somebody is inside, and whoever takes the
\* mutex does so by changing the word from 0.
THEOREM UserMutexExcludes == SyncSpec => []UserMutualExclusion
<1>1. MutexInv => UserMutualExclusion
  BY DEF MutexInv
<1> QED BY <1>1, MutexInvAtStart, MutexInvKept, PTL DEF SyncSpec

-----------------------------------------------------------------------------
(* No wakeup is lost.                                                      *)

\* What NoLostWakeup says of a thread parked on the mutex.
Rescued(t) ==
    \/ Word(t, M) = 2 /\ \E u \in Threads : PidOf[u] = PidOf[t] /\ held[u]
    \/ \E u \in Threads : PidOf[u] = PidOf[t] /\ InFlight(u)

\* A step that leaves the word of the process alone, and under which nobody
\* there releases the mutex or gives up an errand.
LEMMA StillRescued ==
    ASSUME NEW t \in Threads, Rescued(t),
           mem'[PidOf[t]][M] = mem[PidOf[t]][M],
           \A u \in Threads : PidOf[u] = PidOf[t] /\ held[u] => held'[u],
           \A u \in Threads : PidOf[u] = PidOf[t] /\ InFlight(u) => InFlight(u)'
    PROVE  Rescued(t)'
BY DEF Rescued, Word

LEMMA NoLostWakeupKept ==
    ASSUME DistinctBuckets, MutexInv, MutexInv', NoLostWakeup, [SyncNext]_syncVars
    PROVE  NoLostWakeup'
<1> SUFFICES ASSUME NEW t \in Threads, at'[t] = "parked", futex_addr'[t] = M
             PROVE  Rescued(t)'
  BY DEF NoLostWakeup, Rescued
<1> DEFINE Parked0 == at[t] = "parked" /\ futex_addr[t] = M
<1>0. /\ PidOf \in [Threads -> Pids] /\ M \in Addrs /\ C \in Addrs /\ M # C
      /\ at \in [Threads -> {"user", "parked", "ready", "dead"}]
      /\ pc \in [Threads -> Steps] /\ held \in [Threads -> BOOLEAN]
      /\ mem \in [Pids -> [Addrs -> Nat]]
  BY FutexAssumption, UserMutexAssumption DEF MutexInv, KernelInv, KernelTypeOK, SyncTypeOK
<1>1. Parked0 => Rescued(t)
  BY DEF NoLostWakeup, Rescued
<1>2. ASSUME mem'[PidOf[t]][M] = 2 PROVE Rescued(t)'
  BY <1>0, <1>2 DEF MutexInv, WordHasHolder, Rescued, Word
<1>3. ASSUME NEW u \in Threads, Takes(u) PROVE Rescued(t)'
  <2>1. \/ SetWord(u, M, 2)
        \/ SetWord(u, M, 1) /\ pc[u] \notin {"exchange", "timed exchange", "wake", "cond wake"}
    BY <1>3 DEF Takes
  <2>2. \A p \in Pids : p # PidOf[u] => mem'[p][M] = mem[p][M]
    BY <1>0, <2>1 DEF SetWord
  <2>3. /\ Parked0 /\ UNCHANGED at
        /\ pc' = [pc EXCEPT ![u] = "critical"] /\ held' = [held EXCEPT ![u] = TRUE]
        /\ mem[PidOf[u]][M] = 0
    BY <1>3 DEF Takes, parkVars, Acquired, Goto, Word
  <2>4. CASE PidOf[t] # PidOf[u]
    <3>1. mem'[PidOf[t]][M] = mem[PidOf[t]][M]
      BY <1>0, <2>2, <2>4
    <3>2. \A x \in Threads : PidOf[x] = PidOf[t] => pc'[x] = pc[x] /\ held'[x] = held[x]
      BY <1>0, <2>3, <2>4
    <3> QED BY <1>1, <2>3, <3>1, <3>2, StillRescued DEF InFlight
  <2>5. CASE /\ PidOf[t] = PidOf[u]
             /\ pc[u] \notin {"exchange", "timed exchange", "wake", "cond wake"}
    <3>0. Word(t, M) # 2
      <4>1. Word(t, M) = 0
        BY <2>3, <2>5 DEF Word
      <4> QED BY <4>1
    <3>1. PICK x \in Threads : PidOf[x] = PidOf[t] /\ InFlight(x)
      BY <1>1, <2>3, <3>0 DEF Rescued
    <3>2. pc'[x] = pc[x]
      BY <1>0, <2>3, <2>5, <3>1 DEF InFlight
    <3> QED BY <2>3, <3>1, <3>2 DEF Rescued, InFlight
  <2>6. CASE PidOf[t] = PidOf[u] /\ SetWord(u, M, 2)
    <3>1. mem'[PidOf[t]][M] = 2
      BY <1>0, <2>6 DEF SetWord
    <3> QED BY <1>2, <3>1
  <2> QED BY <2>1, <2>4, <2>5, <2>6
<1>4. ASSUME NEW u \in Threads, NEW s \in Steps, Moves(u, s) PROVE Rescued(t)'
  <2>1. /\ Parked0 /\ UNCHANGED <<at, held>> /\ pc' = [pc EXCEPT ![u] = s]
        /\ mem'[PidOf[t]][M] = mem[PidOf[t]][M]
        /\ pc[u] \notin {"exchange", "timed exchange", "wake", "cond wake"}
    BY <1>0, <1>4 DEF Moves, parkVars, Goto
  <2>2. \A x \in Threads : InFlight(x) => InFlight(x)'
    BY <1>0, <2>1 DEF InFlight
  <2> QED BY <1>1, <2>1, <2>2, StillRescued
<1>5. ASSUME NEW u \in Threads, Contends(u) PROVE Rescued(t)'
  <2>1. SetWord(u, M, 2)
    BY <1>5 DEF Contends
  <2>2. \A p \in Pids : mem'[p][M] = IF p = PidOf[u] THEN 2 ELSE mem[p][M]
    BY <1>0, <2>1 DEF SetWord
  <2>3. CASE PidOf[t] = PidOf[u]
    BY <1>0, <1>2, <2>2, <2>3
  <2>4. CASE PidOf[t] # PidOf[u]
    <3>1. Parked0 /\ UNCHANGED <<at, held>>
      BY <1>5 DEF Contends, parkVars
    <3>2. \A x \in Threads : PidOf[x] = PidOf[t] => pc'[x] = pc[x]
      BY <1>0, <1>5, <2>4 DEF Contends, Goto
    <3>3. mem'[PidOf[t]][M] = mem[PidOf[t]][M]
      BY <1>0, <2>2, <2>4
    <3> QED BY <1>1, <3>1, <3>2, <3>3, StillRescued DEF InFlight
  <2> QED BY <2>3, <2>4
<1>6. ASSUME NEW u \in Threads, Sleeps(u) PROVE Rescued(t)'
  <2>1. \E s \in Steps : Goto(u, s)
    BY <1>6 DEF Sleeps, Steps
  <2>2. held' = held /\ pc[u] \in {"wait", "timed wait", "cond wait"}
    BY <1>6 DEF Sleeps
  <2>3. /\ mem' = mem
        /\ at'[u] = "parked" /\ futex_addr'[u] = M => mem[PidOf[u]][M] = 2
        /\ \A x \in Threads \ {u} : at'[x] = at[x] /\ futex_addr'[x] = futex_addr[x]
    <3>1. CASE \E timeout \in Timeouts : FutexWait(u, M, 2, timeout)
      BY <3>1, WaitParks DEF MutexInv
    <3>2. CASE \E timeout \in Timeouts : FutexWait(u, C, seen[u], timeout)
      BY <1>0, <3>2, WaitParks DEF MutexInv
    <3> QED BY <1>6, <3>1, <3>2 DEF Sleeps
  <2>4. CASE t = u
    BY <1>0, <1>2, <2>3, <2>4
  <2>5. CASE t # u
    <3>1. Parked0
      BY <2>3, <2>5
    <3>2. \A x \in Threads : InFlight(x) => InFlight(x)'
      BY <1>0, <2>1, <2>2, <2>3 DEF InFlight, Goto
    <3> QED BY <1>1, <2>2, <2>3, <3>1, <3>2, StillRescued
  <2> QED BY <2>4, <2>5
<1>7. ASSUME NEW u \in Threads, Unlock(u) PROVE Rescued(t)'
  <2>1. SetWord(u, M, 0)
    BY <1>7 DEF Unlock
  <2>2. \A p \in Pids : mem'[p][M] = IF p = PidOf[u] THEN 0 ELSE mem[p][M]
    BY <1>0, <2>1 DEF SetWord
  <2>3. Parked0 /\ UNCHANGED at /\ held' = [held EXCEPT ![u] = FALSE]
    BY <1>7 DEF Unlock, kernelVars, parkVars
  <2>4. \A x \in Threads \ {u} : pc'[x] = pc[x] /\ held'[x] = held[x]
    BY <1>0, <1>7 DEF Unlock, Goto
  <2>5. CASE PidOf[t] # PidOf[u]
    <3>1. mem'[PidOf[t]][M] = mem[PidOf[t]][M]
      BY <1>0, <2>2, <2>5
    <3> QED BY <1>1, <2>3, <2>4, <2>5, <3>1, StillRescued DEF InFlight
  <2>6. CASE PidOf[t] = PidOf[u] /\ mem[PidOf[u]][M] = 2
    <3>1. pc'[u] \in {"wake", "cond wake"}
      BY <1>0, <1>7, <2>6 DEF Unlock, Goto, NeedsWake, Word
    <3> QED BY <2>6, <3>1 DEF Rescued, InFlight
  <2>7. CASE PidOf[t] = PidOf[u] /\ mem[PidOf[u]][M] # 2
    <3>1. PICK x \in Threads : PidOf[x] = PidOf[t] /\ InFlight(x)
      BY <1>1, <2>3, <2>7 DEF Rescued, Word
    <3>2. x # u
      BY <1>7, <3>1 DEF InFlight, Unlock, At
    <3> QED BY <2>3, <2>4, <3>1, <3>2 DEF Rescued, InFlight
  <2> QED BY <2>5, <2>6, <2>7
\* A wake, whoever makes it: the released threads are no longer parked.
<1>8. ASSUME NEW u \in Threads, NEW a \in Addrs, NEW n, FutexWake(u, a, n),
             NEW s, Goto(u, s), held' = held
      PROVE  /\ Parked0 /\ mem' = mem /\ at[u] = "user"
             /\ \A x \in Threads \ {u} : pc'[x] = pc[x] /\ (InFlight(x) => InFlight(x)')
             /\ \A x \in Woken(PidOf[u], a, n) : x \in Threads => at'[x] = "ready"
  BY <1>0, <1>8 DEF FutexWake, Release, Goto, InFlight
<1>9. ASSUME NEW u \in Threads, UnlockWake(u) PROVE Rescued(t)'
  <2>1. PICK s : Goto(u, s)
    BY <1>9 DEF UnlockWake
  <2>2. FutexWake(u, M, 1) /\ held' = held
    BY <1>9 DEF UnlockWake
  <2>3. /\ Parked0 /\ mem' = mem /\ at[u] = "user"
        /\ \A x \in Threads \ {u} : pc'[x] = pc[x] /\ (InFlight(x) => InFlight(x)')
        /\ \A x \in Woken(PidOf[u], M, 1) : x \in Threads => at'[x] = "ready"
    BY <1>0, <1>8, <2>1, <2>2
  <2>4. CASE PidOf[t] # PidOf[u]
    BY <1>1, <2>2, <2>3, <2>4, StillRescued
  <2>5. CASE PidOf[t] = PidOf[u]
    <3>1. 1 \in Nat \ {0} /\ PidOf[u] \in Pids /\ KernelInv
      BY <1>0 DEF MutexInv
    <3>2. t \in Candidates(PidOf[u], M)
      BY <2>3, <2>5 DEF Candidates
    <3>3. PICK x \in Woken(PidOf[u], M, 1) : x \in Candidates(PidOf[u], M)
      BY <1>0, <3>1, <3>2, WakeFindsOne
    <3>4. /\ x \in Threads /\ at[x] = "parked" /\ futex_addr[x] = M
          /\ PidOf[x] = PidOf[u]
      BY <1>0, <3>3 DEF Candidates, DistinctBuckets
    <3>5. pc[x] \in {"exchange", "timed exchange"} /\ x # u
      BY <1>0, <2>3, <3>4 DEF MutexInv, ParkedGoesOn
    <3>6. InFlight(x)'
      BY <2>3, <3>3, <3>4, <3>5 DEF InFlight
    <3> QED BY <2>5, <3>4, <3>6 DEF Rescued
  <2> QED BY <2>4, <2>5
<1>10. ASSUME NEW u \in Threads, SignalWake(u) PROVE Rescued(t)'
  <2>1. PICK s, n : Goto(u, s) /\ FutexWake(u, C, n) /\ held' = held
    BY <1>10 DEF SignalWake
  <2>2. /\ Parked0 /\ mem' = mem
        /\ \A x \in Threads \ {u} : pc'[x] = pc[x] /\ (InFlight(x) => InFlight(x)')
    BY <1>0, <1>8, <2>1
  <2>3. ~InFlight(u)
    BY <1>10 DEF SignalWake, At, InFlight
  <2> QED BY <1>1, <2>1, <2>2, <2>3, StillRescued
<1>11. CASE KernelSteps /\ UNCHANGED <<held, seen, waiters, owe>>
  <2>1. /\ UNCHANGED <<mem, pc, held>> /\ Parked0
        /\ \A x \in Threads : at[x] # "parked" => at'[x] # "parked"
    BY <1>11, KernelStepsKeep DEF MutexInv
  <2> QED BY <1>1, <2>1, StillRescued DEF InFlight
<1>12. CASE UNCHANGED syncVars
  <2>1. UNCHANGED <<mem, pc, held, at>> /\ Parked0
    BY <1>12 DEF syncVars, vars, kernelVars, parkVars
  <2> QED BY <1>1, <2>1, StillRescued DEF InFlight
<1>13. CASE SyncNext
  BY <1>3, <1>4, <1>5, <1>6, <1>7, <1>9, <1>10, <1>11, <1>13, StepKinds
<1> QED BY <1>12, <1>13

\* No wakeup of the mutex is lost, although cos_mutex_unlock() makes no system
\* call when the word is 1, and although one wake releases one thread and the
\* word forgets the others: whoever sleeps on the word has a holder who will
\* find it 2, or a thread of the process that is about to wake somebody or to set
\* it to 2.  The hypothesis is the one under which a wake cannot be used up by a
\* thread of another process.
THEOREM UserMutexLosesNoWakeup ==
    ASSUME DistinctBuckets
    PROVE  SyncSpec => []NoLostWakeup
<1>1. SyncInit => NoLostWakeup
  BY DEF SyncInit, ThreadsInit, KernelInit, NoLostWakeup
<1>2. SyncSpec => []MutexInv
  BY MutexInvAtStart, MutexInvKept, PTL DEF SyncSpec
<1>3. MutexInv /\ MutexInv' /\ NoLostWakeup /\ [SyncNext]_syncVars => NoLostWakeup'
  BY NoLostWakeupKept
<1> QED BY <1>1, <1>2, <1>3, PTL DEF SyncSpec

-----------------------------------------------------------------------------
(* No signal is lost.                                                      *)

\* The steps of cos_cond_timedwait(), those on which the thread is counted, and
\* the steps of cos_cond_signal() and cos_cond_broadcast().
Counted    == {"cond unlock", "cond wake", "cond wait", "cond sub"}
InCond     == Counted \cup {"cond add"}
Signalling == {"signal check", "signal", "broadcast check", "broadcast"}

\* The thread is in a condition wait and has not been woken.
Waits(u) == pc[u] \in InCond \ {"cond sub"} \/ (pc[u] = "cond sub" /\ at[u] = "parked")

CountedIn(p) == {t \in Threads : PidOf[t] = p /\ pc[t] \in Counted}

\* cos_cond_t.waiters counts the threads inside cos_cond_timedwait().
CountIsRight == \A p \in Pids : waiters[p] = Cardinality(CountedIn(p))

\* Nobody has seen a sequence number that is still to come.
SeenIsPast == \A t \in Threads : seen[t] <= mem[PidOf[t]][C]

\* The sleepers of a process on the condition are queued in the order of the
\* sequence numbers they saw.
QueueInOrder ==
    \A b \in Buckets : \A i, j \in 1 .. Len(queue[b]) :
        /\ i < j /\ PidOf[queue[b][i]] = PidOf[queue[b][j]]
        /\ futex_addr[queue[b][i]] = C /\ futex_addr[queue[b][j]] = C
        => seen[queue[b][i]] <= seen[queue[b][j]]

\* A signal is owed to threads of the same process that are still in the wait in
\* which it found them; and to all of those that have not been woken.
DebtIsRight ==
    \A s \in Threads :
        /\ owe[s].seq <= mem[PidOf[s]][C]
        /\ \A u \in owe[s].to :
              PidOf[u] = PidOf[s] /\ pc[u] \in InCond /\ seen[u] < owe[s].seq
        /\ \A u \in Threads :
              PidOf[u] = PidOf[s] /\ Waits(u) /\ seen[u] < owe[s].seq => u \in owe[s].to
        /\ pc[s] \in {"signal check", "signal"} => ~owe[s].all

Debts == [to : SUBSET Threads, seq : Nat, all : BOOLEAN]

CondInv ==
    /\ owe \in [Threads -> Debts]
    /\ CountIsRight /\ SeenIsPast /\ QueueInOrder /\ DebtIsRight /\ SignalNotLost

\* The order of the queues is kept when they are left alone, and no sleeper's
\* number or word changes.
LEMMA OrderKept ==
    ASSUME KernelInv, QueueInOrder, queue' = queue,
           \A u \in Threads : at[u] = "parked" =>
               seen'[u] = seen[u] /\ (futex_addr'[u] = C => futex_addr[u] = C)
    PROVE  QueueInOrder'
<1>1. \A b \in Buckets : \A i \in 1 .. Len(queue[b]) :
         queue[b][i] \in Threads /\ at[queue[b][i]] = "parked"
  BY DEF KernelInv, KernelTypeOK, ParkedIsQueued, Members
<1> QED BY <1>1 DEF QueueInOrder

\* It is kept when threads are taken out.
LEMMA OrderKeptByRelease ==
    ASSUME KernelInv, QueueInOrder, NEW W, NEW reason, Release(W, reason),
           UNCHANGED <<futex_addr, seen>>
    PROVE  QueueInOrder'
<1>1. \A b \in Buckets : queue[b] \in Seq(Threads) /\ queue'[b] = Without(queue[b], W)
  BY DEF KernelInv, KernelTypeOK, Release
<1>2. \A b \in Buckets : KeepsOrder(queue'[b], queue[b])
  BY <1>1, WithoutOrder
<1>3. ASSUME NEW b \in Buckets, NEW i \in 1 .. Len(queue'[b]), NEW j \in 1 .. Len(queue'[b]),
             i < j, PidOf[queue'[b][i]] = PidOf[queue'[b][j]],
             futex_addr'[queue'[b][i]] = C, futex_addr'[queue'[b][j]] = C
      PROVE  seen'[queue'[b][i]] <= seen'[queue'[b][j]]
  <2>1. PICK k \in 1 .. Len(queue[b]), l \in 1 .. Len(queue[b]) :
           k < l /\ queue'[b][i] = queue[b][k] /\ queue'[b][j] = queue[b][l]
    BY <1>2, <1>3 DEF KeepsOrder
  <2> QED BY <1>3, <2>1 DEF QueueInOrder
<1> QED BY <1>3 DEF QueueInOrder

\* It is kept when a thread parks: on the condition, it has seen the number that
\* is in the word now.
LEMMA OrderKeptByWait ==
    ASSUME KernelInv, SyncTypeOK, QueueInOrder, SeenIsPast, NEW t \in Threads,
           NEW a \in Addrs, NEW expected, NEW timeout, FutexWait(t, a, expected, timeout),
           a = C => expected = seen[t], seen' = seen
    PROVE  QueueInOrder'
<1>0. /\ at[t] = "user" /\ PidOf \in [Threads -> Pids] /\ mem \in [Pids -> [Addrs -> Nat]]
      /\ seen \in [Threads -> Nat] /\ futex_addr \in [Threads -> Addrs \cup {NoAddr}]
      /\ C \in Addrs /\ NoAddr \notin Addrs
  BY FutexAssumption, UserMutexAssumption DEF FutexWait, SyncTypeOK, KernelInv, KernelTypeOK
<1>1. CASE WaitReturns(t, "EFAULT") \/ WaitReturns(t, "EAGAIN")
  BY <1>1, OrderKept DEF WaitReturns
<1>2. CASE mem[PidOf[t]][a] = expected /\ Park(t, a, timeout)
  <2> DEFINE d == BucketFor(PidOf[t], a)
  <2>1. /\ d \in Buckets /\ queue[d] \in Seq(Threads)
        /\ \A b \in Buckets : \A i \in 1 .. Len(queue[b]) :
              queue[b][i] \in Threads /\ queue[b][i] # t
    <3>1. d \in Buckets /\ \A b \in Buckets : queue[b] \in Seq(Threads)
      BY <1>0, FutexAssumption DEF BucketFor, KernelInv, KernelTypeOK
    <3>2. \A b \in Buckets : t \notin Members(queue[b])
      BY <1>0 DEF KernelInv, ParkedIsQueued
    <3> QED BY <3>1, <3>2 DEF Members
  <2>2. /\ queue' = [queue EXCEPT ![d] = Append(queue[d], t)]
        /\ futex_addr' = [futex_addr EXCEPT ![t] = a]
    BY <1>2 DEF Park
  <2> HIDE DEF d
  <2>3. ASSUME NEW b \in Buckets, b # d PROVE queue'[b] = queue[b]
    BY <2>1, <2>2, <2>3 DEF KernelInv, KernelTypeOK
  <2>4. /\ Len(queue'[d]) = Len(queue[d]) + 1 /\ Len(queue[d]) \in Nat
        /\ \A i \in 1 .. Len(queue[d]) : queue'[d][i] = queue[d][i]
        /\ queue'[d][Len(queue[d]) + 1] = t
    BY <2>1, <2>2 DEF KernelInv, KernelTypeOK
  <2>5. \A b \in Buckets : \A i \in 1 .. Len(queue[b]) :
           futex_addr'[queue[b][i]] = futex_addr[queue[b][i]]
    BY <1>0, <2>1, <2>2
  <2>6. futex_addr'[t] = C => seen[t] = mem[PidOf[t]][C]
    BY <1>0, <1>2, <2>2
  <2>7. ASSUME NEW b \in Buckets, NEW i \in 1 .. Len(queue'[b]), NEW j \in 1 .. Len(queue'[b]),
               i < j, PidOf[queue'[b][i]] = PidOf[queue'[b][j]],
               futex_addr'[queue'[b][i]] = C, futex_addr'[queue'[b][j]] = C
        PROVE  seen[queue'[b][i]] <= seen[queue'[b][j]]
    <3>1. CASE b # d
      BY <2>3, <2>5, <2>7, <3>1 DEF QueueInOrder
    <3>2. CASE b = d /\ j # Len(queue[d]) + 1
      <4>1. i \in 1 .. Len(queue[d]) /\ j \in 1 .. Len(queue[d])
        BY <2>4, <2>7, <3>2
      <4>2. queue'[b][i] = queue[d][i] /\ queue'[b][j] = queue[d][j]
        BY <2>4, <3>2, <4>1
      <4>3. futex_addr[queue[d][i]] = C /\ futex_addr[queue[d][j]] = C
        BY <2>1, <2>5, <2>7, <4>1, <4>2
      <4>4. i < j /\ PidOf[queue[d][i]] = PidOf[queue[d][j]]
        BY <2>7, <4>2
      <4>5. seen[queue[d][i]] <= seen[queue[d][j]]
        BY <2>1, <4>1, <4>3, <4>4 DEF QueueInOrder
      <4> QED BY <4>2, <4>5
    <3>3. CASE b = d /\ j = Len(queue[d]) + 1
      <4>1. i \in 1 .. Len(queue[d]) /\ queue'[b][j] = t /\ queue'[b][i] = queue[d][i]
        BY <2>4, <2>7, <3>3
      <4>2. seen[t] = mem[PidOf[t]][C]
        BY <2>6, <2>7, <4>1
      <4>3. queue[d][i] \in Threads /\ PidOf[queue[d][i]] = PidOf[t]
        BY <2>1, <2>7, <4>1
      <4>4. seen[queue[d][i]] <= mem[PidOf[t]][C]
        BY <4>3 DEF SeenIsPast
      <4> QED BY <4>1, <4>2, <4>4
    <3> QED BY <3>1, <3>2, <3>3
  <2> QED BY <2>7 DEF QueueInOrder
<1> QED BY <1>1, <1>2 DEF FutexWait

\* A thread that a signal is owed to has not seen the number in the word.
LEMMA DebtorIsOld ==
    ASSUME owe \in [Threads -> Debts], DebtIsRight, SyncTypeOK, PidOf \in [Threads -> Pids],
           NEW s \in Threads, NEW u \in owe[s].to
    PROVE  /\ u \in Threads /\ PidOf[u] = PidOf[s] /\ pc[u] \in InCond
           /\ seen[u] < owe[s].seq /\ seen[u] # mem[PidOf[u]][C]
<1>1. /\ u \in Threads /\ PidOf[u] = PidOf[s] /\ pc[u] \in InCond
      /\ owe[s].seq <= mem[PidOf[s]][C]
      /\ seen[u] < owe[s].seq /\ owe[s].seq \in Nat
  BY DEF DebtIsRight, Debts
<1>2. seen[u] \in Nat /\ mem[PidOf[u]][C] \in Nat
  BY <1>1, UserMutexAssumption DEF SyncTypeOK
<1> QED BY <1>1, <1>2

\* What a step keeps that leaves the condition variable and its debts alone.
LEMMA CondFrame ==
    ASSUME CondInv, SyncTypeOK, UNCHANGED <<seen, waiters, owe>>, QueueInOrder',
           PidOf \in [Threads -> Pids],
           \A p \in Pids : mem'[p][C] = mem[p][C],
           \A u \in Threads :
              /\ pc'[u] \in Counted <=> pc[u] \in Counted
              /\ pc[u] \in InCond => pc'[u] \in InCond
              /\ pc'[u] \in InCond /\ (pc'[u] = "cond sub" => at'[u] = "parked") => Waits(u)
              /\ pc'[u] \in {"signal check", "signal"} => pc[u] \in {"signal check", "signal"}
              /\ pc[u] \in Signalling => pc'[u] \in Signalling
              /\ at'[u] = "parked" /\ futex_addr'[u] = C =>
                    \/ at[u] = "parked" /\ futex_addr[u] = C
                    \/ seen[u] = mem[PidOf[u]][C]
    PROVE  CondInv'
<1> USE DEF CondInv
<1>1. CountIsRight'
  <2>1. \A p \in Pids : CountedIn(p)' = CountedIn(p)
    BY DEF CountedIn
  <2> QED BY <2>1 DEF CountIsRight
<1>2. SeenIsPast'
  BY DEF SeenIsPast
<1>3. DebtIsRight'
  BY DEF DebtIsRight, Debts, Waits, InCond, Counted
<1>4. SignalNotLost'
  <2>1. ASSUME NEW s \in Threads, NEW u \in owe[s].to, at'[u] = "parked", futex_addr'[u] = C
        PROVE  at[u] = "parked" /\ futex_addr[u] = C
    <3>1. u \in Threads /\ seen[u] # mem[PidOf[u]][C]
      BY DebtorIsOld
    <3> QED BY <2>1, <3>1
  <2>2. \A s \in Threads : Signalled(s)' => Signalled(s)
    BY DEF Signalled, Signalling
  <2> QED BY <2>1, <2>2, ZenonT(30) DEF SignalNotLost, StillAsleep
<1> QED BY <1>1, <1>2, <1>3, <1>4

\* A step of thread t from one step to another that is no step of the condition
\* variable, or does not change how the thread counts for it.
Quiet(from, to) ==
    \/ from \notin InCond \cup Signalling /\ to \notin InCond \cup Signalling
    \/ from \in Counted \ {"cond sub"} /\ to \in Counted \ {"cond sub"}

LEMMA QuietKeeps ==
    ASSUME CondInv, MutexInv, MutexInv', QueueInOrder', UNCHANGED <<seen, waiters, owe>>,
           NEW t \in Threads, NEW s, Goto(t, s), Quiet(pc[t], s),
           \A p \in Pids : mem'[p][C] = mem[p][C],
           \A u \in Threads : at'[u] = "parked" =>
              \/ at[u] = "parked" /\ futex_addr'[u] = futex_addr[u]
              \/ futex_addr'[u] = M
    PROVE  CondInv'
<1>0. PidOf \in [Threads -> Pids] /\ M # C /\ SyncTypeOK
  BY FutexAssumption, UserMutexAssumption DEF MutexInv
<1>1. pc' = [pc EXCEPT ![t] = s] /\ pc \in [Threads -> Steps]
  BY <1>0 DEF Goto, SyncTypeOK
<1>2. ASSUME NEW u \in Threads
      PROVE  /\ pc'[u] \in Counted <=> pc[u] \in Counted
             /\ pc[u] \in InCond => pc'[u] \in InCond
             /\ pc'[u] \in {"signal check", "signal"} => pc[u] \in {"signal check", "signal"}
             /\ pc[u] \in Signalling => pc'[u] \in Signalling
  BY <1>1 DEF Quiet, Counted, InCond, Signalling
<1>3. ASSUME NEW u \in Threads, pc'[u] \in InCond, pc'[u] = "cond sub" => at'[u] = "parked"
      PROVE  Waits(u)
  <2>1. CASE u = t
    BY <1>1, <1>3, <2>1 DEF Quiet, Counted, InCond, Waits
  <2>2. CASE u # t /\ pc'[u] # "cond sub"
    BY <1>1, <1>3, <2>2 DEF Waits
  <2>3. CASE u # t /\ pc'[u] = "cond sub"
    <3>1. at'[u] = "parked" /\ futex_addr'[u] = C
      BY <1>3, <2>3 DEF MutexInv, ParkedGoesOn
    <3>2. at[u] = "parked" /\ pc[u] = "cond sub"
      BY <1>0, <1>1, <2>3, <3>1
    <3> QED BY <3>2 DEF Waits
  <2> QED BY <2>1, <2>2, <2>3
<1>4. \A u \in Threads : at'[u] = "parked" /\ futex_addr'[u] = C =>
                            at[u] = "parked" /\ futex_addr[u] = C
  BY <1>0
<1> QED BY <1>0, <1>2, <1>3, <1>4, CondFrame

LEMMA QuietStepsKeep ==
    ASSUME CondInv, MutexInv, MutexInv', NEW t \in Threads,
           \/ LockFast(t) \/ Spin(t) \/ SpinEnds(t) \/ TryLock(t) \/ TimedLock(t)
           \/ Exchange(t) \/ TimedLockFails(t) \/ Unlock(t)
    PROVE  CondInv'
<1>0. /\ PidOf \in [Threads -> Pids] /\ M \in Addrs /\ C \in Addrs /\ M # C
      /\ mem \in [Pids -> [Addrs -> Nat]]
  BY FutexAssumption, UserMutexAssumption DEF MutexInv, SyncTypeOK
<1>1. \A p \in Pids : mem'[p][C] = mem[p][C]
  <2>1. mem' = mem \/ SetWord(t, M, 0) \/ SetWord(t, M, 1) \/ SetWord(t, M, 2)
    BY DEF LockFast, Spin, SpinEnds, TryLock, TimedLock, Exchange, TimedLockFails, Unlock, vars
  <2> QED BY <1>0, <2>1 DEF SetWord
<1>2. UNCHANGED <<queue, futex_addr, at, seen, waiters, owe>>
  BY DEF LockFast, Spin, SpinEnds, TryLock, TimedLock, Exchange, TimedLockFails, Unlock,
         vars, kernelVars, parkVars
<1>3. \E s : Goto(t, s) /\ Quiet(pc[t], s)
  <2> DEFINE Outside == {"idle", "lock", "spin", "exchange", "timed exchange", "wait",
                         "timed wait", "critical", "wake"}
  <2>1. CASE ~Unlock(t)
    <3>1. PICK s \in Outside : Goto(t, s)
      BY <2>1 DEF LockFast, Spin, SpinEnds, TryLock, TimedLock, TimedLockFails, Exchange, Acquired
    <3>2. pc[t] \in Outside
      BY <2>1 DEF LockFast, Spin, SpinEnds, TryLock, TimedLock, TimedLockFails, Exchange, At
    <3> QED BY <3>1, <3>2 DEF Quiet, Counted, InCond, Signalling
  <2>2. CASE Unlock(t) /\ pc[t] = "critical"
    <3>1. PICK s \in {"wake", "idle"} : Goto(t, s)
      BY <2>2 DEF Unlock
    <3> QED BY <2>2, <3>1 DEF Quiet, Counted, InCond, Signalling
  <2>3. CASE Unlock(t) /\ pc[t] # "critical"
    <3>1. PICK s \in {"cond wake", "cond wait"} : Goto(t, s)
      BY <2>3 DEF Unlock
    <3>2. pc[t] = "cond unlock"
      BY <2>3 DEF Unlock, At
    <3> QED BY <3>1, <3>2 DEF Quiet, Counted
  <2> QED BY <2>1, <2>2, <2>3
<1>4. QueueInOrder'
  BY <1>2, OrderKept DEF CondInv, MutexInv
<1> QED BY <1>1, <1>2, <1>3, <1>4, QuietKeeps

LEMMA SleepStepsKeep ==
    ASSUME CondInv, MutexInv, MutexInv', NEW t \in Threads,
           MutexWait(t) \/ TimedMutexWait(t) \/ CondWait(t)
    PROVE  CondInv'
<1>0. /\ PidOf \in [Threads -> Pids] /\ M \in Addrs /\ C \in Addrs /\ M # C
      /\ KernelInv /\ SyncTypeOK /\ QueueInOrder /\ SeenIsPast
  BY FutexAssumption, UserMutexAssumption DEF MutexInv, CondInv
<1>1. CASE MutexWait(t) \/ TimedMutexWait(t)
  <2>1. PICK timeout : FutexWait(t, M, 2, timeout)
    BY <1>1 DEF MutexWait, TimedMutexWait
  <2>2. UNCHANGED <<seen, waiters, owe>>
    BY <1>1 DEF MutexWait, TimedMutexWait
  <2>3. \E s : Goto(t, s) /\ Quiet(pc[t], s)
    <3>1. PICK s \in {"exchange", "timed exchange"} : Goto(t, s)
      BY <1>1 DEF MutexWait, TimedMutexWait
    <3>2. pc[t] \in {"wait", "timed wait"}
      BY <1>1 DEF MutexWait, TimedMutexWait, At
    <3> QED BY <3>1, <3>2 DEF Quiet, Counted, InCond, Signalling
  <2>4. QueueInOrder'
    BY <1>0, <2>1, <2>2, OrderKeptByWait
  <2>5. /\ mem' = mem
        /\ \A u \in Threads : at'[u] = "parked" =>
              \/ at[u] = "parked" /\ futex_addr'[u] = futex_addr[u]
              \/ futex_addr'[u] = M
    BY <1>0, <2>1, WaitParks
  <2> QED BY <2>2, <2>3, <2>4, <2>5, QuietKeeps
<1>2. CASE CondWait(t)
  <2>1. PICK timeout : FutexWait(t, C, seen[t], timeout)
    BY <1>2 DEF CondWait, CondExpected
  <2>2. /\ UNCHANGED <<seen, waiters, owe>>
        /\ pc[t] = "cond wait" /\ pc' = [pc EXCEPT ![t] = "cond sub"]
    BY <1>2 DEF CondWait, At, Goto
  <2>3. QueueInOrder'
    BY <1>0, <2>1, <2>2, OrderKeptByWait
  <2>4. /\ mem' = mem
        /\ at'[t] = "parked" => mem[PidOf[t]][C] = seen[t]
        /\ \A u \in Threads \ {t} : at'[u] = at[u] /\ futex_addr'[u] = futex_addr[u]
    BY <1>0, <2>1, WaitParks
  <2>5. ASSUME NEW u \in Threads
        PROVE  /\ pc'[u] \in Counted <=> pc[u] \in Counted
               /\ pc[u] \in InCond => pc'[u] \in InCond
               /\ pc'[u] \in InCond /\ (pc'[u] = "cond sub" => at'[u] = "parked") => Waits(u)
               /\ pc'[u] \in {"signal check", "signal"} => pc[u] \in {"signal check", "signal"}
               /\ pc[u] \in Signalling => pc'[u] \in Signalling
    BY <1>0, <2>2, <2>4 DEF Counted, InCond, Signalling, Waits, SyncTypeOK
  <2>6. \A u \in Threads : at'[u] = "parked" /\ futex_addr'[u] = C =>
           \/ at[u] = "parked" /\ futex_addr[u] = C
           \/ seen[u] = mem[PidOf[u]][C]
    BY <2>4
  <2> QED BY <1>0, <2>2, <2>3, <2>4, <2>5, <2>6, CondFrame
<1> QED BY <1>1, <1>2

LEMMA CondKernelStepsKeep ==
    ASSUME CondInv, MutexInv, MutexInv', KernelSteps, UNCHANGED <<held, seen, waiters, owe>>
    PROVE  CondInv'
<1>0. /\ PidOf \in [Threads -> Pids] /\ KernelInv /\ SyncTypeOK /\ QueueInOrder
  BY FutexAssumption DEF MutexInv, CondInv
<1>1. /\ UNCHANGED <<mem, pc>>
      /\ \A t \in Threads : at'[t] = "parked" => at[t] = "parked" /\ futex_addr'[t] = futex_addr[t]
  BY <1>0, KernelStepsKeep
<1>2. QueueInOrder'
  <2>1. CASE ExpireTimeouts
    BY <1>0, <2>1, OrderKeptByRelease DEF ExpireTimeouts
  <2>2. CASE Tick
    BY <1>0, <2>2, OrderKept DEF Tick
  <2>3. ASSUME NEW t \in Threads, Return(t) PROVE QueueInOrder'
    <3>1. \A u \in Threads : at[u] = "parked" => futex_addr'[u] = futex_addr[u]
      BY <1>0, <2>3 DEF Return, KernelInv, KernelTypeOK
    <3> QED BY <1>0, <2>3, <3>1, OrderKept DEF Return
  <2> QED BY <2>1, <2>2, <2>3 DEF KernelSteps
<1> QED BY <1>0, <1>1, <1>2, CondFrame DEF Waits

LEMMA CondSeenKeeps ==
    ASSUME CondInv, MutexInv, NEW t \in Threads, CondSeen(t) PROVE CondInv'
<1> USE DEF CondInv
<1>0. /\ PidOf \in [Threads -> Pids] /\ C \in Addrs /\ KernelInv /\ SyncTypeOK
      /\ seen \in [Threads -> Nat] /\ pc \in [Threads -> Steps]
      /\ mem \in [Pids -> [Addrs -> Nat]]
  BY FutexAssumption, UserMutexAssumption DEF MutexInv, SyncTypeOK
<1>1. /\ at[t] = "user" /\ pc[t] = "critical" /\ pc' = [pc EXCEPT ![t] = "cond add"]
      /\ UNCHANGED <<mem, queue, futex_addr, at, waiters, owe>>
      /\ seen' = [seen EXCEPT ![t] = mem[PidOf[t]][C]]
  BY DEF CondSeen, At, Goto, Word, vars, kernelVars, parkVars
<1>2. CountIsRight'
  <2>1. \A p \in Pids : CountedIn(p)' = CountedIn(p)
    BY <1>0, <1>1 DEF CountedIn, Counted
  <2> QED BY <1>1, <2>1 DEF CountIsRight
<1>3. SeenIsPast'
  <2>1. mem[PidOf[t]][C] \in Nat
    BY <1>0
  <2>2. seen'[t] <= mem'[PidOf[t]][C]
    <3>1. seen'[t] = mem[PidOf[t]][C] /\ mem' = mem
      BY <1>0, <1>1
    <3> QED BY <2>1, <3>1
  <2>3. \A u \in Threads \ {t} : seen'[u] = seen[u]
    BY <1>0, <1>1
  <2> QED BY <1>1, <2>2, <2>3 DEF SeenIsPast
<1>4. QueueInOrder'
  BY <1>0, <1>1, OrderKept
<1>5. DebtIsRight'
  <2>1. ASSUME NEW s \in Threads, NEW u \in owe[s].to
        PROVE  PidOf[u] = PidOf[s] /\ pc'[u] \in InCond /\ seen'[u] < owe[s].seq
    <3>1. u \in Threads /\ PidOf[u] = PidOf[s] /\ pc[u] \in InCond /\ seen[u] < owe[s].seq
      BY <1>0, DebtorIsOld
    <3>2. u # t
      BY <1>1, <3>1 DEF InCond, Counted
    <3> QED BY <1>0, <1>1, <3>1, <3>2
  <2>2. ASSUME NEW s \in Threads, NEW u \in Threads,
               PidOf[u] = PidOf[s], Waits(u)', seen'[u] < owe[s].seq
        PROVE  u \in owe[s].to
    <3>1. u # t
      <4> SUFFICES ASSUME u = t PROVE FALSE
        OBVIOUS
      <4>1. mem[PidOf[s]][C] < owe[s].seq
        BY <1>0, <1>1, <2>2
      <4>2. owe[s].seq <= mem[PidOf[s]][C]
        BY DEF DebtIsRight
      <4>3. owe[s].seq \in Nat /\ mem[PidOf[s]][C] \in Nat
        BY <1>0 DEF Debts
      <4> QED BY <4>1, <4>2, <4>3
    <3>2. Waits(u) /\ seen[u] < owe[s].seq
      BY <1>0, <1>1, <2>2, <3>1 DEF Waits
    <3> QED BY <2>2, <3>2 DEF DebtIsRight
  <2>3. ASSUME NEW s \in Threads
        PROVE  /\ owe[s].seq <= mem[PidOf[s]][C]
               /\ pc'[s] \in {"signal check", "signal"} => ~owe[s].all
    BY <1>0, <1>1 DEF DebtIsRight
  <2> QED BY <1>1, <2>1, <2>2, <2>3 DEF DebtIsRight
<1>6. SignalNotLost'
  <2>1. ASSUME NEW s \in Threads, NEW u \in owe[s].to, at[u] = "parked"
        PROVE  seen'[u] = seen[u]
    BY <1>0, <1>1, <2>1 DEF Debts
  <2>2. \A s \in Threads : Signalled(s)' => Signalled(s)
    BY <1>0, <1>1 DEF Signalled
  <2> QED BY <1>1, <2>1, <2>2 DEF SignalNotLost, StillAsleep
<1> QED BY <1>1, <1>2, <1>3, <1>4, <1>5, <1>6

LEMMA CondAddKeeps ==
    ASSUME CondInv, MutexInv, NEW t \in Threads, CondAdd(t) PROVE CondInv'
<1> USE DEF CondInv
<1>0. /\ PidOf \in [Threads -> Pids] /\ PidOf[t] \in Pids /\ KernelInv /\ SyncTypeOK
      /\ pc \in [Threads -> Steps] /\ waiters \in [Pids -> Int]
  BY FutexAssumption DEF MutexInv, SyncTypeOK
<1>1. /\ at[t] = "user" /\ pc[t] = "cond add" /\ pc' = [pc EXCEPT ![t] = "cond unlock"]
      /\ UNCHANGED <<mem, queue, futex_addr, at, seen, owe>>
      /\ waiters' = [waiters EXCEPT ![PidOf[t]] = waiters[PidOf[t]] + 1]
  BY DEF CondAdd, At, Goto, vars, kernelVars, parkVars
<1>2. CountIsRight'
  <2>1. ASSUME NEW p \in Pids, p # PidOf[t] PROVE waiters'[p] = Cardinality(CountedIn(p)')
    <3>1. CountedIn(p)' = CountedIn(p)
      BY <1>0, <1>1, <2>1 DEF CountedIn
    <3> QED BY <1>0, <1>1, <2>1, <3>1 DEF CountIsRight
  <2>2. waiters'[PidOf[t]] = Cardinality(CountedIn(PidOf[t])')
    <3>1. CountedIn(PidOf[t])' = CountedIn(PidOf[t]) \cup {t} /\ t \notin CountedIn(PidOf[t])
      BY <1>0, <1>1 DEF CountedIn, Counted
    <3>2. IsFiniteSet(CountedIn(PidOf[t]))
      BY FutexAssumption, FS_Subset DEF CountedIn
    <3>3. Cardinality(CountedIn(PidOf[t]) \cup {t}) = Cardinality(CountedIn(PidOf[t])) + 1
      BY <3>1, <3>2, FS_AddElement
    <3> QED BY <1>0, <1>1, <3>1, <3>3 DEF CountIsRight
  <2> QED BY <2>1, <2>2 DEF CountIsRight
<1>3. SeenIsPast'
  BY <1>1 DEF SeenIsPast
<1>4. QueueInOrder'
  BY <1>0, <1>1, OrderKept
<1>5. DebtIsRight'
  BY <1>0, <1>1 DEF DebtIsRight, Debts, Waits, InCond, Counted
<1>6. SignalNotLost'
  <2>1. \A s \in Threads : Signalled(s)' => Signalled(s)
    BY <1>0, <1>1 DEF Signalled
  <2> QED BY <1>1, <2>1 DEF SignalNotLost, StillAsleep
<1> QED BY <1>1, <1>2, <1>3, <1>4, <1>5, <1>6

\* What is left of a debt when t has left its wait.
LEMMA SettledIs ==
    ASSUME NEW d \in Debts, NEW t
    PROVE  /\ Settled(d, t) \in Debts
           /\ \/ Settled(d, t) = NoDebt
              \/ /\ Settled(d, t).to = d.to \ {t}
                 /\ Settled(d, t).seq = d.seq /\ Settled(d, t).all = d.all
                 /\ t \in d.to => d.all
BY DEF Settled, NoDebt, Debts

LEMMA CondSubKeeps ==
    ASSUME CondInv, MutexInv, NEW t \in Threads, CondSub(t) PROVE CondInv'
<1> USE DEF CondInv
<1>0. /\ PidOf \in [Threads -> Pids] /\ PidOf[t] \in Pids /\ KernelInv /\ SyncTypeOK
      /\ pc \in [Threads -> Steps] /\ waiters \in [Pids -> Int] /\ seen \in [Threads -> Nat]
      /\ C \in Addrs /\ mem \in [Pids -> [Addrs -> Nat]]
  BY FutexAssumption, UserMutexAssumption DEF MutexInv, SyncTypeOK
<1>1. /\ at[t] = "user" /\ pc[t] = "cond sub" /\ pc' = [pc EXCEPT ![t] = "lock"]
      /\ UNCHANGED <<mem, queue, futex_addr, at, seen>>
      /\ waiters' = [waiters EXCEPT ![PidOf[t]] = waiters[PidOf[t]] - 1]
      /\ owe' = [u \in Threads |-> Settled(owe[u], t)]
  BY DEF CondSub, At, Goto, parkVars
<1>2. CountIsRight'
  <2>1. ASSUME NEW p \in Pids, p # PidOf[t] PROVE waiters'[p] = Cardinality(CountedIn(p)')
    <3>1. CountedIn(p)' = CountedIn(p)
      BY <1>0, <1>1, <2>1 DEF CountedIn
    <3> QED BY <1>0, <1>1, <2>1, <3>1 DEF CountIsRight
  <2>2. waiters'[PidOf[t]] = Cardinality(CountedIn(PidOf[t])')
    <3>1. CountedIn(PidOf[t])' = CountedIn(PidOf[t]) \ {t} /\ t \in CountedIn(PidOf[t])
      BY <1>0, <1>1 DEF CountedIn, Counted
    <3>2. IsFiniteSet(CountedIn(PidOf[t]))
      BY FutexAssumption, FS_Subset DEF CountedIn
    <3>3. Cardinality(CountedIn(PidOf[t]) \ {t}) = Cardinality(CountedIn(PidOf[t])) - 1
      BY <3>1, <3>2, FS_RemoveElement
    <3> QED BY <1>0, <1>1, <3>1, <3>3 DEF CountIsRight
  <2> QED BY <2>1, <2>2 DEF CountIsRight
<1>3. SeenIsPast'
  BY <1>1 DEF SeenIsPast
<1>4. QueueInOrder'
  BY <1>0, <1>1, OrderKept
<1>5. ASSUME NEW s \in Threads
      PROVE  /\ owe[s] \in Debts /\ owe'[s] \in Debts
             /\ \/ owe'[s] = NoDebt
                \/ /\ owe'[s].to = owe[s].to \ {t}
                   /\ owe'[s].seq = owe[s].seq /\ owe'[s].all = owe[s].all
                   /\ t \in owe[s].to => owe[s].all
  BY <1>1, SettledIs, ZenonT(30)
<1>6. owe' \in [Threads -> Debts]
  BY <1>1, <1>5
<1>7. DebtIsRight'
  <2> SUFFICES ASSUME NEW s \in Threads
               PROVE  /\ owe'[s].seq <= mem'[PidOf[s]][C]
                      /\ \A u \in owe'[s].to :
                            PidOf[u] = PidOf[s] /\ pc'[u] \in InCond /\ seen'[u] < owe'[s].seq
                      /\ \A u \in Threads :
                            /\ PidOf[u] = PidOf[s] /\ Waits(u)' /\ seen'[u] < owe'[s].seq
                            => u \in owe'[s].to
                      /\ pc'[s] \in {"signal check", "signal"} => ~owe'[s].all
    BY DEF DebtIsRight
  <2>1. CASE owe'[s] = NoDebt
    <3>1. owe'[s].seq = 0 /\ owe'[s].to = {} /\ ~owe'[s].all
      BY <2>1 DEF NoDebt
    <3>2. \A u \in Threads : ~(seen'[u] < 0)
      <4>1. \A u \in Threads : seen'[u] \in Nat
        BY <1>0, <1>1
      <4> QED BY <4>1
    <3>3. 0 <= mem'[PidOf[s]][C]
      <4>1. mem'[PidOf[s]][C] \in Nat
        BY <1>0, <1>1
      <4> QED BY <4>1
    <3> QED BY <3>1, <3>2, <3>3
  <2>2. CASE /\ owe'[s].to = owe[s].to \ {t}
             /\ owe'[s].seq = owe[s].seq /\ owe'[s].all = owe[s].all
    <3>1. \A u \in owe[s].to \ {t} : u \in Threads /\ pc'[u] = pc[u]
      BY <1>0, <1>1, <1>5 DEF Debts
    <3>2. \A u \in Threads : Waits(u)' => u # t /\ Waits(u)
      BY <1>0, <1>1 DEF Waits, InCond, Counted
    <3> QED BY <1>0, <1>1, <2>2, <3>1, <3>2 DEF DebtIsRight
  <2> QED BY <1>5, <2>1, <2>2
<1>8. SignalNotLost'
  <2> SUFFICES ASSUME NEW s \in Threads, Signalled(s)'
               PROVE  /\ \E u \in owe'[s].to : ~(at'[u] = "parked" /\ futex_addr'[u] = C
                                                   /\ seen'[u] < owe'[s].seq)
                      /\ owe'[s].all => \A u \in owe'[s].to :
                            ~(at'[u] = "parked" /\ futex_addr'[u] = C /\ seen'[u] < owe'[s].seq)
    BY DEF SignalNotLost, StillAsleep
  <2>1. owe'[s].to # {} /\ pc[s] \notin Signalling
    BY <1>0, <1>1 DEF Signalled, Signalling
  <2>2. /\ owe'[s].to = owe[s].to \ {t}
        /\ owe'[s].seq = owe[s].seq /\ owe'[s].all = owe[s].all
        /\ t \in owe[s].to => owe[s].all
    BY <1>5, <2>1 DEF NoDebt
  <2>3. Signalled(s)
    BY <2>1, <2>2 DEF Signalled, Signalling
  <2>4. /\ \E u \in owe[s].to : ~StillAsleep(u, owe[s].seq)
        /\ owe[s].all => \A u \in owe[s].to : ~StillAsleep(u, owe[s].seq)
    BY <2>3 DEF SignalNotLost
  <2> QED BY <1>1, <2>1, <2>2, <2>4 DEF StillAsleep
<1> QED BY <1>2, <1>3, <1>4, <1>6, <1>7, <1>8

LEMMA SignalAddKeeps ==
    ASSUME CondInv, MutexInv, NEW t \in Threads, SignalAdd(t) PROVE CondInv'
<1> USE DEF CondInv
<1> DEFINE w == mem[PidOf[t]][C]
<1>0. /\ PidOf \in [Threads -> Pids] /\ PidOf[t] \in Pids /\ KernelInv /\ SyncTypeOK
      /\ pc \in [Threads -> Steps] /\ seen \in [Threads -> Nat]
      /\ C \in Addrs /\ mem \in [Pids -> [Addrs -> Nat]] /\ w \in Nat
  <2>1. /\ PidOf \in [Threads -> Pids] /\ KernelInv /\ SyncTypeOK
        /\ pc \in [Threads -> Steps] /\ seen \in [Threads -> Nat]
        /\ C \in Addrs /\ mem \in [Pids -> [Addrs -> Nat]]
    BY FutexAssumption, UserMutexAssumption DEF MutexInv, SyncTypeOK
  <2> QED BY <2>1
<1>1. /\ at[t] = "user" /\ pc[t] \in {"critical", "idle"}
      /\ UNCHANGED <<queue, futex_addr, at, seen, waiters>>
      /\ SetWord(t, C, w + 1)
  BY DEF SignalAdd, At, Word, kernelVars, parkVars
<1>2. PICK all \in BOOLEAN :
        /\ owe' = [owe EXCEPT ![t] = [to |-> CondWaiters(t), seq |-> w + 1, all |-> all]]
        /\ pc' = [pc EXCEPT ![t] = IF all THEN "broadcast check" ELSE "signal check"]
  BY DEF SignalAdd, Goto, Word
<1>3. w + 1 \in Nat
  BY <1>0
<1>4. \A p \in Pids : mem'[p][C] = IF p = PidOf[t] THEN w + 1 ELSE mem[p][C]
  <2> HIDE DEF w
  <2> QED BY <1>0, <1>1, <1>3, WordIsSet
<1>5. \A p \in Pids : mem[p][C] \in Nat /\ mem'[p][C] \in Nat /\ mem[p][C] <= mem'[p][C]
  BY <1>0, <1>4
<1>6. CountIsRight'
  <2>1. \A p \in Pids : CountedIn(p)' = CountedIn(p)
    BY <1>0, <1>1, <1>2 DEF CountedIn, Counted
  <2> QED BY <1>1, <2>1 DEF CountIsRight
<1>7. SeenIsPast'
  <2>1. ASSUME NEW u \in Threads PROVE seen'[u] <= mem'[PidOf[u]][C]
    <3>1. /\ seen'[u] = seen[u] /\ seen[u] <= mem[PidOf[u]][C] /\ seen[u] \in Nat
          /\ PidOf[u] \in Pids
      BY <1>0, <1>1 DEF SeenIsPast
    <3> QED BY <1>5, <3>1
  <2> QED BY <2>1 DEF SeenIsPast
<1>8. QueueInOrder'
  BY <1>0, <1>1, OrderKept
<1> DEFINE debt == [to |-> CondWaiters(t), seq |-> w + 1, all |-> all]
<1>9. /\ debt \in Debts /\ owe'[t] = debt /\ debt.to = CondWaiters(t)
      /\ debt.seq = w + 1 /\ debt.all = all
  <2>1. CondWaiters(t) \subseteq Threads
    BY DEF CondWaiters
  <2> QED BY <1>2, <1>3, <2>1 DEF Debts
<1> HIDE DEF debt
<1>10. \A s \in Threads \ {t} : owe'[s] = owe[s]
  BY <1>2
<1>11. owe' \in [Threads -> Debts]
  BY <1>2, <1>9 DEF debt
<1>12. \A u \in Threads : Waits(u) => u # t /\ pc'[u] = pc[u]
  BY <1>0, <1>1, <1>2 DEF Waits, InCond, Counted
<1>13. \A u \in Threads : Waits(u)' => Waits(u)
  BY <1>0, <1>1, <1>2 DEF Waits, InCond, Counted
<1>14. \A u \in Threads : PidOf[u] = PidOf[t] /\ Waits(u) <=> u \in CondWaiters(t)
  BY DEF CondWaiters, Waits, InCond, Counted
<1>15. DebtIsRight'
  <2>1. ASSUME NEW s \in Threads, s # t
        PROVE  /\ owe'[s].seq <= mem'[PidOf[s]][C]
               /\ \A u \in owe'[s].to :
                     PidOf[u] = PidOf[s] /\ pc'[u] \in InCond /\ seen'[u] < owe'[s].seq
               /\ \A u \in Threads :
                     PidOf[u] = PidOf[s] /\ Waits(u)' /\ seen'[u] < owe'[s].seq => u \in owe'[s].to
               /\ pc'[s] \in {"signal check", "signal"} => ~owe'[s].all
    <3>1. owe[s].seq \in Nat /\ owe[s].seq <= mem[PidOf[s]][C] /\ PidOf[s] \in Pids
      BY <1>0 DEF DebtIsRight, Debts
    <3>2. owe[s].seq <= mem'[PidOf[s]][C]
      BY <1>5, <3>1
    <3>3. \A u \in owe[s].to : /\ PidOf[u] = PidOf[s] /\ pc[u] \in InCond
                               /\ seen[u] < owe[s].seq /\ u \in Threads
      BY DEF DebtIsRight, Debts
    <3>4. \A u \in owe[s].to : pc'[u] = pc[u]
      BY <1>0, <1>1, <1>2, <3>3 DEF InCond, Counted
    <3>5. \A u \in Threads :
             PidOf[u] = PidOf[s] /\ Waits(u)' /\ seen'[u] < owe[s].seq => u \in owe[s].to
      BY <1>1, <1>13 DEF DebtIsRight
    <3>6. pc'[s] \in {"signal check", "signal"} => ~owe[s].all
      BY <1>0, <1>2, <2>1 DEF DebtIsRight
    <3> QED BY <1>1, <1>10, <2>1, <3>2, <3>3, <3>4, <3>5, <3>6
  <2>2. owe'[t].seq <= mem'[PidOf[t]][C]
    BY <1>0, <1>3, <1>4, <1>9
  <2>3. ASSUME NEW u \in owe'[t].to
        PROVE  PidOf[u] = PidOf[t] /\ pc'[u] \in InCond /\ seen'[u] < owe'[t].seq
    <3>1. u \in Threads /\ PidOf[u] = PidOf[t] /\ Waits(u)
      BY <1>9, <1>14 DEF CondWaiters
    <3>2. pc'[u] \in InCond
      BY <1>12, <3>1 DEF Waits, InCond, Counted
    <3>3. seen[u] \in Nat /\ seen[u] <= w
      BY <1>0, <3>1 DEF SeenIsPast
    <3>4. seen'[u] < owe'[t].seq
      BY <1>0, <1>1, <1>9, <3>3
    <3> QED BY <3>1, <3>2, <3>4
  <2>4. \A u \in Threads : PidOf[u] = PidOf[t] /\ Waits(u)' => u \in owe'[t].to
    BY <1>9, <1>13, <1>14
  <2>5. pc'[t] \in {"signal check", "signal"} => ~owe'[t].all
    BY <1>0, <1>2, <1>9
  <2> QED BY <2>1, <2>2, <2>3, <2>4, <2>5 DEF DebtIsRight
<1>16. SignalNotLost'
  <2>1. \A s \in Threads : Signalled(s)' => s # t /\ Signalled(s)
    BY <1>0, <1>2, <1>10 DEF Signalled
  <2> QED BY <1>1, <1>10, <2>1 DEF SignalNotLost, StillAsleep
<1> QED BY <1>6, <1>7, <1>8, <1>11, <1>15, <1>16

\* What remains when a signalling thread goes on and takes sleepers away: that
\* nobody is left asleep whom it had to wake.
LEMMA SignalFrame ==
    ASSUME CondInv, MutexInv, NEW t \in Threads, pc[t] \in Signalling,
           NEW s \in Signalling \cup {"critical", "idle"}, Goto(t, s),
           s \in {"signal check", "signal"} => pc[t] \in {"signal check", "signal"},
           QueueInOrder', UNCHANGED <<mem, futex_addr, seen, waiters, owe>>,
           \A u \in Threads : at'[u] = "parked" => at[u] = "parked",
           s \notin Signalling /\ owe[t].to # {} =>
              /\ \E u \in owe[t].to : ~(at'[u] = "parked" /\ futex_addr[u] = C /\ seen[u] < owe[t].seq)
              /\ owe[t].all => \A u \in owe[t].to :
                    ~(at'[u] = "parked" /\ futex_addr[u] = C /\ seen[u] < owe[t].seq)
    PROVE  CondInv'
<1> USE DEF CondInv
<1>0. PidOf \in [Threads -> Pids] /\ pc \in [Threads -> Steps] /\ pc' = [pc EXCEPT ![t] = s]
  BY FutexAssumption DEF MutexInv, SyncTypeOK, Goto
<1>1. CountIsRight'
  <2>1. \A p \in Pids : CountedIn(p)' = CountedIn(p)
    BY <1>0 DEF CountedIn, Counted, Signalling
  <2> QED BY <2>1 DEF CountIsRight
<1>2. SeenIsPast'
  BY DEF SeenIsPast
<1>3. DebtIsRight'
  <2>1. \A u \in Threads : Waits(u)' => Waits(u)
    BY <1>0 DEF Waits, InCond, Counted, Signalling
  <2>2. \A u \in Threads : pc[u] \in InCond => pc'[u] \in InCond
    BY <1>0 DEF InCond, Counted, Signalling
  <2>3. \A u \in Threads : pc'[u] \in {"signal check", "signal"} => pc[u] \in {"signal check", "signal"}
    BY <1>0
  <2> QED BY <2>1, <2>2, <2>3 DEF DebtIsRight, Debts
<1>4. SignalNotLost'
  <2> SUFFICES ASSUME NEW x \in Threads, Signalled(x)'
               PROVE  /\ \E u \in owe[x].to :
                            ~(at'[u] = "parked" /\ futex_addr[u] = C /\ seen[u] < owe[x].seq)
                      /\ owe[x].all => \A u \in owe[x].to :
                            ~(at'[u] = "parked" /\ futex_addr[u] = C /\ seen[u] < owe[x].seq)
    BY DEF SignalNotLost, StillAsleep
  <2>1. owe[x].to # {} /\ pc'[x] \notin Signalling /\ owe[x].to \subseteq Threads
    BY DEF Signalled, Signalling, Debts
  <2>2. CASE x = t
    BY <1>0, <2>1, <2>2
  <2>3. CASE x # t
    <3>1. Signalled(x)
      BY <1>0, <2>1, <2>3 DEF Signalled, Signalling
    <3> QED BY <2>1, <3>1 DEF SignalNotLost, StillAsleep
  <2> QED BY <2>2, <2>3
<1> QED BY <1>1, <1>2, <1>3, <1>4

LEMMA SignalCheckKeeps ==
    ASSUME CondInv, MutexInv, NEW t \in Threads, SignalCheck(t) PROVE CondInv'
<1>0. /\ PidOf \in [Threads -> Pids] /\ PidOf[t] \in Pids /\ KernelInv /\ QueueInOrder
      /\ owe \in [Threads -> Debts]
  BY FutexAssumption DEF MutexInv, CondInv
<1>1. /\ pc[t] \in {"signal check", "broadcast check"}
      /\ UNCHANGED <<mem, queue, futex_addr, at, seen, waiters, owe>>
  BY DEF SignalCheck, At, vars, kernelVars, parkVars
<1>2. QueueInOrder'
  BY <1>0, <1>1, OrderKept
<1>3. CASE waiters[PidOf[t]] = 0
  <2>1. PICK s \in {"critical", "idle"} : Goto(t, s)
    BY <1>3 DEF SignalCheck, Back
  <2>2. CountedIn(PidOf[t]) = {}
    <3>1. IsFiniteSet(CountedIn(PidOf[t]))
      BY FutexAssumption, FS_Subset DEF CountedIn
    <3>2. Cardinality(CountedIn(PidOf[t])) = 0
      BY <1>0, <1>3 DEF CondInv, CountIsRight
    <3> QED BY <3>1, <3>2, FS_EmptySet
  <2>3. \A u \in owe[t].to : ~(at'[u] = "parked" /\ futex_addr[u] = C /\ seen[u] < owe[t].seq)
    <3>1. \A u \in owe[t].to : u \in Threads /\ PidOf[u] = PidOf[t]
      BY <1>0 DEF CondInv, DebtIsRight, Debts
    <3>2. \A u \in Threads : at[u] = "parked" /\ futex_addr[u] = C => pc[u] = "cond sub"
      BY UserMutexAssumption DEF MutexInv, ParkedGoesOn
    <3>3. \A u \in Threads : PidOf[u] = PidOf[t] => pc[u] # "cond sub"
      BY <2>2 DEF CountedIn, Counted
    <3> QED BY <1>1, <3>1, <3>2, <3>3
  <2> QED BY <1>1, <1>2, <2>1, <2>3, SignalFrame DEF Signalling
<1>4. CASE waiters[PidOf[t]] # 0
  <2>1. PICK s \in {"signal", "broadcast"} : Goto(t, s) /\ (s = "signal" => pc[t] = "signal check")
    BY <1>4 DEF SignalCheck
  <2> QED BY <1>1, <1>2, <2>1, SignalFrame DEF Signalling
<1> QED BY <1>3, <1>4

LEMMA SignalWakeKeeps ==
    ASSUME DistinctBuckets, CondInv, MutexInv, NEW t \in Threads, SignalWake(t) PROVE CondInv'
<1>0. /\ PidOf \in [Threads -> Pids] /\ PidOf[t] \in Pids /\ C \in Addrs /\ M # C
      /\ KernelInv /\ SyncTypeOK /\ QueueInOrder /\ DebtIsRight /\ owe \in [Threads -> Debts]
      /\ seen \in [Threads -> Nat]
  BY FutexAssumption, UserMutexAssumption DEF MutexInv, CondInv, SyncTypeOK
<1> DEFINE n == IF pc[t] = "signal" THEN 1 ELSE Cardinality(Threads)
           W == Woken(PidOf[t], C, n)
<1>1. /\ at[t] = "user" /\ pc[t] \in {"signal", "broadcast"}
      /\ Release(W, TRUE) /\ UNCHANGED <<mem, futex_addr, seen, waiters, owe>>
  BY DEF SignalWake, At, FutexWake
<1>2. PICK s \in {"critical", "idle"} : Goto(t, s)
  BY DEF SignalWake, Back
<1>3. QueueInOrder'
  BY <1>0, <1>1, OrderKeptByRelease
<1>4. \A u \in Threads : at'[u] = IF u \in W THEN "ready" ELSE at[u]
  BY <1>1 DEF Release
<1>5. \A u \in owe[t].to : u \in Threads /\ PidOf[u] = PidOf[t] /\ seen[u] < owe[t].seq
  BY <1>0 DEF DebtIsRight, Debts
<1>6. \A u \in Threads :
         /\ u \in Candidates(PidOf[t], C) <=> at[u] = "parked" /\ futex_addr[u] = C /\ PidOf[u] = PidOf[t]
  BY <1>0 DEF Candidates, DistinctBuckets
<1> DEFINE Sleeping(u) == at'[u] = "parked" /\ futex_addr[u] = C /\ seen[u] < owe[t].seq
<1>7. CASE pc[t] = "broadcast"
  <2>1. W = Candidates(PidOf[t], C)
    BY <1>0, <1>7, WakeFindsAll
  <2>2. \A u \in owe[t].to : ~Sleeping(u)
    BY <1>4, <1>5, <1>6, <2>1
  <2> QED BY <1>1, <1>2, <1>3, <1>4, <2>2, SignalFrame DEF Signalling
<1>8. CASE pc[t] = "signal"
  <2>1. ~owe[t].all
    BY <1>0, <1>8 DEF DebtIsRight
  <2>2. ASSUME owe[t].to # {} PROVE \E u \in owe[t].to : ~Sleeping(u)
    <3> SUFFICES ASSUME \A u \in owe[t].to : Sleeping(u) PROVE FALSE
      OBVIOUS
    <3>1. PICK u \in owe[t].to : Sleeping(u)
      BY <2>2
    <3>2. u \in Threads /\ u \in Candidates(PidOf[t], C) /\ u \notin W
      BY <1>4, <1>5, <1>6, <3>1
    <3>3. W = Woken(PidOf[t], C, 1) /\ 1 \in Nat \ {0}
      BY <1>8
    <3>4. PICK x \in W : x \in Candidates(PidOf[t], C)
      <4> HIDE DEF W
      <4> QED BY <1>0, <3>2, <3>3, WakeFindsOne
    <3>5. x \in Threads /\ at[x] = "parked" /\ futex_addr[x] = C /\ PidOf[x] = PidOf[t] /\ x # u
      BY <1>6, <3>2, <3>4 DEF Candidates
    <3> DEFINE b == BucketFor(PidOf[t], C)
    <3>6. PICK k \in 1 .. Len(queue[b]), l \in 1 .. Len(queue[b]) :
             k < l /\ queue[b][k] = x /\ queue[b][l] = u
      BY <1>0, <3>2, <3>3, <3>4, <3>5, WakeTakesFirst
    <3>7. b \in Buckets
      BY <1>0, FutexAssumption DEF BucketFor
    <3> HIDE DEF b
    <3>8. seen[x] <= seen[u]
      BY <1>0, <1>5, <3>1, <3>5, <3>6, <3>7 DEF QueueInOrder
    <3>9. owe[t].seq \in Nat /\ seen[x] \in Nat /\ seen[u] \in Nat /\ seen[u] < owe[t].seq
      BY <1>0, <1>5, <3>1, <3>5 DEF Debts
    <3>10. seen[x] < owe[t].seq
      BY <3>8, <3>9
    <3>11. Waits(x)
      BY <1>0, <3>5 DEF MutexInv, ParkedGoesOn, Waits
    <3>12. x \in owe[t].to
      BY <1>0, <3>5, <3>10, <3>11 DEF DebtIsRight
    <3> QED BY <1>4, <3>4, <3>5, <3>12
  <2> HIDE DEF W
  <2> QED BY <1>1, <1>2, <1>3, <1>4, <2>1, <2>2, SignalFrame DEF Signalling
<1> QED BY <1>1, <1>7, <1>8

LEMMA CondInvKept ==
    ASSUME DistinctBuckets, CondInv, MutexInv, MutexInv', [SyncNext]_syncVars
    PROVE  CondInv'
<1>0. PidOf \in [Threads -> Pids] /\ M \in Addrs /\ KernelInv /\ QueueInOrder /\ SyncTypeOK
  BY FutexAssumption, UserMutexAssumption DEF MutexInv, CondInv
<1>1. ASSUME NEW t \in Threads, UnlockWake(t) PROVE CondInv'
  <2>1. FutexWake(t, M, 1) /\ UNCHANGED <<seen, waiters, owe>>
    BY <1>1 DEF UnlockWake
  <2>2. /\ mem' = mem
        /\ \A u \in Threads : at'[u] = "parked" => at[u] = "parked" /\ futex_addr'[u] = futex_addr[u]
    BY <2>1 DEF FutexWake, Release
  <2>3. QueueInOrder'
    BY <1>0, <2>1, OrderKeptByRelease DEF FutexWake
  <2>4. \E s : Goto(t, s) /\ Quiet(pc[t], s)
    <3>1. CASE pc[t] = "wake"
      <4>1. Goto(t, "idle")
        BY <1>1, <3>1 DEF UnlockWake
      <4>2. Quiet(pc[t], "idle")
        BY <3>1 DEF Quiet, InCond, Counted, Signalling
      <4> QED BY <4>1, <4>2
    <3>2. CASE pc[t] = "cond wake"
      <4>1. Goto(t, "cond wait")
        BY <1>1, <3>2 DEF UnlockWake
      <4> QED BY <3>2, <4>1 DEF Quiet, InCond, Counted, Signalling
    <3> QED BY <1>1, <3>1, <3>2 DEF UnlockWake, At
  <2> QED BY <2>1, <2>2, <2>3, <2>4, QuietKeeps
<1>2. CASE UNCHANGED syncVars
  <2>1. UNCHANGED <<mem, queue, futex_addr, at, pc, seen, waiters, owe>>
    BY <1>2 DEF syncVars, vars, kernelVars, parkVars
  <2>2. QueueInOrder'
    BY <1>0, <2>1, OrderKept
  <2> QED BY <1>0, <2>1, <2>2, CondFrame DEF Waits
<1>3. CASE KernelSteps /\ UNCHANGED <<held, seen, waiters, owe>>
  BY <1>3, CondKernelStepsKeep
<1>4. ASSUME NEW t \in Threads,
             \/ LockFast(t) \/ Spin(t) \/ SpinEnds(t) \/ TryLock(t) \/ TimedLock(t)
             \/ Exchange(t) \/ TimedLockFails(t) \/ Unlock(t)
      PROVE  CondInv'
  BY <1>4, QuietStepsKeep
<1>5. ASSUME NEW t \in Threads, MutexWait(t) \/ TimedMutexWait(t) \/ CondWait(t)
      PROVE  CondInv'
  BY <1>5, SleepStepsKeep
<1>6. ASSUME NEW t \in Threads,
             \/ CondSeen(t) \/ CondAdd(t) \/ CondSub(t) \/ SignalAdd(t) \/ SignalCheck(t)
             \/ SignalWake(t)
      PROVE  CondInv'
  BY <1>6, CondSeenKeeps, CondAddKeeps, CondSubKeeps, SignalAddKeeps, SignalCheckKeeps,
     SignalWakeKeeps
<1> QED BY <1>1, <1>2, <1>3, <1>4, <1>5, <1>6 DEF SyncNext

LEMMA CondInvAtStart == SyncInit => CondInv
<1> SUFFICES ASSUME SyncInit PROVE CondInv
  OBVIOUS
<1>0. /\ PidOf \in [Threads -> Pids] /\ C \in Addrs
      /\ mem = [p \in Pids |-> [a \in Addrs |-> 0]] /\ pc = [t \in Threads |-> "idle"]
      /\ queue = [b \in Buckets |-> <<>>] /\ seen = [t \in Threads |-> 0]
      /\ waiters = [p \in Pids |-> 0] /\ owe = [t \in Threads |-> NoDebt]
      /\ at = [t \in Threads |-> "user"]
  BY FutexAssumption, UserMutexAssumption DEF SyncInit, ThreadsInit, KernelInit
<1>1. owe \in [Threads -> Debts]
  BY <1>0 DEF NoDebt, Debts
<1>2. CountIsRight
  <2>1. \A p \in Pids : CountedIn(p) = {}
    BY <1>0 DEF CountedIn, Counted
  <2> QED BY <1>0, <2>1, FS_EmptySet DEF CountIsRight
<1>3. SeenIsPast
  BY <1>0 DEF SeenIsPast
<1>4. QueueInOrder
  BY <1>0 DEF QueueInOrder
<1>5. DebtIsRight
  BY <1>0 DEF DebtIsRight, NoDebt
<1>6. SignalNotLost
  BY <1>0 DEF SignalNotLost, Signalled, NoDebt
<1> QED BY <1>1, <1>2, <1>3, <1>4, <1>5, <1>6 DEF CondInv

\* No signal is lost: when cos_cond_signal() has returned, one of the threads
\* that were in cos_cond_wait() when it advanced the sequence number does not
\* sleep in that wait, and none does after cos_cond_broadcast(), for any number
\* of waiters, signallers and timeouts.  The one thread a signal wakes is one of
\* them because the bucket's queue holds the sleepers in the order of the numbers
\* they saw.
THEOREM CondSignalNotLost ==
    ASSUME DistinctBuckets
    PROVE  SyncSpec => []SignalNotLost
<1>1. SyncSpec => []MutexInv
  BY MutexInvAtStart, MutexInvKept, PTL DEF SyncSpec
<1>2. CondInv /\ MutexInv /\ MutexInv' /\ [SyncNext]_syncVars => CondInv'
  BY CondInvKept
<1>3. CondInv => SignalNotLost
  BY DEF CondInv
<1> QED BY <1>1, <1>2, <1>3, CondInvAtStart, PTL DEF SyncSpec

-----------------------------------------------------------------------------
(* Threads that use the semaphore and the one-time initialisation.         *)

SemSteps ==
    {"idle", "try", "timed try", "wait", "timed wait", "post wake",
     "once init", "once wait", "once look", "once wake", "once done"}

SemTypeOK ==
    /\ mem \in [Pids -> [Addrs -> Nat]]
    /\ pc \in [Threads -> SemSteps]
    /\ runs \in [Pids -> Nat]

\* Where the threads parked on the two words go on.
SemParked ==
    \A t \in Threads : at[t] = "parked" =>
        \/ futex_addr[t] = S /\ pc[t] \in {"try", "timed try"}
        \/ futex_addr[t] = O /\ pc[t] = "once look"

SemBase == KernelInv /\ SemTypeOK /\ SemParked

\* The initialiser has run when the word of cos_once() is 2, and the word is 1
\* exactly while one thread runs it.
OnceWord ==
    \A p \in Pids :
        /\ mem[p][O] \in {0, 1, 2}
        /\ runs[p] = IF mem[p][O] = 2 THEN 1 ELSE 0
        /\ mem[p][O] = 1 => \E t \in Threads : PidOf[t] = p /\ pc[t] = "once init"

OncePlaces ==
    \A t \in Threads :
        /\ pc[t] = "once init" => Word(t, O) = 1
        /\ pc[t] \in {"once wake", "once done"} => Word(t, O) = 2
        /\ \A u \in Threads :
              pc[t] = "once init" /\ pc[u] = "once init" /\ PidOf[u] = PidOf[t] => u = t

\* A thread that sleeps until the initialiser is done has somebody to wake it.
OnceSleepers ==
    \A t \in Threads : at[t] = "parked" /\ futex_addr[t] = O =>
        \E u \in Threads : PidOf[u] = PidOf[t] /\ pc[u] \in {"once init", "once wake"}

OnceInv == SemBase /\ OnceWord /\ OncePlaces /\ OnceSleepers

-----------------------------------------------------------------------------
(* The kinds of step.                                                      *)

\* A step of thread t that touches none of the kernel's queues.
SemMoves(t, s) ==
    /\ at[t] = "user"
    /\ Goto(t, s)
    /\ UNCHANGED parkVars
    /\ ret' \in [Threads -> Results]

\* A thread waits on one of the two words.
SemSleeps(t, s) ==
    /\ Goto(t, s)
    /\ UNCHANGED runs
    /\ \/ /\ \E timeout \in Timeouts : FutexWait(t, S, 0, timeout)
          /\ s \in {"try", "timed try"} /\ pc[t] \in {"wait", "timed wait"}
       \/ /\ \E timeout \in Timeouts : FutexWait(t, O, 1, timeout)
          /\ s = "once look" /\ pc[t] = "once wait"

LEMMA SemMoveKeeps ==
    ASSUME SemBase, NEW t \in Threads, NEW s \in SemSteps, SemMoves(t, s),
           mem' \in [Pids -> [Addrs -> Nat]], runs' \in [Pids -> Nat]
    PROVE  /\ SemBase'
           /\ at' = at /\ futex_addr' = futex_addr
<1> USE DEF SemBase
<1>1. KernelInv'
  BY UntouchedKeeps DEF SemMoves
<1>2. pc' = [pc EXCEPT ![t] = s] /\ at' = at /\ futex_addr' = futex_addr /\ at[t] = "user"
  BY DEF SemMoves, Goto, parkVars
<1>3. SemTypeOK' /\ SemParked'
  BY <1>2 DEF SemTypeOK, SemParked
<1> QED BY <1>1, <1>2, <1>3

LEMMA SemSleepKeeps ==
    ASSUME SemBase, NEW t \in Threads, NEW s \in SemSteps, SemSleeps(t, s)
    PROVE  /\ SemBase' /\ mem' = mem /\ at[t] = "user"
           /\ at'[t] \in {"user", "parked"}
           /\ at'[t] = "parked" =>
                 \/ futex_addr'[t] = S /\ Word(t, S) = 0
                 \/ futex_addr'[t] = O /\ Word(t, O) = 1
           /\ \A u \in Threads \ {t} : at'[u] = at[u] /\ futex_addr'[u] = futex_addr[u]
<1> USE DEF SemBase
<1>0. S \in Addrs \cup BadAddrs /\ O \in Addrs \cup BadAddrs /\ pc' = [pc EXCEPT ![t] = s] /\ runs' = runs
  BY UserSemAssumption DEF SemSleeps, Goto
<1>1. CASE pc[t] \in {"wait", "timed wait"}
  <2>1. PICK timeout \in Timeouts : FutexWait(t, S, 0, timeout)
    BY <1>1 DEF SemSleeps
  <2>2. KernelInv'
    BY <1>0, <2>1, WaitKeeps
  <2>3. /\ mem' = mem /\ at[t] = "user"
        /\ at'[t] \in {"user", "parked"}
        /\ at'[t] = "parked" => futex_addr'[t] = S /\ Word(t, S) = 0
        /\ \A u \in Threads \ {t} : at'[u] = at[u] /\ futex_addr'[u] = futex_addr[u]
    BY <2>1, WaitParks DEF Word
  <2>4. s \in {"try", "timed try"}
    BY <1>1 DEF SemSleeps
  <2>5. SemTypeOK' /\ SemParked'
    BY <1>0, <2>3, <2>4 DEF SemTypeOK, SemParked
  <2> QED BY <2>2, <2>3, <2>5
<1>2. CASE pc[t] = "once wait"
  <2>1. PICK timeout \in Timeouts : FutexWait(t, O, 1, timeout)
    BY <1>2 DEF SemSleeps
  <2>2. KernelInv'
    BY <1>0, <2>1, WaitKeeps
  <2>3. /\ mem' = mem /\ at[t] = "user"
        /\ at'[t] \in {"user", "parked"}
        /\ at'[t] = "parked" => futex_addr'[t] = O /\ Word(t, O) = 1
        /\ \A u \in Threads \ {t} : at'[u] = at[u] /\ futex_addr'[u] = futex_addr[u]
    BY <2>1, WaitParks DEF Word
  <2>4. s = "once look"
    BY <1>2 DEF SemSleeps
  <2>5. SemTypeOK' /\ SemParked'
    BY <1>0, <2>3, <2>4 DEF SemTypeOK, SemParked
  <2> QED BY <2>2, <2>3, <2>5
<1> QED BY <1>1, <1>2 DEF SemSleeps

\* A thread wakes waiters of one of the two words.
LEMMA SemWakeKeeps ==
    ASSUME SemBase, NEW t \in Threads, NEW a \in Addrs, NEW n \in Nat \ {0}, FutexWake(t, a, n),
           NEW s \in SemSteps, Goto(t, s), UNCHANGED runs
    PROVE  /\ SemBase' /\ mem' = mem /\ at[t] = "user" /\ at'[t] = "user"
           /\ futex_addr' = futex_addr
           /\ \A u \in Threads : at'[u] = IF u \in Woken(PidOf[t], a, n) THEN "ready" ELSE at[u]
<1> USE DEF SemBase
<1>1. KernelInv'
  BY WakeKeeps
<1>2. /\ mem' = mem /\ at[t] = "user" /\ futex_addr' = futex_addr
      /\ \A u \in Threads : at'[u] = IF u \in Woken(PidOf[t], a, n) THEN "ready" ELSE at[u]
  BY DEF FutexWake, Release
<1>3. pc' = [pc EXCEPT ![t] = s]
  BY DEF Goto
<1>4. SemTypeOK' /\ SemParked'
  BY <1>2, <1>3 DEF SemTypeOK, SemParked
<1>5. PidOf[t] \in Pids
  BY FutexAssumption
<1>6. t \notin Woken(PidOf[t], a, n)
  BY <1>2, <1>5, WakeFindsOne DEF Candidates
<1> QED BY <1>1, <1>2, <1>4, <1>6

LEMMA SemKernelKeeps ==
    ASSUME SemBase, KernelSteps, UNCHANGED runs
    PROVE  /\ SemBase' /\ UNCHANGED <<mem, pc>>
           /\ \A t \in Threads : at'[t] = "parked" => at[t] = "parked" /\ futex_addr'[t] = futex_addr[t]
<1>1. /\ KernelInv' /\ UNCHANGED <<mem, pc>>
      /\ \A t \in Threads : at'[t] = "parked" => at[t] = "parked" /\ futex_addr'[t] = futex_addr[t]
  BY KernelStepsKeep DEF SemBase
<1> QED BY <1>1 DEF SemBase, SemTypeOK, SemParked

-----------------------------------------------------------------------------
(* cos_once().                                                             *)

\* A step that is none of the initialiser's, of a thread that may return from
\* cos_once() if the word is 2, and may park on the word if it is 1.
LEMMA OnceQuiet ==
    ASSUME OnceInv, SemBase', UNCHANGED runs,
           \A p \in Pids : mem'[p][O] = mem[p][O],
           NEW t \in Threads, NEW s \in SemSteps, Goto(t, s),
           pc[t] \notin {"once init", "once wake"}, s \notin {"once init", "once wake"},
           s = "once done" => Word(t, O) = 2,
           \A u \in Threads : at'[u] = "parked" /\ futex_addr'[u] = O =>
               (at[u] = "parked" /\ futex_addr[u] = O) \/ Word(u, O) = 1
    PROVE  OnceInv'
<1> USE DEF OnceInv
<1>0. PidOf \in [Threads -> Pids] /\ pc \in [Threads -> SemSteps] /\ pc' = [pc EXCEPT ![t] = s]
  BY FutexAssumption DEF SemBase, SemTypeOK, Goto
<1>1. \A u \in Threads : pc'[u] \in {"once init", "once wake"} <=> pc[u] \in {"once init", "once wake"}
  BY <1>0
<1>2. \A u \in Threads : pc'[u] = "once init" <=> pc[u] = "once init"
  BY <1>0
<1>3. OnceWord'
  <2>1. ASSUME NEW p \in Pids
        PROVE  /\ mem'[p][O] \in {0, 1, 2}
               /\ runs'[p] = IF mem'[p][O] = 2 THEN 1 ELSE 0
               /\ mem'[p][O] = 1 => \E u \in Threads : PidOf[u] = p /\ pc'[u] = "once init"
    <3>1. mem'[p][O] = mem[p][O] /\ runs'[p] = runs[p]
      OBVIOUS
    <3>2. mem[p][O] = 1 => \E u \in Threads : PidOf[u] = p /\ pc'[u] = "once init"
      BY <1>2 DEF OnceWord
    <3> QED BY <3>1, <3>2 DEF OnceWord
  <2> QED BY <2>1 DEF OnceWord
<1>4. OncePlaces'
  BY <1>0, <1>2, ZenonT(30) DEF OncePlaces, Word
<1>5. OnceSleepers'
  <2> SUFFICES ASSUME NEW u \in Threads, at'[u] = "parked" /\ futex_addr'[u] = O
               PROVE  \E x \in Threads : PidOf[x] = PidOf[u] /\ pc'[x] \in {"once init", "once wake"}
    BY DEF OnceSleepers
  <2>1. CASE at[u] = "parked" /\ futex_addr[u] = O
    BY <1>1, <2>1 DEF OnceSleepers
  <2>2. CASE Word(u, O) = 1
    BY <1>0, <1>2, <2>2 DEF OnceWord, Word
  <2> QED BY <2>1, <2>2
<1> QED BY <1>3, <1>4, <1>5

\* The compare-and-swap that elects the initialiser.
LEMMA OnceBeginKeeps == ASSUME OnceInv, NEW t \in Threads, OnceBegin(t) PROVE OnceInv'
<1> USE DEF OnceInv
<1>0. /\ PidOf \in [Threads -> Pids] /\ pc \in [Threads -> SemSteps] /\ O \in Addrs
      /\ mem \in [Pids -> [Addrs -> Nat]] /\ runs \in [Pids -> Nat] /\ ret \in [Threads -> Results]
  BY FutexAssumption, UserSemAssumption DEF SemBase, SemTypeOK, KernelInv, KernelTypeOK
<1>1. /\ pc' = [pc EXCEPT ![t] = "once init"] /\ UNCHANGED <<parkVars, ret, runs>>
      /\ at[t] = "user" /\ pc[t] = "idle" /\ mem[PidOf[t]][O] = 0
  BY DEF OnceBegin, Goto, At, kernelVars, Word
<1>2. /\ mem' \in [Pids -> [Addrs -> Nat]]
      /\ \A p \in Pids : mem'[p][O] = IF p = PidOf[t] THEN 1 ELSE mem[p][O]
  BY <1>0 DEF OnceBegin, SetWord
<1>3. SemBase' /\ at' = at /\ futex_addr' = futex_addr
  <2>1. SemMoves(t, "once init")
    BY <1>0, <1>1 DEF SemMoves, Goto
  <2>2. "once init" \in SemSteps
    BY DEF SemSteps
  <2> QED BY <1>0, <1>1, <1>2, <2>1, <2>2, SemMoveKeeps
<1>4. \A u \in Threads : PidOf[u] = PidOf[t] =>
          pc[u] \notin {"once init", "once wake", "once done"}
  <2> SUFFICES ASSUME NEW u \in Threads, PidOf[u] = PidOf[t]
               PROVE  pc[u] \notin {"once init", "once wake", "once done"}
    OBVIOUS
  <2>1. mem[PidOf[u]][O] = 0
    BY <1>1
  <2>2. mem[PidOf[u]][O] # 1 /\ mem[PidOf[u]][O] # 2
    BY <2>1
  <2> QED BY <2>2 DEF OncePlaces, Word
<1>5. OnceWord'
  <2>1. ASSUME NEW p \in Pids
        PROVE  /\ mem'[p][O] \in {0, 1, 2}
               /\ runs'[p] = IF mem'[p][O] = 2 THEN 1 ELSE 0
               /\ mem'[p][O] = 1 => \E u \in Threads : PidOf[u] = p /\ pc'[u] = "once init"
    <3>1. CASE p = PidOf[t]
      <4>1. mem'[p][O] = 1
        BY <1>2, <3>1
      <4>2. runs[p] = 0
        <5>1. runs[p] = IF mem[p][O] = 2 THEN 1 ELSE 0
          BY DEF OnceWord
        <5>2. mem[p][O] = 0
          BY <1>1, <3>1
        <5> QED BY <5>1, <5>2
      <4>3. runs' = runs
        BY <1>1
      <4>4. PidOf[t] = p /\ pc'[t] = "once init"
        BY <1>0, <1>1, <3>1
      <4>5. mem'[p][O] # 2 /\ mem'[p][O] \in {0, 1, 2}
        BY <4>1
      <4> QED BY <4>2, <4>3, <4>4, <4>5
    <3>2. CASE p # PidOf[t]
      <4>1. mem'[p][O] = mem[p][O] /\ runs'[p] = runs[p]
        BY <1>1, <1>2, <3>2
      <4>2. mem[p][O] = 1 => \E u \in Threads : PidOf[u] = p /\ pc'[u] = "once init"
        BY <1>0, <1>1, <3>2 DEF OnceWord
      <4> QED BY <4>1, <4>2 DEF OnceWord
    <3> QED BY <3>1, <3>2
  <2> QED BY <2>1 DEF OnceWord
<1>6. OncePlaces'
  BY <1>0, <1>1, <1>2, <1>4, ZenonT(30) DEF OncePlaces, Word
<1>7. OnceSleepers'
  BY <1>0, <1>1, <1>3, <1>4 DEF OnceSleepers
<1> QED BY <1>3, <1>5, <1>6, <1>7

\* The initialiser has run.
LEMMA OnceFinishKeeps == ASSUME OnceInv, NEW t \in Threads, OnceFinish(t) PROVE OnceInv'
<1> USE DEF OnceInv
<1>0. /\ PidOf \in [Threads -> Pids] /\ pc \in [Threads -> SemSteps] /\ O \in Addrs
      /\ mem \in [Pids -> [Addrs -> Nat]] /\ runs \in [Pids -> Nat] /\ ret \in [Threads -> Results]
  BY FutexAssumption, UserSemAssumption DEF SemBase, SemTypeOK, KernelInv, KernelTypeOK
<1>1. /\ pc' = [pc EXCEPT ![t] = "once wake"] /\ UNCHANGED <<parkVars, ret>>
      /\ at[t] = "user" /\ pc[t] = "once init" /\ mem[PidOf[t]][O] = 1
  BY DEF OnceFinish, Goto, At, kernelVars, Word, OncePlaces
<1>2. /\ mem' \in [Pids -> [Addrs -> Nat]]
      /\ \A p \in Pids : mem'[p][O] = IF p = PidOf[t] THEN 2 ELSE mem[p][O]
  BY <1>0 DEF OnceFinish, SetWord
<1>3. /\ runs' \in [Pids -> Nat]
      /\ \A p \in Pids : runs'[p] = IF p = PidOf[t] THEN 1 ELSE runs[p]
  <2>0. runs[PidOf[t]] = IF mem[PidOf[t]][O] = 2 THEN 1 ELSE 0
    BY <1>0 DEF OnceWord
  <2>1. mem[PidOf[t]][O] = 1
    BY <1>1
  <2>2. mem[PidOf[t]][O] # 2
    BY <2>1
  <2>3. runs[PidOf[t]] = 0
    BY <2>0, <2>2
  <2>4. runs' = [runs EXCEPT ![PidOf[t]] = runs[PidOf[t]] + 1]
    BY DEF OnceFinish
  <2> QED BY <1>0, <2>3, <2>4
<1>4. SemBase' /\ at' = at /\ futex_addr' = futex_addr
  <2>1. SemMoves(t, "once wake")
    BY <1>0, <1>1 DEF SemMoves, Goto
  <2>2. "once wake" \in SemSteps
    BY DEF SemSteps
  <2> QED BY <1>2, <1>3, <2>1, <2>2, SemMoveKeeps
<1>5. \A u \in Threads : PidOf[u] = PidOf[t] /\ u # t => pc[u] # "once init"
  BY <1>0, <1>1 DEF OncePlaces, Word
<1>6. OnceWord'
  <2>1. ASSUME NEW p \in Pids
        PROVE  /\ mem'[p][O] \in {0, 1, 2}
               /\ runs'[p] = IF mem'[p][O] = 2 THEN 1 ELSE 0
               /\ mem'[p][O] = 1 => \E u \in Threads : PidOf[u] = p /\ pc'[u] = "once init"
    <3>1. CASE p = PidOf[t]
      <4>1. mem'[p][O] = 2 /\ runs'[p] = 1
        BY <1>2, <1>3, <3>1
      <4> QED BY <4>1
    <3>2. CASE p # PidOf[t]
      <4>1. mem'[p][O] = mem[p][O] /\ runs'[p] = runs[p]
        BY <1>2, <1>3, <3>2
      <4>2. mem[p][O] = 1 => \E u \in Threads : PidOf[u] = p /\ pc'[u] = "once init"
        BY <1>0, <1>1, <3>2 DEF OnceWord
      <4> QED BY <4>1, <4>2 DEF OnceWord
    <3> QED BY <3>1, <3>2
  <2> QED BY <2>1 DEF OnceWord
<1>7. OncePlaces'
  BY <1>0, <1>1, <1>2, <1>5 DEF OncePlaces, Word
<1>8. OnceSleepers'
  BY <1>0, <1>1, <1>4 DEF OnceSleepers
<1> QED BY <1>4, <1>6, <1>7, <1>8

LEMMA WakeCountIsPositive ==
    ASSUME NEW t \in Threads PROVE Cardinality(Threads) \in Nat \ {0}
BY FutexAssumption, FS_CardinalityType, FS_EmptySet

\* The initialiser wakes every waiter of its process.
LEMMA OnceWakeKeeps == ASSUME OnceInv, NEW t \in Threads, OnceWake(t) PROVE OnceInv'
<1> USE DEF OnceInv
<1>0. PidOf \in [Threads -> Pids] /\ pc \in [Threads -> SemSteps] /\ O \in Addrs /\ KernelInv
  BY FutexAssumption, UserSemAssumption DEF SemBase, SemTypeOK
<1>1. /\ FutexWake(t, O, Cardinality(Threads)) /\ pc' = [pc EXCEPT ![t] = "once done"]
      /\ Goto(t, "once done")
      /\ runs' = runs /\ pc[t] = "once wake"
  BY DEF OnceWake, OnceWakeCount, Goto, At
<1>2. "once done" \in SemSteps /\ Cardinality(Threads) \in Nat \ {0}
  BY WakeCountIsPositive DEF SemSteps
<1>3. /\ SemBase' /\ mem' = mem /\ futex_addr' = futex_addr
      /\ \A u \in Threads : at'[u] =
            IF u \in Woken(PidOf[t], O, Cardinality(Threads)) THEN "ready" ELSE at[u]
  BY <1>0, <1>1, <1>2, SemWakeKeeps
<1>4. \A u \in Threads : PidOf[u] = PidOf[t] => ~(at'[u] = "parked" /\ futex_addr'[u] = O)
  BY <1>0, <1>3, WakeFindsAll DEF Candidates
<1>5. OnceWord' /\ OncePlaces'
  BY <1>0, <1>1, <1>3 DEF OnceWord, OncePlaces, Word
<1>6. OnceSleepers'
  BY <1>0, <1>1, <1>3, <1>4, ZenonT(30) DEF OnceSleepers
<1> QED BY <1>3, <1>5, <1>6

\* The steps of a thread outside the kernel and outside the initialiser.
SemQuiet(t) ==
    \/ TakeToken(t) \/ NoToken(t) \/ SemGivesUp(t) \/ SemPost(t)
    \/ OnceReturns(t) \/ OnceLooks(t) \/ OnceLeaves(t)

LEMMA SemQuietMoves ==
    ASSUME SemBase, NEW t \in Threads, SemQuiet(t)
    PROVE  /\ mem' \in [Pids -> [Addrs -> Nat]] /\ runs' = runs
           /\ \A p \in Pids : mem'[p][O] = mem[p][O]
           /\ pc[t] \notin {"once init", "once wake"}
           /\ \E s \in SemSteps \ {"once init", "once wake"} :
                 SemMoves(t, s) /\ (s = "once done" => Word(t, O) = 2)
<1>0. /\ PidOf \in [Threads -> Pids] /\ S \in Addrs /\ O \in Addrs /\ S # O
      /\ mem \in [Pids -> [Addrs -> Nat]] /\ ret \in [Threads -> Results]
  BY FutexAssumption, UserSemAssumption DEF SemBase, SemTypeOK, KernelInv, KernelTypeOK
<1>1. Word(t, S) \in Nat
  BY <1>0 DEF Word
<1>2. ASSUME NEW w \in Nat, SetWord(t, S, w)
      PROVE  mem' \in [Pids -> [Addrs -> Nat]] /\ \A p \in Pids : mem'[p][O] = mem[p][O]
  BY <1>0, <1>2, WordIsSet
<1>3. /\ mem' \in [Pids -> [Addrs -> Nat]]
      /\ \A p \in Pids : mem'[p][O] = mem[p][O]
  <2>1. CASE TakeToken(t)
    <3>1. SetWord(t, S, Word(t, S) - 1) /\ Word(t, S) > 0
      BY <2>1 DEF TakeToken, HasToken
    <3>2. Word(t, S) - 1 \in Nat
      BY <1>1, <3>1
    <3> QED BY <1>2, <3>1, <3>2
  <2>2. CASE SemPost(t)
    <3>1. SetWord(t, S, Word(t, S) + 1)
      BY <2>2 DEF SemPost
    <3>2. Word(t, S) + 1 \in Nat
      BY <1>1
    <3> QED BY <1>2, <3>1, <3>2
  <2>3. CASE ~TakeToken(t) /\ ~SemPost(t)
    <3>1. mem' = mem
      BY <2>3 DEF SemQuiet, NoToken, SemGivesUp, OnceReturns, OnceLooks, OnceLeaves, vars
    <3> QED BY <1>0, <3>1
  <2> QED BY <2>1, <2>2, <2>3
<1>4. /\ runs' = runs /\ UNCHANGED parkVars /\ at[t] = "user"
      /\ pc[t] \in {"idle", "try", "timed try", "timed wait", "once look", "once done"}
  BY DEF SemQuiet, TakeToken, NoToken, SemGivesUp, SemPost, OnceReturns, OnceLooks, OnceLeaves,
         At, vars, kernelVars
<1>5. ret' \in [Threads -> Results]
  <2>1. CASE Discard(t)
    BY <1>0, <2>1 DEF Discard, Results
  <2>2. CASE ret' = ret
    BY <1>0, <2>2
  <2> QED BY <2>1, <2>2 DEF SemQuiet, TakeToken, NoToken, SemGivesUp, SemPost, OnceReturns,
         OnceLooks, OnceLeaves, vars, kernelVars
<1>6. PICK s \in {"idle", "wait", "timed wait", "post wake", "once done", "once wait"} :
         Goto(t, s) /\ (s = "once done" => OnceReturns(t))
  BY DEF SemQuiet, TakeToken, NoToken, SemGivesUp, SemPost, OnceReturns, OnceLooks, OnceLeaves
<1>7. s = "once done" => Word(t, O) = 2
  BY <1>6 DEF OnceReturns, OnceDone
<1>8. s \in SemSteps \ {"once init", "once wake"}
  BY <1>6 DEF SemSteps
<1>9. SemMoves(t, s)
  BY <1>4, <1>5, <1>6 DEF SemMoves
<1> QED BY <1>3, <1>4, <1>7, <1>8, <1>9

LEMMA OnceInvKept == ASSUME OnceInv, [SemNext]_semVars PROVE OnceInv'
<1>0. SemBase /\ S \in Addrs /\ PidOf \in [Threads -> Pids]
  BY UserSemAssumption, FutexAssumption DEF OnceInv
<1>1. ASSUME NEW t \in Threads, SemQuiet(t) PROVE OnceInv'
  <2>1. /\ mem' \in [Pids -> [Addrs -> Nat]] /\ runs' = runs
        /\ \A p \in Pids : mem'[p][O] = mem[p][O]
        /\ pc[t] \notin {"once init", "once wake"}
        /\ \E s \in SemSteps \ {"once init", "once wake"} :
              SemMoves(t, s) /\ (s = "once done" => Word(t, O) = 2)
    BY <1>0, <1>1, SemQuietMoves
  <2>2. PICK s \in SemSteps \ {"once init", "once wake"} :
           SemMoves(t, s) /\ (s = "once done" => Word(t, O) = 2)
    BY <2>1
  <2>3. runs' \in [Pids -> Nat]
    BY <1>0, <2>1 DEF SemBase, SemTypeOK
  <2>4. SemBase' /\ at' = at /\ futex_addr' = futex_addr
    BY <1>0, <2>1, <2>2, <2>3, SemMoveKeeps
  <2>5. Goto(t, s)
    BY <2>2 DEF SemMoves
  <2> QED BY <2>1, <2>2, <2>4, <2>5, OnceQuiet
<1>2. ASSUME NEW t \in Threads, SemWait(t) \/ SemTimedWait(t) \/ OnceWait(t) PROVE OnceInv'
  <2>1. PICK s \in {"try", "timed try", "once look"} : SemSleeps(t, s)
    <3>1. Forever \in Timeouts
      BY DEF Timeouts
    <3>2. CASE SemWait(t)
      BY <3>1, <3>2 DEF SemWait, SemExpected, SemSleeps, At
    <3>3. CASE SemTimedWait(t)
      BY <3>3 DEF SemTimedWait, SemExpected, SemSleeps, At
    <3>4. CASE OnceWait(t)
      BY <3>1, <3>4 DEF OnceWait, SemSleeps, At
    <3> QED BY <1>2, <3>2, <3>3, <3>4
  <2>2. s \in SemSteps
    BY DEF SemSteps
  <2>3. /\ SemBase' /\ mem' = mem /\ at[t] = "user"
        /\ at'[t] \in {"user", "parked"}
        /\ at'[t] = "parked" =>
              \/ futex_addr'[t] = S /\ Word(t, S) = 0
              \/ futex_addr'[t] = O /\ Word(t, O) = 1
        /\ \A u \in Threads \ {t} : at'[u] = at[u] /\ futex_addr'[u] = futex_addr[u]
    BY <1>0, <2>1, <2>2, SemSleepKeeps
  <2>4. Goto(t, s) /\ runs' = runs /\ pc[t] \notin {"once init", "once wake"}
    BY <2>1 DEF SemSleeps
  <2>5. \A u \in Threads : at'[u] = "parked" /\ futex_addr'[u] = O =>
               (at[u] = "parked" /\ futex_addr[u] = O) \/ Word(u, O) = 1
    BY <2>3, UserSemAssumption
  <2>6. s \notin {"once init", "once wake", "once done"}
    OBVIOUS
  <2> QED BY <2>2, <2>3, <2>4, <2>5, <2>6, OnceQuiet
<1>3. ASSUME NEW t \in Threads, SemPostWake(t) PROVE OnceInv'
  <2>1. FutexWake(t, S, 1) /\ Goto(t, "idle") /\ runs' = runs /\ pc[t] = "post wake"
    BY <1>3 DEF SemPostWake, At
  <2>2. "idle" \in SemSteps
    BY DEF SemSteps
  <2>3. 1 \in Nat \ {0}
    OBVIOUS
  <2>4. /\ SemBase' /\ mem' = mem /\ futex_addr' = futex_addr
        /\ \A u \in Threads : at'[u] = IF u \in Woken(PidOf[t], S, 1) THEN "ready" ELSE at[u]
    BY <1>0, <2>1, <2>2, <2>3, SemWakeKeeps
  <2>5. \A u \in Threads : at'[u] = "parked" => at[u] = "parked"
    BY <2>4
  <2> QED BY <2>1, <2>2, <2>4, <2>5, OnceQuiet
<1>4. CASE KernelSteps /\ UNCHANGED runs
  <2>1. /\ SemBase' /\ UNCHANGED <<mem, pc, runs>>
        /\ \A t \in Threads : at'[t] = "parked" => at[t] = "parked" /\ futex_addr'[t] = futex_addr[t]
    BY <1>0, <1>4, SemKernelKeeps
  <2>2. OnceWord' /\ OncePlaces'
    BY <2>1 DEF OnceInv, OnceWord, OncePlaces, Word
  <2>3. ASSUME NEW t \in Threads, at'[t] = "parked", futex_addr'[t] = O
        PROVE  \E u \in Threads : PidOf[u] = PidOf[t] /\ pc'[u] \in {"once init", "once wake"}
    <3>1. at[t] = "parked" /\ futex_addr[t] = O
      BY <2>1, <2>3
    <3>2. PICK u \in Threads : PidOf[u] = PidOf[t] /\ pc[u] \in {"once init", "once wake"}
      BY <3>1 DEF OnceInv, OnceSleepers
    <3>3. pc' = pc
      BY <2>1
    <3> QED BY <3>2, <3>3
  <2>4. OnceSleepers'
    BY <2>3 DEF OnceSleepers
  <2> QED BY <2>1, <2>2, <2>4 DEF OnceInv
<1>5. CASE UNCHANGED semVars
  <2>1. UNCHANGED <<mem, pc, runs, parkVars, ret, at, futex_addr>>
    BY <1>5 DEF semVars, vars, kernelVars, parkVars
  <2>2. KernelInv'
    BY <1>0, <2>1, UntouchedKeeps DEF SemBase, KernelInv, KernelTypeOK
  <2>3. SemBase'
    BY <1>0, <2>1, <2>2 DEF SemBase, SemTypeOK, SemParked
  <2> QED BY <2>1, <2>3, ZenonT(30) DEF OnceInv, OnceWord, OncePlaces, OnceSleepers, Word
<1> QED BY <1>1, <1>2, <1>3, <1>4, <1>5, OnceBeginKeeps, OnceFinishKeeps, OnceWakeKeeps
        DEF SemNext, SemQuiet

LEMMA OnceInvAtStart == SemInit => OnceInv
<1> SUFFICES ASSUME SemInit PROVE OnceInv
  OBVIOUS
<1>0. S \in Addrs /\ O \in Addrs /\ S # O /\ InitialCount \in Nat /\ PidOf \in [Threads -> Pids]
  BY UserSemAssumption, FutexAssumption
<1>1. KernelInv /\ pc = [t \in Threads |-> "idle"] /\ at = [t \in Threads |-> "user"]
  BY KernelInvAtStart DEF SemInit, ThreadsInit, KernelInit
<1>2. /\ mem \in [Pids -> [Addrs -> Nat]] /\ runs = [p \in Pids |-> 0]
      /\ \A p \in Pids : mem[p][O] = 0
  BY <1>0 DEF SemInit
<1>3. SemBase
  BY <1>1, <1>2 DEF SemBase, SemTypeOK, SemParked, SemSteps
<1>4. OnceWord
  <2>1. \A p \in Pids : mem[p][O] # 1 /\ mem[p][O] # 2 /\ mem[p][O] \in {0, 1, 2}
    BY <1>2
  <2> QED BY <1>2, <2>1 DEF OnceWord
<1> QED BY <1>1, <1>3, <1>4 DEF OnceInv, OncePlaces, OnceSleepers

\* cos_once() runs the initialiser once, nobody returns before it has finished,
\* and nobody sleeps through its end, however its callers interleave and
\* whatever other waiters share the bucket.
THEOREM OnceRunsOnce == SemSpec => []OnceIsOnce
<1>1. OnceInv => OnceIsOnce
  <2> SUFFICES ASSUME OnceInv, NEW t \in Threads
               PROVE  /\ pc[t] = "once done" => runs[PidOf[t]] = 1
                      /\ Parked(t, O) # {} =>
                            \E u \in Threads : PidOf[u] = PidOf[t] /\ pc[u] \in {"once init", "once wake"}
    BY DEF OnceIsOnce
  <2>1. PidOf[t] \in Pids
    BY FutexAssumption
  <2>2. pc[t] = "once done" => mem[PidOf[t]][O] = 2
    BY DEF OnceInv, OncePlaces, Word
  <2>3. pc[t] = "once done" => runs[PidOf[t]] = 1
    BY <2>1, <2>2 DEF OnceInv, OnceWord
  <2>4. ASSUME NEW u \in Parked(t, O)
        PROVE  \E x \in Threads : PidOf[x] = PidOf[t] /\ pc[x] \in {"once init", "once wake"}
    BY <2>4 DEF OnceInv, OnceSleepers, Parked
  <2> QED BY <2>3, <2>4
<1> QED BY <1>1, OnceInvAtStart, OnceInvKept, PTL DEF SemSpec

-----------------------------------------------------------------------------
(* The semaphore.                                                          *)

\* The threads of process p that will look at the count, or wake one that will.
Lookers(p) ==
    {u \in Threads : PidOf[u] = p /\
        \/ pc[u] = "post wake"
        \/ pc[u] \in {"try", "timed try"} /\ at[u] # "parked"}

Sleeping(p) == \E u \in Threads : PidOf[u] = p /\ at[u] = "parked" /\ futex_addr[u] = S

TokenOk(p) == Sleeping(p) => mem[p][S] <= Cardinality(Lookers(p))

TokenInv == OnceInv /\ \A p \in Pids : TokenOk(p)

LEMMA LookersFinite ==
    ASSUME NEW p
    PROVE  IsFiniteSet(Lookers(p)) /\ Cardinality(Lookers(p)) \in Nat
<1>1. Lookers(p) \subseteq Threads
  BY DEF Lookers
<1>2. IsFiniteSet(Lookers(p))
  BY <1>1, FutexAssumption, FS_Subset
<1> QED BY <1>2, FS_CardinalityType

LEMMA LookersFiniteNext ==
    ASSUME NEW p
    PROVE  IsFiniteSet(Lookers(p)') /\ Cardinality(Lookers(p)') \in Nat
<1>1. Lookers(p)' \subseteq Threads
  BY DEF Lookers
<1>2. IsFiniteSet(Lookers(p)')
  BY <1>1, FutexAssumption, FS_Subset
<1> QED BY <1>2, FS_CardinalityType

LEMMA OneLess ==
    ASSUME NEW X, IsFiniteSet(X), NEW x
    PROVE  /\ IsFiniteSet(X \ {x}) /\ Cardinality(X \ {x}) \in Nat
           /\ Cardinality(X \ {x}) >= Cardinality(X) - 1
<1>1. IsFiniteSet(X \ {x}) /\ Cardinality(X \ {x}) = IF x \in X THEN Cardinality(X) - 1 ELSE Cardinality(X)
  BY FS_RemoveElement
<1>2. Cardinality(X) \in Nat /\ Cardinality(X \ {x}) \in Nat
  BY <1>1, FS_CardinalityType
<1> QED BY <1>1, <1>2

\* No token more, no looker less.
LEMMA TokenOkGrows ==
    ASSUME NEW p \in Pids, TokenOk(p), mem[p][S] \in Nat, mem'[p][S] \in Nat,
           Sleeping(p)' => Sleeping(p),
           mem'[p][S] <= mem[p][S], Lookers(p) \subseteq Lookers(p)'
    PROVE  TokenOk(p)'
<1>1. /\ Cardinality(Lookers(p)) \in Nat /\ Cardinality(Lookers(p)') \in Nat
      /\ Cardinality(Lookers(p)) <= Cardinality(Lookers(p)')
  BY LookersFinite, LookersFiniteNext, FS_Subset
<1> QED BY <1>1 DEF TokenOk

\* A looker takes a token along.
LEMMA TokenOkTakes ==
    ASSUME NEW p \in Pids, TokenOk(p), mem[p][S] \in Nat \ {0}, mem'[p][S] = mem[p][S] - 1,
           Sleeping(p)' => Sleeping(p),
           NEW t, Lookers(p) \ {t} \subseteq Lookers(p)'
    PROVE  TokenOk(p)'
<1>1. Cardinality(Lookers(p)) \in Nat /\ IsFiniteSet(Lookers(p))
  BY LookersFinite
<1>2. /\ Cardinality(Lookers(p) \ {t}) \in Nat
      /\ Cardinality(Lookers(p) \ {t}) >= Cardinality(Lookers(p)) - 1
  BY <1>1, OneLess
<1>3. Cardinality(Lookers(p) \ {t}) <= Cardinality(Lookers(p)') /\ Cardinality(Lookers(p)') \in Nat
  BY LookersFiniteNext, FS_Subset
<1> QED BY <1>1, <1>2, <1>3 DEF TokenOk

\* A post adds a token and a looker.
LEMMA TokenOkPosts ==
    ASSUME NEW p \in Pids, TokenOk(p), mem[p][S] \in Nat, mem'[p][S] = mem[p][S] + 1,
           Sleeping(p)' => Sleeping(p),
           NEW t, t \notin Lookers(p), Lookers(p) \cup {t} \subseteq Lookers(p)'
    PROVE  TokenOk(p)'
<1>1. Cardinality(Lookers(p)) \in Nat /\ IsFiniteSet(Lookers(p))
  BY LookersFinite
<1>2. Cardinality(Lookers(p) \cup {t}) = Cardinality(Lookers(p)) + 1
  BY <1>1, FS_AddElement
<1>3. Cardinality(Lookers(p) \cup {t}) <= Cardinality(Lookers(p)') /\ Cardinality(Lookers(p)') \in Nat
  BY LookersFiniteNext, FS_Subset
<1> QED BY <1>1, <1>2, <1>3 DEF TokenOk

\* A wake replaces one looker by another.
LEMMA TokenOkWakes ==
    ASSUME NEW p \in Pids, TokenOk(p), mem[p][S] \in Nat, mem'[p][S] = mem[p][S],
           Sleeping(p)' => Sleeping(p),
           NEW t, NEW x, x \notin Lookers(p), x # t,
           (Lookers(p) \ {t}) \cup {x} \subseteq Lookers(p)'
    PROVE  TokenOk(p)'
<1> DEFINE K == Lookers(p) \ {t}
<1>1. Cardinality(Lookers(p)) \in Nat /\ IsFiniteSet(Lookers(p))
  BY LookersFinite
<1>2. /\ Cardinality(K) \in Nat /\ IsFiniteSet(K)
      /\ Cardinality(K) >= Cardinality(Lookers(p)) - 1
  BY <1>1, OneLess
<1>3. x \notin K /\ K \cup {x} \subseteq Lookers(p)'
  OBVIOUS
<1> HIDE DEF K
<1>4. Cardinality(K \cup {x}) = Cardinality(K) + 1
  BY <1>2, <1>3, FS_AddElement
<1>5. Cardinality(K \cup {x}) <= Cardinality(Lookers(p)') /\ Cardinality(Lookers(p)') \in Nat
  BY <1>3, LookersFiniteNext, FS_Subset
<1> QED BY <1>1, <1>2, <1>4, <1>5 DEF TokenOk

\* A process whose count is 0 has no idle token.
LEMMA TokenOkNone == ASSUME NEW p, mem'[p][S] = 0 PROVE TokenOk(p)'
BY LookersFiniteNext DEF TokenOk

\* A process in which no looker moves, and nobody falls asleep on the semaphore.
LEMMA TokenQuiet ==
    ASSUME TokenInv, NEW p \in Pids, mem'[p][S] = mem[p][S],
           \A u \in Lookers(p) : pc'[u] = pc[u] /\ at'[u] # "parked",
           \A u \in Threads : PidOf[u] = p /\ at'[u] = "parked" /\ futex_addr'[u] = S =>
               at[u] = "parked" /\ futex_addr[u] = S
    PROVE  TokenOk(p)'
<1>1. TokenOk(p) /\ mem[p][S] \in Nat /\ mem'[p][S] <= mem[p][S]
  BY UserSemAssumption DEF TokenInv, OnceInv, SemBase, SemTypeOK
<1>2. Sleeping(p)' => Sleeping(p)
  BY DEF Sleeping
<1>3. Lookers(p) \subseteq Lookers(p)'
  BY DEF Lookers
<1> QED BY <1>1, <1>2, <1>3, TokenOkGrows

\* The same for every process, when thread t takes a step and is no looker.
LEMMA TokenQuietStep ==
    ASSUME TokenInv, OnceInv', NEW t \in Threads, NEW s, Goto(t, s),
           pc[t] \notin {"post wake", "try", "timed try"},
           \A p \in Pids : mem'[p][S] = mem[p][S],
           \A u \in Threads : at'[u] = "parked" => u = t \/ at[u] = "parked",
           \A u \in Threads : at'[u] = "parked" /\ futex_addr'[u] = S =>
               at[u] = "parked" /\ futex_addr[u] = S
    PROVE  TokenInv'
<1>1. pc' = [pc EXCEPT ![t] = s] /\ pc \in [Threads -> SemSteps]
  BY DEF Goto, TokenInv, OnceInv, SemBase, SemTypeOK
<1>2. ASSUME NEW p \in Pids PROVE TokenOk(p)'
  <2>1. \A u \in Lookers(p) : u \in Threads /\ u # t /\ at'[u] # "parked"
    <3> SUFFICES ASSUME NEW u \in Lookers(p) PROVE u \in Threads /\ u # t /\ at'[u] # "parked"
      OBVIOUS
    <3>1. u \in Threads /\ u # t
      BY DEF Lookers
    <3>2. at[u] # "parked"
      BY DEF Lookers, TokenInv, OnceInv, SemBase, SemParked
    <3> QED BY <3>1, <3>2
  <2>2. \A u \in Lookers(p) : pc'[u] = pc[u]
    BY <1>1, <2>1
  <2> QED BY <2>1, <2>2, TokenQuiet
<1> QED BY <1>2 DEF TokenInv

LEMMA TakeTokenKeeps ==
    ASSUME TokenInv, OnceInv', NEW t \in Threads, TakeToken(t) PROVE TokenInv'
<1>0. /\ PidOf \in [Threads -> Pids] /\ S \in Addrs /\ pc \in [Threads -> SemSteps]
      /\ mem \in [Pids -> [Addrs -> Nat]]
  BY FutexAssumption, UserSemAssumption DEF TokenInv, OnceInv, SemBase, SemTypeOK
<1>1. /\ pc' = [pc EXCEPT ![t] = "idle"] /\ at' = at /\ futex_addr' = futex_addr
      /\ SetWord(t, S, Word(t, S) - 1) /\ Word(t, S) > 0
  BY DEF TakeToken, HasToken, Goto, parkVars
<1>2. Word(t, S) \in Nat /\ Word(t, S) = mem[PidOf[t]][S]
  BY <1>0 DEF Word
<1>3. Word(t, S) - 1 \in Nat
  BY <1>1, <1>2
<1>4. \A p \in Pids : mem'[p][S] = IF p = PidOf[t] THEN Word(t, S) - 1 ELSE mem[p][S]
  BY <1>0, <1>1, <1>3, WordIsSet
<1>5. ASSUME NEW p \in Pids, p # PidOf[t] PROVE TokenOk(p)'
  <2>1. \A u \in Lookers(p) : pc'[u] = pc[u] /\ at'[u] # "parked"
    BY <1>0, <1>1, <1>5 DEF Lookers, TokenInv, OnceInv, SemBase, SemParked
  <2> QED BY <1>1, <1>4, <1>5, <2>1, TokenQuiet
<1>6. TokenOk(PidOf[t])'
  <2> DEFINE p == PidOf[t]
  <2>1. p \in Pids /\ TokenOk(p)
    BY <1>0 DEF TokenInv
  <2>2. Sleeping(p)' => Sleeping(p)
    BY <1>1 DEF Sleeping
  <2>3. Lookers(p) \ {t} \subseteq Lookers(p)'
    BY <1>0, <1>1 DEF Lookers
  <2>4. mem[p][S] \in Nat \ {0} /\ mem'[p][S] = mem[p][S] - 1
    BY <1>0, <1>1, <1>2, <1>4
  <2> QED BY <2>1, <2>2, <2>3, <2>4, TokenOkTakes
<1> QED BY <1>5, <1>6 DEF TokenInv

LEMMA SemPostKeeps ==
    ASSUME TokenInv, OnceInv', NEW t \in Threads, SemPost(t) PROVE TokenInv'
<1>0. /\ PidOf \in [Threads -> Pids] /\ S \in Addrs /\ pc \in [Threads -> SemSteps]
      /\ mem \in [Pids -> [Addrs -> Nat]]
  BY FutexAssumption, UserSemAssumption DEF TokenInv, OnceInv, SemBase, SemTypeOK
<1>1. /\ pc' = [pc EXCEPT ![t] = "post wake"] /\ at' = at /\ futex_addr' = futex_addr
      /\ SetWord(t, S, Word(t, S) + 1) /\ pc[t] = "idle"
  BY DEF SemPost, Goto, parkVars, kernelVars, At
<1>2. Word(t, S) \in Nat /\ Word(t, S) = mem[PidOf[t]][S]
  BY <1>0 DEF Word
<1>3. Word(t, S) + 1 \in Nat
  BY <1>2
<1>4. \A p \in Pids : mem'[p][S] = IF p = PidOf[t] THEN Word(t, S) + 1 ELSE mem[p][S]
  <2>1. PICK w \in Nat : w = Word(t, S) + 1 /\ SetWord(t, S, w)
    BY <1>1, <1>3
  <2>2. \A p \in Pids : mem'[p][S] = IF p = PidOf[t] THEN w ELSE mem[p][S]
    BY <1>0, <2>1, WordIsSet
  <2> QED BY <2>1, <2>2
<1>5. ASSUME NEW p \in Pids, p # PidOf[t] PROVE TokenOk(p)'
  <2>1. \A u \in Lookers(p) : pc'[u] = pc[u] /\ at'[u] # "parked"
    BY <1>0, <1>1, <1>5 DEF Lookers, TokenInv, OnceInv, SemBase, SemParked
  <2> QED BY <1>1, <1>4, <1>5, <2>1, TokenQuiet
<1>6. TokenOk(PidOf[t])'
  <2> DEFINE p == PidOf[t]
  <2>1. p \in Pids /\ TokenOk(p)
    BY <1>0 DEF TokenInv
  <2>2. Sleeping(p)' => Sleeping(p)
    BY <1>1 DEF Sleeping
  <2>3. t \notin Lookers(p) /\ Lookers(p) \cup {t} \subseteq Lookers(p)'
    BY <1>0, <1>1 DEF Lookers
  <2>4. mem[p][S] \in Nat /\ mem'[p][S] = mem[p][S] + 1
    BY <1>0, <1>2, <1>4
  <2> QED BY <2>1, <2>2, <2>3, <2>4, TokenOkPosts
<1> QED BY <1>5, <1>6 DEF TokenInv

\* The poster's wake makes a sleeper a looker in its place, or nobody sleeps.
LEMMA SemPostWakeKeeps ==
    ASSUME DistinctBuckets, TokenInv, OnceInv', NEW t \in Threads, SemPostWake(t) PROVE TokenInv'
<1>0. /\ PidOf \in [Threads -> Pids] /\ S \in Addrs /\ pc \in [Threads -> SemSteps]
      /\ mem \in [Pids -> [Addrs -> Nat]] /\ KernelInv /\ SemParked
  BY FutexAssumption, UserSemAssumption DEF TokenInv, OnceInv, SemBase, SemTypeOK
<1>1. /\ pc' = [pc EXCEPT ![t] = "idle"] /\ mem' = mem /\ futex_addr' = futex_addr
      /\ pc[t] = "post wake" /\ at[t] = "user"
      /\ \A u \in Threads : at'[u] = IF u \in Woken(PidOf[t], S, 1) THEN "ready" ELSE at[u]
  BY DEF SemPostWake, FutexWake, Release, Goto, At
<1> DEFINE p == PidOf[t]
<1>2. ASSUME NEW q \in Pids, q # p PROVE TokenOk(q)'
  <2>1. \A u \in Lookers(q) : pc'[u] = pc[u] /\ at'[u] # "parked"
    BY <1>0, <1>1, <1>2 DEF Lookers, SemParked
  <2> QED BY <1>1, <1>2, <2>1, TokenQuiet
<1>3. TokenOk(p)'
  <2>0. p \in Pids /\ TokenOk(p) /\ 1 \in Nat \ {0}
    BY <1>0 DEF TokenInv
  <2>1. Sleeping(p)' => Sleeping(p)
    BY <1>1 DEF Sleeping
  <2>2. CASE ~Sleeping(p)
    BY <2>1, <2>2 DEF TokenOk
  <2>3. CASE Sleeping(p)
    <3>1. Candidates(p, S) # {}
      BY <2>3 DEF Sleeping, Candidates
    <3>2. Woken(p, S, 1) \subseteq Candidates(p, S) /\ Woken(p, S, 1) # {}
      BY <1>0, <2>0, <3>1, WakeFindsOne
    <3>3. PICK x \in Woken(p, S, 1) : x \in Candidates(p, S)
      BY <3>2
    <3>4. x \in Threads /\ at[x] = "parked" /\ futex_addr[x] = S /\ PidOf[x] = p
      BY <1>0, <2>0, <3>3 DEF Candidates, DistinctBuckets
    <3>5. pc[x] \in {"try", "timed try"}
      BY <1>0, <3>4, UserSemAssumption DEF SemParked
    <3>6. x # t /\ x \notin Lookers(p)
      BY <1>1, <3>4, <3>5 DEF Lookers
    <3>7. at'[x] = "ready" /\ pc'[x] = pc[x]
      BY <1>0, <1>1, <3>3, <3>4, <3>6
    <3>8. x \in Lookers(p)'
      BY <3>4, <3>5, <3>7 DEF Lookers
    <3>9. Lookers(p) \ {t} \subseteq Lookers(p)'
      BY <1>0, <1>1 DEF Lookers
    <3>10. mem[p][S] \in Nat /\ mem'[p][S] = mem[p][S]
      BY <1>0, <1>1, <2>0
    <3> QED BY <2>0, <2>1, <3>6, <3>8, <3>9, <3>10, TokenOkWakes
  <2> QED BY <2>2, <2>3
<1> QED BY <1>2, <1>3 DEF TokenInv

LEMMA SemSleepTokens ==
    ASSUME TokenInv, OnceInv', NEW t \in Threads, NEW s \in SemSteps, SemSleeps(t, s)
    PROVE  TokenInv'
<1>0. PidOf \in [Threads -> Pids] /\ SemBase /\ S # O /\ pc' = [pc EXCEPT ![t] = s]
  BY FutexAssumption, UserSemAssumption DEF TokenInv, OnceInv, SemSleeps, Goto
<1>1. /\ mem' = mem /\ at[t] = "user" /\ at'[t] \in {"user", "parked"}
      /\ at'[t] = "parked" =>
            \/ futex_addr'[t] = S /\ Word(t, S) = 0
            \/ futex_addr'[t] = O /\ Word(t, O) = 1
      /\ \A u \in Threads \ {t} : at'[u] = at[u] /\ futex_addr'[u] = futex_addr[u]
  BY <1>0, SemSleepKeeps
<1>2. pc[t] \notin {"post wake", "try", "timed try"} /\ Goto(t, s)
  BY DEF SemSleeps
<1>3. CASE ~(at'[t] = "parked" /\ futex_addr'[t] = S)
  BY <1>1, <1>2, <1>3, TokenQuietStep
<1>4. CASE at'[t] = "parked" /\ futex_addr'[t] = S
  <2>1. mem'[PidOf[t]][S] = 0
    BY <1>0, <1>1, <1>4 DEF Word
  <2>2. ASSUME NEW p \in Pids, p # PidOf[t] PROVE TokenOk(p)'
    <3>1. \A u \in Threads : PidOf[u] = p => u # t
      BY <2>2
    <3>2. \A u \in Lookers(p) : pc'[u] = pc[u] /\ at'[u] # "parked"
      BY <1>0, <1>1, <3>1 DEF Lookers, SemBase, SemTypeOK, SemParked
    <3> QED BY <1>1, <3>1, <3>2, TokenQuiet
  <2> QED BY <2>1, <2>2, TokenOkNone DEF TokenInv
<1> QED BY <1>3, <1>4

LEMMA NotPositive == \A w \in Nat : ~(w > 0) => w = 0
OBVIOUS

LEMMA TokenInvKept ==
    ASSUME DistinctBuckets, TokenInv, [SemNext]_semVars PROVE TokenInv'
<1>0. /\ OnceInv /\ SemBase /\ OnceInv' /\ PidOf \in [Threads -> Pids] /\ S \in Addrs /\ O \in Addrs /\ S # O
      /\ mem \in [Pids -> [Addrs -> Nat]]
  BY OnceInvKept, FutexAssumption, UserSemAssumption DEF TokenInv, OnceInv, SemBase, SemTypeOK
<1>1. ASSUME NEW t \in Threads, NoToken(t) PROVE TokenInv'
  <2>1. PICK s \in {"wait", "timed wait"} : pc' = [pc EXCEPT ![t] = s]
    BY <1>1 DEF NoToken, Goto
  <2>2. mem' = mem /\ at' = at /\ futex_addr' = futex_addr /\ ~(Word(t, S) > 0)
    BY <1>1 DEF NoToken, parkVars, HasToken
  <2>3. Word(t, S) = mem[PidOf[t]][S] /\ mem[PidOf[t]][S] \in Nat
    BY <1>0 DEF Word
  <2>4. mem'[PidOf[t]][S] = 0
    BY <2>2, <2>3, NotPositive
  <2>5. ASSUME NEW p \in Pids, p # PidOf[t] PROVE TokenOk(p)'
    <3>1. \A u \in Lookers(p) : pc'[u] = pc[u] /\ at'[u] # "parked"
      BY <1>0, <2>1, <2>2, <2>5 DEF Lookers, SemBase, SemTypeOK, SemParked
    <3> QED BY <2>2, <3>1, TokenQuiet
  <2> QED BY <1>0, <2>4, <2>5, TokenOkNone DEF TokenInv
<1>2. ASSUME NEW t \in Threads, SemWait(t) \/ SemTimedWait(t) \/ OnceWait(t) PROVE TokenInv'
  <2>1. PICK s \in {"try", "timed try", "once look"} : SemSleeps(t, s)
    <3>1. Forever \in Timeouts
      BY DEF Timeouts
    <3>2. CASE SemWait(t)
      BY <3>1, <3>2 DEF SemWait, SemExpected, SemSleeps, At
    <3>3. CASE SemTimedWait(t)
      BY <3>3 DEF SemTimedWait, SemExpected, SemSleeps, At
    <3>4. CASE OnceWait(t)
      BY <3>1, <3>4 DEF OnceWait, SemSleeps, At
    <3> QED BY <1>2, <3>2, <3>3, <3>4
  <2>2. s \in SemSteps
    BY DEF SemSteps
  <2> QED BY <1>0, <2>1, <2>2, SemSleepTokens
<1>3. ASSUME NEW t \in Threads,
             \/ SemGivesUp(t) \/ OnceBegin(t) \/ OnceReturns(t) \/ OnceLooks(t)
             \/ OnceFinish(t) \/ OnceLeaves(t)
      PROVE  TokenInv'
  <2>1. PICK s \in {"idle", "once init", "once done", "once wait", "once wake"} : Goto(t, s)
    BY <1>3 DEF SemGivesUp, OnceBegin, OnceReturns, OnceLooks, OnceFinish, OnceLeaves
  <2>2. /\ at' = at /\ futex_addr' = futex_addr
        /\ pc[t] \in {"timed wait", "idle", "once look", "once init", "once done"}
    BY <1>3 DEF SemGivesUp, OnceBegin, OnceReturns, OnceLooks, OnceFinish, OnceLeaves, At,
       vars, kernelVars, parkVars
  <2>3. \A p \in Pids : mem'[p][S] = mem[p][S]
    <3>1. CASE mem' = mem
      BY <3>1
    <3>2. ASSUME NEW w, SetWord(t, O, w) PROVE \A p \in Pids : mem'[p][S] = mem[p][S]
      BY <1>0, <3>2 DEF SetWord
    <3> QED BY <1>3, <3>1, <3>2 DEF SemGivesUp, OnceBegin, OnceReturns, OnceLooks, OnceFinish,
            OnceLeaves, vars
  <2> QED BY <1>0, <2>1, <2>2, <2>3, TokenQuietStep
<1>4. ASSUME NEW t \in Threads, OnceWake(t) PROVE TokenInv'
  <2>1. /\ Goto(t, "once done") /\ pc[t] = "once wake" /\ mem' = mem /\ futex_addr' = futex_addr
        /\ \A u \in Threads : at'[u] = "parked" => at[u] = "parked"
    BY <1>4 DEF OnceWake, FutexWake, Release, At
  <2> QED BY <1>0, <2>1, TokenQuietStep
<1>5. CASE KernelSteps /\ UNCHANGED runs
  <2>1. /\ UNCHANGED <<mem, pc>>
        /\ \A t \in Threads : at'[t] = "parked" => at[t] = "parked" /\ futex_addr'[t] = futex_addr[t]
    BY <1>0, <1>5, SemKernelKeeps
  <2>2. ASSUME NEW p \in Pids PROVE TokenOk(p)'
    <3>1. \A u \in Lookers(p) : pc'[u] = pc[u] /\ at'[u] # "parked"
      BY <1>0, <2>1 DEF Lookers, SemBase, SemParked
    <3> QED BY <2>1, <3>1, TokenQuiet
  <2> QED BY <1>0, <2>2 DEF TokenInv
<1>6. CASE UNCHANGED semVars
  <2>1. UNCHANGED <<mem, pc, at, futex_addr>>
    BY <1>6 DEF semVars, vars, kernelVars, parkVars
  <2> QED BY <1>0, <2>1 DEF TokenInv, TokenOk, Sleeping, Lookers
<1> QED BY <1>0, <1>1, <1>2, <1>3, <1>4, <1>5, <1>6, TakeTokenKeeps, SemPostKeeps, SemPostWakeKeeps
        DEF SemNext

\* While a thread sleeps on the semaphore, for every token a thread is on its
\* way to it: no post is lost between a failed try and the park, and a timed
\* waiter that gives up takes no wakeup along, as long as no other process's
\* word at the same address is in the same bucket.
THEOREM SemLosesNoToken ==
    ASSUME DistinctBuckets
    PROVE  SemSpec => []NoIdleToken
<1>1. SemInit => TokenInv
  <2> SUFFICES ASSUME SemInit PROVE TokenInv
    OBVIOUS
  <2>1. at = [t \in Threads |-> "user"]
    BY DEF SemInit, ThreadsInit, KernelInit
  <2> QED BY <2>1, OnceInvAtStart DEF TokenInv, TokenOk, Sleeping
<1>2. TokenInv /\ [SemNext]_semVars => TokenInv'
  BY TokenInvKept
<1>3. TokenInv => NoIdleToken
  <2> SUFFICES ASSUME TokenInv, NEW t \in Threads, Parked(t, S) # {}
               PROVE  Word(t, S) <= Cardinality(WillLook(t))
    BY DEF NoIdleToken
  <2>1. Sleeping(PidOf[t]) /\ Lookers(PidOf[t]) = WillLook(t) /\ PidOf[t] \in Pids
    BY FutexAssumption DEF Sleeping, Parked, Lookers, WillLook
  <2> QED BY <2>1 DEF TokenInv, TokenOk, Word
<1> QED BY <1>1, <1>2, <1>3, PTL DEF SemSpec

-----------------------------------------------------------------------------
(* The reader/writer lock.                                                 *)

RwSteps == {"idle", "read", "read wait", "write", "write wait", "reset", "wake all"}

RwTypeOK ==
    /\ mem \in [Pids -> [Addrs -> Nat]]
    /\ pc \in [Threads -> RwSteps]
    /\ mode \in [Threads -> {"none", "read", "write"}]
    /\ v \in [Threads -> Nat]

RwBase == KernelInv /\ RwTypeOK

Mine(p) == {t \in Threads : PidOf[t] = p}
Rd(p)   == {t \in Mine(p) : mode[t] = "read"}
Wr(p)   == {t \in Mine(p) : mode[t] = "write"}

\* The word is the number of readers, the bit of a writer inside and the bit of
\* a writer that waits.
Shape(p) ==
    mem[p][L] = Cardinality(Rd(p)) + (IF Wr(p) = {} THEN 0 ELSE RW_WRITER)
                  + (IF WriterWaiting(mem[p][L]) THEN RW_WAITING ELSE 0)

Alone(p) == \A t \in Wr(p) : Rd(p) = {} /\ Wr(p) = {t}

\* The waiting bit is alone in the word exactly while one thread, the last reader
\* out, is about to reset it.
Resets(p) ==
    /\ \A t \in Mine(p) : pc[t] = "reset" => mem[p][L] = RW_WAITING
    /\ mem[p][L] = RW_WAITING => \E t \in Mine(p) : pc[t] = "reset"
    /\ \A t, u \in Mine(p) : pc[t] = "reset" /\ pc[u] = "reset" => t = u

\* A thread that holds the lock is in no call; one that parks has seen a word
\* that keeps it out; the parked go on to another try.
Places(p) ==
    \A t \in Mine(p) :
        /\ mode[t] # "none" => pc[t] = "idle"
        /\ pc[t] = "read wait" => ~MayRead(v[t])
        /\ pc[t] = "write wait" => WriterWaiting(v[t])
        /\ at[t] = "parked" => futex_addr[t] = L /\ pc[t] \in {"read", "write"}

\* ParkedWillWake for one process.
Sleepers(p) ==
    (\E t \in Mine(p) : at[t] = "parked") =>
        \E u \in Mine(p) :
            \/ mode[u] = "write"
            \/ mode[u] = "read" /\ WriterWaiting(mem[p][L])
            \/ pc[u] \in {"reset", "wake all"}

RwOk(p) == Shape(p) /\ Alone(p) /\ Resets(p) /\ Places(p) /\ Sleepers(p)

RwInv == RwBase /\ \A p \in Pids : RwOk(p)

\* Reading a word apart.
LEMMA Decode ==
    ASSUME NEW W \in Nat, W > 0, NEW r \in Nat, r < W, NEW k \in {0, 1, 2, 3}, NEW w \in Nat,
           w = r + k * W
    PROVE  w % W = r /\ w \div W = k
OBVIOUS

LEMMA ReadersFinite ==
    ASSUME NEW p
    PROVE  /\ IsFiniteSet(Rd(p)) /\ Cardinality(Rd(p)) \in Nat
           /\ Cardinality(Rd(p)) < RW_WRITER
<1>1. Rd(p) \subseteq Threads
  BY DEF Rd, Mine
<1>2. IsFiniteSet(Rd(p)) /\ Cardinality(Rd(p)) <= Cardinality(Threads)
  BY <1>1, FutexAssumption, FS_Subset
<1>3. Cardinality(Rd(p)) \in Nat /\ Cardinality(Threads) \in Nat
  BY <1>2, FutexAssumption, FS_CardinalityType
<1> QED BY <1>2, <1>3, UserRwlockAssumption

LEMMA ReadersFiniteNext ==
    ASSUME NEW p
    PROVE  /\ IsFiniteSet(Rd(p)') /\ Cardinality(Rd(p)') \in Nat
           /\ Cardinality(Rd(p)') < RW_WRITER
<1>1. Rd(p)' \subseteq Threads
  BY DEF Rd, Mine
<1>2. IsFiniteSet(Rd(p)') /\ Cardinality(Rd(p)') <= Cardinality(Threads)
  BY <1>1, FutexAssumption, FS_Subset
<1>3. Cardinality(Rd(p)') \in Nat /\ Cardinality(Threads) \in Nat
  BY <1>2, FutexAssumption, FS_CardinalityType
<1> QED BY <1>2, <1>3, UserRwlockAssumption

LEMMA WriterBits == RW_WRITER \in Nat /\ RW_WRITER > 0 /\ RW_WAITING = RW_WRITER + RW_WRITER
<1>1. Cardinality(Threads) \in Nat
  BY FutexAssumption, FS_CardinalityType
<1> QED BY <1>1, UserRwlockAssumption DEF RW_WAITING

\* What the three parts of the word say.
LEMMA ShapeSays ==
    ASSUME NEW p, Shape(p), mem[p][L] \in Nat
    PROVE  /\ Readers(mem[p][L]) = Cardinality(Rd(p))
           /\ WriterHolds(mem[p][L]) <=> Wr(p) # {}
<1> DEFINE r == Cardinality(Rd(p))
           w == mem[p][L]
           W == RW_WRITER
<1>1. W \in Nat /\ W > 0 /\ RW_WAITING = W + W /\ r \in Nat /\ r < W /\ w \in Nat
  BY WriterBits, ReadersFinite
<1>2. w = r + (IF Wr(p) = {} THEN 0 ELSE W) + (IF WriterWaiting(w) THEN RW_WAITING ELSE 0)
  BY DEF Shape
<1>3. PICK k \in {0, 1, 2, 3} : w = r + k * W /\ (k \in {1, 3} <=> Wr(p) # {})
  <2>1. CASE Wr(p) = {} /\ ~WriterWaiting(w)
    BY <1>1, <1>2, <2>1
  <2>2. CASE Wr(p) # {} /\ ~WriterWaiting(w)
    BY <1>1, <1>2, <2>2
  <2>3. CASE Wr(p) = {} /\ WriterWaiting(w)
    BY <1>1, <1>2, <2>3
  <2>4. CASE Wr(p) # {} /\ WriterWaiting(w)
    BY <1>1, <1>2, <2>4
  <2> QED BY <2>1, <2>2, <2>3, <2>4
<1> HIDE DEF r, w, W
<1>4. w % W = r /\ w \div W = k
  BY <1>1, <1>3, Decode
<1>5. k % 2 = 1 <=> k \in {1, 3}
  OBVIOUS
<1> QED BY <1>3, <1>4, <1>5 DEF r, w, W, Readers, WriterHolds

LEMMA ShapeZero ==
    ASSUME NEW p, Shape(p), mem[p][L] = 0 \/ mem[p][L] = RW_WAITING, mem[p][L] \in Nat
    PROVE  Rd(p) = {} /\ Wr(p) = {}
<1> DEFINE r == Cardinality(Rd(p))
           w == mem[p][L]
           W == RW_WRITER
<1>1. W \in Nat /\ W > 0 /\ RW_WAITING = W + W /\ r \in Nat /\ r < W /\ w \in Nat
  BY WriterBits, ReadersFinite
<1>2. w = r + (IF Wr(p) = {} THEN 0 ELSE W) + (IF WriterWaiting(w) THEN RW_WAITING ELSE 0)
  BY DEF Shape
<1>3. w = 0 \/ w = RW_WAITING
  OBVIOUS
<1> HIDE DEF r, w, W
<1>4. r = 0 /\ Wr(p) = {}
  BY <1>1, <1>2, <1>3 DEF WriterWaiting
<1>5. Rd(p) = {}
  BY <1>4, ReadersFinite, FS_EmptySet DEF r
<1> QED BY <1>4, <1>5

LEMMA ShapeFree ==
    ASSUME NEW p, Shape(p), MayRead(mem[p][L]), mem[p][L] \in Nat
    PROVE  Wr(p) = {} /\ mem[p][L] = Cardinality(Rd(p)) /\ mem[p][L] < RW_WRITER
<1>1. Wr(p) = {}
  BY ShapeSays DEF MayRead
<1>2. mem[p][L] = Cardinality(Rd(p)) + 0 + 0
  BY <1>1 DEF Shape, MayRead
<1>3. Cardinality(Rd(p)) \in Nat /\ Cardinality(Rd(p)) < RW_WRITER
  BY ReadersFinite
<1> QED BY <1>1, <1>2, <1>3

\* A process none of whose threads takes a step or falls asleep.
LEMMA RwOthers ==
    ASSUME NEW p \in Pids, RwOk(p), mem'[p][L] = mem[p][L],
           \A u \in Mine(p) : pc'[u] = pc[u] /\ mode'[u] = mode[u] /\ v'[u] = v[u],
           \A u \in Mine(p) : at'[u] = "parked" => at[u] = "parked" /\ futex_addr'[u] = futex_addr[u]
    PROVE  RwOk(p)'
<1> USE DEF RwOk
<1>0. Mine(p)' = Mine(p) /\ Rd(p)' = Rd(p) /\ Wr(p)' = Wr(p)
  BY DEF Mine, Rd, Wr
<1>1. Shape(p)'
  BY <1>0 DEF Shape, WriterWaiting
<1>2. Alone(p)'
  BY <1>0 DEF Alone
<1>3. Resets(p)'
  BY <1>0 DEF Resets
<1>4. Places(p)'
  BY <1>0 DEF Places, MayRead, WriterHolds, WriterWaiting
<1>5. Sleepers(p)'
  BY <1>0 DEF Sleepers, WriterWaiting
<1> QED BY <1>1, <1>2, <1>3, <1>4, <1>5

\* A step of thread t that touches no queue.
RwMoves(t, s) ==
    /\ at[t] = "user"
    /\ Goto(t, s)
    /\ UNCHANGED parkVars
    /\ ret' \in [Threads -> Results]

\* It is enough to look at the process of the thread that takes the step.
LEMMA RwOwn ==
    ASSUME RwInv, NEW t \in Threads, NEW s \in RwSteps, RwMoves(t, s),
           NEW w \in Nat, SetWord(t, L, w),
           NEW h \in {"none", "read", "write"}, mode' = [mode EXCEPT ![t] = h],
           NEW x \in Nat, v' = [v EXCEPT ![t] = x],
           RwOk(PidOf[t])'
    PROVE  RwInv'
<1>0. PidOf \in [Threads -> Pids] /\ L \in Addrs /\ RwTypeOK
  BY FutexAssumption, UserRwlockAssumption DEF RwInv, RwBase
<1>1. KernelInv'
  BY UntouchedKeeps DEF RwMoves, RwInv, RwBase
<1>2. /\ pc' = [pc EXCEPT ![t] = s] /\ at' = at /\ futex_addr' = futex_addr
      /\ mem' \in [Pids -> [Addrs -> Nat]]
      /\ \A p \in Pids, b \in Addrs :
            mem'[p][b] = IF p = PidOf[t] /\ b = L THEN w ELSE mem[p][b]
  BY <1>0, WordIsSet DEF RwMoves, Goto, parkVars, RwTypeOK
<1>3. RwTypeOK'
  BY <1>0, <1>2 DEF RwTypeOK
<1>4. ASSUME NEW p \in Pids, p # PidOf[t] PROVE RwOk(p)'
  <2>1. RwOk(p) /\ mem'[p][L] = mem[p][L]
    BY <1>0, <1>2, <1>4 DEF RwInv
  <2>2. \A u \in Mine(p) : u \in Threads /\ u # t
    BY <1>4 DEF Mine
  <2>3. \A u \in Mine(p) : pc'[u] = pc[u] /\ mode'[u] = mode[u] /\ v'[u] = v[u]
    BY <1>0, <1>2, <2>2 DEF RwTypeOK
  <2> QED BY <1>2, <2>1, <2>3, RwOthers
<1> QED BY <1>1, <1>3, <1>4 DEF RwInv, RwBase

LEMMA ReadLockKeeps ==
    ASSUME RwInv, NEW t \in Threads, mode[t] = "none", ReadLock(t) PROVE RwInv'
<1> DEFINE p == PidOf[t]
           w == mem[p][L]
<1>0. /\ PidOf \in [Threads -> Pids] /\ L \in Addrs /\ RwTypeOK /\ p \in Pids /\ t \in Mine(p)
      /\ RwOk(p) /\ ret \in [Threads -> Results] /\ w \in Nat
  BY FutexAssumption, UserRwlockAssumption DEF RwInv, RwBase, KernelInv, KernelTypeOK, RwTypeOK, Mine
<1>1. /\ RwMoves(t, "idle") /\ SetWord(t, L, w + 1) /\ mode' = [mode EXCEPT ![t] = "read"] /\ v' = v
      /\ MayRead(w) /\ pc[t] \in {"idle", "read"} /\ pc' = [pc EXCEPT ![t] = "idle"]
      /\ at' = at /\ futex_addr' = futex_addr
  BY <1>0 DEF ReadLock, RwMoves, Discard, Results, SetState, State, Word, At, Goto, parkVars, Holds
<1>2. w + 1 \in Nat /\ Wr(p) = {} /\ w = Cardinality(Rd(p)) /\ w < RW_WRITER
  BY <1>0, <1>1, ShapeFree DEF RwOk
<1>3. mem'[p][L] = w + 1
  BY <1>0, <1>1 DEF SetWord, RwTypeOK
<1>4. Mine(p)' = Mine(p) /\ Rd(p)' = Rd(p) \cup {t} /\ Wr(p)' = {} /\ t \notin Rd(p)
  BY <1>0, <1>1, <1>2 DEF Mine, Rd, Wr, RwTypeOK
<1>5. Cardinality(Rd(p)') = w + 1 /\ w + 1 < RW_WRITER
  <2>1. Cardinality(Rd(p) \cup {t}) = Cardinality(Rd(p)) + 1
    BY <1>4, ReadersFinite, FS_AddElement
  <2>2. Cardinality(Rd(p)') < RW_WRITER
    BY ReadersFiniteNext
  <2> QED BY <1>2, <1>4, <2>1, <2>2
<1>6. RW_WRITER \in Nat /\ RW_WAITING = RW_WRITER + RW_WRITER
  BY WriterBits
<1> HIDE DEF w
<1>7. ~(w + 1 >= RW_WAITING) /\ w + 1 # RW_WAITING /\ ~(w >= RW_WAITING) /\ w # RW_WAITING
  BY <1>0, <1>2, <1>5, <1>6
<1>8. Shape(p)'
  <2>1. w + 1 = (w + 1) + 0 + 0
    BY <1>2
  <2> QED BY <1>3, <1>4, <1>5, <1>7, <2>1 DEF Shape, WriterWaiting
<1>9. Alone(p)' /\ Resets(p)'
  BY <1>0, <1>1, <1>3, <1>4, <1>7 DEF Alone, Resets, RwOk, RwTypeOK, w
<1>10. Places(p)'
  BY <1>0, <1>1, <1>4 DEF Places, RwOk, RwTypeOK, MayRead, WriterHolds, WriterWaiting, Mine, RwMoves
<1>11. Sleepers(p)'
  BY <1>0, <1>1, <1>2, <1>4, <1>7 DEF Sleepers, RwOk, RwTypeOK, WriterWaiting, Wr, Mine, w
<1>12. RwOk(p)'
  BY <1>8, <1>9, <1>10, <1>11 DEF RwOk
<1>13. v' = [v EXCEPT ![t] = v[t]] /\ v[t] \in Nat /\ "idle" \in RwSteps
  BY <1>0, <1>1 DEF RwTypeOK, RwSteps
<1> QED BY <1>1, <1>2, <1>12, <1>13, RwOwn

LEMMA WriteLockKeeps ==
    ASSUME RwInv, NEW t \in Threads, mode[t] = "none", WriteLock(t) PROVE RwInv'
<1> DEFINE p == PidOf[t]
           w == mem[p][L]
<1>0. /\ PidOf \in [Threads -> Pids] /\ L \in Addrs /\ RwTypeOK /\ p \in Pids /\ t \in Mine(p)
      /\ RwOk(p) /\ ret \in [Threads -> Results] /\ w \in Nat
  BY FutexAssumption, UserRwlockAssumption DEF RwInv, RwBase, KernelInv, KernelTypeOK, RwTypeOK, Mine
<1>1. /\ RwMoves(t, "idle") /\ SetWord(t, L, RW_WRITER) /\ mode' = [mode EXCEPT ![t] = "write"] /\ v' = v
      /\ w = 0 /\ pc[t] \in {"idle", "write"} /\ pc' = [pc EXCEPT ![t] = "idle"]
      /\ at' = at /\ futex_addr' = futex_addr
  BY <1>0 DEF WriteLock, RwMoves, Discard, Results, SetState, State, Word, At, Goto, parkVars, Holds
<1>2. Rd(p) = {} /\ Wr(p) = {}
  BY <1>0, <1>1, ShapeZero DEF RwOk
<1>3. mem'[p][L] = RW_WRITER
  BY <1>0, <1>1 DEF SetWord, RwTypeOK
<1>4. Mine(p)' = Mine(p) /\ Rd(p)' = {} /\ Wr(p)' = {t}
  BY <1>0, <1>1, <1>2 DEF Mine, Rd, Wr, RwTypeOK
<1>5. Cardinality(Rd(p)') = 0
  BY <1>4, FS_EmptySet
<1>6. RW_WRITER \in Nat /\ RW_WRITER > 0 /\ RW_WAITING = RW_WRITER + RW_WRITER
  BY WriterBits
<1> HIDE DEF w
<1>7. ~(RW_WRITER >= RW_WAITING) /\ RW_WRITER # RW_WAITING /\ w # RW_WAITING /\ ~(w >= RW_WAITING)
  BY <1>1, <1>6
<1>8. Shape(p)'
  <2>1. RW_WRITER = 0 + RW_WRITER + 0
    BY <1>6
  <2> QED BY <1>3, <1>4, <1>5, <1>7, <2>1 DEF Shape, WriterWaiting
<1>9. Alone(p)' /\ Resets(p)'
  BY <1>0, <1>1, <1>3, <1>4, <1>7 DEF Alone, Resets, RwOk, RwTypeOK, w
<1>10. Places(p)'
  BY <1>0, <1>1, <1>4 DEF Places, RwOk, RwTypeOK, MayRead, WriterHolds, WriterWaiting, Mine, RwMoves
<1>11. Sleepers(p)'
  BY <1>0, <1>1, <1>4 DEF Sleepers, RwTypeOK
<1>12. RwOk(p)'
  BY <1>8, <1>9, <1>10, <1>11 DEF RwOk
<1>13. v' = [v EXCEPT ![t] = v[t]] /\ v[t] \in Nat /\ "idle" \in RwSteps
  BY <1>0, <1>1 DEF RwTypeOK, RwSteps
<1> QED BY <1>1, <1>6, <1>12, <1>13, RwOwn

LEMMA ReadLockWaitsKeeps ==
    ASSUME RwInv, NEW t \in Threads, ReadLockWaits(t) PROVE RwInv'
<1> DEFINE p == PidOf[t]
           w == mem[p][L]
<1>0. /\ PidOf \in [Threads -> Pids] /\ L \in Addrs /\ RwTypeOK /\ p \in Pids /\ t \in Mine(p)
      /\ RwOk(p) /\ ret \in [Threads -> Results] /\ w \in Nat
  BY FutexAssumption, UserRwlockAssumption DEF RwInv, RwBase, KernelInv, KernelTypeOK, RwTypeOK, Mine
<1>1. /\ RwMoves(t, "read wait") /\ mem' = mem /\ mode' = mode /\ v' = [v EXCEPT ![t] = w]
      /\ ~MayRead(w) /\ pc[t] \in {"idle", "read"} /\ pc' = [pc EXCEPT ![t] = "read wait"]
      /\ at' = at /\ futex_addr' = futex_addr /\ mode[t] = "none"
  BY <1>0 DEF ReadLockWaits, RwMoves, Discard, Results, State, Word, At, Goto, parkVars
<1>2. Mine(p)' = Mine(p) /\ Rd(p)' = Rd(p) /\ Wr(p)' = Wr(p)
  BY <1>1 DEF Mine, Rd, Wr
<1>3. Shape(p)' /\ Alone(p)'
  BY <1>0, <1>1, <1>2 DEF Shape, Alone, WriterWaiting, RwOk
<1>4. Resets(p)'
  BY <1>0, <1>1, <1>2 DEF Resets, RwOk, RwTypeOK, Mine
<1>5. Places(p)'
  <2>1. v'[t] = w /\ \A u \in Mine(p) : u # t => v'[u] = v[u] /\ pc'[u] = pc[u]
    BY <1>0, <1>1 DEF RwTypeOK, Mine
  <2>2. ~MayRead(v[t])'
    BY <1>1, <2>1 DEF MayRead, WriterHolds, WriterWaiting
  <2>3. \A u \in Mine(p) : u # t => MayRead(v[u])' = MayRead(v[u])
                                    /\ WriterWaiting(v[u])' = WriterWaiting(v[u])
    BY <2>1 DEF MayRead, WriterHolds, WriterWaiting
  <2>4. pc'[t] = "read wait" /\ at[t] = "user"
    BY <1>0, <1>1 DEF RwTypeOK, RwMoves
  <2> QED BY <1>0, <1>1, <1>2, <2>1, <2>2, <2>3, <2>4 DEF Places, RwOk
<1>6. Sleepers(p)'
  BY <1>0, <1>1, <1>2 DEF Sleepers, RwOk, RwTypeOK, WriterWaiting, Mine
<1>7. RwOk(p)'
  BY <1>3, <1>4, <1>5, <1>6 DEF RwOk
<1>8. /\ SetWord(t, L, w) /\ "read wait" \in RwSteps
      /\ mode' = [mode EXCEPT ![t] = "none"]
  BY <1>0, <1>1 DEF SetWord, RwTypeOK, RwSteps
<1> QED BY <1>0, <1>1, <1>7, <1>8, RwOwn

LEMMA WriteLockWaitsKeeps ==
    ASSUME RwInv, NEW t \in Threads, WriteLockWaits(t) PROVE RwInv'
<1> DEFINE p == PidOf[t]
           w == mem[p][L]
           n == Announce(w)
<1>0. /\ PidOf \in [Threads -> Pids] /\ L \in Addrs /\ RwTypeOK /\ p \in Pids /\ t \in Mine(p)
      /\ RwOk(p) /\ ret \in [Threads -> Results] /\ w \in Nat
  BY FutexAssumption, UserRwlockAssumption DEF RwInv, RwBase, KernelInv, KernelTypeOK, RwTypeOK, Mine
<1>1. /\ RwMoves(t, "write wait") /\ SetWord(t, L, n) /\ mode' = mode /\ v' = [v EXCEPT ![t] = n]
      /\ w # 0 /\ pc[t] \in {"idle", "write"} /\ pc' = [pc EXCEPT ![t] = "write wait"]
      /\ at' = at /\ futex_addr' = futex_addr /\ mode[t] = "none"
  BY <1>0 DEF WriteLockWaits, RwMoves, Discard, Results, SetState, State, Word, At, Goto, parkVars
<1>2. Mine(p)' = Mine(p) /\ Rd(p)' = Rd(p) /\ Wr(p)' = Wr(p)
  BY <1>1 DEF Mine, Rd, Wr
<1>3. RW_WRITER \in Nat /\ RW_WRITER > 0 /\ RW_WAITING = RW_WRITER + RW_WRITER
  BY WriterBits
<1>4. /\ n \in Nat /\ n >= RW_WAITING /\ (n = RW_WAITING <=> w = RW_WAITING)
      /\ n = IF w >= RW_WAITING THEN w ELSE w + RW_WAITING
  <2>1. n = IF w >= RW_WAITING THEN w ELSE w + RW_WAITING
    BY DEF Announce, WriterWaiting
  <2>2. w \in Nat /\ w # 0
    BY <1>0, <1>1
  <2>3. RW_WAITING \in Nat
    BY <1>3
  <2> HIDE DEF w, n
  <2> QED BY <2>1, <2>2, <2>3
<1>5. mem'[p][L] = n
  BY <1>0, <1>1 DEF SetWord, RwTypeOK
<1>6. w = Cardinality(Rd(p)) + (IF Wr(p) = {} THEN 0 ELSE RW_WRITER)
             + (IF w >= RW_WAITING THEN RW_WAITING ELSE 0)
  BY <1>0 DEF RwOk, Shape, WriterWaiting
<1> HIDE DEF w, n
<1>7. Shape(p)'
  <2>1. Cardinality(Rd(p)) \in Nat
    BY ReadersFinite
  <2>2. n = Cardinality(Rd(p)) + (IF Wr(p) = {} THEN 0 ELSE RW_WRITER) + RW_WAITING
    BY <1>0, <1>3, <1>4, <1>6, <2>1
  <2> QED BY <1>2, <1>4, <1>5, <2>2 DEF Shape, WriterWaiting
<1>8. Alone(p)'
  BY <1>0, <1>2 DEF Alone, RwOk
<1>9. Resets(p)'
  BY <1>0, <1>1, <1>2, <1>4, <1>5 DEF Resets, RwOk, RwTypeOK, Mine, w
<1>10. Places(p)'
  <2>1. v'[t] = n /\ \A u \in Mine(p) : u # t => v'[u] = v[u] /\ pc'[u] = pc[u]
    BY <1>0, <1>1 DEF RwTypeOK, Mine
  <2>2. WriterWaiting(v[t])'
    BY <1>4, <2>1 DEF WriterWaiting
  <2>3. \A u \in Mine(p) : u # t => MayRead(v[u])' = MayRead(v[u])
                                    /\ WriterWaiting(v[u])' = WriterWaiting(v[u])
    BY <2>1 DEF MayRead, WriterHolds, WriterWaiting
  <2>4. pc'[t] = "write wait" /\ at[t] = "user"
    BY <1>0, <1>1 DEF RwTypeOK, RwMoves
  <2> QED BY <1>0, <1>1, <1>2, <2>1, <2>2, <2>3, <2>4 DEF Places, RwOk
<1>11. Sleepers(p)'
  BY <1>0, <1>1, <1>2, <1>4, <1>5 DEF Sleepers, RwOk, RwTypeOK, WriterWaiting, Mine
<1>12. RwOk(p)'
  BY <1>7, <1>8, <1>9, <1>10, <1>11 DEF RwOk
<1>13. "write wait" \in RwSteps /\ mode' = [mode EXCEPT ![t] = "none"]
  BY <1>0, <1>1 DEF RwTypeOK, RwSteps
<1> QED BY <1>1, <1>4, <1>12, <1>13, RwOwn

LEMMA WriteUnlockKeeps ==
    ASSUME RwInv, NEW t \in Threads, WriteUnlock(t) PROVE RwInv'
<1> DEFINE p == PidOf[t]
           w == mem[p][L]
<1>0. /\ PidOf \in [Threads -> Pids] /\ L \in Addrs /\ RwTypeOK /\ p \in Pids /\ t \in Mine(p)
      /\ RwOk(p) /\ ret \in [Threads -> Results] /\ w \in Nat
  BY FutexAssumption, UserRwlockAssumption DEF RwInv, RwBase, KernelInv, KernelTypeOK, RwTypeOK, Mine
<1>1. /\ RwMoves(t, "wake all") /\ SetWord(t, L, 0) /\ mode' = [mode EXCEPT ![t] = "none"] /\ v' = v
      /\ pc[t] = "idle" /\ pc' = [pc EXCEPT ![t] = "wake all"]
      /\ at' = at /\ futex_addr' = futex_addr /\ mode[t] = "write"
  BY <1>0 DEF WriteUnlock, RwMoves, SetState, State, Word, At, Goto, parkVars, kernelVars, Holds
<1>2. Rd(p) = {} /\ Wr(p) = {t}
  BY <1>0, <1>1 DEF RwOk, Alone, Wr
<1>3. mem'[p][L] = 0
  BY <1>0, <1>1 DEF SetWord, RwTypeOK
<1>4. Mine(p)' = Mine(p) /\ Rd(p)' = {} /\ Wr(p)' = {}
  BY <1>0, <1>1, <1>2 DEF Mine, Rd, Wr, RwTypeOK
<1>5. RW_WRITER \in Nat /\ RW_WRITER > 0 /\ RW_WAITING = RW_WRITER + RW_WRITER
  BY WriterBits
<1>6. ~(0 >= RW_WAITING) /\ 0 # RW_WAITING
  BY <1>5
<1>7. w # RW_WAITING
  BY <1>0, <1>2, ShapeZero DEF RwOk
<1>8. Shape(p)'
  <2>1. Cardinality(Rd(p)') = 0 /\ 0 = 0 + 0 + 0
    BY <1>4, FS_EmptySet
  <2> QED BY <1>3, <1>4, <1>6, <2>1 DEF Shape, WriterWaiting
<1> HIDE DEF w
<1>9. Alone(p)'
  BY <1>4 DEF Alone
<1>10. Resets(p)'
  <2>1. \A u \in Mine(p) : pc'[u] # "reset"
    BY <1>0, <1>1, <1>7 DEF Resets, RwOk, RwTypeOK, Mine, w
  <2>2. mem'[p][L] # RW_WAITING
    BY <1>3, <1>6
  <2> QED BY <1>4, <2>1, <2>2 DEF Resets
<1>11. Places(p)'
  BY <1>0, <1>1, <1>4 DEF Places, RwOk, RwTypeOK, MayRead, WriterHolds, WriterWaiting, Mine, RwMoves
<1>12. Sleepers(p)'
  BY <1>0, <1>1, <1>4 DEF Sleepers, RwTypeOK
<1>13. RwOk(p)'
  BY <1>8, <1>9, <1>10, <1>11, <1>12 DEF RwOk
<1>14. v' = [v EXCEPT ![t] = v[t]] /\ v[t] \in Nat /\ "wake all" \in RwSteps
  BY <1>0, <1>1 DEF RwTypeOK, RwSteps
<1>15. PICK z \in Nat : SetWord(t, L, z)
  BY <1>1
<1> QED BY <1>1, <1>13, <1>14, <1>15, RwOwn

LEMMA ReadUnlockKeeps ==
    ASSUME RwInv, NEW t \in Threads, ReadUnlock(t) PROVE RwInv'
<1> DEFINE p == PidOf[t]
           w == mem[p][L]
           r == Cardinality(Rd(p))
           s == IF LastOut(w) THEN "reset" ELSE "idle"
<1>0. /\ PidOf \in [Threads -> Pids] /\ L \in Addrs /\ RwTypeOK /\ p \in Pids /\ t \in Mine(p)
      /\ RwOk(p) /\ ret \in [Threads -> Results] /\ w \in Nat
  BY FutexAssumption, UserRwlockAssumption DEF RwInv, RwBase, KernelInv, KernelTypeOK, RwTypeOK, Mine
<1>1. /\ RwMoves(t, s) /\ SetWord(t, L, w - 1) /\ mode' = [mode EXCEPT ![t] = "none"] /\ v' = v
      /\ pc[t] = "idle" /\ pc' = [pc EXCEPT ![t] = s]
      /\ at' = at /\ futex_addr' = futex_addr /\ mode[t] = "read"
  BY <1>0 DEF ReadUnlock, RwMoves, SetState, State, Word, At, Goto, parkVars, kernelVars, Holds
<1>2. t \in Rd(p) /\ Wr(p) = {}
  BY <1>0, <1>1 DEF RwOk, Alone, Rd
<1>3. r \in Nat /\ r < RW_WRITER /\ r # 0
  BY <1>2, ReadersFinite, FS_EmptySet
<1>4. RW_WRITER \in Nat /\ RW_WRITER > 0 /\ RW_WAITING = RW_WRITER + RW_WRITER
  BY WriterBits
<1>5. w = r + 0 + (IF w >= RW_WAITING THEN RW_WAITING ELSE 0)
  BY <1>0, <1>2 DEF RwOk, Shape, WriterWaiting
<1>6. Readers(w) = r
  BY <1>0, ShapeSays DEF RwOk
<1>7. LastOut(w) <=> r = 1 /\ w >= RW_WAITING
  BY <1>6 DEF LastOut, WriterWaiting
<1> HIDE DEF w, r
<1>8. /\ w - 1 \in Nat /\ (w - 1 >= RW_WAITING <=> w >= RW_WAITING)
      /\ (w - 1 = RW_WAITING <=> r = 1 /\ w >= RW_WAITING) /\ w # RW_WAITING
      /\ w - 1 = (r - 1) + 0 + (IF w >= RW_WAITING THEN RW_WAITING ELSE 0)
  BY <1>0, <1>3, <1>4, <1>5
<1>9. mem'[p][L] = w - 1
  <2>1. PICK z \in Nat : z = w - 1 /\ SetWord(t, L, z)
    BY <1>1, <1>8
  <2>2. mem'[p][L] = z
    BY <1>0, <2>1 DEF SetWord, RwTypeOK
  <2> QED BY <2>1, <2>2
<1>10. Mine(p)' = Mine(p) /\ Rd(p)' = Rd(p) \ {t} /\ Wr(p)' = {}
  BY <1>0, <1>1, <1>2 DEF Mine, Rd, Wr, RwTypeOK
<1>11. Cardinality(Rd(p)') = r - 1
  BY <1>2, <1>10, ReadersFinite, FS_RemoveElement DEF r
<1>12. Shape(p)'
  BY <1>8, <1>9, <1>10, <1>11 DEF Shape, WriterWaiting
<1>13. Alone(p)'
  BY <1>10 DEF Alone
<1>14. pc'[t] = s /\ \A u \in Mine(p) : u # t => pc'[u] = pc[u]
  BY <1>0, <1>1 DEF RwTypeOK, Mine
<1>15. Resets(p)'
  <2>1. \A u \in Mine(p) : pc[u] # "reset"
    BY <1>0, <1>8 DEF RwOk, Resets, w
  <2>2. \A u \in Mine(p) : pc'[u] = "reset" <=> u = t /\ LastOut(w)
    BY <1>0, <1>14, <2>1
  <2>3. mem'[p][L] = RW_WAITING <=> LastOut(w)
    BY <1>7, <1>8, <1>9
  <2> QED BY <1>0, <1>10, <2>2, <2>3 DEF Resets
<1>16. Places(p)'
  BY <1>0, <1>1, <1>10 DEF Places, RwOk, RwTypeOK, MayRead, WriterHolds, WriterWaiting, Mine, RwMoves
<1>17. Sleepers(p)'
  <2> SUFFICES ASSUME NEW x \in Mine(p), at[x] = "parked"
               PROVE  \E u \in Mine(p) :
                         \/ mode'[u] = "write"
                         \/ mode'[u] = "read" /\ WriterWaiting(mem[p][L])'
                         \/ pc'[u] \in {"reset", "wake all"}
    BY <1>1, <1>10 DEF Sleepers
  <2>1. PICK u \in Mine(p) : \/ mode[u] = "write"
                             \/ mode[u] = "read" /\ WriterWaiting(w)
                             \/ pc[u] \in {"reset", "wake all"}
    BY <1>0 DEF RwOk, Sleepers, w
  <2>2. CASE pc[u] \in {"reset", "wake all"}
    BY <1>1, <1>14, <2>2
  <2>3. CASE mode[u] = "write"
    BY <1>2, <2>3 DEF Wr
  <2>4. CASE WriterWaiting(w)
    <3>1. w >= RW_WAITING /\ WriterWaiting(mem[p][L])'
      BY <1>8, <1>9, <2>4 DEF WriterWaiting
    <3>2. CASE r = 1
      BY <1>0, <1>7, <1>14, <3>1, <3>2
    <3>3. CASE r # 1
      <4>1. Cardinality(Rd(p)') # 0
        BY <1>3, <1>11, <3>3
      <4>2. Rd(p)' # {}
        BY <4>1, FS_EmptySet
      <4>3. PICK y \in Rd(p)' : TRUE
        BY <4>2
      <4>4. y \in Mine(p) /\ mode'[y] = "read"
        BY <1>10, <4>3 DEF Rd
      <4> QED BY <3>1, <4>4
    <3> QED BY <3>2, <3>3
  <2> QED BY <2>1, <2>2, <2>3, <2>4
<1>18. RwOk(p)'
  BY <1>12, <1>13, <1>15, <1>16, <1>17 DEF RwOk
<1>19. v' = [v EXCEPT ![t] = v[t]] /\ v[t] \in Nat /\ s \in RwSteps
  BY <1>0, <1>1 DEF RwTypeOK, RwSteps
<1> HIDE DEF s
<1> QED BY <1>1, <1>8, <1>18, <1>19, RwOwn

LEMMA ResetWordKeeps ==
    ASSUME RwInv, NEW t \in Threads, ResetWord(t) PROVE RwInv'
<1> DEFINE p == PidOf[t]
           w == mem[p][L]
<1>0. /\ PidOf \in [Threads -> Pids] /\ L \in Addrs /\ RwTypeOK /\ p \in Pids /\ t \in Mine(p)
      /\ RwOk(p) /\ ret \in [Threads -> Results] /\ w \in Nat
  BY FutexAssumption, UserRwlockAssumption DEF RwInv, RwBase, KernelInv, KernelTypeOK, RwTypeOK, Mine
<1>1. /\ RwMoves(t, "wake all") /\ SetWord(t, L, 0) /\ mode' = mode /\ v' = v
      /\ pc[t] = "reset" /\ pc' = [pc EXCEPT ![t] = "wake all"]
      /\ at' = at /\ futex_addr' = futex_addr
  BY <1>0 DEF ResetWord, RwMoves, SetState, State, Word, At, Goto, parkVars, kernelVars
<1>2. w = RW_WAITING /\ mode[t] = "none"
  BY <1>0, <1>1 DEF RwOk, Resets, Places, RwTypeOK
<1>3. Rd(p) = {} /\ Wr(p) = {}
  BY <1>0, <1>2, ShapeZero DEF RwOk
<1>4. mem'[p][L] = 0
  BY <1>0, <1>1 DEF SetWord, RwTypeOK
<1>5. Mine(p)' = Mine(p) /\ Rd(p)' = {} /\ Wr(p)' = {}
  BY <1>1, <1>3 DEF Mine, Rd, Wr
<1>6. RW_WRITER \in Nat /\ RW_WRITER > 0 /\ RW_WAITING = RW_WRITER + RW_WRITER
  BY WriterBits
<1>7. ~(0 >= RW_WAITING) /\ 0 # RW_WAITING
  BY <1>6
<1>8. Shape(p)'
  <2>1. Cardinality(Rd(p)') = 0 /\ 0 = 0 + 0 + 0
    BY <1>5, FS_EmptySet
  <2> QED BY <1>4, <1>5, <1>7, <2>1 DEF Shape, WriterWaiting
<1> HIDE DEF w
<1>9. Alone(p)'
  BY <1>5 DEF Alone
<1>10. Resets(p)'
  <2>1. \A u \in Mine(p) : pc'[u] # "reset"
    BY <1>0, <1>1 DEF Resets, RwOk, RwTypeOK, Mine
  <2>2. mem'[p][L] # RW_WAITING
    BY <1>4, <1>7
  <2> QED BY <1>5, <2>1, <2>2 DEF Resets
<1>11. Places(p)'
  BY <1>0, <1>1, <1>2, <1>5 DEF Places, RwOk, RwTypeOK, MayRead, WriterHolds, WriterWaiting, Mine, RwMoves
<1>12. Sleepers(p)'
  BY <1>0, <1>1, <1>5 DEF Sleepers, RwTypeOK
<1>13. RwOk(p)'
  BY <1>8, <1>9, <1>10, <1>11, <1>12 DEF RwOk
<1>14. /\ v' = [v EXCEPT ![t] = v[t]] /\ v[t] \in Nat /\ "wake all" \in RwSteps
       /\ mode' = [mode EXCEPT ![t] = "none"]
  BY <1>0, <1>1, <1>2 DEF RwTypeOK, RwSteps
<1>15. PICK z \in Nat : SetWord(t, L, z)
  BY <1>1
<1> QED BY <1>1, <1>13, <1>14, <1>15, RwOwn

\* A thread parks only when the word has a writer's bit or the waiting bit, and
\* then somebody is there to wake it.
LEMMA RwWaitKeeps ==
    ASSUME RwInv, NEW t \in Threads, ReadWait(t) \/ WriteWait(t) PROVE RwInv'
<1> DEFINE p == PidOf[t]
           w == mem[p][L]
<1>0. /\ PidOf \in [Threads -> Pids] /\ L \in Addrs /\ RwTypeOK /\ p \in Pids /\ t \in Mine(p)
      /\ RwOk(p) /\ KernelInv /\ w \in Nat /\ L \in Addrs \cup BadAddrs
  BY FutexAssumption, UserRwlockAssumption DEF RwInv, RwBase, RwTypeOK, Mine
<1>1. FutexWait(t, L, v[t], Forever) /\ Forever \in Timeouts /\ mode' = mode /\ v' = v
  BY DEF ReadWait, WriteWait, Timeouts
<1>2. PICK s \in {"read", "write"} : pc' = [pc EXCEPT ![t] = s]
  BY DEF ReadWait, WriteWait, Goto
<1>3. pc[t] \in {"read wait", "write wait"}
  BY DEF ReadWait, WriteWait, At
<1>4. KernelInv'
  BY <1>0, <1>1, WaitKeeps
<1>5. /\ mem' = mem /\ at[t] = "user"
      /\ at'[t] = "parked" => futex_addr'[t] = L /\ w = v[t]
      /\ \A u \in Threads \ {t} : at'[u] = at[u] /\ futex_addr'[u] = futex_addr[u]
  BY <1>0, <1>1, WaitParks
<1>6. RwTypeOK'
  BY <1>0, <1>1, <1>2, <1>5 DEF RwTypeOK, RwSteps
<1>7. ASSUME NEW q \in Pids, q # p PROVE RwOk(q)'
  <2>1. \A u \in Mine(q) : u \in Threads \ {t}
    BY <1>7 DEF Mine
  <2>2. \A u \in Mine(q) : pc'[u] = pc[u] /\ mode'[u] = mode[u] /\ v'[u] = v[u]
    BY <1>0, <1>1, <1>2, <2>1 DEF RwTypeOK
  <2>3. \A u \in Mine(q) : at'[u] = "parked" => at[u] = "parked" /\ futex_addr'[u] = futex_addr[u]
    BY <1>5, <2>1
  <2>4. RwOk(q) /\ mem'[q][L] = mem[q][L]
    BY <1>5 DEF RwInv
  <2> QED BY <2>2, <2>3, <2>4, RwOthers
<1>8. RwOk(p)'
  <2>1. Mine(p)' = Mine(p) /\ Rd(p)' = Rd(p) /\ Wr(p)' = Wr(p) /\ mem'[p][L] = w
    BY <1>1, <1>5 DEF Mine, Rd, Wr
  <2>2. Shape(p)' /\ Alone(p)'
    BY <1>0, <2>1 DEF Shape, Alone, WriterWaiting, RwOk
  <2>3. pc'[t] = s /\ \A u \in Mine(p) : u # t => pc'[u] = pc[u]
    BY <1>0, <1>2 DEF RwTypeOK, Mine
  <2>4. Resets(p)'
    BY <1>0, <1>3, <2>1, <2>3 DEF Resets, RwOk
  <2>5. mode[t] = "none"
    BY <1>0, <1>3 DEF RwOk, Places, RwTypeOK
  <2>6. Places(p)'
    BY <1>0, <1>1, <1>5, <2>1, <2>3, <2>5
       DEF Places, RwOk, MayRead, WriterHolds, WriterWaiting, Mine
  <2>7. ASSUME at'[t] = "parked"
        PROVE  \E u \in Mine(p) : \/ mode[u] = "write"
                                  \/ mode[u] = "read" /\ WriterWaiting(w)
                                  \/ pc[u] \in {"reset", "wake all"}
    <3>1. ~MayRead(w) \/ WriterWaiting(w)
      BY <1>0, <1>3, <1>5, <2>7 DEF RwOk, Places
    <3>2. CASE WriterHolds(w)
      <4>1. Wr(p) # {}
        BY <1>0, <3>2, ShapeSays DEF RwOk
      <4> QED BY <4>1 DEF Wr
    <3>3. CASE WriterWaiting(w) /\ ~WriterHolds(w)
      <4>1. CASE Rd(p) # {}
        BY <3>3, <4>1 DEF Rd
      <4>2. CASE Rd(p) = {}
        <5>1. Wr(p) = {}
          BY <1>0, <3>3, ShapeSays DEF RwOk
        <5>2. Cardinality(Rd(p)) = 0
          BY <4>2, FS_EmptySet
        <5>3. w = 0 + 0 + RW_WAITING
          BY <1>0, <3>3, <5>1, <5>2 DEF RwOk, Shape
        <5>4. w = RW_WAITING
          BY <5>3, WriterBits
        <5> QED BY <1>0, <5>4 DEF RwOk, Resets
      <4> QED BY <4>1, <4>2
    <3> QED BY <3>1, <3>2, <3>3 DEF MayRead
  <2>8. Sleepers(p)'
    <3> SUFFICES ASSUME NEW x \in Mine(p), at'[x] = "parked"
                 PROVE  \E u \in Mine(p) :
                           \/ mode'[u] = "write"
                           \/ mode'[u] = "read" /\ WriterWaiting(mem[p][L])'
                           \/ pc'[u] \in {"reset", "wake all"}
      BY <2>1 DEF Sleepers
    <3>1. \E u \in Mine(p) : \/ mode[u] = "write"
                             \/ mode[u] = "read" /\ WriterWaiting(w)
                             \/ pc[u] \in {"reset", "wake all"}
      <4>1. CASE x = t
        BY <2>7, <4>1
      <4>2. CASE x # t
        BY <1>0, <1>5, <4>2 DEF RwOk, Sleepers, Mine
      <4> QED BY <4>1, <4>2
    <3> QED BY <1>1, <1>3, <2>1, <2>3, <3>1 DEF WriterWaiting
  <2> QED BY <2>2, <2>4, <2>6, <2>8 DEF RwOk
<1> QED BY <1>4, <1>6, <1>7, <1>8 DEF RwInv, RwBase

LEMMA WakeAllKeeps == ASSUME RwInv, NEW t \in Threads, WakeAll(t) PROVE RwInv'
<1> DEFINE p == PidOf[t]
<1>0. /\ PidOf \in [Threads -> Pids] /\ L \in Addrs /\ RwTypeOK /\ p \in Pids /\ t \in Mine(p)
      /\ RwOk(p) /\ KernelInv
  BY FutexAssumption, UserRwlockAssumption DEF RwInv, RwBase, RwTypeOK, Mine
<1>1. /\ FutexWake(t, L, Cardinality(Threads)) /\ pc' = [pc EXCEPT ![t] = "idle"]
      /\ mode' = mode /\ v' = v /\ pc[t] = "wake all"
  BY DEF WakeAll, Goto, At
<1>2. KernelInv'
  BY <1>0, <1>1, WakeKeeps
<1>3. /\ mem' = mem /\ futex_addr' = futex_addr
      /\ \A u \in Threads : at'[u] =
            IF u \in Woken(PidOf[t], L, Cardinality(Threads)) THEN "ready" ELSE at[u]
  BY <1>1 DEF FutexWake, Release
<1>4. RwTypeOK'
  BY <1>0, <1>1, <1>3 DEF RwTypeOK, RwSteps
<1>5. \A u \in Threads : at'[u] = "parked" => at[u] = "parked"
  BY <1>3
<1>6. ASSUME NEW q \in Pids, q # p PROVE RwOk(q)'
  <2>1. \A u \in Mine(q) : u \in Threads \ {t}
    BY <1>6 DEF Mine
  <2>2. \A u \in Mine(q) : pc'[u] = pc[u] /\ mode'[u] = mode[u] /\ v'[u] = v[u]
    BY <1>0, <1>1, <2>1 DEF RwTypeOK
  <2>3. RwOk(q) /\ mem'[q][L] = mem[q][L]
    BY <1>3 DEF RwInv
  <2> QED BY <1>3, <1>5, <2>1, <2>2, <2>3, RwOthers
<1>7. RwOk(p)'
  <2>1. Mine(p)' = Mine(p) /\ Rd(p)' = Rd(p) /\ Wr(p)' = Wr(p) /\ mem'[p][L] = mem[p][L]
    BY <1>1, <1>3 DEF Mine, Rd, Wr
  <2>2. Shape(p)' /\ Alone(p)'
    BY <1>0, <2>1 DEF Shape, Alone, WriterWaiting, RwOk
  <2>3. pc'[t] = "idle" /\ \A u \in Mine(p) : u # t => pc'[u] = pc[u]
    BY <1>0, <1>1 DEF RwTypeOK, Mine
  <2>4. Resets(p)'
    BY <1>0, <1>1, <2>1, <2>3 DEF Resets, RwOk
  <2>5. \A u \in Mine(p) : at'[u] # "parked"
    <3> SUFFICES ASSUME NEW u \in Mine(p), at'[u] = "parked" PROVE FALSE
      OBVIOUS
    <3>1. u \in Threads /\ PidOf[u] = p /\ at[u] = "parked"
      BY <1>5 DEF Mine
    <3>2. futex_addr[u] = L
      BY <1>0, <3>1 DEF RwOk, Places
    <3>3. u \in Candidates(p, L)
      BY <3>1, <3>2 DEF Candidates
    <3> QED BY <1>0, <1>3, <3>1, <3>3, WakeFindsAll
  <2>6. Places(p)'
    BY <1>0, <1>1, <2>1, <2>3, <2>5
       DEF Places, RwOk, MayRead, WriterHolds, WriterWaiting
  <2>7. Sleepers(p)'
    BY <2>1, <2>5 DEF Sleepers
  <2> QED BY <2>2, <2>4, <2>6, <2>7 DEF RwOk
<1> QED BY <1>2, <1>4, <1>6, <1>7 DEF RwInv, RwBase

LEMMA RwInvKept == ASSUME RwInv, [RwNext]_rwVars PROVE RwInv'
<1>0. KernelInv /\ RwTypeOK /\ ret \in [Threads -> Results]
  BY DEF RwInv, RwBase, KernelInv, KernelTypeOK
<1>1. ASSUME KernelInv', UNCHANGED <<mem, pc, mode, v>>,
             \A u \in Threads : at'[u] = "parked" => at[u] = "parked" /\ futex_addr'[u] = futex_addr[u]
      PROVE  RwInv'
  <2>1. RwTypeOK'
    BY <1>0, <1>1 DEF RwTypeOK
  <2>2. ASSUME NEW p \in Pids PROVE RwOk(p)'
    <3>1. RwOk(p) /\ mem'[p][L] = mem[p][L]
      BY <1>1 DEF RwInv
    <3>2. \A u \in Mine(p) : u \in Threads
      BY DEF Mine
    <3> QED BY <1>1, <3>1, <3>2, RwOthers
  <2> QED BY <1>1, <2>1, <2>2 DEF RwInv, RwBase
<1>2. CASE KernelSteps /\ UNCHANGED <<mode, v>>
  BY <1>0, <1>1, <1>2, KernelStepsKeep
<1>3. CASE UNCHANGED rwVars
  <2>1. UNCHANGED <<mem, pc, mode, v, parkVars, ret, at, futex_addr>>
    BY <1>3 DEF rwVars, vars, kernelVars, parkVars
  <2>2. KernelInv'
    BY <1>0, <2>1, UntouchedKeeps
  <2> QED BY <1>1, <2>1, <2>2
<1>4. ASSUME NEW t \in Threads, Ask(t) PROVE RwInv'
  BY <1>4, ReadLockKeeps, WriteLockKeeps, ReadLockWaitsKeeps, WriteLockWaitsKeeps DEF Ask
<1>5. ASSUME NEW t \in Threads, Finish(t) PROVE RwInv'
  BY <1>5, RwWaitKeeps, WriteUnlockKeeps, ReadUnlockKeeps, ResetWordKeeps, WakeAllKeeps DEF Finish
<1> QED BY <1>2, <1>3, <1>4, <1>5 DEF RwNext

LEMMA RwInvAtStart == RwInit => RwInv
<1> SUFFICES ASSUME RwInit PROVE RwInv
  OBVIOUS
<1>1. /\ KernelInv /\ pc = [t \in Threads |-> "idle"] /\ at = [t \in Threads |-> "user"]
      /\ mode = [t \in Threads |-> "none"] /\ v = [t \in Threads |-> 0]
  BY KernelInvAtStart DEF RwInit, ThreadsInit, KernelInit
<1>2. mem \in [Pids -> [Addrs -> Nat]] /\ \A p \in Pids : mem[p][L] = 0
  BY UserRwlockAssumption DEF RwInit
<1>3. RwBase
  BY <1>1, <1>2 DEF RwBase, RwTypeOK, RwSteps
<1>4. ASSUME NEW p \in Pids PROVE RwOk(p)
  <2>1. Rd(p) = {} /\ Wr(p) = {} /\ Mine(p) \subseteq Threads
    BY <1>1 DEF Rd, Wr, Mine
  <2>2. RW_WRITER \in Nat /\ RW_WRITER > 0 /\ RW_WAITING = RW_WRITER + RW_WRITER
    BY WriterBits
  <2>3. ~(0 >= RW_WAITING) /\ 0 # RW_WAITING
    BY <2>2
  <2>4. Shape(p)
    <3>1. Cardinality(Rd(p)) = 0 /\ 0 = 0 + 0 + 0
      BY <2>1, FS_EmptySet
    <3> QED BY <1>2, <2>1, <2>3, <3>1 DEF Shape, WriterWaiting
  <2>5. mem[p][L] # RW_WAITING
    BY <1>2, <2>3
  <2>6. Alone(p) /\ Resets(p) /\ Places(p) /\ Sleepers(p)
    BY <1>1, <2>1, <2>5 DEF Alone, Resets, Places, Sleepers
  <2> QED BY <2>4, <2>6 DEF RwOk
<1> QED BY <1>3, <1>4 DEF RwInv

\* A writer is alone and the word counts exactly the readers inside, although
\* the last reader out resets it with a plain store.
THEOREM RwlockExcludes == RwSpec => []ReadersAndWriter
<1>1. RwInv => ReadersAndWriter
  <2> SUFFICES ASSUME RwInv, NEW p \in Pids
               PROVE  /\ Readers(mem[p][L]) = Cardinality({t \in Mine(p) : mode[t] = "read"})
                      /\ WriterHolds(mem[p][L]) <=> \E t \in Mine(p) : mode[t] = "write"
                      /\ \A t \in Mine(p) : mode[t] = "write" => \A u \in Mine(p) \ {t} : mode[u] = "none"
    BY DEF ReadersAndWriter, Mine
  <2>1. Shape(p) /\ Alone(p) /\ mem[p][L] \in Nat /\ mode \in [Threads -> {"none", "read", "write"}]
    BY UserRwlockAssumption DEF RwInv, RwOk, RwBase, RwTypeOK
  <2>2. /\ Readers(mem[p][L]) = Cardinality({t \in Mine(p) : mode[t] = "read"})
        /\ WriterHolds(mem[p][L]) <=> \E t \in Mine(p) : mode[t] = "write"
    BY <2>1, ShapeSays DEF Rd, Wr
  <2>3. \A t \in Mine(p) : mode[t] = "write" => \A u \in Mine(p) \ {t} : mode[u] = "none"
    BY <2>1 DEF Alone, Rd, Wr, Mine
  <2> QED BY <2>2, <2>3
<1> QED BY <1>1, RwInvAtStart, RwInvKept, PTL DEF RwSpec

\* Whoever is parked on the lock will be woken, by a writer inside, by the last
\* of the readers inside or by a thread that is about to wake everybody.
THEOREM RwlockParkedWillWake == RwSpec => []ParkedWillWake
<1>1. RwInv => ParkedWillWake
  <2> SUFFICES ASSUME RwInv, NEW t \in Threads, at[t] = "parked"
               PROVE  \E u \in Threads : PidOf[u] = PidOf[t] /\
                         \/ mode[u] = "write"
                         \/ mode[u] = "read" /\ WriterWaiting(State(t))
                         \/ pc[u] \in {"reset", "wake all"}
    BY DEF ParkedWillWake
  <2>1. t \in Mine(PidOf[t]) /\ Sleepers(PidOf[t])
    BY FutexAssumption DEF Mine, RwInv, RwOk
  <2> QED BY <2>1 DEF Sleepers, Mine, State, Word
<1> QED BY <1>1, RwInvAtStart, RwInvKept, PTL DEF RwSpec
================================================================================
