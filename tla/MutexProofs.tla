------------------------------ MODULE MutexProofs ------------------------------
(***************************************************************************)
(* Proofs about Mutex for any set of threads, any of which may be killed   *)
(* or unlock a mutex that it does not hold.                                *)
(***************************************************************************)
EXTENDS Mutex, QueueProofs

\* The part of the state that mutual exclusion rests on.
ExclusionInv ==
    /\ locked \in BOOLEAN
    /\ owner \in IF locked THEN Threads ELSE {NoThread}
    /\ pc \in [Threads -> States]
    /\ MutualExclusion

\* WakeOne changes no thread's state except, to "woken", a queued thread's.
LEMMA WakeOneKeepsIn ==
    ASSUME NEW p \in [Threads -> States], WakeOne(p),
           pc' \in [Threads -> States],
           NEW t \in Threads, pc'[t] = "in"
    PROVE  p[t] = "in"
BY DEF WakeOne, States

\* What WakeOne leaves is a state for every thread.
LEMMA WakeOneType ==
    ASSUME NEW p \in [Threads -> States], WakeOne(p)
    PROVE  pc' \in [Threads -> States]
BY DEF WakeOne, States

\* mutex_lock(), mutex_trylock() and mutex_unlock() admit one thread at a time
\* and name it as the owner, whoever barges, unlocks astray or is killed.
THEOREM MutexExclusion == Spec => []MutualExclusion
<1>1. Init => ExclusionInv
  BY DEF Init, ExclusionInv, MutualExclusion, States
<1>2. ExclusionInv /\ [Next]_vars => ExclusionInv'
  <2> SUFFICES ASSUME ExclusionInv, [Next]_vars PROVE ExclusionInv'
    OBVIOUS
  <2> USE MutexAssumption
  <2>1. ASSUME NEW t \in Threads, ~locked, Take(t) PROVE ExclusionInv'
    BY <2>1 DEF ExclusionInv, MutualExclusion, Take, States
  <2>2. ASSUME NEW t \in Threads, Block(t) PROVE ExclusionInv'
    BY <2>2 DEF ExclusionInv, MutualExclusion, Block, States
  <2>3. ASSUME NEW t \in Threads, Pass(t) PROVE ExclusionInv'
    BY <2>1, <2>2, <2>3 DEF Pass
  <2>4. ASSUME NEW t \in Threads, Unlock(t) PROVE ExclusionInv'
    <3> DEFINE p == [pc EXCEPT ![t] = "out"]
    <3>1. p \in [Threads -> States]
      BY DEF ExclusionInv, States
    <3>2. WakeOne(p)
      BY <2>4 DEF Unlock
    <3>3. pc' \in [Threads -> States]
      BY <3>1, <3>2, WakeOneType
    <3>4. \A u \in Threads : pc'[u] = "in" => p[u] = "in"
      BY <3>1, <3>2, <3>3, WakeOneKeepsIn
    <3>5. \A u \in Threads : p[u] # "in"
      BY <2>4 DEF ExclusionInv, MutualExclusion, Unlock, States
    <3> QED
      BY <2>4, <3>3, <3>4, <3>5 DEF ExclusionInv, MutualExclusion, Unlock
  <2>5. ASSUME NEW t \in Threads, StrayUnlock(t) PROVE ExclusionInv'
    <3>1. pc \in [Threads -> States] /\ WakeOne(pc)
      BY <2>5 DEF ExclusionInv, StrayUnlock
    <3>2. pc' \in [Threads -> States]
      BY <3>1, WakeOneType
    <3>3. \A u \in Threads : pc'[u] = "in" => pc[u] = "in"
      BY <3>1, <3>2, WakeOneKeepsIn
    <3> QED
      BY <2>5, <3>2, <3>3 DEF ExclusionInv, MutualExclusion, StrayUnlock
  <2>6. ASSUME NEW t \in Threads, Kill(t) PROVE ExclusionInv'
    BY <2>6 DEF ExclusionInv, MutualExclusion, Kill, States
  <2>7. CASE UNCHANGED vars
    BY <2>7 DEF ExclusionInv, MutualExclusion, vars
  <2> QED
    BY <2>1, <2>3, <2>4, <2>5, <2>6, <2>7 DEF Next, Lock, Retry, TryLock
<1>3. ExclusionInv => MutualExclusion
  BY DEF ExclusionInv
<1> QED
  BY <1>1, <1>2, <1>3, PTL DEF Spec

-----------------------------------------------------------------------------
(* The queue holds the blocked threads, and none is stranded until a       *)
(* thread is killed: a killed thread may take a wakeup along.              *)

\* A held mutex is held by a thread that is inside.
HeldInside == locked => pc[owner] = "in"

\* Queued threads have somebody to wake them.
Unstranded == waiters # <<>> => \E t \in Threads : pc[t] \in {"in", "woken"}

QueueInv ==
    /\ TypeOK /\ MutualExclusion /\ QueueIsBlocked
    /\ AllAlive => HeldInside /\ Unstranded

\* Waking the first waiter takes it, and it alone, out of the queue and out of
\* the blocked threads.
LEMMA WakeOneQueue ==
    ASSUME TypeOK, QueueIsBlocked,
           NEW p \in [Threads -> States],
           \A t \in Threads : p[t] = "blocked" <=> pc[t] = "blocked",
           WakeOne(p)
    PROVE  /\ waiters' \in Seq(Threads)
           /\ pc' \in [Threads -> States]
           /\ QueueIsBlocked'
           /\ \A t \in Threads : pc'[t] = "in" <=> p[t] = "in"
           /\ waiters' # <<>> => \E t \in Threads : pc'[t] = "woken"
<1>1. CASE waiters = <<>>
  BY <1>1 DEF WakeOne, QueueIsBlocked, TypeOK
<1>2. CASE waiters # <<>>
  <2>1. waiters \in Seq(Threads) /\ pc \in [Threads -> States]
    BY DEF TypeOK
  <2>2. /\ Head(waiters) = waiters[1] /\ 1 \in DOMAIN waiters /\ Head(waiters) \in Threads
        /\ pc[Head(waiters)] = "blocked"
    BY <1>2, <2>1 DEF QueueIsBlocked
  <2>3. waiters' = Tail(waiters) /\ pc' = [p EXCEPT ![Head(waiters)] = "woken"]
    BY <1>2 DEF WakeOne
  <2>4. waiters' \in Seq(Threads) /\ Len(waiters') = Len(waiters) - 1
    BY <1>2, <2>1, <2>3
  <2>5. \A i \in DOMAIN waiters' : i + 1 \in DOMAIN waiters /\ waiters'[i] = waiters[i + 1]
    BY <1>2, <2>1, <2>3
  <2>6. \A i \in DOMAIN waiters : i # 1 => i - 1 \in DOMAIN waiters' /\ waiters'[i - 1] = waiters[i]
    BY <1>2, <2>1, <2>3, <2>4
  <2>7. pc' \in [Threads -> States]
    BY <2>2, <2>3 DEF States
  <2>8. \A t \in Threads : pc'[t] = "blocked" <=> pc[t] = "blocked" /\ t # Head(waiters)
    BY <2>2, <2>3 DEF States
  <2>9. \A i, j \in DOMAIN waiters' : waiters'[i] = waiters'[j] => i = j
    <3> TAKE i, j \in DOMAIN waiters'
    <3> HAVE waiters'[i] = waiters'[j]
    <3>1. i + 1 \in DOMAIN waiters /\ j + 1 \in DOMAIN waiters /\ waiters[i + 1] = waiters[j + 1]
      BY <2>5
    <3>2. i + 1 = j + 1
      BY <3>1 DEF QueueIsBlocked
    <3>3. i \in Nat /\ j \in Nat
      BY <2>4
    <3> QED BY <3>2, <3>3
  <2>10. \A t \in Threads : pc'[t] = "blocked" <=> \E i \in DOMAIN waiters' : waiters'[i] = t
    <3> TAKE t \in Threads
    <3>1. ASSUME pc'[t] = "blocked" PROVE \E i \in DOMAIN waiters' : waiters'[i] = t
      <4>1. PICK i \in DOMAIN waiters : waiters[i] = t
        BY <2>8, <3>1 DEF QueueIsBlocked
      <4>2. i # 1
        BY <2>2, <2>8, <3>1, <4>1
      <4> QED BY <2>6, <4>1, <4>2
    <3>2. ASSUME NEW i \in DOMAIN waiters', waiters'[i] = t PROVE pc'[t] = "blocked"
      <4>1. i + 1 \in DOMAIN waiters /\ waiters[i + 1] = t /\ i \in Nat /\ i # 0
        BY <2>4, <2>5, <3>2
      <4>2. pc[t] = "blocked"
        BY <4>1 DEF QueueIsBlocked
      <4>3. t # Head(waiters)
        <5> SUFFICES ASSUME t = Head(waiters) PROVE FALSE
          OBVIOUS
        <5>1. waiters[i + 1] = waiters[1]
          BY <2>2, <4>1
        <5>2. i + 1 = 1
          BY <2>2, <4>1, <5>1 DEF QueueIsBlocked
        <5> QED BY <4>1, <5>2
      <4> QED BY <2>8, <4>2, <4>3
    <3> QED BY <3>1, <3>2
  <2>11. \A t \in Threads : pc'[t] = "in" <=> p[t] = "in"
    <3>1. p[Head(waiters)] = "blocked"
      BY <2>2
    <3> QED BY <2>2, <2>3, <3>1
  <2>12. pc'[Head(waiters)] = "woken"
    BY <2>2, <2>3
  <2> QED
    BY <2>2, <2>4, <2>7, <2>9, <2>10, <2>11, <2>12 DEF QueueIsBlocked
<1> QED BY <1>1, <1>2

\* A step of a thread that takes the mutex leaves the queue as it is.
LEMMA TakePreservesQueueInv ==
    ASSUME QueueInv, NEW t \in Threads, pc[t] \in {"out", "woken"}, ~locked, Take(t)
    PROVE  QueueInv'
<1>1. TypeOK'
  BY DEF QueueInv, TypeOK, Take, States
<1>2. MutualExclusion' /\ HeldInside'
  BY DEF QueueInv, TypeOK, MutualExclusion, HeldInside, Take
<1>3. QueueIsBlocked'
  BY DEF QueueInv, TypeOK, QueueIsBlocked, Take
<1>4. Unstranded'
  BY DEF QueueInv, TypeOK, Unstranded, Take
<1> QED BY <1>1, <1>2, <1>3, <1>4 DEF QueueInv

\* A step of a thread that blocks adds it, once, at the tail; the holder is the
\* thread that will wake it.
LEMMA BlockPreservesQueueInv ==
    ASSUME QueueInv, NEW t \in Threads, pc[t] \in {"out", "woken"}, locked, Block(t)
    PROVE  QueueInv'
<1> USE MutexAssumption
<1>0. /\ waiters \in Seq(Threads) /\ pc \in [Threads -> States]
      /\ waiters' = Append(waiters, t) /\ pc' = [pc EXCEPT ![t] = "blocked"]
      /\ UNCHANGED <<locked, owner>>
  BY DEF QueueInv, TypeOK, Block
<1>1. TypeOK'
  BY <1>0 DEF QueueInv, TypeOK, States
<1>2. AllAlive' => AllAlive
  BY <1>0 DEF AllAlive
<1>3. MutualExclusion' /\ (AllAlive' => HeldInside' /\ Unstranded')
  <2>1. MutualExclusion'
    BY <1>0 DEF QueueInv, MutualExclusion
  <2>2. ASSUME AllAlive' PROVE HeldInside' /\ Unstranded'
    <3>1. owner \in Threads /\ pc[owner] = "in" /\ owner # t
      BY <1>2, <2>2 DEF QueueInv, TypeOK, HeldInside
    <3> QED BY <1>0, <3>1 DEF HeldInside, Unstranded
  <2> QED BY <2>1, <2>2
<1>4. /\ Len(waiters') = Len(waiters) + 1 /\ waiters'[Len(waiters) + 1] = t
      /\ \A i \in DOMAIN waiters : i \in DOMAIN waiters' /\ waiters'[i] = waiters[i]
      /\ \A i \in DOMAIN waiters' : i \in DOMAIN waiters \/ i = Len(waiters) + 1
      /\ Len(waiters) + 1 \in DOMAIN waiters'
  BY <1>0
<1>5. \A i \in DOMAIN waiters : waiters[i] # t
  BY <1>0 DEF QueueInv, QueueIsBlocked
<1>6. \A i, j \in DOMAIN waiters' : waiters'[i] = waiters'[j] => i = j
  BY <1>4, <1>5 DEF QueueInv, QueueIsBlocked
<1>7. \A u \in Threads : pc'[u] = "blocked" <=> \E i \in DOMAIN waiters' : waiters'[i] = u
  <2> TAKE u \in Threads
  <2>1. CASE u = t
    BY <1>0, <1>4, <2>1
  <2>2. CASE u # t
    <3>1. pc'[u] = pc[u]
      BY <1>0, <2>2
    <3>2. (\E i \in DOMAIN waiters' : waiters'[i] = u) <=> (\E i \in DOMAIN waiters : waiters[i] = u)
      BY <1>4, <2>2
    <3> QED BY <3>1, <3>2 DEF QueueInv, QueueIsBlocked
  <2> QED BY <2>1, <2>2
<1> QED BY <1>1, <1>3, <1>6, <1>7 DEF QueueInv, QueueIsBlocked

\* Unlocking, by the holder or astray, wakes a waiter if there is one.
LEMMA UnlockPreservesQueueInv ==
    ASSUME QueueInv, NEW p \in [Threads -> States],
           \A t \in Threads : p[t] = "blocked" <=> pc[t] = "blocked",
           \A t \in Threads : p[t] # "in",
           locked' = FALSE, owner' = NoThread, WakeOne(p)
    PROVE  QueueInv'
<1>1. /\ waiters' \in Seq(Threads) /\ pc' \in [Threads -> States] /\ QueueIsBlocked'
      /\ \A t \in Threads : pc'[t] = "in" <=> p[t] = "in"
      /\ waiters' # <<>> => \E t \in Threads : pc'[t] = "woken"
  BY WakeOneQueue DEF QueueInv
<1> QED
  BY <1>1 DEF QueueInv, TypeOK, MutualExclusion, HeldInside, Unstranded

\* A killed thread leaves the queue; it takes no other thread along.
LEMMA KillPreservesQueueInv ==
    ASSUME QueueInv, NEW t \in Threads, Kill(t)
    PROVE  QueueInv'
<1>0. /\ waiters \in Seq(Threads) /\ pc \in [Threads -> States]
      /\ waiters' = Without(waiters, {t}) /\ pc' = [pc EXCEPT ![t] = "dead"]
      /\ UNCHANGED <<locked, owner>>
  BY DEF QueueInv, TypeOK, Kill
<1>1. /\ waiters' \in Seq(Threads) /\ Members(waiters') = Members(waiters) \ {t}
      /\ Once(waiters) => Once(waiters')
  BY <1>0, WithoutMembers
<1>2. TypeOK'
  BY <1>0, <1>1 DEF QueueInv, TypeOK, States
<1>3. MutualExclusion'
  BY <1>0 DEF QueueInv, MutualExclusion
<1>4. QueueIsBlocked'
  <2>1. DOMAIN waiters = 1 .. Len(waiters) /\ DOMAIN waiters' = 1 .. Len(waiters')
    BY <1>0, <1>1
  <2>2. Once(waiters')
    BY <1>1, <2>1 DEF QueueInv, QueueIsBlocked, Once
  <2>3. \A u \in Threads : pc[u] = "blocked" <=> u \in Members(waiters)
    BY <2>1 DEF QueueInv, QueueIsBlocked, Members
  <2>4. \A u \in Threads : pc'[u] = "blocked" <=> u \in Members(waiters')
    BY <1>0, <1>1, <2>3
  <2> QED BY <2>1, <2>2, <2>4 DEF QueueIsBlocked, Once, Members
<1>5. ~AllAlive'
  BY <1>0 DEF AllAlive
<1> QED BY <1>2, <1>3, <1>4, <1>5 DEF QueueInv

\* Until a thread is killed in the middle of a call, every queued thread has
\* somebody to wake it: mutex_unlock() loses no wakeup although it hands the
\* mutex to nobody and any caller may barge in.  The queue holds the blocked
\* threads, each once, whoever is killed.
THEOREM MutexNoStrandedWaiter ==
    Spec => [](TypeOK /\ QueueIsBlocked /\ NoStrandedWaiter)
<1>1. Init => QueueInv
  <2> SUFFICES ASSUME Init PROVE QueueInv
    OBVIOUS
  <2>1. /\ ~locked /\ owner = NoThread /\ waiters = <<>> /\ pc \in [Threads -> States]
        /\ \A t \in Threads : pc[t] = "out"
    BY DEF Init, States
  <2>2. waiters \in Seq(Threads) /\ \A i \in DOMAIN waiters : FALSE
    BY <2>1
  <2>3. TypeOK
    BY <2>1, <2>2 DEF TypeOK, Init
  <2> QED
    BY <2>1, <2>2, <2>3 DEF QueueInv, MutualExclusion, QueueIsBlocked, HeldInside, Unstranded
<1>2. QueueInv /\ [Next]_vars => QueueInv'
  <2> SUFFICES ASSUME QueueInv, [Next]_vars PROVE QueueInv'
    OBVIOUS
  <2>1. ASSUME NEW t \in Threads, pc[t] \in {"out", "woken"}, Pass(t) PROVE QueueInv'
    <3>1. locked \in BOOLEAN
      BY DEF QueueInv, TypeOK
    <3>2. CASE locked
      BY <2>1, <3>2, BlockPreservesQueueInv DEF Pass
    <3>3. CASE ~locked
      BY <2>1, <3>3, TakePreservesQueueInv DEF Pass
    <3> QED BY <3>1, <3>2, <3>3
  <2>2. ASSUME NEW t \in Threads, TryLock(t) PROVE QueueInv'
    BY <2>2, TakePreservesQueueInv DEF TryLock
  <2>3. ASSUME NEW t \in Threads, Unlock(t) PROVE QueueInv'
    <3> DEFINE p == [pc EXCEPT ![t] = "out"]
    <3>1. p \in [Threads -> States] /\ \A u \in Threads : p[u] = "blocked" <=> pc[u] = "blocked"
      BY <2>3 DEF QueueInv, TypeOK, Unlock, States
    <3>2. \A u \in Threads : p[u] # "in"
      BY <2>3 DEF QueueInv, TypeOK, MutualExclusion, Unlock, States
    <3>3. locked' = FALSE /\ owner' = NoThread /\ WakeOne(p)
      BY <2>3 DEF Unlock
    <3> HIDE DEF p
    <3> QED BY <3>1, <3>2, <3>3, UnlockPreservesQueueInv
  <2>4. ASSUME NEW t \in Threads, StrayUnlock(t) PROVE QueueInv'
    <3>1. pc \in [Threads -> States] /\ \A u \in Threads : pc[u] # "in"
      BY <2>4 DEF QueueInv, TypeOK, MutualExclusion, StrayUnlock
    <3> QED BY <2>4, <3>1, UnlockPreservesQueueInv DEF StrayUnlock
  <2>5. ASSUME NEW t \in Threads, Kill(t) PROVE QueueInv'
    BY <2>5, KillPreservesQueueInv
  <2>6. CASE UNCHANGED vars
    BY <2>6 DEF QueueInv, TypeOK, MutualExclusion, QueueIsBlocked, HeldInside,
       Unstranded, AllAlive, vars
  <2> QED
    BY <2>1, <2>2, <2>3, <2>4, <2>5, <2>6 DEF Next, Lock, Retry
<1>3. QueueInv => TypeOK /\ QueueIsBlocked /\ NoStrandedWaiter
  BY DEF QueueInv, Unstranded, NoStrandedWaiter
<1> QED
  BY <1>1, <1>2, <1>3, PTL DEF Spec
================================================================================
