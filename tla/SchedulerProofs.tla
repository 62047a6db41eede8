---------------------------- MODULE SchedulerProofs ----------------------------
(***************************************************************************)
(* Proofs about the two modules the rest of the kernel stands on.          *)
(*                                                                         *)
(* The kernel lock (KernelLock), for any set of CPUs and threads and any   *)
(* nesting: it excludes, and its depth word always belongs to the thread   *)
(* that runs on the owning CPU. That is what lets Scheduler take each      *)
(* operation of scheduler.c as one step.                                   *)
(*                                                                         *)
(* The scheduler (Scheduler), for any number of CPUs, any finite set of    *)
(* threads with any priorities, and any set of wait queues. LinkedOnce,    *)
(* NoThreadLost and RunningIsCurrent are not inductive on their own: that  *)
(* a thread which joins a run queue is in no other list depends on its     *)
(* state, on what it says it is blocked on and on who is waking it.        *)
(* SchedulerInv says where each thread stands in terms of these fields.    *)
(* Its part Placed takes the queues and the fields as parameters, since an *)
(* operation passes through values of them that no other CPU sees.         *)
(*                                                                         *)
(* The argument runs in these stages:                                      *)
(*   - what joining, leaving and sweeping queues does to their members;    *)
(*   - scheduler_schedule(): from a state in which the thread of a CPU is  *)
(*     queued for what it asked for (Leaving), the pick and the switch     *)
(*     lead to one in which the CPUs and the states agree again (CpusOK);  *)
(*   - the operations of a running thread, which lead to such a state, and *)
(*     the wake-ups, which switch nothing;                                 *)
(*   - the tick: the sleepers that come due, then the rebalance, which     *)
(*     moves threads between the run queues while it changes priorities.   *)
(***************************************************************************)
EXTENDS KernelLock, Scheduler, QueueProofs

-----------------------------------------------------------------------------
(* The kernel lock.                                                        *)

\* The CPU that is between the test-and-set that took the lock and the store
\* that frees it.
Holds(c) ==
    \/ pc[c] \in {"setOwner", "setDepth", "clearOwner", "unlock", "finish"}
    \/ pc[c] = "run" /\ nest[cur[c]] > 0

\* The part of it in which the owner word is this CPU's.
Owns(c) ==
    \/ pc[c] \in {"setDepth", "clearOwner", "finish"}
    \/ pc[c] = "run" /\ nest[cur[c]] > 0

\* At most one CPU is in the lock, and the lock word says so.
ExclusionInv ==
    /\ \A c, d \in Cpus : Holds(c) /\ Holds(d) => c = d
    /\ \A c \in Cpus : Holds(c) => lock = 1

\* The owner word names a CPU exactly while that CPU is between its store of
\* the owner and its clearing of it: the test for recursion cannot be fooled.
OwnerInv ==
    \A c \in Cpus : owner = c <=> Owns(c)

\* No thread is on two CPUs, and on_cpu covers both the thread a CPU runs and
\* the one it is leaving.
PlacementInv ==
    /\ \A c, d \in Cpus : cur[c] = cur[d] => c = d
    /\ \A c, d \in Cpus : switch_prev[c] # cur[d]
    /\ \A c \in Cpus : on_cpu[cur[c]]
    /\ \A c \in Cpus : switch_prev[c] # NullThread => on_cpu[switch_prev[c]]
    /\ \A c \in Cpus : pc[c] = "finish" <=> switch_prev[c] # NullThread
    /\ \A c, d \in Cpus : switch_prev[c] = switch_prev[d] /\ c # d
                            => switch_prev[c] = NullThread
    /\ \A t \in ThreadSet : on_cpu[t] =>
          \E c \in Cpus : cur[c] = t \/ switch_prev[c] = t

\* The depth a CPU is about to store, and the depth a thread carries while it
\* is switched out, are the thread's own nesting.
NestingInv ==
    /\ \A c \in Cpus : pc[c] = "run" /\ nest[cur[c]] > 0 => depth = nest[cur[c]]
    /\ \A c \in Cpus : pc[c] \in {"spin", "setOwner", "setDepth"} =>
          want[c] > 0 /\ want[c] = nest[cur[c]]
    /\ \A c \in Cpus : pc[c] \in {"clearOwner", "unlock"} /\ after[c] = "run" =>
          nest[cur[c]] = 0
    /\ \A c \in Cpus : pc[c] \in {"clearOwner", "unlock"} /\ after[c] = "resume" =>
          saved[cur[c]] = nest[cur[c]]
    /\ \A c \in Cpus : pc[c] \in {"finish", "resume"} => saved[cur[c]] = nest[cur[c]]
    /\ \A t \in ThreadSet : (\A c \in Cpus : cur[c] # t) => saved[t] = nest[t]

IInv == TypeOK /\ ExclusionInv /\ OwnerInv /\ PlacementInv /\ NestingInv
-----------------------------------------------------------------------------
\* The inductive step: every step of a CPU, and stuttering, keeps IInv.  One
\* step per action, and under it one per part of the invariant.
LEMMA KernelLockStep == IInv /\ [Next]_vars => IInv'
<1> SUFFICES ASSUME IInv, [Next]_vars PROVE IInv'
  OBVIOUS
<1> USE KernelLockAssumption
<1> USE DEF IInv
<1>1. ASSUME NEW c \in Cpus, IrqSave(c) PROVE IInv'
  <2>1. TypeOK'
    BY <1>1 DEF TypeOK, PcValues, IrqSave, EnterSection, Running, LockIsMine, SyncApicId, lockVars
  <2>2. ExclusionInv'
    BY <1>1 DEF TypeOK, ExclusionInv, OwnerInv, NestingInv, PlacementInv, Holds, Owns, IrqSave, EnterSection, Running, LockIsMine, SyncApicId, lockVars
  <2>3. OwnerInv'
    BY <1>1 DEF TypeOK, ExclusionInv, OwnerInv, NestingInv, PlacementInv, Holds, Owns, IrqSave, EnterSection, Running, LockIsMine, SyncApicId, lockVars
  <2>4. PlacementInv'
    BY <1>1 DEF TypeOK, PlacementInv, IrqSave, EnterSection, Running, LockIsMine, SyncApicId, lockVars
  <2>5. NestingInv'
    BY <1>1 DEF TypeOK, ExclusionInv, OwnerInv, NestingInv, PlacementInv, Holds, Owns, IrqSave, EnterSection, Running, LockIsMine, SyncApicId, lockVars
  <2> QED BY <2>1, <2>2, <2>3, <2>4, <2>5
<1>2. ASSUME NEW c \in Cpus, IrqEnter(c) PROVE IInv'
  <2>1. TypeOK'
    BY <1>2 DEF TypeOK, PcValues, IrqEnter, EnterSection, Running, LockIsMine, SyncApicId, lockVars
  <2>2. ExclusionInv'
    BY <1>2 DEF TypeOK, ExclusionInv, OwnerInv, NestingInv, PlacementInv, Holds, Owns, IrqEnter, EnterSection, Running, LockIsMine, SyncApicId, lockVars
  <2>3. OwnerInv'
    BY <1>2 DEF TypeOK, ExclusionInv, OwnerInv, NestingInv, PlacementInv, Holds, Owns, IrqEnter, EnterSection, Running, LockIsMine, SyncApicId, lockVars
  <2>4. PlacementInv'
    BY <1>2 DEF TypeOK, PlacementInv, IrqEnter, EnterSection, Running, LockIsMine, SyncApicId, lockVars
  <2>5. NestingInv'
    BY <1>2 DEF TypeOK, ExclusionInv, OwnerInv, NestingInv, PlacementInv, Holds, Owns, IrqEnter, EnterSection, Running, LockIsMine, SyncApicId, lockVars
  <2> QED BY <2>1, <2>2, <2>3, <2>4, <2>5
<1>3. ASSUME NEW c \in Cpus, IrqEnd(c) PROVE IInv'
  <2>1. TypeOK'
    BY <1>3 DEF TypeOK, PcValues, IrqEnd, Running, lockVars
  <2>2. ExclusionInv'
    BY <1>3 DEF TypeOK, ExclusionInv, OwnerInv, NestingInv, PlacementInv, Holds, Owns, IrqEnd, Running, lockVars
  <2>3. OwnerInv'
    BY <1>3 DEF TypeOK, ExclusionInv, OwnerInv, NestingInv, PlacementInv, Holds, Owns, IrqEnd, Running, lockVars
  <2>4. PlacementInv'
    BY <1>3 DEF TypeOK, PlacementInv, IrqEnd, Running, lockVars
  <2>5. NestingInv'
    BY <1>3 DEF TypeOK, ExclusionInv, OwnerInv, NestingInv, PlacementInv, Holds, Owns, IrqEnd, Running, lockVars
  <2> QED BY <2>1, <2>2, <2>3, <2>4, <2>5
<1>4. ASSUME NEW c \in Cpus, IrqRestore(c) PROVE IInv'
  <2>1. TypeOK'
    BY <1>4 DEF TypeOK, PcValues, IrqRestore, Running, LastLevel, lockVars
  <2>2. ExclusionInv'
    BY <1>4 DEF TypeOK, ExclusionInv, OwnerInv, NestingInv, PlacementInv, Holds, Owns, IrqRestore, Running, LastLevel, lockVars
  <2>3. OwnerInv'
    BY <1>4 DEF TypeOK, ExclusionInv, OwnerInv, NestingInv, PlacementInv, Holds, Owns, IrqRestore, Running, LastLevel, lockVars
  <2>4. PlacementInv'
    BY <1>4 DEF TypeOK, PlacementInv, IrqRestore, Running, LastLevel, lockVars
  <2>5. NestingInv'
    BY <1>4, SMTT(30) DEF TypeOK, ExclusionInv, OwnerInv, NestingInv, PlacementInv, Holds, Owns, IrqRestore, Running, LastLevel, lockVars
  <2> QED BY <2>1, <2>2, <2>3, <2>4, <2>5
<1>5. ASSUME NEW c \in Cpus, TestAndSet(c) PROVE IInv'
  <2>1. TypeOK'
    BY <1>5 DEF TypeOK, PcValues, TestAndSet, lockVars
  <2>2. ExclusionInv'
    BY <1>5 DEF TypeOK, ExclusionInv, OwnerInv, NestingInv, PlacementInv, Holds, Owns, TestAndSet, lockVars
  <2>3. OwnerInv'
    BY <1>5 DEF TypeOK, ExclusionInv, OwnerInv, NestingInv, PlacementInv, Holds, Owns, TestAndSet, lockVars
  <2>4. PlacementInv'
    BY <1>5 DEF TypeOK, PlacementInv, TestAndSet, lockVars
  <2>5. NestingInv'
    BY <1>5 DEF TypeOK, ExclusionInv, OwnerInv, NestingInv, PlacementInv, Holds, Owns, TestAndSet, lockVars
  <2> QED BY <2>1, <2>2, <2>3, <2>4, <2>5
<1>6. ASSUME NEW c \in Cpus, SetOwner(c) PROVE IInv'
  <2>1. TypeOK'
    BY <1>6 DEF TypeOK, PcValues, SetOwner, SyncApicId, lockVars
  <2>2. ExclusionInv'
    BY <1>6 DEF TypeOK, ExclusionInv, OwnerInv, NestingInv, PlacementInv, Holds, Owns, SetOwner, SyncApicId, lockVars
  <2>3. OwnerInv'
    BY <1>6 DEF TypeOK, ExclusionInv, OwnerInv, NestingInv, PlacementInv, Holds, Owns, SetOwner, SyncApicId, lockVars
  <2>4. PlacementInv'
    BY <1>6 DEF TypeOK, PlacementInv, SetOwner, SyncApicId, lockVars
  <2>5. NestingInv'
    BY <1>6 DEF TypeOK, ExclusionInv, OwnerInv, NestingInv, PlacementInv, Holds, Owns, SetOwner, SyncApicId, lockVars
  <2> QED BY <2>1, <2>2, <2>3, <2>4, <2>5
<1>7. ASSUME NEW c \in Cpus, SetDepth(c) PROVE IInv'
  <2>1. TypeOK'
    BY <1>7 DEF TypeOK, PcValues, SetDepth, lockVars
  <2>2. ExclusionInv'
    BY <1>7 DEF TypeOK, ExclusionInv, OwnerInv, NestingInv, PlacementInv, Holds, Owns, SetDepth, lockVars
  <2>3. OwnerInv'
    BY <1>7 DEF TypeOK, ExclusionInv, OwnerInv, NestingInv, PlacementInv, Holds, Owns, SetDepth, lockVars
  <2>4. PlacementInv'
    BY <1>7 DEF TypeOK, PlacementInv, SetDepth, lockVars
  <2>5. NestingInv'
    BY <1>7 DEF TypeOK, ExclusionInv, OwnerInv, NestingInv, PlacementInv, Holds, Owns, SetDepth, lockVars
  <2> QED BY <2>1, <2>2, <2>3, <2>4, <2>5
<1>8. ASSUME NEW c \in Cpus, ClearOwner(c) PROVE IInv'
  <2>1. TypeOK'
    BY <1>8 DEF TypeOK, PcValues, ClearOwner, lockVars
  <2>2. ExclusionInv'
    BY <1>8 DEF TypeOK, ExclusionInv, OwnerInv, NestingInv, PlacementInv, Holds, Owns, ClearOwner, lockVars
  <2>3. OwnerInv'
    BY <1>8 DEF TypeOK, ExclusionInv, OwnerInv, NestingInv, PlacementInv, Holds, Owns, ClearOwner, lockVars
  <2>4. PlacementInv'
    BY <1>8 DEF TypeOK, PlacementInv, ClearOwner, lockVars
  <2>5. NestingInv'
    BY <1>8 DEF TypeOK, ExclusionInv, OwnerInv, NestingInv, PlacementInv, Holds, Owns, ClearOwner, lockVars
  <2> QED BY <2>1, <2>2, <2>3, <2>4, <2>5
<1>9. ASSUME NEW c \in Cpus, Unlock(c) PROVE IInv'
  <2>1. TypeOK'
    BY <1>9 DEF TypeOK, PcValues, Unlock, lockVars
  <2>2. ExclusionInv'
    BY <1>9 DEF TypeOK, ExclusionInv, OwnerInv, NestingInv, PlacementInv, Holds, Owns, Unlock, lockVars
  <2>3. OwnerInv'
    BY <1>9 DEF TypeOK, ExclusionInv, OwnerInv, NestingInv, PlacementInv, Holds, Owns, Unlock, lockVars
  <2>4. PlacementInv'
    BY <1>9 DEF TypeOK, PlacementInv, Unlock, lockVars
  <2>5. NestingInv'
    BY <1>9 DEF TypeOK, ExclusionInv, OwnerInv, NestingInv, PlacementInv, Holds, Owns, Unlock, lockVars
  <2> QED BY <2>1, <2>2, <2>3, <2>4, <2>5
<1>10. ASSUME NEW c \in Cpus, SwitchFinish(c) PROVE IInv'
  <2>1. TypeOK'
    BY <1>10 DEF TypeOK, PcValues, SwitchFinish, LockIsMine, SyncApicId, lockVars
  <2>2. ExclusionInv'
    BY <1>10 DEF TypeOK, ExclusionInv, OwnerInv, NestingInv, PlacementInv, Holds, Owns, SwitchFinish, LockIsMine, SyncApicId, lockVars
  <2>3. OwnerInv'
    BY <1>10 DEF TypeOK, ExclusionInv, OwnerInv, NestingInv, PlacementInv, Holds, Owns, SwitchFinish, LockIsMine, SyncApicId, lockVars
  <2>4. PlacementInv'
    BY <1>10 DEF TypeOK, PlacementInv, SwitchFinish, LockIsMine, SyncApicId, lockVars
  <2>5. NestingInv'
    BY <1>10 DEF TypeOK, ExclusionInv, OwnerInv, NestingInv, PlacementInv, Holds, Owns, SwitchFinish, LockIsMine, SyncApicId, lockVars
  <2> QED BY <2>1, <2>2, <2>3, <2>4, <2>5
<1>11. ASSUME NEW c \in Cpus, Resume(c) PROVE IInv'
  <2>1. TypeOK'
    BY <1>11 DEF TypeOK, PcValues, Resume, ResumeDepth, lockVars
  <2>2. ExclusionInv'
    BY <1>11 DEF TypeOK, ExclusionInv, OwnerInv, NestingInv, PlacementInv, Holds, Owns, Resume, ResumeDepth, lockVars
  <2>3. OwnerInv'
    BY <1>11 DEF TypeOK, ExclusionInv, OwnerInv, NestingInv, PlacementInv, Holds, Owns, Resume, ResumeDepth, lockVars
  <2>4. PlacementInv'
    BY <1>11 DEF TypeOK, PlacementInv, Resume, ResumeDepth, lockVars
  <2>5. NestingInv'
    BY <1>11 DEF TypeOK, ExclusionInv, OwnerInv, NestingInv, PlacementInv, Holds, Owns, Resume, ResumeDepth, lockVars
  <2> QED BY <2>1, <2>2, <2>3, <2>4, <2>5
<1>12. ASSUME NEW c \in Cpus, NEW next \in ThreadSet, SwitchAway(c, next) PROVE IInv'
  <2>1. TypeOK'
    BY <1>12 DEF TypeOK, PcValues, SwitchAway, Running, MayPick, SavedDepth, LockIsMine, SyncApicId, lockVars
  <2>2. ExclusionInv'
    BY <1>12 DEF TypeOK, ExclusionInv, OwnerInv, NestingInv, PlacementInv, Holds, Owns, SwitchAway, Running, MayPick, SavedDepth, LockIsMine, SyncApicId, lockVars
  <2>3. OwnerInv'
    BY <1>12 DEF TypeOK, ExclusionInv, OwnerInv, NestingInv, PlacementInv, Holds, Owns, SwitchAway, Running, MayPick, SavedDepth, LockIsMine, SyncApicId, lockVars
  <2>4. PlacementInv'
    BY <1>12 DEF TypeOK, PlacementInv, SwitchAway, Running, MayPick, SavedDepth, LockIsMine, SyncApicId, lockVars
  <2>5. NestingInv'
    BY <1>12 DEF TypeOK, ExclusionInv, OwnerInv, NestingInv, PlacementInv, Holds, Owns, SwitchAway, Running, MayPick, SavedDepth, LockIsMine, SyncApicId, lockVars
  <2> QED BY <2>1, <2>2, <2>3, <2>4, <2>5
<1>13. CASE UNCHANGED vars
  BY <1>13 DEF TypeOK, ExclusionInv, OwnerInv, PlacementInv, NestingInv, Holds, Owns, vars, lockVars, cpuVars
<1> QED
  BY <1>1, <1>2, <1>3, <1>4, <1>5, <1>6, <1>7, <1>8, <1>9, <1>10, <1>11, <1>12, <1>13 DEF Next, CpuStep

\* The invariant holds initially.
LEMMA KernelLockInit == Init => IInv
  BY KernelLockAssumption
  DEF Init, IInv, TypeOK, PcValues, ExclusionInv, OwnerInv, PlacementInv, NestingInv, Holds, Owns

\* IInv is an invariant of the kernel lock.
LEMMA KernelLockInvariant == Spec => []IInv
  BY KernelLockInit, KernelLockStep, PTL DEF Spec

\* Type correctness of the lock words and of the per-CPU and per-thread fields.
THEOREM KernelLockTypeCorrect == Spec => []TypeOK
<1>1. IInv => TypeOK
  BY DEF IInv
<1> QED
  BY <1>1, KernelLockInvariant, PTL

\* sync_irq_save() excludes across CPUs: for any number of CPUs and threads no
\* two CPUs are in a section at once, thread switches inside sections included.
THEOREM KernelLockMutualExclusion == Spec => []MutualExclusion
<1>1. IInv => MutualExclusion
  BY DEF IInv, ExclusionInv, Holds, MutualExclusion, InSection, Running
<1> QED
  BY <1>1, KernelLockInvariant, PTL

\* The depth word is always the nesting of the thread the owner runs: a section
\* ends exactly when its outermost sync_irq_restore() runs.
THEOREM KernelLockDepthIsNesting == Spec => []DepthIsNesting
<1>1. IInv => DepthIsNesting
  BY DEF IInv, OwnerInv, Owns, NestingInv, DepthIsNesting, Running
<1> QED
  BY <1>1, KernelLockInvariant, PTL

\* No thread is run by two CPUs, nor by one while another stands on its stack.
THEOREM KernelLockOneCpuPerThread == Spec => []OneCpuPerThread
<1>1. IInv => OneCpuPerThread
  BY DEF IInv, PlacementInv, OneCpuPerThread
<1> QED
  BY <1>1, KernelLockInvariant, PTL

\* A switched-out thread carries exactly the depth its stack has open.
THEOREM KernelLockSavedIsNesting == Spec => []SavedIsNesting
<1>1. IInv => SavedIsNesting
  BY DEF IInv, TypeOK, PlacementInv, NestingInv, SavedIsNesting
<1> QED
  BY <1>1, KernelLockInvariant, PTL

-----------------------------------------------------------------------------
(* The scheduler.                                                          *)

(* Queues.                                                                 *)

LEMMA EmptyMembers == Members(<<>>) = {} /\ Once(<<>>)
BY DEF Members, Once

LEMMA ContainsMember ==
    ASSUME NEW q, NEW x
    PROVE  Contains(q, x) <=> x \in Members(q)
BY DEF Contains, Members

LEMMA ToSetMembers ==
    ASSUME NEW X, NEW q \in Seq(X)
    PROVE  ToSet(q) = Members(q)
BY DEF ToSet, Members

\* One queue behind another.
LEMMA JoinMembers ==
    ASSUME NEW X, NEW q \in Seq(X), NEW p \in Seq(X)
    PROVE  /\ q \o p \in Seq(X)
           /\ Members(q \o p) = Members(q) \cup Members(p)
           /\ Once(q) /\ Once(p) /\ Members(q) \cap Members(p) = {} => Once(q \o p)
<1>1. PICK a : a = q \o p
  OBVIOUS
<1>2. PICK m \in Nat, n \in Nat : m = Len(q) /\ n = Len(p)
  OBVIOUS
<1>3. /\ a \in Seq(X) /\ Len(a) = m + n
      /\ \A i \in 1 .. m + n : a[i] = IF i <= m THEN q[i] ELSE p[i - m]
  BY <1>1, <1>2
<1>4. ASSUME NEW i \in 1 .. m + n
      PROVE  \/ i \in 1 .. m /\ a[i] = q[i]
             \/ i - m \in 1 .. n /\ i > m /\ a[i] = p[i - m]
  BY <1>3
<1>5. Members(a) \subseteq Members(q) \cup Members(p)
  BY <1>2, <1>3, <1>4 DEF Members
<1>6. ASSUME NEW y \in Members(q) PROVE y \in Members(a)
  <2>1. PICK k \in 1 .. m : y = q[k]
    BY <1>2 DEF Members
  <2>2. k \in 1 .. m + n /\ a[k] = y
    BY <1>3, <2>1
  <2> QED BY <1>3, <2>2 DEF Members
<1>7. ASSUME NEW y \in Members(p) PROVE y \in Members(a)
  <2>1. PICK k \in 1 .. n : y = p[k]
    BY <1>2 DEF Members
  <2>2. m + k \in 1 .. m + n /\ ~(m + k <= m) /\ (m + k) - m = k
    OBVIOUS
  <2>3. a[m + k] = y
    BY <1>3, <2>1, <2>2
  <2> QED BY <1>3, <2>2, <2>3 DEF Members
<1>8. ASSUME Once(q), Once(p), Members(q) \cap Members(p) = {} PROVE Once(a)
  <2> SUFFICES ASSUME NEW i \in 1 .. m + n, NEW j \in 1 .. m + n, a[i] = a[j] PROVE i = j
    BY <1>3 DEF Once
  <2>1. CASE i \in 1 .. m /\ a[i] = q[i] /\ j \in 1 .. m /\ a[j] = q[j]
    BY <1>2, <1>8, <2>1 DEF Once
  <2>2. CASE i - m \in 1 .. n /\ a[i] = p[i - m] /\ j - m \in 1 .. n /\ a[j] = p[j - m]
    <3>1. i - m = j - m
      BY <1>2, <1>8, <2>2 DEF Once
    <3> QED BY <3>1
  <2>3. CASE i \in 1 .. m /\ a[i] = q[i] /\ j - m \in 1 .. n /\ a[j] = p[j - m]
    BY <1>2, <1>8, <2>3 DEF Members
  <2>4. CASE i - m \in 1 .. n /\ a[i] = p[i - m] /\ j \in 1 .. m /\ a[j] = q[j]
    BY <1>2, <1>8, <2>4 DEF Members
  <2> QED BY <1>4, <2>1, <2>2, <2>3, <2>4
<1> QED BY <1>1, <1>3, <1>5, <1>6, <1>7, <1>8

\* One thread.
LEMMA SingleMembers ==
    ASSUME NEW X, NEW x \in X
    PROVE  <<x>> \in Seq(X) /\ Members(<<x>>) = {x} /\ Once(<<x>>)
<1>1. <<x>> \in Seq(X) /\ Len(<<x>>) = 1 /\ <<x>>[1] = x
  OBVIOUS
<1>2. 1 .. 1 = {1}
  OBVIOUS
<1> QED BY <1>1, <1>2 DEF Members, Once

\* The threads of a set, in a line.
LEMMA LineMembers ==
    ASSUME NEW S, IsFiniteSet(S), NEW q \in SetToSeqs(S)
    PROVE  q \in Seq(S) /\ Members(q) = S /\ Once(q)
<1>1. PICK n \in Nat : n = Cardinality(S)
  BY FS_CardinalityType
<1>2. q \in [1 .. n -> S] /\ \A i, j \in 1 .. n : i # j => q[i] # q[j]
  BY <1>1 DEF SetToSeqs
<1>3. q \in Seq(S) /\ Len(q) = n
  BY <1>2
<1>4. Once(q)
  BY <1>2, <1>3 DEF Once
<1>5. q \in Injection(1 .. n, S)
  BY <1>2 DEF Injection, IsInjective
<1>6. IsFiniteSet(1 .. n) /\ Cardinality(1 .. n) = n
  <2>1. 1 \in Int /\ n \in Int
    OBVIOUS
  <2>2. IsFiniteSet(1 .. n) /\ Cardinality(1 .. n) = IF 1 > n THEN 0 ELSE n - 1 + 1
    BY <2>1, FS_Interval
  <2> QED BY <2>2
<1>7. q \in Surjection(1 .. n, S)
  BY <1>1, <1>5, <1>6, FS_Injection
<1>8. \A x \in S : \E i \in 1 .. n : q[i] = x
  BY <1>7 DEF Surjection
<1>9. Members(q) = S
  BY <1>2, <1>3, <1>8 DEF Members
<1> QED BY <1>3, <1>4, <1>9

\* One step of the loop of Concatenation.
JoinStep(f, g, i) == IF i = 0 THEN <<>> ELSE g[i - 1] \o f[i]

\* The loop of Concatenation is well defined as far as any position.
LEMMA LoopExists ==
    ASSUME NEW f, NEW n \in Nat
    PROVE  \E g : g = [i \in 0 .. n |-> JoinStep(f, g, i)]
<1> DEFINE Good(m) == \E g : g = [i \in 0 .. m |-> JoinStep(f, g, i)]
           Bad == {m \in Nat : ~Good(m)}
<1> SUFFICES ASSUME Bad # {} PROVE FALSE
  OBVIOUS
<1>1. PICK m \in Bad : \A k \in Bad : m <= k
  <2>1. Bad \subseteq Nat
    OBVIOUS
  <2> QED BY <2>1, LeastNatural
<1>2. ASSUME m = 0 PROVE FALSE
  <2>1. PICK g : g = [i \in 0 .. 0 |-> <<>>]
    OBVIOUS
  <2>2. g = [i \in 0 .. 0 |-> JoinStep(f, g, i)]
    <3>1. \A i \in 0 .. 0 : JoinStep(f, g, i) = <<>>
      BY DEF JoinStep
    <3> QED BY <2>1, <3>1
  <2>3. Good(0)
    BY <2>2
  <2> QED BY <1>1, <1>2, <2>3
<1>3. m \in Nat /\ m - 1 \in Nat /\ m # 0
  BY <1>1, <1>2
<1>4. Good(m - 1)
  BY <1>1, <1>3
<1>5. PICK g : g = [i \in 0 .. (m - 1) |-> JoinStep(f, g, i)]
  BY <1>4
<1> DEFINE h == [i \in 0 .. m |-> IF i = m THEN JoinStep(f, g, i) ELSE g[i]]
<1>6. ASSUME NEW i \in 0 .. m PROVE h[i] = JoinStep(f, h, i)
  <2>1. CASE i = 0
    BY <1>3, <1>5, <2>1 DEF JoinStep
  <2>2. CASE i # 0
    <3>1. i - 1 \in 0 .. m /\ i - 1 # m /\ h[i - 1] = g[i - 1]
      BY <1>3, <2>2
    <3>2. JoinStep(f, h, i) = JoinStep(f, g, i)
      BY <3>1 DEF JoinStep
    <3>3. CASE i = m
      BY <3>2, <3>3
    <3>4. CASE i # m
      <4>1. i \in 0 .. (m - 1)
        BY <1>3, <3>4
      <4>2. g[i] = JoinStep(f, g, i)
        BY <1>5, <4>1
      <4> QED BY <3>2, <3>4, <4>2
    <3> QED BY <3>3, <3>4
  <2> QED BY <2>1, <2>2
<1>7. h = [i \in 0 .. m |-> JoinStep(f, h, i)]
  <2> HIDE DEF h
  <2>1. h = [i \in 0 .. m |-> h[i]]
    BY DEF h
  <2> QED BY <1>6, <2>1
<1>8. Good(m)
  BY <1>7
<1> QED BY <1>1, <1>8

\* What the first i queues of f hold, one behind the other.
JoinedTo(f, q, i) ==
    /\ \A x : x \in Members(q) <=> \E k \in 1 .. i : x \in Members(f[k])
    /\ Once(q)

\* Queues that are joined hold what each of them held, once.
LEMMA ConcatenationMembers ==
    ASSUME NEW X, NEW n \in Nat, NEW f \in [1 .. n -> Seq(X)],
           \A k \in 1 .. n : Once(f[k]),
           \A k, l \in 1 .. n : k # l => Members(f[k]) \cap Members(f[l]) = {}
    PROVE  Concatenation(f, n) \in Seq(X) /\ JoinedTo(f, Concatenation(f, n), n)
<1>1. \E g : g = [i \in 0 .. n |-> JoinStep(f, g, i)]
  BY LoopExists
<1>2. PICK g : g = [i \in 0 .. n |-> JoinStep(f, g, i)] /\ Concatenation(f, n) = g[n]
  BY <1>1 DEF Concatenation, JoinStep
<1>3. \A i \in 0 .. n : g[i] = JoinStep(f, g, i)
  BY <1>2
<1> DEFINE Good(i) == g[i] \in Seq(X) /\ JoinedTo(f, g[i], i)
           Bad == {i \in 0 .. n : ~Good(i)}
<1>4. Good(0)
  <2>1. g[0] = <<>> /\ <<>> \in Seq(X)
    BY <1>3 DEF JoinStep
  <2>2. 1 .. 0 = {}
    OBVIOUS
  <2> QED BY <2>1, <2>2, EmptyMembers DEF JoinedTo
<1>5. ASSUME NEW i \in 1 .. n, Good(i - 1) PROVE Good(i)
  <2>0. i \in 0 .. n /\ i # 0 /\ i - 1 \in Nat /\ i \in Nat
    OBVIOUS
  <2>1. g[i] = g[i - 1] \o f[i] /\ i - 1 \in Nat /\ i \in Nat
    BY <1>3, <2>0 DEF JoinStep
  <2>2. PICK q \in Seq(X), p \in Seq(X) : q = g[i - 1] /\ p = f[i]
    BY <1>5
  <2>3. Once(q) /\ Once(p)
    BY <1>5, <2>2 DEF JoinedTo
  <2>4. \A x : x \in Members(q) <=> \E k \in 1 .. i - 1 : x \in Members(f[k])
    BY <1>5, <2>2 DEF JoinedTo
  <2>5. ASSUME NEW k \in 1 .. i - 1 PROVE k \in 1 .. n /\ k # i /\ k \in 1 .. i
    BY <2>1
  <2>6. Members(q) \cap Members(p) = {}
    <3> SUFFICES ASSUME NEW x \in Members(q), x \in Members(p) PROVE FALSE
      OBVIOUS
    <3>1. PICK k \in 1 .. i - 1 : x \in Members(f[k])
      BY <2>4
    <3>2. Members(f[k]) \cap Members(f[i]) = {}
      BY <2>5
    <3> QED BY <2>2, <3>1, <3>2
  <2>7. /\ q \o p \in Seq(X) /\ Members(q \o p) = Members(q) \cup Members(p) /\ Once(q \o p)
    BY <2>3, <2>6, JoinMembers
  <2>8. \A k \in 1 .. i : k \in 1 .. i - 1 \/ k = i
    BY <2>1
  <2>9. ASSUME NEW x PROVE x \in Members(q \o p) <=> \E k \in 1 .. i : x \in Members(f[k])
    <3>1. x \in Members(q \o p) <=> x \in Members(q) \/ x \in Members(f[i])
      BY <2>2, <2>7
    <3>2. ASSUME x \in Members(q) PROVE \E k \in 1 .. i : x \in Members(f[k])
      <4>1. PICK k \in 1 .. i - 1 : x \in Members(f[k])
        BY <2>4, <3>2
      <4> QED BY <2>5, <4>1
    <3>3. i \in 1 .. i
      BY <2>0
    <3>4. ASSUME NEW k \in 1 .. i, x \in Members(f[k]), k # i PROVE x \in Members(q)
      <4>1. k \in 1 .. i - 1
        BY <2>8, <3>4
      <4> QED BY <2>4, <3>4, <4>1
    <3> QED BY <3>1, <3>2, <3>3, <3>4
  <2>10. JoinedTo(f, q \o p, i)
    BY <2>7, <2>9 DEF JoinedTo
  <2> QED BY <2>1, <2>2, <2>7, <2>10
<1>6. Good(n)
  <2> SUFFICES ASSUME ~Good(n) PROVE FALSE
    OBVIOUS
  <2>1. Bad \subseteq Nat /\ n \in Bad
    OBVIOUS
  <2>2. PICK i \in Bad : \A m \in Bad : i <= m
    BY <2>1, LeastNatural
  <2>3. i \in 1 .. n /\ i - 1 \in 0 .. n
    BY <1>4, <2>2
  <2>4. Good(i - 1)
    BY <2>2, <2>3
  <2> QED BY <1>5, <2>2, <2>3, <2>4
<1> QED BY <1>2, <1>6

-----------------------------------------------------------------------------
(* The inductive invariant.  Its parts take the queues and the fields of   *)
(* the threads as parameters, since an operation passes through values of  *)
(* them that no other CPU sees: a thread that yields is READY until        *)
(* scheduler_schedule() has chosen.                                        *)

QueueSet ==
    [run : [QueueIdx -> Seq(Threads)], sleep : Seq(Threads), wait : [WaitQueues -> Seq(Threads)]]

\* A run queue holds threads that can run, of its priorities, each once.
RunOK(q, st, pr, wk) ==
    \A i \in QueueIdx :
        /\ Once(q.run[i])
        /\ \A t \in Members(q.run[i]) :
              /\ t \in Workers \cup {Idle[0]}
              /\ PriorityToQueue(pr[t]) = i
              /\ st[t] \in {"READY", "RUNNING"}
              /\ \A k \in KernelThreads : wk[k] # t

\* The sleep list holds the sleepers.
SleepOK(q, st) ==
    /\ Once(q.sleep)
    /\ \A t \in Threads : t \in Members(q.sleep) <=> st[t] = "SLEEPING"

\* A wait queue holds the threads that say they are in it; they are the blocked ones.
WaitOK(q, st, bl) ==
    /\ \A w \in WaitQueues : /\ Once(q.wait[w])
                             /\ \A t \in Threads : t \in Members(q.wait[w]) <=> bl[t] = w
    /\ \A t \in Threads : st[t] = "BLOCKED" <=> bl[t] # NoQueue

\* A thread that is READY is in the run queue of its priority or being woken.
ReadyOK(q, st, pr, wk) ==
    \A t \in Workers : st[t] = "READY" => \/ t \in Members(q.run[PriorityToQueue(pr[t])])
                                          \/ \E k \in KernelThreads : wk[k] = t

\* A thread that is being woken is READY, and by one other thread only.
WakingOK(st, wk) ==
    \A k \in KernelThreads : wk[k] # NoThread =>
        /\ wk[k] \in Workers
        /\ st[wk[k]] = "READY"
        /\ \A l \in KernelThreads : wk[l] = wk[k] => l = k

\* No thread is dead, and an idle thread can always run.
AliveOK(st) ==
    /\ \A t \in Threads : st[t] \in {"READY", "RUNNING", "BLOCKED", "SLEEPING"}
    /\ \A c \in CPUs : st[Idle[c]] \in {"READY", "RUNNING"}

Placed(q, st, pr, bl, wk) ==
    /\ q \in QueueSet
    /\ RunOK(q, st, pr, wk)
    /\ SleepOK(q, st)
    /\ WaitOK(q, st, bl)
    /\ ReadyOK(q, st, pr, wk)
    /\ WakingOK(st, wk)
    /\ AliveOK(st)

SchedulerInv ==
    /\ SchedulerTypeOK
    /\ Placed(queues, tstate, priority, blocked_on, waking)
    /\ RunningIsCurrent

-----------------------------------------------------------------------------
(* The constants.                                                          *)

LEMMA SchedulerFacts ==
    /\ 0 \in CPUs /\ Workers \subseteq Threads /\ Aps \subseteq CPUs /\ 0 \notin Aps
    /\ UserThreads \subseteq Workers /\ KernelThreads \subseteq Workers
    /\ \A c \in CPUs : Idle[c] \in Threads /\ Idle[c] \notin Workers
    /\ \A c, d \in CPUs : Idle[c] = Idle[d] => c = d
    /\ \A t \in Threads : t \in Workers \/ \E c \in CPUs : t = Idle[c]
    /\ NoThread \notin Threads /\ NoQueue \notin WaitQueues
<1>1. 0 \in CPUs
  BY SchedulerAssumption DEF CPUs
<1>2. /\ Workers \subseteq Threads /\ Aps \subseteq CPUs /\ 0 \notin Aps
      /\ UserThreads \subseteq Workers /\ KernelThreads \subseteq Workers
      /\ \A t \in Threads : t \in Workers \/ \E c \in CPUs : t = Idle[c]
      /\ \A c \in CPUs : Idle[c] \in Threads
  BY DEF Workers, Threads, Aps
<1> QED BY <1>1, <1>2, SchedulerAssumption

\* A run queue has a number from 0 to 39.
LEMMA QueueNumber == ASSUME NEW p \in 1 .. 99 PROVE PriorityToQueue(p) \in 0 .. 39
<1>1. PICK n \in Int : n = (p - 1) * 40
  OBVIOUS
<1>2. n >= 0 /\ n <= 3920
  BY <1>1
<1>3. n \div 99 \in Int /\ n \div 99 >= 0 /\ n \div 99 <= 39
  BY <1>2
<1>4. PriorityToQueue(p) = IF 39 - (n \div 99) < 0 THEN 0 ELSE 39 - (n \div 99)
  BY <1>1 DEF PriorityToQueue, PRIO_MIN, PRIO_MAX, NUM_QUEUES
<1>5. PICK m \in Int : m = n \div 99
  BY <1>3
<1> QED BY <1>3, <1>4, <1>5

LEMMA QueueFacts ==
    /\ QueueIdx \subseteq 0 .. 39
    /\ \A p \in Priorities : p \in Int /\ PriorityToQueue(p) \in QueueIdx
    /\ \A p \in Priorities : p > PRIO_LOW => p - 5 \in Priorities
<1>1. Priorities \subseteq 1 .. 99
  BY SchedulerAssumption DEF PRIO_MIN, PRIO_MAX
<1>2. \A p \in Priorities : PriorityToQueue(p) \in 0 .. 39
  BY <1>1, QueueNumber
<1>3. QueueIdx \subseteq 0 .. 39
  BY <1>2 DEF QueueIdx
<1>4. \A p \in Priorities : p \in Int /\ PriorityToQueue(p) \in QueueIdx
  BY <1>1 DEF QueueIdx
<1> QED BY <1>3, <1>4, SchedulerAssumption

LEMMA TimesliceNat == ASSUME NEW p \in Int PROVE Timeslice(p) \in Nat
<1>1. /\ TIMESLICE_REALTIME \in Nat /\ TIMESLICE_HIGH \in Nat
      /\ TIMESLICE_DEFAULT \in Nat /\ TIMESLICE_LOW \in Nat
  BY SchedulerAssumption
<1> QED BY <1>1 DEF Timeslice, PRIO_REALTIME, PRIO_HIGH, PRIO_LOW

LEMMA LeastOf ==
    ASSUME NEW S, S \subseteq Nat, S # {}
    PROVE  Min(S) \in S
BY LeastNatural DEF Min

-----------------------------------------------------------------------------
(* Changing one queue.                                                     *)

RunSet(q, z, i, x) == z = [q EXCEPT !.run[i] = x]
SleepSet(q, z, x) == z = [q EXCEPT !.sleep = x]
WaitSet(q, z, w, x) == z = [q EXCEPT !.wait[w] = x]

LEMMA ChangeRun ==
    ASSUME NEW q \in QueueSet, NEW i \in QueueIdx, NEW x \in Seq(Threads), NEW z, RunSet(q, z, i, x)
    PROVE  /\ z \in QueueSet /\ z.run[i] = x /\ z.sleep = q.sleep /\ z.wait = q.wait
           /\ \A j \in QueueIdx : j # i => z.run[j] = q.run[j]
BY DEF QueueSet, RunSet

LEMMA ChangeSleep ==
    ASSUME NEW q \in QueueSet, NEW x \in Seq(Threads), NEW z, SleepSet(q, z, x)
    PROVE  z \in QueueSet /\ z.sleep = x /\ z.run = q.run /\ z.wait = q.wait
BY DEF QueueSet, SleepSet

LEMMA ChangeWait ==
    ASSUME NEW q \in QueueSet, NEW w \in WaitQueues, NEW x \in Seq(Threads), NEW z, WaitSet(q, z, w, x)
    PROVE  /\ z \in QueueSet /\ z.wait[w] = x /\ z.sleep = q.sleep /\ z.run = q.run
           /\ \A v \in WaitQueues : v # w => z.wait[v] = q.wait[v]
BY DEF QueueSet, WaitSet

LEMMA QueueTypes ==
    ASSUME NEW q \in QueueSet
    PROVE  /\ q.run \in [QueueIdx -> Seq(Threads)] /\ q.sleep \in Seq(Threads)
           /\ q.wait \in [WaitQueues -> Seq(Threads)]
           /\ \A i \in QueueIdx : q.run[i] \in Seq(Threads) /\ Members(q.run[i]) \subseteq Threads
           /\ \A w \in WaitQueues : q.wait[w] \in Seq(Threads) /\ Members(q.wait[w]) \subseteq Threads
           /\ Members(q.sleep) \subseteq Threads
<1>1. /\ q.run \in [QueueIdx -> Seq(Threads)] /\ q.sleep \in Seq(Threads)
      /\ q.wait \in [WaitQueues -> Seq(Threads)]
  BY DEF QueueSet
<1>2. \A x \in Seq(Threads) : Members(x) \subseteq Threads
  BY DEF Members
<1> QED BY <1>1, <1>2

-----------------------------------------------------------------------------
(* Switching.                                                              *)

\* What the CPUs run: cu gives each CPU its thread.
OneCpuEach(cu) ==
    /\ cu \in [CPUs -> Threads \cup {NoThread}]
    /\ \A c, d \in CPUs : /\ cu[c] = cu[d] /\ cu[c] # NoThread => c = d
                          /\ cu[c] = Idle[d] => c = d

\* A thread is RUNNING exactly on a CPU.
CpusOK(st, cu) ==
    /\ OneCpuEach(cu)
    /\ st \in [Threads -> TaskStates]
    /\ \A t \in Threads : st[t] = "RUNNING" <=> \E c \in CPUs : cu[c] = t

\* The threads that can run may trade READY for RUNNING: where they are queued does
\* not depend on it.
LEMMA ShiftPlaced ==
    ASSUME NEW q, NEW st, NEW pr, NEW bl, NEW wk, Placed(q, st, pr, bl, wk), NEW z,
           \A t \in Threads : z[t] = st[t] \/ {st[t], z[t]} \subseteq {"READY", "RUNNING"},
           \A t \in Workers : z[t] = "READY" => st[t] = "READY",
           \A k \in KernelThreads : wk[k] \in Workers => z[wk[k]] = st[wk[k]]
    PROVE  Placed(q, z, pr, bl, wk)
<1>1. q \in QueueSet
  BY DEF Placed
<1>2. RunOK(q, z, pr, wk)
  BY <1>1, QueueTypes DEF Placed, RunOK
<1>3. SleepOK(q, z) /\ WaitOK(q, z, bl)
  BY DEF Placed, SleepOK, WaitOK
<1>4. ReadyOK(q, z, pr, wk)
  BY DEF Placed, ReadyOK
<1>5. WakingOK(z, wk)
  BY DEF Placed, WakingOK
<1>6. AliveOK(z)
  BY SchedulerFacts DEF Placed, AliveOK
<1> QED BY <1>1, <1>2, <1>3, <1>4, <1>5, <1>6 DEF Placed

\* pick_next_task() finds a thread that can run, that no other CPU runs and that is
\* not another CPU's idle thread.
LEMMA PickFacts ==
    ASSUME NEW q, NEW st, NEW pr, NEW bl, NEW wk, Placed(q, st, pr, bl, wk), OneCpuEach(current),
           NEW c \in CPUs, NEW t, t = PickNext(c, q)
    PROVE  /\ t \in Threads /\ st[t] \in {"READY", "RUNNING"}
           /\ \A d \in CPUs : d # c => current[d] # t
           /\ \A d \in CPUs : t = Idle[d] => c = d
           /\ \A k \in KernelThreads : wk[k] # t
           /\ t \in Workers => \E i \in QueueIdx : t \in Members(q.run[i])
<1> DEFINE places(i) == {n \in DOMAIN q.run[i] : MayRun(c, q.run[i][n])}
           ready == {i \in QueueIdx : places(i) # {}}
<1>1. q \in QueueSet
  BY DEF Placed
<1>2. CASE t = Idle[c]
  <2>1. st[t] \in {"READY", "RUNNING"}
    BY <1>2 DEF Placed, AliveOK
  <2>2. \A d \in CPUs : d # c => current[d] # t
    BY <1>2 DEF OneCpuEach
  <2>3. \A k \in KernelThreads : wk[k] # t
    BY <1>2, SchedulerFacts DEF Placed, WakingOK
  <2> QED BY <1>2, <2>1, <2>2, <2>3, SchedulerFacts
<1>3. CASE t # Idle[c]
  <2>1. ready # {} /\ t = q.run[Min(ready)][Min(places(Min(ready)))]
    BY <1>3 DEF PickNext
  <2>2. PICK i \in QueueIdx : places(i) # {} /\ t = q.run[i][Min(places(i))]
    <3>0. \A i \in QueueIdx : i \in Nat
      BY QueueFacts
    <3>1. ready \subseteq Nat
      <4> HIDE DEF places
      <4> QED BY <3>0
    <3>2. Min(ready) \in ready
      BY <2>1, <3>1, LeastOf
    <3> QED BY <2>1, <3>2
  <2>3. PICK n \in DOMAIN q.run[i] : t = q.run[i][n] /\ MayRun(c, t)
    <3>1. q.run[i] \in Seq(Threads)
      BY <1>1, QueueTypes
    <3>2. places(i) \subseteq Nat
      BY <3>1
    <3>3. Min(places(i)) \in places(i)
      BY <2>2, <3>2, LeastOf
    <3> QED BY <2>2, <3>3
  <2>4. t \in Members(q.run[i])
    <3>1. q.run[i] \in Seq(Threads)
      BY <1>1, QueueTypes
    <3> QED BY <2>3, <3>1 DEF Members
  <2>5. /\ t \in Workers \cup {Idle[0]} /\ st[t] \in {"READY", "RUNNING"} /\ t \in Threads
        /\ \A k \in KernelThreads : wk[k] # t
    BY <1>1, <2>4, QueueTypes DEF Placed, RunOK
  <2>6. \A d \in CPUs : d # c => current[d] # t
    BY <2>3, <2>5, SchedulerFacts DEF MayRun, OnCpu, OneCpuEach
  <2>7. ASSUME NEW d \in CPUs, t = Idle[d] PROVE c = d
    <3>1. t = Idle[0] /\ d = 0 /\ t \notin UserThreads
      BY <2>5, <2>7, SchedulerFacts
    <3>2. CASE t = current[c]
      BY <2>7, <3>2 DEF OneCpuEach
    <3>3. CASE c = 0
      BY <3>1, <3>3
    <3> QED BY <2>3, <3>1, <3>2, <3>3 DEF MayRun
  <2> QED BY <2>4, <2>5, <2>6, <2>7
<1> QED BY <1>2, <1>3

\* The state in which scheduler_schedule() is called on CPU c: the thread of c is
\* queued for what it asked for, or is the idle thread.
Leaving(c, st) ==
    /\ OneCpuEach(current)
    /\ st \in [Threads -> TaskStates]
    /\ \A t \in Threads : t # current[c] => (st[t] = "RUNNING" <=> OnCpu(t))
    /\ \A k \in KernelThreads : waking[k] \in Workers => waking[k] # current[c]
    /\ current[c] \in Workers => st[current[c]] # "RUNNING"

LEMMA SwitchPlaced ==
    ASSUME NEW c \in CPUs, NEW q, NEW st, NEW pr, NEW bl, Placed(q, st, pr, bl, waking), Leaving(c, st),
           NEW t, t = PickNext(c, q), Switches(c, t, st), NEW cu, cu = [current EXCEPT ![c] = t],
           NEW z, z = SwitchState(c, t, st)
    PROVE  Placed(q, z, pr, bl, waking) /\ CpusOK(z, cu)
<1>1. /\ t \in Threads /\ st[t] \in {"READY", "RUNNING"}
      /\ \A d \in CPUs : d # c => current[d] # t
      /\ \A d \in CPUs : t = Idle[d] => c = d
      /\ \A k \in KernelThreads : waking[k] # t
  BY PickFacts DEF Leaving
<1>2. t # current[c] /\ current \in [CPUs -> Threads \cup {NoThread}] /\ st \in [Threads -> TaskStates]
  BY DEF Switches, Leaving, OneCpuEach
<1>3. \A d \in CPUs : cu[d] = IF d = c THEN t ELSE current[d]
  BY <1>2
<1>4. \A x \in Threads : z[x] = IF x = t THEN "RUNNING"
                                ELSE IF x = current[c] /\ st[x] = "RUNNING" THEN "READY" ELSE st[x]
  BY DEF SwitchState
<1>5. z \in [Threads -> TaskStates]
  BY <1>2 DEF SwitchState, TaskStates
<1>6. cu \in [CPUs -> Threads \cup {NoThread}]
  BY <1>1, <1>2
<1>7. OneCpuEach(cu)
  BY <1>1, <1>3, <1>6 DEF OneCpuEach, Leaving
<1>8. ASSUME NEW x \in Threads PROVE z[x] = "RUNNING" <=> \E d \in CPUs : cu[d] = x
  <2>1. CASE x = t
    BY <1>3, <1>4, <2>1
  <2>2. CASE x # t /\ x = current[c]
    <3>1. z[x] # "RUNNING"
      BY <1>4, <2>2
    <3>2. \A d \in CPUs : cu[d] # x
      <4> TAKE d \in CPUs
      <4>1. x # NoThread
        BY SchedulerFacts
      <4> QED BY <1>3, <2>2, <4>1 DEF Leaving, OneCpuEach
    <3> QED BY <3>1, <3>2
  <2>3. CASE x # t /\ x # current[c]
    <3>1. z[x] = st[x] /\ (st[x] = "RUNNING" <=> OnCpu(x))
      BY <1>4, <2>3 DEF Leaving
    <3>2. OnCpu(x) <=> \E d \in CPUs : cu[d] = x
      BY <1>3, <2>3 DEF OnCpu
    <3> QED BY <3>1, <3>2
  <2> QED BY <2>1, <2>2, <2>3
<1>9. Placed(q, z, pr, bl, waking)
  <2>1. \A x \in Threads : z[x] = st[x] \/ {st[x], z[x]} \subseteq {"READY", "RUNNING"}
    BY <1>1, <1>4
  <2>2. \A x \in Workers : z[x] = "READY" => st[x] = "READY"
    BY <1>4, SchedulerFacts DEF Leaving
  <2>3. \A k \in KernelThreads : waking[k] \in Workers => z[waking[k]] = st[waking[k]]
    BY <1>1, <1>4, SchedulerFacts DEF Leaving
  <2> QED BY <2>1, <2>2, <2>3, ShiftPlaced
<1> QED BY <1>5, <1>7, <1>8, <1>9 DEF CpusOK

\* The thread that stays is RUNNING again.
LEMMA StayPlaced ==
    ASSUME NEW c \in CPUs, NEW q, NEW st, NEW pr, NEW bl, Placed(q, st, pr, bl, waking), Leaving(c, st),
           NEW t, t = PickNext(c, q), ~Switches(c, t, st), NEW z, z = StayState(c, t, st)
    PROVE  Placed(q, z, pr, bl, waking) /\ CpusOK(z, current)
<1>1. /\ t \in Threads /\ st[t] \in {"READY", "RUNNING"}
      /\ \A k \in KernelThreads : waking[k] # t
  BY PickFacts DEF Leaving
<1>2. t = current[c] /\ current \in [CPUs -> Threads \cup {NoThread}] /\ st \in [Threads -> TaskStates]
  BY <1>1 DEF Switches, Dead, Leaving, OneCpuEach
<1>3. \A x \in Threads : z[x] = IF x = t THEN "RUNNING" ELSE st[x]
  BY <1>1, <1>2 DEF StayState
<1>4. z \in [Threads -> TaskStates]
  BY <1>1, <1>2 DEF StayState, TaskStates
<1>5. ASSUME NEW x \in Threads PROVE z[x] = "RUNNING" <=> \E d \in CPUs : current[d] = x
  BY <1>2, <1>3 DEF Leaving, OnCpu
<1>6. Placed(q, z, pr, bl, waking)
  <2>1. \A x \in Threads : z[x] = st[x] \/ {st[x], z[x]} \subseteq {"READY", "RUNNING"}
    BY <1>1, <1>3
  <2>2. \A x \in Workers : z[x] = "READY" => st[x] = "READY"
    BY <1>3, SchedulerFacts
  <2>3. \A k \in KernelThreads : waking[k] \in Workers => z[waking[k]] = st[waking[k]]
    BY <1>1, <1>3, SchedulerFacts
  <2> QED BY <2>1, <2>2, <2>3, ShiftPlaced
<1> QED BY <1>4, <1>5, <1>6 DEF CpusOK, Leaving

\* scheduler_schedule()
LEMMA SchedulePlaced ==
    ASSUME NEW c \in CPUs, NEW q, NEW st, NEW pr, NEW bl, Placed(q, st, pr, bl, waking), Leaving(c, st),
           Schedule(c, q, st)
    PROVE  Placed(q, tstate', pr, bl, waking) /\ CpusOK(tstate', current')
<1>1. PICK t : t = PickNext(c, q)
  OBVIOUS
<1>2. IF Switches(c, t, st)
      THEN current' = [current EXCEPT ![c] = t] /\ tstate' = SwitchState(c, t, st)
      ELSE tstate' = StayState(c, t, st) /\ UNCHANGED current
  BY <1>1 DEF Schedule
<1>3. CASE Switches(c, t, st)
  BY <1>1, <1>2, <1>3, SwitchPlaced
<1>4. CASE ~Switches(c, t, st)
  BY <1>1, <1>2, <1>4, StayPlaced
<1> QED BY <1>3, <1>4

-----------------------------------------------------------------------------
(* What a running thread asks for.                                         *)

LEMMA InvCpus ==
    ASSUME SchedulerInv
    PROVE  CpusOK(tstate, current) /\ OneCpuEach(current)
BY DEF SchedulerInv, SchedulerTypeOK, RunningIsCurrent, OnCpu, CpusOK, OneCpuEach

LEMMA CpusRunning ==
    ASSUME CpusOK(tstate', current')
    PROVE  /\ RunningIsCurrent' /\ tstate' \in [Threads -> TaskStates]
           /\ current' \in [CPUs -> Threads \cup {NoThread}]
BY DEF RunningIsCurrent, OnCpu, CpusOK, OneCpuEach

\* The thread that CPU c runs.
LEMMA CurrentFacts ==
    ASSUME SchedulerInv, NEW c \in CPUs, NEW t, t = current[c], t # NoThread
    PROVE  /\ t \in Threads /\ tstate[t] = "RUNNING" /\ blocked_on[t] = NoQueue
           /\ t \notin Members(queues.sleep)
           /\ \A w \in WaitQueues : t \notin Members(queues.wait[w])
           /\ \A k \in KernelThreads : waking[k] # t
           /\ t \in Workers \cup {Idle[c]}
           /\ priority[t] \in Priorities /\ PriorityToQueue(priority[t]) \in QueueIdx
           /\ \A i \in QueueIdx : t \in Members(queues.run[i]) => i = PriorityToQueue(priority[t])
<1>1. t \in Threads /\ tstate[t] = "RUNNING"
  BY InvCpus DEF CpusOK, OneCpuEach
<1>2. blocked_on[t] = NoQueue
  BY <1>1 DEF SchedulerInv, Placed, WaitOK
<1>3. t \notin Members(queues.sleep)
  BY <1>1 DEF SchedulerInv, Placed, SleepOK
<1>4. \A w \in WaitQueues : t \notin Members(queues.wait[w])
  BY <1>1, <1>2, SchedulerFacts DEF SchedulerInv, Placed, WaitOK
<1>5. \A k \in KernelThreads : waking[k] # t
  BY <1>1, SchedulerFacts DEF SchedulerInv, Placed, WakingOK
<1>6. t \in Workers \cup {Idle[c]}
  BY <1>1, SchedulerFacts, InvCpus DEF OneCpuEach
<1>7. priority[t] \in Priorities /\ PriorityToQueue(priority[t]) \in QueueIdx
  BY <1>1, QueueFacts DEF SchedulerInv, SchedulerTypeOK
<1>8. \A i \in QueueIdx : t \in Members(queues.run[i]) => i = PriorityToQueue(priority[t])
  BY DEF SchedulerInv, Placed, RunOK
<1> QED BY <1>1, <1>2, <1>3, <1>4, <1>5, <1>6, <1>7, <1>8

\* The queues z are q without the thread t, which was in no list but perhaps a run
\* queue.
Unlinked(q, z, t) ==
    /\ z \in QueueSet /\ z.sleep = q.sleep /\ z.wait = q.wait
    /\ \A i \in QueueIdx : Once(z.run[i]) /\ Members(z.run[i]) = Members(q.run[i]) \ {t}

\* scheduler_remove_task() of the running thread.
LEMMA RemoveCurrent ==
    ASSUME SchedulerInv, NEW c \in CPUs, NEW t, t = current[c], t # NoThread
    PROVE  Unlinked(queues, RemoveTask(queues, t), t)
<1>1. PICK i \in QueueIdx : i = PriorityToQueue(priority[t])
  BY CurrentFacts
<1>2. queues \in QueueSet /\ \A j \in QueueIdx : Once(queues.run[j])
  BY DEF SchedulerInv, Placed, RunOK
<1>3. RemoveTask(queues, t) = [queues EXCEPT !.run[i] = Without(queues.run[i], {t})]
  <2>1. blocked_on[t] = NoQueue /\ ~Contains(queues.sleep, t)
    BY CurrentFacts, ContainsMember
  <2> QED BY <1>1, <2>1 DEF RemoveTask
<1>4. queues.run[i] \in Seq(Threads)
  BY <1>2, QueueTypes
<1>5. PICK x \in Seq(Threads) : /\ x = Without(queues.run[i], {t})
                                /\ Members(x) = Members(queues.run[i]) \ {t} /\ Once(x)
  BY <1>2, <1>4, WithoutMembers
<1>6. PICK z : RunSet(queues, z, i, x)
  BY DEF RunSet
<1>7. /\ z \in QueueSet /\ z.run[i] = x /\ z.sleep = queues.sleep /\ z.wait = queues.wait
      /\ \A j \in QueueIdx : j # i => z.run[j] = queues.run[j]
  BY <1>2, <1>6, ChangeRun
<1>8. ASSUME NEW j \in QueueIdx
      PROVE  Once(z.run[j]) /\ Members(z.run[j]) = Members(queues.run[j]) \ {t}
  <2>1. CASE j = i
    BY <1>5, <1>7, <2>1
  <2>2. CASE j # i
    <3>1. t \notin Members(queues.run[j])
      BY <1>1, <2>2, CurrentFacts
    <3> QED BY <1>2, <1>7, <2>2, <3>1
  <2> QED BY <2>1, <2>2
<1>9. RemoveTask(queues, t) = z
  BY <1>3, <1>5, <1>6 DEF RunSet
<1> QED BY <1>7, <1>8, <1>9 DEF Unlinked

\* The thread t has got the state s.
Changed(st, t, s) == st = [tstate EXCEPT ![t] = s]

\* What a state in which the thread of c has become s is like for the other threads.
LEMMA LeavingFacts ==
    ASSUME SchedulerInv, NEW c \in CPUs, NEW t, t = current[c], t # NoThread,
           NEW s \in TaskStates, s # "RUNNING", NEW st, Changed(st, t, s)
    PROVE  /\ Leaving(c, st) /\ st[t] = s /\ st \in [Threads -> TaskStates]
           /\ \A x \in Threads : x # t => st[x] = tstate[x]
<1>1. t \in Threads /\ \A k \in KernelThreads : waking[k] # t
  BY CurrentFacts
<1>2. OneCpuEach(current) /\ CpusOK(tstate, current) /\ tstate \in [Threads -> TaskStates]
  BY InvCpus DEF CpusOK
<1>3. st \in [Threads -> TaskStates] /\ st[t] = s /\ \A x \in Threads : x # t => st[x] = tstate[x]
  BY <1>1, <1>2 DEF Changed
<1> QED BY <1>1, <1>2, <1>3 DEF Leaving, CpusOK, OnCpu

\* scheduler_remove_task() and scheduler_add_task() of the running thread.
LEMMA RequeuePlaced ==
    ASSUME SchedulerInv, NEW c \in CPUs, NEW t, t = current[c], t # NoThread, t \in Workers \cup {Idle[0]},
           NEW st, Changed(st, t, "READY")
    PROVE  Placed(Requeue(queues, t), st, priority, blocked_on, waking) /\ Leaving(c, st)
<1>1. /\ Leaving(c, st) /\ st[t] = "READY" /\ \A x \in Threads : x # t => st[x] = tstate[x]
  <2>1. "READY" \in TaskStates /\ "READY" # "RUNNING"
    BY DEF TaskStates
  <2> QED BY <2>1, LeavingFacts
<1>2. PICK q : q = RemoveTask(queues, t) /\ Unlinked(queues, q, t)
  BY RemoveCurrent
<1>3. /\ t \in Threads /\ tstate[t] = "RUNNING" /\ \A k \in KernelThreads : waking[k] # t
      /\ blocked_on[t] = NoQueue
  BY CurrentFacts
<1>4. PICK i \in QueueIdx : i = PriorityToQueue(priority[t])
  BY CurrentFacts
<1>5. q \in QueueSet /\ q.run[i] \in Seq(Threads) /\ Once(q.run[i]) /\ t \notin Members(q.run[i])
  BY <1>2, QueueTypes DEF Unlinked
<1>5a. /\ Append(q.run[i], t) \in Seq(Threads) /\ Once(Append(q.run[i], t))
       /\ Members(Append(q.run[i], t)) = Members(q.run[i]) \cup {t}
  BY <1>3, <1>5, AppendMembers
<1>6. PICK x \in Seq(Threads) : /\ x = Append(q.run[i], t) /\ Once(x)
                                /\ Members(x) = Members(q.run[i]) \cup {t}
  BY <1>5a
<1>7. PICK z : RunSet(q, z, i, x)
  BY DEF RunSet
<1>8. /\ z \in QueueSet /\ z.run[i] = x /\ z.sleep = q.sleep /\ z.wait = q.wait
      /\ \A j \in QueueIdx : j # i => z.run[j] = q.run[j]
  BY <1>5, <1>7, ChangeRun
<1>9. Requeue(queues, t) = z
  BY <1>2, <1>4, <1>6, <1>7 DEF Requeue, Enqueue, RunSet
<1>10. z.sleep = queues.sleep /\ z.wait = queues.wait
  BY <1>2, <1>8 DEF Unlinked
<1>11. \A j \in QueueIdx : /\ Once(z.run[j])
                           /\ \A y : y \in Members(z.run[j]) <=>
                                (y # t /\ y \in Members(queues.run[j])) \/ (y = t /\ j = i)
  <2> TAKE j \in QueueIdx
  <2>1. Once(q.run[j]) /\ Members(q.run[j]) = Members(queues.run[j]) \ {t}
    BY <1>2 DEF Unlinked
  <2>2. CASE j = i
    BY <1>6, <1>8, <2>1, <2>2
  <2>3. CASE j # i
    BY <1>8, <2>1, <2>3
  <2> QED BY <2>2, <2>3
<1>12. RunOK(z, st, priority, waking)
  <2> SUFFICES ASSUME NEW j \in QueueIdx, NEW y \in Members(z.run[j])
               PROVE  /\ y \in Workers \cup {Idle[0]} /\ PriorityToQueue(priority[y]) = j
                      /\ st[y] \in {"READY", "RUNNING"} /\ \A k \in KernelThreads : waking[k] # y
    BY <1>11 DEF RunOK
  <2>1. CASE y = t /\ j = i
    BY <1>1, <1>3, <1>4, <2>1
  <2>2. CASE y # t /\ y \in Members(queues.run[j])
    <3>1. y \in Threads
      BY QueueTypes, <2>2 DEF SchedulerInv, Placed
    <3> QED BY <1>1, <2>2, <3>1 DEF SchedulerInv, Placed, RunOK
  <2> QED BY <1>11, <2>1, <2>2
<1>13. SleepOK(z, st) /\ WaitOK(z, st, blocked_on)
  BY <1>1, <1>3, <1>10 DEF SchedulerInv, Placed, SleepOK, WaitOK
<1>14. ReadyOK(z, st, priority, waking)
  <2> SUFFICES ASSUME NEW y \in Workers, st[y] = "READY", \A k \in KernelThreads : waking[k] # y
               PROVE  y \in Members(z.run[PriorityToQueue(priority[y])])
    BY DEF ReadyOK
  <2>1. CASE y = t
    BY <1>4, <1>11, <2>1
  <2>2. CASE y # t
    <3>1. y \in Members(queues.run[PriorityToQueue(priority[y])])
      BY <1>1, <2>2, SchedulerFacts DEF SchedulerInv, Placed, ReadyOK
    <3>2. PriorityToQueue(priority[y]) \in QueueIdx
      BY QueueFacts, SchedulerFacts DEF SchedulerInv, SchedulerTypeOK
    <3> QED BY <1>11, <2>2, <3>1, <3>2
  <2> QED BY <2>1, <2>2
<1>15. WakingOK(st, waking)
  BY <1>1, <1>3, SchedulerFacts DEF SchedulerInv, Placed, WakingOK
<1>16. AliveOK(st)
  BY <1>1, SchedulerFacts DEF SchedulerInv, Placed, AliveOK
<1> QED BY <1>1, <1>8, <1>9, <1>12, <1>13, <1>14, <1>15, <1>16 DEF Placed

SameRun(q, z) == z.run = q.run

\* The states of a thread that has given its CPU up for something.
Waits(s) == s \in {"SLEEPING", "BLOCKED"}

\* The running thread t has left its run queue and is not READY: the queues of the
\* others are as before, and z has the same run queues as q.
LEMMA GonePlaced ==
    ASSUME SchedulerInv, NEW c \in CPUs, NEW t, t = current[c], t \in Workers,
           NEW s, Waits(s), NEW st, Changed(st, t, s),
           NEW q, Unlinked(queues, q, t), NEW z, SameRun(q, z)
    PROVE  /\ RunOK(z, st, priority, waking) /\ ReadyOK(z, st, priority, waking)
           /\ WakingOK(st, waking) /\ AliveOK(st) /\ Leaving(c, st)
           /\ st[t] = s /\ \A x \in Threads : x # t => st[x] = tstate[x]
<1>0. t # NoThread /\ s \in TaskStates /\ s # "RUNNING"
  BY SchedulerFacts DEF TaskStates, Waits
<1>1. Leaving(c, st) /\ st[t] = s /\ \A x \in Threads : x # t => st[x] = tstate[x]
  BY <1>0, LeavingFacts
<1>2. t \in Threads /\ tstate[t] = "RUNNING" /\ \A k \in KernelThreads : waking[k] # t
  BY <1>0, CurrentFacts
<1>3. \A j \in QueueIdx : Once(z.run[j]) /\ Members(z.run[j]) = Members(queues.run[j]) \ {t}
  BY DEF Unlinked, SameRun
<1>4. RunOK(z, st, priority, waking)
  <2> SUFFICES ASSUME NEW j \in QueueIdx, NEW y \in Members(z.run[j])
               PROVE  /\ y \in Workers \cup {Idle[0]} /\ PriorityToQueue(priority[y]) = j
                      /\ st[y] \in {"READY", "RUNNING"} /\ \A k \in KernelThreads : waking[k] # y
    BY <1>3 DEF RunOK
  <2>1. y # t /\ y \in Members(queues.run[j])
    BY <1>3
  <2>2. y \in Threads
    BY QueueTypes, <2>1 DEF SchedulerInv, Placed
  <2> QED BY <1>1, <2>1, <2>2 DEF SchedulerInv, Placed, RunOK
<1>5. ReadyOK(z, st, priority, waking)
  <2> SUFFICES ASSUME NEW y \in Workers, st[y] = "READY", \A k \in KernelThreads : waking[k] # y
               PROVE  y \in Members(z.run[PriorityToQueue(priority[y])])
    BY DEF ReadyOK
  <2>1. y # t /\ y \in Threads /\ tstate[y] = "READY"
    BY <1>1, SchedulerFacts DEF Waits
  <2>2. y \in Members(queues.run[PriorityToQueue(priority[y])])
    BY <2>1 DEF SchedulerInv, Placed, ReadyOK
  <2>3. PriorityToQueue(priority[y]) \in QueueIdx
    BY QueueFacts, SchedulerFacts DEF SchedulerInv, SchedulerTypeOK
  <2> QED BY <1>3, <2>1, <2>2, <2>3
<1>6. WakingOK(st, waking)
  BY <1>1, <1>2, SchedulerFacts DEF SchedulerInv, Placed, WakingOK
<1>7. AliveOK(st)
  BY <1>1, SchedulerFacts DEF SchedulerInv, Placed, AliveOK, Waits
<1> QED BY <1>1, <1>4, <1>5, <1>6, <1>7

\* scheduler_sleep(): the running thread goes to the head of the sleep list.
LEMMA SleepPlaced ==
    ASSUME SchedulerInv, NEW c \in CPUs, NEW t, t = current[c], t \in Workers,
           NEW st, Changed(st, t, "SLEEPING")
    PROVE  /\ Placed([RemoveTask(queues, t) EXCEPT !.sleep = <<t>> \o @],
                     st, priority, blocked_on, waking)
           /\ Leaving(c, st)
<1>0. t # NoThread
  BY SchedulerFacts
<1>1. PICK q : q = RemoveTask(queues, t) /\ Unlinked(queues, q, t)
  BY <1>0, RemoveCurrent
<1>2. /\ t \in Threads /\ tstate[t] = "RUNNING" /\ t \notin Members(queues.sleep)
      /\ blocked_on[t] = NoQueue
  BY <1>0, CurrentFacts
<1>3. q \in QueueSet /\ q.sleep = queues.sleep /\ q.wait = queues.wait
  BY <1>1 DEF Unlinked
<1>4. queues.sleep \in Seq(Threads) /\ Once(queues.sleep)
  BY QueueTypes DEF SchedulerInv, Placed, SleepOK
<1>5. /\ <<t>> \o queues.sleep \in Seq(Threads) /\ Once(<<t>> \o queues.sleep)
      /\ Members(<<t>> \o queues.sleep) = Members(queues.sleep) \cup {t}
  <2>1. <<t>> \in Seq(Threads) /\ Members(<<t>>) = {t} /\ Once(<<t>>)
    BY <1>2, SingleMembers
  <2>2. PICK p : p = <<t>>
    OBVIOUS
  <2>3. p \in Seq(Threads) /\ Members(p) = {t} /\ Once(p)
    BY <2>1, <2>2
  <2>4. Members(p) \cap Members(queues.sleep) = {}
    BY <1>2, <2>3
  <2>5. /\ p \o queues.sleep \in Seq(Threads) /\ Once(p \o queues.sleep)
        /\ Members(p \o queues.sleep) = Members(p) \cup Members(queues.sleep)
    BY <1>4, <2>3, <2>4, JoinMembers
  <2> QED BY <2>2, <2>3, <2>5
<1>6. PICK x \in Seq(Threads) : /\ x = <<t>> \o queues.sleep /\ Once(x)
                                /\ Members(x) = Members(queues.sleep) \cup {t}
  BY <1>5
<1>7. PICK z : SleepSet(q, z, x)
  BY DEF SleepSet
<1>7a. [RemoveTask(queues, t) EXCEPT !.sleep = <<t>> \o @] = z
  BY <1>1, <1>3, <1>6, <1>7 DEF SleepSet
<1>8. z \in QueueSet /\ z.sleep = x /\ z.run = q.run /\ z.wait = q.wait
  BY <1>3, <1>7, ChangeSleep
<1>9. /\ RunOK(z, st, priority, waking) /\ ReadyOK(z, st, priority, waking)
      /\ WakingOK(st, waking) /\ AliveOK(st) /\ Leaving(c, st)
      /\ st[t] = "SLEEPING" /\ \A y \in Threads : y # t => st[y] = tstate[y]
  <2>1. Waits("SLEEPING") /\ Unlinked(queues, q, t) /\ SameRun(q, z)
    BY <1>1, <1>8 DEF SameRun, Waits
  <2> QED BY <2>1, GonePlaced
<1>10. SleepOK(z, st)
  BY <1>6, <1>8, <1>9 DEF SchedulerInv, Placed, SleepOK
<1>11. WaitOK(z, st, blocked_on)
  BY <1>2, <1>3, <1>8, <1>9 DEF SchedulerInv, Placed, WaitOK
<1> QED BY <1>7a, <1>8, <1>9, <1>10, <1>11 DEF Placed

\* scheduler_block(): the running thread goes to the tail of a wait queue.
LEMMA BlockPlaced ==
    ASSUME SchedulerInv, NEW c \in CPUs, NEW t, t = current[c], t \in Workers, NEW w \in WaitQueues,
           NEW st, Changed(st, t, "BLOCKED"), NEW bl, bl = [blocked_on EXCEPT ![t] = w]
    PROVE  /\ Placed(WaitQueueAdd(RemoveTask(queues, t), w, t), st, priority, bl, waking)
           /\ Leaving(c, st)
<1>0. t # NoThread
  BY SchedulerFacts
<1>1. PICK q : q = RemoveTask(queues, t) /\ Unlinked(queues, q, t)
  BY <1>0, RemoveCurrent
<1>2. /\ t \in Threads /\ tstate[t] = "RUNNING" /\ t \notin Members(queues.sleep)
      /\ \A v \in WaitQueues : t \notin Members(queues.wait[v])
      /\ blocked_on[t] = NoQueue
  BY <1>0, CurrentFacts
<1>3. q \in QueueSet /\ q.sleep = queues.sleep /\ q.wait = queues.wait
  BY <1>1 DEF Unlinked
<1>4. queues.wait[w] \in Seq(Threads) /\ Once(queues.wait[w])
  BY QueueTypes DEF SchedulerInv, Placed, WaitOK
<1>5. /\ Append(queues.wait[w], t) \in Seq(Threads) /\ Once(Append(queues.wait[w], t))
      /\ Members(Append(queues.wait[w], t)) = Members(queues.wait[w]) \cup {t}
  BY <1>2, <1>4, AppendMembers
<1>6. PICK x \in Seq(Threads) : /\ x = Append(queues.wait[w], t) /\ Once(x)
                                /\ Members(x) = Members(queues.wait[w]) \cup {t}
  BY <1>5
<1>7. PICK z : WaitSet(q, z, w, x)
  BY DEF WaitSet
<1>7a. WaitQueueAdd(q, w, t) = z
  BY <1>3, <1>6, <1>7 DEF WaitSet, WaitQueueAdd
<1>8. /\ z \in QueueSet /\ z.wait[w] = x /\ z.sleep = q.sleep /\ z.run = q.run
      /\ \A v \in WaitQueues : v # w => z.wait[v] = q.wait[v]
  BY <1>3, <1>7, ChangeWait
<1>9. /\ RunOK(z, st, priority, waking) /\ ReadyOK(z, st, priority, waking)
      /\ WakingOK(st, waking) /\ AliveOK(st) /\ Leaving(c, st)
      /\ st[t] = "BLOCKED" /\ \A y \in Threads : y # t => st[y] = tstate[y]
  <2>1. Waits("BLOCKED") /\ Unlinked(queues, q, t) /\ SameRun(q, z)
    BY <1>1, <1>8 DEF SameRun, Waits
  <2> QED BY <2>1, GonePlaced
<1>10. SleepOK(z, st)
  BY <1>2, <1>3, <1>8, <1>9 DEF SchedulerInv, Placed, SleepOK
<1>11. /\ bl[t] = w /\ \A y \in Threads : y # t => bl[y] = blocked_on[y]
  BY <1>2 DEF SchedulerInv, SchedulerTypeOK
<1>12. ASSUME NEW v \in WaitQueues
       PROVE  Once(z.wait[v]) /\ \A y \in Threads : y \in Members(z.wait[v]) <=> bl[y] = v
  <2>1. Once(queues.wait[v]) /\ \A y \in Threads : y \in Members(queues.wait[v]) <=> blocked_on[y] = v
    BY DEF SchedulerInv, Placed, WaitOK
  <2>2. CASE v = w
    BY <1>2, <1>6, <1>8, <1>11, <2>1, <2>2
  <2>3. CASE v # w
    BY <1>2, <1>3, <1>8, <1>11, <2>1, <2>3
  <2> QED BY <2>2, <2>3
<1>13. \A y \in Threads : st[y] = "BLOCKED" <=> bl[y] # NoQueue
  BY <1>9, <1>11, SchedulerFacts DEF SchedulerInv, Placed, WaitOK
<1>14. WaitOK(z, st, bl)
  BY <1>12, <1>13 DEF WaitOK
<1> QED BY <1>1, <1>7a, <1>8, <1>9, <1>10, <1>14 DEF Placed

-----------------------------------------------------------------------------
(* Waking.                                                                 *)

\* The threads of ts have joined their run queues, the priorities being pr.
RunsJoined(q, z, ts, pr) == z.run = [i \in QueueIdx |-> q.run[i] \o ThreadsOf(ts, i, pr)]

\* They are READY.
Woken(st, z, ts) == z = [t \in Threads |-> IF Contains(ts, t) THEN "READY" ELSE st[t]]

LEMMA ThreadsOfMembers ==
    ASSUME NEW ts \in Seq(Threads), NEW i, NEW pr
    PROVE  /\ ThreadsOf(ts, i, pr) \in Seq(Threads)
           /\ Once(ts) => Once(ThreadsOf(ts, i, pr))
           /\ \A y : y \in Members(ThreadsOf(ts, i, pr)) <=>
                       y \in Members(ts) /\ PriorityToQueue(pr[y]) = i
<1>1. PICK S : S = {t \in Threads : PriorityToQueue(pr[t]) # i}
  OBVIOUS
<1>2. ThreadsOf(ts, i, pr) = Without(ts, S)
  BY <1>1 DEF ThreadsOf
<1>3. /\ Without(ts, S) \in Seq(Threads) /\ Members(Without(ts, S)) = Members(ts) \ S
      /\ Once(ts) => Once(Without(ts, S))
  BY WithoutMembers
<1>4. Members(ts) \subseteq Threads
  BY DEF Members
<1> QED BY <1>1, <1>2, <1>3, <1>4

LEMMA JoinedRuns ==
    ASSUME NEW q \in QueueSet, \A i \in QueueIdx : Once(q.run[i]), NEW pr,
           NEW ts \in Seq(Threads), Once(ts), \A i \in QueueIdx : Members(q.run[i]) \cap Members(ts) = {},
           NEW z, RunsJoined(q, z, ts, pr), NEW i \in QueueIdx
    PROVE  /\ z.run[i] \in Seq(Threads) /\ Once(z.run[i])
           /\ \A y : y \in Members(z.run[i]) <=>
                \/ y \in Members(q.run[i])
                \/ y \in Members(ts) /\ PriorityToQueue(pr[y]) = i
<1>1. PICK a \in Seq(Threads), b \in Seq(Threads) :
           a = q.run[i] /\ b = ThreadsOf(ts, i, pr)
  BY QueueTypes, ThreadsOfMembers
<1>2. Once(a) /\ Once(b) /\ \A y : y \in Members(b) <=> y \in Members(ts) /\ PriorityToQueue(pr[y]) = i
  BY <1>1, ThreadsOfMembers
<1>3. Members(a) \cap Members(b) = {}
  BY <1>1, <1>2
<1>4. a \o b \in Seq(Threads) /\ Members(a \o b) = Members(a) \cup Members(b) /\ Once(a \o b)
  BY <1>2, <1>3, JoinMembers
<1>5. z.run[i] = a \o b
  BY <1>1 DEF RunsJoined
<1> QED BY <1>1, <1>2, <1>4, <1>5

\* Threads that waited join the run queues: those are in order again as soon as the
\* list that the threads were in is.
LEMMA AwakePlaced ==
    ASSUME NEW q, NEW st, NEW pr \in [Threads -> Priorities], NEW bl, NEW wk, Placed(q, st, pr, bl, wk),
           NEW ts \in Seq(Threads), Once(ts), \A t \in Members(ts) : Waits(st[t]),
           NEW z \in QueueSet, RunsJoined(q, z, ts, pr), NEW zt, Woken(st, zt, ts), NEW zb,
           SleepOK(z, zt), WaitOK(z, zt, zb)
    PROVE  Placed(z, zt, pr, zb, wk)
<1>1. Members(ts) \subseteq Threads
  BY DEF Members
<1>2. \A t \in Members(ts) : /\ t \in Workers /\ \A k \in KernelThreads : wk[k] # t
                             /\ \A i \in QueueIdx : t \notin Members(q.run[i])
  <2> TAKE t \in Members(ts)
  <2>1. st[t] # "READY" /\ st[t] # "RUNNING" /\ t \in Threads
    BY <1>1 DEF Waits
  <2>2. t \in Workers
    BY <2>1, SchedulerFacts DEF Placed, AliveOK
  <2>3. \A k \in KernelThreads : wk[k] # t
    BY <2>1, SchedulerFacts DEF Placed, WakingOK
  <2>4. \A i \in QueueIdx : t \notin Members(q.run[i])
    BY <2>1 DEF Placed, RunOK
  <2> QED BY <2>2, <2>3, <2>4
<1>3. \A t \in Threads : zt[t] = IF t \in Members(ts) THEN "READY" ELSE st[t]
  BY ContainsMember DEF Woken
<1>4. q \in QueueSet /\ \A i \in QueueIdx : Once(q.run[i]) /\ Members(q.run[i]) \cap Members(ts) = {}
  BY <1>2 DEF Placed, RunOK
<1>5. \A i \in QueueIdx : /\ Once(z.run[i])
                          /\ \A y : y \in Members(z.run[i]) <=>
                                \/ y \in Members(q.run[i])
                                \/ y \in Members(ts) /\ PriorityToQueue(pr[y]) = i
  <2> TAKE i \in QueueIdx
  <2>1. /\ q \in QueueSet /\ \A j \in QueueIdx : Once(q.run[j])
        /\ \A j \in QueueIdx : Members(q.run[j]) \cap Members(ts) = {}
    BY <1>4
  <2> QED BY <2>1, JoinedRuns
<1>6. RunOK(z, zt, pr, wk)
  <2> SUFFICES ASSUME NEW i \in QueueIdx, NEW y \in Members(z.run[i])
               PROVE  /\ y \in Workers \cup {Idle[0]} /\ PriorityToQueue(pr[y]) = i
                      /\ zt[y] \in {"READY", "RUNNING"} /\ \A k \in KernelThreads : wk[k] # y
    BY <1>5 DEF RunOK
  <2>1. CASE y \in Members(ts) /\ PriorityToQueue(pr[y]) = i
    BY <1>1, <1>2, <1>3, <2>1
  <2>2. CASE y \in Members(q.run[i])
    <3>1. y \in Threads
      BY <1>4, <2>2, QueueTypes
    <3> QED BY <1>3, <1>4, <2>2, <3>1 DEF Placed, RunOK
  <2> QED BY <1>5, <2>1, <2>2
<1>7. ReadyOK(z, zt, pr, wk)
  <2> SUFFICES ASSUME NEW y \in Workers, zt[y] = "READY", \A k \in KernelThreads : wk[k] # y
               PROVE  y \in Members(z.run[PriorityToQueue(pr[y])])
    BY DEF ReadyOK
  <2>1. y \in Threads /\ PriorityToQueue(pr[y]) \in QueueIdx
    BY QueueFacts, SchedulerFacts
  <2>2. CASE y \in Members(ts)
    BY <1>5, <2>1, <2>2
  <2>3. CASE y \notin Members(ts)
    <3>1. y \in Members(q.run[PriorityToQueue(pr[y])])
      BY <1>3, <2>1, <2>3 DEF Placed, ReadyOK
    <3> QED BY <1>5, <2>1, <3>1
  <2> QED BY <2>2, <2>3
<1>8. WakingOK(zt, wk)
  BY <1>2, <1>3, SchedulerFacts DEF Placed, WakingOK
<1>9. AliveOK(zt)
  BY <1>3, SchedulerFacts DEF Placed, AliveOK
<1> QED BY <1>6, <1>7, <1>8, <1>9 DEF Placed

-----------------------------------------------------------------------------
(* The steps of a running thread.                                          *)

\* The fields that no list depends on.
FieldsOK ==
    /\ priority \in [Threads -> Priorities]
    /\ time_slice \in [Threads -> Nat]
    /\ blocked_on \in [Threads -> WaitQueues \cup {NoQueue}]
    /\ kick \in [Aps -> 0 .. 2]
    /\ work \in [Aps -> 0 .. MaxWork]
    /\ waking \in [KernelThreads -> Threads \cup {NoThread}]

LEMMA InvFields == SchedulerInv => FieldsOK
BY DEF SchedulerInv, SchedulerTypeOK, FieldsOK

LEMMA StepInv ==
    ASSUME FieldsOK', Placed(queues', tstate', priority', blocked_on', waking'), CpusOK(tstate', current')
    PROVE  SchedulerInv'
<1>1. queues' \in QueueSet
  BY DEF Placed
<1>2. RunningIsCurrent' /\ tstate' \in [Threads -> TaskStates] /\ current' \in [CPUs -> Threads \cup {NoThread}]
  BY CpusRunning
<1>3. /\ queues'.run \in [QueueIdx -> Seq(Threads)] /\ queues'.sleep \in Seq(Threads)
      /\ queues'.wait \in [WaitQueues -> Seq(Threads)]
  BY <1>1 DEF QueueSet
<1>4. SchedulerTypeOK'
  BY <1>2, <1>3 DEF SchedulerTypeOK, FieldsOK
<1> QED BY <1>2, <1>4 DEF SchedulerInv

LEMMA ScheduledInv ==
    ASSUME NEW c \in CPUs, NEW q, NEW st, FieldsOK', Placed(q, st, priority', blocked_on', waking),
           Leaving(c, st), Schedule(c, q, st), queues' = q, waking' = waking
    PROVE  SchedulerInv'
<1>1. Placed(q, tstate', priority', blocked_on', waking) /\ CpusOK(tstate', current')
  BY SchedulePlaced
<1> QED BY <1>1, StepInv

LEMMA KicksType ==
    ASSUME NEW c, NEW n, NEW k \in [Aps -> 0 .. 2]
    PROVE  Kicks(c, n, k) \in [Aps -> 0 .. 2]
<1>1. 1 \in 0 .. 2
  OBVIOUS
<1> QED BY <1>1 DEF Kicks

\* The thread that calls the scheduler.
LEMMA Caller ==
    ASSUME SchedulerInv, NEW c \in CPUs, MayCall(c)
    PROVE  /\ current[c] \in Workers /\ current[c] \in Threads /\ current[c] # NoThread
           /\ [blocked_on EXCEPT ![current[c]] = NoQueue] = blocked_on
           /\ Timeslice(priority[current[c]]) \in Nat
<1>1. current[c] \in Workers /\ current[c] \in Threads /\ current[c] # NoThread
  BY SchedulerFacts DEF MayCall
<1>2. blocked_on[current[c]] = NoQueue /\ priority[current[c]] \in Int
  BY <1>1, CurrentFacts, QueueFacts
<1>3. blocked_on \in [Threads -> WaitQueues \cup {NoQueue}]
  BY InvFields DEF FieldsOK
<1> QED BY <1>1, <1>2, <1>3, TimesliceNat

LEMMA YieldInv == ASSUME SchedulerInv, NEW c \in CPUs, Yield(c) PROVE SchedulerInv'
<1>1. PICK t : t = current[c]
  OBVIOUS
<1>2. /\ t \in Workers /\ t \in Threads /\ t # NoThread /\ Timeslice(priority[t]) \in Nat
      /\ [blocked_on EXCEPT ![t] = NoQueue] = blocked_on
  BY <1>1, Caller DEF Yield
<1>3. PICK st : Changed(st, t, "READY")
  BY DEF Changed
<1>4. PICK q : q = Requeue(queues, t)
  OBVIOUS
<1>5. Placed(q, st, priority, blocked_on, waking) /\ Leaving(c, st)
  BY <1>1, <1>2, <1>3, <1>4, RequeuePlaced
<1>6. queues' = q /\ Schedule(c, q, st) /\ priority' = priority /\ waking' = waking /\ work' = work
  BY <1>1, <1>3, <1>4 DEF Yield, Changed
<1>7. blocked_on' = blocked_on
  BY <1>1, <1>2 DEF Yield
<1>8. FieldsOK'
  <2>1. kick' \in [Aps -> 0 .. 2]
    BY InvFields, KicksType DEF Yield, FieldsOK
  <2>2. time_slice' \in [Threads -> Nat]
    BY <1>1, <1>2, InvFields DEF Yield, FieldsOK
  <2> QED BY <1>6, <1>7, <2>1, <2>2, InvFields DEF FieldsOK
<1> QED BY <1>5, <1>6, <1>7, <1>8, ScheduledInv

LEMMA SleepInv ==
    ASSUME SchedulerInv, NEW c \in CPUs, NEW ticks \in 1 .. MaxSleep, Sleep(c, ticks) PROVE SchedulerInv'
<1>1. PICK t : t = current[c]
  OBVIOUS
<1>2. /\ t \in Workers /\ t \in Threads
      /\ [blocked_on EXCEPT ![t] = NoQueue] = blocked_on
  BY <1>1, Caller DEF Sleep
<1>3. PICK st : Changed(st, t, "SLEEPING")
  BY DEF Changed
<1>4. PICK q : q = [RemoveTask(queues, t) EXCEPT !.sleep = <<t>> \o @]
  OBVIOUS
<1>5. Placed(q, st, priority, blocked_on, waking) /\ Leaving(c, st)
  BY <1>1, <1>2, <1>3, <1>4, SleepPlaced
<1>6. /\ queues' = q /\ Schedule(c, q, st) /\ priority' = priority /\ waking' = waking
      /\ work' = work /\ kick' = kick
  BY <1>1, <1>3, <1>4 DEF Sleep, Changed
<1>7. blocked_on' = blocked_on
  BY <1>1, <1>2 DEF Sleep
<1>8. FieldsOK'
  <2>1. ticks \in Nat
    OBVIOUS
  <2>2. time_slice' \in [Threads -> Nat]
    BY <1>1, <2>1, InvFields DEF Sleep, FieldsOK
  <2> QED BY <1>6, <1>7, <2>2, InvFields DEF FieldsOK
<1> QED BY <1>5, <1>6, <1>7, <1>8, ScheduledInv

LEMMA BlockInv ==
    ASSUME SchedulerInv, NEW c \in CPUs, NEW w \in WaitQueues, Block(c, w) PROVE SchedulerInv'
<1>1. PICK t : t = current[c]
  OBVIOUS
<1>2. t \in Workers /\ t \in Threads
  BY <1>1, Caller DEF Block
<1>3. PICK st : Changed(st, t, "BLOCKED")
  BY DEF Changed
<1>4. PICK q : q = WaitQueueAdd(RemoveTask(queues, t), w, t)
  OBVIOUS
<1>5. Placed(q, st, priority, blocked_on', waking) /\ Leaving(c, st)
  <2>1. blocked_on' = [blocked_on EXCEPT ![t] = w]
    BY <1>1 DEF Block
  <2> QED BY <1>1, <1>2, <1>3, <1>4, <2>1, BlockPlaced
<1>6. /\ queues' = q /\ Schedule(c, q, st) /\ priority' = priority /\ waking' = waking
      /\ work' = work /\ kick' = kick /\ time_slice' = time_slice
  BY <1>1, <1>3, <1>4 DEF Block, Changed
<1>7. FieldsOK'
  <2>1. blocked_on' \in [Threads -> WaitQueues \cup {NoQueue}]
    BY <1>1, <1>2, InvFields DEF Block, FieldsOK
  <2> QED BY <1>6, <2>1, InvFields DEF FieldsOK
<1> QED BY <1>5, <1>6, <1>7, ScheduledInv

\* A wait queue and the run queues get new values.
WaitRunSet(q, z, w, x, f) == z = [q EXCEPT !.wait[w] = x, !.run = f]

LEMMA ChangeWaitRun ==
    ASSUME NEW q \in QueueSet, NEW w \in WaitQueues, NEW x \in Seq(Threads),
           NEW f \in [QueueIdx -> Seq(Threads)], NEW z, WaitRunSet(q, z, w, x, f)
    PROVE  /\ z \in QueueSet /\ z.wait[w] = x /\ z.sleep = q.sleep /\ z.run = f
           /\ \A v \in WaitQueues : v # w => z.wait[v] = q.wait[v]
BY DEF QueueSet, WaitRunSet

LEMMA JoinedType ==
    ASSUME NEW q \in QueueSet, NEW ts \in Seq(Threads), NEW pr
    PROVE  [i \in QueueIdx |-> q.run[i] \o ThreadsOf(ts, i, pr)] \in [QueueIdx -> Seq(Threads)]
<1>1. ASSUME NEW i \in QueueIdx PROVE q.run[i] \o ThreadsOf(ts, i, pr) \in Seq(Threads)
  <2>1. PICK a \in Seq(Threads), b \in Seq(Threads) : a = q.run[i] /\ b = ThreadsOf(ts, i, pr)
    BY QueueTypes, ThreadsOfMembers
  <2>2. a \o b \in Seq(Threads)
    BY JoinMembers
  <2> QED BY <2>1, <2>2
<1> QED BY <1>1

LEMMA WakeThreadsInv ==
    ASSUME SchedulerInv, NEW c \in CPUs, NEW w \in WaitQueues, NEW ts \in Seq(Threads), Once(ts),
           Members(ts) \subseteq Members(queues.wait[w]), WakeThreads(c, w, ts)
    PROVE  SchedulerInv'
<1>1. queues \in QueueSet /\ queues.wait[w] \in Seq(Threads) /\ Once(queues.wait[w])
  BY QueueTypes DEF SchedulerInv, Placed, WaitOK
<1>2. PICK x \in Seq(Threads) : /\ x = Without(queues.wait[w], ToSet(ts)) /\ Once(x)
                                /\ Members(x) = Members(queues.wait[w]) \ Members(ts)
  BY <1>1, WithoutMembers, ToSetMembers
<1>3. PICK f \in [QueueIdx -> Seq(Threads)] :
           f = [i \in QueueIdx |-> queues.run[i] \o ThreadsOf(ts, i, priority)]
  BY <1>1, JoinedType
<1>4. PICK z : z = queues'
  OBVIOUS
<1>5. WaitRunSet(queues, z, w, x, f)
  BY <1>2, <1>3, <1>4 DEF WakeThreads, WaitRunSet
<1>6. /\ z \in QueueSet /\ z.wait[w] = x /\ z.sleep = queues.sleep /\ z.run = f
      /\ \A v \in WaitQueues : v # w => z.wait[v] = queues.wait[v]
  BY <1>1, <1>5, ChangeWaitRun
<1>7. RunsJoined(queues, z, ts, priority)
  BY <1>3, <1>6 DEF RunsJoined
<1>8. /\ Woken(tstate, tstate', ts) /\ current' = current /\ priority' = priority
      /\ waking' = waking /\ work' = work
  BY DEF WakeThreads, Woken
<1>9. \A t \in Members(ts) : t \in Threads /\ blocked_on[t] = w /\ tstate[t] = "BLOCKED"
  <2>1. \A t \in Members(ts) : t \in Threads
    BY DEF Members
  <2> QED BY <2>1, SchedulerFacts DEF SchedulerInv, Placed, WaitOK
<1>10. \A t \in Threads : /\ tstate'[t] = IF t \in Members(ts) THEN "READY" ELSE tstate[t]
                          /\ blocked_on'[t] = IF t \in Members(ts) THEN NoQueue ELSE blocked_on[t]
  BY ContainsMember DEF WakeThreads
<1>11. SleepOK(z, tstate')
  BY <1>6, <1>9, <1>10 DEF SchedulerInv, Placed, SleepOK
<1>12. WaitOK(z, tstate', blocked_on')
  <2>1. ASSUME NEW v \in WaitQueues
        PROVE  Once(z.wait[v]) /\ \A t \in Threads : t \in Members(z.wait[v]) <=> blocked_on'[t] = v
    <3>1. Once(queues.wait[v]) /\ \A t \in Threads : t \in Members(queues.wait[v]) <=> blocked_on[t] = v
      BY DEF SchedulerInv, Placed, WaitOK
    <3>2. CASE v = w
      BY <1>2, <1>6, <1>9, <1>10, <3>1, <3>2, SchedulerFacts
    <3>3. CASE v # w
      BY <1>6, <1>9, <1>10, <3>1, <3>3, SchedulerFacts
    <3> QED BY <3>2, <3>3
  <2>2. \A t \in Threads : tstate'[t] = "BLOCKED" <=> blocked_on'[t] # NoQueue
    BY <1>10 DEF SchedulerInv, Placed, WaitOK
  <2> QED BY <2>1, <2>2 DEF WaitOK
<1>13. Placed(z, tstate', priority, blocked_on', waking)
  <2>1. \A t \in Members(ts) : Waits(tstate[t])
    BY <1>9 DEF Waits
  <2>2. priority \in [Threads -> Priorities] /\ Placed(queues, tstate, priority, blocked_on, waking)
    BY InvFields DEF FieldsOK, SchedulerInv
  <2> QED BY <1>6, <1>7, <1>8, <1>11, <1>12, <2>1, <2>2, AwakePlaced
<1>14. CpusOK(tstate', current')
  <2>1. CpusOK(tstate, current)
    BY InvCpus
  <2>2. tstate' \in [Threads -> TaskStates]
    BY <2>1 DEF WakeThreads, CpusOK, TaskStates
  <2> QED BY <1>8, <1>9, <1>10, <2>1, <2>2 DEF CpusOK
<1>15. FieldsOK'
  <2>1. kick' \in [Aps -> 0 .. 2]
    BY InvFields, KicksType DEF WakeThreads, FieldsOK
  <2>2. \A t \in Threads : Timeslice(priority[t]) \in Nat
    BY InvFields, QueueFacts, TimesliceNat DEF FieldsOK
  <2>3. time_slice' \in [Threads -> Nat]
    BY <2>2, InvFields DEF WakeThreads, FieldsOK
  <2>4. blocked_on' \in [Threads -> WaitQueues \cup {NoQueue}]
    BY InvFields DEF WakeThreads, FieldsOK
  <2> QED BY <1>8, <2>1, <2>3, <2>4, InvFields DEF FieldsOK
<1> QED BY <1>4, <1>8, <1>13, <1>14, <1>15, StepInv

\* One thread of a wait queue is woken.
LEMMA WakeSingleInv ==
    ASSUME SchedulerInv, NEW c \in CPUs, NEW w \in WaitQueues, NEW t \in Threads,
           t \in Members(queues.wait[w]), WakeThreads(c, w, <<t>>)
    PROVE  SchedulerInv'
<1>1. <<t>> \in Seq(Threads) /\ Members(<<t>>) = {t} /\ Once(<<t>>)
  BY SingleMembers
<1>2. PICK ts : ts = <<t>>
  OBVIOUS
<1>3. ts \in Seq(Threads) /\ Once(ts) /\ Members(ts) \subseteq Members(queues.wait[w])
  BY <1>1, <1>2
<1>4. WakeThreads(c, w, ts)
  BY <1>2
<1> QED BY <1>3, <1>4, WakeThreadsInv

LEMMA WakeOneInv ==
    ASSUME SchedulerInv, NEW c \in CPUs, NEW w \in WaitQueues, WakeOne(c, w) PROVE SchedulerInv'
<1>1. queues.wait[w] \in Seq(Threads) /\ queues.wait[w] # <<>>
  BY QueueTypes DEF SchedulerInv, Placed, WakeOne
<1>2. PICK t \in Threads : t = Head(queues.wait[w]) /\ t \in Members(queues.wait[w])
  BY <1>1 DEF Members
<1> QED BY <1>2, WakeSingleInv DEF WakeOne

LEMMA WakeAllInv ==
    ASSUME SchedulerInv, NEW c \in CPUs, NEW w \in WaitQueues, WakeAll(c, w) PROVE SchedulerInv'
<1>1. queues.wait[w] \in Seq(Threads) /\ Once(queues.wait[w])
  BY QueueTypes DEF SchedulerInv, Placed, WaitOK
<1> QED BY <1>1, WakeThreadsInv DEF WakeAll

LEMMA UnblockInv ==
    ASSUME SchedulerInv, NEW c \in CPUs, NEW w \in WaitQueues, NEW t \in Workers, Unblock(c, w, t)
    PROVE  SchedulerInv'
<1>1. t \in Threads /\ t \in Members(queues.wait[w])
  BY SchedulerFacts DEF Unblock, SchedulerInv, Placed, WaitOK
<1> QED BY <1>1, WakeSingleInv DEF Unblock

\* scheduler_wake_thread(), first section: the sleeper is in nobody's list but in the
\* hands of its waker.
LEMMA WakeDetachInv ==
    ASSUME SchedulerInv, NEW c \in CPUs, NEW t \in Workers, WakeDetach(c, t) PROVE SchedulerInv'
<1>1. PICK k \in KernelThreads : k = current[c] /\ waking[k] = NoThread /\ waking' = [waking EXCEPT ![k] = t]
  BY DEF WakeDetach, MayCall
<1>2. /\ t \in Threads /\ tstate[t] = "SLEEPING" /\ t # NoThread
      /\ Changed(tstate', t, "READY") /\ priority' = priority /\ time_slice' = time_slice
      /\ blocked_on' = blocked_on /\ current' = current /\ kick' = kick /\ work' = work
  BY SchedulerFacts DEF WakeDetach, Changed
<1>3. queues \in QueueSet /\ queues.sleep \in Seq(Threads) /\ Once(queues.sleep)
  BY QueueTypes DEF SchedulerInv, Placed, SleepOK
<1>4. PICK x \in Seq(Threads) : /\ x = Without(queues.sleep, {t}) /\ Once(x)
                                /\ Members(x) = Members(queues.sleep) \ {t}
  BY <1>3, WithoutMembers
<1>5. PICK z : z = queues'
  OBVIOUS
<1>6. SleepSet(queues, z, x)
  BY <1>4, <1>5 DEF WakeDetach, SleepSet
<1>7. z \in QueueSet /\ z.sleep = x /\ z.run = queues.run /\ z.wait = queues.wait
  BY <1>3, <1>6, ChangeSleep
<1>8. /\ tstate'[t] = "READY" /\ tstate' \in [Threads -> TaskStates]
      /\ \A y \in Threads : y # t => tstate'[y] = tstate[y]
  BY <1>2, InvCpus DEF Changed, CpusOK, TaskStates
<1>9. /\ waking'[k] = t /\ \A l \in KernelThreads : l # k => waking'[l] = waking[l]
      /\ waking' \in [KernelThreads -> Threads \cup {NoThread}]
  BY <1>1, <1>2, InvFields DEF FieldsOK
<1>10. \A l \in KernelThreads : waking[l] # t
  BY <1>2 DEF SchedulerInv, Placed, WakingOK
<1>11. \A i \in QueueIdx : t \notin Members(queues.run[i])
  BY <1>2 DEF SchedulerInv, Placed, RunOK
<1>12. RunOK(z, tstate', priority, waking')
  <2> SUFFICES ASSUME NEW i \in QueueIdx
               PROVE  /\ Once(z.run[i])
                      /\ \A y \in Members(z.run[i]) :
                           /\ y \in Workers \cup {Idle[0]} /\ PriorityToQueue(priority[y]) = i
                           /\ tstate'[y] \in {"READY", "RUNNING"}
                           /\ \A l \in KernelThreads : waking'[l] # y
    BY DEF RunOK
  <2>1. /\ Once(queues.run[i])
        /\ \A y \in Members(queues.run[i]) :
              /\ y \in Workers \cup {Idle[0]} /\ PriorityToQueue(priority[y]) = i
              /\ tstate[y] \in {"READY", "RUNNING"}
              /\ \A l \in KernelThreads : waking[l] # y
    BY DEF SchedulerInv, Placed, RunOK
  <2>2. \A y \in Members(queues.run[i]) : y \in Threads /\ y # t
    BY <1>3, <1>11, QueueTypes
  <2> QED BY <1>7, <1>8, <1>9, <2>1, <2>2
<1>13. SleepOK(z, tstate')
  BY <1>4, <1>7, <1>8 DEF SchedulerInv, Placed, SleepOK
<1>14. WaitOK(z, tstate', blocked_on)
  <2>1. blocked_on[t] = NoQueue
    BY <1>2 DEF SchedulerInv, Placed, WaitOK
  <2> QED BY <1>7, <1>8, <2>1 DEF SchedulerInv, Placed, WaitOK
<1>15. ReadyOK(z, tstate', priority, waking')
  <2> SUFFICES ASSUME NEW y \in Workers, tstate'[y] = "READY", \A l \in KernelThreads : waking'[l] # y
               PROVE  y \in Members(z.run[PriorityToQueue(priority[y])])
    BY DEF ReadyOK
  <2>1. y # t /\ y \in Threads /\ y # NoThread
    BY <1>9, SchedulerFacts
  <2>2. \A l \in KernelThreads : waking[l] # y
    BY <1>1, <1>9, <2>1
  <2> QED BY <1>7, <1>8, <2>1, <2>2 DEF SchedulerInv, Placed, ReadyOK
<1>16. WakingOK(tstate', waking')
  <2> SUFFICES ASSUME NEW l \in KernelThreads, waking'[l] # NoThread
               PROVE  /\ waking'[l] \in Workers /\ tstate'[waking'[l]] = "READY"
                      /\ \A m \in KernelThreads : waking'[m] = waking'[l] => m = l
    BY DEF WakingOK
  <2>1. CASE l = k
    BY <1>8, <1>9, <1>10, <2>1
  <2>2. CASE l # k
    <3>1. waking'[l] = waking[l] /\ waking[l] # t
      BY <1>9, <1>10, <2>2
    <3>2. /\ waking[l] \in Workers /\ tstate[waking[l]] = "READY"
          /\ \A m \in KernelThreads : waking[m] = waking[l] => m = l
      BY <3>1 DEF SchedulerInv, Placed, WakingOK
    <3>3. tstate'[waking[l]] = "READY"
      BY <1>8, <3>1, <3>2, SchedulerFacts
    <3> QED BY <1>9, <3>1, <3>2, <3>3
  <2> QED BY <2>1, <2>2
<1>17. AliveOK(tstate')
  BY <1>8, SchedulerFacts DEF SchedulerInv, Placed, AliveOK
<1>18. Placed(z, tstate', priority, blocked_on, waking')
  BY <1>7, <1>12, <1>13, <1>14, <1>15, <1>16, <1>17 DEF Placed
<1>19. CpusOK(tstate', current')
  BY <1>2, <1>8, InvCpus DEF CpusOK
<1>20. FieldsOK'
  BY <1>2, <1>9, InvFields DEF FieldsOK
<1> QED BY <1>2, <1>5, <1>18, <1>19, <1>20, StepInv

\* scheduler_wake_thread(), second section: the thread joins its run queue.
LEMMA WakeEnqueueInv ==
    ASSUME SchedulerInv, NEW c \in CPUs, WakeEnqueue(c) PROVE SchedulerInv'
<1>1. PICK k \in KernelThreads : k = current[c]
  BY DEF WakeEnqueue
<1>2. PICK t : t = waking[k]
  OBVIOUS
<1>3. /\ t # NoThread /\ waking' = [waking EXCEPT ![k] = NoThread]
      /\ queues' = Enqueue(queues, t)
      /\ blocked_on' = [blocked_on EXCEPT ![t] = NoQueue]
      /\ time_slice' = [time_slice EXCEPT ![t] = Timeslice(priority[t])]
  BY <1>1, <1>2 DEF WakeEnqueue
<1>3a. tstate' = tstate /\ priority' = priority /\ current' = current /\ work' = work
  BY DEF WakeEnqueue
<1>4. /\ t \in Workers /\ tstate[t] = "READY" /\ t \in Threads
      /\ \A l \in KernelThreads : waking[l] = t => l = k
  BY <1>2, <1>3, SchedulerFacts DEF SchedulerInv, Placed, WakingOK
<1>5. PICK i \in QueueIdx : i = PriorityToQueue(priority[t])
  BY <1>4, InvFields, QueueFacts DEF FieldsOK
<1>6. /\ queues \in QueueSet /\ queues.run[i] \in Seq(Threads) /\ Once(queues.run[i])
      /\ \A j \in QueueIdx : t \notin Members(queues.run[j])
  BY <1>2, QueueTypes DEF SchedulerInv, Placed, RunOK
<1>7. /\ Append(queues.run[i], t) \in Seq(Threads) /\ Once(Append(queues.run[i], t))
      /\ Members(Append(queues.run[i], t)) = Members(queues.run[i]) \cup {t}
  BY <1>4, <1>6, AppendMembers
<1>8. PICK x \in Seq(Threads) : /\ x = Append(queues.run[i], t) /\ Once(x)
                                /\ Members(x) = Members(queues.run[i]) \cup {t}
  BY <1>7
<1>9. PICK z : z = queues'
  OBVIOUS
<1>10. RunSet(queues, z, i, x)
  BY <1>3, <1>5, <1>8, <1>9 DEF Enqueue, RunSet
<1>11. /\ z \in QueueSet /\ z.run[i] = x /\ z.sleep = queues.sleep /\ z.wait = queues.wait
       /\ \A j \in QueueIdx : j # i => z.run[j] = queues.run[j]
  BY <1>6, <1>10, ChangeRun
<1>12. /\ waking'[k] = NoThread /\ \A l \in KernelThreads : l # k => waking'[l] = waking[l]
       /\ waking' \in [KernelThreads -> Threads \cup {NoThread}]
  BY <1>3, InvFields DEF FieldsOK
<1>13. blocked_on' = blocked_on
  <2>1. blocked_on[t] = NoQueue
    BY <1>4 DEF SchedulerInv, Placed, WaitOK
  <2> QED BY <1>3, <1>4, <2>1, InvFields DEF FieldsOK
<1>14. RunOK(z, tstate, priority, waking')
  <2> SUFFICES ASSUME NEW j \in QueueIdx
               PROVE  /\ Once(z.run[j])
                      /\ \A y \in Members(z.run[j]) :
                           /\ y \in Workers \cup {Idle[0]} /\ PriorityToQueue(priority[y]) = j
                           /\ tstate[y] \in {"READY", "RUNNING"}
                           /\ \A l \in KernelThreads : waking'[l] # y
    BY DEF RunOK
  <2>1. /\ Once(queues.run[j])
        /\ \A y \in Members(queues.run[j]) :
              /\ y \in Workers \cup {Idle[0]} /\ PriorityToQueue(priority[y]) = j
              /\ tstate[y] \in {"READY", "RUNNING"}
              /\ \A l \in KernelThreads : waking[l] # y
    BY DEF SchedulerInv, Placed, RunOK
  <2>2. \A l \in KernelThreads : waking'[l] = NoThread \/ (waking'[l] = waking[l] /\ waking'[l] # t)
    BY <1>4, <1>12
  <2>3. \A y \in Members(queues.run[j]) : y # NoThread
    BY <1>6, QueueTypes, SchedulerFacts
  <2>4. CASE j = i
    <3>1. Once(z.run[j]) /\ Members(z.run[j]) = Members(queues.run[j]) \cup {t}
      BY <1>8, <1>11, <2>4
    <3>2. ASSUME NEW y \in Members(z.run[j])
          PROVE  /\ y \in Workers \cup {Idle[0]} /\ PriorityToQueue(priority[y]) = j
                 /\ tstate[y] \in {"READY", "RUNNING"}
      BY <1>4, <1>5, <2>1, <2>4, <3>1
    <3>3. ASSUME NEW y \in Members(z.run[j]), NEW l \in KernelThreads PROVE waking'[l] # y
      BY <1>3, <2>1, <2>2, <2>3, <3>1
    <3> QED BY <3>1, <3>2, <3>3
  <2>5. CASE j # i
    BY <1>11, <2>1, <2>2, <2>3, <2>5
  <2> QED BY <2>4, <2>5
<1>15. SleepOK(z, tstate) /\ WaitOK(z, tstate, blocked_on) /\ AliveOK(tstate)
  BY <1>11 DEF SchedulerInv, Placed, SleepOK, WaitOK
<1>16. ReadyOK(z, tstate, priority, waking')
  <2> SUFFICES ASSUME NEW y \in Workers, tstate[y] = "READY", \A l \in KernelThreads : waking'[l] # y
               PROVE  y \in Members(z.run[PriorityToQueue(priority[y])])
    BY DEF ReadyOK
  <2>1. CASE y = t
    BY <1>5, <1>8, <1>11, <2>1
  <2>2. CASE y # t
    <3>1. \A l \in KernelThreads : waking[l] # y
      BY <1>2, <1>12, <2>2
    <3>2. y \in Members(queues.run[PriorityToQueue(priority[y])])
      BY <3>1 DEF SchedulerInv, Placed, ReadyOK
    <3>3. PriorityToQueue(priority[y]) \in QueueIdx
      BY QueueFacts, SchedulerFacts, InvFields DEF FieldsOK
    <3> QED BY <1>8, <1>11, <3>2, <3>3
  <2> QED BY <2>1, <2>2
<1>17. WakingOK(tstate, waking')
  <2> SUFFICES ASSUME NEW l \in KernelThreads, waking'[l] # NoThread
               PROVE  /\ waking'[l] \in Workers /\ tstate[waking'[l]] = "READY"
                      /\ \A m \in KernelThreads : waking'[m] = waking'[l] => m = l
    BY DEF WakingOK
  <2>1. l # k /\ waking'[l] = waking[l]
    BY <1>12
  <2>2. /\ waking[l] \in Workers /\ tstate[waking[l]] = "READY"
        /\ \A m \in KernelThreads : waking[m] = waking[l] => m = l
    BY <2>1 DEF SchedulerInv, Placed, WakingOK
  <2> QED BY <1>12, <2>1, <2>2
<1>18. Placed(z, tstate, priority, blocked_on, waking')
  BY <1>11, <1>14, <1>15, <1>16, <1>17 DEF Placed
<1>19. CpusOK(tstate', current')
  BY <1>3a, InvCpus
<1>20. FieldsOK'
  <2>1. kick' \in [Aps -> 0 .. 2]
    BY InvFields, KicksType DEF WakeEnqueue, FieldsOK
  <2>2. Timeslice(priority[t]) \in Nat
    BY <1>4, InvFields, QueueFacts, TimesliceNat DEF FieldsOK
  <2>3. time_slice' \in [Threads -> Nat]
    BY <1>3, <2>2, InvFields DEF FieldsOK
  <2> QED BY <1>3a, <1>12, <1>13, <2>1, <2>3, InvFields DEF FieldsOK
<1> QED BY <1>3a, <1>9, <1>13, <1>18, <1>19, <1>20, StepInv

-----------------------------------------------------------------------------
(* The first switch, and the steps of the application processors.          *)

\* A CPU that runs nothing yet, or its idle thread, may look for another thread.
LEMMA IdleLeaves ==
    ASSUME SchedulerInv, NEW c \in CPUs, current[c] \notin Workers
    PROVE  Leaving(c, tstate)
BY InvCpus DEF Leaving, CpusOK, OnCpu

LEMMA StartInv == ASSUME SchedulerInv, Start PROVE SchedulerInv'
<1>1. Leaving(0, tstate) /\ 0 \in CPUs
  BY SchedulerFacts, IdleLeaves DEF Start
<1>2. /\ priority' = priority /\ time_slice' = time_slice /\ blocked_on' = blocked_on
      /\ queues' = queues /\ kick' = kick /\ work' = work /\ waking' = waking
      /\ Schedule(0, queues, tstate)
  BY DEF Start
<1>3. FieldsOK'
  BY <1>2, InvFields DEF FieldsOK
<1>4. Placed(queues, tstate, priority', blocked_on', waking)
  BY <1>2 DEF SchedulerInv
<1> QED BY <1>1, <1>2, <1>3, <1>4, ScheduledInv

LEMMA CpuEnterInv == ASSUME SchedulerInv, NEW c \in Aps, CpuEnter(c) PROVE SchedulerInv'
<1>0. c \in CPUs /\ Idle[c] \in Threads /\ Idle[c] \notin Workers
  BY SchedulerFacts
<1>1. PICK t : t = Idle[c]
  OBVIOUS
<1>2. /\ current[c] = NoThread /\ current' = [current EXCEPT ![c] = t] /\ Changed(tstate', t, "RUNNING")
      /\ priority' = priority /\ time_slice' = time_slice /\ blocked_on' = blocked_on
      /\ queues' = queues /\ kick' = kick /\ work' = work /\ waking' = waking
  BY <1>1 DEF CpuEnter, Changed
<1>3. CpusOK(tstate, current) /\ OneCpuEach(current)
  BY InvCpus
<1>4. /\ tstate'[t] = "RUNNING" /\ tstate' \in [Threads -> TaskStates]
      /\ \A y \in Threads : y # t => tstate'[y] = tstate[y]
  BY <1>0, <1>1, <1>2, <1>3 DEF Changed, CpusOK, TaskStates
<1>5. /\ current'[c] = t /\ current' \in [CPUs -> Threads \cup {NoThread}]
      /\ \A d \in CPUs : d # c => current'[d] = current[d]
  BY <1>0, <1>1, <1>2, <1>3 DEF OneCpuEach
<1>6. OneCpuEach(current')
  BY <1>1, <1>3, <1>5, SchedulerFacts DEF OneCpuEach
<1>7. ASSUME NEW y \in Threads PROVE tstate'[y] = "RUNNING" <=> \E d \in CPUs : current'[d] = y
  <2>1. CASE y = t
    BY <1>0, <1>4, <1>5, <2>1
  <2>2. CASE y # t
    <3>1. y # NoThread
      BY SchedulerFacts
    <3> QED BY <1>2, <1>3, <1>4, <1>5, <2>2, <3>1 DEF CpusOK
  <2> QED BY <2>1, <2>2
<1>8. Placed(queues, tstate', priority, blocked_on, waking)
  <2>1. Placed(queues, tstate, priority, blocked_on, waking)
    BY DEF SchedulerInv
  <2>2. tstate[t] \in {"READY", "RUNNING"}
    BY <1>0, <1>1, <2>1 DEF Placed, AliveOK
  <2>3. \A y \in Threads : tstate'[y] = tstate[y] \/ {tstate[y], tstate'[y]} \subseteq {"READY", "RUNNING"}
    BY <1>4, <2>2
  <2>4. \A y \in Workers : tstate'[y] = tstate[y]
    BY <1>0, <1>1, <1>4, SchedulerFacts
  <2>5. \A k \in KernelThreads : waking[k] \in Workers => tstate'[waking[k]] = tstate[waking[k]]
    BY <2>4
  <2> QED BY <2>1, <2>3, <2>4, <2>5, ShiftPlaced
<1>9. CpusOK(tstate', current')
  BY <1>4, <1>6, <1>7 DEF CpusOK
<1>10. FieldsOK'
  BY <1>2, InvFields DEF FieldsOK
<1> QED BY <1>2, <1>8, <1>9, <1>10, StepInv

\* scheduler_cpu_tick()
LEMMA CpuTickInv ==
    ASSUME SchedulerInv, NEW c \in CPUs, NEW kicked \in BOOLEAN, NEW k \in [Aps -> 0 .. 2],
           CpuTick(c, kicked, k)
    PROVE  SchedulerInv'
<1>1. PICK t : t = current[c]
  OBVIOUS
<1>2. t # NoThread
  BY <1>1 DEF CpuTick
<1>3. t \in Threads /\ tstate[t] = "RUNNING" /\ t \in Workers \cup {Idle[c]} /\ priority[t] \in Int
  BY <1>1, <1>2, CurrentFacts, QueueFacts
<1>4. priority' = priority /\ blocked_on' = blocked_on /\ work' = work /\ waking' = waking
  BY DEF CpuTick
<1>5. Placed(queues, tstate, priority, blocked_on, waking) /\ FieldsOK
  BY InvFields DEF SchedulerInv
<1>6. FieldsOK'
  <2>1. kick' \in [Aps -> 0 .. 2]
    BY KicksType DEF CpuTick
  <2>2. PICK n : time_slice' = [time_slice EXCEPT ![t] = n] /\ n \in {Timeslice(priority[t]),
                   IF time_slice[t] > 0 THEN time_slice[t] - 1 ELSE 0, time_slice[t]}
    <3>1. \E n : /\ time_slice' = [time_slice EXCEPT ![current[c]] = n]
                 /\ n \in {Timeslice(priority[current[c]]),
                           IF time_slice[current[c]] > 0 THEN time_slice[current[c]] - 1 ELSE 0,
                           time_slice[current[c]]}
      BY DEF CpuTick
    <3> QED BY <1>1, <3>1
  <2>3. time_slice[t] \in Nat /\ Timeslice(priority[t]) \in Nat
    BY <1>3, <1>5, TimesliceNat DEF FieldsOK
  <2>4. n \in Nat
    BY <2>2, <2>3
  <2>5. time_slice' \in [Threads -> Nat]
    BY <1>3, <1>5, <2>2, <2>4 DEF FieldsOK
  <2> QED BY <1>4, <1>5, <2>1, <2>5 DEF FieldsOK
<1>7. \/ /\ t # Idle[c]
         /\ queues' = Requeue(queues, t) /\ Schedule(c, Requeue(queues, t), [tstate EXCEPT ![t] = "READY"])
      \/ /\ queues' = queues /\ UNCHANGED <<current, tstate>>
      \/ /\ queues' = queues /\ Schedule(c, queues, tstate) /\ t = Idle[c]
  <2> DEFINE runs == t # Idle[c] /\ tstate[t] = "RUNNING"
             left == IF time_slice[t] > 0 THEN time_slice[t] - 1 ELSE 0
             over == runs /\ (left = 0 \/ kicked)
             rest == t = Idle[c] /\ ~kicked /\ work[c] = 0 /\ ~ReadyHint(c)
  <2>1. PICK q : q = IF over THEN Requeue(queues, t) ELSE queues
    OBVIOUS
  <2>2. PICK st : st = IF over THEN [tstate EXCEPT ![t] = "READY"] ELSE tstate
    OBVIOUS
  <2>3. /\ queues' = q
        /\ IF rest \/ (runs /\ ~over) THEN UNCHANGED <<current, tstate>> ELSE Schedule(c, q, st)
    BY <1>1, <2>1, <2>2 DEF CpuTick
  <2>4. over => runs
    OBVIOUS
  <2>5. runs <=> t # Idle[c]
    BY <1>3
  <2> HIDE DEF over, rest, runs
  <2>6. CASE over
    <3>1. rest => ~runs
      BY DEF rest, runs
    <3> QED BY <2>1, <2>2, <2>3, <2>4, <2>5, <2>6, <3>1
  <2>7. CASE ~over /\ (rest \/ runs)
    BY <2>1, <2>3, <2>7
  <2>8. CASE ~over /\ ~rest /\ ~runs
    BY <2>1, <2>2, <2>3, <2>5, <2>8
  <2> QED BY <2>6, <2>7, <2>8
<1>8. CASE /\ t # Idle[c]
           /\ queues' = Requeue(queues, t)
           /\ Schedule(c, Requeue(queues, t), [tstate EXCEPT ![t] = "READY"])
  <2>1. PICK st : Changed(st, t, "READY")
    BY DEF Changed
  <2>2. PICK q : q = Requeue(queues, t)
    OBVIOUS
  <2>3. queues' = q /\ Schedule(c, q, st)
    BY <1>8, <2>1, <2>2 DEF Changed
  <2>4. t \in Workers
    BY <1>3, <1>8
  <2>5. Placed(q, st, priority, blocked_on, waking) /\ Leaving(c, st)
    BY <1>1, <1>2, <2>1, <2>2, <2>4, RequeuePlaced
  <2> QED BY <1>4, <1>6, <2>3, <2>5, ScheduledInv
<1>9. CASE queues' = queues /\ UNCHANGED <<current, tstate>>
  BY <1>4, <1>5, <1>6, <1>9, InvCpus, StepInv
<1>10. CASE queues' = queues /\ Schedule(c, queues, tstate) /\ t = Idle[c]
  <2>1. Leaving(c, tstate)
    BY <1>1, <1>10, SchedulerFacts, IdleLeaves
  <2> QED BY <1>4, <1>5, <1>6, <1>10, <2>1, ScheduledInv
<1> QED BY <1>7, <1>8, <1>9, <1>10

LEMMA KickIrqInv == ASSUME SchedulerInv, NEW c \in Aps, KickIrq(c) PROVE SchedulerInv'
<1>1. kick \in [Aps -> 0 .. 2] /\ 0 \in 0 .. 2 /\ c \in CPUs
  BY InvFields, SchedulerFacts DEF FieldsOK
<1>2. PICK k \in [Aps -> 0 .. 2], b \in BOOLEAN : k = [kick EXCEPT ![c] = 0] /\ b = (kick[c] # 2)
  BY <1>1
<1>3. CpuTick(c, b, k)
  BY <1>2 DEF KickIrq
<1> QED BY <1>1, <1>2, <1>3, CpuTickInv

LEMMA TimerIrqInv == ASSUME SchedulerInv, NEW c \in Aps, TimerIrq(c) PROVE SchedulerInv'
<1>1. kick \in [Aps -> 0 .. 2] /\ c \in CPUs /\ FALSE \in BOOLEAN /\ CpuTick(c, FALSE, kick)
  BY InvFields, SchedulerFacts DEF FieldsOK, TimerIrq
<1> QED BY <1>1, CpuTickInv

\* Work items come and go.
LEMMA WorkInv ==
    ASSUME SchedulerInv, NEW c \in Aps, SubmitWork(c) \/ RunWork(c) \/ \E d \in Aps : StealWork(c, d)
    PROVE  SchedulerInv'
<1>1. /\ tstate' = tstate /\ priority' = priority /\ time_slice' = time_slice
      /\ blocked_on' = blocked_on /\ queues' = queues /\ current' = current /\ waking' = waking
  BY DEF SubmitWork, RunWork, StealWork
<1>2. work \in [Aps -> 0 .. MaxWork] /\ kick \in [Aps -> 0 .. 2] /\ MaxWork \in Nat /\ FieldsOK
  BY InvFields, SchedulerAssumption DEF FieldsOK
<1>3. work' \in [Aps -> 0 .. MaxWork] /\ kick' \in [Aps -> 0 .. 2]
  <2>1. CASE SubmitWork(c)
    BY <1>2, <2>1 DEF SubmitWork
  <2>2. CASE RunWork(c)
    BY <1>2, <2>2 DEF RunWork
  <2>3. ASSUME NEW d \in Aps, StealWork(c, d) PROVE work' \in [Aps -> 0 .. MaxWork] /\ kick' \in [Aps -> 0 .. 2]
    BY <1>2, <2>3 DEF StealWork
  <2> QED BY <2>1, <2>2, <2>3
<1>4. FieldsOK'
  BY <1>1, <1>2, <1>3 DEF FieldsOK
<1>5. Placed(queues, tstate, priority, blocked_on, waking)
  BY DEF SchedulerInv
<1> QED BY <1>1, <1>4, <1>5, InvCpus, StepInv

-----------------------------------------------------------------------------
(* The boot CPU's tick.                                                    *)

\* The sleep list and the run queues get new values.
SleepRunSet(q, z, x, f) == z = [q EXCEPT !.sleep = x, !.run = f]

LEMMA ChangeSleepRun ==
    ASSUME NEW q \in QueueSet, NEW x \in Seq(Threads),
           NEW f \in [QueueIdx -> Seq(Threads)], NEW z, SleepRunSet(q, z, x, f)
    PROVE  z \in QueueSet /\ z.sleep = x /\ z.run = f /\ z.wait = q.wait
BY DEF QueueSet, SleepRunSet

\* The sleepers that stay and the ones that come due make up the sleep list.
LEMMA DueMembers ==
    ASSUME NEW q \in QueueSet, Once(q.sleep), NEW sl \in [Threads -> Nat]
    PROVE  /\ StillAsleep(q, sl) \in Seq(Threads) /\ Once(StillAsleep(q, sl))
           /\ Due(q, sl) \in Seq(Threads) /\ Once(Due(q, sl))
           /\ Members(Due(q, sl)) \subseteq Members(q.sleep)
           /\ Members(StillAsleep(q, sl)) = Members(q.sleep) \ Members(Due(q, sl))
<1>1. q.sleep \in Seq(Threads) /\ Members(q.sleep) \subseteq Threads
  BY QueueTypes
<1>2. PICK A : A = {t \in Threads : sl[t] <= 1}
  OBVIOUS
<1>3. PICK B : B = {t \in Threads : sl[t] > 1}
  OBVIOUS
<1>4. StillAsleep(q, sl) = Without(q.sleep, A) /\ Due(q, sl) = Without(q.sleep, B)
  BY <1>2, <1>3 DEF StillAsleep, Due
<1>5. \A t \in Threads : t \in A <=> t \notin B
  <2> TAKE t \in Threads
  <2>1. sl[t] \in Nat
    OBVIOUS
  <2> QED BY <1>2, <1>3, <2>1
<1>6. /\ Without(q.sleep, A) \in Seq(Threads) /\ Members(Without(q.sleep, A)) = Members(q.sleep) \ A
      /\ Once(Without(q.sleep, A))
      /\ Without(q.sleep, B) \in Seq(Threads) /\ Members(Without(q.sleep, B)) = Members(q.sleep) \ B
      /\ Once(Without(q.sleep, B))
  BY <1>1, WithoutMembers
<1> QED BY <1>1, <1>4, <1>5, <1>6

\* The sleepers that come due have left the sleep list and joined their run queues.
DueSet(q, z, sl, pr) ==
    z = [q EXCEPT !.sleep = StillAsleep(q, sl),
                  !.run = [i \in QueueIdx |-> @[i] \o ThreadsOf(Due(q, sl), i, pr)]]

LEMMA DuePlaced ==
    ASSUME NEW q, NEW st, NEW pr \in [Threads -> Priorities], NEW bl, NEW wk, Placed(q, st, pr, bl, wk),
           NEW sl \in [Threads -> Nat], NEW z, DueSet(q, z, sl, pr), NEW zt, Woken(st, zt, Due(q, sl))
    PROVE  /\ Placed(z, zt, pr, bl, wk)
           /\ \A t \in Members(Due(q, sl)) : st[t] = "SLEEPING"
<1>1. q \in QueueSet /\ Once(q.sleep) /\ \A t \in Threads : t \in Members(q.sleep) <=> st[t] = "SLEEPING"
  BY DEF Placed, SleepOK
<1>2. PICK x \in Seq(Threads), d \in Seq(Threads) :
           /\ x = StillAsleep(q, sl) /\ d = Due(q, sl) /\ Once(x) /\ Once(d)
           /\ Members(d) \subseteq Members(q.sleep) /\ Members(x) = Members(q.sleep) \ Members(d)
  BY <1>1, DueMembers
<1>3. PICK f \in [QueueIdx -> Seq(Threads)] : f = [i \in QueueIdx |-> q.run[i] \o ThreadsOf(d, i, pr)]
  BY <1>1, JoinedType
<1>4. PICK y : SleepRunSet(q, y, x, f)
  BY DEF SleepRunSet
<1>5. z = y
  BY <1>2, <1>3, <1>4 DEF SleepRunSet, DueSet
<1>6. y \in QueueSet /\ y.sleep = x /\ y.run = f /\ y.wait = q.wait
  BY <1>1, <1>4, ChangeSleepRun
<1>7. RunsJoined(q, y, d, pr) /\ Woken(st, zt, d)
  BY <1>2, <1>3, <1>6 DEF RunsJoined
<1>8. \A t \in Members(d) : t \in Threads /\ st[t] = "SLEEPING"
  BY <1>1, <1>2, QueueTypes
<1>9. \A t \in Threads : zt[t] = IF t \in Members(d) THEN "READY" ELSE st[t]
  BY <1>7, ContainsMember DEF Woken
<1>10. SleepOK(y, zt)
  BY <1>1, <1>2, <1>6, <1>9 DEF SleepOK
<1>11. WaitOK(y, zt, bl)
  BY <1>6, <1>8, <1>9 DEF Placed, WaitOK
<1>12. \A t \in Members(d) : Waits(st[t])
  BY <1>8 DEF Waits
<1>13. Placed(y, zt, pr, bl, wk)
  BY <1>2, <1>6, <1>7, <1>10, <1>11, <1>12, AwakePlaced
<1> QED BY <1>2, <1>5, <1>8, <1>13

\* scheduler_rebalance() comes to every thread of the queues from BoostFloor on once.
LEMMA SweptMembers ==
    ASSUME NEW q \in QueueSet, \A i \in QueueIdx : Once(q.run[i]),
           \A i, j \in QueueIdx : i # j => Members(q.run[i]) \cap Members(q.run[j]) = {}
    PROVE  /\ Swept(q) \in Seq(Threads) /\ Once(Swept(q))
           /\ \A y : y \in Members(Swept(q)) <=>
                \E i \in QueueIdx : i >= BoostFloor /\ y \in Members(q.run[i])
<1>1. PICK f : f = [n \in 1 .. 35 |-> IF 40 - n \in QueueIdx THEN q.run[40 - n] ELSE <<>>]
  OBVIOUS
<1>2. NUM_QUEUES = 40 /\ NUM_QUEUES - BoostFloor = 35 /\ 35 \in Nat
  BY DEF NUM_QUEUES, BoostFloor
<1>3. Swept(q) = Concatenation(f, 35)
  BY <1>1, <1>2 DEF Swept
<1>4. ASSUME NEW n \in 1 .. 35
      PROVE  /\ f[n] \in Seq(Threads) /\ Once(f[n])
             /\ \A y : y \in Members(f[n]) <=> 40 - n \in QueueIdx /\ y \in Members(q.run[40 - n])
  <2>1. f[n] = IF 40 - n \in QueueIdx THEN q.run[40 - n] ELSE <<>>
    BY <1>1
  <2>2. CASE 40 - n \in QueueIdx
    <3>1. PICK i \in QueueIdx : i = 40 - n
      BY <2>2
    <3>2. q.run[i] \in Seq(Threads) /\ Once(q.run[i])
      BY QueueTypes
    <3>3. f[n] = q.run[i]
      BY <2>1, <2>2, <3>1
    <3> QED BY <3>1, <3>2, <3>3
  <2>3. CASE 40 - n \notin QueueIdx
    <3>1. f[n] = <<>> /\ <<>> \in Seq(Threads)
      BY <2>1, <2>3
    <3> QED BY <2>3, <3>1, EmptyMembers
  <2> QED BY <2>2, <2>3
<1>5. f \in [1 .. 35 -> Seq(Threads)]
  <2>1. f = [n \in 1 .. 35 |-> f[n]]
    BY <1>1
  <2> QED BY <1>4, <2>1
<1>6. ASSUME NEW n \in 1 .. 35, NEW m \in 1 .. 35, n # m PROVE Members(f[n]) \cap Members(f[m]) = {}
  <2> SUFFICES ASSUME NEW y, y \in Members(f[n]), y \in Members(f[m]) PROVE FALSE
    OBVIOUS
  <2>1. PICK i \in QueueIdx, j \in QueueIdx : i = 40 - n /\ j = 40 - m
    BY <1>4
  <2>2. i # j
    BY <1>6, <2>1
  <2>3. y \in Members(q.run[i]) /\ y \in Members(q.run[j])
    BY <1>4, <2>1
  <2> QED BY <2>2, <2>3
<1>7. Concatenation(f, 35) \in Seq(Threads) /\ JoinedTo(f, Concatenation(f, 35), 35)
  BY <1>2, <1>4, <1>5, <1>6, ConcatenationMembers
<1>8. ASSUME NEW y
      PROVE  (\E n \in 1 .. 35 : y \in Members(f[n])) <=>
                \E i \in QueueIdx : i >= BoostFloor /\ y \in Members(q.run[i])
  <2>1. ASSUME NEW n \in 1 .. 35, y \in Members(f[n])
        PROVE  \E i \in QueueIdx : i >= BoostFloor /\ y \in Members(q.run[i])
    <3>1. 40 - n >= BoostFloor
      BY DEF BoostFloor
    <3> QED BY <1>4, <2>1, <3>1
  <2>2. ASSUME NEW i \in QueueIdx, i >= BoostFloor, y \in Members(q.run[i])
        PROVE  \E n \in 1 .. 35 : y \in Members(f[n])
    <3>1. 40 - i \in 1 .. 35 /\ 40 - (40 - i) = i
      BY <2>2, QueueFacts DEF BoostFloor
    <3>2. PICK n \in 1 .. 35 : n = 40 - i
      BY <3>1
    <3>3. 40 - n = i
      BY <3>1, <3>2
    <3>4. y \in Members(f[n])
      BY <1>4, <2>2, <3>3
    <3> QED BY <3>4
  <2> QED BY <2>1, <2>2
<1> QED BY <1>3, <1>7, <1>8 DEF JoinedTo

\* The threads it comes to that are not in S.
LEMMA SweptWithout ==
    ASSUME NEW q \in QueueSet, \A i \in QueueIdx : Once(q.run[i]), NEW S,
           \A i, j \in QueueIdx : i # j => Members(q.run[i]) \cap Members(q.run[j]) = {}
    PROVE  /\ Without(Swept(q), S) \in Seq(Threads) /\ Once(Without(Swept(q), S))
           /\ \A y : y \in Members(Without(Swept(q), S)) <=>
                \E i \in QueueIdx : i >= BoostFloor /\ y \in Members(q.run[i]) /\ y \notin S
<1>1. PICK a : a = Swept(q)
  OBVIOUS
<1>2. /\ a \in Seq(Threads) /\ Once(a)
      /\ \A y : y \in Members(a) <=> \E i \in QueueIdx : i >= BoostFloor /\ y \in Members(q.run[i])
  BY <1>1, SweptMembers
<1>3. Without(a, S) \in Seq(Threads) /\ Once(Without(a, S)) /\ Members(Without(a, S)) = Members(a) \ S
  BY <1>2, WithoutMembers
<1> QED BY <1>1, <1>2, <1>3

\* The threads scheduler_rebalance() leaves out of run queue i.
Stays(q, st, i) ==
    {t \in Threads : \/ t \notin Boosted(q) \/ st[t] # "READY"
                     \/ PriorityToQueue(BoostedPriority(t)) # i}

AllRunSet(q, z, f) == z = [q EXCEPT !.run = f]

LEMMA ChangeAllRun ==
    ASSUME NEW q \in QueueSet, NEW f \in [QueueIdx -> Seq(Threads)], NEW z, AllRunSet(q, z, f)
    PROVE  z \in QueueSet /\ z.sleep = q.sleep /\ z.run = f /\ z.wait = q.wait
BY DEF QueueSet, AllRunSet

\* scheduler_rebalance(): every thread is in the queue of its new priority.
LEMMA RebalancePlaced ==
    ASSUME priority \in [Threads -> Priorities],
           NEW q, NEW st, NEW bl, NEW wk, Placed(q, st, priority, bl, wk),
           NEW pr, pr = [t \in Threads |-> IF t \in Boosted(q) THEN BoostedPriority(t) ELSE priority[t]]
    PROVE  /\ Placed(Rebalanced(q, st), st, pr, bl, wk)
           /\ pr \in [Threads -> Priorities]
<1>1. PICK B : B = Boosted(q)
  OBVIOUS
<1>2. /\ q \in QueueSet
      /\ \A i \in QueueIdx : /\ Once(q.run[i]) /\ q.run[i] \in Seq(Threads)
                             /\ \A y \in Members(q.run[i]) : y \in Threads /\ PriorityToQueue(priority[y]) = i
  BY QueueTypes DEF Placed, RunOK
<1>3. \A i, j \in QueueIdx : i # j => Members(q.run[i]) \cap Members(q.run[j]) = {}
  BY <1>2
<1>4. \A t \in Threads : t \in B <=> /\ priority[t] > PRIO_LOW
                                      /\ \E i \in QueueIdx : i >= BoostFloor /\ t \in Members(q.run[i])
  BY <1>1, ContainsMember DEF Boosted
<1>5. \A t \in Threads : pr[t] = IF t \in B THEN BoostedPriority(t) ELSE priority[t]
  BY <1>1
<1>6. pr \in [Threads -> Priorities]
  <2>1. \A t \in B : t \in Threads
    BY <1>1 DEF Boosted
  <2>2. \A t \in B : BoostedPriority(t) \in Priorities
    BY <1>4, <2>1, QueueFacts DEF BoostedPriority
  <2> QED BY <1>1, <2>2
<1>7. ASSUME NEW i \in QueueIdx
      PROVE  /\ Without(q.run[i], B) \o Without(Swept(q), Stays(q, st, i)) \in Seq(Threads)
             /\ Once(Without(q.run[i], B) \o Without(Swept(q), Stays(q, st, i)))
             /\ \A y : y \in Members(Without(q.run[i], B) \o Without(Swept(q), Stays(q, st, i))) <=>
                   \/ y \in Members(q.run[i]) /\ y \notin B
                   \/ y \in B /\ st[y] = "READY" /\ PriorityToQueue(BoostedPriority(y)) = i
  <2>1. PICK a \in Seq(Threads) : /\ a = Without(q.run[i], B) /\ Once(a)
                                  /\ Members(a) = Members(q.run[i]) \ B
    BY <1>2, WithoutMembers
  <2>2. PICK S : S = Stays(q, st, i)
    OBVIOUS
  <2>3. PICK b \in Seq(Threads) :
          /\ b = Without(Swept(q), S) /\ Once(b)
          /\ \A y : y \in Members(b) <=>
               \E j \in QueueIdx : j >= BoostFloor /\ y \in Members(q.run[j]) /\ y \notin S
    BY <1>2, <1>3, SweptWithout
  <2>4. \A y \in Threads : y \notin S <=>
            y \in B /\ st[y] = "READY" /\ PriorityToQueue(BoostedPriority(y)) = i
    BY <1>1, <2>2 DEF Stays
  <2>5. ASSUME NEW y
        PROVE  y \in Members(b) <=> y \in B /\ st[y] = "READY" /\ PriorityToQueue(BoostedPriority(y)) = i
    <3>1. ASSUME y \in Members(b)
          PROVE  y \in B /\ st[y] = "READY" /\ PriorityToQueue(BoostedPriority(y)) = i
      BY <1>2, <2>3, <2>4, <3>1
    <3>2. ASSUME y \in B, st[y] = "READY", PriorityToQueue(BoostedPriority(y)) = i
          PROVE  y \in Members(b)
      <4>1. y \in Threads
        BY <1>1, <3>2 DEF Boosted
      <4> QED BY <1>4, <2>3, <2>4, <3>2, <4>1
    <3> QED BY <3>1, <3>2
  <2>6. Members(a) \cap Members(b) = {}
    BY <2>1, <2>5
  <2>7. a \o b \in Seq(Threads) /\ Once(a \o b) /\ Members(a \o b) = Members(a) \cup Members(b)
    BY <2>1, <2>3, <2>6, JoinMembers
  <2> QED BY <2>1, <2>2, <2>3, <2>5, <2>7
<1>8. PICK f \in [QueueIdx -> Seq(Threads)] :
        f = [i \in QueueIdx |-> Without(q.run[i], B) \o Without(Swept(q), Stays(q, st, i))]
  BY <1>7
<1>9. PICK z : AllRunSet(q, z, f)
  BY DEF AllRunSet
<1>10. Rebalanced(q, st) = z
  BY <1>1, <1>8, <1>9 DEF Rebalanced, AllRunSet, Stays
<1>11. z \in QueueSet /\ z.sleep = q.sleep /\ z.run = f /\ z.wait = q.wait
  BY <1>2, <1>9, ChangeAllRun
<1>12. \A i \in QueueIdx : /\ Once(z.run[i])
                           /\ \A y : y \in Members(z.run[i]) <=>
                                \/ y \in Members(q.run[i]) /\ y \notin B
                                \/ y \in B /\ st[y] = "READY" /\ PriorityToQueue(BoostedPriority(y)) = i
  BY <1>7, <1>8, <1>11
<1>13. RunOK(z, st, pr, wk)
  <2> SUFFICES ASSUME NEW i \in QueueIdx, NEW y \in Members(z.run[i])
               PROVE  /\ y \in Workers \cup {Idle[0]} /\ PriorityToQueue(pr[y]) = i
                      /\ st[y] \in {"READY", "RUNNING"} /\ \A k \in KernelThreads : wk[k] # y
    BY <1>12 DEF RunOK
  <2>1. CASE y \in Members(q.run[i]) /\ y \notin B
    <3>1. pr[y] = priority[y]
      BY <1>2, <1>5, <2>1
    <3> QED BY <2>1, <3>1 DEF Placed, RunOK
  <2>2. CASE y \in B /\ st[y] = "READY" /\ PriorityToQueue(BoostedPriority(y)) = i
    <3>1. y \in Threads
      BY <1>1, <2>2 DEF Boosted
    <3>2. PICK j \in QueueIdx : y \in Members(q.run[j])
      BY <1>4, <2>2, <3>1
    <3>3. pr[y] = BoostedPriority(y)
      BY <1>5, <2>2, <3>1
    <3> QED BY <2>2, <3>2, <3>3 DEF Placed, RunOK
  <2> QED BY <1>12, <2>1, <2>2
<1>14. SleepOK(z, st) /\ WaitOK(z, st, bl) /\ WakingOK(st, wk) /\ AliveOK(st)
  BY <1>11 DEF Placed, SleepOK, WaitOK
<1>15. ReadyOK(z, st, pr, wk)
  <2> SUFFICES ASSUME NEW y \in Workers, st[y] = "READY", \A k \in KernelThreads : wk[k] # y
               PROVE  y \in Members(z.run[PriorityToQueue(pr[y])])
    BY DEF ReadyOK
  <2>1. y \in Threads /\ PriorityToQueue(pr[y]) \in QueueIdx
    BY <1>6, QueueFacts, SchedulerFacts
  <2>2. y \in Members(q.run[PriorityToQueue(priority[y])])
    BY DEF Placed, ReadyOK
  <2>3. CASE y \in B
    BY <1>5, <1>12, <2>1, <2>3
  <2>4. CASE y \notin B
    BY <1>5, <1>12, <2>1, <2>2, <2>4
  <2> QED BY <2>3, <2>4
<1> QED BY <1>6, <1>10, <1>11, <1>13, <1>14, <1>15 DEF Placed

\* What TickRest assigns: ts are the threads that come due, z and zt the queues and
\* the states with them, B the threads that are boosted.
RestStep(q, sl, k, boost, ts, z, zt, B) ==
    /\ queues' = IF boost THEN Rebalanced(z, zt) ELSE z
    /\ tstate' = zt
    /\ priority' = [t \in Threads |-> IF t \in B THEN BoostedPriority(t) ELSE priority[t]]
    /\ time_slice' = [t \in Threads |->
                        IF Contains(ts, t) \/ t \in {x \in B : zt[x] = "READY"}
                        THEN Timeslice(IF t \in B THEN BoostedPriority(t) ELSE priority[t])
                        ELSE IF Contains(q.sleep, t) THEN sl[t] - 1 ELSE sl[t]]
    /\ kick' = Kicks(0, UserCount({x \in B : zt[x] = "READY"}), Kicks(0, UserCount(ToSet(ts)), k))

\* scheduler_tick() after the time slice.
LEMMA TickRestPlaced ==
    ASSUME priority \in [Threads -> Priorities], NEW q, NEW st, Placed(q, st, priority, blocked_on, waking),
           NEW sl \in [Threads -> Nat], NEW k \in [Aps -> 0 .. 2], NEW boost \in BOOLEAN,
           CpusOK(st, current), TickRest(q, st, sl, k, boost)
    PROVE  /\ Placed(queues', tstate', priority', blocked_on, waking)
           /\ CpusOK(tstate', current)
           /\ priority' \in [Threads -> Priorities]
           /\ time_slice' \in [Threads -> Nat]
           /\ kick' \in [Aps -> 0 .. 2]
<1>1. PICK ts, z, zt, B :
         /\ ts = Due(q, sl)
         /\ z = [q EXCEPT !.sleep = StillAsleep(q, sl),
                          !.run = [i \in QueueIdx |-> @[i] \o ThreadsOf(ts, i, priority)]]
         /\ Woken(st, zt, ts)
         /\ B = IF boost THEN Boosted(z) ELSE {}
         /\ RestStep(q, sl, k, boost, ts, z, zt, B)
  <2>1. \E due \in {Due(q, sl)} :
        \E q1 \in {[q EXCEPT !.sleep = StillAsleep(q, sl),
                             !.run = [i \in QueueIdx |-> @[i] \o ThreadsOf(due, i, priority)]]},
           st1 \in {[t \in Threads |-> IF Contains(due, t) THEN "READY" ELSE st[t]]} :
        \E moved \in {IF boost THEN Boosted(q1) ELSE {}} :
           RestStep(q, sl, k, boost, due, q1, st1, moved)
    BY DEF TickRest, RestStep
  <2>2. PICK ts \in {Due(q, sl)} :
        \E q1 \in {[q EXCEPT !.sleep = StillAsleep(q, sl),
                             !.run = [i \in QueueIdx |-> @[i] \o ThreadsOf(ts, i, priority)]]},
           st1 \in {[t \in Threads |-> IF Contains(ts, t) THEN "READY" ELSE st[t]]} :
        \E moved \in {IF boost THEN Boosted(q1) ELSE {}} :
           RestStep(q, sl, k, boost, ts, q1, st1, moved)
    BY <2>1
  <2>3. PICK z \in {[q EXCEPT !.sleep = StillAsleep(q, sl),
                              !.run = [i \in QueueIdx |-> @[i] \o ThreadsOf(ts, i, priority)]]},
             zt \in {[t \in Threads |-> IF Contains(ts, t) THEN "READY" ELSE st[t]]} :
        \E moved \in {IF boost THEN Boosted(z) ELSE {}} :
           RestStep(q, sl, k, boost, ts, z, zt, moved)
    BY <2>2
  <2> QED BY <2>2, <2>3 DEF Woken
<1>2. Placed(z, zt, priority, blocked_on, waking) /\ \A t \in Members(ts) : st[t] = "SLEEPING"
  <2>1. ts = Due(q, sl) /\ Woken(st, zt, Due(q, sl)) /\ DueSet(q, z, sl, priority)
    BY <1>1 DEF DueSet
  <2> QED BY <2>1, DuePlaced
<1>3. PICK pr : pr = [t \in Threads |-> IF t \in B THEN BoostedPriority(t) ELSE priority[t]]
  OBVIOUS
<1>4. /\ queues' = IF boost THEN Rebalanced(z, zt) ELSE z
      /\ tstate' = zt
      /\ priority' = pr
      /\ time_slice' = [t \in Threads |->
                          IF Contains(ts, t) \/ t \in {x \in B : zt[x] = "READY"}
                          THEN Timeslice(IF t \in B THEN BoostedPriority(t) ELSE priority[t])
                          ELSE IF Contains(q.sleep, t) THEN sl[t] - 1 ELSE sl[t]]
  BY <1>1, <1>3 DEF RestStep
<1>5. Placed(queues', zt, pr, blocked_on, waking) /\ pr \in [Threads -> Priorities]
  <2>1. CASE boost
    BY <1>1, <1>2, <1>3, <1>4, <2>1, RebalancePlaced
  <2>2. CASE ~boost
    <3>1. pr = priority
      BY <1>1, <1>3, <2>2
    <3> QED BY <1>2, <1>4, <2>2, <3>1
  <2> QED BY <2>1, <2>2
<1>6. CpusOK(zt, current)
  <2>1. \A t \in Threads : zt[t] = IF t \in Members(ts) THEN "READY" ELSE st[t]
    BY <1>1, ContainsMember DEF Woken
  <2>2. zt \in [Threads -> TaskStates]
    BY <1>1 DEF Woken, CpusOK, TaskStates
  <2> QED BY <1>2, <2>1, <2>2 DEF CpusOK
<1>7. time_slice' \in [Threads -> Nat]
  <2>1. ASSUME NEW t \in Threads
        PROVE  Timeslice(IF t \in B THEN BoostedPriority(t) ELSE priority[t]) \in Nat
    <3>1. pr[t] = IF t \in B THEN BoostedPriority(t) ELSE priority[t]
      BY <1>3
    <3>2. pr[t] \in Int
      BY <1>5, QueueFacts
    <3> QED BY <3>1, <3>2, TimesliceNat
  <2>2. ASSUME NEW t \in Threads, ~Contains(ts, t), Contains(q.sleep, t) PROVE sl[t] - 1 \in Nat
    <3>1. q \in QueueSet /\ Once(q.sleep) /\ sl[t] \in Nat
      BY DEF Placed, SleepOK
    <3>2. Members(ts) = Members(q.sleep) \ {x \in Threads : sl[x] > 1}
      BY <1>1, <3>1, QueueTypes, WithoutMembers DEF Due
    <3>3. sl[t] > 1
      BY <2>2, <3>2, ContainsMember
    <3> QED BY <3>1, <3>3
  <2> QED BY <1>4, <2>1, <2>2
<1>8. kick' \in [Aps -> 0 .. 2]
  BY <1>1, KicksType DEF RestStep
<1> QED BY <1>4, <1>5, <1>6, <1>7, <1>8

\* What the tick does once the thread of the boot CPU has used up its slice.
LEMMA OverTick ==
    ASSUME SchedulerInv, NEW q, NEW st, Placed(q, st, priority, blocked_on, waking), Leaving(0, st),
           NEW sl \in [Threads -> Nat], NEW k \in [Aps -> 0 .. 2], NEW boost \in BOOLEAN,
           NEW next, next = PickNext(0, q), blocked_on' = blocked_on, work' = work, waking' = waking,
           \/ /\ Switches(0, next, st)
              /\ current' = [current EXCEPT ![0] = next]
              /\ tstate' = SwitchState(0, next, st)
              /\ queues' = q
              /\ time_slice' = sl
              /\ kick' = k
              /\ UNCHANGED priority
           \/ /\ ~Switches(0, next, st)
              /\ TickRest(q, StayState(0, next, st), sl, k, boost)
              /\ UNCHANGED current
    PROVE  SchedulerInv'
<1>0. 0 \in CPUs /\ FieldsOK
  BY SchedulerFacts, InvFields
<1>1. CASE /\ Switches(0, next, st)
           /\ current' = [current EXCEPT ![0] = next]
           /\ tstate' = SwitchState(0, next, st)
           /\ queues' = q
           /\ time_slice' = sl
           /\ kick' = k
           /\ UNCHANGED priority
  <2>1. Placed(q, tstate', priority, blocked_on, waking) /\ CpusOK(tstate', current')
    BY <1>0, <1>1, SwitchPlaced
  <2>2. FieldsOK'
    BY <1>0, <1>1 DEF FieldsOK
  <2> QED BY <1>1, <2>1, <2>2, StepInv
<1>2. CASE /\ ~Switches(0, next, st)
           /\ TickRest(q, StayState(0, next, st), sl, k, boost)
           /\ UNCHANGED current
  <2>1. PICK zt : zt = StayState(0, next, st)
    OBVIOUS
  <2>2. Placed(q, zt, priority, blocked_on, waking) /\ CpusOK(zt, current)
    BY <1>0, <1>2, <2>1, StayPlaced
  <2>3. TickRest(q, zt, sl, k, boost) /\ priority \in [Threads -> Priorities]
    BY <1>0, <1>2, <2>1 DEF FieldsOK
  <2>4. /\ Placed(queues', tstate', priority', blocked_on, waking) /\ CpusOK(tstate', current)
        /\ priority' \in [Threads -> Priorities] /\ time_slice' \in [Threads -> Nat]
        /\ kick' \in [Aps -> 0 .. 2]
    BY <2>2, <2>3, TickRestPlaced
  <2>5. FieldsOK'
    BY <1>0, <2>4 DEF FieldsOK
  <2> QED BY <1>2, <2>4, <2>5, StepInv
<1> QED BY <1>1, <1>2

\* What a tick does with the queues, states, slices and kicks it has after the slice of
\* the running thread was counted down.
TickBody(asks, q, st, sl, k, next, boost) ==
    \/ /\ ~asks
       /\ TickRest(q, st, sl, k, boost)
       /\ UNCHANGED current
    \/ /\ asks
       /\ Switches(0, next, st)
       /\ current' = [current EXCEPT ![0] = next]
       /\ tstate' = SwitchState(0, next, st)
       /\ queues' = q
       /\ time_slice' = sl
       /\ kick' = k
       /\ UNCHANGED priority
    \/ /\ asks
       /\ ~Switches(0, next, st)
       /\ TickRest(q, StayState(0, next, st), sl, k, boost)
       /\ UNCHANGED current

TickRuns == tstate[current[0]] = "RUNNING"
TickLeft == IF time_slice[current[0]] > 0 THEN time_slice[current[0]] - 1 ELSE 0
TickOver == TickRuns /\ TickLeft = 0
TickAsks == TickOver \/ (tstate[current[0]] = "ZOMBIE" /\ current[0] # Idle[0])

LEMMA TickValues ==
    ASSUME NEW W, NEW boost, Tick(W, boost)
    PROVE  \E q, st, sl, kw, next, k :
              /\ q = IF TickOver THEN Requeue(queues, current[0]) ELSE queues
              /\ st = IF TickOver THEN [tstate EXCEPT ![current[0]] = "READY"] ELSE tstate
              /\ sl = [time_slice EXCEPT ![current[0]] = IF TickOver THEN Timeslice(priority[current[0]])
                                                         ELSE IF TickRuns THEN TickLeft ELSE @]
              /\ kw = [c \in Aps |-> IF c \in W THEN 2 ELSE kick[c]]
              /\ next = PickNext(0, q)
              /\ k = IF TickOver THEN Kicks(0, UserCount({current[0]}), kw) ELSE kw
              /\ TickBody(TickAsks, q, st, sl, k, next, boost)
<1>1. \E q  \in {IF TickOver THEN Requeue(queues, current[0]) ELSE queues},
         st \in {IF TickOver THEN [tstate EXCEPT ![current[0]] = "READY"] ELSE tstate},
         sl \in {[time_slice EXCEPT ![current[0]] = IF TickOver THEN Timeslice(priority[current[0]])
                                                    ELSE IF TickRuns THEN TickLeft ELSE @]},
         kw \in {[c \in Aps |-> IF c \in W THEN 2 ELSE kick[c]]} :
      \E next \in {PickNext(0, q)},
         k \in {IF TickOver THEN Kicks(0, UserCount({current[0]}), kw) ELSE kw} :
         TickBody(TickAsks, q, st, sl, k, next, boost)
  BY DEF Tick, TickBody, TickRuns, TickLeft, TickOver, TickAsks
<1>2. PICK q  \in {IF TickOver THEN Requeue(queues, current[0]) ELSE queues},
           st \in {IF TickOver THEN [tstate EXCEPT ![current[0]] = "READY"] ELSE tstate},
           sl \in {[time_slice EXCEPT ![current[0]] = IF TickOver THEN Timeslice(priority[current[0]])
                                                      ELSE IF TickRuns THEN TickLeft ELSE @]},
           kw \in {[c \in Aps |-> IF c \in W THEN 2 ELSE kick[c]]} :
      \E next \in {PickNext(0, q)},
         k \in {IF TickOver THEN Kicks(0, UserCount({current[0]}), kw) ELSE kw} :
         TickBody(TickAsks, q, st, sl, k, next, boost)
  BY <1>1
<1>3. PICK next \in {PickNext(0, q)},
           k \in {IF TickOver THEN Kicks(0, UserCount({current[0]}), kw) ELSE kw} :
         TickBody(TickAsks, q, st, sl, k, next, boost)
  BY <1>2
<1> QED BY <1>2, <1>3

LEMMA TickInv ==
    ASSUME SchedulerInv, NEW W \in SUBSET Aps, NEW boost \in BOOLEAN, Tick(W, boost)
    PROVE  SchedulerInv'
<1>0. 0 \in CPUs /\ FieldsOK /\ Placed(queues, tstate, priority, blocked_on, waking)
  BY SchedulerFacts, InvFields DEF SchedulerInv
<1>1. PICK t : t = current[0]
  OBVIOUS
<1>2. t # NoThread
  BY <1>1 DEF Tick
<1>3. t \in Threads /\ tstate[t] = "RUNNING" /\ t \in Workers \cup {Idle[0]} /\ priority[t] \in Int
  BY <1>0, <1>1, <1>2, CurrentFacts, QueueFacts
<1>4. blocked_on' = blocked_on /\ work' = work /\ waking' = waking
  BY DEF Tick
<1>5. PICK n \in Nat : n = IF time_slice[t] > 0 THEN time_slice[t] - 1 ELSE 0
  <2>1. time_slice[t] \in Nat
    BY <1>0, <1>3 DEF FieldsOK
  <2> QED BY <2>1
<1>6. Timeslice(priority[t]) \in Nat
  BY <1>3, TimesliceNat
<1>7. PICK q, st, sl, kw, next, k :
        /\ q = IF n = 0 THEN Requeue(queues, t) ELSE queues
        /\ st = IF n = 0 THEN [tstate EXCEPT ![t] = "READY"] ELSE tstate
        /\ sl = [time_slice EXCEPT ![t] = IF n = 0 THEN Timeslice(priority[t]) ELSE n]
        /\ kw = [c \in Aps |-> IF c \in W THEN 2 ELSE kick[c]]
        /\ next = PickNext(0, q)
        /\ k = IF n = 0 THEN Kicks(0, UserCount({t}), kw) ELSE kw
        /\ TickBody(n = 0, q, st, sl, k, next, boost)
  <2>1. TickRuns /\ TickLeft = n
    BY <1>1, <1>3, <1>5 DEF TickRuns, TickLeft
  <2>2. TickOver = (n = 0) /\ TickAsks = (n = 0)
    BY <1>1, <1>3, <2>1 DEF TickOver, TickAsks
  <2>3. PICK q, st, sl, kw, next, k :
              /\ q = IF TickOver THEN Requeue(queues, current[0]) ELSE queues
              /\ st = IF TickOver THEN [tstate EXCEPT ![current[0]] = "READY"] ELSE tstate
              /\ sl = [time_slice EXCEPT ![current[0]] = IF TickOver THEN Timeslice(priority[current[0]])
                                                         ELSE IF TickRuns THEN TickLeft ELSE @]
              /\ kw = [c \in Aps |-> IF c \in W THEN 2 ELSE kick[c]]
              /\ next = PickNext(0, q)
              /\ k = IF TickOver THEN Kicks(0, UserCount({current[0]}), kw) ELSE kw
              /\ TickBody(TickAsks, q, st, sl, k, next, boost)
    BY TickValues
  <2> QED BY <1>1, <2>1, <2>2, <2>3
<1>8. sl \in [Threads -> Nat]
  BY <1>0, <1>5, <1>6, <1>7 DEF FieldsOK
<1>9. kw \in [Aps -> 0 .. 2]
  <2>1. kick \in [Aps -> 0 .. 2] /\ 2 \in 0 .. 2
    BY <1>0 DEF FieldsOK
  <2> QED BY <1>7, <2>1
<1>10. k \in [Aps -> 0 .. 2]
  BY <1>7, <1>9, KicksType
<1>11. CASE n # 0
  <2>1. TickRest(queues, tstate, sl, k, boost) /\ UNCHANGED current
    BY <1>7, <1>11 DEF TickBody
  <2>2. /\ Placed(queues', tstate', priority', blocked_on, waking) /\ CpusOK(tstate', current)
        /\ priority' \in [Threads -> Priorities] /\ time_slice' \in [Threads -> Nat]
        /\ kick' \in [Aps -> 0 .. 2]
    BY <1>0, <1>8, <1>10, <2>1, InvCpus, TickRestPlaced DEF FieldsOK
  <2>3. FieldsOK'
    BY <1>0, <1>4, <2>2 DEF FieldsOK
  <2> QED BY <1>4, <2>1, <2>2, <2>3, StepInv
<1>12. CASE n = 0
  <2>1. Changed(st, t, "READY") /\ q = Requeue(queues, t)
    BY <1>7, <1>12 DEF Changed
  <2>2. Placed(q, st, priority, blocked_on, waking) /\ Leaving(0, st)
    BY <1>0, <1>1, <1>2, <1>3, <2>1, RequeuePlaced
  <2>3. TickBody(TRUE, q, st, sl, k, next, boost) /\ next = PickNext(0, q)
    BY <1>7, <1>12
  <2> QED BY <1>4, <1>8, <1>10, <2>2, <2>3, OverTick DEF TickBody
<1> QED BY <1>11, <1>12

-----------------------------------------------------------------------------
(* The theorems.                                                           *)

LEMMA InitInv == SchedulerInit => SchedulerInv
<1> SUFFICES ASSUME SchedulerInit PROVE SchedulerInv
  OBVIOUS
<1>1. PICK line \in SetToSeqs(Workers) :
         queues = [run |-> [i \in QueueIdx |-> ThreadsOf(line, i, InitPriority)],
                   sleep |-> <<>>,
                   wait |-> [w \in WaitQueues |-> <<>>]]
  BY DEF SchedulerInit
<1>2. line \in Seq(Threads) /\ Members(line) = Workers /\ Once(line)
  <2>1. line \in Seq(Workers) /\ Members(line) = Workers /\ Once(line)
    BY SchedulerAssumption, LineMembers
  <2> QED BY <2>1, SchedulerFacts
<1>3. /\ queues.run = [i \in QueueIdx |-> ThreadsOf(line, i, InitPriority)]
      /\ queues.sleep = <<>> /\ queues.wait = [w \in WaitQueues |-> <<>>]
  BY <1>1
<1>4. \A i \in QueueIdx :
         /\ queues.run[i] \in Seq(Threads) /\ Once(queues.run[i])
         /\ \A y : y \in Members(queues.run[i]) <=> y \in Workers /\ PriorityToQueue(InitPriority[y]) = i
  BY <1>2, <1>3, ThreadsOfMembers
<1>5. queues \in QueueSet
  <2>1. queues.run \in [QueueIdx -> Seq(Threads)]
    BY <1>3, <1>4
  <2>2. queues.sleep \in Seq(Threads) /\ queues.wait \in [WaitQueues -> Seq(Threads)]
    BY <1>3
  <2>3. queues = [run |-> queues.run, sleep |-> queues.sleep, wait |-> queues.wait]
    BY <1>1
  <2> QED BY <2>1, <2>2, <2>3 DEF QueueSet
<1>6. /\ tstate = [t \in Threads |-> "READY"] /\ priority = InitPriority
      /\ time_slice = [t \in Threads |-> Timeslice(InitPriority[t])]
      /\ blocked_on = [t \in Threads |-> NoQueue]
      /\ current = [c \in CPUs |-> NoThread] /\ kick = [c \in Aps |-> 0]
      /\ work = [c \in Aps |-> 0] /\ waking = [k \in KernelThreads |-> NoThread]
  BY DEF SchedulerInit
<1>7. InitPriority \in [Threads -> Priorities] /\ MaxWork \in Nat
  BY SchedulerAssumption
<1>8. FieldsOK
  <2>1. \A t \in Threads : Timeslice(InitPriority[t]) \in Nat
    BY <1>7, QueueFacts, TimesliceNat
  <2>2. time_slice \in [Threads -> Nat]
    BY <1>6, <2>1
  <2> QED BY <1>6, <1>7, <2>2 DEF FieldsOK
<1>9. \A k \in KernelThreads : waking[k] = NoThread
  BY <1>6
<1>10. \A t \in Threads : tstate[t] = "READY" /\ blocked_on[t] = NoQueue /\ t # NoThread
  BY <1>6, SchedulerFacts
<1>11. RunOK(queues, tstate, priority, waking)
  BY <1>4, <1>6, <1>9, <1>10, SchedulerFacts DEF RunOK
<1>12. SleepOK(queues, tstate)
  BY <1>3, <1>10, EmptyMembers DEF SleepOK
<1>13. WaitOK(queues, tstate, blocked_on)
  BY <1>3, <1>10, EmptyMembers, SchedulerFacts DEF WaitOK
<1>14. ReadyOK(queues, tstate, priority, waking)
  <2>1. \A y \in Workers : PriorityToQueue(InitPriority[y]) \in QueueIdx
    BY <1>7, QueueFacts, SchedulerFacts
  <2> QED BY <1>4, <1>6, <2>1 DEF ReadyOK
<1>15. WakingOK(tstate, waking) /\ AliveOK(tstate)
  BY <1>9, <1>10, SchedulerFacts DEF WakingOK, AliveOK
<1>16. RunningIsCurrent
  BY <1>6, <1>10, SchedulerFacts DEF RunningIsCurrent, OnCpu
<1>17. SchedulerTypeOK
  <2>1. tstate \in [Threads -> TaskStates] /\ current \in [CPUs -> Threads \cup {NoThread}]
    BY <1>6 DEF TaskStates
  <2> QED BY <1>5, <1>8, <2>1, QueueTypes DEF SchedulerTypeOK, FieldsOK
<1> QED BY <1>5, <1>11, <1>12, <1>13, <1>14, <1>15, <1>16, <1>17 DEF SchedulerInv, Placed

LEMMA ThreadCallInv == ASSUME SchedulerInv, NEW c \in CPUs, ThreadCall(c) PROVE SchedulerInv'
BY YieldInv, SleepInv, BlockInv, WakeOneInv, WakeAllInv, UnblockInv, WakeDetachInv DEF ThreadCall

LEMMA ApStepInv == ASSUME SchedulerInv, NEW c \in Aps, ApStep(c) PROVE SchedulerInv'
BY CpuEnterInv, TimerIrqInv, KickIrqInv, WorkInv DEF ApStep

LEMMA BootTickInv == ASSUME SchedulerInv, BootTick PROVE SchedulerInv'
<1>1. PICK W \in SUBSET {c \in Aps : current[c] # NoThread},
           boost \in (IF BoostEnabled THEN BOOLEAN ELSE {FALSE}) : Tick(W, boost)
  BY DEF BootTick
<1>2. W \in SUBSET Aps /\ boost \in BOOLEAN
  OBVIOUS
<1> QED BY <1>1, <1>2, TickInv

LEMMA NextInv == SchedulerInv /\ [SchedulerNext]_schedulerVars => SchedulerInv'
<1> SUFFICES ASSUME SchedulerInv, [SchedulerNext]_schedulerVars PROVE SchedulerInv'
  OBVIOUS
<1>1. CASE Start
  BY <1>1, StartInv
<1>2. CASE BootTick
  BY <1>2, BootTickInv
<1>3. ASSUME NEW c \in CPUs, ThreadCall(c) \/ WakeEnqueue(c) PROVE SchedulerInv'
  BY <1>3, ThreadCallInv, WakeEnqueueInv
<1>4. ASSUME NEW c \in Aps, ApStep(c) PROVE SchedulerInv'
  BY <1>4, ApStepInv
<1>5. CASE UNCHANGED schedulerVars
  <2>1. /\ tstate' = tstate /\ priority' = priority /\ time_slice' = time_slice
        /\ blocked_on' = blocked_on /\ queues' = queues /\ current' = current
        /\ kick' = kick /\ work' = work /\ waking' = waking
    BY <1>5 DEF schedulerVars
  <2>2. FieldsOK'
    BY <2>1, InvFields DEF FieldsOK
  <2>3. Placed(queues, tstate, priority, blocked_on, waking)
    BY DEF SchedulerInv
  <2> QED BY <2>1, <2>2, <2>3, InvCpus, StepInv
<1> QED BY <1>1, <1>2, <1>3, <1>4, <1>5 DEF SchedulerNext

\* The inductive invariant: the lists, the thread states, the priorities and the CPUs
\* agree with each other after every operation of the scheduler (scheduler.c).
THEOREM SchedulerInductive == SchedulerSpec => []SchedulerInv
<1> QED BY InitInv, NextInv, PTL DEF SchedulerSpec

\* The fields of scheduler.c keep their types for any number of CPUs, threads and
\* queues: every priority that scheduler_rebalance() produces selects a run queue, and
\* no countdown of scheduler_tick() goes below 0.
THEOREM SchedulerTypeCorrect == SchedulerSpec => []SchedulerTypeOK
<1>1. SchedulerInv => SchedulerTypeOK
  BY DEF SchedulerInv
<1> QED BY <1>1, SchedulerInductive, PTL

LEMMA InvLinkedOnce == SchedulerInv => LinkedOnce
<1> SUFFICES ASSUME SchedulerInv, NEW a \in AllQueues, NEW b \in AllQueues,
                    NEW m \in DOMAIN QueueOf(a), NEW n \in DOMAIN QueueOf(b),
                    QueueOf(a)[m] = QueueOf(b)[n]
             PROVE  a = b /\ m = n
  BY DEF LinkedOnce
<1>0. queues \in QueueSet /\ Placed(queues, tstate, priority, blocked_on, waking)
  BY DEF SchedulerInv, Placed
<1>1. PICK t : t = QueueOf(a)[m]
  OBVIOUS
<1> DEFINE Where(x, s) ==
       \/ /\ s \in {"READY", "RUNNING"} /\ x = <<"run", PriorityToQueue(priority[t])>>
       \/ /\ s = "BLOCKED" /\ x = <<"wait", blocked_on[t]>>
       \/ /\ s = "SLEEPING" /\ x = <<"sleep", 0>>
<1>2. ASSUME NEW x \in AllQueues
      PROVE  QueueOf(x) \in Seq(Threads) /\ Once(QueueOf(x)) /\ (t \in Members(QueueOf(x)) => Where(x, tstate[t]))
  <2>1. ASSUME NEW i \in QueueIdx, x = <<"run", i>>
        PROVE  QueueOf(x) \in Seq(Threads) /\ Once(QueueOf(x)) /\ (t \in Members(QueueOf(x)) => Where(x, tstate[t]))
    <3>1. QueueOf(x) = queues.run[i]
      BY <2>1 DEF QueueOf
    <3>2. queues.run[i] \in Seq(Threads) /\ Once(queues.run[i])
      BY <1>0, QueueTypes DEF Placed, RunOK
    <3>3. t \in Members(queues.run[i]) => tstate[t] \in {"READY", "RUNNING"} /\ PriorityToQueue(priority[t]) = i
      BY <1>0 DEF Placed, RunOK
    <3> QED BY <2>1, <3>1, <3>2, <3>3
  <2>2. ASSUME NEW w \in WaitQueues, x = <<"wait", w>>
        PROVE  QueueOf(x) \in Seq(Threads) /\ Once(QueueOf(x)) /\ (t \in Members(QueueOf(x)) => Where(x, tstate[t]))
    <3>1. QueueOf(x) = queues.wait[w]
      BY <2>2 DEF QueueOf
    <3>2. /\ queues.wait[w] \in Seq(Threads) /\ Once(queues.wait[w])
          /\ Members(queues.wait[w]) \subseteq Threads
      BY <1>0, QueueTypes DEF Placed, WaitOK
    <3>3. t \in Members(queues.wait[w]) => tstate[t] = "BLOCKED" /\ blocked_on[t] = w
      BY <1>0, <3>2, SchedulerFacts DEF Placed, WaitOK
    <3> QED BY <2>2, <3>1, <3>2, <3>3
  <2>3. ASSUME x = <<"sleep", 0>>
        PROVE  QueueOf(x) \in Seq(Threads) /\ Once(QueueOf(x)) /\ (t \in Members(QueueOf(x)) => Where(x, tstate[t]))
    <3>1. QueueOf(x) = queues.sleep
      BY <2>3 DEF QueueOf
    <3>2. /\ queues.sleep \in Seq(Threads) /\ Once(queues.sleep) /\ Members(queues.sleep) \subseteq Threads
      BY <1>0, QueueTypes DEF Placed, SleepOK
    <3>3. t \in Members(queues.sleep) => tstate[t] = "SLEEPING"
      BY <1>0, <3>2 DEF Placed, SleepOK
    <3> QED BY <2>3, <3>1, <3>2, <3>3
  <2> QED BY <2>1, <2>2, <2>3 DEF AllQueues
<1>3. t \in Members(QueueOf(a)) /\ t \in Members(QueueOf(b))
  <2>1. QueueOf(a) \in Seq(Threads) /\ QueueOf(b) \in Seq(Threads)
    BY <1>2
  <2> QED BY <1>1, <2>1 DEF Members
<1>4. Where(a, tstate[t]) /\ Where(b, tstate[t])
  BY <1>2, <1>3
<1>5. a = b
  BY <1>4
<1>6. m = n
  <2>1. PICK q : q = QueueOf(a)
    OBVIOUS
  <2>2. q \in Seq(Threads) /\ Once(q) /\ m \in 1 .. Len(q) /\ n \in 1 .. Len(q) /\ q[m] = q[n]
    BY <1>2, <1>5, <2>1
  <2> QED BY <2>2 DEF Once
<1> QED BY <1>5, <1>6

\* thread_t has one pair of list pointers: no operation of scheduler.c, and no
\* interleaving of them on several CPUs, ever has a thread at two places of the run
\* queues, the sleep list and the wait queues.
THEOREM ThreadsAreLinkedOnce == SchedulerSpec => []LinkedOnce
<1> QED BY InvLinkedOnce, SchedulerInductive, PTL

\* A thread that is not running is where the code that has to make it run looks for
\* it: pick_next_task(), scheduler_tick() or the waker of its wait queue; the rebalance
\* that changes priorities and the wake-up in two sections included.
THEOREM ThreadsAreFound == SchedulerSpec => []NoThreadLost
<1>1. SchedulerInv => NoThreadLost
  <2> SUFFICES ASSUME SchedulerInv, NEW t \in Workers
               PROVE  /\ tstate[t] = "READY" => \/ Contains(queues.run[PriorityToQueue(priority[t])], t)
                                                \/ \E k \in KernelThreads : waking[k] = t
                      /\ tstate[t] = "SLEEPING" <=> Contains(queues.sleep, t)
                      /\ tstate[t] = "BLOCKED" <=> blocked_on[t] # NoQueue
                      /\ \A w \in WaitQueues : blocked_on[t] = w <=> Contains(queues.wait[w], t)
    BY DEF NoThreadLost
  <2>1. t \in Threads
    BY SchedulerFacts
  <2>2. tstate[t] = "READY" => \/ Contains(queues.run[PriorityToQueue(priority[t])], t)
                               \/ \E k \in KernelThreads : waking[k] = t
    BY ContainsMember DEF SchedulerInv, Placed, ReadyOK
  <2>3. tstate[t] = "SLEEPING" <=> Contains(queues.sleep, t)
    BY <2>1, ContainsMember DEF SchedulerInv, Placed, SleepOK
  <2>4. /\ tstate[t] = "BLOCKED" <=> blocked_on[t] # NoQueue
        /\ \A w \in WaitQueues : blocked_on[t] = w <=> Contains(queues.wait[w], t)
    BY <2>1, ContainsMember DEF SchedulerInv, Placed, WaitOK
  <2> QED BY <2>2, <2>3, <2>4
<1> QED BY <1>1, SchedulerInductive, PTL

\* Two CPUs that pick from the same run queues (pick_next_task()) never run the same
\* thread, an AP never runs another CPU's idle thread, and the thread of a CPU is
\* RUNNING whichever way scheduler_schedule() returned.
THEOREM CpusRunTheirThreads == SchedulerSpec => []RunningIsCurrent
<1>1. SchedulerInv => RunningIsCurrent
  BY DEF SchedulerInv
<1> QED BY <1>1, SchedulerInductive, PTL
=============================================================================
