------------------------------ MODULE KernelLock ------------------------------
(***************************************************************************)
(* The kernel lock of C-OS: sync_irq_save()/sync_irq_restore() of          *)
(* src/src/kernel/sync.c, a recursive spinlock shared by all CPUs, and the *)
(* way a context switch hands it over (scheduler_do_context_switch() and   *)
(* cos_switch_finish() in scheduler.c, hal_context_switch in               *)
(* context_switch.asm).                                                    *)
(*                                                                         *)
(* The lock is three words (g_kernel_lock, g_kernel_lock_owner,            *)
(* g_kernel_lock_depth) that are read and written one at a time.  Every    *)
(* store is a step of its own here, because the order of the stores is     *)
(* what the algorithm rests on: a CPU recognises its own recursion by      *)
(* looking at the words without any other protection.                      *)
(*                                                                         *)
(* The lock belongs to a CPU, the nesting to a thread.  A thread that      *)
(* switches away inside a section takes its depth along in a local of its  *)
(* own kernel stack; the CPU gives the lock up only after it has left that *)
(* stack; the thread takes the lock again, with that depth, on whichever   *)
(* CPU resumes it.                                                         *)
(***************************************************************************)
EXTENDS Naturals, FiniteSets

CONSTANTS Cpus,       \* the CPUs that take part in scheduling
          ThreadSet,  \* the threads; more of them than CPUs
          NoCpu,      \* 0xFFFFFFFF, the owner word of a free lock
          NullThread, \* NULL
          MaxNest     \* bound on the nesting of sections of one thread

ASSUME KernelLockAssumption ==
    /\ NoCpu \notin Cpus
    /\ NullThread \notin ThreadSet
    /\ MaxNest \in Nat

VARIABLES
    lock,        \* g_kernel_lock
    owner,       \* g_kernel_lock_owner
    depth,       \* g_kernel_lock_depth
    pc,          \* where each CPU is in the code below
    want,        \* the depth the CPU stores once it has the lock
    after,       \* where the CPU continues once it has released the lock
    cur,         \* cpu_local()->current
    switch_prev, \* cpu_local()->switch_prev
    precaptured, \* cpu_local()->ctx_precaptured
    on_cpu,      \* thread_t.on_cpu
    nest,        \* sync_irq_save() calls on a thread's stack not yet undone
    saved        \* the local kernel_lock_depth of a switched-out thread

cpuVars  == <<pc, want, after, cur, switch_prev, precaptured>>
lockVars == <<lock, owner, depth>>
vars     == <<lockVars, cpuVars, on_cpu, nest, saved>>

\* Places in the code: outside the lock code, the three stores of taking the
\* lock, the two last stores of releasing it, and the two halves of a switch.
PcValues == {"run", "spin", "setOwner", "setDepth", "clearOwner", "unlock",
             "finish", "resume"}

Init ==
    /\ lock = 0
    /\ owner = NoCpu
    /\ depth = 0
    /\ pc = [c \in Cpus |-> "run"]
    /\ want = [c \in Cpus |-> 0]
    /\ after = [c \in Cpus |-> "run"]
    /\ cur \in {f \in [Cpus -> ThreadSet] : \A c, d \in Cpus : f[c] = f[d] => c = d}
    /\ switch_prev = [c \in Cpus |-> NullThread]
    /\ precaptured = [c \in Cpus |-> FALSE]
    /\ on_cpu = [t \in ThreadSet |-> \E c \in Cpus : cur[c] = t]
    /\ nest = [t \in ThreadSet |-> 0]
    /\ saved = [t \in ThreadSet |-> 0]

Running(c) == pc[c] = "run"

\* The name a CPU gives itself in the owner word (sync_apic_id()).
SyncApicId(c) == c

\* Bug: every restore frees the lock, as if it were not recursive.
LastLevelAlways == TRUE

\* sync_irq_restore() is at the outermost level.
LastLevel == ~(depth > 1)

\* Bug: threads that run elsewhere are not skipped.
MayPickAny(t) == TRUE

\* pick_next_task() skips a thread that is on a CPU or still being left by one.
MayPick(t) == ~on_cpu[t]

\* Bug: a thread resumes at depth 1, however deep it was.
ResumeDepthOne(t) == IF saved[t] > 0 THEN 1 ELSE 0

\* The depth the resumed thread passes to
\* sync_kernel_lock_reacquire_after_switch().
ResumeDepth(t) == saved[t]

\* The test of sync_irq_save() for recursion, and sync_kernel_lock_depth()'s
\* and sync_kernel_lock_release_for_switch()'s test that the lock is ours.
\* Two loads, one step: only CPU c ever stores c in the owner word.
LockIsMine(c) == lock = 1 /\ owner = SyncApicId(c)

\* The local kernel_lock_depth of the thread that leaves.  One captured from
\* its interrupt frame never comes back to read it.
SavedDepth(c) == IF precaptured[c] \/ ~LockIsMine(c) THEN 0 ELSE depth

-----------------------------------------------------------------------------
(* Taking the lock.                                                        *)

\* What a call of sync_irq_save() does on its first step: deepen the section
\* this CPU is already in, or start to spin.
EnterSection(c) ==
    /\ nest' = [nest EXCEPT ![cur[c]] = @ + 1]
    /\ \/ /\ LockIsMine(c)
          /\ depth' = depth + 1
          /\ UNCHANGED <<pc, want>>
       \/ /\ ~LockIsMine(c)
          /\ pc' = [pc EXCEPT ![c] = "spin"]
          /\ want' = [want EXCEPT ![c] = 1]
          /\ UNCHANGED depth

\* sync_irq_save() called by the running thread.  Once an interrupt handler
\* has left its section it only returns (IrqEnd).
IrqSave(c) ==
    /\ Running(c)
    /\ nest[cur[c]] < MaxNest
    /\ precaptured[c] => nest[cur[c]] > 0
    /\ EnterSection(c)
    /\ UNCHANGED <<lock, owner, after, cur, switch_prev, precaptured, on_cpu, saved>>

\* A timer interrupt.  The thread was outside every section (interrupts are
\* off inside one), its registers are captured from the interrupt frame and
\* the handler takes the lock.
IrqEnter(c) ==
    /\ Running(c)
    /\ nest[cur[c]] = 0
    /\ MaxNest > 0
    /\ ~precaptured[c]
    /\ precaptured' = [precaptured EXCEPT ![c] = TRUE]
    /\ EnterSection(c)
    /\ UNCHANGED <<lock, owner, after, cur, switch_prev, on_cpu, saved>>

\* The interrupt handler ends without having switched threads:
\* scheduler_end_interrupt_tick(), on the boot CPU before the last restore,
\* on an application processor after it.
IrqEnd(c) ==
    /\ Running(c)
    /\ precaptured[c]
    /\ nest[cur[c]] <= 1
    /\ precaptured' = [precaptured EXCEPT ![c] = FALSE]
    /\ UNCHANGED <<lockVars, pc, want, after, cur, switch_prev, on_cpu, nest, saved>>

\* __sync_lock_test_and_set() that finds the lock free; one that does not
\* leaves every word as it is.
TestAndSet(c) ==
    /\ pc[c] = "spin"
    /\ lock = 0
    /\ lock' = 1
    /\ pc' = [pc EXCEPT ![c] = "setOwner"]
    /\ UNCHANGED <<owner, depth, want, after, cur, switch_prev, precaptured, on_cpu, nest, saved>>

SetOwner(c) ==
    /\ pc[c] = "setOwner"
    /\ owner' = SyncApicId(c)
    /\ pc' = [pc EXCEPT ![c] = "setDepth"]
    /\ UNCHANGED <<lock, depth, want, after, cur, switch_prev, precaptured, on_cpu, nest, saved>>

SetDepth(c) ==
    /\ pc[c] = "setDepth"
    /\ depth' = want[c]
    /\ pc' = [pc EXCEPT ![c] = "run"]
    /\ UNCHANGED <<lock, owner, want, after, cur, switch_prev, precaptured, on_cpu, nest, saved>>

-----------------------------------------------------------------------------
(* Giving the lock back.                                                   *)

\* sync_irq_restore(): the inner levels only count down, the outermost one
\* clears the words and then frees the lock.  It never looks at the owner.
IrqRestore(c) ==
    /\ Running(c)
    /\ nest[cur[c]] > 0
    /\ nest' = [nest EXCEPT ![cur[c]] = @ - 1]
    /\ \/ /\ ~LastLevel
          /\ depth' = depth - 1
          /\ UNCHANGED <<pc, after>>
       \/ /\ LastLevel
          /\ depth' = 0
          /\ pc' = [pc EXCEPT ![c] = "clearOwner"]
          /\ after' = [after EXCEPT ![c] = "run"]
    /\ UNCHANGED <<lock, owner, want, cur, switch_prev, precaptured, on_cpu, saved>>

ClearOwner(c) ==
    /\ pc[c] = "clearOwner"
    /\ owner' = NoCpu
    /\ pc' = [pc EXCEPT ![c] = "unlock"]
    /\ UNCHANGED <<lock, depth, want, after, cur, switch_prev, precaptured, on_cpu, nest, saved>>

Unlock(c) ==
    /\ pc[c] = "unlock"
    /\ lock' = 0
    /\ pc' = [pc EXCEPT ![c] = after[c]]
    /\ UNCHANGED <<owner, depth, want, after, cur, switch_prev, precaptured, on_cpu, nest, saved>>

-----------------------------------------------------------------------------
(* The context switch.                                                     *)

\* scheduler_do_context_switch() up to the call of hal_context_switch, with
\* the thread pick_next_task() chose: one that is on no CPU.  The depth goes
\* into a local on the stack of the thread that leaves.  A thread captured
\* from its interrupt frame resumes there, so the frames of the handler, and
\* the sections they had open, are forgotten.
SwitchAway(c, next) ==
    LET prev == cur[c] IN
    /\ Running(c)
    /\ nest[prev] > 0
    /\ MayPick(next)
    /\ cur' = [cur EXCEPT ![c] = next]
    /\ on_cpu' = [on_cpu EXCEPT ![next] = TRUE]
    /\ switch_prev' = [switch_prev EXCEPT ![c] = prev]
    /\ precaptured' = [precaptured EXCEPT ![c] = FALSE]
    /\ saved' = [saved EXCEPT ![prev] = SavedDepth(c)]
    /\ nest' = [nest EXCEPT ![prev] = IF precaptured[c] THEN 0 ELSE @]
    /\ pc' = [pc EXCEPT ![c] = "finish"]
    /\ UNCHANGED <<lockVars, want, after>>

\* cos_switch_finish(), on the CPU's own switch stack: the previous thread is
\* let go of and the lock is released, if it is this CPU's.
SwitchFinish(c) ==
    /\ pc[c] = "finish"
    /\ on_cpu' = [on_cpu EXCEPT ![switch_prev[c]] = FALSE]
    /\ switch_prev' = [switch_prev EXCEPT ![c] = NullThread]
    /\ after' = [after EXCEPT ![c] = "resume"]
    /\ depth' = IF LockIsMine(c) THEN 0 ELSE depth
    /\ pc' = [pc EXCEPT ![c] = IF LockIsMine(c) THEN "clearOwner" ELSE "resume"]
    /\ UNCHANGED <<lock, owner, want, cur, precaptured, nest, saved>>

\* The thread switched to continues: a new or an interrupted one in its own
\* code, one that had switched away itself in
\* sync_kernel_lock_reacquire_after_switch().
Resume(c) ==
    LET t == cur[c] IN
    /\ pc[c] = "resume"
    /\ saved' = [saved EXCEPT ![t] = 0]
    /\ \/ /\ ResumeDepth(t) = 0
          /\ pc' = [pc EXCEPT ![c] = "run"]
          /\ UNCHANGED want
       \/ /\ ResumeDepth(t) > 0
          /\ pc' = [pc EXCEPT ![c] = "spin"]
          /\ want' = [want EXCEPT ![c] = ResumeDepth(t)]
    /\ UNCHANGED <<lockVars, after, cur, switch_prev, precaptured, on_cpu, nest>>

CpuStep(c) ==
    \/ IrqSave(c) \/ IrqEnter(c) \/ IrqEnd(c) \/ IrqRestore(c)
    \/ TestAndSet(c) \/ SetOwner(c) \/ SetDepth(c)
    \/ ClearOwner(c) \/ Unlock(c)
    \/ SwitchFinish(c) \/ Resume(c)
    \/ \E next \in ThreadSet : SwitchAway(c, next)

Next == \E c \in Cpus : CpuStep(c)

Spec == Init /\ [][Next]_vars

-----------------------------------------------------------------------------
(* Correctness.                                                            *)

\* The words, the per-CPU fields and the threads' counters keep their types; in
\* particular the owner word names a CPU or nobody, never anything else.
TypeOK ==
    /\ lock \in {0, 1}
    /\ owner \in Cpus \cup {NoCpu}
    /\ depth \in Nat
    /\ pc \in [Cpus -> PcValues]
    /\ want \in [Cpus -> Nat]
    /\ after \in [Cpus -> {"run", "resume"}]
    /\ cur \in [Cpus -> ThreadSet]
    /\ switch_prev \in [Cpus -> ThreadSet \cup {NullThread}]
    /\ precaptured \in [Cpus -> BOOLEAN]
    /\ on_cpu \in [ThreadSet -> BOOLEAN]
    /\ nest \in [ThreadSet -> Nat]
    /\ saved \in [ThreadSet -> Nat]

\* CPU c executes code between a sync_irq_save() that has returned and the
\* sync_irq_restore() (or the release for a switch) that ends it.
InSection(c) ==
    \/ Running(c) /\ nest[cur[c]] > 0
    \/ pc[c] = "finish"

\* The promise of the comment at the top of sync.c: no two CPUs are inside a
\* sync_irq_save() section at the same time, whichever threads they run and
\* however those were switched.
MutualExclusion ==
    \A c, d \in Cpus : InSection(c) /\ InSection(d) => c = d

\* While a CPU is in a section the shared depth word is the number of sections
\* open on the stack of the thread it runs, so that exactly the outermost
\* sync_irq_restore() of that thread frees the lock, on whatever CPU.
DepthIsNesting ==
    \A c \in Cpus : Running(c) /\ nest[cur[c]] > 0 =>
        /\ owner = c
        /\ depth = nest[cur[c]]

\* No thread runs on two CPUs, and none is picked up by a CPU while another
\* one still stands on its kernel stack (switch_prev).
OneCpuPerThread ==
    \A c, d \in Cpus : c # d =>
        /\ cur[c] # cur[d]
        /\ switch_prev[c] # cur[d]

\* A thread that is off the CPU and will take the lock again takes it with
\* the number of sections its stack really has open.
SavedIsNesting ==
    \A t \in ThreadSet : ~on_cpu[t] => saved[t] = nest[t]
=============================================================================
