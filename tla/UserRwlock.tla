------------------------------ MODULE UserRwlock -------------------------------
(***************************************************************************)
(* The reader/writer lock of src/userland/lib/cos_sync.c on the kernel     *)
(* futex.  One word counts the readers in its low bits; one bit says that  *)
(* a writer holds the lock and one that a writer waits.                    *)
(*                                                                         *)
(* A load followed by a compare-and-swap that succeeds is one step, the    *)
(* swap; when it fails the code loads again, so the failure is no step.  A *)
(* load whose value goes into cos_futex_wait() is a step of its own.       *)
(***************************************************************************)
EXTENDS UserThread

CONSTANTS L,          \* the address of cos_rwlock_t.state
          RW_WRITER   \* 2^30 in the code; more than the threads there are

RW_WAITING == 2 * RW_WRITER

ASSUME UserRwlockAssumption ==
    /\ L \in Addrs
    /\ RW_WRITER \in Nat /\ RW_WRITER > Cardinality(Threads)
    /\ 0 .. 2 * RW_WAITING \subseteq Words

VARIABLES mode,  \* what the thread holds: "none", "read" or "write"
          v      \* the local v of cos_rwlock_rdlock() and cos_rwlock_wrlock()

rwVars == <<vars, pc, mode, v>>

RwInit ==
    /\ mem = [p \in Pids |-> [a \in Addrs |-> 0]]
    /\ ThreadsInit
    /\ mode = [t \in Threads |-> "none"]
    /\ v = [t \in Threads |-> 0]

-----------------------------------------------------------------------------
State(t) == Word(t, L)
SetState(t, w) == SetWord(t, L, w)

Readers(w)       == w % RW_WRITER
WriterHolds(w)   == (w \div RW_WRITER) % 2 = 1
WriterWaiting(w) == w >= RW_WAITING

Holds(t, kind) == mode' = [mode EXCEPT ![t] = kind]

\* Bug: readers look at the writer that holds the lock only.
MayReadPastWaiting(w) == ~WriterHolds(w)

\* No writer holds the lock or waits for it.
MayRead(w) == ~WriterHolds(w) /\ ~WriterWaiting(w)

\* cos_rwlock_tryrdlock(), and a pass of cos_rwlock_rdlock() that succeeds.
\* The overflow of the reader count needs RW_WRITER - 1 readers.
ReadLock(t) ==
    /\ At(t, "idle") \/ At(t, "read")
    /\ MayRead(State(t))
    /\ SetState(t, State(t) + 1)
    /\ Holds(t, "read")
    /\ Goto(t, "idle")
    /\ Discard(t)
    /\ UNCHANGED <<parkVars, v>>

\* A pass that has to wait remembers the value it saw ...
ReadLockWaits(t) ==
    /\ At(t, "idle") \/ At(t, "read")
    /\ mode[t] = "none"
    /\ ~MayRead(State(t))
    /\ v' = [v EXCEPT ![t] = State(t)]
    /\ Goto(t, "read wait")
    /\ Discard(t)
    /\ UNCHANGED <<mem, parkVars, mode>>

\* ... and parks while the word holds it.
ReadWait(t) ==
    /\ At(t, "read wait")
    /\ FutexWait(t, L, v[t], Forever)
    /\ Goto(t, "read")
    /\ UNCHANGED <<mode, v>>

\* cos_rwlock_trywrlock(), and a pass of cos_rwlock_wrlock() that succeeds.
WriteLock(t) ==
    /\ At(t, "idle") \/ At(t, "write")
    /\ State(t) = 0
    /\ SetState(t, RW_WRITER)
    /\ Holds(t, "write")
    /\ Goto(t, "idle")
    /\ Discard(t)
    /\ UNCHANGED <<parkVars, v>>

\* Bug: the writer parks without announcing itself.
AnnounceNothing(w) == w

\* The announcement of a writer, RW_WAITING.
Announce(w) == IF WriterWaiting(w) THEN w ELSE w + RW_WAITING

\* A pass that has to wait makes the announcement, unless it is there.
WriteLockWaits(t) ==
    /\ At(t, "idle") \/ At(t, "write")
    /\ mode[t] = "none"
    /\ State(t) # 0
    /\ SetState(t, Announce(State(t)))
    /\ v' = [v EXCEPT ![t] = Announce(State(t))]
    /\ Goto(t, "write wait")
    /\ Discard(t)
    /\ UNCHANGED <<parkVars, mode>>

WriteWait(t) ==
    /\ At(t, "write wait")
    /\ FutexWait(t, L, v[t], Forever)
    /\ Goto(t, "write")
    /\ UNCHANGED <<mode, v>>

\* cos_rwlock_unlock() by a writer stores 0 ...
WriteUnlock(t) ==
    /\ At(t, "idle")
    /\ mode[t] = "write"
    /\ SetState(t, 0)
    /\ Holds(t, "none")
    /\ Goto(t, "wake all")
    /\ UNCHANGED <<kernelVars, v>>

\* The last reader out, with a writer waiting.
LastOut(prev) == Readers(prev) = 1 /\ WriterWaiting(prev)

\* ... and by a reader takes the reader off the count; the last one out, if a
\* writer waits, goes on to reset the word ...
ReadUnlock(t) ==
    /\ At(t, "idle")
    /\ mode[t] = "read"
    /\ SetState(t, State(t) - 1)
    /\ Holds(t, "none")
    /\ Goto(t, IF LastOut(State(t)) THEN "reset" ELSE "idle")
    /\ UNCHANGED <<kernelVars, v>>

ResetWord(t) ==
    /\ At(t, "reset")
    /\ SetState(t, 0)
    /\ Goto(t, "wake all")
    /\ UNCHANGED <<kernelVars, mode, v>>

\* ... and wakes every waiter.
WakeAll(t) ==
    /\ At(t, "wake all")
    /\ FutexWake(t, L, Cardinality(Threads))
    /\ Goto(t, "idle")
    /\ UNCHANGED <<mode, v>>

-----------------------------------------------------------------------------
\* A thread that holds the lock unlocks it before it asks for it again.
Ask(t) ==
    /\ mode[t] = "none"
    /\ ReadLock(t) \/ WriteLock(t) \/ ReadLockWaits(t) \/ WriteLockWaits(t)

Finish(t) ==
    ReadWait(t) \/ WriteWait(t) \/ WriteUnlock(t) \/ ReadUnlock(t) \/ ResetWord(t) \/ WakeAll(t)

RwNext ==
    \/ \E t \in Threads : Ask(t) \/ Finish(t)
    \/ KernelSteps /\ UNCHANGED <<mode, v>>

RwSpec == RwInit /\ [][RwNext]_rwVars

-----------------------------------------------------------------------------
\* A writer is alone, and the word counts exactly the readers inside: the plain
\* store of 0 by the last reader, which is not a compare-and-swap, never wipes
\* out a reader or a writer that came in meanwhile.
ReadersAndWriter ==
    \A p \in Pids :
        LET mine == {t \in Threads : PidOf[t] = p}
            w    == mem[p][L]
        IN  /\ Readers(w) = Cardinality({t \in mine : mode[t] = "read"})
            /\ WriterHolds(w) <=> \E t \in mine : mode[t] = "write"
            /\ \A t \in mine : mode[t] = "write" => \A u \in mine \ {t} : mode[u] = "none"

\* Whoever is parked will be woken: a writer is inside, or readers are inside
\* and the waiting bit makes the last of them wake everybody, or a thread is
\* about to wake everybody.
ParkedWillWake ==
    \A t \in Threads : at[t] = "parked" /\ futex_addr[t] = L =>
        \E u \in Threads : PidOf[u] = PidOf[t] /\
            \/ mode[u] = "write"
            \/ mode[u] = "read" /\ WriterWaiting(State(t))
            \/ pc[u] \in {"reset", "wake all"}
================================================================================
