-------------------------- MODULE TaskLifecycleProofs --------------------------
(***************************************************************************)
(* Proofs about TaskLifecycle for any tables and any number of CPUs, when  *)
(* no thread of an ended process is still at the entry of a system call    *)
(* (LateCalls = FALSE).                                                    *)
(*                                                                         *)
(* A step of the model changes the tables in several stages: the failed    *)
(* start of a program creates a process, ends it and runs both sections of *)
(* the reaper.  The invariant is therefore stated for any tables P and T,  *)
(* any set On of threads on a CPU, any next pid n and any owed exits D,    *)
(* and there is a lemma for every stage.                                   *)
(***************************************************************************)
EXTENDS TaskLifecycle, QueueProofs

Alive == {"ready", "running", "waiting"}

ProcRecs ==
    [state : ProcStates, pid : 0..MaxPid, parent : 0..MaxPid,
     valid : BOOLEAN, dir : BOOLEAN, links : 0..2]

ThreadRecs ==
    [state : ThreadStates, pid : 0..MaxPid, listed : BOOLEAN, want : NoCall..MaxPid]

\* Pids are unique and older than the next one, parents older than children;
\* a process is on the zombie list, once, exactly when it has exited; a live
\* process has its page tables.
ProcsOK(P, n) ==
    /\ P \in [ProcSlots -> ProcRecs]
    /\ \A s \in ProcSlots : P[s].state = "unused" => P[s] = FreeProc
    /\ \A s \in ProcSlots : P[s].state # "unused" =>
          P[s].pid > 0 /\ P[s].pid < n /\ P[s].parent < P[s].pid
    /\ \A s, q \in ProcSlots :
          P[s].state # "unused" /\ P[q].state # "unused" /\ P[s].pid = P[q].pid => s = q
    /\ \A s \in ProcSlots : P[s].links = IF P[s].state = "zombie" THEN 1 ELSE 0
    /\ \A s \in ProcSlots : P[s].state = "live" => P[s].dir

Known(P, pid) == \E s \in ProcSlots : P[s].state # "unused" /\ P[s].pid = pid
HasDir(P, pid) == \E s \in ProcSlots : P[s].state # "unused" /\ P[s].pid = pid /\ P[s].dir

\* Every thread has a process, every thread that may run a live one that knows
\* it, and every thread on a CPU is running or has just been ended, in an
\* address space that is still there.
ThreadsOK(P, T, On) ==
    /\ T \in [ThreadSlots -> ThreadRecs]
    /\ On \subseteq ThreadSlots
    /\ \A t \in ThreadSlots : T[t].state = "unused" => T[t] = FreeThread
    /\ \A t \in ThreadSlots : T[t].state # "unused" => Known(P, T[t].pid)
    /\ \A t \in ThreadSlots : T[t].state \in Alive => T[t].listed /\ IsLive(P, T[t].pid)
    /\ \A t \in ThreadSlots : T[t].state = "running" => t \in On
    /\ \A t \in On : T[t].state \in {"running", "zombie"} /\ T[t].listed /\ HasDir(P, T[t].pid)

\* Nothing that a blocked thread waits for is there.
WaitOK(P, T) ==
    \A t \in ThreadSlots, s \in ProcSlots :
        T[t].state = "waiting" /\ P[s].state = "zombie" /\ P[s].valid /\ P[s].parent = T[t].pid =>
            T[t].want # AnyChild /\ P[s].pid # T[t].want

\* An owed exit is kept, and its parent lives.
OwedOK(P, D) ==
    \A k \in D : \E s \in ProcSlots :
        P[s].pid = k /\ P[s].state = "zombie" /\ P[s].valid /\ IsLive(P, P[s].parent)

Tables(P, T, On, n, D) ==
    ProcsOK(P, n) /\ ThreadsOK(P, T, On) /\ WaitOK(P, T) /\ OwedOK(P, D)

CpusOK ==
    /\ cpu \in [Cpus -> ThreadSlots \cup {Idle}]
    /\ \A c, d \in Cpus : cpu[c] = cpu[d] /\ cpu[c] # Idle => c = d

TaskInv == Tables(proc, thr, OnCpu, nextPid, owed) /\ CpusOK /\ nextPid \in 1 .. (MaxPid + 1)

\* While the reaper has been told nothing since it looked, and has put nothing
\* off, there is nothing for the sections it has finished.
HintInv ==
    /\ rpc = "off" /\ ~pending => ~DeadOnCpu(thr) /\ ~Reapable
    /\ rpc \in {"zombies", "end"} /\ ~fresh /\ ~incomplete =>
          ~DeadOnCpu(thr) /\ DeadThreads(proc, thr) = {}
    /\ rpc = "end" /\ ~fresh /\ ~incomplete =>
          \A s \in OnZombieList(proc) : Retained(proc, s)

-----------------------------------------------------------------------------
(* The stages.                                                             *)

LEMMA MinIsMember ==
    ASSUME NEW N, N \subseteq Nat, N # {}
    PROVE  Min(N) \in N
BY LeastNatural DEF Min

LEMMA NewProcRecord ==
    ASSUME NEW pid \in 0 .. MaxPid, NEW parent \in 0 .. MaxPid, NEW r, r = NewProc(pid, parent)
    PROVE  /\ r.state = "live" /\ r.pid = pid /\ r.parent = parent
           /\ r.valid = FALSE /\ r.dir = TRUE /\ r.links = 0
           /\ r \in ProcRecs
<1>1. 0 \in 0 .. MaxPid /\ 0 \in 0 .. 2
  BY TaskAssumption
<1>2. FreeProc \in ProcRecs
  BY <1>1 DEF FreeProc, ProcRecs, ProcStates
<1>3. r \in ProcRecs
  BY <1>2 DEF NewProc, ProcRecs, ProcStates
<1>4. /\ r.state = "live" /\ r.pid = pid /\ r.parent = parent
      /\ r.valid = FALSE /\ r.dir = TRUE /\ r.links = 0
  BY DEF NewProc, FreeProc
<1> QED BY <1>3, <1>4

LEMMA NewIsLive ==
    ASSUME NEW P \in [ProcSlots -> ProcRecs], NEW s \in ProcSlots, NEW pid, NEW parent,
           NEW Q, Q = [P EXCEPT ![s] = NewProc(pid, parent)]
    PROVE  Q[s].state = "live" /\ IsLive(Q, pid)
<1>1. Q[s].state = "live" /\ Q[s].pid = pid
  BY DEF NewProc, FreeProc
<1> QED BY <1>1 DEF IsLive

LEMMA NewThreadRecord ==
    ASSUME NEW pid \in 0 .. MaxPid, NEW r, r = NewThread(pid)
    PROVE  /\ r.state = "ready" /\ r.pid = pid /\ r.listed = TRUE /\ r.want = NoCall
           /\ r \in ThreadRecs
<1>1. 0 \in 0 .. MaxPid /\ NoCall \in NoCall .. MaxPid
  BY TaskAssumption DEF NoCall
<1>2. FreeThread \in ThreadRecs
  BY <1>1 DEF FreeThread, ThreadRecs, ThreadStates
<1>3. r \in ThreadRecs
  BY <1>2 DEF NewThread, ThreadRecs, ThreadStates
<1>4. r.state = "ready" /\ r.pid = pid /\ r.listed = TRUE /\ r.want = NoCall
  BY DEF NewThread, FreeThread
<1> QED BY <1>3, <1>4

LEMMA StateSet ==
    ASSUME NEW r \in ThreadRecs, NEW st \in ThreadStates, NEW x, x = [r EXCEPT !.state = st]
    PROVE  /\ x \in ThreadRecs /\ x.state = st /\ x.pid = r.pid /\ x.listed = r.listed
           /\ x.want = r.want
BY DEF ThreadRecs

\* process_create() in a free slot.
LEMMA AddProc ==
    ASSUME NEW P, NEW T, NEW On, NEW n \in 1 .. MaxPid, NEW D, Tables(P, T, On, n, D),
           NEW s \in ProcSlots, P[s].state = "unused",
           NEW parent \in 0 .. MaxPid, parent < n
    PROVE  Tables([P EXCEPT ![s] = NewProc(n, parent)], T, On, n + 1, D)
<1> DEFINE new == NewProc(n, parent)
           Q == [P EXCEPT ![s] = new]
<1> USE DEF Tables
<1>0. MaxPid \in Nat /\ n \in Nat
  BY TaskAssumption
<1>b. n \in 0 .. MaxPid
  BY <1>0
<1>c. /\ new.state = "live" /\ new.pid = n /\ new.parent = parent
      /\ new.valid = FALSE /\ new.dir = TRUE /\ new.links = 0
      /\ new \in ProcRecs
  BY <1>b, NewProcRecord, Zenon
<1>1. /\ new.state = "live" /\ new.pid = n /\ new.parent = parent /\ ~new.valid /\ new.dir
      /\ new.links = 0 /\ new \in ProcRecs
  BY <1>c
<1>2. P \in [ProcSlots -> ProcRecs] /\ Q \in [ProcSlots -> ProcRecs]
  BY <1>1 DEF ProcsOK
<1>3. Q[s] = new /\ \A q \in ProcSlots \ {s} : Q[q] = P[q]
  BY <1>2
<1>4. \A q \in ProcSlots : P[q].pid \in Nat /\ P[q].parent \in Nat
  BY <1>0, <1>2 DEF ProcRecs
<1> HIDE DEF new, Q
<1>5. ProcsOK(Q, n + 1)
  <2>1. \A q \in ProcSlots : Q[q].state = "unused" => Q[q] = FreeProc
    BY <1>1, <1>3 DEF ProcsOK
  <2>2. \A q \in ProcSlots : Q[q].state # "unused" =>
           Q[q].pid > 0 /\ Q[q].pid < n + 1 /\ Q[q].parent < Q[q].pid
    BY <1>0, <1>1, <1>3, <1>4 DEF ProcsOK
  <2>3. \A q \in ProcSlots \ {s} : Q[q].state # "unused" => Q[q].pid # n
    BY <1>0, <1>3, <1>4 DEF ProcsOK
  <2>4. \A q, r \in ProcSlots :
           Q[q].state # "unused" /\ Q[r].state # "unused" /\ Q[q].pid = Q[r].pid => q = r
    BY <1>1, <1>3, <2>3 DEF ProcsOK
  <2>5. \A q \in ProcSlots : /\ Q[q].links = IF Q[q].state = "zombie" THEN 1 ELSE 0
                             /\ Q[q].state = "live" => Q[q].dir
    BY <1>1, <1>3 DEF ProcsOK
  <2> QED BY <1>2, <2>1, <2>2, <2>4, <2>5 DEF ProcsOK
<1>6. \A pid : (Known(P, pid) => Known(Q, pid)) /\ (HasDir(P, pid) => HasDir(Q, pid))
               /\ (IsLive(P, pid) => IsLive(Q, pid))
  BY <1>3 DEF Known, HasDir, IsLive
<1>7. ThreadsOK(Q, T, On)
  BY <1>6 DEF ThreadsOK
<1>8. WaitOK(Q, T)
  BY <1>1, <1>3 DEF WaitOK
<1>9. OwedOK(Q, D)
  <2> SUFFICES ASSUME NEW k \in D
               PROVE  \E q \in ProcSlots : /\ Q[q].pid = k /\ Q[q].state = "zombie" /\ Q[q].valid
                                           /\ IsLive(Q, Q[q].parent)
    BY DEF OwedOK
  <2>1. PICK q \in ProcSlots : /\ P[q].pid = k /\ P[q].state = "zombie" /\ P[q].valid
                               /\ IsLive(P, P[q].parent)
    BY DEF OwedOK
  <2>2. q # s
    BY <2>1
  <2> QED BY <1>3, <1>6, <2>1, <2>2
<1> QED BY <1>5, <1>7, <1>8, <1>9 DEF Q, new

\* thread_create() in a free slot, for a live process.
LEMMA AddThread ==
    ASSUME NEW P, NEW T, NEW On, NEW n, NEW D, Tables(P, T, On, n, D),
           NEW t \in ThreadSlots, T[t].state = "unused", NEW pid \in 0 .. MaxPid, IsLive(P, pid)
    PROVE  Tables(P, [T EXCEPT ![t] = NewThread(pid)], On, n, D)
<1> DEFINE new == NewThread(pid)
           U == [T EXCEPT ![t] = new]
<1> USE DEF Tables
<1>0. MaxPid \in Nat
  BY TaskAssumption
<1>1. new.state = "ready" /\ new.pid = pid /\ new.listed /\ new \in ThreadRecs
  BY NewThreadRecord
<1>2. T \in [ThreadSlots -> ThreadRecs] /\ U \in [ThreadSlots -> ThreadRecs]
  BY <1>1 DEF ThreadsOK
<1>3. U[t] = new /\ \A u \in ThreadSlots \ {t} : U[u] = T[u]
  BY <1>2
<1>4. t \notin On /\ Known(P, pid)
  BY DEF ThreadsOK, Known, IsLive
<1> HIDE DEF new, U
<1>5. ThreadsOK(P, U, On)
  BY <1>1, <1>2, <1>3, <1>4 DEF ThreadsOK, Alive
<1>6. WaitOK(P, U)
  BY <1>1, <1>3 DEF WaitOK
<1> QED BY <1>5, <1>6 DEF U, new

\* The thread slots F, of ended threads that are on no CPU, are given back.
LEMMA FreeSome ==
    ASSUME NEW P, NEW T, NEW On, NEW n, NEW D, Tables(P, T, On, n, D),
           NEW F \in SUBSET ThreadSlots, F \cap On = {}, \A t \in F : T[t].state # "running",
           NEW U, U = [t \in ThreadSlots |-> IF t \in F THEN FreeThread ELSE T[t]]
    PROVE  Tables(P, U, On, n, D)
<1> USE DEF Tables
<1>0. FreeThread.state = "unused" /\ FreeThread \in ThreadRecs
  BY TaskAssumption DEF FreeThread, ThreadRecs, ThreadStates, NoCall
<1>1. U \in [ThreadSlots -> ThreadRecs]
  BY <1>0 DEF ThreadsOK
<1>2. \A t \in ThreadSlots : U[t] = IF t \in F THEN FreeThread ELSE T[t]
  OBVIOUS
<1>3. ThreadsOK(P, U, On)
  BY <1>0, <1>1, <1>2 DEF ThreadsOK, Alive
<1>4. WaitOK(P, U)
  BY <1>0, <1>2 DEF WaitOK
<1> QED BY <1>3, <1>4

\* One thread's record becomes r, and it is on a CPU as On2 says.
LEMMA SetThread ==
    ASSUME NEW P, NEW T, NEW On, NEW n, NEW D, Tables(P, T, On, n, D),
           NEW t \in ThreadSlots, NEW r \in ThreadRecs, r.state # "unused", Known(P, r.pid),
           r.state \in Alive => r.listed /\ IsLive(P, r.pid),
           NEW On2 \in SUBSET ThreadSlots, \A u \in ThreadSlots \ {t} : u \in On2 <=> u \in On,
           r.state = "running" => t \in On2,
           t \in On2 => r.state \in {"running", "zombie"} /\ r.listed /\ HasDir(P, r.pid),
           r.state = "waiting" =>
               \A s \in ProcSlots : P[s].state = "zombie" /\ P[s].valid /\ P[s].parent = r.pid =>
                   r.want # AnyChild /\ P[s].pid # r.want
    PROVE  Tables(P, [T EXCEPT ![t] = r], On2, n, D)
<1> DEFINE U == [T EXCEPT ![t] = r]
<1> USE DEF Tables
<1>1. T \in [ThreadSlots -> ThreadRecs] /\ U \in [ThreadSlots -> ThreadRecs]
  BY DEF ThreadsOK
<1>2. U[t] = r /\ \A u \in ThreadSlots \ {t} : U[u] = T[u]
  BY <1>1
<1> HIDE DEF U
<1>3. ThreadsOK(P, U, On2)
  BY <1>1, <1>2 DEF ThreadsOK, Alive
<1>4. WaitOK(P, U)
  BY <1>2 DEF WaitOK
<1> QED BY <1>3, <1>4 DEF U

\* The status of an exited process is collected.
LEMMA Collect ==
    ASSUME NEW P, NEW T, NEW On, NEW n, NEW D, Tables(P, T, On, n, D),
           NEW s \in ProcSlots, P[s].state = "zombie"
    PROVE  Tables([P EXCEPT ![s].valid = FALSE], T, On, n, D \ {P[s].pid})
<1> DEFINE Q == [P EXCEPT ![s].valid = FALSE]
<1> USE DEF Tables
<1>1. P \in [ProcSlots -> ProcRecs]
  BY DEF ProcsOK
<1>2. Q \in [ProcSlots -> ProcRecs]
  BY <1>1 DEF ProcRecs
<1>3. /\ \A q \in ProcSlots \ {s} : Q[q] = P[q]
      /\ ~Q[s].valid
      /\ \A q \in ProcSlots : /\ Q[q].state = P[q].state /\ Q[q].pid = P[q].pid
                              /\ Q[q].parent = P[q].parent /\ Q[q].dir = P[q].dir
                              /\ Q[q].links = P[q].links
  BY <1>1 DEF ProcRecs
<1> HIDE DEF Q
<1>4. ProcsOK(Q, n)
  BY <1>2, <1>3 DEF ProcsOK
<1>5. \A pid : /\ Known(P, pid) => Known(Q, pid)
               /\ HasDir(P, pid) => HasDir(Q, pid)
               /\ IsLive(P, pid) => IsLive(Q, pid)
  BY <1>3 DEF Known, HasDir, IsLive
<1>6. ThreadsOK(Q, T, On)
  BY <1>5 DEF ThreadsOK
<1>7. WaitOK(Q, T)
  BY <1>3 DEF WaitOK
<1>8. OwedOK(Q, D \ {P[s].pid})
  BY <1>3, <1>5 DEF OwedOK
<1> QED BY <1>4, <1>6, <1>7, <1>8 DEF Q

\* Q is P after the exit of process s, which keeps its page tables when one of
\* its threads is on a CPU; E are the exits that are then still owed.
Ends(P, Q, T, On, s) ==
    /\ Q \in [ProcSlots -> ProcRecs]
    /\ \A q \in ProcSlots \ {s} : Q[q] = P[q]
    /\ Q[s].state = "zombie" /\ Q[s].pid = P[s].pid /\ Q[s].parent = P[s].parent
    /\ Q[s].links = 1 /\ Q[s].valid
    /\ (\E t \in On : T[t].pid = P[s].pid) => Q[s].dir

Owes(P, D, E, s) ==
    \A k \in E : \/ k \in D /\ \A q \in ProcSlots : P[q].pid = k => P[q].parent # P[s].pid
                 \/ k = P[s].pid /\ IsLive(P, P[s].parent)

\* process_exit() of the live process s.
LEMMA EndProcess ==
    ASSUME NEW P, NEW T, NEW On, NEW n, NEW D, Tables(P, T, On, n, D),
           NEW s \in ProcSlots, P[s].state = "live",
           NEW Q, Ends(P, Q, T, On, s),
           NEW U, U = EndThreads(WakeWaiters(T, P[s].parent), P[s].pid),
           NEW E, Owes(P, D, E, s)
    PROVE  /\ Tables(Q, U, On, n, E)
           /\ \A t \in ThreadSlots : T[t].pid = P[s].pid /\ T[t].listed => U[t].state = "zombie"
<1> USE DEF Tables, Ends
<1>0. T \in [ThreadSlots -> ThreadRecs] /\ On \subseteq ThreadSlots
  BY DEF ThreadsOK
<1> DEFINE V == WakeWaiters(T, P[s].parent)
           Over(t) == T[t].pid = P[s].pid /\ T[t].listed
           Up(t) == T[t].pid = P[s].parent /\ T[t].state = "waiting"
           Kept(t) == U[t].pid = T[t].pid /\ U[t].listed = T[t].listed /\ U[t].want = T[t].want
<1>1. \A t \in ThreadSlots : /\ Up(t) => V[t] = [T[t] EXCEPT !.state = "ready"]
                             /\ ~Up(t) => V[t] = T[t]
  BY DEF WakeWaiters
<1>2. \A t \in ThreadSlots :
         /\ V[t].pid = P[s].pid /\ V[t].listed => U[t] = [V[t] EXCEPT !.state = "zombie"]
         /\ ~(V[t].pid = P[s].pid /\ V[t].listed) => U[t] = V[t]
  BY DEF EndThreads
<1>3. U = [t \in ThreadSlots |-> U[t]]
  BY DEF EndThreads
<1>4. "ready" \in ThreadStates /\ "zombie" \in ThreadStates
  BY DEF ThreadStates
<1> HIDE DEF V
<1>5. ASSUME NEW t \in ThreadSlots
      PROVE  /\ U[t] \in ThreadRecs /\ Kept(t)
             /\ Over(t) => U[t].state = "zombie"
             /\ ~Over(t) /\ Up(t) => U[t].state = "ready"
             /\ ~Over(t) /\ ~Up(t) => U[t] = T[t]
  <2>1. T[t] \in ThreadRecs
    BY <1>0
  <2>2. /\ V[t] \in ThreadRecs
        /\ V[t].pid = T[t].pid /\ V[t].listed = T[t].listed /\ V[t].want = T[t].want
        /\ Up(t) => V[t].state = "ready"
    <3> HIDE DEF Up
    <3>1. CASE Up(t)
      <4>1. V[t] = [T[t] EXCEPT !.state = "ready"]
        BY <1>1, <3>1
      <4>2. /\ V[t] \in ThreadRecs /\ V[t].state = "ready" /\ V[t].pid = T[t].pid
            /\ V[t].listed = T[t].listed /\ V[t].want = T[t].want
        BY <1>4, <2>1, <4>1, StateSet
      <4> QED BY <4>2
    <3>2. CASE ~Up(t)
      BY <1>1, <2>1, <3>2, Zenon
    <3> QED BY <3>1, <3>2
  <2>3. CASE Over(t)
    <3>1. V[t].pid = P[s].pid /\ V[t].listed
      BY <2>2, <2>3
    <3>2. U[t] = [V[t] EXCEPT !.state = "zombie"]
      BY <1>2, <3>1
    <3>3. /\ U[t] \in ThreadRecs /\ U[t].state = "zombie" /\ U[t].pid = V[t].pid
          /\ U[t].listed = V[t].listed /\ U[t].want = V[t].want
      BY <1>4, <2>2, <3>2, StateSet
    <3> HIDE DEF Over, Up
    <3> QED BY <2>2, <2>3, <3>3
  <2>4. CASE ~Over(t)
    <3>1. ~(V[t].pid = P[s].pid /\ V[t].listed)
      BY <2>2, <2>4
    <3>2. U[t] = V[t]
      BY <1>2, <3>1
    <3> HIDE DEF Over, Up
    <3> QED BY <1>1, <2>2, <2>4, <3>2
  <2> QED BY <2>3, <2>4
<1>6. U \in [ThreadSlots -> ThreadRecs]
  BY <1>3, <1>5
<1> HIDE DEF Over, Up
<1>10. \A t \in ThreadSlots : U[t].state = "unused" => U[t] = FreeThread
  <2> SUFFICES ASSUME NEW t \in ThreadSlots, U[t].state = "unused" PROVE U[t] = FreeThread
    OBVIOUS
  <2>1. U[t] = T[t]
    BY <1>5
  <2> QED BY <2>1 DEF ThreadsOK
<1>11. \A t \in ThreadSlots : U[t].state # "unused" => T[t].state # "unused"
  <2> SUFFICES ASSUME NEW t \in ThreadSlots, T[t].state = "unused" PROVE U[t].state = "unused"
    OBVIOUS
  <2>1. T[t] = FreeThread
    BY DEF ThreadsOK
  <2>2. T[t].listed = FALSE
    BY <2>1 DEF FreeThread
  <2>3. ~Over(t) /\ ~Up(t)
    BY <2>2 DEF Over, Up
  <2> QED BY <1>5, <2>3
<1>12. \A t \in ThreadSlots : U[t].state \in Alive => T[t].state \in Alive /\ ~Over(t)
  BY <1>5 DEF Up, Alive
<1>13. \A t \in ThreadSlots : U[t].state \in {"running", "waiting"} => U[t] = T[t] /\ ~Up(t)
  BY <1>5
<1>14. ProcsOK(Q, n)
  <2>1. \A q \in ProcSlots : /\ Q[q].pid = P[q].pid /\ Q[q].parent = P[q].parent
                             /\ Q[q].state = "unused" <=> P[q].state = "unused"
    OBVIOUS
  <2>2. \A q \in ProcSlots : Q[q].state = "unused" => Q[q] = FreeProc
    BY DEF ProcsOK
  <2>3. \A q \in ProcSlots : Q[q].links = IF Q[q].state = "zombie" THEN 1 ELSE 0
    BY DEF ProcsOK
  <2>4. \A q \in ProcSlots : Q[q].state = "live" => Q[q].dir
    BY DEF ProcsOK
  <2> QED BY <2>1, <2>2, <2>3, <2>4 DEF ProcsOK
<1>15. \A pid : /\ Known(P, pid) => Known(Q, pid)
                /\ pid # P[s].pid /\ IsLive(P, pid) => IsLive(Q, pid)
                /\ pid # P[s].pid /\ HasDir(P, pid) => HasDir(Q, pid)
  BY DEF Known, HasDir, IsLive
<1>16. \A t \in On : HasDir(Q, T[t].pid)
  <2> SUFFICES ASSUME NEW t \in On PROVE HasDir(Q, T[t].pid)
    OBVIOUS
  <2>1. HasDir(P, T[t].pid)
    BY DEF ThreadsOK
  <2>2. CASE T[t].pid = P[s].pid
    BY <2>2 DEF HasDir
  <2> QED BY <1>15, <2>1, <2>2
<1>17. ThreadsOK(Q, U, On)
  <2>1. \A t \in ThreadSlots : U[t].state # "unused" => Known(Q, U[t].pid)
    BY <1>5, <1>11, <1>15 DEF ThreadsOK
  <2>2. \A t \in ThreadSlots : U[t].state \in Alive => U[t].listed /\ IsLive(Q, U[t].pid)
    <3> SUFFICES ASSUME NEW t \in ThreadSlots, U[t].state \in Alive
                 PROVE  U[t].listed /\ IsLive(Q, U[t].pid)
      OBVIOUS
    <3>1. T[t].listed /\ IsLive(P, T[t].pid) /\ ~Over(t)
      BY <1>12 DEF ThreadsOK
    <3>2. T[t].pid # P[s].pid
      BY <3>1 DEF Over
    <3> QED BY <1>5, <1>15, <3>1, <3>2
  <2>3. \A t \in ThreadSlots : U[t].state = "running" => t \in On
    BY <1>13 DEF ThreadsOK
  <2>4. ASSUME NEW t \in On
        PROVE  U[t].state \in {"running", "zombie"} /\ U[t].listed /\ HasDir(Q, U[t].pid)
    <3>1. T[t].state \in {"running", "zombie"} /\ T[t].listed
      BY DEF ThreadsOK
    <3>2. ~Up(t)
      BY <3>1 DEF Up
    <3> QED BY <1>0, <1>5, <1>16, <3>1, <3>2
  <2> QED BY <1>0, <1>6, <1>10, <2>1, <2>2, <2>3, <2>4 DEF ThreadsOK
<1>18. WaitOK(Q, U)
  <2> SUFFICES ASSUME NEW t \in ThreadSlots, NEW q \in ProcSlots,
                      U[t].state = "waiting", Q[q].state = "zombie", Q[q].valid,
                      Q[q].parent = U[t].pid
               PROVE  U[t].want # AnyChild /\ Q[q].pid # U[t].want
    BY DEF WaitOK
  <2>1. U[t] = T[t] /\ ~Up(t)
    BY <1>13
  <2>2. q # s
    BY <2>1 DEF Up
  <2> QED BY <2>1, <2>2 DEF WaitOK
<1>19. OwedOK(Q, E)
  <2> SUFFICES ASSUME NEW k \in E
               PROVE  \E q \in ProcSlots : /\ Q[q].pid = k /\ Q[q].state = "zombie" /\ Q[q].valid
                                           /\ IsLive(Q, Q[q].parent)
    BY DEF OwedOK
  <2>0. \/ k \in D /\ \A q \in ProcSlots : P[q].pid = k => P[q].parent # P[s].pid
        \/ k = P[s].pid /\ IsLive(P, P[s].parent)
    BY DEF Owes
  <2>1. CASE k \in D /\ \A q \in ProcSlots : P[q].pid = k => P[q].parent # P[s].pid
    <3>1. PICK q \in ProcSlots : /\ P[q].pid = k /\ P[q].state = "zombie" /\ P[q].valid
                                 /\ IsLive(P, P[q].parent)
      BY <2>1 DEF OwedOK
    <3>2. q # s /\ P[q].parent # P[s].pid
      BY <2>1, <3>1
    <3> QED BY <1>15, <3>1, <3>2
  <2>2. CASE k = P[s].pid /\ IsLive(P, P[s].parent)
    <3>1. P[s].parent # P[s].pid
      <4>1. P[s].parent < P[s].pid
        BY DEF ProcsOK
      <4>2. P[s].pid \in Nat /\ P[s].parent \in Nat
        BY TaskAssumption DEF ProcsOK, ProcRecs
      <4> QED BY <4>1, <4>2
    <3> QED BY <1>15, <2>2, <3>1
  <2> QED BY <2>0, <2>1, <2>2
<1>20. \A t \in ThreadSlots : T[t].pid = P[s].pid /\ T[t].listed => U[t].state = "zombie"
  BY <1>5 DEF Over
<1> QED BY <1>14, <1>17, <1>18, <1>19, <1>20

\* The second locked section of the reaper.
LEMMA ReapZombiesStage ==
    ASSUME NEW P, NEW T, NEW n, NEW D, Tables(P, T, OnCpu, n, D)
    PROVE  Tables(ZombiesReaped(P, T), ZombieThreadsFreed(P, T), OnCpu, n, D)
<1> DEFINE Q == ZombiesReaped(P, T)
           U == ZombieThreadsFreed(P, T)
           Gone(s) == s \in OnZombieList(P) /\ ~Deferred(P, T, s)
           Freed(t) == \E s \in OnZombieList(P) : T[t].pid = P[s].pid /\ ~Deferred(P, T, s)
<1> USE DEF Tables
<1>0. /\ P \in [ProcSlots -> ProcRecs] /\ T \in [ThreadSlots -> ThreadRecs]
      /\ OnCpu \subseteq ThreadSlots
  BY DEF ProcsOK, ThreadsOK
<1>1. \A s \in ProcSlots : s \in OnZombieList(P) <=> P[s].state = "zombie"
  <2> SUFFICES ASSUME NEW s \in ProcSlots PROVE P[s].links > 0 <=> P[s].state = "zombie"
    BY DEF OnZombieList
  <2>1. CASE P[s].state = "zombie"
    <3>1. P[s].links = 1
      BY <2>1 DEF ProcsOK
    <3> QED BY <2>1, <3>1
  <2>2. CASE P[s].state # "zombie"
    <3>1. P[s].links = 0
      BY <2>2 DEF ProcsOK
    <3> QED BY <2>2, <3>1
  <2> QED BY <2>1, <2>2
<1>2. FreeProc.state = "unused" /\ FreeProc.links = 0 /\ FreeProc \in ProcRecs
  <2>1. 0 \in 0 .. MaxPid /\ 0 \in 0 .. 2
    BY TaskAssumption
  <2> QED BY <2>1 DEF FreeProc, ProcRecs, ProcStates
<1>3. FreeThread.state = "unused" /\ FreeThread \in ThreadRecs
  BY TaskAssumption DEF FreeThread, ThreadRecs, ThreadStates, NoCall
<1>4. \A t \in ThreadSlots : U[t] = IF Freed(t) THEN FreeThread ELSE T[t]
  BY DEF ZombieThreadsFreed
<1>5. U \in [ThreadSlots -> ThreadRecs]
  BY <1>0, <1>3 DEF ZombieThreadsFreed
<1>6. \A s \in ProcSlots :
         /\ ~Gone(s) => Q[s] = P[s]
         /\ Gone(s) /\ Retained(P, s) => Q[s] = [P[s] EXCEPT !.dir = FALSE]
         /\ Gone(s) /\ ~Retained(P, s) => Q[s] = FreeProc
  BY DEF ZombiesReaped
<1>7. Q = [s \in ProcSlots |-> Q[s]]
  BY DEF ZombiesReaped
<1> HIDE DEF Q, U, Gone, Freed
<1>8. ASSUME NEW s \in ProcSlots, Q[s].state # "unused"
      PROVE  /\ Q[s].state = P[s].state /\ Q[s].pid = P[s].pid /\ Q[s].parent = P[s].parent
             /\ Q[s].links = P[s].links /\ Q[s].valid = P[s].valid
             /\ Q[s].dir = P[s].dir \/ Gone(s)
  BY <1>0, <1>2, <1>6, <1>8, ZenonT(30) DEF ProcRecs
<1>9. ASSUME NEW s \in ProcSlots
      PROVE  Q[s] \in ProcRecs
  <2>1. CASE Gone(s) /\ Retained(P, s)
    BY <1>0, <1>6, <2>1 DEF ProcRecs
  <2> QED BY <1>0, <1>2, <1>6, <2>1
<1>10. ASSUME NEW s \in ProcSlots, Gone(s)
       PROVE  P[s].state = "zombie"
  BY <1>1, <1>10 DEF Gone
<1>11. ASSUME NEW s \in ProcSlots, Gone(s) => Retained(P, s)
       PROVE  /\ Q[s].state = P[s].state /\ Q[s].pid = P[s].pid /\ Q[s].parent = P[s].parent
              /\ Q[s].valid = P[s].valid
  BY <1>0, <1>6, <1>11, ZenonT(30) DEF ProcRecs
<1>12. ProcsOK(Q, n)
  <2>1. Q \in [ProcSlots -> ProcRecs]
    BY <1>7, <1>9
  <2>2. \A s \in ProcSlots : Q[s].state = "unused" => Q[s] = FreeProc
    <3> SUFFICES ASSUME NEW s \in ProcSlots, Q[s].state = "unused" PROVE Q[s] = FreeProc
      OBVIOUS
    <3>1. CASE ~Gone(s)
      BY <1>6, <3>1 DEF ProcsOK
    <3>2. CASE Gone(s)
      <4>1. P[s].state = "zombie"
        BY <1>10, <3>2
      <4>2. ~Retained(P, s)
        BY <1>11, <3>2, <4>1
      <4> QED BY <1>6, <3>2, <4>2
    <3> QED BY <3>1, <3>2
  <2>3. \A s \in ProcSlots : Q[s].state # "unused" =>
           Q[s].pid > 0 /\ Q[s].pid < n /\ Q[s].parent < Q[s].pid
    BY <1>8 DEF ProcsOK
  <2>4. \A s, q \in ProcSlots :
           Q[s].state # "unused" /\ Q[q].state # "unused" /\ Q[s].pid = Q[q].pid => s = q
    BY <1>8 DEF ProcsOK
  <2>5. \A s \in ProcSlots : Q[s].links = IF Q[s].state = "zombie" THEN 1 ELSE 0
    BY <1>2, <1>8, <2>2 DEF ProcsOK
  <2>6. \A s \in ProcSlots : Q[s].state = "live" => Q[s].dir
    BY <1>8, <1>10 DEF ProcsOK
  <2> QED BY <2>1, <2>2, <2>3, <2>4, <2>5, <2>6 DEF ProcsOK
<1>13. \A pid : IsLive(P, pid) => IsLive(Q, pid)
  BY <1>6, <1>10 DEF IsLive
<1>14. ASSUME NEW t \in ThreadSlots, ~Freed(t)
       PROVE  /\ Known(P, T[t].pid) => Known(Q, T[t].pid)
              /\ HasDir(P, T[t].pid) => HasDir(Q, T[t].pid)
  <2>1. \A s \in ProcSlots : P[s].pid = T[t].pid => Q[s] = P[s]
    BY <1>6, <1>14 DEF Gone, Freed
  <2> QED BY <2>1 DEF Known, HasDir
<1>15. ASSUME NEW t \in OnCpu
       PROVE  ~Freed(t)
  <2>1. T[t].state # "unused"
    BY DEF ThreadsOK
  <2>2. \A s \in ProcSlots : T[t].pid = P[s].pid => Deferred(P, T, s)
    BY <2>1 DEF Deferred
  <2> QED BY <2>2 DEF Freed, OnZombieList
<1>16. ThreadsOK(Q, U, OnCpu)
  <2>1. \A t \in ThreadSlots : U[t].state = "unused" => U[t] = FreeThread
    BY <1>4 DEF ThreadsOK
  <2>2. \A t \in ThreadSlots : U[t].state # "unused" => ~Freed(t) /\ U[t] = T[t]
    BY <1>3, <1>4
  <2>3. \A t \in ThreadSlots : U[t].state # "unused" => Known(Q, U[t].pid)
    BY <1>14, <2>2 DEF ThreadsOK
  <2>4. \A t \in ThreadSlots : U[t].state \in Alive =>
           U[t].listed /\ IsLive(Q, U[t].pid) /\ (U[t].state = "running" => t \in OnCpu)
    BY <1>13, <2>2 DEF ThreadsOK, Alive
  <2>5. \A t \in OnCpu : U[t].state \in {"running", "zombie"} /\ U[t].listed /\ HasDir(Q, U[t].pid)
    BY <1>0, <1>4, <1>14, <1>15 DEF ThreadsOK
  <2>6. \A t \in ThreadSlots : U[t].state = "running" => t \in OnCpu
    BY <2>4 DEF Alive
  <2> QED BY <1>0, <1>5, <2>1, <2>3, <2>4, <2>5, <2>6 DEF ThreadsOK
<1>17. WaitOK(Q, U)
  <2>1. \A t \in ThreadSlots : U[t].state = "waiting" => U[t] = T[t]
    BY <1>3, <1>4
  <2>2. \A s \in ProcSlots : Q[s].state = "zombie" =>
           P[s].state = "zombie" /\ Q[s].pid = P[s].pid /\ Q[s].parent = P[s].parent
           /\ Q[s].valid = P[s].valid
    BY <1>8
  <2> QED BY <2>1, <2>2 DEF WaitOK
<1>18. OwedOK(Q, D)
  <2> SUFFICES ASSUME NEW k \in D
               PROVE  \E q \in ProcSlots : /\ Q[q].pid = k /\ Q[q].state = "zombie" /\ Q[q].valid
                                           /\ IsLive(Q, Q[q].parent)
    BY DEF OwedOK
  <2>1. PICK q \in ProcSlots : /\ P[q].pid = k /\ P[q].state = "zombie" /\ P[q].valid
                               /\ IsLive(P, P[q].parent)
    BY DEF OwedOK
  <2>2. Retained(P, q)
    BY <2>1 DEF Retained
  <2> QED BY <1>11, <1>13, <2>1, <2>2
<1> QED BY <1>12, <1>16, <1>17, <1>18 DEF Q, U

\* A thread that no longer runs leaves its CPU.
LEMMA LeaveStage ==
    ASSUME NEW P, NEW T, NEW On, NEW n, NEW D, Tables(P, T, On, n, D),
           NEW t, T[t].state # "running"
    PROVE  Tables(P, T, On \ {t}, n, D)
BY DEF Tables, ThreadsOK

-----------------------------------------------------------------------------
(* The actions.                                                            *)

LEMMA LeavesCpu ==
    ASSUME CpusOK, NEW c \in Cpus, cpu[c] # Idle
    PROVE  /\ cpu[c] \in ThreadSlots /\ cpu[c] \in OnCpu
           /\ LeaveCpu(c) => CpusOK' /\ OnCpu' = OnCpu \ {cpu[c]}
<1>1. cpu[c] \in ThreadSlots /\ cpu[c] \in OnCpu
  BY DEF CpusOK, OnCpu
<1>2. ASSUME LeaveCpu(c)
      PROVE  CpusOK' /\ OnCpu' = OnCpu \ {cpu[c]}
  <2>1. /\ cpu' \in [Cpus -> ThreadSlots \cup {Idle}] /\ cpu'[c] = Idle
        /\ \A d \in Cpus \ {c} : cpu'[d] = cpu[d]
    BY <1>2 DEF LeaveCpu, CpusOK
  <2>2. Idle \notin ThreadSlots
    BY TaskAssumption DEF Idle
  <2>3. CpusOK'
    BY <2>1 DEF CpusOK
  <2>4. ASSUME NEW t \in ThreadSlots
        PROVE  t \in OnCpu' <=> t \in OnCpu /\ t # cpu[c]
    BY <2>1, <2>2 DEF CpusOK, OnCpu
  <2> QED BY <2>3, <2>4 DEF OnCpu
<1> QED BY <1>1, <1>2

\* The current thread of a CPU, in a system call.
LEMMA Caller ==
    ASSUME LateCalls = FALSE, TaskInv, NEW c \in Cpus, cpu[c] # Idle,
           thr[cpu[c]].state = "running" \/ LateCalls
    PROVE  /\ cpu[c] \in ThreadSlots /\ cpu[c] \in OnCpu
           /\ thr[cpu[c]].state = "running" /\ thr[cpu[c]].listed
           /\ thr[cpu[c]] \in ThreadRecs
           /\ PidOf(c) \in 0 .. MaxPid /\ PidOf(c) < nextPid
           /\ IsLive(proc, PidOf(c)) /\ Known(proc, PidOf(c)) /\ HasDir(proc, PidOf(c))
           /\ SlotOf(PidOf(c)) \in ProcSlots
           /\ proc[SlotOf(PidOf(c))].state = "live" /\ proc[SlotOf(PidOf(c))].pid = PidOf(c)
<1> USE DEF TaskInv, Tables
<1>1. cpu[c] \in ThreadSlots /\ cpu[c] \in OnCpu /\ thr[cpu[c]].state = "running"
  BY LeavesCpu
<1>2. /\ thr[cpu[c]].listed /\ thr[cpu[c]] \in ThreadRecs
      /\ IsLive(proc, PidOf(c)) /\ Known(proc, PidOf(c)) /\ HasDir(proc, PidOf(c))
  BY <1>1 DEF ThreadsOK, Alive, PidOf
<1>3. PidOf(c) \in 0 .. MaxPid
  BY <1>2 DEF ThreadRecs, PidOf
<1>4. PICK s \in ProcSlots : proc[s].state = "live" /\ proc[s].pid = PidOf(c)
  BY <1>2 DEF IsLive
<1>5. PidOf(c) < nextPid
  BY <1>4 DEF ProcsOK
<1>6. SlotOf(PidOf(c)) = s
  BY <1>4 DEF SlotOf, ProcsOK
<1> QED BY <1>1, <1>2, <1>3, <1>4, <1>5, <1>6

LEMMA OneLink ==
    Min({0 + 1, 2}) = 1
<1>1. {0 + 1, 2} = {1, 2}
  OBVIOUS
<1>2. \A y \in {1, 2} : 1 <= y
  OBVIOUS
<1>3. \A x \in {1, 2} : (\A y \in {1, 2} : x <= y) => x = 1
  OBVIOUS
<1>4. Min({1, 2}) = 1
  BY <1>2, <1>3 DEF Min
<1> QED BY <1>1, <1>4

\* process_exit() by the thread self, on a CPU.
LEMMA ExitStage ==
    ASSUME TaskInv, NEW P, NEW n, Tables(P, thr, OnCpu, n, owed),
           NEW s \in ProcSlots, P[s].state = "live", NEW self \in OnCpu
    PROVE  /\ Tables(ExitedProcs(P, s, self), ExitedThreads(P, thr, s), OnCpu, n, OwedAfter(P, s))
           /\ \A t \in ThreadSlots : thr[t].pid = P[s].pid /\ thr[t].listed =>
                 ExitedThreads(P, thr, s)[t].state = "zombie"
<1> DEFINE Q == ExitedProcs(P, s, self)
           d == P[s].dir /\ DirInUse(P[s].pid, self)
<1>1. P \in [ProcSlots -> ProcRecs] /\ P[s] \in ProcRecs
  BY DEF Tables, ProcsOK
<1>2. P[s].links = 0 /\ P[s].dir
  BY DEF Tables, ProcsOK
<1>3. Min({P[s].links + 1, 2}) = 1
  BY <1>2, OneLink
<1>4. d \in BOOLEAN
  OBVIOUS
<1>5. /\ Q = [P EXCEPT ![s] = Q[s]]
      /\ Q[s] = [P[s] EXCEPT !.state = "zombie", !.valid = TRUE, !.dir = d,
                             !.links = Min({P[s].links + 1, 2})]
  BY <1>1, <1>2 DEF ExitedProcs
<1> HIDE DEF d, Q
<1>6. /\ Q[s] \in ProcRecs /\ Q[s].state = "zombie" /\ Q[s].valid = TRUE /\ Q[s].dir = d
      /\ Q[s].links = 1 /\ Q[s].pid = P[s].pid /\ Q[s].parent = P[s].parent
  <2>1. 1 \in 0 .. 2
    OBVIOUS
  <2> QED BY <1>1, <1>3, <1>4, <1>5, <2>1 DEF ProcRecs, ProcStates
<1>7. Q \in [ProcSlots -> ProcRecs] /\ \A q \in ProcSlots \ {s} : Q[q] = P[q]
  BY <1>1, <1>5, <1>6
<1>8. (\E t \in OnCpu : thr[t].pid = P[s].pid) => Q[s].dir
  <2> SUFFICES ASSUME NEW t \in OnCpu, thr[t].pid = P[s].pid PROVE Q[s].dir
    OBVIOUS
  <2>1. thr[t].listed
    BY DEF Tables, ThreadsOK
  <2>2. DirInUse(P[s].pid, self)
    BY <2>1 DEF DirInUse
  <2> QED BY <1>2, <1>6, <1>7, <2>2 DEF d
<1>9. \A k \in OwedAfter(P, s) :
         \/ k \in owed /\ \A q \in ProcSlots : P[q].pid = k => P[q].parent # P[s].pid
         \/ k = P[s].pid /\ IsLive(P, P[s].parent)
  BY DEF OwedAfter
<1>10. Q[s].state = "zombie" /\ Q[s].pid = P[s].pid /\ Q[s].parent = P[s].parent
       /\ Q[s].links = 1 /\ Q[s].valid
  BY <1>6, <1>7
<1> DEFINE U == ExitedThreads(P, thr, s)
           E == OwedAfter(P, s)
<1>11. U = EndThreads(WakeWaiters(thr, P[s].parent), P[s].pid)
  BY DEF ExitedThreads
<1> HIDE DEF U
<1>12. Owes(P, owed, E, s)
  BY <1>9 DEF Owes
<1>13. Ends(P, Q, thr, OnCpu, s)
  BY <1>7, <1>8, <1>10 DEF Ends
<1> HIDE DEF E
<1>14. /\ Tables(Q, U, OnCpu, n, E)
       /\ \A t \in ThreadSlots : thr[t].pid = P[s].pid /\ thr[t].listed => U[t].state = "zombie"
  BY <1>11, <1>12, <1>13, EndProcess
<1> QED BY <1>14 DEF Q, U, E

\* Nothing but the tables, and not who is on which CPU, changes.
LEMMA CpusKept ==
    ASSUME CpusOK, UNCHANGED cpu
    PROVE  CpusOK' /\ OnCpu' = OnCpu
BY DEF CpusOK, OnCpu

LEMMA Slots ==
    /\ FreeProcs # {} => Min(FreeProcs) \in ProcSlots /\ proc[Min(FreeProcs)].state = "unused"
    /\ \A T : FreeThreads(T) # {} =>
          Min(FreeThreads(T)) \in ThreadSlots /\ T[Min(FreeThreads(T))].state = "unused"
<1>1. FreeProcs # {} => Min(FreeProcs) \in FreeProcs
  <2>1. FreeProcs \subseteq Nat
    BY TaskAssumption DEF FreeProcs
  <2> QED BY <2>1, MinIsMember
<1>2. ASSUME NEW T, FreeThreads(T) # {}
      PROVE  Min(FreeThreads(T)) \in FreeThreads(T)
  <2>1. FreeThreads(T) \subseteq Nat
    BY TaskAssumption DEF FreeThreads
  <2> QED BY <1>2, <2>1, MinIsMember
<1> QED BY <1>1, <1>2 DEF FreeProcs, FreeThreads

\* The end of a whole process by the thread of CPU c, which then leaves it.
LEMMA CallerExits ==
    ASSUME LateCalls = FALSE, TaskInv, NEW c \in Cpus, Calling(c),
           ProcessExit(SlotOf(PidOf(c)), cpu[c]), LeaveCpu(c)
    PROVE  TaskInv'
<1> DEFINE s == SlotOf(PidOf(c))
           t == cpu[c]
<1>1. /\ t \in ThreadSlots /\ t \in OnCpu /\ thr[t].pid = proc[s].pid /\ thr[t].listed
      /\ s \in ProcSlots /\ proc[s].state = "live"
  BY Caller DEF Calling, PidOf
<1>2. CpusOK' /\ OnCpu' = OnCpu \ {t}
  BY LeavesCpu DEF Calling, TaskInv
<1> HIDE DEF s, t
<1>3. /\ proc' = ExitedProcs(proc, s, t) /\ thr' = ExitedThreads(proc, thr, s)
      /\ owed' = OwedAfter(proc, s) /\ nextPid' = nextPid
  BY DEF ProcessExit, s, t
<1>4. Tables(proc', thr', OnCpu, nextPid, owed') /\ thr'[t].state = "zombie"
  BY <1>1, <1>3, ExitStage DEF TaskInv
<1>5. Tables(proc', thr', OnCpu \ {t}, nextPid, owed')
  BY <1>4, LeaveStage
<1> QED BY <1>2, <1>3, <1>5 DEF TaskInv

LEMMA KillStep ==
    ASSUME LateCalls = FALSE, TaskInv, NEW c \in Cpus, NEW s \in ProcSlots, Kill(c, s)
    PROVE  TaskInv'
<1>1. cpu[c] \in OnCpu
  BY Caller DEF Kill, Calling
<1>2. CpusOK' /\ OnCpu' = OnCpu
  BY CpusKept DEF Kill, TaskInv
<1>3. /\ proc[s].state = "live" /\ nextPid' = nextPid
      /\ proc' = ExitedProcs(proc, s, cpu[c]) /\ thr' = ExitedThreads(proc, thr, s)
      /\ owed' = OwedAfter(proc, s)
  BY DEF Kill, ProcessExit
<1>4. Tables(proc', thr', OnCpu, nextPid, owed')
  BY <1>1, <1>3, ExitStage DEF TaskInv
<1> QED BY <1>2, <1>3, <1>4 DEF TaskInv

LEMMA ThreadExitStep ==
    ASSUME LateCalls = FALSE, TaskInv, NEW c \in Cpus, ThreadExit(c)
    PROVE  TaskInv'
<1>1. CASE HasLiveThreadsExcept(PidOf(c), cpu[c])
  <2> DEFINE t == cpu[c]
             r == [thr[t] EXCEPT !.state = "zombie", !.listed = FALSE]
  <2>1. t \in ThreadSlots /\ t \in OnCpu /\ thr[t] \in ThreadRecs /\ Known(proc, thr[t].pid)
    BY Caller DEF ThreadExit, Calling, PidOf
  <2>2. CpusOK' /\ OnCpu' = OnCpu \ {t}
    BY LeavesCpu DEF ThreadExit, Calling, TaskInv
  <2>3. thr' = [thr EXCEPT ![t] = r] /\ UNCHANGED <<proc, nextPid, owed>>
    BY <1>1 DEF ThreadExit
  <2> HIDE DEF t
  <2>4. r \in ThreadRecs /\ r.state = "zombie" /\ r.pid = thr[t].pid
    BY <2>1 DEF ThreadRecs, ThreadStates
  <2> HIDE DEF r
  <2>5. OnCpu \subseteq ThreadSlots
    BY DEF OnCpu
  <2> DEFINE On2 == OnCpu \ {t}
  <2>6. /\ On2 \in SUBSET ThreadSlots /\ t \notin On2
        /\ \A u \in ThreadSlots \ {t} : u \in On2 <=> u \in OnCpu
    BY <2>5
  <2> HIDE DEF On2
  <2>7. r.state \notin Alive
    BY <2>4 DEF Alive
  <2>8. Tables(proc, [thr EXCEPT ![t] = r], On2, nextPid, owed)
    BY <2>1, <2>4, <2>6, <2>7, SetThread DEF TaskInv, Alive
  <2> QED BY <2>2, <2>3, <2>8 DEF TaskInv, On2
<1>2. CASE ~HasLiveThreadsExcept(PidOf(c), cpu[c])
  BY <1>2, CallerExits DEF ThreadExit
<1> QED BY <1>1, <1>2

LEMMA ReapDeadThreadsStage ==
    ASSUME NEW P, NEW T, NEW n, NEW D, Tables(P, T, OnCpu, n, D)
    PROVE  Tables(P, ReapedThreads(P, T), OnCpu, n, D)
<1> DEFINE F == DeadThreads(P, T)
<1>1. F \in SUBSET ThreadSlots /\ F \cap OnCpu = {} /\ \A t \in F : T[t].state # "running"
  BY DEF DeadThreads
<1>2. ReapedThreads(P, T) = [t \in ThreadSlots |-> IF t \in F THEN FreeThread ELSE T[t]]
  BY DEF ReapedThreads
<1> HIDE DEF F
<1> QED BY <1>1, <1>2, FreeSome

LEMMA ReapStep ==
    ASSUME TaskInv, ReapStart \/ ReapDeadThreads \/ ReapZombies \/ ReapEnd
    PROVE  TaskInv'
<1>1. CpusOK' /\ OnCpu' = OnCpu /\ nextPid' = nextPid /\ owed' = owed
  BY CpusKept DEF TaskInv, ReapStart, ReapDeadThreads, ReapZombies, ReapEnd
<1>2. CASE ReapStart \/ ReapEnd
  BY <1>1, <1>2 DEF TaskInv, ReapStart, ReapEnd
<1>3. CASE ReapDeadThreads
  <2>1. Tables(proc, ReapedThreads(proc, thr), OnCpu, nextPid, owed)
    BY ReapDeadThreadsStage DEF TaskInv
  <2> QED BY <1>1, <1>3, <2>1 DEF TaskInv, ReapDeadThreads
<1>4. CASE ReapZombies
  <2>1. Tables(ZombiesReaped(proc, thr), ZombieThreadsFreed(proc, thr), OnCpu, nextPid, owed)
    BY ReapZombiesStage DEF TaskInv
  <2> QED BY <1>1, <1>4, <2>1 DEF TaskInv, ReapZombies
<1> QED BY <1>2, <1>3, <1>4

LEMMA CreateStep ==
    ASSUME LateCalls = FALSE, TaskInv, NEW c \in Cpus, ThreadCreate(c) \/ CloneThread(c)
    PROVE  TaskInv'
<1>1. IsLive(proc, PidOf(c)) /\ PidOf(c) \in 0 .. MaxPid
  BY Caller DEF ThreadCreate, CloneThread, Calling
<1>2. PICK T : T \in {thr, ReapedThreads(proc, thr)} /\ CreateIn(c, T)
  BY DEF ThreadCreate, CloneThread
<1>3. Tables(proc, T, OnCpu, nextPid, owed)
  BY <1>2, ReapDeadThreadsStage DEF TaskInv
<1>4. /\ FreeThreads(T) # {} /\ thr' = [T EXCEPT ![Min(FreeThreads(T))] = NewThread(PidOf(c))]
      /\ UNCHANGED <<proc, cpu, nextPid, owed>>
  BY <1>2 DEF CreateIn
<1>5. Min(FreeThreads(T)) \in ThreadSlots /\ T[Min(FreeThreads(T))].state = "unused"
  BY <1>4, Slots
<1>6. Tables(proc, thr', OnCpu, nextPid, owed)
  BY <1>1, <1>3, <1>4, <1>5, AddThread
<1>7. CpusOK' /\ OnCpu' = OnCpu
  BY <1>4, CpusKept DEF TaskInv
<1> QED BY <1>4, <1>6, <1>7 DEF TaskInv

LEMMA NextPidFits ==
    ASSUME TaskInv, nextPid <= MaxPid
    PROVE  nextPid \in 1 .. MaxPid /\ nextPid + 1 \in 1 .. (MaxPid + 1) /\ nextPid \in 0 .. MaxPid
BY TaskAssumption DEF TaskInv

LEMMA SpawnStep ==
    ASSUME LateCalls = FALSE, TaskInv, NEW c \in Cpus, Spawn(c)
    PROVE  TaskInv'
<1> DEFINE s == Min(FreeProcs)
           P == [proc EXCEPT ![s] = NewProc(nextPid, PidOf(c))]
<1>1. PidOf(c) \in 0 .. MaxPid /\ PidOf(c) < nextPid
  BY Caller DEF Spawn, Calling
<1>2. nextPid \in 1 .. MaxPid /\ nextPid + 1 \in 1 .. (MaxPid + 1) /\ nextPid \in 0 .. MaxPid
  BY NextPidFits DEF Spawn
<1>3. s \in ProcSlots /\ proc[s].state = "unused"
  BY Slots DEF Spawn
<1>4. Tables(P, thr, OnCpu, nextPid + 1, owed)
  BY <1>1, <1>2, <1>3, AddProc DEF TaskInv
<1>5. IsLive(P, nextPid)
  <2>1. proc \in [ProcSlots -> ProcRecs]
    BY DEF TaskInv, Tables, ProcsOK
  <2> QED BY <1>1, <1>2, <1>3, <2>1, NewIsLive
<1>6. Min(FreeThreads(thr)) \in ThreadSlots /\ thr[Min(FreeThreads(thr))].state = "unused"
  BY Slots DEF Spawn
<1>7. /\ proc' = P /\ thr' = [thr EXCEPT ![Min(FreeThreads(thr))] = NewThread(nextPid)]
      /\ nextPid' = nextPid + 1 /\ UNCHANGED <<cpu, owed>>
  BY DEF Spawn
<1> HIDE DEF P, s
<1>8. Tables(proc', thr', OnCpu, nextPid + 1, owed)
  BY <1>2, <1>4, <1>5, <1>6, <1>7, AddThread
<1>9. CpusOK' /\ OnCpu' = OnCpu
  BY <1>7, CpusKept DEF TaskInv
<1> QED BY <1>2, <1>7, <1>8, <1>9 DEF TaskInv

LEMMA SpawnFailsStep ==
    ASSUME LateCalls = FALSE, TaskInv, NEW c \in Cpus, SpawnFails(c)
    PROVE  TaskInv'
<1> DEFINE s == Min(FreeProcs)
           made == [proc EXCEPT ![s] = NewProc(nextPid, PidOf(c))]
           P == ExitedProcs(made, s, cpu[c])
           U == ExitedThreads(made, thr, s)
           T == ReapedThreads(P, U)
           D == OwedAfter(made, s)
<1>1. PidOf(c) \in 0 .. MaxPid /\ PidOf(c) < nextPid /\ cpu[c] \in OnCpu
  BY Caller DEF SpawnFails, Calling
<1>2. nextPid \in 1 .. MaxPid /\ nextPid + 1 \in 1 .. (MaxPid + 1) /\ nextPid \in 0 .. MaxPid
  BY NextPidFits DEF SpawnFails
<1>3. s \in ProcSlots /\ proc[s].state = "unused"
  BY Slots DEF SpawnFails
<1>4. Tables(made, thr, OnCpu, nextPid + 1, owed)
  BY <1>1, <1>2, <1>3, AddProc DEF TaskInv
<1>5. made[s].state = "live"
  <2>1. proc \in [ProcSlots -> ProcRecs]
    BY DEF TaskInv, Tables, ProcsOK
  <2> HIDE DEF s
  <2> QED BY <1>1, <1>2, <1>3, <2>1, NewIsLive
<1>6. /\ proc' = ZombiesReaped(P, T) /\ thr' = ZombieThreadsFreed(P, T) /\ owed' = D
      /\ nextPid' = nextPid + 1 /\ UNCHANGED cpu
  BY DEF SpawnFails
<1> HIDE DEF s, made
<1>7. Tables(P, U, OnCpu, nextPid + 1, D)
  BY <1>1, <1>3, <1>4, <1>5, ExitStage
<1> HIDE DEF P, U, D
<1>8. Tables(P, T, OnCpu, nextPid + 1, D)
  BY <1>7, ReapDeadThreadsStage
<1> HIDE DEF T
<1>9. Tables(proc', thr', OnCpu, nextPid + 1, D)
  BY <1>6, <1>8, ReapZombiesStage
<1>10. CpusOK' /\ OnCpu' = OnCpu
  BY <1>6, CpusKept DEF TaskInv
<1> QED BY <1>2, <1>6, <1>9, <1>10 DEF TaskInv

\* A thread leaves its CPU with the record r.
LEMMA DepartStage ==
    ASSUME TaskInv, NEW t \in OnCpu, NEW r \in ThreadRecs, r.pid = thr[t].pid,
           r.state \in {"ready", "waiting", "zombie"}, Known(proc, r.pid),
           r.state # "zombie" => r.listed /\ IsLive(proc, r.pid),
           r.state = "waiting" =>
               \A s \in ProcSlots :
                   proc[s].state = "zombie" /\ proc[s].valid /\ proc[s].parent = r.pid =>
                       r.want # AnyChild /\ proc[s].pid # r.want
    PROVE  Tables(proc, [thr EXCEPT ![t] = r], OnCpu \ {t}, nextPid, owed)
<1> DEFINE On2 == OnCpu \ {t}
<1>1. OnCpu \subseteq ThreadSlots /\ t \in ThreadSlots
  BY DEF OnCpu
<1>2. /\ On2 \in SUBSET ThreadSlots /\ t \notin On2
      /\ \A u \in ThreadSlots \ {t} : u \in On2 <=> u \in OnCpu
  BY <1>1
<1> HIDE DEF On2
<1>3. r.state \in Alive => r.listed /\ IsLive(proc, r.pid)
  BY DEF Alive
<1>4. Tables(proc, [thr EXCEPT ![t] = r], On2, nextPid, owed)
  BY <1>1, <1>2, <1>3, SetThread DEF TaskInv
<1> QED BY <1>4 DEF On2

LEMMA YieldStep ==
    ASSUME LateCalls = FALSE, TaskInv, NEW c \in Cpus, Yield(c) \/ Tick(c)
    PROVE  TaskInv'
<1> DEFINE t == cpu[c]
           st == IF thr[t].state = "running" THEN "ready" ELSE thr[t].state
           r == [thr[t] EXCEPT !.state = st]
<1>0. cpu[c] # Idle
  BY DEF Yield, Tick, Calling
<1>1. /\ t \in ThreadSlots /\ t \in OnCpu
      /\ LeaveCpu(c) => CpusOK' /\ OnCpu' = OnCpu \ {t}
  BY <1>0, LeavesCpu DEF TaskInv
<1>2. /\ thr[t] \in ThreadRecs /\ thr[t].state \in {"running", "zombie"} /\ thr[t].listed
      /\ Known(proc, thr[t].pid) /\ (thr[t].state = "running" => IsLive(proc, thr[t].pid))
  BY <1>1 DEF TaskInv, Tables, ThreadsOK, Alive
<1>3. thr \in [ThreadSlots -> ThreadRecs]
  BY DEF TaskInv, Tables, ThreadsOK
<1>4. thr' = [thr EXCEPT ![t] = r]
  <2>1. CASE Yield(c)
    <3>1. thr[t].state = "running"
      BY <2>1 DEF Yield, Calling
    <3> QED BY <2>1, <3>1 DEF Yield
  <2>2. CASE Tick(c)
    BY <2>2 DEF Tick
  <2> QED BY <2>1, <2>2
<1>5. LeaveCpu(c) /\ UNCHANGED <<proc, nextPid, owed>>
  BY DEF Yield, Tick
<1>6. st \in {"ready", "zombie"} /\ st \in ThreadStates /\ (st # "zombie" => thr[t].state = "running")
  BY <1>2 DEF ThreadStates
<1>a. r = [thr[t] EXCEPT !.state = st]
  OBVIOUS
<1> HIDE DEF t, st, r
<1>7. r \in ThreadRecs /\ r.state = st /\ r.pid = thr[t].pid /\ r.listed = thr[t].listed
  <2>1. thr[t] \in ThreadRecs /\ st \in ThreadStates
    BY <1>2, <1>6
  <2> QED BY <2>1, <1>a, StateSet
<1>8. Tables(proc, thr', OnCpu \ {t}, nextPid, owed)
  BY <1>1, <1>2, <1>4, <1>6, <1>7, DepartStage
<1> QED BY <1>1, <1>5, <1>8 DEF TaskInv

\* waitpid returns.
LEMMA ReturnStage ==
    ASSUME NEW P, NEW T, NEW On, NEW n, NEW D, Tables(P, T, On, n, D), NEW t \in On
    PROVE  Tables(P, [T EXCEPT ![t].want = NoCall], On, n, D)
<1> DEFINE r == [T[t] EXCEPT !.want = NoCall]
<1>1. /\ On \subseteq ThreadSlots /\ t \in ThreadSlots /\ T[t] \in ThreadRecs
      /\ T[t].state \in {"running", "zombie"} /\ T[t].listed /\ HasDir(P, T[t].pid)
      /\ Known(P, T[t].pid) /\ (T[t].state = "running" => IsLive(P, T[t].pid))
  BY DEF Tables, ThreadsOK, Alive
<1>2. [T EXCEPT ![t].want = NoCall] = [T EXCEPT ![t] = r]
  OBVIOUS
<1>3. NoCall \in NoCall .. MaxPid
  BY TaskAssumption DEF NoCall
<1>4. /\ r \in ThreadRecs /\ r.state = T[t].state /\ r.pid = T[t].pid
      /\ r.listed = T[t].listed
  BY <1>1, <1>3 DEF ThreadRecs
<1> HIDE DEF r
<1>5. r.state \in Alive => r.state = "running"
  BY <1>1, <1>4 DEF Alive
<1> QED BY <1>1, <1>2, <1>4, <1>5, SetThread

LEMMA WaitStep ==
    ASSUME LateCalls = FALSE, TaskInv, NEW c \in Cpus, cpu[c] # Idle,
           thr[cpu[c]].state = "running" \/ LateCalls,
           NEW w \in 0 .. MaxPid, WaitPass(c, w)
    PROVE  TaskInv'
<1> DEFINE t == cpu[c]
           found == Collectable(PidOf(c), w)
<1>1. /\ t \in ThreadSlots /\ t \in OnCpu /\ thr[t] \in ThreadRecs /\ thr[t].listed
      /\ PidOf(c) = thr[t].pid /\ Known(proc, thr[t].pid) /\ IsLive(proc, thr[t].pid)
  BY Caller DEF PidOf
<1>2. found \subseteq ProcSlots /\ \A s \in found : proc[s].state = "zombie"
  BY DEF Collectable, Children
<1>3. CASE found # {}
  <2> DEFINE s == Min(found)
             P == [proc EXCEPT ![s].valid = FALSE]
  <2>1. s \in ProcSlots /\ proc[s].state = "zombie"
    <3>1. found \subseteq Nat
      BY <1>2, TaskAssumption
    <3> QED BY <1>2, <1>3, <3>1, MinIsMember
  <2>2. /\ proc' = P /\ owed' = owed \ {proc[s].pid}
        /\ thr' = [thr EXCEPT ![t].want = NoCall] /\ UNCHANGED <<cpu, nextPid>>
    BY <1>3 DEF WaitPass
  <2> HIDE DEF s, t
  <2>3. Tables(P, thr, OnCpu, nextPid, owed \ {proc[s].pid})
    BY <2>1, Collect DEF TaskInv
  <2> HIDE DEF P
  <2>4. Tables(proc', thr', OnCpu, nextPid, owed')
    BY <1>1, <2>2, <2>3, ReturnStage
  <2>5. CpusOK' /\ OnCpu' = OnCpu
    BY <2>2, CpusKept DEF TaskInv
  <2> QED BY <2>2, <2>4, <2>5 DEF TaskInv
<1>4. CASE found = {} /\ Children(PidOf(c), w) # {}
  <2> DEFINE r == [thr[t] EXCEPT !.state = "waiting", !.want = w]
  <2>1. thr' = [thr EXCEPT ![t] = r] /\ LeaveCpu(c) /\ UNCHANGED <<proc, owed, nextPid>>
    BY <1>4 DEF WaitPass
  <2>2. CpusOK' /\ OnCpu' = OnCpu \ {t}
    BY <2>1, LeavesCpu DEF TaskInv
  <2>3. \A s \in ProcSlots :
           proc[s].state = "zombie" /\ proc[s].valid /\ proc[s].parent = thr[t].pid =>
               w # AnyChild /\ proc[s].pid # w
    BY <1>1, <1>4 DEF Collectable, Children
  <2> HIDE DEF t
  <2>4. w \in NoCall .. MaxPid
    BY TaskAssumption DEF NoCall
  <2>5. /\ r \in ThreadRecs /\ r.state = "waiting" /\ r.want = w /\ r.pid = thr[t].pid
        /\ r.listed = thr[t].listed
    BY <1>1, <2>4 DEF ThreadRecs, ThreadStates
  <2> HIDE DEF r
  <2>6. Tables(proc, [thr EXCEPT ![t] = r], OnCpu \ {t}, nextPid, owed)
    BY <1>1, <2>3, <2>5, DepartStage
  <2> QED BY <2>1, <2>2, <2>6 DEF TaskInv
<1>5. CASE found = {} /\ Children(PidOf(c), w) = {}
  <2>1. thr' = [thr EXCEPT ![t].want = NoCall] /\ UNCHANGED <<proc, owed, nextPid, cpu>>
    BY <1>5 DEF WaitPass
  <2> HIDE DEF t
  <2>2. Tables(proc, thr', OnCpu, nextPid, owed)
    BY <1>1, <2>1, ReturnStage DEF TaskInv
  <2>3. CpusOK' /\ OnCpu' = OnCpu
    BY <2>1, CpusKept DEF TaskInv
  <2> QED BY <2>1, <2>2, <2>3 DEF TaskInv
<1> QED BY <1>3, <1>4, <1>5

LEMMA DispatchStep ==
    ASSUME TaskInv, NEW c \in Cpus, NEW t \in ThreadSlots, Dispatch(c, t)
    PROVE  TaskInv'
<1> DEFINE r == [thr[t] EXCEPT !.state = "running"]
           On2 == OnCpu \cup {t}
<1>1. /\ thr[t] \in ThreadRecs /\ thr[t].listed /\ IsLive(proc, thr[t].pid)
      /\ proc \in [ProcSlots -> ProcRecs] /\ cpu \in [Cpus -> ThreadSlots \cup {Idle}]
  BY DEF Dispatch, TaskInv, Tables, ProcsOK, ThreadsOK, Alive, CpusOK
<1>2. PICK s \in ProcSlots : proc[s].state = "live" /\ proc[s].pid = thr[t].pid
  BY <1>1 DEF IsLive
<1>3. SlotOf(thr[t].pid) = s
  BY <1>2 DEF SlotOf, TaskInv, Tables, ProcsOK
<1>4. proc' = proc
  BY <1>1, <1>2, <1>3 DEF Dispatch, ProcRecs
<1>5. CpusOK' /\ OnCpu' = On2
  <2>1. /\ cpu' \in [Cpus -> ThreadSlots \cup {Idle}] /\ cpu'[c] = t
        /\ \A d \in Cpus \ {c} : cpu'[d] = cpu[d] /\ cpu[d] # t
    BY <1>1 DEF Dispatch, OnCpu
  <2>2. CpusOK'
    BY <2>1 DEF CpusOK, TaskInv
  <2>3. cpu[c] \notin ThreadSlots
    BY TaskAssumption DEF Dispatch, Idle
  <2>4. ASSUME NEW u \in ThreadSlots
        PROVE  u \in OnCpu' <=> u \in On2
    BY <2>1, <2>3 DEF OnCpu
  <2> QED BY <2>2, <2>4 DEF OnCpu
<1>6. thr' = [thr EXCEPT ![t] = r] /\ UNCHANGED <<nextPid, owed>>
  BY DEF Dispatch
<1>7. /\ On2 \in SUBSET ThreadSlots /\ t \in On2
      /\ \A u \in ThreadSlots \ {t} : u \in On2 <=> u \in OnCpu
  BY DEF OnCpu
<1>8. Known(proc, thr[t].pid) /\ HasDir(proc, thr[t].pid)
  BY <1>2 DEF Known, HasDir, TaskInv, Tables, ProcsOK
<1>9. "running" \in ThreadStates
  BY DEF ThreadStates
<1>10. r \in ThreadRecs /\ r.state = "running" /\ r.pid = thr[t].pid /\ r.listed = thr[t].listed
  BY <1>1, <1>9 DEF ThreadRecs
<1> HIDE DEF r, On2
<1>11. Tables(proc, [thr EXCEPT ![t] = r], On2, nextPid, owed)
  BY <1>1, <1>7, <1>8, <1>10, SetThread DEF TaskInv
<1> QED BY <1>4, <1>5, <1>6, <1>11 DEF TaskInv

-----------------------------------------------------------------------------
(* The theorems.                                                           *)

LEMMA TaskInit ==
    Init => TaskInv
<1> SUFFICES ASSUME Init PROVE TaskInv
  OBVIOUS
<1> DEFINE s == Min(ProcSlots)
           t == Min(ThreadSlots)
           new == NewProc(1, 0)
           run == [NewThread(1) EXCEPT !.state = "running"]
<1>1. s \in ProcSlots /\ t \in ThreadSlots
  BY TaskAssumption, MinIsMember
<1>2. MaxPid \in Nat /\ 1 \in 0 .. MaxPid /\ 0 \in 0 .. MaxPid /\ 2 \in 1 .. (MaxPid + 1)
  BY TaskAssumption
<1>3. /\ new \in ProcRecs /\ new.state = "live" /\ new.pid = 1 /\ new.parent = 0
      /\ new.dir = TRUE /\ new.links = 0
  <2>1. /\ new.state = "live" /\ new.pid = 1 /\ new.parent = 0
        /\ new.dir = TRUE /\ new.links = 0
    BY DEF NewProc, FreeProc
  <2>2. new \in ProcRecs
    BY <1>2, NewProcRecord
  <2> QED BY <2>1, <2>2
<1>4. /\ run \in ThreadRecs /\ run.state = "running" /\ run.pid = 1 /\ run.listed = TRUE
  <2>1. run.state = "running" /\ run.pid = 1 /\ run.listed = TRUE
    BY DEF NewThread, FreeThread
  <2>2. NewThread(1) \in ThreadRecs
    BY <1>2, NewThreadRecord
  <2>3. run \in ThreadRecs
    BY <2>2 DEF ThreadRecs, ThreadStates
  <2> QED BY <2>1, <2>3
<1>5. FreeProc.state = "unused" /\ FreeProc.links = 0 /\ FreeProc \in ProcRecs
  <2>1. 0 \in 0 .. 2
    OBVIOUS
  <2> QED BY <1>2, <2>1 DEF FreeProc, ProcRecs, ProcStates
<1>6. FreeThread.state = "unused" /\ FreeThread \in ThreadRecs
  BY TaskAssumption DEF FreeThread, ThreadRecs, ThreadStates, NoCall
<1>7. /\ proc = [q \in ProcSlots |-> IF q = s THEN new ELSE FreeProc]
      /\ thr = [u \in ThreadSlots |-> IF u = t THEN run ELSE FreeThread]
      /\ cpu = [c \in Cpus |-> IF c = Boot THEN t ELSE Idle]
      /\ nextPid = 2 /\ owed = {}
  BY DEF Init
<1> HIDE DEF s, t, new, run
<1>8. /\ proc[s] = new /\ \A q \in ProcSlots \ {s} : proc[q] = FreeProc
      /\ proc \in [ProcSlots -> ProcRecs]
  BY <1>1, <1>3, <1>5, <1>7
<1>9. /\ thr[t] = run /\ \A u \in ThreadSlots \ {t} : thr[u] = FreeThread
      /\ thr \in [ThreadSlots -> ThreadRecs]
  BY <1>1, <1>4, <1>6, <1>7
<1>10. CpusOK /\ OnCpu = {t}
  <2>1. /\ Boot \in Cpus /\ cpu[Boot] = t /\ \A c \in Cpus \ {Boot} : cpu[c] = Idle
        /\ cpu \in [Cpus -> ThreadSlots \cup {Idle}]
    BY <1>1, <1>7, TaskAssumption DEF Boot
  <2>2. Idle \notin ThreadSlots
    BY TaskAssumption DEF Idle
  <2> QED BY <1>1, <2>1, <2>2 DEF CpusOK, OnCpu
<1>11. ProcsOK(proc, nextPid)
  <2>1. \A q \in ProcSlots : proc[q].state # "unused" => q = s
    BY <1>5, <1>8
  <2>2. proc[s].pid > 0 /\ proc[s].pid < nextPid /\ proc[s].parent < proc[s].pid
    BY <1>3, <1>7, <1>8
  <2>3. \A q \in ProcSlots : proc[q].state # "unused" =>
           proc[q].pid > 0 /\ proc[q].pid < nextPid /\ proc[q].parent < proc[q].pid
    BY <2>1, <2>2
  <2>4. \A q \in ProcSlots : /\ proc[q].state = "unused" => proc[q] = FreeProc
                             /\ proc[q].state = "live" => proc[q].dir
    BY <1>3, <1>5, <1>8
  <2>5. \A q \in ProcSlots : proc[q].links = IF proc[q].state = "zombie" THEN 1 ELSE 0
    BY <1>3, <1>5, <1>8
  <2> QED BY <1>8, <2>1, <2>3, <2>4, <2>5 DEF ProcsOK
<1>12. IsLive(proc, 1) /\ Known(proc, 1) /\ HasDir(proc, 1)
  BY <1>1, <1>3, <1>8 DEF IsLive, Known, HasDir
<1>13. ThreadsOK(proc, thr, OnCpu)
  BY <1>1, <1>4, <1>6, <1>9, <1>10, <1>12 DEF ThreadsOK, Alive
<1>14. WaitOK(proc, thr) /\ OwedOK(proc, owed)
  BY <1>4, <1>6, <1>7, <1>9 DEF WaitOK, OwedOK
<1> QED BY <1>2, <1>7, <1>10, <1>11, <1>13, <1>14 DEF TaskInv, Tables

LEMMA TaskStep ==
    ASSUME LateCalls = FALSE, TaskInv, [Next]_vars
    PROVE  TaskInv'
<1>1. CASE UNCHANGED vars
  BY <1>1 DEF vars, TaskInv, CpusOK, OnCpu
<1>2. ASSUME NEW c \in Cpus, Exit(c)
      PROVE  TaskInv'
  BY <1>2, CallerExits DEF Exit
<1>3. ASSUME NEW c \in Cpus, WaitAgain(c)
      PROVE  TaskInv'
  <2>1. thr[cpu[c]] \in ThreadRecs
    BY <1>3, Caller DEF WaitAgain
  <2>2. thr[cpu[c]].want \in 0 .. MaxPid
    BY <1>3, <2>1, TaskAssumption DEF WaitAgain, ThreadRecs, NoCall
  <2> QED BY <1>3, <2>2, WaitStep DEF WaitAgain
<1>4. ASSUME NEW c \in Cpus, NEW w \in Pids \cup {AnyChild}, WaitPid(c, w)
      PROVE  TaskInv'
  <2>1. w \in 0 .. MaxPid
    BY TaskAssumption DEF Pids, AnyChild
  <2> QED BY <1>4, <2>1, WaitStep DEF WaitPid, Calling
<1>5. CASE ReapStart \/ ReapDeadThreads \/ ReapZombies \/ ReapEnd
  BY <1>5, ReapStep
<1>6. ASSUME NEW c \in Cpus,
             \/ ThreadExit(c) \/ ThreadCreate(c) \/ CloneThread(c)
             \/ Spawn(c) \/ SpawnFails(c) \/ Yield(c) \/ Tick(c)
      PROVE  TaskInv'
  BY <1>6, ThreadExitStep, CreateStep, SpawnStep, SpawnFailsStep, YieldStep
<1>7. ASSUME NEW c \in Cpus, NEW s \in ProcSlots, Kill(c, s)
      PROVE  TaskInv'
  BY <1>7, KillStep
<1>8. ASSUME NEW c \in Cpus, NEW t \in ThreadSlots, Dispatch(c, t)
      PROVE  TaskInv'
  BY <1>8, DispatchStep
<1> QED BY <1>1, <1>2, <1>3, <1>4, <1>5, <1>6, <1>7, <1>8 DEF Next

LEMMA TaskAlways ==
    ASSUME LateCalls = FALSE
    PROVE  Spec => []TaskInv
BY TaskInit, TaskStep, PTL DEF Spec

\* process_exit() is final: no thread of a process on the zombie list is ever
\* ready, running or blocked again, however many CPUs run its threads and
\* whoever ends it.
THEOREM ExitIsFinal ==
    ASSUME LateCalls = FALSE
    PROVE  Spec => []ExitedIsOver
<1>1. ASSUME TaskInv
      PROVE  ExitedIsOver
  <2> SUFFICES ASSUME NEW s \in OnZombieList(proc)
               PROVE  /\ proc[s].state = "zombie"
                      /\ \A t \in ThreadSlots :
                            thr[t].pid = proc[s].pid => thr[t].state = "zombie"
    BY DEF ExitedIsOver
  <2>1. s \in ProcSlots /\ proc[s].links > 0
    BY DEF OnZombieList
  <2>2. proc[s].state = "zombie"
    <3> SUFFICES ASSUME proc[s].state # "zombie" PROVE FALSE
      OBVIOUS
    <3>1. proc[s].links = 0
      BY <1>1, <2>1 DEF TaskInv, Tables, ProcsOK
    <3> QED BY <2>1, <3>1
  <2>3. ASSUME NEW t \in ThreadSlots, thr[t].pid = proc[s].pid
        PROVE  thr[t].state = "zombie"
    <3>1. ~IsLive(proc, thr[t].pid)
      BY <1>1, <2>1, <2>2, <2>3 DEF IsLive, TaskInv, Tables, ProcsOK
    <3>2. thr[t].state \notin Alive
      BY <1>1, <3>1 DEF TaskInv, Tables, ThreadsOK
    <3>3. thr[t].state # "unused"
      <4> SUFFICES ASSUME thr[t].state = "unused" PROVE FALSE
        OBVIOUS
      <4>1. thr[t] = FreeThread
        BY <1>1 DEF TaskInv, Tables, ThreadsOK
      <4>2. thr[t].pid = 0
        BY <4>1 DEF FreeThread
      <4>3. proc[s].pid > 0
        BY <1>1, <2>1, <2>2 DEF TaskInv, Tables, ProcsOK
      <4> QED BY <2>3, <4>2, <4>3
    <3>4. thr[t].state \in ThreadStates
      BY <1>1 DEF TaskInv, Tables, ThreadsOK, ThreadRecs
    <3> QED BY <3>2, <3>3, <3>4 DEF ThreadStates, Alive
  <2> QED BY <2>2, <2>3
<1> QED BY <1>1, TaskAlways, PTL

\* Neither process_exit() nor the reaper frees a thread slot or the page tables
\* of a thread that is on a CPU or may be dispatched.
THEOREM NothingFreedUnderFoot ==
    ASSUME LateCalls = FALSE
    PROVE  Spec => []NoFreeUnderFoot
<1>1. ASSUME TaskInv
      PROVE  NoFreeUnderFoot
  <2> SUFFICES ASSUME NEW t \in ThreadSlots,
                      t \in OnCpu \/ thr[t].state \in {"ready", "running", "waiting"}
               PROVE  thr[t].state # "unused" /\ HasDir(proc, thr[t].pid)
    BY DEF NoFreeUnderFoot, HasDir
  <2>1. CASE t \in OnCpu
    BY <1>1, <2>1 DEF TaskInv, Tables, ThreadsOK
  <2>2. CASE thr[t].state \in {"ready", "running", "waiting"}
    <3>1. IsLive(proc, thr[t].pid)
      BY <1>1, <2>2 DEF TaskInv, Tables, ThreadsOK, Alive
    <3>2. HasDir(proc, thr[t].pid)
      BY <1>1, <3>1 DEF IsLive, HasDir, TaskInv, Tables, ProcsOK
    <3> QED BY <2>2, <3>2
  <2> QED BY <2>1, <2>2
<1> QED BY <1>1, TaskAlways, PTL

\* The reaper recycles no process whose status a live parent has not collected.
THEOREM ExitStatusIsKept ==
    ASSUME LateCalls = FALSE
    PROVE  Spec => []ExitStatusKept
<1>1. TaskInv => ExitStatusKept
  BY DEF TaskInv, Tables, OwedOK, ExitStatusKept
<1> QED BY <1>1, TaskAlways, PTL

\* No thread blocked in waitpid has missed the exit it waits for.
THEOREM WaitpidMissesNoExit ==
    ASSUME LateCalls = FALSE
    PROVE  Spec => []WaiterNotMissed
<1>1. ASSUME TaskInv
      PROVE  WaiterNotMissed
  <2> SUFFICES ASSUME NEW t \in ThreadSlots, thr[t].state = "waiting",
                      NEW s \in Collectable(thr[t].pid, thr[t].want)
               PROVE  FALSE
    BY DEF WaiterNotMissed
  <2>1. /\ s \in ProcSlots /\ proc[s].state = "zombie" /\ proc[s].valid
        /\ proc[s].parent = thr[t].pid
        /\ thr[t].want # AnyChild => proc[s].pid = thr[t].want
    BY DEF Collectable, Children
  <2> QED BY <1>1, <2>1 DEF TaskInv, Tables, WaitOK
<1> QED BY <1>1, TaskAlways, PTL

-----------------------------------------------------------------------------
(* The reaper's hint.                                                      *)

\* A step that ends nothing: who is dead was dead, and was no more hidden.
Quiet ==
    /\ \A t \in ThreadSlots : thr'[t].state = "zombie" =>
          /\ thr[t].state = "zombie"
          /\ t \in OnCpu' => t \in OnCpu
          /\ IsLive(proc', thr'[t].pid) => IsLive(proc, thr[t].pid)
    /\ \A s \in OnZombieList(proc') :
          s \in OnZombieList(proc) /\ (Retained(proc, s) => Retained(proc', s))
    /\ UNCHANGED <<rpc, pending, fresh>>
    /\ incomplete => incomplete'

LEMMA QuietStep ==
    ASSUME HintInv, Quiet
    PROVE  HintInv'
<1>1. ASSUME ~DeadOnCpu(thr)
      PROVE  ~DeadOnCpu(thr)'
  BY <1>1 DEF DeadOnCpu, OnCpu, Quiet
<1>2. ASSUME ~DeadOnCpu(thr), DeadThreads(proc, thr) = {}
      PROVE  DeadThreads(proc, thr)' = {}
  <2> SUFFICES ASSUME NEW t \in DeadThreads(proc, thr)' PROVE FALSE
    OBVIOUS
  <2>1. t \in ThreadSlots /\ thr'[t].state = "zombie" /\ IsLive(proc', thr'[t].pid)
    BY DEF DeadThreads
  <2>2. thr[t].state = "zombie" /\ IsLive(proc, thr[t].pid)
    BY <2>1 DEF Quiet
  <2>3. t \notin OnCpu
    BY <1>2, <2>2 DEF DeadOnCpu
  <2> QED BY <1>2, <2>1, <2>2, <2>3 DEF DeadThreads
<1>3. ASSUME \A s \in OnZombieList(proc) : Retained(proc, s)
      PROVE  \A s \in OnZombieList(proc') : Retained(proc', s)
  BY <1>3 DEF Quiet
<1>4. /\ rpc' = rpc /\ pending' = pending /\ fresh' = fresh /\ (incomplete => incomplete')
  BY DEF Quiet
<1>5. ASSUME rpc' = "off", ~pending'
      PROVE  ~DeadOnCpu(thr)' /\ ~Reapable'
  <2>1. ~DeadOnCpu(thr) /\ DeadThreads(proc, thr) = {}
        /\ \A s \in OnZombieList(proc) : Retained(proc, s)
    BY <1>4, <1>5 DEF HintInv, Reapable
  <2>2. ~DeadOnCpu(thr)' /\ DeadThreads(proc, thr)' = {}
        /\ \A s \in OnZombieList(proc') : Retained(proc', s)
    BY <1>1, <1>2, <1>3, <2>1
  <2> QED BY <2>2 DEF Reapable
<1>6. ASSUME rpc' \in {"zombies", "end"}, ~fresh', ~incomplete'
      PROVE  ~DeadOnCpu(thr)' /\ DeadThreads(proc, thr)' = {}
  BY <1>1, <1>2, <1>4, <1>6 DEF HintInv
<1>7. ASSUME rpc' = "end", ~fresh', ~incomplete'
      PROVE  \A s \in OnZombieList(proc') : Retained(proc', s)
  BY <1>3, <1>4, <1>7 DEF HintInv
<1> QED BY <1>5, <1>6, <1>7 DEF HintInv

\* task_reap_note() is all a step needs to do that ends something.
LEMMA NoteStep ==
    ASSUME Note
    PROVE  HintInv'
BY DEF Note, HintInv

LEMMA HintReap ==
    ASSUME TaskInv, HintInv, ReapStart \/ ReapDeadThreads \/ ReapZombies \/ ReapEnd
    PROVE  HintInv'
<1>0. UNCHANGED cpu /\ OnCpu' = OnCpu
  BY DEF ReapStart, ReapDeadThreads, ReapZombies, ReapEnd, OnCpu
<1>1. FreeThread.state = "unused" /\ FreeProc.state = "unused" /\ FreeProc.links = 0
  BY DEF FreeThread, FreeProc
<1>2. CASE ReapStart
  BY <1>2 DEF ReapStart, HintInv
<1>3. CASE ReapDeadThreads
  <2>1. \A t \in ThreadSlots : thr'[t] = IF t \in DeadThreads(proc, thr) THEN FreeThread ELSE thr[t]
    BY <1>3 DEF ReapDeadThreads, ReapedThreads
  <2>2. rpc' = "zombies" /\ proc' = proc /\ (~incomplete' => ~DeadOnCpu(thr))
    BY <1>3 DEF ReapDeadThreads
  <2>3. ASSUME ~incomplete' PROVE ~DeadOnCpu(thr)'
    BY <1>0, <1>1, <2>1, <2>2, <2>3 DEF DeadOnCpu, OnCpu
  <2>4. DeadThreads(proc, thr)' = {}
    BY <1>0, <1>1, <2>1, <2>2 DEF DeadThreads
  <2> QED BY <2>2, <2>3, <2>4 DEF HintInv
<1>4. CASE ReapZombies
  <2>1. \A t \in ThreadSlots : thr'[t] = thr[t] \/ thr'[t] = FreeThread
    BY <1>4 DEF ReapZombies, ZombieThreadsFreed
  <2>2. /\ rpc' = "end" /\ rpc = "zombies" /\ fresh' = fresh
        /\ ~incomplete' => /\ ~incomplete
                           /\ \A s \in OnZombieList(proc) : ~Deferred(proc, thr, s)
    BY <1>4 DEF ReapZombies
  <2>3. \A s \in ProcSlots :
           /\ s \notin OnZombieList(proc) => proc'[s] = proc[s]
           /\ s \in OnZombieList(proc) /\ Deferred(proc, thr, s) => proc'[s] = proc[s]
           /\ s \in OnZombieList(proc) /\ ~Deferred(proc, thr, s) /\ Retained(proc, s) =>
                 proc'[s] = [proc[s] EXCEPT !.dir = FALSE]
           /\ s \in OnZombieList(proc) /\ ~Deferred(proc, thr, s) /\ ~Retained(proc, s) =>
                 proc'[s] = FreeProc
    BY <1>4 DEF ReapZombies, ZombiesReaped
  <2>4. ASSUME NEW s \in ProcSlots
        PROVE  /\ proc'[s].state = "live" => proc'[s] = proc[s]
               /\ proc[s].state = "live" => proc'[s] = proc[s]
    <3>1. proc[s] \in ProcRecs
      BY DEF TaskInv, Tables, ProcsOK
    <3>2. s \in OnZombieList(proc) => proc[s].state = "zombie"
      <4> SUFFICES ASSUME proc[s].links > 0, proc[s].state # "zombie" PROVE FALSE
        BY DEF OnZombieList
      <4>1. proc[s].links = 0
        BY DEF TaskInv, Tables, ProcsOK
      <4> QED BY <4>1
    <3>3. CASE s \in OnZombieList(proc) /\ ~Deferred(proc, thr, s) /\ Retained(proc, s)
      <4>1. proc'[s].state = proc[s].state
        BY <2>3, <3>1, <3>3 DEF ProcRecs
      <4> QED BY <3>2, <3>3, <4>1
    <3> QED BY <1>1, <2>3, <3>2, <3>3
  <2>5. \A pid : IsLive(proc', pid) <=> IsLive(proc, pid)
    BY <2>4 DEF IsLive
  <2>6. ASSUME ~fresh', ~incomplete'
        PROVE  ~DeadOnCpu(thr)' /\ DeadThreads(proc, thr)' = {}
    <3>1. ~DeadOnCpu(thr) /\ DeadThreads(proc, thr) = {}
      BY <2>2, <2>6 DEF HintInv
    <3>2. ~DeadOnCpu(thr)'
      BY <1>0, <1>1, <2>1, <3>1 DEF DeadOnCpu, OnCpu
    <3>3. DeadThreads(proc, thr)' = {}
      BY <1>0, <1>1, <2>1, <2>5, <3>1 DEF DeadThreads
    <3> QED BY <3>2, <3>3
  <2>7. ASSUME ~incomplete', NEW s \in OnZombieList(proc')
        PROVE  Retained(proc', s)
    <3>1. s \in ProcSlots /\ proc'[s].links > 0
      BY DEF OnZombieList
    <3>2. s \in OnZombieList(proc)
      BY <2>3, <3>1 DEF OnZombieList
    <3>3. ~Deferred(proc, thr, s)
      BY <2>2, <2>7, <3>2
    <3>4. Retained(proc, s)
      <4> SUFFICES ASSUME ~Retained(proc, s) PROVE FALSE
        OBVIOUS
      <4>1. proc'[s].links = 0
        BY <1>1, <2>3, <3>1, <3>2, <3>3
      <4> QED BY <3>1, <4>1
    <3>5. proc[s] \in ProcRecs
      BY <3>1 DEF TaskInv, Tables, ProcsOK
    <3>6. proc'[s].valid = proc[s].valid /\ proc'[s].parent = proc[s].parent
      BY <2>3, <3>1, <3>2, <3>3, <3>4, <3>5 DEF ProcRecs
    <3> QED BY <2>5, <3>4, <3>6 DEF Retained
  <2> QED BY <2>2, <2>6, <2>7 DEF HintInv
<1>5. CASE ReapEnd
  <2>1. /\ rpc = "end" /\ rpc' = "off" /\ proc' = proc /\ thr' = thr
        /\ ~pending' => ~incomplete /\ ~fresh
    BY <1>5 DEF ReapEnd
  <2>2. ASSUME ~pending'
        PROVE  ~DeadOnCpu(thr)' /\ ~Reapable'
    BY <1>0, <2>1, <2>2 DEF HintInv, DeadOnCpu, Reapable, DeadThreads, OnCpu
  <2> QED BY <2>1, <2>2 DEF HintInv
<1> QED BY <1>2, <1>3, <1>4, <1>5

\* One thread changes, into one that is not dead or was already, and no process.
LEMMA OneThreadQuiet ==
    ASSUME TaskInv, NEW t \in ThreadSlots, NEW r, thr' = [thr EXCEPT ![t] = r],
           r.state = "zombie" => thr[t].state = "zombie" /\ r.pid = thr[t].pid,
           UNCHANGED <<proc, rpc, pending, fresh, incomplete>>,
           \A u \in OnCpu' : u \in OnCpu \/ (r.state # "zombie" /\ u = t)
    PROVE  Quiet
<1>1. thr \in [ThreadSlots -> ThreadRecs]
  BY DEF TaskInv, Tables, ThreadsOK
<1>2. thr'[t] = r /\ \A u \in ThreadSlots \ {t} : thr'[u] = thr[u]
  BY <1>1
<1> QED BY <1>2 DEF Quiet

LEMMA CreateQuiet ==
    ASSUME LateCalls = FALSE, TaskInv, NEW c \in Cpus, ThreadCreate(c) \/ CloneThread(c)
    PROVE  Quiet
<1>1. PICK T : T \in {thr, ReapedThreads(proc, thr)} /\ CreateIn(c, T)
  BY DEF ThreadCreate, CloneThread
<1>2. /\ UNCHANGED <<proc, cpu, rpc, pending, fresh>> /\ (incomplete => incomplete')
      /\ thr' = [T EXCEPT ![Min(FreeThreads(T))] = NewThread(PidOf(c))]
  <2>1. /\ UNCHANGED <<proc, cpu>>
        /\ thr' = [T EXCEPT ![Min(FreeThreads(T))] = NewThread(PidOf(c))]
    BY <1>1 DEF CreateIn
  <2>2. UNCHANGED <<rpc, pending, fresh>> /\ (incomplete => incomplete')
    <3>1. CASE ThreadCreate(c)
      BY <3>1 DEF ThreadCreate, UnchangedReaper
    <3>2. CASE CloneThread(c)
      <4>1. UNCHANGED <<rpc, pending, fresh>> /\ incomplete' = (incomplete \/ DeadOnCpu(thr))
        BY <3>2 DEF CloneThread
      <4> QED BY <4>1
    <3> QED BY <3>1, <3>2
  <2> QED BY <2>1, <2>2
<1>3. FreeThread.state = "unused"
  BY DEF FreeThread
<1>4. NewThread(PidOf(c)).state = "ready"
  BY DEF NewThread, FreeThread
<1>5. thr \in [ThreadSlots -> ThreadRecs]
  BY DEF TaskInv, Tables, ThreadsOK
<1>6. /\ \A t \in ThreadSlots : T[t] = thr[t] \/ T[t] = FreeThread
      /\ T = [t \in ThreadSlots |-> T[t]]
  BY <1>1, <1>5 DEF ReapedThreads
<1>7. \A t \in ThreadSlots : thr'[t] = T[t] \/ thr'[t] = NewThread(PidOf(c))
  BY <1>2, <1>6
<1>8. \A t \in ThreadSlots : thr'[t].state = "zombie" => thr'[t] = thr[t]
  BY <1>3, <1>4, <1>6, <1>7
<1>9. OnCpu' = OnCpu
  BY <1>2 DEF OnCpu
<1> QED BY <1>2, <1>8, <1>9 DEF Quiet

LEMMA SpawnQuiet ==
    ASSUME LateCalls = FALSE, TaskInv, NEW c \in Cpus, Spawn(c)
    PROVE  Quiet
<1> DEFINE s == Min(FreeProcs)
           new == NewProc(nextPid, PidOf(c))
           kid == NewThread(nextPid)
<1>1. s \in ProcSlots /\ proc[s].state = "unused"
  BY Slots DEF Spawn
<1>2. new.state = "live" /\ new.pid = nextPid /\ new.links = 0
  BY DEF NewProc, FreeProc
<1>3. kid.state = "ready"
  BY DEF NewThread, FreeThread
<1>4. /\ proc' = [proc EXCEPT ![s] = new]
      /\ thr' = [thr EXCEPT ![Min(FreeThreads(thr))] = kid]
      /\ UNCHANGED <<cpu, rpc, pending, fresh, incomplete>>
  BY DEF Spawn, UnchangedReaper
<1> HIDE DEF s, new, kid
<1>5. proc \in [ProcSlots -> ProcRecs] /\ thr \in [ThreadSlots -> ThreadRecs]
  BY DEF TaskInv, Tables, ProcsOK, ThreadsOK
<1>6. proc'[s] = new /\ \A q \in ProcSlots \ {s} : proc'[q] = proc[q]
  BY <1>1, <1>4, <1>5
<1>7. \A t \in ThreadSlots : thr'[t] = thr[t] \/ thr'[t] = kid
  BY <1>4, <1>5
<1>8. \A t \in ThreadSlots : thr'[t].state = "zombie" => thr'[t] = thr[t]
  BY <1>3, <1>7
<1>9. ASSUME NEW t \in ThreadSlots, thr[t].state = "zombie"
      PROVE  thr[t].pid # nextPid
  <2>1. PICK q \in ProcSlots : proc[q].state # "unused" /\ proc[q].pid = thr[t].pid
    BY <1>9 DEF TaskInv, Tables, ThreadsOK, Known
  <2>2. proc[q].pid < nextPid /\ proc[q].pid \in Nat /\ nextPid \in Nat
    BY <2>1, TaskAssumption DEF TaskInv, Tables, ProcsOK, ProcRecs
  <2> QED BY <2>1, <2>2
<1>10. \A pid : IsLive(proc', pid) => IsLive(proc, pid) \/ pid = nextPid
  BY <1>2, <1>6 DEF IsLive
<1>11. \A pid : IsLive(proc, pid) => IsLive(proc', pid)
  BY <1>1, <1>6 DEF IsLive
<1>12. ASSUME NEW q \in OnZombieList(proc')
       PROVE  q \in OnZombieList(proc) /\ (Retained(proc, q) => Retained(proc', q))
  <2>1. q \in ProcSlots /\ proc'[q].links > 0
    BY DEF OnZombieList
  <2>2. q # s
    <3> SUFFICES ASSUME q = s PROVE FALSE
      OBVIOUS
    <3>1. proc'[q].links = 0
      BY <1>2, <1>6
    <3> QED BY <2>1, <3>1
  <2>3. proc'[q] = proc[q]
    BY <1>6, <2>1, <2>2
  <2> QED BY <1>11, <2>1, <2>3 DEF OnZombieList, Retained
<1>13. OnCpu' = OnCpu
  BY <1>4 DEF OnCpu
<1> QED BY <1>4, <1>8, <1>9, <1>10, <1>12, <1>13 DEF Quiet

LEMMA WaitHint ==
    ASSUME LateCalls = FALSE, TaskInv, HintInv, NEW c \in Cpus, cpu[c] # Idle,
           thr[cpu[c]].state = "running" \/ LateCalls, NEW w, WaitPass(c, w)
    PROVE  HintInv'
<1> DEFINE t == cpu[c]
<1>1. t \in ThreadSlots /\ t \in OnCpu /\ thr[t] \in ThreadRecs /\ thr[t].state = "running"
  BY Caller
<1>2. CASE Collectable(PidOf(c), w) # {}
  BY <1>2, NoteStep DEF WaitPass
<1>3. CASE Collectable(PidOf(c), w) = {}
  <2>1. /\ UNCHANGED <<proc, rpc, pending, fresh, incomplete>>
        /\ \/ /\ thr' = [thr EXCEPT ![t] = [thr[t] EXCEPT !.state = "waiting", !.want = w]]
              /\ LeaveCpu(c)
           \/ /\ thr' = [thr EXCEPT ![t] = [thr[t] EXCEPT !.want = NoCall]]
              /\ UNCHANGED cpu
    BY <1>3 DEF WaitPass
  <2>2. OnCpu' \subseteq OnCpu
    <3>1. LeaveCpu(c) => OnCpu' \subseteq OnCpu
      BY LeavesCpu DEF TaskInv
    <3> QED BY <2>1, <3>1 DEF OnCpu
  <2> HIDE DEF t
  <2>3. PICK r : thr' = [thr EXCEPT ![t] = r] /\ r.state # "zombie"
    <3>1. [thr[t] EXCEPT !.state = "waiting", !.want = w].state = "waiting"
      BY <1>1 DEF ThreadRecs
    <3>2. [thr[t] EXCEPT !.want = NoCall].state = "running"
      BY <1>1 DEF ThreadRecs
    <3> QED BY <2>1, <3>1, <3>2
  <2>4. \A u \in OnCpu' : u \in OnCpu \/ (r.state # "zombie" /\ u = t)
    BY <2>2
  <2>5. UNCHANGED <<proc, rpc, pending, fresh, incomplete>>
    BY <2>1
  <2>6. Quiet
    BY <1>1, <2>3, <2>4, <2>5, OneThreadQuiet
  <2> QED BY <2>6, QuietStep
<1> QED BY <1>2, <1>3

LEMMA YieldQuiet ==
    ASSUME LateCalls = FALSE, TaskInv, NEW c \in Cpus, Yield(c) \/ Tick(c)
    PROVE  Quiet
<1> DEFINE t == cpu[c]
<1>1. t \in ThreadSlots /\ OnCpu' \subseteq OnCpu
  BY LeavesCpu DEF TaskInv, Yield, Tick, Calling
<1>2. thr[t] \in ThreadRecs
  BY <1>1 DEF TaskInv, Tables, ThreadsOK
<1>3. UNCHANGED <<proc, rpc, pending, fresh, incomplete>>
  BY DEF Yield, Tick, UnchangedReaper
<1>4. PICK st \in {"ready", thr[t].state} : thr' = [thr EXCEPT ![t] = [thr[t] EXCEPT !.state = st]]
  BY DEF Yield, Tick
<1> HIDE DEF t
<1>5. [thr[t] EXCEPT !.state = st].state = st /\ [thr[t] EXCEPT !.state = st].pid = thr[t].pid
  BY <1>2 DEF ThreadRecs
<1>6. PICK r : /\ thr' = [thr EXCEPT ![t] = r] /\ r.pid = thr[t].pid
               /\ r.state \in {"ready", thr[t].state}
  BY <1>4, <1>5
<1>7. \A u \in OnCpu' : u \in OnCpu \/ (r.state # "zombie" /\ u = t)
  BY <1>1
<1>8. r.state = "zombie" => thr[t].state = "zombie" /\ r.pid = thr[t].pid
  BY <1>6
<1> QED BY <1>1, <1>3, <1>6, <1>7, <1>8, OneThreadQuiet

LEMMA DispatchQuiet ==
    ASSUME TaskInv, NEW c \in Cpus, NEW t \in ThreadSlots, Dispatch(c, t)
    PROVE  Quiet
<1>1. /\ thr[t] \in ThreadRecs /\ IsLive(proc, thr[t].pid)
      /\ proc \in [ProcSlots -> ProcRecs] /\ cpu \in [Cpus -> ThreadSlots \cup {Idle}]
  BY DEF Dispatch, TaskInv, Tables, ProcsOK, ThreadsOK, Alive, CpusOK
<1>2. PICK s \in ProcSlots : proc[s].state = "live" /\ proc[s].pid = thr[t].pid
  BY <1>1 DEF IsLive
<1>3. SlotOf(thr[t].pid) = s
  BY <1>2 DEF SlotOf, TaskInv, Tables, ProcsOK
<1>4. proc' = proc
  BY <1>1, <1>2, <1>3 DEF Dispatch, ProcRecs
<1>5. \A u \in OnCpu' : u \in OnCpu \/ u = t
  BY <1>1 DEF Dispatch, OnCpu
<1>6. UNCHANGED <<rpc, pending, fresh, incomplete>>
  BY DEF Dispatch, UnchangedReaper
<1>7. [thr[t] EXCEPT !.state = "running"].state = "running"
  BY <1>1 DEF ThreadRecs
<1>8. PICK r : thr' = [thr EXCEPT ![t] = r] /\ r.state = "running"
  BY <1>7 DEF Dispatch
<1>9. \A u \in OnCpu' : u \in OnCpu \/ (r.state # "zombie" /\ u = t)
  BY <1>5, <1>8
<1>10. UNCHANGED <<proc, rpc, pending, fresh, incomplete>>
  BY <1>4, <1>6
<1> QED BY <1>8, <1>9, <1>10, OneThreadQuiet

LEMMA HintStep ==
    ASSUME LateCalls = FALSE, TaskInv, HintInv, [Next]_vars
    PROVE  HintInv'
<1>1. CASE UNCHANGED vars
  BY <1>1 DEF vars, HintInv, DeadOnCpu, Reapable, DeadThreads, OnCpu
<1>2. ASSUME NEW c \in Cpus, Exit(c) \/ SpawnFails(c)
      PROVE  HintInv'
  BY <1>2, NoteStep DEF Exit, SpawnFails, ProcessExit
<1>3. ASSUME NEW c \in Cpus, ThreadExit(c)
      PROVE  HintInv'
  BY <1>3, NoteStep DEF ThreadExit, ProcessExit
<1>4. ASSUME NEW c \in Cpus, NEW s \in ProcSlots, Kill(c, s)
      PROVE  HintInv'
  BY <1>4, NoteStep DEF Kill, ProcessExit
<1>5. ASSUME NEW c \in Cpus, ThreadCreate(c) \/ CloneThread(c) \/ Spawn(c) \/ Yield(c) \/ Tick(c)
      PROVE  HintInv'
  BY <1>5, CreateQuiet, SpawnQuiet, YieldQuiet, QuietStep
<1>6. ASSUME NEW c \in Cpus, NEW t \in ThreadSlots, Dispatch(c, t)
      PROVE  HintInv'
  BY <1>6, DispatchQuiet, QuietStep
<1>7. ASSUME NEW c \in Cpus, WaitAgain(c)
      PROVE  HintInv'
  BY <1>7, WaitHint DEF WaitAgain
<1>8. ASSUME NEW c \in Cpus, NEW w, WaitPid(c, w)
      PROVE  HintInv'
  BY <1>8, WaitHint DEF WaitPid, Calling
<1>9. CASE ReapStart \/ ReapDeadThreads \/ ReapZombies \/ ReapEnd
  BY <1>9, HintReap
<1> QED BY <1>1, <1>2, <1>3, <1>4, <1>5, <1>6, <1>7, <1>8, <1>9 DEF Next

LEMMA HintInit ==
    Init => HintInv
<1> SUFFICES ASSUME Init PROVE HintInv
  OBVIOUS
<1>1. FreeProc.links = 0 /\ FreeThread.state = "unused"
  BY DEF FreeProc, FreeThread
<1>2. NewProc(1, 0).links = 0
  BY DEF NewProc, FreeProc
<1>3. [NewThread(1) EXCEPT !.state = "running"].state = "running"
  BY DEF NewThread, FreeThread
<1>4. \A t \in ThreadSlots : thr[t].state # "zombie"
  BY <1>1, <1>3 DEF Init
<1>5. \A s \in ProcSlots : proc[s].links = 0
  BY <1>1, <1>2 DEF Init
<1>6. OnZombieList(proc) = {}
  <2> SUFFICES ASSUME NEW s \in ProcSlots, proc[s].links > 0 PROVE FALSE
    BY DEF OnZombieList
  <2>1. proc[s].links = 0
    BY <1>5
  <2> QED BY <2>1
<1>7. ~DeadOnCpu(thr) /\ DeadThreads(proc, thr) = {}
  BY <1>4 DEF DeadOnCpu, DeadThreads, OnCpu
<1>8. rpc = "off"
  BY DEF Init
<1> QED BY <1>6, <1>7, <1>8 DEF HintInv, Reapable

\* The reaper's hint is never lost: when the reaper is off and g_reap_hint equals
\* g_reap_done there is nothing to free, whatever ended, or was collected, while
\* it was between its two locked sections.
THEOREM ReapHintIsNotLost ==
    ASSUME LateCalls = FALSE
    PROVE  Spec => []ReapHintCovers
<1>1. HintInv => ReapHintCovers
  BY DEF HintInv, ReapHintCovers
<1>2. Init => HintInv
  BY HintInit
<1>3. TaskInv /\ HintInv /\ [Next]_vars => HintInv'
  BY HintStep
<1> QED BY <1>1, <1>2, <1>3, TaskAlways, PTL DEF Spec
================================================================================
