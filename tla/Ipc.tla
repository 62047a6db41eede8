---------------------------------- MODULE Ipc ----------------------------------
(***************************************************************************)
(* Mailboxes and shared memory between processes (src/src/kernel/ipc.c).   *)
(*                                                                         *)
(* A call runs under the kernel lock and gives it up only where it blocks  *)
(* (sem_wait) or sleeps (the poll of a receive with a timeout), so the     *)
(* mutexes of the mailbox table, of a mailbox and of the regions are never *)
(* contended and a call is one step up to there.  A thread that has come   *)
(* back re-reads the semaphore, not the table: it keeps the mailbox that   *)
(* it entered, by a reference.                                             *)
(*                                                                         *)
(* The process table gives a slot to each process; slots are used again,   *)
(* pids are not.  A test of permission only refuses calls, and is left     *)
(* out.                                                                    *)
(***************************************************************************)
EXTENDS Queues, FiniteSets

CONSTANTS Slots,            \* process_table, 1 .. MAX_TASKS
          Threads, SlotOf,  \* the threads that the process in a slot has
          Boxes,            \* mailboxes that kmalloc() can give
          Regions,          \* shm_regions
          Messages,
          MaxPid,           \* bound on the pids handed out
          IPC_QUEUE_SIZE,
          RetirePosts,      \* 8, in mailbox_retire_locked()
          SHM_MAX_ATTACH,
          MaxOwned,         \* 4 regions per owner
          NoBox

ASSUME IpcAssumption ==
    /\ SlotOf \in [Threads -> Slots]
    /\ IsFiniteSet(Slots) /\ IsFiniteSet(Threads)
    /\ Regions \subseteq Nat
    /\ MaxPid \in Nat /\ IPC_QUEUE_SIZE \in Nat \ {0}
    /\ RetirePosts \in Nat /\ SHM_MAX_ATTACH \in Nat \ {0} /\ MaxOwned \in Nat
    /\ NoBox \notin Boxes

VARIABLES state,    \* process_t.state of a slot: "unused", "alive" or "zombie"
          pid,      \* process_t.pid
          nextPid,
          table,    \* mailboxes[]
          box,      \* mailbox_t
          at,       \* a thread: "user", "blocked" in the semaphore's queue,
                    \* "woken", "sleeping" in its poll, "lingering" in user mode
                    \* on another CPU after its process has ended, "dead"
          inside,   \* the mailbox that a thread has a reference to
          region,   \* shm_region_t
          maps,     \* regions in the page table of a slot's process
          due       \* history: messages accepted for a slot's process and
                    \* not received

procVars == <<state, pid, nextPid>>
boxVars  == <<table, box, inside, due>>
shmVars  == <<region, maps>>
vars == <<procVars, boxVars, at, shmVars>>

Free == [held |-> FALSE, owner |-> 0, dead |-> FALSE, refs |-> 0, q |-> <<>>, items |-> 0, waiters |-> <<>>]
New(p) == [Free EXCEPT !.held = TRUE, !.owner = p]
Unused == [used |-> FALSE, owner |-> 0, attached |-> {}]

Init ==
    /\ state = [s \in Slots |-> "unused"]
    /\ pid = [s \in Slots |-> 0]
    /\ nextPid = 1
    /\ table = [s \in Slots |-> NoBox]
    /\ box = [b \in Boxes |-> Free]
    /\ at = [t \in Threads |-> "dead"]
    /\ inside = [t \in Threads |-> NoBox]
    /\ region = [r \in Regions |-> Unused]
    /\ maps = [s \in Slots |-> {}]
    /\ due = [s \in Slots |-> <<>>]

-----------------------------------------------------------------------------
(* The semaphore of a mailbox and its references.                          *)

\* Threads that a woken set W leaves in state "woken".
Wake(W) == [t \in Threads |-> IF t \in W THEN "woken" ELSE at[t]]

\* Bug: only the post that makes the count 1 wakes a waiter.
PostWakesAtZero(m) == IF m.items = 0 /\ m.waiters # <<>> THEN {Head(m.waiters)} ELSE {}

\* sem_post(): the count, and the waiter that wait_queue_wake_one() takes.
PostWakes(m) == IF m.waiters # <<>> THEN {Head(m.waiters)} ELSE {}

Posted(m) == [m EXCEPT !.items = @ + 1,
                       !.waiters = Without(@, PostWakes(m))]

FirstOf(q, n) == {q[i] : i \in {i \in DOMAIN q : i <= n}}

\* mailbox_retire_locked(): freed at once, or by the last who is inside.
Retired(m) ==
    IF m.refs = 0 THEN Free
    ELSE [m EXCEPT !.dead = TRUE, !.items = @ + RetirePosts,
                   !.waiters = SubSeq(@, RetirePosts + 1, Len(@))]
RetireWakes(m) == FirstOf(m.waiters, RetirePosts)

\* Bug: whoever leaves as the last one frees the mailbox.
PutFrees(m) == IF m.refs = 1 THEN Free ELSE [m EXCEPT !.refs = @ - 1]

\* mailbox_put()
Put(m) == IF m.refs = 1 /\ m.dead THEN Free ELSE [m EXCEPT !.refs = @ - 1]

-----------------------------------------------------------------------------
(* mailbox_get_or_create().                                                *)

\* Bug: the key is the pid modulo the size of the table.
SlotsOfModulo(p) ==
    LET n == Cardinality(Slots)
        known == \E u \in Slots : state[u] # "unused" /\ pid[u] = p
    IN  {s \in Slots : known /\ s % n = p % n}

\* process_get_slot_index(): the slot of a process that has not been reaped.
SlotsOf(p) == {s \in Slots : state[s] # "unused" /\ pid[s] = p}

\* The mailbox in slot s belongs to a process that had the slot before.
Stale(s, p) == table[s] # NoBox /\ box[table[s]].owner # p

Usable(s, p) == table[s] # NoBox /\ box[table[s]].owner = p

\* The mailboxes after the stale one has gone.
Boxes0(s, p) == IF Stale(s, p) THEN [box EXCEPT ![table[s]] = Retired(@)] ELSE box
Wakes0(s, p) == IF Stale(s, p) THEN RetireWakes(box[table[s]]) ELSE {}

\* b is the mailbox that the call gets for process p in slot s: the one in the
\* table, or one that kmalloc() gives.
Gets(s, p, b) ==
    IF Usable(s, p) THEN b = table[s]
    ELSE b \in Boxes /\ ~Boxes0(s, p)[b].held

\* The mailboxes with b created if it had to be, not counting the caller.
Boxes1(s, p, b) == IF Usable(s, p) THEN box ELSE [Boxes0(s, p) EXCEPT ![b] = New(p)]

\* kmalloc() gives none: the stale mailbox has gone all the same.
NoMemory(s, p) ==
    /\ ~Usable(s, p)
    /\ \A b \in Boxes : Boxes0(s, p)[b].held
    /\ box' = Boxes0(s, p)
    /\ table' = [table EXCEPT ![s] = NoBox]
    /\ at' = Wake(Wakes0(s, p))
    /\ UNCHANGED <<procVars, inside, due, shmVars>>

-----------------------------------------------------------------------------
(* ipc_send(), ipc_respond() and ipc_notify() differ in the message alone. *)

Full(m) == Len(m.q) >= IPC_QUEUE_SIZE

Send(t, p, msg) ==
    /\ at[t] = "user"
    /\ \E s \in SlotsOf(p) :
        \/ NoMemory(s, p)
        \/ \E b \in Boxes :
            LET m == Boxes1(s, p, b)[b]
            IN  /\ Gets(s, p, b)
                /\ table' = [table EXCEPT ![s] = b]
                /\ IF Full(m)
                   THEN /\ box' = Boxes1(s, p, b)
                        /\ at' = Wake(Wakes0(s, p))
                        /\ UNCHANGED due
                   ELSE /\ box' = [Boxes1(s, p, b) EXCEPT ![b] = Posted([m EXCEPT !.q = Append(@, msg)])]
                        /\ at' = Wake(Wakes0(s, p) \cup PostWakes(m))
                        /\ due' = [u \in Slots |-> IF state[u] = "alive" /\ pid[u] = p
                                                   THEN Append(due[u], msg) ELSE due[u]]
                /\ UNCHANGED <<procVars, inside, shmVars>>

-----------------------------------------------------------------------------
(* ipc_receive().                                                          *)

\* The caller t leaves the mailbox b of B with a token: with the first message,
\* or with none when the token came from the end of the mailbox.
Takes(t, B, b) ==
    LET m == [B[b] EXCEPT !.items = @ - 1, !.q = IF @ = <<>> THEN @ ELSE Tail(@)]
    IN  /\ B[b].items > 0
        /\ box' = [B EXCEPT ![b] = Put(m)]
        /\ inside' = [inside EXCEPT ![t] = NoBox]
        /\ due' = [due EXCEPT ![SlotOf[t]] = IF B[b].q = <<>> \/ @ = <<>> THEN @ ELSE Tail(@)]

\* It blocks in sem_wait() ...
Blocks(t, B, b) ==
    /\ B[b].items = 0
    /\ box' = [B EXCEPT ![b].waiters = Append(@, t)]
    /\ inside' = [inside EXCEPT ![t] = b]
    /\ UNCHANGED due

\* ... or sleeps a millisecond and will look again.
Sleeps(t, B, b) ==
    /\ B[b].items = 0
    /\ box' = B
    /\ inside' = [inside EXCEPT ![t] = b]
    /\ UNCHANGED due

\* Its deadline has passed.
TimesOut(t, B, b) ==
    /\ B[b].items = 0
    /\ box' = [B EXCEPT ![b] = Put(@)]
    /\ inside' = [inside EXCEPT ![t] = NoBox]
    /\ UNCHANGED due

\* One look at the semaphore, W being woken on the way.
Looks(t, B, b, forever, W) ==
    \/ Takes(t, B, b) /\ at' = [Wake(W) EXCEPT ![t] = "user"]
    \/ forever /\ Blocks(t, B, b) /\ at' = [Wake(W) EXCEPT ![t] = "blocked"]
    \/ ~forever /\ Sleeps(t, B, b) /\ at' = [Wake(W) EXCEPT ![t] = "sleeping"]
    \/ ~forever /\ TimesOut(t, B, b) /\ at' = [Wake(W) EXCEPT ![t] = "user"]

Receive(t, forever) ==
    LET p == pid[SlotOf[t]]
    IN  /\ at[t] = "user"
        /\ \E s \in SlotsOf(p) :
            \/ NoMemory(s, p)
            \/ \E b \in Boxes :
                /\ Gets(s, p, b)
                /\ table' = [table EXCEPT ![s] = b]
                /\ Looks(t, [Boxes1(s, p, b) EXCEPT ![b].refs = @ + 1], b, forever, Wakes0(s, p))
                /\ UNCHANGED <<procVars, shmVars>>

\* A thread that was woken, or whose sleep is over, looks again.
ReceiveAgain(t) ==
    /\ at[t] \in {"woken", "sleeping"}
    /\ Looks(t, box, inside[t], at[t] = "woken", {})
    /\ UNCHANGED <<procVars, table, shmVars>>

-----------------------------------------------------------------------------
(* Shared memory.                                                          *)

Owned(p) == {r \in Regions : region[r].used /\ region[r].owner = p}

\* ipc_request_shared_memory(): the first free region.
ShmCreate(t) ==
    LET s == SlotOf[t]
        unused == {r \in Regions : ~region[r].used}
        r == CHOOSE r \in unused : \A q \in unused : r <= q
    IN  /\ at[t] = "user"
        /\ unused # {}
        /\ Cardinality(Owned(pid[s])) < MaxOwned
        /\ r \notin maps[s]
        /\ region' = [region EXCEPT ![r] = [used |-> TRUE, owner |-> pid[s], attached |-> {pid[s]}]]
        /\ maps' = [maps EXCEPT ![s] = @ \cup {r}]
        /\ UNCHANGED <<procVars, boxVars, at>>

\* ipc_attach_shared_memory() of a region that the process does not have.
ShmAttach(t, r) ==
    LET s == SlotOf[t]
    IN  /\ at[t] = "user"
        /\ region[r].used
        /\ pid[s] \notin region[r].attached
        /\ Cardinality(region[r].attached) < SHM_MAX_ATTACH
        /\ r \notin maps[s]
        /\ region' = [region EXCEPT ![r].attached = @ \cup {pid[s]}]
        /\ maps' = [maps EXCEPT ![s] = @ \cup {r}]
        /\ UNCHANGED <<procVars, boxVars, at>>

\* Bug: the region goes with its owner.
ShmLeftWithOwner(g, p) ==
    IF p \notin g.attached THEN g
    ELSE IF g.owner = p THEN Unused ELSE [g EXCEPT !.attached = @ \ {p}]

\* shm_release_owner(): the region, and its frames, go with the last process.
ShmLeft(g, p) ==
    IF p \notin g.attached THEN g
    ELSE IF g.attached = {p} THEN Unused ELSE [g EXCEPT !.attached = @ \ {p}]

-----------------------------------------------------------------------------
(* Processes.                                                              *)

ThreadsOf(s) == {t \in Threads : SlotOf[t] = s}

ProcessCreate(s) ==
    /\ state[s] = "unused"
    /\ nextPid <= MaxPid
    /\ state' = [state EXCEPT ![s] = "alive"]
    /\ pid' = [pid EXCEPT ![s] = nextPid]
    /\ nextPid' = nextPid + 1
    /\ at' = [t \in Threads |-> IF t \in ThreadsOf(s) THEN "user" ELSE at[t]]
    /\ UNCHANGED <<boxVars, shmVars>>

\* process_exit(), called by a thread of the process or by another one: every
\* thread leaves its queue, and may linger on its CPU if it was in user mode;
\* then ipc_release_process_resources().
ProcessExit(s, lingering) ==
    LET p == pid[s]
        gone == ThreadsOf(s)
        b == table[s]
        Quit(m) == [m EXCEPT !.waiters = Without(@, gone)]
    IN  /\ state[s] = "alive"
        /\ lingering \subseteq {t \in gone : at[t] = "user"}
        /\ state' = [state EXCEPT ![s] = "zombie"]
        /\ at' = [t \in Threads |-> IF t \in lingering THEN "lingering"
                                    ELSE IF t \in gone THEN "dead" ELSE at[t]]
        /\ IF Usable(s, p)
           THEN /\ table' = [table EXCEPT ![s] = NoBox]
                /\ box' = [box EXCEPT ![b] = Retired(Quit(@))]
           ELSE UNCHANGED <<table, box>>
        /\ region' = [r \in Regions |-> ShmLeft(region[r], p)]
        /\ due' = [due EXCEPT ![s] = <<>>]
        /\ UNCHANGED <<pid, nextPid, inside, maps>>

\* The thread's CPU takes the interrupt that process_exit() sent.
OffCpu(t) ==
    /\ at[t] = "lingering"
    /\ at' = [at EXCEPT ![t] = "dead"]
    /\ UNCHANGED <<procVars, boxVars, shmVars>>

\* task_reap_zombies(): no thread is on a CPU; the page tables and then the slot
\* are given back.
Reap(s) ==
    /\ state[s] = "zombie"
    /\ \A t \in ThreadsOf(s) : at[t] = "dead"
    /\ state' = [state EXCEPT ![s] = "unused"]
    /\ maps' = [maps EXCEPT ![s] = {}]
    /\ inside' = [t \in Threads |-> IF t \in ThreadsOf(s) THEN NoBox ELSE inside[t]]
    /\ UNCHANGED <<pid, nextPid, table, box, due, at, region>>

-----------------------------------------------------------------------------
Next ==
    \/ \E t \in Threads, p \in 1 .. MaxPid, msg \in Messages : Send(t, p, msg)
    \/ \E t \in Threads, forever \in BOOLEAN : Receive(t, forever)
    \/ \E t \in Threads : ReceiveAgain(t) \/ ShmCreate(t) \/ OffCpu(t)
    \/ \E t \in Threads, r \in Regions : ShmAttach(t, r)
    \/ \E s \in Slots, lingering \in SUBSET Threads : ProcessExit(s, lingering)
    \/ \E s \in Slots : ProcessCreate(s) \/ Reap(s)

Spec == Init /\ [][Next]_vars

-----------------------------------------------------------------------------
Alive(t) == state[SlotOf[t]] = "alive"

\* A process gets every message that was accepted for it, once and in order,
\* and none that was meant for a process that had its slot or a mailbox of its
\* own before: what is queued for it is what is due.
DeliveryInOrder ==
    \A s \in Slots : state[s] = "alive" =>
        due[s] = IF Usable(s, pid[s]) THEN box[table[s]].q ELSE <<>>

\* A blocked receiver has a reason to be: for every token of its mailbox there
\* is a woken receiver that will take it.
NoStrandedReceiver ==
    \A b \in Boxes : box[b].waiters # <<>> =>
        box[b].items <= Cardinality({t \in Threads : inside[t] = b /\ at[t] = "woken"})

\* No mailbox is freed under the feet of a thread: a mailbox in the table or
\* with a living receiver inside is allocated, the receiver's is the one that
\* senders find for its process, and its count covers all who are inside.
InsideIsHeld ==
    /\ \A s \in Slots : table[s] # NoBox => box[table[s]].held
    /\ \A t \in Threads : inside[t] # NoBox /\ Alive(t) =>
           /\ box[inside[t]].held /\ ~box[inside[t]].dead
           /\ table[SlotOf[t]] = inside[t] /\ box[inside[t]].owner = pid[SlotOf[t]]
           /\ box[inside[t]].refs = Cardinality({u \in Threads : inside[u] = inside[t]})

\* A living process has the frames of the regions in its page table, whoever
\* created them and whoever has left.
MappedIsAttached ==
    \A s \in Slots : state[s] = "alive" =>
        \A r \in maps[s] : region[r].used /\ pid[s] \in region[r].attached

================================================================================
