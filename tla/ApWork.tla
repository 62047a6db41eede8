--------------------------------- MODULE ApWork ---------------------------------
(***************************************************************************)
(* The work that the application processors do outside the scheduler: the  *)
(* per-CPU rings with work stealing, the tile scheduler that spreads a     *)
(* frame's pixels over the idle CPUs (src/src/kernel/smp.c), and the       *)
(* ring-3 compute jobs that occupy a CPU for as long as they like          *)
(* (src/src/kernel/smp_user.c).                                            *)
(*                                                                         *)
(* None of this is under the kernel lock: a step is one atomic access, or  *)
(* one section of a ring's own spin lock.  An AP runs its work with        *)
(* interrupts off, so a kill IPI stays pending until the CPU is in ring 3  *)
(* or back in its idle loop.  Everything in the rings is posted at normal  *)
(* priority, so a ring is served first in, first out.                      *)
(***************************************************************************)
EXTENDS Naturals, Sequences, FiniteSets

CONSTANTS APs,            \* the logical ids of the other CPUs, from 1
          Callers,        \* threads that call smp_parallel_tiles()
          Sets,           \* s_tile_sets
          Helpers,        \* jobs[] of a set, 1 .. SMP_TILE_HELPERS
          TileCounts,     \* the ntiles that callers ask for
          Mixes,          \* bounds on the calls and on the jobs started: one
                          \* of these pairs is not passed
          Jobs,           \* s_jobs, searched in order
          Procs,          \* processes that use compute jobs
          Capacity,       \* SMP_WORK_QUEUE_CAPACITY
          Concurrent,     \* a process may be ended while a thread of it is in
                          \* a SYS_PAR_* call
          Nobody

ASSUME ApWorkAssumption ==
    /\ APs \subseteq Nat \ {0} /\ Sets \subseteq Nat /\ Jobs \subseteq Nat
    /\ Helpers \subseteq Nat \ {0} /\ TileCounts \subseteq Nat \ {0}
    /\ Mixes \subseteq Nat \X Nat /\ Mixes # {} /\ Capacity \in Nat \ {0} /\ Concurrent \in BOOLEAN
    /\ Nobody \notin Procs /\ APs \cap Callers = {} /\ Jobs # {}
    /\ IsFiniteSet(APs) /\ IsFiniteSet(Helpers)
    /\ \A j \in Jobs : Nobody # [kind |-> "job", j |-> j]

VARIABLES ring,        \* s_work_queue, head first
          pinning,     \* s_enqueue_pinned
          pinLock,     \* the holder of the lock in smp_submit_pinned_work_to_cpu()
          cpu,         \* what an AP's idle thread is doing, and with which item
          helper,      \* smp_background_job_t.state of a set's jobs[]
          set,         \* smp_tile_set_t
          tile,        \* smp_tile_run_one(), on whichever CPU it runs
          call,        \* smp_parallel_tiles()
          begun,       \* the calls and the jobs started so far
          ran,         \* history: how often each tile of each call was run
          job,         \* s_jobs
          busy,        \* s_cpu_busy: the APs claimed for a job
          userBusy,    \* s_user_busy_mask: the APs with a job in ring 3
          kill,        \* APs with a kill IPI pending
          proc,        \* a process's thread in a SYS_PAR_* call
          exit,        \* process_exit() of a process: the job it looks at
          crashed      \* an interrupt came in on a vector without a handler

tileVars == <<helper, set, tile, call, ran>>
jobVars  == <<job, busy, userBusy, kill, proc, exit>>
pinVars  == <<pinning, pinLock>>
vars == <<ring, pinVars, cpu, tileVars, jobVars, begun, crashed>>

miscVars == <<begun, crashed>>

Workers == APs \cup Callers
Calls == UNION {1 .. m[1] : m \in Mixes}
\* b calls and starts are within the bounds.
Within(b) == \E m \in Mixes : b[1] <= m[1] /\ b[2] <= m[2]
Least(S) == CHOOSE x \in S : \A y \in S : x <= y
Spent == 65535                      \* 0xFFFFFFFF in the code: above every ntiles

Out     == [pc |-> "out", id |-> 0, n |-> 0, slot |-> 0, gen |-> 0, want |-> 0, jobs |-> 0]
NoTile  == [at |-> "no", slot |-> 0, gen |-> 0, seen |-> <<0, 0>>, ctx |-> 0]
Idle    == [at |-> "idle", item |-> Nobody]
NotInCall == [pc |-> "user", j |-> 0, c |-> 0]

Init ==
    /\ ring = [a \in APs |-> <<>>]
    /\ pinning = FALSE /\ pinLock = Nobody
    /\ cpu = [a \in APs |-> Idle]
    /\ helper = [s \in Sets |-> [k \in Helpers |-> "idle"]]
    /\ set = [s \in Sets |-> [inUse |-> FALSE, claim |-> <<0, 0>>, ntiles |-> 0, ctx |-> 0, done |-> 0]]
    /\ tile = [w \in Workers |-> NoTile]
    /\ call = [c \in Callers |-> Out]
    /\ ran = [i \in Calls |-> <<>>]
    /\ job = [j \in Jobs |-> [state |-> "free", killReq |-> FALSE, owner |-> Nobody, claim |-> 0, cpu |-> 0]]
    /\ busy = {} /\ userBusy = {} /\ kill = {}
    /\ proc = [p \in Procs |-> NotInCall]
    /\ exit = [p \in Procs |-> [at |-> "alive", j |-> 0]]
    /\ begun = <<0, 0>>
    /\ crashed = FALSE

-----------------------------------------------------------------------------
(* The rings.                                                              *)

\* smp_enqueue_work_to_cpu(): whether CPU a accepts work.
Accepts(a) == a \notin userBusy /\ Len(ring[a]) < Capacity

\* The entry that is added, marked with the flag as it is at that moment.
Entry(item) == [item |-> item, pinned |-> pinning]

Enqueue(a, item) == ring' = [ring EXCEPT ![a] = Append(@, Entry(item))]

\* smp_pop_best_locked(): where the next entry of CPU a's ring is, 0 if none.
StealableAll(a) == DOMAIN ring[a]
Stealable(a) == {i \in DOMAIN ring[a] : ~ring[a][i].pinned}

Without(s, i) == SubSeq(s, 1, i - 1) \o SubSeq(s, i + 1, Len(s))

Pop(thief, a, i) ==
    /\ ring' = [ring EXCEPT ![a] = Without(@, i)]
    /\ cpu' = [cpu EXCEPT ![thief] = [at |-> "took", item |-> ring[a][i].item]]

\* smp_take_work()
TakeWork(a) ==
    /\ cpu[a].at = "idle" /\ ring[a] # <<>>
    /\ Pop(a, a, 1)
    /\ UNCHANGED <<pinVars, tileVars, jobVars, miscVars>>

\* smp_steal_work(): only the most loaded ring is looked at.
Victim(a) ==
    LET others == APs \ {a}
        most == {v \in others : \A u \in others : Len(ring[u]) <= Len(ring[v])}
    IN  Least(most)

StealWork(a) ==
    /\ cpu[a].at = "idle" /\ ring[a] = <<>>
    /\ APs # {a}
    /\ Stealable(Victim(a)) # {}
    /\ Pop(a, Victim(a), Least(Stealable(Victim(a))))
    /\ UNCHANGED <<pinVars, tileVars, jobVars, miscVars>>

-----------------------------------------------------------------------------
(* One tile: smp_tile_run_one().                                           *)

\* The claim word is read once ...
TileLoad(w) ==
    /\ tile[w].at = "load"
    /\ LET claim == set[tile[w].slot].claim
       IN  tile' = [tile EXCEPT ![w].at = IF claim[1] # tile[w].gen THEN "none" ELSE "try",
                                ![w].seen = claim]
    /\ UNCHANGED <<ring, pinVars, cpu, helper, set, call, ran, jobVars, miscVars>>

\* ... and a tile is taken if the word has not changed since.
Claimable(s, seen) == seen[2] < set[s].ntiles
Matches(s, seen) == set[s].claim = seen

TileTry(w) ==
    /\ tile[w].at = "try"
    /\ LET s == tile[w].slot
           seen == tile[w].seen
       IN  \/ /\ ~Claimable(s, seen)
              /\ tile' = [tile EXCEPT ![w].at = "none"]
              /\ UNCHANGED set
           \/ /\ Claimable(s, seen) /\ ~Matches(s, seen)
              /\ tile' = [tile EXCEPT ![w].at = "load"]
              /\ UNCHANGED set
           \/ /\ Claimable(s, seen) /\ Matches(s, seen)
              /\ set' = [set EXCEPT ![s].claim[2] = @ + 1]
              /\ tile' = [tile EXCEPT ![w].at = "claimed"]
    /\ UNCHANGED <<ring, pinVars, cpu, helper, call, ran, jobVars, miscVars>>

\* The tile function, with the context that the set holds now.
TileRun(w) ==
    /\ tile[w].at = "claimed"
    /\ LET ctx == set[tile[w].slot].ctx
           t == tile[w].seen[2]
       IN  /\ tile' = [tile EXCEPT ![w].at = "running", ![w].ctx = ctx]
           /\ ran' = [ran EXCEPT ![ctx][t] = @ + 1]
    /\ UNCHANGED <<ring, pinVars, cpu, helper, set, call, jobVars, miscVars>>

TileDone(w) ==
    /\ tile[w].at = "running"
    /\ set' = [set EXCEPT ![tile[w].slot].done = @ + 1]
    /\ tile' = [tile EXCEPT ![w].at = IF w \in APs THEN "load" ELSE "no"]
    /\ UNCHANGED <<ring, pinVars, cpu, helper, call, ran, jobVars, miscVars>>

-----------------------------------------------------------------------------
(* A helper on an AP: smp_execute_work() with smp_tile_helper().           *)

\* An entry whose job is not queued any more was cancelled and is dropped.
HelperStart(a) ==
    /\ cpu[a].at = "took" /\ cpu[a].item.kind = "tile"
    /\ LET i == cpu[a].item
       IN  IF helper[i.slot][i.k] = "queued"
           THEN /\ helper' = [helper EXCEPT ![i.slot][i.k] = "running"]
                /\ cpu' = [cpu EXCEPT ![a].at = "helping"]
                /\ tile' = [tile EXCEPT ![a] = [NoTile EXCEPT !.at = "load", !.slot = i.slot, !.gen = i.gen]]
           ELSE /\ cpu' = [cpu EXCEPT ![a] = Idle]
                /\ UNCHANGED <<helper, tile>>
    /\ UNCHANGED <<ring, pinVars, set, call, ran, jobVars, miscVars>>

HelperEnd(a) ==
    /\ cpu[a].at = "helping" /\ tile[a].at = "none"
    /\ LET i == cpu[a].item
       IN  helper' = [helper EXCEPT ![i.slot][i.k] = "complete"]
    /\ cpu' = [cpu EXCEPT ![a] = Idle]
    /\ tile' = [tile EXCEPT ![a] = NoTile]
    /\ UNCHANGED <<ring, pinVars, set, call, ran, jobVars, miscVars>>

-----------------------------------------------------------------------------
(* The caller: smp_parallel_tiles().                                       *)

callOnly == <<pinVars, cpu, jobVars, miscVars>>

\* With no set free, or one tile, the caller does it all in place.
Unused == {i \in Calls : ran[i] = <<>>}
FreeSets == {s \in Sets : ~set[s].inUse}

Begin(c, n) ==
    /\ call[c].pc = "out"
    /\ begun' = [begun EXCEPT ![1] = @ + 1] /\ Within(begun')
    /\ LET i == Least(Unused)
       IN  IF n = 1 \/ FreeSets = {}
           THEN /\ ran' = [ran EXCEPT ![i] = [t \in 0 .. n - 1 |-> 1]]
                /\ UNCHANGED <<set, call>>
           ELSE LET s == Least(FreeSets)
                IN  /\ ran' = [ran EXCEPT ![i] = [t \in 0 .. n - 1 |-> 0]]
                    /\ set' = [set EXCEPT ![s].inUse = TRUE]
                    /\ call' = [call EXCEPT ![c] = [Out EXCEPT !.pc = "arm", !.id = i, !.n = n, !.slot = s]]
    /\ UNCHANGED <<ring, helper, tile, pinVars, cpu, jobVars, crashed>>

\* The set's fields are filled in first ...
Arm(c) ==
    /\ call[c].pc = "arm"
    /\ set' = [set EXCEPT ![call[c].slot].ctx = call[c].id,
                          ![call[c].slot].ntiles = call[c].n,
                          ![call[c].slot].done = 0]
    /\ call' = [call EXCEPT ![c].pc = "publish"]
    /\ UNCHANGED <<ring, helper, tile, ran, callOnly>>

\* ... and opened with a new generation.
Wanted(n) == Least({Cardinality(APs \ userBusy), n - 1, Cardinality(Helpers)})

Publish(c) ==
    /\ call[c].pc = "publish"
    /\ LET gen == set[call[c].slot].claim[1] + 1
       IN  /\ set' = [set EXCEPT ![call[c].slot].claim = <<gen, 0>>]
           /\ call' = [call EXCEPT ![c].pc = "recruit", ![c].gen = gen, ![c].want = Wanted(call[c].n)]
    /\ UNCHANGED <<ring, helper, tile, ran, callOnly>>

\* smp_background_job_init()
HelperInit(c) ==
    /\ call[c].pc = "recruit" /\ call[c].want > 0
    /\ helper' = [helper EXCEPT ![call[c].slot][call[c].jobs + 1] = "idle"]
    /\ call' = [call EXCEPT ![c].pc = "submit"]
    /\ UNCHANGED <<ring, set, tile, ran, callOnly>>

\* smp_submit_background_job(): a helper of an earlier call that ends only now
\* may have changed the state again.
HelperSubmit(c) ==
    /\ call[c].pc = "submit"
    /\ LET s == call[c].slot
           k == call[c].jobs + 1
       IN  IF helper[s][k] = "idle"
           THEN /\ helper' = [helper EXCEPT ![s][k] = "queued"]
                /\ call' = [call EXCEPT ![c].pc = "post"]
           ELSE /\ call' = [call EXCEPT ![c].pc = "recruit", ![c].want = @ - 1]
                /\ UNCHANGED helper
    /\ UNCHANGED <<ring, set, tile, ran, callOnly>>

\* The shortest ring, also that of a CPU that refuses because it is in a
\* compute job.
LeastLoaded == Least({a \in APs : \A b \in APs : Len(ring[a]) <= Len(ring[b])})

HelperPost(c) ==
    /\ call[c].pc = "post"
    /\ LET s == call[c].slot
           k == call[c].jobs + 1
       IN  IF Accepts(LeastLoaded)
           THEN /\ Enqueue(LeastLoaded, [kind |-> "tile", slot |-> s, gen |-> call[c].gen, k |-> k])
                /\ call' = [call EXCEPT ![c].pc = "recruit", ![c].want = @ - 1, ![c].jobs = k]
                /\ UNCHANGED helper
           ELSE /\ helper' = [helper EXCEPT ![s][k] = "idle"]
                /\ call' = [call EXCEPT ![c].pc = "recruit", ![c].want = @ - 1]
                /\ UNCHANGED ring
    /\ UNCHANGED <<set, tile, ran, callOnly>>

BetweenTiles(c) ==
    \/ call[c].pc = "recruit" /\ call[c].want = 0
    \/ call[c].pc = "work" /\ tile[c].at \in {"no", "none"}

\* Its own share, and whatever is left when the helpers make no progress.
MayOwnAlone(c) == set[call[c].slot].done < call[c].n /\ call[c].jobs = 0
MayOwn(c) == set[call[c].slot].done < call[c].n

OwnTile(c) ==
    /\ BetweenTiles(c) /\ MayOwn(c)
    /\ tile' = [tile EXCEPT ![c] = [NoTile EXCEPT !.at = "load", !.slot = call[c].slot, !.gen = call[c].gen]]
    /\ call' = [call EXCEPT ![c].pc = "work"]
    /\ UNCHANGED <<ring, helper, set, ran, callOnly>>

\* The claim word of a set that nobody may take a tile of.
RetiredAsItIs(s, gen) == set[s].claim
Retired(s, gen) == <<gen + 1, Spent>>

Retire(c) ==
    /\ BetweenTiles(c)
    /\ set[call[c].slot].done >= call[c].n
    /\ set' = [set EXCEPT ![call[c].slot].claim = Retired(call[c].slot, call[c].gen)]
    /\ call' = [call EXCEPT ![c].pc = "retired"]
    /\ UNCHANGED <<ring, helper, tile, ran, callOnly>>

\* smp_cancel_background_job() for each helper that was posted.
CancelHelpers(c) ==
    /\ call[c].pc = "retired"
    /\ helper' = [helper EXCEPT ![call[c].slot] = [k \in Helpers |->
                    IF k <= call[c].jobs /\ @[k] = "queued" THEN "cancelled" ELSE @[k]]]
    /\ call' = [call EXCEPT ![c].pc = "release"]
    /\ UNCHANGED <<ring, set, tile, ran, callOnly>>

Release(c) ==
    /\ call[c].pc = "release"
    /\ set' = [set EXCEPT ![call[c].slot].inUse = FALSE]
    /\ call' = [call EXCEPT ![c] = Out]
    /\ tile' = [tile EXCEPT ![c] = NoTile]
    /\ UNCHANGED <<ring, helper, ran, callOnly>>

CallStep(c) ==
    \/ Arm(c) \/ Publish(c) \/ HelperInit(c) \/ HelperSubmit(c) \/ HelperPost(c)
    \/ OwnTile(c) \/ Retire(c) \/ CancelHelpers(c) \/ Release(c)

TileStep(w) == TileLoad(w) \/ TileTry(w) \/ TileRun(w) \/ TileDone(w)

-----------------------------------------------------------------------------
(* A compute job on its AP: apu_job_fn().                                  *)

jobOnly == <<pinVars, tileVars>>
IsJob(a) == cpu[a].item # Nobody /\ cpu[a].item.kind = "job"
JobOf(a) == cpu[a].item.j

\* A request to stop that came before the job began ...
JobCheck(a) ==
    /\ cpu[a].at = "took" /\ IsJob(a)
    /\ IF job[JobOf(a)].killReq
       THEN /\ job' = [job EXCEPT ![JobOf(a)].state = "killed"]
            /\ cpu' = [cpu EXCEPT ![a].at = "ended"]
       ELSE /\ cpu' = [cpu EXCEPT ![a].at = "dispatch"]
            /\ UNCHANGED job
    /\ UNCHANGED <<ring, jobOnly, busy, userBusy, kill, proc, exit, miscVars>>

\* ... or it goes to ring 3.
JobEnter(a) ==
    /\ cpu[a].at = "dispatch"
    /\ job' = [job EXCEPT ![JobOf(a)].cpu = a, ![JobOf(a)].state = "running"]
    /\ userBusy' = userBusy \cup {a}
    /\ cpu' = [cpu EXCEPT ![a].at = "ring3"]
    /\ UNCHANGED <<ring, jobOnly, busy, kill, proc, exit, miscVars>>

Leave(a, why) ==
    /\ job' = [job EXCEPT ![JobOf(a)].state = why]
    /\ userBusy' = userBusy \ {a}
    /\ cpu' = [cpu EXCEPT ![a].at = "ended"]

\* It returns, or does what a job must not.
JobLeaves(a) ==
    /\ cpu[a].at = "ring3"
    /\ \E why \in {"done", "faulted"} : Leave(a, why)
    /\ UNCHANGED <<ring, jobOnly, busy, kill, proc, exit, miscVars>>

\* The kill IPI.  One that was meant for an earlier job is ignored.
KillArrives(a) ==
    /\ cpu[a].at = "ring3" /\ a \in kill
    /\ kill' = kill \ {a}
    /\ IF job[JobOf(a)].killReq
       THEN Leave(a, "killed")
       ELSE UNCHANGED <<job, userBusy, cpu>>
    /\ UNCHANGED <<ring, jobOnly, busy, proc, exit, miscVars>>

\* The claim is read from the slot, which its owner may use again by now.
JobOut(a) ==
    /\ cpu[a].at = "ended"
    /\ busy' = busy \ {job[JobOf(a)].claim}
    /\ cpu' = [cpu EXCEPT ![a] = Idle]
    /\ UNCHANGED <<ring, jobOnly, job, userBusy, kill, proc, exit, miscVars>>

\* The kernel's own table has no gate for the vector: an IPI that was sent as
\* its job came to an end is an exception in the idle loop.
StrayKill(a) ==
    /\ cpu[a].at = "idle" /\ ring[a] = <<>> /\ a \in kill
    /\ crashed' = TRUE
    /\ UNCHANGED <<ring, pinVars, cpu, tileVars, jobVars, begun>>

-----------------------------------------------------------------------------
(* The system calls of the process that owns a job.                        *)

Ready(p) == proc[p].pc = "user" /\ (exit[p].at = "alive" \/ (Concurrent /\ exit[p].at # "gone"))
procOnly == <<cpu, tileVars, userBusy, exit, miscVars>>

\* smp_user_start(): a slot, its fields, a CPU, a pinned entry in its ring.
FreeJobs == {j \in Jobs : job[j].state = "free"}

Start(p) ==
    /\ Ready(p) /\ FreeJobs # {}
    /\ begun' = [begun EXCEPT ![2] = @ + 1] /\ Within(begun')
    /\ LET j == Least(FreeJobs)
       IN  /\ job' = [job EXCEPT ![j].state = "queued"]
           /\ proc' = [proc EXCEPT ![p] = [pc |-> "fields", j |-> j, c |-> 0]]
    /\ UNCHANGED <<ring, pinVars, busy, kill, cpu, tileVars, userBusy, exit, crashed>>

StartFields(p) ==
    /\ proc[p].pc = "fields"
    /\ job' = [job EXCEPT ![proc[p].j].killReq = FALSE, ![proc[p].j].owner = p]
    /\ proc' = [proc EXCEPT ![p].pc = "claim"]
    /\ UNCHANGED <<ring, pinVars, busy, kill, procOnly>>

After(p) == {a \in APs : a > proc[p].c}

StartClaim(p) ==
    /\ proc[p].pc = "claim"
    /\ IF After(p) = {}
       THEN /\ job' = [job EXCEPT ![proc[p].j].state = "free"]
            /\ proc' = [proc EXCEPT ![p] = NotInCall]
            /\ UNCHANGED busy
       ELSE LET a == Least(After(p))
            IN  IF a \in busy
                THEN /\ proc' = [proc EXCEPT ![p].c = a]
                     /\ UNCHANGED <<job, busy>>
                ELSE /\ busy' = busy \cup {a}
                     /\ job' = [job EXCEPT ![proc[p].j].claim = a]
                     /\ proc' = [proc EXCEPT ![p].pc = "pin", ![p].c = a]
    /\ UNCHANGED <<ring, pinVars, kill, procOnly>>

\* smp_submit_pinned_work_to_cpu(): the flag is on for every enqueue meanwhile.
PinOn(p) ==
    /\ proc[p].pc = "pin" /\ pinLock = Nobody
    /\ pinLock' = p /\ pinning' = TRUE
    /\ proc' = [proc EXCEPT ![p].pc = "enqueue"]
    /\ UNCHANGED <<ring, job, busy, kill, procOnly>>

PinEnqueue(p) ==
    /\ proc[p].pc = "enqueue"
    /\ IF Accepts(proc[p].c)
       THEN /\ Enqueue(proc[p].c, [kind |-> "job", j |-> proc[p].j])
            /\ proc' = [proc EXCEPT ![p].pc = "posted"]
       ELSE /\ proc' = [proc EXCEPT ![p].pc = "refused"]
            /\ UNCHANGED ring
    /\ UNCHANGED <<pinVars, job, busy, kill, procOnly>>

PinOff(p) ==
    /\ proc[p].pc \in {"posted", "refused"}
    /\ pinLock' = Nobody /\ pinning' = FALSE
    /\ IF proc[p].pc = "posted"
       THEN proc' = [proc EXCEPT ![p] = NotInCall] /\ UNCHANGED busy
       ELSE proc' = [proc EXCEPT ![p].pc = "claim"] /\ busy' = busy \ {proc[p].c}
    /\ UNCHANGED <<ring, job, kill, procOnly>>

Owns(p, j) == job[j].state # "free" /\ job[j].owner = p
Active(j) == job[j].state \in {"queued", "running"}

\* smp_user_stop()
Stop(p, j) ==
    /\ Ready(p) /\ Owns(p, j)
    /\ job' = [job EXCEPT ![j].killReq = TRUE]
    /\ proc' = [proc EXCEPT ![p] = [pc |-> "stop", j |-> j, c |-> 0]]
    /\ UNCHANGED <<ring, pinVars, busy, kill, procOnly>>

StopSend(p) ==
    /\ proc[p].pc = "stop"
    /\ kill' = IF job[proc[p].j].state = "running" THEN kill \cup {job[proc[p].j].cpu} ELSE kill
    /\ proc' = [proc EXCEPT ![p] = NotInCall]
    /\ UNCHANGED <<ring, pinVars, job, busy, procOnly>>

\* smp_user_free()
Freeable(j) == ~Active(j)

FreeJob(p, j) ==
    /\ Ready(p) /\ Owns(p, j) /\ Freeable(j)
    /\ job' = [job EXCEPT ![j].state = "free"]
    /\ UNCHANGED <<ring, pinVars, busy, kill, proc, procOnly>>

-----------------------------------------------------------------------------
(* process_exit(): smp_user_kill_owner() looks at every slot in turn, and  *)
(* returns before the page tables are released.  It is taken to wait for   *)
(* as long as it must: 50 million polls are not counted.                   *)

exitOnly == <<ring, cpu, jobOnly, busy, userBusy, proc, miscVars>>
Looking(j) == [at |-> "looking", j |-> j]
Stopped == [at |-> "stopped", j |-> 0]
Later(j) == {k \in Jobs : k > j}

ExitBegins(p) ==
    /\ exit[p].at = "alive" /\ (Concurrent \/ proc[p].pc = "user")
    /\ exit' = [exit EXCEPT ![p] = Looking(Least(Jobs))]
    /\ UNCHANGED <<exitOnly, job, kill>>

\* A slot that is not this process's, or whose job is over.
Over(p, j) == job[j].owner # p \/ ~Active(j)

KillPass(p) ==
    /\ exit[p].at = "looking" /\ Over(p, exit[p].j)
    /\ job' = IF job[exit[p].j].owner = p THEN [job EXCEPT ![exit[p].j].state = "free"] ELSE job
    /\ exit' = [exit EXCEPT ![p] = IF Later(@.j) = {} THEN Stopped ELSE Looking(Least(Later(@.j)))]
    /\ UNCHANGED <<exitOnly, kill>>

KillRequest(p) ==
    /\ exit[p].at = "looking" /\ ~Over(p, exit[p].j)
    /\ \/ /\ ~job[exit[p].j].killReq
          /\ job' = [job EXCEPT ![exit[p].j].killReq = TRUE]
          /\ UNCHANGED kill
       \/ /\ job[exit[p].j].killReq /\ job[exit[p].j].state = "running"
          /\ kill' = kill \cup {job[exit[p].j].cpu}
          /\ UNCHANGED job
    /\ UNCHANGED <<exitOnly, exit>>

\* The reaper: every thread of the process is off its CPU.
Reap(p) ==
    /\ exit[p].at = "stopped" /\ proc[p].pc = "user"
    /\ exit' = [exit EXCEPT ![p].at = "gone"]
    /\ UNCHANGED <<exitOnly, job, kill>>

-----------------------------------------------------------------------------
Next ==
    /\ ~crashed
    /\ \/ \E a \in APs : \/ TakeWork(a) \/ StealWork(a) \/ HelperStart(a) \/ HelperEnd(a)
                         \/ JobCheck(a) \/ JobEnter(a) \/ JobLeaves(a) \/ KillArrives(a)
                         \/ JobOut(a) \/ StrayKill(a)
       \/ \E w \in Workers : TileStep(w)
       \/ \E c \in Callers : CallStep(c) \/ \E n \in TileCounts : Begin(c, n)
       \/ \E p \in Procs : \/ Start(p) \/ StartFields(p) \/ StartClaim(p)
                           \/ PinOn(p) \/ PinEnqueue(p) \/ PinOff(p)
                           \/ StopSend(p) \/ ExitBegins(p) \/ KillPass(p) \/ KillRequest(p) \/ Reap(p)
                           \/ \E j \in Jobs : Stop(p, j) \/ FreeJob(p, j)

Spec == Init /\ [][Next]_vars

\* A caller goes on, and an AP that has begun a tile comes to the end of it:
\* it runs with interrupts off.  No AP needs to take work, and no compute job
\* needs to end.
FairSpec ==
    /\ Spec
    /\ \A c \in Callers : WF_vars(~crashed /\ CallStep(c))
    /\ \A w \in Workers : WF_vars(~crashed /\ TileStep(w))

-----------------------------------------------------------------------------
(* The properties.                                                         *)

\* A call of smp_parallel_tiles() returns only when each of its tiles was run
\* once; no tile is run twice; and a tile is run with the context of a call
\* that has not returned, which lives on that caller's stack.  Helpers of an
\* earlier call may still be on their way when the set is used again.
OpenCalls == {call[c].id : c \in {d \in Callers : call[d].pc \notin {"out", "release", "retired"}}}

CallIsWhole ==
    /\ \A i \in Calls \ OpenCalls : \A t \in DOMAIN ran[i] : ran[i][t] = 1
    /\ \A i \in OpenCalls : \A t \in DOMAIN ran[i] : ran[i][t] <= 1
    /\ \A w \in Workers : tile[w].at = "running" => tile[w].ctx \in OpenCalls

\* Whoever calls smp_parallel_tiles() gets back, also when every AP is taken
\* by a compute job that does not end, or has other work before the helpers.
CallReturns == \A c \in Callers : call[c].pc # "out" ~> (call[c].pc = "out" \/ crashed)

\* A compute job is in one place, in the ring or on the CPU that was claimed
\* for it, and its slot is not given to another job before it has left there:
\* neither a thief nor smp_user_free() nor a stop that comes early takes it
\* away.  And when smp_user_kill_owner() has returned, none of the process's
\* jobs is anywhere, so nothing runs under the page tables that are released
\* next, wherever between the ring and ring 3 the request found the job.
Entries(j) ==
    {e \in APs \X (1 .. Capacity) : e[2] <= Len(ring[e[1]]) /\ ring[e[1]][e[2]].item = [kind |-> "job", j |-> j]}
Holders(j) == {a \in APs : cpu[a].at \in {"took", "dispatch", "ring3"} /\ IsJob(a) /\ JobOf(a) = j}

JobSlotHeld ==
    \A j \in Jobs :
        /\ Cardinality(Entries(j)) + Cardinality(Holders(j)) <= 1
        /\ \A e \in Entries(j) : job[j].claim = e[1] /\ job[j].state = "queued"
        /\ \A a \in Holders(j) : /\ job[j].claim = a
                                 /\ job[j].state = IF cpu[a].at = "ring3" THEN "running" ELSE "queued"
        /\ Entries(j) # {} \/ Holders(j) # {} => exit[job[j].owner].at \in {"alive", "looking"}
=============================================================================
