------------------------------ MODULE ApWorkProofs ------------------------------
(***************************************************************************)
(* Proofs about ApWork for any number of CPUs, callers, tile sets, jobs    *)
(* and processes.                                                          *)
(*                                                                         *)
(* The rings carry the helpers of the tile scheduler and the compute jobs  *)
(* alike, so there are two invariants that need each other: JobInv says    *)
(* where a compute job and its slot are, TileInv what a tile set and its   *)
(* generation stand for.  Every step keeps both.                           *)
(***************************************************************************)
EXTENDS ApWork, TLAPS, FiniteSetTheorems

-----------------------------------------------------------------------------
(* The invariant of the compute jobs.                                      *)

TileItems == [kind : {"tile"}, slot : Sets, gen : Nat, k : Nat]
JobItem(j) == [kind |-> "job", j |-> j]
Items == TileItems \cup {JobItem(j) : j \in Jobs}
RingEntries == [item : Items, pinned : BOOLEAN]

RingType(r) == r \in [APs -> Seq(RingEntries)] /\ \A a \in APs : Len(r[a]) <= Capacity

JobStates == {"free", "queued", "running", "done", "faulted", "killed"}
OnJob == {"dispatch", "ring3", "ended"}

CpuType(c) ==
    /\ c \in [APs -> [at : {"idle", "took", "helping"} \cup OnJob, item : Items \cup {Nobody}]]
    /\ \A a \in APs : /\ c[a].at \in {"took", "helping"} => c[a].item \in Items
                      /\ c[a].at \in OnJob => \E j \in Jobs : c[a].item = JobItem(j)

JobType ==
    /\ job \in [Jobs -> [state : JobStates, killReq : BOOLEAN, owner : Procs \cup {Nobody},
                         claim : APs \cup {0}, cpu : APs \cup {0}]]
    /\ proc \in [Procs -> [pc : {"user", "fields", "claim", "pin", "enqueue", "posted", "refused", "stop"},
                           j : Jobs \cup {0}, c : APs \cup {0}]]
    /\ exit \in [Procs -> [at : {"alive", "looking", "stopped", "gone"}, j : Jobs \cup {0}]]
    /\ \A p \in Procs : exit[p].at = "looking" => exit[p].j \in Jobs
    /\ pinning \in BOOLEAN
    /\ \A p \in Procs : proc[p].pc \in {"enqueue", "posted", "refused"} => pinLock = p /\ pinning

\* Entry i of the ring of CPU a is job j; CPU a has taken job j from its ring
\* and not left it; one or the other.
JobAt(r, a, i, j) == i \in 1 .. Len(r[a]) /\ r[a][i].item = JobItem(j)
Holds(c, a, j) == c[a].at \in {"took", "dispatch", "ring3"} /\ c[a].item = JobItem(j)
Live(r, c, j) == \E a \in APs : Holds(c, a, j) \/ \E i \in Nat : JobAt(r, a, i, j)

\* A job is in the ring or on the CPU that it has claimed, once.
Placed ==
    \A j \in Jobs, a \in APs :
        /\ \A i \in Nat : JobAt(ring, a, i, j) =>
              /\ job[j].claim = a /\ job[j].state = "queued" /\ job[j].owner \in Procs
              /\ ring[a][i].pinned
              /\ ~Holds(cpu, a, j)
              /\ \A k \in Nat : JobAt(ring, a, k, j) => k = i
        /\ Holds(cpu, a, j) =>
              /\ job[j].claim = a /\ job[j].owner \in Procs
              /\ job[j].state = IF cpu[a].at = "ring3" THEN "running" ELSE "queued"

\* A process that starts a job has the slot for itself until the job is in a
\* ring.
Starts(p) == proc[p].pc \in {"fields", "claim", "pin", "enqueue", "refused"}

Starting ==
    \A p \in Procs : Starts(p) =>
        LET j == proc[p].j IN
        /\ j \in Jobs
        /\ job[j].state = "queued" /\ ~Live(ring, cpu, j)
        /\ proc[p].pc # "fields" => job[j].owner = p
        /\ proc[p].pc \in {"pin", "enqueue"} => proc[p].c \in APs /\ job[j].claim = proc[p].c
        /\ \A q \in Procs : Starts(q) /\ proc[q].j = j => q = p

\* The slots that smp_user_kill_owner() has been through hold no job of the
\* process, and the process starts none.
Passed(p, j) == exit[p].at \in {"stopped", "gone"} \/ (exit[p].at = "looking" /\ j < exit[p].j)

Ended ==
    \A p \in Procs :
        /\ proc[p].pc # "user" => exit[p].at = "alive"
        /\ \A j \in Jobs : Live(ring, cpu, j) /\ Passed(p, j) => job[j].owner # p

JobInv == RingType(ring) /\ CpuType(cpu) /\ JobType /\ Placed /\ Starting

-----------------------------------------------------------------------------
(* The invariant of the tiles.                                             *)

TileType ==
    /\ set \in [Sets -> [inUse : BOOLEAN, claim : Nat \X Nat, ntiles : Nat, ctx : Nat, done : Nat]]
    /\ tile \in [Workers -> [at : {"no", "load", "try", "none", "claimed", "running"},
                             slot : Nat, gen : Nat, seen : Nat \X Nat, ctx : Nat]]
    /\ call \in [Callers -> [pc : {"out", "arm", "publish", "recruit", "submit", "post", "work",
                                   "retired", "release"},
                             id : Nat, n : Nat, slot : Nat, gen : Nat, want : Int, jobs : Nat]]

\* The call of c has opened its set and not retired it.
Opens(c) == call[c].pc \in {"recruit", "submit", "post", "work"}

\* A generation that a helper was given is over, or its call is still open.
GenOK(s, g) ==
    /\ s \in Sets /\ g <= set[s].claim[1]
    /\ g = set[s].claim[1] => \E c \in Callers : Opens(c) /\ call[c].slot = s

\* Worker w is at tile t of set s, or about to run it.
At(w, s, t) == tile[w].at \in {"claimed", "running"} /\ tile[w].slot = s /\ tile[w].seen[2] = t
About(w, s, t) == tile[w].at = "claimed" /\ tile[w].slot = s /\ tile[w].seen[2] = t

\* The tiles of set s that are finished.
Finished(s) == {t \in 0 .. set[s].claim[2] - 1 : \A w \in Workers : ~At(w, s, t)}

\* A call has its set and its number for itself.
CallOwns ==
    \A c \in Callers : call[c].pc # "out" =>
        /\ call[c].slot \in Sets /\ set[call[c].slot].inUse
        /\ call[c].n # 0
        /\ call[c].id \in 1 .. begun[1]
        /\ ran[call[c].id] \in [0 .. call[c].n - 1 -> Nat]
        /\ \A d \in Callers : call[d].pc # "out" /\ d # c =>
              call[d].slot # call[c].slot /\ call[d].id # call[c].id

\* What is in the set of a call, and how often its tiles were run.
CallRuns ==
    \A c \in Callers :
        LET s == set[call[c].slot]
            r == ran[call[c].id]
        IN  /\ call[c].pc \in {"arm", "publish"} => \A t \in 0 .. call[c].n - 1 : r[t] = 0
            /\ call[c].pc = "publish" => s.done = 0
            /\ call[c].pc = "publish" \/ Opens(c) => s.ctx = call[c].id /\ s.ntiles = call[c].n
            /\ Opens(c) =>
                  /\ s.claim[1] = call[c].gen /\ s.claim[2] <= call[c].n
                  /\ s.done = Cardinality(Finished(call[c].slot))
                  /\ \A t \in 0 .. call[c].n - 1 :
                        r[t] = IF t < s.claim[2] /\ \A w \in Workers : ~About(w, call[c].slot, t)
                               THEN 1 ELSE 0

\* Where a worker is.
TileOK(w) ==
    /\ tile[w].at # "no" => GenOK(tile[w].slot, tile[w].gen)
    /\ tile[w].at = "try" => tile[w].seen[1] = tile[w].gen
    /\ tile[w].at \in {"claimed", "running"} =>
          /\ tile[w].gen = set[tile[w].slot].claim[1]
          /\ tile[w].seen[2] < set[tile[w].slot].claim[2]
          /\ \A v \in Workers : At(v, tile[w].slot, tile[w].seen[2]) => v = w
    /\ tile[w].at = "running" =>
          \E c \in Callers : Opens(c) /\ call[c].slot = tile[w].slot /\ call[c].id = tile[w].ctx
    /\ w \in Callers /\ tile[w].at # "no" => call[w].pc \in {"work", "retired", "release"}
    /\ w \in Callers /\ tile[w].at \notin {"no", "none"} => call[w].pc = "work"
    /\ w \in APs /\ tile[w].at # "no" => cpu[w].at = "helping"

TilesHeld == \A w \in Workers : TileOK(w)

\* The generations in the rings and on the CPUs.
ItemGens ==
    \A a \in APs :
        /\ \A i \in 1 .. Len(ring[a]) : ring[a][i].item.kind = "tile" =>
              GenOK(ring[a][i].item.slot, ring[a][i].item.gen)
        /\ cpu[a].at \in {"took", "helping"} /\ cpu[a].item.kind = "tile" =>
              GenOK(cpu[a].item.slot, cpu[a].item.gen)

\* The calls so far are numbered without a gap, and those that are not open
\* had each of their tiles run.
RanWhole ==
    /\ begun \in Nat \X Nat /\ Within(begun)
    /\ DOMAIN ran = Calls
    /\ \A i \in Calls : IF i <= begun[1] THEN \E n \in Nat : ran[i] \in [0 .. n -> Nat]
                                         ELSE ran[i] = <<>>
    /\ \A i \in Calls \ OpenCalls : \A t \in DOMAIN ran[i] : ran[i][t] = 1

TileInv ==
    /\ RingType(ring) /\ CpuType(cpu) /\ TileType /\ CallOwns /\ CallRuns
    /\ TilesHeld /\ ItemGens /\ RanWhole

-----------------------------------------------------------------------------
(* Facts about the operators.                                              *)

\* Least() finds the least number of a set.
LEMMA LeastIs ==
    ASSUME NEW N, N \subseteq Nat, N # {}
    PROVE  Least(N) \in N /\ \A m \in N : Least(N) <= m
<1> DEFINE R == OpToRel(<, Nat)
<1>1. IsWellFoundedOn(R, Nat)
  BY NatLessThanWellFounded
<1>2. \A z \in Nat \X Nat : z \in R <=> z[1] < z[2]
  BY DEF OpToRel
<1> HIDE DEF R
<1>3. PICK n \in N : \A m \in N : ~ (<<m, n>> \in R)
  BY <1>1, WFMin
<1>4. ASSUME NEW m \in N PROVE n <= m
  <2>1. <<m, n>> \in Nat \X Nat /\ m \in Nat /\ n \in Nat
    OBVIOUS
  <2>2. ~(m < n)
    BY <1>2, <1>3, <2>1
  <2> QED BY <2>1, <2>2
<1> QED BY <1>4 DEF Least

\* An entry is taken out of a ring: those behind it move up.
LEMMA WithoutIs ==
    ASSUME NEW S, NEW s \in Seq(S), NEW i \in 1 .. Len(s)
    PROVE  /\ Without(s, i) \in Seq(S)
           /\ Len(Without(s, i)) = Len(s) - 1
           /\ \A k \in 1 .. Len(s) - 1 : Without(s, i)[k] = s[IF k < i THEN k ELSE k + 1]
<1> DEFINE f == SubSeq(s, 1, i - 1)
           g == SubSeq(s, i + 1, Len(s))
<1>1. /\ f \in Seq(S) /\ Len(f) = i - 1 /\ \A k \in 1 .. i - 1 : f[k] = s[k]
      /\ g \in Seq(S) /\ Len(g) = Len(s) - i /\ \A k \in 1 .. Len(s) - i : g[k] = s[k + i]
  OBVIOUS
<1> HIDE DEF f, g
<1>2. f \o g \in Seq(S) /\ Len(f \o g) = Len(s) - 1
  BY <1>1
<1>3. \A k \in 1 .. Len(s) - 1 : (f \o g)[k] = IF k < i THEN f[k] ELSE g[k - (i - 1)]
  BY <1>1
<1>4. \A k \in 1 .. Len(s) - 1 : (f \o g)[k] = s[IF k < i THEN k ELSE k + 1]
  <2> SUFFICES ASSUME NEW k \in 1 .. Len(s) - 1
               PROVE  (f \o g)[k] = s[IF k < i THEN k ELSE k + 1]
    OBVIOUS
  <2>1. CASE k < i
    BY <1>1, <1>3, <2>1
  <2>2. CASE ~(k < i)
    <3>1. k - (i - 1) \in 1 .. Len(s) - i /\ (k - (i - 1)) + i = k + 1
      BY <2>2
    <3>2. g[k - (i - 1)] = s[k + 1]
      BY <1>1, <3>1
    <3> QED BY <1>3, <2>2, <3>2
  <2> QED BY <2>1, <2>2
<1>5. Without(s, i) = f \o g
  BY DEF Without, f, g
<1> QED BY <1>2, <1>4, <1>5

\* A job is not a tile, nor nothing.
LEMMA ItemKinds ==
    /\ \A j \in Jobs : JobItem(j) # Nobody /\ JobItem(j).kind = "job" /\ JobItem(j).j = j
    /\ \A i \in TileItems : i.kind = "tile" /\ \A j \in Jobs : i # JobItem(j)
    /\ \A i \in Items : i.kind = "job" => \E j \in Jobs : i = JobItem(j)
    /\ \A i \in Items : i.kind = "tile" => i \in TileItems
    /\ \A i \in Items : i.kind \in {"job", "tile"}
BY ApWorkAssumption DEF JobItem, TileItems, Items

-----------------------------------------------------------------------------
(* The compute jobs: what moves no job.                                    *)

\* No job has come into a ring, changed its CPU or got into it twice.
Tame(r1, r2) ==
    \A a \in APs, j \in Jobs :
        /\ \A i \in Nat : JobAt(r2, a, i, j) =>
              \E k \in Nat : JobAt(r1, a, k, j) /\ (r1[a][k].pinned => r2[a][i].pinned)
        /\ (\A i, k \in Nat : JobAt(r1, a, i, j) /\ JobAt(r1, a, k, j) => i = k) =>
              \A i, k \in Nat : JobAt(r2, a, i, j) /\ JobAt(r2, a, k, j) => i = k

\* No CPU has taken a job, or gone on with one.
NoneTaken(c1, c2) ==
    \A a \in APs, j \in Jobs :
        Holds(c2, a, j) => Holds(c1, a, j) /\ (c2[a].at = "ring3" <=> c1[a].at = "ring3")

NoneComes == \A j \in Jobs : Live(ring', cpu', j) => Live(ring, cpu, j)

\* Steps that move no job keep the invariant of the jobs.
LEMMA JobsStay ==
    ASSUME JobInv, RingType(ring'), CpuType(cpu'), Tame(ring, ring'), NoneTaken(cpu, cpu'),
           UNCHANGED <<job, proc, exit, pinning, pinLock>>
    PROVE  JobInv' /\ NoneComes
<1>1. NoneComes
  BY DEF NoneComes, Tame, NoneTaken, Live
<1>2. JobType'
  BY DEF JobInv, JobType
<1>3. Starting'
  BY <1>1 DEF JobInv, Starting, NoneComes, Starts, JobType
<1>4. Placed'
  <2> SUFFICES ASSUME NEW j \in Jobs, NEW a \in APs
      PROVE /\ \A i \in Nat : JobAt(ring', a, i, j) =>
                  /\ job[j].claim = a /\ job[j].state = "queued" /\ job[j].owner \in Procs
                  /\ ring'[a][i].pinned
                  /\ ~Holds(cpu', a, j)
                  /\ \A k \in Nat : JobAt(ring', a, k, j) => k = i
            /\ Holds(cpu', a, j) =>
                  /\ job[j].claim = a /\ job[j].owner \in Procs
                  /\ job[j].state = IF cpu'[a].at = "ring3" THEN "running" ELSE "queued"
    BY DEF Placed, JobAt, Holds
  <2>1. Holds(cpu', a, j) =>
                  /\ job[j].claim = a /\ job[j].owner \in Procs
                  /\ job[j].state = IF cpu'[a].at = "ring3" THEN "running" ELSE "queued"
    BY DEF JobInv, Placed, NoneTaken
  <2>2. ASSUME NEW i \in Nat, JobAt(ring', a, i, j)
        PROVE /\ job[j].claim = a /\ job[j].state = "queued" /\ job[j].owner \in Procs
              /\ ring'[a][i].pinned
              /\ ~Holds(cpu', a, j)
              /\ \A k \in Nat : JobAt(ring', a, k, j) => k = i
    <3>1. PICK m \in Nat : JobAt(ring, a, m, j) /\ (ring[a][m].pinned => ring'[a][i].pinned)
      BY <2>2 DEF Tame
    <3>2. /\ job[j].claim = a /\ job[j].state = "queued" /\ job[j].owner \in Procs
          /\ ring[a][m].pinned
          /\ ~Holds(cpu, a, j)
      BY <3>1 DEF JobInv, Placed
    <3>3. \A n, k \in Nat : JobAt(ring, a, n, j) /\ JobAt(ring, a, k, j) => n = k
      BY DEF JobInv, Placed
    <3>4. \A k \in Nat : JobAt(ring', a, k, j) => k = i
      BY <2>2, <3>3 DEF Tame
    <3>5. ~Holds(cpu', a, j)
      BY <3>2 DEF NoneTaken
    <3> QED BY <3>1, <3>2, <3>4, <3>5
  <2> QED BY <2>1, <2>2
<1>5. JobInv'
  <2>1. RingType(ring)' /\ CpuType(cpu)'
    BY DEF RingType, CpuType
  <2> QED BY <1>2, <1>3, <1>4, <2>1 DEF JobInv
<1> QED BY <1>1, <1>5

\* A step that touches neither the rings nor what the CPUs and processes do.
LEMMA JobsUntouched ==
    ASSUME JobInv, UNCHANGED <<ring, cpu, job, proc, exit, pinning, pinLock>>
    PROVE  JobInv' /\ NoneComes
<1>1. RingType(ring') /\ CpuType(cpu') /\ Tame(ring, ring') /\ NoneTaken(cpu, cpu')
  BY DEF JobInv, RingType, CpuType, Tame, NoneTaken
<1> QED BY <1>1, JobsStay

\* An entry that is not a job leaves a ring.
LEMMA WithoutTame ==
    ASSUME RingType(ring), NEW a \in APs, NEW i \in 1 .. Len(ring[a]),
           \A j \in Jobs : ring[a][i].item # JobItem(j),
           NEW r, r = [ring EXCEPT ![a] = Without(@, i)]
    PROVE  RingType(r) /\ Tame(ring, r)
<1>1. ring[a] \in Seq(RingEntries)
  BY DEF RingType
<1>2. PICK w : w = Without(ring[a], i)
  OBVIOUS
<1>3. /\ w \in Seq(RingEntries) /\ Len(w) = Len(ring[a]) - 1
      /\ \A k \in 1 .. Len(ring[a]) - 1 : w[k] = ring[a][IF k < i THEN k ELSE k + 1]
  BY <1>1, <1>2, WithoutIs
<1>4. r \in [APs -> Seq(RingEntries)] /\ r[a] = w /\ \A b \in APs : b # a => r[b] = ring[b]
  BY <1>2, <1>3 DEF RingType
<1>5. Len(ring[a]) \in Nat /\ Len(ring[a]) <= Capacity /\ Capacity \in Nat
  BY <1>1, ApWorkAssumption DEF RingType
<1>6. RingType(r)
  BY <1>3, <1>4, <1>5 DEF RingType
<1>7. Tame(ring, r)
  <2> SUFFICES ASSUME NEW b \in APs, NEW j \in Jobs
      PROVE /\ \A m \in Nat : JobAt(r, b, m, j) =>
                  \E k \in Nat : JobAt(ring, b, k, j) /\ (ring[b][k].pinned => r[b][m].pinned)
            /\ (\A m, k \in Nat : JobAt(ring, b, m, j) /\ JobAt(ring, b, k, j) => m = k) =>
                  \A m, k \in Nat : JobAt(r, b, m, j) /\ JobAt(r, b, k, j) => m = k
    BY DEF Tame
  <2>1. CASE b # a
    BY <1>4, <2>1 DEF JobAt
  <2>2. CASE b = a
    <3> DEFINE old(m) == IF m < i THEN m ELSE m + 1
    <3>1. ASSUME NEW m \in Nat, JobAt(r, b, m, j)
          PROVE  JobAt(ring, b, old(m), j) /\ r[b][m] = ring[b][old(m)] /\ old(m) \in Nat
      BY <1>3, <1>4, <1>5, <2>2, <3>1 DEF JobAt
    <3>2. \A m, k \in Nat : old(m) = old(k) => m = k
      OBVIOUS
    <3> HIDE DEF old
    <3> QED BY <3>1, <3>2
  <2> QED BY <2>1, <2>2
<1> QED BY <1>6, <1>7

\* An entry that is not a job joins a ring.
LEMMA AppendTame ==
    ASSUME RingType(ring), NEW a \in APs, Len(ring[a]) < Capacity,
           NEW e \in RingEntries, \A j \in Jobs : e.item # JobItem(j),
           NEW r, r = [ring EXCEPT ![a] = Append(@, e)]
    PROVE  RingType(r) /\ Tame(ring, r)
<1>1. ring[a] \in Seq(RingEntries)
  BY DEF RingType
<1>2. PICK w : w = Append(ring[a], e)
  OBVIOUS
<1>3. /\ w \in Seq(RingEntries) /\ Len(w) = Len(ring[a]) + 1
      /\ \A k \in 1 .. Len(ring[a]) : w[k] = ring[a][k]
      /\ w[Len(ring[a]) + 1] = e
  BY <1>1, <1>2
<1>4. r \in [APs -> Seq(RingEntries)] /\ r[a] = w /\ \A b \in APs : b # a => r[b] = ring[b]
  BY <1>2, <1>3 DEF RingType
<1>5. Len(ring[a]) \in Nat /\ Len(ring[a]) <= Capacity /\ Capacity \in Nat
  BY <1>1, ApWorkAssumption DEF RingType
<1>6. RingType(r)
  BY <1>3, <1>4, <1>5 DEF RingType
<1>7. Tame(ring, r)
  <2>1. ASSUME NEW b \in APs, NEW j \in Jobs, NEW m \in Nat, JobAt(r, b, m, j)
        PROVE  JobAt(ring, b, m, j) /\ r[b][m] = ring[b][m]
    BY <1>3, <1>4, <1>5, <2>1 DEF JobAt
  <2> QED BY <2>1 DEF Tame
<1> QED BY <1>6, <1>7

-----------------------------------------------------------------------------
(* The rings and the helpers keep the jobs where they are.                 *)

\* The next entry of a ring is taken by CPU a: a tile, or a job of its own.
LEMMA TakeWorkJobs ==
    ASSUME JobInv, NEW a \in APs, TakeWork(a)
    PROVE  JobInv' /\ NoneComes
<1> DEFINE e == ring[a][1]
<1>1. ring[a] \in Seq(RingEntries) /\ 1 \in 1 .. Len(ring[a]) /\ e \in RingEntries
  BY DEF JobInv, RingType, TakeWork
<1>2. /\ ring' = [ring EXCEPT ![a] = Without(@, 1)]
      /\ cpu' = [cpu EXCEPT ![a] = [at |-> "took", item |-> e.item]]
      /\ UNCHANGED <<job, proc, exit, pinning, pinLock>>
  BY DEF TakeWork, Pop, jobVars, pinVars
<1>3. e.item \in Items
  BY <1>1 DEF RingEntries
<1> HIDE DEF e
<1>4. CpuType(cpu')
  BY <1>2, <1>3 DEF JobInv, CpuType, OnJob
<1>5. CASE \A j \in Jobs : e.item # JobItem(j)
  <2>1. RingType(ring') /\ Tame(ring, ring')
    BY <1>1, <1>2, <1>5, WithoutTame DEF JobInv, e
  <2>2. NoneTaken(cpu, cpu')
    BY <1>2, <1>5 DEF NoneTaken, Holds, JobInv, CpuType
  <2> QED BY <1>2, <1>4, <2>1, <2>2, JobsStay
<1>6. ASSUME NEW j \in Jobs, e.item = JobItem(j) PROVE JobInv' /\ NoneComes
  <2>1. PICK w : w = Without(ring[a], 1)
    OBVIOUS
  <2>2. /\ w \in Seq(RingEntries) /\ Len(w) = Len(ring[a]) - 1
        /\ \A k \in 1 .. Len(ring[a]) - 1 : w[k] = ring[a][k + 1]
    <3>1. \A k \in 1 .. Len(ring[a]) - 1 : ~(k < 1)
      OBVIOUS
    <3> QED BY <1>1, <2>1, <3>1, WithoutIs
  <2>3. /\ ring' \in [APs -> Seq(RingEntries)] /\ ring'[a] = w
        /\ \A b \in APs : b # a => ring'[b] = ring[b]
    BY <1>2, <2>1, <2>2 DEF JobInv, RingType
  <2>4. Len(ring[a]) \in Nat /\ Len(ring[a]) <= Capacity /\ Capacity \in Nat
    BY <1>1, ApWorkAssumption DEF JobInv, RingType
  <2>5. RingType(ring')
    <3>1. \A b \in APs : Len(ring[b]) <= Capacity
      BY DEF JobInv, RingType
    <3>2. Len(w) <= Capacity
      BY <2>2, <2>4
    <3>3. \A b \in APs : Len(ring'[b]) <= Capacity
      BY <2>3, <3>1, <3>2
    <3> QED BY <2>3, <3>3 DEF RingType
  <2>6. JobAt(ring, a, 1, j)
    BY <1>1, <1>6 DEF JobAt, e
  <2>7. /\ job[j].claim = a /\ job[j].state = "queued" /\ job[j].owner \in Procs
        /\ \A k \in Nat : JobAt(ring, a, k, j) => k = 1
    BY <2>6 DEF JobInv, Placed
  \* What is in the rings now was there before; j is not.
  <2>8. ASSUME NEW b \in APs, NEW h \in Jobs, NEW m \in Nat, JobAt(ring', b, m, h)
        PROVE  /\ b # a => JobAt(ring, b, m, h) /\ ring'[b][m] = ring[b][m]
               /\ b = a => JobAt(ring, a, m + 1, h) /\ ring'[a][m] = ring[a][m + 1] /\ h # j
    <3>1. CASE b # a
      BY <2>3, <2>8, <3>1 DEF JobAt
    <3>2. CASE b = a
      <4>1. JobAt(ring, a, m + 1, h) /\ ring'[a][m] = ring[a][m + 1] /\ m + 1 # 1 /\ m + 1 \in Nat
        BY <2>2, <2>3, <2>4, <2>8, <3>2 DEF JobAt
      <4> QED BY <2>7, <3>2, <4>1
    <3> QED BY <3>1, <3>2
  <2>9. ASSUME NEW b \in APs, NEW h \in Jobs
        PROVE  /\ b # a => (Holds(cpu', b, h) <=> Holds(cpu, b, h)) /\ cpu'[b] = cpu[b]
               /\ b = a => (Holds(cpu', b, h) <=> h = j) /\ cpu'[a].at = "took"
    <3>1. b # a => cpu'[b] = cpu[b]
      BY <1>2 DEF JobInv, CpuType
    <3>2. cpu'[a] = [at |-> "took", item |-> JobItem(j)]
      BY <1>2, <1>6 DEF JobInv, CpuType
    <3>3. JobItem(h) = JobItem(j) => h = j
      BY DEF JobItem
    <3> QED BY <3>1, <3>2, <3>3 DEF Holds
  <2>10. NoneComes
    <3> SUFFICES ASSUME NEW h \in Jobs, Live(ring', cpu', h) PROVE Live(ring, cpu, h)
      BY DEF NoneComes
    <3>1. CASE h = j
      BY <2>6, <3>1 DEF Live
    <3>2. CASE h # j
      <4>1. PICK b \in APs : Holds(cpu', b, h) \/ \E m \in Nat : JobAt(ring', b, m, h)
        BY DEF Live
      <4>2. CASE Holds(cpu', b, h)
        BY <2>9, <3>2, <4>2 DEF Live
      <4>3. ASSUME NEW m \in Nat, JobAt(ring', b, m, h) PROVE Live(ring, cpu, h)
        <5>1. m + 1 \in Nat
          OBVIOUS
        <5> QED BY <2>8, <4>3, <5>1 DEF Live
      <4> QED BY <4>1, <4>2, <4>3
    <3> QED BY <3>1, <3>2
  <2>11. JobType'
    BY <1>2 DEF JobInv, JobType
  <2>12. Starting'
    BY <1>2, <2>10 DEF JobInv, Starting, NoneComes, Starts, JobType
  <2>13. Placed'
    <3> SUFFICES ASSUME NEW h \in Jobs, NEW b \in APs
        PROVE /\ \A i \in Nat : JobAt(ring', b, i, h) =>
                    /\ job[h].claim = b /\ job[h].state = "queued" /\ job[h].owner \in Procs
                    /\ ring'[b][i].pinned
                    /\ ~Holds(cpu', b, h)
                    /\ \A k \in Nat : JobAt(ring', b, k, h) => k = i
              /\ Holds(cpu', b, h) =>
                    /\ job[h].claim = b /\ job[h].owner \in Procs
                    /\ job[h].state = IF cpu'[b].at = "ring3" THEN "running" ELSE "queued"
      BY <1>2 DEF Placed, JobAt, Holds
    <3>1. CASE b # a
      <4>1. \A i \in Nat : JobAt(ring', b, i, h) => JobAt(ring, b, i, h) /\ ring'[b][i] = ring[b][i]
        BY <2>8, <3>1
      <4> QED BY <2>9, <3>1, <4>1 DEF JobInv, Placed
    <3>2. CASE b = a
      <4>1. \A i \in Nat : JobAt(ring', b, i, h) =>
               JobAt(ring, a, i + 1, h) /\ ring'[a][i] = ring[a][i + 1] /\ h # j /\ i + 1 \in Nat
        BY <2>8, <3>2
      <4>2. Holds(cpu', b, h) <=> h = j
        BY <2>9, <3>2
      <4>3. Holds(cpu', b, h) =>
                    /\ job[h].claim = b /\ job[h].owner \in Procs
                    /\ job[h].state = IF cpu'[b].at = "ring3" THEN "running" ELSE "queued"
        BY <2>7, <2>9, <3>2, <4>2
      <4>4. ASSUME NEW i \in Nat, JobAt(ring', b, i, h)
            PROVE  /\ job[h].claim = b /\ job[h].state = "queued" /\ job[h].owner \in Procs
                   /\ ring'[b][i].pinned
                   /\ ~Holds(cpu', b, h)
                   /\ \A k \in Nat : JobAt(ring', b, k, h) => k = i
        <5>1. /\ job[h].claim = a /\ job[h].state = "queued" /\ job[h].owner \in Procs
              /\ ring[a][i + 1].pinned
              /\ \A k \in Nat : JobAt(ring, a, k, h) => k = i + 1
          BY <4>1, <4>4 DEF JobInv, Placed
        <5>2. \A k \in Nat : JobAt(ring', b, k, h) => k + 1 = i + 1
          BY <4>1, <5>1
        <5>3. \A k \in Nat : k + 1 = i + 1 => k = i
          OBVIOUS
        <5> QED BY <3>2, <4>1, <4>2, <4>4, <5>1, <5>2, <5>3
      <4> QED BY <4>3, <4>4
    <3> QED BY <3>1, <3>2
  <2>14. RingType(ring)' /\ CpuType(cpu)'
    BY <1>4, <2>5 DEF RingType, CpuType
  <2> QED BY <2>10, <2>11, <2>12, <2>13, <2>14 DEF JobInv
<1> QED BY <1>5, <1>6

\* The most loaded ring is one of the others.
LEMMA VictimIs ==
    ASSUME JobInv, NEW a \in APs, StealWork(a)
    PROVE  Victim(a) \in APs
<1> DEFINE others == APs \ {a}
           lens == {Len(ring[u]) : u \in others}
           most == {x \in others : \A u \in others : Len(ring[u]) <= Len(ring[x])}
<1>1. \A u \in APs : Len(ring[u]) \in Nat /\ Len(ring[u]) <= Capacity /\ Capacity \in Nat
  BY ApWorkAssumption DEF JobInv, RingType
<1>2. most # {}
  <2> DEFINE room == {Capacity - n : n \in lens}
  <2>1. others # {}
    BY DEF StealWork
  <2>2. room \subseteq Nat /\ room # {}
    <3>1. \A u \in others : Capacity - Len(ring[u]) \in Nat
      BY <1>1
    <3>2. \A u \in others : Capacity - Len(ring[u]) \in room
      OBVIOUS
    <3>3. room \subseteq Nat
      BY <3>1
    <3> QED BY <2>1, <3>2, <3>3
  <2>3. Least(room) \in room /\ \A m \in room : Least(room) <= m
    BY <2>2, LeastIs
  <2>4. PICK x \in others : Least(room) = Capacity - Len(ring[x])
    BY <2>3
  <2>5. \A u \in others : Capacity - Len(ring[x]) <= Capacity - Len(ring[u])
    BY <2>3, <2>4
  <2>6. \A u \in others : Len(ring[u]) <= Len(ring[x])
    BY <1>1, <2>5
  <2> QED BY <2>6
<1>3. most \subseteq Nat
  BY ApWorkAssumption
<1>4. Least(most) \in most
  BY <1>2, <1>3, LeastIs
<1>5. Victim(a) = Least(most)
  BY DEF Victim
<1> QED BY <1>4, <1>5

\* A thief takes only what is not pinned, so no job.
LEMMA StealWorkJobs ==
    ASSUME JobInv, NEW a \in APs, StealWork(a)
    PROVE  JobInv' /\ NoneComes
<1> DEFINE v == Victim(a)
           i == Least(Stealable(v))
<1>1. v \in APs
  BY VictimIs
<1>2. /\ ring' = [ring EXCEPT ![v] = Without(@, i)]
      /\ cpu' = [cpu EXCEPT ![a] = [at |-> "took", item |-> ring[v][i].item]]
      /\ UNCHANGED <<job, proc, exit, pinning, pinLock>>
      /\ Stealable(v) # {} /\ cpu[a].at = "idle"
  BY DEF StealWork, Pop, jobVars, pinVars
<1> HIDE DEF v
<1>3. ring[v] \in Seq(RingEntries)
  BY <1>1 DEF JobInv, RingType
<1>4. i \in 1 .. Len(ring[v]) /\ ~ring[v][i].pinned
  <2>1. Stealable(v) \subseteq Nat
    BY <1>3 DEF Stealable
  <2>2. i \in Stealable(v)
    BY <1>2, <2>1, LeastIs
  <2> QED BY <1>3, <2>2 DEF Stealable
<1> HIDE DEF i
<1>5. ring[v][i].item \in Items
  <2>1. ring[v][i] \in RingEntries
    BY <1>3, <1>4
  <2> QED BY <2>1 DEF RingEntries
<1>6. ASSUME NEW j \in Jobs PROVE ring[v][i].item # JobItem(j)
  <2>1. i \in Nat /\ (ring[v][i].item = JobItem(j) => JobAt(ring, v, i, j))
    BY <1>3, <1>4 DEF JobAt
  <2> QED BY <1>1, <1>4, <2>1 DEF JobInv, Placed
<1>7. RingType(ring') /\ Tame(ring, ring')
  BY <1>1, <1>2, <1>4, <1>6, WithoutTame DEF JobInv
<1>8. CpuType(cpu')
  BY <1>2, <1>5 DEF JobInv, CpuType, OnJob
<1>9. NoneTaken(cpu, cpu')
  BY <1>2, <1>6 DEF NoneTaken, Holds, JobInv, CpuType
<1> QED BY <1>2, <1>7, <1>8, <1>9, JobsStay

\* A CPU begins the work of a helper, or drops it ...
LEMMA HelperStartJobs ==
    ASSUME JobInv, NEW a \in APs, HelperStart(a)
    PROVE  JobInv' /\ NoneComes
<1>1. /\ cpu[a].at = "took" /\ cpu[a].item \in TileItems
      /\ cpu' = [cpu EXCEPT ![a].at = "helping"] \/ cpu' = [cpu EXCEPT ![a] = Idle]
      /\ UNCHANGED <<ring, job, proc, exit, pinning, pinLock>>
  <2>1. cpu[a].at = "took" /\ cpu[a].item.kind = "tile"
    BY DEF HelperStart
  <2>2. cpu[a].item \in TileItems
    BY <2>1, ItemKinds DEF JobInv, CpuType
  <2> QED BY <2>1, <2>2 DEF HelperStart, jobVars, pinVars
<1>2. \A j \in Jobs : cpu[a].item # JobItem(j)
  BY <1>1, ItemKinds
<1>3. CpuType(cpu')
  BY <1>1 DEF JobInv, CpuType, OnJob, Idle, Items
<1>4. NoneTaken(cpu, cpu')
  BY <1>1, <1>2 DEF NoneTaken, Holds, JobInv, CpuType, Idle
<1>5. RingType(ring') /\ Tame(ring, ring')
  BY <1>1 DEF JobInv, RingType, Tame
<1> QED BY <1>1, <1>3, <1>4, <1>5, JobsStay

\* ... or ends it.
LEMMA HelperEndJobs ==
    ASSUME JobInv, NEW a \in APs, HelperEnd(a)
    PROVE  JobInv' /\ NoneComes
<1>1. /\ cpu' = [cpu EXCEPT ![a] = Idle]
      /\ UNCHANGED <<ring, job, proc, exit, pinning, pinLock>>
  BY DEF HelperEnd, jobVars, pinVars
<1>3. CpuType(cpu')
  BY <1>1 DEF JobInv, CpuType, OnJob, Idle
<1>4. NoneTaken(cpu, cpu')
  BY <1>1 DEF NoneTaken, Holds, JobInv, CpuType, Idle
<1>5. RingType(ring') /\ Tame(ring, ring')
  BY <1>1 DEF JobInv, RingType, Tame
<1> QED BY <1>1, <1>3, <1>4, <1>5, JobsStay

\* A caller posts a helper, to the shortest ring.
LEMMA HelperPostJobs ==
    ASSUME JobInv, TileInv, NEW c \in Callers, HelperPost(c)
    PROVE  JobInv' /\ NoneComes
<1>1. UNCHANGED <<cpu, job, proc, exit, pinning, pinLock>>
  BY DEF HelperPost, callOnly, jobVars, pinVars
<1>2. CpuType(cpu') /\ NoneTaken(cpu, cpu')
  BY <1>1 DEF JobInv, CpuType, NoneTaken
<1>3. RingType(ring') /\ Tame(ring, ring')
  <2>1. CASE UNCHANGED ring
    BY <2>1 DEF JobInv, RingType, Tame
  <2>2. CASE /\ Accepts(LeastLoaded)
             /\ Enqueue(LeastLoaded, [kind |-> "tile", slot |-> call[c].slot, gen |-> call[c].gen,
                                      k |-> call[c].jobs + 1])
    <3>1. PICK a : a = LeastLoaded
      OBVIOUS
    <3>2. PICK e : e = Entry([kind |-> "tile", slot |-> call[c].slot, gen |-> call[c].gen,
                              k |-> call[c].jobs + 1])
      OBVIOUS
    <3>3. ring' = [ring EXCEPT ![a] = Append(@, e)] /\ Len(ring[a]) < Capacity
      BY <2>2, <3>1, <3>2 DEF Enqueue, Accepts
    <3>4. call[c].pc = "post"
      BY DEF HelperPost
    <3>5. call[c].slot \in Sets /\ call[c].gen \in Nat /\ call[c].jobs + 1 \in Nat
      BY <3>4 DEF TileInv, TileType, CallOwns
    <3>6. e.item \in TileItems /\ e \in RingEntries
      BY <3>2, <3>5 DEF Entry, TileItems, RingEntries, Items, JobInv, JobType
    <3>7. CASE a \in APs
      BY <3>3, <3>6, <3>7, AppendTame, ItemKinds DEF JobInv
    <3>8. CASE a \notin APs
      <4>1. ring' = ring
        BY <3>3, <3>8 DEF JobInv, RingType
      <4> QED BY <4>1 DEF JobInv, RingType, Tame
    <3> QED BY <3>7, <3>8
  <2> QED BY <2>1, <2>2 DEF HelperPost
<1> QED BY <1>1, <1>2, <1>3, JobsStay

-----------------------------------------------------------------------------
(* A compute job on its CPU.                                               *)

\* The CPU that holds a job goes on with it, or leaves it.
LEMMA HolderMoves ==
    ASSUME JobInv, NEW a \in APs, NEW j \in Jobs, Holds(cpu, a, j),
           UNCHANGED <<ring, proc>>, JobType', CpuType(cpu'),
           \A b \in APs : b # a => cpu'[b] = cpu[b],
           cpu'[a].item = cpu[a].item,
           \A h \in Jobs : h # j => job'[h] = job[h],
           job'[j].claim = job[j].claim, job'[j].owner = job[j].owner,
           Holds(cpu', a, j) => job'[j].state = IF cpu'[a].at = "ring3" THEN "running" ELSE "queued"
    PROVE  JobInv' /\ NoneComes
<1>1. /\ job[j].claim = a /\ job[j].owner \in Procs
      /\ \A i \in Nat : ~JobAt(ring, a, i, j)
  BY DEF JobInv, Placed
<1>2. ASSUME NEW b \in APs, b # a
      PROVE  ~Holds(cpu, b, j) /\ \A i \in Nat : ~JobAt(ring, b, i, j)
  BY <1>1, <1>2 DEF JobInv, Placed
<1>3. \A h \in Jobs : Holds(cpu', a, h) => h = j
  <2>1. cpu[a].item = JobItem(j)
    BY DEF Holds
  <2> QED BY <2>1 DEF Holds, JobItem
<1>4. NoneComes
  BY <1>3 DEF NoneComes, Live, Holds
<1>5. \A p \in Procs : Starts(p) => proc[p].j # j
  BY DEF JobInv, Starting, Live
<1>6. Starting'
  BY <1>4, <1>5 DEF JobInv, Starting, NoneComes, Starts
<1>7. Placed'
  <2> SUFFICES ASSUME NEW h \in Jobs, NEW b \in APs
      PROVE /\ \A i \in Nat : JobAt(ring, b, i, h) =>
                  /\ job'[h].claim = b /\ job'[h].state = "queued" /\ job'[h].owner \in Procs
                  /\ ring[b][i].pinned
                  /\ ~Holds(cpu', b, h)
                  /\ \A k \in Nat : JobAt(ring, b, k, h) => k = i
            /\ Holds(cpu', b, h) =>
                  /\ job'[h].claim = b /\ job'[h].owner \in Procs
                  /\ job'[h].state = IF cpu'[b].at = "ring3" THEN "running" ELSE "queued"
    BY DEF Placed, JobAt, Holds
  <2>1. CASE h = j
    <3>1. \A i \in Nat : ~JobAt(ring, b, i, h)
      BY <1>1, <1>2, <2>1
    <3>2. Holds(cpu', b, h) => b = a
      BY <1>2, <2>1 DEF Holds
    <3> QED BY <1>1, <2>1, <3>1, <3>2
  <2>2. CASE h # j
    <3>1. job'[h] = job[h]
      BY <2>2
    <3>2. Holds(cpu', b, h) => b # a /\ Holds(cpu, b, h) /\ cpu'[b] = cpu[b]
      BY <1>3, <2>2 DEF Holds
    <3> QED BY <3>1, <3>2 DEF JobInv, Placed
  <2> QED BY <2>1, <2>2
<1>8. RingType(ring)' /\ CpuType(cpu)'
  BY DEF JobInv, RingType, CpuType
<1> QED BY <1>4, <1>6, <1>7, <1>8 DEF JobInv

\* A CPU on a job has it.
LEMMA OnAJob ==
    ASSUME JobInv, NEW a \in APs,
           \/ cpu[a].at = "took" /\ IsJob(a)
           \/ cpu[a].at \in OnJob
    PROVE  /\ JobOf(a) \in Jobs /\ cpu[a].item = JobItem(JobOf(a))
           /\ cpu[a].at # "ended" => Holds(cpu, a, JobOf(a))
<1>1. PICK j \in Jobs : cpu[a].item = JobItem(j)
  BY ItemKinds DEF JobInv, CpuType, IsJob
<1>2. JobOf(a) = j
  BY <1>1, ItemKinds DEF JobOf
<1> QED BY <1>1, <1>2 DEF Holds, OnJob

\* A CPU goes on with the job that it has taken.
LEMMA JobRuns ==
    ASSUME JobInv, NEW a \in APs, JobCheck(a) \/ JobEnter(a) \/ JobLeaves(a) \/ KillArrives(a)
    PROVE  JobInv' /\ NoneComes
<1> DEFINE j == JobOf(a)
<1>1. j \in Jobs /\ cpu[a].item = JobItem(j) /\ Holds(cpu, a, j)
  BY OnAJob DEF JobCheck, JobEnter, JobLeaves, KillArrives, OnJob
<1>2. job \in [Jobs -> [state : JobStates, killReq : BOOLEAN, owner : Procs \cup {Nobody},
                        claim : APs \cup {0}, cpu : APs \cup {0}]]
  BY DEF JobInv, JobType
<1>3. cpu \in [APs -> [at : {"idle", "took", "helping"} \cup OnJob, item : Items \cup {Nobody}]]
  BY DEF JobInv, CpuType
<1>4. job[j].state = IF cpu[a].at = "ring3" THEN "running" ELSE "queued"
  BY <1>1 DEF JobInv, Placed
<1>5. UNCHANGED <<ring, proc, exit, pinning, pinLock>>
  BY DEF JobCheck, JobEnter, JobLeaves, KillArrives, jobOnly, pinVars
<1> HIDE DEF j
<1>6. CASE UNCHANGED <<job, cpu>>
  BY <1>5, <1>6, JobsUntouched
<1>7. ASSUME NEW to \in OnJob, cpu' = [cpu EXCEPT ![a].at = to],
             \/ UNCHANGED job /\ to = "dispatch" /\ cpu[a].at = "took"
             \/ \E why \in JobStates : job' = [job EXCEPT ![j].state = why] /\ to = "ended"
             \/ job' = [job EXCEPT ![j].cpu = a, ![j].state = "running"] /\ to = "ring3"
      PROVE JobInv' /\ NoneComes
  <2>1. /\ \A b \in APs : b # a => cpu'[b] = cpu[b]
        /\ cpu'[a].item = cpu[a].item /\ cpu'[a].at = to
    BY <1>3, <1>7
  <2>2. /\ \A h \in Jobs : h # j => job'[h] = job[h]
        /\ job'[j].claim = job[j].claim /\ job'[j].owner = job[j].owner
        /\ to = "dispatch" => job'[j].state = job[j].state /\ cpu[a].at = "took"
        /\ to = "ring3" => job'[j].state = "running"
    BY <1>1, <1>2, <1>7 DEF OnJob
  <2>3. CpuType(cpu')
    BY <1>1, <1>3, <1>7 DEF JobInv, CpuType, OnJob
  <2>4. job' \in [Jobs -> [state : JobStates, killReq : BOOLEAN, owner : Procs \cup {Nobody},
                           claim : APs \cup {0}, cpu : APs \cup {0}]]
    BY <1>1, <1>2, <1>7 DEF JobStates
  <2>5. JobType'
    BY <1>5, <2>4 DEF JobInv, JobType
  <2>6. Holds(cpu', a, j) => job'[j].state = IF cpu'[a].at = "ring3" THEN "running" ELSE "queued"
    BY <1>4, <1>7, <2>1, <2>2 DEF Holds, OnJob
  <2> QED BY <1>1, <1>5, <2>1, <2>2, <2>3, <2>5, <2>6, HolderMoves
<1>8. CASE JobCheck(a)
  BY <1>7, <1>8 DEF JobCheck, OnJob, JobStates, j
<1>9. CASE JobEnter(a)
  BY <1>7, <1>9 DEF JobEnter, OnJob, j
<1>10. CASE JobLeaves(a)
  BY <1>7, <1>10 DEF JobLeaves, Leave, OnJob, JobStates, j
<1>11. CASE KillArrives(a)
  BY <1>6, <1>7, <1>11 DEF KillArrives, Leave, OnJob, JobStates, j
<1> QED BY <1>8, <1>9, <1>10, <1>11

\* apu_job_fn() returns.
LEMMA JobOutJobs ==
    ASSUME JobInv, NEW a \in APs, JobOut(a)
    PROVE  JobInv' /\ NoneComes
<1>1. /\ cpu' = [cpu EXCEPT ![a] = Idle]
      /\ UNCHANGED <<ring, job, proc, exit, pinning, pinLock>>
  BY DEF JobOut, jobOnly, pinVars
<1>3. CpuType(cpu')
  BY <1>1 DEF JobInv, CpuType, OnJob, Idle
<1>4. NoneTaken(cpu, cpu')
  BY <1>1 DEF NoneTaken, Holds, JobInv, CpuType, Idle
<1>5. RingType(ring') /\ Tame(ring, ring')
  BY <1>1 DEF JobInv, RingType, Tame
<1> QED BY <1>1, <1>3, <1>4, <1>5, JobsStay

-----------------------------------------------------------------------------
(* The system calls of a process.                                          *)

JobRecords == [state : JobStates, killReq : BOOLEAN, owner : Procs \cup {Nobody},
               claim : APs \cup {0}, cpu : APs \cup {0}]
ProcRecords == [pc : {"user", "fields", "claim", "pin", "enqueue", "posted", "refused", "stop"},
                j : Jobs \cup {0}, c : APs \cup {0}]

\* A slot whose job is somewhere is in use.
LEMMA LiveIsActive ==
    ASSUME JobInv, NEW j \in Jobs, Live(ring, cpu, j)
    PROVE  job[j].state \in {"queued", "running"} /\ job[j].owner \in Procs
BY DEF JobInv, Placed, Live

\* The slots of the jobs that are somewhere are left alone.
SlotsKept ==
    \A j \in Jobs : Live(ring, cpu, j) =>
        job'[j].claim = job[j].claim /\ job'[j].state = job[j].state /\ job'[j].owner = job[j].owner

\* Steps that move no job, and change slots only where no job is.
LEMMA JobsInPlace ==
    ASSUME JobInv, UNCHANGED <<ring, cpu>>, JobType', SlotsKept, Starting'
    PROVE  JobInv' /\ NoneComes
<1>1. NoneComes
  BY DEF NoneComes
<1>2. Placed'
  <2> SUFFICES ASSUME NEW h \in Jobs, NEW b \in APs
      PROVE /\ \A i \in Nat : JobAt(ring, b, i, h) =>
                  /\ job'[h].claim = b /\ job'[h].state = "queued" /\ job'[h].owner \in Procs
                  /\ ring[b][i].pinned
                  /\ ~Holds(cpu, b, h)
                  /\ \A k \in Nat : JobAt(ring, b, k, h) => k = i
            /\ Holds(cpu, b, h) =>
                  /\ job'[h].claim = b /\ job'[h].owner \in Procs
                  /\ job'[h].state = IF cpu[b].at = "ring3" THEN "running" ELSE "queued"
    BY DEF Placed, JobAt, Holds
  <2>1. CASE Live(ring, cpu, h)
    BY <2>1 DEF JobInv, Placed, SlotsKept
  <2>2. CASE ~Live(ring, cpu, h)
    BY <2>2 DEF Live
  <2> QED BY <2>1, <2>2
<1>3. RingType(ring)' /\ CpuType(cpu)'
  BY DEF JobInv, RingType, CpuType
<1> QED BY <1>1, <1>2, <1>3 DEF JobInv

\* The processes other than p go on with what they start.
LEMMA OthersStart ==
    ASSUME JobInv, NEW p \in Procs, UNCHANGED <<ring, cpu>>,
           \A q \in Procs : q # p => proc'[q] = proc[q],
           \A q \in Procs : q # p /\ Starts(q) =>
              /\ job'[proc[q].j].state = job[proc[q].j].state
              /\ job'[proc[q].j].owner = job[proc[q].j].owner
              /\ job'[proc[q].j].claim = job[proc[q].j].claim,
           Starts(p)' =>
              /\ proc'[p].j \in Jobs
              /\ job'[proc'[p].j].state = "queued" /\ ~Live(ring, cpu, proc'[p].j)
              /\ proc'[p].pc # "fields" => job'[proc'[p].j].owner = p
              /\ proc'[p].pc \in {"pin", "enqueue"} =>
                    proc'[p].c \in APs /\ job'[proc'[p].j].claim = proc'[p].c
              /\ \A q \in Procs : q # p /\ Starts(q) => proc[q].j # proc'[p].j
    PROVE  Starting'
<1>1. \A q \in Procs : q # p => (Starts(q)' <=> Starts(q))
  BY DEF Starts
<1>2. ASSUME NEW q \in Procs, Starts(q)'
      PROVE  /\ proc'[q].j \in Jobs
             /\ job'[proc'[q].j].state = "queued" /\ ~Live(ring, cpu, proc'[q].j)
             /\ proc'[q].pc # "fields" => job'[proc'[q].j].owner = q
             /\ proc'[q].pc \in {"pin", "enqueue"} =>
                   proc'[q].c \in APs /\ job'[proc'[q].j].claim = proc'[q].c
             /\ \A x \in Procs : Starts(x)' /\ proc'[x].j = proc'[q].j => x = q
  <2>1. CASE q = p
    BY <1>1, <1>2, <2>1
  <2>2. CASE q # p
    <3>1. Starts(q) /\ proc'[q] = proc[q]
      BY <1>1, <1>2, <2>2
    <3>2. /\ proc[q].j \in Jobs
          /\ job[proc[q].j].state = "queued" /\ ~Live(ring, cpu, proc[q].j)
          /\ proc[q].pc # "fields" => job[proc[q].j].owner = q
          /\ proc[q].pc \in {"pin", "enqueue"} =>
                proc[q].c \in APs /\ job[proc[q].j].claim = proc[q].c
          /\ \A x \in Procs : Starts(x) /\ proc[x].j = proc[q].j => x = q
      BY <3>1 DEF JobInv, Starting
    <3>3. \A x \in Procs : Starts(x)' /\ proc'[x].j = proc'[q].j => x = q
      <4> SUFFICES ASSUME NEW x \in Procs, Starts(x)', proc'[x].j = proc'[q].j PROVE x = q
        OBVIOUS
      <4>1. CASE x = p
        BY <2>2, <3>1, <4>1
      <4>2. CASE x # p
        BY <1>1, <3>1, <3>2, <4>2
      <4> QED BY <4>1, <4>2
    <3> QED BY <2>2, <3>1, <3>2, <3>3
  <2> QED BY <2>1, <2>2
<1> QED BY <1>2 DEF Starting

\* smp_user_start() takes a free slot ...
LEMMA StartJobs ==
    ASSUME JobInv, NEW p \in Procs, Start(p)
    PROVE  JobInv' /\ NoneComes
<1>1. PICK j : j = Least(FreeJobs)
  OBVIOUS
<1>2. j \in Jobs /\ job[j].state = "free"
  <2>1. FreeJobs \subseteq Nat /\ FreeJobs # {}
    BY ApWorkAssumption DEF FreeJobs, Start
  <2> QED BY <1>1, <2>1, LeastIs DEF FreeJobs
<1>3. /\ job' = [job EXCEPT ![j].state = "queued"]
      /\ proc' = [proc EXCEPT ![p] = [pc |-> "fields", j |-> j, c |-> 0]]
      /\ UNCHANGED <<ring, cpu, exit, pinning, pinLock>>
  BY <1>1 DEF Start, pinVars
<1>4. job \in [Jobs -> JobRecords] /\ proc \in [Procs -> ProcRecords]
  BY DEF JobInv, JobType, JobRecords, ProcRecords
<1>5. job' \in [Jobs -> JobRecords] /\ proc' \in [Procs -> ProcRecords]
  <2>1. job' \in [Jobs -> JobRecords]
    BY <1>2, <1>3, <1>4 DEF JobRecords, JobStates
  <2>2. proc' \in [Procs -> ProcRecords]
    BY <1>2, <1>3, <1>4 DEF ProcRecords
  <2> QED BY <2>1, <2>2
<1>6. JobType'
  BY <1>3, <1>4, <1>5 DEF JobInv, JobType, JobRecords, ProcRecords
<1>7. ~Live(ring, cpu, j)
  BY <1>2, LiveIsActive
<1>8. SlotsKept
  BY <1>3, <1>4, <1>7 DEF SlotsKept
<1>9. Starting'
  <2>1. /\ proc'[p].pc = "fields" /\ proc'[p].j = j /\ job'[j].state = "queued"
        /\ \A q \in Procs : q # p => proc'[q] = proc[q]
        /\ \A h \in Jobs : h # j => job'[h] = job[h]
    BY <1>2, <1>3, <1>4 DEF JobRecords
  <2>2. \A q \in Procs : Starts(q) => proc[q].j # j
    BY <1>2 DEF JobInv, Starting
  <2> QED BY <1>2, <1>3, <1>7, <2>1, <2>2 DEF JobInv, Starting, Starts
<1> QED BY <1>3, <1>6, <1>8, <1>9, JobsInPlace

\* ... fills it in ...
LEMMA StartFieldsJobs ==
    ASSUME JobInv, NEW p \in Procs, StartFields(p)
    PROVE  JobInv' /\ NoneComes
<1>1. PICK j : j = proc[p].j
  OBVIOUS
<1>2. j \in Jobs /\ job[j].state = "queued" /\ ~Live(ring, cpu, j)
  BY <1>1 DEF JobInv, Starting, StartFields, Starts
<1>3. /\ job' = [job EXCEPT ![j].killReq = FALSE, ![j].owner = p]
      /\ proc' = [proc EXCEPT ![p].pc = "claim"] /\ proc[p].pc = "fields"
      /\ UNCHANGED <<ring, cpu, exit, pinning, pinLock>>
  BY <1>1 DEF StartFields, pinVars, procOnly
<1>4. job \in [Jobs -> JobRecords] /\ proc \in [Procs -> ProcRecords]
  BY DEF JobInv, JobType, JobRecords, ProcRecords
<1>5. job' \in [Jobs -> JobRecords] /\ proc' \in [Procs -> ProcRecords]
  <2>1. job' \in [Jobs -> JobRecords]
    <3>1. PICK z : z = [job[j] EXCEPT !.killReq = FALSE, !.owner = p]
      OBVIOUS
    <3>2. z \in JobRecords
      BY <1>2, <1>4, <3>1 DEF JobRecords
    <3>3. job' = [job EXCEPT ![j] = z]
      BY <1>2, <1>3, <1>4, <3>1 DEF JobRecords
    <3> QED BY <1>4, <3>2, <3>3
  <2>2. proc' \in [Procs -> ProcRecords]
    BY <1>3, <1>4 DEF ProcRecords
  <2> QED BY <2>1, <2>2
<1>6. JobType'
  BY <1>3, <1>4, <1>5 DEF JobInv, JobType, JobRecords, ProcRecords
<1>8. SlotsKept
  BY <1>2, <1>3, <1>4 DEF SlotsKept
<1>9. Starting'
  <2>1. /\ proc'[p].pc = "claim" /\ proc'[p].j = j
        /\ job'[j].state = "queued" /\ job'[j].owner = p
        /\ \A q \in Procs : q # p => proc'[q] = proc[q]
        /\ \A h \in Jobs : h # j => job'[h] = job[h]
    BY <1>1, <1>2, <1>3, <1>4 DEF JobRecords, ProcRecords
  <2>2. \A q \in Procs : Starts(q) /\ q # p => proc[q].j # j
    BY <1>1, <1>3 DEF JobInv, Starting, Starts
  <2>3. \A q \in Procs : Starts(q) => proc[q].j \in Jobs
    BY DEF JobInv, Starting
  <2>4. \A q \in Procs : q # p /\ Starts(q) =>
           /\ job'[proc[q].j].state = job[proc[q].j].state
           /\ job'[proc[q].j].owner = job[proc[q].j].owner
           /\ job'[proc[q].j].claim = job[proc[q].j].claim
    BY <2>1, <2>2, <2>3
  <2>5. /\ proc'[p].j \in Jobs
        /\ job'[proc'[p].j].state = "queued" /\ ~Live(ring, cpu, proc'[p].j)
        /\ proc'[p].pc # "fields" => job'[proc'[p].j].owner = p
        /\ proc'[p].pc \notin {"pin", "enqueue"}
        /\ \A q \in Procs : q # p /\ Starts(q) => proc[q].j # proc'[p].j
    BY <1>2, <2>1, <2>2
  <2> QED BY <1>3, <2>1, <2>4, <2>5, OthersStart
<1> QED BY <1>3, <1>6, <1>8, <1>9, JobsInPlace

\* ... and looks for a CPU.
LEMMA StartClaimJobs ==
    ASSUME JobInv, NEW p \in Procs, StartClaim(p)
    PROVE  JobInv' /\ NoneComes
<1>1. PICK j : j = proc[p].j
  OBVIOUS
<1>2. /\ j \in Jobs /\ job[j].state = "queued" /\ ~Live(ring, cpu, j) /\ job[j].owner = p
      /\ proc[p].pc = "claim"
  BY <1>1 DEF JobInv, Starting, StartClaim, Starts
<1>3. UNCHANGED <<ring, cpu, exit, pinning, pinLock>>
  BY DEF StartClaim, pinVars, procOnly
<1>4. job \in [Jobs -> JobRecords] /\ proc \in [Procs -> ProcRecords]
  BY DEF JobInv, JobType, JobRecords, ProcRecords
<1>5. \A q \in Procs : Starts(q) /\ q # p => proc[q].j # j
  BY <1>1, <1>2 DEF JobInv, Starting, Starts
<1>6. ASSUME job' \in [Jobs -> JobRecords], proc' \in [Procs -> ProcRecords],
             \A h \in Jobs : h # j => job'[h] = job[h],
             \A q \in Procs : q # p => proc'[q] = proc[q],
             proc'[p].pc \in {"user", "claim", "pin"},
             proc'[p].pc # "user" =>
                /\ job'[j].state = "queued" /\ job'[j].owner = p /\ proc'[p].j = j
                /\ proc'[p].pc = "pin" => proc'[p].c \in APs /\ job'[j].claim = proc'[p].c
      PROVE  JobInv' /\ NoneComes
  <2>1. JobType'
    BY <1>3, <1>6 DEF JobInv, JobType, JobRecords, ProcRecords
  <2>2. SlotsKept
    BY <1>2, <1>6 DEF SlotsKept
  <2>3. Starting'
    BY <1>2, <1>3, <1>5, <1>6 DEF JobInv, Starting, Starts
  <2> QED BY <1>3, <2>1, <2>2, <2>3, JobsInPlace
<1>7. CASE After(p) = {}
  <2>1. /\ job' = [job EXCEPT ![j].state = "free"]
        /\ proc' = [proc EXCEPT ![p] = NotInCall]
    BY <1>1, <1>7 DEF StartClaim
  <2>2. job' \in [Jobs -> JobRecords] /\ \A h \in Jobs : h # j => job'[h] = job[h]
    BY <1>2, <1>4, <2>1 DEF JobRecords, JobStates
  <2>3. /\ proc' \in [Procs -> ProcRecords] /\ proc'[p].pc = "user"
        /\ \A q \in Procs : q # p => proc'[q] = proc[q]
    BY <1>4, <2>1 DEF ProcRecords, NotInCall
  <2> QED BY <1>6, <2>2, <2>3
<1>8. CASE After(p) # {}
  <2>1. PICK a : a = Least(After(p))
    OBVIOUS
  <2>2. a \in APs
    <3>1. After(p) \subseteq Nat
      BY ApWorkAssumption DEF After
    <3> QED BY <1>8, <2>1, <3>1, LeastIs DEF After
  <2>3. CASE a \in busy
    <3>1. job' = job /\ proc' = [proc EXCEPT ![p].c = a]
      BY <1>8, <2>1, <2>3 DEF StartClaim
    <3> QED BY <1>1, <1>2, <1>4, <1>6, <2>2, <3>1 DEF JobRecords, ProcRecords
  <2>4. CASE a \notin busy
    <3>1. /\ job' = [job EXCEPT ![j].claim = a]
          /\ proc' = [proc EXCEPT ![p].pc = "pin", ![p].c = a]
      BY <1>1, <1>8, <2>1, <2>4 DEF StartClaim
    <3>2. job' \in [Jobs -> JobRecords] /\ proc' \in [Procs -> ProcRecords]
      <4>1. job' \in [Jobs -> JobRecords]
        BY <1>2, <1>4, <2>2, <3>1 DEF JobRecords
      <4>2. PICK z : z = [proc[p] EXCEPT !.pc = "pin", !.c = a]
        OBVIOUS
      <4>3. z \in ProcRecords
        BY <1>4, <2>2, <4>2 DEF ProcRecords
      <4>4. proc' = [proc EXCEPT ![p] = z]
        BY <1>4, <3>1, <4>2 DEF ProcRecords
      <4> QED BY <1>4, <4>1, <4>3, <4>4
    <3>3. /\ \A h \in Jobs : h # j => job'[h] = job[h]
          /\ job'[j].state = "queued" /\ job'[j].owner = p /\ job'[j].claim = a
      BY <1>2, <1>4, <3>1 DEF JobRecords
    <3>4. /\ \A q \in Procs : q # p => proc'[q] = proc[q]
          /\ proc'[p].pc = "pin" /\ proc'[p].c = a /\ proc'[p].j = j
      BY <1>1, <1>4, <3>1 DEF ProcRecords
    <3> QED BY <1>6, <2>2, <3>2, <3>3, <3>4
  <2> QED BY <2>3, <2>4
<1> QED BY <1>7, <1>8

\* smp_submit_pinned_work_to_cpu() sets its flag ...
LEMMA PinOnJobs ==
    ASSUME JobInv, NEW p \in Procs, PinOn(p)
    PROVE  JobInv' /\ NoneComes
<1>1. /\ proc' = [proc EXCEPT ![p].pc = "enqueue"] /\ proc[p].pc = "pin"
      /\ pinLock = Nobody /\ pinLock' = p /\ pinning' = TRUE
      /\ UNCHANGED <<ring, cpu, job, exit>>
  BY DEF PinOn, procOnly
<1>2. proc \in [Procs -> ProcRecords]
  BY DEF JobInv, JobType, ProcRecords
<1>3. /\ proc' \in [Procs -> ProcRecords]
      /\ proc'[p].pc = "enqueue" /\ proc'[p].j = proc[p].j /\ proc'[p].c = proc[p].c
      /\ \A q \in Procs : q # p => proc'[q] = proc[q]
  BY <1>1, <1>2 DEF ProcRecords
<1>4. \A q \in Procs : proc[q].pc \notin {"enqueue", "posted", "refused"}
  BY <1>1, ApWorkAssumption DEF JobInv, JobType
<1>5. JobType'
  BY <1>1, <1>3, <1>4 DEF JobInv, JobType, ProcRecords
<1>6. SlotsKept
  BY <1>1 DEF SlotsKept
<1>7. Starts(p)
  BY <1>1 DEF Starts
<1>8. /\ proc[p].j \in Jobs /\ job[proc[p].j].state = "queued" /\ ~Live(ring, cpu, proc[p].j)
      /\ job[proc[p].j].owner = p /\ proc[p].c \in APs /\ job[proc[p].j].claim = proc[p].c
      /\ \A q \in Procs : q # p /\ Starts(q) => proc[q].j # proc[p].j
  BY <1>1, <1>7 DEF JobInv, Starting
<1>9. Starting'
  BY <1>1, <1>3, <1>8, OthersStart
<1> QED BY <1>1, <1>5, <1>6, <1>9, JobsInPlace

\* ... puts the job into the ring of the CPU that was claimed, if it accepts ...
LEMMA PinEnqueueJobs ==
    ASSUME JobInv, NEW p \in Procs, PinEnqueue(p)
    PROVE  /\ JobInv'
           /\ \A j \in Jobs : Live(ring', cpu', j) => Live(ring, cpu, j) \/ job[j].owner = p
<1>1. /\ proc[p].pc = "enqueue"
      /\ UNCHANGED <<cpu, job, exit, pinning, pinLock>>
  BY DEF PinEnqueue, procOnly, pinVars
<1>2. PICK j : j = proc[p].j
  OBVIOUS
<1>3. PICK a : a = proc[p].c
  OBVIOUS
<1>4. /\ j \in Jobs /\ a \in APs
      /\ job[j].state = "queued" /\ ~Live(ring, cpu, j)
      /\ job[j].owner = p /\ job[j].claim = a
      /\ \A q \in Procs : q # p /\ Starts(q) => proc[q].j # j
  BY <1>1, <1>2, <1>3 DEF JobInv, Starting, Starts
<1>5. proc \in [Procs -> ProcRecords] /\ pinLock = p /\ pinning
  BY <1>1 DEF JobInv, JobType, ProcRecords
<1>6. CASE ~Accepts(a)
  <2>1. proc' = [proc EXCEPT ![p].pc = "refused"] /\ UNCHANGED ring
    BY <1>3, <1>6 DEF PinEnqueue
  <2>2. /\ proc' \in [Procs -> ProcRecords]
        /\ proc'[p].pc = "refused" /\ proc'[p].j = j
        /\ \A q \in Procs : q # p => proc'[q] = proc[q]
    BY <1>2, <1>5, <2>1 DEF ProcRecords
  <2>3. JobType'
    BY <1>1, <1>5, <2>2 DEF JobInv, JobType, ProcRecords
  <2>4. SlotsKept
    BY <1>1 DEF SlotsKept
  <2>5. Starting'
    BY <1>1, <1>4, <2>1, <2>2, OthersStart
  <2> QED BY <1>1, <2>1, <2>3, <2>4, <2>5, JobsInPlace DEF NoneComes
<1>7. CASE Accepts(a)
  <2>1. PICK e : e = Entry(JobItem(j))
    OBVIOUS
  <2>2. /\ ring' = [ring EXCEPT ![a] = Append(@, e)] /\ Len(ring[a]) < Capacity
        /\ proc' = [proc EXCEPT ![p].pc = "posted"]
    BY <1>2, <1>3, <1>7, <2>1 DEF PinEnqueue, Enqueue, Accepts, JobItem
  <2>3. e \in RingEntries /\ e.pinned /\ e.item = JobItem(j)
    BY <1>4, <1>5, <2>1 DEF Entry, RingEntries, Items
  <2>4. PICK w : w = Append(ring[a], e)
    OBVIOUS
  <2>5. ring[a] \in Seq(RingEntries)
    BY <1>4 DEF JobInv, RingType
  <2>6. /\ w \in Seq(RingEntries) /\ Len(w) = Len(ring[a]) + 1
        /\ \A k \in 1 .. Len(ring[a]) : w[k] = ring[a][k]
        /\ w[Len(ring[a]) + 1] = e
    BY <2>3, <2>4, <2>5
  <2>7. /\ ring' \in [APs -> Seq(RingEntries)] /\ ring'[a] = w
        /\ \A b \in APs : b # a => ring'[b] = ring[b]
    BY <1>4, <2>2, <2>4, <2>6 DEF JobInv, RingType
  <2>8. Len(ring[a]) \in Nat /\ Capacity \in Nat
    BY <2>5, ApWorkAssumption
  <2>9. RingType(ring')
    <3>1. \A b \in APs : Len(ring[b]) <= Capacity
      BY DEF JobInv, RingType
    <3>2. Len(w) <= Capacity
      BY <2>2, <2>6, <2>8
    <3>3. \A b \in APs : Len(ring'[b]) <= Capacity
      BY <2>7, <3>1, <3>2
    <3> QED BY <2>7, <3>3 DEF RingType
  <2>10. \A b \in APs, h \in Jobs : ~Holds(cpu, b, j) /\ \A i \in Nat : ~JobAt(ring, b, i, j)
    BY <1>4 DEF Live
  <2>11. ASSUME NEW b \in APs, NEW h \in Jobs, NEW i \in Nat, JobAt(ring', b, i, h)
         PROVE  \/ h # j /\ JobAt(ring, b, i, h) /\ ring'[b][i] = ring[b][i]
                \/ h = j /\ b = a /\ i = Len(ring[a]) + 1 /\ ring'[b][i] = e
    <3>1. CASE b # a
      BY <2>7, <2>10, <2>11, <3>1 DEF JobAt
    <3>2. CASE b = a /\ i \in 1 .. Len(ring[a])
      <4>1. ring'[b][i] = ring[b][i] /\ JobAt(ring, b, i, h)
        BY <2>6, <2>7, <2>11, <3>2 DEF JobAt
      <4> QED BY <2>10, <4>1
    <3>3. CASE b = a /\ i \notin 1 .. Len(ring[a])
      <4>1. i = Len(ring[a]) + 1 /\ ring'[b][i] = e /\ e.item = JobItem(h)
        BY <2>6, <2>7, <2>8, <2>11, <3>3 DEF JobAt
      <4>2. h = j
        BY <2>3, <4>1 DEF JobItem
      <4> QED BY <3>3, <4>1, <4>2
    <3> QED BY <3>1, <3>2, <3>3
  <2>12. ASSUME NEW h \in Jobs, Live(ring', cpu', h)
         PROVE  Live(ring, cpu, h) \/ h = j
    BY <1>1, <2>11, <2>12 DEF Live, Holds
  <2>13. /\ proc' \in [Procs -> ProcRecords]
         /\ proc'[p].pc = "posted"
         /\ \A q \in Procs : q # p => proc'[q] = proc[q]
    BY <1>5, <2>2 DEF ProcRecords
  <2>14. JobType'
    BY <1>1, <1>5, <2>13 DEF JobInv, JobType, ProcRecords
  <2>15. Starting'
    <3>1. ~Starts(p)' /\ \A q \in Procs : q # p => (Starts(q)' <=> Starts(q))
      BY <2>13 DEF Starts
    <3>2. \A q \in Procs : Starts(q)' => q # p /\ Starts(q) /\ proc'[q] = proc[q] /\ proc[q].j # j
      BY <1>4, <2>13, <3>1
    <3>3. \A q \in Procs : Starts(q)' => ~Live(ring', cpu', proc[q].j)
      BY <2>12, <3>2 DEF JobInv, Starting
    <3>4. \A q \in Procs : Starts(q)' =>
             /\ proc[q].j \in Jobs
             /\ job[proc[q].j].state = "queued"
             /\ proc[q].pc # "fields" => job[proc[q].j].owner = q
             /\ proc[q].pc \in {"pin", "enqueue"} =>
                   proc[q].c \in APs /\ job[proc[q].j].claim = proc[q].c
             /\ \A x \in Procs : Starts(x) /\ proc[x].j = proc[q].j => x = q
      BY <3>2 DEF JobInv, Starting
    <3> QED BY <1>1, <3>2, <3>3, <3>4 DEF Starting
  <2>16. Placed'
    <3> SUFFICES ASSUME NEW h \in Jobs, NEW b \in APs
        PROVE /\ \A i \in Nat : JobAt(ring', b, i, h) =>
                    /\ job[h].claim = b /\ job[h].state = "queued" /\ job[h].owner \in Procs
                    /\ ring'[b][i].pinned
                    /\ ~Holds(cpu, b, h)
                    /\ \A k \in Nat : JobAt(ring', b, k, h) => k = i
              /\ Holds(cpu, b, h) =>
                    /\ job[h].claim = b /\ job[h].owner \in Procs
                    /\ job[h].state = IF cpu[b].at = "ring3" THEN "running" ELSE "queued"
      BY <1>1 DEF Placed, JobAt, Holds
    <3>1. CASE h = j
      <4>1. \A i \in Nat : JobAt(ring', b, i, h) => b = a /\ i = Len(ring[a]) + 1 /\ ring'[b][i] = e
        BY <2>11, <3>1
      <4> QED BY <1>4, <2>3, <2>10, <3>1, <4>1
    <3>2. CASE h # j
      <4>1. \A i \in Nat : JobAt(ring', b, i, h) => JobAt(ring, b, i, h) /\ ring'[b][i] = ring[b][i]
        BY <2>11, <3>2
      <4> QED BY <4>1 DEF JobInv, Placed
    <3> QED BY <3>1, <3>2
  <2>17. RingType(ring)' /\ CpuType(cpu)'
    BY <1>1, <2>9 DEF JobInv, RingType, CpuType
  <2>18. JobInv'
    BY <2>14, <2>15, <2>16, <2>17 DEF JobInv
  <2> QED BY <1>4, <2>12, <2>18
<1> QED BY <1>6, <1>7

\* ... and takes the flag back.
LEMMA PinOffJobs ==
    ASSUME JobInv, NEW p \in Procs, PinOff(p)
    PROVE  JobInv' /\ NoneComes
<1>1. /\ proc[p].pc \in {"posted", "refused"}
      /\ proc' = [proc EXCEPT ![p] = NotInCall] \/ proc' = [proc EXCEPT ![p].pc = "claim"]
      /\ proc' = [proc EXCEPT ![p].pc = "claim"] \/ proc[p].pc = "posted"
      /\ UNCHANGED <<ring, cpu, job, exit>>
  BY DEF PinOff, procOnly
<1>2. proc[p].pc = "posted" => proc' = [proc EXCEPT ![p] = NotInCall]
  BY DEF PinOff
<1>3. pinLock = p /\ pinLock' = Nobody /\ pinning' = FALSE
  BY <1>1 DEF PinOff, JobInv, JobType
<1>4. proc \in [Procs -> ProcRecords]
  BY DEF JobInv, JobType, ProcRecords
<1>5. /\ proc' \in [Procs -> ProcRecords]
      /\ \A q \in Procs : q # p => proc'[q] = proc[q]
  BY <1>1, <1>4 DEF ProcRecords, NotInCall
<1>6. \/ proc'[p].pc = "user"
      \/ proc'[p].pc = "claim" /\ proc'[p].j = proc[p].j /\ proc[p].pc = "refused"
  BY <1>1, <1>2, <1>4 DEF ProcRecords, NotInCall
<1>7. \A q \in Procs : q # p => proc[q].pc \notin {"enqueue", "posted", "refused"}
  BY <1>3 DEF JobInv, JobType
<1>8. JobType'
  BY <1>1, <1>3, <1>5, <1>6, <1>7 DEF JobInv, JobType, ProcRecords
<1>9. SlotsKept
  BY <1>1 DEF SlotsKept
<1>10. Starting'
  <2>1. CASE proc'[p].pc = "user"
    <3>1. ~Starts(p)'
      BY <2>1 DEF Starts
    <3> QED BY <1>1, <1>5, <3>1, OthersStart
  <2>2. CASE proc'[p].pc = "claim" /\ proc'[p].j = proc[p].j /\ proc[p].pc = "refused"
    <3>1. /\ proc[p].j \in Jobs /\ job[proc[p].j].state = "queued" /\ ~Live(ring, cpu, proc[p].j)
          /\ job[proc[p].j].owner = p
          /\ \A q \in Procs : q # p /\ Starts(q) => proc[q].j # proc[p].j
      BY <2>2 DEF JobInv, Starting, Starts
    <3> QED BY <1>1, <1>5, <2>2, <3>1, OthersStart
  <2> QED BY <1>6, <2>1, <2>2
<1> QED BY <1>1, <1>8, <1>9, <1>10, JobsInPlace

\* smp_user_stop(), smp_user_free() and the end of a stop.
LEMMA StopJobs ==
    ASSUME JobInv, NEW p \in Procs,
           (\E j \in Jobs : Stop(p, j) \/ FreeJob(p, j)) \/ StopSend(p)
    PROVE  JobInv' /\ NoneComes
<1>1. UNCHANGED <<ring, cpu, exit, pinning, pinLock>>
  BY DEF Stop, FreeJob, StopSend, procOnly, pinVars
<1>2. job \in [Jobs -> JobRecords] /\ proc \in [Procs -> ProcRecords]
  BY DEF JobInv, JobType, JobRecords, ProcRecords
<1>3. ~Starts(p) /\ proc[p].pc \notin {"enqueue", "posted", "refused"}
  BY DEF Stop, FreeJob, StopSend, Ready, Starts
<1>4. /\ proc' \in [Procs -> ProcRecords] /\ proc'[p].pc \in {"user", "stop"}
      /\ \A q \in Procs : q # p => proc'[q] = proc[q]
  <2>1. \/ proc' = proc /\ proc[p].pc = "user"
        \/ proc' = [proc EXCEPT ![p] = NotInCall]
        \/ \E j \in Jobs : proc' = [proc EXCEPT ![p] = [pc |-> "stop", j |-> j, c |-> 0]]
    BY DEF Stop, FreeJob, StopSend, Ready
  <2> QED BY <1>2, <2>1 DEF ProcRecords, NotInCall
<1>5. /\ job' \in [Jobs -> JobRecords]
      /\ \A j \in Jobs : job'[j].owner = job[j].owner /\ job'[j].claim = job[j].claim
      /\ \A j \in Jobs : job[j].state \in {"queued", "running"} => job'[j].state = job[j].state
  <2>1. \/ job' = job
        \/ \E j \in Jobs : job' = [job EXCEPT ![j].killReq = TRUE]
        \/ \E j \in Jobs : job' = [job EXCEPT ![j].state = "free"] /\ job[j].state \notin {"queued", "running"}
    BY DEF Stop, FreeJob, StopSend, Freeable, Active
  <2>2. CASE job' = job
    BY <1>2, <2>2
  <2>3. ASSUME NEW j \in Jobs, job' = [job EXCEPT ![j].killReq = TRUE] PROVE <1>5!:
    BY <1>2, <2>3 DEF JobRecords
  <2>4. ASSUME NEW j \in Jobs, job' = [job EXCEPT ![j].state = "free"],
               job[j].state \notin {"queued", "running"}
        PROVE <1>5!:
    BY <1>2, <2>4 DEF JobRecords, JobStates
  <2> QED BY <2>1, <2>2, <2>3, <2>4
<1>6. JobType'
  BY <1>1, <1>3, <1>4, <1>5 DEF JobInv, JobType, JobRecords, ProcRecords
<1>7. SlotsKept
  BY <1>5, LiveIsActive DEF SlotsKept
<1>8. Starting'
  <2>1. \A q \in Procs : Starts(q) => proc[q].j \in Jobs /\ job[proc[q].j].state = "queued"
    BY DEF JobInv, Starting
  <2>2. ~Starts(p)'
    BY <1>4 DEF Starts
  <2> QED BY <1>1, <1>4, <1>5, <2>1, <2>2, OthersStart
<1> QED BY <1>1, <1>6, <1>7, <1>8, JobsInPlace

ExitRecords == [at : {"alive", "looking", "stopped", "gone"}, j : Jobs \cup {0}]

\* What smp_user_kill_owner() does next.
LEMMA NextSlot ==
    ASSUME NEW j \in Jobs
    PROVE  /\ Least(Jobs) \in Jobs /\ \A h \in Jobs : Least(Jobs) <= h
           /\ Later(j) # {} => /\ Least(Later(j)) \in Jobs
                               /\ \A h \in Jobs : h < Least(Later(j)) => h <= j
           /\ Later(j) = {} => \A h \in Jobs : h <= j
<1>1. Jobs \subseteq Nat /\ Jobs # {} /\ Later(j) \subseteq Nat
  BY ApWorkAssumption DEF Later
<1>2. Later(j) # {} => Least(Later(j)) \in Later(j) /\ \A h \in Later(j) : Least(Later(j)) <= h
  BY <1>1, LeastIs
<1>3. ASSUME Later(j) # {}, NEW h \in Jobs, h < Least(Later(j)) PROVE h <= j
  BY <1>1, <1>2, <1>3 DEF Later
<1>4. Least(Jobs) \in Jobs /\ \A h \in Jobs : Least(Jobs) <= h
  BY <1>1, LeastIs
<1>5. Later(j) = {} => \A h \in Jobs : h <= j
  BY <1>1 DEF Later
<1> QED BY <1>2, <1>3, <1>4, <1>5 DEF Later

\* process_exit() and the reaper.
LEMMA ExitJobs ==
    ASSUME JobInv, NEW p \in Procs,
           ExitBegins(p) \/ KillPass(p) \/ KillRequest(p) \/ Reap(p)
    PROVE  /\ JobInv' /\ NoneComes /\ UNCHANGED proc
           /\ \A j \in Jobs : Live(ring, cpu, j) => job'[j].owner = job[j].owner
<1>1. UNCHANGED <<ring, cpu, proc, pinning, pinLock>>
  BY DEF ExitBegins, KillPass, KillRequest, Reap, exitOnly, jobOnly, pinVars
<1>2. job \in [Jobs -> JobRecords] /\ exit \in [Procs -> ExitRecords]
  BY DEF JobInv, JobType, JobRecords, ExitRecords
<1>3. exit[p].at = "looking" => exit[p].j \in Jobs
  BY DEF JobInv, JobType
<1>4. /\ exit' \in [Procs -> ExitRecords]
      /\ \A q \in Procs : exit'[q].at = "looking" => exit'[q].j \in Jobs
  <2>1. /\ Least(Jobs) \in Jobs
        /\ exit[p].at = "looking" /\ Later(exit[p].j) # {} => Least(Later(exit[p].j)) \in Jobs
    <3>1. PICK j \in Jobs : TRUE
      BY ApWorkAssumption
    <3> QED BY <1>3, <3>1, NextSlot
  <2>2. \/ exit' = exit
        \/ \E j \in Jobs : exit' = [exit EXCEPT ![p] = Looking(j)]
        \/ exit' = [exit EXCEPT ![p] = Stopped]
        \/ exit' = [exit EXCEPT ![p].at = "gone"]
    BY <2>1 DEF ExitBegins, KillPass, KillRequest, Reap
  <2>3. \A q \in Procs : exit[q].at = "looking" => exit[q].j \in Jobs
    BY DEF JobInv, JobType
  <2> QED BY <1>2, <2>2, <2>3 DEF ExitRecords, Looking, Stopped
<1>5. /\ job' \in [Jobs -> JobRecords]
      /\ \A j \in Jobs : job'[j].owner = job[j].owner /\ job'[j].claim = job[j].claim
      /\ \A j \in Jobs : job[j].state \in {"queued", "running"} => job'[j].state = job[j].state
  <2>1. \/ job' = job
        \/ \E j \in Jobs : job' = [job EXCEPT ![j].killReq = TRUE]
        \/ \E j \in Jobs : job' = [job EXCEPT ![j].state = "free"] /\ job[j].state \notin {"queued", "running"}
    BY <1>3 DEF ExitBegins, KillPass, KillRequest, Reap, Over, Active
  <2>2. CASE job' = job
    BY <1>2, <2>2
  <2>3. ASSUME NEW j \in Jobs, job' = [job EXCEPT ![j].killReq = TRUE] PROVE <1>5!:
    BY <1>2, <2>3 DEF JobRecords
  <2>4. ASSUME NEW j \in Jobs, job' = [job EXCEPT ![j].state = "free"],
               job[j].state \notin {"queued", "running"}
        PROVE <1>5!:
    BY <1>2, <2>4 DEF JobRecords, JobStates
  <2> QED BY <2>1, <2>2, <2>3, <2>4
<1>6. JobType'
  BY <1>1, <1>4, <1>5 DEF JobInv, JobType, JobRecords, ExitRecords
<1>7. SlotsKept
  BY <1>5, LiveIsActive DEF SlotsKept
<1>8. Starting'
  <2>1. \A q \in Procs : Starts(q) => proc[q].j \in Jobs /\ job[proc[q].j].state = "queued"
    BY DEF JobInv, Starting
  <2>2. \A q \in Procs : Starts(q)' <=> Starts(q)
    BY <1>1 DEF Starts
  <2> QED BY <1>1, <1>5, <2>1, <2>2, OthersStart DEF JobInv, Starting
<1>9. JobInv' /\ NoneComes
  BY <1>1, <1>6, <1>7, <1>8, JobsInPlace
<1> QED BY <1>1, <1>5, <1>9

-----------------------------------------------------------------------------
(* The slots that the end of a process has been through.                   *)

\* No live job gets another owner.
OwnersKept == \A j \in Jobs : Live(ring', cpu', j) /\ Live(ring, cpu, j) => job'[j].owner = job[j].owner

\* A process in a call is not being ended, if no call is interrupted.
LEMMA EndedKept ==
    ASSUME Ended, NoneComes, OwnersKept, UNCHANGED exit,
           \A p \in Procs : proc'[p].pc # "user" => exit[p].at = "alive"
    PROVE  Ended'
BY DEF Ended, NoneComes, OwnersKept, Passed

ApStep(a) ==
    \/ TakeWork(a) \/ StealWork(a) \/ HelperStart(a) \/ HelperEnd(a)
    \/ JobCheck(a) \/ JobEnter(a) \/ JobLeaves(a) \/ KillArrives(a)
    \/ JobOut(a) \/ StrayKill(a)
CallerStep(c) == CallStep(c) \/ \E n \in TileCounts : Begin(c, n)
ProcStep(p) ==
    \/ Start(p) \/ StartFields(p) \/ StartClaim(p) \/ PinOn(p) \/ PinOff(p) \/ StopSend(p)
    \/ \E j \in Jobs : Stop(p, j) \/ FreeJob(p, j)
ExitStep(p) == ExitBegins(p) \/ KillPass(p) \/ KillRequest(p) \/ Reap(p)

\* The steps of a CPU bring no job to it that was not in a ring.
LEMMA ApStepJobs ==
    ASSUME JobInv, NEW a \in APs, ApStep(a)
    PROVE  JobInv' /\ NoneComes /\ OwnersKept /\ UNCHANGED <<proc, exit>>
<1>1. CASE TakeWork(a) \/ StealWork(a) \/ HelperStart(a) \/ HelperEnd(a) \/ JobOut(a)
  <2>1. UNCHANGED <<job, proc, exit>>
    BY <1>1 DEF TakeWork, StealWork, HelperStart, HelperEnd, JobOut, jobVars, jobOnly
  <2>2. JobInv' /\ NoneComes
    BY <1>1, TakeWorkJobs, StealWorkJobs, HelperStartJobs, HelperEndJobs, JobOutJobs
  <2> QED BY <2>1, <2>2 DEF OwnersKept
<1>2. CASE StrayKill(a)
  <2>1. UNCHANGED <<ring, cpu, job, proc, exit, pinning, pinLock>>
    BY <1>2 DEF StrayKill, jobVars, pinVars
  <2> QED BY <2>1, JobsUntouched DEF OwnersKept
<1>3. CASE JobCheck(a) \/ JobEnter(a) \/ JobLeaves(a) \/ KillArrives(a)
  <2>1. UNCHANGED <<proc, exit>>
    BY <1>3 DEF JobCheck, JobEnter, JobLeaves, KillArrives, jobVars, jobOnly
  <2>2. JobInv' /\ NoneComes
    BY <1>3, JobRuns
  <2>3. job \in [Jobs -> JobRecords]
    BY DEF JobInv, JobType, JobRecords
  <2>4. \/ job' = job
        \/ \E why : job' = [job EXCEPT ![JobOf(a)].state = why]
        \/ job' = [job EXCEPT ![JobOf(a)].cpu = a, ![JobOf(a)].state = "running"]
    BY <1>3 DEF JobCheck, JobEnter, JobLeaves, KillArrives, Leave
  <2>5. \A j \in Jobs : job'[j].owner = job[j].owner
    BY <2>3, <2>4 DEF JobRecords
  <2> QED BY <2>1, <2>2, <2>5 DEF OwnersKept
<1> QED BY <1>1, <1>2, <1>3 DEF ApStep

\* The steps of the tiles move no job.
LEMMA CallerStepJobs ==
    ASSUME JobInv, TileInv, (\E w \in Workers : TileStep(w)) \/ (\E c \in Callers : CallerStep(c))
    PROVE  JobInv' /\ NoneComes /\ OwnersKept /\ UNCHANGED <<proc, exit>>
<1>1. CASE \E c \in Callers : HelperPost(c)
  <2>1. UNCHANGED <<job, proc, exit>>
    BY <1>1 DEF HelperPost, callOnly, jobVars
  <2>2. JobInv' /\ NoneComes
    BY <1>1, HelperPostJobs
  <2> QED BY <2>1, <2>2 DEF OwnersKept
<1>2. CASE ~\E c \in Callers : HelperPost(c)
  <2>1. UNCHANGED <<ring, cpu, job, proc, exit, pinning, pinLock>>
    <3>1. ASSUME NEW w \in Workers, TileStep(w) PROVE <2>1!:
      BY <3>1 DEF TileStep, TileLoad, TileTry, TileRun, TileDone, jobVars, pinVars
    <3>2. ASSUME NEW c \in Callers, CallerStep(c) PROVE <2>1!:
      BY <1>2, <3>2 DEF CallerStep, CallStep, Begin, Arm, Publish, HelperInit, HelperSubmit, OwnTile,
             Retire, CancelHelpers, Release, callOnly, jobVars, pinVars
    <3> QED BY <3>1, <3>2
  <2> QED BY <2>1, JobsUntouched DEF OwnersKept
<1> QED BY <1>1, <1>2

\* The system calls, but for the one that puts a job into a ring.
LEMMA ProcStepJobs ==
    ASSUME JobInv, NEW p \in Procs, ProcStep(p)
    PROVE  /\ JobInv' /\ NoneComes /\ OwnersKept /\ UNCHANGED exit
           /\ \A q \in Procs : q # p => proc'[q] = proc[q]
           /\ proc[p].pc # "user" \/ Ready(p) \/ proc'[p].pc = "user"
<1>1. JobInv' /\ NoneComes
  BY StartJobs, StartFieldsJobs, StartClaimJobs, PinOnJobs, PinOffJobs, StopJobs DEF ProcStep
<1>2. UNCHANGED exit
  BY DEF ProcStep, Start, StartFields, StartClaim, PinOn, PinOff, StopSend, Stop, FreeJob, procOnly
<1>3. job \in [Jobs -> JobRecords] /\ proc \in [Procs -> ProcRecords]
  BY DEF JobInv, JobType, JobRecords, ProcRecords
<1>4. OwnersKept
  <2>1. CASE StartFields(p)
    <3>1. job' = [job EXCEPT ![proc[p].j].killReq = FALSE, ![proc[p].j].owner = p]
      BY <2>1 DEF StartFields
    <3>2. ~Live(ring, cpu, proc[p].j)
      BY <2>1 DEF StartFields, JobInv, Starting, Starts
    <3>3. \A j \in Jobs : j # proc[p].j => job'[j] = job[j]
      BY <1>3, <3>1
    <3> QED BY <3>2, <3>3 DEF OwnersKept
  <2>2. CASE Start(p) \/ StartClaim(p) \/ PinOn(p) \/ PinOff(p) \/ StopSend(p)
             \/ \E j \in Jobs : Stop(p, j) \/ FreeJob(p, j)
    <3>1. \/ job' = job
          \/ \E j, v : job' = [job EXCEPT ![j].state = v]
          \/ \E j, v : job' = [job EXCEPT ![j].claim = v]
          \/ \E j, v : job' = [job EXCEPT ![j].killReq = v]
      <4>1. CASE Start(p)
        BY <4>1 DEF Start
      <4>2. CASE StartClaim(p)
        BY <4>2 DEF StartClaim
      <4>3. CASE PinOn(p) \/ PinOff(p) \/ StopSend(p)
        BY <4>3 DEF PinOn, PinOff, StopSend
      <4>4. CASE \E j \in Jobs : Stop(p, j)
        BY <4>4 DEF Stop
      <4>5. CASE \E j \in Jobs : FreeJob(p, j)
        BY <4>5 DEF FreeJob
      <4> QED BY <2>2, <4>1, <4>2, <4>3, <4>4, <4>5
    <3>2. \A j \in Jobs : job'[j].owner = job[j].owner
      BY <1>3, <3>1 DEF JobRecords
    <3> QED BY <3>2 DEF OwnersKept
  <2> QED BY <2>1, <2>2 DEF ProcStep
<1>5. \A q \in Procs : q # p => proc'[q] = proc[q]
  BY <1>3 DEF ProcStep, Start, StartFields, StartClaim, PinOn, PinOff, StopSend, Stop, FreeJob
<1>6. proc[p].pc # "user" \/ Ready(p) \/ proc'[p].pc = "user"
  BY DEF ProcStep, Start, StartFields, StartClaim, PinOn, PinOff, StopSend, Stop, FreeJob
<1> QED BY <1>1, <1>2, <1>4, <1>5, <1>6

\* The step of smp_user_kill_owner() to the next slot.
LEMMA ExitStepEnded ==
    ASSUME JobInv, Ended, Concurrent = FALSE, NEW p \in Procs, ExitStep(p)
    PROVE  Ended'
<1>1. /\ NoneComes /\ UNCHANGED proc
      /\ \A j \in Jobs : Live(ring, cpu, j) => job'[j].owner = job[j].owner
  BY ExitJobs DEF ExitStep
<1>2. exit \in [Procs -> ExitRecords] /\ (exit[p].at = "looking" => exit[p].j \in Jobs)
  BY DEF JobInv, JobType, ExitRecords
<1>3. \A q \in Procs : q # p => exit'[q] = exit[q]
  BY <1>2 DEF ExitStep, ExitBegins, KillPass, KillRequest, Reap
<1>4. proc[p].pc = "user"
  BY DEF Ended, ExitStep, ExitBegins, KillPass, KillRequest, Reap
<1>5. ASSUME NEW j \in Jobs, Passed(p, j)', ~Passed(p, j)
      PROVE  ~Live(ring, cpu, j) \/ job[j].owner # p
  <2>1. CASE ExitBegins(p)
    <3>1. exit'[p] = Looking(Least(Jobs))
      BY <1>2, <2>1 DEF ExitBegins
    <3>2. exit'[p].at = "looking" /\ exit'[p].j = Least(Jobs)
      BY <3>1 DEF Looking
    <3>3. j < Least(Jobs)
      BY <1>5, <3>2 DEF Passed
    <3>4. Least(Jobs) <= j /\ Least(Jobs) \in Jobs
      BY NextSlot
    <3>5. j \in Nat /\ Least(Jobs) \in Nat
      BY <3>4, ApWorkAssumption
    <3> QED BY <3>3, <3>4, <3>5
  <2>2. CASE KillPass(p)
    <3>1. PICK h \in Jobs : h = exit[p].j /\ exit[p].at = "looking"
      BY <1>2, <2>2 DEF KillPass
    <3>2. exit'[p] = IF Later(h) = {} THEN Stopped ELSE Looking(Least(Later(h)))
      BY <1>2, <2>2, <3>1 DEF KillPass
    <3>3. j <= h
      BY <1>5, <3>1, <3>2, NextSlot DEF Passed, Looking, Stopped
    <3>4. j = h
      BY <1>5, <3>1, <3>3, ApWorkAssumption DEF Passed
    <3>5. job[h].owner # p \/ ~Active(h)
      BY <2>2, <3>1 DEF KillPass, Over
    <3> QED BY <3>4, <3>5, LiveIsActive DEF Active
  <2>3. CASE KillRequest(p)
    BY <1>5, <2>3 DEF KillRequest, Passed
  <2>4. CASE Reap(p)
    BY <1>5, <2>4 DEF Reap, Passed
  <2> QED BY <2>1, <2>2, <2>3, <2>4 DEF ExitStep
<1>6. ASSUME NEW q \in Procs, NEW j \in Jobs, Live(ring', cpu', j), Passed(q, j)'
      PROVE  job'[j].owner # q
  <2>1. Live(ring, cpu, j) /\ job'[j].owner = job[j].owner
    BY <1>1, <1>6 DEF NoneComes
  <2>2. CASE q = p
    BY <1>5, <1>6, <2>1, <2>2 DEF Ended
  <2>3. CASE q # p
    <3>1. Passed(q, j)
      BY <1>3, <1>6, <2>3 DEF Passed
    <3> QED BY <2>1, <3>1 DEF Ended
  <2> QED BY <2>2, <2>3
<1>7. ASSUME NEW q \in Procs, proc'[q].pc # "user" PROVE exit'[q].at = "alive"
  BY <1>1, <1>3, <1>4, <1>7 DEF Ended
<1> QED BY <1>6, <1>7 DEF Ended

\* A step starts no job of a process that is being ended.
LEMMA EndedNext ==
    ASSUME JobInv, TileInv, Ended, Concurrent = FALSE, Next
    PROVE  Ended'
<1>1. CASE \E a \in APs : ApStep(a)
  <2>1. \A p \in Procs : proc[p].pc # "user" => exit[p].at = "alive"
    BY DEF Ended
  <2> QED BY <1>1, <2>1, ApStepJobs, EndedKept
<1>2. CASE (\E w \in Workers : TileStep(w)) \/ (\E c \in Callers : CallerStep(c))
  <2>1. \A p \in Procs : proc[p].pc # "user" => exit[p].at = "alive"
    BY DEF Ended
  <2> QED BY <1>2, <2>1, CallerStepJobs, EndedKept
<1>3. ASSUME NEW p \in Procs, ProcStep(p) PROVE Ended'
  <2>1. /\ NoneComes /\ OwnersKept /\ UNCHANGED exit
        /\ \A q \in Procs : q # p => proc'[q] = proc[q]
        /\ proc[p].pc # "user" \/ Ready(p) \/ proc'[p].pc = "user"
    BY <1>3, ProcStepJobs
  <2>2. \A q \in Procs : proc'[q].pc # "user" => exit[q].at = "alive"
    BY <2>1 DEF Ended, Ready
  <2> QED BY <2>1, <2>2, EndedKept
<1>4. ASSUME NEW p \in Procs, PinEnqueue(p) PROVE Ended'
  <2>1. \A j \in Jobs : Live(ring', cpu', j) => Live(ring, cpu, j) \/ job[j].owner = p
    BY <1>4, PinEnqueueJobs
  <2>2. UNCHANGED <<job, exit>> /\ exit[p].at = "alive"
    BY <1>4 DEF PinEnqueue, procOnly, Ended
  <2>3. \A q \in Procs : q # p => proc'[q] = proc[q]
    BY <1>4 DEF PinEnqueue, JobInv, JobType
  <2>4. ASSUME NEW q \in Procs PROVE proc'[q].pc # "user" => exit'[q].at = "alive"
    BY <2>2, <2>3 DEF Ended
  <2>5. ASSUME NEW q \in Procs, NEW j \in Jobs, Live(ring', cpu', j), Passed(q, j)'
        PROVE  job'[j].owner # q
    <3>1. Passed(q, j)
      BY <2>2, <2>5 DEF Passed
    <3>2. q # p
      BY <2>2, <3>1 DEF Passed
    <3> QED BY <2>1, <2>2, <2>5, <3>1, <3>2 DEF Ended
  <2> QED BY <2>4, <2>5 DEF Ended
<1>5. ASSUME NEW p \in Procs, ExitStep(p) PROVE Ended'
  BY <1>5, ExitStepEnded
<1> QED BY <1>1, <1>2, <1>3, <1>4, <1>5 DEF Next, ApStep, CallerStep, ProcStep, ExitStep

\* Every step keeps the invariant of the jobs.
LEMMA JobInvNext ==
    ASSUME JobInv, TileInv, Next
    PROVE  JobInv'
BY ApStepJobs, CallerStepJobs, ProcStepJobs, PinEnqueueJobs, ExitJobs
   DEF Next, ApStep, CallerStep, ProcStep, ExitStep

\* There is no job at the start.
LEMMA JobInvInit == Init => JobInv /\ Ended
<1> SUFFICES ASSUME Init PROVE JobInv /\ Ended
  OBVIOUS
<1>1. RingType(ring)
  BY ApWorkAssumption DEF Init, RingType
<1>2. CpuType(cpu)
  BY DEF Init, CpuType, Idle, OnJob
<1>3. JobType
  BY DEF Init, JobType, JobStates, NotInCall
<1>4. \A j \in Jobs : ~Live(ring, cpu, j)
  BY DEF Init, Live, Holds, JobAt, Idle
<1>5. Placed
  BY <1>4 DEF Placed, Live
<1>6. Starting
  BY DEF Init, Starting, Starts, NotInCall
<1>7. Ended
  BY <1>4 DEF Init, Ended, NotInCall
<1> QED BY <1>1, <1>2, <1>3, <1>5, <1>6, <1>7 DEF JobInv

\* What the invariants say of the places of a job.
LEMMA JobSlotHeldFrom ==
    ASSUME JobInv, Ended
    PROVE  JobSlotHeld
<1> SUFFICES ASSUME NEW j \in Jobs
    PROVE  /\ Cardinality(Entries(j)) + Cardinality(Holders(j)) <= 1
           /\ \A e \in Entries(j) : job[j].claim = e[1] /\ job[j].state = "queued"
           /\ \A a \in Holders(j) : /\ job[j].claim = a
                                    /\ job[j].state = IF cpu[a].at = "ring3" THEN "running" ELSE "queued"
           /\ Entries(j) # {} \/ Holders(j) # {} => exit[job[j].owner].at \in {"alive", "looking"}
  BY DEF JobSlotHeld
<1>1. ASSUME NEW e \in Entries(j)
      PROVE  e[1] \in APs /\ e[2] \in Nat /\ JobAt(ring, e[1], e[2], j) /\ e = <<e[1], e[2]>>
  BY ApWorkAssumption DEF Entries, JobAt, JobItem
<1>2. ASSUME NEW a \in Holders(j) PROVE a \in APs /\ Holds(cpu, a, j)
  <2>1. a \in APs /\ cpu[a].at \in {"took", "dispatch", "ring3"} /\ IsJob(a) /\ JobOf(a) = j
    BY DEF Holders
  <2>2. cpu[a].item = JobItem(JobOf(a))
    BY <2>1, OnAJob DEF OnJob
  <2> QED BY <2>1, <2>2 DEF Holds
<1>3. \A e \in Entries(j) : job[j].claim = e[1] /\ job[j].state = "queued"
  BY <1>1 DEF JobInv, Placed
<1>4. \A a \in Holders(j) : /\ job[j].claim = a
                            /\ job[j].state = IF cpu[a].at = "ring3" THEN "running" ELSE "queued"
  BY <1>2 DEF JobInv, Placed
<1>5. \A e, f \in Entries(j) : e = f
  <2> SUFFICES ASSUME NEW e \in Entries(j), NEW f \in Entries(j) PROVE e = f
    OBVIOUS
  <2>1. e[1] = f[1]
    BY <1>3
  <2>2. e[2] = f[2]
    BY <1>1, <2>1 DEF JobInv, Placed
  <2> QED BY <1>1, <2>1, <2>2
<1>6. \A e \in Entries(j), a \in Holders(j) : FALSE
  BY <1>1, <1>2, <1>3, <1>4 DEF JobInv, Placed
<1>7. \A a, b \in Holders(j) : a = b
  BY <1>4
<1>8. /\ Entries(j) = {} \/ \E e : Entries(j) = {e}
      /\ Holders(j) = {} \/ \E a : Holders(j) = {a}
      /\ Entries(j) = {} \/ Holders(j) = {}
  BY <1>5, <1>6, <1>7
<1>9. Cardinality(Entries(j)) + Cardinality(Holders(j)) <= 1
  <2>1. Cardinality({}) = 0 /\ \A x : Cardinality({x}) = 1
    BY FS_EmptySet, FS_Singleton
  <2>2. /\ Cardinality(Entries(j)) \in {0, 1} /\ Cardinality(Holders(j)) \in {0, 1}
        /\ Cardinality(Entries(j)) = 0 \/ Cardinality(Holders(j)) = 0
    BY <1>8, <2>1
  <2> QED BY <2>2
<1>10. ASSUME Entries(j) # {} \/ Holders(j) # {} PROVE exit[job[j].owner].at \in {"alive", "looking"}
  <2>1. Live(ring, cpu, j)
    BY <1>1, <1>2, <1>10 DEF Live
  <2>2. job[j].owner \in Procs
    BY <2>1, LiveIsActive
  <2>3. ~Passed(job[j].owner, j)
    BY <2>1, <2>2 DEF Ended
  <2>4. exit[job[j].owner].at \in {"alive", "looking", "stopped", "gone"}
    BY <2>2 DEF JobInv, JobType
  <2> QED BY <2>3, <2>4 DEF Passed
<1> QED BY <1>3, <1>4, <1>9, <1>10

-----------------------------------------------------------------------------
(* The tiles: the rings and the CPUs.                                      *)

\* A generation stays a good one while no set of it goes back and no call that
\* has opened one forgets it.
LEMMA GensKept ==
    ASSUME TileType, TileType',
           \A s \in Sets :
              \/ set'[s].claim[1] > set[s].claim[1]
              \/ /\ set'[s].claim[1] = set[s].claim[1]
                 /\ \A c \in Callers : Opens(c) /\ call[c].slot = s => Opens(c)' /\ call'[c].slot = s
    PROVE  \A s \in Sets, g \in Nat : GenOK(s, g) => GenOK(s, g)'
<1> SUFFICES ASSUME NEW s \in Sets, NEW g \in Nat, GenOK(s, g) PROVE GenOK(s, g)'
  OBVIOUS
<1>1. set[s].claim[1] \in Nat /\ set'[s].claim[1] \in Nat
  BY DEF TileType
<1>2. g <= set[s].claim[1] /\ (g = set[s].claim[1] => \E c \in Callers : Opens(c) /\ call[c].slot = s)
  BY DEF GenOK
<1>3. CASE set'[s].claim[1] > set[s].claim[1]
  BY <1>1, <1>2, <1>3 DEF GenOK
<1>4. CASE /\ set'[s].claim[1] = set[s].claim[1]
           /\ \A c \in Callers : Opens(c) /\ call[c].slot = s => Opens(c)' /\ call'[c].slot = s
  BY <1>1, <1>2, <1>4 DEF GenOK
<1> QED BY <1>3, <1>4

\* The generation of an item.
ItemOK(x) == x.kind = "tile" => GenOK(x.slot, x.gen)

\* What is in the rings and on the CPUs.
LEMMA ItemsAre ==
    ASSUME TileInv
    PROVE  /\ \A a \in APs : \A i \in 1 .. Len(ring[a]) :
                 ring[a][i] \in RingEntries /\ ring[a][i].item \in Items /\ ItemOK(ring[a][i].item)
           /\ \A a \in APs : cpu[a].at \in {"took", "helping"} =>
                 cpu[a].item \in Items /\ ItemOK(cpu[a].item)
<1>1. ASSUME NEW a \in APs, NEW i \in 1 .. Len(ring[a])
      PROVE  ring[a][i] \in RingEntries /\ ring[a][i].item \in Items
  <2>1. ring[a] \in Seq(RingEntries)
    BY DEF TileInv, RingType
  <2>2. ring[a][i] \in RingEntries
    BY <2>1
  <2> QED BY <2>2 DEF RingEntries
<1>2. \A a \in APs : cpu[a].at \in {"took", "helping"} => cpu[a].item \in Items
  BY DEF TileInv, CpuType
<1> QED BY <1>1, <1>2 DEF TileInv, ItemGens, ItemOK

\* The items that were in the rings and on the CPUs keep a good generation when
\* the sets and the calls change.
LEMMA ItemsKept ==
    ASSUME TileInv, \A s \in Sets, g \in Nat : GenOK(s, g) => GenOK(s, g)'
    PROVE  \A x \in Items : ItemOK(x) => ItemOK(x)'
<1> SUFFICES ASSUME NEW x \in Items, ItemOK(x), x.kind = "tile" PROVE GenOK(x.slot, x.gen)'
  BY DEF ItemOK
<1>1. x \in TileItems
  BY ItemKinds
<1>2. x.slot \in Sets /\ x.gen \in Nat
  BY <1>1 DEF TileItems
<1> QED BY <1>2 DEF ItemOK

\* The items that are in the rings and on the CPUs after a step.
LEMMA ItemsAfter ==
    ASSUME TileInv, \A s \in Sets, g \in Nat : GenOK(s, g) => GenOK(s, g)',
           \A b \in APs : \A k \in 1 .. Len(ring'[b]) : ring'[b][k].item \in Items /\ ItemOK(ring'[b][k].item),
           \A b \in APs : cpu'[b].at \in {"took", "helping"} => cpu'[b].item \in Items /\ ItemOK(cpu'[b].item)
    PROVE  ItemGens'
<1>1. \A x \in Items : ItemOK(x) => (x.kind = "tile" => GenOK(x.slot, x.gen)')
  BY ItemsKept DEF ItemOK
<1>2. ASSUME NEW b \in APs, NEW k \in 1 .. Len(ring'[b]), NEW x, x = ring'[b][k].item, x.kind = "tile"
      PROVE  GenOK(x.slot, x.gen)'
  BY <1>1, <1>2
<1>3. ASSUME NEW b \in APs, cpu'[b].at \in {"took", "helping"}, NEW x, x = cpu'[b].item, x.kind = "tile"
      PROVE  GenOK(x.slot, x.gen)'
  BY <1>1, <1>3
<1> QED BY <1>2, <1>3 DEF ItemGens

\* Steps that change only the rings and the CPUs.
LEMMA TilesStay ==
    ASSUME TileInv, UNCHANGED <<set, tile, call, ran>>, RingType(ring'), CpuType(cpu'),
           begun' \in Nat \X Nat, begun'[1] = begun[1], Within(begun'),
           \A a \in APs : tile[a].at # "no" => cpu'[a].at = "helping",
           \A a \in APs : \A i \in 1 .. Len(ring'[a]) : ItemOK(ring'[a][i].item),
           \A a \in APs : cpu'[a].at \in {"took", "helping"} => ItemOK(cpu'[a].item)
    PROVE  TileInv'
<1>1. RingType(ring)' /\ CpuType(cpu)'
  BY DEF RingType, CpuType
<1>2. TileType' /\ CallOwns'
  BY DEF TileInv, TileType, CallOwns
<1>3. \A s, g : GenOK(s, g)' <=> GenOK(s, g)
  BY DEF GenOK, Opens
<1>4. \A s : Finished(s)' = Finished(s)
  BY DEF Finished, At
<1>5. CallRuns'
  BY <1>4 DEF TileInv, CallRuns, Opens, About
<1>6. TilesHeld'
  BY <1>3 DEF TileInv, TilesHeld, TileOK, At, Opens
<1>7. ItemGens'
  BY <1>3 DEF ItemGens, ItemOK
<1>8. RanWhole'
  BY DEF TileInv, RanWhole, OpenCalls
<1> QED BY <1>1, <1>2, <1>5, <1>6, <1>7, <1>8 DEF TileInv

\* A ring without one of its entries.
LEMMA WithoutItems ==
    ASSUME TileInv, NEW a \in APs, NEW i \in 1 .. Len(ring[a]),
           NEW r, r = [ring EXCEPT ![a] = Without(@, i)]
    PROVE  \A b \in APs : \A k \in 1 .. Len(r[b]) : ItemOK(r[b][k].item)
<1>1. ring[a] \in Seq(RingEntries)
  BY DEF TileInv, RingType
<1>2. PICK w : w = Without(ring[a], i)
  OBVIOUS
<1>3. /\ Len(w) = Len(ring[a]) - 1
      /\ \A k \in 1 .. Len(ring[a]) - 1 : w[k] = ring[a][IF k < i THEN k ELSE k + 1]
  BY <1>1, <1>2, WithoutIs
<1>4. r[a] = w /\ \A b \in APs : b # a => r[b] = ring[b]
  BY <1>2 DEF TileInv, RingType
<1>5. ASSUME NEW k \in 1 .. Len(w) PROVE ItemOK(w[k].item)
  <2>1. (IF k < i THEN k ELSE k + 1) \in 1 .. Len(ring[a])
    BY <1>1, <1>3
  <2> QED BY <1>3, <2>1, ItemsAre
<1> QED BY <1>4, <1>5, ItemsAre

\* What moves jobs moves no tile.
LEMMA ApStepTiles ==
    ASSUME JobInv, JobInv', TileInv, NEW a \in APs,
           ApStep(a), ~HelperStart(a), ~HelperEnd(a)
    PROVE  TileInv'
<1>1. /\ UNCHANGED <<set, tile, call, ran>>
      /\ begun' \in Nat \X Nat /\ begun'[1] = begun[1] /\ Within(begun')
  <2>1. UNCHANGED <<set, tile, call, ran, begun>>
    BY DEF ApStep, TakeWork, StealWork, JobCheck, JobEnter, JobLeaves, KillArrives,
           JobOut, StrayKill, tileVars, miscVars, jobOnly
  <2> QED BY <2>1 DEF TileInv, RanWhole, Within
<1>2. RingType(ring') /\ CpuType(cpu')
  BY DEF JobInv, RingType, CpuType
<1>3. \A b \in APs : tile[b].at # "no" => cpu[b].at = "helping"
  BY DEF TileInv, TilesHeld, TileOK, Workers
<1>4. CASE TakeWork(a)
  <2>1. /\ cpu[a].at = "idle" /\ 1 \in 1 .. Len(ring[a])
        /\ ring' = [ring EXCEPT ![a] = Without(@, 1)]
        /\ cpu' = [cpu EXCEPT ![a] = [at |-> "took", item |-> ring[a][1].item]]
    BY <1>4 DEF TakeWork, Pop, JobInv, RingType
  <2>2. ItemOK(ring[a][1].item)
    BY <2>1, ItemsAre
  <2>3. /\ cpu'[a] = [at |-> "took", item |-> ring[a][1].item]
        /\ \A b \in APs : b # a => cpu'[b] = cpu[b]
    BY <2>1 DEF JobInv, CpuType
  <2>4. \A b \in APs : cpu'[b].at \in {"took", "helping"} => ItemOK(cpu'[b].item)
    BY <2>2, <2>3, ItemsAre
  <2>5. \A b \in APs : \A i \in 1 .. Len(ring'[b]) : ItemOK(ring'[b][i].item)
    BY <2>1, WithoutItems
  <2> QED BY <1>1, <1>2, <1>3, <2>1, <2>3, <2>4, <2>5, TilesStay
<1>5. CASE StealWork(a)
  <2>1. PICK v : v = Victim(a)
    OBVIOUS
  <2>2. PICK i : i = Least(Stealable(v))
    OBVIOUS
  <2>3. /\ cpu[a].at = "idle"
        /\ ring' = [ring EXCEPT ![v] = Without(@, i)]
        /\ cpu' = [cpu EXCEPT ![a] = [at |-> "took", item |-> ring[v][i].item]]
        /\ Stealable(v) # {}
    BY <1>5, <2>1, <2>2 DEF StealWork, Pop
  <2>4. v \in APs
    BY <1>5, <2>1, VictimIs
  <2>5. i \in 1 .. Len(ring[v])
    <3>1. ring[v] \in Seq(RingEntries)
      BY <2>4 DEF JobInv, RingType
    <3>2. Stealable(v) \subseteq Nat
      BY <3>1 DEF Stealable
    <3>3. i \in Stealable(v)
      BY <2>2, <2>3, <3>2, LeastIs
    <3> QED BY <3>1, <3>3 DEF Stealable
  <2>6. ItemOK(ring[v][i].item)
    BY <2>4, <2>5, ItemsAre
  <2>7. /\ cpu'[a] = [at |-> "took", item |-> ring[v][i].item]
        /\ \A b \in APs : b # a => cpu'[b] = cpu[b]
    BY <2>3 DEF JobInv, CpuType
  <2>8. \A b \in APs : cpu'[b].at \in {"took", "helping"} => ItemOK(cpu'[b].item)
    BY <2>6, <2>7, ItemsAre
  <2>9. \A b \in APs : \A k \in 1 .. Len(ring'[b]) : ItemOK(ring'[b][k].item)
    BY <2>3, <2>4, <2>5, WithoutItems
  <2> QED BY <1>1, <1>2, <1>3, <2>3, <2>7, <2>8, <2>9, TilesStay
<1>6. CASE JobCheck(a) \/ JobEnter(a) \/ JobLeaves(a) \/ KillArrives(a) \/ JobOut(a) \/ StrayKill(a)
  <2>1. /\ UNCHANGED ring
        /\ UNCHANGED cpu \/ \E to \in OnJob : cpu' = [cpu EXCEPT ![a].at = to]
                         \/ cpu' = [cpu EXCEPT ![a] = Idle]
    BY <1>6 DEF JobCheck, JobEnter, JobLeaves, KillArrives, JobOut, StrayKill, Leave, OnJob
  <2>2. UNCHANGED cpu \/ cpu[a].at # "helping"
    <3>1. CASE JobCheck(a) \/ JobEnter(a)
      BY <3>1 DEF JobCheck, JobEnter
    <3>2. CASE JobLeaves(a) \/ KillArrives(a) \/ JobOut(a) \/ StrayKill(a)
      BY <3>2 DEF JobLeaves, KillArrives, JobOut, StrayKill
    <3> QED BY <1>6, <3>1, <3>2
  <2>3. /\ UNCHANGED cpu \/ cpu'[a].at \notin {"took", "helping"}
        /\ \A b \in APs : b # a => cpu'[b] = cpu[b]
    BY <2>1 DEF OnJob, Idle, JobInv, CpuType
  <2>4. \A b \in APs : cpu'[b].at \in {"took", "helping"} => ItemOK(cpu'[b].item)
    BY <2>3, ItemsAre
  <2>5. \A b \in APs : \A k \in 1 .. Len(ring'[b]) : ItemOK(ring'[b][k].item)
    BY <2>1, ItemsAre
  <2>6. \A b \in APs : tile[b].at # "no" => cpu'[b].at = "helping"
    BY <1>3, <2>2, <2>3
  <2> QED BY <1>1, <1>2, <2>4, <2>5, <2>6, TilesStay
<1> QED BY <1>4, <1>5, <1>6 DEF ApStep

\* Nor do the system calls.
LEMMA ProcStepTiles ==
    ASSUME JobInv, JobInv', TileInv, NEW p \in Procs, ProcStep(p) \/ PinEnqueue(p) \/ ExitStep(p)
    PROVE  TileInv'
<1>1. UNCHANGED <<set, tile, call, ran, cpu>>
  BY DEF ProcStep, PinEnqueue, ExitStep, Start, StartFields, StartClaim, PinOn, PinOff, StopSend, Stop,
         FreeJob, ExitBegins, KillPass, KillRequest, Reap, procOnly, exitOnly, tileVars, jobOnly
<1>2. RingType(ring') /\ CpuType(cpu')
  BY DEF JobInv, RingType, CpuType
<1>3. \A b \in APs : tile[b].at # "no" => cpu'[b].at = "helping"
  BY <1>1 DEF TileInv, TilesHeld, TileOK, Workers
<1>4. \A b \in APs : cpu'[b].at \in {"took", "helping"} => ItemOK(cpu'[b].item)
  BY <1>1, ItemsAre
<1>5. \A b \in APs : \A k \in 1 .. Len(ring'[b]) : ItemOK(ring'[b][k].item)
  <2>1. CASE UNCHANGED ring
    BY <2>1, ItemsAre
  <2>2. CASE ~UNCHANGED ring
    <3>1. PinEnqueue(p)
      BY <2>2 DEF ProcStep, ExitStep, Start, StartFields, StartClaim, PinOn, PinOff, StopSend, Stop,
             FreeJob, ExitBegins, KillPass, KillRequest, Reap, procOnly, exitOnly
    <3>2. PICK a : a = proc[p].c
      OBVIOUS
    <3>3. PICK e : e = Entry([kind |-> "job", j |-> proc[p].j])
      OBVIOUS
    <3>4. ring' = [ring EXCEPT ![a] = Append(@, e)]
      BY <2>2, <3>1, <3>2, <3>3 DEF PinEnqueue, Enqueue
    <3>5. a \in APs
      BY <3>1, <3>2 DEF PinEnqueue, JobInv, Starting, Starts
    <3>6. ring[a] \in Seq(RingEntries)
      BY <3>5 DEF JobInv, RingType
    <3>7. PICK w : w = Append(ring[a], e)
      OBVIOUS
    <3>8. /\ ring'[a] = w /\ \A b \in APs : b # a => ring'[b] = ring[b]
      BY <3>4, <3>5, <3>7 DEF JobInv, RingType
    <3>9. ItemOK(e.item)
      BY <3>3 DEF Entry, ItemOK
    <3>10. ASSUME NEW k \in 1 .. Len(w) PROVE ItemOK(w[k].item)
      <4>1. (k \in 1 .. Len(ring[a]) /\ w[k] = ring[a][k]) \/ w[k] = e
        BY <3>6, <3>7
      <4> QED BY <3>5, <3>9, <4>1, ItemsAre
    <3> QED BY <3>8, <3>10, ItemsAre
  <2> QED BY <2>1, <2>2
<1>6. begun' \in Nat \X Nat /\ begun'[1] = begun[1] /\ Within(begun')
  <2>1. UNCHANGED begun \/ (begun' = [begun EXCEPT ![2] = @ + 1] /\ Within(begun'))
    BY DEF ProcStep, PinEnqueue, ExitStep, Start, StartFields, StartClaim, PinOn, PinOff, StopSend, Stop,
           FreeJob, ExitBegins, KillPass, KillRequest, Reap, procOnly, exitOnly, miscVars
  <2>2. begun \in Nat \X Nat /\ Within(begun)
    BY DEF TileInv, RanWhole
  <2> QED BY <2>1, <2>2 DEF Within
<1> QED BY <1>1, <1>2, <1>3, <1>4, <1>5, <1>6, TilesStay

-----------------------------------------------------------------------------
(* The tiles: one tile.                                                    *)

\* The calls that are open.
LEMMA OpenIs ==
    \A i : i \in OpenCalls <=>
        \E c \in Callers : call[c].pc \notin {"out", "release", "retired"} /\ call[c].id = i
BY DEF OpenCalls

\* The call whose tile a worker has.
LEMMA TileHasCall ==
    ASSUME TileInv, NEW w \in Workers, tile[w].at # "no",
           tile[w].gen = set[tile[w].slot].claim[1]
    PROVE  \E c \in Callers : Opens(c) /\ call[c].slot = tile[w].slot
BY DEF TileInv, TilesHeld, TileOK, GenOK

\* No two calls have the same set.
LEMMA OneOpens ==
    ASSUME TileInv, NEW c \in Callers, NEW d \in Callers, Opens(c),
           call[d].pc # "out", call[d].slot = call[c].slot
    PROVE  c = d
BY DEF TileInv, CallOwns, Opens

\* A call goes on with its helpers, or not.
CallGoesOn(c) ==
    \/ call'[c] = call[c]
    \/ /\ Opens(c) /\ Opens(c)'
       /\ call'[c].id = call[c].id /\ call'[c].n = call[c].n
       /\ call'[c].slot = call[c].slot /\ call'[c].gen = call[c].gen

\* Steps that hand out, run and finish no tile.
LEMMA CallsKept ==
    ASSUME TileInv, UNCHANGED <<set, ran, begun>>, TileType',
           \A c \in Callers : CallGoesOn(c),
           \A w \in Workers : \A s, t : (At(w, s, t)' <=> At(w, s, t)) /\ (About(w, s, t)' <=> About(w, s, t))
    PROVE  /\ CallOwns' /\ CallRuns' /\ RanWhole'
           /\ \A s \in Sets, g \in Nat : GenOK(s, g) => GenOK(s, g)'
<1>1. \A c \in Callers :
         /\ call'[c].id = call[c].id /\ call'[c].n = call[c].n
         /\ call'[c].slot = call[c].slot /\ call'[c].gen = call[c].gen
         /\ Opens(c)' <=> Opens(c)
         /\ call'[c].pc = call[c].pc \/ (Opens(c) /\ Opens(c)')
  BY DEF CallGoesOn, Opens
<1>2. CallOwns'
  BY <1>1 DEF TileInv, CallOwns, Opens
<1>3. \A s : Finished(s)' = Finished(s)
  BY DEF Finished
<1>4. CallRuns'
  <2> SUFFICES ASSUME NEW c \in Callers
      PROVE /\ call'[c].pc \in {"arm", "publish"} => \A t \in 0 .. call'[c].n - 1 : ran[call'[c].id][t] = 0
            /\ call'[c].pc = "publish" => set[call'[c].slot].done = 0
            /\ call'[c].pc = "publish" \/ Opens(c)' =>
                  set[call'[c].slot].ctx = call'[c].id /\ set[call'[c].slot].ntiles = call'[c].n
            /\ Opens(c)' =>
                  /\ set[call'[c].slot].claim[1] = call'[c].gen /\ set[call'[c].slot].claim[2] <= call'[c].n
                  /\ set[call'[c].slot].done = Cardinality(Finished(call[c].slot))
                  /\ \A t \in 0 .. call'[c].n - 1 :
                        ran[call'[c].id][t] =
                            IF t < set[call'[c].slot].claim[2] /\ \A w \in Workers : ~About(w, call[c].slot, t)
                            THEN 1 ELSE 0
    BY <1>1, <1>3 DEF CallRuns
  <2> QED BY <1>1 DEF TileInv, CallRuns, Opens
<1>5. OpenCalls' = OpenCalls
  <2>1. \A i : i \in OpenCalls' <=> i \in OpenCalls
    BY <1>1 DEF OpenCalls, Opens
  <2> QED BY <2>1
<1>6. RanWhole'
  BY <1>5 DEF TileInv, RanWhole
<1>7. \A s \in Sets, g \in Nat : GenOK(s, g) => GenOK(s, g)'
  BY <1>1 DEF GenOK
<1> QED BY <1>2, <1>4, <1>6, <1>7

TileRecords == [at : {"no", "load", "try", "none", "claimed", "running"},
                slot : Nat, gen : Nat, seen : Nat \X Nat, ctx : Nat]

\* A worker moves between tiles.
LEMMA BetweenTilesKept ==
    ASSUME TileInv, UNCHANGED <<ring, cpu, set, call, ran, begun>>, NEW w \in Workers,
           tile' \in [Workers -> TileRecords],
           \A v \in Workers : v # w => tile'[v] = tile[v],
           tile[w].at \in {"load", "try"}, tile'[w].at \in {"load", "try", "none"},
           tile'[w].slot = tile[w].slot, tile'[w].gen = tile[w].gen,
           tile'[w].at = "try" => tile'[w].seen[1] = tile[w].gen
    PROVE  TileInv'
<1>1. TileType'
  BY DEF TileInv, TileType, TileRecords
<1>2. \A v \in Workers : \A s, t : (At(v, s, t)' <=> At(v, s, t)) /\ (About(v, s, t)' <=> About(v, s, t))
  BY DEF At, About
<1>3. \A c \in Callers : CallGoesOn(c)
  BY DEF CallGoesOn
<1>4. /\ CallOwns' /\ CallRuns' /\ RanWhole'
      /\ \A s \in Sets, g \in Nat : GenOK(s, g) => GenOK(s, g)'
  BY <1>1, <1>2, <1>3, CallsKept
<1>5. TilesHeld'
  <2>1. ASSUME NEW v \in Workers PROVE TileOK(v)'
    <3>1. TileOK(v) /\ TileOK(w)
      BY DEF TileInv, TilesHeld
    <3>2. tile[v].gen \in Nat
      BY DEF TileInv, TileType
    <3>3. tile[v].at # "no" => GenOK(tile[v].slot, tile[v].gen)'
      BY <1>4, <3>1, <3>2 DEF TileOK, GenOK
    <3>4. CASE v # w
      BY <1>2, <3>1, <3>3, <3>4 DEF TileOK, Opens
    <3>5. CASE v = w
      BY <3>1, <3>3, <3>5 DEF TileOK
    <3> QED BY <3>4, <3>5
  <2> QED BY <2>1 DEF TilesHeld
<1>6. ItemGens'
  <2>1. \A x \in Items : ItemOK(x) => ItemOK(x)'
    BY <1>4, ItemsKept
  <2> QED BY <2>1, ItemsAre DEF ItemGens, ItemOK
<1>7. RingType(ring)' /\ CpuType(cpu)'
  BY DEF TileInv, RingType, CpuType
<1> QED BY <1>1, <1>4, <1>5, <1>6, <1>7 DEF TileInv

\* The claim word is read.
LEMMA TileLoadTiles ==
    ASSUME TileInv, NEW w \in Workers, TileLoad(w)
    PROVE  TileInv'
<1>1. PICK claim : claim = set[tile[w].slot].claim
  OBVIOUS
<1>2. /\ tile[w].at = "load"
      /\ tile' = [tile EXCEPT ![w].at = IF claim[1] # tile[w].gen THEN "none" ELSE "try",
                              ![w].seen = claim]
      /\ UNCHANGED <<ring, cpu, set, call, ran, begun>>
  BY <1>1 DEF TileLoad, miscVars
<1>3. tile \in [Workers -> TileRecords] /\ tile[w].slot \in Sets
  BY <1>2 DEF TileInv, TileType, TileRecords, TilesHeld, TileOK, GenOK
<1>4. claim \in Nat \X Nat
  BY <1>1, <1>3 DEF TileInv, TileType
<1>5. tile' \in [Workers -> TileRecords]
  <2>1. PICK to \in {"none", "try"} : to = IF claim[1] # tile[w].gen THEN "none" ELSE "try"
    OBVIOUS
  <2>2. tile' = [tile EXCEPT ![w] = [tile[w] EXCEPT !.at = to, !.seen = claim]]
    BY <1>2, <1>3, <2>1
  <2>3. [tile[w] EXCEPT !.at = to, !.seen = claim] \in TileRecords
    BY <1>3, <1>4 DEF TileRecords
  <2> QED BY <1>3, <2>2, <2>3
<1>6. /\ \A v \in Workers : v # w => tile'[v] = tile[v]
      /\ tile'[w].at = IF claim[1] # tile[w].gen THEN "none" ELSE "try"
      /\ tile'[w].seen = claim
      /\ tile'[w].slot = tile[w].slot /\ tile'[w].gen = tile[w].gen
  BY <1>2, <1>3 DEF TileRecords
<1> QED BY <1>2, <1>5, <1>6, BetweenTilesKept

\* A tile is handed out.
LEMMA TileTryTiles ==
    ASSUME TileInv, NEW w \in Workers, TileTry(w)
    PROVE  TileInv'
<1>1. PICK s : s = tile[w].slot
  OBVIOUS
<1>2. PICK m : m = tile[w].seen[2]
  OBVIOUS
<1>3. /\ tile[w].at = "try" /\ tile \in [Workers -> TileRecords]
      /\ s \in Sets /\ m \in Nat /\ tile[w].seen = <<tile[w].gen, m>>
      /\ UNCHANGED <<ring, cpu, call, ran, begun>>
  <2>1. /\ tile[w].at = "try" /\ UNCHANGED <<ring, cpu, call, ran, begun>>
    BY DEF TileTry, miscVars
  <2>2. TileOK(w) /\ tile \in [Workers -> TileRecords]
    BY DEF TileInv, TilesHeld, TileType, TileRecords
  <2>3. tile[w].seen \in Nat \X Nat
    BY <2>2 DEF TileRecords
  <2> QED BY <1>1, <1>2, <2>1, <2>2, <2>3 DEF TileOK, GenOK
<1>4. ASSUME NEW to \in {"none", "load"}, tile' = [tile EXCEPT ![w].at = to], UNCHANGED set
      PROVE  TileInv'
  <2>1. /\ tile' \in [Workers -> TileRecords]
        /\ \A v \in Workers : v # w => tile'[v] = tile[v]
        /\ tile'[w].at = to /\ tile'[w].slot = tile[w].slot /\ tile'[w].gen = tile[w].gen
    BY <1>3, <1>4 DEF TileRecords
  <2> QED BY <1>3, <1>4, <2>1, BetweenTilesKept
<1>5. ASSUME m < set[s].ntiles, set[s].claim = tile[w].seen,
             set' = [set EXCEPT ![s].claim[2] = @ + 1],
             tile' = [tile EXCEPT ![w].at = "claimed"]
      PROVE  TileInv'
  <2>1. /\ tile' \in [Workers -> TileRecords]
        /\ \A v \in Workers : v # w => tile'[v] = tile[v]
        /\ tile'[w].at = "claimed" /\ tile'[w].slot = s /\ tile'[w].gen = tile[w].gen
        /\ tile'[w].seen[2] = m
    BY <1>1, <1>2, <1>3, <1>5 DEF TileRecords
  <2>2. set \in [Sets -> [inUse : BOOLEAN, claim : Nat \X Nat, ntiles : Nat, ctx : Nat, done : Nat]]
    BY DEF TileInv, TileType
  <2>3. /\ set' \in [Sets -> [inUse : BOOLEAN, claim : Nat \X Nat, ntiles : Nat, ctx : Nat, done : Nat]]
        /\ \A x \in Sets : x # s => set'[x] = set[x]
        /\ set[s].claim[2] = m /\ set'[s].claim[2] = m + 1
        /\ set[s].claim[1] = tile[w].gen /\ set'[s].claim[1] = tile[w].gen
        /\ set'[s].inUse = set[s].inUse /\ set'[s].ntiles = set[s].ntiles
        /\ set'[s].ctx = set[s].ctx /\ set'[s].done = set[s].done
    <3>1. set[s].claim \in Nat \X Nat /\ set[s].claim[2] = m /\ set[s].claim[1] = tile[w].gen
      BY <1>3, <1>5, <2>2
    <3>2. PICK y : y = [set[s].claim EXCEPT ![2] = @ + 1]
      OBVIOUS
    <3>3. y \in Nat \X Nat /\ y[1] = tile[w].gen /\ y[2] = m + 1
      BY <1>3, <3>1, <3>2
    <3>4. set' = [set EXCEPT ![s].claim = y]
      BY <1>3, <1>5, <3>2
    <3> QED BY <1>3, <2>2, <3>1, <3>3, <3>4
  <2>4. TileType'
    BY <1>3, <2>1, <2>3 DEF TileInv, TileType, TileRecords
  <2>5. PICK c \in Callers : Opens(c) /\ call[c].slot = s
    BY <1>1, <1>3, <2>3, TileHasCall
  <2>6. \A d \in Callers : call[d].pc # "out" /\ d # c => call[d].slot # s
    BY <2>5, OneOpens
  <2>7. /\ set[s].ntiles = call[c].n /\ set[s].ctx = call[c].id
        /\ set[s].done = Cardinality(Finished(s))
        /\ \A t \in 0 .. call[c].n - 1 :
              ran[call[c].id][t] = IF t < m /\ \A v \in Workers : ~About(v, s, t) THEN 1 ELSE 0
    BY <2>3, <2>5 DEF TileInv, CallRuns
  <2>8. \A v \in Workers : \A t : At(v, s, t) => t # m
    <3> SUFFICES ASSUME NEW v \in Workers, At(v, s, m) PROVE FALSE
      OBVIOUS
    <3>1. tile[v].seen[2] < set[tile[v].slot].claim[2] /\ tile[v].slot = s /\ tile[v].seen[2] = m
      BY DEF TileInv, TilesHeld, TileOK, At
    <3>2. m < m
      BY <2>3, <3>1
    <3> QED BY <1>3, <3>2
  \* w has tile m of s now; the others have what they had.
  <2>9. \A v \in Workers : \A x, t :
           /\ At(v, x, t)' <=> At(v, x, t) \/ (v = w /\ x = s /\ t = m)
           /\ About(v, x, t)' <=> About(v, x, t) \/ (v = w /\ x = s /\ t = m)
    BY <1>3, <2>1 DEF At, About
  <2>10. Finished(s)' = Finished(s)
    <3>1. \A t : t \in 0 .. (m + 1) - 1 <=> t \in 0 .. m - 1 \/ t = m
      BY <1>3
    <3>2. Finished(s) = {t \in 0 .. m - 1 : \A v \in Workers : ~At(v, s, t)}
      BY <2>3 DEF Finished
    <3>3. Finished(s)' = {t \in 0 .. (m + 1) - 1 : \A v \in Workers : ~At(v, s, t)'}
      BY <2>3 DEF Finished
    <3>4. \A t \in 0 .. m - 1 : t # m
      BY <1>3
    <3> QED BY <2>9, <3>1, <3>2, <3>3, <3>4
  <2>11. \A x \in Sets : x # s => Finished(x)' = Finished(x)
    BY <2>3, <2>9 DEF Finished
  <2>12. CallOwns'
    <3>1. \A x \in Sets : set'[x].inUse = set[x].inUse
      BY <2>3
    <3> QED BY <1>3, <3>1 DEF TileInv, CallOwns
  <2>13. CallRuns'
    <3>1. ASSUME NEW d \in Callers, d # c, call[d].pc # "out", NEW x, x = call[d].slot
          PROVE /\ x \in Sets /\ x # s /\ set'[x] = set[x]
                /\ Finished(x)' = Finished(x)
                /\ \A v \in Workers : \A t : About(v, x, t)' <=> About(v, x, t)
      <4>1. x \in Sets /\ x # s
        BY <2>6, <3>1 DEF TileInv, CallOwns
      <4> QED BY <2>3, <2>9, <2>11, <4>1
    <3>2. ASSUME NEW t \in 0 .. call[c].n - 1
          PROVE  ran[call[c].id][t] =
                    IF t < m + 1 /\ \A v \in Workers : ~About(v, s, t)' THEN 1 ELSE 0
      <4>0. call[c].n \in Nat
        BY DEF TileInv, TileType
      <4>1. CASE t = m
        <5>1. ran[call[c].id][t] = 0
          BY <1>3, <2>7, <4>1
        <5>2. About(w, s, t)'
          BY <2>9, <4>1
        <5> QED BY <5>1, <5>2
      <4>2. CASE t # m
        <5>1. \A v \in Workers : About(v, s, t)' <=> About(v, s, t)
          BY <2>9, <4>2
        <5>2. t < m + 1 <=> t < m
          BY <1>3, <4>0, <4>2
        <5> QED BY <2>7, <5>1, <5>2
      <4> QED BY <4>1, <4>2
    <3>3. m + 1 <= call[c].n
      <4>1. call[c].n \in Nat
        BY DEF TileInv, TileType
      <4> QED BY <1>3, <1>5, <2>7, <4>1
    <3>4. \A d \in Callers : (Opens(d)' <=> Opens(d)) /\ (Opens(d) => call[d].pc # "out")
      BY <1>3 DEF Opens
    <3> SUFFICES ASSUME NEW d \in Callers, NEW x, x = call[d].slot
        PROVE /\ call[d].pc \in {"arm", "publish"} => \A t \in 0 .. call[d].n - 1 : ran[call[d].id][t] = 0
              /\ call[d].pc = "publish" => set'[x].done = 0
              /\ call[d].pc = "publish" \/ Opens(d) =>
                    set'[x].ctx = call[d].id /\ set'[x].ntiles = call[d].n
              /\ Opens(d) =>
                    /\ set'[x].claim[1] = call[d].gen /\ set'[x].claim[2] <= call[d].n
                    /\ set'[x].done = Cardinality(Finished(x)')
                    /\ \A t \in 0 .. call[d].n - 1 :
                          ran[call[d].id][t] =
                              IF t < set'[x].claim[2] /\ \A v \in Workers : ~About(v, x, t)'
                              THEN 1 ELSE 0
      BY <1>3, <3>4 DEF CallRuns
    <3>5. CASE d # c
      BY <3>1, <3>4, <3>5 DEF TileInv, CallRuns
    <3>6. CASE d = c
      <4>1. set[s].claim[1] = call[c].gen
        BY <2>5 DEF TileInv, CallRuns
      <4>2. call[d].pc \notin {"arm", "publish"}
        BY <2>5, <3>6 DEF Opens
      <4>3. x = s /\ Opens(d)
        BY <2>5, <3>6
      <4> QED BY <2>3, <2>7, <2>10, <3>2, <3>3, <3>6, <4>1, <4>2, <4>3, SMTT(30)
    <3> QED BY <3>5, <3>6
  <2>14. RanWhole'
    BY <1>3 DEF TileInv, RanWhole, OpenCalls
  <2>15. \A x \in Sets, g \in Nat : GenOK(x, g) => GenOK(x, g)'
    <3>1. \A x \in Sets : set'[x].claim[1] = set[x].claim[1]
      BY <2>3
    <3> QED BY <1>3, <3>1 DEF GenOK, Opens
  <2>16. TilesHeld'
    <3>1. ASSUME NEW v \in Workers PROVE TileOK(v)'
      <4>1. TileOK(v) /\ TileOK(w)
        BY DEF TileInv, TilesHeld
      <4>2. tile[v].gen \in Nat /\ tile[v].seen[2] \in Nat
        BY DEF TileInv, TileType
      <4>3. PICK x, k, g : x = tile[v].slot /\ k = tile[v].seen[2] /\ g = tile[v].gen
        OBVIOUS
      <4>6. tile[v].at # "no" => GenOK(x, g)'
        BY <2>15, <4>1, <4>2, <4>3 DEF TileOK, GenOK
      <4>4. CASE v # w
        <5>1. tile'[v] = tile[v]
          BY <2>1, <4>4
        <5>2. tile[v].at \in {"claimed", "running"} =>
                /\ tile[v].gen = set'[tile[v].slot].claim[1]
                /\ tile[v].seen[2] < set'[tile[v].slot].claim[2]
          BY <1>3, <2>3, <4>1, <4>2 DEF TileOK, GenOK
        <5>3. tile[v].at \in {"claimed", "running"} => \A u \in Workers : At(u, x, k)' => u = v
          <6> SUFFICES ASSUME tile[v].at \in {"claimed", "running"}, NEW u \in Workers, At(u, x, k)'
                       PROVE  u = v
            OBVIOUS
          <6>1. At(v, x, k)
            BY <4>3 DEF At
          <6>2. x # s \/ k # m
            BY <2>8, <6>1
          <6>3. At(u, x, k)
            BY <2>9, <6>2
          <6> QED BY <4>1, <4>3, <6>3 DEF TileOK
        <5> QED BY <1>3, <4>1, <4>3, <4>6, <5>1, <5>2, <5>3 DEF TileOK, Opens
      <4>5. CASE v = w
        <5>1. \A u \in Workers : At(u, s, m)' => u = w
          BY <2>8, <2>9
        <5>2. w \in APs => cpu'[w].at = "helping"
          BY <1>3, <4>1 DEF TileOK
        <5>3. w \in Callers => call'[w].pc = "work"
          BY <1>3, <4>1 DEF TileOK
        <5>4. m < m + 1
          BY <1>3
        <5>5. GenOK(x, g)' /\ x = s
          BY <1>1, <1>3, <4>3, <4>6, <4>5
        <5>6. tile'[v].slot = x /\ tile'[v].gen = g
          BY <2>1, <4>3, <4>5, <5>5
        <5> QED BY <2>1, <2>3, <4>3, <4>5, <5>1, <5>2, <5>3, <5>4, <5>5, <5>6 DEF TileOK
      <4> QED BY <4>4, <4>5
    <3> QED BY <3>1 DEF TilesHeld
  <2>17. ItemGens'
    <3>1. \A x \in Items : ItemOK(x) => ItemOK(x)'
      BY <2>15, ItemsKept
    <3> QED BY <1>3, <3>1, ItemsAre DEF ItemGens, ItemOK
  <2>18. RingType(ring)' /\ CpuType(cpu)'
    BY <1>3 DEF TileInv, RingType, CpuType
  <2> QED BY <2>4, <2>12, <2>13, <2>14, <2>16, <2>17, <2>18 DEF TileInv
<1> QED BY <1>1, <1>2, <1>4, <1>5 DEF TileTry, Claimable, Matches

\* The numbers of the calls so far.
LEMMA BegunCalls ==
    ASSUME begun \in Nat \X Nat, Within(begun)
    PROVE  1 .. begun[1] \subseteq Calls
<1>1. PICK x \in Mixes : begun[1] <= x[1]
  BY DEF Within
<1>2. x[1] \in Nat /\ begun[1] \in Nat
  BY <1>1, ApWorkAssumption
<1>3. 1 .. begun[1] \subseteq 1 .. x[1]
  BY <1>1, <1>2
<1>4. 1 .. x[1] \subseteq Calls
  BY <1>1 DEF Calls
<1> QED BY <1>3, <1>4

\* The tile that was handed out is run.
LEMMA TileRunTiles ==
    ASSUME TileInv, NEW w \in Workers, TileRun(w)
    PROVE  TileInv'
<1>1. PICK s, m : s = tile[w].slot /\ m = tile[w].seen[2]
  OBVIOUS
<1>2. PICK i : i = set[s].ctx
  OBVIOUS
<1>3. /\ tile[w].at = "claimed" /\ tile \in [Workers -> TileRecords]
      /\ tile' = [tile EXCEPT ![w].at = "running", ![w].ctx = i]
      /\ ran' = [ran EXCEPT ![i][m] = @ + 1]
      /\ UNCHANGED <<ring, cpu, set, call, begun>>
  BY <1>1, <1>2 DEF TileRun, miscVars, TileInv, TileType, TileRecords
<1>4. /\ s \in Sets /\ m \in Nat /\ m < set[s].claim[2] /\ i \in Nat
      /\ tile[w].gen = set[s].claim[1]
      /\ \A v \in Workers : At(v, s, m) => v = w
  <2>1. TileOK(w) /\ set \in [Sets -> [inUse : BOOLEAN, claim : Nat \X Nat, ntiles : Nat, ctx : Nat, done : Nat]]
    BY DEF TileInv, TilesHeld, TileType
  <2>2. m \in Nat
    BY <1>1, <1>3 DEF TileRecords
  <2> QED BY <1>1, <1>2, <1>3, <2>1, <2>2 DEF TileOK, GenOK
<1>5. PICK c \in Callers : Opens(c) /\ call[c].slot = s
  BY <1>1, <1>3, <1>4, TileHasCall
<1>6. /\ call[c].id = i /\ set[s].claim[2] <= call[c].n /\ call[c].n \in Nat
      /\ set[s].claim[2] \in Nat
      /\ \A t \in 0 .. call[c].n - 1 :
            ran[i][t] = IF t < set[s].claim[2] /\ \A v \in Workers : ~About(v, s, t) THEN 1 ELSE 0
  BY <1>2, <1>4, <1>5 DEF TileInv, CallRuns, TileType
<1>7. /\ ran[i] \in [0 .. call[c].n - 1 -> Nat]
      /\ \A d \in Callers : call[d].pc # "out" /\ d # c => call[d].id # i /\ call[d].slot # s
      /\ i \in 1 .. begun[1]
  BY <1>5, <1>6 DEF TileInv, CallOwns, Opens
<1>8. m \in 0 .. call[c].n - 1 /\ ran[i][m] = 0
  <2>1. m \in 0 .. call[c].n - 1
    BY <1>4, <1>6
  <2>2. About(w, s, m)
    BY <1>1, <1>3 DEF About
  <2> QED BY <1>6, <2>1, <2>2
<1>9. /\ DOMAIN ran = Calls /\ DOMAIN ran' = Calls
      /\ \A k \in Calls : k # i => ran'[k] = ran[k]
      /\ i \in Calls => ran'[i] = [ran[i] EXCEPT ![m] = 1]
  BY <1>3, <1>8 DEF TileInv, RanWhole
<1>10. begun \in Nat \X Nat /\ 1 .. begun[1] \subseteq Calls
  BY BegunCalls DEF TileInv, RanWhole
<1>11. /\ i \in Calls /\ ran'[i] \in [0 .. call[c].n - 1 -> Nat] /\ ran'[i][m] = 1
       /\ \A t \in 0 .. call[c].n - 1 : t # m => ran'[i][t] = ran[i][t]
  <2>1. i \in Calls
    BY <1>7, <1>10
  <2>2. PICK f : f = [ran[i] EXCEPT ![m] = 1]
    OBVIOUS
  <2>3. f \in [0 .. call[c].n - 1 -> Nat] /\ f[m] = 1 /\ \A t \in 0 .. call[c].n - 1 : t # m => f[t] = ran[i][t]
    BY <1>7, <1>8, <2>2
  <2> QED BY <1>9, <2>1, <2>2, <2>3
<1>12. /\ tile' \in [Workers -> TileRecords]
       /\ \A v \in Workers : v # w => tile'[v] = tile[v]
       /\ tile'[w].at = "running" /\ tile'[w].ctx = i /\ tile'[w].slot = s
       /\ tile'[w].gen = tile[w].gen /\ tile'[w].seen = tile[w].seen
  BY <1>1, <1>3, <1>4 DEF TileRecords
<1>13. TileType'
  BY <1>3, <1>12 DEF TileInv, TileType, TileRecords
<1>14. \A v \in Workers : \A x, t :
          /\ At(v, x, t)' <=> At(v, x, t)
          /\ About(v, x, t)' <=> About(v, x, t) /\ v # w
  BY <1>3, <1>12 DEF At, About
<1>15. \A x : Finished(x)' = Finished(x)
  BY <1>3, <1>14 DEF Finished
<1>16. CallOwns'
  <2>1. ASSUME NEW d \in Callers, call[d].pc # "out"
        PROVE  ran'[call[d].id] \in [0 .. call[d].n - 1 -> Nat]
    <3>1. CASE d = c
      BY <1>6, <1>11, <3>1
    <3>2. CASE d # c
      <4>1. call[d].id # i /\ call[d].id \in Calls
        BY <1>7, <1>10, <2>1, <3>2 DEF TileInv, CallOwns
      <4> QED BY <1>9, <2>1, <4>1 DEF TileInv, CallOwns
    <3> QED BY <3>1, <3>2
  <2> QED BY <1>3, <2>1 DEF TileInv, CallOwns
<1>17. CallRuns'
  <2>1. ASSUME NEW d \in Callers, d # c, call[d].pc # "out", NEW x, x = call[d].slot
        PROVE /\ ran'[call[d].id] = ran[call[d].id]
              /\ \A v \in Workers : \A t : About(v, x, t)' <=> About(v, x, t)
    <3>1. call[d].id # i /\ call[d].id \in Calls /\ x # s
      BY <1>7, <1>10, <2>1 DEF TileInv, CallOwns
    <3>2. ran'[call[d].id] = ran[call[d].id]
      BY <1>9, <3>1
    <3>3. \A t : ~About(w, x, t)
      BY <1>1, <3>1 DEF About
    <3> QED BY <1>14, <3>2, <3>3
  <2>2. ASSUME NEW t \in 0 .. call[c].n - 1
        PROVE  ran'[i][t] = IF t < set[s].claim[2] /\ \A v \in Workers : ~About(v, s, t)' THEN 1 ELSE 0
    <3>1. CASE t = m
      <4>1. \A v \in Workers : ~About(v, s, m)'
        BY <1>4, <1>14 DEF At, About
      <4> QED BY <1>4, <1>11, <3>1, <4>1
    <3>2. CASE t # m
      <4>1. \A v \in Workers : About(v, s, t)' <=> About(v, s, t)
        BY <1>1, <1>14, <3>2 DEF About
      <4> QED BY <1>6, <1>11, <3>2, <4>1
    <3> QED BY <3>1, <3>2
  <2>3. \A d \in Callers : (Opens(d)' <=> Opens(d)) /\ (Opens(d) => call[d].pc # "out")
    BY <1>3 DEF Opens
  <2> SUFFICES ASSUME NEW d \in Callers, NEW x, x = call[d].slot
      PROVE /\ call[d].pc \in {"arm", "publish"} => \A t \in 0 .. call[d].n - 1 : ran'[call[d].id][t] = 0
            /\ call[d].pc = "publish" => set[x].done = 0
            /\ call[d].pc = "publish" \/ Opens(d) =>
                  set[x].ctx = call[d].id /\ set[x].ntiles = call[d].n
            /\ Opens(d) =>
                  /\ set[x].claim[1] = call[d].gen /\ set[x].claim[2] <= call[d].n
                  /\ set[x].done = Cardinality(Finished(x))
                  /\ \A t \in 0 .. call[d].n - 1 :
                        ran'[call[d].id][t] =
                            IF t < set[x].claim[2] /\ \A v \in Workers : ~About(v, x, t)'
                            THEN 1 ELSE 0
    BY <1>3, <1>15, <2>3 DEF CallRuns
  <2>4. CASE d # c
    BY <2>1, <2>3, <2>4 DEF TileInv, CallRuns
  <2>5. CASE d = c
    <3>1. call[d].pc \notin {"arm", "publish"}
      BY <1>5, <2>5 DEF Opens
    <3>2. /\ set[x].ctx = call[d].id /\ set[x].ntiles = call[d].n
          /\ set[x].claim[1] = call[d].gen /\ set[x].claim[2] <= call[d].n
          /\ set[x].done = Cardinality(Finished(x))
      BY <1>5, <2>5 DEF TileInv, CallRuns
    <3> QED BY <1>5, <1>6, <2>2, <2>5, <3>1, <3>2
  <2> QED BY <2>4, <2>5
<1>18. RanWhole'
  <2>1. i \in OpenCalls
    BY <1>5, <1>6, OpenIs DEF Opens
  <2>2. OpenCalls' = OpenCalls
    BY <1>3 DEF OpenCalls
  <2>3. call[c].n - 1 \in Nat
    BY <1>6, <1>8
  <2>4. \A k \in Calls : IF k <= begun[1] THEN \E n \in Nat : ran'[k] \in [0 .. n -> Nat] ELSE ran'[k] = <<>>
    <3>1. i <= begun[1]
      BY <1>7, <1>10
    <3> QED BY <1>9, <1>11, <2>3, <3>1 DEF TileInv, RanWhole
  <2> QED BY <1>3, <1>9, <2>1, <2>2, <2>4 DEF TileInv, RanWhole
<1>19. \A x, g : GenOK(x, g)' <=> GenOK(x, g)
  BY <1>3 DEF GenOK, Opens
<1>20. TilesHeld'
  <2>1. ASSUME NEW v \in Workers PROVE TileOK(v)'
    <3>1. TileOK(v) /\ tile'[v].slot = tile[v].slot /\ tile'[v].gen = tile[v].gen /\ tile'[v].seen = tile[v].seen
      BY <1>1, <1>12 DEF TileInv, TilesHeld
    <3>2. PICK x, k, g : x = tile[v].slot /\ k = tile[v].seen[2] /\ g = tile[v].gen
      OBVIOUS
    <3>3. CASE v # w
      <4>1. tile'[v] = tile[v]
        BY <1>12, <3>3
      <4> QED BY <1>3, <1>14, <1>19, <3>1, <3>2, <4>1 DEF TileOK, Opens
    <3>4. CASE v = w
      <4>1. \E d \in Callers : Opens(d)' /\ call'[d].slot = s /\ call'[d].id = i
        BY <1>3, <1>5, <1>6 DEF Opens
      <4> QED BY <1>1, <1>3, <1>4, <1>12, <1>14, <1>19, <3>1, <3>2, <3>4, <4>1 DEF TileOK
    <3> QED BY <3>3, <3>4
  <2> QED BY <2>1 DEF TilesHeld
<1>21. ItemGens'
  BY <1>3, <1>19, ItemsAre DEF ItemGens, ItemOK
<1>22. RingType(ring)' /\ CpuType(cpu)'
  BY <1>3 DEF TileInv, RingType, CpuType
<1> QED BY <1>13, <1>16, <1>17, <1>18, <1>20, <1>21, <1>22 DEF TileInv

\* One call's part of CallRuns.
RunsOK(c) ==
    LET s == set[call[c].slot]
        r == ran[call[c].id]
    IN  /\ call[c].pc \in {"arm", "publish"} => \A t \in 0 .. call[c].n - 1 : r[t] = 0
        /\ call[c].pc = "publish" => s.done = 0
        /\ call[c].pc = "publish" \/ Opens(c) => s.ctx = call[c].id /\ s.ntiles = call[c].n
        /\ Opens(c) =>
              /\ s.claim[1] = call[c].gen /\ s.claim[2] <= call[c].n
              /\ s.done = Cardinality(Finished(call[c].slot))
              /\ \A t \in 0 .. call[c].n - 1 :
                    r[t] = IF t < s.claim[2] /\ \A w \in Workers : ~About(w, call[c].slot, t)
                           THEN 1 ELSE 0

\* A call that a step does not concern.
LEMMA OtherCall ==
    ASSUME TileInv, NEW d \in Callers, NEW x, NEW i, call'[d] = call[d],
           x = call[d].slot, i = call[d].id,
           call[d].pc # "out" => set'[x] = set[x] /\ ran'[i] = ran[i],
           call[d].pc # "out" => \A v \in Workers : \A t : /\ At(v, x, t)' <=> At(v, x, t)
                                                           /\ About(v, x, t)' <=> About(v, x, t)
    PROVE  RunsOK(d)'
<1>1. (Opens(d)' <=> Opens(d)) /\ (Opens(d) => call[d].pc # "out")
  BY DEF Opens
<1>2. CASE call[d].pc = "out"
  BY <1>1, <1>2 DEF RunsOK
<1>3. CASE call[d].pc # "out"
  <2>1. Finished(x)' = Finished(x)
    BY <1>3 DEF Finished
  <2>2. RunsOK(d)
    BY DEF TileInv, CallRuns, RunsOK
  <2>3. \A v \in Workers : \A t : About(v, x, t)' <=> About(v, x, t)
    BY <1>3
  <2> QED BY <1>1, <1>3, <2>1, <2>2, <2>3 DEF RunsOK
<1> QED BY <1>2, <1>3

\* A worker that a step does not concern.
LEMMA OtherWorker ==
    ASSUME TileInv, NEW v \in Workers, NEW x, NEW k, NEW g, tile'[v] = tile[v],
           x = tile[v].slot, k = tile[v].seen[2], g = tile[v].gen,
           \A s \in Sets, h \in Nat : GenOK(s, h) => GenOK(s, h)',
           v \in APs => cpu'[v].at = cpu[v].at,
           v \in Callers => call'[v].pc = call[v].pc,
           tile[v].at \in {"claimed", "running"} =>
              /\ set'[x].claim = set[x].claim
              /\ \A u \in Workers : At(u, x, k)' => At(u, x, k)
              /\ \A c \in Callers : Opens(c) /\ call[c].slot = x =>
                    Opens(c)' /\ call'[c].slot = x /\ call'[c].id = call[c].id
    PROVE  TileOK(v)'
<1>1. TileOK(v) /\ g \in Nat
  BY DEF TileInv, TilesHeld, TileType
<1>2. tile[v].at # "no" => GenOK(x, g)'
  BY <1>1 DEF TileOK, GenOK
<1>3. CASE tile[v].at \notin {"claimed", "running"}
  BY <1>1, <1>2, <1>3 DEF TileOK
<1>4. CASE tile[v].at \in {"claimed", "running"}
  <2>1. /\ g = set'[x].claim[1] /\ k < set'[x].claim[2]
        /\ \A u \in Workers : At(u, x, k)' => u = v
    BY <1>1, <1>4 DEF TileOK
  <2>2. tile[v].at = "running" => \E c \in Callers : Opens(c)' /\ call'[c].slot = x /\ call'[c].id = tile[v].ctx
    BY <1>1, <1>4 DEF TileOK
  <2> QED BY <1>1, <1>2, <1>4, <2>1, <2>2 DEF TileOK
<1> QED BY <1>3, <1>4

\* The tile is over.
LEMMA TileDoneTiles ==
    ASSUME TileInv, NEW w \in Workers, TileDone(w)
    PROVE  TileInv'
<1>1. PICK s, m, to : s = tile[w].slot /\ m = tile[w].seen[2] /\ to = IF w \in APs THEN "load" ELSE "no"
  OBVIOUS
<1>2. /\ tile[w].at = "running" /\ tile \in [Workers -> TileRecords]
      /\ tile' = [tile EXCEPT ![w].at = to]
      /\ set' = [set EXCEPT ![s].done = @ + 1]
      /\ UNCHANGED <<ring, cpu, ran, call, begun>>
  BY <1>1 DEF TileDone, miscVars, TileInv, TileType, TileRecords
<1>3. /\ s \in Sets /\ m \in Nat /\ m < set[s].claim[2]
      /\ tile[w].gen = set[s].claim[1] /\ set[s].claim \in Nat \X Nat /\ set[s].done \in Nat
      /\ \A v \in Workers : At(v, s, m) => v = w
  <2>1. TileOK(w) /\ set \in [Sets -> [inUse : BOOLEAN, claim : Nat \X Nat, ntiles : Nat, ctx : Nat, done : Nat]]
    BY DEF TileInv, TilesHeld, TileType
  <2>2. m \in Nat
    BY <1>1, <1>2 DEF TileRecords
  <2> QED BY <1>1, <1>2, <2>1, <2>2 DEF TileOK, GenOK
<1>4. PICK c \in Callers : Opens(c) /\ call[c].slot = s
  BY <1>1, <1>2, <1>3, TileHasCall
<1>5. /\ tile' \in [Workers -> TileRecords]
      /\ \A v \in Workers : v # w => tile'[v] = tile[v]
      /\ tile'[w].at = to /\ tile'[w].slot = s /\ tile'[w].gen = tile[w].gen
  BY <1>1, <1>2 DEF TileRecords
<1>6. /\ set' \in [Sets -> [inUse : BOOLEAN, claim : Nat \X Nat, ntiles : Nat, ctx : Nat, done : Nat]]
      /\ \A x \in Sets : x # s => set'[x] = set[x]
      /\ \A x \in Sets : set'[x].claim = set[x].claim /\ set'[x].inUse = set[x].inUse
      /\ set'[s].ctx = set[s].ctx /\ set'[s].ntiles = set[s].ntiles /\ set'[s].done = set[s].done + 1
  BY <1>2, <1>3 DEF TileInv, TileType
<1>7. TileType'
  BY <1>2, <1>5, <1>6 DEF TileInv, TileType, TileRecords
<1>8. \A v \in Workers : \A x, t :
         /\ At(v, x, t)' <=> At(v, x, t) /\ v # w
         /\ About(v, x, t)' <=> About(v, x, t)
  BY <1>1, <1>2, <1>5 DEF At, About
<1>9. \A x, t : At(w, x, t) <=> x = s /\ t = m
  BY <1>1, <1>2 DEF At
<1>10. Cardinality(Finished(s)') = Cardinality(Finished(s)) + 1
  <2>1. Finished(s) \subseteq 0 .. set[s].claim[2] - 1
    BY DEF Finished
  <2>2. IsFiniteSet(0 .. set[s].claim[2] - 1)
    <3>1. set[s].claim[2] - 1 \in Int /\ 0 \in Int
      BY <1>3
    <3> QED BY <3>1, FS_Interval
  <2>3. IsFiniteSet(Finished(s))
    BY <2>1, <2>2, FS_Subset
  <2>4. m \notin Finished(s)
    BY <1>9 DEF Finished
  <2>5. Finished(s)' = Finished(s) \cup {m}
    <3>1. Finished(s)' = {t \in 0 .. set[s].claim[2] - 1 : \A v \in Workers : ~At(v, s, t)'}
      BY <1>3, <1>6 DEF Finished
    <3>2. m \in 0 .. set[s].claim[2] - 1
      BY <1>3
    <3>3. \A v \in Workers : ~At(v, s, m)'
      BY <1>3, <1>8
    <3>4. \A t : t # m => \A v \in Workers : At(v, s, t)' <=> At(v, s, t)
      BY <1>8, <1>9
    <3> QED BY <3>1, <3>2, <3>3, <3>4 DEF Finished
  <2> QED BY <2>3, <2>4, <2>5, FS_AddElement
<1>11. CallOwns'
  <2>1. \A d \in Callers : call[d].pc # "out" => call[d].slot \in Sets /\ set'[call[d].slot].inUse
    BY <1>6 DEF TileInv, CallOwns
  <2> QED BY <1>2, <2>1 DEF TileInv, CallOwns
<1>12. CallRuns'
  <2>1. ASSUME NEW d \in Callers PROVE RunsOK(d)'
    <3>1. PICK x, i : x = call[d].slot /\ i = call[d].id
      OBVIOUS
    <3>2. CASE d # c
      <4>1. call[d].pc # "out" => x # s /\ x \in Sets
        BY <1>4, <3>1, <3>2, OneOpens DEF TileInv, CallOwns
      <4>2. call[d].pc # "out" => set'[x] = set[x] /\ ran'[i] = ran[i]
        BY <1>2, <1>6, <4>1
      <4>3. call[d].pc # "out" => \A v \in Workers : \A t : /\ At(v, x, t)' <=> At(v, x, t)
                                                            /\ About(v, x, t)' <=> About(v, x, t)
        BY <1>8, <1>9, <4>1
      <4> QED BY <1>2, <3>1, <4>2, <4>3, OtherCall
    <3>3. CASE d = c
      <4>1. RunsOK(c)
        BY DEF TileInv, CallRuns, RunsOK
      <4>2. Opens(c)' /\ call[c].pc \notin {"arm", "publish"}
        BY <1>2, <1>4 DEF Opens
      <4>3. set'[s].done = Cardinality(Finished(s)')
        BY <1>4, <1>6, <1>10, <4>1 DEF RunsOK
      <4> QED BY <1>2, <1>3, <1>4, <1>6, <1>8, <3>3, <4>1, <4>2, <4>3 DEF RunsOK
    <3> QED BY <3>2, <3>3
  <2> QED BY <2>1 DEF CallRuns, RunsOK
<1>13. RanWhole'
  BY <1>2 DEF TileInv, RanWhole, OpenCalls
<1>14. \A x \in Sets, g \in Nat : GenOK(x, g) => GenOK(x, g)'
  BY <1>2, <1>6 DEF GenOK, Opens
<1>15. TilesHeld'
  <2>1. ASSUME NEW v \in Workers PROVE TileOK(v)'
    <3>1. PICK x, k, g : x = tile[v].slot /\ k = tile[v].seen[2] /\ g = tile[v].gen
      OBVIOUS
    <3>2. TileOK(v)
      BY DEF TileInv, TilesHeld
    <3>3. CASE v # w
      <4>1. tile[v].at \in {"claimed", "running"} =>
              /\ set'[x].claim = set[x].claim
              /\ \A u \in Workers : At(u, x, k)' => At(u, x, k)
              /\ \A d \in Callers : Opens(d) /\ call[d].slot = x =>
                    Opens(d)' /\ call'[d].slot = x /\ call'[d].id = call[d].id
        <5>1. tile[v].at \in {"claimed", "running"} => x \in Sets
          BY <3>1, <3>2 DEF TileOK, GenOK
        <5> QED BY <1>2, <1>6, <1>8, <5>1 DEF Opens
      <4> QED BY <1>2, <1>5, <1>14, <3>1, <3>3, <4>1, OtherWorker
    <3>4. CASE v = w
      <4>1. CASE w \in APs
        <5>1. w \notin Callers
          BY <4>1, ApWorkAssumption
        <5>2. GenOK(x, g)' /\ x = s
          BY <1>1, <1>2, <1>3, <1>14, <3>1, <3>2, <3>4 DEF TileOK, TileRecords
        <5>3. cpu'[w].at = "helping"
          BY <1>2, <3>2, <3>4, <4>1 DEF TileOK
        <5> QED BY <1>1, <1>5, <3>1, <3>4, <4>1, <5>1, <5>2, <5>3 DEF TileOK
      <4>2. CASE w \notin APs
        BY <1>1, <1>5, <3>4, <4>2 DEF TileOK
      <4> QED BY <4>1, <4>2
    <3> QED BY <3>3, <3>4
  <2> QED BY <2>1 DEF TilesHeld
<1>16. ItemGens'
  <2>1. \A x \in Items : ItemOK(x) => ItemOK(x)'
    BY <1>14, ItemsKept
  <2> QED BY <1>2, <2>1, ItemsAre DEF ItemGens, ItemOK
<1>17. RingType(ring)' /\ CpuType(cpu)'
  BY <1>2 DEF TileInv, RingType, CpuType
<1> QED BY <1>7, <1>11, <1>12, <1>13, <1>15, <1>16, <1>17 DEF TileInv

-----------------------------------------------------------------------------
(* The tiles: the helpers.                                                 *)

\* A helper begins, or its entry is dropped.
LEMMA HelperStartTiles ==
    ASSUME TileInv, CpuType(cpu'), NEW a \in APs, HelperStart(a)
    PROVE  TileInv'
<1>1. PICK i : i = cpu[a].item
  OBVIOUS
<1>2. /\ cpu[a].at = "took" /\ i.kind = "tile"
      /\ UNCHANGED <<ring, set, call, ran, begun>>
      /\ \/ /\ cpu' = [cpu EXCEPT ![a].at = "helping"]
            /\ tile' = [tile EXCEPT ![a] = [NoTile EXCEPT !.at = "load", !.slot = i.slot, !.gen = i.gen]]
         \/ /\ cpu' = [cpu EXCEPT ![a] = Idle]
            /\ UNCHANGED tile
  BY <1>1 DEF HelperStart, miscVars
<1>3. i \in Items /\ ItemOK(i) /\ i \in TileItems
  BY <1>1, <1>2, ItemsAre, ItemKinds
<1>4. tile[a].at = "no"
  BY <1>2 DEF TileInv, TilesHeld, TileOK, Workers
<1>5. RingType(ring')
  BY <1>2 DEF TileInv, RingType
<1>6. begun' \in Nat \X Nat /\ begun'[1] = begun[1] /\ Within(begun')
  BY <1>2 DEF TileInv, RanWhole, Within
<1>7. \A b \in APs : \A k \in 1 .. Len(ring'[b]) : ItemOK(ring'[b][k].item)
  BY <1>2, ItemsAre
<1>8. CASE cpu' = [cpu EXCEPT ![a] = Idle] /\ UNCHANGED tile
  <2>1. cpu'[a] = Idle /\ \A b \in APs : b # a => cpu'[b] = cpu[b]
    BY <1>8 DEF TileInv, CpuType
  <2>2. \A b \in APs : cpu'[b].at \in {"took", "helping"} => ItemOK(cpu'[b].item)
    BY <2>1, ItemsAre DEF Idle
  <2>3. \A b \in APs : tile[b].at # "no" => cpu'[b].at = "helping"
    BY <1>4, <2>1 DEF TileInv, TilesHeld, TileOK, Workers
  <2> QED BY <1>2, <1>5, <1>6, <1>7, <1>8, <2>2, <2>3, TilesStay
<1>9. CASE /\ cpu' = [cpu EXCEPT ![a].at = "helping"]
           /\ tile' = [tile EXCEPT ![a] = [NoTile EXCEPT !.at = "load", !.slot = i.slot, !.gen = i.gen]]
  <2>1. /\ cpu'[a].at = "helping" /\ cpu'[a].item = i
        /\ \A b \in APs : b # a => cpu'[b] = cpu[b]
    BY <1>1, <1>9 DEF TileInv, CpuType
  <2>2. i.slot \in Nat /\ i.gen \in Nat /\ i.slot \in Sets
    BY <1>3, ApWorkAssumption DEF TileItems
  <2>3. PICK n : n = [NoTile EXCEPT !.at = "load", !.slot = i.slot, !.gen = i.gen]
    OBVIOUS
  <2>4. /\ n \in [at : {"no", "load", "try", "none", "claimed", "running"},
                  slot : Nat, gen : Nat, seen : Nat \X Nat, ctx : Nat]
        /\ n.at = "load" /\ n.slot = i.slot /\ n.gen = i.gen
    BY <2>2, <2>3 DEF NoTile
  <2>5. a \in Workers /\ a \notin Callers
    BY ApWorkAssumption DEF Workers
  <2>6. /\ tile'[a] = n /\ \A v \in Workers : v # a => tile'[v] = tile[v]
        /\ TileType'
    BY <1>2, <1>9, <2>3, <2>4, <2>5 DEF TileInv, TileType
  <2>7. \A v \in Workers : \A s, t : (At(v, s, t)' <=> At(v, s, t)) /\ (About(v, s, t)' <=> About(v, s, t))
    BY <1>4, <2>4, <2>6 DEF At, About
  <2>8. \A c \in Callers : CallGoesOn(c)
    BY <1>2 DEF CallGoesOn
  <2>9. /\ CallOwns' /\ CallRuns' /\ RanWhole'
        /\ \A s \in Sets, g \in Nat : GenOK(s, g) => GenOK(s, g)'
    BY <1>2, <2>6, <2>7, <2>8, CallsKept
  <2>10. \A x \in Items : ItemOK(x) => ItemOK(x)'
    BY <2>9, ItemsKept
  <2>11. ASSUME NEW v \in Workers PROVE TileOK(v)'
    <3>1. CASE v = a
      <4>1. GenOK(i.slot, i.gen)'
        BY <1>2, <1>3, <2>10 DEF ItemOK
      <4> QED BY <2>1, <2>4, <2>5, <2>6, <3>1, <4>1 DEF TileOK
    <3>2. CASE v # a
      <4>1. PICK x, k, g : x = tile[v].slot /\ k = tile[v].seen[2] /\ g = tile[v].gen
        OBVIOUS
      <4>2. v \in APs => cpu'[v].at = cpu[v].at
        BY <2>1, <3>2
      <4>3. \A c \in Callers : Opens(c) /\ call[c].slot = x =>
                Opens(c)' /\ call'[c].slot = x /\ call'[c].id = call[c].id
        BY <1>2 DEF Opens
      <4> QED BY <1>2, <2>6, <2>7, <2>9, <3>2, <4>1, <4>2, <4>3, OtherWorker
    <3> QED BY <3>1, <3>2
  <2>12. ItemGens'
    <3>1. \A b \in APs : cpu'[b].at \in {"took", "helping"} => cpu'[b].item \in Items /\ ItemOK(cpu'[b].item)
      BY <1>3, <2>1, ItemsAre
    <3>2. \A b \in APs : \A k \in 1 .. Len(ring'[b]) : ring'[b][k].item \in Items /\ ItemOK(ring'[b][k].item)
      BY <1>2, ItemsAre
    <3> QED BY <2>9, <3>1, <3>2, ItemsAfter
  <2>13. RingType(ring)' /\ CpuType(cpu)'
    BY <1>5 DEF RingType, CpuType
  <2> QED BY <2>6, <2>9, <2>11, <2>12, <2>13 DEF TileInv, TilesHeld
<1> QED BY <1>2, <1>8, <1>9

\* A helper finds no tile and ends.
LEMMA HelperEndTiles ==
    ASSUME TileInv, CpuType(cpu'), NEW a \in APs, HelperEnd(a)
    PROVE  TileInv'
<1>1. /\ tile[a].at = "none" /\ cpu' = [cpu EXCEPT ![a] = Idle]
      /\ tile' = [tile EXCEPT ![a] = NoTile]
      /\ UNCHANGED <<ring, set, call, ran, begun>>
  BY DEF HelperEnd, miscVars
<1>2. cpu'[a] = Idle /\ \A b \in APs : b # a => cpu'[b] = cpu[b]
  BY <1>1 DEF TileInv, CpuType
<1>3. a \in Workers
  BY DEF Workers
<1>4. NoTile \in [at : {"no", "load", "try", "none", "claimed", "running"},
                  slot : Nat, gen : Nat, seen : Nat \X Nat, ctx : Nat]
  BY DEF NoTile
<1>5. /\ tile'[a] = NoTile /\ \A v \in Workers : v # a => tile'[v] = tile[v]
      /\ TileType'
  BY <1>1, <1>3, <1>4 DEF TileInv, TileType
<1>6. \A v \in Workers : \A s, t : (At(v, s, t)' <=> At(v, s, t)) /\ (About(v, s, t)' <=> About(v, s, t))
  BY <1>1, <1>5 DEF At, About, NoTile
<1>7. \A c \in Callers : CallGoesOn(c)
  BY <1>1 DEF CallGoesOn
<1>8. /\ CallOwns' /\ CallRuns' /\ RanWhole'
      /\ \A s \in Sets, g \in Nat : GenOK(s, g) => GenOK(s, g)'
  BY <1>1, <1>5, <1>6, <1>7, CallsKept
<1>10. ASSUME NEW v \in Workers PROVE TileOK(v)'
  <2>1. CASE v = a
    BY <1>5, <2>1 DEF TileOK, NoTile
  <2>2. CASE v # a
    <3>1. PICK x, k, g : x = tile[v].slot /\ k = tile[v].seen[2] /\ g = tile[v].gen
      OBVIOUS
    <3>2. v \in APs => cpu'[v].at = cpu[v].at
      BY <1>2, <2>2
    <3>3. \A c \in Callers : Opens(c) /\ call[c].slot = x =>
              Opens(c)' /\ call'[c].slot = x /\ call'[c].id = call[c].id
      BY <1>1 DEF Opens
    <3> QED BY <1>1, <1>5, <1>6, <1>8, <2>2, <3>1, <3>2, <3>3, OtherWorker
  <2> QED BY <2>1, <2>2
<1>11. ItemGens'
  <2>1. \A b \in APs : cpu'[b].at \in {"took", "helping"} => cpu'[b].item \in Items /\ ItemOK(cpu'[b].item)
    BY <1>2, ItemsAre DEF Idle
  <2>2. \A b \in APs : \A k \in 1 .. Len(ring'[b]) : ring'[b][k].item \in Items /\ ItemOK(ring'[b][k].item)
    BY <1>1, ItemsAre
  <2> QED BY <1>8, <2>1, <2>2, ItemsAfter
<1>12. RingType(ring)' /\ CpuType(cpu)'
  BY <1>1 DEF TileInv, RingType, CpuType
<1> QED BY <1>5, <1>8, <1>10, <1>11, <1>12 DEF TileInv, TilesHeld

-----------------------------------------------------------------------------
(* The tiles: the callers.                                                 *)

CallRecords == [pc : {"out", "arm", "publish", "recruit", "submit", "post", "work", "retired", "release"},
                id : Nat, n : Nat, slot : Nat, gen : Nat, want : Int, jobs : Nat]
SetRecords == [inUse : BOOLEAN, claim : Nat \X Nat, ntiles : Nat, ctx : Nat, done : Nat]

\* The call of c has begun and not retired its set.
InCall(c) == call[c].pc \notin {"out", "release", "retired"}

\* A step of one call, in its own set and with its own worker: what has to be
\* shown of this call only.
LEMMA OneCallSteps ==
    ASSUME TileInv, NEW c \in Callers, NEW s, NEW i, call[c].pc # "out", s = call[c].slot, i = call[c].id,
           UNCHANGED <<cpu, ran, begun>>, RingType(ring'),
           \A b \in APs : \A k \in 1 .. Len(ring'[b]) : ring'[b][k].item \in Items /\ ItemOK(ring'[b][k].item),
           TileType',
           \A d \in Callers : d # c => call'[d] = call[d],
           \A x \in Sets : x # s => set'[x] = set[x],
           \A v \in Workers : v # c => tile'[v] = tile[v],
           \A v \in Workers : \A x, t : (At(v, x, t)' <=> At(v, x, t)) /\ (About(v, x, t)' <=> About(v, x, t)),
           \A x \in Sets, g \in Nat : GenOK(x, g) => GenOK(x, g)',
           call'[c].pc # "out" => /\ call'[c].slot = s /\ call'[c].id = i /\ call'[c].n = call[c].n
                                  /\ set'[s].inUse,
           RunsOK(c)', TileOK(c)',
           \A v \in Workers : v # c /\ tile[v].at \in {"claimed", "running"} /\ tile[v].slot = s =>
              set'[s].claim = set[s].claim /\ (Opens(c) => Opens(c)'),
           InCall(c)' => InCall(c),
           InCall(c) /\ ~InCall(c)' => \A t \in DOMAIN ran[i] : ran[i][t] = 1
    PROVE  TileInv'
<1>1. s \in Sets
  BY DEF TileInv, CallOwns
<1>2. \A d \in Callers : call[d].pc # "out" /\ d # c => call[d].slot \in Sets /\ call[d].slot # s /\ call[d].id # i
  BY DEF TileInv, CallOwns
<1>3. CallOwns'
  <2>1. ASSUME NEW d \in Callers, call'[d].pc # "out"
        PROVE  /\ call[d].pc # "out" /\ call'[d].slot = call[d].slot /\ call'[d].id = call[d].id
               /\ call'[d].n = call[d].n /\ set'[call[d].slot].inUse
    <3>1. CASE d = c
      BY <2>1, <3>1
    <3>2. CASE d # c
      <4>1. call'[d] = call[d] /\ set'[call[d].slot] = set[call[d].slot]
        BY <1>2, <2>1, <3>2
      <4> QED BY <2>1, <4>1 DEF TileInv, CallOwns
    <3> QED BY <3>1, <3>2
  <2> QED BY <2>1 DEF TileInv, CallOwns
<1>4. CallRuns'
  <2>1. ASSUME NEW d \in Callers, d # c PROVE RunsOK(d)'
    <3>1. PICK x, k : x = call[d].slot /\ k = call[d].id
      OBVIOUS
    <3>2. call[d].pc # "out" => set'[x] = set[x] /\ ran'[k] = ran[k]
      BY <1>2, <2>1, <3>1
    <3> QED BY <2>1, <3>1, <3>2, OtherCall
  <2> QED BY <2>1 DEF CallRuns, RunsOK
<1>5. TilesHeld'
  <2>1. ASSUME NEW v \in Workers, v # c PROVE TileOK(v)'
    <3>1. PICK x, k, g : x = tile[v].slot /\ k = tile[v].seen[2] /\ g = tile[v].gen
      OBVIOUS
    <3>2. ASSUME tile[v].at \in {"claimed", "running"}
          PROVE  /\ set'[x].claim = set[x].claim
                 /\ \A u \in Workers : At(u, x, k)' => At(u, x, k)
                 /\ \A d \in Callers : Opens(d) /\ call[d].slot = x =>
                       Opens(d)' /\ call'[d].slot = x /\ call'[d].id = call[d].id
      <4>1. x \in Sets
        BY <3>1, <3>2 DEF TileInv, TilesHeld, TileOK, GenOK
      <4>2. set'[x].claim = set[x].claim
        BY <2>1, <3>1, <3>2, <4>1
      <4>3. ASSUME NEW d \in Callers, Opens(d), call[d].slot = x
            PROVE  Opens(d)' /\ call'[d].slot = x /\ call'[d].id = call[d].id
        <5>1. CASE d = c
          <6>1. Opens(c)'
            BY <2>1, <3>1, <3>2, <4>3, <5>1
          <6>2. call'[c].pc # "out"
            BY <6>1 DEF Opens
          <6> QED BY <4>3, <5>1, <6>1, <6>2
        <5>2. CASE d # c
          BY <4>3, <5>2 DEF Opens
        <5> QED BY <5>1, <5>2
      <4> QED BY <4>2, <4>3
    <3>3. v \in Callers => call'[v].pc = call[v].pc
      BY <2>1
    <3> QED BY <2>1, <3>1, <3>2, <3>3, OtherWorker
  <2> QED BY <2>1 DEF TilesHeld
<1>6. ItemGens'
  <2>1. \A b \in APs : cpu'[b].at \in {"took", "helping"} => cpu'[b].item \in Items /\ ItemOK(cpu'[b].item)
    BY ItemsAre
  <2> QED BY <2>1, ItemsAfter
<1>7. RanWhole'
  <2>1. ASSUME NEW k \in Calls, k \notin OpenCalls' PROVE \A t \in DOMAIN ran[k] : ran[k][t] = 1
    <3>1. CASE k \notin OpenCalls
      BY <3>1 DEF TileInv, RanWhole
    <3>2. CASE k \in OpenCalls
      <4>1. PICK d \in Callers : InCall(d) /\ call[d].id = k
        BY <3>2, OpenIs DEF InCall
      <4>2. \A e \in Callers : ~(InCall(e)' /\ call'[e].id = k)
        BY <2>1 DEF OpenCalls, InCall
      <4>3. d = c
        <5> SUFFICES ASSUME d # c PROVE FALSE
          OBVIOUS
        <5>1. InCall(d)' /\ call'[d].id = k
          BY <4>1 DEF InCall
        <5> QED BY <4>2, <5>1
      <4>4. ~InCall(c)'
        <5> SUFFICES ASSUME InCall(c)' PROVE FALSE
          OBVIOUS
        <5>1. call'[c].pc # "out"
          BY DEF InCall
        <5> QED BY <4>1, <4>2, <4>3, <5>1
      <4> QED BY <4>1, <4>3, <4>4
    <3> QED BY <3>1, <3>2
  <2> QED BY <2>1 DEF TileInv, RanWhole
<1>8. RingType(ring)' /\ CpuType(cpu)'
  BY DEF TileInv, RingType, CpuType
<1> QED BY <1>3, <1>4, <1>5, <1>6, <1>7, <1>8 DEF TileInv

\* What the steps of a call leave alone.
LEMMA CallFrame ==
    ASSUME TileInv, NEW c \in Callers, CallStep(c)
    PROVE  /\ call[c].pc # "out" /\ UNCHANGED <<cpu, ran, begun>>
           /\ call[c].slot \in Sets /\ set[call[c].slot] \in SetRecords
           /\ call[c] \in CallRecords /\ call[c].n # 0
           /\ ~HelperPost(c) => UNCHANGED ring
           /\ c \in Workers
<1>1. call[c].pc # "out" /\ UNCHANGED <<cpu, ran, begun>>
  BY DEF CallStep, Arm, Publish, HelperInit, HelperSubmit, HelperPost, OwnTile, Retire, CancelHelpers, Release,
         callOnly, BetweenTiles, miscVars
<1>2. ~HelperPost(c) => UNCHANGED ring
  BY DEF CallStep, Arm, Publish, HelperInit, HelperSubmit, OwnTile, Retire, CancelHelpers, Release
<1>3. call[c].slot \in Sets /\ call[c].n # 0
  BY <1>1 DEF TileInv, CallOwns
<1>4. set[call[c].slot] \in SetRecords /\ call[c] \in CallRecords
  BY <1>3 DEF TileInv, TileType, SetRecords, CallRecords
<1> QED BY <1>1, <1>2, <1>3, <1>4 DEF Workers

\* The rings hold what they held.
LEMMA SameRings ==
    ASSUME TileInv, UNCHANGED ring
    PROVE  /\ RingType(ring')
           /\ \A b \in APs : \A k \in 1 .. Len(ring'[b]) : ring'[b][k].item \in Items /\ ItemOK(ring'[b][k].item)
<1>1. RingType(ring')
  BY DEF TileInv, RingType
<1> QED BY <1>1, ItemsAre

\* The set is filled in.
LEMMA ArmTiles ==
    ASSUME TileInv, NEW c \in Callers, Arm(c)
    PROVE  TileInv'
<1>1. PICK s, i, n : s = call[c].slot /\ i = call[c].id /\ n = call[c].n
  OBVIOUS
<1>2. CallStep(c) /\ ~HelperPost(c)
  BY DEF CallStep, Arm, HelperPost
<1>3. /\ call[c].pc # "out" /\ UNCHANGED <<cpu, ran, begun, ring>>
      /\ s \in Sets /\ set[s] \in SetRecords /\ call[c] \in CallRecords /\ n # 0 /\ c \in Workers
  BY <1>1, <1>2, CallFrame
<1>4. /\ call[c].pc = "arm" /\ call' = [call EXCEPT ![c].pc = "publish"] /\ UNCHANGED tile
      /\ set' = [set EXCEPT ![s].ctx = i, ![s].ntiles = n, ![s].done = 0]
  BY <1>1 DEF Arm
<1>5. PICK y, z : y = [set[s] EXCEPT !.ctx = i, !.ntiles = n, !.done = 0] /\ z = [call[c] EXCEPT !.pc = "publish"]
  OBVIOUS
<1>6. /\ y \in SetRecords /\ y.claim = set[s].claim /\ y.inUse = set[s].inUse
      /\ y.ctx = i /\ y.ntiles = n /\ y.done = 0
  BY <1>1, <1>3, <1>5 DEF SetRecords, CallRecords
<1>7. /\ z \in CallRecords /\ z.pc = "publish" /\ z.slot = s /\ z.id = i /\ z.n = n
  BY <1>1, <1>3, <1>5 DEF CallRecords
<1>8. set \in [Sets -> SetRecords] /\ call \in [Callers -> CallRecords]
  BY DEF TileInv, TileType, SetRecords, CallRecords
<1>9. /\ set' \in [Sets -> SetRecords] /\ set'[s] = y
      /\ \A x \in Sets : x # s => set'[x] = set[x]
  <2>1. set' = [set EXCEPT ![s] = y]
    BY <1>3, <1>4, <1>5, <1>8 DEF SetRecords
  <2> QED BY <1>3, <1>6, <1>8, <2>1
<1>10. /\ call' \in [Callers -> CallRecords] /\ call'[c] = z
       /\ \A d \in Callers : d # c => call'[d] = call[d]
  BY <1>4, <1>5, <1>7, <1>8
<1>11. TileType'
  BY <1>4, <1>9, <1>10 DEF TileInv, TileType, SetRecords, CallRecords
<1>12. \A v \in Workers : \A x, t : (At(v, x, t)' <=> At(v, x, t)) /\ (About(v, x, t)' <=> About(v, x, t))
  BY <1>4 DEF At, About
<1>13. \A x \in Sets, g \in Nat : GenOK(x, g) => GenOK(x, g)'
  <2>1. \A x \in Sets : set'[x].claim = set[x].claim
    BY <1>6, <1>9
  <2>2. \A d \in Callers : Opens(d) => Opens(d)' /\ call'[d].slot = call[d].slot
    BY <1>4, <1>10 DEF Opens
  <2> QED BY <2>1, <2>2 DEF GenOK
<1>14. set[s].inUse /\ \A t \in 0 .. n - 1 : ran[i][t] = 0
  BY <1>1, <1>4 DEF TileInv, CallOwns, CallRuns
<1>15. RunsOK(c)'
  <2>1. ~Opens(c)'
    BY <1>7, <1>10 DEF Opens
  <2> QED BY <1>3, <1>6, <1>7, <1>9, <1>10, <1>14, <2>1 DEF RunsOK
<1>16. TileOK(c)'
  <2>1. tile[c].at = "no"
    BY <1>3, <1>4 DEF TileInv, TilesHeld, TileOK
  <2> QED BY <1>4, <2>1 DEF TileOK
<1>17. InCall(c) /\ InCall(c)' /\ ~Opens(c)
  BY <1>4, <1>7, <1>10 DEF InCall, Opens
<1>18. /\ RingType(ring')
       /\ \A b \in APs : \A k \in 1 .. Len(ring'[b]) : ring'[b][k].item \in Items /\ ItemOK(ring'[b][k].item)
  BY <1>3, SameRings
<1>19. /\ call'[c].pc # "out" => call'[c].slot = s /\ call'[c].id = i /\ call'[c].n = call[c].n /\ set'[s].inUse
       /\ set'[s].claim = set[s].claim
  BY <1>1, <1>6, <1>7, <1>9, <1>10, <1>14
<1>20. \A v \in Workers : v # c => tile'[v] = tile[v]
  BY <1>4
<1> QED BY <1>1, <1>3, <1>9, <1>10, <1>11, <1>12, <1>13, <1>15, <1>16, <1>17, <1>18, <1>19, <1>20, OneCallSteps

\* Nobody has a tile of a set that is not open.
LEMMA NobodyThere ==
    ASSUME TileInv, NEW c \in Callers, call[c].pc # "out", ~Opens(c), NEW s, s = call[c].slot
    PROVE  \A v \in Workers : ~(tile[v].at \in {"claimed", "running"} /\ tile[v].slot = s)
<1> SUFFICES ASSUME NEW v \in Workers, tile[v].at \in {"claimed", "running"}, tile[v].slot = s
             PROVE  FALSE
  OBVIOUS
<1>1. tile[v].at # "no" /\ tile[v].gen = set[tile[v].slot].claim[1]
  BY DEF TileInv, TilesHeld, TileOK
<1>2. PICK d \in Callers : Opens(d) /\ call[d].slot = s
  BY <1>1, TileHasCall
<1>3. d = c
  BY <1>2, OneOpens
<1> QED BY <1>2, <1>3

\* The set is opened with a new generation.
LEMMA PublishTiles ==
    ASSUME TileInv, NEW c \in Callers, Publish(c)
    PROVE  TileInv'
<1>1. PICK s, i, n, g : s = call[c].slot /\ i = call[c].id /\ n = call[c].n /\ g = set[call[c].slot].claim[1] + 1
  OBVIOUS
<1>2. CallStep(c) /\ ~HelperPost(c)
  BY DEF CallStep, Publish, HelperPost
<1>3. /\ call[c].pc # "out" /\ UNCHANGED <<cpu, ran, begun, ring>>
      /\ s \in Sets /\ set[s] \in SetRecords /\ call[c] \in CallRecords /\ n # 0 /\ c \in Workers
  BY <1>1, <1>2, CallFrame
<1>4. n \in Nat /\ g \in Nat /\ g > set[s].claim[1]
  BY <1>1, <1>3 DEF SetRecords, CallRecords
<1>5. PICK w : w = Wanted(n)
  OBVIOUS
<1>6. w \in Int
  <2>1. IsFiniteSet(APs \ userBusy) /\ IsFiniteSet(Helpers)
    BY ApWorkAssumption, FS_Difference
  <2>2. PICK u, h : u = Cardinality(APs \ userBusy) /\ h = Cardinality(Helpers)
    OBVIOUS
  <2>3. u \in Nat /\ h \in Nat
    BY <2>1, <2>2, FS_CardinalityType
  <2>4. n - 1 \in Nat
    BY <1>3, <1>4
  <2>5. {u, n - 1, h} \subseteq Nat /\ {u, n - 1, h} # {}
    BY <2>3, <2>4
  <2>6. Least({u, n - 1, h}) \in {u, n - 1, h}
    BY <2>5, LeastIs
  <2> QED BY <1>5, <2>2, <2>5, <2>6 DEF Wanted
<1>7. /\ call[c].pc = "publish" /\ UNCHANGED tile
      /\ set' = [set EXCEPT ![s].claim = <<g, 0>>]
      /\ call' = [call EXCEPT ![c].pc = "recruit", ![c].gen = g, ![c].want = w]
  BY <1>1, <1>5 DEF Publish
<1>8. PICK y, z : y = [set[s] EXCEPT !.claim = <<g, 0>>] /\ z = [call[c] EXCEPT !.pc = "recruit", !.gen = g, !.want = w]
  OBVIOUS
<1>9. /\ y \in SetRecords /\ y.claim = <<g, 0>> /\ y.inUse = set[s].inUse
      /\ y.ctx = set[s].ctx /\ y.ntiles = set[s].ntiles /\ y.done = set[s].done
  BY <1>3, <1>4, <1>8 DEF SetRecords
<1>10. /\ z \in CallRecords /\ z.pc = "recruit" /\ z.slot = s /\ z.id = i /\ z.n = n /\ z.gen = g
  BY <1>1, <1>3, <1>4, <1>6, <1>8 DEF CallRecords
<1>11. set \in [Sets -> SetRecords] /\ call \in [Callers -> CallRecords]
  BY DEF TileInv, TileType, SetRecords, CallRecords
<1>12. /\ set' \in [Sets -> SetRecords] /\ set'[s] = y
       /\ \A x \in Sets : x # s => set'[x] = set[x]
  BY <1>3, <1>7, <1>8, <1>9, <1>11
<1>13. /\ call' \in [Callers -> CallRecords] /\ call'[c] = z
       /\ \A d \in Callers : d # c => call'[d] = call[d]
  <2>1. call' = [call EXCEPT ![c] = z]
    BY <1>7, <1>8, <1>11 DEF CallRecords
  <2> QED BY <1>10, <1>11, <2>1
<1>14. TileType'
  BY <1>7, <1>12, <1>13 DEF TileInv, TileType, SetRecords, CallRecords
<1>15. \A v \in Workers : \A x, t : (At(v, x, t)' <=> At(v, x, t)) /\ (About(v, x, t)' <=> About(v, x, t))
  BY <1>7 DEF At, About
<1>16. \A x \in Sets, h \in Nat : GenOK(x, h) => GenOK(x, h)'
  <2>1. set'[s].claim[1] = g
    BY <1>9, <1>12
  <2>2. ASSUME NEW x \in Sets
        PROVE  \/ set'[x].claim[1] > set[x].claim[1]
               \/ /\ set'[x].claim[1] = set[x].claim[1]
                  /\ \A d \in Callers : Opens(d) /\ call[d].slot = x => Opens(d)' /\ call'[d].slot = x
    <3>1. CASE x = s
      BY <1>4, <2>1, <3>1
    <3>2. CASE x # s
      <4>1. set'[x].claim[1] = set[x].claim[1]
        BY <1>12, <3>2
      <4>2. \A d \in Callers : Opens(d) /\ call[d].slot = x => Opens(d)' /\ call'[d].slot = x
        BY <1>1, <1>13, <3>2 DEF Opens
      <4> QED BY <4>1, <4>2
    <3> QED BY <3>1, <3>2
  <2>3. TileType
    BY DEF TileInv
  <2> QED BY <1>14, <2>2, <2>3, GensKept
<1>17. ~Opens(c) /\ Opens(c)' /\ InCall(c) /\ InCall(c)'
  BY <1>7, <1>10, <1>13 DEF Opens, InCall
<1>18. /\ set[s].inUse /\ set[s].done = 0 /\ set[s].ctx = i /\ set[s].ntiles = n
       /\ \A t \in 0 .. n - 1 : ran[i][t] = 0
  BY <1>1, <1>7 DEF TileInv, CallOwns, CallRuns
<1>19. RunsOK(c)'
  <2>1. set'[s].claim[1] = g /\ set'[s].claim[2] = 0
    BY <1>9, <1>12
  <2>2. Finished(s)' = {}
    <3>1. 0 .. set'[s].claim[2] - 1 = {}
      BY <2>1
    <3> QED BY <3>1 DEF Finished
  <2>3. Cardinality(Finished(s)') = 0
    BY <2>2, FS_EmptySet
  <2>4. \A t \in 0 .. n - 1 : ~(t < 0)
    BY <1>4
  <2> QED BY <1>3, <1>4, <1>9, <1>10, <1>12, <1>13, <1>17, <1>18, <2>1, <2>3, <2>4 DEF RunsOK
<1>20. TileOK(c)'
  <2>1. tile[c].at = "no"
    BY <1>3, <1>7 DEF TileInv, TilesHeld, TileOK
  <2> QED BY <1>7, <2>1 DEF TileOK
<1>21. \A v \in Workers : ~(tile[v].at \in {"claimed", "running"} /\ tile[v].slot = s)
  BY <1>1, <1>3, <1>17, NobodyThere
<1>22. /\ RingType(ring')
       /\ \A b \in APs : \A k \in 1 .. Len(ring'[b]) : ring'[b][k].item \in Items /\ ItemOK(ring'[b][k].item)
  BY <1>3, SameRings
<1>23. call'[c].pc # "out" => call'[c].slot = s /\ call'[c].id = i /\ call'[c].n = call[c].n /\ set'[s].inUse
  BY <1>1, <1>9, <1>10, <1>12, <1>13, <1>18
<1> QED BY <1>1, <1>3, <1>7, <1>12, <1>13, <1>14, <1>15, <1>16, <1>17, <1>19, <1>20, <1>21, <1>22, <1>23,
           OneCallSteps

\* An open call goes on, and its set stays as it is.
LEMMA OpenCallSteps ==
    ASSUME TileInv, NEW c \in Callers, NEW z, Opens(c),
           UNCHANGED <<cpu, set, ran, begun>>, RingType(ring'),
           \A b \in APs : \A k \in 1 .. Len(ring'[b]) : ring'[b][k].item \in Items /\ ItemOK(ring'[b][k].item),
           call' = [call EXCEPT ![c] = z], z \in CallRecords, z.pc \in {"recruit", "submit", "post", "work"},
           z.id = call[c].id, z.n = call[c].n, z.slot = call[c].slot, z.gen = call[c].gen,
           tile' \in [Workers -> TileRecords],
           \A v \in Workers : v # c => tile'[v] = tile[v],
           tile[c].at \in {"no", "none"}, tile'[c].at \in {"no", "load"},
           tile'[c].at = "no" \/ (tile'[c].slot = z.slot /\ tile'[c].gen = z.gen /\ z.pc = "work")
    PROVE  TileInv'
<1>1. PICK s, i, g : s = call[c].slot /\ i = call[c].id /\ g = call[c].gen
  OBVIOUS
<1>2. call \in [Callers -> CallRecords]
  BY DEF TileInv, TileType, CallRecords
<1>3. /\ call' \in [Callers -> CallRecords] /\ call'[c] = z
      /\ \A d \in Callers : d # c => call'[d] = call[d]
  BY <1>2
<1>4. TileType'
  BY <1>3 DEF TileInv, TileType, CallRecords, TileRecords
<1>5. Opens(c)' /\ call[c].pc # "out" /\ InCall(c)
  BY <1>3 DEF Opens, InCall
<1>6. \A d \in Callers : CallGoesOn(d)
  BY <1>3, <1>5 DEF CallGoesOn
<1>7. \A v \in Workers : \A x, t : (At(v, x, t)' <=> At(v, x, t)) /\ (About(v, x, t)' <=> About(v, x, t))
  BY DEF At, About
<1>8. /\ CallOwns' /\ CallRuns' /\ RanWhole'
      /\ \A x \in Sets, h \in Nat : GenOK(x, h) => GenOK(x, h)'
  BY <1>4, <1>6, <1>7, CallsKept
<1>9. RunsOK(c)'
  BY <1>8 DEF CallRuns, RunsOK
<1>10. /\ s \in Sets /\ set[s].inUse /\ set[s].claim[1] = g /\ g \in Nat
  BY <1>1, <1>5 DEF TileInv, CallOwns, CallRuns, TileType
<1>11. TileOK(c)'
  <2>1. CASE tile'[c].at = "no"
    BY <2>1 DEF TileOK
  <2>2. CASE tile'[c].at = "load"
    <3>1. GenOK(s, g)'
      <4>1. \E d \in Callers : Opens(d)' /\ call'[d].slot = s
        BY <1>1, <1>3, <1>5
      <4> QED BY <1>10, <4>1 DEF GenOK
    <3>2. c \notin APs
      BY ApWorkAssumption
    <3> QED BY <1>1, <1>3, <2>2, <3>1, <3>2 DEF TileOK
  <2> QED BY <2>1, <2>2
<1>12. InCall(c)'
  BY <1>5 DEF Opens, InCall
<1>13. /\ call'[c].slot = s /\ call'[c].id = i /\ call'[c].n = call[c].n /\ set'[s].inUse
       /\ set'[s].claim = set[s].claim
  BY <1>1, <1>3, <1>10
<1>14. \A x \in Sets : x # s => set'[x] = set[x]
  OBVIOUS
<1> QED BY <1>1, <1>3, <1>4, <1>5, <1>7, <1>8, <1>9, <1>11, <1>12, <1>13, <1>14, OneCallSteps

\* The caller recruits helpers, and takes tiles itself.
LEMMA RecruitTiles ==
    ASSUME TileInv, NEW c \in Callers, HelperInit(c) \/ HelperSubmit(c) \/ OwnTile(c)
    PROVE  TileInv'
<1>1. CallStep(c) /\ ~HelperPost(c)
  BY DEF CallStep, HelperInit, HelperSubmit, OwnTile, HelperPost, BetweenTiles
<1>2. /\ UNCHANGED <<cpu, ran, begun, ring, set>> /\ c \in Workers /\ call[c] \in CallRecords /\ call[c].slot \in Sets
  BY <1>1, CallFrame DEF HelperInit, HelperSubmit, OwnTile
<1>3. /\ RingType(ring')
      /\ \A b \in APs : \A k \in 1 .. Len(ring'[b]) : ring'[b][k].item \in Items /\ ItemOK(ring'[b][k].item)
  BY <1>2, SameRings
<1>4. tile \in [Workers -> TileRecords] /\ call \in [Callers -> CallRecords]
  BY DEF TileInv, TileType, TileRecords, CallRecords
<1>5. CASE HelperInit(c)
  <2>1. PICK z : z = [call[c] EXCEPT !.pc = "submit"]
    OBVIOUS
  <2>2. /\ z \in CallRecords /\ z.pc = "submit" /\ z.id = call[c].id /\ z.n = call[c].n
        /\ z.slot = call[c].slot /\ z.gen = call[c].gen
    BY <1>2, <2>1 DEF CallRecords
  <2>3. call' = [call EXCEPT ![c] = z] /\ UNCHANGED tile /\ Opens(c) /\ call[c].pc = "recruit"
    BY <1>4, <1>5, <2>1 DEF HelperInit, Opens
  <2>4. tile[c].at = "no"
    BY <1>2, <2>3 DEF TileInv, TilesHeld, TileOK
  <2> QED BY <1>2, <1>3, <1>4, <2>2, <2>3, <2>4, OpenCallSteps
<1>6. CASE HelperSubmit(c)
  <2>1. PICK z : \/ z = [call[c] EXCEPT !.pc = "post"] /\ call' = [call EXCEPT ![c].pc = "post"]
                 \/ /\ z = [call[c] EXCEPT !.pc = "recruit", !.want = @ - 1]
                    /\ call' = [call EXCEPT ![c].pc = "recruit", ![c].want = @ - 1]
    BY <1>6 DEF HelperSubmit
  <2>2. /\ z \in CallRecords /\ z.pc \in {"post", "recruit"} /\ z.id = call[c].id /\ z.n = call[c].n
        /\ z.slot = call[c].slot /\ z.gen = call[c].gen
    <3>1. call[c].want - 1 \in Int
      BY <1>2 DEF CallRecords
    <3>2. CASE z = [call[c] EXCEPT !.pc = "post"]
      BY <1>2, <3>2 DEF CallRecords
    <3>3. CASE z = [call[c] EXCEPT !.pc = "recruit", !.want = @ - 1]
      BY <1>2, <3>1, <3>3 DEF CallRecords
    <3> QED BY <2>1, <3>2, <3>3
  <2>3. call' = [call EXCEPT ![c] = z]
    BY <1>4, <2>1 DEF CallRecords
  <2>4. UNCHANGED tile /\ Opens(c) /\ call[c].pc = "submit"
    BY <1>6 DEF HelperSubmit, Opens
  <2>5. tile[c].at = "no"
    BY <1>2, <2>4 DEF TileInv, TilesHeld, TileOK
  <2> QED BY <1>2, <1>3, <1>4, <2>2, <2>3, <2>4, <2>5, OpenCallSteps
<1>7. CASE OwnTile(c)
  <2>1. PICK z, n : z = [call[c] EXCEPT !.pc = "work"] /\
                    n = [NoTile EXCEPT !.at = "load", !.slot = call[c].slot, !.gen = call[c].gen]
    OBVIOUS
  <2>2. /\ z \in CallRecords /\ z.pc = "work" /\ z.id = call[c].id /\ z.n = call[c].n
        /\ z.slot = call[c].slot /\ z.gen = call[c].gen
    BY <1>2, <2>1 DEF CallRecords
  <2>3. n \in TileRecords /\ n.at = "load" /\ n.slot = call[c].slot /\ n.gen = call[c].gen
    BY <1>2, <2>1 DEF NoTile, TileRecords, CallRecords
  <2>4. /\ call' = [call EXCEPT ![c] = z] /\ tile' = [tile EXCEPT ![c] = n] /\ BetweenTiles(c)
    BY <1>4, <1>7, <2>1 DEF OwnTile
  <2>5. Opens(c) /\ tile[c].at \in {"no", "none"}
    BY <1>2, <2>4 DEF BetweenTiles, Opens, TileInv, TilesHeld, TileOK
  <2>6. tile' \in [Workers -> TileRecords] /\ tile'[c] = n /\ \A v \in Workers : v # c => tile'[v] = tile[v]
    BY <1>2, <1>4, <2>3, <2>4
  <2> QED BY <1>2, <1>3, <1>4, <2>2, <2>3, <2>4, <2>5, <2>6, OpenCallSteps
<1> QED BY <1>5, <1>6, <1>7

\* A helper is posted, or not.
LEMMA HelperPostTiles ==
    ASSUME TileInv, RingType(ring'), NEW c \in Callers, HelperPost(c)
    PROVE  TileInv'
<1>1. CallStep(c)
  BY DEF CallStep
<1>2. /\ UNCHANGED <<cpu, ran, begun, set, tile>> /\ c \in Workers /\ call[c] \in CallRecords
      /\ call[c].slot \in Sets /\ Opens(c) /\ call[c].pc = "post"
  BY <1>1, CallFrame DEF HelperPost, Opens
<1>3. tile \in [Workers -> TileRecords] /\ call \in [Callers -> CallRecords]
  BY DEF TileInv, TileType, TileRecords, CallRecords
<1>4. PICK a, e, k, x : /\ a = LeastLoaded /\ k = call[c].jobs + 1
                        /\ x = [kind |-> "tile", slot |-> call[c].slot, gen |-> call[c].gen, k |-> k]
                        /\ e = Entry(x)
  OBVIOUS
<1>5. k \in Nat /\ call[c].want - 1 \in Int /\ call[c].gen \in Nat
  BY <1>2, <1>4 DEF CallRecords
<1>6. PICK z : \/ /\ z = [call[c] EXCEPT !.pc = "recruit", !.want = @ - 1, !.jobs = k]
                  /\ call' = [call EXCEPT ![c].pc = "recruit", ![c].want = @ - 1, ![c].jobs = k]
               \/ /\ z = [call[c] EXCEPT !.pc = "recruit", !.want = @ - 1]
                  /\ call' = [call EXCEPT ![c].pc = "recruit", ![c].want = @ - 1]
  BY <1>4 DEF HelperPost
<1>7. /\ z \in CallRecords /\ z.pc = "recruit" /\ z.id = call[c].id /\ z.n = call[c].n
      /\ z.slot = call[c].slot /\ z.gen = call[c].gen
  BY <1>2, <1>5, <1>6 DEF CallRecords
<1>8. call' = [call EXCEPT ![c] = z]
  BY <1>3, <1>6 DEF CallRecords
<1>9. tile[c].at = "no"
  BY <1>2 DEF TileInv, TilesHeld, TileOK
<1>10. \A b \in APs : \A l \in 1 .. Len(ring'[b]) : ring'[b][l].item \in Items /\ ItemOK(ring'[b][l].item)
  <2>1. CASE UNCHANGED ring
    BY <2>1, SameRings
  <2>2. CASE ~UNCHANGED ring
    <3>1. ring' = [ring EXCEPT ![a] = Append(@, e)]
      BY <1>4, <2>2 DEF HelperPost, Enqueue
    <3>2. x \in Items /\ ItemOK(x) /\ e.item = x
      <4>1. x \in TileItems
        BY <1>2, <1>4, <1>5 DEF TileItems
      <4>2. GenOK(x.slot, x.gen)
        BY <1>2, <1>4, <1>5 DEF GenOK, TileInv, CallRuns, TileType
      <4> QED BY <1>4, <4>1, <4>2 DEF Items, ItemOK, Entry
    <3>3. ring \in [APs -> Seq(RingEntries)]
      BY DEF TileInv, RingType
    <3>4. ASSUME NEW b \in APs, NEW l \in 1 .. Len(ring'[b])
          PROVE  ring'[b][l].item \in Items /\ ItemOK(ring'[b][l].item)
      <4>1. CASE b # a
        BY <3>1, <3>3, <3>4, <4>1, ItemsAre
      <4>2. CASE b = a
        <5>1. PICK w : w = Append(ring[a], e)
          OBVIOUS
        <5>2. ring'[a] = w /\ ring[a] \in Seq(RingEntries)
          BY <3>1, <3>3, <4>2, <5>1
        <5>3. (l \in 1 .. Len(ring[a]) /\ w[l] = ring[a][l]) \/ w[l] = e
          BY <3>4, <4>2, <5>1, <5>2
        <5> QED BY <3>2, <4>2, <5>2, <5>3, ItemsAre
      <4> QED BY <4>1, <4>2
    <3> QED BY <3>4
  <2> QED BY <2>1, <2>2
<1> QED BY <1>2, <1>3, <1>7, <1>8, <1>9, <1>10, OpenCallSteps

\* When as many tiles are finished as the call has, nobody is at one.
LEMMA AllFinished ==
    ASSUME TileInv, NEW c \in Callers, Opens(c), NEW s, NEW n, s = call[c].slot, n = call[c].n,
           set[s].done >= n
    PROVE  /\ \A v \in Workers : ~(tile[v].at \in {"claimed", "running"} /\ tile[v].slot = s)
           /\ \A t \in 0 .. n - 1 : ran[call[c].id][t] = 1
<1>1. call[c].pc # "out"
  BY DEF Opens
<1>2. /\ s \in Sets /\ n \in Nat /\ n # 0 /\ set[s].claim \in Nat \X Nat /\ set[s].done \in Nat
      /\ set[s].claim[2] <= n /\ set[s].done = Cardinality(Finished(s))
  BY <1>1 DEF TileInv, CallOwns, CallRuns, TileType
<1>3. Finished(s) \subseteq 0 .. n - 1
  BY <1>2 DEF Finished
<1>4. n - 1 \in Int /\ 0 \in Int /\ n - 1 - 0 + 1 = n
  BY <1>2
<1>5. IsFiniteSet(0 .. n - 1) /\ Cardinality(0 .. n - 1) = n
  <2>1. IsFiniteSet(0 .. n - 1) /\ Cardinality(0 .. n - 1) = IF 0 > n - 1 THEN 0 ELSE (n - 1) - 0 + 1
    BY <1>4, FS_Interval
  <2> QED BY <1>2, <2>1
<1>6. Finished(s) = 0 .. n - 1
  <2>1. Cardinality(Finished(s)) <= Cardinality(0 .. n - 1) /\ IsFiniteSet(Finished(s))
    BY <1>3, <1>5, FS_Subset
  <2>2. Cardinality(Finished(s)) = Cardinality(0 .. n - 1)
    BY <1>2, <1>5, <2>1
  <2> QED BY <1>3, <1>5, <2>2, FS_Subset
<1>7. \A v \in Workers : ~(tile[v].at \in {"claimed", "running"} /\ tile[v].slot = s)
  <2> SUFFICES ASSUME NEW v \in Workers, tile[v].at \in {"claimed", "running"}, tile[v].slot = s
               PROVE  FALSE
    OBVIOUS
  <2>1. PICK t : t = tile[v].seen[2]
    OBVIOUS
  <2>2. t \in Nat /\ t < set[s].claim[2] /\ At(v, s, t)
    BY <2>1 DEF TileInv, TilesHeld, TileOK, TileType, At
  <2>3. t \in 0 .. n - 1
    BY <1>2, <2>2
  <2> QED BY <1>6, <2>2, <2>3 DEF Finished
<1>8. ASSUME NEW t \in 0 .. n - 1 PROVE ran[call[c].id][t] = 1
  <2>1. t \in Finished(s)
    BY <1>6
  <2>2. t < set[s].claim[2]
    BY <1>2, <2>1 DEF Finished
  <2>3. \A v \in Workers : ~About(v, s, t)
    BY <1>7 DEF About
  <2> QED BY <2>2, <2>3 DEF TileInv, CallRuns
<1> QED BY <1>7, <1>8

\* The caller sees that all is done, and closes the set.
LEMMA RetireTiles ==
    ASSUME TileInv, NEW c \in Callers, Retire(c)
    PROVE  TileInv'
<1>1. PICK s, i, n, g : s = call[c].slot /\ i = call[c].id /\ n = call[c].n /\ g = call[c].gen + 1
  OBVIOUS
<1>2. CallStep(c) /\ ~HelperPost(c)
  BY DEF CallStep, Retire, HelperPost, BetweenTiles
<1>3. /\ call[c].pc # "out" /\ UNCHANGED <<cpu, ran, begun, ring>>
      /\ s \in Sets /\ set[s] \in SetRecords /\ call[c] \in CallRecords /\ n # 0 /\ c \in Workers
  BY <1>1, <1>2, CallFrame
<1>4. /\ BetweenTiles(c) /\ set[s].done >= n /\ UNCHANGED tile
      /\ set' = [set EXCEPT ![s].claim = <<g, Spent>>]
      /\ call' = [call EXCEPT ![c].pc = "retired"]
  BY <1>1 DEF Retire, Retired
<1>5. Opens(c) /\ tile[c].at \in {"no", "none"}
  BY <1>3, <1>4 DEF BetweenTiles, Opens, TileInv, TilesHeld, TileOK
<1>6. g \in Nat /\ g > set[s].claim[1] /\ set[s].inUse /\ ran[i] \in [0 .. n - 1 -> Nat]
  BY <1>1, <1>3, <1>5 DEF TileInv, CallRuns, CallOwns, CallRecords
<1>7. PICK y, z : y = [set[s] EXCEPT !.claim = <<g, Spent>>] /\ z = [call[c] EXCEPT !.pc = "retired"]
  OBVIOUS
<1>8. y \in SetRecords /\ y.claim = <<g, Spent>> /\ y.inUse = set[s].inUse
  <2>1. Spent \in Nat
    BY DEF Spent
  <2> QED BY <1>3, <1>6, <1>7, <2>1 DEF SetRecords
<1>9. z \in CallRecords /\ z.pc = "retired" /\ z.slot = s /\ z.id = i /\ z.n = n
  BY <1>1, <1>3, <1>7 DEF CallRecords
<1>10. set \in [Sets -> SetRecords] /\ call \in [Callers -> CallRecords]
  BY DEF TileInv, TileType, SetRecords, CallRecords
<1>11. /\ set' \in [Sets -> SetRecords] /\ set'[s] = y
       /\ \A x \in Sets : x # s => set'[x] = set[x]
  BY <1>3, <1>4, <1>7, <1>8, <1>10
<1>12. /\ call' \in [Callers -> CallRecords] /\ call'[c] = z
       /\ \A d \in Callers : d # c => call'[d] = call[d]
  BY <1>4, <1>7, <1>9, <1>10
<1>13. TileType'
  BY <1>4, <1>11, <1>12 DEF TileInv, TileType, SetRecords, CallRecords
<1>14. \A v \in Workers : \A x, t : (At(v, x, t)' <=> At(v, x, t)) /\ (About(v, x, t)' <=> About(v, x, t))
  BY <1>4 DEF At, About
<1>15. \A x \in Sets, h \in Nat : GenOK(x, h) => GenOK(x, h)'
  <2>1. set'[s].claim[1] = g
    BY <1>8, <1>11
  <2>2. ASSUME NEW x \in Sets
        PROVE  \/ set'[x].claim[1] > set[x].claim[1]
               \/ /\ set'[x].claim[1] = set[x].claim[1]
                  /\ \A d \in Callers : Opens(d) /\ call[d].slot = x => Opens(d)' /\ call'[d].slot = x
    <3>1. CASE x = s
      BY <1>6, <2>1, <3>1
    <3>2. CASE x # s
      <4>1. set'[x].claim[1] = set[x].claim[1]
        BY <1>11, <3>2
      <4>2. \A d \in Callers : Opens(d) /\ call[d].slot = x => Opens(d)' /\ call'[d].slot = x
        BY <1>1, <1>12, <3>2 DEF Opens
      <4> QED BY <4>1, <4>2
    <3> QED BY <3>1, <3>2
  <2>3. TileType
    BY DEF TileInv
  <2> QED BY <1>13, <2>2, <2>3, GensKept
<1>16. ~Opens(c)' /\ ~InCall(c)' /\ call'[c].pc = "retired"
  BY <1>9, <1>12 DEF Opens, InCall
<1>17. /\ \A v \in Workers : ~(tile[v].at \in {"claimed", "running"} /\ tile[v].slot = s)
       /\ \A t \in 0 .. n - 1 : ran[i][t] = 1
  BY <1>1, <1>4, <1>5, AllFinished
<1>18. RunsOK(c)'
  BY <1>16 DEF RunsOK
<1>19. TileOK(c)'
  <2>1. tile'[c] = tile[c] /\ (tile[c].at = "no" \/ tile[c].at = "none")
    BY <1>4, <1>5
  <2>2. CASE tile[c].at = "no"
    BY <2>1, <2>2 DEF TileOK
  <2>3. CASE tile[c].at = "none"
    <3>1. PICK x, h : x = tile[c].slot /\ h = tile[c].gen
      OBVIOUS
    <3>2. GenOK(x, h) /\ x \in Sets /\ h \in Nat
      BY <1>3, <2>3, <3>1 DEF TileInv, TilesHeld, TileOK, GenOK, TileType
    <3>3. GenOK(x, h)'
      BY <1>15, <3>2
    <3>4. c \notin APs
      BY ApWorkAssumption
    <3> QED BY <1>16, <2>1, <2>3, <3>1, <3>3, <3>4 DEF TileOK
  <2> QED BY <2>1, <2>2, <2>3
<1>20. /\ RingType(ring')
       /\ \A b \in APs : \A k \in 1 .. Len(ring'[b]) : ring'[b][k].item \in Items /\ ItemOK(ring'[b][k].item)
  BY <1>3, SameRings
<1>21. /\ call'[c].slot = s /\ call'[c].id = i /\ call'[c].n = call[c].n /\ set'[s].inUse
       /\ \A t \in DOMAIN ran[i] : ran[i][t] = 1
  BY <1>1, <1>6, <1>8, <1>9, <1>11, <1>12, <1>17
<1>22. \A v \in Workers : v # c => tile'[v] = tile[v]
  BY <1>4
<1> QED BY <1>1, <1>3, <1>11, <1>12, <1>13, <1>14, <1>15, <1>16, <1>17, <1>18, <1>19, <1>20, <1>21, <1>22,
           OneCallSteps

\* The helpers are cancelled, and the set is given back.
LEMMA EndTiles ==
    ASSUME TileInv, NEW c \in Callers, CancelHelpers(c) \/ Release(c)
    PROVE  TileInv'
<1>1. PICK s, i, n : s = call[c].slot /\ i = call[c].id /\ n = call[c].n
  OBVIOUS
<1>2. CallStep(c) /\ ~HelperPost(c)
  BY DEF CallStep, CancelHelpers, Release, HelperPost
<1>3. /\ call[c].pc # "out" /\ UNCHANGED <<cpu, ran, begun, ring>>
      /\ s \in Sets /\ set[s] \in SetRecords /\ call[c] \in CallRecords /\ n # 0 /\ c \in Workers
  BY <1>1, <1>2, CallFrame
<1>4. /\ RingType(ring')
      /\ \A b \in APs : \A k \in 1 .. Len(ring'[b]) : ring'[b][k].item \in Items /\ ItemOK(ring'[b][k].item)
  BY <1>3, SameRings
<1>5. call[c].pc \in {"retired", "release"} /\ ~Opens(c) /\ ~InCall(c)
  BY DEF CancelHelpers, Release, Opens, InCall
<1>6. set[s].inUse /\ tile[c].at \in {"no", "none"}
  BY <1>1, <1>3, <1>5 DEF TileInv, CallOwns, TilesHeld, TileOK
<1>7. \A v \in Workers : ~(tile[v].at \in {"claimed", "running"} /\ tile[v].slot = s)
  BY <1>1, <1>3, <1>5, NobodyThere
<1>8. /\ set \in [Sets -> SetRecords] /\ call \in [Callers -> CallRecords] /\ tile \in [Workers -> TileRecords]
  BY DEF TileInv, TileType, SetRecords, CallRecords, TileRecords
\* What both need of the sets, the workers and this call.
<1>9. /\ set' \in [Sets -> SetRecords] /\ call' \in [Callers -> CallRecords] /\ tile' \in [Workers -> TileRecords]
      /\ \A d \in Callers : d # c => call'[d] = call[d]
      /\ \A x \in Sets : x # s => set'[x] = set[x]
      /\ set'[s].claim = set[s].claim
      /\ \A v \in Workers : v # c => tile'[v] = tile[v]
      /\ \/ call'[c].pc = "out" /\ tile'[c].at = "no"
         \/ /\ call'[c].pc = "release" /\ call'[c].slot = s /\ call'[c].id = i /\ call'[c].n = n
            /\ UNCHANGED <<set, tile>>
  <2>1. CASE CancelHelpers(c)
    <3>1. PICK z : z = [call[c] EXCEPT !.pc = "release"]
      OBVIOUS
    <3>2. z \in CallRecords /\ z.pc = "release" /\ z.slot = s /\ z.id = i /\ z.n = n
      BY <1>1, <1>3, <3>1 DEF CallRecords
    <3>3. call' = [call EXCEPT ![c] = z] /\ UNCHANGED <<set, tile>>
      BY <1>8, <2>1, <3>1 DEF CancelHelpers
    <3> QED BY <1>8, <3>2, <3>3
  <2>2. CASE Release(c)
    <3>1. PICK y : y = [set[s] EXCEPT !.inUse = FALSE]
      OBVIOUS
    <3>2. y \in SetRecords /\ y.claim = set[s].claim
      BY <1>3, <3>1 DEF SetRecords
    <3>3. Out \in CallRecords /\ Out.pc = "out" /\ NoTile \in TileRecords /\ NoTile.at = "no"
      BY DEF Out, NoTile, CallRecords, TileRecords
    <3>4. set' = [set EXCEPT ![s] = y] /\ call' = [call EXCEPT ![c] = Out] /\ tile' = [tile EXCEPT ![c] = NoTile]
      BY <1>1, <1>8, <2>2, <3>1 DEF Release
    <3>5. set' \in [Sets -> SetRecords] /\ set'[s] = y /\ \A x \in Sets : x # s => set'[x] = set[x]
      BY <1>3, <1>8, <3>2, <3>4
    <3>6. call' \in [Callers -> CallRecords] /\ call'[c] = Out /\ \A d \in Callers : d # c => call'[d] = call[d]
      BY <1>8, <3>3, <3>4
    <3>7. tile' \in [Workers -> TileRecords] /\ tile'[c] = NoTile /\ \A v \in Workers : v # c => tile'[v] = tile[v]
      BY <1>3, <1>8, <3>3, <3>4
    <3> QED BY <3>2, <3>3, <3>5, <3>6, <3>7
  <2> QED BY <2>1, <2>2
<1>10. TileType'
  BY <1>9 DEF TileType, SetRecords, CallRecords, TileRecords
<1>11. \A v \in Workers : \A x, t : (At(v, x, t)' <=> At(v, x, t)) /\ (About(v, x, t)' <=> About(v, x, t))
  BY <1>6, <1>9 DEF At, About
<1>12. \A x \in Sets, h \in Nat : GenOK(x, h) => GenOK(x, h)'
  <2>1. \A x \in Sets : set'[x].claim = set[x].claim
    BY <1>9
  <2>2. \A d \in Callers : Opens(d) => Opens(d)' /\ call'[d].slot = call[d].slot
    BY <1>5, <1>9 DEF Opens
  <2> QED BY <2>1, <2>2 DEF GenOK
<1>13. ~Opens(c)' /\ ~InCall(c)' /\ call'[c].pc \in {"out", "release"}
  BY <1>9 DEF Opens, InCall
<1>14. RunsOK(c)'
  BY <1>13 DEF RunsOK
<1>15. TileOK(c)'
  <2>1. CASE tile'[c].at = "no"
    BY <2>1 DEF TileOK
  <2>2. CASE tile'[c].at # "no"
    <3>1. tile'[c] = tile[c] /\ call'[c].pc = "release" /\ tile[c].at = "none"
      BY <1>6, <1>9, <2>2
    <3>2. PICK x, h : x = tile[c].slot /\ h = tile[c].gen
      OBVIOUS
    <3>3. GenOK(x, h) /\ x \in Sets /\ h \in Nat
      BY <1>3, <3>1, <3>2 DEF TileInv, TilesHeld, TileOK, GenOK, TileType
    <3>4. GenOK(x, h)' /\ c \notin APs
      BY <1>12, <3>3, ApWorkAssumption
    <3> QED BY <3>1, <3>2, <3>4 DEF TileOK
  <2> QED BY <2>1, <2>2
<1>16. call'[c].pc # "out" => call'[c].slot = s /\ call'[c].id = i /\ call'[c].n = call[c].n /\ set'[s].inUse
  BY <1>1, <1>6, <1>9
<1> QED BY <1>1, <1>3, <1>4, <1>5, <1>7, <1>9, <1>10, <1>11, <1>12, <1>13, <1>14, <1>15, <1>16, OneCallSteps

\* A call begins: it gets the next number and, if it can, a set.
LEMMA BeginTiles ==
    ASSUME TileInv, NEW c \in Callers, NEW n \in TileCounts, Begin(c, n)
    PROVE  TileInv'
<1>1. /\ n \in Nat /\ n # 0 /\ n - 1 \in Nat
      /\ call[c].pc = "out" /\ begun \in Nat \X Nat /\ Within(begun)
      /\ begun' \in Nat \X Nat /\ begun'[1] = begun[1] + 1 /\ Within(begun')
  BY ApWorkAssumption DEF Begin, TileInv, RanWhole
<1>2. PICK i : i = Least(Unused)
  OBVIOUS
<1>3. i = begun[1] + 1 /\ i \in Calls
  <2>1. \A k \in 1 .. begun'[1] : k \in Calls
    <3>1. PICK x \in Mixes : begun'[1] <= x[1]
      BY <1>1 DEF Within
    <3>2. x[1] \in Nat /\ begun'[1] \in Nat
      BY <1>1, <3>1, ApWorkAssumption
    <3>3. 1 .. begun'[1] \subseteq 1 .. x[1]
      BY <3>1, <3>2
    <3> QED BY <3>1, <3>3 DEF Calls
  <2>2. begun[1] + 1 \in Calls
    BY <1>1, <2>1
  <2>3. Calls \subseteq Nat
    BY ApWorkAssumption DEF Calls
  <2>4. begun[1] + 1 \in Unused
    BY <1>1, <2>2 DEF Unused, TileInv, RanWhole
  <2>5. ASSUME NEW k \in Unused PROVE begun[1] + 1 <= k
    <3>1. k \in Calls /\ k \in Nat /\ ran[k] = <<>>
      BY <2>3 DEF Unused
    <3>2. ASSUME k <= begun[1] PROVE FALSE
      <4>1. PICK m \in Nat : ran[k] \in [0 .. m -> Nat]
        BY <3>1, <3>2 DEF TileInv, RanWhole
      <4>2. 0 \in DOMAIN ran[k]
        BY <4>1
      <4>3. DOMAIN ran[k] = {}
        BY <3>1
      <4> QED BY <4>2, <4>3
    <3> QED BY <1>1, <3>1, <3>2
  <2>6. Unused \subseteq Nat /\ Unused # {}
    BY <2>3, <2>4 DEF Unused
  <2>7. i \in Unused /\ \A k \in Unused : i <= k
    BY <1>2, <2>6, LeastIs
  <2>8. i \in Nat /\ i <= begun[1] + 1 /\ begun[1] + 1 <= i
    BY <2>4, <2>5, <2>6, <2>7
  <2> QED BY <1>1, <2>2, <2>8
<1>4. PICK f : f \in [0 .. n - 1 -> Nat] /\ ran' = [ran EXCEPT ![i] = f]
             /\ \/ /\ \A t \in 0 .. n - 1 : f[t] = 1
                   /\ UNCHANGED <<set, call>>
                \/ /\ \A t \in 0 .. n - 1 : f[t] = 0
                   /\ FreeSets # {}
                   /\ set' = [set EXCEPT ![Least(FreeSets)].inUse = TRUE]
                   /\ call' = [call EXCEPT ![c] = [Out EXCEPT !.pc = "arm", !.id = i, !.n = n,
                                                              !.slot = Least(FreeSets)]]
  <2>1. PICK p, q : p = [t \in 0 .. n - 1 |-> 1] /\ q = [t \in 0 .. n - 1 |-> 0]
    OBVIOUS
  <2>2. /\ p \in [0 .. n - 1 -> Nat] /\ \A t \in 0 .. n - 1 : p[t] = 1
        /\ q \in [0 .. n - 1 -> Nat] /\ \A t \in 0 .. n - 1 : q[t] = 0
    BY <2>1
  <2>3. CASE n = 1 \/ FreeSets = {}
    <3>1. ran' = [ran EXCEPT ![i] = p] /\ UNCHANGED <<set, call>>
      BY <1>2, <2>1, <2>3 DEF Begin
    <3> WITNESS p
    <3> QED BY <2>2, <3>1
  <2>4. CASE ~(n = 1 \/ FreeSets = {})
    <3>1. /\ ran' = [ran EXCEPT ![i] = q] /\ FreeSets # {}
          /\ set' = [set EXCEPT ![Least(FreeSets)].inUse = TRUE]
          /\ call' = [call EXCEPT ![c] = [Out EXCEPT !.pc = "arm", !.id = i, !.n = n, !.slot = Least(FreeSets)]]
      BY <1>2, <2>1, <2>4 DEF Begin
    <3> WITNESS q
    <3> QED BY <2>2, <3>1
  <2> QED BY <2>3, <2>4
<1>5. UNCHANGED <<ring, tile, cpu>>
  BY DEF Begin
<1>6. DOMAIN ran = Calls /\ DOMAIN ran' = Calls /\ ran'[i] = f /\ \A k \in Calls : k # i => ran'[k] = ran[k]
  BY <1>3, <1>4 DEF TileInv, RanWhole
<1>7. \A d \in Callers : call[d].pc # "out" => call[d].id \in Calls /\ call[d].id # i /\ call[d].id \in 1 .. begun'[1]
  <2>1. \A d \in Callers : call[d].pc # "out" => call[d].id \in 1 .. begun[1]
    BY DEF TileInv, CallOwns
  <2>2. 1 .. begun[1] \subseteq Calls
    BY <1>1, BegunCalls
  <2>3. \A k \in 1 .. begun[1] : k # i /\ k \in 1 .. begun'[1]
    BY <1>1, <1>3
  <2> QED BY <2>1, <2>2, <2>3
<1>8. i \notin OpenCalls /\ i \in 1 .. begun'[1]
  BY <1>1, <1>3, <1>7, OpenIs
<1>9. \A v \in Workers : \A x, t : (At(v, x, t)' <=> At(v, x, t)) /\ (About(v, x, t)' <=> About(v, x, t))
  BY <1>5 DEF At, About
<1>10. RingType(ring)' /\ CpuType(cpu)'
  BY <1>5 DEF TileInv, RingType, CpuType
<1>11. \A k \in Calls : IF k <= begun'[1] THEN \E m \in Nat : ran'[k] \in [0 .. m -> Nat] ELSE ran'[k] = <<>>
  <2> SUFFICES ASSUME NEW k \in Calls
               PROVE  IF k <= begun'[1] THEN \E m \in Nat : ran'[k] \in [0 .. m -> Nat] ELSE ran'[k] = <<>>
    OBVIOUS
  <2>1. CASE k = i
    <3>1. k <= begun'[1]
      BY <1>1, <1>3, <2>1
    <3>2. ran'[k] \in [0 .. n - 1 -> Nat]
      BY <1>4, <1>6, <2>1
    <3> QED BY <1>1, <3>1, <3>2
  <2>2. CASE k # i
    <3>1. k \in Nat
      BY ApWorkAssumption DEF Calls
    <3>2. k <= begun'[1] <=> k <= begun[1]
      BY <1>1, <1>3, <2>2, <3>1
    <3> QED BY <1>6, <2>2, <3>2 DEF TileInv, RanWhole
  <2> QED BY <2>1, <2>2
<1>12. CASE UNCHANGED <<set, call>> /\ \A t \in 0 .. n - 1 : f[t] = 1
  <2>1. TileType'
    BY <1>5, <1>12 DEF TileInv, TileType
  <2>2. CallOwns'
    <3>1. \A d \in Callers : call[d].pc # "out" => ran'[call[d].id] = ran[call[d].id]
      BY <1>6, <1>7
    <3> QED BY <1>7, <1>12, <3>1 DEF TileInv, CallOwns
  <2>3. CallRuns'
    <3>1. ASSUME NEW d \in Callers PROVE RunsOK(d)'
      <4>1. PICK x, k : x = call[d].slot /\ k = call[d].id
        OBVIOUS
      <4>2. call[d].pc # "out" => set'[x] = set[x] /\ ran'[k] = ran[k]
        BY <1>6, <1>7, <1>12, <4>1
      <4> QED BY <1>9, <1>12, <4>1, <4>2, OtherCall
    <3> QED BY <3>1 DEF CallRuns, RunsOK
  <2>4. \A x, g : GenOK(x, g)' <=> GenOK(x, g)
    BY <1>12 DEF GenOK, Opens
  <2>5. TilesHeld'
    BY <1>5, <1>12, <2>4 DEF TileInv, TilesHeld, TileOK, At, Opens
  <2>6. ItemGens'
    BY <1>5, <2>4 DEF TileInv, ItemGens
  <2>7. RanWhole'
    <3>1. OpenCalls' = OpenCalls
      BY <1>12 DEF OpenCalls
    <3>2. ASSUME NEW k \in Calls, k \notin OpenCalls PROVE \A t \in DOMAIN ran'[k] : ran'[k][t] = 1
      <4>1. CASE k = i
        BY <1>4, <1>6, <1>12, <4>1
      <4>2. CASE k # i
        BY <1>6, <3>2, <4>2 DEF TileInv, RanWhole
      <4> QED BY <4>1, <4>2
    <3> QED BY <1>1, <1>6, <1>11, <3>1, <3>2 DEF RanWhole
  <2> QED BY <1>10, <2>1, <2>2, <2>3, <2>5, <2>6, <2>7 DEF TileInv
<1>13. CASE /\ \A t \in 0 .. n - 1 : f[t] = 0
            /\ FreeSets # {}
            /\ set' = [set EXCEPT ![Least(FreeSets)].inUse = TRUE]
            /\ call' = [call EXCEPT ![c] = [Out EXCEPT !.pc = "arm", !.id = i, !.n = n, !.slot = Least(FreeSets)]]
  <2>1. PICK s : s = Least(FreeSets)
    OBVIOUS
  <2>2. s \in Sets /\ ~set[s].inUse /\ s \in Nat
    <3>1. FreeSets \subseteq Nat
      BY ApWorkAssumption DEF FreeSets
    <3>2. s \in FreeSets
      BY <1>13, <2>1, <3>1, LeastIs
    <3> QED BY <3>1, <3>2 DEF FreeSets
  <2>3. PICK y, z : y = [set[s] EXCEPT !.inUse = TRUE] /\ z = [Out EXCEPT !.pc = "arm", !.id = i, !.n = n, !.slot = s]
    OBVIOUS
  <2>4. set \in [Sets -> SetRecords] /\ call \in [Callers -> CallRecords]
    BY DEF TileInv, TileType, SetRecords, CallRecords
  <2>5. y \in SetRecords /\ y.claim = set[s].claim /\ y.inUse
    BY <2>2, <2>3, <2>4 DEF SetRecords
  <2>6. z \in CallRecords /\ z.pc = "arm" /\ z.id = i /\ z.n = n /\ z.slot = s
    <3>1. i \in Nat
      BY <1>1, <1>3
    <3>2. z = [pc |-> "arm", id |-> i, n |-> n, slot |-> s, gen |-> 0, want |-> 0, jobs |-> 0]
      BY <2>3 DEF Out
    <3> QED BY <1>1, <2>2, <3>1, <3>2 DEF CallRecords
  <2>7. /\ set' \in [Sets -> SetRecords] /\ set'[s] = y
        /\ \A x \in Sets : x # s => set'[x] = set[x]
    BY <1>13, <2>1, <2>2, <2>3, <2>4, <2>5
  <2>8. /\ call' \in [Callers -> CallRecords] /\ call'[c] = z
        /\ \A d \in Callers : d # c => call'[d] = call[d]
    BY <1>13, <2>1, <2>3, <2>4, <2>6
  <2>9. TileType'
    BY <1>5, <2>7, <2>8 DEF TileInv, TileType, SetRecords, CallRecords
  <2>10. \A d \in Callers : call[d].pc # "out" => d # c /\ call[d].slot \in Sets /\ call[d].slot # s
    BY <1>1, <2>2 DEF TileInv, CallOwns
  <2>11. \A x \in Sets : set'[x].claim = set[x].claim
    BY <2>5, <2>7
  <2>12. CallOwns'
    <3>1. ASSUME NEW d \in Callers, d # c, call[d].pc # "out"
          PROVE  /\ call'[d] = call[d] /\ ran'[call[d].id] = ran[call[d].id]
                 /\ set'[call[d].slot] = set[call[d].slot] /\ call[d].id \in 1 .. begun'[1]
                 /\ call[d].id # i /\ call[d].slot # s
      BY <1>6, <1>7, <2>7, <2>8, <2>10, <3>1
    <3>2. ran'[i] \in [0 .. n - 1 -> Nat]
      BY <1>4, <1>6
    <3>3. ASSUME NEW d \in Callers, call'[d].pc # "out"
          PROVE  /\ call'[d].slot \in Sets /\ set'[call'[d].slot].inUse
                 /\ call'[d].n # 0 /\ call'[d].id \in 1 .. begun'[1]
                 /\ ran'[call'[d].id] \in [0 .. call'[d].n - 1 -> Nat]
      <4>1. CASE d = c
        BY <1>1, <1>8, <2>2, <2>5, <2>6, <2>7, <2>8, <3>2, <4>1
      <4>2. CASE d # c
        <5>1. call[d].pc # "out"
          BY <2>8, <3>3, <4>2
        <5> QED BY <3>1, <4>2, <5>1 DEF TileInv, CallOwns
      <4> QED BY <4>1, <4>2
    <3>4. ASSUME NEW d \in Callers, call'[d].pc # "out", NEW e \in Callers, call'[e].pc # "out", e # d
          PROVE  call'[e].slot # call'[d].slot /\ call'[e].id # call'[d].id
      <4>1. CASE d = c
        <5>1. call[e].pc # "out"
          BY <2>8, <3>4, <4>1
        <5> QED BY <2>6, <2>8, <3>1, <3>4, <4>1, <5>1
      <4>2. CASE e = c
        <5>1. call[d].pc # "out"
          BY <2>8, <3>4, <4>2
        <5> QED BY <2>6, <2>8, <3>1, <3>4, <4>2, <5>1
      <4>3. CASE d # c /\ e # c
        BY <2>8, <3>4, <4>3 DEF TileInv, CallOwns
      <4> QED BY <4>1, <4>2, <4>3
    <3> QED BY <3>3, <3>4 DEF CallOwns
  <2>13. CallRuns'
    <3>1. ASSUME NEW d \in Callers PROVE RunsOK(d)'
      <4>1. CASE d = c
        <5>1. ~Opens(c)'
          BY <2>6, <2>8 DEF Opens
        <5>2. \A t \in 0 .. n - 1 : ran'[i][t] = 0
          BY <1>6, <1>13
        <5> QED BY <2>6, <2>8, <4>1, <5>1, <5>2 DEF RunsOK
      <4>2. CASE d # c
        <5>1. PICK x, k : x = call[d].slot /\ k = call[d].id
          OBVIOUS
        <5>2. call[d].pc # "out" => set'[x] = set[x] /\ ran'[k] = ran[k]
          BY <1>6, <1>7, <2>7, <2>10, <5>1
        <5> QED BY <1>9, <2>8, <4>2, <5>1, <5>2, OtherCall
      <4> QED BY <4>1, <4>2
    <3> QED BY <3>1 DEF CallRuns, RunsOK
  <2>14. \A d \in Callers : Opens(d) => Opens(d)' /\ call'[d].slot = call[d].slot /\ call'[d].id = call[d].id
    BY <1>1, <2>8 DEF Opens
  <2>15. \A x \in Sets, g \in Nat : GenOK(x, g) => GenOK(x, g)'
    BY <2>11, <2>14 DEF GenOK
  <2>16. TilesHeld'
    <3>1. ASSUME NEW v \in Workers PROVE TileOK(v)'
      <4>1. PICK x, k, g : x = tile[v].slot /\ k = tile[v].seen[2] /\ g = tile[v].gen
        OBVIOUS
      <4>2. CASE v = c
        <5>1. tile[v].at = "no"
          BY <1>1, <4>2 DEF TileInv, TilesHeld, TileOK
        <5> QED BY <1>5, <5>1 DEF TileOK
      <4>3. CASE v # c
        <5>1. tile[v].at \in {"claimed", "running"} => x \in Sets
          BY <4>1 DEF TileInv, TilesHeld, TileOK, GenOK
        <5>2. tile[v].at \in {"claimed", "running"} =>
                /\ set'[x].claim = set[x].claim
                /\ \A u \in Workers : At(u, x, k)' => At(u, x, k)
                /\ \A d \in Callers : Opens(d) /\ call[d].slot = x =>
                      Opens(d)' /\ call'[d].slot = x /\ call'[d].id = call[d].id
          BY <1>9, <2>11, <2>14, <5>1
        <5>3. v \in Callers => call'[v].pc = call[v].pc
          BY <2>8, <4>3
        <5> QED BY <1>5, <2>15, <4>1, <5>2, <5>3, OtherWorker
      <4> QED BY <4>2, <4>3
    <3> QED BY <3>1 DEF TilesHeld
  <2>17. ItemGens'
    <3>1. /\ \A b \in APs : \A k \in 1 .. Len(ring'[b]) : ring'[b][k].item \in Items /\ ItemOK(ring'[b][k].item)
          /\ \A b \in APs : cpu'[b].at \in {"took", "helping"} => cpu'[b].item \in Items /\ ItemOK(cpu'[b].item)
      BY <1>5, ItemsAre
    <3> QED BY <2>15, <3>1, ItemsAfter
  <2>18. RanWhole'
    <3>1. ASSUME NEW k \in Calls, k \notin OpenCalls' PROVE \A t \in DOMAIN ran'[k] : ran'[k][t] = 1
      <4>1. \A d \in Callers : ~(InCall(d)' /\ call'[d].id = k)
        BY <3>1 DEF OpenCalls, InCall
      <4>2. k # i
        <5>1. InCall(c)' /\ call'[c].id = i
          BY <2>6, <2>8 DEF InCall
        <5> QED BY <4>1, <5>1
      <4>3. k \notin OpenCalls
        <5> SUFFICES ASSUME NEW d \in Callers, InCall(d), call[d].id = k PROVE FALSE
          BY OpenIs DEF InCall
        <5>1. call[d].pc # "out"
          BY DEF InCall
        <5>2. call'[d] = call[d]
          BY <2>8, <2>10, <5>1
        <5>3. InCall(d)'
          BY <5>2 DEF InCall
        <5> QED BY <4>1, <5>2, <5>3
      <4> QED BY <1>6, <4>2, <4>3 DEF TileInv, RanWhole
    <3> QED BY <1>1, <1>6, <1>11, <3>1 DEF RanWhole
  <2> QED BY <1>10, <2>9, <2>12, <2>13, <2>16, <2>17, <2>18 DEF TileInv
<1> QED BY <1>4, <1>12, <1>13

-----------------------------------------------------------------------------
(* The tiles: every step.                                                  *)

\* No set is in use at the start.
LEMMA TileInvInit == Init => TileInv
<1> SUFFICES ASSUME Init PROVE TileInv
  OBVIOUS
<1>1. RingType(ring) /\ CpuType(cpu)
  BY JobInvInit DEF JobInv
<1>2. TileType
  <2>1. NoTile \in TileRecords /\ Out \in CallRecords
    BY DEF NoTile, Out, TileRecords, CallRecords
  <2>2. [inUse |-> FALSE, claim |-> <<0, 0>>, ntiles |-> 0, ctx |-> 0, done |-> 0] \in SetRecords
    BY DEF SetRecords
  <2> QED BY <2>1, <2>2 DEF Init, TileType, TileRecords, CallRecords, SetRecords
<1>3. \A c \in Callers : call[c].pc = "out"
  BY DEF Init, Out
<1>4. CallOwns /\ CallRuns
  BY <1>3 DEF CallOwns, CallRuns, Opens
<1>5. TilesHeld
  BY DEF Init, NoTile, TilesHeld, TileOK
<1>6. ItemGens
  BY DEF Init, Idle, ItemGens
<1>7. RanWhole
  <2>1. begun \in Nat \X Nat /\ begun[1] = 0 /\ begun[2] = 0
    BY DEF Init
  <2>2. Within(begun)
    <3>1. PICK x \in Mixes : TRUE
      BY ApWorkAssumption
    <3>2. x[1] \in Nat /\ x[2] \in Nat
      BY <3>1, ApWorkAssumption
    <3>3. begun[1] <= x[1] /\ begun[2] <= x[2]
      BY <2>1, <3>2
    <3> QED BY <3>3 DEF Within
  <2>3. \A k \in Calls : ran[k] = <<>> /\ DOMAIN ran[k] = {}
    BY DEF Init
  <2>4. \A k \in Calls : ~(k <= begun[1])
    <3>1. \A k \in Calls : k \in Nat /\ k >= 1
      BY ApWorkAssumption DEF Calls
    <3> QED BY <2>1, <3>1
  <2>5. DOMAIN ran = Calls
    BY DEF Init
  <2> QED BY <2>1, <2>2, <2>3, <2>4, <2>5 DEF RanWhole
<1> QED BY <1>1, <1>2, <1>4, <1>5, <1>6, <1>7 DEF TileInv

\* Every step keeps the invariant of the tiles.
LEMMA TileInvNext ==
    ASSUME JobInv, JobInv', TileInv, Next
    PROVE  TileInv'
<1>1. RingType(ring') /\ CpuType(cpu')
  BY DEF JobInv, RingType, CpuType
<1>2. ASSUME NEW a \in APs, ApStep(a) PROVE TileInv'
  BY <1>1, <1>2, ApStepTiles, HelperStartTiles, HelperEndTiles
<1>3. ASSUME NEW w \in Workers, TileStep(w) PROVE TileInv'
  BY <1>3, TileLoadTiles, TileTryTiles, TileRunTiles, TileDoneTiles DEF TileStep
<1>4. ASSUME NEW c \in Callers, CallStep(c) PROVE TileInv'
  BY <1>1, <1>4, ArmTiles, PublishTiles, RecruitTiles, HelperPostTiles, RetireTiles, EndTiles DEF CallStep
<1>5. ASSUME NEW c \in Callers, NEW n \in TileCounts, Begin(c, n) PROVE TileInv'
  BY <1>5, BeginTiles
<1>6. ASSUME NEW p \in Procs, ProcStep(p) \/ PinEnqueue(p) \/ ExitStep(p) PROVE TileInv'
  BY <1>6, ProcStepTiles
<1> QED BY <1>2, <1>3, <1>4, <1>5, <1>6 DEF Next, ApStep, ProcStep, ExitStep

\* The invariant says what a caller relies on.
LEMMA CallIsWholeFrom == TileInv => CallIsWhole
<1> SUFFICES ASSUME TileInv PROVE CallIsWhole
  OBVIOUS
<1>1. \A i \in Calls \ OpenCalls : \A t \in DOMAIN ran[i] : ran[i][t] = 1
  BY DEF TileInv, RanWhole
<1>2. ASSUME NEW i \in OpenCalls, NEW t \in DOMAIN ran[i] PROVE ran[i][t] <= 1
  <2>1. PICK c \in Callers : call[c].pc \notin {"out", "release", "retired"} /\ call[c].id = i
    BY OpenIs
  <2>2. ran[i] \in [0 .. call[c].n - 1 -> Nat]
    BY <2>1 DEF TileInv, CallOwns
  <2>3. t \in 0 .. call[c].n - 1
    BY <2>2
  <2>4. call[c].pc \in {"arm", "publish"} \/ Opens(c)
    BY <2>1 DEF TileInv, TileType, Opens
  <2>5. ran[i][t] = 0 \/ ran[i][t] = 1
    BY <2>1, <2>3, <2>4 DEF TileInv, CallRuns
  <2> QED BY <2>5
<1>3. ASSUME NEW w \in Workers, tile[w].at = "running" PROVE tile[w].ctx \in OpenCalls
  <2>1. PICK c \in Callers : Opens(c) /\ call[c].id = tile[w].ctx
    BY <1>3 DEF TileInv, TilesHeld, TileOK
  <2> QED BY <2>1, OpenIs DEF Opens
<1> QED BY <1>1, <1>2, <1>3 DEF CallIsWhole

-----------------------------------------------------------------------------
(* The theorems.                                                           *)

\* Both invariants together: a step of either side keeps the other's.
ApInv == JobInv /\ TileInv

\* ApInv is inductive.
LEMMA ApInvNext ==
    ASSUME ApInv, [Next]_vars
    PROVE  ApInv'
<1>1. CASE Next
  BY <1>1, JobInvNext, TileInvNext DEF ApInv
<1>2. CASE UNCHANGED vars
  <2>1. UNCHANGED <<ring, cpu, set, tile, call, ran, begun, job, proc, exit, pinning, pinLock>>
    BY <1>2 DEF vars, pinVars, tileVars, jobVars
  <2>2. JobInv'
    BY <2>1, JobsUntouched DEF ApInv
  <2>3. TileInv'
    <3>1. RingType(ring') /\ CpuType(cpu')
      BY <2>1 DEF ApInv, TileInv, RingType, CpuType
    <3>2. begun' \in Nat \X Nat /\ begun'[1] = begun[1] /\ Within(begun')
      BY <2>1 DEF ApInv, TileInv, RanWhole, Within
    <3>3. \A a \in APs : tile[a].at # "no" => cpu'[a].at = "helping"
      BY <2>1 DEF ApInv, TileInv, TilesHeld, TileOK, Workers
    <3>4. TileInv
      BY DEF ApInv
    <3>5. /\ \A a \in APs : \A i \in 1 .. Len(ring'[a]) : ItemOK(ring'[a][i].item)
          /\ \A a \in APs : cpu'[a].at \in {"took", "helping"} => ItemOK(cpu'[a].item)
      BY <2>1, <3>4, ItemsAre
    <3> QED BY <2>1, <3>1, <3>2, <3>3, <3>4, <3>5, TilesStay
  <2> QED BY <2>2, <2>3 DEF ApInv
<1> QED BY <1>1, <1>2

\* The rings, the CPUs, the slots of the compute jobs and the tile sets stay in
\* ApInv whatever the callers, the CPUs and the processes do, also when a
\* process is ended while a thread of it starts a job.
THEOREM ApWorkInvariant == Spec => []ApInv
<1>1. Init => ApInv
  BY JobInvInit, TileInvInit DEF ApInv
<1>2. ApInv /\ [Next]_vars => ApInv'
  BY ApInvNext
<1> QED BY <1>1, <1>2, PTL DEF Spec

\* smp_parallel_tiles() runs each of its tiles once, and with a context that is
\* still on its caller's stack, whatever helpers of earlier calls are on their
\* way: for any number of CPUs, callers, tile sets, helpers and tiles.
THEOREM TilesRunOnce == Spec => []CallIsWhole
<1>1. ApInv => CallIsWhole
  BY CallIsWholeFrom DEF ApInv
<1> QED BY <1>1, ApWorkInvariant, PTL

\* Ended is inductive under ApInv.
LEMMA EndedStep ==
    ASSUME Concurrent = FALSE, ApInv, Ended, [Next]_vars
    PROVE  Ended'
<1>1. CASE Next
  BY <1>1, EndedNext DEF ApInv
<1>2. CASE UNCHANGED vars
  BY <1>2 DEF vars, jobVars, Ended, Live, Holds, JobAt, Passed
<1> QED BY <1>1, <1>2

\* A compute job is in one place, the one it claimed, until it has left it, and
\* when smp_user_kill_owner() has returned none of the process's jobs is
\* anywhere, as long as no thread of the process is in a SYS_PAR_* call when the
\* process is ended.
THEOREM JobsStayInPlace ==
    ASSUME Concurrent = FALSE
    PROVE  Spec => []JobSlotHeld
<1>1. Init => Ended
  BY JobInvInit
<1>2. ApInv /\ Ended /\ [Next]_vars => Ended'
  BY EndedStep
<1>3. ApInv /\ Ended => JobSlotHeld
  BY JobSlotHeldFrom DEF ApInv
<1> QED BY <1>1, <1>2, <1>3, ApWorkInvariant, PTL DEF Spec

================================================================================
