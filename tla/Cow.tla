---------------------------------- MODULE Cow ----------------------------------
(***************************************************************************)
(* The frames of a Linux program's private memory: fork() that shares them *)
(* copy-on-write, the write faults that separate them, the cache of        *)
(* read-only file pages, mmap, mprotect, munmap, execve and exit           *)
(* (src/src/kernel/mm/paging.c and src/src/kernel/cos_linux.c).            *)
(*                                                                         *)
(* Everything that touches page tables or frame counts holds the kernel    *)
(* lock, so a fault or a system call is one step, up to the reads and      *)
(* writes of a file, which wait for the disk and let others run.  User     *)
(* code needs no lock: while a fork copies, the parent's threads on other  *)
(* CPUs write through the translations those CPUs have cached.  "tlb" is   *)
(* such a cached writable translation; a page-table change that flushes    *)
(* (smp_tlb_shootdown) removes it in the same step.                        *)
(***************************************************************************)
EXTENDS Integers, FiniteSets, Sequences

CONSTANTS Procs, Pages, Frames,
          Files,       \* pages of files that are mapped read-only
          Values,      \* what a page can hold; Zero is a cleared one
          Zero,
          Stack,       \* the page of Pages that is the stack
          CountMax,    \* the limit of a count, 65000 in the code
          Batch,       \* BATCH of lx_copy_vm()
          Scarce,      \* execve() may find no free frame for the stack
          NoFrame, NoFile, NoProc, Absent

ASSUME CowAssumption ==
    /\ Stack \in Pages /\ Zero \in Values
    /\ CountMax \in Nat /\ CountMax >= 3
    /\ Batch \in Nat \ {0}
    /\ Scarce \in BOOLEAN
    /\ IsFiniteSet(Procs) /\ IsFiniteSet(Pages) /\ IsFiniteSet(Frames)
    /\ NoFrame \notin Frames /\ NoFile \notin Files /\ NoProc \notin Procs
    /\ Absent \notin Values

VARIABLES alive,     \* processes that have threads
          prot,      \* lvma_t.prot of each page: "none" (no mapping), "r", "rw"
          map,       \* the frame in the page table, or NoFrame
          rw,        \* pages whose page-table entry has PAGE_RW
          tlb,       \* a writable translation that CPUs still have
                     \* although the page-table entry has changed
          count,     \* g_cow
          free,      \* frames of the physical allocator
          cache,     \* the frame that pc_ent holds for a file page
          content,   \* what a frame holds
          file,      \* what a file page holds on the disk
          writing,   \* file pages that a write() has announced
          fill,      \* the file mapping a process is filling: the page, the file
          fork,      \* the fork in progress
          snap       \* history: values of the forking process's pages since the
                     \* copy began

pageVars == <<prot, map, rw, tlb>>
frameVars == <<count, free, cache, content>>
fileVars == <<file, writing>>
vars == <<alive, pageVars, frameVars, fileVars, fill, fork, snap>>

NoFill == [page |-> Stack, file |-> NoFile, over |-> FALSE]
NoFork == [by |-> NoProc, child |-> NoProc, todo |-> {}, pend |-> <<>>, ok |-> TRUE, phase |-> "none"]
NoSnap == [v \in Pages |-> {}]
Nothing == [v \in Pages |-> NoFrame]

OnlyStack == [v \in Pages |-> IF v = Stack THEN "rw" ELSE "none"]

\* One program runs; nothing but its stack has been reserved.
Init ==
    /\ \E p \in Procs : alive = {p}
    /\ prot = [p \in Procs |-> OnlyStack]
    /\ map = [p \in Procs |-> Nothing]
    /\ rw = [p \in Procs |-> {}]
    /\ tlb = [p \in Procs |-> Nothing]
    /\ count = [f \in Frames |-> 0]
    /\ free = Frames
    /\ cache = [k \in Files |-> NoFrame]
    /\ content = [f \in Frames |-> Zero]
    /\ file \in [Files -> Values]
    /\ writing = {}
    /\ fill = [p \in Procs |-> NoFill]
    /\ fork = NoFork
    /\ snap = NoSnap

-----------------------------------------------------------------------------
(* Frames and their counts. *)

Cached(f) == \E k \in Files : cache[k] = f                       \* pc_is_cached()
Uncache(S) == [k \in Files |-> IF cache[k] \in S THEN NoFrame ELSE cache[k]]  \* pc_unlink()

IsShared(f) == count[f] >= 2                                     \* paging_cow_is_shared()

CanShare(f) == count[f] < CountMax

\* Bug: a frame that is not counted yet has an owner all the same.
ShareCountForgets(f) == count[f] + 1

\* paging_cow_share(): a frame with one owner goes from 0 or 1 to 2.
ShareCount(f) == IF count[f] < 2 THEN 2 ELSE count[f] + 1

\* The mappings left after n of them went, each through paging_cow_drop(); the
\* cache's own count does not keep a frame.
Left(f, n) == (IF count[f] < 2 THEN 1 ELSE count[f]) - n - (IF Cached(f) THEN 1 ELSE 0)

\* D(f) mappings of each frame f go: one paging_cow_drop() for each, and
\* paging_free_physical() for the frames that nobody else maps.
FreedBy(D(_)) == {f \in Frames : D(f) > 0 /\ Left(f, D(f)) <= 0}
FreeAfter(D(_)) == free \cup FreedBy(D)
CacheAfter(D(_)) == Uncache(FreedBy(D))
CountAfter(D(_)) == [f \in Frames |-> IF D(f) = 0 THEN count[f]
                                      ELSE IF f \in FreedBy(D) THEN 0
                                      ELSE count[f] - D(f)]

\* Nobody looks into a free frame: whoever takes it clears it or copies over it.
ContentAfter(D(_)) == [f \in Frames |-> IF f \in FreedBy(D) THEN Zero ELSE content[f]]

\* How often the pages R of p map f.
MapsOf(p, R, f) == Cardinality({v \in R : map[p][v] = f})

\* paging_release_user_range() of the pages R of p.
Release(p, R) ==
    LET D(f) == MapsOf(p, R, f)
    IN  /\ count' = CountAfter(D)
        /\ free' = FreeAfter(D)
        /\ cache' = CacheAfter(D)
        /\ content' = ContentAfter(D)

\* paging_flush_remote() for the pages R of p.
Flushed(p, R) == [tlb EXCEPT ![p] = [v \in Pages |-> IF v \in R THEN NoFrame ELSE tlb[p][v]]]

Unmap(p, R) ==
    /\ map' = [map EXCEPT ![p] = [v \in Pages |-> IF v \in R THEN NoFrame ELSE map[p][v]]]
    /\ rw' = [rw EXCEPT ![p] = @ \ R]
    /\ tlb' = Flushed(p, R)

-----------------------------------------------------------------------------
(* The history of a fork. *)

Reserved(p) == {v \in Pages : prot[p][v] # "none"}

\* What p finds in its pages.
View(p) == [v \in Pages |-> IF p \in alive /\ v \in Reserved(p) /\ map[p][v] # NoFrame
                            THEN content[map[p][v]] ELSE Absent]

Views == [p \in Procs |-> View(p)]

\* The history of the pages of a process, from the copy of its table of ranges on.
Record ==
    snap' = [v \in Pages |->
                IF fork'.by = NoProc THEN {}
                ELSE (IF fork.by = NoProc THEN {} ELSE snap[v]) \cup {Views'[fork'.by][v]}]

-----------------------------------------------------------------------------
\* The kernel lock is free, and p has a thread that can come into the kernel.
Kernel(p) ==
    /\ fork.phase # "copy"
    /\ p \in alive

-----------------------------------------------------------------------------
(* User code. *)

\* A write, through the page table or a translation that a CPU still has.
Write(p, v, x) ==
    /\ p \in alive
    /\ \E f \in ({tlb[p][v]} \cup (IF v \in rw[p] THEN {map[p][v]} ELSE {})) \ {NoFrame} :
          content' = [content EXCEPT ![f] = x]
    /\ UNCHANGED <<alive, pageVars, count, free, cache, fileVars, fill, fork>>
    /\ Record

-----------------------------------------------------------------------------
(* Faults. *)

\* task_alloc_page(): a cleared frame f for the page v of p.
MapFresh(p, v, f, isRw) ==
    /\ f \in free
    /\ free' = free \ {f}
    /\ content' = [content EXCEPT ![f] = Zero]
    /\ map' = [map EXCEPT ![p][v] = f]
    /\ rw' = [rw EXCEPT ![p] = IF isRw THEN @ \cup {v} ELSE @]
    /\ UNCHANGED <<count, cache, tlb>>

\* linux_page_fault_inner(): the first touch of a page.
TouchFault(p, v, f) ==
    /\ Kernel(p)
    /\ prot[p][v] # "none" /\ map[p][v] = NoFrame
    /\ MapFresh(p, v, f, prot[p][v] = "rw")
    /\ UNCHANGED <<alive, prot, fileVars, fill, fork>>
    /\ Record

\* paging_cow_break() of a frame with other owners: the writer gets a copy in
\* g.  When only the cache's count is left the old frame is freed.
BreakCopy(p, v, g) ==
    LET f == map[p][v]
        last == Cached(f) /\ count[f] <= 2
    IN  /\ g \in free
        /\ content' = [content EXCEPT ![g] = content[f], ![f] = IF last THEN Zero ELSE @]
        /\ map' = [map EXCEPT ![p][v] = g]
        /\ count' = [count EXCEPT ![f] = IF last THEN 0 ELSE @ - 1]
        /\ free' = (free \ {g}) \cup (IF last THEN {f} ELSE {})
        /\ cache' = IF last THEN Uncache({f}) ELSE cache

\* paging_cow_break() by the last owner: the page is made writable.
BreakLast(p, v) ==
    /\ count' = [count EXCEPT ![map[p][v]] = 0]
    /\ UNCHANGED <<content, map, free, cache>>

Break(p, v, g) ==
    IF IsShared(map[p][v]) THEN BreakCopy(p, v, g) ELSE BreakLast(p, v)

\* cos_linux_cow_fault(): a write to a page that is read-only in the page table
\* and writable in the process's map.
WriteFault(p, v, g) ==
    /\ Kernel(p)
    /\ prot[p][v] = "rw" /\ map[p][v] # NoFrame /\ v \notin rw[p]
    /\ Break(p, v, g)
    /\ rw' = [rw EXCEPT ![p] = @ \cup {v}]
    /\ tlb' = Flushed(p, {v})
    /\ UNCHANGED <<alive, prot, fileVars, fill, fork>>
    /\ Record

-----------------------------------------------------------------------------
(* mmap, mprotect, munmap.                                                 *)
(* A program leaves a range alone until the mmap that makes it returns.    *)

Settled(p, v) == fill[p] = NoFill \/ fill[p].page # v

\* mmap(MAP_ANONYMOUS): the range is entered in the table, no page is made.
MmapAnon(p, v) ==
    /\ Kernel(p)
    /\ prot[p][v] = "none"
    /\ prot' = [prot EXCEPT ![p][v] = "rw"]
    /\ UNCHANGED <<alive, map, rw, tlb, frameVars, fileVars, fill, fork>>
    /\ Record

\* The gate that a fork of the same process closes.
GateOpen(p) == fork.by # p

\* mmap of a file, read-only: the page is in the cache and gets one more
\* mapping ...
MmapHit(p, v, k) ==
    /\ Kernel(p) /\ GateOpen(p)
    /\ prot[p][v] = "none" /\ map[p][v] = NoFrame
    /\ cache[k] # NoFrame /\ count[cache[k]] < CountMax
    /\ prot' = [prot EXCEPT ![p][v] = "r"]
    /\ map' = [map EXCEPT ![p][v] = cache[k]]
    /\ count' = [count EXCEPT ![cache[k]] = @ + 1]
    /\ UNCHANGED <<alive, rw, tlb, free, cache, content, fileVars, fill, fork>>
    /\ Record

FillBegins(p, v, k, over) ==
    /\ Kernel(p) /\ GateOpen(p)
    /\ prot[p][v] = "none" /\ fill[p] = NoFill
    /\ prot' = [prot EXCEPT ![p][v] = "r"]
    /\ fill' = [fill EXCEPT ![p] = [page |-> v, file |-> k, over |-> over]]
    /\ UNCHANGED <<alive, fileVars, fork>>
    /\ Record

\* ... or a frame is made for it, and the file is read, ...
MmapMiss(p, v, k, f) ==
    /\ map[p][v] = NoFrame
    /\ cache[k] # NoFrame => count[cache[k]] >= CountMax
    /\ MapFresh(p, v, f, FALSE)
    /\ FillBegins(p, v, k, FALSE)

\* ... or there is a page already, which a fork has left outside of the ranges
\* of its child: what the cache has cannot be mapped, and the file is read.
MmapOver(p, v, k) ==
    /\ map[p][v] # NoFrame
    /\ UNCHANGED <<map, rw, tlb, frameVars>>
    /\ FillBegins(p, v, k, TRUE)

\* paging_pcache_put() takes the offer.
MayPut(k, f) == count[f] < 2 /\ ~Cached(f) /\ cache[k] = NoFrame

\* What was read is stored in the frame, and the frame offered to the cache.
MmapFilled(p) ==
    LET k == fill[p].file
        f == map[p][fill[p].page]
    IN  /\ Kernel(p)
        /\ fill[p] # NoFill /\ ~fill[p].over
        /\ content' = [content EXCEPT ![f] = file[k]]
        /\ cache' = IF MayPut(k, f) THEN [cache EXCEPT ![k] = f] ELSE cache
        /\ count' = IF MayPut(k, f) THEN [count EXCEPT ![f] = 2] ELSE count
        /\ fill' = [fill EXCEPT ![p] = NoFill]
        /\ UNCHANGED <<alive, pageVars, free, fileVars, fork>>
        /\ Record

\* A page that was there cannot be written (its fork has shared it), so that
\* copy_out() and with it the mmap fail, and the range goes again.
MmapOverFails(p) ==
    LET v == fill[p].page
    IN  /\ Kernel(p)
        /\ fill[p] # NoFill /\ fill[p].over
        /\ fill' = [fill EXCEPT ![p] = NoFill]
        /\ prot' = [prot EXCEPT ![p][v] = "none"]
        /\ Release(p, {v})
        /\ Unmap(p, {v})
        /\ UNCHANGED <<alive, fileVars, fork>>
        /\ Record

\* vma_protect(): a shared frame stays read-only in the page table.
Grants(p, v, pr) == pr = "rw" /\ ~IsShared(map[p][v])

Mprotect(p, v, pr) ==
    /\ Kernel(p) /\ Settled(p, v)
    /\ v \in Reserved(p) \ {Stack}
    /\ prot' = [prot EXCEPT ![p][v] = pr]
    /\ rw' = [rw EXCEPT ![p] = IF map[p][v] # NoFrame /\ Grants(p, v, pr)
                               THEN @ \cup {v} ELSE @ \ {v}]
    /\ tlb' = Flushed(p, {v})
    /\ UNCHANGED <<alive, map, frameVars, fileVars, fill, fork>>
    /\ Record

\* munmap: vma_cut() and paging_release_user_range().
Munmap(p, v) ==
    /\ Kernel(p) /\ Settled(p, v)
    /\ v \in Reserved(p) \ {Stack}
    /\ prot' = [prot EXCEPT ![p][v] = "none"]
    /\ Release(p, {v})
    /\ Unmap(p, {v})
    /\ UNCHANGED <<alive, fileVars, fill, fork>>
    /\ Record

\* write() to a file: its page is forgotten (paging_pcache_invalidate_file) ...
FileWriteBegins(k) ==
    /\ fork.phase # "copy"
    /\ k \notin writing
    /\ writing' = writing \cup {k}
    /\ cache' = [cache EXCEPT ![k] = NoFrame]
    /\ count' = [f \in Frames |-> IF f = cache[k] /\ count[f] > 0 THEN count[f] - 1 ELSE count[f]]
    /\ UNCHANGED <<alive, pageVars, free, content, file, fill, fork>>
    /\ Record

\* ... and the disk gets the bytes when the driver has had its turn.
FileWriteEnds(k, x) ==
    /\ fork.phase # "copy"
    /\ k \in writing
    /\ writing' = writing \ {k}
    /\ file' = [file EXCEPT ![k] = x]
    /\ UNCHANGED <<alive, pageVars, frameVars, fill, fork>>
    /\ Record

-----------------------------------------------------------------------------
(* fork(). *)

\* do_fork(): no mapping is being filled; the child c gets a copy of the table
\* of ranges.  Its files are opened next, which lets others run.
ForkTable(p, c) ==
    /\ Kernel(p)
    /\ fork = NoFork /\ fill[p] = NoFill
    /\ c \notin alive
    /\ prot' = [prot EXCEPT ![c] = prot[p]]
    /\ fork' = [NoFork EXCEPT !.by = p, !.child = c, !.phase = "table"]
    /\ UNCHANGED <<alive, map, rw, tlb, frameVars, fileVars, fill>>
    /\ Record

\* lx_copy_vm() begins: the pages that are there.
ForkCopy ==
    /\ fork.phase = "table"
    /\ fork' = [fork EXCEPT !.phase = "copy",
                            !.todo = {v \in Reserved(fork.by) : map[fork.by][v] # NoFrame}]
    /\ UNCHANGED <<alive, pageVars, frameVars, fileVars, fill>>
    /\ Record

\* The next page is v: the ranges come first, the stack last.
Copying(v) ==
    /\ fork.phase = "copy" /\ fork.ok /\ Len(fork.pend) < Batch
    /\ v \in fork.todo
    /\ v = Stack => fork.todo = {Stack}

Pend(v, f, isRw) ==
    fork' = [fork EXCEPT !.todo = @ \ {v},
                         !.pend = Append(@, [page |-> v, frame |-> f, rw |-> isRw])]

\* Bug: the parent keeps its writable entry.
ReadOnlyChildOnly(p, v) == rw

\* paging_clear_rw_noflush()
ReadOnly(p, v) == [rw EXCEPT ![p] = @ \ {v}]

\* One page: shared, read-only on both sides ...
ForkShares(v) ==
    LET f == map[fork.by][v]
    IN  /\ Copying(v)
        /\ CanShare(f)
        /\ count' = [count EXCEPT ![f] = ShareCount(f)]
        /\ rw' = ReadOnly(fork.by, v)
        /\ tlb' = [tlb EXCEPT ![fork.by][v] = IF v \in rw[fork.by] THEN f ELSE NoFrame]
        /\ Pend(v, f, FALSE)
        /\ UNCHANGED <<alive, prot, map, free, cache, content, fileVars, fill>>
        /\ Record

\* ... or copied when its count is at the limit ...
ForkCopies(v, g) ==
    LET f == map[fork.by][v]
    IN  /\ Copying(v)
        /\ ~CanShare(f)
        /\ g \in free
        /\ free' = free \ {g}
        /\ content' = [content EXCEPT ![g] = content[f]]
        /\ Pend(v, g, prot[fork.by][v] = "rw")
        /\ UNCHANGED <<alive, pageVars, count, cache, fileVars, fill>>
        /\ Record

\* ... which ends the copy when there is no memory.  What was collected for the
\* child and not mapped yet is not given back.
ForkRunsOut(v) ==
    /\ Copying(v)
    /\ ~CanShare(map[fork.by][v])
    /\ free = {}
    /\ fork' = [fork EXCEPT !.ok = FALSE, !.todo = {}, !.pend = <<>>]
    /\ UNCHANGED <<alive, pageVars, frameVars, fileVars, fill>>
    /\ Record

\* vm_flush(): the collected pages are mapped in the child, except those of bad,
\* for which there was no page table: they are dropped again, and the copy ends.
VmFlush(bad) ==
    LET good == DOMAIN fork.pend \ bad
        At(v) == CHOOSE i \in good : fork.pend[i].page = v
        new == {fork.pend[i].page : i \in good}
        D(f) == Cardinality({i \in bad : fork.pend[i].frame = f})
    IN  /\ fork.phase = "copy" /\ fork.ok
        /\ fork.pend # <<>>
        /\ Len(fork.pend) = Batch \/ fork.todo = {}
        /\ map' = [map EXCEPT ![fork.child] =
                      [v \in Pages |-> IF v \in new THEN fork.pend[At(v)].frame ELSE @[v]]]
        /\ rw' = [rw EXCEPT ![fork.child] = @ \cup {v \in new : fork.pend[At(v)].rw}]
        /\ count' = CountAfter(D)
        /\ free' = FreeAfter(D)
        /\ cache' = CacheAfter(D)
        /\ content' = ContentAfter(D)
        /\ fork' = [fork EXCEPT !.pend = <<>>,
                                !.ok = bad = {},
                                !.todo = IF bad = {} THEN @ ELSE {}]
        /\ UNCHANGED <<alive, prot, tlb, fileVars, fill>>
        /\ Record

Copied == fork.phase = "copy" /\ fork.todo = {} /\ fork.pend = <<>>

\* Bug: the flush is left out.
FlushedAllNowhere == tlb

\* paging_flush_all_cpus()
FlushedAll == [tlb EXCEPT ![fork.by] = Nothing]

\* Every page is in the child: it gets a thread and runs.
ForkEnds ==
    /\ Copied /\ fork.ok
    /\ alive' = alive \cup {fork.child}
    /\ tlb' = FlushedAll
    /\ fork' = NoFork
    /\ UNCHANGED <<prot, map, rw, frameVars, fileVars, fill>>
    /\ Record

\* The copy has failed, or there is no thread for the child: process_destroy().
ForkFails ==
    LET c == fork.child
    IN  /\ Copied
        /\ Release(c, Reserved(c))
        /\ map' = [map EXCEPT ![c] = Nothing]
        /\ rw' = [rw EXCEPT ![c] = {}]
        /\ prot' = [prot EXCEPT ![c] = OnlyStack]
        /\ tlb' = FlushedAll
        /\ fork' = NoFork
        /\ UNCHANGED <<alive, fileVars, fill>>
        /\ Record

-----------------------------------------------------------------------------
(* execve() and exit. *)

\* execve(): every page but the stack's goes; the stack's becomes private and
\* the loader writes the arguments x into its frame, whatever the page table
\* allows.  When there is no frame for the copy the code goes on without one.
Exec(p, g, x) ==
    LET R == Reserved(p) \ {Stack}
        D(f) == MapsOf(p, R, f)
        s == map[p][Stack]
        shared == Stack \notin rw[p] /\ IsShared(s)
        copied == shared /\ FreeAfter(D) # {}
    IN  /\ Kernel(p) /\ GateOpen(p)
        /\ fill[p] = NoFill
        /\ s # NoFrame
        /\ shared => copied \/ Scarce
        /\ copied => g \in FreeAfter(D)
        /\ prot' = [prot EXCEPT ![p] = OnlyStack]
        /\ map' = [map EXCEPT ![p] = [v \in Pages |-> IF v \in R THEN NoFrame
                                                    ELSE IF v = Stack /\ copied THEN g ELSE @[v]]]
        /\ rw' = [rw EXCEPT ![p] = (@ \ R) \cup (IF shared /\ ~copied THEN {} ELSE {Stack})]
        /\ tlb' = Flushed(p, R \cup {Stack})
        /\ count' = [CountAfter(D) EXCEPT ![s] = IF copied THEN @ - 1 ELSE IF shared THEN @ ELSE 0]
        /\ free' = FreeAfter(D) \ (IF copied THEN {g} ELSE {})
        /\ cache' = CacheAfter(D)
        /\ content' = [ContentAfter(D) EXCEPT ![IF copied THEN g ELSE s] = x]
        /\ UNCHANGED <<alive, fileVars, fill, fork>>
        /\ Record

\* The process has ended and no CPU runs it: the reaper gives its pages back
\* and frees its page tables.
Exit(p) ==
    /\ Kernel(p) /\ GateOpen(p)
    /\ alive' = alive \ {p}
    /\ Release(p, Reserved(p))
    /\ map' = [map EXCEPT ![p] = Nothing]
    /\ rw' = [rw EXCEPT ![p] = {}]
    /\ tlb' = [tlb EXCEPT ![p] = Nothing]
    /\ prot' = [prot EXCEPT ![p] = OnlyStack]
    /\ fill' = [fill EXCEPT ![p] = NoFill]
    /\ UNCHANGED <<fileVars, fork>>
    /\ Record

-----------------------------------------------------------------------------
Next ==
    \/ \E p \in Procs, v \in Pages, x \in Values : Write(p, v, x)
    \/ \E p \in Procs, v \in Pages, f \in Frames : TouchFault(p, v, f) \/ WriteFault(p, v, f)
    \/ \E p \in Procs, v \in Pages : MmapAnon(p, v) \/ Munmap(p, v)
    \/ \E p \in Procs, v \in Pages, k \in Files : MmapHit(p, v, k) \/ MmapOver(p, v, k)
    \/ \E p \in Procs, v \in Pages, k \in Files, f \in Frames : MmapMiss(p, v, k, f)
    \/ \E p \in Procs : MmapFilled(p) \/ MmapOverFails(p) \/ Exit(p)
    \/ \E p \in Procs, v \in Pages, pr \in {"r", "rw"} : Mprotect(p, v, pr)
    \/ \E k \in Files : FileWriteBegins(k) \/ \E x \in Values : FileWriteEnds(k, x)
    \/ \E p, c \in Procs : ForkTable(p, c)
    \/ ForkCopy \/ ForkEnds \/ ForkFails
    \/ \E v \in Pages : ForkShares(v) \/ ForkRunsOut(v) \/ \E g \in Frames : ForkCopies(v, g)
    \/ \E bad \in SUBSET DOMAIN fork.pend : VmFlush(bad)
    \/ \E p \in Procs, g \in Frames, x \in Values : Exec(p, g, x)

Spec == Init /\ [][Next]_vars

-----------------------------------------------------------------------------
\* No page table, no cached translation and no entry of the file cache leads to
\* a frame that the allocator calls free: counting in fork, in the write fault,
\* in the cache and in every release agrees on who was the last.
MappedIsHeld ==
    /\ \A p \in Procs, v \in Pages : map[p][v] \notin free /\ tlb[p][v] \notin free
    /\ \A k \in Files : cache[k] \notin free

\* A frame that one page can be written through is nobody else's: not another
\* page's, not the file cache's.  (While a fork copies, CPUs may still have the
\* translations that its flush removes.)
WritableIsPrivate ==
    \A p \in Procs : \A v \in rw[p] :
        /\ ~Cached(map[p][v])
        /\ \A q \in Procs, w \in Pages : map[q][w] = map[p][v] => q = p /\ w = v
        /\ \A q \in Procs, w \in Pages : tlb[q][w] = map[p][v] => q = p /\ w = v

Private == INSTANCE PrivateMemory WITH
    view <- Views,
    forker <- fork.by

\* The frames behind it notwithstanding, each process has a memory of its own:
\* a write, an unmap, an exec or an exit of one process never changes what
\* another one reads, and a child starts with its parent's pages.
ImplementsPrivateMemory == Private!Spec
================================================================================
