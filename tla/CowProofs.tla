-------------------------------- MODULE CowProofs ------------------------------
(***************************************************************************)
(* Proofs about Cow for any number of processes, pages, frames and files.  *)
(*                                                                         *)
(* The heart is a balance for every frame: the page-table entries that     *)
(* lead to it, the entries that a fork has collected for its child and the *)
(* file cache's hold on it are together no more than its count says.  A    *)
(* fork that runs out of memory leaks counts, so they need not be equal.   *)
(* On it rests the second half of the module, a view of what every process *)
(* reads, by which the page tables implement PrivateMemory.                *)
(***************************************************************************)
EXTENDS Cow, TLAPS, FiniteSetTheorems

-----------------------------------------------------------------------------
(* The invariant.                                                          *)

Uses(M, f) == {z \in Procs \X Pages : M[z[1]][z[2]] = f}
Pends(P, f) == {i \in DOMAIN P : P[i].frame = f}

U(M, f) == Cardinality(Uses(M, f))
Q(P, f) == Cardinality(Pends(P, f))
Keeps(K, f) == IF \E k \in Files : K[k] = f THEN 1 ELSE 0

\* u mappings, q entries of a fork and k holds of the cache are covered by the
\* count n; a free frame has none.
Balance(u, q, k, n, isFree) ==
    /\ u + q + k <= IF n < 2 THEN 1 ELSE n
    /\ k = 1 => n >= 1
    /\ isFree => n = 0 /\ u + q + k = 0

MapType(M) == M \in [Procs -> [Pages -> Frames \cup {NoFrame}]]
Entries == [page : Pages, frame : Frames, rw : BOOLEAN]

FramesOK(M, P, K, N, F) ==
    /\ MapType(M)
    /\ P \in Seq(Entries)
    /\ K \in [Files -> Frames \cup {NoFrame}]
    /\ \A k, l \in Files : K[k] = K[l] /\ K[k] # NoFrame => k = l
    /\ N \in [Frames -> Nat]
    /\ F \subseteq Frames
    /\ \A f \in Frames : Balance(U(M, f), Q(P, f), Keeps(K, f), N[f], f \in F)

\* A page that can be written has a frame whose count says that it is alone.
WritesOK(M, W, N) ==
    /\ W \in [Procs -> SUBSET Pages]
    /\ \A p \in Procs : \A v \in W[p] : M[p][v] # NoFrame /\ N[M[p][v]] < 2

\* Translations that the page tables do not have any more are those of the
\* process whose memory is being copied, and lead where its page table leads.
TlbOK ==
    /\ MapType(tlb)
    /\ \A p \in Procs, v \in Pages : tlb[p][v] # NoFrame =>
          fork.phase = "copy" /\ p = fork.by /\ tlb[p][v] = map[p][v]

\* Who is not alive has nothing, except for the child that a fork is filling;
\* whoever forks is alive and fills no mapping.
ProcessesOK ==
    /\ alive \subseteq Procs
    /\ prot \in [Procs -> [Pages -> {"none", "r", "rw"}]]
    /\ \A p \in Procs \ alive :
          /\ fill[p] = NoFill
          /\ ~(fork.phase = "copy" /\ p = fork.child) => map[p] = Nothing /\ rw[p] = {}

FillType == [page : Pages, file : Files \cup {NoFile}, over : BOOLEAN]

\* A page that a file is being read into is mapped and read-only.
FillOK ==
    /\ fill \in [Procs -> FillType]
    /\ \A p \in Procs : fill[p] # NoFill =>
          /\ fill[p].file \in Files
          /\ prot[p][fill[p].page] = "r"
          /\ map[p][fill[p].page] # NoFrame
          /\ ~fill[p].over => fill[p].page \notin rw[p]

\* What a fork has collected is not mapped in the child C yet nor to be copied
\* again, and each page is there once.
PendOK(C, T, P, N) ==
    \A i \in DOMAIN P :
       /\ P[i].page \notin T
       /\ C[P[i].page] = NoFrame
       /\ P[i].rw => N[P[i].frame] < 2
       /\ \A j \in DOMAIN P : P[i].page = P[j].page => i = j

\* What a fork has still to copy is mapped in the parent and not in the child.
ForkType ==
    [by : Procs \cup {NoProc}, child : Procs \cup {NoProc}, todo : SUBSET Pages,
     pend : Seq(Entries), ok : BOOLEAN, phase : {"none", "table", "copy"}]

ForkOK ==
    /\ fork \in ForkType
    /\ fork.phase # "copy" => fork.todo = {} /\ fork.pend = <<>>
    /\ fork.phase = "none" => fork.by = NoProc
    /\ fork.phase # "none" => /\ fork.by \in alive /\ fill[fork.by] = NoFill
                              /\ fork.child \in Procs \ alive
    /\ \A v \in fork.todo : map[fork.by][v] # NoFrame /\ map[fork.child][v] = NoFrame
    /\ PendOK(map[fork.child], fork.todo, fork.pend, count)

CowInv ==
    /\ FramesOK(map, fork.pend, cache, count, free)
    /\ WritesOK(map, rw, count)
    /\ TlbOK
    /\ ProcessesOK
    /\ FillOK
    /\ ForkOK

-----------------------------------------------------------------------------
(* Counting.                                                               *)

LEMMA Numbers ==
    ASSUME NEW f
    PROVE  /\ \A M : IsFiniteSet(Uses(M, f)) /\ U(M, f) \in Nat
           /\ \A P \in Seq(Entries) : IsFiniteSet(Pends(P, f)) /\ Q(P, f) \in Nat
           /\ \A K : Keeps(K, f) \in {0, 1}
           /\ Q(<<>>, f) = 0
<1>1. ASSUME NEW M PROVE IsFiniteSet(Uses(M, f)) /\ U(M, f) \in Nat
  <2>1. IsFiniteSet(Procs \X Pages)
    BY CowAssumption, FS_Product
  <2>2. Uses(M, f) \in SUBSET (Procs \X Pages)
    BY DEF Uses
  <2> QED BY <2>1, <2>2, FS_Subset, FS_CardinalityType DEF U
<1>2. ASSUME NEW P \in Seq(Entries) PROVE IsFiniteSet(Pends(P, f)) /\ Q(P, f) \in Nat
  <2>1. IsFiniteSet(1 .. Len(P))
    BY FS_Interval
  <2>2. Pends(P, f) \in SUBSET (1 .. Len(P))
    BY DEF Pends
  <2> QED BY <2>1, <2>2, FS_Subset, FS_CardinalityType DEF Q
<1>3. Q(<<>>, f) = 0
  <2>1. Pends(<<>>, f) = {}
    BY DEF Pends
  <2> QED BY <2>1, FS_EmptySet DEF Q
<1> QED BY <1>1, <1>2, <1>3 DEF Keeps

\* A page that maps a frame counts, and another one counts too.
LEMMA UsedBy ==
    ASSUME NEW M, NEW p \in Procs, NEW v \in Pages
    PROVE  /\ U(M, M[p][v]) >= 1
           /\ \A q \in Procs, w \in Pages :
                 M[q][w] = M[p][v] /\ (q # p \/ w # v) => U(M, M[p][v]) >= 2
<1> DEFINE f == M[p][v]
           S == Uses(M, f)
<1>0. IsFiniteSet(S) /\ Cardinality(S) \in Nat
  BY Numbers DEF U
<1>1. IsFiniteSet(S) /\ Cardinality(S) \in Nat /\ <<p, v>> \in S
  BY <1>0 DEF Uses
<1>2. Cardinality(S) # 0
  BY <1>1, FS_EmptySet
<1>3. ASSUME NEW q \in Procs, NEW w \in Pages, M[q][w] = f, q # p \/ w # v
      PROVE  Cardinality(S) >= 2
  <2>1. <<q, w>> \in S /\ <<q, w>> # <<p, v>>
    BY <1>3 DEF Uses
  <2>2. Cardinality(S) # 1
    <3> SUFFICES ASSUME Cardinality(S) = 1 PROVE FALSE
      OBVIOUS
    <3>1. PICK x : S = {x}
      BY <1>1, FS_Singleton
    <3> HIDE DEF S
    <3> QED BY <1>1, <2>1, <3>1
  <2> HIDE DEF S
  <2> QED BY <1>1, <1>2, <2>2
<1>4. U(M, f) = Cardinality(S)
  BY DEF U
<1>5. Cardinality(S) >= 1
  <2> HIDE DEF S
  <2> QED BY <1>1, <1>2
<1> QED BY <1>3, <1>4, <1>5

LEMMA PendedBy ==
    ASSUME NEW P \in Seq(Entries), NEW i \in DOMAIN P
    PROVE  Q(P, P[i].frame) >= 1
<1> DEFINE S == Pends(P, P[i].frame)
<1>1. IsFiniteSet(S) /\ Cardinality(S) \in Nat /\ i \in S
  BY Numbers DEF Q, Pends
<1>2. Cardinality(S) # 0
  BY <1>1, FS_EmptySet
<1> HIDE DEF S
<1>3. Cardinality(S) >= 1
  BY <1>1, <1>2
<1> QED BY <1>3 DEF Q, S

Counted(N, h, n) == [N EXCEPT ![h] = n]

\* One count changes.
LEMMA CountOne ==
    ASSUME NEW N \in [Frames -> Nat], NEW h \in Frames, NEW x \in Nat,
           NEW N2, N2 = Counted(N, h, x)
    PROVE  N2 \in [Frames -> Nat] /\ N2[h] = x /\ \A f \in Frames : f # h => N2[f] = N[f]
BY DEF Counted

Mapped(M, p, v, g) == [M EXCEPT ![p][v] = g]

\* One page-table entry changes.
LEMMA MapOne ==
    ASSUME NEW M, MapType(M), NEW p \in Procs, NEW v \in Pages,
           NEW g \in Frames \cup {NoFrame}, g # M[p][v], NEW M2, M2 = Mapped(M, p, v, g)
    PROVE  /\ MapType(M2) /\ M2[p][v] = g
           /\ \A q \in Procs, w \in Pages : q # p \/ w # v => M2[q][w] = M[q][w]
           /\ \A f \in Frames : U(M2, f) = IF f = g THEN U(M, f) + 1
                                ELSE IF f = M[p][v] THEN U(M, f) - 1 ELSE U(M, f)
<1>1. /\ MapType(M2) /\ M2[p][v] = g
      /\ \A q \in Procs, w \in Pages : q # p \/ w # v => M2[q][w] = M[q][w]
  BY DEF MapType, Mapped
<1>2. ASSUME NEW f \in Frames
      PROVE  U(M2, f) = IF f = g THEN U(M, f) + 1
                        ELSE IF f = M[p][v] THEN U(M, f) - 1 ELSE U(M, f)
  <2> DEFINE z == <<p, v>>
             S == Uses(M, f)
             S2 == Uses(M2, f)
  <2>1. IsFiniteSet(S) /\ U(M, f) = Cardinality(S) /\ U(M2, f) = Cardinality(S2)
    BY Numbers DEF U
  <2>2. \A y \in Procs \X Pages : y # z => (y \in S2 <=> y \in S)
    <3> TAKE y \in Procs \X Pages
    <3>1. y[1] \in Procs /\ y[2] \in Pages /\ y = <<y[1], y[2]>>
      OBVIOUS
    <3>2. y # z => M2[y[1]][y[2]] = M[y[1]][y[2]]
      BY <1>1, <3>1
    <3> QED BY <3>2 DEF Uses
  <2>3. z \in Procs \X Pages /\ (z \in S2 <=> g = f) /\ (z \in S <=> M[p][v] = f)
    BY <1>1 DEF Uses
  <2>4. S \subseteq Procs \X Pages /\ S2 \subseteq Procs \X Pages
    BY DEF Uses
  <2> HIDE DEF S, S2, z
  <2>5. CASE f = g
    <3>1. S2 = S \cup {z} /\ z \notin S
      BY <2>2, <2>3, <2>4, <2>5
    <3>2. Cardinality(S \cup {z}) = Cardinality(S) + 1
      BY <2>1, <3>1, FS_AddElement
    <3> QED BY <2>1, <2>5, <3>1, <3>2
  <2>6. CASE f # g /\ f = M[p][v]
    <3>1. S2 = S \ {z} /\ z \in S
      BY <2>2, <2>3, <2>4, <2>6
    <3>2. Cardinality(S \ {z}) = Cardinality(S) - 1
      BY <2>1, <3>1, FS_RemoveElement
    <3> QED BY <2>1, <2>6, <3>1, <3>2
  <2>7. CASE f # g /\ f # M[p][v]
    <3>1. S2 = S
      BY <2>2, <2>3, <2>4, <2>7
    <3> QED BY <2>1, <2>7, <3>1
  <2> QED BY <2>5, <2>6, <2>7
<1> QED BY <1>1, <1>2

\* Pages of one process go, those of R among them.
LEMMA UnmapMany ==
    ASSUME NEW M, MapType(M), NEW M2, MapType(M2), NEW p \in Procs, NEW R \in SUBSET Pages,
           \A q \in Procs, w \in Pages :
              M2[q][w] = M[q][w] \/ (q = p /\ M2[q][w] = NoFrame),
           \A w \in R : M2[p][w] = NoFrame,
           NEW f \in Frames
    PROVE  U(M2, f) + Cardinality({v \in R : M[p][v] = f}) <= U(M, f)
<1> DEFINE S == {v \in R : M[p][v] = f}
           T == {<<p, v>> : v \in S}
           A == Uses(M2, f)
           B == Uses(M, f)
<1>0. f # NoFrame
  BY CowAssumption
<1>1. T \subseteq B /\ A \subseteq B /\ A \cap T = {}
  <2>1. T \subseteq B
    BY DEF Uses
  <2>2. A \subseteq B
    <3> SUFFICES ASSUME NEW q \in Procs, NEW w \in Pages, M2[q][w] = f PROVE <<q, w>> \in B
      BY DEF Uses
    <3>1. M[q][w] = f
      BY <1>0
    <3> QED BY <3>1 DEF Uses
  <2>3. A \cap T = {}
    <3> SUFFICES ASSUME NEW v \in S, <<p, v>> \in A PROVE FALSE
      OBVIOUS
    <3>1. M2[p][v] = f
      BY DEF Uses
    <3> QED BY <1>0, <3>1
  <2> QED BY <2>1, <2>2, <2>3
<1>2. IsFiniteSet(S)
  BY CowAssumption, FS_Subset
<1>3. IsFiniteSet(T) /\ Cardinality(T) = Cardinality(S)
  <2> DEFINE h == [v \in S |-> <<p, v>>]
  <2>1. h \in Bijection(S, T)
    <3>1. h \in [S -> T]
      OBVIOUS
    <3>2. \A x, y \in S : h[x] = h[y] => x = y
      OBVIOUS
    <3>3. \A y \in T : \E x \in S : h[x] = y
      OBVIOUS
    <3> QED BY <3>1, <3>2, <3>3 DEF Bijection, Injection, Surjection, IsInjective
  <2>2. ExistsBijection(S, T)
    BY <2>1 DEF ExistsBijection
  <2> QED BY <1>2, <2>2, FS_Bijection
<1>4. IsFiniteSet(A) /\ IsFiniteSet(B)
  BY Numbers
<1> HIDE DEF A, B, T, S
<1>5. Cardinality(A \cup T) = Cardinality(A) + Cardinality(T)
  <2>1. Cardinality(A \cap T) = 0
    BY <1>1, FS_EmptySet
  <2>2. Cardinality(A) \in Nat /\ Cardinality(T) \in Nat
    BY <1>3, <1>4, FS_CardinalityType
  <2>3. Cardinality(A \cup T) = Cardinality(A) + Cardinality(T) - Cardinality(A \cap T)
    BY <1>3, <1>4, FS_Union
  <2> QED BY <2>1, <2>2, <2>3
<1>6. Cardinality(A \cup T) <= Cardinality(B)
  BY <1>1, <1>4, FS_Subset
<1>7. Cardinality(A) + Cardinality(S) <= Cardinality(B)
  BY <1>3, <1>5, <1>6
<1> QED BY <1>7 DEF U, A, B, S

Collected(P, e) == Append(P, e)

\* One more entry is collected for the child.
LEMMA PendOne ==
    ASSUME NEW P \in Seq(Entries), NEW e \in Entries, NEW P2, P2 = Collected(P, e)
    PROVE  /\ P2 \in Seq(Entries)
           /\ \A f \in Frames : Q(P2, f) = IF f = e.frame THEN Q(P, f) + 1 ELSE Q(P, f)
<1>1. /\ P2 \in Seq(Entries) /\ DOMAIN P = 1 .. Len(P) /\ DOMAIN P2 = 1 .. (Len(P) + 1)
      /\ Len(P) \in Nat /\ P2[Len(P) + 1] = e /\ \A i \in 1 .. Len(P) : P2[i] = P[i]
  BY DEF Collected
<1>2. ASSUME NEW f \in Frames PROVE Q(P2, f) = IF f = e.frame THEN Q(P, f) + 1 ELSE Q(P, f)
  <2> DEFINE n == Len(P) + 1
             A == Pends(P, f)
             B == Pends(P2, f)
  <2>1. IsFiniteSet(A) /\ Q(P, f) = Cardinality(A) /\ Q(P2, f) = Cardinality(B)
    BY Numbers DEF Q
  <2>2. n \notin A /\ B = IF f = e.frame THEN A \cup {n} ELSE A
    <3>1. n \notin A
      BY <1>1 DEF Pends
    <3>2. \A i : i \in B <=> i \in A \/ (i = n /\ f = e.frame)
      BY <1>1 DEF Pends
    <3> QED BY <3>1, <3>2
  <2> HIDE DEF n, A, B
  <2>3. Cardinality(A \cup {n}) = Cardinality(A) + 1
    BY <2>1, <2>2, FS_AddElement
  <2> QED BY <2>1, <2>2, <2>3
<1> QED BY <1>1, <1>2

-----------------------------------------------------------------------------
(* What each kind of step does to the frames.                              *)

LEMMA FrameFacts ==
    ASSUME NEW M, NEW P, NEW K, NEW N, NEW F, FramesOK(M, P, K, N, F), NEW f \in Frames
    PROVE  /\ U(M, f) \in Nat /\ Q(P, f) \in Nat /\ Keeps(K, f) \in {0, 1} /\ N[f] \in Nat
           /\ Balance(U(M, f), Q(P, f), Keeps(K, f), N[f], f \in F)
           /\ f # NoFrame
BY Numbers, CowAssumption DEF FramesOK

\* A page without a frame gets a free one.
LEMMA FreshFrame ==
    ASSUME NEW M, NEW P, NEW K, NEW N, NEW F, FramesOK(M, P, K, N, F),
           NEW p \in Procs, NEW v \in Pages, M[p][v] = NoFrame, NEW g \in F,
           NEW M2, M2 = Mapped(M, p, v, g)
    PROVE  FramesOK(M2, P, K, N, F \ {g}) /\ N[g] = 0
<1>1. g \in Frames /\ g # NoFrame /\ MapType(M)
  BY CowAssumption DEF FramesOK
<1>2. /\ MapType(M2)
      /\ \A f \in Frames : U(M2, f) = IF f = g THEN U(M, f) + 1 ELSE U(M, f)
  <2>1. \A f \in Frames : f # NoFrame
    BY CowAssumption
  <2> QED BY <1>1, <2>1, MapOne
<1>3. ASSUME NEW f \in Frames
      PROVE  Balance(U(M2, f), Q(P, f), Keeps(K, f), N[f], f \in F \ {g}) /\ (f = g => N[f] = 0)
  BY <1>2, <1>3, FrameFacts DEF Balance
<1> QED BY <1>1, <1>2, <1>3 DEF FramesOK

\* A page goes over to a free frame, and one count of its old frame goes.
LEMMA MovedFrame ==
    ASSUME NEW M, NEW P, NEW K, NEW N, NEW F, FramesOK(M, P, K, N, F),
           NEW p \in Procs, NEW v \in Pages, M[p][v] # NoFrame, N[M[p][v]] >= 1, NEW g \in F,
           NEW M2, M2 = Mapped(M, p, v, g),
           NEW N2, N2 = Counted(N, M[p][v], N[M[p][v]] - 1)
    PROVE  /\ FramesOK(M2, P, K, N2, F \ {g})
           /\ g # M[p][v] /\ N[g] = 0 /\ N2[g] = 0 /\ M[p][v] \in Frames
           /\ U(M2, M[p][v]) = U(M, M[p][v]) - 1
<1> DEFINE h == M[p][v]
<1>1. g \in Frames /\ h \in Frames /\ MapType(M) /\ N \in [Frames -> Nat]
  BY DEF FramesOK, MapType
<1>2. U(M, h) >= 1
  BY UsedBy
<1>3. g # h
  BY <1>1, <1>2, FrameFacts DEF Balance
<1>4. /\ MapType(M2)
      /\ \A f \in Frames : U(M2, f) = IF f = g THEN U(M, f) + 1 ELSE IF f = h THEN U(M, f) - 1
                                          ELSE U(M, f)
  BY <1>1, <1>3, MapOne
<1> HIDE DEF h
<1>5. N[h] >= 1 /\ N2 = Counted(N, h, N[h] - 1)
  BY DEF h
<1>6. N2 \in [Frames -> Nat] /\ N2[h] = N[h] - 1 /\ \A f \in Frames : f # h => N2[f] = N[f]
  BY <1>1, <1>5, CountOne
<1>7. ASSUME NEW f \in Frames
      PROVE  Balance(U(M2, f), Q(P, f), Keeps(K, f), N2[f], f \in F \ {g})
  <2>1. /\ U(M, f) \in Nat /\ Q(P, f) \in Nat /\ Keeps(K, f) \in {0, 1} /\ N[f] \in Nat
        /\ Balance(U(M, f), Q(P, f), Keeps(K, f), N[f], f \in F)
    BY FrameFacts
  <2>2. CASE f = g
    <3>1. U(M2, f) = U(M, f) + 1 /\ N2[f] = N[f]
      BY <1>3, <1>4, <1>6, <2>2
    <3> QED BY <2>1, <2>2, <3>1 DEF Balance
  <2>3. CASE f = h
    <3>1. U(M2, f) = U(M, f) - 1 /\ N2[f] = N[f] - 1 /\ U(M, f) >= 1 /\ N[f] >= 1
      BY <1>2, <1>3, <1>4, <1>5, <1>6, <2>3 DEF h
    <3> QED BY <2>1, <2>3, <3>1 DEF Balance
  <2>4. CASE f # g /\ f # h
    <3>1. U(M2, f) = U(M, f) /\ N2[f] = N[f]
      BY <1>4, <1>6, <2>4
    <3> QED BY <2>1, <2>4, <3>1 DEF Balance
  <2> QED BY <2>2, <2>3, <2>4
<1>8. N[g] = 0 /\ N2[g] = 0
  BY <1>1, <1>3, <1>6, FrameFacts DEF Balance
<1>9. FramesOK(M2, P, K, N2, F \ {g})
  BY <1>4, <1>6, <1>7 DEF FramesOK
<1> QED BY <1>1, <1>3, <1>4, <1>8, <1>9 DEF h

\* The count of a frame that one page has alone goes.
LEMMA LoneFrame ==
    ASSUME NEW M, NEW P, NEW K, NEW N, NEW F, FramesOK(M, P, K, N, F),
           NEW h \in Frames, U(M, h) >= 1, N[h] < 2, NEW N2, N2 = Counted(N, h, 0)
    PROVE  FramesOK(M, P, K, N2, F)
<1>1. N \in [Frames -> Nat]
  BY DEF FramesOK
<1>4. N2 \in [Frames -> Nat] /\ N2[h] = 0 /\ \A f \in Frames : f # h => N2[f] = N[f]
  BY <1>1, CountOne
<1>5. ASSUME NEW f \in Frames
      PROVE  Balance(U(M, f), Q(P, f), Keeps(K, f), N2[f], f \in F)
  <2>1. /\ U(M, f) \in Nat /\ Q(P, f) \in Nat /\ Keeps(K, f) \in {0, 1} /\ N[f] \in Nat
        /\ Balance(U(M, f), Q(P, f), Keeps(K, f), N[f], f \in F)
    BY FrameFacts
  <2> QED BY <1>4, <2>1 DEF Balance
<1> QED BY <1>4, <1>5 DEF FramesOK

\* A page without a frame gets the one that the cache has for a file.
LEMMA CachedFrame ==
    ASSUME NEW M, NEW P, NEW K, NEW N, NEW F, FramesOK(M, P, K, N, F),
           NEW p \in Procs, NEW v \in Pages, M[p][v] = NoFrame,
           NEW k \in Files, NEW h, h = K[k], h # NoFrame, NEW M2, M2 = Mapped(M, p, v, h),
           NEW N2, N2 = Counted(N, h, N[h] + 1)
    PROVE  /\ FramesOK(M2, P, K, N2, F)
           /\ \A f \in Frames : N2[f] < 2 => N2[f] = N[f]
<1>1. h \in Frames /\ MapType(M) /\ N \in [Frames -> Nat] /\ Keeps(K, h) = 1
  BY DEF FramesOK, Keeps
<1>2. /\ MapType(M2)
      /\ \A f \in Frames : U(M2, f) = IF f = h THEN U(M, f) + 1 ELSE U(M, f)
  <2>1. \A f \in Frames : f # NoFrame
    BY CowAssumption
  <2> QED BY <1>1, <2>1, MapOne
<1>3. N2 \in [Frames -> Nat] /\ N2[h] = N[h] + 1 /\ \A f \in Frames : f # h => N2[f] = N[f]
  <2>1. N[h] + 1 \in Nat
    BY <1>1
  <2> QED BY <1>1, <2>1, CountOne
<1>4. ASSUME NEW f \in Frames
      PROVE  /\ Balance(U(M2, f), Q(P, f), Keeps(K, f), N2[f], f \in F)
             /\ N2[f] < 2 => N2[f] = N[f]
  <2>1. /\ U(M, f) \in Nat /\ Q(P, f) \in Nat /\ Keeps(K, f) \in {0, 1} /\ N[f] \in Nat
        /\ Balance(U(M, f), Q(P, f), Keeps(K, f), N[f], f \in F)
    BY FrameFacts
  <2>2. CASE f = h
    <3>1. U(M2, f) = U(M, f) + 1 /\ N2[f] = N[f] + 1 /\ Keeps(K, f) = 1
      BY <1>1, <1>2, <1>3, <2>2
    <3> QED BY <2>1, <3>1 DEF Balance
  <2>3. CASE f # h
    <3>1. U(M2, f) = U(M, f) /\ N2[f] = N[f]
      BY <1>2, <1>3, <2>3
    <3> QED BY <2>1, <3>1
  <2> QED BY <2>2, <2>3
<1> QED BY <1>2, <1>3, <1>4 DEF FramesOK

Kept(K, k, h) == [K EXCEPT ![k] = h]

\* The cache takes a frame that one page has alone.
LEMMA PutFrame ==
    ASSUME NEW M, NEW P, NEW K, NEW N, NEW F, FramesOK(M, P, K, N, F),
           NEW h \in Frames, U(M, h) >= 1, N[h] < 2, NEW k \in Files, K[k] = NoFrame,
           \A l \in Files : K[l] # h,
           NEW K2, K2 = Kept(K, k, h), NEW N2, N2 = Counted(N, h, 2)
    PROVE  /\ FramesOK(M, P, K2, N2, F)
           /\ U(M, h) = 1 /\ Q(P, h) = 0
           /\ \A f \in Frames : f # h => N2[f] = N[f]
<1>1. /\ N \in [Frames -> Nat] /\ K \in [Files -> Frames \cup {NoFrame}] /\ h # NoFrame
      /\ \A i, l \in Files : K[i] = K[l] /\ K[i] # NoFrame => i = l
  BY CowAssumption DEF FramesOK
<1>2. N2 \in [Frames -> Nat] /\ N2[h] = 2 /\ \A f \in Frames : f # h => N2[f] = N[f]
  BY <1>1, CountOne
<1>3. /\ K2 \in [Files -> Frames \cup {NoFrame}] /\ K2[k] = h
      /\ \A l \in Files : l # k => K2[l] = K[l]
  BY <1>1 DEF Kept
<1>4. \A i, l \in Files : K2[i] = K2[l] /\ K2[i] # NoFrame => i = l
  BY <1>1, <1>3
<1>5. \A f \in Frames : f # h => Keeps(K2, f) = Keeps(K, f)
  <2> SUFFICES ASSUME NEW f \in Frames, f # h PROVE Keeps(K2, f) = Keeps(K, f)
    OBVIOUS
  <2>1. f # NoFrame
    BY CowAssumption
  <2>2. (\E l \in Files : K2[l] = f) <=> (\E l \in Files : K[l] = f)
    BY <1>3, <2>1
  <2> QED BY <2>2 DEF Keeps
<1>6. Keeps(K2, h) = 1 /\ Keeps(K, h) = 0
  BY <1>3 DEF Keeps
<1>7. U(M, h) = 1 /\ Q(P, h) = 0
  BY FrameFacts DEF Balance
<1>8. ASSUME NEW f \in Frames
      PROVE  Balance(U(M, f), Q(P, f), Keeps(K2, f), N2[f], f \in F)
  <2>1. /\ U(M, f) \in Nat /\ Q(P, f) \in Nat /\ Keeps(K, f) \in {0, 1} /\ N[f] \in Nat
        /\ Balance(U(M, f), Q(P, f), Keeps(K, f), N[f], f \in F)
    BY FrameFacts
  <2>2. CASE f = h
    <3>1. Keeps(K2, f) = 1 /\ N2[f] = 2 /\ U(M, f) = 1 /\ Q(P, f) = 0
      BY <1>2, <1>6, <1>7, <2>2
    <3> QED BY <2>1, <3>1 DEF Balance
  <2>3. CASE f # h
    <3>1. Keeps(K2, f) = Keeps(K, f) /\ N2[f] = N[f]
      BY <1>2, <1>5, <2>3
    <3> QED BY <2>1, <3>1
  <2> QED BY <2>2, <2>3
<1> QED BY <1>2, <1>3, <1>4, <1>7, <1>8 DEF FramesOK

CountsWithout(N, h) == [f \in Frames |-> IF f = h /\ N[f] > 0 THEN N[f] - 1 ELSE N[f]]

\* The cache forgets a file's page, and one count goes with it.
LEMMA ForgottenFile ==
    ASSUME NEW M, NEW P, NEW K, NEW N, NEW F, FramesOK(M, P, K, N, F), NEW k \in Files,
           NEW K2, K2 = Kept(K, k, NoFrame), NEW N2, N2 = CountsWithout(N, K[k])
    PROVE  FramesOK(M, P, K2, N2, F) /\ \A f \in Frames : N2[f] <= N[f]
<1>1. /\ N \in [Frames -> Nat] /\ K \in [Files -> Frames \cup {NoFrame}]
      /\ \A i, l \in Files : K[i] = K[l] /\ K[i] # NoFrame => i = l
  BY DEF FramesOK
<1>2. N2 \in [Frames -> Nat] /\ \A f \in Frames : N2[f] <= N[f]
  BY <1>1 DEF CountsWithout
<1>3. /\ K2 \in [Files -> Frames \cup {NoFrame}] /\ K2[k] = NoFrame
      /\ \A l \in Files : l # k => K2[l] = K[l]
  BY <1>1 DEF Kept
<1>4. \A i, l \in Files : K2[i] = K2[l] /\ K2[i] # NoFrame => i = l
  BY <1>1, <1>3
<1>5. ASSUME NEW f \in Frames
      PROVE  Balance(U(M, f), Q(P, f), Keeps(K2, f), N2[f], f \in F)
  <2>1. /\ U(M, f) \in Nat /\ Q(P, f) \in Nat /\ Keeps(K, f) \in {0, 1} /\ N[f] \in Nat
        /\ Balance(U(M, f), Q(P, f), Keeps(K, f), N[f], f \in F) /\ f # NoFrame
    BY FrameFacts
  <2>2. CASE f = K[k]
    <3>1. Keeps(K, f) = 1
      BY <2>2 DEF Keeps
    <3>2. Keeps(K2, f) = 0
      BY <1>1, <1>3, <2>1, <2>2 DEF Keeps
    <3>3. N[f] > 0
      BY <2>1, <3>1 DEF Balance
    <3>4. N2[f] = N[f] - 1
      BY <2>2, <3>3 DEF CountsWithout
    <3> QED BY <2>1, <3>1, <3>2, <3>4 DEF Balance
  <2>3. CASE f # K[k]
    <3>1. (\E l \in Files : K2[l] = f) <=> (\E l \in Files : K[l] = f)
      BY <1>3, <2>1, <2>3
    <3>2. Keeps(K2, f) = Keeps(K, f) /\ N2[f] = N[f]
      BY <2>3, <3>1 DEF Keeps, CountsWithout
    <3> QED BY <2>1, <3>2
  <2> QED BY <2>2, <2>3
<1> QED BY <1>2, <1>3, <1>4, <1>5 DEF FramesOK

Without(K, S) == [k \in Files |-> IF K[k] \in S THEN NoFrame ELSE K[k]]

LEMMA WithoutFacts ==
    ASSUME NEW K \in [Files -> Frames \cup {NoFrame}], NEW S \in SUBSET Frames,
           \A i, l \in Files : K[i] = K[l] /\ K[i] # NoFrame => i = l
    PROVE  /\ Without(K, S) \in [Files -> Frames \cup {NoFrame}]
           /\ \A i, l \in Files :
                 Without(K, S)[i] = Without(K, S)[l] /\ Without(K, S)[i] # NoFrame => i = l
           /\ \A f \in S : Keeps(Without(K, S), f) = 0
           /\ \A f \in Frames \ S : Keeps(Without(K, S), f) = Keeps(K, f)
<1> DEFINE K2 == Without(K, S)
<1>1. K2 \in [Files -> Frames \cup {NoFrame}]
      /\ \A i \in Files : K2[i] = IF K[i] \in S THEN NoFrame ELSE K[i]
  BY DEF Without
<1> HIDE DEF K2
<1>2. \A f \in S : \A i \in Files : K2[i] # f
  <2>1. \A f \in S : f # NoFrame
    BY CowAssumption
  <2> QED BY <1>1, <2>1
<1>3. \A f \in Frames \ S : \A i \in Files : K2[i] = f <=> K[i] = f
  <2>1. \A f \in Frames : f # NoFrame
    BY CowAssumption
  <2> QED BY <1>1, <2>1
<1>4. \A f \in S : Keeps(K2, f) = 0
  BY <1>2 DEF Keeps
<1>5. \A f \in Frames \ S : Keeps(K2, f) = Keeps(K, f)
  BY <1>3 DEF Keeps
<1>6. \A i, l \in Files : K2[i] = K2[l] /\ K2[i] # NoFrame => i = l
  BY <1>1
<1> QED BY <1>1, <1>4, <1>5, <1>6 DEF K2

\* A frame that nobody has any more becomes free and leaves the cache.
LEMMA FreedFrame ==
    ASSUME NEW M, NEW P, NEW K, NEW N, NEW F, FramesOK(M, P, K, N, F),
           NEW h \in Frames, U(M, h) = 0, Q(P, h) = 0, NEW N2, N2 = Counted(N, h, 0)
    PROVE  FramesOK(M, P, Without(K, {h}), N2, F \cup {h})
<1> DEFINE K2 == Without(K, {h})
<1>1. /\ N \in [Frames -> Nat] /\ K \in [Files -> Frames \cup {NoFrame}]
      /\ \A i, l \in Files : K[i] = K[l] /\ K[i] # NoFrame => i = l
  BY DEF FramesOK
<1>2. N2 \in [Frames -> Nat] /\ N2[h] = 0 /\ \A f \in Frames : f # h => N2[f] = N[f]
  BY <1>1, CountOne
<1>3. /\ K2 \in [Files -> Frames \cup {NoFrame}]
      /\ \A i, l \in Files : K2[i] = K2[l] /\ K2[i] # NoFrame => i = l
      /\ \A f \in {h} : Keeps(K2, f) = 0
      /\ \A f \in Frames \ {h} : Keeps(K2, f) = Keeps(K, f)
  BY <1>1, WithoutFacts
<1> HIDE DEF K2
<1>4. ASSUME NEW f \in Frames
      PROVE  Balance(U(M, f), Q(P, f), Keeps(K2, f), N2[f], f \in F \cup {h})
  <2>1. CASE f = h
    <3>1. Keeps(K2, f) = 0 /\ N2[f] = 0 /\ U(M, f) = 0 /\ Q(P, f) = 0
      BY <1>2, <1>3, <2>1
    <3> QED BY <3>1 DEF Balance
  <2>2. CASE f # h
    <3>1. Keeps(K2, f) = Keeps(K, f) /\ N2[f] = N[f]
          /\ (f \in F \cup {h} <=> f \in F)
      BY <1>2, <1>3, <2>2
    <3>2. Balance(U(M, f), Q(P, f), Keeps(K, f), N[f], f \in F)
      BY FrameFacts
    <3> QED BY <3>1, <3>2 DEF Balance
  <2> QED BY <2>1, <2>2
<1>5. F \cup {h} \subseteq Frames
  BY DEF FramesOK
<1>6. FramesOK(M, P, K2, N2, F \cup {h})
  BY <1>2, <1>3, <1>4, <1>5 DEF FramesOK
<1> QED BY <1>6 DEF K2

\* d[f] mappings of each frame f go, or entries that a fork has collected: what
\* Left() frees.
Gone(K, N, d) ==
    {f \in Frames : d[f] > 0 /\ (IF N[f] < 2 THEN 1 ELSE N[f]) - d[f] - Keeps(K, f) <= 0}
CountsLeft(K, N, d) ==
    [f \in Frames |-> IF d[f] = 0 THEN N[f] ELSE IF f \in Gone(K, N, d) THEN 0 ELSE N[f] - d[f]]

LEMMA SomeLeft ==
    ASSUME NEW s \in Nat, NEW u \in Nat, NEW q \in Nat, NEW d \in Nat, NEW n \in Nat,
           NEW k \in {0, 1}, NEW m, m = n - d, u + q + d <= s, s + k <= n, n - d - k > 0
    PROVE  m >= 1 /\ (k = 1 => m >= 2) /\ m <= n /\ m \in Nat /\ u + q + k <= m
OBVIOUS

LEMMA DroppedFrames ==
    ASSUME NEW M, NEW P, NEW K, NEW N, NEW F, FramesOK(M, P, K, N, F),
           NEW M2, MapType(M2), NEW P2 \in Seq(Entries), NEW d \in [Frames -> Nat],
           \A f \in Frames : U(M2, f) + Q(P2, f) + d[f] <= U(M, f) + Q(P, f)
    PROVE  /\ FramesOK(M2, P2, Without(K, Gone(K, N, d)), CountsLeft(K, N, d), F \cup Gone(K, N, d))
           /\ \A f \in Frames : CountsLeft(K, N, d)[f] <= N[f]
           /\ \A f \in Frames : N[f] >= 1 /\ U(M2, f) >= 1 => CountsLeft(K, N, d)[f] >= 1
<1> DEFINE G == Gone(K, N, d)
           K2 == Without(K, G)
           N2 == CountsLeft(K, N, d)
<1>1. /\ N \in [Frames -> Nat] /\ K \in [Files -> Frames \cup {NoFrame}] /\ F \subseteq Frames
      /\ \A i, l \in Files : K[i] = K[l] /\ K[i] # NoFrame => i = l
      /\ G \subseteq Frames
  BY DEF FramesOK, Gone
<1>2. /\ K2 \in [Files -> Frames \cup {NoFrame}]
      /\ \A i, l \in Files : K2[i] = K2[l] /\ K2[i] # NoFrame => i = l
      /\ \A f \in G : Keeps(K2, f) = 0
      /\ \A f \in Frames \ G : Keeps(K2, f) = Keeps(K, f)
  BY <1>1, WithoutFacts
<1> HIDE DEF K2
<1>3. ASSUME NEW f \in Frames
      PROVE  /\ Balance(U(M2, f), Q(P2, f), Keeps(K2, f), N2[f], f \in F \cup G)
             /\ N2[f] \in Nat /\ N2[f] <= N[f]
             /\ N[f] >= 1 /\ U(M2, f) >= 1 => N2[f] >= 1
  <2>1. /\ U(M, f) \in Nat /\ Q(P, f) \in Nat /\ Keeps(K, f) \in {0, 1} /\ N[f] \in Nat
        /\ Balance(U(M, f), Q(P, f), Keeps(K, f), N[f], f \in F)
    BY FrameFacts
  <2>2. U(M2, f) \in Nat /\ Q(P2, f) \in Nat /\ d[f] \in Nat
        /\ U(M2, f) + Q(P2, f) + d[f] <= U(M, f) + Q(P, f)
    BY Numbers
  <2>3. f \in G <=> d[f] > 0 /\ (IF N[f] < 2 THEN 1 ELSE N[f]) - d[f] - Keeps(K, f) <= 0
    BY DEF Gone
  <2>4. N2[f] = IF d[f] = 0 THEN N[f] ELSE IF f \in G THEN 0 ELSE N[f] - d[f]
    BY DEF CountsLeft
  <2> HIDE DEF G, N2
  <2>5. CASE f \in G
    <3>1. Keeps(K2, f) = 0 /\ N2[f] = 0
      BY <1>2, <2>2, <2>3, <2>4, <2>5
    <3>2. U(M2, f) = 0 /\ Q(P2, f) = 0
      BY <2>1, <2>2, <2>3, <2>5, SMTT(30) DEF Balance
    <3> QED BY <2>1, <3>1, <3>2 DEF Balance
  <2>6. CASE f \notin G
    <3>1. Keeps(K2, f) = Keeps(K, f) /\ (f \in F \cup G <=> f \in F)
      BY <1>2, <2>6
    <3>2. CASE d[f] = 0
      BY <2>1, <2>2, <2>4, <3>1, <3>2 DEF Balance
    <3>3. CASE d[f] # 0
      <4>1. N2[f] = N[f] - d[f] /\ (IF N[f] < 2 THEN 1 ELSE N[f]) - d[f] - Keeps(K, f) > 0
        BY <2>1, <2>2, <2>3, <2>4, <2>6, <3>3, SMTT(30)
      <4>2. N[f] >= 2
        BY <2>1, <2>2, <3>3, <4>1
      <4>3. f \notin F
        BY <2>1, <2>2, <4>2 DEF Balance
      <4>4. f \notin F \cup G
        BY <2>6, <4>3
      <4>5. N2[f] >= 1 /\ (Keeps(K, f) = 1 => N2[f] >= 2) /\ N2[f] <= N[f] /\ N2[f] \in Nat
            /\ U(M2, f) + Q(P2, f) + Keeps(K, f) <= N2[f]
        <5>1. U(M, f) + Q(P, f) + Keeps(K, f) <= N[f] /\ N[f] - d[f] - Keeps(K, f) > 0
          BY <2>1, <4>1, <4>2 DEF Balance
        <5>2. U(M, f) + Q(P, f) \in Nat
          BY <2>1
        <5> DEFINE s == U(M, f) + Q(P, f)
                   u == U(M2, f)
                   q == Q(P2, f)
                   k == Keeps(K, f)
                   n == N[f]
                   e == d[f]
                   m == N2[f]
        <5>3. /\ s \in Nat /\ u \in Nat /\ q \in Nat /\ e \in Nat /\ n \in Nat /\ k \in {0, 1}
              /\ m = n - e /\ u + q + e <= s /\ s + k <= n /\ n - e - k > 0
          BY <2>1, <2>2, <4>1, <5>1, <5>2
        <5>4. m >= 1 /\ (k = 1 => m >= 2) /\ m <= n /\ m \in Nat /\ u + q + k <= m
          <6> HIDE DEF s, u, q, k, n, e, m
          <6> QED BY <5>3, SomeLeft
        <5> QED BY <5>4
      <4> QED BY <2>1, <2>2, <3>1, <4>4, <4>5 DEF Balance
    <3> QED BY <3>2, <3>3
  <2> QED BY <2>5, <2>6
<1>4. N2 \in [Frames -> Nat]
  <2>1. N2 = [f \in Frames |-> N2[f]]
    BY DEF CountsLeft
  <2> HIDE DEF N2, G
  <2> QED BY <1>3, <2>1
<1> HIDE DEF N2, G
<1>5. FramesOK(M2, P2, K2, N2, F \cup G)
  BY <1>1, <1>2, <1>3, <1>4 DEF FramesOK
<1> QED BY <1>3, <1>5 DEF K2, N2, G

ShareOf(n) == IF n < 2 THEN 2 ELSE n + 1

\* A page's frame is collected for the child.
LEMMA PendedFrame ==
    ASSUME NEW M, NEW P, NEW K, NEW N, NEW F, FramesOK(M, P, K, N, F),
           NEW e \in Entries, NEW h \in Frames, h = e.frame, U(M, h) >= 1,
           NEW P2, P2 = Collected(P, e),
           NEW N2, N2 = Counted(N, h, ShareOf(N[h]))
    PROVE  /\ FramesOK(M, P2, K, N2, F)
           /\ N[h] < 2 => U(M, h) = 1 /\ Q(P, h) = 0
           /\ N2[h] >= 2 /\ \A f \in Frames : f # h => N2[f] = N[f]
<1> DEFINE x == ShareOf(N[h])
<1>1. N \in [Frames -> Nat] /\ P \in Seq(Entries)
  BY DEF FramesOK
<1>2. x \in Nat /\ x >= 2
  BY <1>1 DEF ShareOf
<1>3. N2 \in [Frames -> Nat] /\ N2[h] = x /\ \A f \in Frames : f # h => N2[f] = N[f]
  <2>1. N2 = Counted(N, h, x)
    OBVIOUS
  <2> HIDE DEF x
  <2> QED BY <1>1, <1>2, <2>1, CountOne
<1>4. /\ P2 \in Seq(Entries)
      /\ \A f \in Frames : Q(P2, f) = IF f = h THEN Q(P, f) + 1 ELSE Q(P, f)
  <2>1. /\ P2 \in Seq(Entries)
        /\ \A f \in Frames : Q(P2, f) = IF f = e.frame THEN Q(P, f) + 1 ELSE Q(P, f)
    BY <1>1, PendOne
  <2> QED BY <2>1
<1>5. ASSUME NEW f \in Frames
      PROVE  Balance(U(M, f), Q(P2, f), Keeps(K, f), N2[f], f \in F)
  <2>1. /\ U(M, f) \in Nat /\ Q(P, f) \in Nat /\ Keeps(K, f) \in {0, 1} /\ N[f] \in Nat
        /\ Balance(U(M, f), Q(P, f), Keeps(K, f), N[f], f \in F)
    BY FrameFacts
  <2>2. CASE f = h
    <3>1. Q(P2, f) = Q(P, f) + 1 /\ N2[f] = (IF N[f] < 2 THEN 2 ELSE N[f] + 1) /\ U(M, f) >= 1
      BY <1>3, <1>4, <2>2 DEF ShareOf
    <3> QED BY <2>1, <3>1 DEF Balance
  <2>3. CASE f # h
    <3>1. Q(P2, f) = Q(P, f) /\ N2[f] = N[f]
      BY <1>3, <1>4, <2>3
    <3> QED BY <2>1, <3>1
  <2> QED BY <2>2, <2>3
<1>6. N[h] < 2 => U(M, h) = 1 /\ Q(P, h) = 0
  BY FrameFacts DEF Balance
<1>7. FramesOK(M, P2, K, N2, F)
  BY <1>3, <1>4, <1>5 DEF FramesOK
<1> QED BY <1>2, <1>3, <1>6, <1>7

\* A free frame is collected for the child.
LEMMA PendedCopy ==
    ASSUME NEW M, NEW P, NEW K, NEW N, NEW F, FramesOK(M, P, K, N, F),
           NEW e \in Entries, e.frame \in F, NEW P2, P2 = Collected(P, e)
    PROVE  FramesOK(M, P2, K, N, F \ {e.frame}) /\ N[e.frame] = 0
<1> DEFINE h == e.frame
<1>1. P \in Seq(Entries) /\ h \in Frames /\ h \in F
  BY DEF FramesOK
<1>2. /\ P2 \in Seq(Entries)
      /\ \A f \in Frames : Q(P2, f) = IF f = h THEN Q(P, f) + 1 ELSE Q(P, f)
  BY <1>1, PendOne
<1> HIDE DEF h
<1>3. ASSUME NEW f \in Frames
      PROVE  Balance(U(M, f), Q(P2, f), Keeps(K, f), N[f], f \in F \ {h}) /\ (f = h => N[f] = 0)
  <2>1. /\ U(M, f) \in Nat /\ Q(P, f) \in Nat /\ Keeps(K, f) \in {0, 1} /\ N[f] \in Nat
        /\ Balance(U(M, f), Q(P, f), Keeps(K, f), N[f], f \in F)
    BY FrameFacts
  <2>2. CASE f = h
    <3>1. Q(P2, f) = Q(P, f) + 1 /\ f \in F /\ f \notin F \ {h}
      BY <1>1, <1>2, <2>2
    <3> QED BY <2>1, <3>1 DEF Balance
  <2>3. CASE f # h
    <3>1. Q(P2, f) = Q(P, f) /\ (f \in F \ {h} <=> f \in F)
      BY <1>2, <2>3
    <3> QED BY <2>1, <2>3, <3>1 DEF Balance
  <2> QED BY <2>2, <2>3
<1>4. FramesOK(M, P2, K, N, F \ {h}) /\ N[h] = 0
  BY <1>1, <1>2, <1>3 DEF FramesOK
<1> QED BY <1>4 DEF h

\* What was collected is forgotten without being given back.
LEMMA LostEntries ==
    ASSUME NEW M, NEW P, NEW K, NEW N, NEW F, FramesOK(M, P, K, N, F)
    PROVE  FramesOK(M, <<>>, K, N, F)
<1>1. ASSUME NEW f \in Frames
      PROVE  Balance(U(M, f), Q(<<>>, f), Keeps(K, f), N[f], f \in F)
  <2>1. Q(<<>>, f) = 0
    BY Numbers
  <2> QED BY <2>1, FrameFacts DEF Balance
<1> QED BY <1>1 DEF FramesOK

-----------------------------------------------------------------------------
(* Steps outside of a copy.                                                *)

\* The page w of q keeps its range and its frame and is not made writable.
Same(q, w) ==
    /\ prot'[q][w] = prot[q][w]
    /\ map'[q][w] = map[q][w]
    /\ w \in rw'[q] => w \in rw[q]

LEMMA FillKept ==
    ASSUME FillOK, fill' \in [Procs -> FillType],
           \A q \in Procs : \/ fill'[q] = NoFill
                            \/ fill'[q] = fill[q] /\ Same(q, fill[q].page)
    PROVE  FillOK'
BY DEF FillOK, Same

\* No writable translation is left that was not there.
Quieter == MapType(tlb') /\ \A q \in Procs, w \in Pages : tlb'[q][w] \in {NoFrame, tlb[q][w]}

LEMMA FlushQuiets ==
    ASSUME MapType(tlb), NEW p \in Procs
    PROVE  /\ \A R : tlb' = Flushed(p, R) => Quieter
           /\ tlb' = tlb => Quieter
           /\ tlb' = [tlb EXCEPT ![p] = Nothing] => Quieter
BY DEF MapType, Quieter, Flushed, Nothing

\* What has to be shown of a step that p takes while no fork copies.
LEMMA OutsideCopy ==
    ASSUME CowInv, NEW p \in alive, fork.phase # "copy", fork' = fork,
           FramesOK(map', fork.pend, cache', count', free'), WritesOK(map', rw', count'),
           Quieter, FillOK', prot' \in [Procs -> [Pages -> {"none", "r", "rw"}]],
           \A q \in Procs \ {p} : map'[q] = map[q] /\ rw'[q] = rw[q] /\ fill'[q] = fill[q],
           fork.by = p => fill'[p] = NoFill,
           \/ alive' = alive
           \/ /\ alive' = alive \ {p} /\ fork.by # p
              /\ fill'[p] = NoFill /\ map'[p] = Nothing /\ rw'[p] = {}
    PROVE  CowInv'
<1>1. TlbOK'
  BY DEF CowInv, TlbOK, Quieter
<1>2. ProcessesOK'
  BY DEF CowInv, ProcessesOK
<1>3. ForkOK'
  <2>1. PendOK(map'[fork.child], fork.todo, fork.pend, count')
    BY DEF PendOK, CowInv, ForkOK
  <2>2. fork.todo = {}
    BY DEF CowInv, ForkOK
  <2>3. fork.phase # "none" => fork.by \in alive' /\ fill'[fork.by] = NoFill /\ fork.child \in Procs \ alive'
    BY DEF CowInv, ForkOK, ProcessesOK
  <2> QED BY <2>1, <2>2, <2>3 DEF CowInv, ForkOK
<1> QED BY <1>1, <1>2, <1>3 DEF CowInv

\* A step that leaves the frames and the page tables alone.
LEMMA NothingMapped ==
    ASSUME CowInv, NEW p \in alive, fork.phase # "copy",
           UNCHANGED <<alive, map, rw, tlb, count, free, cache, fork>>,
           FillOK', prot' \in [Procs -> [Pages -> {"none", "r", "rw"}]],
           \A q \in Procs \ {p} : fill'[q] = fill[q],
           fork.by = p => fill'[p] = NoFill
    PROVE  CowInv'
<1>1. FramesOK(map', fork.pend, cache', count', free') /\ WritesOK(map', rw', count')
  BY DEF CowInv
<1>2. Quieter
  BY FlushQuiets DEF CowInv, TlbOK, ProcessesOK
<1> QED BY <1>1, <1>2, OutsideCopy

LEMMA Types ==
    ASSUME CowInv
    PROVE  /\ MapType(map) /\ MapType(tlb)
           /\ rw \in [Procs -> SUBSET Pages]
           /\ prot \in [Procs -> [Pages -> {"none", "r", "rw"}]]
           /\ fill \in [Procs -> FillType]
           /\ count \in [Frames -> Nat] /\ free \subseteq Frames
           /\ cache \in [Files -> Frames \cup {NoFrame}]
           /\ alive \subseteq Procs /\ fork \in ForkType
BY DEF CowInv, FramesOK, WritesOK, TlbOK, ProcessesOK, FillOK, ForkOK

LEMMA StutterKeeps ==
    ASSUME CowInv, UNCHANGED <<alive, prot, map, rw, tlb, count, free, cache, fill, fork>>
    PROVE  CowInv'
<1>1. FramesOK(map', fork'.pend, cache', count', free') /\ WritesOK(map', rw', count')
  BY DEF CowInv
<1>2. TlbOK' /\ ProcessesOK' /\ FillOK' /\ ForkOK'
  BY DEF CowInv, TlbOK, ProcessesOK, FillOK, ForkOK
<1> QED BY <1>1, <1>2 DEF CowInv

LEMMA MmapAnonKeeps ==
    ASSUME CowInv, NEW p \in Procs, NEW v \in Pages, MmapAnon(p, v)
    PROVE  CowInv'
<1>1. /\ p \in alive /\ fork.phase # "copy" /\ prot[p][v] = "none"
      /\ prot' = [prot EXCEPT ![p][v] = "rw"]
      /\ UNCHANGED <<alive, map, rw, tlb, count, free, cache, fill, fork>>
  BY DEF MmapAnon, Kernel, frameVars
<1>2. prot' \in [Procs -> [Pages -> {"none", "r", "rw"}]]
      /\ \A q \in Procs, w \in Pages : q # p \/ w # v => prot'[q][w] = prot[q][w]
  BY <1>1, Types
<1>3. \A q \in Procs : fill[q] # NoFill => q # p \/ fill[q].page # v
  BY <1>1 DEF CowInv, FillOK
<1>4. FillOK'
  <2>1. \A q \in Procs : fill'[q] = NoFill \/ (fill'[q] = fill[q] /\ Same(q, fill[q].page))
    BY <1>1, <1>2, <1>3, Types DEF Same, FillType
  <2> QED BY <1>1, <2>1, FillKept, Types DEF CowInv
<1>5. fork.by = p => fill'[p] = NoFill
  BY <1>1, CowAssumption DEF CowInv, ForkOK
<1> QED BY <1>1, <1>2, <1>4, <1>5, NothingMapped

\* mmap of a file closes no gate: its fork would be that of another process.
LEMMA FillStarts ==
    ASSUME CowInv, NEW p \in Procs, NEW v \in Pages, NEW k \in Files, NEW over \in BOOLEAN,
           FillBegins(p, v, k, over), MapType(map'), rw' \in [Procs -> SUBSET Pages],
           map'[p][v] # NoFrame, ~over => v \notin rw'[p],
           \A q \in Procs, w \in Pages :
              q # p \/ w # v => map'[q][w] = map[q][w] /\ (w \in rw'[q] => w \in rw[q])
    PROVE  /\ FillOK' /\ prot' \in [Procs -> [Pages -> {"none", "r", "rw"}]]
           /\ \A q \in Procs \ {p} : fill'[q] = fill[q]
           /\ fork.by # p /\ p \in alive /\ fork.phase # "copy"
           /\ fork' = fork /\ alive' = alive
<1>1. /\ p \in alive /\ fork.phase # "copy" /\ fork.by # p /\ fill[p] = NoFill
      /\ prot' = [prot EXCEPT ![p][v] = "r"]
      /\ fill' = [fill EXCEPT ![p] = [page |-> v, file |-> k, over |-> over]]
      /\ fork' = fork /\ alive' = alive
  BY DEF FillBegins, Kernel, GateOpen
<1>2. prot' \in [Procs -> [Pages -> {"none", "r", "rw"}]] /\ prot'[p][v] = "r"
      /\ \A q \in Procs, w \in Pages : q # p \/ w # v => prot'[q][w] = prot[q][w]
  BY <1>1, Types
<1>3. /\ fill' \in [Procs -> FillType]
      /\ fill'[p] = [page |-> v, file |-> k, over |-> over]
      /\ \A q \in Procs \ {p} : fill'[q] = fill[q]
  BY <1>1, Types DEF FillType
<1>4. ASSUME NEW q \in Procs, fill'[q] # NoFill
      PROVE  /\ fill'[q].file \in Files
             /\ prot'[q][fill'[q].page] = "r"
             /\ map'[q][fill'[q].page] # NoFrame
             /\ ~fill'[q].over => fill'[q].page \notin rw'[q]
  <2>1. CASE q = p
    BY <1>2, <1>3, <2>1
  <2>2. CASE q # p
    <3>1. fill'[q] = fill[q] /\ fill[q].page \in Pages
      BY <1>3, <2>2, Types DEF FillType
    <3>2. /\ fill[q].file \in Files /\ prot[q][fill[q].page] = "r"
          /\ map[q][fill[q].page] # NoFrame /\ (~fill[q].over => fill[q].page \notin rw[q])
      BY <1>4, <3>1 DEF CowInv, FillOK
    <3> QED BY <1>2, <2>2, <3>1, <3>2
  <2> QED BY <2>1, <2>2
<1>5. FillOK'
  BY <1>3, <1>4 DEF FillOK
<1> QED BY <1>1, <1>2, <1>3, <1>5

LEMMA MmapOverKeeps ==
    ASSUME CowInv, NEW p \in Procs, NEW v \in Pages, NEW k \in Files, MmapOver(p, v, k)
    PROVE  CowInv'
<1>1. /\ FillBegins(p, v, k, TRUE) /\ map[p][v] # NoFrame
      /\ UNCHANGED <<map, rw, tlb, count, free, cache>>
  BY DEF MmapOver, frameVars
<1>2. /\ FillOK' /\ prot' \in [Procs -> [Pages -> {"none", "r", "rw"}]]
      /\ \A q \in Procs \ {p} : fill'[q] = fill[q]
      /\ fork.by # p /\ p \in alive /\ fork.phase # "copy"
      /\ fork' = fork /\ alive' = alive
  BY <1>1, FillStarts, Types
<1> QED BY <1>1, <1>2, NothingMapped

\* A cleared frame is mapped.
LEMMA MapFreshKeeps ==
    ASSUME CowInv, NEW p \in Procs, NEW v \in Pages, NEW f \in Frames, NEW isRw,
           MapFresh(p, v, f, isRw), map[p][v] = NoFrame
    PROVE  /\ FramesOK(map', fork.pend, cache', count', free') /\ WritesOK(map', rw', count')
           /\ Quieter
           /\ map'[p][v] = f /\ f # NoFrame
           /\ \A q \in Procs, w \in Pages :
                 q # p \/ w # v => map'[q][w] = map[q][w] /\ (w \in rw'[q] <=> w \in rw[q])
           /\ v \in rw'[p] => isRw
           /\ \A q \in Procs \ {p} : map'[q] = map[q] /\ rw'[q] = rw[q]
<1>1. /\ f \in free /\ free' = free \ {f} /\ map' = Mapped(map, p, v, f)
      /\ rw' = [rw EXCEPT ![p] = IF isRw THEN @ \cup {v} ELSE @]
      /\ UNCHANGED <<count, cache, tlb>>
  BY DEF MapFresh, Mapped
<1>2. FramesOK(map, fork.pend, cache, count, free) /\ WritesOK(map, rw, count)
  BY DEF CowInv
<1>3. FramesOK(map', fork.pend, cache, count, free \ {f}) /\ count[f] = 0
  BY <1>1, <1>2, FreshFrame
<1>4. /\ map'[p][v] = f /\ f # NoFrame
      /\ \A q \in Procs, w \in Pages : q # p \/ w # v => map'[q][w] = map[q][w]
      /\ \A q \in Procs \ {p} : map'[q] = map[q]
  BY <1>1, Types, CowAssumption DEF Mapped, MapType
<1>5. /\ rw' \in [Procs -> SUBSET Pages]
      /\ \A q \in Procs, w \in Pages : q # p \/ w # v => (w \in rw'[q] <=> w \in rw[q])
      /\ \A q \in Procs \ {p} : rw'[q] = rw[q]
  BY <1>1, Types
<1>6. v \notin rw[p]
  BY <1>2 DEF WritesOK
<1>7. v \in rw'[p] => isRw
  BY <1>1, <1>6, Types
<1>8. WritesOK(map', rw', count)
  BY <1>2, <1>3, <1>4, <1>5 DEF WritesOK
<1>9. Quieter
  BY <1>1, FlushQuiets, Types
<1> QED BY <1>1, <1>3, <1>4, <1>5, <1>7, <1>8, <1>9

LEMMA TouchFaultKeeps ==
    ASSUME CowInv, NEW p \in Procs, NEW v \in Pages, NEW f \in Frames, TouchFault(p, v, f)
    PROVE  CowInv'
<1>1. /\ p \in alive /\ fork.phase # "copy" /\ map[p][v] = NoFrame
      /\ MapFresh(p, v, f, prot[p][v] = "rw")
      /\ UNCHANGED <<alive, prot, fill, fork>>
  BY DEF TouchFault, Kernel
<1>2. /\ FramesOK(map', fork.pend, cache', count', free') /\ WritesOK(map', rw', count')
      /\ Quieter
      /\ \A q \in Procs, w \in Pages :
            q # p \/ w # v => map'[q][w] = map[q][w] /\ (w \in rw'[q] <=> w \in rw[q])
      /\ \A q \in Procs \ {p} : map'[q] = map[q] /\ rw'[q] = rw[q]
  BY <1>1, MapFreshKeeps
<1>3. \A q \in Procs : fill[q] # NoFill => q # p \/ fill[q].page # v
  BY <1>1 DEF CowInv, FillOK
<1>4. FillOK'
  <2>1. \A q \in Procs : fill'[q] = NoFill \/ (fill'[q] = fill[q] /\ Same(q, fill[q].page))
    BY <1>1, <1>2, <1>3, Types DEF Same, FillType
  <2> QED BY <1>1, <2>1, FillKept, Types DEF CowInv
<1>5. fork.by = p => fill'[p] = NoFill
  BY <1>1, CowAssumption DEF CowInv, ForkOK
<1> QED BY <1>1, <1>2, <1>4, <1>5, OutsideCopy, Types

LEMMA MmapMissKeeps ==
    ASSUME CowInv, NEW p \in Procs, NEW v \in Pages, NEW k \in Files, NEW f \in Frames,
           MmapMiss(p, v, k, f)
    PROVE  CowInv'
<1>1. /\ map[p][v] = NoFrame /\ MapFresh(p, v, f, FALSE) /\ FillBegins(p, v, k, FALSE)
  BY DEF MmapMiss
<1>2. /\ FramesOK(map', fork.pend, cache', count', free') /\ WritesOK(map', rw', count')
      /\ Quieter
      /\ map'[p][v] = f /\ f # NoFrame
      /\ \A q \in Procs, w \in Pages :
            q # p \/ w # v => map'[q][w] = map[q][w] /\ (w \in rw'[q] <=> w \in rw[q])
      /\ v \in rw'[p] => FALSE
      /\ \A q \in Procs \ {p} : map'[q] = map[q] /\ rw'[q] = rw[q]
  BY <1>1, MapFreshKeeps
<1>3. MapType(map') /\ rw' \in [Procs -> SUBSET Pages]
  BY <1>2 DEF FramesOK, WritesOK
<1>4. /\ FillOK' /\ prot' \in [Procs -> [Pages -> {"none", "r", "rw"}]]
      /\ \A q \in Procs \ {p} : fill'[q] = fill[q]
      /\ fork.by # p /\ p \in alive /\ fork.phase # "copy"
      /\ fork' = fork /\ alive' = alive
  <2>1. /\ map'[p][v] # NoFrame /\ (~FALSE => v \notin rw'[p])
        /\ \A q \in Procs, w \in Pages :
              q # p \/ w # v => map'[q][w] = map[q][w] /\ (w \in rw'[q] => w \in rw[q])
    BY <1>2
  <2>2. FillBegins(p, v, k, FALSE) /\ FALSE \in BOOLEAN
    BY <1>1
  <2> QED BY <1>3, <2>1, <2>2, FillStarts
<1> QED BY <1>2, <1>4, OutsideCopy

\* A frame with a count below two that a page maps is nobody else's.
LEMMA LoneIsAlone ==
    ASSUME CowInv, NEW p \in Procs, NEW v \in Pages, map[p][v] # NoFrame, count[map[p][v]] < 2
    PROVE  /\ map[p][v] \in Frames
           /\ U(map, map[p][v]) = 1 /\ Q(fork.pend, map[p][v]) = 0
           /\ \A k \in Files : cache[k] # map[p][v]
           /\ \A q \in Procs, w \in Pages : map[q][w] = map[p][v] => q = p /\ w = v
<1> DEFINE f == map[p][v]
<1>1. f \in Frames
  BY Types DEF MapType
<1>2. FramesOK(map, fork.pend, cache, count, free)
  BY DEF CowInv
<1>3. /\ U(map, f) \in Nat /\ Q(fork.pend, f) \in Nat /\ Keeps(cache, f) \in {0, 1} /\ count[f] \in Nat
      /\ Balance(U(map, f), Q(fork.pend, f), Keeps(cache, f), count[f], f \in free)
  BY <1>1, <1>2, FrameFacts
<1>4. /\ U(map, f) >= 1
      /\ \A q \in Procs, w \in Pages : map[q][w] = f /\ (q # p \/ w # v) => U(map, f) >= 2
  BY UsedBy
<1>5. U(map, f) = 1 /\ Q(fork.pend, f) = 0 /\ Keeps(cache, f) = 0
  <2> HIDE DEF f
  <2>1. count[f] < 2
    BY DEF f
  <2> QED BY <1>3, <1>4, <2>1 DEF Balance
<1>6. \A k \in Files : cache[k] # f
  BY <1>5 DEF Keeps
<1> QED BY <1>1, <1>4, <1>5, <1>6

LEMMA MmapHitKeeps ==
    ASSUME CowInv, NEW p \in Procs, NEW v \in Pages, NEW k \in Files, MmapHit(p, v, k)
    PROVE  CowInv'
<1> DEFINE h == cache[k]
<1>1. /\ p \in alive /\ fork.phase # "copy" /\ fork.by # p /\ map[p][v] = NoFrame
      /\ prot[p][v] = "none" /\ h # NoFrame
      /\ prot' = [prot EXCEPT ![p][v] = "r"]
      /\ map' = Mapped(map, p, v, h)
      /\ count' = Counted(count, h, count[h] + 1)
      /\ UNCHANGED <<alive, rw, tlb, free, cache, fill, fork>>
  BY DEF MmapHit, Kernel, GateOpen, Mapped, Counted
<1>2. FramesOK(map, fork.pend, cache, count, free) /\ WritesOK(map, rw, count) /\ h \in Frames
  BY <1>1, Types DEF CowInv
<1>3. FramesOK(map', fork.pend, cache, count', free)
  BY <1>1, <1>2, CachedFrame
<1>4. /\ \A q \in Procs, w \in Pages : q # p \/ w # v => map'[q][w] = map[q][w]
      /\ \A q \in Procs \ {p} : map'[q] = map[q]
  BY <1>1, Types DEF Mapped, MapType
<1>5. \A f \in Frames : f # h => count'[f] = count[f]
  BY <1>1, Types DEF Counted
<1>6. WritesOK(map', rw, count')
  <2> SUFFICES ASSUME NEW q \in Procs, NEW w \in rw[q]
               PROVE  map'[q][w] # NoFrame /\ count'[map'[q][w]] < 2
    BY Types DEF WritesOK
  <2>1. w \in Pages /\ map[q][w] # NoFrame /\ count[map[q][w]] < 2
    BY <1>2, Types DEF WritesOK
  <2>2. map[q][w] \in Frames /\ map[q][w] # h
    BY <2>1, LoneIsAlone
  <2>3. map'[q][w] = map[q][w]
    BY <1>1, <1>4, <2>1
  <2> QED BY <1>5, <2>1, <2>2, <2>3
<1>7. prot' \in [Procs -> [Pages -> {"none", "r", "rw"}]]
      /\ \A q \in Procs, w \in Pages : q # p \/ w # v => prot'[q][w] = prot[q][w]
  BY <1>1, Types
<1>8. \A q \in Procs : fill[q] # NoFill => q # p \/ fill[q].page # v
  BY <1>1 DEF CowInv, FillOK
<1>9. FillOK'
  <2>1. \A q \in Procs : fill'[q] = NoFill \/ (fill'[q] = fill[q] /\ Same(q, fill[q].page))
    BY <1>1, <1>4, <1>7, <1>8, Types DEF Same, FillType
  <2> QED BY <1>1, <2>1, FillKept, Types DEF CowInv
<1>10. Quieter
  BY <1>1, FlushQuiets, Types
<1>11. FramesOK(map', fork.pend, cache', count', free') /\ WritesOK(map', rw', count')
  BY <1>1, <1>3, <1>6
<1> QED BY <1>1, <1>4, <1>7, <1>9, <1>10, <1>11, OutsideCopy

LEMMA MmapFilledKeeps ==
    ASSUME CowInv, NEW p \in Procs, MmapFilled(p)
    PROVE  CowInv'
<1> DEFINE k == fill[p].file
           v == fill[p].page
           h == map[p][v]
<1>1. /\ p \in alive /\ fork.phase # "copy" /\ fill[p] # NoFill /\ ~fill[p].over
      /\ cache' = (IF MayPut(k, h) THEN [cache EXCEPT ![k] = h] ELSE cache)
      /\ count' = (IF MayPut(k, h) THEN [count EXCEPT ![h] = 2] ELSE count)
      /\ fill' = [fill EXCEPT ![p] = NoFill]
      /\ UNCHANGED <<alive, prot, map, rw, tlb, free, fork>>
  BY DEF MmapFilled, Kernel, pageVars
<1>2. FramesOK(map, fork.pend, cache, count, free) /\ WritesOK(map, rw, count)
  BY DEF CowInv
<1>3. v \in Pages /\ k \in Files /\ h # NoFrame /\ h \in Frames /\ v \notin rw[p]
  <2>1. v \in Pages
    BY Types DEF FillType
  <2>2. k \in Files /\ h # NoFrame /\ v \notin rw[p]
    BY <1>1 DEF CowInv, FillOK
  <2> QED BY <2>1, <2>2, Types DEF MapType
<1>4. /\ fill' \in [Procs -> FillType] /\ fill'[p] = NoFill
      /\ \A q \in Procs \ {p} : fill'[q] = fill[q]
  BY <1>1, Types, CowAssumption DEF FillType, NoFill
<1>5. FillOK'
  <2>1. \A q \in Procs : fill'[q] = NoFill \/ (fill'[q] = fill[q] /\ Same(q, fill[q].page))
    BY <1>1, <1>4 DEF Same
  <2> QED BY <1>4, <2>1, FillKept DEF CowInv
<1>6. Quieter
  BY <1>1, FlushQuiets, Types
<1>7. FramesOK(map, fork.pend, cache', count', free) /\ WritesOK(map, rw, count')
  <2> HIDE DEF h, k, v
  <2>1. CASE ~MayPut(k, h)
    BY <1>1, <1>2, <2>1
  <2>2. CASE MayPut(k, h)
    <3>1. count[h] < 2 /\ cache[k] = NoFrame /\ \A l \in Files : cache[l] # h
      BY <2>2 DEF MayPut, Cached
    <3>2. U(map, h) >= 1
      BY <1>3, UsedBy DEF h
    <3>3. cache' = Kept(cache, k, h) /\ count' = Counted(count, h, 2)
      BY <1>1, <2>2 DEF Kept, Counted
    <3>4. /\ FramesOK(map, fork.pend, cache', count', free)
          /\ \A f \in Frames : f # h => count'[f] = count[f]
      BY <1>2, <1>3, <3>1, <3>2, <3>3, PutFrame
    <3>5. ASSUME NEW q \in Procs, NEW w \in rw[q]
          PROVE  map[q][w] # NoFrame /\ count'[map[q][w]] < 2
      <4>1. w \in Pages /\ map[q][w] # NoFrame /\ count[map[q][w]] < 2
        BY <1>2, Types DEF WritesOK
      <4>2. map[q][w] \in Frames /\ (map[q][w] = map[p][v] => q = p /\ w = v)
        BY <1>3, <4>1, LoneIsAlone
      <4>3. map[q][w] # h
        BY <1>3, <4>2 DEF h
      <4> QED BY <3>4, <4>1, <4>2, <4>3
    <3>6. WritesOK(map, rw, count')
      BY <3>5, Types DEF WritesOK
    <3> QED BY <3>4, <3>6
  <2> QED BY <2>1, <2>2
<1>8. FramesOK(map', fork.pend, cache', count', free') /\ WritesOK(map', rw', count')
  BY <1>1, <1>7
<1>9. prot' \in [Procs -> [Pages -> {"none", "r", "rw"}]]
  BY <1>1, Types
<1> HIDE DEF h, k, v
<1> QED BY <1>1, <1>4, <1>5, <1>6, <1>8, <1>9, OutsideCopy

LEMMA MprotectKeeps ==
    ASSUME CowInv, NEW p \in Procs, NEW v \in Pages, NEW pr \in {"r", "rw"}, Mprotect(p, v, pr)
    PROVE  CowInv'
<1>1. /\ p \in alive /\ fork.phase # "copy" /\ (fill[p] = NoFill \/ fill[p].page # v)
      /\ prot' = [prot EXCEPT ![p][v] = pr]
      /\ rw' = [rw EXCEPT ![p] = IF map[p][v] # NoFrame /\ Grants(p, v, pr)
                                 THEN @ \cup {v} ELSE @ \ {v}]
      /\ tlb' = Flushed(p, {v})
      /\ UNCHANGED <<alive, map, count, free, cache, fill, fork>>
  BY DEF Mprotect, Kernel, Settled, frameVars
<1>2. FramesOK(map, fork.pend, cache, count, free) /\ WritesOK(map, rw, count)
  BY DEF CowInv
<1>3. /\ rw' \in [Procs -> SUBSET Pages]
      /\ \A q \in Procs \ {p} : rw'[q] = rw[q]
      /\ \A w \in Pages : w # v => (w \in rw'[p] <=> w \in rw[p])
      /\ v \in rw'[p] => map[p][v] # NoFrame /\ Grants(p, v, pr)
  BY <1>1, Types
<1>4. v \in rw'[p] => map[p][v] # NoFrame /\ count[map[p][v]] < 2
  <2>1. map[p][v] # NoFrame => count[map[p][v]] \in Nat
    BY Types DEF MapType
  <2> QED BY <1>3, <2>1 DEF Grants, IsShared
<1>5. WritesOK(map, rw', count)
  BY <1>2, <1>3, <1>4 DEF WritesOK
<1>6. prot' \in [Procs -> [Pages -> {"none", "r", "rw"}]]
      /\ \A q \in Procs, w \in Pages : q # p \/ w # v => prot'[q][w] = prot[q][w]
  BY <1>1, Types
<1>7. FillOK'
  <2>1. \A q \in Procs : fill'[q] = NoFill \/ (fill'[q] = fill[q] /\ Same(q, fill[q].page))
    BY <1>1, <1>3, <1>6, Types DEF Same, FillType
  <2> QED BY <1>1, <2>1, FillKept, Types DEF CowInv
<1>8. Quieter
  BY <1>1, FlushQuiets, Types
<1>9. fork.by = p => fill'[p] = NoFill
  BY <1>1, CowAssumption DEF CowInv, ForkOK
<1>10. FramesOK(map', fork.pend, cache', count', free') /\ WritesOK(map', rw', count')
  BY <1>1, <1>2, <1>5
<1> QED BY <1>1, <1>3, <1>6, <1>7, <1>8, <1>9, <1>10, OutsideCopy

LEMMA FileWriteBeginsKeeps ==
    ASSUME CowInv, NEW k \in Files, FileWriteBegins(k)
    PROVE  CowInv'
<1>1. /\ fork.phase # "copy"
      /\ cache' = Kept(cache, k, NoFrame)
      /\ count' = CountsWithout(count, cache[k])
      /\ UNCHANGED <<alive, prot, map, rw, tlb, free, fill, fork>>
  BY DEF FileWriteBegins, pageVars, Kept, CountsWithout
<1>2. FramesOK(map, fork.pend, cache, count, free) /\ WritesOK(map, rw, count)
  BY DEF CowInv
<1>3. FramesOK(map, fork.pend, cache', count', free) /\ \A f \in Frames : count'[f] <= count[f]
  BY <1>1, <1>2, ForgottenFile
<1>4. ASSUME NEW q \in Procs, NEW w \in rw[q]
      PROVE  map[q][w] # NoFrame /\ count'[map[q][w]] < 2
  <2>1. w \in Pages /\ map[q][w] # NoFrame /\ count[map[q][w]] < 2
    BY <1>2, Types DEF WritesOK
  <2>2. map[q][w] \in Frames
    BY <2>1, LoneIsAlone
  <2>3. count'[map[q][w]] \in Nat /\ count[map[q][w]] \in Nat /\ count'[map[q][w]] <= count[map[q][w]]
    BY <1>3, <2>2, Types DEF FramesOK
  <2> QED BY <2>1, <2>3
<1>5. WritesOK(map, rw, count')
  BY <1>4, Types DEF WritesOK
<1>6. ForkOK'
  <2>1. fork.pend = <<>>
    BY <1>1 DEF CowInv, ForkOK
  <2>2. PendOK(map'[fork'.child], fork'.todo, fork'.pend, count')
    BY <1>1, <2>1 DEF PendOK
  <2> QED BY <1>1, <2>2 DEF CowInv, ForkOK
<1>7. TlbOK' /\ ProcessesOK' /\ FillOK'
  BY <1>1 DEF CowInv, TlbOK, ProcessesOK, FillOK
<1>8. FramesOK(map', fork'.pend, cache', count', free') /\ WritesOK(map', rw', count')
  BY <1>1, <1>3, <1>5
<1> QED BY <1>6, <1>7, <1>8 DEF CowInv

\* The page v of p becomes writable, with the frame that it has after the step.
LEMMA OneWritable ==
    ASSUME CowInv, NEW p \in Procs, NEW v \in Pages,
           rw' = [rw EXCEPT ![p] = @ \cup {v}],
           map'[p][v] # NoFrame, count'[map'[p][v]] < 2,
           \A q \in Procs, w \in Pages : q # p \/ w # v => map'[q][w] = map[q][w],
           count' \in [Frames -> Nat], \A f \in Frames : count'[f] <= count[f] \/ f = map'[p][v]
    PROVE  /\ WritesOK(map', rw', count')
           /\ \A q \in Procs \ {p} : rw'[q] = rw[q]
           /\ \A q \in Procs, w \in Pages : q # p \/ w # v => (w \in rw'[q] <=> w \in rw[q])
<1>1. /\ rw' \in [Procs -> SUBSET Pages]
      /\ \A q \in Procs \ {p} : rw'[q] = rw[q]
      /\ \A q \in Procs, w \in Pages : q # p \/ w # v => (w \in rw'[q] <=> w \in rw[q])
  BY Types
<1>2. ASSUME NEW q \in Procs, NEW w \in rw'[q]
      PROVE  map'[q][w] # NoFrame /\ count'[map'[q][w]] < 2
  <2>0. w \in Pages
    BY <1>1
  <2>1. CASE q = p /\ w = v
    BY <2>1
  <2>2. CASE q # p \/ w # v
    <3>1. w \in rw[q] /\ map'[q][w] = map[q][w]
      BY <1>1, <2>0, <2>2
    <3>2. map[q][w] # NoFrame /\ count[map[q][w]] < 2
      BY <3>1 DEF CowInv, WritesOK
    <3>3. map[q][w] \in Frames
      BY <2>0, <3>2, LoneIsAlone
    <3>4. count[map[q][w]] \in Nat /\ count'[map[q][w]] \in Nat
      BY <3>3, Types
    <3>5. CASE map[q][w] = map'[p][v]
      BY <3>1, <3>2, <3>5
    <3>6. CASE map[q][w] # map'[p][v]
      BY <3>1, <3>2, <3>3, <3>4, <3>6
    <3> QED BY <3>5, <3>6
  <2> QED BY <2>1, <2>2
<1>3. WritesOK(map', rw', count')
  BY <1>1, <1>2 DEF WritesOK
<1> QED BY <1>1, <1>3

LEMMA BreakKeeps ==
    ASSUME CowInv, NEW p \in Procs, NEW v \in Pages, NEW g \in Frames,
           map[p][v] # NoFrame, Break(p, v, g)
    PROVE  /\ FramesOK(map', fork.pend, cache', count', free')
           /\ map'[p][v] # NoFrame /\ count'[map'[p][v]] < 2
           /\ \A q \in Procs, w \in Pages : q # p \/ w # v => map'[q][w] = map[q][w]
           /\ \A q \in Procs \ {p} : map'[q] = map[q]
           /\ \A f \in Frames : count'[f] <= count[f] \/ f = map'[p][v]
<1> DEFINE h == map[p][v]
<1>1. FramesOK(map, fork.pend, cache, count, free)
  BY DEF CowInv
<1>2. h \in Frames /\ count[h] \in Nat /\ h # NoFrame
  BY Types DEF MapType
<1>3. U(map, h) >= 1
  BY UsedBy
<1>4. CASE count[h] < 2
  <2>1. count' = Counted(count, h, 0) /\ UNCHANGED <<map, free, cache>>
    BY <1>2, <1>4 DEF Break, IsShared, BreakLast, Counted
  <2>2. FramesOK(map, fork.pend, cache, count', free)
    BY <1>1, <1>2, <1>3, <1>4, <2>1, LoneFrame
  <2>3. count'[h] = 0 /\ \A f \in Frames : f # h => count'[f] = count[f]
    <3>1. count \in [Frames -> Nat]
      BY Types
    <3> QED BY <1>2, <2>1, <3>1, CountOne
  <2>4. \A f \in Frames : count'[f] <= count[f] \/ f = h
    <3>1. \A f \in Frames : count[f] \in Nat
      BY Types
    <3> QED BY <2>3, <3>1
  <2>5. map'[p][v] = h
    BY <2>1
  <2>6. \A q \in Procs : map'[q] = map[q]
    BY <2>1
  <2> QED BY <1>2, <2>1, <2>2, <2>3, <2>4, <2>5, <2>6
<1>5. CASE ~(count[h] < 2)
  <2> DEFINE last == Cached(h) /\ count[h] <= 2
             one == Counted(count, h, count[h] - 1)
  <2>1. /\ g \in free /\ map' = Mapped(map, p, v, g)
        /\ count' = [count EXCEPT ![h] = IF last THEN 0 ELSE @ - 1]
        /\ free' = (free \ {g}) \cup (IF last THEN {h} ELSE {})
        /\ cache' = IF last THEN Uncache({h}) ELSE cache
    BY <1>2, <1>5 DEF Break, IsShared, BreakCopy, Mapped
  <2>2. count[h] >= 1 /\ count[h] >= 2
    BY <1>2, <1>5
  <2>3. /\ FramesOK(map', fork.pend, cache, one, free \ {g})
        /\ g # h /\ count[g] = 0 /\ one[g] = 0
        /\ U(map', h) = U(map, h) - 1
    <3>1. one = Counted(count, map[p][v], count[map[p][v]] - 1) /\ count[map[p][v]] >= 1
      BY <2>2
    <3> HIDE DEF one
    <3> QED BY <1>1, <2>1, <3>1, MovedFrame, SMTT(30)
  <2>4. /\ map'[p][v] = g /\ g # NoFrame
        /\ \A q \in Procs, w \in Pages : q # p \/ w # v => map'[q][w] = map[q][w]
        /\ \A q \in Procs \ {p} : map'[q] = map[q]
    BY <2>1, Types, CowAssumption DEF Mapped, MapType
  <2>5. FramesOK(map', fork.pend, cache', count', free')
    <3>1. CASE ~last
      <4>1. count' = one /\ free' = free \ {g} /\ cache' = cache
        BY <2>1, <3>1 DEF Counted
      <4> QED BY <2>3, <4>1
    <3>2. CASE last
      <4>1. Keeps(cache, h) = 1 /\ count[h] = 2
        BY <1>2, <2>2, <3>2 DEF Cached, Keeps
      <4>2. U(map, h) = 1 /\ Q(fork.pend, h) = 0
        <5>1. /\ U(map, h) \in Nat /\ Q(fork.pend, h) \in Nat
              /\ Balance(U(map, h), Q(fork.pend, h), Keeps(cache, h), count[h], h \in free)
          BY <1>1, <1>2, FrameFacts
        <5> HIDE DEF h
        <5> QED BY <1>3, <4>1, <5>1 DEF Balance
      <4>3. U(map', h) = 0
        BY <2>3, <4>2
      <4>4. count' = Counted(one, h, 0) /\ free' = (free \ {g}) \cup {h}
            /\ cache' = Without(cache, {h})
        BY <1>2, <2>1, <3>2, Types DEF Counted, Without, Uncache
      <4> HIDE DEF one, h
      <4> QED BY <1>2, <2>3, <4>2, <4>3, <4>4, FreedFrame
    <3> QED BY <3>1, <3>2
  <2>6. \A f \in Frames : count'[f] <= count[f]
    <3>1. \A f \in Frames : count[f] \in Nat
      BY Types
    <3>2. \A f \in Frames : count'[f] = IF f = h THEN (IF last THEN 0 ELSE count[h] - 1) ELSE count[f]
      BY <1>2, <2>1, Types
    <3> HIDE DEF last, h
    <3> QED BY <1>2, <3>1, <3>2
  <2>7. count'[g] < 2
    BY <2>1, <2>3, Types
  <2> QED BY <2>4, <2>5, <2>6, <2>7
<1> QED BY <1>4, <1>5

LEMMA WriteFaultKeeps ==
    ASSUME CowInv, NEW p \in Procs, NEW v \in Pages, NEW g \in Frames, WriteFault(p, v, g)
    PROVE  CowInv'
<1>1. /\ p \in alive /\ fork.phase # "copy" /\ prot[p][v] = "rw" /\ map[p][v] # NoFrame
      /\ Break(p, v, g) /\ rw' = [rw EXCEPT ![p] = @ \cup {v}] /\ tlb' = Flushed(p, {v})
      /\ UNCHANGED <<alive, prot, fill, fork>>
  BY DEF WriteFault, Kernel
<1>2. /\ FramesOK(map', fork.pend, cache', count', free')
      /\ map'[p][v] # NoFrame /\ count'[map'[p][v]] < 2
      /\ \A q \in Procs, w \in Pages : q # p \/ w # v => map'[q][w] = map[q][w]
      /\ \A q \in Procs \ {p} : map'[q] = map[q]
      /\ \A f \in Frames : count'[f] <= count[f] \/ f = map'[p][v]
  BY <1>1, BreakKeeps
<1>3. count' \in [Frames -> Nat]
  BY <1>2 DEF FramesOK
<1>4. /\ WritesOK(map', rw', count')
      /\ \A q \in Procs \ {p} : rw'[q] = rw[q]
      /\ \A q \in Procs, w \in Pages : q # p \/ w # v => (w \in rw'[q] <=> w \in rw[q])
  BY <1>1, <1>2, <1>3, OneWritable
<1>5. \A q \in Procs : fill[q] # NoFill => q # p \/ fill[q].page # v
  BY <1>1 DEF CowInv, FillOK
<1>6. FillOK'
  <2>1. \A q \in Procs : fill'[q] = NoFill \/ (fill'[q] = fill[q] /\ Same(q, fill[q].page))
    BY <1>1, <1>2, <1>4, <1>5, Types DEF Same, FillType
  <2> QED BY <1>1, <2>1, FillKept, Types DEF CowInv
<1>7. Quieter
  BY <1>1, FlushQuiets, Types
<1>8. fork.by = p => fill'[p] = NoFill
  BY <1>1, CowAssumption DEF CowInv, ForkOK
<1> QED BY <1>1, <1>2, <1>4, <1>6, <1>7, <1>8, OutsideCopy, Types

-----------------------------------------------------------------------------
(* Pages are given back.                                                   *)

Drops(p, R) == [f \in Frames |-> MapsOf(p, R, f)]

LEMMA DropsFacts ==
    ASSUME CowInv, NEW p \in Procs, NEW R \in SUBSET Pages, NEW M2, MapType(M2),
           \A q \in Procs, w \in Pages :
              M2[q][w] = map[q][w] \/ (q = p /\ M2[q][w] = NoFrame),
           \A w \in R : M2[p][w] = NoFrame
    PROVE  /\ Drops(p, R) \in [Frames -> Nat]
           /\ \A f \in Frames : U(M2, f) + Q(fork.pend, f) + Drops(p, R)[f]
                                  <= U(map, f) + Q(fork.pend, f)
<1>1. ASSUME NEW f \in Frames
      PROVE  /\ Drops(p, R)[f] \in Nat
             /\ U(M2, f) + Q(fork.pend, f) + Drops(p, R)[f] <= U(map, f) + Q(fork.pend, f)
  <2> DEFINE n == Cardinality({v \in R : map[p][v] = f})
  <2>1. Drops(p, R)[f] = n
    BY DEF Drops, MapsOf
  <2>2. n \in Nat
    BY CowAssumption, FS_Subset, FS_CardinalityType
  <2>3. U(M2, f) + n <= U(map, f)
    BY UnmapMany, Types
  <2>4. U(M2, f) \in Nat /\ U(map, f) \in Nat /\ Q(fork.pend, f) \in Nat
    BY Numbers, Types DEF ForkType
  <2> HIDE DEF n
  <2> QED BY <2>1, <2>2, <2>3, <2>4
<1>2. Drops(p, R) = [f \in Frames |-> Drops(p, R)[f]]
  BY DEF Drops
<1> QED BY <1>1, <1>2

LEMMA ReleaseShape ==
    ASSUME NEW p, NEW R, Release(p, R), NEW d, d = Drops(p, R)
    PROVE  /\ count' = CountsLeft(cache, count, d)
           /\ free' = free \cup Gone(cache, count, d)
           /\ cache' = Without(cache, Gone(cache, count, d))
<1> DEFINE D(f) == MapsOf(p, R, f)
<1>1. \A f \in Frames : d[f] = D(f)
  BY DEF Drops
<1>2. FreedBy(D) = Gone(cache, count, d)
  <2>1. \A f \in Frames : Left(f, D(f)) = (IF count[f] < 2 THEN 1 ELSE count[f]) - d[f] - Keeps(cache, f)
    BY <1>1 DEF Left, Cached, Keeps
  <2> QED BY <1>1, <2>1 DEF FreedBy, Gone
<1>3. count' = CountAfter(D) /\ free' = FreeAfter(D) /\ cache' = CacheAfter(D)
  BY DEF Release
<1>4. count' = CountsLeft(cache, count, d)
  BY <1>1, <1>2, <1>3 DEF CountAfter, CountsLeft
<1> QED BY <1>2, <1>3, <1>4 DEF FreeAfter, CacheAfter, Uncache, Without

\* The pages R of p go and nothing else changes in the page tables.
LEMMA ReleaseKeeps ==
    ASSUME CowInv, NEW p \in Procs, NEW R \in SUBSET Pages, Release(p, R), MapType(map'),
           \A q \in Procs, w \in Pages : map'[q][w] = map[q][w] \/ (q = p /\ map'[q][w] = NoFrame),
           \A w \in R : map'[p][w] = NoFrame,
           rw' \in [Procs -> SUBSET Pages],
           \A q \in Procs : \A w \in rw'[q] : w \in rw[q] /\ map'[q][w] = map[q][w]
    PROVE  FramesOK(map', fork.pend, cache', count', free') /\ WritesOK(map', rw', count')
<1> DEFINE d == Drops(p, R)
<1>1. FramesOK(map, fork.pend, cache, count, free) /\ fork.pend \in Seq(Entries)
  BY Types DEF CowInv, ForkType
<1>2. /\ d \in [Frames -> Nat]
      /\ \A f \in Frames : U(map', f) + Q(fork.pend, f) + d[f] <= U(map, f) + Q(fork.pend, f)
  BY DropsFacts
<1>3. /\ count' = CountsLeft(cache, count, d)
      /\ free' = free \cup Gone(cache, count, d)
      /\ cache' = Without(cache, Gone(cache, count, d))
  BY ReleaseShape
<1> HIDE DEF d
<1>4. /\ FramesOK(map', fork.pend, Without(cache, Gone(cache, count, d)), CountsLeft(cache, count, d),
                  free \cup Gone(cache, count, d))
      /\ \A f \in Frames : CountsLeft(cache, count, d)[f] <= count[f]
  BY <1>1, <1>2, DroppedFrames
<1>5. FramesOK(map', fork.pend, cache', count', free') /\ \A f \in Frames : count'[f] <= count[f]
  BY <1>3, <1>4
<1>6. ASSUME NEW q \in Procs, NEW w \in rw'[q]
      PROVE  map'[q][w] # NoFrame /\ count'[map'[q][w]] < 2
  <2>1. w \in Pages /\ map[q][w] # NoFrame /\ count[map[q][w]] < 2 /\ map'[q][w] = map[q][w]
    BY DEF CowInv, WritesOK
  <2>2. map[q][w] \in Frames
    BY <2>1, LoneIsAlone
  <2>3. count'[map[q][w]] \in Nat /\ count[map[q][w]] \in Nat /\ count'[map[q][w]] <= count[map[q][w]]
    BY <1>5, <2>2, Types DEF FramesOK
  <2> QED BY <2>1, <2>3
<1>7. WritesOK(map', rw', count')
  BY <1>6 DEF WritesOK
<1> QED BY <1>5, <1>7

LEMMA UnmapShape ==
    ASSUME CowInv, NEW p \in Procs, NEW v \in Pages, Unmap(p, {v})
    PROVE  /\ MapType(map') /\ rw' \in [Procs -> SUBSET Pages] /\ Quieter
           /\ map'[p][v] = NoFrame
           /\ \A q \in Procs, w \in Pages :
                 q # p \/ w # v => map'[q][w] = map[q][w] /\ (w \in rw'[q] <=> w \in rw[q])
           /\ \A q \in Procs : \A w \in rw'[q] : w \in rw[q] /\ map'[q][w] = map[q][w]
           /\ \A q \in Procs \ {p} : map'[q] = map[q] /\ rw'[q] = rw[q]
<1>1. /\ map' = [map EXCEPT ![p] = [w \in Pages |-> IF w \in {v} THEN NoFrame ELSE map[p][w]]]
      /\ rw' = [rw EXCEPT ![p] = @ \ {v}]
      /\ tlb' = Flushed(p, {v})
  BY DEF Unmap
<1>2. /\ MapType(map') /\ map'[p][v] = NoFrame
      /\ \A q \in Procs, w \in Pages : q # p \/ w # v => map'[q][w] = map[q][w]
      /\ \A q \in Procs \ {p} : map'[q] = map[q]
  BY <1>1, Types DEF MapType
<1>3. /\ rw' \in [Procs -> SUBSET Pages] /\ v \notin rw'[p]
      /\ \A q \in Procs, w \in Pages : q # p \/ w # v => (w \in rw'[q] <=> w \in rw[q])
      /\ \A q \in Procs \ {p} : rw'[q] = rw[q]
  BY <1>1, Types
<1>4. Quieter
  BY <1>1, FlushQuiets, Types
<1> QED BY <1>2, <1>3, <1>4

LEMMA UnmapKeeps ==
    ASSUME CowInv, NEW p \in alive, NEW v \in Pages, fork.phase # "copy",
           prot' = [prot EXCEPT ![p][v] = "none"], Release(p, {v}), Unmap(p, {v}),
           UNCHANGED <<alive, fork>>, fill' \in [Procs -> FillType],
           fill'[p] = NoFill \/ (fill'[p] = fill[p] /\ fill[p].page # v),
           \A q \in Procs \ {p} : fill'[q] = fill[q]
    PROVE  CowInv'
<1>0. p \in Procs
  BY Types
<1>1. /\ MapType(map') /\ rw' \in [Procs -> SUBSET Pages] /\ Quieter
      /\ map'[p][v] = NoFrame
      /\ \A q \in Procs, w \in Pages :
            q # p \/ w # v => map'[q][w] = map[q][w] /\ (w \in rw'[q] <=> w \in rw[q])
      /\ \A q \in Procs : \A w \in rw'[q] : w \in rw[q] /\ map'[q][w] = map[q][w]
      /\ \A q \in Procs \ {p} : map'[q] = map[q] /\ rw'[q] = rw[q]
  BY <1>0, UnmapShape
<1>2. FramesOK(map', fork.pend, cache', count', free') /\ WritesOK(map', rw', count')
  <2>1. /\ \A q \in Procs, w \in Pages : map'[q][w] = map[q][w] \/ (q = p /\ map'[q][w] = NoFrame)
        /\ \A w \in {v} : map'[p][w] = NoFrame
        /\ {v} \in SUBSET Pages
    BY <1>1
  <2> QED BY <1>0, <1>1, <2>1, ReleaseKeeps
<1>3. prot' \in [Procs -> [Pages -> {"none", "r", "rw"}]]
      /\ \A q \in Procs, w \in Pages : q # p \/ w # v => prot'[q][w] = prot[q][w]
  BY <1>0, Types
<1>4. FillOK'
  <2>1. \A q \in Procs : fill'[q] = NoFill \/ (fill'[q] = fill[q] /\ Same(q, fill[q].page))
    BY <1>0, <1>1, <1>3, Types DEF Same, FillType
  <2> QED BY <2>1, FillKept DEF CowInv
<1>5. fork.by = p => fill'[p] = NoFill
  BY <1>0, CowAssumption DEF CowInv, ForkOK
<1> QED BY <1>1, <1>2, <1>3, <1>4, <1>5, OutsideCopy

LEMMA MunmapKeeps ==
    ASSUME CowInv, NEW p \in Procs, NEW v \in Pages, Munmap(p, v)
    PROVE  CowInv'
<1>1. /\ p \in alive /\ fork.phase # "copy" /\ (fill[p] = NoFill \/ fill[p].page # v)
      /\ prot' = [prot EXCEPT ![p][v] = "none"] /\ Release(p, {v}) /\ Unmap(p, {v})
      /\ UNCHANGED <<alive, fork, fill>>
  BY DEF Munmap, Kernel, Settled
<1>2. /\ fill' \in [Procs -> FillType]
      /\ fill'[p] = NoFill \/ (fill'[p] = fill[p] /\ fill[p].page # v)
      /\ \A q \in Procs \ {p} : fill'[q] = fill[q]
  BY <1>1, Types
<1> QED BY <1>1, <1>2, UnmapKeeps

LEMMA MmapOverFailsKeeps ==
    ASSUME CowInv, NEW p \in Procs, MmapOverFails(p)
    PROVE  CowInv'
<1> DEFINE v == fill[p].page
<1>1. /\ p \in alive /\ fork.phase # "copy"
      /\ fill' = [fill EXCEPT ![p] = NoFill]
      /\ prot' = [prot EXCEPT ![p][v] = "none"] /\ Release(p, {v}) /\ Unmap(p, {v})
      /\ UNCHANGED <<alive, fork>>
  BY DEF MmapOverFails, Kernel
<1>2. v \in Pages
  BY Types DEF FillType
<1> HIDE DEF v
<1>3. /\ fill' \in [Procs -> FillType] /\ fill'[p] = NoFill
      /\ \A q \in Procs \ {p} : fill'[q] = fill[q]
  BY <1>1, Types, CowAssumption DEF FillType, NoFill
<1> QED BY <1>1, <1>2, <1>3, UnmapKeeps

LEMMA ExitKeeps ==
    ASSUME CowInv, NEW p \in Procs, Exit(p)
    PROVE  CowInv'
<1>1. /\ p \in alive /\ fork.phase # "copy" /\ fork.by # p
      /\ alive' = alive \ {p} /\ Release(p, Reserved(p))
      /\ map' = [map EXCEPT ![p] = Nothing]
      /\ rw' = [rw EXCEPT ![p] = {}]
      /\ tlb' = [tlb EXCEPT ![p] = Nothing]
      /\ prot' = [prot EXCEPT ![p] = OnlyStack]
      /\ fill' = [fill EXCEPT ![p] = NoFill]
      /\ UNCHANGED fork
  BY DEF Exit, Kernel, GateOpen
<1>2. /\ MapType(map') /\ map'[p] = Nothing
      /\ \A w \in Pages : map'[p][w] = NoFrame
      /\ \A q \in Procs \ {p} : map'[q] = map[q]
  BY <1>1, Types DEF MapType, Nothing
<1>3. /\ rw' \in [Procs -> SUBSET Pages] /\ rw'[p] = {}
      /\ \A q \in Procs \ {p} : rw'[q] = rw[q]
  BY <1>1, Types
<1>4. /\ fill' \in [Procs -> FillType] /\ fill'[p] = NoFill
      /\ \A q \in Procs \ {p} : fill'[q] = fill[q]
  BY <1>1, Types, CowAssumption DEF FillType, NoFill
<1>5. /\ prot' \in [Procs -> [Pages -> {"none", "r", "rw"}]]
      /\ \A q \in Procs \ {p} : prot'[q] = prot[q]
  BY <1>1, Types DEF OnlyStack
<1>6. FramesOK(map', fork.pend, cache', count', free') /\ WritesOK(map', rw', count')
  <2>1. /\ \A q \in Procs, w \in Pages : map'[q][w] = map[q][w] \/ (q = p /\ map'[q][w] = NoFrame)
        /\ \A w \in Reserved(p) : map'[p][w] = NoFrame
        /\ Reserved(p) \in SUBSET Pages
    BY <1>2 DEF Reserved
  <2>2. \A q \in Procs : \A w \in rw'[q] : w \in rw[q] /\ map'[q][w] = map[q][w]
    BY <1>2, <1>3
  <2>3. Release(p, Reserved(p)) /\ MapType(map') /\ rw' \in [Procs -> SUBSET Pages]
    BY <1>1, <1>2, <1>3
  <2> QED BY <2>1, <2>2, <2>3, ReleaseKeeps
<1>7. FillOK'
  <2>1. \A q \in Procs : fill'[q] = NoFill \/ (fill'[q] = fill[q] /\ Same(q, fill[q].page))
    BY <1>2, <1>3, <1>4, <1>5 DEF Same
  <2> QED BY <1>4, <2>1, FillKept DEF CowInv
<1>8. Quieter
  BY <1>1, FlushQuiets, Types
<1> QED BY <1>1, <1>2, <1>3, <1>4, <1>5, <1>6, <1>7, <1>8, OutsideCopy, ZenonT(30)

-----------------------------------------------------------------------------
(* fork().                                                                 *)

LEMMA ForkTableKeeps ==
    ASSUME CowInv, NEW p \in Procs, NEW c \in Procs, ForkTable(p, c)
    PROVE  CowInv'
<1>1. /\ p \in alive /\ fork = NoFork /\ fill[p] = NoFill /\ c \notin alive
      /\ prot' = [prot EXCEPT ![c] = prot[p]]
      /\ fork' = [NoFork EXCEPT !.by = p, !.child = c, !.phase = "table"]
      /\ UNCHANGED <<alive, map, rw, tlb, count, free, cache, fill>>
  BY DEF ForkTable, Kernel, frameVars
<1>2. /\ fork' = [by |-> p, child |-> c, todo |-> {}, pend |-> <<>>, ok |-> TRUE, phase |-> "table"]
      /\ fork.pend = <<>> /\ fork.phase = "none"
  BY <1>1 DEF NoFork
<1>3. FramesOK(map', fork'.pend, cache', count', free') /\ WritesOK(map', rw', count')
  BY <1>1, <1>2 DEF CowInv
<1>4. TlbOK'
  BY <1>1, <1>2 DEF CowInv, TlbOK
<1>5. prot' \in [Procs -> [Pages -> {"none", "r", "rw"}]] /\ \A q \in Procs \ {c} : prot'[q] = prot[q]
  BY <1>1, Types
<1>6. ProcessesOK'
  BY <1>1, <1>2, <1>5 DEF CowInv, ProcessesOK
<1>7. FillOK'
  <2>1. fill[c] = NoFill
    BY <1>1 DEF CowInv, ProcessesOK
  <2>2. \A q \in Procs : fill'[q] = NoFill \/ (fill'[q] = fill[q] /\ Same(q, fill[q].page))
    BY <1>1, <1>5, <2>1 DEF Same
  <2> QED BY <1>1, <2>2, FillKept, Types DEF CowInv
<1>8. ForkOK'
  <2>1. PendOK(map'[fork'.child], fork'.todo, fork'.pend, count')
    BY <1>2 DEF PendOK
  <2>2. fork' \in ForkType
    BY <1>2 DEF ForkType
  <2>3. fork'.by = p /\ fork'.child = c /\ fork'.todo = {} /\ fork'.pend = <<>> /\ fork'.phase = "table"
    BY <1>2
  <2>4. p \in alive' /\ fill'[p] = NoFill /\ c \in Procs \ alive'
    BY <1>1
  <2> QED BY <2>1, <2>2, <2>3, <2>4 DEF ForkOK
<1> QED BY <1>3, <1>4, <1>6, <1>7, <1>8 DEF CowInv

LEMMA ForkCopyKeeps == ASSUME CowInv, ForkCopy PROVE CowInv'
<1> DEFINE T == {v \in Reserved(fork.by) : map[fork.by][v] # NoFrame}
<1>1. /\ fork.phase = "table" /\ fork' = [fork EXCEPT !.phase = "copy", !.todo = T]
      /\ UNCHANGED <<alive, prot, map, rw, tlb, count, free, cache, fill>>
  BY DEF ForkCopy, frameVars, pageVars
<1>2. T \subseteq Pages
  BY DEF Reserved
<1>3. /\ fork' \in ForkType /\ fork'.phase = "copy" /\ fork'.todo = T /\ fork'.pend = fork.pend
      /\ fork'.by = fork.by /\ fork'.child = fork.child
  BY <1>1, <1>2, Types DEF ForkType
<1>4. /\ fork.by \in alive /\ fill[fork.by] = NoFill /\ fork.child \in Procs \ alive
      /\ fork.pend = <<>>
  BY <1>1 DEF CowInv, ForkOK
<1>5. map[fork.child] = Nothing
  BY <1>1, <1>4 DEF CowInv, ProcessesOK
<1>6. FramesOK(map', fork'.pend, cache', count', free') /\ WritesOK(map', rw', count')
  BY <1>1, <1>3 DEF CowInv
<1>7. TlbOK'
  BY <1>1 DEF CowInv, TlbOK
<1>8. ProcessesOK'
  BY <1>1, <1>3 DEF CowInv, ProcessesOK
<1>9. FillOK'
  BY <1>1 DEF CowInv, FillOK
<1>10. ForkOK'
  <2>1. PendOK(map'[fork'.child], fork'.todo, fork'.pend, count')
    BY <1>3, <1>4 DEF PendOK
  <2>2. \A v \in fork'.todo : map'[fork'.by][v] # NoFrame /\ map'[fork'.child][v] = NoFrame
    BY <1>1, <1>2, <1>3, <1>5 DEF Nothing
  <2> QED BY <1>1, <1>3, <1>4, <2>1, <2>2 DEF ForkOK
<1> QED BY <1>6, <1>7, <1>8, <1>9, <1>10 DEF CowInv

LEMMA CopyFacts ==
    ASSUME CowInv, fork.phase = "copy"
    PROVE  /\ fork.by \in Procs /\ fork.child \in Procs /\ fork.by # fork.child
           /\ fork.by \in alive /\ fork.child \notin alive
           /\ fill[fork.by] = NoFill /\ fill[fork.child] = NoFill
           /\ fork.todo \subseteq Pages /\ fork.pend \in Seq(Entries)
           /\ \A v \in fork.todo : map[fork.by][v] \in Frames /\ map[fork.child][v] = NoFrame
           /\ PendOK(map[fork.child], fork.todo, fork.pend, count)
<1>1. fork.todo \subseteq Pages /\ fork.pend \in Seq(Entries) /\ alive \subseteq Procs
  BY Types DEF ForkType
<1>2. /\ fork.by \in alive /\ fill[fork.by] = NoFill /\ fork.child \in Procs \ alive
      /\ PendOK(map[fork.child], fork.todo, fork.pend, count)
      /\ \A v \in fork.todo : map[fork.by][v] # NoFrame /\ map[fork.child][v] = NoFrame
  BY DEF CowInv, ForkOK
<1>3. fill[fork.child] = NoFill
  BY <1>2 DEF CowInv, ProcessesOK
<1>4. \A v \in fork.todo : map[fork.by][v] \in Frames
  BY <1>1, <1>2, Types DEF MapType
<1> QED BY <1>1, <1>2, <1>3, <1>4

LEMMA PendMore ==
    ASSUME NEW C, NEW T, NEW P \in Seq(Entries), NEW N, PendOK(C, T, P, N), NEW v \in T, C[v] = NoFrame,
           NEW e \in Entries, e.page = v, NEW N2, e.rw => N2[e.frame] < 2,
           \A i \in DOMAIN P : P[i].rw => N2[P[i].frame] < 2
    PROVE  PendOK(C, T \ {v}, Collected(P, e), N2)
<1> DEFINE P2 == Collected(P, e)
           n == Len(P) + 1
<1>1. /\ DOMAIN P = 1 .. Len(P) /\ DOMAIN P2 = 1 .. n /\ Len(P) \in Nat
      /\ P2[n] = e /\ \A i \in DOMAIN P : P2[i] = P[i]
      /\ \A i \in DOMAIN P2 : i = n \/ i \in DOMAIN P
  BY DEF Collected
<1> HIDE DEF P2, n
<1>2. ASSUME NEW i \in DOMAIN P2
      PROVE  /\ P2[i].page \notin T \ {v}
             /\ C[P2[i].page] = NoFrame
             /\ P2[i].rw => N2[P2[i].frame] < 2
             /\ \A j \in DOMAIN P2 : P2[i].page = P2[j].page => i = j
  <2>1. \A j \in DOMAIN P : P[j].page \notin T /\ P[j].page # v
    BY DEF PendOK
  <2>2. CASE i = n
    BY <1>1, <2>1, <2>2
  <2>3. CASE i \in DOMAIN P
    BY <1>1, <2>1, <2>3 DEF PendOK
  <2> QED BY <1>1, <2>2, <2>3
<1>3. PendOK(C, T \ {v}, P2, N2)
  BY <1>2 DEF PendOK
<1> QED BY <1>3 DEF P2

\* What has to be shown of a step of the copy that goes on copying.
LEMMA InsideCopy ==
    ASSUME CowInv, fork.phase = "copy", UNCHANGED <<alive, prot, fill>>,
           fork' \in ForkType, fork'.phase = "copy", fork'.by = fork.by, fork'.child = fork.child,
           FramesOK(map', fork'.pend, cache', count', free'), WritesOK(map', rw', count'),
           \A q \in Procs \ {fork.child} : map'[q] = map[q] /\ rw'[q] \subseteq rw[q],
           fork'.todo \subseteq fork.todo,
           \A v \in fork'.todo : map'[fork.child][v] = NoFrame,
           PendOK(map'[fork.child], fork'.todo, fork'.pend, count'),
           TlbOK'
    PROVE  CowInv'
<1>1. /\ fork.by \in Procs /\ fork.child \in Procs /\ fork.by # fork.child
      /\ fork.by \in alive /\ fork.child \notin alive
      /\ fill[fork.by] = NoFill /\ fill[fork.child] = NoFill
      /\ \A v \in fork.todo : map[fork.by][v] \in Frames
  BY CopyFacts
<1>2. ProcessesOK'
  <2> SUFFICES ASSUME NEW q \in Procs \ alive
               PROVE  fill[q] = NoFill /\ (q # fork.child => map'[q] = Nothing /\ rw'[q] = {})
    BY Types DEF ProcessesOK
  <2>1. fill[q] = NoFill /\ (q # fork.child => map[q] = Nothing /\ rw[q] = {})
    BY DEF CowInv, ProcessesOK
  <2> QED BY <2>1
<1>3. FillOK'
  <2>1. \A q \in Procs : fill'[q] = NoFill \/ (fill'[q] = fill[q] /\ Same(q, fill[q].page))
    BY <1>1 DEF Same
  <2> QED BY <2>1, FillKept, Types DEF CowInv
<1>4. ForkOK'
  <2>1. \A v \in fork'.todo : map'[fork'.by][v] # NoFrame
    <3>1. \A f \in Frames : f # NoFrame
      BY CowAssumption
    <3> QED BY <1>1, <3>1
  <2> QED BY <1>1, <2>1 DEF ForkOK
<1> QED BY <1>2, <1>3, <1>4 DEF CowInv

LEMMA ForkSharesKeeps == ASSUME CowInv, NEW v \in Pages, ForkShares(v) PROVE CowInv'
<1> DEFINE p == fork.by
           h == map[p][v]
           e == [page |-> v, frame |-> h, rw |-> FALSE]
<1>1. /\ fork.phase = "copy" /\ v \in fork.todo
      /\ count' = Counted(count, h, ShareCount(h))
      /\ rw' = [rw EXCEPT ![p] = @ \ {v}]
      /\ tlb' = [tlb EXCEPT ![p][v] = IF v \in rw[p] THEN h ELSE NoFrame]
      /\ fork' = [fork EXCEPT !.todo = @ \ {v}, !.pend = Collected(@, e)]
      /\ UNCHANGED <<alive, prot, map, free, cache, fill>>
  BY DEF ForkShares, Copying, ReadOnly, Pend, Counted, Collected
<1>2. /\ p \in Procs /\ h \in Frames /\ h # NoFrame /\ map[fork.child][v] = NoFrame
      /\ fork.todo \subseteq Pages /\ fork.pend \in Seq(Entries)
      /\ \A w \in fork.todo : map[fork.child][w] = NoFrame
      /\ PendOK(map[fork.child], fork.todo, fork.pend, count)
  BY <1>1, CopyFacts, CowAssumption
<1>3. e \in Entries /\ e.frame = h /\ e.page = v /\ ~e.rw
  BY <1>2 DEF Entries
<1>4. Collected(fork.pend, e) \in Seq(Entries)
  <2> HIDE DEF e
  <2> QED BY <1>2, <1>3 DEF Collected
<1>5. /\ fork' \in ForkType /\ fork'.phase = "copy" /\ fork'.by = fork.by /\ fork'.child = fork.child
      /\ fork'.todo = fork.todo \ {v} /\ fork'.pend = Collected(fork.pend, e)
  <2> HIDE DEF e
  <2> QED BY <1>1, <1>4, Types DEF ForkType
<1>6. FramesOK(map, fork.pend, cache, count, free) /\ WritesOK(map, rw, count)
  BY DEF CowInv
<1>7. U(map, h) >= 1
  BY <1>2, UsedBy
<1>8. /\ FramesOK(map, Collected(fork.pend, e), cache, count', free)
      /\ count[h] < 2 => Q(fork.pend, h) = 0
      /\ \A f \in Frames : f # h => count'[f] = count[f]
  <2>1. count' = Counted(count, h, ShareOf(count[h]))
    BY <1>1 DEF ShareCount, ShareOf
  <2> HIDE DEF h, e
  <2>2. h \in Frames /\ h = e.frame /\ e \in Entries /\ fork'.pend = Collected(fork.pend, e)
    BY <1>2, <1>3, <1>5
  <2>3. /\ FramesOK(map, fork'.pend, cache, count', free)
        /\ count[h] < 2 => Q(fork.pend, h) = 0
        /\ \A f \in Frames : f # h => count'[f] = count[f]
    BY <1>6, <1>7, <2>1, <2>2, PendedFrame
  <2> QED BY <2>2, <2>3
<1>9. /\ rw' \in [Procs -> SUBSET Pages] /\ v \notin rw'[p]
      /\ \A q \in Procs : rw'[q] \subseteq rw[q]
  BY <1>1, <1>2, Types
<1>10. WritesOK(map, rw', count')
  <2> SUFFICES ASSUME NEW q \in Procs, NEW w \in rw'[q]
               PROVE  map[q][w] # NoFrame /\ count'[map[q][w]] < 2
    BY <1>9 DEF WritesOK
  <2>1. w \in Pages /\ map[q][w] # NoFrame /\ count[map[q][w]] < 2
    BY <1>6, <1>9, Types DEF WritesOK
  <2>2. map[q][w] \in Frames /\ (map[p][v] = map[q][w] => p = q /\ v = w)
    BY <1>2, <2>1, LoneIsAlone
  <2>3. map[q][w] # h
    BY <1>9, <2>2
  <2> HIDE DEF h
  <2> QED BY <1>8, <2>1, <2>2, <2>3
<1>11. PendOK(map[fork.child], fork.todo \ {v}, Collected(fork.pend, e), count')
  <2>1. ASSUME NEW i \in DOMAIN fork.pend, fork.pend[i].rw
        PROVE  count'[fork.pend[i].frame] < 2
    <3>1. count[fork.pend[i].frame] < 2
      BY <1>2, <2>1 DEF PendOK
    <3>2. fork.pend[i].frame \in Frames
      <4>1. fork.pend[i] \in Entries
        BY <1>2
      <4> QED BY <4>1 DEF Entries
    <3>3. Q(fork.pend, fork.pend[i].frame) >= 1
      BY <1>2, PendedBy
    <3>4. fork.pend[i].frame # h
      BY <1>8, <3>1, <3>3
    <3> QED BY <1>8, <3>1, <3>2, <3>4
  <2> HIDE DEF e, h
  <2> QED BY <1>1, <1>2, <1>3, <2>1, PendMore
<1>12. TlbOK'
  <2>1. /\ MapType(tlb')
        /\ \A q \in Procs, w \in Pages : q # p \/ w # v => tlb'[q][w] = tlb[q][w]
        /\ tlb'[p][v] \in {h, NoFrame}
    BY <1>1, <1>2, Types DEF MapType
  <2>2. \A q \in Procs, w \in Pages : tlb'[q][w] # NoFrame => q = p /\ tlb'[q][w] = map[q][w]
    <3>1. \A q \in Procs, w \in Pages : tlb[q][w] # NoFrame => q = p /\ tlb[q][w] = map[q][w]
      BY DEF CowInv, TlbOK
    <3> QED BY <2>1, <3>1
  <2> QED BY <1>1, <1>5, <2>1, <2>2 DEF TlbOK
<1>13. /\ UNCHANGED <<alive, prot, fill>>
       /\ FramesOK(map', fork'.pend, cache', count', free') /\ WritesOK(map', rw', count')
       /\ \A q \in Procs \ {fork.child} : map'[q] = map[q] /\ rw'[q] \subseteq rw[q]
       /\ fork'.todo \subseteq fork.todo
       /\ \A w \in fork'.todo : map'[fork.child][w] = NoFrame
       /\ PendOK(map'[fork.child], fork'.todo, fork'.pend, count')
  <2> HIDE DEF e, h, p
  <2> QED BY <1>1, <1>2, <1>5, <1>8, <1>9, <1>10, <1>11
<1>14. fork.phase = "copy"
  BY <1>1
<1> HIDE DEF e, h, p
<1> QED BY <1>5, <1>12, <1>13, <1>14, InsideCopy

LEMMA ForkCopiesKeeps ==
    ASSUME CowInv, NEW v \in Pages, NEW g \in Frames, ForkCopies(v, g) PROVE CowInv'
<1> DEFINE isRw == prot[fork.by][v] = "rw"
           e == [page |-> v, frame |-> g, rw |-> isRw]
<1>1. /\ fork.phase = "copy" /\ v \in fork.todo /\ g \in free /\ free' = free \ {g}
      /\ fork' = [fork EXCEPT !.todo = @ \ {v}, !.pend = Collected(@, e)]
      /\ UNCHANGED <<alive, prot, map, rw, tlb, count, cache, fill>>
  BY DEF ForkCopies, Copying, Pend, pageVars, Collected
<1>2. /\ map[fork.child][v] = NoFrame
      /\ fork.todo \subseteq Pages /\ fork.pend \in Seq(Entries)
      /\ \A w \in fork.todo : map[fork.child][w] = NoFrame
      /\ PendOK(map[fork.child], fork.todo, fork.pend, count)
  BY <1>1, CopyFacts
<1>3. e \in Entries /\ e.frame = g /\ e.page = v
  <2>1. isRw \in BOOLEAN
    OBVIOUS
  <2> HIDE DEF isRw
  <2> QED BY <2>1 DEF Entries
<1> HIDE DEF e
<1>4. Collected(fork.pend, e) \in Seq(Entries)
  BY <1>2, <1>3 DEF Collected
<1>5. /\ fork' \in ForkType /\ fork'.phase = "copy" /\ fork'.by = fork.by /\ fork'.child = fork.child
      /\ fork'.todo = fork.todo \ {v} /\ fork'.pend = Collected(fork.pend, e)
  BY <1>1, <1>4, Types DEF ForkType
<1>6. FramesOK(map, fork.pend, cache, count, free) /\ WritesOK(map, rw, count)
  BY DEF CowInv
<1>7. FramesOK(map, Collected(fork.pend, e), cache, count, free \ {g}) /\ count[g] = 0
  <2>1. e.frame \in free
    BY <1>1, <1>3
  <2>2. FramesOK(map, Collected(fork.pend, e), cache, count, free \ {e.frame}) /\ count[e.frame] = 0
    <3>1. FramesOK(map, fork'.pend, cache, count, free \ {e.frame}) /\ count[e.frame] = 0
      BY <1>3, <1>5, <1>6, <2>1, PendedCopy
    <3> QED BY <1>5, <3>1
  <2> QED BY <1>3, <2>2
<1>8. PendOK(map[fork.child], fork.todo \ {v}, Collected(fork.pend, e), count)
  <2>1. \A i \in DOMAIN fork.pend : fork.pend[i].rw => count[fork.pend[i].frame] < 2
    BY <1>2 DEF PendOK
  <2>2. e.rw => count[e.frame] < 2
    BY <1>3, <1>7
  <2> QED BY <1>1, <1>2, <1>3, <2>1, <2>2, PendMore
<1>9. TlbOK'
  BY <1>1, <1>5 DEF CowInv, TlbOK
<1>10. /\ UNCHANGED <<alive, prot, fill>>
       /\ FramesOK(map', fork'.pend, cache', count', free') /\ WritesOK(map', rw', count')
       /\ \A q \in Procs \ {fork.child} : map'[q] = map[q] /\ rw'[q] \subseteq rw[q]
       /\ fork'.todo \subseteq fork.todo
       /\ \A w \in fork'.todo : map'[fork.child][w] = NoFrame
       /\ PendOK(map'[fork.child], fork'.todo, fork'.pend, count')
  BY <1>1, <1>2, <1>5, <1>6, <1>7, <1>8
<1>11. fork.phase = "copy"
  BY <1>1
<1> QED BY <1>5, <1>9, <1>10, <1>11, InsideCopy

LEMMA ForkRunsOutKeeps == ASSUME CowInv, NEW v \in Pages, ForkRunsOut(v) PROVE CowInv'
<1>1. /\ fork.phase = "copy"
      /\ fork' = [fork EXCEPT !.ok = FALSE, !.todo = {}, !.pend = <<>>]
      /\ UNCHANGED <<alive, prot, map, rw, tlb, count, free, cache, fill>>
  BY DEF ForkRunsOut, Copying, pageVars, frameVars
<1>2. /\ fork' \in ForkType /\ fork'.phase = "copy" /\ fork'.by = fork.by /\ fork'.child = fork.child
      /\ fork'.todo = {} /\ fork'.pend = <<>>
  <2>1. <<>> \in Seq(Entries) /\ {} \in SUBSET Pages
    OBVIOUS
  <2> QED BY <1>1, <2>1, Types DEF ForkType
<1>3. FramesOK(map, <<>>, cache, count, free) /\ WritesOK(map, rw, count)
  BY LostEntries DEF CowInv
<1>4. TlbOK'
  BY <1>1, <1>2 DEF CowInv, TlbOK
<1>5. /\ UNCHANGED <<alive, prot, fill>>
      /\ FramesOK(map', fork'.pend, cache', count', free') /\ WritesOK(map', rw', count')
      /\ \A q \in Procs \ {fork.child} : map'[q] = map[q] /\ rw'[q] \subseteq rw[q]
      /\ fork'.todo \subseteq fork.todo
      /\ \A w \in fork'.todo : map'[fork.child][w] = NoFrame
  BY <1>1, <1>2, <1>3
<1>6. PendOK(map'[fork.child], fork'.todo, fork'.pend, count')
  BY <1>2 DEF PendOK
<1> QED BY <1>1, <1>2, <1>4, <1>5, <1>6, InsideCopy

\* Entries that are not bad become page-table entries of c.
LEMMA FlushCount ==
    ASSUME NEW M, NEW M2, NEW P \in Seq(Entries), NEW c \in Procs, NEW bad \in SUBSET DOMAIN P,
           \A q \in Procs \ {c} : M2[q] = M[q],
           \A w \in Pages : \/ M2[c][w] = M[c][w]
                            \/ \E i \in DOMAIN P \ bad : P[i].page = w /\ P[i].frame = M2[c][w],
           NEW f \in Frames
    PROVE  /\ Cardinality({i \in bad : P[i].frame = f}) \in Nat
           /\ U(M2, f) + Cardinality({i \in bad : P[i].frame = f}) <= U(M, f) + Q(P, f)
<1> DEFINE A == Uses(M2, f)
           B == Uses(M, f)
           S == Pends(P, f)
           X == {i \in bad : P[i].frame = f}
           G == {i \in DOMAIN P \ bad : P[i].frame = f}
           h == [i \in G |-> <<c, P[i].page>>]
           I == {h[i] : i \in G}
<1>1. IsFiniteSet(A) /\ IsFiniteSet(B)
  BY Numbers
<1>2. IsFiniteSet(S)
  BY Numbers
<1>3. S = G \cup X /\ G \cap X = {}
  BY DEF Pends
<1>4. A \subseteq B \cup I
  <2> SUFFICES ASSUME NEW z \in Procs \X Pages, M2[z[1]][z[2]] = f, M[z[1]][z[2]] # f
               PROVE  z \in I
    BY DEF Uses
  <2>1. z[1] \in Procs /\ z[2] \in Pages /\ z = <<z[1], z[2]>>
    OBVIOUS
  <2>2. z[1] = c
    BY <2>1
  <2>3. PICK i \in DOMAIN P \ bad : P[i].page = z[2] /\ P[i].frame = f
    BY <2>1, <2>2
  <2>4. i \in G /\ h[i] = z
    BY <2>1, <2>2, <2>3
  <2> QED BY <2>4
<1> HIDE DEF A, B, S, X
<1>5. IsFiniteSet(G) /\ IsFiniteSet(X)
  BY <1>2, <1>3, FS_Subset
<1>6. IsFiniteSet(I) /\ Cardinality(I) <= Cardinality(G)
  <2>1. h \in Surjection(G, I)
    BY ZenonT(30) DEF Surjection
  <2> QED BY <1>5, <2>1, FS_Surjection
<1> HIDE DEF G, I
<1>7. /\ Cardinality(A) \in Nat /\ Cardinality(B) \in Nat /\ Cardinality(I) \in Nat
      /\ Cardinality(G) \in Nat /\ Cardinality(X) \in Nat /\ Cardinality(S) \in Nat
      /\ Cardinality(B \cap I) \in Nat
  <2>1. IsFiniteSet(B \cap I)
    BY <1>1, FS_Subset
  <2> QED BY <1>1, <1>2, <1>5, <1>6, <2>1, FS_CardinalityType
<1>8. Cardinality(S) = Cardinality(G) + Cardinality(X)
  <2>1. Cardinality(G \cup X) = Cardinality(G) + Cardinality(X) - Cardinality(G \cap X)
    BY <1>5, FS_Union
  <2>2. Cardinality(G \cap X) = 0
    BY <1>3, FS_EmptySet
  <2> QED BY <1>3, <1>7, <2>1, <2>2
<1>9. Cardinality(A) <= Cardinality(B) + Cardinality(I)
  <2>1. IsFiniteSet(B \cup I)
        /\ Cardinality(B \cup I) = Cardinality(B) + Cardinality(I) - Cardinality(B \cap I)
    BY <1>1, <1>6, FS_Union
  <2>2. Cardinality(A) <= Cardinality(B \cup I)
    BY <1>4, <2>1, FS_Subset
  <2> QED BY <1>7, <2>1, <2>2
<1>10. Cardinality(A) + Cardinality(X) <= Cardinality(B) + Cardinality(S)
  BY <1>6, <1>7, <1>8, <1>9
<1> QED BY <1>7, <1>10 DEF U, Q, A, B, S, X

Refused(P, bad) == [f \in Frames |-> Cardinality({i \in bad : P[i].frame = f})]

LEMMA FlushShape ==
    ASSUME NEW bad, VmFlush(bad), NEW d, d = Refused(fork.pend, bad)
    PROVE  /\ count' = CountsLeft(cache, count, d)
           /\ free' = free \cup Gone(cache, count, d)
           /\ cache' = Without(cache, Gone(cache, count, d))
<1> DEFINE D(f) == Cardinality({i \in bad : fork.pend[i].frame = f})
<1>1. \A f \in Frames : d[f] = D(f)
  BY DEF Refused
<1>2. FreedBy(D) = Gone(cache, count, d)
  <2>1. \A f \in Frames : Left(f, D(f)) = (IF count[f] < 2 THEN 1 ELSE count[f]) - d[f] - Keeps(cache, f)
    BY <1>1 DEF Left, Cached, Keeps
  <2> QED BY <1>1, <2>1 DEF FreedBy, Gone
<1>3. count' = CountAfter(D) /\ free' = FreeAfter(D) /\ cache' = CacheAfter(D)
  BY DEF VmFlush
<1>4. count' = CountsLeft(cache, count, d)
  BY <1>1, <1>2, <1>3 DEF CountAfter, CountsLeft
<1> QED BY <1>2, <1>3, <1>4 DEF FreeAfter, CacheAfter, Uncache, Without

LEMMA VmFlushKeeps ==
    ASSUME CowInv, NEW bad \in SUBSET DOMAIN fork.pend, VmFlush(bad) PROVE CowInv'
<1> DEFINE P == fork.pend
           c == fork.child
           good == DOMAIN P \ bad
           At(v) == CHOOSE i \in good : P[i].page = v
           new == {P[i].page : i \in good}
           d == Refused(P, bad)
<1>1. /\ fork.phase = "copy"
      /\ map' = [map EXCEPT ![c] = [v \in Pages |-> IF v \in new THEN P[At(v)].frame ELSE map[c][v]]]
      /\ rw' = [rw EXCEPT ![c] = rw[c] \cup {v \in new : P[At(v)].rw}]
      /\ fork' = [fork EXCEPT !.pend = <<>>, !.ok = (bad = {}),
                              !.todo = IF bad = {} THEN fork.todo ELSE {}]
      /\ UNCHANGED <<alive, prot, tlb, fill>>
  BY DEF VmFlush
<1>2. /\ c \in Procs /\ c # fork.by /\ fork.by \in Procs
      /\ fork.todo \subseteq Pages /\ P \in Seq(Entries)
      /\ \A w \in fork.todo : map[c][w] = NoFrame
      /\ PendOK(map[c], fork.todo, P, count)
  BY <1>1, CopyFacts
<1>3. \A i \in DOMAIN P : P[i] \in Entries
  BY <1>2
<1>4. \A i \in DOMAIN P : P[i].page \in Pages /\ P[i].frame \in Frames
  BY <1>3 DEF Entries
<1>5. new \subseteq Pages /\ \A v \in new : At(v) \in good /\ P[At(v)].page = v
  BY <1>4
<1> HIDE DEF new, At
<1>6. /\ map' \in [Procs -> [Pages -> Frames \cup {NoFrame}]]
      /\ \A q \in Procs \ {c} : map'[q] = map[q]
      /\ \A w \in Pages : map'[c][w] = IF w \in new THEN P[At(w)].frame ELSE map[c][w]
  <2>1. [v \in Pages |-> IF v \in new THEN P[At(v)].frame ELSE map[c][v]]
           \in [Pages -> Frames \cup {NoFrame}]
    BY <1>2, <1>4, <1>5, Types DEF MapType
  <2> QED BY <1>1, <1>2, <2>1, Types DEF MapType
<1>7. /\ rw' \in [Procs -> SUBSET Pages]
      /\ \A q \in Procs \ {c} : rw'[q] = rw[q]
      /\ \A w \in rw'[c] : w \in rw[c] \/ (w \in new /\ P[At(w)].rw)
  BY <1>1, <1>2, <1>5, Types
<1>8. /\ fork' \in ForkType /\ fork'.phase = "copy" /\ fork'.by = fork.by /\ fork'.child = c
      /\ fork'.todo \subseteq fork.todo /\ fork'.pend = <<>>
  <2>1. <<>> \in Seq(Entries) /\ {} \in SUBSET Pages /\ (bad = {}) \in BOOLEAN
    OBVIOUS
  <2> QED BY <1>1, <2>1, Types DEF ForkType
<1>9. /\ d \in [Frames -> Nat]
      /\ \A f \in Frames : U(map', f) + Q(<<>>, f) + d[f] <= U(map, f) + Q(P, f)
  <2>1. \A w \in Pages : \/ map'[c][w] = map[c][w]
                         \/ \E i \in DOMAIN P \ bad : P[i].page = w /\ P[i].frame = map'[c][w]
    BY <1>5, <1>6
  <2>2. ASSUME NEW f \in Frames
        PROVE  d[f] \in Nat /\ U(map', f) + Q(<<>>, f) + d[f] <= U(map, f) + Q(P, f)
    <3>1. d[f] = Cardinality({i \in bad : P[i].frame = f})
      BY DEF Refused
    <3>2. d[f] \in Nat /\ U(map', f) + d[f] <= U(map, f) + Q(P, f)
      <4>1. /\ P \in Seq(Entries) /\ c \in Procs /\ bad \in SUBSET DOMAIN P
            /\ \A q \in Procs \ {c} : map'[q] = map[q]
        BY <1>2, <1>6
      <4> DEFINE n == Cardinality({i \in bad : P[i].frame = f})
      <4> HIDE DEF P, c
      <4>2. n \in Nat /\ U(map', f) + n <= U(map, f) + Q(P, f)
        BY <2>1, <4>1, FlushCount
      <4> QED BY <3>1, <4>2
    <3>3. Q(<<>>, f) = 0 /\ U(map', f) \in Nat
      BY Numbers
    <3> QED BY <3>2, <3>3
  <2>3. d = [f \in Frames |-> d[f]]
    BY DEF Refused
  <2> QED BY <2>2, <2>3
<1>10. /\ FramesOK(map', <<>>, cache', count', free')
       /\ \A f \in Frames : count'[f] <= count[f]
  <2>1. /\ count' = CountsLeft(cache, count, d)
        /\ free' = free \cup Gone(cache, count, d)
        /\ cache' = Without(cache, Gone(cache, count, d))
    BY FlushShape
  <2>2. FramesOK(map, P, cache, count, free) /\ MapType(map') /\ <<>> \in Seq(Entries)
    BY <1>6 DEF CowInv, MapType
  <2> HIDE DEF d, P
  <2>3. /\ FramesOK(map', <<>>, Without(cache, Gone(cache, count, d)), CountsLeft(cache, count, d),
                    free \cup Gone(cache, count, d))
        /\ \A f \in Frames : CountsLeft(cache, count, d)[f] <= count[f]
    BY <1>9, <2>2, DroppedFrames
  <2> QED BY <2>1, <2>3
<1>11. \A i \in DOMAIN P : /\ P[i].page \notin fork.todo /\ map[c][P[i].page] = NoFrame
                           /\ P[i].rw => count[P[i].frame] < 2
  BY <1>2 DEF PendOK
<1>12. \A f \in Frames : f # NoFrame /\ count[f] \in Nat /\ count'[f] \in Nat
  BY <1>10, CowAssumption, Types DEF FramesOK
<1>13. WritesOK(map', rw', count')
  <2> SUFFICES ASSUME NEW q \in Procs, NEW w \in rw'[q]
               PROVE  map'[q][w] # NoFrame /\ count'[map'[q][w]] < 2
    BY <1>7 DEF WritesOK
  <2>0. w \in Pages
    BY <1>7
  <2>1. CASE q = c /\ w \in new /\ P[At(w)].rw
    <3>1. /\ map'[q][w] = P[At(w)].frame /\ At(w) \in DOMAIN P /\ P[At(w)].frame \in Frames
          /\ count[P[At(w)].frame] < 2
      BY <1>4, <1>5, <1>6, <1>11, <2>0, <2>1
    <3> QED BY <1>10, <1>12, <3>1
  <2>2. CASE w \in rw[q]
    <3>1. map[q][w] # NoFrame /\ count[map[q][w]] < 2
      BY <2>2 DEF CowInv, WritesOK
    <3>2. map[q][w] \in Frames
      BY <2>0, <3>1, LoneIsAlone
    <3>3. q = c => w \notin new
      BY <1>5, <1>11, <3>1
    <3>4. map'[q][w] = map[q][w]
      BY <1>6, <2>0, <3>3
    <3> QED BY <1>10, <1>12, <3>1, <3>2, <3>4
  <2> QED BY <1>7, <2>1, <2>2
<1>14. TlbOK'
  <2>1. \A q \in Procs, w \in Pages :
           tlb[q][w] # NoFrame => q = fork.by /\ tlb[q][w] = map[q][w]
    BY DEF CowInv, TlbOK
  <2> QED BY <1>1, <1>2, <1>6, <1>8, <2>1, Types DEF TlbOK
<1>15. \A w \in fork'.todo : map'[c][w] = NoFrame
  BY <1>2, <1>5, <1>6, <1>8, <1>11
<1>16. PendOK(map'[c], fork'.todo, fork'.pend, count')
  BY <1>8 DEF PendOK
<1>17. /\ fork.phase = "copy" /\ UNCHANGED <<alive, prot, fill>>
       /\ FramesOK(map', fork'.pend, cache', count', free')
       /\ \A q \in Procs \ {c} : map'[q] = map[q] /\ rw'[q] \subseteq rw[q]
  BY <1>1, <1>6, <1>7, <1>8, <1>10
<1> HIDE DEF P, d
<1> QED BY <1>8, <1>13, <1>14, <1>15, <1>16, <1>17, InsideCopy

LEMMA NoForkOK ==
    ASSUME fork' = NoFork
    PROVE  ForkOK' /\ fork'.phase = "none" /\ fork'.pend = <<>>
<1>1. /\ fork'.by = NoProc /\ fork'.phase = "none" /\ fork'.todo = {} /\ fork'.pend = <<>>
      /\ fork' \in ForkType
  BY DEF NoFork, ForkType
<1>2. PendOK(map'[fork'.child], fork'.todo, fork'.pend, count')
  BY <1>1 DEF PendOK
<1> QED BY <1>1, <1>2 DEF ForkOK

\* The flush that ends a copy leaves no translation behind.
LEMMA FlushEnds ==
    ASSUME CowInv, fork.phase = "copy", tlb' = FlushedAll PROVE TlbOK'
<1>1. fork.by \in Procs
  BY CopyFacts
<1>2. \A q \in Procs, w \in Pages : tlb[q][w] # NoFrame => q = fork.by
  BY DEF CowInv, TlbOK
<1>3. MapType(tlb') /\ \A q \in Procs, w \in Pages : tlb'[q][w] = NoFrame
  BY <1>1, <1>2, Types DEF MapType, FlushedAll, Nothing
<1> QED BY <1>3 DEF TlbOK

LEMMA ForkEndsKeeps == ASSUME CowInv, ForkEnds PROVE CowInv'
<1>1. /\ fork.phase = "copy" /\ fork.pend = <<>>
      /\ alive' = alive \cup {fork.child} /\ tlb' = FlushedAll /\ fork' = NoFork
      /\ UNCHANGED <<prot, map, rw, count, free, cache, fill>>
  BY DEF ForkEnds, Copied, frameVars
<1>2. ForkOK' /\ fork'.phase = "none" /\ fork'.pend = <<>>
  BY <1>1, NoForkOK
<1>3. TlbOK'
  BY <1>1, FlushEnds
<1>4. fork.child \in Procs
  BY <1>1, CopyFacts
<1>5. ProcessesOK'
  BY <1>1, <1>2, <1>4 DEF CowInv, ProcessesOK
<1>6. FillOK'
  BY <1>1 DEF CowInv, FillOK
<1>7. FramesOK(map', fork'.pend, cache', count', free') /\ WritesOK(map', rw', count')
  BY <1>1, <1>2 DEF CowInv
<1> QED BY <1>2, <1>3, <1>5, <1>6, <1>7 DEF CowInv

LEMMA ForkFailsKeeps == ASSUME CowInv, ForkFails PROVE CowInv'
<1> DEFINE c == fork.child
<1>1. /\ fork.phase = "copy" /\ fork.pend = <<>> /\ Release(c, Reserved(c))
      /\ map' = [map EXCEPT ![c] = Nothing]
      /\ rw' = [rw EXCEPT ![c] = {}]
      /\ prot' = [prot EXCEPT ![c] = OnlyStack]
      /\ tlb' = FlushedAll /\ fork' = NoFork
      /\ UNCHANGED <<alive, fill>>
  BY DEF ForkFails, Copied
<1>2. ForkOK' /\ fork'.phase = "none" /\ fork'.pend = <<>>
  BY <1>1, NoForkOK
<1>3. TlbOK'
  BY <1>1, FlushEnds
<1>4. c \in Procs /\ fill[c] = NoFill
  BY <1>1, CopyFacts
<1> HIDE DEF c
<1>5. /\ MapType(map') /\ map'[c] = Nothing
      /\ \A w \in Pages : map'[c][w] = NoFrame
      /\ \A q \in Procs \ {c} : map'[q] = map[q]
  BY <1>1, <1>4, Types DEF MapType, Nothing
<1>6. /\ rw' \in [Procs -> SUBSET Pages] /\ rw'[c] = {}
      /\ \A q \in Procs \ {c} : rw'[q] = rw[q]
  BY <1>1, <1>4, Types
<1>7. /\ prot' \in [Procs -> [Pages -> {"none", "r", "rw"}]]
      /\ \A q \in Procs \ {c} : prot'[q] = prot[q]
  BY <1>1, <1>4, Types DEF OnlyStack
<1>8. FramesOK(map', fork.pend, cache', count', free') /\ WritesOK(map', rw', count')
  <2>1. /\ \A q \in Procs, w \in Pages : map'[q][w] = map[q][w] \/ (q = c /\ map'[q][w] = NoFrame)
        /\ \A w \in Reserved(c) : map'[c][w] = NoFrame
        /\ Reserved(c) \in SUBSET Pages
    BY <1>5 DEF Reserved
  <2>2. \A q \in Procs : \A w \in rw'[q] : w \in rw[q] /\ map'[q][w] = map[q][w]
    BY <1>5, <1>6
  <2>3. Release(c, Reserved(c)) /\ MapType(map') /\ rw' \in [Procs -> SUBSET Pages]
    BY <1>1, <1>5, <1>6
  <2> QED BY <1>4, <2>1, <2>2, <2>3, ReleaseKeeps
<1>9. FillOK'
  <2>1. \A q \in Procs : fill'[q] = NoFill \/ (fill'[q] = fill[q] /\ Same(q, fill[q].page))
    BY <1>1, <1>4, <1>5, <1>6, <1>7 DEF Same
  <2> QED BY <1>1, <2>1, FillKept, Types DEF CowInv
<1>10. ProcessesOK'
  <2> SUFFICES ASSUME NEW q \in Procs \ alive
               PROVE  fill[q] = NoFill /\ map'[q] = Nothing /\ rw'[q] = {}
    BY <1>1, <1>7, Types DEF ProcessesOK
  <2>1. fill[q] = NoFill /\ (q # c => map[q] = Nothing /\ rw[q] = {})
    BY DEF CowInv, ProcessesOK, c
  <2> QED BY <1>5, <1>6, <2>1
<1>11. FramesOK(map', fork'.pend, cache', count', free')
  BY <1>1, <1>2, <1>8
<1> QED BY <1>2, <1>3, <1>8, <1>9, <1>10, <1>11 DEF CowInv

-----------------------------------------------------------------------------
(* execve(): the pages but the stack's go, then the stack's is made        *)
(* private.                                                                *)

ExecPages(p) == Reserved(p) \ {Stack}

\* What execve() does besides, and to the stack: g is its new frame if it has been
\* copied, F1 and N1 are the free frames and the counts after the other pages went.
ExecBesides(p, K1, s) ==
    /\ p \in alive /\ fork.phase # "copy" /\ fork.by # p /\ fill[p] = NoFill /\ s # NoFrame
    /\ prot' = [prot EXCEPT ![p] = OnlyStack]
    /\ tlb' = Flushed(p, ExecPages(p) \cup {Stack})
    /\ cache' = K1
    /\ UNCHANGED <<alive, fill, fork>>

ExecStack(p, g, shared, copied, F1, N1, s) ==
    /\ copied => g \in F1 /\ shared
    /\ shared <=> Stack \notin rw[p] /\ IsShared(s)
    /\ map' = [map EXCEPT ![p] =
           [v \in Pages |-> IF v \in ExecPages(p) THEN NoFrame
                            ELSE IF v = Stack /\ copied THEN g ELSE map[p][v]]]
    /\ rw' = [rw EXCEPT ![p] = (rw[p] \ ExecPages(p)) \cup (IF shared /\ ~copied THEN {} ELSE {Stack})]
    /\ count' = [N1 EXCEPT ![s] = IF copied THEN N1[s] - 1 ELSE IF shared THEN N1[s] ELSE 0]
    /\ free' = F1 \ (IF copied THEN {g} ELSE {})

LEMMA ExecShape ==
    ASSUME NEW p, NEW g, NEW x, Exec(p, g, x), NEW d, d = Drops(p, ExecPages(p)),
           NEW F1, F1 = free \cup Gone(cache, count, d),
           NEW K1, K1 = Without(cache, Gone(cache, count, d)),
           NEW N1, N1 = CountsLeft(cache, count, d), NEW s, s = map[p][Stack]
    PROVE  /\ ExecBesides(p, K1, s)
           /\ \E shared, copied \in BOOLEAN : ExecStack(p, g, shared, copied, F1, N1, s)
<1> DEFINE R == Reserved(p) \ {Stack}
           D(f) == MapsOf(p, R, f)
           shared == Stack \notin rw[p] /\ IsShared(s)
           copied == shared /\ FreeAfter(D) # {}
<1>1. \A f \in Frames : d[f] = D(f)
  BY DEF Drops, ExecPages
<1>2. FreedBy(D) = Gone(cache, count, d)
  <2>1. \A f \in Frames : Left(f, D(f)) = (IF count[f] < 2 THEN 1 ELSE count[f]) - d[f] - Keeps(cache, f)
    BY <1>1 DEF Left, Cached, Keeps
  <2> QED BY <1>1, <2>1 DEF FreedBy, Gone
<1>3. FreeAfter(D) = F1 /\ CountAfter(D) = N1 /\ CacheAfter(D) = K1
  BY <1>1, <1>2 DEF FreeAfter, CountAfter, CountsLeft, CacheAfter, Uncache, Without
<1>4. /\ p \in alive /\ fork.phase # "copy" /\ fork.by # p /\ fill[p] = NoFill /\ s # NoFrame
      /\ prot' = [prot EXCEPT ![p] = OnlyStack]
      /\ tlb' = Flushed(p, R \cup {Stack})
      /\ cache' = CacheAfter(D)
      /\ UNCHANGED <<alive, fill, fork>>
  BY DEF Exec, Kernel, GateOpen
<1>5. /\ copied => g \in FreeAfter(D)
      /\ map' = [map EXCEPT ![p] = [v \in Pages |-> IF v \in R THEN NoFrame
                                                    ELSE IF v = Stack /\ copied THEN g ELSE map[p][v]]]
      /\ rw' = [rw EXCEPT ![p] = (rw[p] \ R) \cup (IF shared /\ ~copied THEN {} ELSE {Stack})]
      /\ count' = [CountAfter(D) EXCEPT ![s] = IF copied THEN CountAfter(D)[s] - 1
                                               ELSE IF shared THEN CountAfter(D)[s] ELSE 0]
      /\ free' = FreeAfter(D) \ (IF copied THEN {g} ELSE {})
  BY DEF Exec
<1>6. shared \in BOOLEAN /\ copied \in BOOLEAN /\ (copied => shared)
      /\ (shared <=> Stack \notin rw[p] /\ IsShared(s))
  OBVIOUS
<1> HIDE DEF shared, copied, D
<1>7. ExecStack(p, g, shared, copied, F1, N1, s)
  BY <1>3, <1>5, <1>6 DEF ExecPages, ExecStack
<1> QED BY <1>3, <1>4, <1>6, <1>7 DEF ExecPages, ExecBesides

LEMMA ExecKeeps ==
    ASSUME CowInv, NEW p \in Procs, NEW g \in Frames, NEW x, Exec(p, g, x) PROVE CowInv'
<1> DEFINE R == ExecPages(p)
           d == Drops(p, R)
           K1 == Without(cache, Gone(cache, count, d))
           F1 == free \cup Gone(cache, count, d)
           N1 == CountsLeft(cache, count, d)
           M1 == [map EXCEPT ![p] = [v \in Pages |-> IF v \in R THEN NoFrame ELSE map[p][v]]]
           s == map[p][Stack]
<1>0. Stack \in Pages /\ R \in SUBSET Pages /\ Stack \notin R
  BY CowAssumption DEF ExecPages, Reserved
<1>1. ExecBesides(p, K1, s) /\ \E shared, copied \in BOOLEAN : ExecStack(p, g, shared, copied, F1, N1, s)
  <2>1. /\ d = Drops(p, ExecPages(p)) /\ F1 = free \cup Gone(cache, count, d)
        /\ K1 = Without(cache, Gone(cache, count, d)) /\ N1 = CountsLeft(cache, count, d)
        /\ s = map[p][Stack]
    OBVIOUS
  <2> HIDE DEF d, F1, K1, N1, s
  <2> QED BY <2>1, ExecShape
<1>2. /\ p \in alive /\ fork.phase # "copy" /\ fork.by # p /\ fill[p] = NoFill /\ s # NoFrame
      /\ prot' = [prot EXCEPT ![p] = OnlyStack]
      /\ tlb' = Flushed(p, R \cup {Stack})
      /\ cache' = K1
      /\ UNCHANGED <<alive, fill, fork>>
  BY <1>1 DEF ExecBesides
<1>3. PICK shared \in BOOLEAN, copied \in BOOLEAN : ExecStack(p, g, shared, copied, F1, N1, s)
  BY <1>1
<1>4. /\ copied => g \in F1 /\ shared
      /\ shared <=> Stack \notin rw[p] /\ IsShared(s)
      /\ map' = [map EXCEPT ![p] =
             [v \in Pages |-> IF v \in R THEN NoFrame
                              ELSE IF v = Stack /\ copied THEN g ELSE map[p][v]]]
      /\ rw' = [rw EXCEPT ![p] = (rw[p] \ R) \cup (IF shared /\ ~copied THEN {} ELSE {Stack})]
      /\ count' = [N1 EXCEPT ![s] = IF copied THEN N1[s] - 1 ELSE IF shared THEN N1[s] ELSE 0]
      /\ free' = F1 \ (IF copied THEN {g} ELSE {})
  <2> HIDE DEF F1, N1, s
  <2> QED BY <1>3 DEF ExecStack
<1>5. /\ MapType(M1)
      /\ \A q \in Procs \ {p} : M1[q] = map[q]
      /\ \A w \in Pages : M1[p][w] = IF w \in R THEN NoFrame ELSE map[p][w]
  BY Types DEF MapType
<1>6. s \in Frames /\ M1[p][Stack] = s
  BY <1>0, <1>2, <1>5, Types DEF MapType
<1> HIDE DEF M1, R, s
<1>7. /\ FramesOK(M1, fork.pend, K1, N1, F1)
      /\ \A f \in Frames : N1[f] <= count[f]
      /\ \A f \in Frames : count[f] >= 1 /\ U(M1, f) >= 1 => N1[f] >= 1
  <2>1. /\ d \in [Frames -> Nat]
        /\ \A f \in Frames : U(M1, f) + Q(fork.pend, f) + d[f] <= U(map, f) + Q(fork.pend, f)
    <3>1. /\ \A q \in Procs, w \in Pages : M1[q][w] = map[q][w] \/ (q = p /\ M1[q][w] = NoFrame)
          /\ \A w \in R : M1[p][w] = NoFrame
      BY <1>0, <1>5
    <3> QED BY <1>0, <1>5, <3>1, DropsFacts
  <2>2. FramesOK(map, fork.pend, cache, count, free) /\ fork.pend \in Seq(Entries)
    BY Types DEF CowInv, ForkType
  <2> HIDE DEF d
  <2> QED BY <1>5, <2>1, <2>2, DroppedFrames
<1> HIDE DEF N1, F1, K1, d
<1>8. U(M1, s) >= 1
  BY <1>0, <1>5, <1>6, UsedBy
<1>9. /\ count \in [Frames -> Nat] /\ N1 \in [Frames -> Nat]
      /\ \A f \in Frames : count[f] \in Nat /\ N1[f] \in Nat /\ f # NoFrame
  BY <1>7, CowAssumption, Types DEF FramesOK
\* The page tables and counts after the stack has been made private.
<1>10. /\ FramesOK(map', fork.pend, K1, count', free')
       /\ \A f \in Frames : count'[f] <= count[f]
       /\ Stack \in rw'[p] => map'[p][Stack] \in Frames /\ count'[map'[p][Stack]] < 2
  <2>1. CASE copied
    <3>1. /\ map' = Mapped(M1, p, Stack, g)
          /\ g \in F1 /\ shared
      <4>1. \A v \in Pages : (IF v \in R THEN NoFrame ELSE IF v = Stack /\ copied THEN g ELSE map[p][v])
                              = IF v = Stack THEN g ELSE M1[p][v]
        BY <1>0, <1>5, <2>1
      <4>2. map' = [map EXCEPT ![p] = [v \in Pages |-> IF v = Stack THEN g ELSE M1[p][v]]]
        BY <1>4, <4>1
      <4>3. Mapped(M1, p, Stack, g) = [map EXCEPT ![p] = [v \in Pages |-> IF v = Stack THEN g ELSE M1[p][v]]]
        BY <1>0, <1>5, Types DEF Mapped, MapType
      <4> QED BY <1>4, <2>1, <4>2, <4>3
    <3>2. count' = Counted(N1, s, N1[s] - 1) /\ free' = F1 \ {g}
      BY <1>4, <2>1 DEF Counted
    <3>3. N1[s] >= 1
      <4>1. count[s] >= 1
        BY <1>4, <1>6, <1>9, <3>1 DEF IsShared
      <4> QED BY <1>6, <1>7, <1>8, <4>1
    <3>4. FramesOK(map', fork.pend, K1, count', free') /\ count'[g] = 0
      <4>1. M1[p][Stack] # NoFrame /\ N1[M1[p][Stack]] >= 1
            /\ count' = Counted(N1, M1[p][Stack], N1[M1[p][Stack]] - 1)
        BY <1>2, <1>6, <3>2, <3>3
      <4>2. FramesOK(M1, fork.pend, K1, N1, F1) /\ Stack \in Pages /\ g \in F1
            /\ map' = Mapped(M1, p, Stack, g)
        BY <1>0, <1>7, <3>1
      <4>3. FramesOK(map', fork.pend, K1, count', F1 \ {g}) /\ count'[g] = 0
        BY <4>1, <4>2, MovedFrame
      <4> QED BY <3>2, <4>3
    <3>5. map'[p][Stack] = g
      BY <1>0, <1>5, <3>1 DEF Mapped, MapType
    <3>6. \A f \in Frames : count'[f] <= N1[f]
      <4>1. N1[s] - 1 \in Nat
        BY <1>6, <1>9, <3>3
      <4>2. count'[s] = N1[s] - 1 /\ \A f \in Frames : f # s => count'[f] = N1[f]
        BY <1>6, <1>9, <3>2, <4>1, CountOne
      <4> QED BY <1>6, <1>9, <4>2
    <3>7. \A f \in Frames : count'[f] <= count[f]
      <4>1. \A f \in Frames : count'[f] \in Nat
        BY <3>4 DEF FramesOK
      <4> QED BY <1>7, <1>9, <3>6, <4>1
    <3> QED BY <3>4, <3>5, <3>7
  <2>2. CASE ~copied /\ shared
    <3>1. map' = M1 /\ free' = F1
      BY <1>4, <2>2, Types DEF M1
    <3>2. count' = N1
      BY <1>4, <1>6, <1>9, <2>2
    <3>3. Stack \notin rw'[p]
      BY <1>4, <2>2, Types
    <3> QED BY <1>7, <3>1, <3>2, <3>3
  <2>3. CASE ~shared
    <3>0. ~copied
      BY <1>4, <2>3
    <3>1. map' = M1 /\ free' = F1 /\ count' = Counted(N1, s, 0)
      BY <1>4, <2>3, <3>0, Types DEF M1, Counted
    <3>2. count[s] < 2
      <4>1. Stack \in rw[p] => count[s] < 2
        BY DEF CowInv, WritesOK, s
      <4>2. ~IsShared(s) => count[s] < 2
        BY <1>6, <1>9 DEF IsShared
      <4> QED BY <1>4, <2>3, <4>1, <4>2
    <3>3. N1[s] < 2
      BY <1>6, <1>7, <1>9, <3>2
    <3>4. FramesOK(M1, fork.pend, K1, count', F1)
      BY <1>6, <1>7, <1>8, <3>1, <3>3, LoneFrame
    <3>5. count'[s] = 0 /\ \A f \in Frames : f # s => count'[f] = N1[f]
      BY <1>6, <1>9, <3>1, CountOne
    <3>6. \A f \in Frames : count'[f] <= count[f]
      BY <1>7, <1>9, <3>5
    <3>7. map'[p][Stack] = s
      BY <1>6, <3>1
    <3> QED BY <1>6, <3>1, <3>4, <3>5, <3>6, <3>7
  <2> QED BY <2>1, <2>2, <2>3
<1>11. /\ \A q \in Procs \ {p} : map'[q] = map[q]
       /\ \A w \in Pages : w \notin R /\ w # Stack => map'[p][w] = map[p][w]
  BY <1>4, Types DEF MapType
<1>12. /\ rw' \in [Procs -> SUBSET Pages]
       /\ \A q \in Procs \ {p} : rw'[q] = rw[q]
       /\ \A w \in rw'[p] : w = Stack \/ (w \in rw[p] /\ w \notin R)
  <2>1. (rw[p] \ R) \cup (IF shared /\ ~copied THEN {} ELSE {Stack}) \in SUBSET Pages
    BY <1>0, Types
  <2> QED BY <1>4, <2>1, Types
<1>13. WritesOK(map', rw', count')
  <2> SUFFICES ASSUME NEW q \in Procs, NEW w \in rw'[q]
               PROVE  map'[q][w] # NoFrame /\ count'[map'[q][w]] < 2
    BY <1>12 DEF WritesOK
  <2>0. w \in Pages
    BY <1>12
  <2>1. CASE q = p /\ w = Stack
    <3>1. map'[p][Stack] \in Frames /\ count'[map'[p][Stack]] < 2
      BY <1>10, <2>1
    <3> QED BY <1>9, <2>1, <3>1
  <2>2. CASE ~(q = p /\ w = Stack)
    <3>1. w \in rw[q] /\ map'[q][w] = map[q][w]
      BY <1>11, <1>12, <2>0, <2>2
    <3>2. map[q][w] # NoFrame /\ count[map[q][w]] < 2
      BY <3>1 DEF CowInv, WritesOK
    <3>3. map[q][w] \in Frames
      BY <2>0, <3>2, LoneIsAlone
    <3>4. count'[map[q][w]] \in Nat /\ count'[map[q][w]] <= count[map[q][w]]
      <4>1. /\ \A f \in Frames : count'[f] <= count[f]
            /\ count' \in [Frames -> Nat]
        BY <1>10 DEF FramesOK
      <4> QED BY <3>3, <4>1
    <3> QED BY <1>9, <3>1, <3>2, <3>3, <3>4
  <2> QED BY <2>1, <2>2
<1>14. /\ prot' \in [Procs -> [Pages -> {"none", "r", "rw"}]]
       /\ \A q \in Procs \ {p} : prot'[q] = prot[q]
  BY <1>2, Types DEF OnlyStack
<1>15. FillOK'
  <2>1. \A q \in Procs : fill'[q] = NoFill \/ (fill'[q] = fill[q] /\ Same(q, fill[q].page))
    BY <1>2, <1>11, <1>12, <1>14 DEF Same
  <2> QED BY <1>2, <2>1, FillKept, Types DEF CowInv
<1>16. Quieter
  BY <1>2, FlushQuiets, Types
<1>17. FramesOK(map', fork.pend, cache', count', free')
  BY <1>2, <1>10
<1> QED BY <1>2, <1>11, <1>12, <1>13, <1>14, <1>15, <1>16, <1>17, OutsideCopy

-----------------------------------------------------------------------------
(* The theorems.                                                           *)

LEMMA CowInvKept == ASSUME CowInv, [Next]_vars PROVE CowInv'
<1>1. ASSUME NEW p \in Procs, NEW v \in Pages, NEW x \in Values, Write(p, v, x) PROVE CowInv'
  BY <1>1, StutterKeeps DEF Write, pageVars
<1>2. ASSUME NEW k \in Files, NEW x \in Values, FileWriteEnds(k, x) PROVE CowInv'
  BY <1>2, StutterKeeps DEF FileWriteEnds, pageVars, frameVars
<1>3. ASSUME UNCHANGED vars PROVE CowInv'
  BY <1>3, StutterKeeps DEF vars, pageVars, frameVars
<1> QED
  BY <1>1, <1>2, <1>3, TouchFaultKeeps, WriteFaultKeeps, MmapAnonKeeps, MunmapKeeps, MmapHitKeeps,
     MmapOverKeeps, MmapMissKeeps, MmapFilledKeeps, MmapOverFailsKeeps, ExitKeeps, MprotectKeeps,
     FileWriteBeginsKeeps, ForkTableKeeps, ForkCopyKeeps, ForkEndsKeeps, ForkFailsKeeps,
     ForkSharesKeeps, ForkRunsOutKeeps, ForkCopiesKeeps, VmFlushKeeps, ExecKeeps DEF Next

LEMMA CowInvInit == Init => CowInv
<1> SUFFICES ASSUME Init PROVE CowInv
  OBVIOUS
<1>1. /\ alive \subseteq Procs /\ fork = NoFork /\ fill = [p \in Procs |-> NoFill]
      /\ prot = [p \in Procs |-> OnlyStack] /\ map = [p \in Procs |-> Nothing]
      /\ rw = [p \in Procs |-> {}] /\ tlb = [p \in Procs |-> Nothing]
      /\ count = [f \in Frames |-> 0] /\ free = Frames /\ cache = [k \in Files |-> NoFrame]
  BY DEF Init
<1>2. /\ MapType(map) /\ \A p \in Procs, v \in Pages : map[p][v] = NoFrame
      /\ MapType(tlb) /\ \A p \in Procs, v \in Pages : tlb[p][v] = NoFrame
  BY <1>1 DEF MapType, Nothing
<1>3. /\ fork.by = NoProc /\ fork.phase = "none" /\ fork.todo = {} /\ fork.pend = <<>>
      /\ fork \in ForkType
  BY <1>1 DEF NoFork, ForkType
<1>4. ForkOK
  <2>1. PendOK(map[fork.child], fork.todo, fork.pend, count)
    BY <1>3 DEF PendOK
  <2> QED BY <1>3, <2>1 DEF ForkOK
<1>5. TlbOK
  BY <1>2 DEF TlbOK
<1>6. ProcessesOK
  BY <1>1 DEF ProcessesOK, OnlyStack
<1>7. FillOK
  BY <1>1, CowAssumption DEF FillOK, FillType, NoFill
<1>8. WritesOK(map, rw, count)
  BY <1>1 DEF WritesOK
<1>9. FramesOK(map, fork.pend, cache, count, free)
  <2>1. ASSUME NEW f \in Frames
        PROVE  Balance(U(map, f), Q(fork.pend, f), Keeps(cache, f), count[f], f \in free)
    <3>1. f # NoFrame
      BY CowAssumption
    <3>2. Uses(map, f) = {}
      BY <1>2, <3>1 DEF Uses
    <3>3. U(map, f) = 0
      BY <3>2, FS_EmptySet DEF U
    <3>4. Q(fork.pend, f) = 0 /\ Keeps(cache, f) = 0 /\ count[f] = 0
      BY <1>1, <1>3, <3>1, Numbers DEF Keeps
    <3> QED BY <3>3, <3>4 DEF Balance
  <2>2. fork.pend \in Seq(Entries)
    BY <1>3 DEF ForkType
  <2> QED BY <1>1, <1>2, <2>1, <2>2 DEF FramesOK
<1> QED BY <1>4, <1>5, <1>6, <1>7, <1>8, <1>9 DEF CowInv

LEMMA CowInvAlways == Spec => []CowInv
BY CowInvInit, CowInvKept, PTL DEF Spec

\* A frame that somebody uses is not free.
LEMMA CowInvHeld == CowInv => MappedIsHeld
<1> SUFFICES ASSUME CowInv PROVE MappedIsHeld
  OBVIOUS
<1>0. FramesOK(map, fork.pend, cache, count, free) /\ free \subseteq Frames
  BY Types DEF CowInv
<1>1. ASSUME NEW p \in Procs, NEW v \in Pages PROVE map[p][v] \notin free
  <2>1. U(map, map[p][v]) >= 1
    BY UsedBy
  <2> SUFFICES ASSUME map[p][v] \in free PROVE FALSE
    OBVIOUS
  <2>2. map[p][v] \in Frames
    BY <1>0
  <2> DEFINE f == map[p][v]
  <2> HIDE DEF f
  <2>3. f \in Frames /\ f \in free /\ U(map, f) >= 1
    BY <2>1, <2>2 DEF f
  <2>4. /\ Q(fork.pend, f) \in Nat /\ Keeps(cache, f) \in {0, 1} /\ U(map, f) \in Nat
        /\ Balance(U(map, f), Q(fork.pend, f), Keeps(cache, f), count[f], f \in free)
    BY <1>0, <2>3, FrameFacts
  <2> QED BY <2>3, <2>4 DEF Balance
<1>2. ASSUME NEW p \in Procs, NEW v \in Pages PROVE tlb[p][v] \notin free
  <2>1. tlb[p][v] = NoFrame \/ tlb[p][v] = map[p][v]
    BY DEF CowInv, TlbOK
  <2>2. NoFrame \notin free
    BY <1>0, CowAssumption
  <2> QED BY <1>1, <2>1, <2>2
<1>3. ASSUME NEW k \in Files PROVE cache[k] \notin free
  <2> SUFFICES ASSUME cache[k] \in free PROVE FALSE
    OBVIOUS
  <2>1. cache[k] \in Frames
    BY <1>0
  <2> DEFINE f == cache[k]
  <2>2. Keeps(cache, f) = 1
    BY DEF Keeps
  <2> HIDE DEF f
  <2>3. f \in Frames /\ f \in free
    BY <2>1 DEF f
  <2>4. /\ U(map, f) \in Nat /\ Q(fork.pend, f) \in Nat
        /\ Balance(U(map, f), Q(fork.pend, f), Keeps(cache, f), count[f], f \in free)
    BY <1>0, <2>3, FrameFacts
  <2> QED BY <2>2, <2>3, <2>4 DEF Balance
<1> QED BY <1>1, <1>2, <1>3 DEF MappedIsHeld

\* However fork, write faults, the file cache, munmap, execve and exit interleave
\* and whichever of them run out of memory, no page table, no translation that a
\* CPU has kept and no entry of the file cache leads to a free frame.
THEOREM FramesAreHeld == Spec => []MappedIsHeld
BY CowInvHeld, CowInvAlways, PTL

\* A frame that a page can be written through is in no other page, in no other
\* CPU's kept translation and not in the file cache: copy-on-write never lets one
\* process write into what another one reads.
THEOREM WritesArePrivate == Spec => []WritableIsPrivate
<1>1. CowInv => WritableIsPrivate
  <2> SUFFICES ASSUME CowInv, NEW p \in Procs, NEW v \in rw[p]
               PROVE  /\ ~Cached(map[p][v])
                      /\ \A q \in Procs, w \in Pages : map[q][w] = map[p][v] => q = p /\ w = v
                      /\ \A q \in Procs, w \in Pages : tlb[q][w] = map[p][v] => q = p /\ w = v
    BY DEF WritableIsPrivate
  <2>1. v \in Pages /\ map[p][v] # NoFrame /\ count[map[p][v]] < 2
    BY Types DEF CowInv, WritesOK
  <2>2. /\ \A k \in Files : cache[k] # map[p][v]
        /\ \A q \in Procs, w \in Pages : map[q][w] = map[p][v] => q = p /\ w = v
    BY <2>1, LoneIsAlone
  <2>3. \A q \in Procs, w \in Pages : tlb[q][w] = map[p][v] => map[q][w] = map[p][v]
    BY <2>1 DEF CowInv, TlbOK
  <2> QED BY <2>2, <2>3 DEF Cached
<1> QED BY <1>1, CowInvAlways, PTL

-----------------------------------------------------------------------------
(* Cow implements PrivateMemory.  Beyond CowInv the refinement needs to    *)
(* know what is in the frames: above all that a child in the making has    *)
(* only frames with something that the parent's page has held since the    *)
(* fork began, although the parent may go on writing to them through       *)
(* translations that CPUs have kept.                                       *)

ContentOK ==
    /\ content \in [Frames -> Values]
    /\ file \in [Files -> Values]

\* The history is that of the process that forks and has its present pages.
SnapOK ==
    /\ snap = [v \in Pages |-> snap[v]]
    /\ fork.by = NoProc => snap = NoSnap
    /\ fork.by # NoProc => \A v \in Pages : View(fork.by)[v] \in snap[v]

\* The frame that a file is being read into is counted as one page's.
FillAlone ==
    \A p \in Procs : fill[p] # NoFill /\ ~fill[p].over => count[map[p][fill[p].page]] < 2

\* A frame that is written through a kept translation is seen through one page
\* of the living, although the child may have it already.
TlbAlone ==
    \A p \in Procs, v \in Pages : tlb[p][v] # NoFrame =>
        /\ v \in Reserved(p)
        /\ \A q \in alive, w \in Pages : map[q][w] = tlb[p][v] => q = p /\ w = v

\* f holds something that the parent's page v has held; a later write to f is a
\* write to that page, or there is none.
FromParent(v, f) ==
    /\ content[f] \in snap[v]
    /\ \/ f = map[fork.by][v] /\ v \in Reserved(fork.by)
       \/ \A q \in alive, w \in Pages : map[q][w] # f

\* The child has f for its page v, or will have it when the collected pages are
\* mapped.
Given(v, f) ==
    \/ map[fork.child][v] = f
    \/ \E i \in DOMAIN fork.pend : fork.pend[i].page = v /\ fork.pend[i].frame = f

\* The pages of the child come from the parent; a page that the child will not
\* find was not there at some time since the fork began.
CopyOK ==
    /\ fork.phase # "none" =>
          \A v \in Pages : prot[fork.child][v] = "none" => Absent \in snap[v]
    /\ fork.phase = "copy" =>
          /\ fork.todo \subseteq Reserved(fork.by)
          /\ \A v \in Pages, f \in Frames : Given(v, f) => FromParent(v, f)
          /\ fork.ok => \A v \in Pages :
                v \in fork.todo \/ Absent \in snap[v] \/ \E f \in Frames : Given(v, f)

ViewInv == ContentOK /\ SnapOK /\ FillAlone /\ TlbAlone /\ CopyOK

-----------------------------------------------------------------------------
(* What a state and the next one look like to a process.                   *)

\* The frames that one page has alone, seen from the pages.
LonePages ==
    \A p \in Procs, v \in Pages : map[p][v] # NoFrame /\ count[map[p][v]] < 2 =>
        \A q \in Procs, w \in Pages : map[q][w] = map[p][v] => q = p /\ w = v

LEMMA CowInvLone == CowInv => LonePages
BY LoneIsAlone DEF LonePages

LEMMA HeldNext == CowInv' => MappedIsHeld' /\ LonePages'
BY CowInvHeld, CowInvLone, PTL

LEMMA SameView ==
    ASSUME NEW q \in Procs, q \in alive' <=> q \in alive, prot'[q] = prot[q], map'[q] = map[q],
           \A v \in Pages : q \in alive /\ map[q][v] # NoFrame =>
              content'[map[q][v]] = content[map[q][v]]
    PROVE  View(q)' = View(q)
BY DEF View, Reserved

ViewsOK == \A q \in Procs : View(q) \in Private!Contents

LEMMA ViewType == CowInv /\ ContentOK => ViewsOK
<1> SUFFICES ASSUME CowInv, ContentOK, NEW q \in Procs PROVE View(q) \in Private!Contents
  BY DEF ViewsOK
<1>1. \A v \in Pages : map[q][v] # NoFrame => content[map[q][v]] \in Values
  BY Types DEF MapType, ContentOK
<1> QED BY <1>1 DEF View, Private!Contents

LEMMA ViewTypeNext == CowInv' /\ ContentOK' => ViewsOK'
BY ViewType, PTL

LEMMA ViewIs ==
    ASSUME NEW q \in Procs
    PROVE  Views[q] = View(q) /\ Views'[q] = View(q)'
BY DEF Views

\* The history keeps what it has, and gets the pages of the process that forks.
LEMMA SnapKept ==
    ASSUME Record, fork'.by \in Procs \cup {NoProc}
    PROVE  SnapOK'
<1>1. snap' = [v \in Pages |->
                IF fork'.by = NoProc THEN {}
                ELSE (IF fork.by = NoProc THEN {} ELSE snap[v]) \cup {Views'[fork'.by][v]}]
  BY DEF Record
<1>2. fork'.by # NoProc => Views'[fork'.by] = View(fork.by)'
  BY DEF Views
<1> QED BY <1>1, <1>2 DEF SnapOK, NoSnap

LEMMA SnapGrows ==
    ASSUME Record, fork'.by = fork.by, fork.by # NoProc, NEW v \in Pages
    PROVE  snap[v] \subseteq snap'[v]
BY DEF Record

\* p changes its own pages.
LEMMA OwnStep ==
    ASSUME CowInv, CowInv', SnapOK, ContentOK', NEW p \in alive, alive' = alive, fork' = fork, Record,
           \A q \in Procs \ {p} : View(q)' = View(q)
    PROVE  Private!Next
<1>0. p \in Procs /\ p # NoProc /\ fork.by \in Procs \cup {NoProc}
  BY Types, CowAssumption DEF ForkType
<1>1. Views' = [Views EXCEPT ![p] = Views'[p]]
  BY <1>0, ViewIs DEF Views
<1>2. Views'[p] \in Private!Contents
  BY <1>0, ViewTypeNext, ViewIs DEF ViewsOK
<1>3. snap' = IF p = fork.by THEN [v \in Pages |-> snap[v] \cup {Views'[p][v]}] ELSE snap
  <2>1. CASE fork.by = NoProc
    BY <1>0, <2>1 DEF Record, SnapOK, NoSnap
  <2>2. CASE fork.by = p
    BY <1>0, <2>2 DEF Record
  <2>3. CASE fork.by # NoProc /\ fork.by # p
    <3>1. \A v \in Pages : Views'[fork.by][v] \in snap[v]
      BY <1>0, <2>3, ViewIs DEF SnapOK
    <3>2. snap' = [v \in Pages |-> snap[v] \cup {Views'[fork.by][v]}]
      BY <2>3 DEF Record
    <3>3. snap' = [v \in Pages |-> snap[v]]
      BY <3>1, <3>2
    <3> QED BY <2>3, <3>3 DEF SnapOK
  <2> QED BY <2>1, <2>2, <2>3
<1>4. Private!Change(p)
  BY <1>1, <1>2, <1>3 DEF Private!Change
<1> QED BY <1>0, <1>4 DEF Private!Next

\* A step that no process sees.
LEMMA HiddenStep ==
    ASSUME CowInv, SnapOK, alive' = alive, fork'.by = fork.by, Record,
           \A q \in Procs : View(q)' = View(q)
    PROVE  UNCHANGED Private!vars
<1>0. fork.by \in Procs \cup {NoProc}
  BY Types DEF ForkType
<1>1. Views' = Views
  BY DEF Views
<1>2. snap' = snap
  <2>1. CASE fork.by = NoProc
    BY <2>1 DEF Record, SnapOK, NoSnap
  <2>2. CASE fork.by # NoProc
    <3>1. \A v \in Pages : Views'[fork.by][v] \in snap[v]
      BY <1>0, <2>2, ViewIs DEF SnapOK
    <3>2. snap' = [v \in Pages |-> snap[v] \cup {Views'[fork.by][v]}]
      BY <2>2 DEF Record
    <3>3. snap' = [v \in Pages |-> snap[v]]
      BY <3>1, <3>2
    <3> QED BY <3>3 DEF SnapOK
  <2> QED BY <2>1, <2>2
<1> QED BY <1>1, <1>2 DEF Private!vars

\* Frames that change are free before or after: no page table leads to them.
LEMMA FreeChanges ==
    ASSUME CowInv, CowInv', NEW q \in Procs, NEW w \in Pages, map[q][w] # NoFrame,
           map'[q][w] = map[q][w],
           \A f \in Frames : content'[f] = content[f] \/ f \in free \/ f \in free'
    PROVE  content'[map[q][w]] = content[map[q][w]]
<1>1. map[q][w] \in Frames /\ map[q][w] \notin free
  BY Types, CowInvHeld DEF MapType, MappedIsHeld
<1>2. map'[q][w] \notin free'
  BY HeldNext DEF MappedIsHeld
<1> QED BY <1>1, <1>2

\* To the other processes it looks as before p's step.
OthersAlike(p) ==
    \A q \in Procs \ {p} :
       /\ prot'[q] = prot[q] /\ map'[q] = map[q]
       /\ \A w \in Pages : q \in alive /\ map[q][w] # NoFrame =>
             content'[map[q][w]] = content[map[q][w]]

\* A file that was read into a frame of its own still is.
FillsAlike ==
    \A q \in Procs :
       \/ fill'[q] = NoFill
       \/ fill'[q].over
       \/ count'[map'[q][fill'[q].page]] < 2
       \/ /\ fill'[q] = fill[q]
          /\ map'[q][fill[q].page] = map[q][fill[q].page]
          /\ \/ count'[map[q][fill[q].page]] <= count[map[q][fill[q].page]]
             \/ count[map[q][fill[q].page]] >= 2

LEMMA FillFrame ==
    ASSUME CowInv, NEW q \in Procs, fill[q] # NoFill
    PROVE  fill[q].page \in Pages /\ map[q][fill[q].page] \in Frames
<1>1. fill[q].page \in Pages /\ map[q][fill[q].page] # NoFrame
  BY Types DEF CowInv, FillOK, FillType
<1> QED BY <1>1, Types DEF MapType

LEMMA FillAloneKept ==
    ASSUME CowInv, CowInv', FillAlone, FillsAlike
    PROVE  FillAlone'
<1> SUFFICES ASSUME NEW q \in Procs, fill'[q] # NoFill, ~fill'[q].over
             PROVE  count'[map'[q][fill'[q].page]] < 2
  BY DEF FillAlone
<1> SUFFICES ASSUME fill'[q] = fill[q], map'[q][fill[q].page] = map[q][fill[q].page],
                    \/ count'[map[q][fill[q].page]] <= count[map[q][fill[q].page]]
                    \/ count[map[q][fill[q].page]] >= 2
             PROVE  count'[map'[q][fill'[q].page]] < 2
  BY DEF FillsAlike
<1> DEFINE f == map[q][fill[q].page]
<1>1. f \in Frames
  BY FillFrame
<1>2. count[f] < 2
  BY DEF FillAlone
<1>3. count \in [Frames -> Nat] /\ count' \in [Frames -> Nat]
  BY Types DEF CowInv, FramesOK
<1> HIDE DEF f
<1>4. count'[f] < 2
  <2>1. count[f] \in Nat /\ count'[f] \in Nat /\ (count'[f] <= count[f] \/ count[f] >= 2)
    BY <1>1, <1>3 DEF f
  <2> QED BY <1>2, <2>1
<1> QED BY <1>4 DEF f

\* A step outside of the copy, by a process or by a write to a file.
LEMMA OutsideKept ==
    ASSUME CowInv, CowInv', ViewInv, fork.phase # "copy", fork' = fork, Record,
           ContentOK', FillsAlike, fork.phase # "none" => prot'[fork.child] = prot[fork.child]
    PROVE  ViewInv'
<1>1. fork'.by \in Procs \cup {NoProc}
  BY Types DEF ForkType
<1>2. SnapOK'
  BY <1>1, SnapKept
<1>3. FillAlone'
  BY FillAloneKept DEF ViewInv
<1>4. TlbAlone'
  BY DEF TlbAlone, CowInv, TlbOK
<1>5. CopyOK'
  <2>1. fork.phase # "none" => fork.by # NoProc
    BY CowAssumption, Types DEF CowInv, ForkOK
  <2>2. \A v \in Pages : fork.phase # "none" => snap[v] \subseteq snap'[v]
    BY <2>1, SnapGrows
  <2> QED BY <2>2 DEF ViewInv, CopyOK
<1> QED BY <1>2, <1>3, <1>4, <1>5 DEF ViewInv

\* A step of p outside of the copy.
LEMMA ProcessStep ==
    ASSUME CowInv, CowInv', ViewInv, NEW p \in alive, fork.phase # "copy", UNCHANGED <<alive, fork>>,
           Record, ContentOK', FillsAlike, OthersAlike(p)
    PROVE  ViewInv' /\ Private!Next
<1>1. fork.phase # "none" => prot'[fork.child] = prot[fork.child]
  BY DEF CowInv, ForkOK, OthersAlike
<1>2. ViewInv'
  BY <1>1, OutsideKept
<1>3. \A q \in Procs \ {p} : View(q)' = View(q)
  BY SameView DEF OthersAlike
<1>4. Private!Next
  BY <1>3, OwnStep DEF ViewInv
<1> QED BY <1>2, <1>4

-----------------------------------------------------------------------------
(* Each action.                                                            *)

LEMMA MmapAnonView ==
    ASSUME CowInv, ViewInv, NEW p \in Procs, NEW v \in Pages, MmapAnon(p, v)
    PROVE  ViewInv' /\ Private!Next
<1>1. /\ p \in alive /\ fork.phase # "copy" /\ Record
      /\ prot' = [prot EXCEPT ![p][v] = "rw"]
      /\ UNCHANGED <<alive, map, rw, tlb, count, free, cache, content, file, fill, fork>>
  BY DEF MmapAnon, Kernel, frameVars, fileVars
<1>2. CowInv'
  BY MmapAnonKeeps
<1>3. ContentOK'
  BY <1>1 DEF ViewInv, ContentOK
<1>4. OthersAlike(p)
  BY <1>1, Types DEF OthersAlike
<1>5. FillsAlike
  BY <1>1, FillFrame, Types DEF FillsAlike
<1> QED BY <1>1, <1>2, <1>3, <1>4, <1>5, ProcessStep

LEMMA MprotectView ==
    ASSUME CowInv, ViewInv, NEW p \in Procs, NEW v \in Pages, NEW pr \in {"r", "rw"}, Mprotect(p, v, pr)
    PROVE  ViewInv' /\ Private!Next
<1>1. /\ p \in alive /\ fork.phase # "copy" /\ Record
      /\ prot' = [prot EXCEPT ![p][v] = pr]
      /\ UNCHANGED <<alive, map, count, free, cache, content, file, fill, fork>>
  BY DEF Mprotect, Kernel, frameVars, fileVars
<1>2. CowInv'
  BY MprotectKeeps
<1>3. ContentOK'
  BY <1>1 DEF ViewInv, ContentOK
<1>4. OthersAlike(p)
  BY <1>1, Types DEF OthersAlike
<1>5. FillsAlike
  BY <1>1, FillFrame, Types DEF FillsAlike
<1> QED BY <1>1, <1>2, <1>3, <1>4, <1>5, ProcessStep

LEMMA MmapOverView ==
    ASSUME CowInv, ViewInv, NEW p \in Procs, NEW v \in Pages, NEW k \in Files, MmapOver(p, v, k)
    PROVE  ViewInv' /\ Private!Next
<1>1. /\ p \in alive /\ fork.phase # "copy" /\ Record
      /\ prot' = [prot EXCEPT ![p][v] = "r"]
      /\ fill' = [fill EXCEPT ![p] = [page |-> v, file |-> k, over |-> TRUE]]
      /\ UNCHANGED <<alive, map, count, free, cache, content, file, fork>>
  BY DEF MmapOver, FillBegins, Kernel, frameVars, fileVars
<1>2. CowInv'
  BY MmapOverKeeps
<1>3. ContentOK'
  BY <1>1 DEF ViewInv, ContentOK
<1>4. OthersAlike(p)
  BY <1>1, Types DEF OthersAlike
<1>5. FillsAlike
  <2>1. fill'[p].over /\ \A q \in Procs \ {p} : fill'[q] = fill[q]
    BY <1>1, Types
  <2> QED BY <1>1, <2>1, FillFrame, Types DEF FillsAlike
<1> QED BY <1>1, <1>2, <1>3, <1>4, <1>5, ProcessStep

\* A frame that is in the cache is not one that a file is being read into.
LEMMA MmapHitView ==
    ASSUME CowInv, ViewInv, NEW p \in Procs, NEW v \in Pages, NEW k \in Files, MmapHit(p, v, k)
    PROVE  ViewInv' /\ Private!Next
<1>1. /\ p \in alive /\ fork.phase # "copy" /\ Record
      /\ map[p][v] = NoFrame /\ cache[k] # NoFrame
      /\ prot' = [prot EXCEPT ![p][v] = "r"]
      /\ map' = [map EXCEPT ![p][v] = cache[k]]
      /\ count' = [count EXCEPT ![cache[k]] = count[cache[k]] + 1]
      /\ UNCHANGED <<alive, content, file, fill, fork>>
  BY DEF MmapHit, Kernel, fileVars
<1>2. CowInv'
  BY MmapHitKeeps
<1>3. ContentOK'
  BY <1>1 DEF ViewInv, ContentOK
<1>4. OthersAlike(p)
  BY <1>1, Types DEF OthersAlike, MapType
<1>5. FillsAlike
  <2> SUFFICES ASSUME NEW q \in Procs, fill[q] # NoFill
               PROVE  /\ map'[q][fill[q].page] = map[q][fill[q].page]
                      /\ \/ count'[map[q][fill[q].page]] <= count[map[q][fill[q].page]]
                         \/ count[map[q][fill[q].page]] >= 2
    BY <1>1 DEF FillsAlike
  <2>1. fill[q].page \in Pages /\ map[q][fill[q].page] \in Frames /\ map[q][fill[q].page] # NoFrame
    BY FillFrame, CowAssumption
  <2>2. map'[q][fill[q].page] = map[q][fill[q].page]
    BY <1>1, <2>1, Types DEF MapType
  <2>3. count[map[q][fill[q].page]] < 2 => cache[k] # map[q][fill[q].page]
    BY <2>1, LoneIsAlone
  <2>4. cache[k] # map[q][fill[q].page] => count'[map[q][fill[q].page]] = count[map[q][fill[q].page]]
    BY <1>1, <2>1, Types
  <2>5. count[map[q][fill[q].page]] \in Nat
    BY <2>1, Types
  <2> QED BY <2>2, <2>3, <2>4, <2>5
<1> QED BY <1>1, <1>2, <1>3, <1>4, <1>5, ProcessStep

LEMMA MapFreshShows ==
    ASSUME CowInv, CowInv', ViewInv, NEW p \in Procs, NEW v \in Pages, NEW f \in Frames, NEW isRw,
           MapFresh(p, v, f, isRw), map[p][v] = NoFrame, UNCHANGED file,
           \A q \in Procs \ {p} : prot'[q] = prot[q]
    PROVE  /\ ContentOK' /\ OthersAlike(p) /\ map'[p][v] = f /\ count' = count /\ count[f] < 2
           /\ \A q \in Procs : fill[q] # NoFill =>
                 map'[q][fill[q].page] = map[q][fill[q].page] /\ count[map[q][fill[q].page]] \in Nat
<1>1. /\ f \in free /\ content' = [content EXCEPT ![f] = Zero] /\ count' = count
      /\ map' = [map EXCEPT ![p][v] = f]
  BY DEF MapFresh
<1>2. ContentOK'
  BY <1>1, CowAssumption DEF ViewInv, ContentOK
<1>3. map'[p][v] = f /\ \A q \in Procs, w \in Pages : q # p \/ w # v => map'[q][w] = map[q][w]
  BY <1>1, Types DEF MapType
<1>4. \A g \in Frames : content'[g] = content[g] \/ g \in free
  BY <1>1 DEF ViewInv, ContentOK
<1>5. OthersAlike(p)
  <2>1. \A q \in Procs \ {p} : map'[q] = map[q]
    BY <1>1, Types DEF MapType
  <2> QED BY <1>3, <1>4, <2>1, FreeChanges DEF OthersAlike
<1>6. count[f] < 2
  <2>1. Balance(U(map, f), Q(fork.pend, f), Keeps(cache, f), count[f], f \in free)
    BY FrameFacts DEF CowInv
  <2> QED BY <1>1, <2>1 DEF Balance
<1>7. ASSUME NEW q \in Procs, fill[q] # NoFill
      PROVE  map'[q][fill[q].page] = map[q][fill[q].page] /\ count[map[q][fill[q].page]] \in Nat
  <2>1. fill[q].page \in Pages /\ map[q][fill[q].page] \in Frames /\ map[q][fill[q].page] # NoFrame
    BY <1>7, FillFrame, CowAssumption
  <2> QED BY <1>3, <2>1, Types
<1> QED BY <1>1, <1>2, <1>3, <1>5, <1>6, <1>7

LEMMA TouchFaultView ==
    ASSUME CowInv, ViewInv, NEW p \in Procs, NEW v \in Pages, NEW f \in Frames, TouchFault(p, v, f)
    PROVE  ViewInv' /\ Private!Next
<1>1. /\ p \in alive /\ fork.phase # "copy" /\ Record /\ map[p][v] = NoFrame
      /\ MapFresh(p, v, f, prot[p][v] = "rw")
      /\ UNCHANGED <<alive, prot, file, fill, fork>>
  BY DEF TouchFault, Kernel, fileVars
<1>2. CowInv'
  BY TouchFaultKeeps
<1>3. /\ ContentOK' /\ OthersAlike(p) /\ count' = count
      /\ \A q \in Procs : fill[q] # NoFill =>
            map'[q][fill[q].page] = map[q][fill[q].page] /\ count[map[q][fill[q].page]] \in Nat
  BY <1>1, <1>2, MapFreshShows
<1>4. FillsAlike
  BY <1>1, <1>3 DEF FillsAlike
<1> QED BY <1>1, <1>2, <1>3, <1>4, ProcessStep

LEMMA MmapMissView ==
    ASSUME CowInv, ViewInv, NEW p \in Procs, NEW v \in Pages, NEW k \in Files, NEW f \in Frames,
           MmapMiss(p, v, k, f)
    PROVE  ViewInv' /\ Private!Next
<1>1. /\ p \in alive /\ fork.phase # "copy" /\ Record /\ map[p][v] = NoFrame
      /\ MapFresh(p, v, f, FALSE)
      /\ prot' = [prot EXCEPT ![p][v] = "r"]
      /\ fill' = [fill EXCEPT ![p] = [page |-> v, file |-> k, over |-> FALSE]]
      /\ UNCHANGED <<alive, file, fork>>
  BY DEF MmapMiss, FillBegins, Kernel, fileVars
<1>2. CowInv'
  BY MmapMissKeeps
<1>3. \A q \in Procs \ {p} : prot'[q] = prot[q]
  BY <1>1, Types
<1>4. /\ ContentOK' /\ OthersAlike(p) /\ map'[p][v] = f /\ count' = count /\ count[f] < 2
      /\ \A q \in Procs : fill[q] # NoFill =>
            map'[q][fill[q].page] = map[q][fill[q].page] /\ count[map[q][fill[q].page]] \in Nat
  BY <1>1, <1>2, <1>3, MapFreshShows
<1>5. FillsAlike
  <2>1. fill'[p].page = v /\ \A q \in Procs \ {p} : fill'[q] = fill[q]
    BY <1>1, Types
  <2> QED BY <1>4, <2>1 DEF FillsAlike
<1> QED BY <1>1, <1>2, <1>4, <1>5, ProcessStep

LEMMA WriteFaultView ==
    ASSUME CowInv, ViewInv, NEW p \in Procs, NEW v \in Pages, NEW g \in Frames, WriteFault(p, v, g)
    PROVE  ViewInv' /\ Private!Next
<1>1. /\ p \in alive /\ fork.phase # "copy" /\ Record
      /\ map[p][v] # NoFrame /\ Break(p, v, g)
      /\ prot[p][v] = "rw"
      /\ UNCHANGED <<alive, prot, file, fill, fork>>
  BY DEF WriteFault, Kernel, fileVars
<1>2. CowInv'
  BY WriteFaultKeeps
<1>3. /\ count'[map'[p][v]] < 2
      /\ \A q \in Procs, w \in Pages : q # p \/ w # v => map'[q][w] = map[q][w]
      /\ \A q \in Procs \ {p} : map'[q] = map[q]
      /\ \A f \in Frames : count'[f] <= count[f] \/ f = map'[p][v]
  BY <1>1, BreakKeeps
<1>4. map[p][v] \in Frames
  BY <1>1, Types DEF MapType
<1>5. ContentOK' /\ \A f \in Frames : content'[f] = content[f] \/ f \in free \/ f \in free'
  <2> DEFINE h == map[p][v]
             last == Cached(h) /\ count[h] <= 2
  <2>1. CASE IsShared(h)
    <3>1. /\ g \in free
          /\ content' = [content EXCEPT ![g] = content[h], ![h] = IF last THEN Zero ELSE @]
          /\ free' = (free \ {g}) \cup (IF last THEN {h} ELSE {})
      BY <1>1, <2>1 DEF Break, BreakCopy
    <3>2. content \in [Frames -> Values] /\ Zero \in Values /\ file \in [Files -> Values] /\ h \in Frames
      BY <1>4, CowAssumption DEF ViewInv, ContentOK
    <3>3. last \in BOOLEAN
      OBVIOUS
    <3> HIDE DEF last, h
    <3> QED BY <1>1, <3>1, <3>2, <3>3 DEF ContentOK
  <2>2. CASE ~IsShared(h)
    BY <1>1, <2>2 DEF Break, BreakLast, ViewInv, ContentOK
  <2> QED BY <2>1, <2>2
<1>6. OthersAlike(p)
  BY <1>1, <1>2, <1>3, <1>5, FreeChanges DEF OthersAlike
<1>7. FillsAlike
  <2> SUFFICES ASSUME NEW q \in Procs, fill[q] # NoFill
               PROVE  \/ count'[map'[q][fill[q].page]] < 2
                      \/ /\ map'[q][fill[q].page] = map[q][fill[q].page]
                         /\ count'[map[q][fill[q].page]] <= count[map[q][fill[q].page]]
    BY <1>1 DEF FillsAlike
  <2>1. fill[q].page \in Pages /\ map[q][fill[q].page] \in Frames
    BY FillFrame
  <2> QED BY <1>3, <2>1
<1> QED BY <1>1, <1>2, <1>5, <1>6, <1>7, ProcessStep

LEMMA MmapFilledView ==
    ASSUME CowInv, ViewInv, NEW p \in Procs, MmapFilled(p)
    PROVE  ViewInv' /\ Private!Next
<1> DEFINE f == map[p][fill[p].page]
           k == fill[p].file
<1>1. /\ p \in alive /\ fork.phase # "copy" /\ Record
      /\ fill[p] # NoFill /\ ~fill[p].over
      /\ content' = [content EXCEPT ![f] = file[k]]
      /\ count' = IF MayPut(k, f) THEN [count EXCEPT ![f] = 2] ELSE count
      /\ fill' = [fill EXCEPT ![p] = NoFill]
      /\ UNCHANGED <<alive, prot, map, file, fork>>
  BY DEF MmapFilled, Kernel, fileVars, pageVars
<1>2. CowInv'
  BY MmapFilledKeeps
<1>3. f \in Frames /\ f # NoFrame /\ k \in Files /\ fill[p].page \in Pages
  BY <1>1, FillFrame, CowAssumption DEF CowInv, FillOK
<1>4. count[f] < 2
  BY <1>1 DEF ViewInv, FillAlone
<1>5. \A q \in Procs, w \in Pages : map[q][w] = f => q = p
  BY <1>3, <1>4, LoneIsAlone
<1> HIDE DEF f, k
<1>6. ContentOK'
  BY <1>1, <1>3 DEF ViewInv, ContentOK
<1>7. OthersAlike(p)
  <2>1. \A h \in Frames : h # f => content'[h] = content[h]
    BY <1>1 DEF ViewInv, ContentOK
  <2>2. \A q \in Procs, w \in Pages : map[q][w] # NoFrame => map[q][w] \in Frames
    BY Types DEF MapType
  <2> QED BY <1>1, <1>5, <2>1, <2>2 DEF OthersAlike
<1>8. FillsAlike
  <2> SUFFICES ASSUME NEW q \in Procs, fill'[q] # NoFill
               PROVE  fill'[q] = fill[q] /\ count'[map[q][fill[q].page]] <= count[map[q][fill[q].page]]
    BY <1>1 DEF FillsAlike
  <2>1. q # p /\ fill'[q] = fill[q]
    BY <1>1, Types
  <2>2. fill[q].page \in Pages /\ map[q][fill[q].page] \in Frames
    BY <2>1, FillFrame
  <2>3. map[q][fill[q].page] # f
    BY <1>5, <2>1, <2>2
  <2>4. count'[map[q][fill[q].page]] = count[map[q][fill[q].page]]
        /\ count[map[q][fill[q].page]] \in Nat
    BY <1>1, <2>2, <2>3, Types
  <2> QED BY <2>1, <2>4
<1> QED BY <1>1, <1>2, <1>6, <1>7, <1>8, ProcessStep

\* Counts only go down when mappings go.
LEMMA LeftLowers ==
    ASSUME NEW K, NEW N \in [Frames -> Nat], NEW d \in [Frames -> Nat], NEW f \in Frames
    PROVE  CountsLeft(K, N, d)[f] <= N[f]
BY DEF CountsLeft

LEMMA DropsType ==
    ASSUME NEW p \in Procs, NEW R \in SUBSET Pages
    PROVE  Drops(p, R) \in [Frames -> Nat]
<1>1. ASSUME NEW f \in Frames PROVE MapsOf(p, R, f) \in Nat
  BY CowAssumption, FS_Subset, FS_CardinalityType DEF MapsOf
<1> QED BY <1>1 DEF Drops

LEMMA ReleaseShows ==
    ASSUME CowInv, ContentOK, NEW p \in Procs, NEW R \in SUBSET Pages, Release(p, R), UNCHANGED file
    PROVE  /\ ContentOK'
           /\ \A f \in Frames : count'[f] <= count[f]
           /\ \A f \in Frames : content'[f] = content[f] \/ f \in free'
<1>1. \A f \in Frames : count'[f] <= count[f]
  <2> DEFINE d == Drops(p, R)
  <2>1. d \in [Frames -> Nat] /\ count' = CountsLeft(cache, count, d) /\ count \in [Frames -> Nat]
    BY DropsType, ReleaseShape, Types
  <2> HIDE DEF d
  <2> QED BY <2>1, LeftLowers
<1>2. ContentOK' /\ \A f \in Frames : content'[f] = content[f] \/ f \in free'
  <2> DEFINE D(f) == MapsOf(p, R, f)
             G == FreedBy(D)
  <2>1. content' = [f \in Frames |-> IF f \in G THEN Zero ELSE content[f]] /\ free' = free \cup G
    BY DEF Release, ContentAfter, FreeAfter
  <2> HIDE DEF G
  <2> QED BY <2>1, CowAssumption DEF ContentOK
<1> QED BY <1>1, <1>2

LEMMA UnmapView ==
    ASSUME CowInv, CowInv', ViewInv, NEW p \in alive, NEW v \in Pages, fork.phase # "copy",
           prot' = [prot EXCEPT ![p][v] = "none"], Release(p, {v}), Unmap(p, {v}),
           UNCHANGED <<alive, fork, file>>, Record,
           fill'[p] = NoFill \/ (fill'[p] = fill[p] /\ fill[p].page # v),
           \A q \in Procs \ {p} : fill'[q] = fill[q]
    PROVE  ViewInv' /\ Private!Next
<1>1. p \in Procs /\ {v} \in SUBSET Pages
  BY Types
<1>2. /\ ContentOK'
      /\ \A f \in Frames : count'[f] <= count[f]
      /\ \A f \in Frames : content'[f] = content[f] \/ f \in free'
  BY <1>1, ReleaseShows DEF ViewInv
<1>3. /\ \A q \in Procs, w \in Pages : q # p \/ w # v => map'[q][w] = map[q][w]
      /\ \A q \in Procs \ {p} : map'[q] = map[q]
  BY <1>1, UnmapShape
<1>4. OthersAlike(p)
  <2>1. \A q \in Procs \ {p} : prot'[q] = prot[q]
    BY <1>1, Types
  <2> QED BY <1>2, <1>3, <2>1, FreeChanges DEF OthersAlike
<1>5. FillsAlike
  <2> SUFFICES ASSUME NEW q \in Procs, fill'[q] # NoFill
               PROVE  /\ fill'[q] = fill[q] /\ map'[q][fill[q].page] = map[q][fill[q].page]
                      /\ count'[map[q][fill[q].page]] <= count[map[q][fill[q].page]]
    BY DEF FillsAlike
  <2>1. fill'[q] = fill[q] /\ (q # p \/ fill[q].page # v)
    BY <1>1
  <2>2. fill[q].page \in Pages /\ map[q][fill[q].page] \in Frames
    BY <2>1, FillFrame
  <2> QED BY <1>2, <1>3, <2>1, <2>2
<1> QED BY <1>2, <1>4, <1>5, ProcessStep

LEMMA MunmapView ==
    ASSUME CowInv, ViewInv, NEW p \in Procs, NEW v \in Pages, Munmap(p, v)
    PROVE  ViewInv' /\ Private!Next
<1>1. /\ p \in alive /\ fork.phase # "copy" /\ (fill[p] = NoFill \/ fill[p].page # v)
      /\ prot' = [prot EXCEPT ![p][v] = "none"] /\ Release(p, {v}) /\ Unmap(p, {v})
      /\ UNCHANGED <<alive, fork, file>> /\ fill' = fill /\ Record
  BY DEF Munmap, Kernel, Settled, fileVars
<1>2. CowInv'
  BY MunmapKeeps
<1> QED BY <1>1, <1>2, UnmapView

LEMMA MmapOverFailsView ==
    ASSUME CowInv, ViewInv, NEW p \in Procs, MmapOverFails(p)
    PROVE  ViewInv' /\ Private!Next
<1> DEFINE v == fill[p].page
<1>1. /\ p \in alive /\ fork.phase # "copy"
      /\ fill' = [fill EXCEPT ![p] = NoFill]
      /\ prot' = [prot EXCEPT ![p][v] = "none"] /\ Release(p, {v}) /\ Unmap(p, {v})
      /\ UNCHANGED <<alive, fork, file>> /\ Record
  BY DEF MmapOverFails, Kernel, fileVars
<1>2. v \in Pages
  BY Types DEF FillType
<1>3. CowInv'
  BY MmapOverFailsKeeps
<1> HIDE DEF v
<1>4. fill'[p] = NoFill /\ \A q \in Procs \ {p} : fill'[q] = fill[q]
  BY <1>1, Types
<1> QED BY <1>1, <1>2, <1>3, <1>4, UnmapView

\* execve(), which writes the arguments into a frame that it has made private.
LEMMA ExecView ==
    ASSUME CowInv, ViewInv, Scarce = FALSE, NEW p \in Procs, NEW g \in Frames, NEW x \in Values, Exec(p, g, x)
    PROVE  ViewInv' /\ Private!Next
<1> DEFINE R == Reserved(p) \ {Stack}
           D(f) == MapsOf(p, R, f)
           G == FreedBy(D)
           N1 == CountAfter(D)
           s == map[p][Stack]
           shared == Stack \notin rw[p] /\ IsShared(s)
           copied == shared /\ FreeAfter(D) # {}
           t == IF copied THEN g ELSE s
<1>1. /\ p \in alive /\ fork.phase # "copy" /\ Record /\ fill[p] = NoFill /\ s # NoFrame
      /\ prot' = [prot EXCEPT ![p] = OnlyStack]
      /\ UNCHANGED <<alive, file, fill, fork>>
  BY DEF Exec, Kernel, fileVars
<1>2. /\ shared => copied
      /\ map' = [map EXCEPT ![p] = [v \in Pages |-> IF v \in R THEN NoFrame
                                                    ELSE IF v = Stack /\ copied THEN g ELSE map[p][v]]]
      /\ rw' = [rw EXCEPT ![p] = (rw[p] \ R) \cup (IF shared /\ ~copied THEN {} ELSE {Stack})]
      /\ count' = [N1 EXCEPT ![s] = IF copied THEN N1[s] - 1 ELSE IF shared THEN N1[s] ELSE 0]
      /\ free' = (free \cup G) \ (IF copied THEN {g} ELSE {})
      /\ content' = [[f \in Frames |-> IF f \in G THEN Zero ELSE content[f]] EXCEPT ![t] = x]
  BY DEF Exec, FreeAfter, ContentAfter
<1>3. Stack \in Pages /\ Stack \notin R /\ R \in SUBSET Pages /\ s \in Frames
  BY <1>1, CowAssumption, Types DEF Reserved, MapType
<1>4. \A f \in Frames : N1[f] <= count[f] /\ N1[f] \in Int /\ count[f] \in Nat
  <2>1. \A f \in Frames : D(f) \in Nat
    BY <1>3, CowAssumption, FS_Subset, FS_CardinalityType DEF MapsOf
  <2> HIDE DEF D
  <2>2. \A f \in Frames : N1[f] = IF D(f) = 0 THEN count[f] ELSE IF f \in G THEN 0 ELSE count[f] - D(f)
    BY DEF CountAfter
  <2>3. \A f \in Frames : count[f] \in Nat
    BY Types
  <2> HIDE DEF N1, G
  <2> QED BY <2>1, <2>2, <2>3
<1>5. N1 = [f \in Frames |-> N1[f]]
  BY DEF CountAfter
<1>6. copied \in BOOLEAN /\ shared \in BOOLEAN /\ t \in Frames
  BY <1>3
<1>7. t = IF copied THEN g ELSE s
  OBVIOUS
<1>8. CowInv'
  BY ExecKeeps
<1> HIDE DEF copied, shared, G, N1, t, R, s
<1>9. \A f \in Frames : count'[f] <= count[f]
  BY <1>2, <1>3, <1>4, <1>5, <1>6
<1>10. ContentOK' /\ \A f \in Frames : content'[f] = content[f] \/ f \in free' \/ f = t
  <2>1. content \in [Frames -> Values] /\ file' \in [Files -> Values] /\ Zero \in Values
    BY <1>1, CowAssumption DEF ViewInv, ContentOK
  <2>2. \A f \in Frames : content'[f] = IF f = t THEN x ELSE IF f \in G THEN Zero ELSE content[f]
    BY <1>2, <1>6
  <2>3. content' = [f \in Frames |-> content'[f]]
    BY <1>2
  <2>4. content' \in [Frames -> Values]
    BY <2>1, <2>2, <2>3
  <2> QED BY <1>2, <1>7, <2>1, <2>2, <2>4 DEF ContentOK
<1>11. map'[p][Stack] = t /\ \A q \in Procs \ {p} : map'[q] = map[q]
  BY <1>2, <1>3, <1>6, <1>7, Types DEF MapType, s
<1>12. Stack \in rw'[p]
  BY <1>2, <1>6, Types
<1>13. \A q \in Procs, w \in Pages : map'[q][w] = t => q = p
  <2>1. map'[p][Stack] # NoFrame /\ count'[map'[p][Stack]] < 2
    BY <1>8, <1>12 DEF CowInv, WritesOK
  <2> QED BY <1>3, <1>8, <1>11, <2>1, HeldNext DEF LonePages
<1>14. OthersAlike(p)
  <2> SUFFICES ASSUME NEW q \in Procs \ {p}
               PROVE  /\ prot'[q] = prot[q] /\ map'[q] = map[q]
                      /\ \A w \in Pages : map[q][w] # NoFrame => content'[map[q][w]] = content[map[q][w]]
    BY DEF OthersAlike
  <2>1. prot'[q] = prot[q] /\ map'[q] = map[q]
    BY <1>1, <1>11, Types
  <2>2. ASSUME NEW w \in Pages, map[q][w] # NoFrame PROVE content'[map[q][w]] = content[map[q][w]]
    <3>1. map[q][w] \in Frames /\ map'[q][w] = map[q][w] /\ map[q][w] # t
      BY <1>13, <2>1, <2>2, Types DEF MapType
    <3>2. map'[q][w] \notin free'
      BY <1>8, HeldNext DEF MappedIsHeld
    <3> QED BY <1>10, <3>1, <3>2
  <2> QED BY <2>1, <2>2
<1>15. FillsAlike
  <2> SUFFICES ASSUME NEW q \in Procs, fill[q] # NoFill
               PROVE  /\ map'[q][fill[q].page] = map[q][fill[q].page]
                      /\ count'[map[q][fill[q].page]] <= count[map[q][fill[q].page]]
    BY <1>1 DEF FillsAlike
  <2>1. q # p /\ fill[q].page \in Pages /\ map[q][fill[q].page] \in Frames
    BY <1>1, FillFrame
  <2> QED BY <1>9, <1>11, <2>1
<1> QED BY <1>1, <1>8, <1>10, <1>14, <1>15, ProcessStep

LEMMA ExitView ==
    ASSUME CowInv, ViewInv, NEW p \in Procs, Exit(p)
    PROVE  ViewInv' /\ Private!Next
<1>1. /\ p \in alive /\ fork.phase # "copy" /\ fork.by # p
      /\ alive' = alive \ {p} /\ Release(p, Reserved(p))
      /\ map' = [map EXCEPT ![p] = Nothing]
      /\ prot' = [prot EXCEPT ![p] = OnlyStack]
      /\ fill' = [fill EXCEPT ![p] = NoFill]
      /\ UNCHANGED <<file, fork>> /\ Record
  BY DEF Exit, Kernel, GateOpen, fileVars
<1>2. CowInv'
  BY ExitKeeps
<1>3. /\ ContentOK'
      /\ \A f \in Frames : count'[f] <= count[f]
      /\ \A f \in Frames : content'[f] = content[f] \/ f \in free'
  <2>1. Reserved(p) \in SUBSET Pages
    BY DEF Reserved
  <2> QED BY <1>1, <2>1, ReleaseShows DEF ViewInv
<1>4. \A q \in Procs \ {p} : map'[q] = map[q] /\ prot'[q] = prot[q] /\ fill'[q] = fill[q]
  BY <1>1, Types DEF MapType
<1>5. OthersAlike(p)
  BY <1>2, <1>3, <1>4, FreeChanges DEF OthersAlike
<1>6. FillsAlike
  <2> SUFFICES ASSUME NEW q \in Procs, fill'[q] # NoFill
               PROVE  /\ fill'[q] = fill[q] /\ map'[q][fill[q].page] = map[q][fill[q].page]
                      /\ count'[map[q][fill[q].page]] <= count[map[q][fill[q].page]]
    BY DEF FillsAlike
  <2>1. q # p
    BY <1>1, Types
  <2>2. fill[q].page \in Pages /\ map[q][fill[q].page] \in Frames
    BY <1>4, <2>1, FillFrame
  <2> QED BY <1>3, <1>4, <2>1, <2>2
<1>7. fork.phase # "none" => prot'[fork.child] = prot[fork.child]
  BY <1>1, <1>4 DEF CowInv, ForkOK
<1>8. ViewInv'
  BY <1>1, <1>2, <1>3, <1>6, <1>7, OutsideKept
<1>9. \A q \in Procs \ {p} : View(q)' = View(q)
  BY <1>1, <1>5, SameView DEF OthersAlike
<1>10. View(p)' = Private!Empty
  BY <1>1 DEF View, Private!Empty
<1>11. Views' = [Views EXCEPT ![p] = Private!Empty]
  BY <1>9, <1>10 DEF Views
<1>12. fork.by \in Procs \cup {NoProc} /\ fork.by # p
  BY <1>1, Types DEF ForkType
<1>13. snap' = snap
  <2>1. CASE fork.by = NoProc
    BY <1>1, <2>1 DEF Record, ViewInv, SnapOK, NoSnap
  <2>2. CASE fork.by # NoProc
    <3>1. \A v \in Pages : Views'[fork.by][v] \in snap[v]
      BY <1>9, <1>12, <2>2, ViewIs DEF ViewInv, SnapOK
    <3>2. snap' = [v \in Pages |-> snap[v] \cup {Views'[fork.by][v]}]
      BY <1>1, <2>2 DEF Record
    <3>3. snap' = [v \in Pages |-> snap[v]]
      BY <3>1, <3>2
    <3> QED BY <3>3 DEF ViewInv, SnapOK
  <2> QED BY <2>1, <2>2
<1>14. Private!Dies(p)
  BY <1>1, <1>11, <1>12, <1>13 DEF Private!Dies
<1> QED BY <1>8, <1>14 DEF Private!Next

\* A step of the kernel that changes no page of a process.
LEMMA FileWriteBeginsView ==
    ASSUME CowInv, ViewInv, NEW k \in Files, FileWriteBegins(k)
    PROVE  ViewInv' /\ UNCHANGED Private!vars
<1>1. /\ fork.phase # "copy" /\ Record
      /\ count' = [f \in Frames |-> IF f = cache[k] /\ count[f] > 0 THEN count[f] - 1 ELSE count[f]]
      /\ UNCHANGED <<alive, prot, map, content, file, fill, fork>>
  BY DEF FileWriteBegins, pageVars
<1>2. CowInv'
  BY FileWriteBeginsKeeps
<1>3. ContentOK'
  BY <1>1 DEF ViewInv, ContentOK
<1>4. FillsAlike
  <2>1. \A f \in Frames : count'[f] <= count[f]
    BY <1>1, Types
  <2> QED BY <1>1, <2>1, FillFrame DEF FillsAlike
<1>5. ViewInv'
  BY <1>1, <1>2, <1>3, <1>4, OutsideKept
<1>6. \A q \in Procs : View(q)' = View(q)
  BY <1>1, SameView
<1> QED BY <1>1, <1>5, <1>6, HiddenStep DEF ViewInv

LEMMA FileWriteEndsView ==
    ASSUME CowInv, CowInv', ViewInv, NEW k \in Files, NEW x \in Values, FileWriteEnds(k, x)
    PROVE  ViewInv' /\ UNCHANGED Private!vars
<1>1. /\ fork.phase # "copy" /\ Record
      /\ file' = [file EXCEPT ![k] = x]
      /\ UNCHANGED <<alive, prot, map, count, content, fill, fork>>
  BY DEF FileWriteEnds, pageVars, frameVars
<1>2. ContentOK'
  BY <1>1 DEF ViewInv, ContentOK
<1>3. FillsAlike
  BY <1>1, FillFrame, Types DEF FillsAlike
<1>4. ViewInv'
  BY <1>1, <1>2, <1>3, OutsideKept
<1>5. \A q \in Procs : View(q)' = View(q)
  BY <1>1, SameView
<1> QED BY <1>1, <1>4, <1>5, HiddenStep DEF ViewInv

-----------------------------------------------------------------------------
(* While a fork copies.                                                    *)

\* What the child has got from the parent stays so: where its frame changes, the
\* parent's page changes.
LEMMA FromParentKept ==
    ASSUME SnapOK', Record, fork'.by = fork.by, fork.by \in alive, alive \subseteq Procs,
           fork.by # NoProc, UNCHANGED <<alive, prot>>,
           \A q \in alive : map'[q] = map[q],
           NEW v \in Pages, NEW f \in Frames, FromParent(v, f),
           \/ content'[f] = content[f]
           \/ \E q \in alive, w \in Pages : map[q][w] = f
    PROVE  FromParent(v, f)'
<1>1. \/ f = map[fork.by][v] /\ v \in Reserved(fork.by)
      \/ \A q \in alive, w \in Pages : map[q][w] # f
  BY DEF FromParent
<1>2. Reserved(fork.by)' = Reserved(fork.by) /\ map'[fork.by] = map[fork.by]
  BY DEF Reserved
<1>3. \/ f = map'[fork'.by][v] /\ v \in Reserved(fork.by)'
      \/ \A q \in alive', w \in Pages : map'[q][w] # f
  BY <1>1, <1>2
<1>4. content'[f] \in snap'[v]
  <2>1. CASE content'[f] = content[f]
    BY <2>1, SnapGrows DEF FromParent
  <2>2. CASE f = map[fork.by][v] /\ v \in Reserved(fork.by)
    <3>1. View(fork.by)'[v] = content'[f]
      BY <1>2, <2>2, CowAssumption DEF View
    <3> QED BY <3>1 DEF SnapOK
  <2> QED BY <1>1, <2>1, <2>2
<1> QED BY <1>3, <1>4 DEF FromParent

\* A step of the copy, or of the parent meanwhile: what is new in the child comes
\* from the parent, and no page is forgotten.
CopyGoesOn ==
    /\ fork'.phase = "copy" /\ fork'.by = fork.by /\ fork'.child = fork.child
    /\ UNCHANGED <<alive, prot>> /\ \A q \in alive : map'[q] = map[q]
    /\ fork'.todo \subseteq fork.todo
    /\ \A v \in Pages, f \in Frames : Given(v, f)' =>
          \/ FromParent(v, f)'
          \/ /\ Given(v, f)
             /\ content'[f] = content[f] \/ \E q \in alive, w \in Pages : map[q][w] = f
    /\ fork'.ok =>
          /\ fork.ok
          /\ \A v \in fork.todo \ fork'.todo : \E f \in Frames : Given(v, f)'
          /\ \A v \in Pages, f \in Frames : Given(v, f) => Given(v, f)'

LEMMA CopyStep ==
    ASSUME CowInv, CowInv', ViewInv, fork.phase = "copy", Record, CopyGoesOn
    PROVE  SnapOK' /\ CopyOK'
<1>1. /\ fork.by \in alive /\ fork.by # NoProc /\ alive \subseteq Procs /\ fork.child \in Procs
  BY CopyFacts, CowAssumption, Types
<1>2. SnapOK'
  BY SnapKept, Types DEF ForkType, CopyGoesOn
<1>3. \A v \in Pages : snap[v] \subseteq snap'[v]
  BY <1>1, SnapGrows DEF CopyGoesOn
<1>4. \A v \in Pages : prot'[fork'.child][v] = "none" => Absent \in snap'[v]
  BY <1>3 DEF ViewInv, CopyOK, CopyGoesOn
<1>5. fork'.todo \subseteq Reserved(fork.by)'
  BY DEF ViewInv, CopyOK, CopyGoesOn, Reserved
<1>6. ASSUME NEW v \in Pages, NEW f \in Frames, Given(v, f)' PROVE FromParent(v, f)'
  <2> SUFFICES ASSUME Given(v, f), content'[f] = content[f] \/ \E q \in alive, w \in Pages : map[q][w] = f
               PROVE  FromParent(v, f)'
    BY <1>6 DEF CopyGoesOn
  <2>1. FromParent(v, f)
    BY DEF ViewInv, CopyOK
  <2> QED BY <1>1, <1>2, <2>1, FromParentKept DEF CopyGoesOn
<1>7. ASSUME fork'.ok, NEW v \in Pages
      PROVE  v \in fork'.todo \/ Absent \in snap'[v] \/ \E f \in Frames : Given(v, f)'
  BY <1>3, <1>7 DEF ViewInv, CopyOK, CopyGoesOn
<1>8. CopyOK'
  BY <1>4, <1>5, <1>6, <1>7 DEF CopyOK
<1> QED BY <1>2, <1>8

\* f is the frame that a write of p to its page v goes to.
LEMMA WrittenFrame ==
    ASSUME CowInv, ViewInv, NEW p \in alive, NEW v \in Pages, NEW f, f # NoFrame,
           f = tlb[p][v] \/ (v \in rw[p] /\ f = map[p][v])
    PROVE  /\ f = map[p][v] /\ f \in Frames
           /\ \A q \in alive, w \in Pages : map[q][w] = f => q = p /\ w = v
<1>0. p \in Procs /\ alive \subseteq Procs
  BY Types
<1>1. CASE f = tlb[p][v]
  <2>1. f = map[p][v]
    BY <1>0, <1>1 DEF CowInv, TlbOK
  <2>2. f \in Frames
    BY <1>0, <2>1, Types DEF MapType
  <2>3. tlb[p][v] # NoFrame
    BY <1>1
  <2>4. \A q \in alive, w \in Pages : map[q][w] = tlb[p][v] => q = p /\ w = v
    BY <1>0, <2>3 DEF ViewInv, TlbAlone
  <2> QED BY <1>1, <2>1, <2>2, <2>4
<1>2. CASE v \in rw[p] /\ f = map[p][v]
  <2>1. map[p][v] # NoFrame /\ count[map[p][v]] < 2
    BY <1>0, <1>2 DEF CowInv, WritesOK
  <2> QED BY <1>0, <1>2, <2>1, LoneIsAlone
<1> QED BY <1>1, <1>2

LEMMA WriteView ==
    ASSUME CowInv, CowInv', ViewInv, NEW p \in Procs, NEW v \in Pages, NEW x \in Values, Write(p, v, x)
    PROVE  ViewInv' /\ Private!Next
<1>1. /\ p \in alive /\ Record
      /\ UNCHANGED <<alive, prot, map, rw, tlb, count, file, fill, fork>>
  BY DEF Write, pageVars, fileVars
<1>2. PICK f : /\ f # NoFrame /\ (f = tlb[p][v] \/ (v \in rw[p] /\ f = map[p][v]))
               /\ content' = [content EXCEPT ![f] = x]
  BY DEF Write
<1>3. /\ f = map[p][v] /\ f \in Frames
      /\ \A q \in alive, w \in Pages : map[q][w] = f => q = p /\ w = v
  BY <1>1, <1>2, WrittenFrame
<1>4. ContentOK' /\ \A h \in Frames : h # f => content'[h] = content[h]
  BY <1>1, <1>2, <1>3 DEF ViewInv, ContentOK
<1>5. \A q \in Procs, w \in Pages : map[q][w] # NoFrame => map[q][w] \in Frames
  BY Types DEF MapType
<1>6. \A q \in Procs \ {p} : View(q)' = View(q)
  BY <1>1, <1>3, <1>4, <1>5, SameView
<1>7. Private!Next
  BY <1>1, <1>4, <1>6, OwnStep DEF ViewInv
<1>8. CASE fork.phase # "copy"
  <2>1. FillsAlike
    BY <1>1, FillFrame, Types DEF FillsAlike
  <2>2. ViewInv'
    BY <1>1, <1>4, <1>8, <2>1, OutsideKept
  <2> QED BY <1>7, <2>2
<1>9. CASE fork.phase = "copy"
  <2>1. FillAlone' /\ TlbAlone'
    BY <1>1 DEF ViewInv, FillAlone, TlbAlone, Reserved
  <2>2. CopyGoesOn
    <3>1. \A w \in Pages, h \in Frames : Given(w, h)' <=> Given(w, h)
      BY <1>1 DEF Given
    <3>2. \A h \in Frames : content'[h] = content[h] \/ \E q \in alive, w \in Pages : map[q][w] = h
      BY <1>1, <1>3, <1>4
    <3> QED BY <1>1, <1>9, <3>1, <3>2 DEF CopyGoesOn
  <2>3. SnapOK' /\ CopyOK'
    BY <1>1, <1>9, <2>2, CopyStep
  <2> QED BY <1>4, <1>7, <2>1, <2>3 DEF ViewInv
<1> QED BY <1>8, <1>9

LEMMA ForkTableView ==
    ASSUME CowInv, ViewInv, NEW p \in Procs, NEW c \in Procs, ForkTable(p, c)
    PROVE  ViewInv' /\ Private!Next
<1>1. /\ p \in alive /\ fork = NoFork /\ fill[p] = NoFill /\ c \notin alive /\ Record
      /\ prot' = [prot EXCEPT ![c] = prot[p]]
      /\ fork' = [NoFork EXCEPT !.by = p, !.child = c, !.phase = "table"]
      /\ UNCHANGED <<alive, map, count, content, file, fill>>
  BY DEF ForkTable, Kernel, frameVars, fileVars
<1>2. fork'.by = p /\ fork'.child = c /\ fork'.phase = "table" /\ fork.by = NoProc /\ p # NoProc
  BY <1>1, CowAssumption DEF NoFork
<1>3. CowInv'
  BY ForkTableKeeps
<1>4. \A q \in Procs : View(q)' = View(q)
  <2>1. \A q \in alive : prot'[q] = prot[q]
    BY <1>1, Types
  <2>2. \A q \in Procs \ alive : View(q)' = View(q)
    BY <1>1 DEF View
  <2> QED BY <1>1, <2>1, <2>2, SameView
<1>5. Views' = Views
  BY <1>4 DEF Views
<1>6. snap' = [v \in Pages |-> {Views[p][v]}]
  BY <1>1, <1>2, <1>5 DEF Record
<1>7. Private!ForkBegins(p)
  BY <1>1, <1>2, <1>5, <1>6 DEF Private!ForkBegins
<1>8. SnapOK'
  BY <1>1, <1>2, SnapKept
<1>9. ContentOK'
  BY <1>1 DEF ViewInv, ContentOK
<1>10. FillAlone' /\ TlbAlone'
  BY <1>1, <1>2, <1>3 DEF ViewInv, FillAlone, TlbAlone, CowInv, TlbOK
<1>11. CopyOK'
  <2>1. \A v \in Pages : prot'[c][v] = "none" => Absent \in snap'[v]
    <3>1. prot'[c] = prot[p]
      BY <1>1, Types
    <3>2. \A v \in Pages : prot[p][v] = "none" => Views[p][v] = Absent
      BY DEF Views, View, Reserved
    <3> QED BY <1>6, <3>1, <3>2
  <2> QED BY <1>2, <2>1 DEF CopyOK
<1> QED BY <1>7, <1>8, <1>9, <1>10, <1>11 DEF ViewInv, Private!Next

LEMMA ForkCopyView ==
    ASSUME CowInv, ViewInv, ForkCopy
    PROVE  ViewInv' /\ UNCHANGED Private!vars
<1> DEFINE T == {v \in Reserved(fork.by) : map[fork.by][v] # NoFrame}
<1>1. /\ fork.phase = "table" /\ Record
      /\ fork' = [fork EXCEPT !.phase = "copy", !.todo = T]
      /\ UNCHANGED <<alive, prot, map, tlb, count, content, file, fill>>
  BY DEF ForkCopy, pageVars, frameVars, fileVars
<1>2. /\ fork'.by = fork.by /\ fork'.child = fork.child /\ fork'.phase = "copy" /\ fork'.todo = T
      /\ fork'.pend = fork.pend
  BY <1>1, Types DEF ForkType
<1>3. /\ fork.by \in alive /\ fork.by \in Procs /\ fork.by # NoProc /\ fork.child \in Procs \ alive
      /\ fork.pend = <<>>
  BY <1>1, Types, CowAssumption DEF CowInv, ForkOK
<1>4. CowInv'
  BY ForkCopyKeeps
<1>5. \A q \in Procs : View(q)' = View(q)
  BY <1>1, SameView
<1>6. SnapOK'
  BY <1>1, <1>2, <1>3, SnapKept
<1>7. ContentOK' /\ FillAlone'
  BY <1>1 DEF ViewInv, ContentOK, FillAlone
<1>8. TlbAlone'
  <2>1. \A q \in Procs, v \in Pages : tlb'[q][v] = NoFrame
    BY <1>1 DEF CowInv, TlbOK
  <2> QED BY <2>1 DEF TlbAlone
<1>9. CopyOK'
  <2>1. \A v \in Pages : snap[v] \subseteq snap'[v]
    BY <1>1, <1>2, <1>3, SnapGrows
  <2>2. \A v \in Pages : prot'[fork'.child][v] = "none" => Absent \in snap'[v]
    BY <1>1, <1>2, <2>1 DEF ViewInv, CopyOK
  <2>3. fork'.todo \subseteq Reserved(fork.by)'
    BY <1>1, <1>2 DEF Reserved
  <2>4. \A v \in Pages, f \in Frames : ~Given(v, f)'
    <3>1. map[fork.child] = Nothing
      BY <1>1, <1>3 DEF CowInv, ProcessesOK
    <3> QED BY <1>1, <1>2, <1>3, <3>1, CowAssumption DEF Given, Nothing
  <2>5. \A v \in Pages : v \in T \/ Absent \in snap'[v]
    <3>1. \A v \in Pages \ T : View(fork.by)[v] = Absent
      BY DEF View
    <3>2. \A v \in Pages : View(fork.by)[v] \in snap[v]
      BY <1>3 DEF ViewInv, SnapOK
    <3> QED BY <2>1, <3>1, <3>2
  <2> HIDE DEF T
  <2> QED BY <1>2, <2>2, <2>3, <2>4, <2>5 DEF CopyOK
<1> QED BY <1>1, <1>2, <1>5, <1>6, <1>7, <1>8, <1>9, HiddenStep DEF ViewInv

\* Nobody but the child, which nobody sees, notices a step of the copy.
LEMMA CopyHides ==
    ASSUME CowInv, CowInv', ViewInv, fork.phase = "copy", Record, CopyGoesOn,
           \A f \in Frames : content'[f] = content[f] \/ f \in free \/ f \in free'
    PROVE  UNCHANGED Private!vars
<1>1. alive \subseteq Procs
  BY Types
<1>2. ASSUME NEW q \in Procs PROVE View(q)' = View(q)
  <2>1. CASE q \in alive
    <3>1. \A w \in Pages : map[q][w] # NoFrame => content'[map[q][w]] = content[map[q][w]]
      BY <2>1, FreeChanges DEF CopyGoesOn
    <3> QED BY <2>1, <3>1, SameView DEF CopyGoesOn
  <2>2. CASE q \notin alive
    BY <2>2 DEF View, CopyGoesOn
  <2> QED BY <2>1, <2>2
<1> QED BY <1>2, HiddenStep DEF CopyGoesOn, ViewInv

\* A page is collected: the child will have it.
LEMMA PendGives ==
    ASSUME fork.pend \in Seq(Entries), NEW v, NEW f, NEW r,
           fork'.pend = Append(fork.pend, [page |-> v, frame |-> f, rw |-> r]),
           fork'.child = fork.child, map' = map
    PROVE  \A w \in Pages, h \in Frames : Given(w, h)' <=> Given(w, h) \/ (w = v /\ h = f)
<1> DEFINE e == [page |-> v, frame |-> f, rw |-> r]
           P == fork.pend
           n == Len(P) + 1
<1>1. /\ DOMAIN fork'.pend = 1 .. n /\ DOMAIN P = 1 .. Len(P) /\ Len(P) \in Nat /\ fork'.pend[n] = e
      /\ \A i \in 1 .. Len(P) : fork'.pend[i] = P[i]
  OBVIOUS
<1>2. e.page = v /\ e.frame = f
  OBVIOUS
<1>3. \A i : i \in 1 .. n <=> i \in 1 .. Len(P) \/ i = n
  BY <1>1
<1> HIDE DEF n, e
<1>4. ASSUME NEW w \in Pages, NEW h \in Frames
      PROVE  (\E i \in DOMAIN fork'.pend : fork'.pend[i].page = w /\ fork'.pend[i].frame = h)
             <=> \/ \E i \in DOMAIN P : P[i].page = w /\ P[i].frame = h
                 \/ w = v /\ h = f
  BY <1>1, <1>2, <1>3
<1> QED BY <1>4 DEF Given

LEMMA ForkSharesView ==
    ASSUME CowInv, ViewInv, NEW v \in Pages, ForkShares(v)
    PROVE  ViewInv' /\ UNCHANGED Private!vars
<1> DEFINE p == fork.by
<1>0. PICK f : f = map[p][v]
  OBVIOUS
<1>1. /\ fork.phase = "copy" /\ fork.ok /\ v \in fork.todo /\ Record
      /\ count' = [count EXCEPT ![f] = ShareCount(f)]
      /\ tlb' = [tlb EXCEPT ![p][v] = IF v \in rw[p] THEN f ELSE NoFrame]
      /\ fork' = [fork EXCEPT !.todo = fork.todo \ {v},
                              !.pend = Append(fork.pend, [page |-> v, frame |-> f, rw |-> FALSE])]
      /\ UNCHANGED <<alive, prot, map, content, file, fill>>
  BY <1>0 DEF ForkShares, Copying, Pend, fileVars
<1>2. CowInv'
  BY ForkSharesKeeps
<1>3. /\ p \in Procs /\ p \in alive /\ p # NoProc /\ fork.child \in Procs \ alive /\ alive \subseteq Procs
      /\ fill[p] = NoFill /\ fork.pend \in Seq(Entries) /\ f \in Frames /\ v \in Reserved(p)
  BY <1>0, <1>1, CopyFacts, CowAssumption, Types DEF ViewInv, CopyOK
<1>4. /\ fork'.by = p /\ fork'.child = fork.child /\ fork'.phase = "copy" /\ fork'.ok = fork.ok
      /\ fork'.todo = fork.todo \ {v}
      /\ fork'.pend = Append(fork.pend, [page |-> v, frame |-> f, rw |-> FALSE])
  BY <1>1, Types DEF ForkType
<1>6. f # NoFrame
  BY <1>3, CowAssumption
<1>7. \A w \in Pages, h \in Frames : Given(w, h)' <=> Given(w, h) \/ (w = v /\ h = f)
  BY <1>1, <1>3, <1>4, PendGives
<1>8. SnapOK'
  BY <1>1, <1>3, <1>4, SnapKept
<1>9. FromParent(v, f)'
  <2>1. content[f] \in snap'[v]
    <3>1. View(p)[v] = content[f]
      BY <1>0, <1>3, <1>6 DEF View
    <3>2. snap[v] \subseteq snap'[v]
      BY <1>1, <1>3, <1>4, SnapGrows
    <3> QED BY <1>3, <3>1, <3>2 DEF ViewInv, SnapOK
  <2>2. f = map'[fork'.by][v] /\ v \in Reserved(fork.by)' /\ content' = content
    BY <1>0, <1>1, <1>3, <1>4 DEF Reserved
  <2> QED BY <2>1, <2>2 DEF FromParent
<1>10. CopyGoesOn
  <2>1. \A w \in Pages, h \in Frames :
           Given(w, h)' => FromParent(w, h)' \/ (Given(w, h) /\ content'[h] = content[h])
    BY <1>1, <1>7, <1>9
  <2> QED BY <1>1, <1>3, <1>4, <1>7, <2>1 DEF CopyGoesOn
<1>11. SnapOK' /\ CopyOK'
  BY <1>1, <1>2, <1>10, CopyStep
<1>12. UNCHANGED Private!vars
  BY <1>1, <1>2, <1>10, CopyHides
<1>13. FillAlone'
  <2>1. FillsAlike
    <3> SUFFICES ASSUME NEW q \in Procs, fill[q] # NoFill
                 PROVE  \/ count'[map[q][fill[q].page]] <= count[map[q][fill[q].page]]
                        \/ count[map[q][fill[q].page]] >= 2
      BY <1>1 DEF FillsAlike
    <3>1. q # p /\ fill[q].page \in Pages /\ map[q][fill[q].page] \in Frames
      BY <1>3, FillFrame
    <3>2. count[f] < 2 => map[q][fill[q].page] # f
      BY <1>0, <1>3, <1>6, <3>1, LoneIsAlone
    <3>3. map[q][fill[q].page] # f => count'[map[q][fill[q].page]] = count[map[q][fill[q].page]]
      BY <1>1, <3>1, Types
    <3>4. count[map[q][fill[q].page]] \in Nat /\ count[f] \in Nat
      BY <1>3, <3>1, Types
    <3> QED BY <3>2, <3>3, <3>4
  <2> QED BY <1>2, <2>1, FillAloneKept DEF ViewInv
<1>14. TlbAlone'
  <2> SUFFICES ASSUME NEW q \in Procs, NEW w \in Pages, tlb'[q][w] # NoFrame
               PROVE  /\ w \in Reserved(q)
                      /\ \A r \in alive, u \in Pages : map[r][u] = tlb'[q][w] => r = q /\ u = w
    BY <1>1 DEF TlbAlone, Reserved
  <2>1. CASE q = p /\ w = v
    <3>1. tlb'[q][w] = f /\ v \in rw[p]
      BY <1>1, <1>3, <2>1, Types DEF MapType
    <3>2. count[f] < 2
      BY <1>0, <1>3, <3>1 DEF CowInv, WritesOK
    <3> QED BY <1>0, <1>3, <1>6, <2>1, <3>1, <3>2, LoneIsAlone
  <2>2. CASE ~(q = p /\ w = v)
    <3>1. tlb'[q][w] = tlb[q][w]
      BY <1>1, <1>3, <2>2, Types DEF MapType
    <3> QED BY <3>1 DEF ViewInv, TlbAlone
  <2> QED BY <2>1, <2>2
<1>15. ContentOK'
  BY <1>1 DEF ViewInv, ContentOK
<1> QED BY <1>11, <1>12, <1>13, <1>14, <1>15 DEF ViewInv

\* What the child has or will have is not free.
LEMMA GivenIsHeld ==
    ASSUME CowInv, fork.phase = "copy", NEW v \in Pages, NEW f \in Frames, Given(v, f)
    PROVE  f \notin free
<1>1. CASE map[fork.child][v] = f
  BY <1>1, CopyFacts, CowInvHeld DEF MappedIsHeld
<1>2. CASE \E i \in DOMAIN fork.pend : fork.pend[i].page = v /\ fork.pend[i].frame = f
  <2>1. fork.pend \in Seq(Entries)
    BY CopyFacts
  <2>2. Q(fork.pend, f) >= 1
    BY <1>2, <2>1, PendedBy
  <2>3. /\ U(map, f) \in Nat /\ Q(fork.pend, f) \in Nat /\ Keeps(cache, f) \in {0, 1}
        /\ Balance(U(map, f), Q(fork.pend, f), Keeps(cache, f), count[f], f \in free)
    BY FrameFacts DEF CowInv
  <2> QED BY <2>2, <2>3 DEF Balance
<1> QED BY <1>1, <1>2 DEF Given

LEMMA ForkCopiesView ==
    ASSUME CowInv, ViewInv, NEW v \in Pages, NEW g \in Frames, ForkCopies(v, g)
    PROVE  ViewInv' /\ UNCHANGED Private!vars
<1> DEFINE p == fork.by
           r == prot[p][v] = "rw"
<1>0. PICK f : f = map[p][v]
  OBVIOUS
<1>1. /\ fork.phase = "copy" /\ fork.ok /\ v \in fork.todo /\ Record
      /\ g \in free
      /\ content' = [content EXCEPT ![g] = content[f]]
      /\ fork' = [fork EXCEPT !.todo = fork.todo \ {v},
                              !.pend = Append(fork.pend, [page |-> v, frame |-> g, rw |-> r])]
      /\ UNCHANGED <<alive, prot, map, tlb, count, file, fill>>
  BY <1>0 DEF ForkCopies, Copying, Pend, pageVars, fileVars
<1>2. CowInv'
  BY ForkCopiesKeeps
<1>3. /\ p \in Procs /\ p \in alive /\ p # NoProc /\ fork.child \in Procs \ alive /\ alive \subseteq Procs
      /\ fork.pend \in Seq(Entries) /\ f \in Frames /\ v \in Reserved(p)
  BY <1>0, <1>1, CopyFacts, CowAssumption, Types DEF ViewInv, CopyOK
<1>4. /\ fork'.by = p /\ fork'.child = fork.child /\ fork'.phase = "copy" /\ fork'.ok = fork.ok
      /\ fork'.todo = fork.todo \ {v}
      /\ fork'.pend = Append(fork.pend, [page |-> v, frame |-> g, rw |-> r])
  BY <1>1, Types DEF ForkType
<1>5. f # NoFrame
  BY <1>3, CowAssumption
<1>6. \A w \in Pages, h \in Frames : Given(w, h)' <=> Given(w, h) \/ (w = v /\ h = g)
  BY <1>1, <1>3, <1>4, PendGives
<1>7. /\ ContentOK' /\ content'[g] = content[f]
      /\ \A h \in Frames : h # g => content'[h] = content[h]
  BY <1>1, <1>3 DEF ViewInv, ContentOK
<1>8. FromParent(v, g)'
  <2>1. content[f] \in snap'[v]
    <3>1. View(p)[v] = content[f]
      BY <1>0, <1>3, <1>5 DEF View
    <3>2. snap[v] \subseteq snap'[v]
      BY <1>1, <1>3, <1>4, SnapGrows
    <3> QED BY <1>3, <3>1, <3>2 DEF ViewInv, SnapOK
  <2>2. \A q \in alive', w \in Pages : map'[q][w] # g
    BY <1>1, <1>3, CowInvHeld DEF MappedIsHeld
  <2> QED BY <1>7, <2>1, <2>2 DEF FromParent
<1>9. CopyGoesOn
  <2>1. \A w \in Pages, h \in Frames : Given(w, h) => h # g
    BY <1>1, GivenIsHeld
  <2>2. \A w \in Pages, h \in Frames :
           Given(w, h)' => FromParent(w, h)' \/ (Given(w, h) /\ content'[h] = content[h])
    BY <1>6, <1>7, <1>8, <2>1
  <2> QED BY <1>1, <1>3, <1>4, <1>6, <2>2 DEF CopyGoesOn
<1>10. SnapOK' /\ CopyOK'
  BY <1>1, <1>2, <1>9, CopyStep
<1>11. UNCHANGED Private!vars
  BY <1>1, <1>2, <1>7, <1>9, CopyHides
<1>12. FillAlone' /\ TlbAlone'
  BY <1>1 DEF ViewInv, FillAlone, TlbAlone, Reserved
<1> QED BY <1>7, <1>10, <1>11, <1>12 DEF ViewInv

LEMMA ForkRunsOutView ==
    ASSUME CowInv, ViewInv, NEW v \in Pages, ForkRunsOut(v)
    PROVE  ViewInv' /\ UNCHANGED Private!vars
<1>1. /\ fork.phase = "copy" /\ Record
      /\ fork' = [fork EXCEPT !.ok = FALSE, !.todo = {}, !.pend = <<>>]
      /\ UNCHANGED <<alive, prot, map, tlb, count, content, file, fill>>
  BY DEF ForkRunsOut, Copying, pageVars, frameVars, fileVars
<1>2. CowInv'
  BY ForkRunsOutKeeps
<1>3. /\ fork'.by = fork.by /\ fork'.child = fork.child /\ fork'.phase = "copy" /\ fork'.ok = FALSE
      /\ fork'.todo = {} /\ fork'.pend = <<>>
  BY <1>1, Types DEF ForkType
<1>4. CopyGoesOn
  <2>1. \A w \in Pages, h \in Frames : Given(w, h)' => Given(w, h)
    BY <1>1, <1>3 DEF Given
  <2> QED BY <1>1, <1>3, <2>1 DEF CopyGoesOn
<1>5. SnapOK' /\ CopyOK'
  BY <1>1, <1>2, <1>4, CopyStep
<1>6. UNCHANGED Private!vars
  BY <1>1, <1>2, <1>4, CopyHides
<1>7. ContentOK' /\ FillAlone' /\ TlbAlone'
  BY <1>1 DEF ViewInv, ContentOK, FillAlone, TlbAlone, Reserved
<1> QED BY <1>5, <1>6, <1>7 DEF ViewInv

LEMMA VmFlushView ==
    ASSUME CowInv, ViewInv, NEW bad \in SUBSET DOMAIN fork.pend, VmFlush(bad)
    PROVE  ViewInv' /\ UNCHANGED Private!vars
<1> DEFINE P == fork.pend
           c == fork.child
           good == DOMAIN P \ bad
           At(v) == CHOOSE i \in good : P[i].page = v
           new == {P[i].page : i \in good}
           D(f) == Cardinality({i \in bad : P[i].frame = f})
           G == FreedBy(D)
<1>1. /\ fork.phase = "copy" /\ fork.ok /\ Record
      /\ map' = [map EXCEPT ![c] = [v \in Pages |-> IF v \in new THEN P[At(v)].frame ELSE map[c][v]]]
      /\ fork' = [fork EXCEPT !.pend = <<>>, !.ok = (bad = {}),
                              !.todo = IF bad = {} THEN fork.todo ELSE {}]
      /\ free' = free \cup G
      /\ content' = [f \in Frames |-> IF f \in G THEN Zero ELSE content[f]]
      /\ UNCHANGED <<alive, prot, tlb, file, fill>>
  BY DEF VmFlush, FreeAfter, ContentAfter, fileVars
<1>2. CowInv'
  BY VmFlushKeeps
<1>3. /\ c \in Procs \ alive /\ alive \subseteq Procs /\ fork.by \in alive /\ P \in Seq(Entries)
      /\ PendOK(map[c], fork.todo, P, count)
  BY <1>1, CopyFacts, Types
<1>4. \A i \in DOMAIN P : P[i].page \in Pages /\ P[i].frame \in Frames
  <2>1. \A i \in DOMAIN P : P[i] \in Entries
    BY <1>3
  <2> QED BY <2>1 DEF Entries
<1>5. new \subseteq Pages /\ \A v \in new : At(v) \in good /\ P[At(v)].page = v
  BY <1>4
<1>6. \A i \in good : P[i].page \in new
  OBVIOUS
<1>7. \A i, j \in DOMAIN P : P[i].page = P[j].page => i = j
  BY <1>3 DEF PendOK
<1>8. \A i \in DOMAIN P : map[c][P[i].page] = NoFrame
  BY <1>3 DEF PendOK
<1> HIDE DEF new, At, G
<1>9. /\ \A w \in Pages : map'[c][w] = IF w \in new THEN P[At(w)].frame ELSE map[c][w]
      /\ \A q \in Procs \ {c} : map'[q] = map[q]
  BY <1>1, <1>3, Types DEF MapType
<1>10. /\ fork'.by = fork.by /\ fork'.child = c /\ fork'.phase = "copy" /\ fork'.ok = (bad = {})
       /\ fork'.todo = (IF bad = {} THEN fork.todo ELSE {}) /\ fork'.pend = <<>>
  BY <1>1, Types DEF ForkType
<1>11. ContentOK' /\ \A f \in Frames : content'[f] = content[f] \/ f \in free'
  BY <1>1, CowAssumption DEF ViewInv, ContentOK
<1>12. \A w \in Pages, h \in Frames : Given(w, h)' <=> map'[c][w] = h
  BY <1>10 DEF Given
<1>13. ASSUME NEW w \in Pages, NEW h \in Frames, Given(w, h)'
       PROVE  Given(w, h) /\ content'[h] = content[h]
  <2>1. map'[c][w] = h
    BY <1>12, <1>13
  <2>2. Given(w, h)
    BY <1>5, <1>9, <2>1 DEF Given
  <2>3. h \notin free'
    BY <1>2, <1>3, <2>1, HeldNext DEF MappedIsHeld
  <2> QED BY <1>11, <2>2, <2>3
<1>14. ASSUME bad = {}, NEW w \in Pages, NEW h \in Frames, Given(w, h)
       PROVE  Given(w, h)'
  <2>1. CASE map[c][w] = h
    <3>1. w \notin new
      BY <1>5, <1>8, <2>1, CowAssumption
    <3> QED BY <1>9, <1>12, <2>1, <3>1
  <2>2. CASE \E i \in DOMAIN P : P[i].page = w /\ P[i].frame = h
    <3>1. PICK i \in DOMAIN P : P[i].page = w /\ P[i].frame = h
      BY <2>2
    <3>2. w \in new /\ At(w) = i
      BY <1>5, <1>6, <1>7, <1>14, <3>1
    <3> QED BY <1>9, <1>12, <3>1, <3>2
  <2> QED BY <1>14, <2>1, <2>2 DEF Given
<1>15. CopyGoesOn
  <2>1. fork'.ok => fork.ok /\ fork'.todo = fork.todo
    BY <1>1, <1>10
  <2>2. fork'.todo \subseteq fork.todo /\ \A q \in alive : map'[q] = map[q]
    BY <1>3, <1>9, <1>10
  <2>3. \A w \in Pages, h \in Frames : fork'.ok /\ Given(w, h) => Given(w, h)'
    BY <1>10, <1>14
  <2> QED BY <1>1, <1>10, <1>13, <2>1, <2>2, <2>3 DEF CopyGoesOn
<1>16. SnapOK' /\ CopyOK'
  BY <1>1, <1>2, <1>15, CopyStep
<1>17. UNCHANGED Private!vars
  BY <1>1, <1>2, <1>11, <1>15, CopyHides
<1>18. FillAlone'
  <2>1. \A f \in Frames : count'[f] <= count[f]
    <3> DEFINE d == Refused(P, bad)
    <3>1. d \in [Frames -> Nat]
      <4>1. \A f : Cardinality({i \in bad : P[i].frame = f}) \in Nat
        <5>1. IsFiniteSet(1 .. Len(P)) /\ bad \subseteq 1 .. Len(P)
          BY <1>3, FS_Interval
        <5> QED BY <5>1, FS_Subset, FS_CardinalityType
      <4> QED BY <4>1 DEF Refused
    <3>2. count' = CountsLeft(cache, count, d) /\ count \in [Frames -> Nat]
      BY FlushShape, Types
    <3> HIDE DEF d
    <3> QED BY <3>1, <3>2, LeftLowers
  <2>2. FillsAlike
    <3> SUFFICES ASSUME NEW q \in Procs, fill[q] # NoFill
                 PROVE  /\ map'[q][fill[q].page] = map[q][fill[q].page]
                        /\ count'[map[q][fill[q].page]] <= count[map[q][fill[q].page]]
      BY <1>1 DEF FillsAlike
    <3>1. q # c
      BY <1>3 DEF CowInv, ProcessesOK
    <3> QED BY <1>9, <2>1, <3>1, FillFrame
  <2> QED BY <1>2, <2>2, FillAloneKept DEF ViewInv
<1>19. TlbAlone'
  <2>1. \A q \in alive : map'[q] = map[q]
    BY <1>3, <1>9
  <2> QED BY <1>1, <2>1 DEF ViewInv, TlbAlone, Reserved
<1> QED BY <1>11, <1>16, <1>17, <1>18, <1>19 DEF ViewInv

-----------------------------------------------------------------------------
(* The end of a fork.                                                      *)

\* When there is no fork the rest of ViewInv is about mappings being filled.
LEMMA NoForkView ==
    ASSUME CowInv, CowInv', ViewInv, fork.phase = "copy", fork' = NoFork, Record, ContentOK', FillsAlike
    PROVE  ViewInv' /\ fork.by # NoProc /\ fork'.by = NoProc /\ snap' = [v \in Pages |-> {}]
<1>1. fork'.by = NoProc /\ fork'.phase = "none" /\ fork.by # NoProc
  BY CopyFacts, CowAssumption DEF NoFork
<1>2. SnapOK' /\ snap' = [v \in Pages |-> {}]
  BY <1>1, SnapKept DEF Record
<1>3. FillAlone'
  BY FillAloneKept DEF ViewInv
<1>4. TlbAlone' /\ CopyOK'
  BY <1>1 DEF CowInv, TlbOK, TlbAlone, CopyOK
<1> QED BY <1>1, <1>2, <1>3, <1>4 DEF ViewInv

LEMMA ForkEndsView ==
    ASSUME CowInv, ViewInv, ForkEnds
    PROVE  ViewInv' /\ Private!Next
<1>0. PICK c : c = fork.child
  OBVIOUS
<1>1. /\ fork.phase = "copy" /\ fork.todo = {} /\ fork.pend = <<>> /\ fork.ok
      /\ alive' = alive \cup {c} /\ fork' = NoFork /\ Record
      /\ UNCHANGED <<prot, map, count, content, file, fill>>
  BY <1>0 DEF ForkEnds, Copied, frameVars, fileVars
<1>2. CowInv'
  BY ForkEndsKeeps
<1>3. c \in Procs \ alive
  BY <1>0, <1>1, CopyFacts
<1>4. ContentOK'
  BY <1>1 DEF ViewInv, ContentOK
<1>5. FillsAlike
  BY <1>1, FillFrame, Types DEF FillsAlike
<1>6. ViewInv' /\ fork.by # NoProc /\ fork'.by = NoProc /\ snap' = [v \in Pages |-> {}]
  BY <1>1, <1>2, <1>4, <1>5, NoForkView
<1>7. \A q \in Procs \ {c} : View(q)' = View(q)
  BY <1>1, SameView
<1>8. Views' = [Views EXCEPT ![c] = Views'[c]]
  BY <1>3, <1>7 DEF Views
<1>9. ASSUME NEW v \in Pages PROVE Views'[c][v] \in snap[v]
  <2>1. Views'[c][v] = IF prot[c][v] # "none" /\ map[c][v] # NoFrame THEN content[map[c][v]] ELSE Absent
    BY <1>1, <1>3 DEF Views, View, Reserved
  <2>2. prot[c][v] = "none" => Absent \in snap[v]
    BY <1>0, <1>1 DEF ViewInv, CopyOK
  <2>3. \A f \in Frames : Given(v, f) <=> map[c][v] = f
    BY <1>0, <1>1 DEF Given
  <2>4. CASE map[c][v] = NoFrame
    <3>1. \A f \in Frames : ~Given(v, f)
      BY <2>3, <2>4, CowAssumption
    <3> QED BY <1>1, <2>1, <2>4, <3>1 DEF ViewInv, CopyOK
  <2>5. CASE map[c][v] # NoFrame
    <3>1. map[c][v] \in Frames
      BY <1>3, <2>5, Types DEF MapType
    <3>2. FromParent(v, map[c][v])
      BY <1>1, <2>3, <3>1 DEF ViewInv, CopyOK
    <3> QED BY <2>1, <2>2, <2>5, <3>2 DEF FromParent
  <2> QED BY <2>4, <2>5
<1>10. Private!ForkEnds
  BY <1>1, <1>3, <1>6, <1>8, <1>9 DEF Private!ForkEnds
<1> QED BY <1>6, <1>10 DEF Private!Next

LEMMA ForkFailsView ==
    ASSUME CowInv, ViewInv, ForkFails
    PROVE  ViewInv' /\ Private!Next
<1>0. PICK c : c = fork.child
  OBVIOUS
<1>1. /\ fork.phase = "copy" /\ Release(c, Reserved(c))
      /\ map' = [map EXCEPT ![c] = Nothing]
      /\ prot' = [prot EXCEPT ![c] = OnlyStack]
      /\ fork' = NoFork /\ Record
      /\ UNCHANGED <<alive, file, fill>>
  BY <1>0 DEF ForkFails, Copied, fileVars
<1>2. CowInv'
  BY ForkFailsKeeps
<1>3. c \in Procs \ alive /\ fill[c] = NoFill /\ Reserved(c) \in SUBSET Pages
  BY <1>0, <1>1, CopyFacts DEF Reserved
<1>4. /\ ContentOK'
      /\ \A f \in Frames : count'[f] <= count[f]
      /\ \A f \in Frames : content'[f] = content[f] \/ f \in free'
  BY <1>1, <1>3, ReleaseShows DEF ViewInv
<1>5. \A q \in Procs \ {c} : map'[q] = map[q] /\ prot'[q] = prot[q]
  BY <1>1, Types DEF MapType
<1>6. FillsAlike
  <2> SUFFICES ASSUME NEW q \in Procs, fill[q] # NoFill
               PROVE  /\ map'[q][fill[q].page] = map[q][fill[q].page]
                      /\ count'[map[q][fill[q].page]] <= count[map[q][fill[q].page]]
    BY <1>1 DEF FillsAlike
  <2>1. q # c
    BY <1>3
  <2> QED BY <1>4, <1>5, <2>1, FillFrame
<1>7. ViewInv' /\ fork.by # NoProc /\ fork'.by = NoProc /\ snap' = [v \in Pages |-> {}]
  BY <1>1, <1>2, <1>4, <1>6, NoForkView
<1>8. ASSUME NEW q \in Procs PROVE View(q)' = View(q)
  <2>1. CASE q = c
    BY <1>1, <1>3, <2>1 DEF View
  <2>2. CASE q # c
    <3>1. \A w \in Pages : map[q][w] # NoFrame => content'[map[q][w]] = content[map[q][w]]
      BY <1>2, <1>4, <1>5, <2>2, FreeChanges
    <3> QED BY <1>1, <1>5, <2>2, <3>1, SameView
  <2> QED BY <2>1, <2>2
<1>9. Views' = Views
  BY <1>8 DEF Views
<1>10. Private!ForkEnds
  BY <1>1, <1>7, <1>9 DEF Private!ForkEnds
<1> QED BY <1>7, <1>10 DEF Private!Next

-----------------------------------------------------------------------------
(* The refinement.                                                         *)

LEMMA ViewInvInit == Init => ViewInv /\ Private!Init
<1> SUFFICES ASSUME Init PROVE ViewInv /\ Private!Init
  OBVIOUS
<1>1. CowInv
  BY CowInvInit
<1>2. /\ fork.by = NoProc /\ fork.phase = "none" /\ snap = NoSnap
      /\ content = [f \in Frames |-> Zero] /\ file \in [Files -> Values]
      /\ \E p \in Procs : alive = {p}
      /\ map = [p \in Procs |-> Nothing] /\ tlb = [p \in Procs |-> Nothing]
      /\ fill = [p \in Procs |-> NoFill]
  BY DEF Init, NoFork
<1>3. ContentOK /\ SnapOK
  BY <1>2, CowAssumption DEF ContentOK, SnapOK, NoSnap
<1>4. FillAlone /\ CopyOK
  BY <1>2 DEF FillAlone, CopyOK
<1>5. TlbAlone
  BY <1>2 DEF TlbAlone, Nothing
<1>6. \A p \in Procs : View(p) = Private!Empty
  BY <1>2 DEF View, Nothing, Private!Empty
<1>7. Private!Init
  BY <1>2, <1>6 DEF Private!Init, Views, NoSnap
<1> QED BY <1>3, <1>4, <1>5, <1>7 DEF ViewInv

LEMMA ViewStep ==
    ASSUME Scarce = FALSE, CowInv, CowInv', ViewInv, [Next]_vars
    PROVE  ViewInv' /\ [Private!Next]_(Private!vars)
<1>1. ASSUME UNCHANGED vars PROVE ViewInv' /\ UNCHANGED Private!vars
  <2>1. UNCHANGED <<alive, prot, map, rw, tlb, count, free, cache, content, file, fill, fork, snap>>
    BY <1>1 DEF vars, pageVars, frameVars, fileVars
  <2>2. ContentOK' /\ FillAlone' /\ TlbAlone'
    BY <2>1 DEF ViewInv, ContentOK, FillAlone, TlbAlone, Reserved
  <2>3. \A p \in Procs : View(p)' = View(p)
    BY <2>1, SameView
  <2>4. Views' = Views
    BY <2>3 DEF Views
  <2>5. SnapOK'
    <3>1. fork.by # NoProc => View(fork.by)' = View(fork.by)
      BY <2>3, Types, <2>1 DEF ForkType
    <3> QED BY <2>1, <3>1 DEF ViewInv, SnapOK
  <2>6. CopyOK'
    <3>1. \A v \in Pages, f \in Frames : /\ Given(v, f)' <=> Given(v, f)
                                         /\ FromParent(v, f)' <=> FromParent(v, f)
      BY <2>1 DEF Given, FromParent, Reserved
    <3>2. Reserved(fork.by)' = Reserved(fork.by)
      BY <2>1 DEF Reserved
    <3> QED BY <2>1, <3>1, <3>2 DEF ViewInv, CopyOK
  <2> QED BY <2>1, <2>2, <2>4, <2>5, <2>6 DEF ViewInv, Private!vars
<1> QED
  BY <1>1, WriteView, TouchFaultView, WriteFaultView, MmapAnonView, MunmapView, MmapHitView,
     MmapOverView, MmapMissView, MmapFilledView, MmapOverFailsView, ExitView, MprotectView,
     FileWriteBeginsView, FileWriteEndsView, ForkTableView, ForkCopyView, ForkEndsView, ForkFailsView,
     ForkSharesView, ForkRunsOutView, ForkCopiesView, VmFlushView, ExecView DEF Next

\* As long as execve() finds a frame for the stack that it makes private (Scarce
\* is FALSE), the kernel gives each process a memory of its own: whatever frames
\* fork, the cache and the write faults share behind it, nobody changes what
\* another process reads, and a child starts with pages that its parent has had
\* since the fork began.
THEOREM CowImplementsPrivateMemory ==
    ASSUME Scarce = FALSE
    PROVE  Spec => ImplementsPrivateMemory
<1>1. Init => ViewInv /\ Private!Init
  BY ViewInvInit
<1>2. CowInv /\ CowInv' /\ ViewInv /\ [Next]_vars => ViewInv' /\ [Private!Next]_(Private!vars)
  BY ViewStep
<1> QED BY <1>1, <1>2, CowInvAlways, PTL DEF Spec, ImplementsPrivateMemory, Private!Spec

================================================================================
