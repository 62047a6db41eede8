-------------------------- MODULE CommunicationProofs --------------------------
(***************************************************************************)
(* Proofs about the two ways in which programs of C-OS exchange data:      *)
(* mailboxes and shared regions (Ipc) and TCP connections (Tcp).           *)
(*                                                                         *)
(* Ipc, for any number of processes, threads, mailboxes and regions, and   *)
(* any size of the queues. A call may replace the mailbox of a process     *)
(* that had the slot before, create one, enter it and wake somebody, so    *)
(* the invariant of mailboxes is stated for any table, mailboxes, threads  *)
(* and messages due, and there is a lemma for every stage.                 *)
(*                                                                         *)
(* Tcp, for any sequence number space, initial numbers, stream lengths,    *)
(* segment size, receive window and number of faults that TcpAssumption    *)
(* allows. No property of a stream is inductive as it stands: what a host  *)
(* may take from a segment depends on the positions that the segment, the  *)
(* other socket and both applications have reached. TcpInv relates all of  *)
(* them by positions in the two streams, from which the sequence numbers   *)
(* follow (Plus(Iss[h], n)): for each host its send queue (SendOK), its    *)
(* receive buffer with the blocks behind a gap (RecvOK) and its timer      *)
(* (TimerOK), and for each segment in flight, however old or often         *)
(* repeated, what it says (SegmentOK).                                     *)
(*                                                                         *)
(* The argument runs in these stages:                                      *)
(*   - arithmetic modulo SeqMod: within half the space a comparison of     *)
(*     sequence numbers is a comparison of positions;                      *)
(*   - what each operator of tcp.c makes of a socket that satisfies the    *)
(*     invariant, and what it sends (ResultOK);                            *)
(*   - one step of one host keeps the invariant of both, if its result is  *)
(*     such a one (StepOK);                                                *)
(*   - the step for each action.                                           *)
(***************************************************************************)
EXTENDS Ipc, Tcp, QueueProofs

-----------------------------------------------------------------------------
(* Mailboxes and regions.                                                  *)

\* Pids are not used again; a process that is alive, and no other, has threads
\* that can call; one that has been reaped has none on a CPU.
ProcsOK ==
    /\ state \in [Slots -> {"unused", "alive", "zombie"}]
    /\ pid \in [Slots -> Nat] /\ nextPid \in Nat
    /\ \A s \in Slots : pid[s] < nextPid
    /\ \A s, u \in Slots : state[s] # "unused" /\ state[u] # "unused" /\ pid[s] = pid[u] => s = u

ThreadStates == {"user", "blocked", "woken", "sleeping", "lingering", "dead"}
InBox == {"blocked", "woken", "sleeping"}

\* Who can call belongs to a living process, and who is inside a mailbox waits.
ThreadsOK(A, In) ==
    /\ A \in [Threads -> ThreadStates]
    /\ In \in [Threads -> Boxes \cup {NoBox}]
    /\ \A t \in Threads : Alive(t) <=> A[t] \notin {"lingering", "dead"}
    /\ \A t \in Threads : state[SlotOf[t]] = "unused" => A[t] = "dead" /\ In[t] = NoBox
    /\ \A t \in Threads : A[t] \in InBox => In[t] # NoBox
    /\ \A t \in Threads : A[t] \in {"user", "lingering"} => In[t] = NoBox

BoxRecs == [held : BOOLEAN, owner : Nat, dead : BOOLEAN, refs : Nat, q : Seq(Messages),
            items : Nat, waiters : Seq(Threads)]

Inside(In, b) == {t \in Threads : In[t] = b}
InsideAs(A, In, b, how) == {t \in Threads : In[t] = b /\ A[t] = how}

\* A mailbox counts who is inside, its queue has those who are blocked, and it
\* has no token too many for those who are woken.
BoxOK(m, A, In, b) ==
    /\ m \in BoxRecs
    /\ m.held => m.owner < nextPid
    /\ Inside(In, b) # {} => m.held
    /\ m.held /\ ~m.dead => m.refs = Cardinality(Inside(In, b))
    /\ Members(m.waiters) = InsideAs(A, In, b, "blocked")
    /\ m.waiters # <<>> => m.items <= Cardinality(InsideAs(A, In, b, "woken"))

\* A mailbox in the table is one slot's; a living thread is inside its own
\* process's, one that has ended inside a retired one.
TableOK(Tb, B, In) ==
    /\ Tb \in [Slots -> Boxes \cup {NoBox}]
    /\ \A s \in Slots : Tb[s] # NoBox => B[Tb[s]].held /\ ~B[Tb[s]].dead
    /\ \A s, u \in Slots : Tb[s] = Tb[u] /\ Tb[s] # NoBox => s = u
    /\ \A t \in Threads : In[t] # NoBox =>
          IF Alive(t) THEN Tb[SlotOf[t]] = In[t] /\ B[In[t]].owner = pid[SlotOf[t]]
          ELSE B[In[t]].dead

Owns(Tb, B, s, p) == Tb[s] # NoBox /\ B[Tb[s]].owner = p

\* What is due to a living process is what its mailbox has.
DueOK(Tb, B, Du) ==
    /\ Du \in [Slots -> Seq(Messages)]
    /\ \A s \in Slots : Du[s] = IF state[s] = "alive" /\ Owns(Tb, B, s, pid[s])
                               THEN B[Tb[s]].q ELSE <<>>

Mail(Tb, B, A, In, Du) ==
    /\ ThreadsOK(A, In)
    /\ B = [b \in Boxes |-> B[b]]
    /\ \A b \in Boxes : BoxOK(B[b], A, In, b)
    /\ TableOK(Tb, B, In)
    /\ DueOK(Tb, B, Du)

\* Every region that a living process maps has counted it.
RegionsOK ==
    /\ region \in [Regions -> [used : BOOLEAN, owner : Nat, attached : SUBSET Nat]]
    /\ maps \in [Slots -> SUBSET Regions]
    /\ \A s \in Slots : state[s] = "unused" => maps[s] = {}
    /\ MappedIsAttached

IpcInv == ProcsOK /\ Mail(table, box, at, inside, due) /\ RegionsOK

-----------------------------------------------------------------------------
(* Records and counts.                                                     *)

LEMMA FreeBox ==
    /\ Free \in BoxRecs /\ Free.held = FALSE /\ Free.dead = FALSE
    /\ Free.refs = 0 /\ Free.items = 0 /\ Free.q = <<>> /\ Free.waiters = <<>>
<1>1. 0 \in Nat /\ <<>> \in Seq(Messages) /\ <<>> \in Seq(Threads)
  OBVIOUS
<1>2. Free \in BoxRecs
  BY <1>1 DEF Free, BoxRecs
<1>3. Free.held = FALSE /\ Free.dead = FALSE /\ Free.refs = 0 /\ Free.items = 0
      /\ Free.q = <<>> /\ Free.waiters = <<>>
  BY DEF Free
<1> QED BY <1>2, <1>3

LEMMA NewBox ==
    ASSUME NEW p \in Nat
    PROVE  /\ New(p) \in BoxRecs /\ New(p).held = TRUE /\ New(p).dead = FALSE /\ New(p).owner = p
           /\ New(p).refs = 0 /\ New(p).items = 0 /\ New(p).q = <<>> /\ New(p).waiters = <<>>
<1>1. New(p) \in BoxRecs
  BY FreeBox DEF New, BoxRecs
<1>2. /\ New(p).held = TRUE /\ New(p).dead = FALSE /\ New(p).owner = p
      /\ New(p).refs = 0 /\ New(p).items = 0 /\ New(p).q = <<>> /\ New(p).waiters = <<>>
  BY DEF New, Free
<1> QED BY <1>1, <1>2

LEMMA NobodyCounted ==
    /\ Cardinality({}) = 0
    /\ \A S \in SUBSET Threads : /\ IsFiniteSet(S) /\ Cardinality(S) \in Nat
                                 /\ Cardinality(S) = 0 <=> S = {}
<1>1. ASSUME NEW S \in SUBSET Threads
      PROVE  /\ IsFiniteSet(S) /\ Cardinality(S) \in Nat
             /\ Cardinality(S) = 0 <=> S = {}
  <2>1. IsFiniteSet(S)
    BY IpcAssumption, FS_Subset
  <2> QED BY <2>1, FS_CardinalityType, FS_EmptySet
<1> QED BY <1>1, FS_EmptySet

\* Counting somebody in, and out.
LEMMA CountedInOut ==
    ASSUME NEW S \in SUBSET Threads, NEW t \in Threads
    PROVE  /\ t \notin S => Cardinality(S \cup {t}) = Cardinality(S) + 1
           /\ t \in S => Cardinality(S \ {t}) = Cardinality(S) - 1
           /\ t \in S => Cardinality(S) >= 1
<1>1. IsFiniteSet(S)
  BY NobodyCounted
<1>2. t \notin S => Cardinality(S \cup {t}) = Cardinality(S) + 1
  BY <1>1, FS_AddElement
<1>3. t \in S => Cardinality(S \ {t}) = Cardinality(S) - 1
  BY <1>1, FS_RemoveElement
<1>4. t \in S => Cardinality(S) >= 1
  <2> SUFFICES ASSUME t \in S PROVE Cardinality(S) >= 1
    OBVIOUS
  <2>1. Cardinality(S) \in Nat /\ Cardinality(S) # 0
    BY NobodyCounted
  <2> QED BY <2>1
<1> QED BY <1>2, <1>3, <1>4

LEMMA EmptyQueue ==
    ASSUME NEW X, NEW q \in Seq(X)
    PROVE  q = <<>> <=> Members(q) = {}
<1>1. Len(q) \in Nat
  OBVIOUS
<1>2. ASSUME q # <<>> PROVE Members(q) # {}
  <2>1. 1 \in 1 .. Len(q)
    BY <1>2
  <2> QED BY <2>1 DEF Members
<1>3. Members(<<>>) = {}
  BY DEF Members
<1> QED BY <1>2, <1>3

-----------------------------------------------------------------------------
(* The stages of a call.                                                   *)

\* A mailbox that nobody is inside has no waiter.
LEMMA NobodyWaits ==
    ASSUME NEW m, NEW A, NEW In, NEW b, BoxOK(m, A, In, b), Inside(In, b) = {}
    PROVE  m.waiters = <<>>
<1>1. m.waiters \in Seq(Threads) /\ Members(m.waiters) = {}
  BY DEF BoxOK, BoxRecs, Inside, InsideAs
<1> QED BY <1>1, EmptyQueue

\* The mailbox of a process that had the slot before goes; nobody is inside.
LEMMA StaleStage ==
    ASSUME ProcsOK, Mail(table, box, at, inside, due), NEW p, NEW s \in SlotsOf(p), ~Usable(s, p)
    PROVE  /\ Mail([table EXCEPT ![s] = NoBox], Boxes0(s, p), at, inside, due)
           /\ Wakes0(s, p) = {}
<1> DEFINE Tb == [table EXCEPT ![s] = NoBox]
           B == Boxes0(s, p)
<1>0. s \in Slots /\ pid[s] = p /\ state[s] # "unused"
  BY DEF SlotsOf
<1>1. table \in [Slots -> Boxes \cup {NoBox}] /\ box = [b \in Boxes |-> box[b]]
  BY DEF Mail, TableOK
<1>2. Tb \in [Slots -> Boxes \cup {NoBox}] /\ Tb[s] = NoBox /\ \A u \in Slots \ {s} : Tb[u] = table[u]
  BY <1>0, <1>1
<1>3. ~Owns(table, box, s, p)
  BY DEF Usable, Owns
<1>4. ASSUME Stale(s, p)
      PROVE  /\ table[s] \in Boxes
             /\ Inside(inside, table[s]) = {}
             /\ B = [box EXCEPT ![table[s]] = Free]
             /\ Wakes0(s, p) = {}
  <2> DEFINE b == table[s]
             m == box[b]
  <2>1. b \in Boxes /\ m.owner # p /\ m.held /\ ~m.dead
    BY <1>0, <1>1, <1>4 DEF Stale, Mail, TableOK
  <2>2. BoxOK(m, at, inside, b)
    BY <2>1 DEF Mail
  <2>3. Inside(inside, b) = {}
    <3> SUFFICES ASSUME NEW t \in Threads, inside[t] = b PROVE FALSE
      BY DEF Inside
    <3>1. inside[t] # NoBox /\ SlotOf[t] \in Slots
      BY <2>1, IpcAssumption
    <3>2. Alive(t)
      BY <2>1, <3>1 DEF Mail, TableOK
    <3>3. table[SlotOf[t]] = b /\ m.owner = pid[SlotOf[t]]
      BY <3>1, <3>2 DEF Mail, TableOK
    <3>4. SlotOf[t] = s
      BY <1>0, <3>1, <3>3 DEF Mail, TableOK
    <3> QED BY <1>0, <2>1, <3>3, <3>4
  <2>4. m.refs = 0 /\ m.waiters = <<>>
    BY <2>1, <2>2, <2>3, NobodyCounted, NobodyWaits DEF BoxOK
  <2>5. Retired(m) = Free
    BY <2>4 DEF Retired
  <2>6. RetireWakes(m) = {}
    BY <2>4 DEF RetireWakes, FirstOf
  <2>7. B = [box EXCEPT ![b] = Retired(m)] /\ Wakes0(s, p) = RetireWakes(m)
    BY <1>4 DEF Boxes0, Wakes0
  <2> QED BY <2>1, <2>3, <2>5, <2>6, <2>7
<1>5. CASE Stale(s, p)
  <2> DEFINE b == table[s]
  <2>1. b \in Boxes /\ Inside(inside, b) = {} /\ B = [box EXCEPT ![b] = Free]
    BY <1>4, <1>5
  <2>2. /\ B = [c \in Boxes |-> B[c]] /\ B[b] = Free /\ \A c \in Boxes \ {b} : B[c] = box[c]
    BY <1>1, <2>1
  <2>3. BoxOK(Free, at, inside, b)
    <3>1. Members(<<>>) = {} /\ InsideAs(at, inside, b, "blocked") = {}
      BY <2>1 DEF Members, Inside, InsideAs
    <3> QED BY <2>1, <3>1, FreeBox DEF BoxOK
  <2>4. \A c \in Boxes : BoxOK(B[c], at, inside, c)
    BY <2>2, <2>3 DEF Mail
  <2> HIDE DEF B, Tb
  <2>5. \A u \in Slots : Tb[u] # NoBox => Tb[u] = table[u] /\ Tb[u] \in Boxes \ {b}
    BY <1>0, <1>1, <1>2, <2>1, IpcAssumption DEF Mail, TableOK
  <2>6. ASSUME NEW t \in Threads, inside[t] # NoBox
        PROVE  inside[t] \in Boxes \ {b}
    BY <2>1, <2>6 DEF Mail, ThreadsOK, Inside
  <2>7. TableOK(Tb, B, inside)
    <3>1. \A u \in Slots : Tb[u] # NoBox => B[Tb[u]].held /\ ~B[Tb[u]].dead
      BY <2>2, <2>5 DEF Mail, TableOK
    <3>2. \A u, w \in Slots : Tb[u] = Tb[w] /\ Tb[u] # NoBox => u = w
      BY <2>5 DEF Mail, TableOK
    <3>3. ASSUME NEW t \in Threads, inside[t] # NoBox
          PROVE  IF Alive(t) THEN Tb[SlotOf[t]] = inside[t] /\ B[inside[t]].owner = pid[SlotOf[t]]
                 ELSE B[inside[t]].dead
      <4>1. B[inside[t]] = box[inside[t]] /\ SlotOf[t] \in Slots
        BY <2>2, <2>6, <3>3, IpcAssumption
      <4>2. CASE Alive(t)
        <5>1. table[SlotOf[t]] = inside[t] /\ box[inside[t]].owner = pid[SlotOf[t]]
          BY <3>3, <4>2 DEF Mail, TableOK
        <5>2. SlotOf[t] # s
          BY <2>6, <3>3, <5>1
        <5> QED BY <1>2, <4>1, <4>2, <5>1, <5>2
      <4>3. CASE ~Alive(t)
        BY <3>3, <4>1, <4>3 DEF Mail, TableOK
      <4> QED BY <4>2, <4>3
    <3> QED BY <1>2, <3>1, <3>2, <3>3 DEF TableOK
  <2>8. DueOK(Tb, B, due)
    <3>1. due[s] = <<>>
      BY <1>0, <1>3 DEF Mail, DueOK
    <3>2. \A u \in Slots : Owns(Tb, B, u, pid[u]) => u # s /\ Tb[u] = table[u] /\ B[Tb[u]] = box[table[u]]
      BY <1>2, <2>2, <2>5 DEF Owns
    <3>3. \A u \in Slots \ {s} : Owns(table, box, u, pid[u]) => Owns(Tb, B, u, pid[u])
      <4> SUFFICES ASSUME NEW u \in Slots \ {s}, Owns(table, box, u, pid[u])
                   PROVE  Owns(Tb, B, u, pid[u])
        OBVIOUS
      <4>1. Tb[u] = table[u] /\ Tb[u] # NoBox
        BY <1>2 DEF Owns
      <4>2. B[Tb[u]] = box[table[u]]
        BY <2>2, <2>5, <4>1
      <4> QED BY <4>1, <4>2 DEF Owns
    <3>4. \A u \in Slots : due[u] = IF state[u] = "alive" /\ Owns(Tb, B, u, pid[u])
                                   THEN B[Tb[u]].q ELSE <<>>
      <4> SUFFICES ASSUME NEW u \in Slots
                   PROVE  due[u] = IF state[u] = "alive" /\ Owns(Tb, B, u, pid[u])
                                   THEN B[Tb[u]].q ELSE <<>>
        OBVIOUS
      <4>1. due[u] = IF state[u] = "alive" /\ Owns(table, box, u, pid[u])
                     THEN box[table[u]].q ELSE <<>>
        BY DEF Mail, DueOK
      <4>2. CASE u = s
        BY <3>1, <3>2, <4>2
      <4>3. CASE u # s
        <5>1. Owns(table, box, u, pid[u]) <=> Owns(Tb, B, u, pid[u])
          BY <3>2, <3>3, <4>3 DEF Owns
        <5> QED BY <3>2, <4>1, <5>1
      <4> QED BY <4>2, <4>3
    <3> QED BY <3>4 DEF Mail, DueOK
  <2>9. Mail(Tb, B, at, inside, due)
    BY <2>2, <2>4, <2>7, <2>8 DEF Mail
  <2> QED BY <1>4, <1>5, <2>9 DEF Tb, B
<1>6. CASE ~Stale(s, p)
  <2>1. table[s] = NoBox
    BY <1>6 DEF Stale, Usable
  <2>2. Tb = table /\ B = box /\ Wakes0(s, p) = {}
    BY <1>0, <1>1, <1>6, <2>1 DEF Boxes0, Wakes0
  <2> HIDE DEF Tb, B
  <2>3. Mail(Tb, B, at, inside, due)
    BY <2>2
  <2> QED BY <2>2, <2>3 DEF Tb, B
<1> QED BY <1>5, <1>6

\* kmalloc() gives a mailbox, for the process p in slot s.
LEMMA NewStage ==
    ASSUME ProcsOK, NEW Tb, NEW B, NEW A, NEW In, NEW Du, Mail(Tb, B, A, In, Du),
           NEW p, NEW s \in SlotsOf(p), Tb[s] = NoBox, NEW b \in Boxes, ~B[b].held
    PROVE  Mail([Tb EXCEPT ![s] = b], [B EXCEPT ![b] = New(p)], A, In, Du)
<1> DEFINE Tc == [Tb EXCEPT ![s] = b]
           C == [B EXCEPT ![b] = New(p)]
<1>0. s \in Slots /\ pid[s] = p /\ p \in Nat /\ p < nextPid
  BY DEF SlotsOf, ProcsOK
<1>1. Tb \in [Slots -> Boxes \cup {NoBox}] /\ B = [c \in Boxes |-> B[c]] /\ b # NoBox
  BY IpcAssumption DEF Mail, TableOK
<1>2. /\ Tc \in [Slots -> Boxes \cup {NoBox}] /\ Tc[s] = b /\ \A u \in Slots \ {s} : Tc[u] = Tb[u]
      /\ C = [c \in Boxes |-> C[c]] /\ C[b] = New(p) /\ \A c \in Boxes \ {b} : C[c] = B[c]
  BY <1>0, <1>1
<1> DEFINE new == New(p)
<1>3. /\ new \in BoxRecs /\ new.held = TRUE /\ new.dead = FALSE /\ new.owner = p
      /\ new.refs = 0 /\ new.items = 0 /\ new.q = <<>> /\ new.waiters = <<>>
  BY <1>0, NewBox
<1>4. C[b] = new
  BY <1>2
<1> HIDE DEF Tc, C, new
<1>5. Inside(In, b) = {}
  BY DEF Mail, BoxOK
<1>6. \A u \in Slots : Tb[u] # b
  BY <1>1 DEF Mail, TableOK
<1>7. \A t \in Threads : In[t] # NoBox => In[t] \in Boxes \ {b}
  BY <1>5 DEF Mail, ThreadsOK, Inside
<1>8. BoxOK(new, A, In, b)
  <2>1. Members(<<>>) = {} /\ InsideAs(A, In, b, "blocked") = {}
    BY <1>5 DEF Members, Inside, InsideAs
  <2>2. Cardinality(Inside(In, b)) = 0
    BY <1>5, NobodyCounted
  <2> QED BY <1>0, <1>3, <2>1, <2>2 DEF BoxOK
<1>9. \A c \in Boxes : BoxOK(C[c], A, In, c)
  BY <1>2, <1>4, <1>8 DEF Mail
<1>10. TableOK(Tc, C, In)
  <2>1. \A u \in Slots : Tc[u] # NoBox => C[Tc[u]].held /\ ~C[Tc[u]].dead
    <3> SUFFICES ASSUME NEW u \in Slots, Tc[u] # NoBox PROVE C[Tc[u]].held /\ ~C[Tc[u]].dead
      OBVIOUS
    <3>1. CASE u = s
      BY <1>2, <1>3, <1>4, <3>1
    <3>2. CASE u # s
      <4>1. Tc[u] = Tb[u] /\ Tc[u] \in Boxes \ {b}
        BY <1>1, <1>2, <1>6, <3>2
      <4> QED BY <1>2, <4>1 DEF Mail, TableOK
    <3> QED BY <3>1, <3>2
  <2>2. \A u, w \in Slots : Tc[u] = Tc[w] /\ Tc[u] # NoBox => u = w
    BY <1>2, <1>6 DEF Mail, TableOK
  <2>3. ASSUME NEW t \in Threads, In[t] # NoBox
        PROVE  IF Alive(t) THEN Tc[SlotOf[t]] = In[t] /\ C[In[t]].owner = pid[SlotOf[t]]
               ELSE C[In[t]].dead
    <3>1. C[In[t]] = B[In[t]] /\ SlotOf[t] \in Slots
      BY <1>2, <1>7, <2>3, IpcAssumption
    <3>2. CASE Alive(t)
      <4>1. Tb[SlotOf[t]] = In[t] /\ B[In[t]].owner = pid[SlotOf[t]]
        BY <2>3, <3>2 DEF Mail, TableOK
      <4>2. SlotOf[t] # s
        BY <2>3, <4>1
      <4> QED BY <1>2, <3>1, <3>2, <4>1, <4>2
    <3>3. CASE ~Alive(t)
      BY <2>3, <3>1, <3>3 DEF Mail, TableOK
    <3> QED BY <3>2, <3>3
  <2> QED BY <1>2, <2>1, <2>2, <2>3 DEF TableOK
<1>11. DueOK(Tc, C, Du)
  <2> SUFFICES ASSUME NEW u \in Slots
               PROVE  Du[u] = IF state[u] = "alive" /\ Owns(Tc, C, u, pid[u])
                              THEN C[Tc[u]].q ELSE <<>>
    BY DEF Mail, DueOK
  <2>1. Du[u] = IF state[u] = "alive" /\ Owns(Tb, B, u, pid[u]) THEN B[Tb[u]].q ELSE <<>>
    BY DEF Mail, DueOK
  <2>2. CASE u = s
    <3>1. Du[u] = <<>>
      BY <2>1, <2>2 DEF Owns
    <3> QED BY <1>2, <1>3, <1>4, <2>2, <3>1
  <2>3. CASE u # s
    <3>1. Tc[u] = Tb[u] /\ (Tb[u] # NoBox => Tb[u] \in Boxes \ {b})
      BY <1>1, <1>2, <1>6, <2>3
    <3>2. Tb[u] # NoBox => C[Tb[u]] = B[Tb[u]]
      BY <1>2, <3>1
    <3> QED BY <2>1, <3>1, <3>2 DEF Owns
  <2> QED BY <2>2, <2>3
<1>12. Mail(Tc, C, A, In, Du)
  BY <1>2, <1>9, <1>10, <1>11 DEF Mail
<1> QED BY <1>12 DEF Tc, C

\* mailbox_get_or_create() succeeds: the mailbox b is the process's own.
LEMMA GetsStage ==
    ASSUME ProcsOK, Mail(table, box, at, inside, due), NEW p, NEW s \in SlotsOf(p),
           NEW b \in Boxes, Gets(s, p, b)
    PROVE  /\ Mail([table EXCEPT ![s] = b], Boxes1(s, p, b), at, inside, due)
           /\ [table EXCEPT ![s] = b][s] = b
           /\ Boxes1(s, p, b)[b].owner = p
           /\ Wakes0(s, p) = {}
<1>0. s \in Slots /\ p \in Nat
  BY DEF SlotsOf, ProcsOK
<1>1. table \in [Slots -> Boxes \cup {NoBox}] /\ box = [c \in Boxes |-> box[c]]
  BY DEF Mail, TableOK
<1>2. [table EXCEPT ![s] = b][s] = b
  BY <1>0, <1>1
<1>3. CASE Usable(s, p)
  <2>1. b = table[s] /\ box[b].owner = p /\ ~Stale(s, p)
    BY <1>3 DEF Gets, Usable, Stale
  <2>2. [table EXCEPT ![s] = b] = table
    BY <1>1, <2>1
  <2> QED BY <1>2, <1>3, <2>1, <2>2 DEF Boxes1, Wakes0
<1>4. CASE ~Usable(s, p)
  <2> DEFINE T0 == [table EXCEPT ![s] = NoBox]
             B0 == Boxes0(s, p)
  <2>1. Mail(T0, B0, at, inside, due) /\ Wakes0(s, p) = {}
    BY <1>4, StaleStage
  <2>2. T0[s] = NoBox /\ [T0 EXCEPT ![s] = b] = [table EXCEPT ![s] = b]
    BY <1>0, <1>1
  <2>3. ~B0[b].held /\ Boxes1(s, p, b) = [B0 EXCEPT ![b] = New(p)]
    BY <1>4 DEF Gets, Boxes1
  <2> HIDE DEF T0, B0
  <2>4. Mail([T0 EXCEPT ![s] = b], [B0 EXCEPT ![b] = New(p)], at, inside, due)
    BY <2>1, <2>2, <2>3, NewStage
  <2>5. [B0 EXCEPT ![b] = New(p)][b] = New(p)
    <3>1. B0 = [c \in Boxes |-> B0[c]]
      BY <2>1 DEF Mail
    <3> QED BY <3>1
  <2>6. New(p).owner = p
    BY <1>0, NewBox
  <2> QED BY <1>2, <2>1, <2>2, <2>3, <2>4, <2>5, <2>6
<1> QED BY <1>3, <1>4

\* Only living threads of slot s, and only into or out of b, have moved.
Moves(A, In, A2, In2, s, b) ==
    \A t \in Threads : In2[t] # In[t] \/ A2[t] # A[t] =>
        Alive(t) /\ SlotOf[t] = s /\ In[t] \in {b, NoBox} /\ In2[t] \in {b, NoBox}

\* The process in slot s, if it lives, is now due what m has.
NowDue(Du, Du2, s, m) ==
    /\ Du2 \in [Slots -> Seq(Messages)]
    /\ Du2[s] = IF state[s] = "alive" THEN m.q ELSE <<>>
    /\ \A u \in Slots \ {s} : Du2[u] = Du[u]

\* The mailbox b of slot s becomes m, and threads of that slot go in or out.
LEMMA ChangeBox ==
    ASSUME NEW Tb, NEW B, NEW A, NEW In, NEW Du, Mail(Tb, B, A, In, Du),
           NEW s \in Slots, NEW b \in Boxes, Tb[s] = b, B[b].owner = pid[s],
           NEW m, NEW A2, NEW In2, NEW Du2,
           BoxOK(m, A2, In2, b), m.held, ~m.dead, m.owner = pid[s],
           ThreadsOK(A2, In2), Moves(A, In, A2, In2, s, b), NowDue(Du, Du2, s, m)
    PROVE  Mail(Tb, [B EXCEPT ![b] = m], A2, In2, Du2)
<1> USE DEF Moves, NowDue
<1> DEFINE C == [B EXCEPT ![b] = m]
<1>1. B = [c \in Boxes |-> B[c]] /\ b # NoBox
  BY IpcAssumption DEF Mail
<1>2. C = [c \in Boxes |-> C[c]] /\ C[b] = m /\ \A c \in Boxes \ {b} : C[c] = B[c]
  BY <1>1
<1> HIDE DEF C
<1>3. ASSUME NEW c \in Boxes \ {b}
      PROVE  /\ Inside(In2, c) = Inside(In, c)
             /\ \A how : InsideAs(A2, In2, c, how) = InsideAs(A, In, c, how)
  <2>1. c # NoBox
    BY IpcAssumption
  <2> QED BY <2>1 DEF Inside, InsideAs
<1>4. \A c \in Boxes : BoxOK(C[c], A2, In2, c)
  <2>1. ASSUME NEW c \in Boxes \ {b} PROVE BoxOK(C[c], A2, In2, c)
    <3>1. BoxOK(B[c], A, In, c)
      BY DEF Mail
    <3> QED BY <1>2, <1>3, <3>1 DEF BoxOK
  <2> QED BY <1>2, <2>1
<1>5. \A u \in Slots \ {s} : Tb[u] # NoBox => Tb[u] \in Boxes \ {b}
  BY <1>1 DEF Mail, TableOK
<1>6. TableOK(Tb, C, In2)
  <2>1. \A u \in Slots : Tb[u] # NoBox => C[Tb[u]].held /\ ~C[Tb[u]].dead
    BY <1>2, <1>5 DEF Mail, TableOK
  <2>2. ASSUME NEW t \in Threads, In2[t] # NoBox
        PROVE  IF Alive(t) THEN Tb[SlotOf[t]] = In2[t] /\ C[In2[t]].owner = pid[SlotOf[t]]
               ELSE C[In2[t]].dead
    <3>1. CASE In2[t] # In[t]
      BY <1>2, <2>2, <3>1
    <3>2. CASE In2[t] = In[t]
      <4>1. IF Alive(t) THEN Tb[SlotOf[t]] = In[t] /\ B[In[t]].owner = pid[SlotOf[t]]
            ELSE B[In[t]].dead
        BY <2>2, <3>2 DEF Mail, TableOK
      <4>2. CASE In[t] = b
        <5>1. ~B[b].dead
          BY <1>1 DEF Mail, TableOK
        <5>2. Alive(t) /\ Tb[SlotOf[t]] = b /\ SlotOf[t] \in Slots
          BY <4>1, <4>2, <5>1, IpcAssumption
        <5>3. SlotOf[t] = s
          BY <1>1, <5>2 DEF Mail, TableOK
        <5> QED BY <1>2, <3>2, <4>2, <5>2, <5>3
      <4>3. CASE In[t] # b
        <5>1. In[t] \in Boxes \ {b}
          BY <2>2, <3>2, <4>3 DEF Mail, ThreadsOK
        <5> QED BY <1>2, <3>2, <4>1, <5>1
      <4> QED BY <4>2, <4>3
    <3> QED BY <3>1, <3>2
  <2> QED BY <2>1, <2>2 DEF Mail, TableOK
<1>7. DueOK(Tb, C, Du2)
  <2> SUFFICES ASSUME NEW u \in Slots
               PROVE  Du2[u] = IF state[u] = "alive" /\ Owns(Tb, C, u, pid[u])
                               THEN C[Tb[u]].q ELSE <<>>
    BY DEF DueOK
  <2>1. CASE u = s
    <3>1. Owns(Tb, C, u, pid[u]) /\ C[Tb[u]] = m
      BY <1>1, <1>2, <2>1 DEF Owns
    <3> QED BY <2>1, <3>1
  <2>2. CASE u # s
    <3>1. Du[u] = IF state[u] = "alive" /\ Owns(Tb, B, u, pid[u]) THEN B[Tb[u]].q ELSE <<>>
      BY DEF Mail, DueOK
    <3>2. Tb[u] # NoBox => C[Tb[u]] = B[Tb[u]]
      BY <1>2, <1>5, <2>2
    <3> QED BY <2>2, <3>1, <3>2 DEF Owns
  <2> QED BY <2>1, <2>2
<1>8. Mail(Tb, C, A2, In2, Du2)
  BY <1>2, <1>4, <1>6, <1>7 DEF Mail
<1> QED BY <1>8 DEF C

LEMMA HeadIsMember ==
    ASSUME NEW X, NEW q \in Seq(X), q # <<>>
    PROVE  Head(q) \in X /\ Head(q) \in Members(q)
<1>1. 1 \in 1 .. Len(q) /\ Head(q) = q[1]
  OBVIOUS
<1> QED BY <1>1 DEF Members

\* The thread that sem_post() wakes was blocked in that mailbox.
LEMMA PostWakesBlocked ==
    ASSUME NEW m, NEW In, NEW b, BoxOK(m, at, In, b)
    PROVE  /\ PostWakes(m) \subseteq InsideAs(at, In, b, "blocked")
           /\ m.waiters = <<>> => PostWakes(m) = {}
           /\ m.waiters # <<>> => PostWakes(m) = {Head(m.waiters)}
BY HeadIsMember DEF PostWakes, BoxOK, BoxRecs

Filled(m, msg) == [m EXCEPT !.q = Append(@, msg)]

\* ipc_send() into the mailbox b of the process p.
LEMMA SendStage ==
    ASSUME ProcsOK, NEW Tb, NEW B, Mail(Tb, B, at, inside, due),
           NEW p, NEW s \in SlotsOf(p), NEW b \in Boxes, Tb[s] = b, B[b].owner = p,
           NEW msg \in Messages
    PROVE  Mail(Tb, [B EXCEPT ![b] = Posted(Filled(B[b], msg))],
                Wake(PostWakes(B[b])), inside,
                [u \in Slots |-> IF state[u] = "alive" /\ pid[u] = p
                                 THEN Append(due[u], msg) ELSE due[u]])
<1> DEFINE m == B[b]
           n == [m EXCEPT !.q = Append(@, msg)]
           m2 == Posted(n)
           A2 == Wake(PostWakes(m))
           Du2 == [u \in Slots |-> IF state[u] = "alive" /\ pid[u] = p
                                    THEN Append(due[u], msg) ELSE due[u]]
<1>0. s \in Slots /\ pid[s] = p /\ state[s] # "unused" /\ b # NoBox
  BY IpcAssumption DEF SlotsOf
<1>1. BoxOK(m, at, inside, b) /\ m \in BoxRecs /\ m.held /\ ~m.dead
  BY <1>0 DEF Mail, BoxOK, TableOK
<1>2. /\ m.q \in Seq(Messages) /\ m.items \in Nat /\ m.waiters \in Seq(Threads) /\ m.refs \in Nat
      /\ Append(m.q, msg) \in Seq(Messages) /\ m.items + 1 \in Nat
  BY <1>1 DEF BoxRecs
<1> DEFINE W == PostWakes(m)
           ws == Without(m.waiters, W)
<1>3. ws \in Seq(Threads) /\ Members(ws) = Members(m.waiters) \ W
  BY <1>2, WithoutMembers
<1>4. n.waiters = m.waiters /\ n.items = m.items /\ n.q = Append(m.q, msg) /\ n \in BoxRecs
      /\ n.held = m.held /\ n.dead = m.dead /\ n.owner = m.owner /\ n.refs = m.refs
  BY <1>1, <1>2 DEF BoxRecs
<1>5. PostWakes(n) = W
  BY <1>4 DEF PostWakes
<1>6. m2 = [n EXCEPT !.items = n.items + 1, !.waiters = ws]
  <2>1. m2 = [n EXCEPT !.items = n.items + 1, !.waiters = Without(n.waiters, PostWakes(n))]
    BY DEF Posted
  <2>2. Without(n.waiters, PostWakes(n)) = ws
    BY <1>4, <1>5
  <2> QED BY <2>1, <2>2
<1> HIDE DEF n, ws, m2
<1>7. /\ m2 \in BoxRecs /\ m2.held = m.held /\ m2.dead = m.dead /\ m2.owner = m.owner
      /\ m2.refs = m.refs /\ m2.q = Append(m.q, msg) /\ m2.items = m.items + 1 /\ m2.waiters = ws
  BY <1>2, <1>3, <1>4, <1>6 DEF BoxRecs
<1>8. at \in [Threads -> ThreadStates] /\ ThreadsOK(at, inside)
  BY DEF Mail, ThreadsOK
<1>9. A2 = [t \in Threads |-> IF t \in W THEN "woken" ELSE at[t]]
  BY DEF Wake
<1>10. W \subseteq InsideAs(at, inside, b, "blocked")
  BY <1>1, PostWakesBlocked
<1> HIDE DEF m, A2, W
<1>11. \A t \in Threads : /\ t \in W => A2[t] = "woken" /\ at[t] = "blocked" /\ inside[t] = b
                          /\ t \notin W => A2[t] = at[t]
  BY <1>9, <1>10 DEF InsideAs
<1>12. ThreadsOK(A2, inside)
  <2>1. A2 \in [Threads -> ThreadStates]
    BY <1>8, <1>9 DEF ThreadStates
  <2> QED BY <1>8, <1>11, <2>1 DEF ThreadsOK, InBox
<1>13. InsideAs(A2, inside, b, "blocked") = InsideAs(at, inside, b, "blocked") \ W
  BY <1>11 DEF InsideAs
<1>14. BoxOK(m2, A2, inside, b)
  <2>1. Members(ws) = InsideAs(A2, inside, b, "blocked")
    BY <1>1, <1>3, <1>13 DEF BoxOK
  <2>2. ASSUME ws # <<>>
        PROVE  m.items + 1 <= Cardinality(InsideAs(A2, inside, b, "woken"))
    <3>1. m.waiters # <<>>
      <4> SUFFICES ASSUME m.waiters = <<>> PROVE FALSE
        OBVIOUS
      <4>1. Members(m.waiters) = {}
        BY <1>2, EmptyQueue
      <4>2. Members(ws) = {}
        BY <1>3, <4>1
      <4> QED BY <1>3, <2>2, <4>2, EmptyQueue
    <3>2. PICK h \in Threads : W = {h}
      BY <1>1, <1>2, <3>1, PostWakesBlocked, HeadIsMember DEF W
    <3> DEFINE K == InsideAs(at, inside, b, "woken")
    <3>3. InsideAs(A2, inside, b, "woken") = K \cup {h} /\ h \notin K
      BY <1>11, <3>2 DEF InsideAs
    <3>4. K \in SUBSET Threads
      BY DEF InsideAs
    <3>5. m.items <= Cardinality(K)
      BY <1>1, <3>1 DEF BoxOK
    <3> HIDE DEF K
    <3>6. Cardinality(K \cup {h}) = Cardinality(K) + 1 /\ Cardinality(K) \in Nat
      BY <3>3, <3>4, CountedInOut, NobodyCounted
    <3>7. m.items + 1 <= Cardinality(K \cup {h})
      BY <1>2, <3>5, <3>6
    <3> QED BY <3>3, <3>7
  <2> QED BY <1>1, <1>7, <2>1, <2>2 DEF BoxOK
<1>15. Moves(at, inside, A2, inside, s, b)
  <2> SUFFICES ASSUME NEW t \in Threads, A2[t] # at[t]
               PROVE  Alive(t) /\ SlotOf[t] = s /\ inside[t] \in {b, NoBox}
    BY DEF Moves
  <2>1. at[t] = "blocked" /\ inside[t] = b
    BY <1>11
  <2>2. Alive(t) /\ SlotOf[t] \in Slots
    BY <1>8, <2>1, IpcAssumption DEF ThreadsOK
  <2>3. Tb[SlotOf[t]] = b
    BY <1>0, <2>1, <2>2 DEF Mail, TableOK
  <2> QED BY <1>0, <2>1, <2>2, <2>3 DEF Mail, TableOK
<1>16. NowDue(due, Du2, s, m2)
  <2>1. due \in [Slots -> Seq(Messages)]
    BY DEF Mail, DueOK
  <2>2. due[s] = IF state[s] = "alive" THEN m.q ELSE <<>>
    BY <1>0 DEF Mail, DueOK, Owns, m
  <2>3. \A u \in Slots \ {s} : ~(state[u] = "alive" /\ pid[u] = p)
    BY <1>0 DEF ProcsOK
  <2> QED BY <1>0, <1>7, <2>1, <2>2, <2>3 DEF NowDue
<1> HIDE DEF Du2
<1>17. m2.held /\ ~m2.dead /\ m2.owner = pid[s] /\ B[b].owner = pid[s]
  BY <1>0, <1>1, <1>7 DEF m
<1>18. Mail(Tb, [B EXCEPT ![b] = m2], A2, inside, Du2)
  BY <1>0, <1>12, <1>14, <1>15, <1>16, <1>17, ChangeBox
<1> QED BY <1>18 DEF m2, n, m, A2, Du2, W, Filled

\* A thread t that does not sit in the queue of its process's mailbox b, which
\* has become n by counting t in if it was not.
Visits(Tb, B, t, b, n) ==
    /\ Alive(t) /\ at[t] \in {"user", "woken", "sleeping"}
    /\ Tb[SlotOf[t]] = b /\ B[b].owner = pid[SlotOf[t]]
    /\ inside[t] \in {NoBox, b}
    /\ n \in BoxRecs
    /\ n.held = B[b].held /\ n.dead = B[b].dead /\ n.owner = B[b].owner
    /\ n.q = B[b].q /\ n.items = B[b].items /\ n.waiters = B[b].waiters
    /\ n.refs = Cardinality(Inside(inside, b) \cup {t})

\* What it finds, and the thread sets once it is there (ib) in state st.
Visited(n, t, b, A2, In2, st, ib) ==
    /\ SlotOf[t] \in Slots /\ b # NoBox
    /\ n.held /\ ~n.dead /\ n.owner < nextPid /\ n.refs \in Nat /\ n.refs >= 1
    /\ A2 \in [Threads -> ThreadStates] /\ In2 \in [Threads -> Boxes \cup {NoBox}]
    /\ A2[t] = st /\ In2[t] = ib
    /\ \A u \in Threads \ {t} : A2[u] = at[u] /\ In2[u] = inside[u]
    /\ Moves(at, inside, A2, In2, SlotOf[t], b)
    /\ Cardinality(Inside(In2, b)) = IF ib = b THEN n.refs ELSE n.refs - 1
    /\ InsideAs(A2, In2, b, "blocked") =
          Members(n.waiters) \cup (IF st = "blocked" /\ ib = b THEN {t} ELSE {})
    /\ InsideAs(A2, In2, b, "woken") = InsideAs(at, inside, b, "woken") \ {t}
    /\ n.waiters # <<>> => n.items <= Cardinality(InsideAs(at, inside, b, "woken"))

LEMMA VisitFacts ==
    ASSUME NEW Tb, NEW B, Mail(Tb, B, at, inside, due), NEW t \in Threads, NEW b \in Boxes,
           NEW n, Visits(Tb, B, t, b, n),
           NEW st \in ThreadStates, NEW ib \in {b, NoBox}, st # "woken",
           NEW A2, A2 = [at EXCEPT ![t] = st], NEW In2, In2 = [inside EXCEPT ![t] = ib]
    PROVE  Visited(n, t, b, A2, In2, st, ib)
<1> DEFINE I == Inside(inside, b) \cup {t}
<1>1. SlotOf[t] \in Slots /\ b # NoBox
  BY IpcAssumption
<1>2. BoxOK(B[b], at, inside, b) /\ B[b].held /\ ~B[b].dead
  BY <1>1 DEF Mail, TableOK, Visits
<1>3. n.held /\ ~n.dead /\ n.owner < nextPid
  BY <1>2 DEF BoxOK, Visits
<1>4. I \in SUBSET Threads /\ t \in I /\ n.refs = Cardinality(I)
  BY DEF Inside, Visits
<1>5. at \in [Threads -> ThreadStates] /\ inside \in [Threads -> Boxes \cup {NoBox}]
  BY DEF Mail, ThreadsOK
<1>6. /\ A2 \in [Threads -> ThreadStates] /\ In2 \in [Threads -> Boxes \cup {NoBox}]
      /\ A2[t] = st /\ In2[t] = ib
      /\ \A u \in Threads \ {t} : A2[u] = at[u] /\ In2[u] = inside[u]
  BY <1>5
<1>7. Inside(In2, b) = IF ib = b THEN I ELSE I \ {t}
  BY <1>1, <1>6 DEF Inside
<1> HIDE DEF I
<1>8. n.refs \in Nat /\ n.refs >= 1 /\ Cardinality(I \ {t}) = n.refs - 1
  BY <1>4, CountedInOut, NobodyCounted
<1>9. Cardinality(Inside(In2, b)) = IF ib = b THEN n.refs ELSE n.refs - 1
  BY <1>4, <1>7, <1>8
<1>10. Moves(at, inside, A2, In2, SlotOf[t], b)
  BY <1>6 DEF Moves, Visits
<1>11. InsideAs(A2, In2, b, "blocked") =
          InsideAs(at, inside, b, "blocked") \cup (IF st = "blocked" /\ ib = b THEN {t} ELSE {})
  BY <1>6 DEF InsideAs, Visits
<1>12. Members(n.waiters) = InsideAs(at, inside, b, "blocked")
  BY <1>2 DEF BoxOK, Visits
<1>13. InsideAs(A2, In2, b, "woken") = InsideAs(at, inside, b, "woken") \ {t}
  BY <1>6 DEF InsideAs
<1>14. n.waiters # <<>> => n.items <= Cardinality(InsideAs(at, inside, b, "woken"))
  BY <1>2 DEF BoxOK, Visits
<1> QED BY <1>1, <1>3, <1>6, <1>8, <1>9, <1>10, <1>11, <1>12, <1>13, <1>14 DEF Visited

\* It leaves, with a token or because it has waited long enough.
LEMMA LeavesStage ==
    ASSUME ProcsOK, NEW Tb, NEW B, Mail(Tb, B, at, inside, due),
           NEW t \in Threads, NEW b \in Boxes, NEW n, Visits(Tb, B, t, b, n),
           NEW m \in BoxRecs, m.held = n.held, m.dead = n.dead, m.owner = n.owner,
           m.refs = n.refs - 1, m.waiters = n.waiters,
           \/ n.items = 0 /\ m.items = 0
           \/ n.items > 0 /\ m.items = n.items - 1,
           NEW Du2, NowDue(due, Du2, SlotOf[t], m)
    PROVE  Mail(Tb, [B EXCEPT ![b] = m], [at EXCEPT ![t] = "user"],
                [inside EXCEPT ![t] = NoBox], Du2)
<1> DEFINE st == "user"
           A2 == [at EXCEPT ![t] = st]
           ib == NoBox
           In2 == [inside EXCEPT ![t] = ib]
           K == InsideAs(at, inside, b, "woken")
<1>0. st \in ThreadStates /\ st # "woken" /\ st # "blocked"
  BY DEF ThreadStates
<1>1. A2 = [at EXCEPT ![t] = st] /\ In2 = [inside EXCEPT ![t] = ib] /\ ib = NoBox
  OBVIOUS
<1> HIDE DEF A2, In2, st, ib
<1>2. Visited(n, t, b, A2, In2, st, ib)
  <2>1. ib \in {b, NoBox}
    BY <1>1
  <2> QED BY <1>0, <1>1, <2>1, VisitFacts
<1>3. K \in SUBSET Threads /\ Cardinality(K) \in Nat /\ Cardinality(K \ {t}) \in Nat
      /\ (t \in K => Cardinality(K \ {t}) = Cardinality(K) - 1)
      /\ (t \notin K => K \ {t} = K)
  <2>1. K \in SUBSET Threads /\ K \ {t} \in SUBSET Threads
    BY DEF InsideAs
  <2> HIDE DEF K
  <2> QED BY <2>1, CountedInOut, NobodyCounted
<1>4. n.items \in Nat /\ m.items \in Nat
  BY DEF BoxRecs, Visits
<1>5. ASSUME m.waiters # <<>> PROVE m.items <= Cardinality(K \ {t})
  <2>1. n.items <= Cardinality(K)
    BY <1>2, <1>5 DEF Visited
  <2> HIDE DEF K
  <2>2. CASE t \in K
    BY <1>3, <1>4, <2>1, <2>2
  <2>3. CASE t \notin K
    BY <1>3, <1>4, <2>1, <2>3
  <2> QED BY <2>2, <2>3
<1>6. BoxOK(m, A2, In2, b)
  <2>1. Inside(In2, b) # {} => m.held
    BY <1>2 DEF Visited
  <2>2. m.refs = Cardinality(Inside(In2, b)) /\ Members(m.waiters) = InsideAs(A2, In2, b, "blocked")
    BY <1>0, <1>1, <1>2 DEF Visited
  <2>3. m.owner < nextPid
    BY <1>2 DEF Visited
  <2>4. m.waiters # <<>> => m.items <= Cardinality(InsideAs(A2, In2, b, "woken"))
    BY <1>2, <1>5 DEF Visited
  <2> QED BY <2>1, <2>2, <2>3, <2>4 DEF BoxOK
<1>7. ThreadsOK(A2, In2)
  <2>1. ThreadsOK(at, inside)
    BY DEF Mail
  <2>2. A2[t] = "user" /\ Alive(t)
    BY <1>2 DEF st, Visits, Visited
  <2>3. state[SlotOf[t]] # "unused"
    BY <2>2 DEF Alive
  <2> QED BY <1>1, <1>2, <2>1, <2>2, <2>3 DEF ThreadsOK, InBox, Visited
<1>8. m.held /\ ~m.dead /\ m.owner = pid[SlotOf[t]] /\ B[b].owner = pid[SlotOf[t]]
      /\ Tb[SlotOf[t]] = b
  BY <1>2 DEF Visits, Visited
<1>9. Mail(Tb, [B EXCEPT ![b] = m], A2, In2, Du2)
  BY <1>2, <1>6, <1>7, <1>8, ChangeBox DEF Visited
<1> QED BY <1>9 DEF A2, In2, st, ib

\* It stays, blocked in the queue or asleep, in a mailbox without a token.
LEMMA StaysStage ==
    ASSUME ProcsOK, NEW Tb, NEW B, Mail(Tb, B, at, inside, due),
           NEW t \in Threads, NEW b \in Boxes, NEW n, Visits(Tb, B, t, b, n), n.items = 0,
           NEW st \in {"blocked", "sleeping"},
           NEW m \in BoxRecs, m.held = n.held, m.dead = n.dead, m.owner = n.owner,
           m.refs = n.refs, m.items = n.items, m.q = n.q,
           m.waiters = IF st = "blocked" THEN Append(n.waiters, t) ELSE n.waiters
    PROVE  Mail(Tb, [B EXCEPT ![b] = m], [at EXCEPT ![t] = st], [inside EXCEPT ![t] = b], due)
<1> DEFINE A2 == [at EXCEPT ![t] = st]
           In2 == [inside EXCEPT ![t] = b]
<1>0. st \in ThreadStates /\ st # "woken" /\ st \in InBox
  BY DEF ThreadStates, InBox
<1>1. A2 = [at EXCEPT ![t] = st] /\ In2 = [inside EXCEPT ![t] = b]
  OBVIOUS
<1> HIDE DEF A2, In2
<1>2. Visited(n, t, b, A2, In2, st, b)
  BY <1>0, <1>1, VisitFacts
<1>3. Members(m.waiters) = InsideAs(A2, In2, b, "blocked")
  <2>1. n.waiters \in Seq(Threads)
    BY DEF Visits, BoxRecs
  <2>2. CASE st = "blocked"
    <3>1. Members(m.waiters) = Members(n.waiters) \cup {t}
      BY <2>1, <2>2, AppendMembers
    <3> QED BY <1>2, <2>2, <3>1 DEF Visited
  <2>3. CASE st # "blocked"
    BY <1>2, <2>3 DEF Visited
  <2> QED BY <2>2, <2>3
<1>4. m.items <= Cardinality(InsideAs(A2, In2, b, "woken"))
  <2> DEFINE K == InsideAs(A2, In2, b, "woken")
  <2>1. K \in SUBSET Threads
    BY DEF InsideAs
  <2> HIDE DEF K
  <2>2. Cardinality(K) \in Nat
    BY <2>1, NobodyCounted
  <2>3. 0 <= Cardinality(K)
    BY <2>2
  <2> QED BY <2>3 DEF K
<1>5. BoxOK(m, A2, In2, b)
  <2>1. m.owner < nextPid /\ m.held
    BY <1>2 DEF Visited
  <2>2. m.refs = Cardinality(Inside(In2, b))
    BY <1>2 DEF Visited
  <2> QED BY <1>3, <1>4, <2>1, <2>2 DEF BoxOK
<1>6. Alive(t) /\ state[SlotOf[t]] # "unused" /\ SlotOf[t] \in Slots /\ b # NoBox
  BY <1>2 DEF Alive, Visits, Visited
<1>7. ThreadsOK(A2, In2)
  <2>1. ThreadsOK(at, inside)
    BY DEF Mail
  <2>2. st \notin {"lingering", "dead"} /\ st \notin {"user", "lingering"}
    OBVIOUS
  <2> QED BY <1>0, <1>2, <1>6, <2>1, <2>2 DEF ThreadsOK, InBox, Visited
<1>8. NowDue(due, due, SlotOf[t], m)
  <2>1. m.q = B[b].q
    BY DEF Visits
  <2>2. due \in [Slots -> Seq(Messages)]
    BY DEF Mail, DueOK
  <2>3. Owns(Tb, B, SlotOf[t], pid[SlotOf[t]]) /\ Tb[SlotOf[t]] = b
    BY <1>6 DEF Visits, Owns
  <2>4. due[SlotOf[t]] = IF state[SlotOf[t]] = "alive" THEN m.q ELSE <<>>
    BY <1>6, <2>1, <2>3 DEF Mail, DueOK
  <2> QED BY <2>2, <2>4 DEF NowDue
<1>9. m.held /\ ~m.dead /\ m.owner = pid[SlotOf[t]] /\ B[b].owner = pid[SlotOf[t]]
      /\ Tb[SlotOf[t]] = b /\ Moves(at, inside, A2, In2, SlotOf[t], b)
  BY <1>2 DEF Visits, Visited
<1>10. Mail(Tb, [B EXCEPT ![b] = m], A2, In2, due)
  BY <1>5, <1>6, <1>7, <1>8, <1>9, ChangeBox
<1> QED BY <1>10 DEF A2, In2

\* mailbox_put() of a mailbox that has not been retired.
LEMMA PutLiving ==
    ASSUME NEW m \in BoxRecs, ~m.dead, m.refs >= 1
    PROVE  /\ Put(m) \in BoxRecs /\ Put(m).held = m.held /\ Put(m).dead = m.dead
           /\ Put(m).owner = m.owner /\ Put(m).refs = m.refs - 1 /\ Put(m).q = m.q
           /\ Put(m).items = m.items /\ Put(m).waiters = m.waiters
<1>1. Put(m) = [m EXCEPT !.refs = m.refs - 1]
  BY DEF Put
<1>2. m.refs - 1 \in Nat
  BY DEF BoxRecs
<1> QED BY <1>1, <1>2 DEF BoxRecs

\* One look at the semaphore by t, which the mailbox already counts.
LEMMA LookStage ==
    ASSUME ProcsOK, NEW Tb, NEW B, Mail(Tb, B, at, inside, due),
           NEW t \in Threads, NEW b \in Boxes, NEW n, Visits(Tb, B, t, b, n),
           NEW C, C = [B EXCEPT ![b] = n], NEW forever \in BOOLEAN, NEW W, W = {},
           Looks(t, C, b, forever, W)
    PROVE  Mail(Tb, box', at', inside', due')
<1>1. B = [c \in Boxes |-> B[c]] /\ at \in [Threads -> ThreadStates]
  BY DEF Mail, ThreadsOK
<1>2. C[b] = n /\ \A x : [C EXCEPT ![b] = x] = [B EXCEPT ![b] = x]
  BY <1>1
<1>3. Wake(W) = at
  BY <1>1 DEF Wake
<1>4. /\ n \in BoxRecs /\ n.items \in Nat /\ n.q \in Seq(Messages) /\ n.waiters \in Seq(Threads)
      /\ n.refs \in Nat /\ n.q = B[b].q
  BY DEF Visits, BoxRecs
<1>5. ~n.dead /\ n.refs >= 1 /\ SlotOf[t] \in Slots
  <2>1. "user" \in ThreadStates /\ "user" # "woken" /\ b \in {b, NoBox}
    BY DEF ThreadStates
  <2>2. Visited(n, t, b, [at EXCEPT ![t] = "user"], [inside EXCEPT ![t] = b], "user", b)
    BY <2>1, VisitFacts
  <2> QED BY <2>2 DEF Visited
<1>6. due \in [Slots -> Seq(Messages)] /\ due[SlotOf[t]] = n.q /\ state[SlotOf[t]] = "alive"
  <2>1. state[SlotOf[t]] = "alive" /\ Tb[SlotOf[t]] = b /\ Owns(Tb, B, SlotOf[t], pid[SlotOf[t]])
    <3>1. b # NoBox
      BY IpcAssumption
    <3> QED BY <3>1 DEF Alive, Visits, Owns
  <2> QED BY <1>4, <1>5, <2>1 DEF Mail, DueOK
<1>7. CASE Takes(t, C, b) /\ at' = [Wake(W) EXCEPT ![t] = "user"]
  <2> DEFINE q2 == IF n.q = <<>> THEN n.q ELSE Tail(n.q)
             m == [n EXCEPT !.items = n.items - 1, !.q = q2]
             m2 == Put(m)
  <2>1. /\ n.items > 0 /\ box' = [C EXCEPT ![b] = m2] /\ inside' = [inside EXCEPT ![t] = NoBox]
        /\ due' = [due EXCEPT ![SlotOf[t]] = IF n.q = <<>> \/ due[SlotOf[t]] = <<>>
                                             THEN due[SlotOf[t]] ELSE Tail(due[SlotOf[t]])]
    BY <1>2, <1>7 DEF Takes
  <2>2. q2 \in Seq(Messages) /\ n.items - 1 \in Nat
    BY <1>4, <2>1
  <2> HIDE DEF q2
  <2>3. /\ m \in BoxRecs /\ m.held = n.held /\ m.dead = n.dead /\ m.owner = n.owner
        /\ m.refs = n.refs /\ m.q = q2 /\ m.items = n.items - 1 /\ m.waiters = n.waiters
    BY <1>4, <2>2 DEF BoxRecs
  <2> HIDE DEF m
  <2>4. /\ m2 \in BoxRecs /\ m2.held = m.held /\ m2.dead = m.dead
        /\ m2.owner = m.owner /\ m2.refs = m.refs - 1 /\ m2.q = m.q
        /\ m2.items = m.items /\ m2.waiters = m.waiters
    BY <1>5, <2>3, PutLiving
  <2> HIDE DEF m2
  <2>5. due' = [due EXCEPT ![SlotOf[t]] = q2]
    BY <1>6, <2>1 DEF q2
  <2>6. NowDue(due, due', SlotOf[t], m2)
    <3>1. due' \in [Slots -> Seq(Messages)] /\ due'[SlotOf[t]] = q2
          /\ \A u \in Slots \ {SlotOf[t]} : due'[u] = due[u]
      BY <1>5, <1>6, <2>2, <2>5
    <3> QED BY <1>6, <2>3, <2>4, <3>1 DEF NowDue
  <2>7. m2.refs = n.refs - 1 /\ m2.waiters = n.waiters /\ m2.held = n.held /\ m2.dead = n.dead
        /\ m2.owner = n.owner /\ m2.items = n.items - 1
    BY <2>3, <2>4
  <2>8. Mail(Tb, [B EXCEPT ![b] = m2], [at EXCEPT ![t] = "user"], [inside EXCEPT ![t] = NoBox], due')
    BY <2>1, <2>4, <2>6, <2>7, LeavesStage
  <2> QED BY <1>2, <1>3, <1>7, <2>1, <2>8
<1>8. CASE forever /\ Blocks(t, C, b) /\ at' = [Wake(W) EXCEPT ![t] = "blocked"]
  <2> DEFINE m == [n EXCEPT !.waiters = Append(n.waiters, t)]
  <2>1. n.items = 0 /\ inside' = [inside EXCEPT ![t] = b] /\ due' = due
        /\ box' = [C EXCEPT ![b].waiters = Append(n.waiters, t)]
    BY <1>2, <1>8 DEF Blocks
  <2>2. [C EXCEPT ![b].waiters = Append(n.waiters, t)] = [C EXCEPT ![b] = m]
    BY <1>2
  <2>3. Append(n.waiters, t) \in Seq(Threads)
    BY <1>4
  <2>4. /\ m \in BoxRecs /\ m.held = n.held /\ m.dead = n.dead /\ m.owner = n.owner
        /\ m.refs = n.refs /\ m.q = n.q /\ m.items = n.items /\ m.waiters = Append(n.waiters, t)
    BY <1>4, <2>3 DEF BoxRecs
  <2> HIDE DEF m
  <2> DEFINE st == "blocked"
  <2>5. st \in {"blocked", "sleeping"} /\ st = "blocked"
    OBVIOUS
  <2> HIDE DEF st
  <2>6. m.waiters = IF st = "blocked" THEN Append(n.waiters, t) ELSE n.waiters
    BY <2>4, <2>5
  <2>7. Mail(Tb, [B EXCEPT ![b] = m], [at EXCEPT ![t] = st], [inside EXCEPT ![t] = b], due)
    BY <2>1, <2>4, <2>5, <2>6, StaysStage
  <2> QED BY <1>2, <1>3, <1>8, <2>1, <2>2, <2>7 DEF st
<1>9. CASE ~forever /\ Sleeps(t, C, b) /\ at' = [Wake(W) EXCEPT ![t] = "sleeping"]
  <2>1. n.items = 0 /\ inside' = [inside EXCEPT ![t] = b] /\ due' = due /\ box' = C
    BY <1>2, <1>9 DEF Sleeps
  <2> DEFINE st == "sleeping"
  <2>2. st \in {"blocked", "sleeping"} /\ st # "blocked"
    OBVIOUS
  <2> HIDE DEF st
  <2>3. n.waiters = IF st = "blocked" THEN Append(n.waiters, t) ELSE n.waiters
    BY <2>2
  <2>4. Mail(Tb, [B EXCEPT ![b] = n], [at EXCEPT ![t] = st], [inside EXCEPT ![t] = b], due)
    BY <1>4, <2>1, <2>2, <2>3, StaysStage
  <2> QED BY <1>3, <1>9, <2>1, <2>4 DEF st
<1>10. CASE ~forever /\ TimesOut(t, C, b) /\ at' = [Wake(W) EXCEPT ![t] = "user"]
  <2> DEFINE m2 == Put(n)
  <2>1. n.items = 0 /\ inside' = [inside EXCEPT ![t] = NoBox] /\ due' = due
        /\ box' = [C EXCEPT ![b] = m2]
    BY <1>2, <1>10 DEF TimesOut
  <2>2. /\ m2 \in BoxRecs /\ m2.held = n.held /\ m2.dead = n.dead
        /\ m2.owner = n.owner /\ m2.refs = n.refs - 1 /\ m2.q = n.q
        /\ m2.items = n.items /\ m2.waiters = n.waiters
    BY <1>4, <1>5, PutLiving
  <2> HIDE DEF m2
  <2>3. NowDue(due, due, SlotOf[t], m2)
    BY <1>6, <2>2 DEF NowDue
  <2>4. m2.items = 0
    BY <2>1, <2>2
  <2>5. Mail(Tb, [B EXCEPT ![b] = m2], [at EXCEPT ![t] = "user"], [inside EXCEPT ![t] = NoBox], due)
    BY <2>1, <2>2, <2>3, <2>4, LeavesStage
  <2> QED BY <1>2, <1>3, <1>10, <2>1, <2>5
<1> QED BY <1>7, <1>8, <1>9, <1>10 DEF Looks

-----------------------------------------------------------------------------
(* The calls.                                                              *)

\* Nobody else is woken when nobody waits.
LEMMA WakeNobody ==
    ASSUME at \in [Threads -> ThreadStates], NEW W, W = {}
    PROVE  Wake(W) = at /\ \A S : Wake(W \cup S) = Wake(S)
BY DEF Wake

\* mailbox_get_or_create() fails.
LEMMA NoMemoryStage ==
    ASSUME ProcsOK, Mail(table, box, at, inside, due), NEW p, NEW s \in SlotsOf(p), NoMemory(s, p)
    PROVE  Mail(table', box', at', inside', due')
<1>1. /\ Mail([table EXCEPT ![s] = NoBox], Boxes0(s, p), at, inside, due)
      /\ Wakes0(s, p) = {}
  BY StaleStage DEF NoMemory
<1>2. at' = at
  BY <1>1, WakeNobody DEF NoMemory, Mail, ThreadsOK
<1> QED BY <1>1, <1>2 DEF NoMemory

LEMMA SendMail ==
    ASSUME ProcsOK, Mail(table, box, at, inside, due),
           NEW t \in Threads, NEW p, NEW msg \in Messages, Send(t, p, msg)
    PROVE  Mail(table', box', at', inside', due') /\ UNCHANGED <<procVars, shmVars>>
<1>0. at \in [Threads -> ThreadStates]
  BY DEF Mail, ThreadsOK
<1>1. PICK s \in SlotsOf(p) :
        \/ NoMemory(s, p)
        \/ \E b \in Boxes :
            LET m == Boxes1(s, p, b)[b]
            IN  /\ Gets(s, p, b)
                /\ table' = [table EXCEPT ![s] = b]
                /\ IF Full(m)
                   THEN /\ box' = Boxes1(s, p, b)
                        /\ at' = Wake(Wakes0(s, p))
                        /\ UNCHANGED due
                   ELSE /\ box' = [Boxes1(s, p, b) EXCEPT ![b] = Posted([m EXCEPT !.q = Append(@, msg)])]
                        /\ at' = Wake(Wakes0(s, p) \cup PostWakes(m))
                        /\ due' = [u \in Slots |-> IF state[u] = "alive" /\ pid[u] = p
                                                   THEN Append(due[u], msg) ELSE due[u]]
                /\ UNCHANGED <<procVars, inside, shmVars>>
  BY DEF Send
<1>2. CASE NoMemory(s, p)
  BY <1>2, NoMemoryStage DEF NoMemory
<1>3. ASSUME NEW b \in Boxes, Gets(s, p, b), table' = [table EXCEPT ![s] = b],
             IF Full(Boxes1(s, p, b)[b])
             THEN /\ box' = Boxes1(s, p, b)
                  /\ at' = Wake(Wakes0(s, p))
                  /\ UNCHANGED due
             ELSE /\ box' = [Boxes1(s, p, b) EXCEPT
                                ![b] = Posted([Boxes1(s, p, b)[b] EXCEPT !.q = Append(@, msg)])]
                  /\ at' = Wake(Wakes0(s, p) \cup PostWakes(Boxes1(s, p, b)[b]))
                  /\ due' = [u \in Slots |-> IF state[u] = "alive" /\ pid[u] = p
                                             THEN Append(due[u], msg) ELSE due[u]],
             UNCHANGED <<procVars, inside, shmVars>>
      PROVE  Mail(table', box', at', inside', due')
  <2> DEFINE Tb == [table EXCEPT ![s] = b]
             B == Boxes1(s, p, b)
  <2>0. Gets(s, p, b)
    BY <1>3
  <2>1. /\ Mail(Tb, B, at, inside, due) /\ Tb[s] = b /\ B[b].owner = p
        /\ Wakes0(s, p) = {}
    BY <2>0, GetsStage
  <2>2. table' = Tb /\ inside' = inside
    BY <1>3
  <2>3. CASE Full(B[b])
    <3>1. box' = B /\ at' = at /\ due' = due
      BY <1>0, <1>3, <2>1, <2>3, WakeNobody
    <3> QED BY <2>1, <2>2, <3>1
  <2>4. CASE ~Full(B[b])
    <3>1. /\ box' = [B EXCEPT ![b] = Posted(Filled(B[b], msg))]
          /\ at' = Wake(PostWakes(B[b]))
          /\ due' = [u \in Slots |-> IF state[u] = "alive" /\ pid[u] = p
                                     THEN Append(due[u], msg) ELSE due[u]]
      BY <1>0, <1>3, <2>1, <2>4, WakeNobody DEF Filled
    <3> HIDE DEF Tb, B
    <3>2. Mail(Tb, B, at, inside, due) /\ Tb[s] = b /\ B[b].owner = p
      BY <2>1
    <3>3. Mail(Tb, [B EXCEPT ![b] = Posted(Filled(B[b], msg))],
               Wake(PostWakes(B[b])), inside,
               [u \in Slots |-> IF state[u] = "alive" /\ pid[u] = p
                                THEN Append(due[u], msg) ELSE due[u]])
      BY <3>2, SendStage
    <3> QED BY <2>2, <3>1, <3>3
  <2> QED BY <2>3, <2>4
<1>4. UNCHANGED <<procVars, shmVars>>
  BY <1>1 DEF NoMemory
<1> QED BY <1>1, <1>2, <1>3, <1>4

LEMMA ReceiveMail ==
    ASSUME ProcsOK, Mail(table, box, at, inside, due),
           NEW t \in Threads, NEW forever \in BOOLEAN, Receive(t, forever)
    PROVE  Mail(table', box', at', inside', due') /\ UNCHANGED <<procVars, shmVars>>
<1> DEFINE p == pid[SlotOf[t]]
<1>0. at[t] = "user" /\ Alive(t) /\ SlotOf[t] \in Slots /\ inside[t] = NoBox
  BY IpcAssumption DEF Receive, Mail, ThreadsOK
<1>1. PICK s \in SlotsOf(p) :
        \/ NoMemory(s, p)
        \/ \E b \in Boxes :
            /\ Gets(s, p, b)
            /\ table' = [table EXCEPT ![s] = b]
            /\ Looks(t, [Boxes1(s, p, b) EXCEPT ![b].refs = @ + 1], b, forever, Wakes0(s, p))
            /\ UNCHANGED <<procVars, shmVars>>
  BY DEF Receive
<1>2. CASE NoMemory(s, p)
  <2> HIDE DEF p
  <2> QED BY <1>2, NoMemoryStage DEF NoMemory
<1>3. ASSUME NEW b \in Boxes, Gets(s, p, b), table' = [table EXCEPT ![s] = b],
             Looks(t, [Boxes1(s, p, b) EXCEPT ![b].refs = @ + 1], b, forever, Wakes0(s, p))
      PROVE  Mail(table', box', at', inside', due')
  <2> DEFINE Tb == [table EXCEPT ![s] = b]
             B == Boxes1(s, p, b)
             n == [B[b] EXCEPT !.refs = B[b].refs + 1]
             C == [B EXCEPT ![b].refs = @ + 1]
             W == Wakes0(s, p)
  <2>1. s = SlotOf[t]
    BY <1>0 DEF SlotsOf, ProcsOK, Alive
  <2>2. /\ Mail(Tb, B, at, inside, due) /\ Tb[s] = b /\ B[b].owner = p
        /\ W = {}
    <3>1. Gets(s, p, b)
      BY <1>3
    <3> HIDE DEF p
    <3> QED BY <3>1, GetsStage
  <2>3. table' = Tb /\ Looks(t, C, b, forever, W)
    BY <1>3
  <2>4. C = [B EXCEPT ![b] = n]
    OBVIOUS
  <2> HIDE DEF Tb, B, C, W
  <2>5. B[b] \in BoxRecs /\ B[b].held /\ ~B[b].dead /\ B[b].refs = Cardinality(Inside(inside, b))
    <3>1. b # NoBox /\ s \in Slots
      BY <1>0, <2>1, IpcAssumption
    <3>2. BoxOK(B[b], at, inside, b) /\ B[b].held /\ ~B[b].dead
      BY <2>2, <3>1 DEF Mail, TableOK
    <3> QED BY <3>2 DEF BoxOK
  <2>6. Cardinality(Inside(inside, b) \cup {t}) = B[b].refs + 1
    <3>1. Inside(inside, b) \in SUBSET Threads /\ t \notin Inside(inside, b)
      BY <1>0, IpcAssumption DEF Inside
    <3> QED BY <2>5, <3>1, CountedInOut
  <2>7. B[b].refs + 1 \in Nat
    BY <2>5 DEF BoxRecs
  <2>8. /\ n \in BoxRecs /\ n.held = B[b].held /\ n.dead = B[b].dead /\ n.owner = B[b].owner
        /\ n.q = B[b].q /\ n.items = B[b].items /\ n.waiters = B[b].waiters
        /\ n.refs = B[b].refs + 1
    BY <2>5, <2>7 DEF BoxRecs
  <2> HIDE DEF n
  <2>9. Visits(Tb, B, t, b, n)
    BY <1>0, <2>1, <2>2, <2>6, <2>8 DEF Visits
  <2>10. Mail(Tb, B, at, inside, due) /\ W = {}
    BY <2>2
  <2>11. Looks(t, C, b, forever, W)
    BY <2>3
  <2>12. Mail(Tb, box', at', inside', due')
    BY <2>4, <2>9, <2>10, <2>11, LookStage
  <2> QED BY <2>3, <2>12
<1>4. UNCHANGED <<procVars, shmVars>>
  BY <1>1 DEF NoMemory
<1> QED BY <1>1, <1>2, <1>3, <1>4

LEMMA ReceiveAgainMail ==
    ASSUME ProcsOK, Mail(table, box, at, inside, due), NEW t \in Threads, ReceiveAgain(t)
    PROVE  Mail(table', box', at', inside', due') /\ UNCHANGED <<procVars, shmVars>>
<1> DEFINE b == inside[t]
           n == box[b]
           forever == at[t] = "woken"
           W == {}
<1>1. at[t] \in {"woken", "sleeping"} /\ Alive(t) /\ b \in Boxes /\ SlotOf[t] \in Slots /\ b # NoBox
  BY IpcAssumption DEF ReceiveAgain, Mail, ThreadsOK, InBox
<1>2. table[SlotOf[t]] = b /\ n.owner = pid[SlotOf[t]]
  BY <1>1 DEF Mail, TableOK
<1>3. BoxOK(n, at, inside, b) /\ n.held /\ ~n.dead
  BY <1>1, <1>2 DEF Mail, TableOK
<1>4. Inside(inside, b) \cup {t} = Inside(inside, b)
  BY DEF Inside
<1>5. Visits(table, box, t, b, n)
  BY <1>1, <1>2, <1>3, <1>4 DEF Visits, BoxOK
<1>6. box = [box EXCEPT ![b] = n]
  BY <1>1 DEF Mail
<1>7. Looks(t, box, b, forever, W) /\ table' = table /\ forever \in BOOLEAN /\ W = {}
  BY DEF ReceiveAgain
<1> HIDE DEF b, n, forever, W
<1>8. Mail(table, box', at', inside', due')
  BY <1>1, <1>5, <1>6, <1>7, LookStage
<1> QED BY <1>7, <1>8 DEF ReceiveAgain

-----------------------------------------------------------------------------
(* Processes come and go.                                                  *)

\* Pids and slots: what the table of processes may do in a step.
LEMMA CreateProcs ==
    ASSUME ProcsOK, NEW s \in Slots, ProcessCreate(s)
    PROVE  ProcsOK'
<1>1. /\ state' \in [Slots -> {"unused", "alive", "zombie"}]
      /\ pid' \in [Slots -> Nat] /\ nextPid' \in Nat /\ nextPid' = nextPid + 1
      /\ pid'[s] = nextPid /\ \A u \in Slots \ {s} : pid'[u] = pid[u] /\ state'[u] = state[u]
  BY DEF ProcsOK, ProcessCreate
<1>2. \A u \in Slots : pid[u] \in Nat /\ pid[u] < nextPid
  BY DEF ProcsOK
<1>3. \A u \in Slots : pid'[u] < nextPid'
  BY <1>1, <1>2 DEF ProcsOK
<1>4. \A u \in Slots \ {s} : pid'[u] # pid'[s]
  BY <1>1, <1>2 DEF ProcsOK
<1>5. ASSUME NEW u \in Slots, NEW w \in Slots, state'[u] # "unused", state'[w] # "unused", pid'[u] = pid'[w]
      PROVE  u = w
  <2>1. CASE u = s \/ w = s
    BY <1>4, <1>5, <2>1
  <2>2. CASE u # s /\ w # s
    BY <1>1, <1>5, <2>2 DEF ProcsOK
  <2> QED BY <2>1, <2>2
<1> QED BY <1>1, <1>3, <1>5 DEF ProcsOK

LEMMA LeaveProcs ==
    ASSUME ProcsOK, NEW s \in Slots, state[s] # "unused", pid' = pid, nextPid' = nextPid,
           NEW st \in {"unused", "zombie"}, state' = [state EXCEPT ![s] = st]
    PROVE  ProcsOK'
BY DEF ProcsOK

LEMMA CreateMail ==
    ASSUME ProcsOK, Mail(table, box, at, inside, due), NEW s \in Slots, ProcessCreate(s)
    PROVE  Mail(table, box, at, inside, due)'
<1>0. UNCHANGED <<table, box, inside, due>>
  BY DEF ProcessCreate, boxVars
<1>1. state[s] = "unused" /\ state'[s] = "alive" /\ pid'[s] = nextPid /\ nextPid' = nextPid + 1
      /\ nextPid \in Nat
      /\ \A u \in Slots \ {s} : pid'[u] = pid[u] /\ state'[u] = state[u]
  BY DEF ProcsOK, ProcessCreate
<1>2. at' = [t \in Threads |-> IF t \in ThreadsOf(s) THEN "user" ELSE at[t]]
  BY DEF ProcessCreate
<1>3. \A t \in Threads : /\ SlotOf[t] \in Slots
                         /\ SlotOf[t] = s => at[t] = "dead" /\ inside[t] = NoBox
  BY <1>1, IpcAssumption DEF Mail, ThreadsOK
<1>4. \A t \in Threads : IF SlotOf[t] = s THEN at'[t] = "user" ELSE at'[t] = at[t]
  BY <1>2 DEF ThreadsOf
<1>5. \A t \in Threads : Alive(t)' <=> (SlotOf[t] = s \/ Alive(t))
  BY <1>1, <1>3 DEF Alive
<1>6. ThreadsOK(at, inside)'
  <2>0. ThreadsOK(at, inside)
    BY DEF Mail
  <2>1. at' \in [Threads -> ThreadStates]
    BY <1>2, <2>0 DEF ThreadsOK, ThreadStates
  <2>2. inside' \in [Threads -> Boxes \cup {NoBox}]
    BY <1>0, <2>0 DEF ThreadsOK
  <2>3. \A t \in Threads : Alive(t)' <=> at'[t] \notin {"lingering", "dead"}
    BY <1>4, <1>5, <2>0 DEF ThreadsOK
  <2>4. \A t \in Threads : state'[SlotOf[t]] = "unused" => at'[t] = "dead" /\ inside'[t] = NoBox
    BY <1>0, <1>1, <1>3, <1>4, <2>0 DEF ThreadsOK
  <2>5. \A t \in Threads : at'[t] \in InBox => inside'[t] # NoBox
    BY <1>0, <1>4, <2>0 DEF ThreadsOK, InBox
  <2>6. \A t \in Threads : at'[t] \in {"user", "lingering"} => inside'[t] = NoBox
    BY <1>0, <1>3, <1>4, <2>0 DEF ThreadsOK
  <2> QED BY <2>1, <2>2, <2>3, <2>4, <2>5, <2>6 DEF ThreadsOK
<1>7. ASSUME NEW b \in Boxes PROVE BoxOK(box[b], at, inside, b)'
  <2>1. b # NoBox /\ BoxOK(box[b], at, inside, b)
    BY IpcAssumption DEF Mail
  <2>2. \A how : InsideAs(at', inside, b, how) = InsideAs(at, inside, b, how)
    BY <1>3, <1>4, <2>1 DEF InsideAs
  <2>3. box[b].held => box[b].owner < nextPid + 1
    <3>1. box[b].owner \in Nat
      BY <2>1 DEF BoxOK, BoxRecs
    <3>2. box[b].held => box[b].owner < nextPid
      BY <2>1 DEF BoxOK
    <3> QED BY <1>1, <3>1, <3>2
  <2>4. BoxOK(box[b], at', inside, b)
    BY <2>1, <2>2 DEF BoxOK
  <2> QED BY <1>0, <1>1, <2>3, <2>4 DEF BoxOK
<1>8. TableOK(table, box, inside)'
  <2>1. ASSUME NEW t \in Threads, inside[t] # NoBox
        PROVE  IF Alive(t)' THEN table[SlotOf[t]] = inside[t] /\ box[inside[t]].owner = pid'[SlotOf[t]]
               ELSE box[inside[t]].dead
    <3>1. SlotOf[t] # s /\ pid'[SlotOf[t]] = pid[SlotOf[t]] /\ (Alive(t)' <=> Alive(t))
      BY <1>1, <1>3, <1>5, <2>1
    <3> QED BY <2>1, <3>1 DEF Mail, TableOK
  <2>2. TableOK(table, box, inside)
    BY DEF Mail
  <2> QED BY <1>0, <2>1, <2>2 DEF TableOK
<1>9. DueOK(table, box, due)'
  <2> SUFFICES ASSUME NEW u \in Slots
               PROVE  due[u] = IF state'[u] = "alive" /\ Owns(table, box, u, pid'[u])
                               THEN box[table[u]].q ELSE <<>>
    BY <1>0 DEF Mail, DueOK, Owns
  <2>1. due[u] = IF state[u] = "alive" /\ Owns(table, box, u, pid[u]) THEN box[table[u]].q ELSE <<>>
    BY DEF Mail, DueOK
  <2>2. CASE u # s
    BY <1>1, <2>1, <2>2
  <2>3. CASE u = s
    <3>1. due[u] = <<>>
      BY <1>1, <2>1, <2>3
    <3>2. ~Owns(table, box, u, nextPid)
      <4> SUFFICES ASSUME table[s] # NoBox PROVE box[table[s]].owner # nextPid
        BY <2>3 DEF Owns
      <4>1. table[s] \in Boxes /\ box[table[s]].held
        BY DEF Mail, TableOK
      <4>2. box[table[s]].owner \in Nat /\ box[table[s]].owner < nextPid
        BY <4>1 DEF Mail, BoxOK, BoxRecs
      <4> QED BY <1>1, <4>2
    <3> QED BY <1>1, <2>3, <3>1, <3>2
  <2> QED BY <2>2, <2>3
<1>10. (box = [b \in Boxes |-> box[b]])'
  BY <1>0 DEF Mail
<1> QED BY <1>6, <1>7, <1>8, <1>9, <1>10 DEF Mail

LEMMA OffCpuMail ==
    ASSUME ProcsOK, Mail(table, box, at, inside, due), NEW t \in Threads, OffCpu(t)
    PROVE  Mail(table', box', at', inside', due') /\ UNCHANGED <<procVars, shmVars>>
<1>1. at[t] = "lingering" /\ at' = [at EXCEPT ![t] = "dead"]
      /\ UNCHANGED <<table, box, inside, due, procVars, shmVars>>
  BY DEF OffCpu, boxVars
<1>2. ThreadsOK(at, inside) /\ at \in [Threads -> ThreadStates]
  BY DEF Mail, ThreadsOK
<1>3. inside[t] = NoBox /\ ~Alive(t)
  BY <1>1, <1>2 DEF ThreadsOK
<1>4. at'[t] = "dead" /\ \A u \in Threads \ {t} : at'[u] = at[u]
  BY <1>1, <1>2
<1>5. at' \in [Threads -> ThreadStates]
  BY <1>1, <1>2 DEF ThreadStates
<1>6. ThreadsOK(at', inside)
  BY <1>2, <1>3, <1>4, <1>5 DEF ThreadsOK, InBox
<1>7. ASSUME NEW b \in Boxes PROVE BoxOK(box[b], at', inside, b)
  <2>1. b # NoBox /\ BoxOK(box[b], at, inside, b)
    BY IpcAssumption DEF Mail
  <2>2. \A how : InsideAs(at', inside, b, how) = InsideAs(at, inside, b, how)
    BY <1>3, <1>4, <2>1 DEF InsideAs
  <2> QED BY <2>1, <2>2 DEF BoxOK
<1>8. Mail(table, box, at', inside, due)
  BY <1>6, <1>7 DEF Mail
<1> QED BY <1>1, <1>8

LEMMA ReapMail ==
    ASSUME ProcsOK, Mail(table, box, at, inside, due), NEW s \in Slots, Reap(s)
    PROVE  Mail(table, box, at, inside, due)'
<1>0. UNCHANGED <<table, box, at, due, pid, nextPid>>
  BY DEF Reap
<1>1. state[s] = "zombie" /\ state'[s] = "unused" /\ \A u \in Slots \ {s} : state'[u] = state[u]
  BY DEF ProcsOK, Reap
<1>2. inside' = [t \in Threads |-> IF t \in ThreadsOf(s) THEN NoBox ELSE inside[t]]
  BY DEF Reap
<1>3. ThreadsOK(at, inside)
  BY DEF Mail
<1>4. \A t \in Threads : IF SlotOf[t] = s THEN inside'[t] = NoBox ELSE inside'[t] = inside[t]
  BY <1>2 DEF ThreadsOf
<1>5. \A t \in Threads : SlotOf[t] \in Slots /\ (SlotOf[t] = s => at[t] = "dead" /\ ~Alive(t))
  BY <1>1, IpcAssumption DEF Reap, ThreadsOf, Alive
<1>6. \A t \in Threads : Alive(t)' <=> Alive(t)
  BY <1>1, <1>5 DEF Alive
<1>7. ThreadsOK(at, inside)'
  <2>1. inside' \in [Threads -> Boxes \cup {NoBox}]
    BY <1>2, <1>3 DEF ThreadsOK
  <2>2. \A t \in Threads : state'[SlotOf[t]] = "unused" => at[t] = "dead" /\ inside'[t] = NoBox
    BY <1>1, <1>3, <1>4, <1>5 DEF ThreadsOK
  <2>3. \A t \in Threads : at[t] \in InBox => inside'[t] # NoBox
    BY <1>3, <1>4, <1>5 DEF ThreadsOK, InBox
  <2>4. \A t \in Threads : at[t] \in {"user", "lingering"} => inside'[t] = NoBox
    BY <1>3, <1>4 DEF ThreadsOK
  <2>5. at \in [Threads -> ThreadStates] /\ \A t \in Threads : Alive(t)' <=> at[t] \notin {"lingering", "dead"}
    BY <1>3, <1>6 DEF ThreadsOK
  <2> QED BY <1>0, <2>1, <2>2, <2>3, <2>4, <2>5 DEF ThreadsOK
<1>8. ASSUME NEW b \in Boxes PROVE BoxOK(box[b], at, inside', b)
  <2>1. b # NoBox /\ BoxOK(box[b], at, inside, b)
    BY IpcAssumption DEF Mail
  <2>2. InsideAs(at, inside', b, "blocked") = InsideAs(at, inside, b, "blocked")
        /\ InsideAs(at, inside', b, "woken") = InsideAs(at, inside, b, "woken")
    BY <1>4, <1>5, <2>1 DEF InsideAs
  <2>3. Inside(inside', b) \subseteq Inside(inside, b)
    BY <1>4, <2>1 DEF Inside
  <2>4. ASSUME ~box[b].dead PROVE Inside(inside', b) = Inside(inside, b)
    <3>1. ASSUME NEW t \in Threads, inside[t] = b PROVE Alive(t)
      BY <2>1, <2>4, <3>1 DEF Mail, TableOK
    <3> QED BY <1>4, <1>5, <2>1, <3>1 DEF Inside
  <2> QED BY <2>1, <2>2, <2>3, <2>4 DEF BoxOK
<1>9. \A b \in Boxes : BoxOK(box[b], at, inside, b)'
  BY <1>0, <1>8 DEF BoxOK
<1>10. TableOK(table, box, inside)'
  <2>1. ASSUME NEW t \in Threads, inside'[t] # NoBox
        PROVE  IF Alive(t)' THEN table[SlotOf[t]] = inside'[t] /\ box[inside'[t]].owner = pid[SlotOf[t]]
               ELSE box[inside'[t]].dead
    <3>1. inside'[t] = inside[t]
      BY <1>4, <2>1
    <3> QED BY <1>6, <2>1, <3>1 DEF Mail, TableOK
  <2>2. TableOK(table, box, inside)
    BY DEF Mail
  <2> QED BY <1>0, <2>1, <2>2 DEF TableOK
<1>11. DueOK(table, box, due)'
  <2>1. \A u \in Slots : due[u] = IF state'[u] = "alive" /\ Owns(table, box, u, pid[u])
                                 THEN box[table[u]].q ELSE <<>>
    BY <1>1 DEF Mail, DueOK
  <2>2. due \in [Slots -> Seq(Messages)]
    BY DEF Mail, DueOK
  <2> QED BY <1>0, <2>1, <2>2 DEF DueOK, Owns
<1>12. (box = [b \in Boxes |-> box[b]])'
  BY <1>0 DEF Mail
<1> QED BY <1>7, <1>9, <1>10, <1>11, <1>12 DEF Mail

\* mailbox_retire_locked() of a mailbox that nobody waits for.
LEMMA RetiredBox ==
    ASSUME NEW m \in BoxRecs, m.waiters = <<>>
    PROVE  /\ Retired(m) \in BoxRecs /\ Retired(m).waiters = <<>>
           /\ m.refs # 0 => /\ Retired(m).dead = TRUE /\ Retired(m).held = m.held
                            /\ Retired(m).owner = m.owner
           /\ m.refs = 0 => Retired(m) = Free
<1>1. CASE m.refs = 0
  BY <1>1, FreeBox DEF Retired
<1>2. CASE m.refs # 0
  <2> DEFINE w2 == SubSeq(m.waiters, RetirePosts + 1, Len(m.waiters))
  <2>1. w2 = <<>>
    BY IpcAssumption
  <2>2. m.items + RetirePosts \in Nat
    BY IpcAssumption DEF BoxRecs
  <2>3. Retired(m) = [m EXCEPT !.dead = TRUE, !.items = m.items + RetirePosts, !.waiters = w2]
    BY <1>2 DEF Retired
  <2> HIDE DEF w2
  <2>4. w2 \in Seq(Threads)
    BY <2>1
  <2> QED BY <1>2, <2>1, <2>2, <2>3, <2>4 DEF BoxRecs
<1> QED BY <1>1, <1>2

LEMMA ExitMail ==
    ASSUME ProcsOK, Mail(table, box, at, inside, due), NEW s \in Slots, NEW lingering,
           ProcessExit(s, lingering)
    PROVE  Mail(table, box, at, inside, due)'
<1> DEFINE p == pid[s]
           b == table[s]
           m == box[b]
           quit == [m EXCEPT !.waiters = Without(@, ThreadsOf(s))]
<1>0. UNCHANGED <<pid, nextPid, inside>> /\ due' = [due EXCEPT ![s] = <<>>]
  BY DEF ProcessExit
<1>1. state[s] = "alive" /\ state'[s] = "zombie" /\ \A u \in Slots \ {s} : state'[u] = state[u]
  BY DEF ProcsOK, ProcessExit
<1>2. at' = [t \in Threads |-> IF t \in lingering THEN "lingering"
                               ELSE IF t \in ThreadsOf(s) THEN "dead" ELSE at[t]]
      /\ lingering \subseteq {t \in ThreadsOf(s) : at[t] = "user"}
  BY DEF ProcessExit
<1>3. ThreadsOK(at, inside)
  BY DEF Mail
<1>4. \A t \in Threads :
          /\ SlotOf[t] \in Slots
          /\ SlotOf[t] = s => /\ at'[t] = "dead" \/ (at'[t] = "lingering" /\ inside[t] = NoBox)
                              /\ Alive(t) /\ ~Alive(t)' /\ state'[SlotOf[t]] = "zombie"
          /\ SlotOf[t] # s => /\ at'[t] = at[t] /\ (Alive(t)' <=> Alive(t))
                              /\ state'[SlotOf[t]] = state[SlotOf[t]]
  BY <1>1, <1>2, <1>3, IpcAssumption DEF ThreadsOf, Alive, ThreadsOK
<1>5. ThreadsOK(at, inside)'
  <2>1. at' \in [Threads -> ThreadStates]
    BY <1>2, <1>3 DEF ThreadsOK, ThreadStates
  <2>2. \A t \in Threads : Alive(t)' <=> at'[t] \notin {"lingering", "dead"}
    BY <1>3, <1>4 DEF ThreadsOK
  <2>3. \A t \in Threads : state'[SlotOf[t]] = "unused" => at'[t] = "dead" /\ inside[t] = NoBox
    BY <1>3, <1>4 DEF ThreadsOK
  <2>4. \A t \in Threads : at'[t] \in InBox => inside[t] # NoBox
    BY <1>3, <1>4 DEF ThreadsOK, InBox
  <2>5. \A t \in Threads : at'[t] \in {"user", "lingering"} => inside[t] = NoBox
    BY <1>3, <1>4 DEF ThreadsOK
  <2> QED BY <1>0, <1>3, <2>1, <2>2, <2>3, <2>4, <2>5 DEF ThreadsOK
\* Threads of s are inside its own mailbox only, and no other is.
<1>6. \A t \in Threads : SlotOf[t] = s /\ inside[t] # NoBox => inside[t] = b /\ Usable(s, p)
  BY <1>4 DEF Mail, TableOK, Usable
<1>7. ASSUME Usable(s, p)
      PROVE  /\ b \in Boxes /\ b # NoBox /\ BoxOK(m, at, inside, b) /\ m.held /\ ~m.dead
             /\ \A t \in Threads : inside[t] = b => SlotOf[t] = s
  <2>1. b \in Boxes /\ b # NoBox /\ m.held /\ ~m.dead
    BY <1>7 DEF Usable, Mail, TableOK
  <2>2. ASSUME NEW t \in Threads, inside[t] = b PROVE SlotOf[t] = s
    <3>1. Alive(t) /\ table[SlotOf[t]] = b
      BY <2>1, <2>2 DEF Mail, TableOK
    <3> QED BY <1>4, <2>1, <3>1 DEF Mail, TableOK
  <2> QED BY <2>1, <2>2 DEF Mail
<1>8. ASSUME NEW c \in Boxes, \A t \in Threads : inside[t] = c => SlotOf[t] # s
      PROVE  BoxOK(box[c], at', inside, c)
  <2>1. BoxOK(box[c], at, inside, c)
    BY DEF Mail
  <2>2. \A how : InsideAs(at', inside, c, how) = InsideAs(at, inside, c, how)
    BY <1>4, <1>8 DEF InsideAs
  <2> QED BY <2>1, <2>2 DEF BoxOK
<1>9. CASE ~Usable(s, p)
  <2>1. UNCHANGED <<table, box>>
    BY <1>9 DEF ProcessExit
  <2>2. \A c \in Boxes : BoxOK(box[c], at, inside, c)'
    <3>1. \A c \in Boxes : BoxOK(box[c], at', inside, c)
      <4> SUFFICES ASSUME NEW c \in Boxes PROVE BoxOK(box[c], at', inside, c)
        OBVIOUS
      <4>1. c # NoBox
        BY IpcAssumption
      <4> QED BY <1>6, <1>8, <1>9, <4>1
    <3> QED BY <1>0, <2>1, <3>1 DEF BoxOK
  <2>3. TableOK(table, box, inside)'
    <3>1. ASSUME NEW t \in Threads, inside[t] # NoBox
          PROVE  IF Alive(t)' THEN table[SlotOf[t]] = inside[t] /\ box[inside[t]].owner = pid[SlotOf[t]]
                 ELSE box[inside[t]].dead
      BY <1>4, <1>6, <1>9, <3>1 DEF Mail, TableOK
    <3>2. TableOK(table, box, inside)
      BY DEF Mail
    <3> QED BY <1>0, <2>1, <3>1, <3>2 DEF TableOK
  <2>4. DueOK(table, box, due)'
    <3>1. due' \in [Slots -> Seq(Messages)] /\ due'[s] = <<>> /\ \A u \in Slots \ {s} : due'[u] = due[u]
      BY <1>0 DEF Mail, DueOK
    <3>2. \A u \in Slots : due'[u] = IF state'[u] = "alive" /\ Owns(table, box, u, pid[u])
                                     THEN box[table[u]].q ELSE <<>>
      BY <1>1, <3>1 DEF Mail, DueOK
    <3> QED BY <1>0, <2>1, <3>1, <3>2 DEF DueOK, Owns
  <2>5. (box = [c \in Boxes |-> box[c]])'
    BY <2>1 DEF Mail
  <2> QED BY <1>5, <2>2, <2>3, <2>4, <2>5 DEF Mail
<1>10. CASE Usable(s, p)
  <2> DEFINE r == Retired(quit)
  <2>1. table' = [table EXCEPT ![s] = NoBox] /\ box' = [box EXCEPT ![b] = r]
    BY <1>10 DEF ProcessExit
  <2>2. /\ table' \in [Slots -> Boxes \cup {NoBox}]
        /\ table'[s] = NoBox /\ \A u \in Slots \ {s} : table'[u] = table[u]
    BY <2>1 DEF Mail, TableOK
  <2>3. /\ box' = [c \in Boxes |-> box'[c]] /\ box'[b] = r /\ \A c \in Boxes \ {b} : box'[c] = box[c]
    BY <1>7, <1>10, <2>1 DEF Mail
  <2>4. m \in BoxRecs /\ Members(m.waiters) \subseteq ThreadsOf(s)
        /\ m.refs = Cardinality(Inside(inside, b)) /\ m.owner < nextPid
    BY <1>7, <1>10 DEF BoxOK, InsideAs, ThreadsOf
  <2>5. Without(m.waiters, ThreadsOf(s)) = <<>>
    <3>1. m.waiters \in Seq(Threads)
      BY <2>4 DEF BoxRecs
    <3> DEFINE w == Without(m.waiters, ThreadsOf(s))
    <3>2. w \in Seq(Threads) /\ Members(w) = Members(m.waiters) \ ThreadsOf(s)
      BY <3>1, WithoutMembers
    <3>3. Members(w) = {}
      BY <2>4, <3>2
    <3> HIDE DEF w
    <3>4. w = <<>>
      BY <3>2, <3>3, EmptyQueue
    <3> QED BY <3>4 DEF w
  <2>6. /\ quit \in BoxRecs /\ quit.waiters = <<>> /\ quit.refs = m.refs
        /\ quit.held = m.held /\ quit.owner = m.owner
    <3>1. quit = [m EXCEPT !.waiters = <<>>]
      BY <2>5
    <3>2. m \in BoxRecs /\ <<>> \in Seq(Threads)
      BY <2>4
    <3> HIDE DEF quit, m
    <3>3. quit \in BoxRecs
      BY <3>1, <3>2 DEF BoxRecs
    <3>4. quit.waiters = <<>> /\ quit.refs = m.refs /\ quit.held = m.held /\ quit.owner = m.owner
      BY <3>1, <3>2 DEF BoxRecs
    <3> QED BY <3>3, <3>4
  <2> HIDE DEF quit
  <2>7. /\ r \in BoxRecs /\ r.waiters = <<>>
        /\ m.refs # 0 => r.dead = TRUE /\ r.held = m.held /\ r.owner = m.owner
        /\ m.refs = 0 => r = Free
    BY <2>6, RetiredBox
  <2> HIDE DEF r
  <2>8. Inside(inside, b) # {} => r.dead = TRUE /\ r.held = TRUE /\ r.owner = m.owner
    <3> SUFFICES ASSUME Inside(inside, b) # {} PROVE r.dead = TRUE /\ r.held = TRUE /\ r.owner = m.owner
      OBVIOUS
    <3>1. m.refs # 0
      <4>1. Inside(inside, b) \in SUBSET Threads
        BY DEF Inside
      <4> QED BY <2>4, <4>1, NobodyCounted
    <3>2. m.held = TRUE
      BY <1>7, <1>10, <2>4 DEF BoxRecs
    <3> QED BY <2>7, <3>1, <3>2
  <2>9. BoxOK(r, at', inside, b)
    <3>1. InsideAs(at', inside, b, "blocked") = {}
      BY <1>4, <1>7, <1>10 DEF InsideAs
    <3>2. Members(r.waiters) = {}
      BY <2>7 DEF Members
    <3>3. CASE m.refs = 0
      <4>1. r.held = FALSE
        BY <2>7, <3>3, FreeBox
      <4> QED BY <2>7, <2>8, <3>1, <3>2, <4>1 DEF BoxOK
    <3>4. CASE m.refs # 0
      BY <2>4, <2>7, <2>8, <3>1, <3>2, <3>4 DEF BoxOK
    <3> QED BY <3>3, <3>4
  <2>10. \A c \in Boxes : BoxOK(box'[c], at', inside, c)
    <3>1. ASSUME NEW c \in Boxes \ {b} PROVE BoxOK(box[c], at', inside, c)
      <4>1. c # NoBox
        BY IpcAssumption
      <4> QED BY <1>6, <1>8, <4>1
    <3> QED BY <2>3, <2>9, <3>1
  <2>11. \A c \in Boxes : BoxOK(box[c], at, inside, c)'
    BY <1>0, <2>10 DEF BoxOK
  <2>12. \A u \in Slots : table'[u] # NoBox => u # s /\ table'[u] = table[u] /\ table[u] \in Boxes \ {b}
    BY <1>7, <1>10, <2>2 DEF Mail, TableOK
  <2>13. TableOK(table, box, inside)'
    <3>1. \A u \in Slots : table'[u] # NoBox => box'[table'[u]].held /\ ~box'[table'[u]].dead
      BY <2>3, <2>12 DEF Mail, TableOK
    <3>2. \A u, w \in Slots : table'[u] = table'[w] /\ table'[u] # NoBox => u = w
      BY <2>12 DEF Mail, TableOK
    <3>3. ASSUME NEW t \in Threads, inside[t] # NoBox
          PROVE  IF Alive(t)' THEN table'[SlotOf[t]] = inside[t] /\ box'[inside[t]].owner = pid[SlotOf[t]]
                 ELSE box'[inside[t]].dead
      <4>1. CASE SlotOf[t] = s
        <5>1. inside[t] = b /\ Inside(inside, b) # {}
          BY <1>6, <3>3, <4>1 DEF Inside
        <5> QED BY <1>4, <2>3, <2>8, <4>1, <5>1
      <4>2. CASE SlotOf[t] # s
        <5>1. inside[t] \in Boxes \ {b} /\ SlotOf[t] \in Slots \ {s}
          BY <1>3, <1>4, <1>7, <1>10, <3>3, <4>2 DEF ThreadsOK
        <5>2. box'[inside[t]] = box[inside[t]] /\ table'[SlotOf[t]] = table[SlotOf[t]]
          BY <2>2, <2>3, <5>1
        <5> QED BY <1>4, <3>3, <4>2, <5>2 DEF Mail, TableOK
      <4> QED BY <4>1, <4>2
    <3> QED BY <1>0, <2>2, <3>1, <3>2, <3>3 DEF TableOK
  <2>14. DueOK(table, box, due)'
    <3>1. due' \in [Slots -> Seq(Messages)] /\ due'[s] = <<>> /\ \A u \in Slots \ {s} : due'[u] = due[u]
      BY <1>0 DEF Mail, DueOK
    <3>2. ASSUME NEW u \in Slots
          PROVE  due'[u] = IF state'[u] = "alive" /\ Owns(table', box', u, pid[u])
                           THEN box'[table'[u]].q ELSE <<>>
      <4>1. CASE u = s
        BY <1>1, <3>1, <4>1
      <4>2. CASE u # s
        <5>1. due[u] = IF state[u] = "alive" /\ Owns(table, box, u, pid[u]) THEN box[table[u]].q ELSE <<>>
          BY DEF Mail, DueOK
        <5>2. table'[u] = table[u] /\ (table[u] # NoBox => box'[table[u]] = box[table[u]])
          BY <2>2, <2>3, <2>12, <4>2
        <5> QED BY <1>1, <3>1, <4>2, <5>1, <5>2 DEF Owns
      <4> QED BY <4>1, <4>2
    <3> QED BY <1>0, <3>1, <3>2 DEF DueOK, Owns
  <2> QED BY <1>5, <2>3, <2>11, <2>13, <2>14 DEF Mail
<1> QED BY <1>9, <1>10

-----------------------------------------------------------------------------
(* Regions.                                                                *)

RegionRecs == [used : BOOLEAN, owner : Nat, attached : SUBSET Nat]

LEMMA CreateRegion ==
    ASSUME ProcsOK, RegionsOK, NEW t \in Threads, Alive(t), ShmCreate(t)
    PROVE  RegionsOK' /\ UNCHANGED <<procVars, boxVars, at>>
<1> DEFINE s == SlotOf[t]
           unused == {r \in Regions : ~region[r].used}
           r == CHOOSE r \in unused : \A q \in unused : r <= q
           g == [used |-> TRUE, owner |-> pid[s], attached |-> {pid[s]}]
<1>1. /\ unused # {} /\ r \notin maps[s] /\ UNCHANGED <<procVars, boxVars, at>>
      /\ region' = [region EXCEPT ![r] = g] /\ maps' = [maps EXCEPT ![s] = @ \cup {r}]
  BY DEF ShmCreate
<1>2. r \in unused
  <2>1. unused \subseteq Nat
    BY IpcAssumption
  <2> HIDE DEF unused
  <2>2. \E x \in unused : \A q \in unused : x <= q
    BY <1>1, <2>1, LeastNatural
  <2> QED BY <2>2
<1>3. r \in Regions /\ ~region[r].used
  BY <1>2
<1> HIDE DEF r
<1>4. s \in Slots /\ pid[s] \in Nat /\ state[s] = "alive"
  BY IpcAssumption DEF ProcsOK, Alive
<1>5. g \in RegionRecs /\ g.used /\ pid[s] \in g.attached
  BY <1>4 DEF RegionRecs
<1> HIDE DEF g, s
<1>6. /\ region \in [Regions -> RegionRecs] /\ maps \in [Slots -> SUBSET Regions]
      /\ \A u \in Slots : state[u] = "unused" => maps[u] = {}
      /\ MappedIsAttached
  BY DEF RegionsOK, RegionRecs
<1>7. /\ region' \in [Regions -> RegionRecs] /\ region'[r] = g
      /\ \A x \in Regions \ {r} : region'[x] = region[x]
  BY <1>1, <1>3, <1>5, <1>6
<1>8. /\ maps' \in [Slots -> SUBSET Regions] /\ maps'[s] = maps[s] \cup {r}
      /\ \A u \in Slots \ {s} : maps'[u] = maps[u]
  BY <1>1, <1>3, <1>4, <1>6
<1>9. state' = state /\ pid' = pid
  BY <1>1 DEF procVars
<1>10. MappedIsAttached'
  <2> SUFFICES ASSUME NEW u \in Slots, state[u] = "alive", NEW x \in maps'[u]
               PROVE  region'[x].used /\ pid[u] \in region'[x].attached
    BY <1>9 DEF MappedIsAttached
  <2>1. CASE x \in maps[u]
    <3>1. region[x].used /\ pid[u] \in region[x].attached /\ x \in Regions
      BY <1>6, <2>1 DEF MappedIsAttached
    <3>2. x # r
      BY <1>3, <3>1
    <3> QED BY <1>7, <3>1, <3>2
  <2>2. CASE x \notin maps[u]
    <3>1. u = s /\ x = r
      BY <1>8, <2>2
    <3> QED BY <1>5, <1>7, <3>1
  <2> QED BY <2>1, <2>2
<1>11. \A u \in Slots : state'[u] = "unused" => maps'[u] = {}
  BY <1>4, <1>6, <1>8, <1>9
<1> QED BY <1>1, <1>7, <1>8, <1>10, <1>11 DEF RegionsOK, RegionRecs

LEMMA AttachRegion ==
    ASSUME ProcsOK, RegionsOK, NEW t \in Threads, Alive(t), NEW r \in Regions, ShmAttach(t, r)
    PROVE  RegionsOK' /\ UNCHANGED <<procVars, boxVars, at>>
<1> DEFINE s == SlotOf[t]
           g == [region[r] EXCEPT !.attached = region[r].attached \cup {pid[s]}]
<1>1. /\ region[r].used /\ UNCHANGED <<procVars, boxVars, at>>
      /\ region' = [region EXCEPT ![r].attached = @ \cup {pid[s]}]
      /\ maps' = [maps EXCEPT ![s] = @ \cup {r}]
  BY DEF ShmAttach
<1>2. s \in Slots /\ pid[s] \in Nat /\ state[s] = "alive"
  BY IpcAssumption DEF ProcsOK, Alive
<1>3. /\ region \in [Regions -> RegionRecs] /\ maps \in [Slots -> SUBSET Regions]
      /\ \A u \in Slots : state[u] = "unused" => maps[u] = {}
      /\ MappedIsAttached
  BY DEF RegionsOK, RegionRecs
<1>4. region' = [region EXCEPT ![r] = g]
  BY <1>1
<1>5. region[r] \in RegionRecs
  BY <1>3
<1>6. g \in RegionRecs /\ g.used = region[r].used /\ g.attached = region[r].attached \cup {pid[s]}
  <2> DEFINE g0 == region[r]
             a2 == g0.attached \cup {pid[s]}
  <2>1. g0 \in RegionRecs /\ a2 \in SUBSET Nat
    BY <1>5, <1>2 DEF RegionRecs
  <2>2. g = [g0 EXCEPT !.attached = a2]
    OBVIOUS
  <2> HIDE DEF g, g0, a2
  <2>3. g \in RegionRecs /\ g.used = g0.used /\ g.attached = a2
    BY <2>1, <2>2 DEF RegionRecs
  <2> QED BY <2>3 DEF g0, a2
<1> HIDE DEF g, s
<1>7. /\ region' \in [Regions -> RegionRecs] /\ region'[r] = g
      /\ \A x \in Regions \ {r} : region'[x] = region[x]
  BY <1>4, <1>6, <1>3
<1>8. /\ maps' \in [Slots -> SUBSET Regions] /\ maps'[s] = maps[s] \cup {r}
      /\ \A u \in Slots \ {s} : maps'[u] = maps[u]
  BY <1>1, <1>2, <1>3
<1>9. state' = state /\ pid' = pid
  BY <1>1 DEF procVars
<1>10. MappedIsAttached'
  <2> SUFFICES ASSUME NEW u \in Slots, state[u] = "alive", NEW x \in maps'[u]
               PROVE  region'[x].used /\ pid[u] \in region'[x].attached
    BY <1>9 DEF MappedIsAttached
  <2>1. CASE x \in maps[u]
    <3>1. region[x].used /\ pid[u] \in region[x].attached /\ x \in Regions
      BY <1>3, <2>1 DEF MappedIsAttached
    <3>2. CASE x = r
      BY <1>6, <1>7, <3>1, <3>2
    <3>3. CASE x # r
      BY <1>7, <3>1, <3>3
    <3> QED BY <3>2, <3>3
  <2>2. CASE x \notin maps[u]
    <3>1. u = s /\ x = r
      BY <1>8, <2>2
    <3> QED BY <1>1, <1>6, <1>7, <3>1
  <2> QED BY <2>1, <2>2
<1>11. \A u \in Slots : state'[u] = "unused" => maps'[u] = {}
  BY <1>2, <1>3, <1>8, <1>9
<1> QED BY <1>1, <1>7, <1>8, <1>10, <1>11 DEF RegionsOK, RegionRecs

\* A process that leaves a region leaves it to the others.
LEMMA ShmLeftKeeps ==
    ASSUME NEW g \in RegionRecs, NEW p
    PROVE  /\ ShmLeft(g, p) \in RegionRecs
           /\ \A o : o # p /\ g.used /\ o \in g.attached =>
                 ShmLeft(g, p).used /\ o \in ShmLeft(g, p).attached
<1>1. Unused \in RegionRecs
  BY DEF Unused, RegionRecs
<1>2. CASE p \notin g.attached
  BY <1>2 DEF ShmLeft
<1>3. CASE g.attached = {p}
  BY <1>1, <1>3 DEF ShmLeft
<1>4. CASE p \in g.attached /\ g.attached # {p}
  <2> DEFINE a2 == g.attached \ {p}
  <2>1. ShmLeft(g, p) = [g EXCEPT !.attached = a2]
    BY <1>4 DEF ShmLeft
  <2>2. a2 \in SUBSET Nat
    BY DEF RegionRecs
  <2>3. \A o : o # p /\ o \in g.attached => o \in a2
    OBVIOUS
  <2> HIDE DEF a2
  <2> QED BY <2>1, <2>2, <2>3 DEF RegionRecs
<1> QED BY <1>2, <1>3, <1>4

LEMMA ExitRegions ==
    ASSUME ProcsOK, RegionsOK, NEW s \in Slots, NEW lingering, ProcessExit(s, lingering)
    PROVE  RegionsOK'
<1>1. /\ region' = [r \in Regions |-> ShmLeft(region[r], pid[s])] /\ UNCHANGED <<pid, maps>>
      /\ state[s] = "alive" /\ state' = [state EXCEPT ![s] = "zombie"]
  BY DEF ProcessExit
<1>2. /\ region \in [Regions -> RegionRecs] /\ maps \in [Slots -> SUBSET Regions]
      /\ \A u \in Slots : state[u] = "unused" => maps[u] = {}
      /\ MappedIsAttached
  BY DEF RegionsOK, RegionRecs
<1>3. \A r \in Regions : ShmLeft(region[r], pid[s]) \in RegionRecs
  BY <1>2, ShmLeftKeeps
<1>4. state'[s] = "zombie" /\ \A u \in Slots \ {s} : state'[u] = state[u]
  BY <1>1 DEF ProcsOK
<1>5. region' \in [Regions -> RegionRecs]
  BY <1>1, <1>3
<1>6. MappedIsAttached'
  <2> SUFFICES ASSUME NEW u \in Slots, state'[u] = "alive", NEW r \in maps[u]
               PROVE  region'[r].used /\ pid[u] \in region'[r].attached
    BY <1>1 DEF MappedIsAttached
  <2>1. u # s /\ state[u] = "alive"
    BY <1>4
  <2>2. pid[u] # pid[s]
    BY <1>1, <2>1 DEF ProcsOK
  <2>3. r \in Regions /\ region[r] \in RegionRecs /\ region[r].used /\ pid[u] \in region[r].attached
    BY <1>2, <2>1 DEF MappedIsAttached
  <2>4. ShmLeft(region[r], pid[s]).used /\ pid[u] \in ShmLeft(region[r], pid[s]).attached
    BY <2>2, <2>3, ShmLeftKeeps
  <2> QED BY <1>1, <2>3, <2>4
<1>7. \A u \in Slots : state'[u] = "unused" => maps[u] = {}
  BY <1>2, <1>4
<1> QED BY <1>1, <1>2, <1>5, <1>6, <1>7 DEF RegionsOK, RegionRecs

LEMMA CreateReapRegions ==
    ASSUME ProcsOK, RegionsOK, NEW s \in Slots, ProcessCreate(s) \/ Reap(s)
    PROVE  RegionsOK'
<1>1. CASE ProcessCreate(s)
  <2>1. /\ UNCHANGED <<region, maps>> /\ state[s] = "unused" /\ state'[s] = "alive"
        /\ \A u \in Slots \ {s} : pid'[u] = pid[u] /\ state'[u] = state[u]
    BY <1>1 DEF ProcessCreate, ProcsOK, shmVars
  <2>2. maps[s] = {}
    BY <2>1 DEF RegionsOK
  <2>3. MappedIsAttached'
    BY <2>1, <2>2 DEF RegionsOK, MappedIsAttached
  <2> QED BY <2>1, <2>2, <2>3 DEF RegionsOK
<1>2. CASE Reap(s)
  <2>1. /\ UNCHANGED <<region, pid>> /\ state'[s] = "unused" /\ maps' = [maps EXCEPT ![s] = {}]
        /\ \A u \in Slots \ {s} : state'[u] = state[u]
    BY <1>2 DEF Reap, ProcsOK
  <2>2. /\ maps' \in [Slots -> SUBSET Regions] /\ maps'[s] = {}
        /\ \A u \in Slots \ {s} : maps'[u] = maps[u]
    BY <2>1 DEF RegionsOK
  <2>3. MappedIsAttached'
    BY <2>1, <2>2 DEF RegionsOK, MappedIsAttached
  <2> QED BY <2>1, <2>2, <2>3 DEF RegionsOK
<1> QED BY <1>1, <1>2

-----------------------------------------------------------------------------
(* The invariant.                                                          *)

\* Mail for the same processes.
LEMMA SameProcs ==
    ASSUME ProcsOK, RegionsOK, UNCHANGED <<procVars, shmVars>>, Mail(table', box', at', inside', due')
    PROVE  IpcInv'
<1>1. state' = state /\ pid' = pid /\ nextPid' = nextPid /\ region' = region /\ maps' = maps
  BY DEF procVars, shmVars
<1>2. ProcsOK'
  BY <1>1 DEF ProcsOK
<1>3. RegionsOK'
  BY <1>1 DEF RegionsOK, MappedIsAttached
<1>4. \A t \in Threads : Alive(t)' <=> Alive(t)
  BY <1>1 DEF Alive
<1>5. ThreadsOK(at, inside)'
  BY <1>1, <1>4 DEF Mail, ThreadsOK
<1>6. \A b \in Boxes : BoxOK(box[b], at, inside, b)'
  BY <1>1 DEF Mail, BoxOK
<1>7. TableOK(table, box, inside)'
  BY <1>1, <1>4 DEF Mail, TableOK
<1>8. DueOK(table, box, due)'
  BY <1>1 DEF Mail, DueOK, Owns
<1>9. Mail(table, box, at, inside, due)'
  BY <1>5, <1>6, <1>7, <1>8 DEF Mail
<1> QED BY <1>2, <1>3, <1>9 DEF IpcInv

\* Mail when no mailbox, thread or process changes.
LEMMA SameMail ==
    ASSUME Mail(table, box, at, inside, due), UNCHANGED <<procVars, boxVars, at>>
    PROVE  Mail(table, box, at, inside, due)'
<1>1. UNCHANGED <<state, pid, nextPid, table, box, inside, due, at>>
  BY DEF procVars, boxVars
<1>2. \A t \in Threads : Alive(t)' <=> Alive(t)
  BY <1>1 DEF Alive
<1>3. ThreadsOK(at, inside)'
  BY <1>1, <1>2 DEF Mail, ThreadsOK
<1>4. \A b \in Boxes : BoxOK(box[b], at, inside, b)'
  BY <1>1 DEF Mail, BoxOK
<1>5. TableOK(table, box, inside)'
  BY <1>1, <1>2 DEF Mail, TableOK
<1>6. DueOK(table, box, due)'
  BY <1>1 DEF Mail, DueOK, Owns
<1> QED BY <1>1, <1>3, <1>4, <1>5, <1>6 DEF Mail

LEMMA IpcInit == Init => IpcInv
<1> SUFFICES ASSUME Init PROVE IpcInv
  OBVIOUS
<1> USE DEF Init
<1>1. ProcsOK
  BY DEF ProcsOK
<1>2. RegionsOK
  <2>1. Unused \in RegionRecs
    BY DEF Unused, RegionRecs
  <2> QED BY <2>1 DEF RegionsOK, MappedIsAttached, RegionRecs
<1>3. \A t \in Threads : SlotOf[t] \in Slots /\ ~Alive(t)
  BY IpcAssumption DEF Alive
<1>4. ThreadsOK(at, inside)
  BY <1>3 DEF ThreadsOK, ThreadStates, InBox
<1>5. ASSUME NEW b \in Boxes PROVE BoxOK(box[b], at, inside, b)
  <2>1. b # NoBox
    BY IpcAssumption
  <2>2. Inside(inside, b) = {} /\ InsideAs(at, inside, b, "blocked") = {}
    BY <2>1 DEF Inside, InsideAs
  <2>3. Members(<<>>) = {}
    BY DEF Members
  <2>4. BoxOK(Free, at, inside, b)
    BY <2>2, <2>3, FreeBox DEF BoxOK
  <2> QED BY <2>4
<1>6. TableOK(table, box, inside)
  BY DEF TableOK
<1>7. DueOK(table, box, due)
  <2>1. <<>> \in Seq(Messages)
    OBVIOUS
  <2> QED BY <2>1 DEF DueOK
<1>8. Mail(table, box, at, inside, due)
  BY <1>4, <1>5, <1>6, <1>7 DEF Mail
<1> QED BY <1>1, <1>2, <1>8 DEF IpcInv

LEMMA IpcStep == IpcInv /\ [Next]_vars => IpcInv'
<1> SUFFICES ASSUME IpcInv, [Next]_vars PROVE IpcInv'
  OBVIOUS
<1>0. ProcsOK /\ Mail(table, box, at, inside, due) /\ RegionsOK
  BY DEF IpcInv
<1>1. ASSUME NEW t \in Threads, NEW p \in 1 .. MaxPid, NEW msg \in Messages, Send(t, p, msg)
      PROVE  IpcInv'
  BY <1>0, <1>1, SendMail, SameProcs
<1>2. ASSUME NEW t \in Threads, NEW forever \in BOOLEAN, Receive(t, forever) PROVE IpcInv'
  BY <1>0, <1>2, ReceiveMail, SameProcs
<1>3. ASSUME NEW t \in Threads, ReceiveAgain(t) PROVE IpcInv'
  BY <1>0, <1>3, ReceiveAgainMail, SameProcs
<1>4. ASSUME NEW t \in Threads, OffCpu(t) PROVE IpcInv'
  BY <1>0, <1>4, OffCpuMail, SameProcs
<1>5. ASSUME NEW t \in Threads, at[t] = "user" PROVE Alive(t)
  BY <1>0, <1>5 DEF Mail, ThreadsOK
<1>6. ASSUME RegionsOK', UNCHANGED <<procVars, boxVars, at>> PROVE IpcInv'
  <2>1. ProcsOK'
    BY <1>0, <1>6 DEF ProcsOK, procVars
  <2> QED BY <1>0, <1>6, <2>1, SameMail DEF IpcInv
<1>7. ASSUME NEW t \in Threads, ShmCreate(t) PROVE IpcInv'
  <2>1. Alive(t)
    BY <1>5, <1>7 DEF ShmCreate
  <2> QED BY <1>0, <1>6, <1>7, <2>1, CreateRegion
<1>8. ASSUME NEW t \in Threads, NEW r \in Regions, ShmAttach(t, r) PROVE IpcInv'
  <2>1. Alive(t)
    BY <1>5, <1>8 DEF ShmAttach
  <2> QED BY <1>0, <1>6, <1>8, <2>1, AttachRegion
<1>9. ASSUME NEW s \in Slots, NEW lingering, ProcessExit(s, lingering) PROVE IpcInv'
  <2>1. ProcsOK'
    <3>1. state[s] # "unused" /\ pid' = pid /\ nextPid' = nextPid /\ state' = [state EXCEPT ![s] = "zombie"]
      BY <1>9 DEF ProcessExit
    <3> QED BY <1>0, <3>1, LeaveProcs
  <2> QED BY <1>0, <1>9, <2>1, ExitMail, ExitRegions DEF IpcInv
<1>10. ASSUME NEW s \in Slots, ProcessCreate(s) PROVE IpcInv'
  BY <1>0, <1>10, CreateProcs, CreateMail, CreateReapRegions DEF IpcInv
<1>11. ASSUME NEW s \in Slots, Reap(s) PROVE IpcInv'
  <2>1. ProcsOK'
    <3>1. state[s] # "unused" /\ pid' = pid /\ nextPid' = nextPid /\ state' = [state EXCEPT ![s] = "unused"]
      BY <1>11 DEF Reap
    <3> QED BY <1>0, <3>1, LeaveProcs
  <2> QED BY <1>0, <1>11, <2>1, ReapMail, CreateReapRegions DEF IpcInv
<1>12. CASE UNCHANGED vars
  <2>1. UNCHANGED <<procVars, boxVars, at>> /\ UNCHANGED <<region, maps>>
    BY <1>12 DEF vars, shmVars
  <2>2. RegionsOK'
    BY <1>0, <2>1 DEF RegionsOK, MappedIsAttached, procVars
  <2> QED BY <1>6, <2>1, <2>2
<1> QED BY <1>1, <1>2, <1>3, <1>4, <1>7, <1>8, <1>9, <1>10, <1>11, <1>12 DEF Next

LEMMA IpcAlways == Spec => []IpcInv
BY IpcInit, IpcStep, PTL DEF Spec

\* ipc_send(), ipc_receive(): whatever processes have had a slot or a mailbox
\* before, a living process has queued exactly the messages accepted for it and
\* not yet received, in order.
THEOREM MailIsDeliveredInOrder == Spec => []DeliveryInOrder
<1>1. IpcInv => DeliveryInOrder
  BY DEF IpcInv, Mail, DueOK, Owns, Usable, DeliveryInOrder
<1> QED BY <1>1, IpcAlways, PTL

\* sem_post() and sem_wait() of a mailbox: while somebody is blocked in its queue
\* there are at least as many woken receivers as tokens.
THEOREM ReceiverIsNotStranded == Spec => []NoStrandedReceiver
<1>1. IpcInv => NoStrandedReceiver
  BY DEF IpcInv, Mail, BoxOK, InsideAs, NoStrandedReceiver
<1> QED BY <1>1, IpcAlways, PTL

\* mailbox_put() and mailbox_retire_locked(): a mailbox in the table, or with a
\* living receiver inside, is allocated, is the one that senders find, and
\* counts everyone who is inside.
THEOREM MailboxIsHeld == Spec => []InsideIsHeld
<1>1. ASSUME IpcInv PROVE InsideIsHeld
  <2>1. \A s \in Slots : table[s] # NoBox => box[table[s]].held
    BY <1>1 DEF IpcInv, Mail, TableOK
  <2>2. ASSUME NEW t \in Threads, inside[t] # NoBox, Alive(t)
        PROVE  /\ box[inside[t]].held /\ ~box[inside[t]].dead
               /\ table[SlotOf[t]] = inside[t] /\ box[inside[t]].owner = pid[SlotOf[t]]
               /\ box[inside[t]].refs = Cardinality({u \in Threads : inside[u] = inside[t]})
    <3>1. inside[t] \in Boxes /\ SlotOf[t] \in Slots
      BY <1>1, <2>2, IpcAssumption DEF IpcInv, Mail, ThreadsOK
    <3>2. table[SlotOf[t]] = inside[t] /\ box[inside[t]].owner = pid[SlotOf[t]]
      BY <1>1, <2>2 DEF IpcInv, Mail, TableOK
    <3>3. box[inside[t]].held /\ ~box[inside[t]].dead
      BY <1>1, <2>2, <3>1, <3>2 DEF IpcInv, Mail, TableOK
    <3>4. BoxOK(box[inside[t]], at, inside, inside[t])
      BY <1>1, <3>1 DEF IpcInv, Mail
    <3> QED BY <3>2, <3>3, <3>4 DEF BoxOK, Inside
  <2> QED BY <2>1, <2>2 DEF InsideIsHeld
<1> QED BY <1>1, IpcAlways, PTL

\* shm_release_owner(): a living process is attached to every region in its page
\* table, so the region's frames do not go before the process has.
THEOREM SharedMemoryIsAttached == Spec => []MappedIsAttached
<1>1. IpcInv => MappedIsAttached
  BY DEF IpcInv, RegionsOK
<1> QED BY <1>1, IpcAlways, PTL

-----------------------------------------------------------------------------
(* TCP.                                                                    *)

(* Sequence numbers.                                                       *)

\* The remainder and the quotient of a division by a positive number.
LEMMA Division ==
    ASSUME NEW a \in Int, NEW m \in Nat \ {0}
    PROVE  \E k \in Int, r \in Int : r = a % m /\ a = m * k + r /\ r \in 0 .. m - 1
<1>1. a \div m \in Int /\ a % m \in Int
  OBVIOUS
<1>2. a = m * (a \div m) + (a % m) /\ 0 <= a % m /\ a % m < m
  OBVIOUS
<1>3. PICK k \in Int, r \in Int : k = a \div m /\ r = a % m
  BY <1>1
<1>4. a = m * k + r /\ r \in 0 .. m - 1
  BY <1>2, <1>3
<1> QED BY <1>3, <1>4

\* The indices of n bytes of a buffer that holds the stream from r on.
LEMMA BlockRange ==
    ASSUME NEW i \in Int, NEW b \in Int, NEW n \in Int, NEW r \in Int, i > b - r, i <= (b + n) - r
    PROVE  i \in (b - r) + 1 .. (b - r) + n
OBVIOUS

\* A remainder is determined.
LEMMA RemainderUnique ==
    ASSUME NEW m \in Nat \ {0}, NEW k \in Int, NEW l \in Int,
           NEW r \in 0 .. m - 1, NEW q \in 0 .. m - 1,
           m * k + r = m * l + q
    PROVE  r = q
<1>1. m * (k - l) = q - r
  OBVIOUS
<1>2. CASE k - l >= 1
  <2>1. m * (k - l) >= m
    BY <1>2
  <2> QED BY <1>1, <2>1
<1>3. CASE k - l <= -1
  <2>1. m * (k - l) <= -m
    BY <1>3
  <2> QED BY <1>1, <2>1
<1>4. CASE k = l
  BY <1>1, <1>4
<1> QED BY <1>2, <1>3, <1>4

LEMMA SeqModPositive == SeqMod \in Nat \ {0}
<1>1. Client \in Hosts /\ SeqMod \in Nat /\ RxMax \in Nat \ {0}
  BY TcpAssumption DEF Hosts
<1>2. PICK n : n = StreamLen[Client]
  OBVIOUS
<1> QED BY <1>1, <1>2, TcpAssumption

\* Plus reduces modulo SeqMod.
LEMMA PlusRemainder ==
    ASSUME NEW a \in Int, NEW x \in Int
    PROVE  \E k \in Int, r \in Int : r = Plus(a, x) /\ a + x = SeqMod * k + r /\ r \in 0 .. SeqMod - 1
<1>1. PICK b \in Int : b = a + x
  OBVIOUS
<1>2. \E k \in Int, r \in Int : r = b % SeqMod /\ b = SeqMod * k + r /\ r \in 0 .. SeqMod - 1
  BY SeqModPositive, Division
<1>3. Plus(a, x) = b % SeqMod
  BY <1>1 DEF Plus
<1> QED BY <1>1, <1>2, <1>3

\* Sequence numbers are the numbers below SeqMod, and adding a number twice adds
\* the sum.
LEMMA PlusFacts ==
    ASSUME NEW a \in Int, NEW x \in Int, NEW y \in Int
    PROVE  /\ Plus(a, x) \in 0 .. SeqMod - 1
           /\ Plus(Plus(a, x), y) = Plus(a, x + y)
<1>1. SeqMod \in Nat \ {0}
  BY SeqModPositive
<1>2. PICK k \in Int, p \in Int : p = Plus(a, x) /\ a + x = SeqMod * k + p /\ p \in 0 .. SeqMod - 1
  BY PlusRemainder
<1>3. PICK s \in Int : s = x + y
  OBVIOUS
<1>4. PICK l \in Int, q \in Int : q = Plus(a, s) /\ a + s = SeqMod * l + q /\ q \in 0 .. SeqMod - 1
  BY PlusRemainder
<1>5. PICK j \in Int, r \in Int : r = Plus(p, y) /\ p + y = SeqMod * j + r /\ r \in 0 .. SeqMod - 1
  BY PlusRemainder
<1>6. SeqMod * (j + k) = SeqMod * j + SeqMod * k
  BY <1>1
<1>7. PICK i \in Int : i = j + k
  OBVIOUS
<1>8. SeqMod * i + r = SeqMod * l + q
  <2>1. PICK mi \in Int, mj \in Int, mk \in Int, ml \in Int :
           mi = SeqMod * i /\ mj = SeqMod * j /\ mk = SeqMod * k /\ ml = SeqMod * l
    BY <1>1
  <2>2. mi = mj + mk /\ a + x = mk + p /\ a + s = ml + q /\ p + y = mj + r
    BY <1>2, <1>4, <1>5, <1>6, <1>7, <2>1
  <2>3. mi + r = ml + q
    BY <1>3, <2>2
  <2> QED BY <2>1, <2>3
<1>9. r = q
  BY <1>1, <1>4, <1>5, <1>8, RemainderUnique
<1> QED BY <1>2, <1>3, <1>4, <1>5, <1>9

LEMMA PlusInt ==
    ASSUME NEW a \in Int, NEW x \in Int
    PROVE  Plus(a, x) \in Int
BY PlusRemainder

\* The signed difference of two sequence numbers that are less than half the space
\* apart is the difference of their positions.
LEMMA MinusFacts ==
    ASSUME NEW a \in Int, NEW x \in Int, NEW y \in Int, 2 * (x - y) < SeqMod, 2 * (y - x) < SeqMod
    PROVE  Minus(Plus(a, x), Plus(a, y)) = x - y
<1>1. SeqMod \in Nat \ {0}
  BY SeqModPositive
<1>2. PICK k \in Int, p \in Int : p = Plus(a, x) /\ a + x = SeqMod * k + p /\ p \in 0 .. SeqMod - 1
  BY PlusRemainder
<1>3. PICK l \in Int, q \in Int : q = Plus(a, y) /\ a + y = SeqMod * l + q /\ q \in 0 .. SeqMod - 1
  BY PlusRemainder
<1>4. PICK e \in Int : e = p - q
  OBVIOUS
<1>4a. PICK j \in Int, d \in Int : d = e % SeqMod /\ e = SeqMod * j + d /\ d \in 0 .. SeqMod - 1
  BY <1>1, Division
<1>5. x - y = SeqMod * (k - l + j) + d
  <2>1. PICK mj \in Int, mk \in Int, ml \in Int, mi \in Int :
           mj = SeqMod * j /\ mk = SeqMod * k /\ ml = SeqMod * l /\ mi = SeqMod * (k - l + j)
    BY <1>1
  <2>2. mi = mk - ml + mj
    BY <1>1, <2>1
  <2>3. a + x = mk + p /\ a + y = ml + q /\ e = mj + d
    BY <1>2, <1>3, <1>4a, <2>1
  <2>4. x - y = mi + d
    BY <1>4, <2>2, <2>3
  <2> QED BY <2>1, <2>4
<1>6. 2 * (SeqMod \div 2) = SeqMod /\ SeqMod \div 2 \in Int
  BY <1>1, TcpAssumption
<1>7. PICK half \in Int : half = SeqMod \div 2 /\ 2 * half = SeqMod
  BY <1>6
<1>8. Minus(p, q) = IF d < half THEN d ELSE d - SeqMod
  BY <1>4, <1>4a, <1>7 DEF Minus
<1>9. CASE k - l + j = 0
  <2>1. x - y = d /\ d < half
    BY <1>1, <1>5, <1>7, <1>9
  <2> QED BY <1>2, <1>3, <1>8, <2>1
<1>10. CASE k - l + j = -1
  <2>1. x - y = d - SeqMod /\ ~(d < half)
    BY <1>1, <1>4a, <1>5, <1>7, <1>10
  <2> QED BY <1>2, <1>3, <1>8, <2>1
<1>11. CASE k - l + j >= 1
  <2>1. SeqMod * (k - l + j) >= SeqMod
    BY <1>1, <1>11
  <2> QED BY <1>1, <1>4a, <1>5, <2>1
<1>12. CASE k - l + j <= -2
  <2>1. SeqMod * (k - l + j) <= -(2 * SeqMod)
    BY <1>1, <1>12
  <2> QED BY <1>1, <1>4a, <1>5, <2>1
<1> QED BY <1>9, <1>10, <1>11, <1>12

-----------------------------------------------------------------------------
(* The invariant.  A position is an index in the stream of a host: its     *)
(* byte n has the sequence number Plus(Iss[h], n), the FIN the one behind  *)
(* the last byte.                                                          *)

SynStates   == {"SYN_SENT", "SYN_RECEIVED"}
FinIsAcked  == {"FIN_WAIT2", "TIME_WAIT"}
FinIsTaken  == {"CLOSE_WAIT", "CLOSING", "LAST_ACK", "TIME_WAIT"}
Connected   == {"ESTABLISHED", "CLOSE_WAIT", "FIN_WAIT1", "FIN_WAIT2", "CLOSING", "LAST_ACK", "TIME_WAIT"}
SockStates  == {"NONE", "CLOSED"} \cup SynStates \cup Connected
MayWrite    == SynStates \cup {"ESTABLISHED", "CLOSE_WAIT"}
AppStates   == {"idle", "queued", "trying", "waiting", "open", "closing", "closed", "left"}

Sockets ==
    [state : SockStates, snd_una : Int, snd_max : Int, rcv_nxt : Int, tx : Seq(Nat), tx_sent : Int,
     peer_wnd : Int, rtx : BOOLEAN, rtx_count : Int, dup_acks : Int,
     fin_queued : BOOLEAN, fin_sent : BOOLEAN, reset_seen : BOOLEAN,
     ooo_seq : Int, ooo_len : Int, rx_len : Int, rx : [1..RxMax -> Nat],
     unaccepted : BOOLEAN, detached : BOOLEAN]

Segments ==
    [to : Hosts, flags : SUBSET {"SYN", "ACK", "FIN", "RST"}, seq : Int, ack : Int, win : Int,
     data : Seq(Nat)]

TcpTypeOK ==
    /\ sock \in [Hosts -> Sockets]
    /\ net \subseteq Segments
    /\ listening \in BOOLEAN
    /\ app \in [Hosts -> AppStates]
    /\ written \in [Hosts -> Nat]
    /\ read \in [Hosts -> Nat]
    /\ faults \in Nat

\* The sending half of a socket s of h whose application has written w bytes: the
\* send queue holds the last of them, snd_una is the number of the first, and a
\* FIN that waits for its acknowledgement belongs to a closing state.
SendOK(h, s, w) ==
    /\ s.fin_queued => s.state \in Closes
    /\ s.state \notin {"NONE", "CLOSED"} =>
          /\ s.tx_sent \in 0 .. Len(s.tx)
          /\ s.fin_sent => s.fin_queued
          /\ Len(s.tx) <= w
          /\ \A i \in 1 .. Len(s.tx) : s.tx[i] = (w - Len(s.tx)) + i
    /\ s.state \in SynStates => w = 0 /\ s.snd_una = Iss[h]
    /\ s.state \in FinIsAcked => Len(s.tx) = 0
    /\ s.state \in Connected =>
          s.snd_una = Plus(Iss[h], 1 + (w - Len(s.tx)) + Bit(s.state \in FinIsAcked))

\* The block behind the gap starts behind byte b of the peer's stream, lies in the
\* buffer at its distance from the bytes that have been read, and is the peer's.
BlockAt(h, s, r, pw, b) ==
    /\ s.ooo_seq = Plus(Iss[Peer(h)], 1 + b)
    /\ b > r + s.rx_len
    /\ b + s.ooo_len <= pw
    /\ b + s.ooo_len <= r + RxMax
    /\ \A i \in (b - r) + 1 .. (b - r) + s.ooo_len : s.rx[i] = r + i

\* The position that rcv_nxt stands for, when r bytes have been read, the peer's
\* application has written pw and ended says that it will write no more: behind
\* what has been taken, and behind the FIN when fin is set.
NextIs(h, s, r, pw, ended, fin) ==
    /\ s.rcv_nxt = Plus(Iss[Peer(h)], 1 + r + s.rx_len + Bit(fin))
    /\ fin => r + s.rx_len = pw /\ ended

\* The receiving half.  A closed socket has forgotten whether it has taken a FIN.
RecvOK(h, s, r, pw, ended) ==
    /\ s.rx_len \in 0 .. RxMax
    /\ r + s.rx_len <= pw
    /\ \A i \in 1 .. s.rx_len : s.rx[i] = r + i
    /\ s.state = "SYN_SENT" => r + s.rx_len = 0
    /\ s.state \in Connected \cup {"SYN_RECEIVED"} =>
          NextIs(h, s, r, pw, ended, s.state \in FinIsTaken)
    /\ s.state = "CLOSED" /\ s.rx_len > 0 =>
          \E fin \in BOOLEAN : NextIs(h, s, r, pw, ended, fin)
    /\ s.ooo_len >= 0
    /\ s.ooo_len > 0 => /\ s.state \in Connected
                        /\ \E b \in Nat : BlockAt(h, s, r, pw, b)

TimerOK(s, a) ==
    s.state \notin {"NONE", "CLOSED"} /\ Pending(s) => s.rtx \/ a = "trying"

\* The application of h can still write.
CanWrite(h) == app[h] = "idle" \/ sock[h].state \in MayWrite

\* The data of a segment are the bytes of its sender behind its first o.
DataAt(g, i, w, o) ==
    /\ g.seq = Plus(i, 1 + o)
    /\ o + Len(g.data) <= w
    /\ \A n \in 1 .. Len(g.data) : g.data[n] = o + n

\* k is a position that h may be told its peer has reached: bytes the peer has
\* taken, or the FIN behind the last byte h has written.
AckAt(h, k) ==
    LET p == Peer(h) IN
    \/ k <= written[h] /\ (sock[p].state # "NONE" => k <= Taken(p))
    \/ k = written[h] + 1 /\ ~CanWrite(h) /\ (sock[p].state # "NONE" => Taken(p) = written[h])

\* A segment in the network.
SegmentOK(g) ==
    LET h == g.to  p == Peer(h) IN
    "RST" \notin g.flags =>
        /\ app[p] # "idle"
        /\ "SYN" \in g.flags => g.seq = Iss[p] /\ g.data = <<>> /\ "FIN" \notin g.flags
        /\ g.data # <<>> => \E o \in Nat : DataAt(g, Iss[p], written[p], o)
        /\ "FIN" \in g.flags => /\ g.data = <<>> /\ ~CanWrite(p)
                                /\ g.seq = Plus(Iss[p], 1 + written[p])
        /\ "ACK" \in g.flags => \E k \in Nat : g.ack = Plus(Iss[h], 1 + k) /\ AckAt(h, k)

\* What one host knows of the other.
HostOK(h) ==
    LET p == Peer(h) IN
    /\ SendOK(h, sock[h], written[h])
    /\ RecvOK(h, sock[h], read[h], written[p], ~CanWrite(p))
    /\ TimerOK(sock[h], app[h])
    /\ written[h] <= StreamLen[h]
    /\ app[h] = "idle" => /\ sock[h].state = "NONE" /\ written[h] = 0 /\ read[h] = 0
                          /\ sock[p].state \notin Connected /\ written[p] = 0
    /\ sock[h].state = "NONE" => app[h] \in {"idle", "left"} /\ ~sock[h].unaccepted
    /\ app[h] = "trying" => h = Client
    /\ sock[h].state \notin {"NONE", "CLOSED"} /\ sock[p].state # "NONE" =>
          written[h] - Len(sock[h].tx) <= Taken(p)

TcpInv ==
    /\ TcpTypeOK
    /\ \A h \in Hosts : HostOK(h)
    /\ \A g \in net : SegmentOK(g)

-----------------------------------------------------------------------------
(* Hosts, positions and the operators on numbers.                          *)

LEMMA HostFacts ==
    ASSUME NEW h \in Hosts
    PROVE  /\ Peer(h) \in Hosts /\ Peer(h) # h /\ Peer(Peer(h)) = h
           /\ \A x \in Hosts : x = h \/ x = Peer(h)
BY TcpAssumption DEF Hosts, Peer

LEMMA ConstantFacts ==
    /\ RxMax \in Nat \ {0} /\ TxMax \in Nat \ {0} /\ Mss \in Nat \ {0}
    /\ \A h \in Hosts : StreamLen[h] \in Nat /\ Iss[h] \in Int /\ Plus(Iss[h], 0) = Iss[h]
<1>1. /\ RxMax \in Nat \ {0} /\ TxMax \in Nat \ {0} /\ Mss \in Nat \ {0}
      /\ Iss \in [Hosts -> 0 .. SeqMod - 1] /\ StreamLen \in [Hosts -> Nat]
  BY TcpAssumption
<1>2. ASSUME NEW h \in Hosts PROVE Plus(Iss[h], 0) = Iss[h]
  <2>1. PICK i \in Int : i = Iss[h] /\ i \in 0 .. SeqMod - 1
    BY <1>1, SeqModPositive
  <2>2. PICK zero \in Int : zero = 0
    OBVIOUS
  <2>3. PICK k \in Int, r \in Int : r = Plus(i, zero) /\ i + zero = SeqMod * k + r /\ r \in 0 .. SeqMod - 1
    BY PlusRemainder
  <2>4. SeqMod * zero + i = SeqMod * k + r
    BY <2>2, <2>3, SeqModPositive
  <2>5. i = r
    <3> USE <2>1, <2>3, <2>4, SeqModPositive
    <3> QED BY RemainderUnique
  <2> QED BY <2>1, <2>2, <2>3, <2>5
<1> QED BY <1>1, <1>2, SeqModPositive

\* The distance of two positions of a stream.
LEMMA DistanceFacts ==
    ASSUME NEW h \in Hosts, NEW x \in 0 .. StreamLen[h] + 2, NEW y \in 0 .. StreamLen[h] + 2
    PROVE  Minus(Plus(Iss[h], x), Plus(Iss[h], y)) = x - y
<1>1. PICK n \in Nat : n = StreamLen[h]
  BY ConstantFacts
<1>2. 2 * (n + 2 + RxMax) <= SeqMod /\ SeqMod \in Nat /\ RxMax \in Nat \ {0}
  BY <1>1, TcpAssumption
<1>3. x \in Int /\ y \in Int /\ x - y <= n + 2 /\ y - x <= n + 2
  BY <1>1
<1>4. 2 * (x - y) < SeqMod /\ 2 * (y - x) < SeqMod
  BY <1>2, <1>3
<1>5. Iss[h] \in Int
  BY ConstantFacts
<1> QED BY <1>3, <1>4, <1>5, MinusFacts

LEMMA MaxFacts ==
    ASSUME NEW a \in Int, NEW b \in Int
    PROVE  Max({a, b}) = IF a >= b THEN a ELSE b
<1>1. CASE a >= b
  BY <1>1 DEF Max
<1>2. CASE ~(a >= b)
  BY <1>2 DEF Max
<1> QED BY <1>1, <1>2

\* The segment loop of tcp_output(): how far it sends.
LEMMA UptoFacts ==
    ASSUME NEW s \in Sockets, NEW cwnd \in Nat, s.tx_sent \in 0 .. Len(s.tx)
    PROVE  Max({s.tx_sent, Lesser(Len(s.tx), Limit(s, cwnd))}) \in s.tx_sent .. Len(s.tx)
<1>1. s.tx_sent \in Int /\ Len(s.tx) \in Nat /\ s.peer_wnd \in Int
  BY DEF Sockets
<1>2. Lesser(cwnd, s.peer_wnd) \in Int
  BY <1>1 DEF Lesser
<1>3. Limit(s, cwnd) \in Int
  BY <1>2, MaxFacts DEF Limit
<1>4. PICK a \in Int : a = Lesser(Len(s.tx), Limit(s, cwnd)) /\ a <= Len(s.tx)
  BY <1>1, <1>3 DEF Lesser
<1>5. Max({s.tx_sent, a}) = IF s.tx_sent >= a THEN s.tx_sent ELSE a
  BY <1>1, <1>4, MaxFacts
<1> QED BY <1>1, <1>4, <1>5

-----------------------------------------------------------------------------
(* What the operators on a socket do.                                      *)

\* A segment that h sends when its application has written w bytes and it has
\* taken n of the pw its peer has written; ended says that the peer will write no
\* more, open that h may.
SentOK(h, g, w, n, pw, ended, open) ==
    /\ g \in Segments
    /\ g.to = Peer(h)
    /\ "RST" \notin g.flags =>
        /\ "SYN" \in g.flags => g.seq = Iss[h] /\ g.data = <<>> /\ "FIN" \notin g.flags
        /\ g.data # <<>> => \E o \in Nat : DataAt(g, Iss[h], w, o)
        /\ "FIN" \in g.flags => g.data = <<>> /\ ~open /\ g.seq = Plus(Iss[h], 1 + w)
        /\ "ACK" \in g.flags =>
              \E k \in Nat : /\ g.ack = Plus(Iss[Peer(h)], 1 + k)
                             /\ k <= n \/ (k = pw + 1 /\ n = pw /\ ended)

\* rcv_nxt is a position that h may acknowledge.
AckOK(h, s, n, pw, ended) ==
    \E k \in Nat : /\ s.rcv_nxt = Plus(Iss[Peer(h)], 1 + k)
                   /\ k <= n \/ (k = pw + 1 /\ n = pw /\ ended)

\* The receiving half of t is that of s.
SameRecv(s, t) ==
    /\ t.rcv_nxt = s.rcv_nxt /\ t.rx = s.rx /\ t.rx_len = s.rx_len
    /\ t.ooo_seq = s.ooo_seq /\ t.ooo_len = s.ooo_len

LEMMA XmitFacts ==
    ASSUME NEW h \in Hosts, NEW s \in Sockets, NEW flags \in SUBSET {"SYN", "ACK", "FIN", "RST"},
           NEW seq \in Int, NEW data \in Seq(Nat), NEW g, g = Xmit(h, s, flags, seq, data)
    PROVE  /\ g \in Segments /\ g.to = Peer(h) /\ g.flags = flags /\ g.seq = seq
           /\ g.ack = s.rcv_nxt /\ g.data = data
<1>1. RxWindow(s) \in Int /\ s.rcv_nxt \in Int
  BY ConstantFacts DEF RxWindow, Sockets
<1>2. Peer(h) \in Hosts
  BY HostFacts
<1> QED BY <1>1, <1>2 DEF Xmit, Segment, Segments

LEMMA NextIsAckOK ==
    ASSUME NEW h \in Hosts, NEW s \in Sockets, NEW r \in Nat, NEW pw \in Nat, NEW ended, NEW fin \in BOOLEAN,
           NextIs(h, s, r, pw, ended, fin), s.rx_len \in Nat
    PROVE  AckOK(h, s, r + s.rx_len, pw, ended)
<1>1. PICK n \in Nat : n = r + s.rx_len
  OBVIOUS
<1>2. CASE fin
  <2>1. s.rcv_nxt = Plus(Iss[Peer(h)], 1 + (pw + 1)) /\ n = pw /\ ended
    BY <1>1, <1>2 DEF NextIs, Bit
  <2> QED BY <1>1, <2>1 DEF AckOK
<1>3. CASE ~fin
  <2>1. s.rcv_nxt = Plus(Iss[Peer(h)], 1 + n)
    BY <1>1, <1>3 DEF NextIs, Bit
  <2> QED BY <1>1, <2>1 DEF AckOK
<1> QED BY <1>2, <1>3

LEMMA AckNowFacts ==
    ASSUME NEW h \in Hosts, NEW s \in Sockets, NEW w, NEW n, NEW pw, NEW ended, NEW open,
           AckOK(h, s, n, pw, ended), NEW g \in AckNow(h, s)
    PROVE  SentOK(h, g, w, n, pw, ended, open)
<1>1. s.snd_una \in Int /\ s.tx_sent + Bit(s.fin_sent) \in Int
  BY DEF Sockets, Bit
<1>2. PICK seq \in Int : seq = Plus(s.snd_una, s.tx_sent + Bit(s.fin_sent))
  BY <1>1, PlusInt
<1>3. g = Xmit(h, s, {"ACK"}, seq, <<>>)
  BY <1>2 DEF AckNow
<1>4. /\ g \in Segments /\ g.to = Peer(h) /\ g.flags = {"ACK"} /\ g.data = <<>> /\ g.ack = s.rcv_nxt
  <2>0. {"ACK"} \in SUBSET {"SYN", "ACK", "FIN", "RST"} /\ <<>> \in Seq(Nat)
    OBVIOUS
  <2>1. PICK f \in SUBSET {"SYN", "ACK", "FIN", "RST"}, d \in Seq(Nat) : f = {"ACK"} /\ d = <<>>
    BY <2>0, Zenon
  <2>2. g = Xmit(h, s, f, seq, d)
    BY <1>3, <2>1
  <2>3. /\ g \in Segments /\ g.to = Peer(h) /\ g.flags = f /\ g.seq = seq
        /\ g.ack = s.rcv_nxt /\ g.data = d
    BY <2>2, XmitFacts
  <2> QED BY <2>1, <2>3
<1> QED BY <1>4 DEF SentOK, AckOK

LEMMA ShutFacts ==
    ASSUME NEW s \in Sockets, NEW z, z = Shut(s)
    PROVE  /\ z \in Sockets /\ z.state = "CLOSED" /\ z.rtx = FALSE /\ z.fin_queued = FALSE /\ z.ooo_len = 0
           /\ (s.rx_len > 0 => z.rcv_nxt = s.rcv_nxt) /\ z.rx = s.rx /\ z.rx_len = s.rx_len
<1>1. /\ s.state \in SockStates /\ s.snd_una \in Int /\ s.snd_max \in Int /\ s.rcv_nxt \in Int
      /\ s.tx \in Seq(Nat) /\ s.tx_sent \in Int /\ s.peer_wnd \in Int /\ s.rtx \in BOOLEAN
      /\ s.rtx_count \in Int /\ s.dup_acks \in Int /\ s.fin_queued \in BOOLEAN /\ s.fin_sent \in BOOLEAN
      /\ s.reset_seen \in BOOLEAN /\ s.ooo_seq \in Int /\ s.ooo_len \in Int /\ s.rx_len \in Int
      /\ s.rx \in [1..RxMax -> Nat] /\ s.unaccepted \in BOOLEAN /\ s.detached \in BOOLEAN
  BY DEF Sockets
<1>2. z = [state |-> "CLOSED", snd_una |-> IF s.rx_len > 0 THEN s.snd_una ELSE 0, snd_max |-> 0,
           rcv_nxt |-> IF s.rx_len > 0 THEN s.rcv_nxt ELSE 0,
           tx |-> <<>>, tx_sent |-> IF s.rx_len > 0 THEN s.tx_sent ELSE 0, peer_wnd |-> 0,
           rtx |-> FALSE, rtx_count |-> 0, dup_acks |-> 0, fin_queued |-> FALSE,
           fin_sent |-> s.rx_len > 0 /\ s.fin_sent, reset_seen |-> s.reset_seen,
           ooo_seq |-> 0, ooo_len |-> 0, rx_len |-> s.rx_len, rx |-> s.rx,
           unaccepted |-> s.unaccepted, detached |-> s.detached]
  BY DEF Shut, Sockets
<1>3. "CLOSED" \in SockStates /\ <<>> \in Seq(Nat) /\ 0 \in Int /\ FALSE \in BOOLEAN
      /\ (s.rx_len > 0 /\ s.fin_sent) \in BOOLEAN
  BY <1>1 DEF SockStates
<1>4. z \in Sockets
  BY <1>1, <1>2, <1>3 DEF Sockets
<1> QED BY <1>2, <1>4

LEMMA ClosedFacts ==
    ASSUME NEW s \in Sockets, NEW z, z = Closed(s)
    PROVE  /\ z \in Sockets /\ z.state = "CLOSED" /\ z.rtx = FALSE /\ z.fin_queued = FALSE /\ z.ooo_len = 0
           /\ (s.rx_len > 0 => z.rcv_nxt = s.rcv_nxt) /\ z.rx = s.rx /\ z.rx_len = s.rx_len
<1>1. PICK y : y = Shut(s)
  OBVIOUS
<1>2. /\ y \in Sockets /\ y.state = "CLOSED" /\ y.rtx = FALSE /\ y.fin_queued = FALSE /\ y.ooo_len = 0
      /\ (s.rx_len > 0 => y.rcv_nxt = s.rcv_nxt) /\ y.rx = s.rx /\ y.rx_len = s.rx_len
  BY <1>1, ShutFacts
<1>3. z = [y EXCEPT !.reset_seen = TRUE]
  BY <1>1 DEF Closed
<1> QED BY <1>2, <1>3 DEF Sockets

\* What may differ between a socket s and what it becomes, z, when the peer's
\* application does nothing: nothing taken is given back, no end of a stream is
\* undone, and the timer runs if it has to, a being what the application does.
Follows(s, z, a) ==
    /\ z.rx_len >= s.rx_len
    /\ z.state \in MayWrite => s.state \in MayWrite
    /\ z.state # "NONE"
    /\ TimerOK(s, a) => TimerOK(z, a)

\* The sending half depends on these fields only.
LEMMA SendOKSame ==
    ASSUME NEW h, NEW s, NEW z, NEW w, SendOK(h, s, w),
           z.state = s.state, z.tx = s.tx, z.snd_una = s.snd_una, z.tx_sent = s.tx_sent,
           z.fin_queued = s.fin_queued, z.fin_sent = s.fin_sent
    PROVE  SendOK(h, z, w)
BY DEF SendOK

LEMMA RecvOKSame ==
    ASSUME NEW h, NEW s, NEW z, NEW r, NEW pw, NEW ended, RecvOK(h, s, r, pw, ended),
           z.state = s.state \/ (/\ s.state \in Connected /\ z.state \in Connected
                                 /\ z.state \in FinIsTaken <=> s.state \in FinIsTaken),
           SameRecv(s, z)
    PROVE  RecvOK(h, z, r, pw, ended)
<1>1. \A fin \in BOOLEAN : NextIs(h, s, r, pw, ended, fin) => NextIs(h, z, r, pw, ended, fin)
  BY DEF NextIs, SameRecv
<1>2. \A b \in Nat : BlockAt(h, s, r, pw, b) => BlockAt(h, z, r, pw, b)
  BY DEF BlockAt, SameRecv
<1>3. (s.state \in FinIsTaken) \in BOOLEAN /\ (z.state \in FinIsTaken) = (s.state \in FinIsTaken)
  OBVIOUS
<1>4. z.state \in Connected <=> s.state \in Connected
  OBVIOUS
<1>5. z.state \in Connected \cup {"SYN_RECEIVED"} => NextIs(h, z, r, pw, ended, z.state \in FinIsTaken)
  <2>1. z.state \in Connected \cup {"SYN_RECEIVED"} => s.state \in Connected \cup {"SYN_RECEIVED"}
    OBVIOUS
  <2> QED BY <1>1, <1>3, <2>1 DEF RecvOK
<1>6. "SYN_SENT" \notin Connected /\ "CLOSED" \notin Connected
  BY DEF Connected
<1> QED BY <1>1, <1>2, <1>4, <1>5, <1>6 DEF RecvOK, SameRecv

\* A closed socket keeps what it has received.
LEMMA RecvOKClosed ==
    ASSUME NEW h, NEW s, NEW z, NEW r \in Nat, NEW pw \in Nat, NEW ended, RecvOK(h, s, r, pw, ended),
           s.state # "NONE", s.state \in SockStates, s.rx_len \in Int,
           z.state = "CLOSED", s.rx_len > 0 => z.rcv_nxt = s.rcv_nxt, z.rx = s.rx, z.rx_len = s.rx_len, z.ooo_len = 0
    PROVE  RecvOK(h, z, r, pw, ended)
<1>1. s.rx_len > 0 => \A fin \in BOOLEAN : NextIs(h, s, r, pw, ended, fin) => NextIs(h, z, r, pw, ended, fin)
  BY DEF NextIs
<1>2. (s.state \in FinIsTaken) \in BOOLEAN
  OBVIOUS
<1>3. s.state \in Connected \cup {"SYN_RECEIVED"} \/ s.state = "CLOSED" \/ s.state = "SYN_SENT"
  BY DEF SockStates, SynStates
<1>4. ASSUME z.rx_len > 0 PROVE \E fin \in BOOLEAN : NextIs(h, z, r, pw, ended, fin)
  <2>1. CASE s.state \in Connected \cup {"SYN_RECEIVED"}
    <3>1. NextIs(h, s, r, pw, ended, s.state \in FinIsTaken)
      BY <2>1 DEF RecvOK
    <3> QED BY <1>1, <1>2, <1>4, <3>1
  <2>2. CASE s.state = "CLOSED"
    BY <1>1, <1>4, <2>2 DEF RecvOK
  <2>3. CASE s.state = "SYN_SENT"
    BY <1>4, <2>3 DEF RecvOK
  <2> QED BY <1>3, <2>1, <2>2, <2>3
<1> QED BY <1>4 DEF RecvOK, Connected, FinIsTaken

LEMMA SendOKClosed ==
    ASSUME NEW h, NEW z, NEW w, z.state = "CLOSED", ~z.fin_queued
    PROVE  SendOK(h, z, w)
BY DEF SendOK, SynStates, FinIsAcked, Connected

-----------------------------------------------------------------------------
(* tcp_output().                                                           *)

SendStates == {"ESTABLISHED", "CLOSE_WAIT", "FIN_WAIT1", "CLOSING", "LAST_ACK"}

LEMMA LaterInt ==
    ASSUME NEW a \in Int, NEW b \in Int
    PROVE  Later(a, b) \in Int
BY DEF Later

\* It sends bytes and the FIN, and arms the timer for them.
LEMMA OutputSocket ==
    ASSUME NEW h \in Hosts, NEW s \in Sockets, NEW cwnd \in Nat, NEW w \in Nat, SendOK(h, s, w),
           s.state \in Connected, NEW z, z = Output(h, s, cwnd).s
    PROVE  /\ z \in Sockets /\ z.state = s.state /\ z.tx = s.tx
           /\ SameRecv(s, z)
           /\ SendOK(h, z, w)
           /\ Pending(z) => z.rtx
<1> DEFINE upto == Max({s.tx_sent, Lesser(Len(s.tx), Limit(s, cwnd))})
           fin == FinDue(s, upto) /\ cwnd > 0
           max == Later(Plus(s.snd_una, upto + Bit(s.fin_sent \/ fin)), s.snd_max)
<1>1. CASE s.state \in SendStates
  <2>1. s.tx_sent \in 0 .. Len(s.tx) /\ (s.fin_sent => s.fin_queued)
    BY <1>1 DEF SendOK, SendStates
  <2>2. upto \in s.tx_sent .. Len(s.tx)
    BY <2>1, UptoFacts
  <2>3. fin \in BOOLEAN /\ (fin => s.fin_queued)
    BY DEF FinDue, Sockets
  <2>4. upto \in 0 .. Len(s.tx) /\ upto \in Int /\ s.snd_una \in Int /\ s.snd_max \in Int
    BY <2>1, <2>2 DEF Sockets
  <2>5. max \in Int
    <3>1. upto + Bit(s.fin_sent \/ fin) \in Int
      BY <2>4 DEF Bit
    <3> QED BY <2>4, <3>1, PlusInt, LaterInt
  <2>6. PICK u, f, m : u = upto /\ f = fin /\ m = max
    OBVIOUS
  <2>7. PICK y : y = [s EXCEPT !.tx_sent = u, !.fin_sent = @ \/ f, !.snd_max = m]
    OBVIOUS
  <2>8. z = Arm(y)
    BY <1>1, <2>6, <2>7 DEF Output, SendStates
  <2> HIDE DEF upto, fin, max
  <2>9. u \in 0 .. Len(s.tx) /\ u \in Int /\ f \in BOOLEAN /\ m \in Int /\ (f => s.fin_queued)
    BY <2>3, <2>4, <2>5, <2>6
  <2>10. y \in Sockets
    BY <2>7, <2>9 DEF Sockets
  <2>11. /\ y.state = s.state /\ y.tx = s.tx /\ y.snd_una = s.snd_una /\ y.fin_queued = s.fin_queued
         /\ y.tx_sent = u /\ y.fin_sent = (s.fin_sent \/ f) /\ SameRecv(s, y)
    BY <2>7 DEF Sockets, SameRecv
  <2>12. SendOK(h, y, w)
    BY <2>1, <2>9, <2>11 DEF SendOK
  <2>13. PICK p \in BOOLEAN : p = (y.rtx \/ Pending(y))
    BY <2>10 DEF Sockets, Pending
  <2>14. z = [y EXCEPT !.rtx = p]
    BY <2>8, <2>13 DEF Arm
  <2>15. z \in Sockets /\ z.rtx = p
    BY <2>10, <2>14 DEF Sockets
  <2>16. /\ z.state = y.state /\ z.tx = y.tx /\ z.snd_una = y.snd_una /\ z.fin_queued = y.fin_queued
         /\ z.tx_sent = y.tx_sent /\ z.fin_sent = y.fin_sent /\ z.reset_seen = y.reset_seen /\ SameRecv(y, z)
    BY <2>10, <2>14 DEF Sockets, SameRecv
  <2>17. Pending(z) => z.rtx
    BY <2>13, <2>15, <2>16 DEF Pending
  <2>18. SendOK(h, z, w)
    BY <2>12, <2>16, SendOKSame
  <2> QED BY <2>11, <2>15, <2>16, <2>17, <2>18 DEF SameRecv
<1>2. CASE s.state \notin SendStates
  <2>1. z = s
    BY <1>2 DEF Output, SendStates
  <2>2. s.state \in FinIsAcked
    BY <1>2 DEF SendStates, Connected, FinIsAcked
  <2>3. Len(s.tx) = 0 /\ ~s.fin_queued /\ ~s.fin_sent
    BY <2>2 DEF SendOK, FinIsAcked, Closes, Sockets
  <2>4. ~Pending(s)
    BY <2>2, <2>3 DEF Pending, FinIsAcked
  <2> QED BY <2>1, <2>4 DEF SameRecv
<1> QED BY <1>1, <1>2

LEMMA AckSegment == {"ACK"} \in SUBSET {"SYN", "ACK", "FIN", "RST"} /\ <<>> \in Seq(Nat)
OBVIOUS

\* Part of a queue.
LEMMA PartFacts ==
    ASSUME NEW q \in Seq(Nat), NEW k \in Nat, NEW e \in Nat, k <= e, e <= Len(q)
    PROVE  /\ SubSeq(q, k + 1, e) \in Seq(Nat)
           /\ Len(SubSeq(q, k + 1, e)) = e - k
           /\ \A n \in 1 .. e - k : SubSeq(q, k + 1, e)[n] = q[k + n]
<1>1. k + 1 \in Int /\ e \in Int /\ k + 1 >= 1 /\ e <= Len(q) /\ Len(q) \in Nat
  OBVIOUS
<1>2. /\ Len(SubSeq(q, k + 1, e)) = e - k
      /\ \A n \in 1 .. e - k : SubSeq(q, k + 1, e)[n] = q[k + n]
  BY <1>1
<1>3. SubSeq(q, k + 1, e) \in Seq(Nat)
  BY <1>1
<1> QED BY <1>2, <1>3

\* The sending half of a socket that sends.
LEMMA SendFacts ==
    ASSUME NEW h \in Hosts, NEW s \in Sockets, NEW w \in Nat, SendOK(h, s, w), s.state \in SendStates
    PROVE  /\ s.tx \in Seq(Nat) /\ Len(s.tx) \in Nat /\ s.snd_una \in Int /\ Iss[h] \in Int
           /\ s.tx_sent \in 0 .. Len(s.tx) /\ Len(s.tx) <= w
           /\ \A i \in 1 .. Len(s.tx) : s.tx[i] = (w - Len(s.tx)) + i
           /\ s.snd_una = Plus(Iss[h], 1 + (w - Len(s.tx)))
           /\ s.fin_queued => s.state \in Closes
<1>1. s.tx \in Seq(Nat) /\ Len(s.tx) \in Nat /\ s.snd_una \in Int /\ Iss[h] \in Int
  BY ConstantFacts DEF Sockets
<1>2. s.state \in Connected /\ s.state \notin FinIsAcked /\ s.state \notin {"NONE", "CLOSED"}
  BY DEF SendStates, Connected, FinIsAcked
<1>3. /\ s.tx_sent \in 0 .. Len(s.tx) /\ Len(s.tx) <= w /\ (s.fin_queued => s.state \in Closes)
      /\ \A i \in 1 .. Len(s.tx) : s.tx[i] = (w - Len(s.tx)) + i
  BY <1>2 DEF SendOK
<1>4. s.snd_una = Plus(Iss[h], 1 + (w - Len(s.tx)) + Bit(s.state \in FinIsAcked))
  BY <1>2 DEF SendOK
<1>5. Bit(s.state \in FinIsAcked) = 0
  BY <1>2 DEF Bit
<1>6. 1 + (w - Len(s.tx)) + 0 = 1 + (w - Len(s.tx))
  BY <1>1
<1>7. s.snd_una = Plus(Iss[h], 1 + (w - Len(s.tx)))
  BY <1>4, <1>5, <1>6
<1> QED BY <1>1, <1>3, <1>7

\* The position of a byte of the send queue, and of the end of the queue.
LEMMA SentPosition ==
    ASSUME NEW i \in Int, NEW w \in Nat, NEW l \in Nat, l <= w, NEW k \in Nat
    PROVE  /\ (w - l) + k \in Nat
           /\ Plus(Plus(i, 1 + (w - l)), k) = Plus(i, 1 + ((w - l) + k))
<1>1. PICK a \in Int : a = 1 + (w - l)
  OBVIOUS
<1>2. Plus(Plus(i, a), k) = Plus(i, a + k)
  BY PlusFacts
<1>3. a + k = 1 + ((w - l) + k)
  BY <1>1
<1> QED BY <1>1, <1>2, <1>3

\* d is the e - k elements of q behind its first k.
PartOf(d, q, k, e) == Len(d) = e - k /\ \A i \in 1 .. e - k : d[i] = q[k + i]

LEMMA PartIsPart ==
    ASSUME NEW q \in Seq(Nat), NEW k \in Nat, NEW e \in Nat, k <= e, e <= Len(q)
    PROVE  SubSeq(q, k + 1, e) \in Seq(Nat) /\ PartOf(SubSeq(q, k + 1, e), q, k, e)
BY PartFacts DEF PartOf

\* The queue q of l bytes holds the last bytes of w.
LastOf(q, l, w) == l <= w /\ \A i \in 1 .. l : q[i] = (w - l) + i

\* The bytes of d are among the first w, behind the first o.
PartAt(d, w, o) == o + Len(d) <= w /\ \A n \in 1 .. Len(d) : d[n] = o + n

LEMMA PartBytes ==
    ASSUME NEW q, NEW l \in Nat, NEW w \in Nat, LastOf(q, l, w),
           NEW k \in Nat, NEW e \in Nat, k <= e, e <= l, NEW d, PartOf(d, q, k, e)
    PROVE  PartAt(d, w, (w - l) + k)
<1>0. PICK o \in Nat : o = (w - l) + k
  BY DEF LastOf
<1>1. Len(d) = e - k
  BY DEF PartOf
<1>2. o + (e - k) <= w
  BY <1>0
<1>3. ASSUME NEW n \in 1 .. e - k PROVE d[n] = o + n
  <2>1. n \in Nat /\ k + n \in 1 .. l
    OBVIOUS
  <2>2. d[n] = q[k + n] /\ q[k + n] = (w - l) + (k + n)
    BY <2>1 DEF PartOf, LastOf
  <2>3. (w - l) + (k + n) = o + n
    BY <1>0, <2>1
  <2> QED BY <2>2, <2>3
<1> QED BY <1>0, <1>1, <1>2, <1>3 DEF PartAt

\* A segment of data that tcp_output() sends.
LEMMA DataSent ==
    ASSUME NEW h \in Hosts, NEW s \in Sockets, NEW w \in Nat, SendOK(h, s, w), s.state \in SendStates,
           NEW n, NEW pw, NEW ended, NEW open, AckOK(h, s, n, pw, ended),
           NEW k \in Nat, NEW e \in Nat, k <= e, e <= Len(s.tx),
           NEW g \in Segments, g.to = Peer(h), g.flags = {"ACK"}, g.ack = s.rcv_nxt,
           g.seq = Plus(s.snd_una, k), PartOf(g.data, s.tx, k, e)
    PROVE  SentOK(h, g, w, n, pw, ended, open)
<1>1. PICK l \in Nat, i \in Int : l = Len(s.tx) /\ i = Iss[h]
  BY SendFacts
<1>2. l <= w /\ s.snd_una = Plus(i, 1 + (w - l)) /\ e <= l /\ LastOf(s.tx, l, w)
  BY <1>1, SendFacts DEF LastOf
<1>2a. l <= w
  BY <1>2
<1>3. /\ (w - l) + k \in Nat
      /\ Plus(Plus(i, 1 + (w - l)), k) = Plus(i, 1 + ((w - l) + k))
  BY <1>2a, SentPosition
<1>4. PartAt(g.data, w, (w - l) + k)
  BY <1>2, PartBytes
<1>4a. PICK o \in Nat : o = (w - l) + k
  BY <1>3
<1>5. DataAt(g, Iss[h], w, o)
  <2>1. g.seq = Plus(Iss[h], 1 + o)
    BY <1>1, <1>2, <1>3, <1>4a
  <2>2. PartAt(g.data, w, o)
    BY <1>4, <1>4a
  <2> QED BY <2>1, <2>2 DEF DataAt, PartAt
<1> QED BY <1>5 DEF SentOK, AckOK

\* The FIN.
LEMMA FinSent ==
    ASSUME NEW h \in Hosts, NEW s \in Sockets, NEW w \in Nat, SendOK(h, s, w), s.state \in SendStates,
           NEW n, NEW pw, NEW ended, AckOK(h, s, n, pw, ended), s.fin_queued,
           NEW g \in Segments, g.to = Peer(h), g.flags = {"FIN", "ACK"}, g.ack = s.rcv_nxt,
           g.seq = Plus(s.snd_una, Len(s.tx)), g.data = <<>>
    PROVE  SentOK(h, g, w, n, pw, ended, s.state \in MayWrite)
<1>1. PICK l \in Nat, i \in Int : l = Len(s.tx) /\ i = Iss[h]
  BY SendFacts
<1>2. l <= w /\ s.snd_una = Plus(i, 1 + (w - l)) /\ s.state \in Closes
  BY <1>1, SendFacts
<1>3. Plus(s.snd_una, Len(s.tx)) = Plus(Iss[h], 1 + w)
  <2>1. Plus(Plus(i, 1 + (w - l)), l) = Plus(i, 1 + ((w - l) + l))
    BY <1>2, SentPosition
  <2>2. (w - l) + l = w
    OBVIOUS
  <2> QED BY <1>1, <1>2, <2>1, <2>2
<1>8. s.state \notin MayWrite
  BY <1>2 DEF Closes, MayWrite, SynStates
<1> QED BY <1>3, <1>8 DEF SentOK, AckOK

LEMMA OutputSent ==
    ASSUME NEW h \in Hosts, NEW s \in Sockets, NEW cwnd \in Nat, NEW w \in Nat, SendOK(h, s, w),
           NEW n, NEW pw, NEW ended, AckOK(h, s, n, pw, ended),
           NEW g \in Output(h, s, cwnd).out
    PROVE  SentOK(h, g, w, n, pw, ended, s.state \in MayWrite)
<1> DEFINE upto == Max({s.tx_sent, Lesser(Len(s.tx), Limit(s, cwnd))})
           fin == FinDue(s, upto) /\ cwnd > 0
           sent == {Xmit(h, s, {"ACK"}, Plus(s.snd_una, k), SubSeq(s.tx, k + 1, Lesser(k + Mss, upto))) :
                      k \in {k \in s.tx_sent..upto - 1 : (k - s.tx_sent) % Mss = 0}}
           last == {Xmit(h, s, {"FIN", "ACK"}, Plus(s.snd_una, upto), <<>>)}
<1>1. s.state \in SendStates /\ g \in (IF fin THEN sent \cup last ELSE sent)
  BY DEF Output, SendStates
<1>2. s.tx_sent \in 0 .. Len(s.tx) /\ Len(s.tx) \in Nat
  BY <1>1, SendFacts
<1>3. upto \in s.tx_sent .. Len(s.tx)
  BY <1>2, UptoFacts
<1>4. CASE g \in sent
  <2>1. PICK k \in s.tx_sent..upto - 1 :
           g = Xmit(h, s, {"ACK"}, Plus(s.snd_una, k), SubSeq(s.tx, k + 1, Lesser(k + Mss, upto)))
    BY <1>4
  <2> HIDE DEF upto
  <2>2. PICK e \in Nat : e = Lesser(k + Mss, upto) /\ k <= e /\ e <= Len(s.tx) /\ k \in Nat
    <3>1. PICK l \in Nat, c \in Nat, u \in Nat, m \in Nat :
             l = Len(s.tx) /\ c = s.tx_sent /\ u = upto /\ m = Mss
      BY <1>2, <1>3, ConstantFacts
    <3>2. u <= l /\ k \in c .. u - 1
      BY <1>3, <2>1, <3>1
    <3>3. Lesser(k + m, u) \in Nat /\ k <= Lesser(k + m, u) /\ Lesser(k + m, u) <= l /\ k \in Nat
      BY <3>2 DEF Lesser
    <3> QED BY <3>1, <3>3
  <2>3. PICK f \in SUBSET {"SYN", "ACK", "FIN", "RST"} : f = {"ACK"}
    BY AckSegment
  <2>4. PICK d \in Seq(Nat) : d = SubSeq(s.tx, k + 1, e) /\ PartOf(d, s.tx, k, e)
    <3>1. s.tx \in Seq(Nat)
      BY DEF Sockets
    <3> QED BY <2>2, <3>1, PartIsPart
  <2>5. PICK q \in Int : q = Plus(s.snd_una, k)
    <3>1. s.snd_una \in Int /\ k \in Int
      BY <2>2 DEF Sockets
    <3> QED BY <3>1, PlusInt
  <2>6. g = Xmit(h, s, f, q, d)
    BY <2>1, <2>2, <2>3, <2>4, <2>5
  <2>7. /\ g \in Segments /\ g.to = Peer(h) /\ g.flags = f /\ g.seq = q
        /\ g.ack = s.rcv_nxt /\ g.data = d
    BY <2>6, XmitFacts
  <2>8. g.flags = {"ACK"} /\ g.seq = Plus(s.snd_una, k) /\ PartOf(g.data, s.tx, k, e)
    BY <2>3, <2>4, <2>5, <2>7
  <2> HIDE DEF sent, last, fin
  <2> QED BY <1>1, <2>2, <2>7, <2>8, DataSent
<1>5. CASE fin /\ g \in last
  <2>1. upto = Len(s.tx) /\ s.fin_queued
    BY <1>5 DEF FinDue
  <2>2. g = Xmit(h, s, {"FIN", "ACK"}, Plus(s.snd_una, Len(s.tx)), <<>>)
    BY <1>5, <2>1
  <2>3. PICK f \in SUBSET {"SYN", "ACK", "FIN", "RST"} : f = {"FIN", "ACK"}
    <3>1. {"FIN", "ACK"} \in SUBSET {"SYN", "ACK", "FIN", "RST"}
      OBVIOUS
    <3> QED BY <3>1
  <2>4. PICK q \in Int : q = Plus(s.snd_una, Len(s.tx))
    <3>1. s.snd_una \in Int /\ Len(s.tx) \in Int
      BY DEF Sockets
    <3> QED BY <3>1, PlusInt
  <2>5. PICK d \in Seq(Nat) : d = <<>>
    BY AckSegment
  <2>6. g = Xmit(h, s, f, q, d)
    BY <2>2, <2>3, <2>4, <2>5
  <2>7. /\ g \in Segments /\ g.to = Peer(h) /\ g.flags = f /\ g.seq = q
        /\ g.ack = s.rcv_nxt /\ g.data = d
    BY <2>6, XmitFacts
  <2>8. g.flags = {"FIN", "ACK"} /\ g.seq = Plus(s.snd_una, Len(s.tx)) /\ g.data = <<>>
    BY <2>3, <2>4, <2>5, <2>7
  <2> HIDE DEF sent, last, fin
  <2> QED BY <1>1, <2>1, <2>7, <2>8, FinSent
<1> QED BY <1>1, <1>4, <1>5

-----------------------------------------------------------------------------
(* What an operator makes of a socket: a result [s |-> ..., out |-> ...].  *)

\* A socket of h, when its peer is known to have taken pt bytes.
SockOK(h, s, w, r, pw, ended, pt) ==
    /\ s \in Sockets /\ SendOK(h, s, w) /\ RecvOK(h, s, r, pw, ended)
    /\ s.state \notin {"NONE", "CLOSED"} => w - Len(s.tx) <= pt

ResultOK(h, s, z, out, w, r, pw, ended, pt, a) ==
    /\ SockOK(h, z, w, r, pw, ended, pt)
    /\ Follows(s, z, a)
    /\ \A g \in out : SentOK(h, g, w, r + z.rx_len, pw, ended, z.state \in MayWrite)

LEMMA SameResult ==
    ASSUME NEW h, NEW s, NEW w, NEW r, NEW pw, NEW ended, NEW pt, NEW a,
           SockOK(h, s, w, r, pw, ended, pt), s.state # "NONE"
    PROVE  ResultOK(h, s, s, {}, w, r, pw, ended, pt, a)
<1>1. s.rx_len \in Int
  BY DEF SockOK, Sockets
<1> QED BY <1>1 DEF ResultOK, Follows

\* A connection may acknowledge what it has taken.
LEMMA SockAckOK ==
    ASSUME NEW h \in Hosts, NEW s, NEW w, NEW r \in Nat, NEW pw \in Nat, NEW ended, NEW pt,
           SockOK(h, s, w, r, pw, ended, pt), s.state \in Connected \cup {"SYN_RECEIVED"}
    PROVE  AckOK(h, s, r + s.rx_len, pw, ended)
<1>1. NextIs(h, s, r, pw, ended, s.state \in FinIsTaken) /\ s.rx_len \in Nat /\ s \in Sockets
  BY ConstantFacts DEF SockOK, RecvOK
<1>2. CASE s.state \in FinIsTaken
  <2>1. NextIs(h, s, r, pw, ended, TRUE)
    BY <1>1, <1>2 DEF NextIs, Bit
  <2> QED BY <1>1, <2>1, NextIsAckOK
<1>3. CASE s.state \notin FinIsTaken
  <2>1. NextIs(h, s, r, pw, ended, FALSE)
    BY <1>1, <1>3 DEF NextIs, Bit
  <2> QED BY <1>1, <2>1, NextIsAckOK
<1> QED BY <1>2, <1>3

\* A socket that is closed.
LEMMA ShutResult ==
    ASSUME NEW h, NEW s, NEW w, NEW r \in Nat, NEW pw \in Nat, NEW ended, NEW pt, NEW a,
           SockOK(h, s, w, r, pw, ended, pt), s.state # "NONE", NEW z, z = Shut(s) \/ z = Closed(s)
    PROVE  ResultOK(h, s, z, {}, w, r, pw, ended, pt, a)
<1>0. s \in Sockets /\ s.rx_len \in Int /\ s.state \in SockStates
  BY DEF SockOK, Sockets
<1>1. /\ z \in Sockets /\ z.state = "CLOSED" /\ z.rtx = FALSE /\ z.fin_queued = FALSE /\ z.ooo_len = 0
      /\ (s.rx_len > 0 => z.rcv_nxt = s.rcv_nxt) /\ z.rx = s.rx /\ z.rx_len = s.rx_len
  BY <1>0, ShutFacts, ClosedFacts
<1>2. SendOK(h, z, w)
  BY <1>1, SendOKClosed
<1>3. RecvOK(h, z, r, pw, ended)
  BY <1>0, <1>1, RecvOKClosed DEF SockOK
<1>4. z.state \notin MayWrite /\ z.state # "NONE"
  BY <1>1 DEF MayWrite, SynStates
<1> QED BY <1>0, <1>1, <1>2, <1>3, <1>4 DEF ResultOK, SockOK, Follows, TimerOK

\* tcp_output() of a socket t that has followed s.
LEMMA OutputResult ==
    ASSUME NEW h \in Hosts, NEW s \in Sockets, NEW t, NEW w \in Nat, NEW r \in Nat, NEW pw \in Nat,
           NEW ended, NEW pt, NEW a, NEW cwnd \in Nat,
           SockOK(h, t, w, r, pw, ended, pt), t.state \in Connected,
           t.state \in MayWrite => s.state \in MayWrite, t.rx_len >= s.rx_len
    PROVE  ResultOK(h, s, Output(h, t, cwnd).s, Output(h, t, cwnd).out, w, r, pw, ended, pt, a)
<1>1. PICK z : z = Output(h, t, cwnd).s
  OBVIOUS
<1>2. t \in Sockets /\ SendOK(h, t, w) /\ RecvOK(h, t, r, pw, ended)
  BY DEF SockOK
<1>3. /\ z \in Sockets /\ z.state = t.state /\ z.tx = t.tx /\ SameRecv(t, z) /\ SendOK(h, z, w)
      /\ Pending(z) => z.rtx
  BY <1>1, <1>2, OutputSocket
<1>4. RecvOK(h, z, r, pw, ended)
  BY <1>2, <1>3, RecvOKSame
<1>5. SockOK(h, z, w, r, pw, ended, pt)
  BY <1>3, <1>4 DEF SockOK
<1>6. z.rx_len = t.rx_len
  BY <1>3 DEF SameRecv
<1>7. Follows(s, z, a)
  BY <1>3, <1>6 DEF Follows, TimerOK, Connected
<1>8. AckOK(h, t, r + t.rx_len, pw, ended)
  BY SockAckOK
<1>9. ASSUME NEW g \in Output(h, t, cwnd).out
      PROVE  SentOK(h, g, w, r + z.rx_len, pw, ended, z.state \in MayWrite)
  <2>1. SentOK(h, g, w, r + t.rx_len, pw, ended, t.state \in MayWrite)
    BY <1>2, <1>8, OutputSent
  <2> QED BY <1>3, <1>6, <2>1
<1> QED BY <1>1, <1>5, <1>7, <1>9 DEF ResultOK

-----------------------------------------------------------------------------
(* Acknowledgements.                                                       *)

\* Going back to the first byte that is not acknowledged.
LEMMA RewindOK ==
    ASSUME NEW h, NEW s, NEW w, NEW r, NEW pw, NEW ended, NEW pt,
           SockOK(h, s, w, r, pw, ended, pt), s.state \in Connected, NEW z, z = Rewind(s)
    PROVE  /\ SockOK(h, z, w, r, pw, ended, pt) /\ z.state = s.state /\ z.rx_len = s.rx_len
           /\ z.tx = s.tx
<1>1. z = [s EXCEPT !.tx_sent = 0, !.fin_sent = FALSE] /\ s \in Sockets
  BY DEF Rewind, SockOK
<1>2. /\ z \in Sockets /\ z.tx_sent = 0 /\ z.fin_sent = FALSE /\ z.state = s.state /\ z.tx = s.tx
      /\ z.snd_una = s.snd_una /\ z.fin_queued = s.fin_queued /\ SameRecv(s, z)
  <2>1. PICK y : y = [s EXCEPT !.tx_sent = 0]
    OBVIOUS
  <2>2. z = [y EXCEPT !.fin_sent = FALSE]
    BY <1>1, <2>1
  <2>3. /\ y \in Sockets /\ y.tx_sent = 0 /\ y.state = s.state /\ y.tx = s.tx
        /\ y.snd_una = s.snd_una /\ y.fin_queued = s.fin_queued /\ SameRecv(s, y)
    <3>1. PICK zero \in Int : zero = 0
      OBVIOUS
    <3>2. y = [s EXCEPT !.tx_sent = zero]
      BY <2>1, <3>1
    <3>3. y \in Sockets
      BY <1>1, <3>2 DEF Sockets
    <3>4. /\ y.tx_sent = zero /\ y.state = s.state /\ y.tx = s.tx
          /\ y.snd_una = s.snd_una /\ y.fin_queued = s.fin_queued /\ SameRecv(s, y)
      BY <1>1, <3>2 DEF Sockets, SameRecv
    <3> QED BY <3>1, <3>3, <3>4
  <2>4. /\ z \in Sockets /\ z.tx_sent = y.tx_sent /\ z.fin_sent = FALSE /\ z.state = y.state /\ z.tx = y.tx
        /\ z.snd_una = y.snd_una /\ z.fin_queued = y.fin_queued /\ SameRecv(y, z)
    BY <2>2, <2>3 DEF Sockets, SameRecv
  <2> QED BY <2>3, <2>4 DEF SameRecv
<1>3. Len(s.tx) \in Nat
  BY <1>1 DEF Sockets
<1>4. SendOK(h, z, w)
  BY <1>2, <1>3 DEF SendOK, SockOK
<1>5. RecvOK(h, z, r, pw, ended)
  BY <1>2, RecvOKSame DEF SockOK
<1> QED BY <1>2, <1>4, <1>5 DEF SockOK, SameRecv

LEMMA OldAckResult ==
    ASSUME NEW h \in Hosts, NEW s, NEW w \in Nat, NEW r \in Nat, NEW pw \in Nat, NEW ended, NEW pt, NEW a,
           SockOK(h, s, w, r, pw, ended, pt), s.state \in Connected,
           NEW win \in Int, NEW pure \in BOOLEAN, NEW cwnd \in Nat, DupAcks \in Int,
           NEW z, z = OldAck(h, s, win, pure, cwnd)
    PROVE  ResultOK(h, s, z.s, z.out, w, r, pw, ended, pt, a)
<1> DEFINE again == pure /\ s.snd_max # s.snd_una /\ win = s.peer_wnd
           dup == IF again THEN Lesser(s.dup_acks + 1, DupAcks + 1) ELSE s.dup_acks
<1>1. s \in Sockets /\ dup \in Int
  <2>1. s \in Sockets
    BY DEF SockOK
  <2>2. PICK c \in Int : c = s.dup_acks
    BY <2>1 DEF Sockets
  <2>3. c + 1 \in Int /\ DupAcks + 1 \in Int
    OBVIOUS
  <2>4. Lesser(c + 1, DupAcks + 1) \in Int
    BY <2>3 DEF Lesser
  <2> QED BY <2>1, <2>2, <2>4
<1>2. PICK d \in Int : d = dup
  BY <1>1
<1>3. PICK t : t = [s EXCEPT !.peer_wnd = win, !.dup_acks = d]
  OBVIOUS
<1>4. /\ t \in Sockets /\ t.state = s.state /\ t.tx = s.tx /\ t.snd_una = s.snd_una
      /\ t.tx_sent = s.tx_sent /\ t.fin_queued = s.fin_queued /\ t.fin_sent = s.fin_sent
      /\ t.rtx = s.rtx /\ t.reset_seen = s.reset_seen /\ SameRecv(s, t)
  BY <1>1, <1>3 DEF Sockets, SameRecv
<1>5. SockOK(h, t, w, r, pw, ended, pt)
  <2>1. SendOK(h, t, w)
    BY <1>4, SendOKSame DEF SockOK
  <2>2. RecvOK(h, t, r, pw, ended)
    BY <1>4, RecvOKSame DEF SockOK
  <2> QED BY <1>4, <2>1, <2>2 DEF SockOK
<1>6. t.rx_len = s.rx_len /\ s.rx_len \in Int
  BY <1>1, <1>4 DEF SameRecv, Sockets
<1>7. ResultOK(h, s, t, {}, w, r, pw, ended, pt, a)
  BY <1>4, <1>5, <1>6 DEF ResultOK, Follows, TimerOK, Pending, Connected
<1>8. PICK u : u = Rewind(t)
  OBVIOUS
<1>9. SockOK(h, u, w, r, pw, ended, pt) /\ u.state = t.state /\ u.rx_len = t.rx_len
  BY <1>4, <1>5, <1>8, RewindOK
<1>10. ResultOK(h, s, Output(h, u, cwnd).s, Output(h, u, cwnd).out, w, r, pw, ended, pt, a)
  <2>1. u.state \in Connected /\ (u.state \in MayWrite => s.state \in MayWrite) /\ u.rx_len >= s.rx_len
    BY <1>4, <1>6, <1>9
  <2> QED BY <1>1, <1>9, <2>1, OutputResult
<1>11. ResultOK(h, s, Output(h, t, cwnd).s, Output(h, t, cwnd).out, w, r, pw, ended, pt, a)
  <2>1. t.state \in Connected /\ (t.state \in MayWrite => s.state \in MayWrite) /\ t.rx_len >= s.rx_len
    BY <1>4, <1>6
  <2> QED BY <1>1, <1>5, <2>1, OutputResult
<1>12. z = Output(h, u, cwnd) \/ z = Output(h, t, cwnd) \/ z = [s |-> t, out |-> {}]
  BY <1>2, <1>3, <1>8 DEF OldAck
<1> QED BY <1>7, <1>10, <1>11, <1>12

\* The socket an ACK of adv positions leaves, of them acked bytes, and the FIN if
\* fin is set.
Acked(s, acked, fin, win) ==
    [s EXCEPT !.dup_acks = 0, !.rtx_count = 0, !.rtx = FALSE, !.peer_wnd = win,
              !.tx = SubSeq(@, acked + 1, Len(@)),
              !.tx_sent = Max({0, @ - acked}),
              !.snd_una = Plus(@, acked + Bit(fin)),
              !.fin_queued = @ /\ ~fin, !.fin_sent = @ /\ ~fin,
              !.state = IF ~fin THEN @
                        ELSE CASE @ = "FIN_WAIT1" -> "FIN_WAIT2"
                               [] @ = "CLOSING"   -> "TIME_WAIT"
                               [] @ = "LAST_ACK"  -> "CLOSED"
                               [] OTHER           -> @]

IsAcked(s, acked, fin, t) ==
    /\ Len(t.tx) = Len(s.tx) - acked
    /\ \A i \in 1 .. Len(t.tx) : t.tx[i] = s.tx[acked + i]
    /\ t.tx_sent = IF s.tx_sent - acked >= 0 THEN s.tx_sent - acked ELSE 0
    /\ t.snd_una = Plus(s.snd_una, acked + Bit(fin))
    /\ t.fin_queued = (s.fin_queued /\ ~fin) /\ t.fin_sent = (s.fin_sent /\ ~fin)
    /\ ~fin => t.state = s.state
    /\ fin /\ s.state = "FIN_WAIT1" => t.state = "FIN_WAIT2"
    /\ fin /\ s.state = "CLOSING" => t.state = "TIME_WAIT"
    /\ fin /\ s.state = "LAST_ACK" => t.state = "CLOSED"

LEMMA AckedFacts ==
    ASSUME NEW s \in Sockets, NEW acked \in 0 .. Len(s.tx), NEW fin \in BOOLEAN, NEW win \in Int,
           NEW t, t = Acked(s, acked, fin, win)
    PROVE  t \in Sockets /\ SameRecv(s, t) /\ IsAcked(s, acked, fin, t)
<1>1. /\ s.state \in SockStates /\ s.snd_una \in Int /\ s.snd_max \in Int /\ s.rcv_nxt \in Int
      /\ s.tx \in Seq(Nat) /\ s.tx_sent \in Int /\ s.peer_wnd \in Int /\ s.rtx \in BOOLEAN
      /\ s.rtx_count \in Int /\ s.dup_acks \in Int /\ s.fin_queued \in BOOLEAN /\ s.fin_sent \in BOOLEAN
      /\ s.reset_seen \in BOOLEAN /\ s.ooo_seq \in Int /\ s.ooo_len \in Int /\ s.rx_len \in Int
      /\ s.rx \in [1..RxMax -> Nat] /\ s.unaccepted \in BOOLEAN /\ s.detached \in BOOLEAN
  BY DEF Sockets
<1>2. acked \in Nat /\ acked <= Len(s.tx) /\ Len(s.tx) \in Nat
  BY <1>1
<1>3. PICK q \in Seq(Nat) : /\ q = SubSeq(s.tx, acked + 1, Len(s.tx)) /\ Len(q) = Len(s.tx) - acked
                            /\ \A i \in 1 .. Len(q) : q[i] = s.tx[acked + i]
  <2>1. /\ SubSeq(s.tx, acked + 1, Len(s.tx)) \in Seq(Nat)
        /\ Len(SubSeq(s.tx, acked + 1, Len(s.tx))) = Len(s.tx) - acked
        /\ \A i \in 1 .. Len(s.tx) - acked : SubSeq(s.tx, acked + 1, Len(s.tx))[i] = s.tx[acked + i]
    <3>1. PICK u \in Seq(Nat), l \in Nat : u = s.tx /\ l = Len(u) /\ acked <= l
      BY <1>1, <1>2
    <3>2. acked \in Nat /\ acked <= l /\ l <= Len(u)
      BY <1>2, <3>1
    <3>3. /\ SubSeq(u, acked + 1, l) \in Seq(Nat)
          /\ Len(SubSeq(u, acked + 1, l)) = l - acked
          /\ \A i \in 1 .. l - acked : SubSeq(u, acked + 1, l)[i] = u[acked + i]
      BY <3>2, PartFacts
    <3> QED BY <3>1, <3>3
  <2> QED BY <2>1
<1>4. PICK n \in Int : n = Max({0, s.tx_sent - acked}) /\ n = IF s.tx_sent - acked >= 0 THEN s.tx_sent - acked ELSE 0
  <2>1. PICK d \in Int : d = s.tx_sent - acked
    BY <1>1, <1>2
  <2>2. Max({0, d}) = IF 0 >= d THEN 0 ELSE d
    BY MaxFacts
  <2> QED BY <2>1, <2>2
<1>5. PICK una \in Int : una = Plus(s.snd_una, acked + Bit(fin))
  <2>1. acked + Bit(fin) \in Int
    BY <1>2 DEF Bit
  <2> QED BY <1>1, <2>1, PlusInt
<1>6. PICK fq \in BOOLEAN, fs \in BOOLEAN : fq = (s.fin_queued /\ ~fin) /\ fs = (s.fin_sent /\ ~fin)
  BY <1>1
<1>7. PICK st : st = IF ~fin THEN s.state
                     ELSE CASE s.state = "FIN_WAIT1" -> "FIN_WAIT2"
                            [] s.state = "CLOSING"   -> "TIME_WAIT"
                            [] s.state = "LAST_ACK"  -> "CLOSED"
                            [] OTHER                 -> s.state
  OBVIOUS
<1>8. st \in SockStates
  BY <1>1, <1>7 DEF SockStates, Connected
<1>9. t = [s EXCEPT !.dup_acks = 0, !.rtx_count = 0, !.rtx = FALSE, !.peer_wnd = win, !.tx = q,
                    !.tx_sent = n, !.snd_una = una, !.fin_queued = fq, !.fin_sent = fs, !.state = st]
  BY <1>3, <1>4, <1>5, <1>6, <1>7 DEF Acked
<1>10. PICK zero \in Int : zero = 0
  OBVIOUS
<1>10a. PICK no \in BOOLEAN : no = FALSE
  OBVIOUS
<1>11. PICK u : u = [s EXCEPT !.dup_acks = zero, !.rtx_count = zero, !.rtx = no, !.peer_wnd = win, !.tx = q]
  OBVIOUS
<1>11a. /\ u \in Sockets /\ u.tx = q /\ SameRecv(s, u)
  BY <1>11 DEF Sockets, SameRecv
<1>11b. PICK v : v = [u EXCEPT !.tx_sent = n, !.snd_una = una, !.fin_queued = fq, !.fin_sent = fs]
  OBVIOUS
<1>11c. /\ v \in Sockets /\ v.tx = u.tx /\ SameRecv(u, v)
        /\ v.tx_sent = n /\ v.snd_una = una /\ v.fin_queued = fq /\ v.fin_sent = fs
  BY <1>11a, <1>11b DEF Sockets, SameRecv
<1>11d. t = [v EXCEPT !.state = st]
  BY <1>9, <1>10, <1>10a, <1>11, <1>11b
<1>11e. /\ t \in Sockets /\ t.tx = v.tx /\ SameRecv(v, t) /\ t.state = st
        /\ t.tx_sent = v.tx_sent /\ t.snd_una = v.snd_una /\ t.fin_queued = v.fin_queued
        /\ t.fin_sent = v.fin_sent
  BY <1>8, <1>11c, <1>11d DEF Sockets, SameRecv
<1>12. /\ t \in Sockets /\ SameRecv(s, t) /\ t.state = st
       /\ t.tx = q /\ t.tx_sent = n /\ t.snd_una = una /\ t.fin_queued = fq /\ t.fin_sent = fs
  BY <1>11a, <1>11c, <1>11e DEF SameRecv
<1>13. /\ ~fin => st = s.state
       /\ fin /\ s.state = "FIN_WAIT1" => st = "FIN_WAIT2"
       /\ fin /\ s.state = "CLOSING" => st = "TIME_WAIT"
       /\ fin /\ s.state = "LAST_ACK" => st = "CLOSED"
  BY <1>7
<1> QED BY <1>3, <1>4, <1>5, <1>6, <1>12, <1>13 DEF IsAcked

\* What is left of the bytes sent once the acknowledged ones are taken off the queue.
LEMMA Reduced ==
    ASSUME NEW l \in Nat, NEW a \in 0 .. l, NEW c \in 0 .. l
    PROVE  (IF c - a >= 0 THEN c - a ELSE 0) \in 0 .. l - a
OBVIOUS

LEMMA NewAckResult ==
    ASSUME NEW h \in Hosts, NEW s, NEW w \in Nat, NEW r \in Nat, NEW pw \in Nat, NEW ended, NEW pt \in Nat,
           NEW a, SockOK(h, s, w, r, pw, ended, pt), s.state \in Connected,
           NEW win \in Int, NEW cwnd \in Nat, NEW adv \in Nat, adv > 0,
           NEW k \in Nat, k = (w - Len(s.tx)) + Bit(s.state \in FinIsAcked) + adv,
           (k <= w /\ k <= pt) \/ (k = w + 1 /\ w <= pt),
           NEW z, z = NewAck(h, s, adv, win, cwnd)
    PROVE  ResultOK(h, s, z.s, z.out, w, r, pw, ended, pt, a)
<1>1. s \in Sockets /\ SendOK(h, s, w) /\ RecvOK(h, s, r, pw, ended)
  BY DEF SockOK
<1>2. s.tx \in Seq(Nat) /\ Len(s.tx) \in Nat /\ s.tx_sent \in Int /\ s.snd_una \in Int /\ Iss[h] \in Int
  BY <1>1, ConstantFacts DEF Sockets
<1>3. PICK l \in Nat : l = Len(s.tx)
  BY <1>2
<1>4. /\ l <= w /\ s.tx_sent \in 0 .. l /\ (s.fin_sent => s.fin_queued)
      /\ \A i \in 1 .. l : s.tx[i] = (w - l) + i
  BY <1>1, <1>3 DEF SendOK, Connected
<1>5. s.state \notin FinIsAcked
  <2>1. ASSUME s.state \in FinIsAcked PROVE FALSE
    <3>1. l = 0
      BY <1>1, <1>3, <2>1 DEF SendOK
    <3>2. k = w + 1 + adv
      BY <1>3, <2>1, <3>1 DEF Bit
    <3> QED BY <3>2
  <2> QED BY <2>1
<1>6. k = (w - l) + adv
  BY <1>3, <1>5 DEF Bit
<1>7. s.snd_una = Plus(Iss[h], 1 + (w - l))
  <2>1. s.snd_una = Plus(Iss[h], 1 + (w - l) + 0)
    BY <1>1, <1>3, <1>5 DEF SendOK, Bit
  <2>2. 1 + (w - l) + 0 = 1 + (w - l)
    BY <1>4
  <2> QED BY <2>1, <2>2
<1>8. PICK acked \in Nat : acked = Lesser(adv, Len(s.tx)) /\ acked = IF adv < l THEN adv ELSE l
  BY <1>3 DEF Lesser
<1>8a. PICK fin \in BOOLEAN : fin = (s.fin_sent /\ adv > acked)
  <2>1. (s.fin_sent /\ adv > acked) \in BOOLEAN
    BY <1>1 DEF Sockets
  <2> QED BY <2>1
<1>9. acked \in 0 .. l /\ acked <= l
  BY <1>8
<1>10. (~fin /\ (w - l) + acked <= pt) \/ (fin /\ acked = l /\ w <= pt /\ s.fin_sent)
  <2>1. CASE k <= w /\ k <= pt
    <3>1. adv <= l
      BY <1>4, <1>6, <2>1
    <3>2. acked = adv
      BY <1>8, <3>1
    <3>3. ~(adv > acked) /\ (w - l) + acked <= pt
      BY <1>6, <2>1, <3>2
    <3>4. ~fin
      BY <1>8a, <3>3
    <3> QED BY <3>3, <3>4
  <2>2. CASE k = w + 1 /\ w <= pt
    <3>1. adv = l + 1
      BY <1>4, <1>6, <2>2
    <3>2. acked = l
      BY <1>8, <3>1
    <3>3. (w - l) + acked = w
      BY <1>4, <3>2
    <3>4. CASE fin
      BY <1>8a, <2>2, <3>2, <3>4
    <3>5. CASE ~fin
      BY <2>2, <3>3, <3>5
    <3> QED BY <3>4, <3>5
  <2> QED BY <2>1, <2>2
<1>11. PICK t : t = Acked(s, acked, fin, win)
  OBVIOUS
<1>12. z = IF t.state = "CLOSED" THEN Quiet(Shut(t)) ELSE Output(h, t, cwnd)
  <2>1. z = LET u == Acked(s, Lesser(adv, Len(s.tx)), s.fin_sent /\ adv > Lesser(adv, Len(s.tx)), win)
            IN  IF u.state = "CLOSED" THEN Quiet(Shut(u)) ELSE Output(h, u, cwnd)
    BY Zenon DEF NewAck, Acked
  <2>2. t = Acked(s, Lesser(adv, Len(s.tx)), s.fin_sent /\ adv > Lesser(adv, Len(s.tx)), win)
    BY <1>8, <1>8a, <1>11
  <2> QED BY <2>1, <2>2
<1>13. /\ t \in Sockets /\ SameRecv(s, t)
       /\ Len(t.tx) = Len(s.tx) - acked
       /\ \A i \in 1 .. Len(t.tx) : t.tx[i] = s.tx[acked + i]
       /\ t.tx_sent = IF s.tx_sent - acked >= 0 THEN s.tx_sent - acked ELSE 0
       /\ t.snd_una = Plus(s.snd_una, acked + Bit(fin))
       /\ t.fin_queued = (s.fin_queued /\ ~fin) /\ t.fin_sent = (s.fin_sent /\ ~fin)
       /\ ~fin => t.state = s.state
       /\ fin /\ s.state = "FIN_WAIT1" => t.state = "FIN_WAIT2"
       /\ fin /\ s.state = "CLOSING" => t.state = "TIME_WAIT"
       /\ fin /\ s.state = "LAST_ACK" => t.state = "CLOSED"
  <2>1. acked \in 0 .. Len(s.tx)
    BY <1>3, <1>9
  <2>2. t \in Sockets /\ SameRecv(s, t) /\ IsAcked(s, acked, fin, t)
    BY <1>1, <1>11, <2>1, AckedFacts
  <2> QED BY <2>2 DEF IsAcked
<1>14. PICK n \in Nat : n = w - Len(t.tx) /\ n = (w - l) + acked /\ Len(t.tx) \in Nat /\ Len(t.tx) <= w
  <2>1. PICK q \in Int : q = Len(t.tx) /\ q = l - acked
    <3>1. l - acked \in Int /\ Len(t.tx) = l - acked
      BY <1>3, <1>13
    <3> QED BY <3>1
  <2>2. PICK m \in Int : m = (w - l) + acked
    OBVIOUS
  <2>3. m \in Nat /\ m = w - q /\ q \in Nat /\ q <= w
    BY <1>4, <1>9, <2>1, <2>2
  <2> QED BY <2>1, <2>2, <2>3
<1>15. \A i \in 1 .. Len(t.tx) : t.tx[i] = (w - Len(t.tx)) + i
  <2>1. ASSUME NEW i \in 1 .. Len(t.tx) PROVE t.tx[i] = (w - Len(t.tx)) + i
    <3>0. Len(t.tx) = l - acked
      BY <1>3, <1>13
    <3>1. acked + i \in 1 .. l
      BY <1>9, <3>0
    <3>2. t.tx[i] = s.tx[acked + i] /\ s.tx[acked + i] = (w - l) + (acked + i)
      BY <1>4, <1>13, <3>1
    <3>3. i \in Nat
      BY <1>14
    <3>4. (w - l) + (acked + i) = n + i
      <4>1. n = (w - l) + acked
        BY <1>14
      <4> QED BY <3>3, <4>1
    <3> QED BY <1>14, <3>2, <3>4
  <2> QED BY <2>1
<1>16. t.tx_sent \in 0 .. Len(t.tx) /\ (t.fin_sent => t.fin_queued)
  <2>1. PICK q \in Nat, c \in Int : q = Len(t.tx) /\ q = l - acked /\ c = s.tx_sent /\ c \in 0 .. l
    <3>1. Len(t.tx) \in Nat /\ Len(t.tx) = l - acked
      BY <1>3, <1>13, <1>14
    <3>2. s.tx_sent \in Int /\ s.tx_sent \in 0 .. l
      BY <1>2, <1>4
    <3> QED BY <3>1, <3>2
  <2>2. (IF c - acked >= 0 THEN c - acked ELSE 0) \in 0 .. l - acked
    BY <1>9, <2>1, Reduced
  <2>3. t.tx_sent \in 0 .. Len(t.tx)
    BY <1>13, <2>1, <2>2
  <2>4. t.fin_sent => t.fin_queued
    BY <1>4, <1>13
  <2> QED BY <2>3, <2>4
<1>17. t.snd_una = Plus(Iss[h], 1 + n + Bit(fin))
  <2>1. PICK i \in Int, b \in Int, c \in Int : i = Iss[h] /\ b = 1 + (w - l) /\ c = acked + Bit(fin)
    BY <1>2, <1>4, <1>9 DEF Bit
  <2>2. Plus(Plus(i, b), c) = Plus(i, b + c)
    BY PlusFacts
  <2>3. b + c = 1 + n + Bit(fin)
    <3>1. PICK e \in Int : e = Bit(fin)
      BY DEF Bit
    <3>2. n = (w - l) + acked /\ b = 1 + (w - l) /\ c = acked + e
      BY <1>14, <2>1, <3>1
    <3>3. b + c = 1 + n + e
      BY <3>2
    <3> QED BY <3>1, <3>3
  <2> QED BY <1>7, <1>13, <2>1, <2>2, <2>3
<1>18. s.fin_sent => s.state \in {"FIN_WAIT1", "CLOSING", "LAST_ACK"}
  BY <1>1, <1>4 DEF SendOK, Closes
<1>19. t.rx_len = s.rx_len /\ s.rx_len \in Int /\ t.rcv_nxt = s.rcv_nxt /\ t.rx = s.rx
  BY <1>1, <1>13 DEF SameRecv, Sockets
<1>20. CASE fin /\ s.state = "LAST_ACK"
  <2>1. PICK y : y = Shut(t)
    OBVIOUS
  <2>2. z = [s |-> y, out |-> {}]
    BY <1>12, <1>13, <1>20, <2>1 DEF Quiet
  <2>3. /\ y \in Sockets /\ y.state = "CLOSED" /\ y.rtx = FALSE /\ y.fin_queued = FALSE /\ y.ooo_len = 0
        /\ (t.rx_len > 0 => y.rcv_nxt = t.rcv_nxt) /\ y.rx = t.rx /\ y.rx_len = t.rx_len
    BY <1>13, <2>1, ShutFacts
  <2>4. SendOK(h, y, w)
    BY <2>3, SendOKClosed
  <2>5. RecvOK(h, y, r, pw, ended)
    <3>1. s.state # "NONE" /\ s.state \in SockStates
      BY <1>20 DEF SockStates, Connected
    <3> QED BY <1>1, <1>19, <2>3, <3>1, RecvOKClosed
  <2>6. y.state \notin MayWrite /\ y.state # "NONE"
    BY <2>3 DEF MayWrite, SynStates
  <2>7. ResultOK(h, s, y, {}, w, r, pw, ended, pt, a)
    BY <1>19, <2>3, <2>4, <2>5, <2>6 DEF ResultOK, SockOK, Follows, TimerOK
  <2> QED BY <2>2, <2>7
<1>21. CASE ~(fin /\ s.state = "LAST_ACK")
  <2>1. /\ t.state \in Connected /\ (t.state \in FinIsTaken <=> s.state \in FinIsTaken)
        /\ t.state \in MayWrite => s.state \in MayWrite
        /\ t.state \in FinIsAcked <=> fin
    BY <1>5, <1>10, <1>13, <1>18, <1>21 DEF Connected, FinIsTaken, FinIsAcked, MayWrite, SynStates
  <2>2. t.state # "CLOSED" /\ t.state \notin SynStates
    BY <2>1 DEF Connected, SynStates
  <2>3. z = Output(h, t, cwnd)
    BY <1>12, <2>2
  <2>4. t.fin_queued => t.state \in Closes
    BY <1>1, <1>13 DEF SendOK, Sockets
  <2>5. SendOK(h, t, w)
    <3>1. Bit(t.state \in FinIsAcked) = Bit(fin)
      BY <2>1 DEF Bit
    <3>2. t.state \in FinIsAcked => Len(t.tx) = 0
      BY <1>3, <1>10, <1>13, <2>1
    <3>3. t.snd_una = Plus(Iss[h], 1 + (w - Len(t.tx)) + Bit(t.state \in FinIsAcked))
      BY <1>14, <1>17, <3>1
    <3> QED BY <1>14, <1>15, <1>16, <2>2, <2>4, <3>2, <3>3 DEF SendOK
  <2>6. RecvOK(h, t, r, pw, ended)
    BY <1>1, <1>13, <2>1, RecvOKSame
  <2>7. w - Len(t.tx) <= pt
    BY <1>4, <1>10, <1>14
  <2>8. SockOK(h, t, w, r, pw, ended, pt)
    BY <1>13, <2>5, <2>6, <2>7 DEF SockOK
  <2>9. t.rx_len >= s.rx_len
    BY <1>19
  <2>10. ResultOK(h, s, Output(h, t, cwnd).s, Output(h, t, cwnd).out, w, r, pw, ended, pt, a)
    BY <1>1, <2>1, <2>8, <2>9, OutputResult
  <2> QED BY <2>3, <2>10
<1> QED BY <1>20, <1>21

\* An acknowledgement of a position the peer has reached, pt being what it has taken.
AckTold(h, ack, w, pt) ==
    \E k \in Nat : ack = Plus(Iss[h], 1 + k) /\ ((k <= w /\ k <= pt) \/ (k = w + 1 /\ w <= pt))

LEMMA ProcessAckResult ==
    ASSUME NEW h \in Hosts, NEW s, NEW w \in Nat, NEW r \in Nat, NEW pw \in Nat, NEW ended, NEW pt \in Nat,
           NEW a, SockOK(h, s, w, r, pw, ended, pt), s.state \in Connected, w <= StreamLen[h],
           NEW ack, NEW win \in Int, NEW pure \in BOOLEAN, NEW cwnd \in Nat, DupAcks \in Int,
           AckTold(h, ack, w, pt),
           NEW z, z = ProcessAck(h, s, ack, win, pure, cwnd)
    PROVE  ResultOK(h, s, z.s, z.out, w, r, pw, ended, pt, a)
<1>1. PICK k \in Nat : ack = Plus(Iss[h], 1 + k) /\ ((k <= w /\ k <= pt) \/ (k = w + 1 /\ w <= pt))
  BY DEF AckTold
<1>2. s \in Sockets /\ SendOK(h, s, w) /\ s.state # "NONE"
  BY DEF SockOK, Connected
<1>3. PICK l \in Nat : l = Len(s.tx) /\ l <= w
  <2>1. Len(s.tx) \in Nat
    BY <1>2 DEF Sockets
  <2>2. s.state \notin {"NONE", "CLOSED"}
    BY DEF Connected
  <2>3. Len(s.tx) <= w
    BY <1>2, <2>2 DEF SendOK
  <2> QED BY <2>1, <2>3
<1>4. PICK e \in {0, 1} : e = Bit(s.state \in FinIsAcked)
  BY DEF Bit
<1>5. PICK y \in Nat : y = (w - l) + e /\ y <= w + 1
  <2>1. (w - l) + e \in Nat /\ (w - l) + e <= w + 1
    BY <1>3, <1>4
  <2> QED BY <2>1
<1>6. s.snd_una = Plus(Iss[h], 1 + y)
  <2>1. s.snd_una = Plus(Iss[h], 1 + (w - l) + e)
    BY <1>2, <1>3, <1>4 DEF SendOK
  <2>2. 1 + (w - l) + e = 1 + y
    <3>1. e \in Int /\ y = (w - l) + e
      BY <1>4, <1>5
    <3> QED BY <3>1
  <2> QED BY <2>1, <2>2
<1>7. Minus(ack, s.snd_una) = k - y
  <2>1. PICK n \in Nat : n = StreamLen[h]
    BY ConstantFacts
  <2>2. PICK u \in Int, v \in Int : u = 1 + k /\ v = 1 + y
    OBVIOUS
  <2>3. u \in 0 .. n + 2 /\ v \in 0 .. n + 2
    BY <1>1, <1>5, <2>1, <2>2
  <2>4. Minus(Plus(Iss[h], u), Plus(Iss[h], v)) = u - v
    BY <2>1, <2>3, DistanceFacts
  <2>5. u - v = k - y
    BY <2>2
  <2> QED BY <1>1, <1>6, <2>2, <2>4, <2>5
<1>8. PICK adv \in Int : adv = k - y /\ adv = Minus(ack, s.snd_una)
  BY <1>7
<1>9. \/ z = [s |-> s, out |-> {}]
      \/ adv = 0 /\ z = OldAck(h, s, win, pure, cwnd)
      \/ adv > 0 /\ z = NewAck(h, s, adv, win, cwnd)
  <2>1. PICK m : m = Minus(s.snd_max, s.snd_una)
    OBVIOUS
  <2>2. z = CASE adv < 0 \/ adv > m -> [s |-> s, out |-> {}]
              [] ~(adv < 0 \/ adv > m) /\ adv = 0 -> OldAck(h, s, win, pure, cwnd)
              [] OTHER -> NewAck(h, s, adv, win, cwnd)
    BY <1>8, <2>1 DEF ProcessAck
  <2>3. CASE adv < 0 \/ adv > m
    BY <2>2, <2>3
  <2>4. CASE ~(adv < 0 \/ adv > m) /\ adv = 0
    BY <2>2, <2>4
  <2>5. CASE ~(adv < 0 \/ adv > m) /\ adv # 0
    BY <2>2, <2>5
  <2> QED BY <2>3, <2>4, <2>5
<1>10. CASE z = [s |-> s, out |-> {}]
  <2>1. ResultOK(h, s, s, {}, w, r, pw, ended, pt, a)
    BY <1>2, SameResult
  <2> QED BY <1>10, <2>1
<1>11. CASE adv = 0 /\ z = OldAck(h, s, win, pure, cwnd)
  BY <1>11, OldAckResult
<1>12. CASE adv > 0 /\ z = NewAck(h, s, adv, win, cwnd)
  <2>1. adv \in Nat /\ adv > 0
    BY <1>12
  <2>2. k = (w - Len(s.tx)) + Bit(s.state \in FinIsAcked) + adv
    <3>1. k = (w - l) + e + adv
      BY <1>5, <1>8
    <3> QED BY <1>3, <1>4, <3>1
  <2> QED BY <1>1, <1>12, <2>1, <2>2, NewAckResult
<1> QED BY <1>9, <1>10, <1>11, <1>12

-----------------------------------------------------------------------------
(* Data.                                                                   *)

\* The sending half and the timer of z are those of s.
SameSend(s, z) ==
    /\ z.tx = s.tx /\ z.snd_una = s.snd_una /\ z.tx_sent = s.tx_sent
    /\ z.fin_queued = s.fin_queued /\ z.fin_sent = s.fin_sent
    /\ z.rtx = s.rtx /\ z.reset_seen = s.reset_seen

\* A FIN moves a socket that has not seen one on.
FinMoves(x, y) ==
    \/ x = "ESTABLISHED" /\ y = "CLOSE_WAIT"
    \/ x = "FIN_WAIT1" /\ y = "CLOSING"
    \/ x = "FIN_WAIT2" /\ y = "TIME_WAIT"

LEMMA ReceivedResult ==
    ASSUME NEW h \in Hosts, NEW s, NEW z \in Sockets, NEW w \in Nat, NEW r \in Nat, NEW pw \in Nat, NEW ended,
           NEW pt \in Nat, NEW a, SockOK(h, s, w, r, pw, ended, pt), s.state \in Connected,
           z.state = s.state \/ FinMoves(s.state, z.state), SameSend(s, z),
           RecvOK(h, z, r, pw, ended), z.rx_len >= s.rx_len, NEW out, out \in {{}, AckNow(h, z)}
    PROVE  ResultOK(h, s, z, out, w, r, pw, ended, pt, a)
<1>1. /\ z.state \in Connected /\ (z.state \in MayWrite => s.state \in MayWrite)
      /\ z.state \notin SynStates /\ s.state \notin SynStates
  BY DEF Connected, FinMoves, MayWrite, SynStates
<1>2. z.state \in FinIsAcked <=> s.state \in FinIsAcked
  BY DEF FinMoves, FinIsAcked
<1>3. /\ z.state \notin {"NONE", "CLOSED"} /\ s.state \notin {"NONE", "CLOSED"}
  BY <1>1 DEF Connected
<1>4. SendOK(h, s, w) /\ s \in Sockets /\ w - Len(s.tx) <= pt
  BY <1>3 DEF SockOK
<1>5. SendOK(h, z, w)
  <2>1. z.fin_queued => z.state \in Closes
    BY <1>4 DEF SendOK, Closes, FinMoves, SameSend
  <2>2. (z.state \in FinIsAcked) = (s.state \in FinIsAcked)
    BY <1>2
  <2>3. z.snd_una = Plus(Iss[h], 1 + (w - Len(z.tx)) + Bit(z.state \in FinIsAcked))
    BY <1>4, <2>2 DEF SendOK, SameSend
  <2> QED BY <1>1, <1>2, <1>3, <1>4, <2>1, <2>3 DEF SendOK, SameSend
<1>6. SockOK(h, z, w, r, pw, ended, pt)
  BY <1>4, <1>5 DEF SockOK, SameSend
<1>7. Follows(s, z, a)
  <2>1. Pending(z) <=> Pending(s)
    BY <1>1 DEF Pending, SameSend, SynStates
  <2>2. TimerOK(s, a) => TimerOK(z, a)
    BY <1>3, <2>1 DEF TimerOK, SameSend
  <2> QED BY <1>1, <1>3, <2>2 DEF Follows
<1>8. AckOK(h, z, r + z.rx_len, pw, ended)
  BY <1>1, <1>6, SockAckOK
<1>9. ASSUME NEW g \in out PROVE SentOK(h, g, w, r + z.rx_len, pw, ended, z.state \in MayWrite)
  <2>1. g \in AckNow(h, z)
    OBVIOUS
  <2> QED BY <1>8, <2>1, AckNowFacts
<1> QED BY <1>6, <1>7, <1>9 DEF ResultOK

Bytes == Seq(Nat)

\* The bytes behind byte o.
BytesAt(data, o) == \A n \in 1 .. Len(data) : data[n] = o + n

\* The buffer y is x with the right bytes from position lo + 1 up to hi.
Stored(x, y, r, lo, hi) ==
    /\ y \in [1..RxMax -> Nat]
    /\ \A i \in 1 .. RxMax : x[i] = r + i => y[i] = r + i
    /\ \A i \in lo + 1 .. hi : y[i] = r + i

LEMMA StoreFacts ==
    ASSUME NEW rx \in [1..RxMax -> Nat], NEW pos \in Nat, NEW data \in Seq(Nat), NEW r \in Nat,
           pos + Len(data) <= RxMax, BytesAt(data, r + pos), NEW y, y = Store(rx, pos, data)
    PROVE  Stored(rx, y, r, pos, pos + Len(data))
<1>1. PICK l \in Nat : l = Len(data)
  OBVIOUS
<1>2. y = [i \in 1..RxMax |-> IF i \in pos + 1..pos + l THEN data[i - pos] ELSE rx[i]]
  BY <1>1 DEF Store
<1>3. ASSUME NEW i \in pos + 1 .. pos + l PROVE i \in 1 .. RxMax /\ data[i - pos] = r + i /\ i \in Int
  <2>1. PICK n \in Int : n = i - pos
    OBVIOUS
  <2>2. n \in 1 .. l /\ i \in 1 .. RxMax /\ i = pos + n
    BY <1>1, <2>1, ConstantFacts
  <2>3. data[n] = (r + pos) + n
    BY <1>1, <2>2 DEF BytesAt
  <2>4. (r + pos) + n = r + i
    BY <2>2
  <2> QED BY <2>1, <2>2, <2>3, <2>4
<1>4. \A i \in pos + 1 .. pos + l : y[i] = r + i
  BY <1>2, <1>3
<1>5. ASSUME NEW i \in 1 .. RxMax PROVE y[i] \in Nat /\ (rx[i] = r + i => y[i] = r + i)
  <2>1. CASE i \in pos + 1 .. pos + l
    <3>1. y[i] = r + i /\ i \in Nat
      BY <1>3, <1>4, <2>1
    <3> QED BY <3>1
  <2>2. CASE i \notin pos + 1 .. pos + l
    <3>1. y[i] = rx[i] /\ rx[i] \in Nat
      BY <1>2, <2>2
    <3> QED BY <3>1
  <2> QED BY <2>1, <2>2
<1>6. y \in [1..RxMax -> Nat]
  BY <1>2, <1>5
<1> QED BY <1>1, <1>4, <1>5, <1>6 DEF Stored

\* The distance of two positions of the stream of p, of which n bytes are written.
LEMMA PositionFacts ==
    ASSUME NEW p \in Hosts, NEW n \in Nat, n <= StreamLen[p], NEW x \in Nat, NEW y \in Nat,
           x <= n + 1, y <= n + 1
    PROVE  Minus(Plus(Iss[p], 1 + x), Plus(Iss[p], 1 + y)) = x - y
<1>1. PICK m \in Nat : m = StreamLen[p]
  BY ConstantFacts
<1>2. PICK u \in Int, v \in Int : u = 1 + x /\ v = 1 + y
  OBVIOUS
<1>3. u \in 0 .. m + 2 /\ v \in 0 .. m + 2
  BY <1>1, <1>2
<1>4. Minus(Plus(Iss[p], u), Plus(Iss[p], v)) = u - v
  BY <1>1, <1>3, DistanceFacts
<1>5. u - v = x - y
  BY <1>2
<1> QED BY <1>2, <1>4, <1>5

\* Bytes behind a position.
LEMMA PositionPlus ==
    ASSUME NEW p \in Hosts, NEW x \in Int, NEW n \in Int
    PROVE  Plus(Plus(Iss[p], 1 + x), n) = Plus(Iss[p], 1 + (x + n))
<1>1. PICK i \in Int, u \in Int, v \in Int : i = Iss[p] /\ u = 1 + x /\ v = 1 + (x + n)
  BY ConstantFacts
<1>2. Plus(Plus(i, u), n) = Plus(i, u + n)
  BY PlusFacts
<1>3. u + n = v
  BY <1>1
<1> QED BY <1>1, <1>2, <1>3

\* A block that starts behind byte b and is n bytes long replaces what the socket
\* remembers behind the gap.
LEMMA BlockResult ==
    ASSUME NEW h \in Hosts, NEW s \in Sockets, NEW r \in Nat, NEW pw \in Nat, NEW ended,
           RecvOK(h, s, r, pw, ended), s.state \in Connected,
           NEW q \in Int, NEW n \in Nat, NEW x \in [1..RxMax -> Nat],
           NEW b \in Nat, q = Plus(Iss[Peer(h)], 1 + b), n > 0, b > r + s.rx_len, b + n <= pw, b + n <= r + RxMax,
           \A i \in 1 .. RxMax : s.rx[i] = r + i => x[i] = r + i,
           \A i \in (b - r) + 1 .. (b - r) + n : x[i] = r + i,
           NEW z, z = [s EXCEPT !.ooo_seq = q, !.ooo_len = n, !.rx = x]
    PROVE  /\ z \in Sockets /\ z.state = s.state /\ SameSend(s, z) /\ z.rx_len = s.rx_len
           /\ RecvOK(h, z, r, pw, ended)
<1>1. n \in Int
  OBVIOUS
<1>2. z \in Sockets
  BY <1>1 DEF Sockets
<1>3. /\ z.state = s.state /\ SameSend(s, z) /\ z.rx_len = s.rx_len /\ z.rcv_nxt = s.rcv_nxt
      /\ z.rx = x /\ z.ooo_seq = q /\ z.ooo_len = n
  BY DEF Sockets, SameSend
<1>4. BlockAt(h, z, r, pw, b)
  BY <1>3 DEF BlockAt
<1>5. s.rx_len \in 0 .. RxMax /\ \A i \in 1 .. s.rx_len : s.rx[i] = r + i
  BY DEF RecvOK
<1>6. \A i \in 1 .. z.rx_len : z.rx[i] = r + i
  <2>1. ASSUME NEW i \in 1 .. s.rx_len PROVE x[i] = r + i
    <3>1. i \in 1 .. RxMax
      BY <1>5, ConstantFacts
    <3> QED BY <1>5, <3>1
  <2> QED BY <1>3, <2>1
<1>7. \A fin \in BOOLEAN : NextIs(h, s, r, pw, ended, fin) => NextIs(h, z, r, pw, ended, fin)
  BY <1>3 DEF NextIs
<1>8. NextIs(h, z, r, pw, ended, z.state \in FinIsTaken)
  <2>1. NextIs(h, s, r, pw, ended, s.state \in FinIsTaken) /\ (s.state \in FinIsTaken) \in BOOLEAN
    BY DEF RecvOK
  <2> QED BY <1>3, <1>7, <2>1
<1>9. z.state # "SYN_SENT" /\ z.state # "CLOSED" /\ z.state \in Connected
  BY <1>3 DEF Connected
<1>10. r + z.rx_len <= pw /\ z.rx_len \in 0 .. RxMax /\ z.ooo_len >= 0
  BY <1>3 DEF RecvOK
<1>11. RecvOK(h, z, r, pw, ended)
  BY <1>4, <1>6, <1>8, <1>9, <1>10 DEF RecvOK
<1> QED BY <1>2, <1>3, <1>11

\* A segment behind a gap, the bytes behind byte o of the peer's stream.
LEMMA OutOfOrderOK ==
    ASSUME NEW h \in Hosts, NEW s \in Sockets, NEW r \in Nat, NEW pw \in Nat, NEW ended,
           RecvOK(h, s, r, pw, ended), s.state \in Connected, s.state \notin FinIsTaken,
           pw <= StreamLen[Peer(h)],
           NEW seq, NEW data \in Bytes, NEW o \in Nat, seq = Plus(Iss[Peer(h)], 1 + o),
           o + Len(data) <= pw, BytesAt(data, o), o > r + s.rx_len,
           NEW z, z = OutOfOrder(s, seq, data)
    PROVE  /\ z \in Sockets /\ z.state = s.state /\ SameSend(s, z) /\ z.rx_len = s.rx_len
           /\ RecvOK(h, z, r, pw, ended)
<1>1. PICK p \in Hosts : p = Peer(h)
  BY HostFacts
<1>2. PICK l \in Nat : l = Len(data)
  BY DEF Bytes
<1>3. PICK t \in Nat : t = r + s.rx_len /\ s.rx_len \in Nat /\ t <= pw
  BY ConstantFacts DEF RecvOK
<1>4. s.rcv_nxt = Plus(Iss[p], 1 + t)
  <2>1. s.rcv_nxt = Plus(Iss[p], 1 + r + s.rx_len + 0)
    BY <1>1 DEF RecvOK, NextIs, Bit
  <2>2. PICK n \in Nat : n = s.rx_len /\ t = r + n
    BY <1>3
  <2>3. t = r + n
    BY <2>2
  <2>4. 1 + r + n + 0 = 1 + t
    BY <2>3
  <2> QED BY <2>1, <2>2, <2>4
<1>5. Minus(seq, s.rcv_nxt) = o - t
  <2>1. o <= pw + 1 /\ t <= pw + 1
    BY <1>2, <1>3
  <2>2. Minus(Plus(Iss[p], 1 + o), Plus(Iss[p], 1 + t)) = o - t
    BY <1>1, <2>1, PositionFacts
  <2> QED BY <1>1, <1>4, <2>2
<1>6. PICK pos \in Nat : pos = s.rx_len + Minus(seq, s.rcv_nxt) /\ pos = o - r
  <2>1. s.rx_len + (o - t) = o - r /\ o - r \in Nat
    BY <1>3
  <2> QED BY <1>5, <2>1
<1>7. s.rx \in [1..RxMax -> Nat] /\ Iss[p] \in Int
  BY ConstantFacts DEF Sockets
<1>7a. RxMax \in Nat
  BY ConstantFacts
<1>8. CASE l = 0 \/ pos + l > RxMax
  <2>1. z = s
    BY <1>2, <1>6, <1>8 DEF OutOfOrder
  <2> QED BY <2>1 DEF SameSend
<1>9. CASE l > 0 /\ pos + l <= RxMax
  <2>1. PICK x : x = Store(s.rx, pos, data)
    OBVIOUS
  <2>2. BytesAt(data, r + pos)
    <3>1. r + pos = o
      BY <1>6
    <3> QED BY <3>1
  <2>3. /\ x \in [1..RxMax -> Nat]
        /\ \A i \in 1 .. RxMax : s.rx[i] = r + i => x[i] = r + i
        /\ \A i \in pos + 1 .. pos + l : x[i] = r + i
    <3>1. pos + Len(data) <= RxMax
      BY <1>2, <1>9
    <3>2. PICK y \in [1..RxMax -> Nat] : y = s.rx
      BY <1>7
    <3>3. x = Store(y, pos, data)
      BY <2>1, <3>2
    <3>4. Stored(y, x, r, pos, pos + Len(data))
      BY <2>2, <3>1, <3>3, StoreFacts DEF Bytes
    <3> QED BY <1>2, <3>2, <3>4 DEF Stored
  <2>4. PICK end : end = Plus(seq, Len(data)) /\ end = Plus(Iss[p], 1 + (o + l))
    <3>1. Plus(Plus(Iss[p], 1 + o), l) = Plus(Iss[p], 1 + (o + l))
      <4>1. o \in Int /\ l \in Int
        OBVIOUS
      <4> QED BY <4>1, PositionPlus
    <3> QED BY <1>1, <1>2, <3>1
  <2>5. o + l <= r + RxMax
    BY <1>6, <1>7a, <1>9
  <2>6. CASE s.ooo_len = 0
    <3>1. z = [s EXCEPT !.ooo_seq = seq, !.ooo_len = l, !.rx = x]
      <4>1. ~(Len(data) = 0 \/ pos + Len(data) > RxMax)
        BY <1>2, <1>7a, <1>9
      <4>2. z = [s EXCEPT !.ooo_seq = seq, !.ooo_len = Len(data), !.rx = Store(@, pos, data)]
        BY <1>6, <2>6, <4>1 DEF OutOfOrder
      <4> QED BY <1>2, <2>1, <4>2
    <3>2. seq \in Int
      <4>1. 1 + o \in Int
        OBVIOUS
      <4> QED BY <1>1, <1>7, <4>1, PlusInt
    <3>3. \A i \in (o - r) + 1 .. (o - r) + l : x[i] = r + i
      BY <1>6, <2>3
    <3>4. o + l <= pw /\ l > 0
      BY <1>2, <1>9
    <3> QED BY <2>3, <2>5, <3>1, <3>2, <3>3, <3>4, BlockResult
  <2>7. CASE s.ooo_len # 0
    <3>1. PICK n \in Nat : n = s.ooo_len /\ n > 0
      <4>1. s.ooo_len \in Nat
        BY DEF RecvOK, Sockets
      <4> QED BY <2>7, <4>1
    <3>2. PICK b \in Nat : BlockAt(h, s, r, pw, b)
      BY <3>1 DEF RecvOK
    <3>3. /\ s.ooo_seq = Plus(Iss[p], 1 + b) /\ b > t /\ b + n <= pw /\ b + n <= r + RxMax
          /\ \A i \in (b - r) + 1 .. (b - r) + n : s.rx[i] = r + i
      BY <1>1, <1>3, <3>1, <3>2 DEF BlockAt
    <3>4. PICK bend : bend = Plus(s.ooo_seq, s.ooo_len) /\ bend = Plus(Iss[p], 1 + (b + n))
      <4>1. Plus(Plus(Iss[p], 1 + b), n) = Plus(Iss[p], 1 + (b + n))
        BY PositionPlus
      <4> QED BY <3>1, <3>3, <4>1
    <3>5. /\ o <= pw + 1 /\ b <= pw + 1 /\ o + l <= pw + 1 /\ b + n <= pw + 1
      BY <1>2, <3>3
    <3>6. PICK oe \in Nat, be \in Nat : oe = o + l /\ be = b + n
      OBVIOUS
    <3>7. /\ Minus(seq, s.ooo_seq) = o - b /\ Minus(seq, bend) = o - be
          /\ Minus(end, s.ooo_seq) = oe - b /\ Minus(end, bend) = oe - be
      <4>1. end = Plus(Iss[p], 1 + oe) /\ bend = Plus(Iss[p], 1 + be) /\ oe <= pw + 1 /\ be <= pw + 1
        BY <2>4, <3>4, <3>5, <3>6
      <4>2. seq = Plus(Iss[p], 1 + o) /\ s.ooo_seq = Plus(Iss[p], 1 + b) /\ pw <= StreamLen[p]
        BY <1>1, <3>3
      <4>3. o <= pw + 1 /\ b <= pw + 1
        BY <3>5
      <4>4. Minus(seq, s.ooo_seq) = o - b
        <5>1. Minus(Plus(Iss[p], 1 + o), Plus(Iss[p], 1 + b)) = o - b
          <6>1. o <= pw + 1 /\ b <= pw + 1 /\ pw <= StreamLen[p]
            BY <4>2, <4>3
          <6> QED BY <6>1, PositionFacts
        <5> QED BY <4>2, <5>1
      <4>5. Minus(seq, bend) = o - be
        <5>1. Minus(Plus(Iss[p], 1 + o), Plus(Iss[p], 1 + be)) = o - be
          <6>1. PICK u \in Nat, v \in Nat : u = o /\ v = be
            OBVIOUS
          <6>2. u <= pw + 1 /\ v <= pw + 1 /\ pw <= StreamLen[p]
            BY <4>1, <4>2, <4>3, <6>1
          <6>3. Minus(Plus(Iss[p], 1 + u), Plus(Iss[p], 1 + v)) = u - v
            BY <6>2, PositionFacts
          <6> QED BY <6>1, <6>3
        <5> QED BY <4>1, <4>2, <5>1
      <4>6. Minus(end, s.ooo_seq) = oe - b
        <5>1. Minus(Plus(Iss[p], 1 + oe), Plus(Iss[p], 1 + b)) = oe - b
          <6>1. oe <= pw + 1 /\ b <= pw + 1 /\ pw <= StreamLen[p]
            BY <4>1, <4>2, <4>3
          <6> QED BY <6>1, PositionFacts
        <5> QED BY <4>1, <4>2, <5>1
      <4>7. Minus(end, bend) = oe - be
        <5>1. Minus(Plus(Iss[p], 1 + oe), Plus(Iss[p], 1 + be)) = oe - be
          <6>1. oe <= pw + 1 /\ be <= pw + 1 /\ pw <= StreamLen[p]
            BY <4>1, <4>2
          <6> QED BY <6>1, PositionFacts
        <5> QED BY <4>1, <5>1
      <4> QED BY <4>4, <4>5, <4>6, <4>7
    <3>8. CASE o - be <= 0 /\ oe - b >= 0
      <4>1. PICK c \in Nat, e \in Nat : c = (IF o < b THEN o ELSE b) /\ e = (IF oe > be THEN oe ELSE be)
        OBVIOUS
      <4>2. PICK low : /\ low = (IF Minus(seq, s.ooo_seq) < 0 THEN seq ELSE s.ooo_seq)
                       /\ low = Plus(Iss[p], 1 + c)
        <5>1. CASE o < b
          <6>1. Minus(seq, s.ooo_seq) < 0 /\ c = o
            BY <3>7, <4>1, <5>1
          <6> QED BY <1>1, <6>1
        <5>2. CASE ~(o < b)
          <6>1. ~(Minus(seq, s.ooo_seq) < 0) /\ c = b
            BY <3>7, <4>1, <5>2
          <6> QED BY <3>3, <6>1
        <5> QED BY <5>1, <5>2
      <4>3. Later(end, bend) = Plus(Iss[p], 1 + e)
        <5>1. CASE oe > be
          <6>1. Minus(end, bend) > 0 /\ e = oe
            BY <3>7, <4>1, <5>1
          <6> QED BY <2>4, <3>6, <6>1 DEF Later
        <5>2. CASE ~(oe > be)
          <6>1. ~(Minus(end, bend) > 0) /\ e = be
            BY <3>7, <4>1, <5>2
          <6> QED BY <3>4, <3>6, <6>1 DEF Later
        <5> QED BY <5>1, <5>2
      <4>4. c <= pw /\ e <= pw /\ c < e /\ c > t /\ e <= r + RxMax
        <5>1. /\ oe = o + l /\ be = b + n /\ l > 0 /\ n > 0 /\ oe <= pw /\ be <= pw
              /\ o > t /\ b > t /\ oe <= r + RxMax /\ be <= r + RxMax
          BY <1>2, <1>3, <1>9, <2>5, <3>1, <3>3, <3>6
        <5> QED BY <1>7a, <4>1, <5>1
      <4>5. Minus(Later(end, bend), low) = e - c
        <5>1. e <= pw + 1 /\ c <= pw + 1 /\ pw <= StreamLen[p]
          BY <1>1, <4>4
        <5>2. Minus(Plus(Iss[p], 1 + e), Plus(Iss[p], 1 + c)) = e - c
          BY <5>1, PositionFacts
        <5> QED BY <4>2, <4>3, <5>2
      <4>6. PICK m \in Nat : m = e - c /\ m > 0
        BY <4>4
      <4>7. z = [s EXCEPT !.ooo_seq = low, !.ooo_len = m, !.rx = x]
        <5>1. Minus(seq, bend) <= 0 /\ Minus(end, s.ooo_seq) >= 0
          BY <3>7, <3>8
        <5>2. ~(Len(data) = 0 \/ pos + Len(data) > RxMax)
          BY <1>2, <1>7a, <1>9
        <5>3. z = [s EXCEPT !.ooo_seq = low, !.ooo_len = Minus(Later(end, bend), low), !.rx = Store(@, pos, data)]
          BY <1>6, <2>4, <2>7, <3>4, <4>2, <5>1, <5>2 DEF OutOfOrder
        <5> QED BY <2>1, <4>5, <4>6, <5>3
      <4>8. low \in Int
        <5>1. 1 + c \in Int
          OBVIOUS
        <5> QED BY <1>7, <4>2, <5>1, PlusInt
      <4>9. \A i \in (c - r) + 1 .. (c - r) + m : x[i] = r + i
        <5>1. ASSUME NEW i \in (c - r) + 1 .. (c - r) + m PROVE x[i] = r + i
          <6>1. i \in Int /\ i > c - r /\ i <= e - r /\ i \in 1 .. RxMax
            BY <1>3, <4>4, <4>6, ConstantFacts
          <6>2. CASE i > o - r /\ i <= oe - r
            <7>1. i \in pos + 1 .. pos + l
              BY <1>6, <3>6, <6>1, <6>2
            <7> QED BY <2>3, <7>1
          <6>3. CASE i > b - r /\ i <= be - r
            <7>1. i \in (b - r) + 1 .. (b - r) + n
              <8>1. i \in Int /\ b \in Int /\ n \in Int /\ r \in Int
                BY <6>1
              <8>2. i > b - r /\ i <= (b + n) - r
                BY <3>6, <6>3
              <8> QED BY <8>1, <8>2, BlockRange
            <7> QED BY <2>3, <3>3, <6>1, <7>1
          <6> QED BY <3>8, <4>1, <6>1, <6>2, <6>3
        <5> QED BY <5>1
      <4>10. c > r + s.rx_len /\ c + m <= pw /\ c + m <= r + RxMax
        BY <1>3, <4>4, <4>6
      <4>11. low = Plus(Iss[Peer(h)], 1 + c)
        BY <1>1, <4>2
      <4>12. m > 0 /\ c > r + s.rx_len
        BY <4>6, <4>10
      <4> HIDE <3>8
      <4> QED BY <2>3, <4>7, <4>8, <4>9, <4>10, <4>11, <4>12, BlockResult
    <3>9. CASE ~(o - be <= 0 /\ oe - b >= 0)
      <4>1. ~(Minus(seq, bend) <= 0 /\ Minus(end, s.ooo_seq) >= 0)
        BY <3>7, <3>9
      <4>2. z = s
        BY <1>2, <1>6, <1>9, <2>4, <2>7, <3>4, <4>1 DEF OutOfOrder
      <4> QED BY <4>2 DEF SameSend
    <3> QED BY <3>8, <3>9
  <2> QED BY <2>6, <2>7
<1>10. (l = 0 \/ pos + l > RxMax) \/ (l > 0 /\ pos + l <= RxMax)
  BY <1>7a
<1> QED BY <1>8, <1>9, <1>10

\* A receiving half in the middle of tcp_input(): bytes in order have been added, and
\* the block may have been reached.
Loose(h, y, r, pw) ==
    /\ y.rx_len \in 0 .. RxMax
    /\ r + y.rx_len <= pw
    /\ \A i \in 1 .. y.rx_len : y.rx[i] = r + i
    /\ y.rcv_nxt = Plus(Iss[Peer(h)], 1 + (r + y.rx_len))
    /\ y.ooo_len >= 0
    /\ y.ooo_len > 0 => \E b \in Nat :
          /\ y.ooo_seq = Plus(Iss[Peer(h)], 1 + b)
          /\ b >= r /\ b + y.ooo_len <= pw /\ b + y.ooo_len <= r + RxMax
          /\ \A i \in (b - r) + 1 .. (b - r) + y.ooo_len : y.rx[i] = r + i

\* What is received in order when there is no block, or one that has not been reached.
LEMMA LooseOK ==
    ASSUME NEW h \in Hosts, NEW y, NEW r \in Nat, NEW pw \in Nat, NEW ended, Loose(h, y, r, pw),
           y.state \in Connected, y.state \notin FinIsTaken,
           y.ooo_len > 0 => \A b \in Nat : y.ooo_seq = Plus(Iss[Peer(h)], 1 + b) /\ b <= pw => b > r + y.rx_len
    PROVE  RecvOK(h, y, r, pw, ended)
<1>1. NextIs(h, y, r, pw, ended, y.state \in FinIsTaken)
  <2>1. PICK n \in Nat : n = y.rx_len
    BY ConstantFacts DEF Loose
  <2>2. 1 + (r + n) = 1 + r + n + 0
    OBVIOUS
  <2>3. y.rcv_nxt = Plus(Iss[Peer(h)], 1 + r + y.rx_len + 0)
    BY <2>1, <2>2 DEF Loose
  <2> QED BY <2>3 DEF NextIs, Bit
<1>2. ASSUME y.ooo_len > 0 PROVE \E b \in Nat : BlockAt(h, y, r, pw, b)
  <2>1. PICK b \in Nat :
          /\ y.ooo_seq = Plus(Iss[Peer(h)], 1 + b)
          /\ b >= r /\ b + y.ooo_len <= pw /\ b + y.ooo_len <= r + RxMax
          /\ \A i \in (b - r) + 1 .. (b - r) + y.ooo_len : y.rx[i] = r + i
    BY <1>2 DEF Loose
  <2>2. b > r + y.rx_len
    <3>1. CASE b <= pw
      BY <1>2, <2>1, <3>1
    <3>2. CASE b > pw
      <4>1. r + y.rx_len <= pw /\ y.rx_len \in Int
        BY ConstantFacts DEF Loose
      <4> QED BY <3>2, <4>1
    <3> QED BY <3>1, <3>2
  <2> QED BY <2>1, <2>2 DEF BlockAt
<1>3. y.state # "SYN_SENT" /\ y.state # "CLOSED"
  BY DEF Connected
<1> QED BY <1>1, <1>2, <1>3 DEF RecvOK, Loose

LEMMA JoinOK ==
    ASSUME NEW h \in Hosts, NEW y \in Sockets, NEW r \in Nat, NEW pw \in Nat, NEW ended, Loose(h, y, r, pw),
           y.state \in Connected, y.state \notin FinIsTaken, pw <= StreamLen[Peer(h)],
           NEW z, z = Join(y)
    PROVE  /\ z \in Sockets /\ z.state = y.state /\ SameSend(y, z) /\ z.rx_len >= y.rx_len
           /\ RecvOK(h, z, r, pw, ended)
<1>1. PICK p \in Hosts : p = Peer(h)
  BY HostFacts
<1>2. PICK n \in Nat : n = y.rx_len
  BY ConstantFacts DEF Loose
<1>3. PICK t \in Nat : t = r + n
  OBVIOUS
<1>4. y.rcv_nxt = Plus(Iss[p], 1 + t) /\ t <= pw
  BY <1>1, <1>2, <1>3 DEF Loose
<1>5. CASE ~(y.ooo_len > 0)
  <2>1. z = y
    BY <1>5 DEF Join
  <2>2. RecvOK(h, y, r, pw, ended)
    BY <1>5, LooseOK
  <2> QED BY <1>2, <2>1, <2>2 DEF SameSend
<1>6. CASE y.ooo_len > 0
  <2>1. PICK l \in Nat : l = y.ooo_len
    BY <1>6 DEF Sockets
  <2>2. PICK b \in Nat :
          /\ y.ooo_seq = Plus(Iss[Peer(h)], 1 + b)
          /\ b >= r /\ b + y.ooo_len <= pw /\ b + y.ooo_len <= r + RxMax
          /\ \A i \in (b - r) + 1 .. (b - r) + y.ooo_len : y.rx[i] = r + i
    BY <1>6 DEF Loose
  <2>3. /\ b >= r /\ b + l <= pw /\ b + l <= r + RxMax
        /\ \A i \in (b - r) + 1 .. (b - r) + l : y.rx[i] = r + i
    BY <2>1, <2>2
  <2>4. ASSUME NEW c \in Nat, y.ooo_seq = Plus(Iss[p], 1 + c), c <= pw
        PROVE  Minus(y.ooo_seq, y.rcv_nxt) = c - t /\ Minus(y.rcv_nxt, y.ooo_seq) = t - c
    <3>1. c <= pw + 1 /\ t <= pw + 1 /\ pw <= StreamLen[p]
      BY <1>1, <1>4, <2>4
    <3>2. /\ Minus(Plus(Iss[p], 1 + c), Plus(Iss[p], 1 + t)) = c - t
          /\ Minus(Plus(Iss[p], 1 + t), Plus(Iss[p], 1 + c)) = t - c
      BY <3>1, PositionFacts
    <3> QED BY <1>4, <2>4, <3>2
  <2>5. Minus(y.ooo_seq, y.rcv_nxt) = b - t /\ Minus(y.rcv_nxt, y.ooo_seq) = t - b
    <3>1. b <= pw
      BY <2>3
    <3> QED BY <1>1, <2>2, <2>4, <3>1
  <2>6. CASE ~(b - t <= 0)
    <3>1. z = y
      BY <2>5, <2>6 DEF Join
    <3>2. \A c \in Nat : y.ooo_seq = Plus(Iss[Peer(h)], 1 + c) /\ c <= pw => c > r + y.rx_len
      <4>1. ASSUME NEW c \in Nat, y.ooo_seq = Plus(Iss[p], 1 + c), c <= pw PROVE c > r + n
        <5>1. c - t = b - t
          BY <2>4, <2>5, <4>1
        <5> QED BY <1>3, <2>6, <5>1
      <4> QED BY <1>1, <1>2, <4>1
    <3>3. RecvOK(h, y, r, pw, ended)
      BY <3>2, LooseOK
    <3> QED BY <1>2, <3>1, <3>3 DEF SameSend
  <2>7. CASE b - t <= 0
    <3>1. PICK f \in Nat : f = Max({0, y.ooo_len - Minus(y.rcv_nxt, y.ooo_seq)})
                           /\ f = (IF l - (t - b) >= 0 THEN l - (t - b) ELSE 0)
      <4>1. PICK d \in Int : d = l - (t - b)
        OBVIOUS
      <4>2. Max({0, d}) = IF 0 >= d THEN 0 ELSE d
        BY MaxFacts
      <4>3. y.ooo_len - Minus(y.rcv_nxt, y.ooo_seq) = d
        BY <2>1, <2>5, <4>1
      <4>4. PICK e \in Nat : e = (IF 0 >= d THEN 0 ELSE d) /\ e = (IF d >= 0 THEN d ELSE 0)
        OBVIOUS
      <4> QED BY <4>1, <4>2, <4>3, <4>4
    <3>2. PICK m \in Int, v \in Int : m = y.rx_len + f /\ m = n + f /\ v = Plus(y.rcv_nxt, f)
      <4>1. y.rcv_nxt \in Int /\ n + f \in Int /\ f \in Int
        BY DEF Sockets
      <4>2. PICK v \in Int : v = Plus(y.rcv_nxt, f)
        BY <4>1, PlusInt
      <4>3. y.rx_len + f = n + f
        BY <1>2
      <4> QED BY <4>1, <4>2, <4>3
    <3>3. z = [y EXCEPT !.ooo_len = 0, !.rx_len = m, !.rcv_nxt = v]
      <4>1. y.ooo_len > 0 /\ Minus(y.ooo_seq, y.rcv_nxt) <= 0
        BY <1>6, <2>5, <2>7
      <4> QED BY <3>1, <3>2, <4>1 DEF Join
    <3>4. 0 \in Int
      OBVIOUS
    <3>5. z \in Sockets
      <4>1. PICK zero \in Int : zero = 0
        BY <3>4
      <4>2. z = [y EXCEPT !.ooo_len = zero, !.rx_len = m, !.rcv_nxt = v]
        BY <3>3, <4>1
      <4> QED BY <4>2 DEF Sockets
    <3>6. /\ z.state = y.state /\ SameSend(y, z) /\ z.rx_len = m /\ z.rcv_nxt = v
          /\ z.rx = y.rx /\ z.ooo_len = 0
      BY <3>3 DEF Sockets, SameSend
    <3>7. m \in Nat /\ m >= n /\ r + m <= pw /\ m <= RxMax /\ (m = n \/ r + m = b + l)
      <4>1. m = n + f /\ t = r + n /\ t <= pw /\ n <= RxMax /\ RxMax \in Nat
        BY <1>2, <1>3, <1>4, <3>2, ConstantFacts DEF Loose
      <4>2. f = 0 \/ (f = l - (t - b) /\ f >= 0)
        BY <3>1
      <4>3. CASE f = 0
        BY <4>1, <4>3
      <4>4. CASE f = l - (t - b) /\ f >= 0
        <5>1. r + m = b + l
          BY <4>1, <4>4
        <5> QED BY <2>3, <4>1, <4>4, <5>1
      <4> QED BY <4>2, <4>3, <4>4
    <3>8. \A i \in 1 .. m : y.rx[i] = r + i
      <4>1. ASSUME NEW i \in 1 .. m PROVE y.rx[i] = r + i
        <5>1. i \in Nat /\ i >= 1 /\ i <= m
          BY <3>7
        <5>2. CASE i <= n
          <6>1. i \in 1 .. n
            BY <5>1, <5>2
          <6>2. \A j \in 1 .. n : y.rx[j] = r + j
            BY <1>2 DEF Loose
          <6> QED BY <6>1, <6>2
        <5>3. CASE i > n
          <6>1. i > b - r /\ i <= (b - r) + l
            BY <1>3, <2>7, <3>7, <5>1, <5>3
          <6>2. i \in (b - r) + 1 .. (b - r) + l
            BY <5>1, <6>1
          <6> QED BY <2>3, <6>2
        <5> QED BY <5>1, <5>2, <5>3
      <4> QED BY <4>1
    <3>9. v = Plus(Iss[p], 1 + (r + m))
      <4>1. Plus(Plus(Iss[p], 1 + t), f) = Plus(Iss[p], 1 + (t + f))
        <5>1. t \in Int /\ f \in Int
          OBVIOUS
        <5> QED BY <5>1, PositionPlus
      <4>2. t + f = r + m
        <5>1. t = r + n /\ m = n + f
          BY <1>3, <3>2
        <5> QED BY <5>1
      <4>3. v = Plus(Plus(Iss[p], 1 + t), f)
        BY <1>4, <3>2
      <4> QED BY <4>1, <4>2, <4>3
    <3>10. Loose(h, z, r, pw)
      <4>1. m \in 0 .. RxMax
        BY <3>7, ConstantFacts
      <4> QED BY <1>1, <3>6, <3>7, <3>8, <3>9, <4>1 DEF Loose
    <3>11. RecvOK(h, z, r, pw, ended)
      BY <3>6, <3>10, LooseOK
    <3> QED BY <1>2, <3>5, <3>6, <3>7, <3>11
  <2> QED BY <2>6, <2>7
<1> QED BY <1>5, <1>6

\* The bytes of a segment that starts at or before the next one expected: those from
\* the skip-th on are taken as far as they fit.
LEMMA InOrderOK ==
    ASSUME NEW h \in Hosts, NEW s \in Sockets, NEW r \in Nat, NEW pw \in Nat, NEW ended,
           RecvOK(h, s, r, pw, ended), s.state \in {"ESTABLISHED", "FIN_WAIT1", "FIN_WAIT2"},
           pw <= StreamLen[Peer(h)],
           NEW data \in Bytes, NEW o \in Nat, o + Len(data) <= pw, BytesAt(data, o),
           NEW skip \in Nat, o + skip = r + s.rx_len, skip <= Len(data),
           NEW fin \in BOOLEAN, fin => o = pw /\ ended,
           NEW z, z = InOrder(s, skip, data, fin)
    PROVE  /\ z \in Sockets /\ SameSend(s, z) /\ z.rx_len >= s.rx_len
           /\ z.state = s.state \/ FinMoves(s.state, z.state)
           /\ RecvOK(h, z, r, pw, ended)
<1>1. PICK p \in Hosts : p = Peer(h)
  BY HostFacts
<1>2. PICK l \in Nat : l = Len(data)
  BY DEF Bytes
<1>3. PICK n \in Nat : n = s.rx_len /\ n \in 0 .. RxMax
  BY ConstantFacts DEF RecvOK
<1>4. o + l <= pw /\ skip <= l /\ o + skip = r + n /\ RxMax \in Nat /\ n <= RxMax /\ r + n <= pw
  BY <1>2, <1>3, ConstantFacts DEF RecvOK
<1>5. s.state \in Connected /\ s.state \notin FinIsTaken
  BY DEF Connected, FinIsTaken
<1>6. s.rcv_nxt = Plus(Iss[p], 1 + (r + n))
  <2>1. s.rcv_nxt = Plus(Iss[p], 1 + r + n + 0)
    BY <1>1, <1>3, <1>5 DEF RecvOK, NextIs, Bit
  <2>2. 1 + r + n + 0 = 1 + (r + n)
    OBVIOUS
  <2> QED BY <2>1, <2>2
<1>7. PICK take \in Nat : /\ take = Lesser(Len(data) - skip, RxMax - s.rx_len)
                          /\ take <= l - skip /\ take <= RxMax - n
  <2>1. PICK x \in Nat, y \in Nat : x = l - skip /\ y = RxMax - n
    BY <1>4
  <2>2. Lesser(x, y) \in Nat /\ Lesser(x, y) <= x /\ Lesser(x, y) <= y
    BY DEF Lesser
  <2> QED BY <1>2, <1>3, <2>1, <2>2
<1>8. PICK d \in Bytes : d = SubSeq(data, skip + 1, skip + take) /\ Len(d) = take /\ BytesAt(d, r + n)
  <2>1. PICK q \in Seq(Nat), e \in Nat : q = data /\ e = skip + take
    BY DEF Bytes
  <2>2. skip <= e /\ e <= Len(q) /\ e - skip = take
    BY <1>2, <1>4, <1>7, <2>1
  <2>3. PICK f : f = SubSeq(q, skip + 1, e)
    OBVIOUS
  <2>4. f \in Seq(Nat) /\ Len(f) = e - skip /\ \A i \in 1 .. e - skip : f[i] = q[skip + i]
    <3>1. f \in Seq(Nat) /\ PartOf(f, q, skip, e)
      BY <2>2, <2>3, PartIsPart
    <3> QED BY <3>1 DEF PartOf
  <2>5. Len(f) = take /\ \A i \in 1 .. take : f[i] = q[skip + i]
    BY <2>2, <2>4
  <2>6. ASSUME NEW i \in 1 .. take PROVE f[i] = (r + n) + i
    <3>1. i \in Nat /\ skip + i \in 1 .. l
      BY <1>4, <1>7
    <3>2. data[skip + i] = o + (skip + i)
      BY <1>2, <3>1 DEF BytesAt
    <3>3. o + (skip + i) = (r + n) + i
      BY <1>4, <3>1
    <3>4. f[i] = q[skip + i]
      BY <2>5
    <3> QED BY <2>1, <3>2, <3>3, <3>4
  <2>7. BytesAt(f, r + n)
    BY <2>5, <2>6 DEF BytesAt
  <2>8. f \in Bytes /\ f = SubSeq(data, skip + 1, skip + take)
    BY <2>1, <2>3, <2>4 DEF Bytes
  <2> QED BY <2>5, <2>7, <2>8
<1>9. PICK x : x = Store(s.rx, s.rx_len, d) /\ Stored(s.rx, x, r, n, n + take)
  <2>1. PICK u \in [1..RxMax -> Nat], q \in Seq(Nat) : u = s.rx /\ q = d
    BY DEF Sockets, Bytes
  <2>2. n + Len(q) <= RxMax /\ BytesAt(q, r + n) /\ Len(q) = take
    BY <1>4, <1>7, <1>8, <2>1
  <2>3. PICK y : y = Store(u, n, q)
    OBVIOUS
  <2>4. Stored(u, y, r, n, n + Len(q))
    BY <2>2, <2>3, StoreFacts
  <2> QED BY <1>3, <2>1, <2>2, <2>3, <2>4
<1>10. PICK m \in Nat : m = s.rx_len + take /\ m = n + take
  BY <1>3
<1>11. PICK v \in Int : v = Plus(s.rcv_nxt, take) /\ v = Plus(Iss[p], 1 + (r + m))
  <2>1. r + n \in Int /\ take \in Int /\ s.rcv_nxt \in Int
    BY DEF Sockets
  <2>2. PICK b \in Int : b = r + n
    BY <2>1
  <2>3. Plus(Plus(Iss[p], 1 + b), take) = Plus(Iss[p], 1 + (b + take))
    BY <2>1, PositionPlus
  <2>4. b + take = r + m
    <3>1. m = n + take
      BY <1>10
    <3> QED BY <2>2, <3>1
  <2>5. Plus(s.rcv_nxt, take) = Plus(Iss[p], 1 + (r + m))
    BY <1>6, <2>2, <2>3, <2>4
  <2> QED BY <2>1, <2>5, PlusInt
<1>12. PICK y : y = [s EXCEPT !.rx = x, !.rx_len = m, !.rcv_nxt = v]
  OBVIOUS
<1>13. y \in Sockets
  <2>1. x \in [1..RxMax -> Nat] /\ m \in Int
    BY <1>9 DEF Stored
  <2> QED BY <1>12, <2>1 DEF Sockets
<1>14. /\ y.state = s.state /\ SameSend(s, y) /\ y.rx_len = m /\ y.rcv_nxt = v
       /\ y.rx = x /\ y.ooo_len = s.ooo_len /\ y.ooo_seq = s.ooo_seq
  BY <1>12 DEF Sockets, SameSend
<1>15. Loose(h, y, r, pw)
  <2>1. m \in 0 .. RxMax /\ r + m <= pw
    <3>1. n + take \in 0 .. RxMax
      BY <1>4, <1>7
    <3>2. r + (n + take) <= pw
      BY <1>4, <1>7
    <3>3. m = n + take
      BY <1>10
    <3> QED BY <3>1, <3>2, <3>3
  <2>2. ASSUME NEW i \in 1 .. m PROVE x[i] = r + i
    <3>1. i \in Nat /\ i >= 1 /\ i <= n + take /\ i \in 1 .. RxMax
      BY <1>4, <1>10, <2>1
    <3>2. CASE i <= n
      <4>1. i \in 1 .. n
        BY <3>1, <3>2
      <4>2. s.rx[i] = r + i
        BY <1>3, <4>1 DEF RecvOK
      <4> QED BY <1>9, <3>1, <4>2 DEF Stored
    <3>3. CASE i > n
      <4>1. i \in n + 1 .. n + take
        BY <3>1, <3>3
      <4> QED BY <1>9, <4>1 DEF Stored
    <3> QED BY <3>1, <3>2, <3>3
  <2>3. s.ooo_len >= 0 /\ s.ooo_len \in Int
    BY DEF RecvOK, Sockets
  <2>4. ASSUME s.ooo_len > 0
        PROVE  \E b \in Nat :
                  /\ s.ooo_seq = Plus(Iss[Peer(h)], 1 + b)
                  /\ b >= r /\ b + s.ooo_len <= pw /\ b + s.ooo_len <= r + RxMax
                  /\ \A i \in (b - r) + 1 .. (b - r) + s.ooo_len : x[i] = r + i
    <3>1. PICK b \in Nat : BlockAt(h, s, r, pw, b)
      BY <2>4 DEF RecvOK
    <3>2. PICK c \in Nat : c = s.ooo_len
      BY <2>3
    <3>3. b > r + n /\ b + c <= r + RxMax
      BY <1>3, <3>1, <3>2 DEF BlockAt
    <3>4. ASSUME NEW i \in (b - r) + 1 .. (b - r) + c PROVE x[i] = r + i
      <4>1. i \in 1 .. RxMax
        BY <1>4, <3>3
      <4>2. s.rx[i] = r + i
        BY <3>1, <3>2 DEF BlockAt
      <4> QED BY <1>9, <4>1, <4>2 DEF Stored
    <3>5. b >= r
      BY <3>3
    <3> QED BY <3>1, <3>2, <3>4, <3>5 DEF BlockAt
  <2> QED BY <1>1, <1>11, <1>14, <2>1, <2>2, <2>3, <2>4 DEF Loose
<1>16. PICK t : t = Join(y)
  OBVIOUS
<1>17. /\ t \in Sockets /\ t.state = y.state /\ SameSend(y, t) /\ t.rx_len >= y.rx_len
       /\ RecvOK(h, t, r, pw, ended)
  BY <1>5, <1>13, <1>14, <1>15, <1>16, JoinOK
<1>18. t.state = s.state /\ SameSend(s, t) /\ t.rx_len >= m /\ m >= n /\ t.rx_len \in Int
  BY <1>10, <1>14, <1>17 DEF SameSend, Sockets
<1>19. PICK all \in BOOLEAN : all = (fin /\ take = Len(data) - skip)
  OBVIOUS
<1>20. z = IF all THEN [t EXCEPT !.rcv_nxt = Plus(@, 1),
                                 !.state = CASE @ = "ESTABLISHED" -> "CLOSE_WAIT"
                                             [] @ = "FIN_WAIT1"   -> "CLOSING"
                                             [] @ = "FIN_WAIT2"   -> "TIME_WAIT"]
           ELSE t
  <2>1. z = LET k == Lesser(Len(data) - skip, RxMax - s.rx_len)
                u == Join([s EXCEPT !.rx = Store(@, s.rx_len, SubSeq(data, skip + 1, skip + k)),
                                    !.rx_len = @ + k, !.rcv_nxt = Plus(@, k)])
            IN  IF fin /\ k = Len(data) - skip
                THEN [u EXCEPT !.rcv_nxt = Plus(@, 1),
                               !.state = CASE @ = "ESTABLISHED" -> "CLOSE_WAIT"
                                           [] @ = "FIN_WAIT1"   -> "CLOSING"
                                           [] @ = "FIN_WAIT2"   -> "TIME_WAIT"]
                ELSE u
    BY Zenon DEF InOrder
  <2>2. y = [s EXCEPT !.rx = Store(@, s.rx_len, SubSeq(data, skip + 1, skip + take)),
                      !.rx_len = @ + take, !.rcv_nxt = Plus(@, take)]
    BY <1>8, <1>9, <1>10, <1>11, <1>12
  <2>3. take = Lesser(Len(data) - skip, RxMax - s.rx_len)
    BY <1>7
  <2> QED BY <1>16, <1>19, <2>1, <2>2, <2>3, Zenon
<1>21. CASE ~all
  BY <1>3, <1>17, <1>18, <1>20, <1>21
<1>22. CASE all
  <2>1. fin /\ take = l - skip /\ o = pw /\ ended
    BY <1>2, <1>19, <1>22
  <2>2. r + m = pw
    <3>1. take = l - skip /\ o = pw /\ m = n + take
      BY <1>10, <2>1
    <3> QED BY <1>4, <3>1
  <2>3. PICK c \in Nat : c = t.rx_len /\ r + c = pw
    <3>1. r + t.rx_len <= pw /\ t.rx_len \in Int
      BY <1>17, <1>18 DEF RecvOK
    <3>2. t.rx_len = m
      BY <1>18, <2>2, <3>1
    <3> QED BY <2>2, <3>2
  <2>4. t.rcv_nxt = Plus(Iss[p], 1 + (r + c))
    <3>1. t.rcv_nxt = Plus(Iss[p], 1 + r + c + 0)
      BY <1>1, <1>5, <1>17, <1>18, <2>3 DEF RecvOK, NextIs, Bit
    <3>2. 1 + r + c + 0 = 1 + (r + c)
      OBVIOUS
    <3> QED BY <3>1, <3>2
  <2>5. PICK e \in Int : e = Plus(t.rcv_nxt, 1) /\ e = Plus(Iss[p], 1 + r + c + 1)
    <3>1. PICK b \in Int, one \in Int : b = r + c /\ one = 1
      OBVIOUS
    <3>2. Plus(Plus(Iss[p], 1 + b), one) = Plus(Iss[p], 1 + (b + one))
      BY PositionPlus
    <3>3. 1 + (b + one) = 1 + r + c + 1
      BY <3>1
    <3>4. Plus(t.rcv_nxt, 1) = Plus(Iss[p], 1 + r + c + 1)
      BY <2>4, <3>1, <3>2, <3>3
    <3>5. t.rcv_nxt \in Int
      BY <1>17 DEF Sockets
    <3>6. Plus(t.rcv_nxt, one) \in Int
      BY <3>5, PlusInt
    <3> QED BY <3>1, <3>4, <3>6
  <2>6. PICK st : st = CASE t.state = "ESTABLISHED" -> "CLOSE_WAIT"
                         [] t.state = "FIN_WAIT1"   -> "CLOSING"
                         [] t.state = "FIN_WAIT2"   -> "TIME_WAIT"
    OBVIOUS
  <2>7. FinMoves(t.state, st) /\ st \in FinIsTaken /\ st \in Connected /\ st \in SockStates
    BY <1>18, <2>6 DEF FinMoves, FinIsTaken, Connected, SockStates
  <2>8. z = [t EXCEPT !.rcv_nxt = e, !.state = st]
    BY <1>20, <1>22, <2>5, <2>6
  <2>9. z \in Sockets
    BY <1>17, <2>7, <2>8 DEF Sockets
  <2>10. /\ z.state = st /\ SameSend(t, z) /\ z.rcv_nxt = e /\ z.rx_len = c
         /\ z.rx = t.rx /\ z.ooo_len = t.ooo_len /\ z.ooo_seq = t.ooo_seq
    BY <1>17, <2>3, <2>8 DEF Sockets, SameSend
  <2>11. NextIs(h, z, r, pw, ended, z.state \in FinIsTaken)
    BY <1>1, <2>1, <2>3, <2>5, <2>7, <2>10 DEF NextIs, Bit
  <2>12. \A b \in Nat : BlockAt(h, t, r, pw, b) => BlockAt(h, z, r, pw, b)
    BY <2>3, <2>10 DEF BlockAt
  <2>13. z.state # "SYN_SENT" /\ z.state # "CLOSED"
    BY <2>7, <2>10 DEF Connected
  <2>14. RecvOK(h, z, r, pw, ended)
    BY <1>17, <2>3, <2>7, <2>10, <2>11, <2>12, <2>13 DEF RecvOK
  <2>15. z.rx_len >= s.rx_len
    BY <1>3, <1>18, <2>3, <2>10
  <2>16. SameSend(s, z) /\ FinMoves(s.state, z.state)
    BY <1>18, <2>7, <2>10 DEF SameSend
  <2> QED BY <2>9, <2>14, <2>15, <2>16
<1> QED BY <1>21, <1>22

\* The data and the FIN of a segment for h are those of its peer's stream.
Carries(h, g, pw, ended) ==
    g.data # <<>> \/ "FIN" \in g.flags =>
        \E o \in Nat : /\ g.seq = Plus(Iss[Peer(h)], 1 + o) /\ o + Len(g.data) <= pw
                       /\ BytesAt(g.data, o)
                       /\ "FIN" \in g.flags => o = pw /\ ended

LEMMA TakeDataResult ==
    ASSUME NEW h \in Hosts, NEW s, NEW w \in Nat, NEW r \in Nat, NEW pw \in Nat, NEW ended, NEW pt \in Nat,
           NEW a, SockOK(h, s, w, r, pw, ended, pt), s.state # "NONE", pw <= StreamLen[Peer(h)],
           NEW g \in Segments, Carries(h, g, pw, ended), NEW z, z = TakeData(h, s, g)
    PROVE  ResultOK(h, s, z.s, z.out, w, r, pw, ended, pt, a)
<1>1. s \in Sockets /\ RecvOK(h, s, r, pw, ended) /\ s.rx_len \in Int
  BY DEF SockOK, Sockets
<1>2. PICK fin \in BOOLEAN : fin = ("FIN" \in g.flags)
  <2>1. ("FIN" \in g.flags) \in BOOLEAN
    OBVIOUS
  <2> QED BY <2>1
<1>3. PICK data \in Bytes : data = g.data
  BY DEF Segments, Bytes
<1>4. PICK off, seq : off = Minus(s.rcv_nxt, g.seq) /\ seq = g.seq
  OBVIOUS
<1>5. PICK then : then = CASE off < 0 -> OutOfOrder(s, seq, data)
                           [] off > Len(data) \/ (off = Len(data) /\ ~fin) -> s
                           [] OTHER -> InOrder(s, off, data, fin)
  OBVIOUS
<1>6. z = CASE s.state = "TIME_WAIT" -> [s |-> s, out |-> IF fin THEN AckNow(h, s) ELSE {}]
            [] s.state \in {"ESTABLISHED", "FIN_WAIT1", "FIN_WAIT2"} /\ (data # <<>> \/ fin) ->
                  [s |-> then, out |-> AckNow(h, then)]
            [] OTHER -> [s |-> s, out |-> {}]
  BY <1>2, <1>3, <1>4, <1>5 DEF TakeData
<1>7. CASE s.state = "TIME_WAIT"
  <2>1. PICK out : z = [s |-> s, out |-> out] /\ out \in {{}, AckNow(h, s)}
    BY <1>6, <1>7
  <2>2. s.state \in Connected /\ SameSend(s, s) /\ s.rx_len >= s.rx_len
    BY <1>1, <1>7 DEF Connected, SameSend
  <2>3. ResultOK(h, s, s, out, w, r, pw, ended, pt, a)
    BY <1>1, <2>1, <2>2, ReceivedResult
  <2> QED BY <2>1, <2>3
<1>8. CASE s.state \in {"ESTABLISHED", "FIN_WAIT1", "FIN_WAIT2"} /\ (data # <<>> \/ fin)
  <2>1. z = [s |-> then, out |-> AckNow(h, then)]
    BY <1>6, <1>8
  <2>2. PICK o \in Nat : /\ seq = Plus(Iss[Peer(h)], 1 + o) /\ o + Len(data) <= pw
                         /\ BytesAt(data, o) /\ (fin => o = pw /\ ended)
    BY <1>2, <1>3, <1>4, <1>8 DEF Carries
  <2>3. PICK p \in Hosts : p = Peer(h)
    BY HostFacts
  <2>4. PICK l \in Nat, n \in Nat : l = Len(data) /\ n = s.rx_len
    <3>1. Len(data) \in Nat
      BY DEF Bytes
    <3>2. s.rx_len \in Nat
      BY <1>1, ConstantFacts DEF RecvOK
    <3> QED BY <3>1, <3>2
  <2>5. o + l <= pw /\ r + n <= pw
    BY <1>1, <2>2, <2>4 DEF RecvOK
  <2>6. s.state \in Connected /\ s.state \notin FinIsTaken
    BY <1>8 DEF Connected, FinIsTaken
  <2>7. off = (r + n) - o
    <3>1. s.rcv_nxt = Plus(Iss[p], 1 + r + n + 0)
      BY <1>1, <2>3, <2>4, <2>6 DEF RecvOK, NextIs, Bit
    <3>2. PICK t \in Nat : t = r + n
      OBVIOUS
    <3>3. 1 + r + n + 0 = 1 + t
      BY <3>2
    <3>4. t <= pw + 1 /\ o <= pw + 1 /\ pw <= StreamLen[p]
      BY <2>3, <2>5, <3>2
    <3>5. Minus(Plus(Iss[p], 1 + t), Plus(Iss[p], 1 + o)) = t - o
      BY <3>4, PositionFacts
    <3> QED BY <1>4, <2>2, <2>3, <3>1, <3>2, <3>3, <3>5
  <2>8. /\ then \in Sockets /\ SameSend(s, then) /\ then.rx_len >= s.rx_len
        /\ then.state = s.state \/ FinMoves(s.state, then.state)
        /\ RecvOK(h, then, r, pw, ended)
    <3>1. CASE o > r + n
      <4>1. off < 0
        BY <2>7, <3>1
      <4>2. then = OutOfOrder(s, seq, data)
        <5>1. PICK d \in Int : d = off /\ d < 0
          BY <2>7, <4>1
        <5>2. ~(d > l \/ (d = l /\ ~fin))
          BY <5>1
        <5>3. d < 0
          BY <5>1
        <5>4. then = CASE d < 0 -> OutOfOrder(s, seq, data)
                       [] d > l \/ (d = l /\ ~fin) -> s
                       [] OTHER -> InOrder(s, d, data, fin)
          BY <1>5, <2>4, <5>1
        <5> QED BY <5>2, <5>3, <5>4
      <4>3. o > r + s.rx_len
        BY <2>4, <3>1
      <4>4. /\ then \in Sockets /\ then.state = s.state /\ SameSend(s, then) /\ then.rx_len = s.rx_len
            /\ RecvOK(h, then, r, pw, ended)
        BY <1>1, <2>2, <2>6, <4>2, <4>3, OutOfOrderOK
      <4> QED BY <1>1, <4>4
    <3>2. CASE ~(o > r + n)
      <4>1. PICK skip \in Nat : skip = off /\ o + skip = r + n
        <5>1. (r + n) - o \in Nat /\ o + ((r + n) - o) = r + n
          BY <3>2
        <5> QED BY <2>7, <5>1
      <4>2. ~(off < 0)
        BY <4>1
      <4>3. CASE off > Len(data) \/ (off = Len(data) /\ ~fin)
        <5>1. then = s
          BY <1>5, <4>2, <4>3
        <5> QED BY <1>1, <5>1 DEF SameSend
      <4>4. CASE ~(off > Len(data) \/ (off = Len(data) /\ ~fin))
        <5>1. then = InOrder(s, skip, data, fin)
          BY <1>5, <4>1, <4>2, <4>4
        <5>2. skip <= Len(data) /\ o + skip = r + s.rx_len
          BY <2>4, <4>1, <4>4
        <5> QED BY <1>1, <1>8, <2>2, <5>1, <5>2, InOrderOK
      <4> QED BY <4>3, <4>4
    <3> QED BY <3>1, <3>2
  <2>9. ResultOK(h, s, then, AckNow(h, then), w, r, pw, ended, pt, a)
    <3>1. PICK out : out = AckNow(h, then) /\ out \in {{}, AckNow(h, then)}
      OBVIOUS
    <3>2. ResultOK(h, s, then, out, w, r, pw, ended, pt, a)
      BY <2>6, <2>8, <3>1, ReceivedResult
    <3> QED BY <3>1, <3>2
  <2> QED BY <2>1, <2>9
<1>9. CASE s.state # "TIME_WAIT" /\ ~(s.state \in {"ESTABLISHED", "FIN_WAIT1", "FIN_WAIT2"} /\ (data # <<>> \/ fin))
  <2>1. z = [s |-> s, out |-> {}]
    BY <1>6, <1>9
  <2>2. ResultOK(h, s, s, {}, w, r, pw, ended, pt, a)
    BY SameResult
  <2> QED BY <2>1, <2>2
<1> QED BY <1>7, <1>8, <1>9

-----------------------------------------------------------------------------
(* One step of one host.                                                   *)

\* What the socket of h may take its peer to have taken.
Told(h, w) == IF sock[Peer(h)].state # "NONE" THEN Taken(Peer(h)) ELSE w

\* The socket of h becomes z, the segments out leave, its application has then
\* written wn bytes, has read rn and does an.
StepOK(h, z, out, wn, rn, an) ==
    /\ SockOK(h, z, wn, rn, written[Peer(h)], ~CanWrite(Peer(h)), Told(h, wn))
    /\ \A g \in out : SentOK(h, g, wn, rn + z.rx_len, written[Peer(h)], ~CanWrite(Peer(h)), z.state \in MayWrite)
    /\ \A g \in out : "RST" \notin g.flags => an # "idle"
    /\ an \in AppStates /\ wn \in Nat /\ rn \in Nat
    /\ wn >= written[h] /\ wn <= StreamLen[h]
    /\ wn # written[h] => sock[h].state \in Connected /\ sock[h].state \in MayWrite
    /\ z.state # "NONE" => \/ sock[h].state # "NONE" /\ rn + z.rx_len >= Taken(h)
                           \/ sock[h].state = "NONE" /\ app[h] = "idle"
    /\ z.state \in MayWrite => CanWrite(h)
    /\ an = "idle" => z.state = "NONE" /\ app[h] = "idle" /\ wn = written[h] /\ rn = read[h]
    /\ z.state = "NONE" => an \in {"idle", "left"} /\ ~z.unaccepted
    /\ an = "trying" => h = Client
    /\ z.state \in Connected => app[Peer(h)] # "idle"
    /\ TimerOK(z, an)

\* The receiving half when the peer's application goes on writing, or ends.
LEMMA RecvOKMore ==
    ASSUME NEW h, NEW s \in Sockets, NEW r \in Nat, NEW pw \in Nat, NEW qw \in Nat, NEW ended, NEW over,
           RecvOK(h, s, r, pw, ended), qw >= pw, ended => qw = pw /\ over
    PROVE  RecvOK(h, s, r, qw, over)
<1>1. \A fin \in BOOLEAN : NextIs(h, s, r, pw, ended, fin) => NextIs(h, s, r, qw, over, fin)
  BY DEF NextIs
<1>2. (s.state \in FinIsTaken) \in BOOLEAN
  OBVIOUS
<1>3. s.rx_len \in Int /\ s.ooo_len \in Int
  BY DEF Sockets
<1>4. \A b \in Nat : BlockAt(h, s, r, pw, b) => BlockAt(h, s, r, qw, b)
  BY <1>3 DEF BlockAt
<1>5. s.state \in Connected \cup {"SYN_RECEIVED"} => NextIs(h, s, r, qw, over, s.state \in FinIsTaken)
  BY <1>1, <1>2 DEF RecvOK
<1>6. r + s.rx_len <= qw
  BY <1>3 DEF RecvOK
<1> QED BY <1>1, <1>4, <1>5, <1>6 DEF RecvOK

LEMMA StepTypeOK ==
    ASSUME TcpInv, NEW h \in Hosts, NEW z, NEW out, NEW wn, NEW rn, NEW an, StepOK(h, z, out, wn, rn, an),
           sock' = [sock EXCEPT ![h] = z], app' = [app EXCEPT ![h] = an],
           written' = [written EXCEPT ![h] = wn], read' = [read EXCEPT ![h] = rn],
           net' \subseteq net \cup out, listening' \in BOOLEAN, faults' \in Nat
    PROVE  TcpTypeOK'
<1>1. /\ sock \in [Hosts -> Sockets] /\ app \in [Hosts -> AppStates] /\ written \in [Hosts -> Nat]
      /\ read \in [Hosts -> Nat] /\ net \subseteq Segments
  BY DEF TcpInv, TcpTypeOK
<1>2. z \in Sockets /\ an \in AppStates /\ wn \in Nat /\ rn \in Nat /\ out \subseteq Segments
  BY DEF StepOK, SockOK, SentOK
<1>3. /\ sock' \in [Hosts -> Sockets] /\ app' \in [Hosts -> AppStates] /\ written' \in [Hosts -> Nat]
      /\ read' \in [Hosts -> Nat] /\ net' \subseteq Segments
  BY <1>1, <1>2
<1> QED BY <1>3 DEF TcpTypeOK

LEMMA StepInv ==
    ASSUME TcpInv, NEW h \in Hosts, NEW z, NEW out, NEW wn, NEW rn, NEW an, StepOK(h, z, out, wn, rn, an),
           sock' = [sock EXCEPT ![h] = z], app' = [app EXCEPT ![h] = an],
           written' = [written EXCEPT ![h] = wn], read' = [read EXCEPT ![h] = rn],
           net' \subseteq net \cup out, listening' \in BOOLEAN, faults' \in Nat
    PROVE  TcpInv'
<1>1. TcpTypeOK'
  BY StepTypeOK
<1>2. PICK p \in Hosts : p = Peer(h) /\ p # h /\ Peer(p) = h /\ \A x \in Hosts : x = h \/ x = p
  BY HostFacts
<1>3. /\ sock \in [Hosts -> Sockets] /\ app \in [Hosts -> AppStates] /\ written \in [Hosts -> Nat]
      /\ read \in [Hosts -> Nat] /\ net \subseteq Segments
  BY DEF TcpInv, TcpTypeOK
<1>4. /\ sock'[h] = z /\ app'[h] = an /\ written'[h] = wn /\ read'[h] = rn
      /\ sock'[p] = sock[p] /\ app'[p] = app[p] /\ written'[p] = written[p] /\ read'[p] = read[p]
  BY <1>2, <1>3
<1>5. PICK w \in Nat, pw \in Nat, r \in Nat, pr \in Nat :
         w = written[h] /\ pw = written[p] /\ r = read[h] /\ pr = read[p]
  BY <1>2, <1>3
<1>6. HostOK(h) /\ HostOK(p) /\ \A g \in net : SegmentOK(g)
  BY <1>2 DEF TcpInv
<1>7. PICK s \in Sockets, t \in Sockets : s = sock[h] /\ t = sock[p]
  BY <1>2, <1>3
<1>8. z \in Sockets /\ wn \in Nat /\ rn \in Nat /\ z.rx_len \in Int /\ s.rx_len \in Int /\ t.rx_len \in Int
  BY <1>7 DEF StepOK, SockOK, Sockets
<1>9. /\ CanWrite(p)' <=> CanWrite(p)
      /\ CanWrite(h)' => CanWrite(h)
      /\ wn >= w /\ (~CanWrite(h) => wn = w)
  <2>1. CanWrite(p)' <=> CanWrite(p)
    BY <1>4 DEF CanWrite
  <2>2. CanWrite(h)' <=> an = "idle" \/ z.state \in MayWrite
    BY <1>4 DEF CanWrite
  <2>3. CanWrite(h)' => CanWrite(h)
    BY <2>2 DEF StepOK, CanWrite
  <2>4. wn >= w /\ (~CanWrite(h) => wn = w)
    BY <1>5 DEF StepOK, CanWrite
  <2> QED BY <2>1, <2>3, <2>4
<1>10. PICK n \in Int : n = rn + z.rx_len /\ n \in Nat /\ n <= pw
  <2>1. RecvOK(h, z, rn, pw, ~CanWrite(p))
    BY <1>2, <1>5 DEF StepOK, SockOK
  <2>2. z.rx_len \in 0 .. RxMax /\ rn + z.rx_len <= pw
    BY <2>1 DEF RecvOK
  <2> QED BY <1>8, <2>2, ConstantFacts
<1>11. Taken(h)' = n /\ Taken(p)' = Taken(p) /\ Taken(p) \in Int /\ Taken(h) \in Int
  BY <1>4, <1>5, <1>7, <1>8, <1>10 DEF Taken
<1>12. z.state # "NONE" => (s.state # "NONE" /\ n >= Taken(h)) \/ (s.state = "NONE" /\ app[h] = "idle")
  BY <1>7, <1>10 DEF StepOK
<1>13. app[h] = "idle" => s.state = "NONE" /\ w = 0 /\ r = 0 /\ t.state \notin Connected /\ pw = 0
  BY <1>2, <1>5, <1>6, <1>7 DEF HostOK
<1>14. app[p] = "idle" => t.state = "NONE" /\ pw = 0 /\ pr = 0 /\ s.state \notin Connected /\ w = 0
  BY <1>2, <1>5, <1>6, <1>7 DEF HostOK
<1>15. HostOK(h)'
  <2>1. SendOK(h, z, wn)
    BY DEF StepOK, SockOK
  <2>2. RecvOK(h, z, rn, pw, ~CanWrite(p)')
    <3>1. RecvOK(h, z, rn, pw, ~CanWrite(p))
      BY <1>2, <1>5 DEF StepOK, SockOK
    <3>2. (~CanWrite(p)) = (~CanWrite(p)')
      BY <1>9
    <3> QED BY <1>8, <1>9, <3>1, RecvOKMore
  <2>3. an = "idle" => z.state = "NONE" /\ wn = 0 /\ rn = 0 /\ t.state \notin Connected /\ pw = 0
    BY <1>5, <1>13 DEF StepOK
  <2>4. z.state \notin {"NONE", "CLOSED"} /\ t.state # "NONE" => wn - Len(z.tx) <= Taken(p)
    BY <1>2, <1>7 DEF StepOK, SockOK, Told
  <2>5. /\ TimerOK(z, an) /\ wn <= StreamLen[h] /\ (an = "trying" => h = Client)
        /\ z.state = "NONE" => an \in {"idle", "left"} /\ ~z.unaccepted
    BY DEF StepOK
  <2> QED BY <1>2, <1>4, <1>5, <1>7, <1>11, <2>1, <2>2, <2>3, <2>4, <2>5 DEF HostOK
<1>16. HostOK(p)'
  <2>1. /\ SendOK(p, t, pw) /\ TimerOK(t, app[p]) /\ pw <= StreamLen[p] /\ (app[p] = "trying" => p = Client)
        /\ t.state = "NONE" => app[p] \in {"idle", "left"} /\ ~t.unaccepted
    BY <1>5, <1>6, <1>7 DEF HostOK
  <2>2. RecvOK(p, t, pr, wn, ~CanWrite(h)')
    <3>1. RecvOK(p, t, pr, w, ~CanWrite(h))
      BY <1>2, <1>5, <1>6, <1>7 DEF HostOK
    <3>2. ~CanWrite(h) => wn = w /\ ~CanWrite(h)'
      BY <1>9
    <3> QED BY <1>8, <1>9, <3>1, <3>2, RecvOKMore
  <2>3. app[p] = "idle" => t.state = "NONE" /\ pw = 0 /\ pr = 0 /\ z.state \notin Connected /\ wn = 0
    <3>1. z.state \in Connected => app[p] # "idle"
      BY <1>2 DEF StepOK
    <3>2. wn # w => s.state \in Connected
      BY <1>5, <1>7 DEF StepOK
    <3> QED BY <1>14, <3>1, <3>2
  <2>4. t.state \notin {"NONE", "CLOSED"} /\ z.state # "NONE" => pw - Len(t.tx) <= n
    <3>1. ASSUME t.state \notin {"NONE", "CLOSED"}, z.state # "NONE" PROVE pw - Len(t.tx) <= n
      <4>1. Len(t.tx) \in Nat
        BY DEF Sockets
      <4>2. CASE s.state # "NONE" /\ n >= Taken(h)
        <5>1. pw - Len(t.tx) <= Taken(h)
          BY <1>2, <1>5, <1>6, <1>7, <3>1, <4>2 DEF HostOK
        <5> QED BY <1>11, <4>1, <4>2, <5>1
      <4>3. CASE s.state = "NONE" /\ app[h] = "idle"
        BY <1>10, <1>13, <4>1, <4>3
      <4> QED BY <1>12, <3>1, <4>2, <4>3
    <3> QED BY <3>1
  <2> QED BY <1>2, <1>4, <1>5, <1>7, <1>11, <2>1, <2>2, <2>3, <2>4 DEF HostOK
<1>17. ASSUME NEW g \in net, g.to = h PROVE SegmentOK(g)'
  <2>1. SegmentOK(g)
    BY <1>6
  <2>2. ASSUME NEW k \in Nat, AckAt(h, k) PROVE AckAt(h, k)'
    <3>1. CASE k <= w /\ (t.state # "NONE" => k <= Taken(p))
      <4>1. k <= wn
        BY <1>8, <1>9, <3>1
      <4> QED BY <1>2, <1>4, <1>7, <1>11, <3>1, <4>1 DEF AckAt
    <3>2. CASE k = w + 1 /\ ~CanWrite(h) /\ (t.state # "NONE" => Taken(p) = w)
      <4>1. wn = w /\ ~CanWrite(h)'
        BY <1>9, <3>2
      <4> QED BY <1>2, <1>4, <1>7, <1>11, <3>2, <4>1 DEF AckAt
    <3> QED BY <1>2, <1>5, <1>7, <2>2, <3>1, <3>2 DEF AckAt
  <2> QED BY <1>2, <1>4, <1>9, <1>17, <2>1, <2>2 DEF SegmentOK
<1>18. ASSUME NEW g \in net, g.to = p PROVE SegmentOK(g)'
  <2>1. SegmentOK(g)
    BY <1>6
  <2>2. ASSUME NEW k \in Nat, AckAt(p, k), app[h] # "idle" PROVE AckAt(p, k)'
    <3>1. z.state # "NONE" => s.state # "NONE" /\ n >= Taken(h)
      BY <1>12, <2>2
    <3>2. CASE k <= pw /\ (s.state # "NONE" => k <= Taken(h))
      <4>1. k <= pw /\ (z.state # "NONE" => k <= n)
        BY <1>11, <3>1, <3>2
      <4> QED BY <1>2, <1>4, <1>5, <1>11, <4>1 DEF AckAt
    <3>3. CASE k = pw + 1 /\ ~CanWrite(p) /\ (s.state # "NONE" => Taken(h) = pw)
      <4>1. z.state # "NONE" => n = pw
        BY <1>10, <1>11, <3>1, <3>3
      <4> QED BY <1>2, <1>4, <1>5, <1>9, <1>11, <3>3, <4>1 DEF AckAt
    <3> QED BY <1>2, <1>5, <1>7, <2>2, <3>2, <3>3 DEF AckAt
  <2>3. app[h] # "idle" => an # "idle"
    BY DEF StepOK
  <2>4. ASSUME NEW o \in Nat, DataAt(g, Iss[h], w, o) PROVE DataAt(g, Iss[h], wn, o)
    <3>1. g \in Segments /\ Len(g.data) \in Nat
      BY <1>3 DEF Segments
    <3> QED BY <1>8, <1>9, <2>4, <3>1 DEF DataAt
  <2>5. "RST" \notin g.flags =>
          /\ app[h] # "idle"
          /\ "SYN" \in g.flags => g.seq = Iss[h] /\ g.data = <<>> /\ "FIN" \notin g.flags
          /\ g.data # <<>> => \E o \in Nat : DataAt(g, Iss[h], w, o)
          /\ "FIN" \in g.flags => g.data = <<>> /\ ~CanWrite(h) /\ g.seq = Plus(Iss[h], 1 + w)
          /\ "ACK" \in g.flags => \E k \in Nat : g.ack = Plus(Iss[p], 1 + k) /\ AckAt(p, k)
    BY <1>2, <1>5, <1>18, <2>1 DEF SegmentOK
  <2>6. "RST" \notin g.flags =>
          /\ an # "idle"
          /\ "SYN" \in g.flags => g.seq = Iss[h] /\ g.data = <<>> /\ "FIN" \notin g.flags
          /\ g.data # <<>> => \E o \in Nat : DataAt(g, Iss[h], wn, o)
          /\ "FIN" \in g.flags => g.data = <<>> /\ ~CanWrite(h)' /\ g.seq = Plus(Iss[h], 1 + wn)
          /\ "ACK" \in g.flags => \E k \in Nat : g.ack = Plus(Iss[p], 1 + k) /\ AckAt(p, k)'
    BY <1>9, <2>2, <2>3, <2>4, <2>5
  <2> QED BY <1>2, <1>4, <1>18, <2>6 DEF SegmentOK
<1>19. ASSUME NEW g \in out PROVE SegmentOK(g)'
  <2>1. SentOK(h, g, wn, n, pw, ~CanWrite(p), z.state \in MayWrite) /\ ("RST" \notin g.flags => an # "idle")
    BY <1>2, <1>5, <1>10 DEF StepOK
  <2>2. g.to = p
    BY <1>2, <2>1 DEF SentOK
  <2>3. an # "idle" /\ z.state \notin MayWrite => ~CanWrite(h)'
    BY <1>4 DEF CanWrite
  <2>4. ASSUME NEW k \in Nat, k <= n \/ (k = pw + 1 /\ n = pw /\ ~CanWrite(p)) PROVE AckAt(p, k)'
    <3>1. CASE k <= n
      <4>1. k <= pw
        BY <1>10, <3>1
      <4> QED BY <1>2, <1>4, <1>5, <1>11, <3>1, <4>1 DEF AckAt
    <3>2. CASE k = pw + 1 /\ n = pw /\ ~CanWrite(p)
      BY <1>2, <1>4, <1>5, <1>9, <1>11, <3>2 DEF AckAt
    <3> QED BY <2>4, <3>1, <3>2
  <2>5. "RST" \notin g.flags =>
          /\ an # "idle"
          /\ "SYN" \in g.flags => g.seq = Iss[h] /\ g.data = <<>> /\ "FIN" \notin g.flags
          /\ g.data # <<>> => \E o \in Nat : DataAt(g, Iss[h], wn, o)
          /\ "FIN" \in g.flags => g.data = <<>> /\ ~CanWrite(h)' /\ g.seq = Plus(Iss[h], 1 + wn)
          /\ "ACK" \in g.flags => \E k \in Nat : g.ack = Plus(Iss[p], 1 + k) /\ AckAt(p, k)'
    BY <1>2, <2>1, <2>3, <2>4 DEF SentOK
  <2> QED BY <1>2, <1>4, <2>2, <2>5 DEF SegmentOK
<1>20. ASSUME NEW g \in net' PROVE SegmentOK(g)'
  <2>1. CASE g \in net
    <3>1. g.to \in Hosts
      BY <1>3, <2>1 DEF Segments
    <3> QED BY <1>2, <1>17, <1>18, <2>1, <3>1
  <2>2. CASE g \in out
    BY <1>19, <2>2
  <2> QED BY <2>1, <2>2
<1>21. \A x \in Hosts : HostOK(x)'
  BY <1>2, <1>15, <1>16
<1> QED BY <1>1, <1>20, <1>21 DEF TcpInv

-----------------------------------------------------------------------------
(* tcp_input().                                                            *)

\* What h may rely on in a segment that arrives.
Arrives(h, g, w, pw, ended, pt) ==
    /\ g \in Segments
    /\ "RST" \notin g.flags =>
          /\ Carries(h, g, pw, ended)
          /\ "ACK" \in g.flags => AckTold(h, g.ack, w, pt)
          /\ "SYN" \in g.flags => g.seq = Iss[Peer(h)]

\* Two operators in a row.
LEMMA ResultTrans ==
    ASSUME NEW h, NEW s \in Sockets, NEW t, NEW z, NEW o1, NEW o2, NEW w, NEW r \in Nat, NEW pw \in Nat,
           NEW ended, NEW pt, NEW a,
           ResultOK(h, s, t, o1, w, r, pw, ended, pt, a), ResultOK(h, t, z, o2, w, r, pw, ended, pt, a)
    PROVE  ResultOK(h, s, z, o1 \cup o2, w, r, pw, ended, pt, a)
<1>1. /\ s.rx_len \in Int /\ t.rx_len \in Int /\ z.rx_len \in Int /\ r + z.rx_len <= pw
      /\ t.rx_len >= s.rx_len /\ z.rx_len >= t.rx_len
  BY DEF ResultOK, SockOK, Sockets, RecvOK, Follows
<1>2. Follows(s, z, a)
  <2>1. z.rx_len >= s.rx_len
    BY <1>1
  <2> QED BY <2>1 DEF ResultOK, Follows
<1>3. z.state \in MayWrite => t.state \in MayWrite
  BY DEF ResultOK, Follows
<1>4. ASSUME NEW g \in o1 PROVE SentOK(h, g, w, r + z.rx_len, pw, ended, z.state \in MayWrite)
  <2>1. PICK m \in Int, n \in Int : m = r + t.rx_len /\ n = r + z.rx_len
    BY <1>1
  <2>2. m <= n /\ n <= pw
    BY <1>1, <2>1
  <2>3. SentOK(h, g, w, m, pw, ended, t.state \in MayWrite)
    BY <1>4, <2>1 DEF ResultOK
  <2>4. \A k \in Nat : (k <= m => k <= n) /\ (m = pw => n = pw)
    BY <2>2
  <2>5. SentOK(h, g, w, n, pw, ended, z.state \in MayWrite)
    BY <1>3, <2>3, <2>4 DEF SentOK
  <2> QED BY <2>1, <2>5
<1> QED BY <1>2, <1>4 DEF ResultOK

LEMMA InputConnectedResult ==
    ASSUME NEW h \in Hosts, NEW s, NEW w \in Nat, NEW r \in Nat, NEW pw \in Nat, NEW ended, NEW pt \in Nat,
           NEW a, SockOK(h, s, w, r, pw, ended, pt), s.state \in Connected, w <= StreamLen[h],
           pw <= StreamLen[Peer(h)], DupAcks \in Int, NEW cwnd \in Nat,
           NEW g, Arrives(h, g, w, pw, ended, pt), NEW z, z = InputConnected(h, s, g, cwnd)
    PROVE  ResultOK(h, s, z.s, z.out, w, r, pw, ended, pt, a)
<1>1. s \in Sockets /\ RecvOK(h, s, r, pw, ended) /\ s.rx_len \in Int /\ s.state # "NONE"
  BY DEF SockOK, Sockets, Connected
<1>2. g \in Segments /\ g.win \in Int /\ g.ack \in Int
  BY DEF Arrives, Segments
<1>3. PICK b, d : /\ b = ProcessAck(h, s, g.ack, g.win, g.data = <<>> /\ "FIN" \notin g.flags, cwnd)
                  /\ d = TakeData(h, b.s, g)
  OBVIOUS
<1>4. z = CASE "RST" \in g.flags -> Quiet(Reset(s, Minus(g.seq, s.rcv_nxt)))
            [] "RST" \notin g.flags /\ "SYN" \in g.flags ->
                  [s |-> s, out |-> IF Plus(g.seq, 1) = s.rcv_nxt THEN AckNow(h, s) ELSE {}]
            [] g.flags \cap {"RST", "SYN", "ACK"} = {} -> Quiet(s)
            [] OTHER -> [s |-> d.s, out |-> b.out \cup d.out]
  BY <1>3 DEF InputConnected
<1>5. CASE "RST" \in g.flags
  <2>0. PICK y : y = Reset(s, Minus(g.seq, s.rcv_nxt))
    OBVIOUS
  <2>1. z = [s |-> y, out |-> {}]
    BY <1>4, <1>5, <2>0 DEF Quiet
  <2>2. y = Closed(s) \/ y = s
    BY <2>0 DEF Reset
  <2>3. ResultOK(h, s, y, {}, w, r, pw, ended, pt, a)
    BY <1>1, <2>2, ShutResult, SameResult
  <2> QED BY <2>1, <2>3
<1>6. CASE "RST" \notin g.flags /\ "SYN" \in g.flags
  <2>0. PICK out : out = IF Plus(g.seq, 1) = s.rcv_nxt THEN AckNow(h, s) ELSE {}
    OBVIOUS
  <2>1. z = [s |-> s, out |-> out] /\ out \in {{}, AckNow(h, s)}
    BY <1>4, <1>6, <2>0
  <2>2. SameSend(s, s) /\ s.rx_len >= s.rx_len
    BY <1>1 DEF SameSend
  <2>3. ResultOK(h, s, s, out, w, r, pw, ended, pt, a)
    BY <1>1, <2>1, <2>2, ReceivedResult
  <2> QED BY <2>1, <2>3
<1>7. CASE "RST" \notin g.flags /\ "SYN" \notin g.flags /\ "ACK" \notin g.flags
  <2>1. z = [s |-> s, out |-> {}]
    BY <1>4, <1>7 DEF Quiet
  <2>2. ResultOK(h, s, s, {}, w, r, pw, ended, pt, a)
    BY <1>1, SameResult
  <2> QED BY <2>1, <2>2
<1>8. CASE "RST" \notin g.flags /\ "SYN" \notin g.flags /\ "ACK" \in g.flags
  <2>1. z = [s |-> d.s, out |-> b.out \cup d.out]
    BY <1>4, <1>8
  <2>2. AckTold(h, g.ack, w, pt) /\ Carries(h, g, pw, ended)
    BY <1>8 DEF Arrives
  <2>3. PICK pure \in BOOLEAN : pure = (g.data = <<>> /\ "FIN" \notin g.flags)
    <3>1. (g.data = <<>> /\ "FIN" \notin g.flags) \in BOOLEAN
      OBVIOUS
    <3> QED BY <3>1
  <2>4. PICK ack, win \in Int : ack = g.ack /\ win = g.win
    BY <1>2
  <2>5. b = ProcessAck(h, s, ack, win, pure, cwnd) /\ AckTold(h, ack, w, pt)
    BY <1>3, <2>2, <2>3, <2>4
  <2>6. ResultOK(h, s, b.s, b.out, w, r, pw, ended, pt, a)
    BY <2>5, ProcessAckResult
  <2>7. PICK t : t = b.s
    OBVIOUS
  <2>8. SockOK(h, t, w, r, pw, ended, pt) /\ t.state # "NONE" /\ d = TakeData(h, t, g)
    BY <1>3, <2>6, <2>7 DEF ResultOK, Follows
  <2>9. ResultOK(h, t, d.s, d.out, w, r, pw, ended, pt, a)
    BY <1>2, <2>2, <2>8, TakeDataResult
  <2>10. ResultOK(h, s, d.s, b.out \cup d.out, w, r, pw, ended, pt, a)
    BY <1>1, <2>6, <2>7, <2>9, ResultTrans
  <2> QED BY <2>1, <2>10
<1> QED BY <1>5, <1>6, <1>7, <1>8

\* A socket whose handshake is completed.
LEMMA EstablishedOK ==
    ASSUME NEW h \in Hosts, NEW s, NEW t, NEW w \in Nat, NEW r \in Nat, NEW pw \in Nat, NEW ended,
           NEW pt \in Nat, NEW a, SockOK(h, s, w, r, pw, ended, pt), s.state \in SynStates,
           t \in Sockets, t.state = "ESTABLISHED", t.snd_una = Plus(Iss[h], 1), t.tx = s.tx,
           t.tx_sent = s.tx_sent, t.fin_queued = s.fin_queued, t.fin_sent = s.fin_sent,
           t.rx = s.rx, t.rx_len = s.rx_len, t.ooo_len = s.ooo_len, t.ooo_seq = s.ooo_seq,
           t.rcv_nxt = Plus(Iss[Peer(h)], 1 + r + s.rx_len)
    PROVE  /\ SockOK(h, t, w, r, pw, ended, pt) /\ Follows(s, t, a) /\ t.state \in Connected
<1>1. s \in Sockets /\ SendOK(h, s, w) /\ RecvOK(h, s, r, pw, ended)
  BY DEF SockOK
<1>2. /\ s.state \notin {"NONE", "CLOSED"} /\ s.state \notin Closes /\ s.state \notin Connected
      /\ t.state \notin {"NONE", "CLOSED"} /\ t.state \in Connected /\ t.state \notin SynStates
      /\ t.state \notin FinIsAcked /\ t.state \notin FinIsTaken /\ t.state \in MayWrite /\ s.state \in MayWrite
  BY DEF SynStates, Closes, Connected, FinIsAcked, FinIsTaken, MayWrite
<1>3. w = 0 /\ Len(s.tx) = 0 /\ s.tx_sent = 0 /\ ~s.fin_queued /\ ~s.fin_sent
  <2>1. w = 0 /\ Len(s.tx) <= w /\ s.tx_sent \in 0 .. Len(s.tx) /\ ~s.fin_queued /\ ~s.fin_sent
    BY <1>1, <1>2 DEF SendOK, Sockets
  <2>2. Len(s.tx) \in Nat
    BY <1>1 DEF Sockets
  <2> QED BY <2>1, <2>2
<1>4. SendOK(h, t, w)
  <2>1. 1 + (w - Len(t.tx)) + 0 = 1
    BY <1>3
  <2>2. t.snd_una = Plus(Iss[h], 1 + (w - Len(t.tx)) + Bit(t.state \in FinIsAcked))
    BY <1>2, <2>1 DEF Bit
  <2>3. \A i \in 1 .. Len(t.tx) : t.tx[i] = (w - Len(t.tx)) + i
    BY <1>3
  <2> QED BY <1>2, <1>3, <2>2, <2>3 DEF SendOK
<1>5. s.ooo_len = 0
  <2>1. s.ooo_len >= 0 /\ ~(s.ooo_len > 0)
    BY <1>1, <1>2 DEF RecvOK
  <2>2. s.ooo_len \in Int
    BY <1>1 DEF Sockets
  <2> QED BY <2>1, <2>2
<1>6. NextIs(h, t, r, pw, ended, t.state \in FinIsTaken)
  <2>1. PICK n \in Nat : n = s.rx_len
    BY <1>1, ConstantFacts DEF RecvOK
  <2>2. 1 + r + n + 0 = 1 + r + n
    OBVIOUS
  <2>3. t.rcv_nxt = Plus(Iss[Peer(h)], 1 + r + t.rx_len + 0)
    BY <2>1, <2>2
  <2> QED BY <1>2, <2>3 DEF NextIs, Bit
<1>7. RecvOK(h, t, r, pw, ended)
  BY <1>1, <1>5, <1>6 DEF RecvOK
<1>8. w - Len(t.tx) <= pt
  BY <1>3
<1>9. ~Pending(t)
  BY <1>2, <1>3 DEF Pending, SynStates
<1>10. s.rx_len \in Int
  BY <1>1 DEF Sockets
<1> QED BY <1>2, <1>4, <1>7, <1>8, <1>9, <1>10 DEF SockOK, Follows, TimerOK

\* A segment that only resets.
LEMMA ResetSent ==
    ASSUME NEW h \in Hosts, NEW flags, flags \in {{"RST"}, {"RST", "ACK"}}, NEW seq \in Int, NEW ack \in Int,
           NEW w, NEW n, NEW pw, NEW ended, NEW open, NEW g, g = Segment(Peer(h), flags, seq, ack, 0, <<>>)
    PROVE  SentOK(h, g, w, n, pw, ended, open)
<1>1. flags \in SUBSET {"SYN", "ACK", "FIN", "RST"} /\ "RST" \in flags /\ <<>> \in Seq(Nat) /\ Peer(h) \in Hosts
  BY HostFacts
<1>2. g \in Segments /\ g.to = Peer(h) /\ g.flags = flags
  BY <1>1 DEF Segment, Segments
<1> QED BY <1>1, <1>2 DEF SentOK

\* tcp_input() in TCP_STATE_SYN_SENT.
LEMMA InputSynSentResult ==
    ASSUME NEW h \in Hosts, NEW s, NEW w \in Nat, NEW r \in Nat, NEW pw \in Nat, NEW ended, NEW pt \in Nat,
           NEW a, SockOK(h, s, w, r, pw, ended, pt), s.state = "SYN_SENT",
           NEW g, Arrives(h, g, w, pw, ended, pt), NEW z, z = InputSynSent(h, s, g)
    PROVE  /\ ResultOK(h, s, z.s, z.out, w, r, pw, ended, pt, a)
           /\ z.s.state \in Connected => "RST" \notin g.flags
<1>1. /\ s \in Sockets /\ RecvOK(h, s, r, pw, ended) /\ s.rx_len \in Int /\ s.state # "NONE"
      /\ s.snd_una = Iss[h] /\ s.state \in SynStates
  BY DEF SockOK, Sockets, SendOK, SynStates
<1>2. g \in Segments /\ g.win \in Int /\ g.ack \in Int /\ g.seq \in Int
  BY DEF Arrives, Segments
<1>3. PICK acks \in BOOLEAN, rst \in BOOLEAN, syn \in BOOLEAN :
         acks = ("ACK" \in g.flags) /\ rst = ("RST" \in g.flags) /\ syn = ("SYN" \in g.flags)
  <2>1. ("ACK" \in g.flags) \in BOOLEAN /\ ("RST" \in g.flags) \in BOOLEAN /\ ("SYN" \in g.flags) \in BOOLEAN
    OBVIOUS
  <2> QED BY <2>1
<1>4. PICK ok \in BOOLEAN : ok = (acks /\ g.ack = Plus(s.snd_una, 1))
  OBVIOUS
<1>5. PICK t : t = [s EXCEPT !.rcv_nxt = Plus(g.seq, 1), !.snd_una = g.ack, !.peer_wnd = g.win,
                             !.rtx_count = 0, !.rtx = FALSE, !.state = "ESTABLISHED"]
  OBVIOUS
<1>6. z = CASE acks /\ ~ok -> [s |-> s, out |-> IF rst THEN {}
                                  ELSE {Segment(Peer(h), {"RST"}, g.ack, 0, 0, <<>>)}]
            [] (acks => ok) /\ rst -> Quiet(IF ok THEN Closed(s) ELSE s)
            [] ok /\ ~rst /\ syn -> [s |-> t, out |-> AckNow(h, t)]
            [] OTHER -> Quiet(s)
  BY <1>3, <1>4, <1>5 DEF InputSynSent
<1>7. "SYN_SENT" \notin Connected /\ "CLOSED" \notin Connected
  BY DEF Connected
<1>8. CASE acks /\ ~ok
  <2>1. PICK out : out = IF rst THEN {} ELSE {Segment(Peer(h), {"RST"}, g.ack, 0, 0, <<>>)}
    OBVIOUS
  <2>2. z = [s |-> s, out |-> out]
    BY <1>6, <1>8, <2>1
  <2>3. ASSUME NEW x \in out PROVE SentOK(h, x, w, r + s.rx_len, pw, ended, s.state \in MayWrite)
    <3>1. x = Segment(Peer(h), {"RST"}, g.ack, 0, 0, <<>>)
      BY <2>1
    <3>2. PICK q \in Int, zero \in Int : q = g.ack /\ zero = 0
      BY <1>2
    <3>2a. PICK f : f = {"RST"}
      OBVIOUS
    <3>3. f \in {{"RST"}, {"RST", "ACK"}} /\ x = Segment(Peer(h), f, q, zero, 0, <<>>)
      BY <3>1, <3>2, <3>2a
    <3> QED BY <3>3, ResetSent
  <2>4. ResultOK(h, s, s, out, w, r, pw, ended, pt, a)
    BY <1>1, <2>3, SameResult DEF ResultOK
  <2> QED BY <1>7, <2>2, <2>4
<1>9. CASE (acks => ok) /\ rst
  <2>1. PICK y : y = IF ok THEN Closed(s) ELSE s
    OBVIOUS
  <2>2. z = [s |-> y, out |-> {}]
    BY <1>6, <1>9, <2>1 DEF Quiet
  <2>3. ResultOK(h, s, y, {}, w, r, pw, ended, pt, a)
    BY <1>1, <2>1, SameResult, ShutResult
  <2>4. y.state \in {"CLOSED", "SYN_SENT"}
    BY <1>1, <2>1, ClosedFacts
  <2> QED BY <1>7, <2>2, <2>3, <2>4
<1>10. CASE ok /\ ~rst /\ syn
  <2>1. z = [s |-> t, out |-> AckNow(h, t)]
    <3>1. ~(acks /\ ~ok) /\ ~((acks => ok) /\ rst)
      BY <1>10
    <3> QED BY <1>6, <1>10, <3>1
  <2>2. g.seq = Iss[Peer(h)] /\ g.ack = Plus(Iss[h], 1)
    BY <1>1, <1>3, <1>4, <1>10 DEF Arrives
  <2>3. PICK v \in Int, una \in Int, win \in Int : v = Plus(g.seq, 1) /\ una = g.ack /\ win = g.win
    <3>1. PICK one \in Int : one = 1
      OBVIOUS
    <3>2. Plus(g.seq, one) \in Int
      BY <1>2, PlusInt
    <3> QED BY <1>2, <3>1, <3>2
  <2>4. t \in Sockets
    <3>0. "ESTABLISHED" \in SockStates
      BY DEF SockStates, Connected
    <3>1. PICK zero \in Int : zero = 0
      OBVIOUS
    <3>1a. PICK f \in BOOLEAN : f = FALSE
      OBVIOUS
    <3>1b. PICK st : st = "ESTABLISHED"
      OBVIOUS
    <3>2. t = [s EXCEPT !.rcv_nxt = v, !.snd_una = una, !.peer_wnd = win,
                        !.rtx_count = zero, !.rtx = f, !.state = st]
      BY <1>5, <2>3, <3>1, <3>1a, <3>1b
    <3>3. st \in SockStates
      BY <3>0, <3>1b
    <3> QED BY <1>1, <3>2, <3>3 DEF Sockets
  <2>5. /\ t.state = "ESTABLISHED" /\ t.snd_una = g.ack /\ t.tx = s.tx
        /\ t.tx_sent = s.tx_sent /\ t.fin_queued = s.fin_queued /\ t.fin_sent = s.fin_sent
        /\ t.rx = s.rx /\ t.rx_len = s.rx_len /\ t.ooo_len = s.ooo_len /\ t.ooo_seq = s.ooo_seq
        /\ t.rcv_nxt = Plus(g.seq, 1)
    BY <1>1, <1>5 DEF Sockets
  <2>6. t.rcv_nxt = Plus(Iss[Peer(h)], 1 + r + s.rx_len)
    <3>1. r + s.rx_len = 0
      BY <1>1 DEF RecvOK
    <3>2. 1 + r + s.rx_len = 1
      BY <1>1, <3>1
    <3> QED BY <2>2, <2>5, <3>2
  <2>7. SockOK(h, t, w, r, pw, ended, pt) /\ Follows(s, t, a) /\ t.state \in Connected
    BY <1>1, <2>2, <2>4, <2>5, <2>6, EstablishedOK
  <2>8. AckOK(h, t, r + t.rx_len, pw, ended)
    BY <2>7, SockAckOK
  <2>9. ASSUME NEW x \in AckNow(h, t) PROVE SentOK(h, x, w, r + t.rx_len, pw, ended, t.state \in MayWrite)
    BY <2>4, <2>8, <2>9, AckNowFacts
  <2>10. ResultOK(h, s, t, AckNow(h, t), w, r, pw, ended, pt, a)
    BY <2>7, <2>9 DEF ResultOK
  <2>11. "RST" \notin g.flags
    BY <1>3, <1>10
  <2> QED BY <2>1, <2>10, <2>11
<1>11. CASE ~(acks /\ ~ok) /\ ~((acks => ok) /\ rst) /\ ~(ok /\ ~rst /\ syn)
  <2>1. z = [s |-> s, out |-> {}]
    BY <1>6, <1>11 DEF Quiet
  <2>2. ResultOK(h, s, s, {}, w, r, pw, ended, pt, a)
    BY <1>1, SameResult
  <2> QED BY <1>7, <2>1, <2>2
<1> QED BY <1>8, <1>9, <1>10, <1>11

\* The SYN of a socket, with or without an ACK.
LEMMA SynSent ==
    ASSUME NEW h \in Hosts, NEW s \in Sockets, NEW w, NEW n, NEW pw, NEW ended, NEW open,
           s.snd_una = Iss[h], NEW f, f \in {{"SYN"}, {"SYN", "ACK"}},
           "ACK" \in f => AckOK(h, s, n, pw, ended),
           NEW g, g = Xmit(h, s, f, s.snd_una, <<>>)
    PROVE  SentOK(h, g, w, n, pw, ended, open)
<1>1. f \in SUBSET {"SYN", "ACK", "FIN", "RST"} /\ "FIN" \notin f
  OBVIOUS
<1>2. PICK q \in Int : q = s.snd_una
  BY DEF Sockets
<1>3. PICK d \in Seq(Nat) : d = <<>>
  BY AckSegment
<1>4. g = Xmit(h, s, f, q, d)
  BY <1>2, <1>3
<1>5. /\ g \in Segments /\ g.to = Peer(h) /\ g.flags = f /\ g.seq = q
      /\ g.ack = s.rcv_nxt /\ g.data = d
  BY <1>1, <1>4, XmitFacts
<1>6. g.seq = Iss[h] /\ g.data = <<>>
  BY <1>2, <1>3, <1>5
<1> QED BY <1>1, <1>5, <1>6 DEF SentOK, AckOK

\* tcp_input() in TCP_STATE_SYN_RECEIVED.
LEMMA InputSynReceivedResult ==
    ASSUME NEW h \in Hosts, NEW s, NEW w \in Nat, NEW r \in Nat, NEW pw \in Nat, NEW ended, NEW pt \in Nat,
           NEW a, SockOK(h, s, w, r, pw, ended, pt), s.state = "SYN_RECEIVED", w <= StreamLen[h],
           pw <= StreamLen[Peer(h)], DupAcks \in Int, NEW cwnd \in Nat,
           NEW g, Arrives(h, g, w, pw, ended, pt), NEW z, z = InputSynReceived(h, s, g, cwnd)
    PROVE  /\ ResultOK(h, s, z.s, z.out, w, r, pw, ended, pt, a)
           /\ z.s.state \in Connected => "RST" \notin g.flags
<1>1. /\ s \in Sockets /\ RecvOK(h, s, r, pw, ended) /\ s.rx_len \in Int /\ s.state # "NONE"
      /\ s.snd_una = Iss[h] /\ s.state \in SynStates
  BY DEF SockOK, Sockets, SendOK, SynStates
<1>2. g \in Segments /\ g.win \in Int /\ g.ack \in Int /\ g.seq \in Int
  BY DEF Arrives, Segments
<1>3. "SYN_RECEIVED" \notin Connected /\ "CLOSED" \notin Connected
  BY DEF Connected
<1>4. PICK est : est = [s EXCEPT !.snd_una = g.ack, !.peer_wnd = g.win, !.rtx_count = 0,
                                 !.rtx = FALSE, !.state = "ESTABLISHED"]
  OBVIOUS
<1>5. PICK only : only = (g.flags \cap {"RST", "SYN", "ACK"} = {"ACK"} /\ g.ack = Plus(s.snd_una, 1))
  OBVIOUS
<1>6. z = CASE "RST" \in g.flags -> Quiet(IF Minus(g.seq, s.rcv_nxt) >= 0 THEN Closed(s) ELSE s)
            [] "RST" \notin g.flags /\ "SYN" \in g.flags ->
                  [s |-> s, out |-> IF Plus(g.seq, 1) = s.rcv_nxt
                                    THEN {Xmit(h, s, {"SYN", "ACK"}, s.snd_una, <<>>)} ELSE {}]
            [] only -> InputConnected(h, est, g, cwnd)
            [] OTHER -> Quiet(s)
  BY <1>4, <1>5 DEF InputSynReceived
<1>7. ASSUME only PROVE "RST" \notin g.flags /\ "SYN" \notin g.flags /\ g.ack = Plus(Iss[h], 1)
  <2>1. g.flags \cap {"RST", "SYN", "ACK"} = {"ACK"} /\ g.ack = Plus(s.snd_una, 1)
    BY <1>5, <1>7
  <2>2. "RST" \notin {"ACK"} /\ "SYN" \notin {"ACK"}
    OBVIOUS
  <2>3. "RST" \notin g.flags /\ "SYN" \notin g.flags
    BY <2>1, <2>2
  <2> QED BY <1>1, <2>1, <2>3
<1>8. CASE "RST" \in g.flags
  <2>1. PICK y : y = IF Minus(g.seq, s.rcv_nxt) >= 0 THEN Closed(s) ELSE s
    OBVIOUS
  <2>2. z = [s |-> y, out |-> {}]
    BY <1>6, <1>7, <1>8, <2>1 DEF Quiet
  <2>3. ResultOK(h, s, y, {}, w, r, pw, ended, pt, a)
    BY <1>1, <2>1, SameResult, ShutResult
  <2>4. y.state \in {"CLOSED", "SYN_RECEIVED"}
    BY <1>1, <2>1, ClosedFacts
  <2> QED BY <1>3, <2>2, <2>3, <2>4
<1>9. CASE "RST" \notin g.flags /\ "SYN" \in g.flags
  <2>1. PICK out : out = IF Plus(g.seq, 1) = s.rcv_nxt
                         THEN {Xmit(h, s, {"SYN", "ACK"}, s.snd_una, <<>>)} ELSE {}
    OBVIOUS
  <2>2. z = [s |-> s, out |-> out]
    BY <1>6, <1>7, <1>9, <2>1
  <2>3. AckOK(h, s, r + s.rx_len, pw, ended)
    BY SockAckOK
  <2>4. ASSUME NEW x \in out PROVE SentOK(h, x, w, r + s.rx_len, pw, ended, s.state \in MayWrite)
    <3>1. PICK f : f = {"SYN", "ACK"}
      OBVIOUS
    <3>2. x = Xmit(h, s, f, s.snd_una, <<>>) /\ f \in {{"SYN"}, {"SYN", "ACK"}}
      BY <2>1, <3>1
    <3> QED BY <1>1, <2>3, <3>2, SynSent
  <2>5. ResultOK(h, s, s, out, w, r, pw, ended, pt, a)
    BY <1>1, <2>4, SameResult DEF ResultOK
  <2> QED BY <1>3, <2>2, <2>5
<1>10. CASE only
  <2>1. "RST" \notin g.flags /\ "SYN" \notin g.flags /\ g.ack = Plus(Iss[h], 1)
    BY <1>7, <1>10
  <2>2. z = InputConnected(h, est, g, cwnd)
    BY <1>6, <1>10, <2>1
  <2>3. PICK una \in Int, win \in Int : una = g.ack /\ win = g.win
    BY <1>2
  <2>4. est \in Sockets
    <3>1. PICK zero \in Int : zero = 0
      OBVIOUS
    <3>2. PICK f \in BOOLEAN : f = FALSE
      OBVIOUS
    <3>3. PICK st : st = "ESTABLISHED"
      OBVIOUS
    <3>4. est = [s EXCEPT !.snd_una = una, !.peer_wnd = win, !.rtx_count = zero, !.rtx = f, !.state = st]
      BY <1>4, <2>3, <3>1, <3>2, <3>3
    <3>5. st \in SockStates
      BY <3>3 DEF SockStates, Connected
    <3> QED BY <1>1, <3>4, <3>5 DEF Sockets
  <2>5. /\ est.state = "ESTABLISHED" /\ est.snd_una = g.ack /\ est.tx = s.tx
        /\ est.tx_sent = s.tx_sent /\ est.fin_queued = s.fin_queued /\ est.fin_sent = s.fin_sent
        /\ est.rx = s.rx /\ est.rx_len = s.rx_len /\ est.ooo_len = s.ooo_len /\ est.ooo_seq = s.ooo_seq
        /\ est.rcv_nxt = s.rcv_nxt
    BY <1>1, <1>4 DEF Sockets
  <2>6. est.rcv_nxt = Plus(Iss[Peer(h)], 1 + r + s.rx_len)
    <3>1. s.state \notin FinIsTaken
      BY DEF FinIsTaken
    <3>2. s.rcv_nxt = Plus(Iss[Peer(h)], 1 + r + s.rx_len + 0)
      BY <1>1, <3>1 DEF RecvOK, NextIs, Bit
    <3>3. PICK n \in Int : n = s.rx_len
      BY <1>1
    <3>4. 1 + r + n + 0 = 1 + r + n
      OBVIOUS
    <3> QED BY <2>5, <3>2, <3>3, <3>4
  <2>7. SockOK(h, est, w, r, pw, ended, pt) /\ Follows(s, est, a) /\ est.state \in Connected
    BY <1>1, <2>1, <2>4, <2>5, <2>6, EstablishedOK
  <2>8. ResultOK(h, s, est, {}, w, r, pw, ended, pt, a)
    BY <2>7 DEF ResultOK
  <2>9. ResultOK(h, est, z.s, z.out, w, r, pw, ended, pt, a)
    BY <2>2, <2>7, InputConnectedResult
  <2>10. ResultOK(h, s, z.s, {} \cup z.out, w, r, pw, ended, pt, a)
    BY <1>1, <2>8, <2>9, ResultTrans
  <2>11. {} \cup z.out = z.out
    OBVIOUS
  <2> QED BY <2>1, <2>10, <2>11
<1>11. CASE "RST" \notin g.flags /\ "SYN" \notin g.flags /\ ~only
  <2>1. z = [s |-> s, out |-> {}]
    BY <1>6, <1>11 DEF Quiet
  <2>2. ResultOK(h, s, s, {}, w, r, pw, ended, pt, a)
    BY <1>1, SameResult
  <2> QED BY <1>3, <2>1, <2>2
<1> QED BY <1>8, <1>9, <1>10, <1>11

-----------------------------------------------------------------------------
(* The steps.                                                              *)

\* What the invariant says of one host.
LEMMA InvFacts ==
    ASSUME TcpInv, NEW h \in Hosts
    PROVE  /\ sock[h] \in Sockets /\ written[h] \in Nat /\ read[h] \in Nat /\ app[h] \in AppStates
           /\ SockOK(h, sock[h], written[h], read[h], written[Peer(h)], ~CanWrite(Peer(h)), Told(h, written[h]))
           /\ Told(h, written[h]) \in Nat
           /\ written[h] <= StreamLen[h]
           /\ TimerOK(sock[h], app[h])
           /\ app[h] = "idle" => sock[h].state = "NONE" /\ written[h] = 0 /\ read[h] = 0
           /\ sock[h].state = "NONE" => app[h] \in {"idle", "left"} /\ ~sock[h].unaccepted
           /\ app[h] = "trying" => h = Client
           /\ sock[h].state \in Connected => app[Peer(h)] # "idle"
           /\ sock[h].rx_len \in Nat
<1>1. /\ sock \in [Hosts -> Sockets] /\ app \in [Hosts -> AppStates] /\ written \in [Hosts -> Nat]
      /\ read \in [Hosts -> Nat]
  BY DEF TcpInv, TcpTypeOK
<1>2. PICK p \in Hosts : p = Peer(h) /\ p # h /\ Peer(p) = h
  BY HostFacts
<1>3. HostOK(h) /\ HostOK(p)
  BY <1>2 DEF TcpInv
<1>4. \A x \in Hosts : HostOK(x) => sock[x].rx_len \in Nat
  BY ConstantFacts DEF HostOK, RecvOK
<1>5. Taken(p) \in Nat
  BY <1>1, <1>2, <1>3, <1>4 DEF Taken
<1>6. Told(h, written[h]) \in Nat
  BY <1>1, <1>2, <1>5 DEF Told
<1>7. PICK s \in Sockets, w \in Nat : s = sock[h] /\ w = written[h]
  BY <1>1
<1>8. s.state \notin {"NONE", "CLOSED"} => w - Len(s.tx) <= Told(h, w)
  <2>1. Len(s.tx) \in Nat
    BY DEF Sockets
  <2>2. w - Len(s.tx) <= w
    BY <2>1
  <2> QED BY <1>2, <1>3, <1>7, <2>2 DEF HostOK, Told
<1>9. SockOK(h, sock[h], written[h], read[h], written[Peer(h)], ~CanWrite(Peer(h)), Told(h, written[h]))
  BY <1>3, <1>7, <1>8 DEF SockOK, HostOK
<1>10. sock[h].state \in Connected => app[Peer(h)] # "idle"
  BY <1>2, <1>3 DEF HostOK
<1> QED BY <1>1, <1>3, <1>4, <1>6, <1>9, <1>10 DEF HostOK

\* A step that leaves the counts of the applications alone.
LEMMA StepFrame ==
    ASSUME TcpInv, NEW h \in Hosts, NEW z, NEW out, NEW an, StepOK(h, z, out, written[h], read[h], an),
           sock' = [sock EXCEPT ![h] = z], app' = [app EXCEPT ![h] = an],
           UNCHANGED <<written, read>>,
           net' \subseteq net \cup out, listening' \in BOOLEAN, faults' \in Nat
    PROVE  TcpInv'
<1>1. written \in [Hosts -> Nat] /\ read \in [Hosts -> Nat]
  BY DEF TcpInv, TcpTypeOK
<1>2. written' = [written EXCEPT ![h] = written[h]] /\ read' = [read EXCEPT ![h] = read[h]]
  BY <1>1
<1> QED BY <1>2, StepInv

\* An operator on the socket of h.
LEMMA ResultStep ==
    ASSUME TcpInv, NEW h \in Hosts, NEW y, NEW z, NEW out, NEW wn \in Nat, NEW a, NEW an \in AppStates,
           an # "idle", an = "trying" => h = Client,
           sock[h].state # "NONE", y.rx_len = sock[h].rx_len,
           y.state \in MayWrite => sock[h].state \in MayWrite,
           wn >= written[h], wn <= StreamLen[h],
           wn # written[h] => sock[h].state \in Connected /\ sock[h].state \in MayWrite,
           ResultOK(h, y, z, out, wn, read[h], written[Peer(h)], ~CanWrite(Peer(h)), Told(h, wn), a),
           TimerOK(z, an), z.state \in Connected => app[Peer(h)] # "idle"
    PROVE  StepOK(h, z, out, wn, read[h], an)
<1>1. sock[h] \in Sockets /\ read[h] \in Nat
  BY InvFacts
<1>2. /\ SockOK(h, z, wn, read[h], written[Peer(h)], ~CanWrite(Peer(h)), Told(h, wn))
      /\ \A g \in out : SentOK(h, g, wn, read[h] + z.rx_len, written[Peer(h)],
                               ~CanWrite(Peer(h)), z.state \in MayWrite)
      /\ Follows(y, z, a)
  BY DEF ResultOK
<1>3. z.rx_len >= sock[h].rx_len /\ (z.state \in MayWrite => CanWrite(h)) /\ z.state # "NONE"
  BY <1>2 DEF Follows, CanWrite
<1>4. read[h] + z.rx_len >= Taken(h)
  <2>1. z.rx_len \in Int /\ sock[h].rx_len \in Int
    BY <1>1, <1>2 DEF SockOK, Sockets
  <2> QED BY <1>1, <1>3, <2>1 DEF Taken
<1> QED BY <1>1, <1>2, <1>3, <1>4 DEF StepOK

\* An operator that leaves what the application has written alone.
LEMMA SocketStep ==
    ASSUME TcpInv, NEW h \in Hosts, NEW z, NEW out, NEW a, NEW an \in AppStates,
           an # "idle", an = "trying" => h = Client, sock[h].state # "NONE",
           ResultOK(h, sock[h], z, out, written[h], read[h], written[Peer(h)], ~CanWrite(Peer(h)),
                    Told(h, written[h]), a),
           TimerOK(z, an), z.state \in Connected => app[Peer(h)] # "idle"
    PROVE  StepOK(h, z, out, written[h], read[h], an)
<1>1. written[h] \in Nat /\ written[h] <= StreamLen[h]
  BY InvFacts
<1>2. PICK wn \in Nat : wn = written[h]
  BY <1>1
<1>3. wn >= written[h] /\ wn <= StreamLen[h]
  BY <1>1, <1>2
<1> QED BY <1>2, <1>3, ResultStep

\* A new socket, and the socket after it was freed.
LEMMA FreshFacts ==
    ASSUME NEW h \in Hosts, NEW z, z = Fresh(h) \/ z = Gone(h)
    PROVE  /\ z \in Sockets /\ z.snd_una = Iss[h] /\ z.tx = <<>> /\ z.tx_sent = 0 /\ z.rtx = FALSE
           /\ z.fin_queued = FALSE /\ z.fin_sent = FALSE /\ z.ooo_len = 0 /\ z.rx_len = 0
           /\ z.unaccepted = FALSE
           /\ z = Gone(h) => z.state = "NONE"
<1>1. PICK i \in Int : i = Iss[h]
  BY ConstantFacts
<1>2. PICK rx \in [1 .. RxMax -> Nat] : rx = [k \in 1 .. RxMax |-> None]
  BY DEF None
<1>3. Gone(h) = [Fresh(h) EXCEPT !.state = "NONE"]
  BY DEF Gone
<1>4. Fresh(h) = [state |-> "CLOSED", snd_una |-> i, snd_max |-> i,
     rcv_nxt |-> 0, tx |-> <<>>, tx_sent |-> 0, peer_wnd |-> 0,
     rtx |-> FALSE, rtx_count |-> 0, dup_acks |-> 0,
     fin_queued |-> FALSE, fin_sent |-> FALSE, reset_seen |-> FALSE,
     ooo_seq |-> 0, ooo_len |-> 0, rx_len |-> 0, rx |-> rx,
     unaccepted |-> FALSE, detached |-> FALSE]
  BY <1>1, <1>2, Zenon DEF Fresh
<1>5. "CLOSED" \in SockStates /\ "NONE" \in SockStates /\ <<>> \in Seq(Nat)
  BY DEF SockStates
<1>6. PICK f : f = Fresh(h)
  OBVIOUS
<1>7. /\ f \in Sockets /\ f.snd_una = Iss[h] /\ f.tx = <<>> /\ f.tx_sent = 0 /\ f.rtx = FALSE
      /\ f.fin_queued = FALSE /\ f.fin_sent = FALSE /\ f.ooo_len = 0 /\ f.rx_len = 0 /\ f.state = "CLOSED"
      /\ f.unaccepted = FALSE
  <2>1. f \in Sockets
    BY <1>1, <1>2, <1>4, <1>5, <1>6 DEF Sockets
  <2> QED BY <1>1, <1>4, <1>6, <2>1
<1>8. PICK st \in SockStates : st = "NONE"
  BY <1>5
<1>9. PICK y : y = [f EXCEPT !.state = st]
  OBVIOUS
<1>10. /\ y \in Sockets /\ y.snd_una = Iss[h] /\ y.tx = <<>> /\ y.tx_sent = 0 /\ y.rtx = FALSE
       /\ y.fin_queued = FALSE /\ y.fin_sent = FALSE /\ y.ooo_len = 0 /\ y.rx_len = 0 /\ y.state = st
       /\ y.unaccepted = FALSE
  BY <1>7, <1>9 DEF Sockets
<1>11. y = Gone(h)
  BY <1>3, <1>6, <1>8, <1>9
<1> QED BY <1>6, <1>7, <1>8, <1>10, <1>11

\* The socket of h is freed: nothing of it can be violated any more.
LEMMA GoneStep ==
    ASSUME TcpInv, NEW h \in Hosts
    PROVE  StepOK(h, Gone(h), {}, written[h], read[h], "left")
<1>1. PICK z : z = Gone(h)
  OBVIOUS
<1>2. /\ z \in Sockets /\ z.state = "NONE" /\ z.fin_queued = FALSE /\ z.ooo_len = 0 /\ z.rx_len = 0
      /\ z.unaccepted = FALSE
  BY <1>1, FreshFacts
<1>3. PICK p \in Hosts : p = Peer(h)
  BY HostFacts
<1>4. PICK w \in Nat, r \in Nat, pw \in Nat : w = written[h] /\ r = read[h] /\ pw = written[p]
  BY <1>3, InvFacts
<1>5. r <= pw
  <2>1. RecvOK(h, sock[h], r, pw, ~CanWrite(p)) /\ sock[h].rx_len \in Nat
    BY <1>3, <1>4, InvFacts DEF SockOK
  <2>2. r + sock[h].rx_len <= pw
    BY <2>1 DEF RecvOK
  <2> QED BY <2>1, <2>2
<1>6. SendOK(h, z, w)
  BY <1>2 DEF SendOK, SynStates, FinIsAcked, Connected
<1>7. RecvOK(h, z, r, pw, ~CanWrite(p))
  BY <1>2, <1>5, ConstantFacts DEF RecvOK, Connected
<1>8. "NONE" \notin MayWrite /\ "NONE" \notin Connected /\ "left" \in AppStates
  BY DEF MayWrite, SynStates, Connected, AppStates
<1>9. w <= StreamLen[h] /\ w >= w
  BY <1>4, InvFacts
<1> QED BY <1>1, <1>2, <1>3, <1>4, <1>6, <1>7, <1>8, <1>9 DEF StepOK, SockOK, TimerOK

\* A step that leaves the socket of h as it is; segments that leave only reset.
LEMMA SameStep ==
    ASSUME TcpInv, NEW h \in Hosts, NEW out, NEW w, NEW n, NEW pw, NEW ended, NEW open,
           \A g \in out : SentOK(h, g, w, n, pw, ended, open) /\ "RST" \in g.flags
    PROVE  StepOK(h, sock[h], out, written[h], read[h], app[h])
<1>1. /\ sock[h] \in Sockets /\ written[h] \in Nat /\ read[h] \in Nat /\ app[h] \in AppStates
      /\ SockOK(h, sock[h], written[h], read[h], written[Peer(h)], ~CanWrite(Peer(h)), Told(h, written[h]))
      /\ written[h] <= StreamLen[h]
      /\ TimerOK(sock[h], app[h])
      /\ app[h] = "idle" => sock[h].state = "NONE"
      /\ sock[h].state = "NONE" => app[h] \in {"idle", "left"} /\ ~sock[h].unaccepted
      /\ app[h] = "trying" => h = Client
      /\ sock[h].state \in Connected => app[Peer(h)] # "idle"
      /\ sock[h].rx_len \in Nat
  BY InvFacts
<1>2. \A g \in out : SentOK(h, g, written[h], read[h] + sock[h].rx_len, written[Peer(h)],
                            ~CanWrite(Peer(h)), sock[h].state \in MayWrite)
  BY DEF SentOK
<1>3. read[h] + sock[h].rx_len >= Taken(h) /\ written[h] >= written[h]
  BY <1>1 DEF Taken
<1>4. sock[h].state \in MayWrite => CanWrite(h)
  BY DEF CanWrite
<1>5. sock[h].state = "NONE" => sock[h].state \notin MayWrite
  BY DEF MayWrite, SynStates
<1> QED BY <1>1, <1>2, <1>3, <1>4, <1>5 DEF StepOK

\* What a segment in the network tells the host it is for.
LEMMA ArrivesOK ==
    ASSUME TcpInv, NEW g \in net, NEW h, h = g.to
    PROVE  /\ h \in Hosts
           /\ Arrives(h, g, written[h], written[Peer(h)], ~CanWrite(Peer(h)), Told(h, written[h]))
           /\ "RST" \notin g.flags => app[Peer(h)] # "idle"
<1>1. g \in Segments /\ SegmentOK(g)
  BY DEF TcpInv, TcpTypeOK
<1>2. h \in Hosts
  BY <1>1 DEF Segments
<1>3. PICK p \in Hosts : p = Peer(h)
  BY <1>2, HostFacts
<1>4. PICK w \in Nat, pw \in Nat : w = written[h] /\ pw = written[p]
  BY <1>2, <1>3, InvFacts
<1>5. PICK pt \in Nat : pt = Told(h, w)
  BY <1>2, <1>4, InvFacts
<1>6. ASSUME "RST" \notin g.flags
      PROVE  /\ app[p] # "idle"
             /\ "SYN" \in g.flags => g.seq = Iss[p]
             /\ Carries(h, g, pw, ~CanWrite(p))
             /\ "ACK" \in g.flags => AckTold(h, g.ack, w, pt)
  <2>1. /\ app[p] # "idle"
        /\ "SYN" \in g.flags => g.seq = Iss[p] /\ g.data = <<>> /\ "FIN" \notin g.flags
        /\ g.data # <<>> => \E o \in Nat : DataAt(g, Iss[p], pw, o)
        /\ "FIN" \in g.flags => /\ g.data = <<>> /\ ~CanWrite(p)
                                /\ g.seq = Plus(Iss[p], 1 + pw)
        /\ "ACK" \in g.flags => \E k \in Nat : g.ack = Plus(Iss[h], 1 + k) /\ AckAt(h, k)
    BY <1>1, <1>3, <1>4, <1>6 DEF SegmentOK
  <2>5. Carries(h, g, pw, ~CanWrite(p))
    <3>2. CASE "FIN" \in g.flags
      <4>1. Len(g.data) = 0 /\ BytesAt(g.data, pw)
        BY <2>1, <3>2 DEF BytesAt
      <4>2. pw + Len(g.data) <= pw
        BY <4>1
      <4> QED BY <1>3, <2>1, <3>2, <4>1, <4>2 DEF Carries
    <3>3. CASE "FIN" \notin g.flags /\ g.data # <<>>
      <4>1. PICK o \in Nat : DataAt(g, Iss[p], pw, o)
        BY <2>1, <3>3
      <4>2. g.seq = Plus(Iss[p], 1 + o) /\ o + Len(g.data) <= pw /\ BytesAt(g.data, o)
        BY <4>1 DEF DataAt, BytesAt
      <4> QED BY <1>3, <3>3, <4>2 DEF Carries
    <3>4. CASE "FIN" \notin g.flags /\ g.data = <<>>
      BY <3>4 DEF Carries
    <3> QED BY <3>2, <3>3, <3>4
  <2>6. ASSUME "ACK" \in g.flags PROVE AckTold(h, g.ack, w, pt)
    <3>1. PICK k \in Nat : g.ack = Plus(Iss[h], 1 + k) /\ AckAt(h, k)
      BY <2>1, <2>6
    <3>2. (k <= w /\ k <= pt) \/ (k = w + 1 /\ w <= pt)
      <4>1. \/ k <= w /\ (sock[p].state # "NONE" => k <= Taken(p))
            \/ k = w + 1 /\ (sock[p].state # "NONE" => Taken(p) = w)
        BY <1>3, <1>4, <3>1 DEF AckAt
      <4>2. pt = IF sock[p].state # "NONE" THEN Taken(p) ELSE w
        BY <1>3, <1>5 DEF Told
      <4> QED BY <4>1, <4>2
    <3> QED BY <3>1, <3>2 DEF AckTold
  <2> QED BY <2>1, <2>5, <2>6
<1> QED BY <1>1, <1>2, <1>3, <1>4, <1>5, <1>6 DEF Arrives

\* The socket that the listener makes of a SYN.
LEMMA ChildStep ==
    ASSUME TcpInv, NEW h \in Hosts, NEW g \in Segments, g.seq = Iss[Peer(h)], app[h] = "idle",
           NEW c, c = Child(h, g)
    PROVE  /\ StepOK(h, c, {Xmit(h, c, {"SYN", "ACK"}, c.snd_una, <<>>)}, written[h], read[h], "queued")
           /\ c.state # "NONE"
<1>1. PICK p \in Hosts : p = Peer(h)
  BY HostFacts
<1>2. PICK w \in Nat, r \in Nat, pw \in Nat : w = written[h] /\ r = read[h] /\ pw = written[p]
  BY <1>1, InvFacts
<1>3. w = 0 /\ r = 0 /\ sock[h].state = "NONE"
  BY <1>2, InvFacts
<1>4. PICK f : f = Fresh(h)
  OBVIOUS
<1>5. /\ f \in Sockets /\ f.snd_una = Iss[h] /\ f.tx = <<>> /\ f.tx_sent = 0 /\ f.rtx = FALSE
      /\ f.fin_queued = FALSE /\ f.fin_sent = FALSE /\ f.ooo_len = 0 /\ f.rx_len = 0
  BY <1>4, FreshFacts
<1>6. PICK v \in Int, max \in Int, win \in Int :
         v = Plus(g.seq, 1) /\ max = Plus(Iss[h], 1) /\ win = g.win
  <2>1. g.seq \in Int /\ g.win \in Int /\ Iss[h] \in Int /\ 1 \in Int
    BY ConstantFacts DEF Segments
  <2>2. Plus(g.seq, 1) \in Int /\ Plus(Iss[h], 1) \in Int
    BY <2>1, PlusInt
  <2> QED BY <2>1, <2>2
<1>7. PICK yes \in BOOLEAN : yes = TRUE
  OBVIOUS
<1>8. PICK st \in SockStates : st = "SYN_RECEIVED"
  BY DEF SockStates, SynStates
<1>9. c = [f EXCEPT !.state = st, !.unaccepted = yes, !.rtx = yes,
                    !.snd_max = max, !.rcv_nxt = v, !.peer_wnd = win]
  BY <1>4, <1>6, <1>7, <1>8 DEF Child
<1>10. /\ c \in Sockets /\ c.snd_una = Iss[h] /\ c.tx = <<>> /\ c.tx_sent = 0 /\ c.rtx = yes
       /\ c.fin_queued = FALSE /\ c.fin_sent = FALSE /\ c.ooo_len = 0 /\ c.rx_len = 0
       /\ c.state = st /\ c.rcv_nxt = v
  <2>1. PICK u : u = [f EXCEPT !.state = st, !.unaccepted = yes, !.rtx = yes]
    OBVIOUS
  <2>2. /\ u \in Sockets /\ u.snd_una = f.snd_una /\ u.tx = f.tx /\ u.tx_sent = f.tx_sent /\ u.rtx = yes
        /\ u.fin_queued = f.fin_queued /\ u.fin_sent = f.fin_sent /\ u.ooo_len = f.ooo_len
        /\ u.rx_len = f.rx_len /\ u.state = st
    BY <1>5, <2>1 DEF Sockets
  <2>3. c = [u EXCEPT !.snd_max = max, !.rcv_nxt = v, !.peer_wnd = win]
    BY <1>9, <2>1
  <2>4. /\ c \in Sockets /\ c.snd_una = u.snd_una /\ c.tx = u.tx /\ c.tx_sent = u.tx_sent /\ c.rtx = u.rtx
        /\ c.fin_queued = u.fin_queued /\ c.fin_sent = u.fin_sent /\ c.ooo_len = u.ooo_len
        /\ c.rx_len = u.rx_len /\ c.state = u.state /\ c.rcv_nxt = v
    BY <2>2, <2>3 DEF Sockets
  <2> QED BY <1>5, <2>2, <2>4
<1>11. /\ st \in SynStates /\ st \in MayWrite /\ st \notin Connected /\ st \notin FinIsAcked
       /\ st \notin FinIsTaken /\ st \notin {"NONE", "CLOSED"}
  BY <1>8 DEF SynStates, MayWrite, Connected, FinIsAcked, FinIsTaken
<1>12. SendOK(h, c, w)
  <2>1. Len(c.tx) = 0
    BY <1>10
  <2> QED BY <1>3, <1>10, <1>11, <2>1 DEF SendOK
<1>13. RecvOK(h, c, r, pw, ~CanWrite(p))
  <2>1. NextIs(h, c, r, pw, ~CanWrite(p), FALSE)
    <3>1. 1 + r + c.rx_len + 0 = 1
      BY <1>3, <1>10
    <3>2. c.rcv_nxt = Plus(Iss[Peer(h)], 1)
      BY <1>6, <1>10
    <3> QED BY <3>1, <3>2 DEF NextIs, Bit
  <2>2. NextIs(h, c, r, pw, ~CanWrite(p), c.state \in FinIsTaken)
    <3>1. (c.state \in FinIsTaken) = FALSE
      BY <1>10, <1>11
    <3> QED BY <2>1, <3>1
  <2>3. c.rx_len \in 0 .. RxMax /\ r + c.rx_len <= pw
    BY <1>3, <1>10, ConstantFacts
  <2> QED BY <1>8, <1>10, <2>2, <2>3 DEF RecvOK
<1>14. w - Len(c.tx) <= Told(h, w)
  <2>1. Told(h, w) \in Nat /\ Len(c.tx) = 0
    BY <1>2, <1>10, InvFacts
  <2> QED BY <1>3, <2>1
<1>15. SockOK(h, c, w, r, pw, ~CanWrite(p), Told(h, w))
  BY <1>10, <1>12, <1>13, <1>14 DEF SockOK
<1>16. AckOK(h, c, r + c.rx_len, pw, ~CanWrite(p))
  BY <1>8, <1>10, <1>15, SockAckOK
<1>17. ASSUME NEW x, x = Xmit(h, c, {"SYN", "ACK"}, c.snd_una, <<>>)
       PROVE  SentOK(h, x, w, r + c.rx_len, pw, ~CanWrite(p), c.state \in MayWrite)
  <2>1. PICK fl : fl = {"SYN", "ACK"}
    OBVIOUS
  <2>2. x = Xmit(h, c, fl, c.snd_una, <<>>) /\ fl \in {{"SYN"}, {"SYN", "ACK"}}
    BY <1>17, <2>1
  <2> QED BY <1>10, <1>16, <2>2, SynSent
<1>18. TimerOK(c, "queued") /\ CanWrite(h) /\ "queued" \in AppStates
  BY <1>7, <1>10 DEF TimerOK, CanWrite, AppStates
<1>19. w <= StreamLen[h] /\ w >= w
  BY <1>2, InvFacts
<1>20. StepOK(h, c, {Xmit(h, c, {"SYN", "ACK"}, c.snd_una, <<>>)}, w, r, "queued")
  BY <1>1, <1>2, <1>3, <1>8, <1>10, <1>11, <1>15, <1>17, <1>18, <1>19 DEF StepOK
<1> QED BY <1>2, <1>10, <1>11, <1>20

\* tcp_input() for a segment that no socket owns.
LEMMA InputNoneStep ==
    ASSUME TcpInv, NEW g \in net, NEW h, h = g.to, sock[h].state = "NONE",
           NEW z, z = InputNone(h, sock[h], g), NEW an, an = IF z.s.state # "NONE" THEN "queued" ELSE app[h]
    PROVE  StepOK(h, z.s, z.out, written[h], read[h], an)
<1>1. /\ h \in Hosts
      /\ Arrives(h, g, written[h], written[Peer(h)], ~CanWrite(Peer(h)), Told(h, written[h]))
  BY ArrivesOK
<1>2. g \in Segments /\ g.seq \in Int /\ g.ack \in Int /\ Len(g.data) \in Nat
  BY <1>1 DEF Arrives, Segments
<1>3. PICK s : s = sock[h]
  OBVIOUS
<1>4. PICK syn \in BOOLEAN, rst \in BOOLEAN, acks \in BOOLEAN :
         /\ syn = ("SYN" \in g.flags /\ "ACK" \notin g.flags /\ "RST" \notin g.flags)
         /\ rst = ("RST" \in g.flags) /\ acks = ("ACK" \in g.flags)
  <2>1. /\ ("SYN" \in g.flags /\ "ACK" \notin g.flags /\ "RST" \notin g.flags) \in BOOLEAN
        /\ ("RST" \in g.flags) \in BOOLEAN /\ ("ACK" \in g.flags) \in BOOLEAN
    OBVIOUS
  <2> QED BY <2>1
<1>5. PICK n, c : n = Len(g.data) + Bit(g.flags \cap {"SYN", "FIN"} # {}) /\ c = Child(h, g)
  OBVIOUS
<1>6. PICK fits : fits = (syn /\ h = Server /\ listening)
  OBVIOUS
<1>7. z = CASE fits ->
                IF app[h] = "idle"
                THEN [s |-> c, out |-> {Xmit(h, c, {"SYN", "ACK"}, c.snd_una, <<>>)}]
                ELSE Quiet(s)
          [] rst -> Quiet(s)
          [] ~rst /\ acks ->
                [s |-> s, out |-> {Segment(Peer(h), {"RST"}, g.ack, 0, 0, <<>>)}]
          [] OTHER ->
                [s |-> s, out |-> {Segment(Peer(h), {"RST", "ACK"}, 0, Plus(g.seq, n), 0, <<>>)}]
  <2>1. fits = (("SYN" \in g.flags /\ "ACK" \notin g.flags /\ "RST" \notin g.flags) /\ h = Server /\ listening)
    BY <1>4, <1>6
  <2> QED BY <1>3, <1>4, <1>5, <2>1 DEF InputNone
<1>8. ASSUME fits PROVE syn /\ ~rst /\ ~(~rst /\ acks)
  BY <1>4, <1>6, <1>8
<1>9. ASSUME NEW out, z = [s |-> s, out |-> out],
             \A x \in out : SentOK(h, x, 0, 0, 0, FALSE, FALSE) /\ "RST" \in x.flags
      PROVE  StepOK(h, z.s, z.out, written[h], read[h], an)
  <2>1. StepOK(h, sock[h], out, written[h], read[h], app[h])
    BY <1>1, <1>9, SameStep
  <2>2. z.s = sock[h] /\ z.out = out /\ an = app[h]
    BY <1>3, <1>9
  <2> QED BY <2>1, <2>2
<1>10. CASE fits /\ app[h] = "idle"
  <2>1. z = [s |-> c, out |-> {Xmit(h, c, {"SYN", "ACK"}, c.snd_una, <<>>)}]
    BY <1>7, <1>8, <1>10
  <2>2. g.seq = Iss[Peer(h)]
    BY <1>1, <1>4, <1>8, <1>10 DEF Arrives
  <2>3. /\ StepOK(h, c, {Xmit(h, c, {"SYN", "ACK"}, c.snd_una, <<>>)}, written[h], read[h], "queued")
        /\ c.state # "NONE"
    BY <1>1, <1>2, <1>5, <1>10, <2>2, ChildStep
  <2>4. z.s = c /\ z.out = {Xmit(h, c, {"SYN", "ACK"}, c.snd_una, <<>>)}
    BY <2>1
  <2> QED BY <2>3, <2>4
<1>11. CASE (fits /\ app[h] # "idle") \/ (~fits /\ rst)
  <2>1. z = [s |-> s, out |-> {}]
    BY <1>7, <1>8, <1>11 DEF Quiet
  <2>2. PICK out : out = {}
    OBVIOUS
  <2>3. /\ z = [s |-> s, out |-> out]
        /\ \A x \in out : SentOK(h, x, 0, 0, 0, FALSE, FALSE) /\ "RST" \in x.flags
    BY <2>1, <2>2
  <2> QED BY <1>9, <2>3
<1>12. CASE ~fits /\ ~rst /\ acks
  <2>1. PICK x : x = Segment(Peer(h), {"RST"}, g.ack, 0, 0, <<>>)
    OBVIOUS
  <2>2. z = [s |-> s, out |-> {x}]
    BY <1>7, <1>12, <2>1
  <2>3. PICK f : f = {"RST"}
    OBVIOUS
  <2>4. f \in {{"RST"}, {"RST", "ACK"}} /\ 0 \in Int
    BY <2>3
  <2>5. x = Segment(Peer(h), f, g.ack, 0, 0, <<>>)
    BY <2>1, <2>3
  <2>6. SentOK(h, x, 0, 0, 0, FALSE, FALSE)
    BY <1>1, <1>2, <2>4, <2>5, ResetSent
  <2>7. "RST" \in x.flags
    BY <2>1 DEF Segment
  <2>8. PICK out : out = {x}
    OBVIOUS
  <2>9. /\ z = [s |-> s, out |-> out]
        /\ \A y \in out : SentOK(h, y, 0, 0, 0, FALSE, FALSE) /\ "RST" \in y.flags
    BY <2>2, <2>6, <2>7, <2>8
  <2> QED BY <1>9, <2>9
<1>13. CASE ~fits /\ ~rst /\ ~acks
  <2>1. PICK k \in Int : k = Plus(g.seq, n)
    <3>1. n \in Int
      BY <1>2, <1>5 DEF Bit
    <3> QED BY <1>2, <3>1, PlusInt
  <2>2. PICK x : x = Segment(Peer(h), {"RST", "ACK"}, 0, k, 0, <<>>)
    OBVIOUS
  <2>3. z = [s |-> s, out |-> {x}]
    BY <1>7, <1>13, <2>1, <2>2
  <2>4. PICK f : f = {"RST", "ACK"}
    OBVIOUS
  <2>5. f \in {{"RST"}, {"RST", "ACK"}} /\ 0 \in Int
    BY <2>4
  <2>6. x = Segment(Peer(h), f, 0, k, 0, <<>>)
    BY <2>2, <2>4
  <2>7. SentOK(h, x, 0, 0, 0, FALSE, FALSE)
    BY <1>1, <2>5, <2>6, ResetSent
  <2>8. "RST" \in x.flags
    BY <2>2 DEF Segment
  <2>9. PICK out : out = {x}
    OBVIOUS
  <2>10. /\ z = [s |-> s, out |-> out]
         /\ \A y \in out : SentOK(h, y, 0, 0, 0, FALSE, FALSE) /\ "RST" \in y.flags
    BY <2>3, <2>7, <2>8, <2>9
  <2> QED BY <1>9, <2>10
<1> QED BY <1>10, <1>11, <1>12, <1>13

LEMMA WindowNat ==
    ASSUME NEW cwnd, cwnd \in Windows \cup Failure \cup {Mss}
    PROVE  cwnd \in Nat
BY ConstantFacts DEF Windows, Failure

\* tcp_input()
LEMMA InputStep ==
    ASSUME TcpInv, NEW g \in net, NEW h, h = g.to, NEW cwnd \in Windows,
           NEW z, z = Input(h, sock[h], g, cwnd),
           NEW an, an = IF sock[h].state = "NONE" /\ z.s.state # "NONE" THEN "queued" ELSE app[h]
    PROVE  StepOK(h, z.s, z.out, written[h], read[h], an)
<1>1. /\ h \in Hosts
      /\ Arrives(h, g, written[h], written[Peer(h)], ~CanWrite(Peer(h)), Told(h, written[h]))
      /\ "RST" \notin g.flags => app[Peer(h)] # "idle"
  BY ArrivesOK
<1>2. PICK s : s = sock[h]
  OBVIOUS
<1>3. CASE s.state = "NONE"
  <2>1. z = InputNone(h, sock[h], g)
    BY <1>2, <1>3 DEF Input
  <2>2. an = IF z.s.state # "NONE" THEN "queued" ELSE app[h]
    BY <1>2, <1>3
  <2> QED BY <1>2, <1>3, <2>1, <2>2, InputNoneStep
<1>4. CASE s.state # "NONE"
  <2>1. PICK w \in Nat, r \in Nat, pw \in Nat, pt \in Nat :
           w = written[h] /\ r = read[h] /\ pw = written[Peer(h)] /\ pt = Told(h, written[h])
    BY <1>1, HostFacts, InvFacts
  <2>2. PICK ended : ended = ~CanWrite(Peer(h))
    OBVIOUS
  <2>3. /\ SockOK(h, s, w, r, pw, ended, pt) /\ w <= StreamLen[h] /\ pw <= StreamLen[Peer(h)]
    BY <1>1, <1>2, <1>4, <2>1, <2>2, HostFacts, InvFacts
  <2>3a. /\ s \in Sockets /\ app[h] \in AppStates /\ TimerOK(s, app[h]) /\ app[h] # "idle"
         /\ app[h] = "trying" => h = Client
         /\ s.state \in Connected => app[Peer(h)] # "idle"
    BY <1>1, <1>2, <1>4, <2>1, <2>2, HostFacts, InvFacts
  <2>4. Arrives(h, g, w, pw, ended, pt)
    BY <1>1, <2>1, <2>2
  <2>5. cwnd \in Nat /\ DupAcks \in Int /\ an = app[h]
    BY <1>2, <1>4, WindowNat, TcpAssumption
  <2>6. ASSUME ResultOK(h, s, z.s, z.out, w, r, pw, ended, pt, an),
               z.s.state \in Connected => app[Peer(h)] # "idle"
        PROVE  StepOK(h, z.s, z.out, written[h], read[h], an)
    <3>1. TimerOK(z.s, an)
      BY <2>3a, <2>5, <2>6 DEF ResultOK, Follows
    <3> QED BY <1>1, <1>2, <1>4, <2>1, <2>2, <2>3, <2>3a, <2>5, <2>6, <3>1, SocketStep
  <2>7. CASE s.state = "SYN_SENT"
    <3>1. z = InputSynSent(h, s, g)
      BY <1>2, <2>7 DEF Input
    <3>2. /\ ResultOK(h, s, z.s, z.out, w, r, pw, ended, pt, an)
          /\ z.s.state \in Connected => "RST" \notin g.flags
      BY <1>1, <2>3, <2>4, <2>7, <3>1, InputSynSentResult
    <3> QED BY <1>1, <2>6, <3>2
  <2>8. CASE s.state = "SYN_RECEIVED"
    <3>1. z = InputSynReceived(h, s, g, cwnd)
      BY <1>2, <2>8 DEF Input
    <3>2. /\ ResultOK(h, s, z.s, z.out, w, r, pw, ended, pt, an)
          /\ z.s.state \in Connected => "RST" \notin g.flags
      <4>2. h \in Hosts /\ w <= StreamLen[h] /\ pw <= StreamLen[Peer(h)]
        BY <1>1, <2>3
      <4>3. SockOK(h, s, w, r, pw, ended, pt) /\ Arrives(h, g, w, pw, ended, pt)
        BY <2>3, <2>4
      <4>4. DupAcks \in Int /\ cwnd \in Nat
        BY <2>5
      <4> QED BY <2>8, <3>1, <4>2, <4>3, <4>4, InputSynReceivedResult
    <3> QED BY <1>1, <2>6, <3>2
  <2>9. CASE s.state = "CLOSED"
    <3>1. z = [s |-> s, out |-> {}]
      BY <1>2, <2>9 DEF Input, Quiet
    <3>2. ResultOK(h, s, s, {}, w, r, pw, ended, pt, an)
      BY <1>4, <2>3, SameResult
    <3>3. s.state \notin Connected
      BY <2>9 DEF Connected
    <3> QED BY <2>6, <3>1, <3>2, <3>3
  <2>10. CASE s.state \in Connected
    <3>1. z = InputConnected(h, s, g, cwnd)
      BY <1>2, <2>10 DEF Input, Connected
    <3>2. ResultOK(h, s, z.s, z.out, w, r, pw, ended, pt, an)
      BY <1>1, <2>3, <2>4, <2>5, <2>10, <3>1, InputConnectedResult
    <3> QED BY <2>3a, <2>6, <2>10, <3>2
  <2>11. s.state \in SockStates
    BY <2>3a DEF Sockets
  <2> QED BY <1>4, <2>7, <2>8, <2>9, <2>10, <2>11 DEF SockStates, SynStates
<1> QED BY <1>3, <1>4

\* A segment is delivered, once or once more.
LEMMA DeliverInv ==
    ASSUME TcpInv, NEW g \in net, NEW again \in BOOLEAN, Deliver(g, again)
    PROVE  TcpInv'
<1>1. PICK h : h = g.to
  OBVIOUS
<1>2. PICK cwnd \in Windows : Leave(h, Input(h, sock[h], g, cwnd), IF again THEN net ELSE net \ {g})
  BY <1>1 DEF Deliver
<1>3. PICK z : z = Input(h, sock[h], g, cwnd)
  OBVIOUS
<1>4. sock' = [sock EXCEPT ![h] = z.s] /\ net' \subseteq net \cup z.out
  BY <1>2, <1>3 DEF Leave
<1>5. PICK an : an = IF sock[h].state = "NONE" /\ z.s.state # "NONE" THEN "queued" ELSE app[h]
  OBVIOUS
<1>6. StepOK(h, z.s, z.out, written[h], read[h], an)
  BY <1>1, <1>3, <1>5, InputStep
<1>7. h \in Hosts /\ sock \in [Hosts -> Sockets] /\ app \in [Hosts -> AppStates]
  BY <1>1, ArrivesOK DEF TcpInv, TcpTypeOK
<1>8. app' = [app EXCEPT ![h] = an]
  <2>1. sock'[h] = z.s
    BY <1>4, <1>7
  <2>2. app' = IF sock[h].state = "NONE" /\ z.s.state # "NONE" THEN [app EXCEPT ![h] = "queued"] ELSE app
    BY <1>1, <2>1 DEF Deliver
  <2> QED BY <1>5, <1>7, <2>2
<1>9. faults' \in Nat /\ listening' \in BOOLEAN /\ UNCHANGED <<written, read>>
  BY DEF Deliver, TcpInv, TcpTypeOK, Bit
<1> QED BY <1>4, <1>6, <1>7, <1>8, <1>9, StepFrame

\* A segment is lost.
LEMMA LoseInv ==
    ASSUME TcpInv, NEW g \in net, Lose(g)
    PROVE  TcpInv'
<1>1. sock \in [Hosts -> Sockets] /\ app \in [Hosts -> AppStates] /\ Client \in Hosts
  BY DEF TcpInv, TcpTypeOK, Hosts
<1>2. StepOK(Client, sock[Client], {}, written[Client], read[Client], app[Client])
  BY <1>1, SameStep
<1>3. sock' = [sock EXCEPT ![Client] = sock[Client]] /\ app' = [app EXCEPT ![Client] = app[Client]]
  BY <1>1 DEF Lose
<1>4. net' \subseteq net \cup {} /\ UNCHANGED <<written, read>> /\ faults' \in Nat /\ listening' \in BOOLEAN
  BY DEF Lose, TcpInv, TcpTypeOK
<1> QED BY <1>1, <1>2, <1>3, <1>4, StepFrame

\* A socket whose streams are those of s: only the timer, the counters or the owner
\* differ.
SameStreams(s, z) ==
    /\ z \in Sockets /\ z.state = s.state /\ z.tx = s.tx /\ z.snd_una = s.snd_una /\ z.tx_sent = s.tx_sent
    /\ z.fin_queued = s.fin_queued /\ z.fin_sent = s.fin_sent
    /\ SameRecv(s, z)

LEMMA SameStreamsOK ==
    ASSUME NEW h, NEW s, NEW z, NEW w, NEW r, NEW pw, NEW ended, NEW pt,
           SockOK(h, s, w, r, pw, ended, pt), SameStreams(s, z)
    PROVE  SockOK(h, z, w, r, pw, ended, pt)
<1>1. SendOK(h, z, w)
  <2>1. SendOK(h, s, w)
    BY DEF SockOK
  <2> QED BY <2>1, SendOKSame DEF SameStreams
<1>2. RecvOK(h, z, r, pw, ended)
  <2>1. RecvOK(h, s, r, pw, ended)
    BY DEF SockOK
  <2> QED BY <2>1, RecvOKSame DEF SameStreams
<1> QED BY <1>1, <1>2 DEF SockOK, SameStreams

LEMMA SameStreamsResult ==
    ASSUME NEW h, NEW y, NEW s, NEW z, NEW out, NEW w, NEW r, NEW pw, NEW ended, NEW pt, NEW a,
           ResultOK(h, y, s, out, w, r, pw, ended, pt, a), SameStreams(s, z), TimerOK(z, a)
    PROVE  ResultOK(h, y, z, out, w, r, pw, ended, pt, a)
<1>1. SockOK(h, z, w, r, pw, ended, pt)
  BY SameStreamsOK DEF ResultOK
<1>2. z.rx_len = s.rx_len /\ z.state = s.state
  BY DEF SameStreams, SameRecv
<1> QED BY <1>1, <1>2 DEF ResultOK, Follows

\* The application waits for something else, but not for its first SYN.
LEMMA TimerKept ==
    ASSUME NEW s, NEW a, NEW b, TimerOK(s, a), a # "trying"
    PROVE  TimerOK(s, b)
BY DEF TimerOK

\* Closing the socket of h, whatever its application does next.
LEMMA ShutStep ==
    ASSUME TcpInv, NEW h \in Hosts, sock[h].state # "NONE", NEW z, NEW y, y = Shut(sock[h]),
           SameStreams(y, z), NEW an \in AppStates, an \notin {"idle", "trying"}
    PROVE  StepOK(h, z, {}, written[h], read[h], an)
<1>1. PICK p \in Hosts : p = Peer(h)
  BY HostFacts
<1>2. PICK w \in Nat, r \in Nat, pw \in Nat, pt \in Nat :
         w = written[h] /\ r = read[h] /\ pw = written[Peer(h)] /\ pt = Told(h, written[h])
  BY <1>1, InvFacts
<1>3. PICK ended : ended = ~CanWrite(Peer(h))
  OBVIOUS
<1>4. SockOK(h, sock[h], w, r, pw, ended, pt) /\ sock[h] \in Sockets
  BY <1>2, <1>3, InvFacts
<1>5. ResultOK(h, sock[h], y, {}, w, r, pw, ended, pt, an)
  BY <1>4, ShutResult
<1>6. y.state = "CLOSED"
  BY <1>4, ShutFacts
<1>7. z.state = "CLOSED" /\ z.state \notin Connected /\ TimerOK(z, an)
  BY <1>6 DEF SameStreams, TimerOK, Connected
<1>8. ResultOK(h, sock[h], z, {}, w, r, pw, ended, pt, an)
  BY <1>5, <1>7, SameStreamsResult
<1> QED BY <1>2, <1>3, <1>7, <1>8, SocketStep

\* Only flags of the socket of h change.
LEMMA FlagStep ==
    ASSUME TcpInv, NEW h \in Hosts, sock[h].state # "NONE", NEW z, SameStreams(sock[h], z),
           NEW an \in AppStates, an # "idle", an = "trying" => h = Client, TimerOK(z, an)
    PROVE  StepOK(h, z, {}, written[h], read[h], an)
<1>1. PICK p \in Hosts : p = Peer(h)
  BY HostFacts
<1>2. PICK w \in Nat, r \in Nat, pw \in Nat, pt \in Nat :
         w = written[h] /\ r = read[h] /\ pw = written[Peer(h)] /\ pt = Told(h, written[h])
  BY <1>1, InvFacts
<1>3. PICK ended : ended = ~CanWrite(Peer(h))
  OBVIOUS
<1>4. SockOK(h, sock[h], w, r, pw, ended, pt) /\ (sock[h].state \in Connected => app[Peer(h)] # "idle")
  BY <1>2, <1>3, InvFacts
<1>5. ResultOK(h, sock[h], sock[h], {}, w, r, pw, ended, pt, an)
  BY <1>4, SameResult
<1>6. ResultOK(h, sock[h], z, {}, w, r, pw, ended, pt, an)
  BY <1>5, SameStreamsResult
<1>7. z.state \in Connected => app[Peer(h)] # "idle"
  BY <1>4 DEF SameStreams
<1> QED BY <1>2, <1>3, <1>6, <1>7, SocketStep

LEMMA SameStreamsSelf ==
    ASSUME NEW s \in Sockets
    PROVE  SameStreams(s, s)
BY DEF SameStreams, SameRecv

\* The flags that change on their own.
LEMMA FlagsFacts ==
    ASSUME NEW s \in Sockets, NEW b \in BOOLEAN, NEW c \in BOOLEAN, NEW n \in Int, NEW z,
           \/ z = [s EXCEPT !.rtx = b]
           \/ z = [s EXCEPT !.rtx_count = n, !.rtx = b]
           \/ z = [s EXCEPT !.detached = b]
           \/ z = [s EXCEPT !.unaccepted = b, !.detached = c]
    PROVE  SameStreams(s, z)
<1>1. CASE z = [s EXCEPT !.rtx = b]
  BY <1>1 DEF SameStreams, SameRecv, Sockets
<1>2. CASE z = [s EXCEPT !.rtx_count = n, !.rtx = b]
  BY <1>2 DEF SameStreams, SameRecv, Sockets
<1>3. CASE z = [s EXCEPT !.detached = b]
  BY <1>3 DEF SameStreams, SameRecv, Sockets
<1>4. CASE z = [s EXCEPT !.unaccepted = b, !.detached = c]
  BY <1>4 DEF SameStreams, SameRecv, Sockets
<1> QED BY <1>1, <1>2, <1>3, <1>4

LEMMA AppNames ==
    \A a \in {"queued", "trying", "waiting", "open", "closing", "closed", "left"} :
        a \in AppStates /\ a # "idle"
BY DEF AppStates

\* What does not change in a step of an application.
Quietly == listening' \in BOOLEAN /\ faults' \in Nat /\ UNCHANGED <<written, read>>

LEMMA QuietlyFacts ==
    ASSUME TcpInv, UNCHANGED <<listening, written, read, faults>>
    PROVE  Quietly
BY DEF Quietly, TcpInv, TcpTypeOK

-----------------------------------------------------------------------------
(* The steps of the applications.                                          *)

\* tcp_socket_connect() and tcp_socket_connect_start().
LEMMA ConnectInv ==
    ASSUME TcpInv, NEW waits \in BOOLEAN, NEW sent \in BOOLEAN, Connect(waits, sent)
    PROVE  TcpInv'
<1>1. PICK h : h = Client
  OBVIOUS
<1>2. PICK s : s = [Fresh(h) EXCEPT !.state = "SYN_SENT", !.snd_max = Plus(Iss[h], 1),
                                    !.peer_wnd = TxMax, !.rtx = sent \/ ~waits]
  OBVIOUS
<1>3. PICK out : out = {Xmit(h, s, {"SYN"}, s.snd_una, <<>>) : x \in {TRUE} \cap {sent}}
  OBVIOUS
<1>4. PICK an : an = IF ~waits THEN "open" ELSE IF sent THEN "waiting" ELSE "trying"
  OBVIOUS
<1>5. /\ app[h] = "idle" /\ Leave(h, [s |-> s, out |-> out], net) /\ Becomes(h, an)
      /\ UNCHANGED <<listening, written, read, faults>>
  BY <1>1, <1>2, <1>3, <1>4 DEF Connect
<1>6. sock' = [sock EXCEPT ![h] = s] /\ net' \subseteq net \cup out /\ app' = [app EXCEPT ![h] = an]
  BY <1>5 DEF Leave, Becomes
<1>7. h \in Hosts
  BY <1>1 DEF Hosts
<1>8. PICK p \in Hosts : p = Peer(h)
  BY <1>7, HostFacts
<1>9. PICK w \in Nat, r \in Nat, pw \in Nat : w = written[h] /\ r = read[h] /\ pw = written[p]
  BY <1>7, <1>8, InvFacts
<1>10. w = 0 /\ r = 0 /\ sock[h].state = "NONE"
  BY <1>5, <1>7, <1>9, InvFacts
<1>11. PICK f : f = Fresh(h)
  OBVIOUS
<1>12. /\ f \in Sockets /\ f.snd_una = Iss[h] /\ f.tx = <<>> /\ f.tx_sent = 0
       /\ f.fin_queued = FALSE /\ f.fin_sent = FALSE /\ f.ooo_len = 0 /\ f.rx_len = 0
  BY <1>7, <1>11, FreshFacts
<1>13. PICK max \in Int, win \in Int : max = Plus(Iss[h], 1) /\ win = TxMax
  <2>1. Iss[h] \in Int /\ 1 \in Int /\ TxMax \in Int
    BY <1>7, ConstantFacts
  <2> QED BY <2>1, PlusInt
<1>14. PICK b \in BOOLEAN : b = (sent \/ ~waits)
  OBVIOUS
<1>15. PICK st \in SockStates : st = "SYN_SENT"
  BY DEF SockStates, SynStates
<1>16. s = [f EXCEPT !.state = st, !.snd_max = max, !.peer_wnd = win, !.rtx = b]
  BY <1>2, <1>11, <1>13, <1>14, <1>15
<1>17. /\ s \in Sockets /\ s.snd_una = Iss[h] /\ s.tx = <<>> /\ s.tx_sent = 0 /\ s.rtx = b
       /\ s.fin_queued = FALSE /\ s.fin_sent = FALSE /\ s.ooo_len = 0 /\ s.rx_len = 0 /\ s.state = st
  BY <1>12, <1>16 DEF Sockets
<1>18. /\ st \in SynStates /\ st \in MayWrite /\ st \notin Connected /\ st \notin FinIsAcked
       /\ st \notin FinIsTaken /\ st \notin {"NONE", "CLOSED"}
  BY <1>15 DEF SynStates, MayWrite, Connected, FinIsAcked, FinIsTaken
<1>19. SendOK(h, s, w)
  <2>1. Len(s.tx) = 0
    BY <1>17
  <2> QED BY <1>10, <1>17, <1>18, <2>1 DEF SendOK
<1>20. RecvOK(h, s, r, pw, ~CanWrite(p))
  BY <1>10, <1>15, <1>17, <1>18, ConstantFacts DEF RecvOK
<1>21. w - Len(s.tx) <= Told(h, w)
  <2>1. Told(h, w) \in Nat /\ Len(s.tx) = 0
    BY <1>7, <1>9, <1>17, InvFacts
  <2> QED BY <1>10, <2>1
<1>22. SockOK(h, s, w, r, pw, ~CanWrite(p), Told(h, w))
  BY <1>17, <1>19, <1>20, <1>21 DEF SockOK
<1>23. ASSUME NEW x \in out PROVE SentOK(h, x, w, r + s.rx_len, pw, ~CanWrite(p), s.state \in MayWrite)
  <2>1. PICK fl : fl = {"SYN"}
    OBVIOUS
  <2>2. x = Xmit(h, s, fl, s.snd_una, <<>>) /\ fl \in {{"SYN"}, {"SYN", "ACK"}} /\ "ACK" \notin fl
    BY <1>3, <2>1
  <2> QED BY <1>7, <1>17, <2>2, SynSent
<1>24. an \in AppStates /\ an # "idle" /\ TimerOK(s, an)
  BY <1>4, <1>14, <1>17, AppNames DEF TimerOK
<1>25. w <= StreamLen[h] /\ w >= w
  BY <1>7, <1>9, InvFacts
<1>26. CanWrite(h)
  BY <1>5 DEF CanWrite
<1>27. StepOK(h, s, out, w, r, an)
  BY <1>1, <1>5, <1>8, <1>9, <1>10, <1>17, <1>18, <1>22, <1>23, <1>24, <1>25, <1>26 DEF StepOK
<1>28. Quietly
  BY <1>5, QuietlyFacts
<1> QED BY <1>6, <1>7, <1>9, <1>27, <1>28, StepFrame DEF Quietly

\* The first SYN of tcp_connect_common() goes out.
LEMMA ConnectSynInv ==
    ASSUME TcpInv, ConnectSyn
    PROVE  TcpInv'
<1>1. PICK h \in Hosts : h = Client
  BY DEF Hosts
<1>2. PICK s : s = [sock[h] EXCEPT !.rtx = TRUE]
  OBVIOUS
<1>3. PICK out : out = {Xmit(h, s, {"SYN"}, s.snd_una, <<>>)}
  OBVIOUS
<1>4. /\ s.state = "SYN_SENT" /\ Leave(h, [s |-> s, out |-> out], net) /\ Becomes(h, "waiting")
      /\ UNCHANGED <<listening, written, read, faults>>
  BY <1>1, <1>2, <1>3 DEF ConnectSyn
<1>5. sock' = [sock EXCEPT ![h] = s] /\ net' \subseteq net \cup out /\ app' = [app EXCEPT ![h] = "waiting"]
  BY <1>4 DEF Leave, Becomes
<1>6. PICK p \in Hosts : p = Peer(h)
  BY HostFacts
<1>7. PICK w \in Nat, r \in Nat, pw \in Nat, pt \in Nat :
         w = written[h] /\ r = read[h] /\ pw = written[Peer(h)] /\ pt = Told(h, written[h])
  BY <1>6, InvFacts
<1>8. PICK ended : ended = ~CanWrite(Peer(h))
  OBVIOUS
<1>9. SockOK(h, sock[h], w, r, pw, ended, pt) /\ sock[h] \in Sockets
  BY <1>7, <1>8, InvFacts
<1>10. SameStreams(sock[h], s) /\ s.rtx = TRUE
  <2>1. PICK b \in BOOLEAN : b = TRUE
    OBVIOUS
  <2>2. s = [sock[h] EXCEPT !.rtx = b]
    BY <1>2, <2>1
  <2>3. s.rtx = b
    BY <1>9, <2>2 DEF Sockets
  <2>4. 0 \in Int
    OBVIOUS
  <2> QED BY <1>9, <2>1, <2>2, <2>3, <2>4, FlagsFacts
<1>11. TimerOK(s, "waiting") /\ sock[h].state = "SYN_SENT" /\ s.state \notin Connected
  BY <1>4, <1>10 DEF TimerOK, SameStreams, Connected
<1>12. SockOK(h, s, w, r, pw, ended, pt) /\ s \in Sockets
  BY <1>9, <1>10, SameStreamsOK DEF SameStreams
<1>13. s.snd_una = Iss[h]
  BY <1>4, <1>12 DEF SockOK, SendOK, SynStates
<1>14. ASSUME NEW x \in out PROVE SentOK(h, x, w, r + s.rx_len, pw, ended, s.state \in MayWrite)
  <2>1. PICK fl : fl = {"SYN"}
    OBVIOUS
  <2>2. x = Xmit(h, s, fl, s.snd_una, <<>>) /\ fl \in {{"SYN"}, {"SYN", "ACK"}} /\ "ACK" \notin fl
    BY <1>3, <2>1
  <2> QED BY <1>12, <1>13, <2>2, SynSent
<1>15. ResultOK(h, sock[h], sock[h], {}, w, r, pw, ended, pt, "waiting")
  BY <1>9, <1>11, SameResult
<1>16. ResultOK(h, sock[h], s, {}, w, r, pw, ended, pt, "waiting")
  BY <1>10, <1>11, <1>15, SameStreamsResult
<1>17. ResultOK(h, sock[h], s, out, w, r, pw, ended, pt, "waiting")
  BY <1>14, <1>16 DEF ResultOK
<1>18. StepOK(h, s, out, written[h], read[h], "waiting")
  BY <1>7, <1>8, <1>11, <1>17, AppNames, SocketStep
<1>19. Quietly
  BY <1>4, QuietlyFacts
<1> QED BY <1>5, <1>18, <1>19, StepFrame DEF Quietly

\* The application of h goes on without the socket changing.
LEMMA ConnectDoneInv ==
    ASSUME TcpInv, ConnectDone
    PROVE  TcpInv'
<1>1. PICK h \in Hosts : h = Client
  BY DEF Hosts
<1>2. /\ app[h] = "waiting" /\ sock[h].state = "ESTABLISHED" /\ Becomes(h, "open")
      /\ UNCHANGED <<sock, net, listening, written, read, faults>>
  BY <1>1 DEF ConnectDone
<1>3. sock[h] \in Sockets /\ TimerOK(sock[h], app[h]) /\ sock \in [Hosts -> Sockets]
  BY InvFacts DEF TcpInv, TcpTypeOK
<1>4. TimerOK(sock[h], "open")
  BY <1>2, <1>3, TimerKept
<1>5. SameStreams(sock[h], sock[h])
  BY <1>3, SameStreamsSelf
<1>6. StepOK(h, sock[h], {}, written[h], read[h], "open")
  BY <1>2, <1>4, <1>5, AppNames, FlagStep
<1>7. sock' = [sock EXCEPT ![h] = sock[h]] /\ net' \subseteq net \cup {} /\ app' = [app EXCEPT ![h] = "open"]
  BY <1>2, <1>3 DEF Becomes
<1>8. Quietly
  BY <1>2, QuietlyFacts
<1> QED BY <1>6, <1>7, <1>8, StepFrame DEF Quietly

\* A socket that is closed and nothing else.
LEMMA ShutInv ==
    ASSUME TcpInv, NEW h \in Hosts, sock[h].state # "NONE",
           sock' = [sock EXCEPT ![h] = Shut(sock[h])],
           NEW an \in AppStates, an \notin {"idle", "trying"}, app' = [app EXCEPT ![h] = an],
           UNCHANGED <<net, listening, written, read, faults>>
    PROVE  TcpInv'
<1>1. PICK z : z = Shut(sock[h])
  OBVIOUS
<1>2. z \in Sockets
  BY <1>1, ShutFacts, InvFacts
<1>3. StepOK(h, z, {}, written[h], read[h], an)
  BY <1>1, <1>2, SameStreamsSelf, ShutStep
<1>4. Quietly
  BY QuietlyFacts
<1>5. net' \subseteq net \cup {}
  OBVIOUS
<1> QED BY <1>1, <1>3, <1>4, <1>5, StepFrame DEF Quietly

LEMMA ConnectFailsInv ==
    ASSUME TcpInv, ConnectFails
    PROVE  TcpInv'
<1>1. PICK h \in Hosts : h = Client
  BY DEF Hosts
<1>2. /\ app[h] \in {"trying", "waiting"} /\ Becomes(h, "closed")
      /\ UNCHANGED <<net, listening, written, read, faults>>
      /\ sock' = [sock EXCEPT ![h] = Shut(sock[h])]
  BY <1>1 DEF ConnectFails
<1>3. sock[h].state # "NONE"
  BY <1>2, InvFacts
<1>4. app' = [app EXCEPT ![h] = "closed"]
  BY <1>2 DEF Becomes
<1> QED BY <1>2, <1>3, <1>4, AppNames, ShutInv

LEMMA CloseEndsInv ==
    ASSUME TcpInv, NEW h \in Hosts, CloseEnds(h)
    PROVE  TcpInv'
<1>1. /\ app[h] = "closing" /\ Becomes(h, "closed")
      /\ UNCHANGED <<net, listening, written, read, faults>>
      /\ sock' = [sock EXCEPT ![h] = Shut(sock[h])]
  BY DEF CloseEnds
<1>2. sock[h].state # "NONE"
  BY <1>1, InvFacts
<1>3. app' = [app EXCEPT ![h] = "closed"]
  BY <1>1 DEF Becomes
<1> QED BY <1>1, <1>2, <1>3, AppNames, ShutInv

LEMMA TimeWaitEndsInv ==
    ASSUME TcpInv, NEW h \in Hosts, TimeWaitEnds(h)
    PROVE  TcpInv'
<1>1. /\ sock[h].state = "TIME_WAIT" /\ UNCHANGED <<net, listening, app, written, read, faults>>
      /\ sock' = [sock EXCEPT ![h] = Shut(sock[h])]
  BY DEF TimeWaitEnds
<1>2. PICK z : z = Shut(sock[h])
  OBVIOUS
<1>3. z \in Sockets /\ z.state = "CLOSED" /\ sock[h] \in Sockets
  <2>1. sock[h] \in Sockets
    BY InvFacts
  <2> QED BY <1>2, <2>1, ShutFacts
<1>4. PICK p \in Hosts : p = Peer(h)
  BY HostFacts
<1>5. PICK w \in Nat, r \in Nat, pw \in Nat, pt \in Nat :
         w = written[h] /\ r = read[h] /\ pw = written[Peer(h)] /\ pt = Told(h, written[h])
  BY <1>4, InvFacts
<1>6. PICK ended : ended = ~CanWrite(Peer(h))
  OBVIOUS
<1>7. /\ SockOK(h, sock[h], w, r, pw, ended, pt) /\ app[h] \in AppStates /\ app[h] # "idle"
      /\ app[h] = "trying" => h = Client
  BY <1>1, <1>5, <1>6, InvFacts
<1>8. ResultOK(h, sock[h], z, {}, w, r, pw, ended, pt, app[h])
  BY <1>1, <1>2, <1>7, ShutResult
<1>9. TimerOK(z, app[h]) /\ z.state \notin Connected
  BY <1>3 DEF TimerOK, Connected
<1>10. StepOK(h, z, {}, written[h], read[h], app[h])
  BY <1>1, <1>5, <1>6, <1>7, <1>8, <1>9, SocketStep
<1>11. Quietly
  BY <1>1, QuietlyFacts
<1>12. app' = [app EXCEPT ![h] = app[h]] /\ net' \subseteq net \cup {}
  BY <1>1 DEF TcpInv, TcpTypeOK
<1> QED BY <1>1, <1>2, <1>10, <1>11, <1>12, StepFrame DEF Quietly

LEMMA GoneInv ==
    ASSUME TcpInv, NEW h \in Hosts, sock' = [sock EXCEPT ![h] = Gone(h)], Becomes(h, "left"),
           UNCHANGED <<net, listening, written, read, faults>>
    PROVE  TcpInv'
<1>1. StepOK(h, Gone(h), {}, written[h], read[h], "left")
  BY GoneStep
<1>2. app' = [app EXCEPT ![h] = "left"] /\ net' \subseteq net \cup {}
  BY DEF Becomes
<1>3. Quietly
  BY QuietlyFacts
<1> QED BY <1>1, <1>2, <1>3, StepFrame DEF Quietly

LEMMA DestroyInv ==
    ASSUME TcpInv, NEW h \in Hosts, Destroy(h)
    PROVE  TcpInv'
BY GoneInv DEF Destroy

LEMMA PollFreeInv ==
    ASSUME TcpInv, NEW h \in Hosts, PollFree(h)
    PROVE  TcpInv'
BY GoneInv DEF PollFree

\* tcp_socket_accept()
LEMMA AcceptInv ==
    ASSUME TcpInv, Accept
    PROVE  TcpInv'
<1>1. PICK h \in Hosts : h = Server
  BY DEF Hosts
<1>2. sock \in [Hosts -> Sockets] /\ sock[h] \in Sockets /\ TimerOK(sock[h], app[h]) /\ app[h] # "trying"
  BY <1>1, InvFacts, TcpAssumption DEF TcpInv, TcpTypeOK
<1>3. PICK c \in BOOLEAN : c = (sock[h].state = "CLOSED")
  <2>1. (sock[h].state = "CLOSED") \in BOOLEAN
    OBVIOUS
  <2> QED BY <2>1
<1>4. PICK b \in BOOLEAN : b = FALSE
  OBVIOUS
<1>5. PICK z : z = [sock[h] EXCEPT !.unaccepted = b, !.detached = c]
  OBVIOUS
<1>6. PICK an : an = IF sock[h].state = "CLOSED" THEN "left" ELSE "open"
  OBVIOUS
<1>7. /\ sock[h].state # "NONE" /\ Becomes(h, an)
      /\ UNCHANGED <<net, listening, written, read, faults>>
      /\ sock' = [sock EXCEPT ![h] = z]
  <2>1. sock' = [sock EXCEPT ![h].unaccepted = b, ![h].detached = c]
    BY <1>1, <1>3, <1>4 DEF Accept
  <2>2. sock' = [sock EXCEPT ![h] = z]
    BY <1>2, <1>5, <2>1
  <2> QED BY <1>1, <1>6, <2>2 DEF Accept
<1>8. SameStreams(sock[h], z) /\ z.rtx = sock[h].rtx /\ z.reset_seen = sock[h].reset_seen
  <2>1. z.rtx = sock[h].rtx /\ z.reset_seen = sock[h].reset_seen
    BY <1>2, <1>5 DEF Sockets
  <2>2. 0 \in Int
    OBVIOUS
  <2> QED BY <1>2, <1>5, <2>1, <2>2, FlagsFacts
<1>9. TimerOK(z, an)
  <2>1. z.state = sock[h].state /\ (Pending(z) <=> Pending(sock[h]))
    BY <1>8 DEF SameStreams, Pending
  <2> QED BY <1>2, <1>8, <2>1 DEF TimerOK
<1>10. an \in AppStates /\ an # "idle" /\ an # "trying"
  BY <1>6, AppNames
<1>11. StepOK(h, z, {}, written[h], read[h], an)
  BY <1>7, <1>8, <1>9, <1>10, FlagStep
<1>12. app' = [app EXCEPT ![h] = an] /\ net' \subseteq net \cup {}
  BY <1>7 DEF Becomes
<1>13. Quietly
  BY <1>7, QuietlyFacts
<1> QED BY <1>7, <1>11, <1>12, <1>13, StepFrame DEF Quietly

\* The listener is closed.
LEMMA StopListeningInv ==
    ASSUME TcpInv, StopListening
    PROVE  TcpInv'
<1>1. PICK h \in Hosts : h = Server
  BY DEF Hosts
<1>2. sock \in [Hosts -> Sockets] /\ sock[h] \in Sockets /\ app \in [Hosts -> AppStates]
  BY InvFacts DEF TcpInv, TcpTypeOK
<1>3. listening' \in BOOLEAN /\ faults' \in Nat /\ UNCHANGED <<net, written, read>>
  BY DEF StopListening, TcpInv, TcpTypeOK
<1>4. CASE sock[h].unaccepted
  <2>1. sock[h].state # "NONE"
    BY <1>4, InvFacts
  <2>2. PICK y : y = Shut(sock[h])
    OBVIOUS
  <2>3. PICK b \in BOOLEAN, c \in BOOLEAN : b = FALSE /\ c = TRUE
    OBVIOUS
  <2>4. PICK z : z = [y EXCEPT !.unaccepted = b, !.detached = c]
    OBVIOUS
  <2>5. sock' = [sock EXCEPT ![h] = z] /\ Becomes(h, "left")
    BY <1>1, <1>2, <1>4, <2>2, <2>3, <2>4 DEF StopListening
  <2>6. y \in Sockets
    BY <1>2, <2>2, ShutFacts
  <2>7. SameStreams(y, z)
    <3>1. 0 \in Int
      OBVIOUS
    <3> QED BY <2>4, <2>6, <3>1, FlagsFacts
  <2>8. StepOK(h, z, {}, written[h], read[h], "left")
    BY <2>1, <2>2, <2>7, AppNames, ShutStep
  <2>9. app' = [app EXCEPT ![h] = "left"] /\ net' \subseteq net \cup {}
    BY <1>3, <2>5 DEF Becomes
  <2> QED BY <1>3, <2>5, <2>8, <2>9, StepFrame
<1>5. CASE ~sock[h].unaccepted
  <2>1. UNCHANGED <<sock, app>>
    BY <1>1, <1>5 DEF StopListening
  <2>2. StepOK(h, sock[h], {}, written[h], read[h], app[h])
    BY SameStep
  <2>3. sock' = [sock EXCEPT ![h] = sock[h]] /\ app' = [app EXCEPT ![h] = app[h]] /\ net' \subseteq net \cup {}
    BY <1>2, <1>3, <2>1
  <2> QED BY <1>3, <2>2, <2>3, StepFrame
<1> QED BY <1>4, <1>5

\* The send queue x is q and, behind it, the n bytes behind the first w.
Queued(q, x, w, n) ==
    /\ x \in Seq(Nat) /\ Len(x) = Len(q) + n
    /\ \A i \in 1 .. Len(q) : x[i] = q[i]
    /\ \A i \in 1 .. n : x[Len(q) + i] = w + i

LEMMA QueuedBytes ==
    ASSUME NEW q \in Seq(Nat), NEW w \in Nat, NEW n \in Nat, NEW d, d = [i \in 1 .. n |-> w + i],
           NEW x, x = q \o d
    PROVE  Queued(q, x, w, n)
<1>1. d \in Seq(Nat) /\ Len(d) = n /\ \A i \in 1 .. n : d[i] = w + i
  OBVIOUS
<1>2. PICK e \in Seq(Nat) : e = d
  BY <1>1
<1>3. /\ q \o e \in Seq(Nat) /\ Len(q \o e) = Len(q) + Len(e)
      /\ \A i \in 1 .. Len(q) : (q \o e)[i] = q[i]
      /\ \A i \in 1 .. Len(e) : (q \o e)[Len(q) + i] = e[i]
  OBVIOUS
<1>4. PICK y : y = q \o e
  OBVIOUS
<1>5. /\ y \in Seq(Nat) /\ Len(y) = Len(q) + Len(e)
      /\ \A i \in 1 .. Len(q) : y[i] = q[i]
      /\ \A i \in 1 .. Len(e) : y[Len(q) + i] = e[i]
  BY <1>3, <1>4
<1>6. x = y /\ Len(e) = n /\ \A i \in 1 .. n : e[i] = w + i
  BY <1>1, <1>2, <1>4
<1> QED BY <1>5, <1>6 DEF Queued

\* The bytes that tcp_socket_send() appends to the send queue.
LEMMA QueueOK ==
    ASSUME NEW h \in Hosts, NEW s, NEW w \in Nat, NEW n \in Nat, NEW r, NEW pw, NEW ended, NEW pt \in Nat,
           NEW qt \in Nat, pt <= qt,
           SockOK(h, s, w, r, pw, ended, pt), s.state \in {"ESTABLISHED", "CLOSE_WAIT"},
           NEW t \in Sockets, Queued(s.tx, t.tx, w, n), t.state = s.state, t.snd_una = s.snd_una,
           t.tx_sent = s.tx_sent, t.fin_queued = s.fin_queued, t.fin_sent = s.fin_sent, SameRecv(s, t)
    PROVE  /\ SockOK(h, t, w + n, r, pw, ended, qt) /\ t.state = s.state /\ t.rx_len = s.rx_len
<1>1. /\ s \in Sockets /\ SendOK(h, s, w) /\ RecvOK(h, s, r, pw, ended) /\ w - Len(s.tx) <= pt
  BY DEF SockOK
<1>2. s.tx \in Seq(Nat) /\ Len(s.tx) \in Nat
  BY <1>1 DEF Sockets
<1>4. PICK tx : tx = t.tx
  OBVIOUS
<1>5. /\ tx \in Seq(Nat) /\ Len(tx) = Len(s.tx) + n
      /\ \A i \in 1 .. Len(s.tx) : tx[i] = s.tx[i]
      /\ \A i \in 1 .. n : tx[Len(s.tx) + i] = w + i
  BY <1>4 DEF Queued
<1>7. /\ t \in Sockets /\ t.state = s.state /\ t.snd_una = s.snd_una /\ t.tx_sent = s.tx_sent /\ t.tx = tx
      /\ t.fin_queued = s.fin_queued /\ t.fin_sent = s.fin_sent /\ SameRecv(s, t)
  BY <1>4
<1>8. PICK l \in Nat : l = Len(s.tx)
  BY <1>2
<1>9. /\ l <= w /\ s.tx_sent \in 0 .. l /\ (s.fin_queued => s.state \in Closes) /\ (s.fin_sent => s.fin_queued)
      /\ \A i \in 1 .. l : s.tx[i] = (w - l) + i
      /\ s.state \in Connected /\ s.state \notin FinIsAcked /\ s.state \notin SynStates
      /\ s.snd_una = Plus(Iss[h], 1 + (w - l) + Bit(s.state \in FinIsAcked))
      /\ w - l <= pt
  BY <1>1, <1>8 DEF SendOK, Connected, FinIsAcked, SynStates
<1>10. (w + n) - (l + n) = w - l /\ l + n <= w + n /\ l + n \in Nat
  BY <1>9
<1>11. Len(t.tx) = l + n
  BY <1>5, <1>7, <1>8
<1>12. \A i \in 1 .. l + n : tx[i] = (w - l) + i
  <2>1. SUFFICES ASSUME NEW i \in 1 .. l + n PROVE tx[i] = (w - l) + i
    OBVIOUS
  <2>2. CASE i <= l
    <3>1. i \in 1 .. l
      BY <2>2
    <3> QED BY <1>5, <1>8, <1>9, <3>1
  <2>3. CASE i > l
    <3>1. PICK j \in Int : j = i - l
      OBVIOUS
    <3>1a. j \in 1 .. n /\ i = l + j
      BY <2>3, <3>1
    <3>2. tx[i] = w + j
      BY <1>5, <1>8, <3>1a
    <3>3. w + j = (w - l) + i
      BY <1>9, <3>1a
    <3> QED BY <3>2, <3>3
  <2> QED BY <2>2, <2>3
<1>13. t.snd_una = Plus(Iss[h], 1 + ((w + n) - (l + n)) + Bit(t.state \in FinIsAcked))
  BY <1>7, <1>9, <1>10
<1>14. t.tx_sent \in 0 .. l + n
  BY <1>7, <1>9
<1>15. SendOK(h, t, w + n)
  <2>1. \A i \in 1 .. Len(t.tx) : t.tx[i] = ((w + n) - Len(t.tx)) + i
    BY <1>7, <1>10, <1>11, <1>12
  <2> QED BY <1>7, <1>9, <1>10, <1>11, <1>13, <1>14, <2>1 DEF SendOK
<1>16. RecvOK(h, t, r, pw, ended)
  BY <1>1, <1>7, RecvOKSame
<1>17. (w + n) - Len(t.tx) <= qt
  BY <1>9, <1>10, <1>11
<1>18. t.rx_len = s.rx_len
  BY <1>7 DEF SameRecv
<1> QED BY <1>7, <1>15, <1>16, <1>17, <1>18 DEF SockOK

\* tcp_socket_send()
LEMMA SocketSendInv ==
    ASSUME TcpInv, NEW h \in Hosts, NEW n \in 1 .. TxMax, SocketSend(h, n)
    PROVE  TcpInv'
<1>0. n \in Nat
  BY ConstantFacts
<1>1. PICK s : s = sock[h]
  OBVIOUS
<1>2. PICK data : data = [i \in 1 .. n |-> written[h] + i]
  OBVIOUS
<1>3. PICK t, tx : tx = s.tx \o data /\ t = [s EXCEPT !.tx = tx]
  OBVIOUS
<1>4. /\ app[h] = "open" /\ s.state \in {"ESTABLISHED", "CLOSE_WAIT"} /\ written[h] + n <= StreamLen[h]
      /\ \E cwnd \in Windows : Leave(h, Output(h, t, cwnd), net)
      /\ written' = [written EXCEPT ![h] = written[h] + n]
      /\ UNCHANGED <<listening, app, read, faults>>
  BY <1>1, <1>2, <1>3 DEF SocketSend
<1>5. PICK cwnd \in Windows : Leave(h, Output(h, t, cwnd), net)
  BY <1>4
<1>6. PICK z, out : z = Output(h, t, cwnd).s /\ out = Output(h, t, cwnd).out
  OBVIOUS
<1>7. sock' = [sock EXCEPT ![h] = z] /\ net' \subseteq net \cup out
  BY <1>5, <1>6 DEF Leave
<1>8. PICK p \in Hosts : p = Peer(h)
  BY HostFacts
<1>9. PICK w \in Nat, r \in Nat, pw \in Nat, pt \in Nat :
         w = written[h] /\ r = read[h] /\ pw = written[Peer(h)] /\ pt = Told(h, written[h])
  BY <1>8, InvFacts
<1>10. PICK ended : ended = ~CanWrite(Peer(h))
  OBVIOUS
<1>11. PICK wn \in Nat : wn = w + n
  BY <1>0
<1>12. PICK qt \in Nat : qt = Told(h, wn) /\ pt <= qt
  <2>1. CASE sock[Peer(h)].state # "NONE"
    BY <1>9, <2>1 DEF Told
  <2>2. CASE sock[Peer(h)].state = "NONE"
    BY <1>0, <1>9, <1>11, <2>2 DEF Told
  <2> QED BY <2>1, <2>2
<1>13. /\ SockOK(h, s, w, r, pw, ended, pt) /\ s \in Sockets /\ app[h] \in AppStates
       /\ app[Peer(h)] # "idle"
  <2>1. s.state \in Connected
    BY <1>4 DEF Connected
  <2> QED BY <1>1, <1>9, <1>10, <2>1, InvFacts
<1>14. SockOK(h, t, wn, r, pw, ended, qt) /\ t.state = s.state /\ t.rx_len = s.rx_len
  <2>1. data = [i \in 1 .. n |-> w + i]
    BY <1>2, <1>9
  <2>1a. PICK q \in Seq(Nat) : q = s.tx
    BY <1>13 DEF Sockets
  <2>1b. tx = q \o data
    BY <1>3, <2>1a
  <2>1c. Queued(q, tx, w, n)
    BY <1>0, <2>1, <2>1b, QueuedBytes
  <2>1d. Queued(s.tx, tx, w, n) /\ tx \in Seq(Nat)
    BY <2>1a, <2>1c DEF Queued
  <2>1e. /\ t \in Sockets /\ t.state = s.state /\ t.snd_una = s.snd_una
         /\ t.tx_sent = s.tx_sent /\ t.fin_queued = s.fin_queued /\ t.fin_sent = s.fin_sent
         /\ SameRecv(s, t) /\ t.tx = tx
    <3>1. t = [s EXCEPT !.tx = tx]
      BY <1>3
    <3> QED BY <1>13, <2>1d, <3>1 DEF Sockets, SameRecv
  <2>2. SockOK(h, t, w + n, r, pw, ended, qt) /\ t.state = s.state /\ t.rx_len = s.rx_len
    <3>1. s.state \in {"ESTABLISHED", "CLOSE_WAIT"} /\ pt <= qt /\ SockOK(h, s, w, r, pw, ended, pt)
      BY <1>4, <1>12, <1>13
    <3> QED BY <1>0, <2>1d, <2>1e, <3>1, QueueOK
  <2> QED BY <1>11, <2>2
<1>15. s.state \in Connected /\ s.state \in MayWrite /\ s.state \notin {"NONE", "CLOSED"}
  BY <1>4 DEF Connected, MayWrite
<1>16. t.rx_len >= s.rx_len /\ cwnd \in Nat
  BY <1>13, <1>14, WindowNat DEF Sockets
<1>17. ResultOK(h, s, z, out, wn, r, pw, ended, qt, "open")
  BY <1>6, <1>13, <1>14, <1>15, <1>16, OutputResult
<1>18. TimerOK(z, "open")
  <2>1. t \in Sockets /\ SendOK(h, t, wn) /\ t.state \in Connected
    BY <1>14, <1>15 DEF SockOK
  <2>2. Pending(z) => z.rtx
    BY <1>6, <1>16, <2>1, OutputSocket
  <2> QED BY <2>2 DEF TimerOK
<1>19. wn >= written[h] /\ wn <= StreamLen[h]
  BY <1>0, <1>4, <1>9, <1>11
<1>20. StepOK(h, z, out, wn, read[h], "open")
  <2>1. sock[h].state # "NONE" /\ sock[h].state \in Connected /\ sock[h].state \in MayWrite
    BY <1>1, <1>15
  <2>2. ResultOK(h, sock[h], z, out, wn, read[h], written[Peer(h)], ~CanWrite(Peer(h)), Told(h, wn), "open")
    BY <1>1, <1>9, <1>10, <1>12, <1>17
  <2> QED BY <1>13, <1>18, <1>19, <2>1, <2>2, AppNames, ResultStep
<1>21. /\ app' = [app EXCEPT ![h] = "open"] /\ read' = [read EXCEPT ![h] = read[h]]
       /\ written' = [written EXCEPT ![h] = wn]
  BY <1>4, <1>9, <1>11 DEF TcpInv, TcpTypeOK
<1>22. listening' \in BOOLEAN /\ faults' \in Nat
  BY <1>4 DEF TcpInv, TcpTypeOK
<1> QED BY <1>7, <1>20, <1>21, <1>22, StepInv

\* What is left in the buffer after n bytes were read.
LEMMA SlideFacts ==
    ASSUME NEW s \in Sockets, NEW n \in Nat
    PROVE  /\ Slide(s, n) \in [1 .. RxMax -> Nat]
           /\ \A i \in 1 .. RxMax : i + n <= RxMax => Slide(s, n)[i] = s.rx[i + n]
<1>1. RxMax \in Nat /\ s.rx \in [1 .. RxMax -> Nat]
  BY ConstantFacts DEF Sockets
<1>2. \A i \in 1 .. RxMax : i + n <= RxMax => i + n \in 1 .. RxMax
  BY <1>1
<1> QED BY <1>1, <1>2 DEF Slide, None

\* The receiving half after a read of n bytes.
LEMMA ReadOK ==
    ASSUME NEW h \in Hosts, NEW s \in Sockets, NEW r \in Nat, NEW pw \in Nat, NEW ended, NEW n \in Nat,
           RecvOK(h, s, r, pw, ended), n <= s.rx_len,
           NEW t \in Sockets, t.state = s.state, t.rcv_nxt = s.rcv_nxt, t.ooo_seq = s.ooo_seq,
           t.ooo_len = s.ooo_len, t.rx_len = s.rx_len - n, t.rx = Slide(s, n)
    PROVE  RecvOK(h, t, r + n, pw, ended)
<1>1. RxMax \in Nat
  BY ConstantFacts
<1>2. PICK l \in Nat, m \in Nat, k \in Nat : l = s.rx_len /\ l <= RxMax /\ m = l - n /\ k = s.ooo_len
  <2>1. s.rx_len \in 0 .. RxMax /\ s.ooo_len \in Int /\ s.ooo_len >= 0
    BY DEF RecvOK, Sockets
  <2>2. s.rx_len \in Nat /\ s.rx_len <= RxMax /\ s.ooo_len \in Nat
    BY <1>1, <2>1
  <2>3. s.rx_len - n \in Nat
    BY <2>2
  <2> QED BY <2>2, <2>3
<1>3. PICK rx, ry : rx = s.rx /\ ry = t.rx
  OBVIOUS
<1>4. \A i \in 1 .. RxMax : i + n <= RxMax => ry[i] = rx[i + n]
  BY <1>3, SlideFacts
<1>5. t.rx_len = m /\ (r + n) + m = r + l
  BY <1>2
<1>6. \A i \in 1 .. l : rx[i] = r + i
  BY <1>2, <1>3 DEF RecvOK
<1>7. \A i \in 1 .. m : ry[i] = (r + n) + i
  <2>1. SUFFICES ASSUME NEW i \in 1 .. m PROVE ry[i] = (r + n) + i
    OBVIOUS
  <2>2. PICK j \in Int : j = i + n
    OBVIOUS
  <2>3. j \in 1 .. l /\ j <= RxMax /\ i \in 1 .. RxMax /\ (r + n) + i = r + j
    BY <1>1, <1>2, <2>2
  <2>4. ry[i] = rx[j] /\ rx[j] = r + j
    BY <1>4, <1>6, <2>2, <2>3
  <2> QED BY <2>3, <2>4
<1>8. ASSUME NEW fin \in BOOLEAN, NextIs(h, s, r, pw, ended, fin)
      PROVE  NextIs(h, t, r + n, pw, ended, fin)
  <2>1. PICK b \in Int : b = Bit(fin)
    BY DEF Bit
  <2>2. 1 + (r + n) + m + b = 1 + r + l + b
    BY <1>2
  <2>3. s.rcv_nxt = Plus(Iss[Peer(h)], 1 + r + l + b) /\ (fin => r + l = pw /\ ended)
    BY <1>2, <1>8, <2>1 DEF NextIs
  <2>4. t.rcv_nxt = Plus(Iss[Peer(h)], 1 + (r + n) + m + b) /\ (fin => (r + n) + m = pw /\ ended)
    BY <1>5, <2>2, <2>3
  <2> QED BY <1>5, <2>1, <2>4 DEF NextIs
<1>9. ASSUME NEW b \in Nat, BlockAt(h, s, r, pw, b) PROVE BlockAt(h, t, r + n, pw, b)
  <2>1. /\ s.ooo_seq = Plus(Iss[Peer(h)], 1 + b) /\ b > r + l /\ b + k <= pw /\ b + k <= r + RxMax
        /\ \A i \in (b - r) + 1 .. (b - r) + k : rx[i] = r + i
    BY <1>2, <1>3, <1>9 DEF BlockAt
  <2>2. b > (r + n) + m /\ b + k <= (r + n) + RxMax
    BY <1>1, <1>2, <1>5, <2>1
  <2>3. ASSUME NEW i \in (b - (r + n)) + 1 .. (b - (r + n)) + k PROVE ry[i] = (r + n) + i
    <3>1. i \in Int /\ i >= (b - (r + n)) + 1 /\ i <= (b - (r + n)) + k
      OBVIOUS
    <3>2. PICK j \in Int : j = i + n
      BY <3>1
    <3>3. j \in (b - r) + 1 .. (b - r) + k /\ (r + n) + i = r + j
      BY <3>1, <3>2
    <3>4. i \in 1 .. RxMax /\ i + n <= RxMax
      BY <1>1, <1>2, <2>1, <3>1
    <3>5. ry[i] = rx[j] /\ rx[j] = r + j
      BY <1>4, <2>1, <3>2, <3>3, <3>4
    <3> QED BY <3>3, <3>5
  <2> QED BY <1>2, <1>3, <1>5, <2>1, <2>2, <2>3 DEF BlockAt
<1>10. m \in 0 .. RxMax /\ (r + n) + m <= pw
  BY <1>1, <1>2, <1>5 DEF RecvOK
<1>11. (t.state \in FinIsTaken) \in BOOLEAN
  OBVIOUS
<1>12. t.state \in Connected \cup {"SYN_RECEIVED"} => NextIs(h, t, r + n, pw, ended, t.state \in FinIsTaken)
  BY <1>8, <1>11 DEF RecvOK
<1>13. t.state = "CLOSED" /\ m > 0 => \E fin \in BOOLEAN : NextIs(h, t, r + n, pw, ended, fin)
  <2>1. m > 0 => l > 0
    BY <1>2
  <2> QED BY <1>2, <1>8, <2>1 DEF RecvOK
<1>14. t.state = "SYN_SENT" => (r + n) + m = 0
  BY <1>2, <1>5 DEF RecvOK
<1>15. /\ t.ooo_len >= 0
       /\ t.ooo_len > 0 => t.state \in Connected /\ \E b \in Nat : BlockAt(h, t, r + n, pw, b)
  BY <1>9 DEF RecvOK
<1> QED BY <1>3, <1>5, <1>7, <1>10, <1>12, <1>13, <1>14, <1>15 DEF RecvOK

\* A socket that holds bytes may acknowledge them, closed or not.
LEMMA HeldAckOK ==
    ASSUME NEW h \in Hosts, NEW s \in Sockets, NEW r \in Nat, NEW pw \in Nat, NEW ended,
           RecvOK(h, s, r, pw, ended), s.rx_len > 0, s.state # "NONE"
    PROVE  \E fin \in BOOLEAN : NextIs(h, s, r, pw, ended, fin)
<1>1. s.state \in SockStates /\ s.rx_len \in Int
  BY DEF Sockets
<1>2. s.state # "SYN_SENT"
  BY <1>1 DEF RecvOK
<1>3. (s.state \in FinIsTaken) \in BOOLEAN
  OBVIOUS
<1>4. CASE s.state \in Connected \cup {"SYN_RECEIVED"}
  BY <1>3, <1>4 DEF RecvOK
<1>5. CASE s.state = "CLOSED"
  BY <1>5 DEF RecvOK
<1> QED BY <1>1, <1>2, <1>4, <1>5 DEF SockStates, SynStates

\* tcp_socket_recv()
LEMMA RecvInv ==
    ASSUME TcpInv, NEW h \in Hosts, NEW n \in 1 .. RxMax, Recv(h, n)
    PROVE  TcpInv'
<1>0. n \in Nat /\ n > 0
  BY ConstantFacts
<1>1. PICK s : s = sock[h]
  OBVIOUS
<1>2. PICK t : t = [s EXCEPT !.rx = Slide(s, n), !.rx_len = @ - n]
  OBVIOUS
<1>3. PICK out : out = IF RxMax - s.rx_len < 2 * Mss THEN AckNow(h, t) ELSE {}
  OBVIOUS
<1>4. /\ app[h] = "open" /\ n <= s.rx_len /\ Leave(h, [s |-> t, out |-> out], net)
      /\ read' = [read EXCEPT ![h] = read[h] + n]
      /\ UNCHANGED <<listening, app, written, faults>>
  BY <1>1, <1>2, <1>3 DEF Recv
<1>5. sock' = [sock EXCEPT ![h] = t] /\ net' \subseteq net \cup out
  BY <1>4 DEF Leave
<1>6. PICK p \in Hosts : p = Peer(h)
  BY HostFacts
<1>7. PICK w \in Nat, r \in Nat, pw \in Nat, pt \in Nat :
         w = written[h] /\ r = read[h] /\ pw = written[Peer(h)] /\ pt = Told(h, written[h])
  BY <1>6, InvFacts
<1>8. PICK ended : ended = ~CanWrite(Peer(h))
  OBVIOUS
<1>9. /\ SockOK(h, s, w, r, pw, ended, pt) /\ s \in Sockets
      /\ s.state \in Connected => app[Peer(h)] # "idle"
      /\ w <= StreamLen[h] /\ s.rx_len \in Nat
  BY <1>1, <1>7, <1>8, InvFacts
<1>10. s.state # "NONE" /\ TimerOK(s, "open")
  BY <1>1, <1>4, InvFacts
<1>11. /\ t \in Sockets /\ t.state = s.state /\ t.snd_una = s.snd_una /\ t.tx_sent = s.tx_sent /\ t.tx = s.tx
       /\ t.fin_queued = s.fin_queued /\ t.fin_sent = s.fin_sent /\ t.rtx = s.rtx
       /\ t.reset_seen = s.reset_seen /\ t.rcv_nxt = s.rcv_nxt /\ t.ooo_seq = s.ooo_seq
       /\ t.ooo_len = s.ooo_len /\ t.rx_len = s.rx_len - n /\ t.rx = Slide(s, n)
  <2>1. PICK rx \in [1 .. RxMax -> Nat] : rx = Slide(s, n)
    BY <1>0, <1>9, SlideFacts
  <2>2. PICK l \in Int : l = s.rx_len - n
    BY <1>0, <1>9
  <2>3. t = [s EXCEPT !.rx = rx, !.rx_len = l]
    BY <1>2, <1>9, <2>1, <2>2 DEF Sockets
  <2>4. /\ t \in Sockets /\ t.state = s.state /\ t.snd_una = s.snd_una /\ t.tx_sent = s.tx_sent /\ t.tx = s.tx
        /\ t.fin_queued = s.fin_queued /\ t.fin_sent = s.fin_sent /\ t.rtx = s.rtx
        /\ t.reset_seen = s.reset_seen /\ t.rcv_nxt = s.rcv_nxt /\ t.ooo_seq = s.ooo_seq
        /\ t.ooo_len = s.ooo_len /\ t.rx_len = l /\ t.rx = rx
    BY <1>9, <2>3 DEF Sockets
  <2> QED BY <2>1, <2>2, <2>4
<1>12. RecvOK(h, s, r, pw, ended) /\ SendOK(h, s, w)
  BY <1>9 DEF SockOK
<1>13. RecvOK(h, t, r + n, pw, ended)
  BY <1>0, <1>4, <1>9, <1>11, <1>12, ReadOK
<1>14. SendOK(h, t, w)
  BY <1>11, <1>12, SendOKSame
<1>15. SockOK(h, t, w, r + n, pw, ended, pt)
  BY <1>9, <1>11, <1>13, <1>14 DEF SockOK
<1>16. (r + n) + t.rx_len = r + s.rx_len /\ (r + n) + t.rx_len = Taken(h) /\ r + n \in Nat
  <2>1. t.rx_len = s.rx_len - n /\ s.rx_len \in Int
    BY <1>9, <1>11
  <2>2. (r + n) + t.rx_len = r + s.rx_len
    BY <1>0, <2>1
  <2> QED BY <1>0, <1>1, <1>7, <2>2 DEF Taken
<1>17. AckOK(h, t, (r + n) + t.rx_len, pw, ended)
  <2>1. s.rx_len > 0
    BY <1>0, <1>4, <1>9
  <2>2. PICK fin \in BOOLEAN : NextIs(h, s, r, pw, ended, fin)
    BY <1>9, <1>10, <1>12, <2>1, HeldAckOK
  <2>3. AckOK(h, s, r + s.rx_len, pw, ended)
    BY <1>9, <2>2, NextIsAckOK
  <2> QED BY <1>11, <1>16, <2>3 DEF AckOK
<1>18. ASSUME NEW x \in out
       PROVE  SentOK(h, x, w, (r + n) + t.rx_len, pw, ended, t.state \in MayWrite)
  <2>1. x \in AckNow(h, t)
    BY <1>3
  <2> QED BY <1>11, <1>17, <2>1, AckNowFacts
<1>19. TimerOK(t, "open")
  <2>1. Pending(t) <=> Pending(s)
    BY <1>11 DEF Pending
  <2> QED BY <1>10, <1>11, <2>1 DEF TimerOK
<1>20. t.state \in MayWrite => CanWrite(h)
  BY <1>1, <1>11 DEF CanWrite
<1>21. PICK rn \in Nat : rn = r + n
  BY <1>16
<1>22. /\ SockOK(h, t, w, rn, pw, ended, pt) /\ rn + t.rx_len >= Taken(h) /\ w >= w
       /\ \A x \in out : SentOK(h, x, w, rn + t.rx_len, pw, ended, t.state \in MayWrite)
  <2>1. Taken(h) \in Int /\ Taken(h) >= Taken(h)
    BY <1>1, <1>7, <1>9 DEF Taken
  <2> QED BY <1>15, <1>16, <1>18, <1>21, <2>1
<1>23. StepOK(h, t, out, written[h], rn, "open")
  BY <1>1, <1>7, <1>8, <1>9, <1>10, <1>11, <1>19, <1>20, <1>22, AppNames DEF StepOK
<1>24. /\ app' = [app EXCEPT ![h] = "open"] /\ written' = [written EXCEPT ![h] = written[h]]
       /\ read' = [read EXCEPT ![h] = rn]
  BY <1>4, <1>7, <1>21 DEF TcpInv, TcpTypeOK
<1>25. listening' \in BOOLEAN /\ faults' \in Nat
  BY <1>4 DEF TcpInv, TcpTypeOK
<1> QED BY <1>5, <1>23, <1>24, <1>25, StepInv

\* The FIN of shutdown_wr, close and abandon is queued and sent when it is its turn.
LEMMA QueueFinResult ==
    ASSUME NEW h \in Hosts, NEW s, NEW w \in Nat, NEW r \in Nat, NEW pw \in Nat, NEW ended, NEW pt,
           NEW b, SockOK(h, s, w, r, pw, ended, pt), s.state # "NONE", TimerOK(s, b), NEW cwnd \in Nat,
           NEW z, z = QueueFin(h, s, cwnd)
    PROVE  /\ ResultOK(h, s, z.s, z.out, w, r, pw, ended, pt, b)
           /\ z.s.state \in Connected => s.state \in Connected
           /\ TimerOK(z.s, b)
<1>1. s \in Sockets /\ SendOK(h, s, w) /\ RecvOK(h, s, r, pw, ended) /\ s.rx_len \in Int
  BY DEF SockOK, Sockets
<1>2. CASE s.state \notin {"ESTABLISHED", "CLOSE_WAIT"}
  <2>1. z = [s |-> s, out |-> {}]
    BY <1>2 DEF QueueFin, Quiet
  <2>2. ResultOK(h, s, s, {}, w, r, pw, ended, pt, b)
    BY SameResult
  <2> QED BY <2>1, <2>2
<1>3. CASE s.state \in {"ESTABLISHED", "CLOSE_WAIT"}
  <2>1. PICK st : st = IF s.state = "ESTABLISHED" THEN "FIN_WAIT1" ELSE "LAST_ACK"
    OBVIOUS
  <2>2. PICK yes \in BOOLEAN : yes = TRUE
    OBVIOUS
  <2>3. PICK t : t = [s EXCEPT !.fin_queued = yes, !.state = st]
    OBVIOUS
  <2>4. z = Output(h, t, cwnd)
    <3>1. t = [s EXCEPT !.fin_queued = TRUE,
                        !.state = IF @ = "ESTABLISHED" THEN "FIN_WAIT1" ELSE "LAST_ACK"]
      BY <1>1, <2>1, <2>2, <2>3 DEF Sockets
    <3> QED BY <1>3, <3>1 DEF QueueFin
  <2>5. /\ st \in SockStates /\ st \in Closes /\ st \in Connected /\ st \notin FinIsAcked
        /\ st \notin SynStates /\ st \notin MayWrite /\ st \notin {"NONE", "CLOSED"}
        /\ s.state \in Connected /\ s.state \notin FinIsAcked /\ s.state \notin {"NONE", "CLOSED"}
        /\ st \in FinIsTaken <=> s.state \in FinIsTaken
    BY <1>3, <2>1 DEF SockStates, Closes, Connected, FinIsAcked, SynStates, MayWrite, FinIsTaken
  <2>6. /\ t \in Sockets /\ t.state = st /\ t.tx = s.tx /\ t.snd_una = s.snd_una /\ t.tx_sent = s.tx_sent
        /\ t.fin_queued = TRUE /\ t.fin_sent = s.fin_sent /\ SameRecv(s, t)
    BY <1>1, <2>2, <2>3, <2>5 DEF Sockets, SameRecv
  <2>7. SendOK(h, t, w)
    <3>1. (st \in FinIsAcked) = (s.state \in FinIsAcked)
      BY <2>5
    <3>2. t.snd_una = Plus(Iss[h], 1 + (w - Len(t.tx)) + Bit(t.state \in FinIsAcked))
      BY <1>1, <2>5, <2>6, <3>1 DEF SendOK
    <3> QED BY <1>1, <2>5, <2>6, <3>2 DEF SendOK
  <2>8. RecvOK(h, t, r, pw, ended)
    <3>1. s.state \in Connected /\ t.state \in Connected /\ (t.state \in FinIsTaken <=> s.state \in FinIsTaken)
      BY <2>5, <2>6
    <3> QED BY <1>1, <2>6, <3>1, RecvOKSame
  <2>9. SockOK(h, t, w, r, pw, ended, pt)
    BY <2>5, <2>6, <2>7, <2>8 DEF SockOK
  <2>10. t.rx_len = s.rx_len /\ t.rx_len >= s.rx_len /\ t.state \in Connected /\ t.state \notin MayWrite
    BY <1>1, <2>5, <2>6 DEF SameRecv
  <2>11. ResultOK(h, s, z.s, z.out, w, r, pw, ended, pt, b)
    BY <1>1, <2>4, <2>9, <2>10, OutputResult
  <2>12. z.s.state = t.state /\ (Pending(z.s) => z.s.rtx)
    BY <2>4, <2>6, <2>7, <2>10, OutputSocket
  <2> QED BY <2>5, <2>11, <2>12 DEF TimerOK
<1> QED BY <1>2, <1>3

\* The same as a step of h.
LEMMA QueueFinStep ==
    ASSUME TcpInv, NEW h \in Hosts, app[h] = "open", NEW cwnd \in Windows, NEW z, z = QueueFin(h, sock[h], cwnd),
           NEW an \in AppStates, an \notin {"idle", "trying"}
    PROVE  StepOK(h, z.s, z.out, written[h], read[h], an)
<1>1. PICK p \in Hosts : p = Peer(h)
  BY HostFacts
<1>2. PICK w \in Nat, r \in Nat, pw \in Nat, pt \in Nat :
         w = written[h] /\ r = read[h] /\ pw = written[Peer(h)] /\ pt = Told(h, written[h])
  BY <1>1, InvFacts
<1>3. PICK ended : ended = ~CanWrite(Peer(h))
  OBVIOUS
<1>4. SockOK(h, sock[h], w, r, pw, ended, pt)
  BY <1>2, <1>3, InvFacts
<1>5. /\ sock[h].state # "NONE" /\ TimerOK(sock[h], "open")
      /\ sock[h].state \in Connected => app[Peer(h)] # "idle"
  BY InvFacts
<1>6. cwnd \in Nat /\ TimerOK(sock[h], an)
  BY <1>5, WindowNat, TimerKept
<1>7. /\ ResultOK(h, sock[h], z.s, z.out, w, r, pw, ended, pt, an)
      /\ z.s.state \in Connected => sock[h].state \in Connected
      /\ TimerOK(z.s, an)
  BY <1>4, <1>5, <1>6, QueueFinResult
<1> QED BY <1>2, <1>3, <1>5, <1>7, SocketStep

\* tcp_socket_shutdown_wr()
LEMMA ShutdownWrInv ==
    ASSUME TcpInv, NEW h \in Hosts, ShutdownWr(h)
    PROVE  TcpInv'
<1>1. PICK cwnd \in Windows : Leave(h, QueueFin(h, sock[h], cwnd), net)
  BY DEF ShutdownWr
<1>2. PICK z : z = QueueFin(h, sock[h], cwnd)
  OBVIOUS
<1>3. app[h] = "open" /\ UNCHANGED <<listening, app, written, read, faults>>
  BY DEF ShutdownWr
<1>4. StepOK(h, z.s, z.out, written[h], read[h], "open")
  BY <1>2, <1>3, AppNames, QueueFinStep
<1>5. sock' = [sock EXCEPT ![h] = z.s] /\ net' \subseteq net \cup z.out
  BY <1>1, <1>2 DEF Leave
<1>6. app' = [app EXCEPT ![h] = "open"]
  BY <1>3 DEF TcpInv, TcpTypeOK
<1>7. Quietly
  BY <1>3, QuietlyFacts
<1> QED BY <1>4, <1>5, <1>6, <1>7, StepFrame DEF Quietly

\* tcp_socket_close()
LEMMA CloseInv ==
    ASSUME TcpInv, NEW h \in Hosts, Close(h)
    PROVE  TcpInv'
<1>1. PICK cwnd \in Windows : Leave(h, QueueFin(h, sock[h], cwnd), net)
  BY DEF Close
<1>2. PICK z : z = QueueFin(h, sock[h], cwnd)
  OBVIOUS
<1>3. app[h] = "open" /\ Becomes(h, "closing") /\ UNCHANGED <<listening, written, read, faults>>
  BY DEF Close
<1>4. StepOK(h, z.s, z.out, written[h], read[h], "closing")
  BY <1>2, <1>3, AppNames, QueueFinStep
<1>5. sock' = [sock EXCEPT ![h] = z.s] /\ net' \subseteq net \cup z.out /\ app' = [app EXCEPT ![h] = "closing"]
  BY <1>1, <1>2, <1>3 DEF Leave, Becomes
<1>6. Quietly
  BY <1>3, QuietlyFacts
<1> QED BY <1>4, <1>5, <1>6, StepFrame DEF Quietly

\* tcp_socket_abandon()
LEMMA AbandonInv ==
    ASSUME TcpInv, NEW h \in Hosts, Abandon(h)
    PROVE  TcpInv'
<1>1. PICK cwnd \in Windows :
         LET q == QueueFin(h, sock[h], cwnd)
             t == IF q.s.state \in {"SYN_SENT", "SYN_RECEIVED"} THEN Shut(q.s) ELSE q.s
         IN  Leave(h, [s |-> [t EXCEPT !.detached = TRUE], out |-> q.out], net)
  BY DEF Abandon
<1>2. PICK q : q = QueueFin(h, sock[h], cwnd)
  OBVIOUS
<1>3. PICK t : t = IF q.s.state \in {"SYN_SENT", "SYN_RECEIVED"} THEN Shut(q.s) ELSE q.s
  OBVIOUS
<1>4. PICK yes \in BOOLEAN : yes = TRUE
  OBVIOUS
<1>5. PICK z : z = [t EXCEPT !.detached = yes]
  OBVIOUS
<1>6. Leave(h, [s |-> z, out |-> q.out], net)
  BY <1>1, <1>2, <1>3, <1>4, <1>5
<1>7. app[h] = "open" /\ Becomes(h, "left") /\ UNCHANGED <<listening, written, read, faults>>
  BY DEF Abandon
<1>8. sock' = [sock EXCEPT ![h] = z] /\ net' \subseteq net \cup q.out /\ app' = [app EXCEPT ![h] = "left"]
  BY <1>6, <1>7 DEF Leave, Becomes
<1>9. PICK p \in Hosts : p = Peer(h)
  BY HostFacts
<1>10. PICK w \in Nat, r \in Nat, pw \in Nat, pt \in Nat :
         w = written[h] /\ r = read[h] /\ pw = written[Peer(h)] /\ pt = Told(h, written[h])
  BY <1>9, InvFacts
<1>11. PICK ended : ended = ~CanWrite(Peer(h))
  OBVIOUS
<1>12. SockOK(h, sock[h], w, r, pw, ended, pt) /\ sock[h] \in Sockets
  BY <1>10, <1>11, InvFacts
<1>13. /\ sock[h].state # "NONE" /\ TimerOK(sock[h], "open")
       /\ sock[h].state \in Connected => app[Peer(h)] # "idle"
  BY <1>7, InvFacts
<1>14. cwnd \in Nat /\ TimerOK(sock[h], "left")
  BY <1>13, WindowNat, TimerKept
<1>15. /\ ResultOK(h, sock[h], q.s, q.out, w, r, pw, ended, pt, "left")
       /\ q.s.state \in Connected => sock[h].state \in Connected
       /\ TimerOK(q.s, "left")
  BY <1>2, <1>12, <1>13, <1>14, QueueFinResult
<1>16. SockOK(h, q.s, w, r, pw, ended, pt) /\ q.s.state # "NONE" /\ q.s \in Sockets
  BY <1>15 DEF ResultOK, Follows, SockOK
<1>17. /\ ResultOK(h, sock[h], t, q.out, w, r, pw, ended, pt, "left")
       /\ t.state \in Connected => sock[h].state \in Connected
       /\ TimerOK(t, "left") /\ t \in Sockets
  <2>1. CASE q.s.state \in {"SYN_SENT", "SYN_RECEIVED"}
    <3>1. t = Shut(q.s)
      BY <1>3, <2>1
    <3>2. ResultOK(h, q.s, t, {}, w, r, pw, ended, pt, "left")
      BY <1>16, <3>1, ShutResult
    <3>3. ResultOK(h, sock[h], t, q.out \cup {}, w, r, pw, ended, pt, "left")
      BY <1>12, <1>15, <3>2, ResultTrans
    <3>4. q.out \cup {} = q.out
      OBVIOUS
    <3>5. t \in Sockets /\ t.state = "CLOSED"
      BY <1>16, <3>1, ShutFacts
    <3>6. TimerOK(t, "left") /\ t.state \notin Connected
      BY <3>5 DEF TimerOK, Connected
    <3> QED BY <3>3, <3>4, <3>5, <3>6
  <2>2. CASE q.s.state \notin {"SYN_SENT", "SYN_RECEIVED"}
    <3>1. t = q.s
      BY <1>3, <2>2
    <3> QED BY <1>15, <1>16, <3>1
  <2> QED BY <2>1, <2>2
<1>18. SameStreams(t, z) /\ z.rtx = t.rtx /\ z.reset_seen = t.reset_seen
  <2>1. z.rtx = t.rtx /\ z.reset_seen = t.reset_seen
    BY <1>5, <1>17 DEF Sockets
  <2>2. 0 \in Int
    OBVIOUS
  <2> QED BY <1>5, <1>17, <2>1, <2>2, FlagsFacts
<1>19. TimerOK(z, "left") /\ z.state = t.state
  <2>1. z.state = t.state /\ (Pending(z) <=> Pending(t))
    BY <1>18 DEF SameStreams, Pending
  <2> QED BY <1>17, <1>18, <2>1 DEF TimerOK
<1>20. ResultOK(h, sock[h], z, q.out, w, r, pw, ended, pt, "left")
  BY <1>17, <1>18, <1>19, SameStreamsResult
<1>21. z.state \in Connected => app[Peer(h)] # "idle"
  BY <1>13, <1>17, <1>19
<1>22. StepOK(h, z, q.out, written[h], read[h], "left")
  BY <1>10, <1>11, <1>13, <1>19, <1>20, <1>21, AppNames, SocketStep
<1>23. Quietly
  BY <1>7, QuietlyFacts
<1> QED BY <1>8, <1>22, <1>23, StepFrame DEF Quietly

\* tcp_poll() sets the timer of what it has sent.
LEMMA RearmFacts ==
    ASSUME NEW s \in Sockets, NEW out, NEW z, z = Rearm([s |-> s, out |-> out])
    PROVE  z.out = out /\ SameStreams(s, z.s) /\ z.s.rtx = TRUE
<1>1. PICK b \in BOOLEAN : b = TRUE
  OBVIOUS
<1>2. PICK y : y = [s EXCEPT !.rtx = b]
  OBVIOUS
<1>3. z = [s |-> y, out |-> out]
  BY <1>1, <1>2 DEF Rearm
<1>4. SameStreams(s, y) /\ y.rtx = b
  <2>1. y.rtx = b
    BY <1>2 DEF Sockets
  <2>2. 0 \in Int
    OBVIOUS
  <2> QED BY <1>2, <2>1, <2>2, FlagsFacts
<1>5. z.s = y /\ z.out = out
  BY <1>3
<1> QED BY <1>1, <1>4, <1>5

\* The retransmission timer of h fires.
LEMMA RetransmitInv ==
    ASSUME TcpInv, NEW h \in Hosts, NEW cwnd \in Failure \cup {Mss}, Retransmit(h, cwnd)
    PROVE  TcpInv'
<1>1. PICK s : s = sock[h]
  OBVIOUS
<1>2. PICK hand \in BOOLEAN : hand = (s.state \in {"SYN_SENT", "SYN_RECEIVED"})
  <2>1. (s.state \in {"SYN_SENT", "SYN_RECEIVED"}) \in BOOLEAN
    OBVIOUS
  <2> QED BY <2>1
<1>3. PICK t : t = [s EXCEPT !.rtx_count = @ + 1, !.rtx = FALSE]
  OBVIOUS
<1>4. PICK flags : flags = IF s.state = "SYN_SENT" THEN {"SYN"} ELSE {"SYN", "ACK"}
  OBVIOUS
<1>5. PICK over \in BOOLEAN : over = (t.rtx_count > (IF hand THEN SynRetries ELSE MaxRetries))
  <2>1. (t.rtx_count > (IF hand THEN SynRetries ELSE MaxRetries)) \in BOOLEAN
    OBVIOUS
  <2> QED BY <2>1
<1>6. PICK pend \in BOOLEAN : pend = Pending(s)
  <2>1. Pending(s) \in BOOLEAN
    BY DEF Pending
  <2> QED BY <2>1
<1>7. PICK z : z = CASE ~pend -> Quiet([s EXCEPT !.rtx = FALSE])
                     [] pend /\ over -> Quiet(Closed(t))
                     [] pend /\ ~over /\ hand -> Rearm([s |-> t, out |-> {Xmit(h, t, flags, t.snd_una, <<>>)}])
                     [] OTHER -> Rearm(Output(h, Rewind(t), cwnd))
  OBVIOUS
<1>8. /\ s.rtx /\ s.state \notin {"NONE", "CLOSED"} /\ Leave(h, z, net)
      /\ UNCHANGED <<listening, app, written, read, faults>>
  BY <1>1, <1>2, <1>3, <1>4, <1>5, <1>6, <1>7 DEF Retransmit
<1>9. sock' = [sock EXCEPT ![h] = z.s] /\ net' \subseteq net \cup z.out
  BY <1>8 DEF Leave
<1>10. PICK p \in Hosts : p = Peer(h)
  BY HostFacts
<1>11. PICK w \in Nat, r \in Nat, pw \in Nat, pt \in Nat :
         w = written[h] /\ r = read[h] /\ pw = written[Peer(h)] /\ pt = Told(h, written[h])
  BY <1>10, InvFacts
<1>12. PICK ended : ended = ~CanWrite(Peer(h))
  OBVIOUS
<1>13. SockOK(h, s, w, r, pw, ended, pt) /\ s \in Sockets
  BY <1>1, <1>11, <1>12, InvFacts
<1>14. PICK an \in AppStates : an = app[h]
  BY InvFacts
<1>15. /\ an # "idle" /\ (an = "trying" => h = Client)
       /\ s.state \in Connected => app[Peer(h)] # "idle"
  BY <1>1, <1>8, <1>14, InvFacts
<1>16. SameStreams(s, t)
  <2>1. PICK n \in Int : n = s.rtx_count + 1
    BY <1>13 DEF Sockets
  <2>1a. PICK b \in BOOLEAN : b = FALSE
    OBVIOUS
  <2>2. t = [s EXCEPT !.rtx_count = n, !.rtx = b]
    BY <1>3, <1>13, <2>1, <2>1a DEF Sockets
  <2> QED BY <1>13, <2>2, FlagsFacts
<1>17. SockOK(h, t, w, r, pw, ended, pt) /\ t \in Sockets /\ t.state = s.state /\ t.rx_len = s.rx_len
  BY <1>13, <1>16, SameStreamsOK DEF SameStreams, SameRecv
<1>18. ASSUME NEW y, y.rx_len = s.rx_len, y.state = s.state,
              ResultOK(h, y, z.s, z.out, w, r, pw, ended, pt, an), TimerOK(z.s, an),
              z.s.state \in Connected => s.state \in Connected
       PROVE  StepOK(h, z.s, z.out, written[h], read[h], an)
  <2>1. ResultOK(h, y, z.s, z.out, written[h], read[h], written[Peer(h)], ~CanWrite(Peer(h)),
                 Told(h, written[h]), an)
    BY <1>11, <1>12, <1>18
  <2>2. PICK wn \in Nat : wn = written[h] /\ wn >= written[h] /\ wn <= StreamLen[h]
    BY InvFacts
  <2>3. y.rx_len = sock[h].rx_len /\ (y.state \in MayWrite => sock[h].state \in MayWrite) /\ sock[h].state # "NONE"
    BY <1>1, <1>8, <1>18
  <2> QED BY <1>15, <1>18, <2>1, <2>2, <2>3, ResultStep
<1>19. StepOK(h, z.s, z.out, written[h], read[h], an)
  <2>1. CASE ~pend
    <3>1. PICK b \in BOOLEAN : b = FALSE
      OBVIOUS
    <3>2. PICK y : y = [s EXCEPT !.rtx = b]
      OBVIOUS
    <3>3. z = [s |-> y, out |-> {}]
      BY <1>7, <2>1, <3>1, <3>2 DEF Quiet
    <3>4. SameStreams(s, y) /\ y.reset_seen = s.reset_seen
      <4>1. y.reset_seen = s.reset_seen
        BY <1>13, <3>2 DEF Sockets
      <4>2. 0 \in Int
        OBVIOUS
      <4> QED BY <1>13, <3>2, <4>1, <4>2, FlagsFacts
    <3>5. y.state = s.state /\ TimerOK(y, an)
      <4>1. y.state = s.state /\ (Pending(y) <=> Pending(s))
        BY <3>4 DEF SameStreams, Pending
      <4> QED BY <1>6, <2>1, <4>1 DEF TimerOK
    <3>6. ResultOK(h, s, s, {}, w, r, pw, ended, pt, an)
      BY <1>8, <1>13, SameResult
    <3>7. ResultOK(h, s, y, {}, w, r, pw, ended, pt, an)
      BY <3>4, <3>5, <3>6, SameStreamsResult
    <3> QED BY <1>18, <3>3, <3>5, <3>7
  <2>2. CASE pend /\ over
    <3>1. PICK y : y = Closed(t)
      OBVIOUS
    <3>2. z = [s |-> y, out |-> {}]
      BY <1>7, <2>2, <3>1 DEF Quiet
    <3>3. ResultOK(h, t, y, {}, w, r, pw, ended, pt, an)
      BY <1>8, <1>17, <3>1, ShutResult
    <3>4. y.state = "CLOSED"
      BY <1>17, <3>1, ClosedFacts
    <3>5. TimerOK(y, an) /\ y.state \notin Connected
      BY <3>4 DEF TimerOK, Connected
    <3> QED BY <1>17, <1>18, <3>2, <3>3, <3>5
  <2>3. CASE pend /\ ~over /\ hand
    <3>1. PICK out : out = {Xmit(h, t, flags, t.snd_una, <<>>)}
      OBVIOUS
    <3>3. z = Rearm([s |-> t, out |-> out])
      BY <1>7, <2>3, <3>1
    <3>4. z.out = out /\ SameStreams(t, z.s) /\ z.s.rtx = TRUE
      BY <1>17, <3>3, RearmFacts
    <3>5. t.state \in SynStates /\ t.snd_una = Iss[h] /\ t.state # "NONE"
      BY <1>2, <1>17, <2>3 DEF SockOK, SendOK, SynStates
    <3>6. flags \in {{"SYN"}, {"SYN", "ACK"}} /\ ("ACK" \in flags => s.state # "SYN_SENT")
      BY <1>4
    <3>7. "ACK" \in flags => AckOK(h, t, r + t.rx_len, pw, ended)
      <4>1. ASSUME "ACK" \in flags PROVE AckOK(h, t, r + t.rx_len, pw, ended)
        <5>1. t.state \in Connected \cup {"SYN_RECEIVED"}
          BY <1>17, <3>5, <3>6, <4>1 DEF SynStates
        <5> QED BY <1>17, <5>1, SockAckOK
      <4> QED BY <4>1
    <3>8. ASSUME NEW x \in out PROVE SentOK(h, x, w, r + t.rx_len, pw, ended, t.state \in MayWrite)
      <4>1. x = Xmit(h, t, flags, t.snd_una, <<>>)
        BY <3>1
      <4> QED BY <1>17, <3>5, <3>6, <3>7, <4>1, SynSent
    <3>9. ResultOK(h, t, t, {}, w, r, pw, ended, pt, an)
      BY <1>17, <3>5, SameResult
    <3>10. ResultOK(h, t, t, out, w, r, pw, ended, pt, an)
      BY <3>8, <3>9 DEF ResultOK
    <3>11. TimerOK(z.s, an) /\ z.s.state = t.state
      BY <3>4 DEF TimerOK, SameStreams
    <3>12. ResultOK(h, t, z.s, z.out, w, r, pw, ended, pt, an)
      BY <3>4, <3>10, <3>11, SameStreamsResult
    <3> QED BY <1>17, <1>18, <3>11, <3>12
  <2>4. CASE pend /\ ~over /\ ~hand
    <3>1. PICK y : y = Rewind(t)
      OBVIOUS
    <3>2. z = Rearm(Output(h, y, cwnd))
      BY <1>7, <2>4, <3>1
    <3>3. s.state \in Connected
      <4>1. s.state \in SockStates
        BY <1>13 DEF Sockets
      <4> QED BY <1>2, <1>8, <2>4, <4>1 DEF SockStates, SynStates
    <3>4. SockOK(h, y, w, r, pw, ended, pt) /\ y.state = t.state /\ y.rx_len = t.rx_len
      BY <1>17, <3>1, <3>3, RewindOK
    <3>5. PICK x, out : x = Output(h, y, cwnd).s /\ out = Output(h, y, cwnd).out
      OBVIOUS
    <3>6. y.state \in Connected /\ y.rx_len >= t.rx_len /\ cwnd \in Nat
      <4>1. t.rx_len \in Int
        BY <1>17 DEF Sockets
      <4>2. cwnd \in Nat
        BY WindowNat
      <4> QED BY <1>17, <3>3, <3>4, <4>1, <4>2
    <3>7. ResultOK(h, t, x, out, w, r, pw, ended, pt, an)
      BY <1>17, <3>4, <3>5, <3>6, OutputResult
    <3>8. x \in Sockets /\ x.state = y.state
      <4>1. y \in Sockets /\ SendOK(h, y, w)
        BY <3>4 DEF SockOK
      <4> QED BY <3>5, <3>6, <4>1, OutputSocket
    <3>9. Output(h, y, cwnd) = [s |-> x, out |-> out]
      BY <3>5 DEF Output
    <3>10. z.out = out /\ SameStreams(x, z.s) /\ z.s.rtx = TRUE
      <4>1. z = Rearm([s |-> x, out |-> out])
        BY <3>2, <3>9
      <4> QED BY <3>8, <4>1, RearmFacts
    <3>11. TimerOK(z.s, an) /\ z.s.state = t.state
      BY <3>4, <3>8, <3>10 DEF TimerOK, SameStreams
    <3>12. ResultOK(h, t, z.s, z.out, w, r, pw, ended, pt, an)
      BY <3>7, <3>10, <3>11, SameStreamsResult
    <3> QED BY <1>17, <1>18, <3>11, <3>12
  <2> QED BY <2>1, <2>2, <2>3, <2>4
<1>20. app' = [app EXCEPT ![h] = an]
  BY <1>8, <1>14 DEF TcpInv, TcpTypeOK
<1>21. Quietly
  BY <1>8, QuietlyFacts
<1> QED BY <1>9, <1>19, <1>20, <1>21, StepFrame DEF Quietly

-----------------------------------------------------------------------------
(* The theorems.                                                           *)

LEMMA TcpInitInv ==
    ASSUME TcpInit
    PROVE  TcpInv
<1>1. ASSUME NEW h \in Hosts
      PROVE  /\ sock[h] = Gone(h) /\ app[h] = "idle" /\ written[h] = 0 /\ read[h] = 0
             /\ sock[h] \in Sockets /\ sock[h].state = "NONE" /\ sock[h].fin_queued = FALSE
             /\ sock[h].ooo_len = 0 /\ sock[h].rx_len = 0 /\ sock[h].unaccepted = FALSE
  <2>1. sock[h] = Gone(h) /\ app[h] = "idle" /\ written[h] = 0 /\ read[h] = 0
    BY DEF TcpInit
  <2> QED BY <2>1, FreshFacts
<1>2. TcpTypeOK
  <2>1. sock \in [Hosts -> Sockets]
    <3>1. \A h \in Hosts : Gone(h) \in Sockets
      BY FreshFacts
    <3> QED BY <3>1 DEF TcpInit
  <2>2. "idle" \in AppStates
    BY DEF AppStates
  <2> QED BY <2>1, <2>2 DEF TcpInit, TcpTypeOK
<1>3. ASSUME NEW h \in Hosts PROVE HostOK(h)
  <2>1. PICK p \in Hosts : p = Peer(h)
    BY HostFacts
  <2>2. SendOK(h, sock[h], written[h])
    BY <1>1 DEF SendOK, SynStates, FinIsAcked, Connected
  <2>3. RecvOK(h, sock[h], read[h], written[p], ~CanWrite(p))
    <3>1. PICK s : s = sock[h]
      OBVIOUS
    <3>2. s.state = "NONE" /\ s.ooo_len = 0 /\ s.rx_len = 0 /\ read[h] = 0 /\ written[p] = 0
      BY <1>1, <3>1
    <3>3. s.rx_len \in 0 .. RxMax /\ read[h] + s.rx_len <= written[p]
      BY <3>2, ConstantFacts
    <3>4. RecvOK(h, s, read[h], written[p], ~CanWrite(p))
      BY <3>2, <3>3 DEF RecvOK, Connected
    <3> QED BY <3>1, <3>4
  <2>4. "NONE" \notin Connected
    BY DEF Connected
  <2>5. written[h] <= StreamLen[h]
    <3>1. StreamLen[h] \in Nat /\ written[h] = 0
      BY <1>1, ConstantFacts
    <3> QED BY <3>1
  <2> QED BY <1>1, <2>1, <2>2, <2>3, <2>4, <2>5 DEF HostOK, TimerOK
<1>4. net = {}
  BY DEF TcpInit
<1> QED BY <1>2, <1>3, <1>4 DEF TcpInv

LEMMA TcpStutterInv ==
    ASSUME TcpInv, UNCHANGED tcpVars
    PROVE  TcpInv'
<1>1. sock \in [Hosts -> Sockets] /\ app \in [Hosts -> AppStates] /\ Client \in Hosts
  BY DEF TcpInv, TcpTypeOK, Hosts
<1>2. StepOK(Client, sock[Client], {}, written[Client], read[Client], app[Client])
  BY <1>1, SameStep
<1>3. sock' = [sock EXCEPT ![Client] = sock[Client]] /\ app' = [app EXCEPT ![Client] = app[Client]]
  BY <1>1 DEF tcpVars
<1>4. net' \subseteq net \cup {} /\ UNCHANGED <<written, read>> /\ faults' \in Nat /\ listening' \in BOOLEAN
  BY DEF tcpVars, TcpInv, TcpTypeOK
<1> QED BY <1>1, <1>2, <1>3, <1>4, StepFrame

LEMMA TcpNextInv ==
    ASSUME TcpInv, [TcpNext]_tcpVars
    PROVE  TcpInv'
<1>1. ASSUME NEW g \in net, Deliver(g, FALSE) PROVE TcpInv'
  BY <1>1, DeliverInv
<1>2. ASSUME NEW g \in net, Deliver(g, TRUE) PROVE TcpInv'
  BY <1>2, DeliverInv
<1>3. ASSUME NEW g \in net, Lose(g) PROVE TcpInv'
  BY <1>3, LoseInv
<1>4. ASSUME NEW waits \in BOOLEAN, NEW sent \in BOOLEAN, Connect(waits, sent) PROVE TcpInv'
  BY <1>4, ConnectInv
<1>5. CASE ConnectSyn
  BY <1>5, ConnectSynInv
<1>6. CASE ConnectDone
  BY <1>6, ConnectDoneInv
<1>7. CASE ConnectFails
  BY <1>7, ConnectFailsInv
<1>8. CASE Accept
  BY <1>8, AcceptInv
<1>9. CASE StopListening
  BY <1>9, StopListeningInv
<1>10. ASSUME NEW h \in Hosts, NEW n \in 1 .. TxMax, SocketSend(h, n) PROVE TcpInv'
  BY <1>10, SocketSendInv
<1>11. ASSUME NEW h \in Hosts, NEW n \in 1 .. RxMax, Recv(h, n) PROVE TcpInv'
  BY <1>11, RecvInv
<1>12. ASSUME NEW h \in Hosts, ShutdownWr(h) PROVE TcpInv'
  BY <1>12, ShutdownWrInv
<1>13. ASSUME NEW h \in Hosts, Close(h) PROVE TcpInv'
  BY <1>13, CloseInv
<1>14. ASSUME NEW h \in Hosts, CloseEnds(h) PROVE TcpInv'
  BY <1>14, CloseEndsInv
<1>15. ASSUME NEW h \in Hosts, Destroy(h) PROVE TcpInv'
  BY <1>15, DestroyInv
<1>16. ASSUME NEW h \in Hosts, Abandon(h) PROVE TcpInv'
  BY <1>16, AbandonInv
<1>17. ASSUME NEW h \in Hosts, TimeWaitEnds(h) PROVE TcpInv'
  BY <1>17, TimeWaitEndsInv
<1>18. ASSUME NEW h \in Hosts, PollFree(h) PROVE TcpInv'
  BY <1>18, PollFreeInv
<1>19. ASSUME NEW h \in Hosts, NEW cwnd \in Failure \cup {Mss}, Retransmit(h, cwnd) PROVE TcpInv'
  BY <1>19, RetransmitInv
<1>20. CASE UNCHANGED tcpVars
  BY <1>20, TcpStutterInv
<1> QED
  BY <1>1, <1>2, <1>3, <1>4, <1>5, <1>6, <1>7, <1>8, <1>9, <1>10, <1>11, <1>12, <1>13, <1>14, <1>15,
     <1>16, <1>17, <1>18, <1>19, <1>20 DEF TcpNext

\* tcp.c: in every state the two sockets, the segments in flight and what the two
\* applications have written and read agree on the positions of both streams.
THEOREM TcpInductive == TcpSpec => []TcpInv
<1>1. TcpInit => TcpInv
  BY TcpInitInv
<1>2. TcpInv /\ [TcpNext]_tcpVars => TcpInv'
  BY TcpNextInv
<1> QED BY <1>1, <1>2, PTL DEF TcpSpec

\* Every variable of the model keeps its type: the states of a socket, whole numbers
\* for the counters, a buffer of TCP_WINDOW_SIZE bytes, well-formed segments.
THEOREM TcpTypeCorrect == TcpSpec => []TcpTypeOK
<1>1. TcpInv => TcpTypeOK
  BY DEF TcpInv
<1> QED BY <1>1, TcpInductive, PTL

\* A socket that waits for an answer has its retransmission timer running: no path
\* through tcp_input(), tcp_poll() and the calls of an application leaves one that
\* has data, a SYN or a FIN outstanding without it.
THEOREM TimerIsArmed == TcpSpec => []TimerArmed
<1>1. TcpInv => TimerArmed
  BY DEF TcpInv, HostOK, TimerOK, TimerArmed
<1> QED BY <1>1, TcpInductive, PTL

\* tcp_process_ack() frees a byte of the send queue only when the socket at the other
\* end has taken it.
THEOREM AckedBytesAreTaken == TcpSpec => []AckedIsTaken
<1>1. TcpInv => AckedIsTaken
  BY DEF TcpInv, HostOK, AckedIsTaken
<1> QED BY <1>1, TcpInductive, PTL

\* A socket that has taken the FIN of its peer has all that the peer's application
\* wrote.
THEOREM EofIsTheEnd == TcpSpec => []EofIsEnd
<1>1. ASSUME TcpInv PROVE EofIsEnd
  <2>1. ASSUME NEW h \in Hosts, FinTaken(h) PROVE Taken(h) = written[Peer(h)]
    <3>1. sock[h].state \in FinIsTaken /\ sock[h].state \in Connected
      BY <2>1 DEF FinTaken, FinIsTaken, Connected
    <3>2. RecvOK(h, sock[h], read[h], written[Peer(h)], ~CanWrite(Peer(h)))
      BY <1>1 DEF TcpInv, HostOK
    <3>3. NextIs(h, sock[h], read[h], written[Peer(h)], ~CanWrite(Peer(h)), sock[h].state \in FinIsTaken)
      BY <3>1, <3>2 DEF RecvOK
    <3> QED BY <3>1, <3>3 DEF NextIs, Taken
  <2> QED BY <2>1 DEF EofIsEnd
<1>2. TcpInv => EofIsEnd
  BY <1>1
<1> QED BY <1>2, TcpInductive, PTL

\* The bytes in a receive buffer, in order and behind a gap, are the bytes the peer's
\* application wrote, each at its place.
THEOREM StreamIsIntact == TcpSpec => []StreamIntegrity
<1>1. ASSUME TcpInv PROVE StreamIntegrity
  <2>1. ASSUME NEW h \in Hosts
        PROVE  /\ \A i \in 1 .. sock[h].rx_len : sock[h].rx[i] = read[h] + i
               /\ sock[h].ooo_len > 0 =>
                    \A i \in sock[h].rx_len + Minus(sock[h].ooo_seq, sock[h].rcv_nxt) + 1 ..
                             sock[h].rx_len + Minus(sock[h].ooo_seq, sock[h].rcv_nxt) + sock[h].ooo_len :
                        sock[h].rx[i] = read[h] + i
    <3>1. PICK p \in Hosts : p = Peer(h)
      BY HostFacts
    <3>2. PICK s \in Sockets, r \in Nat, pw \in Nat : s = sock[h] /\ r = read[h] /\ pw = written[p]
      BY <1>1, <3>1, InvFacts
    <3>3. RecvOK(h, s, r, pw, ~CanWrite(p)) /\ pw <= StreamLen[p]
      BY <1>1, <3>1, <3>2 DEF TcpInv, HostOK
    <3>4. \A i \in 1 .. s.rx_len : s.rx[i] = r + i
      BY <3>3 DEF RecvOK
    <3>5. ASSUME s.ooo_len > 0
          PROVE  \A i \in s.rx_len + Minus(s.ooo_seq, s.rcv_nxt) + 1 ..
                          s.rx_len + Minus(s.ooo_seq, s.rcv_nxt) + s.ooo_len : s.rx[i] = r + i
      <4>1. PICK l \in Nat, k \in Nat : l = s.rx_len /\ k = s.ooo_len /\ k > 0
        <5>1. s.rx_len \in 0 .. RxMax /\ s.ooo_len \in Int
          BY <3>3 DEF RecvOK, Sockets
        <5>2. s.rx_len \in Nat /\ s.ooo_len \in Nat
          BY <3>5, <5>1, ConstantFacts
        <5> QED BY <3>5, <5>2
      <4>2. s.state \in Connected /\ \E b \in Nat : BlockAt(h, s, r, pw, b)
        BY <3>3, <3>5 DEF RecvOK
      <4>3. PICK b \in Nat : BlockAt(h, s, r, pw, b)
        BY <4>2
      <4>4. /\ s.ooo_seq = Plus(Iss[p], 1 + b) /\ b > r + l /\ b + k <= pw
            /\ \A i \in (b - r) + 1 .. (b - r) + k : s.rx[i] = r + i
        BY <3>1, <4>1, <4>3 DEF BlockAt
      <4>5. NextIs(h, s, r, pw, ~CanWrite(p), s.state \in FinIsTaken)
        BY <3>3, <4>2 DEF RecvOK
      <4>6. s.state \notin FinIsTaken
        <5>1. s.state \in FinIsTaken => r + l = pw
          BY <4>1, <4>5 DEF NextIs
        <5> QED BY <4>1, <4>4, <5>1
      <4>7. s.rcv_nxt = Plus(Iss[p], 1 + r + l)
        <5>1. s.rcv_nxt = Plus(Iss[p], 1 + r + l + 0)
          BY <3>1, <4>1, <4>5, <4>6 DEF NextIs, Bit
        <5>2. 1 + r + l + 0 = 1 + r + l
          OBVIOUS
        <5> QED BY <5>1, <5>2
      <4>8. PICK n \in Nat : n = StreamLen[p]
        BY ConstantFacts
      <4>9. 1 + b \in 0 .. n + 2 /\ 1 + r + l \in 0 .. n + 2
        BY <3>3, <4>1, <4>4, <4>8
      <4>10. Minus(s.ooo_seq, s.rcv_nxt) = (1 + b) - (1 + r + l)
        BY <4>4, <4>7, <4>8, <4>9, DistanceFacts
      <4>11. PICK gap \in Int : gap = Minus(s.ooo_seq, s.rcv_nxt) /\ l + gap = b - r
        BY <4>10
      <4> QED BY <4>1, <4>4, <4>11
    <3> QED BY <3>2, <3>4, <3>5
  <2> QED BY <2>1 DEF StreamIntegrity
<1>2. TcpInv => StreamIntegrity
  BY <1>1
<1> QED BY <1>2, TcpInductive, PTL
=============================================================================
