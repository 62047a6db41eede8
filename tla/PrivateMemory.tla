----------------------------- MODULE PrivateMemory -----------------------------
(***************************************************************************)
(* What the private memory of a process promises, whatever frames it lives *)
(* in: a process alone changes what its pages hold, and a child of fork()  *)
(* starts with what its parent's pages held.  While a fork copies, threads *)
(* of the parent on other CPUs go on writing, so each page of the child    *)
(* has some value that the parent's page had meanwhile.                    *)
(***************************************************************************)
CONSTANTS Procs, Pages,
          Values,
          Absent,     \* the page holds nothing
          NoProc

VARIABLES alive,    \* processes that can run
          view,     \* what a process finds in each of its pages
          forker,   \* the process whose memory is being copied
          snap      \* the values its pages have had since the copy began

vars == <<alive, view, forker, snap>>

Contents == [Pages -> Values \cup {Absent}]
Empty == [v \in Pages |-> Absent]

Init ==
    /\ \E p \in Procs : alive = {p}
    /\ view = [p \in Procs |-> Empty]
    /\ forker = NoProc
    /\ snap = [v \in Pages |-> {}]

\* p maps, writes, loses or replaces pages of its own.
Change(p) ==
    /\ p \in alive
    /\ view'[p] \in Contents
    /\ view' = [view EXCEPT ![p] = view'[p]]
    /\ snap' = IF p = forker THEN [v \in Pages |-> snap[v] \cup {view'[p][v]}] ELSE snap
    /\ UNCHANGED <<alive, forker>>

ForkBegins(p) ==
    /\ p \in alive
    /\ forker = NoProc
    /\ forker' = p
    /\ snap' = [v \in Pages |-> {view[p][v]}]
    /\ UNCHANGED <<alive, view>>

\* The copy is done: the child c runs, or the fork has failed.
ForkEnds ==
    /\ forker # NoProc
    /\ forker' = NoProc
    /\ snap' = [v \in Pages |-> {}]
    /\ \/ \E c \in Procs \ alive :
            /\ alive' = alive \cup {c}
            /\ \A v \in Pages : view'[c][v] \in snap[v]
            /\ view' = [view EXCEPT ![c] = view'[c]]
       \/ UNCHANGED <<alive, view>>

Dies(p) ==
    /\ p \in alive \ {forker}
    /\ alive' = alive \ {p}
    /\ view' = [view EXCEPT ![p] = Empty]
    /\ UNCHANGED <<forker, snap>>

Next == ForkEnds \/ \E p \in Procs : Change(p) \/ ForkBegins(p) \/ Dies(p)

Spec == Init /\ [][Next]_vars
================================================================================
