------------------------------ MODULE MCUserLocks ------------------------------
(***************************************************************************)
(* Instances of UserRwlock and UserSem for TLC: the threads of a process   *)
(* share a reader/writer lock, or a semaphore and a one-time               *)
(* initialisation; which of them is settled at the start.                  *)
(***************************************************************************)
EXTENDS UserRwlock, UserSem, TLC

CONSTANT p1

VARIABLE object

MCVars == <<vars, pc, mode, v, runs, object>>

MCInit ==
    \/ object = "rwlock" /\ RwInit /\ runs = [p \in Pids |-> 0]
    \/ object = "semaphore" /\ SemInit /\ mode = [t \in Threads |-> "none"] /\ v = [t \in Threads |-> 0]

MCNext ==
    \/ object = "rwlock" /\ RwNext /\ UNCHANGED <<runs, object>>
    \/ object = "semaphore" /\ SemNext /\ UNCHANGED <<mode, v, object>>

MCSpec == MCInit /\ [][MCNext]_MCVars

\* All threads in one process, every word in one bucket.
MCPidOf == [t \in Threads |-> p1]
MCHash  == [x \in {p1} \X {L, S, O} |-> 0]
MCSymmetry == Permutations(Threads)
================================================================================
