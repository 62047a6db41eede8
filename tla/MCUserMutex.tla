------------------------------ MODULE MCUserMutex ------------------------------
(* Instances of UserMutex for TLC. *)
EXTENDS UserMutex, TLC

CONSTANT p1

\* All threads in one process, both words in one bucket.
MCPidOf == [t \in Threads |-> p1]
MCHash  == [x \in {p1} \X {M, C} |-> 0]
MCSymmetry == Permutations(Threads)
================================================================================
