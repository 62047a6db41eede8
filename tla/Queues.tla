--------------------------------- MODULE Queues --------------------------------
(***************************************************************************)
(* The kernel's queues of threads, linked lists that are walked from the   *)
(* head: wait_queue_t of src/src/kernel/scheduler.c.                       *)
(***************************************************************************)
EXTENDS Integers, Sequences

\* The queue q after wait_queue_remove() of every thread in S: the others keep
\* their order.
Without(q, S) ==
    LET rest[i \in 0 .. Len(q)] ==
          IF i = 0 THEN <<>>
          ELSE IF q[i] \in S THEN rest[i - 1] ELSE Append(rest[i - 1], q[i])
    IN  rest[Len(q)]

\* The queues f[1] .. f[n] one behind the other, as a loop over them that appends
\* at the tail makes them.
Concatenation(f, n) ==
    LET joined[i \in 0 .. n] == IF i = 0 THEN <<>> ELSE joined[i - 1] \o f[i]
    IN  joined[n]
================================================================================
