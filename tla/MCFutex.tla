-------------------------------- MODULE MCFutex --------------------------------
(* Instances of Futex for TLC. *)
EXTENDS Futex, TLC

CONSTANTS t1, t2, t3, p1, p2, a1, a2

\* Two threads of one process and one of another.
MCPidOf == t1 :> p1 @@ t2 :> p1 @@ t3 :> p2

\* Words at different addresses share buckets across the processes; the two
\* processes' words at one address do not.
MCHash == <<p1, a1>> :> 0 @@ <<p1, a2>> :> 1 @@ <<p2, a1>> :> 1 @@ <<p2, a2>> :> 0
================================================================================
