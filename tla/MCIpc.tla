--------------------------------- MODULE MCIpc ---------------------------------
(* Instances of Ipc for TLC. *)
EXTENDS Ipc, TLC

CONSTANTS t1, t2, t3

\* Two threads in the first slot's process, one in the second's.
MCSlotOf == t1 :> 1 @@ t2 :> 1 @@ t3 :> 2
================================================================================
