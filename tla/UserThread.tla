------------------------------ MODULE UserThread -------------------------------
(***************************************************************************)
(* Threads of user processes that run the synchronisation library,         *)
(* src/userland/lib/cos_sync.c, on the kernel futex (module Futex).        *)
(*                                                                         *)
(* Every atomic instruction on a shared word and every futex call is one   *)
(* step.  pc is the next step of a thread; a thread that is in a futex     *)
(* call (at # "user") takes it when the call has returned.                 *)
(***************************************************************************)
EXTENDS Futex

VARIABLE pc

Word(t, a) == mem[PidOf[t]][a]
SetWord(t, a, w) == mem' = [mem EXCEPT ![PidOf[t]][a] = w]

\* A thread in user mode whose next step is s.
At(t, s)   == at[t] = "user" /\ pc[t] = s
Goto(t, s) == pc' = [pc EXCEPT ![t] = s]

\* The thread has used, or does not use, the value its futex call returned.
Discard(t) == ret' = [ret EXCEPT ![t] = "none"]

ThreadsInit ==
    /\ KernelInit
    /\ pc = [t \in Threads |-> "idle"]

\* The kernel's own steps: a futex call returns, time passes, a deadline is met.
KernelSteps ==
    /\ \/ \E t \in Threads : Return(t)
       \/ Tick
       \/ ExpireTimeouts
    /\ UNCHANGED pc
================================================================================
