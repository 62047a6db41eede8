----------------------------- MODULE MCKernelLock -----------------------------
(***************************************************************************)
(* KernelLock for TLC: two CPUs, three threads, sections nested three deep.*)
(***************************************************************************)
EXTENDS KernelLock, TLC

Symmetry == Permutations(Cpus) \cup Permutations(ThreadSet)
=============================================================================
