--------------------------------- MODULE MCCow ---------------------------------
(* Instances of Cow for TLC. *)
EXTENDS Cow, TLC

MCSymmetry == Permutations(Frames) \cup Permutations(Procs)
================================================================================
