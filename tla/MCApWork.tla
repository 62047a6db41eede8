-------------------------------- MODULE MCApWork --------------------------------
(* Instances of ApWork for TLC. *)
EXTENDS ApWork

\* Two calls that use the set after each other; a call beside a job; three
\* jobs for two APs.
MCMixes == {<<2, 0>>, <<1, 1>>, <<0, 3>>}
================================================================================
