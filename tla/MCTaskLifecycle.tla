---------------------------- MODULE MCTaskLifecycle ----------------------------
(***************************************************************************)
(* TaskLifecycle for TLC.  The slots and pids are small numbers: tables    *)
(* are searched in their order, so there is no symmetry.                   *)
(***************************************************************************)
EXTENDS TaskLifecycle
================================================================================
