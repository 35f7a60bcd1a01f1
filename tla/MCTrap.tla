------------------------------- MODULE MCTrap -------------------------------
(***************************************************************************)
(* Two CPUs and two processes, the second one forked, with a tick counter  *)
(* that wraps.                                                             *)
(***************************************************************************)
EXTENDS Trap

CONSTANTS c0, c1
=============================================================================
