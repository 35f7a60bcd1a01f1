-------------------------------- MODULE MCVm --------------------------------
(***************************************************************************)
(* Small instances of Vm.                                                  *)
(***************************************************************************)
EXTENDS Vm

\* Grow within a page, over a page, and shrink by more or less than there is.
MCSbrkArgs == {-3, 1, 3}
=============================================================================
