------------------------------- MODULE MCProc -------------------------------
(***************************************************************************)
(* A small instance of Proc: two CPUs, three slots.                        *)
(***************************************************************************)
EXTENDS Proc, TLC

\* The CPUs are interchangeable; the slots are not (loops visit them in order).
CpuSymmetry == Permutations(CPU)
=============================================================================
