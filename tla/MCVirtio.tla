------------------------------ MODULE MCVirtio ------------------------------
(***************************************************************************)
(* Small instances of Virtio.                                              *)
(***************************************************************************)
EXTENDS Virtio, TLC

\* The processes that are not killed are interchangeable.
VirtioSymmetry == Permutations(Proc \ Killable)
=============================================================================
