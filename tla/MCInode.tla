------------------------------ MODULE MCInode -------------------------------
(***************************************************************************)
(* Small instances of Inode.                                               *)
(***************************************************************************)
EXTENDS Inode, TLC

\* Processes are interchangeable.
InodeSymmetry == Permutations(Proc)
=============================================================================
