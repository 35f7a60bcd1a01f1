------------------------------ MODULE MCBcache ------------------------------
(***************************************************************************)
(* Small instances of Bcache.                                              *)
(***************************************************************************)
EXTENDS Bcache, TLC

\* Blocks and processes are interchangeable; buffers have a place in the list.
BcacheSymmetry == Permutations(Proc) \cup Permutations(Block)
=============================================================================
