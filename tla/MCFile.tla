------------------------------- MODULE MCFile -------------------------------
(***************************************************************************)
(* Small instances of File.                                                *)
(***************************************************************************)
EXTENDS File, TLC

\* Pipes are interchangeable, and so are the processes other than the first.
FileSymmetry == Permutations(Pipe) \cup Permutations(Proc \ {Root})
=============================================================================
