----------------------------- MODULE MCConsole -----------------------------
(***************************************************************************)
(* Small instances of Console.                                             *)
(***************************************************************************)
EXTENDS Console, TLC

\* The writers are interchangeable.
ConsoleSymmetry == Permutations(Writer)

\* Bound: before the first write there is any amount of input and reading;
\* after it, nothing has been read and a line of at most one character is typed
\* and erased.
OneSideBusy ==
  \/ \A k \in DOMAIN tx : tx[k] = Echo
  \/ /\ r = 0 /\ w = 0 /\ e <= 1
     /\ \A k \in DOMAIN buf : buf[k] = "a"
     /\ \A p \in Reader : pc[p] = "idle" /\ ~killed[p]
=============================================================================
