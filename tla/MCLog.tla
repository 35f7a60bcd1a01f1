------------------------------- MODULE MCLog -------------------------------
(***************************************************************************)
(* Small instances of Log.                                                 *)
(***************************************************************************)
EXTENDS Log
=============================================================================
