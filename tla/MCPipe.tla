------------------------------- MODULE MCPipe -------------------------------
(***************************************************************************)
(* Small instances of Pipe: a two-byte buffer and counters modulo four.    *)
(***************************************************************************)
EXTENDS Pipe
=============================================================================
