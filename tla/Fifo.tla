-------------------------------- MODULE Fifo --------------------------------
(***************************************************************************)
(* What a pipe promises: a bounded stream of bytes, delivered once each in *)
(* the order they were accepted, with two ends that close once.            *)
(***************************************************************************)
EXTENDS Naturals, Sequences

CONSTANTS Capacity, MaxBytes

VARIABLES q,       \* bytes accepted and not yet taken; byte k is the k-th accepted
          accepted, wopen, ropen

fvars == <<q, accepted, wopen, ropen>>

FInit == q = <<>> /\ accepted = 0 /\ wopen = TRUE /\ ropen = TRUE

Put ==
  /\ wopen /\ ropen
  /\ accepted < MaxBytes
  /\ Len(q) < Capacity
  /\ accepted' = accepted + 1
  /\ q' = Append(q, accepted')
  /\ UNCHANGED <<wopen, ropen>>

Take ==
  /\ ropen
  /\ q # <<>>
  /\ q' = Tail(q)
  /\ UNCHANGED <<accepted, wopen, ropen>>

CloseWrite == wopen /\ wopen' = FALSE /\ UNCHANGED <<q, accepted, ropen>>
CloseRead == ropen /\ ropen' = FALSE /\ UNCHANGED <<q, accepted, wopen>>

FNext == Put \/ Take \/ CloseWrite \/ CloseRead

FSpec == FInit /\ [][FNext]_fvars
=============================================================================
