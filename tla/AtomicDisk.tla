----------------------------- MODULE AtomicDisk -----------------------------
(***************************************************************************)
(* What the log of kernel/log.c promises the file system: operations write *)
(* blocks, a group of finished operations becomes durable all at once, and *)
(* a crash goes back to the last such point.                               *)
(***************************************************************************)
CONSTANTS Block, Proc, Value, InitValue

VARIABLES mem,      \* the block contents operations see
          durable,  \* the block contents a crash goes back to
          active    \* the processes inside an operation

avars == <<mem, durable, active>>

AInit ==
  /\ mem = [b \in Block |-> InitValue]
  /\ durable = mem
  /\ active = {}

Begin(p) == p \notin active /\ active' = active \cup {p} /\ UNCHANGED <<mem, durable>>

Write(p, b, v) ==
  /\ p \in active
  /\ mem' = [mem EXCEPT ![b] = v]
  /\ UNCHANGED <<durable, active>>

End(p) == p \in active /\ active' = active \ {p} /\ UNCHANGED <<mem, durable>>

\* Never while an operation is half done.
Commit == active = {} /\ durable' = mem /\ UNCHANGED <<mem, active>>

Crash == mem' = durable /\ active' = {} /\ UNCHANGED durable

ANext ==
  \/ \E p \in Proc : Begin(p) \/ End(p) \/ \E b \in Block, v \in Value : Write(p, b, v)
  \/ Commit
  \/ Crash

ASpec == AInit /\ [][ANext]_avars
=============================================================================
