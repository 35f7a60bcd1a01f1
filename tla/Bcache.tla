------------------------------- MODULE Bcache -------------------------------
(***************************************************************************)
(* The buffer cache of kernel/bio.c: bget, bread, bwrite, brelse, bpin and *)
(* bunpin, with the LRU list, reference counts and sleep locks.            *)
(*                                                                         *)
(* Code under bcache.lock is one step.  Each process uses one buffer at a  *)
(* time, the way the file system does: read it, change it and then either  *)
(* bwrite it (as install_trans does) or pin it until that happens (as      *)
(* log_write does), and release it.                                        *)
(***************************************************************************)
EXTENDS Naturals, FiniteSets

CONSTANTS Proc, Block,
          NBUF,
          None,        \* no process, no block
          MaxPins,     \* bound: buffers pinned at a time (log.lh.n)
          MaxWrites    \* bound: changes made to block data

ASSUME BcacheAssumption ==
  /\ NBUF \in Nat \ {0} /\ MaxPins \in Nat /\ MaxWrites \in Nat
  /\ None \notin Proc \cup Block /\ IsFiniteSet(Proc)

Buf == 1..NBUF
Value == 0..MaxWrites

VARIABLES
  lru,                       \* the list from head.next to head.prev
  blockno, valid, refcnt, data, slock,   \* struct buf; slock: who holds b->lock
  disk,
  pc, want, buf,             \* a process's position, its block and its b
  pinned,                    \* buffers with a bpin outstanding
  latest, writes             \* last data given to each block; how many so far

list == <<lru, blockno, refcnt>>
ghost == <<pinned, latest, writes>>
vars == <<lru, blockno, valid, refcnt, data, slock, disk, pc, want, buf,
          pinned, latest, writes>>

\* binit pushes the buffers one after the other to the front.
Init ==
  /\ lru = [k \in Buf |-> NBUF + 1 - k]
  /\ blockno = [b \in Buf |-> None]
  /\ valid = [b \in Buf |-> FALSE]
  /\ refcnt = [b \in Buf |-> 0]
  /\ data = [b \in Buf |-> 0]
  /\ slock = [b \in Buf |-> None]
  /\ disk = [n \in Block |-> 0]
  /\ pc = [p \in Proc |-> "idle"]
  /\ want = [p \in Proc |-> None]
  /\ buf = [p \in Proc |-> 1]
  /\ pinned = {} /\ latest = disk /\ writes = 0

-----------------------------------------------------------------------------
Goto(p, l) == pc' = [pc EXCEPT ![p] = l]
Cached(n) == {b \in Buf : blockno[b] = n}
Unused == {b \in Buf : refcnt[b] = 0}
\* Mutant: the last buffer of the list is taken, in use or not.
Victim_Last == lru[NBUF]

\* The first unused buffer met from head.prev backwards.
Victim == lru[CHOOSE k \in Buf : /\ lru[k] \in Unused
                                 /\ \A m \in Buf : m > k => lru[m] \notin Unused]

\* Mutant: b->valid is not cleared.
Bget_KeepValid(p, n) ==
  /\ pc[p] = "idle"
  /\ \/ \E b \in Cached(n) :
          /\ refcnt' = [refcnt EXCEPT ![b] = @ + 1]
          /\ buf' = [buf EXCEPT ![p] = b]
          /\ UNCHANGED blockno
     \/ /\ Cached(n) = {} /\ Unused # {}
        /\ refcnt' = [refcnt EXCEPT ![Victim] = 1]
        /\ buf' = [buf EXCEPT ![p] = Victim]
        /\ blockno' = [blockno EXCEPT ![Victim] = n]
  /\ want' = [want EXCEPT ![p] = n]
  /\ Goto(p, "lock")
  /\ UNCHANGED <<lru, valid, data, slock, disk, ghost>>

\* bget up to release(&bcache.lock): a cached block, or the victim is renamed.
\* Without a victim bget panics.
Bget(p, n) ==
  /\ pc[p] = "idle"
  /\ \/ \E b \in Cached(n) :
          /\ refcnt' = [refcnt EXCEPT ![b] = @ + 1]
          /\ buf' = [buf EXCEPT ![p] = b]
          /\ UNCHANGED <<blockno, valid>>
     \/ /\ Cached(n) = {} /\ Unused # {}
        /\ refcnt' = [refcnt EXCEPT ![Victim] = 1]
        /\ buf' = [buf EXCEPT ![p] = Victim]
        /\ blockno' = [blockno EXCEPT ![Victim] = n]
        /\ valid' = [valid EXCEPT ![Victim] = FALSE]
  /\ want' = [want EXCEPT ![p] = n]
  /\ Goto(p, "lock")
  /\ UNCHANGED <<lru, data, slock, disk, ghost>>

\* acquiresleep(&b->lock), and bread's test of b->valid.
Lock(p) ==
  /\ pc[p] = "lock"
  /\ slock[buf[p]] = None
  /\ slock' = [slock EXCEPT ![buf[p]] = p]
  /\ Goto(p, IF valid[buf[p]] THEN "held" ELSE "read")
  /\ UNCHANGED <<list, valid, data, disk, want, buf, ghost>>

\* virtio_disk_rw(b, 0) has answered.
DiskRead(p) ==
  /\ pc[p] = "read"
  /\ data' = [data EXCEPT ![buf[p]] = disk[blockno[buf[p]]]]
  /\ valid' = [valid EXCEPT ![buf[p]] = TRUE]
  /\ Goto(p, "held")
  /\ UNCHANGED <<list, slock, disk, want, buf, ghost>>

\* Buffers about to be pinned: begin_op has reserved log space for them.
Changing == {buf[p] : p \in {q \in Proc : pc[q] = "changed"}}

\* The holder changes b->data.
Change(p) ==
  /\ pc[p] = "held" /\ writes < MaxWrites
  /\ Cardinality(pinned \cup Changing \cup {buf[p]}) <= MaxPins
  /\ writes' = writes + 1
  /\ data' = [data EXCEPT ![buf[p]] = writes + 1]
  /\ latest' = [latest EXCEPT ![want[p]] = writes + 1]
  /\ Goto(p, "changed")
  /\ UNCHANGED <<list, valid, slock, disk, want, buf, pinned>>

\* bpin, unless log_write finds the block logged already.
Bpin(p) ==
  /\ pc[p] = "changed"
  /\ \/ buf[p] \in pinned /\ UNCHANGED <<refcnt, pinned>>
     \/ /\ buf[p] \notin pinned
        /\ refcnt' = [refcnt EXCEPT ![buf[p]] = @ + 1]
        /\ pinned' = pinned \cup {buf[p]}
  /\ Goto(p, "held")
  /\ UNCHANGED <<lru, blockno, valid, data, slock, disk, want, buf, latest, writes>>

\* bwrite: a change that is not logged (write_log, write_head), or the install
\* of a pinned block.  The data is on the disk when virtio_disk_rw returns.
Bwrite(p) ==
  /\ \/ pc[p] = "held" /\ buf[p] \in pinned /\ Goto(p, "unpin")
     \/ pc[p] = "changed" /\ buf[p] \notin pinned /\ Goto(p, "held")
  /\ disk' = [disk EXCEPT ![blockno[buf[p]]] = data[buf[p]]]
  /\ UNCHANGED <<list, valid, data, slock, want, buf, ghost>>

\* bunpin, which install_trans calls after bwrite; the list is left alone.
Bunpin(p) ==
  /\ pc[p] = "unpin"
  /\ refcnt' = [refcnt EXCEPT ![buf[p]] = @ - 1]
  /\ pinned' = pinned \ {buf[p]}
  /\ Goto(p, "held")
  /\ UNCHANGED <<lru, blockno, valid, data, slock, disk, want, buf, latest, writes>>

\* brelse: the sleep lock goes first ...
Brelse(p) ==
  /\ pc[p] = "held"
  /\ slock' = [slock EXCEPT ![buf[p]] = None]
  /\ Goto(p, "unref")
  /\ UNCHANGED <<list, valid, data, disk, want, buf, ghost>>

\* The list with b taken out of its place k and put in front.
MoveToFront(b) ==
  LET k == CHOOSE i \in Buf : lru[i] = b IN
  [m \in Buf |-> IF m = 1 THEN b ELSE IF m <= k THEN lru[m - 1] ELSE lru[m]]

\* ... then, under bcache.lock, the reference; the last one moves the buffer
\* to the front of the list.
Unref(p) ==
  LET b == buf[p] IN
  /\ pc[p] = "unref"
  /\ refcnt' = [refcnt EXCEPT ![b] = @ - 1]
  /\ lru' = IF refcnt[b] = 1 THEN MoveToFront(b) ELSE lru
  /\ Goto(p, "idle")
  /\ want' = [want EXCEPT ![p] = None]
  /\ buf' = [buf EXCEPT ![p] = 1]
  /\ UNCHANGED <<blockno, valid, data, slock, disk, ghost>>

Next == \E p \in Proc :
  \/ \E n \in Block : Bget(p, n)
  \/ Lock(p) \/ DiskRead(p) \/ Change(p) \/ Bpin(p) \/ Bwrite(p) \/ Bunpin(p)
  \/ Brelse(p) \/ Unref(p)

Spec == Init /\ [][Next]_vars

-----------------------------------------------------------------------------
\* A block has at most one buffer, and a buffer is not renamed while anybody
\* holds it, waits for it or has pinned it: refcnt counts them all, from bget
\* to the end of brelse, which unlocks the buffer first.
OneBufferPerBlock ==
  /\ \A b, d \in Buf : blockno[b] = blockno[d] /\ blockno[b] # None => b = d
  /\ \A p \in Proc : pc[p] # "idle" => blockno[buf[p]] = want[p]
  /\ \A b \in Buf : refcnt[b] =
       Cardinality({p \in Proc : pc[p] # "idle" /\ buf[p] = b})
         + (IF b \in pinned THEN 1 ELSE 0)

\* The holder of a buffer is alone with it and sees the block's newest data,
\* however often the buffer was recycled in between.
HolderSeesLatest ==
  \A p \in Proc : pc[p] \in {"held", "changed", "unpin"} =>
    slock[buf[p]] = p /\ data[buf[p]] = latest[want[p]]
=============================================================================
