---------------------------- MODULE BcacheProofs ----------------------------
(***************************************************************************)
(* Proofs about Bcache, for any number of buffers, blocks and processes.   *)
(*                                                                         *)
(* That a holder sees the newest data depends on buffers nobody holds.     *)
(* CacheInv adds that every valid buffer has the newest data of its block, *)
(* and that a block whose newest data is not on the disk is in a buffer    *)
(* that cannot be recycled: it is pinned, or its holder is about to write  *)
(* or pin it.  A recycled buffer is one with refcnt 0, so refcnt has to    *)
(* count exactly, and the LRU list has to keep every buffer.               *)
(***************************************************************************)
EXTENDS Bcache, Counters

Pcs == {"idle", "lock", "read", "held", "changed", "unpin", "unref"}
\* Where a process holds b->lock, and where it may use b->data.
Locked == {"read", "held", "changed", "unpin"}
Reading == {"held", "changed", "unpin"}

BufTypes ==
  /\ blockno \in [Buf -> Block \cup {None}] /\ valid \in [Buf -> BOOLEAN]
  /\ refcnt \in [Buf -> Nat] /\ data \in [Buf -> Nat] /\ slock \in [Buf -> Proc \cup {None}]
ProcTypes == pc \in [Proc -> Pcs] /\ want \in [Proc -> Block \cup {None}] /\ buf \in [Proc -> Buf]
DiskTypes ==
  /\ disk \in [Block -> Nat] /\ latest \in [Block -> Nat] /\ writes \in Nat /\ pinned \subseteq Buf

\* The list has every buffer.
Listed == lru \in [Buf -> Buf] /\ \A b \in Buf : \E k \in Buf : lru[k] = b

\* A block has one buffer, and a process the buffer of its block.
Names ==
  /\ \A b, d \in Buf : blockno[b] = blockno[d] /\ blockno[b] # None => b = d
  /\ \A p \in Proc : pc[p] # "idle" => want[p] \in Block /\ blockno[buf[p]] = want[p]

\* Who uses a buffer, and what refcnt counts.
Users(b) == {p \in Proc : pc[p] # "idle" /\ buf[p] = b}
Pins(b) == IF b \in pinned THEN 1 ELSE 0
Counts == \A b \in Buf : Cardinality(Users(b)) \in Nat /\ refcnt[b] = Cardinality(Users(b)) + Pins(b)

Locks == \A b \in Buf : \A p \in Proc : slock[b] = p <=> pc[p] \in Locked /\ buf[p] = b

\* What a valid buffer holds, and where valid is known.
Valid ==
  /\ \A b \in Buf : valid[b] => blockno[b] \in Block /\ data[b] = latest[blockno[b]]
  /\ \A p \in Proc : (pc[p] \in Reading => valid[buf[p]]) /\ (pc[p] = "read" => ~valid[buf[p]])
  /\ \A b \in pinned : valid[b]

\* A block is on the disk, or in a buffer that stays.
Kept(b) == valid[b] /\ (b \in pinned \/ \E p \in Proc : pc[p] = "changed" /\ buf[p] = b)
Stored ==
  /\ \A n \in Block : disk[n] = latest[n] \/ \E b \in Buf : blockno[b] = n /\ Kept(b)
  /\ \A p \in Proc : pc[p] = "unpin" => buf[p] \in pinned /\ disk[want[p]] = latest[want[p]]

CacheInv == BufTypes /\ ProcTypes /\ DiskTypes /\ Listed /\ Names /\ Counts /\ Locks /\ Valid /\ Stored

-----------------------------------------------------------------------------
\* Positions are told apart.
LEMMA Positions ==
  /\ \A l \in Locked : l \in Pcs /\ l # "idle" /\ l # "lock" /\ l # "unref"
  /\ \A l \in Reading : l \in Locked /\ l # "read"
  BY Zenon DEF Locked, Reading, Pcs

\* Steps of a process on the buffer it has.
Moved(p, l) == pc'[p] = l /\ \A q \in Proc : q # p => pc'[q] = pc[q]
Inner(p, l) ==
  /\ Goto(p, l) /\ l \in Pcs /\ l # "idle" /\ pc[p] # "idle"
  /\ UNCHANGED <<lru, blockno, want, buf>>

\* Such a step keeps the list, the names and who uses which buffer.
LEMMA InnerStep ==
  ASSUME CacheInv, NEW p \in Proc, NEW l, Inner(p, l)
  PROVE  ProcTypes' /\ Listed' /\ Names' /\ Moved(p, l) /\ \A b : Users(b)' = Users(b)
<1>1. Moved(p, l)
  BY Zenon DEF Inner, Goto, Moved, CacheInv, ProcTypes
<1>2. ProcTypes'
  <2>1. pc' \in [Proc -> Pcs]
    BY DEF Inner, Goto, CacheInv, ProcTypes
  <2>. QED BY Zenon, <2>1 DEF Inner, CacheInv, ProcTypes
<1>3. Listed'
  BY Zenon DEF Inner, CacheInv, Listed
<1>4. \A q \in Proc : pc'[q] # "idle" <=> pc[q] # "idle"
  BY Zenon, <1>1 DEF Inner, Moved
<1>5. Names'
  BY Zenon, <1>4 DEF Inner, CacheInv, Names
<1>6. \A b : Users(b)' = Users(b)
  BY Zenon, <1>4 DEF Inner, Users
<1>. QED BY Zenon, <1>1, <1>2, <1>3, <1>5, <1>6

\* A process in bget, or between the two halves of brelse, or working on its
\* buffer: who else has it.
LEMMA Mine ==
  ASSUME CacheInv, NEW p \in Proc, pc[p] # "idle"
  PROVE  /\ buf[p] \in Buf /\ want[p] \in Block /\ blockno[buf[p]] = want[p]
         /\ \A b \in Buf : blockno[b] = want[p] => b = buf[p]
         /\ \A q \in Proc : pc[q] # "idle" /\ want[q] = want[p] => buf[q] = buf[p]
<1>1. /\ buf[p] \in Buf /\ want[p] \in Block /\ blockno[buf[p]] = want[p] /\ want[p] # None
      /\ \A q \in Proc : buf[q] \in Buf
  BY Zenon, BcacheAssumption DEF CacheInv, ProcTypes, Names
<1>. QED BY Zenon, <1>1 DEF CacheInv, Names

\* A process past acquiresleep holds the buffer's lock, and no other is past it.
LEMMA Alone ==
  ASSUME CacheInv, NEW p \in Proc, pc[p] \in Locked
  PROVE  /\ slock[buf[p]] = p
         /\ \A q \in Proc : pc[q] \in Locked /\ buf[q] = buf[p] => q = p
<1>1. buf[p] \in Buf
  BY Zenon DEF CacheInv, ProcTypes
<1>. QED BY Zenon, <1>1 DEF CacheInv, Locks

-----------------------------------------------------------------------------
\* acquiresleep(&b->lock), and the test of b->valid.
LEMMA LockStep == ASSUME CacheInv, NEW p \in Proc, Lock(p) PROVE CacheInv'
<1>. DEFINE l == IF valid[buf[p]] THEN "held" ELSE "read"
<1>1. /\ pc[p] = "lock" /\ slock[buf[p]] = None /\ slock' = [slock EXCEPT ![buf[p]] = p]
      /\ UNCHANGED <<lru, blockno, refcnt, valid, data, disk, want, buf, pinned, latest, writes>>
  BY Zenon DEF Lock, list, ghost
<1>2. Inner(p, l)
  BY Zenon, <1>1 DEF Lock, Inner, Pcs
<1>3. ProcTypes' /\ Listed' /\ Names' /\ Moved(p, l) /\ \A b : Users(b)' = Users(b)
  BY Zenon, <1>2, InnerStep
<1>4. buf[p] \in Buf
  BY Zenon, <1>1, Mine
<1>5. BufTypes' /\ DiskTypes'
  <2>1. slock' \in [Buf -> Proc \cup {None}]
    BY <1>1, Zenon DEF CacheInv, BufTypes
  <2>. QED BY Zenon, <1>1, <2>1 DEF CacheInv, BufTypes, DiskTypes
<1>6. Counts'
  BY Zenon, <1>1, <1>3 DEF CacheInv, Counts, Pins
<1>7. pc'[p] \in Locked /\ pc'[p] \in {"held", "read"} /\ (pc'[p] = "read" <=> ~valid[buf[p]])
  BY Zenon, <1>3 DEF Moved, Locked
<1>8. Locks'
  <2>1. ASSUME NEW b \in Buf, NEW q \in Proc PROVE slock'[b] = q <=> pc'[q] \in Locked /\ buf'[q] = b
    <3>1. CASE b # buf[p]
      <4>1. slock'[b] = slock[b]
        BY Zenon, <1>1, <3>1 DEF CacheInv, BufTypes
      <4>2. slock[b] # p /\ (slock[b] = q <=> pc[q] \in Locked /\ buf[q] = b)
        BY Zenon, <1>1, <3>1 DEF CacheInv, Locks, Locked
      <4>. QED BY Zenon, <1>1, <1>3, <3>1, <4>1, <4>2 DEF Moved
    <3>2. CASE b = buf[p]
      <4>1. slock'[b] = p
        BY Zenon, <1>1, <1>4, <3>2 DEF CacheInv, BufTypes
      <4>2. ~(pc[q] \in Locked /\ buf[q] = b)
        BY Zenon, <1>1, <3>2, BcacheAssumption DEF CacheInv, Locks
      <4>. QED BY Zenon, <1>1, <1>3, <1>7, <3>2, <4>1, <4>2 DEF Moved
    <3>. QED BY Zenon, <3>1, <3>2
  <2>. QED BY Zenon, <2>1 DEF Locks
<1>9. Valid'
  <2>1. \A b \in Buf : valid'[b] => blockno'[b] \in Block /\ data'[b] = latest'[blockno'[b]]
    BY Zenon, <1>1 DEF CacheInv, Valid
  <2>2. ASSUME NEW q \in Proc PROVE (pc'[q] \in Reading => valid'[buf'[q]]) /\ (pc'[q] = "read" => ~valid'[buf'[q]])
    <3>1. CASE q = p
      BY Zenon, <1>1, <1>7, <3>1 DEF Reading
    <3>2. CASE q # p
      BY ZenonT(30), <1>1, <1>3, <3>2 DEF CacheInv, Valid, Moved
    <3>. QED BY Zenon, <3>1, <3>2
  <2>3. \A b \in pinned' : valid'[b]
    BY Zenon, <1>1 DEF CacheInv, Valid
  <2>. QED BY Zenon, <2>1, <2>2, <2>3 DEF Valid
<1>10. Stored'
  <2>1. \A q \in Proc : (pc'[q] = "changed" <=> pc[q] = "changed") /\ (pc'[q] = "unpin" => pc[q] = "unpin")
    BY Zenon, <1>1, <1>3, <1>7 DEF Moved
  <2>2. \A b : Kept(b)' <=> Kept(b)
    BY Zenon, <1>1, <2>1 DEF Kept
  <2>. QED BY Zenon, <1>1, <2>1, <2>2 DEF CacheInv, Stored
<1>. QED BY Zenon, <1>3, <1>5, <1>6, <1>8, <1>9, <1>10 DEF CacheInv

\* The locks stay as they are when a process moves with its lock held.
LEMMA LocksSame ==
  ASSUME CacheInv, NEW p \in Proc, NEW l, Moved(p, l), UNCHANGED <<slock, buf>>, pc[p] \in Locked, l \in Locked
  PROVE  Locks'
  BY Zenon DEF CacheInv, Locks, Moved

\* bread's transfer from the disk.
LEMMA ReadStep == ASSUME CacheInv, NEW p \in Proc, DiskRead(p) PROVE CacheInv'
<1>1. /\ pc[p] = "read" /\ valid' = [valid EXCEPT ![buf[p]] = TRUE]
      /\ data' = [data EXCEPT ![buf[p]] = disk[blockno[buf[p]]]]
      /\ UNCHANGED <<lru, blockno, refcnt, slock, disk, want, buf, pinned, latest, writes>>
  BY Zenon DEF DiskRead, list, ghost
<1>2. Inner(p, "held")
  BY Zenon, <1>1 DEF DiskRead, Inner, Pcs
<1>3. ProcTypes' /\ Listed' /\ Names' /\ Moved(p, "held") /\ \A b : Users(b)' = Users(b)
  BY Zenon, <1>2, InnerStep
<1>4. buf[p] \in Buf /\ want[p] \in Block /\ blockno[buf[p]] = want[p] /\ \A b \in Buf : blockno[b] = want[p] => b = buf[p]
  BY Zenon, <1>1, Mine
<1>5. BufTypes' /\ DiskTypes'
  <2>1. valid' \in [Buf -> BOOLEAN]
    BY <1>1, Zenon DEF CacheInv, BufTypes
  <2>2. data' \in [Buf -> Nat]
    BY <1>1, <1>4 DEF CacheInv, BufTypes, DiskTypes
  <2>. QED BY Zenon, <1>1, <2>1, <2>2 DEF CacheInv, BufTypes, DiskTypes
<1>6. Counts'
  BY Zenon, <1>1, <1>3 DEF CacheInv, Counts, Pins
<1>7. Locks'
  BY Zenon, <1>1, <1>3, LocksSame DEF Locked
<1>8. /\ valid'[buf[p]] /\ data'[buf[p]] = disk[want[p]]
      /\ \A b \in Buf : b # buf[p] => valid'[b] = valid[b] /\ data'[b] = data[b]
  BY Zenon, <1>1, <1>4 DEF CacheInv, BufTypes
<1>9. ~valid[buf[p]] /\ disk[want[p]] = latest[want[p]]
  <2>1. ~valid[buf[p]]
    BY Zenon, <1>1 DEF CacheInv, Valid
  <2>. QED BY Zenon, <1>4, <2>1 DEF CacheInv, Stored, Kept
<1>10. Valid'
  <2>1. \A b \in Buf : valid'[b] => blockno'[b] \in Block /\ data'[b] = latest'[blockno'[b]]
    BY ZenonT(30), <1>1, <1>4, <1>8, <1>9 DEF CacheInv, Valid
  <2>2. ASSUME NEW q \in Proc PROVE (pc'[q] \in Reading => valid'[buf'[q]]) /\ (pc'[q] = "read" => ~valid'[buf'[q]])
    <3>1. CASE q = p
      BY Zenon, <1>1, <1>3, <1>8, <3>1 DEF Moved
    <3>2. CASE q # p
      <4>1. pc'[q] = pc[q] /\ buf[q] \in Buf
        BY Zenon, <1>3, <3>2 DEF Moved, CacheInv, ProcTypes
      <4>2. pc[q] \in Locked => buf[q] # buf[p]
        BY Zenon, <1>1, <3>2, Alone DEF Locked
      <4>3. pc[q] \in Reading \/ pc[q] = "read" => valid'[buf[q]] = valid[buf[q]]
        BY Zenon, <1>8, <4>1, <4>2 DEF Reading, Locked
      <4>. QED BY Zenon, <1>1, <4>1, <4>3 DEF CacheInv, Valid
    <3>. QED BY Zenon, <3>1, <3>2
  <2>3. \A b \in pinned' : valid'[b]
    BY Zenon, <1>1, <1>8 DEF CacheInv, Valid, DiskTypes
  <2>. QED BY Zenon, <2>1, <2>2, <2>3 DEF Valid
<1>11. Stored'
  <2>1. \A q \in Proc : (pc'[q] = "changed" <=> pc[q] = "changed") /\ (pc'[q] = "unpin" => pc[q] = "unpin")
    BY Zenon, <1>1, <1>3 DEF Moved
  <2>2. \A b \in Buf : Kept(b) => Kept(b)'
    BY Zenon, <1>1, <1>8, <2>1 DEF Kept
  <2>. QED BY Zenon, <1>1, <2>1, <2>2 DEF CacheInv, Stored
<1>. QED BY Zenon, <1>3, <1>5, <1>6, <1>7, <1>10, <1>11 DEF CacheInv

\* The holder changes the data.
LEMMA ChangeStep == ASSUME CacheInv, NEW p \in Proc, Change(p) PROVE CacheInv'
<1>1. /\ pc[p] = "held" /\ data' = [data EXCEPT ![buf[p]] = writes + 1]
      /\ latest' = [latest EXCEPT ![want[p]] = writes + 1] /\ writes' = writes + 1
      /\ UNCHANGED <<lru, blockno, refcnt, valid, slock, disk, want, buf, pinned>>
  BY Zenon DEF Change, list
<1>2. Inner(p, "changed")
  BY Zenon, <1>1 DEF Change, Inner, Pcs
<1>3. ProcTypes' /\ Listed' /\ Names' /\ Moved(p, "changed") /\ \A b : Users(b)' = Users(b)
  BY Zenon, <1>2, InnerStep
<1>4. /\ buf[p] \in Buf /\ want[p] \in Block /\ blockno[buf[p]] = want[p]
      /\ \A b \in Buf : blockno[b] = want[p] => b = buf[p]
      /\ \A q \in Proc : pc[q] # "idle" /\ want[q] = want[p] => buf[q] = buf[p]
  BY Zenon, <1>1, Mine
<1>5. writes + 1 \in Nat
  BY DEF CacheInv, DiskTypes
<1>6. BufTypes' /\ DiskTypes'
  <2>1. data' \in [Buf -> Nat] /\ latest' \in [Block -> Nat]
    BY <1>1, <1>5, Zenon DEF CacheInv, BufTypes, DiskTypes
  <2>. QED BY Zenon, <1>1, <1>5, <2>1 DEF CacheInv, BufTypes, DiskTypes
<1>7. Counts'
  BY Zenon, <1>1, <1>3 DEF CacheInv, Counts, Pins
<1>8. Locks'
  BY Zenon, <1>1, <1>3, LocksSame DEF Locked
<1>9. /\ data'[buf[p]] = writes + 1 /\ latest'[want[p]] = writes + 1
      /\ \A b \in Buf : b # buf[p] => data'[b] = data[b]
      /\ \A n \in Block : n # want[p] => latest'[n] = latest[n]
  BY Zenon, <1>1, <1>4 DEF CacheInv, BufTypes, DiskTypes
<1>10. Valid'
  <2>1. ASSUME NEW b \in Buf, valid'[b] PROVE blockno'[b] \in Block /\ data'[b] = latest'[blockno'[b]]
    <3>1. blockno[b] \in Block /\ data[b] = latest[blockno[b]] /\ blockno'[b] = blockno[b]
      BY Zenon, <1>1, <2>1 DEF CacheInv, Valid
    <3>. QED BY ZenonT(30), <1>4, <1>9, <3>1
  <2>2. ASSUME NEW q \in Proc PROVE (pc'[q] \in Reading => valid'[buf'[q]]) /\ (pc'[q] = "read" => ~valid'[buf'[q]])
    <3>1. CASE q = p
      <4>1. valid[buf[p]]
        BY Zenon, <1>1 DEF CacheInv, Valid, Reading
      <4>. QED BY Zenon, <1>1, <1>3, <3>1, <4>1 DEF Moved
    <3>2. CASE q # p
      BY Zenon, <1>1, <1>3, <3>2 DEF CacheInv, Valid, Moved
    <3>. QED BY Zenon, <3>1, <3>2
  <2>3. \A b \in pinned' : valid'[b]
    BY Zenon, <1>1 DEF CacheInv, Valid
  <2>. QED BY Zenon, <2>1, <2>2, <2>3 DEF Valid
<1>11. Stored'
  <2>1. \A q \in Proc : pc[q] = "changed" => pc'[q] = "changed"
    BY Zenon, <1>1, <1>3 DEF Moved
  <2>2. \A b : Kept(b) => Kept(b)'
    BY Zenon, <1>1, <2>1 DEF Kept
  <2>3. Kept(buf[p])'
    BY Zenon, <1>1, <1>3 DEF Kept, Moved, CacheInv, Valid, Reading
  <2>4. ASSUME NEW n \in Block PROVE disk'[n] = latest'[n] \/ \E b \in Buf : blockno'[b] = n /\ Kept(b)'
    <3>1. CASE n = want[p]
      BY Zenon, <1>1, <1>4, <2>3, <3>1
    <3>2. CASE n # want[p]
      BY Zenon, <1>1, <1>9, <2>2, <3>2 DEF CacheInv, Stored
    <3>. QED BY Zenon, <3>1, <3>2
  <2>5. ASSUME NEW q \in Proc, pc'[q] = "unpin" PROVE buf'[q] \in pinned' /\ disk'[want'[q]] = latest'[want'[q]]
    <3>1. q # p /\ pc[q] = "unpin" /\ pc[q] # "idle" /\ pc[q] \in Locked
      BY Zenon, <1>3, <2>5 DEF Moved, Locked
    <3>2. want[q] # want[p] /\ want[q] \in Block
      BY Zenon, <1>1, <1>4, <3>1, Alone, Mine DEF Locked
    <3>. QED BY Zenon, <1>1, <1>9, <3>1, <3>2 DEF CacheInv, Stored
  <2>. QED BY Zenon, <2>4, <2>5 DEF Stored
<1>. QED BY Zenon, <1>3, <1>6, <1>7, <1>8, <1>10, <1>11 DEF CacheInv

\* What stays of Valid when a process moves within its use of valid data.
LEMMA ValidSame ==
  ASSUME CacheInv, NEW p \in Proc, NEW l, Moved(p, l), UNCHANGED <<valid, blockno, data, latest, buf>>,
         pc[p] \in Reading, l \in Reading \cup {"unref"}, \A b \in pinned' : valid[b]
  PROVE  Valid'
<1>1. \A b \in Buf : valid'[b] => blockno'[b] \in Block /\ data'[b] = latest'[blockno'[b]]
  BY Zenon DEF CacheInv, Valid
<1>2. ASSUME NEW q \in Proc PROVE (pc'[q] \in Reading => valid'[buf'[q]]) /\ (pc'[q] = "read" => ~valid'[buf'[q]])
  <2>1. CASE q = p
    <3>1. valid[buf[p]] /\ pc'[p] # "read"
      BY Zenon, Positions DEF CacheInv, Valid, Moved
    <3>. QED BY Zenon, <2>1, <3>1
  <2>2. CASE q # p
    BY Zenon, <2>2 DEF CacheInv, Valid, Moved
  <2>. QED BY Zenon, <2>1, <2>2
<1>3. \A b \in pinned' : valid'[b]
  BY Zenon
<1>. QED BY Zenon, <1>1, <1>2, <1>3 DEF Valid

\* log_write pins the buffer, once.
LEMMA PinStep == ASSUME CacheInv, NEW p \in Proc, Bpin(p) PROVE CacheInv'
<1>1. /\ pc[p] = "changed" /\ pinned' = pinned \cup {buf[p]}
      /\ UNCHANGED <<lru, blockno, valid, data, slock, disk, want, buf, latest, writes>>
  BY Zenon DEF Bpin
<1>2. Inner(p, "held")
  BY Zenon, <1>1 DEF Bpin, Inner, Pcs
<1>3. ProcTypes' /\ Listed' /\ Names' /\ Moved(p, "held") /\ \A b : Users(b)' = Users(b)
  BY Zenon, <1>2, InnerStep
<1>4. buf[p] \in Buf /\ valid[buf[p]]
  BY Zenon, <1>1, Mine DEF CacheInv, Valid, Reading
<1>5. /\ refcnt' \in [Buf -> Nat]
      /\ refcnt'[buf[p]] = IF buf[p] \in pinned THEN refcnt[buf[p]] ELSE refcnt[buf[p]] + 1
      /\ \A b \in Buf : b # buf[p] => refcnt'[b] = refcnt[b]
  BY <1>4 DEF Bpin, CacheInv, BufTypes
<1>6. BufTypes' /\ DiskTypes'
  BY Zenon, <1>1, <1>4, <1>5 DEF CacheInv, BufTypes, DiskTypes
<1>7. Counts'
  <2>1. ASSUME NEW b \in Buf PROVE Cardinality(Users(b)) \in Nat /\ refcnt'[b] = Cardinality(Users(b)) + Pins(b)'
    <3>1. Cardinality(Users(b)) \in Nat /\ refcnt[b] = Cardinality(Users(b)) + Pins(b)
      BY Zenon DEF CacheInv, Counts
    <3>2. CASE b = buf[p]
      <4>1. Pins(b)' = 1 /\ Pins(b) = IF buf[p] \in pinned THEN 1 ELSE 0
        BY Zenon, <1>1, <3>2 DEF Pins
      <4>. QED BY <1>5, <3>1, <3>2, <4>1
    <3>3. CASE b # buf[p]
      <4>1. Pins(b)' = Pins(b)
        BY Zenon, <1>1, <3>3 DEF Pins
      <4>. QED BY Zenon, <1>5, <3>1, <3>3, <4>1
    <3>. QED BY Zenon, <3>2, <3>3
  <2>. QED BY Zenon, <1>3, <2>1 DEF Counts
<1>8. Locks'
  BY Zenon, <1>1, <1>3, LocksSame DEF Locked
<1>9. Valid'
  <2>1. \A b \in pinned' : valid[b]
    BY Zenon, <1>1, <1>4 DEF CacheInv, Valid
  <2>. QED BY Zenon, <1>1, <1>3, <2>1, ValidSame DEF Reading
<1>10. Stored'
  <2>1. ASSUME NEW b, Kept(b) PROVE Kept(b)'
    <3>1. CASE b = buf[p]
      BY Zenon, <1>1, <1>4, <3>1 DEF Kept
    <3>2. CASE b # buf[p]
      BY Zenon, <1>1, <1>3, <2>1, <3>2 DEF Kept, Moved
    <3>. QED BY Zenon, <3>1, <3>2
  <2>2. \A q \in Proc : pc'[q] = "unpin" => pc[q] = "unpin"
    BY Zenon, <1>3 DEF Moved
  <2>. QED BY Zenon, <1>1, <2>1, <2>2 DEF CacheInv, Stored
<1>. QED BY Zenon, <1>3, <1>6, <1>7, <1>8, <1>9, <1>10 DEF CacheInv

\* bwrite puts the newest data on the disk.
LEMMA WriteStep == ASSUME CacheInv, NEW p \in Proc, Bwrite(p) PROVE CacheInv'
<1>1. /\ disk' = [disk EXCEPT ![blockno[buf[p]]] = data[buf[p]]]
      /\ UNCHANGED <<lru, blockno, refcnt, valid, data, slock, want, buf, pinned, latest, writes>>
  BY Zenon DEF Bwrite, list, ghost
<1>2. PICK l : /\ Goto(p, l) /\ pc[p] \in {"held", "changed"}
               /\ l = "held" \/ (l = "unpin" /\ buf[p] \in pinned)
  BY Zenon DEF Bwrite
<1>3. Inner(p, l) /\ pc[p] \in Reading /\ pc[p] \in Locked /\ l \in Reading /\ l \in Locked
  BY Zenon, <1>1, <1>2 DEF Inner, Pcs, Reading, Locked
<1>4. ProcTypes' /\ Listed' /\ Names' /\ Moved(p, l) /\ \A b : Users(b)' = Users(b)
  BY Zenon, <1>3, InnerStep
<1>5. /\ buf[p] \in Buf /\ want[p] \in Block /\ blockno[buf[p]] = want[p]
      /\ \A b \in Buf : blockno[b] = want[p] => b = buf[p]
  BY Zenon, <1>2, Mine
<1>6. data[buf[p]] = latest[want[p]] /\ data[buf[p]] \in Nat
  BY Zenon, <1>3, <1>5 DEF CacheInv, Valid, BufTypes
<1>7. disk'[want[p]] = latest[want[p]] /\ \A n \in Block : n # want[p] => disk'[n] = disk[n]
  BY Zenon, <1>1, <1>5, <1>6 DEF CacheInv, DiskTypes
<1>8. BufTypes' /\ DiskTypes'
  <2>1. disk' \in [Block -> Nat]
    BY <1>1, <1>5, <1>6 DEF CacheInv, DiskTypes
  <2>. QED BY Zenon, <1>1, <2>1 DEF CacheInv, BufTypes, DiskTypes
<1>9. Counts'
  BY Zenon, <1>1, <1>4 DEF CacheInv, Counts, Pins
<1>10. Locks'
  BY Zenon, <1>1, <1>3, <1>4, LocksSame
<1>11. Valid'
  <2>1. \A b \in pinned' : valid[b]
    BY Zenon, <1>1 DEF CacheInv, Valid
  <2>. QED BY Zenon, <1>1, <1>3, <1>4, <2>1, ValidSame
<1>12. Stored'
  <2>1. ASSUME NEW n \in Block PROVE disk'[n] = latest'[n] \/ \E b \in Buf : blockno'[b] = n /\ Kept(b)'
    <3>1. CASE n = want[p]
      BY Zenon, <1>1, <1>7, <3>1
    <3>2. CASE n # want[p] /\ disk[n] = latest[n]
      BY Zenon, <1>1, <1>7, <3>2
    <3>3. CASE n # want[p] /\ disk[n] # latest[n]
      <4>1. PICK b \in Buf : blockno[b] = n /\ Kept(b)
        BY Zenon, <3>3 DEF CacheInv, Stored
      <4>2. b # buf[p]
        BY Zenon, <1>5, <3>3, <4>1
      <4>3. Kept(b)'
        BY Zenon, <1>1, <1>4, <4>1, <4>2 DEF Kept, Moved
      <4>. QED BY Zenon, <1>1, <4>1, <4>3
    <3>. QED BY Zenon, <3>1, <3>2, <3>3
  <2>2. ASSUME NEW q \in Proc, pc'[q] = "unpin" PROVE buf'[q] \in pinned' /\ disk'[want'[q]] = latest'[want'[q]]
    <3>1. CASE q = p
      BY Zenon, <1>1, <1>2, <1>4, <1>7, <2>2, <3>1 DEF Moved
    <3>2. CASE q # p
      <4>1. pc[q] = "unpin"
        BY Zenon, <1>4, <2>2, <3>2 DEF Moved
      <4>2. want[q] \in Block /\ buf[q] \in pinned /\ disk[want[q]] = latest[want[q]]
        BY Zenon, <4>1 DEF CacheInv, Stored, Names
      <4>. QED BY Zenon, <1>1, <1>7, <4>2
    <3>. QED BY Zenon, <3>1, <3>2
  <2>. QED BY Zenon, <2>1, <2>2 DEF Stored
<1>. QED BY Zenon, <1>4, <1>8, <1>9, <1>10, <1>11, <1>12 DEF CacheInv

\* install_trans drops the pin once the block is home.
LEMMA UnpinStep == ASSUME CacheInv, NEW p \in Proc, Bunpin(p) PROVE CacheInv'
<1>1. /\ pc[p] = "unpin" /\ pinned' = pinned \ {buf[p]} /\ refcnt' = [refcnt EXCEPT ![buf[p]] = @ - 1]
      /\ UNCHANGED <<lru, blockno, valid, data, slock, disk, want, buf, latest, writes>>
  BY Zenon DEF Bunpin
<1>2. Inner(p, "held")
  BY Zenon, <1>1 DEF Bunpin, Inner, Pcs
<1>3. ProcTypes' /\ Listed' /\ Names' /\ Moved(p, "held") /\ \A b : Users(b)' = Users(b)
  BY Zenon, <1>2, InnerStep
<1>4. /\ buf[p] \in Buf /\ want[p] \in Block /\ blockno[buf[p]] = want[p] /\ buf[p] \in pinned
      /\ disk[want[p]] = latest[want[p]]
  BY Zenon, <1>1, Mine DEF CacheInv, Stored
<1>5. \A b \in Buf : Cardinality(Users(b)) \in Nat /\ refcnt[b] = Cardinality(Users(b)) + Pins(b)
  BY Zenon DEF CacheInv, Counts
<1>6. Pins(buf[p]) = 1 /\ Pins(buf[p])' = 0 /\ \A b : b # buf[p] => Pins(b)' = Pins(b)
  BY Zenon, <1>1, <1>4 DEF Pins
<1>7. \A b \in Buf : refcnt'[b] \in Nat /\ refcnt'[b] = Cardinality(Users(b)) + Pins(b)'
  <2>1. refcnt'[buf[p]] = refcnt[buf[p]] - 1 /\ \A b \in Buf : b # buf[p] => refcnt'[b] = refcnt[b]
    BY Zenon, <1>1, <1>4 DEF CacheInv, BufTypes
  <2>2. refcnt'[buf[p]] \in Nat /\ refcnt'[buf[p]] = Cardinality(Users(buf[p])) + Pins(buf[p])'
    BY <1>4, <1>5, <1>6, <2>1
  <2>3. \A b \in Buf : b # buf[p] => refcnt'[b] \in Nat /\ refcnt'[b] = Cardinality(Users(b)) + Pins(b)'
    BY Zenon, <1>5, <1>6, <2>1 DEF CacheInv, BufTypes
  <2>4. ASSUME NEW b \in Buf PROVE refcnt'[b] \in Nat /\ refcnt'[b] = Cardinality(Users(b)) + Pins(b)'
    <3>1. CASE b = buf[p]
      <4>1. Pins(b)' = Pins(buf[p])'
        BY Zenon, <1>1, <3>1 DEF Pins
      <4>. QED BY Zenon, <2>2, <3>1, <4>1
    <3>. QED BY Zenon, <2>3, <3>1
  <2>. QED BY Zenon, <2>4
<1>8. BufTypes' /\ DiskTypes'
  <2>1. refcnt' \in [Buf -> Nat]
    BY <1>1, <1>7, Zenon DEF CacheInv, BufTypes
  <2>. QED BY Zenon, <1>1, <2>1 DEF CacheInv, BufTypes, DiskTypes
<1>9. Counts'
  BY Zenon, <1>3, <1>5, <1>7 DEF Counts
<1>10. Locks'
  BY Zenon, <1>1, <1>3, LocksSame DEF Locked
<1>11. Valid'
  <2>1. \A b \in pinned' : valid[b]
    BY Zenon, <1>1 DEF CacheInv, Valid
  <2>. QED BY Zenon, <1>1, <1>3, <2>1, ValidSame DEF Reading
<1>12. Stored'
  <2>1. \A q \in Proc : pc[q] = "changed" => pc'[q] = "changed"
    BY Zenon, <1>1, <1>3 DEF Moved
  <2>2. \A b : b # buf[p] /\ Kept(b) => Kept(b)'
    BY Zenon, <1>1, <2>1 DEF Kept
  <2>3. \A n \in Block : disk'[n] = latest'[n] \/ \E b \in Buf : blockno'[b] = n /\ Kept(b)'
    BY Zenon, <1>1, <1>4, <2>2 DEF CacheInv, Stored
  <2>4. ASSUME NEW q \in Proc, pc'[q] = "unpin" PROVE buf'[q] \in pinned' /\ disk'[want'[q]] = latest'[want'[q]]
    <3>1. q # p /\ pc[q] = "unpin"
      BY Zenon, <1>3, <2>4 DEF Moved
    <3>2. buf[q] # buf[p]
      BY Zenon, <1>1, <3>1, Alone DEF Locked
    <3>. QED BY Zenon, <1>1, <3>1, <3>2 DEF CacheInv, Stored
  <2>. QED BY Zenon, <2>3, <2>4 DEF Stored
<1>. QED BY Zenon, <1>3, <1>8, <1>9, <1>10, <1>11, <1>12 DEF CacheInv

\* brelse gives up the sleep lock.
LEMMA ReleaseStep == ASSUME CacheInv, NEW p \in Proc, Brelse(p) PROVE CacheInv'
<1>1. /\ pc[p] = "held" /\ slock' = [slock EXCEPT ![buf[p]] = None]
      /\ UNCHANGED <<lru, blockno, refcnt, valid, data, disk, want, buf, pinned, latest, writes>>
  BY Zenon DEF Brelse, list, ghost
<1>2. Inner(p, "unref")
  BY Zenon, <1>1 DEF Brelse, Inner, Pcs
<1>3. ProcTypes' /\ Listed' /\ Names' /\ Moved(p, "unref") /\ \A b : Users(b)' = Users(b)
  BY Zenon, <1>2, InnerStep
<1>4. buf[p] \in Buf
  BY Zenon, <1>1, Mine
<1>5. BufTypes' /\ DiskTypes'
  <2>1. slock' \in [Buf -> Proc \cup {None}]
    BY <1>1, Zenon DEF CacheInv, BufTypes
  <2>. QED BY Zenon, <1>1, <2>1 DEF CacheInv, BufTypes, DiskTypes
<1>6. Counts'
  BY Zenon, <1>1, <1>3 DEF CacheInv, Counts, Pins
<1>7. Locks'
  <2>1. ASSUME NEW b \in Buf, NEW q \in Proc PROVE slock'[b] = q <=> pc'[q] \in Locked /\ buf'[q] = b
    <3>1. pc'[p] \notin Locked
      BY Zenon, <1>3 DEF Moved, Locked
    <3>2. CASE b # buf[p]
      <4>1. slock'[b] = slock[b]
        BY Zenon, <1>1, <3>2 DEF CacheInv, BufTypes
      <4>2. slock[b] = q <=> pc[q] \in Locked /\ buf[q] = b
        BY Zenon DEF CacheInv, Locks
      <4>. QED BY Zenon, <1>1, <1>3, <3>1, <3>2, <4>1, <4>2 DEF Moved
    <3>3. CASE b = buf[p]
      <4>1. slock'[b] = None /\ None # q
        BY Zenon, <1>1, <1>4, <3>3, BcacheAssumption DEF CacheInv, BufTypes
      <4>2. pc[q] \in Locked /\ buf[q] = b => q = p
        BY Zenon, <1>1, <3>3, Alone DEF Locked
      <4>. QED BY Zenon, <1>1, <1>3, <3>1, <4>1, <4>2 DEF Moved
    <3>. QED BY Zenon, <3>2, <3>3
  <2>. QED BY Zenon, <2>1 DEF Locks
<1>8. Valid'
  <2>1. \A b \in pinned' : valid[b]
    BY Zenon, <1>1 DEF CacheInv, Valid
  <2>. QED BY Zenon, <1>1, <1>3, <2>1, ValidSame DEF Reading
<1>9. Stored'
  <2>1. \A q \in Proc : (pc'[q] = "changed" <=> pc[q] = "changed") /\ (pc'[q] = "unpin" => pc[q] = "unpin")
    BY Zenon, <1>1, <1>3 DEF Moved
  <2>2. \A b : Kept(b)' <=> Kept(b)
    BY Zenon, <1>1, <2>1 DEF Kept
  <2>. QED BY Zenon, <1>1, <2>1, <2>2 DEF CacheInv, Stored
<1>. QED BY Zenon, <1>3, <1>5, <1>6, <1>7, <1>8, <1>9 DEF CacheInv

-----------------------------------------------------------------------------
(* Counting users, and finding the victim.                                 *)
INSTANCE FiniteSetTheorems

\* binit's list, and caches without a block.
LEMMA InitCache == Init => CacheInv
<1>. SUFFICES ASSUME Init PROVE CacheInv
  OBVIOUS
<1>1. NBUF \in Nat /\ NBUF # 0 /\ 1 \in Buf
  BY BcacheAssumption DEF Buf
<1>2. Listed
  <2>1. \A k \in Buf : NBUF + 1 - k \in Buf /\ NBUF + 1 - (NBUF + 1 - k) = k
    BY <1>1 DEF Buf
  <2>. QED BY Zenon, <2>1 DEF Init, Listed
<1>3. BufTypes /\ ProcTypes /\ DiskTypes
  BY Zenon, <1>1 DEF Init, BufTypes, ProcTypes, DiskTypes, Pcs
<1>4. Names /\ Valid /\ Stored
  BY Zenon DEF Init, Names, Valid, Stored, Reading
<1>5. Locks
  BY Zenon, BcacheAssumption DEF Init, Locks, Locked
<1>6. Counts
  <2>1. \A b \in Buf : Users(b) = {} /\ Pins(b) = 0
    BY Zenon DEF Init, Users, Pins
  <2>2. Cardinality({}) = 0 /\ 0 \in Nat /\ 0 = 0 + 0
    BY FS_EmptySet
  <2>. QED BY Zenon, <2>1, <2>2 DEF Init, Counts
<1>. QED BY Zenon, <1>2, <1>3, <1>4, <1>5, <1>6 DEF CacheInv

\* One user more, or one less.
LEMMA UsersFinite == ASSUME NEW b PROVE IsFiniteSet(Users(b)) /\ Cardinality(Users(b)) \in Nat
<1>1. Users(b) \in SUBSET Proc
  BY Zenon DEF Users
<1>. QED BY Zenon, <1>1, BcacheAssumption, FS_Subset, FS_CardinalityType

\* A set with one more element.
LEMMA OneMore ==
  ASSUME NEW S, IsFiniteSet(S), NEW x, x \notin S, NEW T, T = S \cup {x}
  PROVE  Cardinality(T) = Cardinality(S) + 1 /\ Cardinality(T) \in Nat
<1>1. IsFiniteSet(T) /\ Cardinality(T) = Cardinality(S) + 1
  BY Zenon, FS_AddElement
<1>. QED BY Zenon, <1>1, FS_CardinalityType

\* A set with one element less.
LEMMA OneLess ==
  ASSUME NEW S, IsFiniteSet(S), NEW x \in S, NEW T, T = S \ {x}
  PROVE  Cardinality(S) = Cardinality(T) + 1 /\ Cardinality(T) \in Nat
<1>1. IsFiniteSet(T) /\ x \notin T /\ S = T \cup {x}
  BY Zenon, FS_RemoveElement
<1>. QED BY Zenon, <1>1, OneMore, FS_CardinalityType

\* The walk from head.prev finds an unused buffer when there is one.
LEMMA VictimIn == ASSUME Listed, Unused # {} PROVE Victim \in Buf /\ Victim \in Unused
<1>. DEFINE K == {k \in Buf : lru[k] \in Unused}
            S == {NBUF - k : k \in K}
<1>1. PICK k0 \in Buf : lru[k0] \in Unused
  <2>1. PICK b \in Unused : b \in Buf
    BY Zenon DEF Unused
  <2>2. PICK i \in Buf : lru[i] = b
    BY Zenon, <2>1 DEF Listed
  <2>. QED BY Zenon, <2>2
<1>2. K \subseteq 1..NBUF /\ NBUF \in Nat /\ k0 \in K
  BY <1>1, BcacheAssumption DEF Buf
<1>. HIDE DEF K
<1>3. S \subseteq Nat /\ NBUF - k0 \in S
  BY <1>2
<1>4. PICK x \in S : \A y \in S : x <= y
  BY Zenon, <1>3, Least
<1>5. PICK k \in K : x = NBUF - k
  OBVIOUS
<1>6. ASSUME NEW m \in K PROVE m <= k
  <2>1. NBUF - m \in S
    OBVIOUS
  <2>2. x <= NBUF - m
    BY Zenon, <1>4, <2>1
  <2>. QED BY <1>2, <1>5, <2>2
<1>7. k \in Buf /\ lru[k] \in Unused /\ \A m \in Buf : m > k => lru[m] \notin Unused
  <2>1. \A m \in Buf : m \in Nat /\ (m > k => m \notin K)
    BY <1>2, <1>6 DEF Buf
  <2>. QED BY Zenon, <1>5, <2>1 DEF K
<1>8. Victim \in Unused
  BY Zenon, <1>7 DEF Victim
<1>. QED BY Zenon, <1>8 DEF Unused

\* Moving a buffer to the front keeps them all in the list.
LEMMA FrontListed == ASSUME Listed, NEW b \in Buf, lru' = MoveToFront(b) PROVE Listed'
<1>. DEFINE k == CHOOSE i \in Buf : lru[i] = b
<1>1. k \in Buf /\ lru[k] = b
  BY Zenon DEF Listed
<1>. HIDE DEF k
<1>2. lru' = [m \in Buf |-> IF m = 1 THEN b ELSE IF m <= k THEN lru[m - 1] ELSE lru[m]]
  BY Zenon DEF MoveToFront, k
<1>3. NBUF \in Nat /\ 1 \in Buf
  BY BcacheAssumption DEF Buf
<1>4. lru' \in [Buf -> Buf]
  <2>1. \A m \in Buf : m # 1 => m - 1 \in Buf
    BY <1>3 DEF Buf
  <2>2. \A m \in Buf : (IF m = 1 THEN b ELSE IF m <= k THEN lru[m - 1] ELSE lru[m]) \in Buf
    BY Zenon, <2>1 DEF Listed
  <2>. QED BY Zenon, <1>2, <2>2
<1>5. ASSUME NEW d \in Buf PROVE \E i \in Buf : lru'[i] = d
  <2>1. PICK i \in Buf : lru[i] = d
    BY Zenon DEF Listed
  <2>2. CASE i = k
    <3>1. d = b /\ lru'[1] = b
      BY Zenon, <1>1, <1>2, <1>3, <2>1, <2>2
    <3>. QED BY Zenon, <1>3, <3>1
  <2>3. CASE i < k
    <3>1. i + 1 \in Buf /\ i + 1 # 1 /\ i + 1 <= k /\ (i + 1) - 1 = i
      BY <1>1, <1>3, <2>3 DEF Buf
    <3>2. lru'[i + 1] = lru[(i + 1) - 1]
      BY Zenon, <1>2, <3>1
    <3>. QED BY Zenon, <2>1, <3>1, <3>2
  <2>4. CASE i > k
    <3>1. i # 1 /\ ~(i <= k)
      BY <1>1, <1>3, <2>4 DEF Buf
    <3>. QED BY Zenon, <1>2, <2>1, <3>1
  <2>5. i = k \/ i < k \/ i > k
    BY <1>1, <1>3 DEF Buf
  <2>. QED BY Zenon, <2>2, <2>3, <2>4, <2>5
<1>. QED BY Zenon, <1>4, <1>5 DEF Listed

-----------------------------------------------------------------------------
\* bget starts to use buffer b for block n, which is its block now.
LEMMA GetCounts ==
  ASSUME CacheInv, NEW p \in Proc, NEW b \in Buf, pc[p] = "idle", Moved(p, "lock"),
         buf' = [buf EXCEPT ![p] = b], pinned' = pinned
  PROVE  /\ Cardinality(Users(b))' = Cardinality(Users(b)) + 1 /\ Cardinality(Users(b))' \in Nat
         /\ \A d \in Buf : d # b => Users(d)' = Users(d)
<1>1. buf'[p] = b /\ \A q \in Proc : q # p => buf'[q] = buf[q]
  BY Zenon DEF CacheInv, ProcTypes
<1>2. Users(b)' = Users(b) \cup {p} /\ p \notin Users(b)
  BY Zenon, <1>1 DEF Users, Moved
<1>3. \A d \in Buf : d # b => Users(d)' = Users(d)
  BY Zenon, <1>1 DEF Users, Moved
<1>4. IsFiniteSet(Users(b))
  BY Zenon, UsersFinite
<1>. QED BY Zenon, <1>2, <1>3, <1>4, OneMore

\* bget: the block is cached, or the victim is given to it.
LEMMA GetStep == ASSUME CacheInv, NEW p \in Proc, NEW n \in Block, Bget(p, n) PROVE CacheInv'
<1>1. /\ pc[p] = "idle" /\ Goto(p, "lock") /\ want' = [want EXCEPT ![p] = n]
      /\ UNCHANGED <<lru, data, slock, disk, pinned, latest, writes>>
  BY Zenon DEF Bget, ghost
<1>2. PICK b \in Buf :
        /\ buf' = [buf EXCEPT ![p] = b]
        /\ \/ /\ blockno[b] = n /\ refcnt' = [refcnt EXCEPT ![b] = @ + 1] /\ blockno' = blockno /\ valid' = valid
           \/ /\ Cached(n) = {} /\ refcnt[b] = 0 /\ refcnt' = [refcnt EXCEPT ![b] = 1]
              /\ blockno' = [blockno EXCEPT ![b] = n] /\ valid' = [valid EXCEPT ![b] = FALSE]
  <2>1. CASE \E b \in Cached(n) : /\ refcnt' = [refcnt EXCEPT ![b] = @ + 1]
                                  /\ buf' = [buf EXCEPT ![p] = b] /\ UNCHANGED <<blockno, valid>>
    BY Zenon, <2>1 DEF Cached
  <2>2. CASE /\ Cached(n) = {} /\ Unused # {}
             /\ refcnt' = [refcnt EXCEPT ![Victim] = 1] /\ buf' = [buf EXCEPT ![p] = Victim]
             /\ blockno' = [blockno EXCEPT ![Victim] = n] /\ valid' = [valid EXCEPT ![Victim] = FALSE]
    <3>1. Victim \in Buf /\ refcnt[Victim] = 0
      BY Zenon, <2>2, VictimIn DEF CacheInv, Unused
    <3>. QED BY Zenon, <2>2, <3>1
  <2>. QED BY Zenon, <2>1, <2>2 DEF Bget
<1>3. /\ Moved(p, "lock") /\ buf'[p] = b /\ want'[p] = n
      /\ \A q \in Proc : q # p => buf'[q] = buf[q] /\ want'[q] = want[q]
  BY Zenon, <1>1, <1>2 DEF Goto, Moved, CacheInv, ProcTypes
<1>4. ProcTypes'
  <2>1. pc' \in [Proc -> Pcs]
    BY <1>1 DEF Goto, CacheInv, ProcTypes, Pcs
  <2>2. want' \in [Proc -> Block \cup {None}] /\ buf' \in [Proc -> Buf]
    BY <1>1, <1>2 DEF CacheInv, ProcTypes
  <2>. QED BY Zenon, <2>1, <2>2 DEF ProcTypes
<1>5. Listed'
  BY Zenon, <1>1 DEF CacheInv, Listed
<1>6. /\ Cardinality(Users(b))' = Cardinality(Users(b)) + 1 /\ Cardinality(Users(b))' \in Nat
      /\ \A d \in Buf : d # b => Users(d)' = Users(d)
  BY Zenon, <1>1, <1>2, <1>3, GetCounts
<1>7. /\ Cardinality(Users(b)) \in Nat /\ refcnt[b] = Cardinality(Users(b)) + Pins(b) /\ Pins(b) \in {0, 1}
      /\ Pins(b)' = Pins(b)
  BY Zenon, <1>1 DEF CacheInv, Counts, Pins
\* A recycled buffer had no user and no pin.
<1>8. refcnt[b] = 0 => Cardinality(Users(b)) = 0 /\ Pins(b) = 0
  BY <1>7
<1>9. refcnt[b] = 0 => b \notin pinned /\ Users(b) = {}
  <2>1. IsFiniteSet(Users(b))
    BY Zenon, UsersFinite
  <2>2. Cardinality(Users(b)) = 0 => Users(b) = {}
    BY Zenon, <2>1, FS_EmptySet
  <2>3. Pins(b) = 0 => b \notin pinned
    BY DEF Pins
  <2>. QED BY Zenon, <1>8, <2>2, <2>3
<1>10. /\ refcnt'[b] = refcnt[b] + 1 /\ \A d \in Buf : d # b => refcnt'[d] = refcnt[d]
       /\ blockno'[b] = n /\ \A d \in Buf : d # b => blockno'[d] = blockno[d] /\ valid'[d] = valid[d]
  <2>1. CASE refcnt' = [refcnt EXCEPT ![b] = @ + 1] /\ blockno[b] = n /\ blockno' = blockno /\ valid' = valid
    BY Zenon, <2>1 DEF CacheInv, BufTypes
  <2>2. CASE /\ refcnt[b] = 0 /\ refcnt' = [refcnt EXCEPT ![b] = 1]
             /\ blockno' = [blockno EXCEPT ![b] = n] /\ valid' = [valid EXCEPT ![b] = FALSE]
    <3>1. refcnt[b] + 1 = 1
      BY <2>2
    <3>. QED BY Zenon, <2>2, <3>1 DEF CacheInv, BufTypes
  <2>. QED BY Zenon, <1>2, <2>1, <2>2
<1>11. BufTypes' /\ DiskTypes'
  <2>1. refcnt' \in [Buf -> Nat]
    BY <1>2 DEF CacheInv, BufTypes
  <2>2. blockno' \in [Buf -> Block \cup {None}]
    BY <1>2 DEF CacheInv, BufTypes
  <2>3. valid' \in [Buf -> BOOLEAN]
    BY <1>2, Zenon DEF CacheInv, BufTypes
  <2>. QED BY Zenon, <1>1, <2>1, <2>2, <2>3 DEF CacheInv, BufTypes, DiskTypes
<1>12. Counts'
  <2>1. ASSUME NEW d \in Buf PROVE Cardinality(Users(d))' \in Nat /\ refcnt'[d] = Cardinality(Users(d))' + Pins(d)'
    <3>1. CASE d = b
      <4>1. refcnt'[b] = Cardinality(Users(b))' + Pins(b)'
        BY <1>6, <1>7, <1>10
      <4>. QED BY Zenon, <1>6, <3>1, <4>1
    <3>2. CASE d # b
      <4>1. Cardinality(Users(d))' = Cardinality(Users(d)) /\ Pins(d)' = Pins(d) /\ refcnt'[d] = refcnt[d]
        BY Zenon, <1>1, <1>6, <1>10, <3>2 DEF Pins
      <4>. QED BY Zenon, <4>1 DEF CacheInv, Counts
    <3>. QED BY Zenon, <3>1, <3>2
  <2>. QED BY Zenon, <2>1 DEF Counts
\* The users of other buffers, and of this one if it was not recycled.
<1>13. \A q \in Proc : q # p /\ pc[q] # "idle" /\ refcnt[b] = 0 => buf[q] # b
  BY Zenon, <1>9 DEF Users
<1>14. Names'
  <2>1. ASSUME NEW x \in Buf, NEW y \in Buf, blockno'[x] = blockno'[y], blockno'[x] # None PROVE x = y
    <3>1. \A d \in Buf : blockno[d] = n => d = b
      BY Zenon, <1>2, BcacheAssumption DEF Cached, CacheInv, Names
    <3>2. x # b /\ y # b => x = y
      BY Zenon, <1>10, <2>1 DEF CacheInv, Names
    <3>3. x = b \/ y = b => x = y
      BY Zenon, <1>10, <2>1, <3>1
    <3>. QED BY Zenon, <3>2, <3>3
  <2>2. ASSUME NEW q \in Proc, pc'[q] # "idle" PROVE want'[q] \in Block /\ blockno'[buf'[q]] = want'[q]
    <3>1. CASE q = p
      BY Zenon, <1>3, <1>10, <3>1
    <3>2. CASE q # p
      <4>1. pc[q] # "idle" /\ buf[q] \in Buf /\ want[q] \in Block /\ blockno[buf[q]] = want[q]
        BY Zenon, <1>3, <2>2, <3>2 DEF Moved, CacheInv, Names, ProcTypes
      <4>2. blockno'[buf[q]] = blockno[buf[q]]
        BY Zenon, <1>2, <1>10, <1>13, <3>2, <4>1
      <4>. QED BY Zenon, <1>3, <3>2, <4>1, <4>2
    <3>. QED BY Zenon, <3>1, <3>2
  <2>. QED BY Zenon, <2>1, <2>2 DEF Names
<1>15. pc'[p] = "lock" /\ pc'[p] \notin Locked /\ pc[p] \notin Locked
  BY Zenon, <1>1, <1>3 DEF Moved, Locked
<1>16. Locks'
  <2>1. ASSUME NEW d \in Buf, NEW q \in Proc PROVE slock'[d] = q <=> pc'[q] \in Locked /\ buf'[q] = d
    <3>1. slock'[d] = slock[d] /\ (slock[d] = q <=> pc[q] \in Locked /\ buf[q] = d)
      BY Zenon, <1>1 DEF CacheInv, Locks
    <3>2. q # p => pc'[q] = pc[q] /\ buf'[q] = buf[q]
      BY Zenon, <1>3 DEF Moved
    <3>. QED BY Zenon, <1>15, <3>1, <3>2
  <2>. QED BY Zenon, <2>1 DEF Locks
<1>17. ASSUME NEW q \in Proc, q # p, pc[q] # "idle" PROVE valid'[buf[q]] = valid[buf[q]] /\ buf[q] \in Buf
  <2>1. buf[q] \in Buf
    BY Zenon DEF CacheInv, ProcTypes
  <2>. QED BY Zenon, <1>2, <1>10, <1>13, <1>17, <2>1
<1>18. \A d \in Buf : valid'[d] => valid[d] /\ blockno'[d] = blockno[d]
  <2>1. valid'[b] => valid[b] /\ blockno'[b] = blockno[b]
    BY Zenon, <1>2 DEF CacheInv, BufTypes
  <2>. QED BY Zenon, <1>10, <2>1
<1>19. \A d \in pinned : valid'[d] /\ blockno'[d] = blockno[d]
  <2>1. \A d \in pinned : d \in Buf /\ valid[d]
    BY Zenon DEF CacheInv, DiskTypes, Valid
  <2>2. b \in pinned => valid' = valid /\ blockno' = blockno
    BY Zenon, <1>2, <1>9
  <2>. QED BY Zenon, <1>10, <2>1, <2>2
<1>20. Valid'
  <2>1. \A d \in Buf : valid'[d] => blockno'[d] \in Block /\ data'[d] = latest'[blockno'[d]]
    BY Zenon, <1>1, <1>18 DEF CacheInv, Valid
  <2>2. ASSUME NEW q \in Proc PROVE (pc'[q] \in Reading => valid'[buf'[q]]) /\ (pc'[q] = "read" => ~valid'[buf'[q]])
    <3>1. CASE q = p
      BY Zenon, <1>15, <3>1, Positions
    <3>2. CASE q # p
      <4>1. pc'[q] = pc[q] /\ buf'[q] = buf[q]
        BY Zenon, <1>3, <3>2 DEF Moved
      <4>2. pc[q] \in Reading \/ pc[q] = "read" => pc[q] # "idle"
        BY Zenon DEF Reading
      <4>3. (pc[q] \in Reading => valid[buf[q]]) /\ (pc[q] = "read" => ~valid[buf[q]])
        BY Zenon DEF CacheInv, Valid
      <4>. QED BY Zenon, <1>17, <3>2, <4>1, <4>2, <4>3
    <3>. QED BY Zenon, <3>1, <3>2
  <2>3. \A d \in pinned' : valid'[d]
    BY Zenon, <1>1, <1>19
  <2>. QED BY Zenon, <2>1, <2>2, <2>3 DEF Valid
<1>21. Stored'
  <2>1. ASSUME NEW d \in Buf, Kept(d) PROVE Kept(d)' /\ blockno'[d] = blockno[d]
    <3>1. CASE d \in pinned
      BY Zenon, <1>1, <1>19, <3>1 DEF Kept
    <3>2. CASE \E q \in Proc : pc[q] = "changed" /\ buf[q] = d
      <4>1. PICK q \in Proc : pc[q] = "changed" /\ buf[q] = d
        BY Zenon, <3>2
      <4>2. q # p /\ pc[q] # "idle"
        BY Zenon, <1>1, <4>1
      <4>3. pc'[q] = "changed" /\ buf'[q] = d
        BY Zenon, <1>3, <4>1, <4>2 DEF Moved
      <4>4. valid'[d] = valid[d]
        BY Zenon, <1>17, <4>1, <4>2
      <4>5. valid[d]
        BY Zenon, <2>1 DEF Kept
      <4>. QED BY Zenon, <1>18, <4>3, <4>4, <4>5 DEF Kept
    <3>. QED BY Zenon, <2>1, <3>1, <3>2 DEF Kept
  <2>2. \A m \in Block : disk'[m] = latest'[m] \/ \E d \in Buf : blockno'[d] = m /\ Kept(d)'
    <3>1. \A m \in Block : disk[m] = latest[m] \/ \E d \in Buf : blockno[d] = m /\ Kept(d)
      BY Zenon DEF CacheInv, Stored
    <3>. QED BY ZenonT(30), <1>1, <2>1, <3>1
  <2>3. ASSUME NEW q \in Proc, pc'[q] = "unpin" PROVE buf'[q] \in pinned' /\ disk'[want'[q]] = latest'[want'[q]]
    <3>1. q # p /\ pc[q] = "unpin" /\ buf'[q] = buf[q] /\ want'[q] = want[q]
      BY Zenon, <1>3, <1>15, <2>3 DEF Moved
    <3>. QED BY Zenon, <1>1, <3>1 DEF CacheInv, Stored
  <2>. QED BY Zenon, <2>2, <2>3 DEF Stored
<1>. QED BY Zenon, <1>4, <1>5, <1>11, <1>12, <1>14, <1>16, <1>20, <1>21 DEF CacheInv

\* The second half of brelse.
LEMMA UnrefStep == ASSUME CacheInv, NEW p \in Proc, Unref(p) PROVE CacheInv'
<1>1. PICK b \in Buf : b = buf[p]
  BY Zenon DEF CacheInv, ProcTypes
<1>2. /\ pc[p] = "unref" /\ Goto(p, "idle") /\ refcnt' = [refcnt EXCEPT ![b] = @ - 1]
      /\ want' = [want EXCEPT ![p] = None] /\ buf' = [buf EXCEPT ![p] = 1]
      /\ lru' = lru \/ lru' = MoveToFront(b)
      /\ UNCHANGED <<blockno, valid, data, slock, disk, pinned, latest, writes>>
  BY Zenon, <1>1 DEF Unref, ghost
<1>3. Moved(p, "idle") /\ \A q \in Proc : q # p => buf'[q] = buf[q] /\ want'[q] = want[q]
  BY Zenon, <1>2 DEF Goto, Moved, CacheInv, ProcTypes
<1>4. ProcTypes'
  <2>1. pc' \in [Proc -> Pcs]
    BY <1>2 DEF Goto, CacheInv, ProcTypes, Pcs
  <2>2. 1 \in Buf
    BY BcacheAssumption DEF Buf
  <2>3. want' \in [Proc -> Block \cup {None}] /\ buf' \in [Proc -> Buf]
    BY <1>2, <2>2 DEF CacheInv, ProcTypes
  <2>. QED BY Zenon, <2>1, <2>3 DEF ProcTypes
<1>5. Listed'
  <2>1. CASE lru' = lru
    BY Zenon, <2>1 DEF CacheInv, Listed
  <2>2. CASE lru' = MoveToFront(b)
    BY Zenon, <2>2, FrontListed DEF CacheInv
  <2>. QED BY Zenon, <1>2, <2>1, <2>2
<1>6. \A q \in Proc : pc'[q] # "idle" => q # p /\ pc[q] # "idle" /\ pc'[q] = pc[q] /\ buf'[q] = buf[q] /\ want'[q] = want[q]
  BY Zenon, <1>3 DEF Moved
<1>7. \A q \in Proc : q # p => pc'[q] = pc[q] /\ buf'[q] = buf[q]
  BY Zenon, <1>3 DEF Moved
<1>8. pc'[p] = "idle" /\ pc[p] # "idle" /\ pc[p] \notin Locked /\ pc'[p] \notin Locked
  BY Zenon, <1>2, <1>3 DEF Moved, Locked
<1>9. p \in Users(b) /\ Users(b)' = Users(b) \ {p} /\ \A d \in Buf : d # b => Users(d)' = Users(d)
  <2>1. p \in Users(b) /\ Users(b)' = Users(b) \ {p}
    BY Zenon, <1>1, <1>7, <1>8 DEF Users
  <2>2. \A d \in Buf : d # b => Users(d)' = Users(d)
    BY Zenon, <1>1, <1>7, <1>8 DEF Users
  <2>. QED BY Zenon, <2>1, <2>2
<1>10. Cardinality(Users(b)) = Cardinality(Users(b))' + 1 /\ Cardinality(Users(b))' \in Nat
  <2>1. IsFiniteSet(Users(b))
    BY Zenon, UsersFinite
  <2>. QED BY Zenon, <1>9, <2>1, OneLess
<1>11. Pins(b) \in Nat /\ refcnt[b] = Cardinality(Users(b)) + Pins(b) /\ \A d : Pins(d)' = Pins(d)
  <2>1. Pins(b) \in Nat
    BY DEF Pins
  <2>. QED BY Zenon, <1>2, <2>1 DEF CacheInv, Counts, Pins
<1>12. refcnt'[b] = refcnt[b] - 1 /\ \A d \in Buf : d # b => refcnt'[d] = refcnt[d]
  BY Zenon, <1>2 DEF CacheInv, BufTypes
<1>13. refcnt'[b] \in Nat /\ refcnt'[b] = Cardinality(Users(b))' + Pins(b)
  <2>1. PICK u : u = Cardinality(Users(b))'
    OBVIOUS
  <2>2. u \in Nat /\ refcnt[b] = u + 1 + Pins(b)
    BY Zenon, <1>10, <1>11, <2>1
  <2>. QED BY <1>11, <1>12, <2>1, <2>2
<1>14. BufTypes' /\ DiskTypes'
  <2>1. refcnt' \in [Buf -> Nat]
    BY <1>2, <1>12, <1>13 DEF CacheInv, BufTypes
  <2>. QED BY Zenon, <1>2, <2>1 DEF CacheInv, BufTypes, DiskTypes
<1>15. Counts'
  <2>1. ASSUME NEW d \in Buf PROVE Cardinality(Users(d))' \in Nat /\ refcnt'[d] = Cardinality(Users(d))' + Pins(d)'
    <3>1. CASE d = b
      BY Zenon, <1>10, <1>11, <1>13, <3>1
    <3>2. CASE d # b
      <4>1. Cardinality(Users(d))' = Cardinality(Users(d)) /\ Pins(d)' = Pins(d) /\ refcnt'[d] = refcnt[d]
        BY Zenon, <1>9, <1>11, <1>12, <3>2
      <4>. QED BY Zenon, <4>1 DEF CacheInv, Counts
    <3>. QED BY Zenon, <3>1, <3>2
  <2>. QED BY Zenon, <2>1 DEF Counts
<1>16. Names'
  <2>1. \A x, y \in Buf : blockno'[x] = blockno'[y] /\ blockno'[x] # None => x = y
    BY Zenon, <1>2 DEF CacheInv, Names
  <2>2. ASSUME NEW q \in Proc, pc'[q] # "idle" PROVE want'[q] \in Block /\ blockno'[buf'[q]] = want'[q]
    <3>1. want[q] \in Block /\ blockno[buf[q]] = want[q]
      BY Zenon, <1>6, <2>2 DEF CacheInv, Names
    <3>. QED BY Zenon, <1>2, <1>6, <2>2, <3>1
  <2>. QED BY Zenon, <2>1, <2>2 DEF Names
<1>17. Locks'
  <2>1. ASSUME NEW d \in Buf, NEW q \in Proc PROVE slock'[d] = q <=> pc'[q] \in Locked /\ buf'[q] = d
    <3>1. slock'[d] = slock[d] /\ (slock[d] = q <=> pc[q] \in Locked /\ buf[q] = d)
      BY Zenon, <1>2 DEF CacheInv, Locks
    <3>. QED BY Zenon, <1>7, <1>8, <3>1
  <2>. QED BY Zenon, <2>1 DEF Locks
<1>18. Valid'
  <2>1. \A q \in Proc : (pc'[q] \in Reading => valid'[buf'[q]]) /\ (pc'[q] = "read" => ~valid'[buf'[q]])
    <3>1. \A q \in Proc : pc'[q] \in Reading \/ pc'[q] = "read" => pc'[q] # "idle"
      BY Zenon DEF Reading
    <3>2. \A q \in Proc : (pc[q] \in Reading => valid[buf[q]]) /\ (pc[q] = "read" => ~valid[buf[q]])
      BY Zenon DEF CacheInv, Valid
    <3>3. valid' = valid
      BY Zenon, <1>2
    <3>4. \A q \in Proc : pc'[q] # "idle" => pc'[q] = pc[q] /\ valid'[buf'[q]] = valid[buf[q]]
      BY Zenon, <1>6, <3>3
    <3>. QED BY Zenon, <3>1, <3>2, <3>4
  <2>. QED BY Zenon, <1>2, <2>1 DEF CacheInv, Valid
<1>19. Stored'
  <2>1. \A q \in Proc : pc[q] = "changed" => pc'[q] = "changed" /\ buf'[q] = buf[q]
    BY Zenon, <1>2, <1>7
  <2>2. \A d : Kept(d) => Kept(d)'
    BY Zenon, <1>2, <2>1 DEF Kept
  <2>3. ASSUME NEW q \in Proc, pc'[q] = "unpin" PROVE buf'[q] \in pinned' /\ disk'[want'[q]] = latest'[want'[q]]
    <3>1. pc[q] = "unpin" /\ buf'[q] = buf[q] /\ want'[q] = want[q]
      BY Zenon, <1>6, <2>3
    <3>2. pinned' = pinned /\ disk' = disk /\ latest' = latest
      BY Zenon, <1>2
    <3>3. buf[q] \in pinned /\ disk[want[q]] = latest[want[q]]
      BY Zenon, <3>1 DEF CacheInv, Stored
    <3>. QED BY Zenon, <3>1, <3>2, <3>3
  <2>. QED BY Zenon, <1>2, <2>2, <2>3 DEF CacheInv, Stored
<1>. QED BY Zenon, <1>4, <1>5, <1>14, <1>15, <1>16, <1>17, <1>18, <1>19 DEF CacheInv

-----------------------------------------------------------------------------
\* Every step of bio.c and its callers keeps the invariant.
LEMMA CacheStep == CacheInv /\ [Next]_vars => CacheInv'
<1>. SUFFICES ASSUME CacheInv, [Next]_vars PROVE CacheInv'
  OBVIOUS
<1>1. CASE UNCHANGED vars
  <2>1. UNCHANGED <<lru, blockno, valid, refcnt, data, slock, disk, pc, want, buf, pinned, latest, writes>>
    BY Zenon, <1>1 DEF vars
  <2>2. BufTypes' /\ ProcTypes' /\ DiskTypes' /\ Listed' /\ Names' /\ Locks' /\ Valid'
    BY Zenon, <2>1 DEF CacheInv, BufTypes, ProcTypes, DiskTypes, Listed, Names, Locks, Valid
  <2>3. Counts' /\ Stored'
    <3>1. \A b : Users(b)' = Users(b) /\ Pins(b)' = Pins(b) /\ (Kept(b)' <=> Kept(b))
      BY Zenon, <2>1 DEF Users, Pins, Kept
    <3>2. Counts'
      BY Zenon, <2>1, <3>1 DEF CacheInv, Counts
    <3>3. Stored'
      BY Zenon, <2>1, <3>1 DEF CacheInv, Stored
    <3>. QED BY Zenon, <3>2, <3>3
  <2>. QED BY Zenon, <2>2, <2>3 DEF CacheInv
<1>2. ASSUME NEW p \in Proc,
             \/ \E n \in Block : Bget(p, n)
             \/ Lock(p) \/ DiskRead(p) \/ Change(p) \/ Bpin(p) \/ Bwrite(p) \/ Bunpin(p)
             \/ Brelse(p) \/ Unref(p)
      PROVE  CacheInv'
  BY Zenon, <1>2, GetStep, LockStep, ReadStep, ChangeStep, PinStep, WriteStep, UnpinStep, ReleaseStep, UnrefStep
<1>. QED BY Zenon, <1>1, <1>2 DEF Next

\* The cache keeps its contents, counts and list, for any number of buffers.
THEOREM CacheInvariant == Spec => []CacheInv
<1>. QED BY InitCache, CacheStep, PTL DEF Spec

\* A block has one buffer, not renamed in use, and refcnt counts exactly.
THEOREM OneBuffer == Spec => []OneBufferPerBlock
<1>1. CacheInv => OneBufferPerBlock
  <2>. SUFFICES ASSUME CacheInv PROVE OneBufferPerBlock
    OBVIOUS
  <2>1. \A b \in Buf : refcnt[b] = Cardinality({p \in Proc : pc[p] # "idle" /\ buf[p] = b})
                                    + (IF b \in pinned THEN 1 ELSE 0)
    BY Zenon DEF CacheInv, Counts, Users, Pins
  <2>. QED BY Zenon, <2>1 DEF CacheInv, Names, OneBufferPerBlock
<1>. QED BY <1>1, CacheInvariant, PTL

\* The holder of a buffer is alone with it and sees the newest data, however
\* the cache was recycled and whatever is on the disk.
THEOREM LatestSeen == Spec => []HolderSeesLatest
<1>1. CacheInv => HolderSeesLatest
  <2>. SUFFICES ASSUME CacheInv, NEW p \in Proc, pc[p] \in Reading
                PROVE  slock[buf[p]] = p /\ data[buf[p]] = latest[want[p]]
    BY Zenon DEF HolderSeesLatest, Reading
  <2>1. pc[p] \in Locked /\ pc[p] # "idle"
    BY Zenon, Positions
  <2>2. buf[p] \in Buf /\ blockno[buf[p]] = want[p] /\ slock[buf[p]] = p
    BY Zenon, <2>1, Mine, Alone
  <2>. QED BY Zenon, <2>2 DEF CacheInv, Valid
<1>. QED BY <1>1, CacheInvariant, PTL
=============================================================================
