----------------------------- MODULE LogProofs ------------------------------
(***************************************************************************)
(* Proofs about Log, for any number of blocks, processes and log slots:    *)
(* the log implements a disk that changes atomically (CrashAtomic), a      *)
(* quiet log is a durable one (QuietIsDurable), and begin_op's reservation *)
(* keeps log_write's panic out of reach (RoomForEveryOp).                  *)
(*                                                                         *)
(* What a crash leaves depends on how far a commit or a recovery has come. *)
(* LogInv says, at each point of either, which log blocks are written,     *)
(* which homes are, and what the header on the disk is.  It adds that one  *)
(* process commits while no operation runs, and that every block whose     *)
(* home is behind is pinned in the cache, so the cache never reads it from *)
(* the disk.  RoomInv, for the reservation, counts the blocks each running *)
(* operation has logged.                                                   *)
(***************************************************************************)
EXTENDS Log, FiniteSetTheorems, TLAPS

Committer == {"write_log", "write_head", "install", "clear", "done"}
Phase == {"idle", "begin", "asleep", "op"} \cup Committer
Active == {p \in Proc : pc[p] = "op"}
\* The blocks as the file system reads them.
Mem == [b \in Block |-> Bread(b)]

LogType ==
  /\ home \in [Block -> Value] /\ logd \in [Slots -> Value]
  /\ head \in Seq(Block) /\ lh \in Seq(Block)
  /\ cache \in [Block -> Value \cup {Absent}] /\ pin \in [Block -> Nat]
  /\ outstanding \in Nat /\ committing \in BOOLEAN /\ tail \in Nat
  /\ mode \in {"boot", "install", "clear", "up"}
  /\ pc \in [Proc -> Phase]
  /\ op \in [Proc -> Value] /\ wrote \in [Proc -> SUBSET Block] /\ nops \in Value

\* One process commits, and only when no operation is running.
Control ==
  /\ \A p \in Proc : pc[p] \in Committer => committing
  /\ \A p, q \in Proc : pc[p] \in Committer /\ pc[q] \in Committer => p = q
  /\ IsFiniteSet(Active) /\ Cardinality(Active) = outstanding
  /\ committing => outstanding = 0
  /\ mode # "up" => ~committing /\ \A p \in Proc : pc[p] = "idle"

\* No block is in a header twice, and a header fits the log.
HeaderOK(h) == /\ \A k, m \in 1..Len(h) : h[k] = h[m] => k = m
               /\ Len(h) <= LOGSIZE
Headers ==
  /\ HeaderOK(lh) /\ HeaderOK(head)
  /\ mode = "up" /\ ~committing => head = <<>>
  /\ mode = "up" /\ ~committing /\ outstanding = 0 => lh = <<>>

\* What is in the log, on the disk and in memory, at each point of a commit
CommitAt(p) ==
  /\ pc[p] = "write_log" => /\ head = <<>> /\ tail \in 1..Len(lh)
                            /\ \A k \in 1..tail - 1 : logd[k] = Mem[lh[k]]
  /\ pc[p] = "write_head" => /\ head = <<>> /\ lh # <<>> /\ tail = 1
                             /\ \A k \in 1..Len(lh) : logd[k] = Mem[lh[k]]
  /\ pc[p] = "install" => /\ head = lh /\ tail \in 1..Len(lh)
                          /\ \A k \in 1..Len(lh) : logd[k] = Mem[lh[k]]
                          /\ \A k \in 1..tail - 1 : home[lh[k]] = logd[k]
  /\ pc[p] = "clear" => /\ head = lh
                        /\ \A k \in 1..Len(lh) : logd[k] = Mem[lh[k]] /\ home[lh[k]] = logd[k]
  /\ pc[p] = "done" => lh = <<>> /\ head = <<>>
CommitData == \A p \in Proc : CommitAt(p)
\* and of a recovery.
RecoveryData ==
  /\ mode = "boot" => lh = <<>> /\ tail = 1
  /\ mode = "install" => /\ lh = head /\ tail \in 1..Len(lh)
                         /\ \A k \in 1..tail - 1 : home[lh[k]] = logd[k]
  /\ mode = "clear" => lh = head /\ \A k \in 1..Len(lh) : home[lh[k]] = logd[k]

\* The blocks that have been logged and whose homes are still to be written.
Pending == {k \in 1..Len(lh) : /\ mode = "up"
                               /\ \A p \in Proc : /\ pc[p] # "clear"
                                                  /\ pc[p] = "install" => k >= tail}
Dirty == {lh[k] : k \in Pending}

\* They are pinned; of any other block the cache has what the disk has.
Pinned == /\ \A b \in Dirty : pin[b] = 1
          /\ \A b \in Block \ Dirty : pin[b] = 0 /\ cache[b] \in {Absent, home[b]}

LogInv == LogType /\ Control /\ Headers /\ CommitData /\ RecoveryData /\ Pinned

-----------------------------------------------------------------------------
\* The empty log and the empty cache.
LEMMA InitLog == Init => LogInv
<1>. SUFFICES ASSUME Init PROVE LogInv
  OBVIOUS
<1>. USE LogAssumption DEF Init
<1>1. LogType
  <2>1. 0 \in Value /\ <<>> \in Seq(Block) /\ "idle" \in Phase
    BY DEF Value, Phase
  <2>. QED BY <2>1, Zenon DEF LogType
<1>2. Control
  <2>1. Active = {}
    BY Zenon DEF Active
  <2>. QED BY Zenon, <2>1, FS_EmptySet DEF Control, Committer
<1>3. Headers
  BY DEF Headers, HeaderOK
<1>4. CommitData /\ RecoveryData /\ Pinned
  BY DEF CommitData, CommitAt, RecoveryData, Pinned, Dirty, Pending
<1>. QED BY <1>1, <1>2, <1>3, <1>4 DEF LogInv

\* Evicting a block that is not pinned, and reading one, does not show.
LEMMA MemKept == ASSUME LogInv, NEW b \in Block, Evict(b) \/ Read(b) PROVE Mem' = Mem
<1>1. Evict(b) => b \notin Dirty
  BY DEF LogInv, Pinned, Evict
<1>2. Evict(b) => cache[b] = home[b]
  BY Zenon, <1>1 DEF LogInv, Pinned, Evict
<1>. QED BY Zenon, <1>2, LogAssumption DEF Mem, Bread, Evict, Read, LogInv, LogType, disk, Value

\* Reading and evicting a block: pinned blocks stay, so no stale home is read.
LEMMA StepCache == ASSUME LogInv, NEW b \in Block, Evict(b) \/ Read(b) PROVE LogInv'
<1>1. LogType'
  BY Zenon DEF Evict, Read, LogInv, LogType, disk, opvars
<1>2. Control'
  BY DEF Evict, Read, LogInv, Control, Active, opvars
<1>3. Headers' /\ RecoveryData'
  BY DEF Evict, Read, LogInv, Headers, HeaderOK, RecoveryData, disk
<1>4. CommitData'
  BY Zenon, MemKept DEF Evict, Read, LogInv, CommitData, CommitAt, disk
<1>5. Pinned'
  <2>1. Dirty' = Dirty
    BY DEF Evict, Read, Dirty, Pending, disk
  <2>. QED BY <2>1 DEF Evict, Read, LogInv, LogType, Pinned, disk
<1>. QED BY <1>1, <1>2, <1>3, <1>4, <1>5 DEF LogInv

\* begin_op only adds one to the running operations.
LEMMA StepBegin == ASSUME LogInv, NEW p \in Proc, BeginOp(p) PROVE LogInv'
<1>1. LogType'
  <2>1. nops' \in Value /\ op' \in [Proc -> Value]
    BY LogAssumption DEF BeginOp, LogInv, LogType, Value
  <2>2. pc' \in [Proc -> Phase] /\ outstanding' \in Nat
    <3>1. "op" \in Phase /\ "asleep" \in Phase
      BY DEF Phase
    <3>. QED BY <3>1 DEF BeginOp, LogInv, LogType
  <2>. QED BY <2>1, <2>2 DEF BeginOp, LogInv, LogType, disk
<1>2. Control'
  <2>1. CASE pc' = [pc EXCEPT ![p] = "asleep"] /\ UNCHANGED outstanding
    <3>1. Active' = Active
      BY Zenon, <2>1 DEF BeginOp, LogInv, LogType, Active
    <3>. QED BY Zenon, <2>1, <3>1 DEF BeginOp, LogInv, LogType, Control, Committer
  <2>2. CASE /\ ~committing /\ pc' = [pc EXCEPT ![p] = "op"]
             /\ outstanding' = outstanding + 1
    <3>1. Active' = Active \cup {p} /\ p \notin Active
      BY Zenon, <2>2 DEF BeginOp, LogInv, LogType, Active
    <3>. QED BY <2>2, <3>1, FS_AddElement, ZenonT(30) DEF BeginOp, LogInv, LogType, Control, Committer
  <2>. QED BY Zenon, <2>1, <2>2 DEF BeginOp
<1>3. Mem' = Mem
  BY Zenon DEF BeginOp, Mem, Bread, disk
<1>4. Headers' /\ RecoveryData'
  BY DEF BeginOp, LogInv, LogType, Headers, HeaderOK, RecoveryData, disk
<1>5. CommitData'
  BY ZenonT(30), <1>3 DEF BeginOp, LogInv, LogType, CommitData, CommitAt, disk
<1>6. Pinned'
  <2>1. \A q \in Proc : /\ pc'[q] = "clear" <=> pc[q] = "clear"
                        /\ pc'[q] = "install" <=> pc[q] = "install"
    BY Zenon DEF BeginOp, LogInv, LogType
  <2>2. Pending' = Pending
    BY Zenon, <2>1 DEF BeginOp, Pending
  <2>3. Dirty' = Dirty
    BY Zenon, <2>2 DEF BeginOp, Dirty
  <2>. QED BY Zenon, <2>3 DEF BeginOp, LogInv, Pinned, disk
<1>. QED BY Zenon, <1>1, <1>2, <1>4, <1>5, <1>6 DEF LogInv

\* Where an operation is running nobody commits and the header on disk is empty.
LEMMA OpRuns == ASSUME LogInv, NEW p \in Proc, pc[p] = "op"
                PROVE  /\ mode = "up" /\ ~committing /\ head = <<>>
                       /\ \A q \in Proc : pc[q] \notin Committer
<1>1. outstanding # 0
  <2>1. p \in Active
    BY Zenon DEF Active
  <2>. QED BY Zenon, <2>1, FS_EmptySet DEF LogInv, Control
<1>. QED BY Zenon, <1>1 DEF LogInv, Control, Headers, Committer

\* log_write absorbs a block or appends it, and pins it.
LEMMA StepLogWrite == ASSUME LogInv, NEW p \in Proc, NEW b \in Block, LogWrite(p, b)
                      PROVE  LogInv'
<1>0. mode = "up" /\ ~committing /\ head = <<>> /\ \A q \in Proc : pc[q] \notin Committer
  BY Zenon, OpRuns DEF LogWrite
<1>1. Pending = 1..Len(lh) /\ Pending' = 1..Len(lh')
  BY Zenon, <1>0 DEF LogWrite, Pending, Committer
<1>2. /\ lh' \in Seq(Block) /\ HeaderOK(lh)'
      /\ \A x \in Block : x \in Dirty' <=> x \in Dirty \/ x = b
      /\ b \in Range(lh) <=> b \in Dirty
  <2>1. b \in Range(lh) <=> b \in Dirty
    <3>1. DOMAIN lh = 1..Len(lh)
      BY DEF LogInv, LogType
    <3>. QED BY Zenon, <1>1, <3>1 DEF Dirty, Range
  <2>2. CASE b \in Range(lh) /\ UNCHANGED <<lh, pin>>
    BY <1>1, <2>1, <2>2 DEF LogInv, LogType, Headers, HeaderOK, Dirty
  <2>3. CASE b \notin Range(lh) /\ lh' = Append(lh, b)
    <3>1. /\ lh' \in Seq(Block) /\ Len(lh') = Len(lh) + 1 /\ lh'[Len(lh) + 1] = b
          /\ \A k \in 1..Len(lh) : lh'[k] = lh[k]
      BY <2>3 DEF LogInv, LogType
    <3>2. HeaderOK(lh)'
      BY SMTT(30), <2>3, <3>1, LogAssumption DEF LogWrite, TooBig, LogInv, LogType, Headers, HeaderOK, Range
    <3>3. \A x \in Block : x \in Dirty' <=> x \in Dirty \/ x = b
      <4>1. \A x : x \in Dirty' <=> \E k \in 1..Len(lh) + 1 : lh'[k] = x
        BY Zenon, <1>1, <3>1 DEF Dirty
      <4>2. \A x : x \in Dirty <=> \E k \in 1..Len(lh) : lh[k] = x
        BY Zenon, <1>1 DEF Dirty
      <4>3. Len(lh) \in Nat
        BY DEF LogInv, LogType
      <4>4. \A k \in 1..Len(lh) + 1 : k \in 1..Len(lh) \/ k = Len(lh) + 1
        BY <4>3
      <4>5. \A k \in 1..Len(lh) : k \in 1..Len(lh) + 1
        BY <4>3
      <4>6. Len(lh) + 1 \in 1..Len(lh) + 1
        BY <4>3
      <4>. QED BY <4>1, <4>2, <4>4, <4>5, <4>6, <3>1
    <3>. QED BY Zenon, <2>1, <3>1, <3>2, <3>3
  <2>. QED BY Zenon, <2>2, <2>3 DEF LogWrite
<1>3. LogType'
  <2>1. op[p] \in Value
    BY Zenon DEF LogInv, LogType
  <2>2. cache' \in [Block -> Value \cup {Absent}] /\ wrote' \in [Proc -> SUBSET Block]
    BY Zenon, <2>1 DEF LogWrite, LogInv, LogType
  <2>3. pin' \in [Block -> Nat]
    BY DEF LogWrite, LogInv, LogType
  <2>. QED BY <1>2, <2>2, <2>3 DEF LogWrite, LogInv, LogType, disk
<1>4. Control'
  BY Zenon DEF LogWrite, LogInv, LogType, Control, Active
<1>5. Headers'
  <2>1. outstanding # 0
    <3>1. p \in Active
      BY Zenon DEF Active, LogWrite
    <3>. QED BY <3>1, FS_EmptySet DEF LogInv, Control
  <2>. QED BY SMTT(30), <1>0, <1>2, <2>1 DEF LogWrite, LogInv, Headers, HeaderOK, disk
<1>6. RecoveryData'
  BY Zenon, <1>0 DEF LogWrite, RecoveryData
<1>7. CommitData'
  BY Zenon, <1>0 DEF LogWrite, LogInv, LogType, CommitData, CommitAt, Committer, disk
<1>8. Pinned'
  <2>0. \A x \in Dirty' : x \in Block
    BY <1>1, <1>2 DEF Dirty
  <2>1. CASE b \in Range(lh) /\ UNCHANGED <<lh, pin>>
    BY Zenon, <1>2, <2>0, <2>1 DEF LogWrite, LogInv, LogType, Pinned, disk
  <2>2. CASE b \notin Range(lh) /\ pin' = [pin EXCEPT ![b] = @ + 1]
    BY <1>2, <2>0, <2>2 DEF LogWrite, LogInv, LogType, Pinned, disk
  <2>. QED BY <2>1, <2>2 DEF LogWrite
<1>. QED BY Zenon, <1>3, <1>4, <1>5, <1>6, <1>7, <1>8 DEF LogInv

\* end_op of the last operation makes its process the only one that commits.
LEMMA StepEndOp == ASSUME LogInv, NEW p \in Proc, EndOp(p) PROVE LogInv'
<1>0. mode = "up" /\ ~committing /\ head = <<>> /\ \A q \in Proc : pc[q] \notin Committer
  BY Zenon, OpRuns DEF EndOp
<1>1. Active' = Active \ {p} /\ p \in Active
  BY Zenon DEF EndOp, Active, LogInv, LogType, WakeupLog
<1>2. outstanding # 0
  BY Zenon, <1>1, FS_EmptySet DEF LogInv, Control
<1>3. \A q \in Proc : q # p => pc'[q] \notin Committer
  BY <1>0, Zenon DEF EndOp, LogInv, LogType, WakeupLog, Committer
<1>4. LogType'
  <2>1. {"done", "write_log", "idle", "begin"} \subseteq Phase
    BY Zenon DEF Phase, Committer
  <2>2. pc' \in [Proc -> Phase]
    BY <2>1, Zenon DEF EndOp, LogInv, LogType, WakeupLog
  <2>3. outstanding' \in Nat
    BY <1>2 DEF EndOp, LogInv, LogType
  <2>5. committing' \in BOOLEAN
    BY Zenon DEF EndOp, LogInv, LogType
  <2>4. op' \in [Proc -> Value] /\ wrote' \in [Proc -> SUBSET Block]
    BY LogAssumption DEF EndOp, LogInv, LogType, Value
  <2>. QED BY <2>2, <2>3, <2>4, <2>5 DEF EndOp, LogInv, LogType, disk
<1>5. Control'
  <2>1. IsFiniteSet(Active') /\ Cardinality(Active') = outstanding'
    BY <1>1, <1>2, FS_RemoveElement, Zenon DEF EndOp, LogInv, LogType, Control
  <2>2. pc'[p] \in Committer <=> outstanding = 1
    BY Zenon DEF EndOp, LogInv, LogType, WakeupLog, Committer
  <2>3. outstanding = 1 => committing'
    BY Zenon DEF EndOp
  <2>4. committing' => outstanding' = 0
    <3>1. outstanding = 1 => outstanding' = 0
      BY DEF EndOp
    <3>2. outstanding # 1 => ~committing'
      BY <1>0, Zenon DEF EndOp
    <3>. QED BY Zenon, <3>1, <3>2
  <2>. QED BY Zenon, <1>0, <1>3, <2>1, <2>2, <2>3, <2>4 DEF EndOp, Control
<1>6. Headers' /\ RecoveryData'
  BY <1>0, <1>2 DEF EndOp, LogInv, LogType, Headers, HeaderOK, RecoveryData, disk
<1>7. CommitData'
  <2>1. \A q \in Proc : CommitAt(q)'
    <3>. SUFFICES ASSUME NEW q \in Proc PROVE CommitAt(q)'
      OBVIOUS
    <3>1. CASE q # p
      BY Zenon, <1>3, <3>1 DEF CommitAt, Committer
    <3>2. CASE q = p
      <4>1. lh # <<>> => 1 \in 1..Len(lh)
        BY DEF LogInv, LogType
      <4>. QED BY <1>0, <3>2, <4>1 DEF EndOp, LogInv, LogType, CommitAt, WakeupLog, disk
    <3>. QED BY <3>1, <3>2
  <2>. QED BY Zenon, <2>1 DEF CommitData
<1>8. Pinned'
  <2>1. Pending = 1..Len(lh)
    BY Zenon, <1>0 DEF Pending, Committer
  <2>2. Pending' = 1..Len(lh)
    BY Zenon, <1>0, <1>3 DEF EndOp, LogInv, LogType, Pending, WakeupLog, Committer
  <2>3. Dirty' = Dirty
    BY Zenon, <2>1, <2>2 DEF EndOp, Dirty
  <2>. QED BY Zenon, <2>3 DEF EndOp, LogInv, Pinned, disk
<1>. QED BY Zenon, <1>4, <1>5, <1>6, <1>7, <1>8 DEF LogInv

\* The one process that commits.
LEMMA Commits == ASSUME LogInv, NEW p \in Proc, pc[p] \in Committer
                 PROVE  /\ mode = "up" /\ committing /\ outstanding = 0
                        /\ \A q \in Proc : q # p => pc[q] \notin Committer
  BY Zenon DEF LogInv, Control, Committer

\* A step from one point of commit to the next.
LEMMA CommitControl ==
  ASSUME LogInv, NEW p \in Proc, pc[p] \in Committer, pc'[p] \in Committer,
         \A q \in Proc \ {p} : pc'[q] = pc[q],
         UNCHANGED <<outstanding, committing, mode>>
  PROVE  Control'
<1>1. Active' = Active
  BY Zenon DEF Active, Committer
<1>. QED BY Zenon, <1>1, Commits DEF LogInv, Control

\* write_log copies one cached block to its place in the log.
LEMMA StepWriteLog == ASSUME LogInv, NEW p \in Proc, WriteLog(p) PROVE LogInv' /\ Mem' = Mem
<1>0. /\ pc[p] \in Committer /\ mode = "up"
      /\ \A q \in Proc : q # p => pc[q] \notin Committer
  BY Zenon, Commits DEF WriteLog, Committer
<1>1. /\ head = <<>> /\ tail \in 1..Len(lh) /\ tail \in Slots /\ lh[tail] \in Block
      /\ \A k \in 1..tail - 1 : logd[k] = Mem[lh[k]]
  BY LogAssumption DEF WriteLog, LogInv, LogType, CommitData, CommitAt, Headers, HeaderOK, Slots
<1>2. Bread(lh[tail]) \in Value /\ Mem[lh[tail]] = Bread(lh[tail])
  BY Zenon, <1>1 DEF LogInv, LogType, Bread, Mem
<1>3. Mem' = Mem
  BY Zenon, <1>1, <1>2, LogAssumption DEF WriteLog, Mem, Bread, LogInv, LogType, Value
<1>4. LogType'
  <2>1. "write_head" \in Phase
    BY Zenon DEF Phase, Committer
  <2>2. pc' \in [Proc -> Phase]
    BY <2>1, Zenon DEF WriteLog, LogInv, LogType
  <2>4. tail' \in Nat
    BY DEF WriteLog, LogInv, LogType
  <2>3. logd' \in [Slots -> Value] /\ cache' \in [Block -> Value \cup {Absent}]
    BY Zenon, <1>1, <1>2 DEF WriteLog, LogInv, LogType
  <2>. QED BY Zenon, <2>2, <2>3, <2>4 DEF WriteLog, LogInv, LogType, opvars
<1>5. Control'
  <2>1. pc'[p] \in Committer /\ \A q \in Proc \ {p} : pc'[q] = pc[q]
    BY Zenon DEF WriteLog, LogInv, LogType, Committer
  <2>. QED BY Zenon, <1>0, <2>1, CommitControl DEF WriteLog
<1>6. Headers' /\ RecoveryData'
  BY <1>0, Commits DEF WriteLog, LogInv, LogType, Headers, HeaderOK, RecoveryData, disk
<1>7. CommitData'
  <2>1. \A k \in 1..tail : logd'[k] = Mem[lh[k]]
    <3>1. logd' = [logd EXCEPT ![tail] = Mem[lh[tail]]] /\ logd \in [Slots -> Value]
      BY Zenon, <1>2 DEF WriteLog, LogInv, LogType
    <3>2. \A k \in 1..tail : k \in Slots /\ (k = tail \/ k \in 1..tail - 1)
      BY <1>1, LogAssumption DEF Slots
    <3>. QED BY <1>1, <3>1, <3>2
  <2>2. CASE tail = Len(lh)
    BY <1>0, <1>1, <1>3, <2>1, <2>2 DEF WriteLog, LogInv, LogType, CommitData, CommitAt, Committer
  <2>3. CASE tail # Len(lh)
    BY <1>0, <1>1, <1>3, <2>1, <2>3 DEF WriteLog, LogInv, LogType, CommitData, CommitAt, Committer
  <2>. QED BY <2>2, <2>3
<1>8. Pinned'
  <2>1. Pending = 1..Len(lh) /\ Pending' = 1..Len(lh)
    BY Zenon, <1>0 DEF WriteLog, LogInv, LogType, Pending, Committer
  <2>2. Dirty' = Dirty /\ lh[tail] \in Dirty
    BY Zenon, <1>1, <2>1 DEF WriteLog, Dirty
  <2>. QED BY Zenon, <1>1, <2>2 DEF WriteLog, LogInv, LogType, Pinned
<1>. QED BY Zenon, <1>3, <1>4, <1>5, <1>6, <1>7, <1>8 DEF LogInv

\* write_head makes the disk's header that of memory, with every log block written.
LEMMA StepWriteHead == ASSUME LogInv, NEW p \in Proc, WriteHead(p) PROVE LogInv' /\ Mem' = Mem
<1>0. /\ pc[p] \in Committer /\ mode = "up" /\ committing
      /\ \A q \in Proc : q # p => pc[q] \notin Committer
  BY Zenon, Commits DEF WriteHead, Committer
<1>1. /\ head = <<>> /\ lh # <<>> /\ tail = 1
      /\ \A k \in 1..Len(lh) : logd[k] = Mem[lh[k]]
  BY Zenon DEF WriteHead, LogInv, CommitData, CommitAt
<1>2. Mem' = Mem
  BY Zenon DEF WriteHead, Mem, Bread
<1>3. LogType'
  <2>1. "install" \in Phase
    BY Zenon DEF Phase, Committer
  <2>. QED BY Zenon, <2>1 DEF WriteHead, LogInv, LogType, opvars
<1>4. Control'
  <2>1. pc'[p] \in Committer /\ \A q \in Proc \ {p} : pc'[q] = pc[q]
    BY Zenon DEF WriteHead, LogInv, LogType, Committer
  <2>. QED BY Zenon, <1>0, <2>1, CommitControl DEF WriteHead
<1>5. Headers' /\ RecoveryData'
  BY <1>0 DEF WriteHead, LogInv, LogType, Headers, HeaderOK, RecoveryData
<1>6. CommitData'
  <2>1. tail \in 1..Len(lh)
    BY <1>1 DEF LogInv, LogType
  <2>. QED BY <1>0, <1>1, <1>2, <2>1 DEF WriteHead, LogInv, LogType, CommitData, CommitAt, Committer
<1>7. Pinned'
  <2>1. Pending = 1..Len(lh)
    BY Zenon, <1>0 DEF WriteHead, Pending, Committer
  <2>2. Pending' = 1..Len(lh)
    BY <1>0, <1>1 DEF WriteHead, LogInv, LogType, Pending, Committer
  <2>3. Dirty' = Dirty
    BY Zenon, <2>1, <2>2 DEF WriteHead, Dirty
  <2>. QED BY Zenon, <2>3 DEF WriteHead, LogInv, Pinned
<1>. QED BY Zenon, <1>2, <1>3, <1>4, <1>5, <1>6, <1>7 DEF LogInv

\* One block goes to its home, at a commit or at boot.
LEMMA Installed ==
  ASSUME LogInv, InstallBlock, tail \in 1..Len(lh), logd' = logd, lh' = lh,
         \A k \in 1..tail - 1 : home[lh[k]] = logd[k]
  PROVE  /\ lh[tail] \in Block /\ logd[tail] \in Value
         /\ home' \in [Block -> Value] /\ cache' \in [Block -> Value \cup {Absent}]
         /\ tail' \in Nat
         /\ \A k \in 1..tail : home'[lh[k]] = logd[k]
         /\ \A b \in Block : b # lh[tail] => home'[b] = home[b] /\ cache'[b] = cache[b]
         /\ home'[lh[tail]] = logd[tail] /\ cache'[lh[tail]] = logd[tail]
<1>1. lh[tail] \in Block /\ tail \in Slots
  BY LogAssumption DEF LogInv, LogType, Headers, HeaderOK, Slots
<1>2. logd[tail] \in Value
  BY Zenon, <1>1 DEF LogInv, LogType
<1>3. home' \in [Block -> Value] /\ cache' \in [Block -> Value \cup {Absent}]
  BY Zenon, <1>1, <1>2 DEF InstallBlock, LogInv, LogType
<1>4. tail' \in Nat
  BY DEF InstallBlock, LogInv, LogType
<1>5. \A b \in Block : b # lh[tail] => home'[b] = home[b] /\ cache'[b] = cache[b]
  BY Zenon DEF InstallBlock, LogInv, LogType
<1>6. home'[lh[tail]] = logd[tail] /\ cache'[lh[tail]] = logd[tail]
  BY Zenon, <1>1 DEF InstallBlock, LogInv, LogType
<1>7. \A k \in 1..tail : home'[lh[k]] = logd[k]
  <2>. SUFFICES ASSUME NEW k \in 1..tail PROVE home'[lh[k]] = logd[k]
    OBVIOUS
  <2>1. k = tail \/ (k \in 1..tail - 1 /\ k \in 1..Len(lh))
    BY DEF LogInv, LogType
  <2>2. CASE k # tail
    <3>1. lh[k] \in Block /\ lh[k] # lh[tail]
      BY <2>1, <2>2 DEF LogInv, LogType, Headers, HeaderOK
    <3>. QED BY <2>1, <2>2, <3>1, <1>5
  <2>. QED BY Zenon, <1>6, <2>2
<1>. QED BY Zenon, <1>1, <1>2, <1>3, <1>4, <1>5, <1>6, <1>7

\* install_trans writes one home block and unpins it.
LEMMA StepInstall == ASSUME LogInv, NEW p \in Proc, Install(p) PROVE LogInv' /\ Mem' = Mem
<1>0. /\ pc[p] \in Committer /\ mode = "up" /\ committing
      /\ \A q \in Proc : q # p => pc[q] \notin Committer
  BY Zenon, Commits DEF Install, Committer
<1>1. /\ head = lh /\ tail \in 1..Len(lh)
      /\ \A k \in 1..Len(lh) : logd[k] = Mem[lh[k]]
      /\ \A k \in 1..tail - 1 : home[lh[k]] = logd[k]
  BY Zenon DEF Install, LogInv, CommitData, CommitAt
<1>2. /\ lh[tail] \in Block /\ logd[tail] \in Value
      /\ home' \in [Block -> Value] /\ cache' \in [Block -> Value \cup {Absent}]
      /\ tail' \in Nat
      /\ \A k \in 1..tail : home'[lh[k]] = logd[k]
      /\ \A b \in Block : b # lh[tail] => home'[b] = home[b] /\ cache'[b] = cache[b]
      /\ home'[lh[tail]] = logd[tail] /\ cache'[lh[tail]] = logd[tail]
  BY Zenon, <1>1, Installed DEF Install
<1>3. Mem' = Mem
  <2>1. Mem[lh[tail]] = logd[tail]
    BY <1>1
  <2>. QED BY <1>2, <2>1, LogAssumption DEF Mem, Bread, Value
<1>4. LogType'
  <2>1. "clear" \in Phase
    BY Zenon DEF Phase, Committer
  <2>2. pc' \in [Proc -> Phase]
    BY Zenon, <2>1 DEF Install, LogInv, LogType
  <2>3. pin' \in [Block -> Nat]
    <3>1. pin[lh[tail]] = 1
      <4>1. tail \in Pending
        <5>1. \A q \in Proc : pc[q] # "clear"
          BY <1>0 DEF Install, Committer
        <5>. QED BY <1>0, <1>1, <5>1 DEF Pending, LogInv, LogType
      <4>. QED BY <4>1 DEF Dirty, LogInv, Pinned
    <3>. QED BY <1>2, <3>1 DEF Install, LogInv, LogType
  <2>. QED BY <1>2, <2>2, <2>3 DEF Install, LogInv, LogType, opvars
<1>5. Control'
  <2>1. pc'[p] \in Committer /\ \A q \in Proc \ {p} : pc'[q] = pc[q]
    BY Zenon DEF Install, LogInv, LogType, Committer
  <2>. QED BY Zenon, <1>0, <2>1, CommitControl DEF Install
<1>6. Headers' /\ RecoveryData'
  BY <1>0 DEF Install, LogInv, LogType, Headers, HeaderOK, RecoveryData
<1>7. CommitData'
  <2>1. CASE tail = Len(lh)
    BY <1>0, <1>1, <1>2, <1>3, <2>1, ZenonT(30) DEF Install, LogInv, LogType, CommitData, CommitAt, Committer
  <2>2. CASE tail # Len(lh)
    <3>1. tail' = tail + 1 /\ tail' \in 1..Len(lh) /\ tail' - 1 = tail
      BY <1>1, <2>2 DEF Install, InstallBlock, LogInv, LogType
    <3>. QED BY <1>0, <1>1, <1>2, <1>3, <2>2, <3>1 DEF Install, LogInv, LogType, CommitData, CommitAt, Committer
  <2>. QED BY Zenon, <2>1, <2>2
<1>8. Pinned'
  <2>1. Pending = {k \in 1..Len(lh) : k >= tail}
    BY Zenon, <1>0 DEF Install, Pending, Committer
  <2>2. Pending' = {k \in 1..Len(lh) : k > tail}
    <3>1. CASE tail = Len(lh)
      BY SMTT(30), <1>0, <1>1, <3>1 DEF Install, LogInv, LogType, Pending, Committer
    <3>2. CASE tail # Len(lh)
      BY SMTT(30), <1>0, <1>1, <3>2 DEF Install, InstallBlock, LogInv, LogType, Pending, Committer
    <3>. QED BY <3>1, <3>2
  <2>3. \A b \in Block : b \in Dirty' <=> b \in Dirty /\ b # lh[tail]
    <3>1. \A b : b \in Dirty <=> \E k \in 1..Len(lh) : k >= tail /\ lh[k] = b
      BY Zenon, <2>1 DEF Dirty
    <3>2. \A b : b \in Dirty' <=> \E k \in 1..Len(lh) : k > tail /\ lh[k] = b
      BY Zenon, <2>2 DEF Dirty, Install
    <3>3. \A k \in 1..Len(lh) : k > tail <=> k >= tail /\ lh[k] # lh[tail]
      BY <1>1 DEF LogInv, LogType, Headers, HeaderOK
    <3>. QED BY <3>1, <3>2, <3>3
  <2>4. Dirty' \subseteq Block /\ lh[tail] \in Dirty
    BY <1>1, <2>1, <2>2 DEF Dirty, Install, LogInv, LogType
  <2>5. pin' = [pin EXCEPT ![lh[tail]] = pin[lh[tail]] - 1]
    BY DEF Install
  <2>. QED BY <1>2, <2>3, <2>4, <2>5 DEF LogInv, LogType, Pinned
<1>. QED BY <1>3, <1>4, <1>5, <1>6, <1>7, <1>8 DEF LogInv

\* The second write_head empties the disk's header once all homes are written.
LEMMA StepClear == ASSUME LogInv, NEW p \in Proc, Clear(p) PROVE LogInv' /\ Mem' = Mem
<1>0. /\ pc[p] \in Committer /\ mode = "up" /\ committing
      /\ \A q \in Proc : q # p => pc[q] \notin Committer
  BY Zenon, Commits DEF Clear, Committer
<1>1. Mem' = Mem
  BY Zenon DEF Clear, Mem, Bread
<1>2. LogType'
  <2>1. "done" \in Phase /\ <<>> \in Seq(Block)
    BY DEF Phase, Committer
  <2>. QED BY <2>1 DEF Clear, LogInv, LogType, opvars
<1>3. Control'
  <2>1. pc'[p] \in Committer /\ \A q \in Proc \ {p} : pc'[q] = pc[q]
    BY Zenon DEF Clear, LogInv, LogType, Committer
  <2>. QED BY Zenon, <1>0, <2>1, CommitControl DEF Clear
<1>4. Headers' /\ RecoveryData'
  BY <1>0, LogAssumption DEF Clear, LogInv, LogType, Headers, HeaderOK, RecoveryData
<1>5. CommitData'
  BY Zenon, <1>0 DEF Clear, LogInv, LogType, CommitData, CommitAt, Committer
<1>6. Pinned'
  <2>1. Pending = {} /\ Pending' = {}
    BY <1>0 DEF Clear, Pending
  <2>2. Dirty = {} /\ Dirty' = {}
    BY Zenon, <2>1 DEF Dirty
  <2>. QED BY Zenon, <2>2 DEF Clear, LogInv, Pinned
<1>. QED BY Zenon, <1>1, <1>2, <1>3, <1>4, <1>5, <1>6 DEF LogInv

\* The end of commit lets operations in again.
LEMMA StepCommitDone == ASSUME LogInv, NEW p \in Proc, CommitDone(p) PROVE LogInv' /\ Mem' = Mem
<1>0. /\ mode = "up" /\ lh = <<>> /\ head = <<>> /\ outstanding = 0
      /\ \A q \in Proc : q # p => pc[q] \notin Committer
  BY Zenon, Commits DEF CommitDone, Committer, LogInv, CommitData, CommitAt
<1>1. Mem' = Mem
  BY Zenon DEF CommitDone, Mem, Bread, disk
<1>2. \A q \in Proc : pc'[q] \notin Committer
  BY Zenon, <1>0 DEF CommitDone, WakeupLog, LogInv, LogType, Committer
<1>3. LogType'
  <2>1. "begin" \in Phase /\ "idle" \in Phase
    BY Zenon DEF Phase
  <2>2. pc' \in [Proc -> Phase]
    BY <2>1, Zenon DEF CommitDone, WakeupLog, LogInv, LogType
  <2>. QED BY <2>2, Zenon DEF CommitDone, LogInv, LogType, opvars, disk
<1>4. Control'
  <2>1. Active' = Active
    BY Zenon DEF CommitDone, WakeupLog, LogInv, LogType, Active
  <2>. QED BY Zenon, <1>0, <1>2, <2>1 DEF CommitDone, LogInv, Control
<1>5. Headers' /\ RecoveryData'
  BY <1>0 DEF CommitDone, LogInv, LogType, Headers, HeaderOK, RecoveryData, disk
<1>6. CommitData'
  BY Zenon, <1>2 DEF CommitData, CommitAt, Committer
<1>7. Pinned'
  <2>1. Pending = {} /\ Pending' = {}
    BY <1>0 DEF CommitDone, Pending
  <2>2. Dirty = {} /\ Dirty' = {}
    BY Zenon, <2>1 DEF Dirty
  <2>. QED BY Zenon, <2>2 DEF CommitDone, LogInv, Pinned, disk
<1>. QED BY Zenon, <1>1, <1>3, <1>4, <1>5, <1>6, <1>7 DEF LogInv

\* A crash forgets memory and keeps the disk.
LEMMA StepCrash == ASSUME LogInv, Crash PROVE LogInv'
<1>1. LogType'
  <2>1. 0 \in Value /\ <<>> \in Seq(Block) /\ "idle" \in Phase
    BY LogAssumption DEF Value, Phase
  <2>. QED BY <2>1, Zenon DEF Crash, LogInv, LogType, disk
<1>2. Control'
  <2>1. Active' = {}
    BY Zenon DEF Active, Crash
  <2>. QED BY Zenon, <2>1, FS_EmptySet DEF Crash, Control, Committer
<1>3. Headers' /\ RecoveryData'
  <2>1. HeaderOK(lh')
    BY LogAssumption DEF Crash, HeaderOK
  <2>2. HeaderOK(head')
    BY Zenon DEF Crash, disk, LogInv, Headers
  <2>. QED BY Zenon, <2>1, <2>2 DEF Crash, Headers, HeaderOK, RecoveryData
<1>4. CommitData' /\ Pinned'
  BY Zenon DEF Crash, CommitData, CommitAt, Pinned, Dirty, Pending
<1>. QED BY Zenon, <1>1, <1>2, <1>3, <1>4 DEF LogInv

\* Recovery runs before any process does.
LEMMA Boot == ASSUME LogInv, mode # "up"
              PROVE  /\ Dirty = {} /\ ~committing /\ outstanding = 0
                     /\ \A p \in Proc : pc[p] = "idle"
<1>1. \A p \in Proc : pc[p] = "idle"
  BY Zenon DEF LogInv, Control
<1>2. Active = {}
  BY Zenon, <1>1 DEF Active
<1>3. outstanding = 0
  BY Zenon, <1>2, FS_EmptySet DEF LogInv, Control
<1>. QED BY Zenon, <1>1, <1>3 DEF LogInv, Control, Dirty, Pending

\* Recovery reads the header.
LEMMA StepReadHead == ASSUME LogInv, ReadHead PROVE LogInv'
<1>0. /\ Dirty = {} /\ ~committing /\ outstanding = 0 /\ lh = <<>> /\ tail = 1
      /\ \A p \in Proc : pc[p] = "idle"
  BY Zenon, Boot DEF ReadHead, LogInv, RecoveryData
<1>1. LogType'
  BY Zenon DEF ReadHead, LogInv, LogType, disk, opvars
<1>2. Control'
  BY Zenon DEF ReadHead, LogInv, Control, Active
<1>3. Headers'
  BY DEF ReadHead, LogInv, LogType, Headers, HeaderOK, disk
<1>4. RecoveryData'
  <2>1. head # <<>> => 1 \in 1..Len(head)
    BY DEF LogInv, LogType
  <2>. QED BY <1>0, <2>1 DEF ReadHead, RecoveryData, disk
<1>5. CommitData'
  BY Zenon, <1>0 DEF ReadHead, CommitData, CommitAt
<1>6. Pinned'
  <2>1. Dirty' = {}
    BY Zenon DEF ReadHead, Dirty, Pending
  <2>. QED BY Zenon, <1>0, <2>1 DEF ReadHead, LogInv, Pinned, disk
<1>. QED BY Zenon, <1>1, <1>2, <1>3, <1>4, <1>5, <1>6 DEF LogInv

\* Recovery installs one block from the log.
LEMMA StepRecoverBlock == ASSUME LogInv, RecoverBlock PROVE LogInv'
<1>0. /\ Dirty = {} /\ ~committing /\ outstanding = 0
      /\ \A p \in Proc : pc[p] = "idle"
  BY Zenon, Boot DEF RecoverBlock
<1>1. lh = head /\ tail \in 1..Len(lh) /\ \A k \in 1..tail - 1 : home[lh[k]] = logd[k]
  BY Zenon DEF RecoverBlock, LogInv, RecoveryData
<1>2. /\ lh[tail] \in Block /\ logd[tail] \in Value
      /\ home' \in [Block -> Value] /\ cache' \in [Block -> Value \cup {Absent}]
      /\ tail' \in Nat
      /\ \A k \in 1..tail : home'[lh[k]] = logd[k]
      /\ \A b \in Block : b # lh[tail] => home'[b] = home[b] /\ cache'[b] = cache[b]
      /\ home'[lh[tail]] = logd[tail] /\ cache'[lh[tail]] = logd[tail]
  BY Zenon, <1>1, Installed DEF RecoverBlock
<1>3. LogType'
  BY Zenon, <1>2 DEF RecoverBlock, LogInv, LogType, opvars
<1>4. Control'
  BY Zenon DEF RecoverBlock, LogInv, Control, Active
<1>5. Headers'
  BY DEF RecoverBlock, LogInv, LogType, Headers, HeaderOK
<1>6. RecoveryData'
  <2>1. CASE tail = Len(lh)
    BY Zenon, <1>1, <1>2, <2>1 DEF RecoverBlock, LogInv, LogType, RecoveryData
  <2>2. CASE tail # Len(lh)
    <3>1. tail' = tail + 1 /\ tail' \in 1..Len(lh) /\ tail' - 1 = tail
      BY <1>1, <2>2 DEF RecoverBlock, InstallBlock, LogInv, LogType
    <3>. QED BY <1>1, <1>2, <2>2, <3>1 DEF RecoverBlock, RecoveryData
  <2>. QED BY Zenon, <2>1, <2>2
<1>7. CommitData'
  BY Zenon, <1>0 DEF RecoverBlock, CommitData, CommitAt
<1>8. Pinned'
  <2>1. Dirty' = {}
    BY Zenon DEF RecoverBlock, Dirty, Pending
  <2>. QED BY Zenon, <1>0, <1>2, <2>1 DEF RecoverBlock, LogInv, Pinned
<1>. QED BY Zenon, <1>3, <1>4, <1>5, <1>6, <1>7, <1>8 DEF LogInv

\* Recovery empties the header on the disk.
LEMMA StepRecoverClear == ASSUME LogInv, RecoverClear PROVE LogInv'
<1>0. /\ Dirty = {} /\ ~committing /\ outstanding = 0
      /\ \A p \in Proc : pc[p] = "idle"
  BY Zenon, Boot DEF RecoverClear
<1>1. LogType'
  BY DEF RecoverClear, LogInv, LogType, opvars
<1>2. Control'
  BY Zenon DEF RecoverClear, LogInv, Control, Active
<1>3. Headers' /\ RecoveryData'
  BY LogAssumption DEF RecoverClear, Headers, HeaderOK, RecoveryData
<1>4. CommitData'
  BY Zenon, <1>0 DEF RecoverClear, CommitData, CommitAt
<1>5. Pinned'
  <2>1. Dirty' = {}
    BY DEF RecoverClear, Dirty, Pending
  <2>. QED BY <1>0, <2>1 DEF RecoverClear, LogInv, Pinned
<1>. QED BY Zenon, <1>1, <1>2, <1>3, <1>4, <1>5 DEF LogInv

\* Every step keeps LogInv.
LEMMA LogStep == LogInv /\ [Next]_vars => LogInv'
<1>1. LogInv /\ UNCHANGED vars => LogInv'
  <2>. SUFFICES ASSUME LogInv, UNCHANGED vars PROVE LogInv'
    OBVIOUS
  <2>1. Mem' = Mem /\ Dirty' = Dirty /\ Active' = Active
    BY Zenon DEF vars, Mem, Bread, Dirty, Pending, Active
  <2>2. LogType' /\ Control'
    BY Zenon, <2>1 DEF vars, LogInv, LogType, Control
  <2>3. Headers' /\ RecoveryData' /\ Pinned'
    BY <2>1 DEF vars, LogInv, Headers, HeaderOK, RecoveryData, Pinned
  <2>4. CommitData'
    BY Zenon, <2>1 DEF vars, LogInv, CommitData, CommitAt
  <2>. QED BY Zenon, <2>2, <2>3, <2>4 DEF LogInv
<1>2. LogInv /\ Next => LogInv'
  BY Zenon, StepCache, StepBegin, StepLogWrite, StepEndOp, StepWriteLog, StepWriteHead, StepInstall,
     StepClear, StepCommitDone, StepCrash, StepReadHead, StepRecoverBlock, StepRecoverClear
     DEF Next, CommitStep, Recovery
<1>. QED BY Zenon, <1>1, <1>2

\* LogInv is an invariant of the log.
THEOREM LogInvariant == Spec => []LogInv
  BY InitLog, LogStep, PTL DEF Spec

-----------------------------------------------------------------------------
(* What the log promises.                                                  *)

\* What recovery makes of a disk with header h, log blocks l and home blocks m.
Installing(h, l, m) ==
  [b \in Block |-> IF b \in Range(h) THEN l[CHOOSE k \in DOMAIN h : h[k] = b] ELSE m[b]]

\* A disk that has the log's blocks where the header says, and the homes elsewhere, is
\* the one recovery makes.
LEMMA InstallingAt ==
  ASSUME NEW h \in Seq(Block), HeaderOK(h), NEW l, NEW m, NEW f \in [Block -> Value],
         \A k \in 1..Len(h) : f[h[k]] = l[k],
         \A b \in Block : b \notin Range(h) => f[b] = m[b]
  PROVE  Installing(h, l, m) = f
<1>1. DOMAIN h = 1..Len(h) /\ \A k \in 1..Len(h) : h[k] \in Block
  OBVIOUS
<1>2. ASSUME NEW b \in Block, b \in Range(h)
      PROVE  l[CHOOSE k \in DOMAIN h : h[k] = b] = f[b]
  <2>1. PICK k \in 1..Len(h) : h[k] = b
    BY Zenon, <1>1, <1>2 DEF Range
  <2>2. (CHOOSE n \in DOMAIN h : h[n] = b) = k
    BY Zenon, <1>1, <2>1 DEF HeaderOK
  <2>. QED BY Zenon, <2>1, <2>2
<1>3. \A b \in Block : Installing(h, l, m)[b] = f[b]
  BY <1>2, Zenon DEF Installing
<1>. QED BY <1>3, Zenon DEF Installing

\* What the abstract disk holds: the log's blocks where the header lists them, the homes
\* elsewhere.
LEMMA RecoveredIs ==
  ASSUME LogInv
  PROVE  /\ Recovered \in [Block -> Value]
         /\ \A k \in 1..Len(head) : Recovered[head[k]] = logd[k]
         /\ \A b \in Block : b \notin Range(head) => Recovered[b] = home[b]
<1>1. DOMAIN head = 1..Len(head) /\ \A k \in 1..Len(head) : head[k] \in Block /\ head[k] \in Range(head)
  BY DEF LogInv, LogType, Range
<1>2. \A k \in 1..Len(head) : k \in Slots
  BY LogAssumption DEF LogInv, LogType, Headers, HeaderOK, Slots
<1>3. ASSUME NEW k \in 1..Len(head)
      PROVE  (CHOOSE m \in DOMAIN head : head[m] = head[k]) = k
  BY Zenon, <1>1 DEF LogInv, Headers, HeaderOK
<1>4. \A k \in 1..Len(head) : Recovered[head[k]] = logd[k]
  BY <1>1, <1>3, Zenon DEF Recovered
<1>5. \A b \in Block : b \notin Range(head) => Recovered[b] = home[b]
  BY Zenon DEF Recovered
<1>6. \A b \in Block : Recovered[b] \in Value
  <2>1. \A b \in Range(head) : \E k \in 1..Len(head) : head[k] = b
    BY Zenon, <1>1 DEF Range
  <2>2. \A k \in 1..Len(head) : logd[k] \in Value
    BY Zenon, <1>2 DEF LogInv, LogType
  <2>3. \A b \in Block : home[b] \in Value
    BY Zenon DEF LogInv, LogType
  <2>. QED BY ZenonT(30), <1>4, <1>5, <2>1, <2>2, <2>3
<1>. QED BY <1>4, <1>5, <1>6, Zenon DEF Recovered

\* What recovery makes of the disk, in terms of any function that it turns out to be.
LEMMA RecoveredTo ==
  ASSUME LogInv', NEW f \in [Block -> Value],
         \A k \in 1..Len(head') : f[head'[k]] = logd'[k],
         \A b \in Block : b \notin Range(head') => f[b] = home'[b]
  PROVE  Recovered' = f
<1>1. head' \in Seq(Block) /\ HeaderOK(head')
  BY Zenon DEF LogInv, LogType, Headers, HeaderOK
<1>2. Installing(head', logd', home') = f
  BY <1>1, InstallingAt
<1>3. Recovered' = Installing(head', logd', home')
  BY Zenon DEF Recovered, Installing
<1>. QED BY Zenon, <1>2, <1>3

\* It is a function of the disk.
LEMMA RecoveredKept == ASSUME home' = home, logd' = logd, head' = head PROVE Recovered' = Recovered
<1>1. Recovered = Installing(head, logd, home)
  BY Zenon DEF Recovered, Installing
<1>2. Recovered' = Installing(head', logd', home')
  BY Zenon DEF Recovered, Installing
<1>. QED BY Zenon, <1>1, <1>2

\* A header that is empty leaves the homes as they are.
LEMMA RecoveredHome == ASSUME LogInv, head = <<>> PROVE Recovered = home
<1>1. Range(head) = {}
  BY DEF Range
<1>. QED BY <1>1 DEF Recovered, LogInv, LogType

\* A clean block reads as what is at its home.
LEMMA CleanIsHome == ASSUME LogInv, NEW b \in Block, b \notin Dirty PROVE Mem[b] = home[b]
  BY Zenon DEF LogInv, Pinned, Mem, Bread

\* The memory of the abstract disk.
AMem == IF mode = "up" THEN Mem ELSE Recovered

\* What the processes see is a value for every block.
LEMMA MemType == ASSUME LogInv PROVE Mem \in [Block -> Value]
  BY Zenon DEF LogInv, LogType, Mem, Bread

\* write_log changes only log blocks that the header on disk does not name.
LEMMA RefWriteLog == ASSUME LogInv, LogInv', NEW p \in Proc, WriteLog(p) PROVE Recovered' = Recovered
<1>1. head = <<>>
  BY Zenon DEF WriteLog, LogInv, CommitData, CommitAt
<1>2. head' = <<>> /\ home' = home
  BY Zenon, <1>1 DEF WriteLog
<1>3. Recovered = home
  BY Zenon, <1>1, RecoveredHome
<1>4. Range(head') = {}
  BY <1>2 DEF Range
<1>5. \A k \in 1..Len(head') : FALSE
  BY <1>2
<1>6. home \in [Block -> Value]
  BY Zenon DEF LogInv, LogType
<1>. QED BY Zenon, <1>2, <1>3, <1>4, <1>5, <1>6, RecoveredTo

\* write_head makes everything in memory durable at once.
LEMMA RefWriteHead == ASSUME LogInv, LogInv', NEW p \in Proc, WriteHead(p)
                      PROVE  Recovered' = Mem
<1>1. \A k \in 1..Len(lh) : logd[k] = Mem[lh[k]]
  BY Zenon DEF WriteHead, LogInv, CommitData, CommitAt
<1>2. \A b \in Block : b \notin Range(lh) => Mem[b] = home[b]
  <2>1. \A b : b \in Dirty => b \in Range(lh)
    BY SMTT(30) DEF Dirty, Pending, Range, LogInv, LogType
  <2>. QED BY <2>1, CleanIsHome
<1>3. head' = lh /\ logd' = logd /\ home' = home
  BY Zenon DEF WriteHead
<1>. QED BY Zenon, <1>1, <1>2, <1>3, MemType, RecoveredTo

\* Installing a block of the header changes nothing for recovery.
LEMMA RefInstallBlock ==
  ASSUME LogInv, LogInv', InstallBlock, head = lh, tail \in 1..Len(lh),
         UNCHANGED <<logd, head, lh>>
  PROVE  Recovered' = Recovered
<1>1. lh[tail] \in Range(head)
  BY SMTT(30) DEF LogInv, LogType, Range
<1>2. \A b \in Block : b \notin Range(head) => home'[b] = home[b]
  BY Zenon, <1>1 DEF InstallBlock, LogInv, LogType
<1>. QED BY Zenon, <1>2, RecoveredIs, RecoveredTo

\* Once every block is at home the header may go.
LEMMA RefClear ==
  ASSUME LogInv, LogInv', \A k \in 1..Len(head) : home[head[k]] = logd[k],
         head' = <<>>, home' = home
  PROVE  Recovered' = Recovered
<1>1. \A b \in Block : Recovered[b] = home[b]
  <2>1. \A b \in Range(head) : \E k \in 1..Len(head) : head[k] = b
    BY SMTT(30) DEF Range, LogInv, LogType
  <2>. QED BY <2>1, RecoveredIs
<1>2. Range(head') = {}
  BY DEF Range
<1>3. \A k \in 1..Len(head') : FALSE
  OBVIOUS
<1>. QED BY Zenon, <1>1, <1>2, <1>3, RecoveredIs, RecoveredTo

\* The state of the abstract disk, as Atomic's mapping gives it.
LEMMA Mapping ==
  /\ Atomic!avars = <<AMem, Recovered, Active>>
  /\ Atomic!avars' = <<AMem', Recovered', Active'>>
  BY Zenon DEF Atomic!avars, AMem, Mem, Active

\* The initial states of Log are initial states of AtomicDisk.
LEMMA InitAtomic == Init => Atomic!AInit
<1>. SUFFICES ASSUME Init PROVE Atomic!AInit
  OBVIOUS
<1>1. Range(head) = {}
  BY DEF Init, Range
<1>2. Recovered = [b \in Block |-> 0]
  BY Zenon, <1>1 DEF Init, Recovered
<1>3. [b \in Block |-> Bread(b)] = [b \in Block |-> 0]
  BY Zenon DEF Init, Bread
<1>4. {p \in Proc : pc[p] = "op"} = {}
  BY Zenon DEF Init
<1>. QED BY Zenon, <1>2, <1>3, <1>4 DEF Init, Atomic!AInit

\* The steps the abstract disk does not see.
LEMMA RefHidden ==
  ASSUME LogInv, LogInv',
         \/ \E b \in Block : Evict(b) \/ Read(b)
         \/ \E p \in Proc : WriteLog(p) \/ Install(p) \/ Clear(p) \/ CommitDone(p)
         \/ Recovery
  PROVE  UNCHANGED Atomic!avars
<1>. SUFFICES AMem' = AMem /\ Recovered' = Recovered /\ Active' = Active
  BY Zenon, Mapping
<1>1. CASE \E b \in Block : Evict(b) \/ Read(b)
  <2>1. Mem' = Mem
    BY Zenon, <1>1, MemKept
  <2>2. Recovered' = Recovered
    <3>1. home' = home /\ logd' = logd /\ head' = head
      BY <1>1 DEF Evict, Read, disk
    <3>. QED BY <3>1 DEF Recovered
  <2>3. Active' = Active /\ mode' = mode
    BY Zenon, <1>1 DEF Evict, Read, Active
  <2>. QED BY Zenon, <2>1, <2>2, <2>3 DEF AMem
<1>2. ASSUME NEW p \in Proc, WriteLog(p) \/ Install(p) \/ Clear(p) \/ CommitDone(p)
      PROVE  AMem' = AMem /\ Recovered' = Recovered /\ Active' = Active
  <2>1. Mem' = Mem
    BY Zenon, <1>2, StepWriteLog, StepInstall, StepClear, StepCommitDone
  <2>2. mode' = mode
    BY Zenon, <1>2 DEF WriteLog, Install, Clear, CommitDone
  <2>3. Active' = Active
    BY <1>2, Zenon DEF WriteLog, Install, Clear, CommitDone, WakeupLog, Active, LogInv, LogType
  <2>4. Recovered' = Recovered
    <3>1. CASE WriteLog(p)
      BY Zenon, <3>1, RefWriteLog
    <3>2. CASE Install(p)
      <4>1. head = lh /\ tail \in 1..Len(lh)
        BY Zenon, <3>2 DEF Install, LogInv, CommitData, CommitAt
      <4>. QED BY Zenon, <3>2, <4>1, RefInstallBlock DEF Install
    <3>3. CASE Clear(p)
      <4>1. \A k \in 1..Len(head) : home[head[k]] = logd[k]
        BY SMTT(30), <3>3 DEF Clear, LogInv, CommitData, CommitAt
      <4>. QED BY <3>3, <4>1, RefClear, Zenon DEF Clear
    <3>4. CASE CommitDone(p)
      <4>1. home' = home /\ logd' = logd /\ head' = head
        BY Zenon, <3>4 DEF CommitDone, disk
      <4>. QED BY Zenon, <4>1, RecoveredKept
    <3>. QED BY <1>2, <3>1, <3>2, <3>3, <3>4
  <2>. QED BY Zenon, <2>1, <2>2, <2>3, <2>4 DEF AMem
<1>3. CASE Recovery
  <2>1. Active' = Active
    BY Zenon, <1>3 DEF Recovery, ReadHead, RecoverBlock, RecoverClear, Active
  <2>2. CASE ReadHead
    <3>1. Recovered' = Recovered
      <4>1. home' = home /\ logd' = logd /\ head' = head
        BY Zenon, <2>2 DEF ReadHead, disk
      <4>. QED BY Zenon, <4>1, RecoveredKept
    <3>2. mode # "up" /\ mode' # "up"
      BY Zenon, <2>2 DEF ReadHead
    <3>. QED BY Zenon, <2>1, <3>1, <3>2 DEF AMem
  <2>3. CASE RecoverBlock
    <3>1. head = lh /\ tail \in 1..Len(lh)
      BY Zenon, <2>3 DEF RecoverBlock, LogInv, RecoveryData
    <3>2. Recovered' = Recovered
      BY Zenon, <2>3, <3>1, RefInstallBlock DEF RecoverBlock
    <3>3. mode # "up" /\ mode' # "up"
      BY Zenon, <2>3 DEF RecoverBlock
    <3>. QED BY Zenon, <2>1, <3>2, <3>3 DEF AMem
  <2>4. CASE RecoverClear
    <3>1. \A k \in 1..Len(head) : home[head[k]] = logd[k]
      BY Zenon, <2>4 DEF RecoverClear, LogInv, RecoveryData
    <3>2. Recovered' = Recovered
      BY Zenon, <2>4, <3>1, RefClear DEF RecoverClear
    <3>3. mode # "up" /\ mode' = "up" /\ UNCHANGED <<cache, home, pin>> /\ head' = <<>>
      BY Zenon, <2>4 DEF RecoverClear
    <3>4. Dirty = {}
      BY Zenon, <3>3, Boot
    <3>5. Mem = home
      BY SMTT(30), <3>4, MemType, CleanIsHome DEF LogInv, LogType
    <3>6. Mem' = Mem
      BY Zenon, <3>3 DEF Mem, Bread
    <3>7. Recovered' = home'
      <4>1. Range(head') = {}
        BY <3>3 DEF Range
      <4>. QED BY <4>1 DEF Recovered, LogInv, LogType
    <3>. QED BY Zenon, <2>1, <3>2, <3>3, <3>5, <3>6, <3>7 DEF AMem
  <2>. QED BY Zenon, <1>3, <2>2, <2>3, <2>4 DEF Recovery
<1>. QED BY Zenon, <1>1, <1>2, <1>3

\* begin_op admits an operation, or makes its process wait.
LEMMA RefBegin == ASSUME LogInv, NEW p \in Proc, BeginOp(p)
                  PROVE  Atomic!Begin(p) \/ UNCHANGED Atomic!avars
<1>1. Mem' = Mem /\ Recovered' = Recovered /\ AMem' = AMem
  <2>1. UNCHANGED <<home, logd, head, cache, mode>>
    BY Zenon DEF BeginOp, disk
  <2>2. Mem' = Mem
    BY Zenon, <2>1 DEF Mem, Bread
  <2>3. Recovered' = Recovered
    BY <2>1 DEF Recovered
  <2>. QED BY <2>1, <2>2, <2>3 DEF AMem
<1>2. CASE pc' = [pc EXCEPT ![p] = "asleep"]
  <2>1. Active' = Active
    BY Zenon, <1>2 DEF BeginOp, LogInv, LogType, Active
  <2>. QED BY Zenon, <1>1, <2>1, Mapping
<1>3. CASE pc' = [pc EXCEPT ![p] = "op"]
  <2>1. Active' = Active \cup {p} /\ p \notin Active
    BY Zenon, <1>3 DEF BeginOp, LogInv, LogType, Active
  <2>. QED BY Zenon, <1>1, <2>1 DEF Atomic!Begin, Active, AMem, Mem
<1>. QED BY Zenon, <1>2, <1>3 DEF BeginOp

\* log_write is a write of the abstract disk.
LEMMA RefLogWrite == ASSUME LogInv, NEW p \in Proc, NEW b \in Block, LogWrite(p, b)
                     PROVE  Atomic!Write(p, b, op[p])
<1>1. mode = "up" /\ mode' = "up" /\ head = <<>>
  BY Zenon, OpRuns DEF LogWrite
<1>2. op[p] \in Value /\ op[p] # Absent
  BY LogAssumption DEF LogInv, LogType, Value
<1>3. Mem' = [Mem EXCEPT ![b] = op[p]]
  BY <1>2, Zenon DEF LogWrite, Mem, Bread, LogInv, LogType, disk
<1>4. Recovered' = Recovered
  <2>1. home' = home /\ logd' = logd /\ head' = head
    BY DEF LogWrite, disk
  <2>. QED BY <2>1 DEF Recovered
<1>5. Active' = Active /\ p \in Active
  BY Zenon DEF LogWrite, Active
<1>. QED BY Zenon, <1>1, <1>3, <1>4, <1>5 DEF Atomic!Write, Active, Mem

\* end_op ends an operation of the abstract disk.
LEMMA RefEndOp == ASSUME LogInv, NEW p \in Proc, EndOp(p) PROVE Atomic!End(p)
<1>1. home' = home /\ logd' = logd /\ head' = head /\ cache' = cache /\ mode' = mode
  BY Zenon DEF EndOp, disk
<1>2. Mem' = Mem
  BY Zenon, <1>1 DEF Mem, Bread
<1>3. Recovered' = Recovered
  BY <1>1 DEF Recovered
<1>4. Active' = Active \ {p} /\ p \in Active
  BY Zenon DEF EndOp, Active, LogInv, LogType, WakeupLog
<1>. QED BY Zenon, <1>1, <1>2, <1>3, <1>4 DEF Atomic!End, Active, Mem

\* write_head is the commit: the disk takes what memory holds, at once.
LEMMA RefCommit == ASSUME LogInv, LogInv', NEW p \in Proc, WriteHead(p) PROVE Atomic!Commit
<1>1. mode = "up" /\ mode' = "up" /\ outstanding = 0
  BY Zenon, Commits DEF WriteHead, Committer
<1>2. Active = {}
  BY Zenon, <1>1, FS_EmptySet DEF LogInv, Control
<1>3. Active' = Active
  BY Zenon DEF WriteHead, Active, LogInv, LogType
<1>4. Mem' = Mem /\ Recovered' = Mem
  BY Zenon, StepWriteHead, RefWriteHead
<1>. QED BY Zenon, <1>1, <1>2, <1>3, <1>4 DEF Atomic!Commit, Active, Mem

\* A crash is a crash of the abstract disk.
LEMMA RefCrash == Crash => Atomic!Crash
<1>. SUFFICES ASSUME Crash PROVE Atomic!Crash
  OBVIOUS
<1>1. Recovered' = Recovered
  <2>1. home' = home /\ logd' = logd /\ head' = head
    BY DEF Crash, disk
  <2>. QED BY <2>1 DEF Recovered
<1>2. mode' # "up" /\ Active' = {}
  BY Zenon DEF Crash, Active
<1>. QED BY Zenon, <1>1, <1>2 DEF Atomic!Crash, Active

\* Every step of the log is a step of the atomic disk or leaves it alone.
LEMMA StepAtomic == LogInv /\ LogInv' /\ [Next]_vars => [Atomic!ANext]_(Atomic!avars)
<1>. SUFFICES ASSUME LogInv, LogInv', [Next]_vars
              PROVE  Atomic!ANext \/ UNCHANGED Atomic!avars
  OBVIOUS
<1>1. ASSUME NEW p \in Proc, BeginOp(p) PROVE Atomic!ANext \/ UNCHANGED Atomic!avars
  BY Zenon, <1>1, RefBegin DEF Atomic!ANext
<1>2. ASSUME NEW p \in Proc, NEW b \in Block, LogWrite(p, b) PROVE Atomic!ANext
  <2>1. op[p] \in Value
    BY Zenon DEF LogInv, LogType
  <2>. QED BY Zenon, <1>2, <2>1, RefLogWrite DEF Atomic!ANext
<1>3. ASSUME NEW p \in Proc, EndOp(p) PROVE Atomic!ANext
  BY Zenon, <1>3, RefEndOp DEF Atomic!ANext
<1>4. ASSUME NEW p \in Proc, WriteHead(p) PROVE Atomic!ANext
  BY Zenon, <1>4, RefCommit DEF Atomic!ANext
<1>5. Crash => Atomic!ANext
  BY Zenon, RefCrash DEF Atomic!ANext
<1>6. UNCHANGED vars => UNCHANGED Atomic!avars
  <2>. SUFFICES ASSUME UNCHANGED vars PROVE UNCHANGED Atomic!avars
    OBVIOUS
  <2>1. Mem' = Mem /\ Recovered' = Recovered /\ Active' = Active /\ mode' = mode
    BY SMTT(30) DEF vars, Mem, Bread, Recovered, Active
  <2>. QED BY <2>1, Mapping DEF AMem
<1>. QED BY Zenon, <1>1, <1>2, <1>3, <1>4, <1>5, <1>6, RefHidden DEF Next, CommitStep

\* kernel/log.c implements an atomic disk: whatever group of operations one
\* commit covers reaches the disk whole or not at all, wherever in the commit
\* or in an earlier recovery the machine stops, and every read sees it so.
THEOREM LogImplementsAtomicDisk == Spec => CrashAtomic
<1>1. LogInv /\ LogInv' /\ [Next]_vars => [Atomic!ANext]_(Atomic!avars)
  BY Zenon, StepAtomic
<1>. QED BY <1>1, InitAtomic, LogInvariant, PTL DEF Spec, CrashAtomic, Atomic!ASpec

\* With no operation running and none committing, all that was written is on
\* the disk: end_op installs the log before it lets anybody in.
THEOREM QuietDurable == Spec => []QuietIsDurable
<1>1. LogInv => QuietIsDurable
  <2>. SUFFICES ASSUME LogInv, mode = "up", outstanding = 0, ~committing, NEW b \in Block
                PROVE  Bread(b) = Recovered[b]
    BY Zenon DEF QuietIsDurable
  <2>1. lh = <<>> /\ head = <<>>
    BY Zenon DEF LogInv, Headers
  <2>2. Dirty = {}
    <3>1. Pending = {}
      BY <2>1 DEF Pending
    <3>. QED BY <3>1 DEF Dirty
  <2>3. Mem[b] = home[b]
    BY Zenon, <2>2, CleanIsHome
  <2>. QED BY Zenon, <2>1, <2>3, RecoveredHome DEF Mem
<1>. QED BY <1>1, LogInvariant, PTL

-----------------------------------------------------------------------------
\* The blocks that running operations have logged.
Logged == {x \in Proc \X Block : x[2] \in wrote[x[1]]}

\* The most blocks the header can come to hold: an operation let in alone finds
\* it empty, one let in beside another finds room for both.
Cap == IF LOGSIZE <= OpWrites + 2 * (MAXOPBLOCKS - OpWrites)
         THEN OpWrites ELSE LOGSIZE - 2 * (MAXOPBLOCKS - OpWrites)

\* The header and what the running operations may still log stay below Cap.
RoomInv ==
  /\ \A p \in Proc : pc[p] # "op" => wrote[p] = {}
  /\ \A p \in Proc : /\ IsFiniteSet(wrote[p]) /\ Cardinality(wrote[p]) <= OpWrites
                     /\ wrote[p] \subseteq Range(lh)
  /\ IsFiniteSet(Logged)
  /\ outstanding > 0 => Len(lh) + outstanding * OpWrites <= Cap + Cardinality(Logged)

\* The blocks a transaction may hold, and what fits in them.
LEMMA CapRange == Cap \in Nat /\ Cap < LOGSIZE /\ Cap + 1 < NLOG /\ OpWrites <= Cap
  BY LogAssumption, RoomAssumption DEF Cap

\* The running operations logged no more than their number allows.
LEMMA LoggedBound ==
  ASSUME LogInv, RoomInv
  PROVE  /\ Cardinality(Logged) \in Nat
         /\ Cardinality(Logged) <= outstanding * OpWrites
<1>. DEFINE index == [p \in Proc |-> CHOOSE h : h \in Bijection(1..Cardinality(wrote[p]), wrote[p])]
            at(p, b) == CHOOSE k \in 1..Cardinality(wrote[p]) : index[p][k] = b
            g == [x \in Logged |-> <<x[1], at(x[1], x[2])>>]
<1>1. ASSUME NEW p \in Proc, NEW b \in wrote[p]
      PROVE  at(p, b) \in 1..OpWrites /\ index[p][at(p, b)] = b
  <2>1. ExistsBijection(1..Cardinality(wrote[p]), wrote[p]) /\ Cardinality(wrote[p]) \in Nat
    BY Zenon, FS_CardinalityType DEF RoomInv
  <2>2. index[p] \in Bijection(1..Cardinality(wrote[p]), wrote[p])
    BY Zenon, <2>1 DEF ExistsBijection
  <2>3. \E k \in 1..Cardinality(wrote[p]) : index[p][k] = b
    <3>. HIDE DEF index
    <3>. QED BY Zenon, <2>2 DEF Bijection, Surjection
  <2>4. 1..Cardinality(wrote[p]) \subseteq 1..OpWrites
    BY SMTT(30), <2>1, LogAssumption DEF RoomInv
  <2>. HIDE DEF index
  <2>. QED BY Zenon, <2>3, <2>4
<1>. HIDE DEF at
<1>2. ASSUME NEW x \in Logged
      PROVE  /\ x[1] \in Active /\ x[2] \in wrote[x[1]] /\ x[1] \in Proc
             /\ x = <<x[1], x[2]>>
  BY DEF Logged, RoomInv, Active
<1>3. g \in [Logged -> Active \X (1..OpWrites)]
  BY Zenon, <1>1, <1>2
<1>4. ASSUME NEW x \in Logged, NEW y \in Logged, g[x] = g[y] PROVE x = y
  <2>1. x[1] = y[1] /\ at(x[1], x[2]) = at(x[1], y[2])
    BY Zenon, <1>4
  <2>2. x[2] = y[2]
    <3>1. index[x[1]][at(x[1], x[2])] = x[2] /\ index[x[1]][at(x[1], y[2])] = y[2]
      BY Zenon, <1>1, <1>2, <2>1
    <3>. QED BY Zenon, <2>1, <3>1
  <2>. QED BY Zenon, <2>1, <2>2, <1>2
<1>5. g \in Injection(Logged, Active \X (1..OpWrites))
  <2>. HIDE DEF g
  <2>. QED BY Zenon, <1>3, <1>4 DEF Injection, IsInjective
<1>6. /\ IsFiniteSet(Active \X (1..OpWrites))
      /\ Cardinality(Active \X (1..OpWrites)) = outstanding * OpWrites
  <2>1. IsFiniteSet(1..OpWrites) /\ Cardinality(1..OpWrites) = OpWrites
    BY FS_Interval, LogAssumption
  <2>. QED BY <2>1, FS_Product, ZenonT(30) DEF LogInv, Control
<1>. HIDE DEF g
<1>. QED BY SMTT(30), <1>5, <1>6, FS_Injection, FS_CardinalityType DEF RoomInv

\* While an operation runs, log_write does not panic.
LEMMA RoomEnough == LogInv /\ RoomInv => RoomForEveryOp
<1>. SUFFICES ASSUME LogInv, RoomInv, NEW p \in Proc, pc[p] = "op" PROVE ~TooBig
  BY Zenon DEF RoomForEveryOp
<1>1. outstanding > 0 /\ outstanding \in Nat /\ Len(lh) \in Nat
  <2>1. p \in Active
    BY DEF Active
  <2>. QED BY <2>1, FS_EmptySet DEF LogInv, LogType, Control
<1>2. Len(lh) + outstanding * OpWrites <= Cap + Cardinality(Logged)
  BY Zenon, <1>1 DEF RoomInv
<1>3. outstanding * OpWrites \in Nat
  BY <1>1, LogAssumption
<1>4. Len(lh) <= Cap
  BY <1>1, <1>2, <1>3, LoggedBound, CapRange
<1>. QED BY <1>1, <1>4, CapRange, LogAssumption DEF TooBig

\* Steps that leave the header and the operations alone.
LEMMA RoomSame ==
  ASSUME RoomInv, UNCHANGED <<lh, wrote, outstanding>>,
         \A p \in Proc : pc[p] = "op" => pc'[p] = "op"
  PROVE  RoomInv'
<1>1. Logged' = Logged
  BY Zenon DEF Logged
<1>. QED BY Zenon, <1>1 DEF RoomInv

\* Steps after which no operation is running.
LEMMA RoomIdle ==
  ASSUME \A p \in Proc : wrote'[p] = {}, outstanding' = 0
  PROVE  RoomInv'
<1>1. Logged' = {}
  BY DEF Logged
<1>. QED BY <1>1, FS_EmptySet, LogAssumption DEF RoomInv

\* Where none is counted, none has logged anything.
LEMMA NoneLogged == ASSUME LogInv, RoomInv, outstanding = 0
                    PROVE  \A p \in Proc : wrote[p] = {}
<1>1. Active = {}
  BY Zenon, FS_EmptySet DEF LogInv, Control
<1>. QED BY Zenon, <1>1 DEF Active, RoomInv

\* begin_op lets an operation in only where the room it may need is left.
LEMMA RoomBegin == ASSUME LogInv, RoomInv, NEW p \in Proc, BeginOp(p) PROVE RoomInv'
<1>0. wrote' = wrote /\ lh' = lh /\ pc[p] # "op"
  BY Zenon DEF BeginOp
<1>1. CASE pc' = [pc EXCEPT ![p] = "asleep"] /\ UNCHANGED outstanding
  <2>1. \A q \in Proc : pc[q] = "op" => pc'[q] = "op"
    BY Zenon, <1>0, <1>1 DEF LogInv, LogType
  <2>. QED BY Zenon, <1>0, <1>1, <2>1, RoomSame
<1>2. CASE /\ ~committing /\ Len(lh) + (outstanding + 1) * MAXOPBLOCKS <= LOGSIZE
           /\ pc' = [pc EXCEPT ![p] = "op"] /\ outstanding' = outstanding + 1
  <2>1. \A q \in Proc : pc'[q] # "op" => wrote'[q] = {}
    BY Zenon, <1>0, <1>2 DEF LogInv, LogType, RoomInv
  <2>2. Logged' = Logged
    BY Zenon, <1>0 DEF Logged
  <2>3. outstanding \in Nat /\ Len(lh) \in Nat /\ Cardinality(Logged) \in Nat
    BY LoggedBound DEF LogInv, LogType
  <2>4. Len(lh) + (outstanding + 1) * OpWrites <= Cap + Cardinality(Logged)
    <3>1. CASE outstanding = 0
      <4>1. lh = <<>>
        BY <1>2, <3>1 DEF LogInv, Headers, BeginOp
      <4>. QED BY <2>3, <3>1, <4>1, CapRange, LogAssumption
    <3>2. CASE outstanding # 0
      <4>. DEFINE d == MAXOPBLOCKS - OpWrites
                  o == outstanding
      <4>1. d \in Nat /\ o \in Nat /\ o >= 1
        BY <2>3, <3>2, LogAssumption, RoomAssumption
      <4>2. (o + 1) * MAXOPBLOCKS = (o + 1) * OpWrites + (o - 1) * d + 2 * d
        BY <4>1, LogAssumption
      <4>3. (o - 1) * d >= 0 /\ (o - 1) * d \in Int /\ (o + 1) * OpWrites \in Int
        BY <4>1, LogAssumption
      <4>4. Len(lh) + (o + 1) * OpWrites + 2 * d <= LOGSIZE
        <5>. HIDE DEF d, o
        <5>1. Len(lh) + (o + 1) * MAXOPBLOCKS <= LOGSIZE
          BY <1>2 DEF o
        <5>. QED BY <2>3, <4>1, <4>2, <4>3, <5>1, LogAssumption
      <4>5. LOGSIZE - 2 * d <= Cap
        BY LogAssumption, RoomAssumption DEF Cap
      <4>. QED BY <2>3, <4>1, <4>3, <4>4, <4>5, CapRange, LogAssumption
    <3>. QED BY <3>1, <3>2
  <2>. QED BY Zenon, <1>0, <1>2, <2>1, <2>2, <2>4 DEF RoomInv
<1>. QED BY Zenon, <1>1, <1>2 DEF BeginOp

\* log_write uses the room begin_op reserved, or absorbs.
LEMMA RoomLogWrite == ASSUME LogInv, RoomInv, NEW p \in Proc, NEW b \in Block, LogWrite(p, b)
                      PROVE  RoomInv'
<1>0. /\ pc' = pc /\ outstanding' = outstanding /\ pc[p] = "op"
      /\ wrote' = [wrote EXCEPT ![p] = wrote[p] \cup {b}]
  BY Zenon DEF LogWrite
<1>1. wrote'[p] = wrote[p] \cup {b} /\ \A q \in Proc : q # p => wrote'[q] = wrote[q]
  BY Zenon, <1>0 DEF LogInv, LogType
<1>2. \A x : x \in Logged' <=> x \in Logged \cup {<<p, b>>}
  <2>1. \A q \in Proc, c \in Block : c \in wrote'[q] <=> c \in wrote[q] \/ (q = p /\ c = b)
    BY <1>1
  <2>. QED BY <2>1 DEF Logged
<1>3. Logged' = Logged \cup {<<p, b>>}
  BY Zenon, <1>2
<1>4. <<p, b>> \in Logged <=> b \in wrote[p]
  BY Zenon DEF Logged
<1>5. /\ IsFiniteSet(Logged')
      /\ Cardinality(Logged') = IF b \in wrote[p] THEN Cardinality(Logged)
                                                  ELSE Cardinality(Logged) + 1
  BY Zenon, <1>3, <1>4, FS_AddElement DEF RoomInv
<1>6. \A x \in Range(lh) : x \in Range(lh')
  <2>1. CASE lh' = lh
    BY Zenon, <2>1
  <2>2. CASE lh' = Append(lh, b)
    <3>1. Len(lh') = Len(lh) + 1 /\ \A k \in 1..Len(lh) : lh'[k] = lh[k] /\ k \in 1..Len(lh')
      BY SMTT(30), <2>2 DEF LogInv, LogType
    <3>2. DOMAIN lh = 1..Len(lh) /\ DOMAIN lh' = 1..Len(lh')
      BY <2>2 DEF LogInv, LogType
    <3>. QED BY <3>1, <3>2 DEF Range
  <2>. QED BY Zenon, <2>1, <2>2 DEF LogWrite
<1>7. b \in Range(lh')
  <2>1. CASE lh' = Append(lh, b)
    <3>1. Len(lh) + 1 \in DOMAIN lh' /\ lh'[Len(lh) + 1] = b
      BY <2>1 DEF LogInv, LogType
    <3>. QED BY <3>1 DEF Range
  <2>. QED BY Zenon, <2>1 DEF LogWrite
<1>8. \A q \in Proc : /\ IsFiniteSet(wrote'[q]) /\ Cardinality(wrote'[q]) <= OpWrites
                      /\ wrote'[q] \subseteq Range(lh')
  <2>1. IsFiniteSet(wrote[p] \cup {b}) /\ Cardinality(wrote[p] \cup {b}) <= OpWrites
    BY FS_AddElement, Zenon DEF RoomInv, LogWrite
  <2>. QED BY <1>1, <1>6, <1>7, <2>1, Zenon DEF RoomInv
<1>9. outstanding > 0 => Len(lh') + outstanding * OpWrites <= Cap + Cardinality(Logged')
  <2>1. /\ Len(lh) \in Nat /\ outstanding * OpWrites \in Nat
        /\ Cardinality(Logged) \in Nat /\ Cap \in Nat
    BY LoggedBound, CapRange, LogAssumption DEF LogInv, LogType
  <2>2. Len(lh') = Len(lh) \/ (b \notin wrote[p] /\ Len(lh') = Len(lh) + 1)
    BY SMTT(30) DEF LogWrite, RoomInv, LogInv, LogType
  <2>3. outstanding > 0 => Len(lh) + outstanding * OpWrites <= Cap + Cardinality(Logged)
    BY Zenon DEF RoomInv
  <2>. HIDE DEF RoomInv
  <2>. QED BY <1>5, <2>1, <2>2, <2>3
<1>. QED BY <1>0, <1>1, <1>5, <1>8, <1>9, Zenon DEF RoomInv

\* end_op gives up its reservation and keeps the room of the others.
LEMMA RoomEndOp == ASSUME LogInv, RoomInv, NEW p \in Proc, EndOp(p) PROVE RoomInv'
<1>0. /\ lh' = lh /\ outstanding' = outstanding - 1 /\ pc[p] = "op"
      /\ wrote'[p] = {} /\ \A q \in Proc : q # p => wrote'[q] = wrote[q]
  BY Zenon DEF EndOp, LogInv, LogType
<1>1. \A q \in Proc : q # p => (pc[q] = "op" <=> pc'[q] = "op")
  BY Zenon DEF EndOp, LogInv, LogType, WakeupLog
<1>. DEFINE mine == {p} \X wrote[p]
<1>2. Logged' = Logged \ mine /\ Logged \cap mine = mine
  <2>1. \A q \in Proc, c \in Block : c \in wrote'[q] <=> c \in wrote[q] /\ q # p
    BY Zenon, <1>0
  <2>2. \A x : x \in Logged' <=> x \in Logged /\ x \notin mine
    BY Zenon, <2>1 DEF Logged
  <2>3. \A x \in mine : x \in Logged
    BY Zenon DEF Logged, LogInv, LogType
  <2>. QED BY Zenon, <2>2, <2>3
<1>3. IsFiniteSet(mine) /\ Cardinality(mine) \in Nat /\ Cardinality(mine) <= OpWrites
  <2>1. IsFiniteSet(wrote[p]) /\ Cardinality(wrote[p]) <= OpWrites /\ Cardinality(wrote[p]) \in Nat
    BY Zenon, FS_CardinalityType DEF RoomInv
  <2>2. IsFiniteSet({p}) /\ Cardinality({p}) = 1
    BY FS_Singleton, Zenon
  <2>3. IsFiniteSet(mine) /\ Cardinality(mine) = 1 * Cardinality(wrote[p])
    BY <2>1, <2>2, FS_Product
  <2>. QED BY SMTT(30), <2>1, <2>3
<1>4. IsFiniteSet(Logged') /\ Cardinality(Logged') = Cardinality(Logged) - Cardinality(mine)
  <2>. HIDE DEF mine
  <2>1. IsFiniteSet(Logged)
    BY Zenon DEF RoomInv
  <2>2. /\ IsFiniteSet(Logged \ mine)
        /\ Cardinality(Logged \ mine) = Cardinality(Logged) - Cardinality(Logged \cap mine)
    BY Zenon, <2>1, FS_Difference
  <2>. QED BY Zenon, <1>2, <2>2
<1>5. outstanding' > 0 => Len(lh) + outstanding' * OpWrites <= Cap + Cardinality(Logged')
  <2>1. Len(lh) \in Nat /\ outstanding \in Nat /\ Cardinality(Logged) \in Nat /\ Cap \in Nat
    BY SMTT(30), LoggedBound, CapRange DEF LogInv, LogType
  <2>2. (outstanding - 1) * OpWrites = outstanding * OpWrites - OpWrites
    BY <2>1, LogAssumption
  <2>3. outstanding > 0 => Len(lh) + outstanding * OpWrites <= Cap + Cardinality(Logged)
    BY Zenon DEF RoomInv
  <2>4. outstanding * OpWrites \in Nat
    BY <2>1, LogAssumption
  <2>. HIDE DEF mine
  <2>. QED BY <1>0, <1>3, <1>4, <2>1, <2>2, <2>3, <2>4, LogAssumption
<1>6. \A q \in Proc : /\ IsFiniteSet(wrote'[q]) /\ Cardinality(wrote'[q]) <= OpWrites
                      /\ wrote'[q] \subseteq Range(lh')
  <2>1. IsFiniteSet(wrote'[p]) /\ Cardinality(wrote'[p]) <= OpWrites
    BY <1>0, FS_EmptySet, LogAssumption
  <2>. QED BY <1>0, <2>1, Zenon DEF RoomInv
<1>7. \A q \in Proc : pc'[q] # "op" => wrote'[q] = {}
  BY Zenon, <1>0, <1>1 DEF RoomInv
<1>. QED BY Zenon, <1>0, <1>4, <1>5, <1>6, <1>7 DEF RoomInv

\* Every step keeps RoomInv.
LEMMA RoomStep == LogInv /\ RoomInv /\ [Next]_vars => RoomInv'
<1>. SUFFICES ASSUME LogInv, RoomInv, [Next]_vars PROVE RoomInv'
  OBVIOUS
<1>1. CASE UNCHANGED vars
  BY Zenon, <1>1, RoomSame DEF vars
<1>2. ASSUME NEW b \in Block, Evict(b) \/ Read(b) PROVE RoomInv'
  BY Zenon, <1>2, RoomSame DEF Evict, Read, opvars
<1>3. ASSUME NEW p \in Proc, CommitStep(p) PROVE RoomInv'
  <2>1. pc[p] \in Committer
    BY Zenon, <1>3 DEF CommitStep, WriteLog, WriteHead, Install, Clear, CommitDone, Committer
  <2>2. outstanding = 0
    BY Zenon, <2>1, Commits
  <2>3. outstanding' = outstanding /\ wrote' = wrote
    BY Zenon, <1>3 DEF CommitStep, WriteLog, WriteHead, Install, Clear, CommitDone, opvars
  <2>. QED BY Zenon, <2>2, <2>3, NoneLogged, RoomIdle
<1>4. CASE Crash
  BY Zenon, <1>4, RoomIdle DEF Crash
<1>5. CASE Recovery
  <2>1. outstanding = 0
    BY Zenon, <1>5, Boot DEF Recovery, ReadHead, RecoverBlock, RecoverClear
  <2>2. outstanding' = outstanding /\ wrote' = wrote
    BY Zenon, <1>5 DEF Recovery, ReadHead, RecoverBlock, RecoverClear, opvars
  <2>. QED BY Zenon, <2>1, <2>2, NoneLogged, RoomIdle
<1>. QED BY Zenon, <1>1, <1>2, <1>3, <1>4, <1>5, RoomBegin, RoomLogWrite, RoomEndOp DEF Next

\* However many operations share a commit, log_write finds room in the log for
\* each of them: its panic is out of reach.
THEOREM RoomForEvery == Spec => []RoomForEveryOp
<1>1. Init => RoomInv
  <2>. SUFFICES ASSUME Init PROVE RoomInv
    OBVIOUS
  <2>1. Logged = {} /\ \A p \in Proc : wrote[p] = {}
    BY Zenon DEF Init, Logged
  <2>2. IsFiniteSet({}) /\ Cardinality({}) <= OpWrites
    BY FS_EmptySet, LogAssumption
  <2>3. outstanding = 0
    BY DEF Init
  <2>. QED BY <2>1, <2>2, <2>3 DEF RoomInv
<1>. QED BY <1>1, RoomStep, RoomEnough, LogInvariant, PTL DEF Spec
=============================================================================
