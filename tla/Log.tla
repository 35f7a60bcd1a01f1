-------------------------------- MODULE Log --------------------------------
(***************************************************************************)
(* The write-ahead log of kernel/log.c: begin_op, log_write, end_op, group *)
(* commit, crash at any point and recovery at boot.                        *)
(*                                                                         *)
(* A block's content is the number of the operation that wrote it last.    *)
(* Writing one block to the disk is atomic (the header's 31 words lie in   *)
(* one sector).  Code between acquire(&log.lock) and its release is one    *)
(* step; sleep and wakeup on &log are atomic, as Trap shows they may       *)
(* be taken to be.                                                         *)
(***************************************************************************)
EXTENDS Naturals, Sequences, FiniteSets, Functions

CONSTANTS Block, Proc,
          MAXOPBLOCKS, LOGSIZE,
          NLOG,       \* sb.nlog: blocks of the log area, header included
          OpWrites,   \* bound: different blocks one operation logs
          MaxOps,     \* bound: operations begun in a behaviour
          Absent      \* a block that is not in the buffer cache

ASSUME LogAssumption ==
  /\ MAXOPBLOCKS \in Nat \ {0} /\ LOGSIZE \in Nat /\ NLOG \in Nat
  /\ OpWrites \in Nat /\ MaxOps \in Nat
  /\ Absent \notin Nat

\* What an operation may log, given what begin_op sets aside for it and the
\* log area mkfs makes (10, 30 and 30 in the code: an operation logs at most 9).
ASSUME RoomAssumption ==
  /\ OpWrites < MAXOPBLOCKS /\ MAXOPBLOCKS <= LOGSIZE
  /\ OpWrites + 1 < NLOG
  /\ LOGSIZE + 1 < NLOG + 2 * (MAXOPBLOCKS - OpWrites)

Value == 0..MaxOps
Slots == 1..LOGSIZE

VARIABLES
  home, logd, head,         \* on disk: home blocks, log data blocks, header
  cache, pin,               \* buffer cache: data and bpin count of each block
  lh, outstanding, committing,  \* struct log
  tail,                     \* loop variable of write_log and install_trans
  mode,                     \* what the machine is doing: recovering or "up"
  pc,                       \* where each process is
  op, wrote,                \* its operation's number and the blocks it logged
  nops                      \* operations begun so far

disk == <<home, logd, head>>
opvars == <<op, wrote, nops>>
vars == <<home, logd, head, cache, pin, lh, outstanding, committing, tail,
          mode, pc, op, wrote, nops>>

\* A freshly made file system, booted.
Init ==
  /\ home = [b \in Block |-> 0]
  /\ logd = [k \in Slots |-> 0]
  /\ head = <<>>
  /\ cache = [b \in Block |-> Absent]
  /\ pin = [b \in Block |-> 0]
  /\ lh = <<>> /\ outstanding = 0 /\ committing = FALSE
  /\ tail = 1
  /\ mode = "up"
  /\ pc = [p \in Proc |-> "idle"]
  /\ op = [p \in Proc |-> 0]
  /\ wrote = [p \in Proc |-> {}]
  /\ nops = 0

-----------------------------------------------------------------------------
\* The data bread(b) delivers.
Bread(b) == IF cache[b] = Absent THEN home[b] ELSE cache[b]

\* bget recycles an unreferenced buffer.
Evict(b) ==
  /\ cache[b] # Absent /\ pin[b] = 0
  /\ cache' = [cache EXCEPT ![b] = Absent]
  /\ UNCHANGED <<disk, pin, lh, outstanding, committing, tail, mode, pc, opvars>>

\* A system call reads a block.
Read(b) ==
  /\ mode = "up" /\ cache[b] = Absent
  /\ cache' = [cache EXCEPT ![b] = home[b]]
  /\ UNCHANGED <<disk, pin, lh, outstanding, committing, tail, mode, pc, opvars>>

WakeupLog == [q \in Proc |-> IF pc[q] = "asleep" THEN "begin" ELSE pc[q]]

\* Mutant: begin_op does not count the operation it is about to admit.
BeginOp_NoReserve(p) ==
  /\ mode = "up"
  /\ \/ /\ pc[p] = "idle" /\ nops < MaxOps
        /\ nops' = nops + 1
        /\ op' = [op EXCEPT ![p] = nops + 1]
     \/ pc[p] = "begin" /\ UNCHANGED <<op, nops>>
  /\ \/ /\ committing \/ Len(lh) + outstanding * MAXOPBLOCKS > LOGSIZE
        /\ pc' = [pc EXCEPT ![p] = "asleep"]
        /\ UNCHANGED outstanding
     \/ /\ ~committing /\ Len(lh) + outstanding * MAXOPBLOCKS <= LOGSIZE
        /\ pc' = [pc EXCEPT ![p] = "op"]
        /\ outstanding' = outstanding + 1
  /\ UNCHANGED <<disk, cache, pin, lh, committing, tail, mode, wrote>>

\* One round of begin_op's loop.
BeginOp(p) ==
  /\ mode = "up"
  /\ \/ /\ pc[p] = "idle" /\ nops < MaxOps
        /\ nops' = nops + 1
        /\ op' = [op EXCEPT ![p] = nops + 1]
     \/ pc[p] = "begin" /\ UNCHANGED <<op, nops>>
  /\ \/ /\ committing \/ Len(lh) + (outstanding + 1) * MAXOPBLOCKS > LOGSIZE
        /\ pc' = [pc EXCEPT ![p] = "asleep"]
        /\ UNCHANGED outstanding
     \/ /\ ~committing /\ Len(lh) + (outstanding + 1) * MAXOPBLOCKS <= LOGSIZE
        /\ pc' = [pc EXCEPT ![p] = "op"]
        /\ outstanding' = outstanding + 1
  /\ UNCHANGED <<disk, cache, pin, lh, committing, tail, mode, wrote>>

\* The first check of log_write, a panic.
TooBig == Len(lh) >= LOGSIZE \/ Len(lh) >= NLOG - 1

\* bread, change the data, log_write, brelse.  A block logged twice in one
\* commit is absorbed: it keeps its place in the header and its one pin.
LogWrite(p, b) ==
  /\ pc[p] = "op"
  /\ Cardinality(wrote[p] \cup {b}) <= OpWrites
  /\ ~TooBig
  /\ cache' = [cache EXCEPT ![b] = op[p]]
  /\ \/ b \in Range(lh) /\ UNCHANGED <<lh, pin>>
     \/ /\ b \notin Range(lh)
        /\ lh' = Append(lh, b)
        /\ pin' = [pin EXCEPT ![b] = @ + 1]
  /\ wrote' = [wrote EXCEPT ![p] = @ \cup {b}]
  /\ UNCHANGED <<disk, outstanding, committing, tail, mode, pc, op, nops>>

\* Mutant: the last end_op does not commit.
EndOp_NoCommit(p) ==
  /\ pc[p] = "op"
  /\ outstanding' = outstanding - 1
  /\ \/ /\ outstanding = 1
        /\ committing' = TRUE
        /\ pc' = [pc EXCEPT ![p] = "done"]
     \/ /\ outstanding # 1
        /\ pc' = [WakeupLog EXCEPT ![p] = "idle"]
        /\ UNCHANGED committing
  /\ tail' = 1
  /\ op' = [op EXCEPT ![p] = 0]
  /\ wrote' = [wrote EXCEPT ![p] = {}]
  /\ UNCHANGED <<disk, cache, pin, lh, mode, nops>>

\* end_op up to the release of log.lock: the last operation out commits,
\* unless nothing was logged.
EndOp(p) ==
  /\ pc[p] = "op"
  /\ outstanding' = outstanding - 1
  /\ \/ /\ outstanding = 1
        /\ committing' = TRUE
        /\ pc' = [pc EXCEPT ![p] = IF lh = <<>> THEN "done" ELSE "write_log"]
     \/ /\ outstanding # 1
        /\ pc' = [WakeupLog EXCEPT ![p] = "idle"]
        /\ UNCHANGED committing
  /\ tail' = 1
  /\ op' = [op EXCEPT ![p] = 0]
  /\ wrote' = [wrote EXCEPT ![p] = {}]
  /\ UNCHANGED <<disk, cache, pin, lh, mode, nops>>

\* write_log, one block.
WriteLog(p) ==
  /\ pc[p] = "write_log"
  /\ logd' = [logd EXCEPT ![tail] = Bread(lh[tail])]
  /\ cache' = [cache EXCEPT ![lh[tail]] = Bread(lh[tail])]
  /\ IF tail = Len(lh)
       THEN pc' = [pc EXCEPT ![p] = "write_head"] /\ tail' = 1
       ELSE tail' = tail + 1 /\ UNCHANGED pc
  /\ UNCHANGED <<home, head, pin, lh, outstanding, committing, mode, opvars>>

\* write_head: the point of commit.
WriteHead(p) ==
  /\ pc[p] = "write_head"
  /\ head' = lh
  /\ pc' = [pc EXCEPT ![p] = "install"]
  /\ UNCHANGED <<home, logd, cache, pin, lh, outstanding, committing, tail, mode, opvars>>

\* One iteration of install_trans: the log block goes to its home.
InstallBlock ==
  /\ home' = [home EXCEPT ![lh[tail]] = logd[tail]]
  /\ cache' = [cache EXCEPT ![lh[tail]] = logd[tail]]
  /\ tail' = IF tail = Len(lh) THEN 1 ELSE tail + 1

\* install_trans(0), one block.
Install(p) ==
  /\ pc[p] = "install"
  /\ InstallBlock
  /\ pin' = [pin EXCEPT ![lh[tail]] = @ - 1]
  /\ pc' = [pc EXCEPT ![p] = IF tail = Len(lh) THEN "clear" ELSE @]
  /\ UNCHANGED <<logd, head, lh, outstanding, committing, mode, opvars>>

\* Mutant: the emptied header is not written to the disk.
Clear_KeepHead(p) ==
  /\ pc[p] = "clear"
  /\ lh' = <<>>
  /\ pc' = [pc EXCEPT ![p] = "done"]
  /\ UNCHANGED <<disk, cache, pin, outstanding, committing, tail, mode, opvars>>

\* log.lh.n = 0 and the second write_head of commit.
Clear(p) ==
  /\ pc[p] = "clear"
  /\ lh' = <<>> /\ head' = <<>>
  /\ pc' = [pc EXCEPT ![p] = "done"]
  /\ UNCHANGED <<home, logd, cache, pin, outstanding, committing, tail, mode, opvars>>

\* Mutant: nobody is woken after a commit.
CommitDone_NoWakeup(p) ==
  /\ pc[p] = "done"
  /\ committing' = FALSE
  /\ pc' = [pc EXCEPT ![p] = "idle"]
  /\ UNCHANGED <<disk, cache, pin, lh, outstanding, tail, mode, opvars>>

\* The end of end_op after commit.
CommitDone(p) ==
  /\ pc[p] = "done"
  /\ committing' = FALSE
  /\ pc' = [WakeupLog EXCEPT ![p] = "idle"]
  /\ UNCHANGED <<disk, cache, pin, lh, outstanding, tail, mode, opvars>>

-----------------------------------------------------------------------------
\* Power is lost: the disk is all that remains.
Crash ==
  /\ cache' = [b \in Block |-> Absent]
  /\ pin' = [b \in Block |-> 0]
  /\ lh' = <<>> /\ outstanding' = 0 /\ committing' = FALSE
  /\ tail' = 1
  /\ mode' = "boot"
  /\ pc' = [p \in Proc |-> "idle"]
  /\ wrote' = [p \in Proc |-> {}]
  /\ op' = [p \in Proc |-> 0]
  /\ UNCHANGED <<disk, nops>>

\* initlog, recover_from_log: read_head.
ReadHead ==
  /\ mode = "boot"
  /\ lh' = head
  /\ mode' = IF head = <<>> THEN "clear" ELSE "install"
  /\ UNCHANGED <<disk, cache, pin, outstanding, committing, tail, pc, opvars>>

\* install_trans(1), one block.
RecoverBlock ==
  /\ mode = "install"
  /\ InstallBlock
  /\ mode' = IF tail = Len(lh) THEN "clear" ELSE "install"
  /\ UNCHANGED <<logd, head, pin, lh, outstanding, committing, pc, opvars>>

RecoverClear ==
  /\ mode = "clear"
  /\ lh' = <<>> /\ head' = <<>>
  /\ mode' = "up"
  /\ UNCHANGED <<home, logd, cache, pin, outstanding, committing, tail, pc, opvars>>

CommitStep(p) == WriteLog(p) \/ WriteHead(p) \/ Install(p) \/ Clear(p) \/ CommitDone(p)
Recovery == ReadHead \/ RecoverBlock \/ RecoverClear

Next ==
  \/ \E p \in Proc : \/ BeginOp(p) \/ EndOp(p) \/ CommitStep(p)
                     \/ \E b \in Block : LogWrite(p, b)
  \/ \E b \in Block : Evict(b) \/ Read(b)
  \/ Crash
  \/ Recovery

Spec == Init /\ [][Next]_vars

\* Scheduled processes run, an operation ends, the disk answers.
Fairness ==
  /\ \A p \in Proc : WF_vars(BeginOp(p)) /\ WF_vars(EndOp(p)) /\ WF_vars(CommitStep(p))
  /\ WF_vars(Recovery)

FairSpec == Spec /\ Fairness

-----------------------------------------------------------------------------
\* What recovery would make of the disk as it is now.
Recovered ==
  [b \in Block |-> IF b \in Range(head)
                     THEN logd[CHOOSE k \in DOMAIN head : head[k] = b]
                     ELSE home[b]]

\* The log implements an atomic disk: operations that finished together reach
\* the disk together or, after a crash at any point of commit or of an earlier
\* recovery, not at all; and no block read through the cache is out of date.
Atomic == INSTANCE AtomicDisk WITH
  InitValue <- 0,
  mem <- IF mode = "up" THEN [b \in Block |-> Bread(b)] ELSE Recovered,
  durable <- Recovered,
  active <- {p \in Proc : pc[p] = "op"}

CrashAtomic == Atomic!ASpec

\* When no operation is running and no commit is going on, everything written
\* has become durable (end_op commits before it lets the next group in).
QuietIsDurable ==
  mode = "up" /\ outstanding = 0 /\ ~committing =>
    \A b \in Block : Bread(b) = Recovered[b]

\* The panic of log_write stays out of reach of an operation that is running:
\* begin_op has set MAXOPBLOCKS log blocks aside for each.
RoomForEveryOp ==
  (\E p \in Proc : pc[p] = "op") => ~TooBig

\* A process that waits in begin_op gets to run its operation (or the machine
\* goes down): every end_op that makes room wakes the waiters up.
BeginEventually ==
  \A p \in Proc : (pc[p] \in {"begin", "asleep"}) ~> (pc[p] \in {"op", "idle"})
=============================================================================
