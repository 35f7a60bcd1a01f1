----------------------------- MODULE ProcProofs -----------------------------
(***************************************************************************)
(* Proofs about Proc, for any number of slots and CPUs and any kill()      *)
(* arguments: the types (TypeOK), that a kernel stack is never used by two *)
(* CPUs or given away while in use (OneCpuPerStack), that the panics of    *)
(* sched and exit cannot happen (NoPanic), that no process is left without *)
(* a parent that can reap it (ParentAlive), and that a parent never sleeps *)
(* through a child's exit (NoMissedExit).                                  *)
(*                                                                         *)
(* OneCpuPerStack is not inductive: it depends on who holds p->lock across *)
(* swtch.  StackInv adds that a process on its way into the scheduler, or  *)
(* just out of it, has its p->lock held by the CPU that executes it, that  *)
(* a process anywhere else on a CPU is RUNNING, and that a slot fork is    *)
(* still filling in is USED and belongs to one fork only.                  *)
(*                                                                         *)
(* NoPanic says that sched() is called with one lock held and no other,    *)
(* which is not inductive either.  HeldInv adds to StackInv which CPU      *)
(* holds which lock and why, what a thread that died has left behind, and  *)
(* that nobody kills init.                                                 *)
(*                                                                         *)
(* For ParentAlive and NoMissedExit, FamilyInv adds to HeldInv what holds  *)
(* inside the critical sections of wait_lock: how far reparent, the        *)
(* wakeups of exit and the scan of wait have come, and what that much of   *)
(* the loop has established for the slots behind it.                       *)
(***************************************************************************)
EXTENDS Proc, TLAPS

-----------------------------------------------------------------------------
(* The types.                                                              *)

\* The loop in reparent calls wakeup(initproc) only for a slot of the table.
TypeInv == TypeOK /\ \A p \in Slot : kpc[p] = "wake_init" => i[p] <= NPROC

-----------------------------------------------------------------------------
\* The initial state is typed.
LEMMA InitType == Init => TypeInv
  BY ProcAssumption DEF Init, TypeInv, TypeOK, Slot, Lock, Init0, Null, PState, KPC, RPC, Preemptible

\* The disjuncts of Next, for one CPU.
SchedSteps(c) ==
  \/ Scan(c) \/ Back(c) \/ Resume(c) \/ Sched(c) \/ TrapRet(c)
  \/ AllocProc(c) \/ ForkCopy(c) \/ ForkFail(c) \/ ForkParent(c) \/ ForkRun(c)
ExitSteps(c) ==
  \/ Exit(c) \/ Reparent(c) \/ WakeInit(c) \/ WakeParent(c) \/ ExitLock(c)
  \/ ExitZombie(c) \/ Wait(c) \/ WaitScan(c) \/ WaitEnd(c)
TrapSteps(c) ==
  \/ Sleep(c) \/ SleepChan(c) \/ Kill(c) \/ Preempt(c) \/ Timer(c) \/ Syscall(c)
Steps(c) == SchedSteps(c) \/ ExitSteps(c) \/ TrapSteps(c)

\* Next is one of these steps of one CPU.
LEMMA NextSteps == Next => \E c \in CPU : Steps(c)
  BY Zenon DEF Next, Scheduler, Kernel, Fork, ExitPath, WaitPath, User, Steps, SchedSteps, ExitSteps, TrapSteps

\* Slots, pointers and locks.
LEMMA Ranges ==
  /\ Slot \subseteq 0..NPROC /\ Slot \subseteq Lock /\ Slot \subseteq 1..NPROC+1
  /\ Init0 \in Slot /\ 1 \in Slot /\ WaitLock \in Lock /\ WaitLock \notin Slot
  /\ Null \in 0..NPROC /\ 1 \in 1..NPROC+1
  /\ \A s \in 1..NPROC+1 : s <= NPROC => s \in Slot /\ s + 1 \in 1..NPROC+1
  /\ \A s \in 1..NPROC+1 : s < NPROC => s + 1 \in 1..NPROC+1 /\ s + 1 \in Slot
  /\ \A s \in Slot : NextSlot(s) \in Slot
  BY ProcAssumption DEF Slot, Lock, Init0, WaitLock, Null, NextSlot

\* A CPU that executes a process has one.
LEMMA HasProc ==
  ASSUME TypeInv, NEW c \in CPU, sp[c] # "scan"
  PROVE  cproc[c] \in Slot
  BY SMTT(30) DEF TypeInv, TypeOK

\* Every step keeps the types.
LEMMA TypeStep ==
  ASSUME TypeInv, NEW c \in CPU, Steps(c)
  PROVE  TypeInv'
<1>. USE DEF TypeInv, TypeOK, sched_vars
<1>1. CASE Scan(c)
  <2>1. state' \in [Slot -> PState]
    BY <1>1, Ranges DEF Scan, PState
  <2>2. cproc' \in [CPU -> 0..NPROC]
    <3>1. idx[c] \in 0..NPROC
      BY Zenon, Ranges
    <3>2. cproc' = [cproc EXCEPT ![c] = idx[c]] \/ cproc' = cproc
      BY Zenon, <1>1 DEF Scan
    <3>. QED BY Zenon, <3>1, <3>2
  <2>3. sp' \in [CPU -> {"scan", "proc", "back"}]
    BY <1>1, Ranges DEF Scan
  <2>4. lock' \in [Lock -> CPU \cup {None}]
    BY <1>1, Ranges DEF Scan
  <2>5. idx' \in [CPU -> Slot]
    BY Zenon, <1>1, Ranges DEF Scan
  <2>6. \A b \in CPU : sp'[b] # "scan" => cproc'[b] \in Slot
    BY <1>1, Ranges DEF Scan
  <2>. QED BY <1>1, <2>1, <2>2, <2>3, <2>4, <2>5, <2>6 DEF Scan, table, local
<1>2. CASE Back(c)
  <2>1. cproc[c] \in Slot
    BY Zenon, <1>2, HasProc DEF Back
  <2>2. lock' \in [Lock -> CPU \cup {None}]
    BY Zenon, <1>2, <2>1, Ranges DEF Back
  <2>3. cproc' \in [CPU -> 0..NPROC]
    BY Zenon, <1>2, <2>1, Ranges DEF Back
  <2>4. idx' \in [CPU -> Slot]
    BY Zenon, <1>2, <2>1, Ranges DEF Back
  <2>5. sp' \in [CPU -> {"scan", "proc", "back"}]
    BY Zenon, <1>2, <2>1, Ranges DEF Back
  <2>6. \A b \in CPU : sp'[b] # "scan" => cproc'[b] \in Slot
    BY Zenon, <1>2, <2>1, Ranges DEF Back
  <2>. QED BY Zenon, <1>2, <2>1, <2>2, <2>3, <2>4, <2>5, <2>6 DEF Back, table, local
<1>3. CASE Resume(c)
  <2>1. cproc[c] \in Slot
    BY Zenon, <1>3, HasProc DEF Resume, At
  <2>2. lock' \in [Lock -> CPU \cup {None}]
    BY Zenon, <1>3, <2>1, Ranges DEF Resume, At, Goto
  <2>3. chan' \in [Slot -> 0..NPROC]
    BY Zenon, <1>3, <2>1, Ranges DEF Resume, At, Goto
  <2>4. kpc' \in [Slot -> KPC \cup {"zombie"}]
    BY Zenon, <1>3, <2>1, Ranges DEF Resume, At, Goto, KPC, RPC, Preemptible
  <2>5. \A p \in Slot : kpc'[p] = "wake_init" => i'[p] <= NPROC
    BY Zenon, <1>3, <2>1, Ranges DEF Resume, At, Goto, RPC, Preemptible, local
  <2>6. rpc' \in [Slot -> RPC]
    BY Zenon, <1>3, <2>1, Ranges DEF Resume, RPC
  <2>. QED BY Zenon, <1>3, <2>1, <2>2, <2>3, <2>4, <2>5, <2>6 DEF Resume, At, Goto, table
<1>4. CASE Sched(c)
  <2>1. cproc[c] \in Slot
    BY Zenon, <1>4, HasProc DEF Sched, At
  <2>2. kpc' \in [Slot -> KPC \cup {"zombie"}]
    BY Zenon, <1>4, <2>1, Ranges DEF Sched, At, Goto, KPC, RPC, Preemptible
  <2>3. sp' \in [CPU -> {"scan", "proc", "back"}]
    BY Zenon, <1>4, <2>1, Ranges DEF Sched, At, Goto
  <2>4. \A p \in Slot : kpc'[p] = "wake_init" => i'[p] <= NPROC
    BY Zenon, <1>4, <2>1, Ranges DEF Sched, At, Goto, RPC, Preemptible, local
  <2>5. \A b \in CPU : sp'[b] # "scan" => cproc'[b] \in Slot
    BY Zenon, <1>4, <2>1, Ranges DEF Sched, At, Goto
  <2>. QED BY Zenon, <1>4, <2>1, <2>2, <2>3, <2>4, <2>5 DEF Sched, At, Goto, table, local
<1>5. CASE TrapRet(c)
  <2>1. cproc[c] \in Slot
    BY Zenon, <1>5, HasProc DEF TrapRet, At
  <2>2. kpc' \in [Slot -> KPC \cup {"zombie"}]
    BY Zenon, <1>5, <2>1, Ranges DEF TrapRet, At, Goto, StartLoop, KPC, RPC, Preemptible
  <2>3. i' \in [Slot -> 1..NPROC + 1]
    BY Zenon, <1>5, <2>1, Ranges DEF TrapRet, At, Goto, StartLoop
  <2>4. j' \in [Slot -> 1..NPROC + 1]
    BY Zenon, <1>5, <2>1, Ranges DEF TrapRet, At, Goto, StartLoop
  <2>5. target' \in [Slot -> Nat]
    BY Zenon, <1>5, <2>1, Ranges DEF TrapRet, At, Goto, StartLoop
  <2>6. \A p \in Slot : kpc'[p] = "wake_init" => i'[p] <= NPROC
    BY Zenon, <1>5, <2>1, Ranges DEF TrapRet, At, Goto, StartLoop, RPC, Preemptible, local
  <2>. QED BY Zenon, <1>5, <2>1, <2>2, <2>3, <2>4, <2>5, <2>6 DEF TrapRet, At, Goto, StartLoop, table, local
<1>6. CASE AllocProc(c)
  <2>1. cproc[c] \in Slot
    BY Zenon, <1>6, HasProc DEF AllocProc, At
  <2>2. state' \in [Slot -> PState]
    BY ZenonT(30), <1>6, <2>1, Ranges DEF AllocProc, At, Goto, PState
  <2>3. pid' \in [Slot -> Nat]
    BY <1>6, <2>1, Ranges DEF AllocProc, At, Goto
  <2>4. nextpid' \in Nat
    BY <1>6, <2>1, Ranges DEF AllocProc, At, Goto
  <2>5. lock' \in [Lock -> CPU \cup {None}]
    BY <1>6, <2>1, Ranges DEF AllocProc, At, Goto
  <2>6. kpc' \in [Slot -> KPC \cup {"zombie"}]
    BY ZenonT(30), <1>6, <2>1, Ranges DEF AllocProc, At, Goto, KPC, RPC, Preemptible
  <2>7. rpc' \in [Slot -> RPC]
    BY Zenon, <1>6, <2>1, Ranges DEF AllocProc, At, Goto, RPC, Preemptible
  <2>8. i' \in [Slot -> 1..NPROC + 1]
    BY <1>6, <2>1, Ranges DEF AllocProc, At, Goto
  <2>9. \A p \in Slot : kpc'[p] = "wake_init" => i'[p] <= NPROC
    BY <1>6, <2>1, Ranges DEF AllocProc, At, Goto, RPC, Preemptible, local
  <2>. QED BY <1>6, <2>1, <2>2, <2>3, <2>4, <2>5, <2>6, <2>7, <2>8, <2>9 DEF AllocProc, At, Goto, table, local
<1>7. CASE ForkCopy(c)
  <2>1. cproc[c] \in Slot
    BY Zenon, <1>7, HasProc DEF ForkCopy, At
  <2>2. lock' \in [Lock -> CPU \cup {None}]
    BY Zenon, <1>7, <2>1, Ranges DEF ForkCopy, At, Goto
  <2>3. kpc' \in [Slot -> KPC \cup {"zombie"}]
    BY Zenon, <1>7, <2>1, Ranges DEF ForkCopy, At, Goto, KPC, RPC, Preemptible
  <2>4. \A p \in Slot : kpc'[p] = "wake_init" => i'[p] <= NPROC
    BY Zenon, <1>7, <2>1, Ranges DEF ForkCopy, At, Goto, RPC, Preemptible, local
  <2>. QED BY Zenon, <1>7, <2>1, <2>2, <2>3, <2>4 DEF ForkCopy, At, Goto, table, local
<1>8. CASE ForkFail(c)
  <2>1. cproc[c] \in Slot
    BY Zenon, <1>8, HasProc DEF ForkFail, At
  <2>2. pid' \in [Slot -> Nat]
    BY Zenon, <1>8, <2>1, Ranges DEF ForkFail, At, Goto, FreeProc
  <2>3. parent' \in [Slot -> 0..NPROC]
    BY Zenon, <1>8, <2>1, Ranges DEF ForkFail, At, Goto, FreeProc
  <2>4. chan' \in [Slot -> 0..NPROC]
    BY Zenon, <1>8, <2>1, Ranges DEF ForkFail, At, Goto, FreeProc
  <2>5. killed' \in [Slot -> BOOLEAN]
    BY Zenon, <1>8, <2>1, Ranges DEF ForkFail, At, Goto, FreeProc
  <2>6. state' \in [Slot -> PState]
    BY Zenon, <1>8, <2>1, Ranges DEF ForkFail, At, Goto, FreeProc, PState
  <2>7. lock' \in [Lock -> CPU \cup {None}]
    BY Zenon, <1>8, <2>1, Ranges DEF ForkFail, At, Goto, FreeProc
  <2>8. kpc' \in [Slot -> KPC \cup {"zombie"}]
    BY Zenon, <1>8, <2>1, Ranges DEF ForkFail, At, Goto, FreeProc, KPC, RPC, Preemptible
  <2>9. \A p \in Slot : kpc'[p] = "wake_init" => i'[p] <= NPROC
    BY Zenon, <1>8, <2>1, Ranges DEF ForkFail, At, Goto, FreeProc, RPC, Preemptible, local
  <2>. QED BY Zenon, <1>8, <2>1, <2>2, <2>3, <2>4, <2>5, <2>6, <2>7, <2>8, <2>9 DEF ForkFail, At, Goto, FreeProc, table, local
<1>9. CASE ForkParent(c)
  <2>1. cproc[c] \in Slot
    BY Zenon, <1>9, HasProc DEF ForkParent, At
  <2>2. parent' \in [Slot -> 0..NPROC]
    BY Zenon, <1>9, <2>1, Ranges DEF ForkParent, At, Goto
  <2>3. kpc' \in [Slot -> KPC \cup {"zombie"}]
    BY Zenon, <1>9, <2>1, Ranges DEF ForkParent, At, Goto, KPC, RPC, Preemptible
  <2>4. \A p \in Slot : kpc'[p] = "wake_init" => i'[p] <= NPROC
    BY Zenon, <1>9, <2>1, Ranges DEF ForkParent, At, Goto, RPC, Preemptible, local
  <2>. QED BY Zenon, <1>9, <2>1, <2>2, <2>3, <2>4 DEF ForkParent, At, Goto, table, local
<1>10. CASE ForkRun(c)
  <2>1. cproc[c] \in Slot
    BY Zenon, <1>10, HasProc DEF ForkRun, At
  <2>2. state' \in [Slot -> PState]
    BY Zenon, <1>10, <2>1, Ranges DEF ForkRun, At, Goto, PState
  <2>3. kpc' \in [Slot -> KPC \cup {"zombie"}]
    BY Zenon, <1>10, <2>1, Ranges DEF ForkRun, At, Goto, KPC, RPC, Preemptible
  <2>4. \A p \in Slot : kpc'[p] = "wake_init" => i'[p] <= NPROC
    BY Zenon, <1>10, <2>1, Ranges DEF ForkRun, At, Goto, RPC, Preemptible, local
  <2>. QED BY Zenon, <1>10, <2>1, <2>2, <2>3, <2>4 DEF ForkRun, At, Goto, table, local
<1>11. CASE Exit(c)
  <2>1. cproc[c] \in Slot
    BY Zenon, <1>11, HasProc DEF Exit, At
  <2>2. lock' \in [Lock -> CPU \cup {None}]
    BY Zenon, <1>11, <2>1, Ranges DEF Exit, At, Goto, StartLoop
  <2>3. kpc' \in [Slot -> KPC \cup {"zombie"}]
    BY Zenon, <1>11, <2>1, Ranges DEF Exit, At, Goto, StartLoop, KPC, RPC, Preemptible
  <2>4. i' \in [Slot -> 1..NPROC + 1]
    BY Zenon, <1>11, <2>1, Ranges DEF Exit, At, Goto, StartLoop
  <2>5. \A p \in Slot : kpc'[p] = "wake_init" => i'[p] <= NPROC
    BY Zenon, <1>11, <2>1, Ranges DEF Exit, At, Goto, StartLoop, RPC, Preemptible, local
  <2>. QED BY Zenon, <1>11, <2>1, <2>2, <2>3, <2>4, <2>5 DEF Exit, At, Goto, StartLoop, table, local
<1>12. CASE Reparent(c)
  <2>1. cproc[c] \in Slot
    BY Zenon, <1>12, HasProc DEF Reparent, At
  <2>2. kpc' \in [Slot -> KPC \cup {"zombie"}]
    BY SMTT(30), <1>12, <2>1, Ranges DEF Reparent, At, Goto, KPC, RPC, Preemptible
  <2>3. parent' \in [Slot -> 0..NPROC]
    BY <1>12, <2>1, Ranges DEF Reparent, At, Goto
  <2>4. i' \in [Slot -> 1..NPROC + 1]
    BY <1>12, <2>1, Ranges DEF Reparent, At, Goto
  <2>5. j' \in [Slot -> 1..NPROC + 1]
    BY Zenon, <1>12, <2>1, Ranges DEF Reparent, At, Goto
  <2>6. \A p \in Slot : kpc'[p] = "wake_init" => i'[p] <= NPROC
    BY ZenonT(30), <1>12, <2>1, Ranges DEF Reparent, At, Goto, RPC, Preemptible, local
  <2>. QED BY Zenon, <1>12, <2>1, <2>2, <2>3, <2>4, <2>5, <2>6 DEF Reparent, At, Goto, table, local
<1>13. CASE WakeInit(c)
  <2>1. cproc[c] \in Slot
    BY Zenon, <1>13, HasProc DEF WakeInit, At
  <2>2. state' \in [Slot -> PState]
    BY <1>13, <2>1, Ranges DEF WakeInit, At, Goto, WakeupStep, PState
  <2>3. j' \in [Slot -> 1..NPROC + 1]
    BY <1>13, <2>1, Ranges DEF WakeInit, At, Goto, WakeupStep
  <2>4. kpc' \in [Slot -> KPC \cup {"zombie"}]
    BY <1>13, <2>1, Ranges DEF WakeInit, At, Goto, WakeupStep, KPC, RPC, Preemptible
  <2>5. i' \in [Slot -> 1..NPROC + 1]
    BY <1>13, <2>1, Ranges DEF WakeInit, At, Goto, WakeupStep
  <2>6. \A p \in Slot : kpc'[p] = "wake_init" => i'[p] <= NPROC
    BY ZenonT(30), <1>13, <2>1, Ranges DEF WakeInit, At, Goto, WakeupStep, RPC, Preemptible, local
  <2>. QED BY Zenon, <1>13, <2>1, <2>2, <2>3, <2>4, <2>5, <2>6 DEF WakeInit, At, Goto, WakeupStep, table, local
<1>14. CASE WakeParent(c)
  <2>1. cproc[c] \in Slot
    BY Zenon, <1>14, HasProc DEF WakeParent, At
  <2>2. state' \in [Slot -> PState]
    BY <1>14, <2>1, Ranges DEF WakeParent, At, Goto, WakeupStep, PState
  <2>3. j' \in [Slot -> 1..NPROC + 1]
    BY <1>14, <2>1, Ranges DEF WakeParent, At, Goto, WakeupStep
  <2>4. kpc' \in [Slot -> KPC \cup {"zombie"}]
    BY <1>14, <2>1, Ranges DEF WakeParent, At, Goto, WakeupStep, KPC, RPC, Preemptible
  <2>5. \A p \in Slot : kpc'[p] = "wake_init" => i'[p] <= NPROC
    BY Zenon, <1>14, <2>1, Ranges DEF WakeParent, At, Goto, WakeupStep, RPC, Preemptible, local
  <2>. QED BY Zenon, <1>14, <2>1, <2>2, <2>3, <2>4, <2>5 DEF WakeParent, At, Goto, WakeupStep, table, local
<1>15. CASE ExitLock(c)
  <2>1. cproc[c] \in Slot
    BY Zenon, <1>15, HasProc DEF ExitLock, At
  <2>2. lock' \in [Lock -> CPU \cup {None}]
    BY Zenon, <1>15, <2>1, Ranges DEF ExitLock, At, Goto
  <2>3. kpc' \in [Slot -> KPC \cup {"zombie"}]
    BY Zenon, <1>15, <2>1, Ranges DEF ExitLock, At, Goto, KPC, RPC, Preemptible
  <2>4. \A p \in Slot : kpc'[p] = "wake_init" => i'[p] <= NPROC
    BY Zenon, <1>15, <2>1, Ranges DEF ExitLock, At, Goto, RPC, Preemptible, local
  <2>. QED BY Zenon, <1>15, <2>1, <2>2, <2>3, <2>4 DEF ExitLock, At, Goto, table, local
<1>16. CASE ExitZombie(c)
  <2>1. cproc[c] \in Slot
    BY Zenon, <1>16, HasProc DEF ExitZombie, At
  <2>2. state' \in [Slot -> PState]
    BY Zenon, <1>16, <2>1, Ranges DEF ExitZombie, At, Goto, PState
  <2>3. lock' \in [Lock -> CPU \cup {None}]
    BY Zenon, <1>16, <2>1, Ranges DEF ExitZombie, At, Goto
  <2>4. kpc' \in [Slot -> KPC \cup {"zombie"}]
    BY Zenon, <1>16, <2>1, Ranges DEF ExitZombie, At, Goto, KPC, RPC, Preemptible
  <2>5. rpc' \in [Slot -> RPC]
    BY Zenon, <1>16, <2>1, Ranges DEF ExitZombie, At, Goto, RPC, Preemptible
  <2>6. \A p \in Slot : kpc'[p] = "wake_init" => i'[p] <= NPROC
    BY Zenon, <1>16, <2>1, Ranges DEF ExitZombie, At, Goto, RPC, Preemptible, local
  <2>. QED BY Zenon, <1>16, <2>1, <2>2, <2>3, <2>4, <2>5, <2>6 DEF ExitZombie, At, Goto, table, local
<1>17. CASE Wait(c)
  <2>1. cproc[c] \in Slot
    BY Zenon, <1>17, HasProc DEF Wait, At
  <2>2. lock' \in [Lock -> CPU \cup {None}]
    BY Zenon, <1>17, <2>1, Ranges DEF Wait, At, Goto, StartLoop
  <2>3. kpc' \in [Slot -> KPC \cup {"zombie"}]
    BY Zenon, <1>17, <2>1, Ranges DEF Wait, At, Goto, StartLoop, KPC, RPC, Preemptible
  <2>4. i' \in [Slot -> 1..NPROC + 1]
    BY Zenon, <1>17, <2>1, Ranges DEF Wait, At, Goto, StartLoop
  <2>5. \A p \in Slot : kpc'[p] = "wake_init" => i'[p] <= NPROC
    BY Zenon, <1>17, <2>1, Ranges DEF Wait, At, Goto, StartLoop, RPC, Preemptible, local
  <2>. QED BY Zenon, <1>17, <2>1, <2>2, <2>3, <2>4, <2>5 DEF Wait, At, Goto, StartLoop, table, local
<1>18. CASE WaitScan(c)
  <2>1. cproc[c] \in Slot
    BY Zenon, <1>18, HasProc DEF WaitScan, At
  <2>2. kpc' \in [Slot -> KPC \cup {"zombie"}]
    BY <1>18, <2>1, Ranges DEF WaitScan, At, Goto, FreeProc, table, KPC, RPC, Preemptible
  <2>3. state' \in [Slot -> PState]
    BY Zenon, <1>18, <2>1, Ranges DEF WaitScan, At, Goto, FreeProc, table, PState
  <2>4. chan' \in [Slot -> 0..NPROC]
    BY <1>18, <2>1, Ranges DEF WaitScan, At, Goto, FreeProc, table
  <2>5. killed' \in [Slot -> BOOLEAN]
    BY Zenon, <1>18, <2>1, Ranges DEF WaitScan, At, Goto, FreeProc, table
  <2>6. pid' \in [Slot -> Nat]
    BY <1>18, <2>1, Ranges DEF WaitScan, At, Goto, FreeProc, table
  <2>7. parent' \in [Slot -> 0..NPROC]
    BY <1>18, <2>1, Ranges DEF WaitScan, At, Goto, FreeProc, table
  <2>8. nextpid' \in Nat
    BY Zenon, <1>18, <2>1, Ranges DEF WaitScan, At, Goto, FreeProc, table
  <2>9. lock' \in [Lock -> CPU \cup {None}]
    BY Zenon, <1>18, <2>1, Ranges DEF WaitScan, At, Goto, FreeProc, table
  <2>10. i' \in [Slot -> 1..NPROC + 1]
    BY <1>18, <2>1, Ranges DEF WaitScan, At, Goto, FreeProc, table
  <2>11. \A p \in Slot : kpc'[p] = "wake_init" => i'[p] <= NPROC
    BY ZenonT(30), <1>18, <2>1, Ranges DEF WaitScan, At, Goto, FreeProc, table, RPC, Preemptible, local
  <2>. QED BY Zenon, <1>18, <2>1, <2>2, <2>3, <2>4, <2>5, <2>6, <2>7, <2>8, <2>9, <2>10, <2>11 DEF WaitScan, At, Goto, FreeProc, table, local
<1>19. CASE WaitEnd(c)
  <2>1. cproc[c] \in Slot
    BY Zenon, <1>19, HasProc DEF WaitEnd, At
  <2>2. lock' \in [Lock -> CPU \cup {None}]
    BY Zenon, <1>19, <2>1, Ranges DEF WaitEnd, At, Goto
  <2>3. kpc' \in [Slot -> KPC \cup {"zombie"}]
    BY <1>19, <2>1, Ranges DEF WaitEnd, At, Goto, KPC, RPC, Preemptible
  <2>4. \A p \in Slot : kpc'[p] = "wake_init" => i'[p] <= NPROC
    BY <1>19, <2>1, Ranges DEF WaitEnd, At, Goto, RPC, Preemptible, local
  <2>. QED BY <1>19, <2>1, <2>2, <2>3, <2>4 DEF WaitEnd, At, Goto, table, local
<1>20. CASE Sleep(c)
  <2>1. cproc[c] \in Slot
    BY Zenon, <1>20, HasProc DEF Sleep, At
  <2>2. lock' \in [Lock -> CPU \cup {None}]
    BY Zenon, <1>20, <2>1, Ranges DEF Sleep, At, Goto
  <2>3. kpc' \in [Slot -> KPC \cup {"zombie"}]
    BY Zenon, <1>20, <2>1, Ranges DEF Sleep, At, Goto, KPC, RPC, Preemptible
  <2>4. \A p \in Slot : kpc'[p] = "wake_init" => i'[p] <= NPROC
    BY Zenon, <1>20, <2>1, Ranges DEF Sleep, At, Goto, RPC, Preemptible, local
  <2>. QED BY Zenon, <1>20, <2>1, <2>2, <2>3, <2>4 DEF Sleep, At, Goto, table, local
<1>21. CASE SleepChan(c)
  <2>1. cproc[c] \in Slot
    BY Zenon, <1>21, HasProc DEF SleepChan, At
  <2>2. lock' \in [Lock -> CPU \cup {None}]
    BY Zenon, <1>21, <2>1, Ranges DEF SleepChan, At, Goto
  <2>3. chan' \in [Slot -> 0..NPROC]
    BY Zenon, <1>21, <2>1, Ranges DEF SleepChan, At, Goto
  <2>4. state' \in [Slot -> PState]
    BY Zenon, <1>21, <2>1, Ranges DEF SleepChan, At, Goto, PState
  <2>5. kpc' \in [Slot -> KPC \cup {"zombie"}]
    BY Zenon, <1>21, <2>1, Ranges DEF SleepChan, At, Goto, KPC, RPC, Preemptible
  <2>6. rpc' \in [Slot -> RPC]
    BY Zenon, <1>21, <2>1, Ranges DEF SleepChan, At, Goto, RPC, Preemptible
  <2>7. \A p \in Slot : kpc'[p] = "wake_init" => i'[p] <= NPROC
    BY Zenon, <1>21, <2>1, Ranges DEF SleepChan, At, Goto, RPC, Preemptible, local
  <2>. QED BY Zenon, <1>21, <2>1, <2>2, <2>3, <2>4, <2>5, <2>6, <2>7 DEF SleepChan, At, Goto, table, local
<1>22. CASE Kill(c)
  <2>1. cproc[c] \in Slot
    BY Zenon, <1>22, HasProc DEF Kill, At
  <2>2. killed' \in [Slot -> BOOLEAN]
    BY Zenon, <1>22, <2>1, Ranges DEF Kill, At, Goto
  <2>3. state' \in [Slot -> PState]
    BY <1>22, <2>1, Ranges DEF Kill, At, Goto, PState
  <2>4. kpc' \in [Slot -> KPC \cup {"zombie"}]
    BY <1>22, <2>1, Ranges DEF Kill, At, Goto, KPC, RPC, Preemptible
  <2>5. i' \in [Slot -> 1..NPROC + 1]
    BY <1>22, <2>1, Ranges DEF Kill, At, Goto
  <2>6. \A p \in Slot : kpc'[p] = "wake_init" => i'[p] <= NPROC
    BY Zenon, <1>22, <2>1, Ranges DEF Kill, At, Goto, RPC, Preemptible, local
  <2>. QED BY Zenon, <1>22, <2>1, <2>2, <2>3, <2>4, <2>5, <2>6 DEF Kill, At, Goto, table, local
<1>23. CASE Preempt(c)
  <2>1. cproc[c] \in Slot
    BY Zenon, <1>23, HasProc DEF Preempt, At
  <2>2. lock' \in [Lock -> CPU \cup {None}]
    BY <1>23, <2>1, Ranges DEF Preempt, At, Goto, YieldTo
  <2>3. state' \in [Slot -> PState]
    BY ZenonT(30), <1>23, <2>1, Ranges DEF Preempt, At, Goto, YieldTo, PState
  <2>4. kpc' \in [Slot -> KPC \cup {"zombie"}]
    BY <1>23, <2>1, Ranges DEF Preempt, At, Goto, YieldTo, KPC, RPC, Preemptible
  <2>5. rpc' \in [Slot -> RPC]
    BY Zenon, <1>23, <2>1, Ranges DEF Preempt, At, Goto, YieldTo, RPC, Preemptible
  <2>6. \A p \in Slot : kpc'[p] = "wake_init" => i'[p] <= NPROC
    BY <1>23, <2>1, Ranges DEF Preempt, At, Goto, YieldTo, RPC, Preemptible, local
  <2>. QED BY <1>23, <2>1, <2>2, <2>3, <2>4, <2>5, <2>6 DEF Preempt, At, Goto, YieldTo, table, local
<1>24. CASE Timer(c)
  <2>1. cproc[c] \in Slot
    BY Zenon, <1>24, HasProc DEF Timer, At
  <2>2. kpc' \in [Slot -> KPC \cup {"zombie"}]
    BY <1>24, <2>1, Ranges DEF Timer, At, Goto, YieldTo, table, local, KPC, RPC, Preemptible
  <2>3. lock' \in [Lock -> CPU \cup {None}]
    BY <1>24, <2>1, Ranges DEF Timer, At, Goto, YieldTo, table, local
  <2>4. state' \in [Slot -> PState]
    BY ZenonT(30), <1>24, <2>1, Ranges DEF Timer, At, Goto, YieldTo, table, local, PState
  <2>5. rpc' \in [Slot -> RPC]
    BY Zenon, <1>24, <2>1, Ranges DEF Timer, At, Goto, YieldTo, table, local, RPC, Preemptible
  <2>6. \A p \in Slot : kpc'[p] = "wake_init" => i'[p] <= NPROC
    BY <1>24, <2>1, Ranges DEF Timer, At, Goto, YieldTo, table, local, RPC, Preemptible
  <2>. QED BY <1>24, <2>1, <2>2, <2>3, <2>4, <2>5, <2>6 DEF Timer, At, Goto, YieldTo, table, local
<1>25. CASE Syscall(c)
  <2>1. cproc[c] \in Slot
    BY Zenon, <1>25, HasProc DEF Syscall, At
  <2>2. kpc' \in [Slot -> KPC \cup {"zombie"}]
    BY <1>25, <2>1, Ranges DEF Syscall, At, Goto, StartLoop, KPC, RPC, Preemptible
  <2>3. target' \in [Slot -> Nat]
    BY ZenonT(30), <1>25, <2>1, ProcAssumption DEF Syscall, At, Goto, StartLoop
  <2>4. i' \in [Slot -> 1..NPROC + 1]
    BY Zenon, <1>25, <2>1, Ranges DEF Syscall, At, Goto, StartLoop
  <2>5. \A p \in Slot : kpc'[p] = "wake_init" => i'[p] <= NPROC
    BY <1>25, <2>1, Ranges DEF Syscall, At, Goto, StartLoop, RPC, Preemptible, local
  <2>. QED BY <1>25, <2>1, <2>2, <2>3, <2>4, <2>5 DEF Syscall, At, Goto, StartLoop, table, local
<1>. QED BY Zenon, <1>1, <1>2, <1>3, <1>4, <1>5, <1>6, <1>7, <1>8, <1>9, <1>10, <1>11, <1>12, <1>13, <1>14, <1>15, <1>16, <1>17, <1>18, <1>19, <1>20, <1>21, <1>22, <1>23, <1>24, <1>25 DEF Steps, SchedSteps, ExitSteps, TrapSteps

-----------------------------------------------------------------------------
(* The kernel stacks.                                                      *)

\* Where a process is, or will be when its swtch returns.
Pos(p) == IF kpc[p] \in {"sched", "resume"} THEN rpc[p] ELSE kpc[p]
Forking(p) == Pos(p) \in {"fork_copy", "fork_parent", "fork_run"}
OffCpu == {"RUNNABLE", "SLEEPING", "ZOMBIE"}

\* No two CPUs have the same process.
Apart ==
  \A c, d \in CPU : c # d /\ sp[c] # "scan" /\ sp[d] # "scan" => cproc[c] # cproc[d]

\* The scheduler that was just switched to holds the lock of its process.
BackAt(c) == sp[c] = "back" =>
  /\ lock[cproc[c]] = c
  /\ kpc[cproc[c]] = "resume"
  /\ state[cproc[c]] \in OffCpu

\* A CPU in a process: RUNNING, or about to switch away with p->lock held.
ExecAt(c) == sp[c] = "proc" =>
  /\ kpc[cproc[c]] = "sched" => state[cproc[c]] \in OffCpu
  /\ kpc[cproc[c]] # "sched" => state[cproc[c]] = "RUNNING"
  /\ kpc[cproc[c]] \in {"sched", "resume", "exit_zombie", "sleep_chan"} => lock[cproc[c]] = c
  /\ kpc[cproc[c]] = "fork_copy" => lock[i[cproc[c]]] = c

BackInv == \A c \in CPU : BackAt(c)
ExecInv == \A c \in CPU : ExecAt(c)

\* A process that can be switched to has its context saved, unless it is just
\* about to save it.
SavedInv ==
  \A s \in Slot : state[s] \in {"USED", "RUNNABLE", "SLEEPING"} =>
    \/ kpc[s] = "resume"
    \/ kpc[s] = "sched" /\ \E c \in CPU : sp[c] = "proc" /\ cproc[c] = s

\* fork owns the slot it fills in.
ForkInv ==
  /\ \A p \in Slot : Pos(p) = "alloc" => i[p] \in Slot
  /\ \A p \in Slot : Forking(p) => i[p] \in Slot /\ state[i[p]] = "USED"
  /\ \A p, q \in Slot : Forking(p) /\ Forking(q) /\ p # q => i[p] # i[q]

StackInv == TypeInv /\ Apart /\ BackInv /\ ExecInv /\ SavedInv /\ ForkInv

-----------------------------------------------------------------------------
\* Nothing is executed, and nothing forks, at boot.
LEMMA InitStack == Init => StackInv
  BY ZenonT(30), InitType, ProcAssumption DEF Init, StackInv, Apart, BackInv, ExecInv, BackAt, ExecAt, SavedInv, ForkInv, Forking, Pos

\* The slot of an executing process is in use,
LEMMA InUse ==
  ASSUME StackInv, NEW b \in CPU, sp[b] # "scan"
  PROVE  cproc[b] \in Slot /\ state[cproc[b]] \in {"RUNNING"} \cup OffCpu
  BY HasProc DEF StackInv, TypeInv, TypeOK, BackInv, ExecInv, BackAt, ExecAt

\* and if nobody holds its lock, it is RUNNING and not about to switch away.
LEMMA FreeRuns ==
  ASSUME StackInv, NEW b \in CPU, sp[b] # "scan", lock[cproc[b]] = None
  PROVE  sp[b] = "proc" /\ state[cproc[b]] = "RUNNING" /\ kpc[cproc[b]] # "sched"
  BY ProcAssumption DEF StackInv, TypeInv, TypeOK, BackInv, ExecInv, BackAt, ExecAt

\* A CPU keeps the slot locks it holds when another takes a free lock, or gives
\* back a lock that is not a slot's or is its own.
LEMMA LockKept ==
  ASSUME TypeOK, NEW b \in CPU, NEW l \in Slot, lock[l] = b,
         \/ lock' = lock
         \/ lock' = [lock EXCEPT ![WaitLock] = None]
         \/ \E k \in Lock : \E v : lock[k] # b /\ lock' = [lock EXCEPT ![k] = v]
  PROVE  lock'[l] = b
  BY Zenon, Ranges DEF TypeOK

\* A RUNNABLE process whose lock is free is not executing and is saved.
LEMMA Switchable ==
  ASSUME StackInv, NEW s \in Slot, state[s] = "RUNNABLE", lock[s] = None
  PROVE  /\ kpc[s] = "resume"
         /\ \A b \in CPU : sp[b] # "scan" => cproc[b] # s
<1>1. \A b \in CPU : sp[b] # "scan" => cproc[b] # s
  BY SMTT(30), FreeRuns
<1>. QED BY Zenon, <1>1 DEF StackInv, SavedInv

\* A step of CPU c's process p in which nothing moves but p itself: only its
\* thread, its own locks, and of the other slots only a sleeper that is woken,
\* a zombie that is freed or the slot that p's fork was filling in.
Own(c) ==
  LET p == cproc[c] IN
  /\ sp[c] = "proc" /\ sp' = sp /\ cproc' = cproc
  /\ \A s \in Slot : s # p => kpc'[s] = kpc[s] /\ rpc'[s] = rpc[s] /\ i'[s] = i[s]
  /\ \A l \in Slot : lock[l] \notin {c, None} => lock'[l] = lock[l]
  /\ \A s \in Slot : s # p =>
       \/ state'[s] = state[s]
       \/ state[s] = "SLEEPING" /\ state'[s] = "RUNNABLE"
       \/ state[s] = "ZOMBIE" /\ state'[s] = "UNUSED" /\ \A b \in CPU : sp[b] # "scan" => cproc[b] # s
       \/ state[s] = "USED" /\ state'[s] \in {"UNUSED", "RUNNABLE"} /\ s = i[p] /\ Forking(p) /\ ~Forking(p)'
  /\ ExecAt(c)'
  /\ Pos(p)' = "alloc" => i'[p] \in Slot
  /\ Forking(p)' => Forking(p) /\ i'[p] = i[p]

\* Such a step keeps StackInv.
LEMMA OwnStep ==
  ASSUME StackInv, TypeInv', NEW c \in CPU, Own(c)
  PROVE  StackInv'
<1>. DEFINE p == cproc[c]
<1>1. p \in Slot /\ sp[c] = "proc" /\ sp' = sp /\ cproc' = cproc
  BY Zenon, HasProc DEF Own, StackInv
<1>2. ASSUME NEW b \in CPU, b # c, sp[b] # "scan"
      PROVE  /\ cproc[b] \in Slot /\ cproc[b] # p
             /\ kpc'[cproc[b]] = kpc[cproc[b]] /\ i'[cproc[b]] = i[cproc[b]]
             /\ \/ state'[cproc[b]] = state[cproc[b]]
                \/ state[cproc[b]] = "SLEEPING" /\ state'[cproc[b]] = "RUNNABLE"
             /\ \A l \in Slot : lock[l] = b => lock'[l] = b
  <2>1. cproc[b] \in Slot /\ cproc[b] # p
    BY Zenon, <1>1, <1>2, HasProc DEF StackInv, Apart
  <2>2. state[cproc[b]] # "USED"
    BY Zenon, <1>2, InUse DEF OffCpu
  <2>3. b # None
    BY Zenon, ProcAssumption
  <2>. QED BY Zenon, <1>2, <2>1, <2>2, <2>3 DEF Own
<1>3. Apart'
  BY Zenon, <1>1 DEF StackInv, Apart
<1>4. BackInv'
  <2>. SUFFICES ASSUME NEW b \in CPU, sp[b] = "back" PROVE BackAt(b)'
    BY <1>1 DEF BackInv, BackAt
  <2>. QED BY <1>1, <1>2 DEF StackInv, BackInv, BackAt, OffCpu
<1>5. ExecInv'
  <2>. SUFFICES ASSUME NEW b \in CPU, b # c, sp[b] = "proc" PROVE ExecAt(b)'
    BY ZenonT(30), <1>1 DEF ExecInv, ExecAt, Own
  <2>1. kpc[cproc[b]] = "fork_copy" => i[cproc[b]] \in Slot
    BY <1>2 DEF StackInv, ForkInv, Forking, Pos
  <2>. QED BY <1>1, <1>2, <2>1 DEF StackInv, ExecInv, ExecAt, OffCpu
<1>6. SavedInv'
  <2>. SUFFICES ASSUME NEW s \in Slot, state'[s] \in {"USED", "RUNNABLE", "SLEEPING"}
                PROVE  \/ kpc'[s] = "resume"
                       \/ kpc'[s] = "sched" /\ \E b \in CPU : sp'[b] = "proc" /\ cproc'[b] = s
    BY Zenon DEF SavedInv
  <2>1. CASE s = p
    BY Zenon, <1>1, <2>1 DEF Own, ExecAt
  <2>2. CASE s # p
    BY <1>1, <2>2 DEF Own, StackInv, SavedInv
  <2>. QED BY <2>1, <2>2
<1>7. ForkInv'
  <2>1. \A q \in Slot : Pos(q)' = "alloc" => i'[q] \in Slot
    BY <1>1 DEF Own, StackInv, ForkInv, Pos
  <2>2. \A q \in Slot : Forking(q)' => Forking(q) /\ i'[q] = i[q]
    BY ZenonT(30), <1>1 DEF Own, Forking, Pos
  <2>3. ASSUME NEW q \in Slot, Forking(q)' PROVE i'[q] \in Slot /\ state'[i'[q]] = "USED"
    <3>1. i'[q] = i[q] /\ i[q] \in Slot /\ state[i[q]] = "USED" /\ Forking(q)
      BY Zenon, <2>2, <2>3 DEF StackInv, ForkInv
    <3>2. i[q] # p
      BY Zenon, <1>1, <3>1, InUse DEF OffCpu
    <3>3. q # p => ~(Forking(p) /\ i[p] = i[q])
      BY Zenon, <1>1, <3>1 DEF StackInv, ForkInv
    <3>. QED BY Zenon, <2>3, <3>1, <3>2, <3>3 DEF Own
  <2>. QED BY Zenon, <2>1, <2>2, <2>3 DEF StackInv, ForkInv
<1>. QED BY Zenon, <1>3, <1>4, <1>5, <1>6, <1>7 DEF StackInv

\* The scheduler, the way into it and the start of a fork keep StackInv: the
\* steps in which a CPU changes hands or a second slot is set up.
LEMMA StackSched ==
  ASSUME StackInv, NEW c \in CPU, Scan(c) \/ Back(c) \/ Sched(c) \/ AllocProc(c)
  PROVE  StackInv'
<1>. USE DEF StackInv, TypeInv, TypeOK, sched_vars, local, table
<1>0. TypeInv'
  BY Zenon, TypeStep DEF Steps, SchedSteps
<1>1. CASE Scan(c)
  <2>1. Apart'
    BY <1>1, Ranges, Switchable DEF Scan, Free, Apart
  <2>2. BackInv'
    BY SMTT(30), <1>1, Ranges, Switchable DEF Scan, Free, BackInv, BackAt, OffCpu
  <2>3. ExecInv'
    <3>1. CASE state[idx[c]] = "RUNNABLE"
      <4>1. kpc[idx[c]] = "resume" /\ \A b \in CPU : sp[b] # "scan" => cproc[b] # idx[c]
        BY Zenon, <1>1, <3>1, Ranges, Switchable DEF Scan, Free
      <4>2. \A b \in CPU : \A l \in Slot : lock[l] = b => lock'[l] = b
        <5>1. lock[idx[c]] = None /\ lock' = [lock EXCEPT ![idx[c]] = c] /\ idx[c] \in Lock
          BY Zenon, <1>1, <3>1, Ranges DEF Scan, Free
        <5>2. \A b \in CPU : b # None
          BY Zenon, ProcAssumption
        <5>3. ASSUME NEW b \in CPU, NEW l \in Slot, lock[l] = b PROVE lock'[l] = b
          <6>1. \E k \in Lock : \E v : lock[k] # b /\ lock' = [lock EXCEPT ![k] = v]
            BY Zenon, <5>1, <5>2
          <6>. QED BY Zenon, <5>3, <6>1, LockKept
        <5>. QED BY Zenon, <5>3
      <4>3. ExecAt(c)'
        <5>1. cproc'[c] = idx[c] /\ kpc' = kpc
          BY Zenon, <1>1, <3>1 DEF Scan
        <5>2. idx[c] \in Slot /\ idx[c] \in Lock
          BY Zenon, Ranges
        <5>3. state'[idx[c]] = "RUNNING" /\ lock'[idx[c]] = c
          BY Zenon, <1>1, <3>1, <5>2 DEF Scan
        <5>. QED BY Zenon, <4>1, <5>1, <5>3 DEF ExecAt
      <4>4. ASSUME NEW b \in CPU, b # c PROVE ExecAt(b)'
        <5>1. sp'[b] = sp[b] /\ cproc'[b] = cproc[b] /\ kpc' = kpc /\ i' = i
          BY Zenon, <1>1, <3>1, <4>4 DEF Scan
        <5>2. ASSUME sp[b] = "proc" PROVE cproc[b] \in Slot /\ state'[cproc[b]] = state[cproc[b]]
          <6>1. cproc[b] \in Slot /\ cproc[b] # idx[c]
            BY Zenon, <4>1, <5>2, HasProc
          <6>. QED BY Zenon, <1>1, <3>1, <6>1 DEF Scan
        <5>3. ASSUME sp[b] = "proc", kpc[cproc[b]] = "fork_copy" PROVE i[cproc[b]] \in Slot
          BY Zenon, <5>2, <5>3 DEF ForkInv, Forking, Pos
        <5>4. ExecAt(b)
          BY Zenon DEF ExecInv
        <5>5. CASE sp[b] = "proc"
          <6>1. kpc'[cproc'[b]] = kpc[cproc[b]] /\ state'[cproc'[b]] = state[cproc[b]] /\ i'[cproc'[b]] = i[cproc[b]]
            BY Zenon, <5>1, <5>2, <5>5
          <6>2. lock[cproc[b]] = b => lock'[cproc'[b]] = b
            BY Zenon, <4>2, <5>1, <5>2, <5>5
          <6>3. kpc[cproc[b]] = "fork_copy" /\ lock[i[cproc[b]]] = b => lock'[i'[cproc'[b]]] = b
            BY Zenon, <4>2, <5>3, <5>5, <6>1
          <6>. QED BY Zenon, <5>4, <5>5, <6>1, <6>2, <6>3 DEF ExecAt
        <5>. QED BY Zenon, <5>1, <5>5 DEF ExecAt
      <4>. QED BY <4>3, <4>4 DEF ExecInv
    <3>2. CASE state[idx[c]] # "RUNNABLE"
      BY Zenon, <1>1, <3>2 DEF Scan, ExecInv, ExecAt
    <3>. QED BY Zenon, <3>1, <3>2
  <2>4. SavedInv'
    BY <1>1, Ranges DEF Scan, Free, SavedInv, ExecInv, ExecAt
  <2>5. ForkInv'
    BY <1>1, Ranges DEF Scan, Free, ForkInv, Forking, Pos
  <2>. QED BY <1>0, <2>1, <2>2, <2>3, <2>4, <2>5
<1>2. CASE Back(c)
  <2>1. cproc[c] \in Slot
    BY Zenon, <1>2, HasProc DEF Back
  <2>2. Apart'
    BY Zenon, <1>2, <2>1, Ranges DEF Back, Free, Apart
  <2>3. BackInv'
    BY <1>2, <2>1, Ranges DEF Back, Free, BackInv, BackAt, OffCpu
  <2>4. ExecInv'
    BY <1>2, <2>1, Ranges DEF Back, Free, ExecInv, ExecAt, BackInv, BackAt, OffCpu
  <2>5. SavedInv'
    BY Zenon, <1>2, <2>1, Ranges DEF Back, Free, SavedInv, ExecInv, ExecAt
  <2>6. ForkInv'
    BY SMTT(30), <1>2, <2>1, Ranges DEF Back, Free, ForkInv, Forking, Pos
  <2>. QED BY <1>0, <2>1, <2>2, <2>3, <2>4, <2>5, <2>6
<1>4. CASE Sched(c)
  <2>1. cproc[c] \in Slot
    BY Zenon, <1>4, HasProc DEF Sched, At
  <2>2. Apart'
    BY Zenon, <1>4, <2>1, Ranges DEF Sched, At, Goto, Free, Apart
  <2>3. BackInv'
    <3>. SUFFICES ASSUME NEW b \in CPU PROVE BackAt(b)'
      BY Zenon DEF BackInv
    <3>1. CASE b = c
      BY Zenon, <1>4, <3>1, <2>1, Ranges DEF Sched, At, Goto, Free, BackInv, BackAt, ExecInv, ExecAt, OffCpu
    <3>2. CASE b # c
      BY SMTT(30), <1>4, <3>2, <2>1, Ranges, ProcAssumption, HasProc DEF Sched, At, Goto, Free, Apart, BackInv, BackAt, ExecInv, ExecAt, OffCpu
    <3>. QED BY <3>1, <3>2
  <2>4. ExecInv'
    BY <1>4, <2>1, Ranges DEF Sched, At, Goto, Free, ExecInv, ExecAt, BackInv, BackAt, OffCpu
  <2>5. SavedInv'
    BY <1>4, <2>1, Ranges DEF Sched, At, Goto, Free, SavedInv, ExecInv, ExecAt
  <2>6. ForkInv'
    BY <1>4, <2>1, Ranges DEF Sched, At, Goto, Free, ForkInv, Forking, Pos
  <2>. QED BY <1>0, <2>1, <2>2, <2>3, <2>4, <2>5, <2>6
<1>6. CASE AllocProc(c)
  <2>1. cproc[c] \in Slot
    BY Zenon, <1>6, HasProc DEF AllocProc, At
  <2>2. Apart'
    BY Zenon, <1>6, <2>1, Ranges DEF AllocProc, At, Goto, Free, Apart
  <2>3. BackInv'
    BY SMTT(30), <1>6, <2>1, Ranges DEF AllocProc, At, Goto, Free, BackInv, BackAt, OffCpu
  <2>4. ExecInv'
    <3>1. CASE state[i[cproc[c]]] = "UNUSED"
      <4>1. i[cproc[c]] \in Slot /\ i[cproc[c]] # cproc[c]
        BY Zenon, <1>6, <2>1, <3>1 DEF AllocProc, At, ForkInv, Pos, ExecInv, ExecAt
      <4>2. \A b \in CPU : sp[b] # "scan" => cproc[b] \in Slot /\ cproc[b] # i[cproc[c]]
        BY Zenon, <3>1, InUse DEF OffCpu
      <4>3. \A b \in CPU : b # c /\ sp[b] # "scan" => cproc[b] # cproc[c]
        BY Zenon, <1>6 DEF AllocProc, At, Apart
      <4>4. \A b \in CPU : \A l \in Slot : lock[l] = b => lock'[l] = b
        <5>1. lock[i[cproc[c]]] = None /\ lock' = [lock EXCEPT ![i[cproc[c]]] = c]
          BY <1>6, <3>1 DEF AllocProc, Free
        <5>. QED BY SMTT(30), <4>1, <5>1, LockKept, ProcAssumption, Ranges
      <4>5. lock'[i[cproc[c]]] = c
        BY ZenonT(30), <1>6, <3>1, <4>1, Ranges DEF AllocProc
      <4>6. sp' = sp /\ cproc' = cproc /\ i' = i
        BY Zenon, <1>6, <3>1 DEF AllocProc
      <4>7. /\ state' = [state EXCEPT ![i[cproc[c]]] = "USED"]
            /\ kpc' = [kpc EXCEPT ![cproc[c]] = "fork_copy", ![i[cproc[c]]] = "resume"]
        BY Zenon, <1>6, <3>1 DEF AllocProc
      <4>8. state[cproc[c]] = "RUNNING"
        BY Zenon, <1>6 DEF AllocProc, At, ExecInv, ExecAt
      <4>9. kpc'[cproc[c]] = "fork_copy" /\ state'[cproc[c]] = "RUNNING"
        BY Zenon, <2>1, <4>1, <4>7, <4>8
      <4>10. ExecAt(c)'
        BY Zenon, <4>5, <4>6, <4>9 DEF ExecAt
      <4>11. ASSUME NEW b \in CPU, b # c PROVE ExecAt(b)'
        <5>1. ASSUME sp[b] = "proc"
              PROVE  /\ cproc[b] \in Slot
                     /\ state'[cproc[b]] = state[cproc[b]] /\ kpc'[cproc[b]] = kpc[cproc[b]]
          <6>1. cproc[b] \in Slot /\ cproc[b] # i[cproc[c]] /\ cproc[b] # cproc[c]
            BY Zenon, <4>2, <4>3, <4>11, <5>1
          <6>. QED BY Zenon, <4>7, <6>1
        <5>2. ASSUME sp[b] = "proc", kpc[cproc[b]] = "fork_copy" PROVE i[cproc[b]] \in Slot
          BY Zenon, <5>1, <5>2 DEF ForkInv, Forking, Pos
        <5>3. ExecAt(b)
          BY Zenon DEF ExecInv
        <5>. QED BY Zenon, <4>4, <4>6, <5>1, <5>2, <5>3 DEF ExecAt
      <4>. QED BY Zenon, <4>10, <4>11 DEF ExecInv
    <3>2. CASE state[i[cproc[c]]] # "UNUSED"
      <4>1. sp' = sp /\ cproc' = cproc /\ state' = state /\ lock' = lock
        BY Zenon, <1>6, <3>2 DEF AllocProc
      <4>2. kpc'[cproc[c]] \in {"alloc", "trapret"} /\ state[cproc[c]] = "RUNNING"
        BY Zenon, <1>6, <2>1, <3>2 DEF AllocProc, At, Goto, ExecInv, ExecAt
      <4>3. \A q \in Slot : q # cproc[c] => kpc'[q] = kpc[q] /\ i'[q] = i[q]
        BY Zenon, <1>6, <2>1, <3>2 DEF AllocProc, At, Goto
      <4>4. ExecAt(c)'
        BY Zenon, <4>1, <4>2 DEF ExecAt
      <4>5. ASSUME NEW b \in CPU, b # c PROVE ExecAt(b)'
        <5>1. sp[b] = "proc" => cproc[b] \in Slot /\ cproc[b] # cproc[c]
          BY Zenon, <1>6, <4>5, HasProc DEF AllocProc, At, Apart
        <5>2. ExecAt(b)
          BY Zenon DEF ExecInv
        <5>. QED BY Zenon, <4>1, <4>3, <5>1, <5>2 DEF ExecAt
      <4>. QED BY Zenon, <4>4, <4>5 DEF ExecInv
    <3>. QED BY Zenon, <3>1, <3>2
  <2>5. SavedInv'
    BY SMTT(30), <1>6, <2>1, Ranges DEF AllocProc, At, Goto, Free, SavedInv, ExecInv, ExecAt
  <2>6. ForkInv'
    <3>1. CASE state[i[cproc[c]]] = "UNUSED"
      <4>1. i[cproc[c]] \in Slot /\ i[cproc[c]] # cproc[c]
        BY Zenon, <1>6, <2>1, <3>1 DEF AllocProc, At, ForkInv, Pos, ExecInv, ExecAt
      <4>2. \A q \in Slot : Forking(q)' => q = cproc[c] \/ Forking(q)
        BY SMTT(30), <1>6, <2>1, <3>1, <4>1 DEF AllocProc, At, Forking, Pos
      <4>3. i'[cproc[c]] = i[cproc[c]] /\ state'[i[cproc[c]]] = "USED"
        BY ZenonT(30), <1>6, <3>1, <4>1 DEF AllocProc
      <4>4. \A s \in Slot : state[s] = "USED" => state'[s] = "USED" /\ s # i[cproc[c]]
        BY Zenon, <1>6, <3>1 DEF AllocProc
      <4>5. \A q \in Slot : Pos(q)' = "alloc" => i'[q] \in Slot
        BY SMTT(30), <1>6, <2>1, <3>1, <4>1 DEF AllocProc, At, Pos, ForkInv
      <4>6. i' = i
        BY Zenon, <1>6, <3>1 DEF AllocProc
      <4>. QED BY Zenon, <4>1, <4>2, <4>3, <4>4, <4>5, <4>6 DEF ForkInv
    <3>2. CASE state[i[cproc[c]]] # "UNUSED"
      <4>1. \A q \in Slot : Forking(q)' => Forking(q) /\ i'[q] = i[q]
        BY Zenon, <1>6, <2>1, <3>2 DEF AllocProc, At, Goto, Forking, Pos
      <4>2. \A q \in Slot : Pos(q)' = "alloc" => i'[q] \in Slot
        BY SMTT(60), <1>6, <2>1, <3>2, Ranges DEF AllocProc, At, Goto, Pos, ForkInv
      <4>3. state' = state
        BY Zenon, <1>6, <3>2 DEF AllocProc
      <4>. QED BY Zenon, <4>1, <4>2, <4>3 DEF ForkInv
    <3>. QED BY Zenon, <3>1, <3>2
  <2>. QED BY Zenon, <1>0, <2>1, <2>2, <2>3, <2>4, <2>5, <2>6
<1>. QED BY Zenon, <1>1, <1>2, <1>4, <1>6

\* The way out of sched, and fork past allocproc, are steps of one process.
LEMMA ForkOwn ==
  ASSUME StackInv, NEW c \in CPU, Resume(c) \/ TrapRet(c) \/ ForkCopy(c) \/ ForkFail(c) \/ ForkParent(c) \/ ForkRun(c)
  PROVE  Own(c)
<1>. DEFINE p == cproc[c]
<1>0. TypeOK /\ p \in Slot /\ sp[c] = "proc" /\ ExecAt(c) /\ ForkInv /\ c # None
  BY HasProc, ProcAssumption DEF StackInv, TypeInv, ExecInv, Resume, TrapRet, ForkCopy, ForkFail, ForkParent, ForkRun, At
<1>. USE <1>0, Ranges
<1>1. CASE Resume(c)
  <2>. USE <1>1
  <2>1. ExecAt(c)'
    BY Zenon DEF TypeOK, sched_vars, local, table, Resume, At, Goto, RPC, Preemptible, ExecAt, OffCpu
  <2>2. \A l \in Slot : lock[l] \notin {c, None} => lock'[l] = lock[l]
    BY Zenon DEF TypeOK, sched_vars, local, table, Resume, At, Goto, RPC, Preemptible, ExecAt, ForkInv, Forking, Pos
  <2>3. \A s \in Slot : s # p =>
          state'[s] = state[s] \/ (state[s] = "SLEEPING" /\ state'[s] = "RUNNABLE")
    BY Zenon DEF TypeOK, sched_vars, local, table, Resume, At, Goto, RPC, Preemptible
  <2>4. /\ sp' = sp /\ cproc' = cproc
        /\ \A s \in Slot : s # p => kpc'[s] = kpc[s] /\ rpc'[s] = rpc[s] /\ i'[s] = i[s]
    BY Zenon DEF TypeOK, sched_vars, local, table, Resume, At, Goto, RPC, Preemptible
  <2>5. /\ Pos(p)' = "alloc" => i'[p] \in Slot
        /\ Forking(p)' => Forking(p) /\ i'[p] = i[p]
    BY Zenon DEF TypeOK, sched_vars, local, table, Resume, At, Goto, RPC, Preemptible, ForkInv, Forking, Pos
  <2>. QED BY Zenon, <2>1, <2>2, <2>3, <2>4, <2>5 DEF Own
<1>2. CASE TrapRet(c)
  <2>. USE <1>2
  <2>1. ExecAt(c)'
    BY Zenon DEF TypeOK, sched_vars, local, table, TrapRet, At, Goto, StartLoop, Free, ExecAt, OffCpu
  <2>2. \A l \in Slot : lock[l] \notin {c, None} => lock'[l] = lock[l]
    BY Zenon DEF TypeOK, sched_vars, local, table, TrapRet, At, Goto, StartLoop, Free, ExecAt, ForkInv, Forking, Pos
  <2>3. \A s \in Slot : s # p =>
          state'[s] = state[s] \/ (state[s] = "SLEEPING" /\ state'[s] = "RUNNABLE")
    BY Zenon DEF TypeOK, sched_vars, local, table, TrapRet, At, Goto, StartLoop, Free
  <2>4. /\ sp' = sp /\ cproc' = cproc
        /\ \A s \in Slot : s # p => kpc'[s] = kpc[s] /\ rpc'[s] = rpc[s] /\ i'[s] = i[s]
    BY Zenon DEF TypeOK, sched_vars, local, table, TrapRet, At, Goto, StartLoop, Free
  <2>5. /\ Pos(p)' = "alloc" => i'[p] \in Slot
        /\ Forking(p)' => Forking(p) /\ i'[p] = i[p]
    BY Zenon DEF TypeOK, sched_vars, local, table, TrapRet, At, Goto, StartLoop, Free, ForkInv, Forking, Pos
  <2>. QED BY Zenon, <2>1, <2>2, <2>3, <2>4, <2>5 DEF Own
<1>3. CASE ForkCopy(c)
  <2>. USE <1>3
  <2>1. ExecAt(c)'
    BY Zenon DEF TypeOK, sched_vars, local, table, ForkCopy, At, Goto, ExecAt, OffCpu
  <2>2. \A l \in Slot : lock[l] \notin {c, None} => lock'[l] = lock[l]
    BY Zenon DEF TypeOK, sched_vars, local, table, ForkCopy, At, Goto, ExecAt, ForkInv, Forking, Pos
  <2>3. \A s \in Slot : s # p =>
          state'[s] = state[s] \/ (state[s] = "SLEEPING" /\ state'[s] = "RUNNABLE")
    BY Zenon DEF TypeOK, sched_vars, local, table, ForkCopy, At, Goto
  <2>4. /\ sp' = sp /\ cproc' = cproc
        /\ \A s \in Slot : s # p => kpc'[s] = kpc[s] /\ rpc'[s] = rpc[s] /\ i'[s] = i[s]
    BY Zenon DEF TypeOK, sched_vars, local, table, ForkCopy, At, Goto
  <2>5. /\ Pos(p)' = "alloc" => i'[p] \in Slot
        /\ Forking(p)' => Forking(p) /\ i'[p] = i[p]
    BY Zenon DEF TypeOK, sched_vars, local, table, ForkCopy, At, Goto, ForkInv, Forking, Pos
  <2>. QED BY Zenon, <2>1, <2>2, <2>3, <2>4, <2>5 DEF Own
<1>4. CASE ForkFail(c)
  <2>. USE <1>4
  <2>0. i[p] \in Slot /\ i[p] # p /\ state[i[p]] = "USED" /\ Forking(p) /\ ~Forking(p)'
    <3>1. kpc[p] \in {"fork_copy", "fork_run"} /\ kpc'[p] = "trapret" /\ cproc' = cproc
      BY Zenon DEF TypeOK, ForkFail, At, Goto, sched_vars
    <3>2. Forking(p) /\ ~Forking(p)'
      BY <3>1, Zenon DEF Forking, Pos
    <3>3. i[p] \in Slot /\ state[i[p]] = "USED" /\ state[p] = "RUNNING"
      BY Zenon, <3>1, <3>2 DEF ForkInv, ExecAt
    <3>. QED BY <3>2, <3>3, Zenon
  <2>1. ExecAt(c)'
    BY Zenon, <2>0 DEF TypeOK, sched_vars, local, table, ForkFail, At, Goto, FreeProc, ExecAt, OffCpu
  <2>2. \A l \in Slot : lock[l] \notin {c, None} => lock'[l] = lock[l]
    BY Zenon DEF TypeOK, sched_vars, local, table, ForkFail, At, Goto, FreeProc, ExecAt, ForkInv, Forking, Pos
  <2>3. \A s \in Slot : s # p => state'[s] = state[s]
          \/ (s = i[p] /\ state[s] = "USED" /\ state'[s] \in {"UNUSED", "RUNNABLE"})
    BY Zenon, <2>0 DEF TypeOK, ForkFail, FreeProc
  <2>4. /\ sp' = sp /\ cproc' = cproc
        /\ \A s \in Slot : s # p => kpc'[s] = kpc[s] /\ rpc'[s] = rpc[s] /\ i'[s] = i[s]
    BY Zenon DEF TypeOK, sched_vars, local, table, ForkFail, At, Goto, FreeProc
  <2>5. /\ Pos(p)' = "alloc" => i'[p] \in Slot
        /\ Forking(p)' => Forking(p) /\ i'[p] = i[p]
    BY Zenon DEF TypeOK, sched_vars, local, table, ForkFail, At, Goto, FreeProc, ForkInv, Forking, Pos
  <2>. QED BY Zenon, <2>0, <2>1, <2>2, <2>3, <2>4, <2>5 DEF Own
<1>5. CASE ForkParent(c)
  <2>. USE <1>5
  <2>1. ExecAt(c)'
    BY Zenon DEF TypeOK, sched_vars, local, table, ForkParent, At, Goto, Free, ExecAt, OffCpu
  <2>2. \A l \in Slot : lock[l] \notin {c, None} => lock'[l] = lock[l]
    BY Zenon DEF TypeOK, sched_vars, local, table, ForkParent, At, Goto, Free, ExecAt, ForkInv, Forking, Pos
  <2>3. \A s \in Slot : s # p =>
          state'[s] = state[s] \/ (state[s] = "SLEEPING" /\ state'[s] = "RUNNABLE")
    BY Zenon DEF TypeOK, sched_vars, local, table, ForkParent, At, Goto, Free
  <2>4. /\ sp' = sp /\ cproc' = cproc
        /\ \A s \in Slot : s # p => kpc'[s] = kpc[s] /\ rpc'[s] = rpc[s] /\ i'[s] = i[s]
    BY Zenon DEF TypeOK, sched_vars, local, table, ForkParent, At, Goto, Free
  <2>5. /\ Pos(p)' = "alloc" => i'[p] \in Slot
        /\ Forking(p)' => Forking(p) /\ i'[p] = i[p]
    BY Zenon DEF TypeOK, sched_vars, local, table, ForkParent, At, Goto, Free, ForkInv, Forking, Pos
  <2>. QED BY Zenon, <2>1, <2>2, <2>3, <2>4, <2>5 DEF Own
<1>6. CASE ForkRun(c)
  <2>. USE <1>6
  <2>0. i[p] \in Slot /\ i[p] # p /\ state[i[p]] = "USED" /\ Forking(p) /\ ~Forking(p)'
    <3>1. kpc[p] \in {"fork_copy", "fork_run"} /\ kpc'[p] = "trapret" /\ cproc' = cproc
      BY Zenon DEF TypeOK, ForkRun, At, Goto, sched_vars
    <3>2. Forking(p) /\ ~Forking(p)'
      BY <3>1 DEF Forking, Pos
    <3>3. i[p] \in Slot /\ state[i[p]] = "USED" /\ state[p] = "RUNNING"
      BY Zenon, <3>1, <3>2 DEF ForkInv, ExecAt
    <3>. QED BY <3>2, <3>3, Zenon
  <2>1. ExecAt(c)'
    BY Zenon, <2>0 DEF TypeOK, sched_vars, local, table, ForkRun, At, Goto, Free, ExecAt, OffCpu
  <2>2. \A l \in Slot : lock[l] \notin {c, None} => lock'[l] = lock[l]
    BY Zenon DEF TypeOK, sched_vars, local, table, ForkRun, At, Goto, Free, ExecAt, ForkInv, Forking, Pos
  <2>3. \A s \in Slot : s # p => state'[s] = state[s]
          \/ (s = i[p] /\ state[s] = "USED" /\ state'[s] \in {"UNUSED", "RUNNABLE"})
    BY Zenon, <2>0 DEF TypeOK, ForkRun, FreeProc
  <2>4. /\ sp' = sp /\ cproc' = cproc
        /\ \A s \in Slot : s # p => kpc'[s] = kpc[s] /\ rpc'[s] = rpc[s] /\ i'[s] = i[s]
    BY Zenon DEF TypeOK, sched_vars, local, table, ForkRun, At, Goto, Free
  <2>5. /\ Pos(p)' = "alloc" => i'[p] \in Slot
        /\ Forking(p)' => Forking(p) /\ i'[p] = i[p]
    BY Zenon DEF TypeOK, sched_vars, local, table, ForkRun, At, Goto, Free, ForkInv, Forking, Pos
  <2>. QED BY Zenon, <2>0, <2>1, <2>2, <2>3, <2>4, <2>5 DEF Own
<1>. QED BY <1>1, <1>2, <1>3, <1>4, <1>5, <1>6

\* So are those of exit,
LEMMA ExitOwn ==
  ASSUME StackInv, NEW c \in CPU, Exit(c) \/ Reparent(c) \/ WakeInit(c) \/ WakeParent(c) \/ ExitLock(c) \/ ExitZombie(c)
  PROVE  Own(c)
<1>. DEFINE p == cproc[c]
<1>0. TypeOK /\ p \in Slot /\ sp[c] = "proc" /\ ExecAt(c) /\ ForkInv /\ c # None
  BY HasProc, ProcAssumption DEF StackInv, TypeInv, ExecInv, Exit, Reparent, WakeInit, WakeParent, ExitLock, ExitZombie, At
<1>. USE <1>0, Ranges
<1>1. CASE Exit(c)
  <2>. USE <1>1
  <2>1. ExecAt(c)'
    BY Zenon DEF TypeOK, sched_vars, local, table, Exit, At, Goto, StartLoop, Free, ExecAt, OffCpu
  <2>2. \A l \in Slot : lock[l] \notin {c, None} => lock'[l] = lock[l]
    BY Zenon DEF TypeOK, sched_vars, local, table, Exit, At, Goto, StartLoop, Free, ExecAt, ForkInv, Forking, Pos
  <2>3. \A s \in Slot : s # p =>
          state'[s] = state[s] \/ (state[s] = "SLEEPING" /\ state'[s] = "RUNNABLE")
    BY Zenon DEF TypeOK, sched_vars, local, table, Exit, At, Goto, StartLoop, Free
  <2>4. /\ sp' = sp /\ cproc' = cproc
        /\ \A s \in Slot : s # p => kpc'[s] = kpc[s] /\ rpc'[s] = rpc[s] /\ i'[s] = i[s]
    BY Zenon DEF TypeOK, sched_vars, local, table, Exit, At, Goto, StartLoop, Free
  <2>5. /\ Pos(p)' = "alloc" => i'[p] \in Slot
        /\ Forking(p)' => Forking(p) /\ i'[p] = i[p]
    BY Zenon DEF TypeOK, sched_vars, local, table, Exit, At, Goto, StartLoop, Free, ForkInv, Forking, Pos
  <2>. QED BY Zenon, <2>1, <2>2, <2>3, <2>4, <2>5 DEF Own
<1>2. CASE Reparent(c)
  <2>. USE <1>2
  <2>1. ExecAt(c)'
    BY ZenonT(30) DEF TypeOK, sched_vars, local, table, Reparent, At, Goto, ExecAt, OffCpu
  <2>2. \A l \in Slot : lock[l] \notin {c, None} => lock'[l] = lock[l]
    BY Zenon DEF TypeOK, sched_vars, local, table, Reparent, At, Goto, ExecAt, ForkInv, Forking, Pos
  <2>3. \A s \in Slot : s # p =>
          state'[s] = state[s] \/ (state[s] = "SLEEPING" /\ state'[s] = "RUNNABLE")
    BY Zenon DEF TypeOK, sched_vars, local, table, Reparent, At, Goto
  <2>4. /\ sp' = sp /\ cproc' = cproc
        /\ \A s \in Slot : s # p => kpc'[s] = kpc[s] /\ rpc'[s] = rpc[s] /\ i'[s] = i[s]
    BY Zenon DEF TypeOK, sched_vars, local, table, Reparent, At, Goto
  <2>5. /\ Pos(p)' = "alloc" => i'[p] \in Slot
        /\ Forking(p)' => Forking(p) /\ i'[p] = i[p]
    BY SMTT(30) DEF TypeOK, sched_vars, local, table, Reparent, At, Goto, ForkInv, Forking, Pos
  <2>. QED BY Zenon, <2>1, <2>2, <2>3, <2>4, <2>5 DEF Own
<1>3. CASE WakeInit(c)
  <2>. USE <1>3
  <2>1. ExecAt(c)'
    BY ZenonT(30) DEF TypeOK, sched_vars, local, table, WakeInit, At, Goto, WakeupStep, Free, ExecAt, OffCpu
  <2>2. \A l \in Slot : lock[l] \notin {c, None} => lock'[l] = lock[l]
    BY Zenon DEF TypeOK, sched_vars, local, table, WakeInit, At, Goto, WakeupStep, Free, ExecAt, ForkInv, Forking, Pos
  <2>3. \A s \in Slot : s # p =>
          state'[s] = state[s] \/ (state[s] = "SLEEPING" /\ state'[s] = "RUNNABLE")
    BY ZenonT(30) DEF TypeOK, sched_vars, local, table, WakeInit, At, Goto, WakeupStep, Free
  <2>4. /\ sp' = sp /\ cproc' = cproc
        /\ \A s \in Slot : s # p => kpc'[s] = kpc[s] /\ rpc'[s] = rpc[s] /\ i'[s] = i[s]
    BY ZenonT(30) DEF TypeOK, sched_vars, local, table, WakeInit, At, Goto, WakeupStep, Free
  <2>5. /\ Pos(p)' = "alloc" => i'[p] \in Slot
        /\ Forking(p)' => Forking(p) /\ i'[p] = i[p]
    BY SMTT(30) DEF TypeOK, sched_vars, local, table, WakeInit, At, Goto, WakeupStep, Free, ForkInv, Forking, Pos
  <2>. QED BY Zenon, <2>1, <2>2, <2>3, <2>4, <2>5 DEF Own
<1>4. CASE WakeParent(c)
  <2>. USE <1>4
  <2>1. ExecAt(c)'
    BY ZenonT(30) DEF TypeOK, sched_vars, local, table, WakeParent, At, Goto, WakeupStep, Free, ExecAt, OffCpu
  <2>2. \A l \in Slot : lock[l] \notin {c, None} => lock'[l] = lock[l]
    BY Zenon DEF TypeOK, sched_vars, local, table, WakeParent, At, Goto, WakeupStep, Free, ExecAt, ForkInv, Forking, Pos
  <2>3. \A s \in Slot : s # p =>
          state'[s] = state[s] \/ (state[s] = "SLEEPING" /\ state'[s] = "RUNNABLE")
    BY SMTT(30) DEF TypeOK, sched_vars, local, table, WakeParent, At, Goto, WakeupStep, Free
  <2>4. /\ sp' = sp /\ cproc' = cproc
        /\ \A s \in Slot : s # p => kpc'[s] = kpc[s] /\ rpc'[s] = rpc[s] /\ i'[s] = i[s]
    BY Zenon DEF TypeOK, sched_vars, local, table, WakeParent, At, Goto, WakeupStep, Free
  <2>5. /\ Pos(p)' = "alloc" => i'[p] \in Slot
        /\ Forking(p)' => Forking(p) /\ i'[p] = i[p]
    BY SMTT(30) DEF TypeOK, sched_vars, local, table, WakeParent, At, Goto, WakeupStep, Free, ForkInv, Forking, Pos
  <2>. QED BY Zenon, <2>1, <2>2, <2>3, <2>4, <2>5 DEF Own
<1>5. CASE ExitLock(c)
  <2>. USE <1>5
  <2>1. ExecAt(c)'
    BY Zenon DEF TypeOK, sched_vars, local, table, ExitLock, At, Goto, Free, ExecAt, OffCpu
  <2>2. \A l \in Slot : lock[l] \notin {c, None} => lock'[l] = lock[l]
    BY Zenon DEF TypeOK, sched_vars, local, table, ExitLock, At, Goto, Free, ExecAt, ForkInv, Forking, Pos
  <2>3. \A s \in Slot : s # p =>
          state'[s] = state[s] \/ (state[s] = "SLEEPING" /\ state'[s] = "RUNNABLE")
    BY Zenon DEF TypeOK, sched_vars, local, table, ExitLock, At, Goto, Free
  <2>4. /\ sp' = sp /\ cproc' = cproc
        /\ \A s \in Slot : s # p => kpc'[s] = kpc[s] /\ rpc'[s] = rpc[s] /\ i'[s] = i[s]
    BY Zenon DEF TypeOK, sched_vars, local, table, ExitLock, At, Goto, Free
  <2>5. /\ Pos(p)' = "alloc" => i'[p] \in Slot
        /\ Forking(p)' => Forking(p) /\ i'[p] = i[p]
    BY Zenon DEF TypeOK, sched_vars, local, table, ExitLock, At, Goto, Free, ForkInv, Forking, Pos
  <2>. QED BY Zenon, <2>1, <2>2, <2>3, <2>4, <2>5 DEF Own
<1>6. CASE ExitZombie(c)
  <2>. USE <1>6
  <2>1. ExecAt(c)'
    BY Zenon DEF TypeOK, sched_vars, local, table, ExitZombie, At, Goto, ExecAt, OffCpu
  <2>2. \A l \in Slot : lock[l] \notin {c, None} => lock'[l] = lock[l]
    BY Zenon DEF TypeOK, sched_vars, local, table, ExitZombie, At, Goto, ExecAt, ForkInv, Forking, Pos
  <2>3. \A s \in Slot : s # p =>
          state'[s] = state[s] \/ (state[s] = "SLEEPING" /\ state'[s] = "RUNNABLE")
    BY Zenon DEF TypeOK, sched_vars, local, table, ExitZombie, At, Goto
  <2>4. /\ sp' = sp /\ cproc' = cproc
        /\ \A s \in Slot : s # p => kpc'[s] = kpc[s] /\ rpc'[s] = rpc[s] /\ i'[s] = i[s]
    BY Zenon DEF TypeOK, sched_vars, local, table, ExitZombie, At, Goto
  <2>5. /\ Pos(p)' = "alloc" => i'[p] \in Slot
        /\ Forking(p)' => Forking(p) /\ i'[p] = i[p]
    BY Zenon DEF TypeOK, sched_vars, local, table, ExitZombie, At, Goto, ForkInv, Forking, Pos
  <2>. QED BY Zenon, <2>1, <2>2, <2>3, <2>4, <2>5 DEF Own
<1>. QED BY <1>1, <1>2, <1>3, <1>4, <1>5, <1>6

\* wait and sleep,
LEMMA WaitOwn ==
  ASSUME StackInv, NEW c \in CPU, Wait(c) \/ WaitScan(c) \/ WaitEnd(c) \/ Sleep(c) \/ SleepChan(c)
  PROVE  Own(c)
<1>. DEFINE p == cproc[c]
<1>0. TypeOK /\ p \in Slot /\ sp[c] = "proc" /\ ExecAt(c) /\ ForkInv /\ c # None
  BY HasProc, ProcAssumption, Zenon DEF StackInv, TypeInv, ExecInv, Wait, WaitScan, WaitEnd, Sleep, SleepChan, At
<1>. USE <1>0, Ranges
<1>1. CASE Wait(c)
  <2>. USE <1>1
  <2>1. ExecAt(c)'
    BY Zenon DEF TypeOK, sched_vars, local, table, Wait, At, Goto, StartLoop, Free, ExecAt, OffCpu
  <2>2. \A l \in Slot : lock[l] \notin {c, None} => lock'[l] = lock[l]
    BY Zenon DEF TypeOK, sched_vars, local, table, Wait, At, Goto, StartLoop, Free, ExecAt, ForkInv, Forking, Pos
  <2>3. \A s \in Slot : s # p =>
          state'[s] = state[s] \/ (state[s] = "SLEEPING" /\ state'[s] = "RUNNABLE")
    BY Zenon DEF TypeOK, sched_vars, local, table, Wait, At, Goto, StartLoop, Free
  <2>4. /\ sp' = sp /\ cproc' = cproc
        /\ \A s \in Slot : s # p => kpc'[s] = kpc[s] /\ rpc'[s] = rpc[s] /\ i'[s] = i[s]
    BY Zenon DEF TypeOK, sched_vars, local, table, Wait, At, Goto, StartLoop, Free
  <2>5. /\ Pos(p)' = "alloc" => i'[p] \in Slot
        /\ Forking(p)' => Forking(p) /\ i'[p] = i[p]
    BY Zenon DEF TypeOK, sched_vars, local, table, Wait, At, Goto, StartLoop, Free, ForkInv, Forking, Pos
  <2>. QED BY Zenon, <2>1, <2>2, <2>3, <2>4, <2>5 DEF Own
<1>2. CASE WaitScan(c)
  <2>. USE <1>2
  <2>0. \A s \in Slot : state[s] = "ZOMBIE" /\ Free(s) =>
          s # p /\ \A b \in CPU : sp[b] # "scan" => cproc[b] # s
    BY FreeRuns, Zenon DEF Free, ExecAt, WaitScan, At
  <2>1. ExecAt(c)'
    BY SMTT(30), <2>0 DEF TypeOK, sched_vars, local, table, WaitScan, At, Goto, FreeProc, Free, ExecAt, OffCpu
  <2>2. \A l \in Slot : lock[l] \notin {c, None} => lock'[l] = lock[l]
    BY Zenon DEF TypeOK, sched_vars, local, table, WaitScan, At, Goto, FreeProc, Free, ExecAt, ForkInv, Forking, Pos
  <2>3. \A s \in Slot : s # p => state'[s] = state[s]
          \/ (state[s] = "ZOMBIE" /\ state'[s] = "UNUSED" /\ \A b \in CPU : sp[b] # "scan" => cproc[b] # s)
    BY SMTT(30), <2>0 DEF TypeOK, table, WaitScan, FreeProc
  <2>4. /\ sp' = sp /\ cproc' = cproc
        /\ \A s \in Slot : s # p => kpc'[s] = kpc[s] /\ rpc'[s] = rpc[s] /\ i'[s] = i[s]
    BY Zenon DEF TypeOK, sched_vars, local, table, WaitScan, At, Goto, FreeProc, Free
  <2>5. /\ Pos(p)' = "alloc" => i'[p] \in Slot
        /\ Forking(p)' => Forking(p) /\ i'[p] = i[p]
    <3>1. kpc'[p] \in {"wait_scan", "wait_end", "trapret"}
      BY Zenon DEF TypeOK, WaitScan, At, Goto
    <3>. QED BY Zenon, <2>4, <3>1 DEF Forking, Pos
  <2>. QED BY Zenon, <2>0, <2>1, <2>2, <2>3, <2>4, <2>5 DEF Own
<1>3. CASE WaitEnd(c)
  <2>. USE <1>3
  <2>1. ExecAt(c)'
    BY SMTT(30) DEF TypeOK, sched_vars, local, table, WaitEnd, At, Goto, Free, ExecAt, OffCpu
  <2>2. \A l \in Slot : lock[l] \notin {c, None} => lock'[l] = lock[l]
    BY SMTT(60) DEF TypeOK, sched_vars, local, table, WaitEnd, At, Goto, Free, ExecAt, ForkInv, Forking, Pos
  <2>3. \A s \in Slot : s # p =>
          state'[s] = state[s] \/ (state[s] = "SLEEPING" /\ state'[s] = "RUNNABLE")
    BY Zenon DEF TypeOK, sched_vars, local, table, WaitEnd, At, Goto, Free
  <2>4. /\ sp' = sp /\ cproc' = cproc
        /\ \A s \in Slot : s # p => kpc'[s] = kpc[s] /\ rpc'[s] = rpc[s] /\ i'[s] = i[s]
    BY Zenon DEF TypeOK, sched_vars, local, table, WaitEnd, At, Goto, Free
  <2>5. /\ Pos(p)' = "alloc" => i'[p] \in Slot
        /\ Forking(p)' => Forking(p) /\ i'[p] = i[p]
    BY SMTT(30) DEF TypeOK, sched_vars, local, table, WaitEnd, At, Goto, Free, ForkInv, Forking, Pos
  <2>. QED BY Zenon, <2>1, <2>2, <2>3, <2>4, <2>5 DEF Own
<1>4. CASE Sleep(c)
  <2>. USE <1>4
  <2>1. ExecAt(c)'
    BY Zenon DEF TypeOK, sched_vars, local, table, Sleep, At, Goto, Free, ExecAt, OffCpu
  <2>2. \A l \in Slot : lock[l] \notin {c, None} => lock'[l] = lock[l]
    BY Zenon DEF TypeOK, sched_vars, local, table, Sleep, At, Goto, Free, ExecAt, ForkInv, Forking, Pos
  <2>3. \A s \in Slot : s # p =>
          state'[s] = state[s] \/ (state[s] = "SLEEPING" /\ state'[s] = "RUNNABLE")
    BY Zenon DEF TypeOK, sched_vars, local, table, Sleep, At, Goto, Free
  <2>4. /\ sp' = sp /\ cproc' = cproc
        /\ \A s \in Slot : s # p => kpc'[s] = kpc[s] /\ rpc'[s] = rpc[s] /\ i'[s] = i[s]
    BY Zenon DEF TypeOK, sched_vars, local, table, Sleep, At, Goto, Free
  <2>5. /\ Pos(p)' = "alloc" => i'[p] \in Slot
        /\ Forking(p)' => Forking(p) /\ i'[p] = i[p]
    BY Zenon DEF TypeOK, sched_vars, local, table, Sleep, At, Goto, Free, ForkInv, Forking, Pos
  <2>. QED BY Zenon, <2>1, <2>2, <2>3, <2>4, <2>5 DEF Own
<1>5. CASE SleepChan(c)
  <2>. USE <1>5
  <2>1. ExecAt(c)'
    BY Zenon DEF TypeOK, sched_vars, local, table, SleepChan, At, Goto, ExecAt, OffCpu
  <2>2. \A l \in Slot : lock[l] \notin {c, None} => lock'[l] = lock[l]
    BY Zenon DEF TypeOK, sched_vars, local, table, SleepChan, At, Goto, ExecAt, ForkInv, Forking, Pos
  <2>3. \A s \in Slot : s # p =>
          state'[s] = state[s] \/ (state[s] = "SLEEPING" /\ state'[s] = "RUNNABLE")
    BY Zenon DEF TypeOK, sched_vars, local, table, SleepChan, At, Goto
  <2>4. /\ sp' = sp /\ cproc' = cproc
        /\ \A s \in Slot : s # p => kpc'[s] = kpc[s] /\ rpc'[s] = rpc[s] /\ i'[s] = i[s]
    BY Zenon DEF TypeOK, sched_vars, local, table, SleepChan, At, Goto
  <2>5. /\ Pos(p)' = "alloc" => i'[p] \in Slot
        /\ Forking(p)' => Forking(p) /\ i'[p] = i[p]
    BY Zenon DEF TypeOK, sched_vars, local, table, SleepChan, At, Goto, ForkInv, Forking, Pos
  <2>. QED BY Zenon, <2>1, <2>2, <2>3, <2>4, <2>5 DEF Own
<1>. QED BY <1>1, <1>2, <1>3, <1>4, <1>5, Zenon

\* kill, and traps and system calls.
LEMMA TrapOwn ==
  ASSUME StackInv, NEW c \in CPU, Kill(c) \/ Preempt(c) \/ Timer(c) \/ Syscall(c)
  PROVE  Own(c)
<1>. DEFINE p == cproc[c]
<1>0. TypeOK /\ p \in Slot /\ sp[c] = "proc" /\ ExecAt(c) /\ ForkInv /\ c # None
  BY HasProc, ProcAssumption, Zenon DEF StackInv, TypeInv, ExecInv, Kill, Preempt, Timer, Syscall, At
<1>. USE <1>0, Ranges
<1>1. CASE Kill(c)
  <2>. USE <1>1
  <2>1. ExecAt(c)'
    BY SMTT(30) DEF TypeOK, sched_vars, local, table, Kill, At, Goto, Free, ExecAt, OffCpu
  <2>2. \A l \in Slot : lock[l] \notin {c, None} => lock'[l] = lock[l]
    BY Zenon DEF TypeOK, sched_vars, local, table, Kill, At, Goto, Free, ExecAt, ForkInv, Forking, Pos
  <2>3. \A s \in Slot : s # p =>
          state'[s] = state[s] \/ (state[s] = "SLEEPING" /\ state'[s] = "RUNNABLE")
    BY SMTT(30) DEF TypeOK, sched_vars, local, table, Kill, At, Goto, Free
  <2>4. /\ sp' = sp /\ cproc' = cproc
        /\ \A s \in Slot : s # p => kpc'[s] = kpc[s] /\ rpc'[s] = rpc[s] /\ i'[s] = i[s]
    BY Zenon DEF TypeOK, sched_vars, local, table, Kill, At, Goto, Free
  <2>5. /\ Pos(p)' = "alloc" => i'[p] \in Slot
        /\ Forking(p)' => Forking(p) /\ i'[p] = i[p]
    BY SMTT(30) DEF TypeOK, sched_vars, local, table, Kill, At, Goto, Free, ForkInv, Forking, Pos
  <2>. QED BY Zenon, <2>1, <2>2, <2>3, <2>4, <2>5 DEF Own
<1>2. CASE Preempt(c)
  <2>. USE <1>2
  <2>1. ExecAt(c)'
    BY SMTT(30) DEF TypeOK, sched_vars, local, table, Preempt, At, Goto, YieldTo, Free, Preemptible, ExecAt, OffCpu
  <2>2. \A l \in Slot : lock[l] \notin {c, None} => lock'[l] = lock[l]
    BY ZenonT(30) DEF TypeOK, sched_vars, local, table, Preempt, At, Goto, YieldTo, Free, Preemptible, ExecAt, ForkInv, Forking, Pos
  <2>3. \A s \in Slot : s # p =>
          state'[s] = state[s] \/ (state[s] = "SLEEPING" /\ state'[s] = "RUNNABLE")
    BY Zenon DEF TypeOK, sched_vars, local, table, Preempt, At, Goto, YieldTo, Free, Preemptible
  <2>4. /\ sp' = sp /\ cproc' = cproc
        /\ \A s \in Slot : s # p => kpc'[s] = kpc[s] /\ rpc'[s] = rpc[s] /\ i'[s] = i[s]
    BY SMTT(30) DEF TypeOK, sched_vars, local, table, Preempt, At, Goto, YieldTo, Free, Preemptible
  <2>5. /\ Pos(p)' = "alloc" => i'[p] \in Slot
        /\ Forking(p)' => Forking(p) /\ i'[p] = i[p]
    BY SMTT(30) DEF TypeOK, sched_vars, local, table, Preempt, At, Goto, YieldTo, Free, Preemptible, ForkInv, Forking, Pos
  <2>. QED BY Zenon, <2>1, <2>2, <2>3, <2>4, <2>5 DEF Own
<1>3. CASE Timer(c)
  <2>. USE <1>3
  <2>1. ExecAt(c)'
    BY SMTT(30) DEF TypeOK, sched_vars, local, table, Timer, At, Goto, YieldTo, Free, ExecAt, OffCpu
  <2>2. \A l \in Slot : lock[l] \notin {c, None} => lock'[l] = lock[l]
    BY Zenon DEF TypeOK, sched_vars, local, table, Timer, At, Goto, YieldTo, Free, ExecAt, ForkInv, Forking, Pos
  <2>3. \A s \in Slot : s # p =>
          state'[s] = state[s] \/ (state[s] = "SLEEPING" /\ state'[s] = "RUNNABLE")
    BY SMTT(30) DEF TypeOK, sched_vars, local, table, Timer, At, Goto, YieldTo, Free
  <2>4. /\ sp' = sp /\ cproc' = cproc
        /\ \A s \in Slot : s # p => kpc'[s] = kpc[s] /\ rpc'[s] = rpc[s] /\ i'[s] = i[s]
    BY SMTT(30) DEF TypeOK, sched_vars, local, table, Timer, At, Goto, YieldTo, Free
  <2>5. /\ Pos(p)' = "alloc" => i'[p] \in Slot
        /\ Forking(p)' => Forking(p) /\ i'[p] = i[p]
    BY SMTT(30) DEF TypeOK, sched_vars, local, table, Timer, At, Goto, YieldTo, Free, ForkInv, Forking, Pos
  <2>. QED BY Zenon, <2>1, <2>2, <2>3, <2>4, <2>5 DEF Own
<1>4. CASE Syscall(c)
  <2>. USE <1>4
  <2>1. ExecAt(c)'
    BY SMTT(30) DEF TypeOK, sched_vars, local, table, Syscall, At, Goto, StartLoop, Free, ExecAt, OffCpu
  <2>2. \A l \in Slot : lock[l] \notin {c, None} => lock'[l] = lock[l]
    BY Zenon DEF TypeOK, sched_vars, local, table, Syscall, At, Goto, StartLoop, Free, ExecAt, ForkInv, Forking, Pos
  <2>3. \A s \in Slot : s # p =>
          state'[s] = state[s] \/ (state[s] = "SLEEPING" /\ state'[s] = "RUNNABLE")
    BY Zenon DEF TypeOK, sched_vars, local, table, Syscall, At, Goto, StartLoop, Free
  <2>4. /\ sp' = sp /\ cproc' = cproc
        /\ \A s \in Slot : s # p => kpc'[s] = kpc[s] /\ rpc'[s] = rpc[s] /\ i'[s] = i[s]
    BY SMTT(30) DEF TypeOK, sched_vars, local, table, Syscall, At, Goto, StartLoop, Free
  <2>5. /\ Pos(p)' = "alloc" => i'[p] \in Slot
        /\ Forking(p)' => Forking(p) /\ i'[p] = i[p]
    BY SMTT(30) DEF TypeOK, sched_vars, local, table, Syscall, At, Goto, StartLoop, Free, ForkInv, Forking, Pos
  <2>. QED BY Zenon, <2>1, <2>2, <2>3, <2>4, <2>5 DEF Own
<1>. QED BY <1>1, <1>2, <1>3, <1>4

\* A stuttering step changes nothing that StackInv looks at.
LEMMA StackStutter == StackInv /\ UNCHANGED vars => StackInv'
  BY SMTT(30) DEF StackInv, TypeInv, TypeOK, Apart, BackInv, BackAt, ExecInv, ExecAt, SavedInv, ForkInv,
     Forking, Pos, vars, table, local, sched_vars

\* Every step keeps StackInv,
LEMMA StackStep == StackInv /\ [Next]_vars => StackInv'
<1>1. ASSUME StackInv, NEW c \in CPU, Steps(c) PROVE StackInv'
  <2>1. CASE Scan(c) \/ Back(c) \/ Sched(c) \/ AllocProc(c)
    BY <1>1, <2>1, StackSched
  <2>2. CASE Own(c)
    BY <1>1, <2>2, TypeStep, OwnStep DEF StackInv
  <2>. QED BY <1>1, <2>1, <2>2, ForkOwn, ExitOwn, WaitOwn, TrapOwn DEF Steps, SchedSteps, ExitSteps, TrapSteps
<1>. QED BY <1>1, NextSteps, StackStutter

\* so it is an invariant of the process table.
THEOREM StackInvariant == Spec => []StackInv
  BY StackStep, InitStack, PTL DEF Spec

\* The types hold: no step of the process table leaves an index, a pc, a lock
\* owner or a parent pointer out of its range.
THEOREM TypeCorrect == Spec => []TypeOK
<1>1. StackInv => TypeOK
  BY DEF StackInv, TypeInv
<1>. QED BY <1>1, StackInvariant, PTL

\* No two CPUs are ever on one kernel stack, and a stack in use is never freed
\* or given to a new process: scheduler, sched, yield, sleep, exit, wait and
\* kill of kernel/proc.c together.
THEOREM StackSafe == Spec => []OneCpuPerStack
<1>1. StackInv => OneCpuPerStack
  BY InUse DEF StackInv, Apart, OneCpuPerStack, OffCpu
<1>. QED BY <1>1, StackInvariant, PTL

-----------------------------------------------------------------------------
(* The locks.                                                              *)

\* exit and wait between their acquire and release of wait_lock.
Waiting == {"reparent", "wake_init", "wake_parent", "exit_lock", "exit_zombie",
            "wait_scan", "wait_end", "sleep", "sleep_chan"}
Exiting == {"exit", "reparent", "wake_init", "wake_parent", "exit_lock", "exit_zombie", "zombie"}
Executes(c, s) == sp[c] = "proc" /\ cproc[c] = s

\* A thread that is not saved is on a CPU, and wait_lock is held exactly by the
\* CPU inside exit or wait.
WaitHeld ==
  /\ \A s \in Slot : kpc[s] # "resume" => \E c \in CPU : Executes(c, s)
  /\ \A c \in CPU : lock[WaitLock] = c <=> sp[c] = "proc" /\ kpc[cproc[c]] \in Waiting

\* Why a CPU holds the lock of slot l.
Reason(c, l) ==
  \/ sp[c] # "scan" /\ cproc[c] = l /\ kpc[l] \in {"sched", "resume", "exit_zombie", "sleep_chan"}
  \/ sp[c] = "proc" /\ kpc[cproc[c]] = "fork_copy" /\ i[cproc[c]] = l
SlotsHeld == \A l \in Slot : \A c \in CPU : lock[l] = c => Reason(c, l)

\* A thread whose sched() is not to return belongs to a zombie or to nobody.
ZombieGone == \A s \in Slot : rpc[s] = "zombie" => state[s] \in {"ZOMBIE", "UNUSED"}

\* init is never killed, and so never exits.
InitLives ==
  /\ pid[Init0] = 1 /\ ~killed[Init0] /\ nextpid > 1
  /\ state[Init0] \notin {"UNUSED", "USED", "ZOMBIE"}
  /\ kpc[Init0] \notin Exiting /\ rpc[Init0] \notin Exiting
  /\ \A p \in Slot : target[p] # 1

HeldInv == StackInv /\ WaitHeld /\ SlotsHeld /\ ZombieGone /\ InitLives

-----------------------------------------------------------------------------
\* Nothing is locked at boot, and init lives.
LEMMA InitHeld == Init => HeldInv
<1>. SUFFICES ASSUME Init PROVE HeldInv
  OBVIOUS
<1>. USE ProcAssumption, Ranges
<1>1. WaitHeld /\ SlotsHeld
  BY Zenon DEF Init, WaitHeld, SlotsHeld
<1>2. ZombieGone /\ InitLives
  BY DEF Init, ZombieGone, InitLives, Exiting
<1>. QED BY <1>1, <1>2, InitStack DEF HeldInv

\* At most one process is inside exit or wait,
LEMMA WaitAlone ==
  ASSUME WaitHeld, NEW p \in Slot, NEW q \in Slot, kpc[p] \in Waiting, kpc[q] \in Waiting
  PROVE  p = q
<1>1. PICK c \in CPU : Executes(c, p)
  BY Zenon DEF WaitHeld, Waiting
<1>2. PICK d \in CPU : Executes(d, q)
  BY Zenon DEF WaitHeld, Waiting
<1>3. lock[WaitLock] = c /\ lock[WaitLock] = d
  BY Zenon, <1>1, <1>2 DEF WaitHeld, Executes
<1>. QED BY Zenon, <1>1, <1>2, <1>3 DEF Executes

\* and none while wait_lock is free.
LEMMA WaitNone ==
  ASSUME WaitHeld, NEW p \in Slot, kpc[p] \in Waiting
  PROVE  ~Free(WaitLock)
<1>1. PICK c \in CPU : Executes(c, p)
  BY Zenon DEF WaitHeld, Waiting
<1>2. lock[WaitLock] = c
  BY Zenon, <1>1 DEF WaitHeld, Executes
<1>. QED BY Zenon, <1>2, ProcAssumption DEF Free

-----------------------------------------------------------------------------
\* What a step of CPU c's process p does to the locks: it takes wait_lock when
\* it is free, gives back its own, and has a reason for every slot lock it is
\* left with.
Locks(c) ==
  LET p == cproc[c] IN
  /\ kpc'[p] # "resume"
  /\ \/ kpc'[p] \in Waiting /\ lock[WaitLock] \in {c, None} /\ lock'[WaitLock] = c
     \/ kpc'[p] \notin Waiting /\ kpc[p] \in Waiting /\ lock'[WaitLock] = None
     \/ kpc'[p] \notin Waiting /\ kpc[p] \notin Waiting /\ lock'[WaitLock] = lock[WaitLock]
  /\ \A l \in Slot :
       /\ lock'[l] = c => Reason(c, l)'
       /\ lock'[l] \in {c, None, lock[l]}

\* Such a step keeps the reasons for all locks.
LEMMA LocksStep ==
  ASSUME HeldInv, NEW c \in CPU, Own(c), Locks(c)
  PROVE  WaitHeld' /\ SlotsHeld'
<1>. DEFINE p == cproc[c]
<1>0. p \in Slot /\ sp[c] = "proc" /\ sp' = sp /\ cproc' = cproc
  BY Zenon, HasProc DEF Own, HeldInv, StackInv
<1>1. \A s \in Slot : s # p => kpc'[s] = kpc[s] /\ i'[s] = i[s]
  BY Zenon DEF Own
<1>2. \A b \in CPU : b # c /\ sp[b] # "scan" => cproc[b] \in Slot /\ cproc[b] # p
  BY Zenon, <1>0, HasProc DEF HeldInv, StackInv, Apart
<1>3. ASSUME NEW s \in Slot, kpc'[s] # "resume" PROVE \E b \in CPU : Executes(b, s)'
  <2>1. CASE s = p
    BY Zenon, <1>0, <2>1 DEF Executes
  <2>2. CASE s # p
    BY Zenon, <1>0, <1>1, <1>3, <2>2 DEF Executes, HeldInv, WaitHeld
  <2>. QED BY Zenon, <2>1, <2>2
<1>4. ASSUME NEW b \in CPU PROVE lock'[WaitLock] = b <=> sp'[b] = "proc" /\ kpc'[cproc'[b]] \in Waiting
  <2>0. lock[WaitLock] = b <=> sp[b] = "proc" /\ kpc[cproc[b]] \in Waiting
    BY Zenon DEF HeldInv, WaitHeld
  <2>1. CASE b = c
    <3>1. lock[WaitLock] = c <=> kpc[p] \in Waiting
      BY Zenon, <1>0, <2>0, <2>1
    <3>2. c # None
      BY Zenon, ProcAssumption
    <3>. QED BY Zenon, <1>0, <2>1, <3>1, <3>2 DEF Locks
  <2>2. CASE b # c
    <3>1. sp[b] = "proc" => kpc'[cproc[b]] = kpc[cproc[b]]
      BY Zenon, <1>1, <1>2, <2>2
    <3>2. b # None
      BY Zenon, ProcAssumption
    <3>3. kpc[p] \in Waiting => lock[WaitLock] = c
      BY Zenon, <1>0 DEF HeldInv, WaitHeld
    <3>. QED BY Zenon, <1>0, <2>0, <2>2, <3>1, <3>2, <3>3 DEF Locks
  <2>. QED BY Zenon, <2>1, <2>2
<1>5. ASSUME NEW l \in Slot, NEW b \in CPU, lock'[l] = b PROVE Reason(b, l)'
  <2>1. CASE b = c
    BY Zenon, <1>5, <2>1 DEF Locks
  <2>2. CASE b # c
    <3>1. lock[l] = b
      BY Zenon, <1>5, <2>2, ProcAssumption DEF Locks
    <3>2. Reason(b, l)
      BY Zenon, <3>1 DEF HeldInv, SlotsHeld
    <3>3. sp[b] # "scan" /\ kpc'[cproc[b]] = kpc[cproc[b]] /\ i'[cproc[b]] = i[cproc[b]]
      BY Zenon, <1>1, <1>2, <2>2, <3>2 DEF Reason
    <3>. QED BY Zenon, <1>0, <3>2, <3>3 DEF Reason
  <2>. QED BY Zenon, <2>1, <2>2
<1>. QED BY Zenon, <1>3, <1>4, <1>5 DEF WaitHeld, SlotsHeld

\* What a step of CPU c's process p does to itself and to init.
Life(c) ==
  LET p == cproc[c] IN
  /\ rpc'[p] = "zombie" => state'[p] = "ZOMBIE"
  /\ p = Init0 => /\ kpc'[p] \notin Exiting /\ rpc'[p] \notin Exiting
                  /\ state'[p] \notin {"UNUSED", "USED", "ZOMBIE"}
  /\ pid'[Init0] = 1 /\ ~killed'[Init0] /\ nextpid' > 1
  /\ \A s \in Slot : target'[s] # 1

\* Such a step keeps init alive and zombies dead.
LEMMA LifeStep ==
  ASSUME HeldInv, NEW c \in CPU, Own(c), Life(c)
  PROVE  ZombieGone' /\ InitLives'
<1>. DEFINE p == cproc[c]
<1>0. p \in Slot /\ Init0 \in Slot
  BY Zenon, HasProc, Ranges DEF Own, HeldInv, StackInv
<1>1. ASSUME NEW s \in Slot, rpc'[s] = "zombie" PROVE state'[s] \in {"ZOMBIE", "UNUSED"}
  <2>1. CASE s = p
    BY Zenon, <1>1, <2>1 DEF Life
  <2>2. CASE s # p
    <3>1. state[s] \in {"ZOMBIE", "UNUSED"}
      BY Zenon, <1>1, <2>2 DEF Own, HeldInv, ZombieGone
    <3>. QED BY Zenon, <2>2, <3>1 DEF Own
  <2>. QED BY Zenon, <2>1, <2>2
<1>2. CASE p = Init0
  BY Zenon, <1>0, <1>1, <1>2 DEF Life, InitLives, ZombieGone
<1>3. CASE p # Init0
  <2>1. kpc'[Init0] = kpc[Init0] /\ rpc'[Init0] = rpc[Init0]
    BY Zenon, <1>0, <1>3 DEF Own
  <2>2. state[Init0] \notin {"UNUSED", "USED", "ZOMBIE"} /\ kpc[Init0] \notin Exiting /\ rpc[Init0] \notin Exiting
    BY Zenon DEF HeldInv, InitLives
  <2>3. state'[Init0] \notin {"UNUSED", "USED", "ZOMBIE"}
    BY Zenon, <1>0, <1>3, <2>2 DEF Own
  <2>. QED BY Zenon, <1>1, <2>1, <2>2, <2>3 DEF Life, InitLives, ZombieGone
<1>. QED BY Zenon, <1>2, <1>3

-----------------------------------------------------------------------------
\* What HeldInv says of the process p that CPU c executes.
Mine(c, p) ==
  /\ TypeOK /\ p \in Slot /\ sp[c] = "proc" /\ c # None /\ ExecAt(c)
  /\ lock[WaitLock] = c <=> kpc[p] \in Waiting
  /\ \A l \in Slot : lock[l] = c =>
       IF kpc[p] = "fork_copy" THEN l = i[p]
       ELSE l = p /\ kpc[p] \in {"sched", "resume", "exit_zombie", "sleep_chan"}
  /\ kpc[p] # "sched" => rpc[p] # "zombie"
  /\ kpc[p] \in {"fork_copy", "fork_parent", "fork_run"} =>
       i[p] \in Slot /\ i[p] # Init0 /\ i[p] # p /\ state[i[p]] = "USED"
  /\ InitLives

\* What HeldInv says of the process that CPU c executes.
LEMMA MineAt ==
  ASSUME HeldInv, NEW c \in CPU, sp[c] = "proc"
  PROVE  Mine(c, cproc[c])
<1>. DEFINE p == cproc[c]
<1>1. TypeOK /\ p \in Slot /\ c # None /\ ExecAt(c) /\ InitLives
  BY Zenon, HasProc, ProcAssumption DEF HeldInv, StackInv, TypeInv, ExecInv
<1>2. lock[WaitLock] = c <=> kpc[p] \in Waiting
  BY Zenon DEF HeldInv, WaitHeld
<1>3. ASSUME NEW l \in Slot, lock[l] = c
      PROVE  IF kpc[p] = "fork_copy" THEN l = i[p]
             ELSE l = p /\ kpc[p] \in {"sched", "resume", "exit_zombie", "sleep_chan"}
  <2>1. Reason(c, l)
    BY Zenon, <1>3 DEF HeldInv, SlotsHeld
  <2>. QED BY Zenon, <2>1 DEF Reason
<1>4. kpc[p] # "sched" => rpc[p] # "zombie"
  <2>1. kpc[p] # "sched" => state[p] = "RUNNING"
    BY Zenon, <1>1 DEF ExecAt
  <2>2. rpc[p] = "zombie" => state[p] \in {"ZOMBIE", "UNUSED"}
    BY Zenon, <1>1 DEF HeldInv, ZombieGone
  <2>. QED BY Zenon, <2>1, <2>2
<1>5. ASSUME kpc[p] \in {"fork_copy", "fork_parent", "fork_run"}
      PROVE  i[p] \in Slot /\ i[p] # Init0 /\ i[p] # p /\ state[i[p]] = "USED"
  <2>1. Forking(p)
    BY Zenon, <1>5 DEF Forking, Pos
  <2>2. i[p] \in Slot /\ state[i[p]] = "USED"
    BY Zenon, <1>1, <2>1 DEF HeldInv, StackInv, ForkInv
  <2>3. state[p] = "RUNNING"
    BY Zenon, <1>1, <1>5 DEF ExecAt
  <2>. QED BY Zenon, <1>1, <2>2, <2>3 DEF InitLives
<1>. QED BY Zenon, <1>1, <1>2, <1>3, <1>4, <1>5 DEF Mine

\* The way out of sched, and fork, keep locks and life in order.
LEMMA ForkLife ==
  ASSUME HeldInv, NEW c \in CPU, Resume(c) \/ TrapRet(c) \/ ForkCopy(c) \/ ForkFail(c) \/ ForkParent(c) \/ ForkRun(c)
  PROVE  Locks(c) /\ Life(c)
<1>. DEFINE p == cproc[c]
<1>0. sp[c] = "proc"
  BY Zenon DEF Resume, TrapRet, ForkCopy, ForkFail, ForkParent, ForkRun, At
<1>1. Mine(c, p) /\ WaitLock \notin Slot /\ WaitLock \in Lock /\ Init0 \in Slot /\ p \in Lock /\ 1 \notin KillPids
  BY Zenon, <1>0, MineAt, Ranges, ProcAssumption DEF Mine
<1>. USE <1>1
<1>2. CASE Resume(c)
  <2>. USE <1>2
  <2>1. kpc'[p] # "resume" /\ (p = Init0 => kpc'[p] \notin Exiting)
    BY Zenon DEF Mine, TypeOK, Resume, At, Goto, RPC, Preemptible, InitLives, Exiting, RPC, Preemptible
  <2>2. \/ kpc'[p] \in Waiting /\ lock[WaitLock] \in {c, None} /\ lock'[WaitLock] = c
        \/ kpc'[p] \notin Waiting /\ kpc[p] \in Waiting /\ lock'[WaitLock] = None
        \/ kpc'[p] \notin Waiting /\ kpc[p] \notin Waiting /\ lock'[WaitLock] = lock[WaitLock]
    BY Zenon DEF Mine, TypeOK, Resume, At, Goto, RPC, Preemptible, Waiting, sched_vars
  <2>3. \A l \in Slot : (lock'[l] = c => Reason(c, l)') /\ lock'[l] \in {c, None, lock[l]}
    BY SMTT(30) DEF Mine, TypeOK, Resume, At, Goto, RPC, Preemptible, Reason, sched_vars
  <2>4. /\ rpc'[p] = "zombie" => state'[p] = "ZOMBIE"
        /\ p = Init0 => rpc'[p] \notin Exiting /\ state'[p] \notin {"UNUSED", "USED", "ZOMBIE"}
    BY Zenon DEF Mine, TypeOK, Resume, At, Goto, RPC, Preemptible, InitLives, Exiting, sched_vars
  <2>5. /\ pid'[Init0] = 1 /\ ~killed'[Init0] /\ nextpid' > 1
        /\ \A s \in Slot : target'[s] # 1
    BY Zenon DEF Mine, TypeOK, Resume, At, Goto, RPC, Preemptible, InitLives, sched_vars
  <2>. QED BY Zenon, <2>1, <2>2, <2>3, <2>4, <2>5 DEF Locks, Life
<1>3. CASE TrapRet(c)
  <2>. USE <1>3
  <2>1. kpc'[p] # "resume" /\ (p = Init0 => kpc'[p] \notin Exiting)
    BY Zenon DEF Mine, TypeOK, TrapRet, At, Goto, StartLoop, Free, InitLives, Exiting
  <2>2. \/ kpc'[p] \in Waiting /\ lock[WaitLock] \in {c, None} /\ lock'[WaitLock] = c
        \/ kpc'[p] \notin Waiting /\ kpc[p] \in Waiting /\ lock'[WaitLock] = None
        \/ kpc'[p] \notin Waiting /\ kpc[p] \notin Waiting /\ lock'[WaitLock] = lock[WaitLock]
    BY Zenon DEF Mine, TypeOK, TrapRet, At, Goto, StartLoop, Free, Waiting, table, sched_vars
  <2>3. \A l \in Slot : (lock'[l] = c => Reason(c, l)') /\ lock'[l] \in {c, None, lock[l]}
    BY Zenon DEF Mine, TypeOK, TrapRet, At, Goto, StartLoop, Free, Reason, table, sched_vars
  <2>4. /\ rpc'[p] = "zombie" => state'[p] = "ZOMBIE"
        /\ p = Init0 => rpc'[p] \notin Exiting /\ state'[p] \notin {"UNUSED", "USED", "ZOMBIE"}
    BY Zenon DEF Mine, TypeOK, TrapRet, At, Goto, StartLoop, Free, InitLives, Exiting, table, sched_vars
  <2>5. /\ pid'[Init0] = 1 /\ ~killed'[Init0] /\ nextpid' > 1
        /\ \A s \in Slot : target'[s] # 1
    BY SMTT(30) DEF Mine, TypeOK, TrapRet, At, Goto, StartLoop, Free, InitLives, table, sched_vars
  <2>. QED BY Zenon, <2>1, <2>2, <2>3, <2>4, <2>5 DEF Locks, Life
<1>4. CASE ForkCopy(c)
  <2>. USE <1>4
  <2>1. kpc'[p] # "resume" /\ (p = Init0 => kpc'[p] \notin Exiting)
    BY Zenon DEF Mine, TypeOK, ForkCopy, At, Goto, InitLives, Exiting
  <2>2. \/ kpc'[p] \in Waiting /\ lock[WaitLock] \in {c, None} /\ lock'[WaitLock] = c
        \/ kpc'[p] \notin Waiting /\ kpc[p] \in Waiting /\ lock'[WaitLock] = None
        \/ kpc'[p] \notin Waiting /\ kpc[p] \notin Waiting /\ lock'[WaitLock] = lock[WaitLock]
    BY Zenon DEF Mine, TypeOK, ForkCopy, At, Goto, Waiting, table, local, sched_vars
  <2>3. \A l \in Slot : (lock'[l] = c => Reason(c, l)') /\ lock'[l] \in {c, None, lock[l]}
    <3>1. kpc[p] = "fork_copy" /\ lock' = [lock EXCEPT ![i[p]] = None]
      BY Zenon DEF ForkCopy, At
    <3>. QED BY Zenon, <3>1, Ranges DEF Mine, TypeOK
  <2>4. /\ rpc'[p] = "zombie" => state'[p] = "ZOMBIE"
        /\ p = Init0 => rpc'[p] \notin Exiting /\ state'[p] \notin {"UNUSED", "USED", "ZOMBIE"}
    BY Zenon DEF Mine, TypeOK, ForkCopy, At, Goto, InitLives, Exiting, table, local, sched_vars
  <2>5. /\ pid'[Init0] = 1 /\ ~killed'[Init0] /\ nextpid' > 1
        /\ \A s \in Slot : target'[s] # 1
    BY Zenon DEF Mine, TypeOK, ForkCopy, At, Goto, InitLives, table, local, sched_vars
  <2>. QED BY Zenon, <2>1, <2>2, <2>3, <2>4, <2>5 DEF Locks, Life
<1>5. CASE ForkFail(c)
  <2>. USE <1>5
  <2>1. kpc'[p] # "resume" /\ (p = Init0 => kpc'[p] \notin Exiting)
    BY Zenon DEF Mine, TypeOK, ForkFail, At, Goto, FreeProc, InitLives, Exiting
  <2>2. \/ kpc'[p] \in Waiting /\ lock[WaitLock] \in {c, None} /\ lock'[WaitLock] = c
        \/ kpc'[p] \notin Waiting /\ kpc[p] \in Waiting /\ lock'[WaitLock] = None
        \/ kpc'[p] \notin Waiting /\ kpc[p] \notin Waiting /\ lock'[WaitLock] = lock[WaitLock]
    BY Zenon DEF Mine, TypeOK, ForkFail, At, Goto, FreeProc, Waiting, local, sched_vars
  <2>3. \A l \in Slot : (lock'[l] = c => Reason(c, l)') /\ lock'[l] \in {c, None, lock[l]}
    <3>1. kpc[p] = "fork_copy" /\ lock' = [lock EXCEPT ![i[p]] = None]
      BY Zenon DEF ForkFail, At
    <3>. QED BY Zenon, <3>1, Ranges DEF Mine, TypeOK
  <2>4. /\ rpc'[p] = "zombie" => state'[p] = "ZOMBIE"
        /\ p = Init0 => rpc'[p] \notin Exiting /\ state'[p] \notin {"UNUSED", "USED", "ZOMBIE"}
    BY Zenon DEF Mine, TypeOK, ForkFail, At, Goto, FreeProc, InitLives, Exiting, local, sched_vars
  <2>5. /\ pid'[Init0] = 1 /\ ~killed'[Init0] /\ nextpid' > 1
        /\ \A s \in Slot : target'[s] # 1
    BY Zenon DEF Mine, TypeOK, ForkFail, At, Goto, FreeProc, InitLives, local, sched_vars
  <2>. QED BY Zenon, <2>1, <2>2, <2>3, <2>4, <2>5 DEF Locks, Life
<1>6. CASE ForkParent(c)
  <2>. USE <1>6
  <2>1. kpc'[p] # "resume" /\ (p = Init0 => kpc'[p] \notin Exiting)
    BY Zenon DEF Mine, TypeOK, ForkParent, At, Goto, Free, InitLives, Exiting
  <2>2. \/ kpc'[p] \in Waiting /\ lock[WaitLock] \in {c, None} /\ lock'[WaitLock] = c
        \/ kpc'[p] \notin Waiting /\ kpc[p] \in Waiting /\ lock'[WaitLock] = None
        \/ kpc'[p] \notin Waiting /\ kpc[p] \notin Waiting /\ lock'[WaitLock] = lock[WaitLock]
    BY Zenon DEF Mine, TypeOK, ForkParent, At, Goto, Free, Waiting, local, sched_vars
  <2>3. \A l \in Slot : (lock'[l] = c => Reason(c, l)') /\ lock'[l] \in {c, None, lock[l]}
    BY Zenon DEF Mine, TypeOK, ForkParent, At, Goto, Free, Reason, local, sched_vars
  <2>4. /\ rpc'[p] = "zombie" => state'[p] = "ZOMBIE"
        /\ p = Init0 => rpc'[p] \notin Exiting /\ state'[p] \notin {"UNUSED", "USED", "ZOMBIE"}
    BY Zenon DEF Mine, TypeOK, ForkParent, At, Goto, Free, InitLives, Exiting, local, sched_vars
  <2>5. /\ pid'[Init0] = 1 /\ ~killed'[Init0] /\ nextpid' > 1
        /\ \A s \in Slot : target'[s] # 1
    BY Zenon DEF Mine, TypeOK, ForkParent, At, Goto, Free, InitLives, local, sched_vars
  <2>. QED BY Zenon, <2>1, <2>2, <2>3, <2>4, <2>5 DEF Locks, Life
<1>7. CASE ForkRun(c)
  <2>. USE <1>7
  <2>1. kpc'[p] # "resume" /\ (p = Init0 => kpc'[p] \notin Exiting)
    BY Zenon DEF Mine, TypeOK, ForkRun, At, Goto, Free, InitLives, Exiting
  <2>2. \/ kpc'[p] \in Waiting /\ lock[WaitLock] \in {c, None} /\ lock'[WaitLock] = c
        \/ kpc'[p] \notin Waiting /\ kpc[p] \in Waiting /\ lock'[WaitLock] = None
        \/ kpc'[p] \notin Waiting /\ kpc[p] \notin Waiting /\ lock'[WaitLock] = lock[WaitLock]
    BY Zenon DEF Mine, TypeOK, ForkRun, At, Goto, Free, Waiting, local, sched_vars
  <2>3. \A l \in Slot : (lock'[l] = c => Reason(c, l)') /\ lock'[l] \in {c, None, lock[l]}
    BY Zenon DEF Mine, TypeOK, ForkRun, At, Goto, Free, Reason, local, sched_vars
  <2>4. /\ rpc'[p] = "zombie" => state'[p] = "ZOMBIE"
        /\ p = Init0 => rpc'[p] \notin Exiting /\ state'[p] \notin {"UNUSED", "USED", "ZOMBIE"}
    BY Zenon DEF Mine, TypeOK, ForkRun, At, Goto, Free, InitLives, Exiting, local, sched_vars
  <2>5. /\ pid'[Init0] = 1 /\ ~killed'[Init0] /\ nextpid' > 1
        /\ \A s \in Slot : target'[s] # 1
    BY Zenon DEF Mine, TypeOK, ForkRun, At, Goto, Free, InitLives, local, sched_vars
  <2>. QED BY Zenon, <2>1, <2>2, <2>3, <2>4, <2>5 DEF Locks, Life
<1>. QED BY Zenon, <1>2, <1>3, <1>4, <1>5, <1>6, <1>7

\* So do exit,
LEMMA ExitLife ==
  ASSUME HeldInv, NEW c \in CPU, Exit(c) \/ Reparent(c) \/ WakeInit(c) \/ WakeParent(c) \/ ExitLock(c) \/ ExitZombie(c)
  PROVE  Locks(c) /\ Life(c)
<1>. DEFINE p == cproc[c]
<1>0. sp[c] = "proc"
  BY Zenon DEF Exit, Reparent, WakeInit, WakeParent, ExitLock, ExitZombie, At
<1>1. Mine(c, p) /\ WaitLock \notin Slot /\ WaitLock \in Lock /\ Init0 \in Slot /\ p \in Lock /\ 1 \notin KillPids
  BY Zenon, <1>0, MineAt, Ranges, ProcAssumption DEF Mine
<1>. USE <1>1
<1>2. CASE Exit(c)
  <2>. USE <1>2
  <2>1. kpc'[p] # "resume" /\ (p = Init0 => kpc'[p] \notin Exiting)
    BY Zenon DEF Mine, TypeOK, Exit, At, Goto, StartLoop, Free, InitLives, Exiting
  <2>2. \/ kpc'[p] \in Waiting /\ lock[WaitLock] \in {c, None} /\ lock'[WaitLock] = c
        \/ kpc'[p] \notin Waiting /\ kpc[p] \in Waiting /\ lock'[WaitLock] = None
        \/ kpc'[p] \notin Waiting /\ kpc[p] \notin Waiting /\ lock'[WaitLock] = lock[WaitLock]
    BY Zenon DEF Mine, TypeOK, Exit, At, Goto, StartLoop, Free, Waiting, table, sched_vars
  <2>3. \A l \in Slot : (lock'[l] = c => Reason(c, l)') /\ lock'[l] \in {c, None, lock[l]}
    BY SMTT(30) DEF Mine, TypeOK, Exit, At, Goto, StartLoop, Free, Reason, table, sched_vars
  <2>4. /\ rpc'[p] = "zombie" => state'[p] = "ZOMBIE"
        /\ p = Init0 => rpc'[p] \notin Exiting /\ state'[p] \notin {"UNUSED", "USED", "ZOMBIE"}
    BY Zenon DEF Mine, TypeOK, Exit, At, Goto, StartLoop, Free, InitLives, Exiting, table, sched_vars
  <2>5. /\ pid'[Init0] = 1 /\ ~killed'[Init0] /\ nextpid' > 1
        /\ \A s \in Slot : target'[s] # 1
    BY Zenon DEF Mine, TypeOK, Exit, At, Goto, StartLoop, Free, InitLives, table, sched_vars
  <2>. QED BY Zenon, <2>1, <2>2, <2>3, <2>4, <2>5 DEF Locks, Life
<1>3. CASE Reparent(c)
  <2>. USE <1>3
  <2>1. kpc'[p] # "resume" /\ (p = Init0 => kpc'[p] \notin Exiting)
    BY Zenon DEF Mine, TypeOK, Reparent, At, Goto, InitLives, Exiting
  <2>2. \/ kpc'[p] \in Waiting /\ lock[WaitLock] \in {c, None} /\ lock'[WaitLock] = c
        \/ kpc'[p] \notin Waiting /\ kpc[p] \in Waiting /\ lock'[WaitLock] = None
        \/ kpc'[p] \notin Waiting /\ kpc[p] \notin Waiting /\ lock'[WaitLock] = lock[WaitLock]
    BY Zenon DEF Mine, TypeOK, Reparent, At, Goto, Waiting, sched_vars
  <2>3. \A l \in Slot : (lock'[l] = c => Reason(c, l)') /\ lock'[l] \in {c, None, lock[l]}
    BY Zenon DEF Mine, TypeOK, Reparent, At, Goto, Reason, sched_vars
  <2>4. /\ rpc'[p] = "zombie" => state'[p] = "ZOMBIE"
        /\ p = Init0 => rpc'[p] \notin Exiting /\ state'[p] \notin {"UNUSED", "USED", "ZOMBIE"}
    BY Zenon DEF Mine, TypeOK, Reparent, At, Goto, InitLives, Exiting, sched_vars
  <2>5. /\ pid'[Init0] = 1 /\ ~killed'[Init0] /\ nextpid' > 1
        /\ \A s \in Slot : target'[s] # 1
    BY Zenon DEF Mine, TypeOK, Reparent, At, Goto, InitLives, sched_vars
  <2>. QED BY Zenon, <2>1, <2>2, <2>3, <2>4, <2>5 DEF Locks, Life
<1>4. CASE WakeInit(c)
  <2>. USE <1>4
  <2>1. kpc'[p] # "resume" /\ (p = Init0 => kpc'[p] \notin Exiting)
    BY Zenon DEF Mine, TypeOK, WakeInit, At, Goto, WakeupStep, Free, InitLives, Exiting
  <2>2. \/ kpc'[p] \in Waiting /\ lock[WaitLock] \in {c, None} /\ lock'[WaitLock] = c
        \/ kpc'[p] \notin Waiting /\ kpc[p] \in Waiting /\ lock'[WaitLock] = None
        \/ kpc'[p] \notin Waiting /\ kpc[p] \notin Waiting /\ lock'[WaitLock] = lock[WaitLock]
    BY Zenon DEF Mine, TypeOK, WakeInit, At, Goto, WakeupStep, Free, Waiting, sched_vars
  <2>3. \A l \in Slot : (lock'[l] = c => Reason(c, l)') /\ lock'[l] \in {c, None, lock[l]}
    BY Zenon DEF Mine, TypeOK, WakeInit, At, Goto, WakeupStep, Free, Reason, sched_vars
  <2>4. /\ rpc'[p] = "zombie" => state'[p] = "ZOMBIE"
        /\ p = Init0 => rpc'[p] \notin Exiting /\ state'[p] \notin {"UNUSED", "USED", "ZOMBIE"}
    BY Zenon DEF Mine, TypeOK, WakeInit, At, Goto, WakeupStep, Free, InitLives, Exiting, sched_vars
  <2>5. /\ pid'[Init0] = 1 /\ ~killed'[Init0] /\ nextpid' > 1
        /\ \A s \in Slot : target'[s] # 1
    BY Zenon DEF Mine, TypeOK, WakeInit, At, Goto, WakeupStep, Free, InitLives, sched_vars
  <2>. QED BY Zenon, <2>1, <2>2, <2>3, <2>4, <2>5 DEF Locks, Life
<1>5. CASE WakeParent(c)
  <2>. USE <1>5
  <2>1. kpc'[p] # "resume" /\ (p = Init0 => kpc'[p] \notin Exiting)
    BY Zenon DEF Mine, TypeOK, WakeParent, At, Goto, WakeupStep, Free, InitLives, Exiting
  <2>2. \/ kpc'[p] \in Waiting /\ lock[WaitLock] \in {c, None} /\ lock'[WaitLock] = c
        \/ kpc'[p] \notin Waiting /\ kpc[p] \in Waiting /\ lock'[WaitLock] = None
        \/ kpc'[p] \notin Waiting /\ kpc[p] \notin Waiting /\ lock'[WaitLock] = lock[WaitLock]
    BY Zenon DEF Mine, TypeOK, WakeParent, At, Goto, WakeupStep, Free, Waiting, sched_vars
  <2>3. \A l \in Slot : (lock'[l] = c => Reason(c, l)') /\ lock'[l] \in {c, None, lock[l]}
    BY Zenon DEF Mine, TypeOK, WakeParent, At, Goto, WakeupStep, Free, Reason, sched_vars
  <2>4. /\ rpc'[p] = "zombie" => state'[p] = "ZOMBIE"
        /\ p = Init0 => rpc'[p] \notin Exiting /\ state'[p] \notin {"UNUSED", "USED", "ZOMBIE"}
    BY Zenon DEF Mine, TypeOK, WakeParent, At, Goto, WakeupStep, Free, InitLives, Exiting, sched_vars
  <2>5. /\ pid'[Init0] = 1 /\ ~killed'[Init0] /\ nextpid' > 1
        /\ \A s \in Slot : target'[s] # 1
    BY Zenon DEF Mine, TypeOK, WakeParent, At, Goto, WakeupStep, Free, InitLives, sched_vars
  <2>. QED BY Zenon, <2>1, <2>2, <2>3, <2>4, <2>5 DEF Locks, Life
<1>6. CASE ExitLock(c)
  <2>. USE <1>6
  <2>1. kpc'[p] # "resume" /\ (p = Init0 => kpc'[p] \notin Exiting)
    BY Zenon DEF Mine, TypeOK, ExitLock, At, Goto, Free, InitLives, Exiting
  <2>2. \/ kpc'[p] \in Waiting /\ lock[WaitLock] \in {c, None} /\ lock'[WaitLock] = c
        \/ kpc'[p] \notin Waiting /\ kpc[p] \in Waiting /\ lock'[WaitLock] = None
        \/ kpc'[p] \notin Waiting /\ kpc[p] \notin Waiting /\ lock'[WaitLock] = lock[WaitLock]
    BY Zenon DEF Mine, TypeOK, ExitLock, At, Goto, Free, Waiting, table, local, sched_vars
  <2>3. \A l \in Slot : (lock'[l] = c => Reason(c, l)') /\ lock'[l] \in {c, None, lock[l]}
    BY SMTT(30) DEF Mine, TypeOK, ExitLock, At, Goto, Free, Reason, table, local, sched_vars
  <2>4. /\ rpc'[p] = "zombie" => state'[p] = "ZOMBIE"
        /\ p = Init0 => rpc'[p] \notin Exiting /\ state'[p] \notin {"UNUSED", "USED", "ZOMBIE"}
    BY Zenon DEF Mine, TypeOK, ExitLock, At, Goto, Free, InitLives, Exiting, table, local, sched_vars
  <2>5. /\ pid'[Init0] = 1 /\ ~killed'[Init0] /\ nextpid' > 1
        /\ \A s \in Slot : target'[s] # 1
    BY Zenon DEF Mine, TypeOK, ExitLock, At, Goto, Free, InitLives, table, local, sched_vars
  <2>. QED BY Zenon, <2>1, <2>2, <2>3, <2>4, <2>5 DEF Locks, Life
<1>7. CASE ExitZombie(c)
  <2>. USE <1>7
  <2>1. kpc'[p] # "resume" /\ (p = Init0 => kpc'[p] \notin Exiting)
    BY Zenon DEF Mine, TypeOK, ExitZombie, At, Goto, InitLives, Exiting
  <2>2. \/ kpc'[p] \in Waiting /\ lock[WaitLock] \in {c, None} /\ lock'[WaitLock] = c
        \/ kpc'[p] \notin Waiting /\ kpc[p] \in Waiting /\ lock'[WaitLock] = None
        \/ kpc'[p] \notin Waiting /\ kpc[p] \notin Waiting /\ lock'[WaitLock] = lock[WaitLock]
    BY Zenon DEF Mine, TypeOK, ExitZombie, At, Goto, Waiting, sched_vars
  <2>3. \A l \in Slot : (lock'[l] = c => Reason(c, l)') /\ lock'[l] \in {c, None, lock[l]}
    BY SMTT(30) DEF Mine, TypeOK, ExitZombie, At, Goto, Reason, sched_vars
  <2>4. /\ rpc'[p] = "zombie" => state'[p] = "ZOMBIE"
        /\ p = Init0 => rpc'[p] \notin Exiting /\ state'[p] \notin {"UNUSED", "USED", "ZOMBIE"}
    BY Zenon DEF Mine, TypeOK, ExitZombie, At, Goto, InitLives, Exiting, sched_vars
  <2>5. /\ pid'[Init0] = 1 /\ ~killed'[Init0] /\ nextpid' > 1
        /\ \A s \in Slot : target'[s] # 1
    BY Zenon DEF Mine, TypeOK, ExitZombie, At, Goto, InitLives, sched_vars
  <2>. QED BY Zenon, <2>1, <2>2, <2>3, <2>4, <2>5 DEF Locks, Life
<1>. QED BY Zenon, <1>2, <1>3, <1>4, <1>5, <1>6, <1>7

\* wait and sleep,
LEMMA WaitLife ==
  ASSUME HeldInv, NEW c \in CPU, Wait(c) \/ WaitScan(c) \/ WaitEnd(c) \/ Sleep(c) \/ SleepChan(c)
  PROVE  Locks(c) /\ Life(c)
<1>. DEFINE p == cproc[c]
<1>0. sp[c] = "proc"
  BY Zenon DEF Wait, WaitScan, WaitEnd, Sleep, SleepChan, At
<1>1. Mine(c, p) /\ WaitLock \notin Slot /\ WaitLock \in Lock /\ Init0 \in Slot /\ p \in Lock /\ 1 \notin KillPids
  BY Zenon, <1>0, MineAt, Ranges, ProcAssumption DEF Mine
<1>. USE <1>1
<1>2. CASE Wait(c)
  <2>. USE <1>2
  <2>1. kpc'[p] # "resume" /\ (p = Init0 => kpc'[p] \notin Exiting)
    BY Zenon DEF Mine, TypeOK, Wait, At, Goto, StartLoop, Free, InitLives, Exiting
  <2>2. \/ kpc'[p] \in Waiting /\ lock[WaitLock] \in {c, None} /\ lock'[WaitLock] = c
        \/ kpc'[p] \notin Waiting /\ kpc[p] \in Waiting /\ lock'[WaitLock] = None
        \/ kpc'[p] \notin Waiting /\ kpc[p] \notin Waiting /\ lock'[WaitLock] = lock[WaitLock]
    BY Zenon DEF Mine, TypeOK, Wait, At, Goto, StartLoop, Free, Waiting, table, sched_vars
  <2>3. \A l \in Slot : (lock'[l] = c => Reason(c, l)') /\ lock'[l] \in {c, None, lock[l]}
    BY SMTT(30) DEF Mine, TypeOK, Wait, At, Goto, StartLoop, Free, Reason, table, sched_vars
  <2>4. /\ rpc'[p] = "zombie" => state'[p] = "ZOMBIE"
        /\ p = Init0 => rpc'[p] \notin Exiting /\ state'[p] \notin {"UNUSED", "USED", "ZOMBIE"}
    BY Zenon DEF Mine, TypeOK, Wait, At, Goto, StartLoop, Free, InitLives, Exiting, table, sched_vars
  <2>5. /\ pid'[Init0] = 1 /\ ~killed'[Init0] /\ nextpid' > 1
        /\ \A s \in Slot : target'[s] # 1
    BY Zenon DEF Mine, TypeOK, Wait, At, Goto, StartLoop, Free, InitLives, table, sched_vars
  <2>. QED BY Zenon, <2>1, <2>2, <2>3, <2>4, <2>5 DEF Locks, Life
<1>3. CASE WaitScan(c)
  <2>. USE <1>3
  <2>1. kpc'[p] # "resume" /\ (p = Init0 => kpc'[p] \notin Exiting)
    BY ZenonT(30) DEF Mine, TypeOK, WaitScan, At, Goto, FreeProc, Free, InitLives, Exiting
  <2>2. \/ kpc'[p] \in Waiting /\ lock[WaitLock] \in {c, None} /\ lock'[WaitLock] = c
        \/ kpc'[p] \notin Waiting /\ kpc[p] \in Waiting /\ lock'[WaitLock] = None
        \/ kpc'[p] \notin Waiting /\ kpc[p] \notin Waiting /\ lock'[WaitLock] = lock[WaitLock]
    BY ZenonT(30) DEF Mine, TypeOK, WaitScan, At, Goto, FreeProc, Free, Waiting, table, sched_vars
  <2>3. \A l \in Slot : (lock'[l] = c => Reason(c, l)') /\ lock'[l] \in {c, None, lock[l]}
    <3>1. kpc[p] = "wait_scan" /\ (lock' = lock \/ lock' = [lock EXCEPT ![WaitLock] = None])
      BY Zenon DEF WaitScan, At
    <3>. QED BY Zenon, <3>1, Ranges DEF Mine, TypeOK
  <2>4. /\ rpc'[p] = "zombie" => state'[p] = "ZOMBIE"
        /\ p = Init0 => rpc'[p] \notin Exiting /\ state'[p] \notin {"UNUSED", "USED", "ZOMBIE"}
    <3>1. rpc' = rpc /\ kpc[p] = "wait_scan"
      BY Zenon DEF WaitScan, At
    <3>2. state[p] = "RUNNING"
      BY Zenon, <3>1 DEF Mine, ExecAt
    <3>3. state' = state \/ (state[i[p]] = "ZOMBIE" /\ state' = [state EXCEPT ![i[p]] = "UNUSED"])
      BY Zenon DEF WaitScan, FreeProc, table
    <3>4. state'[p] = "RUNNING"
      BY Zenon, <3>2, <3>3 DEF Mine, TypeOK
    <3>5. rpc[p] # "zombie" /\ (p = Init0 => rpc[p] \notin Exiting)
      BY Zenon, <3>1 DEF Mine, InitLives
    <3>. QED BY Zenon, <3>1, <3>4, <3>5
  <2>5. /\ pid'[Init0] = 1 /\ ~killed'[Init0] /\ nextpid' > 1
        /\ \A s \in Slot : target'[s] # 1
    BY ZenonT(30) DEF Mine, TypeOK, WaitScan, At, Goto, FreeProc, Free, InitLives, table, sched_vars
  <2>. QED BY Zenon, <2>1, <2>2, <2>3, <2>4, <2>5 DEF Locks, Life
<1>4. CASE WaitEnd(c)
  <2>. USE <1>4
  <2>1. kpc'[p] # "resume" /\ (p = Init0 => kpc'[p] \notin Exiting)
    BY ZenonT(30) DEF Mine, TypeOK, WaitEnd, At, Goto, Free, InitLives, Exiting
  <2>2. \/ kpc'[p] \in Waiting /\ lock[WaitLock] \in {c, None} /\ lock'[WaitLock] = c
        \/ kpc'[p] \notin Waiting /\ kpc[p] \in Waiting /\ lock'[WaitLock] = None
        \/ kpc'[p] \notin Waiting /\ kpc[p] \notin Waiting /\ lock'[WaitLock] = lock[WaitLock]
    BY ZenonT(30) DEF Mine, TypeOK, WaitEnd, At, Goto, Free, Waiting, table, local, sched_vars
  <2>3. \A l \in Slot : (lock'[l] = c => Reason(c, l)') /\ lock'[l] \in {c, None, lock[l]}
    <3>1. kpc[p] = "wait_end" /\ (lock' = lock \/ lock' = [lock EXCEPT ![WaitLock] = None])
      BY Zenon DEF WaitEnd, At
    <3>. QED BY Zenon, <3>1, Ranges DEF Mine, TypeOK
  <2>4. /\ rpc'[p] = "zombie" => state'[p] = "ZOMBIE"
        /\ p = Init0 => rpc'[p] \notin Exiting /\ state'[p] \notin {"UNUSED", "USED", "ZOMBIE"}
    BY Zenon DEF Mine, TypeOK, WaitEnd, At, Goto, Free, InitLives, Exiting, table, local, sched_vars
  <2>5. /\ pid'[Init0] = 1 /\ ~killed'[Init0] /\ nextpid' > 1
        /\ \A s \in Slot : target'[s] # 1
    BY Zenon DEF Mine, TypeOK, WaitEnd, At, Goto, Free, InitLives, table, local, sched_vars
  <2>. QED BY Zenon, <2>1, <2>2, <2>3, <2>4, <2>5 DEF Locks, Life
<1>5. CASE Sleep(c)
  <2>. USE <1>5
  <2>1. kpc'[p] # "resume" /\ (p = Init0 => kpc'[p] \notin Exiting)
    BY Zenon DEF Mine, TypeOK, Sleep, At, Goto, Free, InitLives, Exiting
  <2>2. \/ kpc'[p] \in Waiting /\ lock[WaitLock] \in {c, None} /\ lock'[WaitLock] = c
        \/ kpc'[p] \notin Waiting /\ kpc[p] \in Waiting /\ lock'[WaitLock] = None
        \/ kpc'[p] \notin Waiting /\ kpc[p] \notin Waiting /\ lock'[WaitLock] = lock[WaitLock]
    BY Zenon DEF Mine, TypeOK, Sleep, At, Goto, Free, Waiting, table, local, sched_vars
  <2>3. \A l \in Slot : (lock'[l] = c => Reason(c, l)') /\ lock'[l] \in {c, None, lock[l]}
    BY SMTT(30) DEF Mine, TypeOK, Sleep, At, Goto, Free, Reason, table, local, sched_vars
  <2>4. /\ rpc'[p] = "zombie" => state'[p] = "ZOMBIE"
        /\ p = Init0 => rpc'[p] \notin Exiting /\ state'[p] \notin {"UNUSED", "USED", "ZOMBIE"}
    BY Zenon DEF Mine, TypeOK, Sleep, At, Goto, Free, InitLives, Exiting, table, local, sched_vars
  <2>5. /\ pid'[Init0] = 1 /\ ~killed'[Init0] /\ nextpid' > 1
        /\ \A s \in Slot : target'[s] # 1
    BY Zenon DEF Mine, TypeOK, Sleep, At, Goto, Free, InitLives, table, local, sched_vars
  <2>. QED BY Zenon, <2>1, <2>2, <2>3, <2>4, <2>5 DEF Locks, Life
<1>6. CASE SleepChan(c)
  <2>. USE <1>6
  <2>1. kpc'[p] # "resume" /\ (p = Init0 => kpc'[p] \notin Exiting)
    BY Zenon DEF Mine, TypeOK, SleepChan, At, Goto, InitLives, Exiting
  <2>2. \/ kpc'[p] \in Waiting /\ lock[WaitLock] \in {c, None} /\ lock'[WaitLock] = c
        \/ kpc'[p] \notin Waiting /\ kpc[p] \in Waiting /\ lock'[WaitLock] = None
        \/ kpc'[p] \notin Waiting /\ kpc[p] \notin Waiting /\ lock'[WaitLock] = lock[WaitLock]
    BY Zenon DEF Mine, TypeOK, SleepChan, At, Goto, Waiting, sched_vars
  <2>3. \A l \in Slot : (lock'[l] = c => Reason(c, l)') /\ lock'[l] \in {c, None, lock[l]}
    BY SMTT(30) DEF Mine, TypeOK, SleepChan, At, Goto, Reason, sched_vars
  <2>4. /\ rpc'[p] = "zombie" => state'[p] = "ZOMBIE"
        /\ p = Init0 => rpc'[p] \notin Exiting /\ state'[p] \notin {"UNUSED", "USED", "ZOMBIE"}
    BY Zenon DEF Mine, TypeOK, SleepChan, At, Goto, InitLives, Exiting, sched_vars
  <2>5. /\ pid'[Init0] = 1 /\ ~killed'[Init0] /\ nextpid' > 1
        /\ \A s \in Slot : target'[s] # 1
    BY Zenon DEF Mine, TypeOK, SleepChan, At, Goto, InitLives, sched_vars
  <2>. QED BY Zenon, <2>1, <2>2, <2>3, <2>4, <2>5 DEF Locks, Life
<1>. QED BY Zenon, <1>2, <1>3, <1>4, <1>5, <1>6

\* kill, and traps and system calls.
LEMMA TrapLife ==
  ASSUME HeldInv, NEW c \in CPU, Kill(c) \/ Preempt(c) \/ Timer(c) \/ Syscall(c)
  PROVE  Locks(c) /\ Life(c)
<1>. DEFINE p == cproc[c]
<1>0. sp[c] = "proc"
  BY Zenon DEF Kill, Preempt, Timer, Syscall, At
<1>1. Mine(c, p) /\ WaitLock \notin Slot /\ WaitLock \in Lock /\ Init0 \in Slot /\ p \in Lock /\ 1 \notin KillPids
  BY Zenon, <1>0, MineAt, Ranges, ProcAssumption DEF Mine
<1>. USE <1>1
<1>2. CASE Kill(c)
  <2>. USE <1>2
  <2>1. kpc'[p] # "resume" /\ (p = Init0 => kpc'[p] \notin Exiting)
    BY Zenon DEF Mine, TypeOK, Kill, At, Goto, Free, InitLives, Exiting
  <2>2. \/ kpc'[p] \in Waiting /\ lock[WaitLock] \in {c, None} /\ lock'[WaitLock] = c
        \/ kpc'[p] \notin Waiting /\ kpc[p] \in Waiting /\ lock'[WaitLock] = None
        \/ kpc'[p] \notin Waiting /\ kpc[p] \notin Waiting /\ lock'[WaitLock] = lock[WaitLock]
    BY Zenon DEF Mine, TypeOK, Kill, At, Goto, Free, Waiting, sched_vars
  <2>3. \A l \in Slot : (lock'[l] = c => Reason(c, l)') /\ lock'[l] \in {c, None, lock[l]}
    BY Zenon DEF Mine, TypeOK, Kill, At, Goto, Free, Reason, sched_vars
  <2>4. /\ rpc'[p] = "zombie" => state'[p] = "ZOMBIE"
        /\ p = Init0 => rpc'[p] \notin Exiting /\ state'[p] \notin {"UNUSED", "USED", "ZOMBIE"}
    BY SMTT(30) DEF Mine, TypeOK, Kill, At, Goto, Free, InitLives, Exiting, sched_vars
  <2>5. /\ pid'[Init0] = 1 /\ ~killed'[Init0] /\ nextpid' > 1
        /\ \A s \in Slot : target'[s] # 1
    BY Zenon DEF Mine, TypeOK, Kill, At, Goto, Free, InitLives, sched_vars
  <2>. QED BY Zenon, <2>1, <2>2, <2>3, <2>4, <2>5 DEF Locks, Life
<1>3. CASE Preempt(c)
  <2>. USE <1>3
  <2>1. kpc'[p] # "resume" /\ (p = Init0 => kpc'[p] \notin Exiting)
    BY SMTT(30) DEF Mine, TypeOK, Preempt, At, Goto, YieldTo, Free, Preemptible, InitLives, Exiting
  <2>2. \/ kpc'[p] \in Waiting /\ lock[WaitLock] \in {c, None} /\ lock'[WaitLock] = c
        \/ kpc'[p] \notin Waiting /\ kpc[p] \in Waiting /\ lock'[WaitLock] = None
        \/ kpc'[p] \notin Waiting /\ kpc[p] \notin Waiting /\ lock'[WaitLock] = lock[WaitLock]
    BY SMTT(30) DEF Mine, TypeOK, Preempt, At, Goto, YieldTo, Free, Preemptible, Waiting, sched_vars
  <2>3. \A l \in Slot : (lock'[l] = c => Reason(c, l)') /\ lock'[l] \in {c, None, lock[l]}
    BY SMTT(30) DEF Mine, TypeOK, Preempt, At, Goto, YieldTo, Free, Preemptible, Reason, sched_vars
  <2>4. /\ rpc'[p] = "zombie" => state'[p] = "ZOMBIE"
        /\ p = Init0 => rpc'[p] \notin Exiting /\ state'[p] \notin {"UNUSED", "USED", "ZOMBIE"}
    BY SMTT(30) DEF Mine, TypeOK, Preempt, At, Goto, YieldTo, Free, Preemptible, InitLives, Exiting, sched_vars
  <2>5. /\ pid'[Init0] = 1 /\ ~killed'[Init0] /\ nextpid' > 1
        /\ \A s \in Slot : target'[s] # 1
    BY Zenon DEF Mine, TypeOK, Preempt, At, Goto, YieldTo, Free, Preemptible, InitLives, sched_vars
  <2>. QED BY Zenon, <2>1, <2>2, <2>3, <2>4, <2>5 DEF Locks, Life
<1>4. CASE Timer(c)
  <2>. USE <1>4
  <2>1. kpc'[p] # "resume" /\ (p = Init0 => kpc'[p] \notin Exiting)
    BY ZenonT(30) DEF Mine, TypeOK, Timer, At, Goto, YieldTo, Free, InitLives, Exiting
  <2>2. \/ kpc'[p] \in Waiting /\ lock[WaitLock] \in {c, None} /\ lock'[WaitLock] = c
        \/ kpc'[p] \notin Waiting /\ kpc[p] \in Waiting /\ lock'[WaitLock] = None
        \/ kpc'[p] \notin Waiting /\ kpc[p] \notin Waiting /\ lock'[WaitLock] = lock[WaitLock]
    BY SMTT(30) DEF Mine, TypeOK, Timer, At, Goto, YieldTo, Free, Waiting, table, local, sched_vars
  <2>3. \A l \in Slot : (lock'[l] = c => Reason(c, l)') /\ lock'[l] \in {c, None, lock[l]}
    <3>1. kpc[p] = "user" /\ sp' = sp /\ cproc' = cproc
      BY Zenon DEF Timer, YieldTo, At, sched_vars
    <3>2. lock' = lock \/ (lock' = [lock EXCEPT ![p] = c] /\ kpc'[p] = "sched")
      BY SMTT(30) DEF Mine, TypeOK, Timer, YieldTo, Goto, table, local
    <3>. QED BY <3>1, <3>2, Ranges DEF Mine, TypeOK, Reason
  <2>4. /\ rpc'[p] = "zombie" => state'[p] = "ZOMBIE"
        /\ p = Init0 => rpc'[p] \notin Exiting /\ state'[p] \notin {"UNUSED", "USED", "ZOMBIE"}
    BY SMTT(30) DEF Mine, TypeOK, Timer, At, Goto, YieldTo, Free, InitLives, Exiting, table, local, sched_vars
  <2>5. /\ pid'[Init0] = 1 /\ ~killed'[Init0] /\ nextpid' > 1
        /\ \A s \in Slot : target'[s] # 1
    BY Zenon DEF Mine, TypeOK, Timer, At, Goto, YieldTo, Free, InitLives, table, local, sched_vars
  <2>. QED BY Zenon, <2>1, <2>2, <2>3, <2>4, <2>5 DEF Locks, Life
<1>5. CASE Syscall(c)
  <2>. USE <1>5
  <2>1. kpc'[p] # "resume" /\ (p = Init0 => kpc'[p] \notin Exiting)
    BY ZenonT(30) DEF Mine, TypeOK, Syscall, At, Goto, StartLoop, Free, InitLives, Exiting
  <2>2. \/ kpc'[p] \in Waiting /\ lock[WaitLock] \in {c, None} /\ lock'[WaitLock] = c
        \/ kpc'[p] \notin Waiting /\ kpc[p] \in Waiting /\ lock'[WaitLock] = None
        \/ kpc'[p] \notin Waiting /\ kpc[p] \notin Waiting /\ lock'[WaitLock] = lock[WaitLock]
    <3>1. kpc[p] = "user" /\ lock' = lock
      BY Zenon DEF Syscall, At
    <3>2. \E l \in {"exit", "alloc", "wait", "kill"} : Goto(p, l)
      BY Zenon DEF Syscall
    <3>3. kpc'[p] \in {"exit", "alloc", "wait", "kill"}
      BY ZenonT(30), <3>2 DEF Mine, TypeOK, Goto
    <3>. QED BY Zenon, <3>1, <3>3 DEF Waiting
  <2>3. \A l \in Slot : (lock'[l] = c => Reason(c, l)') /\ lock'[l] \in {c, None, lock[l]}
    BY Zenon DEF Mine, TypeOK, Syscall, At, Goto, StartLoop, Free, Reason, table, sched_vars
  <2>4. /\ rpc'[p] = "zombie" => state'[p] = "ZOMBIE"
        /\ p = Init0 => rpc'[p] \notin Exiting /\ state'[p] \notin {"UNUSED", "USED", "ZOMBIE"}
    BY Zenon DEF Mine, TypeOK, Syscall, At, Goto, StartLoop, Free, InitLives, Exiting, table, sched_vars
  <2>5. /\ pid'[Init0] = 1 /\ ~killed'[Init0] /\ nextpid' > 1
        /\ \A s \in Slot : target'[s] # 1
    BY SMTT(30) DEF Mine, TypeOK, Syscall, At, Goto, StartLoop, Free, InitLives, table, sched_vars
  <2>. QED BY Zenon, <2>1, <2>2, <2>3, <2>4, <2>5 DEF Locks, Life
<1>. QED BY Zenon, <1>2, <1>3, <1>4, <1>5

-----------------------------------------------------------------------------
\* scheduler, sched and allocproc, which hand a slot from one thread to
\* another, account for every lock too,
LEMMA SchedLocks ==
  ASSUME HeldInv, NEW c \in CPU, Scan(c) \/ Back(c) \/ Sched(c) \/ AllocProc(c)
  PROVE  WaitHeld' /\ SlotsHeld'
<1>. DEFINE p == cproc[c]
<1>0. TypeOK /\ StackInv /\ WaitHeld /\ SlotsHeld /\ Apart /\ c # None
  BY Zenon, ProcAssumption DEF HeldInv, StackInv, TypeInv
<1>1. \A b \in CPU : sp[b] # "scan" => cproc[b] \in Slot /\ state[cproc[b]] # "UNUSED"
  BY Zenon, <1>0, InUse DEF OffCpu
<1>2. \A b \in CPU : b # c /\ sp[b] # "scan" /\ sp[c] # "scan" => cproc[b] # p
  BY Zenon, <1>0 DEF Apart
<1>3. CASE Scan(c)
  <2>1. CASE state' = state
    <3>1. UNCHANGED <<lock, kpc, i, cproc, sp>>
      BY Zenon, <1>0, <1>3, <2>1 DEF Scan, TypeOK, local
    <3>2. WaitHeld'
      BY Zenon, <1>0, <3>1 DEF WaitHeld, Executes
    <3>3. SlotsHeld'
      <4>1. \A b \in CPU, l \in Slot : Reason(b, l)' <=> Reason(b, l)
        BY Zenon, <3>1 DEF Reason
      <4>. QED BY Zenon, <1>0, <3>1, <4>1 DEF SlotsHeld
    <3>. QED BY Zenon, <3>2, <3>3
  <2>2. CASE state[idx[c]] = "RUNNABLE"
    <3>. DEFINE s == idx[c]
    <3>1. /\ s \in Slot /\ sp[c] = "scan" /\ lock[s] = None /\ kpc' = kpc /\ i' = i
          /\ cproc' = [cproc EXCEPT ![c] = s] /\ sp' = [sp EXCEPT ![c] = "proc"]
          /\ lock' = [lock EXCEPT ![s] = c]
      BY Zenon, <1>0, <1>3, <2>2 DEF Scan, Free, local, TypeOK
    <3>2. kpc[s] = "resume"
      BY Zenon, <1>0, <2>2, <3>1, Switchable
    <3>3. /\ cproc'[c] = s /\ sp'[c] = "proc" /\ lock'[s] = c
          /\ \A b \in CPU : b # c => cproc'[b] = cproc[b] /\ sp'[b] = sp[b]
          /\ \A l \in Slot : l # s => lock'[l] = lock[l]
          /\ lock'[WaitLock] = lock[WaitLock]
      BY <1>0, <3>1, Ranges, Zenon DEF TypeOK
    <3>4. WaitHeld'
      <4>1. ASSUME NEW r \in Slot, kpc[r] # "resume" PROVE \E b \in CPU : Executes(b, r)'
        <5>1. PICK b \in CPU : Executes(b, r)
          BY Zenon, <1>0, <4>1 DEF WaitHeld
        <5>2. b # c
          BY Zenon, <3>1, <5>1 DEF Executes
        <5>. QED BY Zenon, <3>3, <5>1, <5>2 DEF Executes
      <4>2. ASSUME NEW b \in CPU
            PROVE  lock'[WaitLock] = b <=> sp'[b] = "proc" /\ kpc'[cproc'[b]] \in Waiting
        <5>1. lock[WaitLock] = b <=> sp[b] = "proc" /\ kpc[cproc[b]] \in Waiting
          BY Zenon, <1>0 DEF WaitHeld
        <5>2. CASE b = c
          BY ZenonT(30), <3>1, <3>2, <3>3, <5>1, <5>2 DEF Waiting
        <5>3. CASE b # c
          BY ZenonT(30), <3>1, <3>3, <5>1, <5>3
        <5>. QED BY Zenon, <5>2, <5>3
      <4>. QED BY Zenon, <3>1, <4>1, <4>2 DEF WaitHeld
    <3>5. SlotsHeld'
      <4>. SUFFICES ASSUME NEW l \in Slot, NEW b \in CPU, lock'[l] = b PROVE Reason(b, l)'
        BY Zenon DEF SlotsHeld
      <4>1. CASE l = s
        BY Zenon, <3>1, <3>2, <3>3, <4>1 DEF Reason
      <4>2. CASE l # s
        <5>1. Reason(b, l)
          BY Zenon, <1>0, <3>3, <4>2 DEF SlotsHeld
        <5>2. b # c
          BY Zenon, <3>1, <5>1 DEF Reason
        <5>. QED BY Zenon, <3>1, <3>3, <5>1, <5>2 DEF Reason
      <4>. QED BY Zenon, <4>1, <4>2
    <3>. QED BY Zenon, <3>4, <3>5
  <2>. QED BY Zenon, <1>3, <2>1, <2>2 DEF Scan
<1>4. CASE Back(c)
  <2>1. /\ sp[c] = "back" /\ kpc' = kpc /\ i' = i /\ p \in Slot
        /\ cproc' = [cproc EXCEPT ![c] = Null] /\ sp' = [sp EXCEPT ![c] = "scan"]
        /\ lock' = [lock EXCEPT ![p] = None]
    BY Zenon, <1>1, <1>4 DEF Back, local
  <2>2. /\ sp'[c] = "scan" /\ lock'[p] = None
        /\ \A b \in CPU : b # c => cproc'[b] = cproc[b] /\ sp'[b] = sp[b]
        /\ \A l \in Slot : l # p => lock'[l] = lock[l]
        /\ lock'[WaitLock] = lock[WaitLock]
    BY Zenon, <1>0, <2>1, Ranges DEF TypeOK
  <2>3. WaitHeld'
    BY <1>0, <2>1, <2>2 DEF WaitHeld, Executes
  <2>4. SlotsHeld'
    <3>. SUFFICES ASSUME NEW l \in Slot, NEW b \in CPU, lock'[l] = b PROVE Reason(b, l)'
      BY Zenon DEF SlotsHeld
    <3>1. l # p
      BY Zenon, <2>2, ProcAssumption
    <3>2. Reason(b, l)
      BY Zenon, <1>0, <2>2, <3>1 DEF SlotsHeld
    <3>3. b # c
      BY Zenon, <2>1, <3>1, <3>2 DEF Reason
    <3>. QED BY Zenon, <2>1, <2>2, <3>2, <3>3 DEF Reason
  <2>. QED BY Zenon, <2>3, <2>4
<1>5. CASE Sched(c)
  <2>1. /\ sp[c] = "proc" /\ kpc[p] = "sched" /\ i' = i /\ p \in Slot /\ cproc' = cproc /\ lock' = lock
        /\ kpc' = [kpc EXCEPT ![p] = "resume"] /\ sp' = [sp EXCEPT ![c] = "back"]
    BY Zenon, <1>1, <1>5 DEF Sched, At, Goto, local
  <2>2. /\ sp'[c] = "back" /\ kpc'[p] = "resume"
        /\ \A b \in CPU : b # c => sp'[b] = sp[b]
        /\ \A t \in Slot : t # p => kpc'[t] = kpc[t]
    BY Zenon, <1>0, <2>1 DEF TypeOK
  <2>3. \A b \in CPU : b # c /\ sp[b] # "scan" => kpc'[cproc[b]] = kpc[cproc[b]]
    BY Zenon, <1>1, <1>2, <2>1, <2>2
  <2>4. WaitHeld'
    <3>1. lock[WaitLock] # c
      BY Zenon, <1>0, <2>1 DEF WaitHeld, Waiting
    <3>2. \A b \in CPU : lock[WaitLock] = b <=> sp'[b] = "proc" /\ kpc'[cproc[b]] \in Waiting
      BY SMTT(30), <1>0, <2>1, <2>2, <2>3, <3>1 DEF WaitHeld
    <3>3. \A s \in Slot : kpc'[s] # "resume" => \E b \in CPU : sp'[b] = "proc" /\ cproc[b] = s
      BY <1>0, <2>1, <2>2 DEF WaitHeld, Executes
    <3>. QED BY Zenon, <2>1, <3>2, <3>3 DEF WaitHeld, Executes
  <2>5. SlotsHeld'
    <3>. SUFFICES ASSUME NEW l \in Slot, NEW b \in CPU, lock'[l] = b PROVE Reason(b, l)'
      BY Zenon DEF SlotsHeld
    <3>1. Reason(b, l)
      BY Zenon, <1>0, <2>1 DEF SlotsHeld
    <3>2. CASE b = c
      BY Zenon, <2>1, <2>2, <3>1, <3>2 DEF Reason
    <3>3. CASE b # c
      BY Zenon, <2>1, <2>2, <2>3, <3>1, <3>3 DEF Reason
    <3>. QED BY Zenon, <3>2, <3>3
  <2>. QED BY Zenon, <2>4, <2>5
<1>6. CASE AllocProc(c)
  <2>. DEFINE s == i[p]
  <2>1. sp[c] = "proc" /\ kpc[p] = "alloc" /\ p \in Slot /\ cproc' = cproc /\ sp' = sp
    BY <1>1, <1>6, Zenon DEF AllocProc, At, sched_vars
  <2>2. \A b \in CPU : lock[WaitLock] = b => b # c
    BY <1>0, <2>1, Zenon DEF WaitHeld, Waiting
  <2>3. \A l \in Slot : lock[l] # c
    BY Zenon, <1>0, <2>1 DEF SlotsHeld, Reason
  <2>4. CASE state[s] = "UNUSED"
    <3>1. s \in Slot
      BY Zenon, <1>0, <2>1 DEF StackInv, ForkInv, Pos
    <3>2. /\ lock' = [lock EXCEPT ![s] = c] /\ i' = i
          /\ kpc' = [kpc EXCEPT ![p] = "fork_copy", ![s] = "resume"]
      BY Zenon, <1>6, <2>4 DEF AllocProc
    <3>3. p # s
      BY Zenon, <1>1, <2>1, <2>4
    <3>4. /\ kpc'[p] = "fork_copy" /\ kpc'[s] = "resume" /\ lock'[s] = c
          /\ \A t \in Slot : t # p /\ t # s => kpc'[t] = kpc[t]
          /\ \A l \in Slot : l # s => lock'[l] = lock[l]
          /\ lock'[WaitLock] = lock[WaitLock]
      BY Zenon, <1>0, <2>1, <3>1, <3>2, <3>3, Ranges DEF TypeOK
    <3>5. \A b \in CPU : b # c /\ sp[b] # "scan" => kpc'[cproc[b]] = kpc[cproc[b]] /\ cproc[b] # s
      BY <1>1, <1>2, <2>1, <2>4, <3>4, Zenon
    <3>6. WaitHeld'
      <4>1. \A b \in CPU : lock'[WaitLock] = b <=> sp[b] = "proc" /\ kpc'[cproc[b]] \in Waiting
        BY <1>0, <2>1, <2>2, <3>4, <3>5, ZenonT(30) DEF WaitHeld, Waiting
      <4>2. \A t \in Slot : kpc'[t] # "resume" => \E b \in CPU : sp[b] = "proc" /\ cproc[b] = t
        BY SMTT(30), <1>0, <2>1, <3>4 DEF WaitHeld, Executes
      <4>. QED BY Zenon, <2>1, <4>1, <4>2 DEF WaitHeld, Executes
    <3>7. SlotsHeld'
      <4>. SUFFICES ASSUME NEW l \in Slot, NEW b \in CPU, lock'[l] = b PROVE Reason(b, l)'
        BY Zenon DEF SlotsHeld
      <4>1. CASE l = s
        BY Zenon, <2>1, <3>2, <3>4, <4>1 DEF Reason
      <4>2. CASE l # s
        <5>1. Reason(b, l) /\ b # c
          BY Zenon, <1>0, <2>3, <3>4, <4>2 DEF SlotsHeld
        <5>. QED BY <2>1, <3>2, <3>5, <5>1, Zenon DEF Reason
      <4>. QED BY Zenon, <4>1, <4>2
    <3>. QED BY Zenon, <3>6, <3>7
  <2>5. CASE state[s] # "UNUSED"
    <3>1. lock' = lock /\ \A t \in Slot : t # p => kpc'[t] = kpc[t] /\ i'[t] = i[t]
      BY Zenon, <1>0, <1>6, <2>1, <2>5 DEF AllocProc, Goto, TypeOK
    <3>2. kpc'[p] \in {"alloc", "trapret"}
      BY Zenon, <1>0, <1>6, <2>1, <2>5 DEF AllocProc, Goto, TypeOK
    <3>3. \A b \in CPU : b # c /\ sp[b] # "scan" => kpc'[cproc[b]] = kpc[cproc[b]] /\ i'[cproc[b]] = i[cproc[b]]
      BY <1>1, <1>2, <2>1, <3>1, Zenon
    <3>4. WaitHeld'
      <4>1. \A b \in CPU : lock'[WaitLock] = b <=> sp[b] = "proc" /\ kpc'[cproc[b]] \in Waiting
        BY <1>0, <2>1, <2>2, <3>1, <3>2, <3>3, Zenon DEF WaitHeld, Waiting
      <4>2. \A t \in Slot : kpc'[t] # "resume" => \E b \in CPU : sp[b] = "proc" /\ cproc[b] = t
        BY Zenon, <1>0, <2>1, <3>1 DEF WaitHeld, Executes
      <4>. QED BY Zenon, <2>1, <4>1, <4>2 DEF WaitHeld, Executes
    <3>5. SlotsHeld'
      <4>. SUFFICES ASSUME NEW l \in Slot, NEW b \in CPU, lock'[l] = b PROVE Reason(b, l)'
        BY Zenon DEF SlotsHeld
      <4>1. Reason(b, l) /\ b # c
        BY Zenon, <1>0, <2>3, <3>1 DEF SlotsHeld
      <4>. QED BY Zenon, <2>1, <3>1, <3>3, <4>1 DEF Reason
    <3>. QED BY Zenon, <3>4, <3>5
  <2>. QED BY Zenon, <2>4, <2>5
<1>. QED BY Zenon, <1>3, <1>4, <1>5, <1>6

\* and keep init alive and zombies dead.
LEMMA SchedAlive ==
  ASSUME HeldInv, NEW c \in CPU, Scan(c) \/ Back(c) \/ Sched(c) \/ AllocProc(c)
  PROVE  ZombieGone' /\ InitLives'
<1>. DEFINE p == cproc[c]
<1>0. TypeOK /\ ZombieGone /\ InitLives /\ Init0 \in Slot /\ (sp[c] # "scan" => p \in Slot)
  BY Zenon, Ranges, InUse DEF HeldInv, StackInv, TypeInv
<1>1. CASE Scan(c)
  <2>1. /\ state' = state \/ (state[idx[c]] = "RUNNABLE" /\ state' = [state EXCEPT ![idx[c]] = "RUNNING"])
        /\ UNCHANGED <<kpc, rpc, pid, killed, nextpid, target>>
    BY Zenon, <1>1 DEF Scan, local
  <2>2. \A s \in Slot : state'[s] = state[s] \/ (state[s] = "RUNNABLE" /\ state'[s] = "RUNNING")
    BY Zenon, <1>0, <2>1 DEF TypeOK
  <2>. QED BY Zenon, <1>0, <2>1, <2>2 DEF ZombieGone, InitLives
<1>2. CASE Back(c)
  <2>1. UNCHANGED <<state, kpc, rpc, pid, killed, nextpid, target>>
    BY Zenon, <1>2 DEF Back, table, local
  <2>. QED BY Zenon, <1>0, <2>1 DEF ZombieGone, InitLives
<1>3. CASE Sched(c)
  <2>1. UNCHANGED <<state, rpc, pid, killed, nextpid, target>> /\ kpc' = [kpc EXCEPT ![p] = "resume"] /\ p \in Slot
    BY Zenon, <1>0, <1>3 DEF Sched, At, Goto, table, local
  <2>2. kpc'[Init0] = kpc[Init0] \/ kpc'[Init0] = "resume"
    BY Zenon, <1>0, <2>1 DEF TypeOK
  <2>. QED BY <1>0, <2>1, <2>2, Zenon DEF ZombieGone, InitLives, Exiting
<1>4. CASE AllocProc(c)
  <2>. DEFINE s == i[p]
  <2>1. sp[c] = "proc" /\ kpc[p] = "alloc" /\ p \in Slot /\ UNCHANGED <<killed, target>>
    BY <1>0, <1>4, Zenon DEF AllocProc, At
  <2>2. s \in Slot
    BY <2>1, Zenon DEF HeldInv, StackInv, ForkInv, Pos
  <2>3. CASE state[s] = "UNUSED"
    <3>1. /\ state' = [state EXCEPT ![s] = "USED"] /\ pid' = [pid EXCEPT ![s] = nextpid]
          /\ nextpid' = nextpid + 1 /\ rpc' = [rpc EXCEPT ![s] = "user"]
          /\ kpc' = [kpc EXCEPT ![p] = "fork_copy", ![s] = "resume"]
      BY Zenon, <1>4, <2>3 DEF AllocProc
    <3>2. s # Init0
      BY Zenon, <1>0, <2>3 DEF InitLives
    <3>3. ZombieGone'
      BY Zenon, <1>0, <2>2, <3>1 DEF ZombieGone, TypeOK
    <3>4. state'[Init0] = state[Init0] /\ pid'[Init0] = pid[Init0] /\ rpc'[Init0] = rpc[Init0]
          /\ kpc'[Init0] \in {kpc[Init0], "fork_copy"} /\ nextpid' > nextpid
      BY <1>0, <2>1, <2>2, <3>1, <3>2 DEF TypeOK
    <3>5. nextpid' > 1
      BY <1>0, <3>1 DEF InitLives, TypeOK
    <3>6. InitLives'
      BY <1>0, <2>1, <3>4, <3>5, Zenon DEF InitLives, Exiting
    <3>. QED BY Zenon, <3>3, <3>6
  <2>4. CASE state[s] # "UNUSED"
    <3>1. UNCHANGED <<state, pid, nextpid, rpc>> /\ (kpc' = kpc \/ kpc' = [kpc EXCEPT ![p] = "trapret"])
      BY Zenon, <1>4, <2>4 DEF AllocProc, Goto
    <3>2. kpc'[Init0] \in {kpc[Init0], "trapret"}
      BY Zenon, <1>0, <2>1, <3>1 DEF TypeOK
    <3>. QED BY <1>0, <2>1, <3>1, <3>2, Zenon DEF ZombieGone, InitLives, Exiting
  <2>. QED BY Zenon, <2>3, <2>4
<1>. QED BY Zenon, <1>1, <1>2, <1>3, <1>4

-----------------------------------------------------------------------------
\* Every step keeps all of it,
LEMMA HeldStep == HeldInv /\ [Next]_vars => HeldInv'
<1>1. ASSUME HeldInv, NEW c \in CPU, Steps(c)
      PROVE  WaitHeld' /\ SlotsHeld' /\ ZombieGone' /\ InitLives'
  <2>1. CASE Scan(c) \/ Back(c) \/ Sched(c) \/ AllocProc(c)
    BY Zenon, <1>1, <2>1, SchedLocks, SchedAlive
  <2>2. ASSUME ~(Scan(c) \/ Back(c) \/ Sched(c) \/ AllocProc(c))
        PROVE  Own(c) /\ Locks(c) /\ Life(c)
    <3>1. CASE SchedSteps(c)
      BY Zenon, <1>1, <2>2, <3>1, ForkOwn, ForkLife DEF SchedSteps, HeldInv
    <3>2. CASE ExitSteps(c)
      BY Zenon, <1>1, <3>2, ExitOwn, ExitLife, WaitOwn, WaitLife DEF ExitSteps, HeldInv
    <3>3. CASE TrapSteps(c)
      BY Zenon, <1>1, <3>3, WaitOwn, WaitLife, TrapOwn, TrapLife DEF TrapSteps, HeldInv
    <3>. QED BY Zenon, <1>1, <3>1, <3>2, <3>3 DEF Steps
  <2>. QED BY Zenon, <1>1, <2>1, <2>2, LocksStep, LifeStep
<1>2. ASSUME HeldInv, UNCHANGED vars
      PROVE  WaitHeld' /\ SlotsHeld' /\ ZombieGone' /\ InitLives'
  <2>1. UNCHANGED <<state, chan, killed, pid, parent, nextpid, lock, cproc, sp, kpc, rpc, i, j, target>>
    BY Zenon, <1>2 DEF vars
  <2>2. WaitHeld'
    BY Zenon, <1>2, <2>1 DEF HeldInv, WaitHeld, Executes
  <2>4. SlotsHeld'
    <3>1. \A b \in CPU, l \in Slot : Reason(b, l)' <=> Reason(b, l)
      BY Zenon, <2>1 DEF Reason
    <3>. QED BY Zenon, <1>2, <2>1, <3>1 DEF HeldInv, SlotsHeld
  <2>3. ZombieGone' /\ InitLives'
    BY Zenon, <1>2, <2>1 DEF HeldInv, ZombieGone, InitLives
  <2>. QED BY Zenon, <2>2, <2>3, <2>4
<1>3. HeldInv => StackInv
  BY Zenon DEF HeldInv
<1>. QED BY Zenon, <1>1, <1>2, <1>3, StackStep, NextSteps DEF HeldInv

\* so it is an invariant of the process table: who holds which lock, and what
\* init and the zombies never do.
THEOREM HeldInvariant == Spec => []HeldInv
  BY InitHeld, HeldStep, PTL DEF Spec

\* sched() never panics: whoever calls it holds p->lock and no other lock and
\* has left RUNNING; no zombie runs again, and init never reaches exit().
THEOREM NeverPanics == Spec => []NoPanic
<1>1. ASSUME HeldInv PROVE NoPanic
  <2>1. ASSUME NEW c \in CPU, At(c, "sched")
        PROVE  Held(c) = {cproc[c]} /\ state[cproc[c]] # "RUNNING"
    <3>1. Mine(c, cproc[c]) /\ kpc[cproc[c]] = "sched"
      BY Zenon, <1>1, <2>1, MineAt DEF At
    <3>2. \A l \in Lock : lock[l] = c <=> l = cproc[c]
      BY SMTT(30), <3>1, ProcAssumption DEF Mine, Waiting, ExecAt, Lock, Slot, WaitLock
    <3>3. cproc[c] \in Lock
      BY <3>1, Ranges, Zenon DEF Mine
    <3>4. state[cproc[c]] # "RUNNING"
      BY Zenon, <3>1 DEF Mine, ExecAt, OffCpu
    <3>. QED BY Zenon, <3>2, <3>3, <3>4 DEF Held
  <2>2. ASSUME NEW c \in CPU, At(c, "resume") PROVE rpc[cproc[c]] # "zombie"
    BY Zenon, <1>1, <2>2, MineAt DEF At, Mine
  <2>3. kpc[Init0] # "exit"
    BY Zenon, <1>1 DEF HeldInv, InitLives, Exiting
  <2>. QED BY Zenon, <2>1, <2>2, <2>3 DEF NoPanic
<1>. QED BY <1>1, HeldInvariant, PTL

-----------------------------------------------------------------------------
(* Parents and children.                                                   *)

\* Slots behind the loop of reparent are no longer p's children.
Disowned(p, t) ==
  \/ kpc[p] = "reparent" /\ t < i[p]
  \/ kpc[p] = "wake_init" /\ t <= i[p]
  \/ kpc[p] \in {"wake_parent", "exit_lock", "exit_zombie"}
Orphans == \A p, t \in Slot : Disowned(p, t) => parent[t] # p

\* Slots behind the scan of wait are not p's zombies.
Scanned(p, t) ==
  \/ kpc[p] = "wait_scan" /\ t < i[p]
  \/ kpc[p] \in {"wait_end", "sleep", "sleep_chan"}
NoZombies == \A p, t \in Slot : Scanned(p, t) /\ parent[t] = p => state[t] # "ZOMBIE"

\* The parent that exit has woken is awake,
Woken ==
  \A q, p \in Slot :
    /\ parent[q] = p
    /\ kpc[q] \in {"exit_lock", "exit_zombie"} \/ (kpc[q] = "wake_parent" /\ p < j[q])
    => state[p] # "SLEEPING"
\* and only init can sleep beside a zombie child, while reparent is about to
\* wake it.
Missed ==
  \A p, s \in Slot : state[p] = "SLEEPING" /\ parent[s] = p /\ state[s] = "ZOMBIE"
    => p = Init0 /\ \E q \in Slot : kpc[q] = "wake_init" /\ j[q] = 1

\* A sleeper's channel is itself.
OwnChan == \A p \in Slot : state[p] = "SLEEPING" => chan[p] = p

Family == ParentAlive /\ Orphans /\ NoZombies /\ Woken /\ Missed /\ OwnChan
FamilyInv == HeldInv /\ Family

-----------------------------------------------------------------------------
\* Nobody has a parent, sleeps or waits at boot.
LEMMA InitFamily == Init => FamilyInv
<1>. SUFFICES ASSUME Init PROVE FamilyInv
  OBVIOUS
<1>1. Family
  BY Zenon, ProcAssumption, Ranges DEF Init, Family, ParentAlive, Orphans, Disowned, NoZombies, Scanned, Woken, Missed, OwnChan
<1>. QED BY Zenon, <1>1, InitHeld DEF FamilyInv

-----------------------------------------------------------------------------
\* A step outside exit and wait: nobody inside them moves, nobody falls asleep
\* or dies, no slot gets a parent, and none with a parent becomes free.
Quiet ==
  /\ \A s \in Slot : kpc'[s] \in Waiting \/ kpc[s] \in Waiting =>
       kpc'[s] = kpc[s] /\ i'[s] = i[s] /\ j'[s] = j[s]
  /\ \A s \in Slot : state'[s] \in {"SLEEPING", "ZOMBIE"} => state'[s] = state[s] /\ chan'[s] = chan[s]
  /\ \A s \in Slot : state'[s] \in {"UNUSED", "USED"} => state[s] \in {"UNUSED", "USED"}
  /\ \A s \in Slot : parent'[s] # Null =>
       parent'[s] = parent[s] /\ (state[s] # "UNUSED" => state'[s] # "UNUSED")

\* Such a step keeps families as they are.
LEMMA QuietStep ==
  ASSUME FamilyInv, Quiet
  PROVE  Family'
<1>0. Family /\ \A s \in Slot : parent[s] # Null => parent[s] \in Slot
  <2>1. \A s \in Slot : parent[s] \in 0..NPROC
    BY DEF FamilyInv, HeldInv, StackInv, TypeInv, TypeOK
  <2>. QED BY <2>1, ProcAssumption DEF FamilyInv, Slot, Null
<1>1. ParentAlive'
  BY <1>0 DEF Quiet, Family, ParentAlive
<1>2. Null \notin Slot
  BY ProcAssumption DEF Null, Slot
<1>3. \A t, p \in Slot : parent'[t] = p => parent[t] = p
  BY Zenon, <1>2 DEF Quiet
<1>4. Orphans'
  BY <1>0, <1>3 DEF Quiet, Family, Orphans, Disowned, Waiting
<1>5. NoZombies'
  BY <1>0, <1>3 DEF Quiet, Family, NoZombies, Scanned, Waiting
<1>6. Woken'
  BY <1>0, <1>3 DEF Quiet, Family, Woken, Waiting
<1>7. Missed'
  <2>. SUFFICES ASSUME NEW p \in Slot, NEW s \in Slot,
                       state'[p] = "SLEEPING", parent'[s] = p, state'[s] = "ZOMBIE"
                PROVE  p = Init0 /\ \E q \in Slot : kpc'[q] = "wake_init" /\ j'[q] = 1
    BY Zenon DEF Missed
  <2>1. state[p] = "SLEEPING" /\ parent[s] = p /\ state[s] = "ZOMBIE"
    BY Zenon, <1>3 DEF Quiet
  <2>2. p = Init0 /\ \E q \in Slot : kpc[q] = "wake_init" /\ j[q] = 1
    BY Zenon, <1>0, <2>1 DEF Family, Missed
  <2>. QED BY Zenon, <2>2 DEF Quiet, Waiting
<1>8. OwnChan'
  BY Zenon, <1>0 DEF Quiet, Family, OwnChan
<1>. QED BY Zenon, <1>1, <1>4, <1>5, <1>6, <1>7, <1>8 DEF Family

\* A step inside exit or wait that changes no state and no parent.
Inside(c) ==
  LET p == cproc[c] IN
  /\ state' = state /\ parent' = parent /\ chan' = chan
  /\ \A s \in Slot : s # p => kpc'[s] = kpc[s] /\ i'[s] = i[s] /\ j'[s] = j[s]
  /\ \A t \in Slot : Disowned(p, t)' => parent[t] # p
  /\ \A t \in Slot : Scanned(p, t)' /\ parent[t] = p => state[t] # "ZOMBIE"
  /\ \A t \in Slot :
       /\ parent[p] = t
       /\ kpc'[p] \in {"exit_lock", "exit_zombie"} \/ (kpc'[p] = "wake_parent" /\ t < j'[p])
       => state[t] # "SLEEPING"
  /\ kpc[p] = "wake_init" /\ j[p] = 1 /\ state[Init0] = "SLEEPING" => kpc'[p] = "wake_init" /\ j'[p] = 1

\* It keeps families too.
LEMMA InsideStep ==
  ASSUME FamilyInv, NEW c \in CPU, cproc[c] \in Slot, cproc' = cproc, Inside(c)
  PROVE  Family'
<1>. DEFINE p == cproc[c]
<1>0. Family
  BY Zenon DEF FamilyInv
<1>1. ParentAlive' /\ OwnChan'
  BY Zenon, <1>0 DEF Inside, Family, ParentAlive, OwnChan
<1>2. Orphans'
  BY <1>0 DEF Inside, Family, Orphans, Disowned
<1>3. NoZombies'
  BY <1>0 DEF Inside, Family, NoZombies, Scanned
<1>4. Woken'
  <2>. SUFFICES ASSUME NEW q \in Slot, NEW t \in Slot, parent'[q] = t,
                       kpc'[q] \in {"exit_lock", "exit_zombie"} \/ (kpc'[q] = "wake_parent" /\ t < j'[q])
                PROVE  state'[t] # "SLEEPING"
    BY Zenon DEF Woken
  <2>1. CASE q = p
    BY Zenon, <2>1 DEF Inside
  <2>2. CASE q # p
    <3>1. parent[q] = t /\ kpc'[q] = kpc[q] /\ j'[q] = j[q] /\ state' = state
      BY Zenon, <2>2 DEF Inside
    <3>. QED BY Zenon, <1>0, <3>1 DEF Family, Woken
  <2>. QED BY Zenon, <2>1, <2>2
<1>5. Missed'
  BY ZenonT(30), <1>0 DEF Inside, Family, Missed
<1>. QED BY Zenon, <1>1, <1>2, <1>3, <1>4, <1>5 DEF Family

\* The scheduler, and fork but for the step that makes the child a child, are quiet.
LEMMA SchedQuiet ==
  ASSUME FamilyInv, NEW c \in CPU,
         Scan(c) \/ Back(c) \/ Sched(c) \/ Resume(c) \/ TrapRet(c) \/ AllocProc(c) \/ ForkCopy(c) \/ ForkFail(c) \/ ForkRun(c)
  PROVE  Quiet
<1>. DEFINE p == cproc[c]
<1>1. TypeOK /\ (sp[c] # "scan" => p \in Slot)
  BY Zenon, HasProc DEF FamilyInv, HeldInv, StackInv, TypeInv
<1>2. sp[c] = "proc" => Mine(c, p)
  BY Zenon, MineAt DEF FamilyInv
<1>. USE <1>1, <1>2
<1>3. CASE Scan(c)
  <2>. USE <1>3
  <2>1. \A s \in Slot : kpc'[s] \in Waiting \/ kpc[s] \in Waiting =>
          kpc'[s] = kpc[s] /\ i'[s] = i[s] /\ j'[s] = j[s]
    BY Zenon DEF TypeOK, Scan, Waiting, table, local, sched_vars
  <2>2. \A s \in Slot : state'[s] \in {"SLEEPING", "ZOMBIE"} => state'[s] = state[s] /\ chan'[s] = chan[s]
    BY Zenon DEF TypeOK, Scan, Mine, ExecAt, table, local, sched_vars
  <2>3. \A s \in Slot : state'[s] \in {"UNUSED", "USED"} => state[s] \in {"UNUSED", "USED"}
    BY Zenon DEF TypeOK, Scan, table, local, sched_vars
  <2>4. \A s \in Slot : parent'[s] # Null =>
          parent'[s] = parent[s] /\ (state[s] # "UNUSED" => state'[s] # "UNUSED")
    BY Zenon DEF TypeOK, Scan, table, local, sched_vars
  <2>. QED BY Zenon, <2>1, <2>2, <2>3, <2>4 DEF Quiet
<1>4. CASE Back(c)
  <2>. USE <1>4
  <2>1. \A s \in Slot : kpc'[s] \in Waiting \/ kpc[s] \in Waiting =>
          kpc'[s] = kpc[s] /\ i'[s] = i[s] /\ j'[s] = j[s]
    BY Zenon DEF TypeOK, Back, Waiting, table, local, sched_vars
  <2>2. \A s \in Slot : state'[s] \in {"SLEEPING", "ZOMBIE"} => state'[s] = state[s] /\ chan'[s] = chan[s]
    BY Zenon DEF TypeOK, Back, Mine, ExecAt, table, local, sched_vars
  <2>3. \A s \in Slot : state'[s] \in {"UNUSED", "USED"} => state[s] \in {"UNUSED", "USED"}
    BY Zenon DEF TypeOK, Back, table, local, sched_vars
  <2>4. \A s \in Slot : parent'[s] # Null =>
          parent'[s] = parent[s] /\ (state[s] # "UNUSED" => state'[s] # "UNUSED")
    BY Zenon DEF TypeOK, Back, table, local, sched_vars
  <2>. QED BY Zenon, <2>1, <2>2, <2>3, <2>4 DEF Quiet
<1>5. CASE Sched(c)
  <2>. USE <1>5
  <2>1. \A s \in Slot : kpc'[s] \in Waiting \/ kpc[s] \in Waiting =>
          kpc'[s] = kpc[s] /\ i'[s] = i[s] /\ j'[s] = j[s]
    BY Zenon DEF TypeOK, Sched, At, Goto, Waiting, table, local, sched_vars
  <2>2. \A s \in Slot : state'[s] \in {"SLEEPING", "ZOMBIE"} => state'[s] = state[s] /\ chan'[s] = chan[s]
    BY Zenon DEF TypeOK, Sched, At, Goto, Mine, ExecAt, table, local, sched_vars
  <2>3. \A s \in Slot : state'[s] \in {"UNUSED", "USED"} => state[s] \in {"UNUSED", "USED"}
    BY Zenon DEF TypeOK, Sched, At, Goto, table, local, sched_vars
  <2>4. \A s \in Slot : parent'[s] # Null =>
          parent'[s] = parent[s] /\ (state[s] # "UNUSED" => state'[s] # "UNUSED")
    BY Zenon DEF TypeOK, Sched, At, Goto, table, local, sched_vars
  <2>. QED BY Zenon, <2>1, <2>2, <2>3, <2>4 DEF Quiet
<1>6. CASE Resume(c)
  <2>. USE <1>6
  <2>1. \A s \in Slot : kpc'[s] \in Waiting \/ kpc[s] \in Waiting =>
          kpc'[s] = kpc[s] /\ i'[s] = i[s] /\ j'[s] = j[s]
    BY Zenon DEF TypeOK, Resume, At, Goto, RPC, Preemptible, Waiting, table, local, sched_vars
  <2>2. \A s \in Slot : state'[s] \in {"SLEEPING", "ZOMBIE"} => state'[s] = state[s] /\ chan'[s] = chan[s]
    BY Zenon DEF TypeOK, Resume, At, Goto, RPC, Preemptible, Mine, ExecAt, table, local, sched_vars
  <2>3. \A s \in Slot : state'[s] \in {"UNUSED", "USED"} => state[s] \in {"UNUSED", "USED"}
    BY Zenon DEF TypeOK, Resume, At, Goto, RPC, Preemptible, table, local, sched_vars
  <2>4. \A s \in Slot : parent'[s] # Null =>
          parent'[s] = parent[s] /\ (state[s] # "UNUSED" => state'[s] # "UNUSED")
    BY Zenon DEF TypeOK, Resume, At, Goto, RPC, Preemptible, table, local, sched_vars
  <2>. QED BY Zenon, <2>1, <2>2, <2>3, <2>4 DEF Quiet
<1>7. CASE TrapRet(c)
  <2>. USE <1>7
  <2>1. \A s \in Slot : kpc'[s] \in Waiting \/ kpc[s] \in Waiting =>
          kpc'[s] = kpc[s] /\ i'[s] = i[s] /\ j'[s] = j[s]
    BY Zenon DEF TypeOK, TrapRet, At, Goto, StartLoop, Waiting, table, local, sched_vars
  <2>2. \A s \in Slot : state'[s] \in {"SLEEPING", "ZOMBIE"} => state'[s] = state[s] /\ chan'[s] = chan[s]
    BY Zenon DEF TypeOK, TrapRet, At, Goto, StartLoop, Mine, ExecAt, table, local, sched_vars
  <2>3. \A s \in Slot : state'[s] \in {"UNUSED", "USED"} => state[s] \in {"UNUSED", "USED"}
    BY Zenon DEF TypeOK, TrapRet, At, Goto, StartLoop, table, local, sched_vars
  <2>4. \A s \in Slot : parent'[s] # Null =>
          parent'[s] = parent[s] /\ (state[s] # "UNUSED" => state'[s] # "UNUSED")
    BY Zenon DEF TypeOK, TrapRet, At, Goto, StartLoop, table, local, sched_vars
  <2>. QED BY Zenon, <2>1, <2>2, <2>3, <2>4 DEF Quiet
<1>8. CASE AllocProc(c)
  <2>. USE <1>8
  <2>1. \A s \in Slot : kpc'[s] \in Waiting \/ kpc[s] \in Waiting =>
          kpc'[s] = kpc[s] /\ i'[s] = i[s] /\ j'[s] = j[s]
    <3>1. ASSUME NEW s \in Slot, state[s] = "UNUSED" PROVE kpc[s] \notin Waiting
      <4>1. \A b \in CPU : ~Executes(b, s)
        BY Zenon, <3>1, InUse DEF Executes, OffCpu, FamilyInv, HeldInv
      <4>. QED BY Zenon, <4>1 DEF FamilyInv, HeldInv, WaitHeld, Waiting
    <3>2. kpc[p] = "alloc" /\ j' = j /\ p \in Slot
      BY Zenon DEF AllocProc, At
    <3>3. CASE state[i[p]] = "UNUSED"
      BY <3>1, <3>2, <3>3 DEF TypeOK, AllocProc, Waiting
    <3>4. CASE state[i[p]] # "UNUSED"
      BY ZenonT(30), <3>2, <3>4 DEF TypeOK, AllocProc, Goto, Waiting
    <3>. QED BY Zenon, <3>3, <3>4
  <2>2. \A s \in Slot : state'[s] \in {"SLEEPING", "ZOMBIE"} => state'[s] = state[s] /\ chan'[s] = chan[s]
    BY Zenon DEF TypeOK, AllocProc, At, Goto, Mine, ExecAt, table, local, sched_vars
  <2>3. \A s \in Slot : state'[s] \in {"UNUSED", "USED"} => state[s] \in {"UNUSED", "USED"}
    BY Zenon DEF TypeOK, AllocProc, At, Goto, table, local, sched_vars
  <2>4. \A s \in Slot : parent'[s] # Null =>
          parent'[s] = parent[s] /\ (state[s] # "UNUSED" => state'[s] # "UNUSED")
    BY Zenon DEF TypeOK, AllocProc, At, Goto, table, local, sched_vars
  <2>. QED BY Zenon, <2>1, <2>2, <2>3, <2>4 DEF Quiet
<1>9. CASE ForkCopy(c)
  <2>. USE <1>9
  <2>1. \A s \in Slot : kpc'[s] \in Waiting \/ kpc[s] \in Waiting =>
          kpc'[s] = kpc[s] /\ i'[s] = i[s] /\ j'[s] = j[s]
    BY Zenon DEF TypeOK, ForkCopy, At, Goto, Waiting, table, local, sched_vars
  <2>2. \A s \in Slot : state'[s] \in {"SLEEPING", "ZOMBIE"} => state'[s] = state[s] /\ chan'[s] = chan[s]
    BY Zenon DEF TypeOK, ForkCopy, At, Goto, Mine, ExecAt, table, local, sched_vars
  <2>3. \A s \in Slot : state'[s] \in {"UNUSED", "USED"} => state[s] \in {"UNUSED", "USED"}
    BY Zenon DEF TypeOK, ForkCopy, At, Goto, table, local, sched_vars
  <2>4. \A s \in Slot : parent'[s] # Null =>
          parent'[s] = parent[s] /\ (state[s] # "UNUSED" => state'[s] # "UNUSED")
    BY Zenon DEF TypeOK, ForkCopy, At, Goto, table, local, sched_vars
  <2>. QED BY Zenon, <2>1, <2>2, <2>3, <2>4 DEF Quiet
<1>10. CASE ForkFail(c)
  <2>. USE <1>10
  <2>1. \A s \in Slot : kpc'[s] \in Waiting \/ kpc[s] \in Waiting =>
          kpc'[s] = kpc[s] /\ i'[s] = i[s] /\ j'[s] = j[s]
    BY Zenon DEF TypeOK, ForkFail, At, Goto, FreeProc, Waiting, table, local, sched_vars
  <2>2. \A s \in Slot : state'[s] \in {"SLEEPING", "ZOMBIE"} => state'[s] = state[s] /\ chan'[s] = chan[s]
    BY Zenon DEF TypeOK, ForkFail, At, Goto, FreeProc, Mine, ExecAt, table, local, sched_vars
  <2>3. \A s \in Slot : state'[s] \in {"UNUSED", "USED"} => state[s] \in {"UNUSED", "USED"}
    BY Zenon DEF TypeOK, ForkFail, At, FreeProc, Mine
  <2>4. \A s \in Slot : parent'[s] # Null =>
          parent'[s] = parent[s] /\ (state[s] # "UNUSED" => state'[s] # "UNUSED")
    BY Zenon DEF TypeOK, ForkFail, At, Goto, FreeProc, table, local, sched_vars
  <2>. QED BY Zenon, <2>1, <2>2, <2>3, <2>4 DEF Quiet
<1>11. CASE ForkRun(c)
  <2>. USE <1>11
  <2>1. \A s \in Slot : kpc'[s] \in Waiting \/ kpc[s] \in Waiting =>
          kpc'[s] = kpc[s] /\ i'[s] = i[s] /\ j'[s] = j[s]
    BY Zenon DEF TypeOK, ForkRun, At, Goto, Waiting, table, local, sched_vars
  <2>2. \A s \in Slot : state'[s] \in {"SLEEPING", "ZOMBIE"} => state'[s] = state[s] /\ chan'[s] = chan[s]
    BY Zenon DEF TypeOK, ForkRun, At, Goto, Mine, ExecAt, table, local, sched_vars
  <2>3. \A s \in Slot : state'[s] \in {"UNUSED", "USED"} => state[s] \in {"UNUSED", "USED"}
    BY Zenon DEF TypeOK, ForkRun, At, Goto, table, local, sched_vars
  <2>4. \A s \in Slot : parent'[s] # Null =>
          parent'[s] = parent[s] /\ (state[s] # "UNUSED" => state'[s] # "UNUSED")
    BY Zenon DEF TypeOK, ForkRun, At, Goto, table, local, sched_vars
  <2>. QED BY Zenon, <2>1, <2>2, <2>3, <2>4 DEF Quiet
<1>. QED BY Zenon, <1>3, <1>4, <1>5, <1>6, <1>7, <1>8, <1>9, <1>10, <1>11

\* So are kill, traps and system calls.
LEMMA TrapQuiet ==
  ASSUME FamilyInv, NEW c \in CPU,
         Kill(c) \/ Preempt(c) \/ Timer(c) \/ Syscall(c)
  PROVE  Quiet
<1>. DEFINE p == cproc[c]
<1>1. TypeOK /\ (sp[c] # "scan" => p \in Slot)
  BY Zenon, HasProc DEF FamilyInv, HeldInv, StackInv, TypeInv
<1>2. sp[c] = "proc" => Mine(c, p)
  BY Zenon, MineAt DEF FamilyInv
<1>. USE <1>1, <1>2
<1>3. CASE Kill(c)
  <2>. USE <1>3
  <2>1. \A s \in Slot : kpc'[s] \in Waiting \/ kpc[s] \in Waiting =>
          kpc'[s] = kpc[s] /\ i'[s] = i[s] /\ j'[s] = j[s]
    BY Zenon DEF TypeOK, Kill, At, Goto, Waiting, table, local, sched_vars
  <2>0. /\ chan' = chan /\ parent' = parent
        /\ \A s \in Slot : state'[s] = state[s] \/ (state[s] = "SLEEPING" /\ state'[s] = "RUNNABLE")
    <3>1. /\ chan' = chan /\ parent' = parent
          /\ \/ state' = state
             \/ state' = [state EXCEPT ![i[p]] = IF @ = "SLEEPING" THEN "RUNNABLE" ELSE @]
      BY Zenon DEF Kill, table, local, sched_vars
    <3>. QED BY Zenon, <3>1 DEF TypeOK
  <2>2. \A s \in Slot : state'[s] \in {"SLEEPING", "ZOMBIE"} => state'[s] = state[s] /\ chan'[s] = chan[s]
    BY Zenon, <2>0
  <2>3. \A s \in Slot : state'[s] \in {"UNUSED", "USED"} => state[s] \in {"UNUSED", "USED"}
    BY Zenon, <2>0
  <2>4. \A s \in Slot : parent'[s] # Null =>
          parent'[s] = parent[s] /\ (state[s] # "UNUSED" => state'[s] # "UNUSED")
    BY Zenon, <2>0
  <2>. QED BY Zenon, <2>1, <2>2, <2>3, <2>4 DEF Quiet
<1>4. CASE Preempt(c) \/ Timer(c)
  <2>1. /\ sp[c] = "proc" /\ kpc[p] \notin Waiting /\ i' = i /\ j' = j /\ parent' = parent /\ chan' = chan
        /\ \E pc \in {"sched", "exit"} : kpc' = [kpc EXCEPT ![p] = pc]
        /\ state' = state \/ state' = [state EXCEPT ![p] = "RUNNABLE"]
    BY <1>4, Zenon DEF Preempt, Timer, At, Goto, YieldTo, Preemptible, Waiting, table, local
  <2>2. /\ \A s \in Slot : s # p => kpc'[s] = kpc[s] /\ state'[s] = state[s]
        /\ kpc'[p] \notin Waiting /\ state'[p] \in {"RUNNING", "RUNNABLE"} /\ p \in Slot
    <3>1. state[p] = "RUNNING"
      BY Zenon, <1>4, <2>1 DEF Preempt, Timer, At, Mine, ExecAt, Preemptible
    <3>. QED BY <2>1, <3>1 DEF TypeOK, Waiting
  <2>. QED BY Zenon, <2>1, <2>2 DEF Quiet
<1>6. CASE Syscall(c)
  <2>. USE <1>6
  <2>1. \A s \in Slot : kpc'[s] \in Waiting \/ kpc[s] \in Waiting =>
          kpc'[s] = kpc[s] /\ i'[s] = i[s] /\ j'[s] = j[s]
    BY DEF TypeOK, Syscall, At, Goto, StartLoop, Waiting, table, local, sched_vars
  <2>2. \A s \in Slot : state'[s] \in {"SLEEPING", "ZOMBIE"} => state'[s] = state[s] /\ chan'[s] = chan[s]
    BY Zenon DEF TypeOK, Syscall, At, Goto, StartLoop, Mine, ExecAt, table, local, sched_vars
  <2>3. \A s \in Slot : state'[s] \in {"UNUSED", "USED"} => state[s] \in {"UNUSED", "USED"}
    BY Zenon DEF TypeOK, Syscall, At, Goto, StartLoop, table, local, sched_vars
  <2>4. \A s \in Slot : parent'[s] # Null =>
          parent'[s] = parent[s] /\ (state[s] # "UNUSED" => state'[s] # "UNUSED")
    BY Zenon DEF TypeOK, Syscall, At, Goto, StartLoop, table, local, sched_vars
  <2>. QED BY Zenon, <2>1, <2>2, <2>3, <2>4 DEF Quiet
<1>. QED BY Zenon, <1>3, <1>4, <1>6

-----------------------------------------------------------------------------
\* exit and wait, in the steps that only move p, keep families.
LEMMA InsideSteps ==
  ASSUME FamilyInv, NEW c \in CPU, Exit(c) \/ ExitLock(c) \/ Wait(c) \/ WaitEnd(c) \/ Sleep(c)
  PROVE  Family'
<1>. DEFINE p == cproc[c]
<1>0. sp[c] = "proc" /\ cproc' = cproc
  BY Zenon DEF Exit, ExitLock, Wait, WaitEnd, Sleep, At, sched_vars
<1>1. Mine(c, p) /\ Family /\ p \in Slot
  BY Zenon, <1>0, MineAt DEF FamilyInv, Mine
<1>2. state' = state /\ parent' = parent /\ chan' = chan /\ j' = j
  BY Zenon DEF Exit, ExitLock, Wait, WaitEnd, Sleep, table, local
<1>3. \A s \in Slot : s # p => kpc'[s] = kpc[s] /\ i'[s] = i[s] /\ j'[s] = j[s]
  <2>1. i' = i \/ i' = [i EXCEPT ![p] = 1]
    BY Zenon DEF Exit, ExitLock, Wait, WaitEnd, Sleep, StartLoop, local
  <2>2. \E pc : kpc' = [kpc EXCEPT ![p] = pc]
    BY Zenon DEF Exit, ExitLock, Wait, WaitEnd, Sleep, Goto
  <2>. QED BY Zenon, <1>1, <1>2, <2>1, <2>2 DEF Mine, TypeOK
<1>4. \/ kpc'[p] \in {"reparent", "wait_scan"} /\ i'[p] = 1
      \/ kpc[p] = "exit_lock" /\ kpc'[p] = "exit_zombie" /\ i' = i
      \/ kpc[p] \in {"wait_end", "sleep"} /\ kpc'[p] \in {"sleep", "sleep_chan", "trapret"} /\ i' = i
  BY Zenon, <1>1 DEF Mine, TypeOK, Exit, ExitLock, Wait, WaitEnd, Sleep, At, Goto, StartLoop, local
<1>5. \A t \in Slot : ~(t < 1)
  BY ProcAssumption DEF Slot
<1>6. \A t \in Slot : Disowned(p, t)' => parent[t] # p
  BY Zenon, <1>0, <1>1, <1>4, <1>5 DEF Disowned, Family, Orphans
<1>7. \A t \in Slot : Scanned(p, t)' /\ parent[t] = p => state[t] # "ZOMBIE"
  BY Zenon, <1>0, <1>1, <1>4, <1>5 DEF Scanned, Family, NoZombies
<1>8. \A t \in Slot :
       /\ parent[p] = t
       /\ kpc'[p] \in {"exit_lock", "exit_zombie"} \/ (kpc'[p] = "wake_parent" /\ t < j'[p])
       => state[t] # "SLEEPING"
  BY Zenon, <1>1, <1>4 DEF Family, Woken
<1>9. kpc[p] # "wake_init"
  BY Zenon DEF Exit, ExitLock, Wait, WaitEnd, Sleep, At
<1>10. Inside(c)
  BY Zenon, <1>2, <1>3, <1>6, <1>7, <1>8, <1>9 DEF Inside
<1>. QED BY Zenon, <1>0, <1>1, <1>10, InsideStep

\* With nobody inside exit and wait after the step, only three parts of Family
\* say anything.
LEMMA LeaveStep ==
  ASSUME \A q \in Slot : kpc'[q] \notin Waiting, ParentAlive', Missed', OwnChan'
  PROVE  Family'
<1>1. Orphans' /\ NoZombies' /\ Woken'
  BY Zenon DEF Orphans, Disowned, NoZombies, Scanned, Woken, Waiting
<1>. QED BY Zenon, <1>1 DEF Family

\* While p is in exit or wait but not waking init, nobody sleeps beside a
\* zombie child.
LEMMA NoneMissed ==
  ASSUME FamilyInv, NEW p \in Slot, kpc[p] \in Waiting, kpc[p] # "wake_init" \/ j[p] # 1,
         NEW r \in Slot, NEW s \in Slot, state[r] = "SLEEPING", parent[s] = r
  PROVE  state[s] # "ZOMBIE"
<1>1. SUFFICES ASSUME state[s] = "ZOMBIE" PROVE FALSE
  OBVIOUS
<1>2. PICK q \in Slot : kpc[q] = "wake_init" /\ j[q] = 1
  BY Zenon, <1>1 DEF FamilyInv, Family, Missed
<1>3. q = p
  BY Zenon, <1>2, WaitAlone DEF FamilyInv, HeldInv, Waiting
<1>. QED BY Zenon, <1>2, <1>3

\* fork makes the child p's, and exit, sleep and wait leave their critical
\* section: families stay whole.
LEMMA LeaveSteps ==
  ASSUME FamilyInv, NEW c \in CPU, ForkParent(c) \/ ExitZombie(c) \/ SleepChan(c)
  PROVE  Family'
<1>. DEFINE p == cproc[c]
<1>0. sp[c] = "proc" /\ cproc' = cproc
  BY Zenon DEF ForkParent, ExitZombie, SleepChan, At, sched_vars
<1>1. Mine(c, p) /\ Family /\ p \in Slot /\ TypeOK
  BY Zenon, <1>0, MineAt DEF FamilyInv, Mine
<1>2. Init0 # Null /\ Null \notin Slot
  BY Ranges, ProcAssumption DEF Slot, Null, Init0
<1>3. CASE ForkParent(c)
  <2>1. \A q \in Slot : kpc[q] \notin Waiting
    BY Zenon, <1>3, WaitNone DEF ForkParent, FamilyInv, HeldInv
  <2>2. kpc[p] = "fork_parent" /\ kpc' = [kpc EXCEPT ![p] = "fork_run"] /\ parent' = [parent EXCEPT ![i[p]] = p]
        /\ state' = state /\ chan' = chan
    BY Zenon, <1>3 DEF ForkParent, At, Goto
  <2>3. i[p] \in Slot /\ state[i[p]] = "USED" /\ state[p] = "RUNNING"
    BY Zenon, <1>1, <2>2 DEF Mine, ExecAt
  <2>4. \A q \in Slot : kpc'[q] \notin Waiting
    BY Zenon, <1>1, <2>1, <2>2 DEF TypeOK, Waiting
  <2>5. ParentAlive'
    BY Zenon, <1>1, <2>2, <2>3 DEF TypeOK, Family, ParentAlive
  <2>6. Missed'
    <3>1. \A r, s \in Slot : ~(state[r] = "SLEEPING" /\ parent[s] = r /\ state[s] = "ZOMBIE")
      BY Zenon, <1>1, <2>1 DEF Family, Missed, Waiting
    <3>. QED BY Zenon, <1>1, <2>2, <2>3, <3>1 DEF TypeOK, Missed
  <2>7. OwnChan'
    BY Zenon, <1>1, <2>2 DEF Family, OwnChan
  <2>. QED BY Zenon, <2>4, <2>5, <2>6, <2>7, LeaveStep
<1>4. CASE ExitZombie(c)
  <2>1. /\ kpc[p] = "exit_zombie" /\ kpc' = [kpc EXCEPT ![p] = "sched"]
        /\ state' = [state EXCEPT ![p] = "ZOMBIE"] /\ parent' = parent /\ chan' = chan
    BY Zenon, <1>4 DEF ExitZombie, At, Goto
  <2>2. \A t \in Slot : parent[t] # p
    BY Zenon, <1>1, <2>1 DEF Family, Orphans, Disowned
  <2>3. \A q \in Slot : kpc'[q] \notin Waiting
    BY Zenon, <1>1, <2>1, WaitAlone DEF TypeOK, Waiting, FamilyInv, HeldInv
  <2>4. ParentAlive'
    BY <1>1, <2>1, <2>2 DEF TypeOK, Family, ParentAlive
  <2>5. Missed'
    <3>. SUFFICES ASSUME NEW r \in Slot, NEW s \in Slot,
                         state'[r] = "SLEEPING", parent'[s] = r, state'[s] = "ZOMBIE"
                  PROVE  FALSE
      BY Zenon DEF Missed
    <3>1. state[r] = "SLEEPING" /\ parent[s] = r
      BY Zenon, <1>1, <2>1 DEF TypeOK
    <3>2. CASE s = p
      BY Zenon, <1>1, <2>1, <3>1, <3>2 DEF Family, Woken
    <3>3. CASE s # p
      <4>1. state[s] = "ZOMBIE"
        BY Zenon, <1>1, <2>1, <3>3 DEF TypeOK
      <4>. QED BY Zenon, <1>1, <2>1, <3>1, <4>1, NoneMissed DEF Waiting
    <3>. QED BY Zenon, <3>2, <3>3
  <2>6. OwnChan'
    BY Zenon, <1>1, <2>1 DEF TypeOK, Family, OwnChan
  <2>. QED BY Zenon, <2>3, <2>4, <2>5, <2>6, LeaveStep
<1>5. CASE SleepChan(c)
  <2>1. /\ kpc[p] = "sleep_chan" /\ kpc' = [kpc EXCEPT ![p] = "sched"]
        /\ state' = [state EXCEPT ![p] = "SLEEPING"] /\ parent' = parent /\ chan' = [chan EXCEPT ![p] = p]
    BY Zenon, <1>5 DEF SleepChan, At, Goto
  <2>2. \A t \in Slot : parent[t] = p => state[t] # "ZOMBIE"
    BY Zenon, <1>1, <2>1 DEF Family, NoZombies, Scanned
  <2>3. \A q \in Slot : kpc'[q] \notin Waiting
    BY Zenon, <1>1, <2>1, WaitAlone DEF TypeOK, Waiting, FamilyInv, HeldInv
  <2>4. ParentAlive'
    BY <1>1, <2>1 DEF TypeOK, Family, ParentAlive
  <2>5. Missed'
    <3>. SUFFICES ASSUME NEW r \in Slot, NEW s \in Slot,
                         state'[r] = "SLEEPING", parent'[s] = r, state'[s] = "ZOMBIE"
                  PROVE  FALSE
      BY Zenon DEF Missed
    <3>1. parent[s] = r /\ state[s] = "ZOMBIE" /\ (r # p => state[r] = "SLEEPING")
      BY Zenon, <1>1, <2>1 DEF TypeOK
    <3>2. r # p
      BY Zenon, <2>2, <3>1
    <3>. QED BY Zenon, <1>1, <2>1, <3>1, <3>2, NoneMissed DEF Waiting
  <2>6. OwnChan'
    BY Zenon, <1>1, <2>1 DEF TypeOK, Family, OwnChan
  <2>. QED BY Zenon, <2>3, <2>4, <2>5, <2>6, LeaveStep
<1>. QED BY Zenon, <1>3, <1>4, <1>5

-----------------------------------------------------------------------------
\* A step of wakeup() wakes sleepers and keeps everything else.
Wakes(p) ==
  LET s == j[p] IN
  /\ s \in Slot
  /\ \A t \in Slot : t # s => state'[t] = state[t]
  /\ state'[s] = state[s] \/ (state[s] = "SLEEPING" /\ state'[s] = "RUNNABLE")
  /\ parent' = parent /\ chan' = chan /\ kpc' = kpc /\ i' = i
  /\ \A t \in Slot : t # p => j'[t] = j[t]
  /\ j'[p] = j[p] + 1

\* WakeupStep is such a step, and it leaves no sleeper on its channel at s.
LEMMA WakeupWakes ==
  ASSUME TypeOK, NEW p \in Slot, NEW ch, WakeupStep(p, ch), parent' = parent, chan' = chan
  PROVE  /\ Wakes(p)
         /\ j[p] # p /\ chan[j[p]] = ch => state'[j[p]] # "SLEEPING"
         /\ j[p] = p => state' = state
<1>1. j[p] \in Slot /\ j' = [j EXCEPT ![p] = j[p] + 1] /\ kpc' = kpc /\ i' = i
  BY ProcAssumption DEF TypeOK, WakeupStep, Slot
<1>2. \/ j[p] = p /\ state' = state
      \/ j[p] # p /\ state' = [state EXCEPT ![j[p]] =
                                 IF @ = "SLEEPING" /\ chan[j[p]] = ch THEN "RUNNABLE" ELSE @]
  BY Zenon DEF WakeupStep
<1>. QED BY Zenon, <1>1, <1>2 DEF TypeOK, Wakes

\* Waking a sleeper keeps every part of Family that sleepers do not matter to,
\* and never makes a pair of a sleeper and its zombie.
LEMMA WakesStep ==
  ASSUME FamilyInv, TypeOK, NEW p \in Slot, Wakes(p)
  PROVE  /\ ParentAlive' /\ Orphans' /\ NoZombies' /\ OwnChan'
         /\ \A t \in Slot : state'[t] = "SLEEPING" => state[t] = "SLEEPING"
         /\ \A t \in Slot : state'[t] = "ZOMBIE" <=> state[t] = "ZOMBIE"
<1>0. Family
  BY Zenon DEF FamilyInv
<1>1. \A t \in Slot : state'[t] = "SLEEPING" => state[t] = "SLEEPING"
  BY Zenon DEF Wakes
<1>2. \A t \in Slot : state'[t] = "ZOMBIE" <=> state[t] = "ZOMBIE"
  BY Zenon DEF Wakes
<1>3. \A t \in Slot : state'[t] = "UNUSED" <=> state[t] = "UNUSED"
  BY Zenon DEF Wakes
<1>4. parent' = parent /\ chan' = chan /\ kpc' = kpc /\ i' = i
  BY Zenon DEF Wakes
<1>5. ParentAlive'
  <2>1. \A t \in Slot : state'[t] = "USED" <=> state[t] = "USED"
    BY Zenon DEF Wakes
  <2>2. \A t \in Slot : parent[t] # Null => parent[t] \in Slot
    <3>1. \A t \in Slot : parent[t] \in 0..NPROC
      BY Zenon DEF TypeOK
    <3>. QED BY <3>1, ProcAssumption DEF Slot, Null
  <2>. QED BY <1>0, <1>2, <1>3, <1>4, <2>1, <2>2 DEF Family, ParentAlive
<1>6. Orphans'
  BY Zenon, <1>0, <1>4 DEF Family, Orphans, Disowned
<1>7. NoZombies'
  BY Zenon, <1>0, <1>2, <1>4 DEF Family, NoZombies, Scanned
<1>8. OwnChan'
  BY Zenon, <1>0, <1>1, <1>4 DEF Family, OwnChan
<1>. QED BY Zenon, <1>1, <1>2, <1>5, <1>6, <1>7, <1>8

\* wakeup(p->parent) keeps families, and stays ahead of Woken.
LEMMA WakeParentStep ==
  ASSUME FamilyInv, NEW c \in CPU, WakeParent(c)
  PROVE  Family'
<1>. DEFINE p == cproc[c]
<1>0. sp[c] = "proc" /\ cproc' = cproc /\ kpc[p] = "wake_parent" /\ parent' = parent /\ chan' = chan
  BY Zenon DEF WakeParent, At, sched_vars
<1>1. Mine(c, p) /\ Family /\ p \in Slot /\ TypeOK /\ state[p] = "RUNNING"
  BY Zenon, <1>0, MineAt DEF FamilyInv, Mine, ExecAt
<1>2. \A q \in Slot : kpc[q] \in Waiting => q = p
  BY Zenon, <1>0, <1>1, WaitAlone DEF Waiting, FamilyInv, HeldInv
<1>3. CASE WakeupStep(p, parent[p])
  <2>1. /\ Wakes(p)
        /\ j[p] # p /\ chan[j[p]] = parent[p] => state'[j[p]] # "SLEEPING"
        /\ j[p] = p => state' = state
    BY Zenon, <1>0, <1>1, <1>3, WakeupWakes
  <2>2. /\ ParentAlive' /\ Orphans' /\ NoZombies' /\ OwnChan'
        /\ \A t \in Slot : state'[t] = "SLEEPING" => state[t] = "SLEEPING"
        /\ \A t \in Slot : state'[t] = "ZOMBIE" <=> state[t] = "ZOMBIE"
    BY Zenon, <1>1, <2>1, WakesStep
  <2>3. kpc' = kpc /\ j'[p] = j[p] + 1 /\ j[p] \in Slot
    BY Zenon, <2>1 DEF Wakes
  <2>4. Woken'
    <3>. SUFFICES ASSUME NEW q \in Slot, NEW t \in Slot, parent'[q] = t, state'[t] = "SLEEPING",
                         kpc'[q] \in {"exit_lock", "exit_zombie"} \/ (kpc'[q] = "wake_parent" /\ t < j'[q])
                  PROVE  FALSE
      BY Zenon DEF Woken
    <3>1. q = p /\ state[t] = "SLEEPING" /\ parent[p] = t
      BY Zenon, <1>0, <1>2, <2>2, <2>3 DEF Waiting
    <3>2. t < j[p] \/ t = j[p]
      BY <1>0, <2>3, <3>1, ProcAssumption DEF Slot
    <3>3. ~(t < j[p])
      BY Zenon, <1>0, <1>1, <3>1 DEF Family, Woken
    <3>4. chan[t] = t
      BY Zenon, <1>1, <3>1 DEF Family, OwnChan
    <3>5. t # p
      BY Zenon, <1>1, <3>1
    <3>. QED BY Zenon, <2>1, <3>1, <3>2, <3>3, <3>4, <3>5
  <2>5. Missed'
    BY Zenon, <1>0, <1>1, <2>2, NoneMissed DEF Missed, Waiting
  <2>. QED BY Zenon, <2>2, <2>4, <2>5 DEF Family
<1>4. CASE j[p] > NPROC /\ Goto(p, "exit_lock") /\ UNCHANGED <<state, i, j>>
  <2>1. kpc'[p] = "exit_lock" /\ state' = state /\ i' = i /\ j' = j
        /\ \A s \in Slot : s # p => kpc'[s] = kpc[s]
    BY Zenon, <1>1, <1>4 DEF Goto, TypeOK
  <2>2. \A t \in Slot : t < j[p]
    <3>1. j[p] \in 1..NPROC+1
      BY Zenon, <1>1 DEF TypeOK
    <3>. QED BY <1>4, <3>1, ProcAssumption DEF Slot
  <2>3. \A t \in Slot : parent[p] = t => state[t] # "SLEEPING"
    BY Zenon, <1>0, <1>1, <2>2 DEF Family, Woken
  <2>4. \A t \in Slot : Disowned(p, t)' => parent[t] # p
    BY Zenon, <1>0, <1>1, <2>1 DEF Family, Orphans, Disowned
  <2>5. Inside(c)
    BY Zenon, <1>0, <2>1, <2>3, <2>4 DEF Inside, Scanned
  <2>. QED BY Zenon, <1>0, <1>1, <2>5, InsideStep
<1>. QED BY Zenon, <1>3, <1>4 DEF WakeParent

\* wakeup(initproc) keeps families: its step at slot 1 is what ends the
\* exception of Missed.
LEMMA WakeInitStep ==
  ASSUME FamilyInv, NEW c \in CPU, WakeInit(c)
  PROVE  Family'
<1>. DEFINE p == cproc[c]
<1>0. sp[c] = "proc" /\ cproc' = cproc /\ kpc[p] = "wake_init" /\ parent' = parent /\ chan' = chan
  BY Zenon DEF WakeInit, At, sched_vars
<1>1. Mine(c, p) /\ Family /\ p \in Slot /\ TypeOK
  BY Zenon, <1>0, MineAt DEF FamilyInv, Mine
<1>2. \A q \in Slot : kpc[q] \in Waiting => q = p
  BY Zenon, <1>0, <1>1, WaitAlone DEF Waiting, FamilyInv, HeldInv
<1>3. p # Init0
  BY Zenon, <1>0, <1>1 DEF Mine, InitLives, Exiting
<1>4. CASE WakeupStep(p, Init0)
  <2>1. /\ Wakes(p)
        /\ j[p] # p /\ chan[j[p]] = Init0 => state'[j[p]] # "SLEEPING"
        /\ j[p] = p => state' = state
    BY Zenon, <1>0, <1>1, <1>4, WakeupWakes
  <2>2. /\ ParentAlive' /\ Orphans' /\ NoZombies' /\ OwnChan'
        /\ \A t \in Slot : state'[t] = "SLEEPING" => state[t] = "SLEEPING"
        /\ \A t \in Slot : state'[t] = "ZOMBIE" <=> state[t] = "ZOMBIE"
    BY Zenon, <1>1, <2>1, WakesStep
  <2>3. kpc' = kpc
    BY Zenon, <2>1 DEF Wakes
  <2>4. Woken'
    BY Zenon, <1>0, <1>2, <2>3 DEF Woken, Waiting
  <2>5. Missed'
    <3>. SUFFICES ASSUME NEW r \in Slot, NEW s \in Slot,
                         state'[r] = "SLEEPING", parent'[s] = r, state'[s] = "ZOMBIE"
                  PROVE  FALSE
      BY Zenon DEF Missed
    <3>1. state[r] = "SLEEPING" /\ parent[s] = r /\ state[s] = "ZOMBIE"
      BY Zenon, <1>0, <2>2
    <3>2. r = Init0 /\ j[p] = 1
      BY Zenon, <1>0, <1>1, <3>1, NoneMissed DEF Waiting, Family, Missed
    <3>3. chan[r] = r
      BY Zenon, <1>1, <3>1 DEF Family, OwnChan
    <3>. QED BY Zenon, <1>3, <2>1, <3>2, <3>3 DEF Init0
  <2>. QED BY Zenon, <2>2, <2>4, <2>5 DEF Family
<1>5. CASE j[p] > NPROC /\ Goto(p, "reparent") /\ i' = [i EXCEPT ![p] = @ + 1] /\ UNCHANGED <<state, j>>
  <2>1. kpc'[p] = "reparent" /\ state' = state /\ i'[p] = i[p] + 1 /\ j' = j
        /\ \A s \in Slot : s # p => kpc'[s] = kpc[s] /\ i'[s] = i[s]
    BY Zenon, <1>1, <1>5 DEF Goto, TypeOK
  <2>2. j[p] # 1
    BY <1>5, ProcAssumption
  <2>3. \A t \in Slot : Disowned(p, t)' => Disowned(p, t)
    <3>1. i[p] \in 1..NPROC+1
      BY Zenon, <1>1 DEF TypeOK
    <3>. QED BY <1>0, <2>1, <3>1, ProcAssumption DEF Disowned, Slot
  <2>4. \A t \in Slot : Disowned(p, t)' => parent[t] # p
    BY Zenon, <1>1, <2>3 DEF Family, Orphans
  <2>5. Inside(c)
    BY Zenon, <1>0, <2>1, <2>2, <2>4 DEF Inside, Scanned
  <2>. QED BY Zenon, <1>0, <1>1, <2>5, InsideStep
<1>. QED BY Zenon, <1>4, <1>5 DEF WakeInit

-----------------------------------------------------------------------------
\* One iteration of reparent keeps families: a child given to init is not p's
\* any more, and until init is woken it may sleep beside a zombie.
LEMMA ReparentStep ==
  ASSUME FamilyInv, NEW c \in CPU, Reparent(c)
  PROVE  Family'
<1>. DEFINE p == cproc[c]
            s == i[p]
<1>0. sp[c] = "proc" /\ cproc' = cproc /\ kpc[p] = "reparent" /\ state' = state /\ chan' = chan
  BY Zenon DEF Reparent, At, sched_vars
<1>1. Mine(c, p) /\ Family /\ p \in Slot /\ TypeOK /\ i[p] \in 1..NPROC+1
  <2>1. Mine(c, p) /\ Family /\ p \in Slot /\ TypeOK
    BY Zenon, <1>0, MineAt DEF FamilyInv, Mine
  <2>. QED BY Zenon, <2>1 DEF TypeOK
<1>2. \A q \in Slot : kpc[q] \in Waiting => q = p
  BY Zenon, <1>0, <1>1, WaitAlone DEF Waiting, FamilyInv, HeldInv
<1>3. p # Init0
  BY Zenon, <1>0, <1>1 DEF Mine, InitLives, Exiting
<1>4. j'[p] = 1 /\ \A t \in Slot : t # p => j'[t] = j[t]
  BY Zenon, <1>1 DEF Reparent, TypeOK
<1>5. CASE s > NPROC /\ Goto(p, "wake_parent") /\ UNCHANGED <<parent, i>>
  <2>1. kpc'[p] = "wake_parent" /\ parent' = parent /\ i' = i
        /\ \A t \in Slot : t # p => kpc'[t] = kpc[t]
    BY Zenon, <1>0, <1>1, <1>5 DEF Goto, TypeOK
  <2>2. \A t \in Slot : t < i[p] /\ ~(t < 1)
    BY <1>1, <1>5, ProcAssumption DEF Slot
  <2>3. \A t \in Slot : parent[t] # p
    BY Zenon, <1>0, <1>1, <2>2 DEF Family, Orphans, Disowned
  <2>4. Inside(c)
    BY Zenon, <1>0, <1>4, <2>1, <2>2, <2>3 DEF Inside, Scanned
  <2>. QED BY Zenon, <1>0, <1>1, <2>4, InsideStep
<1>6. CASE s <= NPROC /\ parent[s] = p /\ parent' = [parent EXCEPT ![s] = Init0]
           /\ Goto(p, "wake_init") /\ UNCHANGED i
  <2>1. /\ kpc'[p] = "wake_init" /\ j'[p] = 1 /\ i' = i
        /\ \A t \in Slot : t # p => kpc'[t] = kpc[t]
        /\ s \in Slot /\ parent'[s] = Init0 /\ \A t \in Slot : t # s => parent'[t] = parent[t]
    BY Zenon, <1>1, <1>4, <1>6, Ranges DEF Goto, TypeOK
  <2>2. \A q \in Slot : kpc'[q] \in Waiting => q = p
    BY Zenon, <1>2, <2>1
  <2>3. ParentAlive'
    <3>1. state[Init0] \notin {"UNUSED", "USED", "ZOMBIE"}
      BY Zenon, <1>1 DEF Mine, InitLives
    <3>2. state[s] # "UNUSED"
      BY <1>1, <1>6, <2>1, ProcAssumption DEF Family, ParentAlive, Slot, Null
    <3>. QED BY <1>0, <1>1, <2>1, <3>1, <3>2 DEF Family, ParentAlive
  <2>4. Orphans'
    <3>. SUFFICES ASSUME NEW q \in Slot, NEW t \in Slot, Disowned(q, t)', parent'[t] = q
                  PROVE  FALSE
      BY Zenon DEF Orphans
    <3>1. q = p /\ t <= i[p]
      BY Zenon, <2>1, <2>2 DEF Disowned, Waiting
    <3>2. t # s /\ parent[t] = p
      BY Zenon, <1>3, <2>1, <3>1
    <3>3. t < i[p]
      BY <1>1, <3>1, <3>2, ProcAssumption DEF Slot
    <3>. QED BY Zenon, <1>0, <1>1, <3>2, <3>3 DEF Family, Orphans, Disowned
  <2>5. NoZombies' /\ Woken'
    BY Zenon, <2>1, <2>2 DEF NoZombies, Scanned, Woken, Waiting
  <2>6. Missed'
    <3>. SUFFICES ASSUME NEW r \in Slot, NEW t \in Slot,
                         state[r] = "SLEEPING", parent'[t] = r, state[t] = "ZOMBIE"
                  PROVE  r = Init0
      BY Zenon, <1>0, <1>1, <2>1 DEF Missed
    <3>1. CASE t = s
      BY Zenon, <2>1, <3>1
    <3>2. CASE t # s
      BY Zenon, <1>1, <2>1, <3>2 DEF Family, Missed
    <3>. QED BY Zenon, <3>1, <3>2
  <2>7. OwnChan'
    BY Zenon, <1>0, <1>1 DEF Family, OwnChan
  <2>. QED BY Zenon, <2>3, <2>4, <2>5, <2>6, <2>7 DEF Family
<1>7. CASE s <= NPROC /\ parent[s] # p /\ i' = [i EXCEPT ![p] = s + 1] /\ UNCHANGED <<parent, kpc>>
  <2>1. parent' = parent /\ kpc' = kpc /\ i'[p] = i[p] + 1
        /\ \A t \in Slot : t # p => i'[t] = i[t]
    BY Zenon, <1>1, <1>7 DEF TypeOK
  <2>2. \A t \in Slot : Disowned(p, t)' => Disowned(p, t) \/ t = s
    BY <1>0, <1>1, <2>1, ProcAssumption DEF Disowned, Slot
  <2>3. \A t \in Slot : Disowned(p, t)' => parent[t] # p
    BY Zenon, <1>1, <1>7, <2>2 DEF Family, Orphans
  <2>4. Inside(c)
    BY <1>0, <1>4, <2>1, <2>3, Zenon DEF Inside, Scanned
  <2>. QED BY Zenon, <1>0, <1>1, <2>4, InsideStep
<1>. QED BY Zenon, <1>5, <1>6, <1>7 DEF Reparent

\* One iteration of wait's scan keeps families: a zombie has no children, so
\* freeing it leaves no stale parent behind.
LEMMA WaitScanStep ==
  ASSUME FamilyInv, NEW c \in CPU, WaitScan(c)
  PROVE  Family'
<1>. DEFINE p == cproc[c]
            s == i[p]
<1>0. sp[c] = "proc" /\ cproc' = cproc /\ kpc[p] = "wait_scan" /\ j' = j
  BY Zenon DEF WaitScan, At, sched_vars
<1>1. Mine(c, p) /\ Family /\ p \in Slot /\ TypeOK /\ i[p] \in 1..NPROC+1
  <2>1. Mine(c, p) /\ Family /\ p \in Slot /\ TypeOK
    BY Zenon, <1>0, MineAt DEF FamilyInv, Mine
  <2>. QED BY Zenon, <2>1 DEF TypeOK
<1>2. CASE s > NPROC /\ Goto(p, "wait_end") /\ UNCHANGED <<table, lock, i>>
  <2>1. kpc'[p] = "wait_end" /\ state' = state /\ parent' = parent /\ chan' = chan /\ i' = i
        /\ \A t \in Slot : t # p => kpc'[t] = kpc[t]
    BY Zenon, <1>1, <1>2 DEF Goto, TypeOK, table
  <2>2. \A t \in Slot : t < i[p]
    BY <1>1, <1>2, ProcAssumption DEF Slot
  <2>3. \A t \in Slot : parent[t] = p => state[t] # "ZOMBIE"
    BY Zenon, <1>0, <1>1, <2>2 DEF Family, NoZombies, Scanned
  <2>4. Inside(c)
    BY Zenon, <1>0, <2>1, <2>3 DEF Inside, Disowned
  <2>. QED BY Zenon, <1>0, <1>1, <2>4, InsideStep
<1>3. CASE /\ s <= NPROC /\ (parent[s] = p => state[s] # "ZOMBIE")
           /\ i' = [i EXCEPT ![p] = s + 1] /\ UNCHANGED <<table, lock, kpc>>
  <2>1. kpc' = kpc /\ state' = state /\ parent' = parent /\ chan' = chan /\ i'[p] = i[p] + 1
        /\ \A t \in Slot : t # p => i'[t] = i[t]
    BY Zenon, <1>1, <1>3 DEF TypeOK, table
  <2>2. \A t \in Slot : Scanned(p, t)' => Scanned(p, t) \/ t = s
    BY <1>0, <1>1, <2>1, ProcAssumption DEF Scanned, Slot
  <2>3. \A t \in Slot : Scanned(p, t)' /\ parent[t] = p => state[t] # "ZOMBIE"
    BY Zenon, <1>1, <1>3, <2>2 DEF Family, NoZombies
  <2>4. Inside(c)
    BY <1>0, <2>1, <2>3, Zenon DEF Inside, Disowned
  <2>. QED BY Zenon, <1>0, <1>1, <2>4, InsideStep
<1>4. CASE s <= NPROC /\ state[s] = "ZOMBIE" /\ Goto(p, "trapret") /\ UNCHANGED i /\ FreeProc(s)
  <2>1. /\ kpc' = [kpc EXCEPT ![p] = "trapret"] /\ state' = [state EXCEPT ![s] = "UNUSED"]
        /\ parent' = [parent EXCEPT ![s] = Null] /\ chan' = [chan EXCEPT ![s] = Null] /\ s \in Slot
    BY Zenon, <1>1, <1>4, Ranges DEF Goto, FreeProc
  <2>2. \A q \in Slot : kpc'[q] \notin Waiting
    BY Zenon, <1>0, <1>1, <2>1, WaitAlone DEF TypeOK, Waiting, FamilyInv, HeldInv
  <2>3. \A t \in Slot : parent[t] # s
    BY <1>1, <1>4, <2>1, ProcAssumption DEF Family, ParentAlive, Slot, Null
  <2>4. ParentAlive'
    BY <1>1, <2>1, <2>3 DEF TypeOK, Family, ParentAlive
  <2>5. Missed'
    <3>. SUFFICES ASSUME NEW r \in Slot, NEW t \in Slot,
                         state'[r] = "SLEEPING", parent'[t] = r, state'[t] = "ZOMBIE"
                  PROVE  FALSE
      BY Zenon DEF Missed
    <3>1. state[r] = "SLEEPING" /\ parent[t] = r /\ state[t] = "ZOMBIE"
      BY Zenon, <1>1, <2>1 DEF TypeOK
    <3>. QED BY <1>0, <1>1, <3>1, NoneMissed, Zenon DEF Waiting
  <2>6. OwnChan'
    BY Zenon, <1>1, <2>1 DEF TypeOK, Family, OwnChan
  <2>. QED BY Zenon, <2>2, <2>4, <2>5, <2>6, LeaveStep
<1>5. CASE Goto(p, "trapret") /\ UNCHANGED i /\ UNCHANGED table
  <2>1. kpc'[p] = "trapret" /\ state' = state /\ parent' = parent /\ chan' = chan /\ i' = i
        /\ \A t \in Slot : t # p => kpc'[t] = kpc[t]
    BY Zenon, <1>1, <1>5 DEF Goto, TypeOK, table
  <2>2. Inside(c)
    BY <1>0, <2>1, Zenon DEF Inside, Disowned, Scanned
  <2>. QED BY Zenon, <1>0, <1>1, <2>2, InsideStep
<1>. QED BY Zenon, <1>2, <1>3, <1>4, <1>5 DEF WaitScan

-----------------------------------------------------------------------------
\* No step breaks a family,
LEMMA FamilyKept ==
  ASSUME FamilyInv, NEW c \in CPU, Steps(c)
  PROVE  Family'
<1>1. CASE SchedSteps(c)
  BY Zenon, <1>1, SchedQuiet, QuietStep, LeaveSteps DEF SchedSteps
<1>2. CASE ExitSteps(c)
  BY Zenon, <1>2, InsideSteps, LeaveSteps, WakeParentStep, WakeInitStep, ReparentStep, WaitScanStep DEF ExitSteps
<1>3. CASE TrapSteps(c)
  BY Zenon, <1>3, TrapQuiet, QuietStep, InsideSteps, LeaveSteps DEF TrapSteps
<1>. QED BY Zenon, <1>1, <1>2, <1>3 DEF Steps

\* and FamilyInv is kept,
LEMMA FamilyStep == FamilyInv /\ [Next]_vars => FamilyInv'
<1>1. ASSUME Family, UNCHANGED vars PROVE Family'
  <2>1. UNCHANGED <<state, chan, parent, kpc, i, j>>
    BY Zenon, <1>1 DEF vars
  <2>. QED BY Zenon, <1>1, <2>1 DEF Family, ParentAlive, Orphans, Disowned, NoZombies, Scanned, Woken, Missed, OwnChan
<1>. QED BY Zenon, <1>1, HeldStep, FamilyKept, NextSteps DEF FamilyInv

\* so it is an invariant of the process table: what the loops of exit and wait
\* have established so far.
THEOREM FamilyInvariant == Spec => []FamilyInv
  BY InitFamily, FamilyStep, PTL DEF Spec

\* The parent of every process is alive and can reap it: exit passes the
\* children on before the process becomes a zombie.
THEOREM ParentsAlive == Spec => []ParentAlive
<1>1. FamilyInv => ParentAlive
  BY Zenon DEF FamilyInv, Family
<1>. QED BY <1>1, FamilyInvariant, PTL

\* No parent asleep in wait() has a zombie child once exit has let go of
\* wait_lock: the wakeup of exit cannot fall between wait's scan and its sleep.
THEOREM NoExitMissed == Spec => []NoMissedExit
<1>1. ASSUME FamilyInv PROVE NoMissedExit
  <2>1. WaitHeld /\ Missed
    BY Zenon, <1>1 DEF FamilyInv, HeldInv, Family
  <2>2. Free(WaitLock) => \A q \in Slot : kpc[q] # "wake_init"
    BY Zenon, <2>1, WaitNone DEF Waiting
  <2>. QED BY Zenon, <2>1, <2>2 DEF NoMissedExit, Missed
<1>. QED BY <1>1, FamilyInvariant, PTL
=============================================================================
