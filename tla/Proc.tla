-------------------------------- MODULE Proc --------------------------------
(***************************************************************************)
(* The process table of kernel/proc.c: per-CPU scheduler loops, the lock   *)
(* hand-over through swtch, yield, sleep and wakeup, fork, exit, wait and  *)
(* kill, and the killed checks of usertrap in kernel/trap.c.               *)
(*                                                                         *)
(* A spinlock is the CPU that holds it.  A step of a CPU runs from one     *)
(* acquire to the next place where another CPU could see a difference:     *)
(* acquire;...;release of a single p->lock is one step, every nested       *)
(* acquire, every release that exposes state, and both halves of swtch are *)
(* steps of their own.                                                     *)
(***************************************************************************)
EXTENDS Naturals, FiniteSets

CONSTANTS NPROC,     \* slots of proc[]
          CPU,       \* the harts
          None,      \* "no CPU": a free spinlock
          MaxPid,    \* bound: fork is not called once nextpid exceeds it
          KillPids   \* the arguments user programs pass to kill()

ASSUME ProcAssumption ==
  /\ NPROC \in Nat \ {0}
  /\ None \notin CPU
  /\ MaxPid \in Nat
  /\ KillPids \subseteq Nat
  /\ 1 \notin KillPids      \* nobody kills init: exit() would panic

Slot == 1..NPROC
Init0 == 1                \* initproc: userinit takes the first UNUSED slot
WaitLock == 0             \* wait_lock; lock s > 0 is proc[s].lock
Lock == 0..NPROC
Null == 0                 \* a null struct proc pointer

VARIABLES
  state, chan, killed, pid, parent,  \* struct proc
  nextpid,
  lock,      \* holder of wait_lock and of each p->lock
  cproc,     \* c->proc
  sp,        \* what a CPU executes: its scheduler's scan, a process, or the
             \* code behind the scheduler's swtch
  idx,       \* the scheduler's p
  kpc,       \* next step of a process's kernel thread
  rpc,       \* where it continues once sched() returns
  i, j,      \* its loop variables (j: the loop inside wakeup)
  target     \* the argument of its kill()

table == <<state, chan, killed, pid, parent, nextpid>>
local == <<rpc, i, j, target>>
sched_vars == <<cproc, sp, idx>>
vars == <<state, chan, killed, pid, parent, nextpid, lock, cproc, sp, idx,
          kpc, rpc, i, j, target>>

PState == {"UNUSED", "USED", "SLEEPING", "RUNNABLE", "RUNNING", "ZOMBIE"}
KPC == {"user", "trapret", "alloc", "fork_copy", "fork_parent", "fork_run",
        "exit", "reparent", "wake_init", "wake_parent", "exit_lock",
        "exit_zombie", "wait", "wait_scan", "wait_end", "sleep", "sleep_chan",
        "relock", "kill", "sched", "resume"}
\* Kernel code that runs with interrupts on and no spinlock held.
Preemptible == {"trapret", "alloc", "fork_parent", "fork_run", "exit", "wait",
                "relock", "kill"}
RPC == Preemptible \cup {"user", "zombie"}

\* procinit and userinit: every slot UNUSED but the first, which is ready to
\* run for the first time; every CPU enters scheduler().
Init ==
  /\ state = [s \in Slot |-> IF s = Init0 THEN "RUNNABLE" ELSE "UNUSED"]
  /\ pid = [s \in Slot |-> IF s = Init0 THEN 1 ELSE 0]
  /\ nextpid = 2
  /\ chan = [s \in Slot |-> Null]
  /\ killed = [s \in Slot |-> FALSE]
  /\ parent = [s \in Slot |-> Null]
  /\ lock = [l \in Lock |-> None]
  /\ cproc = [c \in CPU |-> Null]
  /\ sp = [c \in CPU |-> "scan"]
  /\ idx = [c \in CPU |-> 1]
  /\ kpc = [s \in Slot |-> "resume"]
  /\ rpc = [s \in Slot |-> "user"]
  /\ i = [s \in Slot |-> 1]
  /\ j = [s \in Slot |-> 1]
  /\ target = [s \in Slot |-> 0]

-----------------------------------------------------------------------------
Free(l) == lock[l] = None
Held(c) == {l \in Lock : lock[l] = c}
\* Mutant: the scheduler's index is not wrapped.
NextSlot_NoWrap(s) == s + 1

NextSlot(s) == IF s = NPROC THEN 1 ELSE s + 1
\* CPU c executes the kernel thread of its process, which is at pc.
At(c, pc) == sp[c] = "proc" /\ kpc[cproc[c]] = pc
Goto(p, pc) == kpc' = [kpc EXCEPT ![p] = pc]
StartLoop(p) == i' = [i EXCEPT ![p] = 1]

\* One iteration of the for loop of scheduler(): take p->lock; a RUNNABLE
\* process is switched to with the lock still held.
Scan(c) ==
  LET p == idx[c] IN
  /\ sp[c] = "scan"
  /\ Free(p)
  /\ \/ /\ state[p] = "RUNNABLE"
        /\ state' = [state EXCEPT ![p] = "RUNNING"]
        /\ cproc' = [cproc EXCEPT ![c] = p]
        /\ sp' = [sp EXCEPT ![c] = "proc"]
        /\ lock' = [lock EXCEPT ![p] = c]
        /\ UNCHANGED idx
     \/ /\ state[p] # "RUNNABLE"
        /\ idx' = [idx EXCEPT ![c] = NextSlot(p)]
        /\ UNCHANGED <<state, cproc, sp, lock>>
  /\ UNCHANGED <<chan, killed, pid, parent, nextpid, kpc, local>>

\* The code behind the swtch of scheduler().
Back(c) ==
  /\ sp[c] = "back"
  /\ lock' = [lock EXCEPT ![cproc[c]] = None]
  /\ cproc' = [cproc EXCEPT ![c] = Null]
  /\ idx' = [idx EXCEPT ![c] = NextSlot(cproc[c])]
  /\ sp' = [sp EXCEPT ![c] = "scan"]
  /\ UNCHANGED <<table, kpc, local>>

\* sched(): save the context and switch to this CPU's scheduler.
Sched(c) ==
  /\ At(c, "sched")
  /\ Goto(cproc[c], "resume")
  /\ sp' = [sp EXCEPT ![c] = "back"]
  /\ UNCHANGED <<table, lock, cproc, idx, local>>

\* The process continues behind its swtch: yield and forkret release p->lock,
\* sleep also clears chan and goes on to retake its lock.
\* The saved return address is dead from then on.
Resume(c) ==
  LET p == cproc[c] IN
  /\ At(c, "resume")
  /\ lock' = [lock EXCEPT ![p] = None]
  /\ chan' = [chan EXCEPT ![p] = IF rpc[p] = "relock" THEN Null ELSE @]
  /\ Goto(p, rpc[p])
  /\ rpc' = [rpc EXCEPT ![p] = "user"]
  /\ UNCHANGED <<state, killed, pid, parent, nextpid, sched_vars, i, j, target>>

\* yield(), which will return to pc.
YieldTo(c, pc) ==
  LET p == cproc[c] IN
  /\ Free(p)
  /\ lock' = [lock EXCEPT ![p] = c]
  /\ state' = [state EXCEPT ![p] = "RUNNABLE"]
  /\ Goto(p, "sched")
  /\ rpc' = [rpc EXCEPT ![p] = pc]
  /\ UNCHANGED <<chan, killed, pid, parent, nextpid, sched_vars, i, j, target>>

\* kerneltrap on a timer interrupt in kernel code.
Preempt(c) ==
  /\ \E pc \in Preemptible : At(c, pc) /\ YieldTo(c, pc)
  /\ state[cproc[c]] = "RUNNING"

\* usertrap on a timer interrupt: exit(-1) when killed, else yield.
Timer(c) ==
  LET p == cproc[c] IN
  /\ At(c, "user")
  /\ Free(p)
  /\ \/ killed[p] /\ Goto(p, "exit") /\ UNCHANGED <<table, lock, sched_vars, local>>
     \/ ~killed[p] /\ YieldTo(c, "user")

\* usertrap on an ecall: exit(-1) when killed, else one of the process system
\* calls.  User programs are arbitrary, except that init never calls exit.
Syscall(c) ==
  LET p == cproc[c] IN
  /\ At(c, "user")
  /\ Free(p)
  /\ \/ killed[p] /\ Goto(p, "exit") /\ UNCHANGED target
     \/ ~killed[p] /\ nextpid <= MaxPid /\ Goto(p, "alloc") /\ UNCHANGED target
     \/ ~killed[p] /\ p # Init0 /\ Goto(p, "exit") /\ UNCHANGED target
     \/ ~killed[p] /\ Goto(p, "wait") /\ UNCHANGED target
     \/ /\ ~killed[p] /\ Goto(p, "kill")
        /\ \E t \in KillPids : target' = [target EXCEPT ![p] = t]
  /\ StartLoop(p)
  /\ UNCHANGED <<table, lock, sched_vars, rpc, j>>

\* The end of usertrap after a system call; the call's locals are dead.
TrapRet(c) ==
  LET p == cproc[c] IN
  /\ At(c, "trapret")
  /\ Free(p)
  /\ Goto(p, IF killed[p] THEN "exit" ELSE "user")
  /\ StartLoop(p)
  /\ j' = [j EXCEPT ![p] = 1]
  /\ target' = [target EXCEPT ![p] = 0]
  /\ UNCHANGED <<table, lock, sched_vars, rpc>>

\* freeproc(s): what other processes can see of it.
FreeProc(s) ==
  /\ pid' = [pid EXCEPT ![s] = 0]
  /\ parent' = [parent EXCEPT ![s] = Null]
  /\ chan' = [chan EXCEPT ![s] = Null]
  /\ killed' = [killed EXCEPT ![s] = FALSE]
  /\ state' = [state EXCEPT ![s] = "UNUSED"]

\* One iteration of allocproc: look at a slot under its lock, keep the lock
\* of the first UNUSED one; its context starts in forkret.
AllocProc(c) ==
  LET p == cproc[c]  s == i[p] IN
  /\ At(c, "alloc")
  /\ Free(s)
  /\ \/ /\ state[s] = "UNUSED"
        /\ state' = [state EXCEPT ![s] = "USED"]
        /\ pid' = [pid EXCEPT ![s] = nextpid]
        /\ nextpid' = nextpid + 1
        /\ lock' = [lock EXCEPT ![s] = c]
        /\ kpc' = [kpc EXCEPT ![p] = "fork_copy", ![s] = "resume"]
        /\ rpc' = [rpc EXCEPT ![s] = "user"]
        /\ UNCHANGED i
     \/ /\ state[s] # "UNUSED"
        /\ \/ s < NPROC /\ i' = [i EXCEPT ![p] = s + 1] /\ UNCHANGED kpc
           \/ s = NPROC /\ Goto(p, "trapret") /\ UNCHANGED i
        /\ UNCHANGED <<state, pid, nextpid, lock, rpc>>
  /\ UNCHANGED <<chan, killed, parent, sched_vars, j, target>>

\* fork has copied memory, trapframe and open files and releases np->lock.
ForkCopy(c) ==
  /\ At(c, "fork_copy")
  /\ lock' = [lock EXCEPT ![i[cproc[c]]] = None]
  /\ Goto(cproc[c], "fork_parent")
  /\ UNCHANGED <<table, sched_vars, local>>

\* kalloc, proc_pagetable or uvmcopy failed: the slot is given back.
ForkFail(c) ==
  LET np == i[cproc[c]] IN
  /\ At(c, "fork_copy")
  /\ FreeProc(np)
  /\ lock' = [lock EXCEPT ![np] = None]
  /\ Goto(cproc[c], "trapret")
  /\ UNCHANGED <<nextpid, sched_vars, local>>

ForkParent(c) ==
  LET p == cproc[c] IN
  /\ At(c, "fork_parent")
  /\ Free(WaitLock)
  /\ parent' = [parent EXCEPT ![i[p]] = p]
  /\ Goto(p, "fork_run")
  /\ UNCHANGED <<state, chan, killed, pid, nextpid, lock, sched_vars, local>>

ForkRun(c) ==
  LET p == cproc[c] IN
  /\ At(c, "fork_run")
  /\ Free(i[p])
  /\ state' = [state EXCEPT ![i[p]] = "RUNNABLE"]
  /\ Goto(p, "trapret")
  /\ UNCHANGED <<chan, killed, pid, parent, nextpid, lock, sched_vars, local>>

-----------------------------------------------------------------------------
\* exit() up to acquire(&wait_lock).  Exit of initproc is a panic.
Exit(c) ==
  LET p == cproc[c] IN
  /\ At(c, "exit")
  /\ p # Init0
  /\ Free(WaitLock)
  /\ lock' = [lock EXCEPT ![WaitLock] = c]
  /\ Goto(p, "reparent")
  /\ StartLoop(p)
  /\ UNCHANGED <<table, sched_vars, rpc, j, target>>

\* Mutant: the loop of reparent stops one slot early.
Reparent_Short(c) ==
  LET p == cproc[c]  s == i[p] IN
  /\ At(c, "reparent")
  /\ \/ /\ s >= NPROC
        /\ Goto(p, "wake_parent")
        /\ UNCHANGED <<parent, i>>
     \/ /\ s < NPROC /\ parent[s] = p
        /\ parent' = [parent EXCEPT ![s] = Init0]
        /\ Goto(p, "wake_init")
        /\ UNCHANGED i
     \/ /\ s < NPROC /\ parent[s] # p
        /\ i' = [i EXCEPT ![p] = s + 1]
        /\ UNCHANGED <<parent, kpc>>
  /\ j' = [j EXCEPT ![p] = 1]
  /\ UNCHANGED <<state, chan, killed, pid, nextpid, lock, sched_vars, rpc, target>>

\* One iteration of reparent().
Reparent(c) ==
  LET p == cproc[c]  s == i[p] IN
  /\ At(c, "reparent")
  /\ \/ /\ s > NPROC
        /\ Goto(p, "wake_parent")
        /\ UNCHANGED <<parent, i>>
     \/ /\ s <= NPROC /\ parent[s] = p
        /\ parent' = [parent EXCEPT ![s] = Init0]
        /\ Goto(p, "wake_init")
        /\ UNCHANGED i
     \/ /\ s <= NPROC /\ parent[s] # p
        /\ i' = [i EXCEPT ![p] = s + 1]
        /\ UNCHANGED <<parent, kpc>>
  /\ j' = [j EXCEPT ![p] = 1]
  /\ UNCHANGED <<state, chan, killed, pid, nextpid, lock, sched_vars, rpc, target>>

\* One iteration of wakeup(ch): every process but the caller is looked at
\* under its own lock.
WakeupStep(p, ch) ==
  LET s == j[p] IN
  /\ s <= NPROC
  /\ \/ s = p /\ UNCHANGED state
     \/ /\ s # p
        /\ Free(s)
        /\ state' = [state EXCEPT ![s] =
                       IF @ = "SLEEPING" /\ chan[s] = ch THEN "RUNNABLE" ELSE @]
  /\ j' = [j EXCEPT ![p] = s + 1]
  /\ UNCHANGED <<kpc, i>>

\* wakeup(initproc), called for each child given to init.
WakeInit(c) ==
  LET p == cproc[c] IN
  /\ At(c, "wake_init")
  /\ \/ WakeupStep(p, Init0)
     \/ /\ j[p] > NPROC
        /\ Goto(p, "reparent")
        /\ i' = [i EXCEPT ![p] = @ + 1]
        /\ UNCHANGED <<state, j>>
  /\ UNCHANGED <<chan, killed, pid, parent, nextpid, lock, sched_vars, rpc, target>>

\* Mutant: exit does not wake its parent.
WakeParent_Skip(c) ==
  /\ At(c, "wake_parent")
  /\ Goto(cproc[c], "exit_lock")
  /\ UNCHANGED <<table, lock, sched_vars, local>>

\* wakeup(p->parent).
WakeParent(c) ==
  LET p == cproc[c] IN
  /\ At(c, "wake_parent")
  /\ \/ WakeupStep(p, parent[p])
     \/ j[p] > NPROC /\ Goto(p, "exit_lock") /\ UNCHANGED <<state, i, j>>
  /\ UNCHANGED <<chan, killed, pid, parent, nextpid, lock, sched_vars, rpc, target>>

ExitLock(c) ==
  LET p == cproc[c] IN
  /\ At(c, "exit_lock")
  /\ Free(p)
  /\ lock' = [lock EXCEPT ![p] = c]
  /\ Goto(p, "exit_zombie")
  /\ UNCHANGED <<table, sched_vars, local>>

ExitZombie(c) ==
  LET p == cproc[c] IN
  /\ At(c, "exit_zombie")
  /\ state' = [state EXCEPT ![p] = "ZOMBIE"]
  /\ lock' = [lock EXCEPT ![WaitLock] = None]
  /\ Goto(p, "sched")
  /\ rpc' = [rpc EXCEPT ![p] = "zombie"]
  /\ UNCHANGED <<chan, killed, pid, parent, nextpid, sched_vars, i, j, target>>

-----------------------------------------------------------------------------
\* wait() takes wait_lock, on entry and again whenever sleep returns.
Wait(c) ==
  LET p == cproc[c] IN
  /\ At(c, "wait") \/ At(c, "relock")
  /\ Free(WaitLock)
  /\ lock' = [lock EXCEPT ![WaitLock] = c]
  /\ Goto(p, "wait_scan")
  /\ StartLoop(p)
  /\ UNCHANGED <<table, sched_vars, rpc, j, target>>

\* Mutant: wait does not take the child's lock.
WaitScan_NoChildLock(c) ==
  LET p == cproc[c]  s == i[p] IN
  /\ At(c, "wait_scan")
  /\ \/ /\ s > NPROC
        /\ Goto(p, "wait_end")
        /\ UNCHANGED <<table, lock, i>>
     \/ /\ s <= NPROC
        /\ parent[s] = p => state[s] # "ZOMBIE"
        /\ i' = [i EXCEPT ![p] = s + 1]
        /\ UNCHANGED <<table, lock, kpc>>
     \/ /\ s <= NPROC
        /\ parent[s] = p /\ state[s] = "ZOMBIE"
        /\ \/ FreeProc(s) /\ UNCHANGED nextpid
           \/ p # Init0 /\ UNCHANGED table  \* init passes a null address
        /\ lock' = [lock EXCEPT ![WaitLock] = None]
        /\ Goto(p, "trapret")
        /\ UNCHANGED i
  /\ UNCHANGED <<sched_vars, rpc, j, target>>

\* One iteration of wait's scan for children.  A zombie is freed, or copyout
\* fails and it stays; both end the call.
WaitScan(c) ==
  LET p == cproc[c]  s == i[p] IN
  /\ At(c, "wait_scan")
  /\ \/ /\ s > NPROC
        /\ Goto(p, "wait_end")
        /\ UNCHANGED <<table, lock, i>>
     \/ /\ s <= NPROC
        /\ parent[s] = p => Free(s) /\ state[s] # "ZOMBIE"
        /\ i' = [i EXCEPT ![p] = s + 1]
        /\ UNCHANGED <<table, lock, kpc>>
     \/ /\ s <= NPROC
        /\ parent[s] = p /\ Free(s) /\ state[s] = "ZOMBIE"
        /\ \/ FreeProc(s) /\ UNCHANGED nextpid
           \/ p # Init0 /\ UNCHANGED table  \* init passes a null address
        /\ lock' = [lock EXCEPT ![WaitLock] = None]
        /\ Goto(p, "trapret")
        /\ UNCHANGED i
  /\ UNCHANGED <<sched_vars, rpc, j, target>>

\* The scan found no zombie.  havekids is read off the table: wait_lock kept
\* every parent field still since the scan began.
WaitEnd(c) ==
  LET p == cproc[c]
      havekids == \E s \in Slot : parent[s] = p IN
  /\ At(c, "wait_end")
  /\ havekids => Free(p)
  /\ \/ /\ ~havekids \/ killed[p]
        /\ lock' = [lock EXCEPT ![WaitLock] = None]
        /\ Goto(p, "trapret")
     \/ /\ havekids /\ ~killed[p]
        /\ Goto(p, "sleep")
        /\ UNCHANGED lock
  /\ UNCHANGED <<table, sched_vars, local>>

\* sleep(p, &wait_lock): take p->lock, and only then let go of wait_lock.
Sleep(c) ==
  LET p == cproc[c] IN
  /\ At(c, "sleep")
  /\ Free(p)
  /\ lock' = [lock EXCEPT ![p] = c]
  /\ Goto(p, "sleep_chan")
  /\ UNCHANGED <<table, sched_vars, local>>

\* Mutant: sleep goes on to sched() with the caller's lock still held.
SleepChan_KeepLock(c) ==
  LET p == cproc[c] IN
  /\ At(c, "sleep_chan")
  /\ chan' = [chan EXCEPT ![p] = p]
  /\ state' = [state EXCEPT ![p] = "SLEEPING"]
  /\ Goto(p, "sched")
  /\ rpc' = [rpc EXCEPT ![p] = "relock"]
  /\ UNCHANGED <<lock, killed, pid, parent, nextpid, sched_vars, i, j, target>>

SleepChan(c) ==
  LET p == cproc[c] IN
  /\ At(c, "sleep_chan")
  /\ lock' = [lock EXCEPT ![WaitLock] = None]
  /\ chan' = [chan EXCEPT ![p] = p]
  /\ state' = [state EXCEPT ![p] = "SLEEPING"]
  /\ Goto(p, "sched")
  /\ rpc' = [rpc EXCEPT ![p] = "relock"]
  /\ UNCHANGED <<killed, pid, parent, nextpid, sched_vars, i, j, target>>

\* One iteration of kill(pid).
Kill(c) ==
  LET p == cproc[c]  s == i[p] IN
  /\ At(c, "kill")
  /\ Free(s)
  /\ \/ /\ pid[s] = target[p]
        /\ killed' = [killed EXCEPT ![s] = TRUE]
        /\ state' = [state EXCEPT ![s] = IF @ = "SLEEPING" THEN "RUNNABLE" ELSE @]
        /\ Goto(p, "trapret")
        /\ UNCHANGED i
     \/ /\ pid[s] # target[p] /\ s < NPROC
        /\ i' = [i EXCEPT ![p] = s + 1]
        /\ UNCHANGED <<killed, state, kpc>>
     \/ /\ pid[s] # target[p] /\ s = NPROC
        /\ Goto(p, "trapret")
        /\ UNCHANGED <<killed, state, i>>
  /\ UNCHANGED <<chan, pid, parent, nextpid, lock, sched_vars, rpc, j, target>>

-----------------------------------------------------------------------------
Fork(c) == AllocProc(c) \/ ForkCopy(c) \/ ForkFail(c) \/ ForkParent(c) \/ ForkRun(c)
ExitPath(c) == Exit(c) \/ Reparent(c) \/ WakeInit(c) \/ WakeParent(c)
                 \/ ExitLock(c) \/ ExitZombie(c)
WaitPath(c) == Wait(c) \/ WaitScan(c) \/ WaitEnd(c) \/ Sleep(c) \/ SleepChan(c)
Kernel(c) == Resume(c) \/ Sched(c) \/ TrapRet(c) \/ Fork(c) \/ ExitPath(c)
               \/ WaitPath(c) \/ Kill(c)
Scheduler(c) == Scan(c) \/ Back(c)
User(c) == Timer(c) \/ Syscall(c)

Next == \E c \in CPU : Scheduler(c) \/ Kernel(c) \/ Preempt(c) \/ User(c)

Spec == Init /\ [][Next]_vars

-----------------------------------------------------------------------------
\* The types of struct proc, of the locks and of the per-CPU scheduler state.
TypeOK ==
  /\ state \in [Slot -> PState]
  /\ chan \in [Slot -> 0..NPROC]
  /\ killed \in [Slot -> BOOLEAN]
  /\ pid \in [Slot -> Nat]
  /\ parent \in [Slot -> 0..NPROC]
  /\ nextpid \in Nat
  /\ lock \in [Lock -> CPU \cup {None}]
  /\ cproc \in [CPU -> 0..NPROC]
  /\ sp \in [CPU -> {"scan", "proc", "back"}]
  /\ \A c \in CPU : sp[c] # "scan" => cproc[c] \in Slot
  /\ idx \in [CPU -> Slot]
  /\ kpc \in [Slot -> KPC \cup {"zombie"}]
  /\ rpc \in [Slot -> RPC]
  /\ i \in [Slot -> 1..NPROC + 1]
  /\ j \in [Slot -> 1..NPROC + 1]
  /\ target \in [Slot -> Nat]

\* A kernel stack is in use by at most one CPU: no two CPUs execute the same
\* process, and the slot of an executing process is neither free nor being
\* set up (scheduler, sched, exit and wait pass p->lock along for this).
OneCpuPerStack ==
  /\ \A c, d \in CPU :
       c # d /\ sp[c] # "scan" /\ sp[d] # "scan" => cproc[c] # cproc[d]
  /\ \A c \in CPU : sp[c] # "scan" => state[cproc[c]] \notin {"UNUSED", "USED"}

\* The panics of sched() cannot happen: at its entry the CPU holds p->lock and
\* nothing else, and the state has left RUNNING; a zombie never returns from
\* it and init never gets to exit().
NoPanic ==
  /\ \A c \in CPU : At(c, "sched") =>
       Held(c) = {cproc[c]} /\ state[cproc[c]] # "RUNNING"
  /\ \A c \in CPU : ~(At(c, "resume") /\ rpc[cproc[c]] = "zombie")
  /\ kpc[Init0] # "exit"

\* The parent of every process can still reap it: exit hands the children of
\* a dying process to init before it becomes a zombie, and fork makes a slot
\* a child only while its parent runs.
ParentAlive ==
  \A s \in Slot :
    parent[s] # Null => /\ state[s] # "UNUSED"
                        /\ state[parent[s]] \notin {"UNUSED", "USED", "ZOMBIE"}

\* No child's exit is missed: while wait_lock is free, a parent asleep in wait
\* has no zombie child (exit's wakeups come before ZOMBIE, under wait_lock,
\* and sleep gives wait_lock up only with p->lock in hand).
NoMissedExit ==
  Free(WaitLock) => \A p, s \in Slot :
    ~(state[p] = "SLEEPING" /\ parent[s] = p /\ state[s] = "ZOMBIE")
=============================================================================
