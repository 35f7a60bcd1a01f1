-------------------------------- MODULE Trap --------------------------------
(***************************************************************************)
(* Spin locks that turn interrupts off (kernel/spinlock.c), the timer      *)
(* interrupt (kernel/trap.c), and what is built on them: switching between *)
(* processes, sleep and wakeup (kernel/proc.c), and the two ways to sleep  *)
(* that a timer interrupt meets, sys_sleep (kernel/sysproc.c) and sleep    *)
(* locks (kernel/sleeplock.c).                                             *)
(*                                                                         *)
(* An acquire with its push_off, and a release with its pop_off, are steps *)
(* of their own, but for a critical section that only looks at one process *)
(* and for the way to swtch, which nothing can observe: that is one step.  *)
(* A thread is a process in the kernel or the scheduler of a CPU; an       *)
(* interrupt pushes the handler on top of the thread it hits.              *)
(***************************************************************************)
EXTENDS Naturals, FiniteSets

CONSTANTS Cpu, Cpu0,     \* the harts; hart 0 counts the ticks
          NPROC,
          None,          \* a lock nobody holds
          UINT,          \* ticks counts modulo this (2^32 in the code)
          Killable,      \* the processes kill() is called for
          SleepArgs      \* the arguments of sys_sleep

ASSUME TrapAssumption ==
  /\ Cpu0 \in Cpu /\ None \notin Cpu /\ NPROC \in Nat \ {0}
  /\ Cpu \cap Nat = {} /\ Killable \subseteq 1..NPROC
  /\ UINT \in Nat \ {0} /\ \A k \in SleepArgs : k \in Nat /\ k + 1 < UINT

Proc == 1..NPROC
Thread == Proc \cup Cpu
\* Locks: p->lock is p.  sleep's channel is the object its lock protects.
Tickslock == 0
Lk == NPROC + 1                 \* the spin lock inside the sleep lock
Lock == 0..NPROC + 1
NoChan == NPROC + 2

VARIABLES
  on, noff, intena,   \* interrupts on; struct cpu
  run,                \* the thread a CPU executes: its scheduler or c->proc
  lock,               \* the CPU that holds a lock
  state, chan, killed,
  pc, hpc,            \* next step of a thread, and of a handler on top of it
  j,                  \* loop variable of a thread's wakeup()
  saved,              \* intena of a process's sched()
  lk,                 \* the lock of a process's system call, sleep()'s lk
  idx,                \* the scheduler's p
  ticks, ticks0, n,   \* the latter two of a process's sys_sleep
  locked, pid         \* struct sleeplock

cpu == <<on, noff, intena>>
table == <<state, chan, killed>>
tick == <<ticks, ticks0, n>>
sleeplock == <<locked, pid>>
vars == <<on, noff, intena, run, lock, state, chan, killed, pc, hpc, j, saved, lk, idx,
          ticks, ticks0, n, locked, pid>>

\* userinit has made the first process; main() enters the schedulers with
\* interrupts off.
Init ==
  /\ on = [c \in Cpu |-> FALSE] /\ noff = [c \in Cpu |-> 0]
  /\ intena = [c \in Cpu |-> FALSE]
  /\ run = [c \in Cpu |-> c] /\ idx = [c \in Cpu |-> NPROC + 1]
  /\ lock = [l \in Lock |-> None]
  /\ state = [p \in Proc |-> IF p = 1 THEN "RUNNABLE" ELSE "UNUSED"] /\ chan = [p \in Proc |-> NoChan]
  /\ killed = [p \in Proc |-> FALSE]
  /\ pc = [t \in Thread |-> IF t \in Proc THEN "forkret" ELSE "scan"]
  /\ hpc = [t \in Thread |-> "no"]
  /\ j = [t \in Thread |-> 1] /\ saved = [p \in Proc |-> FALSE]
  /\ lk = [p \in Proc |-> Tickslock]
  /\ ticks = 0 /\ ticks0 = [p \in Proc |-> 0] /\ n = [p \in Proc |-> 0]
  /\ locked = FALSE /\ pid = None

-----------------------------------------------------------------------------
\* push_off and pop_off, the latter with interrupt state e to go back to.
\* intena is dead while noff is 0, and FALSE here.
PushOff(c) ==
  /\ intena' = [intena EXCEPT ![c] = IF noff[c] = 0 THEN on[c] ELSE @]
  /\ on' = [on EXCEPT ![c] = FALSE]
  /\ noff' = [noff EXCEPT ![c] = @ + 1]
PopOff(c, e) ==
  /\ noff' = [noff EXCEPT ![c] = @ - 1]
  /\ on' = [on EXCEPT ![c] = @ \/ (noff[c] = 1 /\ e)]
  /\ intena' = [intena EXCEPT ![c] = noff[c] # 1 /\ e]

Free(l) == lock[l] = None
Acquire(c, l) == Free(l) /\ lock' = [lock EXCEPT ![l] = c] /\ PushOff(c)
Release(c, l) ==
  /\ lock' = [lock EXCEPT ![l] = None]
  /\ PopOff(c, intena[c])

\* CPU c is at l, in a handler or not.
At(c, l) == LET t == run[c] IN IF hpc[t] = "no" THEN pc[t] = l ELSE hpc[t] = l
Goto(t, l) ==
  IF hpc[t] = "no" THEN pc' = [pc EXCEPT ![t] = l] /\ UNCHANGED hpc
                   ELSE hpc' = [hpc EXCEPT ![t] = l] /\ UNCHANGED pc

-----------------------------------------------------------------------------
\* scheduler(): intr_on() and a new round over proc[].
SchedOn(c) ==
  /\ At(c, "scan") /\ idx[c] > NPROC
  /\ on' = [on EXCEPT ![c] = TRUE]
  /\ idx' = [idx EXCEPT ![c] = 1]
  /\ UNCHANGED <<noff, intena, run, lock, table, pc, hpc, j, saved, lk, tick, sleeplock>>

\* One process: switch to it with its lock held, or pass on.
Scan(c) ==
  LET p == idx[c] IN
  /\ At(c, "scan") /\ p <= NPROC
  /\ \/ /\ state[p] = "RUNNABLE"
        /\ Acquire(c, p)
        /\ state' = [state EXCEPT ![p] = "RUNNING"]
        /\ run' = [run EXCEPT ![c] = p]
        /\ pc' = [pc EXCEPT ![c] = "back"]
        /\ UNCHANGED idx
     \/ /\ state[p] # "RUNNABLE" /\ Free(p)
        /\ idx' = [idx EXCEPT ![c] = p + 1]
        /\ UNCHANGED <<cpu, lock, state, run, pc>>
  /\ UNCHANGED <<chan, killed, hpc, j, saved, lk, tick, sleeplock>>

\* Behind the scheduler's swtch.
Back(c) ==
  /\ At(c, "back")
  /\ Release(c, idx[c])
  /\ idx' = [idx EXCEPT ![c] = @ + 1]
  /\ pc' = [pc EXCEPT ![c] = "scan"]
  /\ UNCHANGED <<run, table, hpc, j, saved, lk, tick, sleeplock>>

\* sched() up to swtch, with the caller's p->lock held.
Sched(c, p) ==
  /\ saved' = [saved EXCEPT ![p] = intena'[c]]
  /\ run' = [run EXCEPT ![c] = c]
  /\ Goto(p, "resume")

\* Mutant: sched does not give a process its intena back.
Resume_Intena(c) ==
  LET p == run[c] IN
  /\ At(c, "resume")
  /\ Release(c, p)
  /\ chan' = [chan EXCEPT ![p] = IF hpc[p] = "no" THEN NoChan ELSE @]
  /\ saved' = [saved EXCEPT ![p] = FALSE]
  /\ Goto(p, IF hpc[p] = "no" THEN "relock" ELSE "ret")
  /\ UNCHANGED <<run, state, killed, j, lk, idx, tick, sleeplock>>

\* Mutant: sleep goes for lk with p->lock still in hand.
Resume_Keep(c) ==
  LET p == run[c] IN
  /\ At(c, "resume")
  /\ IF hpc[p] = "no"
     THEN intena' = [intena EXCEPT ![c] = saved[p]] /\ UNCHANGED <<noff, on, lock>>
     ELSE lock' = [lock EXCEPT ![p] = None] /\ PopOff(c, saved[p])
  /\ chan' = [chan EXCEPT ![p] = IF hpc[p] = "no" THEN NoChan ELSE @]
  /\ saved' = [saved EXCEPT ![p] = FALSE]
  /\ Goto(p, IF hpc[p] = "no" THEN "relock" ELSE "ret")
  /\ UNCHANGED <<run, state, killed, j, lk, idx, tick, sleeplock>>

\* sched() behind swtch, perhaps on another CPU, and the end of yield, or of
\* sleep up to its acquire(lk).  The local intena goes out of scope.
Resume(c) ==
  LET p == run[c] IN
  /\ At(c, "resume")
  /\ lock' = [lock EXCEPT ![p] = None]
  /\ PopOff(c, saved[p])
  /\ chan' = [chan EXCEPT ![p] = IF hpc[p] = "no" THEN NoChan ELSE @]
  /\ saved' = [saved EXCEPT ![p] = FALSE]
  /\ Goto(p, IF hpc[p] = "no" THEN "relock" ELSE "ret")
  /\ UNCHANGED <<run, state, killed, j, lk, idx, tick, sleeplock>>

\* forkret, and usertrapret: interrupts off, and on again by sret.
Forkret(c) ==
  LET p == run[c] IN
  /\ At(c, "forkret")
  /\ lock' = [lock EXCEPT ![p] = None]
  /\ noff' = [noff EXCEPT ![c] = @ - 1]
  /\ on' = [on EXCEPT ![c] = TRUE]
  /\ intena' = [intena EXCEPT ![c] = FALSE]
  /\ Goto(p, "user")
  /\ UNCHANGED <<run, table, j, saved, lk, idx, tick, sleeplock>>

-----------------------------------------------------------------------------
\* usertrap for a system call: exit if killed, with interrupts still off;
\* intr_on(), and sys_sleep or acquiresleep up to its loop.
Ecall(c) ==
  LET p == run[c] IN
  /\ At(c, "user") /\ Free(p)
  /\ \/ /\ killed[p]
        /\ on' = [on EXCEPT ![c] = FALSE]
        /\ Goto(p, "exit")
        /\ UNCHANGED <<noff, intena, lock, lk, ticks0, n>>
     \/ /\ ~killed[p]
        /\ Acquire(c, Tickslock)
        /\ ticks0' = [ticks0 EXCEPT ![p] = ticks]
        /\ \E k \in SleepArgs : n' = [n EXCEPT ![p] = k]
        /\ Goto(p, "test")
        /\ UNCHANGED lk
     \/ /\ ~killed[p]
        /\ Acquire(c, Lk)
        /\ lk' = [lk EXCEPT ![p] = Lk]
        /\ Goto(p, "test")
        /\ UNCHANGED <<ticks0, n>>
  /\ UNCHANGED <<run, table, j, saved, idx, ticks, sleeplock>>

\* fork(): a new process for the scheduler to find at forkret.
Fork(c) ==
  LET p == run[c] IN
  /\ At(c, "user") /\ Free(p) /\ ~killed[p]
  /\ \E q \in Proc :
       /\ state[q] = "UNUSED" /\ Free(q)
       /\ state' = [state EXCEPT ![q] = "RUNNABLE"]
  /\ UNCHANGED <<cpu, run, lock, chan, killed, pc, hpc, j, saved, lk, idx, tick, sleeplock>>

\* usertrap behind the call: exit if killed, usertrapret.
TrapReturn(c) ==
  LET p == run[c] IN
  /\ At(c, "return") /\ Free(p)
  /\ lk' = [lk EXCEPT ![p] = Tickslock]
  /\ Goto(p, IF killed[p] THEN "exit" ELSE "user")
  /\ UNCHANGED <<cpu, run, lock, table, j, saved, idx, tick, sleeplock>>

\* The end of exit(): it never comes back from sched.
Exit(c) ==
  LET p == run[c] IN
  /\ At(c, "exit")
  /\ Acquire(c, p)
  /\ state' = [state EXCEPT ![p] = "ZOMBIE"]
  /\ Sched(c, p)
  /\ UNCHANGED <<chan, killed, j, lk, idx, tick, sleeplock>>

\* ticks - ticks0 of sys_sleep, in unsigned arithmetic.
Elapsed(p) == (UINT + ticks - ticks0[p]) % UINT

\* The loop's test: return 0, return -1 if killed, or sleep.
SleepTest(c) ==
  LET p == run[c] IN
  /\ At(c, "test") /\ lk[p] = Tickslock
  /\ \/ /\ Elapsed(p) >= n[p] \/ (Free(p) /\ killed[p])
        /\ Release(c, Tickslock)
        /\ ticks0' = [ticks0 EXCEPT ![p] = 0]
        /\ n' = [n EXCEPT ![p] = 0]
        /\ Goto(p, "return")
     \/ /\ Elapsed(p) < n[p] /\ Free(p) /\ ~killed[p]
        /\ Goto(p, "sleep")
        /\ UNCHANGED <<cpu, lock, ticks0, n>>
  /\ UNCHANGED <<run, table, j, saved, lk, idx, ticks, sleeplock>>

\* The loop's test: take the lock, or sleep.
LockTest(c) ==
  LET p == run[c] IN
  /\ At(c, "test") /\ lk[p] = Lk
  /\ \/ /\ ~locked
        /\ locked' = TRUE /\ pid' = p
        /\ Release(c, Lk)
        /\ Goto(p, "held")
     \/ /\ locked
        /\ Goto(p, "sleep")
        /\ UNCHANGED <<cpu, lock, sleeplock>>
  /\ UNCHANGED <<run, table, j, saved, lk, idx, tick>>

\* releasesleep up to its wakeup.
LockRelease(c) ==
  LET p == run[c] IN
  /\ At(c, "held")
  /\ Acquire(c, Lk)
  /\ locked' = FALSE /\ pid' = None
  /\ Goto(p, "wakeup")
  /\ UNCHANGED <<run, table, j, saved, lk, idx, tick>>

-----------------------------------------------------------------------------
\* Mutant: lk is released before p->lock is acquired.
Sleep_Gap(c) ==
  LET p == run[c] IN
  /\ At(c, "sleep")
  /\ \/ /\ lock[lk[p]] = c
        /\ Release(c, lk[p])
        /\ UNCHANGED <<chan, state, saved, run, pc, hpc>>
     \/ /\ lock[lk[p]] # c
        /\ Acquire(c, p)
        /\ chan' = [chan EXCEPT ![p] = lk[p]]
        /\ state' = [state EXCEPT ![p] = "SLEEPING"]
        /\ Sched(c, p)
  /\ UNCHANGED <<killed, j, lk, idx, tick, sleeplock>>

\* sleep up to swtch: from lk to p->lock, with push_off and pop_off.
Sleep(c) ==
  LET p == run[c] IN
  /\ At(c, "sleep") /\ Free(p)
  /\ lock' = [lock EXCEPT ![p] = c, ![lk[p]] = None]
  /\ chan' = [chan EXCEPT ![p] = lk[p]]
  /\ state' = [state EXCEPT ![p] = "SLEEPING"]
  /\ UNCHANGED cpu
  /\ Sched(c, p)
  /\ UNCHANGED <<killed, j, lk, idx, tick, sleeplock>>

\* Mutant: acquiresleep takes the lock after sleep without testing it again.
Relock_If(c) ==
  LET p == run[c] IN
  /\ At(c, "relock")
  /\ \/ /\ lk[p] = Tickslock
        /\ Acquire(c, lk[p])
        /\ Goto(p, "test")
        /\ UNCHANGED sleeplock
     \/ /\ lk[p] = Lk /\ Free(Lk)
        /\ locked' = TRUE /\ pid' = p
        /\ Goto(p, "held")
        /\ UNCHANGED <<cpu, lock>>
  /\ UNCHANGED <<run, table, j, saved, lk, idx, tick>>

\* sleep's last line.
Relock(c) ==
  LET p == run[c] IN
  /\ At(c, "relock")
  /\ Acquire(c, lk[p])
  /\ Goto(p, "test")
  /\ UNCHANGED <<run, table, j, saved, lk, idx, tick, sleeplock>>

\* What wakeup is called for: clockintr's &ticks, releasesleep's lk.
WakeChan(t) == IF hpc[t] = "no" THEN Lk ELSE Tickslock

\* One process of wakeup's loop; a process does not look at itself.
Wakeup(c) ==
  LET t == run[c]
      p == j[t] IN
  /\ At(c, "wakeup") /\ p <= NPROC
  /\ p # t => Free(p)
  /\ state' = [state EXCEPT ![p] = IF p # t /\ @ = "SLEEPING" /\ chan[p] = WakeChan(t)
                                   THEN "RUNNABLE" ELSE @]
  /\ j' = [j EXCEPT ![t] = @ + 1]
  /\ UNCHANGED <<cpu, run, lock, chan, killed, pc, hpc, saved, lk, idx, tick, sleeplock>>

\* The end of wakeup and its caller's release; behind devintr only a process
\* yields.
WakeupDone(c) ==
  LET t == run[c] IN
  /\ At(c, "wakeup") /\ j[t] > NPROC
  /\ Release(c, WakeChan(t))
  /\ j' = [j EXCEPT ![t] = 1]
  /\ Goto(t, IF hpc[t] = "no" THEN "return" ELSE IF t \in Proc THEN "yield" ELSE "ret")
  /\ UNCHANGED <<run, table, saved, lk, idx, tick, sleeplock>>

-----------------------------------------------------------------------------
\* A timer interrupt: the hart turns interrupts off and enters kerneltrap or
\* usertrap; devintr.  On a scheduler only hart 0's has anything to do.
Interrupt(c) ==
  LET t == run[c] IN
  /\ on[c] /\ hpc[t] = "no" /\ (c = Cpu0 \/ t \in Proc)
  /\ on' = [on EXCEPT ![c] = FALSE]
  /\ hpc' = [hpc EXCEPT ![t] = IF c = Cpu0 THEN "clock" ELSE "yield"]
  /\ UNCHANGED <<noff, intena, run, lock, table, pc, j, saved, lk, idx, tick, sleeplock>>

\* Bound: ticks does not come round to a sys_sleep that has yet to look at it
\* (2^32 ticks in the code).
InTime == \A p \in Proc : n[p] # 0 => Elapsed(p) + 1 < UINT

\* clockintr up to its wakeup.
Clockintr(c) ==
  /\ At(c, "clock") /\ InTime
  /\ Acquire(c, Tickslock)
  /\ ticks' = (ticks + 1) % UINT
  /\ Goto(run[c], "wakeup")
  /\ UNCHANGED <<run, table, j, saved, lk, idx, ticks0, n, sleeplock>>

\* usertrap and kerneltrap behind devintr: a killed process in user mode
\* exits, any other process yields.
Yield(c) ==
  LET p == run[c] IN
  /\ At(c, "yield") /\ Free(p)
  /\ \/ /\ pc[p] = "user" /\ killed[p]
        /\ hpc' = [hpc EXCEPT ![p] = "no"]
        /\ pc' = [pc EXCEPT ![p] = "exit"]
        /\ UNCHANGED <<cpu, lock, state, saved, run>>
     \/ /\ pc[p] = "user" => ~killed[p]
        /\ Acquire(c, p)
        /\ state' = [state EXCEPT ![p] = "RUNNABLE"]
        /\ Sched(c, p)
  /\ UNCHANGED <<chan, killed, j, lk, idx, tick, sleeplock>>

\* The end of kerneltrap, or usertrapret: sret turns interrupts on.
Ret(c) ==
  LET t == run[c] IN
  /\ At(c, "ret")
  /\ on' = [on EXCEPT ![c] = TRUE]
  /\ hpc' = [hpc EXCEPT ![t] = "no"]
  /\ UNCHANGED <<noff, intena, run, lock, table, pc, j, saved, lk, idx, tick, sleeplock>>

\* kill() or setkilled(), by a process that is not modelled.
Kill(p) ==
  /\ Free(p) /\ state[p] # "UNUSED" /\ ~killed[p]
  /\ killed' = [killed EXCEPT ![p] = TRUE]
  /\ state' = [state EXCEPT ![p] = IF @ = "SLEEPING" THEN "RUNNABLE" ELSE @]
  /\ UNCHANGED <<cpu, run, lock, chan, pc, hpc, j, saved, lk, idx, tick, sleeplock>>

-----------------------------------------------------------------------------
\* What a CPU does by itself.
Step(c) ==
  \/ SchedOn(c) \/ Scan(c) \/ Back(c) \/ Resume(c) \/ Forkret(c)
  \/ Ecall(c) \/ Fork(c) \/ TrapReturn(c) \/ Exit(c) \/ SleepTest(c)
  \/ LockTest(c) \/ LockRelease(c) \/ Sleep(c) \/ Relock(c) \/ Wakeup(c) \/ WakeupDone(c)
  \/ Clockintr(c) \/ Yield(c) \/ Ret(c)

Next == (\E c \in Cpu : Step(c) \/ Interrupt(c)) \/ \E p \in Killable : Kill(p)

Spec == Init /\ [][Next]_vars

-----------------------------------------------------------------------------
\* Interrupts are on only where no spin lock is held and no handler runs, and
\* noff counts the locks of this CPU, whatever process took them and whatever
\* CPU it was on before.  A process comes back from sleep or from a timer
\* interrupt with interrupts as it had them, though every switch leaves the
\* intena of somebody else behind: in a system call they are on whenever it
\* holds no lock.  So release's, pop_off's, sched's and kerneltrap's panics on
\* noff and intr_get() stay away.
InterruptsOff ==
  \A c \in Cpu :
    LET t == run[c] IN
    /\ noff[c] = Cardinality({l \in Lock : lock[l] = c})
    /\ noff[c] # 0 \/ hpc[t] # "no" => ~on[c]
    /\ t \in Proc /\ hpc[t] = "no" /\ pc[t] # "exit" => (on[c] <=> noff[c] = 0)
    /\ At(c, "back") \/ At(c, "resume") \/ At(c, "forkret") => noff[c] = 1

\* The lock that CPU c spins for, if it is taken, while it may hold others.
Wants(c) ==
  LET t == run[c] IN
  CASE At(c, "scan") /\ idx[c] <= NPROC -> {idx[c]}
    [] At(c, "relock") -> {lk[t]}
    [] At(c, "held") -> {Lk}
    [] At(c, "clock") -> {Tickslock}
    [] At(c, "wakeup") /\ j[t] <= NPROC -> {j[t]} \ {t}
    [] At(c, "sleep") \/ At(c, "exit") \/ At(c, "yield") -> {t}
    [] OTHER -> {}

\* No two CPUs spin for a lock of one another, and none for its own (acquire's
\* panic), the clock's handler included: it takes tickslock and then the lock
\* of every process on whatever the interrupt hit.
NoSpinDeadlock ==
  \A c, d \in Cpu :
    ~ \E l \in Wants(c), m \in Wants(d) : lock[l] = d /\ lock[m] = c

\* No wakeup is lost: nobody sleeps for a tick that was counted, or for a sleep
\* lock that is free, once the CPU that changed it has let go of the lock, at
\* whatever point of sleep the timer or the other CPU came in.
NoLostWakeup ==
  \A p \in Proc :
    state[p] = "SLEEPING" /\ Free(chan[p])
      => IF chan[p] = Tickslock THEN Elapsed(p) < n[p] ELSE locked

\* Between acquiresleep and releasesleep a process is alone, preempted or not,
\* and it is the one holdingsleep answers yes to.
MutualExclusion ==
  \A p \in Proc : pc[p] = "held" => locked /\ pid = p
=============================================================================
