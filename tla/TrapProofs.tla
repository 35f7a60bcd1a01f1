----------------------------- MODULE TrapProofs -----------------------------
(***************************************************************************)
(* Proofs about Trap: interrupts are off wherever a spin lock is held      *)
(* (InterruptsOff), no two CPUs spin for each other's lock                 *)
(* (NoSpinDeadlock), no wakeup is lost (NoLostWakeup) and a sleep lock has *)
(* one owner (MutualExclusion), for any number of CPUs and processes, any  *)
(* sys_sleep arguments and any width of the tick counter.                  *)
(*                                                                         *)
(* The heart of the inductive invariant TrapInv is that the place a CPU is *)
(* at determines the lock it holds (Holding), so that nobody ever holds    *)
(* two of them for longer than sleep's way from one to the other, and that *)
(* what sched() saved of intena is what the process had.                   *)
(***************************************************************************)
EXTENDS Trap, TLAPS

State == {"UNUSED", "RUNNABLE", "RUNNING", "SLEEPING", "ZOMBIE"}
\* Where a process can be interrupted.
Calm == {"user", "return", "relock", "held", "exit"}
ProcPc == Calm \cup {"forkret", "resume", "test", "sleep", "wakeup"}
ProcHpc == {"no", "clock", "wakeup", "yield", "resume", "ret"}
CpuHpc == {"no", "clock", "wakeup", "ret"}
\* Where a CPU holds a lock.
Locked == {"forkret", "resume", "test", "sleep", "wakeup", "back"}

CpuType ==
  /\ on \in [Cpu -> BOOLEAN] /\ noff \in [Cpu -> Nat] /\ intena \in [Cpu -> BOOLEAN]
  /\ lock \in [Lock -> Cpu \cup {None}]
RunType == run \in [Cpu -> Thread] /\ idx \in [Cpu -> 1..NPROC + 1]
ThreadType ==
  /\ DOMAIN pc = Thread /\ DOMAIN hpc = Thread
  /\ \A p \in Proc : pc[p] \in ProcPc /\ hpc[p] \in ProcHpc
  /\ \A c \in Cpu : pc[c] \in {"scan", "back"} /\ hpc[c] \in CpuHpc
  /\ j \in [Thread -> 1..NPROC + 1]
ProcType ==
  /\ state \in [Proc -> State] /\ chan \in [Proc -> {Tickslock, Lk, NoChan}]
  /\ killed \in [Proc -> BOOLEAN] /\ saved \in [Proc -> BOOLEAN]
  /\ lk \in [Proc -> {Tickslock, Lk}]
  /\ ticks \in Nat /\ ticks0 \in [Proc -> Nat] /\ n \in [Proc -> Nat]
  /\ locked \in BOOLEAN
Types == CpuType /\ RunType /\ ThreadType /\ ProcType

\* The step a thread is at, in a handler or not.
Pos(t) == IF hpc[t] = "no" THEN pc[t] ELSE hpc[t]

\* A handler runs on top of a thread that had interrupts on, and only wakeup
\* is in the middle of a loop.
ThreadOK(t) ==
  /\ hpc[t] # "no" => pc[t] \in Calm \cup {"scan"}
  /\ Pos(t) # "wakeup" => j[t] = 1

\* A scheduler waits behind swtch for the process it runs.
SchedOK(c) ==
  /\ pc[c] = "back" => idx[c] \in Proc
  /\ run[c] \in Proc => pc[c] = "back" /\ idx[c] = run[c]

\* What sleep waits for has not come.
Pending(p, ch) == IF ch = Tickslock THEN Elapsed(p) < n[p] ELSE locked

\* Where a process is in each of its states, and what it may count on there.
ProcOK(p) ==
  /\ state[p] = "UNUSED" => Pos(p) = "forkret"
  /\ state[p] = "RUNNABLE" => Pos(p) \in {"forkret", "resume"}
  /\ state[p] = "RUNNING" => \E c \in Cpu : run[c] = p
  /\ state[p] = "SLEEPING" => Pos(p) = "resume" /\ chan[p] = lk[p]
  /\ state[p] = "ZOMBIE" => pc[p] = "resume"
  /\ hpc[p] = "resume" => ~saved[p]
  /\ pc[p] = "resume" /\ state[p] # "ZOMBIE" => saved[p]
  /\ pc[p] = "sleep" => Pending(p, lk[p])
  /\ pc[p] = "held" => locked /\ pid = p
  /\ pc[p] \in {"forkret", "user"} => lk[p] = Tickslock

\* The lock CPU c holds, by where it is.
Holding(c, l) ==
  LET t == run[c] IN
  \/ Pos(t) \in {"forkret", "resume"} /\ l = t
  \/ Pos(t) = "back" /\ l = idx[c]
  \/ Pos(t) \in {"test", "sleep"} /\ l = lk[t]
  \/ Pos(t) = "wakeup" /\ l = WakeChan(t)

\* A CPU: what it runs, and its interrupts.
CpuOK(c) ==
  LET t == run[c] IN
  /\ t = c \/ (t \in Proc /\ state[t] = "RUNNING")
  /\ noff[c] = IF Pos(t) \in Locked THEN 1 ELSE 0
  /\ noff[c] # 0 \/ hpc[t] # "no" => ~on[c]
  /\ t \in Proc /\ hpc[t] = "no" /\ pc[t] # "exit" => (on[c] <=> noff[c] = 0)
  /\ pc[t] \in {"test", "sleep", "wakeup"} => intena[c]
  /\ hpc[t] = "wakeup" => ~intena[c]

\* A CPU in the wakeup of ch has yet to come to p.
Waker(c, ch, p) == LET t == run[c] IN Pos(t) = "wakeup" /\ WakeChan(t) = ch /\ j[t] <= p

Apart == \A c, d \in Cpu : c # d => run[c] # run[d]
Threads == \A t \in Thread : ThreadOK(t)
Scheds == \A c \in Cpu : SchedOK(c)
Procs == \A p \in Proc : ProcOK(p)
Cpus == \A c \in Cpu : CpuOK(c)
Held == \A c \in Cpu : \A l \in Lock : lock[l] = c <=> Holding(c, l)
Wakes == \A p \in Proc : state[p] = "SLEEPING" => Pending(p, chan[p]) \/ \E c \in Cpu : Waker(c, chan[p], p)

TrapInv == Types /\ Apart /\ Threads /\ Scheds /\ Procs /\ Cpus /\ Held /\ Wakes

-----------------------------------------------------------------------------
\* Processes, CPUs and locks are told apart.
LEMMA Facts ==
  /\ Proc \subseteq Thread /\ Cpu \subseteq Thread /\ \A t \in Thread : t \in Proc \/ t \in Cpu
  /\ \A c \in Cpu : c \notin Proc /\ c # None
  /\ Proc \subseteq Lock /\ Tickslock \in Lock /\ Lk \in Lock /\ Tickslock # Lk
  /\ Tickslock \notin Proc /\ Lk \notin Proc /\ None \notin Cpu
  /\ 1 \in 1..NPROC + 1 /\ Proc \subseteq 1..NPROC + 1
  /\ \A k \in 1..NPROC + 1 : k <= NPROC => k \in Proc /\ k + 1 \in 1..NPROC + 1
  /\ \A k \in 1..NPROC + 1 : k > NPROC => \A p \in Proc : ~(k <= p)
  /\ \A p \in Proc : 1 <= p
  BY TrapAssumption DEF Proc, Thread, Lock, Tickslock, Lk

\* Init satisfies TrapInv.
LEMMA InitTrap == Init => TrapInv
<1>. SUFFICES ASSUME Init PROVE TrapInv
  OBVIOUS
<1>. USE Facts
<1>1. CpuType
  BY Zenon, TrapAssumption DEF Init, CpuType
<1>8. RunType
  BY TrapAssumption DEF Init, RunType
<1>2. ThreadType
  BY Zenon DEF Init, ThreadType, ProcPc, ProcHpc, CpuHpc
<1>3. ProcType
  BY Zenon DEF Init, ProcType, State
<1>4. Apart /\ Threads /\ Scheds
  BY Zenon DEF Init, Apart, Threads, ThreadOK, Scheds, SchedOK, Pos
<1>5. Procs
  BY Zenon DEF Init, Procs, ProcOK, Pos
<1>6. Cpus
  BY Zenon DEF Init, Cpus, CpuOK, Pos, Locked
<1>7. Held /\ Wakes
  BY Zenon DEF Init, Held, Holding, Wakes, Pos
<1>. QED BY Zenon, <1>1, <1>2, <1>3, <1>4, <1>5, <1>6, <1>7, <1>8 DEF TrapInv, Types

-----------------------------------------------------------------------------
\* What a step of CPU c, which runs t, leaves alone: every thread but t and c,
\* every other CPU and its locks, and of the other processes all but a state
\* that wakeup, fork, kill and the scheduler change.  It changes ticks, and
\* sets a sleep lock free, only under their locks, and never under an owner.
OtherCpus(c) ==
  /\ \A d \in Cpu : d # c => on'[d] = on[d] /\ noff'[d] = noff[d] /\ intena'[d] = intena[d]
  /\ \A d \in Cpu : d # c => \A l \in Lock : lock'[l] = d <=> lock[l] = d
OtherRuns(c) == \A d \in Cpu : d # c => run'[d] = run[d] /\ idx'[d] = idx[d]
OtherThreads(c, t) ==
  \A u \in Thread : u # t /\ u # c => pc'[u] = pc[u] /\ hpc'[u] = hpc[u] /\ j'[u] = j[u]
OtherProcs(c, t) ==
  \A p \in Proc : p # t =>
    /\ saved'[p] = saved[p] /\ lk'[p] = lk[p] /\ ticks0'[p] = ticks0[p] /\ n'[p] = n[p]
    /\ chan'[p] = chan[p]
    /\ \/ state'[p] = state[p]
       \/ state[p] \in {"SLEEPING", "UNUSED"} /\ state'[p] = "RUNNABLE"
       \/ state[p] = "RUNNABLE" /\ state'[p] = "RUNNING" /\ run'[c] = p
    /\ pc[p] = "held" => locked' /\ pid' = p
Others(c, t) ==
  /\ OtherCpus(c) /\ OtherRuns(c) /\ OtherThreads(c, t) /\ OtherProcs(c, t)
  /\ run'[c] \in {c, t} \/ (run'[c] \in Proc /\ state[run'[c]] = "RUNNABLE")
  /\ ticks' = ticks \/ lock[Tickslock] = None
  /\ (locked => locked') \/ lock[Lk] = None

\* What it establishes for itself.
Mine(c, t) ==
  /\ ThreadOK(t)' /\ ThreadOK(c)' /\ SchedOK(c)' /\ CpuOK(c)'
  /\ t \in Proc => ProcOK(t)'
  /\ \A l \in Lock : lock'[l] = c <=> Holding(c, l)'

\* How it treats sleepers: a tick, or the release of a sleep lock, starts a
\* wakeup, which does not pass over them.
Wakeful(c, t) ==
  /\ ticks' = ticks \/ \A p \in Proc : Waker(c, Tickslock, p)'
  /\ (locked => locked') \/ \A p \in Proc : Waker(c, Lk, p)'
  /\ \A p \in Proc : p # t /\ state'[p] = "SLEEPING" /\ Waker(c, chan[p], p) => Waker(c, chan[p], p)'
  /\ t \in Proc /\ state'[t] = "SLEEPING" => Pending(t, chan[t])'

\* Such a step keeps TrapInv.
LEMMA StepOK ==
  ASSUME TrapInv, NEW c \in Cpu, NEW t \in Thread, run[c] = t, Types', Others(c, t), Mine(c, t), Wakeful(c, t)
  PROVE  TrapInv'
<1>0. t = c \/ t \in Proc
  BY Zenon DEF TrapInv, Cpus, CpuOK
<1>1. \A d \in Cpu : d # c => run[d] \in Thread /\ run[d] # t /\ run[d] # c /\ run'[d] = run[d]
  <2>1. \A d \in Cpu : run[d] = d \/ run[d] \in Proc
    BY Zenon DEF TrapInv, Cpus, CpuOK
  <2>2. \A d \in Cpu : d # c => run[d] # t /\ run'[d] = run[d]
    BY Zenon DEF TrapInv, Apart, Others, OtherRuns
  <2>. QED BY Zenon, <2>1, <2>2, Facts
<1>2. \A d \in Cpu : d # c =>
        LET u == run[d] IN /\ pc'[u] = pc[u] /\ hpc'[u] = hpc[u] /\ j'[u] = j[u]
                           /\ u \in Proc => lk'[u] = lk[u] /\ (state[u] = "RUNNING" => state'[u] = "RUNNING")
  BY <1>1 DEF Others, OtherThreads, OtherProcs
<1>3. Apart'
  <2>1. ASSUME NEW d \in Cpu, d # c PROVE run'[d] # run'[c]
    <3>1. CASE run'[c] \in {c, t}
      BY Zenon, <1>1, <2>1, <3>1
    <3>2. CASE run'[c] \in Proc /\ state[run'[c]] = "RUNNABLE"
      <4>1. run[d] = d \/ state[run[d]] = "RUNNING"
        BY Zenon DEF TrapInv, Cpus, CpuOK
      <4>. QED BY Zenon, <1>1, <2>1, <3>2, <4>1, Facts
    <3>. QED BY Zenon, <3>1, <3>2 DEF Others
  <2>. QED BY Zenon, <2>1, <1>1 DEF Apart, TrapInv
<1>4. Threads'
  <2>1. ASSUME NEW u \in Thread, u # t, u # c PROVE ThreadOK(u)'
    <3>1. ThreadOK(u) /\ pc'[u] = pc[u] /\ hpc'[u] = hpc[u] /\ j'[u] = j[u]
      BY Zenon, <2>1 DEF TrapInv, Threads, Others, OtherThreads
    <3>. QED BY Zenon, <3>1 DEF ThreadOK, Pos
  <2>. QED BY Zenon, <2>1 DEF Threads, Mine
<1>5. Scheds'
  <2>1. ASSUME NEW d \in Cpu, d # c PROVE SchedOK(d)'
    <3>1. d \in Thread /\ d # t
      BY Zenon, <1>0, <2>1, Facts
    <3>2. SchedOK(d) /\ pc'[d] = pc[d] /\ run'[d] = run[d] /\ idx'[d] = idx[d]
      BY Zenon, <2>1, <3>1 DEF TrapInv, Scheds, Others, OtherThreads, OtherRuns
    <3>. QED BY Zenon, <3>2 DEF SchedOK
  <2>. QED BY Zenon, <2>1 DEF Scheds, Mine
<1>6. Cpus'
  <2>1. ASSUME NEW d \in Cpu, d # c PROVE CpuOK(d)'
    <3>1. CpuOK(d) /\ run'[d] = run[d] /\ on'[d] = on[d] /\ noff'[d] = noff[d] /\ intena'[d] = intena[d]
      BY Zenon, <2>1 DEF TrapInv, Cpus, Others, OtherCpus, OtherRuns
    <3>. QED BY Zenon, <1>2, <2>1, <3>1 DEF CpuOK, Pos
  <2>. QED BY Zenon, <2>1 DEF Cpus, Mine
<1>7. Held'
  <2>1. ASSUME NEW d \in Cpu, d # c, NEW l \in Lock PROVE lock'[l] = d <=> Holding(d, l)'
    <3>1. (lock'[l] = d <=> lock[l] = d) /\ run'[d] = run[d] /\ idx'[d] = idx[d]
      BY Zenon, <2>1 DEF Others, OtherCpus, OtherRuns
    <3>3. lock[l] = d <=> Holding(d, l)
      BY Zenon DEF TrapInv, Held
    <3>2. Pos(run[d]) \in {"test", "sleep"} => run[d] \in Proc
      BY <1>1, <2>1, Facts, Zenon DEF TrapInv, Types, ThreadType, Pos, CpuHpc
    <3>. QED BY <1>2, <2>1, <3>1, <3>2, <3>3 DEF Holding, Pos, WakeChan
  <2>2. \A l \in Lock : lock'[l] = c <=> Holding(c, l)'
    BY Zenon DEF Mine
  <2>3. ASSUME NEW d \in Cpu, NEW l \in Lock PROVE lock'[l] = d <=> Holding(d, l)'
    <3>1. CASE d = c
      BY Zenon, <2>2, <3>1
    <3>2. CASE d # c
      BY Zenon, <2>1, <3>2
    <3>. QED BY Zenon, <3>1, <3>2
  <2>. QED BY Zenon, <2>3 DEF Held
<1>. DEFINE Kept(p) == /\ pc'[p] = pc[p] /\ hpc'[p] = hpc[p] /\ saved'[p] = saved[p] /\ lk'[p] = lk[p]
                       /\ chan'[p] = chan[p] /\ ticks0'[p] = ticks0[p] /\ n'[p] = n[p]
<1>8. \A p \in Proc : p # t => Kept(p)
  BY Facts DEF Others, OtherThreads, OtherProcs
<1>9. \A p \in Proc : \A ch : p # t /\ Pending(p, ch) /\ ticks' = ticks /\ (locked => locked') => Pending(p, ch)'
  BY Zenon, <1>8 DEF Pending, Elapsed
<1>10. Procs'
  <2>1. ASSUME NEW p \in Proc, p # t PROVE ProcOK(p)'
    <3>0. ProcOK(p) /\ Kept(p)
      BY Zenon, <1>8, <2>1 DEF TrapInv, Procs
    <3>1. state'[p] = "RUNNING" => \E d \in Cpu : run'[d] = p
      <4>1. CASE state[p] = "RUNNING"
        <5>1. PICK d \in Cpu : run[d] = p
          BY Zenon, <3>0, <4>1 DEF ProcOK
        <5>. QED BY Zenon, <1>1, <2>1, <5>1
      <4>2. CASE state[p] # "RUNNING"
        BY Zenon, <2>1, <4>2 DEF Others, OtherProcs
      <4>. QED BY Zenon, <4>1, <4>2
    <3>2. pc[p] = "sleep" => Pending(p, lk[p])'
      <4>. SUFFICES ASSUME pc[p] = "sleep" PROVE Pending(p, lk[p])'
        OBVIOUS
      <4>1. Pos(p) = "sleep"
        BY Zenon, <2>1, Facts DEF TrapInv, Threads, ThreadOK, Pos, Calm
      <4>2. state[p] = "RUNNING"
        BY Zenon, <3>0, <4>1 DEF ProcOK, TrapInv, Types, ProcType, State
      <4>3. PICK d \in Cpu : run[d] = p
        BY Zenon, <3>0, <4>2 DEF ProcOK
      <4>4. lock[lk[p]] = d /\ lk[p] \in {Tickslock, Lk}
        <5>1. lk[p] \in {Tickslock, Lk} /\ lk[p] \in Lock
          BY Zenon, Facts DEF TrapInv, Types, ProcType
        <5>. QED BY Zenon, <4>1, <4>3, <5>1 DEF TrapInv, Held, Holding
      <4>5. Pending(p, lk[p]) /\ lk'[p] = lk[p] /\ ticks0'[p] = ticks0[p] /\ n'[p] = n[p] /\ d # None
        BY Zenon, <3>0, Facts DEF ProcOK
      <4>6. CASE lk[p] = Tickslock
        BY Zenon, <4>4, <4>5, <4>6 DEF Pending, Elapsed, Others
      <4>7. CASE lk[p] = Lk
        BY Zenon, <4>4, <4>5, <4>7, Facts DEF Pending, Others
      <4>. QED BY Zenon, <4>4, <4>6, <4>7
    <3>3. \/ state'[p] = state[p]
          \/ state[p] \in {"SLEEPING", "UNUSED"} /\ state'[p] = "RUNNABLE"
          \/ state[p] = "RUNNABLE" /\ state'[p] = "RUNNING"
      BY Zenon, <2>1 DEF Others, OtherProcs
    <3>4. pc[p] = "held" => locked' /\ pid' = p
      BY Zenon, <2>1 DEF Others, OtherProcs
    <3>5. state'[p] = "SLEEPING" => state[p] = "SLEEPING"
      BY <3>3
    <3>. QED BY <3>0, <3>1, <3>2, <3>3, <3>4 DEF ProcOK, Pos
  <2>. QED BY Zenon, <2>1 DEF Procs, Mine
<1>11. Wakes'
  <2>1. ASSUME NEW p \in Proc, state'[p] = "SLEEPING"
        PROVE  Pending(p, chan[p])' \/ \E d \in Cpu : Waker(d, chan[p], p)'
    <3>1. CASE p = t
      BY Zenon, <2>1, <3>1 DEF Wakeful
    <3>2. CASE p # t
      <4>1. state[p] = "SLEEPING" /\ chan'[p] = chan[p]
        BY Zenon, <2>1, <3>2 DEF Others, OtherProcs
      <4>2. chan[p] \in {Tickslock, Lk}
        BY Zenon, <4>1 DEF TrapInv, Procs, ProcOK, Types, ProcType
      <4>3. CASE Pending(p, chan[p])
        <5>1. ticks' = ticks /\ (locked => locked') => Pending(p, chan[p])'
          BY Zenon, <1>9, <3>2, <4>1, <4>3 DEF Pending, Elapsed
        <5>2. CASE ticks' # ticks /\ chan[p] = Tickslock
          BY Zenon, <4>1, <5>2 DEF Wakeful
        <5>3. CASE ticks' = ticks /\ chan[p] = Tickslock
          BY Zenon, <1>8, <3>2, <4>1, <4>3, <5>3 DEF Pending, Elapsed
        <5>4. CASE chan[p] = Lk
          BY Zenon, <4>1, <4>3, <5>4, Facts DEF Wakeful, Pending
        <5>. QED BY Zenon, <4>2, <5>2, <5>3, <5>4
      <4>4. ASSUME NEW d \in Cpu, Waker(d, chan[p], p) PROVE Waker(d, chan[p], p)'
        <5>1. CASE d = c
          BY Zenon, <2>1, <3>2, <4>1, <4>4, <5>1 DEF Wakeful
        <5>2. CASE d # c
          BY Zenon, <1>1, <1>2, <4>1, <4>4, <5>2 DEF Waker, Pos, WakeChan
        <5>. QED BY Zenon, <5>1, <5>2
      <4>. QED BY Zenon, <4>1, <4>3, <4>4 DEF TrapInv, Wakes
    <3>. QED BY Zenon, <3>1, <3>2
  <2>. QED BY Zenon, <2>1 DEF Wakes
<1>. QED BY Zenon, <1>3, <1>4, <1>5, <1>6, <1>7, <1>10, <1>11 DEF TrapInv

-----------------------------------------------------------------------------
\* What TrapInv says of the CPU c that runs t,
LEMMA Here ==
  ASSUME TrapInv, NEW c \in Cpu, NEW t, run[c] = t
  PROVE  /\ t \in Thread /\ CpuOK(c) /\ ThreadOK(t) /\ SchedOK(c) /\ (t \in Proc => ProcOK(t))
         /\ t = c \/ (t \in Proc /\ state[t] = "RUNNING")
         /\ pc[t] \in ProcPc \cup {"scan", "back"} /\ hpc[t] \in ProcHpc
         /\ \A l \in Lock : lock[l] = c <=> Holding(c, l)
<1>1. t \in Thread /\ CpuOK(c) /\ SchedOK(c)
  BY Zenon DEF TrapInv, Types, RunType, Cpus, Scheds
<1>2. ThreadOK(t) /\ (t \in Proc => ProcOK(t)) /\ \A l \in Lock : lock[l] = c <=> Holding(c, l)
  BY Zenon, <1>1 DEF TrapInv, Threads, Procs, Held
<1>3. pc[t] \in ProcPc \cup {"scan", "back"} /\ hpc[t] \in ProcHpc
  BY Zenon, <1>1, Facts DEF TrapInv, Types, ThreadType, ProcHpc, CpuHpc
<1>. QED BY Zenon, <1>1, <1>2, <1>3 DEF CpuOK

\* of a process at a step outside handlers and loops,
LEMMA InProc ==
  ASSUME TrapInv, NEW c \in Cpu, NEW t, run[c] = t,
         Pos(t) \in {"forkret", "user", "return", "exit", "test", "sleep", "relock", "held"}
  PROVE  t \in Proc /\ state[t] = "RUNNING" /\ hpc[t] = "no" /\ pc[t] = Pos(t)
<1>1. t = c \/ (t \in Proc /\ state[t] = "RUNNING")
  BY Zenon, Here
<1>2. t \in Proc
  <2>1. CASE t = c
    BY Zenon, <2>1 DEF TrapInv, Types, ThreadType, Pos, CpuHpc
  <2>. QED BY Zenon, <1>1, <2>1
<1>3. hpc[t] = "no"
  BY Zenon, <1>2 DEF TrapInv, Types, ThreadType, Pos, ProcHpc
<1>. QED BY Zenon, <1>1, <1>2, <1>3, Facts DEF Pos

\* acquire by a CPU without a lock,
LEMMA Take ==
  ASSUME TrapInv, NEW c \in Cpu, NEW t, run[c] = t, Pos(t) \notin Locked, NEW l \in Lock, Acquire(c, l)
  PROVE  /\ CpuType' /\ OtherCpus(c) /\ lock[l] = None /\ \A k \in Lock : lock'[k] = c <=> k = l
         /\ noff'[c] = 1 /\ ~on'[c] /\ intena'[c] = on[c]
<1>1. CpuType /\ noff[c] = 0 /\ c # None /\ \A k \in Lock : lock[k] # c
  <2>1. \A k \in Lock : ~Holding(c, k)
    BY Zenon DEF Holding, Locked
  <2>2. noff[c] = 0
    BY Zenon DEF TrapInv, Cpus, CpuOK
  <2>. QED BY Zenon, <2>1, <2>2, Facts DEF TrapInv, Types, Held
<1>2. lock[l] = None /\ lock' = [lock EXCEPT ![l] = c]
  BY Zenon DEF Acquire, Free
<1>3. /\ intena' = [intena EXCEPT ![c] = on[c]] /\ on' = [on EXCEPT ![c] = FALSE]
      /\ noff' = [noff EXCEPT ![c] = 1]
  BY <1>1 DEF Acquire, PushOff, CpuType
<1>4. lock' \in [Lock -> Cpu \cup {None}] /\ (\A k \in Lock : lock'[k] = c <=> k = l)
      /\ \A d \in Cpu : d # c => \A k \in Lock : lock'[k] = d <=> lock[k] = d
  BY Zenon, <1>1, <1>2, Facts DEF CpuType
<1>5. on' \in [Cpu -> BOOLEAN] /\ noff' \in [Cpu -> Nat] /\ intena' \in [Cpu -> BOOLEAN]
  BY Zenon, <1>1, <1>3 DEF CpuType
<1>6. noff'[c] = 1 /\ ~on'[c] /\ intena'[c] = on[c]
      /\ \A d \in Cpu : d # c => on'[d] = on[d] /\ noff'[d] = noff[d] /\ intena'[d] = intena[d]
  BY Zenon, <1>1, <1>3 DEF CpuType
<1>. QED BY Zenon, <1>2, <1>4, <1>5, <1>6 DEF CpuType, OtherCpus

\* and release by one that has the lock.
LEMMA Give ==
  ASSUME TrapInv, NEW c \in Cpu, NEW t, run[c] = t, Pos(t) \in Locked, NEW l \in Lock, Holding(c, l),
         lock' = [lock EXCEPT ![l] = None], NEW e \in BOOLEAN, PopOff(c, e)
  PROVE  /\ CpuType' /\ OtherCpus(c) /\ \A k \in Lock : lock'[k] # c
         /\ noff'[c] = 0 /\ on'[c] = e
<1>1. CpuType /\ noff[c] = 1 /\ c # None /\ ~on[c] /\ lock[l] = c /\ \A k \in Lock : lock[k] = c => k = l
  <2>1. \A k \in Lock : Holding(c, k) => k = l
    BY DEF Holding, Locked
  <2>2. noff[c] = 1 /\ ~on[c]
    BY DEF TrapInv, Cpus, CpuOK
  <2>. QED BY Zenon, <2>1, <2>2, Facts DEF TrapInv, Types, Held
<1>2. noff' = [noff EXCEPT ![c] = 0] /\ on' = [on EXCEPT ![c] = e] /\ intena' = [intena EXCEPT ![c] = FALSE]
  <2>1. noff' = [noff EXCEPT ![c] = 0]
    BY <1>1 DEF PopOff, CpuType
  <2>2. (on[c] \/ (noff[c] = 1 /\ e)) = e /\ (noff[c] # 1 /\ e) = FALSE
    <3>1. CASE e = TRUE
      BY Zenon, <1>1, <3>1
    <3>2. CASE e = FALSE
      BY Zenon, <1>1, <3>2
    <3>. QED BY Zenon, <3>1, <3>2
  <2>. QED BY Zenon, <2>1, <2>2 DEF PopOff
<1>3. lock' \in [Lock -> Cpu \cup {None}] /\ (\A k \in Lock : lock'[k] # c)
      /\ \A d \in Cpu : d # c => \A k \in Lock : lock'[k] = d <=> lock[k] = d
  BY Zenon, <1>1, Facts DEF CpuType
<1>4. on' \in [Cpu -> BOOLEAN] /\ noff' \in [Cpu -> Nat] /\ intena' \in [Cpu -> BOOLEAN]
  BY Zenon, <1>1, <1>2 DEF CpuType
<1>5. noff'[c] = 0 /\ on'[c] = e
      /\ \A d \in Cpu : d # c => on'[d] = on[d] /\ noff'[d] = noff[d] /\ intena'[d] = intena[d]
  BY Zenon, <1>1, <1>2 DEF CpuType
<1>. QED BY Zenon, <1>3, <1>4, <1>5 DEF CpuType, OtherCpus

\* A thread goes to l,
Moved(t, l) ==
  /\ \A u \in Thread : u # t => pc'[u] = pc[u] /\ hpc'[u] = hpc[u]
  /\ hpc[t] = "no" => pc'[t] = l /\ hpc'[t] = "no"
  /\ hpc[t] # "no" => pc'[t] = pc[t] /\ hpc'[t] = l
\* in its own code or in its handler.
LEMMA Move ==
  ASSUME TrapInv, NEW t \in Thread, NEW l, Goto(t, l), j' \in [Thread -> 1..NPROC + 1],
         \/ t \in Proc /\ hpc[t] = "no" /\ l \in ProcPc
         \/ t \in Proc /\ hpc[t] # "no" /\ l \in ProcHpc
         \/ t \in Cpu /\ hpc[t] # "no" /\ l \in CpuHpc
  PROVE  ThreadType' /\ Moved(t, l)
<1>1. ThreadType
  BY Zenon DEF TrapInv, Types
<1>2. DOMAIN pc' = Thread /\ DOMAIN hpc' = Thread /\ Moved(t, l)
  BY Zenon, <1>1 DEF Goto, ThreadType, Moved
<1>. QED BY ZenonT(30), <1>1, <1>2, Facts DEF ThreadType, Moved

-----------------------------------------------------------------------------
\* A step that keeps c on its thread t: what is left to show of it.
Stays(c, t) ==
  /\ run' = run /\ idx' = idx
  /\ t \in Proc => state'[t] = "RUNNING"
  /\ t \notin Proc => pc'[t] = pc[t]
  /\ CpuType' /\ ThreadType' /\ ProcType'
  /\ OtherCpus(c) /\ OtherProcs(c, t)
  /\ \A u \in Thread : u # t => pc'[u] = pc[u] /\ hpc'[u] = hpc[u] /\ j'[u] = j[u]
  /\ ThreadOK(t)' /\ pc'[t] # "resume" /\ hpc'[t] # "resume"
  /\ pc'[t] = "sleep" => Pending(t, lk[t])'
  /\ pc'[t] = "held" => locked' /\ pid' = t
  /\ pc'[t] \in {"forkret", "user"} => lk'[t] = Tickslock
  /\ CpuOK(c)' /\ \A l \in Lock : lock'[l] = c <=> Holding(c, l)'
  /\ ticks' = ticks \/ lock[Tickslock] = None
  /\ (locked => locked') \/ lock[Lk] = None

\* A step within the thread t that CPU c executes keeps TrapInv, when it meets Stays and
\* Wakeful.
LEMMA Stay ==
  ASSUME TrapInv, NEW c \in Cpu, NEW t, run[c] = t, Stays(c, t), Wakeful(c, t)
  PROVE  TrapInv'
<1>1. t \in Thread /\ c \in Thread /\ (t = c \/ t \in Proc) /\ c \notin Proc
  BY Zenon, Facts, Here
<1>2. run'[c] = t /\ RunType'
  BY Zenon DEF Stays, TrapInv, Types, RunType
<1>3. Types'
  BY Zenon, <1>2 DEF Types, Stays
<1>4. Others(c, t)
  BY Zenon, <1>2 DEF Stays, Others, OtherRuns, OtherThreads
<1>5. ThreadOK(c)' /\ SchedOK(c)'
  <2>1. ThreadOK(c) /\ SchedOK(c) /\ pc'[c] = pc[c] /\ idx' = idx /\ run' = run
    BY Zenon, <1>1 DEF TrapInv, Threads, Scheds, Stays
  <2>2. CASE t = c
    BY Zenon, <2>1, <2>2 DEF SchedOK, Stays
  <2>3. CASE t # c
    BY Zenon, <1>1, <2>1, <2>3 DEF ThreadOK, SchedOK, Pos, Stays
  <2>. QED BY Zenon, <2>2, <2>3
<1>6. t \in Proc => ProcOK(t)'
  BY Zenon, <1>2 DEF ProcOK, Stays
<1>7. Mine(c, t)
  BY Zenon, <1>5, <1>6 DEF Mine, Stays
<1>. QED BY Zenon, <1>1, <1>3, <1>4, <1>7, StepOK

\* A step outside wakeup that ends no reason to sleep.
LEMMA Quiet ==
  ASSUME NEW c \in Cpu, NEW t, run[c] = t, Pos(t) # "wakeup", ticks' = ticks, locked => locked',
         t \in Proc => state'[t] # "SLEEPING"
  PROVE  Wakeful(c, t)
  BY Zenon DEF Wakeful, Waker

\* What most steps do to the process table: nothing.
Same ==
  /\ state' = state /\ chan' = chan /\ killed' = killed /\ saved' = saved
  /\ ticks0' = ticks0 /\ n' = n /\ lk' = lk

\* A step that leaves the process table alone keeps its types and the other processes.
LEMMA SameProcs ==
  ASSUME TrapInv, NEW c \in Cpu, NEW t, run[c] = t, Same,
         ticks' \in Nat, locked' \in BOOLEAN, (locked => locked' /\ pid' = pid) \/ (t \in Proc /\ pc[t] = "held")
  PROVE  ProcType' /\ OtherProcs(c, t) /\ (t \in Proc => state'[t] = "RUNNING")
<1>1. t \in Proc => state[t] = "RUNNING"
  BY Here, Facts
<1>2. \A p \in Proc : p # t /\ pc[p] = "held" => locked' /\ pid' = p
  <2>1. \A p \in Proc : pc[p] = "held" => locked /\ pid = p
    BY Zenon DEF TrapInv, Procs, ProcOK
  <2>. QED BY Zenon, <2>1
<1>. QED BY Zenon, <1>1, <1>2 DEF Same, OtherProcs, TrapInv, Types, ProcType

\* usertrap: the step from user mode into a system call.
LEMMA EcallStep == ASSUME TrapInv, NEW c \in Cpu, Ecall(c) PROVE TrapInv'
<1>0. PICK t : t = run[c]
  OBVIOUS
<1>1. Pos(t) = "user" /\ run' = run /\ idx' = idx /\ j' = j
  BY Zenon, <1>0 DEF Ecall, At, Pos
<1>2. t \in Proc /\ t \in Thread /\ state[t] = "RUNNING" /\ hpc[t] = "no" /\ pc[t] = "user" /\ lk[t] = Tickslock
  <2>1. t \in Proc /\ state[t] = "RUNNING" /\ hpc[t] = "no" /\ pc[t] = "user"
    BY Zenon, <1>0, <1>1, InProc
  <2>. QED BY Zenon, <2>1, Facts DEF TrapInv, Procs, ProcOK
<1>3. noff[c] = 0 /\ on[c] /\ j[t] = 1
  BY Zenon, <1>0, <1>1, <1>2 DEF TrapInv, Cpus, CpuOK, Threads, ThreadOK, Locked
<1>4. ticks' = ticks /\ locked' = locked /\ pid' = pid
      /\ UNCHANGED <<state, chan, killed, saved>>
  BY Zenon DEF Ecall, table, sleeplock
<1>5. j' \in [Thread -> 1..NPROC + 1]
  BY Zenon, <1>1 DEF TrapInv, Types, ThreadType
<1>6. Wakeful(c, t)
  BY Zenon, <1>0, <1>1, <1>2, <1>4, Quiet
<1>7. CASE on' = [on EXCEPT ![c] = FALSE] /\ Goto(t, "exit") /\ UNCHANGED <<noff, intena, lock, lk, ticks0, n>>
  <2>1. ThreadType' /\ Moved(t, "exit")
    BY Zenon, <1>2, <1>5, <1>7, Move DEF ProcPc, Calm
  <2>2. CpuType' /\ OtherCpus(c) /\ ~on'[c]
    BY Zenon, <1>7 DEF TrapInv, Types, CpuType, OtherCpus
  <2>3. ProcType' /\ OtherProcs(c, t) /\ state'[t] = "RUNNING"
    BY Zenon, <1>0, <1>2, <1>4, <1>7, SameProcs DEF Same, TrapInv, Types, ProcType
  <2>4. pc'[t] = "exit" /\ hpc'[t] = "no" /\ run'[c] = t
    BY Zenon, <1>0, <1>1, <1>2, <2>1 DEF Moved
  <2>5. ThreadOK(t)' /\ CpuOK(c)'
    BY Zenon, <1>1, <1>2, <1>3, <1>7, <2>2, <2>3, <2>4 DEF ThreadOK, CpuOK, Pos, Locked
  <2>6. \A l \in Lock : lock'[l] = c <=> Holding(c, l)'
    <3>1. \A l \in Lock : ~Holding(c, l) /\ ~Holding(c, l)'
      BY Zenon, <1>0, <1>1, <2>4 DEF Holding, Pos
    <3>. QED BY Zenon, <1>0, <1>7, <3>1, Here
  <2>7. Stays(c, t)
    BY Zenon, <1>1, <1>2, <1>4, <2>1, <2>2, <2>3, <2>4, <2>5, <2>6 DEF Stays, Moved
  <2>. QED BY Zenon, <1>0, <1>2, <1>6, <2>7, Stay
<1>8. ASSUME NEW l \in {Tickslock, Lk}, Acquire(c, l), lk' = [lk EXCEPT ![t] = l], Goto(t, "test"),
             \/ ticks0' = ticks0 /\ n' = n
             \/ ticks0' = [ticks0 EXCEPT ![t] = ticks] /\ \E k \in SleepArgs : n' = [n EXCEPT ![t] = k]
      PROVE  TrapInv'
  <2>1. ThreadType' /\ Moved(t, "test")
    BY Zenon, <1>2, <1>5, <1>8, Move DEF ProcPc
  <2>2. /\ CpuType' /\ OtherCpus(c) /\ \A k \in Lock : lock'[k] = c <=> k = l
        /\ noff'[c] = 1 /\ ~on'[c] /\ intena'[c]
    BY <1>0, <1>1, <1>3, <1>8, Take, Facts DEF Locked
  <2>3. ProcType'
    BY <1>2, <1>4, <1>8, TrapAssumption DEF TrapInv, Types, ProcType
  <2>4. OtherProcs(c, t) /\ state'[t] = "RUNNING" /\ lk'[t] = l
    <3>1. /\ \A p \in Proc : p # t => lk'[p] = lk[p] /\ ticks0'[p] = ticks0[p] /\ n'[p] = n[p]
          /\ lk'[t] = l
      BY Zenon, <1>2, <1>8 DEF TrapInv, Types, ProcType
    <3>. QED BY Zenon, <1>2, <1>4, <3>1 DEF OtherProcs, TrapInv, Procs, ProcOK
  <2>5. pc'[t] = "test" /\ hpc'[t] = "no" /\ run'[c] = t
    BY Zenon, <1>0, <1>1, <1>2, <2>1 DEF Moved
  <2>6. ThreadOK(t)' /\ CpuOK(c)' /\ \A k \in Lock : lock'[k] = c <=> Holding(c, k)'
    BY <1>1, <1>2, <1>3, <2>2, <2>4, <2>5 DEF ThreadOK, CpuOK, Pos, Locked, Holding
  <2>7. Stays(c, t)
    BY Zenon, <1>1, <1>2, <1>4, <2>1, <2>2, <2>3, <2>4, <2>5, <2>6 DEF Stays, Moved
  <2>. QED BY Zenon, <1>0, <1>2, <1>6, <2>7, Stay
<1>9. lk = [lk EXCEPT ![t] = Tickslock]
  BY Zenon, <1>2 DEF TrapInv, Types, ProcType
<1>10. \/ on' = [on EXCEPT ![c] = FALSE] /\ Goto(t, "exit") /\ UNCHANGED <<noff, intena, lock, lk, ticks0, n>>
       \/ /\ Acquire(c, Tickslock) /\ ticks0' = [ticks0 EXCEPT ![t] = ticks]
          /\ \E k \in SleepArgs : n' = [n EXCEPT ![t] = k]
          /\ Goto(t, "test") /\ lk' = lk
       \/ Acquire(c, Lk) /\ lk' = [lk EXCEPT ![t] = Lk] /\ Goto(t, "test") /\ ticks0' = ticks0 /\ n' = n
  BY Zenon, <1>0 DEF Ecall
<1>. QED BY Zenon, <1>7, <1>8, <1>9, <1>10

\* forkret releases p->lock and goes to user mode.
LEMMA ForkretStep == ASSUME TrapInv, NEW c \in Cpu, Forkret(c) PROVE TrapInv'
<1>0. PICK t : t = run[c]
  OBVIOUS
<1>1. Pos(t) = "forkret" /\ run' = run /\ idx' = idx /\ j' = j /\ Same /\ ticks' = ticks /\ locked' = locked /\ pid' = pid
  BY Zenon, <1>0 DEF Forkret, At, Pos, Same, table, tick, sleeplock
<1>2. t \in Proc /\ t \in Thread /\ t \in Lock /\ hpc[t] = "no" /\ pc[t] = "forkret" /\ lk[t] = Tickslock
  <2>1. t \in Proc /\ hpc[t] = "no" /\ pc[t] = "forkret"
    BY Zenon, <1>0, <1>1, InProc
  <2>. QED BY Zenon, <2>1, Facts DEF TrapInv, Procs, ProcOK
<1>3. noff[c] = 1 /\ ~on[c] /\ j[t] = 1 /\ Holding(c, t) /\ c \in Cpu /\ CpuType
  BY <1>0, <1>1, <1>2 DEF TrapInv, Cpus, CpuOK, Threads, ThreadOK, Locked, Holding, Types
<1>4. /\ CpuType' /\ OtherCpus(c) /\ \A k \in Lock : lock'[k] # c
      /\ noff'[c] = 0 /\ on'[c] = TRUE
  <2>1. PopOff(c, TRUE)
    <3>1. (on[c] \/ (noff[c] = 1 /\ TRUE)) = TRUE /\ (noff[c] # 1 /\ TRUE) = FALSE
      BY Zenon, <1>3
    <3>. QED BY Zenon, <3>1 DEF PopOff, Forkret
  <2>2. lock' = [lock EXCEPT ![t] = None]
    BY Zenon, <1>0 DEF Forkret
  <2>. QED BY Zenon, <1>0, <1>1, <1>2, <1>3, <2>1, <2>2, Give DEF Locked
<1>5. ThreadType' /\ Moved(t, "user")
  <2>1. j' \in [Thread -> 1..NPROC + 1] /\ Goto(t, "user")
    BY Zenon, <1>0, <1>1 DEF TrapInv, Types, ThreadType, Forkret
  <2>. QED BY Zenon, <1>2, <2>1, Move DEF ProcPc, Calm
<1>6. ProcType' /\ OtherProcs(c, t) /\ state'[t] = "RUNNING"
  BY Zenon, <1>0, <1>1, <1>2, SameProcs DEF TrapInv, Types, ProcType
<1>7. pc'[t] = "user" /\ hpc'[t] = "no" /\ run'[c] = t /\ lk'[t] = Tickslock
  BY Zenon, <1>0, <1>1, <1>2, <1>5 DEF Moved, Same
<1>8. ThreadOK(t)' /\ CpuOK(c)' /\ \A k \in Lock : lock'[k] = c <=> Holding(c, k)'
  BY Zenon, <1>1, <1>2, <1>3, <1>4, <1>6, <1>7 DEF ThreadOK, CpuOK, Pos, Locked, Holding
<1>9. Stays(c, t)
  BY Zenon, <1>1, <1>2, <1>4, <1>5, <1>6, <1>7, <1>8 DEF Stays, Moved
<1>10. Wakeful(c, t)
  BY Zenon, <1>0, <1>1, <1>6, Quiet
<1>. QED BY Zenon, <1>0, <1>9, <1>10, Stay

\* A step of a process that holds no lock before or after and leaves its
\* interrupts alone.
LEMMA Idle ==
  ASSUME TrapInv, NEW c \in Cpu, NEW t, run[c] = t, t \in Proc, hpc[t] = "no", UNCHANGED <<cpu, lock>>, run' = run,
         Pos(t) \in Calm, Pos(t)' \in Calm, hpc'[t] = "no", state'[t] = "RUNNING", pc[t] = "exit" => pc'[t] = "exit"
  PROVE  CpuType' /\ OtherCpus(c) /\ CpuOK(c)' /\ \A l \in Lock : lock'[l] = c <=> Holding(c, l)'
<1>1. CpuType /\ CpuOK(c) /\ on' = on /\ noff' = noff /\ intena' = intena /\ lock' = lock
  BY Zenon DEF TrapInv, Types, Cpus, cpu
<1>2. CpuType' /\ OtherCpus(c)
  BY Zenon, <1>1 DEF CpuType, OtherCpus
<1>3. CpuOK(c)'
  BY Zenon, <1>1 DEF CpuOK, Pos, Calm, Locked
<1>4. \A l \in Lock : ~Holding(c, l) /\ ~Holding(c, l)'
  BY Zenon DEF Holding, Calm
<1>. QED BY Zenon, <1>1, <1>2, <1>3, <1>4 DEF TrapInv, Held

\* fork makes another process RUNNABLE.
LEMMA ForkStep == ASSUME TrapInv, NEW c \in Cpu, Fork(c) PROVE TrapInv'
<1>0. PICK t : t = run[c]
  OBVIOUS
<1>1. /\ Pos(t) = "user" /\ run' = run /\ idx' = idx /\ j' = j /\ pc' = pc /\ hpc' = hpc /\ UNCHANGED <<cpu, lock>>
      /\ UNCHANGED <<chan, killed, saved, lk, ticks, ticks0, n, locked, pid>>
  BY Zenon, <1>0 DEF Fork, At, Pos, tick, sleeplock
<1>2. t \in Proc /\ state[t] = "RUNNING" /\ hpc[t] = "no" /\ pc[t] = "user"
  BY Zenon, <1>0, <1>1, InProc
<1>3. PICK q \in Proc : state[q] = "UNUSED" /\ state' = [state EXCEPT ![q] = "RUNNABLE"]
  BY Zenon DEF Fork
<1>4. ProcType' /\ state'[t] = "RUNNING"
  BY Zenon, <1>1, <1>2, <1>3 DEF TrapInv, Types, ProcType, State
<1>5. OtherProcs(c, t)
  BY ZenonT(30), <1>1, <1>3 DEF OtherProcs, TrapInv, Types, ProcType, Procs, ProcOK
<1>6. CpuType' /\ OtherCpus(c) /\ CpuOK(c)' /\ \A l \in Lock : lock'[l] = c <=> Holding(c, l)'
  BY Zenon, <1>0, <1>1, <1>2, <1>4, Idle DEF Calm, Pos
<1>7. ThreadType' /\ ThreadOK(t)' /\ lk'[t] = Tickslock
  BY Zenon, <1>1, <1>2, Facts DEF TrapInv, Types, ThreadType, Threads, ThreadOK, Pos, Procs, ProcOK
<1>8. Stays(c, t)
  BY Zenon, <1>1, <1>2, <1>4, <1>5, <1>6, <1>7 DEF Stays
<1>9. Wakeful(c, t)
  BY Zenon, <1>0, <1>1, <1>4, Quiet
<1>. QED BY Zenon, <1>0, <1>8, <1>9, Stay

\* usertrap behind the call.
LEMMA TrapReturnStep == ASSUME TrapInv, NEW c \in Cpu, TrapReturn(c) PROVE TrapInv'
<1>0. PICK t : t = run[c]
  OBVIOUS
<1>1. /\ Pos(t) = "return" /\ run' = run /\ idx' = idx /\ j' = j /\ UNCHANGED <<cpu, lock>>
      /\ UNCHANGED <<state, chan, killed, saved, ticks, ticks0, n, locked, pid>>
      /\ lk' = [lk EXCEPT ![t] = Tickslock]
  BY Zenon, <1>0 DEF TrapReturn, At, Pos, table, tick, sleeplock
<1>2. t \in Proc /\ t \in Thread /\ state[t] = "RUNNING" /\ hpc[t] = "no" /\ pc[t] = "return"
  BY Zenon, <1>0, <1>1, InProc, Facts
<1>3. PICK l \in {"exit", "user"} : Goto(t, l)
  BY Zenon, <1>0 DEF TrapReturn
<1>4. ThreadType' /\ Moved(t, l)
  <2>1. j' \in [Thread -> 1..NPROC + 1]
    BY Zenon, <1>1 DEF TrapInv, Types, ThreadType
  <2>. QED BY Zenon, <1>2, <1>3, <2>1, Move DEF ProcPc, Calm
<1>5. pc'[t] = l /\ hpc'[t] = "no" /\ Pos(t)' = l
  BY Zenon, <1>2, <1>4 DEF Moved, Pos
<1>6. ProcType' /\ state'[t] = "RUNNING" /\ lk'[t] = Tickslock
  BY Zenon, <1>1, <1>2 DEF TrapInv, Types, ProcType
<1>7. OtherProcs(c, t)
  BY ZenonT(30), <1>1 DEF OtherProcs, TrapInv, Types, ProcType, Procs, ProcOK
<1>8. CpuType' /\ OtherCpus(c) /\ CpuOK(c)' /\ \A k \in Lock : lock'[k] = c <=> Holding(c, k)'
  BY SMTT(30), <1>0, <1>1, <1>2, <1>5, <1>6, Idle DEF Calm
<1>9. ThreadOK(t)'
  BY Zenon, <1>1, <1>2, <1>5 DEF TrapInv, Threads, ThreadOK
<1>10. Stays(c, t)
  BY Zenon, <1>1, <1>2, <1>4, <1>5, <1>6, <1>7, <1>8, <1>9 DEF Stays, Moved
<1>11. Wakeful(c, t)
  BY Zenon, <1>0, <1>1, <1>6, Quiet
<1>. QED BY Zenon, <1>0, <1>10, <1>11, Stay

\* What sleep's callers have in hand at their test.
LEMMA AtTest ==
  ASSUME TrapInv, NEW c \in Cpu, NEW t, run[c] = t, Pos(t) \in {"test", "sleep"}
  PROVE  /\ t \in Proc /\ t \in Thread /\ state[t] = "RUNNING" /\ hpc[t] = "no" /\ pc[t] = Pos(t) /\ j[t] = 1
         /\ lk[t] \in {Tickslock, Lk} /\ lk[t] \in Lock /\ noff[c] = 1 /\ ~on[c] /\ intena[c] = TRUE /\ Holding(c, lk[t])
<1>1. t \in Proc /\ state[t] = "RUNNING" /\ hpc[t] = "no" /\ pc[t] = Pos(t)
  BY Zenon, InProc
<1>2. lk[t] \in {Tickslock, Lk} /\ lk[t] \in Lock /\ t \in Thread
  BY Zenon, <1>1, Facts DEF TrapInv, Types, ProcType
<1>3. noff[c] = 1 /\ ~on[c] /\ j[t] = 1 /\ intena[c] /\ intena[c] \in BOOLEAN
  BY <1>1, <1>2 DEF TrapInv, Types, CpuType, Cpus, CpuOK, Threads, ThreadOK, Locked
<1>. QED BY <1>1, <1>2, <1>3 DEF Holding

\* Such a test that sends its process to sleep,
LEMMA GoSleep ==
  ASSUME TrapInv, NEW c \in Cpu, NEW t, run[c] = t, Pos(t) = "test", Goto(t, "sleep"), Pending(t, lk[t]),
         UNCHANGED <<cpu, lock, run, state, chan, killed, j, saved, lk, idx, ticks, ticks0, n, locked, pid>>
  PROVE  TrapInv'
<1>1. /\ t \in Proc /\ t \in Thread /\ state[t] = "RUNNING" /\ hpc[t] = "no" /\ pc[t] = "test" /\ j[t] = 1
      /\ noff[c] = 1 /\ ~on[c] /\ intena[c] = TRUE
  BY ZenonT(30), AtTest
<1>2. /\ run' = run /\ idx' = idx /\ j' = j /\ Same /\ ticks' = ticks /\ locked' = locked /\ pid' = pid
      /\ on' = on /\ noff' = noff /\ intena' = intena /\ lock' = lock
  BY Zenon DEF Same, cpu
<1>3. ThreadType' /\ Moved(t, "sleep")
  <2>1. j' \in [Thread -> 1..NPROC + 1]
    BY Zenon, <1>2 DEF TrapInv, Types, ThreadType
  <2>. QED BY Zenon, <1>1, <2>1, Move DEF ProcPc
<1>4. pc'[t] = "sleep" /\ hpc'[t] = "no" /\ run'[c] = t
  BY Zenon, <1>1, <1>2, <1>3 DEF Moved
<1>5. ProcType' /\ OtherProcs(c, t) /\ state'[t] = "RUNNING"
  BY <1>1, <1>2, SameProcs DEF TrapInv, Types, ProcType
<1>6. CpuType' /\ OtherCpus(c)
  BY Zenon, <1>2 DEF TrapInv, Types, CpuType, OtherCpus
<1>7. ThreadOK(t)' /\ CpuOK(c)'
  BY SMTT(30), <1>1, <1>2, <1>4, <1>5 DEF ThreadOK, CpuOK, Pos, Locked
<1>8. \A l \in Lock : lock'[l] = c <=> Holding(c, l)'
  <2>1. \A l \in Lock : (Holding(c, l) <=> l = lk[t]) /\ (Holding(c, l)' <=> l = lk[t])
    BY Zenon, <1>1, <1>2, <1>4 DEF Holding, Pos, Same
  <2>2. \A l \in Lock : lock[l] = c <=> Holding(c, l)
    BY Zenon, Here
  <2>. QED BY Zenon, <1>2, <2>1, <2>2
<1>9. Pending(t, lk[t])'
  BY <1>2 DEF Pending, Elapsed, Same
<1>10. Stays(c, t)
  <2>1. pc'[t] # "resume" /\ hpc'[t] # "resume" /\ pc'[t] # "held" /\ pc'[t] \notin {"forkret", "user"}
    BY Zenon, <1>4
  <2>2. \A u \in Thread : u # t => pc'[u] = pc[u] /\ hpc'[u] = hpc[u] /\ j'[u] = j[u]
    BY Zenon, <1>2, <1>3 DEF Moved
  <2>3. run' = run /\ idx' = idx /\ t \in Proc /\ ticks' = ticks /\ (locked => locked')
    BY SMTT(30), <1>1, <1>2
  <2>. QED BY Zenon, <1>3, <1>5, <1>6, <1>7, <1>8, <1>9, <2>1, <2>2, <2>3 DEF Stays
<1>11. Wakeful(c, t)
  BY <1>2, <1>5, Quiet
<1>. QED BY Zenon, <1>10, <1>11, Stay

\* and one that ends the loop.
LEMMA GoOn ==
  ASSUME TrapInv, NEW c \in Cpu, NEW t, run[c] = t, Pos(t) = "test", NEW l \in {"return", "held"}, Goto(t, l),
         Release(c, lk[t]), run' = run, idx' = idx, j' = j, UNCHANGED <<state, chan, killed, saved, lk>>,
         ProcType', OtherProcs(c, t), ticks' = ticks, locked => locked', l = "held" => locked' /\ pid' = t
  PROVE  TrapInv'
<1>1. /\ t \in Proc /\ t \in Thread /\ state[t] = "RUNNING" /\ hpc[t] = "no" /\ pc[t] = "test" /\ j[t] = 1
      /\ lk[t] \in Lock /\ Holding(c, lk[t]) /\ intena[c] = TRUE
  BY Zenon, AtTest
<1>2. CpuType' /\ OtherCpus(c) /\ (\A k \in Lock : lock'[k] # c) /\ noff'[c] = 0 /\ on'[c] = TRUE
  <2>1. PopOff(c, TRUE) /\ lock' = [lock EXCEPT ![lk[t]] = None]
    BY Zenon, <1>1 DEF Release
  <2>. QED BY Zenon, <1>1, <2>1, Give DEF Locked
<1>3. ThreadType' /\ Moved(t, l)
  <2>1. j' \in [Thread -> 1..NPROC + 1]
    BY Zenon DEF TrapInv, Types, ThreadType
  <2>. QED BY Zenon, <1>1, <2>1, Move DEF ProcPc, Calm
<1>4. pc'[t] = l /\ hpc'[t] = "no" /\ run'[c] = t /\ state'[t] = "RUNNING"
  BY Zenon, <1>1, <1>3 DEF Moved
<1>5. ThreadOK(t)' /\ CpuOK(c)' /\ \A k \in Lock : lock'[k] = c <=> Holding(c, k)'
  BY Zenon, <1>1, <1>2, <1>4 DEF ThreadOK, CpuOK, Pos, Locked, Holding
<1>6. Stays(c, t)
  BY Zenon, <1>1, <1>2, <1>3, <1>4, <1>5 DEF Stays, Moved
<1>7. Wakeful(c, t)
  BY Zenon, <1>4, Quiet
<1>. QED BY Zenon, <1>6, <1>7, Stay

\* sys_sleep's loop.
LEMMA SleepTestStep == ASSUME TrapInv, NEW c \in Cpu, SleepTest(c) PROVE TrapInv'
<1>0. PICK t : t = run[c]
  OBVIOUS
<1>1. Pos(t) = "test" /\ lk[t] = Tickslock
  BY Zenon, <1>0 DEF SleepTest, At, Pos
<1>2. t \in Proc
  BY Zenon, <1>0, <1>1, AtTest
<1>3. run' = run /\ UNCHANGED <<state, chan, killed, j, saved, lk, idx, ticks, locked, pid>>
  BY Zenon DEF SleepTest, table, sleeplock
<1>4. CASE Elapsed(t) < n[t] /\ Goto(t, "sleep") /\ UNCHANGED <<cpu, lock, ticks0, n>>
  <2>1. Pending(t, lk[t])
    BY Zenon, <1>1, <1>4 DEF Pending
  <2>. QED BY Zenon, <1>0, <1>1, <1>3, <1>4, <2>1, GoSleep
<1>5. CASE /\ Release(c, Tickslock) /\ Goto(t, "return")
           /\ ticks0' = [ticks0 EXCEPT ![t] = 0] /\ n' = [n EXCEPT ![t] = 0]
  <2>1. ProcType'
    BY Zenon, <1>2, <1>3, <1>5 DEF TrapInv, Types, ProcType
  <2>2. OtherProcs(c, t)
    BY <1>2, <1>3, <1>5 DEF OtherProcs, TrapInv, Types, ProcType, Procs, ProcOK
  <2>. QED BY Zenon, <1>0, <1>1, <1>3, <1>5, <2>1, <2>2, GoOn
<1>. QED BY Zenon, <1>0, <1>4, <1>5 DEF SleepTest

\* acquiresleep's loop.
LEMMA LockTestStep == ASSUME TrapInv, NEW c \in Cpu, LockTest(c) PROVE TrapInv'
<1>0. PICK t : t = run[c]
  OBVIOUS
<1>1. Pos(t) = "test" /\ lk[t] = Lk
  BY Zenon, <1>0 DEF LockTest, At, Pos
<1>2. t \in Proc
  BY Zenon, <1>0, <1>1, AtTest
<1>3. run' = run /\ UNCHANGED <<state, chan, killed, j, saved, lk, idx, ticks, ticks0, n>>
  BY Zenon DEF LockTest, table, tick
<1>4. CASE locked /\ Goto(t, "sleep") /\ UNCHANGED <<cpu, lock, sleeplock>>
  <2>1. Pending(t, lk[t])
    BY Zenon, <1>1, <1>4, Facts DEF Pending
  <2>2. UNCHANGED <<locked, pid>>
    BY Zenon, <1>4 DEF sleeplock
  <2>. QED BY Zenon, <1>0, <1>1, <1>3, <1>4, <2>1, <2>2, GoSleep
<1>5. CASE ~locked /\ locked' = TRUE /\ pid' = t /\ Release(c, Lk) /\ Goto(t, "held")
  <2>1. ProcType' /\ OtherProcs(c, t)
    BY Zenon, <1>0, <1>2, <1>3, <1>5, SameProcs DEF Same, TrapInv, Types, ProcType
  <2>. QED BY Zenon, <1>0, <1>1, <1>3, <1>5, <2>1, GoOn
<1>. QED BY Zenon, <1>0, <1>4, <1>5 DEF LockTest

\* sleep's last line takes lk again.
LEMMA RelockStep == ASSUME TrapInv, NEW c \in Cpu, Relock(c) PROVE TrapInv'
<1>0. PICK t : t = run[c]
  OBVIOUS
<1>1. /\ Pos(t) = "relock" /\ run' = run /\ idx' = idx /\ j' = j /\ Same /\ ticks' = ticks /\ locked' = locked
      /\ pid' = pid /\ Acquire(c, lk[t]) /\ Goto(t, "test")
  BY Zenon, <1>0 DEF Relock, At, Pos, Same, table, tick, sleeplock
<1>2. t \in Proc /\ t \in Thread /\ state[t] = "RUNNING" /\ hpc[t] = "no" /\ pc[t] = "relock"
      /\ lk[t] \in Lock
  <2>1. t \in Proc /\ state[t] = "RUNNING" /\ hpc[t] = "no" /\ pc[t] = "relock"
    BY Zenon, <1>0, <1>1, InProc
  <2>. QED BY Zenon, <2>1, Facts DEF TrapInv, Types, ProcType
<1>3. on[c] /\ j[t] = 1
  BY Zenon, <1>0, <1>1, <1>2 DEF TrapInv, Cpus, CpuOK, Threads, ThreadOK, Locked
<1>4. /\ CpuType' /\ OtherCpus(c) /\ \A k \in Lock : lock'[k] = c <=> k = lk[t]
      /\ noff'[c] = 1 /\ ~on'[c] /\ intena'[c]
  BY ZenonT(30), <1>0, <1>1, <1>2, <1>3, Take DEF Locked
<1>5. ThreadType' /\ Moved(t, "test")
  <2>1. j' \in [Thread -> 1..NPROC + 1]
    BY Zenon, <1>1 DEF TrapInv, Types, ThreadType
  <2>. QED BY Zenon, <1>1, <1>2, <2>1, Move DEF ProcPc
<1>6. ProcType' /\ OtherProcs(c, t) /\ state'[t] = "RUNNING"
  BY Zenon, <1>0, <1>1, <1>2, SameProcs DEF TrapInv, Types, ProcType
<1>7. pc'[t] = "test" /\ hpc'[t] = "no" /\ run'[c] = t /\ lk'[t] = lk[t]
  BY Zenon, <1>0, <1>1, <1>2, <1>5 DEF Moved, Same
<1>8. ThreadOK(t)' /\ CpuOK(c)' /\ \A k \in Lock : lock'[k] = c <=> Holding(c, k)'
  <2>1. Pos(t)' = "test" /\ j'[t] = 1
    BY Zenon, <1>1, <1>3, <1>7 DEF Pos
  <2>2. ThreadOK(t)'
    BY Zenon, <1>7, <2>1 DEF ThreadOK
  <2>0. 1 # 0
    OBVIOUS
  <2>3. CpuOK(c)'
    BY Zenon, <1>2, <1>4, <1>6, <1>7, <2>0, <2>1 DEF CpuOK, Locked
  <2>4. \A k \in Lock : Holding(c, k)' <=> k = lk[t]
    BY Zenon, <1>7, <2>1 DEF Holding
  <2>. QED BY Zenon, <1>4, <2>2, <2>3, <2>4
<1>9. Stays(c, t)
  BY Zenon, <1>1, <1>2, <1>4, <1>5, <1>6, <1>7, <1>8 DEF Stays, Moved
<1>10. Wakeful(c, t)
  BY Zenon, <1>0, <1>1, <1>6, Quiet
<1>. QED BY Zenon, <1>0, <1>9, <1>10, Stay

\* releasesleep starts a wakeup of those who wait for the sleep lock.
LEMMA LockReleaseStep == ASSUME TrapInv, NEW c \in Cpu, LockRelease(c) PROVE TrapInv'
<1>0. PICK t : t = run[c]
  OBVIOUS
<1>1. /\ Pos(t) = "held" /\ run' = run /\ idx' = idx /\ j' = j /\ Same /\ ticks' = ticks /\ locked' = FALSE
      /\ Acquire(c, Lk) /\ Goto(t, "wakeup")
  BY Zenon, <1>0 DEF LockRelease, At, Pos, Same, table, tick, sleeplock
<1>2. t \in Proc /\ t \in Thread /\ state[t] = "RUNNING" /\ hpc[t] = "no" /\ pc[t] = "held"
  BY Zenon, <1>0, <1>1, InProc, Facts
<1>3. on[c] /\ j[t] = 1
  BY Zenon, <1>0, <1>1, <1>2 DEF TrapInv, Cpus, CpuOK, Threads, ThreadOK, Locked
<1>4. /\ CpuType' /\ OtherCpus(c) /\ lock[Lk] = None /\ \A k \in Lock : lock'[k] = c <=> k = Lk
      /\ noff'[c] = 1 /\ ~on'[c] /\ intena'[c]
  BY <1>0, <1>1, <1>3, Take, Facts DEF Locked
<1>5. ThreadType' /\ Moved(t, "wakeup")
  <2>1. j' \in [Thread -> 1..NPROC + 1]
    BY Zenon, <1>1 DEF TrapInv, Types, ThreadType
  <2>. QED BY Zenon, <1>1, <1>2, <2>1, Move DEF ProcPc
<1>6. ProcType' /\ OtherProcs(c, t) /\ state'[t] = "RUNNING"
  BY Zenon, <1>0, <1>1, <1>2, SameProcs DEF TrapInv, Types, ProcType
<1>7. pc'[t] = "wakeup" /\ hpc'[t] = "no" /\ run'[c] = t /\ j'[t] = 1
  BY Zenon, <1>0, <1>1, <1>2, <1>3, <1>5 DEF Moved
<1>8. ThreadOK(t)' /\ CpuOK(c)' /\ \A k \in Lock : lock'[k] = c <=> Holding(c, k)'
  BY <1>2, <1>4, <1>6, <1>7 DEF ThreadOK, CpuOK, Pos, Locked, Holding, WakeChan
<1>9. Stays(c, t)
  BY Zenon, <1>1, <1>2, <1>4, <1>5, <1>6, <1>7, <1>8 DEF Stays, Moved
<1>10. Wakeful(c, t)
  <2>1. \A p \in Proc : Waker(c, Lk, p)'
    BY Zenon, <1>7, Facts DEF Waker, Pos, WakeChan
  <2>2. \A p \in Proc : \A ch : ~Waker(c, ch, p)
    BY Zenon, <1>0, <1>1 DEF Waker
  <2>. QED BY Zenon, <1>1, <1>6, <2>1, <2>2 DEF Wakeful
<1>. QED BY Zenon, <1>0, <1>9, <1>10, Stay

\* A process back from sched has its interrupts as it had them before.
LEMMA ResumeStep == ASSUME TrapInv, NEW c \in Cpu, Resume(c) PROVE TrapInv'
<1>0. PICK t : t = run[c]
  OBVIOUS
<1>1. /\ Pos(t) = "resume" /\ run' = run /\ idx' = idx /\ j' = j /\ ticks' = ticks /\ locked' = locked
      /\ pid' = pid /\ state' = state /\ killed' = killed /\ lk' = lk /\ ticks0' = ticks0 /\ n' = n
      /\ lock' = [lock EXCEPT ![t] = None] /\ PopOff(c, saved[t]) /\ saved' = [saved EXCEPT ![t] = FALSE]
      /\ chan' = [chan EXCEPT ![t] = IF hpc[t] = "no" THEN NoChan ELSE @]
      /\ Goto(t, IF hpc[t] = "no" THEN "relock" ELSE "ret")
  BY Zenon, <1>0 DEF Resume, At, Pos, tick, sleeplock
<1>2. t \in Proc /\ t \in Thread /\ t \in Lock /\ state[t] = "RUNNING" /\ ProcOK(t) /\ ThreadOK(t)
  <2>1. t = c => Pos(t) # "resume"
    BY Zenon DEF TrapInv, Types, ThreadType, Pos, CpuHpc
  <2>. QED BY ZenonT(30), <1>0, <1>1, <2>1, Here, Facts
<1>3. /\ hpc[t] = "no" => pc[t] = "resume" /\ saved[t]
      /\ hpc[t] # "no" => hpc[t] = "resume" /\ ~saved[t] /\ pc[t] \in Calm
      /\ j[t] = 1 /\ saved[t] \in BOOLEAN
  <2>1. t \notin Cpu /\ saved[t] \in BOOLEAN /\ pc[t] \in ProcPc
    BY Zenon, <1>2, Facts DEF TrapInv, Types, ProcType, ThreadType
  <2>. QED BY Zenon, <1>1, <1>2, <2>1 DEF ProcOK, ThreadOK, Pos, ProcPc, Calm
<1>4. CpuType' /\ OtherCpus(c) /\ (\A k \in Lock : lock'[k] # c) /\ noff'[c] = 0 /\ on'[c] = saved[t]
  <2>1. Holding(c, t)
    BY Zenon, <1>0, <1>1 DEF Holding
  <2>. QED BY Zenon, <1>0, <1>1, <1>2, <1>3, <2>1, Give DEF Locked
<1>5. PICK l : l = IF hpc[t] = "no" THEN "relock" ELSE "ret"
  OBVIOUS
<1>6. ThreadType' /\ Moved(t, l)
  <2>1. j' \in [Thread -> 1..NPROC + 1]
    BY Zenon, <1>1 DEF TrapInv, Types, ThreadType
  <2>. QED BY Zenon, <1>1, <1>2, <1>5, <2>1, Move DEF ProcPc, Calm, ProcHpc
<1>7. ProcType' /\ state'[t] = "RUNNING"
  BY Zenon, <1>1, <1>2 DEF TrapInv, Types, ProcType
<1>8. OtherProcs(c, t)
  BY SMTT(30), <1>1 DEF OtherProcs, TrapInv, Types, ProcType, Procs, ProcOK
<1>9. /\ hpc[t] = "no" => pc'[t] = "relock" /\ hpc'[t] = "no"
      /\ hpc[t] # "no" => pc'[t] = pc[t] /\ pc[t] \in Calm /\ hpc'[t] = "ret"
      /\ run'[c] = t /\ j'[t] = 1
  BY Zenon, <1>0, <1>1, <1>3, <1>5, <1>6 DEF Moved
<1>10. ThreadOK(t)'
  BY Zenon, <1>9 DEF ThreadOK, Pos, Calm
<1>11. CpuOK(c)'
  BY Zenon, <1>2, <1>3, <1>4, <1>7, <1>9 DEF CpuOK, Pos, Locked, Calm
<1>12. \A k \in Lock : lock'[k] = c <=> Holding(c, k)'
  BY Zenon, <1>4, <1>9 DEF Holding, Pos
<1>13. pc'[t] = "held" => locked' /\ pid' = t
  BY Zenon, <1>1, <1>2, <1>9 DEF ProcOK
<1>14. pc'[t] \in {"forkret", "user"} => lk'[t] = Tickslock
  BY Zenon, <1>1, <1>2, <1>9 DEF ProcOK
<1>15. Stays(c, t)
  BY Zenon, <1>1, <1>2, <1>4, <1>6, <1>7, <1>8, <1>9, <1>10, <1>11, <1>12, <1>13, <1>14 DEF Stays, Moved, Calm
<1>16. Wakeful(c, t)
  BY Zenon, <1>0, <1>1, <1>7, Quiet
<1>. QED BY Zenon, <1>0, <1>15, <1>16, Stay

\* What a handler's step leaves alone: the place of the code below it.
LEMMA Below ==
  ASSUME TrapInv, NEW c \in Cpu, NEW t, run[c] = t, hpc[t] # "no"
  PROVE  /\ t \in Thread /\ pc[t] \in Calm \cup {"scan"} /\ (t \in Proc => pc[t] \in Calm)
         /\ (t \notin Proc => t = c /\ t \in Cpu) /\ (t \in Proc => t \notin Cpu)
         /\ t \in Proc /\ pc[t] = "held" => locked /\ pid = t
         /\ t \in Proc /\ pc[t] \in {"forkret", "user"} => lk[t] = Tickslock
         /\ pc[t] # "resume" /\ pc[t] # "sleep" /\ ~on[c]
<1>1. /\ t \in Thread /\ CpuOK(c) /\ ThreadOK(t) /\ (t \in Proc => ProcOK(t))
      /\ t = c \/ (t \in Proc /\ state[t] = "RUNNING")
  BY Zenon, Here
<1>2. pc[t] \in Calm \cup {"scan"} /\ ~on[c]
  BY Zenon, <1>1 DEF ThreadOK, CpuOK
<1>3. t \in Proc => pc[t] \in Calm
  BY Zenon, <1>2 DEF TrapInv, Types, ThreadType, ProcPc, Calm
<1>4. t \in Proc => t \notin Cpu
  BY Zenon, Facts
<1>. QED BY Zenon, <1>1, <1>2, <1>3, <1>4 DEF ProcOK, Calm

\* clockintr counts a tick and starts a wakeup of those who wait for it.
LEMMA ClockintrStep == ASSUME TrapInv, NEW c \in Cpu, Clockintr(c) PROVE TrapInv'
<1>0. PICK t : t = run[c]
  OBVIOUS
<1>1. /\ Pos(t) = "clock" /\ run' = run /\ idx' = idx /\ j' = j /\ Same /\ ticks' = (ticks + 1) % UINT
      /\ locked' = locked /\ pid' = pid /\ Acquire(c, Tickslock) /\ Goto(t, "wakeup")
  BY Zenon, <1>0 DEF Clockintr, At, Pos, Same, table, sleeplock
<1>2. hpc[t] = "clock" /\ t \in Thread
  <2>1. t \in Thread /\ pc[t] \in ProcPc \cup {"scan", "back"}
    BY Zenon, <1>0, Here
  <2>. QED BY Zenon, <1>1, <2>1 DEF Pos, ProcPc, Calm
<1>3. j[t] = 1 /\ ~on[c]
  BY Zenon, <1>0, <1>1, <1>2, Below DEF TrapInv, Threads, ThreadOK
<1>4. /\ CpuType' /\ OtherCpus(c) /\ lock[Tickslock] = None /\ \A k \in Lock : lock'[k] = c <=> k = Tickslock
      /\ noff'[c] = 1 /\ ~on'[c] /\ ~intena'[c]
  BY SMTT(30), <1>0, <1>1, <1>3, Take, Facts DEF Locked
<1>5. ThreadType' /\ Moved(t, "wakeup")
  <2>1. j' \in [Thread -> 1..NPROC + 1]
    BY Zenon, <1>1 DEF TrapInv, Types, ThreadType
  <2>. QED BY Zenon, <1>1, <1>2, <2>1, Facts, Move DEF ProcHpc, CpuHpc
<1>6. ticks' \in Nat
  BY <1>1, TrapAssumption DEF TrapInv, Types, ProcType
<1>7. ProcType' /\ OtherProcs(c, t) /\ (t \in Proc => state'[t] = "RUNNING")
  BY Zenon, <1>0, <1>1, <1>6, SameProcs DEF TrapInv, Types, ProcType
<1>8. pc'[t] = pc[t] /\ hpc'[t] = "wakeup" /\ run'[c] = t /\ j'[t] = 1 /\ lk' = lk
  BY Zenon, <1>0, <1>1, <1>2, <1>3, <1>5 DEF Moved, Same
<1>9. /\ pc[t] \in Calm \cup {"scan"} /\ (t \notin Proc => t = c)
      /\ t \in Proc /\ pc[t] = "held" => locked /\ pid = t
      /\ t \in Proc /\ pc[t] \in {"forkret", "user"} => lk[t] = Tickslock
  BY Zenon, <1>0, <1>2, Below
<1>10. ThreadOK(t)' /\ CpuOK(c)' /\ \A k \in Lock : lock'[k] = c <=> Holding(c, k)'
  BY Zenon, <1>4, <1>7, <1>8, <1>9 DEF ThreadOK, CpuOK, Pos, Locked, Holding, WakeChan, Calm
<1>11. t \notin Proc => pc[t] \notin {"held", "forkret", "user"}
  BY Zenon, <1>9 DEF TrapInv, Types, ThreadType
<1>12. Stays(c, t)
  BY Zenon, <1>1, <1>4, <1>5, <1>7, <1>8, <1>9, <1>10, <1>11 DEF Stays, Moved, Calm
<1>13. Wakeful(c, t)
  <2>1. \A p \in Proc : Waker(c, Tickslock, p)'
    BY Zenon, <1>8, Facts DEF Waker, Pos, WakeChan
  <2>2. \A p \in Proc : \A ch : ~Waker(c, ch, p)
    BY Zenon, <1>0, <1>1 DEF Waker
  <2>. QED BY Zenon, <1>1, <1>7, <2>1, <2>2 DEF Wakeful
<1>. QED BY Zenon, <1>0, <1>12, <1>13, Stay

\* A CPU in wakeup holds the lock of what it wakes for: a process's own call
\* came with interrupts on, the clock's handler with interrupts off.
LEMMA AtWakeup ==
  ASSUME TrapInv, NEW c \in Cpu, NEW t, run[c] = t, Pos(t) = "wakeup"
  PROVE  /\ t \in Thread /\ WakeChan(t) \in Lock /\ noff[c] = 1 /\ ~on[c]
         /\ \A l \in Lock : lock[l] = c <=> l = WakeChan(t)
         /\ hpc[t] = "no" => t \in Proc /\ pc[t] = "wakeup" /\ intena[c] = TRUE
         /\ hpc[t] # "no" => hpc[t] = "wakeup" /\ intena[c] = FALSE
<1>1. t \in Thread /\ CpuOK(c) /\ \A l \in Lock : lock[l] = c <=> Holding(c, l)
  BY Zenon, Here
<1>2. /\ hpc[t] = "no" => t \in Proc /\ pc[t] = "wakeup"
      /\ hpc[t] # "no" => hpc[t] = "wakeup"
  BY Zenon, <1>1, Facts DEF TrapInv, Types, ThreadType, Pos
<1>3. noff[c] = 1 /\ ~on[c] /\ intena[c] \in BOOLEAN
  BY <1>1 DEF TrapInv, Types, CpuType, CpuOK, Locked
<1>4. (hpc[t] = "no" => intena[c]) /\ (hpc[t] # "no" => ~intena[c])
  BY Zenon, <1>1, <1>2 DEF CpuOK
<1>5. \A l \in Lock : Holding(c, l) <=> l = WakeChan(t)
  BY Zenon DEF Holding
<1>6. WakeChan(t) \in Lock
  BY Zenon, Facts DEF WakeChan
<1>. QED BY Zenon, <1>1, <1>2, <1>3, <1>4, <1>5, <1>6

\* wakeup comes to a process.
LEMMA WakeupStep == ASSUME TrapInv, NEW c \in Cpu, Wakeup(c) PROVE TrapInv'
<1>0. PICK t : t = run[c]
  OBVIOUS
<1>1. PICK p : p = j[t]
  OBVIOUS
<1>2. /\ Pos(t) = "wakeup" /\ p <= NPROC /\ run' = run /\ idx' = idx /\ pc' = pc /\ hpc' = hpc
      /\ UNCHANGED <<chan, killed, saved, lk, ticks, ticks0, n, locked, pid>>
      /\ on' = on /\ noff' = noff /\ intena' = intena /\ lock' = lock
      /\ state' = [state EXCEPT ![p] = IF p # t /\ @ = "SLEEPING" /\ chan[p] = WakeChan(t)
                                       THEN "RUNNABLE" ELSE @]
      /\ j' = [j EXCEPT ![t] = @ + 1]
  BY Zenon, <1>0, <1>1 DEF Wakeup, At, Pos, cpu, tick, sleeplock
<1>3. t \in Thread /\ p \in Proc /\ p + 1 \in 1..NPROC + 1 /\ ThreadType
  <2>1. t \in Thread /\ ThreadType
    BY Zenon, <1>0, Here DEF TrapInv, Types
  <2>2. p \in 1..NPROC + 1
    BY Zenon, <1>1, <2>1 DEF ThreadType
  <2>. QED BY Zenon, <1>2, <2>1, <2>2, Facts
<1>4. ThreadType' /\ j'[t] = p + 1 /\ \A u \in Thread : u # t => j'[u] = j[u]
  BY Zenon, <1>1, <1>2, <1>3 DEF ThreadType
<1>5. ProcType' /\ OtherProcs(c, t)
  <2>1. ProcType'
    BY Zenon, <1>2, <1>3 DEF TrapInv, Types, ProcType, State
  <2>2. \A q \in Proc : state'[q] = state[q] \/ (state[q] = "SLEEPING" /\ state'[q] = "RUNNABLE")
    BY Zenon, <1>2, <1>3 DEF TrapInv, Types, ProcType
  <2>3. \A q \in Proc : pc[q] = "held" => locked /\ pid = q
    BY Zenon DEF TrapInv, Procs, ProcOK
  <2>. QED BY Zenon, <1>2, <2>1, <2>2, <2>3 DEF OtherProcs
<1>6. t \in Proc => state'[t] = "RUNNING"
  <2>1. t \in Proc => state[t] = "RUNNING"
    BY <1>0, Here, Facts
  <2>. QED BY <1>2, <1>3, <2>1 DEF TrapInv, Types, ProcType
<1>7. CpuType' /\ OtherCpus(c)
  BY Zenon, <1>2 DEF TrapInv, Types, CpuType, OtherCpus
<1>8. ThreadOK(t)' /\ CpuOK(c)' /\ run'[c] = t /\ Pos(t)' = "wakeup" /\ WakeChan(t)' = WakeChan(t)
  <2>1. ThreadOK(t) /\ CpuOK(c) /\ run'[c] = t
    BY Zenon, <1>0, <1>2, Here
  <2>. QED BY Zenon, <1>0, <1>2, <1>6, <2>1 DEF ThreadOK, CpuOK, Pos, WakeChan
<1>9. \A l \in Lock : lock'[l] = c <=> Holding(c, l)'
  <2>0. run[c] = t /\ Pos(t) = "wakeup"
    BY Zenon, <1>0, <1>2
  <2>1. \A l \in Lock : lock[l] = c <=> l = WakeChan(t)
    <3>1. \A l \in Lock : Holding(c, l) <=> l = WakeChan(t)
      BY Zenon, <2>0 DEF Holding
    <3>2. \A l \in Lock : lock[l] = c <=> Holding(c, l)
      BY Zenon DEF TrapInv, Held
    <3>. QED BY Zenon, <3>1, <3>2
  <2>2. \A l \in Lock : Holding(c, l)' <=> l = WakeChan(t)
    BY Zenon, <1>8 DEF Holding
  <2>. QED BY Zenon, <1>2, <2>1, <2>2
<1>10. pc'[t] # "resume" /\ hpc'[t] # "resume" /\ pc'[t] # "sleep"
  BY Zenon, <1>0, <1>2, AtWakeup, Below
<1>11. /\ pc'[t] = "held" => locked' /\ pid' = t
       /\ pc'[t] \in {"forkret", "user"} => lk'[t] = Tickslock
  <2>1. pc[t] \in {"held", "forkret", "user"} => t \in Proc
    BY Zenon, <1>3, Facts DEF ThreadType
  <2>. QED BY Zenon, <1>2, <2>1 DEF TrapInv, Procs, ProcOK
<1>12. Stays(c, t)
  BY Zenon, <1>2, <1>4, <1>5, <1>6, <1>7, <1>8, <1>9, <1>10, <1>11 DEF Stays
<1>13. Wakeful(c, t)
  <2>1. ASSUME NEW q \in Proc, q # t, state'[q] = "SLEEPING", Waker(c, chan[q], q) PROVE Waker(c, chan[q], q)'
    <3>1. WakeChan(t) = chan[q] /\ p <= q
      BY Zenon, <1>0, <1>1, <2>1 DEF Waker
    <3>2. q # p
      BY Zenon, <1>2, <1>3, <2>1, <3>1 DEF TrapInv, Types, ProcType
    <3>3. p + 1 <= q
      BY <1>3, <3>1, <3>2 DEF Proc
    <3>. QED BY <1>2, <1>4, <1>8, <3>1, <3>3 DEF Waker
  <2>. QED BY Zenon, <1>2, <1>6, <2>1 DEF Wakeful
<1>. QED BY Zenon, <1>0, <1>12, <1>13, Stay

\* wakeup has looked at every process, and its caller releases the lock.
LEMMA WakeupDoneStep == ASSUME TrapInv, NEW c \in Cpu, WakeupDone(c) PROVE TrapInv'
<1>0. PICK t : t = run[c]
  OBVIOUS
<1>1. PICK l : l = IF hpc[t] = "no" THEN "return" ELSE IF t \in Proc THEN "yield" ELSE "ret"
  OBVIOUS
<1>2. /\ Pos(t) = "wakeup" /\ j[t] > NPROC /\ run' = run /\ idx' = idx /\ Same
      /\ ticks' = ticks /\ locked' = locked /\ pid' = pid
      /\ j' = [j EXCEPT ![t] = 1] /\ Goto(t, l) /\ Release(c, WakeChan(t))
  BY Zenon, <1>0, <1>1 DEF WakeupDone, At, Pos, Same, table, tick, sleeplock
<1>3. /\ t \in Thread /\ WakeChan(t) \in Lock /\ Holding(c, WakeChan(t))
      /\ hpc[t] = "no" => t \in Proc /\ pc[t] = "wakeup" /\ intena[c] = TRUE
      /\ hpc[t] # "no" => hpc[t] = "wakeup" /\ intena[c] = FALSE
  BY Zenon, <1>0, <1>2, AtWakeup DEF Holding
<1>4. CpuType' /\ OtherCpus(c) /\ (\A k \in Lock : lock'[k] # c) /\ noff'[c] = 0 /\ on'[c] = intena[c]
  <2>1. lock' = [lock EXCEPT ![WakeChan(t)] = None] /\ PopOff(c, intena[c]) /\ intena[c] \in BOOLEAN
    BY Zenon, <1>2, <1>3 DEF Release
  <2>. QED BY Zenon, <1>0, <1>2, <1>3, <2>1, Give DEF Locked
<1>5. j' \in [Thread -> 1..NPROC + 1] /\ j'[t] = 1 /\ \A u \in Thread : u # t => j'[u] = j[u]
  BY Zenon, <1>2, <1>3, Facts DEF TrapInv, Types, ThreadType
<1>6. ThreadType' /\ Moved(t, l)
  BY Zenon, <1>1, <1>2, <1>3, <1>5, Move, Facts DEF ProcPc, Calm, ProcHpc, CpuHpc
<1>7. ProcType' /\ OtherProcs(c, t) /\ (t \in Proc => state'[t] = "RUNNING")
  BY Zenon, <1>0, <1>2, SameProcs DEF TrapInv, Types, ProcType
<1>8. /\ hpc[t] = "no" => pc'[t] = "return" /\ hpc'[t] = "no"
      /\ hpc[t] # "no" => pc'[t] = pc[t] /\ hpc'[t] = l /\ l \in {"yield", "ret"}
      /\ run'[c] = t /\ lk' = lk
  BY Zenon, <1>0, <1>1, <1>2, <1>6 DEF Moved, Same
<1>9. hpc[t] # "no" => /\ pc[t] \in Calm \cup {"scan"} /\ (t \notin Proc => t = c)
                       /\ t \in Proc /\ pc[t] = "held" => locked /\ pid = t
                       /\ t \in Proc /\ pc[t] \in {"forkret", "user"} => lk[t] = Tickslock
                       /\ pc[t] \in {"held", "forkret", "user"} => t \in Proc
  <2>1. pc[t] \in {"held", "forkret", "user"} => t \in Proc
    BY Zenon, <1>3, Facts DEF TrapInv, Types, ThreadType
  <2>. QED BY Zenon, <1>0, <2>1, Below
<1>10. ThreadOK(t)' /\ CpuOK(c)' /\ \A k \in Lock : lock'[k] = c <=> Holding(c, k)'
  <2>1. CASE hpc[t] = "no"
    BY Zenon, <1>3, <1>4, <1>5, <1>7, <1>8, <2>1 DEF ThreadOK, CpuOK, Pos, Locked, Holding
  <2>2. CASE hpc[t] # "no"
    BY Zenon, <1>3, <1>4, <1>5, <1>7, <1>8, <1>9, <2>2 DEF ThreadOK, CpuOK, Pos, Locked, Holding, Calm
  <2>. QED BY Zenon, <2>1, <2>2
<1>11. Stays(c, t)
  BY Zenon, <1>2, <1>3, <1>4, <1>5, <1>6, <1>7, <1>8, <1>9, <1>10 DEF Stays, Moved, Calm
<1>12. Wakeful(c, t)
  <2>1. \A p \in Proc : \A ch : ~Waker(c, ch, p)
    <3>1. j[t] \in 1..NPROC + 1
      BY Zenon, <1>3 DEF TrapInv, Types, ThreadType
    <3>. QED BY Zenon, <1>0, <1>2, <3>1, Facts DEF Waker
  <2>. QED BY Zenon, <1>2, <1>7, <2>1 DEF Wakeful
<1>. QED BY Zenon, <1>0, <1>11, <1>12, Stay

\* A handler is entered, or left: only interrupts and hpc change.
LEMMA Handle ==
  ASSUME TrapInv, NEW c \in Cpu, NEW t, run[c] = t, NEW l, NEW e \in BOOLEAN,
         on' = [on EXCEPT ![c] = e], hpc' = [hpc EXCEPT ![t] = l],
         UNCHANGED <<noff, intena, run, lock, table, pc, j, saved, lk, idx, tick, sleeplock>>,
         t \in Thread, pc[t] \in Calm \cup {"scan"}, j[t] = 1, Pos(t) \notin Locked,
         t \in Proc => l \in {"no", "clock", "yield"}, t \in Cpu => l \in {"no", "clock"}, e = (l = "no")
  PROVE  TrapInv'
<1>1. /\ run' = run /\ idx' = idx /\ j' = j /\ pc' = pc /\ Same /\ ticks' = ticks /\ locked' = locked /\ pid' = pid
      /\ noff' = noff /\ intena' = intena /\ lock' = lock
  BY Zenon DEF Same, table, tick, sleeplock
<1>2. CpuType' /\ OtherCpus(c) /\ on'[c] = e
  BY Zenon, <1>1 DEF TrapInv, Types, CpuType, OtherCpus
<1>3. /\ ThreadType' /\ hpc'[t] = l /\ \A u \in Thread : u # t => hpc'[u] = hpc[u]
      /\ pc[t] \in {"held", "forkret", "user"} => t \in Proc
  BY Zenon, <1>1, Facts DEF TrapInv, Types, ThreadType, ProcHpc, CpuHpc
<1>4. ProcType' /\ OtherProcs(c, t) /\ (t \in Proc => state'[t] = "RUNNING")
  BY Zenon, <1>1, SameProcs DEF TrapInv, Types, ProcType
<1>5. l \in {"no", "clock", "yield"} /\ (t = c \/ t \in Proc) /\ noff'[c] = 0
  BY <1>1, Here, Facts DEF CpuOK
<1>6. ThreadOK(t)' /\ CpuOK(c)'
  BY Zenon, <1>1, <1>2, <1>3, <1>4, <1>5 DEF ThreadOK, CpuOK, Pos, Locked, Calm
<1>7. \A k \in Lock : lock'[k] = c <=> Holding(c, k)'
  <2>1. \A k \in Lock : ~Holding(c, k)
    BY Zenon DEF Holding, Locked
  <2>2. \A k \in Lock : ~Holding(c, k)'
    BY Zenon, <1>1, <1>3, <1>5 DEF Holding, Pos, Calm
  <2>3. \A k \in Lock : lock[k] = c <=> Holding(c, k)
    BY Zenon, Here
  <2>. QED BY Zenon, <1>1, <2>1, <2>2, <2>3
<1>8. /\ pc[t] = "held" => locked /\ pid = t
      /\ pc[t] \in {"forkret", "user"} => lk[t] = Tickslock
  BY Zenon, <1>3 DEF TrapInv, Procs, ProcOK
<1>9. pc'[t] = pc[t] /\ pc[t] \notin {"resume", "sleep"} /\ hpc'[t] # "resume" /\ lk' = lk
  BY Zenon, <1>1, <1>3, <1>5 DEF Calm, Same
<1>10. Stays(c, t)
  BY Zenon, <1>1, <1>2, <1>3, <1>4, <1>6, <1>7, <1>8, <1>9 DEF Stays
<1>11. Wakeful(c, t)
  BY Zenon, <1>1, <1>4, Quiet DEF Locked
<1>. QED BY Zenon, <1>10, <1>11, Stay

\* A timer interrupt.
LEMMA InterruptStep == ASSUME TrapInv, NEW c \in Cpu, Interrupt(c) PROVE TrapInv'
<1>0. PICK t : t = run[c]
  OBVIOUS
<1>1. on[c] /\ hpc[t] = "no" /\ (c = Cpu0 \/ t \in Proc)
  BY Zenon, <1>0 DEF Interrupt
<1>2. t \in Thread /\ CpuOK(c) /\ ThreadOK(t) /\ (t = c \/ t \in Proc) /\ pc[t] \in ProcPc \cup {"scan", "back"}
  BY Zenon, <1>0, Here
<1>3. Pos(t) \notin Locked /\ pc[t] \in Calm \cup {"scan"} /\ j[t] = 1
  BY SMTT(30), <1>0, <1>1, <1>2 DEF CpuOK, ThreadOK, Pos, Locked, ProcPc, Calm
<1>4. PICK l : l = IF c = Cpu0 THEN "clock" ELSE "yield"
  OBVIOUS
<1>5. t \in Cpu => l = "clock"
  BY Zenon, <1>1, <1>4, Facts
<1>6. /\ on' = [on EXCEPT ![c] = FALSE] /\ hpc' = [hpc EXCEPT ![t] = l] /\ l \in {"clock", "yield"}
      /\ UNCHANGED <<noff, intena, run, lock, table, pc, j, saved, lk, idx, tick, sleeplock>>
  BY Zenon, <1>0, <1>4 DEF Interrupt
<1>. QED BY Zenon, <1>0, <1>2, <1>3, <1>5, <1>6, Handle

\* The return from one.
LEMMA RetStep == ASSUME TrapInv, NEW c \in Cpu, Ret(c) PROVE TrapInv'
<1>0. PICK t : t = run[c]
  OBVIOUS
<1>1. Pos(t) = "ret"
  BY Zenon, <1>0 DEF Ret, At, Pos
<1>2. t \in Thread /\ ThreadOK(t) /\ pc[t] \in ProcPc \cup {"scan", "back"}
  BY Zenon, <1>0, Here
<1>3. Pos(t) \notin Locked /\ pc[t] \in Calm \cup {"scan"} /\ j[t] = 1
  BY Zenon, <1>1, <1>2 DEF ThreadOK, Pos, Locked, ProcPc, Calm
<1>. QED BY Zenon, <1>0, <1>2, <1>3, Handle DEF Ret

-----------------------------------------------------------------------------
\* A CPU in its scheduler's own code.
LEMMA InSched ==
  ASSUME TrapInv, NEW c \in Cpu, NEW t, run[c] = t, Pos(t) \in {"scan", "back"}
  PROVE  t = c /\ c \in Thread /\ c \notin Proc /\ hpc[c] = "no" /\ pc[c] = Pos(c) /\ j[c] = 1
<1>1. t \in Thread /\ (t = c \/ t \in Proc) /\ ThreadOK(t) /\ c \notin Proc /\ c \in Thread
  BY Zenon, Here, Facts
<1>2. t \notin Proc
  BY Zenon DEF TrapInv, Types, ThreadType, Pos, ProcPc, Calm, ProcHpc
<1>3. hpc[c] = "no"
  BY Zenon, <1>1, <1>2 DEF TrapInv, Types, ThreadType, Pos, CpuHpc
<1>. QED BY Zenon, <1>1, <1>2, <1>3 DEF Pos, ThreadOK

\* A scheduler that goes to another process, or to a new round.
LEMMA Round ==
  ASSUME TrapInv, NEW c \in Cpu, run[c] = c, c \in Thread, c \notin Proc, hpc[c] = "no", pc[c] \in {"scan", "back"}, j[c] = 1,
         run' = run, hpc' = hpc, j' = j, Same, ticks' = ticks, locked' = locked, pid' = pid,
         DOMAIN pc' = Thread, pc'[c] = "scan", \A u \in Thread : u # c => pc'[u] = pc[u], NEW k \in 1..NPROC + 1, idx' = [idx EXCEPT ![c] = k],
         CpuType', OtherCpus(c), noff'[c] = 0, \A l \in Lock : lock'[l] # c
  PROVE  TrapInv'
<1>1. idx'[c] = k /\ ThreadType'
  BY ZenonT(30), Facts DEF TrapInv, Types, RunType, ThreadType
<1>2. RunType' /\ OtherRuns(c)
  BY Zenon DEF TrapInv, Types, RunType, OtherRuns
<1>3. ProcType' /\ OtherProcs(c, c)
  BY Zenon, SameProcs DEF TrapInv, Types, ProcType
<1>4. Types' /\ Others(c, c)
  BY Zenon, <1>1, <1>2, <1>3 DEF Types, Others, OtherThreads
<1>5. Mine(c, c)
  <2>1. ThreadOK(c)' /\ SchedOK(c)' /\ CpuOK(c)'
    BY Zenon, <1>1 DEF ThreadOK, SchedOK, CpuOK, Pos, Locked
  <2>2. \A l \in Lock : ~Holding(c, l)'
    BY Zenon, <1>1 DEF Holding, Pos
  <2>. QED BY Zenon, <2>1, <2>2 DEF Mine
<1>6. Wakeful(c, c)
  BY Zenon, Quiet DEF Pos
<1>. QED BY Zenon, <1>4, <1>5, <1>6, StepOK

\* scheduler: intr_on.
LEMMA SchedOnStep == ASSUME TrapInv, NEW c \in Cpu, SchedOn(c) PROVE TrapInv'
<1>0. PICK t : t = run[c]
  OBVIOUS
<1>1. /\ Pos(t) = "scan" /\ run' = run /\ hpc' = hpc /\ j' = j /\ Same /\ ticks' = ticks /\ locked' = locked
      /\ pid' = pid /\ pc' = pc /\ idx' = [idx EXCEPT ![c] = 1]
      /\ on' = [on EXCEPT ![c] = TRUE] /\ noff' = noff /\ intena' = intena /\ lock' = lock
  BY Zenon, <1>0 DEF SchedOn, At, Pos, Same, table, tick, sleeplock
<1>2. t = c /\ c \in Thread /\ c \notin Proc /\ hpc[c] = "no" /\ pc[c] = "scan" /\ j[c] = 1
  BY SMTT(30), <1>0, <1>1, InSched
<1>3. DOMAIN pc' = Thread /\ pc'[c] = "scan" /\ \A u \in Thread : u # c => pc'[u] = pc[u]
  BY Zenon, <1>1, <1>2 DEF TrapInv, Types, ThreadType
<1>4. CpuType' /\ OtherCpus(c)
  BY Zenon, <1>1 DEF TrapInv, Types, CpuType, OtherCpus
<1>5. noff'[c] = 0 /\ \A l \in Lock : lock'[l] # c
  <2>1. \A l \in Lock : ~Holding(c, l)
    BY Zenon, <1>0, <1>1 DEF Holding
  <2>2. noff[c] = 0
    BY Zenon, <1>0, <1>1 DEF TrapInv, Cpus, CpuOK, Locked
  <2>. QED BY Zenon, <1>1, <2>1, <2>2 DEF TrapInv, Held
<1>. QED BY Zenon, <1>0, <1>1, <1>2, <1>3, <1>4, <1>5, Round, Facts

\* scheduler: behind swtch.
LEMMA BackStep == ASSUME TrapInv, NEW c \in Cpu, Back(c) PROVE TrapInv'
<1>0. PICK t : t = run[c]
  OBVIOUS
<1>1. /\ Pos(t) = "back" /\ run' = run /\ hpc' = hpc /\ j' = j /\ Same /\ ticks' = ticks /\ locked' = locked
      /\ pid' = pid /\ pc' = [pc EXCEPT ![c] = "scan"] /\ idx' = [idx EXCEPT ![c] = @ + 1]
      /\ lock' = [lock EXCEPT ![idx[c]] = None] /\ PopOff(c, intena[c])
  BY Zenon, <1>0 DEF Back, At, Pos, Same, Release, table, tick, sleeplock
<1>2. t = c /\ c \in Thread /\ c \notin Proc /\ hpc[c] = "no" /\ pc[c] = "back" /\ j[c] = 1
  BY <1>0, <1>1, InSched
<1>3. idx[c] \in Proc /\ idx[c] \in Lock /\ idx[c] + 1 \in 1..NPROC + 1
  <2>1. idx[c] \in Proc
    BY <1>2 DEF TrapInv, Scheds, SchedOK
  <2>. QED BY <2>1, Facts, TrapAssumption DEF Proc
<1>4. CpuType' /\ OtherCpus(c) /\ noff'[c] = 0 /\ \A l \in Lock : lock'[l] # c
  <2>1. intena[c] \in BOOLEAN
    BY Zenon DEF TrapInv, Types, CpuType
  <2>2. Holding(c, idx[c])
    BY Zenon, <1>0, <1>1 DEF Holding
  <2>. QED BY Zenon, <1>0, <1>1, <1>3, <2>1, <2>2, Give DEF Locked
<1>5. idx' = [idx EXCEPT ![c] = idx[c] + 1]
  BY Zenon, <1>1
<1>6. DOMAIN pc' = Thread /\ pc'[c] = "scan" /\ \A u \in Thread : u # c => pc'[u] = pc[u]
  BY Zenon, <1>1, <1>2 DEF TrapInv, Types, ThreadType
<1>. QED BY Zenon, <1>0, <1>1, <1>2, <1>3, <1>4, <1>5, <1>6, Round

\* scheduler: pass a process by, or switch to it.
LEMMA ScanStep == ASSUME TrapInv, NEW c \in Cpu, Scan(c) PROVE TrapInv'
<1>0. PICK t : t = run[c]
  OBVIOUS
<1>1. PICK p : p = idx[c]
  OBVIOUS
<1>2. /\ Pos(t) = "scan" /\ p <= NPROC /\ hpc' = hpc /\ j' = j /\ chan' = chan /\ killed' = killed
      /\ saved' = saved /\ lk' = lk /\ ticks0' = ticks0 /\ n' = n /\ ticks' = ticks /\ locked' = locked /\ pid' = pid
  BY Zenon, <1>0, <1>1 DEF Scan, At, Pos, tick, sleeplock
<1>3. t = c /\ c \in Thread /\ c \notin Proc /\ hpc[c] = "no" /\ pc[c] = "scan" /\ j[c] = 1 /\ run[c] = c
  BY <1>0, <1>2, InSched
<1>4. p \in Proc /\ p \in Lock /\ p \in Thread /\ p # c /\ p + 1 \in 1..NPROC + 1
  <2>1. p \in 1..NPROC + 1
    BY Zenon, <1>1 DEF TrapInv, Types, RunType
  <2>. QED BY Zenon, <1>2, <1>3, <2>1, Facts
<1>5. CASE idx' = [idx EXCEPT ![c] = p + 1] /\ UNCHANGED <<cpu, lock, state, run, pc>>
  <2>1. on' = on /\ noff' = noff /\ intena' = intena /\ lock' = lock /\ run' = run /\ Same /\ pc' = pc
    BY Zenon, <1>2, <1>5 DEF Same, cpu
  <2>2. DOMAIN pc' = Thread /\ pc'[c] = "scan" /\ \A u \in Thread : u # c => pc'[u] = pc[u]
    BY Zenon, <1>3, <2>1 DEF TrapInv, Types, ThreadType
  <2>3. CpuType' /\ OtherCpus(c)
    BY Zenon, <2>1 DEF TrapInv, Types, CpuType, OtherCpus
  <2>4. noff'[c] = 0 /\ \A l \in Lock : lock'[l] # c
    <3>1. \A l \in Lock : ~Holding(c, l)
      BY Zenon, <1>0, <1>2 DEF Holding
    <3>2. noff[c] = 0
      BY Zenon, <1>0, <1>2 DEF TrapInv, Cpus, CpuOK, Locked
    <3>. QED BY Zenon, <2>1, <3>1, <3>2 DEF TrapInv, Held
  <2>. QED BY Zenon, <1>2, <1>3, <1>4, <1>5, <2>1, <2>2, <2>3, <2>4, Round
<1>6. CASE /\ state[p] = "RUNNABLE" /\ Acquire(c, p) /\ state' = [state EXCEPT ![p] = "RUNNING"]
           /\ run' = [run EXCEPT ![c] = p] /\ pc' = [pc EXCEPT ![c] = "back"] /\ idx' = idx
  <2>1. /\ CpuType' /\ OtherCpus(c) /\ (\A k \in Lock : lock'[k] = c <=> k = p)
        /\ noff'[c] = 1 /\ ~on'[c]
    BY ZenonT(30), <1>0, <1>2, <1>4, <1>6, Take DEF Locked
  <2>2. RunType' /\ OtherRuns(c) /\ run'[c] = p
    BY Zenon, <1>4, <1>6 DEF TrapInv, Types, RunType, OtherRuns
  <2>3. ThreadType' /\ pc'[c] = "back" /\ \A u \in Thread : u # c => pc'[u] = pc[u]
    BY <1>2, <1>3, <1>6 DEF TrapInv, Types, ThreadType
  <2>4. ProcType' /\ OtherProcs(c, c) /\ state'[p] = "RUNNING"
    <3>1. ProcType' /\ state'[p] = "RUNNING" /\ \A q \in Proc : q # p => state'[q] = state[q]
      BY Zenon, <1>2, <1>4, <1>6 DEF TrapInv, Types, ProcType, State
    <3>2. \A q \in Proc : pc[q] = "held" => locked /\ pid = q
      BY Zenon DEF TrapInv, Procs, ProcOK
    <3>. QED BY Zenon, <1>2, <1>6, <2>2, <3>1, <3>2 DEF OtherProcs
  <2>5. Types' /\ Others(c, c)
    BY Zenon, <1>2, <1>4, <1>6, <2>1, <2>2, <2>3, <2>4 DEF Types, Others, OtherThreads
  <2>6. Pos(p) \in {"forkret", "resume"} /\ ThreadOK(p) /\ pc'[p] = pc[p] /\ hpc'[p] = hpc[p]
    BY Zenon, <1>2, <1>4, <1>6, <2>3 DEF TrapInv, Procs, ProcOK, Threads
  <2>7. Mine(c, c)
    <3>1. ThreadOK(c)' /\ SchedOK(c)'
      BY Zenon, <1>1, <1>2, <1>3, <1>4, <1>6, <2>2, <2>3 DEF ThreadOK, SchedOK, Pos
    <3>2. CpuOK(c)'
      BY <1>4, <2>1, <2>2, <2>4, <2>6 DEF CpuOK, ThreadOK, Pos, Locked, Calm
    <3>3. \A l \in Lock : Holding(c, l)' <=> l = p
      BY Zenon, <2>2, <2>6 DEF Holding, Pos
    <3>. QED BY Zenon, <1>3, <2>1, <3>1, <3>2, <3>3 DEF Mine
  <2>8. Wakeful(c, c)
    BY Zenon, <1>0, <1>2, <1>3, Quiet
  <2>. QED BY Zenon, <1>3, <2>5, <2>7, <2>8, StepOK
<1>. QED BY Zenon, <1>1, <1>5, <1>6 DEF Scan

-----------------------------------------------------------------------------
\* The way to swtch: the process leaves the CPU with its lock in hand, and the
\* scheduler, which has waited for it, comes back with that lock.  st, s and ch
\* are what it leaves in its state, intena and chan.
Leaves(c, t, st, s, ch) ==
  /\ t \in Proc /\ Pos(t) # "wakeup" /\ Goto(t, "resume") /\ run' = [run EXCEPT ![c] = c]
  /\ saved' = [saved EXCEPT ![t] = s] /\ state' = [state EXCEPT ![t] = st] /\ chan' = [chan EXCEPT ![t] = ch]
  /\ UNCHANGED <<killed, j, lk, idx, ticks, ticks0, n, locked, pid>>
  /\ CpuType' /\ OtherCpus(c) /\ noff'[c] = 1 /\ ~on'[c] /\ \A l \in Lock : lock'[l] = c <=> l = t
  /\ \/ st = "RUNNABLE" /\ hpc[t] # "no" /\ s = FALSE
     \/ st = "SLEEPING" /\ hpc[t] = "no" /\ s = TRUE /\ ch = lk[t] /\ Pending(t, lk[t])
     \/ st = "ZOMBIE" /\ hpc[t] = "no"

\* swtch to the scheduler, from yield, sleep or exit, keeps TrapInv.
LEMMA Switch ==
  ASSUME TrapInv, NEW c \in Cpu, NEW t, run[c] = t, NEW st, NEW s \in BOOLEAN, NEW ch \in {Tickslock, Lk, NoChan},
         Leaves(c, t, st, s, ch)
  PROVE  TrapInv'
<1>. USE DEF Leaves
<1>1. /\ t \in Thread /\ c \in Thread /\ t # c /\ c \notin Proc /\ ThreadOK(t) /\ ProcOK(t)
      /\ pc[c] = "back" /\ idx[c] = t
  BY Here, Facts DEF SchedOK
<1>2. hpc[c] = "no" /\ j[c] = 1 /\ j[t] = 1
  BY Zenon, <1>1 DEF TrapInv, Threads, ThreadOK, Calm, Pos
<1>3. ThreadType' /\ Moved(t, "resume")
  <2>1. j' \in [Thread -> 1..NPROC + 1]
    BY Zenon DEF TrapInv, Types, ThreadType
  <2>. QED BY Zenon, <1>1, <2>1, Move DEF ProcPc, ProcHpc
<1>4. RunType' /\ OtherRuns(c) /\ run'[c] = c /\ idx' = idx
  BY Zenon, <1>1 DEF TrapInv, Types, RunType, OtherRuns
<1>5. ProcType' /\ state'[t] = st /\ chan'[t] = ch /\ saved'[t] = s
  BY Zenon DEF TrapInv, Types, ProcType, State
<1>6. OtherProcs(c, t)
  <2>1. \A q \in Proc : q # t => saved'[q] = saved[q] /\ state'[q] = state[q] /\ chan'[q] = chan[q]
    BY Zenon DEF TrapInv, Types, ProcType
  <2>2. \A q \in Proc : pc[q] = "held" => locked /\ pid = q
    BY Zenon DEF TrapInv, Procs, ProcOK
  <2>. QED BY Zenon, <2>1, <2>2 DEF OtherProcs
<1>7. Types' /\ Others(c, t)
  BY Zenon, <1>1, <1>3, <1>4, <1>5, <1>6 DEF Types, Others, OtherThreads, Moved
<1>8. /\ hpc[t] = "no" => pc'[t] = "resume" /\ hpc'[t] = "no"
      /\ hpc[t] # "no" => pc'[t] = pc[t] /\ hpc'[t] = "resume" /\ pc[t] \in Calm
      /\ pc'[c] = "back" /\ hpc'[c] = "no"
  <2>1. pc[t] # "scan"
    BY Zenon DEF TrapInv, Types, ThreadType, ProcPc, Calm
  <2>. QED BY Zenon, <1>1, <1>2, <1>3, <2>1 DEF Moved, ThreadOK
<1>9. ThreadOK(t)' /\ ThreadOK(c)' /\ SchedOK(c)' /\ CpuOK(c)'
  BY Zenon, <1>1, <1>2, <1>4, <1>8 DEF ThreadOK, SchedOK, CpuOK, Pos, Locked, Calm
<1>10. Pending(t, lk[t]) => Pending(t, lk[t])'
  BY Zenon DEF Pending, Elapsed
<1>11. ProcOK(t)'
  <2>1. CASE hpc[t] = "no"
    BY Zenon, <1>5, <1>8, <1>10, <2>1 DEF ProcOK, Pos
  <2>2. CASE hpc[t] # "no"
    BY Zenon, <1>1, <1>5, <1>8, <2>2 DEF ProcOK, Pos, Calm
  <2>. QED BY Zenon, <2>1, <2>2
<1>12. \A l \in Lock : Holding(c, l)' <=> l = t
  BY Zenon, <1>1, <1>4, <1>8 DEF Holding, Pos
<1>13. Mine(c, t)
  BY Zenon, <1>9, <1>11, <1>12 DEF Mine
<1>14. Wakeful(c, t)
  <2>1. \A p \in Proc : \A k : ~Waker(c, k, p)
    BY Zenon DEF Waker
  <2>2. st = "SLEEPING" => Pending(t, chan[t])'
    BY Zenon, <1>5, <1>10 DEF Pending, Elapsed
  <2>. QED BY Zenon, <1>5, <2>1, <2>2 DEF Wakeful
<1>. QED BY Zenon, <1>1, <1>7, <1>13, <1>14, StepOK

\* exit's last switch.
LEMMA ExitStep == ASSUME TrapInv, NEW c \in Cpu, Exit(c) PROVE TrapInv'
<1>0. PICK t : t = run[c]
  OBVIOUS
<1>1. /\ Pos(t) = "exit" /\ Goto(t, "resume") /\ Acquire(c, t) /\ saved' = [saved EXCEPT ![t] = intena'[c]]
      /\ run' = [run EXCEPT ![c] = c] /\ state' = [state EXCEPT ![t] = "ZOMBIE"] /\ chan' = chan
      /\ UNCHANGED <<killed, j, lk, idx, ticks, ticks0, n, locked, pid>>
  BY Zenon, <1>0 DEF Exit, At, Pos, Sched, tick, sleeplock
<1>2. t \in Proc /\ hpc[t] = "no" /\ t \in Lock
  BY Zenon, <1>0, <1>1, InProc, Facts
<1>3. CpuType' /\ OtherCpus(c) /\ noff'[c] = 1 /\ ~on'[c] /\ \A l \in Lock : lock'[l] = c <=> l = t
  BY Zenon, <1>0, <1>1, <1>2, Take DEF Locked
<1>4. PICK s : s = intena'[c]
  OBVIOUS
<1>5. s \in BOOLEAN
  BY Zenon, <1>3, <1>4 DEF CpuType
<1>6. chan' = [chan EXCEPT ![t] = chan[t]] /\ chan[t] \in {Tickslock, Lk, NoChan}
  BY Zenon, <1>1, <1>2 DEF TrapInv, Types, ProcType
<1>7. Leaves(c, t, "ZOMBIE", s, chan[t])
  BY Zenon, <1>1, <1>2, <1>3, <1>4, <1>6 DEF Leaves
<1>. QED BY Zenon, <1>0, <1>5, <1>6, <1>7, Switch

\* sleep's switch.
LEMMA SleepStep == ASSUME TrapInv, NEW c \in Cpu, Sleep(c) PROVE TrapInv'
<1>0. PICK t : t = run[c]
  OBVIOUS
<1>1. /\ Pos(t) = "sleep" /\ lock[t] = None /\ Goto(t, "resume") /\ lock' = [lock EXCEPT ![t] = c, ![lk[t]] = None]
      /\ saved' = [saved EXCEPT ![t] = intena'[c]] /\ run' = [run EXCEPT ![c] = c]
      /\ state' = [state EXCEPT ![t] = "SLEEPING"] /\ chan' = [chan EXCEPT ![t] = lk[t]]
      /\ on' = on /\ noff' = noff /\ intena' = intena
      /\ UNCHANGED <<killed, j, lk, idx, ticks, ticks0, n, locked, pid>>
  BY Zenon, <1>0 DEF Sleep, At, Pos, Free, Sched, cpu, tick, sleeplock
<1>2. /\ t \in Proc /\ hpc[t] = "no" /\ pc[t] = "sleep" /\ lk[t] \in {Tickslock, Lk} /\ lk[t] \in Lock
      /\ noff[c] = 1 /\ ~on[c] /\ intena[c] = TRUE /\ t \in Lock
  BY ZenonT(30), <1>0, <1>1, AtTest, Facts
<1>3. lk[t] # t /\ c # None /\ \A l \in Lock : lock[l] = c <=> l = lk[t]
  <2>1. \A l \in Lock : Holding(c, l) <=> l = lk[t]
    BY <1>0, <1>1 DEF Holding
  <2>. QED BY <1>2, <2>1, Facts DEF TrapInv, Held
<1>4. CpuType' /\ OtherCpus(c) /\ \A l \in Lock : lock'[l] = c <=> l = t
  BY SMTT(30), <1>1, <1>2, <1>3, Facts DEF TrapInv, Types, CpuType, OtherCpus
<1>5. Pending(t, lk[t])
  BY Zenon, <1>2 DEF TrapInv, Procs, ProcOK
<1>6. saved' = [saved EXCEPT ![t] = TRUE] /\ noff'[c] = 1 /\ ~on'[c]
  BY Zenon, <1>1, <1>2
<1>7. Leaves(c, t, "SLEEPING", TRUE, lk[t]) /\ lk[t] \in {Tickslock, Lk, NoChan}
  BY Zenon, <1>1, <1>2, <1>4, <1>5, <1>6 DEF Leaves
<1>. QED BY Zenon, <1>0, <1>7, Switch

\* A timer interrupt ends in exit, or in yield's switch.
LEMMA YieldStep == ASSUME TrapInv, NEW c \in Cpu, Yield(c) PROVE TrapInv'
<1>0. PICK t : t = run[c]
  OBVIOUS
<1>1. Pos(t) = "yield" /\ chan' = chan /\ UNCHANGED <<killed, j, lk, idx, ticks, ticks0, n, locked, pid>>
  BY Zenon, <1>0 DEF Yield, At, Pos, tick, sleeplock
<1>2. /\ t \in Proc /\ t \in Lock /\ t \in Thread /\ hpc[t] = "yield" /\ state[t] = "RUNNING"
      /\ noff[c] = 0 /\ ~on[c] /\ j[t] = 1
  <2>1. /\ t \in Thread /\ CpuOK(c) /\ ThreadOK(t) /\ (t = c \/ (t \in Proc /\ state[t] = "RUNNING"))
        /\ pc[t] \in ProcPc \cup {"scan", "back"}
    BY Zenon, <1>0, Here
  <2>2. hpc[t] = "yield"
    BY Zenon, <1>1, <2>1 DEF Pos, ProcPc, Calm
  <2>3. t # c
    BY Zenon, <2>2 DEF TrapInv, Types, ThreadType, CpuHpc
  <2>. QED BY Zenon, <1>0, <1>1, <2>1, <2>2, <2>3, Facts DEF CpuOK, ThreadOK, Locked
<1>3. CASE /\ pc[t] = "user" /\ hpc' = [hpc EXCEPT ![t] = "no"] /\ pc' = [pc EXCEPT ![t] = "exit"]
           /\ UNCHANGED <<cpu, lock, state, saved, run>>
  <2>1. on' = on /\ noff' = noff /\ intena' = intena /\ lock' = lock /\ state' = state /\ run' = run /\ Same
    BY Zenon, <1>1, <1>3 DEF cpu, Same
  <2>2. CpuType' /\ OtherCpus(c)
    BY Zenon, <2>1 DEF TrapInv, Types, CpuType, OtherCpus
  <2>3. ThreadType' /\ pc'[t] = "exit" /\ hpc'[t] = "no"
        /\ \A u \in Thread : u # t => pc'[u] = pc[u] /\ hpc'[u] = hpc[u] /\ j'[u] = j[u]
    BY Zenon, <1>1, <1>2, <1>3, Facts DEF TrapInv, Types, ThreadType, ProcPc, Calm, ProcHpc
  <2>4. ProcType' /\ OtherProcs(c, t) /\ state'[t] = "RUNNING"
    BY Zenon, <1>0, <1>1, <1>2, <2>1, SameProcs DEF TrapInv, Types, ProcType
  <2>5. ThreadOK(t)' /\ CpuOK(c)' /\ run'[c] = t
    BY Zenon, <1>0, <1>1, <1>2, <2>1, <2>3, <2>4 DEF ThreadOK, CpuOK, Pos, Locked
  <2>6. \A l \in Lock : lock'[l] = c <=> Holding(c, l)'
    <3>1. \A l \in Lock : ~Holding(c, l) /\ ~Holding(c, l)'
      BY Zenon, <1>0, <1>1, <2>3, <2>5 DEF Holding, Pos
    <3>. QED BY Zenon, <2>1, <3>1 DEF TrapInv, Held
  <2>7. Stays(c, t)
    BY Zenon, <1>1, <1>2, <2>1, <2>2, <2>3, <2>4, <2>5, <2>6 DEF Stays
  <2>8. Wakeful(c, t)
    BY Zenon, <1>0, <1>1, <2>4, Quiet
  <2>. QED BY Zenon, <1>0, <2>7, <2>8, Stay
<1>4. CASE Acquire(c, t) /\ state' = [state EXCEPT ![t] = "RUNNABLE"] /\ Sched(c, t)
  <2>1. saved' = [saved EXCEPT ![t] = intena'[c]] /\ run' = [run EXCEPT ![c] = c] /\ Goto(t, "resume")
    BY Zenon, <1>4 DEF Sched
  <2>2. /\ CpuType' /\ OtherCpus(c) /\ noff'[c] = 1 /\ ~on'[c] /\ intena'[c] = on[c]
        /\ \A l \in Lock : lock'[l] = c <=> l = t
    BY Zenon, <1>0, <1>1, <1>2, <1>4, Take DEF Locked
  <2>3. intena'[c] = FALSE
    BY Zenon, <1>2, <2>2 DEF CpuType
  <2>4. chan' = [chan EXCEPT ![t] = chan[t]] /\ chan[t] \in {Tickslock, Lk, NoChan}
    BY Zenon, <1>1, <1>2 DEF TrapInv, Types, ProcType
  <2>5. Leaves(c, t, "RUNNABLE", FALSE, chan[t])
    BY Zenon, <1>1, <1>2, <1>4, <2>1, <2>2, <2>3, <2>4 DEF Leaves
  <2>. QED BY Zenon, <1>0, <2>4, <2>5, Switch
<1>. QED BY Zenon, <1>0, <1>3, <1>4 DEF Yield

\* Steps of no CPU: kill, and none at all.
LEMMA Aside ==
  ASSUME TrapInv, UNCHANGED <<cpu, run, lock, chan, pc, hpc, j, saved, lk, idx, tick, sleeplock>>,
         killed' \in [Proc -> BOOLEAN], state' \in [Proc -> State],
         \A p \in Proc : state'[p] = state[p] \/ (state[p] = "SLEEPING" /\ state'[p] = "RUNNABLE")
  PROVE  TrapInv'
<1>. DEFINE c == Cpu0
<1>0. PICK t : t = run[c]
  OBVIOUS
<1>1. /\ on' = on /\ noff' = noff /\ intena' = intena /\ run' = run /\ lock' = lock /\ chan' = chan /\ pc' = pc
      /\ hpc' = hpc /\ j' = j /\ saved' = saved /\ lk' = lk /\ idx' = idx /\ ticks' = ticks /\ ticks0' = ticks0
      /\ n' = n /\ locked' = locked /\ pid' = pid
  BY Zenon DEF cpu, tick, sleeplock
<1>2. c \in Cpu /\ c \in Thread
  BY Zenon, TrapAssumption, Facts
<1>3. Types'
  BY Zenon, <1>1 DEF TrapInv, Types, CpuType, RunType, ThreadType, ProcType
<1>4. OtherProcs(c, t)
  BY Zenon, <1>1 DEF OtherProcs, TrapInv, Procs, ProcOK
<1>5. Others(c, t) /\ run[c] = t
  BY Zenon, <1>0, <1>1, <1>4 DEF Others, OtherCpus, OtherRuns, OtherThreads
<1>6. /\ t \in Thread /\ (t = c \/ (t \in Proc /\ state[t] = "RUNNING")) /\ CpuOK(c) /\ ThreadOK(t) /\ SchedOK(c)
      /\ ThreadOK(c) /\ (t \in Proc => ProcOK(t))
  BY Zenon, <1>0, <1>2, Here DEF TrapInv, Threads
<1>7. t \in Proc => state'[t] = state[t] /\ state[t] = "RUNNING"
  BY Zenon, <1>2, <1>6, Facts
<1>8. ThreadOK(t)' /\ ThreadOK(c)' /\ SchedOK(c)'
  BY Zenon, <1>1, <1>6 DEF ThreadOK, SchedOK, Pos
<1>9. CpuOK(c)'
  BY Zenon, <1>0, <1>1, <1>6, <1>7 DEF CpuOK, Pos
<1>10. t \in Proc => ProcOK(t)'
  BY Zenon, <1>1, <1>6, <1>7 DEF ProcOK, Pos, Pending, Elapsed
<1>11. \A l \in Lock : lock'[l] = c <=> Holding(c, l)'
  <2>1. \A l \in Lock : Holding(c, l)' <=> Holding(c, l)
    BY Zenon, <1>1 DEF Holding, Pos, WakeChan
  <2>. QED BY Zenon, <1>1, <1>2, <2>1 DEF TrapInv, Held
<1>12. Mine(c, t)
  BY Zenon, <1>8, <1>9, <1>10, <1>11 DEF Mine
<1>13. Wakeful(c, t)
  <2>1. \A p \in Proc : Waker(c, chan[p], p) => Waker(c, chan[p], p)'
    BY Zenon, <1>1 DEF Waker, Pos, WakeChan
  <2>. QED BY Zenon, <1>1, <1>7, <2>1 DEF Wakeful
<1>. QED BY Zenon, <1>2, <1>3, <1>5, <1>6, <1>12, <1>13, StepOK

\* Every step keeps TrapInv.
LEMMA TrapStep == TrapInv /\ [Next]_vars => TrapInv'
<1>. SUFFICES ASSUME TrapInv, [Next]_vars PROVE TrapInv'
  OBVIOUS
<1>1. ASSUME NEW c \in Cpu, Step(c) PROVE TrapInv'
  <2>1. CASE SchedOn(c) \/ Scan(c) \/ Back(c) \/ Exit(c) \/ Sleep(c) \/ Yield(c)
    BY Zenon, <2>1, SchedOnStep, ScanStep, BackStep, ExitStep, SleepStep, YieldStep
  <2>2. CASE Forkret(c) \/ Ecall(c) \/ Fork(c) \/ TrapReturn(c) \/ SleepTest(c) \/ LockTest(c)
    BY Zenon, <2>2, ForkretStep, EcallStep, ForkStep, TrapReturnStep, SleepTestStep, LockTestStep
  <2>3. CASE LockRelease(c) \/ Relock(c) \/ Resume(c)
    BY Zenon, <2>3, LockReleaseStep, RelockStep, ResumeStep
  <2>4. CASE Wakeup(c) \/ WakeupDone(c) \/ Clockintr(c) \/ Ret(c)
    BY Zenon, <2>4, WakeupStep, WakeupDoneStep, ClockintrStep, RetStep
  <2>. QED BY Zenon, <1>1, <2>1, <2>2, <2>3, <2>4 DEF Step
<1>2. ASSUME NEW c \in Cpu, Interrupt(c) PROVE TrapInv'
  BY Zenon, <1>2, InterruptStep
<1>3. state \in [Proc -> State] /\ killed \in [Proc -> BOOLEAN]
  BY Zenon DEF TrapInv, Types, ProcType
<1>4. ASSUME NEW p \in Killable, Kill(p) PROVE TrapInv'
  <2>1. /\ killed' = [killed EXCEPT ![p] = TRUE]
        /\ state' = [state EXCEPT ![p] = IF @ = "SLEEPING" THEN "RUNNABLE" ELSE @]
        /\ UNCHANGED <<cpu, run, lock, chan, pc, hpc, j, saved, lk, idx, tick, sleeplock>>
    BY Zenon, <1>4 DEF Kill
  <2>2. p \in Proc
    BY Zenon, TrapAssumption DEF Proc
  <2>3. /\ killed' \in [Proc -> BOOLEAN] /\ state' \in [Proc -> State]
        /\ \A q \in Proc : state'[q] = state[q] \/ (state[q] = "SLEEPING" /\ state'[q] = "RUNNABLE")
    BY Zenon, <1>3, <2>1, <2>2 DEF State
  <2>. QED BY Zenon, <2>1, <2>3, Aside
<1>5. CASE UNCHANGED vars
  <2>1. state' = state /\ killed' = killed
        /\ UNCHANGED <<cpu, run, lock, chan, pc, hpc, j, saved, lk, idx, tick, sleeplock>>
    BY Zenon, <1>5 DEF vars, cpu, tick, sleeplock
  <2>. QED BY Zenon, <1>3, <2>1, Aside
<1>. QED BY Zenon, <1>1, <1>2, <1>4, <1>5 DEF Next

\* In every reachable state the place a CPU is at says which lock it holds and
\* how its interrupts are, a sleeping process has something to wait for or a
\* wakeup on its way, and what sched saved is what the process had.
THEOREM TrapInvariant == Spec => []TrapInv
  BY InitTrap, TrapStep, PTL DEF Spec

-----------------------------------------------------------------------------
\* A CPU holds one lock where it holds any.
LEMMA OneLock ==
  ASSUME TrapInv, NEW c \in Cpu, Pos(run[c]) \in Locked
  PROVE  \E l \in Lock : \A k \in Lock : lock[k] = c <=> k = l
<1>0. PICK t : t = run[c]
  OBVIOUS
<1>1. t \in Thread /\ \A k \in Lock : lock[k] = c <=> Holding(c, k)
  BY Zenon, <1>0, Here
<1>2. CASE Pos(t) \in {"forkret", "resume"}
  <2>1. t \in Proc
    BY Zenon, <1>1, <1>2, Facts DEF TrapInv, Types, ThreadType, Pos, CpuHpc
  <2>2. \A k \in Lock : Holding(c, k) <=> k = t
    BY Zenon, <1>0, <1>2 DEF Holding
  <2>. QED BY Zenon, <1>1, <2>1, <2>2, Facts
<1>3. CASE Pos(t) = "back"
  <2>1. idx[c] \in Proc
    <3>1. t = c /\ pc[c] = "back"
      BY <1>0, <1>3, InSched
    <3>. QED BY <3>1 DEF TrapInv, Scheds, SchedOK
  <2>2. \A k \in Lock : Holding(c, k) <=> k = idx[c]
    BY Zenon, <1>0, <1>3 DEF Holding
  <2>. QED BY Zenon, <1>1, <2>1, <2>2, Facts
<1>4. CASE Pos(t) \in {"test", "sleep"}
  <2>1. lk[t] \in Lock
    BY Zenon, <1>0, <1>4, AtTest
  <2>2. \A k \in Lock : Holding(c, k) <=> k = lk[t]
    BY Zenon, <1>0, <1>4 DEF Holding
  <2>. QED BY Zenon, <1>1, <2>1, <2>2
<1>5. CASE Pos(t) = "wakeup"
  <2>1. WakeChan(t) \in Lock
    BY Zenon, Facts DEF WakeChan
  <2>2. \A k \in Lock : Holding(c, k) <=> k = WakeChan(t)
    BY Zenon, <1>0, <1>5 DEF Holding
  <2>. QED BY Zenon, <1>1, <2>1, <2>2
<1>. QED BY Zenon, <1>0, <1>2, <1>3, <1>4, <1>5 DEF Locked

INSTANCE FiniteSetTheorems

\* push_off and pop_off keep interrupts off exactly as long as a CPU holds a
\* lock or runs a handler, for any number of CPUs and processes.
THEOREM InterruptsStayOff == Spec => []InterruptsOff
<1>1. TrapInv => InterruptsOff
  <2>. SUFFICES ASSUME TrapInv, NEW c \in Cpu
                PROVE  LET t == run[c] IN
                       /\ noff[c] = Cardinality({l \in Lock : lock[l] = c})
                       /\ noff[c] # 0 \/ hpc[t] # "no" => ~on[c]
                       /\ t \in Proc /\ hpc[t] = "no" /\ pc[t] # "exit" => (on[c] <=> noff[c] = 0)
                       /\ At(c, "back") \/ At(c, "resume") \/ At(c, "forkret") => noff[c] = 1
    BY Zenon DEF InterruptsOff
  <2>1. CpuOK(c)
    BY Zenon DEF TrapInv, Cpus
  <2>2. noff[c] = Cardinality({l \in Lock : lock[l] = c})
    <3>1. CASE Pos(run[c]) \in Locked
      <4>1. PICK l \in Lock : \A k \in Lock : lock[k] = c <=> k = l
        BY Zenon, <3>1, OneLock
      <4>2. {k \in Lock : lock[k] = c} = {l}
        BY Zenon, <4>1
      <4>. QED BY Zenon, <2>1, <3>1, <4>2, FS_Singleton DEF CpuOK
    <3>2. CASE Pos(run[c]) \notin Locked
      <4>1. \A l \in Lock : ~Holding(c, l)
        BY Zenon, <3>2 DEF Holding, Locked
      <4>2. {l \in Lock : lock[l] = c} = {}
        BY Zenon, <4>1 DEF TrapInv, Held
      <4>. QED BY Zenon, <2>1, <3>2, <4>2, FS_EmptySet DEF CpuOK
    <3>. QED BY Zenon, <3>1, <3>2
  <2>3. At(c, "back") \/ At(c, "resume") \/ At(c, "forkret") => noff[c] = 1
    BY Zenon, <2>1 DEF CpuOK, At, Pos, Locked
  <2>. QED BY Zenon, <2>1, <2>2, <2>3 DEF CpuOK
<1>. QED BY <1>1, TrapInvariant, PTL

\* What a CPU spins for is a lock, and a process's where it holds another one,
\* which is then none of a process.
LEMMA Order ==
  ASSUME TrapInv, NEW c \in Cpu, NEW l \in Wants(c)
  PROVE  l \in Lock /\ \A m \in Lock : lock[m] = c => l \in Proc /\ m \in {Tickslock, Lk}
<1>0. PICK t : t = run[c]
  OBVIOUS
<1>1. /\ t \in Thread /\ (t \in Proc => lk[t] \in {Tickslock, Lk}) /\ j[t] \in 1..NPROC + 1
      /\ idx[c] \in 1..NPROC + 1 /\ \A k \in Lock : lock[k] = c <=> Holding(c, k)
  <2>1. t \in Thread /\ \A k \in Lock : lock[k] = c <=> Holding(c, k)
    BY Zenon, <1>0, Here
  <2>. QED BY Zenon, <2>1 DEF TrapInv, Types, ThreadType, RunType, ProcType
<1>2. \/ Pos(t) = "scan" /\ idx[c] <= NPROC /\ l = idx[c]
      \/ Pos(t) = "relock" /\ l = lk[t]
      \/ Pos(t) = "held" /\ l = Lk
      \/ Pos(t) = "clock" /\ l = Tickslock
      \/ Pos(t) = "wakeup" /\ j[t] <= NPROC /\ l = j[t]
      \/ Pos(t) \in {"sleep", "exit", "yield"} /\ l = t
  BY Zenon, <1>0 DEF Wants, At, Pos
<1>3. Pos(t) \in {"relock", "sleep", "exit", "yield"} => t \in Proc
  BY Zenon, <1>1, Facts DEF TrapInv, Types, ThreadType, Pos, CpuHpc
<1>4. l \in Lock /\ (Pos(t) \in {"wakeup", "sleep"} => l \in Proc)
  BY Zenon, <1>1, <1>2, <1>3, Facts
<1>5. ASSUME NEW m \in Lock, lock[m] = c PROVE l \in Proc /\ m \in {Tickslock, Lk}
  <2>1. Holding(c, m)
    BY Zenon, <1>1, <1>5
  <2>2. Pos(t) \in {"wakeup", "sleep"}
    BY Zenon, <1>0, <1>2, <2>1 DEF Holding
  <2>3. m = lk[t] \/ m = WakeChan(t)
    BY Zenon, <1>0, <2>1, <2>2 DEF Holding
  <2>4. Pos(t) = "wakeup" => m = WakeChan(t)
    BY Zenon, <1>0, <2>1 DEF Holding
  <2>. QED BY Zenon, <1>1, <1>3, <1>4, <2>2, <2>3, <2>4 DEF WakeChan
<1>. QED BY Zenon, <1>4, <1>5

\* No two CPUs spin for each other's locks, and none for its own, for any number
\* of CPUs: tickslock and a sleep lock's spin lock come before p->lock.
THEOREM SpinsEnd == Spec => []NoSpinDeadlock
<1>1. TrapInv => NoSpinDeadlock
  <2>. SUFFICES ASSUME TrapInv, NEW c \in Cpu, NEW d \in Cpu, NEW l \in Wants(c), NEW m \in Wants(d),
                       lock[l] = d, lock[m] = c
                PROVE  FALSE
    BY Zenon DEF NoSpinDeadlock
  <2>1. l \in Lock /\ m \in Lock
    BY Zenon, Order
  <2>2. l \in Proc
    BY Zenon, <2>1, Order
  <2>3. l \in {Tickslock, Lk}
    BY Zenon, <2>1, Order
  <2>. QED BY Zenon, <2>2, <2>3, Facts
<1>. QED BY <1>1, TrapInvariant, PTL

\* No process sleeps for a tick that was counted, or for a sleep lock that is
\* free, once nobody holds the lock of what it sleeps for.
THEOREM WakeupsArrive == Spec => []NoLostWakeup
<1>1. TrapInv => NoLostWakeup
  <2>. SUFFICES ASSUME TrapInv, NEW p \in Proc, state[p] = "SLEEPING", lock[chan[p]] = None
                PROVE  Pending(p, chan[p])
    BY Zenon DEF NoLostWakeup, Pending, Free
  <2>1. chan[p] \in Lock
    BY SMTT(30), Facts DEF TrapInv, Procs, ProcOK, Types, ProcType
  <2>2. ASSUME NEW c \in Cpu, Waker(c, chan[p], p) PROVE FALSE
    <3>1. Holding(c, chan[p])
      BY Zenon, <2>2 DEF Waker, Holding
    <3>. QED BY Zenon, <2>1, <3>1, Facts DEF TrapInv, Held
  <2>. QED BY Zenon, <2>2 DEF TrapInv, Wakes
<1>. QED BY <1>1, TrapInvariant, PTL

\* A sleep lock has one owner between acquiresleep and releasesleep, and it is
\* the one holdingsleep answers yes to.
THEOREM SleepLocksExclude == Spec => []MutualExclusion
<1>1. TrapInv => MutualExclusion
  BY Zenon DEF TrapInv, Procs, ProcOK, MutualExclusion
<1>. QED BY <1>1, TrapInvariant, PTL
=============================================================================
