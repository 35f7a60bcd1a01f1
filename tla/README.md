# paddle-os in TLA+

A model of the kernel in `src/kernel` (an xv6 derivative for RISC-V): its process
table, interrupts and locks, memory, file system layers, pipes, console and disk
driver, and of the disk image `src/mkfs` makes. TLC
checks the modules on small instances; TLAPS proves, for every value of the
constants, the safety properties of the process table, interrupts and locks, the log,
pipes, the buffer cache, inodes and the disk driver.

    tlc -config MCProc.cfg MCProc        # any run of PROJECT.json
    tlapm ProcProofs.tla                 # the proofs: Counters and any *Proofs module

`PROJECT.json` lists the runs with their properties, for each property a mutant of
the model that breaks it, the source lines of every definition, the hazards the
project works from and what it found.

## The system and its parts

| part | source | state | concurrency |
|---|---|---|---|
| process table, scheduler | `kernel/proc.c`, `includes/proc.h` | `proc[]`, `cpus[]`, `wait_lock` | every CPU; timer interrupts |
| traps | `kernel/trap.c` | `ticks` | interrupts nest in kernel code |
| spin locks, interrupt nesting | `kernel/spinlock.c` | `noff`, `intena` | every CPU |
| sleep locks | `kernel/sleeplock.c` | `locked`, `pid` | processes |
| page allocator, page tables, exec | `kernel/kalloc.c`, `vm.c`, `exec.c` | free list, page tables | allocator shared |
| buffer cache | `kernel/bio.c` | LRU list of `NBUF` buffers | processes |
| log | `kernel/log.c` | header in memory and on disk | processes; crashes |
| inodes, directories | `kernel/fs.c`, `sysfile.c` | `itable`, dinodes | processes |
| file contents | `kernel/fs.c`, `file.c` | bitmap, block maps, data blocks | processes |
| open files | `kernel/file.c`, `sysfile.c` | `ftable`, `ofile[]` | processes; fork shares |
| pipes | `kernel/pipe.c` | ring, counters, open flags | readers and writers |
| disk driver | `kernel/virtio_disk.c` | descriptors, two rings | processes, device, interrupt |
| console, UART | `kernel/console.c`, `uart.c` | input line, transmit ring | processes, interrupt |
| system calls | `kernel/syscall.c`, `sysproc.c` | none | |
| user programs | `user/` | `init`, shell, `umalloc` | |
| mkfs | `mkfs/mkfs.c` | the first image | none |

How they lean on each other: a file system call runs inside `begin_op`/`end_op`
(Log), holds inode sleep locks (Inode, Blocks), reaches blocks through
`bread`/`brelse` (Bcache), and those through the driver (Virtio); every wait in any
of them is `sleep`/`wakeup` (Proc) under timer interrupts (Trap). Open files and
current directories (File) hold the references that Inode and Pipe count. fork, exec, wait and sbrk take and return pages (Vm).

## Modules

| module | models | abstract specification |
|---|---|---|
| `Proc` | `proc.c` and the scheduling part of `trap.c` | |
| `Trap` | `spinlock.c`, `sleeplock.c`, the timer interrupt of `trap.c`, `sys_sleep`, over `sched`, `sleep` and `wakeup` of `proc.c` | |
| `Log` | `log.c`, crash and recovery | `AtomicDisk` |
| `Pipe` | `pipe.c` | `Fifo` |
| `Bcache` | `bio.c` | |
| `Virtio` | `virtio_disk.c`, with the device | |
| `Inode` | `iget` ... `iput` of `fs.c`; open, create, link, unlink of `sysfile.c` | |
| `Blocks` | `balloc` ... `writei` and `dirlink` of `fs.c` under `fileread`, `filewrite`, create and open with `O_TRUNC`; `mkfs.c` as the initial state | |
| `File` | `file.c`; open, dup, pipe, close, chdir, fork, exit | |
| `Console` | `console.c` over `uart.c`, with the UART | `Tty` |
| `Vm` | `kalloc.c`, `vm.c`, `exec.c`; the memory side of fork, wait and sbrk in `proc.c` | |

`ProcProofs`, `TrapProofs`, `LogProofs`, `PipeProofs`, `BcacheProofs`, `InodeProofs` and
`VirtioProofs` hold the theorems about the module of that name and the lemmas under
them, `Counters` the arithmetic of wrapping counters some of them share. `MC*` modules extend a module with its symmetry sets; the `.cfg` files give
the bounds.

### How code becomes actions

* A spin lock is its holder. What happens between `acquire` and `release` of one
  lock, without another lock being taken or `sleep` called, is one step; wherever a
  function takes, holds or gives up a second lock the steps are separate. A section
  that only reads or writes a word under its lock is one step guarded by the lock
  being free.
* Each process (in `Proc`: each kernel thread) has a program counter named after
  the place in the source. A loop over a table with a lock per element is one step
  per iteration.
* `Proc` and `Trap` model `sleep` and `wakeup` themselves lock by lock.
  `Log`, `Pipe`, `Console` and `Virtio` take from them that sleep is "give up the lock and
  wait" in one step and that wakeup makes every waiter runnable in one step:
  `NoLostWakeup` of `Trap` and `NoMissedExit` of `Proc` are what justifies it. `Inode`
  and `Blocks` take from `Trap` that a sleep lock has one holder.
* `Proc` and `Trap` look at the same code from two sides. `Proc` has the life of
  processes (fork, exit, wait, kill, who may free a stack) and treats interrupts as a
  yield; `Trap` has the interrupts, with `noff` and `intena` and a handler on top of
  whatever runs, and of the processes' life only what the scheduler needs.
* Copies between user and kernel memory may fail where the code checks for it.
* Data is abstract: a block's contents are a version, a byte of a pipe its sequence
  number, a file an inode number.

### State

* `Proc`: `state, chan, killed, pid, parent` are the fields of `struct proc`;
  `lock` maps `wait_lock` and each `p->lock` to the CPU that holds it; `cproc` is
  `c->proc`; `sp` says whether a CPU is in its scheduler loop (`scan`), in a process
  (`proc`) or just back from one (`back`); `kpc`/`rpc` are where a kernel thread is
  and where it goes on after its `swtch`.
* `Trap`: per CPU whether interrupts are on, `noff`, `intena` and the thread it
  executes (a process or its scheduler); per thread its place `pc`, and `hpc`, that of
  an interrupt handler on top of it; the holder of each lock; `ticks`; the sleep
  lock. A process sleeps in `sys_sleep` or in `acquiresleep`, its own choice at each
  call. `intena` counts as FALSE while `noff` is 0, when nobody reads it.
* `Log`: `log.lh` and its copy on the disk, the log blocks, the home blocks, the
  cache with its pins, `outstanding`, `committing`. The refinement mapping to
  `AtomicDisk` takes the disk to be what recovery would make of it.
* `Pipe`: the counters modulo `UINT`, the ring, the two open flags, whether the page
  is still allocated. The mapping to `Fifo` reads the queue off the ring.
* `Bcache`: per buffer `blockno, valid, refcnt`, the LRU list as a permutation of the
  buffers (`MoveToFront` is what `brelse` does to its pointers), the sleep lock; the
  newest contents of each block as history.
* `Virtio`: `free`, `next`, the two rings with 16-bit indices modulo `UINT16`, `info`,
  `b->disk`; the device is external: it takes requests in order and completes them in
  any order.
* `Inode`: dinodes (`used`, `dnlink`), one directory, the slots of `itable`.
* `Blocks`: the bitmap, the contents of every data block, `addrs` and `size` of the
  inodes in memory and on the disk, `f->off`, and for each process where it is in
  `filewrite`, `writei`, `bmap` or `itrunc`. Bytes are values of the writing process,
  or entries of an indirect block; a directory entry is one byte. `file` is the
  history variable the properties compare with: what the files should hold. `Init`
  replays mkfs: `iappend` of the root directory's entries and the sources' bytes in
  the order of `main`, the rounding of the root directory's size, the bitmap.
* `File`: `ftable`, `ofile`, which processes have a current directory, the open ends
  of each pipe, the number of inode references.
* `Console`: the ring of `cons` with `r`, `w` and `e`, the transmit ring with its two
  counters, both locks, and of the UART its FIFO and its pending interrupt (external).
  Output characters are numbers, so that order and loss show; the echo, which
  bypasses `uart_tx_lock`, is one symbol. The mapping to `Tty` cuts the ring at `w`
  into what readers may take and the line being edited.
* `Vm`: which pages are allocated and what is in them (junk, zero or data), the
  page tables as their nodes and leaves, `p->sz`, `p->trapframe`, `p->state`, and
  for each process the call it is in. Every `kalloc` and `kfree` is a step. A page is
  named after the table entry it was allocated for, which makes the choice of a free
  page irrelevant.

## Runs

| run | instance | shows |
|---|---|---|
| `proc` | 2 CPUs, 3 slots, 3 pids, `kill(2)` | `TypeOK`; `OneCpuPerStack`: a kernel stack is used by one CPU and not freed in use; `NoPanic`: `sched`'s panics cannot happen; `ParentAlive`; `NoMissedExit`: a parent is not asleep past a child's exit |
| `trap` | 2 CPUs, 2 processes, `ticks` modulo 4 | `InterruptsOff`: `noff` and `intena` are right across every switch, and interrupts are on exactly where they should be; `NoSpinDeadlock`; `NoLostWakeup`; `MutualExclusion` of sleep locks |
| `log` | 3 blocks, 2 processes, 4 operations, crashes | `CrashAtomic`: Log implements AtomicDisk; `QuietIsDurable`; `RoomForEveryOp`; `BeginEventually` (liveness) |
| `pipe` | 2 writers, 1 reader, ring of 2, counters modulo 4 | `InOrder`: Pipe implements Fifo; `WriterNotStranded`; `NoUseAfterFree`; `CallsReturn` (liveness) |
| `console` | 1 reader, 2 writers, rings of 2 | `LineDiscipline`: Console implements Tty; `SentInOrder`; `NoneStranded` |
| `bcache` | 2 processes, 4 blocks, 3 buffers | `OneBufferPerBlock`, with exact reference counts; `HolderSeesLatest` |
| `virtio` | 3 processes, 7 descriptors, 7 requests, one process killed | `DescsOwned`, `CompletionMatches`, `NoCallStranded`, `ServedBeforeReturn` |
| `inode` | 3 processes, 2 names, 2 dinodes, 2 slots | `RefsExact`, `IputNeverSleeps`, `LinksExact`, `NoneFreedEarly`; `CallsGoOn`: no deadlock of directory and inode locks |
| `vm` | 2 slots, 16 pages | `PagesAccounted`: no page lost, shared or freed twice; `ImageWhole`; `ForkCopies`; `NoPanic` |
| `file` | 2 processes, 3 files, 2 descriptors, 2 pipes | `RefsExact`; `ReleasedOnce`: pipe ends and inode references |
| `blocks` | 2 processes, 3 inodes, 3 open files, 7 blocks of 2 bytes | `BlocksAccounted`: no block lost or in two places; `ReadsBack`: files hold what was written; `OpFits`: an operation fits its log reservation |
| `inode_leak` | as `inode`, 2 processes | violation of `NoneLeaked`, see below |

### What the code gets wrong

`inode_leak` ends in a violation. `iput` frees the dinode and takes `itable.lock`
again only afterwards, for `ref--`. An inode number reallocated in that window, and
dropped again before it closes (in the trace by `create`'s own failure path, but an
unlink does the same), is never freed, though the comment at `kernel/fs.c:272-273` says
that an inode without references and links is.

Other disagreements met while modelling, which no run demonstrates:

* a `kill` between `wait`'s `killed()` test and its `sleep` leaves the killed process
  asleep until a child exits (`proc.c:545`);
* `kill(0)` finds an UNUSED slot, whose pid is 0, and marks it; the next process made
  there is born killed (`proc.c:581`);
* `begin_op` admits operations for `LOGSIZE` blocks, `log_write` panics from
  `LOGSIZE - 1` on (`log.c:113` and `log.c:191`);
* a killed pipe writer returns without waking the reader for the bytes it has
  written (`pipe.c:106`);
* `iget` panics when 50 inodes (`NINODE`) are in use, while 100 files (`NFILE`) may be
  open (`fs.c:207`);
* `writei` may have copied part of a block when its copy fails: the bytes are in the
  buffer, which is not logged, and the write does not report them (`fs.c:470`).
  `ReadsBack` allows for those bytes (`Torn`) and for nothing else;
* mkfs rounds the size of the root directory up to one block more than it has when
  the entries fill their blocks exactly (`mkfs.c:222`): the first lookup then makes
  `readi` allocate a block. `MkfsAssumption` excludes it;
* `create` does not notice that its directory was removed after `nameiparent` returned
  it, or is the caller's removed current directory (`sysfile.c:299`): the file gets a
  name nobody can reach. Likewise `..` of a removed current directory may name a
  parent that has been removed too, and `ilock` panics (`fs.c:629`);
* `acquiresleep` says that a process that comes back from `sleep` finds the lock free
  (`sleeplock.c:25-26`); another process may have taken it first, and it is the
  `while` that `MutualExclusion` rests on.

`CallsReturn` of `Pipe`, the kill arguments of `proc`, the spare block of `log`, the
slots and the one directory of `inode` leave exactly these cases out.

### Bounds

* `proc`: three slots are parent, child and grandchild, so reparenting, reaping by
  init and a full table all happen. `MaxPid` bounds the number of forks, nothing
  else. Only pid 2 is killed, a process that exists (see `kill(0)` above).
* `log`: two operations share a transaction and others follow, so absorption, group
  commit, a commit after a commit and crashes within recovery happen. Log space is
  one block more than what operations write, because of `log_write`'s panic above.
* `trap`: two CPUs meet on every lock, and hart 0's timer hits the scheduler, user
  code and system calls. The second process is forked, and may sleep on `ticks`, for
  two ticks, or on the sleep lock, as the first; process 1 may be killed at any time.
  `InTime` keeps the clock from coming round (four ticks here, 2^32 in the code) to a
  sleeper that has not run meanwhile.
* `blocks`: a file has two direct blocks and two behind an indirect block. Writes of
  1 and 7 bytes start on and off block boundaries, take several operations, reach the
  indirect block and the end of the largest file, and seven blocks do not hold what
  two processes can write, so the disk is full at every place. `MaxCalls` of three
  are a truncation between or during two writes. An operation may log 6 blocks, the
  least for which `filewrite`'s formula leaves room (10 in the code). The calls end,
  so there is no deadlock check.
* Counters that wrap in the code (pipe, console and ticks: 32 bits, virtio: 16, UART:
  64) wrap at a small number here, and the runs go past it.
  `MaxBytes`, `MaxReq`, `MaxOps`, `MaxWrites`, `MaxCalls` bound the work. In `log`,
  `pipe` and `virtio` the work then ends and the system stops, so those runs do not
  check for deadlock.
* `console`: rings of two fill after two characters, and there are two writers to
  fill one. `OneSideBusy` is the run's state constraint: any amount of
  input and reading before the first write, and after it nothing has been read and a
  line of at most one character is typed and erased. Input and output share the UART and nothing
  else; what they do to each other goes through the echo, which both phases have.
* `virtio`: seven descriptors are two whole requests and one left over, so
  allocation fails half way, the case `alloc3_desc` undoes.
* `bcache`: one block more than buffers, so buffers are recycled; `MaxPins` is the
  log's promise that not every buffer is pinned. Whether `bget` can run out of
  buffers depends on how its callers nest and is not checked.
* `inode`: three processes are the longest chain the locks allow, one that waits for
  the directory, whose holder waits for an inode, whose holder goes on. The leak
  needs two, one in `iput` and one that reallocates the inode and drops it. When all
  calls fail for want of dinodes the system stops, with no call in progress: no
  deadlock check, `CallsGoOn` says what matters of it.
* `vm`: sixteen pages hold two processes and not much more, so every `kalloc` of
  fork, sbrk and exec is also one that fails. Tables have three levels, as in the
  code, of three entries: an image spans several nodes, and the trapframe is far
  from it. `sbrk` of -3, 1 and 3 with pages of two bytes crosses, reaches and stays
  inside a page boundary, and shrinks below zero.

### Fairness

* `Log`: a process in the middle of an operation takes its next step
  when it can (weak fairness: the timer and the scheduler's round over all slots give
  every RUNNABLE process its turn); recovery at boot runs to its end.
* `Pipe`: the same for calls in progress, and a process closes its end some day
  (`exit` does).
* All other modules are checked for safety only, without fairness. `NoneStranded` and
  `NoCallStranded` say as invariants that whoever sleeps has something on its way that
  wakes it, and `CallsGoOn` of `Inode` that among calls waiting for locks one can go
  on. That each of them returns some day is not claimed: a waiter that is woken and
  finds the sleep lock taken again sleeps again (`sleeplock.c:21`), and nothing in the
  code bounds how often.

`MaxOps` and `MaxBytes` bound the work in `log` and `pipe`. What `BeginEventually` and
`CallsReturn` show is that no wakeup is lost and nobody waits for what cannot come; that
a process could be overtaken for ever by a stream of others is outside these runs.

## Proofs

For seven components the safety properties their runs check are theorems, true for every
value of the constants (of `CallsGoOn` the half about locks):

| module | theorem | says | TLC checks it in |
|---|---|---|---|
| `ProcProofs` | `TypeCorrect`, `StackSafe`, `NeverPanics`, `ParentsAlive`, `NoExitMissed` | `TypeOK`, `OneCpuPerStack`, `NoPanic`, `ParentAlive`, `NoMissedExit` | `proc` |
| `TrapProofs` | `InterruptsStayOff`, `SpinsEnd`, `WakeupsArrive`, `SleepLocksExclude` | `InterruptsOff`, `NoSpinDeadlock`, `NoLostWakeup`, `MutualExclusion` | `trap` |
| `LogProofs` | `LogImplementsAtomicDisk`, `QuietDurable`, `RoomForEvery` | `CrashAtomic`, `QuietIsDurable`, `RoomForEveryOp` | `log` |
| `PipeProofs` | `PipeImplementsFifo`, `WritersNotStranded`, `PageNotUsedAfterFree` | `InOrder`, `WriterNotStranded`, `NoUseAfterFree` | `pipe` |
| `BcacheProofs` | `OneBuffer`, `LatestSeen` | `OneBufferPerBlock`, `HolderSeesLatest` | `bcache` |
| `InodeProofs` | `RefsCounted`, `IputDoesNotSleep`, `LinksCounted`, `NotFreedEarly`, `NoLockCircle` | `RefsExact`, `IputNeverSleeps`, `LinksExact`, `NoneFreedEarly`, and `LocksInOrder` of `CallsGoOn` | `inode` |
| `VirtioProofs` | `DescriptorsOwned`, `CompletionsMatch`, `NoneStranded`, `ServedFirst` | `DescsOwned`, `CompletionMatches`, `NoCallStranded`, `ServedBeforeReturn` | `virtio` |

Each rests on an inductive invariant, itself a theorem (`StackInvariant`,
`HeldInvariant`, `FamilyInvariant`, `TrapInvariant`, `LogInvariant`, `PipeInvariant`,
`CacheInvariant`, `InodeInvariant`, `VirtioInvariant`), which TLC has also checked on the runs'
instances. Its proof has a lemma per action or group of actions, and in it a step per
conjunct.

### Assumptions

The `ASSUME` of each component and nothing else; TLC evaluates them on the runs.

* `ProcAssumption`: at least one slot; any CPUs and kill arguments, except that nobody
  kills init (pid 1), whose `exit` panics by design. Only `NeverPanics`,
  `ParentsAlive` and `NoExitMissed` need the exception.
* `TrapAssumption`: the sleep arguments are less than the clock's range, which is any
  number but 0.
* `LogAssumption`, and for `RoomForEvery` alone `RoomAssumption`: an operation writes
  fewer blocks than it reserves, and the log is long enough for what begin_op admits. The
  values of `param.h` meet it for operations of at most 9 blocks, not for the full 10
  (see `log_write`'s panic above).
* `PipeAssumption`, `VirtioAssumption`: the ring's size divides the range of the
  counters, as 512 divides 2^32 and 8 divides 2^16.
* `BcacheAssumption`, `InodeAssumption`: finitely many processes (and names), since
  `refcnt`, `ref` and `nlink` count them.

`InTime` of `Trap` (no sleeper sleeps through a whole turn of the clock) is a guard of
its tick and so a premise of `WakeupsArrive`. The bounds `MaxPid`, `MaxOps`,
`MaxBytes`, `MaxReq`, `MaxWrites` and `MaxPins` are arbitrary numbers in the theorems.

### The arguments

**Proc.** `OneCpuPerStack` depends on who holds `p->lock` across `swtch`. `StackInv`
has, besides the types: `Apart` (two CPUs have different processes), `BackInv` and
`ExecInv` (a process on its way into or out of the scheduler has its lock held by the
CPU that executes it, and everywhere else on a CPU it is RUNNING; fork holds the lock
of the slot it copies into), `SavedInv` (a process that could be switched to has its
context saved, unless it is just about to save it), `ForkInv` (a slot that fork is
filling in is USED and no other fork has it). The case that needs them together is
`Scan`: a RUNNABLE process with its lock free is not executing anywhere (lemma
`Switchable`), because an executing process whose lock is free is RUNNING (`FreeRuns`).
The dual case is `WaitScan`: a ZOMBIE with its lock free is off its stack.
`NoPanic` needs the exact set of locks a CPU holds at `sched`. `HeldInv` adds
`WaitHeld` and `SlotsHeld`, which say for `wait_lock` and for each `p->lock` that a CPU
holds it only at named places of the thread it executes, `ZombieGone` (a thread that
set its state to ZOMBIE never comes back) and `InitLives`.
`ParentAlive` and `NoMissedExit` are about loops that look at one slot per step.
`FamilyInv` says what the part of a loop already done has established: slots behind
`reparent` are no longer the dying process's children (`Orphans`), slots behind the
scan of `wait` are not zombie children (`NoZombies`), a parent behind `exit`'s wakeup
is awake (`Woken`). That no other process undoes it follows from `HeldInv`: all of it
happens under `wait_lock`.

**Trap.** `TrapInv` determines `noff`, `intena` and the locks a CPU holds from the
place of the thread it runs and of the handler on top of it (`CpuOK`, `Held`), says
what `sched` saved for each process that is switched out (`ProcOK`), and that a
sleeper's condition is false or a CPU is in the wakeup that has yet to reach it
(`Wakes`). A step changes one CPU and one thread; `StepOK`, and from it `Stay` for a
step within a thread and `Switch` for `swtch`, reduce each action to what it does to
these two. `NoSpinDeadlock` follows
from the order of the locks: `tickslock` and a sleep lock's spin lock before `p->lock`.

**Log.** The refinement maps the disk to what recovery would make of it. It changes
in one step, `WriteHead`, and `LogInv` has to say why it changes in no other: what the
header, the log blocks and the homes hold at each point of a commit (`CommitData`) and
of a recovery (`RecoveryData`), and that every block whose home is behind is pinned
(`Pinned`), so that the cache cannot drop it and read the old one back. `RoomInv`
counts for the reservation: the length of the header plus what the running operations
may still write fits, a block already logged by one of them counted once.

**Pipe.** `PipeInv` reads the two wrapped counters as numbers of bytes that do not
wrap (`Holds`), at most `PIPESIZE` apart; `Counters` shows that the code's tests for
full and empty are right for such counters, and the refinement maps the ring to the
bytes between them.

**Bcache.** That a holder sees the newest data depends on buffers nobody holds:
`CacheInv` says that every valid buffer has it (`Valid`) and that a block whose newest
data is not on the disk is in a buffer that cannot be recycled (`Stored`). Recycling
tests `refcnt`, so `refcnt` has to count exactly (`Counts`), and walks the list, which
has to hold every buffer (`Listed`).

**Inode.** The four properties depend on each other. `iput` frees an inode because it
finds one reference and no link, so both have to be counted exactly (`Counts`,
`Links`), an inode must not have two slots, and the slot's link count has to be the
disk's (`Slots`). Then the inode is `iput`'s alone (`Frees`), its lock is free, and it
stays so until `itrunc` is done: it has no name to be found by, and `ialloc` hands out
only dinodes that are not in use (`Uses`). A new inode is its creator's alone until it
is named, except for processes that freed it and have yet to take their reference
back (`News`); that exception is the window of `inode_leak`, and why `NoneLeaked` is
not a theorem. `NoLockCircle` needs of it only where a process holds which lock
(`Locks`). `StepOK` reduces each action to what it does to its own process, given
that the others see no more of it than `Keeps` says. What the proofs need of finite
sets is stated in `SetFacts` and proved from the library after the lemmas that use
it, because the library in the context makes each obligation several times as slow.

**Virtio.** `VirtioInv` says where every request is: on the available ring, in the
device or on the used ring, once (`Rings`), with a chain of three descriptors of its
own (`Chains`). As in the pipe the indices are read as counters that do not wrap. That
a ring is not overrun follows from counting: the heads on it are different
descriptors. `ServedFirst` is an action property, from the invariant that a process
whose `b->disk` is clear has been served (`Data`).

### Model-checked only

* Liveness (`BeginEventually`, `CallsReturn`) and the half of `CallsGoOn` that says a
  step is enabled: fairness and ENABLED are beyond the prover.
* `Console`, with its refinement to `Tty`, `File`, `Blocks` and `Vm`. Their
  invariants count over several tables at once, filter and fold sequences (`exit`'s
  list of descriptors, mkfs's image) or follow page tables of several levels. What a
  fold or a filter computes is induction over data, for which no installed prover can
  instantiate the library's theorems; the rest has not been tried.
* That `NBUF` buffers are enough, and the other compositions below.

## Plan

In this order:

1. Proofs: the refinement of Console to Tty; `RefsExact` of `File`, with exit's
   list of descriptors as a set.
2. Directories below the root in `Inode`: `mkdir`, removal, `.` and `..`, a path of
   several names.
3. Compositions: Bcache with its callers (are `NBUF` buffers enough?), Log with Inode
   (unlinked open files at a crash).
4. Pure algorithms: `umalloc`'s free list, the shell's parser and `skipelem` against
   reference definitions.

## Not modelled

Assembly (context switch, trampoline, vectors), device registers of PLIC and
UART setup, printing, string functions and the user commands: no state that
interleaves. The kernel's own page table and the start of the harts are made once,
before the models begin. The shell, `init` and `umalloc` are sequential programs over
system calls that are modelled. Path resolution over several directories and `mkdir`
are left for the extension of `Inode`; `chdir` is in `File` as far as references go. `PROJECT.json` lists every part with its status.
