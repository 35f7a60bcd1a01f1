-------------------------------- MODULE Pipe --------------------------------
(***************************************************************************)
(* kernel/pipe.c: one pipe, the processes that share its write end and     *)
(* those that share its read end.  pi->lock is held across a whole call    *)
(* but for sleep, so each iteration of a loop is one or two steps of the   *)
(* holder: kill() does not take pi->lock, and may come after the test of   *)
(* killed.  sleep and wakeup are atomic (see Trap).  Byte k of the stream  *)
(* is the number k.                                                        *)
(***************************************************************************)
EXTENDS Naturals, Sequences, FiniteSets

CONSTANTS Writer, Reader,
          Killable,   \* the processes kill() may be called on
          None,       \* pi->lock is free
          PIPESIZE,
          UINT,       \* nread and nwrite count modulo UINT (2^32 in the code)
          MaxN,       \* bound: bytes asked for in one call
          MaxBytes    \* bound: bytes put into the pipe

ASSUME PipeAssumption ==
  /\ PIPESIZE \in Nat \ {0} /\ UINT \in Nat /\ MaxN \in Nat /\ MaxBytes \in Nat
  /\ UINT > PIPESIZE /\ UINT % PIPESIZE = 0
  /\ Writer \cap Reader = {} /\ None \notin Writer \cup Reader
  /\ Killable \subseteq Writer \cup Reader

Process == Writer \cup Reader

VARIABLES
  data, nread, nwrite, readopen, writeopen,  \* struct pipe
  freed,       \* kfree(pi) has been called
  lock,        \* holder of pi->lock
  pc, todo,    \* where a process is in its call, and n - i
  killed,
  sent         \* bytes put into the pipe so far

pipe == <<data, nread, nwrite, readopen, writeopen, freed, sent>>
vars == <<data, nread, nwrite, readopen, writeopen, freed, lock, pc, todo, killed, sent>>

\* pipealloc, and the forks that share the two files.
Init ==
  /\ data = [k \in 0..PIPESIZE - 1 |-> 0]
  /\ nread = 0 /\ nwrite = 0 /\ sent = 0
  /\ readopen = TRUE /\ writeopen = TRUE /\ freed = FALSE
  /\ lock = None
  /\ pc = [p \in Process |-> "idle"]
  /\ todo = [p \in Process |-> 0]
  /\ killed = [p \in Process |-> FALSE]

-----------------------------------------------------------------------------
Empty == nread = nwrite
\* Mutant: the test for a full pipe does not wrap.
Full_NoWrap == nwrite = nread + PIPESIZE

Full == nwrite = (nread + PIPESIZE) % UINT
Goto(p, l) == pc' = [pc EXCEPT ![p] = l]
\* pc after wakeup(&nread) or wakeup(&nwrite): the sleepers of that end, and
\* process p itself going to l.
Wakeup(End, p, l) ==
  pc' = [x \in Process |-> IF x = p THEN l
                           ELSE IF x \in End /\ pc[x] = "asleep" THEN "woken"
                           ELSE pc[x]]

\* write(fd, addr, n) and read(fd, addr, n) reach acquire(&pi->lock).
Call(p) ==
  /\ pc[p] = "idle" /\ lock = None
  /\ \E n \in 1..MaxN : todo' = [todo EXCEPT ![p] = n]
  /\ lock' = p
  /\ Goto(p, IF p \in Writer THEN "write" ELSE "read")
  /\ UNCHANGED <<pipe, killed>>

\* sleep returns with pi->lock held.
Relock(p) ==
  /\ pc[p] = "woken" /\ lock = None
  /\ lock' = p
  /\ Goto(p, IF p \in Writer THEN "write" ELSE "read")
  /\ UNCHANGED <<pipe, todo, killed>>

\* Mutant: the early return does not release pi->lock.
WriteAbort_KeepLock(w) ==
  /\ pc[w] = "write" /\ todo[w] > 0
  /\ ~readopen \/ killed[w]
  /\ Goto(w, "idle")
  /\ UNCHANGED <<pipe, todo, killed, lock>>

\* pipewrite: the reader is gone or the writer was killed; return -1.
WriteAbort(w) ==
  /\ pc[w] = "write" /\ todo[w] > 0
  /\ ~readopen \/ killed[w]
  /\ lock' = None
  /\ Goto(w, "idle")
  /\ UNCHANGED <<pipe, todo, killed>>

\* pipewrite goes on with the next byte.
WriteCheck(w) ==
  /\ pc[w] = "write" /\ todo[w] > 0
  /\ readopen /\ ~killed[w]
  /\ Goto(w, "put")
  /\ UNCHANGED <<pipe, lock, todo, killed>>

\* pipewrite: the pipe is full.
WriteSleep(w) ==
  /\ pc[w] = "put" /\ Full
  /\ Wakeup(Reader, w, "asleep")
  /\ lock' = None
  /\ UNCHANGED <<pipe, todo, killed>>

\* pipewrite: one byte goes in.
WriteByte(w) ==
  /\ pc[w] = "put" /\ ~Full
  /\ sent < MaxBytes
  /\ sent' = sent + 1
  /\ data' = [data EXCEPT ![nwrite % PIPESIZE] = sent + 1]
  /\ nwrite' = (nwrite + 1) % UINT
  /\ todo' = [todo EXCEPT ![w] = @ - 1]
  /\ Goto(w, "write")
  /\ UNCHANGED <<nread, readopen, writeopen, freed, lock, killed>>

\* pipewrite: all bytes are in, or copyin failed on the next one.
WriteDone(w) ==
  /\ \/ pc[w] = "write" /\ todo[w] = 0
     \/ pc[w] = "put" /\ ~Full
  /\ Wakeup(Reader, w, "idle")
  /\ lock' = None
  /\ todo' = [todo EXCEPT ![w] = 0]
  /\ UNCHANGED <<pipe, killed>>

\* piperead: nothing to read yet, and the reader was killed; return -1.
ReadAbort(r) ==
  /\ pc[r] = "read" /\ Empty /\ writeopen /\ killed[r]
  /\ lock' = None
  /\ Goto(r, "idle")
  /\ UNCHANGED <<pipe, todo, killed>>

\* piperead: nothing to read yet.
ReadCheck(r) ==
  /\ pc[r] = "read" /\ Empty /\ writeopen /\ ~killed[r]
  /\ Goto(r, "wait")
  /\ UNCHANGED <<pipe, lock, todo, killed>>

ReadSleep(r) ==
  /\ pc[r] = "wait"
  /\ Goto(r, "asleep")
  /\ lock' = None
  /\ UNCHANGED <<pipe, todo, killed>>

\* piperead leaves its first loop.
ReadReady(r) ==
  /\ pc[r] = "read" /\ ~(Empty /\ writeopen)
  /\ Goto(r, "copy")
  /\ UNCHANGED <<pipe, lock, todo, killed>>

\* piperead: one byte comes out; if copyout fails the call ends with it.
ReadByte(r) ==
  /\ pc[r] = "copy" /\ todo[r] > 0 /\ ~Empty
  /\ nread' = (nread + 1) % UINT
  /\ \E left \in {todo[r] - 1, 0} : todo' = [todo EXCEPT ![r] = left]
  /\ UNCHANGED <<data, nwrite, readopen, writeopen, freed, lock, pc, killed, sent>>

\* Mutant: piperead wakes the writers only when it has emptied the pipe.
ReadDone_WakeIfEmpty(r) ==
  /\ pc[r] = "copy"
  /\ todo[r] = 0 \/ Empty
  /\ IF Empty THEN Wakeup(Writer, r, "idle") ELSE Goto(r, "idle")
  /\ lock' = None
  /\ todo' = [todo EXCEPT ![r] = 0]
  /\ UNCHANGED <<pipe, killed>>

ReadDone(r) ==
  /\ pc[r] = "copy"
  /\ todo[r] = 0 \/ Empty
  /\ Wakeup(Writer, r, "idle")
  /\ lock' = None
  /\ todo' = [todo EXCEPT ![r] = 0]
  /\ UNCHANGED <<pipe, killed>>

\* Mutant: the page is freed with the first end that closes.
PipeClose_FreeEarly(p, End) ==
  LET Other == Process \ End IN
  /\ writeopen' = IF End = Writer THEN FALSE ELSE writeopen
  /\ readopen' = IF End = Reader THEN FALSE ELSE readopen
  /\ Wakeup(Other, p, "closed")
  /\ freed' = TRUE

\* pipeclose(pi, writable), for the last reference to that end.
PipeClose(p, End) ==
  LET Other == Process \ End IN
  /\ writeopen' = IF End = Writer THEN FALSE ELSE writeopen
  /\ readopen' = IF End = Reader THEN FALSE ELSE readopen
  /\ Wakeup(Other, p, "closed")
  /\ freed' = (~readopen' /\ ~writeopen')

\* fileclose: a process between calls gives up its reference.
Close(p) ==
  LET End == IF p \in Writer THEN Writer ELSE Reader IN
  /\ pc[p] = "idle" /\ lock = None
  /\ \/ /\ \A x \in End \ {p} : pc[x] = "closed"
        /\ PipeClose(p, End)
     \/ /\ \E x \in End \ {p} : pc[x] # "closed"
        /\ Goto(p, "closed")
        /\ UNCHANGED <<readopen, writeopen, freed>>
  /\ UNCHANGED <<data, nread, nwrite, sent, lock, todo, killed>>

\* kill(): the flag, and a sleeper becomes RUNNABLE.
Kill(p) ==
  /\ ~killed[p] /\ pc[p] # "closed"
  /\ killed' = [killed EXCEPT ![p] = TRUE]
  /\ Goto(p, IF pc[p] = "asleep" THEN "woken" ELSE pc[p])
  /\ UNCHANGED <<pipe, lock, todo>>

InCall(p) ==
  \/ Relock(p)
  \/ WriteAbort(p) \/ WriteCheck(p) \/ WriteSleep(p) \/ WriteByte(p) \/ WriteDone(p)
  \/ ReadAbort(p) \/ ReadCheck(p) \/ ReadSleep(p) \/ ReadReady(p) \/ ReadByte(p) \/ ReadDone(p)

Next == \/ \E p \in Process : Call(p) \/ InCall(p) \/ Close(p)
        \/ \E p \in Killable : Kill(p)

Spec == Init /\ [][Next]_vars

\* A call that has been entered runs on, and every process that keeps
\* returning from its calls closes its end sooner or later (exit does).
FairSpec == Spec /\ \A p \in Process : WF_vars(InCall(p)) /\ SF_vars(Close(p))

-----------------------------------------------------------------------------
\* The ring buffer is a bounded FIFO: through wrapping counters, blocking,
\* closing and killing, bytes come out once each and in order.
Queue == [k \in 1..(nwrite + UINT - nread) % UINT |->
            data[(nread + k - 1) % PIPESIZE]]
Stream == INSTANCE Fifo WITH
  Capacity <- PIPESIZE, q <- Queue, accepted <- sent,
  wopen <- writeopen, ropen <- readopen
InOrder == Stream!FSpec

\* No writer sleeps while it could go on: not beside free space, not behind a
\* closed read end.
WriterNotStranded ==
  lock = None => \A w \in Writer : pc[w] = "asleep" => Full /\ readopen

\* pipeclose frees the page once, and nobody is left inside a call on it.
NoUseAfterFree ==
  freed => \A p \in Process : pc[p] = "closed"

\* Every read and write returns, unless a writer is killed.
CallsReturn ==
  \A p \in Process :
    (pc[p] \notin {"idle", "closed"}) ~> (pc[p] = "idle" \/ \E w \in Writer : killed[w])
=============================================================================
