----------------------------- MODULE PipeProofs -----------------------------
(***************************************************************************)
(* Proofs about Pipe, for any number of processes at either end, any       *)
(* buffer size and any width of the counters that the size divides: the    *)
(* ring implements a FIFO, no writer is left asleep beside free space, and *)
(* the page is not used once it is free.                                   *)
(***************************************************************************)
EXTENDS Pipe, Counters

-----------------------------------------------------------------------------
(* The ring buffer.                                                        *)

\* Bytes r+1 to s are in the buffer d, and the counters are those of byte r
\* and byte s: nr is what has been read, nw what has been written.
Holds(r, s, d, nr, nw) ==
  /\ s - r \in 0..PIPESIZE
  /\ nr = r % UINT /\ nw = s % UINT
  /\ \A k \in Nat : r <= k /\ k < s => d[k % PIPESIZE] = k + 1

\* The queue such a buffer stands for.
Bytes(r, s) == [k \in 1..s - r |-> r + k]

\* The code's tests for a full and for an empty pipe are right although its
\* counters wrap.
LEMMA Counters ==
  ASSUME NEW r \in Nat, NEW s \in Nat, NEW d, NEW nr, NEW nw, Holds(r, s, d, nr, nw)
  PROVE  /\ nr = nw <=> r = s
         /\ nw = (nr + PIPESIZE) % UINT <=> s = r + PIPESIZE
         /\ (nw + UINT - nr) % UINT = s - r
<1>0. UINT \in Nat \ {0} /\ PIPESIZE \in Nat /\ PIPESIZE < UINT
  BY PipeAssumption
<1>a. r \in Int /\ s \in Int /\ PIPESIZE \in Int /\ s - r < UINT /\ r - s < UINT
  BY <1>0 DEF Holds
<1>1. nr = nw <=> r = s
  <2>1. r % UINT = s % UINT => r = s
    BY <1>0, <1>a, ModApart, Zenon
  <2>. QED BY <2>1 DEF Holds
<1>2. nw = (nr + PIPESIZE) % UINT <=> s = r + PIPESIZE
  <2>1. (nr + PIPESIZE) % UINT = (r + PIPESIZE) % UINT
    BY <1>0, <1>a, ModPlus, Zenon DEF Holds
  <2>. DEFINE e == r + PIPESIZE
  <2>2. e \in Int /\ e - s < UINT /\ s - e < UINT
    BY <1>0 DEF Holds
  <2>. HIDE DEF e
  <2>3. s % UINT = e % UINT <=> s = e
    BY <1>0, <1>a, <2>2, ModApart, Zenon
  <2>. QED BY <2>1, <2>3 DEF e, Holds
<1>3. (nw + UINT - nr) % UINT = s - r
  <2>1. s - r \in 0..UINT - 1
    BY <1>0 DEF Holds
  <2>. QED BY <1>0, <1>a, <2>1, ModMinus, Zenon DEF Holds
<1>. QED BY <1>1, <1>2, <1>3

\* Slot of the k-th byte from nread.
LEMMA SlotOfByte ==
  ASSUME NEW r \in Nat, NEW k \in Nat \ {0}
  PROVE  ((r % UINT) + k - 1) % PIPESIZE = (r + k - 1) % PIPESIZE
<1>0. UINT \in Nat \ {0} /\ PIPESIZE \in Nat \ {0} /\ UINT % PIPESIZE = 0
  BY PipeAssumption
<1>. DEFINE a == r % UINT
            c == k - 1
<1>1. a \in Int /\ c \in Int /\ r \in Int
  BY <1>0
<1>2. a % PIPESIZE = r % PIPESIZE
  BY <1>0, <1>1, ModMod, ZenonT(30)
<1>. HIDE DEF a, c
<1>3. (a + c) % PIPESIZE = (r + c) % PIPESIZE
  <2>1. ((a % PIPESIZE) + c) % PIPESIZE = (a + c) % PIPESIZE
    BY <1>0, <1>1, ModPlus, Zenon
  <2>2. ((r % PIPESIZE) + c) % PIPESIZE = (r + c) % PIPESIZE
    BY <1>0, <1>1, ModPlus, Zenon
  <2>. QED BY <1>2, <2>1, <2>2
<1>4. a + c = a + k - 1 /\ r + c = r + k - 1
  BY <1>1 DEF c
<1>. QED BY <1>3, <1>4 DEF a

\* What is read from nr to nw.
Contents(d, nr, nw) == [k \in 1..(nw + UINT - nr) % UINT |-> d[(nr + k - 1) % PIPESIZE]]

\* It is the bytes the buffer holds, each once and in order.
LEMMA QueueOf ==
  ASSUME NEW r \in Nat, NEW s \in Nat, NEW d, NEW nr, NEW nw, Holds(r, s, d, nr, nw)
  PROVE  Contents(d, nr, nw) = Bytes(r, s)
<1>1. (nw + UINT - nr) % UINT = s - r
  BY Counters
<1>2. ASSUME NEW k \in 1..s - r PROVE d[(nr + k - 1) % PIPESIZE] = r + k
  <2>1. k \in Nat \ {0} /\ r + k - 1 \in Nat /\ r <= r + k - 1 /\ r + k - 1 < s
        /\ (r + k - 1) + 1 = r + k
    OBVIOUS
  <2>2. (nr + k - 1) % PIPESIZE = (r + k - 1) % PIPESIZE
    BY <2>1, SlotOfByte DEF Holds
  <2>3. \A j \in Nat : r <= j /\ j < s => d[j % PIPESIZE] = j + 1
    BY DEF Holds
  <2>4. d[(r + k - 1) % PIPESIZE] = (r + k - 1) + 1
    BY <2>1, <2>3
  <2>. QED BY <2>1, <2>2, <2>4
<1>. QED BY <1>1, <1>2 DEF Bytes, Contents

\* Putting byte s+1.
LEMMA PutByte ==
  ASSUME NEW r \in Nat, NEW s \in Nat, NEW d \in [0..PIPESIZE - 1 -> Nat], NEW nr, NEW nw,
         Holds(r, s, d, nr, nw), s # r + PIPESIZE
  PROVE  /\ Holds(r, s + 1, [d EXCEPT ![nw % PIPESIZE] = s + 1], nr, (nw + 1) % UINT)
         /\ Bytes(r, s + 1) = Append(Bytes(r, s), s + 1)
<1>0. UINT \in Nat \ {0} /\ PIPESIZE \in Nat \ {0} /\ UINT % PIPESIZE = 0
  BY PipeAssumption
<1>. DEFINE e == [d EXCEPT ![nw % PIPESIZE] = s + 1]
<1>a. s \in Int /\ 1 \in Int /\ nw = s % UINT
  BY DEF Holds
<1>1. nw % PIPESIZE = s % PIPESIZE
  BY <1>0, <1>a, ModMod, Zenon
<1>2. (nw + 1) % UINT = (s + 1) % UINT
  BY <1>0, <1>a, ModPlus, Zenon
<1>3. s % PIPESIZE \in 0..PIPESIZE - 1
  BY <1>0, <1>a, DivMod, Zenon
<1>4. ASSUME NEW k \in Nat, r <= k, k < s + 1 PROVE e[k % PIPESIZE] = k + 1
  <2>1. CASE k = s
    BY <1>1, <1>3, <2>1
  <2>2. CASE k < s
    <3>1. k % PIPESIZE # s % PIPESIZE
      <4>1. s - k < PIPESIZE /\ k - s < PIPESIZE /\ k # s /\ k \in Int
        BY <1>0, <1>4, <2>2 DEF Holds
      <4>. QED BY <1>0, <1>a, <4>1, ModApart, Zenon
    <3>2. k % PIPESIZE \in 0..PIPESIZE - 1
      <4>1. k \in Int
        OBVIOUS
      <4>. QED BY <1>0, <4>1, DivMod, Zenon
    <3>3. e[k % PIPESIZE] = d[k % PIPESIZE]
      BY <1>1, <3>1, <3>2
    <3>. QED BY <1>4, <2>2, <3>3 DEF Holds
  <2>. QED BY <1>4, <2>1, <2>2
<1>5. s + 1 - r \in 0..PIPESIZE
  BY <1>0 DEF Holds
<1>6. Holds(r, s + 1, e, nr, (nw + 1) % UINT)
  <2>. HIDE DEF e
  <2>. QED BY <1>2, <1>4, <1>5 DEF Holds
<1>7. Bytes(r, s + 1) = Append(Bytes(r, s), s + 1)
  <2>1. s - r \in Nat /\ s + 1 - r = (s - r) + 1 /\ r + ((s - r) + 1) = s + 1
    BY DEF Holds
  <2>. QED BY <2>1 DEF Bytes
<1>. QED BY <1>6, <1>7

\* Taking the byte at nread.
LEMMA TakeByte ==
  ASSUME NEW r \in Nat, NEW s \in Nat, NEW d, NEW nr, NEW nw, Holds(r, s, d, nr, nw), r # s
  PROVE  /\ Holds(r + 1, s, d, (nr + 1) % UINT, nw)
         /\ Bytes(r, s) # <<>> /\ Bytes(r + 1, s) = Tail(Bytes(r, s))
<1>0. UINT \in Nat \ {0} /\ PIPESIZE \in Nat \ {0}
  BY PipeAssumption
<1>a. r \in Int /\ 1 \in Int /\ nr = r % UINT
  BY DEF Holds
<1>1. (nr + 1) % UINT = (r + 1) % UINT
  BY <1>0, <1>a, ModPlus, Zenon
<1>2. s - (r + 1) \in 0..PIPESIZE
  BY <1>0 DEF Holds
<1>3. Holds(r + 1, s, d, (nr + 1) % UINT, nw)
  BY <1>1, <1>2 DEF Holds
<1>. DEFINE n == s - r
<1>4. n \in Nat /\ n >= 1 /\ s - (r + 1) = n - 1
  BY <1>0 DEF Holds
<1>5. Bytes(r, s) = [k \in 1..n |-> r + k] /\ Bytes(r + 1, s) = [k \in 1..n - 1 |-> r + 1 + k]
  BY <1>4 DEF Bytes
<1>. HIDE DEF n
<1>6. Bytes(r, s) \in Seq(Nat) /\ Len(Bytes(r, s)) = n
  BY <1>4, <1>5
<1>7. Tail(Bytes(r, s)) = [k \in 1..n - 1 |-> r + (k + 1)]
  BY <1>4, <1>5, <1>6
<1>8. \A k \in 1..n - 1 : r + (k + 1) = r + 1 + k
  BY <1>4
<1>9. Bytes(r + 1, s) = Tail(Bytes(r, s))
  BY <1>5, <1>7, <1>8, Zenon
<1>. QED BY <1>3, <1>4, <1>6, <1>9

-----------------------------------------------------------------------------
(* The inductive invariant.                                                *)

WriterAt == {"idle", "write", "put", "asleep", "woken", "closed"}
ReaderAt == {"idle", "read", "wait", "copy", "asleep", "woken", "closed"}

PipeType ==
  /\ data \in [0..PIPESIZE - 1 -> Nat] /\ sent \in Nat
  /\ pc \in [Process -> WriterAt \cup ReaderAt]
  /\ \A w \in Writer : pc[w] \in WriterAt
  /\ \A r \in Reader : pc[r] \in ReaderAt

\* Inside a call pi->lock is held.
Holder == \A p \in Process : pc[p] \in {"write", "put", "read", "wait", "copy"} => lock = p

Ring == \E r \in Nat : Holds(r, sent, data, nread, nwrite)

\* An end is closed when all that share it have closed it; a writer that puts
\* a byte has seen the other end open.
Ends ==
  /\ readopen \/ \A r \in Reader : pc[r] = "closed"
  /\ writeopen \/ \A w \in Writer : pc[w] = "closed"
  /\ freed => ~readopen /\ ~writeopen
  /\ \A w \in Writer : pc[w] = "put" => readopen

\* Only a reader that is taking bytes out may find writers asleep beside free
\* space: it will wake them.
Sleepers ==
  (\A r \in Reader : pc[r] # "copy") =>
    \A w \in Writer : pc[w] = "asleep" => Full /\ readopen

PipeInv == PipeType /\ Holder /\ Ring /\ Ends /\ Sleepers

\* Process p goes from one label to another, and may wake others.
Moves(p, l) ==
  /\ pc'[p] = l
  /\ DOMAIN pc' = Process /\ pc' = [x \in Process |-> pc'[x]]
  /\ \A x \in Process \ {p} : pc'[x] = pc[x] \/ (pc[x] = "asleep" /\ pc'[x] = "woken")

\* Goto and Wakeup move one process.
LEMMA Moving ==
  ASSUME PipeInv, NEW p \in Process, NEW l, NEW End, Goto(p, l) \/ Wakeup(End, p, l)
  PROVE  Moves(p, l)
<1>1. CASE Goto(p, l)
  BY <1>1, Zenon DEF Goto, Moves, PipeInv, PipeType
<1>2. CASE Wakeup(End, p, l)
  BY <1>2 DEF Wakeup, Moves
<1>. QED BY <1>1, <1>2

\* What such a step leaves as it is when it does not touch the buffer.
LEMMA Frame ==
  ASSUME PipeInv, NEW p \in Process, NEW l, Moves(p, l), UNCHANGED pipe,
         pc[p] # "closed", p \in Writer => l \in WriterAt, p \in Reader => l \in ReaderAt,
         l = "put" => readopen
  PROVE  PipeType' /\ Ring' /\ Ends'
<1>1. /\ \A w \in Writer : pc'[w] \in WriterAt
      /\ \A r \in Reader : pc'[r] \in ReaderAt
  BY DEF Moves, PipeInv, PipeType, WriterAt, ReaderAt, Process
<1>2. pc' \in [Process -> WriterAt \cup ReaderAt]
  BY <1>1 DEF Moves, Process
<1>3. Ring'
  BY DEF PipeInv, Ring, pipe
<1>4. \A x \in Process : /\ pc[x] = "closed" => pc'[x] = "closed"
                         /\ pc'[x] = "put" /\ x # p => pc[x] = "put"
  BY DEF Moves
<1>5. Ends'
  BY <1>4 DEF PipeInv, Ends, pipe, Process, Moves
<1>. QED BY <1>1, <1>2, <1>3, <1>5 DEF PipeType, PipeInv, pipe

\* pi->lock passes to p, stays with p, or is released by p.
LEMMA Locks ==
  ASSUME PipeInv, NEW p \in Process, NEW l, Moves(p, l),
         \/ lock = None /\ lock' = p
         \/ lock = p /\ lock' = p
         \/ lock = p /\ lock' = None /\ l \notin {"write", "put", "read", "wait", "copy"}
         \/ lock' = lock /\ l \notin {"write", "put", "read", "wait", "copy"}
  PROVE  Holder'
<1>1. None \notin Process
  BY PipeAssumption DEF Process
<1>2. \A x \in Process : /\ x # p
                         /\ pc'[x] \in {"write", "put", "read", "wait", "copy"}
                         => lock = x
  BY DEF Moves, PipeInv, Holder
<1>. QED BY <1>1, <1>2 DEF Holder, Moves

\* A writer goes to sleep only on a full pipe with a reader.
LEMMA Sleeps ==
  ASSUME PipeInv, NEW p \in Process, NEW l, Moves(p, l), UNCHANGED pipe,
         p \in Reader => pc[p] # "copy",
         p \in Writer /\ l = "asleep" => Full /\ readopen
  PROVE  Sleepers'
<1>1. Full' = Full /\ readopen' = readopen
  BY DEF Full, pipe
<1>2. (\A r \in Reader : pc'[r] # "copy") => \A r \in Reader : pc[r] # "copy"
  BY DEF Moves, Process
<1>3. \A w \in Writer : pc'[w] = "asleep" /\ w # p => pc[w] = "asleep"
  BY DEF Moves, Process
<1>. QED BY <1>1, <1>2, <1>3 DEF PipeInv, Sleepers, Moves

\* Where a process is inside a call it holds the lock, and no other is.
LEMMA Inside ==
  ASSUME PipeInv, NEW p \in Process, pc[p] \in {"write", "put", "read", "wait", "copy"}
  PROVE  /\ lock = p
         /\ pc[p] \in {"write", "put"} <=> p \in Writer
         /\ pc[p] \in {"read", "wait", "copy"} <=> p \in Reader
         /\ \A x \in Process \ {p} : pc[x] \notin {"write", "put", "read", "wait", "copy"}
<1>1. p \in Writer => pc[p] \in WriterAt
  BY DEF PipeInv, PipeType
<1>2. p \in Reader => pc[p] \in ReaderAt
  BY DEF PipeInv, PipeType
<1>3. lock = p
  BY DEF PipeInv, Holder
<1>4. \A x \in Process \ {p} : pc[x] \notin {"write", "put", "read", "wait", "copy"}
  BY <1>3 DEF PipeInv, Holder
<1>. QED BY <1>1, <1>2, <1>3, <1>4 DEF WriterAt, ReaderAt, Process

\* pipealloc makes an empty ring with both ends open.
LEMMA InitPipe == Init => PipeInv
<1>. SUFFICES ASSUME Init PROVE PipeInv
  OBVIOUS
<1>1. PipeType
  BY DEF Init, PipeType, WriterAt, ReaderAt, Process
<1>2. Holds(0, sent, data, nread, nwrite)
  <2>1. 0 % UINT = 0 /\ 0 - 0 \in 0..PIPESIZE
    BY PipeAssumption
  <2>2. sent = 0 /\ nread = 0 /\ nwrite = 0
    BY DEF Init
  <2>. QED BY <2>1, <2>2 DEF Holds
<1>3. Ring
  BY <1>2 DEF Ring
<1>4. Holder /\ Ends /\ Sleepers
  BY DEF Init, Holder, Ends, Sleepers, Process
<1>. QED BY <1>1, <1>3, <1>4 DEF PipeInv

\* acquire(&pi->lock), at the start of a call and after sleep.
LEMMA StepEnter == ASSUME PipeInv, NEW p \in Process, Call(p) \/ Relock(p) PROVE PipeInv'
<1>. DEFINE l == IF p \in Writer THEN "write" ELSE "read"
<1>1. Moves(p, l) /\ UNCHANGED pipe /\ lock = None /\ lock' = p /\ pc[p] \in {"idle", "woken"}
  BY Moving DEF Call, Relock
<1>2. /\ p \in Writer => l \in WriterAt
      /\ p \in Reader => l \in ReaderAt
      /\ l # "put" /\ l # "asleep"
  BY PipeAssumption DEF WriterAt, ReaderAt
<1>. HIDE DEF l
<1>3. PipeType' /\ Ring' /\ Ends'
  BY <1>1, <1>2, Frame
<1>. QED BY <1>1, <1>2, <1>3, Locks, Sleeps DEF PipeInv

\* Steps of a writer that leave the buffer alone.
LEMMA StepWriter ==
  ASSUME PipeInv, NEW w \in Process,
         WriteAbort(w) \/ WriteCheck(w) \/ WriteSleep(w) \/ WriteDone(w)
  PROVE  PipeInv'
<1>0. w \in Writer /\ w \notin Reader /\ pc[w] \in {"write", "put"} /\ lock = w /\ UNCHANGED pipe
  BY Inside, PipeAssumption DEF WriteAbort, WriteCheck, WriteSleep, WriteDone
<1>1. CASE WriteAbort(w) \/ WriteDone(w)
  <2>1. Moves(w, "idle") /\ lock' = None
    BY <1>1, Moving DEF WriteAbort, WriteDone
  <2>2. PipeType' /\ Ring' /\ Ends'
    BY <1>0, <2>1, Frame DEF WriterAt
  <2>. QED BY <1>0, <2>1, <2>2, Locks, Sleeps DEF PipeInv
<1>2. CASE WriteCheck(w)
  <2>1. Moves(w, "put") /\ lock' = lock /\ readopen
    BY <1>2, Moving DEF WriteCheck
  <2>2. PipeType' /\ Ring' /\ Ends'
    BY <1>0, <2>1, Frame DEF WriterAt
  <2>. QED BY <1>0, <2>1, <2>2, Locks, Sleeps DEF PipeInv
<1>3. CASE WriteSleep(w)
  <2>1. Moves(w, "asleep") /\ lock' = None /\ Full /\ pc[w] = "put"
    BY <1>3, Moving DEF WriteSleep
  <2>2. readopen
    BY <1>0, <2>1 DEF PipeInv, Ends
  <2>3. PipeType' /\ Ring' /\ Ends'
    BY <1>0, <2>1, Frame DEF WriterAt
  <2>. QED BY <1>0, <2>1, <2>2, <2>3, Locks, Sleeps DEF PipeInv
<1>. QED BY <1>1, <1>2, <1>3

\* Steps of a reader that leave the buffer alone.
LEMMA StepReader ==
  ASSUME PipeInv, NEW r \in Process,
         ReadAbort(r) \/ ReadCheck(r) \/ ReadSleep(r) \/ ReadReady(r) \/ ReadDone(r)
  PROVE  PipeInv'
<1>0. /\ r \in Reader /\ r \notin Writer /\ pc[r] \in {"read", "wait", "copy"} /\ lock = r
      /\ UNCHANGED pipe
  BY Inside, PipeAssumption DEF ReadAbort, ReadCheck, ReadSleep, ReadReady, ReadDone
<1>1. CASE ReadAbort(r) \/ ReadSleep(r)
  <2>1. PICK l \in {"idle", "asleep"} : Moves(r, l) /\ lock' = None /\ pc[r] # "copy"
    BY <1>1, Moving DEF ReadAbort, ReadSleep
  <2>2. PipeType' /\ Ring' /\ Ends'
    BY <1>0, <2>1, Frame DEF ReaderAt
  <2>. QED BY <1>0, <2>1, <2>2, Locks, Sleeps DEF PipeInv
<1>2. CASE ReadCheck(r) \/ ReadReady(r)
  <2>1. PICK l \in {"wait", "copy"} : Moves(r, l) /\ lock' = lock /\ pc[r] # "copy"
    BY <1>2, Moving DEF ReadCheck, ReadReady
  <2>2. PipeType' /\ Ring' /\ Ends'
    BY <1>0, <2>1, Frame DEF ReaderAt
  <2>. QED BY <1>0, <2>1, <2>2, Locks, Sleeps DEF PipeInv
<1>3. CASE ReadDone(r)
  <2>1. Moves(r, "idle") /\ lock' = None
    BY <1>3, Moving DEF ReadDone
  <2>2. PipeType' /\ Ring' /\ Ends'
    BY <1>0, <2>1, Frame DEF ReaderAt
  <2>3. \A w \in Writer : pc'[w] # "asleep"
    BY <1>0, <1>3 DEF ReadDone, Wakeup, Process
  <2>4. Sleepers'
    BY <2>3 DEF Sleepers
  <2>. QED BY <1>0, <2>1, <2>2, <2>4, Locks DEF PipeInv
<1>. QED BY <1>1, <1>2, <1>3

\* kill makes a sleeper runnable.
LEMMA StepKill == ASSUME PipeInv, NEW p \in Killable, Kill(p) PROVE PipeInv'
<1>0. p \in Process
  BY PipeAssumption DEF Process
<1>. DEFINE l == IF pc[p] = "asleep" THEN "woken" ELSE pc[p]
<1>1. Moves(p, l) /\ UNCHANGED pipe /\ lock' = lock /\ pc[p] # "closed"
  BY <1>0, Moving DEF Kill
<1>2. /\ p \in Writer => l \in WriterAt
      /\ p \in Reader => l \in ReaderAt
      /\ l = "put" => pc[p] = "put" /\ p \in Writer
      /\ l # "asleep"
      /\ l \in {"write", "put", "read", "wait", "copy"} => lock = p
  BY <1>0 DEF PipeInv, PipeType, WriterAt, ReaderAt, Process, Holder
<1>3. l = "put" => readopen
  BY <1>2 DEF PipeInv, Ends
<1>4. /\ \A x \in Process : pc'[x] = "copy" <=> pc[x] = "copy"
      /\ \A x \in Process : pc'[x] = "asleep" => pc[x] = "asleep"
  BY <1>0, <1>1 DEF Moves
<1>. HIDE DEF l
<1>5. PipeType' /\ Ring' /\ Ends'
  BY <1>0, <1>1, <1>2, <1>3, Frame
<1>6. Sleepers'
  <2>1. Full' = Full /\ readopen' = readopen
    BY <1>1 DEF Full, pipe
  <2>. QED BY <1>4, <2>1 DEF PipeInv, Sleepers, Process
<1>7. Holder'
  BY <1>0, <1>1, <1>2, Locks
<1>. QED BY <1>5, <1>6, <1>7 DEF PipeInv

\* A byte goes in.
LEMMA StepWriteByte == ASSUME PipeInv, NEW w \in Process, WriteByte(w) PROVE PipeInv'
<1>0. /\ w \in Writer /\ w \notin Reader /\ lock = w /\ pc[w] = "put"
      /\ \A r \in Reader : pc[r] # "copy"
  BY Inside, PipeAssumption DEF WriteByte, Process
<1>1. Moves(w, "write") /\ lock' = lock
  BY Moving DEF WriteByte
<1>2. PICK r \in Nat : Holds(r, sent, data, nread, nwrite)
  BY DEF PipeInv, Ring
<1>3. sent \in Nat /\ data \in [0..PIPESIZE - 1 -> Nat] /\ sent # r + PIPESIZE
  BY <1>2, Counters DEF WriteByte, Full, PipeInv, PipeType
<1>4. Holds(r, sent', data', nread', nwrite')
  BY <1>2, <1>3, PutByte, Zenon DEF WriteByte
<1>5. PipeType'
  <2>1. /\ \A x \in Writer : pc'[x] \in WriterAt
        /\ \A x \in Reader : pc'[x] \in ReaderAt
    BY <1>0, <1>1 DEF Moves, PipeInv, PipeType, WriterAt, ReaderAt, Process
  <2>2. pc' \in [Process -> WriterAt \cup ReaderAt]
    BY <1>1, <2>1 DEF Moves, Process
  <2>3. data' \in [0..PIPESIZE - 1 -> Nat] /\ sent' \in Nat
    <3>1. sent' = sent + 1 /\ \E k : data' = [data EXCEPT ![k] = sent + 1]
      BY Zenon DEF WriteByte
    <3>2. PICK k : data' = [data EXCEPT ![k] = sent + 1]
      BY <3>1, Zenon
    <3>3. sent + 1 \in Nat
      BY <1>3
    <3>. QED BY <1>3, <3>1, <3>2, <3>3, Zenon
  <2>. QED BY <2>1, <2>2, <2>3 DEF PipeType
<1>6. Ends'
  <2>1. \A x \in Process : /\ pc[x] = "closed" => pc'[x] = "closed"
                           /\ pc'[x] = "put" => pc[x] = "put"
    BY <1>0, <1>1 DEF Moves
  <2>. QED BY <2>1 DEF PipeInv, Ends, WriteByte, Process
<1>7. Sleepers'
  <2>1. \A x \in Writer : pc[x] # "asleep"
    BY <1>0 DEF PipeInv, Sleepers, WriteByte
  <2>2. \A x \in Writer : pc'[x] # "asleep"
    BY <1>0, <1>1, <2>1 DEF Moves, Process
  <2>. QED BY <2>2 DEF Sleepers
<1>8. Holder'
  BY <1>0, <1>1, Locks
<1>. QED BY <1>4, <1>5, <1>6, <1>7, <1>8 DEF PipeInv, Ring

\* A byte comes out.
LEMMA StepReadByte == ASSUME PipeInv, NEW r \in Process, ReadByte(r) PROVE PipeInv'
<1>0. r \in Reader /\ pc[r] = "copy" /\ pc' = pc /\ lock' = lock
  BY Inside DEF ReadByte
<1>1. PICK n \in Nat : Holds(n, sent, data, nread, nwrite)
  BY DEF PipeInv, Ring
<1>2. n # sent /\ sent \in Nat
  BY <1>1, Counters DEF ReadByte, Empty, PipeInv, PipeType
<1>3. Holds(n + 1, sent', data', nread', nwrite')
  BY <1>1, <1>2, TakeByte, Zenon DEF ReadByte
<1>4. Ring'
  BY <1>3 DEF Ring
<1>5. PipeType' /\ Holder' /\ Ends'
  BY <1>0 DEF PipeInv, PipeType, Holder, Ends, ReadByte
<1>6. Sleepers'
  BY <1>0 DEF Sleepers
<1>. QED BY <1>4, <1>5, <1>6 DEF PipeInv

\* fileclose, and pipeclose by the last that shares the end.
LEMMA StepClose == ASSUME PipeInv, NEW p \in Process, Close(p) PROVE PipeInv'
<1>. DEFINE End == IF p \in Writer THEN Writer ELSE Reader
<1>0. /\ pc[p] = "idle" /\ lock = None /\ lock' = None
      /\ UNCHANGED <<data, nread, nwrite, sent>>
  BY DEF Close
<1>1. Moves(p, "closed")
  <2>1. Goto(p, "closed") \/ Wakeup(Process \ End, p, "closed")
    BY Zenon DEF Close, PipeClose
  <2>. HIDE DEF End
  <2>. QED BY <2>1, Moving
<1>2. \A x \in Process : pc[x] \notin {"write", "put", "read", "wait", "copy"}
  BY <1>0, PipeAssumption DEF PipeInv, Holder, Process
<1>3. \A x \in Process : /\ pc'[x] \notin {"write", "put", "read", "wait", "copy"}
                         /\ pc[x] = "closed" => pc'[x] = "closed"
                         /\ pc'[x] = "asleep" => pc[x] = "asleep"
  BY <1>1, <1>2 DEF Moves
<1>4. Writer \cap Reader = {} /\ p \in End /\ (End = Writer \/ End = Reader)
      /\ (p \in Writer <=> End = Writer)
  BY PipeAssumption DEF Process
<1>5. PipeType'
  <2>1. /\ \A x \in Writer : pc'[x] \in WriterAt
        /\ \A x \in Reader : pc'[x] \in ReaderAt
    BY <1>1 DEF Moves, PipeInv, PipeType, WriterAt, ReaderAt, Process
  <2>2. pc' \in [Process -> WriterAt \cup ReaderAt]
    BY <1>1, <2>1 DEF Moves, Process
  <2>. QED BY <1>0, <2>1, <2>2 DEF PipeInv, PipeType
<1>6. Ring' /\ Holder'
  BY <1>0, <1>3 DEF PipeInv, Ring, Holder
<1>7. CASE \E x \in End \ {p} : pc[x] # "closed"
  <2>1. UNCHANGED <<readopen, writeopen, freed>>
    BY <1>7 DEF Close
  <2>2. Ends'
    BY <1>3, <2>1 DEF PipeInv, Ends, Process
  <2>3. Sleepers'
    <3>1. Full' = Full
      BY <1>0 DEF Full
    <3>. QED BY <1>2, <1>3, <2>1, <3>1 DEF PipeInv, Sleepers, Process
  <2>. QED BY <1>5, <1>6, <2>2, <2>3 DEF PipeInv
<1>8. CASE \A x \in End \ {p} : pc[x] = "closed"
  <2>1. PipeClose(p, End)
    BY <1>8 DEF Close
  <2>2. \A x \in End : pc'[x] = "closed"
    BY <1>1, <1>3, <1>4, <1>8 DEF Moves, Process
  <2>. HIDE DEF End
  <2>3. Ends'
    <3>1. /\ writeopen' = IF End = Writer THEN FALSE ELSE writeopen
          /\ readopen' = IF End = Reader THEN FALSE ELSE readopen
          /\ freed' = (~readopen' /\ ~writeopen')
      BY <2>1 DEF PipeClose
    <3>2. writeopen' \/ \A w \in Writer : pc'[w] = "closed"
      BY <1>3, <2>2, <3>1, Zenon DEF PipeInv, Ends, Process
    <3>3. readopen' \/ \A x \in Reader : pc'[x] = "closed"
      BY <1>3, <2>2, <3>1, Zenon DEF PipeInv, Ends, Process
    <3>4. freed' => ~readopen' /\ ~writeopen'
      BY <3>1, Zenon
    <3>5. \A w \in Writer : pc'[w] # "put"
      BY <1>3 DEF Process
    <3>. QED BY <3>2, <3>3, <3>4, <3>5 DEF Ends
  <2>4. Sleepers'
    <3>1. CASE End = Reader
      <4>1. \A w \in Writer : pc'[w] # "asleep"
        BY <1>4, <2>1, <3>1 DEF PipeClose, Wakeup, Process
      <4>. QED BY <4>1 DEF Sleepers
    <3>2. CASE End # Reader
      <4>1. Full' = Full /\ readopen' = readopen
        BY <1>0, <2>1, <3>2 DEF Full, PipeClose
      <4>. QED BY <1>2, <1>3, <4>1 DEF PipeInv, Sleepers, Process
    <3>. QED BY <3>1, <3>2
  <2>. QED BY <1>5, <1>6, <2>3, <2>4 DEF PipeInv
<1>. QED BY <1>7, <1>8

\* Every step keeps PipeInv.
LEMMA PipeStep == PipeInv /\ [Next]_vars => PipeInv'
<1>1. PipeInv /\ UNCHANGED vars => PipeInv'
  BY DEF PipeInv, PipeType, Holder, Ring, Ends, Sleepers, Full, vars
<1>2. PipeInv /\ Next => PipeInv'
  BY StepEnter, StepWriter, StepReader, StepKill, StepWriteByte, StepReadByte, StepClose
     DEF Next, InCall
<1>. QED BY <1>1, <1>2

\* PipeInv is an invariant of the pipe.
THEOREM PipeInvariant == Spec => []PipeInv
  BY InitPipe, PipeStep, PTL DEF Spec

\* No writer sleeps beside free space or behind a closed read end: piperead
\* and pipeclose wake whom they concern before they let the lock go.
THEOREM WritersNotStranded == Spec => []WriterNotStranded
<1>1. PipeInv => WriterNotStranded
  <2>. SUFFICES ASSUME PipeInv, lock = None PROVE \A w \in Writer : pc[w] = "asleep" => Full /\ readopen
    BY DEF WriterNotStranded
  <2>1. \A r \in Reader : pc[r] # "copy"
    BY PipeAssumption DEF PipeInv, Holder, Process
  <2>. QED BY <2>1 DEF PipeInv, Sleepers
<1>. QED BY <1>1, PipeInvariant, PTL

\* Once pipeclose has freed the page nobody is left in a call on it, and
\* nobody can begin one.
THEOREM PageNotUsedAfterFree == Spec => []NoUseAfterFree
<1>1. PipeInv => NoUseAfterFree
  BY DEF PipeInv, Ends, NoUseAfterFree, Process
<1>. QED BY <1>1, PipeInvariant, PTL

-----------------------------------------------------------------------------
(* The pipe implements a FIFO.                                             *)

\* The queue of the abstract FIFO.
LEMMA QueueIs ==
  ASSUME NEW r \in Nat, sent \in Nat, Holds(r, sent, data, nread, nwrite)
  PROVE  Queue = Bytes(r, sent)
  BY QueueOf DEF Queue, Contents

\* The initial states of Pipe are initial states of Fifo.
LEMMA InitFifo == Init => Stream!FInit
<1>. SUFFICES ASSUME Init PROVE Stream!FInit
  OBVIOUS
<1>1. (nwrite + UINT - nread) % UINT = 0
  BY PipeAssumption DEF Init
<1>2. Queue = <<>>
  BY <1>1 DEF Queue
<1>. QED BY <1>2 DEF Init, Stream!FInit

\* pipewrite accepts the next byte of the stream.
LEMMA RefPut == ASSUME PipeInv, NEW w \in Process, WriteByte(w) PROVE Stream!Put
<1>1. PICK r \in Nat : Holds(r, sent, data, nread, nwrite)
  BY DEF PipeInv, Ring
<1>2. /\ sent \in Nat /\ data \in [0..PIPESIZE - 1 -> Nat] /\ sent # r + PIPESIZE
      /\ sent - r \in 0..PIPESIZE
  <2>1. sent \in Nat /\ data \in [0..PIPESIZE - 1 -> Nat]
    BY DEF PipeInv, PipeType
  <2>2. sent # r + PIPESIZE
    BY <1>1, <2>1, Counters DEF WriteByte, Full
  <2>. QED BY <1>1, <2>1, <2>2 DEF Holds
<1>3. Holds(r, sent', data', nread', nwrite') /\ Bytes(r, sent + 1) = Append(Bytes(r, sent), sent + 1)
  BY <1>1, <1>2, PutByte, Zenon DEF WriteByte
<1>4. sent' = sent + 1 /\ sent' \in Nat /\ sent < MaxBytes
  BY <1>2 DEF WriteByte
<1>5. Queue = Bytes(r, sent)
  BY <1>1, <1>2, QueueIs
<1>6. Queue' = Bytes(r, sent')
  <2>1. Queue' = Contents(data', nread', nwrite')
    BY Zenon DEF Queue, Contents
  <2>2. Contents(data', nread', nwrite') = Bytes(r, sent')
    BY <1>3, <1>4, QueueOf
  <2>. QED BY <2>1, <2>2
<1>7. Queue' = Append(Queue, sent')
  BY <1>3, <1>4, <1>5, <1>6
<1>8. Len(Queue) < PIPESIZE
  <2>1. Len(Bytes(r, sent)) = sent - r
    BY <1>2 DEF Bytes
  <2>. QED BY <1>2, <1>5, <2>1, PipeAssumption
<1>9. writeopen /\ readopen /\ UNCHANGED <<writeopen, readopen>>
  <2>1. w \in Writer /\ pc[w] = "put"
    BY Inside DEF WriteByte
  <2>. QED BY <2>1 DEF PipeInv, Ends, WriteByte
<1>. QED BY <1>4, <1>7, <1>8, <1>9 DEF Stream!Put

\* piperead delivers the oldest byte.
LEMMA RefTake == ASSUME PipeInv, NEW r \in Process, ReadByte(r) PROVE Stream!Take
<1>1. PICK n \in Nat : Holds(n, sent, data, nread, nwrite)
  BY DEF PipeInv, Ring
<1>2. n # sent /\ sent \in Nat
  BY <1>1, Counters DEF ReadByte, Empty, PipeInv, PipeType
<1>3. /\ Holds(n + 1, sent', data', nread', nwrite')
      /\ Bytes(n, sent) # <<>> /\ Bytes(n + 1, sent) = Tail(Bytes(n, sent))
  BY <1>1, <1>2, TakeByte DEF ReadByte
<1>4. sent' = sent
  BY DEF ReadByte
<1>5. Queue = Bytes(n, sent)
  BY <1>1, <1>2, QueueIs
<1>6. Queue' = Bytes(n + 1, sent')
  <2>1. n + 1 \in Nat /\ sent' \in Nat
    BY <1>2, <1>4
  <2>2. Queue' = Contents(data', nread', nwrite')
    BY Zenon DEF Queue, Contents
  <2>3. Contents(data', nread', nwrite') = Bytes(n + 1, sent')
    BY <1>3, <2>1, QueueOf
  <2>. QED BY <2>2, <2>3
<1>7. Queue # <<>> /\ Queue' = Tail(Queue)
  BY <1>3, <1>4, <1>5, <1>6
<1>8. readopen /\ UNCHANGED <<writeopen, readopen>>
  <2>1. r \in Reader /\ pc[r] = "copy"
    BY Inside DEF ReadByte
  <2>. QED BY <2>1 DEF PipeInv, Ends, ReadByte
<1>. QED BY <1>4, <1>7, <1>8 DEF Stream!Take

\* The last close of an end closes it; another close changes nothing.
LEMMA RefClose == ASSUME PipeInv, NEW p \in Process, Close(p)
                  PROVE  Stream!CloseWrite \/ Stream!CloseRead \/ UNCHANGED Stream!fvars
<1>. DEFINE End == IF p \in Writer THEN Writer ELSE Reader
<1>0. pc[p] = "idle" /\ UNCHANGED <<data, nread, nwrite, sent>>
  BY DEF Close
<1>1. Queue' = Queue
  BY <1>0 DEF Queue
<1>2. CASE \E x \in End \ {p} : pc[x] # "closed"
  <2>1. UNCHANGED <<readopen, writeopen>>
    BY <1>2 DEF Close
  <2>. QED BY <1>0, <1>1, <2>1 DEF Stream!fvars
<1>3. CASE \A x \in End \ {p} : pc[x] = "closed"
  <2>1. PipeClose(p, End)
    BY <1>3 DEF Close
  <2>2. CASE p \in Writer
    <3>1. writeopen /\ Writer # Reader
      BY <1>0, <2>2, PipeAssumption DEF PipeInv, Ends
    <3>2. writeopen' = FALSE /\ readopen' = readopen
      BY <2>1, <2>2, <3>1 DEF PipeClose
    <3>. QED BY <1>0, <1>1, <3>1, <3>2 DEF Stream!CloseWrite
  <2>3. CASE p \notin Writer
    <3>1. p \in Reader
      BY <2>3 DEF Process
    <3>2. readopen /\ Writer # Reader
      BY <1>0, <2>3, <3>1, PipeAssumption DEF PipeInv, Ends
    <3>3. readopen' = FALSE /\ writeopen' = writeopen
      BY <2>1, <2>3, <3>2, Zenon DEF PipeClose
    <3>. QED BY <1>0, <1>1, <3>2, <3>3 DEF Stream!CloseRead
  <2>. QED BY <2>2, <2>3
<1>. QED BY <1>2, <1>3

\* Steps that leave the buffer and the ends alone.
LEMMA RefStutter == UNCHANGED pipe => UNCHANGED Stream!fvars
  BY DEF pipe, Stream!fvars, Queue

\* Every step of the pipe is a step of the FIFO or leaves it alone.
LEMMA StepFifo == PipeInv /\ [Next]_vars => [Stream!FNext]_(Stream!fvars)
<1>. SUFFICES ASSUME PipeInv, [Next]_vars PROVE Stream!FNext \/ UNCHANGED Stream!fvars
  OBVIOUS
<1>1. ASSUME NEW p \in Process, WriteByte(p) \/ ReadByte(p) \/ Close(p)
      PROVE  Stream!FNext \/ UNCHANGED Stream!fvars
  BY <1>1, RefPut, RefTake, RefClose DEF Stream!FNext
<1>2. ASSUME NEW p \in Process,
             \/ Call(p) \/ Relock(p) \/ Kill(p)
             \/ WriteAbort(p) \/ WriteCheck(p) \/ WriteSleep(p) \/ WriteDone(p)
             \/ ReadAbort(p) \/ ReadCheck(p) \/ ReadSleep(p) \/ ReadReady(p) \/ ReadDone(p)
      PROVE  UNCHANGED pipe
  BY <1>2 DEF Call, Relock, Kill, WriteAbort, WriteCheck, WriteSleep, WriteDone,
              ReadAbort, ReadCheck, ReadSleep, ReadReady, ReadDone
<1>3. UNCHANGED vars => UNCHANGED pipe
  BY DEF vars, pipe
<1>4. Killable \subseteq Process
  BY PipeAssumption DEF Process
<1>. QED BY <1>1, <1>2, <1>3, <1>4, RefStutter DEF Next, InCall

\* kernel/pipe.c implements a bounded FIFO: bytes come out once each and in
\* the order they went in, through counters that wrap, writers and readers
\* that block, ends that close and processes that are killed.
THEOREM PipeImplementsFifo == Spec => InOrder
  BY InitFifo, StepFifo, PipeInvariant, PTL DEF Spec, InOrder, Stream!FSpec
=============================================================================
