------------------------------ MODULE Console ------------------------------
(***************************************************************************)
(* kernel/console.c over kernel/uart.c: processes that read and write the  *)
(* console, the UART's interrupt handler and the UART.                     *)
(*                                                                         *)
(* A spin lock is its holder; each round of a loop and each access to a    *)
(* UART register is a step.  sleep and wakeup are atomic (see Trap).       *)
(* A character given to uartputc is its number, uart_tx_w; characters      *)
(* that the kernel echoes go to the UART without uart_tx_lock and are all  *)
(* Echo.  The UART is external: a transmit FIFO that reports idle when it  *)
(* is empty and raises its interrupt then, and received characters.        *)
(***************************************************************************)
EXTENDS Naturals, Sequences

CONSTANTS Reader, Writer,
          Intr,            \* uartintr, on the one CPU that claimed the interrupt
          None,            \* a lock is free
          INPUT_BUF_SIZE,
          UINT,            \* r, w and e count modulo this (2^32 in the code)
          UART_TX_BUF_SIZE,
          FIFO,            \* length of the UART's transmit FIFO (16)
          UINT64,          \* uart_tx_w and uart_tx_r count modulo this (2^64)
          MaxN             \* bound: characters asked for in one read

ASSUME ConsoleAssumption ==
  /\ INPUT_BUF_SIZE \in Nat \ {0} /\ UINT \in Nat
  /\ UINT > INPUT_BUF_SIZE /\ UINT % INPUT_BUF_SIZE = 0
  /\ UART_TX_BUF_SIZE \in Nat \ {0} /\ FIFO \in Nat \ {0}
  /\ UINT64 \in Nat /\ UINT64 > UART_TX_BUF_SIZE + FIFO /\ UINT64 % UART_TX_BUF_SIZE = 0
  /\ MaxN \in Nat
  /\ Reader \cap Writer = {} /\ {Intr, None} \cap (Reader \cup Writer) = {} /\ Intr # None

\* What is typed; ^D, ^H and ^U.  NUL is ignored and ^P prints the processes:
\* neither changes anything here.
Key == {"a", "cr", "eof", "bs", "line"}
Char == {"a", "nl", "eof"}                 \* what is stored
Number == 0..UINT64-1                      \* of a character given to uartputc
Echo == UINT64
Thread == Reader \cup Writer \cup {Intr}

VARIABLES
  buf, r, w, e,            \* cons
  clock,                   \* holder of cons.lock
  tx, txw, txr,            \* uart_tx_buf, uart_tx_w, uart_tx_r
  tlock,                   \* holder of uart_tx_lock
  pc,
  n, target,               \* of a consoleread
  killed,
  key, echo, idle,         \* uartintr: its c, characters still to echo, LSR seen idle
  rx, fifo, thre,          \* UART: received, being sent, transmit interrupt raised
  sent                     \* history: uartputc characters that went out

cons == <<buf, r, w, e>>
out == <<tx, txw, txr, tlock>>
uart == <<rx, fifo, thre, sent>>
vars == <<buf, r, w, e, clock, tx, txw, txr, tlock, pc, n, target, killed, key,
          echo, idle, rx, fifo, thre, sent>>

\* consoleinit, uartinit.
Init ==
  /\ buf = [k \in 0..INPUT_BUF_SIZE-1 |-> "a"]
  /\ r = 0 /\ w = 0 /\ e = 0 /\ clock = None
  /\ tx = [k \in 0..UART_TX_BUF_SIZE-1 |-> Echo] /\ txw = 0 /\ txr = 0 /\ tlock = None
  /\ pc = [p \in Thread |-> "idle"]
  /\ n = [p \in Reader |-> 0] /\ target = [p \in Reader |-> 0]
  /\ killed = [p \in Reader |-> FALSE]
  /\ key = "a" /\ echo = 0 /\ idle = FALSE
  /\ rx = <<>> /\ fifo = <<>> /\ thre = FALSE /\ sent = 0

-----------------------------------------------------------------------------
Goto(p, l) == pc' = [pc EXCEPT ![p] = l]
\* pc after wakeup of the sleepers among S, with p going to l.
Wakeup(S, p, l) ==
  pc' = [x \in Thread |-> IF x = p THEN l
                          ELSE IF x \in S /\ pc[x] = "asleep" THEN "woken"
                          ELSE pc[x]]

Inc(k) == (k + 1) % UINT
Dec(k) == (k + UINT - 1) % UINT
Diff(a, b) == (a + UINT - b) % UINT     \* a - b of unsigned ints

-----------------------------------------------------------------------------
\* consoleread: acquire(&cons.lock), at the call and when sleep returns.
ReadCall(p) ==
  /\ pc[p] = "idle" /\ clock = None
  /\ \E k \in 1..MaxN : n' = [n EXCEPT ![p] = k] /\ target' = [target EXCEPT ![p] = k]
  /\ clock' = p
  /\ Goto(p, "read")
  /\ UNCHANGED <<cons, out, killed, key, echo, idle, uart>>

Relock(p) ==
  /\ pc[p] = "woken" /\ clock = None
  /\ clock' = p
  /\ Goto(p, "read")
  /\ UNCHANGED <<cons, out, n, target, killed, key, echo, idle, uart>>

\* release(&cons.lock) and return (n and target go out of scope); a killed process exits on its way out.
Return(p) ==
  /\ clock' = None
  /\ Goto(p, IF killed[p] THEN "exited" ELSE "idle")
  /\ n' = [n EXCEPT ![p] = 0] /\ target' = [target EXCEPT ![p] = 0]

\* Nothing to read: return -1 when killed, else go to sleep.
ReadEmpty(p) ==
  /\ pc[p] = "read" /\ n[p] > 0 /\ r = w
  /\ \/ killed[p] /\ Return(p)
     \/ ~killed[p] /\ Goto(p, "tosleep") /\ UNCHANGED <<clock, n, target>>
  /\ UNCHANGED <<cons, out, killed, key, echo, idle, uart>>

ReadSleep(p) ==
  /\ pc[p] = "tosleep"
  /\ clock' = None
  /\ Goto(p, "asleep")
  /\ UNCHANGED <<cons, out, n, target, killed, key, echo, idle, uart>>

\* ^D: it ends the read, and stays for the next one if this one has characters.
ReadEof(p) ==
  /\ pc[p] = "read" /\ n[p] > 0 /\ r # w
  /\ buf[r % INPUT_BUF_SIZE] = "eof"
  /\ r' = IF n[p] < target[p] THEN r ELSE Inc(r)
  /\ Return(p)
  /\ UNCHANGED <<buf, w, e, out, killed, key, echo, idle, uart>>

\* One character.  The read ends here if it is a newline or if either_copyout
\* fails, with the character gone.
ReadChar(p) ==
  /\ pc[p] = "read" /\ n[p] > 0 /\ r # w
  /\ buf[r % INPUT_BUF_SIZE] # "eof"
  /\ r' = Inc(r)
  /\ \/ Return(p)
     \/ /\ buf[r % INPUT_BUF_SIZE] # "nl"
        /\ n' = [n EXCEPT ![p] = @ - 1]
        /\ UNCHANGED <<clock, pc, target>>
  /\ UNCHANGED <<buf, w, e, out, killed, key, echo, idle, uart>>

ReadDone(p) ==
  /\ pc[p] = "read" /\ n[p] = 0
  /\ Return(p)
  /\ UNCHANGED <<cons, out, killed, key, echo, idle, uart>>

\* kill: a reader asleep becomes runnable.
Kill(p) ==
  /\ ~killed[p]
  /\ killed' = [killed EXCEPT ![p] = TRUE]
  /\ Goto(p, IF pc[p] = "asleep" THEN "woken" ELSE pc[p])
  /\ UNCHANGED <<cons, clock, out, n, target, key, echo, idle, uart>>

-----------------------------------------------------------------------------
\* uartputc, once per character of a consolewrite: sleep while the ring is full,
\* then put it there and call uartstart.
Full == txw = (txr + UART_TX_BUF_SIZE) % UINT64

PutSleep(p) ==
  /\ pc[p] \in {"idle", "woken"}
  /\ tlock = None /\ Full
  /\ Goto(p, "asleep")
  /\ UNCHANGED <<cons, clock, out, n, target, killed, key, echo, idle, uart>>

Put(p) ==
  /\ pc[p] \in {"idle", "woken"}
  /\ tlock = None /\ ~Full
  /\ tx' = [tx EXCEPT ![txw % UART_TX_BUF_SIZE] = txw]
  /\ txw' = (txw + 1) % UINT64
  /\ tlock' = p
  /\ Goto(p, "start")
  /\ UNCHANGED <<cons, clock, txr, n, target, killed, key, echo, idle, uart>>

-----------------------------------------------------------------------------
\* Mutant: LSR is not tested.
StartTake_NoTest(p) ==
  /\ pc[p] = "start" /\ txr # txw
  /\ txr' = (txr + 1) % UINT64
  /\ Wakeup(Writer, p, "thr")
  /\ UNCHANGED <<cons, clock, tx, txw, tlock, n, target, killed, key, echo, idle, uart>>

\* uartstart, called by a writer or by uartintr with uart_tx_lock held: take a
\* character if the UART is idle, and wake the writers.
StartTake(p) ==
  /\ pc[p] = "start" /\ txr # txw /\ fifo = <<>>
  /\ txr' = (txr + 1) % UINT64
  /\ Wakeup(Writer, p, "thr")
  /\ UNCHANGED <<cons, clock, tx, txw, tlock, n, target, killed, key, echo, idle, uart>>

\* A write to the transmit register; the UART drops it when its FIFO is full.
SendChar(c) == fifo' = IF Len(fifo) < FIFO THEN Append(fifo, c) ELSE fifo

LastTaken == tx[((txr + UINT64 - 1) % UINT64) % UART_TX_BUF_SIZE]
\* The character taken last goes into the transmit register.
StartPut(p) ==
  /\ pc[p] = "thr"
  /\ SendChar(LastTaken)
  /\ Goto(p, "start")
  /\ UNCHANGED <<cons, clock, out, n, target, killed, key, echo, idle, rx, thre, sent>>

\* Nothing to send, or the UART is busy; the caller releases uart_tx_lock.
StartDone(p) ==
  /\ pc[p] = "start" /\ (txr = txw \/ fifo # <<>>)
  /\ tlock' = None
  /\ Goto(p, "idle")
  /\ UNCHANGED <<cons, clock, tx, txw, txr, n, target, killed, key, echo, idle, uart>>

-----------------------------------------------------------------------------
\* The interrupt is claimed.
IntrBegin ==
  /\ pc[Intr] = "idle" /\ (rx # <<>> \/ thre)
  /\ thre' = FALSE
  /\ Goto(Intr, "getc")
  /\ UNCHANGED <<cons, clock, out, n, target, killed, key, echo, idle, rx, fifo, sent>>

\* uartintr: uartgetc returns a character.
Getc ==
  /\ pc[Intr] = "getc" /\ rx # <<>>
  /\ key' = Head(rx) /\ rx' = Tail(rx)
  /\ Goto(Intr, "cons")
  /\ UNCHANGED <<cons, clock, out, n, target, killed, echo, idle, fifo, thre, sent>>

\* uartintr: no more input; send what is buffered.
IntrStart ==
  /\ pc[Intr] = "getc" /\ rx = <<>> /\ tlock = None
  /\ tlock' = Intr
  /\ Goto(Intr, "start")
  /\ UNCHANGED <<cons, clock, tx, txw, txr, n, target, killed, key, echo, idle, uart>>

\* consoleintr: acquire(&cons.lock).
ConsLock ==
  /\ pc[Intr] = "cons" /\ clock = None
  /\ clock' = Intr
  /\ Goto(Intr, "switch")
  /\ UNCHANGED <<cons, out, n, target, killed, key, echo, idle, uart>>

\* Mutant: what readers have not taken yet can be erased.
CanErase_Committed ==
  \/ key = "bs" /\ e # r
  \/ key = "line" /\ e # r /\ buf[Dec(e) % INPUT_BUF_SIZE] # "nl"

\* ^U and ^H may take a character of the line that is being edited.
CanErase ==
  \/ key = "bs" /\ e # w
  \/ key = "line" /\ e # w /\ buf[Dec(e) % INPUT_BUF_SIZE] # "nl"

\* It goes, and BACKSPACE sends three to the UART; ^U goes on, ^H is done.
EraseChar ==
  /\ pc[Intr] = "switch" /\ echo = 0 /\ CanErase
  /\ e' = Dec(e)
  /\ echo' = 3
  /\ Goto(Intr, IF key = "bs" THEN "break" ELSE "switch")
  /\ UNCHANGED <<buf, r, w, clock, out, n, target, killed, key, idle, uart>>

\* Other keys, if there is room: \r counts as \n, and it is echoed.
CanStore == key \notin {"bs", "line"} /\ Diff(e, r) < INPUT_BUF_SIZE
StoreEcho ==
  /\ pc[Intr] = "switch" /\ CanStore
  /\ key' = IF key = "cr" THEN "nl" ELSE key
  /\ echo' = 1
  /\ Goto(Intr, "store")
  /\ UNCHANGED <<cons, clock, out, n, target, killed, idle, uart>>

\* Mutant: a full buffer is handed over without a wakeup.
Store_WakeOnLine ==
  /\ pc[Intr] = "store" /\ echo = 0
  /\ buf' = [buf EXCEPT ![e % INPUT_BUF_SIZE] = key]
  /\ e' = Inc(e)
  /\ w' = IF key \in {"nl", "eof"} \/ Diff(e', r) = INPUT_BUF_SIZE THEN e' ELSE w
  /\ IF key \in {"nl", "eof"} THEN Wakeup(Reader, Intr, "break") ELSE Goto(Intr, "break")
  /\ UNCHANGED <<r, clock, out, n, target, killed, key, echo, idle, uart>>

\* It is stored; a finished line, or a full buffer, is handed to the readers.
Store ==
  /\ pc[Intr] = "store" /\ echo = 0
  /\ buf' = [buf EXCEPT ![e % INPUT_BUF_SIZE] = key]
  /\ e' = Inc(e)
  /\ IF key \in {"nl", "eof"} \/ Diff(e', r) = INPUT_BUF_SIZE
     THEN w' = e' /\ Wakeup(Reader, Intr, "break")
     ELSE Goto(Intr, "break") /\ UNCHANGED w
  /\ UNCHANGED <<r, clock, out, n, target, killed, key, echo, idle, uart>>

\* Nothing (more) to do for this key; release(&cons.lock).  c goes out of scope.
ConsDone ==
  /\ echo = 0
  /\ \/ pc[Intr] = "break"
     \/ pc[Intr] = "switch" /\ ~CanErase /\ ~CanStore
  /\ clock' = None
  /\ key' = "a"
  /\ Goto(Intr, "getc")
  /\ UNCHANGED <<cons, out, n, target, killed, echo, idle, uart>>

\* consputc, uartputc_sync: wait for an idle UART, then write to it.  Neither
\* is under uart_tx_lock.
SyncWait ==
  /\ echo > 0 /\ ~idle /\ fifo = <<>>
  /\ idle' = TRUE
  /\ UNCHANGED <<cons, clock, out, pc, n, target, killed, key, echo, uart>>

SyncPut ==
  /\ idle
  /\ SendChar(Echo)
  /\ echo' = echo - 1 /\ idle' = FALSE
  /\ UNCHANGED <<cons, clock, out, pc, n, target, killed, key, rx, thre, sent>>

-----------------------------------------------------------------------------
\* The UART receives a character; it holds one.
Receive ==
  /\ rx = <<>>
  /\ \E k \in Key : rx' = <<k>>
  /\ UNCHANGED <<cons, clock, out, pc, n, target, killed, key, echo, idle, fifo, thre, sent>>

\* It sends one, and interrupts when there is nothing left.
Transmit ==
  /\ fifo # <<>>
  /\ fifo' = Tail(fifo)
  /\ sent' = IF Head(fifo) = Echo THEN sent ELSE (Head(fifo) + 1) % UINT64
  /\ thre' = (thre \/ fifo' = <<>>)
  /\ UNCHANGED <<cons, clock, out, pc, n, target, killed, key, echo, idle, rx>>

-----------------------------------------------------------------------------
Read(p) ==
  ReadEmpty(p) \/ ReadSleep(p) \/ ReadEof(p) \/ ReadChar(p) \/ ReadDone(p)
Start(p) == StartTake(p) \/ StartPut(p) \/ StartDone(p)
Handler ==
  \/ Getc \/ IntrStart \/ ConsLock \/ EraseChar \/ StoreEcho \/ Store \/ ConsDone
  \/ SyncWait \/ SyncPut \/ Start(Intr)

Next ==
  \/ \E p \in Reader : ReadCall(p) \/ Relock(p) \/ Read(p) \/ Kill(p)
  \/ \E p \in Writer : PutSleep(p) \/ Put(p) \/ Start(p)
  \/ IntrBegin \/ Handler \/ Receive \/ Transmit

Spec == Init /\ [][Next]_vars

-----------------------------------------------------------------------------
\* The part of the input ring between two indices.
Part(from, to) ==
  [k \in 1..Diff(to, from) |-> buf[((from + k - 1) % UINT) % INPUT_BUF_SIZE]]
Line == INSTANCE Tty WITH Size <- INPUT_BUF_SIZE, Ends <- {"nl", "eof"},
                          edit <- Part(w, e), input <- Part(r, w)
\* consoleread and consoleintr implement line editing over one ring with three
\* wrapping indices: nothing is lost, overwritten or erased once handed over.
LineDiscipline == Line!TSpec

\* No reader sleeps beside a line, or a full buffer, that was handed over; no
\* writer beside room in the transmit ring; and no character stays in that ring
\* without the UART still sending, or an interrupt raised or being handled, that
\* makes uartstart go on.
NoneStranded ==
  /\ clock = None => \A p \in Reader : pc[p] = "asleep" => r = w
  /\ tlock = None => \A p \in Writer : pc[p] = "asleep" => Full
  /\ tlock = None /\ txr # txw => fifo # <<>> \/ thre \/ pc[Intr] # "idle"

\* The characters of write() in order of uartputc: on their way through the
\* FIFO, taken from the ring by uartstart and not yet there, still in the ring.
Diff64(a, b) == (a + UINT64 - b) % UINT64
Taken == IF \E p \in Thread : pc[p] = "thr" THEN <<LastTaken>> ELSE <<>>
Ring == [k \in 1..Diff64(txw, txr) |-> tx[((txr + k - 1) % UINT64) % UART_TX_BUF_SIZE]]
\* What processes write comes out once and in order, although the kernel's own
\* output bypasses the ring and its lock: uartputc_sync and uartstart may both
\* find the UART idle, and its FIFO has room for what they then send.
SentInOrder ==
  SelectSeq(fifo, LAMBDA c : c # Echo) \o Taken \o Ring =
    [k \in 1..Diff64(txw, sent) |-> (sent + k - 1) % UINT64]
=============================================================================
