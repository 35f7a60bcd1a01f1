------------------------------- MODULE Virtio -------------------------------
(***************************************************************************)
(* The disk driver of kernel/virtio_disk.c and the device it talks to.     *)
(*                                                                         *)
(* A process has the buffer it transfers to itself (it holds b->lock), so  *)
(* a buffer is named by its process.  What a process does under vdisk_lock *)
(* between two sleeps is one step; the interrupt handler is cut into its   *)
(* acknowledgement and the passes of its loop, since the device works on   *)
(* while it runs.  sleep releases vdisk_lock and wakeup wakes every        *)
(* sleeper on a channel but the caller (module Trap).                      *)
(* The device is external: it takes requests from the avail ring, serves   *)
(* them in any order and reports each in the used ring.                    *)
(***************************************************************************)
EXTENDS Naturals, FiniteSets

CONSTANTS Proc,
          NUM,       \* descriptors, and the length of the rings
          UINT16,    \* the ring indices count modulo this
          None,      \* a null b, no process
          Killable,  \* bound: the processes that are killed, once each
          MaxReq     \* bound: requests made

ASSUME VirtioAssumption ==
  /\ NUM \in Nat /\ NUM >= 3
  /\ UINT16 \in Nat /\ UINT16 >= NUM /\ UINT16 % NUM = 0
  /\ None \notin Proc /\ MaxReq \in Nat /\ Killable \subseteq Proc

Desc == 0..NUM-1
Index == 0..UINT16-1
EndOfChain == NUM          \* a descriptor without VRING_DESC_F_NEXT

VARIABLES
  free,                    \* disk.free
  next,                    \* desc[].next
  addr,                    \* whose buffer a data descriptor points to
  info,                    \* info[].b
  status,                  \* info[].status: TRUE when the device wrote 0
  disk,                    \* b->disk
  availRing, availIdx,     \* disk.avail
  usedRing, usedIdx,       \* disk.used
  used_idx,                \* how far the driver has looked
  seen, taken,             \* device: place in the avail ring; requests being served
  irq,                     \* the interrupt is raised
  intr,                    \* the handler is running and holds vdisk_lock
  pc, head,                \* per process: position, idx[0]
  served,                  \* the device has transferred the process's buffer
  reqs, killed

driver == <<free, next, addr, info, disk, availRing, availIdx>>
device == <<usedRing, usedIdx, seen, taken>>
vars == <<free, next, addr, info, status, disk, availRing, availIdx, usedRing,
          usedIdx, used_idx, seen, taken, irq, intr, pc, head, served, reqs, killed>>

\* virtio_disk_init: the rings are zeroed, every descriptor is free.
Init ==
  /\ free = [d \in Desc |-> TRUE]
  /\ next = [d \in Desc |-> EndOfChain]
  /\ addr = [d \in Desc |-> None]
  /\ info = [d \in Desc |-> None]
  /\ status = [d \in Desc |-> TRUE]
  /\ disk = [p \in Proc |-> FALSE]
  /\ availRing = [d \in Desc |-> 0] /\ availIdx = 0
  /\ usedRing = [d \in Desc |-> 0] /\ usedIdx = 0 /\ used_idx = 0
  /\ seen = 0 /\ taken = {}
  /\ irq = FALSE /\ intr = FALSE
  /\ pc = [p \in Proc |-> "idle"]
  /\ head = [p \in Proc |-> 0]
  /\ served = [p \in Proc |-> FALSE]
  /\ reqs = 0 /\ killed = {}

-----------------------------------------------------------------------------
Inc(n) == (n + 1) % UINT16
FreeDescs == {d \in Desc : free[d]}
\* alloc_desc takes the lowest free descriptor: the k-th call of alloc3_desc.
Kth(k) == CHOOSE d \in FreeDescs : Cardinality({e \in FreeDescs : e < d}) = k - 1

\* wakeup(&disk.free[0]) by p, and wakeup(b).
WakeFree(p) == [q \in Proc |-> IF q # p /\ pc[q] = "nodesc" THEN "alloc" ELSE pc[q]]
WakeBuf(b) == [pc EXCEPT ![b] = IF @ = "asleep" THEN "check" ELSE @]

\* A call of virtio_disk_rw.
Call(p) ==
  /\ pc[p] = "idle" /\ reqs < MaxReq
  /\ reqs' = reqs + 1
  /\ pc' = [pc EXCEPT ![p] = "alloc"]
  /\ served' = [served EXCEPT ![p] = FALSE]
  /\ UNCHANGED <<driver, status, device, used_idx, irq, intr, head, killed>>

\* Mutant: the descriptors obtained before the failure are kept.
AllocFail_Leak(p) ==
  /\ pc[p] = "alloc" /\ ~intr
  /\ Cardinality(FreeDescs) < 3
  /\ pc' = [pc EXCEPT ![p] = "nodesc"]
  /\ free' = [d \in Desc |-> FALSE]
  /\ UNCHANGED <<next, addr, info, status, disk, availRing, availIdx, device,
                 used_idx, irq, intr, head, served, reqs, killed>>

\* alloc3_desc fails and p sleeps.  The one or two descriptors it got first
\* are freed again, which wakes the others that wait for descriptors.
AllocFail(p) ==
  /\ pc[p] = "alloc" /\ ~intr
  /\ Cardinality(FreeDescs) < 3
  /\ pc' = [(IF FreeDescs = {} THEN pc ELSE WakeFree(p)) EXCEPT ![p] = "nodesc"]
  /\ next' = [d \in Desc |-> IF free[d] THEN EndOfChain ELSE next[d]]
  /\ addr' = [d \in Desc |-> IF free[d] THEN None ELSE addr[d]]
  /\ UNCHANGED <<free, info, status, disk, availRing, availIdx, device, used_idx,
                 irq, intr, head, served, reqs, killed>>

\* Mutant: the index is advanced before the ring entry is chosen.
Submit_IdxFirst(p) ==
  /\ pc[p] = "alloc" /\ ~intr
  /\ Cardinality(FreeDescs) >= 3
  /\ LET d1 == Kth(1) d2 == Kth(2) d3 == Kth(3) IN
     /\ free' = [free EXCEPT ![d1] = FALSE, ![d2] = FALSE, ![d3] = FALSE]
     /\ next' = [next EXCEPT ![d1] = d2, ![d2] = d3, ![d3] = EndOfChain]
     /\ addr' = [addr EXCEPT ![d2] = p]
     /\ status' = [status EXCEPT ![d1] = FALSE]
     /\ info' = [info EXCEPT ![d1] = p]
     /\ availRing' = [availRing EXCEPT ![Inc(availIdx) % NUM] = d1]
     /\ head' = [head EXCEPT ![p] = d1]
  /\ disk' = [disk EXCEPT ![p] = TRUE]
  /\ availIdx' = Inc(availIdx)
  /\ pc' = [pc EXCEPT ![p] = "asleep"]
  /\ UNCHANGED <<device, used_idx, irq, intr, served, reqs, killed>>

\* The chain is formatted and its head put in the avail ring; p sleeps on b.
Submit(p) ==
  /\ pc[p] = "alloc" /\ ~intr
  /\ Cardinality(FreeDescs) >= 3
  /\ LET d1 == Kth(1) d2 == Kth(2) d3 == Kth(3) IN
     /\ free' = [free EXCEPT ![d1] = FALSE, ![d2] = FALSE, ![d3] = FALSE]
     /\ next' = [next EXCEPT ![d1] = d2, ![d2] = d3, ![d3] = EndOfChain]
     /\ addr' = [addr EXCEPT ![d2] = p]
     /\ status' = [status EXCEPT ![d1] = FALSE]
     /\ info' = [info EXCEPT ![d1] = p]
     /\ availRing' = [availRing EXCEPT ![availIdx % NUM] = d1]
     /\ head' = [head EXCEPT ![p] = d1]
  /\ disk' = [disk EXCEPT ![p] = TRUE]
  /\ availIdx' = Inc(availIdx)
  /\ pc' = [pc EXCEPT ![p] = "asleep"]
  /\ UNCHANGED <<device, used_idx, irq, intr, served, reqs, killed>>

\* free_chain follows next from the head.
Chain(h) == {h, next[h], next[next[h]]}

\* Mutant: any wakeup is taken for the completion.
Return_NoRecheck(p) ==
  /\ pc[p] = "check" /\ ~intr
  /\ info' = [info EXCEPT ![head[p]] = None]
  /\ free' = [d \in Desc |-> free[d] \/ d \in Chain(head[p])]
  /\ next' = [d \in Desc |-> IF d \in Chain(head[p]) THEN EndOfChain ELSE next[d]]
  /\ addr' = [d \in Desc |-> IF d \in Chain(head[p]) THEN None ELSE addr[d]]
  /\ pc' = [WakeFree(p) EXCEPT ![p] = "idle"]
  /\ UNCHANGED <<status, disk, availRing, availIdx, device, used_idx, irq, intr,
                 head, served, reqs, killed>>

\* Mutant: free_desc does not wake those that wait for descriptors.
Return_NoWakeup(p) ==
  /\ pc[p] = "check" /\ ~intr /\ ~disk[p]
  /\ info' = [info EXCEPT ![head[p]] = None]
  /\ free' = [d \in Desc |-> free[d] \/ d \in Chain(head[p])]
  /\ next' = [d \in Desc |-> IF d \in Chain(head[p]) THEN EndOfChain ELSE next[d]]
  /\ addr' = [d \in Desc |-> IF d \in Chain(head[p]) THEN None ELSE addr[d]]
  /\ pc' = [pc EXCEPT ![p] = "idle"]
  /\ UNCHANGED <<status, disk, availRing, availIdx, device, used_idx, irq, intr,
                 head, served, reqs, killed>>

\* p is awake and b->disk is 0: the chain is freed, virtio_disk_rw returns.
Return(p) ==
  /\ pc[p] = "check" /\ ~intr /\ ~disk[p]
  /\ info' = [info EXCEPT ![head[p]] = None]
  /\ free' = [d \in Desc |-> free[d] \/ d \in Chain(head[p])]
  /\ next' = [d \in Desc |-> IF d \in Chain(head[p]) THEN EndOfChain ELSE next[d]]
  /\ addr' = [d \in Desc |-> IF d \in Chain(head[p]) THEN None ELSE addr[d]]
  /\ pc' = [WakeFree(p) EXCEPT ![p] = "idle"]
  /\ UNCHANGED <<status, disk, availRing, availIdx, device, used_idx, irq, intr,
                 head, served, reqs, killed>>

\* p is awake though the device still owns b: it goes back to sleep.
SleepAgain(p) ==
  /\ pc[p] = "check" /\ ~intr /\ disk[p]
  /\ pc' = [pc EXCEPT ![p] = "asleep"]
  /\ UNCHANGED <<driver, status, device, used_idx, irq, intr, head, served, reqs, killed>>

\* kill makes a sleeping process runnable; virtio_disk_rw ignores p->killed.
Kill(p) ==
  /\ pc[p] \in {"nodesc", "asleep"} /\ p \in Killable \ killed
  /\ killed' = killed \cup {p}
  /\ pc' = [pc EXCEPT ![p] = IF @ = "nodesc" THEN "alloc" ELSE "check"]
  /\ UNCHANGED <<driver, status, device, used_idx, irq, intr, head, served, reqs>>

-----------------------------------------------------------------------------
\* The device takes the next request from the avail ring.
DeviceTake ==
  /\ seen # availIdx
  /\ taken' = taken \cup {availRing[seen % NUM]}
  /\ seen' = Inc(seen)
  /\ UNCHANGED <<driver, status, usedRing, usedIdx, used_idx, irq, intr, pc,
                 head, served, reqs, killed>>

\* The device finishes one of them: transfer, status byte, used ring, interrupt.
DeviceServe(h) ==
  /\ h \in taken
  /\ served' = [p \in Proc |-> served[p] \/ p = addr[next[h]]]
  /\ status' = [status EXCEPT ![h] = TRUE]
  /\ usedRing' = [usedRing EXCEPT ![usedIdx % NUM] = h]
  /\ usedIdx' = Inc(usedIdx)
  /\ taken' = taken \ {h}
  /\ irq' = TRUE
  /\ UNCHANGED <<driver, used_idx, seen, intr, pc, head, reqs, killed>>

\* virtio_disk_intr takes vdisk_lock and acknowledges the interrupt.
IntrAck ==
  /\ irq /\ ~intr
  /\ irq' = FALSE /\ intr' = TRUE
  /\ UNCHANGED <<driver, status, device, used_idx, pc, head, served, reqs, killed>>

\* One pass of its loop.
UsedId == usedRing[used_idx % NUM]
IntrLoop ==
  /\ intr /\ used_idx # usedIdx
  /\ disk' = [disk EXCEPT ![info[UsedId]] = FALSE]
  /\ pc' = WakeBuf(info[UsedId])
  /\ used_idx' = Inc(used_idx)
  /\ UNCHANGED <<free, next, addr, info, availRing, availIdx, status, device,
                 irq, intr, head, served, reqs, killed>>

\* The loop ends and vdisk_lock is released.
IntrDone ==
  /\ intr /\ used_idx = usedIdx
  /\ intr' = FALSE
  /\ UNCHANGED <<driver, status, device, used_idx, irq, pc, head, served, reqs, killed>>

Process(p) == AllocFail(p) \/ Submit(p) \/ SleepAgain(p) \/ Return(p)
Device == DeviceTake \/ \E h \in Desc : DeviceServe(h)
Intr == IntrAck \/ IntrLoop \/ IntrDone
Next == Device \/ Intr \/ \E p \in Proc : Call(p) \/ Process(p) \/ Kill(p)

Spec == Init /\ [][Next]_vars

-----------------------------------------------------------------------------
InFlight == {p \in Proc : pc[p] \in {"asleep", "check"}}

\* Requests in flight own disjoint chains of three descriptors, all others are
\* free: nothing is leaked by a failed alloc3_desc, and free_desc never meets
\* a free descriptor.
DescsOwned ==
  /\ \A p \in InFlight : Cardinality(Chain(head[p])) = 3 /\ EndOfChain \notin Chain(head[p])
  /\ \A p, q \in InFlight : p # q => Chain(head[p]) \cap Chain(head[q]) = {}
  /\ FreeDescs = Desc \ UNION {Chain(head[p]) : p \in InFlight}

\* What the handler is about to report is a request in flight with status 0,
\* which it has not reported before: no panic, no null b.
CompletionMatches ==
  used_idx # usedIdx =>
    /\ status[UsedId] /\ info[UsedId] # None
    /\ disk[info[UsedId]] /\ head[info[UsedId]] = UsedId

\* virtio_disk_rw returns only after the device has transferred the caller's
\* own buffer, in whatever order the device serves the requests and whoever
\* wakes the caller.
ServedBeforeReturn ==
  [][\A p \in Proc : pc[p] # "idle" /\ pc'[p] = "idle" => served[p]]_vars

\* No wakeup is lost between the processes waiting for descriptors, those
\* waiting for their data and the handler: whoever waits for descriptors finds
\* fewer than three free, whoever waits for data has it still outstanding, and
\* a completion the driver has not looked at has its interrupt still to come,
\* or its handler still running.
NoCallStranded ==
  /\ \A p \in Proc :
       /\ pc[p] = "nodesc" => Cardinality(FreeDescs) < 3
       /\ pc[p] = "asleep" => disk[p]
  /\ used_idx # usedIdx => irq \/ intr
=============================================================================
