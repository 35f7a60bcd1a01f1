---------------------------- MODULE VirtioProofs ----------------------------
(***************************************************************************)
(* Proofs about Virtio, for any number of processes, any number of         *)
(* descriptors and any width of the ring indices that it divides.          *)
(*                                                                         *)
(* What the properties say of one moment depends on where every request    *)
(* is.  VirtioInv adds the rings: between the index the device has seen    *)
(* and the one the driver has written, between the index the driver has    *)
(* looked at and the one the device has written, and in the device, are    *)
(* the heads of requests in flight, none of them twice.  The indices wrap, *)
(* so they are read as counters a <= b and c <= e that do not.  That a     *)
(* ring is never overrun follows: the heads in it are different            *)
(* descriptors, and the one being added is not among them.                 *)
(***************************************************************************)
EXTENDS Virtio, Counters

Pcs == {"idle", "alloc", "nodesc", "asleep", "check"}

DescTypes ==
  /\ free \in [Desc -> BOOLEAN] /\ next \in [Desc -> 0..NUM]
  /\ addr \in [Desc -> Proc \cup {None}] /\ info \in [Desc -> Proc \cup {None}]
RingTypes ==
  /\ availRing \in [Desc -> Desc] /\ usedRing \in [Desc -> Desc]
  /\ status \in [Desc -> BOOLEAN] /\ taken \subseteq Desc
ProcTypes ==
  /\ pc \in [Proc -> Pcs] /\ head \in [Proc -> Desc]
  /\ disk \in [Proc -> BOOLEAN] /\ served \in [Proc -> BOOLEAN]
Types == DescTypes /\ RingTypes /\ ProcTypes

\* p's request is in flight: its chain is three descriptors of its own.
Flying(p) == pc[p] \in {"asleep", "check"}
Second(p) == next[head[p]]
Third(p) == next[Second(p)]
OwnsChain(p) ==
  /\ Second(p) \in Desc /\ Third(p) \in Desc
  /\ head[p] # Second(p) /\ head[p] # Third(p) /\ Second(p) # Third(p)
  /\ ~free[head[p]] /\ ~free[Second(p)] /\ ~free[Third(p)]
  /\ info[head[p]] = p /\ addr[Second(p)] = p
Of(p) == {head[p], Second(p), Third(p)}
Chains ==
  /\ \A p \in Proc : Flying(p) => OwnsChain(p)
  /\ \A p, q \in Proc : Flying(p) /\ Flying(q) /\ p # q => Of(p) \cap Of(q) = {}
  /\ \A d \in Desc : ~free[d] => \E p \in Proc : Flying(p) /\ d \in Of(p)

\* The process wakes up for its data: it sleeps only while the device owes it,
\* and gets it from the device.
Data == \A p \in Proc : (pc[p] = "asleep" => disk[p]) /\ (Flying(p) /\ ~disk[p] => served[p])

\* h is the head of a request the driver has not been told about.
Req(h) == info[h] \in Proc /\ Flying(info[h]) /\ head[info[h]] = h /\ disk[info[h]]

\* Where these requests are.
Avail(k) == availRing[k % NUM]
Used(k) == usedRing[k % NUM]
Indices(a, b, c, e) ==
  /\ a <= b /\ seen = a % UINT16 /\ availIdx = b % UINT16
  /\ c <= e /\ used_idx = c % UINT16 /\ usedIdx = e % UINT16
Places(a, b, c, e) ==
  /\ \A k \in a..b - 1 : Req(Avail(k)) /\ Avail(k) \notin taken
  /\ \A h \in taken : Req(h)
  /\ \A k \in c..e - 1 : Req(Used(k)) /\ Used(k) \notin taken /\ status[Used(k)] /\ served[info[Used(k)]]
Once(a, b, c, e) ==
  /\ \A k, l \in a..b - 1 : Avail(k) = Avail(l) => k = l
  /\ \A k, l \in c..e - 1 : Used(k) = Used(l) => k = l
  /\ \A k \in a..b - 1 : \A l \in c..e - 1 : Avail(k) # Used(l)
Rings == \E a, b, c, e \in Nat : Indices(a, b, c, e) /\ Places(a, b, c, e) /\ Once(a, b, c, e)

\* Who waits for descriptors finds too few, and a completion has its interrupt
\* or its handler.
Waits ==
  /\ \A p \in Proc : pc[p] = "nodesc" => Cardinality(FreeDescs) < 3
  /\ used_idx # usedIdx => irq \/ intr

VirtioInv == Types /\ Chains /\ Data /\ Rings /\ Waits

-----------------------------------------------------------------------------
\* The constants, and where a counter's slot is.
LEMMA Facts ==
  /\ NUM \in Nat \ {0} /\ UINT16 \in Nat \ {0} /\ UINT16 % NUM = 0
  /\ \A k \in Nat : k % NUM \in Desc
  BY VirtioAssumption DEF Desc

\* What the ring slots hold are descriptors.
LEMMA SlotIn ==
  ASSUME RingTypes, NEW k \in Nat
  PROVE  Avail(k) \in Desc /\ Used(k) \in Desc
  BY Zenon, Facts DEF RingTypes, Avail, Used

\* A wrapped counter counts on, and finds the slot of the unwrapped one.
LEMMA Wrapped ==
  ASSUME NEW k \in Nat
  PROVE  Inc(k % UINT16) = (k + 1) % UINT16 /\ (k % UINT16) % NUM = k % NUM
<1>1. k \in Int /\ 1 \in Int
  OBVIOUS
<1>. QED BY <1>1, Facts, ModPlus, ModMod, ZenonT(30) DEF Inc

\* virtio_disk_init establishes the invariant.
LEMMA InitVirtio == Init => VirtioInv
<1>. SUFFICES ASSUME Init PROVE VirtioInv
  OBVIOUS
<1>1. 0 \in Desc /\ EndOfChain \in 0..NUM
  BY Facts DEF Desc, EndOfChain
<1>2. Types
  BY Zenon, <1>1 DEF Init, Types, DescTypes, RingTypes, ProcTypes, Pcs
<1>3. Chains /\ Data
  BY Zenon DEF Init, Chains, Data, Flying
<1>4. Waits
  BY Zenon DEF Init, Waits
<1>5. Indices(0, 0, 0, 0)
  BY Facts DEF Init, Indices
<1>6. Places(0, 0, 0, 0) /\ Once(0, 0, 0, 0)
  BY DEF Init, Places, Once
<1>. QED BY <1>2, <1>3, <1>4, <1>5, <1>6 DEF VirtioInv, Rings

-----------------------------------------------------------------------------
\* Steps that leave the descriptors alone.
LEMMA ChainsSame ==
  ASSUME Chains, UNCHANGED <<free, next, addr, info, head>>, \A p \in Proc : Flying(p)' <=> Flying(p)
  PROVE  Chains'
<1>1. \A p : OwnsChain(p)' <=> OwnsChain(p)
  BY Zenon DEF OwnsChain, Second, Third
<1>2. \A p : Of(p)' = Of(p)
  BY Zenon DEF Of, Second, Third
<1>. QED BY Zenon, <1>1, <1>2 DEF Chains

\* Steps that leave the rings alone, and every request where it is.
Keeps(h) ==
  Req(h) => Req(h)' /\ (status[h] => status'[h]) /\ (served[info[h]] => served'[info'[h]])

\* Such a step keeps the rings.
LEMMA RingsSame ==
  ASSUME Types, Rings, \A h \in Desc : Keeps(h),
         UNCHANGED <<availRing, availIdx, usedRing, usedIdx, used_idx, seen, taken>>
  PROVE  Rings'
<1>1. PICK a \in Nat, b \in Nat, c \in Nat, e \in Nat : Indices(a, b, c, e) /\ Places(a, b, c, e) /\ Once(a, b, c, e)
  BY Zenon DEF Rings
<1>2. \A k : Avail(k)' = Avail(k) /\ Used(k)' = Used(k)
  BY Zenon DEF Avail, Used
<1>3. Indices(a, b, c, e)' /\ Once(a, b, c, e)'
  BY Zenon, <1>1, <1>2 DEF Indices, Once
<1>4. Places(a, b, c, e)'
  <2>1. \A k \in a..b - 1 : k \in Nat
    OBVIOUS
  <2>2. \A k \in c..e - 1 : k \in Nat
    OBVIOUS
  <2>3. \A k \in a..b - 1 : Req(Avail(k))' /\ Avail(k)' \notin taken'
    BY Zenon, <1>1, <1>2, <2>1, SlotIn DEF Places, Keeps, Types
  <2>4. \A h \in taken' : Req(h)'
    BY Zenon, <1>1 DEF Places, Keeps, Types, RingTypes
  <2>5. ASSUME NEW k \in c..e - 1
        PROVE  Req(Used(k))' /\ Used(k)' \notin taken' /\ status'[Used(k)'] /\ served'[info'[Used(k)']]
    <3>1. /\ Used(k) \in Desc /\ Used(k)' = Used(k) /\ Req(Used(k)) /\ Used(k) \notin taken
          /\ status[Used(k)] /\ served[info[Used(k)]]
      BY Zenon, <1>1, <1>2, <2>2, SlotIn DEF Places, Types
    <3>. QED BY Zenon, <3>1 DEF Keeps
  <2>. QED BY Zenon, <2>3, <2>4, <2>5 DEF Places
<1>. QED BY Zenon, <1>3, <1>4 DEF Rings

\* A step that touches no request in flight, except to serve it, leaves every request where it is.
LEMMA KeepsSame ==
  ASSUME UNCHANGED <<info, head, disk, status>>, \A p \in Proc : Flying(p)' <=> Flying(p),
         \A p \in Proc : Flying(p) /\ served[p] => served'[p]
  PROVE  \A h \in Desc : Keeps(h)
  BY Zenon DEF Keeps, Req

\* A call of virtio_disk_rw.
LEMMA CallStep == ASSUME VirtioInv, NEW p \in Proc, Call(p) PROVE VirtioInv'
<1>1. /\ UNCHANGED <<free, next, addr, info, head, disk, status>> /\ ~Flying(p) /\ ~Flying(p)'
      /\ UNCHANGED <<availRing, availIdx, usedRing, usedIdx, used_idx, seen, taken>>
      /\ UNCHANGED <<irq, intr>> /\ pc'[p] = "alloc"
  BY Zenon DEF Call, Flying, VirtioInv, Types, ProcTypes, driver, device
<1>2. \A q \in Proc : q # p => pc'[q] = pc[q] /\ served'[q] = served[q]
  BY Zenon DEF Call, VirtioInv, Types, ProcTypes
<1>3. \A q \in Proc : Flying(q)' <=> Flying(q)
  BY Zenon, <1>1, <1>2 DEF Flying
<1>4. Types'
  <2>1. pc' \in [Proc -> Pcs] /\ served' \in [Proc -> BOOLEAN]
    BY DEF Call, Pcs, VirtioInv, Types, ProcTypes
  <2>. QED BY Zenon, <1>1, <2>1 DEF VirtioInv, Types, DescTypes, RingTypes, ProcTypes
<1>5. Chains'
  BY Zenon, <1>1, <1>3, ChainsSame DEF VirtioInv
<1>6. Data'
  BY Zenon, <1>1, <1>2, <1>3 DEF VirtioInv, Data
<1>7. Rings'
  BY Zenon, <1>1, <1>2, <1>3, KeepsSame, RingsSame DEF VirtioInv
<1>8. Waits'
  BY Zenon, <1>1, <1>2 DEF VirtioInv, Waits, FreeDescs
<1>. QED BY Zenon, <1>4, <1>5, <1>6, <1>7, <1>8 DEF VirtioInv

\* A process goes back to sleep while the device owns b, or is woken by kill.
LEMMA SleepKillStep == ASSUME VirtioInv, NEW p \in Proc, SleepAgain(p) \/ Kill(p) PROVE VirtioInv'
<1>1. /\ UNCHANGED <<free, next, addr, info, head, disk, status, served>>
      /\ UNCHANGED <<availRing, availIdx, usedRing, usedIdx, used_idx, seen, taken>>
      /\ UNCHANGED <<irq, intr>>
  BY Zenon DEF SleepAgain, Kill, driver, device
<1>2. \A q \in Proc : q # p => pc'[q] = pc[q]
  BY Zenon DEF SleepAgain, Kill, VirtioInv, Types, ProcTypes
<1>3. \/ pc[p] = "check" /\ pc'[p] = "asleep" /\ disk[p]
      \/ pc[p] = "nodesc" /\ pc'[p] = "alloc"
      \/ pc[p] = "asleep" /\ pc'[p] = "check"
  BY Zenon DEF SleepAgain, Kill, VirtioInv, Types, ProcTypes
<1>4. \A q \in Proc : Flying(q)' <=> Flying(q)
  BY Zenon, <1>2, <1>3 DEF Flying
<1>5. Types'
  <2>1. pc' \in [Proc -> Pcs]
    BY DEF SleepAgain, Kill, Pcs, VirtioInv, Types, ProcTypes
  <2>. QED BY Zenon, <1>1, <2>1 DEF VirtioInv, Types, DescTypes, RingTypes, ProcTypes
<1>6. Chains'
  BY Zenon, <1>1, <1>4, ChainsSame DEF VirtioInv
<1>7. Data'
  BY Zenon, <1>1, <1>2, <1>3, <1>4 DEF VirtioInv, Data
<1>8. Rings'
  BY Zenon, <1>1, <1>4, KeepsSame, RingsSame DEF VirtioInv
<1>9. Waits'
  BY Zenon, <1>1, <1>2, <1>3 DEF VirtioInv, Waits, FreeDescs
<1>. QED BY Zenon, <1>5, <1>6, <1>7, <1>8, <1>9 DEF VirtioInv

\* The handler takes the lock and acknowledges, or finds nothing more and
\* releases the lock.
LEMMA IntrStep == ASSUME VirtioInv, IntrAck \/ IntrDone PROVE VirtioInv'
<1>1. /\ UNCHANGED <<free, next, addr, info, head, disk, status, served, pc>>
      /\ UNCHANGED <<availRing, availIdx, usedRing, usedIdx, used_idx, seen, taken>>
  BY Zenon DEF IntrAck, IntrDone, driver, device
<1>2. used_idx' # usedIdx' => irq' \/ intr'
  BY Zenon, <1>1 DEF IntrAck, IntrDone
<1>3. \A q \in Proc : Flying(q)' <=> Flying(q)
  BY Zenon, <1>1 DEF Flying
<1>4. Types' /\ Data'
  BY Zenon, <1>1, <1>3 DEF VirtioInv, Types, DescTypes, RingTypes, ProcTypes, Data
<1>5. Chains'
  BY Zenon, <1>1, <1>3, ChainsSame DEF VirtioInv
<1>6. Rings'
  BY Zenon, <1>1, <1>3, KeepsSame, RingsSame DEF VirtioInv
<1>7. Waits'
  BY Zenon, <1>1, <1>2 DEF VirtioInv, Waits, FreeDescs
<1>. QED BY Zenon, <1>4, <1>5, <1>6, <1>7 DEF VirtioInv

-----------------------------------------------------------------------------
\* A chain whose descriptors a step leaves alone.
LEMMA ChainKept ==
  ASSUME NEW q, OwnsChain(q), head'[q] = head[q],
         \A d \in Of(q) : next'[d] = next[d] /\ addr'[d] = addr[d] /\ info'[d] = info[d] /\ ~free'[d]
  PROVE  OwnsChain(q)' /\ Of(q)' = Of(q)
<1>1. head[q] \in Of(q) /\ Second(q) \in Of(q) /\ Third(q) \in Of(q)
  BY Zenon DEF Of
<1>2. Second(q)' = Second(q)
  <2>1. next'[head[q]] = next[head[q]]
    BY Zenon, <1>1
  <2>. QED BY Zenon, <2>1 DEF Second
<1>3. Third(q)' = Third(q)
  BY Zenon, <1>1, <1>2 DEF Third
<1>4. Of(q)' = Of(q)
  BY Zenon, <1>2, <1>3 DEF Of
<1>5. OwnsChain(q)'
  BY Zenon, <1>1, <1>2, <1>3 DEF OwnsChain
<1>. QED BY <1>4, <1>5

\* alloc3_desc fails.
LEMMA AllocFailStep == ASSUME VirtioInv, NEW p \in Proc, AllocFail(p) PROVE VirtioInv'
<1>1. /\ UNCHANGED <<free, info, head, disk, status, served>> /\ pc[p] = "alloc" /\ pc'[p] = "nodesc"
      /\ UNCHANGED <<availRing, availIdx, usedRing, usedIdx, used_idx, seen, taken>>
      /\ UNCHANGED <<irq, intr>>
  BY DEF AllocFail, device, WakeFree, VirtioInv, Types, ProcTypes
<1>2. \A q \in Proc : q # p => pc'[q] = pc[q] \/ (pc[q] = "nodesc" /\ pc'[q] = "alloc")
  BY Zenon DEF AllocFail, WakeFree, VirtioInv, Types, ProcTypes
<1>3. \A q \in Proc : Flying(q)' <=> Flying(q)
  BY Zenon, <1>1, <1>2 DEF Flying
<1>4. Types'
  <2>1. pc' \in [Proc -> Pcs]
    BY DEF AllocFail, WakeFree, Pcs, VirtioInv, Types, ProcTypes
  <2>2. next' \in [Desc -> 0..NUM] /\ addr' \in [Desc -> Proc \cup {None}]
    <3>1. EndOfChain \in 0..NUM
      BY Facts DEF EndOfChain
    <3>. QED BY Zenon, <3>1 DEF AllocFail, VirtioInv, Types, DescTypes
  <2>. QED BY Zenon, <1>1, <2>1, <2>2 DEF VirtioInv, Types, DescTypes, RingTypes, ProcTypes
<1>5. Chains'
  <2>1. ASSUME NEW q \in Proc, Flying(q) PROVE OwnsChain(q)' /\ Of(q)' = Of(q)
    <3>1. OwnsChain(q) /\ head[q] \in Desc
      BY Zenon, <2>1 DEF VirtioInv, Chains, Types, ProcTypes
    <3>2. \A d \in Of(q) : d \in Desc /\ ~free[d]
      BY Zenon, <3>1 DEF OwnsChain, Of
    <3>3. \A d \in Of(q) : next'[d] = next[d] /\ addr'[d] = addr[d] /\ info'[d] = info[d] /\ ~free'[d]
      BY Zenon, <1>1, <3>2 DEF AllocFail
    <3>. QED BY Zenon, <1>1, <3>1, <3>3, ChainKept
  <2>2. \A q, r \in Proc : Flying(q)' /\ Flying(r)' /\ q # r => Of(q)' \cap Of(r)' = {}
    BY Zenon, <1>3, <2>1 DEF VirtioInv, Chains
  <2>3. ASSUME NEW d \in Desc, ~free'[d] PROVE \E q \in Proc : Flying(q)' /\ d \in Of(q)'
    <3>1. PICK q \in Proc : Flying(q) /\ d \in Of(q)
      BY Zenon, <1>1, <2>3 DEF VirtioInv, Chains
    <3>. QED BY Zenon, <1>3, <2>1, <3>1
  <2>. QED BY Zenon, <1>3, <2>1, <2>2, <2>3 DEF Chains
<1>6. Data'
  BY Zenon, <1>1, <1>2, <1>3 DEF VirtioInv, Data
<1>7. Rings'
  BY Zenon, <1>1, <1>3, KeepsSame, RingsSame DEF VirtioInv
<1>8. Waits'
  <2>1. FreeDescs' = FreeDescs /\ Cardinality(FreeDescs) < 3
    BY Zenon, <1>1 DEF FreeDescs, AllocFail
  <2>. QED BY Zenon, <1>1, <2>1 DEF VirtioInv, Waits
<1>. QED BY Zenon, <1>4, <1>5, <1>6, <1>7, <1>8 DEF VirtioInv

\* virtio_disk_rw frees its chain and returns.
LEMMA ReturnStep == ASSUME VirtioInv, NEW p \in Proc, Return(p) PROVE VirtioInv'
<1>1. /\ UNCHANGED <<head, disk, status, served>> /\ pc[p] = "check" /\ ~disk[p]
      /\ UNCHANGED <<availRing, availIdx, usedRing, usedIdx, used_idx, seen, taken>>
      /\ UNCHANGED <<irq, intr>>
  BY Zenon DEF Return, device
<1>2. pc'[p] = "idle" /\ \A q \in Proc : q # p => pc'[q] = IF pc[q] = "nodesc" THEN "alloc" ELSE pc[q]
  BY Zenon DEF Return, WakeFree, VirtioInv, Types, ProcTypes
<1>3. Flying(p) /\ ~Flying(p)' /\ \A q \in Proc : q # p => (Flying(q)' <=> Flying(q))
  BY Zenon, <1>1, <1>2 DEF Flying
<1>4. Chain(head[p]) = Of(p) /\ head[p] \in Of(p) /\ head[p] \in Desc
  BY Zenon DEF Chain, Of, Second, Third, VirtioInv, Types, ProcTypes
<1>5. \A d \in Desc : d \notin Of(p) => /\ next'[d] = next[d] /\ addr'[d] = addr[d]
                                         /\ info'[d] = info[d] /\ free'[d] = free[d]
  <2>1. \A d \in Desc : d \notin Of(p) => next'[d] = next[d] /\ addr'[d] = addr[d]
    BY Zenon, <1>4 DEF Return
  <2>2. \A d \in Desc : d \notin Of(p) => info'[d] = info[d]
    BY Zenon, <1>4 DEF Return, VirtioInv, Types, DescTypes
  <2>3. \A d \in Desc : d \notin Of(p) => free'[d] = free[d]
    BY <1>4 DEF Return, VirtioInv, Types, DescTypes
  <2>. QED BY Zenon, <2>1, <2>2, <2>3
<1>6. ASSUME NEW q \in Proc, q # p, Flying(q)
      PROVE  OwnsChain(q)' /\ Of(q)' = Of(q) /\ info'[head[q]] = info[head[q]]
  <2>1. OwnsChain(q) /\ head[q] \in Desc
    BY Zenon, <1>6 DEF VirtioInv, Chains, Types, ProcTypes
  <2>2. \A d \in Of(q) : d \in Desc /\ ~free[d] /\ d \notin Of(p)
    BY Zenon, <1>3, <1>6, <2>1 DEF OwnsChain, Of, VirtioInv, Chains
  <2>3. \A d \in Of(q) : next'[d] = next[d] /\ addr'[d] = addr[d] /\ info'[d] = info[d] /\ ~free'[d]
    BY Zenon, <1>5, <2>2
  <2>4. head[q] \in Of(q)
    BY Zenon DEF Of
  <2>. QED BY Zenon, <1>1, <2>1, <2>3, <2>4, ChainKept
<1>7. Types'
  <2>1. pc' \in [Proc -> Pcs]
    BY DEF Return, WakeFree, Pcs, VirtioInv, Types, ProcTypes
  <2>2. next' \in [Desc -> 0..NUM] /\ addr' \in [Desc -> Proc \cup {None}]
    <3>1. EndOfChain \in 0..NUM
      BY Facts DEF EndOfChain
    <3>. QED BY Zenon, <3>1 DEF Return, VirtioInv, Types, DescTypes
  <2>3. free' \in [Desc -> BOOLEAN] /\ info' \in [Desc -> Proc \cup {None}]
    BY Zenon DEF Return, VirtioInv, Types, DescTypes
  <2>. QED BY Zenon, <1>1, <2>1, <2>2, <2>3 DEF VirtioInv, Types, DescTypes, RingTypes, ProcTypes
<1>8. Chains'
  <2>1. \A q \in Proc : Flying(q)' => q # p /\ Flying(q)
    BY Zenon, <1>3
  <2>2. ASSUME NEW d \in Desc, ~free'[d] PROVE \E q \in Proc : Flying(q)' /\ d \in Of(q)'
    <3>1. ~free[d] /\ d \notin Of(p)
      BY Zenon, <1>4, <2>2 DEF Return
    <3>2. PICK q \in Proc : Flying(q) /\ d \in Of(q)
      BY Zenon, <3>1 DEF VirtioInv, Chains
    <3>. QED BY Zenon, <1>3, <1>6, <3>1, <3>2
  <2>. QED BY Zenon, <1>6, <2>1, <2>2 DEF VirtioInv, Chains
<1>9. Data'
  BY Zenon, <1>1, <1>2, <1>3 DEF VirtioInv, Data
<1>10. Rings'
  <2>1. ASSUME NEW h \in Desc, Req(h) PROVE Req(h)' /\ info'[h] = info[h]
    <3>1. info[h] \in Proc /\ Flying(info[h]) /\ head[info[h]] = h /\ disk[info[h]] /\ info[h] # p
      BY Zenon, <1>1, <2>1 DEF Req
    <3>2. info'[h] = info[h]
      BY Zenon, <1>6, <3>1
    <3>. QED BY Zenon, <1>1, <1>3, <3>1, <3>2 DEF Req
  <2>2. \A h \in Desc : Keeps(h)
    BY Zenon, <1>1, <2>1 DEF Keeps
  <2>. QED BY Zenon, <1>1, <2>2, RingsSame DEF VirtioInv
<1>11. Waits'
  <2>1. \A q \in Proc : pc'[q] # "nodesc"
    BY Zenon, <1>2
  <2>. QED BY Zenon, <1>1, <2>1 DEF VirtioInv, Waits
<1>. QED BY Zenon, <1>7, <1>8, <1>9, <1>10, <1>11 DEF VirtioInv

-----------------------------------------------------------------------------
\* The device takes a request from the avail ring.
LEMMA TakeStep == ASSUME VirtioInv, DeviceTake PROVE VirtioInv'
<1>1. /\ UNCHANGED <<free, next, addr, info, head, disk, status, served, pc>>
      /\ UNCHANGED <<availRing, availIdx, usedRing, usedIdx, used_idx, irq, intr>>
  BY Zenon DEF DeviceTake, driver
<1>2. \A q \in Proc : Flying(q)' <=> Flying(q)
  BY Zenon, <1>1 DEF Flying
<1>3. PICK a \in Nat, b \in Nat, c \in Nat, e \in Nat : Indices(a, b, c, e) /\ Places(a, b, c, e) /\ Once(a, b, c, e)
  BY Zenon DEF VirtioInv, Rings
<1>4. a # b
  BY Zenon, <1>3 DEF DeviceTake, Indices
<1>5. /\ a + 1 \in Nat /\ a + 1 <= b /\ a \in a..b - 1
      /\ \A k \in a + 1..b - 1 : k \in a..b - 1 /\ k # a
  BY <1>3, <1>4 DEF Indices
<1>6. availRing[seen % NUM] = Avail(a) /\ Avail(a) \in Desc
  BY Zenon, <1>3, Wrapped, SlotIn DEF Indices, Avail, VirtioInv, Types
<1>7. taken' = taken \cup {Avail(a)} /\ seen' = (a + 1) % UINT16
  BY Zenon, <1>3, <1>6, Wrapped DEF DeviceTake, Indices
<1>8. Types' /\ Data'
  BY Zenon, <1>1, <1>2, <1>6, <1>7 DEF VirtioInv, Types, DescTypes, RingTypes, ProcTypes, Data
<1>9. Chains'
  BY Zenon, <1>1, <1>2, ChainsSame DEF VirtioInv
<1>10. Waits'
  BY Zenon, <1>1 DEF VirtioInv, Waits, FreeDescs
<1>11. Indices(a + 1, b, c, e)'
  BY Zenon, <1>1, <1>3, <1>5, <1>7 DEF Indices
<1>12. \A k : Avail(k)' = Avail(k) /\ Used(k)' = Used(k) /\ (Req(k)' <=> Req(k))
  BY Zenon, <1>1 DEF Avail, Used, Req, Flying
<1>13. Once(a + 1, b, c, e)'
  BY Zenon, <1>3, <1>5, <1>12 DEF Once
<1>14. Places(a + 1, b, c, e)'
  <2>1. \A k \in a + 1..b - 1 : Req(Avail(k))' /\ Avail(k)' \notin taken'
    BY Zenon, <1>3, <1>5, <1>7, <1>12 DEF Places, Once
  <2>2. \A h \in taken' : Req(h)'
    BY Zenon, <1>3, <1>5, <1>7, <1>12 DEF Places
  <2>3. \A k \in c..e - 1 : Req(Used(k))' /\ Used(k)' \notin taken'
    BY Zenon, <1>3, <1>5, <1>7, <1>12 DEF Places, Once
  <2>4. \A k \in c..e - 1 : status'[Used(k)'] /\ served'[info'[Used(k)']]
    BY Zenon, <1>1, <1>3, <1>12 DEF Places
  <2>. QED BY Zenon, <2>1, <2>2, <2>3, <2>4 DEF Places
<1>15. Rings'
  BY Zenon, <1>5, <1>11, <1>13, <1>14 DEF Rings
<1>. QED BY Zenon, <1>8, <1>9, <1>10, <1>15 DEF VirtioInv

\* The completion the handler looks at.
LEMMA NextUsed ==
  ASSUME Types, NEW c \in Nat, used_idx = c % UINT16
  PROVE  UsedId = Used(c) /\ UsedId \in Desc
  BY Zenon, Wrapped, SlotIn DEF UsedId, Used, Types

\* A pass of the handler's loop.
LEMMA LoopStep == ASSUME VirtioInv, IntrLoop PROVE VirtioInv'
<1>1. /\ UNCHANGED <<free, next, addr, info, head, status, served>>
      /\ UNCHANGED <<availRing, availIdx, usedRing, usedIdx, seen, taken, irq, intr>>
  BY Zenon DEF IntrLoop, device
<1>2. PICK a \in Nat, b \in Nat, c \in Nat, e \in Nat : Indices(a, b, c, e) /\ Places(a, b, c, e) /\ Once(a, b, c, e)
  BY Zenon DEF VirtioInv, Rings
<1>3. c # e
  BY Zenon, <1>2 DEF IntrLoop, Indices
<1>4. /\ c + 1 \in Nat /\ c + 1 <= e /\ c \in c..e - 1
      /\ \A k \in c + 1..e - 1 : k \in c..e - 1 /\ k # c
  BY <1>2, <1>3 DEF Indices
<1>5. UsedId = Used(c) /\ UsedId \in Desc
  BY Zenon, <1>2, NextUsed DEF Indices, VirtioInv
<1>6. PICK q \in Proc : q = info[UsedId] /\ Flying(q) /\ head[q] = UsedId /\ disk[q] /\ served[q]
  BY Zenon, <1>2, <1>4, <1>5 DEF Places, Req
<1>7. used_idx' = (c + 1) % UINT16
  BY Zenon, <1>2, Wrapped DEF IntrLoop, Indices
<1>8. /\ disk' = [disk EXCEPT ![q] = FALSE] /\ pc' = [pc EXCEPT ![q] = IF @ = "asleep" THEN "check" ELSE @]
  BY Zenon, <1>6 DEF IntrLoop, WakeBuf
<1>9. /\ pc'[q] = "check" /\ ~disk'[q]
      /\ \A r \in Proc : r # q => pc'[r] = pc[r] /\ disk'[r] = disk[r]
  BY Zenon, <1>6, <1>8 DEF VirtioInv, Types, ProcTypes, Flying
<1>10. \A r \in Proc : Flying(r)' <=> Flying(r)
  BY Zenon, <1>6, <1>9 DEF Flying
<1>11. Types'
  <2>1. pc' \in [Proc -> Pcs] /\ disk' \in [Proc -> BOOLEAN]
    BY <1>8 DEF VirtioInv, Types, ProcTypes, Pcs
  <2>. QED BY Zenon, <1>1, <2>1 DEF VirtioInv, Types, DescTypes, RingTypes, ProcTypes
<1>12. Chains'
  BY Zenon, <1>1, <1>10, ChainsSame DEF VirtioInv
<1>13. Data'
  BY Zenon, <1>1, <1>6, <1>9, <1>10 DEF VirtioInv, Data
<1>14. Waits'
  <2>1. \A r \in Proc : pc'[r] = "nodesc" => pc[r] = "nodesc"
    BY Zenon, <1>9
  <2>2. irq' \/ intr'
    BY <1>1 DEF IntrLoop
  <2>. QED BY Zenon, <1>1, <2>1, <2>2 DEF VirtioInv, Waits, FreeDescs
<1>15. \A h : Req(h) /\ h # UsedId => Req(h)'
  <2>1. ASSUME NEW h, Req(h), h # UsedId PROVE Req(h)'
    <3>1. info[h] \in Proc /\ info[h] # q
      BY Zenon, <1>6, <2>1 DEF Req
    <3>. QED BY Zenon, <1>1, <1>9, <1>10, <2>1, <3>1 DEF Req
  <2>. QED BY Zenon, <2>1
<1>16. \A k : Avail(k)' = Avail(k) /\ Used(k)' = Used(k)
  BY Zenon, <1>1 DEF Avail, Used
<1>17. Indices(a, b, c + 1, e)'
  BY Zenon, <1>1, <1>2, <1>4, <1>7 DEF Indices
<1>18. Once(a, b, c + 1, e)'
  BY Zenon, <1>2, <1>4, <1>16 DEF Once
<1>19. Places(a, b, c + 1, e)'
  <2>1. \A k \in a..b - 1 : Req(Avail(k))' /\ Avail(k)' \notin taken'
    BY Zenon, <1>1, <1>2, <1>4, <1>5, <1>15, <1>16 DEF Places, Once
  <2>2. \A h \in taken' : Req(h)'
    BY Zenon, <1>1, <1>2, <1>4, <1>5, <1>15 DEF Places
  <2>3. \A k \in c + 1..e - 1 : Req(Used(k))' /\ Used(k)' \notin taken'
    BY Zenon, <1>1, <1>2, <1>4, <1>5, <1>15, <1>16 DEF Places, Once
  <2>4. \A k \in c + 1..e - 1 : status'[Used(k)'] /\ served'[info'[Used(k)']]
    BY Zenon, <1>1, <1>2, <1>4, <1>16 DEF Places
  <2>. QED BY Zenon, <2>1, <2>2, <2>3, <2>4 DEF Places
<1>20. Rings'
  BY Zenon, <1>2, <1>4, <1>17, <1>18, <1>19 DEF Rings
<1>. QED BY Zenon, <1>11, <1>12, <1>13, <1>14, <1>20 DEF VirtioInv

-----------------------------------------------------------------------------
(* Counting: the rings are not overrun, and three free descriptors are     *)
(* three different ones.                                                   *)
INSTANCE FiniteSetTheorems

\* There are NUM descriptors, so finitely many free ones.
LEMMA DescsFinite == IsFiniteSet(Desc) /\ Cardinality(Desc) = NUM /\ IsFiniteSet(FreeDescs)
<1>1. IsFiniteSet(Desc) /\ Cardinality(Desc) = NUM
  BY Facts, FS_Interval DEF Desc
<1>2. FreeDescs \in SUBSET Desc
  BY Zenon DEF FreeDescs
<1>. QED BY Zenon, <1>1, <1>2, FS_Subset

\* Different descriptors in the slots i..k-1, and another one: fewer than NUM.
LEMMA Fewer ==
  ASSUME NEW i \in Nat, NEW k \in Nat, NEW f \in [i..k - 1 -> Desc], NEW h \in Desc,
         \A x, y \in i..k - 1 : f[x] = f[y] => x = y, \A x \in i..k - 1 : f[x] # h
  PROVE  k - i < NUM
<1>1. f \in Injection(i..k - 1, Desc \ {h})
  BY Zenon DEF Injection, IsInjective
<1>2. IsFiniteSet(Desc \ {h}) /\ Cardinality(Desc \ {h}) = NUM - 1
  BY Zenon, DescsFinite, FS_RemoveElement
<1>3. PICK n : n = Cardinality(i..k - 1)
  OBVIOUS
<1>4. n <= NUM - 1
  <2>1. Cardinality(i..k - 1) <= Cardinality(Desc \ {h})
    BY Zenon, <1>1, <1>2, FS_Injection
  <2>. QED BY Zenon, <1>2, <1>3, <2>1
<1>5. n = IF i > k - 1 THEN 0 ELSE (k - 1) - i + 1
  BY <1>3, FS_Interval
<1>. QED BY <1>4, <1>5, Facts

\* alloc3_desc gets three different descriptors where there are three.
LEMMA Three ==
  ASSUME Cardinality(FreeDescs) >= 3
  PROVE  /\ Kth(1) \in FreeDescs /\ Kth(2) \in FreeDescs /\ Kth(3) \in FreeDescs
         /\ Kth(1) # Kth(2) /\ Kth(1) # Kth(3) /\ Kth(2) # Kth(3)
<1>. DEFINE F == FreeDescs
            Lower(d) == {e \in F : e < d}
<1>0. IsFiniteSet(F) /\ F \subseteq Nat /\ Cardinality(F) \in Nat /\ Cardinality(F) >= 3
  BY DescsFinite, FS_CardinalityType, Facts DEF Desc, FreeDescs
<1>k. Kth(1) = (CHOOSE d \in F : Cardinality(Lower(d)) = 0) /\ Kth(2) = (CHOOSE d \in F : Cardinality(Lower(d)) = 1)
      /\ Kth(3) = (CHOOSE d \in F : Cardinality(Lower(d)) = 2)
  BY DEF Kth
<1>. HIDE DEF F
<1>1. PICK x \in F : \A y \in F : x <= y
  <2>1. F # {}
    BY <1>0, FS_EmptySet
  <2>. QED BY Zenon, <1>0, <2>1, Least
<1>2. IsFiniteSet(F \ {x}) /\ Cardinality(F \ {x}) >= 2 /\ Cardinality(F \ {x}) \in Nat
  <2>1. IsFiniteSet(F \ {x}) /\ Cardinality(F \ {x}) = Cardinality(F) - 1
    BY Zenon, <1>0, <1>1, FS_RemoveElement
  <2>. QED BY <1>0, <2>1
<1>3. PICK y \in F \ {x} : \A z \in F \ {x} : y <= z
  <2>1. F \ {x} # {} /\ F \ {x} \subseteq Nat
    BY <1>0, <1>2, FS_EmptySet
  <2>. QED BY Zenon, <2>1, Least
<1>4. Cardinality((F \ {x}) \ {y}) >= 1
  <2>1. Cardinality((F \ {x}) \ {y}) = Cardinality(F \ {x}) - 1
    BY Zenon, <1>2, <1>3, FS_RemoveElement
  <2>. QED BY <1>2, <2>1
<1>5. PICK z \in (F \ {x}) \ {y} : \A w \in (F \ {x}) \ {y} : z <= w
  <2>1. (F \ {x}) \ {y} # {} /\ (F \ {x}) \ {y} \subseteq Nat
    BY <1>0, <1>4, FS_EmptySet
  <2>. QED BY Zenon, <2>1, Least
<1>6. x \in Nat /\ y \in Nat /\ z \in Nat /\ x # y /\ x # z /\ y # z /\ x <= y /\ y <= z /\ x <= z
  BY <1>0, <1>1, <1>3, <1>5
<1>7. Lower(x) = {} /\ Lower(y) = {x} /\ Lower(z) = {x, y}
  <2>1. \A e \in F : ~(e < x)
    BY <1>0, <1>1
  <2>2. \A e \in F : e < y <=> e = x
    BY <1>0, <1>3, <1>6
  <2>3. \A e \in F : e < z <=> e = x \/ e = y
    BY <1>0, <1>3, <1>5, <1>6
  <2>. QED BY Zenon, <1>3, <2>1, <2>2, <2>3
<1>8. Cardinality({}) = 0 /\ Cardinality({x}) = 1 /\ Cardinality({x, y}) = 2
  <2>1. Cardinality({}) = 0 /\ IsFiniteSet({x}) /\ Cardinality({x}) = 1
    BY Zenon, FS_EmptySet, FS_Singleton
  <2>2. {x, y} = {x} \cup {y} /\ y \notin {x}
    BY Zenon, <1>6
  <2>3. Cardinality({x} \cup {y}) = Cardinality({x}) + 1
    BY Zenon, <2>1, <2>2, FS_AddElement
  <2>4. Cardinality({x, y}) = 1 + 1
    BY Zenon, <2>1, <2>2, <2>3
  <2>. QED BY <2>1, <2>4
<1>. HIDE DEF Lower
<1>9. /\ Kth(1) \in F /\ Cardinality(Lower(Kth(1))) = 0
      /\ Kth(2) \in F /\ Cardinality(Lower(Kth(2))) = 1
      /\ Kth(3) \in F /\ Cardinality(Lower(Kth(3))) = 2
  BY Zenon, <1>k, <1>1, <1>3, <1>5, <1>7, <1>8
<1>10. 0 # 1 /\ 0 # 2 /\ 1 # 2
  OBVIOUS
<1>. QED BY Zenon, <1>9, <1>10 DEF F

-----------------------------------------------------------------------------
\* A slot is not that of another counter less than NUM away.
LEMMA OtherSlot ==
  ASSUME NEW i \in Nat, NEW k \in Nat, k - i < NUM, NEW l \in i..k - 1
  PROVE  l \in Nat /\ l % NUM # k % NUM
<1>1. l \in Int /\ k \in Int /\ l \in Nat /\ k - l < NUM /\ l - k < NUM /\ l # k
  BY Facts
<1>. QED BY Zenon, <1>1, Facts, ModApart

\* A request's head is not free, and its data descriptor is the requester's.
LEMMA ReqOwned ==
  ASSUME VirtioInv, NEW h \in Desc, Req(h)
  PROVE  ~free[h] /\ addr[next[h]] = info[h]
<1>1. PICK q \in Proc : q = info[h] /\ Flying(q) /\ head[q] = h
  BY Zenon DEF Req
<1>2. OwnsChain(q)
  BY Zenon, <1>1 DEF VirtioInv, Chains
<1>. QED BY Zenon, <1>1, <1>2 DEF OwnsChain, Second

\* The device finishes a request.
LEMMA ServeStep == ASSUME VirtioInv, NEW h \in Desc, DeviceServe(h) PROVE VirtioInv'
<1>1. /\ UNCHANGED <<free, next, addr, info, head, disk, pc>> /\ h \in taken
      /\ UNCHANGED <<availRing, availIdx, used_idx, seen, intr>>
      /\ taken' = taken \ {h} /\ irq' = TRUE
  BY Zenon DEF DeviceServe, driver
<1>2. \A q \in Proc : Flying(q)' <=> Flying(q)
  BY Zenon, <1>1 DEF Flying
<1>3. PICK a \in Nat, b \in Nat, c \in Nat, e \in Nat : Indices(a, b, c, e) /\ Places(a, b, c, e) /\ Once(a, b, c, e)
  BY Zenon DEF VirtioInv, Rings
<1>4. Req(h) /\ addr[next[h]] = info[h] /\ info[h] \in Proc
  <2>1. Req(h)
    BY Zenon, <1>1, <1>3 DEF Places
  <2>. QED BY Zenon, <2>1, ReqOwned DEF Req
<1>5. \A k \in c..e - 1 : Used(k) \in Desc /\ Used(k) # h
  <2>1. \A k \in c..e - 1 : k \in Nat
    OBVIOUS
  <2>. QED BY Zenon, <1>1, <1>3, <2>1, SlotIn DEF Places, VirtioInv, Types
<1>6. e - c < NUM
  <2>. DEFINE f == [k \in c..e - 1 |-> Used(k)]
  <2>1. f \in [c..e - 1 -> Desc] /\ \A x \in c..e - 1 : f[x] # h
    BY Zenon, <1>5
  <2>2. \A x, y \in c..e - 1 : f[x] = f[y] => x = y
    BY Zenon, <1>3 DEF Once
  <2>. HIDE DEF f
  <2>. QED BY Zenon, <2>1, <2>2, Fewer
<1>7. usedRing' = [usedRing EXCEPT ![e % NUM] = h] /\ usedIdx' = (e + 1) % UINT16 /\ e % NUM \in Desc
  BY Zenon, <1>3, Wrapped, Facts DEF DeviceServe, Indices
<1>8. Used(e)' = h /\ \A k \in c..e - 1 : Used(k)' = Used(k)
  <2>1. Used(e)' = h
    BY Zenon, <1>7 DEF Used, VirtioInv, Types, RingTypes
  <2>2. ASSUME NEW k \in c..e - 1 PROVE Used(k)' = Used(k)
    <3>1. k \in Nat /\ k % NUM # e % NUM
      BY Zenon, <1>6, OtherSlot
    <3>. QED BY Zenon, <1>7, <3>1, Facts DEF Used, VirtioInv, Types, RingTypes
  <2>. QED BY Zenon, <2>1, <2>2
<1>9. /\ e + 1 \in Nat /\ c <= e + 1 /\ e \in c..(e + 1) - 1
      /\ \A k \in c..(e + 1) - 1 : k = e \/ k \in c..e - 1
  BY <1>3 DEF Indices
<1>10. status'[h] /\ \A d \in Desc : status[d] => status'[d]
  BY DEF DeviceServe, VirtioInv, Types, RingTypes
<1>11. served'[info[h]] /\ \A p \in Proc : served[p] => served'[p]
  BY Zenon, <1>4 DEF DeviceServe
<1>12. Types'
  <2>1. usedRing' \in [Desc -> Desc]
    BY <1>7 DEF VirtioInv, Types, RingTypes
  <2>2. status' \in [Desc -> BOOLEAN]
    BY DEF DeviceServe, VirtioInv, Types, RingTypes
  <2>3. served' \in [Proc -> BOOLEAN]
    BY DEF DeviceServe, VirtioInv, Types, ProcTypes
  <2>. QED BY Zenon, <1>1, <2>1, <2>2, <2>3 DEF VirtioInv, Types, DescTypes, RingTypes, ProcTypes
<1>13. Chains'
  BY Zenon, <1>1, <1>2, ChainsSame DEF VirtioInv
<1>14. Data'
  BY Zenon, <1>1, <1>2, <1>11 DEF VirtioInv, Data
<1>15. Waits'
  BY Zenon, <1>1 DEF VirtioInv, Waits, FreeDescs
<1>16. Indices(a, b, c, e + 1)'
  BY Zenon, <1>1, <1>3, <1>7, <1>9 DEF Indices
<1>17. \A k : Avail(k)' = Avail(k) /\ (Req(k)' <=> Req(k))
  BY Zenon, <1>1 DEF Avail, Req, Flying
<1>18. Once(a, b, c, e + 1)'
  <2>1. \A k, l \in a..b - 1 : Avail(k)' = Avail(l)' => k = l
    BY Zenon, <1>3, <1>17 DEF Once
  <2>2. ASSUME NEW k \in c..(e + 1) - 1, NEW l \in c..(e + 1) - 1, Used(k)' = Used(l)' PROVE k = l
    <3>1. CASE k \in c..e - 1 /\ l \in c..e - 1
      BY Zenon, <1>3, <1>8, <2>2, <3>1 DEF Once
    <3>2. CASE k = e /\ l \in c..e - 1
      BY Zenon, <1>5, <1>8, <2>2, <3>2
    <3>3. CASE k \in c..e - 1 /\ l = e
      BY Zenon, <1>5, <1>8, <2>2, <3>3
    <3>. QED BY Zenon, <1>9, <3>1, <3>2, <3>3
  <2>3. \A k \in a..b - 1 : Avail(k) # h
    BY Zenon, <1>1, <1>3 DEF Places
  <2>4. \A k \in a..b - 1 : \A l \in c..(e + 1) - 1 : Avail(k)' # Used(l)'
    BY Zenon, <1>3, <1>8, <1>9, <1>17, <2>3 DEF Once
  <2>. QED BY Zenon, <2>1, <2>2, <2>4 DEF Once
<1>19. Places(a, b, c, e + 1)'
  <2>1. \A k \in a..b - 1 : Req(Avail(k))' /\ Avail(k)' \notin taken'
    BY Zenon, <1>1, <1>3, <1>17 DEF Places
  <2>2. \A x \in taken' : Req(x)'
    BY Zenon, <1>1, <1>3, <1>17 DEF Places
  <2>3. \A k \in c..e - 1 : Req(Used(k)) /\ Used(k) \notin taken /\ status[Used(k)] /\ served[info[Used(k)]]
    BY Zenon, <1>3 DEF Places
  <2>4. \A k \in c..e - 1 : info[Used(k)] \in Proc
    BY Zenon, <2>3 DEF Req
  <2>5. ASSUME NEW k \in c..e - 1
        PROVE  Req(Used(k))' /\ Used(k)' \notin taken' /\ status'[Used(k)'] /\ served'[info'[Used(k)']]
    BY Zenon, <1>1, <1>5, <1>8, <1>10, <1>11, <1>17, <2>3, <2>4
  <2>6. Req(Used(e))' /\ Used(e)' \notin taken' /\ status'[Used(e)'] /\ served'[info'[Used(e)']]
    BY Zenon, <1>1, <1>4, <1>8, <1>10, <1>11, <1>17
  <2>. QED BY Zenon, <1>9, <2>1, <2>2, <2>5, <2>6 DEF Places
<1>20. Rings'
  BY Zenon, <1>3, <1>9, <1>16, <1>18, <1>19 DEF Rings
<1>. QED BY Zenon, <1>12, <1>13, <1>14, <1>15, <1>20 DEF VirtioInv

\* virtio_disk_rw formats its chain and queues it.
LEMMA SubmitStep == ASSUME VirtioInv, NEW p \in Proc, Submit(p) PROVE VirtioInv'
<1>1. /\ UNCHANGED <<usedRing, usedIdx, used_idx, seen, taken, irq, intr, served>>
      /\ pc[p] = "alloc" /\ Cardinality(FreeDescs) >= 3
  BY Zenon DEF Submit, device
<1>2. PICK x \in Desc, y \in Desc, z \in Desc :
        /\ x = Kth(1) /\ y = Kth(2) /\ z = Kth(3) /\ x # y /\ x # z /\ y # z
        /\ free[x] /\ free[y] /\ free[z]
  BY Zenon, <1>1, Three DEF FreeDescs
<1>3. /\ free' = [free EXCEPT ![x] = FALSE, ![y] = FALSE, ![z] = FALSE]
      /\ next' = [next EXCEPT ![x] = y, ![y] = z, ![z] = EndOfChain]
      /\ addr' = [addr EXCEPT ![y] = p] /\ status' = [status EXCEPT ![x] = FALSE]
      /\ info' = [info EXCEPT ![x] = p] /\ head' = [head EXCEPT ![p] = x]
      /\ disk' = [disk EXCEPT ![p] = TRUE] /\ pc' = [pc EXCEPT ![p] = "asleep"]
      /\ availRing' = [availRing EXCEPT ![availIdx % NUM] = x] /\ availIdx' = Inc(availIdx)
  BY Zenon, <1>2 DEF Submit
<1>4. /\ ~free'[x] /\ ~free'[y] /\ ~free'[z] /\ next'[x] = y /\ next'[y] = z
      /\ addr'[y] = p /\ info'[x] = p
      /\ \A d \in Desc : d \notin {x, y, z} => /\ free'[d] = free[d] /\ next'[d] = next[d]
                                               /\ addr'[d] = addr[d] /\ info'[d] = info[d]
  <2>1. ~free'[x] /\ ~free'[y] /\ ~free'[z] /\ \A d \in Desc : d \notin {x, y, z} => free'[d] = free[d]
    BY Zenon, <1>2, <1>3 DEF VirtioInv, Types, DescTypes
  <2>2. next'[x] = y /\ next'[y] = z /\ \A d \in Desc : d \notin {x, y, z} => next'[d] = next[d]
    BY Zenon, <1>2, <1>3 DEF VirtioInv, Types, DescTypes
  <2>3. addr'[y] = p /\ info'[x] = p /\ \A d \in Desc : d \notin {x, y, z} => addr'[d] = addr[d] /\ info'[d] = info[d]
    BY Zenon, <1>3 DEF VirtioInv, Types, DescTypes
  <2>. QED BY Zenon, <2>1, <2>2, <2>3
<1>5. /\ pc'[p] = "asleep" /\ head'[p] = x /\ disk'[p]
      /\ \A q \in Proc : q # p => pc'[q] = pc[q] /\ head'[q] = head[q] /\ disk'[q] = disk[q]
  BY Zenon, <1>3 DEF VirtioInv, Types, ProcTypes
<1>6. Flying(p)' /\ ~Flying(p) /\ \A q \in Proc : q # p => (Flying(q)' <=> Flying(q))
  BY Zenon, <1>1, <1>5 DEF Flying
<1>7. Types'
  <2>1. free' \in [Desc -> BOOLEAN] /\ status' \in [Desc -> BOOLEAN]
    BY <1>3, Zenon DEF VirtioInv, Types, DescTypes, RingTypes
  <2>2. next' \in [Desc -> 0..NUM]
    <3>1. y \in 0..NUM /\ z \in 0..NUM /\ EndOfChain \in 0..NUM
      BY Facts DEF EndOfChain, Desc
    <3>. QED BY <1>3, <3>1 DEF VirtioInv, Types, DescTypes
  <2>3. addr' \in [Desc -> Proc \cup {None}] /\ info' \in [Desc -> Proc \cup {None}]
    BY <1>3 DEF VirtioInv, Types, DescTypes
  <2>4. availRing' \in [Desc -> Desc] /\ head' \in [Proc -> Desc] /\ disk' \in [Proc -> BOOLEAN]
    BY <1>3, Zenon DEF VirtioInv, Types, RingTypes, ProcTypes
  <2>5. pc' \in [Proc -> Pcs]
    BY <1>3 DEF VirtioInv, Types, ProcTypes, Pcs
  <2>. QED BY Zenon, <1>1, <2>1, <2>2, <2>3, <2>4, <2>5 DEF VirtioInv, Types, DescTypes, RingTypes, ProcTypes
<1>8. OwnsChain(p)' /\ Of(p)' = {x, y, z}
  <2>1. Second(p)' = y
    BY Zenon, <1>4, <1>5 DEF Second
  <2>2. Third(p)' = z
    BY Zenon, <1>4, <2>1 DEF Third
  <2>. QED BY Zenon, <1>2, <1>4, <1>5, <2>1, <2>2 DEF OwnsChain, Of
<1>9. ASSUME NEW q \in Proc, Flying(q)
      PROVE  q # p /\ OwnsChain(q)' /\ Of(q)' = Of(q) /\ \A d \in Of(q) : d \in Desc /\ d \notin {x, y, z}
  <2>1. OwnsChain(q) /\ head[q] \in Desc
    BY Zenon, <1>9 DEF VirtioInv, Chains, Types, ProcTypes
  <2>2. \A d \in Of(q) : d \in Desc /\ ~free[d]
    BY Zenon, <2>1 DEF OwnsChain, Of
  <2>3. \A d \in Of(q) : d \in Desc /\ d \notin {x, y, z}
    BY Zenon, <1>2, <2>2
  <2>4. \A d \in Of(q) : next'[d] = next[d] /\ addr'[d] = addr[d] /\ info'[d] = info[d] /\ ~free'[d]
    BY Zenon, <1>4, <2>2, <2>3
  <2>5. q # p /\ head'[q] = head[q]
    BY Zenon, <1>5, <1>6, <1>9
  <2>. QED BY Zenon, <2>1, <2>3, <2>4, <2>5, ChainKept
<1>10. Chains'
  <2>1. \A q \in Proc : Flying(q)' => OwnsChain(q)'
    BY Zenon, <1>6, <1>8, <1>9
  <2>2. ASSUME NEW q \in Proc, NEW r \in Proc, Flying(q)', Flying(r)', q # r PROVE Of(q)' \cap Of(r)' = {}
    <3>1. CASE q # p /\ r # p
      BY Zenon, <1>6, <1>9, <2>2, <3>1 DEF VirtioInv, Chains
    <3>2. CASE q = p
      BY Zenon, <1>6, <1>8, <1>9, <2>2, <3>2
    <3>3. CASE r = p
      BY Zenon, <1>6, <1>8, <1>9, <2>2, <3>3
    <3>. QED BY Zenon, <3>1, <3>2, <3>3
  <2>3. ASSUME NEW d \in Desc, ~free'[d] PROVE \E q \in Proc : Flying(q)' /\ d \in Of(q)'
    <3>1. CASE d \in {x, y, z}
      BY Zenon, <1>6, <1>8, <3>1
    <3>2. CASE d \notin {x, y, z}
      <4>1. PICK q \in Proc : Flying(q) /\ d \in Of(q)
        BY Zenon, <1>4, <2>3, <3>2 DEF VirtioInv, Chains
      <4>. QED BY Zenon, <1>6, <1>9, <4>1
    <3>. QED BY Zenon, <3>1, <3>2
  <2>. QED BY Zenon, <2>1, <2>2, <2>3 DEF Chains
<1>11. Data'
  BY Zenon, <1>1, <1>5, <1>6 DEF VirtioInv, Data
<1>12. Waits'
  <2>1. \A q \in Proc : pc'[q] # "nodesc"
    <3>1. \A q \in Proc : pc[q] # "nodesc"
      <4>1. ~(Cardinality(FreeDescs) < 3)
        BY <1>1, DescsFinite, FS_CardinalityType
      <4>. QED BY Zenon, <4>1 DEF VirtioInv, Waits
    <3>. QED BY Zenon, <1>5, <3>1
  <2>. QED BY Zenon, <1>1, <2>1 DEF VirtioInv, Waits
<1>13. Rings'
  <2>1. PICK a \in Nat, b \in Nat, c \in Nat, e \in Nat : Indices(a, b, c, e) /\ Places(a, b, c, e) /\ Once(a, b, c, e)
    BY Zenon DEF VirtioInv, Rings
  <2>2. \A k \in a..b - 1 : Avail(k) \in Desc /\ Avail(k) # x /\ Req(Avail(k)) /\ Avail(k) \notin taken
    <3>1. \A k \in a..b - 1 : k \in Nat
      OBVIOUS
    <3>. QED BY Zenon, <1>2, <2>1, <3>1, SlotIn, ReqOwned DEF Places, VirtioInv, Types
  <2>3. \A k \in c..e - 1 : /\ Used(k) \in Desc /\ Used(k) # x /\ Req(Used(k)) /\ Used(k) \notin taken
                            /\ status[Used(k)] /\ served[info[Used(k)]]
    <3>1. \A k \in c..e - 1 : k \in Nat
      OBVIOUS
    <3>. QED BY Zenon, <1>2, <2>1, <3>1, SlotIn, ReqOwned DEF Places, VirtioInv, Types
  <2>4. x \notin taken /\ taken \subseteq Desc
    BY Zenon, <1>2, <2>1, ReqOwned DEF Places, VirtioInv, Types, RingTypes
  <2>5. b - a < NUM
    <3>. DEFINE f == [k \in a..b - 1 |-> Avail(k)]
    <3>1. f \in [a..b - 1 -> Desc] /\ \A k \in a..b - 1 : f[k] # x
      BY Zenon, <2>2
    <3>2. \A k, l \in a..b - 1 : f[k] = f[l] => k = l
      BY Zenon, <2>1 DEF Once
    <3>. HIDE DEF f
    <3>. QED BY Zenon, <3>1, <3>2, Fewer
  <2>6. availRing' = [availRing EXCEPT ![b % NUM] = x] /\ availIdx' = (b + 1) % UINT16 /\ b % NUM \in Desc
    BY Zenon, <1>3, <2>1, Wrapped, Facts DEF Indices
  <2>7. Avail(b)' = x /\ \A k \in a..b - 1 : Avail(k)' = Avail(k)
    <3>1. Avail(b)' = x
      BY Zenon, <2>6 DEF Avail, VirtioInv, Types, RingTypes
    <3>2. ASSUME NEW k \in a..b - 1 PROVE Avail(k)' = Avail(k)
      <4>1. k \in Nat /\ k % NUM # b % NUM
        BY Zenon, <2>5, OtherSlot
      <4>. QED BY Zenon, <2>6, <4>1, Facts DEF Avail, VirtioInv, Types, RingTypes
    <3>. QED BY Zenon, <3>1, <3>2
  <2>8. \A k : Used(k)' = Used(k)
    BY Zenon, <1>1 DEF Used
  <2>9. Req(x)' /\ \A h \in Desc : Req(h) => Req(h)' /\ info'[h] = info[h]
    <3>1. Req(x)'
      BY Zenon, <1>4, <1>5, <1>6 DEF Req
    <3>2. ASSUME NEW h \in Desc, Req(h) PROVE Req(h)' /\ info'[h] = info[h]
      <4>1. PICK q \in Proc : q = info[h] /\ Flying(q) /\ head[q] = h /\ disk[q]
        BY Zenon, <3>2 DEF Req
      <4>2. h \in Of(q)
        BY Zenon, <4>1 DEF Of
      <4>3. q # p /\ info'[h] = info[h]
        BY Zenon, <1>4, <1>9, <4>1, <4>2
      <4>. QED BY Zenon, <1>5, <1>6, <4>1, <4>3 DEF Req
    <3>. QED BY Zenon, <3>1, <3>2
  <2>10. /\ b + 1 \in Nat /\ a <= b + 1 /\ b \in a..(b + 1) - 1
         /\ \A k \in a..(b + 1) - 1 : k = b \/ k \in a..b - 1
    BY <2>1 DEF Indices
  <2>11. Indices(a, b + 1, c, e)'
    BY Zenon, <1>1, <2>1, <2>6, <2>10 DEF Indices
  <2>12. Once(a, b + 1, c, e)'
    <3>1. ASSUME NEW k \in a..(b + 1) - 1, NEW l \in a..(b + 1) - 1, Avail(k)' = Avail(l)' PROVE k = l
      <4>1. CASE k \in a..b - 1 /\ l \in a..b - 1
        BY Zenon, <2>1, <2>7, <3>1, <4>1 DEF Once
      <4>2. CASE k = b /\ l \in a..b - 1
        BY Zenon, <2>2, <2>7, <3>1, <4>2
      <4>3. CASE k \in a..b - 1 /\ l = b
        BY Zenon, <2>2, <2>7, <3>1, <4>3
      <4>. QED BY Zenon, <2>10, <4>1, <4>2, <4>3
    <3>2. \A k, l \in c..e - 1 : Used(k)' = Used(l)' => k = l
      BY Zenon, <2>1, <2>8 DEF Once
    <3>3. \A k \in a..(b + 1) - 1 : \A l \in c..e - 1 : Avail(k)' # Used(l)'
      BY Zenon, <2>1, <2>3, <2>7, <2>8, <2>10 DEF Once
    <3>. QED BY Zenon, <3>1, <3>2, <3>3 DEF Once
  <2>13. Places(a, b + 1, c, e)'
    <3>1. \A k \in a..(b + 1) - 1 : Req(Avail(k))' /\ Avail(k)' \notin taken'
      BY Zenon, <1>1, <2>2, <2>4, <2>7, <2>9, <2>10
    <3>2. \A h \in taken' : Req(h)'
      BY Zenon, <1>1, <2>1, <2>4, <2>9 DEF Places
    <3>3. \A d \in Desc : d # x => status'[d] = status[d]
      BY Zenon, <1>3 DEF VirtioInv, Types, RingTypes
    <3>4. ASSUME NEW k \in c..e - 1
          PROVE  Req(Used(k))' /\ Used(k)' \notin taken' /\ status'[Used(k)'] /\ served'[info'[Used(k)']]
      BY Zenon, <1>1, <2>3, <2>8, <2>9, <3>3
    <3>. QED BY Zenon, <3>1, <3>2, <3>4 DEF Places
  <2>. QED BY Zenon, <2>1, <2>10, <2>11, <2>12, <2>13 DEF Rings
<1>. QED BY Zenon, <1>7, <1>10, <1>11, <1>12, <1>13 DEF VirtioInv

-----------------------------------------------------------------------------
\* Every step of a process, of the device and of the handler keeps the
\* invariant.
LEMMA VirtioStep == VirtioInv /\ [Next]_vars => VirtioInv'
<1>. SUFFICES ASSUME VirtioInv, [Next]_vars PROVE VirtioInv'
  OBVIOUS
<1>1. CASE UNCHANGED vars
  <2>1. /\ UNCHANGED <<free, next, addr, info, head, disk, status, served, pc>>
        /\ UNCHANGED <<availRing, availIdx, usedRing, usedIdx, used_idx, seen, taken, irq, intr>>
    BY Zenon, <1>1 DEF vars
  <2>2. \A q \in Proc : Flying(q)' <=> Flying(q)
    BY Zenon, <2>1 DEF Flying
  <2>3. Types' /\ Data' /\ Waits'
    BY Zenon, <2>1, <2>2 DEF VirtioInv, Types, DescTypes, RingTypes, ProcTypes, Data, Waits, FreeDescs
  <2>4. Chains'
    BY Zenon, <2>1, <2>2, ChainsSame DEF VirtioInv
  <2>5. Rings'
    BY Zenon, <2>1, <2>2, KeepsSame, RingsSame DEF VirtioInv
  <2>. QED BY Zenon, <2>3, <2>4, <2>5 DEF VirtioInv
<1>2. CASE Device
  BY Zenon, <1>2, TakeStep, ServeStep DEF Device
<1>3. CASE Intr
  BY Zenon, <1>3, IntrStep, LoopStep DEF Intr
<1>4. ASSUME NEW p \in Proc, Call(p) \/ Process(p) \/ Kill(p) PROVE VirtioInv'
  BY Zenon, <1>4, CallStep, AllocFailStep, SubmitStep, SleepKillStep, ReturnStep DEF Process
<1>. QED BY Zenon, <1>1, <1>2, <1>3, <1>4 DEF Next

\* The driver and the device together keep every request where the invariant
\* says, for any number of processes and descriptors.
THEOREM VirtioInvariant == Spec => []VirtioInv
<1>. QED BY InitVirtio, VirtioStep, PTL DEF Spec

\* Requests own disjoint chains of three descriptors and nothing leaks,
\* whatever alloc3_desc failures, kills and completions come between.
THEOREM DescriptorsOwned == Spec => []DescsOwned
<1>1. VirtioInv => DescsOwned
  <2>. SUFFICES ASSUME VirtioInv PROVE DescsOwned
    OBVIOUS
  <2>1. InFlight = {p \in Proc : Flying(p)} /\ \A p \in Proc : Chain(head[p]) = Of(p)
    BY Zenon DEF InFlight, Flying, Chain, Of, Second, Third
  <2>2. ASSUME NEW p \in Proc, Flying(p)
        PROVE  Cardinality(Of(p)) = 3 /\ Of(p) \subseteq Desc /\ \A d \in Of(p) : ~free[d]
    <3>1. OwnsChain(p) /\ head[p] \in Desc
      BY Zenon, <2>2 DEF VirtioInv, Chains, Types, ProcTypes
    <3>2. Of(p) \subseteq Desc /\ \A d \in Of(p) : ~free[d]
      BY Zenon, <3>1 DEF OwnsChain, Of
    <3>3. IsFiniteSet({head[p]}) /\ Cardinality({head[p]}) = 1 /\ Second(p) \notin {head[p]}
      BY Zenon, <3>1, FS_Singleton DEF OwnsChain
    <3>4. IsFiniteSet({head[p]} \cup {Second(p)}) /\ Cardinality({head[p]} \cup {Second(p)}) = 1 + 1
      BY Zenon, <3>3, FS_AddElement
    <3>5. Third(p) \notin {head[p]} \cup {Second(p)}
      BY Zenon, <3>1 DEF OwnsChain
    <3>6. Cardinality(({head[p]} \cup {Second(p)}) \cup {Third(p)}) = (1 + 1) + 1
      BY Zenon, <3>4, <3>5, FS_AddElement
    <3>7. Of(p) = ({head[p]} \cup {Second(p)}) \cup {Third(p)}
      BY Zenon DEF Of
    <3>8. Cardinality(Of(p)) = (1 + 1) + 1
      BY Zenon, <3>6, <3>7
    <3>. QED BY <3>2, <3>8
  <2>3. EndOfChain \notin Desc
    BY Facts DEF EndOfChain, Desc
  <2>4. \A p \in InFlight : Cardinality(Chain(head[p])) = 3 /\ EndOfChain \notin Chain(head[p])
    BY Zenon, <2>1, <2>2, <2>3
  <2>5. \A p, q \in InFlight : p # q => Chain(head[p]) \cap Chain(head[q]) = {}
    BY Zenon, <2>1 DEF VirtioInv, Chains
  <2>6. FreeDescs = Desc \ UNION {Chain(head[p]) : p \in InFlight}
    <3>1. \A d \in Desc : ~free[d] => \E p \in InFlight : d \in Chain(head[p])
      <4>1. \A d \in Desc : ~free[d] => \E p \in Proc : Flying(p) /\ d \in Of(p)
        BY Zenon DEF VirtioInv, Chains
      <4>. QED BY Zenon, <2>1, <4>1
    <3>2. \A p \in InFlight : \A d \in Chain(head[p]) : ~free[d]
      BY Zenon, <2>1, <2>2
    <3>. QED BY Zenon, <3>1, <3>2 DEF FreeDescs
  <2>. QED BY Zenon, <2>4, <2>5, <2>6 DEF DescsOwned
<1>. QED BY <1>1, VirtioInvariant, PTL

\* The handler never meets a failed or unknown request, and reports none
\* twice, however far the indices have wrapped.
THEOREM CompletionsMatch == Spec => []CompletionMatches
<1>1. VirtioInv => CompletionMatches
  <2>. SUFFICES ASSUME VirtioInv, used_idx # usedIdx
                PROVE  /\ status[UsedId] /\ info[UsedId] # None
                       /\ disk[info[UsedId]] /\ head[info[UsedId]] = UsedId
    BY Zenon DEF CompletionMatches
  <2>1. PICK a \in Nat, b \in Nat, c \in Nat, e \in Nat : Indices(a, b, c, e) /\ Places(a, b, c, e) /\ Once(a, b, c, e)
    BY Zenon DEF VirtioInv, Rings
  <2>2. c # e
    BY Zenon, <2>1 DEF Indices
  <2>3. c \in c..e - 1
    BY <2>1, <2>2 DEF Indices
  <2>4. UsedId = Used(c)
    BY Zenon, <2>1, NextUsed DEF Indices, VirtioInv
  <2>. QED BY Zenon, <2>1, <2>3, <2>4, VirtioAssumption DEF Places, Req
<1>. QED BY <1>1, VirtioInvariant, PTL

\* No process and no completion is left waiting for a wakeup or an interrupt
\* that has gone by.
THEOREM NoneStranded == Spec => []NoCallStranded
<1>1. VirtioInv => NoCallStranded
  BY Zenon DEF VirtioInv, Waits, Data, NoCallStranded
<1>. QED BY <1>1, VirtioInvariant, PTL

\* virtio_disk_rw returns only to a caller whose buffer was transferred.
THEOREM ServedFirst == Spec => ServedBeforeReturn
<1>1. VirtioInv /\ [Next]_vars => [\A p \in Proc : pc[p] # "idle" /\ pc'[p] = "idle" => served[p]]_vars
  <2>. SUFFICES ASSUME VirtioInv, Next, NEW p \in Proc, pc[p] # "idle", pc'[p] = "idle" PROVE served[p]
    BY Zenon
  <2>1. CASE Device \/ Intr
    <3>1. pc' = pc \/ IntrLoop
      BY Zenon, <2>1 DEF Device, Intr, DeviceTake, DeviceServe, IntrAck, IntrDone
    <3>2. IntrLoop => pc'[p] = pc[p] \/ pc'[p] = "check"
      BY Zenon DEF IntrLoop, WakeBuf, VirtioInv, Types, ProcTypes
    <3>. QED BY Zenon, <3>1, <3>2
  <2>2. ASSUME NEW q \in Proc, Call(q) \/ Process(q) \/ Kill(q) PROVE served[p]
    <3>1. ~Call(q) /\ ~Submit(q) /\ ~SleepAgain(q) /\ ~Kill(q)
      BY Zenon DEF Call, Submit, SleepAgain, Kill, VirtioInv, Types, ProcTypes
    <3>2. ~AllocFail(q)
      BY Zenon DEF AllocFail, WakeFree, VirtioInv, Types, ProcTypes
    <3>3. Return(q) => p = q
      BY Zenon DEF Return, WakeFree, VirtioInv, Types, ProcTypes
    <3>4. Return(q) => served[q]
      BY Zenon DEF Return, VirtioInv, Data, Flying
    <3>. QED BY Zenon, <2>2, <3>1, <3>2, <3>3, <3>4 DEF Process
  <2>. QED BY Zenon, <2>1, <2>2 DEF Next
<1>. QED BY <1>1, VirtioInvariant, PTL DEF Spec, ServedBeforeReturn
=============================================================================
