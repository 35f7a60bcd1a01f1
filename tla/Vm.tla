--------------------------------- MODULE Vm ---------------------------------
(***************************************************************************)
(* kernel/kalloc.c, kernel/vm.c, kernel/exec.c and the memory side of      *)
(* fork, wait and sbrk in kernel/proc.c: the list of free pages and the    *)
(* page tables made from it.  kmem.lock is held inside kalloc and kfree    *)
(* only, so each call of one of them is a step; everything else these      *)
(* functions touch belongs to the calling process (or to a slot it has     *)
(* locked) and is done in the step of the next kalloc or kfree.            *)
(* Pages are interchangeable, so a page is named after the entry it is     *)
(* allocated for (while PagesAccounted holds, the name of an entry without *)
(* a page is free).  Its contents are "junk" (what kalloc fills it with),  *)
(* "zero" or "data"; of the PTE flags only PTE_U is kept.                  *)
(***************************************************************************)
EXTENDS Integers, FiniteSets, FiniteSetsExt, Functions

CONSTANTS Slot,       \* proc[]
          Initproc,
          None,
          NPAGE,      \* physical pages between end and PHYMEMSTOP
          ENTRIES,    \* PTEs of a page table page (512 in the code)
          LEVELS,     \* levels of a page table (3 in the code)
          PGSIZE,
          UINT64,     \* sizes are computed modulo UINT64 (2^64 in the code)
          SbrkArgs,   \* bound: arguments of sbrk
          MaxVaddr,   \* bound: the page of a segment's vaddr
          MaxMemsz    \* bound: a segment's memsz

ASSUME VmAssumption ==
  /\ Initproc \in Slot /\ None \notin Slot
  /\ ENTRIES \in Nat \ {0, 1} /\ LEVELS \in Nat \ {0} /\ PGSIZE \in Nat \ {0}
  /\ SbrkArgs \subseteq Int \ {0} /\ MaxVaddr \in Nat /\ MaxMemsz \in Nat
  \* physical memory is smaller than the address space, and wraps far from it
  /\ NPAGE \in Nat /\ 2 * LEVELS + 1 <= NPAGE /\ NPAGE + 2 <= ENTRIES^LEVELS
  /\ \A n \in SbrkArgs : UINT64 > PGSIZE * ENTRIES^LEVELS + (IF n < 0 THEN -n ELSE n)

Vpn == 0..ENTRIES^LEVELS - 1       \* virtual_address / PGSIZE
TRAMPOLINE == ENTRIES^LEVELS - 1
TRAPFRAME == ENTRIES^LEVELS - 2
PGROUNDUP(s) == (s + PGSIZE - 1) \div PGSIZE    \* in pages

\* The page table page that translates v at level l - 1 (PX); the root is the
\* one of level LEVELS.
Node(l, v) == <<l, v \div ENTRIES^l>>
Root == Node(LEVELS, 0)
Path(v) == {Node(l, v) : l \in 1..LEVELS}

VARIABLES
  data,       \* contents of the allocated pages; the others are on kmem.freelist
  state,      \* p->state
  sz,         \* p->sz
  trapframe,  \* p->trapframe
  pt,         \* page tables
  own,        \* p->pagetable; exec has the other one at hand
  k           \* the call a process is in

vars == <<data, state, sz, trapframe, pt, own, k>>

Table == Slot \X {"a", "b"}
Other(x) == IF x = "a" THEN "b" ELSE "a"
Empty == [node |-> <<>>, leaf |-> <<>>]
User == [call |-> "none", pc |-> "user", np |-> None, stage |-> "none", load |-> {},
         lo |-> 0, va |-> 0, hi |-> 0, mem |-> None, sz |-> 0, newsz |-> 0]

\* Names of pages: a trapframe, a page table page, a page of user memory.
TrapframePage(p) == <<p, "t", 0, 0>>
NodePage(t, n) == <<t[1], t[2], n[1], n[2]>>
UserPage(t, v) == <<t[1], t[2], 0, v>>

\* kinit and userinit.
Init ==
  LET t == <<Initproc, "a">>
      nodes == Path(TRAMPOLINE) \cup Path(0)
      leaf == [v \in {0, TRAPFRAME, TRAMPOLINE} |->
                 CASE v = 0 -> [pa |-> UserPage(t, 0), u |-> TRUE]
                   [] v = TRAPFRAME -> [pa |-> TrapframePage(Initproc), u |-> FALSE]
                   [] v = TRAMPOLINE -> [pa |-> None, u |-> FALSE]]
  IN /\ data = [pg \in {TrapframePage(Initproc), UserPage(t, 0)} \cup {NodePage(t, n) : n \in nodes} |->
                  IF pg[3] = 0 THEN "data" ELSE "zero"]
     /\ state = [p \in Slot |-> IF p = Initproc THEN "live" ELSE "unused"]
     /\ sz = [p \in Slot |-> IF p = Initproc THEN PGSIZE ELSE 0]
     /\ trapframe = [p \in Slot |-> IF p = Initproc THEN TrapframePage(p) ELSE None]
     /\ pt = [x \in Table |-> IF x = t THEN [node |-> [n \in nodes |-> NodePage(t, n)], leaf |-> leaf]
                              ELSE Empty]
     /\ own = [p \in Slot |-> "a"]
     /\ k = [p \in Slot |-> User]

-----------------------------------------------------------------------------
(* kalloc and kfree.                                                       *)

kalloc(pg, contents) ==
  /\ Cardinality(DOMAIN data) < NPAGE
  /\ data' = [x \in DOMAIN data \cup {pg} |-> IF x = pg THEN contents ELSE data[x]]

kallocFails ==
  /\ Cardinality(DOMAIN data) = NPAGE
  /\ UNCHANGED data

kfree(pg) == data' = Restrict(data, DOMAIN data \ {pg})

-----------------------------------------------------------------------------
(* What a process in a call works on.                                      *)

At(p, l) == k[p].pc = l
Own(p) == <<p, own[p]>>
Tab(p) == IF k[p].call = "exec" THEN <<p, Other(own[p])>> ELSE Own(k[p].np)
node(p) == pt[Tab(p)].node
leaf(p) == pt[Tab(p)].leaf
Goto(p, l) == k' = [k EXCEPT ![p].pc = l]
Return(p) == k' = [k EXCEPT ![p] = User]
Call(p, call, pc, np) == k' = [k EXCEPT ![p] = [User EXCEPT !.call = call, !.pc = pc, !.np = np]]
SetNode(p, n) ==
  pt' = [pt EXCEPT ![Tab(p)].node = [x \in DOMAIN @ \cup {n} |-> IF x = n THEN NodePage(Tab(p), n) ELSE @[x]]]
SetLeaf(p, v, pte) ==
  pt' = [pt EXCEPT ![Tab(p)].leaf = [x \in DOMAIN @ \cup {v} |-> IF x = v THEN pte ELSE @[x]]]
Without(f, S) == Restrict(f, DOMAIN f \ S)

\* Mutant: proc_freepagetable leaves the trapframe mapped.
proc_freepagetable_KeepTrapframe(p, t, size) ==
  /\ pt' = [pt EXCEPT ![t].leaf = Without(@, {TRAMPOLINE})]
  /\ k' = [k EXCEPT ![p] = [@ EXCEPT !.pc = "unmap", !.lo = 0, !.va = PGROUNDUP(size), !.mem = None]]

\* proc_freepagetable(table, size): the trampoline and the trapframe are
\* unmapped at once, the other pages and the tables one kfree at a time.
proc_freepagetable(p, t, size) ==
  /\ pt' = [pt EXCEPT ![t].leaf = Without(@, {TRAMPOLINE, TRAPFRAME})]
  /\ k' = [k EXCEPT ![p] = [@ EXCEPT !.pc = "unmap", !.lo = 0, !.va = PGROUNDUP(size), !.mem = None]]

\* exec's bad: with a page table.
bad(p) == proc_freepagetable(p, Tab(p), k[p].sz)

-----------------------------------------------------------------------------
(* proc_pagetable, mappages and walk.                                      *)

\* allocproc's trapframe.
AllocTrapframe(p) ==
  /\ At(p, "trapframe")
  /\ \/ /\ kalloc(TrapframePage(k[p].np), "junk")
        /\ trapframe' = [trapframe EXCEPT ![k[p].np] = TrapframePage(k[p].np)]
        /\ Goto(p, "root")
        /\ UNCHANGED state
     \/ /\ kallocFails
        /\ state' = [state EXCEPT ![k[p].np] = "unused"]
        /\ Return(p)
        /\ UNCHANGED trapframe
  /\ UNCHANGED <<sz, pt, own>>

\* uvmcreate; when it fails exec has no table to free, fork has a trapframe.
uvmcreate(p) ==
  /\ At(p, "root")
  /\ \/ /\ kalloc(NodePage(Tab(p), Root), "zero")
        /\ SetNode(p, Root)
        /\ k' = [k EXCEPT ![p].pc = "map", ![p].va = TRAMPOLINE]
     \/ /\ kallocFails
        /\ IF k[p].call = "exec" THEN Return(p) ELSE Goto(p, "freeproc")
        /\ UNCHANGED pt
  /\ UNCHANGED <<state, sz, trapframe, own>>

Missing(p) == Path(k[p].va) \ DOMAIN node(p)

\* walk with alloc: one missing table, the highest first.  When it fails,
\* proc_pagetable frees what there is of the table, uvmalloc and uvmcopy the
\* page they meant to map.
walk(p) ==
  /\ At(p, "map") /\ Missing(p) # {}
  /\ \/ /\ LET n == CHOOSE n \in Missing(p) : \A m \in Missing(p) : m[1] <= n[1]
           IN kalloc(NodePage(Tab(p), n), "zero") /\ SetNode(p, n)
        /\ UNCHANGED k
     \/ /\ kallocFails
        /\ IF k[p].va \in {TRAMPOLINE, TRAPFRAME}
           THEN proc_freepagetable(p, Tab(p), 0)
           ELSE Goto(p, "kfree") /\ UNCHANGED pt
  /\ UNCHANGED <<state, sz, trapframe, own>>

\* Mutant: uvmcopy maps every page for the user.
Flag_User(p) == TRUE

\* The PTE_U of a new mapping: uvmcopy takes the parent's flags.
Flag(p) == IF k[p].call = "fork" THEN pt[Own(p)].leaf[k[p].va].u ELSE TRUE

\* mappages, once walk has found the PTE.
mappages(p) ==
  /\ At(p, "map") /\ Missing(p) = {} /\ k[p].va \notin DOMAIN leaf(p)
  /\ CASE k[p].va = TRAMPOLINE ->
            /\ SetLeaf(p, TRAMPOLINE, [pa |-> None, u |-> FALSE])
            /\ k' = [k EXCEPT ![p].va = TRAPFRAME]
       [] k[p].va = TRAPFRAME ->
            /\ SetLeaf(p, TRAPFRAME, [pa |-> trapframe[k[p].np], u |-> FALSE])
            /\ k' = [k EXCEPT ![p] = [@ EXCEPT !.pc = IF k[p].call = "exec" THEN "segment" ELSE "page",
                                               !.va = 0, !.hi = PGROUNDUP(sz[p])]]
       [] OTHER ->
            /\ SetLeaf(p, k[p].va, [pa |-> k[p].mem, u |-> Flag(p)])
            /\ k' = [k EXCEPT ![p] = [@ EXCEPT !.pc = "page", !.va = @ + 1, !.mem = None]]
  /\ UNCHANGED <<data, state, sz, trapframe, own>>

-----------------------------------------------------------------------------
(* uvmalloc and uvmcopy.                                                   *)

\* Mutant: uvmalloc does not clear the page.
Contents_NoMemset(p) == IF k[p].call = "fork" THEN data[pt[Own(p)].leaf[k[p].va].pa] ELSE "junk"

\* What a new page holds: uvmcopy copies the parent's, uvmalloc clears it.
Contents(p) == IF k[p].call = "fork" THEN data[pt[Own(p)].leaf[k[p].va].pa] ELSE "zero"

\* One more page of the loop of uvmalloc or uvmcopy.
nextpage(p) ==
  LET mem == UserPage(Tab(p), k[p].va)
  IN /\ At(p, "page") /\ k[p].va < k[p].hi
     /\ k[p].call = "fork" => k[p].va \in DOMAIN pt[Own(p)].leaf
     /\ \/ /\ kalloc(mem, Contents(p))
           /\ k' = [k EXCEPT ![p] = [@ EXCEPT !.pc = "map", !.mem = mem]]
        \/ /\ kallocFails
           /\ Goto(p, "undo")
     /\ UNCHANGED <<state, sz, trapframe, pt, own>>

\* Mutant: the page that could not be mapped is forgotten.
kfreemem_Forget(p) ==
  /\ At(p, "kfree")
  /\ k' = [k EXCEPT ![p] = [@ EXCEPT !.pc = "undo", !.mem = None]]
  /\ UNCHANGED <<data, state, sz, trapframe, pt, own>>

\* mappages failed: kfree(mem).
kfreemem(p) ==
  /\ At(p, "kfree")
  /\ kfree(k[p].mem)
  /\ k' = [k EXCEPT ![p] = [@ EXCEPT !.pc = "undo", !.mem = None]]
  /\ UNCHANGED <<state, sz, trapframe, pt, own>>

\* uvmunmap with do_free: one page of lo..va-1.
uvmunmap(p) ==
  /\ k[p].pc \in {"undo", "unmap"} /\ k[p].lo < k[p].va
  /\ k[p].lo \in DOMAIN leaf(p)
  /\ kfree(leaf(p)[k[p].lo].pa)
  /\ pt' = [pt EXCEPT ![Tab(p)].leaf = Without(@, {k[p].lo})]
  /\ k' = [k EXCEPT ![p].lo = @ + 1]
  /\ UNCHANGED <<state, sz, trapframe, own>>

\* The return of a failed uvmalloc or uvmcopy, and of uvmdealloc.
undone(p) ==
  /\ At(p, "undo") /\ k[p].lo = k[p].va
  /\ CASE k[p].call = "sbrk" -> /\ sz' = [sz EXCEPT ![p] = k[p].sz]
                                /\ Return(p)
                                /\ UNCHANGED pt
       [] k[p].call = "exec" -> bad(p) /\ UNCHANGED sz
       [] k[p].call = "fork" -> Goto(p, "freeproc") /\ UNCHANGED <<pt, sz>>
  /\ UNCHANGED <<data, state, trapframe, own>>

-----------------------------------------------------------------------------
(* Giving a table back.                                                    *)

\* freewalk: the tables without tables below them, from the lowest address.
Childless(p) == {n \in DOMAIN node(p) :
                   \A m \in DOMAIN node(p) : m[1] = n[1] - 1 => m[2] \div ENTRIES # n[2]}
Lowest(n) == n[2] * ENTRIES^n[1]

freewalk(p) ==
  /\ At(p, "unmap") /\ k[p].lo = k[p].va /\ DOMAIN node(p) # {}
  /\ leaf(p) = <<>>
  /\ LET n == CHOOSE n \in Childless(p) : \A m \in Childless(p) : Lowest(n) <= Lowest(m)
     IN /\ kfree(node(p)[n])
        /\ pt' = [pt EXCEPT ![Tab(p)].node = Without(@, {n})]
  /\ UNCHANGED <<state, sz, trapframe, k, own>>

\* The rest of freeproc, back in fork or wait.
Freed(p) ==
  /\ state' = [state EXCEPT ![k[p].np] = "unused"]
  /\ sz' = [sz EXCEPT ![k[p].np] = 0]
  /\ own' = [own EXCEPT ![k[p].np] = "a"]
  /\ Return(p)

\* The table is gone: exec returns; in freeproc the trapframe went first,
\* after a failed proc_pagetable it is still there.
tablefreed(p) ==
  /\ At(p, "unmap") /\ k[p].lo = k[p].va /\ DOMAIN node(p) = {}
  /\ CASE k[p].call = "exec" -> Return(p) /\ UNCHANGED <<state, sz, own>>
       [] k[p].call # "exec" /\ trapframe[k[p].np] # None -> Goto(p, "freeproc") /\ UNCHANGED <<state, sz, own>>
       [] OTHER -> Freed(p)
  /\ UNCHANGED <<data, trapframe, pt>>

freeproc(p) ==
  LET np == k[p].np
  IN /\ At(p, "freeproc")
     /\ kfree(trapframe[np])
     /\ trapframe' = [trapframe EXCEPT ![np] = None]
     /\ IF Root \in DOMAIN node(p)
        THEN proc_freepagetable(p, Tab(p), sz[np]) /\ UNCHANGED <<state, sz, own>>
        ELSE Freed(p) /\ UNCHANGED pt

-----------------------------------------------------------------------------
(* The system calls.                                                       *)

InUser(p) == state[p] = "live" /\ At(p, "user")

fork(p, np) ==
  /\ InUser(p) /\ state[np] = "unused"
  /\ state' = [state EXCEPT ![np] = "used"]
  /\ Call(p, "fork", "trapframe", np)
  /\ UNCHANGED <<data, sz, trapframe, pt, own>>

\* uvmcopy is through: np->sz, np->trapframe, RUNNABLE.
forked(p) ==
  LET np == k[p].np
  IN /\ At(p, "page") /\ k[p].call = "fork" /\ k[p].va = k[p].hi
     /\ sz' = [sz EXCEPT ![np] = sz[p]]
     /\ data' = [data EXCEPT ![trapframe[np]] = data[trapframe[p]]]
     /\ state' = [state EXCEPT ![np] = "live"]
     /\ Return(p)
     /\ UNCHANGED <<trapframe, pt, own>>

\* growproc; uvmalloc and uvmdealloc up to their loops.  A negative n beyond
\* the size wraps, and uvmdealloc does nothing.
growproc(p, n) ==
  LET newsz == (sz[p] + n) % UINT64
      old == PGROUNDUP(sz[p])
      new == PGROUNDUP(newsz)
  IN /\ InUser(p)
     /\ \/ /\ n > 0
           /\ k' = [k EXCEPT ![p] = [User EXCEPT !.call = "sbrk", !.np = p, !.pc = "page", !.lo = old,
                                     !.va = old, !.hi = new, !.sz = sz[p], !.newsz = newsz]]
        \/ /\ n < 0 /\ newsz < sz[p]
           /\ k' = [k EXCEPT ![p] = [User EXCEPT !.call = "sbrk", !.np = p, !.pc = "undo", !.lo = new,
                                     !.va = old, !.sz = newsz]]
     /\ UNCHANGED <<data, state, sz, trapframe, pt, own>>

\* uvmalloc is through.
grown(p) ==
  /\ At(p, "page") /\ k[p].call = "sbrk" /\ k[p].va >= k[p].hi
  /\ sz' = [sz EXCEPT ![p] = k[p].newsz]
  /\ Return(p)
  /\ UNCHANGED <<data, state, trapframe, pt, own>>

\* exit keeps the memory; the parent's wait frees it, holding pp->lock.
exit(p) ==
  /\ InUser(p) /\ p # Initproc
  /\ state' = [state EXCEPT ![p] = "zombie"]
  /\ UNCHANGED <<data, sz, trapframe, pt, k, own>>

wait(p, np) ==
  /\ InUser(p) /\ state[np] = "zombie"
  /\ \A q \in Slot : k[q].np # np
  /\ Call(p, "wait", "freeproc", np)
  /\ UNCHANGED <<data, state, sz, trapframe, pt, own>>

\* exec, from the ELF header on; what fails before it has changed nothing.
exec(p) ==
  /\ InUser(p)
  /\ Call(p, "exec", "root", p)
  /\ UNCHANGED <<data, state, sz, trapframe, pt, own>>

\* A program header: uvmalloc up to its loop.  It returns the larger of the
\* two sizes, and 0 counts as its failure.
segment(p, vaddr, memsz, filesz) ==
  LET newsz == vaddr * PGSIZE + memsz
      lo == PGROUNDUP(k[p].sz)
  IN /\ At(p, "segment") /\ filesz <= memsz
     /\ IF newsz = 0 /\ k[p].sz = 0
        THEN bad(p)
        ELSE /\ k' = [k EXCEPT ![p] =
                        [@ EXCEPT !.pc = "page", !.stage = "seg", !.lo = lo, !.va = lo,
                                  !.load = vaddr..vaddr + PGROUNDUP(filesz) - 1,
                                  !.hi = IF newsz < k[p].sz THEN lo ELSE PGROUNDUP(newsz),
                                  !.newsz = IF newsz < k[p].sz THEN k[p].sz ELSE newsz]]
             /\ UNCHANGED pt
     /\ UNCHANGED <<data, state, sz, trapframe, own>>

\* A program header that cannot be read or is refused.
badsegment(p) ==
  /\ At(p, "segment")
  /\ bad(p)
  /\ UNCHANGED <<data, state, sz, trapframe, own>>

\* loadseg, which walkaddr must not fail, or a file that is too short.
loadseg(p) ==
  /\ At(p, "page") /\ k[p].stage = "seg" /\ k[p].va = k[p].hi
  /\ \A v \in k[p].load : v \in DOMAIN leaf(p) /\ leaf(p)[v].u
  /\ \/ /\ data' = [pg \in DOMAIN data |-> IF \E v \in k[p].load : leaf(p)[v].pa = pg THEN "data" ELSE data[pg]]
        /\ k' = [k EXCEPT ![p] = [@ EXCEPT !.pc = "segment", !.sz = k[p].newsz, !.load = {}]]
        /\ UNCHANGED pt
     \/ /\ proc_freepagetable(p, Tab(p), k[p].newsz)
        /\ UNCHANGED data
  /\ UNCHANGED <<state, sz, trapframe, own>>

\* After the last program header: uvmalloc of the guard page and the stack.
stack(p) ==
  LET lo == PGROUNDUP(k[p].sz)
  IN /\ At(p, "segment")
     /\ k' = [k EXCEPT ![p] = [@ EXCEPT !.pc = "page", !.stage = "stack", !.lo = lo, !.va = lo, !.hi = lo + 2,
                                        !.sz = lo * PGSIZE, !.newsz = (lo + 2) * PGSIZE]]
     /\ UNCHANGED <<data, state, sz, trapframe, pt, own>>

StackReady(p) == At(p, "page") /\ k[p].stage = "stack" /\ k[p].va = k[p].hi

\* uvmclear, the arguments on the stack, and the new image takes the place of
\* the old one, which is freed.
newimage(p) ==
  LET top == k[p].hi - 1
  IN /\ StackReady(p)
     /\ data' = [data EXCEPT ![leaf(p)[top].pa] = "data"]
     /\ pt' = [pt EXCEPT ![Tab(p)].leaf[top - 1].u = FALSE,
                         ![Own(p)].leaf = Without(@, {TRAMPOLINE, TRAPFRAME})]
     /\ own' = [own EXCEPT ![p] = Other(@)]
     /\ sz' = [sz EXCEPT ![p] = k[p].newsz]
     /\ k' = [k EXCEPT ![p] = [User EXCEPT !.call = "exec", !.np = p, !.pc = "unmap", !.va = PGROUNDUP(sz[p])]]
     /\ UNCHANGED <<state, trapframe>>

\* Too many or too long arguments.
badargs(p) ==
  /\ StackReady(p)
  /\ proc_freepagetable(p, Tab(p), k[p].newsz)
  /\ UNCHANGED <<data, state, sz, trapframe, own>>

-----------------------------------------------------------------------------
Next ==
  \E p \in Slot :
    \/ AllocTrapframe(p) \/ uvmcreate(p) \/ walk(p) \/ mappages(p)
    \/ nextpage(p) \/ kfreemem(p) \/ uvmunmap(p) \/ undone(p)
    \/ freewalk(p) \/ tablefreed(p) \/ freeproc(p)
    \/ \E np \in Slot : fork(p, np) \/ wait(p, np)
    \/ forked(p) \/ grown(p) \/ exit(p)
    \/ \E n \in SbrkArgs : growproc(p, n)
    \/ exec(p) \/ badsegment(p) \/ loadseg(p) \/ stack(p) \/ newimage(p) \/ badargs(p)
    \/ \E vaddr \in 0..MaxVaddr, memsz \in 0..MaxMemsz : \E filesz \in 0..memsz :
         segment(p, vaddr, memsz, filesz)

Spec == Init /\ [][Next]_vars

-----------------------------------------------------------------------------
(* Properties.                                                             *)

\* The pages handed to kfree from a page table, and how many entries do.
Mapped(t) == {pt[t].leaf[v].pa : v \in DOMAIN pt[t].leaf \cap 0..TRAPFRAME - 1} \cup Range(pt[t].node)
Entries(t) == Cardinality(DOMAIN pt[t].leaf \cap 0..TRAPFRAME - 1) + Cardinality(DOMAIN pt[t].node)

\* Every page kalloc handed out is held in exactly one place (a page table, a
\* user mapping, a trapframe or a call that is about to map it): the
\* error paths of uvmalloc, uvmcopy, proc_pagetable, fork and exec give back
\* each page once, and no two processes share one.
PagesAccounted ==
  LET holds(f) == {p \in Slot : f[p] # None}
      mem == [p \in Slot |-> k[p].mem]
  IN /\ {trapframe[p] : p \in holds(trapframe)} \cup {mem[p] : p \in holds(mem)}
          \cup UNION {Mapped(t) : t \in Table} = DOMAIN data
     /\ Cardinality(holds(trapframe)) + Cardinality(holds(mem)) + MapThenSumSet(Entries, Table)
          = Cardinality(DOMAIN data)

\* Outside sbrk and between the calls a process's image is whole: pages from
\* 0 to PGROUNDUP(p->sz) and no other are mapped, above them the trampoline
\* and its own trapframe, none shows what another process left in it; this
\* holds throughout exec, also when it fails.
ImageWhole ==
  \A p \in Slot : state[p] = "live" /\ k[p].call # "sbrk" =>
    LET l == pt[Own(p)].leaf
        user == 0..PGROUNDUP(sz[p]) - 1
    IN /\ DOMAIN l = user \cup {TRAMPOLINE, TRAPFRAME}
       /\ \A v \in user : data[l[v].pa] # "junk"
       /\ l[TRAPFRAME].pa = trapframe[p] /\ data[trapframe[p]] = "data"

\* No call gets to a panic of vm.c or exec.c: a page to be mapped is not mapped
\* yet, a page to be unmapped or copied is there, nothing is mapped any more
\* when freewalk runs, and loadseg finds the pages uvmalloc made.
NoPanic ==
  \A p \in Slot :
    /\ At(p, "map") => k[p].va \notin DOMAIN leaf(p)
    /\ k[p].pc \in {"undo", "unmap"} => k[p].lo..k[p].va - 1 \subseteq DOMAIN leaf(p)
    /\ At(p, "unmap") => DOMAIN leaf(p) = k[p].lo..k[p].va - 1
    /\ At(p, "page") /\ k[p].call = "fork" => k[p].va..k[p].hi - 1 \subseteq DOMAIN pt[Own(p)].leaf
    /\ At(p, "page") /\ k[p].va = k[p].hi => \A v \in k[p].load : v \in DOMAIN leaf(p) /\ leaf(p)[v].u

\* A process's memory: contents and PTE_U of its pages.
Image(p) == LET l == pt[Own(p)].leaf
            IN [v \in DOMAIN l \ {TRAMPOLINE, TRAPFRAME} |-> <<data[l[v].pa], l[v].u>>]

\* A process starts to run with a copy of its parent's memory, the guard page
\* below the stack included, although uvmcopy takes many steps.
ForkCopies ==
  [][\A p, np \in Slot : forked(p) /\ np = k[p].np => Image(np)' = Image(p)]_vars
=============================================================================
