---------------------------- MODULE InodeProofs -----------------------------
(***************************************************************************)
(* Proofs about Inode, for any number of processes, names, dinodes and     *)
(* slots of the inode table: references are counted exactly (RefsExact)    *)
(* and so are links (LinksExact), iput never waits for an inode lock       *)
(* (IputNeverSleeps), no dinode is freed early (NoneFreedEarly), and locks *)
(* are taken in order (LocksInOrder).                                      *)
(*                                                                         *)
(* They depend on each other: iput frees an inode because its one          *)
(* reference and no link are left, which is right only if both are counted *)
(* exactly and the slot's link count is the disk's.  InodeInv adds why     *)
(* nobody gets at an inode between iput's test and itrunc (it has no name, *)
(* and ialloc does not hand it out), nor at one that create has allocated  *)
(* and not named yet, except who has freed it before and is about to let   *)
(* its slot go.                                                            *)
(***************************************************************************)
EXTENDS Inode, TLAPS

\* Where a process holds the lock of its inode, and where the directory's.
Holding == {"opened", "create", "unlink", "link", "bad",
            "itrunc", "iinval", "create_itrunc", "create_iinval"}
DirHolding == {"create_iget", "create_lock", "create", "create_iput", "create_itrunc",
               "create_iinval", "create_iref", "unlink_lock", "unlink", "link_exists"}
Freeing == {"itrunc", "create_itrunc"}
Freed == {"iinval", "iref", "create_iinval", "create_iref"}
Counting == {"link_dir", "link_exists", "bad_lock", "bad"}
Creating == {"create_lock", "create"}
Pcs == Holding \cup DirHolding \cup Counting \cup Locking \cup {"idle", "file", "iput", "iref"}

DiskTypes == used \in [Inum -> BOOLEAN] /\ dnlink \in [Inum -> Nat] /\ entry \in [Name -> Inum \cup {Null}]
SlotTypes ==
  /\ inum \in [Slot -> Inum \cup {Null}] /\ ref \in [Slot -> Nat] /\ valid \in [Slot -> BOOLEAN]
  /\ nlink \in [Slot -> Nat] /\ slock \in [Slot -> Proc \cup {None}] /\ dlock \in Proc \cup {None}
ProcTypes ==
  /\ pc \in [Proc -> Pcs] /\ ip \in [Proc -> Slot \cup {Null}] /\ DOMAIN name = Proc
  /\ num \in [Proc -> Inum \cup {Null}] /\ aux \in [Proc -> Slot \cup {Null}]
Types == DiskTypes /\ SlotTypes /\ ProcTypes

\* What a process has, and the locks, by where it is.
Has ==
  \A p \in Proc : /\ ip[p] = Null <=> pc[p] \in {"idle", "create_iget"}
                  /\ num[p] = Null <=> pc[p] # "create_iget"
                  /\ aux[p] = Null <=> pc[p] # "link_exists"
Locks ==
  /\ \A p \in Proc : dlock = p <=> pc[p] \in DirHolding
  /\ \A s \in Slot : \A p \in Proc : slock[s] = p <=> pc[p] \in Holding /\ ip[p] = s

\* References, and what a referenced slot is.
By(s) == {p \in Proc : ip[p] = s}
ByAux(s) == {p \in Proc : aux[p] = s}
Counts == \A s \in Slot : ref[s] = Cardinality(By(s)) + Cardinality(ByAux(s))
Slots ==
  /\ \A s \in Slot : ref[s] > 0 => inum[s] \in Inum
  /\ \A s, t \in Slot : ref[s] > 0 /\ ref[t] > 0 /\ inum[s] = inum[t] => s = t
  /\ \A s \in Slot : ref[s] > 0 /\ valid[s] => nlink[s] = dnlink[inum[s]]
  /\ \A p \in Proc : pc[p] \in Holding => valid[ip[p]]

\* Links.
Names(n) == {f \in Name : entry[f] = n}
Links == \A n \in Inum : dnlink[n] = Cardinality(Names(n)) + Cardinality(Pending(n))

\* What is in use, and that it is not linked when it is not.
Uses ==
  /\ \A f \in Name : entry[f] # Null => used[entry[f]]
  /\ \A n \in Inum : ~used[n] => dnlink[n] = 0
  /\ \A p \in Proc : ip[p] # Null /\ pc[p] \notin Freed => used[inum[ip[p]]]
  /\ \A p \in Proc : num[p] # Null => used[num[p]]

\* An inode that iput is about to free is p's alone.
Sole(p) == \A q \in Proc : (ip[q] = ip[p] => q = p) /\ aux[q] # ip[p]
Frees == \A p \in Proc : pc[p] \in Freeing => Sole(p) /\ nlink[ip[p]] = 0

\* A new inode has no name and is p's alone, but for those that freed it.
Fresh(p, n) ==
  /\ dnlink[n] = 0 /\ name[p] \in Name /\ entry[name[p]] = Null
  /\ \A q \in Proc : q # p /\ ip[q] # Null /\ inum[ip[q]] = n => pc[q] \in Freed
News ==
  \A p \in Proc : /\ pc[p] = "create_iget" => Fresh(p, num[p])
                  /\ pc[p] \in Creating => Fresh(p, inum[ip[p]])

\* The directory stays as its holder found it.
Found ==
  \A p \in Proc : /\ pc[p] \in {"unlink_lock", "unlink"} => name[p] \in Name /\ entry[name[p]] = inum[ip[p]]
                  /\ pc[p] = "link_exists" => \E f \in Name : entry[f] = inum[aux[p]]

InodeInv == Types /\ Has /\ Locks /\ Counts /\ Slots /\ Links /\ Uses /\ Frees /\ News /\ Found

\* What the proofs use of finite sets and of the first of a set of numbers.
\* It holds (SetFactsHold, at the end, where the library comes in).
SetFacts ==
  /\ \A S : \A T \in SUBSET S : IsFiniteSet(S) => IsFiniteSet(T) /\ Cardinality(T) \in Nat
  /\ \A S, x : IsFiniteSet(S) /\ x \notin S => IsFiniteSet(S \cup {x}) /\ Cardinality(S \cup {x}) = Cardinality(S) + 1
  /\ \A S : IsFiniteSet(S) => (Cardinality(S) = 0 <=> S = {})
  /\ \A S \in SUBSET Nat : S # {} => Min(S) \in S

-----------------------------------------------------------------------------
\* Slots, inode numbers and no slot are told apart, and so are the positions.
LEMMA Facts ==
  /\ Null \notin Slot /\ Null \notin Inum /\ Slot \subseteq Nat /\ Inum \subseteq Nat
  /\ None \notin Proc
<1>1. Slot \subseteq Nat /\ Inum \subseteq Nat /\ Null \notin Slot /\ Null \notin Inum
  BY InodeAssumption DEF Slot, Inum, Null
<1>. QED BY Zenon, <1>1, InodeAssumption

\* The first of a set of slots or inode numbers is one of them.
LEMMA MinIn == ASSUME SetFacts, NEW S, S \subseteq Nat, S # {} PROVE Min(S) \in S
  BY Zenon DEF SetFacts

\* A step of p as the other processes see it: it moves p alone, keeps the
\* referenced slots' numbers, changes the directory under its lock, the
\* counters of p's inode only, and goes from an inode p has freed nowhere but
\* to the next step of iput or out.
Others(p) ==
  \A q \in Proc : q # p => /\ pc'[q] = pc[q] /\ ip'[q] = ip[q] /\ num'[q] = num[q]
                           /\ aux'[q] = aux[q] /\ name'[q] = name[q]
Gets(p, t) ==
  t = Null \/ t = ip[p] \/ t = aux[p]
  \/ (dlock \in {None, p} /\ \A q \in Proc : q # p /\ pc[q] \in Freeing => ip[q] # t)
Keeps(p) ==
  /\ Others(p)
  /\ \A s \in Slot : ref[s] > 0 => inum'[s] = inum[s]
  /\ entry' = entry \/ dlock \in {None, p}
  /\ \A n \in Inum : dnlink'[n] = dnlink[n] \/ (ip[p] # Null /\ pc[p] \notin Freed /\ inum[ip[p]] = n)
  /\ \A s \in Slot : nlink'[s] = nlink[s] \/ s = ip[p]
  /\ Gets(p, ip'[p]) /\ Gets(p, aux'[p])
  /\ ip'[p] = ip[p] \/ ip'[p] = Null \/ dlock \in {None, p}
  /\ pc[p] \in Freed => pc'[p] \in Freed \/ ip'[p] = Null

HasAt(p) == /\ ip[p] = Null <=> pc[p] \in {"idle", "create_iget"}
            /\ num[p] = Null <=> pc[p] # "create_iget"
            /\ aux[p] = Null <=> pc[p] # "link_exists"
FreesAt(p) == pc[p] \in Freeing => Sole(p) /\ nlink[ip[p]] = 0
NewAt(p) == /\ pc[p] = "create_iget" => Fresh(p, num[p])
            /\ pc[p] \in Creating => Fresh(p, inum[ip[p]])
FoundAt(p) ==
  /\ pc[p] \in {"unlink_lock", "unlink"} => name[p] \in Name /\ entry[name[p]] = inum[ip[p]]
  /\ pc[p] = "link_exists" => \E f \in Name : entry[f] = inum[aux[p]]

-----------------------------------------------------------------------------
\* Sets of processes and of names are finite.
LEMMA Finite ==
  ASSUME SetFacts
  PROVE  /\ \A s : IsFiniteSet(By(s)) /\ Cardinality(By(s)) \in Nat
         /\ \A s : IsFiniteSet(ByAux(s)) /\ Cardinality(ByAux(s)) \in Nat
         /\ \A n : IsFiniteSet(Names(n)) /\ Cardinality(Names(n)) \in Nat
         /\ \A n : IsFiniteSet(Pending(n)) /\ Cardinality(Pending(n)) \in Nat
<1>1. \A s : By(s) \in SUBSET Proc /\ ByAux(s) \in SUBSET Proc
  BY Zenon DEF By, ByAux
<1>2. \A n : Names(n) \in SUBSET Name /\ Pending(n) \in SUBSET Proc
  BY Zenon DEF Names, Pending
<1>3. \A S : S \in SUBSET Proc \/ S \in SUBSET Name => IsFiniteSet(S) /\ Cardinality(S) \in Nat
  BY Zenon, InodeAssumption DEF SetFacts
<1>. QED BY Zenon, <1>1, <1>2, <1>3

\* A part of a finite set is finite.
LEMMA FiniteSub ==
  ASSUME SetFacts, NEW S, IsFiniteSet(S), NEW T \in SUBSET S
  PROVE  IsFiniteSet(T) /\ Cardinality(T) \in Nat
  BY Zenon DEF SetFacts

\* A set with one more element,
LEMMA OneMore ==
  ASSUME SetFacts, NEW S, IsFiniteSet(S), NEW x, x \notin S, NEW T, T = S \cup {x}
  PROVE  Cardinality(T) = Cardinality(S) + 1 /\ Cardinality(T) \in Nat
<1>1. IsFiniteSet(T) /\ Cardinality(T) = Cardinality(S) + 1
  BY Zenon DEF SetFacts
<1>. QED BY Zenon, <1>1, FiniteSub

\* and one with an element fewer.
LEMMA OneLess ==
  ASSUME SetFacts, NEW S, IsFiniteSet(S), NEW x \in S, NEW T, T = S \ {x}
  PROVE  Cardinality(S) = Cardinality(T) + 1 /\ Cardinality(T) \in Nat
<1>1. T \in SUBSET S /\ x \notin T /\ S = T \cup {x}
  BY Zenon
<1>. QED BY Zenon, <1>1, FiniteSub, OneMore

\* An empty set counts zero, and only an empty one does.
LEMMA ZeroIsEmpty == ASSUME SetFacts, NEW S, IsFiniteSet(S) PROVE Cardinality(S) = 0 <=> S = {}
  BY Zenon DEF SetFacts

\* Who has a slot counts in its references,
LEMMA RefPos ==
  ASSUME SetFacts, Types, Counts, NEW p \in Proc
  PROVE  (ip[p] # Null => ip[p] \in Slot /\ ref[ip[p]] > 0) /\ (aux[p] # Null => aux[p] \in Slot /\ ref[aux[p]] > 0)
<1>1. (ip[p] # Null => ip[p] \in Slot) /\ (aux[p] # Null => aux[p] \in Slot)
  BY Zenon DEF Types, ProcTypes
<1>2. ASSUME NEW s \in Slot, p \in By(s) \/ p \in ByAux(s) PROVE ref[s] > 0
  <2>1. PICK k \in Nat, m \in Nat : k = Cardinality(By(s)) /\ m = Cardinality(ByAux(s))
    BY Zenon, Finite
  <2>2. k # 0 \/ m # 0
    BY Zenon, <1>2, <2>1, ZeroIsEmpty, Finite
  <2>3. ref[s] = k + m
    BY Zenon, <2>1 DEF Counts
  <2>. QED BY <2>1, <2>2, <2>3
<1>. QED BY Zenon, <1>1, <1>2 DEF By, ByAux

\* and is alone with it when they are one.
LEMMA RefOne ==
  ASSUME SetFacts, Types, Counts, NEW p \in Proc, ip[p] # Null, ref[ip[p]] = 1
  PROVE  Sole(p)
<1>. DEFINE s == ip[p]
             T == By(s) \ {p}
<1>1. s \in Slot /\ p \in By(s)
  BY Zenon, RefPos DEF By
<1>2. IsFiniteSet(T) /\ IsFiniteSet(ByAux(s))
  BY Zenon, Finite, FiniteSub
<1>3. Cardinality(By(s)) = Cardinality(T) + 1 /\ Cardinality(T) \in Nat
  BY Zenon, <1>1, Finite, OneLess
<1>4. Cardinality(T) = 0 /\ Cardinality(ByAux(s)) = 0
  <2>1. PICK k \in Nat, m \in Nat : k = Cardinality(T) /\ m = Cardinality(ByAux(s))
    BY Zenon, <1>3, Finite
  <2>2. ref[s] = Cardinality(By(s)) + m
    BY Zenon, <1>1, <2>1 DEF Counts
  <2>3. 1 = (k + 1) + m
    BY Zenon, <1>3, <2>1, <2>2
  <2>. QED BY <2>1, <2>3
<1>5. T = {} /\ ByAux(s) = {}
  BY Zenon, <1>2, <1>4, ZeroIsEmpty
<1>. QED BY Zenon, <1>5 DEF By, ByAux, Sole

\* An inode with a name has a link.
LEMMA NamedLinked == ASSUME SetFacts, Types, Links, NEW f \in Name, entry[f] # Null PROVE entry[f] \in Inum /\ dnlink[entry[f]] > 0
<1>. DEFINE n == entry[f]
<1>1. n \in Inum
  BY Zenon DEF Types, DiskTypes
<1>2. PICK k \in Nat, m \in Nat : k = Cardinality(Names(n)) /\ m = Cardinality(Pending(n))
  BY Zenon, Finite
<1>3. k # 0
  <2>1. f \in Names(n)
    BY Zenon DEF Names
  <2>. QED BY Zenon, <1>2, <2>1, ZeroIsEmpty, Finite
<1>4. dnlink[n] = k + m
  BY Zenon, <1>1, <1>2 DEF Links
<1>5. dnlink[n] > 0
  BY <1>2, <1>3, <1>4
<1>. QED BY Zenon, <1>1, <1>5

-----------------------------------------------------------------------------
\* The holder of the directory is the only one.
LEMMA DirHeld ==
  ASSUME Locks, NEW p \in Proc, NEW q \in Proc, q # p, pc[q] \in DirHolding
  PROVE  dlock \notin {None, p}
  BY ZenonT(30), Facts DEF Locks

\* A step that Keeps what others rely on leaves them what they have.
LEMMA OthersKept ==
  ASSUME SetFacts, InodeInv, NEW p \in Proc, Keeps(p), Types', Counts', NEW q \in Proc, q # p
  PROVE  HasAt(q)' /\ FreesAt(q)' /\ NewAt(q)' /\ FoundAt(q)'
<1>1. /\ pc'[q] = pc[q] /\ ip'[q] = ip[q] /\ num'[q] = num[q] /\ aux'[q] = aux[q] /\ name'[q] = name[q]
      /\ (ip[q] # Null => ip[q] \in Slot /\ ref[ip[q]] > 0) /\ (aux[q] # Null => aux[q] \in Slot /\ ref[aux[q]] > 0)
  BY Zenon, RefPos DEF Keeps, Others, InodeInv
<1>2. HasAt(q)'
  BY Zenon, <1>1 DEF HasAt, InodeInv, Has
<1>3. (ip[q] # Null => inum'[ip[q]] = inum[ip[q]]) /\ (aux[q] # Null => inum'[aux[q]] = inum[aux[q]])
  BY Zenon, <1>1 DEF Keeps
<1>4. pc[q] \in DirHolding => entry' = entry
  BY Zenon, DirHeld DEF InodeInv, Keeps
<1>5. FreesAt(q)'
  <2>. SUFFICES ASSUME pc[q] \in Freeing PROVE Sole(q)' /\ nlink'[ip[q]] = 0
    BY Zenon, <1>1 DEF FreesAt
  <2>1. Sole(q) /\ nlink[ip[q]] = 0
    BY Zenon DEF InodeInv, Frees
  <2>2. ip[q] # Null
    BY Zenon DEF InodeInv, Has, Freeing
  <2>3. ip[p] # ip[q] /\ aux[p] # ip[q] /\ aux[q] # ip[q]
    BY Zenon, <2>1 DEF Sole
  <2>4. ip'[p] # ip[q] /\ aux'[p] # ip[q]
    BY Zenon, <2>2, <2>3 DEF Keeps, Gets
  <2>5. ASSUME NEW x \in Proc PROVE (ip'[x] = ip[q] => x = q) /\ aux'[x] # ip[q]
    <3>1. CASE x = p
      BY Zenon, <2>4, <3>1
    <3>2. CASE x # p
      BY Zenon, <2>1, <3>2 DEF Sole, Keeps, Others
    <3>. QED BY Zenon, <3>1, <3>2
  <2>6. nlink'[ip[q]] = nlink[ip[q]]
    BY Zenon, <1>1, <2>2, <2>3 DEF Keeps
  <2>. QED BY Zenon, <1>1, <2>1, <2>5, <2>6 DEF Sole
<1>6. ASSUME NEW n \in Inum, pc[q] = "create_iget" \/ pc[q] \in Creating, Fresh(q, n) PROVE Fresh(q, n)'
  <2>1. pc[q] \in DirHolding
    BY Zenon, <1>6 DEF DirHolding, Creating
  <2>2. dlock \notin {None, p} /\ entry' = entry
    BY Zenon, <1>4, <2>1, DirHeld DEF InodeInv
  <2>3. dnlink'[n] = dnlink[n]
    BY Zenon, <1>6 DEF Keeps, Fresh
  <2>4. ASSUME NEW x \in Proc, x # q, ip'[x] # Null, inum'[ip'[x]] = n PROVE pc'[x] \in Freed
    <3>1. ip'[x] = ip[x] /\ (x # p => pc'[x] = pc[x])
      BY Zenon, <2>2, <2>4 DEF Keeps, Others
    <3>2. inum[ip[x]] = n
      BY Zenon, <2>4, <3>1, RefPos DEF Keeps, InodeInv
    <3>3. pc[x] \in Freed
      BY Zenon, <1>6, <2>4, <3>1, <3>2 DEF Fresh
    <3>. QED BY Zenon, <2>4, <3>1, <3>3 DEF Keeps
  <2>. QED BY Zenon, <1>1, <1>6, <2>2, <2>3, <2>4 DEF Fresh
<1>7. NewAt(q)'
  <2>1. (pc[q] = "create_iget" => num[q] \in Inum) /\ (pc[q] \in Creating => inum[ip[q]] \in Inum /\ ip[q] # Null)
    <3>1. pc[q] = "create_iget" => num[q] \in Inum
      BY Zenon DEF InodeInv, Has, Types, ProcTypes
    <3>2. pc[q] \in Creating => ip[q] # Null
      BY Zenon DEF InodeInv, Has, Creating
    <3>. QED BY Zenon, <1>1, <3>1, <3>2 DEF InodeInv, Slots
  <2>2. CASE pc[q] = "create_iget"
    <3>1. PICK n \in Inum : n = num[q]
      BY Zenon, <2>1, <2>2
    <3>2. Fresh(q, n)'
      BY Zenon, <1>6, <2>2, <3>1 DEF InodeInv, News
    <3>3. pc'[q] = "create_iget" /\ num'[q] = n /\ pc'[q] \notin Creating
      BY Zenon, <1>1, <2>2, <3>1 DEF Creating
    <3>. QED BY Zenon, <3>2, <3>3 DEF NewAt, Fresh
  <2>3. CASE pc[q] \in Creating
    <3>1. PICK n \in Inum : n = inum[ip[q]]
      BY Zenon, <2>1, <2>3
    <3>2. Fresh(q, n)'
      BY Zenon, <1>6, <2>3, <3>1 DEF InodeInv, News
    <3>3. pc'[q] # "create_iget" /\ inum'[ip'[q]] = n
      BY Zenon, <1>1, <1>3, <2>1, <2>3, <3>1 DEF Creating
    <3>. QED BY Zenon, <3>2, <3>3 DEF NewAt, Fresh
  <2>. QED BY Zenon, <1>1, <2>2, <2>3 DEF NewAt
<1>8. FoundAt(q)'
  <2>1. pc[q] \in {"unlink_lock", "unlink", "link_exists"} => entry' = entry
    BY Zenon, <1>4 DEF DirHolding
  <2>2. pc[q] \in {"unlink_lock", "unlink"} => ip[q] # Null /\ name[q] \in Name /\ entry[name[q]] = inum[ip[q]]
    BY Zenon DEF InodeInv, Has, Found
  <2>3. pc[q] = "link_exists" => aux[q] # Null /\ \E f \in Name : entry[f] = inum[aux[q]]
    BY Zenon DEF InodeInv, Has, Found
  <2>. QED BY Zenon, <1>1, <1>3, <2>1, <2>2, <2>3 DEF FoundAt
<1>. QED BY Zenon, <1>2, <1>5, <1>7, <1>8

\* so that it keeps the invariant if it keeps the rest of it.
LEMMA StepOK ==
  ASSUME SetFacts, InodeInv, NEW p \in Proc, Keeps(p), Types', Locks', Counts', Slots', Links', Uses',
         HasAt(p)', FreesAt(p)', NewAt(p)', FoundAt(p)'
  PROVE  InodeInv'
<1>1. \A q \in Proc : HasAt(q)' /\ FreesAt(q)' /\ NewAt(q)' /\ FoundAt(q)'
  BY Zenon, OthersKept
<1>2. Has'
  BY Zenon, <1>1 DEF HasAt, Has
<1>3. Frees'
  BY Zenon, <1>1 DEF FreesAt, Frees
<1>4. News'
  BY Zenon, <1>1 DEF NewAt, News
<1>5. Found'
  BY Zenon, <1>1 DEF FoundAt, Found
<1>. QED BY Zenon, <1>2, <1>3, <1>4, <1>5 DEF InodeInv

-----------------------------------------------------------------------------
\* The conjuncts of the invariant about all processes or slots, from what a
\* step of p does.  Locks change between p and nobody.
LEMMA LocksStep ==
  ASSUME SetFacts, InodeInv, NEW p \in Proc, Others(p),
         dlock' = dlock \/ (dlock \in {None, p} /\ dlock' \in {None, p}),
         dlock' = p <=> pc'[p] \in DirHolding,
         \A s \in Slot : slock'[s] = slock[s] \/ (slock[s] \in {None, p} /\ slock'[s] \in {None, p}),
         \A s \in Slot : slock'[s] = p <=> pc'[p] \in Holding /\ ip'[p] = s
  PROVE  Locks'
<1>1. ASSUME NEW q \in Proc PROVE dlock' = q <=> pc'[q] \in DirHolding
  <2>1. CASE q = p
    BY Zenon, <2>1
  <2>2. CASE q # p
    <3>1. pc'[q] = pc[q] /\ (dlock = q <=> pc[q] \in DirHolding)
      BY Zenon, <2>2 DEF Others, InodeInv, Locks
    <3>2. dlock' = q <=> dlock = q
      BY Zenon, <2>2, Facts
    <3>. QED BY Zenon, <3>1, <3>2
  <2>. QED BY Zenon, <2>1, <2>2
<1>2. ASSUME NEW s \in Slot, NEW q \in Proc PROVE slock'[s] = q <=> pc'[q] \in Holding /\ ip'[q] = s
  <2>1. CASE q = p
    BY Zenon, <2>1
  <2>2. CASE q # p
    <3>1. pc'[q] = pc[q] /\ ip'[q] = ip[q] /\ (slock[s] = q <=> pc[q] \in Holding /\ ip[q] = s)
      BY Zenon, <2>2 DEF Others, InodeInv, Locks
    <3>2. slock'[s] = q <=> slock[s] = q
      BY Zenon, <2>2, Facts
    <3>. QED BY Zenon, <3>1, <3>2
  <2>. QED BY Zenon, <2>1, <2>2
<1>. QED BY Zenon, <1>1, <1>2 DEF Locks

\* References that do not change,
LEMMA CountsSame == ASSUME SetFacts, InodeInv, ip' = ip, aux' = aux, ref' = ref PROVE Counts'
  BY Zenon DEF InodeInv, Counts, By, ByAux

\* one that is taken,
LEMMA CountsGet ==
  ASSUME SetFacts, InodeInv, NEW p \in Proc, NEW t \in Slot, ref' = [ref EXCEPT ![t] = @ + 1],
         \/ ip[p] = Null /\ ip' = [ip EXCEPT ![p] = t] /\ aux' = aux
         \/ aux[p] = Null /\ aux' = [aux EXCEPT ![p] = t] /\ ip' = ip
  PROVE  Counts'
<1>0. ref \in [Slot -> Nat] /\ DOMAIN ip = Proc /\ DOMAIN aux = Proc
  BY Zenon DEF InodeInv, Types, SlotTypes, ProcTypes
<1>. SUFFICES ASSUME NEW s \in Slot PROVE ref'[s] = Cardinality(By(s)') + Cardinality(ByAux(s)')
  BY Zenon DEF Counts
<1>1. PICK k \in Nat, m \in Nat : k = Cardinality(By(s)) /\ m = Cardinality(ByAux(s))
  BY Zenon, Finite
<1>2. ref[s] = k + m
  BY Zenon, <1>1 DEF InodeInv, Counts
<1>3. CASE s # t
  <2>1. By(s)' = By(s) /\ ByAux(s)' = ByAux(s)
    BY Zenon, <1>0, <1>3, Facts DEF By, ByAux
  <2>2. ref'[s] = ref[s]
    BY Zenon, <1>0, <1>3
  <2>. QED BY Zenon, <1>1, <1>2, <2>1, <2>2
<1>4. CASE s = t
  <2>1. ref'[s] = (k + m) + 1
    BY Zenon, <1>0, <1>2, <1>4
  <2>2. CASE ip[p] = Null /\ ip' = [ip EXCEPT ![p] = t] /\ aux' = aux
    <3>1. By(s)' = By(s) \cup {p} /\ p \notin By(s) /\ ByAux(s)' = ByAux(s)
      BY Zenon, <1>0, <1>4, <2>2, Facts DEF By, ByAux
    <3>2. Cardinality(By(s)') = k + 1 /\ Cardinality(ByAux(s)') = m
      BY Zenon, <1>1, <3>1, Finite, OneMore
    <3>3. (k + m) + 1 = (k + 1) + m
      BY <1>1
    <3>. QED BY Zenon, <2>1, <3>2, <3>3
  <2>3. CASE aux[p] = Null /\ aux' = [aux EXCEPT ![p] = t] /\ ip' = ip
    <3>1. ByAux(s)' = ByAux(s) \cup {p} /\ p \notin ByAux(s) /\ By(s)' = By(s)
      BY Zenon, <1>0, <1>4, <2>3, Facts DEF By, ByAux
    <3>2. Cardinality(By(s)') = k /\ Cardinality(ByAux(s)') = m + 1
      BY Zenon, <1>1, <3>1, Finite, OneMore
    <3>3. (k + m) + 1 = k + (m + 1)
      BY <1>1
    <3>. QED BY Zenon, <2>1, <3>2, <3>3
  <2>. QED BY Zenon, <2>2, <2>3
<1>. QED BY Zenon, <1>3, <1>4

\* and one that is given up.
LEMMA CountsPut ==
  ASSUME SetFacts, InodeInv, NEW p \in Proc, NEW t \in Slot, ref' = [ref EXCEPT ![t] = @ - 1],
         \/ ip[p] = t /\ ip' = [ip EXCEPT ![p] = Null] /\ aux' = aux
         \/ aux[p] = t /\ aux' = [aux EXCEPT ![p] = Null] /\ ip' = ip
  PROVE  Counts' /\ ref' \in [Slot -> Nat]
<1>0. ref \in [Slot -> Nat] /\ DOMAIN ip = Proc /\ DOMAIN aux = Proc
  BY Zenon DEF InodeInv, Types, SlotTypes, ProcTypes
<1>5. ref[t] - 1 \in Nat
  <2>1. ref[t] > 0
    BY Zenon, RefPos, Facts DEF InodeInv
  <2>. QED BY <1>0, <2>1
<1>6. ref' \in [Slot -> Nat]
  BY Zenon, <1>0, <1>5
<1>7. ASSUME NEW s \in Slot PROVE ref'[s] = Cardinality(By(s)') + Cardinality(ByAux(s)')
  <2>1. PICK k \in Nat, m \in Nat : k = Cardinality(By(s)) /\ m = Cardinality(ByAux(s))
    BY Zenon, Finite
  <2>2. ref[s] = k + m
    BY Zenon, <2>1 DEF InodeInv, Counts
  <2>3. CASE s # t
    <3>1. By(s)' = By(s) /\ ByAux(s)' = ByAux(s)
      BY Zenon, <1>0, <2>3, Facts DEF By, ByAux
    <3>2. ref'[s] = ref[s]
      BY Zenon, <1>0, <2>3
    <3>. QED BY Zenon, <2>1, <2>2, <3>1, <3>2
  <2>4. CASE s = t
    <3>1. ref'[s] = (k + m) - 1
      BY Zenon, <1>0, <2>2, <2>4
    <3>2. CASE ip[p] = t /\ ip' = [ip EXCEPT ![p] = Null] /\ aux' = aux
      <4>1. By(s)' = By(s) \ {p} /\ p \in By(s) /\ ByAux(s)' = ByAux(s)
        BY Zenon, <1>0, <2>4, <3>2, Facts DEF By, ByAux
      <4>2. PICK j \in Nat : Cardinality(By(s)') = j /\ k = j + 1
        BY Zenon, <2>1, <4>1, Finite, OneLess
      <4>3. (k + m) - 1 = j + m
        BY <2>1, <4>2
      <4>. QED BY Zenon, <2>1, <3>1, <4>1, <4>2, <4>3
    <3>3. CASE aux[p] = t /\ aux' = [aux EXCEPT ![p] = Null] /\ ip' = ip
      <4>1. ByAux(s)' = ByAux(s) \ {p} /\ p \in ByAux(s) /\ By(s)' = By(s)
        BY Zenon, <1>0, <2>4, <3>3, Facts DEF By, ByAux
      <4>2. PICK j \in Nat : Cardinality(ByAux(s)') = j /\ m = j + 1
        BY Zenon, <2>1, <4>1, Finite, OneLess
      <4>3. (k + m) - 1 = k + j
        BY <2>1, <4>2
      <4>. QED BY Zenon, <2>1, <3>1, <4>1, <4>2, <4>3
    <3>. QED BY Zenon, <3>2, <3>3
  <2>. QED BY Zenon, <2>3, <2>4
<1>. QED BY Zenon, <1>6, <1>7 DEF Counts

\* Links that others count stay counted,
LEMMA PendingKept ==
  ASSUME SetFacts, InodeInv, NEW p \in Proc, Keeps(p), NEW n \in Inum, NEW q \in Proc, q # p
  PROVE  q \in Pending(n)' <=> q \in Pending(n)
<1>1. pc'[q] = pc[q] /\ ip'[q] = ip[q]
  BY Zenon DEF Keeps, Others
<1>2. pc[q] \in Counting => inum'[ip[q]] = inum[ip[q]]
  <2>1. pc[q] \in Counting => ip[q] # Null
    BY Zenon DEF InodeInv, Has, Counting
  <2>. QED BY Zenon, <2>1, RefPos DEF Keeps, InodeInv
<1>. QED BY Zenon, <1>1, <1>2 DEF Pending, Counting

\* and a step that counts none leaves Links as they are.
LEMMA LinksSame ==
  ASSUME SetFacts, InodeInv, NEW p \in Proc, Keeps(p), \A n \in Inum : dnlink'[n] = dnlink[n], entry' = entry,
         pc'[p] \in Counting <=> pc[p] \in Counting,
         pc[p] \in Counting => ip'[p] = ip[p]
  PROVE  Links'
<1>. SUFFICES ASSUME NEW n \in Inum PROVE dnlink'[n] = Cardinality(Names(n)') + Cardinality(Pending(n)')
  BY Zenon DEF Links
<1>1. Names(n)' = Names(n)
  BY Zenon DEF Names
<1>2. p \in Pending(n)' <=> p \in Pending(n)
  <2>1. pc[p] \in Counting => inum'[ip[p]] = inum[ip[p]]
    <3>1. pc[p] \in Counting => ip[p] # Null
      BY Zenon DEF InodeInv, Has, Counting
    <3>. QED BY Zenon, <3>1, RefPos DEF Keeps, InodeInv
  <2>. QED BY Zenon, <2>1 DEF Pending, Counting
<1>3. \A q \in Proc : q \in Pending(n)' <=> q \in Pending(n)
  BY Zenon, <1>2, PendingKept
<1>4. Pending(n)' = Pending(n)
  <2>1. Pending(n) \subseteq Proc /\ Pending(n)' \subseteq Proc
    BY Zenon DEF Pending
  <2>. QED BY Zenon, <1>3, <2>1
<1>. QED BY Zenon, <1>1, <1>4 DEF InodeInv, Links

\* Slots whose numbers and counters stay, and that are not read anew.
LEMMA SlotsSame ==
  ASSUME SetFacts, InodeInv, inum' = inum, nlink' = nlink, \A n \in Inum : dnlink'[n] = dnlink[n],
         \A s \in Slot : ref'[s] > 0 => ref[s] > 0, \A s \in Slot : valid'[s] => valid[s],
         \A q \in Proc : pc'[q] \in Holding => valid'[ip'[q]]
  PROVE  Slots'
<1>1. \A s \in Slot : ref'[s] > 0 => inum[s] \in Inum
  BY Zenon DEF InodeInv, Slots
<1>2. \A s, t \in Slot : ref'[s] > 0 /\ ref'[t] > 0 /\ inum'[s] = inum'[t] => s = t
  BY Zenon DEF InodeInv, Slots
<1>3. \A s \in Slot : ref'[s] > 0 /\ valid'[s] => nlink'[s] = dnlink'[inum'[s]]
  BY Zenon, <1>1 DEF InodeInv, Slots
<1>. QED BY Zenon, <1>1, <1>2, <1>3 DEF Slots

\* Who holds an inode lock goes on to find its inode valid, when it does not move.
LEMMA HeldValid ==
  ASSUME SetFacts, InodeInv, NEW p \in Proc, Others(p), \A s \in Slot : slock[s] # p => (valid[s] => valid'[s]),
         pc'[p] \in Holding => valid'[ip'[p]]
  PROVE  \A q \in Proc : pc'[q] \in Holding => valid'[ip'[q]]
<1>1. ASSUME NEW q \in Proc, q # p, pc[q] \in Holding PROVE valid'[ip[q]]
  <2>1. ip[q] # Null
    BY Zenon, <1>1 DEF InodeInv, Has, Holding
  <2>2. ip[q] \in Slot /\ valid[ip[q]]
    <3>1. ip[q] \in Slot
      BY Zenon, <2>1, RefPos DEF InodeInv
    <3>. QED BY Zenon, <1>1, <3>1 DEF InodeInv, Slots
  <2>3. slock[ip[q]] = q
    BY Zenon, <1>1, <2>2 DEF InodeInv, Locks
  <2>. QED BY Zenon, <1>1, <2>2, <2>3
<1>. QED BY Zenon, <1>1 DEF Others

\* Dinodes that stay in use.
LEMMA UsesStep ==
  ASSUME SetFacts, InodeInv, NEW p \in Proc, Keeps(p), \A n \in Inum : used[n] => used'[n],
         \A f \in Name : entry'[f] # Null => used'[entry'[f]],
         \A n \in Inum : ~used'[n] => dnlink'[n] = 0,
         ip'[p] # Null /\ pc'[p] \notin Freed => used'[inum'[ip'[p]]],
         num'[p] # Null => used'[num'[p]]
  PROVE  Uses'
<1>1. ASSUME NEW q \in Proc, q # p
      PROVE  /\ ip'[q] # Null /\ pc'[q] \notin Freed => used'[inum'[ip'[q]]]
             /\ num'[q] # Null => used'[num'[q]]
  <2>1. pc'[q] = pc[q] /\ ip'[q] = ip[q] /\ num'[q] = num[q]
    BY Zenon, <1>1 DEF Keeps, Others
  <2>2. ip[q] # Null => inum'[ip[q]] = inum[ip[q]] /\ inum[ip[q]] \in Inum
    BY Zenon, RefPos DEF Keeps, InodeInv, Slots
  <2>3. num[q] # Null => num[q] \in Inum
    BY Zenon DEF InodeInv, Types, ProcTypes
  <2>. QED BY Zenon, <2>1, <2>2, <2>3 DEF InodeInv, Uses
<1>. QED BY Zenon, <1>1 DEF Uses

\* The dinode of an inode that a process has and has not freed.
LEMMA OwnUsed ==
  ASSUME SetFacts, InodeInv, NEW p \in Proc, ip[p] # Null
  PROVE  /\ ip[p] \in Slot /\ ref[ip[p]] > 0 /\ inum[ip[p]] \in Inum
         /\ pc[p] \notin Freed => used[inum[ip[p]]]
  BY Zenon, RefPos DEF InodeInv, Slots, Uses

-----------------------------------------------------------------------------
\* Steps that move p alone: of open, close, and of iput that finds the last
\* reference, whose inode is p's alone then, and of link when dirlink fails.
LEMMA QuietSteps ==
  ASSUME SetFacts, InodeInv, NEW p \in Proc,
         UNCHANGED <<used, dnlink, entry, dlock, inum, ref, valid, nlink, ip, name, num, aux>>,
         \/ /\ pc[p] = "opened" /\ pc' \in {[pc EXCEPT ![p] = "file"], [pc EXCEPT ![p] = "iput"]}
            /\ slock' = [slock EXCEPT ![ip[p]] = None]
         \/ pc[p] = "file" /\ pc' = [pc EXCEPT ![p] = "iput"] /\ slock' = slock
         \/ pc[p] = "link_dir" /\ pc' = [pc EXCEPT ![p] = "bad_lock"] /\ slock' = slock
         \/ /\ \/ pc[p] = "iput" /\ pc' = [pc EXCEPT ![p] = "itrunc"]
               \/ pc[p] = "create_iput" /\ pc' = [pc EXCEPT ![p] = "create_itrunc"]
            /\ Last(ip[p]) /\ slock[ip[p]] = None
            /\ slock' = [slock EXCEPT ![ip[p]] = p]
  PROVE  InodeInv'
<1>0. pc \in [Proc -> Pcs] /\ slock \in [Slot -> Proc \cup {None}]
  BY Zenon DEF InodeInv, Types, SlotTypes, ProcTypes
<1>1. ip[p] # Null /\ ip[p] \in Slot /\ pc[p] \notin Freed
  <2>1. ip[p] # Null
    BY Zenon DEF InodeInv, Has
  <2>. QED BY Zenon, <2>1, OwnUsed DEF Freed
<1>2. Types'
  <2>1. pc' \in [Proc -> Pcs]
    BY ZenonT(30), <1>0 DEF Pcs, Holding, DirHolding, Locking
  <2>2. slock' \in [Slot -> Proc \cup {None}]
    BY Zenon, <1>0, <1>1
  <2>. QED BY Zenon, <2>1, <2>2 DEF InodeInv, Types, DiskTypes, SlotTypes, ProcTypes
<1>3. Others(p)
  BY Zenon, <1>0 DEF Others
<1>4. Keeps(p)
  BY Zenon, <1>1, <1>3 DEF Keeps, Gets
<1>5. Locks'
  <2>1. dlock = p <=> pc[p] \in DirHolding
    BY Zenon DEF InodeInv, Locks
  <2>2. dlock' = p <=> pc'[p] \in DirHolding
    BY Zenon, <1>0, <2>1 DEF DirHolding
  <2>3. \A s \in Slot : slock[s] = p <=> pc[p] \in Holding /\ ip[p] = s
    BY Zenon DEF InodeInv, Locks
  <2>4. \A s \in Slot : slock'[s] = slock[s] \/ (slock[s] \in {None, p} /\ slock'[s] \in {None, p})
    <3>. SUFFICES ASSUME NEW s \in Slot PROVE slock'[s] = slock[s] \/ (slock[s] \in {None, p} /\ slock'[s] \in {None, p})
      BY Zenon
    <3>1. CASE s = ip[p]
      BY Zenon, <1>0, <1>1, <2>3, <3>1 DEF Holding
    <3>2. CASE s # ip[p]
      BY Zenon, <1>0, <1>1, <3>2
    <3>. QED BY Zenon, <3>1, <3>2
  <2>5. \A s \in Slot : slock'[s] = p <=> pc'[p] \in Holding /\ ip'[p] = s
    <3>. SUFFICES ASSUME NEW s \in Slot PROVE slock'[s] = p <=> pc'[p] \in Holding /\ ip[p] = s
      BY Zenon
    <3>1. CASE s = ip[p]
      BY Zenon, <1>0, <1>1, <2>3, <3>1, Facts DEF Holding
    <3>2. CASE s # ip[p]
      BY Zenon, <1>0, <1>1, <2>3, <3>2
    <3>. QED BY Zenon, <3>1, <3>2
  <2>. QED BY Zenon, <1>3, <2>2, <2>4, <2>5, LocksStep
<1>6. Counts'
  BY Zenon, CountsSame
<1>7. Slots'
  <2>1. pc'[p] \in Holding => valid[ip[p]]
    BY Zenon, <1>0 DEF Holding, Last
  <2>2. \A q \in Proc : pc'[q] \in Holding => valid'[ip'[q]]
    BY Zenon, <1>3, <2>1, HeldValid
  <2>. QED BY Zenon, <2>2, SlotsSame
<1>8. Links'
  <2>1. pc'[p] \in Counting <=> pc[p] \in Counting
    BY Zenon, <1>0 DEF Counting
  <2>. QED BY Zenon, <1>4, <2>1, LinksSame
<1>9. Uses'
  <2>1. ip'[p] # Null /\ pc'[p] \notin Freed => used'[inum'[ip'[p]]]
    BY Zenon, <1>1, OwnUsed
  <2>. QED BY Zenon, <1>4, <2>1, UsesStep DEF InodeInv, Uses
<1>10. HasAt(p)' /\ NewAt(p)' /\ FoundAt(p)'
  BY Zenon, <1>0 DEF InodeInv, Has, HasAt, NewAt, FoundAt, Creating
<1>11. FreesAt(p)'
  <2>1. CASE Last(ip[p])
    <3>1. Sole(p)
      BY Zenon, <1>1, <2>1, RefOne DEF Last, InodeInv
    <3>2. Sole(p)'
      BY Zenon, <3>1 DEF Sole
    <3>. QED BY Zenon, <2>1, <3>2 DEF Last, FreesAt
  <2>2. CASE ~Last(ip[p])
    BY Zenon, <1>0, <2>2 DEF FreesAt, Freeing
  <2>. QED BY Zenon, <2>1, <2>2
<1>. QED BY Zenon, <1>2, <1>4, <1>5, <1>6, <1>7, <1>8, <1>9, <1>10, <1>11, StepOK

\* ilock reads the dinode of a slot that has not been read, so that the slot
\* counts the links that the disk does.
LEMMA IlockStep == ASSUME SetFacts, InodeInv, NEW p \in Proc, Ilock(p) PROVE InodeInv'
<1>. DEFINE s == ip[p]
<1>0. /\ pc \in [Proc -> Pcs] /\ slock \in [Slot -> Proc \cup {None}]
      /\ valid \in [Slot -> BOOLEAN] /\ nlink \in [Slot -> Nat] /\ dnlink \in [Inum -> Nat]
  BY Zenon DEF InodeInv, Types, DiskTypes, SlotTypes, ProcTypes
<1>1. s # Null /\ s \in Slot /\ inum[s] \in Inum /\ pc[p] \notin Freed /\ ref[s] > 0
  <2>1. s # Null
    BY Zenon DEF InodeInv, Has, Ilock, Locking
  <2>. QED BY Zenon, <2>1, OwnUsed DEF Freed, Ilock, Locking
<1>2. UNCHANGED <<used, dnlink, entry, dlock, inum, ref, ip, name, num, aux>>
  BY Zenon DEF Ilock, dinode, dir, local
<1>3. /\ slock[s] = None /\ slock' = [slock EXCEPT ![s] = p] /\ valid' = [valid EXCEPT ![s] = TRUE]
      /\ nlink' = [nlink EXCEPT ![s] = IF valid[s] THEN @ ELSE dnlink[inum[s]]]
  BY Zenon DEF Ilock
<1>4. \/ pc[p] = "open_lock" /\ pc' = [pc EXCEPT ![p] = "opened"]
      \/ pc[p] = "create_lock" /\ pc' = [pc EXCEPT ![p] = "create"]
      \/ pc[p] = "unlink_lock" /\ pc' = [pc EXCEPT ![p] = "unlink"]
      \/ pc[p] = "link_lock" /\ pc' = [pc EXCEPT ![p] = "link"]
      \/ pc[p] = "bad_lock" /\ pc' = [pc EXCEPT ![p] = "bad"]
  <2>1. /\ Locked["open_lock"] = "opened" /\ Locked["create_lock"] = "create"
        /\ Locked["unlink_lock"] = "unlink" /\ Locked["link_lock"] = "link" /\ Locked["bad_lock"] = "bad"
    BY DEF Locked
  <2>. QED BY Zenon, <2>1 DEF Ilock, Locking, Goto
<1>5. Types'
  <2>1. pc' \in [Proc -> Pcs]
    BY Zenon, <1>0, <1>4 DEF Pcs, Holding
  <2>2. slock' \in [Slot -> Proc \cup {None}] /\ valid' \in [Slot -> BOOLEAN] /\ nlink' \in [Slot -> Nat]
    BY Zenon, <1>0, <1>1, <1>3
  <2>. QED BY Zenon, <1>2, <2>1, <2>2 DEF InodeInv, Types, DiskTypes, SlotTypes, ProcTypes
<1>6. Others(p)
  BY Zenon, <1>0, <1>2, <1>4 DEF Others
<1>7. \A t \in Slot : t # s => nlink'[t] = nlink[t] /\ valid'[t] = valid[t] /\ slock'[t] = slock[t]
  BY Zenon, <1>0, <1>3
<1>8. Keeps(p)
  BY Zenon, <1>1, <1>2, <1>6, <1>7 DEF Keeps, Gets
<1>9. Locks'
  <2>1. dlock' = p <=> pc'[p] \in DirHolding
    <3>1. dlock = p <=> pc[p] \in DirHolding
      BY Zenon DEF InodeInv, Locks
    <3>. QED BY Zenon, <1>0, <1>2, <1>4, <3>1 DEF DirHolding
  <2>2. pc[p] \notin Holding /\ pc'[p] \in Holding
    BY Zenon, <1>0, <1>4 DEF Holding
  <2>3. \A t \in Slot : slock[t] # p
    BY Zenon, <2>2 DEF InodeInv, Locks
  <2>4. slock'[s] = p
    BY Zenon, <1>0, <1>1, <1>3
  <2>5. \A t \in Slot : slock'[t] = slock[t] \/ (slock[t] \in {None, p} /\ slock'[t] \in {None, p})
    BY Zenon, <1>3, <1>7, <2>4
  <2>6. \A t \in Slot : slock'[t] = p <=> pc'[p] \in Holding /\ ip'[p] = t
    BY Zenon, <1>2, <1>7, <2>2, <2>3, <2>4
  <2>. QED BY Zenon, <1>2, <1>6, <2>1, <2>5, <2>6, LocksStep
<1>10. Counts'
  BY Zenon, <1>2, CountsSame
<1>11. Slots'
  <2>1. valid'[s] /\ nlink'[s] = dnlink[inum[s]]
    <3>1. valid[s] => nlink[s] = dnlink[inum[s]]
      BY Zenon, <1>1 DEF InodeInv, Slots
    <3>. QED BY Zenon, <1>0, <1>1, <1>3, <3>1
  <2>2. \A t \in Slot : ref[t] > 0 /\ valid'[t] => nlink'[t] = dnlink[inum[t]]
    <3>1. \A t \in Slot : ref[t] > 0 /\ valid[t] => nlink[t] = dnlink[inum[t]]
      BY Zenon DEF InodeInv, Slots
    <3>. QED BY Zenon, <1>7, <2>1, <3>1
  <2>3. \A q \in Proc : pc'[q] \in Holding => valid'[ip'[q]]
    <3>1. \A t \in Slot : slock[t] # p => (valid[t] => valid'[t])
      BY Zenon, <1>7, <2>1
    <3>. QED BY Zenon, <1>2, <1>6, <2>1, <3>1, HeldValid
  <2>. QED BY Zenon, <1>2, <2>2, <2>3 DEF InodeInv, Slots
<1>12. Links'
  <2>1. pc'[p] \in Counting <=> pc[p] \in Counting
    BY Zenon, <1>0, <1>4 DEF Counting
  <2>. QED BY Zenon, <1>2, <1>8, <2>1, LinksSame
<1>13. Uses'
  <2>1. ip'[p] # Null /\ pc'[p] \notin Freed => used'[inum'[ip'[p]]]
    BY Zenon, <1>1, <1>2, OwnUsed
  <2>. QED BY Zenon, <1>2, <1>8, <2>1, UsesStep DEF InodeInv, Uses
<1>14. HasAt(p)' /\ FoundAt(p)'
  BY Zenon, <1>0, <1>2, <1>4 DEF InodeInv, Has, Found, HasAt, FoundAt
<1>15. FreesAt(p)'
  BY Zenon, <1>0, <1>4 DEF FreesAt, Freeing
<1>16. NewAt(p)'
  <2>1. CASE pc[p] = "create_lock"
    <3>1. PICK n : n = inum[s]
      BY Zenon
    <3>2. Fresh(p, n)
      BY Zenon, <2>1, <3>1 DEF InodeInv, News, Creating
    <3>3. Fresh(p, n)'
      BY Zenon, <1>2, <1>6, <3>2 DEF Fresh, Others
    <3>4. inum'[ip'[p]] = n /\ pc'[p] # "create_iget"
      BY Zenon, <1>0, <1>2, <1>4, <2>1, <3>1
    <3>. QED BY Zenon, <3>3, <3>4 DEF NewAt, Fresh
  <2>2. CASE pc[p] # "create_lock"
    BY Zenon, <1>0, <1>4, <2>2 DEF NewAt, Creating
  <2>. QED BY Zenon, <2>1, <2>2
<1>. QED BY Zenon, <1>5, <1>8, <1>9, <1>10, <1>11, <1>12, <1>13, <1>14, <1>15, <1>16, StepOK

-----------------------------------------------------------------------------
\* Locks that p has and gives up or keeps.
LEMMA Released ==
  ASSUME SetFacts, InodeInv, NEW p \in Proc, Others(p), ip' = ip, pc[p] \in Holding,
         \/ slock' = slock /\ pc'[p] \in Holding
         \/ slock' = [slock EXCEPT ![ip[p]] = None] /\ pc'[p] \notin Holding,
         \/ dlock' = dlock /\ (pc'[p] \in DirHolding <=> pc[p] \in DirHolding)
         \/ dlock' = None /\ pc[p] \in DirHolding /\ pc'[p] \notin DirHolding
  PROVE  Locks'
<1>1. slock \in [Slot -> Proc \cup {None}]
  BY Zenon DEF InodeInv, Types, SlotTypes
<1>2. (dlock = p <=> pc[p] \in DirHolding) /\ \A s \in Slot : slock[s] = p <=> ip[p] = s
  BY Zenon DEF InodeInv, Locks
<1>3. dlock' = p <=> pc'[p] \in DirHolding
  BY Zenon, <1>2, Facts
<1>4. ASSUME NEW s \in Slot
      PROVE  /\ slock'[s] = slock[s] \/ (slock[s] \in {None, p} /\ slock'[s] \in {None, p})
             /\ slock'[s] = p <=> pc'[p] \in Holding /\ ip'[p] = s
  <2>1. CASE s = ip[p]
    BY Zenon, <1>1, <1>2, <2>1, Facts
  <2>2. CASE s # ip[p]
    BY Zenon, <1>1, <1>2, <2>2
  <2>. QED BY Zenon, <2>1, <2>2
<1>. QED BY Zenon, <1>2, <1>3, <1>4, LocksStep

\* iupdate under the inode's lock: what it changes,
LEMMA NlinkKeeps ==
  ASSUME SetFacts, InodeInv, NEW p \in Proc, NEW k \in Nat, SetNlink(ip[p], k), Others(p),
         pc[p] \in Holding, pc[p] \notin Freed, entry' = entry \/ dlock = p,
         UNCHANGED <<used, inum, ref, valid, ip, name, num, aux>>
  PROVE  /\ Keeps(p) /\ ip[p] \in Slot /\ inum[ip[p]] \in Inum /\ used[inum[ip[p]]]
         /\ dnlink' \in [Inum -> Nat] /\ nlink' \in [Slot -> Nat]
         /\ dnlink'[inum[ip[p]]] = k /\ nlink'[ip[p]] = k /\ nlink[ip[p]] = dnlink[inum[ip[p]]]
         /\ \A n \in Inum : n # inum[ip[p]] => dnlink'[n] = dnlink[n]
         /\ \A s \in Slot : s # ip[p] => nlink'[s] = nlink[s]
<1>0. dnlink \in [Inum -> Nat] /\ nlink \in [Slot -> Nat]
  BY Zenon DEF InodeInv, Types, DiskTypes, SlotTypes
<1>1. ip[p] # Null
  BY Zenon DEF InodeInv, Has, Holding
<1>2. ip[p] \in Slot /\ inum[ip[p]] \in Inum /\ used[inum[ip[p]]] /\ ref[ip[p]] > 0
  BY Zenon, <1>1, OwnUsed
<1>3. nlink[ip[p]] = dnlink[inum[ip[p]]]
  BY Zenon, <1>2 DEF InodeInv, Slots
<1>4. /\ dnlink' \in [Inum -> Nat] /\ nlink' \in [Slot -> Nat]
      /\ dnlink'[inum[ip[p]]] = k /\ nlink'[ip[p]] = k
  BY Zenon, <1>0, <1>2 DEF SetNlink
<1>5. /\ \A n \in Inum : n # inum[ip[p]] => dnlink'[n] = dnlink[n]
      /\ \A s \in Slot : s # ip[p] => nlink'[s] = nlink[s]
  BY Zenon, <1>0, <1>2 DEF SetNlink
<1>6. Keeps(p)
  BY Zenon, <1>1, <1>5 DEF Keeps, Gets
<1>. QED BY Zenon, <1>2, <1>3, <1>4, <1>5, <1>6

\* and that it keeps the invariant if the new count is right.
LEMMA NlinkStep ==
  ASSUME SetFacts, InodeInv, NEW p \in Proc, NEW k \in Nat, SetNlink(ip[p], k), NEW l \in Pcs, pc' = [pc EXCEPT ![p] = l],
         pc[p] \in Holding, pc[p] \notin Freed, l \in {"opened", "create_iput", "iput", "link_dir"},
         UNCHANGED <<used, inum, ref, valid, ip, name, num, aux>>,
         \/ slock' = slock /\ l \in Holding
         \/ slock' = [slock EXCEPT ![ip[p]] = None] /\ l \notin Holding,
         \/ dlock' = dlock /\ (l \in DirHolding <=> pc[p] \in DirHolding)
         \/ dlock' = None /\ pc[p] \in DirHolding /\ l \notin DirHolding,
         entry' = entry \/ dlock = p, entry' \in [Name -> Inum \cup {Null}],
         \A f \in Name : entry'[f] # Null => used[entry'[f]],
         Links'
  PROVE  InodeInv'
<1>0. pc \in [Proc -> Pcs] /\ slock \in [Slot -> Proc \cup {None}]
  BY Zenon DEF InodeInv, Types, SlotTypes, ProcTypes
<1>1. pc'[p] = l /\ Others(p)
  BY Zenon, <1>0 DEF Others
<1>2. /\ Keeps(p) /\ ip[p] \in Slot /\ inum[ip[p]] \in Inum /\ used[inum[ip[p]]]
      /\ dnlink' \in [Inum -> Nat] /\ nlink' \in [Slot -> Nat]
      /\ dnlink'[inum[ip[p]]] = k /\ nlink'[ip[p]] = k
      /\ \A n \in Inum : n # inum[ip[p]] => dnlink'[n] = dnlink[n]
      /\ \A s \in Slot : s # ip[p] => nlink'[s] = nlink[s]
  BY Zenon, <1>1, NlinkKeeps
<1>3. Types'
  <2>1. pc' \in [Proc -> Pcs]
    BY Zenon, <1>0
  <2>2. slock' \in [Slot -> Proc \cup {None}] /\ dlock' \in Proc \cup {None}
    <3>1. dlock \in Proc \cup {None}
      BY Zenon DEF InodeInv, Types, SlotTypes
    <3>. QED BY Zenon, <1>0, <1>2, <3>1
  <2>. QED BY Zenon, <1>2, <2>1, <2>2 DEF InodeInv, Types, DiskTypes, SlotTypes, ProcTypes
<1>4. Locks'
  BY Zenon, <1>1, Released
<1>5. Counts'
  BY Zenon, CountsSame
<1>6. Slots'
  <2>1. ASSUME NEW t \in Slot, ref[t] > 0, valid[t] PROVE nlink'[t] = dnlink'[inum[t]]
    <3>1. CASE t = ip[p]
      BY Zenon, <1>2, <3>1
    <3>2. CASE t # ip[p]
      <4>1. ref[ip[p]] > 0
        BY Zenon, <1>2, Facts, RefPos DEF InodeInv
      <4>2. inum[t] \in Inum /\ inum[t] # inum[ip[p]] /\ nlink[t] = dnlink[inum[t]]
        BY Zenon, <1>2, <2>1, <3>2, <4>1 DEF InodeInv, Slots
      <4>. QED BY Zenon, <1>2, <3>2, <4>2
    <3>. QED BY Zenon, <3>1, <3>2
  <2>2. \A q \in Proc : pc'[q] \in Holding => valid'[ip'[q]]
    BY Zenon, <1>1 DEF InodeInv, Slots, Others
  <2>. QED BY Zenon, <2>1, <2>2 DEF InodeInv, Slots
<1>7. Uses'
  <2>1. ip'[p] # Null /\ pc'[p] \notin Freed => used'[inum'[ip'[p]]]
    BY Zenon, <1>2
  <2>2. \A n \in Inum : ~used'[n] => dnlink'[n] = 0
    BY Zenon, <1>2 DEF InodeInv, Uses
  <2>3. num'[p] # Null => used'[num'[p]]
    BY Zenon DEF InodeInv, Uses
  <2>. QED BY Zenon, <1>2, <2>1, <2>2, <2>3, UsesStep
<1>8. HasAt(p)'
  <2>1. pc[p] \notin {"idle", "create_iget", "link_exists"}
    BY Zenon DEF Holding
  <2>2. ip[p] # Null /\ num[p] = Null /\ aux[p] = Null
    BY Zenon, <2>1 DEF InodeInv, Has
  <2>. QED BY Zenon, <1>1, <2>2 DEF HasAt
<1>9. FreesAt(p)' /\ NewAt(p)' /\ FoundAt(p)'
  BY Zenon, <1>1 DEF FreesAt, NewAt, FoundAt, Freeing, Creating
<1>. QED BY Zenon, <1>2, <1>3, <1>4, <1>5, <1>6, <1>7, <1>8, <1>9, StepOK

\* The links that are under way, in a step of p: those of others stay.
LEMMA PendingStep ==
  ASSUME SetFacts, InodeInv, NEW p \in Proc, Keeps(p), NEW n \in Inum
  PROVE  /\ (p \in Pending(n)' <=> p \in Pending(n)) => Pending(n)' = Pending(n)
         /\ p \in Pending(n)' /\ p \notin Pending(n) => Pending(n)' = Pending(n) \cup {p}
         /\ p \notin Pending(n)' /\ p \in Pending(n) => Pending(n)' = Pending(n) \ {p}
<1>1. \A q \in Proc : q # p => (q \in Pending(n)' <=> q \in Pending(n))
  BY Zenon, PendingKept
<1>2. Pending(n) \subseteq Proc /\ Pending(n)' \subseteq Proc
  BY Zenon DEF Pending
<1>3. ASSUME NEW S, NEW T, S \subseteq Proc, T \subseteq Proc,
             \A q \in Proc : q # p => (q \in T <=> q \in S)
      PROVE  /\ (p \in T <=> p \in S) => T = S
             /\ p \in T /\ p \notin S => T = S \cup {p}
             /\ p \notin T /\ p \in S => T = S \ {p}
  BY SMT, <1>3
<1>. QED BY Zenon, <1>1, <1>2, <1>3

\* link counts a link before it writes the entry,
LEMMA LinkIncStep == ASSUME SetFacts, InodeInv, NEW p \in Proc, LinkInc(p) PROVE InodeInv'
<1>1. /\ pc[p] = "link" /\ SetNlink(ip[p], nlink[ip[p]] + 1) /\ pc' = [pc EXCEPT ![p] = "link_dir"]
      /\ slock' = [slock EXCEPT ![ip[p]] = None]
      /\ UNCHANGED <<used, entry, dlock, inum, ref, valid, ip, name, num, aux>>
  BY Zenon DEF LinkInc, Goto, Iunlock, dir, local
<1>2. pc[p] \in Holding /\ pc[p] \notin Freed /\ ip[p] \in Slot /\ entry \in [Name -> Inum \cup {Null}]
  <2>1. pc[p] \in Holding /\ pc[p] \notin Freed /\ ip[p] # Null
    BY Zenon, <1>1 DEF Holding, Freed, InodeInv, Has
  <2>. QED BY Zenon, <2>1, OwnUsed DEF InodeInv, Types, DiskTypes
<1>3. PICK k \in Nat : k = nlink[ip[p]]
  BY Zenon, <1>2 DEF InodeInv, Types, SlotTypes
<1>4. k + 1 \in Nat
  BY <1>3
<1>5. Others(p) /\ pc'[p] = "link_dir"
  BY Zenon, <1>1 DEF Others, InodeInv, Types, ProcTypes
<1>6. /\ Keeps(p) /\ inum[ip[p]] \in Inum /\ dnlink'[inum[ip[p]]] = k + 1 /\ k = dnlink[inum[ip[p]]]
      /\ \A n \in Inum : n # inum[ip[p]] => dnlink'[n] = dnlink[n]
  BY Zenon, <1>1, <1>2, <1>3, <1>4, <1>5, NlinkKeeps
<1>7. Links'
  <2>. SUFFICES ASSUME NEW n \in Inum PROVE dnlink'[n] = Cardinality(Names(n)') + Cardinality(Pending(n)')
    BY Zenon DEF Links
  <2>1. Names(n)' = Names(n) /\ dnlink[n] = Cardinality(Names(n)) + Cardinality(Pending(n))
    BY Zenon, <1>1 DEF Names, InodeInv, Links
  <2>2. p \notin Pending(n) /\ (p \in Pending(n)' <=> n = inum[ip[p]])
    BY Zenon, <1>1, <1>5 DEF Pending
  <2>3. CASE n = inum[ip[p]]
    <3>1. Pending(n)' = Pending(n) \cup {p}
      BY Zenon, <1>6, <2>2, <2>3, PendingStep
    <3>2. Cardinality(Pending(n)') = Cardinality(Pending(n)) + 1
      BY Zenon, <2>2, <3>1, Finite, OneMore
    <3>3. PICK a \in Nat, b \in Nat : a = Cardinality(Names(n)) /\ b = Cardinality(Pending(n))
      BY Zenon, Finite
    <3>4. (a + b) + 1 = a + (b + 1)
      BY <3>3
    <3>. QED BY Zenon, <1>6, <2>1, <2>3, <3>2, <3>3, <3>4
  <2>4. CASE n # inum[ip[p]]
    BY Zenon, <1>6, <2>1, <2>2, <2>4, PendingStep
  <2>. QED BY Zenon, <2>3, <2>4
<1>8. "link_dir" \in Pcs /\ "link_dir" \notin Holding /\ "link_dir" \notin DirHolding /\ "link" \notin DirHolding
  BY Zenon DEF Pcs, Holding, DirHolding, Counting
<1>9. \A f \in Name : entry'[f] # Null => used[entry'[f]]
  BY Zenon, <1>1 DEF InodeInv, Uses
<1>. QED BY Zenon, <1>1, <1>2, <1>3, <1>4, <1>7, <1>8, <1>9, NlinkStep

\* and unlink, or link when it fails, gives the count up after the entry is
\* gone: there was one to give up.
LEMMA DropLinkStep == ASSUME SetFacts, InodeInv, NEW p \in Proc, DropLink(p) PROVE InodeInv'
<1>1. /\ pc[p] = "bad" /\ SetNlink(ip[p], nlink[ip[p]] - 1) /\ pc' = [pc EXCEPT ![p] = "iput"]
      /\ slock' = [slock EXCEPT ![ip[p]] = None]
      /\ UNCHANGED <<used, entry, dlock, inum, ref, valid, ip, name, num, aux>>
  BY Zenon DEF DropLink, Goto, Iunlock, dir, local
<1>2. pc[p] \in Holding /\ pc[p] \notin Freed /\ ip[p] \in Slot /\ entry \in [Name -> Inum \cup {Null}]
  <2>1. pc[p] \in Holding /\ pc[p] \notin Freed /\ ip[p] # Null
    BY Zenon, <1>1 DEF Holding, Freed, InodeInv, Has
  <2>. QED BY Zenon, <2>1, OwnUsed DEF InodeInv, Types, DiskTypes
<1>3. inum[ip[p]] \in Inum /\ nlink[ip[p]] = dnlink[inum[ip[p]]]
  BY Zenon, <1>2, Facts, OwnUsed DEF InodeInv, Slots
<1>4. PICK a \in Nat, b \in Nat : /\ a = Cardinality(Names(inum[ip[p]]))
                                  /\ b + 1 = Cardinality(Pending(inum[ip[p]]))
                                  /\ b = Cardinality(Pending(inum[ip[p]]) \ {p})
  <2>1. p \in Pending(inum[ip[p]])
    BY Zenon, <1>1 DEF Pending
  <2>. QED BY Zenon, <2>1, Finite, OneLess
<1>5. nlink[ip[p]] = a + (b + 1)
  BY Zenon, <1>3, <1>4 DEF InodeInv, Links
<1>6. nlink[ip[p]] - 1 = a + b /\ a + b \in Nat
  BY <1>4, <1>5
<1>7. Others(p) /\ pc'[p] = "iput"
  BY Zenon, <1>1 DEF Others, InodeInv, Types, ProcTypes
<1>8. /\ Keeps(p) /\ dnlink'[inum[ip[p]]] = a + b
      /\ \A n \in Inum : n # inum[ip[p]] => dnlink'[n] = dnlink[n]
  BY Zenon, <1>1, <1>2, <1>6, <1>7, NlinkKeeps
<1>9. Links'
  <2>. SUFFICES ASSUME NEW n \in Inum PROVE dnlink'[n] = Cardinality(Names(n)') + Cardinality(Pending(n)')
    BY Zenon DEF Links
  <2>1. Names(n)' = Names(n) /\ dnlink[n] = Cardinality(Names(n)) + Cardinality(Pending(n))
    BY Zenon, <1>1 DEF Names, InodeInv, Links
  <2>2. p \notin Pending(n)' /\ (p \in Pending(n) <=> n = inum[ip[p]])
    BY Zenon, <1>1, <1>7 DEF Pending
  <2>3. CASE n = inum[ip[p]]
    <3>1. Pending(n)' = Pending(n) \ {p}
      BY Zenon, <1>8, <2>2, <2>3, PendingStep
    <3>. QED BY Zenon, <1>4, <1>8, <2>1, <2>3, <3>1
  <2>4. CASE n # inum[ip[p]]
    BY Zenon, <1>8, <2>1, <2>2, <2>4, PendingStep
  <2>. QED BY Zenon, <2>3, <2>4
<1>10. "iput" \in Pcs /\ "iput" \notin Holding /\ "iput" \notin DirHolding /\ "bad" \notin DirHolding
  BY Zenon DEF Pcs, Holding, DirHolding
<1>11. \A f \in Name : entry'[f] # Null => used[entry'[f]]
  BY Zenon, <1>1 DEF InodeInv, Uses
<1>. QED BY Zenon, <1>1, <1>2, <1>6, <1>9, <1>10, <1>11, NlinkStep

\* A new inode gets its link and its name together, or neither.
LEMMA CreateStep == ASSUME SetFacts, InodeInv, NEW p \in Proc, Create(p) PROVE InodeInv'
<1>. DEFINE n == inum[ip[p]]
<1>1. pc[p] = "create" /\ UNCHANGED <<used, inum, ref, valid, ip, name, num, aux>>
  BY Zenon DEF Create, local
<1>2. /\ pc[p] \in Holding /\ pc[p] \notin Freed /\ pc[p] \in DirHolding /\ ip[p] \in Slot /\ n \in Inum /\ used[n]
      /\ entry \in [Name -> Inum \cup {Null}] /\ dlock = p /\ pc \in [Proc -> Pcs]
  <2>1. pc[p] \in Holding /\ pc[p] \notin Freed /\ pc[p] \in DirHolding /\ ip[p] # Null
    BY Zenon, <1>1 DEF Holding, DirHolding, Freed, InodeInv, Has
  <2>. QED BY Zenon, <2>1, OwnUsed DEF InodeInv, Types, DiskTypes, ProcTypes, Locks
<1>3. dnlink[n] = 0 /\ name[p] \in Name /\ entry[name[p]] = Null
  BY Zenon, <1>1 DEF InodeInv, News, Creating, Fresh
<1>4. Names(n) = {} /\ Pending(n) = {}
  <2>1. PICK a \in Nat, b \in Nat : a = Cardinality(Names(n)) /\ b = Cardinality(Pending(n))
    BY Zenon, Finite
  <2>2. 0 = a + b
    BY Zenon, <1>2, <1>3, <2>1 DEF InodeInv, Links
  <2>3. a = 0 /\ b = 0
    BY <2>1, <2>2
  <2>. QED BY Zenon, <2>1, <2>3, Finite, ZeroIsEmpty
<1>5. CASE SetNlink(ip[p], 1) /\ entry' = [entry EXCEPT ![name[p]] = n] /\ dlock' = None /\ Goto(p, "opened") /\ UNCHANGED slock
  <2>1. pc' = [pc EXCEPT ![p] = "opened"] /\ pc'[p] = "opened" /\ Others(p)
    BY Zenon, <1>1, <1>2, <1>5 DEF Goto, Others
  <2>2. 1 \in Nat
    OBVIOUS
  <2>3. Keeps(p) /\ dnlink'[n] = 1 /\ \A m \in Inum : m # n => dnlink'[m] = dnlink[m]
    BY Zenon, <1>1, <1>2, <1>5, <2>1, <2>2, NlinkKeeps
  <2>4. Links'
    <3>. SUFFICES ASSUME NEW m \in Inum PROVE dnlink'[m] = Cardinality(Names(m)') + Cardinality(Pending(m)')
      BY Zenon DEF Links
    <3>1. p \notin Pending(m) /\ p \notin Pending(m)'
      BY Zenon, <1>1, <2>1 DEF Pending
    <3>2. Pending(m)' = Pending(m)
      BY Zenon, <2>3, <3>1, PendingStep
    <3>3. CASE m = n
      <4>1. Names(m)' = Names(m) \cup {name[p]} /\ name[p] \notin Names(m)
        BY Zenon, <1>2, <1>3, <1>4, <1>5, <3>3 DEF Names
      <4>2. Cardinality(Names(m)) = 0 /\ Cardinality(Pending(m)) = 0
        BY Zenon, <1>4, <3>3, Finite, ZeroIsEmpty
      <4>3. Cardinality(Names(m)') = 0 + 1
        BY Zenon, <4>1, <4>2, Finite, OneMore
      <4>4. 1 = (0 + 1) + 0
        OBVIOUS
      <4>. QED BY Zenon, <2>3, <3>2, <3>3, <4>2, <4>3, <4>4
    <3>4. CASE m # n
      <4>1. Names(m)' = Names(m)
        BY Zenon, <1>2, <1>3, <1>5, <3>4, Facts DEF Names
      <4>. QED BY Zenon, <2>3, <3>2, <3>4, <4>1 DEF InodeInv, Links
    <3>. QED BY Zenon, <3>3, <3>4
  <2>5. entry' \in [Name -> Inum \cup {Null}] /\ \A f \in Name : entry'[f] # Null => used[entry'[f]]
    BY Zenon, <1>2, <1>3, <1>5 DEF InodeInv, Uses
  <2>6. "opened" \in Pcs /\ "opened" \in Holding /\ "opened" \notin DirHolding
    BY Zenon DEF Pcs, Holding, DirHolding
  <2>. QED BY Zenon, <1>1, <1>2, <1>5, <2>1, <2>2, <2>4, <2>5, <2>6, NlinkStep
<1>6. CASE SetNlink(ip[p], 0) /\ Iunlock(ip[p]) /\ Goto(p, "create_iput") /\ UNCHANGED dir
  <2>1. /\ pc' = [pc EXCEPT ![p] = "create_iput"] /\ pc'[p] = "create_iput" /\ Others(p)
        /\ slock' = [slock EXCEPT ![ip[p]] = None] /\ entry' = entry /\ dlock' = dlock
    BY Zenon, <1>1, <1>2, <1>6 DEF Goto, Others, Iunlock, dir
  <2>2. 0 \in Nat
    OBVIOUS
  <2>3. Keeps(p) /\ dnlink'[n] = 0 /\ \A m \in Inum : m # n => dnlink'[m] = dnlink[m]
    BY Zenon, <1>1, <1>2, <1>6, <2>1, <2>2, NlinkKeeps
  <2>4. \A m \in Inum : dnlink'[m] = dnlink[m]
    BY Zenon, <1>3, <2>3
  <2>5. Links'
    <3>1. pc'[p] \notin Counting /\ pc[p] \notin Counting
      BY Zenon, <1>1, <2>1 DEF Counting
    <3>. QED BY Zenon, <2>1, <2>3, <2>4, <3>1, LinksSame
  <2>6. entry' \in [Name -> Inum \cup {Null}] /\ \A f \in Name : entry'[f] # Null => used[entry'[f]]
    BY Zenon, <1>2, <2>1 DEF InodeInv, Uses
  <2>7. "create_iput" \in Pcs /\ "create_iput" \notin Holding /\ "create_iput" \in DirHolding
    BY Zenon DEF Pcs, Holding, DirHolding
  <2>. QED BY Zenon, <1>1, <1>2, <1>6, <2>1, <2>2, <2>5, <2>6, <2>7, NlinkStep
<1>. QED BY Zenon, <1>5, <1>6 DEF Create

\* unlink clears the entry that it found under the directory's lock, and the
\* link is under way until it is not counted.
LEMMA UnlinkEntryStep == ASSUME SetFacts, InodeInv, NEW p \in Proc, UnlinkEntry(p) PROVE InodeInv'
<1>. DEFINE n == inum[ip[p]]
<1>1. /\ pc[p] = "unlink" /\ pc' = [pc EXCEPT ![p] = "bad"] /\ dlock' = None
      /\ entry' = [entry EXCEPT ![name[p]] = Null]
      /\ UNCHANGED <<used, dnlink, inum, ref, valid, nlink, slock, ip, name, num, aux>>
  BY Zenon DEF UnlinkEntry, Goto, dinode, local
<1>2. /\ pc[p] \in Holding /\ pc[p] \in DirHolding /\ ip[p] # Null /\ n \in Inum /\ used[n]
      /\ dlock = p /\ name[p] \in Name /\ entry[name[p]] = n
  <2>1. pc[p] \in Holding /\ pc[p] \in DirHolding /\ pc[p] \notin Freed /\ ip[p] # Null
    BY Zenon, <1>1 DEF Holding, DirHolding, Freed, InodeInv, Has
  <2>. QED BY Zenon, <1>1, <2>1, OwnUsed DEF InodeInv, Found, Locks
<1>3. entry \in [Name -> Inum \cup {Null}] /\ pc \in [Proc -> Pcs]
  BY Zenon DEF InodeInv, Types, DiskTypes, ProcTypes
<1>4. pc'[p] = "bad" /\ Others(p)
  BY Zenon, <1>1, <1>3 DEF Others
<1>5. Keeps(p)
  BY Zenon, <1>1, <1>2, <1>4 DEF Keeps, Gets, Freed
<1>6. Types'
  <2>1. pc' \in [Proc -> Pcs] /\ entry' \in [Name -> Inum \cup {Null}]
    BY Zenon, <1>1, <1>3 DEF Pcs, Holding
  <2>. QED BY Zenon, <1>1, <2>1 DEF InodeInv, Types, DiskTypes, SlotTypes, ProcTypes
<1>7. Locks'
  <2>1. pc'[p] \in Holding /\ pc'[p] \notin DirHolding
    BY Zenon, <1>4 DEF Holding, DirHolding
  <2>. QED BY Zenon, <1>1, <1>2, <1>4, <2>1, Released
<1>8. Counts'
  BY Zenon, <1>1, CountsSame
<1>9. Slots'
  <2>1. \A q \in Proc : pc'[q] \in Holding => valid'[ip'[q]]
    BY Zenon, <1>1, <1>2, <1>4 DEF InodeInv, Slots, Others
  <2>. QED BY Zenon, <1>1, <2>1, SlotsSame
<1>10. Links'
  <2>. SUFFICES ASSUME NEW m \in Inum PROVE dnlink'[m] = Cardinality(Names(m)') + Cardinality(Pending(m)')
    BY Zenon DEF Links
  <2>1. p \notin Pending(m) /\ (p \in Pending(m)' <=> m = n)
    BY Zenon, <1>1, <1>4 DEF Pending
  <2>2. dnlink[m] = Cardinality(Names(m)) + Cardinality(Pending(m))
    BY Zenon DEF InodeInv, Links
  <2>3. CASE m = n
    <3>1. Names(m)' = Names(m) \ {name[p]} /\ name[p] \in Names(m)
      BY Zenon, <1>1, <1>2, <1>3, <2>3, Facts DEF Names
    <3>2. Pending(m)' = Pending(m) \cup {p}
      BY Zenon, <1>5, <2>1, <2>3, PendingStep
    <3>3. PICK a \in Nat : a = Cardinality(Names(m)') /\ Cardinality(Names(m)) = a + 1
      BY Zenon, <3>1, Finite, OneLess
    <3>4. PICK b \in Nat : b = Cardinality(Pending(m)) /\ Cardinality(Pending(m)') = b + 1
      BY Zenon, <2>1, <3>2, Finite, OneMore
    <3>5. (a + 1) + b = a + (b + 1)
      BY <3>3, <3>4
    <3>. QED BY Zenon, <1>1, <2>2, <3>3, <3>4, <3>5
  <2>4. CASE m # n
    <3>1. Names(m)' = Names(m)
      BY Zenon, <1>1, <1>2, <1>3, <2>4, Facts DEF Names
    <3>2. Pending(m)' = Pending(m)
      BY Zenon, <1>5, <2>1, <2>4, PendingStep
    <3>. QED BY Zenon, <1>1, <2>2, <3>1, <3>2
  <2>. QED BY Zenon, <2>3, <2>4
<1>11. Uses'
  <2>1. \A f \in Name : entry'[f] # Null => used[entry'[f]]
    BY Zenon, <1>1, <1>2, <1>3 DEF InodeInv, Uses
  <2>. QED BY Zenon, <1>1, <1>2, <1>5, <2>1, UsesStep DEF InodeInv, Uses
<1>12. HasAt(p)'
  BY Zenon, <1>1, <1>4 DEF InodeInv, Has, HasAt
<1>13. FreesAt(p)' /\ NewAt(p)' /\ FoundAt(p)'
  BY Zenon, <1>4 DEF FreesAt, NewAt, FoundAt, Freeing, Creating
<1>. QED BY Zenon, <1>5, <1>6, <1>7, <1>8, <1>9, <1>10, <1>11, <1>12, <1>13, StepOK

\* link writes an entry for the link it has counted.
LEMMA LinkDirStep == ASSUME SetFacts, InodeInv, NEW p \in Proc, NEW f \in Name, LinkDir(p, f) PROVE InodeInv'
<1>. DEFINE n == inum[ip[p]]
<1>1. CASE Goto(p, "bad_lock") /\ entry' = entry
  BY Zenon, <1>1, QuietSteps DEF LinkDir, Goto, dinode, local
<1>2. CASE Goto(p, "iput") /\ entry' = [entry EXCEPT ![f] = n]
  <2>1. /\ pc[p] = "link_dir" /\ pc' = [pc EXCEPT ![p] = "iput"] /\ dlock = None /\ entry[f] = Null
        /\ UNCHANGED <<used, dnlink, dlock, inum, ref, valid, nlink, slock, ip, name, num, aux>>
    BY Zenon, <1>2 DEF LinkDir, Goto, dinode, local
  <2>2. ip[p] # Null /\ n \in Inum /\ used[n]
    <3>1. ip[p] # Null /\ pc[p] \notin Freed
      BY Zenon, <2>1 DEF InodeInv, Has, Freed
    <3>. QED BY Zenon, <3>1, OwnUsed
  <2>3. entry \in [Name -> Inum \cup {Null}] /\ pc \in [Proc -> Pcs]
    BY Zenon DEF InodeInv, Types, DiskTypes, ProcTypes
  <2>4. pc'[p] = "iput" /\ Others(p)
    BY Zenon, <2>1, <2>3 DEF Others
  <2>5. Keeps(p)
    BY Zenon, <2>1, <2>2, <2>4 DEF Keeps, Gets, Freed
  <2>6. Types'
    <3>1. pc' \in [Proc -> Pcs] /\ entry' \in [Name -> Inum \cup {Null}]
      BY Zenon, <1>2, <2>1, <2>2, <2>3 DEF Pcs
    <3>. QED BY Zenon, <2>1, <3>1 DEF InodeInv, Types, DiskTypes, SlotTypes, ProcTypes
  <2>7. Locks'
    <3>1. pc[p] \notin Holding /\ pc'[p] \notin Holding /\ pc'[p] \notin DirHolding
      BY Zenon, <2>1, <2>4 DEF Holding, DirHolding
    <3>2. dlock' # p /\ \A s \in Slot : slock'[s] # p
      BY Zenon, <2>1, <3>1, Facts DEF InodeInv, Locks
    <3>. QED BY Zenon, <2>1, <2>4, <3>1, <3>2, LocksStep
  <2>8. Counts'
    BY Zenon, <2>1, CountsSame
  <2>9. Slots'
    <3>1. \A q \in Proc : pc'[q] \in Holding => valid'[ip'[q]]
      BY Zenon, <2>1, <2>4 DEF InodeInv, Slots, Others, Holding
    <3>. QED BY Zenon, <2>1, <3>1, SlotsSame
  <2>10. Links'
    <3>. SUFFICES ASSUME NEW m \in Inum PROVE dnlink'[m] = Cardinality(Names(m)') + Cardinality(Pending(m)')
      BY Zenon DEF Links
    <3>1. p \notin Pending(m)' /\ (p \in Pending(m) <=> m = n)
      BY Zenon, <2>1, <2>4 DEF Pending
    <3>2. dnlink[m] = Cardinality(Names(m)) + Cardinality(Pending(m))
      BY Zenon DEF InodeInv, Links
    <3>3. CASE m = n
      <4>1. Names(m)' = Names(m) \cup {f} /\ f \notin Names(m)
        BY Zenon, <1>2, <2>1, <2>3, <3>3, Facts DEF Names
      <4>2. Pending(m)' = Pending(m) \ {p}
        BY Zenon, <2>5, <3>1, <3>3, PendingStep
      <4>3. PICK a \in Nat : a = Cardinality(Names(m)) /\ Cardinality(Names(m)') = a + 1
        BY Zenon, <4>1, Finite, OneMore
      <4>4. PICK b \in Nat : b = Cardinality(Pending(m)') /\ Cardinality(Pending(m)) = b + 1
        BY Zenon, <3>1, <3>3, <4>2, Finite, OneLess
      <4>5. (a + 1) + b = a + (b + 1)
        BY <4>3, <4>4
      <4>. QED BY Zenon, <2>1, <3>2, <4>3, <4>4, <4>5
    <3>4. CASE m # n
      <4>1. Names(m)' = Names(m)
        BY Zenon, <1>2, <2>1, <2>3, <3>4, Facts DEF Names
      <4>2. Pending(m)' = Pending(m)
        BY Zenon, <2>5, <3>1, <3>4, PendingStep
      <4>. QED BY Zenon, <2>1, <3>2, <4>1, <4>2
    <3>. QED BY Zenon, <3>3, <3>4
  <2>11. Uses'
    <3>1. \A g \in Name : entry'[g] # Null => used[entry'[g]]
      BY Zenon, <1>2, <2>2, <2>3 DEF InodeInv, Uses
    <3>. QED BY Zenon, <2>1, <2>2, <2>5, <3>1, UsesStep DEF InodeInv, Uses
  <2>12. HasAt(p)'
    BY Zenon, <2>1, <2>4 DEF InodeInv, Has, HasAt
  <2>13. FreesAt(p)' /\ NewAt(p)' /\ FoundAt(p)'
    BY Zenon, <2>4 DEF FreesAt, NewAt, FoundAt, Freeing, Creating
  <2>. QED BY Zenon, <2>5, <2>6, <2>7, <2>8, <2>9, <2>10, <2>11, <2>12, <2>13, StepOK
<1>. QED BY Zenon, <1>1, <1>2 DEF LinkDir

-----------------------------------------------------------------------------
\* A reference is given up: by iput, at once or after it has freed the inode,
LEMMA PutStep ==
  ASSUME SetFacts, InodeInv, NEW p \in Proc, pc[p] \in {"iput", "create_iput", "iref", "create_iref"},
         ref' = [ref EXCEPT ![ip[p]] = @ - 1], ip' = [ip EXCEPT ![p] = Null],
         pc' = [pc EXCEPT ![p] = "idle"],
         dlock' = IF pc[p] \in {"iput", "iref"} THEN dlock ELSE None,
         UNCHANGED <<used, dnlink, entry, inum, valid, nlink, slock, name, num, aux>>
  PROVE  InodeInv'
<1>0. pc \in [Proc -> Pcs] /\ ip \in [Proc -> Slot \cup {Null}] /\ ref \in [Slot -> Nat]
  BY Zenon DEF InodeInv, Types, SlotTypes, ProcTypes
<1>1. ip[p] # Null /\ ip[p] \in Slot /\ ref[ip[p]] > 0
  <2>1. ip[p] # Null
    BY Zenon DEF InodeInv, Has
  <2>. QED BY Zenon, <2>1, OwnUsed
<1>2. pc'[p] = "idle" /\ ip'[p] = Null /\ Others(p)
  BY Zenon, <1>0 DEF Others
<1>3. Keeps(p)
  BY Zenon, <1>2 DEF Keeps, Gets, InodeInv, Has
<1>4. Counts' /\ ref' \in [Slot -> Nat]
  BY Zenon, <1>1, CountsPut
<1>5. Types'
  <2>1. pc' \in [Proc -> Pcs] /\ ip' \in [Proc -> Slot \cup {Null}]
    BY Zenon, <1>0 DEF Pcs
  <2>2. dlock' \in Proc \cup {None}
    BY Zenon DEF InodeInv, Types, SlotTypes
  <2>. QED BY Zenon, <1>4, <2>1, <2>2 DEF InodeInv, Types, DiskTypes, SlotTypes, ProcTypes
<1>6. Locks'
  <2>1. pc[p] \notin Holding /\ pc'[p] \notin Holding /\ pc'[p] \notin DirHolding
    BY Zenon, <1>2 DEF Holding, DirHolding
  <2>2. \A s \in Slot : slock'[s] # p
    BY Zenon, <2>1 DEF InodeInv, Locks
  <2>3. dlock' # p /\ (dlock' = dlock \/ (dlock = p /\ dlock' = None))
    <3>1. dlock = p <=> pc[p] \in {"create_iput", "create_iref"}
      BY Zenon DEF InodeInv, Locks, DirHolding
    <3>. QED BY Zenon, <3>1, Facts
  <2>. QED BY Zenon, <1>2, <2>1, <2>2, <2>3, LocksStep
<1>7. Slots'
  <2>1. \A s \in Slot : ref'[s] > 0 => ref[s] > 0
    BY Zenon, <1>0, <1>1
  <2>2. \A q \in Proc : pc'[q] \in Holding => valid'[ip'[q]]
    BY Zenon, <1>2, HeldValid DEF Holding
  <2>. QED BY Zenon, <2>1, <2>2, SlotsSame
<1>8. Links'
  <2>1. pc'[p] \notin Counting /\ pc[p] \notin Counting
    BY Zenon, <1>2 DEF Counting
  <2>. QED BY Zenon, <1>3, <2>1, LinksSame
<1>9. Uses'
  BY Zenon, <1>2, <1>3, UsesStep DEF InodeInv, Uses
<1>10. HasAt(p)'
  BY Zenon, <1>2 DEF InodeInv, Has, HasAt
<1>11. FreesAt(p)' /\ NewAt(p)' /\ FoundAt(p)'
  BY Zenon, <1>2 DEF FreesAt, NewAt, FoundAt, Freeing, Creating
<1>. QED BY Zenon, <1>3, <1>4, <1>5, <1>6, <1>7, <1>8, <1>9, <1>10, <1>11, StepOK

\* and by dirlink that found the name taken.
LEMMA LinkPutBackStep == ASSUME SetFacts, InodeInv, NEW p \in Proc, LinkPutBack(p) PROVE InodeInv'
<1>0. /\ pc \in [Proc -> Pcs] /\ aux \in [Proc -> Slot \cup {Null}] /\ ref \in [Slot -> Nat]
  BY Zenon DEF InodeInv, Types, SlotTypes, ProcTypes
<1>1. /\ pc[p] = "link_exists" /\ pc' = [pc EXCEPT ![p] = "bad_lock"] /\ dlock' = None
      /\ ref' = [ref EXCEPT ![aux[p]] = @ - 1] /\ aux' = [aux EXCEPT ![p] = Null]
      /\ UNCHANGED <<used, dnlink, entry, inum, valid, nlink, slock, ip, name, num>>
  BY Zenon DEF LinkPutBack, Goto, dinode
<1>2. aux[p] \in Slot /\ ref[aux[p]] > 0 /\ ip[p] # Null /\ pc[p] \notin Freed
  <2>1. aux[p] # Null /\ ip[p] # Null
    BY Zenon, <1>1 DEF InodeInv, Has
  <2>. QED BY Zenon, <1>1, <2>1, RefPos DEF InodeInv, Freed
<1>3. pc'[p] = "bad_lock" /\ aux'[p] = Null /\ Others(p)
  BY Zenon, <1>0, <1>1 DEF Others
<1>4. Keeps(p)
  BY Zenon, <1>1, <1>2, <1>3 DEF Keeps, Gets
<1>5. Counts' /\ ref' \in [Slot -> Nat]
  BY Zenon, <1>1, <1>2, CountsPut
<1>6. Types'
  <2>1. pc' \in [Proc -> Pcs] /\ aux' \in [Proc -> Slot \cup {Null}]
    BY Zenon, <1>0, <1>1 DEF Pcs, Locking
  <2>. QED BY Zenon, <1>1, <1>5, <2>1 DEF InodeInv, Types, DiskTypes, SlotTypes, ProcTypes
<1>7. Locks'
  <2>1. pc[p] \notin Holding /\ pc'[p] \notin Holding /\ pc'[p] \notin DirHolding /\ pc[p] \in DirHolding
    BY Zenon, <1>1, <1>3 DEF Holding, DirHolding
  <2>2. dlock = p /\ \A s \in Slot : slock'[s] # p
    BY Zenon, <1>1, <2>1 DEF InodeInv, Locks
  <2>. QED BY Zenon, <1>1, <1>3, <2>1, <2>2, Facts, LocksStep
<1>8. Slots'
  <2>1. \A s \in Slot : ref'[s] > 0 => ref[s] > 0
    BY Zenon, <1>0, <1>1, <1>2
  <2>2. \A q \in Proc : pc'[q] \in Holding => valid'[ip'[q]]
    BY Zenon, <1>1, <1>3, HeldValid DEF Holding
  <2>. QED BY Zenon, <1>1, <2>1, <2>2, SlotsSame
<1>9. Links'
  <2>1. pc'[p] \in Counting /\ pc[p] \in Counting
    BY Zenon, <1>1, <1>3 DEF Counting
  <2>. QED BY Zenon, <1>1, <1>4, <2>1, LinksSame
<1>10. Uses'
  <2>1. used'[inum'[ip'[p]]]
    BY Zenon, <1>1, <1>2, OwnUsed
  <2>. QED BY Zenon, <1>1, <1>4, <2>1, UsesStep DEF InodeInv, Uses
<1>11. HasAt(p)'
  BY Zenon, <1>1, <1>3 DEF InodeInv, Has, HasAt
<1>12. FreesAt(p)' /\ NewAt(p)' /\ FoundAt(p)'
  BY Zenon, <1>3 DEF FreesAt, NewAt, FoundAt, Freeing, Creating
<1>. QED BY Zenon, <1>4, <1>5, <1>6, <1>7, <1>8, <1>9, <1>10, <1>11, <1>12, StepOK

\* iput frees an inode that nobody else has, that has no name and that create
\* has not just allocated.
LEMMA ItruncStep == ASSUME SetFacts, InodeInv, NEW p \in Proc, Itrunc(p) PROVE InodeInv'
<1>. DEFINE n == inum[ip[p]]
<1>0. pc \in [Proc -> Pcs] /\ used \in [Inum -> BOOLEAN]
  BY Zenon DEF InodeInv, Types, DiskTypes, ProcTypes
<1>1. /\ pc[p] \in Freeing /\ used' = [used EXCEPT ![n] = FALSE]
      /\ UNCHANGED <<dnlink, entry, dlock, inum, ref, valid, nlink, slock, ip, name, num, aux>>
  BY Zenon DEF Itrunc, Freeing, dir, local
<1>2. \/ pc[p] = "itrunc" /\ pc' = [pc EXCEPT ![p] = "iinval"]
      \/ pc[p] = "create_itrunc" /\ pc' = [pc EXCEPT ![p] = "create_iinval"]
  BY Zenon DEF Itrunc, Goto
<1>3. ip[p] # Null /\ ip[p] \in Slot /\ ref[ip[p]] > 0 /\ n \in Inum /\ pc[p] \in Holding /\ pc[p] \notin Freed
  <2>1. ip[p] # Null /\ pc[p] \in Holding /\ pc[p] \notin Freed
    BY Zenon, <1>2 DEF InodeInv, Has, Holding, Freed
  <2>. QED BY Zenon, <2>1, OwnUsed
<1>4. Sole(p) /\ dnlink[n] = 0
  BY Zenon, <1>1, <1>3 DEF InodeInv, Frees, Slots
<1>5. pc'[p] \in Freed /\ pc'[p] \in Holding /\ Others(p)
  BY Zenon, <1>0, <1>1, <1>2 DEF Others, Freed, Holding
<1>6. Keeps(p)
  BY Zenon, <1>1, <1>3, <1>5 DEF Keeps, Gets
<1>7. Types'
  <2>1. pc' \in [Proc -> Pcs] /\ used' \in [Inum -> BOOLEAN]
    BY Zenon, <1>0, <1>1, <1>2, <1>3 DEF Pcs, Holding
  <2>. QED BY Zenon, <1>1, <2>1 DEF InodeInv, Types, DiskTypes, SlotTypes, ProcTypes
<1>8. Locks'
  <2>1. pc'[p] \in DirHolding <=> pc[p] \in DirHolding
    BY Zenon, <1>0, <1>2 DEF DirHolding
  <2>. QED BY Zenon, <1>1, <1>3, <1>5, <2>1, Released
<1>9. Counts'
  BY Zenon, <1>1, CountsSame
<1>10. Slots'
  <2>1. \A q \in Proc : pc'[q] \in Holding => valid'[ip'[q]]
    BY Zenon, <1>1, <1>3, <1>5, HeldValid DEF InodeInv, Slots
  <2>. QED BY Zenon, <1>1, <2>1, SlotsSame
<1>11. Links'
  <2>1. pc'[p] \notin Counting /\ pc[p] \notin Counting
    BY Zenon, <1>0, <1>2 DEF Counting
  <2>. QED BY Zenon, <1>1, <1>6, <2>1, LinksSame
<1>12. Uses'
  <2>1. \A m \in Inum : m # n => used'[m] = used[m]
    BY Zenon, <1>0, <1>1, <1>3
  <2>2. ASSUME NEW f \in Name, entry[f] # Null PROVE used'[entry[f]]
    <3>1. PICK m \in Inum : m = entry[f] /\ dnlink[m] > 0
      BY Zenon, <2>2, NamedLinked DEF InodeInv
    <3>2. m # n
      <4>1. ~(0 > 0)
        OBVIOUS
      <4>. QED BY Zenon, <1>4, <3>1, <4>1
    <3>3. used[m]
      BY Zenon, <2>2, <3>1 DEF InodeInv, Uses
    <3>. QED BY Zenon, <2>1, <3>1, <3>2, <3>3
  <2>3. \A m \in Inum : ~used'[m] => dnlink[m] = 0
    BY Zenon, <1>4, <2>1 DEF InodeInv, Uses
  <2>4. ASSUME NEW q \in Proc, ip[q] # Null, pc'[q] \notin Freed PROVE used'[inum[ip[q]]]
    <3>1. q # p /\ pc[q] \notin Freed
      BY Zenon, <1>5, <2>4 DEF Others
    <3>2. ip[q] \in Slot /\ ref[ip[q]] > 0 /\ inum[ip[q]] \in Inum /\ used[inum[ip[q]]]
      BY Zenon, <2>4, <3>1, OwnUsed
    <3>3. ip[q] # ip[p]
      BY Zenon, <1>4, <3>1 DEF Sole
    <3>4. inum[ip[q]] # n
      BY Zenon, <1>3, <3>2, <3>3 DEF InodeInv, Slots
    <3>. QED BY Zenon, <2>1, <3>2, <3>4
  <2>5. ASSUME NEW q \in Proc, num[q] # Null PROVE used'[num[q]]
    <3>1. pc[q] = "create_iget" /\ num[q] \in Inum /\ used[num[q]]
      BY Zenon, <2>5 DEF InodeInv, Has, Uses, Types, ProcTypes
    <3>2. Fresh(q, num[q]) /\ q # p
      BY Zenon, <1>2, <3>1 DEF InodeInv, News
    <3>3. num[q] # n
      BY Zenon, <1>3, <3>2 DEF Fresh
    <3>. QED BY Zenon, <2>1, <3>1, <3>3
  <2>. QED BY Zenon, <1>1, <2>2, <2>3, <2>4, <2>5 DEF Uses
<1>13. HasAt(p)'
  BY Zenon, <1>0, <1>1, <1>2 DEF InodeInv, Has, HasAt
<1>14. FreesAt(p)' /\ NewAt(p)' /\ FoundAt(p)'
  BY Zenon, <1>0, <1>2 DEF FreesAt, NewAt, FoundAt, Freeing, Creating
<1>. QED BY Zenon, <1>6, <1>7, <1>8, <1>9, <1>10, <1>11, <1>12, <1>13, <1>14, StepOK

\* It then makes the slot invalid, still under the inode's lock.
LEMMA IputInvalStep == ASSUME SetFacts, InodeInv, NEW p \in Proc, IputInval(p) PROVE InodeInv'
<1>0. pc \in [Proc -> Pcs] /\ valid \in [Slot -> BOOLEAN] /\ slock \in [Slot -> Proc \cup {None}]
  BY Zenon DEF InodeInv, Types, SlotTypes, ProcTypes
<1>1. /\ valid' = [valid EXCEPT ![ip[p]] = FALSE] /\ slock' = [slock EXCEPT ![ip[p]] = None]
      /\ UNCHANGED <<used, dnlink, entry, dlock, inum, ref, nlink, ip, name, num, aux>>
  BY Zenon DEF IputInval, Iunlock, dinode, dir, local
<1>2. \/ pc[p] = "iinval" /\ pc' = [pc EXCEPT ![p] = "iref"]
      \/ pc[p] = "create_iinval" /\ pc' = [pc EXCEPT ![p] = "create_iref"]
  BY Zenon DEF IputInval, Goto
<1>3. ip[p] # Null /\ ip[p] \in Slot /\ pc[p] \in Holding /\ pc[p] \in Freed
  <2>1. ip[p] # Null /\ pc[p] \in Holding /\ pc[p] \in Freed
    BY Zenon, <1>2 DEF InodeInv, Has, Holding, Freed
  <2>. QED BY Zenon, <2>1, OwnUsed
<1>4. pc'[p] \in Freed /\ pc'[p] \notin Holding /\ Others(p)
  BY Zenon, <1>0, <1>1, <1>2 DEF Others, Freed, Holding
<1>5. Keeps(p)
  BY Zenon, <1>1, <1>3, <1>4 DEF Keeps, Gets
<1>6. Types'
  <2>1. pc' \in [Proc -> Pcs] /\ valid' \in [Slot -> BOOLEAN] /\ slock' \in [Slot -> Proc \cup {None}]
    BY Zenon, <1>0, <1>1, <1>2, <1>3 DEF Pcs, DirHolding
  <2>. QED BY Zenon, <1>1, <2>1 DEF InodeInv, Types, DiskTypes, SlotTypes, ProcTypes
<1>7. Locks'
  <2>1. pc'[p] \in DirHolding <=> pc[p] \in DirHolding
    BY Zenon, <1>0, <1>2 DEF DirHolding
  <2>. QED BY Zenon, <1>1, <1>3, <1>4, <2>1, Released
<1>8. Counts'
  BY Zenon, <1>1, CountsSame
<1>9. Slots'
  <2>1. \A s \in Slot : s # ip[p] => valid'[s] = valid[s]
    BY Zenon, <1>0, <1>1
  <2>2. slock[ip[p]] = p
    BY Zenon, <1>3 DEF InodeInv, Locks
  <2>3. \A q \in Proc : pc'[q] \in Holding => valid'[ip'[q]]
    BY Zenon, <1>4, <2>1, <2>2, HeldValid
  <2>4. \A s \in Slot : valid'[s] => valid[s]
    BY Zenon, <1>0, <1>1, <1>3
  <2>. QED BY Zenon, <1>1, <2>3, <2>4, SlotsSame
<1>10. Links'
  <2>1. pc'[p] \notin Counting /\ pc[p] \notin Counting
    BY Zenon, <1>0, <1>2 DEF Counting
  <2>. QED BY Zenon, <1>1, <1>5, <2>1, LinksSame
<1>11. Uses'
  BY Zenon, <1>1, <1>4, <1>5, UsesStep DEF InodeInv, Uses
<1>12. HasAt(p)'
  BY Zenon, <1>0, <1>1, <1>2 DEF InodeInv, Has, HasAt
<1>13. FreesAt(p)' /\ NewAt(p)' /\ FoundAt(p)'
  BY Zenon, <1>0, <1>2 DEF FreesAt, NewAt, FoundAt, Freeing, Creating
<1>. QED BY Zenon, <1>5, <1>6, <1>7, <1>8, <1>9, <1>10, <1>11, <1>12, <1>13, StepOK

-----------------------------------------------------------------------------
\* ialloc takes a dinode that nobody has, but who has just freed it.
LEMMA IallocStep == ASSUME SetFacts, InodeInv, NEW p \in Proc, NEW f \in Name, Ialloc(p, f) PROVE InodeInv'
<1>0. /\ pc \in [Proc -> Pcs] /\ used \in [Inum -> BOOLEAN] /\ dnlink \in [Inum -> Nat]
      /\ num \in [Proc -> Inum \cup {Null}] /\ DOMAIN name = Proc
  BY Zenon DEF InodeInv, Types, DiskTypes, ProcTypes
<1>1. PICK n \in Inum : n = Min({m \in Inum : ~used[m]}) /\ ~used[n]
  <2>1. {m \in Inum : ~used[m]} \subseteq Nat /\ {m \in Inum : ~used[m]} # {}
    BY Zenon, Facts DEF Ialloc
  <2>. QED BY Zenon, <2>1, MinIn
<1>2. /\ pc[p] = "idle" /\ dlock = None /\ entry[f] = Null /\ dlock' = p
      /\ used' = [used EXCEPT ![n] = TRUE] /\ dnlink' = [dnlink EXCEPT ![n] = 0]
      /\ num' = [num EXCEPT ![p] = n] /\ name' = [name EXCEPT ![p] = f]
      /\ pc' = [pc EXCEPT ![p] = "create_iget"]
      /\ UNCHANGED <<entry, inum, ref, valid, nlink, slock, ip, aux>>
  BY Zenon, <1>1 DEF Ialloc, Goto
<1>3. dnlink[n] = 0 /\ \A m \in Inum : dnlink'[m] = dnlink[m]
  <2>1. dnlink[n] = 0
    BY Zenon, <1>1 DEF InodeInv, Uses
  <2>. QED BY Zenon, <1>0, <1>1, <1>2, <2>1
<1>4. used'[n] /\ \A m \in Inum : used[m] => used'[m]
  BY Zenon, <1>0, <1>2
<1>5. /\ pc'[p] = "create_iget" /\ num'[p] = n /\ name'[p] = f /\ ip[p] = Null /\ aux[p] = Null
      /\ Others(p)
  BY Zenon, <1>0, <1>2 DEF Others, InodeInv, Has
<1>6. Keeps(p)
  BY Zenon, <1>2, <1>3, <1>5 DEF Keeps, Gets, Freed
<1>7. Types'
  <2>1. pc' \in [Proc -> Pcs] /\ num' \in [Proc -> Inum \cup {Null}] /\ DOMAIN name' = Proc
    BY Zenon, <1>0, <1>2 DEF Pcs, DirHolding
  <2>2. 0 \in Nat
    OBVIOUS
  <2>3. used' \in [Inum -> BOOLEAN] /\ dnlink' \in [Inum -> Nat]
    BY Zenon, <1>0, <1>2, <2>2
  <2>. QED BY Zenon, <1>2, <2>1, <2>3 DEF InodeInv, Types, DiskTypes, SlotTypes, ProcTypes
<1>8. Locks'
  <2>1. pc[p] \notin Holding /\ pc'[p] \notin Holding /\ pc'[p] \in DirHolding
    BY Zenon, <1>2, <1>5 DEF Holding, DirHolding
  <2>2. \A s \in Slot : slock'[s] # p
    BY Zenon, <1>2, <2>1 DEF InodeInv, Locks
  <2>. QED BY Zenon, <1>2, <1>5, <2>1, <2>2, LocksStep
<1>9. Counts'
  BY Zenon, <1>2, CountsSame
<1>10. Slots'
  <2>1. \A q \in Proc : pc'[q] \in Holding => valid'[ip'[q]]
    BY Zenon, <1>2, <1>5, HeldValid DEF Holding
  <2>. QED BY Zenon, <1>2, <1>3, <2>1, SlotsSame
<1>11. Links'
  <2>1. pc'[p] \notin Counting /\ pc[p] \notin Counting
    BY Zenon, <1>2, <1>5 DEF Counting
  <2>. QED BY Zenon, <1>2, <1>3, <1>6, <2>1, LinksSame
<1>12. Uses'
  <2>1. \A g \in Name : entry'[g] # Null => used'[entry'[g]]
    <3>1. \A g \in Name : entry[g] # Null => entry[g] \in Inum /\ used[entry[g]]
      BY Zenon DEF InodeInv, Uses, Types, DiskTypes
    <3>. QED BY Zenon, <1>2, <1>4, <3>1
  <2>2. \A m \in Inum : ~used'[m] => dnlink'[m] = 0
    BY Zenon, <1>3, <1>4 DEF InodeInv, Uses
  <2>. QED BY Zenon, <1>2, <1>4, <1>5, <1>6, <2>1, <2>2, UsesStep
<1>13. HasAt(p)'
  BY Zenon, <1>2, <1>5, Facts DEF InodeInv, Has, HasAt
<1>14. NewAt(p)'
  <2>1. \A q \in Proc : q # p /\ ip'[q] # Null /\ inum'[ip'[q]] = n => pc'[q] \in Freed
    BY Zenon, <1>1, <1>2, <1>5 DEF InodeInv, Uses, Others
  <2>2. dnlink'[n] = 0 /\ entry'[name'[p]] = Null
    BY Zenon, <1>2, <1>3, <1>5
  <2>. QED BY Zenon, <1>5, <2>1, <2>2 DEF NewAt, Fresh, Creating
<1>15. FreesAt(p)' /\ FoundAt(p)'
  BY Zenon, <1>5 DEF FreesAt, FoundAt, Freeing
<1>. QED BY Zenon, <1>6, <1>7, <1>8, <1>9, <1>10, <1>11, <1>12, <1>13, <1>14, <1>15, StepOK

\* The slot that iget returns: the inode's own, or one that was empty.
LEMMA IgetSlot ==
  ASSUME SetFacts, InodeInv, NEW n \in Inum, Iget(n)
  PROVE  \E t \in Slot :
           /\ t = SlotOf(n) /\ ref' = [ref EXCEPT ![t] = @ + 1] /\ inum' = [inum EXCEPT ![t] = n]
           /\ valid' \in [Slot -> BOOLEAN] /\ \A s \in Slot : s # t => valid'[s] = valid[s]
           /\ \/ ref[t] > 0 /\ inum[t] = n /\ valid'[t] = valid[t]
              \/ ref[t] = 0 /\ ~valid'[t] /\ \A s \in Slot : ref[s] > 0 => inum[s] # n
<1>0. valid \in [Slot -> BOOLEAN]
  BY Zenon DEF InodeInv, Types, SlotTypes
<1>1. Referenced(n) \subseteq Nat /\ Empty \subseteq Nat
  BY Zenon, Facts DEF Referenced, Empty
<1>2. ref' = [ref EXCEPT ![SlotOf(n)] = @ + 1] /\ inum' = [inum EXCEPT ![SlotOf(n)] = n]
  BY Zenon DEF Iget
<1>3. CASE Referenced(n) # {}
  <2>1. PICK t \in Slot : t = SlotOf(n) /\ t \in Referenced(n)
    BY Zenon, <1>1, <1>3, MinIn DEF SlotOf, Referenced
  <2>2. ref[t] > 0 /\ inum[t] = n
    BY Zenon, <2>1 DEF Referenced
  <2>3. valid' = [valid EXCEPT ![t] = @ /\ Referenced(n) # {}]
    BY Zenon, <2>1 DEF Iget
  <2>4. valid' \in [Slot -> BOOLEAN] /\ \A s \in Slot : s # t => valid'[s] = valid[s]
    BY Zenon, <1>0, <2>3
  <2>5. valid'[t] = valid[t]
    BY Zenon, <1>0, <1>3, <2>3
  <2>. QED BY Zenon, <1>2, <2>1, <2>2, <2>4, <2>5
<1>4. CASE Referenced(n) = {}
  <2>1. PICK t \in Slot : t = SlotOf(n) /\ t \in Empty
    BY Zenon, <1>1, <1>4, MinIn DEF SlotOf, Empty, Iget
  <2>2. ref[t] = 0 /\ \A s \in Slot : ref[s] > 0 => inum[s] # n
    BY Zenon, <1>4, <2>1 DEF Empty, Referenced
  <2>3. valid' = [valid EXCEPT ![t] = @ /\ Referenced(n) # {}]
    BY Zenon, <2>1 DEF Iget
  <2>4. valid' \in [Slot -> BOOLEAN] /\ \A s \in Slot : s # t => valid'[s] = valid[s]
    BY Zenon, <1>0, <2>3
  <2>5. ~valid'[t]
    BY Zenon, <1>0, <1>4, <2>3
  <2>. QED BY Zenon, <1>2, <2>1, <2>2, <2>4, <2>5
<1>. QED BY Zenon, <1>3, <1>4

\* iget of an inode in use that nobody is freeing: the reference is the
\* process's, and the slot is not one that an iput is at work on.
LEMMA GetStep ==
  ASSUME SetFacts, InodeInv, NEW p \in Proc, NEW n \in Inum, Iget(n), used[n], Others(p),
         UNCHANGED <<used, dnlink, entry, nlink, slock>>,
         \A q \in Proc : q # p /\ pc[q] \in Freeing => inum[ip[q]] # n,
         pc[p] \notin Holding, pc'[p] \notin Holding, pc[p] \notin Freed,
         pc'[p] \in Counting <=> pc[p] \in Counting,
         dlock \in {None, p}, dlock' \in {None, p}, dlock' = p <=> pc'[p] \in DirHolding,
         \/ ip[p] = Null /\ ip' = [ip EXCEPT ![p] = SlotOf(n)] /\ aux' = aux /\ pc[p] \notin Counting
         \/ aux[p] = Null /\ ip[p] # Null /\ aux' = [aux EXCEPT ![p] = SlotOf(n)] /\ ip' = ip,
         num'[p] = Null
  PROVE  /\ Keeps(p) /\ Locks' /\ Counts' /\ Slots' /\ Links' /\ Uses'
         /\ SlotOf(n) \in Slot /\ inum'[SlotOf(n)] = n
         /\ ref' \in [Slot -> Nat] /\ inum' \in [Slot -> Inum \cup {Null}] /\ valid' \in [Slot -> BOOLEAN]
         /\ ip' \in [Proc -> Slot \cup {Null}] /\ aux' \in [Proc -> Slot \cup {Null}]
<1>0. /\ ref \in [Slot -> Nat] /\ inum \in [Slot -> Inum \cup {Null}]
      /\ ip \in [Proc -> Slot \cup {Null}] /\ aux \in [Proc -> Slot \cup {Null}]
  BY Zenon DEF InodeInv, Types, SlotTypes, ProcTypes
<1>1. PICK t \in Slot :
        /\ t = SlotOf(n) /\ ref' = [ref EXCEPT ![t] = @ + 1] /\ inum' = [inum EXCEPT ![t] = n]
        /\ valid' \in [Slot -> BOOLEAN] /\ \A s \in Slot : s # t => valid'[s] = valid[s]
        /\ \/ ref[t] > 0 /\ inum[t] = n /\ valid'[t] = valid[t]
           \/ ref[t] = 0 /\ ~valid'[t] /\ \A s \in Slot : ref[s] > 0 => inum[s] # n
  BY Zenon, IgetSlot
<1>2. /\ inum'[t] = n /\ inum' \in [Slot -> Inum \cup {Null}] /\ ref' \in [Slot -> Nat]
      /\ \A s \in Slot : s # t => inum'[s] = inum[s] /\ ref'[s] = ref[s]
  <2>1. ref[t] + 1 \in Nat
    BY <1>0
  <2>. QED BY Zenon, <1>0, <1>1, <2>1
<1>3. ip' \in [Proc -> Slot \cup {Null}] /\ aux' \in [Proc -> Slot \cup {Null}]
  BY ZenonT(30), <1>0, <1>1
<1>4. \A s \in Slot : ref[s] > 0 => ~(ref[s] = 0)
  BY <1>0
<1>5. \A s \in Slot : ref[s] > 0 => inum'[s] = inum[s] /\ valid'[s] = valid[s]
  BY Zenon, <1>1, <1>2, <1>4
<1>6. Keeps(p)
  <2>1. ASSUME NEW q \in Proc, q # p, pc[q] \in Freeing PROVE ip[q] # t
    <3>1. ip[q] # Null
      BY Zenon, <2>1 DEF InodeInv, Has, Freeing
    <3>2. ip[q] \in Slot /\ ref[ip[q]] > 0 /\ inum[ip[q]] # n
      BY Zenon, <2>1, <3>1, RefPos DEF InodeInv
    <3>. QED BY Zenon, <1>1, <1>4, <3>2
  <2>2. (ip'[p] = ip[p] \/ ip'[p] = t) /\ (aux'[p] = aux[p] \/ aux'[p] = t)
    BY Zenon, <1>0, <1>1
  <2>3. Gets(p, ip'[p]) /\ Gets(p, aux'[p])
    BY Zenon, <2>1, <2>2 DEF Gets
  <2>. QED BY Zenon, <1>5, <2>3 DEF Keeps
<1>7. Locks'
  <2>1. \A s \in Slot : slock'[s] # p
    BY Zenon DEF InodeInv, Locks
  <2>. QED BY Zenon, <2>1, LocksStep
<1>8. Counts'
  BY Zenon, <1>1, CountsGet
<1>9. Slots'
  <2>1. \A s \in Slot : ref'[s] > 0 => inum'[s] \in Inum
    BY Zenon, <1>2 DEF InodeInv, Slots
  <2>2. ASSUME NEW s \in Slot, s # t, ref'[s] > 0 PROVE inum'[s] # n
    <3>1. ref[s] > 0 /\ inum'[s] = inum[s]
      BY Zenon, <1>2, <2>2
    <3>2. ref[t] > 0 /\ inum[t] = n => inum[s] # n
      BY Zenon, <2>2, <3>1 DEF InodeInv, Slots
    <3>. QED BY Zenon, <1>1, <3>1, <3>2
  <2>3. \A r, s \in Slot : ref'[r] > 0 /\ ref'[s] > 0 /\ inum'[r] = inum'[s] => r = s
    <3>1. \A r, s \in Slot : ref[r] > 0 /\ ref[s] > 0 /\ inum[r] = inum[s] => r = s
      BY Zenon DEF InodeInv, Slots
    <3>. QED BY Zenon, <1>2, <2>2, <3>1
  <2>4. ASSUME NEW s \in Slot, ref'[s] > 0, valid'[s] PROVE nlink'[s] = dnlink'[inum'[s]]
    <3>1. ref[s] > 0 => (valid[s] => nlink[s] = dnlink[inum[s]])
      BY Zenon DEF InodeInv, Slots
    <3>2. CASE s # t
      BY Zenon, <1>1, <1>2, <2>4, <3>1, <3>2
    <3>3. CASE s = t
      BY Zenon, <1>1, <1>2, <2>4, <3>1, <3>3
    <3>. QED BY Zenon, <3>2, <3>3
  <2>5. ASSUME NEW q \in Proc, pc'[q] \in Holding PROVE valid'[ip'[q]]
    <3>1. q # p /\ pc[q] \in Holding /\ ip'[q] = ip[q]
      BY Zenon, <2>5 DEF Others
    <3>2. ip[q] # Null
      BY Zenon, <3>1 DEF InodeInv, Has, Holding
    <3>3. ip[q] \in Slot /\ ref[ip[q]] > 0
      BY Zenon, <3>2, RefPos DEF InodeInv
    <3>4. valid[ip[q]]
      BY Zenon, <3>1 DEF InodeInv, Slots
    <3>. QED BY Zenon, <1>5, <3>1, <3>3, <3>4
  <2>. QED BY Zenon, <2>1, <2>3, <2>4, <2>5 DEF Slots
<1>10. Links'
  BY Zenon, <1>6, LinksSame
<1>11. Uses'
  <2>1. used'[inum'[ip'[p]]]
    <3>1. CASE ip'[p] = t
      BY Zenon, <1>2, <3>1
    <3>2. CASE ip'[p] # t
      <4>1. ip'[p] = ip[p] /\ ip[p] # Null
        BY Zenon, <1>0, <1>1, <3>2
      <4>2. ip[p] \in Slot /\ ref[ip[p]] > 0 /\ used[inum[ip[p]]]
        BY Zenon, <4>1, OwnUsed
      <4>. QED BY Zenon, <1>5, <4>1, <4>2
    <3>. QED BY Zenon, <3>1, <3>2
  <2>. QED BY Zenon, <1>6, <2>1, UsesStep DEF InodeInv, Uses
<1>. QED BY Zenon, <1>1, <1>2, <1>3, <1>6, <1>7, <1>8, <1>9, <1>10, <1>11

\* A named inode is in use, and no iput frees it.
LEMMA NamedSafe ==
  ASSUME SetFacts, InodeInv, NEW f \in Name, entry[f] # Null
  PROVE  /\ entry[f] \in Inum /\ used[entry[f]]
         /\ \A q \in Proc : pc[q] \in Freeing => inum[ip[q]] # entry[f]
<1>1. PICK n \in Inum : n = entry[f] /\ dnlink[n] > 0
  BY Zenon, NamedLinked DEF InodeInv
<1>2. dnlink[n] # 0
  BY <1>1
<1>3. ASSUME NEW q \in Proc, pc[q] \in Freeing PROVE dnlink[inum[ip[q]]] = 0
  <2>1. ip[q] # Null /\ pc[q] \in Holding
    BY Zenon, <1>3 DEF InodeInv, Has, Freeing, Holding
  <2>2. ip[q] \in Slot /\ ref[ip[q]] > 0
    BY Zenon, <2>1, RefPos DEF InodeInv
  <2>3. valid[ip[q]] /\ nlink[ip[q]] = 0
    BY Zenon, <1>3, <2>1 DEF InodeInv, Slots, Frees
  <2>. QED BY Zenon, <2>2, <2>3 DEF InodeInv, Slots
<1>. QED BY Zenon, <1>1, <1>2, <1>3 DEF InodeInv, Uses

\* namei finds a named inode.
LEMMA LookupStep ==
  ASSUME SetFacts, InodeInv, NEW p \in Proc, NEW f \in Name, NEW l \in {"open_lock", "link_lock"}, Lookup(p, f, l)
  PROVE  InodeInv'
<1>0. pc \in [Proc -> Pcs] /\ ip \in [Proc -> Slot \cup {Null}]
  BY Zenon DEF InodeInv, Types, ProcTypes
<1>1. /\ pc[p] = "idle" /\ dlock = None /\ entry[f] # Null /\ Iget(entry[f])
      /\ ip' = [ip EXCEPT ![p] = SlotOf(entry[f])] /\ pc' = [pc EXCEPT ![p] = l]
      /\ UNCHANGED <<used, dnlink, entry, dlock, nlink, slock, name, num, aux>>
  BY Zenon DEF Lookup, Goto, dinode, dir
<1>2. PICK n \in Inum : n = entry[f] /\ used[n] /\ \A q \in Proc : pc[q] \in Freeing => inum[ip[q]] # n
  BY Zenon, <1>1, NamedSafe
<1>3. pc'[p] = l /\ Others(p) /\ ip[p] = Null /\ num[p] = Null /\ aux[p] = Null
  BY Zenon, <1>0, <1>1 DEF Others, InodeInv, Has
<1>4. /\ pc[p] \notin Holding /\ l \notin Holding /\ pc[p] \notin Freed /\ l \notin DirHolding
      /\ pc[p] \notin Counting /\ l \notin Counting /\ l \in Pcs
  BY Zenon, <1>1 DEF Holding, Freed, DirHolding, Counting, Pcs, Locking
<1>5. /\ Keeps(p) /\ Locks' /\ Counts' /\ Slots' /\ Links' /\ Uses'
      /\ SlotOf(n) \in Slot /\ inum'[SlotOf(n)] = n
      /\ ref' \in [Slot -> Nat] /\ inum' \in [Slot -> Inum \cup {Null}] /\ valid' \in [Slot -> BOOLEAN]
      /\ ip' \in [Proc -> Slot \cup {Null}] /\ aux' \in [Proc -> Slot \cup {Null}]
  BY Zenon, <1>1, <1>2, <1>3, <1>4, Facts, GetStep
<1>6. Types'
  <2>1. pc' \in [Proc -> Pcs]
    BY Zenon, <1>0, <1>1, <1>4
  <2>. QED BY Zenon, <1>1, <1>5, <2>1 DEF InodeInv, Types, DiskTypes, SlotTypes, ProcTypes
<1>7. HasAt(p)'
  <2>1. ip'[p] # Null
    BY Zenon, <1>0, <1>1, <1>2, <1>5, Facts
  <2>. QED BY Zenon, <1>1, <1>3, <2>1 DEF HasAt
<1>8. FreesAt(p)' /\ NewAt(p)' /\ FoundAt(p)'
  BY Zenon, <1>3 DEF FreesAt, NewAt, FoundAt, Freeing, Creating
<1>. QED BY Zenon, <1>5, <1>6, <1>7, <1>8, StepOK

\* unlink looks the name up in the directory it has locked.
LEMMA UnlinkStep == ASSUME SetFacts, InodeInv, NEW p \in Proc, NEW f \in Name, Unlink(p, f) PROVE InodeInv'
<1>0. pc \in [Proc -> Pcs] /\ ip \in [Proc -> Slot \cup {Null}] /\ DOMAIN name = Proc
  BY Zenon DEF InodeInv, Types, ProcTypes
<1>1. /\ pc[p] = "idle" /\ dlock = None /\ dlock' = p /\ entry[f] # Null /\ Iget(entry[f])
      /\ ip' = [ip EXCEPT ![p] = SlotOf(entry[f])] /\ pc' = [pc EXCEPT ![p] = "unlink_lock"]
      /\ name' = [name EXCEPT ![p] = f]
      /\ UNCHANGED <<used, dnlink, entry, nlink, slock, num, aux>>
  BY Zenon DEF Unlink, Goto, dinode
<1>2. PICK n \in Inum : n = entry[f] /\ used[n] /\ \A q \in Proc : pc[q] \in Freeing => inum[ip[q]] # n
  BY Zenon, <1>1, NamedSafe
<1>3. /\ pc'[p] = "unlink_lock" /\ name'[p] = f /\ Others(p)
      /\ ip[p] = Null /\ num[p] = Null /\ aux[p] = Null
  BY Zenon, <1>0, <1>1 DEF Others, InodeInv, Has
<1>4. /\ pc[p] \notin Holding /\ pc'[p] \notin Holding /\ pc[p] \notin Freed /\ pc'[p] \in DirHolding
      /\ pc[p] \notin Counting /\ pc'[p] \notin Counting /\ pc'[p] \in Pcs
  BY Zenon, <1>1, <1>3 DEF Holding, Freed, DirHolding, Counting, Pcs
<1>5. /\ Keeps(p) /\ Locks' /\ Counts' /\ Slots' /\ Links' /\ Uses'
      /\ SlotOf(n) \in Slot /\ inum'[SlotOf(n)] = n
      /\ ref' \in [Slot -> Nat] /\ inum' \in [Slot -> Inum \cup {Null}] /\ valid' \in [Slot -> BOOLEAN]
      /\ ip' \in [Proc -> Slot \cup {Null}] /\ aux' \in [Proc -> Slot \cup {Null}]
  BY Zenon, <1>1, <1>2, <1>3, <1>4, GetStep
<1>6. Types'
  <2>1. pc' \in [Proc -> Pcs] /\ DOMAIN name' = Proc
    BY Zenon, <1>0, <1>1, <1>3, <1>4
  <2>. QED BY Zenon, <1>1, <1>5, <2>1 DEF InodeInv, Types, DiskTypes, SlotTypes, ProcTypes
<1>7. ip'[p] # Null /\ inum'[ip'[p]] = n
  BY Zenon, <1>0, <1>1, <1>2, <1>5, Facts
<1>8. HasAt(p)'
  BY Zenon, <1>1, <1>3, <1>7 DEF HasAt
<1>9. FreesAt(p)' /\ NewAt(p)'
  BY Zenon, <1>3 DEF FreesAt, NewAt, Freeing, Creating
<1>10. FoundAt(p)'
  BY Zenon, <1>1, <1>2, <1>3, <1>7 DEF FoundAt
<1>. QED BY Zenon, <1>5, <1>6, <1>8, <1>9, <1>10, StepOK

\* dirlink looks its name up, while link has its inode.
LEMMA LinkExistsStep == ASSUME SetFacts, InodeInv, NEW p \in Proc, NEW f \in Name, LinkExists(p, f) PROVE InodeInv'
<1>0. pc \in [Proc -> Pcs] /\ aux \in [Proc -> Slot \cup {Null}]
  BY Zenon DEF InodeInv, Types, ProcTypes
<1>1. /\ pc[p] = "link_dir" /\ dlock = None /\ dlock' = p /\ entry[f] # Null /\ Iget(entry[f])
      /\ aux' = [aux EXCEPT ![p] = SlotOf(entry[f])] /\ pc' = [pc EXCEPT ![p] = "link_exists"]
      /\ UNCHANGED <<used, dnlink, entry, nlink, slock, ip, name, num>>
  BY Zenon DEF LinkExists, Goto, dinode
<1>2. PICK n \in Inum : n = entry[f] /\ used[n] /\ \A q \in Proc : pc[q] \in Freeing => inum[ip[q]] # n
  BY Zenon, <1>1, NamedSafe
<1>3. pc'[p] = "link_exists" /\ Others(p) /\ ip[p] # Null /\ num[p] = Null /\ aux[p] = Null
  BY Zenon, <1>0, <1>1 DEF Others, InodeInv, Has
<1>4. /\ pc[p] \notin Holding /\ pc'[p] \notin Holding /\ pc[p] \notin Freed /\ pc'[p] \in DirHolding
      /\ pc[p] \in Counting /\ pc'[p] \in Counting /\ pc'[p] \in Pcs
  BY Zenon, <1>1, <1>3 DEF Holding, Freed, DirHolding, Counting, Pcs
<1>5. /\ Keeps(p) /\ Locks' /\ Counts' /\ Slots' /\ Links' /\ Uses'
      /\ SlotOf(n) \in Slot /\ inum'[SlotOf(n)] = n
      /\ ref' \in [Slot -> Nat] /\ inum' \in [Slot -> Inum \cup {Null}] /\ valid' \in [Slot -> BOOLEAN]
      /\ ip' \in [Proc -> Slot \cup {Null}] /\ aux' \in [Proc -> Slot \cup {Null}]
  BY Zenon, <1>1, <1>2, <1>3, <1>4, GetStep
<1>6. Types'
  <2>1. pc' \in [Proc -> Pcs]
    BY Zenon, <1>0, <1>1, <1>3, <1>4
  <2>. QED BY Zenon, <1>1, <1>5, <2>1 DEF InodeInv, Types, DiskTypes, SlotTypes, ProcTypes
<1>7. aux'[p] # Null /\ inum'[aux'[p]] = n
  BY Zenon, <1>0, <1>1, <1>2, <1>5, Facts
<1>8. HasAt(p)'
  BY Zenon, <1>1, <1>3, <1>7 DEF HasAt
<1>9. FreesAt(p)' /\ NewAt(p)'
  BY Zenon, <1>3 DEF FreesAt, NewAt, Freeing, Creating
<1>10. FoundAt(p)'
  BY Zenon, <1>1, <1>2, <1>3, <1>7 DEF FoundAt
<1>. QED BY Zenon, <1>5, <1>6, <1>8, <1>9, <1>10, StepOK

\* ialloc gets the inode it has allocated: a slot may still have its number,
\* of one who has freed it, and then it is that slot.
LEMMA CreateIgetStep == ASSUME SetFacts, InodeInv, NEW p \in Proc, CreateIget(p) PROVE InodeInv'
<1>0. /\ pc \in [Proc -> Pcs] /\ ip \in [Proc -> Slot \cup {Null}] /\ num \in [Proc -> Inum \cup {Null}]
  BY Zenon DEF InodeInv, Types, ProcTypes
<1>1. /\ pc[p] = "create_iget" /\ Iget(num[p]) /\ ip' = [ip EXCEPT ![p] = SlotOf(num[p])]
      /\ num' = [num EXCEPT ![p] = Null] /\ pc' = [pc EXCEPT ![p] = "create_lock"]
      /\ UNCHANGED <<used, dnlink, entry, dlock, nlink, slock, name, aux>>
  BY Zenon DEF CreateIget, Goto, dinode, dir
<1>2. PICK n \in Inum : n = num[p] /\ used[n] /\ Fresh(p, n)
  BY Zenon, <1>0, <1>1 DEF InodeInv, Has, Uses, News
<1>3. \A q \in Proc : q # p /\ pc[q] \in Freeing => inum[ip[q]] # n
  <2>1. \A q \in Proc : pc[q] \in Freeing => ip[q] # Null /\ pc[q] \notin Freed
    BY Zenon DEF InodeInv, Has, Freeing, Freed
  <2>. QED BY Zenon, <1>2, <2>1 DEF Fresh
<1>4. pc'[p] = "create_lock" /\ num'[p] = Null /\ Others(p) /\ ip[p] = Null /\ aux[p] = Null
  BY Zenon, <1>0, <1>1 DEF Others, InodeInv, Has
<1>5. /\ pc[p] \notin Holding /\ pc'[p] \notin Holding /\ pc[p] \notin Freed
      /\ pc[p] \in DirHolding /\ pc'[p] \in DirHolding
      /\ pc[p] \notin Counting /\ pc'[p] \notin Counting /\ pc'[p] \in Pcs
  BY Zenon, <1>1, <1>4 DEF Holding, Freed, DirHolding, Counting, Pcs
<1>6. dlock = p
  BY Zenon, <1>5 DEF InodeInv, Locks
<1>7. /\ Keeps(p) /\ Locks' /\ Counts' /\ Slots' /\ Links' /\ Uses'
      /\ SlotOf(n) \in Slot /\ inum'[SlotOf(n)] = n
      /\ ref' \in [Slot -> Nat] /\ inum' \in [Slot -> Inum \cup {Null}] /\ valid' \in [Slot -> BOOLEAN]
      /\ ip' \in [Proc -> Slot \cup {Null}] /\ aux' \in [Proc -> Slot \cup {Null}]
  BY Zenon, <1>1, <1>2, <1>3, <1>4, <1>5, <1>6, GetStep
<1>8. Types'
  <2>1. pc' \in [Proc -> Pcs] /\ num' \in [Proc -> Inum \cup {Null}]
    BY Zenon, <1>0, <1>1, <1>4, <1>5
  <2>. QED BY Zenon, <1>1, <1>7, <2>1 DEF InodeInv, Types, DiskTypes, SlotTypes, ProcTypes
<1>9. ip'[p] # Null /\ inum'[ip'[p]] = n
  BY Zenon, <1>0, <1>1, <1>2, <1>7, Facts
<1>10. HasAt(p)'
  BY Zenon, <1>1, <1>4, <1>9 DEF HasAt
<1>11. FreesAt(p)' /\ FoundAt(p)'
  BY Zenon, <1>4 DEF FreesAt, FoundAt, Freeing
<1>12. NewAt(p)'
  <2>1. ASSUME NEW q \in Proc, q # p, ip'[q] # Null, inum'[ip'[q]] = n PROVE pc'[q] \in Freed
    <3>1. pc'[q] = pc[q] /\ ip'[q] = ip[q]
      BY Zenon, <2>1, <1>4 DEF Others
    <3>2. inum'[ip[q]] = inum[ip[q]]
      BY Zenon, <1>7, <2>1, <3>1, RefPos DEF Keeps, InodeInv
    <3>. QED BY Zenon, <1>2, <2>1, <3>1, <3>2 DEF Fresh
  <2>2. dnlink'[n] = 0 /\ name'[p] \in Name /\ entry'[name'[p]] = Null
    BY Zenon, <1>1, <1>2 DEF Fresh
  <2>. QED BY Zenon, <1>4, <1>9, <2>1, <2>2 DEF NewAt, Fresh
<1>. QED BY Zenon, <1>7, <1>8, <1>10, <1>11, <1>12, StepOK

-----------------------------------------------------------------------------
\* At boot nothing is referenced, named or in use.
LEMMA InitInode == SetFacts /\ Init => InodeInv
<1>. SUFFICES ASSUME SetFacts, Init PROVE InodeInv
  OBVIOUS
<1>1. 0 \in Nat /\ ~(0 > 0) /\ 0 = 0 + 0
  OBVIOUS
<1>2. /\ \A n \in Inum : ~used[n] /\ dnlink[n] = 0
      /\ \A f \in Name : entry[f] = Null
      /\ \A s \in Slot : inum[s] = Null /\ ref[s] = 0 /\ slock[s] = None
      /\ \A p \in Proc : pc[p] = "idle" /\ ip[p] = Null /\ num[p] = Null /\ aux[p] = Null
      /\ dlock = None
  BY Zenon DEF Init
<1>3. Types
  BY Zenon, <1>1 DEF Init, Types, DiskTypes, SlotTypes, ProcTypes, Pcs
<1>4. Has
  BY Zenon, <1>2 DEF Has
<1>5. Locks
  BY Zenon, <1>2, Facts DEF Locks, Holding, DirHolding
<1>6. Counts
  <2>1. \A s \in Slot : By(s) = {} /\ ByAux(s) = {}
    BY Zenon, <1>2, Facts DEF By, ByAux
  <2>2. \A s \in Slot : Cardinality(By(s)) = 0 /\ Cardinality(ByAux(s)) = 0
    BY Zenon, <2>1, Finite, ZeroIsEmpty
  <2>. QED BY Zenon, <1>1, <1>2, <2>2 DEF Counts
<1>7. Slots
  BY Zenon, <1>1, <1>2 DEF Slots, Holding
<1>8. Links
  <2>1. \A n \in Inum : Names(n) = {} /\ Pending(n) = {}
    BY Zenon, <1>2, Facts DEF Names, Pending
  <2>2. \A n \in Inum : Cardinality(Names(n)) = 0 /\ Cardinality(Pending(n)) = 0
    BY Zenon, <2>1, Finite, ZeroIsEmpty
  <2>. QED BY Zenon, <1>1, <1>2, <2>2 DEF Links
<1>9. Uses
  BY Zenon, <1>2 DEF Uses
<1>10. Frees /\ News /\ Found
  BY Zenon, <1>2 DEF Frees, News, Found, Freeing, Creating
<1>. QED BY Zenon, <1>3, <1>4, <1>5, <1>6, <1>7, <1>8, <1>9, <1>10 DEF InodeInv

\* Every step keeps the invariant.
LEMMA InodeStep == SetFacts /\ InodeInv /\ [Next]_vars => InodeInv'
<1>. SUFFICES ASSUME SetFacts, InodeInv, [Next]_vars PROVE InodeInv'
  OBVIOUS
<1>1. CASE UNCHANGED vars
  <2>1. UNCHANGED <<used, dnlink, entry, dlock, inum, ref, valid, nlink, slock, pc, ip, name, num, aux>>
    BY Zenon, <1>1 DEF vars
  <2>2. Types' /\ Has' /\ Locks'
    BY Zenon, <2>1 DEF InodeInv, Types, DiskTypes, SlotTypes, ProcTypes, Has, Locks
  <2>3. Counts' /\ Slots' /\ Links'
    BY Zenon, <2>1 DEF InodeInv, Counts, By, ByAux, Slots, Links, Names, Pending
  <2>4. Uses' /\ Frees' /\ News' /\ Found'
    BY Zenon, <2>1 DEF InodeInv, Uses, Frees, Sole, News, Fresh, Found
  <2>. QED BY Zenon, <2>2, <2>3, <2>4 DEF InodeInv
<1>2. ASSUME NEW p \in Proc, Step(p) PROVE InodeInv'
  <2>1. CASE IputPath(p)
    <3>1. CASE Iput(p)
      <4>1. CASE Last(ip[p])
        BY Zenon, <3>1, <4>1, QuietSteps DEF Iput, Goto, dinode
      <4>2. CASE ~Last(ip[p])
        BY Zenon, <3>1, <4>2, PutStep DEF Iput, Goto, dinode
      <4>. QED BY Zenon, <4>1, <4>2
    <3>2. CASE IputRef(p)
      BY Zenon, <3>2, PutStep DEF IputRef, Goto, dinode
    <3>. QED BY Zenon, <2>1, <3>1, <3>2, ItruncStep, IputInvalStep DEF IputPath
  <2>2. CASE LinkPath(p)
    BY Zenon, <2>2, LinkIncStep, LinkPutBackStep, LinkDirStep, LinkExistsStep DEF LinkPath
  <2>3. CASE Open(p)
    BY Zenon, <2>3, QuietSteps DEF Open, Goto, Iunlock, dinode, dir, local
  <2>. QED BY Zenon, <1>2, <2>1, <2>2, <2>3, IlockStep, CreateIgetStep, CreateStep, UnlinkEntryStep, DropLinkStep DEF Step
<1>3. ASSUME NEW p \in Proc, Call(p) PROVE InodeInv'
  <2>1. CASE Close(p)
    BY Zenon, <2>1, QuietSteps DEF Close, Goto, dinode, dir, local
  <2>. QED BY Zenon, <1>3, <2>1, LookupStep, IallocStep, UnlinkStep DEF Call
<1>. QED BY Zenon, <1>1, <1>2, <1>3 DEF Next

-----------------------------------------------------------------------------
INSTANCE FiniteSetTheorems

\* The facts about sets, from the library.
LEMMA SetFactsHold == SetFacts
<1>1. \A S : \A T \in SUBSET S : IsFiniteSet(S) => IsFiniteSet(T) /\ Cardinality(T) \in Nat
  BY Zenon, FS_Subset, FS_CardinalityType
<1>2. \A S, x : IsFiniteSet(S) /\ x \notin S => IsFiniteSet(S \cup {x}) /\ Cardinality(S \cup {x}) = Cardinality(S) + 1
  BY Zenon, FS_AddElement
<1>3. \A S : IsFiniteSet(S) => (Cardinality(S) = 0 <=> S = {})
  BY Zenon, FS_EmptySet
<1>4. ASSUME NEW S \in SUBSET Nat, S # {} PROVE Min(S) \in S
  <2>. DEFINE R == {xy \in Nat \X Nat : xy[1] < xy[2]}
  <2>0. IsWellFoundedOn(R, Nat)
    BY Zenon, NatLessThanWellFounded DEF OpToRel
  <2>. HIDE DEF R
  <2>1. PICK x \in S : \A y \in S : ~(<<y, x>> \in R)
    BY Zenon, <1>4, <2>0, WFMin
  <2>2. ASSUME NEW y \in S PROVE x <= y
    <3>1. ~(<<y, x>> \in R)
      BY Zenon, <2>1
    <3>. QED BY <3>1 DEF R
  <2>. QED BY Zenon, <2>2 DEF Min
<1>. QED BY Zenon, <1>1, <1>2, <1>3, <1>4 DEF SetFacts

\* The inode table, the dinodes and the directory agree at all times.
THEOREM InodeInvariant == Spec => []InodeInv
<1>. QED BY SetFactsHold, InitInode, InodeStep, PTL DEF Spec

\* An inode has one slot, and iget and iput count its references exactly.
THEOREM RefsCounted == Spec => []RefsExact
<1>1. InodeInv => RefsExact
  BY Zenon DEF InodeInv, Slots, Counts, By, ByAux, RefsExact
<1>. QED BY <1>1, InodeInvariant, PTL

\* iput's acquiresleep under itable.lock finds the lock free: a lock is held
\* by somebody who has the inode, and the only one who has it is in iput.  What
\* dirlookup has just found under a name has a link, so iput gives it back.
THEOREM IputDoesNotSleep == Spec => []IputNeverSleeps
<1>1. InodeInv => IputNeverSleeps
  <2>. SUFFICES ASSUME SetFacts, InodeInv PROVE IputNeverSleeps
    BY Zenon, SetFactsHold
  <2>1. ASSUME NEW p \in Proc, pc[p] \in {"iput", "create_iput"}, Last(ip[p]) PROVE slock[ip[p]] = None
    <3>1. ip[p] # Null /\ pc[p] \notin Holding
      BY Zenon, <2>1 DEF InodeInv, Has, Holding
    <3>2. ip[p] \in Slot /\ Sole(p)
      BY Zenon, <2>1, <3>1, OwnUsed, RefOne DEF Last, InodeInv
    <3>3. \A q \in Proc : slock[ip[p]] # q
      <4>. SUFFICES ASSUME NEW q \in Proc, slock[ip[p]] = q PROVE FALSE
        BY Zenon
      <4>1. pc[q] \in Holding /\ ip[q] = ip[p]
        BY Zenon, <3>2 DEF InodeInv, Locks
      <4>2. q = p
        BY Zenon, <3>2, <4>1 DEF Sole
      <4>. QED BY Zenon, <3>1, <4>1, <4>2
    <3>. QED BY Zenon, <3>2, <3>3 DEF InodeInv, Types, SlotTypes
  <2>2. ASSUME NEW p \in Proc, pc[p] = "link_exists" PROVE ~Last(aux[p])
    <3>1. PICK f \in Name : entry[f] = inum[aux[p]]
      BY Zenon, <2>2 DEF InodeInv, Found
    <3>2. aux[p] # Null
      BY Zenon, <2>2 DEF InodeInv, Has
    <3>3. aux[p] \in Slot /\ ref[aux[p]] > 0
      BY Zenon, <3>2, RefPos DEF InodeInv
    <3>4. inum[aux[p]] \in Inum /\ (valid[aux[p]] => nlink[aux[p]] = dnlink[inum[aux[p]]])
      BY Zenon, <3>3 DEF InodeInv, Slots
    <3>5. dnlink[inum[aux[p]]] > 0
      BY Zenon, <3>1, <3>4, Facts, NamedLinked DEF InodeInv
    <3>6. ~(0 > 0)
      OBVIOUS
    <3>. QED BY Zenon, <3>4, <3>5, <3>6 DEF Last
  <2>. QED BY Zenon, <2>1, <2>2 DEF IputNeverSleeps
<1>. QED BY <1>1, InodeInvariant, PTL

\* The link count on the disk is the number of names plus the changes under
\* way, and it is the count that whoever locks the inode sees.
THEOREM LinksCounted == Spec => []LinksExact
<1>1. InodeInv => LinksExact
  BY Zenon DEF InodeInv, Slots, Links, Names, LinksExact
<1>. QED BY <1>1, InodeInvariant, PTL

\* No dinode with a name, open, locked or about to be locked is free.
THEOREM NotFreedEarly == Spec => []NoneFreedEarly
<1>1. InodeInv => NoneFreedEarly
  <2>. SUFFICES ASSUME InodeInv PROVE NoneFreedEarly
    OBVIOUS
  <2>1. \A n \in Inum : Named(n) => used[n]
    BY Zenon, Facts DEF InodeInv, Uses, Named
  <2>2. ASSUME NEW p \in Proc, pc[p] \in Using \cup Locking PROVE used[inum[ip[p]]]
    <3>1. pc[p] \notin Freed /\ pc[p] \notin {"idle", "create_iget"}
      BY Zenon, <2>2 DEF Using, Locking, Freed
    <3>2. ip[p] # Null
      BY Zenon, <3>1 DEF InodeInv, Has
    <3>. QED BY Zenon, <3>1, <3>2 DEF InodeInv, Uses
  <2>. QED BY Zenon, <2>1, <2>2 DEF NoneFreedEarly
<1>. QED BY <1>1, InodeInvariant, PTL

\* The locks of the directory and of inodes are taken in order, so that no
\* processes wait for each other in a circle.
THEOREM NoLockCircle == Spec => []LocksInOrder
<1>1. InodeInv => LocksInOrder
  <2>. SUFFICES ASSUME InodeInv PROVE LocksInOrder
    OBVIOUS
  <2>1. \A q \in Proc : pc[q] \in Holding \cup DirHolding => InCall(q)
    BY Zenon DEF Holding, DirHolding, InCall
  <2>2. \A q \in Proc : pc[q] \in Holding => CanGo(q)
    BY Zenon, <2>1 DEF CanGo, Waits, WaitsFor, Holding, Locking
  <2>3. \A p, q \in Proc : pc[p] \in Locking /\ slock[ip[p]] = q => pc[q] \in Holding
    <3>1. \A p \in Proc : pc[p] \in Locking => ip[p] \in Slot
      BY Zenon DEF InodeInv, Types, ProcTypes, Has, Locking
    <3>. QED BY Zenon, <3>1 DEF InodeInv, Locks
  <2>4. \A q \in Proc : dlock = q => pc[q] \in DirHolding
    BY Zenon DEF InodeInv, Locks
  <2>5. ASSUME NEW q \in Proc, pc[q] \in DirHolding
        PROVE  CanGo(q) \/ \E o \in Proc : WaitsFor(q, o) /\ CanGo(o)
    <3>1. pc[q] # "link_dir"
      BY Zenon, <2>5 DEF DirHolding
    <3>2. CASE Waits(q)
      <4>1. PICK o \in Proc : WaitsFor(q, o)
        BY Zenon, <3>2 DEF Waits
      <4>. QED BY Zenon, <2>2, <2>3, <3>1, <4>1 DEF WaitsFor
    <3>3. CASE ~Waits(q)
      BY Zenon, <2>1, <2>5, <3>3 DEF CanGo
    <3>. QED BY Zenon, <3>2, <3>3
  <2>6. ASSUME NEW p \in Proc, NEW q \in Proc, WaitsFor(p, q)
        PROVE  CanGo(q) \/ \E o \in Proc : WaitsFor(q, o) /\ CanGo(o)
    <3>1. pc[q] \in Holding \/ pc[q] \in DirHolding
      BY Zenon, <2>3, <2>4, <2>6 DEF WaitsFor
    <3>. QED BY Zenon, <2>2, <2>5, <3>1
  <2>7. \A q \in Proc : dlock = q \/ (\E s \in Slot : slock[s] = q) => InCall(q)
    BY Zenon, <2>1 DEF InodeInv, Locks
  <2>. QED BY Zenon, <2>6, <2>7 DEF LocksInOrder
<1>. QED BY <1>1, InodeInvariant, PTL
=============================================================================
