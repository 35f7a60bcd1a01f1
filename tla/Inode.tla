------------------------------- MODULE Inode --------------------------------
(***************************************************************************)
(* The inode table of kernel/fs.c (ialloc, iupdate, iget, ilock, iunlock,  *)
(* iput) under the system calls of kernel/sysfile.c that use it: open,     *)
(* create, link, unlink, and the close of an open file.                    *)
(*                                                                         *)
(* There is one directory, which is never removed; dlock is its inode      *)
(* lock.  Code under itable.lock is one step, so is what a process does to *)
(* an inode while it holds the inode's lock, and ialloc's look at the      *)
(* inode blocks.  File data is left out.  A process has at most one file   *)
(* open.                                                                   *)
(***************************************************************************)
EXTENDS Naturals, FiniteSets, FiniteSetsExt

CONSTANTS Proc, Name, None,
          NINODES,    \* sb.ninodes - 1: the inodes on the disk
          NINODE      \* slots of itable

ASSUME InodeAssumption ==
  /\ NINODES \in Nat \ {0} /\ NINODE \in Nat \ {0}
  /\ None \notin Proc /\ IsFiniteSet(Proc) /\ IsFiniteSet(Name)

Inum == 1..NINODES
Slot == 1..NINODE
Null == 0

VARIABLES
  used, dnlink,                      \* dinode: type # 0, nlink
  entry, dlock,                      \* the directory and its lock
  inum, ref, valid, nlink, slock,    \* itable.inode
  pc, ip, name, num, aux             \* per process; aux: the inode dirlink looks up

dir == <<entry, dlock>>
dinode == <<used, dnlink>>
local == <<ip, name, num, aux>>
vars == <<used, dnlink, entry, dlock, inum, ref, valid, nlink, slock, pc, ip,
          name, num, aux>>

\* iinit; mkfs's directory is empty.
Init ==
  /\ used = [n \in Inum |-> FALSE] /\ dnlink = [n \in Inum |-> 0]
  /\ entry = [f \in Name |-> Null] /\ dlock = None
  /\ inum = [s \in Slot |-> Null] /\ ref = [s \in Slot |-> 0]
  /\ valid = [s \in Slot |-> FALSE] /\ nlink = [s \in Slot |-> 0]
  /\ slock = [s \in Slot |-> None]
  /\ pc = [p \in Proc |-> "idle"] /\ ip = [p \in Proc |-> Null]
  /\ name \in [Proc -> {CHOOSE f \in Name : TRUE}]
  /\ num = [p \in Proc |-> Null] /\ aux = [p \in Proc |-> Null]

-----------------------------------------------------------------------------
Goto(p, l) == pc' = [pc EXCEPT ![p] = l]
Referenced(n) == {s \in Slot : ref[s] > 0 /\ inum[s] = n}
Empty == {s \in Slot : ref[s] = 0}

\* The slot iget returns: the one that has inode n, or the first empty one.
SlotOf(n) == IF Referenced(n) # {} THEN Min(Referenced(n)) ELSE Min(Empty)

\* iget(n).  Without an empty slot iget panics.
Iget(n) ==
  /\ Referenced(n) # {} \/ Empty # {}
  /\ ref' = [ref EXCEPT ![SlotOf(n)] = @ + 1]
  /\ inum' = [inum EXCEPT ![SlotOf(n)] = n]
  /\ valid' = [valid EXCEPT ![SlotOf(n)] = @ /\ Referenced(n) # {}]

\* iupdate of slot s with link count k.
SetNlink(s, k) ==
  /\ nlink' = [nlink EXCEPT ![s] = k]
  /\ dnlink' = [dnlink EXCEPT ![inum[s]] = k]

\* ilock: the lock, and the dinode is read if it has not been.
Locking == {"open_lock", "create_lock", "unlink_lock", "link_lock", "bad_lock"}
Locked == [open_lock |-> "opened", create_lock |-> "create", unlink_lock |-> "unlink",
           link_lock |-> "link", bad_lock |-> "bad"]
Ilock(p) ==
  LET s == ip[p] IN
  /\ pc[p] \in Locking /\ slock[s] = None
  /\ slock' = [slock EXCEPT ![s] = p]
  /\ valid' = [valid EXCEPT ![s] = TRUE]
  /\ nlink' = [nlink EXCEPT ![s] = IF valid[s] THEN @ ELSE dnlink[inum[s]]]
  /\ Goto(p, Locked[pc[p]])
  /\ UNCHANGED <<dinode, dir, inum, ref, local>>

Iunlock(s) == slock' = [slock EXCEPT ![s] = None]

-----------------------------------------------------------------------------
\* Mutant: links are not considered.
Last_AnyLink(s) == ref[s] = 1 /\ valid[s]

\* iput, first part: the last reference to an unlinked inode takes its lock
\* (still under itable.lock); any other is just given up.
Last(s) == ref[s] = 1 /\ valid[s] /\ nlink[s] = 0
\* Mutant: the reference is given up before the inode is freed.
Iput_DecFirst(p) ==
  LET s == ip[p] IN
  /\ pc[p] \in {"iput", "create_iput"}
  /\ \/ /\ Last(s) /\ slock[s] = None
        /\ slock' = [slock EXCEPT ![s] = p]
        /\ Goto(p, IF pc[p] = "iput" THEN "itrunc" ELSE "create_itrunc")
        /\ ref' = [ref EXCEPT ![s] = @ - 1]
        /\ UNCHANGED <<ip, dlock>>
     \/ /\ ~Last(s)
        /\ ref' = [ref EXCEPT ![s] = @ - 1]
        /\ Goto(p, "idle")
        /\ ip' = [ip EXCEPT ![p] = Null]
        /\ dlock' = IF pc[p] = "iput" THEN dlock ELSE None
        /\ UNCHANGED slock
  /\ UNCHANGED <<dinode, entry, inum, valid, nlink, name, num, aux>>

Iput(p) ==
  LET s == ip[p] IN
  /\ pc[p] \in {"iput", "create_iput"}
  /\ \/ /\ Last(s) /\ slock[s] = None
        /\ slock' = [slock EXCEPT ![s] = p]
        /\ Goto(p, IF pc[p] = "iput" THEN "itrunc" ELSE "create_itrunc")
        /\ UNCHANGED <<ref, ip, dlock>>
     \/ /\ ~Last(s)
        /\ ref' = [ref EXCEPT ![s] = @ - 1]
        /\ Goto(p, "idle")
        /\ ip' = [ip EXCEPT ![p] = Null]
        /\ dlock' = IF pc[p] = "iput" THEN dlock ELSE None
        /\ UNCHANGED slock
  /\ UNCHANGED <<dinode, entry, inum, valid, nlink, name, num, aux>>

\* itrunc, type 0, iupdate: the dinode is free from here on.
Itrunc(p) ==
  /\ pc[p] \in {"itrunc", "create_itrunc"}
  /\ used' = [used EXCEPT ![inum[ip[p]]] = FALSE]
  /\ Goto(p, IF pc[p] = "itrunc" THEN "iinval" ELSE "create_iinval")
  /\ UNCHANGED <<dnlink, dir, inum, ref, valid, nlink, slock, local>>

\* valid = 0 and releasesleep.
IputInval(p) ==
  /\ pc[p] \in {"iinval", "create_iinval"}
  /\ valid' = [valid EXCEPT ![ip[p]] = FALSE]
  /\ Iunlock(ip[p])
  /\ Goto(p, IF pc[p] = "iinval" THEN "iref" ELSE "create_iref")
  /\ UNCHANGED <<dinode, dir, inum, ref, nlink, local>>

\* itable.lock again: ref--.  create's failure path unlocks the directory.
IputRef(p) ==
  /\ pc[p] \in {"iref", "create_iref"}
  /\ ref' = [ref EXCEPT ![ip[p]] = @ - 1]
  /\ ip' = [ip EXCEPT ![p] = Null]
  /\ Goto(p, "idle")
  /\ dlock' = IF pc[p] = "iref" THEN dlock ELSE None
  /\ UNCHANGED <<dinode, entry, inum, valid, nlink, slock, name, num, aux>>

-----------------------------------------------------------------------------
\* namei(path), for open, as the first part of link, and create's dirlookup of
\* a name that exists.
Lookup(p, f, l) ==
  /\ pc[p] = "idle" /\ dlock = None /\ entry[f] # Null
  /\ Iget(entry[f])
  /\ ip' = [ip EXCEPT ![p] = SlotOf(entry[f])]
  /\ Goto(p, l)
  /\ UNCHANGED <<dinode, dir, nlink, slock, name, num, aux>>

\* sys_open goes on with the locked inode: a file is open, or there was no
\* file or descriptor left for it.
Open(p) ==
  /\ pc[p] = "opened"
  /\ Iunlock(ip[p])
  /\ Goto(p, "file") \/ Goto(p, "iput")
  /\ UNCHANGED <<dinode, dir, inum, ref, valid, nlink, local>>

\* The last fileclose of the file.
Close(p) ==
  /\ pc[p] = "file" /\ Goto(p, "iput")
  /\ UNCHANGED <<dinode, dir, inum, ref, valid, nlink, slock, local>>

\* create, with the directory locked.  (An existing file is looked up and
\* locked as open does.)  For a new one ialloc takes the first free dinode; if
\* there is none create returns.
Ialloc(p, f) ==
  LET unused == {n \in Inum : ~used[n]} IN
  /\ pc[p] = "idle" /\ dlock = None /\ entry[f] = Null /\ unused # {}
  /\ used' = [used EXCEPT ![Min(unused)] = TRUE]
  /\ dnlink' = [dnlink EXCEPT ![Min(unused)] = 0]
  /\ num' = [num EXCEPT ![p] = Min(unused)]
  /\ name' = [name EXCEPT ![p] = f]
  /\ dlock' = p
  /\ Goto(p, "create_iget")
  /\ UNCHANGED <<entry, inum, ref, valid, nlink, slock, ip, aux>>

\* ialloc's iget.
CreateIget(p) ==
  /\ pc[p] = "create_iget"
  /\ Iget(num[p])
  /\ ip' = [ip EXCEPT ![p] = SlotOf(num[p])]
  /\ num' = [num EXCEPT ![p] = Null]
  /\ Goto(p, "create_lock")
  /\ UNCHANGED <<dinode, dir, nlink, slock, name, aux>>

\* nlink = 1, iupdate and dirlink; or dirlink fails and the link is undone.
Create(p) ==
  /\ pc[p] = "create"
  /\ \/ /\ SetNlink(ip[p], 1)
        /\ entry' = [entry EXCEPT ![name[p]] = inum[ip[p]]]
        /\ dlock' = None
        /\ Goto(p, "opened")
        /\ UNCHANGED slock
     \/ /\ SetNlink(ip[p], 0)
        /\ Iunlock(ip[p])
        /\ Goto(p, "create_iput")
        /\ UNCHANGED dir
  /\ UNCHANGED <<used, inum, ref, valid, local>>

\* sys_unlink: dirlookup in the locked directory ...
Unlink(p, f) ==
  /\ pc[p] = "idle" /\ dlock = None /\ entry[f] # Null
  /\ dlock' = p
  /\ Iget(entry[f])
  /\ ip' = [ip EXCEPT ![p] = SlotOf(entry[f])]
  /\ name' = [name EXCEPT ![p] = f]
  /\ Goto(p, "unlink_lock")
  /\ UNCHANGED <<dinode, entry, nlink, slock, num, aux>>

\* Mutant: the directory stays locked.
UnlinkEntry_KeepDir(p) ==
  /\ pc[p] = "unlink"
  /\ entry' = [entry EXCEPT ![name[p]] = Null]
  /\ Goto(p, "bad")
  /\ UNCHANGED <<dinode, dlock, inum, ref, valid, nlink, slock, local>>

\* ... the entry is cleared and the directory unlocked ...
UnlinkEntry(p) ==
  /\ pc[p] = "unlink"
  /\ entry' = [entry EXCEPT ![name[p]] = Null]
  /\ dlock' = None
  /\ Goto(p, "bad")
  /\ UNCHANGED <<dinode, inum, ref, valid, nlink, slock, local>>

\* Mutant: iput is called with the inode still locked.
DropLink_KeepLock(p) ==
  /\ pc[p] = "bad"
  /\ SetNlink(ip[p], nlink[ip[p]] - 1)
  /\ Goto(p, "iput")
  /\ UNCHANGED <<slock, used, dir, inum, ref, valid, local>>

\* ... nlink--, iupdate, iunlockput: also the end of link's failure path.
DropLink(p) ==
  /\ pc[p] = "bad"
  /\ SetNlink(ip[p], nlink[ip[p]] - 1)
  /\ Iunlock(ip[p])
  /\ Goto(p, "iput")
  /\ UNCHANGED <<used, dir, inum, ref, valid, local>>

\* sys_link: nlink++ on the locked inode ...
LinkInc(p) ==
  /\ pc[p] = "link"
  /\ SetNlink(ip[p], nlink[ip[p]] + 1)
  /\ Iunlock(ip[p])
  /\ Goto(p, "link_dir")
  /\ UNCHANGED <<used, dir, inum, ref, valid, local>>

\* Mutant: nlink is not taken back when the entry cannot be written.
LinkDir_NoUndo(p, f) ==
  /\ pc[p] = "link_dir" /\ dlock = None /\ entry[f] = Null
  /\ \/ entry' = [entry EXCEPT ![f] = inum[ip[p]]] /\ Goto(p, "iput")
     \/ entry' = entry /\ Goto(p, "iput")
  /\ UNCHANGED <<dinode, dlock, inum, ref, valid, nlink, slock, local>>

\* ... then dirlink in the directory: the entry is written, or writei fails,
LinkDir(p, f) ==
  /\ pc[p] = "link_dir" /\ dlock = None /\ entry[f] = Null
  /\ \/ entry' = [entry EXCEPT ![f] = inum[ip[p]]] /\ Goto(p, "iput")
     \/ entry' = entry /\ Goto(p, "bad_lock")
  /\ UNCHANGED <<dinode, dlock, inum, ref, valid, nlink, slock, local>>

\* or dirlookup finds the name taken and the inode it got is given back.
LinkExists(p, f) ==
  /\ pc[p] = "link_dir" /\ dlock = None /\ entry[f] # Null
  /\ dlock' = p
  /\ Iget(entry[f])
  /\ aux' = [aux EXCEPT ![p] = SlotOf(entry[f])]
  /\ Goto(p, "link_exists")
  /\ UNCHANGED <<dinode, entry, nlink, slock, ip, name, num>>
LinkPutBack(p) ==
  /\ pc[p] = "link_exists" /\ ~Last(aux[p])
  /\ ref' = [ref EXCEPT ![aux[p]] = @ - 1]
  /\ aux' = [aux EXCEPT ![p] = Null]
  /\ dlock' = None
  /\ Goto(p, "bad_lock")
  /\ UNCHANGED <<dinode, entry, inum, valid, nlink, slock, ip, name, num>>

-----------------------------------------------------------------------------
IputPath(p) == Iput(p) \/ Itrunc(p) \/ IputInval(p) \/ IputRef(p)
LinkPath(p) ==
  \/ LinkInc(p) \/ LinkPutBack(p)
  \/ \E f \in Name : LinkDir(p, f) \/ LinkExists(p, f)
Step(p) ==
  \/ Ilock(p) \/ IputPath(p) \/ LinkPath(p)
  \/ Open(p) \/ CreateIget(p) \/ Create(p) \/ UnlinkEntry(p) \/ DropLink(p)
Call(p) ==
  \/ Close(p)
  \/ \E f \in Name : \/ Lookup(p, f, "open_lock") \/ Lookup(p, f, "link_lock")
                     \/ Ialloc(p, f) \/ Unlink(p, f)
Next == \E p \in Proc : Step(p) \/ Call(p)

Spec == Init /\ [][Next]_vars

-----------------------------------------------------------------------------
\* An inode has one slot, and every reference counted in it is some process's.
RefsExact ==
  /\ \A s, t \in Slot : ref[s] > 0 /\ ref[t] > 0 /\ inum[s] = inum[t] => s = t
  /\ \A s \in Slot : ref[s] = Cardinality({p \in Proc : ip[p] = s})
                              + Cardinality({p \in Proc : aux[p] = s})

\* iput's acquiresleep under itable.lock never has to wait (it could not:
\* sched would panic), the point its comment argues.
IputNeverSleeps ==
  /\ \A p \in Proc : pc[p] \in {"iput", "create_iput"} /\ Last(ip[p]) => slock[ip[p]] = None
  /\ \A p \in Proc : pc[p] = "link_exists" => ~Last(aux[p])

\* Processes that have counted a link that has no entry yet (link), or have
\* removed the entry but not the count.
Pending(n) == {p \in Proc : pc[p] \in {"link_dir", "link_exists", "bad_lock", "bad"}
                              /\ inum[ip[p]] = n}

\* The link count on the disk is the number of names plus the changes under
\* way, and who locks the inode sees that count, whatever happened to the slot
\* before, so unlink never meets nlink < 1.
LinksExact ==
  /\ \A n \in Inum : dnlink[n] = Cardinality({f \in Name : entry[f] = n}) + Cardinality(Pending(n))
  /\ \A s \in Slot : ref[s] > 0 /\ valid[s] /\ slock[s] # None => nlink[s] = dnlink[inum[s]]

Named(n) == \E f \in Name : entry[f] = n
Using == {"file", "opened", "create", "unlink", "link", "link_dir", "link_exists", "bad"}

\* A dinode is not free while it has a name, is open or locked, or a process
\* is about to lock it, so ilock never finds "no type": not even when iput
\* frees the inode and ialloc takes it again while its slot is referenced.
NoneFreedEarly ==
  /\ \A n \in Inum : Named(n) => used[n]
  /\ \A p \in Proc : pc[p] \in Using \cup Locking => used[inum[ip[p]]]

\* An inode without a name is in use only while some process refers to it:
\* iput frees an inode that has neither links nor references left.
NoneLeaked ==
  \A n \in Inum : used[n] => \/ Named(n)
                             \/ \E p \in Proc : num[p] = n \/ (ip[p] # Null /\ inum[ip[p]] = n)

InCall(p) == pc[p] \notin {"idle", "file"}

\* In its next step p takes a lock that q holds.
WaitsFor(p, q) ==
  \/ pc[p] \in Locking /\ slock[ip[p]] = q
  \/ pc[p] = "link_dir" /\ dlock = q
Waits(p) == \E q \in Proc : WaitsFor(p, q)
CanGo(p) == InCall(p) /\ ~Waits(p)

\* Locks are taken in order, the directory's before an inode's: a call that
\* waits does so for one that does not wait, or that waits for one that does
\* not.  No lock outlives the call that took it.
LocksInOrder ==
  /\ \A p, q \in Proc : WaitsFor(p, q) =>
       CanGo(q) \/ \E o \in Proc : WaitsFor(q, o) /\ CanGo(o)
  /\ \A q \in Proc : dlock = q \/ (\E s \in Slot : slock[s] = q) => InCall(q)

\* No system call is stuck: locks are taken in order, and a call that waits for
\* no lock has a step to take.  It finds a slot (iget), a free lock (iput), and
\* nothing to free under the directory's lock (dirlink).
CallsGoOn == LocksInOrder /\ \A p \in Proc : CanGo(p) => ENABLED Step(p)
=============================================================================
