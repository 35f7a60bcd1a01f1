------------------------------- MODULE Blocks -------------------------------
(***************************************************************************)
(* The contents of files: block allocation, block maps, reading, writing   *)
(* and truncating inodes and entering names in the root directory          *)
(* (kernel/fs.c) under read, write and open (kernel/file.c,                *)
(* kernel/sysfile.c), on the disk that mkfs (mkfs/mkfs.c) has made.        *)
(*                                                                         *)
(* What a process does to a buffer between bread and brelse is one step;   *)
(* so is a whole fileread, which changes nothing that others can see.  The *)
(* log is what AtomicDisk promises: what is on the disk after a crash is   *)
(* what the buffers held at a moment when no operation was running.        *)
(***************************************************************************)
EXTENDS Naturals, Sequences, FiniteSets, SequencesExt, FiniteSetsExt

CONSTANTS Proc, None,
          Inode, File,       \* inodes in use, open files
          Root, Dir,         \* the root directory, and dirlink's access to it
          IpOf,              \* f->ip
          Sources,           \* what mkfs copies: <<inode, size>>
          NB,                \* blocks 1..NB hold data
          BSIZE,             \* also the number of entries of an indirect block
          NDIRECT,
          MAXOPBLOCKS,
          Sizes,             \* the n of read and write
          Byte,              \* what a process writes
          MaxCalls           \* bound: calls of read, write, create and open

ASSUME BlocksAssumption ==
  /\ None \notin Proc /\ Dir \notin File /\ Root \in Inode
  /\ IpOf \in [File \cup {Dir} -> Inode] /\ IpOf[Dir] = Root
  /\ NB \in Nat /\ BSIZE \in Nat \ {0} /\ NDIRECT \in Nat /\ MaxCalls \in Nat
  /\ MAXOPBLOCKS \in Nat /\ MAXOPBLOCKS >= 6 /\ Sizes \subseteq Nat \ {0}
  /\ Byte \in [Proc -> 1..NB]
\* mkfs gives the root directory one block more than it has mapped when the
\* entries fill their blocks exactly.
ASSUME MkfsAssumption == (2 + Len(Sources)) % BSIZE # 0

Block == 1..NB
NINDIRECT == BSIZE
MAXFILE == NDIRECT + NINDIRECT
\* Bytes: 0, what a process writes, or an entry of an indirect block.
Zero == [k \in 0..BSIZE - 1 |-> 0]
\* Blocks of the log that are not data.
Bitmap == NB + 1
Dinodes == NB + 2
NewDinode == NB + 3      \* the block of an inode that create allocates
\* A byte of file that a failed copy has left old or new.
Torn == NB + 1

VARIABLES
  bitmap,                \* the allocated ones of Block
  content,               \* of a block, as bread returns it
  addrs, size, ilock,    \* struct inode
  dinode,                \* its copy in the inode block
  off,                   \* struct file
  pc, f, n, i, tot,      \* a call's arguments and filewrite's and writei's variables
  new,                   \* the block that balloc returns
  logged,                \* the blocks an operation has log_written
  calls,
  file                   \* what the files should hold

disk == <<bitmap, content, dinode>>
inode == <<addrs, size, ilock>>
args == <<f, n, i>>
vars == <<bitmap, content, addrs, size, ilock, dinode, off, pc, f, n, i, tot, new,
          logged, calls, file>>

Least(a, b) == IF a < b THEN a ELSE b

\* mkfs: iappend of one byte to inode ip.
Iappend(img, ip) ==
  LET fbn == img.size[ip] \div BSIZE
      k == Least(fbn, NDIRECT)
      a == img.addrs[ip][k]
      b == IF a = 0 THEN img.free ELSE a
      free == IF a = 0 THEN img.free + 1 ELSE img.free
      e == img.content[b][fbn - NDIRECT]
      x == IF fbn < NDIRECT THEN b ELSE IF e = 0 THEN free ELSE e
      table == IF fbn < NDIRECT THEN img.content
               ELSE [img.content EXCEPT ![b][fbn - NDIRECT] = x]
  IN [free |-> IF x = free THEN free + 1 ELSE free,
      addrs |-> [img.addrs EXCEPT ![ip][k] = b],
      content |-> [table EXCEPT ![x][img.size[ip] % BSIZE] = 1],
      size |-> [img.size EXCEPT ![ip] = @ + 1]]

\* The order in which mkfs appends: ".", "..", and for each source its entry
\* and its bytes (an entry is one byte here).
Appends == <<Root, Root>> \o
  FlattenSeq([k \in DOMAIN Sources |->
                <<Root>> \o [x \in 1..Sources[k][2] |-> Sources[k][1]]])
Image ==
  FoldLeft(Iappend,
           [free |-> 1, content |-> [b \in Block |-> Zero],
            addrs |-> [ip \in Inode |-> [k \in 0..NDIRECT |-> 0]],
            size |-> [ip \in Inode |-> 0]],
           Appends)

AFile == CHOOSE g \in File : TRUE
\* mkfs: the image, the size of the root directory made whole blocks, the
\* bitmap of the blocks given out.  Inodes mkfs has not filled are files that
\* were just created.
Init ==
  /\ bitmap = 1..Image.free - 1 /\ content = Image.content
  /\ addrs = Image.addrs
  /\ size = [Image.size EXCEPT ![Root] = (@ \div BSIZE + 1) * BSIZE]
  /\ ilock = [ip \in Inode |-> None]
  /\ dinode = [ip \in Inode |-> <<addrs[ip], size[ip]>>]
  /\ off = [g \in File \cup {Dir} |-> 0]
  /\ pc = [p \in Proc |-> "idle"] /\ f = [p \in Proc |-> AFile]
  /\ n = [p \in Proc |-> 0] /\ i = [p \in Proc |-> 0] /\ tot = [p \in Proc |-> 0]
  /\ new = [p \in Proc |-> 0] /\ logged = [p \in Proc |-> {}] /\ calls = 0
  /\ file = [ip \in Inode |-> [x \in 0..size[ip] - 1 |-> IF x < Image.size[ip] THEN 1 ELSE 0]]

-----------------------------------------------------------------------------
Goto(p, l) == pc' = [pc EXCEPT ![p] = l]
LogWrite(p, bs) == logged' = [logged EXCEPT ![p] = @ \cup bs]

\* bmap without allocation: the entry of bn, 0 if there is none.
Lookup(ip, bn) ==
  IF bn < NDIRECT THEN addrs[ip][bn]
  ELSE LET ind == addrs[ip][NDIRECT] IN IF ind = 0 THEN 0 ELSE content[ind][bn - NDIRECT]

\* Mutant: filewrite writes everything in one operation.
Chunk_Whole(p) == n[p] - i[p]

\* filewrite's n1: what a transaction has room for.
Chunk(p) == Least(n[p] - i[p], ((MAXOPBLOCKS - 1 - 1 - 2) \div 2) * BSIZE)
\* The position in writei.
Pos(p) == off[f[p]] + tot[p]
Ip(p) == IpOf[f[p]]

\* The call returns.
Return(p) ==
  /\ Goto(p, "idle")
  /\ f' = [f EXCEPT ![p] = AFile]
  /\ n' = [n EXCEPT ![p] = 0]
  /\ i' = [i EXCEPT ![p] = 0]

\* sys_write: filewrite up to the first ilock, begin_op included.
Filewrite(p) ==
  /\ pc[p] = "idle" /\ calls < MaxCalls
  /\ calls' = calls + 1
  /\ \E g \in File, k \in Sizes : f' = [f EXCEPT ![p] = g] /\ n' = [n EXCEPT ![p] = k]
  /\ Goto(p, "write")
  /\ UNCHANGED <<disk, inode, off, i, tot, new, logged, file>>

\* ilock, and writei up to its loop.
Writei(p) ==
  LET ip == Ip(p) IN
  /\ pc[p] = "write" /\ ilock[ip] = None
  /\ IF off[f[p]] > size[ip] \/ off[f[p]] + Chunk(p) > MAXFILE * BSIZE
     THEN Return(p) /\ UNCHANGED ilock
     ELSE Goto(p, "loop") /\ ilock' = [ilock EXCEPT ![ip] = p] /\ UNCHANGED args
  /\ UNCHANGED <<disk, addrs, size, off, tot, new, logged, calls, file>>

\* The block at writei's position, before bmap allocates one.
Mapped(p) == Lookup(Ip(p), Pos(p) \div BSIZE)

\* bmap finds no block: balloc takes the first free bit of the bitmap, or
\* there is none and writei leaves its loop.
Balloc(p) ==
  LET free == Block \ bitmap IN
  /\ pc[p] = "loop" /\ tot[p] < Chunk(p) /\ Mapped(p) = 0
  /\ \/ /\ free # {}
        /\ bitmap' = bitmap \cup {Min(free)}
        /\ new' = [new EXCEPT ![p] = Min(free)]
        /\ LogWrite(p, {Bitmap})
        /\ Goto(p, "bzero")
     \/ /\ free = {}
        /\ Goto(p, "break")
        /\ UNCHANGED <<bitmap, new, logged>>
  /\ UNCHANGED <<content, dinode, inode, off, args, tot, calls, file>>

\* balloc's bzero, and the new block is entered: in the inode, as a direct or
\* as the indirect block, or in the indirect block.
Bzero(p) ==
  LET ip == Ip(p)
      bn == Pos(p) \div BSIZE
      b == new[p]
      ind == addrs[ip][NDIRECT]
      k == Least(bn, NDIRECT) IN
  /\ pc[p] = "bzero"
  /\ IF addrs[ip][k] = 0
     THEN /\ content' = [content EXCEPT ![b] = Zero]
          /\ addrs' = [addrs EXCEPT ![ip][k] = b]
          /\ LogWrite(p, {b})
     ELSE /\ content' = [content EXCEPT ![b] = Zero, ![ind][bn - NDIRECT] = b]
          /\ LogWrite(p, {b, ind})
          /\ UNCHANGED addrs
  /\ new' = [new EXCEPT ![p] = 0]
  /\ Goto(p, "loop")
  /\ UNCHANGED <<bitmap, dinode, size, ilock, off, args, tot, calls, file>>

\* Mutant: a copy is cut to a block, not to what is left of it.
Copy_Block(p) ==
  LET ip == Ip(p)
      o == Pos(p)
      b == Mapped(p)
      m == Least(Chunk(p) - tot[p], BSIZE)
      Copied(k) == [content EXCEPT ![b] = [x \in 0..BSIZE - 1 |->
                      IF x \in (o % BSIZE)..((o % BSIZE) + k - 1) THEN Byte[p] ELSE @[x]]] IN
  /\ pc[p] = "loop" /\ tot[p] < Chunk(p) /\ b # 0
  /\ \/ /\ content' = Copied(m)
        /\ LogWrite(p, {b})
        /\ tot' = [tot EXCEPT ![p] = @ + m]
        /\ UNCHANGED <<file, pc>>
     \/ /\ f[p] # Dir
        /\ \E k \in 0..m - 1 :
             /\ content' = Copied(k)
             /\ file' = [file EXCEPT ![ip] = [x \in DOMAIN @ |->
                           IF x \in o..o + k - 1 THEN Torn ELSE @[x]]]
        /\ Goto(p, "break")
        /\ UNCHANGED <<logged, tot>>
  /\ UNCHANGED <<bitmap, dinode, inode, off, args, new, calls>>

\* writei's copy to the part of the block that is left, or of the write.  A
\* copy that fails, from user memory, may have copied a part, and leaves the
\* loop.
Copy(p) ==
  LET ip == Ip(p)
      o == Pos(p)
      b == Mapped(p)
      m == Least(Chunk(p) - tot[p], BSIZE - (o % BSIZE))
      Copied(k) == [content EXCEPT ![b] = [x \in 0..BSIZE - 1 |->
                      IF x \in (o % BSIZE)..((o % BSIZE) + k - 1) THEN Byte[p] ELSE @[x]]] IN
  /\ pc[p] = "loop" /\ tot[p] < Chunk(p) /\ b # 0
  /\ \/ /\ content' = Copied(m)
        /\ LogWrite(p, {b})
        /\ tot' = [tot EXCEPT ![p] = @ + m]
        /\ UNCHANGED <<file, pc>>
     \/ /\ f[p] # Dir
        /\ \E k \in 0..m - 1 :
             /\ content' = Copied(k)
             /\ file' = [file EXCEPT ![ip] = [x \in DOMAIN @ |->
                           IF x \in o..o + k - 1 THEN Torn ELSE @[x]]]
        /\ Goto(p, "break")
        /\ UNCHANGED <<logged, tot>>
  /\ UNCHANGED <<bitmap, dinode, inode, off, args, new, calls>>

\* The blocks an operation has written when it ends with iupdate.
Logged(p) == logged[p] \cup {Dinodes}

\* Mutant: the inode is written back only if the file has grown.
WriteDone_Grown(p) ==
  LET ip == Ip(p)
      o == Pos(p)
      s == IF o > size[ip] THEN o ELSE size[ip] IN
  /\ pc[p] = "break" \/ (pc[p] = "loop" /\ tot[p] = Chunk(p))
  /\ size' = [size EXCEPT ![ip] = s]
  /\ dinode' = [dinode EXCEPT ![ip] = IF s # size[ip] THEN <<addrs[ip], s>> ELSE @]
  /\ off' = [off EXCEPT ![f[p]] = IF f[p] = Dir THEN 0 ELSE o]
  /\ ilock' = [ilock EXCEPT ![ip] = None]
  /\ file' = [file EXCEPT ![ip] = [x \in 0..s - 1 |->
                IF x \in o - tot[p]..o - 1 THEN Byte[p] ELSE @[x]]]
  /\ logged' = [logged EXCEPT ![p] = {}]
  /\ tot' = [tot EXCEPT ![p] = 0]
  /\ IF tot[p] # Chunk(p) \/ i[p] + tot[p] = n[p]
     THEN Return(p)
     ELSE i' = [i EXCEPT ![p] = @ + tot[p]] /\ Goto(p, "write") /\ UNCHANGED <<f, n>>
  /\ UNCHANGED <<bitmap, content, addrs, new, calls>>

\* The end of writei, iunlock and end_op.  After a short write filewrite
\* returns, else it goes on with the next begin_op.
WriteDone(p) ==
  LET ip == Ip(p)
      o == Pos(p)
      s == IF o > size[ip] THEN o ELSE size[ip] IN
  /\ pc[p] = "break" \/ (pc[p] = "loop" /\ tot[p] = Chunk(p))
  /\ size' = [size EXCEPT ![ip] = s]
  /\ dinode' = [dinode EXCEPT ![ip] = <<addrs[ip], s>>]
  /\ off' = [off EXCEPT ![f[p]] = IF f[p] = Dir THEN 0 ELSE o]
  /\ ilock' = [ilock EXCEPT ![ip] = None]
  /\ file' = [file EXCEPT ![ip] = [x \in 0..s - 1 |->
                IF x \in o - tot[p]..o - 1 THEN Byte[p] ELSE @[x]]]
  /\ logged' = [logged EXCEPT ![p] = {}]
  /\ tot' = [tot EXCEPT ![p] = 0]
  /\ IF tot[p] # Chunk(p) \/ i[p] + tot[p] = n[p]
     THEN Return(p)
     ELSE i' = [i EXCEPT ![p] = @ + tot[p]] /\ Goto(p, "write") /\ UNCHANGED <<f, n>>
  /\ UNCHANGED <<bitmap, content, addrs, new, calls>>

-----------------------------------------------------------------------------
\* sys_read: fileread under the inode's lock.  A failed copyout leaves f->off
\* alone, as if there had been no call.
Fileread(p) ==
  /\ pc[p] = "idle" /\ calls < MaxCalls
  /\ calls' = calls + 1
  /\ \E g \in File, k \in Sizes :
       LET ip == IpOf[g]
           r == IF off[g] > size[ip] THEN 0 ELSE Least(k, size[ip] - off[g]) IN
       /\ ilock[ip] = None
       /\ off' = [off EXCEPT ![g] = @ + r]
  /\ UNCHANGED <<disk, inode, pc, args, tot, new, logged, file>>

\* The first entry of the root directory that is empty, or its end.
EmptyEntry ==
  Min({size[Root]} \cup {x \in 0..size[Root] - 1 :
                         content[Lookup(Root, x \div BSIZE)][x % BSIZE] = 0})

\* create of a name that is new: begin_op, ilock of the directory, ialloc and
\* iupdate, dirlink up to writei's loop; the offset is dirlink's own.  In a
\* directory of the largest size writei fails and create takes the inode back,
\* as if there had been no call.
Dirlink(p) ==
  /\ pc[p] = "idle" /\ calls < MaxCalls
  /\ calls' = calls + 1
  /\ ilock[Root] = None /\ EmptyEntry < MAXFILE * BSIZE
  /\ ilock' = [ilock EXCEPT ![Root] = p]
  /\ off' = [off EXCEPT ![Dir] = EmptyEntry]
  /\ f' = [f EXCEPT ![p] = Dir]
  /\ n' = [n EXCEPT ![p] = 1]
  /\ LogWrite(p, {NewDinode})
  /\ Goto(p, "loop")
  /\ UNCHANGED <<disk, addrs, size, i, tot, new, file>>

\* sys_open with O_TRUNC, up to itrunc.
Open(p) ==
  /\ pc[p] = "idle" /\ calls < MaxCalls
  /\ calls' = calls + 1
  /\ \E g \in File :
       /\ ilock[IpOf[g]] = None
       /\ ilock' = [ilock EXCEPT ![IpOf[g]] = p]
       /\ f' = [f EXCEPT ![p] = g]
  /\ Goto(p, "itrunc")
  /\ UNCHANGED <<disk, addrs, size, off, n, i, tot, new, logged, file>>

\* What itrunc's loops free: the direct blocks, the entries of the indirect
\* block, and that block, in this order from turn tot[p] on.
Target(ip, k) == IF k < MAXFILE THEN Lookup(ip, k) ELSE addrs[ip][NDIRECT]
Turns(p) == {k \in tot[p]..MAXFILE : Target(Ip(p), k) # 0}

\* One turn, with bfree.
Itrunc(p) ==
  LET ip == Ip(p)
      k == Min(Turns(p)) IN
  /\ pc[p] = "itrunc" /\ Turns(p) # {}
  /\ bitmap' = bitmap \ {Target(ip, k)}
  /\ LogWrite(p, {Bitmap})
  /\ addrs' = IF k < NDIRECT THEN [addrs EXCEPT ![ip][k] = 0]
              ELSE IF k = MAXFILE THEN [addrs EXCEPT ![ip][NDIRECT] = 0]
              ELSE addrs
  /\ tot' = [tot EXCEPT ![p] = k + 1]
  /\ UNCHANGED <<content, dinode, size, ilock, off, pc, args, new, calls, file>>

\* The end of itrunc, iunlock, end_op.
ItruncDone(p) ==
  LET ip == Ip(p) IN
  /\ pc[p] = "itrunc" /\ Turns(p) = {}
  /\ size' = [size EXCEPT ![ip] = 0]
  /\ dinode' = [dinode EXCEPT ![ip] = <<addrs[ip], 0>>]
  /\ ilock' = [ilock EXCEPT ![ip] = None]
  /\ file' = [file EXCEPT ![ip] = [x \in {} |-> 0]]
  /\ logged' = [logged EXCEPT ![p] = {}]
  /\ tot' = [tot EXCEPT ![p] = 0]
  /\ Return(p)
  /\ UNCHANGED <<bitmap, content, addrs, off, new, calls>>

Next == \E p \in Proc :
  \/ Filewrite(p) \/ Writei(p) \/ Balloc(p) \/ Bzero(p) \/ Copy(p) \/ WriteDone(p)
  \/ Fileread(p) \/ Dirlink(p) \/ Open(p) \/ Itrunc(p) \/ ItruncDone(p)

Spec == Init /\ [][Next]_vars

-----------------------------------------------------------------------------
\* The blocks of inode ip by place; those that itrunc has passed are not its
\* own any more.
Places == {<<ip, k>> \in Inode \X (0..MAXFILE) :
             /\ Target(ip, k) # 0
             /\ \A p \in Proc : pc[p] = "itrunc" /\ Ip(p) = ip => k >= tot[p]}
\* Processes that balloc has given a block.
Ballocs == {p \in Proc : new[p] # 0}

\* A block is allocated exactly while one place of one inode, or one running
\* balloc, has it: no block is in two files or twice in one, none is lost when
\* a write stops half way or the disk is full, and bfree never panics.  An
\* inode that is not locked is on the disk as it is in memory, so the same
\* holds after a crash, which goes back to a moment without an operation.
BlocksAccounted ==
  /\ bitmap = {Target(a[1], a[2]) : a \in Places} \cup {new[p] : p \in Ballocs}
  /\ Cardinality(bitmap) = Cardinality(Places) + Cardinality(Ballocs)
  /\ \A ip \in Inode : ilock[ip] = None => dinode[ip] = <<addrs[ip], size[ip]>>

\* Whoever locks an inode finds in it what the writes said they wrote, byte for
\* byte, and nothing of another file or of an earlier use of the block; only
\* in the block where a copy failed is there more than the write reports.
\* Every byte below size has a block, so that a read never allocates one: it
\* would, outside any operation, and log_write would panic.
ReadsBack ==
  \A ip \in Inode : ilock[ip] = None =>
    /\ DOMAIN file[ip] = 0..size[ip] - 1
    /\ \A x \in 0..size[ip] - 1 :
         LET b == Lookup(ip, x \div BSIZE) IN
         b # 0 /\ file[ip][x] \in {Torn, content[b][x % BSIZE]}

\* An operation writes no more blocks than begin_op reserves for it, whatever
\* it has to allocate: the chunks of filewrite are small enough.
OpFits == \A p \in Proc : pc[p] # "idle" => Cardinality(Logged(p)) <= MAXOPBLOCKS
=============================================================================
