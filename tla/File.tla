-------------------------------- MODULE File --------------------------------
(***************************************************************************)
(* Open files: ftable (kernel/file.c), the processes' descriptor tables    *)
(* and current directories under open, pipe, dup, close, chdir, fork and   *)
(* exit.                                                                   *)
(*                                                                         *)
(* Code under ftable.lock is one step together with what it does to data   *)
(* no other process sees: the caller's descriptors and a file structure    *)
(* the caller has just been given.  fileclose is two steps, since it gives *)
(* the pipe end or the inode back after the lock is released.  What a file *)
(* refers to is an end of a pipe or one counted inode reference; a current *)
(* directory is another such reference.                                    *)
(***************************************************************************)
EXTENDS Naturals, Sequences, FiniteSets, FiniteSetsExt

CONSTANTS Proc, Root,    \* Root: the process that exists first
          Pipe, None,
          NFILE, NOFILE,
          MaxCalls       \* bound: calls of open, pipe and chdir

ASSUME FileAssumption ==
  /\ NFILE \in Nat \ {0} /\ NOFILE \in Nat \ {0} /\ MaxCalls \in Nat
  /\ Root \in Proc /\ None \notin Pipe

File == 1..NFILE
FD == 1..NOFILE
Null == 0
NoCopy == <<"none", None>>

VARIABLES
  ref, type, pipe,       \* ftable.file: type is none, inode, r or w (a pipe's end)
  ofile, cwd,            \* p->ofile, and whether p->cwd is set
  pc, todo, after, ff,   \* the files a call still closes, what follows, the copy
  f0, child, fd,         \* pipealloc's first file; fork's child and loop index
  ends,                  \* the open ends of each pipe
  iref,                  \* references to inodes
  calls

table == <<ref, type, pipe>>
local == <<f0, child, fd>>
vars == <<ref, type, pipe, ofile, cwd, pc, todo, after, ff, f0, child, fd, ends, iref, calls>>

\* The first process runs, the other slots are empty.
Init ==
  /\ ref = [f \in File |-> 0]
  /\ type = [f \in File |-> "none"] /\ pipe = [f \in File |-> None]
  /\ ofile = [p \in Proc |-> [d \in FD |-> Null]]
  /\ pc = [p \in Proc |-> IF p = Root THEN "user" ELSE "dead"]
  /\ todo = [p \in Proc |-> <<>>] /\ after = [p \in Proc |-> "user"]
  /\ ff = [p \in Proc |-> NoCopy]
  /\ f0 = [p \in Proc |-> Null] /\ child = [p \in Proc |-> p] /\ fd = [p \in Proc |-> 1]
  /\ cwd = [p \in Proc |-> p = Root]
  /\ ends = [k \in Pipe |-> {}] /\ iref = 1 /\ calls = 0

-----------------------------------------------------------------------------
Goto(p, l) == pc' = [pc EXCEPT ![p] = l]
\* filealloc and fdalloc return the first free one.
FreeFiles == {f \in File : ref[f] = 0}
FreeFds(p) == {d \in FD : ofile[p][d] = Null}

\* The call ends with fileclose of the files in fs, then goes on at l.
CloseAll(p, fs, l) ==
  /\ todo' = [todo EXCEPT ![p] = fs]
  /\ after' = [after EXCEPT ![p] = l]
  /\ Goto(p, IF fs = <<>> THEN l ELSE "close")

\* fileclose under ftable.lock: the last reference empties the file structure.
FileClose(p) ==
  LET f == Head(todo[p])
      last == ref[f] = 1
      rest == Tail(todo[p]) IN
  /\ pc[p] = "close"
  /\ ref' = [ref EXCEPT ![f] = @ - 1]
  /\ type' = [type EXCEPT ![f] = IF last THEN "none" ELSE @]
  /\ ff' = [ff EXCEPT ![p] = IF last THEN <<type[f], pipe[f]>> ELSE NoCopy]
  /\ todo' = [todo EXCEPT ![p] = rest]
  /\ Goto(p, IF last THEN "close2" ELSE IF rest = <<>> THEN after[p] ELSE "close")
  /\ UNCHANGED <<cwd, pipe, ofile, after, local, ends, iref, calls>>

\* Mutant: the pipe is closed as a whole.
FileRelease_BothEnds(p) ==
  LET t == ff[p][1]
      k == ff[p][2] IN
  /\ pc[p] = "close2"
  /\ ends' = IF t \in {"r", "w"} THEN [ends EXCEPT ![k] = {}] ELSE ends
  /\ iref' = IF t = "inode" THEN iref - 1 ELSE iref
  /\ ff' = [ff EXCEPT ![p] = NoCopy]
  /\ Goto(p, IF todo[p] = <<>> THEN after[p] ELSE "close")
  /\ UNCHANGED <<cwd, table, ofile, todo, after, local, calls>>

\* pipeclose, iput, or nothing for a file that was never set up.
FileRelease(p) ==
  LET t == ff[p][1]
      k == ff[p][2] IN
  /\ pc[p] = "close2"
  /\ ends' = IF t \in {"r", "w"} THEN [ends EXCEPT ![k] = @ \ {t}] ELSE ends
  /\ iref' = IF t = "inode" THEN iref - 1 ELSE iref
  /\ ff' = [ff EXCEPT ![p] = NoCopy]
  /\ Goto(p, IF todo[p] = <<>> THEN after[p] ELSE "close")
  /\ UNCHANGED <<cwd, table, ofile, todo, after, local, calls>>

\* The failure path of open gives back the inode.
OpenFailed(p) ==
  /\ pc[p] = "iput"
  /\ iref' = iref - 1
  /\ Goto(p, "user")
  /\ UNCHANGED <<cwd, table, ofile, todo, after, ff, local, ends, calls>>

-----------------------------------------------------------------------------
\* sys_open: namei has returned an inode, a reference to which is held ...
Open(p) ==
  /\ pc[p] = "user" /\ calls < MaxCalls
  /\ calls' = calls + 1
  /\ iref' = iref + 1
  /\ Goto(p, "open")
  /\ UNCHANGED <<cwd, table, ofile, todo, after, ff, local, ends>>

\* ... filealloc and fdalloc; either may fail.
OpenFile(p) ==
  /\ pc[p] = "open"
  /\ IF FreeFiles = {}
     THEN Goto(p, "iput") /\ UNCHANGED <<ref, type, ofile, todo, after>>
     ELSE LET f == Min(FreeFiles) IN
          /\ ref' = [ref EXCEPT ![f] = 1]
          /\ IF FreeFds(p) = {}
             THEN CloseAll(p, <<f>>, "iput") /\ UNCHANGED <<type, ofile>>
             ELSE /\ type' = [type EXCEPT ![f] = "inode"]
                  /\ ofile' = [ofile EXCEPT ![p][Min(FreeFds(p))] = f]
                  /\ Goto(p, "user")
                  /\ UNCHANGED <<todo, after>>
  /\ UNCHANGED <<cwd, pipe, ff, local, ends, iref, calls>>

\* sys_pipe: pipealloc's first filealloc ...
Pipe0(p) ==
  /\ pc[p] = "user" /\ calls < MaxCalls /\ FreeFiles # {}
  /\ calls' = calls + 1
  /\ ref' = [ref EXCEPT ![Min(FreeFiles)] = 1]
  /\ f0' = [f0 EXCEPT ![p] = Min(FreeFiles)]
  /\ Goto(p, "pipe")
  /\ UNCHANGED <<cwd, type, pipe, ofile, todo, after, ff, child, fd, ends, iref>>

\* ... its second one may fail, and so may kalloc (before the files are set
\* up), fdalloc and copyout (after it).
Pipe1(p) ==
  LET r == f0[p]
      w == Min(FreeFiles) IN
  /\ pc[p] = "pipe"
  /\ f0' = [f0 EXCEPT ![p] = Null]
  /\ \/ /\ FreeFiles = {}
        /\ CloseAll(p, <<r>>, "user")
        /\ UNCHANGED <<table, ofile, ends>>
     \/ /\ FreeFiles # {}
        /\ ref' = [ref EXCEPT ![w] = 1]
        /\ CloseAll(p, <<r, w>>, "user")
        /\ UNCHANGED <<type, pipe, ofile, ends>>
     \/ /\ FreeFiles # {}
        /\ ref' = [ref EXCEPT ![w] = 1]
        /\ type' = [type EXCEPT ![r] = "r", ![w] = "w"]
        /\ \E k \in Pipe :
             /\ ends[k] = {}
             /\ ends' = [ends EXCEPT ![k] = {"r", "w"}]
             /\ pipe' = [pipe EXCEPT ![r] = k, ![w] = k]
        /\ \/ /\ CloseAll(p, <<r, w>>, "user")
              /\ UNCHANGED ofile
           \/ /\ Cardinality(FreeFds(p)) >= 2
              /\ LET d == Min(FreeFds(p)) IN
                 ofile' = [ofile EXCEPT ![p][d] = r, ![p][Min(FreeFds(p) \ {d})] = w]
              /\ Goto(p, "user")
              /\ UNCHANGED <<todo, after>>
  /\ UNCHANGED <<cwd, ff, child, fd, iref, calls>>

\* sys_chdir: namei returns an inode ...
Chdir(p) ==
  /\ pc[p] = "user" /\ calls < MaxCalls
  /\ calls' = calls + 1
  /\ iref' = iref + 1
  /\ Goto(p, "chdir")
  /\ UNCHANGED <<cwd, table, ofile, todo, after, ff, local, ends>>

\* ... and it is no directory and is given back, or the old directory is.
ChdirPut(p) ==
  /\ pc[p] = "chdir"
  /\ iref' = iref - 1
  /\ Goto(p, "user")
  /\ UNCHANGED <<cwd, table, ofile, todo, after, ff, local, ends, calls>>

\* sys_dup.
Dup(p, d) ==
  /\ pc[p] = "user" /\ ofile[p][d] # Null /\ FreeFds(p) # {}
  /\ ref' = [ref EXCEPT ![ofile[p][d]] = @ + 1]
  /\ ofile' = [ofile EXCEPT ![p][Min(FreeFds(p))] = ofile[p][d]]
  /\ UNCHANGED <<cwd, type, pipe, pc, todo, after, ff, local, ends, iref, calls>>

\* sys_close.
Close(p, d) ==
  /\ pc[p] = "user" /\ ofile[p][d] # Null
  /\ ofile' = [ofile EXCEPT ![p][d] = Null]
  /\ CloseAll(p, <<ofile[p][d]>>, "user")
  /\ UNCHANGED <<cwd, table, ff, local, ends, iref, calls>>

\* fork: allocproc has found slot q ...
Fork(p, q) ==
  /\ pc[p] = "user" /\ pc[q] = "dead"
  /\ pc' = [pc EXCEPT ![p] = "fork", ![q] = "embryo"]
  /\ child' = [child EXCEPT ![p] = q]
  /\ fd' = [fd EXCEPT ![p] = 1]
  /\ UNCHANGED <<cwd, table, ofile, todo, after, ff, f0, ends, iref, calls>>

\* Mutant: fork copies the pointer without filedup.
ForkDup_NoRef(p) ==
  LET d == fd[p]
      f == ofile[p][d] IN
  /\ pc[p] = "fork" /\ d \in FD
  /\ ofile' = [ofile EXCEPT ![child[p]][d] = f]
  /\ fd' = [fd EXCEPT ![p] = @ + 1]
  /\ UNCHANGED <<cwd, ref, type, pipe, pc, todo, after, ff, f0, child, ends, iref, calls>>

\* ... filedup of one descriptor after the other, idup of the current
\* directory, then the child may run.
ForkDup(p) ==
  LET d == fd[p]
      f == ofile[p][d] IN
  /\ pc[p] = "fork" /\ d \in FD
  /\ ofile' = [ofile EXCEPT ![child[p]][d] = f]
  /\ ref' = IF f = Null THEN ref ELSE [ref EXCEPT ![f] = @ + 1]
  /\ fd' = [fd EXCEPT ![p] = @ + 1]
  /\ UNCHANGED <<cwd, type, pipe, pc, todo, after, ff, f0, child, ends, iref, calls>>
ForkRun(p) ==
  /\ pc[p] = "fork" /\ fd[p] \notin FD
  /\ pc' = [pc EXCEPT ![p] = "user", ![child[p]] = "user"]
  /\ child' = [child EXCEPT ![p] = p]
  /\ fd' = [fd EXCEPT ![p] = 1]
  /\ cwd' = [cwd EXCEPT ![child[p]] = TRUE]
  /\ iref' = iref + 1
  /\ UNCHANGED <<table, ofile, todo, after, ff, f0, ends, calls>>

\* exit closes the descriptors in order; Root is init and does not exit.
Exit(p) ==
  /\ pc[p] = "user" /\ p # Root
  /\ CloseAll(p, SelectSeq([d \in FD |-> ofile[p][d]], LAMBDA f : f # Null), "exit")
  /\ ofile' = [ofile EXCEPT ![p] = [d \in FD |-> Null]]
  /\ UNCHANGED <<cwd, table, ff, local, ends, iref, calls>>

\* exit's iput(p->cwd).
ExitCwd(p) ==
  /\ pc[p] = "exit"
  /\ iref' = iref - 1
  /\ cwd' = [cwd EXCEPT ![p] = FALSE]
  /\ Goto(p, "dead")
  /\ UNCHANGED <<table, ofile, todo, after, ff, local, ends, calls>>

Step(p) ==
  \/ ChdirPut(p) \/ ExitCwd(p)
  \/ FileClose(p) \/ FileRelease(p) \/ OpenFailed(p)
  \/ OpenFile(p) \/ Pipe1(p) \/ ForkDup(p) \/ ForkRun(p)
Next == \E p \in Proc :
  \/ Step(p) \/ Open(p) \/ Pipe0(p) \/ Chdir(p) \/ Exit(p)
  \/ \E d \in FD : Dup(p, d) \/ Close(p, d)
  \/ \E q \in Proc : Fork(p, q)

Spec == Init /\ [][Next]_vars

-----------------------------------------------------------------------------
\* f->ref counts the descriptors of all processes, a fork's half-copied child
\* included, and the files a call in progress still has to close; so filedup
\* and fileclose never meet ref < 1.
RefsExact ==
  \A f \in File : ref[f] =
      Cardinality({pd \in Proc \X FD : ofile[pd[1]][pd[2]] = f})
    + Cardinality({p \in Proc : f0[p] = f})
    + Cardinality({pk \in Proc \X (1..NOFILE) :
                     pk[2] \in DOMAIN todo[pk[1]] /\ todo[pk[1]][pk[2]] = f})

Files(t, k) == {f \in File : type[f] = t /\ pipe[f] = k}
Closing(t, k) == {p \in Proc : ff[p] = <<t, k>>}

\* What a file stands for is released once and by its last fileclose: an end
\* of a pipe is open exactly while one file has it or that fileclose is on its
\* way to pipeclose, and the references to inodes are those of the open files,
\* the current directories and the calls under way, the failing ones included.
ReleasedOnce ==
  /\ \A k \in Pipe, t \in {"r", "w"} :
       Cardinality(Files(t, k)) + Cardinality(Closing(t, k)) = IF t \in ends[k] THEN 1 ELSE 0
  /\ iref = Cardinality({f \in File : type[f] = "inode"})
          + Cardinality({p \in Proc : ff[p][1] = "inode"})
          + Cardinality({p \in Proc : pc[p] \in {"open", "iput", "chdir"}})
          + Cardinality({p \in Proc : cwd[p]})
          + Cardinality({p \in Proc : pc[p] \in {"close", "close2"} /\ after[p] = "iput"})
=============================================================================
