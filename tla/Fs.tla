-------------------------------- MODULE Fs --------------------------------
(***************************************************************************)
(* Inodes, directories and the calls on paths (COL331/HW1/xv6: the inode   *)
(* cache, allocation, directories and path names of fs.c, the calls of     *)
(* sysfile.c that take a path, fileclose() and filewrite() on an inode).   *)
(* din, ent and used are the disk as the log presents it (AtomicDisk): a   *)
(* group of operations becomes durable when none is active, so a crash     *)
(* leaves what the disk held at the last idle moment, with the memory      *)
(* empty.  That is the state a crash at that moment leaves, and Crash is   *)
(* enabled there.  A file or directory has at most one block here; module  *)
(* Inode has the block lists.  A step is what happens under icache.lock,   *)
(* or from ilock() up to the next point where another process matters.     *)
(***************************************************************************)
EXTENDS Integers, Sequences, FiniteSetsExt

CONSTANTS Procs,
          Inums,  \* 1..n, ROOTINO = 1
          Blocks, \* data blocks
          Names,  \* names other than "." and ".."
          MaxLink, \* bound: no link() to a file with this many links
          Calls   \* by process, the calls it makes: [op, path] and, for link, [op, path, new]

ROOTINO == 1
Dots    == {".", ".."}

ASSUME FsConstants == ROOTINO \in Inums /\ Dots \cap Names = {} /\ 0 \notin Inums \cup Blocks

VARIABLES
  din,   \* disk inodes: type, nlink and the block
  ent,   \* what is in a block: an inode number for each name
  used,  \* blocks marked in the bitmap
  cache, \* icache by inode number: ref, flags and the copy of the disk inode
  fd,    \* by process: the inode of its open file, or 0
  cwd,   \* by process: proc->cwd
  todo,  \* by process: the steps of its call still to come, <<step, inode>>
  call,  \* by process: the call
  path,  \* by process: the rest of the path in namex()
  ip, dp \* by process: the variables of these names

disk  == <<din, ent, used>>
local == <<call, path, ip, dp>>
vars  == <<disk, cache, fd, cwd, todo, local>>

None    == [type |-> "none", nlink |-> 0, blk |-> 0]
Unused  == [ref |-> 0, valid |-> FALSE, busy |-> 0, d |-> None]
NoCall  == [op |-> "none", path |-> <<>>]
NoEnt   == [n \in Names \cup Dots |-> 0]
b0      == Min(Blocks)
Free    == {i \in Inums : din[i].type = "none"}
FreeBlk == Blocks \ used

(* The file system of mkfs: a root directory; the first process is in it.  *)
Init ==
  /\ din = [i \in Inums |-> IF i = ROOTINO THEN [type |-> "dir", nlink |-> 1, blk |-> b0]
                                           ELSE None]
  /\ ent = [b \in Blocks |-> IF b = b0 THEN [n \in DOMAIN NoEnt |-> IF n \in Dots THEN 1 ELSE 0]
                                       ELSE NoEnt]
  /\ used = {b0}
  /\ cache = [i \in Inums |-> IF i = 1 THEN [Unused EXCEPT !.ref = Cardinality(Procs)] ELSE Unused]
  /\ fd = [p \in Procs |-> 0]
  /\ cwd = [p \in Procs |-> ROOTINO]
  /\ todo = [p \in Procs |-> <<>>]
  /\ call = [p \in Procs |-> NoCall]
  /\ path = [p \in Procs |-> <<>>]
  /\ ip = [p \in Procs |-> 0] /\ dp = [p \in Procs |-> 0]

-----------------------------------------------------------------------------
(* The inode cache.  Each takes the cache and returns the new one.         *)
iget(c, i)    == [c EXCEPT ![i].ref = @ + 1]
iunlock(c, i) == [c EXCEPT ![i].busy = 0]

(* ilock(): i is locked by p, with the copy read from the disk if it was   *)
(* not valid.  canLock is the wait for I_BUSY.                             *)
canLock(i)     == cache[i].busy = 0
ilock(c, i, p) == [c EXCEPT ![i].busy = p, ![i].valid = TRUE,
                            ![i].d = IF c[i].valid THEN c[i].d ELSE din[i]]
Untyped(i)     == ~cache[i].valid /\ din[i].type = "none"
Copy(i)        == IF cache[i].valid THEN cache[i].d ELSE din[i]

(* iupdate() after a change of the copy to d.                              *)
Upd(c, i, d) == [c EXCEPT ![i].d = d]
iupdate(D, i, d) == [D EXCEPT ![i] = d]

(* ialloc(): the first free inode gets its type on the disk.               *)
ialloc(type) == [din EXCEPT ![Min(Free)] = [None EXCEPT !.type = type]]

(* dirlink() of a name that is not there, in the directory with block b.   *)
dirlink(b, n, i) == [ent EXCEPT ![b][n] = i]
dirlookup(i, n) == IF Copy(i).blk = 0 THEN 0 ELSE ent[Copy(i).blk][n]
isdirempty(i)   == \A n \in Names : dirlookup(i, n) = 0

-----------------------------------------------------------------------------
At(p, s)   == todo[p] # <<>> /\ Head(todo[p])[1] = s
Arg(p)     == Head(todo[p])[2]
Rest(p)    == Tail(todo[p])
Do(p, s)   == todo' = [todo EXCEPT ![p] = s]
Step(s)    == <<s, 0>>
Put(i)     == <<"iput", i>>
End        == <<Step("end_op")>>
Reg(r, p, v) == [r EXCEPT ![p] = v]
InUser(p)  == todo[p] = <<>>
Idle       == \A p \in Procs : InUser(p)
(* panic(m): this process stops where it is, with its locks.               *)
Panic(m)   == <<<<"panic", m>>>>
Panics(p, m) == Do(p, Panic(m)) /\ UNCHANGED <<disk, cache, fd, cwd, local>>

(* Where namex() starts, and the elements skipelem() has still to return.  *)
Absolute(q)  == q # <<>> /\ Head(q) = "/"
Start(p, q)  == IF Absolute(q) THEN ROOTINO ELSE cwd[p]
skipelem(q)  == IF Absolute(q) THEN Tail(q) ELSE q

(* A call from user mode, up to begin_op() and the inode namex() starts at. *)
Steps == [open   |-> <<Step("namei"), Step("open")>>,
          create |-> <<Step("nameiparent"), Step("create")>>,
          mkdir  |-> <<Step("nameiparent"), Step("create")>>,
          mknod  |-> <<Step("nameiparent"), Step("create")>>,
          link   |-> <<Step("namei"), Step("link")>>,
          unlink |-> <<Step("nameiparent"), Step("unlink")>>,
          chdir  |-> <<Step("namei"), Step("chdir")>>]

syscall(p) ==
  \E c \in Calls[p] :
    /\ InUser(p)
    /\ c.op = "link" => \A i \in Inums : din[i].type = "dir" \/ din[i].nlink < MaxLink
    /\ call' = Reg(call, p, c)
    /\ path' = Reg(path, p, skipelem(c.path))
    /\ ip' = Reg(ip, p, Start(p, c.path))
    /\ cache' = iget(cache, Start(p, c.path))
    /\ Do(p, Steps[c.op])
    /\ UNCHANGED <<disk, fd, cwd, dp>>

(* fileclose() of the open file: begin_op(), iput(), end_op().             *)
close(p) ==
  /\ InUser(p) /\ fd[p] # 0
  /\ fd' = [fd EXCEPT ![p] = 0]
  /\ Do(p, <<Put(fd[p])>> \o End)
  /\ UNCHANGED <<disk, cache, cwd, local>>

(* filewrite() to the open file, whose first byte takes a block.           *)
write(p) ==
  LET i == fd[p]  b == Min(FreeBlk)  d == [Copy(i) EXCEPT !.blk = b]
  IN  /\ InUser(p) /\ i # 0 /\ canLock(i) /\ Copy(i).type = "file" /\ Copy(i).blk = 0
      /\ IF FreeBlk = {} THEN Panics(p, "balloc: out of blocks") ELSE
           /\ cache' = iunlock(Upd(ilock(cache, i, p), i, d), i)
           /\ din' = iupdate(din, i, d)
           /\ used' = used \cup {b} /\ ent' = [ent EXCEPT ![b] = NoEnt]
           /\ Do(p, End)
           /\ UNCHANGED <<fd, cwd, local>>

(* end_op(), and what sys_open() and sys_chdir() set after it.             *)
end_op(p) ==
  /\ At(p, "end_op") \/ At(p, "end_open") \/ At(p, "end_chdir")
  /\ Do(p, <<>>)
  /\ fd' = IF At(p, "end_open") THEN Reg(fd, p, Arg(p)) ELSE fd
  /\ cwd' = IF At(p, "end_chdir") THEN Reg(cwd, p, Arg(p)) ELSE cwd
  /\ call' = Reg(call, p, NoCall) /\ path' = Reg(path, p, <<>>)
  /\ ip' = Reg(ip, p, 0) /\ dp' = Reg(dp, p, 0)
  /\ UNCHANGED <<disk, cache>>

-----------------------------------------------------------------------------
(* namex(): one element of the path, or the end of it.  Failure leaves     *)
(* ip = 0 to the step that follows.                                        *)
namex(p) ==
  LET i == ip[p]  parent == At(p, "nameiparent")  q == path[p]
  IN  /\ At(p, "namei") \/ parent
      /\ IF q = <<>>
           THEN /\ Do(p, IF parent THEN <<Put(i)>> \o Rest(p) ELSE Rest(p))
                /\ ip' = Reg(ip, p, IF parent THEN 0 ELSE i)
                /\ UNCHANGED <<cache, path>>
           ELSE /\ canLock(i)
                /\ LET n    == Head(q)
                       c    == iunlock(ilock(cache, i, p), i)
                       next == dirlookup(i, n)
                   IN  CASE Untyped(i) ->
                              Do(p, Panic("ilock: no type")) /\ UNCHANGED <<cache, path, ip>>
                         [] Copy(i).type = "dir" /\ parent /\ Len(q) = 1 ->
                              Do(p, Rest(p)) /\ cache' = c /\ UNCHANGED <<path, ip>>
                         [] Copy(i).type = "dir" /\ ~(parent /\ Len(q) = 1) /\ next # 0 ->
                              /\ Do(p, <<Put(i)>> \o todo[p])
                              /\ cache' = iget(c, next)
                              /\ ip' = Reg(ip, p, next) /\ path' = Reg(path, p, Tail(q))
                         [] OTHER ->
                              /\ Do(p, <<Put(i)>> \o Rest(p))
                              /\ cache' = c /\ ip' = Reg(ip, p, 0) /\ UNCHANGED path
      /\ UNCHANGED <<disk, fd, cwd, call, dp>>

(* iput(), up to the release of icache.lock.  An entry whose count falls   *)
(* to 0 is never found again: iget() takes it with its flags cleared.      *)
Drop(c, i) == IF c[i].ref = 1 THEN [c EXCEPT ![i] = Unused] ELSE [c EXCEPT ![i].ref = @ - 1]

Iput(p, freeing) ==
  LET i == Arg(p)
  IN  /\ At(p, "iput")
      /\ IF ~freeing
           THEN cache' = Drop(cache, i) /\ Do(p, Rest(p))
           ELSE IF cache[i].busy # 0
             THEN Do(p, Panic("iput busy")) /\ UNCHANGED cache
             ELSE /\ cache' = [cache EXCEPT ![i].busy = p]
                  /\ Do(p, <<<<"itrunc", i>>, <<"iputdone", i>>>> \o Rest(p))
      /\ UNCHANGED <<disk, fd, cwd, local>>

iput_files(p) == At(p, "iput") /\ Iput(p, cache[Arg(p)].ref = 1 /\ cache[Arg(p)].valid
                       /\ cache[Arg(p)].d.type # "dir" /\ cache[Arg(p)].d.nlink = 0)
iput(p) == At(p, "iput") /\ Iput(p, cache[Arg(p)].ref = 1 /\ cache[Arg(p)].valid
                                     /\ cache[Arg(p)].d.nlink = 0)

(* itrunc() and the rest of iput(): its block and the inode are free on    *)
(* the disk, ...                                                           *)
ifree_keep(p) ==
  LET i == Arg(p)  d == [cache[i].d EXCEPT !.type = "none"]
  IN  /\ At(p, "itrunc")
      /\ cache' = Upd(cache, i, d) /\ din' = iupdate(din, i, d)
      /\ Do(p, Rest(p))
      /\ UNCHANGED <<ent, used, fd, cwd, local>>
itrunc(p) ==
  LET i == Arg(p)  d == [cache[i].d EXCEPT !.type = "none", !.blk = 0]
  IN  /\ At(p, "itrunc")
      /\ used' = used \ {cache[i].d.blk}
      /\ cache' = Upd(cache, i, d) /\ din' = iupdate(din, i, d)
      /\ Do(p, Rest(p))
      /\ UNCHANGED <<ent, fd, cwd, local>>

iputdone(p) ==
  /\ At(p, "iputdone")
  /\ cache' = Drop([cache EXCEPT ![Arg(p)].busy = 0, ![Arg(p)].valid = FALSE], Arg(p))
  /\ Do(p, Rest(p)) /\ UNCHANGED <<disk, fd, cwd, local>>

-----------------------------------------------------------------------------
(* What follows namei() or nameiparent() at step s: when it failed, go on  *)
(* with bad; else lock the inode, which must have a type.                  *)
Locks(p, s) == At(p, s) /\ ip[p] # 0 /\ canLock(ip[p])
Typed(p, s) == Locks(p, s) /\ ~Untyped(ip[p])
Fails(p, s, bad) ==
  /\ At(p, s)
  /\ IF ip[p] = 0 THEN Do(p, bad)
     ELSE canLock(ip[p]) /\ Untyped(ip[p]) /\ Do(p, Panic("ilock: no type"))
  /\ UNCHANGED <<disk, cache, fd, cwd, local>>
Touched(p)  == iunlock(ilock(cache, ip[p], p), ip[p])
Name(p)     == Head(path[p])

(* The end of sys_open(): a file, or no descriptor left.                   *)
Opened_leak(p, i) == IF fd[p] = 0 THEN <<<<"end_open", i>>>> ELSE End
Opened(p, i) == IF fd[p] = 0 THEN <<<<"end_open", i>>>> ELSE <<Put(i)>> \o End

open(p) ==
  LET i == ip[p]
  IN  \/ Fails(p, "open", End)
      \/ /\ Typed(p, "open")
         /\ cache' = Touched(p)
         /\ \E rdonly \in BOOLEAN :
              Do(p, IF Copy(i).type = "dir" /\ ~rdonly THEN <<Put(i)>> \o End ELSE Opened(p, i))
         /\ UNCHANGED <<disk, fd, cwd, local>>

(* The last step has i locked, or sets cwd after the iput() of the old one. *)
chdir(p) ==
  LET i == ip[p]
  IN  \/ Fails(p, "chdir", End)
      \/ /\ Typed(p, "chdir")
         /\ cache' = Touched(p)
         /\ Do(p, IF Copy(i).type = "dir" THEN <<Put(cwd[p]), <<"end_chdir", i>>>>
                                           ELSE <<Put(i)>> \o End)
         /\ UNCHANGED <<disk, fd, cwd, local>>

-----------------------------------------------------------------------------
(* create(), up to ialloc() and its iget(): the parent stays locked.       *)
Type(p) == [create |-> "file", mkdir |-> "dir", mknod |-> "dev"][call[p].op]

create(p) ==
  LET d == ip[p]  i == dirlookup(d, Name(p))  new == Min(Free)
  IN  \/ Fails(p, "create", End)
      \/ /\ Typed(p, "create") /\ i # 0
         /\ cache' = iget(Touched(p), i)
         /\ ip' = Reg(ip, p, i)
         /\ Do(p, <<Put(d), Step("found")>>)
         /\ UNCHANGED <<disk, fd, cwd, call, path, dp>>
      \/ /\ Typed(p, "create") /\ i = 0
         /\ IF Free = {} THEN Panics(p, "ialloc: no inodes") ELSE
              /\ din' = ialloc(Type(p))
              /\ cache' = iget(ilock(cache, d, p), new)
              /\ ip' = Reg(ip, p, new) /\ dp' = Reg(dp, p, d)
              /\ Do(p, <<Step("new")>>)
              /\ UNCHANGED <<ent, used, fd, cwd, call, path>>

(* The name was there: only a file may be created over a file.             *)
found(p) ==
  LET i == ip[p]
  IN  /\ Locks(p, "found")
      /\ IF Untyped(i) THEN Panics(p, "ilock: no type") ELSE
           /\ cache' = Touched(p)
           /\ Do(p, IF Type(p) = "file" /\ Copy(i).type = "file" THEN Opened(p, i) ELSE <<Put(i)>> \o End)
           /\ UNCHANGED <<disk, fd, cwd, local>>

(* The new inode is filled in, gets its dots and its name; dp is unlocked. *)
new_(p) ==
  LET i == ip[p]  d == dp[p]  b == Min(FreeBlk)  isdir == Type(p) = "dir"
      di == [Copy(i) EXCEPT !.nlink = 1, !.blk = IF isdir THEN b ELSE @]
      dd == [Copy(d) EXCEPT !.nlink = IF isdir THEN @ + 1 ELSE @]
  IN  /\ Locks(p, "new")
      /\ IF Untyped(i) THEN Panics(p, "ilock: no type")
         ELSE IF isdir /\ FreeBlk = {} THEN Panics(p, "balloc: out of blocks")
         ELSE IF dirlookup(d, Name(p)) # 0 THEN Panics(p, "create: dirlink") ELSE
           /\ din' = iupdate(iupdate(din, i, di), d, dd)
           /\ cache' = iunlock(Upd(Upd(ilock(cache, i, p), i, di), d, dd), d)
           /\ used' = IF isdir THEN used \cup {b} ELSE used
           /\ ent' = LET e == dirlink(dd.blk, Name(p), i)
                     IN  IF isdir THEN [e EXCEPT ![b] = [NoEnt EXCEPT !["."] = i, ![".."] = d]] ELSE e
           /\ Do(p, <<Put(d), Step("created")>>)
           /\ UNCHANGED <<fd, cwd, local>>

(* create() returned with ip locked.                                       *)
created(p) ==
  /\ At(p, "created")
  /\ cache' = iunlock(cache, ip[p])
  /\ Do(p, IF Type(p) = "file" THEN Opened(p, ip[p]) ELSE <<Put(ip[p])>> \o End)
  /\ UNCHANGED <<disk, fd, cwd, local>>

-----------------------------------------------------------------------------
(* sys_unlink(), up to the lock on ip: dp stays locked.                    *)
Unlink(p, name) ==
  LET d == ip[p]  i == IF name THEN dirlookup(d, Name(p)) ELSE 0
  IN  \/ Fails(p, "unlink", End)
      \/ /\ Typed(p, "unlink") /\ i = 0
         /\ cache' = Touched(p) /\ Do(p, <<Put(d)>> \o End)
         /\ UNCHANGED <<disk, fd, cwd, local>>
      \/ /\ Typed(p, "unlink") /\ i # 0
         /\ cache' = iget(ilock(cache, d, p), i)
         /\ ip' = Reg(ip, p, i) /\ dp' = Reg(dp, p, d)
         /\ Do(p, <<Step("unlink_ip")>>)
         /\ UNCHANGED <<disk, fd, cwd, call, path>>
unlink(p)      == Unlink(p, path[p] # <<>> /\ Name(p) \notin Dots)

(* With both locked: the entry goes, and the parent's link when ip is a    *)
(* directory; then dp is given up.                                         *)
unlink_ip(p) ==
  LET i == ip[p]  d == dp[p]  isdir == Copy(i).type = "dir"
      dd == [Copy(d) EXCEPT !.nlink = IF isdir THEN @ - 1 ELSE @]
  IN  /\ Locks(p, "unlink_ip")
      /\ IF Untyped(i) THEN Panics(p, "ilock: no type")
         ELSE IF Copy(i).nlink < 1 THEN Panics(p, "unlink: nlink < 1")
         ELSE IF isdir /\ ~isdirempty(i)
           THEN /\ cache' = Touched(p)
                /\ Do(p, <<Put(i), Step("unlock_dp")>> \o End)
                /\ UNCHANGED <<disk, fd, cwd, local>>
           ELSE /\ ent' = [ent EXCEPT ![dd.blk][Name(p)] = 0]
                /\ din' = iupdate(din, d, dd)
                /\ cache' = iunlock(Upd(ilock(cache, i, p), d, dd), d)
                /\ Do(p, <<Put(d), Step("unlink_nlink")>>)
                /\ UNCHANGED <<used, fd, cwd, local>>

unlock_dp(p) ==
  /\ At(p, "unlock_dp")
  /\ cache' = iunlock(cache, dp[p]) /\ Do(p, <<Put(dp[p])>> \o Rest(p))
  /\ UNCHANGED <<disk, fd, cwd, local>>

(* ip, still locked, loses its link.                                       *)
unlink_nlink(p) ==
  LET i == ip[p]  d == [Copy(i) EXCEPT !.nlink = @ - 1]
  IN  /\ At(p, "unlink_nlink")
      /\ cache' = iunlock(Upd(cache, i, d), i) /\ din' = iupdate(din, i, d)
      /\ Do(p, <<Put(i)>> \o End)
      /\ UNCHANGED <<ent, used, fd, cwd, local>>

-----------------------------------------------------------------------------
(* sys_link(): the count goes up first, then the new name is looked for.   *)
link(p) ==
  LET i == ip[p]  d == [Copy(i) EXCEPT !.nlink = @ + 1]  new == call[p].new
  IN  \/ Fails(p, "link", End)
      \/ /\ Typed(p, "link") /\ Copy(i).type = "dir"
         /\ cache' = Touched(p) /\ Do(p, <<Put(i)>> \o End)
         /\ UNCHANGED <<disk, fd, cwd, local>>
      \/ /\ Typed(p, "link") /\ Copy(i).type # "dir"
         /\ cache' = iget(Upd(Touched(p), i, d), Start(p, new)) /\ din' = iupdate(din, i, d)
         /\ ip' = Reg(ip, p, Start(p, new)) /\ path' = Reg(path, p, skipelem(new))
         /\ Do(p, <<Step("nameiparent"), <<"link_dp", i>>>>)
         /\ UNCHANGED <<ent, used, fd, cwd, call, dp>>

(* dirlink() in the parent of the new name, or the way to bad.             *)
link_dp(p) ==
  LET d == ip[p]  i == Arg(p)  old == dirlookup(d, Name(p))
  IN  \/ Fails(p, "link_dp", <<<<"link_bad", i>>>>)
      \/ /\ Typed(p, "link_dp") /\ old # 0
         /\ cache' = iget(ilock(cache, d, p), old) /\ dp' = Reg(dp, p, d)
         /\ Do(p, <<Put(old), Step("unlock_dp"), <<"link_bad", i>>>>)
         /\ UNCHANGED <<disk, fd, cwd, call, path, ip>>
      \/ /\ Typed(p, "link_dp") /\ old = 0
         /\ cache' = Touched(p) /\ ent' = dirlink(Copy(d).blk, Name(p), i)
         /\ Do(p, <<Put(d), Put(i)>> \o End)
         /\ UNCHANGED <<din, used, fd, cwd, local>>

link_bad(p) ==
  LET i == Arg(p)  d == [Copy(i) EXCEPT !.nlink = @ - 1]
  IN  /\ At(p, "link_bad") /\ canLock(i)
      /\ cache' = iunlock(Upd(ilock(cache, i, p), i, d), i) /\ din' = iupdate(din, i, d)
      /\ Do(p, <<Put(i)>> \o End)
      /\ UNCHANGED <<ent, used, fd, cwd, local>>

-----------------------------------------------------------------------------
(* The machine stops and starts again; see the head of the module.         *)
Crash ==
  /\ Idle /\ \E p \in Procs : fd[p] # 0 \/ cwd[p] # ROOTINO
  /\ cache' = [i \in Inums |-> IF i = 1 THEN [Unused EXCEPT !.ref = Cardinality(Procs)] ELSE Unused]
  /\ fd' = [p \in Procs |-> 0] /\ cwd' = [p \in Procs |-> ROOTINO]
  /\ UNCHANGED <<disk, todo, local>>

Next ==
  \/ Crash
  \/ \E p \in Procs :
       \/ syscall(p) \/ close(p) \/ write(p) \/ end_op(p) \/ namex(p)
       \/ iput(p) \/ itrunc(p) \/ iputdone(p)
       \/ open(p) \/ chdir(p) \/ create(p) \/ found(p) \/ new_(p) \/ created(p)
       \/ unlink(p) \/ unlink_ip(p) \/ unlock_dp(p) \/ unlink_nlink(p)
       \/ link(p) \/ link_dp(p) \/ link_bad(p)

Spec == Init /\ [][Next]_vars

-----------------------------------------------------------------------------
Dirs       == {d \in Inums : din[d].type = "dir"}
Entry(d, n) == ent[din[d].blk][n]
(* The names of i in all directories, and the ".." of its subdirectories.  *)
Links(i) == Cardinality({e \in Dirs \X (Names \cup {".."}) :
              /\ Entry(e[1], e[2]) = i
              /\ e[2] = ".." => e[1] # ROOTINO /\ din[e[1]].nlink > 0})
RootLink(i) == IF i = ROOTINO THEN 1 ELSE 0

(* Between calls the reference count of an inode is the number of open     *)
(* files and current directories that hold it, and no inode is locked:     *)
(* every early return of sysfile.c and of namex() has given back what it   *)
(* took.                                                                   *)
RefsBalanced ==
  Idle => \A i \in Inums : /\ cache[i].busy = 0
                            /\ cache[i].ref = Cardinality({p \in Procs : fd[p] = i})
                                             + Cardinality({p \in Procs : cwd[p] = i})


(* Between calls the marked blocks are those of the allocated inodes, each *)
(* of one inode, and a valid copy in the cache is what the disk has.       *)
BlocksOwned ==
  Idle => LET owners == {i \in Inums : din[i].blk # 0}
          IN  /\ used = {din[i].blk : i \in owners}
              /\ Cardinality(used) = Cardinality(owners)
              /\ \A i \in Inums : cache[i].valid => cache[i].d = din[i]

(* No set of processes waits in ilock() for each other: sys_unlink() and   *)
(* create() hold the parent while they lock the child, and namex() holds   *)
(* one lock at a time.                                                     *)
LockOf(p) ==
  CASE todo[p] = <<>> -> 0
    [] Head(todo[p])[1] \in {"namei", "nameiparent"} -> IF path[p] = <<>> THEN 0 ELSE ip[p]
    [] Head(todo[p])[1] \in {"open", "chdir", "create", "found", "new", "unlink", "unlink_ip", "link",
                             "link_dp"} -> ip[p]
    [] Head(todo[p])[1] = "link_bad" -> Arg(p)
    [] OTHER -> 0
WaitsFor(p) == IF LockOf(p) = 0 THEN 0 ELSE cache[LockOf(p)].busy
NoCircularWait ==
  ~ \E S \in SUBSET Procs : S # {} /\ \A p \in S : WaitsFor(p) \in S

(* The only panics are those for a full disk: no type, nlink < 1, iput     *)
(* busy and a name that is already there are never met.                    *)
NoPanic ==
  \A p \in Procs : At(p, "panic") => Arg(p) \in {"ialloc: no inodes", "balloc: out of blocks"}


(* Only a crash leaves an inode allocated with no links and no references: *)
(* otherwise the last iput() frees it.                                     *)
Orphan(i) == din[i].type # "none" /\ din[i].nlink = 0 /\ cache[i].ref = 0
OnlyCrashLeaks == [][Crash \/ \A i \in Inums : Orphan(i)' => Orphan(i)]_vars
=============================================================================
