----------------------------- MODULE FileTable -----------------------------
(***************************************************************************)
(* Descriptors and open files (COL331/HW1/xv6: file.c, the descriptor      *)
(* calls of sysfile.c, pipealloc() of pipe.c, and what fork() and exit()   *)
(* of proc.c do to ofile[]).  A section under ftable.lock is one step.     *)
(* ofile[] is private to its process, so what a call does to it between    *)
(* two such sections belongs to the step before.  The inodes are one       *)
(* counter of references, taken by namei() and given back by iput().       *)
(***************************************************************************)
EXTENDS Integers, SequencesExt

CONSTANTS Procs, initproc, NOFILE, NFILE, Pipes

Files == 1..NFILE
FDs   == 0..(NOFILE - 1)

ASSUME FileConstants ==
  /\ initproc \in Procs /\ NOFILE \in Nat /\ NFILE \in Nat
  /\ 0 \notin Procs \cup Pipes

VARIABLES
  ofile,           \* ofile[p][fd], 0 if the descriptor is free
  alive,           \* processes that exist
  ref, type, pipe, \* ftable.file[]; type is "inode" or the end of a pipe
  iref,            \* references to inodes that are held
  ends,            \* open ends of pipes
  pc,
  fs,              \* by process: its calls of fileclose() and filedup() to come
  ff,              \* by process: the copy of *f in fileclose()
  after,           \* by process: what follows those calls
  child            \* by process: np in fork()

vars  == <<ofile, alive, ref, type, pipe, iref, ends, pc, fs, ff, after, child>>
table == <<ref, type, pipe>>
objs  == <<iref, ends>>

None == [type |-> "none", pipe |-> 0]

(* Process 1 of userinit(), without files.                                 *)
Init ==
  /\ ofile = [p \in Procs |-> [fd \in FDs |-> 0]]
  /\ alive = {initproc}
  /\ ref = [f \in Files |-> 0]
  /\ type = [f \in Files |-> "none"]
  /\ pipe = [f \in Files |-> 0]
  /\ iref = 0 /\ ends = {}
  /\ pc = [p \in Procs |-> "user"]
  /\ fs = [p \in Procs |-> <<>>]
  /\ ff = [p \in Procs |-> None]
  /\ after = [p \in Procs |-> "user"]
  /\ child = [p \in Procs |-> 0]

-----------------------------------------------------------------------------
FreeFiles  == {f \in Files : ref[f] = 0}
FreeFDs(p) == {fd \in FDs : ofile[p][fd] = 0}
Go(p, l)   == pc' = [pc EXCEPT ![p] = l]

(* A call from user mode.                                                  *)
InUser(p) == p \in alive /\ pc[p] = "user"

(* The calls s of fileclose() and filedup(), one after the other, then l.  *)
Do(p, s, l) ==
  /\ Go(p, IF s = <<>> THEN l ELSE Head(s)[1])
  /\ fs' = [fs EXCEPT ![p] = s]
  /\ after' = [after EXCEPT ![p] = IF s = <<>> THEN "user" ELSE l]

Close(f) == <<"fileclose", f>>
Dup(f)   == <<"filedup", f>>

(* The call named op for each open descriptor of p, in their order.        *)
ForAll(p, op) ==
  LET open == SelectSeq([i \in 1..NOFILE |-> ofile[p][i - 1]], LAMBDA f : f # 0)
  IN  [i \in DOMAIN open |-> <<op, open[i]>>]

(* fileclose(): the section under the lock; *f is copied before it is      *)
(* given back to the table.  The first form does not count.                *)
Fileclose(p, last) ==
  LET f == Head(fs[p])[2]
  IN  /\ pc[p] = "fileclose"
      /\ IF ref[f] < 1
           THEN Go(p, "panic") /\ UNCHANGED <<table, ff>>
           ELSE /\ ref' = [ref EXCEPT ![f] = IF last THEN 0 ELSE @ - 1]
                /\ ff' = [ff EXCEPT ![p] =
                            IF last THEN [type |-> type[f], pipe |-> pipe[f]]
                            ELSE None]
                /\ type' = [type EXCEPT ![f] = IF last THEN "none" ELSE @]
                /\ Go(p, "release")
                /\ UNCHANGED pipe
      /\ UNCHANGED <<ofile, alive, objs, fs, after, child>>

fileclose_any(p) == Fileclose(p, TRUE)
fileclose(p) == fs[p] # <<>> /\ Fileclose(p, ref[Head(fs[p])[2]] = 1)

(* fileclose(): pipeclose() or iput() of the copy, and the return; the     *)
(* first form calls iput() for all that is not a pipe.                     *)
Release(p, inode) ==
  /\ pc[p] = "release"
  /\ iref' = iref - (IF inode THEN 1 ELSE 0)
  /\ ends' = ends \ {<<ff[p].pipe, ff[p].type>>}
  /\ ff' = [ff EXCEPT ![p] = None]
  /\ Do(p, Tail(fs[p]), after[p])
  /\ UNCHANGED <<ofile, alive, table, child>>

fileclose_release(p) == Release(p, ff[p].type = "inode")

filedup(p) ==
  LET f == Head(fs[p])[2]
  IN  /\ pc[p] = "filedup"
      /\ IF ref[f] < 1
           THEN Go(p, "panic") /\ UNCHANGED <<ref, fs, after>>
           ELSE /\ ref' = [ref EXCEPT ![f] = @ + 1]
                /\ Do(p, Tail(fs[p]), after[p])
      /\ UNCHANGED <<ofile, alive, type, pipe, objs, ff, child>>

-----------------------------------------------------------------------------
sys_close(p) ==
  \E fd \in FDs \ FreeFDs(p) :
    /\ InUser(p)
    /\ ofile' = [ofile EXCEPT ![p][fd] = 0]
    /\ Do(p, <<Close(ofile[p][fd])>>, "user")
    /\ UNCHANGED <<alive, table, objs, ff, child>>

(* sys_dup(): fdalloc(), then filedup().                                   *)
sys_dup(p) ==
  \E fd \in FDs \ FreeFDs(p) :
    /\ InUser(p) /\ FreeFDs(p) # {}
    /\ ofile' = [ofile EXCEPT ![p][Min(FreeFDs(p))] = ofile[p][fd]]
    /\ Do(p, <<Dup(ofile[p][fd])>>, "user")
    /\ UNCHANGED <<alive, table, objs, ff, child>>

(* sys_open(), once namei() or create() has found the inode, ...           *)
sys_open(p) ==
  /\ InUser(p) /\ Go(p, "open")
  /\ iref' = iref + 1
  /\ UNCHANGED <<ofile, alive, table, ends, fs, ff, after, child>>

(* ... filealloc() and fdalloc(); the file gets its type only after both.  *)
sys_open_file(p) ==
  /\ pc[p] = "open"
  /\ IF FreeFiles = {}
       THEN Go(p, "iput") /\ UNCHANGED <<ofile, ref, type, fs, after>>
       ELSE LET f == Min(FreeFiles)
            IN  /\ ref' = [ref EXCEPT ![f] = 1]
                /\ IF FreeFDs(p) = {}
                     THEN Do(p, <<Close(f)>>, "iput") /\ UNCHANGED <<ofile, type>>
                     ELSE /\ ofile' = [ofile EXCEPT ![p][Min(FreeFDs(p))] = f]
                          /\ type' = [type EXCEPT ![f] = "inode"]
                          /\ Go(p, "user")
                          /\ UNCHANGED <<fs, after>>
  /\ UNCHANGED <<alive, pipe, objs, ff, child>>

(* ... iunlockput() when there was no file or no descriptor.               *)
sys_open_fail(p) ==
  /\ pc[p] = "iput"
  /\ iref' = iref - 1
  /\ Go(p, "user")
  /\ UNCHANGED <<ofile, alive, table, ends, fs, ff, after, child>>

-----------------------------------------------------------------------------
(* pipealloc(): the first filealloc() of sys_pipe(), ...                   *)
pipealloc_f0(p) ==
  /\ InUser(p) /\ FreeFiles # {}
  /\ ref' = [ref EXCEPT ![Min(FreeFiles)] = 1]
  /\ fs' = [fs EXCEPT ![p] = <<Close(Min(FreeFiles))>>]
  /\ Go(p, "pipe_f1")
  /\ UNCHANGED <<ofile, alive, type, pipe, objs, ff, after, child>>

(* ... the second one, or "goto bad", ...                                  *)
pipealloc_f1(p) ==
  /\ pc[p] = "pipe_f1"
  /\ IF FreeFiles = {}
       THEN Do(p, fs[p], "user") /\ UNCHANGED ref
       ELSE /\ ref' = [ref EXCEPT ![Min(FreeFiles)] = 1]
            /\ fs' = [fs EXCEPT ![p] = Append(@, Close(Min(FreeFiles)))]
            /\ Go(p, "pipe_fds")
            /\ UNCHANGED after
  /\ UNCHANGED <<ofile, alive, type, pipe, objs, ff, child>>

(* ... kalloc() and the two fdalloc(); without memory or descriptors both  *)
(* files are closed, in the first form only rf.                            *)
Unused(k) == <<k, "r">> \notin ends /\ <<k, "w">> \notin ends

SysPipe(p, failing) ==
  LET rf == fs[p][1][2]
      wf == fs[p][2][2]
      fd0 == Min(FreeFDs(p))
      fd1 == Min(FreeFDs(p) \ {fd0})
  IN  /\ pc[p] = "pipe_fds"
      /\ \/ Do(p, failing, "user") /\ UNCHANGED <<ofile, type, pipe, ends>>
         \/ \E k \in {j \in Pipes : Unused(j)} :
              /\ type' = [type EXCEPT ![rf] = "r", ![wf] = "w"]
              /\ pipe' = [pipe EXCEPT ![rf] = k, ![wf] = k]
              /\ ends' = ends \cup {<<k, "r">>, <<k, "w">>}
              /\ IF Cardinality(FreeFDs(p)) < 2
                   THEN Do(p, failing, "user") /\ UNCHANGED ofile
                   ELSE /\ ofile' = [ofile EXCEPT ![p][fd0] = rf, ![p][fd1] = wf]
                        /\ Do(p, <<>>, "user")
      /\ UNCHANGED <<alive, ref, iref, ff, child>>

sys_pipe_rf(p)  == SysPipe(p, <<fs[p][1]>>)
sys_pipe_fds(p) == SysPipe(p, fs[p])

-----------------------------------------------------------------------------
(* fork(): the child gets the parent's descriptors, each through filedup(), *)
(* and runs afterwards.                                                     *)
Embryo == {child[p] : p \in Procs}

fork(p) ==
  \E q \in Procs \ (alive \cup Embryo) :
    /\ InUser(p)
    /\ ofile' = [ofile EXCEPT ![q] = ofile[p]]
    /\ child' = [child EXCEPT ![p] = q]
    /\ Do(p, ForAll(p, "filedup"), "forked")
    /\ UNCHANGED <<alive, table, objs, ff>>

fork_run(p) ==
  /\ pc[p] = "forked"
  /\ alive' = alive \cup {child[p]}
  /\ child' = [child EXCEPT ![p] = 0]
  /\ Go(p, "user")
  /\ UNCHANGED <<ofile, table, objs, fs, ff, after>>

(* exit(): fileclose() of every open descriptor; the descriptors are       *)
(* cleared on the way, which only the process itself could see.            *)
exit(p) ==
  /\ InUser(p) /\ p # initproc
  /\ ofile' = [ofile EXCEPT ![p] = [fd \in FDs |-> 0]]
  /\ Do(p, ForAll(p, "fileclose"), "zombie")
  /\ UNCHANGED <<alive, table, objs, ff, child>>

exit_zombie(p) ==
  /\ pc[p] = "zombie"
  /\ alive' = alive \ {p}
  /\ Go(p, "user")
  /\ UNCHANGED <<ofile, table, objs, fs, ff, after, child>>

-----------------------------------------------------------------------------
(* sys_dup2() onto an open descriptor: nothing closes the file it had.     *)
sys_dup2_open(p) ==
  \E fd, fd1 \in FDs \ FreeFDs(p) :
    /\ InUser(p)
    /\ ofile' = [ofile EXCEPT ![p][fd1] = ofile[p][fd]]
    /\ Do(p, <<Dup(ofile[p][fd])>>, "user")
    /\ UNCHANGED <<alive, table, objs, ff, child>>

(* sys_dup2() onto a free descriptor: argfd() fails without setting f2, so *)
(* fileclose(f2) and the comparison use an uninitialized pointer.          *)
sys_dup2_free(p) ==
  \E fd \in FDs \ FreeFDs(p), fd1 \in FreeFDs(p), f2 \in Files :
    LET f1 == ofile[p][fd]
    IN  /\ InUser(p)
        /\ ofile' = [ofile EXCEPT ![p][fd1] = IF f1 = f2 THEN 0 ELSE f1]
        /\ Do(p, IF f1 = f2 THEN <<Close(f2)>> ELSE <<Close(f2), Dup(f1)>>, "user")
        /\ UNCHANGED <<alive, table, objs, ff, child>>

-----------------------------------------------------------------------------
Files_(p) == fileclose(p) \/ fileclose_release(p) \/ filedup(p)
Calls(p) ==
  \/ sys_close(p) \/ sys_dup(p)
  \/ sys_open(p) \/ sys_open_file(p) \/ sys_open_fail(p)
  \/ pipealloc_f0(p) \/ pipealloc_f1(p) \/ sys_pipe_fds(p)
  \/ fork(p) \/ fork_run(p) \/ exit(p) \/ exit_zombie(p)

Next == \E p \in Procs : Files_(p) \/ Calls(p)
Spec == Init /\ [][Next]_vars

NextDup2 == Next \/ \E p \in Procs : sys_dup2_open(p) \/ sys_dup2_free(p)
SpecDup2 == Init /\ [][NextDup2]_vars

-----------------------------------------------------------------------------
(* Types; no count of references ever goes below zero.                     *)
TypeOK ==
  /\ ofile \in [Procs -> [FDs -> Files \cup {0}]]
  /\ alive \subseteq Procs
  /\ ref \in [Files -> Nat] /\ iref \in Nat
  /\ type \in [Files -> {"none", "inode", "r", "w"}]
  /\ pipe \in [Files -> Pipes \cup {0}]
  /\ ends \subseteq Pipes \X {"r", "w"}
  /\ child \in [Procs -> Procs \cup {0}]

(* A descriptor of a process in user mode always leads to an open file     *)
(* with an object: no close, dup, fork or exit of another process, at any  *)
(* point, takes the file away or gives its slot to something else, and the *)
(* checks of filedup() and fileclose() do not fail.                        *)
DescriptorsLive ==
  /\ \A p \in Procs : pc[p] # "panic"
  /\ \A p \in alive, fd \in FDs :
       LET f == ofile[p][fd]
       IN  pc[p] = "user" /\ f # 0 =>
             /\ ref[f] > 0 /\ type[f] # "none"
             /\ type[f] \in {"r", "w"} => <<pipe[f], type[f]>> \in ends
             /\ type[f] = "inode" => iref > 0

(* The descriptors as a whole, with the counts never below zero.           *)
FilesSound == TypeOK /\ DescriptorsLive

(* ref is the "reference count" of file.h: whenever every process is in    *)
(* user mode it is the number of descriptors, the inode references are     *)
(* those of the open files, and every open end of a pipe has one file.     *)
Fds(f) == {pf \in Procs \X FDs : ofile[pf[1]][pf[2]] = f}

NothingLeaks ==
  (\A p \in Procs : pc[p] = "user") =>
    /\ \A f \in Files : ref[f] = Cardinality(Fds(f))
    /\ iref = Cardinality({f \in Files : ref[f] > 0 /\ type[f] = "inode"})
    /\ \A e \in ends : \E f \in Files : ref[f] > 0 /\ e = <<pipe[f], type[f]>>
    /\ \A f, g \in Files : type[f] \in {"r", "w"} /\ f # g
                            => <<pipe[f], type[f]>> # <<pipe[g], type[g]>>
=============================================================================
