------------------------------- MODULE Memory -------------------------------
(***************************************************************************)
(* Physical pages, page tables and the calls that change an address space  *)
(* (COL331/HW1/xv6: kalloc.c, vm.c, exec(), and fork(), growproc(), exit() *)
(* and wait() of proc.c for what they do with memory).  A call is the list *)
(* of its calls to kalloc(), each a step under kmem.lock, so that calls of *)
(* several processes compete for the last pages and any of them may fail   *)
(* anywhere; freeing is one step.  Addresses are counted in pages.         *)
(***************************************************************************)
EXTENDS Integers, Sequences, SequencesExt, FiniteSetsExt

CONSTANTS Procs, Init1, \* the processes, and the first of them
          Pages,        \* what freerange() puts on the free list
          NPTE,         \* pages that one page table maps
          KTABS,        \* page tables for the kernel's part, one each in kmap
          VA,           \* user addresses, 0 .. KERNBASE - 1
          Sizes         \* sizes of program images, in pages

ASSUME MemoryConstants == Init1 \in Procs /\ 0 \notin Pages /\ NPTE \in Nat \ {0} /\ KTABS \in Nat
                          /\ \A n \in Sizes : n + 2 \in VA

VARIABLES
  free,    \* kmem.freelist
  mem,     \* contents of the pages
  dir,     \* by process: proc->pgdir
  new,     \* by process: the pgdir that copyuvm() or exec() is building
  hold,    \* by process: mem of allocuvm() or copyuvm(), kstack of allocproc()
  kstack, sz,
  child,   \* by process: np in fork()
  state,   \* by process: unused, embryo, user, call, zombie, panic
  todo,    \* by process: the steps of its call still to come
  view     \* what each process last wrote or was given at each address

vars == <<free, mem, dir, new, hold, kstack, sz, child, state, todo, view>>

KERNBASE == Cardinality(VA)
Tables   == 0 .. (KERNBASE - 1) \div NPTE
PDX(a)   == a \div NPTE
NoDir    == [page |-> 0, ktabs |-> {}, tabs |-> [t \in Tables |-> 0], pte |-> [a \in VA |-> 0]]
Junk     == -1
Zero     == 0

(* The pages of a page directory: itself, its tables and its user pages.   *)
TablesOf(d) == ({d.page} \cup d.ktabs \cup {d.tabs[t] : t \in Tables}) \ {0}
UserOf(d)   == {d.pte[a] : a \in VA} \ {0}

(* kalloc() and mappages() for each page from lo up to hi.                 *)
Grow(op, lo, hi) == [k \in 1 .. 2 * (hi - lo) |-> <<IF k % 2 = 1 THEN op ELSE "map", lo + (k - 1) \div 2>>]
setupkvm == <<<<"pgdir", 0>>>> \o [k \in 1 .. KTABS |-> <<"ktab", k>>]

(* kvmalloc() is in Pages already; userinit() has made the first process.  *)
Init ==
  LET p  == CHOOSE f \in [1 .. KTABS + 4 -> Pages] : \A j, k \in DOMAIN f : j < k => f[j] < f[k]
      ks == {p[k] : k \in 5 .. KTABS + 4}
  IN  /\ free = Pages \ {p[k] : k \in DOMAIN p}
      /\ mem = [q \in Pages |-> IF q = p[4] THEN Zero ELSE Junk]
      /\ dir = [q \in Procs |-> IF q = Init1 THEN [NoDir EXCEPT !.page = p[2], !.ktabs = ks,
                                                     !.tabs[0] = p[3], !.pte[0] = p[4]] ELSE NoDir]
      /\ kstack = [q \in Procs |-> IF q = Init1 THEN p[1] ELSE 0]
      /\ sz = [q \in Procs |-> IF q = Init1 THEN 1 ELSE 0]
      /\ state = [q \in Procs |-> IF q = Init1 THEN "user" ELSE "unused"]
      /\ new = [q \in Procs |-> NoDir]
      /\ hold = [q \in Procs |-> 0] /\ child = [q \in Procs |-> 0]
      /\ todo = [q \in Procs |-> <<>>]
      /\ view = [q \in Procs |-> [a \in VA |-> Zero]]

-----------------------------------------------------------------------------
At(p, op) == state[p] = "call" /\ todo[p] # <<>> /\ Head(todo[p])[1] = op
Arg(p)    == Head(todo[p])[2]
Goto(p, s) == todo' = [todo EXCEPT ![p] = s]
Go_on(p)  == Goto(p, Tail(todo[p]))
Call(p, s) == state[p] = "user" /\ state' = [state EXCEPT ![p] = "call"] /\ Goto(p, s)
InFork(p) == child[p] # 0
InSbrk(p) == todo[p][Len(todo[p])][1] = "sbrk"
panic(p)  == /\ state' = [state EXCEPT ![p] = "panic"]
             /\ UNCHANGED <<free, mem, dir, new, hold, kstack, sz, child, todo, view>>

(* kalloc() takes a page, kfree() of a set of them fills them with junk.   *)
kalloc   == Min(free)
kfree(S) == free' = free \cup S /\ mem' = [q \in Pages |-> IF q \in S THEN Junk ELSE mem[q]]

(* The addresses that deallocuvm() unmaps from lo up to hi.  It skips one  *)
(* without a table by the length of a whole table, from wherever it is.    *)
deallocuvm(d, lo, hi) ==
  LET walk(acc, a) == IF acc.skip > 0 THEN [acc EXCEPT !.skip = @ - 1]
                      ELSE IF d.tabs[PDX(a)] = 0 THEN [acc EXCEPT !.skip = NPTE - 1]
                      ELSE [acc EXCEPT !.visited = @ \cup {a}]
      all == FoldLeft(walk, [skip |-> 0, visited |-> {}], [k \in 1 .. (hi - lo) |-> lo + k - 1])
  IN  {a \in all.visited : d.pte[a] # 0}
Unmap_stale(d, S) == d
Unmap(d, S) == [d EXCEPT !.pte = [a \in VA |-> IF a \in S THEN 0 ELSE d.pte[a]]]
Freed(d, S) == {d.pte[a] : a \in S}

freevm_dir(d) == Freed(d, deallocuvm(d, 0, KERNBASE)) \cup {d.page}
freevm(d)     == Freed(d, deallocuvm(d, 0, KERNBASE)) \cup TablesOf(d)

(* The way out of a call that failed: fork() gives the child's stack back, *)
(* exec() and copyuvm() free the directory they were building.             *)
Bad(p, d) ==
  /\ kfree((IF InFork(p) THEN {kstack[child[p]]} ELSE {}) \cup (IF d.page = 0 THEN {} ELSE freevm(d)))
  /\ new' = [new EXCEPT ![p] = NoDir] /\ hold' = [hold EXCEPT ![p] = 0]
  /\ kstack' = IF InFork(p) THEN [kstack EXCEPT ![child[p]] = 0] ELSE kstack
  /\ state' = [q \in Procs |-> IF q = p THEN "user" ELSE IF q = child[p] THEN "unused" ELSE state[q]]
  /\ child' = [child EXCEPT ![p] = 0]
  /\ Goto(p, <<>>)
  /\ UNCHANGED <<dir, sz, view>>

-----------------------------------------------------------------------------
(* fork(): allocproc() up to the kernel stack; then copyuvm().             *)
fork(p) ==
  /\ \E np \in Procs :
       /\ state[np] = "unused"
       /\ child' = [child EXCEPT ![p] = np]
       /\ state[p] = "user" /\ state' = [state EXCEPT ![p] = "call", ![np] = "embryo"]
  /\ Goto(p, <<<<"kstack", 0>>>> \o setupkvm \o Grow("copy", 0, sz[p]) \o <<<<"fork", 0>>>>)
  /\ UNCHANGED <<free, mem, dir, new, hold, kstack, sz, view>>

allocproc(p) ==
  /\ At(p, "kstack")
  /\ IF free = {}
       THEN /\ state' = [state EXCEPT ![p] = "user", ![child[p]] = "unused"]
            /\ child' = [child EXCEPT ![p] = 0] /\ Goto(p, <<>>)
            /\ UNCHANGED <<free, kstack>>
       ELSE /\ kstack' = [kstack EXCEPT ![child[p]] = kalloc] /\ free' = free \ {kalloc}
            /\ Go_on(p) /\ UNCHANGED <<state, child>>
  /\ UNCHANGED <<mem, dir, new, hold, sz, view>>

(* setupkvm(): the directory, and the tables of the kernel's part.  When   *)
(* one of those fails the caller is given 0, and what was taken is lost.   *)
setup(p) ==
  LET got == IF At(p, "pgdir") THEN [NoDir EXCEPT !.page = kalloc]
                               ELSE [new[p] EXCEPT !.ktabs = @ \cup {kalloc}]
  IN  /\ At(p, "pgdir") \/ At(p, "ktab")
      /\ IF free = {} THEN Bad(p, NoDir) ELSE
           /\ new' = [new EXCEPT ![p] = got] /\ free' = free \ {kalloc}
           /\ Go_on(p) /\ UNCHANGED <<mem, dir, hold, kstack, sz, child, state, view>>

(* The next page for copyuvm(), with the contents of the parent's.         *)
copyuvm(p) ==
  LET from == dir[p].pte[Arg(p)]
  IN  /\ At(p, "copy")
      /\ IF from = 0 THEN panic(p)
         ELSE IF free = {} THEN Bad(p, new[p])
         ELSE /\ hold' = [hold EXCEPT ![p] = kalloc] /\ free' = free \ {kalloc}
              /\ mem' = [mem EXCEPT ![kalloc] = mem[from]]
              /\ Go_on(p) /\ UNCHANGED <<dir, new, kstack, sz, child, state, view>>

(* The next page for allocuvm().  Without one, allocuvm() unmaps what it   *)
(* has mapped, from the size it was to reach down to the old one.          *)
Target(p) == 1 + Max({s[2] : s \in {todo[p][k] : k \in 1 .. Len(todo[p])}})
AllocuvmFails(p) ==
  LET S == deallocuvm(dir[p], sz[p], Target(p))
  IN  IF ~InSbrk(p) THEN Bad(p, new[p]) ELSE
        /\ kfree(Freed(dir[p], S)) /\ dir' = [dir EXCEPT ![p] = Unmap(@, S)]
        /\ state' = [state EXCEPT ![p] = "user"] /\ Goto(p, <<>>)
        /\ UNCHANGED <<new, hold, kstack, sz, child, view>>
memset(q)      == Zero
allocuvm(p) ==
  /\ At(p, "mem")
  /\ IF free = {} THEN AllocuvmFails(p) ELSE
       /\ hold' = [hold EXCEPT ![p] = kalloc] /\ free' = free \ {kalloc}
       /\ mem' = [mem EXCEPT ![kalloc] = memset(kalloc)]
       /\ Go_on(p) /\ UNCHANGED <<dir, new, kstack, sz, child, state, view>>

(* mappages() of the page just taken, with walkpgdir() for its table.      *)
(* allocuvm() goes on when it fails, copyuvm() gives up; neither frees mem. *)
mappages(p) ==
  LET d == IF InSbrk(p) THEN dir[p] ELSE new[p]
      a == Arg(p)
      t == PDX(a)
      mapped(e) == IF InSbrk(p) THEN dir' = [dir EXCEPT ![p] = e] /\ UNCHANGED new
                                ELSE new' = [new EXCEPT ![p] = e] /\ UNCHANGED dir
  IN  /\ At(p, "map")
      /\ IF d.tabs[t] = 0 /\ free = {}
           THEN IF InFork(p) THEN Bad(p, d) ELSE
                /\ hold' = [hold EXCEPT ![p] = 0] /\ Go_on(p)
                /\ UNCHANGED <<free, mem, dir, new, kstack, sz, child, state, view>>
         ELSE IF d.tabs[t] # 0 /\ d.pte[a] # 0 THEN panic(p)
         ELSE /\ mapped([d EXCEPT !.tabs[t] = IF @ = 0 THEN kalloc ELSE @, !.pte[a] = hold[p]])
              /\ free' = IF d.tabs[t] = 0 THEN free \ {kalloc} ELSE free
              /\ hold' = [hold EXCEPT ![p] = 0] /\ Go_on(p)
              /\ UNCHANGED <<mem, kstack, sz, child, state, view>>

(* The rest of fork(): the child may run.                                  *)
fork_run(p) ==
  LET np == child[p]
  IN  /\ At(p, "fork")
      /\ dir' = [dir EXCEPT ![np] = new[p]] /\ new' = [new EXCEPT ![p] = NoDir]
      /\ sz' = [sz EXCEPT ![np] = sz[p]] /\ view' = [view EXCEPT ![np] = view[p]]
      /\ state' = [state EXCEPT ![p] = "user", ![np] = "user"]
      /\ child' = [child EXCEPT ![p] = 0] /\ Goto(p, <<>>)
      /\ UNCHANGED <<free, mem, hold, kstack>>

-----------------------------------------------------------------------------
(* exec() of an image of n pages: the image is allocated and loaded, then  *)
(* the guard page and the stack.  It may also find no image, and fail.     *)
exec(p) ==
  /\ \E n \in Sizes :
       Call(p, setupkvm \o Grow("mem", 0, n) \o [k \in 1 .. n |-> <<"load", k - 1>>]
               \o Grow("mem", n, n + 2) \o <<<<"exec", n + 2>>>>)
  /\ UNCHANGED <<free, mem, dir, new, hold, kstack, sz, child, view>>

(* loaduvm() of a page.  Without a table it panics, without a page it      *)
(* writes to physical page 0, which is not one of Pages; a bad file fails. *)
loaduvm(p) ==
  /\ At(p, "load")
  /\ \/ /\ new[p].tabs[PDX(Arg(p))] = 0 /\ panic(p)
     \/ /\ new[p].tabs[PDX(Arg(p))] # 0
        /\ Bad(p, new[p]) \/ (Go_on(p) /\ UNCHANGED <<free, mem, dir, new, hold, kstack, sz, child, state, view>>)

(* The rest of exec(): clearpteu() of the guard page, copyout() of the     *)
(* arguments to the stack, and the new image in place of the old one.      *)
exec_commit(p) ==
  LET n == Arg(p)  d == new[p]
  IN  /\ At(p, "exec")
      /\ IF d.tabs[PDX(n - 2)] = 0 THEN panic(p)
         ELSE \/ Bad(p, d)
              \/ /\ d.pte[n - 1] # 0
                 /\ kfree(freevm(dir[p]))
                 /\ dir' = [dir EXCEPT ![p] = d] /\ new' = [new EXCEPT ![p] = NoDir]
                 /\ sz' = [sz EXCEPT ![p] = n] /\ view' = [view EXCEPT ![p] = [a \in VA |-> Zero]]
                 /\ state' = [state EXCEPT ![p] = "user"] /\ Goto(p, <<>>)
                 /\ UNCHANGED <<hold, kstack, child>>

-----------------------------------------------------------------------------
(* growproc(): allocuvm() of one page more, or deallocuvm() of the last.   *)
(* When that leaves none, deallocuvm() returns 0, growproc() takes it for  *)
(* a failure and the size stays.                                           *)
sbrk(p) ==
  /\ sz[p] + 1 < KERNBASE
  /\ Call(p, Grow("mem", sz[p], sz[p] + 1) \o <<<<"sbrk", sz[p] + 1>>>>)
  /\ UNCHANGED <<free, mem, dir, new, hold, kstack, sz, child, view>>
growproc(p) ==
  /\ At(p, "sbrk")
  /\ sz' = [sz EXCEPT ![p] = Arg(p)] /\ view' = [view EXCEPT ![p][Arg(p) - 1] = Zero]
  /\ state' = [state EXCEPT ![p] = "user"] /\ Goto(p, <<>>)
  /\ UNCHANGED <<free, mem, dir, new, hold, kstack, child>>
shrink(p) ==
  LET S == deallocuvm(dir[p], sz[p] - 1, sz[p])
  IN  /\ state[p] = "user"
      /\ kfree(Freed(dir[p], S)) /\ dir' = [dir EXCEPT ![p] = Unmap(@, S)]
      /\ sz' = [sz EXCEPT ![p] = IF @ = 1 THEN 1 ELSE @ - 1]
      /\ UNCHANGED <<new, hold, kstack, child, state, todo, view>>

(* exit(), and wait() by whoever has it for a child.                       *)
exit(p) ==
  /\ p # Init1 /\ state[p] = "user" /\ state' = [state EXCEPT ![p] = "zombie"]
  /\ UNCHANGED <<free, mem, dir, new, hold, kstack, sz, child, todo, view>>
wait(p) ==
  /\ state[p] = "zombie" /\ state' = [state EXCEPT ![p] = "unused"]
  /\ kfree({kstack[p]} \cup freevm(dir[p]))
  /\ kstack' = [kstack EXCEPT ![p] = 0] /\ dir' = [dir EXCEPT ![p] = NoDir]
  /\ sz' = [sz EXCEPT ![p] = 0] /\ view' = [view EXCEPT ![p] = [a \in VA |-> Zero]]
  /\ UNCHANGED <<new, hold, child, todo>>

(* The program writes to its first page.                                   *)
store(p) ==
  LET q == dir[p].pte[0]
  IN  /\ state[p] = "user" /\ q # 0 /\ mem[q] # p
      /\ mem' = [mem EXCEPT ![q] = p] /\ view' = [view EXCEPT ![p][0] = p]
      /\ UNCHANGED <<free, dir, new, hold, kstack, sz, child, state, todo>>

Next ==
  \E p \in Procs :
    \/ fork(p) \/ allocproc(p) \/ setup(p) \/ copyuvm(p) \/ allocuvm(p) \/ mappages(p) \/ fork_run(p)
    \/ exec(p) \/ loaduvm(p) \/ exec_commit(p)
    \/ sbrk(p) \/ growproc(p) \/ shrink(p) \/ exit(p) \/ wait(p) \/ store(p)

Spec == Init /\ [][Next]_vars

-----------------------------------------------------------------------------
(* All the places that hold a page: each is its pages, as a set.           *)
Places == {<<kind, p>> : kind \in {"dir", "new"}, p \in Procs}
In(w)  == LET d == IF w[1] = "dir" THEN dir[w[2]] ELSE new[w[2]] IN TablesOf(d) \cup UserOf(d)
Small(p) == {kstack[p], hold[p]} \ {0}
Lost   == Pages \ (free \cup UNION {In(w) : w \in Places} \cup UNION {Small(p) : p \in Procs})

(* A page is on the free list or in one place of one process, and nowhere  *)
(* else, so that no process or table is overwritten through another: with  *)
(* every order of allocations, failures and frees.                         *)
PageOnce ==
  /\ \A w1, w2 \in Places : w1 # w2 => In(w1) \cap In(w2) = {}
  /\ \A p \in Procs : Small(p) \cap UNION {In(w) : w \in Places} = {}
  /\ \A p, q \in Procs : p # q => Small(p) \cap Small(q) = {}
  /\ free \cap (UNION {In(w) : w \in Places} \cup UNION {Small(p) : p \in Procs}) = {}


(* A page is lost to the system only by a step that found the free list    *)
(* empty: every other way out of fork(), exec(), sbrk() and exit() gives   *)
(* back all it took.                                                       *)
LostOnlyWhenFull == [][Lost' \subseteq Lost \/ free = {}]_vars
=============================================================================
