------------------------------ MODULE Malloc -------------------------------
(***************************************************************************)
(* malloc() and free() of the user library (umalloc.c).  An address is a   *)
(* number of header-sized units; base is at 0, below the break.  hdr has   *)
(* the headers of the blocks there are: what is left of others inside a    *)
(* block is forgotten, and so is the ptr of a block in use.                *)
(***************************************************************************)
EXTENDS Integers, FiniteSetsExt, Functions, TLC

CONSTANTS
  HEADER,   \* bytes of a Header
  MORE,     \* units that morecore() asks for at least
  HEAP,     \* bound: the break at which sbrk() fails
  Requests  \* nbytes of the calls of malloc()

VARIABLES hdr, freep, brk, live, holes

heapvars == <<hdr, freep, brk, live, holes>>
base == 0
NULL == -1
Heap == [hdr |-> hdr, freep |-> freep, brk |-> brk]
ptr(h, p) == h.hdr[p].ptr
size(h, p) == h.hdr[p].size
SetPtr(h, p, q) == [h EXCEPT !.hdr[p].ptr = q]
Joined(h, p, q) ==
  [h EXCEPT !.hdr = Restrict([@ EXCEPT ![p] = [ptr |-> h.hdr[q].ptr, size |-> @.size + h.hdr[q].size]],
                             DOMAIN @ \ {q})]

(* The loop of free(): the free block after which bp belongs.              *)
RECURSIVE Before(_, _, _)
Before(h, p, bp) ==
  IF \/ bp > p /\ bp < ptr(h, p)
     \/ p >= ptr(h, p) /\ (bp > p \/ bp < ptr(h, p))
  THEN p ELSE Before(h, ptr(h, p), bp)

free_upper(h, bp) ==
  LET p == Before(h, h.freep, bp)
      a == IF bp + size(h, bp) = ptr(h, p) THEN Joined(h, bp, ptr(h, p)) ELSE SetPtr(h, bp, ptr(h, p))
  IN  [SetPtr(a, p, bp) EXCEPT !.freep = p]
free(h, bp) ==
  LET p == Before(h, h.freep, bp)
      a == IF bp + size(h, bp) = ptr(h, p) THEN Joined(h, bp, ptr(h, p)) ELSE SetPtr(h, bp, ptr(h, p))
      b == IF p + size(h, p) = bp THEN Joined(a, p, bp) ELSE SetPtr(a, p, bp)
  IN  [b EXCEPT !.freep = p]

morecore(h, nunits) ==
  LET nu == Max({nunits, MORE})
  IN  free([h EXCEPT !.hdr = @ @@ (h.brk :> [ptr |-> base, size |-> nu]), !.brk = @ + nu], h.brk)

(* The loop of malloc(): the result is a heap with the address found, or   *)
(* NULL after a failed sbrk().                                             *)
RECURSIVE Search(_, _, _)
Search(h, prevp, nunits) ==
  LET p    == ptr(h, prevp)
      left == size(h, p) - nunits
      cut  == p + left
      more == morecore(h, nunits)
  IN  CASE left = 0 -> [heap |-> [SetPtr(SetPtr(h, prevp, ptr(h, p)), p, base) EXCEPT !.freep = prevp], got |-> p]
        [] left > 0 -> [heap |-> [h EXCEPT !.hdr = [@ EXCEPT ![p].size = left] @@
                                                     (cut :> [ptr |-> base, size |-> nunits]),
                                           !.freep = prevp], got |-> cut]
        [] left < 0 /\ p # h.freep -> Search(h, p, nunits)
        [] left < 0 /\ p = h.freep /\ h.brk + Max({nunits, MORE}) > HEAP -> [heap |-> h, got |-> NULL]
        [] OTHER -> Search(more, more.freep, nunits)

Set(h) == hdr' = h.hdr /\ freep' = h.freep /\ brk' = h.brk

malloc(nbytes) ==
  LET nunits == (nbytes + HEADER - 1) \div HEADER + 1
      first  == IF freep # NULL THEN Heap
                ELSE [Heap EXCEPT !.hdr = (base :> [ptr |-> base, size |-> 0]), !.freep = base]
      r      == Search(first, first.freep, nunits)
  IN  /\ Set(r.heap)
      /\ live' = IF r.got = NULL THEN live ELSE live @@ (r.got :> nbytes)
      /\ UNCHANGED holes

free_call(bp) ==
  /\ bp \in DOMAIN live
  /\ Set(free(Heap, bp)) /\ live' = Restrict(live, DOMAIN live \ {bp}) /\ UNCHANGED holes

(* The program may call sbrk() itself.                                     *)
sbrk_call ==
  /\ brk < HEAP /\ brk' = brk + 1 /\ holes' = holes \cup {brk}
  /\ UNCHANGED <<hdr, freep, live>>

HeapInit == hdr = <<>> /\ freep = NULL /\ brk = 2 /\ live = <<>> /\ holes = {}
HeapNext ==
  \/ \E nbytes \in Requests : malloc(nbytes)
  \/ \E bp \in DOMAIN live : free_call(bp)
  \/ sbrk_call

-----------------------------------------------------------------------------
(* The free list holds together through any calls of malloc(), free() and  *)
(* sbrk(): it is circular in the order of addresses, neighbours are        *)
(* joined, blocks are disjoint and with the memory of others make up all   *)
(* that sbrk() gave, and a block handed out has room for what was asked.   *)
HeapSound ==
  freep # NULL =>
    LET free_ == DOMAIN hdr \ DOMAIN live
        units(a) == a..(a + hdr[a].size - 1)
        above(a) == {b \in free_ : b > a}
    IN  /\ base \in free_ /\ freep \in free_
        /\ \A a \in free_ : hdr[a].ptr = IF above(a) = {} THEN base ELSE Min(above(a))
        /\ \A a \in free_ \ {base} : a + hdr[a].size \notin free_
        /\ \A a, b \in DOMAIN hdr : a # b => units(a) \cap units(b) = {}
        /\ UNION {units(a) : a \in DOMAIN hdr} = 2..(brk - 1) \ holes
        /\ \A a \in DOMAIN live : (hdr[a].size - 1) * HEADER >= live[a]

=============================================================================
