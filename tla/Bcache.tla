------------------------------- MODULE Bcache ------------------------------
(***************************************************************************)
(* The buffer cache (COL331/HW1/xv6/bio.c) and the disk driver below it    *)
(* (ide.c).  A section under bcache.lock or idelock is one step; sleep()   *)
(* gives the lock up and blocks in one step (Proc).  A process uses one    *)
(* buffer at a time, as the file system calls outside bmap() do, and       *)
(* after changing the data calls bwrite() or, for the log, log_write(),    *)
(* which pins the buffer with B_DIRTY.                                     *)
(***************************************************************************)
EXTENDS Naturals, Sequences, FiniteSets

CONSTANTS
  Procs, Blocks, Vals,
  Bufs,     \* bcache.buf[]
  MAXPIN,   \* the log pins at most so many buffers
  DISKERR   \* may the disk report errors?  Store assumes that it does not

None == "none"

ASSUME BcacheConstants ==
  /\ None \notin Procs \cup Blocks \cup Bufs \cup Vals /\ "read" \notin Vals
  /\ MAXPIN \in Nat /\ DISKERR \in BOOLEAN
  /\ IsFiniteSet(Bufs) /\ IsFiniteSet(Procs)

VARIABLES
  blockno,            \* by buffer; None while b->dev = -1
  busy, valid, dirty, \* buffers with the flag set
  data,
  mru,                \* the list from bcache.head.next on, by position
  idequeue,           \* the requests, the active one first
  cmd,                \* the command the disk executes: a value to write,
                      \* "read", or None
  disk,
  pc, want, buf       \* by process: the call, its block, its buffer

vars == <<blockno, busy, valid, dirty, data, mru, idequeue, cmd, disk, pc,
          want, buf>>
cacheVars == <<blockno, busy, mru>>
ideVars   == <<valid, idequeue, cmd, disk>>

InIderw == {"iderw", "ide_sleep", "ide_test"}
PCs == {"idle", "bget", "bget_sleep", "bread", "iderw", "ide_sleep",
        "ide_test", "held", "panic"}

(* The lists of bcache.head: every buffer, exactly once.                   *)
NBUF == Cardinality(Bufs)
Lists == {f \in [1..NBUF -> Bufs] :
            /\ \A i, j \in 1..NBUF : f[i] = f[j] => i = j
            /\ \A b \in Bufs : \E i \in 1..NBUF : f[i] = b}

(* binit() and ideinit(); the buffers have no names, so any list will do.  *)
Init ==
  /\ blockno = [b \in Bufs |-> None]
  /\ busy = {} /\ valid = {} /\ dirty = {}
  /\ \E v \in Vals : data = [b \in Bufs |-> v]
  /\ mru \in Lists
  /\ idequeue = <<>> /\ cmd = None
  /\ disk \in [Blocks -> Vals]
  /\ pc = [p \in Procs |-> "idle"]
  /\ want = [p \in Procs |-> None]
  /\ buf = [p \in Procs |-> None]

-----------------------------------------------------------------------------
(* wakeup(b): bget() and iderw() sleep on the same channel.                *)
wakeup(f, b) ==
  [p \in Procs |-> IF buf[p] # b THEN f[p]
                   ELSE IF f[p] = "bget_sleep" THEN "bget"
                   ELSE IF f[p] = "ide_sleep" THEN "ide_test" ELSE f[p]]

call(p, k) ==
  /\ pc[p] = "idle"
  /\ pc' = [pc EXCEPT ![p] = "bget"]
  /\ want' = [want EXCEPT ![p] = k]
  /\ UNCHANGED <<cacheVars, ideVars, dirty, data, buf>>

Cached(k) == {b \in Bufs : blockno[b] = k}

(* bget(): the block is cached and free, or it is cached and in use.       *)
bget_cached(p) ==
  \E b \in Cached(want[p]) :
    /\ pc[p] = "bget"
    /\ buf' = [buf EXCEPT ![p] = b]
    /\ IF b \in busy
         THEN /\ pc' = [pc EXCEPT ![p] = "bget_sleep"]
              /\ UNCHANGED busy
         ELSE /\ pc' = [pc EXCEPT ![p] = "bread"]
              /\ busy' = busy \cup {b}
    /\ UNCHANGED <<blockno, mru, ideVars, dirty, data, want>>

(* bget(): recycle the least recently used buffer that is neither busy nor *)
(* dirty.                                                                  *)
Recyclable_dirty(b) == b \notin busy
Recyclable(b) == b \notin busy /\ b \notin dirty

Free == {i \in 1..NBUF : Recyclable(mru[i])}

bget_recycle(p) ==
  /\ pc[p] = "bget" /\ Cached(want[p]) = {}
  /\ IF Free = {}
       THEN /\ pc' = [pc EXCEPT ![p] = "panic"]
            /\ UNCHANGED <<blockno, busy, valid, buf>>
       ELSE \E i \in Free :
              /\ \A j \in Free : j <= i
              /\ blockno' = [blockno EXCEPT ![mru[i]] = want[p]]
              /\ busy' = busy \cup {mru[i]}
              /\ valid' = valid \ {mru[i]}
              /\ buf' = [buf EXCEPT ![p] = mru[i]]
              /\ pc' = [pc EXCEPT ![p] = "bread"]
  /\ UNCHANGED <<dirty, data, mru, idequeue, cmd, disk, want>>

(* bread(), once bget() has returned.                                      *)
bread(p) ==
  /\ pc[p] = "bread"
  /\ pc' = [pc EXCEPT ![p] = IF buf[p] \in valid THEN "held" ELSE "iderw"]
  /\ UNCHANGED <<cacheVars, ideVars, dirty, data, want, buf>>

-----------------------------------------------------------------------------
(* idestart(): the command for b, with the data if it is a write.          *)
idestart(b) == IF b \in dirty THEN data[b] ELSE "read"

(* iderw() up to the first sleep().                                        *)
iderw(p) ==
  /\ pc[p] = "iderw"
  /\ IF buf[p] \notin busy \/ (buf[p] \in valid /\ buf[p] \notin dirty)
       THEN /\ pc' = [pc EXCEPT ![p] = "panic"]
            /\ UNCHANGED <<idequeue, cmd>>
       ELSE /\ idequeue' = Append(idequeue, buf[p])
            /\ cmd' = IF idequeue = <<>> THEN idestart(buf[p]) ELSE cmd
            /\ pc' = [pc EXCEPT ![p] = "ide_sleep"]
  /\ UNCHANGED <<cacheVars, valid, disk, dirty, data, want, buf>>

(* The while loop of iderw() after a wakeup.                               *)
iderw_test(p) ==
  /\ pc[p] = "ide_test"
  /\ pc' = [pc EXCEPT ![p] = IF buf[p] \in valid \ dirty THEN "held"
                             ELSE "ide_sleep"]
  /\ UNCHANGED <<cacheVars, ideVars, dirty, data, want, buf>>

(* The disk finishes the active command, with or without success, and      *)
(* ideintr() runs.                                                         *)
ideintr(ok) ==
  LET b    == Head(idequeue)
      here == blockno[b]
  IN  /\ cmd # None /\ (ok \/ DISKERR)
      /\ idequeue' = Tail(idequeue)
      /\ disk' = IF ok /\ cmd # "read" THEN [disk EXCEPT ![here] = cmd]
                 ELSE disk
      /\ data' = IF ok /\ b \notin dirty THEN [data EXCEPT ![b] = disk[here]]
                 ELSE data
      /\ valid' = valid \cup {b}
      /\ dirty' = dirty \ {b}
      /\ pc' = wakeup(pc, b)
      /\ cmd' = IF idequeue' = <<>> THEN None ELSE idestart(Head(idequeue'))
      /\ UNCHANGED <<cacheVars, want, buf>>

-----------------------------------------------------------------------------
(* The caller changes b->data and calls bwrite().                          *)
bwrite(p, v) ==
  /\ pc[p] = "held"
  /\ data' = [data EXCEPT ![buf[p]] = v]
  /\ dirty' = dirty \cup {buf[p]}
  /\ pc' = [pc EXCEPT ![p] = IF buf[p] \in busy THEN "iderw" ELSE "panic"]
  /\ UNCHANGED <<cacheVars, ideVars, want, buf>>

(* The caller changes b->data and calls log_write(), which pins b until    *)
(* commit() has written it with bwrite().                                  *)
Pinned == dirty \ {buf[p] : p \in {q \in Procs : pc[q] \in InIderw}}

log_write(p, v) ==
  /\ pc[p] = "held" /\ Cardinality(Pinned \cup {buf[p]}) <= MAXPIN
  /\ data' = [data EXCEPT ![buf[p]] = v]
  /\ dirty' = dirty \cup {buf[p]}
  /\ UNCHANGED <<cacheVars, ideVars, pc, want, buf>>

(* brelse(): b moves to the front of the list, and sleepers are woken; the *)
(* form that follows would wake nobody.                                    *)
ToFront(b) ==
  [i \in 1..NBUF |-> IF i = 1 THEN b
                     ELSE IF \E j \in i..NBUF : mru[j] = b THEN mru[i - 1]
                     ELSE mru[i]]

Brelse(p, waiting) ==
  /\ pc[p] = "held"
  /\ IF buf[p] \notin busy
       THEN /\ pc' = [pc EXCEPT ![p] = "panic"]
            /\ UNCHANGED <<mru, busy, want, buf>>
       ELSE /\ mru' = ToFront(buf[p])
            /\ busy' = busy \ {buf[p]}
            /\ pc' = [waiting EXCEPT ![p] = "idle"]
            /\ want' = [want EXCEPT ![p] = None]
            /\ buf' = [buf EXCEPT ![p] = None]
  /\ UNCHANGED <<blockno, ideVars, dirty, data>>

brelse_quiet(p) == Brelse(p, pc)

brelse(p) == Brelse(p, wakeup(pc, buf[p]))

Step(p) ==
  \/ bget_cached(p) \/ bget_recycle(p) \/ bread(p)
  \/ iderw(p) \/ iderw_test(p)

Next ==
  \/ \E p \in Procs : Step(p) \/ brelse(p)
  \/ \E p \in Procs, k \in Blocks : call(p, k)
  \/ \E p \in Procs, v \in Vals : bwrite(p, v) \/ log_write(p, v)
  \/ \E ok \in BOOLEAN : ideintr(ok)

Spec == Init /\ [][Next]_vars

-----------------------------------------------------------------------------
Holding(p) == pc[p] \in {"bread", "held"} \cup InIderw

(* Types; the MRU list of bio.c holds every buffer exactly once, whatever  *)
(* brelse() did to it.                                                     *)
TypeOK ==
  /\ blockno \in [Bufs -> Blocks \cup {None}]
  /\ busy \subseteq Bufs /\ valid \subseteq Bufs /\ dirty \subseteq Bufs
  /\ data \in [Bufs -> Vals] /\ disk \in [Blocks -> Vals]
  /\ mru \in Lists
  /\ idequeue \in Seq(Bufs) /\ cmd \in Vals \cup {"read", None}
  /\ pc \in [Procs -> PCs]
  /\ want \in [Procs -> Blocks \cup {None}]
  /\ buf \in [Procs -> Bufs \cup {None}]

(* B_BUSY is a lock on the block: the holders in bread()..brelse() hold    *)
(* different buffers, each busy and of the block asked for, and bget()     *)
(* never gives a block a second buffer.                                    *)
HeldAlone ==
  /\ \A b, c \in Bufs : blockno[b] = blockno[c] /\ b # c => blockno[b] = None
  /\ \A p, q \in Procs : Holding(p) /\ Holding(q) /\ p # q => buf[p] # buf[q]
  /\ \A p \in Procs : Holding(p) => buf[p] \in busy /\ blockno[buf[p]] = want[p]
  /\ \A b \in busy : \E p \in Procs : Holding(p) /\ buf[p] = b

(* Nobody sleeps for an event that has already happened: the buffer that   *)
(* bget() waits for is in use, the buffer that iderw() waits for is in the *)
(* queue, once, and the disk works while the queue is not empty.           *)
NoLostWakeup ==
  /\ \A p \in Procs : pc[p] = "bget_sleep" => buf[p] \in busy
  /\ \A p \in Procs : pc[p] = "ide_sleep" =>
       Cardinality({i \in DOMAIN idequeue : idequeue[i] = buf[p]}) = 1
  /\ (cmd = None) <=> (idequeue = <<>>)

(* As long as the log leaves a buffer for every process, bget() finds one  *)
(* ("bget: no buffers"), and no caller trips the checks of iderw(),        *)
(* bwrite() and brelse().                                                  *)
NoPanic ==
  MAXPIN + Cardinality(Procs) <= Cardinality(Bufs)
    => \A p \in Procs : pc[p] # "panic"

(* The cache and the driver as a whole: buffers are held by one process,   *)
(* no wakeup is lost between the two uses of the channel b, and no check   *)
(* of bio.c and ide.c fails.                                               *)
CacheSound == TypeOK /\ HeldAlone /\ NoLostWakeup /\ NoPanic

-----------------------------------------------------------------------------
(* The block store: a block's contents are those of its buffer once valid. *)
InUse(p) == pc[p] = "held" \/ (pc[p] \in InIderw /\ buf[p] \in valid)
Contents ==
  [k \in Blocks |->
    IF Cached(k) \cap valid = {} THEN disk[k]
    ELSE data[CHOOSE b \in Cached(k) \cap valid : TRUE]]

User ==
  [k \in Blocks |->
    IF \E p \in Procs : InUse(p) /\ want[p] = k
      THEN CHOOSE p \in Procs : InUse(p) /\ want[p] = k ELSE None]
Seen == [p \in Procs |-> IF InUse(p) THEN data[buf[p]] ELSE None]

BS == INSTANCE BlockStore WITH contents <- Contents, user <- User, seen <- Seen

(* bread() "Return[s] a B_BUSY buf with the contents of the indicated      *)
(* block" (bio.c): whatever is cached, pinned, evicted and queued, the     *)
(* cache and the driver implement BlockStore.                              *)
Store == BS!Spec
=============================================================================
