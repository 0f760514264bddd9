-------------------------------- MODULE Log --------------------------------
(***************************************************************************)
(* The redo log of xv6 (COL331/HW1/xv6/log.c): group commit of the file    *)
(* system calls that run between begin_op() and end_op(), and recovery     *)
(* after a crash.                                                          *)
(*                                                                         *)
(* Disk addresses are counted from log.start: 0 is the header block (kept  *)
(* apart in `head'), 1..NLOG-1 are the log's data blocks and the home      *)
(* blocks of the file system follow, as mkfs.c lays them out, so a log     *)
(* that outgrows its region runs into the first home blocks.  A block      *)
(* write is atomic; everything else may be cut by a crash.                 *)
(***************************************************************************)
EXTENDS Integers, Sequences, FiniteSets

CONSTANTS
  Procs,       \* processes that issue file system calls
  Vals,        \* contents of a block
  LOGSIZE,     \* param.h: capacity of logheader.block[]
  MAXOPBLOCKS, \* param.h: blocks begin_op() reserves for an operation
  OPBLOCKS,    \* distinct blocks an operation really writes, at most
  NLOG,        \* sb.nlog: blocks of the log region, header included
  NHOME        \* number of home blocks

ASSUME LogConstants ==
  /\ LOGSIZE \in Nat /\ MAXOPBLOCKS \in Nat /\ OPBLOCKS \in Nat
  /\ MAXOPBLOCKS <= LOGSIZE
  /\ NLOG \in Nat \ {0} /\ NHOME \in Nat
  /\ IsFiniteSet(Procs)

VARIABLES
  disk,        \* contents of the disk blocks (log and home)
  head,        \* the header block on disk: the block numbers it lists
  cache,       \* contents of the buffer of each block
  dirty,       \* blocks whose buffer has B_DIRTY
  lh,          \* log.lh.block[0..n-1]
  outstanding, \* log.outstanding
  committing,  \* log.committing
  pc,          \* where each process is
  buf,         \* the block whose buffer a process holds, 0 if none
  wrote,       \* blocks written by a process's current operation
  tail,        \* loop index of write_log() and install_trans(), from 1
  boot         \* "up", or where recover_from_log() is

vars == <<disk, head, cache, dirty, lh, outstanding, committing, pc, buf,
          wrote, tail, boot>>

diskVars == <<disk, head>>
opVars   == <<pc, buf, wrote>>
logVars  == <<lh, outstanding, committing>>

Addrs == 1 .. (NLOG - 1 + NHOME)
Home  == NLOG .. (NLOG - 1 + NHOME)

InOpPC   == {"in_op", "log_write", "panic"}
CommitPC == {"write_log", "write_head", "install_trans", "clear_head",
             "committed"}
PCs      == {"begin_op", "sleep"} \cup InOpPC \cup CommitPC
BootPCs  == {"read_head", "install_trans", "clear_head", "up"}

InOp     == {p \in Procs : pc[p] \in InOpPC}
Listed(s) == {s[i] : i \in DOMAIN s}

Init ==
  /\ disk \in [Addrs -> Vals]
  /\ head = <<>>
  /\ cache = disk
  /\ dirty = {}
  /\ lh = <<>>
  /\ outstanding = 0
  /\ committing = FALSE
  /\ pc = [p \in Procs |-> "begin_op"]
  /\ buf = [p \in Procs |-> 0]
  /\ wrote = [p \in Procs |-> {}]
  /\ tail = 1
  /\ boot = "up"

-----------------------------------------------------------------------------
(* wakeup(&log): every process asleep in begin_op() tries again.           *)
Wakeup(f) == [p \in Procs |-> IF f[p] = "sleep" THEN "begin_op" ELSE f[p]]

(* Faulty variants of the test in begin_op(): without log.committing, and  *)
(* without the space of the operation that begins.                         *)
MustWaitSpaceOnly == Len(lh) + (outstanding + 1) * MAXOPBLOCKS > LOGSIZE
MustWaitOffByOne == committing \/ Len(lh) + outstanding * MAXOPBLOCKS > LOGSIZE

(* The conditions under which begin_op() sleeps.                           *)
MustWait == committing \/ Len(lh) + (outstanding + 1) * MAXOPBLOCKS > LOGSIZE

begin_op(p) ==
  /\ boot = "up" /\ pc[p] = "begin_op"
  /\ ~MustWait
  /\ outstanding' = outstanding + 1
  /\ pc' = [pc EXCEPT ![p] = "in_op"]
  /\ UNCHANGED <<diskVars, cache, dirty, lh, committing, buf, wrote, tail, boot>>

begin_op_sleep(p) ==
  /\ boot = "up" /\ pc[p] = "begin_op"
  /\ MustWait
  /\ pc' = [pc EXCEPT ![p] = "sleep"]
  /\ UNCHANGED <<diskVars, cache, dirty, logVars, buf, wrote, tail, boot>>

(* bread(), modify b->data, and the tests at the head of log_write(),      *)
(* which read log.lh.n and log.outstanding without log.lock.  B_BUSY keeps *)
(* other processes off the buffer until the brelse() after log_write().    *)
TooBig == Len(lh) >= LOGSIZE \/ Len(lh) >= NLOG - 1

modify(p, b, v) ==
  /\ boot = "up" /\ pc[p] = "in_op"
  /\ \A q \in Procs : buf[q] # b
  /\ Cardinality(wrote[p] \cup {b}) <= OPBLOCKS
  /\ cache' = [cache EXCEPT ![b] = v]
  /\ buf' = [buf EXCEPT ![p] = b]
  /\ wrote' = [wrote EXCEPT ![p] = @ \cup {b}]
  /\ pc' = [pc EXCEPT ![p] =
              IF TooBig \/ outstanding < 1 THEN "panic" ELSE "log_write"]
  /\ UNCHANGED <<diskVars, dirty, logVars, tail, boot>>

(* Faulty variant: the buffer is not pinned with B_DIRTY.                  *)
log_write_unpinned(p) ==
  /\ boot = "up" /\ pc[p] = "log_write"
  /\ lh' = IF buf[p] \in Listed(lh) THEN lh ELSE Append(lh, buf[p])
  /\ buf' = [buf EXCEPT ![p] = 0]
  /\ pc' = [pc EXCEPT ![p] = "in_op"]
  /\ UNCHANGED <<diskVars, cache, dirty, outstanding, committing, wrote, tail,
                 boot>>

(* The part of log_write() under log.lock, and brelse().                   *)
log_write(p) ==
  /\ boot = "up" /\ pc[p] = "log_write"
  /\ lh' = IF buf[p] \in Listed(lh) THEN lh ELSE Append(lh, buf[p])
  /\ dirty' = dirty \cup {buf[p]}
  /\ buf' = [buf EXCEPT ![p] = 0]
  /\ pc' = [pc EXCEPT ![p] = "in_op"]
  /\ UNCHANGED <<diskVars, cache, outstanding, committing, wrote, tail, boot>>

(* end_op() up to the first release(): the last operation out commits, any *)
(* other one wakes the processes waiting for log space.                    *)
end_op(p) ==
  /\ boot = "up" /\ pc[p] = "in_op"
  /\ outstanding' = outstanding - 1
  /\ IF committing
       THEN /\ pc' = [pc EXCEPT ![p] = "panic"]
            /\ UNCHANGED committing
       ELSE IF outstanding = 1
         THEN /\ committing' = TRUE
              /\ pc' = [pc EXCEPT ![p] =
                          IF lh = <<>> THEN "committed" ELSE "write_log"]
         ELSE /\ pc' = Wakeup([pc EXCEPT ![p] = "begin_op"])
              /\ UNCHANGED committing
  /\ wrote' = [wrote EXCEPT ![p] = {}]
  /\ tail' = 1
  /\ UNCHANGED <<diskVars, cache, dirty, lh, buf, boot>>

-----------------------------------------------------------------------------
(* bread(): a pinned buffer is returned as it is; any other may have been  *)
(* recycled by bget() and read again from the disk.                        *)
Bread(b) == IF b \in dirty THEN {cache[b]} ELSE {cache[b], disk[b]}

(* memmove() into the buffer of `to' and bwrite(), which clears B_DIRTY.   *)
CopyBlock(from, to) ==
  \E v \in Bread(from) :
    /\ cache' = [cache EXCEPT ![to] = v, ![from] = v]
    /\ disk' = [disk EXCEPT ![to] = v]
    /\ dirty' = dirty \ {to}

(* write_log(): one cached block to the log per step.                      *)
write_log(p) ==
  /\ boot = "up" /\ pc[p] = "write_log"
  /\ CopyBlock(lh[tail], tail)
  /\ tail' = tail + 1
  /\ pc' = [pc EXCEPT ![p] = IF tail = Len(lh) THEN "write_head" ELSE @]
  /\ UNCHANGED <<head, logVars, buf, wrote, boot>>

(* write_head() from commit(): the commit point.                           *)
write_head(p) ==
  /\ boot = "up" /\ pc[p] = "write_head"
  /\ head' = lh
  /\ tail' = 1
  /\ pc' = [pc EXCEPT ![p] = "install_trans"]
  /\ UNCHANGED <<disk, cache, dirty, logVars, buf, wrote, boot>>

(* Faulty variant: the loop index is not advanced.                         *)
InstallBlockStuck == CopyBlock(tail, lh[tail]) /\ tail' = tail

(* One iteration of install_trans(): one log block to its home.            *)
InstallBlock == CopyBlock(tail, lh[tail]) /\ tail' = tail + 1

install_trans(p) ==
  /\ boot = "up" /\ pc[p] = "install_trans"
  /\ InstallBlock
  /\ pc' = [pc EXCEPT ![p] = IF tail = Len(lh) THEN "clear_head" ELSE @]
  /\ UNCHANGED <<head, logVars, buf, wrote, boot>>

(* Faulty variant: the header is cleared in memory only.                   *)
clear_head_in_memory(p) ==
  /\ boot = "up" /\ pc[p] = "clear_head"
  /\ lh' = <<>>
  /\ pc' = [pc EXCEPT ![p] = "committed"]
  /\ UNCHANGED <<diskVars, cache, dirty, outstanding, committing, buf, wrote,
                 tail, boot>>

(* log.lh.n = 0; write_head().                                             *)
clear_head(p) ==
  /\ boot = "up" /\ pc[p] = "clear_head"
  /\ lh' = <<>>
  /\ head' = <<>>
  /\ pc' = [pc EXCEPT ![p] = "committed"]
  /\ UNCHANGED <<disk, cache, dirty, outstanding, committing, buf, wrote,
                 tail, boot>>

(* Faulty variant: the end of a commit wakes nobody.                       *)
end_commit_silent(p) ==
  /\ boot = "up" /\ pc[p] = "committed"
  /\ committing' = FALSE
  /\ pc' = [pc EXCEPT ![p] = "begin_op"]
  /\ UNCHANGED <<diskVars, cache, dirty, lh, outstanding, buf, wrote, tail,
                 boot>>

(* The second critical section of end_op().                                *)
end_commit(p) ==
  /\ boot = "up" /\ pc[p] = "committed"
  /\ committing' = FALSE
  /\ pc' = Wakeup([pc EXCEPT ![p] = "begin_op"])
  /\ UNCHANGED <<diskVars, cache, dirty, lh, outstanding, buf, wrote, tail,
                 boot>>

-----------------------------------------------------------------------------
(* A crash, at any point, recovery included, keeps the disk only; the next *)
(* boot finds the kernel's memory zeroed and calls initlog().              *)
Crash ==
  /\ cache' = disk
  /\ dirty' = {}
  /\ lh' = <<>>
  /\ outstanding' = 0
  /\ committing' = FALSE
  /\ pc' = [p \in Procs |-> "begin_op"]
  /\ buf' = [p \in Procs |-> 0]
  /\ wrote' = [p \in Procs |-> {}]
  /\ tail' = 1
  /\ boot' = "read_head"
  /\ UNCHANGED diskVars

(* recover_from_log(): read_head(), install_trans(), clear the header.     *)
recover_read_head ==
  /\ boot = "read_head"
  /\ lh' = head
  /\ tail' = 1
  /\ boot' = IF head = <<>> THEN "clear_head" ELSE "install_trans"
  /\ UNCHANGED <<diskVars, cache, dirty, outstanding, committing, opVars>>

recover_install ==
  /\ boot = "install_trans"
  /\ InstallBlock
  /\ boot' = IF tail = Len(lh) THEN "clear_head" ELSE boot
  /\ UNCHANGED <<head, logVars, opVars>>

recover_clear_head ==
  /\ boot = "clear_head"
  /\ lh' = <<>>
  /\ head' = <<>>
  /\ boot' = "up"
  /\ UNCHANGED <<disk, cache, dirty, outstanding, committing, opVars, tail>>

-----------------------------------------------------------------------------
Operation(p) ==
  \/ begin_op(p)
  \/ begin_op_sleep(p)
  \/ \E b \in Home, v \in Vals : modify(p, b, v)
  \/ log_write(p)
  \/ end_op(p)

Commit(p) ==
  \/ write_log(p)
  \/ write_head(p)
  \/ install_trans(p)
  \/ clear_head(p)
  \/ end_commit(p)

Recover == recover_read_head \/ recover_install \/ recover_clear_head

Next == (\E p \in Procs : Operation(p) \/ Commit(p)) \/ Crash \/ Recover

Spec == Init /\ [][Next]_vars

(* Every process is scheduled again and again, an operation makes finitely *)
(* many log_write() calls before its end_op(), and the boot code runs.     *)
Fairness ==
  /\ \A p \in Procs :
       /\ WF_vars(log_write(p))
       /\ SF_vars(end_op(p))
       /\ WF_vars(Commit(p))
  /\ WF_vars(Recover)

FairSpec == Spec /\ Fairness
-----------------------------------------------------------------------------
(* Properties.                                                             *)

(* What recovery would make of a disk d with header h: the log's blocks    *)
(* over the home blocks the header lists.                                  *)
Replay(h, d) ==
  [b \in Home |-> IF b \in Listed(h)
                    THEN d[CHOOSE i \in DOMAIN h : h[i] = b]
                    ELSE d[b]]

Durable == Replay(head, disk)

View == IF boot = "up" THEN [b \in Home |-> cache[b]] ELSE Durable

Abstract == INSTANCE AtomicDisk
              WITH Blocks <- Home, durable <- Durable, view <- View,
                   active <- InOp

(* log.c implements the atomic disk: whatever the interleaving of          *)
(* operations, commit steps, crashes and repeated recoveries, the file     *)
(* system a crash leaves behind changes only at write_head() in commit(),  *)
(* to exactly the updates of all the operations that have ended.           *)
Atomic == Abstract!Spec

(* commit() runs only while no file system call is active, so it never     *)
(* writes a part of a call's updates (log.c, opening comment; the panic in *)
(* end_op()), and at most one process commits.                             *)
CommitAlone ==
  committing =>
    /\ InOp = {}
    /\ \A p, q \in Procs : pc[p] \in CommitPC /\ pc[q] \in CommitPC => p = q

(* When no call is active and no commit runs, all that calls wrote is      *)
(* durable and the log is empty: end_op() of the last call returns only    *)
(* after its commit.                                                       *)
QuiescentDurable ==
  (boot = "up" /\ outstanding = 0 /\ ~committing) =>
    /\ Durable = View
    /\ lh = <<>> /\ head = <<>> /\ dirty = {}

(* A process asleep in begin_op() still has a reason to sleep, and an      *)
(* operation or a commit is under way that will wake it: neither end_op()  *)
(* nor the end of a commit loses a wakeup.                                 *)
NoLostWakeup ==
  (\E p \in Procs : pc[p] = "sleep") =>
    MustWait /\ (committing \/ outstanding > 0)

(* The locking of log.c: a commit is alone, and no sleeper is forgotten.   *)
LogControl == CommitAlone /\ NoLostWakeup

(* The reservation of begin_op(): blocks in the log plus what the active   *)
(* operations may still add (MAXOPBLOCKS each, less the blocks they have   *)
(* logged) never exceed log.lh.block[LOGSIZE], provided no operation       *)
(* writes more than MAXOPBLOCKS blocks.                                    *)
Logged == {pb \in InOp \X Home : pb[2] \in wrote[pb[1]] \cap Listed(lh)}
ReservationHolds ==
  Len(lh) + MAXOPBLOCKS * Cardinality(InOp) - Cardinality(Logged) <= LOGSIZE

(* The assertion of log_write(): the log never outgrows its region on the  *)
(* disk, whose block 0 is the header.                                      *)
LogInRegion == Len(lh) <= NLOG - 1

(* Every process asleep in begin_op() is woken.                            *)
SleeperWakes == \A p \in Procs : pc[p] = "sleep" ~> pc[p] # "sleep"

(* If crashes stop, a recovery that was interrupted any number of times    *)
(* finishes: the system ends up running for good.                          *)
RecoveryEnds == <>[][~Crash]_vars => <>[](boot = "up")

=============================================================================
