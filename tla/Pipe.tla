------------------------------- MODULE Pipe --------------------------------
(***************************************************************************)
(* One pipe of xv6 (COL331/HW1/xv6/pipe.c) from pipealloc() to the kfree() *)
(* in pipeclose(), used by several processes on each side.  p->lock is     *)
(* explicit and a process that holds it takes one step per byte, because   *)
(* kill() sets p->killed under ptable.lock only and so can come between    *)
(* the test of proc->killed and the sleep().                               *)
(***************************************************************************)
EXTENDS Naturals, Sequences

CONSTANTS
  Readers, Writers, \* processes that hold a file for one end of the pipe
  Bytes,
  PIPESIZE,
  UINT,             \* the counters are of type uint: they wrap at UINT
  Killable,         \* processes that kill() may hit
  MAXN              \* bound on the n of a read or write call

Procs == Readers \cup Writers
None == "none"

ASSUME PipeConstants ==
  /\ PIPESIZE \in Nat \ {0} /\ UINT \in Nat /\ MAXN \in Nat
  /\ UINT % PIPESIZE = 0 /\ UINT > PIPESIZE
  /\ Readers # {} /\ Writers # {} /\ Readers \cap Writers = {}
  /\ None \notin Procs

VARIABLES
  data, nread, nwrite, readopen, writeopen, \* struct pipe
  lock,    \* p->lock: its holder, or None
  freed,   \* kfree() has been called on the pipe
  hasfile, \* processes whose file for the pipe is still open
  pc, n, i, \* where a process is; its arguments n and loop index i
  killed,  \* proc->killed
  eof      \* some read has returned 0

pipeVars == <<data, nread, nwrite, readopen, writeopen>>
vars == <<pipeVars, lock, freed, hasfile, pc, n, i, killed, eof>>

PCs == {"user", "pipewrite", "w_loop", "w_sleep", "w_asleep",
        "piperead", "r_test", "r_sleep", "r_asleep", "r_copy"}

Init ==
  /\ data \in [0 .. PIPESIZE - 1 -> Bytes]
  /\ nread = 0 /\ nwrite = 0
  /\ readopen = TRUE /\ writeopen = TRUE
  /\ lock = None
  /\ freed = FALSE
  /\ hasfile = Procs
  /\ pc = [p \in Procs |-> "user"]
  /\ n = [p \in Procs |-> 0] /\ i = [p \in Procs |-> 0]
  /\ killed = [p \in Procs |-> FALSE]
  /\ eof = FALSE

Full  == nwrite = (nread + PIPESIZE) % UINT
Empty == nread = nwrite

-----------------------------------------------------------------------------
(* A woken process returns from sleep() by acquiring p->lock again; it     *)
(* then tests the loop condition it slept on.                              *)
WakeReaders(f) ==
  [p \in Procs |-> IF f[p] = "r_asleep" THEN "piperead" ELSE f[p]]
WakeWriters(f) ==
  [p \in Procs |-> IF f[p] = "w_asleep" THEN "pipewrite" ELSE f[p]]

(* release(&p->lock) and return to user space; n and i end their life.     *)
Return(p, f) ==
  /\ pc' = [f EXCEPT ![p] = "user"]
  /\ lock' = None
  /\ n' = [n EXCEPT ![p] = 0]
  /\ i' = [i EXCEPT ![p] = 0]

(* A system call on the pipe; trap() makes a killed process exit instead.  *)
Call(p, entry, k) ==
  /\ pc[p] = "user" /\ p \in hasfile /\ ~killed[p]
  /\ pc' = [pc EXCEPT ![p] = entry]
  /\ n' = [n EXCEPT ![p] = k]
  /\ UNCHANGED <<pipeVars, lock, freed, hasfile, i, killed, eof>>

(* Faulty variant: `if' in place of `while' before the copy.               *)
Acquire_if(p) ==
  /\ pc[p] \in {"pipewrite", "piperead"} /\ lock = None
  /\ lock' = p
  /\ pc' = [pc EXCEPT ![p] = IF @ = "pipewrite" THEN "w_loop" ELSE "r_copy"]
  /\ UNCHANGED <<pipeVars, freed, hasfile, n, i, killed, eof>>

(* acquire(&p->lock), on entry and at the end of sleep().                  *)
Acquire(p) ==
  /\ pc[p] \in {"pipewrite", "piperead"} /\ lock = None
  /\ lock' = p
  /\ pc' = [pc EXCEPT ![p] = IF @ = "pipewrite" THEN "w_loop" ELSE "r_test"]
  /\ UNCHANGED <<pipeVars, freed, hasfile, n, i, killed, eof>>

(* pipewrite(): one turn of the for loop with room in the buffer.          *)
pipewrite_byte(p, b) ==
  /\ pc[p] = "w_loop" /\ i[p] < n[p] /\ ~Full
  /\ data' = [data EXCEPT ![nwrite % PIPESIZE] = b]
  /\ nwrite' = (nwrite + 1) % UINT
  /\ i' = [i EXCEPT ![p] = @ + 1]
  /\ UNCHANGED <<nread, readopen, writeopen, lock, freed, hasfile, pc, n,
                 killed, eof>>

(* Faulty variant: the early return keeps the lock.                        *)
pipewrite_full_held(p) ==
  /\ pc[p] = "w_loop" /\ i[p] < n[p] /\ Full
  /\ pc' = IF ~readopen \/ killed[p] THEN [pc EXCEPT ![p] = "user"]
                                    ELSE WakeReaders([pc EXCEPT ![p] = "w_sleep"])
  /\ UNCHANGED <<pipeVars, lock, n, i, freed, hasfile, killed, eof>>

(* The while loop of pipewrite(), up to the call of sleep().               *)
pipewrite_full(p) ==
  /\ pc[p] = "w_loop" /\ i[p] < n[p] /\ Full
  /\ IF ~readopen \/ killed[p]
       THEN Return(p, pc)
       ELSE /\ pc' = WakeReaders([pc EXCEPT ![p] = "w_sleep"])
            /\ UNCHANGED <<lock, n, i>>
  /\ UNCHANGED <<pipeVars, freed, hasfile, killed, eof>>

pipewrite_done(p) ==
  /\ pc[p] = "w_loop" /\ i[p] = n[p]
  /\ Return(p, WakeReaders(pc))
  /\ UNCHANGED <<pipeVars, freed, hasfile, killed, eof>>

(* piperead(): the while loop, up to the call of sleep() or to the copy.   *)
piperead_test(p) ==
  /\ pc[p] = "r_test"
  /\ IF Empty /\ writeopen /\ killed[p]
       THEN Return(p, pc)
       ELSE /\ pc' = [pc EXCEPT ![p] =
                        IF Empty /\ writeopen THEN "r_sleep" ELSE "r_copy"]
            /\ UNCHANGED <<lock, n, i>>
  /\ UNCHANGED <<pipeVars, freed, hasfile, killed, eof>>

piperead_byte(p) ==
  /\ pc[p] = "r_copy" /\ i[p] < n[p] /\ ~Empty
  /\ nread' = (nread + 1) % UINT
  /\ i' = [i EXCEPT ![p] = @ + 1]
  /\ UNCHANGED <<data, nwrite, readopen, writeopen, lock, freed, hasfile, pc,
                 n, killed, eof>>

piperead_done(p) ==
  /\ pc[p] = "r_copy" /\ (i[p] = n[p] \/ Empty)
  /\ Return(p, WakeWriters(pc))
  /\ eof' = (eof \/ (i[p] = 0 /\ n[p] > 0))
  /\ UNCHANGED <<pipeVars, freed, hasfile, killed>>

(* sleep(chan, &p->lock).                                                  *)
Sleep(p) ==
  /\ pc[p] \in {"w_sleep", "r_sleep"}
  /\ pc' = [pc EXCEPT ![p] = IF @ = "w_sleep" THEN "w_asleep" ELSE "r_asleep"]
  /\ lock' = None
  /\ UNCHANGED <<pipeVars, freed, hasfile, n, i, killed, eof>>

(* Faulty variant: the pipe is freed when either end is closed.            *)
pipeclose_either(p) ==
  /\ pc[p] = "user" /\ p \in hasfile /\ lock = None
  /\ hasfile' = hasfile \ {p}
  /\ readopen' = (hasfile' \cap Readers # {})
  /\ writeopen' = (hasfile' \cap Writers # {})
  /\ pc' = WakeReaders(WakeWriters(pc))
  /\ freed' = (~readopen' \/ ~writeopen')
  /\ UNCHANGED <<data, nread, nwrite, lock, n, i, killed, eof>>

(* fileclose(): the last close of an end is pipeclose(), whose two halves  *)
(* wake the other side, and the second one of which frees the pipe.        *)
fileclose(p) ==
  /\ pc[p] = "user" /\ p \in hasfile
  /\ hasfile' = hasfile \ {p}
  /\ IF \E q \in hasfile \ {p} : q \in Writers <=> p \in Writers
       THEN UNCHANGED <<readopen, writeopen, pc, freed>>
       ELSE /\ lock = None
            /\ IF p \in Writers
                 THEN /\ writeopen' = FALSE /\ UNCHANGED readopen
                      /\ pc' = WakeReaders(pc)
                 ELSE /\ readopen' = FALSE /\ UNCHANGED writeopen
                      /\ pc' = WakeWriters(pc)
            /\ freed' = (~readopen' /\ ~writeopen')
  /\ UNCHANGED <<data, nread, nwrite, lock, n, i, killed, eof>>

(* kill(): takes ptable.lock, not p->lock.                                 *)
kill(p) ==
  /\ p \in Killable /\ ~killed[p]
  /\ killed' = [killed EXCEPT ![p] = TRUE]
  /\ pc' = [pc EXCEPT ![p] = IF @ = "r_asleep" THEN "piperead"
                             ELSE IF @ = "w_asleep" THEN "pipewrite" ELSE @]
  /\ UNCHANGED <<pipeVars, lock, freed, hasfile, n, i, eof>>

InCall(p) ==
  \/ Acquire(p)
  \/ \E b \in Bytes : pipewrite_byte(p, b)
  \/ pipewrite_full(p)
  \/ pipewrite_done(p)
  \/ piperead_test(p)
  \/ piperead_byte(p)
  \/ piperead_done(p)
  \/ Sleep(p)

Next ==
  \/ \E p \in Writers, k \in 0 .. MAXN : Call(p, "pipewrite", k)
  \/ \E p \in Readers, k \in 0 .. MAXN : Call(p, "piperead", k)
  \/ \E p \in Procs : InCall(p) \/ fileclose(p) \/ kill(p)

Spec == Init /\ [][Next]_vars

(* A process in the kernel is scheduled again and again, and no process    *)
(* keeps the pipe open for ever.                                           *)
Fairness == \A p \in Procs : WF_vars(InCall(p)) /\ SF_vars(fileclose(p))

FairSpec == Spec /\ Fairness
-----------------------------------------------------------------------------
(* Properties.                                                             *)

(* The bytes in the buffer; the counters wrap.                             *)
Count == (nwrite + UINT - nread) % UINT
Contents == [k \in 1 .. Count |-> data[(nread + k - 1) % PIPESIZE]]

Abstract == INSTANCE Channel
              WITH Capacity <- PIPESIZE, queue <- Contents,
                   sending <- writeopen

(* pipe.c implements a bounded first-in first-out channel: no byte is      *)
(* lost, repeated or reordered when the counters wrap, writers interleave  *)
(* or ends close, and a read returns 0 only at the end of the stream.      *)
Fifo == Abstract!Spec

(* When nobody holds p->lock, a writer asleep has no room and a reader to  *)
(* wait for, and a reader asleep has nothing to read and a writer to wait  *)
(* for.  There is one exception: a writer killed while the buffer was full *)
(* returns -1 from pipewrite() without the wakeup(&p->nread).              *)
NoLostWakeup ==
  lock = None =>
    \A p \in Procs :
      /\ pc[p] = "w_asleep" => Full /\ readopen
      /\ pc[p] = "r_asleep" =>
           writeopen /\ (Empty \/ \E q \in Writers : killed[q])

(* The last pipeclose() frees the pipe only when no process is in a call   *)
(* on it and none can make one.                                            *)
FreedUnused ==
  freed => hasfile = {} /\ \A p \in Procs : pc[p] = "user"

(* An end is closed exactly when no process has a file for it: a close in  *)
(* one process never ends the stream under another.                        *)
EndsFollowFiles ==
  /\ readopen <=> hasfile \cap Readers # {}
  /\ writeopen <=> hasfile \cap Writers # {}

(* The synchronisation of pipe.c: sleepers, the life of the pipe, its ends.*)
PipeSound == NoLostWakeup /\ FreedUnused /\ EndsFollowFiles

(* Every read and write returns if no process keeps its end open for ever. *)
CallsReturn == \A p \in Procs : pc[p] # "user" ~> pc[p] = "user"

=============================================================================
