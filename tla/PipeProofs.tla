----------------------------- MODULE PipeProofs ----------------------------
(***************************************************************************)
(* Proofs about the synchronisation of pipe.c, for any number of readers   *)
(* and writers and any buffer size: no wakeup is missing, an end is closed *)
(* exactly when its last file is, and the pipe is freed only when unused;  *)
(* and pipe.c implements the bounded channel, while its counters wrap.     *)
(***************************************************************************)
EXTENDS Pipe, Rings, TLAPS

WriterPC == {"user", "pipewrite", "w_loop", "w_sleep", "w_asleep"}
ReaderPC == {"user", "piperead", "r_test", "r_sleep", "r_asleep", "r_copy"}
HoldPC   == {"w_loop", "w_sleep", "r_test", "r_sleep", "r_copy"}

SyncTypes ==
  /\ lock \in Procs \cup {None}
  /\ pc \in [Procs -> PCs]
  /\ hasfile \subseteq Procs
  /\ readopen \in BOOLEAN /\ writeopen \in BOOLEAN /\ freed \in BOOLEAN
  /\ killed \in [Procs -> BOOLEAN]
  /\ \A p \in Writers : pc[p] \in WriterPC
  /\ \A p \in Readers : pc[p] \in ReaderPC

(* p->lock is held exactly in the critical sections.                       *)
Holder == \A p \in Procs : pc[p] \in HoldPC <=> lock = p

(* A process in a call has its file open.                                  *)
CallsHoldFile == \A p \in Procs : pc[p] # "user" => p \in hasfile

(* A process about to sleep has tested its condition under p->lock.        *)
AboutToSleep ==
  \A p \in Procs : /\ pc[p] = "w_sleep" => Full /\ readopen
                   /\ pc[p] = "r_sleep" => Empty /\ writeopen

(* A process asleep has its condition, or someone in the critical section  *)
(* will wake it.                                                           *)
Asleep ==
  \A p \in Procs :
    /\ pc[p] = "w_asleep" =>
         readopen /\ (Full \/ \E q \in Procs : pc[q] = "r_copy")
    /\ pc[p] = "r_asleep" =>
         writeopen /\ \/ Empty
                      \/ \E q \in Writers : killed[q]
                      \/ \E q \in Procs : pc[q] = "w_loop"

Freed == freed <=> ~readopen /\ ~writeopen

SyncInv ==
  /\ SyncTypes /\ Holder /\ CallsHoldFile /\ AboutToSleep /\ Asleep
  /\ EndsFollowFiles /\ Freed

(* The invariant gives the three properties of the pipe.                   *)
LEMMA SyncGives ==
  ASSUME SyncInv
  PROVE  NoLostWakeup /\ FreedUnused /\ EndsFollowFiles
<1>. USE DEF SyncInv
<1>1. NoLostWakeup
  <2>1. SUFFICES ASSUME lock = None PROVE NoLostWakeup
    BY Zenon DEF NoLostWakeup
  <2>2. \A q \in Procs : pc[q] \notin HoldPC
    BY <2>1, PipeConstants, Zenon DEF Holder, PipeConstants
  <2>. QED
    BY <2>2, Zenon DEF NoLostWakeup, Asleep, HoldPC
<1>2. FreedUnused
  BY Zenon DEF FreedUnused, Freed, EndsFollowFiles, SyncTypes, Procs, CallsHoldFile
<1>. QED
  BY <1>1, <1>2, Zenon

(* The invariant holds when pipealloc() returns.                           *)
LEMMA SyncInit ==
  ASSUME Init
  PROVE  SyncInv
<1>. USE DEF Init
<1>1. SyncTypes
  BY Zenon DEF SyncTypes, PCs, WriterPC, ReaderPC, Procs
<1>2. Holder
  BY PipeConstants, Zenon DEF Holder, HoldPC, PipeConstants
<1>3. CallsHoldFile /\ AboutToSleep /\ Asleep /\ Freed
  BY Zenon DEF CallsHoldFile, AboutToSleep, Asleep, Freed
<1>4. EndsFollowFiles
  BY PipeConstants, Zenon DEF EndsFollowFiles, PipeConstants, Procs
<1>. QED
  BY <1>1, <1>2, <1>3, <1>4, Zenon DEF SyncInv

(* The steps of pipewrite() preserve the invariant.                        *)
LEMMA SyncWrite ==
  ASSUME SyncInv, NEW p \in Procs,
         \/ \E b \in Bytes : pipewrite_byte(p, b)
         \/ pipewrite_full(p)
         \/ pipewrite_done(p)
  PROVE  SyncInv'
<1>. USE DEF SyncInv
<1>1. /\ lock = p /\ pc[p] = "w_loop" /\ p \in Writers
      /\ \A q \in Procs : pc[q] \in HoldPC => q = p
  BY Zenon DEF pipewrite_byte, pipewrite_full, pipewrite_done, Holder, HoldPC, SyncTypes, ReaderPC, Procs
<1>2. CASE \E b \in Bytes : pipewrite_byte(p, b)
  <2>1. UNCHANGED <<lock, pc, hasfile, readopen, writeopen, freed, killed>>
    BY <1>2, Zenon DEF pipewrite_byte
  <2>2. ~Full
    BY <1>2, Zenon DEF pipewrite_byte
  <2>3. SyncTypes' /\ Holder' /\ CallsHoldFile' /\ EndsFollowFiles' /\ Freed'
    BY <2>1, Zenon DEF SyncTypes, Holder, CallsHoldFile, EndsFollowFiles, Freed
  <2>4. AboutToSleep'
    BY <1>1, <2>1, Zenon DEF AboutToSleep, HoldPC
  <2>5. Asleep'
    BY <1>1, <2>1, <2>2, Zenon DEF Asleep, HoldPC
  <2>. QED
    BY <2>3, <2>4, <2>5, Zenon
<1>3. CASE pipewrite_full(p) /\ (~readopen \/ killed[p])
  <2>1. /\ pc' = [pc EXCEPT ![p] = "user"] /\ lock' = None
        /\ UNCHANGED <<pipeVars, freed, hasfile, killed>>
    BY <1>3, Zenon DEF pipewrite_full, Return
  <2>2. SyncTypes'
    BY <2>1 DEF SyncTypes, PCs, WriterPC, ReaderPC, pipeVars
  <2>3. Holder'
    BY <1>1, <2>1, PipeConstants, Zenon DEF Holder, HoldPC, PipeConstants, SyncTypes
  <2>4. CallsHoldFile' /\ EndsFollowFiles' /\ Freed'
    BY <2>1, Zenon DEF CallsHoldFile, EndsFollowFiles, Freed, pipeVars, SyncTypes
  <2>5. AboutToSleep'
    BY <2>1, Zenon DEF AboutToSleep, Full, Empty, pipeVars, SyncTypes
  <2>6. \/ \E q \in Writers : killed[q]
        \/ \A q \in Procs : pc[q] # "r_asleep"
    BY <1>1, <1>3, Zenon DEF EndsFollowFiles, CallsHoldFile, SyncTypes, WriterPC, Procs
  <2>7. Asleep'
    <3>1. \A q \in Procs : pc[q] # "r_copy"
      BY <1>1, Zenon DEF HoldPC
    <3>2. \A q \in Procs : pc'[q] = "w_asleep" => pc[q] = "w_asleep"
      BY <2>1, Zenon DEF SyncTypes
    <3>3. \A q \in Procs : pc'[q] = "r_asleep" => pc[q] = "r_asleep"
      BY <2>1, Zenon DEF SyncTypes
    <3>4. Full' = Full /\ Empty' = Empty
      BY <2>1, Zenon DEF Full, Empty, pipeVars
    <3>. QED
      BY <2>1, <2>6, <3>1, <3>2, <3>3, <3>4, Zenon DEF Asleep, pipeVars
  <2>. QED
    BY <2>2, <2>3, <2>4, <2>5, <2>7, Zenon
<1>4. CASE pipewrite_full(p) /\ readopen /\ ~killed[p]
  <2>1. /\ pc' = WakeReaders([pc EXCEPT ![p] = "w_sleep"]) /\ Full
        /\ UNCHANGED <<pipeVars, lock, freed, hasfile, killed>>
    BY <1>4, Zenon DEF pipewrite_full
  <2>2. SyncTypes'
    BY <1>1, <2>1, PipeConstants, Zenon DEF SyncTypes, PCs, WriterPC, ReaderPC, pipeVars, WakeReaders,
       PipeConstants, Procs
  <2>3. Holder'
    BY <1>1, <2>1, Zenon DEF Holder, HoldPC, SyncTypes, WakeReaders
  <2>4. CallsHoldFile' /\ EndsFollowFiles' /\ Freed'
    BY <1>1, <2>1, Zenon DEF CallsHoldFile, EndsFollowFiles, Freed, pipeVars, SyncTypes, WakeReaders
  <2>5. AboutToSleep'
    BY <1>1, <1>4, <2>1, Zenon DEF AboutToSleep, HoldPC, Full, Empty, pipeVars, SyncTypes, WakeReaders
  <2>6. Asleep'
    <3>1. \A q \in Procs : pc'[q] # "r_asleep"
      BY <2>1, Zenon DEF WakeReaders, SyncTypes
    <3>2. Full' /\ readopen'
      BY <1>4, <2>1, Zenon DEF Full, pipeVars
    <3>. QED
      BY <3>1, <3>2, Zenon DEF Asleep
  <2>. QED
    BY <2>2, <2>3, <2>4, <2>5, <2>6, Zenon
<1>5. CASE pipewrite_done(p)
  <2>1. /\ pc' = [WakeReaders(pc) EXCEPT ![p] = "user"] /\ lock' = None
        /\ UNCHANGED <<pipeVars, freed, hasfile, killed>>
    BY <1>5, Zenon DEF pipewrite_done, Return
  <2>2. SyncTypes'
    BY <1>1, <2>1, PipeConstants, Zenon DEF SyncTypes, PCs, WriterPC, ReaderPC, pipeVars, WakeReaders,
       PipeConstants, Procs
  <2>3. Holder'
    BY <1>1, <2>1, PipeConstants, Zenon DEF Holder, HoldPC, PipeConstants, SyncTypes, WakeReaders
  <2>4. CallsHoldFile' /\ EndsFollowFiles' /\ Freed'
    BY <2>1, Zenon DEF CallsHoldFile, EndsFollowFiles, Freed, pipeVars, SyncTypes, WakeReaders
  <2>5. AboutToSleep'
    BY <1>1, <2>1, Zenon DEF AboutToSleep, HoldPC, SyncTypes, WakeReaders
  <2>6. Asleep'
    <3>1. \A q \in Procs : pc'[q] # "r_asleep"
      BY <2>1, Zenon DEF WakeReaders, SyncTypes
    <3>2. \A q \in Procs : pc'[q] = "w_asleep" => pc[q] = "w_asleep"
      BY <2>1, Zenon DEF WakeReaders, SyncTypes
    <3>3. \A q \in Procs : pc[q] # "r_copy"
      BY <1>1, Zenon DEF HoldPC
    <3>4. Full' = Full /\ readopen' = readopen
      BY <2>1, Zenon DEF Full, pipeVars
    <3>. QED
      BY <3>1, <3>2, <3>3, <3>4, Zenon DEF Asleep
  <2>. QED
    BY <2>2, <2>3, <2>4, <2>5, <2>6, Zenon
<1>. QED
  BY <1>2, <1>3, <1>4, <1>5, Zenon DEF pipewrite_full

(* The steps of piperead() preserve the invariant.                         *)
LEMMA SyncRead ==
  ASSUME SyncInv, NEW p \in Procs,
         piperead_test(p) \/ piperead_byte(p) \/ piperead_done(p)
  PROVE  SyncInv'
<1>. USE DEF SyncInv
<1>1. /\ lock = p /\ pc[p] \in {"r_test", "r_copy"} /\ p \in Readers
      /\ \A q \in Procs : pc[q] \in HoldPC => q = p
  BY Zenon DEF piperead_test, piperead_byte, piperead_done, Holder, HoldPC, SyncTypes, WriterPC, Procs
<1>2. CASE piperead_test(p) /\ Empty /\ writeopen /\ killed[p]
  <2>1. /\ pc' = [pc EXCEPT ![p] = "user"] /\ lock' = None /\ pc[p] = "r_test"
        /\ UNCHANGED <<pipeVars, freed, hasfile, killed>>
    BY <1>2, Zenon DEF piperead_test, Return
  <2>2. SyncTypes'
    BY <2>1 DEF SyncTypes, PCs, WriterPC, ReaderPC, pipeVars
  <2>3. Holder'
    BY <1>1, <2>1, PipeConstants, Zenon DEF Holder, HoldPC, PipeConstants, SyncTypes
  <2>4. CallsHoldFile' /\ EndsFollowFiles' /\ Freed'
    BY <2>1, Zenon DEF CallsHoldFile, EndsFollowFiles, Freed, pipeVars, SyncTypes
  <2>5. AboutToSleep'
    BY <2>1, Zenon DEF AboutToSleep, Full, Empty, pipeVars, SyncTypes
  <2>6. Asleep'
    BY <2>1, Zenon DEF Asleep, Full, Empty, pipeVars, SyncTypes
  <2>. QED
    BY <2>2, <2>3, <2>4, <2>5, <2>6, Zenon
<1>3. CASE piperead_test(p) /\ ~(Empty /\ writeopen /\ killed[p])
  <2>1. /\ pc' = [pc EXCEPT ![p] =
                     IF Empty /\ writeopen THEN "r_sleep" ELSE "r_copy"]
        /\ pc[p] = "r_test"
        /\ UNCHANGED <<pipeVars, lock, freed, hasfile, killed>>
    BY <1>3, Zenon DEF piperead_test
  <2>2. SyncTypes'
    BY <1>1, <2>1, PipeConstants
    DEF SyncTypes, PCs, WriterPC, ReaderPC, pipeVars, PipeConstants
  <2>3. Holder'
    BY <1>1, <2>1, Zenon DEF Holder, HoldPC, SyncTypes
  <2>4. CallsHoldFile' /\ EndsFollowFiles' /\ Freed'
    BY <2>1, Zenon DEF CallsHoldFile, EndsFollowFiles, Freed, pipeVars, SyncTypes
  <2>5. AboutToSleep'
    BY <2>1, Zenon DEF AboutToSleep, Full, Empty, pipeVars, SyncTypes
  <2>6. Asleep'
    BY <2>1, Zenon DEF Asleep, Full, Empty, pipeVars, SyncTypes
  <2>. QED
    BY <2>2, <2>3, <2>4, <2>5, <2>6, Zenon
<1>4. CASE piperead_byte(p)
  <2>1. /\ pc[p] = "r_copy" /\ ~Empty
        /\ UNCHANGED <<lock, pc, hasfile, readopen, writeopen, freed, killed>>
    BY <1>4, Zenon DEF piperead_byte
  <2>2. SyncTypes' /\ Holder' /\ CallsHoldFile' /\ EndsFollowFiles' /\ Freed'
    BY <2>1, Zenon DEF SyncTypes, Holder, CallsHoldFile, EndsFollowFiles, Freed
  <2>3. AboutToSleep'
    BY <1>1, <2>1, Zenon DEF AboutToSleep, HoldPC
  <2>4. Asleep'
    BY <1>1, <2>1, Zenon DEF Asleep, HoldPC
  <2>. QED
    BY <2>2, <2>3, <2>4, Zenon
<1>5. CASE piperead_done(p)
  <2>1. /\ pc' = [WakeWriters(pc) EXCEPT ![p] = "user"] /\ lock' = None
        /\ UNCHANGED <<pipeVars, freed, hasfile, killed>>
    BY <1>5, Zenon DEF piperead_done, Return
  <2>2. SyncTypes'
    BY <1>1, <2>1, PipeConstants, Zenon DEF SyncTypes, PCs, WriterPC, ReaderPC, pipeVars, WakeWriters,
       PipeConstants, Procs
  <2>3. Holder'
    BY <1>1, <2>1, PipeConstants, Zenon DEF Holder, HoldPC, PipeConstants, SyncTypes, WakeWriters
  <2>4. CallsHoldFile' /\ EndsFollowFiles' /\ Freed'
    BY <2>1, Zenon DEF CallsHoldFile, EndsFollowFiles, Freed, pipeVars, SyncTypes, WakeWriters
  <2>5. AboutToSleep'
    BY <1>1, <2>1, Zenon DEF AboutToSleep, HoldPC, SyncTypes, WakeWriters
  <2>6. Asleep'
    <3>1. \A q \in Procs : pc'[q] # "w_asleep"
      BY <2>1, Zenon DEF WakeWriters, SyncTypes
    <3>2. \A q \in Procs : pc'[q] = "r_asleep" => pc[q] = "r_asleep"
      BY <2>1, Zenon DEF WakeWriters, SyncTypes
    <3>3. \A q \in Procs : pc[q] # "w_loop"
      BY <1>1, Zenon DEF HoldPC
    <3>4. Empty' = Empty /\ writeopen' = writeopen /\ killed' = killed
      BY <2>1, Zenon DEF Empty, pipeVars
    <3>. QED
      BY <3>1, <3>2, <3>3, <3>4, Zenon DEF Asleep
  <2>. QED
    BY <2>2, <2>3, <2>4, <2>5, <2>6, Zenon
<1>. QED
  BY <1>2, <1>3, <1>4, <1>5, Zenon

(* Entering a call, acquire(), sleep() and kill() preserve the invariant.  *)
LEMMA SyncSched ==
  ASSUME SyncInv, NEW p \in Procs,
         \/ p \in Writers /\ \E k \in 0 .. MAXN : Call(p, "pipewrite", k)
         \/ p \in Readers /\ \E k \in 0 .. MAXN : Call(p, "piperead", k)
         \/ Acquire(p) \/ Sleep(p) \/ kill(p)
  PROVE  SyncInv'
<1>. USE DEF SyncInv
<1>1. UNCHANGED <<pipeVars, freed, hasfile>>
  BY Zenon DEF Call, Acquire, Sleep, kill
<1>2. Full' = Full /\ Empty' = Empty /\ readopen' = readopen
      /\ writeopen' = writeopen /\ EndsFollowFiles' /\ Freed'
  BY <1>1, Zenon DEF Full, Empty, pipeVars, EndsFollowFiles, Freed
<1>3. ASSUME NEW to \in PCs, pc' = [pc EXCEPT ![p] = to], killed' = killed,
             p \in hasfile, to \notin {"w_sleep", "r_sleep"},
             p \in Writers => to \in WriterPC,
             p \in Readers => to \in ReaderPC,
             to = "w_asleep" => pc[p] = "w_sleep",
             to = "r_asleep" => pc[p] = "r_sleep",
             pc[p] \notin {"w_loop", "r_copy"},
             \/ /\ lock' = lock /\ pc[p] \notin HoldPC /\ to \notin HoldPC
             \/ /\ lock' = None /\ lock = p /\ to \notin HoldPC
             \/ /\ lock' = p /\ lock = None /\ to \in HoldPC
      PROVE  SyncInv'
  <2>1. SyncTypes'
    BY <1>1, <1>2, <1>3 DEF SyncTypes
  <2>2. Holder'
    BY <1>3, PipeConstants DEF Holder, SyncTypes, PipeConstants
  <2>3. CallsHoldFile' /\ AboutToSleep'
    BY <1>1, <1>2, <1>3, Zenon DEF CallsHoldFile, AboutToSleep, SyncTypes
  <2>4. Asleep'
    BY <1>2, <1>3, Zenon DEF Asleep, AboutToSleep, SyncTypes
  <2>. QED
    BY <1>2, <2>1, <2>2, <2>3, <2>4, Zenon
<1>4. CASE p \in Writers /\ \E k \in 0 .. MAXN : Call(p, "pipewrite", k)
  BY <1>3, <1>4, PipeConstants, Zenon DEF Call, PCs, WriterPC, ReaderPC, HoldPC, PipeConstants
<1>5. CASE p \in Readers /\ \E k \in 0 .. MAXN : Call(p, "piperead", k)
  BY <1>3, <1>5, PipeConstants, Zenon DEF Call, PCs, WriterPC, ReaderPC, HoldPC, PipeConstants
<1>6. CASE Acquire(p)
  <2>1. /\ pc' = [pc EXCEPT ![p] = IF pc[p] = "pipewrite" THEN "w_loop" ELSE "r_test"]
        /\ pc[p] \in {"pipewrite", "piperead"} /\ p \in hasfile
        /\ lock = None /\ lock' = p /\ killed' = killed
    BY <1>6, Zenon DEF Acquire, SyncTypes, CallsHoldFile
  <2>. QED
    BY <1>3, <2>1, Zenon DEF PCs, WriterPC, ReaderPC, HoldPC, SyncTypes
<1>7. CASE Sleep(p)
  <2>1. /\ pc' = [pc EXCEPT ![p] = IF pc[p] = "w_sleep" THEN "w_asleep" ELSE "r_asleep"]
        /\ pc[p] \in {"w_sleep", "r_sleep"} /\ p \in hasfile
        /\ lock = p /\ lock' = None /\ killed' = killed
    BY <1>7, Zenon DEF Sleep, SyncTypes, CallsHoldFile, Holder, HoldPC
  <2>. QED
    BY <1>3, <2>1, Zenon DEF PCs, WriterPC, ReaderPC, HoldPC, SyncTypes
<1>8. CASE kill(p)
  <2>1. /\ killed' = [killed EXCEPT ![p] = TRUE] /\ lock' = lock
        /\ pc' = [pc EXCEPT ![p] = IF pc[p] = "r_asleep" THEN "piperead"
                                   ELSE IF pc[p] = "w_asleep" THEN "pipewrite"
                                   ELSE pc[p]]
    BY <1>8, Zenon DEF kill, SyncTypes
  <2>2. SyncTypes'
    BY <1>1, <1>2, <2>1 DEF SyncTypes, PCs, WriterPC, ReaderPC
  <2>3. Holder'
    BY <2>1, Zenon DEF Holder, HoldPC, SyncTypes
  <2>4. CallsHoldFile' /\ AboutToSleep'
    BY <1>1, <1>2, <2>1, Zenon DEF CallsHoldFile, AboutToSleep, SyncTypes
  <2>5. \A q \in Procs : killed[q] => killed'[q]
    BY <2>1, Zenon DEF SyncTypes
  <2>6. Asleep'
    BY <1>2, <2>1, <2>5, Zenon DEF Asleep, SyncTypes, Procs
  <2>. QED
    BY <1>2, <2>2, <2>3, <2>4, <2>6, Zenon
<1>. QED
  BY <1>4, <1>5, <1>6, <1>7, <1>8, Zenon

(* fileclose() preserves the invariant: the last close of an end wakes the *)
(* other side, and nobody on its own side is in a call.                    *)
LEMMA SyncClose ==
  ASSUME SyncInv, NEW p \in Procs, fileclose(p)
  PROVE  SyncInv'
<1>. USE DEF SyncInv
<1>1. /\ pc[p] = "user" /\ p \in hasfile /\ hasfile' = hasfile \ {p}
      /\ UNCHANGED <<data, nread, nwrite, lock, killed>>
      /\ Full' = Full /\ Empty' = Empty
  BY Zenon DEF fileclose, Full, Empty
<1>2. Readers \cap Writers = {} /\ p \in Readers \cup Writers
  BY PipeConstants, Zenon DEF PipeConstants, Procs
<1>3. CASE \E q \in hasfile \ {p} : q \in Writers <=> p \in Writers
  <2>1. UNCHANGED <<readopen, writeopen, pc, freed>>
    BY <1>3, Zenon DEF fileclose
  <2>2. EndsFollowFiles'
    BY <1>1, <1>2, <1>3, <2>1, Zenon DEF EndsFollowFiles, SyncTypes, Procs
  <2>3. SyncTypes' /\ Holder' /\ CallsHoldFile' /\ Freed'
    BY <1>1, <2>1, Zenon DEF SyncTypes, Holder, CallsHoldFile, Freed
  <2>4. AboutToSleep' /\ Asleep'
    BY <1>1, <2>1, Zenon DEF AboutToSleep, Asleep
  <2>. QED
    BY <2>2, <2>3, <2>4, Zenon
<1>4. CASE /\ p \in Writers
           /\ ~\E q \in hasfile \ {p} : q \in Writers <=> p \in Writers
  <2>1. /\ lock = None /\ writeopen' = FALSE /\ readopen' = readopen
        /\ pc' = WakeReaders(pc) /\ freed' = (~readopen' /\ ~writeopen')
    BY <1>4, Zenon DEF fileclose
  <2>2. EndsFollowFiles'
    BY <1>1, <1>2, <1>4, <2>1, Zenon DEF EndsFollowFiles, SyncTypes, Procs
  <2>3. SyncTypes'
    BY <1>1, <2>1, PipeConstants, Zenon DEF SyncTypes, WakeReaders, PCs, WriterPC, ReaderPC,
       PipeConstants, Procs
  <2>4. Holder' /\ CallsHoldFile' /\ Freed'
    BY <1>1, <2>1, Zenon DEF Holder, HoldPC, CallsHoldFile, Freed, WakeReaders, SyncTypes
  <2>5. \A q \in Procs : pc[q] \notin HoldPC
    BY <2>1, PipeConstants, Zenon DEF Holder, PipeConstants
  <2>6. AboutToSleep' /\ Asleep'
    BY <1>1, <2>1, <2>5, Zenon DEF AboutToSleep, Asleep, WakeReaders, HoldPC
  <2>. QED
    BY <2>2, <2>3, <2>4, <2>6, Zenon
<1>5. CASE /\ p \notin Writers
           /\ ~\E q \in hasfile \ {p} : q \in Writers <=> p \in Writers
  <2>1. /\ lock = None /\ writeopen' = writeopen /\ readopen' = FALSE
        /\ pc' = WakeWriters(pc) /\ freed' = (~readopen' /\ ~writeopen')
    BY <1>5, Zenon DEF fileclose
  <2>2. EndsFollowFiles'
    BY <1>1, <1>2, <1>5, <2>1, Zenon DEF EndsFollowFiles, SyncTypes, Procs
  <2>3. SyncTypes'
    BY <1>1, <2>1, PipeConstants, Zenon DEF SyncTypes, WakeWriters, PCs, WriterPC, ReaderPC,
       PipeConstants, Procs
  <2>4. Holder' /\ CallsHoldFile' /\ Freed'
    BY <1>1, <2>1, Zenon DEF Holder, HoldPC, CallsHoldFile, Freed, WakeWriters, SyncTypes
  <2>5. \A q \in Procs : pc[q] \notin HoldPC
    BY <2>1, PipeConstants, Zenon DEF Holder, PipeConstants
  <2>6. AboutToSleep' /\ Asleep'
    BY <1>1, <2>1, <2>5, Zenon DEF AboutToSleep, Asleep, WakeWriters, HoldPC
  <2>. QED
    BY <2>2, <2>3, <2>4, <2>6, Zenon
<1>. QED
  BY <1>3, <1>4, <1>5, Zenon

(* SyncInv is an invariant of pipe.c: one case for each kind of step.      *)
THEOREM Synchronised == Spec => []SyncInv
<1>1. Init => SyncInv
  BY SyncInit, Zenon
<1>2. SyncInv /\ [Next]_vars => SyncInv'
  <2>1. SUFFICES ASSUME SyncInv, [Next]_vars PROVE SyncInv'
    BY Zenon
  <2>2. CASE UNCHANGED vars
    BY <2>1, <2>2, Zenon DEF vars, pipeVars, SyncInv, SyncTypes, Holder, CallsHoldFile, AboutToSleep,
       Asleep, EndsFollowFiles, Freed, Full, Empty
  <2>3. CASE \/ \E p \in Writers, k \in 0 .. MAXN : Call(p, "pipewrite", k)
             \/ \E p \in Readers, k \in 0 .. MAXN : Call(p, "piperead", k)
    BY <2>1, <2>3, SyncSched, Zenon DEF Procs
  <2>4. ASSUME NEW p \in Procs, InCall(p) PROVE SyncInv'
    BY <2>1, <2>4, SyncSched, SyncWrite, SyncRead, Zenon DEF InCall
  <2>5. ASSUME NEW p \in Procs, fileclose(p) \/ kill(p) PROVE SyncInv'
    BY <2>1, <2>5, SyncSched, SyncClose, Zenon
  <2>. QED
    BY <2>1, <2>2, <2>3, <2>4, <2>5, Zenon DEF Next
<1>. QED
  BY <1>1, <1>2, PTL DEF Spec

(* No process sleeps in pipewrite() or piperead() for something that has   *)
(* already happened, except after a writer was killed on a full buffer.    *)
THEOREM NoWakeupIsLost == Spec => []NoLostWakeup
  BY Synchronised, SyncGives, PTL

(* pipeclose() frees the pipe only when nobody can use it any more.        *)
THEOREM FreedPipeIsUnused == Spec => []FreedUnused
  BY Synchronised, SyncGives, PTL

(* readopen and writeopen say exactly whether some process has the end     *)
(* open.                                                                   *)
THEOREM EndsAreCounted == Spec => []EndsFollowFiles
  BY Synchronised, SyncGives, PTL

(* The three together: the synchronisation of pipe.c is right.             *)
THEOREM PipeIsSound == Spec => []PipeSound
<1>1. SyncInv => PipeSound
  BY SyncGives, Zenon DEF PipeSound
<1>. QED
  BY <1>1, Synchronised, PTL

-----------------------------------------------------------------------------
(* The ring: the counters are PIPESIZE apart at most, and a reader begins  *)
(* to copy only when there are bytes or the stream has ended.              *)
RingTypes ==
  /\ nread \in 0 .. UINT - 1 /\ nwrite \in 0 .. UINT - 1
  /\ data \in [0 .. PIPESIZE - 1 -> Bytes]
  /\ i \in [Procs -> Nat]
  /\ eof \in BOOLEAN

CopyHasCause ==
  \A p \in Procs : pc[p] = "r_copy" /\ i[p] = 0 => ~(Empty /\ writeopen)

RingInv == RingTypes /\ Count <= PIPESIZE /\ CopyHasCause

(* The constants without the divisibility, which only slots need.          *)
LEMMA Sizes ==
  /\ UINT \in Nat \ {0} /\ PIPESIZE \in 1 .. UINT - 1
  /\ PIPESIZE \in Nat \ {0}
  BY PipeConstants DEF PipeConstants

(* How many bytes there are, by where the counters have wrapped.           *)
LEMMA CountIs ==
  ASSUME NEW r \in 0 .. UINT - 1, NEW w \in 0 .. UINT - 1
  PROVE  /\ (w + UINT - r) % UINT = IF w >= r THEN w - r ELSE w + UINT - r
         /\ (w + UINT - r) % UINT \in 0 .. UINT - 1
         /\ r = w <=> (w + UINT - r) % UINT = 0
         /\ w = (r + PIPESIZE) % UINT <=> (w + UINT - r) % UINT = PIPESIZE
<1>1. (w + UINT - r) % UINT = IF w >= r THEN w - r ELSE w + UINT - r
  BY Sizes, Distance, Zenon
<1>2. (r + PIPESIZE) % UINT =
         IF r + PIPESIZE < UINT THEN r + PIPESIZE ELSE r + PIPESIZE - UINT
  <2>1. PIPESIZE \in 0 .. UINT - 1
    BY Sizes
  <2>. QED
    BY <2>1, Sizes, Ahead, Zenon
<1>. QED
  BY <1>1, <1>2, Sizes

(* The same of the counters of a state.                                    *)
LEMMA CountOf ==
  ASSUME RingTypes
  PROVE  /\ Count = IF nwrite >= nread THEN nwrite - nread
                                       ELSE nwrite + UINT - nread
         /\ Count \in 0 .. UINT - 1
         /\ Empty <=> Count = 0
         /\ Full <=> Count = PIPESIZE
  BY CountIs, Zenon DEF RingTypes, Count, Empty, Full

(* The next byte goes to the slot after the last one in the buffer.        *)
LEMMA WriteSlot ==
  ASSUME RingTypes
  PROVE  /\ nwrite % PIPESIZE = (nread + Count) % PIPESIZE
         /\ nwrite % PIPESIZE \in 0 .. PIPESIZE - 1
<1>. DEFINE a == nread + Count
<1>1. a \in 0 .. 2 * UINT - 1 /\ (IF a < UINT THEN a ELSE a - UINT) = nwrite
  BY CountOf, Sizes, SMTT(20) DEF RingTypes
<1>2. (a % UINT) % PIPESIZE = a % PIPESIZE /\ a % UINT = nwrite
  <2>. HIDE DEF a
  <2>1. a % UINT = nwrite
    BY <1>1, Sizes, ModOnce, Zenon
  <2>2. UINT % PIPESIZE = 0
    BY PipeConstants, Zenon DEF PipeConstants
  <2>. QED
    BY <1>1, <2>1, <2>2, Sizes, SlotOfCounter, Zenon
<1>3. nwrite % PIPESIZE \in 0 .. PIPESIZE - 1
  BY Sizes, DivMod DEF RingTypes
<1>. QED
  BY <1>2, <1>3, Zenon

(* The contents are a sequence of bytes of the length Count.               *)
LEMMA ContentsType ==
  ASSUME RingTypes
  PROVE  /\ Contents = Window(data, nread, Count, PIPESIZE)
         /\ SlotsIn(data, PIPESIZE, Bytes) /\ nread \in Nat /\ Count \in Nat
         /\ Contents \in Seq(Bytes) /\ Len(Contents) = Count
<1>1. Contents = Window(data, nread, Count, PIPESIZE)
  BY Zenon DEF Contents, Window
<1>2. SlotsIn(data, PIPESIZE, Bytes) /\ nread \in Nat /\ Count \in Nat
  BY CountOf, Sizes DEF RingTypes, SlotsIn
<1>. QED
  BY <1>1, <1>2, Sizes, WindowType

(* One turn of pipewrite()'s loop appends the byte to the contents.        *)
LEMMA SendsByte ==
  ASSUME RingInv, NEW p \in Procs, NEW b \in Bytes, pipewrite_byte(p, b)
  PROVE  /\ RingTypes' /\ Count' = Count + 1 /\ Count < PIPESIZE
         /\ AddOf(Contents', Contents, b)
<1>. USE Sizes DEF RingInv
<1>1. /\ ~Full /\ data' = [data EXCEPT ![nwrite % PIPESIZE] = b]
      /\ nwrite' = (nwrite + 1) % UINT /\ nread' = nread
      /\ i' = [i EXCEPT ![p] = @ + 1] /\ eof' = eof
  BY Zenon DEF pipewrite_byte
<1>2. nwrite' = (IF nwrite + 1 = UINT THEN 0 ELSE nwrite + 1) /\ nwrite' \in 0 .. UINT - 1
  BY <1>1, ModNext, Zenon DEF RingTypes
<1>3. RingTypes'
  BY <1>1, <1>2, WriteSlot DEF RingTypes
<1>4. Count < PIPESIZE /\ Count \in 0 .. PIPESIZE - 1
  BY <1>1, CountOf
<1>5. Count' = Count + 1
  <2>1. Count' = IF nwrite' >= nread' THEN nwrite' - nread' ELSE nwrite' + UINT - nread'
    BY <1>3, CountIs, Zenon DEF RingTypes, Count
  <2>. QED
    BY <1>1, <1>2, <1>4, <2>1, CountOf DEF RingTypes
<1>6. Put(data', data, (nread + Count) % PIPESIZE, b, PIPESIZE)
  BY <1>1, WriteSlot, Zenon DEF RingTypes, Put
<1>7. Contents' = Window(data', nread, Count + 1, PIPESIZE)
  BY <1>1, <1>5 DEF Contents, Window
<1>8. AddOf(Window(data', nread, Count + 1, PIPESIZE),
            Window(data, nread, Count, PIPESIZE), b)
  <2>1. SlotsIn(data, PIPESIZE, Bytes) /\ nread \in Nat /\ PIPESIZE \in Nat \ {0}
    BY ContentsType, Zenon
  <2>. HIDE Sizes
  <2>. QED
    BY <1>4, <1>6, <2>1, WindowPut, Zenon
<1>. QED
  BY <1>3, <1>4, <1>5, <1>7, <1>8, ContentsType, Zenon

(* One turn of piperead()'s second loop removes the first of the contents. *)
LEMMA ReceivesByte ==
  ASSUME RingInv, NEW p \in Procs, piperead_byte(p)
  PROVE  /\ RingTypes' /\ Count = Count' + 1
         /\ RestOf(Contents', Contents)
<1>. USE Sizes DEF RingInv
<1>1. /\ ~Empty /\ data' = data /\ nwrite' = nwrite
      /\ nread' = (nread + 1) % UINT
      /\ i' = [i EXCEPT ![p] = @ + 1] /\ eof' = eof
  BY Zenon DEF piperead_byte
<1>2. nread' = (IF nread + 1 = UINT THEN 0 ELSE nread + 1) /\ nread' \in 0 .. UINT - 1
  BY <1>1, ModNext, Zenon DEF RingTypes
<1>3. RingTypes'
  BY <1>1, <1>2 DEF RingTypes
<1>4. Count = Count' + 1 /\ Count' \in Nat
  <2>1. /\ Count' = IF nwrite' >= nread' THEN nwrite' - nread' ELSE nwrite' + UINT - nread'
        /\ Count' \in 0 .. UINT - 1
    BY <1>3, CountIs, Zenon DEF RingTypes, Count
  <2>2. Count # 0
    BY <1>1, CountOf, Zenon
  <2>. QED
    BY <1>1, <1>2, <2>1, <2>2, CountOf, SMTT(20) DEF RingTypes
<1>5. SameSlots(nread', nread + 1, PIPESIZE)
  <2>1. UINT % PIPESIZE = 0
    BY PipeConstants, Zenon DEF PipeConstants
  <2>. QED
    BY <1>1, <2>1, SlotsOfNext, Zenon DEF RingTypes
<1>6. nread' \in Nat /\ Contents' = Window(data, nread', Count', PIPESIZE)
  BY <1>1, <1>2 DEF Contents, Window
<1>7. RestOf(Window(data, nread', Count', PIPESIZE),
             Window(data, nread, Count' + 1, PIPESIZE))
  <2>1. SlotsIn(data, PIPESIZE, Bytes) /\ nread \in Nat /\ PIPESIZE \in Nat \ {0}
    BY ContentsType, Zenon
  <2>2. Count' \in Nat /\ nread' \in Nat
    BY <1>4, <1>6, Zenon
  <2>. HIDE Sizes
  <2>. QED
    BY <1>5, <2>1, <2>2, WindowDrop, Zenon
<1>. QED
  BY <1>3, <1>4, <1>6, <1>7, ContentsType, Zenon

(* The channel state of a pipe whose ring no step touches.                 *)
LEMMA RingSame ==
  ASSUME UNCHANGED <<data, nread, nwrite>>
  PROVE  Contents' = Contents /\ Count' = Count /\ Empty' = Empty
  BY Zenon DEF Contents, Count, Empty

PipeInv == SyncInv /\ RingInv

(* What one step may do to the channel: the actions of Channel and what    *)
(* they come from.                                                         *)
ChannelStep ==
  \/ writeopen /\ Count < PIPESIZE /\ UNCHANGED <<writeopen, eof>>
     /\ \E b \in Bytes : AddOf(Contents', Contents, b)
  \/ RestOf(Contents', Contents) /\ UNCHANGED <<writeopen, eof>>
  \/ Contents' = Contents /\ writeopen' = FALSE /\ eof' = eof
  \/ ~writeopen /\ Count = 0 /\ eof' /\ UNCHANGED <<Contents, writeopen>>
  \/ UNCHANGED <<Contents, writeopen, eof>>

(* The ring is empty and intact when pipealloc() returns.                  *)
LEMMA RingInit ==
  ASSUME Init
  PROVE  RingInv /\ Count = 0
<1>1. RingTypes
  <2>1. eof \in BOOLEAN
    BY Zenon DEF Init
  <2>2. nread \in 0 .. UINT - 1 /\ nwrite \in 0 .. UINT - 1
    BY Sizes DEF Init
  <2>3. data \in [0 .. PIPESIZE - 1 -> Bytes] /\ i \in [Procs -> Nat]
    BY Zenon DEF Init
  <2>. QED
    BY <2>1, <2>2, <2>3, Zenon DEF RingTypes
<1>2. Count = 0
  BY <1>1, CountOf, Zenon DEF Init, Empty
<1>3. CopyHasCause
  BY Zenon DEF Init, CopyHasCause
<1>. QED
  BY <1>1, <1>2, <1>3, Sizes DEF RingInv

(* The two steps that copy a byte are the channel's Send and Receive.      *)
LEMMA CopyStep ==
  ASSUME PipeInv, NEW p \in Procs,
         (\E b \in Bytes : pipewrite_byte(p, b)) \/ piperead_byte(p)
  PROVE  RingInv' /\ ChannelStep
<1>. USE DEF PipeInv, SyncInv
<1>1. /\ pc[p] \in {"w_loop", "r_copy"} /\ lock = p
      /\ \A q \in Procs : pc[q] \in HoldPC => q = p
      /\ pc' = pc /\ writeopen' = writeopen /\ eof' = eof
      /\ i' = [i EXCEPT ![p] = @ + 1]
  BY Zenon DEF pipewrite_byte, piperead_byte, Holder, HoldPC
<1>2. CopyHasCause'
  <2>1. i'[p] # 0
    BY <1>1 DEF RingInv, RingTypes
  <2>2. \A q \in Procs : pc'[q] = "r_copy" => q = p
    BY <1>1, Zenon DEF HoldPC
  <2>. QED
    BY <2>1, <2>2, Zenon DEF CopyHasCause
<1>3. CASE \E b \in Bytes : pipewrite_byte(p, b)
  <2>1. PICK b \in Bytes : pipewrite_byte(p, b)
    BY <1>3, Zenon
  <2>2. /\ RingTypes' /\ Count' = Count + 1 /\ Count < PIPESIZE
        /\ AddOf(Contents', Contents, b)
    BY <2>1, SendsByte, Zenon
  <2>3. Count' <= PIPESIZE
    BY <2>2, CountOf, Sizes DEF RingInv
  <2>4. writeopen
    <3>1. p \in Writers /\ p \in hasfile
      BY <1>1, <2>1, Zenon DEF pipewrite_byte, SyncTypes, ReaderPC, Procs, CallsHoldFile
    <3>. QED
      BY <3>1, Zenon DEF EndsFollowFiles
  <2>5. RingInv'
    BY <1>2, <2>2, <2>3, Zenon DEF RingInv
  <2>6. ChannelStep
    BY <1>1, <2>2, <2>4, Zenon DEF ChannelStep
  <2>. QED
    BY <2>5, <2>6, Zenon
<1>4. CASE piperead_byte(p)
  <2>1. RingTypes' /\ Count = Count' + 1 /\ RestOf(Contents', Contents)
    BY <1>4, ReceivesByte, Zenon
  <2>2. Count' <= PIPESIZE
    <3>1. Count' \in Nat
      BY <2>1, CountIs DEF RingTypes, Count
    <3>2. PICK c \in Nat : c = Count'
      BY <3>1, Zenon
    <3>3. c + 1 <= PIPESIZE
      BY <2>1, <3>2, Zenon DEF RingInv
    <3>4. c <= PIPESIZE
      BY <3>3, Sizes
    <3>. QED
      BY <3>2, <3>4, Zenon
  <2>. QED
    BY <1>1, <1>2, <2>1, <2>2, Zenon DEF RingInv, ChannelStep
<1>. QED
  BY <1>3, <1>4, Zenon

(* The steps that leave the ring alone: each is the end of a call, a close *)
(* or no step of the channel.                                              *)
LEMMA QuietStep ==
  ASSUME PipeInv, NEW p \in Procs,
         \/ \E k \in 0 .. MAXN : Call(p, "pipewrite", k) \/ Call(p, "piperead", k)
         \/ Acquire(p) \/ Sleep(p) \/ kill(p) \/ fileclose(p)
         \/ pipewrite_full(p) \/ pipewrite_done(p)
         \/ piperead_test(p) \/ piperead_done(p)
  PROVE  RingInv' /\ ChannelStep
<1>. USE DEF PipeInv, SyncInv
<1>1. UNCHANGED <<data, nread, nwrite>>
  BY Zenon DEF Call, Acquire, Sleep, kill, fileclose, pipewrite_full, pipewrite_done, piperead_test,
     piperead_done, pipeVars
<1>2. Contents' = Contents /\ Count' = Count /\ Empty' = Empty
  BY <1>1, RingSame, Zenon
<1>3. /\ i' = i \/ i' = [i EXCEPT ![p] = 0]
      /\ eof' = eof \/ (piperead_done(p) /\ eof' = (eof \/ (i[p] = 0 /\ n[p] > 0)))
      /\ writeopen' = writeopen \/ writeopen' = FALSE
  BY Zenon DEF Call, Acquire, Sleep, kill, fileclose, pipewrite_full, pipewrite_done, piperead_test,
     piperead_done, pipeVars, Return
<1>4. RingTypes'
  <2>1. eof' \in BOOLEAN
    <3>1. eof \in BOOLEAN
      BY Zenon DEF RingInv, RingTypes
    <3>. QED
      BY <1>3, <3>1, Zenon
  <2>2. i' \in [Procs -> Nat]
    BY <1>3 DEF RingInv, RingTypes
  <2>. QED
    BY <1>1, <2>1, <2>2, Zenon DEF RingInv, RingTypes
<1>5. CopyHasCause'
  <2>1. ASSUME NEW q \in Procs, pc'[q] = "r_copy"
        PROVE  \/ pc[q] = "r_copy" /\ i'[q] = i[q]
               \/ ~(Empty /\ writeopen)
    BY <2>1, Zenon DEF Call, Acquire, Sleep, kill, fileclose, pipewrite_full, pipewrite_done,
       piperead_test, piperead_done, Return, WakeReaders, WakeWriters, SyncTypes, RingInv, RingTypes
  <2>. QED
    BY <1>2, <1>3, <2>1, Zenon DEF RingInv, CopyHasCause
<1>6. RingInv'
  BY <1>2, <1>4, <1>5, Zenon DEF RingInv
<1>7. ChannelStep
  <2>1. CASE eof' = eof
    BY <1>2, <1>3, <2>1, Zenon DEF ChannelStep
  <2>2. CASE eof' # eof
    <3>1. piperead_done(p) /\ i[p] = 0 /\ n[p] > 0 /\ eof'
      BY <1>3, <2>2, Zenon DEF RingInv, RingTypes
    <3>2. Empty /\ pc[p] = "r_copy" /\ writeopen' = writeopen
      BY <3>1 DEF piperead_done, pipeVars
    <3>3. ~writeopen
      BY <3>1, <3>2, Zenon DEF RingInv, CopyHasCause
    <3>4. Count = 0
      BY <3>2, CountOf, Zenon DEF RingInv
    <3>. QED
      BY <1>2, <3>1, <3>2, <3>3, <3>4, Zenon DEF ChannelStep
  <2>. QED
    BY <2>1, <2>2, Zenon
<1>. QED
  BY <1>6, <1>7, Zenon

(* The ring invariant, together with the synchronisation it rests on: one  *)
(* case for each kind of step, and each is a step of the channel.          *)
LEMMA PipeStep ==
  ASSUME PipeInv, Next
  PROVE  RingInv' /\ ChannelStep
<1>1. CASE \/ \E p \in Writers, k \in 0 .. MAXN : Call(p, "pipewrite", k)
           \/ \E p \in Readers, k \in 0 .. MAXN : Call(p, "piperead", k)
  BY <1>1, QuietStep, Zenon DEF Procs
<1>2. ASSUME NEW p \in Procs, InCall(p) PROVE RingInv' /\ ChannelStep
  BY <1>2, QuietStep, CopyStep, Zenon DEF InCall
<1>3. ASSUME NEW p \in Procs, fileclose(p) \/ kill(p)
      PROVE  RingInv' /\ ChannelStep
  BY <1>3, QuietStep, Zenon
<1>. QED
  BY <1>1, <1>2, <1>3, Zenon DEF Next

(* The counters never run more than PIPESIZE apart and the bytes stay in   *)
(* place, also after the counters have wrapped.                            *)
THEOREM RingIsSound == Spec => []PipeInv
<1>1. Init => RingInv
  BY RingInit, Zenon
<1>2. SyncInv /\ RingInv /\ [Next]_vars => RingInv'
  <2>1. SUFFICES ASSUME SyncInv, RingInv, [Next]_vars PROVE RingInv'
    BY Zenon
  <2>2. CASE UNCHANGED vars
    BY <2>1, <2>2, Zenon DEF vars, pipeVars, RingInv, RingTypes, Count, CopyHasCause, Empty
  <2>3. CASE Next
    BY <2>1, <2>3, PipeStep, Zenon DEF PipeInv
  <2>. QED
    BY <2>1, <2>2, <2>3, Zenon
<1>. QED
  BY <1>1, <1>2, Synchronised, PTL DEF Spec, PipeInv

(* A step of the channel as its specification writes it.                   *)
LEMMA ChannelStepIs ==
  ASSUME RingTypes, ChannelStep
  PROVE  [Abstract!Next]_(Abstract!vars)
<1>1. CASE /\ writeopen /\ Count < PIPESIZE /\ UNCHANGED <<writeopen, eof>>
           /\ \E b \in Bytes : AddOf(Contents', Contents, b)
  <2>1. Len(Contents) < PIPESIZE
    BY <1>1, ContentsType, Zenon
  <2>2. \E b \in Bytes : Abstract!Send(b)
    BY <1>1, <2>1, Zenon DEF Abstract!Send, AddOf
  <2>. QED
    BY <2>2, Zenon DEF Abstract!Next
<1>2. CASE RestOf(Contents', Contents) /\ UNCHANGED <<writeopen, eof>>
  <2>1. Abstract!Receive
    BY <1>2, Zenon DEF Abstract!Receive, RestOf
  <2>. QED
    BY <2>1, Zenon DEF Abstract!Next
<1>3. CASE Contents' = Contents /\ writeopen' = FALSE /\ eof' = eof
  <2>1. Abstract!CloseWrite
    BY <1>3, Zenon DEF Abstract!CloseWrite
  <2>. QED
    BY <2>1, Zenon DEF Abstract!Next
<1>4. CASE ~writeopen /\ Count = 0 /\ eof' /\ UNCHANGED <<Contents, writeopen>>
  <2>1. Contents = <<>>
    BY <1>4, ContentsType
  <2>2. eof' = TRUE
    BY <1>4, Zenon
  <2>3. Abstract!EndOfStream
    BY <1>4, <2>1, <2>2, Zenon DEF Abstract!EndOfStream
  <2>. QED
    BY <2>3, Zenon DEF Abstract!Next
<1>5. CASE UNCHANGED <<Contents, writeopen, eof>>
  BY <1>5, Zenon DEF Abstract!vars
<1>. QED
  BY <1>1, <1>2, <1>3, <1>4, <1>5, Zenon DEF ChannelStep

(* pipe.c implements the bounded first-in first-out channel, for any       *)
(* number of readers and writers, any buffer size and any width of the     *)
(* counters that the size divides: no byte is lost, repeated or reordered  *)
(* when the counters wrap, calls interleave or ends close, and a read      *)
(* returns 0 only at the end of the stream.                                *)
THEOREM PipeIsFifo == Spec => Fifo
<1>1. Init => Abstract!Init
  <2>1. SUFFICES ASSUME Init PROVE Abstract!Init
    BY Zenon
  <2>2. Contents = <<>>
    BY <2>1, RingInit, ContentsType DEF RingInv
  <2>. QED
    BY <2>1, <2>2, Zenon DEF Init, Abstract!Init
<1>2. PipeInv /\ [Next]_vars => [Abstract!Next]_(Abstract!vars)
  <2>1. SUFFICES ASSUME PipeInv, [Next]_vars
                 PROVE  [Abstract!Next]_(Abstract!vars)
    BY Zenon
  <2>2. CASE UNCHANGED vars
    BY <2>2, RingSame, Zenon DEF vars, pipeVars, Abstract!vars
  <2>3. CASE Next
    BY <2>1, <2>3, PipeStep, ChannelStepIs, Zenon DEF PipeInv, RingInv
  <2>. QED
    BY <2>1, <2>2, <2>3, Zenon
<1>. QED
  BY <1>1, <1>2, RingIsSound, PTL DEF Spec, Fifo, Abstract!Spec
=============================================================================
