--------------------------- MODULE LogRefinement ---------------------------
(***************************************************************************)
(* The redo log implements AtomicDisk.  The proof is for every value of    *)
(* the constants and for the behaviours in which the log stays within its  *)
(* region of the disk (LogInRegion); a log that outgrows it overwrites     *)
(* home blocks, and no invariant of log.c survives that.  With LogFits it  *)
(* is for all behaviours, if the region has LOGSIZE blocks for data.       *)
(***************************************************************************)
EXTENDS LogProofs

Distinct(s) == \A i, j \in DOMAIN s : s[i] = s[j] => i = j

(* The loops of write_log() and install_trans() stay within the log.       *)
LoopBounds ==
  /\ tail \in Nat \ {0}
  /\ \A p \in Procs :
       /\ pc[p] \in {"write_log", "install_trans"} => tail <= Len(lh)
       /\ pc[p] \in {"write_log", "write_head", "install_trans"} => lh # <<>>
  /\ boot = "install_trans" => tail <= Len(lh)

DataTypes ==
  /\ disk \in [Addrs -> Vals] /\ cache \in [Addrs -> Vals]
  /\ dirty \subseteq Home
  /\ wrote \in [Procs -> SUBSET Home]

(* Absorption keeps the block numbers of the log distinct.                 *)
Headers == Distinct(lh) /\ Distinct(head) /\ Len(head) <= NLOG - 1

Installing == \E p \in Procs : pc[p] \in {"install_trans", "clear_head"}

(* The header on disk lists blocks only from write_head() in commit() to   *)
(* the moment it is cleared, and then it is log.lh.                        *)
HeadState ==
  /\ boot = "up" /\ ~Installing => head = <<>>
  /\ Installing => head = lh
  /\ boot \in {"install_trans", "clear_head"} => head = lh

BufOwner == \A p \in Procs : buf[p] # 0 => pc[p] \in {"log_write", "panic"}

(* A buffer that is neither pinned nor being modified equals its block.    *)
Clean ==
  \A a \in Addrs : a \notin dirty /\ (\A p \in Procs : buf[p] # a)
                     => cache[a] = disk[a]

(* The pinned buffers are the logged blocks not yet installed.             *)
Pinned ==
  /\ boot # "up" => dirty = {}
  /\ boot = "up" /\ ~Installing => dirty = Listed(lh)
  /\ \A p \in Procs :
       /\ pc[p] = "install_trans" => dirty = {lh[i] : i \in tail .. Len(lh)}
       /\ pc[p] = "clear_head" => dirty = {}

(* What write_log() has copied, and what recovery has installed.           *)
Copied ==
  \A p \in Procs :
    /\ pc[p] = "write_log" => \A i \in 1 .. tail - 1 : disk[i] = cache[lh[i]]
    /\ pc[p] \in {"write_head", "install_trans", "clear_head"} =>
         \A i \in 1 .. Len(lh) : disk[i] = cache[lh[i]]

Installed ==
  /\ boot = "install_trans" => \A i \in 1 .. tail - 1 : disk[lh[i]] = disk[i]
  /\ boot = "clear_head" => \A i \in 1 .. Len(lh) : disk[lh[i]] = disk[i]

DataInv ==
  /\ LoopBounds /\ DataTypes /\ Headers /\ HeadState /\ BufOwner /\ Clean
  /\ Pinned /\ Copied /\ Installed

LogInv == ControlInv /\ LogInRegion /\ DataInv

-----------------------------------------------------------------------------
(* Home and log addresses are disjoint, and both are addresses.            *)
LEMMA Layout ==
  /\ Home \subseteq Addrs
  /\ 0 \notin Home
  /\ \A i \in 1 .. NLOG - 1 : i \in Addrs /\ i \notin Home
BY LogConstants DEF LogConstants, Home, Addrs

(* In a header without repetitions every block has one log position.       *)
LEMMA ReplayListed ==
  ASSUME NEW h \in Seq(Home), Distinct(h), NEW d, NEW i \in DOMAIN h
  PROVE  Replay(h, d)[h[i]] = d[i]
<1>1. h[i] \in Home /\ h[i] \in Listed(h)
  BY DEF Listed
<1>2. (CHOOSE j \in DOMAIN h : h[j] = h[i]) = i
  BY Zenon DEF Distinct
<1>. QED
  BY <1>1, <1>2, Zenon DEF Replay

(* A block the header does not list is read from its home.                 *)
LEMMA ReplayUnlisted ==
  ASSUME NEW h, NEW d, NEW b \in Home, b \notin Listed(h)
  PROVE  Replay(h, d)[b] = d[b]
BY Zenon DEF Replay

(* Recovery depends only on the log blocks and the unlisted home blocks.   *)
LEMMA ReplayEqual ==
  ASSUME NEW h \in Seq(Home), Distinct(h), NEW d, NEW e,
         \A i \in DOMAIN h : d[i] = e[i],
         \A b \in Home : b \notin Listed(h) => d[b] = e[b]
  PROVE  Replay(h, d) = Replay(h, e)
<1>1. ASSUME NEW b \in Home
      PROVE  Replay(h, d)[b] = Replay(h, e)[b]
  <2>1. CASE b \in Listed(h)
    <3>1. PICK i \in DOMAIN h : h[i] = b
      BY <2>1, Zenon DEF Listed
    <3>. QED
      BY <3>1, ReplayListed
  <2>2. CASE b \notin Listed(h)
    BY <2>2, ReplayUnlisted
  <2>. QED
    BY <2>1, <2>2, Zenon
<1>. QED
  BY <1>1, Zenon DEF Replay

(* With an empty header the home blocks are what recovery gives.           *)
LEMMA ReplayEmpty ==
  ASSUME NEW d
  PROVE  Replay(<<>>, d) = [b \in Home |-> d[b]]
BY DEF Replay, Listed

-----------------------------------------------------------------------------
(* The process counters the data invariant mentions.                       *)
DataPC == {"log_write", "panic", "write_log", "write_head", "install_trans",
           "clear_head"}

(* The data invariant holds initially.                                     *)
LEMMA DataInit ==
  ASSUME Init
  PROVE  DataInv
<1>. USE DEF Init
<1>1. LoopBounds /\ BufOwner /\ Clean /\ Copied /\ Installed
  BY DEF LoopBounds, BufOwner, Clean, Copied, Installed
<1>2. DataTypes
  BY Zenon DEF DataTypes
<1>3. Headers
  BY LogConstants DEF Headers, Distinct, LogConstants
<1>4. HeadState
  BY Zenon DEF HeadState, Installing
<1>5. Pinned
  BY DEF Pinned, Installing, Listed
<1>. QED
  BY <1>1, <1>2, <1>3, <1>4, <1>5, Zenon DEF DataInv

(* Steps that only move processes outside log_write() and commit() keep    *)
(* the data invariant.                                                     *)
LEMMA DataControlStep ==
  ASSUME LogInv,
         UNCHANGED <<disk, head, cache, dirty, lh, buf, boot>>,
         wrote' \in [Procs -> SUBSET Home],
         tail' \in Nat \ {0},
         tail' = tail \/ (boot = "up" /\ ~committing),
         \A q \in Procs : pc'[q] # pc[q] => /\ pc[q] \notin DataPC
                                            /\ pc'[q] \notin DataPC
  PROVE  DataInv'
<1>. USE DEF LogInv, DataInv
<1>1. \A q \in Procs : pc'[q] \in DataPC \/ pc[q] \in DataPC => pc'[q] = pc[q]
  BY Zenon
<1>2. ~committing => \A q \in Procs : pc[q] \notin CommitPC
  BY Zenon DEF ControlInv, Committer
<1>3. Installing' <=> Installing
  BY <1>1, Zenon DEF Installing, DataPC
<1>4. LoopBounds'
  BY <1>1, <1>2, Zenon DEF LoopBounds, DataPC, CommitPC
<1>5. DataTypes' /\ Headers'
  BY Zenon DEF DataTypes, Headers, Distinct
<1>6. HeadState'
  BY <1>3, Zenon DEF HeadState
<1>7. BufOwner' /\ Clean'
  BY <1>1, Zenon DEF BufOwner, Clean, DataPC
<1>8. Pinned'
  BY <1>1, <1>2, <1>3, Zenon DEF Pinned, DataPC, CommitPC, Listed
<1>9. Copied' /\ Installed'
  BY <1>1, <1>2, Zenon DEF Copied, Installed, DataPC, CommitPC
<1>. QED
  BY <1>4, <1>5, <1>6, <1>7, <1>8, <1>9, Zenon

(* While a process is in an operation nobody commits.                      *)
LEMMA OperationFacts ==
  ASSUME LogInv, NEW p \in Procs, pc[p] \in InOpPC
  PROVE  /\ ~committing
         /\ \A q \in Procs : pc[q] \notin CommitPC
         /\ ~Installing
<1>1. outstanding # 0
  BY CountZero, Zenon DEF LogInv, ControlInv, InOp
<1>2. ~committing
  BY <1>1, Zenon DEF LogInv, ControlInv, Committer
<1>3. \A q \in Procs : pc[q] \notin CommitPC
  BY <1>2, Zenon DEF LogInv, ControlInv, Committer
<1>. QED
  BY <1>2, <1>3, Zenon DEF Installing, CommitPC

(* modify: the buffer differs from its block only while it is held.        *)
LEMMA DataModify ==
  ASSUME LogInv, NEW p \in Procs, NEW b \in Home, NEW v \in Vals,
         modify(p, b, v)
  PROVE  DataInv'
<1>. USE DEF LogInv, DataInv, modify, diskVars, logVars
<1>1. /\ \A q \in Procs : pc[q] \notin CommitPC
      /\ ~Installing
  BY OperationFacts, Zenon DEF InOpPC
<1>2. \A q \in Procs : pc'[q] \notin CommitPC
  BY <1>1, Zenon DEF CommitPC, ControlInv, ControlTypes
<1>3. ~Installing'
  BY <1>2, Zenon DEF Installing, CommitPC
<1>4. LoopBounds'
  BY <1>2, Zenon DEF LoopBounds, CommitPC
<1>5. DataTypes'
  BY Layout, Zenon DEF DataTypes
<1>6. Headers'
  BY Zenon DEF Headers, Distinct
<1>7. HeadState'
  BY <1>1, <1>3, Zenon DEF HeadState
<1>8. BufOwner'
  BY Zenon DEF BufOwner, ControlInv, ControlTypes
<1>9. Clean'
  <2>1. SUFFICES ASSUME NEW a \in Addrs, a \notin dirty,
                        \A q \in Procs : buf'[q] # a
                 PROVE  cache'[a] = disk[a]
    BY Zenon DEF Clean
  <2>2. a # b /\ cache'[a] = cache[a]
    BY <2>1, Zenon DEF ControlInv, ControlTypes, DataTypes
  <2>3. \A q \in Procs : buf[q] # a
    <3>1. SUFFICES ASSUME NEW q \in Procs, buf[q] = a PROVE FALSE
      BY Zenon
    <3>2. q # p
      <4>1. a # 0
        BY LogConstants DEF Addrs, LogConstants
      <4>. QED
        BY <3>1, <4>1, Zenon DEF BufOwner
    <3>. QED
      BY <2>1, <3>1, <3>2, Zenon DEF ControlInv, ControlTypes
  <2>. QED
    BY <2>1, <2>2, <2>3, Zenon DEF Clean
<1>10. Pinned'
  BY <1>1, <1>2, <1>3, Zenon DEF Pinned, CommitPC, Listed
<1>11. Copied' /\ Installed'
  BY <1>2, Zenon DEF Copied, Installed, CommitPC
<1>. QED
  BY <1>4, <1>5, <1>6, <1>7, <1>8, <1>9, <1>10, <1>11, ZenonT(30)

(* log_write(): the block joins the log once, and is pinned.               *)
LEMMA DataLogWrite ==
  ASSUME LogInv, NEW p \in Procs, log_write(p)
  PROVE  DataInv'
<1>. USE DEF LogInv, DataInv, log_write, diskVars
<1>1. /\ \A q \in Procs : pc[q] \notin CommitPC
      /\ ~Installing
  BY OperationFacts, Zenon DEF InOpPC
<1>2. \A q \in Procs : pc'[q] \notin CommitPC
  BY <1>1, Zenon DEF CommitPC, ControlInv, ControlTypes
<1>3. ~Installing'
  BY <1>2, Zenon DEF Installing, CommitPC
<1>4. buf[p] \in Home /\ lh \in Seq(Home)
  BY Zenon DEF ControlInv, ControlTypes, BufHeld
<1>5. LoopBounds'
  BY <1>2, Zenon DEF LoopBounds, CommitPC
<1>6. DataTypes'
  BY <1>4, Zenon DEF DataTypes
<1>7. Distinct(lh')
  <2>1. CASE buf[p] \in Listed(lh)
    BY <2>1, Zenon DEF Headers
  <2>2. CASE buf[p] \notin Listed(lh)
    <3>1. lh' = Append(lh, buf[p])
      BY <2>2, Zenon
    <3>. QED
      BY <1>4, <2>2, <3>1 DEF Headers, Distinct, Listed
  <2>. QED
    BY <2>1, <2>2, Zenon
<1>8. Headers'
  BY <1>7, Zenon DEF Headers, Distinct
<1>9. HeadState'
  BY <1>1, <1>3, Zenon DEF HeadState
<1>10. BufOwner'
  BY Zenon DEF BufOwner, ControlInv, ControlTypes
<1>11. Clean'
  BY Zenon DEF Clean, ControlInv, ControlTypes
<1>12. Listed(lh') = Listed(lh) \cup {buf[p]}
  <2>1. CASE buf[p] \in Listed(lh)
    BY <2>1, Zenon
  <2>2. CASE buf[p] \notin Listed(lh)
    <3>1. lh' = Append(lh, buf[p])
      BY <2>2, Zenon
    <3>. QED
      BY <1>4, <3>1, SMTT(20) DEF Listed
  <2>. QED
    BY <2>1, <2>2, Zenon
<1>13. Pinned'
  BY <1>1, <1>2, <1>3, <1>12, Zenon DEF Pinned, CommitPC
<1>14. Copied' /\ Installed'
  BY <1>2, Zenon DEF Copied, Installed, CommitPC
<1>. QED
  BY <1>5, <1>6, <1>8, <1>9, <1>10, <1>11, <1>13, <1>14, ZenonT(30)

(* end_op(): write_log() starts at the first block of a log not empty.     *)
LEMMA DataEndOp ==
  ASSUME LogInv, NEW p \in Procs, end_op(p)
  PROVE  DataInv'
<1>. USE DEF LogInv, DataInv, end_op, diskVars
<1>1. /\ ~committing
      /\ \A q \in Procs : pc[q] \notin CommitPC
      /\ ~Installing
  BY OperationFacts, Zenon DEF InOpPC
<1>2. wrote' \in [Procs -> SUBSET Home]
  BY Zenon DEF DataTypes
<1>3. CASE outstanding # 1 \/ lh = <<>>
  <2>1. \A q \in Procs : pc'[q] # pc[q] => /\ pc[q] \notin DataPC
                                           /\ pc'[q] \notin DataPC
    BY <1>1, <1>3, Zenon DEF Wakeup, DataPC, ControlInv, ControlTypes
  <2>. QED
    BY <1>1, <1>2, <2>1, DataControlStep
<1>4. CASE outstanding = 1 /\ lh # <<>>
  <2>1. pc' = [pc EXCEPT ![p] = "write_log"]
    BY <1>1, <1>4, Zenon
  <2>2. \A q \in Procs : pc'[q] \in CommitPC => q = p /\ pc'[q] = "write_log"
    BY <1>1, <2>1, Zenon DEF ControlInv, ControlTypes
  <2>3. ~Installing'
    BY <2>2, Zenon DEF Installing, CommitPC
  <2>4. LoopBounds'
    <3>1. Len(lh) >= 1
      BY <1>4 DEF ControlInv, ControlTypes
    <3>. QED
      BY <1>4, <2>2, <3>1 DEF LoopBounds, CommitPC
  <2>5. DataTypes' /\ Headers'
    BY <1>2, Zenon DEF DataTypes, Headers, Distinct
  <2>6. HeadState'
    BY <1>1, <2>3, Zenon DEF HeadState
  <2>7. BufOwner' /\ Clean'
    BY <2>1, Zenon DEF BufOwner, Clean, ControlInv, ControlTypes
  <2>8. Pinned'
    BY <1>1, <2>2, <2>3, Zenon DEF Pinned, CommitPC, Listed
  <2>9. Copied' /\ Installed'
    BY <2>2 DEF Copied, Installed, CommitPC
  <2>. QED
    BY <2>4, <2>5, <2>6, <2>7, <2>8, <2>9, Zenon
<1>. QED
  BY <1>3, <1>4, Zenon

-----------------------------------------------------------------------------
(* While a process commits, no buffer is held and nobody else commits.     *)
LEMMA CommitFacts ==
  ASSUME LogInv, NEW p \in Procs, pc[p] \in CommitPC
  PROVE  /\ committing
         /\ InOp = {}
         /\ boot = "up"
         /\ \A q \in Procs : buf[q] = 0
         /\ \A q \in Procs : pc[q] \in CommitPC => q = p
<1>1. committing /\ outstanding = 0
  BY Zenon DEF LogInv, ControlInv, Committer
<1>2. InOp = {}
  BY <1>1, CountZero, Zenon DEF LogInv, ControlInv
<1>3. \A q \in Procs : buf[q] = 0
  BY <1>2, Zenon DEF LogInv, DataInv, BufOwner, InOp, InOpPC
<1>4. boot = "up"
  BY <1>1, Zenon DEF LogInv, ControlInv, Down
<1>. QED
  BY <1>1, <1>2, <1>3, <1>4, Zenon DEF LogInv, ControlInv, Committer

(* write_log(): the pinned buffer goes to a block of the log region.       *)
LEMMA WriteLogEffect ==
  ASSUME LogInv, NEW p \in Procs, write_log(p)
  PROVE  /\ tail \in 1 .. Len(lh) /\ tail \in 1 .. NLOG - 1
         /\ tail \in Addrs \ Home
         /\ lh[tail] \in Home
         /\ cache' = [cache EXCEPT ![tail] = cache[lh[tail]]]
         /\ disk' = [disk EXCEPT ![tail] = cache[lh[tail]]]
         /\ dirty' = dirty
<1>. USE DEF LogInv, DataInv
<1>1. tail \in 1 .. Len(lh) /\ lh \in Seq(Home)
  BY DEF write_log, LoopBounds, ControlInv, ControlTypes
<1>2. tail \in 1 .. NLOG - 1
  BY <1>1, LogConstants DEF LogInRegion, LogConstants
<1>3. tail \in Addrs \ Home /\ lh[tail] \in Home
  BY <1>1, <1>2, Layout
<1>4. ~Installing
  BY CommitFacts, Zenon DEF Installing, write_log, CommitPC
<1>5. lh[tail] \in dirty
  BY <1>1, <1>4 DEF Pinned, write_log, Listed
<1>6. Bread(lh[tail]) = {cache[lh[tail]]}
  BY <1>5, Zenon DEF Bread
<1>7. cache' = [cache EXCEPT ![tail] = cache[lh[tail]],
                            ![lh[tail]] = cache[lh[tail]]]
      /\ disk' = [disk EXCEPT ![tail] = cache[lh[tail]]]
      /\ dirty' = dirty \ {tail}
  BY <1>6, Zenon DEF write_log, CopyBlock
<1>8. cache' = [cache EXCEPT ![tail] = cache[lh[tail]]]
  BY <1>3, <1>7, Layout, Zenon DEF DataTypes
<1>9. dirty' = dirty
  BY <1>3, <1>7, Zenon DEF DataTypes
<1>. QED
  BY <1>1, <1>2, <1>3, <1>7, <1>8, <1>9, ZenonT(30)

(* write_log() preserves the data invariant.                               *)
LEMMA DataWriteLog ==
  ASSUME LogInv, NEW p \in Procs, write_log(p)
  PROVE  DataInv'
<1>. USE DEF LogInv, DataInv
<1>1. /\ tail \in 1 .. Len(lh) /\ tail \in 1 .. NLOG - 1
      /\ tail \in Addrs \ Home /\ lh[tail] \in Home
      /\ cache' = [cache EXCEPT ![tail] = cache[lh[tail]]]
      /\ disk' = [disk EXCEPT ![tail] = cache[lh[tail]]]
      /\ dirty' = dirty
  BY WriteLogEffect, Zenon
<1>2. /\ pc[p] = "write_log" /\ boot = "up"
      /\ pc' = [pc EXCEPT ![p] = IF tail = Len(lh) THEN "write_head" ELSE @]
      /\ tail' = tail + 1
      /\ UNCHANGED <<head, lh, buf, wrote, boot>>
  BY Zenon DEF write_log, logVars
<1>3. \A q \in Procs : pc[q] \in CommitPC => q = p
  BY <1>2, CommitFacts, Zenon DEF CommitPC
<1>4. \A q \in Procs : pc'[q] \in CommitPC => q = p /\ pc'[q] \in {"write_log", "write_head"}
  BY <1>2, <1>3, Zenon DEF ControlInv, ControlTypes
<1>5. ~Installing /\ ~Installing'
  BY <1>2, <1>3, <1>4, Zenon DEF Installing, CommitPC
<1>6. lh \in Seq(Home) /\ Len(lh) \in Nat
  BY DEF ControlInv, ControlTypes
<1>7. LoopBounds'
  BY <1>1, <1>2, <1>4, <1>6 DEF LoopBounds, CommitPC, ControlInv, ControlTypes
<1>8. DataTypes'
  BY <1>1, <1>2, Layout, Zenon DEF DataTypes
<1>9. Headers'
  BY <1>2, Zenon DEF Headers, Distinct
<1>10. HeadState'
  BY <1>2, <1>5, Zenon DEF HeadState
<1>11. BufOwner'
  BY <1>2, Zenon DEF BufOwner, ControlInv, ControlTypes
<1>12. Clean'
  BY <1>1, <1>2, Zenon DEF Clean, DataTypes
<1>13. Pinned'
  BY <1>1, <1>2, <1>4, <1>5, Zenon DEF Pinned, CommitPC, Listed
<1>14. \A i \in 1 .. tail : disk'[i] = cache'[lh[i]]
  <2>1. ASSUME NEW i \in 1 .. tail PROVE disk'[i] = cache'[lh[i]]
    <3>1. i \in 1 .. NLOG - 1 /\ i \in 1 .. Len(lh)
      BY <1>1, <1>6, LogConstants DEF LogConstants
    <3>2. i \in Addrs /\ lh[i] \in Home /\ lh[i] # tail /\ lh[i] \in Addrs
      BY <1>1, <1>6, <3>1, Layout
    <3>3. CASE i = tail
      BY <1>1, <3>2, <3>3, Zenon DEF DataTypes
    <3>4. CASE i # tail
      <4>1. i \in 1 .. tail - 1
        BY <1>1, <3>4
      <4>2. disk[i] = cache[lh[i]]
        BY <1>2, <4>1, Zenon DEF Copied
      <4>. QED
        BY <1>1, <3>2, <3>4, <4>2, ZenonT(30) DEF DataTypes
    <3>. QED
      BY <3>3, <3>4, Zenon
  <2>. QED
    BY <2>1, Zenon
<1>15. Copied'
  <2>1. tail' - 1 = tail
    BY <1>1, <1>2
  <2>2. pc'[p] = "write_head" => Len(lh) = tail
    BY <1>2, Zenon DEF ControlInv, ControlTypes
  <2>. QED
    BY <1>2, <1>4, <1>14, <2>1, <2>2, ZenonT(30) DEF Copied, CommitPC
<1>16. Installed'
  BY <1>2, Zenon DEF Installed
<1>. QED
  BY <1>7, <1>8, <1>9, <1>10, <1>11, <1>12, <1>13, <1>15, <1>16, ZenonT(30)

(* write_head(), the commit point, preserves the data invariant.           *)
LEMMA DataWriteHead ==
  ASSUME LogInv, NEW p \in Procs, write_head(p)
  PROVE  DataInv'
<1>. USE DEF LogInv, DataInv, write_head, logVars
<1>1. \A q \in Procs : pc[q] \in CommitPC => q = p
  BY CommitFacts, Zenon DEF CommitPC
<1>2. \A q \in Procs : pc'[q] \in CommitPC => q = p /\ pc'[q] = "install_trans"
  BY <1>1, Zenon DEF ControlInv, ControlTypes
<1>3. ~Installing /\ Installing'
  BY <1>1, Zenon DEF Installing, CommitPC, ControlInv, ControlTypes
<1>4. lh \in Seq(Home) /\ Len(lh) \in Nat
  BY DEF ControlInv, ControlTypes
<1>5. LoopBounds'
  BY <1>2, <1>4 DEF LoopBounds, CommitPC
<1>6. DataTypes'
  BY Zenon DEF DataTypes
<1>7. Headers'
  BY Zenon DEF Headers, Distinct, LogInRegion
<1>8. HeadState'
  BY <1>3, Zenon DEF HeadState
<1>9. BufOwner' /\ Clean'
  BY Zenon DEF BufOwner, Clean, ControlInv, ControlTypes
<1>10. Pinned'
  <2>1. dirty' = {lh[i] : i \in 1 .. Len(lh)}
    BY <1>3, <1>4 DEF Pinned, Listed
  <2>. QED
    BY <1>2, <1>3, <2>1, Zenon DEF Pinned, CommitPC
<1>11. Copied' /\ Installed'
  BY <1>2, Zenon DEF Copied, Installed, CommitPC
<1>. QED
  BY <1>5, <1>6, <1>7, <1>8, <1>9, <1>10, <1>11, ZenonT(30)

(* One iteration of install_trans(): the log block, which no buffer pins,  *)
(* goes to the home block it belongs to.                                   *)
LEMMA InstallEffect ==
  ASSUME LogInv, InstallBlock, tail \in 1 .. Len(lh)
  PROVE  /\ tail \in Addrs \ Home /\ lh[tail] \in Home
         /\ cache' = [cache EXCEPT ![lh[tail]] = disk[tail]]
         /\ disk' = [disk EXCEPT ![lh[tail]] = disk[tail]]
         /\ dirty' = dirty \ {lh[tail]}
         /\ tail' = tail + 1
<1>. USE DEF LogInv, DataInv
<1>1. lh \in Seq(Home)
  BY Zenon DEF ControlInv, ControlTypes
<1>2. tail \in 1 .. NLOG - 1
  BY <1>1, LogConstants DEF LogInRegion, LogConstants
<1>3. tail \in Addrs \ Home /\ lh[tail] \in Home
  BY <1>1, <1>2, Layout
<1>4. cache[tail] = disk[tail]
  <2>1. tail \notin dirty
    BY <1>3, Zenon DEF DataTypes
  <2>2. \A q \in Procs : buf[q] # tail
    BY <1>2, <1>3 DEF ControlInv, ControlTypes
  <2>. QED
    BY <1>3, <2>1, <2>2, Zenon DEF Clean
<1>5. Bread(tail) = {disk[tail]}
  BY <1>4, Zenon DEF Bread
<1>6. /\ cache' = [cache EXCEPT ![lh[tail]] = disk[tail], ![tail] = disk[tail]]
      /\ disk' = [disk EXCEPT ![lh[tail]] = disk[tail]]
      /\ dirty' = dirty \ {lh[tail]}
      /\ tail' = tail + 1
  BY <1>5, Zenon DEF InstallBlock, CopyBlock
<1>7. cache' = [cache EXCEPT ![lh[tail]] = disk[tail]]
  BY <1>3, <1>4, <1>6, Layout, Zenon DEF DataTypes
<1>. QED
  BY <1>3, <1>6, <1>7, Zenon

(* install_trans() in commit() preserves the data invariant.               *)
LEMMA DataInstall ==
  ASSUME LogInv, NEW p \in Procs, install_trans(p)
  PROVE  DataInv'
<1>. USE DEF LogInv, DataInv
<1>1. /\ pc[p] = "install_trans" /\ boot = "up"
      /\ pc' = [pc EXCEPT ![p] = IF tail = Len(lh) THEN "clear_head" ELSE @]
      /\ UNCHANGED <<head, lh, buf, wrote, boot>>
  BY Zenon DEF install_trans, logVars
<1>2. tail \in 1 .. Len(lh) /\ lh \in Seq(Home) /\ Len(lh) \in Nat
  BY <1>1 DEF LoopBounds, ControlInv, ControlTypes
<1>3. /\ tail \in Addrs \ Home /\ lh[tail] \in Home
      /\ cache' = [cache EXCEPT ![lh[tail]] = disk[tail]]
      /\ disk' = [disk EXCEPT ![lh[tail]] = disk[tail]]
      /\ dirty' = dirty \ {lh[tail]}
      /\ tail' = tail + 1
  BY <1>2, InstallEffect, Zenon DEF install_trans
<1>4. cache' = cache
  <2>1. disk[tail] = cache[lh[tail]]
    BY <1>1, <1>2, Zenon DEF Copied
  <2>. QED
    BY <1>3, <2>1, Layout, Zenon DEF DataTypes
<1>5. \A q \in Procs : pc[q] \in CommitPC => q = p
  BY <1>1, CommitFacts, Zenon DEF CommitPC
<1>6. \A q \in Procs : pc'[q] \in CommitPC => q = p /\ pc'[q] \in {"install_trans", "clear_head"}
  BY <1>1, <1>5, Zenon DEF ControlInv, ControlTypes
<1>7. Installing /\ Installing'
  BY <1>1, Zenon DEF Installing, ControlInv, ControlTypes
<1>8. LoopBounds'
  <2>1. pc'[p] = "install_trans" => tail' <= Len(lh)
    BY <1>1, <1>2, <1>3 DEF ControlInv, ControlTypes
  <2>. QED
    BY <1>1, <1>2, <1>3, <1>6, <2>1, SMTT(20) DEF LoopBounds, CommitPC
<1>9. DataTypes'
  BY <1>1, <1>3, <1>4, Layout, Zenon DEF DataTypes
<1>10. Headers' /\ HeadState'
  BY <1>1, <1>7, ZenonT(30) DEF Headers, Distinct, HeadState
<1>11. BufOwner'
  BY <1>1, Zenon DEF BufOwner, ControlInv, ControlTypes
<1>12. Clean'
  BY <1>1, <1>3, <1>4, Zenon DEF Clean, DataTypes, Copied
<1>13. dirty' = {lh[i] : i \in tail + 1 .. Len(lh)}
  <2>1. dirty = {lh[i] : i \in tail .. Len(lh)}
    BY <1>1, Zenon DEF Pinned
  <2>2. \A i \in tail + 1 .. Len(lh) : lh[i] # lh[tail]
    BY <1>2 DEF Headers, Distinct
  <2>. QED
    BY <1>2, <1>3, <2>1, <2>2
<1>14. Pinned'
  <2>1. pc'[p] = "clear_head" => tail = Len(lh)
    BY <1>1, Zenon DEF ControlInv, ControlTypes
  <2>2. tail = Len(lh) => dirty' = {}
    BY <1>2, <1>13
  <2>. QED
    BY <1>1, <1>3, <1>6, <1>7, <1>13, <2>1, <2>2, ZenonT(30) DEF Pinned, CommitPC
<1>15. \A i \in 1 .. Len(lh) : disk'[i] = cache'[lh[i]]
  <2>1. ASSUME NEW i \in 1 .. Len(lh) PROVE disk'[i] = cache'[lh[i]]
    <3>1. disk[i] = cache[lh[i]]
      BY <1>1, Zenon DEF Copied
    <3>2. i \in Addrs /\ i \notin Home
      BY <1>2, Layout, LogConstants DEF LogInRegion, LogConstants
    <3>. QED
      BY <1>3, <1>4, <3>1, <3>2, Zenon DEF DataTypes
  <2>. QED
    BY <2>1, Zenon
<1>16. Copied' /\ Installed'
  BY <1>1, <1>6, <1>15, Zenon DEF Copied, Installed, CommitPC
<1>. QED
  BY <1>8, <1>9, <1>10, <1>11, <1>12, <1>14, <1>16, ZenonT(30)

(* Clearing the header in commit() preserves the data invariant.           *)
LEMMA DataClearHead ==
  ASSUME LogInv, NEW p \in Procs, clear_head(p)
  PROVE  DataInv'
<1>. USE DEF LogInv, DataInv, clear_head
<1>1. \A q \in Procs : pc[q] \in CommitPC => q = p
  BY CommitFacts, Zenon DEF CommitPC
<1>2. \A q \in Procs : pc'[q] \in CommitPC => pc'[q] = "committed"
  BY <1>1, Zenon DEF ControlInv, ControlTypes
<1>3. ~Installing'
  BY <1>2, Zenon DEF Installing, CommitPC
<1>4. LoopBounds'
  BY <1>2, Zenon DEF LoopBounds, CommitPC
<1>5. DataTypes'
  BY Zenon DEF DataTypes
<1>6. Headers'
  BY LogConstants DEF Headers, Distinct, LogConstants
<1>7. HeadState'
  BY <1>3, Zenon DEF HeadState
<1>8. BufOwner' /\ Clean'
  BY Zenon DEF BufOwner, Clean, ControlInv, ControlTypes
<1>9. Pinned'
  BY <1>2, <1>3 DEF Pinned, CommitPC, Listed
<1>10. Copied' /\ Installed'
  BY <1>2, Zenon DEF Copied, Installed, CommitPC
<1>. QED
  BY <1>4, <1>5, <1>6, <1>7, <1>8, <1>9, <1>10, ZenonT(30)

(* A crash preserves the data invariant.                                   *)
LEMMA DataCrash ==
  ASSUME LogInv, Crash
  PROVE  DataInv'
<1>. USE DEF LogInv, DataInv, Crash, diskVars
<1>1. LoopBounds' /\ BufOwner' /\ Clean' /\ Copied' /\ Installed'
  BY DEF LoopBounds, BufOwner, Clean, Copied, Installed
<1>2. DataTypes'
  BY Zenon DEF DataTypes
<1>3. Headers'
  BY DEF Headers, Distinct
<1>4. HeadState'
  BY Zenon DEF HeadState, Installing
<1>5. Pinned'
  BY Zenon DEF Pinned
<1>. QED
  BY <1>1, <1>2, <1>3, <1>4, <1>5, ZenonT(30)

(* Before recovery has finished no process is in the log and no buffer is  *)
(* held or pinned.                                                         *)
LEMMA DownFacts ==
  ASSUME LogInv, boot # "up"
  PROVE  /\ \A q \in Procs : pc[q] = "begin_op" /\ buf[q] = 0
         /\ ~Installing /\ dirty = {}
         /\ \A a \in Addrs : cache[a] = disk[a]
<1>. USE DEF LogInv, DataInv
<1>1. \A q \in Procs : pc[q] = "begin_op"
  BY Zenon DEF ControlInv, Down
<1>2. \A q \in Procs : buf[q] = 0
  BY <1>1, Zenon DEF BufOwner
<1>3. ~Installing
  BY <1>1, Zenon DEF Installing
<1>4. dirty = {}
  BY Zenon DEF Pinned
<1>5. \A a \in Addrs : a # 0
  BY LogConstants DEF Addrs, LogConstants
<1>. QED
  BY <1>1, <1>2, <1>3, <1>4, <1>5, ZenonT(30) DEF Clean

(* Recovery preserves the data invariant.                                  *)
LEMMA DataRecover ==
  ASSUME LogInv, Recover
  PROVE  DataInv'
<1>. USE DEF LogInv, DataInv
<1>1. boot # "up"
  BY Zenon DEF Recover, recover_read_head, recover_install, recover_clear_head
<1>2. /\ \A q \in Procs : pc[q] = "begin_op" /\ buf[q] = 0
      /\ dirty = {}
      /\ \A a \in Addrs : cache[a] = disk[a]
  BY <1>1, DownFacts, Zenon
<1>3. pc' = pc /\ buf' = buf /\ wrote' = wrote
  BY Zenon DEF Recover, recover_read_head, recover_install, recover_clear_head, opVars
<1>4. ~Installing' /\ BufOwner' /\ Copied'
  BY <1>2, <1>3, Zenon DEF Installing, BufOwner, Copied
<1>5. head \in Seq(Home) /\ lh \in Seq(Home) /\ Len(head) \in Nat
  BY DEF ControlInv, ControlTypes
<1>6. CASE recover_read_head
  <2>. USE <1>6 DEF recover_read_head, diskVars, opVars
  <2>1. LoopBounds'
    BY <1>2, <1>3, <1>5 DEF LoopBounds
  <2>2. DataTypes' /\ Headers' /\ HeadState'
    BY <1>4, Zenon DEF DataTypes, Headers, Distinct, HeadState
  <2>3. Clean' /\ Pinned'
    BY <1>2, <1>3, Zenon DEF Clean, Pinned
  <2>4. Installed'
    BY <1>5 DEF Installed
  <2>. QED
    BY <1>4, <2>1, <2>2, <2>3, <2>4, ZenonT(30)
<1>7. CASE recover_install
  <2>. USE <1>7 DEF recover_install, logVars, opVars
  <2>1. tail \in 1 .. Len(lh) /\ Len(lh) \in Nat
    BY <1>5 DEF LoopBounds
  <2>2. /\ tail \in Addrs \ Home /\ lh[tail] \in Home
        /\ cache' = [cache EXCEPT ![lh[tail]] = disk[tail]]
        /\ disk' = [disk EXCEPT ![lh[tail]] = disk[tail]]
        /\ dirty' = {}
        /\ tail' = tail + 1
    BY <1>2, <2>1, InstallEffect, Zenon
  <2>3. LoopBounds'
    <3>1. tail' \in Nat \ {0}
      BY <2>1, <2>2
    <3>2. \A p \in Procs : pc'[p] = "begin_op"
      BY <1>2, <1>3, Zenon
    <3>3. boot' = "install_trans" => tail' <= Len(lh')
      <4>1. lh' = lh /\ (boot' = "install_trans" => tail # Len(lh))
        BY Zenon
      <4>2. tail' = tail + 1
        BY <2>2, Zenon
      <4>. HIDE <1>7
      <4>. QED
        BY <1>5, <2>1, <4>1, <4>2
    <3>. QED
      BY <3>1, <3>2, <3>3, Zenon DEF LoopBounds
  <2>4. DataTypes'
    BY <2>2, <1>3, Layout, Zenon DEF DataTypes
  <2>5. Headers' /\ HeadState'
    BY <1>4, Zenon DEF Headers, Distinct, HeadState
  <2>6. Clean' /\ Pinned'
    BY <1>2, <1>3, <1>4, <2>2, Layout, ZenonT(30) DEF Clean, Pinned, DataTypes
  <2>7. \A i \in 1 .. tail : disk'[lh[i]] = disk'[i]
    <3>1. ASSUME NEW i \in 1 .. tail PROVE disk'[lh[i]] = disk'[i]
      <4>1. i \in 1 .. Len(lh) /\ i \in Addrs /\ i \notin Home
        BY <2>1, Layout, LogConstants DEF LogInRegion, LogConstants
      <4>2. lh[i] \in Home /\ lh[i] \in Addrs
        <5>1. lh[i] \in Home
          BY <1>5, <4>1
        <5>. QED
          BY <5>1, Layout, Zenon
      <4>3. disk'[i] = disk[i]
        BY <2>2, <4>1, Zenon DEF DataTypes
      <4>4. CASE i = tail
        BY <2>2, <4>2, <4>3, <4>4, ZenonT(30) DEF DataTypes
      <4>5. CASE i # tail
        <5>1. disk[lh[i]] = disk[i]
          BY <2>1, <4>5 DEF Installed
        <5>2. lh[i] # lh[tail]
          BY <1>5, <2>1, <4>1, <4>5, SMTT(20) DEF Headers, Distinct
        <5>. QED
          BY <2>2, <4>2, <4>3, <5>1, <5>2, ZenonT(30) DEF DataTypes
      <4>. QED
        BY <4>4, <4>5, Zenon
    <3>. QED
      BY <3>1, Zenon
  <2>8. Installed'
    BY <2>1, <2>2, <2>7 DEF Installed
  <2>. QED
    BY <1>4, <2>3, <2>4, <2>5, <2>6, <2>8, ZenonT(30)
<1>8. CASE recover_clear_head
  <2>. USE <1>8 DEF recover_clear_head, opVars
  <2>1. LoopBounds'
    BY <1>2, <1>3, Zenon DEF LoopBounds
  <2>2. DataTypes' /\ HeadState'
    BY <1>4, Zenon DEF DataTypes, HeadState
  <2>3. Headers'
    BY LogConstants, SMTT(20) DEF Headers, Distinct, LogConstants
  <2>4. Clean' /\ Pinned'
    BY <1>2, <1>3 DEF Clean, Pinned, Listed
  <2>5. Installed'
    BY Zenon DEF Installed
  <2>. QED
    BY <1>4, <2>1, <2>2, <2>3, <2>4, <2>5, ZenonT(30)
<1>. QED
  BY <1>6, <1>7, <1>8, Zenon DEF Recover

(* While the log stays within its region, every step preserves LogInv.     *)
LEMMA LogStep ==
  ASSUME LogInv, LogInRegion', [Next]_vars
  PROVE  LogInv'
<1>1. ControlInv'
  BY ControlStep, Zenon DEF LogInv
<1>2. DataInv'
  <2>1. ASSUME NEW p \in Procs, begin_op(p) \/ begin_op_sleep(p) \/ end_commit(p)
        PROVE  DataInv'
    <3>1. /\ UNCHANGED <<disk, head, cache, dirty, lh, buf, wrote, tail, boot>>
          /\ \A q \in Procs : pc'[q] # pc[q] => /\ pc[q] \notin DataPC
                                                /\ pc'[q] \notin DataPC
      BY <2>1, Zenon DEF begin_op, begin_op_sleep, end_commit, diskVars, logVars, Wakeup, DataPC, LogInv,
         ControlInv, ControlTypes
    <3>2. tail \in Nat \ {0} /\ wrote \in [Procs -> SUBSET Home]
      BY Zenon DEF LogInv, DataInv, LoopBounds, DataTypes
    <3>. QED
      BY <3>1, <3>2, DataControlStep, ZenonT(30)
  <2>2. ASSUME NEW p \in Procs, Operation(p) PROVE DataInv'
    BY <2>1, <2>2, DataModify, DataLogWrite, DataEndOp, ZenonT(30) DEF Operation
  <2>3. ASSUME NEW p \in Procs, Commit(p) PROVE DataInv'
    BY <2>1, <2>3, DataWriteLog, DataWriteHead, DataInstall, DataClearHead, ZenonT(30) DEF Commit
  <2>4. CASE UNCHANGED vars
    BY <2>4, DataControlStep, Zenon DEF vars, LogInv, DataInv, LoopBounds, DataTypes
  <2>. QED
    BY <2>2, <2>3, <2>4, DataCrash, DataRecover, ZenonT(30) DEF Next
<1>. QED
  BY <1>1, <1>2, Zenon DEF LogInv

(* The invariant of the log, for every value of the constants.             *)
THEOREM LogInvariant == Spec /\ []LogInRegion => []LogInv
<1>1. Init /\ LogInRegion => LogInv
  BY ControlInit, DataInit, Zenon DEF LogInv
<1>2. LogInv /\ LogInRegion' /\ [Next]_vars => LogInv'
  BY LogStep, Zenon
<1>. QED
  BY <1>1, <1>2, PTL DEF Spec

-----------------------------------------------------------------------------
(* Initial states map to initial states of the atomic disk.                *)
LEMMA RefineInit ==
  ASSUME Init
  PROVE  Abstract!Init
<1>. USE DEF Init
<1>1. Durable = [b \in Home |-> disk[b]]
  BY ReplayEmpty, Zenon DEF Durable
<1>2. Durable \in [Home -> Vals]
  BY <1>1, Layout, Zenon
<1>3. View = Durable
  BY <1>1, Zenon DEF View
<1>4. InOp = {}
  BY Zenon DEF InOp, InOpPC
<1>. QED
  BY <1>2, <1>3, <1>4, ZenonT(30) DEF Abstract!Init

(* Operations map to Begin, Write, End or to no step of the atomic disk.   *)
LEMMA RefineOperation ==
  ASSUME LogInv, NEW p \in Procs, Operation(p)
  PROVE  Abstract!Next \/ UNCHANGED Abstract!vars
<1>1. Durable' = Durable
  BY Zenon DEF Operation, begin_op, begin_op_sleep, modify, log_write, end_op, diskVars, Durable
<1>2. CASE begin_op(p)
  <2>1. InOp' = InOp \cup {p} /\ p \notin InOp
    BY <1>2, Zenon DEF begin_op, InOp, InOpPC, LogInv, ControlInv, ControlTypes
  <2>2. View' = View
    BY <1>2, Zenon DEF begin_op, View
  <2>3. Abstract!Begin(p)
    BY <1>1, <2>1, <2>2, Zenon DEF Abstract!Begin
  <2>. QED
    BY <2>3, Zenon DEF Abstract!Next
<1>3. CASE begin_op_sleep(p) \/ log_write(p)
  <2>1. InOp' = InOp
    BY <1>3, Zenon DEF begin_op_sleep, log_write, InOp, InOpPC, LogInv, ControlInv, ControlTypes
  <2>2. View' = View
    BY <1>3, Zenon DEF begin_op_sleep, log_write, View
  <2>. QED
    BY <1>1, <2>1, <2>2, Zenon DEF Abstract!vars
<1>4. ASSUME NEW b \in Home, NEW v \in Vals, modify(p, b, v)
      PROVE  Abstract!Next
  <2>1. InOp' = InOp /\ p \in InOp
    BY <1>4, Zenon DEF modify, InOp, InOpPC, LogInv, ControlInv, ControlTypes
  <2>2. View' = [View EXCEPT ![b] = v]
    BY <1>4, Layout, Zenon DEF modify, View, LogInv, DataInv, DataTypes
  <2>3. Abstract!Write(p, b, v)
    BY <1>1, <2>1, <2>2, ZenonT(30) DEF Abstract!Write
  <2>. QED
    BY <2>3, Zenon DEF Abstract!Next
<1>5. CASE end_op(p)
  <2>1. ~committing
    BY <1>5, OperationFacts, Zenon DEF end_op, InOpPC
  <2>2. InOp' = InOp \ {p} /\ p \in InOp
    BY <1>5, <2>1, Zenon DEF end_op, Wakeup, InOp, InOpPC, LogInv, ControlInv, ControlTypes
  <2>3. View' = View
    BY <1>5, Zenon DEF end_op, View
  <2>4. Abstract!End(p)
    BY <1>1, <2>2, <2>3, Zenon DEF Abstract!End
  <2>. QED
    BY <2>4, Zenon DEF Abstract!Next
<1>. QED
  BY <1>2, <1>3, <1>4, <1>5, ZenonT(30) DEF Operation

(* In commit(), write_head() maps to Commit and every other step to none.  *)
LEMMA RefineCommit ==
  ASSUME LogInv, LogInv', NEW p \in Procs, Commit(p)
  PROVE  Abstract!Next \/ UNCHANGED Abstract!vars
<1>. USE DEF LogInv, DataInv
<1>1. pc[p] \in CommitPC /\ boot = "up" /\ boot' = "up"
  BY Zenon DEF Commit, write_log, write_head, install_trans, clear_head, end_commit, CommitPC
<1>2. InOp = {} /\ \A q \in Procs : pc[q] \in CommitPC => q = p
  BY <1>1, CommitFacts, Zenon
<1>3. InOp' = InOp
  BY <1>2, Zenon DEF Commit, write_log, write_head, install_trans, clear_head, end_commit, Wakeup, InOp,
     InOpPC, ControlInv, ControlTypes
<1>4. lh \in Seq(Home) /\ head \in Seq(Home)
  BY Zenon DEF ControlInv, ControlTypes
<1>5. CASE write_log(p)
  <2>1. tail \in Addrs \ Home
        /\ cache' = [cache EXCEPT ![tail] = cache[lh[tail]]]
        /\ disk' = [disk EXCEPT ![tail] = cache[lh[tail]]]
    BY <1>5, WriteLogEffect, Zenon
  <2>2. \A b \in Home : cache'[b] = cache[b] /\ disk'[b] = disk[b]
    BY <2>1, Layout, ZenonT(30) DEF DataTypes
  <2>3. View' = View
    BY <1>1, <2>2, Zenon DEF View
  <2>4. head = <<>> /\ head' = <<>>
    BY <1>1, <1>2, <1>5, ZenonT(30) DEF write_log, HeadState, Installing, CommitPC
  <2>5. Durable' = Durable
    BY <2>2, <2>4, ReplayEmpty, ZenonT(30) DEF Durable
  <2>. QED
    BY <1>3, <2>3, <2>5, ZenonT(30) DEF Abstract!vars
<1>6. CASE write_head(p)
  <2>1. View' = View
    BY <1>6, Zenon DEF write_head, View
  <2>2. Durable' = View
    <3>1. head' = lh /\ disk' = disk
      BY <1>6, Zenon DEF write_head
    <3>2. ASSUME NEW b \in Home PROVE Replay(lh, disk)[b] = cache[b]
      <4>1. CASE b \in Listed(lh)
        <5>1. PICK i \in DOMAIN lh : lh[i] = b
          BY <4>1, Zenon DEF Listed
        <5>2. Replay(lh, disk)[b] = disk[i]
          BY <1>4, <5>1, ReplayListed, Zenon DEF Headers
        <5>3. i \in 1 .. Len(lh)
          BY <1>4, <5>1
        <5>. QED
          BY <1>6, <5>1, <5>2, <5>3, Zenon DEF write_head, Copied
      <4>2. CASE b \notin Listed(lh)
        <5>1. ~Installing
          BY <1>2, <1>6, Zenon DEF write_head, Installing, CommitPC
        <5>2. b \notin dirty
          BY <1>1, <4>2, <5>1, Zenon DEF Pinned
        <5>3. \A q \in Procs : buf[q] # b
          BY <1>1, CommitFacts, Layout, Zenon
        <5>4. b \in Addrs
          BY Layout, Zenon
        <5>5. cache[b] = disk[b]
          BY <5>2, <5>3, <5>4, Zenon DEF Clean
        <5>. QED
          BY <4>2, <5>5, ReplayUnlisted, Zenon
      <4>. QED
        BY <4>1, <4>2, Zenon
    <3>3. Replay(lh, disk) = [b \in Home |-> cache[b]]
      BY <3>2, Zenon DEF Replay
    <3>. QED
      BY <1>1, <3>1, <3>3, Zenon DEF Durable, View
  <2>3. Abstract!Commit
    BY <1>2, <1>3, <2>1, <2>2, ZenonT(30) DEF Abstract!Commit
  <2>. QED
    BY <2>3, Zenon DEF Abstract!Next
<1>7. CASE install_trans(p)
  <2>1. tail \in 1 .. Len(lh) /\ head = lh /\ head' = head
    BY <1>4, <1>7 DEF install_trans, LoopBounds, HeadState, Installing
  <2>2. /\ lh[tail] \in Home
        /\ cache' = [cache EXCEPT ![lh[tail]] = disk[tail]]
        /\ disk' = [disk EXCEPT ![lh[tail]] = disk[tail]]
    BY <1>7, <2>1, InstallEffect, Zenon DEF install_trans
  <2>3. disk[tail] = cache[lh[tail]]
    BY <1>7, <2>1, Zenon DEF install_trans, Copied
  <2>4. View' = View
    BY <1>1, <2>2, <2>3, Layout, ZenonT(30) DEF View, DataTypes
  <2>5. Durable' = Durable
    <3>1. \A i \in DOMAIN lh : i \in Addrs /\ i \notin Home
      BY <1>4, Layout, LogConstants DEF LogInRegion, LogConstants
    <3>2. \A i \in DOMAIN lh : disk'[i] = disk[i]
      BY <2>2, <3>1, Zenon DEF DataTypes
    <3>3. lh[tail] \in Listed(lh)
      BY <1>4, <2>1 DEF Listed
    <3>4. \A b \in Home : b \notin Listed(lh) => disk'[b] = disk[b]
      BY <2>2, <3>3, Layout, Zenon DEF DataTypes
    <3>5. Replay(lh, disk') = Replay(lh, disk)
      BY <1>4, <3>2, <3>4, ReplayEqual, ZenonT(30) DEF Headers
    <3>. QED
      BY <2>1, <3>5, Zenon DEF Durable
  <2>. QED
    BY <1>3, <2>4, <2>5, Zenon DEF Abstract!vars
<1>8. CASE clear_head(p)
  <2>1. View' = View
    BY <1>8, Zenon DEF clear_head, View
  <2>2. head = lh /\ dirty = {} /\ head' = <<>> /\ disk' = disk
    BY <1>8, Zenon DEF clear_head, HeadState, Installing, Pinned
  <2>3. \A b \in Home : cache[b] = disk[b]
    <3>1. \A b \in Home, q \in Procs : buf[q] # b
      BY <1>1, CommitFacts, Layout, Zenon
    <3>. QED
      BY <2>2, <3>1, Layout, Zenon DEF Clean
  <2>4. ASSUME NEW b \in Home PROVE Replay(lh, disk)[b] = disk[b]
    <3>1. CASE b \in Listed(lh)
      <4>1. PICK i \in DOMAIN lh : lh[i] = b
        BY <3>1, Zenon DEF Listed
      <4>2. Replay(lh, disk)[b] = disk[i]
        BY <1>4, <4>1, ReplayListed, Zenon DEF Headers
      <4>3. disk[i] = cache[b]
        <5>1. pc[p] = "clear_head" /\ i \in 1 .. Len(lh)
          BY <1>4, <1>8, <4>1 DEF clear_head
        <5>2. disk[i] = cache[lh[i]]
          BY <5>1, Zenon DEF Copied
        <5>. QED
          BY <4>1, <5>2, Zenon
      <4>. QED
        BY <2>3, <4>2, <4>3, ZenonT(30)
    <3>2. CASE b \notin Listed(lh)
      BY <3>2, ReplayUnlisted, Zenon
    <3>. QED
      BY <3>1, <3>2, Zenon
  <2>5. Durable' = Durable
    <3>1. Replay(lh, disk) = [b \in Home |-> disk[b]]
      BY <2>4, Zenon DEF Replay
    <3>. QED
      BY <2>2, <3>1, ReplayEmpty, Zenon DEF Durable
  <2>. QED
    BY <1>3, <2>1, <2>5, Zenon DEF Abstract!vars
<1>9. CASE end_commit(p)
  BY <1>3, <1>9, Zenon DEF end_commit, diskVars, View, Durable, Abstract!vars
<1>. QED
  BY <1>5, <1>6, <1>7, <1>8, <1>9, ZenonT(30) DEF Commit

(* A crash maps to Crash; recovery changes nothing on the atomic disk.     *)
LEMMA RefineCrash ==
  ASSUME LogInv, Crash
  PROVE  Abstract!Next
<1>1. Durable' = Durable
  BY Zenon DEF Crash, diskVars, Durable
<1>2. View' = Durable
  BY <1>1, Zenon DEF Crash, View
<1>3. InOp' = {}
  BY Zenon DEF Crash, InOp, InOpPC
<1>. QED
  BY <1>1, <1>2, <1>3, Zenon DEF Abstract!Next, Abstract!Crash

(* No step of recover_from_log() is visible on the atomic disk.            *)
LEMMA RefineRecover ==
  ASSUME LogInv, Recover
  PROVE  UNCHANGED Abstract!vars
<1>. USE DEF LogInv, DataInv
<1>1. boot # "up"
  BY Zenon DEF Recover, recover_read_head, recover_install, recover_clear_head
<1>2. InOp' = InOp
  BY Zenon DEF Recover, recover_read_head, recover_install, recover_clear_head, opVars, InOp
<1>3. \A a \in Addrs : cache[a] = disk[a]
  BY <1>1, DownFacts, Zenon
<1>4. lh \in Seq(Home) /\ head \in Seq(Home)
  BY Zenon DEF ControlInv, ControlTypes
<1>5. CASE recover_read_head
  BY <1>1, <1>2, <1>5, Zenon DEF recover_read_head, diskVars, View, Durable, Abstract!vars
<1>6. CASE recover_install
  <2>1. tail \in 1 .. Len(lh) /\ head = lh /\ head' = head /\ boot' # "up"
    BY <1>4, <1>6 DEF recover_install, LoopBounds, HeadState
  <2>2. /\ lh[tail] \in Home
        /\ disk' = [disk EXCEPT ![lh[tail]] = disk[tail]]
    BY <1>6, <2>1, InstallEffect, Zenon DEF recover_install
  <2>3. Durable' = Durable
    <3>1. \A i \in DOMAIN lh : i \in Addrs /\ i \notin Home
      BY <1>4, Layout, LogConstants DEF LogInRegion, LogConstants
    <3>2. \A i \in DOMAIN lh : disk'[i] = disk[i]
      BY <2>2, <3>1, Zenon DEF DataTypes
    <3>3. lh[tail] \in Listed(lh)
      BY <1>4, <2>1 DEF Listed
    <3>4. \A b \in Home : b \notin Listed(lh) => disk'[b] = disk[b]
      BY <2>2, <3>3, Layout, Zenon DEF DataTypes
    <3>5. Replay(lh, disk') = Replay(lh, disk)
      BY <1>4, <3>2, <3>4, ReplayEqual, Zenon DEF Headers
    <3>. QED
      BY <2>1, <3>5, Zenon DEF Durable
  <2>. QED
    BY <1>1, <1>2, <2>1, <2>3, Zenon DEF View, Abstract!vars
<1>7. CASE recover_clear_head
  <2>1. head = lh /\ head' = <<>> /\ disk' = disk /\ cache' = cache /\ boot' = "up"
    BY <1>7, Zenon DEF recover_clear_head, HeadState
  <2>2. ASSUME NEW b \in Home PROVE Replay(lh, disk)[b] = disk[b]
    <3>1. CASE b \in Listed(lh)
      <4>1. PICK i \in DOMAIN lh : lh[i] = b
        BY <3>1, Zenon DEF Listed
      <4>2. Replay(lh, disk)[b] = disk[i]
        BY <1>4, <4>1, ReplayListed, Zenon DEF Headers
      <4>. QED
        BY <1>4, <1>7, <4>1, <4>2 DEF recover_clear_head, Installed
    <3>2. CASE b \notin Listed(lh)
      BY <3>2, ReplayUnlisted, Zenon
    <3>. QED
      BY <3>1, <3>2, Zenon
  <2>3. Replay(lh, disk) = [b \in Home |-> disk[b]]
    BY <2>2, Zenon DEF Replay
  <2>4. Durable' = Durable /\ Durable = [b \in Home |-> disk[b]]
    BY <2>1, <2>3, ReplayEmpty, Zenon DEF Durable
  <2>5. View' = Durable /\ View = Durable
    BY <1>1, <1>3, <2>1, <2>4, Layout, Zenon DEF View
  <2>. QED
    BY <1>2, <2>4, <2>5, Zenon DEF Abstract!vars
<1>. QED
  BY <1>5, <1>6, <1>7, Zenon DEF Recover

(* The log implements the atomic disk, for any number of processes, blocks *)
(* and values, while it stays within its region of the disk.               *)
THEOREM LogIsAtomic == Spec /\ []LogInRegion => Atomic
<1>1. Init => Abstract!Init
  BY RefineInit, Zenon
<1>2. LogInv /\ LogInv' /\ [Next]_vars => [Abstract!Next]_(Abstract!vars)
  <2>1. SUFFICES ASSUME LogInv, LogInv', [Next]_vars
                 PROVE  Abstract!Next \/ UNCHANGED Abstract!vars
    BY Zenon
  <2>2. CASE UNCHANGED vars
    BY <2>2, Zenon DEF vars, Abstract!vars, Durable, View, InOp
  <2>. QED
    BY <2>1, <2>2, RefineOperation, RefineCommit, RefineCrash, RefineRecover, ZenonT(30) DEF Next
<1>. QED
  BY <1>1, <1>2, LogInvariant, PTL DEF Spec, Atomic, Abstract!Spec

(* When no call is active and no commit runs, everything written is        *)
(* durable.                                                                *)
THEOREM QuiescentIsDurable == Spec /\ []LogInRegion => []QuiescentDurable
<1>1. LogInv => QuiescentDurable
  <2>1. SUFFICES ASSUME LogInv, boot = "up", outstanding = 0, ~committing
                 PROVE  Durable = View /\ lh = <<>> /\ head = <<>> /\ dirty = {}
    BY Zenon DEF QuiescentDurable
  <2>. USE DEF LogInv, DataInv
  <2>2. lh = <<>>
    BY <2>1, Zenon DEF ControlInv, IdleEmpty
  <2>3. ~Installing
    BY <2>1, Zenon DEF ControlInv, Committer, Installing, CommitPC
  <2>4. head = <<>> /\ dirty = {}
    BY <2>1, <2>2, <2>3 DEF HeadState, Pinned, Listed
  <2>5. InOp = {}
    BY <2>1, CountZero, Zenon DEF ControlInv
  <2>6. \A b \in Home : cache[b] = disk[b]
    <3>1. \A q \in Procs : buf[q] = 0
      BY <2>1, <2>5, Zenon DEF BufOwner, InOp, InOpPC
    <3>. QED
      BY <2>1, <2>4, <3>1, Layout, Zenon DEF Clean
  <2>7. Durable = View
    BY <2>1, <2>4, <2>6, ReplayEmpty DEF Durable, View
  <2>. QED
    BY <2>2, <2>4, <2>7, Zenon
<1>. QED
  BY <1>1, LogInvariant, PTL

(* Both without a hypothesis on the run: when operations keep to their     *)
(* reservation and the region has room for LOGSIZE blocks and the header,  *)
(* log.c is atomic under every interleaving and crash, ...                 *)
THEOREM ReservedLogIsAtomic ==
  ASSUME OPBLOCKS <= MAXOPBLOCKS, LOGSIZE < NLOG
  PROVE  Spec => Atomic
  BY LogFits, LogIsAtomic, PTL

(* ... and all that was written is durable when nothing runs.              *)
THEOREM ReservedLogIsDurable ==
  ASSUME OPBLOCKS <= MAXOPBLOCKS, LOGSIZE < NLOG
  PROVE  Spec => []QuiescentDurable
  BY LogFits, QuiescentIsDurable, PTL
=============================================================================
