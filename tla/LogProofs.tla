----------------------------- MODULE LogProofs -----------------------------
(***************************************************************************)
(* Proofs about the redo log.  ControlInv is inductive for every value of  *)
(* the constants and gives the exclusion of commits and operations and the *)
(* absence of lost wakeups.  With it ReserveInv is inductive when no       *)
(* operation writes more than MAXOPBLOCKS blocks, and bounds the log.      *)
(***************************************************************************)
EXTENDS Log, FiniteSetTheorems, FunctionTheorems, TLAPS

ControlTypes ==
  /\ outstanding \in Nat /\ committing \in BOOLEAN
  /\ lh \in Seq(Home) /\ head \in Seq(Home)
  /\ pc \in [Procs -> PCs]
  /\ buf \in [Procs -> Home \cup {0}]
  /\ boot \in BootPCs

(* log.outstanding counts the operations.                                  *)
Counted == outstanding = Cardinality(InOp)

(* log.committing is the flag of the one process in commit().              *)
Committer ==
  /\ committing => outstanding = 0
  /\ \A p \in Procs : pc[p] \in CommitPC => committing
  /\ committing => \E p \in Procs : pc[p] \in CommitPC
  /\ \A p, q \in Procs : pc[p] \in CommitPC /\ pc[q] \in CommitPC => p = q
  /\ \A p \in Procs : pc[p] = "committed" => lh = <<>>

BufHeld == \A p \in Procs : pc[p] = "log_write" => buf[p] \in Home

(* Nothing runs before recover_from_log() has finished.                    *)
Down ==
  boot # "up" =>
    /\ outstanding = 0 /\ ~committing
    /\ \A p \in Procs : pc[p] = "begin_op"

IdleEmpty == (boot = "up" /\ outstanding = 0 /\ ~committing) => lh = <<>>

ControlInv ==
  /\ ControlTypes /\ Counted /\ Committer /\ BufHeld /\ Down /\ IdleEmpty
  /\ NoLostWakeup

(* log.outstanding is 0 exactly when no process is in an operation.        *)
LEMMA CountZero ==
  ASSUME Counted
  PROVE  /\ IsFiniteSet(InOp)
         /\ outstanding = 0 <=> InOp = {}
<1>1. IsFiniteSet(InOp)
  BY FS_Subset, LogConstants, Zenon DEF InOp, LogConstants
<1>. QED
  BY <1>1, FS_EmptySet, Zenon DEF Counted

(* A process that enters an operation raises the count by one.             *)
LEMMA CountEnter ==
  ASSUME Counted, NEW p \in Procs, p \notin InOp,
         InOp' = InOp \cup {p}, outstanding' = outstanding + 1
  PROVE  Counted'
<1>1. IsFiniteSet(InOp)
  BY CountZero, Zenon
<1>2. Cardinality(InOp \cup {p}) = Cardinality(InOp) + 1
  BY <1>1, FS_AddElement, Zenon
<1>. QED
  BY <1>2, Zenon DEF Counted

(* A process that leaves its operation lowers the count by one.            *)
LEMMA CountLeave ==
  ASSUME Counted, NEW p \in InOp,
         InOp' = InOp \ {p}, outstanding' = outstanding - 1
  PROVE  Counted'
<1>1. IsFiniteSet(InOp)
  BY CountZero, Zenon
<1>2. Cardinality(InOp \ {p}) = Cardinality(InOp) - 1
  BY <1>1, FS_RemoveElement, Zenon
<1>. QED
  BY <1>2, Zenon DEF Counted

(* The initial state satisfies the control invariant.                      *)
LEMMA ControlInit ==
  ASSUME Init
  PROVE  ControlInv
<1>1. ControlTypes
  <2>1. lh \in Seq(Home) /\ head \in Seq(Home)
    BY DEF Init
  <2>2. pc \in [Procs -> PCs] /\ buf \in [Procs -> Home \cup {0}]
    BY Zenon DEF Init, PCs
  <2>3. boot \in BootPCs /\ outstanding \in Nat /\ committing \in BOOLEAN
    BY Zenon DEF Init, BootPCs
  <2>. QED
    BY <2>1, <2>2, <2>3, Zenon DEF ControlTypes
<1>2. Counted
  <2>1. InOp = {}
    BY Zenon DEF Init, InOp, InOpPC
  <2>. QED
    BY <2>1, FS_EmptySet, Zenon DEF Counted, Init
<1>3. Committer
  BY Zenon DEF Init, Committer, CommitPC
<1>4. BufHeld /\ Down /\ IdleEmpty /\ NoLostWakeup
  BY Zenon DEF Init, BufHeld, Down, IdleEmpty, NoLostWakeup
<1>. QED
  BY <1>1, <1>2, <1>3, <1>4, Zenon DEF ControlInv

(* Every step of an operation preserves the control invariant.             *)
LEMMA ControlOperation ==
  ASSUME ControlInv, NEW p \in Procs, Operation(p)
  PROVE  ControlInv'
<1>. USE DEF ControlInv
<1>1. CASE begin_op(p)
  <2>. USE <1>1 DEF begin_op, diskVars
  <2>1. ControlTypes'
    BY DEF ControlTypes, PCs, InOpPC
  <2>2. Counted'
    <3>1. p \notin InOp
      BY Zenon DEF InOp, InOpPC
    <3>2. InOp' = InOp \cup {p}
      BY Zenon DEF InOp, InOpPC, ControlTypes
    <3>. QED
      BY <3>1, <3>2, CountEnter, Zenon
  <2>3. ~committing /\ ~committing'
    BY Zenon DEF MustWait
  <2>4. Committer'
    BY <2>3, Zenon DEF Committer, CommitPC, ControlTypes
  <2>5. BufHeld' /\ Down'
    BY Zenon DEF BufHeld, Down, ControlTypes
  <2>6. IdleEmpty'
    BY DEF IdleEmpty, ControlTypes
  <2>7. NoLostWakeup'
    BY Zenon DEF NoLostWakeup, ControlTypes
  <2>. QED
    BY <2>1, <2>2, <2>4, <2>5, <2>6, <2>7, Zenon
<1>2. CASE begin_op_sleep(p)
  <2>. USE <1>2 DEF begin_op_sleep, diskVars, logVars
  <2>1. ControlTypes'
    BY Zenon DEF ControlTypes, PCs
  <2>2. Counted'
    <3>1. InOp' = InOp
      BY Zenon DEF InOp, InOpPC, ControlTypes
    <3>. QED
      BY <3>1, Zenon DEF Counted
  <2>3. Committer'
    BY Zenon DEF Committer, CommitPC, ControlTypes
  <2>4. BufHeld' /\ Down' /\ IdleEmpty'
    BY Zenon DEF BufHeld, Down, IdleEmpty, ControlTypes
  <2>5. committing \/ outstanding > 0
    <3>1. CASE outstanding = 0 /\ ~committing
      <4>1. Len(lh) = 0
        BY <3>1 DEF IdleEmpty
      <4>2. ~ (Len(lh) + (outstanding + 1) * MAXOPBLOCKS > LOGSIZE)
        BY <3>1, <4>1, LogConstants DEF LogConstants
      <4>. QED
        BY <3>1, <4>2, Zenon DEF MustWait
    <3>. QED
      BY <3>1 DEF ControlTypes
  <2>6. NoLostWakeup'
    BY <2>5, Zenon DEF NoLostWakeup, MustWait
  <2>. QED
    BY <2>1, <2>2, <2>3, <2>4, <2>6, Zenon
<1>3. ASSUME NEW b \in Home, NEW v \in Vals, modify(p, b, v)
      PROVE  ControlInv'
  <2>. USE <1>3 DEF modify, diskVars, logVars
  <2>1. ControlTypes'
    BY Zenon DEF ControlTypes, PCs, InOpPC
  <2>2. Counted'
    <3>1. InOp' = InOp
      BY Zenon DEF InOp, InOpPC, ControlTypes
    <3>. QED
      BY <3>1, Zenon DEF Counted
  <2>3. Committer'
    BY Zenon DEF Committer, CommitPC, ControlTypes
  <2>4. BufHeld' /\ Down' /\ IdleEmpty'
    BY Zenon DEF BufHeld, Down, IdleEmpty, ControlTypes
  <2>5. NoLostWakeup'
    BY Zenon DEF NoLostWakeup, MustWait, ControlTypes
  <2>. QED
    BY <2>1, <2>2, <2>3, <2>4, <2>5, Zenon
<1>4. CASE log_write(p)
  <2>. USE <1>4 DEF log_write, diskVars
  <2>1. /\ lh' \in Seq(Home)
        /\ Len(lh') >= Len(lh)
    BY DEF BufHeld, ControlTypes
  <2>2. ControlTypes'
    BY <2>1, Zenon DEF ControlTypes, PCs, InOpPC
  <2>3. Counted' /\ InOp # {}
    <3>1. InOp' = InOp /\ p \in InOp
      BY Zenon DEF InOp, InOpPC, ControlTypes
    <3>. QED
      BY <3>1, Zenon DEF Counted
  <2>4. outstanding > 0
    BY <2>3, CountZero DEF ControlTypes
  <2>5. ~committing
    BY <2>4 DEF Committer, ControlTypes
  <2>6. Committer'
    BY <2>5, Zenon DEF Committer, CommitPC, ControlTypes
  <2>7. BufHeld' /\ Down' /\ IdleEmpty'
    BY <2>4 DEF BufHeld, Down, IdleEmpty, ControlTypes
  <2>8. NoLostWakeup'
    <3>. DEFINE reserved == (outstanding + 1) * MAXOPBLOCKS
    <3>1. reserved \in Nat
      BY LogConstants DEF LogConstants, ControlTypes
    <3>2. Len(lh) \in Nat /\ Len(lh') \in Nat /\ LOGSIZE \in Nat
      BY <2>1, LogConstants DEF LogConstants, ControlTypes
    <3>3. Len(lh) + reserved > LOGSIZE => Len(lh') + reserved > LOGSIZE
      <4>. HIDE DEF reserved
      <4>. QED
        BY <2>1, <3>1, <3>2
    <3>4. MustWait => MustWait'
      BY <2>5, <3>3, Zenon DEF MustWait
    <3>. QED
      BY <2>4, <3>4, Zenon DEF NoLostWakeup, ControlTypes
  <2>. QED
    BY <2>2, <2>3, <2>6, <2>7, <2>8, Zenon
<1>5. CASE end_op(p)
  <2>. USE <1>5 DEF end_op, diskVars
  <2>1. p \in InOp /\ outstanding \in Nat \ {0} /\ ~committing
    <3>1. p \in InOp
      BY Zenon DEF InOp, InOpPC
    <3>2. outstanding # 0
      BY <3>1, CountZero, Zenon
    <3>3. ~committing
      BY <3>2, Zenon DEF Committer
    <3>4. outstanding \in Nat
      BY Zenon DEF ControlTypes
    <3>. QED
      BY <3>1, <3>2, <3>3, <3>4, Zenon
  <2>2. ControlTypes'
    <3>1. outstanding' \in Nat
      BY <2>1
    <3>3. committing' \in BOOLEAN
      <4>1. committing' = TRUE \/ committing' = committing
        BY <2>1, Zenon
      <4>. QED
        BY <4>1, Zenon DEF ControlTypes
    <3>2. pc' \in [Procs -> PCs]
      BY <2>1, Zenon DEF ControlTypes, PCs, CommitPC, Wakeup
    <3>. QED
      BY <3>1, <3>2, <3>3, Zenon DEF ControlTypes
  <2>3. Counted'
    <3>1. InOp' = InOp \ {p}
      BY <2>1, Zenon DEF InOp, InOpPC, ControlTypes, Wakeup
    <3>. QED
      BY <2>1, <3>1, CountLeave, Zenon
  <2>4. Committer'
    BY <2>1 DEF Committer, CommitPC, ControlTypes, Wakeup
  <2>5. BufHeld' /\ Down' /\ IdleEmpty'
    BY <2>1 DEF BufHeld, Down, IdleEmpty, ControlTypes, Wakeup
  <2>6. NoLostWakeup'
    <3>1. CASE outstanding = 1
      BY <2>1, <3>1, Zenon DEF NoLostWakeup, MustWait
    <3>2. CASE outstanding # 1
      <4>1. \A q \in Procs : pc'[q] # "sleep"
        BY <2>1, <3>2, Zenon DEF Wakeup, ControlTypes
      <4>. QED
        BY <4>1, Zenon DEF NoLostWakeup
    <3>. QED
      BY <3>1, <3>2, Zenon
  <2>. QED
    BY <2>2, <2>3, <2>4, <2>5, <2>6, Zenon
<1>. QED
  BY <1>1, <1>2, <1>3, <1>4, <1>5, Zenon DEF Operation

(* Every step of commit() preserves the control invariant.                 *)
LEMMA ControlCommit ==
  ASSUME ControlInv, NEW p \in Procs, Commit(p)
  PROVE  ControlInv'
<1>. USE DEF ControlInv
<1>1. committing /\ outstanding = 0 /\ boot = "up"
      /\ \A q \in Procs : pc[q] \in CommitPC => q = p
  BY Zenon DEF Commit, write_log, write_head, install_trans, clear_head, end_commit, Committer, CommitPC
<1>2. CASE write_log(p) \/ write_head(p) \/ install_trans(p)
  <2>1. /\ pc' \in [Procs -> PCs]
        /\ pc[p] \in CommitPC /\ pc'[p] \in CommitPC \ {"committed"}
        /\ \A q \in Procs : q # p => pc'[q] = pc[q]
        /\ lh' = lh /\ head' \in Seq(Home)
        /\ UNCHANGED <<outstanding, committing, buf, boot>>
    BY <1>2, Zenon DEF write_log, write_head, install_trans, diskVars, logVars, InstallBlock, CopyBlock,
       ControlTypes, PCs, CommitPC
  <2>2. ControlTypes'
    BY <2>1, Zenon DEF ControlTypes
  <2>3. InOp' = InOp
    BY <2>1, Zenon DEF InOp, InOpPC, CommitPC
  <2>4. Counted'
    BY <2>1, <2>3, Zenon DEF Counted
  <2>5. Committer'
    BY <1>1, <2>1, Zenon DEF Committer
  <2>6. BufHeld' /\ Down' /\ IdleEmpty' /\ NoLostWakeup'
    BY <1>1, <2>1, Zenon DEF BufHeld, Down, IdleEmpty, NoLostWakeup, MustWait, CommitPC
  <2>. QED
    BY <2>2, <2>4, <2>5, <2>6, Zenon
<1>3. CASE clear_head(p)
  <2>. USE <1>3 DEF clear_head
  <2>1. ControlTypes'
    BY DEF ControlTypes, PCs, CommitPC
  <2>2. InOp' = InOp
    BY Zenon DEF InOp, InOpPC, ControlTypes
  <2>3. Counted'
    BY <2>2, Zenon DEF Counted
  <2>4. Committer'
    BY <1>1, Zenon DEF Committer, CommitPC, ControlTypes
  <2>5. BufHeld' /\ Down' /\ IdleEmpty' /\ NoLostWakeup'
    BY <1>1, Zenon DEF BufHeld, Down, IdleEmpty, NoLostWakeup, MustWait, ControlTypes
  <2>. QED
    BY <2>1, <2>3, <2>4, <2>5, Zenon
<1>4. CASE end_commit(p)
  <2>. USE <1>4 DEF end_commit, diskVars
  <2>1. ControlTypes'
    BY Zenon DEF ControlTypes, PCs, Wakeup
  <2>2. InOp' = InOp
    BY Zenon DEF InOp, InOpPC, ControlTypes, Wakeup
  <2>3. Counted'
    BY <2>2, Zenon DEF Counted
  <2>4. Committer'
    BY <1>1, Zenon DEF Committer, CommitPC, ControlTypes, Wakeup
  <2>5. lh' = <<>>
    BY Zenon DEF Committer
  <2>6. BufHeld' /\ Down' /\ IdleEmpty' /\ NoLostWakeup'
    BY <1>1, <2>5, Zenon DEF BufHeld, Down, IdleEmpty, NoLostWakeup, ControlTypes, Wakeup
  <2>. QED
    BY <2>1, <2>3, <2>4, <2>6, Zenon
<1>. QED
  BY <1>2, <1>3, <1>4, Zenon DEF Commit

(* A crash and every step of recovery preserve the control invariant.      *)
LEMMA ControlCrash ==
  ASSUME ControlInv, Crash \/ Recover
  PROVE  ControlInv'
<1>. USE DEF ControlInv
<1>1. /\ pc' = [p \in Procs |-> "begin_op"]
      /\ outstanding' = 0 /\ committing' = FALSE
      /\ boot' \in BootPCs
      /\ lh' \in Seq(Home) /\ head' \in Seq(Home)
      /\ boot' = "up" => lh' = <<>>
      /\ buf' \in [Procs -> Home \cup {0}]
  <2>1. CASE Crash
    BY <2>1 DEF Crash, BootPCs, diskVars, ControlTypes
  <2>2. CASE Recover
    <3>1. boot # "up"
      BY <2>2, Zenon DEF Recover, recover_read_head, recover_install, recover_clear_head
    <3>2. /\ pc = [p \in Procs |-> "begin_op"]
          /\ outstanding = 0 /\ committing = FALSE
      BY <3>1, Zenon DEF Down, ControlTypes
    <3>3. CASE recover_read_head
      BY <3>2, <3>3, Zenon DEF recover_read_head, diskVars, opVars, BootPCs, ControlTypes
    <3>4. CASE recover_install
      BY <3>2, <3>4, Zenon DEF recover_install, logVars, opVars, BootPCs, ControlTypes
    <3>5. CASE recover_clear_head
      BY <3>2, <3>5 DEF recover_clear_head, opVars, BootPCs, ControlTypes
    <3>. QED
      BY <2>2, <3>3, <3>4, <3>5, Zenon DEF Recover
  <2>. QED
    BY <2>1, <2>2, Zenon
<1>2. ControlTypes'
  BY <1>1, Zenon DEF ControlTypes, PCs
<1>3. InOp' = {}
  BY <1>1, Zenon DEF InOp, InOpPC
<1>4. Counted'
  BY <1>1, <1>3, FS_EmptySet, Zenon DEF Counted
<1>5. Committer'
  BY <1>1, Zenon DEF Committer, CommitPC
<1>6. BufHeld' /\ Down' /\ IdleEmpty' /\ NoLostWakeup'
  BY <1>1, Zenon DEF BufHeld, Down, IdleEmpty, NoLostWakeup
<1>. QED
  BY <1>2, <1>4, <1>5, <1>6, Zenon

(* Every step preserves the control invariant.                             *)
LEMMA ControlStep ==
  ASSUME ControlInv, [Next]_vars
  PROVE  ControlInv'
<1>1. CASE Next
  BY <1>1, ControlOperation, ControlCommit, ControlCrash, Zenon DEF Next
<1>2. CASE UNCHANGED vars
  <2>1. InOp' = InOp
    BY <1>2, Zenon DEF vars, InOp
  <2>. QED
    BY <1>2, <2>1, Zenon DEF vars, ControlInv, ControlTypes, Counted, Committer, BufHeld, Down,
       IdleEmpty, NoLostWakeup, MustWait
<1>. QED
  BY <1>1, <1>2, Zenon

(* ControlInv is an invariant of the log, for every value of the constants.*)
THEOREM Control == Spec => []ControlInv
<1>1. Init => ControlInv
  BY ControlInit, Zenon
<1>2. ControlInv /\ [Next]_vars => ControlInv'
  BY ControlStep, Zenon
<1>. QED
  BY <1>1, <1>2, PTL DEF Spec

(* No file system call is active while a process is in commit(), and one   *)
(* process at most is there (log.c, end_op()).                             *)
THEOREM CommitIsAlone == Spec => []CommitAlone
<1>1. ControlInv => CommitAlone
  BY CountZero, Zenon DEF ControlInv, Committer, CommitAlone
<1>. QED
  BY <1>1, Control, PTL

(* No process sleeps in begin_op() without a reason and without someone    *)
(* who will wake it (log.c, begin_op() and the two wakeup(&log)).          *)
THEOREM WakeupsAreNotLost == Spec => []NoLostWakeup
<1>1. ControlInv => NoLostWakeup
  BY Zenon DEF ControlInv
<1>. QED
  BY <1>1, Control, PTL

(* Both together: the locking of begin_op(), end_op() and commit().        *)
THEOREM LogIsControlled == Spec => []LogControl
<1>1. ControlInv => CommitAlone /\ NoLostWakeup
  BY CountZero, Zenon DEF ControlInv, Committer, CommitAlone
<1>. QED
  BY <1>1, Control, PTL DEF LogControl

-----------------------------------------------------------------------------
(* Sets of processes, and of pairs of a process and a block, are finite.   *)
LEMMA FiniteParts ==
  /\ \A S \in SUBSET Procs : IsFiniteSet(S) /\ Cardinality(S) \in Nat
  /\ \A W \in SUBSET Home : IsFiniteSet(W) /\ Cardinality(W) \in Nat
  /\ \A S \in SUBSET (Procs \X Home) : IsFiniteSet(S) /\ Cardinality(S) \in Nat
<1>1. IsFiniteSet(Procs)
  BY LogConstants, Zenon DEF LogConstants
<1>2. IsFiniteSet(Home)
  BY FS_Interval, LogConstants DEF LogConstants, Home
<1>3. IsFiniteSet(Procs \X Home)
  BY <1>1, <1>2, FS_Product, Zenon
<1>. QED
  BY <1>1, <1>2, <1>3, FS_Subset, FS_CardinalityType, Zenon

(* A set with at most m elements has an injection into 1 .. m.             *)
LEMMA Numbering ==
  ASSUME NEW W, IsFiniteSet(W), NEW m \in Nat, Cardinality(W) <= m
  PROVE  \E f \in [W -> 1 .. m] : \A a, b \in W : f[a] = f[b] => a = b
<1>. DEFINE k == Cardinality(W)
<1>1. k \in Nat /\ ExistsBijection(1 .. k, W)
  BY FS_CardinalityType, Zenon
<1>2. ExistsBijection(W, 1 .. k)
  BY <1>1, Fun_ExistsBijSymmetric, Zenon
<1>3. PICK f : f \in Bijection(W, 1 .. k)
  BY <1>2, Fun_ExistsBij, Zenon
<1>. HIDE DEF k
<1>4. f \in [W -> 1 .. k] /\ \A a, b \in W : f[a] = f[b] => a = b
  BY <1>3, Fun_BijectionProperties, Zenon
<1>5. 1 .. k \subseteq 1 .. m
  BY <1>1 DEF k
<1>. QED
  BY <1>4, <1>5, Zenon

(* Pairs of one of the processes A and one of the at most m blocks of that *)
(* process number at most m for each process.                              *)
LEMMA PairsBounded ==
  ASSUME NEW A \in SUBSET Procs, NEW W \in [Procs -> SUBSET Home], NEW m \in Nat,
         \A q \in A : Cardinality(W[q]) <= m,
         NEW S \in SUBSET (A \X Home), \A pb \in S : pb[2] \in W[pb[1]]
  PROVE  Cardinality(S) <= m * Cardinality(A)
<1>. DEFINE Inj(q, f) == f \in [W[q] -> 1 .. m] /\ \A a, b \in W[q] : f[a] = f[b] => a = b
            g == [q \in A |-> CHOOSE f : Inj(q, f)]
            F == [pb \in S |-> <<pb[1], g[pb[1]][pb[2]]>>]
<1>1. \A q \in A : IsFiniteSet(W[q])
  BY FiniteParts, Zenon
<1>2. \A q \in A : \E f : Inj(q, f)
  BY <1>1, Numbering
<1>3. \A q \in A : Inj(q, g[q])
  <2>1. TAKE q \in A
  <2>2. g[q] = CHOOSE f : Inj(q, f)
    BY Zenon
  <2>. HIDE DEF Inj, g
  <2>. QED
    BY <1>2, <2>2, Zenon
<1>. HIDE DEF g
<1>4. \A pb \in S : pb = <<pb[1], pb[2]>> /\ pb[1] \in A
  OBVIOUS
<1>5. F \in [S -> A \X (1 .. m)]
  BY <1>3, <1>4
<1>6. \A x, y \in S : F[x] = F[y] => x = y
  BY <1>3, <1>4
<1>7. F \in Injection(S, A \X (1 .. m))
  <2>. HIDE DEF F
  <2>. QED
    BY <1>5, <1>6, Fun_IsInj, Zenon
<1>8. IsFiniteSet(A) /\ IsFiniteSet(1 .. m) /\ Cardinality(1 .. m) = m
  BY FiniteParts, FS_Interval
<1>9. IsFiniteSet(A \X (1 .. m)) /\ Cardinality(A \X (1 .. m)) = Cardinality(A) * m
  BY <1>8, FS_Product, Zenon
<1>10. Cardinality(S) <= Cardinality(A) * m
  BY <1>7, <1>9, FS_Injection
<1>. QED
  BY <1>8, <1>10, FiniteParts

(* The pairs of one process number at most its blocks.                     *)
LEMMA PairsOfOne ==
  ASSUME NEW S \in SUBSET (Procs \X Home), NEW p \in Procs, NEW W \in SUBSET Home,
         \A pb \in S : pb[1] = p => pb[2] \in W
  PROVE  Cardinality(S) <= Cardinality({pb \in S : pb[1] # p}) + Cardinality(W)
<1>. DEFINE T == {pb \in S : pb[1] # p}
<1>1. IsFiniteSet(S) /\ IsFiniteSet(T) /\ IsFiniteSet(W)
      /\ Cardinality(S) \in Nat /\ Cardinality(T) \in Nat /\ Cardinality(W) \in Nat
  <2>1. T \in SUBSET (Procs \X Home)
    BY Zenon
  <2>. QED
    BY <2>1, FiniteParts, Zenon
<1>2. S \ T \subseteq {p} \X W
  BY Zenon
<1>3. IsFiniteSet({p} \X W) /\ Cardinality({p} \X W) = Cardinality(W)
  <2>1. IsFiniteSet({p}) /\ Cardinality({p}) = 1
    BY FS_Singleton, Zenon
  <2>2. Cardinality({p} \X W) = 1 * Cardinality(W) /\ IsFiniteSet({p} \X W)
    BY ZenonT(30), <1>1, <2>1, FS_Product
  <2>. QED
    BY <1>1, <2>2
<1>4. Cardinality(S \ T) <= Cardinality(W)
  BY <1>2, <1>3, FS_Subset, Zenon
<1>5. S \cap T = T
  BY Zenon
<1>6. Cardinality(S \ T) = Cardinality(S) - Cardinality(T)
  BY ZenonT(30), <1>1, <1>5, FS_Difference
<1>. QED
  BY <1>1, <1>4, <1>6

(* What begin_op() reserves covers what log_write() adds.  An operation's  *)
(* blocks are counted from its begin_op() on, and the header on disk is    *)
(* one that was in memory.                                                 *)
ReserveInv ==
  /\ ReservationHolds /\ Len(head) <= LOGSIZE
  /\ wrote \in [Procs -> SUBSET Home]
  /\ \A p \in Procs : /\ Cardinality(wrote[p]) <= OPBLOCKS
                      /\ pc[p] \notin InOpPC => wrote[p] = {}
                      /\ pc[p] = "log_write" => buf[p] \in wrote[p]

(* When every operation keeps to its reservation, the log in memory never  *)
(* exceeds LOGSIZE.                                                        *)
LEMMA ReserveBounds ==
  ASSUME ControlInv, ReserveInv, OPBLOCKS <= MAXOPBLOCKS
  PROVE  Len(lh) <= LOGSIZE
<1>1. InOp \in SUBSET Procs /\ Logged \in SUBSET (InOp \X Home)
  BY Zenon DEF InOp, Logged
<1>2. \A q \in InOp : Cardinality(wrote[q]) <= MAXOPBLOCKS
  <2>1. \A q \in InOp : Cardinality(wrote[q]) \in Nat /\ Cardinality(wrote[q]) <= OPBLOCKS
    BY <1>1, FiniteParts, Zenon DEF ReserveInv
  <2>. QED
    BY <2>1, LogConstants DEF LogConstants
<1>3. \A pb \in Logged : pb[2] \in wrote[pb[1]]
  BY Zenon DEF Logged
<1>4. Cardinality(Logged) <= MAXOPBLOCKS * Cardinality(InOp)
  <2>1. MAXOPBLOCKS \in Nat /\ wrote \in [Procs -> SUBSET Home]
    BY LogConstants, Zenon DEF LogConstants, ReserveInv
  <2>. QED
    BY <1>1, <1>2, <1>3, <2>1, PairsBounded, Zenon
<1>5. Cardinality(InOp) \in Nat /\ Cardinality(Logged) \in Nat
  <2>1. Logged \in SUBSET (Procs \X Home)
    BY <1>1, Zenon
  <2>. QED
    BY <1>1, <2>1, FiniteParts, Zenon
<1>6. Len(lh) \in Nat
  BY DEF ControlInv, ControlTypes
<1>. DEFINE c == Cardinality(Logged)
            m == MAXOPBLOCKS * Cardinality(InOp)
<1>7. m \in Nat
  BY <1>5, LogConstants DEF LogConstants
<1>8. Len(lh) + m - c <= LOGSIZE /\ c <= m /\ c \in Nat /\ LOGSIZE \in Nat
  BY <1>4, <1>5, LogConstants, Zenon DEF LogConstants, ReserveInv, ReservationHolds
<1>. HIDE DEF c, m
<1>. QED
  BY <1>6, <1>7, <1>8

(* The reservation in an idle log.                                         *)
LEMMA ReserveIdle ==
  ASSUME InOp' = {}, lh' \in Seq(Home), Len(lh') <= LOGSIZE
  PROVE  ReservationHolds'
<1>1. Logged' = {}
  BY Zenon DEF Logged
<1>2. Cardinality(InOp') = 0 /\ Cardinality(Logged') = 0
  BY <1>1, FS_EmptySet, Zenon
<1>3. MAXOPBLOCKS * 0 = 0
  BY LogConstants DEF LogConstants
<1>. QED
  BY <1>2, <1>3, LogConstants DEF ReservationHolds, LogConstants

(* Steps that log nothing and begin or end no operation.                   *)
LEMMA ReserveSame ==
  ASSUME ReservationHolds, ControlTypes, InOp' = InOp, lh' = lh,
         \A q \in Procs : wrote[q] \subseteq wrote'[q]
  PROVE  ReservationHolds'
<1>1. Logged \subseteq Logged' /\ Logged' \in SUBSET (Procs \X Home)
  BY Zenon DEF Logged, InOp
<1>2. /\ Cardinality(Logged) <= Cardinality(Logged')
      /\ Cardinality(Logged) \in Nat /\ Cardinality(Logged') \in Nat
  <2>1. Logged \in SUBSET (Procs \X Home)
    BY <1>1, Zenon
  <2>. QED
    BY <1>1, <2>1, FiniteParts, FS_Subset, Zenon
<1>. DEFINE m == MAXOPBLOCKS * Cardinality(InOp)
<1>3. m \in Nat
  BY FiniteParts, LogConstants DEF InOp, LogConstants
<1>4. Len(lh) + m - Cardinality(Logged) <= LOGSIZE /\ Len(lh) \in Nat /\ LOGSIZE \in Nat
  BY LogConstants DEF ReservationHolds, LogConstants, ControlTypes
<1>5. ReservationHolds' <=> Len(lh) + m - Cardinality(Logged') <= LOGSIZE
  BY Zenon DEF ReservationHolds
<1>. HIDE DEF m
<1>. QED
  BY <1>2, <1>3, <1>4, <1>5

(* begin_op(): the new operation has written nothing.                      *)
LEMMA ReserveBegin ==
  ASSUME ControlInv, ReserveInv, NEW p \in Procs, begin_op(p)
  PROVE  ReserveInv'
<1>. USE DEF begin_op, diskVars
<1>1. InOp' = InOp \cup {p} /\ p \notin InOp
  BY Zenon DEF InOp, InOpPC, ControlInv, ControlTypes
<1>2. Logged' \in SUBSET (Procs \X Home)
  BY Zenon DEF Logged, InOp
<1>3. Cardinality(InOp') = outstanding + 1
  BY <1>1, FiniteParts, FS_AddElement, Zenon DEF InOp, ControlInv, Counted
<1>4. ReservationHolds'
  <2>. DEFINE m == MAXOPBLOCKS * (outstanding + 1)
  <2>1. m \in Nat /\ LOGSIZE \in Nat /\ Len(lh) \in Nat
    BY LogConstants DEF LogConstants, ControlInv, ControlTypes
  <2>2. (outstanding + 1) * MAXOPBLOCKS = m
    BY LogConstants DEF LogConstants, ControlInv, ControlTypes
  <2>3. Len(lh) + (outstanding + 1) * MAXOPBLOCKS <= LOGSIZE
    BY <2>1, <2>2 DEF MustWait
  <2>4. Cardinality(Logged') \in Nat
    BY <1>2, FiniteParts, Zenon
  <2>5. ReservationHolds' <=> Len(lh) + m - Cardinality(Logged') <= LOGSIZE
    BY <1>3, Zenon DEF ReservationHolds
  <2>. HIDE DEF m
  <2>. QED
    BY <2>1, <2>2, <2>3, <2>4, <2>5
<1>. QED
  BY <1>4, Zenon DEF ReserveInv, ControlInv, ControlTypes, InOpPC

(* Writing to a buffer uses no more than the operation's blocks.           *)
LEMMA ReserveModify ==
  ASSUME ControlInv, ReserveInv, NEW p \in Procs, NEW b \in Home, NEW v \in Vals, modify(p, b, v)
  PROVE  ReserveInv'
<1>. USE DEF modify, diskVars, logVars
<1>1. InOp' = InOp
  BY Zenon DEF InOp, InOpPC, ControlInv, ControlTypes
<1>2. /\ wrote' \in [Procs -> SUBSET Home]
      /\ \A q \in Procs : wrote[q] \subseteq wrote'[q]
      /\ wrote'[p] = wrote[p] \cup {b} /\ \A q \in Procs \ {p} : wrote'[q] = wrote[q]
  BY Zenon DEF ReserveInv
<1>3. ReservationHolds'
  BY <1>1, <1>2, ReserveSame, Zenon DEF ReserveInv, ControlInv
<1>4. \A q \in Procs : Cardinality(wrote'[q]) <= OPBLOCKS
  BY <1>2, Zenon DEF ReserveInv
<1>5. \A q \in Procs : /\ pc'[q] \notin InOpPC => wrote'[q] = {}
                       /\ pc'[q] = "log_write" => buf'[q] \in wrote'[q]
  BY <1>2, Zenon DEF ReserveInv, ControlInv, ControlTypes, InOpPC
<1>. QED
  BY <1>2, <1>3, <1>4, <1>5, Zenon DEF ReserveInv

(* Appending lists one more block.                                         *)
LEMMA ListedAppend ==
  ASSUME NEW s \in Seq(Home), NEW b \in Home
  PROVE  Len(Append(s, b)) = Len(s) + 1 /\ Listed(Append(s, b)) = Listed(s) \cup {b}
<1>. DEFINE t == Append(s, b)
<1>1. /\ Len(t) = Len(s) + 1 /\ DOMAIN t = 1 .. Len(s) + 1 /\ DOMAIN s = 1 .. Len(s)
      /\ Len(s) \in Nat /\ t[Len(s) + 1] = b
  OBVIOUS
<1>2. \A i \in DOMAIN s : t[i] = s[i]
  BY <1>1
<1>. HIDE DEF t
<1>3. Listed(t) = Listed(s) \cup {b}
  BY <1>1, <1>2 DEF Listed
<1>. QED
  BY <1>1, <1>3, Zenon DEF t

(* log_write() adds a block to the log only if its operation had not.      *)
LEMMA ReserveLogWrite ==
  ASSUME ControlInv, ReserveInv, NEW p \in Procs, log_write(p)
  PROVE  ReserveInv'
<1>. USE DEF log_write, diskVars
<1>1. InOp' = InOp /\ p \in InOp
  BY Zenon DEF InOp, InOpPC, ControlInv, ControlTypes
<1>2. ReservationHolds'
  <2>1. CASE buf[p] \in Listed(lh)
    <3>1. lh' = lh /\ wrote' = wrote
      BY <2>1, Zenon
    <3>. QED
      BY <1>1, <3>1, ReserveSame, Zenon DEF ReserveInv, ControlInv
  <2>2. CASE buf[p] \notin Listed(lh)
    <3>. DEFINE x == <<p, buf[p]>>
    <3>1. lh' = Append(lh, buf[p]) /\ buf[p] \in Home /\ buf[p] \in wrote[p]
      BY <2>2, Zenon DEF ReserveInv, ControlInv, BufHeld
    <3>2. Len(lh') = Len(lh) + 1 /\ Len(lh) \in Nat /\ Listed(lh') = Listed(lh) \cup {buf[p]}
      BY <3>1, ListedAppend DEF ControlInv, ControlTypes
    <3>3. Logged \cup {x} \subseteq Logged' /\ x \notin Logged
      BY <1>1, <2>2, <3>1, <3>2 DEF Logged
    <3>4. /\ IsFiniteSet(Logged) /\ IsFiniteSet(Logged')
          /\ Cardinality(Logged) \in Nat /\ Cardinality(Logged') \in Nat
      <4>1. Logged \in SUBSET (Procs \X Home) /\ Logged' \in SUBSET (Procs \X Home)
        BY Zenon DEF Logged, InOp
      <4>. QED
        BY <4>1, FiniteParts, Zenon
    <3>5. Cardinality(Logged \cup {x}) = Cardinality(Logged) + 1
      BY <3>3, <3>4, FS_AddElement, Zenon
    <3>6. Cardinality(Logged) + 1 <= Cardinality(Logged')
      BY <3>3, <3>4, <3>5, FS_Subset, Zenon
    <3>. DEFINE m == MAXOPBLOCKS * Cardinality(InOp)
    <3>7. m \in Nat
      BY FiniteParts, LogConstants DEF InOp, LogConstants
    <3>8. Len(lh) + m - Cardinality(Logged) <= LOGSIZE /\ LOGSIZE \in Nat
      BY LogConstants, Zenon DEF ReserveInv, ReservationHolds, LogConstants
    <3>9. ReservationHolds' <=> Len(lh') + m - Cardinality(Logged') <= LOGSIZE
      BY <1>1, Zenon DEF ReservationHolds
    <3>. HIDE DEF m
    <3>. QED
      BY <3>2, <3>4, <3>6, <3>7, <3>8, <3>9
  <2>. QED
    BY <2>1, <2>2, Zenon
<1>3. \A q \in Procs : /\ pc'[q] \notin InOpPC => wrote'[q] = {}
                       /\ pc'[q] = "log_write" => buf'[q] \in wrote'[q]
  BY Zenon DEF ReserveInv, ControlInv, ControlTypes, InOpPC
<1>. QED
  BY <1>2, <1>3, Zenon DEF ReserveInv

(* end_op() gives back the reservation, of which at most MAXOPBLOCKS are   *)
(* blocks that stay in the log.                                            *)
LEMMA ReserveEnd ==
  ASSUME ControlInv, ReserveInv, NEW p \in Procs, end_op(p), OPBLOCKS <= MAXOPBLOCKS
  PROVE  ReserveInv'
<1>. USE DEF end_op, diskVars
<1>1. p \in InOp /\ ~committing
  <2>1. p \in InOp
    BY Zenon DEF InOp, InOpPC
  <2>. QED
    BY <2>1, CountZero, Zenon DEF ControlInv, Committer
<1>2. InOp' = InOp \ {p}
  BY <1>1, Zenon DEF InOp, InOpPC, ControlInv, ControlTypes, Wakeup
<1>3. wrote' \in [Procs -> SUBSET Home] /\ wrote'[p] = {} /\ \A q \in Procs \ {p} : wrote'[q] = wrote[q]
  BY Zenon DEF ReserveInv
<1>4. Logged' = {pb \in Logged : pb[1] # p}
  BY <1>2, <1>3, Zenon DEF Logged, InOp
<1>5. Cardinality(Logged) <= Cardinality(Logged') + Cardinality(wrote[p])
  <2>1. \A pb \in Logged : pb[1] = p => pb[2] \in wrote[p]
    BY Zenon DEF Logged
  <2>2. Logged \in SUBSET (Procs \X Home) /\ wrote[p] \in SUBSET Home
    BY Zenon DEF Logged, InOp, ReserveInv
  <2>. QED
    BY <1>4, <2>1, <2>2, PairsOfOne, Zenon
<1>6. /\ Cardinality(Logged) \in Nat /\ Cardinality(Logged') \in Nat
      /\ Cardinality(wrote[p]) \in Nat /\ Cardinality(wrote[p]) <= MAXOPBLOCKS
  <2>1. Logged \in SUBSET (Procs \X Home) /\ Logged' \in SUBSET (Procs \X Home)
    BY Zenon DEF Logged, InOp
  <2>2. Cardinality(wrote[p]) \in Nat /\ Cardinality(wrote[p]) <= OPBLOCKS
    BY FiniteParts, Zenon DEF ReserveInv
  <2>. QED
    BY <2>1, <2>2, FiniteParts, LogConstants DEF LogConstants
<1>7. ReservationHolds'
  <2>1. InOp \in SUBSET Procs
    BY Zenon DEF InOp
  <2>2. PICK k \in Nat : k + 1 = Cardinality(InOp) /\ k = Cardinality(InOp')
    <3>1. Cardinality(InOp \ {p}) = Cardinality(InOp) - 1 /\ Cardinality(InOp \ {p}) \in Nat
      BY <1>1, <2>1, FiniteParts, FS_RemoveElement, Zenon
    <3>. QED
      BY <1>2, <2>1, <3>1, FiniteParts
  <2>. DEFINE m == MAXOPBLOCKS * k
  <2>3. m \in Nat /\ MAXOPBLOCKS * (k + 1) = m + MAXOPBLOCKS /\ MAXOPBLOCKS \in Nat /\ LOGSIZE \in Nat
    BY LogConstants DEF LogConstants
  <2>4. Len(lh) + (m + MAXOPBLOCKS) - Cardinality(Logged) <= LOGSIZE
    BY <2>2, <2>3, Zenon DEF ReserveInv, ReservationHolds
  <2>5. ReservationHolds' <=> Len(lh) + m - Cardinality(Logged') <= LOGSIZE
    BY <2>2, Zenon DEF ReservationHolds
  <2>6. Len(lh) \in Nat
    BY DEF ControlInv, ControlTypes
  <2>. HIDE DEF m
  <2>. QED
    BY SMTT(20), <1>5, <1>6, <2>3, <2>4, <2>5, <2>6
<1>8. \A q \in Procs : Cardinality(wrote'[q]) <= OPBLOCKS
  BY <1>3, FS_EmptySet, LogConstants DEF ReserveInv, LogConstants
<1>9. \A q \in Procs : /\ pc'[q] \notin InOpPC => wrote'[q] = {}
                       /\ pc'[q] = "log_write" => buf'[q] \in wrote'[q]
  BY <1>1, <1>3 DEF ReserveInv, ControlInv, ControlTypes, InOpPC, CommitPC, Wakeup
<1>. QED
  BY <1>3, <1>7, <1>8, <1>9, Zenon DEF ReserveInv

(* commit() runs while no operation does, and writes the header it has.    *)
LEMMA ReserveCommit ==
  ASSUME ControlInv, ReserveInv, NEW p \in Procs, Commit(p), OPBLOCKS <= MAXOPBLOCKS
  PROVE  ReserveInv'
<1>. USE DEF Commit, write_log, write_head, install_trans, clear_head, end_commit,
             diskVars, logVars, InstallBlock, CopyBlock
<1>1. pc[p] \in CommitPC /\ pc'[p] \notin InOpPC /\ wrote' = wrote /\ buf' = buf
      /\ (lh' = lh \/ lh' = <<>>) /\ (head' = head \/ head' = lh \/ head' = <<>>)
      /\ \A q \in Procs \ {p} : pc'[q] = pc[q] \/ (pc[q] = "sleep" /\ pc'[q] = "begin_op")
  BY Zenon DEF CommitPC, InOpPC, ControlInv, ControlTypes, Wakeup
<1>2. InOp' = {}
  <2>1. InOp = {}
    BY <1>1, CountZero, Zenon DEF ControlInv, Committer
  <2>. QED
    BY <1>1, <2>1, Zenon DEF InOp, InOpPC
<1>3. lh' \in Seq(Home) /\ Len(lh') <= LOGSIZE /\ Len(head') <= LOGSIZE
  <2>1. Len(lh) <= LOGSIZE /\ lh \in Seq(Home) /\ Len(head) <= LOGSIZE
    BY ReserveBounds, Zenon DEF ControlInv, ControlTypes, ReserveInv
  <2>2. <<>> \in Seq(Home) /\ Len(<<>>) <= LOGSIZE
    BY LogConstants DEF LogConstants
  <2>. QED
    BY <1>1, <2>1, <2>2, Zenon
<1>4. ReservationHolds'
  BY <1>2, <1>3, ReserveIdle, Zenon
<1>5. \A q \in Procs : wrote[q] = {}
  <2>1. \A q \in Procs : pc[q] \notin InOpPC
    BY <1>1, CountZero, Zenon DEF ControlInv, Committer, InOp
  <2>. QED
    BY <2>1, Zenon DEF ReserveInv
<1>6. \A q \in Procs : pc'[q] # "log_write"
  BY <1>2, Zenon DEF InOp, InOpPC
<1>. QED
  BY <1>1, <1>3, <1>4, <1>5, <1>6, Zenon DEF ReserveInv

(* A crash ends every operation, and recovery reads back a header that was *)
(* within LOGSIZE when it was written.                                     *)
LEMMA ReserveCrash ==
  ASSUME ControlInv, ReserveInv, ControlInv', Crash \/ Recover, OPBLOCKS <= MAXOPBLOCKS
  PROVE  ReserveInv'
<1>1. /\ \A q \in Procs : pc'[q] = "begin_op" /\ wrote'[q] = {}
      /\ wrote' \in [Procs -> SUBSET Home]
      /\ lh' = <<>> \/ lh' = lh \/ lh' = head
      /\ head' = head \/ head' = <<>>
  <2>1. CASE Crash
    BY <2>1, Zenon DEF Crash, diskVars
  <2>2. CASE Recover
    <3>1. \A q \in Procs : pc[q] = "begin_op" /\ wrote[q] = {}
      BY <2>2, Zenon DEF Recover, recover_read_head, recover_install, recover_clear_head, ControlInv,
         Down, ReserveInv, InOpPC
    <3>. QED
      BY <2>2, <3>1, Zenon DEF Recover, recover_read_head, recover_install, recover_clear_head, diskVars,
         logVars, opVars, ReserveInv
  <2>. QED
    BY <2>1, <2>2, Zenon
<1>2. InOp' = {}
  BY <1>1, Zenon DEF InOp, InOpPC
<1>3. lh' \in Seq(Home) /\ Len(lh') <= LOGSIZE /\ Len(head') <= LOGSIZE
  <2>1. /\ Len(lh) <= LOGSIZE /\ lh \in Seq(Home)
        /\ Len(head) <= LOGSIZE /\ head \in Seq(Home)
    BY ReserveBounds, Zenon DEF ControlInv, ControlTypes, ReserveInv
  <2>2. <<>> \in Seq(Home) /\ Len(<<>>) <= LOGSIZE
    BY LogConstants DEF LogConstants
  <2>. QED
    BY <1>1, <2>1, <2>2, Zenon
<1>4. ReservationHolds'
  BY <1>2, <1>3, ReserveIdle, Zenon
<1>5. Cardinality({}) <= OPBLOCKS
  BY FS_EmptySet, LogConstants DEF LogConstants
<1>. QED
  BY <1>1, <1>3, <1>4, <1>5, Zenon DEF ReserveInv

(* The reservation is kept as long as no operation writes more blocks than *)
(* MAXOPBLOCKS, the number param.h promises.                               *)
LEMMA ReserveStep ==
  ASSUME ControlInv, ReserveInv, [Next]_vars, OPBLOCKS <= MAXOPBLOCKS
  PROVE  ReserveInv'
<1>1. ASSUME NEW p \in Procs, Operation(p)
      PROVE  ReserveInv'
  <2>1. CASE begin_op_sleep(p)
    <3>. USE <2>1 DEF begin_op_sleep, diskVars, logVars
    <3>1. InOp' = InOp /\ wrote' = wrote
      BY Zenon DEF InOp, InOpPC, ControlInv, ControlTypes
    <3>2. ReservationHolds'
      BY <3>1, ReserveSame, ZenonT(30) DEF ReserveInv, ControlInv
    <3>. QED
      BY <3>2, Zenon DEF ReserveInv, ControlInv, ControlTypes, InOpPC
  <2>. QED
    BY <1>1, <2>1, ReserveBegin, ReserveModify, ReserveLogWrite, ReserveEnd, ZenonT(30) DEF Operation
<1>2. CASE UNCHANGED vars
  BY <1>2 DEF vars, ReserveInv, ReservationHolds, Logged, InOp, Listed
<1>3. CASE Crash \/ Recover
  BY <1>3, ControlCrash, ReserveCrash, Zenon
<1>. QED
  BY <1>1, <1>2, <1>3, ReserveCommit, Zenon DEF Next

(* Together with the control invariant the reservation is inductive.       *)
THEOREM Reserved ==
  ASSUME OPBLOCKS <= MAXOPBLOCKS
  PROVE  Spec => [](ControlInv /\ ReserveInv)
<1>1. Init => ReserveInv
  <2>1. ASSUME Init PROVE ReserveInv
    <3>1. InOp = {} /\ Logged = {} /\ MAXOPBLOCKS * 0 = 0
      BY <2>1, LogConstants DEF Init, InOp, InOpPC, Logged, LogConstants
    <3>2. ReservationHolds
      BY <2>1, <3>1, FS_EmptySet, LogConstants DEF Init, ReservationHolds, LogConstants
    <3>. QED
      BY <2>1, <3>2, FS_EmptySet, LogConstants DEF Init, ReserveInv, LogConstants
  <2>. QED
    BY <2>1, Zenon
<1>2. Init => ControlInv
  BY ControlInit, Zenon
<1>3. (ControlInv /\ ReserveInv) /\ [Next]_vars => (ControlInv /\ ReserveInv)'
  BY ControlStep, ReserveStep, Zenon
<1>. QED
  BY <1>1, <1>2, <1>3, PTL DEF Spec

(* begin_op() reserves enough: what the log holds and what the active      *)
(* operations may still log fits in log.lh.block[].                        *)
THEOREM ReservationSuffices ==
  ASSUME OPBLOCKS <= MAXOPBLOCKS
  PROVE  Spec => []ReservationHolds
<1>1. ReserveInv => ReservationHolds
  BY Zenon DEF ReserveInv
<1>. QED
  BY <1>1, Reserved, PTL

(* log.lh.block[] never overflows, and a region of one block more than     *)
(* LOGSIZE, for the header, is never outgrown.  (mkfs.c makes it a block   *)
(* smaller.)                                                               *)
THEOREM LogFits ==
  ASSUME OPBLOCKS <= MAXOPBLOCKS, LOGSIZE < NLOG
  PROVE  Spec => []LogInRegion
<1>1. ControlInv /\ ReserveInv => LogInRegion
  <2>1. ControlInv /\ ReserveInv => Len(lh) <= LOGSIZE /\ Len(lh) \in Nat
    BY ReserveBounds DEF ControlInv, ControlTypes
  <2>. QED
    BY <2>1, LogConstants DEF LogInRegion, LogConstants
<1>. QED
  BY <1>1, Reserved, PTL
=============================================================================
