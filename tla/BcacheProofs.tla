---------------------------- MODULE BcacheProofs ---------------------------
(***************************************************************************)
(* The buffer cache and the disk driver, for any numbers of processes,     *)
(* buffers and blocks: a buffer has one holder, no wakeup is lost, and no  *)
(* check of the kernel fails while the log leaves enough buffers.          *)
(***************************************************************************)
EXTENDS Bcache, SequenceTheorems, FiniteSetTheorems, TLAPS

-----------------------------------------------------------------------------
(* The queue of requests as a set.                                         *)
Elems(q) == {q[i] : i \in DOMAIN q}
Distinct(q) == \A i, j \in DOMAIN q : q[i] = q[j] => i = j

(* The first request.                                                      *)
LEMMA FirstRequest == ASSUME NEW q PROVE Head(q) = q[1]
  BY DEF Head

(* A request is put at the end.                                            *)
LEMMA Enqueue ==
  ASSUME NEW S, NEW q \in Seq(S), NEW x \in S
  PROVE  /\ Append(q, x) \in Seq(S) /\ Append(q, x) # <<>>
         /\ Elems(Append(q, x)) = Elems(q) \cup {x}
         /\ Distinct(q) /\ x \notin Elems(q) => Distinct(Append(q, x))
         /\ q = <<>> => Head(Append(q, x)) = x
         /\ q # <<>> => Head(Append(q, x)) = Head(q)
<1>. DEFINE r == Append(q, x)
<1>1. /\ r \in Seq(S) /\ r # <<>> /\ Len(r) = Len(q) + 1
      /\ \A i \in 1 .. Len(q) : r[i] = q[i]
      /\ r[Len(q) + 1] = x
  BY AppendProperties
<1>2. Len(q) \in Nat /\ DOMAIN q = 1 .. Len(q) /\ DOMAIN r = 1 .. Len(r)
  BY <1>1, LenProperties, Zenon
<1>. DEFINE n == Len(q)
<1>3. DOMAIN q = 1 .. n /\ DOMAIN r = 1 .. n + 1 /\ n \in Nat
  BY <1>1, <1>2, Zenon
<1>4. (\A i \in 1 .. n : r[i] = q[i]) /\ r[n + 1] = x
  BY <1>1, Zenon
<1>5. q # <<>> => 1 \in DOMAIN q
  <2>1. q # <<>> => n \in Nat \ {0}
    BY EmptySeq, Zenon
  <2>. HIDE DEF n
  <2>. QED
    BY <1>3, <2>1
<1>6. q = <<>> => n = 0
  BY EmptySeq, Zenon
<1>7. Head(r) = r[1] /\ Head(q) = q[1]
  BY FirstRequest, Zenon
<1>. HIDE DEF n, r
<1>8. \A i : i \in 1 .. n + 1 <=> i \in 1 .. n \/ i = n + 1
  BY <1>3
<1>9. n + 1 \notin 1 .. n
  BY <1>3
<1>10. Elems(r) = Elems(q) \cup {x}
  BY <1>3, <1>4, <1>8, Zenon DEF Elems
<1>11. Distinct(q) /\ x \notin Elems(q) => Distinct(r)
  BY <1>3, <1>4, <1>8, <1>9, Zenon DEF Elems, Distinct
<1>12. (q = <<>> => Head(r) = x) /\ (q # <<>> => Head(r) = Head(q))
  BY <1>3, <1>4, <1>5, <1>6, <1>7
<1>. QED
  BY <1>1, <1>10, <1>11, <1>12, Zenon DEF r

(* The first request is taken off.                                         *)
LEMMA Dequeue ==
  ASSUME NEW S, NEW q \in Seq(S), q # <<>>
  PROVE  /\ Tail(q) \in Seq(S) /\ Head(q) \in Elems(q) /\ Head(q) \in S
         /\ Distinct(q) => Distinct(Tail(q)) /\ Elems(Tail(q)) = Elems(q) \ {Head(q)}
         /\ Tail(q) # <<>> => Head(Tail(q)) \in Elems(Tail(q))
<1>. DEFINE r == Tail(q)
            n == Len(q)
            m == Len(r)
<1>1. /\ r \in Seq(S) /\ Head(q) \in S /\ m = n - 1 /\ \A i \in 1 .. m : r[i] = q[i + 1]
  BY HeadTailProperties, Zenon
<1>2. n \in Nat \ {0} /\ DOMAIN q = 1 .. n /\ DOMAIN r = 1 .. m
  BY <1>1, EmptySeq, LenProperties, Zenon
<1>3. r # <<>> => m \in Nat \ {0}
  BY <1>1, EmptySeq, Zenon
<1>4. Head(q) = q[1] /\ Head(r) = r[1]
  BY FirstRequest, Zenon
<1>. HIDE DEF r, n, m
<1>5. 1 \in 1 .. n /\ (r # <<>> => 1 \in 1 .. m)
  BY <1>2, <1>3
<1>6. \A i \in 1 .. m : i + 1 \in 1 .. n /\ i + 1 # 1 /\ \A j \in 1 .. m : i + 1 = j + 1 => i = j
  BY <1>1, <1>2
<1>7. \A j \in 1 .. n : j # 1 => \E i \in 1 .. m : j = i + 1
  <2>1. \A j \in 1 .. n : j # 1 => j - 1 \in 1 .. m /\ j = (j - 1) + 1
    BY <1>1, <1>2
  <2>. QED
    BY <2>1, Zenon
<1>8. ASSUME Distinct(q) PROVE Distinct(r)
  <2>1. SUFFICES ASSUME NEW i \in 1 .. m, NEW j \in 1 .. m, r[i] = r[j] PROVE i = j
    BY <1>2, Zenon DEF Distinct
  <2>2. q[i + 1] = q[j + 1] /\ i + 1 \in DOMAIN q /\ j + 1 \in DOMAIN q
    BY <1>1, <1>2, <1>6, <2>1, Zenon
  <2>3. i + 1 = j + 1
    BY <1>8, <2>2, Zenon DEF Distinct
  <2>. QED
    BY <1>6, <2>3, Zenon
<1>9. ASSUME Distinct(q) PROVE Elems(r) = Elems(q) \ {q[1]}
  <2>1. ASSUME NEW e \in Elems(r) PROVE e \in Elems(q) \ {q[1]}
    <3>1. PICK i \in 1 .. m : e = r[i]
      BY <1>2, <2>1, Zenon DEF Elems
    <3>2. e = q[i + 1] /\ i + 1 \in 1 .. n /\ i + 1 # 1
      BY <1>1, <1>6, <3>1, Zenon
    <3>. QED
      BY <1>2, <1>5, <1>9, <3>2, Zenon DEF Elems, Distinct
  <2>2. ASSUME NEW e \in Elems(q), e # q[1] PROVE e \in Elems(r)
    <3>1. PICK j \in 1 .. n : e = q[j] /\ j # 1
      BY <1>2, <2>2, Zenon DEF Elems
    <3>2. PICK i \in 1 .. m : j = i + 1
      BY <1>7, <3>1, Zenon
    <3>. QED
      BY <1>1, <1>2, <3>1, <3>2, Zenon DEF Elems
  <2>. QED
    BY <2>1, <2>2, Zenon
<1>10. q[1] \in Elems(q) /\ (r # <<>> => r[1] \in Elems(r))
  BY <1>2, <1>5, Zenon DEF Elems
<1>. QED
  BY <1>1, <1>4, <1>8, <1>9, <1>10, Zenon DEF r

-----------------------------------------------------------------------------
(* The request queue: the buffers of the processes asleep in iderw(), each *)
(* once, and the disk executes the first request.                          *)
Requests ==
  /\ Distinct(idequeue)
  /\ \A b \in Elems(idequeue) : \E p \in Procs : pc[p] = "ide_sleep" /\ buf[p] = b
  /\ \A p \in Procs : pc[p] = "ide_sleep" => buf[p] \in Elems(idequeue)
  /\ idequeue = <<>> => cmd = None
  /\ idequeue # <<>> => cmd = idestart(Head(idequeue))

(* The flags at each point of bread(), bwrite() and iderw().               *)
FlagsOf(p) ==
  /\ pc[p] = "held" => buf[p] \in valid
  /\ pc[p] = "ide_test" => buf[p] \in valid /\ buf[p] \notin dirty
  /\ pc[p] \in {"iderw", "ide_sleep"} => ~(buf[p] \in valid /\ buf[p] \notin dirty)
  /\ pc[p] = "bget_sleep" => buf[p] \in busy
  /\ want[p] = None => pc[p] = "idle"

Flags == dirty \subseteq valid /\ \A p \in Procs : FlagsOf(p)

(* The log has not pinned more buffers than it may.                        *)
PinsBounded == Cardinality(Pinned) <= MAXPIN

CacheInv == TypeOK /\ HeldAlone /\ Requests /\ Flags /\ PinsBounded /\ NoPanic

(* A process that changes nothing of what it holds keeps its buffer.       *)
LEMMA HoldFrame ==
  ASSUME HeldAlone, UNCHANGED <<blockno, busy>>,
         \A q \in Procs : Holding(q)' <=> Holding(q),
         \A q \in Procs : Holding(q) => buf'[q] = buf[q] /\ want'[q] = want[q]
  PROVE  HeldAlone'
<1>1. \A b, c \in Bufs : blockno'[b] = blockno'[c] /\ b # c => blockno'[b] = None
  BY Zenon DEF HeldAlone
<1>2. \A p, q \in Procs : Holding(p)' /\ Holding(q)' /\ p # q => buf'[p] # buf'[q]
  BY Zenon DEF HeldAlone
<1>3. \A p \in Procs : Holding(p)' => buf'[p] \in busy' /\ blockno'[buf'[p]] = want'[p]
  BY Zenon DEF HeldAlone
<1>4. \A b \in busy' : \E p \in Procs : Holding(p)' /\ buf'[p] = b
  BY ZenonT(30) DEF HeldAlone
<1>. QED
  BY <1>1, <1>2, <1>3, <1>4, Zenon DEF HeldAlone

(* The queue as long as nobody joins or leaves it.                         *)
LEMMA QueueFrame ==
  ASSUME TypeOK, Requests, UNCHANGED <<idequeue, cmd>>,
         \A q \in Procs : pc'[q] = "ide_sleep" <=> pc[q] = "ide_sleep",
         \A q \in Procs : pc[q] = "ide_sleep" =>
           /\ buf'[q] = buf[q] /\ data'[buf[q]] = data[buf[q]]
           /\ buf[q] \in dirty' <=> buf[q] \in dirty
  PROVE  Requests'
<1>1. \A b \in Elems(idequeue) : \E p \in Procs : pc'[p] = "ide_sleep" /\ buf'[p] = b
  BY Zenon DEF Requests
<1>2. \A p \in Procs : pc'[p] = "ide_sleep" => buf'[p] \in Elems(idequeue)
  BY Zenon DEF Requests
<1>3. ASSUME idequeue # <<>> PROVE idestart(Head(idequeue))' = idestart(Head(idequeue))
  <2>1. Head(idequeue) \in Elems(idequeue)
    BY <1>3, Dequeue, Zenon DEF TypeOK
  <2>2. PICK p \in Procs : pc[p] = "ide_sleep" /\ buf[p] = Head(idequeue)
    BY <2>1, Zenon DEF Requests
  <2>3. /\ data'[Head(idequeue)] = data[Head(idequeue)]
        /\ Head(idequeue) \in dirty' <=> Head(idequeue) \in dirty
    BY <2>2, Zenon
  <2>. QED
    BY <2>3, Zenon DEF idestart
<1>. QED
  BY <1>1, <1>2, <1>3, Zenon DEF Requests

(* The buffers are finitely many.                                          *)
LEMMA Finite ==
  /\ IsFiniteSet(Bufs) /\ NBUF \in Nat
  /\ \A S \in SUBSET Bufs : IsFiniteSet(S) /\ Cardinality(S) \in Nat
  /\ \A S, T \in SUBSET Bufs : S \subseteq T => Cardinality(S) <= Cardinality(T)
<1>1. IsFiniteSet(Bufs)
  BY BcacheConstants, Zenon DEF BcacheConstants
<1>2. \A S \in SUBSET Bufs : IsFiniteSet(S)
  BY <1>1, FS_Subset, Zenon
<1>3. \A S \in SUBSET Bufs : Cardinality(S) \in Nat
  BY <1>2, FS_CardinalityType, Zenon
<1>4. \A S, T \in SUBSET Bufs : S \subseteq T => Cardinality(S) <= Cardinality(T)
  BY <1>2, FS_Subset, Zenon
<1>. QED
  BY <1>1, <1>2, <1>3, <1>4, Zenon DEF NBUF

(* No step but log_write() pins a buffer: what becomes dirty is on its way *)
(* to the disk, and a buffer that leaves iderw() is clean.                 *)
LEMMA PinFrame ==
  ASSUME TypeOK, TypeOK', PinsBounded,
         \A b \in dirty' : b \in dirty \/ \E q \in Procs : pc'[q] \in InIderw /\ buf'[q] = b,
         \A q \in Procs : pc[q] \in InIderw /\ buf[q] \in dirty' => pc'[q] \in InIderw /\ buf'[q] = buf[q]
  PROVE  PinsBounded'
<1>1. Pinned' \subseteq Pinned
  BY Zenon DEF Pinned
<1>2. Pinned \in SUBSET Bufs /\ Pinned' \in SUBSET Bufs
  BY Zenon DEF TypeOK, Pinned
<1>3. Cardinality(Pinned') <= Cardinality(Pinned) /\ Cardinality(Pinned') \in Nat /\ Cardinality(Pinned) \in Nat
  BY <1>1, <1>2, Finite, Zenon
<1>4. MAXPIN \in Nat
  BY BcacheConstants, Zenon DEF BcacheConstants
<1>. QED
  BY <1>3, <1>4 DEF PinsBounded

(* The flags of a process that does not move depend on its own buffer.     *)
LEMMA FlagsFrame ==
  ASSUME NEW q \in Procs, FlagsOf(q), pc'[q] = pc[q], want'[q] = want[q], buf'[q] = buf[q],
         Holding(q) => /\ buf[q] \in valid' <=> buf[q] \in valid
                       /\ buf[q] \in dirty' <=> buf[q] \in dirty,
         pc[q] = "bget_sleep" => buf[q] \in busy'
  PROVE  FlagsOf(q)'
<1>1. pc[q] \in {"held", "ide_test", "iderw", "ide_sleep"} => Holding(q)
  BY Zenon DEF Holding, InIderw
<1>. QED
  BY <1>1, Zenon DEF FlagsOf

(* brelse() leaves a list of all buffers.                                  *)
LEMMA ToFrontIsList ==
  ASSUME mru \in Lists, NEW b \in Bufs
  PROVE  ToFront(b) \in Lists
<1>. DEFINE N == NBUF
            f == ToFront(b)
<1>1. /\ N \in Nat /\ mru \in [1 .. N -> Bufs]
      /\ \A i, j \in 1 .. N : mru[i] = mru[j] => i = j
      /\ \A c \in Bufs : \E i \in 1 .. N : mru[i] = c
  BY Finite, Zenon DEF Lists
<1>2. PICK k \in 1 .. N : mru[k] = b
  BY <1>1, Zenon
<1>3. f = [i \in 1 .. N |-> IF i = 1 THEN b ELSE IF \E j \in i .. N : mru[j] = b THEN mru[i - 1] ELSE mru[i]]
  BY Zenon DEF ToFront
<1>. HIDE DEF N, f
<1>4. \A i \in 1 .. N : (\E j \in i .. N : mru[j] = b) <=> i <= k
  BY <1>1, <1>2
<1>5. /\ f \in [1 .. N -> Bufs]
      /\ 1 \in 1 .. N /\ f[1] = b
      /\ \A i \in 1 .. N : i # 1 /\ i <= k => f[i] = mru[i - 1] /\ i - 1 \in 1 .. N
      /\ \A i \in 1 .. N : i # 1 /\ ~(i <= k) => f[i] = mru[i]
  BY <1>1, <1>2, <1>3, <1>4
<1>6. ASSUME NEW i \in 1 .. N, NEW j \in 1 .. N, f[i] = f[j] PROVE i = j
  <2>. DEFINE g(x) == IF x = 1 THEN k ELSE IF x <= k THEN x - 1 ELSE x
  <2>1. \A x \in 1 .. N : g(x) \in 1 .. N /\ f[x] = mru[g(x)]
    BY <1>2, <1>5
  <2>2. g(i) = g(j)
    BY SMTT(20), <1>1, <1>6, <2>1
  <2>. QED
    BY <1>1, <1>2, <2>2
<1>7. ASSUME NEW c \in Bufs PROVE \E i \in 1 .. N : f[i] = c
  <2>1. PICK j \in 1 .. N : mru[j] = c
    BY <1>1, Zenon
  <2>2. CASE j < k
    <3>1. j + 1 \in 1 .. N /\ j + 1 # 1 /\ j + 1 <= k /\ (j + 1) - 1 = j
      BY <1>1, <1>2, <2>2
    <3>. QED
      BY <1>5, <2>1, <3>1
  <2>3. CASE j = k
    BY <1>2, <1>5, <2>1, <2>3, Zenon
  <2>4. CASE j > k
    <3>1. j # 1 /\ ~(j <= k)
      BY <1>1, <1>2, <2>4
    <3>. QED
      BY <1>5, <2>1, <3>1, Zenon
  <2>. QED
    BY <1>1, <1>2, <2>2, <2>3, <2>4
<1>. QED
  BY <1>5, <1>6, <1>7, Zenon DEF Lists, N, f

-----------------------------------------------------------------------------
(* A process moves on and nothing else changes but what it asks for.       *)
Moves(p, y) ==
  /\ pc' = [pc EXCEPT ![p] = y] /\ y \in PCs
  /\ y \notin {"ide_sleep", "panic"} /\ pc[p] # "ide_sleep"
  /\ want' \in [Procs -> Blocks \cup {None}] /\ \A q \in Procs \ {p} : want'[q] = want[q]
  /\ UNCHANGED <<blockno, busy, valid, dirty, data, mru, idequeue, cmd, disk, buf>>
  /\ y \in {"bread", "held"} \cup InIderw <=> Holding(p)
  /\ Holding(p) => want'[p] = want[p]
  /\ pc[p] \in InIderw => buf[p] \notin dirty

(* Such a move keeps the cache.                                            *)
LEMMA MoveStep ==
  ASSUME CacheInv, NEW p \in Procs, NEW y, Moves(p, y), FlagsOf(p)'
  PROVE  CacheInv'
<1>. USE DEF CacheInv
<1>1. pc'[p] = y /\ \A q \in Procs \ {p} : pc'[q] = pc[q]
  BY Zenon DEF Moves, TypeOK
<1>2. TypeOK'
  <2>1. pc' \in [Procs -> PCs]
    BY Zenon DEF Moves, TypeOK
  <2>. QED
    BY <2>1, Zenon DEF Moves, TypeOK
<1>3. HeldAlone'
  <2>1. \A q \in Procs : Holding(q)' <=> Holding(q)
    BY <1>1, Zenon DEF Holding, Moves
  <2>2. \A q \in Procs : Holding(q) => buf'[q] = buf[q] /\ want'[q] = want[q]
    BY <1>1, Zenon DEF Moves
  <2>3. UNCHANGED <<blockno, busy>>
    BY Zenon DEF Moves
  <2>. QED
    BY <2>1, <2>2, <2>3, HoldFrame, Zenon
<1>4. Requests'
  <2>1. UNCHANGED <<idequeue, cmd, buf, data, dirty>>
    BY Zenon DEF Moves
  <2>2. \A q \in Procs : pc'[q] = "ide_sleep" <=> pc[q] = "ide_sleep"
    BY <1>1, Zenon DEF Moves
  <2>. QED
    BY <2>1, <2>2, QueueFrame, Zenon
<1>5. Flags'
  <2>1. UNCHANGED <<valid, dirty, busy, buf>>
    BY Zenon DEF Moves
  <2>2. ASSUME NEW q \in Procs, q # p PROVE FlagsOf(q)'
    <3>1. pc'[q] = pc[q] /\ want'[q] = want[q] /\ FlagsOf(q)
      BY <1>1, <2>2, Zenon DEF Moves, Flags
    <3>. QED
      BY <2>1, <3>1, FlagsFrame, Zenon DEF FlagsOf
  <2>. QED
    BY <2>1, <2>2, Zenon DEF Flags
<1>6. PinsBounded'
  <2>1. UNCHANGED <<dirty, buf>> /\ (pc[p] \in InIderw => buf[p] \notin dirty)
    BY Zenon DEF Moves
  <2>. QED
    BY <1>1, <1>2, <2>1, PinFrame, Zenon
<1>7. NoPanic'
  BY <1>1, Zenon DEF NoPanic, Moves
<1>. QED
  BY <1>2, <1>3, <1>4, <1>5, <1>6, <1>7, ZenonT(30)

(* A process asks for a block.                                             *)
LEMMA CallStep ==
  ASSUME CacheInv, NEW p \in Procs, NEW k \in Blocks, call(p, k)
  PROVE  CacheInv'
<1>1. Moves(p, "bget")
  <2>1. pc[p] = "idle" /\ ~Holding(p) /\ pc[p] \notin InIderw
    BY Zenon DEF call, Holding, InIderw
  <2>2. "bget" \in PCs /\ "bget" \notin {"bread", "held"} \cup InIderw
    BY Zenon DEF PCs, InIderw
  <2>3. want' \in [Procs -> Blocks \cup {None}] /\ \A q \in Procs \ {p} : want'[q] = want[q]
    BY Zenon DEF call, CacheInv, TypeOK
  <2>4. /\ pc' = [pc EXCEPT ![p] = "bget"]
        /\ UNCHANGED <<blockno, busy, valid, dirty, data, mru, idequeue, cmd, disk, buf>>
    BY Zenon DEF call, cacheVars, ideVars
  <2>. QED
    BY <2>1, <2>2, <2>3, <2>4, Zenon DEF Moves
<1>2. FlagsOf(p)'
  <2>1. pc'[p] = "bget" /\ want'[p] = k
    BY Zenon DEF call, CacheInv, TypeOK
  <2>2. k # None
    BY BcacheConstants, Zenon DEF BcacheConstants
  <2>. QED
    BY <2>1, <2>2, Zenon DEF FlagsOf
<1>. QED
  BY <1>1, <1>2, MoveStep, Zenon

(* bread() returns a valid buffer or goes on to the driver.                *)
LEMMA BreadStep ==
  ASSUME CacheInv, NEW p \in Procs, bread(p)
  PROVE  CacheInv'
<1>. DEFINE y == IF buf[p] \in valid THEN "held" ELSE "iderw"
<1>1. /\ pc[p] = "bread" /\ pc' = [pc EXCEPT ![p] = y]
      /\ UNCHANGED <<blockno, busy, valid, dirty, data, mru, idequeue, cmd, disk, want, buf>>
  BY Zenon DEF bread, cacheVars, ideVars
<1>2. Moves(p, y)
  <2>1. Holding(p) /\ pc[p] \notin InIderw
    BY <1>1, Zenon DEF Holding, InIderw
  <2>2. y \in PCs /\ y \in {"bread", "held"} \cup InIderw /\ y \notin {"ide_sleep", "panic"}
    BY Zenon DEF PCs, InIderw
  <2>3. want' \in [Procs -> Blocks \cup {None}]
    BY <1>1, Zenon DEF CacheInv, TypeOK
  <2>. QED
    BY <1>1, <2>1, <2>2, <2>3, Zenon DEF Moves
<1>3. FlagsOf(p)'
  <2>1. pc'[p] = y
    BY <1>1, Zenon DEF CacheInv, TypeOK
  <2>2. want[p] # None
    BY <1>1, Zenon DEF CacheInv, Flags, FlagsOf
  <2>3. valid' = valid /\ buf' = buf /\ want' = want
    BY <1>1, Zenon
  <2>4. CASE buf[p] \in valid
    BY <2>1, <2>2, <2>3, <2>4, Zenon DEF FlagsOf
  <2>5. CASE buf[p] \notin valid
    BY <2>1, <2>2, <2>3, <2>5, Zenon DEF FlagsOf
  <2>. QED
    BY <2>4, <2>5, Zenon
<1>. QED
  BY <1>2, <1>3, MoveStep, Zenon

(* A process woken in iderw() finds its buffer valid and clean: the loop   *)
(* of iderw() never sleeps twice.                                          *)
LEMMA IderwTestStep ==
  ASSUME CacheInv, NEW p \in Procs, iderw_test(p)
  PROVE  CacheInv'
<1>1. pc[p] = "ide_test" /\ buf[p] \in valid /\ buf[p] \notin dirty /\ want[p] # None
  BY Zenon DEF iderw_test, CacheInv, Flags, FlagsOf
<1>2. /\ pc' = [pc EXCEPT ![p] = "held"]
      /\ UNCHANGED <<blockno, busy, valid, dirty, data, mru, idequeue, cmd, disk, want, buf>>
  BY <1>1, Zenon DEF iderw_test, cacheVars, ideVars
<1>3. Moves(p, "held")
  <2>1. Holding(p)
    BY <1>1, Zenon DEF Holding, InIderw
  <2>2. "held" \in PCs
    BY Zenon DEF PCs
  <2>3. want' \in [Procs -> Blocks \cup {None}]
    BY <1>2, Zenon DEF CacheInv, TypeOK
  <2>. QED
    BY <1>1, <1>2, <2>1, <2>2, <2>3, ZenonT(30) DEF Moves
<1>4. FlagsOf(p)'
  <2>1. pc'[p] = "held"
    BY <1>2, Zenon DEF CacheInv, TypeOK
  <2>. QED
    BY <1>1, <1>2, <2>1, Zenon DEF FlagsOf
<1>. QED
  BY <1>3, <1>4, MoveStep, Zenon

(* iderw() puts the buffer at the end of the queue; its checks hold.       *)
LEMMA IderwStep ==
  ASSUME CacheInv, NEW p \in Procs, iderw(p)
  PROVE  CacheInv'
<1>. USE DEF CacheInv
<1>. DEFINE b == buf[p]
<1>1. /\ pc[p] = "iderw" /\ Holding(p) /\ b \in busy /\ b \in Bufs /\ want[p] # None
      /\ ~(b \in valid /\ b \notin dirty)
  <2>1. pc[p] = "iderw"
    BY Zenon DEF iderw
  <2>2. Holding(p)
    BY <2>1, Zenon DEF Holding, InIderw
  <2>3. b \in busy /\ b \in Bufs
    BY <2>2, Zenon DEF HeldAlone, TypeOK
  <2>. QED
    BY <2>1, <2>2, <2>3, Zenon DEF Flags, FlagsOf
<1>2. /\ idequeue' = Append(idequeue, b)
      /\ cmd' = IF idequeue = <<>> THEN idestart(b) ELSE cmd
      /\ pc' = [pc EXCEPT ![p] = "ide_sleep"]
      /\ UNCHANGED <<blockno, busy, valid, dirty, data, mru, disk, want, buf>>
  BY <1>1, Zenon DEF iderw, cacheVars
<1>3. pc'[p] = "ide_sleep" /\ \A q \in Procs \ {p} : pc'[q] = pc[q]
  BY <1>2, Zenon DEF TypeOK
<1>4. \A q \in Procs : pc[q] = "ide_sleep" => Holding(q) /\ buf[q] # b
  <2>1. \A q \in Procs : pc[q] = "ide_sleep" => Holding(q) /\ q # p
    BY <1>1, Zenon DEF Holding, InIderw
  <2>. QED
    BY <1>1, <2>1, Zenon DEF HeldAlone
<1>5. /\ idequeue' \in Seq(Bufs) /\ idequeue' # <<>> /\ Elems(idequeue') = Elems(idequeue) \cup {b}
      /\ Distinct(idequeue')
      /\ idequeue = <<>> => Head(idequeue') = b
      /\ idequeue # <<>> => Head(idequeue') = Head(idequeue)
  <2>1. idequeue \in Seq(Bufs) /\ Distinct(idequeue)
    BY Zenon DEF TypeOK, Requests
  <2>2. b \notin Elems(idequeue)
    BY <1>4, Zenon DEF Requests
  <2>3. b \in Bufs
    BY <1>1, Zenon
  <2>. HIDE DEF b
  <2>. DEFINE r == Append(idequeue, b)
  <2>4. /\ r \in Seq(Bufs) /\ r # <<>> /\ Elems(r) = Elems(idequeue) \cup {b}
        /\ Distinct(idequeue) /\ b \notin Elems(idequeue) => Distinct(r)
        /\ idequeue = <<>> => Head(r) = b
        /\ idequeue # <<>> => Head(r) = Head(idequeue)
    BY <2>1, <2>3, Enqueue
  <2>. QED
    BY <1>2, <2>1, <2>2, <2>4, Zenon
<1>6. idestart(b) \in Vals \cup {"read", None}
  BY <1>1, Zenon DEF idestart, TypeOK
<1>7. TypeOK'
  <2>1. cmd' \in Vals \cup {"read", None}
    BY <1>2, <1>6, Zenon DEF TypeOK
  <2>2. pc' \in [Procs -> PCs]
    <3>1. "ide_sleep" \in PCs
      BY Zenon DEF PCs
    <3>. QED
      BY <1>2, <3>1, Zenon DEF TypeOK
  <2>. QED
    BY <1>2, <1>5, <2>1, <2>2, Zenon DEF TypeOK
<1>8. HeldAlone'
  <2>1. Holding(p)'
    BY <1>3, Zenon DEF Holding, InIderw
  <2>2. \A q \in Procs : Holding(q)' <=> Holding(q)
    BY <1>1, <1>3, <2>1, Zenon DEF Holding
  <2>. QED
    BY <1>2, <2>2, HoldFrame, Zenon
<1>9. Requests'
  <2>1. \A c \in Elems(idequeue') : \E q \in Procs : pc'[q] = "ide_sleep" /\ buf'[q] = c
    <3>1. ASSUME NEW c \in Elems(idequeue)
          PROVE  \E q \in Procs : pc'[q] = "ide_sleep" /\ buf'[q] = c
      <4>1. PICK q \in Procs : pc[q] = "ide_sleep" /\ buf[q] = c
        BY <3>1, Zenon DEF Requests
      <4>2. pc'[q] = "ide_sleep" /\ buf'[q] = c
        BY <1>2, <1>3, <4>1, Zenon
      <4>. QED
        BY <4>2, Zenon
    <3>. QED
      BY <1>2, <1>3, <1>5, <3>1, Zenon
  <2>2. \A q \in Procs : pc'[q] = "ide_sleep" => buf'[q] \in Elems(idequeue')
    BY <1>2, <1>3, <1>5, Zenon DEF Requests
  <2>3. cmd' = idestart(Head(idequeue'))
    BY <1>2, <1>5, Zenon DEF Requests
  <2>4. \A c : idestart(c)' = idestart(c)
    BY <1>2, Zenon DEF idestart
  <2>. QED
    BY <1>5, <2>1, <2>2, <2>3, <2>4, Zenon DEF Requests
<1>10. Flags'
  <2>1. FlagsOf(p)'
    BY <1>1, <1>2, <1>3, Zenon DEF FlagsOf
  <2>2. ASSUME NEW q \in Procs, q # p PROVE FlagsOf(q)'
    <3>1. pc'[q] = pc[q] /\ want'[q] = want[q] /\ FlagsOf(q)
      BY <1>2, <1>3, <2>2, Zenon DEF Flags
    <3>. QED
      BY <1>2, <3>1, FlagsFrame, Zenon DEF FlagsOf
  <2>. QED
    BY <1>2, <2>1, <2>2, Zenon DEF Flags
<1>11. PinsBounded'
  <2>1. \A q \in Procs : pc[q] \in InIderw => pc'[q] \in InIderw
    BY <1>3, Zenon DEF InIderw
  <2>. QED
    BY <1>2, <1>7, <2>1, PinFrame, ZenonT(30)
<1>12. NoPanic'
  BY <1>3, Zenon DEF NoPanic
<1>. QED
  BY <1>7, <1>8, <1>9, <1>10, <1>11, <1>12, Zenon

(* The holder of a buffer changes its data and sets B_DIRTY.               *)
Dirties(p, v, y) ==
  /\ pc[p] = "held" /\ y \in {"held", "iderw"} /\ v \in Vals
  /\ data' = [data EXCEPT ![buf[p]] = v] /\ dirty' = dirty \cup {buf[p]}
  /\ pc' = [pc EXCEPT ![p] = y]
  /\ UNCHANGED <<blockno, busy, valid, mru, idequeue, cmd, disk, want, buf>>

(* Setting B_DIRTY keeps the cache, while enough buffers stay unpinned.    *)
LEMMA DirtyStep ==
  ASSUME CacheInv, NEW p \in Procs, NEW v, NEW y, Dirties(p, v, y), PinsBounded'
  PROVE  CacheInv'
<1>. USE DEF CacheInv
<1>1. /\ pc[p] = "held" /\ Holding(p) /\ buf[p] \in busy /\ buf[p] \in Bufs /\ buf[p] \in valid
      /\ want[p] # None
  <2>1. pc[p] = "held"
    BY Zenon DEF Dirties
  <2>2. Holding(p)
    BY <2>1, Zenon DEF Holding
  <2>3. buf[p] \in busy /\ buf[p] \in Bufs
    BY <2>2, Zenon DEF HeldAlone, TypeOK
  <2>. QED
    BY <2>1, <2>2, <2>3, ZenonT(30) DEF Flags, FlagsOf
<1>2. /\ y \in {"held", "iderw"} /\ pc'[p] = y /\ \A q \in Procs \ {p} : pc'[q] = pc[q]
      /\ \A c \in Bufs \ {buf[p]} : data'[c] = data[c]
      /\ \A c \in Bufs : c # buf[p] => (c \in dirty' <=> c \in dirty)
      /\ buf[p] \in dirty'
      /\ UNCHANGED <<blockno, busy, valid, mru, idequeue, cmd, disk, want, buf>>
  BY Zenon DEF Dirties, TypeOK
<1>3. \A q \in Procs : Holding(q) => buf[q] \in Bufs /\ (q # p => buf[q] # buf[p])
  BY <1>1, Zenon DEF HeldAlone, TypeOK
<1>4. TypeOK'
  <2>1. data' \in [Bufs -> Vals]
    BY Zenon DEF Dirties, TypeOK
  <2>2. y \in PCs
    BY <1>2, Zenon DEF PCs
  <2>3. pc' \in [Procs -> PCs]
    BY <2>2, Zenon DEF Dirties, TypeOK
  <2>4. dirty' \subseteq Bufs
    BY <1>1, Zenon DEF Dirties, TypeOK
  <2>. QED
    BY <1>2, <2>1, <2>3, <2>4, Zenon DEF TypeOK
<1>5. HeldAlone'
  <2>1. Holding(p)'
    BY <1>2, Zenon DEF Holding, InIderw
  <2>2. \A q \in Procs : Holding(q)' <=> Holding(q)
    BY <1>1, <1>2, <2>1, Zenon DEF Holding
  <2>. QED
    BY <1>2, <2>2, HoldFrame, Zenon
<1>6. Requests'
  <2>1. \A q \in Procs : pc[q] = "ide_sleep" => Holding(q) /\ q # p
    BY <1>1, Zenon DEF Holding, InIderw
  <2>2. \A q \in Procs : pc[q] = "ide_sleep" =>
          /\ buf'[q] = buf[q] /\ data'[buf[q]] = data[buf[q]]
          /\ buf[q] \in dirty' <=> buf[q] \in dirty
    BY <1>2, <1>3, <2>1, Zenon
  <2>3. \A q \in Procs : pc'[q] = "ide_sleep" <=> pc[q] = "ide_sleep"
    BY <1>1, <1>2, Zenon
  <2>. QED
    BY <1>2, <2>2, <2>3, QueueFrame, Zenon
<1>7. Flags'
  <2>1. FlagsOf(p)'
    BY <1>1, <1>2, Zenon DEF FlagsOf
  <2>2. ASSUME NEW q \in Procs, q # p PROVE FlagsOf(q)'
    <3>1. /\ pc'[q] = pc[q] /\ want'[q] = want[q] /\ FlagsOf(q) /\ buf'[q] = buf[q] /\ valid' = valid
          /\ busy' = busy
      BY <1>2, <2>2, Zenon DEF Flags
    <3>2. Holding(q) => (buf[q] \in dirty' <=> buf[q] \in dirty)
      BY <1>2, <1>3, <2>2, Zenon
    <3>. QED
      BY <3>1, <3>2, FlagsFrame, ZenonT(30) DEF FlagsOf
  <2>3. dirty' \subseteq valid'
    BY <1>1, <1>2, Zenon DEF Dirties, Flags
  <2>. QED
    BY <2>1, <2>2, <2>3, Zenon DEF Flags
<1>8. NoPanic'
  BY <1>2, Zenon DEF NoPanic
<1>. QED
  BY <1>4, <1>5, <1>6, <1>7, <1>8, ZenonT(30)

(* bwrite() sets B_DIRTY and calls the driver.                             *)
LEMMA BwriteStep ==
  ASSUME CacheInv, NEW p \in Procs, NEW v \in Vals, bwrite(p, v)
  PROVE  Dirties(p, v, "iderw") /\ CacheInv'
<1>1. pc[p] = "held" /\ Holding(p) /\ buf[p] \in busy /\ buf[p] \in Bufs
  BY Zenon DEF bwrite, Holding, CacheInv, HeldAlone, TypeOK
<1>2. Dirties(p, v, "iderw")
  BY <1>1, Zenon DEF bwrite, cacheVars, ideVars, Dirties
<1>3. TypeOK'
  <2>1. data' \in [Bufs -> Vals]
    BY Zenon DEF bwrite, CacheInv, TypeOK
  <2>2. "iderw" \in PCs
    BY Zenon DEF PCs
  <2>3. pc' \in [Procs -> PCs]
    BY <1>2, <2>2, Zenon DEF Dirties, CacheInv, TypeOK
  <2>4. dirty' \subseteq Bufs
    BY <1>1, Zenon DEF bwrite, CacheInv, TypeOK
  <2>. QED
    BY <1>2, <2>1, <2>3, <2>4, Zenon DEF Dirties, CacheInv, TypeOK
<1>4. PinsBounded'
  <2>1. pc'[p] \in InIderw /\ buf' = buf
    BY <1>2, Zenon DEF Dirties, CacheInv, TypeOK, InIderw
  <2>2. \A q \in Procs : pc[q] \in InIderw => pc'[q] \in InIderw
    BY <1>2, <2>1, Zenon DEF Dirties, CacheInv, TypeOK
  <2>3. \A c \in dirty' : c \in dirty \/ c = buf[p]
    BY <1>2, Zenon DEF Dirties
  <2>. QED
    BY <1>3, <2>1, <2>2, <2>3, PinFrame, Zenon DEF CacheInv
<1>. QED
  BY <1>2, <1>4, DirtyStep, Zenon

(* log_write() sets B_DIRTY and so pins the buffer.                        *)
LEMMA LogWriteStep ==
  ASSUME CacheInv, NEW p \in Procs, NEW v \in Vals, log_write(p, v)
  PROVE  Dirties(p, v, "held") /\ CacheInv'
<1>1. pc[p] = "held" /\ Holding(p) /\ buf[p] \in Bufs
  BY Zenon DEF log_write, Holding, CacheInv, HeldAlone, TypeOK
<1>2. pc' = [pc EXCEPT ![p] = "held"]
  BY <1>1, Zenon DEF log_write, CacheInv, TypeOK
<1>3. Dirties(p, v, "held")
  BY <1>1, <1>2, Zenon DEF log_write, cacheVars, ideVars, Dirties
<1>4. PinsBounded'
  <2>1. Pinned' \subseteq Pinned \cup {buf[p]}
    BY Zenon DEF log_write, Pinned
  <2>2. Pinned \cup {buf[p]} \in SUBSET Bufs /\ Pinned' \in SUBSET Bufs
    BY <1>1, <2>1, Zenon DEF Pinned, CacheInv, TypeOK
  <2>3. /\ Cardinality(Pinned') <= Cardinality(Pinned \cup {buf[p]})
        /\ Cardinality(Pinned') \in Nat /\ Cardinality(Pinned \cup {buf[p]}) \in Nat
    BY <2>1, <2>2, Finite, Zenon
  <2>4. MAXPIN \in Nat /\ Cardinality(Pinned \cup {buf[p]}) <= MAXPIN
    BY BcacheConstants, Zenon DEF BcacheConstants, log_write
  <2>. QED
    BY <2>3, <2>4 DEF PinsBounded
<1>. QED
  BY <1>3, <1>4, DirtyStep, Zenon

-----------------------------------------------------------------------------
(* Whom wakeup() moves, and where to.                                      *)
LEMMA Woken ==
  ASSUME TypeOK, NEW b
  PROVE  /\ wakeup(pc, b) \in [Procs -> PCs]
         /\ \A q \in Procs :
              /\ buf[q] # b => wakeup(pc, b)[q] = pc[q]
              /\ pc[q] \notin {"bget_sleep", "ide_sleep"} => wakeup(pc, b)[q] = pc[q]
              /\ buf[q] = b /\ pc[q] = "bget_sleep" => wakeup(pc, b)[q] = "bget"
              /\ buf[q] = b /\ pc[q] = "ide_sleep" => wakeup(pc, b)[q] = "ide_test"
<1>. DEFINE w == wakeup(pc, b)
<1>1. "bget" \in PCs /\ "ide_test" \in PCs
  BY Zenon DEF PCs
<1>2. w \in [Procs -> PCs]
  BY <1>1, Zenon DEF wakeup, TypeOK
<1>3. ASSUME NEW q \in Procs
      PROVE  w[q] = IF buf[q] # b THEN pc[q]
                    ELSE IF pc[q] = "bget_sleep" THEN "bget"
                    ELSE IF pc[q] = "ide_sleep" THEN "ide_test" ELSE pc[q]
  BY Zenon DEF wakeup
<1>4. ASSUME NEW q \in Procs
      PROVE  /\ buf[q] # b => w[q] = pc[q]
             /\ pc[q] \notin {"bget_sleep", "ide_sleep"} => w[q] = pc[q]
             /\ buf[q] = b /\ pc[q] = "bget_sleep" => w[q] = "bget"
             /\ buf[q] = b /\ pc[q] = "ide_sleep" => w[q] = "ide_test"
  BY <1>3, <1>4, Zenon
<1>. QED
  BY <1>2, <1>4, Zenon

(* The disk finishes the first request, of the process p.                  *)
LEMMA Finishes ==
  ASSUME CacheInv, NEW ok \in BOOLEAN, ideintr(ok)
  PROVE  /\ idequeue # <<>> /\ Head(idequeue) \in Bufs /\ cmd = idestart(Head(idequeue))
         /\ \E p \in Procs : /\ pc[p] = "ide_sleep" /\ Holding(p) /\ buf[p] = Head(idequeue)
                             /\ want[p] \in Blocks /\ blockno[Head(idequeue)] = want[p]
<1>. USE DEF CacheInv
<1>. DEFINE b == Head(idequeue)
<1>1. idequeue # <<>> /\ cmd = idestart(b)
  BY Zenon DEF ideintr, Requests
<1>2. b \in Elems(idequeue) /\ b \in Bufs
  BY <1>1, Dequeue, Zenon DEF TypeOK
<1>3. PICK p \in Procs : pc[p] = "ide_sleep" /\ buf[p] = b
  BY <1>2, Zenon DEF Requests
<1>4. Holding(p)
  BY <1>3, Zenon DEF Holding, InIderw
<1>5. want[p] # None
  BY <1>3, Zenon DEF Flags, FlagsOf
<1>6. want[p] \in Blocks /\ blockno[b] = want[p]
  BY <1>3, <1>4, <1>5, ZenonT(30) DEF HeldAlone, TypeOK
<1>. QED
  BY <1>1, <1>2, <1>3, <1>4, <1>6, ZenonT(30)

(* ideintr() finishes the first request, wakes who sleeps on its buffer    *)
(* and starts the next request.                                            *)
LEMMA IdeintrStep ==
  ASSUME CacheInv, NEW ok \in BOOLEAN, ideintr(ok)
  PROVE  CacheInv'
<1>. USE DEF CacheInv
<1>. DEFINE b == Head(idequeue)
<1>1. PICK p \in Procs : /\ pc[p] = "ide_sleep" /\ Holding(p) /\ buf[p] = b
                         /\ want[p] \in Blocks /\ blockno[b] = want[p]
  BY Finishes, Zenon
<1>2. idequeue # <<>> /\ b \in Bufs /\ cmd = idestart(b)
  BY Finishes, Zenon
<1>3. /\ idequeue' = Tail(idequeue)
      /\ disk' = IF ok /\ cmd # "read" THEN [disk EXCEPT ![blockno[b]] = cmd] ELSE disk
      /\ data' = IF ok /\ b \notin dirty THEN [data EXCEPT ![b] = disk[blockno[b]]] ELSE data
      /\ valid' = valid \cup {b} /\ dirty' = dirty \ {b} /\ pc' = wakeup(pc, b)
      /\ cmd' = IF idequeue' = <<>> THEN None ELSE idestart(Head(idequeue'))
      /\ UNCHANGED <<blockno, busy, mru, want, buf>>
  BY Zenon DEF ideintr, cacheVars
<1>4. /\ idequeue' \in Seq(Bufs) /\ Distinct(idequeue')
      /\ Elems(idequeue') = Elems(idequeue) \ {b}
      /\ idequeue' # <<>> => Head(idequeue') \in Elems(idequeue') /\ Head(idequeue') \in Bufs
  <2>. DEFINE r == Tail(idequeue)
  <2>1. idequeue \in Seq(Bufs) /\ Distinct(idequeue)
    BY Zenon DEF TypeOK, Requests
  <2>2. r \in Seq(Bufs) /\ Distinct(r) /\ Elems(r) = Elems(idequeue) \ {b}
    BY <1>2, <2>1, Dequeue, Zenon
  <2>3. r # <<>> => Head(r) \in Elems(r)
    BY <1>2, <2>1, Dequeue, Zenon
  <2>4. r # <<>> => Head(r) \in Bufs
    BY <2>2, Dequeue, Zenon
  <2>. QED
    BY <1>3, <2>2, <2>3, <2>4, Zenon
<1>5. /\ pc' \in [Procs -> PCs]
      /\ \A q \in Procs :
           /\ buf[q] # b => pc'[q] = pc[q]
           /\ pc[q] \notin {"bget_sleep", "ide_sleep"} => pc'[q] = pc[q]
           /\ buf[q] = b /\ pc[q] = "bget_sleep" => pc'[q] = "bget"
           /\ buf[q] = b /\ pc[q] = "ide_sleep" => pc'[q] = "ide_test"
  BY <1>3, Woken, Zenon
<1>. HIDE DEF b
<1>6. TypeOK'
  <2>1. cmd \in Vals \cup {"read", None} /\ (cmd # "read" => cmd \in Vals)
    BY <1>2, Zenon DEF idestart, TypeOK
  <2>2. disk' \in [Blocks -> Vals]
    <3>1. CASE ok /\ cmd # "read"
      BY <1>1, <1>3, <2>1, <3>1, ZenonT(30) DEF TypeOK
    <3>2. CASE ~(ok /\ cmd # "read")
      BY <1>3, <3>2, Zenon DEF TypeOK
    <3>. QED
      BY <3>1, <3>2, Zenon
  <2>3. data' \in [Bufs -> Vals]
    <3>1. disk[blockno[b]] \in Vals
      BY <1>1, Zenon DEF TypeOK
    <3>2. CASE ok /\ b \notin dirty
      BY <1>3, <3>1, <3>2, Zenon DEF TypeOK
    <3>3. CASE ~(ok /\ b \notin dirty)
      BY <1>3, <3>3, Zenon DEF TypeOK
    <3>. QED
      BY <3>2, <3>3, Zenon
  <2>4. cmd' \in Vals \cup {"read", None}
    <3>1. CASE idequeue' = <<>>
      BY <1>3, <3>1, Zenon
    <3>2. CASE idequeue' # <<>>
      BY <1>3, <1>4, <3>2, Zenon DEF TypeOK, idestart
    <3>. QED
      BY <3>1, <3>2, Zenon
  <2>5. valid' \subseteq Bufs /\ dirty' \subseteq Bufs
    BY <1>2, <1>3, Zenon DEF TypeOK
  <2>. QED
    BY <1>3, <1>4, <1>5, <2>2, <2>3, <2>4, <2>5, ZenonT(30) DEF TypeOK
<1>7. \A q \in Procs : Holding(q) /\ q # p => buf[q] # b
  BY <1>1, Zenon DEF HeldAlone
<1>8. HeldAlone'
  <2>1. ASSUME NEW q \in Procs PROVE Holding(q)' <=> Holding(q)
    <3>1. CASE buf[q] # b \/ pc[q] \notin {"bget_sleep", "ide_sleep"}
      BY <1>5, <3>1, ZenonT(30) DEF Holding
    <3>2. CASE buf[q] = b /\ pc[q] = "bget_sleep"
      BY <1>5, <3>2, Zenon DEF Holding, InIderw
    <3>3. CASE buf[q] = b /\ pc[q] = "ide_sleep"
      BY <1>5, <3>3, Zenon DEF Holding, InIderw
    <3>. QED
      BY <3>1, <3>2, <3>3, Zenon
  <2>. QED
    BY <1>3, <2>1, HoldFrame, ZenonT(30)
<1>9. Requests'
  <2>1. \A q \in Procs : pc'[q] = "ide_sleep" <=> pc[q] = "ide_sleep" /\ buf[q] # b
    BY <1>5, Zenon
  <2>2. ASSUME NEW c \in Elems(idequeue')
        PROVE  \E q \in Procs : pc'[q] = "ide_sleep" /\ buf'[q] = c
    <3>1. PICK q \in Procs : pc[q] = "ide_sleep" /\ buf[q] = c /\ c # b
      BY <1>4, <2>2, Zenon DEF Requests
    <3>. QED
      BY <1>3, <2>1, <3>1, Zenon
  <2>3. \A q \in Procs : pc'[q] = "ide_sleep" => buf'[q] \in Elems(idequeue')
    BY <1>3, <1>4, <2>1, Zenon DEF Requests
  <2>4. ASSUME idequeue' # <<>> PROVE cmd' = idestart(Head(idequeue))'
    <3>. DEFINE c == Head(idequeue')
    <3>1. c \in Bufs /\ c # b
      BY <1>4, <2>4, Zenon
    <3>2. data'[c] = data[c] /\ (c \in dirty' <=> c \in dirty)
      BY <1>3, <3>1, Zenon DEF TypeOK
    <3>3. cmd' = idestart(c)
      BY <1>3, <2>4, Zenon
    <3>. QED
      BY <3>2, <3>3, Zenon DEF idestart
  <2>. QED
    BY <1>3, <1>4, <2>2, <2>3, <2>4, ZenonT(30) DEF Requests
<1>10. Flags'
  <2>1. FlagsOf(p)'
    <3>1. pc'[p] = "ide_test" /\ buf'[p] = b /\ want'[p] # None
      BY <1>1, <1>3, <1>5, BcacheConstants, Zenon DEF BcacheConstants
    <3>2. b \in valid' /\ b \notin dirty'
      BY <1>3, Zenon
    <3>. QED
      BY <3>1, <3>2, Zenon DEF FlagsOf
  <2>2. ASSUME NEW q \in Procs, q # p PROVE FlagsOf(q)'
    <3>1. FlagsOf(q) /\ want'[q] = want[q] /\ buf'[q] = buf[q] /\ busy' = busy
      BY <1>3, Zenon DEF Flags
    <3>2. CASE pc'[q] = pc[q]
      <4>1. Holding(q) => buf[q] # b
        BY <1>7, <2>2, Zenon
      <4>2. Holding(q) => /\ buf[q] \in valid' <=> buf[q] \in valid
                          /\ buf[q] \in dirty' <=> buf[q] \in dirty
        BY <1>3, <4>1, Zenon
      <4>. QED
        BY <3>1, <3>2, <4>2, FlagsFrame, Zenon DEF FlagsOf
    <3>3. CASE pc'[q] # pc[q]
      <4>1. pc[q] = "ide_sleep" => Holding(q)
        BY Zenon DEF Holding, InIderw
      <4>2. pc[q] = "bget_sleep" /\ pc'[q] = "bget"
        BY <1>5, <1>7, <2>2, <3>3, <4>1, ZenonT(30)
      <4>. QED
        BY <3>1, <4>2, Zenon DEF FlagsOf
    <3>. QED
      BY <3>2, <3>3, Zenon
  <2>3. dirty' \subseteq valid'
    BY <1>3, Zenon DEF Flags
  <2>. QED
    BY <2>1, <2>2, <2>3, Zenon DEF Flags
<1>11. PinsBounded'
  <2>1. \A q \in Procs : pc[q] \in InIderw => pc'[q] \in InIderw
    BY <1>5, Zenon DEF InIderw
  <2>2. buf' = buf /\ \A c \in dirty' : c \in dirty
    BY <1>3, Zenon
  <2>. QED
    BY <1>6, <2>1, <2>2, PinFrame, Zenon
<1>12. NoPanic'
  <2>1. \A q \in Procs : pc'[q] = "panic" => pc[q] = "panic"
    BY <1>5, ZenonT(30)
  <2>. QED
    BY <2>1, Zenon DEF NoPanic
<1>. QED
  BY <1>6, <1>8, <1>9, <1>10, <1>11, <1>12, Zenon

(* brelse() gives the buffer up, and whoever waited for it in bget() looks *)
(* again.                                                                  *)
LEMMA BrelseStep ==
  ASSUME CacheInv, NEW p \in Procs, brelse(p)
  PROVE  CacheInv'
<1>. USE DEF CacheInv
<1>. DEFINE b == buf[p]
<1>1. pc[p] = "held" /\ Holding(p) /\ b \in busy /\ b \in Bufs
  BY Zenon DEF brelse, Brelse, Holding, HeldAlone, TypeOK
<1>2. /\ mru' = ToFront(b) /\ busy' = busy \ {b}
      /\ pc' = [wakeup(pc, b) EXCEPT ![p] = "idle"]
      /\ want' = [want EXCEPT ![p] = None] /\ buf' = [buf EXCEPT ![p] = None]
      /\ UNCHANGED <<blockno, valid, idequeue, cmd, disk, dirty, data>>
  BY <1>1, Zenon DEF brelse, Brelse, ideVars
<1>3. /\ pc' \in [Procs -> PCs] /\ pc'[p] = "idle" /\ want'[p] = None /\ buf'[p] = None
      /\ \A q \in Procs \ {p} : pc'[q] = wakeup(pc, b)[q] /\ want'[q] = want[q] /\ buf'[q] = buf[q]
  <2>1. wakeup(pc, b) \in [Procs -> PCs] /\ "idle" \in PCs
    BY Woken, Zenon DEF PCs
  <2>. QED
    BY <1>2, <2>1, Zenon DEF TypeOK
<1>4. \A q \in Procs \ {p} : Holding(q) => buf[q] # b
  BY <1>1, Zenon DEF HeldAlone
<1>5. ASSUME NEW q \in Procs \ {p}
      PROVE  \/ pc'[q] = pc[q] /\ (pc[q] = "bget_sleep" => buf[q] # b)
             \/ pc[q] = "bget_sleep" /\ pc'[q] = "bget"
  <2>1. pc[q] = "ide_sleep" => buf[q] # b
    BY <1>4, Zenon DEF Holding, InIderw
  <2>. QED
    BY <1>3, <2>1, Woken, ZenonT(30)
<1>. HIDE DEF b
<1>6. TypeOK'
  <2>1. mru' \in Lists
    BY <1>1, <1>2, ToFrontIsList, Zenon DEF TypeOK
  <2>2. want' \in [Procs -> Blocks \cup {None}] /\ buf' \in [Procs -> Bufs \cup {None}]
    BY <1>2, Zenon DEF TypeOK
  <2>3. busy' \subseteq Bufs
    BY <1>2, Zenon DEF TypeOK
  <2>. QED
    BY <1>2, <1>3, <2>1, <2>2, <2>3, Zenon DEF TypeOK
<1>7. ~Holding(p)' /\ \A q \in Procs \ {p} : Holding(q)' <=> Holding(q)
  <2>1. ~Holding(p)'
    BY <1>3, Zenon DEF Holding, InIderw
  <2>2. "bget_sleep" \notin {"bread", "held"} \cup InIderw /\ "bget" \notin {"bread", "held"} \cup InIderw
    BY Zenon DEF InIderw
  <2>. QED
    BY <1>5, <2>1, <2>2, Zenon DEF Holding
<1>8. HeldAlone'
  <2>1. \A c, d \in Bufs : blockno'[c] = blockno'[d] /\ c # d => blockno'[c] = None
    BY <1>2, Zenon DEF HeldAlone
  <2>2. \A q, r \in Procs : Holding(q)' /\ Holding(r)' /\ q # r => buf'[q] # buf'[r]
    <3>1. SUFFICES ASSUME NEW q \in Procs, NEW r \in Procs, Holding(q)', Holding(r)', q # r
                   PROVE  buf'[q] # buf'[r]
      BY Zenon
    <3>2. Holding(q) /\ Holding(r) /\ buf'[q] = buf[q] /\ buf'[r] = buf[r]
      BY <1>3, <1>7, <3>1, Zenon
    <3>3. buf[q] # buf[r]
      BY <3>1, <3>2, Zenon DEF HeldAlone
    <3>. QED
      BY <3>2, <3>3, Zenon
  <2>3. \A q \in Procs : Holding(q)' => buf'[q] \in busy' /\ blockno'[buf'[q]] = want'[q]
    <3>1. SUFFICES ASSUME NEW q \in Procs \ {p}, Holding(q)
                   PROVE  buf'[q] \in busy' /\ blockno'[buf'[q]] = want'[q]
      BY <1>7, Zenon
    <3>2. buf[q] \in busy /\ blockno[buf[q]] = want[q] /\ buf[q] # b
      BY <1>4, <3>1, Zenon DEF HeldAlone
    <3>3. buf'[q] = buf[q] /\ want'[q] = want[q] /\ blockno' = blockno
      BY <1>2, <1>3, <3>1, Zenon
    <3>4. buf[q] \in busy'
      BY <1>2, <3>2, Zenon
    <3>. QED
      BY <3>2, <3>3, <3>4, Zenon
  <2>4. ASSUME NEW c \in busy' PROVE \E q \in Procs : Holding(q)' /\ buf'[q] = c
    <3>1. PICK q \in Procs : Holding(q) /\ buf[q] = c /\ c # b
      BY <1>2, <2>4, Zenon DEF HeldAlone
    <3>2. q # p
      BY <3>1, Zenon DEF b
    <3>. QED
      BY <1>3, <1>7, <3>1, <3>2, Zenon
  <2>. QED
    BY <2>1, <2>2, <2>3, <2>4, Zenon DEF HeldAlone
<1>9. Requests'
  <2>1. \A q \in Procs : pc'[q] = "ide_sleep" <=> pc[q] = "ide_sleep"
    BY <1>1, <1>3, <1>5, Zenon
  <2>2. \A q \in Procs : pc[q] = "ide_sleep" => buf'[q] = buf[q]
    BY <1>1, <1>3, Zenon
  <2>. QED
    BY <1>2, <2>1, <2>2, QueueFrame, Zenon
<1>10. Flags'
  <2>1. FlagsOf(p)'
    BY <1>3, Zenon DEF FlagsOf
  <2>2. ASSUME NEW q \in Procs, q # p PROVE FlagsOf(q)'
    <3>1. FlagsOf(q) /\ want'[q] = want[q] /\ buf'[q] = buf[q] /\ valid' = valid /\ dirty' = dirty
      BY <1>2, <1>3, <2>2, Zenon DEF Flags
    <3>2. CASE pc'[q] = pc[q] /\ (pc[q] = "bget_sleep" => buf[q] # b)
      <4>1. pc[q] = "bget_sleep" => buf[q] \in busy'
        BY <1>2, <3>1, <3>2, Zenon DEF FlagsOf
      <4>. QED
        BY <3>1, <3>2, <4>1, FlagsFrame, Zenon
    <3>3. CASE pc[q] = "bget_sleep" /\ pc'[q] = "bget"
      BY <3>1, <3>3, Zenon DEF FlagsOf
    <3>. QED
      BY <1>5, <2>2, <3>2, <3>3, Zenon
  <2>. QED
    BY <1>2, <2>1, <2>2, Zenon DEF Flags
<1>11. PinsBounded'
  <2>1. "held" \notin InIderw /\ "bget_sleep" \notin InIderw
    BY Zenon DEF InIderw
  <2>2. \A q \in Procs : pc[q] \in InIderw => pc'[q] \in InIderw /\ buf'[q] = buf[q]
    BY <1>1, <1>3, <1>5, <2>1, Zenon
  <2>. QED
    BY <1>2, <1>6, <2>2, PinFrame, Zenon
<1>12. NoPanic'
  <2>1. \A q \in Procs : pc'[q] = "panic" => pc[q] = "panic"
    BY <1>3, <1>5, Zenon
  <2>. QED
    BY <2>1, Zenon DEF NoPanic
<1>. QED
  BY <1>6, <1>8, <1>9, <1>10, <1>11, <1>12, Zenon

(* bget() gives the process p the buffer b, which nobody held; b has or    *)
(* gets the block that p wants, and no other buffer has it.                *)
Takes(p, b) ==
  /\ pc[p] = "bget" /\ b \in Bufs /\ b \notin busy
  /\ blockno' \in [Bufs -> Blocks \cup {None}] /\ blockno'[b] = want[p]
  /\ \A c \in Bufs \ {b} : blockno'[c] = blockno[c] /\ blockno[c] # want[p]
  /\ busy' = busy \cup {b} /\ valid' \subseteq valid /\ dirty \subseteq valid'
  /\ \A c \in Bufs \ {b} : c \in valid' <=> c \in valid
  /\ buf' = [buf EXCEPT ![p] = b] /\ pc' = [pc EXCEPT ![p] = "bread"]
  /\ UNCHANGED <<dirty, data, mru, idequeue, cmd, disk, want>>

(* Taking a buffer keeps the cache.                                        *)
LEMMA TakeStep ==
  ASSUME CacheInv, NEW p \in Procs, NEW b, Takes(p, b)
  PROVE  CacheInv'
<1>. USE DEF CacheInv
<1>1. /\ pc[p] = "bget" /\ b \in Bufs /\ b \notin busy /\ blockno'[b] = want[p]
      /\ busy' = busy \cup {b} /\ pc'[p] = "bread" /\ buf'[p] = b
      /\ \A q \in Procs \ {p} : pc'[q] = pc[q] /\ buf'[q] = buf[q]
      /\ UNCHANGED <<dirty, data, mru, idequeue, cmd, disk, want>>
  BY Zenon DEF Takes, TypeOK
<1>2. ~Holding(p) /\ want[p] # None /\ pc[p] \notin InIderw
  BY <1>1, Zenon DEF Holding, InIderw, Flags, FlagsOf
<1>3. TypeOK'
  <2>1. "bread" \in PCs
    BY Zenon DEF PCs
  <2>2. pc' \in [Procs -> PCs] /\ buf' \in [Procs -> Bufs \cup {None}]
    BY <2>1, Zenon DEF Takes, TypeOK
  <2>3. busy' \subseteq Bufs /\ valid' \subseteq Bufs
    BY Zenon DEF Takes, TypeOK
  <2>4. blockno' \in [Bufs -> Blocks \cup {None}]
    BY Zenon DEF Takes
  <2>. QED
    BY <1>1, <2>2, <2>3, <2>4, Zenon DEF TypeOK
<1>4. Holding(p)' /\ \A q \in Procs \ {p} : Holding(q)' <=> Holding(q)
  BY <1>1, Zenon DEF Holding
<1>5. \A q \in Procs \ {p} : Holding(q) => buf[q] \in busy /\ buf[q] \in Bufs \ {b} /\ blockno[buf[q]] = want[q]
  BY <1>1, Zenon DEF HeldAlone, TypeOK
<1>6. HeldAlone'
  <2>1. ASSUME NEW c \in Bufs, NEW d \in Bufs, c # d, blockno'[c] = blockno'[d]
        PROVE  blockno'[c] = None
    <3>1. c # b /\ d # b
      BY <2>1, <1>1, ZenonT(30) DEF Takes
    <3>2. blockno'[c] = blockno[c] /\ blockno'[d] = blockno[d]
      BY <3>1, Zenon DEF Takes
    <3>. QED
      BY <2>1, <3>2, Zenon DEF HeldAlone
  <2>2. \A q, r \in Procs : Holding(q)' /\ Holding(r)' /\ q # r => buf'[q] # buf'[r]
    <3>1. SUFFICES ASSUME NEW q \in Procs, NEW r \in Procs, Holding(q)', Holding(r)', q # r
                   PROVE  buf'[q] # buf'[r]
      BY Zenon
    <3>2. CASE q # p /\ r # p
      <4>1. Holding(q) /\ Holding(r) /\ buf'[q] = buf[q] /\ buf'[r] = buf[r]
        BY <1>1, <1>4, <3>1, <3>2, Zenon
      <4>2. buf[q] # buf[r]
        BY <3>1, <4>1, Zenon DEF HeldAlone
      <4>. QED
        BY <4>1, <4>2, Zenon
    <3>3. CASE q = p \/ r = p
      BY <1>1, <1>4, <1>5, <3>1, <3>3, ZenonT(30)
    <3>. QED
      BY <3>2, <3>3, Zenon
  <2>3. ASSUME NEW q \in Procs, Holding(q)'
        PROVE  buf'[q] \in busy' /\ blockno'[buf'[q]] = want'[q]
    <3>1. CASE q = p
      BY <1>1, <3>1, Zenon
    <3>2. CASE q # p
      <4>1. blockno'[buf[q]] = blockno[buf[q]]
        BY <1>4, <1>5, <2>3, <3>2, Zenon DEF Takes
      <4>. QED
        BY <1>1, <1>4, <1>5, <2>3, <3>2, <4>1, ZenonT(30)
    <3>. QED
      BY <3>1, <3>2, Zenon
  <2>4. ASSUME NEW c \in busy' PROVE \E q \in Procs : Holding(q)' /\ buf'[q] = c
    <3>1. CASE c = b
      BY <1>1, <1>4, <3>1, Zenon
    <3>2. CASE c # b
      <4>1. PICK q \in Procs : Holding(q) /\ buf[q] = c
        BY <1>1, <2>4, <3>2, Zenon DEF HeldAlone
      <4>. QED
        BY <1>1, <1>2, <1>4, <4>1, Zenon
    <3>. QED
      BY <3>1, <3>2, Zenon
  <2>. QED
    BY <2>1, <2>2, <2>3, <2>4, Zenon DEF HeldAlone
<1>7. Requests'
  <2>1. \A q \in Procs : pc'[q] = "ide_sleep" <=> pc[q] = "ide_sleep"
    BY <1>1, Zenon
  <2>2. \A q \in Procs : pc[q] = "ide_sleep" => buf'[q] = buf[q]
    BY <1>1, Zenon
  <2>. QED
    BY <1>1, <2>1, <2>2, QueueFrame, Zenon
<1>8. Flags'
  <2>1. FlagsOf(p)'
    BY <1>1, <1>2, Zenon DEF FlagsOf
  <2>2. ASSUME NEW q \in Procs, q # p PROVE FlagsOf(q)'
    <3>1. FlagsOf(q) /\ pc'[q] = pc[q] /\ want'[q] = want[q] /\ buf'[q] = buf[q] /\ dirty' = dirty
      BY <1>1, <2>2, Zenon DEF Flags
    <3>2. Holding(q) => (buf[q] \in valid' <=> buf[q] \in valid)
      BY <1>5, <2>2, Zenon DEF Takes
    <3>3. pc[q] = "bget_sleep" => buf[q] \in busy'
      BY <1>1, <3>1, Zenon DEF FlagsOf
    <3>. QED
      BY <3>1, <3>2, <3>3, FlagsFrame, Zenon
  <2>3. dirty' \subseteq valid'
    BY <1>1, Zenon DEF Takes
  <2>. QED
    BY <2>1, <2>2, <2>3, Zenon DEF Flags
<1>9. PinsBounded'
  <2>1. \A q \in Procs : pc[q] \in InIderw => pc'[q] \in InIderw /\ buf'[q] = buf[q]
    BY <1>1, <1>2, Zenon
  <2>. QED
    BY <1>1, <1>3, <2>1, PinFrame, Zenon
<1>10. NoPanic'
  BY <1>1, Zenon DEF NoPanic
<1>. QED
  BY <1>3, <1>6, <1>7, <1>8, <1>9, <1>10, ZenonT(30)

(* bget() finds the block: it takes its buffer, or sleeps on it.           *)
LEMMA BgetCachedStep ==
  ASSUME CacheInv, NEW p \in Procs, bget_cached(p)
  PROVE  CacheInv'
<1>. USE DEF CacheInv
<1>1. PICK b \in Cached(want[p]) :
        /\ pc[p] = "bget" /\ buf' = [buf EXCEPT ![p] = b]
        /\ IF b \in busy THEN pc' = [pc EXCEPT ![p] = "bget_sleep"] /\ UNCHANGED busy
                         ELSE pc' = [pc EXCEPT ![p] = "bread"] /\ busy' = busy \cup {b}
        /\ UNCHANGED <<blockno, mru, valid, idequeue, cmd, disk, dirty, data, want>>
  BY Zenon DEF bget_cached, ideVars
<1>2. b \in Bufs /\ blockno[b] = want[p]
  BY Zenon DEF Cached
<1>3. ~Holding(p) /\ want[p] # None /\ pc[p] \notin InIderw
  BY <1>1, Zenon DEF Holding, InIderw, Flags, FlagsOf
<1>4. CASE b \in busy
  <2>1. /\ pc'[p] = "bget_sleep" /\ buf'[p] = b /\ busy' = busy
        /\ \A q \in Procs \ {p} : pc'[q] = pc[q] /\ buf'[q] = buf[q]
    BY <1>1, <1>4, Zenon DEF TypeOK
  <2>2. TypeOK'
    <3>1. "bget_sleep" \in PCs
      BY Zenon DEF PCs
    <3>2. pc' \in [Procs -> PCs] /\ buf' \in [Procs -> Bufs \cup {None}]
      BY <1>1, <1>2, <1>4, <3>1, Zenon DEF TypeOK
    <3>. QED
      BY <1>1, <2>1, <3>2, Zenon DEF TypeOK
  <2>3. HeldAlone'
    <3>1. ~Holding(p)'
      BY <2>1, Zenon DEF Holding, InIderw
    <3>2. \A q \in Procs : Holding(q)' <=> Holding(q)
      BY <1>3, <2>1, <3>1, Zenon DEF Holding
    <3>3. \A q \in Procs : Holding(q) => buf'[q] = buf[q] /\ want'[q] = want[q]
      BY <1>1, <1>3, <2>1, Zenon
    <3>. QED
      BY <1>1, <2>1, <3>2, <3>3, HoldFrame, Zenon
  <2>4. Requests'
    <3>1. \A q \in Procs : pc'[q] = "ide_sleep" <=> pc[q] = "ide_sleep"
      BY <1>1, <2>1, Zenon
    <3>2. \A q \in Procs : pc[q] = "ide_sleep" => buf'[q] = buf[q]
      BY <1>1, <2>1, Zenon
    <3>. QED
      BY <1>1, <3>1, <3>2, QueueFrame, Zenon
  <2>5. Flags'
    <3>1. FlagsOf(p)'
      <4>1. want'[p] # None /\ pc'[p] = "bget_sleep" /\ buf'[p] \in busy'
        <5>1. want' = want
          BY <1>1, Zenon
        <5>. QED
          BY <1>3, <1>4, <2>1, <5>1, Zenon
      <4>. QED
        BY <4>1, Zenon DEF FlagsOf
    <3>2. ASSUME NEW q \in Procs, q # p PROVE FlagsOf(q)'
      <4>1. FlagsOf(q) /\ pc'[q] = pc[q] /\ want'[q] = want[q] /\ buf'[q] = buf[q]
        BY <1>1, <2>1, <3>2, Zenon DEF Flags
      <4>. QED
        BY <1>1, <2>1, <4>1, FlagsFrame, Zenon DEF FlagsOf
    <3>. QED
      BY <1>1, <3>1, <3>2, Zenon DEF Flags
  <2>6. PinsBounded'
    <3>1. \A q \in Procs : pc[q] \in InIderw => pc'[q] \in InIderw /\ buf'[q] = buf[q]
      BY <1>3, <2>1, Zenon
    <3>. QED
      BY <1>1, <2>2, <3>1, PinFrame, Zenon
  <2>7. NoPanic'
    BY <2>1, Zenon DEF NoPanic
  <2>. QED
    BY <2>2, <2>3, <2>4, <2>5, <2>6, <2>7, ZenonT(30)
<1>5. CASE b \notin busy
  <2>1. \A c \in Bufs \ {b} : blockno[c] # want[p]
    BY <1>2, <1>3, Zenon DEF HeldAlone
  <2>2. blockno' \in [Bufs -> Blocks \cup {None}] /\ dirty \subseteq valid
    BY <1>1, Zenon DEF TypeOK, Flags
  <2>3. Takes(p, b)
    BY <1>1, <1>2, <1>5, <2>1, <2>2, Zenon DEF Takes
  <2>. QED
    BY <2>3, TakeStep, Zenon
<1>. QED
  BY <1>4, <1>5, Zenon

(* The holders keep fewer buffers busy than there are processes, and the   *)
(* rest of the dirty buffers are pinned.                                   *)
LEMMA FreeBuffer ==
  ASSUME CacheInv, NEW p \in Procs, pc[p] = "bget", MAXPIN + Cardinality(Procs) <= Cardinality(Bufs)
  PROVE  Free # {}
<1>. USE DEF CacheInv
<1>. DEFINE H == {q \in Procs : Holding(q)}
            g == [q \in H |-> buf[q]]
            n == Cardinality(Procs)
            B == Cardinality(busy)
            P == Cardinality(Pinned)
            U == Cardinality(busy \cup Pinned)
            I == Cardinality(busy \cap Pinned)
<1>1. IsFiniteSet(Procs) /\ n \in Nat
  BY BcacheConstants, FS_CardinalityType, Zenon DEF BcacheConstants
<1>2. IsFiniteSet(Procs \ {p}) /\ Cardinality(Procs \ {p}) = n - 1
  BY <1>1, FS_RemoveElement, Zenon
<1>3. H \subseteq Procs \ {p}
  BY Zenon DEF Holding, InIderw
<1>4. IsFiniteSet(H) /\ Cardinality(H) <= n - 1 /\ Cardinality(H) \in Nat
  <2>1. IsFiniteSet(H) /\ Cardinality(H) <= Cardinality(Procs \ {p})
    BY <1>2, <1>3, FS_Subset, Zenon
  <2>2. Cardinality(H) \in Nat
    BY <2>1, FS_CardinalityType, Zenon
  <2>. QED
    BY <1>2, <2>1, <2>2, Zenon
<1>5. g \in Surjection(H, busy)
  <2>1. g \in [H -> busy]
    BY Zenon DEF HeldAlone
  <2>2. \A c \in busy : \E q \in H : g[q] = c
    BY Zenon DEF HeldAlone
  <2>. QED
    BY <2>1, <2>2, Zenon DEF Surjection
<1>6. B <= Cardinality(H)
  BY <1>4, <1>5, FS_Surjection, Zenon
<1>7. busy \in SUBSET Bufs /\ Pinned \in SUBSET Bufs
  BY Zenon DEF TypeOK, Pinned
<1>8. /\ IsFiniteSet(busy) /\ IsFiniteSet(Pinned) /\ B \in Nat /\ P \in Nat
      /\ Cardinality(Bufs) \in Nat
  BY <1>7, Finite, Zenon DEF NBUF
<1>9. U = B + P - I
  BY <1>8, FS_Union, Zenon
<1>10. I \in Nat
  <2>1. busy \cap Pinned \in SUBSET Bufs
    BY <1>7, Zenon
  <2>. QED
    BY <2>1, Finite, Zenon
<1>11. P <= MAXPIN /\ MAXPIN \in Nat
  BY BcacheConstants, Zenon DEF BcacheConstants, PinsBounded
<1>12. U # Cardinality(Bufs)
  <2>. HIDE DEF H, g, n, B, P, U, I
  <2>1. MAXPIN + n <= Cardinality(Bufs)
    BY Zenon DEF n
  <2>. QED
    BY SMTT(20), <1>1, <1>4, <1>6, <1>8, <1>9, <1>10, <1>11, <2>1
<1>13. PICK c \in Bufs : c \notin busy \cup Pinned
  <2>1. busy \cup Pinned # Bufs
    BY <1>12, Zenon
  <2>. QED
    BY <1>7, <2>1, Zenon
<1>14. c \notin dirty
  <2>1. ASSUME NEW q \in Procs, pc[q] \in InIderw PROVE buf[q] \in busy
    BY <2>1, Zenon DEF Holding, HeldAlone
  <2>. QED
    BY <1>13, <2>1, Zenon DEF Pinned
<1>15. PICK i \in 1 .. NBUF : mru[i] = c
  BY <1>13, Zenon DEF TypeOK, Lists
<1>. QED
  BY <1>13, <1>14, <1>15, Zenon DEF Free, Recyclable

(* bget() recycles the least recently used free buffer: there is one.      *)
LEMMA BgetRecycleStep ==
  ASSUME CacheInv, NEW p \in Procs, bget_recycle(p)
  PROVE  CacheInv'
<1>. USE DEF CacheInv
<1>1. /\ pc[p] = "bget" /\ Cached(want[p]) = {}
      /\ UNCHANGED <<dirty, data, mru, idequeue, cmd, disk, want>>
  BY Zenon DEF bget_recycle
<1>2. ~Holding(p) /\ want[p] # None /\ pc[p] \notin InIderw
  BY <1>1, Zenon DEF Holding, InIderw, Flags, FlagsOf
<1>3. CASE Free = {}
  <2>1. pc' = [pc EXCEPT ![p] = "panic"] /\ UNCHANGED <<blockno, busy, valid, buf>>
    BY <1>3, Zenon DEF bget_recycle
  <2>2. pc'[p] = "panic" /\ \A q \in Procs \ {p} : pc'[q] = pc[q]
    BY <2>1, Zenon DEF TypeOK
  <2>3. TypeOK'
    <3>1. "panic" \in PCs
      BY Zenon DEF PCs
    <3>2. pc' \in [Procs -> PCs]
      BY <2>1, <3>1, Zenon DEF TypeOK
    <3>. QED
      BY <1>1, <2>1, <3>2, Zenon DEF TypeOK
  <2>4. HeldAlone'
    <3>1. ~Holding(p)'
      BY <2>2, Zenon DEF Holding, InIderw
    <3>2. \A q \in Procs : Holding(q)' <=> Holding(q)
      BY <1>2, <2>2, <3>1, Zenon DEF Holding
    <3>. QED
      BY <1>1, <2>1, <3>2, HoldFrame, Zenon
  <2>5. Requests'
    <3>1. \A q \in Procs : pc'[q] = "ide_sleep" <=> pc[q] = "ide_sleep"
      BY <1>1, <2>2, Zenon
    <3>. QED
      BY <1>1, <2>1, <3>1, QueueFrame, Zenon
  <2>6. Flags'
    <3>1. FlagsOf(p)'
      BY <1>1, <1>2, <2>2, Zenon DEF FlagsOf
    <3>2. ASSUME NEW q \in Procs, q # p PROVE FlagsOf(q)'
      <4>1. FlagsOf(q) /\ pc'[q] = pc[q] /\ want'[q] = want[q] /\ buf'[q] = buf[q]
        BY <1>1, <2>1, <2>2, <3>2, Zenon DEF Flags
      <4>. QED
        BY <1>1, <2>1, <4>1, FlagsFrame, Zenon DEF FlagsOf
    <3>. QED
      BY <1>1, <2>1, <3>1, <3>2, Zenon DEF Flags
  <2>7. PinsBounded'
    <3>1. \A q \in Procs : pc[q] \in InIderw => pc'[q] \in InIderw /\ buf'[q] = buf[q]
      BY <1>2, <2>1, <2>2, Zenon
    <3>. QED
      BY <1>1, <2>3, <3>1, PinFrame, Zenon
  <2>8. NoPanic'
    BY <1>1, <1>3, FreeBuffer, Zenon DEF NoPanic
  <2>. QED
    BY <2>3, <2>4, <2>5, <2>6, <2>7, <2>8, Zenon
<1>4. CASE Free # {}
  <2>1. PICK i \in Free :
          /\ blockno' = [blockno EXCEPT ![mru[i]] = want[p]] /\ busy' = busy \cup {mru[i]}
          /\ valid' = valid \ {mru[i]} /\ buf' = [buf EXCEPT ![p] = mru[i]]
          /\ pc' = [pc EXCEPT ![p] = "bread"]
    BY <1>4, Zenon DEF bget_recycle
  <2>. DEFINE b == mru[i]
  <2>2. b \in Bufs /\ b \notin busy /\ b \notin dirty
    BY Zenon DEF Free, Recyclable, TypeOK, Lists
  <2>3. /\ blockno' \in [Bufs -> Blocks \cup {None}] /\ blockno'[b] = want[p]
        /\ \A c \in Bufs \ {b} : blockno'[c] = blockno[c]
    BY <2>1, <2>2, Zenon DEF TypeOK
  <2>4. \A c \in Bufs : blockno[c] # want[p]
    BY <1>1, Zenon DEF Cached
  <2>5. /\ valid' \subseteq valid /\ dirty \subseteq valid'
        /\ \A c \in Bufs \ {b} : c \in valid' <=> c \in valid
    BY <2>1, <2>2, Zenon DEF Flags
  <2>6. Takes(p, b)
    BY <1>1, <2>1, <2>2, <2>3, <2>4, <2>5, Zenon DEF Takes
  <2>. QED
    BY <2>6, TakeStep, Zenon
<1>. QED
  BY <1>3, <1>4, Zenon

-----------------------------------------------------------------------------
(* After binit() the invariant holds.                                      *)
LEMMA CacheInit == Init => CacheInv
<1>1. SUFFICES ASSUME Init PROVE CacheInv
  BY Zenon
<1>2. PICK v \in Vals : data = [b \in Bufs |-> v]
  BY <1>1, Zenon DEF Init
<1>3. /\ blockno = [b \in Bufs |-> None] /\ busy = {} /\ valid = {} /\ dirty = {}
      /\ mru \in Lists /\ idequeue = <<>> /\ cmd = None /\ disk \in [Blocks -> Vals]
      /\ pc = [p \in Procs |-> "idle"] /\ want = [p \in Procs |-> None] /\ buf = [p \in Procs |-> None]
  BY <1>1, Zenon DEF Init
<1>4. idequeue \in Seq(Bufs) /\ Elems(idequeue) = {} /\ Distinct(idequeue)
  <2>1. idequeue \in Seq(Bufs) /\ Len(idequeue) = 0
    BY <1>3, EmptySeq, Zenon
  <2>2. DOMAIN idequeue = 1 .. Len(idequeue)
    BY <2>1, LenProperties, Zenon
  <2>3. DOMAIN idequeue = 1 .. 0
    BY <2>1, <2>2, Zenon
  <2>4. DOMAIN idequeue = {}
    BY <2>3
  <2>. QED
    BY <2>1, <2>4, Zenon DEF Elems, Distinct
<1>5. TypeOK
  <2>1. "idle" \in PCs
    BY Zenon DEF PCs
  <2>. QED
    BY <1>2, <1>3, <1>4, <2>1, Zenon DEF TypeOK
<1>6. \A p \in Procs : pc[p] = "idle" /\ want[p] = None /\ ~Holding(p)
  <2>1. \A p \in Procs : pc[p] = "idle" /\ want[p] = None
    BY <1>3, Zenon
  <2>. QED
    BY <2>1, Zenon DEF Holding, InIderw
<1>7. HeldAlone
  BY <1>3, <1>6, Zenon DEF HeldAlone
<1>8. Requests
  BY <1>3, <1>4, <1>6, Zenon DEF Requests
<1>9. Flags
  <2>1. \A p \in Procs : FlagsOf(p)
    BY <1>6, Zenon DEF FlagsOf
  <2>. QED
    BY <1>3, <2>1, Zenon DEF Flags
<1>10. PinsBounded
  <2>1. Pinned = {}
    BY <1>3, Zenon DEF Pinned
  <2>2. Cardinality(Pinned) = 0
    BY <2>1, FS_EmptySet, Zenon
  <2>3. MAXPIN \in Nat
    BY BcacheConstants, Zenon DEF BcacheConstants
  <2>. QED
    BY <2>2, <2>3 DEF PinsBounded
<1>11. NoPanic
  BY <1>6, Zenon DEF NoPanic
<1>. QED
  BY <1>5, <1>7, <1>8, <1>9, <1>10, <1>11, Zenon DEF CacheInv

(* A step that changes no variable keeps the invariant.                    *)
LEMMA CacheStutter == CacheInv /\ UNCHANGED vars => CacheInv'
<1>1. SUFFICES ASSUME CacheInv, UNCHANGED vars PROVE CacheInv'
  BY Zenon
<1>2. UNCHANGED <<blockno, busy, valid, dirty, data, mru, idequeue, cmd, disk, pc, want, buf>>
  BY <1>1, Zenon DEF vars
<1>3. TypeOK' /\ NoPanic'
  BY <1>1, <1>2, Zenon DEF CacheInv, TypeOK, NoPanic
<1>4. \A q \in Procs : Holding(q)' <=> Holding(q)
  BY <1>2, Zenon DEF Holding
<1>5. HeldAlone'
  BY <1>1, <1>2, <1>4, HoldFrame, Zenon DEF CacheInv
<1>6. Requests'
  BY <1>1, <1>2, QueueFrame, Zenon DEF CacheInv
<1>7. Flags'
  <2>1. ASSUME NEW q \in Procs PROVE FlagsOf(q)'
    <3>1. FlagsOf(q)
      BY <1>1, Zenon DEF CacheInv, Flags
    <3>. QED
      BY <1>2, <3>1, FlagsFrame, Zenon DEF FlagsOf
  <2>. QED
    BY <1>1, <1>2, <2>1, Zenon DEF CacheInv, Flags
<1>8. PinsBounded'
  BY <1>1, <1>2, <1>3, PinFrame, Zenon DEF CacheInv
<1>. QED
  BY <1>3, <1>5, <1>6, <1>7, <1>8, Zenon DEF CacheInv

(* Every step keeps the invariant.                                         *)
LEMMA CacheNext == CacheInv /\ [Next]_vars => CacheInv'
<1>1. SUFFICES ASSUME CacheInv, Next PROVE CacheInv'
  BY CacheStutter, Zenon
<1>2. CASE \E p \in Procs : Step(p) \/ brelse(p)
  BY <1>1, <1>2, BgetCachedStep, BgetRecycleStep, BreadStep, IderwStep, IderwTestStep, BrelseStep, ZenonT(30)
     DEF Step
<1>3. CASE \E p \in Procs, k \in Blocks : call(p, k)
  BY <1>1, <1>3, CallStep, Zenon
<1>4. CASE \E p \in Procs, v \in Vals : bwrite(p, v) \/ log_write(p, v)
  BY <1>1, <1>4, BwriteStep, LogWriteStep, Zenon
<1>5. CASE \E ok \in BOOLEAN : ideintr(ok)
  BY <1>1, <1>5, IdeintrStep, Zenon
<1>. QED
  BY <1>1, <1>2, <1>3, <1>4, <1>5, Zenon DEF Next

(* A sleeping request is in the queue once, and the disk is at work.       *)
LEMMA NothingLost == CacheInv => NoLostWakeup
<1>1. SUFFICES ASSUME CacheInv PROVE NoLostWakeup
  BY Zenon
<1>. USE DEF CacheInv
<1>2. \A p \in Procs : pc[p] = "bget_sleep" => buf[p] \in busy
  BY <1>1, Zenon DEF Flags, FlagsOf
<1>3. ASSUME NEW p \in Procs, pc[p] = "ide_sleep"
      PROVE  Cardinality({i \in DOMAIN idequeue : idequeue[i] = buf[p]}) = 1
  <2>1. PICK i \in DOMAIN idequeue : idequeue[i] = buf[p]
    BY <1>1, <1>3, Zenon DEF Requests, Elems
  <2>2. \A j \in DOMAIN idequeue : idequeue[j] = buf[p] => j = i
    BY <1>1, <2>1, Zenon DEF Requests, Distinct
  <2>3. {j \in DOMAIN idequeue : idequeue[j] = buf[p]} = {i}
    BY <2>1, <2>2, Zenon
  <2>4. Cardinality({i}) = 1
    BY FS_Singleton, Zenon
  <2>. QED
    BY <2>3, <2>4, Zenon
<1>4. ASSUME idequeue # <<>> PROVE cmd # None
  <2>1. Head(idequeue) \in Bufs /\ cmd = idestart(Head(idequeue))
    BY <1>1, <1>4, Dequeue, Zenon DEF TypeOK, Requests
  <2>2. cmd = "read" \/ cmd \in Vals
    BY <1>1, <2>1, Zenon DEF idestart, TypeOK
  <2>3. None \notin Vals /\ None # "read"
    BY BcacheConstants, Zenon DEF BcacheConstants, None
  <2>. QED
    BY <2>2, <2>3, Zenon
<1>. QED
  BY <1>1, <1>2, <1>3, <1>4, Zenon DEF NoLostWakeup, Requests

(* The inductive invariant of the cache and the driver.                    *)
THEOREM Cache == Spec => []CacheInv
<1>1. Init => CacheInv
  BY CacheInit
<1>2. CacheInv /\ [Next]_vars => CacheInv'
  BY CacheNext
<1>. QED
  BY <1>1, <1>2, PTL DEF Spec

(* For any processes, blocks, buffers and disk errors: every buffer that   *)
(* bread() returned has one holder, nobody sleeps in bget() or iderw() for *)
(* an event that has passed, and if the log leaves a buffer for every      *)
(* process no check of bio.c and ide.c fails.                              *)
THEOREM CacheIsSound == Spec => []CacheSound
<1>1. CacheInv => CacheSound
  BY NothingLost, Zenon DEF CacheInv, CacheSound
<1>. QED
  BY <1>1, Cache, PTL
=============================================================================
