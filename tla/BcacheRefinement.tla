-------------------------- MODULE BcacheRefinement -------------------------
(***************************************************************************)
(* The buffer cache and the driver as a store of blocks: the steps of      *)
(* Bcache implement the steps of BlockStore, for any numbers of processes, *)
(* buffers and blocks, on a disk without errors.                           *)
(***************************************************************************)
EXTENDS BcacheProofs

-----------------------------------------------------------------------------
(* The cache as a store of blocks, on a disk without errors.  A buffer     *)
(* that is valid and not dirty holds what the disk holds.                  *)
Clean == \A b \in valid \ dirty : blockno[b] \in Blocks /\ data[b] = disk[blockno[b]]

(* What the mapping says of a state: the contents of a block are those of  *)
(* its valid buffer, if it has one, and a block has the user that has it   *)
(* in use.                                                                 *)
Mapped ==
  /\ \A k \in Blocks, b \in Bufs : blockno[b] = k /\ b \in valid => Contents[k] = data[b]
  /\ \A k \in Blocks : (\A b \in Bufs : blockno[b] = k => b \notin valid) => Contents[k] = disk[k]
  /\ \A k \in Blocks, p \in Procs : User[k] = p <=> InUse(p) /\ want[p] = k
  /\ \A k \in Blocks : User[k] \in Procs \/ User[k] = None
  /\ \A p \in Procs : (InUse(p) => Seen[p] = data[buf[p]]) /\ (~InUse(p) => Seen[p] = None)
  /\ \A p \in Procs : InUse(p) => want[p] \in Blocks

(* The definitions of the mapping say that.                                *)
LEMMA Mapping == CacheInv => Mapped
<1>1. SUFFICES ASSUME CacheInv PROVE Mapped
  BY Zenon
<1>. USE DEF CacheInv
<1>2. None \notin Blocks /\ None \notin Procs
  BY BcacheConstants, Zenon DEF BcacheConstants
<1>3. ASSUME NEW k \in Blocks, NEW b \in Bufs, blockno[b] = k, b \in valid
      PROVE  Contents[k] = data[b]
  <2>1. b \in Cached(k) \cap valid
    BY <1>3, Zenon DEF Cached
  <2>2. \A c \in Cached(k) \cap valid : c = b
    BY <1>1, <1>2, <1>3, Zenon DEF Cached, HeldAlone
  <2>3. (CHOOSE c \in Cached(k) \cap valid : TRUE) = b
    BY <2>1, <2>2, Zenon
  <2>4. Cached(k) \cap valid # {}
    BY <2>1, Zenon
  <2>. QED
    BY <2>3, <2>4, Zenon DEF Contents
<1>4. ASSUME NEW k \in Blocks, \A b \in Bufs : blockno[b] = k => b \notin valid
      PROVE  Contents[k] = disk[k]
  <2>1. Cached(k) \cap valid = {}
    BY <1>4, Zenon DEF Cached
  <2>. QED
    BY <2>1, Zenon DEF Contents
<1>5. ASSUME NEW p \in Procs, InUse(p)
      PROVE  Holding(p) /\ want[p] \in Blocks /\ blockno[buf[p]] = want[p] /\ buf[p] \in Bufs
  <2>1. Holding(p)
    BY <1>5, Zenon DEF InUse, Holding
  <2>2. want[p] # None
    <3>1. pc[p] # "idle"
      BY <2>1, Zenon DEF Holding, InIderw
    <3>. QED
      BY <1>1, <3>1, Zenon DEF Flags, FlagsOf
  <2>. QED
    BY <1>1, <2>1, <2>2, ZenonT(30) DEF HeldAlone, TypeOK
<1>6. ASSUME NEW p \in Procs, NEW q \in Procs, InUse(p), InUse(q), want[p] = want[q]
      PROVE  p = q
  <2>1. buf[p] = buf[q]
    <3>1. /\ buf[p] \in Bufs /\ buf[q] \in Bufs /\ blockno[buf[p]] = blockno[buf[q]]
          /\ blockno[buf[p]] # None
      BY <1>2, <1>5, <1>6, Zenon
    <3>. QED
      BY <1>1, <3>1, Zenon DEF HeldAlone
  <2>. QED
    BY <1>1, <1>5, <1>6, <2>1, Zenon DEF HeldAlone
<1>7. ASSUME NEW k \in Blocks, NEW p \in Procs, InUse(p), want[p] = k
      PROVE  User[k] = p
  <2>1. \A q \in Procs : InUse(q) /\ want[q] = k <=> q = p
    BY <1>6, <1>7, Zenon
  <2>2. (CHOOSE q \in Procs : InUse(q) /\ want[q] = k) = p
    BY <2>1, Zenon
  <2>. QED
    BY <1>7, <2>2, Zenon DEF User
<1>8. ASSUME NEW k \in Blocks, ~\E p \in Procs : InUse(p) /\ want[p] = k
      PROVE  User[k] = None
  BY <1>8, Zenon DEF User
<1>9. \A k \in Blocks, p \in Procs : User[k] = p <=> InUse(p) /\ want[p] = k
  <2>1. SUFFICES ASSUME NEW k \in Blocks, NEW p \in Procs, User[k] = p
                 PROVE  InUse(p) /\ want[p] = k
    BY <1>7, Zenon
  <2>2. PICK q \in Procs : InUse(q) /\ want[q] = k
    BY <1>2, <1>8, <2>1, Zenon
  <2>. QED
    BY <1>7, <2>1, <2>2, Zenon
<1>10. \A k \in Blocks : User[k] \in Procs \/ User[k] = None
  BY <1>7, <1>8, Zenon
<1>11. \A p \in Procs : (InUse(p) => Seen[p] = data[buf[p]]) /\ (~InUse(p) => Seen[p] = None)
  BY Zenon DEF Seen
<1>12. \A k \in Blocks, b \in Bufs : blockno[b] = k /\ b \in valid => Contents[k] = data[b]
  BY <1>3, Zenon
<1>13. \A k \in Blocks : (\A b \in Bufs : blockno[b] = k => b \notin valid) => Contents[k] = disk[k]
  BY <1>4, Zenon
<1>14. \A p \in Procs : InUse(p) => want[p] \in Blocks
  BY <1>5, Zenon
<1>. QED
  BY <1>9, <1>10, <1>11, <1>12, <1>13, <1>14, Zenon DEF Mapped

(* The other processes keep what they use.                                 *)
Others(p) ==
  \A q \in Procs \ {p} :
    /\ InUse(q)' <=> InUse(q)
    /\ InUse(q) => want'[q] = want[q] /\ data'[buf'[q]] = data[buf[q]]

(* The user of a block, before and after a step.                           *)
LEMMA Owner ==
  ASSUME Mapped, Mapped', NEW k \in Blocks, NEW p \in Procs
  PROVE  /\ User[k] = p <=> InUse(p) /\ want[p] = k
         /\ User'[k] = p <=> InUse(p)' /\ want'[p] = k
<1>1. User[k] = p <=> InUse(p) /\ want[p] = k
  BY Zenon DEF Mapped
<1>2. User'[k] = p <=> InUse(p)' /\ want'[p] = k
  BY Zenon DEF Mapped
<1>. QED
  BY <1>1, <1>2, Zenon

(* The users of the blocks that p neither takes nor gives up.              *)
LEMMA UserFrame ==
  ASSUME Mapped, Mapped', NEW p \in Procs, Others(p), NEW k \in Blocks,
         ~(InUse(p) /\ want[p] = k), ~(InUse(p)' /\ want'[p] = k)
  PROVE  User'[k] = User[k]
<1>1. None \notin Procs
  BY BcacheConstants, Zenon DEF BcacheConstants
<1>2. User[k] # p /\ User'[k] # p
  BY Owner, Zenon
<1>3. \A q \in Procs \ {p} : User[k] = q <=> User'[k] = q
  <2>1. \A q \in Procs \ {p} : InUse(q) /\ want[q] = k <=> InUse(q)' /\ want'[q] = k
    BY Zenon DEF Others
  <2>. QED
    BY <2>1, Owner
<1>4. (User[k] \in Procs \/ User[k] = None) /\ (User'[k] \in Procs \/ User'[k] = None)
  BY Zenon DEF Mapped
<1>. QED
  BY <1>1, <1>2, <1>3, <1>4, Zenon

(* What the other processes see.                                           *)
LEMMA SeenFrame ==
  ASSUME Mapped, Mapped', NEW p \in Procs, Others(p), NEW q \in Procs \ {p}
  PROVE  Seen'[q] = Seen[q]
<1>1. CASE InUse(q)
  <2>1. InUse(q)' /\ data'[buf'[q]] = data[buf[q]]
    BY <1>1, Zenon DEF Others
  <2>. QED
    BY <1>1, <2>1, Zenon DEF Mapped
<1>2. CASE ~InUse(q)
  <2>1. ~InUse(q)'
    BY <1>2, Zenon DEF Others
  <2>. QED
    BY <1>2, <2>1, ZenonT(30) DEF Mapped
<1>. QED
  BY <1>1, <1>2, Zenon

(* The three values of the mapping are functions.                          *)
LEMMA MapTypes ==
  /\ Contents = [k \in Blocks |-> Contents[k]] /\ User = [k \in Blocks |-> User[k]]
  /\ Seen = [p \in Procs |-> Seen[p]]
  /\ Contents' = [k \in Blocks |-> Contents'[k]] /\ User' = [k \in Blocks |-> User'[k]]
  /\ Seen' = [p \in Procs |-> Seen'[p]]
<1>1. Contents = [k \in Blocks |-> Contents[k]] /\ Contents' = [k \in Blocks |-> Contents'[k]]
  BY DEF Contents
<1>2. User = [k \in Blocks |-> User[k]] /\ User' = [k \in Blocks |-> User'[k]]
  BY DEF User
<1>3. Seen = [p \in Procs |-> Seen[p]] /\ Seen' = [p \in Procs |-> Seen'[p]]
  BY DEF Seen
<1>. QED
  BY <1>1, <1>2, <1>3, Zenon

(* A step that no user of a block notices.                                 *)
LEMMA Unnoticed ==
  ASSUME Mapped, Mapped', NEW p \in Procs, Others(p), InUse(p)' <=> InUse(p),
         InUse(p) => want'[p] = want[p] /\ data'[buf'[p]] = data[buf[p]],
         \A k \in Blocks : Contents'[k] = Contents[k]
  PROVE  UNCHANGED <<Contents, User, Seen>>
<1>1. Contents' = Contents
  BY MapTypes, Zenon
<1>2. ASSUME NEW k \in Blocks PROVE User'[k] = User[k]
  <2>1. CASE InUse(p) /\ want[p] = k
    <3>1. InUse(p)' /\ want'[p] = k
      BY <2>1, Zenon
    <3>. QED
      BY <2>1, <3>1, Owner
  <2>2. CASE ~(InUse(p) /\ want[p] = k)
    <3>1. ~(InUse(p)' /\ want'[p] = k)
      BY <2>2, Zenon
    <3>. QED
      BY <2>2, <3>1, UserFrame, Zenon
  <2>. QED
    BY <2>1, <2>2, Zenon
<1>3. User' = User
  BY <1>2, MapTypes, Zenon
<1>4. Seen'[p] = Seen[p]
  BY ZenonT(30) DEF Mapped
<1>5. \A q \in Procs : Seen'[q] = Seen[q]
  BY <1>4, SeenFrame, Zenon
<1>6. Seen' = Seen
  BY <1>5, MapTypes, Zenon
<1>. QED
  BY <1>1, <1>3, <1>6, Zenon

(* bread() returns a buffer of the block k to p.                           *)
LEMMA Taken ==
  ASSUME Mapped, Mapped', NEW p \in Procs, NEW k \in Blocks, Others(p),
         ~InUse(p), InUse(p)', want'[p] = k, data'[buf'[p]] = Contents[k],
         \A j \in Blocks : Contents'[j] = Contents[j]
  PROVE  BS!Take(p, k)
<1>1. \A j \in Blocks : User[j] # p
  BY Owner, Zenon
<1>2. User'[k] = p
  BY Owner, Zenon
<1>3. User[k] = None
  <2>1. ASSUME NEW q \in Procs, User[k] = q PROVE FALSE
    <3>1. q # p /\ InUse(q) /\ want[q] = k
      BY <1>1, <2>1, Owner
    <3>2. InUse(q)' /\ want'[q] = k
      BY <3>1, Zenon DEF Others
    <3>3. User'[k] = q
      BY <3>2, Owner
    <3>. QED
      BY <1>2, <3>1, <3>3, Zenon
  <2>. QED
    BY <2>1, Zenon DEF Mapped
<1>4. \A j \in Blocks \ {k} : User'[j] = User[j]
  BY UserFrame, Zenon
<1>5. User' = [User EXCEPT ![k] = p]
  BY <1>2, <1>4, MapTypes, Zenon
<1>6. Seen'[p] = Contents[k]
  BY Zenon DEF Mapped
<1>7. Seen' = [Seen EXCEPT ![p] = Contents[k]]
  BY <1>6, SeenFrame, MapTypes, Zenon
<1>8. Contents' = Contents
  BY MapTypes, Zenon
<1>. QED
  BY <1>1, <1>3, <1>5, <1>7, <1>8, Zenon DEF BS!Take

(* The user p of the block k changes its contents.                         *)
LEMMA Changed ==
  ASSUME Mapped, Mapped', NEW p \in Procs, NEW k \in Blocks, NEW v, Others(p),
         InUse(p), want[p] = k, InUse(p)', want'[p] = k, data'[buf'[p]] = v,
         Contents'[k] = v, \A j \in Blocks \ {k} : Contents'[j] = Contents[j]
  PROVE  BS!Put(p, k, v)
<1>1. User[k] = p /\ User'[k] = p
  BY Owner
<1>2. \A j \in Blocks \ {k} : User'[j] = User[j]
  BY UserFrame, Zenon
<1>3. User' = User
  BY <1>1, <1>2, MapTypes, ZenonT(30)
<1>4. Seen'[p] = v
  BY Zenon DEF Mapped
<1>5. Seen' = [Seen EXCEPT ![p] = v]
  BY <1>4, SeenFrame, MapTypes, Zenon
<1>6. Contents' = [Contents EXCEPT ![k] = v]
  BY MapTypes, Zenon
<1>. QED
  BY <1>1, <1>3, <1>5, <1>6, ZenonT(30) DEF BS!Put

(* p gives the block k up.                                                 *)
LEMMA Released ==
  ASSUME Mapped, Mapped', NEW p \in Procs, NEW k \in Blocks, Others(p),
         InUse(p), want[p] = k, ~InUse(p)', \A j \in Blocks : Contents'[j] = Contents[j]
  PROVE  BS!Release(p, k)
<1>1. User[k] = p
  BY Owner, Zenon
<1>2. User'[k] = None
  <2>1. ASSUME NEW q \in Procs, User'[k] = q PROVE FALSE
    <3>1. q # p /\ InUse(q)' /\ want'[q] = k
      BY <2>1, Owner
    <3>2. InUse(q) /\ want[q] = k
      BY <3>1, Zenon DEF Others
    <3>3. User[k] = q
      BY <3>2, Owner
    <3>. QED
      BY <1>1, <3>1, <3>3, Zenon
  <2>. QED
    BY <2>1, Zenon DEF Mapped
<1>3. \A j \in Blocks \ {k} : User'[j] = User[j]
  BY UserFrame, Zenon
<1>4. User' = [User EXCEPT ![k] = None]
  BY <1>2, <1>3, MapTypes, Zenon
<1>5. Seen'[p] = None
  BY Zenon DEF Mapped
<1>6. Seen' = [Seen EXCEPT ![p] = None]
  BY <1>5, SeenFrame, MapTypes, Zenon
<1>7. Contents' = Contents
  BY MapTypes, Zenon
<1>. QED
  BY <1>1, <1>4, <1>6, <1>7, ZenonT(30) DEF BS!Release

-----------------------------------------------------------------------------
(* Every step of the cache is a step of the store or leaves it unchanged.  *)
Simulated == Clean' /\ (BS!Next \/ UNCHANGED <<Contents, User, Seen>>)

(* The buffer of a process that holds one.                                 *)
LEMMA Held ==
  ASSUME CacheInv, NEW p \in Procs, Holding(p)
  PROVE  buf[p] \in Bufs /\ buf[p] \in busy /\ want[p] \in Blocks /\ blockno[buf[p]] = want[p]
<1>1. pc[p] # "idle"
  BY Zenon DEF Holding, InIderw
<1>2. want[p] # None
  BY <1>1, Zenon DEF CacheInv, Flags, FlagsOf
<1>3. buf[p] \in busy /\ blockno[buf[p]] = want[p]
  BY Zenon DEF CacheInv, HeldAlone
<1>. QED
  BY <1>2, <1>3, Zenon DEF CacheInv, TypeOK

(* The contents of a block with a valid buffer, before and after a step.   *)
LEMMA Cover ==
  ASSUME Mapped, Mapped', NEW j \in Blocks, NEW c \in Bufs
  PROVE  /\ blockno[c] = j /\ c \in valid => Contents[j] = data[c]
         /\ blockno'[c] = j /\ c \in valid' => Contents'[j] = data'[c]
<1>1. blockno[c] = j /\ c \in valid => Contents[j] = data[c]
  BY DEF Mapped
<1>2. blockno'[c] = j /\ c \in valid' => Contents'[j] = data'[c]
  BY DEF Mapped
<1>. QED
  BY <1>1, <1>2, Zenon

(* A block whose buffer and whose sector stay as they are.                 *)
LEMMA ContentsFrame ==
  ASSUME Mapped, Mapped', NEW j \in Blocks, disk'[j] = disk[j],
         \A c \in Bufs : blockno'[c] = j /\ c \in valid' <=> blockno[c] = j /\ c \in valid,
         \A c \in Bufs : blockno[c] = j /\ c \in valid => data'[c] = data[c]
  PROVE  Contents'[j] = Contents[j]
<1>1. CASE \E c \in Bufs : blockno[c] = j /\ c \in valid
  <2>1. PICK c \in Bufs : blockno[c] = j /\ c \in valid
    BY <1>1, Zenon
  <2>2. Contents[j] = data[c]
    BY <2>1, Cover
  <2>3. Contents'[j] = data'[c]
    <3>1. blockno'[c] = j /\ c \in valid'
      BY <2>1, Zenon
    <3>. QED
      BY <3>1, Cover
  <2>. QED
    BY <2>1, <2>2, <2>3, Zenon
<1>2. CASE ~\E c \in Bufs : blockno[c] = j /\ c \in valid
  <2>1. Contents[j] = disk[j]
    BY <1>2, Zenon DEF Mapped
  <2>2. \A c \in Bufs : blockno'[c] = j => c \notin valid'
    BY <1>2, Zenon
  <2>3. Contents'[j] = disk'[j]
    BY <2>2, Zenon DEF Mapped
  <2>. QED
    BY <2>1, <2>3, Zenon
<1>. QED
  BY <1>1, <1>2, Zenon

(* Steps that change neither a buffer's contents nor the disk.             *)
LEMMA QuietStep ==
  ASSUME Mapped, Mapped', Clean, NEW p \in Procs, UNCHANGED <<blockno, valid, dirty, data, disk>>,
         \A q \in Procs \ {p} : /\ InUse(q)' <=> InUse(q)
                                /\ InUse(q) => want'[q] = want[q] /\ buf'[q] = buf[q]
  PROVE  Clean' /\ Others(p) /\ \A k \in Blocks : Contents'[k] = Contents[k]
<1>1. Clean'
  BY Zenon DEF Clean
<1>2. Others(p)
  BY Zenon DEF Others
<1>3. \A k \in Blocks : Contents'[k] = Contents[k]
  BY ContentsFrame, Zenon
<1>. QED
  BY <1>1, <1>2, <1>3, ZenonT(30)

(* A process that does not move uses what it used.                         *)
LEMMA StaysInUse ==
  ASSUME NEW q \in Procs, pc'[q] = pc[q], buf'[q] = buf[q], valid' = valid
  PROVE  InUse(q)' <=> InUse(q)
BY Zenon DEF InUse

(* A move of p that neither begins nor ends its use of a block.            *)
LEMMA QuietMove ==
  ASSUME Mapped, Mapped', Clean, NEW p \in Procs, UNCHANGED <<blockno, valid, dirty, data, disk>>,
         \A q \in Procs \ {p} : pc'[q] = pc[q] /\ want'[q] = want[q] /\ buf'[q] = buf[q],
         InUse(p)' <=> InUse(p), InUse(p) => want'[p] = want[p] /\ buf'[p] = buf[p]
  PROVE  Simulated
<1>1. \A q \in Procs \ {p} : InUse(q)' <=> InUse(q)
  BY StaysInUse, Zenon
<1>2. Clean' /\ Others(p) /\ \A k \in Blocks : Contents'[k] = Contents[k]
  BY <1>1, QuietStep, Zenon
<1>3. InUse(p) => want'[p] = want[p] /\ data'[buf'[p]] = data[buf[p]]
  BY Zenon
<1>. QED
  BY <1>2, <1>3, Unnoticed, ZenonT(30) DEF Simulated

(* The steps in bget() and iderw() of a process without a valid buffer,    *)
(* and the end of the wait in iderw() for a write.                         *)
LEMMA CallStore ==
  ASSUME CacheInv, Mapped, Mapped', Clean, NEW p \in Procs, NEW k \in Blocks, call(p, k)
  PROVE  Simulated
<1>1. /\ UNCHANGED <<blockno, valid, dirty, data, disk, buf>> /\ pc[p] = "idle" /\ pc'[p] = "bget"
      /\ \A q \in Procs \ {p} : pc'[q] = pc[q] /\ want'[q] = want[q]
  BY Zenon DEF call, cacheVars, ideVars, CacheInv, TypeOK
<1>2. ~InUse(p) /\ ~InUse(p)'
  BY <1>1, Zenon DEF InUse, InIderw
<1>. QED
  BY <1>1, <1>2, QuietMove, ZenonT(30)

(* bget() of a cached block is not seen in the store.                      *)
LEMMA BgetCachedStore ==
  ASSUME CacheInv, Mapped, Mapped', Clean, NEW p \in Procs, bget_cached(p)
  PROVE  Simulated
<1>1. PICK b \in Cached(want[p]) :
        /\ pc[p] = "bget" /\ buf' = [buf EXCEPT ![p] = b]
        /\ IF b \in busy THEN pc' = [pc EXCEPT ![p] = "bget_sleep"] /\ UNCHANGED busy
                         ELSE pc' = [pc EXCEPT ![p] = "bread"] /\ busy' = busy \cup {b}
        /\ UNCHANGED <<blockno, mru, valid, idequeue, cmd, disk, dirty, data, want>>
  BY Zenon DEF bget_cached, ideVars
<1>2. PICK y \in {"bget_sleep", "bread"} : pc' = [pc EXCEPT ![p] = y]
  BY <1>1, Zenon
<1>3. pc'[p] = y /\ \A q \in Procs \ {p} : pc'[q] = pc[q] /\ buf'[q] = buf[q]
  BY <1>1, <1>2, ZenonT(30) DEF CacheInv, TypeOK
<1>4. ~InUse(p) /\ ~InUse(p)'
  BY <1>1, <1>3, ZenonT(30) DEF InUse, InIderw
<1>. QED
  BY <1>1, <1>3, <1>4, QuietMove, ZenonT(30)

(* Nor is a step of iderw().                                               *)
LEMMA IderwStore ==
  ASSUME CacheInv, Mapped, Mapped', Clean, NEW p \in Procs, iderw(p) \/ iderw_test(p)
  PROVE  Simulated
<1>1. PICK y : /\ pc' = [pc EXCEPT ![p] = y] /\ y \in {"panic", "ide_sleep", "held"}
               /\ UNCHANGED <<blockno, valid, dirty, data, disk, want, buf>>
  BY Zenon DEF iderw, iderw_test, cacheVars, ideVars
<1>2. pc'[p] = y /\ \A q \in Procs \ {p} : pc'[q] = pc[q]
  BY <1>1, Zenon DEF CacheInv, TypeOK
<1>3. InUse(p)' <=> InUse(p)
  <2>1. CASE iderw(p)
    <3>1. pc[p] = "iderw" /\ Holding(p)
      BY <2>1, Zenon DEF iderw, Holding, InIderw
    <3>2. buf[p] \in busy /\ ~(buf[p] \in valid /\ buf[p] \notin dirty)
      BY <3>1, Zenon DEF CacheInv, HeldAlone, Flags, FlagsOf
    <3>3. pc'[p] = "ide_sleep"
      BY <2>1, <3>2, ZenonT(30) DEF iderw, CacheInv, TypeOK
    <3>. QED
      BY <1>1, <3>1, <3>3, ZenonT(30) DEF InUse, InIderw
  <2>2. CASE iderw_test(p)
    <3>1. pc[p] = "ide_test" /\ buf[p] \in valid /\ buf[p] \notin dirty
      BY <2>2, Zenon DEF iderw_test, CacheInv, Flags, FlagsOf
    <3>2. pc'[p] = "held"
      BY <2>2, <3>1, Zenon DEF iderw_test, CacheInv, TypeOK
    <3>. QED
      BY <3>1, <3>2, ZenonT(30) DEF InUse, InIderw
  <2>. QED
    BY <2>1, <2>2, Zenon
<1>. QED
  BY <1>1, <1>2, <1>3, QuietMove, ZenonT(30)

(* bread() takes the block if its buffer is valid.                         *)
LEMMA BreadStore ==
  ASSUME CacheInv, Mapped, Mapped', Clean, NEW p \in Procs, bread(p)
  PROVE  Simulated
<1>1. /\ pc[p] = "bread" /\ UNCHANGED <<blockno, valid, dirty, data, disk, want, buf>>
      /\ pc'[p] = (IF buf[p] \in valid THEN "held" ELSE "iderw")
      /\ \A q \in Procs \ {p} : pc'[q] = pc[q]
  BY Zenon DEF bread, cacheVars, ideVars, CacheInv, TypeOK
<1>2. Holding(p) /\ ~InUse(p)
  BY <1>1, Zenon DEF Holding, InUse, InIderw
<1>3. CASE buf[p] \notin valid
  <2>1. ~InUse(p)'
    BY <1>1, <1>3, Zenon DEF InUse
  <2>. QED
    BY <1>1, <1>2, <2>1, QuietMove, ZenonT(30)
<1>4. CASE buf[p] \in valid
  <2>1. InUse(p)'
    BY <1>1, <1>4, Zenon DEF InUse
  <2>2. buf[p] \in Bufs /\ want[p] \in Blocks /\ blockno[buf[p]] = want[p]
    BY <1>2, Held, Zenon
  <2>3. data[buf[p]] = Contents[want[p]]
    BY <1>4, <2>2, Cover
  <2>4. \A q \in Procs \ {p} : InUse(q)' <=> InUse(q)
    BY <1>1, StaysInUse, Zenon
  <2>5. Clean' /\ Others(p) /\ \A k \in Blocks : Contents'[k] = Contents[k]
    BY <1>1, <2>4, QuietStep, ZenonT(30)
  <2>6. BS!Take(p, want[p])
    BY <1>1, <1>2, <2>1, <2>2, <2>3, <2>5, Taken, ZenonT(30)
  <2>. QED
    BY <2>2, <2>5, <2>6, ZenonT(30) DEF Simulated, BS!Next
<1>. QED
  BY <1>3, <1>4, Zenon

(* brelse() gives the block up.                                            *)
LEMMA BrelseStore ==
  ASSUME CacheInv, Mapped, Mapped', Clean, NEW p \in Procs, brelse(p)
  PROVE  Simulated
<1>. DEFINE b == buf[p]
<1>1. pc[p] = "held" /\ Holding(p) /\ InUse(p) /\ b \in busy
  BY Zenon DEF brelse, Brelse, Holding, InUse, CacheInv, HeldAlone
<1>2. /\ UNCHANGED <<blockno, valid, dirty, data, disk>>
      /\ pc' = [wakeup(pc, b) EXCEPT ![p] = "idle"]
      /\ want' = [want EXCEPT ![p] = None] /\ buf' = [buf EXCEPT ![p] = None]
  BY <1>1, Zenon DEF brelse, Brelse, ideVars
<1>3. wakeup(pc, b) \in [Procs -> PCs]
  BY Woken, Zenon DEF CacheInv
<1>4. /\ pc'[p] = "idle"
      /\ \A q \in Procs \ {p} : pc'[q] = wakeup(pc, b)[q] /\ want'[q] = want[q] /\ buf'[q] = buf[q]
  BY <1>2, <1>3, ZenonT(30) DEF CacheInv, TypeOK
<1>5. ASSUME NEW q \in Procs \ {p} PROVE InUse(q)' <=> InUse(q)
  <2>1. pc[q] = "ide_sleep" => buf[q] # b
    <3>1. pc[q] = "ide_sleep" => Holding(q)
      BY Zenon DEF Holding, InIderw
    <3>. QED
      BY <1>1, <3>1, ZenonT(30) DEF CacheInv, HeldAlone
  <2>2. pc'[q] = pc[q] \/ (pc[q] = "bget_sleep" /\ pc'[q] = "bget")
    <3>1. TypeOK
      BY Zenon DEF CacheInv
    <3>2. /\ buf[q] # b => wakeup(pc, b)[q] = pc[q]
          /\ pc[q] \notin {"bget_sleep", "ide_sleep"} => wakeup(pc, b)[q] = pc[q]
          /\ buf[q] = b /\ pc[q] = "bget_sleep" => wakeup(pc, b)[q] = "bget"
      BY <3>1, Woken, Zenon
    <3>. QED
      BY <1>4, <2>1, <3>2, ZenonT(30)
  <2>3. CASE pc'[q] = pc[q]
    BY <1>2, <1>4, <2>3, StaysInUse, ZenonT(30)
  <2>4. CASE pc[q] = "bget_sleep" /\ pc'[q] = "bget"
    BY <2>4, Zenon DEF InUse, InIderw
  <2>. QED
    BY <2>2, <2>3, <2>4, ZenonT(30)
<1>6. Clean' /\ Others(p) /\ \A k \in Blocks : Contents'[k] = Contents[k]
  BY <1>2, <1>4, <1>5, QuietStep, ZenonT(30)
<1>7. want[p] \in Blocks /\ ~InUse(p)'
  BY <1>1, <1>4, Held, ZenonT(30) DEF InUse, InIderw
<1>8. BS!Release(p, want[p])
  BY <1>1, <1>6, <1>7, Released, ZenonT(30)
<1>. QED
  BY <1>6, <1>7, <1>8, ZenonT(30) DEF Simulated, BS!Next

(* bwrite() and log_write() put the caller's data.                         *)
LEMMA DirtyStore ==
  ASSUME CacheInv, Mapped, Mapped', Clean, NEW p \in Procs, NEW v \in Vals, NEW y, Dirties(p, v, y)
  PROVE  Simulated
<1>. DEFINE b == buf[p]
            k == want[p]
<1>1. pc[p] = "held" /\ Holding(p) /\ InUse(p) /\ b \in valid
  BY Zenon DEF Dirties, Holding, InUse, CacheInv, Flags, FlagsOf
<1>2. b \in Bufs /\ k \in Blocks /\ blockno[b] = k
  BY <1>1, Held, Zenon
<1>3. /\ y \in {"held", "iderw"} /\ pc'[p] = y /\ \A q \in Procs \ {p} : pc'[q] = pc[q]
      /\ data'[b] = v /\ \A c \in Bufs \ {b} : data'[c] = data[c]
      /\ dirty' = dirty \cup {b} /\ UNCHANGED <<blockno, valid, disk, want, buf>>
  BY <1>2, Zenon DEF Dirties, CacheInv, TypeOK
<1>4. Clean'
  <2>1. SUFFICES ASSUME NEW c \in valid' \ dirty'
                 PROVE  blockno'[c] \in Blocks /\ data'[c] = disk'[blockno'[c]]
    BY Zenon DEF Clean
  <2>2. c \in valid \ dirty /\ c # b /\ c \in Bufs
    BY <1>3, <2>1, ZenonT(30) DEF CacheInv, TypeOK
  <2>. QED
    BY <1>3, <2>2, Zenon DEF Clean
<1>5. Others(p)
  <2>1. \A q \in Procs \ {p} : InUse(q)' <=> InUse(q)
    BY <1>3, StaysInUse, Zenon
  <2>2. \A q \in Procs \ {p} : InUse(q) => buf[q] \in Bufs \ {b}
    <3>1. \A q \in Procs \ {p} : InUse(q) => Holding(q)
      BY Zenon DEF InUse, Holding
    <3>. QED
      BY <1>1, <3>1, Held, ZenonT(30) DEF CacheInv, HeldAlone
  <2>. QED
    BY <1>3, <2>1, <2>2, ZenonT(30) DEF Others
<1>6. InUse(p)'
  BY <1>1, <1>3, Zenon DEF InUse, InIderw
<1>7. Contents'[k] = v
  <2>1. blockno'[b] = k /\ b \in valid'
    BY <1>1, <1>2, <1>3, ZenonT(30)
  <2>2. Contents'[k] = data'[b]
    BY <1>2, <2>1, Cover
  <2>. QED
    BY <1>3, <2>2, Zenon
<1>8. ASSUME NEW j \in Blocks \ {k} PROVE Contents'[j] = Contents[j]
  <2>1. \A c \in Bufs : blockno[c] = j /\ c \in valid => data'[c] = data[c]
    BY <1>2, <1>3, Zenon
  <2>. QED
    BY <1>3, <2>1, ContentsFrame, ZenonT(30)
<1>9. want'[p] = k /\ data'[buf'[p]] = v
  BY <1>3, Zenon
<1>10. BS!Put(p, k, v)
  <2>. HIDE DEF b, k
  <2>1. want[p] = k
    BY Zenon DEF k
  <2>. QED
    BY <1>1, <1>2, <1>5, <1>6, <1>7, <1>8, <1>9, <2>1, Changed, ZenonT(30)
<1>. QED
  BY <1>2, <1>4, <1>10, ZenonT(30) DEF Simulated, BS!Next

(* Recycling a buffer loses nothing, because what is not dirty is on the   *)
(* disk.                                                                   *)
LEMMA BgetRecycleStore ==
  ASSUME CacheInv, Mapped, Mapped', Clean, NEW p \in Procs, bget_recycle(p)
  PROVE  Simulated
<1>1. pc[p] = "bget" /\ Cached(want[p]) = {} /\ UNCHANGED <<dirty, data, disk, want>>
  BY Zenon DEF bget_recycle
<1>2. ~InUse(p)
  BY <1>1, Zenon DEF InUse, InIderw
<1>3. CASE Free = {}
  <2>1. pc' = [pc EXCEPT ![p] = "panic"] /\ UNCHANGED <<blockno, valid, buf>>
    BY <1>3, Zenon DEF bget_recycle
  <2>2. pc'[p] = "panic" /\ \A q \in Procs \ {p} : pc'[q] = pc[q]
    BY <2>1, Zenon DEF CacheInv, TypeOK
  <2>3. ~InUse(p)'
    BY <2>2, Zenon DEF InUse, InIderw
  <2>. QED
    BY <1>1, <1>2, <2>1, <2>2, <2>3, QuietMove, ZenonT(30)
<1>4. CASE Free # {}
  <2>1. PICK i \in Free :
          /\ blockno' = [blockno EXCEPT ![mru[i]] = want[p]]
          /\ valid' = valid \ {mru[i]} /\ buf' = [buf EXCEPT ![p] = mru[i]]
          /\ pc' = [pc EXCEPT ![p] = "bread"]
    BY <1>4, Zenon DEF bget_recycle
  <2>. DEFINE b == mru[i]
  <2>2. b \in Bufs /\ b \notin busy /\ b \notin dirty
    BY Zenon DEF Free, Recyclable, CacheInv, TypeOK, Lists
  <2>3. /\ blockno'[b] = want[p] /\ \A c \in Bufs \ {b} : blockno'[c] = blockno[c]
        /\ pc'[p] = "bread" /\ \A q \in Procs \ {p} : pc'[q] = pc[q] /\ buf'[q] = buf[q]
        /\ valid' = valid \ {b}
    BY <2>1, <2>2, Zenon DEF CacheInv, TypeOK
  <2>4. \A c \in Bufs : blockno[c] # want[p]
    BY <1>1, Zenon DEF Cached
  <2>. HIDE DEF b
  <2>5. Clean'
    <3>1. SUFFICES ASSUME NEW c \in valid' \ dirty'
                   PROVE  blockno'[c] \in Blocks /\ data'[c] = disk'[blockno'[c]]
      BY Zenon DEF Clean
    <3>2. c \in valid \ dirty /\ c \in Bufs \ {b}
      BY <1>1, <2>3, <3>1, ZenonT(30) DEF CacheInv, TypeOK
    <3>3. blockno'[c] = blockno[c] /\ data' = data /\ disk' = disk
      BY <1>1, <2>3, <3>2, ZenonT(30)
    <3>. QED
      BY <3>2, <3>3, Zenon DEF Clean
  <2>6. Others(p) /\ ~InUse(p)'
    <3>1. ASSUME NEW q \in Procs \ {p} PROVE InUse(q)' <=> InUse(q)
      <4>1. Holding(q) => buf[q] # b
        BY <2>2, ZenonT(30) DEF CacheInv, HeldAlone
      <4>2. pc[q] \in InIderw => (buf[q] \in valid' <=> buf[q] \in valid)
        BY <2>3, <4>1, Zenon DEF Holding
      <4>. QED
        BY <2>3, <4>2, ZenonT(30) DEF InUse
    <3>2. ~InUse(p)'
      BY <2>3, Zenon DEF InUse, InIderw
    <3>. QED
      BY <1>1, <2>3, <3>1, <3>2, ZenonT(30) DEF Others
  <2>7. ASSUME NEW j \in Blocks PROVE Contents'[j] = Contents[j]
    <3>1. CASE blockno[b] = j /\ b \in valid
      <4>1. Contents[j] = data[b] /\ data[b] = disk[j]
        <5>1. Contents[j] = data[b]
          BY SMTT(20), <2>2, <3>1, Cover
        <5>2. data[b] = disk[j]
          BY <2>2, <3>1, ZenonT(30) DEF Clean
        <5>. QED
          BY <5>1, <5>2, ZenonT(30)
      <4>2. \A c \in Bufs : blockno'[c] = j => c \notin valid'
        <5>1. None \notin Blocks
          BY BcacheConstants, Zenon DEF BcacheConstants
        <5>2. SUFFICES ASSUME NEW c \in Bufs, c # b, blockno'[c] = j PROVE FALSE
          BY <2>3, Zenon
        <5>3. blockno[c] = blockno[b] /\ blockno[b] # None
          BY <2>3, <3>1, <5>1, <5>2, ZenonT(30)
        <5>. QED
          BY <2>2, <5>2, <5>3, ZenonT(30) DEF CacheInv, HeldAlone
      <4>3. Contents'[j] = disk'[j]
        BY <4>2, Zenon DEF Mapped
      <4>. QED
        BY <1>1, <4>1, <4>3, ZenonT(30)
    <3>2. CASE ~(blockno[b] = j /\ b \in valid)
      <4>1. ASSUME NEW c \in Bufs
            PROVE  blockno'[c] = j /\ c \in valid' <=> blockno[c] = j /\ c \in valid
        <5>1. CASE c = b
          BY <2>3, <3>2, <5>1, ZenonT(30)
        <5>2. CASE c # b
          BY <2>3, <4>1, <5>2, ZenonT(30)
        <5>. QED
          BY <5>1, <5>2, ZenonT(30)
      <4>. QED
        BY <1>1, <4>1, ContentsFrame, ZenonT(30)
    <3>. QED
      BY <3>1, <3>2, ZenonT(30)
  <2>. QED
    BY <1>2, <2>5, <2>6, <2>7, Unnoticed, ZenonT(30) DEF Simulated
<1>. QED
  BY <1>3, <1>4, Zenon

(* ideintr(): the end of a read gives the block to the reader, the end of  *)
(* a write changes nothing that a user sees.                               *)
LEMMA IdeintrStore ==
  ASSUME CacheInv, Mapped, Mapped', Clean, ~DISKERR, NEW ok \in BOOLEAN, ideintr(ok)
  PROVE  Simulated
<1>. DEFINE b == Head(idequeue)
<1>1. PICK p \in Procs : /\ pc[p] = "ide_sleep" /\ Holding(p) /\ buf[p] = b
                         /\ want[p] \in Blocks /\ blockno[b] = want[p]
  BY Finishes, Zenon
<1>2. b \in Bufs /\ cmd = idestart(b)
  BY Finishes, ZenonT(30)
<1>3. /\ disk' = IF cmd # "read" THEN [disk EXCEPT ![blockno[b]] = cmd] ELSE disk
      /\ data' = IF b \notin dirty THEN [data EXCEPT ![b] = disk[blockno[b]]] ELSE data
      /\ valid' = valid \cup {b} /\ dirty' = dirty \ {b} /\ pc' = wakeup(pc, b)
      /\ UNCHANGED <<blockno, want, buf>>
  BY Zenon DEF ideintr, cacheVars
<1>4. \A q \in Procs :
        /\ buf[q] # b => pc'[q] = pc[q]
        /\ pc[q] \notin {"bget_sleep", "ide_sleep"} => pc'[q] = pc[q]
        /\ buf[q] = b /\ pc[q] = "bget_sleep" => pc'[q] = "bget"
        /\ buf[q] = b /\ pc[q] = "ide_sleep" => pc'[q] = "ide_test"
  BY <1>3, Woken, ZenonT(30) DEF CacheInv
<1>. DEFINE k == want[p]
<1>. HIDE DEF b, k
<1>5. k \in Blocks /\ blockno[b] = k /\ want[p] = k
  BY <1>1, ZenonT(30) DEF k
<1>6. \A c \in Bufs \ {b} : blockno[c] # k
  <2>1. None \notin Blocks
    BY BcacheConstants, ZenonT(30) DEF BcacheConstants
  <2>2. \A c, d \in Bufs : blockno[c] = blockno[d] /\ c # d => blockno[c] = None
    BY Zenon DEF CacheInv, HeldAlone
  <2>. QED
    BY <1>2, <1>5, <2>1, <2>2, ZenonT(30)
<1>7. \A q \in Procs \ {p} : Holding(q) => buf[q] \in Bufs \ {b}
  BY <1>1, Held, ZenonT(30) DEF CacheInv, HeldAlone
<1>8. \A c \in Bufs \ {b} : data'[c] = data[c] /\ (c \in valid' <=> c \in valid) /\ (c \in dirty' <=> c \in dirty)
  BY <1>3, ZenonT(30) DEF CacheInv, TypeOK
<1>9. Others(p)
  <2>1. ASSUME NEW q \in Procs \ {p}
        PROVE  /\ InUse(q)' <=> InUse(q)
               /\ InUse(q) => want'[q] = want[q] /\ data'[buf'[q]] = data[buf[q]]
    <3>1. CASE Holding(q)
      <4>1. buf[q] \in Bufs \ {b} /\ pc'[q] = pc[q] /\ want'[q] = want[q] /\ buf'[q] = buf[q]
        BY <1>3, <1>4, <1>7, <3>1, ZenonT(30)
      <4>. QED
        BY <1>8, <4>1, ZenonT(30) DEF InUse
    <3>2. CASE ~Holding(q)
      <4>1. ~InUse(q)
        BY <3>2, ZenonT(30) DEF InUse, Holding
      <4>2. pc[q] # "ide_sleep" /\ pc[q] \notin {"held"} \cup InIderw
        BY <3>2, ZenonT(30) DEF Holding, InIderw
      <4>3. pc'[q] = pc[q] \/ pc'[q] = "bget"
        BY <1>4, <4>2, ZenonT(30)
      <4>4. "bget" \notin {"held"} \cup InIderw
        BY Zenon DEF InIderw
      <4>. QED
        BY <4>1, <4>2, <4>3, <4>4, ZenonT(30) DEF InUse
    <3>. QED
      BY <3>1, <3>2, ZenonT(30)
  <2>. QED
    BY <2>1, ZenonT(30) DEF Others
<1>10. InUse(p)'
  <2>1. pc'[p] = "ide_test" /\ buf'[p] \in valid'
    BY <1>1, <1>3, <1>4, ZenonT(30)
  <2>. QED
    BY <2>1, ZenonT(30) DEF InUse, InIderw
<1>11. \A j \in Blocks \ {k} : disk'[j] = disk[j]
  <2>1. CASE cmd # "read"
    BY <1>3, <1>5, <2>1, ZenonT(30) DEF CacheInv, TypeOK
  <2>2. CASE cmd = "read"
    BY <1>3, <2>2, ZenonT(30)
  <2>. QED
    BY <2>1, <2>2, ZenonT(30)
<1>12. ASSUME NEW j \in Blocks \ {k} PROVE Contents'[j] = Contents[j]
  <2>1. ASSUME NEW c \in Bufs
        PROVE  blockno'[c] = j /\ c \in valid' <=> blockno[c] = j /\ c \in valid
    BY <1>3, <1>5, <1>8, <1>12, <2>1, ZenonT(30)
  <2>2. \A c \in Bufs : blockno[c] = j /\ c \in valid => data'[c] = data[c]
    BY <1>5, <1>8, <1>12, ZenonT(30)
  <2>. QED
    BY <1>11, <1>12, <2>1, <2>2, ContentsFrame, ZenonT(30)
<1>13. Contents'[k] = data'[b]
  <2>1. blockno'[b] = k /\ b \in valid'
    BY <1>3, <1>5, ZenonT(30)
  <2>. QED
    BY SMTT(20), <1>2, <1>5, <2>1, Cover
<1>14. data'[b] = disk'[k] => Clean'
  <2>1. SUFFICES ASSUME data'[b] = disk'[k], NEW c \in valid' \ dirty'
                 PROVE  blockno'[c] \in Blocks /\ data'[c] = disk'[blockno'[c]]
    BY Zenon DEF Clean
  <2>2. CASE c = b
    BY <1>3, <1>5, <2>1, <2>2, ZenonT(30)
  <2>3. CASE c # b
    <3>1. c \in Bufs
      BY <1>2, <1>3, <2>1, ZenonT(30) DEF CacheInv, TypeOK
    <3>2. c \in valid \ dirty /\ data'[c] = data[c] /\ blockno'[c] = blockno[c]
      BY <1>3, <1>8, <2>1, <2>3, <3>1, ZenonT(30)
    <3>3. blockno[c] \in Blocks \ {k} /\ data[c] = disk[blockno[c]]
      BY <1>6, <2>3, <3>1, <3>2, ZenonT(30) DEF Clean
    <3>. QED
      BY <1>11, <3>2, <3>3, ZenonT(30)
  <2>. QED
    BY <2>2, <2>3, ZenonT(30)
<1>15. CASE b \notin dirty
  <2>1. cmd = "read" /\ disk' = disk
    BY <1>2, <1>3, <1>15, ZenonT(30) DEF idestart
  <2>2. data'[b] = disk[k]
    BY <1>2, <1>3, <1>5, <1>15, ZenonT(30) DEF CacheInv, TypeOK
  <2>3. b \notin valid
    BY <1>1, <1>15, ZenonT(30) DEF CacheInv, Flags, FlagsOf
  <2>4. Contents[k] = disk[k]
    <3>1. \A c \in Bufs : blockno[c] = k => c \notin valid
      BY <1>6, <2>3, ZenonT(30)
    <3>. QED
      BY <1>5, <3>1, ZenonT(30) DEF Mapped
  <2>5. ~InUse(p)
    BY <1>1, <2>3, ZenonT(30) DEF InUse
  <2>6. \A j \in Blocks : Contents'[j] = Contents[j]
    BY <1>12, <1>13, <2>2, <2>4, ZenonT(30)
  <2>7. want'[p] = k /\ data'[buf'[p]] = Contents[k]
    BY <1>1, <1>3, <1>5, <2>2, <2>4, ZenonT(30)
  <2>8. BS!Take(p, k)
    BY <1>5, <1>9, <1>10, <2>5, <2>6, <2>7, Taken, ZenonT(30)
  <2>9. Clean'
    BY <1>14, <2>1, <2>2, ZenonT(30)
  <2>. QED
    BY <1>5, <2>8, <2>9, ZenonT(30) DEF Simulated, BS!Next
<1>16. CASE b \in dirty
  <2>1. b \in valid
    BY <1>16, ZenonT(30) DEF CacheInv, Flags
  <2>2. cmd = data[b] /\ data' = data /\ data[b] \in Vals
    BY <1>2, <1>3, <1>16, ZenonT(30) DEF idestart, CacheInv, TypeOK
  <2>3. disk'[k] = data[b]
    <3>1. cmd # "read"
      BY <2>2, BcacheConstants, ZenonT(30) DEF BcacheConstants
    <3>2. disk' = [disk EXCEPT ![k] = data[b]]
      BY <1>3, <1>5, <2>2, <3>1, ZenonT(30)
    <3>. QED
      BY <1>5, <3>2, ZenonT(30) DEF CacheInv, TypeOK
  <2>4. Clean'
    BY <1>14, <2>2, <2>3, ZenonT(30)
  <2>5. Contents[k] = data[b]
    BY SMTT(20), <1>2, <1>5, <2>1, Cover
  <2>6. \A j \in Blocks : Contents'[j] = Contents[j]
    BY <1>12, <1>13, <2>2, <2>5, ZenonT(30)
  <2>7. InUse(p)
    BY <1>1, <2>1, ZenonT(30) DEF InUse, InIderw
  <2>8. want'[p] = want[p] /\ data'[buf'[p]] = data[buf[p]]
    BY <1>3, <2>2, ZenonT(30)
  <2>9. UNCHANGED <<Contents, User, Seen>>
    BY <1>9, <1>10, <2>6, <2>7, <2>8, Unnoticed, ZenonT(30)
  <2>. QED
    BY <2>4, <2>9, ZenonT(30) DEF Simulated
<1>. QED
  BY <1>15, <1>16, ZenonT(30)

-----------------------------------------------------------------------------
(* The initial states of the cache are initial states of the store.        *)
LEMMA StoreInit == Init => Clean /\ BS!Init
<1>1. SUFFICES ASSUME Init PROVE Clean /\ BS!Init
  BY Zenon
<1>2. valid = {} /\ disk \in [Blocks -> Vals] /\ pc = [p \in Procs |-> "idle"]
  BY <1>1, Zenon DEF Init
<1>3. Clean
  BY <1>2, Zenon DEF Clean
<1>4. \A p \in Procs : ~InUse(p)
  <2>1. \A p \in Procs : pc[p] = "idle"
    BY <1>2, ZenonT(30)
  <2>. QED
    BY <2>1, Zenon DEF InUse, InIderw
<1>5. Mapped
  BY <1>1, CacheInit, Mapping, ZenonT(30)
<1>6. Contents \in [Blocks -> Vals]
  <2>1. \A k \in Blocks : Contents[k] = disk[k]
    BY <1>2, <1>5, ZenonT(30) DEF Mapped
  <2>2. Contents = [k \in Blocks |-> Contents[k]]
    BY MapTypes, ZenonT(30)
  <2>. QED
    BY <1>2, <2>1, <2>2, ZenonT(30)
<1>7. User = [k \in Blocks |-> None]
  BY <1>4, Zenon DEF User
<1>8. Seen = [p \in Procs |-> None]
  BY <1>4, Zenon DEF Seen
<1>. QED
  BY <1>3, <1>6, <1>7, <1>8, ZenonT(30) DEF BS!Init

(* Every step of the cache implements a step of the store.                 *)
LEMMA StoreNext ==
  ASSUME ~DISKERR
  PROVE  CacheInv /\ Clean /\ Mapped /\ Mapped' /\ [Next]_vars => Clean' /\ [BS!Next]_(BS!vars)
<1>1. SUFFICES ASSUME CacheInv, Clean, Mapped, Mapped', [Next]_vars
               PROVE  Simulated
  BY Zenon DEF Simulated, BS!vars
<1>2. ASSUME NEW p \in Procs, Step(p) \/ brelse(p) PROVE Simulated
  BY <1>1, <1>2, BgetCachedStore, BgetRecycleStore, BreadStore, IderwStore, BrelseStore, ZenonT(30) DEF Step
<1>3. ASSUME NEW p \in Procs, NEW k \in Blocks, call(p, k) PROVE Simulated
  BY <1>1, <1>3, CallStore, ZenonT(30)
<1>4. ASSUME NEW p \in Procs, NEW v \in Vals, bwrite(p, v) \/ log_write(p, v) PROVE Simulated
  BY <1>1, <1>4, BwriteStep, LogWriteStep, DirtyStore, ZenonT(30)
<1>5. ASSUME NEW ok \in BOOLEAN, ideintr(ok) PROVE Simulated
  BY <1>1, <1>5, IdeintrStore, ZenonT(30)
<1>6. ASSUME UNCHANGED vars PROVE Simulated
  <2>1. UNCHANGED <<blockno, valid, dirty, data, disk, pc, want, buf>>
    BY <1>6, ZenonT(30) DEF vars
  <2>2. Clean'
    BY <1>1, <2>1, ZenonT(30) DEF Clean
  <2>3. UNCHANGED <<Contents, User, Seen>>
    BY <2>1 DEF Contents, Cached, User, Seen, InUse
  <2>. QED
    BY <2>2, <2>3, ZenonT(30) DEF Simulated
<1>. QED
  BY <1>1, <1>2, <1>3, <1>4, <1>5, <1>6, ZenonT(30) DEF Next

(* bread() returns "a B_BUSY buf with the contents of the indicated block" *)
(* (bio.c), whatever is cached, pinned, recycled and queued, for any       *)
(* numbers of processes, buffers and blocks: as long as the disk reports   *)
(* no error, the cache and the driver implement the store of blocks.       *)
THEOREM CacheIsStore ==
  ASSUME ~DISKERR
  PROVE  Spec => Store
<1>1. Init => Clean /\ BS!Init
  BY StoreInit
<1>2. CacheInv /\ Clean /\ Mapped /\ Mapped' /\ [Next]_vars => Clean' /\ [BS!Next]_(BS!vars)
  BY StoreNext
<1>. QED
  BY <1>1, <1>2, Cache, Mapping, PTL DEF Spec, Store, BS!Spec
=============================================================================
