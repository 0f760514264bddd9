------------------------------- MODULE Inode -------------------------------
(***************************************************************************)
(* The content of files: block allocation, bmap(), itrunc(), readi() and   *)
(* writei() of fs.c, fileread() and filewrite() of file.c, on the image    *)
(* that mkfs.c builds.  A step is one critical section under ilock(), one  *)
(* transaction of a write: writers of a file take turns between the chunks *)
(* of filewrite().  A cell of a block is a byte, a block number or a       *)
(* directory entry.                                                        *)
(***************************************************************************)
EXTENDS Integers, FiniteSetsExt, SequencesExt

CONSTANTS
  BSIZE,              \* cells of a block
  NDIRECT, NINDIRECT, \* block numbers in an inode and in an indirect block
  LOGSIZE, IPB, BPB, FSSIZE, NINODES, \* the layout: param.h, fs.h, mkfs.c
  ImageFiles,         \* the files mkfs is given: sequences of contents
  Writes,             \* the data of write calls
  ReadSizes             \* bound: numbers of bytes that a read asks for

VARIABLES
  d,    \* the disk and the inode cache, see Image
  ofs,  \* f->off by open file; both are open on inode FILE
  rest, \* by open file: what filewrite() has still to write
  ref   \* by inode: what should be in the file

inodevars == <<d, ofs, rest, ref>>

OpenFiles == {1, 2}
Inums == 1..NINODES
ROOTINO == 1
FILE == 2
MAXFILE == NDIRECT + NINDIRECT
Cells == 0..(BSIZE - 1)
Blocks == 0..(FSSIZE - 1)
ZeroBlock == [c \in Cells |-> 0]
Junk == [c \in Cells |-> -1]
NoInode == [size |-> 0, addrs |-> [k \in 0..NDIRECT |-> 0]]

nbitmap == FSSIZE \div BPB + 1
ninodeblocks == NINODES \div IPB + 1
nmeta == 2 + LOGSIZE + ninodeblocks + nbitmap
IBLOCK(i) == i \div IPB + 2 + LOGSIZE
BBLOCK(b) == b \div BPB + 2 + LOGSIZE + ninodeblocks

-----------------------------------------------------------------------------
(* mkfs.c takes blocks in order; the bitmap is written at the end, when    *)
(* freeblock is the number of blocks used.                                 *)
mk_take(m) == [m EXCEPT !.addr = m.freeblock, !.freeblock = @ + 1]

mk_block(m, i, fbn) ==
  LET a == m.din[i].addrs
      direct(k) == IF a[k] # 0 THEN [m EXCEPT !.addr = a[k]]
                   ELSE [mk_take(m) EXCEPT !.din[i].addrs[k] = m.freeblock]
      e == direct(NDIRECT)
      j == fbn - NDIRECT
  IN  IF fbn < NDIRECT THEN direct(fbn)
      ELSE IF e.block[e.addr][j] # 0 THEN [e EXCEPT !.addr = e.block[e.addr][j]]
      ELSE [mk_take(e) EXCEPT !.block[e.addr][j] = e.freeblock]

(* The blocks that n cells from off touch, and a block with those of src.  *)
Touched(off, n) ==
  IF n = 0 THEN <<>>
  ELSE [k \in 1..((off + n - 1) \div BSIZE - off \div BSIZE + 1) |-> off \div BSIZE + k - 1]

Filled_aligned(old, bn, src, off) ==
  [c \in Cells |-> LET k == bn * BSIZE + c - (off - (off % BSIZE))
                   IN IF k \in 0..(Len(src) - 1) THEN src[k + 1] ELSE old[c]]
Filled(old, bn, src, off) ==
  [c \in Cells |-> LET k == bn * BSIZE + c - off IN IF k \in 0..(Len(src) - 1) THEN src[k + 1] ELSE old[c]]

iappend(m, i, p) ==
  LET off == m.din[i].size
      one(e, fbn) == LET x == mk_block(e, i, fbn)
                     IN  [x EXCEPT !.block[x.addr] = Filled(@, fbn, p, off)]
  IN  [FoldLeft(one, m, Touched(off, Len(p))) EXCEPT !.din[i].size = off + Len(p)]

(* main(): "." and ".." of the root, then an inode, an entry and the       *)
(* contents for every file; the size of the root becomes whole blocks.     *)
mk_file(m, k, contents) ==
  iappend(iappend(m, ROOTINO, <<FILE + k - 1>>), FILE + k - 1, contents)

mkfs(contents) ==
  LET empty == [block |-> [b \in Blocks |-> ZeroBlock], din |-> [i \in Inums |-> NoInode],
                freeblock |-> nmeta, addr |-> 0]
      root  == iappend(empty, ROOTINO, <<ROOTINO, ROOTINO>>)
  IN  FoldLeft(LAMBDA m, k : mk_file(m, k, contents[k]), root, [k \in DOMAIN contents |-> k])

Rounded(size) == ((size \div BSIZE) + 1) * BSIZE

(* The kernel's view of the image: ip is the inode cache, din the disk;    *)
(* log what the transaction has passed to log_write(); addr and data are   *)
(* results of calls, ok is FALSE after a panic.                            *)
Image(m) ==
  LET din == [m.din EXCEPT ![ROOTINO].size = Rounded(@)]
  IN  [block |-> m.block, used |-> 0..(m.freeblock - 1), din |-> din, ip |-> din,
       log |-> {}, addr |-> 0, data |-> <<>>, ok |-> TRUE]

-----------------------------------------------------------------------------
balloc(e) ==
  LET b == Min(Blocks \ e.used)
  IN  IF Blocks \subseteq e.used THEN [e EXCEPT !.ok = FALSE, !.addr = 0]
      ELSE [e EXCEPT !.used = @ \cup {b}, !.block[b] = ZeroBlock, !.addr = b,
                     !.log = @ \cup {BBLOCK(b), b}]

(* The contents of a free block are forgotten: Junk stands for any.        *)
bfree(e, b) ==
  [e EXCEPT !.ok = @ /\ b \in e.used, !.used = @ \ {b}, !.block[b] = Junk, !.log = @ \cup {BBLOCK(b)}]

bmap(e, i, bn) ==
  LET a == e.ip[i].addrs
      direct(k) == LET x == balloc(e)
                   IN  IF a[k] # 0 THEN [e EXCEPT !.addr = a[k]]
                       ELSE [x EXCEPT !.ip[i].addrs[k] = x.addr]
      y == direct(NDIRECT)
      j == bn - NDIRECT
      z == balloc(y)
  IN  IF bn < NDIRECT THEN direct(bn)
      ELSE IF y.block[y.addr][j] # 0 THEN [y EXCEPT !.addr = y.block[y.addr][j]]
      ELSE [z EXCEPT !.block[y.addr][j] = z.addr, !.log = @ \cup {y.addr}]

iupdate(e, i) == [e EXCEPT !.din[i] = e.ip[i], !.log = @ \cup {IBLOCK(i)}]

itrunc(e, i) ==
  LET a == e.ip[i].addrs
      free(x, b) == IF b = 0 THEN x ELSE bfree(x, b)
      direct   == FoldLeft(free, e, [k \in 1..NDIRECT |-> a[k - 1]])
      indirect == FoldLeft(free, direct, [k \in 1..NINDIRECT |-> e.block[a[NDIRECT]][k - 1]])
  IN  iupdate([(IF a[NDIRECT] = 0 THEN direct ELSE bfree(indirect, a[NDIRECT])) EXCEPT !.ip[i] = NoInode], i)

(* readi() of n cells; off is at most the size.                            *)
readi(e, i, off, n) ==
  LET m == Min({n, e.ip[i].size - off})
      one(x, bn) ==
        LET y  == bmap(x, i, bn)
            lo == Max({off - bn * BSIZE, 0})
            hi == Min({off + m - bn * BSIZE, BSIZE})
        IN  [y EXCEPT !.data = @ \o [c \in 1..(hi - lo) |-> y.block[y.addr][lo + c - 1]]]
  IN  FoldLeft(one, [e EXCEPT !.data = <<>>], Touched(off, m))

(* writei(): Refused is its first tests.                                   *)
Refused(e, i, off, n) == off > e.ip[i].size \/ off + n > MAXFILE * BSIZE

writei(e, i, src, off) ==
  LET one(x, bn) ==
        LET y == bmap(x, i, bn)
        IN  [y EXCEPT !.block[y.addr] = Filled(@, bn, src, off), !.log = @ \cup {y.addr}]
      w == FoldLeft(one, e, Touched(off, Len(src)))
  IN  IF off + Len(src) > e.ip[i].size
      THEN iupdate([w EXCEPT !.ip[i].size = off + Len(src)], i) ELSE w

-----------------------------------------------------------------------------
(* filewrite() writes at most so much in one transaction.                  *)
max == ((LOGSIZE - 1 - 1 - 2) \div 2) * BSIZE

filewrite(f) ==
  /\ d.ok /\ rest[f] = <<>>
  /\ \E data \in Writes : rest' = [rest EXCEPT ![f] = data]
  /\ UNCHANGED <<d, ofs, ref>>

chunk(f) ==
  LET n1  == Min({Len(rest[f]), max})
      src == SubSeq(rest[f], 1, n1)
      new == writei([d EXCEPT !.log = {}], FILE, src, ofs[f])
      old == ref[FILE]
  IN  /\ d.ok /\ rest[f] # <<>>
      /\ IF Refused(d, FILE, ofs[f], n1)
         THEN /\ rest' = [rest EXCEPT ![f] = <<>>]
              /\ d' = [d EXCEPT !.log = {}] /\ UNCHANGED <<ofs, ref>>
         ELSE /\ rest' = [rest EXCEPT ![f] = SubSeq(@, n1 + 1, Len(@))]
              /\ d' = [new EXCEPT !.addr = 0] /\ ofs' = [ofs EXCEPT ![f] = @ + n1]
              /\ ref' = [ref EXCEPT ![FILE] =
                   SubSeq(old, 1, ofs[f]) \o src \o SubSeq(old, ofs[f] + n1 + 1, Len(old))]

fileread(f) ==
  \E n \in ReadSizes :
    LET new == readi(d, FILE, ofs[f], n)
    IN  /\ d.ok /\ rest[f] = <<>> /\ ofs[f] <= d.ip[FILE].size
        /\ d' = [new EXCEPT !.addr = 0, !.data = <<>>]
        /\ ofs' = [ofs EXCEPT ![f] = @ + Len(new.data)]
        /\ UNCHANGED <<rest, ref>>

(* The file is unlinked and closed, so that iput() calls itrunc(), and     *)
(* made again.                                                             *)
recycle ==
  /\ d.ok /\ \A f \in OpenFiles : rest[f] = <<>>
  /\ d' = itrunc([d EXCEPT !.log = {}], FILE)
  /\ ofs' = [f \in OpenFiles |-> 0] /\ ref' = [ref EXCEPT ![FILE] = <<>>]
  /\ UNCHANGED rest

InodeInit ==
  \E contents \in ImageFiles :
    /\ d = Image(mkfs(contents))
    /\ ofs = [f \in OpenFiles |-> 0] /\ rest = [f \in OpenFiles |-> <<>>]
    /\ ref = [i \in Inums |->
         IF i # ROOTINO THEN IF i - 1 \in DOMAIN contents THEN contents[i - 1] ELSE <<>>
         ELSE [c \in 1..Rounded(2 + Len(contents)) |->
                 IF c <= 2 THEN ROOTINO ELSE IF c <= 2 + Len(contents) THEN c - 1 ELSE 0]]

InodeNext == recycle \/ \E f \in OpenFiles : filewrite(f) \/ chunk(f) \/ fileread(f)

-----------------------------------------------------------------------------
(* The blocks of an inode, with the place each number is kept in.          *)
Places(i) ==
  LET a == d.ip[i].addrs
  IN  {<<i, k, a[k]>> : k \in {k \in 0..NDIRECT : a[k] # 0}}
      \cup IF a[NDIRECT] = 0 THEN {}
           ELSE {<<i, NDIRECT + 1 + j, d.block[a[NDIRECT]][j]>> :
                   j \in {j \in 0..(NINDIRECT - 1) : d.block[a[NDIRECT]][j] # 0}}

(* What is in a file can be read back: any read gives the part it asks for *)
(* of what mkfs and the chunks of the two writers have put there, through  *)
(* direct and indirect blocks and whatever blocks bmap() gave out again    *)
(* after itrunc().                                                         *)
FileContents ==
  d.ok => \A i \in Inums : \A off \in 0..d.ip[i].size : \A n \in ReadSizes \cup {MAXFILE * BSIZE} :
            readi(d, i, off, n).data = SubSeq(ref[i], off + 1, Min({off + n, Len(ref[i])}))

(* The bitmap has exactly the blocks in use, from mkfs on, and every block *)
(* has one place.  The inode on the disk is the one in memory after each   *)
(* transaction, so that a crash loses no block number, and there is no     *)
(* hole below the size, so that readi() never allocates, which outside a   *)
(* transaction would be a panic in log_write().                            *)
BlockMap ==
  LET places == UNION {Places(i) : i \in Inums}
  IN  d.ok => /\ d.used = 0..(nmeta - 1) \cup {p[3] : p \in places}
              /\ \A p, q \in places : p[3] = q[3] => p = q
              /\ d.ip = d.din
              /\ \A i \in Inums : \A off \in 0..d.ip[i].size : readi(d, i, off, BSIZE).used = d.used

(* "write a few blocks at a time to avoid exceeding the maximum log        *)
(* transaction size" (file.c): no chunk of filewrite() passes more blocks  *)
(* to log_write() than the log has, those of the bitmap, the inode and the *)
(* indirect block and the slop of an unaligned write included.             *)
ChunkFitsLog == Cardinality(d.log) <= LOGSIZE


=============================================================================
