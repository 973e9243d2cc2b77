------------------------------ MODULE BlockMap ------------------------------
(***************************************************************************)
(* The block map of one inode (src/kernel/fs.cc): balloc()/bfree() on the *)
(* in-memory free-bit-vector, bmap() through direct, indirect and doubly- *)
(* indirect blocks, writei()/readi() as far as they allocate, itrunc()    *)
(* with its three stages, and the transaction those calls log into.      *)
(* The caller holds the inode's write latch, so one thread acts at a time.*)
(*                                                                         *)
(* Block contents are kept only for blocks used as indirect blocks: `blk` *)
(* is the buffer cache, `disk` the disk.  Data bytes are not modelled.    *)
(***************************************************************************)
EXTENDS Naturals, Sequences, FiniteSets, FiniteSetsExt

CONSTANTS
  NDIRECT,    \* direct slots in dinode.addrs
  NINDIRECT,  \* block numbers per indirect block
  BSIZE,      \* bytes per block
  Blocks,     \* data-area block numbers (0 means absent)
  Sparse      \* may MemFS flush a page beyond the end of the file?

ASSUME NDIRECT \in Nat \ {0} /\ NINDIRECT \in Nat \ {0} /\ BSIZE \in Nat \ {0}
ASSUME 0 \notin Blocks /\ Sparse \in BOOLEAN

MAXFILE == NDIRECT + NINDIRECT + NINDIRECT * NINDIRECT
BNum    == Blocks \cup {0}
LBlocks == 0..(MAXFILE - 1)
IdxI    == 0..(NINDIRECT - 1)
ZeroBlk == [j \in IdxI |-> 0]

VARIABLES
  addrs, size,          \* the in-memory inode
  blk,                  \* buffer cache: block -> its NINDIRECT entries
  memFree,              \* rootfs_interface's in-memory free-bit-vector
  tAlloc, tFree,        \* transaction: add_allocated_block / add_free_block
  tLog, tIno,           \* transaction: logged blocks; inode block logged
  disk, dAddrs, dSize,  \* on disk: block contents and the dinode
  diskFree,             \* on disk: the free-block bitmap
  panicked

vars == <<addrs, size, blk, memFree, tAlloc, tFree, tLog, tIno, disk, dAddrs,
          dSize, diskFree, panicked>>

Running == panicked = "none"

-----------------------------------------------------------------------------
(* bmap(), fs.cc:538-599, over a record st of the state it changes.        *)
(* A slot is (c, k): c = 0 is ip->addrs, otherwise an indirect block.    *)

Entry(st, c, k) == IF c = 0 THEN st.addrs[k] ELSE st.blk[c][k]

\* A bmap() that logs the block holding the slot even when the slot is in
\* the inode itself.
BallocLogsInode(st, c, k, zero, trans, b) ==
  [st EXCEPT !.cur    = b,
             !.free   = @ \ {b},
             !.addrs  = IF c = 0 THEN [@ EXCEPT ![k] = b] ELSE @,
             !.blk    = [x \in Blocks |->
                           CASE x = c -> [@[x] EXCEPT ![k] = b]
                             [] x = b /\ zero -> ZeroBlk
                             [] OTHER -> @[x]],
             !.talloc = IF trans THEN @ \cup {b} ELSE @,
             !.tlog   = IF trans THEN @ \cup {c} ELSE @]

AllocChoices(free) == {Min(free)}

\* balloc(), fs.cc:110-130, into slot (c, k): alloc_block() hands out the
\* free block b; the block is zeroed if asked,
\* recorded in the transaction if there is one, and bmap() logs the
\* indirect block holding the slot.
Balloc(st, c, k, zero, trans, b) ==
  [st EXCEPT !.cur    = b,
             !.free   = @ \ {b},
             !.addrs  = IF c = 0 THEN [@ EXCEPT ![k] = b] ELSE @,
             !.blk    = [x \in Blocks |->
                           CASE x = c -> [@[x] EXCEPT ![k] = b]
                             [] x = b /\ zero -> ZeroBlk
                             [] OTHER -> @[x]],
             !.talloc = IF trans THEN @ \cup {b} ELSE @,
             !.tlog   = IF trans /\ c # 0 THEN @ \cup {c} ELSE @]

\* One level of bmap(): follow slot (c, k), allocating it if empty; with no
\* block left balloc() throws out_of_blocks.  The set of possible outcomes.
Step(st, c, k, zero, trans) ==
  IF ~st.ok THEN {st}
  ELSE IF Entry(st, c, k) # 0 THEN {[st EXCEPT !.cur = Entry(st, c, k)]}
  ELSE IF st.free = {} THEN {[st EXCEPT !.ok = FALSE]}
  ELSE {Balloc(st, c, k, zero, trans, b) : b \in AllocChoices(st.free)}

\* Indirect blocks are always zeroed on allocation; the leaf follows the
\* caller's zero_on_alloc.
Bmap(st, bn, trans, zero) ==
  IF bn < NDIRECT THEN Step(st, 0, bn, zero, trans)
  ELSE IF bn < NDIRECT + NINDIRECT
  THEN UNION {Step(s1, s1.cur, bn - NDIRECT, zero, trans) :
                s1 \in Step(st, 0, NDIRECT, TRUE, trans)}
  ELSE LET k == bn - NDIRECT - NINDIRECT IN
       UNION {UNION {Step(s2, s2.cur, k % NINDIRECT, zero, trans) :
                       s2 \in Step(s1, s1.cur, k \div NINDIRECT, TRUE, trans)} :
                s1 \in Step(st, 0, NDIRECT + 1, TRUE, trans)}

Now == [addrs |-> addrs, blk |-> blk, free |-> memFree, talloc |-> tAlloc,
        tlog |-> tLog, cur |-> 0, ok |-> TRUE]

ApplyBmap(st) ==
  /\ addrs' = st.addrs /\ blk' = st.blk /\ memFree' = st.free
  /\ tAlloc' = st.talloc

\* The block reached from container c along path (c = 0 is the inode's
\* addrs a), over block contents cont; 0 where the walk meets an empty slot.
RECURSIVE MappedVia(_, _, _, _)
MappedVia(c, path, a, cont) ==
  IF path = <<>> THEN c
  ELSE LET nxt == IF c = 0 THEN a[Head(path)] ELSE cont[c][Head(path)]
       IN IF nxt = 0 THEN 0 ELSE MappedVia(nxt, Tail(path), a, cont)

\* The slots bmap() walks for logical block bn.
Path(bn) ==
  IF bn < NDIRECT THEN <<bn>>
  ELSE IF bn < NDIRECT + NINDIRECT THEN <<NDIRECT, bn - NDIRECT>>
  ELSE LET k == bn - NDIRECT - NINDIRECT
       IN <<NDIRECT + 1, k \div NINDIRECT, k % NINDIRECT>>

Mapped(bn) == MappedVia(0, Path(bn), addrs, blk)

\* Every block the file's map reaches, data and indirect, as slot -> block.
RefSlots(a, cont) ==
  LET ind == a[NDIRECT]
      l1  == a[NDIRECT + 1]
      l2s == IF l1 = 0 THEN {} ELSE {cont[l1][i] : i \in IdxI} \ {0}
  IN  {<<0, k>> : k \in {k \in 0..(NDIRECT + 1) : a[k] # 0}}
      \cup (IF ind = 0 THEN {} ELSE {<<ind, j>> : j \in {j \in IdxI : cont[ind][j] # 0}})
      \cup (IF l1 = 0 THEN {} ELSE {<<l1, i>> : i \in {i \in IdxI : cont[l1][i] # 0}})
      \cup UNION {{<<c, j>> : j \in {j \in IdxI : cont[c][j] # 0}} : c \in l2s}

SlotBlock(s, a, cont) == IF s[1] = 0 THEN a[s[2]] ELSE cont[s[1]][s[2]]

Referenced(a, cont) == {SlotBlock(s, a, cont) : s \in RefSlots(a, cont)}

BLOCKROUNDUP(off) == IF off % BSIZE # 0 THEN off \div BSIZE + 1 ELSE off \div BSIZE

-----------------------------------------------------------------------------
(* writei(), fs.cc:862-908, for a write of n bytes at off inside one      *)
(* block, followed by the caller's update_size() (fs.cc:912-917), which   *)
(* sets the new size and logs the inode with iupdate().                   *)

\* The size the caller hands update_size() after writing [off, off+n).
GrownSize(off, n) == Max({size, off + n})

WriteI(off, n) ==
  LET bn    == off \div BSIZE
      whole == off % BSIZE = 0 /\ n = BSIZE
  IN
  /\ Running
  /\ Sparse \/ bn <= BLOCKROUNDUP(size)
  /\ \E st \in Bmap(Now, bn, TRUE, ~whole) :
     /\ addrs' = st.addrs /\ memFree' = st.free /\ tAlloc' = st.talloc
     /\ IF st.ok
        THEN \* the data block now holds file data, which is not modelled
             /\ blk' = [st.blk EXCEPT ![st.cur] = ZeroBlk]
             /\ tLog' = st.tlog \cup {st.cur}
             /\ size' = GrownSize(off, n)
             /\ tIno' = TRUE
        ELSE \* out_of_blocks: writei() returns -1 having written nothing
             /\ blk' = st.blk
             /\ tLog' = st.tlog
             /\ UNCHANGED <<size, tIno>>
     /\ UNCHANGED <<tFree, disk, dAddrs, dSize, diskFree, panicked>>

\* readi(), fs.cc:821-848: bmap() with no transaction for every block of
\* [off, off+n) inside the file; running out of blocks panics.
ReadI(off) ==
  /\ Running
  /\ off < size
  /\ \E st \in Bmap(Now, off \div BSIZE, FALSE, TRUE) :
     /\ IF st.ok
        THEN /\ ApplyBmap(st)
             /\ UNCHANGED panicked
        ELSE /\ panicked' = "readi_out_of_blocks"
             /\ UNCHANGED <<addrs, blk, memFree, tAlloc>>
     /\ UNCHANGED <<size, tFree, tLog, tIno, disk, dAddrs, dSize, diskFree>>

-----------------------------------------------------------------------------
(* itrunc(), fs.cc:603-733, followed by the caller's iupdate().  Each      *)
(* loop frees a run of slots that stops at the first empty one.           *)

\* The indices from..lim-1 a `for (i = from; i < lim; i++) if (!a[i]) break;`
\* loop visits.
Run(arr, from, lim) == {i \in from..(lim - 1) : \A j \in from..i : arr[j] # 0}

BfreeNow(bs) == {}

Itrunc(off) ==
  LET bn    == BLOCKROUNDUP(off)
      stage == CASE bn < NDIRECT -> 1
                 [] bn < NDIRECT + NINDIRECT -> 2
                 [] bn < MAXFILE -> 3
                 [] OTHER -> 1
      sidx  == CASE bn < NDIRECT -> bn
                 [] bn < NDIRECT + NINDIRECT -> bn - NDIRECT
                 [] bn < MAXFILE -> bn - NDIRECT - NINDIRECT
                 [] OTHER -> 0
      \* DIRECT_BLOCKS
      dRun  == IF stage = 1 THEN Run(addrs, sidx, NDIRECT) ELSE {}
      \* INDIRECT_BLOCKS; `if (!ip->addrs[NDIRECT]) break;` leaves the switch
      ind   == addrs[NDIRECT]
      s2    == IF stage = 1 THEN 0 ELSE sidx
      doInd == stage <= 2 /\ ind # 0
      iRun  == IF doInd THEN Run(blk[ind], s2, NINDIRECT) ELSE {}
      indGo == doInd /\ s2 = 0
      \* DBL_INDIRECT_BLOCKS
      l1    == addrs[NDIRECT + 1]
      s3    == IF stage <= 2 THEN 0 ELSE sidx
      doDbl == (stage <= 2 => ind # 0) /\ l1 # 0
      I     == IF doDbl THEN Run(blk[l1], s3 \div NINDIRECT, NINDIRECT) ELSE {}
      l2(i) == blk[l1][i]
      J(i)  == Run(blk[l2(i)], IF i = s3 \div NINDIRECT THEN s3 % NINDIRECT ELSE 0,
                   NINDIRECT)
      l2Go  == {i \in I : i # s3 \div NINDIRECT \/ s3 % NINDIRECT = 0}
      l1Go  == doDbl /\ s3 = 0
      freed == {addrs[i] : i \in dRun} \cup {blk[ind][j] : j \in iRun}
               \cup (IF indGo THEN {ind} ELSE {})
               \cup UNION {{blk[l2(i)][j] : j \in J(i)} : i \in I}
               \cup {l2(i) : i \in l2Go} \cup (IF l1Go THEN {l1} ELSE {})
      L2s   == {l2(i) : i \in I}
      blk2  == [b \in Blocks |->
                 CASE doInd /\ b = ind ->
                        [j \in IdxI |-> IF j \in iRun THEN 0 ELSE blk[b][j]]
                   [] doDbl /\ b = l1 ->
                        [i \in IdxI |-> IF i \in l2Go THEN 0 ELSE blk[b][i]]
                   [] b \in L2s ->
                        LET i == CHOOSE i \in I : l2(i) = b
                        IN [j \in IdxI |-> IF j \in J(i) THEN 0 ELSE blk[b][j]]
                   [] OTHER -> blk[b]]
      addrs2 == [k \in 0..(NDIRECT + 1) |->
                  IF k \in dRun \/ (k = NDIRECT /\ indGo)
                     \/ (k = NDIRECT + 1 /\ l1Go) THEN 0 ELSE addrs[k]]
      \* add_to_transaction: the indirect block if start_index != 0, each
      \* second-level block if `!ap2[0]`, the first-level one if start_index != 0
      logged == (IF doInd /\ s2 # 0 THEN {ind} ELSE {})
                \cup {b \in L2s : blk2[b][0] = 0}
                \cup (IF doDbl /\ s3 # 0 THEN {l1} ELSE {})
  IN
  /\ Running
  /\ size > off /\ off < MAXFILE * BSIZE
  /\ blk' = blk2
  /\ tFree' = tFree \cup freed
  /\ memFree' = memFree \cup BfreeNow(freed)
  /\ tLog' = tLog \cup logged
  /\ IF off = 0 /\ \E k \in 0..(NDIRECT + 1) : addrs2[k] # 0
     THEN \* assert(ip->addrs[i] == 0), fs.cc:727-730
          /\ panicked' = "itrunc_assert"
          /\ UNCHANGED <<addrs, size, tIno>>
     ELSE /\ addrs' = addrs2 /\ size' = off /\ tIno' = TRUE
          /\ UNCHANGED panicked
  /\ UNCHANGED <<tAlloc, disk, dAddrs, dSize, diskFree>>

-----------------------------------------------------------------------------
(* Committing the transaction.  The caller (MemFS's fsync path, outside    *)
(* this tree) marks the transaction's allocated and then its freed blocks *)
(* in the on-disk bitmap with balloc_free_on_disk() (fs.cc:158-191), then *)
(* journal::flush_to_disk() writes every logged block back               *)
(* (scalefs.hh:39-51, 77-83), then the delayed frees are released.       *)

\* balloc_free_on_disk(blocks, alloc): the new on-disk free set, or a panic
\* when a bit is already in the state it is being set to.
BitmapAlloc(free, bs) == free \ bs
BitmapFree(free, bs)  == free \cup bs

Commit ==
  LET free1 == BitmapAlloc(diskFree, tAlloc) IN
  /\ Running
  /\ tAlloc \cup tFree \cup tLog # {} \/ tIno
  /\ CASE tAlloc \ diskFree # {} ->
          /\ panicked' = "already_in_use"
          /\ UNCHANGED <<disk, dAddrs, dSize, diskFree, memFree>>
       [] tFree \cap free1 # {} ->
          /\ panicked' = "already_free"
          /\ UNCHANGED <<disk, dAddrs, dSize, diskFree, memFree>>
       [] OTHER ->
          /\ disk' = [b \in Blocks |-> IF b \in tLog THEN blk[b] ELSE disk[b]]
          /\ dAddrs' = IF tIno THEN addrs ELSE dAddrs
          /\ dSize' = IF tIno THEN size ELSE dSize
          /\ diskFree' = BitmapFree(free1, tFree)
          /\ memFree' = memFree \cup tFree
          /\ UNCHANGED panicked
  /\ tAlloc' = {} /\ tFree' = {} /\ tLog' = {} /\ tIno' = FALSE
  /\ UNCHANGED <<addrs, size, blk>>

-----------------------------------------------------------------------------

Init ==
  /\ addrs = [k \in 0..(NDIRECT + 1) |-> 0]
  /\ size = 0
  /\ blk = [b \in Blocks |-> ZeroBlk]
  /\ memFree = Blocks
  /\ tAlloc = {} /\ tFree = {} /\ tLog = {} /\ tIno = FALSE
  /\ disk = [b \in Blocks |-> ZeroBlk]
  /\ dAddrs = [k \in 0..(NDIRECT + 1) |-> 0]
  /\ dSize = 0
  /\ diskFree = Blocks
  /\ panicked = "none"

Offsets == 0..(MAXFILE * BSIZE - 1)

\* A write or read is taken from the start of its block: where in the block
\* it starts changes neither the blocks bmap() allocates nor the sizes
\* update_size() can reach.
Next ==
  \/ \E bn \in LBlocks, n \in 1..BSIZE : WriteI(bn * BSIZE, n)
  \/ \E bn \in LBlocks : ReadI(bn * BSIZE)
  \/ \E off \in Offsets : Itrunc(off)
  \/ Commit

Spec == Init /\ [][Next]_vars

\* The state as far as the future of the in-memory block map depends on it:
\* nothing reads the disk image, the logged blocks or the inode's logged
\* flag except to write the disk image, and the cached contents of a block
\* free in the bit-vector are zeroed or overwritten before it is used again.
MemoryView ==
  <<addrs, size, [b \in Blocks |-> IF b \in memFree THEN ZeroBlk ELSE blk[b]],
    memFree, tAlloc, tFree, diskFree, panicked>>

-----------------------------------------------------------------------------

TypeOK ==
  /\ addrs \in [0..(NDIRECT + 1) -> BNum]
  /\ size \in 0..(MAXFILE * BSIZE)
  /\ blk \in [Blocks -> [IdxI -> BNum]]
  /\ memFree \subseteq Blocks /\ diskFree \subseteq Blocks
  /\ tAlloc \subseteq Blocks /\ tFree \subseteq Blocks /\ tLog \subseteq Blocks
  /\ tIno \in BOOLEAN
  /\ disk \in [Blocks -> [IdxI -> BNum]]
  /\ dAddrs \in [0..(NDIRECT + 1) -> BNum] /\ dSize \in 0..(MAXFILE * BSIZE)

TruncKeepsPrefix ==
  [][size' < size =>
       \A bn \in LBlocks : bn < BLOCKROUNDUP(size') => Mapped(bn)' = Mapped(bn)]_vars

\* What is on the disk after a commit is a consistent file: no block that
\* the on-disk inode reaches through the on-disk indirect blocks is marked
\* free in the on-disk bitmap.  A crash at any point leaves this state.
DiskGraphSound ==
  Referenced(dAddrs, disk) \cap diskFree = {}

=============================================================================
