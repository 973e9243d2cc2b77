------------------------------ MODULE Directory ------------------------------
(***************************************************************************)
(* The directory layer of fs.cc (dir_init, dir_flush_entry, dirlookup,      *)
(* dirlink, dirunlink) for one directory dp, whose caller holds dp's write *)
(* latch.  dp keeps an in-memory index name -> (inum, offset), built by     *)
(* dir_init from the directory file on first use, and dir_offset, the slot *)
(* of the next entry.  The file is a sequence of dirent slots; an entry    *)
(* with inum 0 is a tombstone.  The link counts of the inodes the entries *)
(* name are kept here too; the reference a non-zero count holds is the    *)
(* business of InodeCache.                                                *)
(*                                                                         *)
(* Offsets and sizes count dirent slots (sizeof(struct dirent) = 1); a     *)
(* block holds DPB slots.                                                  *)
(***************************************************************************)
EXTENDS Naturals, Integers, FiniteSets

CONSTANTS
  Names,      \* file names other than ".."
  DotDot,     \* the name ".."
  Inums,      \* inode numbers the entries may name (0 is not one)
  DPB,        \* dirent slots per block: BSIZE / sizeof(struct dirent)
  MaxSlots,   \* bound on the directory file's length, in slots
  MinLink     \* bound on how far a link count may be driven down

ASSUME DotDot \notin Names /\ 0 \notin Inums /\ DPB >= 1

AllNames == Names \cup {DotDot}
Slots    == 0..MaxSlots-1
NoName   == "none"

\* An index entry: dir_entry_info(inum, offset).
Entries == [inum : Inums \cup {0}, off : Slots]
\* A dirent in the file.
Dirents  == [name : AllNames \cup {NoName}, inum : Inums \cup {0}]
Empty    == [name |-> NoName, inum |-> 0]
Absent   == [inum |-> 0, off |-> 0]

VARIABLES
  hasDir,     \* dp->dir != nullptr
  dir,        \* the index dp->dir, as a set of <<name, entry>> pairs
  dirOffset,  \* dp->dir_offset
  file,       \* the directory file's slots
  size,       \* dp->size, in slots
  nlink,      \* nlink_ of the inodes the entries name
  dpNlink     \* dp's own nlink_

vars == <<hasDir, dir, dirOffset, file, size, nlink, dpNlink>>

Initialised == hasDir

\* The slots dir_init reads: every slot of every block below dp->size.
Scanned == {s \in Slots : s < ((size + DPB - 1) \div DPB) * DPB}

\* The index dir_init builds: the live entries, at their own offsets.
LoadedIndex ==
  {<<file[s].name, [inum |-> file[s].inum, off |-> s]>> :
     s \in {s \in Scanned : file[s].inum # 0}}

\* Mutation: the offset counts only the entries that are inserted.
LoadedOffsetLiveOnly == Cardinality({s \in Scanned : file[s].inum # 0})

\* dir_offset after dir_init: it advances past tombstones too.
LoadedOffset == Cardinality(Scanned)

\* dir_init(dp): a no-op once dp->dir exists.
DirInit ==
  IF Initialised
    THEN UNCHANGED <<hasDir, dir, dirOffset>>
    ELSE /\ hasDir' = TRUE
         /\ dir' = LoadedIndex
         /\ dirOffset' = LoadedOffset

\* The index and dir_offset as dir_init(dp) at the start of an operation
\* leaves them.
IndexNow == IF Initialised THEN dir ELSE LoadedIndex
OffsetNow == IF Initialised THEN dirOffset ELSE LoadedOffset

\* dir_flush_entry(dp, name, trans): write the entry at its offset
\* through writei and grow dp->size over it.
FlushEntry(name, e) ==
  /\ e.off < MaxSlots
  /\ file' = [file EXCEPT ![e.off] = [name |-> name, inum |-> e.inum]]
  /\ size' = IF size < e.off + 1 THEN e.off + 1 ELSE size

\* dirlookup(dp, name): dir_init, then a lookup that changes nothing.
DirLookup(name) ==
  /\ ~Initialised
  /\ DirInit
  /\ UNCHANGED <<file, size, nlink, dpNlink>>

\* Mutation: the new entry goes one slot past dir_offset.
LinkEntryPastEnd(inum) == [inum |-> inum, off |-> OffsetNow + 1]

\* dir_entry_info de_info(inum, dp->dir_offset).
LinkEntry(inum) == [inum |-> inum, off |-> OffsetNow]

\* dirlink(dp, name, inum, inc_link, trans).  The `;` after the if at
\* fs.cc:1009 ends the if, so the `return -1` runs whatever insert
\* returned: the entry is in the index, and nothing else happens.
DirLink(name, inum) ==
  LET idx == IndexNow IN
  /\ OffsetNow < MaxSlots
  /\ hasDir' = TRUE
  /\ dirOffset' = OffsetNow
  /\ dir' = IF \E e \in idx : e[1] = name
              THEN idx
              ELSE idx \cup {<<name, LinkEntry(inum)>>}
  /\ UNCHANGED <<file, size, nlink, dpNlink>>

\* inode::unlink() of the target: --nlink_.
UnlinkTarget(inum) == nlink' = [nlink EXCEPT ![inum] = @ - 1]

\* Mutation: the entry flushed is the one looked up, inum not cleared.
TombstoneStale(e) == e

\* de_info.inum_ = 0: the entry dirunlink() puts back at the same offset.
Tombstone(e) == [inum |-> 0, off |-> e.off]

\* dirunlink(dp, name, inum, dec_link, trans): replace the entry by a
\* tombstone at the same offset, drop the link counts unless the name
\* is "..", flush the tombstone, then remove the name from the index.
DirUnlink(name, inum, decLink) ==
  LET idx == IndexNow
      e   == IF \E x \in idx : x[1] = name
               THEN (CHOOSE x \in idx : x[1] = name)[2] ELSE Absent
      tomb == Tombstone(e)
  IN
  /\ \E x \in idx : x[1] = name
  /\ IF name # DotDot
       THEN /\ nlink[inum] > MinLink
            /\ UnlinkTarget(inum)
            /\ decLink => dpNlink > MinLink
            /\ dpNlink' = IF decLink THEN dpNlink - 1 ELSE dpNlink
       ELSE UNCHANGED <<nlink, dpNlink>>
  /\ FlushEntry(name, tomb)
  /\ hasDir' = TRUE
  /\ dir' = {x \in idx : x[1] # name}
  /\ dirOffset' = OffsetNow

\* The in-memory inode of dp is reclaimed (onzero, then do_gc frees
\* dp->dir in ~inode) and a later iget loads a new one with dir == nullptr.
Reload ==
  /\ Initialised
  /\ hasDir' = FALSE
  /\ dir' = {}
  /\ UNCHANGED <<dirOffset, file, size, nlink, dpNlink>>

-----------------------------------------------------------------------------

\* A directory file as mkfs or an earlier boot left it: distinct names
\* in a prefix of the slots, a link count per inode equal to its entries.
LiveCount(f, i) == Cardinality({s \in DOMAIN f : f[s].inum = i /\ f[s].name # DotDot})

InitFiles ==
  {f \in [Slots -> Dirents] :
     /\ \A s \in Slots : (f[s].name = NoName) = (f[s].inum = 0)
     /\ \A s, t \in Slots : f[s].name = f[t].name /\ f[s].inum # 0 => s = t}

Init ==
  /\ hasDir = FALSE
  /\ dir = {}
  /\ dirOffset = 0
  /\ \E n \in 0..MaxSlots-1 :
       /\ file \in {f \in InitFiles : \A s \in Slots : s >= n => f[s] = Empty}
       /\ size = n
  /\ nlink = [i \in Inums |-> LiveCount(file, i)]
  /\ dpNlink = 2

Next ==
  \/ \E n \in AllNames : DirLookup(n)
  \/ \E n \in AllNames, i \in Inums : DirLink(n, i)
  \/ \E n \in AllNames, i \in Inums, d \in BOOLEAN :
       /\ \E x \in IndexNow : x[1] = n /\ x[2].inum = i
       /\ DirUnlink(n, i, d)
  \/ Reload

Spec == Init /\ [][Next]_vars

-----------------------------------------------------------------------------
(* Properties                                                              *)

TypeOK ==
  /\ hasDir \in BOOLEAN
  /\ dir \subseteq (AllNames \X Entries)
  /\ dirOffset \in 0..MaxSlots+DPB
  /\ file \in [Slots -> Dirents]
  /\ size \in 0..MaxSlots
  /\ nlink \in [Inums -> MinLink..MaxSlots]
  /\ dpNlink \in MinLink..2

\* Spec 4.4 and the index-entry invariant of spec 3: while dp->dir exists,
\* every live entry of the directory file is in the index with its inum
\* and offset, so that dirlookup() sees every name on disk, across any
\* sequence of dirunlink()s and reloads.
IndexCoversFile ==
  Initialised =>
    \A s \in Slots : file[s].inum # 0 =>
      <<file[s].name, [inum |-> file[s].inum, off |-> s]>> \in dir

\* Spec 3: dir_offset names the next insertion point, past every entry
\* of the file, so a new entry never overwrites one on disk.
OffsetPastEntries ==
  Initialised => \A s \in Slots : file[s].inum # 0 => s < dirOffset

\* Spec 4.4: dirlink() and dirunlink() keep an inode's nlink equal to
\* the number of names ("..", which is not counted, aside) that link it
\* in the directory file: the count that decides when it is freed.
LinkCountMatchesDisk ==
  \A i \in Inums : nlink[i] = LiveCount(file, i)

=============================================================================
