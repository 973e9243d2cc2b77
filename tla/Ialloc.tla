------------------------------- MODULE Ialloc --------------------------------
(***************************************************************************)
(* The inode-number allocator of fs.cc: ialloc() and try_ialloc(), run by   *)
(* several CPUs at once.  Each CPU scans inums from last_inode[cpu] + 1,    *)
(* wraps once, and claims an inum with a compare-and-swap of the inode's    *)
(* type from 0 (free).  iget() returns the one cached inode of an inum, so  *)
(* the CAS of every CPU acts on the same type field.  Inodes are freed by   *)
(* MemFS's free_inode (not under src/), which sets the type back to 0.     *)
(***************************************************************************)
EXTENDS Naturals, FiniteSets

CONSTANTS
  CPUs,       \* the CPUs that call ialloc()
  NInodes     \* sb_root.ninodes; inum 0 is never allocated

ASSUME NInodes >= 2

Inos == 1..NInodes-1

VARIABLES
  type,       \* the type field of each inode: 0 is free
  lastInode,  \* last_inode[cpu]
  pc,         \* per CPU: "idle", "scan" (loop head), "cas" (read type 0)
  inum,       \* per CPU: the loop variable
  allScanned, \* per CPU: all_scanned
  result,     \* per CPU: the inum the last ialloc() returned, 0 if none
  owners,     \* per inum: the CPUs whose ialloc() returned it and hold it
  stillFree   \* per CPU: the inums free since its ialloc() began (history)

vars == <<type, lastInode, pc, inum, allScanned, result, owners, stillFree>>

\* ialloc(dev, type): the loop starts at (last_inode[myid()] + 1) % ninodes.
Begin(c) ==
  /\ pc[c] = "idle"
  /\ pc' = [pc EXCEPT ![c] = "scan"]
  /\ inum' = [inum EXCEPT ![c] = (lastInode[c] + 1) % NInodes]
  /\ allScanned' = [allScanned EXCEPT ![c] = FALSE]
  /\ stillFree' = [stillFree EXCEPT ![c] = {i \in Inos : type[i] = 0}]
  /\ UNCHANGED <<type, lastInode, result, owners>>

\* Mutation: the wrap restarts the scan at 2.
AfterWrapSkipOne == 2

\* inum = 0; continue;  -- the loop's inum++ makes the next candidate 1.
AfterWrap == 1

\* The loop's step after a candidate that was not taken: wrap once at
\* ninodes - 1, else inum++.
Advance(c) ==
  IF inum[c] = NInodes - 1 /\ ~allScanned[c]
    THEN /\ inum' = [inum EXCEPT ![c] = AfterWrap]
         /\ allScanned' = [allScanned EXCEPT ![c] = TRUE]
    ELSE /\ inum' = [inum EXCEPT ![c] = inum[c] + 1]
         /\ UNCHANGED allScanned

\* if (inum == 0) continue;  -- skipped without the wrap test.
SkipZero(c) ==
  /\ pc[c] = "scan" /\ inum[c] = 0
  /\ inum' = [inum EXCEPT ![c] = 1]
  /\ UNCHANGED <<type, lastInode, pc, allScanned, result, owners, stillFree>>

\* try_ialloc: iget(dev, inum), then `if (ip->type || ...)`.  A used
\* inode is passed over.
TryRead(c) ==
  /\ pc[c] = "scan" /\ inum[c] \in Inos
  /\ IF type[inum[c]] = 0
       THEN /\ pc' = [pc EXCEPT ![c] = "cas"]
            /\ UNCHANGED <<inum, allScanned>>
       ELSE /\ Advance(c)
            /\ UNCHANGED pc
  /\ UNCHANGED <<type, lastInode, result, owners, stillFree>>

\* Mutation: a plain store in place of cmpxch.
CasSucceedsStore(t) == TRUE

\* cmpxch(&ip->type, 0, type) succeeds iff the type is still 0.
CasSucceeds(t) == t = 0

\* Mutation: the hint records the next candidate, not the inum taken.
HintAfterNext(i) == i + 1

\* last_inode[myid()] = inum: where this CPU's next scan starts from.
Hint(i) == i

\* The cmpxch.  On success: ilock(ip, WRITELOCK), gen += 1, the
\* "not zeroed" check (which no allocation here can trip: a free inode
\* is clean), last_inode[myid()] = inum and return.  On failure the
\* scan goes on.
TryCas(c) ==
  LET i == inum[c] IN
  /\ pc[c] = "cas"
  /\ IF CasSucceeds(type[i])
       THEN /\ type' = [type EXCEPT ![i] = 1]
            /\ lastInode' = [lastInode EXCEPT ![c] = Hint(i)]
            /\ result' = [result EXCEPT ![c] = i]
            /\ owners' = [owners EXCEPT ![i] = @ \cup {c}]
            /\ stillFree' = [d \in CPUs |-> stillFree[d] \ {i}]
            /\ pc' = [pc EXCEPT ![c] = "idle"]
            /\ UNCHANGED <<inum, allScanned>>
       ELSE /\ Advance(c)
            /\ pc' = [pc EXCEPT ![c] = "scan"]
            /\ UNCHANGED <<type, lastInode, result, owners, stillFree>>

\* The loop ends at inum == ninodes: "ialloc: 0/%u inodes", no inode.
Exhausted(c) ==
  /\ pc[c] = "scan" /\ inum[c] >= NInodes
  /\ pc' = [pc EXCEPT ![c] = "idle"]
  /\ result' = [result EXCEPT ![c] = 0]
  /\ UNCHANGED <<type, lastInode, inum, allScanned, owners, stillFree>>

\* MemFS frees inode i once its last link and reference are gone: the
\* type goes back to 0 and i's owner no longer holds it.
FreeInode(i) ==
  /\ type[i] # 0
  /\ type' = [type EXCEPT ![i] = 0]
  /\ owners' = [owners EXCEPT ![i] = {}]
  /\ UNCHANGED <<lastInode, pc, inum, allScanned, result, stillFree>>

Init ==
  /\ type \in [Inos -> {0, 1}]
  /\ lastInode = [c \in CPUs |-> 0]
  /\ pc = [c \in CPUs |-> "idle"]
  /\ inum = [c \in CPUs |-> 0]
  /\ allScanned = [c \in CPUs |-> FALSE]
  /\ result = [c \in CPUs |-> 0]
  /\ owners = [i \in Inos |-> {}]
  /\ stillFree = [c \in CPUs |-> {}]

Next ==
  \/ \E c \in CPUs :
       \/ Begin(c) \/ SkipZero(c) \/ TryRead(c) \/ TryCas(c) \/ Exhausted(c)
  \/ \E i \in Inos : FreeInode(i)

Spec == Init /\ [][Next]_vars

-----------------------------------------------------------------------------
(* Properties                                                              *)

TypeOK ==
  /\ type \in [Inos -> {0, 1}]
  /\ lastInode \in [CPUs -> 0..NInodes-1]
  /\ pc \in [CPUs -> {"idle", "scan", "cas"}]
  /\ inum \in [CPUs -> 0..NInodes]
  /\ allScanned \in [CPUs -> BOOLEAN]
  /\ result \in [CPUs -> 0..NInodes-1]
  /\ owners \in [Inos -> SUBSET CPUs]
  /\ stillFree \in [CPUs -> SUBSET Inos]

\* Spec 4.2 and test 5: concurrent creators get distinct inums; no inum
\* is handed out twice, whichever CPUs race on its type.
NoDoubleAllocation ==
  \A i \in Inos : Cardinality(owners[i]) <= 1

\* Spec 4.2: the scan starts at last_inode + 1 and wraps once, so it
\* covers the whole inum space: an ialloc() that returns no inode never
\* does so while an inode that was free when it began is free still,
\* however the other CPUs' allocations and frees interleave with it.
FailsOnlyWhenFull ==
  [][\A c \in CPUs : Exhausted(c) => stillFree[c] = {}]_vars

=============================================================================
