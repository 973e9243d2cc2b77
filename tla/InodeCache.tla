----------------------------- MODULE InodeCache -----------------------------
(***************************************************************************)
(* The in-memory inode cache of src/kernel/fs.cc: the hash table `ins`    *)
(* from inode number to inode object, iget() with its insert race,        *)
(* inode::init(), the busy/readbusy latch of ilock()/iunlock(), the       *)
(* reference count kept by sref, the nlink reference of link()/unlink(),  *)
(* the extra reference released by MemFS, and onzero(), which the thread *)
(* whose dec() brought the count to zero runs at once: it removes the     *)
(* object from the table and hands it to RCU (gc_delayed).                *)
(*                                                                         *)
(* Objects are the heap objects `new inode(dev, inum)`; a freed object    *)
(* may be handed out again by a later allocation.  A panic() halts the    *)
(* machine: `panicked` records which check fired.                        *)
(***************************************************************************)
EXTENDS Naturals, FiniteSets

CONSTANTS
  Threads,   \* kernel threads calling into the inode layer
  Inums,     \* inode numbers of the root device
  Objs,      \* heap addresses available for inode objects
  NoObj,     \* the null sref / absent hash entry
  MaxLink    \* bound on nlink_, so that link() is finite

ASSUME NoObj \notin Objs /\ MaxLink \in Nat \ {0}

VARIABLES
  ins,       \* the chainhash: inum -> object or NoObj
  objInum,   \* inode::inum of each object (const for the object's life)
  phase,     \* "unused" | "live" | "onzero" | "dead" (gc_delayed) | "freed"
  valid, busy, readbusy, nlink, \* the fields of struct inode
  ref,       \* the reference count of the object
  extra,     \* the post-unlink reference taken by init() is outstanding
  dnlink,    \* dinode.nlink on disk, per inum
  pc, target, held, lk,  \* per thread: program point, inum, sref, latch
  oz,        \* per thread: the object whose onzero() it is running
  inEpoch,   \* per thread: inside scoped_gc_epoch
  gcWait,    \* per object: threads whose epoch must end before do_gc
  panicked   \* "none" or the panic() that fired

objVars    == <<objInum, phase, valid, busy, readbusy, nlink, ref, extra>>
threadVars == <<pc, target, held, lk, oz, inEpoch>>
vars       == <<ins, objVars, dnlink, threadVars, gcWait, panicked>>

Phases   == {"unused", "live", "onzero", "dead", "freed"}
PCs      == {"idle", "lookup", "waitvalid", "insert", "init", "initunlock", "hold"}
Modes    == {"none", "read", "write"}
Panics   == {"none", "iget_nomem", "onzero_busy", "onzero_invalid", "ilock_invalid", "iunlock_unlocked"}

Running == panicked = "none"

Holders(o) == {t \in Threads : held[t] = o}

\* Leaving scoped_gc_epoch: every grace period waiting on t may end.
LeaveEpoch(t) ==
  /\ inEpoch' = [inEpoch EXCEPT ![t] = FALSE]
  /\ gcWait' = [o \in Objs |-> gcWait[o] \ {t}]

\* referenced::dec() by thread t: reaching zero calls onzero() in t.
DecRef(t, o) ==
  /\ ref' = [ref EXCEPT ![o] = @ - 1]
  /\ oz' = [oz EXCEPT ![t] = IF ref[o] = 1 THEN o ELSE NoObj]

-----------------------------------------------------------------------------
(* iget(dev, inum), fs.cc:355-395, the caller holding a gc epoch.          *)

BeginIget(t, i) ==
  /\ Running /\ pc[t] = "idle"
  /\ pc' = [pc EXCEPT ![t] = "lookup"]
  /\ target' = [target EXCEPT ![t] = i]
  /\ inEpoch' = [inEpoch EXCEPT ![t] = TRUE]
  /\ UNCHANGED <<ins, objVars, dnlink, held, lk, oz, gcWait, panicked>>

\* ins->lookup hits: sref::newref, then wait for valid if needed.
IgetHit(t) ==
  LET o == ins[target[t]] IN
  /\ Running /\ pc[t] = "lookup" /\ o # NoObj
  /\ ref' = [ref EXCEPT ![o] = @ + 1]
  /\ held' = [held EXCEPT ![t] = o]
  /\ IF valid[o]
       THEN pc' = [pc EXCEPT ![t] = "hold"] /\ LeaveEpoch(t)
       ELSE pc' = [pc EXCEPT ![t] = "waitvalid"] /\ UNCHANGED <<inEpoch, gcWait>>
  /\ UNCHANGED <<ins, objInum, phase, valid, busy, readbusy, nlink, extra,
                 dnlink, target, lk, oz, panicked>>

ValidWakes(o) == valid[o]

\* while (!ip->valid) ip->cv.sleep(&ip->lock);
IgetWait(t) ==
  /\ Running /\ pc[t] = "waitvalid" /\ ValidWakes(held[t])
  /\ pc' = [pc EXCEPT ![t] = "hold"]
  /\ LeaveEpoch(t)
  /\ UNCHANGED <<ins, objVars, dnlink, target, held, lk, oz, panicked>>

\* Addresses the allocator may return: not in use by anyone.
FreeObjs ==
  {o \in Objs : phase[o] \in {"unused", "freed"} /\ Holders(o) = {}}

\* ins->lookup misses: inode::alloc, then busy = true; readbusy = 1.
\* An allocation failure is the panic("iget: should throw_bad_alloc()").
IgetMiss(t) ==
  /\ Running /\ pc[t] = "lookup" /\ ins[target[t]] = NoObj
  /\ IF FreeObjs = {}
       THEN panicked' = "iget_nomem" /\ UNCHANGED <<objVars, held, pc>>
       ELSE /\ \E o \in FreeObjs :
                 /\ objInum' = [objInum EXCEPT ![o] = target[t]]
                 /\ phase' = [phase EXCEPT ![o] = "live"]
                 /\ valid' = [valid EXCEPT ![o] = FALSE]
                 /\ busy' = [busy EXCEPT ![o] = TRUE]
                 /\ readbusy' = [readbusy EXCEPT ![o] = 1]
                 /\ nlink' = [nlink EXCEPT ![o] = 0]
                 /\ ref' = [ref EXCEPT ![o] = 1]
                 /\ extra' = [extra EXCEPT ![o] = FALSE]
                 /\ held' = [held EXCEPT ![t] = o]
            /\ pc' = [pc EXCEPT ![t] = "insert"]
            /\ UNCHANGED panicked
  /\ UNCHANGED <<ins, dnlink, target, lk, oz, inEpoch, gcWait>>

\* ins->insert; on failure iunlock(ip) and `goto retry`, which destroys
\* the sref and so drops the only reference to the private object.
IgetInsert(t) ==
  LET o == held[t]
      i == objInum[o]
  IN
  /\ Running /\ pc[t] = "insert"
  /\ IF ins[i] = NoObj
       THEN /\ ins' = [ins EXCEPT ![i] = o]
            /\ pc' = [pc EXCEPT ![t] = "init"]
            /\ UNCHANGED <<busy, readbusy, ref, held, oz>>
       ELSE /\ readbusy' = [readbusy EXCEPT ![o] = @ - 1]
            /\ busy' = [busy EXCEPT ![o] = FALSE]
            /\ DecRef(t, o)
            /\ held' = [held EXCEPT ![t] = NoObj]
            /\ pc' = [pc EXCEPT ![t] = "lookup"]
            /\ UNCHANGED ins
  /\ UNCHANGED <<objInum, phase, valid, nlink, extra, dnlink, target, lk,
                 inEpoch, gcWait, panicked>>

\* valid.store(true): the publication iget() waiters sleep on.
MarkValid(o) == valid' = [valid EXCEPT ![o] = TRUE]

\* inode::init(): load the dinode, take the nlink and post-unlink
\* references, then valid.store(true).
IgetInit(t) ==
  LET o == held[t]
      n == dnlink[objInum[o]]
  IN
  /\ Running /\ pc[t] = "init"
  /\ nlink' = [nlink EXCEPT ![o] = n]
  /\ ref' = [ref EXCEPT ![o] = @ + (IF n > 0 THEN 1 ELSE 0) + 1]
  /\ extra' = [extra EXCEPT ![o] = TRUE]
  /\ MarkValid(o)
  /\ pc' = [pc EXCEPT ![t] = "initunlock"]
  /\ UNCHANGED <<ins, objInum, phase, busy, readbusy, dnlink, target,
                 held, lk, oz, inEpoch, gcWait, panicked>>

\* The iunlock(ip) that ends iget() on the creating path.
IgetUnlock(t) ==
  LET o == held[t] IN
  /\ Running /\ pc[t] = "initunlock"
  /\ readbusy' = [readbusy EXCEPT ![o] = @ - 1]
  /\ busy' = [busy EXCEPT ![o] = FALSE]
  /\ pc' = [pc EXCEPT ![t] = "hold"]
  /\ LeaveEpoch(t)
  /\ UNCHANGED <<ins, objInum, phase, valid, nlink, ref, extra, dnlink,
                 target, held, lk, oz, panicked>>

-----------------------------------------------------------------------------
(* ilock(ip, lock_type), fs.cc:489-509.                                   *)

\* Mutation: a write ilock() that waits only for busy.
LatchFreeIgnoringReaders(o, mode) == ~busy[o]

\* The condition under which ilock() stops sleeping on ip->cv.
LatchFree(o, mode) ==
  IF mode = "write" THEN ~busy[o] /\ readbusy[o] = 0 ELSE ~busy[o]

Ilock(t, mode) ==
  LET o == held[t] IN
  /\ Running /\ pc[t] = "hold" /\ lk[t] = "none"
  /\ LatchFree(o, mode)
  /\ busy' = [busy EXCEPT ![o] = (mode = "write") \/ @]
  /\ readbusy' = [readbusy EXCEPT ![o] = @ + 1]
  /\ lk' = [lk EXCEPT ![t] = mode]
  /\ panicked' = IF valid[o] THEN "none" ELSE "ilock_invalid"
  /\ UNCHANGED <<ins, objInum, phase, valid, nlink, ref, extra, dnlink,
                 pc, target, held, oz, inEpoch, gcWait>>

\* iunlock(ip), fs.cc:512-526: --readbusy; busy = false; wake_all.
Iunlock(t) ==
  LET o == held[t] IN
  /\ Running /\ pc[t] = "hold" /\ lk[t] # "none"
  /\ IF readbusy[o] = 0 /\ ~busy[o]
       THEN /\ panicked' = "iunlock_unlocked"
            /\ UNCHANGED <<busy, readbusy, lk>>
       ELSE /\ readbusy' = [readbusy EXCEPT ![o] = @ - 1]
            /\ busy' = [busy EXCEPT ![o] = FALSE]
            /\ lk' = [lk EXCEPT ![t] = "none"]
            /\ UNCHANGED panicked
  /\ UNCHANGED <<ins, objInum, phase, valid, nlink, ref, extra, dnlink,
                 pc, target, held, oz, inEpoch, gcWait>>

\* Mutation: `nlink_++ == 1`, the test made on the old count.
LinkRefGainPostIncrement(n) == IF n = 1 THEN 1 ELSE 0

\* `if (++nlink_ == 1) inc();`: the reference link() takes when nlink_
\* goes from n to n+1.
LinkRefGain(n) == IF n = 0 THEN 1 ELSE 0

\* inode::link(), fs.cc:441-447, caller holding the write latch.
Link(t) ==
  LET o == held[t] IN
  /\ Running /\ pc[t] = "hold" /\ lk[t] = "write" /\ nlink[o] < MaxLink
  /\ nlink' = [nlink EXCEPT ![o] = @ + 1]
  /\ ref' = [ref EXCEPT ![o] = @ + LinkRefGain(nlink[o])]
  /\ UNCHANGED <<ins, objInum, phase, valid, busy, readbusy, extra,
                 dnlink, threadVars, gcWait, panicked>>

\* Mutation: unlink() of an inode with no links left.
UnlinkableUnchecked(o) == TRUE

\* Callers unlink only a name that links the inode: nlink_ > 0.
Unlinkable(o) == nlink[o] > 0

\* inode::unlink(), fs.cc:452-458: the last link drops its reference
\* (never the last one: the caller holds an sref).
Unlink(t) ==
  LET o == held[t] IN
  /\ Running /\ pc[t] = "hold" /\ lk[t] = "write" /\ Unlinkable(o)
  /\ nlink' = [nlink EXCEPT ![o] = @ - 1]
  /\ IF nlink[o] = 1 THEN DecRef(t, o) ELSE UNCHANGED <<ref, oz>>
  /\ UNCHANGED <<ins, objInum, phase, valid, busy, readbusy, extra,
                 dnlink, pc, target, held, lk, inEpoch, gcWait, panicked>>

\* iupdate(ip, trans), fs.cc:320-338, restricted to the nlink field.
Iupdate(t) ==
  LET o == held[t] IN
  /\ Running /\ pc[t] = "hold" /\ lk[t] # "none"
  /\ dnlink' = [dnlink EXCEPT ![objInum[o]] = nlink[o]]
  /\ UNCHANGED <<ins, objVars, threadVars, gcWait, panicked>>

\* The caller's sref goes out of scope.
Put(t) ==
  /\ Running /\ pc[t] = "hold" /\ lk[t] = "none"
  /\ DecRef(t, held[t])
  /\ held' = [held EXCEPT ![t] = NoObj]
  /\ pc' = [pc EXCEPT ![t] = "idle"]
  /\ UNCHANGED <<ins, objInum, phase, valid, busy, readbusy, nlink, extra,
                 dnlink, target, lk, inEpoch, gcWait, panicked>>

\* mfs_interface::free_inode(), run by an idle thread t, drops the
\* reference init() took for it once the file has no links left.
FreeInode(t, o) ==
  /\ Running /\ pc[t] = "idle"
  /\ phase[o] = "live" /\ valid[o] /\ extra[o] /\ nlink[o] = 0
  /\ extra' = [extra EXCEPT ![o] = FALSE]
  /\ DecRef(t, o)
  /\ UNCHANGED <<ins, objInum, phase, valid, busy, readbusy, nlink, dnlink,
                 pc, target, held, lk, inEpoch, gcWait, panicked>>

-----------------------------------------------------------------------------
(* inode::onzero(), fs.cc:466-485, run by the thread whose dec() brought   *)
(* the count to zero; other threads run between its two halves.          *)

\* Under ip->lock: the busy and valid checks, then busy = true; readbusy++.
OnZero(t) ==
  LET o == oz[t] IN
  /\ Running /\ o # NoObj
  /\ CASE busy[o] \/ readbusy[o] > 0 ->
            panicked' = "onzero_busy" /\ UNCHANGED <<busy, readbusy, phase>>
       [] ~valid[o] ->
            panicked' = "onzero_invalid" /\ UNCHANGED <<busy, readbusy, phase>>
       [] OTHER ->
            /\ busy' = [busy EXCEPT ![o] = TRUE]
            /\ readbusy' = [readbusy EXCEPT ![o] = @ + 1]
            /\ phase' = [phase EXCEPT ![o] = "onzero"]
            /\ UNCHANGED panicked
  /\ UNCHANGED <<ins, objInum, valid, nlink, ref, extra, dnlink, threadVars,
                 gcWait>>

\* ins->remove(make_pair(dev, inum)) -- by key -- then gc_delayed(this).
OnZeroRemove(t) ==
  LET o == oz[t] IN
  /\ Running /\ o # NoObj /\ phase[o] = "onzero"
  /\ ins' = [ins EXCEPT ![objInum[o]] = NoObj]
  /\ phase' = [phase EXCEPT ![o] = "dead"]
  /\ gcWait' = [gcWait EXCEPT ![o] = {u \in Threads : inEpoch[u]}]
  /\ oz' = [oz EXCEPT ![t] = NoObj]
  /\ UNCHANGED <<objInum, valid, busy, readbusy, nlink, ref, extra,
                 dnlink, pc, target, held, lk, inEpoch, panicked>>

\* do_gc(): every epoch open at gc_delayed time has closed.
Reclaim(o) ==
  /\ Running /\ phase[o] = "dead" /\ gcWait[o] = {}
  /\ phase' = [phase EXCEPT ![o] = "freed"]
  /\ UNCHANGED <<ins, objInum, valid, busy, readbusy, nlink, ref, extra,
                 dnlink, threadVars, gcWait, panicked>>

\* After a panic the machine is halted.
Halted == ~Running /\ UNCHANGED vars

-----------------------------------------------------------------------------

Init ==
  /\ ins = [i \in Inums |-> NoObj]
  /\ objInum \in [Objs -> Inums]
  /\ phase = [o \in Objs |-> "unused"]
  /\ valid = [o \in Objs |-> FALSE]
  /\ busy = [o \in Objs |-> FALSE]
  /\ readbusy = [o \in Objs |-> 0]
  /\ nlink = [o \in Objs |-> 0]
  /\ ref = [o \in Objs |-> 0]
  /\ extra = [o \in Objs |-> FALSE]
  /\ dnlink = [i \in Inums |-> 1]
  /\ pc = [t \in Threads |-> "idle"]
  /\ target \in [Threads -> Inums]
  /\ held = [t \in Threads |-> NoObj]
  /\ lk = [t \in Threads |-> "none"]
  /\ oz = [t \in Threads |-> NoObj]
  /\ inEpoch = [t \in Threads |-> FALSE]
  /\ gcWait = [o \in Objs |-> {}]
  /\ panicked = "none"

\* A thread inside onzero() finishes it before anything else.
ThreadStep(t) ==
  \/ /\ oz[t] = NoObj
     /\ \/ \E i \in Inums : BeginIget(t, i)
        \/ IgetHit(t) \/ IgetMiss(t) \/ IgetWait(t) \/ IgetInsert(t)
        \/ IgetInit(t) \/ IgetUnlock(t)
        \/ \E m \in {"read", "write"} : Ilock(t, m)
        \/ Iunlock(t) \/ Link(t) \/ Unlink(t) \/ Iupdate(t) \/ Put(t)
        \/ \E o \in Objs : FreeInode(t, o)
  \/ OnZero(t) \/ OnZeroRemove(t)

Next ==
  \/ \E t \in Threads : ThreadStep(t)
  \/ \E o \in Objs : Reclaim(o)
  \/ Halted

Spec == Init /\ [][Next]_vars

\* The steps of iget() and of onzero(): a thread inside them keeps running
\* (they sleep only on valid, which IgetWait waits for).
IgetFairness ==
  \A t \in Threads :
    /\ WF_vars(IgetHit(t)) /\ WF_vars(IgetMiss(t)) /\ WF_vars(IgetInsert(t))
    /\ WF_vars(IgetInit(t)) /\ WF_vars(IgetUnlock(t)) /\ WF_vars(IgetWait(t))
    /\ WF_vars(OnZero(t)) /\ WF_vars(OnZeroRemove(t))

FairSpec == Spec /\ IgetFairness

-----------------------------------------------------------------------------
(* Properties                                                              *)

TypeOK ==
  /\ ins \in [Inums -> Objs \cup {NoObj}]
  /\ objInum \in [Objs -> Inums]
  /\ phase \in [Objs -> Phases]
  /\ valid \in [Objs -> BOOLEAN] /\ busy \in [Objs -> BOOLEAN]
  /\ readbusy \in [Objs -> Nat] /\ nlink \in [Objs -> 0..MaxLink]
  /\ ref \in [Objs -> Nat] /\ oz \in [Threads -> Objs \cup {NoObj}]
  /\ extra \in [Objs -> BOOLEAN] /\ dnlink \in [Inums -> 0..MaxLink]
  /\ pc \in [Threads -> PCs] /\ target \in [Threads -> Inums]
  /\ held \in [Threads -> Objs \cup {NoObj}] /\ lk \in [Threads -> Modes]
  /\ inEpoch \in [Threads -> BOOLEAN]
  /\ gcWait \in [Objs -> SUBSET Threads] /\ panicked \in Panics

\* Threads inside iget() that own the creation latch of o
\* (busy = true; readbusy = 1 set before ins->insert).
Creators(o) == {t \in Holders(o) : pc[t] \in {"insert", "init", "initunlock"}}

\* Spec 4.2 / 8: the count of a live inode is exactly its srefs, plus one
\* while nlink_ > 0 (link()/unlink()), plus the post-unlink reference of
\* init() until MemFS's free_inode() releases it.
RefCountExact ==
  \A o \in Objs : phase[o] = "live" =>
    ref[o] = Cardinality(Holders(o))
             + (IF valid[o] /\ nlink[o] > 0 THEN 1 ELSE 0)
             + (IF extra[o] THEN 1 ELSE 0)

\* fs.cc:23-25 and spec 3: (dev, inum) names one inode.  Two threads that
\* got an initialised inode for the same inum from iget() hold the same
\* object, so that link counts and iupdate() act on one copy.
InodeIdentity ==
  \A t1, t2 \in Threads :
    LET o1 == held[t1]
        o2 == held[t2]
    IN (/\ o1 # NoObj /\ o2 # NoObj /\ valid[o1] /\ valid[o2]
        /\ objInum[o1] = objInum[o2]) => o1 = o2

\* Spec 4.2: a racing iget() that loses the insert "retries
\* transparently", and reference counting "will clean up" its private
\* object (fs.cc:387-389): onzero()'s busy and valid checks never fire.
OnZeroNoPanic == panicked \notin {"onzero_busy", "onzero_invalid"}

LatchMode ==
  [o \in Objs |-> [t \in Threads |->
     IF phase[o] # "live" \/ held[t] # o THEN "none"
     ELSE IF t \in Creators(o) THEN "write"
     ELSE lk[t]]]

Latch == INSTANCE RWLatch WITH Latches <- Objs, mode <- LatchMode

\* ilock()/iunlock() and iget()'s creation lock implement the abstract
\* reader/writer latch: every step takes or lets go of a latch only as
\* RWLatch allows, or leaves every latch as it is.  So no ilock() is
\* granted beside a writer or the creating iget(), and no write ilock()
\* beside a reader, however iget, onzero and reclamation interleave.
LatchRefinement == Latch!Spec

=============================================================================
