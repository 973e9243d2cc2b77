------------------------------ MODULE AhciPort ------------------------------
(***************************************************************************)
(* Command-slot management of one AHCI port (ahci.cc): threads allocate a  *)
(* command slot under cmdslot_alloc_lock (sleeping on cmdslot_alloc_cv     *)
(* when none is free), fill the command table outside the lock, then mark  *)
(* the slot issued and set its PxCI bit.  The device clears PxCI when the  *)
(* command completes and raises the port interrupt; handle_port_irq()      *)
(* notifies the completion of every issued slot whose PxCI bit is clear,   *)
(* frees the slot and wakes the allocators.  The critical sections of      *)
(* alloc_cmdslot() and issue() are one action each; handle_port_irq()      *)
(* holds cmdslot_alloc_lock across its clearing of PxIS and its loop over  *)
(* the slots, one step per slot, while the device goes on completing       *)
(* commands.  The command's data and the FIS are left out.  These commands are not NCQ commands, so PxSACT stays 0.      *)
(***************************************************************************)
EXTENDS Naturals, FiniteSets

CONSTANTS
  Threads,    \* callers of readv/writev/flush (one request at a time each)
  NCS,        \* hba->ncs: command slots per port
  None        \* no thread

Slots == 0..NCS-1

VARIABLES
  dc,         \* cmdslot_dc[slot]: the completion (its thread) or None
  issued,     \* cmds_issued, as a set of slots
  ci,         \* the port's PxCI register, as a set of slots
  portIs,     \* the port's interrupt status is non-zero
  lastSlot,   \* last_cmdslot
  pc,         \* per thread: idle, alloc, sleep, fill, wait
  slot,       \* per thread: the slot alloc_cmdslot() returned
  done,       \* per thread: dc->done()
  devDone,    \* per thread: the device has completed its command (history)
  irq,        \* who runs handle_port_irq() (holding the lock), or None
  irqSlot     \* the slot its loop looks at next

vars == <<dc, issued, ci, portIs, lastSlot, pc, slot, done, devDone, irq,
          irqSlot>>

\* cmdslot_alloc_lock is free: handle_port_irq() holds it throughout.
LockFree == irq = None

\* readv/writev/flush: a new disk_completion, then alloc_cmdslot().
Start(t) ==
  /\ pc[t] = "idle"
  /\ pc' = [pc EXCEPT ![t] = "alloc"]
  /\ done' = [done EXCEPT ![t] = FALSE]
  /\ devDone' = [devDone EXCEPT ![t] = FALSE]
  /\ UNCHANGED <<dc, issued, ci, portIs, lastSlot, slot, irq, irqSlot>>

\* Mutation: a slot is free once its command is off the device, even if
\* another thread holds it and has not issued yet.
SlotFreeIgnoringDc(s) == s \notin ci

\* !cmdslot_dc[cmdslot] && !(preg->ci & bit) && !(preg->sact & bit)
SlotFree(s) == dc[s] = None /\ s \notin ci

\* The scan from (last_cmdslot + 1) % ncs up to ncs - 1, then once more
\* from 0: the first free slot in that order.
FirstFree ==
  LET start == (lastSlot + 1) % NCS
      free  == {s \in Slots : SlotFree(s)}
      high  == {s \in free : s >= start}
      low   == free
      first(S) == CHOOSE s \in S : \A u \in S : s <= u
  IN IF high # {} THEN first(high) ELSE first(low)

\* Mutation: the hint records the slot after the one taken.
LastCmdslotNext(s) == s + 1

\* last_cmdslot = cmdslot: the next scan starts after the slot taken.
LastCmdslot(s) == s

\* alloc_cmdslot(dc): take the first free slot, or sleep on the cv
\* (releasing the lock) and scan again once woken.
AllocCmdslot(t) ==
  /\ pc[t] = "alloc" /\ LockFree
  /\ IF \E s \in Slots : SlotFree(s)
       THEN /\ dc' = [dc EXCEPT ![FirstFree] = t]
            /\ lastSlot' = LastCmdslot(FirstFree)
            /\ slot' = [slot EXCEPT ![t] = FirstFree]
            /\ pc' = [pc EXCEPT ![t] = "fill"]
       ELSE /\ pc' = [pc EXCEPT ![t] = "sleep"]
            /\ UNCHANGED <<dc, lastSlot, slot>>
  /\ UNCHANGED <<issued, ci, portIs, done, devDone, irq, irqSlot>>

\* issue(): fill_prd_v and fill_fis outside the lock, then under it
\* cmds_issued |= bit; preg->ci = bit.
Issue(t) ==
  LET s == slot[t] IN
  /\ pc[t] = "fill" /\ LockFree
  /\ issued' = issued \cup {s}
  /\ ci' = ci \cup {s}
  /\ pc' = [pc EXCEPT ![t] = "wait"]
  /\ UNCHANGED <<dc, portIs, lastSlot, slot, done, devDone, irq, irqSlot>>

\* The device finishes the command in slot s: it clears the PxCI bit and
\* sets the port's interrupt status.
Complete(s) ==
  /\ s \in ci
  /\ ci' = ci \ {s}
  /\ portIs' = TRUE
  /\ devDone' = [devDone EXCEPT ![dc[s]] = TRUE]
  /\ UNCHANGED <<dc, issued, lastSlot, pc, slot, done, irq, irqSlot>>

\* Mutation: the handler ignores cmds_issued.
FinishedIgnoringIssued(s) == dc[s] # None /\ s \notin ci

\* cmdslot_dc[cmdslot] && (cmds_issued & bit) && !(preg->ci & bit)
Finished(s) == dc[s] # None /\ s \in issued /\ s \notin ci

\* Mutation: PxIS is cleared after the loop instead of before it.
ClearsIsOnExit == FALSE

\* preg->is = ~0 comes first, before the loop.
ClearsIsOnEntry == TRUE

\* ahci_hba::handle_irq(): the port's bit in the HBA's interrupt status,
\* which the HBA keeps set while the port's PxIS is non-zero.
HbaIrq == portIs

\* blocking_wait(dc): a thread that is not RUNNING (early in boot) polls
\* handle_port_irq() until dc->done() instead of sleeping on dc.
Polls(t) == pc[t] = "wait" /\ ~done[t]

\* handle_port_irq(), from the HBA's interrupt or a polling thread: take
\* cmdslot_alloc_lock, then preg->is = ~0.
IrqBegin(who) ==
  /\ LockFree
  /\ \/ who = "hba" /\ HbaIrq
     \/ who \in Threads /\ Polls(who)
  /\ irq' = who /\ irqSlot' = 0
  /\ portIs' = IF ClearsIsOnEntry THEN FALSE ELSE portIs
  /\ UNCHANGED <<dc, issued, ci, lastSlot, pc, slot, done, devDone>>

\* One iteration of the loop: a finished slot's completion is notified,
\* the slot freed (dc.reset(), its cmds_issued bit cleared) and the
\* allocators woken (cmdslot_alloc_cv.wake_all()).
IrqScan ==
  LET s == irqSlot IN
  /\ irq # None /\ irqSlot < NCS
  /\ IF Finished(s)
       THEN /\ done' = [done EXCEPT ![dc[s]] = TRUE]
            /\ dc' = [dc EXCEPT ![s] = None]
            /\ issued' = issued \ {s}
            /\ pc' = [t \in Threads |-> IF pc[t] = "sleep" THEN "alloc" ELSE pc[t]]
       ELSE UNCHANGED <<done, dc, issued, pc>>
  /\ irqSlot' = irqSlot + 1
  /\ UNCHANGED <<ci, portIs, lastSlot, slot, devDone, irq>>

\* The loop ends; the lock is released.
IrqEnd ==
  /\ irq # None /\ irqSlot = NCS
  /\ irq' = None
  /\ portIs' = IF ClearsIsOnEntry THEN portIs ELSE FALSE
  /\ UNCHANGED <<dc, issued, ci, lastSlot, pc, slot, done, devDone, irqSlot>>

\* blocking_wait(dc): return once dc->done().
Finish(t) ==
  /\ pc[t] = "wait" /\ done[t] /\ irq # t
  /\ pc' = [pc EXCEPT ![t] = "idle"]
  /\ UNCHANGED <<dc, issued, ci, portIs, lastSlot, slot, done, devDone, irq,
                 irqSlot>>

Init ==
  /\ dc = [s \in Slots |-> None]
  /\ issued = {}
  /\ ci = {}
  /\ portIs = FALSE
  /\ lastSlot = NCS - 1          \* last_cmdslot(-1): the scan starts at 0
  /\ pc = [t \in Threads |-> "idle"]
  /\ slot = [t \in Threads |-> 0]
  /\ done = [t \in Threads |-> FALSE]
  /\ devDone = [t \in Threads |-> FALSE]
  /\ irq = None /\ irqSlot = 0

Next ==
  \/ \E t \in Threads :
       Start(t) \/ AllocCmdslot(t) \/ Issue(t) \/ IrqBegin(t) \/ Finish(t)
  \/ \E s \in Slots : Complete(s)
  \/ IrqBegin("hba") \/ IrqScan \/ IrqEnd

Spec == Init /\ [][Next]_vars

\* The device completes what it is given and a handler runs to its end.
\* cmdslot_alloc_lock is a spinlock: a thread spinning on it (to allocate
\* or issue) or the HBA's pending interrupt gets it if it is free
\* infinitely often, which is strong fairness of those steps.  A thread
\* whose request is done returns from blocking_wait().
Fairness ==
  /\ \A s \in Slots : WF_vars(Complete(s))
  /\ WF_vars(IrqScan \/ IrqEnd)
  /\ SF_vars(IrqBegin("hba"))
  /\ \A t \in Threads : SF_vars(Issue(t)) /\ SF_vars(AllocCmdslot(t))
                        /\ WF_vars(Finish(t))

FairSpec == Spec /\ Fairness

-----------------------------------------------------------------------------
(* Properties                                                              *)

TypeOK ==
  /\ dc \in [Slots -> Threads \cup {None}]
  /\ issued \subseteq Slots /\ ci \subseteq Slots
  /\ portIs \in BOOLEAN /\ lastSlot \in Slots
  /\ pc \in [Threads -> {"idle", "alloc", "sleep", "fill", "wait"}]
  /\ slot \in [Threads -> Slots]
  /\ done \in [Threads -> BOOLEAN] /\ devDone \in [Threads -> BOOLEAN]
  /\ irq \in Threads \cup {"hba", None} /\ irqSlot \in 0..NCS

\* A thread keeps the slot alloc_cmdslot() gave it until its completion
\* is notified: no other request is put in the slot meanwhile, whatever
\* the interrupts and other allocations do.
SlotOwned ==
  \A t \in Threads :
    (pc[t] \in {"fill", "wait"} /\ ~done[t]) => dc[slot[t]] = t

\* The handler notifies a completion only for a command the device has
\* completed: a slot allocated but not yet issued has PxCI clear too,
\* and the cmds_issued bit keeps an interrupt from retiring it.
NoEarlyCompletion ==
  \A t \in Threads : done[t] => devDone[t]

\* Every request that got a command slot is completed and returns from
\* blocking_wait().
RequestCompletes ==
  \A t \in Threads : pc[t] = "fill" ~> pc[t] = "idle"

=============================================================================
