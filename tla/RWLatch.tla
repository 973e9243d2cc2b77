------------------------------- MODULE RWLatch -------------------------------
(***************************************************************************)
(* What an inode latch promises (spec 3 and 4.2): a set of latches, each    *)
(* held by any number of readers or by one writer.  A thread takes a latch  *)
(* in one mode and later lets it go.  ilock()/iunlock() and the creation    *)
(* lock of iget() in InodeCache implement it.                              *)
(***************************************************************************)
CONSTANTS Threads, Latches

VARIABLE mode   \* mode[l][t]: "none", "read" or "write"

Modes == {"none", "read", "write"}

Unheld(l, t) == \A u \in Threads \ {t} : mode[l][u] = "none"
NoWriter(l)  == \A u \in Threads : mode[l][u] # "write"

Acquire(t, l, m) ==
  /\ mode[l][t] = "none"
  /\ IF m = "write" THEN Unheld(l, t) ELSE NoWriter(l)
  /\ mode' = [mode EXCEPT ![l][t] = m]

Release(t, l) ==
  /\ mode[l][t] # "none"
  /\ mode' = [mode EXCEPT ![l][t] = "none"]

Init == mode = [l \in Latches |-> [t \in Threads |-> "none"]]

Next == \E t \in Threads, l \in Latches :
          \/ \E m \in {"read", "write"} : Acquire(t, l, m)
          \/ Release(t, l)

Spec == Init /\ [][Next]_mode

=============================================================================
