----------------------------- MODULE MCAhciPort -----------------------------
(* Three threads on two command slots: allocators must sleep while both   *)
(* slots are taken, and an interrupt may arrive between another thread's  *)
(* allocation and its issue.                                             *)
EXTENDS AhciPort, TLC

CONSTANTS t1, t2, t3

MCThreads == {t1, t2, t3}
=============================================================================
