------------------------------ MODULE MCIalloc ------------------------------
(* Two CPUs and three allocatable inums, some of them in use at the start:  *)
(* both CPUs race on the same candidates from the same last_inode, and a   *)
(* scan that starts high must wrap to find a free inum below its start.   *)
EXTENDS Ialloc

CONSTANTS c1, c2

MCCPUs == {c1, c2}
=============================================================================
