----------------------------- MODULE MCBlockMap -----------------------------
(* Instances of BlockMap for TLC.  The configurations give one direct slot *)
(* and two entries per indirect block (seven logical blocks, so every     *)
(* stage of bmap() and itrunc() is reached), or one entry per indirect    *)
(* block with two-byte blocks to reach the end of the largest file.       *)
EXTENDS BlockMap
=============================================================================
