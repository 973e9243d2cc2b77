---------------------------- MODULE MCDirectory ----------------------------
(* Two names besides "..", two inodes, blocks of two dirent slots and a    *)
(* directory file of up to five slots: enough for a file of two blocks,    *)
(* tombstones, a reload that rounds dir_offset up to a block boundary, and *)
(* an entry that moves a link count below what the file says.            *)
EXTENDS Directory

CONSTANTS n1, n2

MCNames == {n1, n2}
MCMinLink == -1
=============================================================================
