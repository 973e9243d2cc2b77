------------------------------ MODULE MCNamex ------------------------------
(* A tree of two directories and a file: the root holds ".", "..", "a"  *)
(* (a directory) and a tombstone for "aa"; "a" holds ".", ".." and "a"  *)
(* (a file).  Paths of up to five characters over "/", "a" and ".", with *)
(* DIRSIZ = 2, so that ".." and "aa" fill a name and "aaa" is too long.  *)
EXTENDS Namex

MCType == 1 :> "dir" @@ 2 :> "dir" @@ 3 :> "file"

MCEnts ==
  (1 :> (<<".">> :> 1 @@ <<".", ".">> :> 1 @@ <<"a">> :> 2
         @@ <<"a", "a">> :> 0)) @@
  (2 :> (<<".">> :> 2 @@ <<".", ".">> :> 1 @@ <<"a">> :> 3)) @@
  (3 :> << >>)
=============================================================================
