------------------------------- MODULE Namex -------------------------------
(***************************************************************************)
(* The path resolver of fs.cc: skipelem() and namex(), behind namei() and  *)
(* nameiparent().  A path is a sequence of characters, so the lexer's      *)
(* handling of slashes and of the DIRSIZ limit is modelled as the code     *)
(* does it.  The directory tree is a constant: dirlookup() is a lookup in  *)
(* a directory's index.  Every iteration of namex()'s loop is two steps,   *)
(* the call of skipelem() and the tests that follow it.                    *)
(***************************************************************************)
EXTENDS Integers, SequencesExt

CONSTANTS
  Chars,      \* the characters a path is made of, "/" among them
  DIRSIZ,     \* the longest name a directory entry holds
  MaxPath,    \* the longest path given to namex()
  Inodes,     \* the inums of the tree
  Root,       \* the_root
  Type,       \* Type[i]: "dir" or "file"
  Ents,       \* Ents[d][name]: the inum dirlookup() finds, 0 for none
  Null        \* sref<inode>(): no inode

Slash == "/"
Paths == BoundedSeq(Chars, MaxPath)
Dirs  == {i \in Inodes : Type[i] = "dir"}

VARIABLES
  path0,      \* the path namex() was called with (history)
  cwd,        \* the cwd argument
  parent,     \* nameiparent: namex()'s third argument
  path,       \* what is left of the path (*rpath)
  ip,         \* the current inode
  name,       \* the name buffer skipelem() copies into
  r,          \* skipelem()'s last result
  pc,         \* begin, skip, visit, done
  result      \* what namex() returns

vars == <<path0, cwd, parent, path, ip, name, r, pc, result>>

-----------------------------------------------------------------------------
(* skipelem(&path, name)                                                   *)

\* while (*path == '/') path++;
RECURSIVE SkipSlashes(_)
SkipSlashes(p) ==
  IF p # <<>> /\ Head(p) = Slash THEN SkipSlashes(Tail(p)) ELSE p

\* while (*path != '/' && *path != 0) path++; len = path - s;
RECURSIVE ElemLen(_)
ElemLen(p) ==
  IF p = <<>> \/ Head(p) = Slash THEN 0 ELSE 1 + ElemLen(Tail(p))

\* Mutation: a name one longer than DIRSIZ is accepted.
TooLongPastDirsiz(len) == len > DIRSIZ + 1

\* Mutation: a name of exactly DIRSIZ characters is refused.
TooLongAtDirsiz(len) == len >= DIRSIZ

\* if (len > DIRSIZ) return -1;
TooLong(len) == len > DIRSIZ

\* The result of skipelem(): r, the name copied (unchanged unless r = 1)
\* and the new *rpath (unchanged unless r = 1).
Skipelem(p, nm) ==
  LET q   == SkipSlashes(p)
      len == ElemLen(q)
  IN  IF q = <<>> THEN [r |-> 0, name |-> nm, rest |-> p]
      ELSE IF TooLong(len) THEN [r |-> -1, name |-> nm, rest |-> p]
      ELSE [r |-> 1, name |-> SubSeq(q, 1, len),
            rest |-> SkipSlashes(SubSeq(q, len + 1, Len(q)))]

\* dirlookup(dp, name): the entry's inum, or a null sref when it is 0.
Dirlookup(d, nm) ==
  IF nm \in DOMAIN Ents[d] /\ Ents[d][nm] # 0 THEN Ents[d][nm] ELSE Null

-----------------------------------------------------------------------------
(* namex(cwd, path, nameiparent, name)                                    *)

\* if (*path == '/') ip = the_root; else ip = cwd;
Begin ==
  /\ pc = "begin"
  /\ ip' = IF path # <<>> /\ Head(path) = Slash THEN Root ELSE cwd
  /\ pc' = "skip"
  /\ UNCHANGED <<path0, cwd, parent, path, name, r, result>>

\* while ((r = skipelem(&path, name)) == 1): the call, then either the
\* loop body or the tests after the loop.
Skip ==
  LET s == Skipelem(path, name) IN
  /\ pc = "skip"
  /\ r' = s.r /\ name' = s.name /\ path' = s.rest
  /\ pc' = "visit"
  /\ UNCHANGED <<path0, cwd, parent, ip, result>>

\* The loop body: a non-directory ends the walk, nameiparent stops at the
\* last name, and otherwise dirlookup() gives the next inode.
StopOrLookup(d, rest) ==
  IF Type[d] # "dir" THEN [stop |-> TRUE, res |-> Null]
  ELSE IF parent /\ rest = <<>> THEN [stop |-> TRUE, res |-> d]
  ELSE [stop |-> FALSE, res |-> Null]

Visit ==
  /\ pc = "visit" /\ r = 1
  /\ LET v == StopOrLookup(ip, path) IN
       IF ~v.stop /\ Dirlookup(ip, name) # Null
         THEN /\ ip' = Dirlookup(ip, name)
              /\ pc' = "skip"
              /\ UNCHANGED result
         ELSE /\ result' = v.res
              /\ pc' = "done"
              /\ UNCHANGED ip
  /\ UNCHANGED <<path0, cwd, parent, path, name, r>>

\* if (r == -1 || nameiparent) return sref<inode>(); return ip;
Exit ==
  /\ pc = "visit" /\ r # 1
  /\ result' = IF r = -1 \/ parent THEN Null ELSE ip
  /\ pc' = "done"
  /\ UNCHANGED <<path0, cwd, parent, path, ip, name, r>>

\* namei(cwd, path) or nameiparent(cwd, path, name), for any path of at
\* most MaxPath characters and any directory as the cwd.
Init ==
  /\ path0 \in Paths
  /\ cwd \in Dirs
  /\ parent \in BOOLEAN
  /\ path = path0
  /\ ip = Null /\ name = <<>> /\ r = 0
  /\ pc = "begin" /\ result = Null

Next == Begin \/ Skip \/ Visit \/ Exit

Spec == Init /\ [][Next]_vars

-----------------------------------------------------------------------------
(* The resolution spec 4.5 describes, stated on whole components.         *)

\* The names of a path: its maximal runs of characters other than "/".
Components(p) ==
  LET starts == {i \in 1..Len(p) :
                   p[i] # Slash /\ (i = 1 \/ p[i - 1] = Slash)}
      end(i)  == CHOOSE j \in i..Len(p) :
                   /\ \A k \in i..j : p[k] # Slash
                   /\ (j = Len(p) \/ p[j + 1] = Slash)
      ss      == SetToSortSeq(starts, <)
  IN  [k \in 1..Len(ss) |-> SubSeq(p, ss[k], end(ss[k]))]

\* Follow the names from d, requiring a directory at each step.
RECURSIVE Walk(_, _)
Walk(d, cs) ==
  IF cs = <<>> THEN d
  ELSE IF Type[d] # "dir" \/ Dirlookup(d, Head(cs)) = Null THEN Null
  ELSE Walk(Dirlookup(d, Head(cs)), Tail(cs))

\* namei: the inode the names lead to; nameiparent: the directory that
\* holds the last name.  A name longer than DIRSIZ fails either.
Resolution(p, c, par) ==
  LET cs    == Components(p)
      start == IF p # <<>> /\ Head(p) = Slash THEN Root ELSE c
      d     == Walk(start, Front(cs))
  IN  IF \E k \in DOMAIN cs : Len(cs[k]) > DIRSIZ THEN Null
      ELSE IF ~par THEN Walk(start, cs)
      ELSE IF cs = <<>> \/ d = Null THEN Null
      ELSE IF Type[d] # "dir" THEN Null
      ELSE d

-----------------------------------------------------------------------------
(* Properties                                                              *)

TypeOK ==
  /\ path0 \in Paths /\ path \in Paths /\ cwd \in Dirs
  /\ parent \in BOOLEAN
  /\ ip \in Inodes \cup {Null} /\ result \in Inodes \cup {Null}
  /\ name \in BoundedSeq(Chars \ {Slash}, DIRSIZ)
  /\ r \in {-1, 0, 1}
  /\ pc \in {"begin", "skip", "visit", "done"}

\* namex(), walking the path one character at a time through skipelem(),
\* returns what resolving its names one by one gives: runs of slashes,
\* leading and trailing ones included, separate nothing; a name of
\* exactly DIRSIZ characters is found and a longer one fails; every name
\* but nameiparent's last must be a directory's entry.  When
\* nameiparent() returns a directory, the name buffer holds the last name
\* of the path, the one its caller then creates or removes there.
ResolvesByComponents ==
  pc = "done" =>
    /\ result = Resolution(path0, cwd, parent)
    /\ (parent /\ result # Null) => name = Last(Components(path0))

=============================================================================
