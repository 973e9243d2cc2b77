\* namei() and nameiparent() on every path of up to five characters.
CONSTANTS
  Chars = {"/", "a", "."}
  DIRSIZ = 2
  MaxPath = 5
  Inodes = {1, 2, 3}
  Root = 1
  Type <- MCType
  Ents <- MCEnts
  Null = Null
SPECIFICATION Spec
\* namex() returns: the resolution ends.
CHECK_DEADLOCK FALSE
INVARIANT TypeOK
INVARIANT ResolvesByComponents
