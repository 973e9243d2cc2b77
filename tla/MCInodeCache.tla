---------------------------- MODULE MCInodeCache ----------------------------
EXTENDS InodeCache, TLC

CONSTANTS t1, t2, o1, o2, o3, i1

MCThreads == {t1, t2}
MCObjs    == {o1, o2, o3}
MCInums   == {i1}

Symm == Permutations(MCThreads) \cup Permutations(MCObjs)
=============================================================================
