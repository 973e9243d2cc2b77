CONSTANTS
  t1 = t1  t2 = t2  o1 = o1  o2 = o2  o3 = o3  i1 = i1
  NoObj = NoObj
  Threads <- MCThreads
  Objs <- MCObjs
  Inums <- MCInums
  MaxLink = 1
SPECIFICATION FairSpec
INVARIANT TypeOK
INVARIANT RefCountExact
 
PROPERTY LatchRefinement
