CONSTANTS
  t1 = t1  t2 = t2  t3 = t3
  None = None
  Threads <- MCThreads
  NCS = 2
SPECIFICATION FairSpec
INVARIANT TypeOK
INVARIANT SlotOwned
INVARIANT NoEarlyCompletion
PROPERTY RequestCompletes
