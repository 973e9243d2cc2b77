CONSTANTS
  c1 = c1  c2 = c2
  CPUs <- MCCPUs
  NInodes = 4
SPECIFICATION Spec
INVARIANT TypeOK
INVARIANT NoDoubleAllocation
PROPERTY FailsOnlyWhenFull
