CONSTANTS
  N = 3
  Width = 1
  MaxIter = 2
  MaxSteps = 3
SPECIFICATION FairSpec
\* The benchmark ends: once every worker has left thr(), no step remains.
CHECK_DEADLOCK FALSE
INVARIANT TypeOK
INVARIANT BarrierSeparatesPhases
INVARIANT ChannelWindow
PROPERTY WorkersFinish
