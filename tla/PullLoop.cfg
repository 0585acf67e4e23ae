\* All settings, two cycles, one message in the stream at the start.
SPECIFICATION FairSpec
CONSTANTS
  MaxLoops = 2
  Batch = 2
  Backlog = 1
CHECK_DEADLOCK FALSE
INVARIANTS
  StrictZeroMeansDone
  NoDoublePublish
  
  LeftoverIsReported
PROPERTIES
  EveryRunExits
