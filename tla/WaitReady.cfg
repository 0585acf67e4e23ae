\* One call against a broker that flaps and a context that ends.
SPECIFICATION FairSpec
CONSTANT MaxAttempts = 3
CHECK_DEADLOCK FALSE
INVARIANTS
  SuccessIsFresh
  GivesUpOnlyWhenDone
PROPERTIES
  
  ReadyIsNoticed
  DoneReturns
