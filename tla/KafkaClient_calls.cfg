\* Two goroutines, a connection that can break, correlation ids that wrap.
SPECIFICATION FairSpec
CONSTANTS
  p1 = p1
  p2 = p2
  Procs = {p1, p2}
  Free = Free
  CorrMod = 2
  MaxCalls = 4
  MaxConns = 2
  MaxBreaks = 1
CHECK_DEADLOCK FALSE
INVARIANTS
  LockStep
  OwnReply
PROPERTIES
  ImplementsRecordLog
  ReturnsUnlessWedged
