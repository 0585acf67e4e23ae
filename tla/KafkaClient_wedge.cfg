\* A failed write or read leaves Close waiting for ever.
SPECIFICATION FairSpec
CONSTANTS
  p1 = p1
  p2 = p2
  Procs = {p1, p2}
  Free = Free
  CorrMod = 2
  MaxCalls = 2
  MaxConns = 1
  MaxBreaks = 1
CHECK_DEADLOCK FALSE
PROPERTY CloseCompletes
