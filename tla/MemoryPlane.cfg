\* One call of any kind, with lost, late and misleading answers.
SPECIFICATION FairSpec
CONSTANTS
  k1 = k1
  k2 = k2
  Calls = {k1}
  Uses = {"publish", "recall", "ingest", "dual", "read"}
CHECK_DEADLOCK FALSE
INVARIANTS
  ErrorWritesNothing
  
  TwiceOnlyIfOpen
PROPERTIES
  ImplementsTwoStores
  EveryCallReturns
