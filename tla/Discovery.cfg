\* One call at a time against planes that change once meanwhile.
SPECIFICATION Spec
CONSTANTS
  Catalogs <- MCCatalogs
  Ids = {"", "a"}
  Acts = {"act", "tool.t"}
  Contexts <- MCContexts
  MaxChanges = 1
INVARIANTS
  SourceIsTruthful
  FallsBackOnFailure
  OnlyDenialBlocks
CHECK_DEADLOCK FALSE
