\* Department events, webhooks and a replay on one stream.
SPECIFICATION Spec
CONSTANTS
  p1 = p1
  p2 = p2
  r1 = r1
  m1 = m1
  Procs = {p1, p2}
  Maps = {m1}
  NoMap = NoMap
  Contents <- MCContents
  Tenants = {""}
  LLMCalls <- MCLLMCalls
  MaxBegun = 2
  Readers = {r1}
  Ranges <- MCRanges
  DefaultLimit = 1
  MaxLimit = 2
  Hooks <- MCHooks
  Org = "acme"
  Installs = {""}
  Parsed <- MCParsed
  Seconds <- MCSeconds
  DefaultTimeout = 30
  Envs <- MCEnvs
SYMMETRY Symmetry
CHECK_DEADLOCK FALSE
INVARIANTS
  IdentityIsTraceable
  CrashNeedsSharedPayload
  
  
  
