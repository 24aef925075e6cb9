SPECIFICATION FairSpec
ACTION_CONSTRAINT StaysInScenario
CONSTANTS
  alice = alice  bob = bob  m1 = m1  m2 = m2
  Client = {alice}
  Commit = {m1, m2}
  Author <- MCAliceOnly
  FirstMembers = {alice}
  CommitSubmitRetry = 3
  Server = Server
  NoFilter = NoFilter
  NoView = NoView
  MaxTimeout = 1
  MaxCrash = 1
  MaxReload = 1
  MaxUpgrade = 1
  MaxRevoke = 0
CHECK_DEADLOCK FALSE
INVARIANTS Provenance RetryBudget
PROPERTIES Converges BackedUpIsReplicated
