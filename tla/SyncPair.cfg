SPECIFICATION FairSpec
CONSTANTS
  alice = alice  bob = bob  m1 = m1  m2 = m2
  Client = {alice, bob}
  Commit = {m1}
  Author <- MCOneAuthor
  FirstMembers = {alice, bob}
  CommitSubmitRetry = 3
  Server = Server
  NoFilter = NoFilter
  NoView = NoView
  MaxTimeout = 0
  MaxCrash = 1
  MaxReload = 0
  MaxUpgrade = 0
  MaxRevoke = 0
CHECK_DEADLOCK FALSE
INVARIANTS RetryBudget
PROPERTIES Replicates Converges
