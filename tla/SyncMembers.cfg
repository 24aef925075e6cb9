SPECIFICATION Spec
ACTION_CONSTRAINT NoBackups
CONSTANTS
  alice = alice  bob = bob  m1 = m1  m2 = m2
  Client = {alice, bob}
  Commit = {m1, m2}
  Author <- MCAuthor
  FirstMembers = {alice}
  CommitSubmitRetry = 2
  Server = Server
  NoFilter = NoFilter
  NoView = NoView
  MaxTimeout = 0
  MaxCrash = 0
  MaxReload = 0
  MaxUpgrade = 0
  MaxRevoke = 1
CHECK_DEADLOCK FALSE
INVARIANTS TypeOK Provenance ReadWhileMember
PROPERTIES OpenedIsComplete
