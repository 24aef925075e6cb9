SPECIFICATION FairSpec
CHECK_DEADLOCK FALSE
CONSTANTS
  alice = alice
  bob = bob
  Client = {alice, bob}
  Rank <- MCRank
  Elem = {x1, x2}
  Creator = alice
  Conditions <- Ideal
  MaxEdits = 4
  MaxMerges = 9
PROPERTY Converges
