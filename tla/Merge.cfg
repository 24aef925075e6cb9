SPECIFICATION Spec
CHECK_DEADLOCK FALSE
CONSTANTS
  alice = alice
  bob = bob
  Client = {alice, bob}
  Rank <- MCRank
  Elem = {x1, x2, x3}
  Creator = alice
  Conditions <- MCConditions
  MaxEdits = 4
  MaxMerges = 3
INVARIANTS TypeOK MergesSeeAncestors RecordIsItsHistory NoMergeStorm NoAdditionLost
SYMMETRY ElemSymmetry
