SPECIFICATION FairSpec
CHECK_DEADLOCK FALSE
CONSTANTS
  Key = {k1, k2}
  Depth = 2
  Value <- AllOrMost
  MaxChanges = 1
INVARIANTS TypeOK WorkIsScheduled NothingMissing NothingStale
PROPERTY ComesToRest
