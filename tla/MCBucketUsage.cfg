SPECIFICATION FairSpec
CONSTANTS
  MaxSize = 2
  MaxObjects = 1
  DefaultEnabled = TRUE
  Plans <- UsagePlans
INVARIANTS TypeOK
PROPERTIES WritersApart UsageConverges
CHECK_DEADLOCK FALSE
