SPECIFICATION FairSpec
CONSTANTS
  MaxGroups = 4
  MaxKeys = 6
  Plans <- AdminPlans
INVARIANTS TypeOK SoleKey NotLockedOut
PROPERTIES Bootstraps
CHECK_DEADLOCK FALSE
