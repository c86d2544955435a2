SPECIFICATION Spec
CONSTANTS
  MaxGroups = 4
  MaxKeys = 6
  Plans <- LostWritePlans
INVARIANTS AdminKeyLives
CHECK_DEADLOCK FALSE
