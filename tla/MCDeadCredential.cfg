SPECIFICATION Spec
CONSTANTS
  MaxGroups = 3
  MaxKeys = 4
  MaxRotations = 1
  EnableWipeOnDelete = FALSE
  Grace = TRUE
  Plans <- DeadCredentialPlans
INVARIANTS ReadyMeansServed
