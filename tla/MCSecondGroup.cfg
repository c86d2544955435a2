SPECIFICATION Spec
CONSTANTS
  MaxGroups = 4
  MaxKeys = 4
  MaxRotations = 1
  EnableWipeOnDelete = FALSE
  Grace = TRUE
  Plans <- SecondGroupPlans
INVARIANTS KeyedGroupAttributed
