SPECIFICATION FairSpec
CONSTANTS
  MaxGroups = 4
  MaxKeys = 4
  MaxRotations = 2
  EnableWipeOnDelete = TRUE
  Grace = TRUE
  Plans <- ReconcilerPlans
INVARIANTS TypeOK ReadyMeansServed KeyedGroupAttributed FinalizedClean
PROPERTIES Converges DataGuarded DeletionCompletes RecreationAuthorised VanishReported ForeignUntouched
CHECK_DEADLOCK FALSE
