SPECIFICATION FairSpec
CONSTANTS
  Admin = Admin
  NoGroup = NoGroup
  MaxCrs = 3
  NameOf <- TwoNames
  InitialGrants <- MutualGrants
  MaxGroups = 2
  Plans <- GrantPlans
INVARIANTS TypeOK
PROPERTIES KeepsPromise NoSpuriousRevocation GrantsConverge
CHECK_DEADLOCK FALSE
