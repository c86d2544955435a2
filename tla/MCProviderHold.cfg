SPECIFICATION FairSpec
CONSTANTS
  Workers = {b1, b2}
  Threshold = 2
  BaseCooldown = 1
  DefaultCap = 2
  ConfiguredCap = 2
  MaxTime = 4
  Grace = 2
  MaxTurns = 2
  MaxEvents = 1
INVARIANTS TypeOK
PROPERTIES DrivesBreaker OutageDatedOnce GraceEnds FleetRecovers
