SPECIFICATION FairSpec
CONSTANTS
  Workers = {w1, w2}
  Threshold = 2
  BaseCooldown = 2
  DefaultCap = 7
  ConfiguredCap = 5
  MaxTime = 16
INVARIANTS TypeOK ScheduleCoherent
PROPERTIES ShutScheduleFixed EpisodeDatesOutage ProbeComesDue
