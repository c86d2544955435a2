SPECIFICATION FairSpec
CONSTANTS
  Contents = {old, new, torn}
  Malformed = {torn}
  None = None
  Initial = old
  CapIntervals = 5
  MaxChanges = 5
  MaxOutages = 1
INVARIANTS TypeOK BackoffCoherent AlarmStands
PROPERTIES GoodKeyApplied
