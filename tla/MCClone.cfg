SPECIFICATION FairSpec
CONSTANTS
  MaxFailures = 2
  MaxJobFailures = 1
  MaxExpiries = 1
  MaxPatches = 1
  Holds = {TRUE, FALSE}
  MaxLags = 1
INVARIANTS TypeOK HeldUntilCloned NoLeftovers
PROPERTIES CloneOnce CloneSettles
CHECK_DEADLOCK FALSE
