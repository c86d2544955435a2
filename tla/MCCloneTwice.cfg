SPECIFICATION FairSpec
CONSTANTS
  MaxFailures = 0
  MaxJobFailures = 0
  MaxExpiries = 0
  MaxPatches = 0
  Holds = {TRUE}
  MaxLags = 1
PROPERTIES CompletedTerminal
CHECK_DEADLOCK FALSE
