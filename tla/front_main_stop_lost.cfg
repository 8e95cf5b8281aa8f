\* A stop signal that comes while main reloads or restarts.
SPECIFICATION FairSpec
CONSTANTS
  N = 2
  ThreadCounts = {1}
  MaxSignals = 2
CHECK_DEADLOCK FALSE
PROPERTIES StopStopsAll
