SPECIFICATION FairSpec
CONSTANTS
  MCAbsent = absent
  Absent = absent
  None = none
  Lists <- MCLists
  Keys <- MCKeys
  QueueSize = 2
  MaxPackets = 3
  MaxFaults = 1
INVARIANTS Reaches InOrder Accounted FlowsGone
PROPERTIES Handled
CHECK_DEADLOCK FALSE
