SPECIFICATION FairSpec
CONSTANTS
  InPorts = {0, 2}
  EtherTypes = {2048, 2054}
  TunIds = {0, 7}
  Priorities = {0, 1, 4, 8}
  Absent = absent
  Stale = stale
INVARIANTS OnHeader DatagramRead ReadsAll
PROPERTIES ParseEnds
CHECK_DEADLOCK FALSE
