SPECIFICATION FairSpec
CONSTANTS
  dp0 = dp0
  in1 = in1
  eth1 = eth1
  gre1 = gre1
  gre2 = gre2
  Groups <- AllTypes
  Addressed = {dp0, in1}
  Others = {lo}
  Unset = unset
  MaxFaults = 2
  MaxCrashes = 1
INVARIANTS Ready CleanStart
PROPERTIES Recovers
CHECK_DEADLOCK FALSE
