SPECIFICATION Spec
CONSTANTS
  Slack <- AnySlack
  Outputs <- PortLists
  KeyBytes = 8
  PacketBytes = 6
INVARIANTS WholeWhenFits NothingElse
CHECK_DEADLOCK FALSE
