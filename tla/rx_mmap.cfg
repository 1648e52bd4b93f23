SPECIFICATION FairSpec
CONSTANTS
  FrameNr = 3
  Sockets <- BothModes
  MaxMsgs = 5
  MaxFaults = 0
INVARIANTS Lockstep
PROPERTIES Delivery IsChannel
CHECK_DEADLOCK FALSE
