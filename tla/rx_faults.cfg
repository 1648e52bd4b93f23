SPECIFICATION Spec
CONSTANTS
  FrameNr = 3
  Sockets <- AllSockets
  MaxMsgs = 7
  MaxFaults = 2
INVARIANTS FrameStable Accounted RecvReady Overtaken
CHECK_DEADLOCK FALSE
