SPECIFICATION ExecFairSpec
CONSTANTS
  FrameNr = 4
  MaxCalls = 10
  MaxFaults = 3
INVARIANTS AtMostOnce NoOverwrite Timely OwnAnswer RealSuccess
 
CHECK_DEADLOCK FALSE
