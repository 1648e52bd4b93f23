SPECIFICATION FairSpec
CONSTANTS
  SeqMod = 4
  MaxCalls = 4
  MaxParts = 2
  MaxFaults = 2
  MaxLosses = 1
CONSTRAINT ToldApart
INVARIANTS OwnReply OwnVerdict FreshParse DumpComplete CleanReturn
PROPERTIES CallReturns
CHECK_DEADLOCK FALSE
