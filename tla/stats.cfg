SPECIFICATION Spec
CONSTANTS
  Wrap = 3
  Sizes = {0, 2}
  MaxMessages = 3
  MaxPolls = 1
  MaxTicks = 4
  Shifts <- MCShifts
  MaxShifts = 1
INVARIANTS ReportsAdd IntervalsRight
CHECK_DEADLOCK FALSE
