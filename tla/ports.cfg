SPECIFICATION Spec
CONSTANTS
  TypeMax = 5
  InternalType = 2
  Lines <- MCLines
  Junk = {"junk"}
INVARIANTS OptionsRead Compacted FreedOnce
CHECK_DEADLOCK FALSE
