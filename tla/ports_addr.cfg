SPECIFICATION Spec
CONSTANTS
  TypeMax = 5
  InternalType = 2
  Lines <- UsageLines
  Junk = {"#0", "junk"}
INVARIANTS AddrOptional
CHECK_DEADLOCK FALSE
