SPECIFICATION Spec
CONSTANTS
  MaxFds = 5
  Addrs = {a1, a2, a3, a4, a5}
  None = none
SYMMETRY AddrSymmetry
INVARIANTS Held NothingLost
CHECK_DEADLOCK FALSE
