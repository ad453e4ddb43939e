SPECIFICATION Spec
CONSTANTS
  Requests = {r1, r2, r3}
  Lock = 2
  MaxRetries = 2
  None = None
  NoDeadline = NoDeadline
  MaxTime = 4
  MaxFaults = 2
SYMMETRY RequestSymmetry
CHECK_DEADLOCK FALSE
INVARIANTS
  TypeOK
  OnePayablePerWindow
  AtMostTwoPayable
