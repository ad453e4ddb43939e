SPECIFICATION Spec
CONSTANTS
  Requests = {r1, r2}
  Lock = 2
  MaxRetries = 2
  None = None
  NoDeadline = NoDeadline
  MaxTime = 3
  MaxFaults = 0
CHECK_DEADLOCK FALSE
INVARIANTS
  NoDuplicateInvoices
