SPECIFICATION FairSpec
CONSTANTS
  p1 = p1  t1 = t1  o1 = o1
  Payments <- SinglePayments
  Txids <- SingleTxids
  Outputs <- SingleOutputs
  TxOf <- SingleTxOf
  PaidTo <- SinglePaidTo
  Sats <- SingleSats
  Expected <- SingleExpected
  Required = 1
  Lock = 1
  Ticks = {"tick1", "tick2"}
  None = None
  NoDeadline = NoDeadline
  MaxTime = 2
  MaxBlocks = 1
  MaxMishaps = 2
PROPERTIES
  DeadlineIsEnforced
  LivePaymentsAreWatched
