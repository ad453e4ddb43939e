SPECIFICATION Spec
CONSTANTS
  p1 = p1  t1 = t1  o1 = o1
  Payments <- SinglePayments
  Txids <- SingleTxids
  Outputs <- SingleOutputs
  TxOf <- SingleTxOf
  PaidTo <- SinglePaidTo
  Sats <- SingleSats
  Expected <- SingleExpected
  Required = 2
  Lock = 1
  Ticks = {"tick"}
  None = None
  NoDeadline = NoDeadline
  MaxTime = 2
  MaxBlocks = 3
  MaxMishaps = 2
INVARIANTS
  NoOvercount
  ConfirmedIsBuried
  FilterAgreesWithView
PROPERTIES
  NoDemotion
