SPECIFICATION BatchSpec
CONSTANTS
  p1 = p1  p2 = p2  t1 = t1  t2 = t2  t3 = t3
  o1 = o1  o2 = o2  o3 = o3  o4 = o4
  Payments <- BatchPayments
  Txids <- BatchTxids
  Outputs <- BatchOutputs
  TxOf <- BatchTxOf
  PaidTo <- BatchPaidTo
  Sats <- BatchSats
  Expected <- BatchExpected
  Required = 3
  Lock = 2
  Ticks = {"tick"}
  None = None
  NoDeadline = NoDeadline
  MaxTime = 2
  MaxBlocks = 3
  MaxMishaps = 1
INVARIANTS
  TypeOK
  FundedBeforeDeadline
  LedgerConsistent
  MailIsTruthful
PROPERTIES
  ConfirmationsNeverDecrease
