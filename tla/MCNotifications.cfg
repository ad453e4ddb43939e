SPECIFICATION FairSpec
CONSTANTS
  Notifs = {n1, n2}
  Ticks = {k1, k2}
  BatchSize = 1
  MaxAttempts = 2
  None = None
  MaxCalls = 3
  MaxMishaps = 1
CHECK_DEADLOCK FALSE
INVARIANTS
  TypeOK
  RecordIsTruthful
  PendingIsSelectable
  MailedOnce
PROPERTIES
  EachIsSettled
