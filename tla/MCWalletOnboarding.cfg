SPECIFICATION MCSpec
CONSTANTS
  Merchants = {m1, m2}
  Calls = {c1, c2}
  Offered <- MCOffered
  NodeChain = "main"
  ChallengeLife = 1
  MaxConfirmAttempts = 1
  CleanupBatch = 1
  MaxChallenges = 2
  MaxTime = 2
INVARIANTS
  TypeOK
  WalletsAreConfirmed
  AcceptsReceiveChains
PROPERTIES
  DeadChallengesMakeNothing
CHECK_DEADLOCK FALSE
