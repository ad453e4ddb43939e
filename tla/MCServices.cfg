SPECIFICATION Spec
CONSTANTS
  NoDeadline = NoDeadline
  RateLock = 1
  MaxRows = 3
  MaxClock = 1
  PageLimit = 1
  Spans <- SpansMC
  Filters <- FiltersMC
  MaxMoves = 2
  Fetches = {f1, f2}
  NoBucket = NoBucket
  NoHeader = NoHeader
  Headers <- HeadersMC
  Limit = 2
  LimitWindow = 2
  MaxTick = 4
  Askers = {a1, a2}
  NoEntry = NoEntry
  RateLife = 1
  MaxMinute = 2
  Subscribers = {rawtx, rawblock}
  MAX_RECONNECT_ATTEMPTS = 2
  StaleAge = 1
  MaxRounds = 2
  KeyOf <- KeyOfMC
  NullIndex = NullIndex
  NoPackage = NoPackage
  MAX_BIP32_NON_HARDENED_INDEX = 2
  MaxSigned = 2
  MaxAlterations = 1
CHECK_DEADLOCK FALSE
INVARIANTS
  FiguresErrOnlyByMoves
  ListHasNoGaps
  TwiceTheLimitTakesAWindow
  RateIsNoOlderThanItSays
  PackagesAreAuthentic
PROPERTIES
  OpenPageCatchesUp
  SubscribersAreNotGivenUp
