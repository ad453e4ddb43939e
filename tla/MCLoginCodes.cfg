SPECIFICATION Spec
CONSTANTS
  Pages = {p1, p2}
  NoBucket = NoBucket
  Cooldown = 1
  CodeLife = 2
  Window = 2
  SessionLife = 1
  MaxAttempts = 1
  Limits <- LimitsMC
  MaxTime = 2
  MaxCodes = 2
  MaxFaults = 1
SYMMETRY PageSymmetry
CHECK_DEADLOCK FALSE
INVARIANTS
  TypeOK
  OneSessionPerCode
  GuessesAreBounded
PROPERTIES
  DeadCodesStayDead
