SPECIFICATION Spec
CONSTANTS
  key = key
  mainnet = mainnet
  testnet = testnet
  v1 = v1
  v2 = v2
  o1 = o1
  o2 = o2
  o3 = o3
  Versions = {v1, v2}
  Calls = {c1, c2}
  Keys <- KeysMC
  Drafts <- DraftsMC
  KeyOf <- KeyOfMC
  NetworkOf <- NetworkOfMC
  IndexLimit = 2
SYMMETRY Symmetry
CHECK_DEADLOCK FALSE
INVARIANTS
  TypeOK
  OneOperationOneAddress
  BurnedIsNobodys
PROPERTIES
  WithdrawnTakesNoMore
  Implements
