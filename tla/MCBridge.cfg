SPECIFICATION BridgeSpec
CONSTANTS
  t1 = t1
  t2 = t2
  main = main
  copy = copy
  test = test
  prod = prod
  Tool = {t1, t2}
  Variation = {main, copy}
  Default = main
  Env = {prod}
  Committed <- Versions
  MaxFaults = 2
  MaxMoves = 1
INVARIANTS
  BridgeTypeOK
  UpgradeConverges
  NoSilentDrift
PROPERTIES
  OperatorsWordKept
  Heals
CHECK_DEADLOCK FALSE
