SPECIFICATION BridgeSpec
CONSTANTS
  t1 = t1
  t2 = t2
  main = main
  copy = copy
  test = test
  prod = prod
  Tool = {t1, t2}
  Variation = {main, copy}
  Default = main
  Env = {test, prod}
  Committed <- Versions
  MaxFaults = 1
  MaxMoves = 1
PROPERTY NothingDetached
CHECK_DEADLOCK FALSE
