CONSTANTS
  parent = parent
  child = child
  prod = prod
  errors = errors
  None = None
  Flag = {parent, child}
  Env = {prod}
  Metric = {errors}
  Production = prod
  MaxVersion = 2
  RateLimitRetries = 1
  ServerErrorRetries = 1
  Fault = {"429", "5xx", "network", "model", "git", "read"}
  MaxFaults = 1
  MaxWorld = 1
  PushMode = TRUE
  CodeChanges = TRUE
  Frontend = {parent}
  Ask = {None, 1}
  DocsBudget = 1
  RepoBudget = 1
  MaxEdits = 1
  Scenario <- MCScenario
  MaxTurns = 2
  MaxCalls = 1
  TransientRetries = 1
SPECIFICATION FairSpec

PROPERTY WiringIsNoOp
CHECK_DEADLOCK FALSE
