SPECIFICATION PullSpec
CONSTANTS
  j1 = j1
  j2 = j2
  Job = {j1, j2}
  Lists = {{"implementer", "reviewer"}}
  Host = {"github"}
  ModeFlag = {"always"}
  ModeEnv = {"unset"}
  MaxActs = 2
  Fault = {}
  MaxFaults = 0
PROPERTY LabelIsHeard
CHECK_DEADLOCK FALSE
