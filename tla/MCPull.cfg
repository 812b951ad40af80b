SPECIFICATION PullSpec
CONSTANTS
  j1 = j1
  j2 = j2
  Job = {j1, j2}
  Lists = {{"malformed"}, {"planner", "reviewer"}}
  Host = {"github", "gitlab"}
  ModeFlag = {"yolo", "manual"}
  ModeEnv = {"unset", "misspelled"}
  MaxActs = 2
  Fault = {"launch", "labels", "push", "host", "kill"}
  MaxFaults = 1
INVARIANTS
  PullTypeOK
  GatedWorkIsApproved
  VerdictFitsCommit
  LabelHasItsReader
CHECK_DEADLOCK FALSE
