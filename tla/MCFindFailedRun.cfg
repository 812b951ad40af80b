SPECIFICATION Spec
CONSTANTS
  Node = {"planner", "implementer", "metrics", "reviewer"}
  Entry = "planner"
  Graphs <- OnlyCommitted
  Tag <- MCTag
  Value <- MCValue
  RoutingTags <- MCRouting
  Results <- MCResults
  Content = {0, 1}
  Original = 0
  HardCap = 2
  GatedSteps = {"implementer"}
  PolicyMode = "risk-threshold"
  Threshold <- MCThreshold
  Percent <- MCPercent
  Refs = {"then", "now"}
  MaxGrant = 1
  MaxFresh = 1
  MaxResumes = 0
  MaxMoves = 0
PROPERTIES
  FailedRunStalls
CHECK_DEADLOCK FALSE
