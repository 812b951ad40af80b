SPECIFICATION Spec
CONSTANTS
  web = web
  api = api
  m1 = m1
  m2 = m2
  m3 = m3
  f1 = f1
  f2 = f2
  NoFlag = NoFlag
  NoManifest = NoManifest
  Absent = Absent
  Malformed = Malformed
  Keyless = Keyless
  n1 = n1
  n2 = n2
  Handler = {n1, n2}
  Service = {api, web}
  Manifest = {m1, m2}
  Flag = {f1}
  MaxVersion = 2
  MaxSha = 1
  SideOf <- MCBackends
  Private = {}
  TipOf <- MCTip
  Policy <- MCPolicy
  History <- Overlapping
  PromptListing = FALSE
  QuietGuardrail = FALSE
  Fault = {"lost", "human", "crash"}
  MaxFaults = 1
  MaxReleases = 2
SYMMETRY Symmetric
CHECK_DEADLOCK FALSE
INVARIANTS
  OneWritePerFlag
