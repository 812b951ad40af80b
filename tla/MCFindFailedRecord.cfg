SPECIFICATION Spec
CONSTANTS
  web = web
  api = api
  m1 = m1
  m2 = m2
  m3 = m3
  f1 = f1
  f2 = f2
  NoFlag = NoFlag
  NoManifest = NoManifest
  Absent = Absent
  Malformed = Malformed
  Keyless = Keyless
  n1 = n1
  n2 = n2
  Handler = {n1}
  Service = {api}
  Manifest = {m1, m2}
  Flag = {f1, f2}
  MaxVersion = 2
  MaxSha = 2
  SideOf <- MCBackends
  Private = {}
  TipOf <- MCTip
  Policy <- MCPolicy
  History <- Unrelated
  PromptListing = TRUE
  QuietGuardrail = FALSE
  Fault = {"disk"}
  MaxFaults = 1
  MaxReleases = 4
INVARIANTS
  Accounted
