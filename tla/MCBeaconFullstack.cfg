SPECIFICATION FairSpec
CONSTANTS
  web = web
  api = api
  m1 = m1
  m2 = m2
  m3 = m3
  f1 = f1
  f2 = f2
  NoFlag = NoFlag
  NoManifest = NoManifest
  Absent = Absent
  Malformed = Malformed
  Keyless = Keyless
  n1 = n1
  n2 = n2
  Handler = {n1}
  Service = {api, web}
  Manifest = {m1, m2, m3}
  Flag = {f1, f2}
  MaxVersion = 3
  MaxSha = 2
  SideOf <- MCSides
  Private = {}
  TipOf <- MCTip
  Policy <- MCPolicy
  History <- Steady
  PromptListing = TRUE
  QuietGuardrail = FALSE
  Fault = {"status", "lost", "refuse"}
  MaxFaults = 1
  MaxReleases = 4
PROPERTIES
  EventuallyReleased
