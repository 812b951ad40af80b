SPECIFICATION FairSpec
CONSTANTS
  c1 = c1
  c2 = c2
  w1 = w1
  w2 = w2
  h1 = h1
  h2 = h2
  Manifest = {}
  Flag = {}
  Absent = Absent
  Malformed = Malformed
  Keyless = Keyless
  MaxVersion = 2
  Child = {c1, c2}
  Tagged = {c1}
  Watch = {w1, w2}
  Handler = {h1}
  AttachAttempts = 2
  PromptListing = TRUE
  PollErrorRetries = 1
  Fault = {}
  MaxFaults = 0
  MaxReleases = 2
PROPERTIES
  CompletionFollowed
CHECK_DEADLOCK FALSE
